---------------------------- MODULE Login_proofs ----------------------------
(***************************************************************************)
(* For any users, passwords and number of attempts: whoever presses the    *)
(* buttons of the login page one after the other ends on the other pages   *)
(* as one person.  The handlers install the keys at once and a goroutine   *)
(* the rest, reading the node's key late, so the invariant says what an    *)
(* attempt on its way has already settled, and that it is then alone.      *)
(* The lemmas leave open which other goroutines run, so that they serve    *)
(* the pages behind the login page as well (Browsing_proofs).              *)
(***************************************************************************)
EXTENDS Login, WellFoundedInduction, TLAPS

(* A sequence without its i-th element.                                    *)
LEMMA RemoveAtElements ==
    ASSUME NEW S, NEW s \in Seq(S), NEW i \in DOMAIN s
    PROVE  /\ RemoveAt(s, i) \in Seq(S)
           /\ Len(RemoveAt(s, i)) = Len(s) - 1
           /\ \A n \in 1..(Len(s) - 1) :
                 RemoveAt(s, i)[n] = IF n < i THEN s[n] ELSE s[n + 1]
<1>1. i \in 1..Len(s) OBVIOUS
<1> DEFINE front == SubSeq(s, 1, i - 1)
           back == SubSeq(s, i + 1, Len(s))
<1>2. front \in Seq(S) /\ Len(front) = i - 1 /\ \A n \in 1..(i - 1) : front[n] = s[n]
  BY <1>1
<1>3. /\ back \in Seq(S) /\ Len(back) = Len(s) - i
      /\ \A n \in 1..(Len(s) - i) : back[n] = s[n + i]
  BY <1>1
<1>4. RemoveAt(s, i) = front \o back BY DEF RemoveAt
<1> HIDE DEF front, back
<1>5. /\ front \o back \in Seq(S) /\ Len(front \o back) = Len(s) - 1
      /\ \A n \in 1..(Len(s) - 1) :
            (front \o back)[n] = IF n < i THEN front[n] ELSE back[n - (i - 1)]
  BY <1>1, <1>2, <1>3
<1>6. ASSUME NEW n \in 1..(Len(s) - 1)
      PROVE  RemoveAt(s, i)[n] = IF n < i THEN s[n] ELSE s[n + 1]
  <2>1. CASE n < i BY <1>1, <1>2, <1>4, <1>5, <2>1
  <2>2. CASE ~(n < i)
    <3>1. n - (i - 1) \in 1..(Len(s) - i) BY <1>1, <2>2
    <3>2. back[n - (i - 1)] = s[(n - (i - 1)) + i] BY <1>3, <3>1
    <3>3. (n - (i - 1)) + i = n + 1 BY <1>1
    <3>4. QED BY <1>1, <1>4, <1>5, <2>2, <3>2, <3>3
  <2>3. QED BY <2>1, <2>2
<1>7. QED BY <1>4, <1>5, <1>6

(* The only element removed leaves none.                                   *)
LEMMA RemoveOnly ==
    ASSUME NEW r PROVE RemoveAt(<<r>>, 1) = << >>
BY DEF RemoveAt

(* RemoveFirst takes one occurrence away, when there is one.               *)
LEMMA RemoveFirstAt ==
    ASSUME NEW S, NEW s \in Seq(S), NEW e
    PROVE  \/ RemoveFirst(s, e) = s /\ ~Contains(s, e)
           \/ \E i \in DOMAIN s : s[i] = e /\ RemoveFirst(s, e) = RemoveAt(s, i)
<1>1. CASE \E i \in 1..Len(s) : s[i] = e
  <2> DEFINE I == {i \in 1..Len(s) : s[i] = e}
             R == {ss \in Nat \X Nat : ss[1] < ss[2]}
  <2>1. RemoveFirst(s, e) = RemoveAt(s, Min(I))
    BY <1>1 DEF RemoveFirst, SelectInSeq
  <2>2. I \subseteq Nat /\ I # {} BY <1>1
  <2>3. IsWellFoundedOn(R, Nat) BY NatLessThanWellFounded DEF OpToRel
  <2>4. \E x \in I : \A y \in I : ~(<<y, x>> \in R)
    <3> HIDE DEF R, I
    <3> QED BY <2>2, <2>3, WFMin
  <2>5. \E x \in I : \A y \in I : x =< y
    <3>1. PICK x \in I : \A y \in I : ~(<<y, x>> \in R) BY <2>4
    <3>2. ASSUME NEW y \in I, y < x PROVE <<y, x>> \in R BY <2>2, <3>2
    <3>3. \A y \in I : ~(y < x) BY <3>1, <3>2
    <3>4. QED BY <3>3
  <2>6. Min(I) \in I
    <3> HIDE DEF I
    <3> QED BY <2>5 DEF Min
  <2>7. Min(I) \in DOMAIN s /\ s[Min(I)] = e BY <2>6
  <2>8. QED BY <2>1, <2>7
<1>2. CASE ~ \E i \in 1..Len(s) : s[i] = e
  BY <1>2 DEF RemoveFirst, Contains
<1>3. QED BY <1>1, <1>2

(* Where every page occurs once, RemoveFirst takes that page off and leaves*)
(* the others.                                                             *)
LEMMA RemoveFirstPage ==
    ASSUME NEW S, NEW s \in Seq(S), IsInjective(s), NEW e
    PROVE  /\ RemoveFirst(s, e) \in Seq(S) /\ IsInjective(RemoveFirst(s, e))
           /\ \A p : Contains(RemoveFirst(s, e), p) <=> Contains(s, p) /\ p # e
<1>1. CASE RemoveFirst(s, e) = s /\ ~Contains(s, e)
  BY <1>1 DEF Contains
<1>2. ASSUME NEW i \in DOMAIN s, s[i] = e, RemoveFirst(s, e) = RemoveAt(s, i)
      PROVE  /\ RemoveFirst(s, e) \in Seq(S) /\ IsInjective(RemoveFirst(s, e))
             /\ \A p : Contains(RemoveFirst(s, e), p) <=> Contains(s, p) /\ p # e
  <2> DEFINE t == RemoveFirst(s, e)
  <2>1. /\ t \in Seq(S) /\ Len(t) = Len(s) - 1
        /\ \A n \in 1..(Len(s) - 1) : t[n] = IF n < i THEN s[n] ELSE s[n + 1]
    BY <1>2, RemoveAtElements
  <2>2. Len(s) \in Nat /\ i \in 1..Len(s) OBVIOUS
  <2> HIDE DEF t
  <2>3. \A m, n \in 1..Len(s) : s[m] = s[n] => m = n BY DEF IsInjective
  <2>4. \A m, n \in 1..(Len(s) - 1) : t[m] = t[n] => m = n
    BY <2>1, <2>2, <2>3
  <2>5. IsInjective(t) BY <2>1, <2>4 DEF IsInjective
  <2>6. ASSUME NEW p PROVE Contains(t, p) <=> Contains(s, p) /\ p # e
    <3>1. ASSUME NEW n \in 1..Len(t), t[n] = p PROVE Contains(s, p) /\ p # e
      <4>1. PICK m \in 1..Len(s) : m # i /\ s[m] = p
        BY <2>1, <2>2, <3>1
      <4>2. QED BY <1>2, <2>2, <2>3, <4>1 DEF Contains
    <3>2. ASSUME NEW n \in 1..Len(s), s[n] = p, p # e PROVE Contains(t, p)
      <4>1. CASE n < i BY <2>1, <2>2, <3>2, <4>1 DEF Contains
      <4>2. CASE n > i
        <5>1. n - 1 \in 1..(Len(s) - 1) /\ ~(n - 1 < i) /\ (n - 1) + 1 = n BY <2>2, <4>2
        <5>2. QED BY <2>1, <3>2, <5>1 DEF Contains
      <4>3. QED BY <1>2, <2>2, <3>2, <4>1, <4>2
    <3>3. QED BY <3>1, <3>2 DEF Contains
  <2>7. QED BY <2>1, <2>5, <2>6 DEF t
<1>3. QED BY <1>1, <1>2, RemoveFirstAt

(* A page put in front of others that lack it.                             *)
LEMMA AppendPage ==
    ASSUME NEW S, NEW s \in Seq(S), IsInjective(s), NEW e \in S, ~Contains(s, e)
    PROVE  /\ Append(s, e) \in Seq(S) /\ IsInjective(Append(s, e))
           /\ \A p : Contains(Append(s, e), p) <=> Contains(s, p) \/ p = e
<1>1. /\ Append(s, e) \in Seq(S) /\ Len(Append(s, e)) = Len(s) + 1 /\ Len(s) \in Nat
      /\ \A n \in 1..Len(s) : Append(s, e)[n] = s[n]
      /\ Append(s, e)[Len(s) + 1] = e
  OBVIOUS
<1>2. \A n \in 1..Len(s) : s[n] # e BY DEF Contains
<1>3. \A m, n \in 1..Len(s) : s[m] = s[n] => m = n BY DEF IsInjective
<1> DEFINE t == Append(s, e)
<1> HIDE DEF t
<1>4. \A m, n \in 1..(Len(s) + 1) : t[m] = t[n] => m = n BY <1>1, <1>2, <1>3 DEF t
<1>5. IsInjective(t) BY <1>1, <1>4 DEF IsInjective, t
<1>6. ASSUME NEW p PROVE Contains(t, p) <=> Contains(s, p) \/ p = e
  <2>1. (\E n \in 1..(Len(s) + 1) : t[n] = p) <=> (\E n \in 1..Len(s) : s[n] = p) \/ p = e
    BY <1>1 DEF t
  <2>2. QED BY <1>1, <2>1 DEF Contains, t
<1>7. QED BY <1>1, <1>5, <1>6 DEF t

-----------------------------------------------------------------------------
(* Each page is shown once, and the button of the error dialog leads       *)
(* somewhere only while the dialog is there.                               *)
ScreenOK ==
    /\ base \in {"login", "browse", "chat", "off"}
    /\ over \in Seq(Overlay) /\ IsInjective(over)
    /\ then \in {"stay", "browse", "login"}
    /\ then # "stay" => Visible("error")

LEMMA SwitchShows ==
    ASSUME NEW page \in {"login", "browse", "chat", "off"}, base' = page, over' = << >>,
           then' = "stay"
    PROVE  ScreenOK' /\ \A p : ~Contains(over', p)
<1>1. IsInjective(<< >>) /\ \A p : ~Contains(<< >>, p) BY DEF IsInjective, Contains
<1>2. QED BY <1>1 DEF ScreenOK, Visible

LEMMA AddShows ==
    ASSUME ScreenOK, NEW page \in Overlay, AddPage(page)
    PROVE  ScreenOK' /\ \A p : Contains(over', p) <=> Visible(p) \/ p = page
<1>1. /\ Without(page) \in Seq(Overlay) /\ IsInjective(Without(page))
      /\ \A p : Contains(Without(page), p) <=> Visible(p) /\ p # page
  BY RemoveFirstPage DEF ScreenOK, Without, Visible
<1>2. /\ over' \in Seq(Overlay) /\ IsInjective(over')
      /\ \A p : Contains(over', p) <=> Contains(Without(page), p) \/ p = page
  <2>1. over' = Append(Without(page), page) BY DEF AddPage
  <2>2. ~Contains(Without(page), page) BY <1>1
  <2>3. QED BY <1>1, <2>1, <2>2, AppendPage
<1>3. QED BY <1>1, <1>2 DEF ScreenOK, AddPage, Visible

LEMMA RemoveShows ==
    ASSUME ScreenOK, NEW page, page # "error" \/ then = "stay", RemovePage(page)
    PROVE  ScreenOK' /\ \A p : Contains(over', p) <=> Visible(p) /\ p # page
<1>1. /\ over' \in Seq(Overlay) /\ IsInjective(over')
      /\ \A p : Contains(over', p) <=> Visible(p) /\ p # page
  BY RemoveFirstPage DEF ScreenOK, RemovePage, Without, Visible
<1>2. QED BY <1>1 DEF ScreenOK, RemovePage, Visible

LEMMA ErrorShows ==
    ASSUME ScreenOK, NEW next \in {"stay", "browse", "login"}, ShowError(next)
    PROVE  /\ ScreenOK' /\ base' = base /\ then' = next
           /\ \A p : Contains(over', p) <=> Visible(p) \/ p = "error"
<1>1. /\ Without("error") \in Seq(Overlay) /\ IsInjective(Without("error"))
      /\ \A p : Contains(Without("error"), p) <=> Visible(p) /\ p # "error"
  BY RemoveFirstPage DEF ScreenOK, Without, Visible
<1>2. /\ over' \in Seq(Overlay) /\ IsInjective(over')
      /\ \A p : Contains(over', p) <=> Contains(Without("error"), p) \/ p = "error"
  <2>1. over' = Append(Without("error"), "error") BY DEF ShowError
  <2>2. ~Contains(Without("error"), "error") /\ "error" \in Overlay BY <1>1 DEF Overlay
  <2>3. QED BY <1>1, <2>1, <2>2, AppendPage
<1>3. QED BY <1>1, <1>2 DEF ScreenOK, ShowError, Visible

LEMMA DismissShows ==
    ASSUME ScreenOK, Dismiss
    PROVE  /\ ScreenOK'
           /\ \A p : Contains(over', p) => Visible(p) /\ base' = base
           /\ then = "stay" => UNCHANGED <<base, then>>
<1>1. CASE RemovePage("toast") \/ (then = "stay" /\ RemovePage("error"))
  <2>1. ScreenOK' /\ \A p : Contains(over', p) => Visible(p) BY <1>1, RemoveShows
  <2>2. QED BY <1>1, <2>1 DEF RemovePage
<1>2. CASE then # "stay" /\ SwitchToPage(then)
  <2>1. then \in {"browse", "login"} BY <1>2 DEF ScreenOK
  <2>2. ScreenOK' /\ \A p : ~Contains(over', p)
    BY <1>2, <2>1, SwitchShows DEF SwitchToPage
  <2>3. QED BY <1>2, <2>2
<1>3. QED BY <1>1, <1>2 DEF Dismiss

-----------------------------------------------------------------------------
Attempt == [kind : {"login"}, pc : {"db", "node", "shown"}, name : User]
File == {Absent, Torn} \cup {Whole(p, k) : p \in Pass, k \in Keys}

(* The keys in use are the user's, on the disk.                            *)
Saved == profile[me.name].state = "whole" /\ profile[me.name].keys = me.keys

(* An attempt has settled more the further it is.                          *)
Settles(r) ==
    /\ r.name = me.name /\ pk = me.keys /\ Saved
    /\ r.pc # "db" => db = me.name
    /\ r.pc = "shown" => host = me.keys

(* Nothing has been tried in this process, or it failed; one attempt is on *)
(* its way, alone; or one was the last to arrive.  In the last case there  *)
(* may be other goroutines, and the screen may show any page.              *)
Still == base \in {"login", "off"} /\ then = "stay" /\ routines = << >>
Trying == base = "login" /\ then = "stay" /\ \E r \in Attempt : routines = <<r>> /\ Settles(r)
Agreed == ~Running({"login"}) /\ me.name = db /\ me.keys = host /\ Saved

OneAtATime == ~hasty => Still \/ Trying \/ Agreed

(* A file is whole with a password and keys, or holds none.                *)
LEMMA FileKeys ==
    ASSUME NEW f \in File, f.state = "whole"
    PROVE  f.keys \in Keys
BY DEF File, Absent, Torn, Whole

(* What starts is well typed, and nothing has been tried.                  *)
LEMMA FreshStarts ==
    ASSUME Fresh
    PROVE  /\ ScreenOK /\ OneAtATime /\ routines = << >>
           /\ me \in [name : User \cup {NoUser}, keys : Keys]
           /\ pk \in Keys /\ host \in Keys /\ db \in User \cup {NoUser}
<1>1. 0 \in Keys BY LoginAssumption DEF Keys
<1>2. ScreenOK
  BY DEF Fresh, ScreenOK, IsInjective
<1>3. QED BY <1>1, <1>2 DEF Fresh, Nobody, OneAtATime, Still

LEMMA InitTyped == ASSUME LoginInit PROVE LoginTypeOK
<1>1. 0 \in 0..MaxLogins BY LoginAssumption
<1>2. QED BY <1>1, FreshStarts DEF LoginInit, LoginTypeOK

-----------------------------------------------------------------------------
(* Type correctness is kept by every step, whatever other goroutines there *)
(* are: S has the attempts and anything that is not called one.            *)
LEMMA OffTyped ==
    ASSUME NEW page \in {"login", "off"}, Off(page)
    PROVE  /\ ScreenOK' /\ OneAtATime' /\ routines' = << >> /\ joined' = {}
           /\ \A p : ~Contains(over', p)
           /\ me' \in [name : User \cup {NoUser}, keys : Keys]
           /\ pk' \in Keys /\ host' \in Keys /\ db' \in User \cup {NoUser}
<1>1. 0 \in Keys BY LoginAssumption DEF Keys
<1>2. ScreenOK' /\ \A p : ~Contains(over', p) BY SwitchShows DEF Off
<1>3. QED BY <1>1, <1>2 DEF Off, Nobody, OneAtATime, Still

LEMMA ProcessTyped ==
    ASSUME LoginTypeOK, ProcessStep
    PROVE  /\ LoginTypeOK' /\ ScreenOK' /\ OneAtATime' /\ routines' = << >> /\ joined' = {}
           /\ \A p : ~Contains(over', p)
<1>1. PICK page \in {"login", "off"} : Off(page)
  BY DEF ProcessStep, Exit, Restart, CutOff
<1>2. profile' \in [User -> File] /\ logins' \in 0..MaxLogins
  <2>1. CASE UNCHANGED <<profile, logins>> BY <2>1 DEF LoginTypeOK, File
  <2>2. ASSUME NEW u \in User, CutOff(u)
        PROVE  profile' \in [User -> File] /\ logins' \in 0..MaxLogins
    BY <2>2, LoginAssumption DEF CutOff, LoginTypeOK, File
  <2>3. QED BY <2>1, <2>2 DEF ProcessStep, Exit, Restart
<1>3. QED BY <1>1, <1>2, OffTyped DEF LoginTypeOK, File

LEMMA ProceedTyped ==
    ASSUME LoginTypeOK, NEW S, Attempt \subseteq S, routines \in Seq(S),
           NEW u \in User, NEW k \in Keys, Proceed(u, k)
    PROVE  /\ me' \in [name : User \cup {NoUser}, keys : Keys]
           /\ pk' \in Keys /\ host' \in Keys /\ db' \in User \cup {NoUser}
           /\ routines' \in Seq(S)
<1> USE DEF LoginTypeOK, Proceed
<1>1. me' \in [name : User \cup {NoUser}, keys : Keys] OBVIOUS
<1>2. pk' \in Keys /\ host' \in Keys /\ db' \in User \cup {NoUser} OBVIOUS
<1>3. [kind |-> "login", pc |-> "db", name |-> u] \in Attempt BY DEF Attempt
<1>4. routines' \in Seq(S) BY <1>3
<1>5. QED BY <1>1, <1>2, <1>4

LEMMA AttemptTyped ==
    ASSUME LoginTypeOK, NEW S, Attempt \subseteq S, routines \in Seq(S),
           \A x \in S : x.kind = "login" => x \in Attempt,
           NEW i \in DOMAIN routines,
           InitSessionDB(i) \/ InitNode(i) \/ InitNodeFails(i)
    PROVE  LoginTypeOK' /\ routines' \in Seq(S)
<1> USE DEF LoginTypeOK
<1>1. routines[i] \in S OBVIOUS
<1>2. routines[i] \in Attempt
  BY <1>1 DEF InitSessionDB, InitNode, InitNodeFails, At
<1>3. \A pc \in {"node", "shown"} : [routines[i] EXCEPT !.pc = pc] \in S
  BY <1>2 DEF Attempt
<1>4. RemoveAt(routines, i) \in Seq(S) BY RemoveAtElements
<1>5. CASE InitSessionDB(i)
  <2>1. routines' \in Seq(S)
    <3>1. CASE Becomes(i, [routines[i] EXCEPT !.pc = "node"]) BY <1>3, <3>1 DEF Becomes
    <3>2. CASE Ends(i) BY <1>4, <3>2 DEF Ends
    <3>3. QED BY <1>5, <3>1, <3>2 DEF InitSessionDB
  <2>2. db' \in User \cup {NoUser} BY <1>2, <1>5 DEF InitSessionDB, Attempt
  <2>3. QED BY <1>5, <2>1, <2>2 DEF InitSessionDB, Keys, File
<1>6. CASE InitNode(i)
  <2>1. routines' \in Seq(S) BY <1>3, <1>6 DEF InitNode, Becomes
  <2>2. QED BY <1>6, <2>1 DEF InitNode, Keys
<1>7. CASE InitNodeFails(i)
  <2>1. routines' \in Seq(S) BY <1>4, <1>7 DEF InitNodeFails, Ends
  <2>2. QED BY <1>7, <2>1 DEF InitNodeFails, Keys
<1>8. QED BY <1>5, <1>6, <1>7

LEMMA LoginStepTyped ==
    ASSUME LoginTypeOK, NEW S, Attempt \subseteq S, routines \in Seq(S),
           \A x \in S : x.kind = "login" => x \in Attempt, LoginStep
    PROVE  LoginTypeOK' /\ routines' \in Seq(S)
<1> USE DEF LoginTypeOK
<1>0. ASSUME Press PROVE logins' \in 0..MaxLogins /\ logins' \in Keys
  BY <1>0, LoginAssumption DEF Press, Keys
<1>1. ASSUME NEW u \in User, NEW p \in Pass, LoginHandler(u, p)
      PROVE  LoginTypeOK' /\ routines' \in Seq(S)
  <2>1. UNCHANGED profile /\ logins' \in 0..MaxLogins BY <1>0, <1>1 DEF LoginHandler
  <2>2. CASE LoadProfile(u, p)
    <3>1. profile[u].keys \in Keys BY <2>2, FileKeys DEF File, LoadProfile
    <3>2. Proceed(u, profile[u].keys) BY <1>1, <2>2 DEF LoginHandler
    <3>3. QED BY <2>1, <3>1, <3>2, ProceedTyped DEF Keys
  <2>3. CASE ~LoadProfile(u, p)
    BY <1>1, <2>1, <2>3 DEF LoginHandler, account, Keys
  <2>4. QED BY <2>2, <2>3
<1>2. ASSUME NEW u \in User, NEW p \in Pass, CreateUserHandler(u, p)
      PROVE  LoginTypeOK' /\ routines' \in Seq(S)
  <2>1. logins' \in 0..MaxLogins /\ logins' \in Keys BY <1>0, <1>2 DEF CreateUserHandler
  <2>2. profile' \in [User -> File] BY <1>2, <2>1 DEF CreateUserHandler, GenerateProfile, File
  <2>3. QED BY <1>2, <2>1, <2>2, ProceedTyped DEF CreateUserHandler, Keys, File
<1>3. ASSUME NEW u \in User, NEW p \in Pass, EncodeFails(u, p)
      PROVE  LoginTypeOK' /\ routines' \in Seq(S)
  <2>1. logins' \in 0..MaxLogins BY <1>0, <1>3 DEF EncodeFails
  <2>2. QED BY <1>3, <2>1 DEF EncodeFails, account, Keys
<1>4. CASE Dismiss /\ UNCHANGED login
  BY <1>4 DEF Dismiss, login, account, Keys
<1>5. QED BY <1>1, <1>2, <1>3, <1>4, AttemptTyped DEF LoginStep

LEMMA SwitchTyped ==
    ASSUME LoginTypeOK, NEW S, Go("browse") \in S, routines \in Seq(S),
           NEW i \in DOMAIN routines, SwitchToBrowseScreen(i)
    PROVE  LoginTypeOK' /\ ScreenOK' /\ routines' \in Seq(S) /\ \A p : ~Contains(over', p)
<1>1. RemoveAt(routines, i) \in Seq(S) BY RemoveAtElements
<1>2. routines' \in Seq(S) BY <1>1 DEF SwitchToBrowseScreen
<1>3. ScreenOK' /\ \A p : ~Contains(over', p)
  BY SwitchShows DEF SwitchToBrowseScreen, SwitchToPage
<1>4. QED BY <1>2, <1>3 DEF SwitchToBrowseScreen, login, account, LoginTypeOK, Keys

(* On the login page only errors come up, and what was visible is left     *)
(* alone while the page stays.                                             *)
LEMMA LoginStepShows ==
    ASSUME ScreenOK, LoginStep
    PROVE  ScreenOK' /\ \A p : Contains(over', p) => p = "error" \/ (Visible(p) /\ base' = base)
<1>1. CASE ShowError("stay") BY <1>1, ErrorShows
<1>2. CASE UNCHANGED <<base, over, then>> BY <1>2 DEF ScreenOK, Visible
<1>3. CASE Dismiss BY <1>3, DismissShows
<1>4. QED
  BY <1>1, <1>2, <1>3
  DEF LoginStep, LoginHandler, CreateUserHandler, EncodeFails, Proceed, InitSessionDB,
      InitNode, InitNodeFails, Press

(* No login subscribes to anything; a new node drops what was joined.      *)
LEMMA LoginStepJoined == ASSUME LoginStep PROVE joined' \in {joined, {}}
BY DEF LoginStep, LoginHandler, CreateUserHandler, EncodeFails, Proceed, InitSessionDB,
       InitNode, InitNodeFails, Press, account, login

-----------------------------------------------------------------------------
(* A user who was not hasty pressed the button with nothing else going on. *)
LEMMA PressAlone ==
    ASSUME ScreenOK, OneAtATime, Press, ~hasty'
    PROVE  ~hasty /\ routines = << >> /\ then = "stay" /\ base = "login"
<1>1. ~hasty /\ routines = << >> /\ over = << >> BY DEF Press
<1>2. then = "stay" BY <1>1 DEF ScreenOK, Visible, Contains
<1>3. QED BY <1>1, <1>2 DEF Press

(* An attempt begins with what its file says.                              *)
LEMMA ProceedAlone ==
    ASSUME ScreenOK, OneAtATime, Press, NEW u \in User, NEW k \in Keys, Proceed(u, k),
           profile'[u].state = "whole", profile'[u].keys = k
    PROVE  OneAtATime'
<1> SUFFICES ASSUME ~hasty' PROVE (Still \/ Trying \/ Agreed)'
  BY DEF OneAtATime
<1>1. routines = << >> /\ then = "stay" /\ base = "login" BY PressAlone
<1>2. CASE ShowError("stay") /\ UNCHANGED <<pk, routines>>
  BY <1>1, <1>2 DEF ShowError, Still
<1>3. CASE /\ pk' = k /\ UNCHANGED <<base, over, then>>
           /\ routines' = Append(routines, [kind |-> "login", pc |-> "db", name |-> u])
  <2> DEFINE r == [kind |-> "login", pc |-> "db", name |-> u]
  <2>1. r \in Attempt BY DEF Attempt
  <2>2. routines' = <<r>> BY <1>1, <1>3
  <2>3. Settles(r)' BY <1>3 DEF Settles, Saved, Proceed
  <2>4. QED BY <1>1, <1>3, <2>1, <2>2, <2>3 DEF Trying
<1>4. QED BY <1>2, <1>3 DEF Proceed

(* One that fails leaves nothing behind that runs.                         *)
LEMMA PressFails ==
    ASSUME ScreenOK, OneAtATime, Press, ShowError("stay"), UNCHANGED routines
    PROVE  OneAtATime'
BY PressAlone DEF OneAtATime, Still, ShowError, Press

(* While an attempt is on its way it is the only goroutine.                *)
LEMMA TheAttempt ==
    ASSUME OneAtATime, ~hasty, NEW i \in DOMAIN routines, routines[i].kind = "login"
    PROVE  /\ i = 1 /\ base = "login" /\ routines[i] \in Attempt
           /\ routines = <<routines[i]>> /\ Settles(routines[i]) /\ then = "stay"
<1>1. CASE Still BY <1>1 DEF Still
<1>2. CASE Agreed BY <1>2 DEF Agreed, Running
<1>3. CASE Trying BY <1>3 DEF Trying
<1>4. QED BY <1>1, <1>2, <1>3 DEF OneAtATime

(* It goes from step to step, and what it has settled stays.               *)
LEMMA AttemptAlone ==
    ASSUME OneAtATime, NEW i \in DOMAIN routines,
           InitSessionDB(i) \/ InitNode(i) \/ InitNodeFails(i) \/ SwitchToBrowseScreen(i)
    PROVE  OneAtATime'
<1> SUFFICES ASSUME ~hasty' PROVE (Still \/ Trying \/ Agreed)'
  BY DEF OneAtATime
<1>1. ~hasty /\ routines[i].kind = "login"
  BY DEF InitSessionDB, InitNode, InitNodeFails, SwitchToBrowseScreen, At
<1> DEFINE r == routines[i]
<1>2. i = 1 /\ base = "login" /\ r \in Attempt /\ routines = <<r>> /\ Settles(r)
      /\ then = "stay"
  BY <1>1, TheAttempt
<1>who. PICK who \in User : r.name = who BY <1>2 DEF Attempt
<1>3. ASSUME Ends(i) PROVE routines' = << >>
  BY <1>2, <1>3, RemoveOnly DEF Ends
<1>4. ASSUME NEW pc \in {"node", "shown"}, Becomes(i, [r EXCEPT !.pc = pc])
      PROVE  LET n == [kind |-> "login", pc |-> pc, name |-> who]
             IN  routines' = <<n>> /\ n \in Attempt
  <2>1. [r EXCEPT !.pc = pc] = [kind |-> "login", pc |-> pc, name |-> who]
    BY <1>2, <1>who DEF Attempt
  <2>2. routines' = <<[r EXCEPT !.pc = pc]>> BY <1>2, <1>4 DEF Becomes
  <2>3. QED BY <1>2, <2>1, <2>2 DEF Attempt
<1>5. CASE InitSessionDB(i)
  <2>1. CASE ShowError("stay") /\ Ends(i)
    BY <1>2, <1>3, <2>1 DEF ShowError, Still
  <2>2. CASE /\ db' = r.name /\ Becomes(i, [r EXCEPT !.pc = "node"])
             /\ UNCHANGED <<base, over, then>>
    <3> DEFINE n == [kind |-> "login", pc |-> "node", name |-> who]
    <3>1. routines' = <<n>> /\ n \in Attempt BY <1>4, <2>2
    <3>2. Settles(n)' BY <1>2, <1>who, <1>5, <2>2 DEF Settles, Saved, InitSessionDB
    <3>3. QED BY <1>2, <2>2, <3>1, <3>2 DEF Trying
  <2>3. QED BY <1>5, <2>1, <2>2 DEF InitSessionDB
<1>6. CASE InitNode(i)
  <2> DEFINE n == [kind |-> "login", pc |-> "shown", name |-> who]
  <2>1. routines' = <<n>> /\ n \in Attempt BY <1>4, <1>6 DEF InitNode
  <2>2. db = me.name /\ r.pc = "node" BY <1>2, <1>6 DEF InitNode, At, Settles
  <2>3. Settles(n)' BY <1>2, <1>who, <1>6, <2>2 DEF Settles, Saved, InitNode
  <2>4. QED BY <1>2, <1>6, <2>1, <2>3 DEF Trying, InitNode
<1>7. CASE InitNodeFails(i)
  BY <1>2, <1>3, <1>7 DEF InitNodeFails, ShowError, Still
<1>8. CASE SwitchToBrowseScreen(i)
  <2>1. routines' = <<Go("browse")>>
    <3>1. RemoveAt(routines, i) = << >> BY <1>2, RemoveOnly
    <3>2. QED BY <1>8, <3>1 DEF SwitchToBrowseScreen
  <2>2. ~Running({"login"})' BY <2>1 DEF Running, Go
  <2>3. me.name = db /\ me.keys = host /\ Saved
    BY <1>2, <1>8 DEF Settles, SwitchToBrowseScreen, At
  <2>4. (me.name = db /\ me.keys = host /\ Saved)'
    BY <1>8, <2>3 DEF SwitchToBrowseScreen, login, account, Saved
  <2>5. QED BY <2>2, <2>4 DEF Agreed
<1>9. QED BY <1>5, <1>6, <1>7, <1>8

LEMMA LoginStepAlone ==
    ASSUME LoginTypeOK, ScreenOK, OneAtATime, LoginStep
    PROVE  OneAtATime'
<1>1. ASSUME NEW u \in User, NEW p \in Pass, LoginHandler(u, p) PROVE OneAtATime'
  <2>1. Press /\ UNCHANGED profile BY <1>1 DEF LoginHandler
  <2>2. CASE LoadProfile(u, p)
    <3>1. profile[u].keys \in Keys BY <2>2, FileKeys DEF LoginTypeOK, File, LoadProfile
    <3>2. Proceed(u, profile[u].keys) BY <1>1, <2>2 DEF LoginHandler
    <3>3. QED BY <2>1, <2>2, <3>1, <3>2, ProceedAlone DEF LoadProfile
  <2>3. CASE ~LoadProfile(u, p)
    BY <1>1, <2>1, <2>3, PressFails DEF LoginHandler
  <2>4. QED BY <2>2, <2>3
<1>2. ASSUME NEW u \in User, NEW p \in Pass, CreateUserHandler(u, p) PROVE OneAtATime'
  <2>1. Press /\ Proceed(u, logins') BY <1>2 DEF CreateUserHandler
  <2>2. logins' \in Keys BY <2>1, LoginAssumption DEF Press, Keys, LoginTypeOK
  <2>3. profile'[u] = Whole(p, logins')
    BY <1>2 DEF CreateUserHandler, GenerateProfile, LoginTypeOK
  <2>4. QED BY <2>1, <2>2, <2>3, ProceedAlone DEF Whole
<1>3. ASSUME NEW u \in User, NEW p \in Pass, EncodeFails(u, p) PROVE OneAtATime'
  BY <1>3, PressFails DEF EncodeFails
<1>4. CASE Dismiss /\ UNCHANGED login
  <2> SUFFICES ASSUME ~hasty PROVE (Still \/ Trying \/ Agreed)'
    BY <1>4 DEF Dismiss, OneAtATime
  <2>1. UNCHANGED <<routines, hasty, login>> BY <1>4 DEF Dismiss
  <2>2. CASE Agreed BY <2>1, <2>2 DEF Agreed, Running, Saved, login, account
  <2>3. CASE then = "stay" /\ (Still \/ Trying)
    <3>1. UNCHANGED <<base, then>> BY <1>4, <2>3, DismissShows
    <3>2. QED BY <2>1, <2>3, <3>1 DEF Still, Trying, Settles, Saved, login, account
  <2>4. QED BY <2>2, <2>3 DEF OneAtATime, Still, Trying
<1>5. QED BY <1>1, <1>2, <1>3, <1>4, AttemptAlone DEF LoginStep

-----------------------------------------------------------------------------
(* The login page by itself, as far as the browse page's first goroutine.  *)
loginVars == <<screen, login>>

LInv ==
    /\ LoginTypeOK /\ ScreenOK /\ OneAtATime
    /\ routines \in Seq(Attempt \cup {Go("browse")})

LEMMA NextLInv == ASSUME LInv, [LoginNext]_loginVars PROVE LInv'
<1> DEFINE S == Attempt \cup {Go("browse")}
<1>1. /\ Attempt \subseteq S /\ Go("browse") \in S /\ routines \in Seq(S)
      /\ \A x \in S : x.kind = "login" => x \in Attempt
  BY DEF LInv, Go
<1> HIDE DEF S
<1>2. ASSUME LoginTypeOK', ScreenOK', OneAtATime', routines' \in Seq(S) PROVE LInv'
  BY <1>2 DEF LInv, S, Attempt, Go
<1>3. CASE UNCHANGED loginVars
  <2>1. UNCHANGED <<screen, login>> BY <1>3 DEF loginVars
  <2>2. LoginTypeOK' BY <2>1 DEF LInv, login, account, LoginTypeOK, Keys
  <2>3. ScreenOK' BY <2>1 DEF LInv, screen, ScreenOK, Visible
  <2>4. OneAtATime'
    BY <2>1 DEF LInv, screen, login, account, OneAtATime, Still, Trying, Agreed, Running,
                Settles, Saved
  <2>5. QED BY <1>1, <1>2, <2>1, <2>2, <2>3, <2>4 DEF screen
<1>4. CASE ProcessStep
  <2>1. routines' \in Seq(S) /\ LoginTypeOK' /\ ScreenOK' /\ OneAtATime'
    BY <1>4, ProcessTyped DEF LInv
  <2>2. QED BY <1>2, <2>1
<1>5. CASE LoginStep
  <2>1. LoginTypeOK' /\ routines' \in Seq(S) BY <1>1, <1>5, LoginStepTyped DEF LInv
  <2>2. ScreenOK' BY <1>5, LoginStepShows DEF LInv
  <2>3. OneAtATime' BY <1>5, LoginStepAlone DEF LInv
  <2>4. QED BY <1>2, <2>1, <2>2, <2>3
<1>6. ASSUME NEW i \in DOMAIN routines, SwitchToBrowseScreen(i) PROVE LInv'
  <2>1. LoginTypeOK' /\ ScreenOK' /\ routines' \in Seq(S)
    BY <1>1, <1>6, SwitchTyped DEF LInv
  <2>2. OneAtATime' BY <1>6, AttemptAlone DEF LInv
  <2>3. QED BY <1>2, <2>1, <2>2
<1>7. QED BY <1>3, <1>4, <1>5, <1>6 DEF LoginNext

(* Behind the login page the three have arrived: they agree.               *)
LEMMA OneAtATimeImplies == OneAtATime => SessionAgrees /\ KeysAreOnDisk
BY DEF OneAtATime, Still, Trying, Agreed, Saved, LoggedIn, SessionAgrees, KeysAreOnDisk

LEMMA LoginInvariant == LoginSpec => []LInv
<1>1. LoginInit => LInv
  <2>1. ASSUME LoginInit PROVE LInv
    <3>1. ScreenOK /\ OneAtATime /\ routines = << >>
      BY <2>1, FreshStarts DEF LoginInit
    <3>2. QED BY <2>1, <3>1, InitTyped DEF LInv
  <2>2. QED BY <2>1
<1>2. LInv /\ [LoginNext]_loginVars => LInv' BY NextLInv
<1>3. QED BY <1>1, <1>2, PTL DEF LoginSpec, loginVars

(* The variables keep their types (login page, profile files, node).       *)
THEOREM LoginTypes == LoginSpec => []LoginTypeOK
<1>1. LInv => LoginTypeOK BY DEF LInv
<1>2. QED BY LoginInvariant, <1>1, PTL

(* Behind the login page the name and keys that sign, the peer id the hub  *)
(* sees and the open database belong to one person (LoginHandler,          *)
(* CreateUserHandler and their goroutines).                                *)
THEOREM LoginAgrees == LoginSpec => []SessionAgrees
<1>1. LInv => SessionAgrees BY OneAtATimeImplies DEF LInv
<1>2. QED BY LoginInvariant, <1>1, PTL

(* And the keys in use are in the user's profile file, whatever attempts,  *)
(* failures and exits came before (GenerateProfile, LoadProfile).          *)
THEOREM LoginKeysOnDisk == LoginSpec => []KeysAreOnDisk
<1>1. LInv => KeysAreOnDisk BY OneAtATimeImplies DEF LInv
<1>2. QED BY LoginInvariant, <1>1, PTL
=============================================================================
