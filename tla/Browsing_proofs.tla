--------------------------- MODULE Browsing_proofs ---------------------------
(***************************************************************************)
(* For any servers, rooms, users and bounds: what the two pages show, and  *)
(* what their goroutines carry, is the hub's; and for a user who is not    *)
(* hasty it is the current server's.  Lists arrive late and by three ways  *)
(* (an answer, an advertisement taken before it is published, a picked     *)
(* entry that waits in a form), so the invariant follows every list from   *)
(* the hub to the screen.  It also carries what the login page has settled *)
(* (Login_proofs) through the pages behind it.                             *)
(***************************************************************************)
EXTENDS Browsing, Login_proofs

(* Goroutines of the pages.                                                *)
Joining == {"join", "next", "show"}
PageRoutine ==
    [kind : {"browse", "chat", "servers", "rooms"},
     pc : {"start", "answered", "refused", "has", "subscribe"} \cup Joining,
     topic : Server \cup {"none", "servers"},
     list : SUBSET (Server \cup Room), msgs : SUBSET SUBSET (Server \cup Room),
     stop : BOOLEAN]

(* Some carry lists of servers; the chat page's does so at first.          *)
OfServers(x) == x.kind \in {"browse", "servers"} \/ (x.kind = "chat" /\ x.pc = "answered")
Carries(x, R) ==
    \A l \in x.msgs \cup {x.list} : l \subseteq IF OfServers(x) THEN servers ELSE R

(* A goroutine that belongs to the current session.                        *)
OfSession(x) ==
    /\ Carries(x, RoomsIn(session.server))
    /\ x.kind = "chat" /\ x.pc \in Joining => x.topic = session.server
    /\ x.kind = "chat" /\ x.pc = "subscribe" => session.topic # NoServer

Sound(x) ==
    /\ Carries(x, rooms)
    /\ x.pc \notin {"next", "show"} => x.msgs = {}
    /\ x.kind = "chat" => session.server \in Server
    /\ x.pc \in Joining => IF x.kind = "browse" THEN x.topic = "servers" ELSE x.topic \in Server
    /\ ~hasty => OfSession(x)

PageWorker == {x \in PageRoutine : Sound(x)}
Worker == Attempt \cup PageWorker

(* An advertisement holds a list of what it is about.                      *)
StoreOK ==
    /\ servers \subseteq Server /\ rooms \subseteq Room
    /\ news \subseteq [of : Server \cup Room, pc : {"list", "publish"},
                       list : SUBSET (Server \cup Room)]
    /\ \A a \in news :
          /\ a.of \in servers \cup rooms
          /\ a.list \subseteq IF a.of \in Server THEN servers ELSE RoomsIn(ServerOf[a.of])

ClientOK ==
    /\ joined \subseteq Server \cup {"servers"}
    /\ session \in [server : Server \cup {NoServer}, topic : Server \cup {NoServer}]
    /\ room \in Room \cup {NoRoom}
    /\ serverList \subseteq servers /\ roomList \subseteq rooms
    /\ chosen \in Server \cup Room \cup {NoServer}

(* A form is over the page it belongs to.                                  *)
Home(form) == IF form \in {"createServer", "joinServer"} THEN "browse" ELSE "chat"
FormsInPlace == \A f \in Form : Visible(f) => base = Home(f)

(* What a user who is not hasty sees, picked and subscribed to.            *)
ShownSound ==
    ~hasty => /\ loaded => roomList \subseteq RoomsIn(session.server)
              /\ Visible("joinRoom") => chosen \in RoomsIn(session.server)
              /\ session.topic \in {NoServer, session.server}

BInv ==
    /\ LoginTypeOK /\ ScreenOK /\ OneAtATime /\ FormsInPlace
    /\ StoreOK /\ ClientOK
    /\ routines \in Seq(Worker)
    /\ ShownSound

-----------------------------------------------------------------------------
LEMMA SeqGrows ==
    ASSUME NEW S, NEW T, S \subseteq T, NEW s \in Seq(S) PROVE s \in Seq(T)
OBVIOUS

(* A login attempt is the only worker with that name.                      *)
LEMMA WorkerKinds ==
    /\ Attempt \subseteq Worker
    /\ \A x \in Worker : x.kind = "login" => x \in Attempt
    /\ \A x \in Worker : x.kind # "login" => x \in PageWorker
    /\ \A x \in PageWorker : x.kind # "login"
BY DEF Worker, PageWorker, PageRoutine, Attempt

(* The goroutine of a page, as the invariant has it.                       *)
LEMMA TheRoutine ==
    ASSUME routines \in Seq(Worker), NEW i \in DOMAIN routines, routines[i].kind # "login"
    PROVE  routines[i] \in PageRoutine /\ Sound(routines[i])
<1>1. routines[i] \in Worker OBVIOUS
<1>2. QED BY <1>1, WorkerKinds DEF PageWorker

(* What goroutines carry stays sound as the hub's store grows and while the*)
(* session is one server's.                                                *)
LEMMA WorkersKept ==
    ASSUME servers \subseteq servers', rooms \subseteq rooms', hasty => hasty',
           session'.server = session.server,
           session.topic # NoServer => session'.topic # NoServer
    PROVE  PageWorker \subseteq PageWorker' /\ Worker \subseteq Worker'
<1>1. \A s : RoomsIn(s) \subseteq RoomsIn(s)' BY DEF RoomsIn
<1>2. ASSUME NEW x \in PageRoutine, Sound(x) PROVE Sound(x)'
  <2>1. Carries(x, rooms)' BY <1>2 DEF Sound, Carries, OfServers
  <2>2. ASSUME ~hasty' PROVE OfSession(x)'
    <3>1. OfSession(x) BY <1>2, <2>2 DEF Sound
    <3>2. RoomsIn(session.server) \subseteq RoomsIn(session.server)' BY <1>1 DEF RoomsIn
    <3>3. Carries(x, RoomsIn(session.server))'
      BY <3>1, <3>2 DEF OfSession, Carries, OfServers
    <3>4. QED BY <3>1, <3>3 DEF OfSession
  <2>3. QED BY <1>2, <2>1, <2>2 DEF Sound
<1>3. QED BY <1>2 DEF PageWorker, Worker

(* One starts with nothing.                                                *)
LEMMA GoSound ==
    ASSUME NEW k \in {"browse", "servers", "rooms", "chat"},
           k = "chat" => session'.server \in Server
    PROVE  Go(k) \in PageWorker'
<1>1. Go(k) \in PageRoutine BY DEF Go, PageRoutine
<1>2. Sound(Go(k))' BY DEF Go, Sound, Carries, OfSession, Joining
<1>3. QED BY <1>1, <1>2 DEF PageWorker

(* The ways in which the pages change their goroutines.                    *)
LEMMA BecomesIn ==
    ASSUME NEW T, routines \in Seq(T), NEW i \in DOMAIN routines, NEW r \in T, Becomes(i, r)
    PROVE  routines' \in Seq(T)
BY DEF Becomes

LEMMA EndsIn ==
    ASSUME NEW T, routines \in Seq(T), NEW i \in DOMAIN routines, Ends(i)
    PROVE  routines' \in Seq(T)
BY RemoveAtElements DEF Ends

-----------------------------------------------------------------------------
(* Who is behind the login page, or has a goroutine of the pages, agrees.  *)
LEMMA BehindLogin ==
    ASSUME OneAtATime, ~hasty,
           base \in Follower \/ \E i \in DOMAIN routines : routines[i].kind # "login"
    PROVE  Agreed
<1>1. ~Still BY DEF Still, Follower
<1>2. ~Trying BY DEF Trying, Attempt, Follower
<1>3. QED BY <1>1, <1>2 DEF OneAtATime

(* Goroutines that are exchanged for sound ones of the pages are workers,  *)
(* and what the login settled stays.                                       *)
LEMMA WorkersMove ==
    ASSUME OneAtATime, routines \in Seq(Worker'),
           UNCHANGED <<profile, me, pk, host, db>>, hasty => hasty',
           \A T : PageWorker' \subseteq T /\ routines \in Seq(T) => routines' \in Seq(T),
           base \in Follower \/ \E i \in DOMAIN routines : routines[i].kind # "login"
    PROVE  routines' \in Seq(Worker') /\ OneAtATime'
<1>1. routines' \in Seq(Worker')
  <2>1. PageWorker' \subseteq Worker' BY DEF Worker
  <2>2. QED BY <2>1
<1>2. ASSUME ~hasty' PROVE Agreed'
  <2>1. Agreed BY <1>2, BehindLogin
  <2>2. \A i \in DOMAIN routines : routines[i] \in PageWorker'
    BY <2>1 DEF Agreed, Running, Worker, Attempt
  <2>3. routines \in Seq(PageWorker') BY <2>2
  <2>4. routines' \in Seq(PageWorker') BY <2>3
  <2>5. ~Running({"login"})' BY <2>4 DEF Running, PageWorker, PageRoutine
  <2>6. QED BY <2>1, <2>5 DEF Agreed, Saved
<1>3. QED BY <1>1, <1>2 DEF OneAtATime

LEMMA WorkersChange ==
    ASSUME BInv, UNCHANGED <<profile, me, pk, host, db>>, hasty => hasty',
           PageWorker \subseteq PageWorker',
           \A T : PageWorker' \subseteq T /\ routines \in Seq(T) => routines' \in Seq(T),
           base \in Follower \/ \E i \in DOMAIN routines : routines[i].kind # "login"
    PROVE  routines' \in Seq(Worker') /\ OneAtATime'
<1>1. routines \in Seq(Worker) /\ OneAtATime BY DEF BInv
<1>2. Worker \subseteq Worker' BY DEF Worker
<1>3. routines \in Seq(Worker') BY <1>1, <1>2, SeqGrows
<1>4. QED BY <1>1, <1>3, WorkersMove

-----------------------------------------------------------------------------
(* What a step leaves alone keeps its part of the invariant.               *)
LEMMA LoginKept ==
    ASSUME LoginTypeOK, UNCHANGED <<profile, me, pk, host, db, logins>> PROVE LoginTypeOK'
BY DEF LoginTypeOK, Keys

LEMMA StoreKept ==
    ASSUME StoreOK, UNCHANGED <<servers, rooms, news>> PROVE StoreOK'
BY DEF StoreOK, RoomsIn

LEMMA ScreenKept ==
    ASSUME ScreenOK, UNCHANGED <<base, over, then>>
    PROVE  ScreenOK' /\ \A p : Contains(over', p) => Visible(p) /\ base' = base
BY DEF ScreenOK, Visible

LEMMA FormsKept ==
    ASSUME FormsInPlace,
           \A p : Contains(over', p) => p \notin Form \/ (Visible(p) /\ base' = base)
    PROVE  FormsInPlace'
BY DEF FormsInPlace, Visible

(* A user who is not hasty goes on seeing what is the current server's.    *)
LEMMA ShownKept ==
    ASSUME ShownSound, hasty => hasty', rooms \subseteq rooms', UNCHANGED session,
           loaded' /\ ~hasty' =>
              roomList' \subseteq RoomsIn(session.server)' \/ UNCHANGED <<loaded, roomList>>,
           Contains(over', "joinRoom") => Visible("joinRoom") /\ UNCHANGED chosen
    PROVE  ShownSound'
<1>1. RoomsIn(session.server) \subseteq RoomsIn(session.server)' BY DEF RoomsIn
<1>2. QED BY <1>1 DEF ShownSound, Visible

(* A step of a goroutine of the pages that shows nothing.                  *)
LEMMA QuietStep ==
    ASSUME BInv, NEW i \in DOMAIN routines, routines[i].kind # "login",
           UNCHANGED <<base, over, then, hasty, login, atHub, browsing>>,
           Ends(i) \/ \E r \in PageWorker : Becomes(i, r)
    PROVE  BInv'
<1> USE DEF BInv
<1>1. /\ UNCHANGED <<profile, me, pk, host, db, logins, joined>>
      /\ UNCHANGED <<servers, rooms, news, session, room, serverList, roomList, chosen, loaded>>
  BY DEF login, account, atHub, browsing, lists
<1>2. PageWorker \subseteq PageWorker' BY <1>1, WorkersKept
<1>3. \A T : PageWorker' \subseteq T /\ routines \in Seq(T) => routines' \in Seq(T)
  BY <1>2, BecomesIn, EndsIn
<1>4. routines' \in Seq(Worker') /\ OneAtATime' BY <1>1, <1>2, <1>3, WorkersChange
<1>5. LoginTypeOK' /\ StoreOK' BY <1>1, LoginKept, StoreKept
<1>6. ScreenOK' /\ FormsInPlace' BY ScreenKept, FormsKept
<1>7. ClientOK' BY <1>1 DEF ClientOK
<1>8. ShownSound' BY <1>1, ShownKept, ScreenKept
<1>9. QED BY <1>4, <1>5, <1>6, <1>7, <1>8

-----------------------------------------------------------------------------
(* refreshServerList and refreshRoomList carry what the hub answers.       *)
LEMMA AskServersKeeps ==
    ASSUME BInv, NEW i \in DOMAIN routines, AskServers(i) PROVE BInv'
<1> DEFINE x == routines[i]
<1>1. x.kind \in {"browse", "chat", "servers"} /\ x.pc = "start"
  BY DEF AskServers, Follower
<1>2. x \in PageRoutine /\ Sound(x) BY <1>1, TheRoutine DEF BInv
<1> HIDE DEF x
<1>3. servers \subseteq Server BY DEF BInv, StoreOK
<1>4. [x EXCEPT !.pc = "answered", !.list = servers] \in PageWorker
  <2> DEFINE r == [x EXCEPT !.pc = "answered", !.list = servers]
  <2>1. r \in PageRoutine BY <1>2, <1>3 DEF PageRoutine
  <2>2. r.kind = x.kind /\ r.pc = "answered" /\ r.list = servers /\ r.msgs = {}
    BY <1>1, <1>2 DEF PageRoutine, Sound
  <2> HIDE DEF r
  <2>3. Sound(r) BY <1>1, <1>2, <2>2 DEF Sound, Carries, OfServers, OfSession, Joining
  <2>4. QED BY <2>1, <2>3 DEF PageWorker, r
<1>5. [x EXCEPT !.pc = "refused"] \in PageWorker
  <2> DEFINE r == [x EXCEPT !.pc = "refused"]
  <2>1. r \in PageRoutine BY <1>2 DEF PageRoutine
  <2>2. r.kind = x.kind /\ r.pc = "refused" /\ r.list = x.list /\ r.msgs = x.msgs
    BY <1>2 DEF PageRoutine
  <2> HIDE DEF r
  <2>3. Sound(r) BY <1>1, <1>2, <2>2 DEF Sound, Carries, OfServers, OfSession, Joining
  <2>4. QED BY <2>1, <2>3 DEF PageWorker, r
<1>6. UNCHANGED <<base, over, then, hasty, login, atHub, browsing>> BY DEF AskServers
<1>7. \E r \in PageWorker : Becomes(i, r) BY <1>4, <1>5 DEF AskServers, x
<1>8. QED BY <1>1, <1>6, <1>7, QuietStep DEF x

LEMMA AskRoomsKeeps ==
    ASSUME BInv, NEW i \in DOMAIN routines, AskRooms(i) PROVE BInv'
<1> DEFINE x == routines[i]
<1>1. x.kind = "rooms" /\ x.pc = "start" BY DEF AskRooms, At
<1>2. x \in PageRoutine /\ Sound(x) BY <1>1, TheRoutine DEF BInv
<1> HIDE DEF x
<1>3. RoomsIn(session.server) \subseteq rooms /\ rooms \subseteq Room
  BY DEF BInv, StoreOK, RoomsIn
<1>4. [x EXCEPT !.pc = "answered", !.list = RoomsIn(session.server)] \in PageWorker
  <2> DEFINE r == [x EXCEPT !.pc = "answered", !.list = RoomsIn(session.server)]
  <2>1. r \in PageRoutine BY <1>2, <1>3 DEF PageRoutine
  <2>2. /\ r.kind = x.kind /\ r.pc = "answered" /\ r.list = RoomsIn(session.server)
        /\ r.msgs = {}
    BY <1>1, <1>2 DEF PageRoutine, Sound
  <2> HIDE DEF r
  <2>3. Sound(r) BY <1>1, <1>3, <2>2 DEF Sound, Carries, OfServers, OfSession, Joining
  <2>4. QED BY <2>1, <2>3 DEF PageWorker, r
<1>5. [x EXCEPT !.pc = "refused"] \in PageWorker
  <2> DEFINE r == [x EXCEPT !.pc = "refused"]
  <2>1. r \in PageRoutine BY <1>2 DEF PageRoutine
  <2>2. r.kind = x.kind /\ r.pc = "refused" /\ r.list = x.list /\ r.msgs = x.msgs
    BY <1>2 DEF PageRoutine
  <2> HIDE DEF r
  <2>3. Sound(r) BY <1>1, <1>2, <2>2 DEF Sound, Carries, OfServers, OfSession, Joining
  <2>4. QED BY <2>1, <2>3 DEF PageWorker, r
<1>6. UNCHANGED <<base, over, then, hasty, login, atHub, browsing>> BY DEF AskRooms
<1>7. \E r \in PageWorker : Becomes(i, r) BY <1>4, <1>5 DEF AskRooms, x
<1>8. QED BY <1>1, <1>6, <1>7, QuietStep DEF x

-----------------------------------------------------------------------------
(* A step of a goroutine that shows a list or an error.                    *)
LEMMA ShowingStep ==
    ASSUME BInv, NEW i \in DOMAIN routines, routines[i].kind # "login",
           UNCHANGED <<base, hasty, login, atHub, session, room, chosen>>,
           Ends(i) \/ \E r \in PageWorker : Becomes(i, r),
           UNCHANGED <<over, then>> \/ ShowError("login") \/ ShowError("browse"),
           serverList' \subseteq servers, roomList' \subseteq rooms,
           UNCHANGED <<loaded, roomList>> \/ (~hasty => roomList' \subseteq RoomsIn(session.server))
    PROVE  BInv'
<1> USE DEF BInv
<1>1. /\ UNCHANGED <<profile, me, pk, host, db, logins, joined>>
      /\ UNCHANGED <<servers, rooms, news, session, room, chosen>>
  BY DEF login, account, atHub
<1>2. PageWorker \subseteq PageWorker' BY <1>1, WorkersKept
<1>3. \A T : PageWorker' \subseteq T /\ routines \in Seq(T) => routines' \in Seq(T)
  BY <1>2, BecomesIn, EndsIn
<1>4. routines' \in Seq(Worker') /\ OneAtATime' BY <1>1, <1>2, <1>3, WorkersChange
<1>5. LoginTypeOK' /\ StoreOK' BY <1>1, LoginKept, StoreKept
<1>6. ScreenOK' /\ \A p : Contains(over', p) => p = "error" \/ (Visible(p) /\ base' = base)
  <2>1. CASE UNCHANGED <<over, then>> BY <2>1, ScreenKept
  <2>2. CASE ShowError("login") \/ ShowError("browse") BY <2>2, ErrorShows
  <2>3. QED BY <2>1, <2>2
<1>7. FormsInPlace' BY <1>6, FormsKept DEF Form
<1>8. ClientOK' BY <1>1 DEF ClientOK
<1>9. RoomsIn(session.server)' = RoomsIn(session.server) BY <1>1 DEF RoomsIn
<1>10. ShownSound' BY <1>1, <1>6, <1>9, ShownKept
<1>11. QED BY <1>4, <1>5, <1>6, <1>7, <1>8, <1>10

(* A follower goes on to its topic; refreshServerList by itself ends.      *)
LEMMA AfterServersSound ==
    ASSUME BInv, NEW i \in DOMAIN routines,
           routines[i].kind \in {"browse", "chat", "servers"}, AfterServers(i)
    PROVE  Ends(i) \/ \E r \in PageWorker : Becomes(i, r)
<1>1. Sound(routines[i]) BY TheRoutine DEF BInv
<1>2. CASE routines[i].kind = "servers" BY <1>2 DEF AfterServers
<1>3. CASE routines[i].kind = "browse"
  <2> DEFINE r == [Go("browse") EXCEPT !.pc = "join", !.topic = "servers"]
  <2>1. r \in PageRoutine BY DEF PageRoutine, Go, Joining
  <2>2. Sound(r) BY DEF Sound, Carries, OfServers, OfSession, Joining, Go
  <2>3. Becomes(i, r) BY <1>3 DEF AfterServers
  <2>4. QED BY <2>1, <2>2, <2>3 DEF PageWorker
<1>4. CASE routines[i].kind = "chat"
  <2> DEFINE r == [Go("chat") EXCEPT !.pc = "has"]
  <2>1. r \in PageRoutine BY DEF PageRoutine, Go
  <2>2. Sound(r) BY <1>1, <1>4 DEF Sound, Carries, OfServers, OfSession, Joining, Go
  <2>3. Becomes(i, r) BY <1>4 DEF AfterServers
  <2>4. QED BY <2>1, <2>2, <2>3 DEF PageWorker
<1>5. QED BY <1>2, <1>3, <1>4

LEMMA UpdateServerListKeeps ==
    ASSUME BInv, NEW i \in DOMAIN routines, UpdateServerList(i) PROVE BInv'
<1>1. routines[i].kind \in {"browse", "chat", "servers"} /\ AfterServers(i)
  BY DEF UpdateServerList, Follower
<1>2. Sound(routines[i]) BY <1>1, TheRoutine DEF BInv
<1>3. serverList' \subseteq servers
  <2>1. CASE routines[i].pc = "answered" /\ serverList' = routines[i].list
    BY <1>1, <1>2, <2>1 DEF Sound, Carries, OfServers
  <2>2. CASE UNCHANGED serverList BY <2>2 DEF BInv, ClientOK
  <2>3. QED BY <2>1, <2>2 DEF UpdateServerList
<1>4. roomList' \subseteq rooms BY DEF UpdateServerList, BInv, ClientOK
<1>5. Ends(i) \/ \E r \in PageWorker : Becomes(i, r) BY <1>1, AfterServersSound
<1>6. /\ UNCHANGED <<base, hasty, login, atHub, session, room, chosen, loaded, roomList>>
      /\ UNCHANGED <<over, then>> \/ ShowError("login")
  BY DEF UpdateServerList, ShowError
<1>7. QED BY <1>1, <1>3, <1>4, <1>5, <1>6, ShowingStep

LEMMA UpdateRoomListKeeps ==
    ASSUME BInv, NEW i \in DOMAIN routines, UpdateRoomList(i) PROVE BInv'
<1>1. routines[i].kind = "rooms" BY DEF UpdateRoomList, At
<1>2. Sound(routines[i]) BY <1>1, TheRoutine DEF BInv
<1>3. /\ roomList' \subseteq rooms
      /\ UNCHANGED <<loaded, roomList>> \/ (~hasty => roomList' \subseteq RoomsIn(session.server))
  <2>1. CASE roomList' = routines[i].list
    BY <1>1, <1>2, <2>1 DEF Sound, Carries, OfServers, OfSession
  <2>2. CASE UNCHANGED <<loaded, roomList>> BY <2>2 DEF BInv, ClientOK
  <2>3. QED BY <2>1, <2>2 DEF UpdateRoomList
<1>4. serverList' \subseteq servers BY DEF UpdateRoomList, BInv, ClientOK
<1>5. /\ UNCHANGED <<base, hasty, login, atHub, session, room, chosen>> /\ Ends(i)
      /\ UNCHANGED <<over, then>> \/ ShowError("browse")
  BY DEF UpdateRoomList, ShowError
<1>6. QED BY <1>1, <1>3, <1>4, <1>5, ShowingStep

(* A list that was advertised is shown; the follower listens on.           *)
LEMMA ShowKeeps ==
    ASSUME BInv, NEW i \in DOMAIN routines, Show(i) PROVE BInv'
<1> DEFINE x == routines[i]
<1>1. x.kind \in {"browse", "chat"} /\ x.pc = "show" BY DEF Show, Follower
<1>2. x \in PageRoutine /\ Sound(x) BY <1>1, TheRoutine DEF BInv
<1> HIDE DEF x
<1>3. [x EXCEPT !.pc = "next", !.list = {}] \in PageWorker
  <2> DEFINE r == [x EXCEPT !.pc = "next", !.list = {}]
  <2>1. r \in PageRoutine BY <1>2 DEF PageRoutine, Joining
  <2>2. /\ r.kind = x.kind /\ r.pc = "next" /\ r.list = {} /\ r.msgs = x.msgs
        /\ r.topic = x.topic
    BY <1>2 DEF PageRoutine
  <2> HIDE DEF r
  <2>3. Sound(r) BY <1>1, <1>2, <2>2 DEF Sound, Carries, OfServers, OfSession, Joining
  <2>4. QED BY <2>1, <2>3 DEF PageWorker, r
<1>4. Ends(i) \/ \E r \in PageWorker : Becomes(i, r) BY <1>3 DEF Show, x
<1>5. CASE x.kind = "browse"
  <2>1. serverList' = x.list /\ UNCHANGED <<roomList, loaded>> BY <1>5 DEF Show, x
  <2>2. serverList' \subseteq servers
    BY <1>2, <1>5, <2>1 DEF Sound, Carries, OfServers
  <2>3. roomList' \subseteq rooms BY <2>1 DEF BInv, ClientOK
  <2>4. UNCHANGED <<base, over, then, hasty, login, atHub, session, room, chosen>> BY DEF Show
  <2>5. x.kind # "login" BY <1>5
  <2>6. QED BY <1>4, <2>1, <2>2, <2>3, <2>4, <2>5, ShowingStep DEF x
<1>6. CASE x.kind = "chat"
  <2>1. roomList' = x.list /\ UNCHANGED serverList BY <1>6 DEF Show, x
  <2>2. roomList' \subseteq rooms /\ (~hasty => roomList' \subseteq RoomsIn(session.server))
    BY <1>1, <1>2, <1>6, <2>1 DEF Sound, Carries, OfServers, OfSession
  <2>3. serverList' \subseteq servers BY <2>1 DEF BInv, ClientOK
  <2>4. UNCHANGED <<base, over, then, hasty, login, atHub, session, room, chosen>> BY DEF Show
  <2>5. x.kind # "login" BY <1>6
  <2>6. QED BY <1>4, <2>2, <2>3, <2>4, <2>5, ShowingStep DEF x
<1>7. QED BY <1>1, <1>5, <1>6

-----------------------------------------------------------------------------
(* A follower on its way to its topic.  The chat page's joins the topic of *)
(* the session that was current when it looked; who waits for it to end    *)
(* before joining another server finds that session's still.               *)
LEMMA HasTopicKeeps ==
    ASSUME BInv, NEW i \in DOMAIN routines, HasTopic(i) PROVE BInv'
<1> DEFINE x == routines[i]
<1>1. x.kind = "chat" /\ x.pc = "has" BY DEF HasTopic, At
<1>2. x \in PageRoutine /\ Sound(x) BY <1>1, TheRoutine DEF BInv
<1> HIDE DEF x
<1>3. ASSUME session.topic # NoServer
      PROVE  [x EXCEPT !.pc = "subscribe"] \in PageWorker
  <2> DEFINE r == [x EXCEPT !.pc = "subscribe"]
  <2>1. r \in PageRoutine BY <1>2 DEF PageRoutine
  <2>2. r.kind = x.kind /\ r.pc = "subscribe" /\ r.list = x.list /\ r.msgs = x.msgs
    BY <1>2 DEF PageRoutine
  <2> HIDE DEF r
  <2>3. Sound(r) BY <1>1, <1>2, <1>3, <2>2 DEF Sound, Carries, OfServers, OfSession, Joining
  <2>4. QED BY <2>1, <2>3 DEF PageWorker, r
<1>4. [x EXCEPT !.pc = "join", !.topic = session.server] \in PageWorker
  <2> DEFINE r == [x EXCEPT !.pc = "join", !.topic = session.server]
  <2>0. session.server \in Server BY <1>1, <1>2 DEF Sound
  <2>1. r \in PageRoutine BY <1>2, <2>0 DEF PageRoutine, Joining
  <2>2. /\ r.kind = x.kind /\ r.pc = "join" /\ r.list = x.list /\ r.msgs = x.msgs
        /\ r.topic = session.server
    BY <1>2 DEF PageRoutine
  <2> HIDE DEF r
  <2>3. Sound(r) BY <1>1, <1>2, <2>0, <2>2 DEF Sound, Carries, OfServers, OfSession, Joining
  <2>4. QED BY <2>1, <2>3 DEF PageWorker, r
<1>5. UNCHANGED <<base, over, then, hasty, login, atHub, browsing>> BY DEF HasTopic
<1>6. \E r \in PageWorker : Becomes(i, r) BY <1>3, <1>4 DEF HasTopic, x
<1>7. QED BY <1>1, <1>5, <1>6, QuietStep DEF x

LEMMA SubscribeKeeps ==
    ASSUME BInv, NEW i \in DOMAIN routines, Subscribe(i) PROVE BInv'
<1> DEFINE x == routines[i]
<1>1. x.kind = "chat" /\ x.pc = "subscribe" BY DEF Subscribe, At
<1>2. x \in PageRoutine /\ Sound(x) BY <1>1, TheRoutine DEF BInv
<1> HIDE DEF x
<1>3. session.topic \in Server /\ (~hasty => session.topic = session.server)
  BY DEF Subscribe, BInv, ClientOK, ShownSound
<1>4. [x EXCEPT !.pc = "next", !.topic = session.topic] \in PageWorker
  <2> DEFINE r == [x EXCEPT !.pc = "next", !.topic = session.topic]
  <2>1. r \in PageRoutine BY <1>2, <1>3 DEF PageRoutine, Joining
  <2>2. /\ r.kind = x.kind /\ r.pc = "next" /\ r.list = x.list /\ r.msgs = x.msgs
        /\ r.topic = session.topic
    BY <1>2 DEF PageRoutine
  <2> HIDE DEF r
  <2>3. Sound(r) BY <1>1, <1>2, <1>3, <2>2 DEF Sound, Carries, OfServers, OfSession, Joining
  <2>4. QED BY <2>1, <2>3 DEF PageWorker, r
<1>5. UNCHANGED <<base, over, then, hasty, login, atHub, browsing>> BY DEF Subscribe
<1>6. \E r \in PageWorker : Becomes(i, r) BY <1>4 DEF Subscribe, x
<1>7. QED BY <1>1, <1>5, <1>6, QuietStep DEF x

LEMMA ReceiveKeeps ==
    ASSUME BInv, NEW i \in DOMAIN routines, Receive(i) PROVE BInv'
<1> DEFINE x == routines[i]
<1>1. x.kind \in {"browse", "chat"} /\ x.pc = "next" BY DEF Receive, Follower
<1>2. x \in PageRoutine /\ Sound(x) BY <1>1, TheRoutine DEF BInv
<1> HIDE DEF x
<1>3. ASSUME NEW m \in x.msgs
      PROVE  [x EXCEPT !.pc = "show", !.list = m, !.msgs = @ \ {m}] \in PageWorker
  <2> DEFINE r == [x EXCEPT !.pc = "show", !.list = m, !.msgs = @ \ {m}]
  <2>1. r \in PageRoutine BY <1>2 DEF PageRoutine, Joining
  <2>2. /\ r.kind = x.kind /\ r.pc = "show" /\ r.list = m /\ r.msgs = x.msgs \ {m}
        /\ r.topic = x.topic
    BY <1>2 DEF PageRoutine
  <2> HIDE DEF r
  <2>3. Sound(r) BY <1>1, <1>2, <2>2 DEF Sound, Carries, OfServers, OfSession, Joining
  <2>4. QED BY <2>1, <2>3 DEF PageWorker, r
<1>4. UNCHANGED <<base, over, then, hasty, login, atHub, browsing>> BY DEF Receive
<1>5. \E r \in PageWorker : Becomes(i, r) BY <1>3 DEF Receive, x
<1>6. x.kind # "login" BY <1>1
<1>7. QED BY <1>4, <1>5, <1>6, QuietStep DEF x

LEMMA CancelledKeeps ==
    ASSUME BInv, NEW i \in DOMAIN routines, Cancelled(i) PROVE BInv'
<1>1. routines[i].kind # "login" /\ Ends(i) BY DEF Cancelled, Follower
<1>2. UNCHANGED <<base, over, then, hasty, login, atHub, browsing>> BY DEF Cancelled
<1>3. QED BY <1>1, <1>2, QuietStep

LEMMA TickKeeps ==
    ASSUME BInv, NEW i \in DOMAIN routines, Tick(i) PROVE BInv'
<1> DEFINE x == routines[i]
<1>1. x.kind \in {"browse", "chat"} BY DEF Tick, Follower
<1>2. x \in PageRoutine /\ Sound(x) BY <1>1, TheRoutine DEF BInv
<1> HIDE DEF x
<1>3. [x EXCEPT !.stop = TRUE] \in PageWorker
  <2> DEFINE r == [x EXCEPT !.stop = TRUE]
  <2>1. r \in PageRoutine BY <1>2 DEF PageRoutine
  <2>2. /\ r.kind = x.kind /\ r.pc = x.pc /\ r.list = x.list /\ r.msgs = x.msgs
        /\ r.topic = x.topic
    BY <1>2 DEF PageRoutine
  <2> HIDE DEF r
  <2>3. Sound(r) BY <1>2, <2>2 DEF Sound, Carries, OfServers, OfSession
  <2>4. QED BY <2>1, <2>3 DEF PageWorker, r
<1>4. UNCHANGED <<base, over, then, hasty, login, atHub, browsing>> BY DEF Tick
<1>5. \E r \in PageWorker : Becomes(i, r) BY <1>3 DEF Tick, x
<1>6. x.kind # "login" BY <1>1
<1>7. QED BY <1>4, <1>5, <1>6, QuietStep DEF x

LEMMA JoinTopicKeeps ==
    ASSUME BInv, NEW i \in DOMAIN routines, JoinTopic(i) PROVE BInv'
<1> USE DEF BInv
<1> DEFINE x == routines[i]
<1>1. x.kind \in {"browse", "chat"} /\ x.pc = "join" BY DEF JoinTopic, Follower
<1>2. x \in PageRoutine /\ Sound(x) BY <1>1, TheRoutine
<1> HIDE DEF x
<1>3. /\ x.kind = "browse" => x.topic = "servers"
      /\ x.kind = "chat" => x.topic \in Server /\ (~hasty => x.topic = session.server)
  BY <1>1, <1>2 DEF Sound, OfSession, Joining
<1>4. /\ UNCHANGED <<base, over, then, hasty, profile, me, pk, host, db, logins>>
      /\ UNCHANGED <<servers, rooms, news, room, serverList, roomList, chosen, loaded>>
  BY DEF JoinTopic, atHub, lists
<1>5. \/ UNCHANGED session
      \/ x.kind = "chat" /\ session' = [session EXCEPT !.topic = x.topic]
  BY <1>1 DEF JoinTopic, x
<1>6. /\ session' \in [server : Server \cup {NoServer}, topic : Server \cup {NoServer}]
      /\ session'.server = session.server
      /\ session.topic # NoServer => session'.topic # NoServer
      /\ ~hasty => session'.topic \in {NoServer, session.server}
  BY <1>3, <1>5, BrowsingAssumption DEF ClientOK, ShownSound
<1>7. PageWorker \subseteq PageWorker' BY <1>4, <1>6, WorkersKept
<1>8. Ends(i) \/ \E r \in PageWorker' : Becomes(i, r)
  <2>1. CASE x.kind = "browse" /\ Becomes(i, [x EXCEPT !.pc = "next"])
    <3> DEFINE r == [x EXCEPT !.pc = "next"]
    <3>1. r \in PageRoutine BY <1>2 DEF PageRoutine, Joining
    <3>2. /\ r.kind = x.kind /\ r.pc = "next" /\ r.list = x.list /\ r.msgs = x.msgs
          /\ r.topic = x.topic
      BY <1>2 DEF PageRoutine
    <3> HIDE DEF r
    <3>3. Sound(r) BY <1>1, <1>2, <2>1, <3>2 DEF Sound, Carries, OfServers, OfSession, Joining
    <3>4. QED BY <1>7, <2>1, <3>1, <3>3 DEF PageWorker, r
  <2>2. CASE /\ x.kind = "chat" /\ session' = [session EXCEPT !.topic = x.topic]
             /\ Becomes(i, [x EXCEPT !.pc = "subscribe"])
    <3>1. PICK r \in PageRoutine :
             /\ r = [x EXCEPT !.pc = "subscribe"]
             /\ r.kind = "chat" /\ r.pc = "subscribe" /\ r.list = x.list /\ r.msgs = {}
      BY <1>1, <1>2, <2>2 DEF PageRoutine, Sound
    <3>2. session'.topic # NoServer
      BY <1>3, <2>2, BrowsingAssumption DEF ClientOK
    <3>3. session'.server \in Server /\ RoomsIn(session.server)' = RoomsIn(session.server)
      BY <1>2, <1>4, <1>6, <2>2 DEF Sound, RoomsIn
    <3>4. Carries(r, rooms)' /\ (~hasty' => Carries(r, RoomsIn(session.server))')
      BY <1>1, <1>2, <1>4, <2>2, <3>1, <3>3 DEF Sound, Carries, OfServers, OfSession
    <3>5. Sound(r)' BY <3>1, <3>2, <3>3, <3>4 DEF Sound, OfSession, Joining
    <3>6. QED BY <2>2, <3>1, <3>5 DEF PageWorker
  <2>3. QED BY <1>1, <2>1, <2>2 DEF JoinTopic, x
<1>9. \A T : PageWorker' \subseteq T /\ routines \in Seq(T) => routines' \in Seq(T)
  BY <1>8, BecomesIn, EndsIn
<1>10. routines[i].kind # "login" BY <1>1 DEF x
<1>11. routines' \in Seq(Worker') /\ OneAtATime' BY <1>4, <1>7, <1>9, <1>10, WorkersChange
<1>12. LoginTypeOK' /\ StoreOK' BY <1>4, LoginKept, StoreKept
<1>13. ScreenOK' /\ FormsInPlace' BY <1>4, ScreenKept, FormsKept
<1>14. ClientOK'
  <2>1. joined' \subseteq Server \cup {"servers"}
    BY <1>1, <1>3 DEF JoinTopic, ClientOK, x
  <2>2. QED BY <1>4, <1>6, <2>1 DEF ClientOK
<1>15. ShownSound' BY <1>4, <1>6 DEF ShownSound, Visible, RoomsIn
<1>16. QED BY <1>11, <1>12, <1>13, <1>14, <1>15

(* The process ends: nothing of the session is left.                       *)
LEMMA SessionEndsKeeps ==
    ASSUME BInv, ProcessStep, SessionEnds PROVE BInv'
<1> USE DEF BInv
<1>1. /\ LoginTypeOK' /\ ScreenOK' /\ OneAtATime' /\ routines' = << >> /\ joined' = {}
      /\ \A p : ~Contains(over', p)
  BY ProcessTyped
<1>2. UNCHANGED <<servers, rooms, news>> BY DEF SessionEnds, atHub
<1>3. StoreOK' BY <1>2, StoreKept
<1>4. ClientOK' BY <1>1, <1>2 DEF SessionEnds, ClientOK, NoSession
<1>5. FormsInPlace' BY <1>1 DEF FormsInPlace, Visible
<1>6. ShownSound' BY <1>1 DEF ShownSound, Visible, SessionEnds, NoSession
<1>7. QED BY <1>1, <1>3, <1>4, <1>5, <1>6

LEMMA RoutineKeeps ==
    ASSUME BInv, NEW i \in DOMAIN routines, Routine(i) PROVE BInv'
<1>1. CASE SubscribePanics(i)
  BY <1>1, SessionEndsKeeps DEF SubscribePanics, ProcessStep
<1>2. QED
  BY <1>1, AskServersKeeps, UpdateServerListKeeps, AskRoomsKeeps, UpdateRoomListKeeps,
     HasTopicKeeps, JoinTopicKeeps, SubscribeKeeps, ReceiveKeeps, ShowKeeps, CancelledKeeps
  DEF Routine

-----------------------------------------------------------------------------
(* The login page, and the way from it.                                    *)
LEMMA LoginStepKeeps ==
    ASSUME BInv, LoginStep, UNCHANGED <<atHub, browsing, bounds>> PROVE BInv'
<1> USE DEF BInv
<1>1. UNCHANGED <<servers, rooms, news, session, room, serverList, roomList, chosen, loaded>>
  BY DEF atHub, browsing, lists
<1>2. hasty => hasty'
  BY DEF LoginStep, LoginHandler, CreateUserHandler, EncodeFails, Press, InitSessionDB,
         InitNode, InitNodeFails, Dismiss
<1>3. LoginTypeOK' /\ routines' \in Seq(Worker) BY WorkerKinds, LoginStepTyped
<1>4. Worker \subseteq Worker' BY <1>1, <1>2, WorkersKept
<1>5. routines' \in Seq(Worker') BY <1>3, <1>4, SeqGrows
<1>6. OneAtATime' BY LoginStepAlone
<1>7. ScreenOK' /\ \A p : Contains(over', p) => p = "error" \/ (Visible(p) /\ base' = base)
  BY LoginStepShows
<1>8. FormsInPlace' BY <1>7, FormsKept DEF Form
<1>9. StoreOK' BY <1>1, StoreKept
<1>10. ClientOK' BY <1>1, LoginStepJoined DEF ClientOK
<1>11. ShownSound' BY <1>1, <1>2, <1>7, ShownKept
<1>12. QED BY <1>3, <1>5, <1>6, <1>7, <1>8, <1>9, <1>10, <1>11

LEMMA SwitchKeeps ==
    ASSUME BInv, NEW i \in DOMAIN routines, SwitchToBrowseScreen(i),
           UNCHANGED <<atHub, browsing, bounds>>
    PROVE  BInv'
<1> USE DEF BInv
<1>1. UNCHANGED <<servers, rooms, news, session, room, serverList, roomList, chosen, loaded>>
  BY DEF atHub, browsing, lists
<1>2. UNCHANGED <<hasty, joined>> BY DEF SwitchToBrowseScreen, login, account
<1>3. Worker \subseteq Worker' BY <1>1, <1>2, WorkersKept
<1>4. Go("browse") \in Worker' BY GoSound DEF Worker
<1>5. routines \in Seq(Worker') BY <1>3, SeqGrows
<1>6. LoginTypeOK' /\ ScreenOK' /\ routines' \in Seq(Worker') /\ \A p : ~Contains(over', p)
  BY <1>4, <1>5, SwitchTyped
<1>7. OneAtATime' BY AttemptAlone
<1>8. FormsInPlace' BY <1>6 DEF FormsInPlace, Visible
<1>9. StoreOK' BY <1>1, StoreKept
<1>10. ClientOK' BY <1>1, <1>2 DEF ClientOK
<1>11. ShownSound' BY <1>1, <1>2, <1>6, ShownKept
<1>12. QED BY <1>6, <1>7, <1>8, <1>9, <1>10, <1>11

-----------------------------------------------------------------------------
(* What the user does on the pages.  A form is visible only over them.     *)
LEMMA FormsOverPages ==
    ASSUME FormsInPlace, NEW f \in Form, Visible(f) PROVE base \in Follower
BY DEF FormsInPlace, Home, Follower

LEMMA ToastShows ==
    ASSUME ScreenOK, NEW form \in Form, Toast(form)
    PROVE  /\ ScreenOK' /\ base' = base
           /\ \A p : Contains(over', p) => p = "toast" \/ (Visible(p) /\ p # form)
<1> DEFINE s == Without("toast")
           t == RemoveFirst(s, form)
<1>1. /\ s \in Seq(Overlay) /\ IsInjective(s)
      /\ \A p : Contains(s, p) <=> Visible(p) /\ p # "toast"
  BY RemoveFirstPage DEF ScreenOK, Without, Visible
<1> HIDE DEF s
<1>2. /\ t \in Seq(Overlay) /\ IsInjective(t)
      /\ \A p : Contains(t, p) <=> Contains(s, p) /\ p # form
  BY <1>1, RemoveFirstPage
<1>3. over' = Append(t, "toast") /\ UNCHANGED <<base, then>> BY DEF Toast, s
<1> HIDE DEF t
<1>4. "toast" \in Overlay /\ ~Contains(t, "toast") BY <1>1, <1>2 DEF Overlay
<1>5. /\ over' \in Seq(Overlay) /\ IsInjective(over')
      /\ \A p : Contains(over', p) <=> Contains(t, p) \/ p = "toast"
  BY <1>2, <1>3, <1>4, AppendPage
<1>6. Visible("error") => Contains(over', "error")
  BY <1>1, <1>2, <1>5 DEF Form
<1>7. QED BY <1>1, <1>2, <1>3, <1>5, <1>6 DEF ScreenOK, Visible

(* A handler starts at most one goroutine, and only one joins a server.    *)
LEMMA HandlerStep ==
    ASSUME BInv, UNCHANGED <<login, session>>, base \in Follower, hasty => hasty',
           servers \subseteq servers', rooms \subseteq rooms',
           \/ UNCHANGED routines
           \/ \E k \in {"browse", "servers", "rooms"} : routines' = Append(routines, Go(k))
    PROVE  LoginTypeOK' /\ routines' \in Seq(Worker') /\ OneAtATime'
<1>1. UNCHANGED <<profile, me, pk, host, db, logins>> BY DEF login, account
<1>2. PageWorker \subseteq PageWorker' BY WorkersKept
<1>3. \A k \in {"browse", "servers", "rooms"} : Go(k) \in PageWorker' BY GoSound
<1>4. \A T : PageWorker' \subseteq T /\ routines \in Seq(T) => routines' \in Seq(T)
  BY <1>3
<1>5. QED BY <1>1, <1>2, <1>4, WorkersChange, LoginKept DEF BInv

LEMMA LeaveKeeps == ASSUME BInv, Leave PROVE BInv'
<1>1. /\ UNCHANGED <<servers, rooms, news, session, room, serverList, roomList, chosen, loaded>>
      /\ UNCHANGED <<hasty, login, joined>>
  BY DEF Leave, atHub, browsing, lists, login, account
<1>2. base = "chat" /\ routines' = Append(routines, Go("browse")) BY DEF Leave
<1>3. LoginTypeOK' /\ routines' \in Seq(Worker') /\ OneAtATime'
  BY <1>1, <1>2, HandlerStep DEF Follower
<1>4. ScreenOK' /\ \A p : ~Contains(over', p) BY SwitchShows DEF Leave, SwitchToPage
<1>5. FormsInPlace' BY <1>4 DEF FormsInPlace, Visible
<1>6. StoreOK' BY <1>1, StoreKept DEF BInv
<1>7. ClientOK' BY <1>1 DEF BInv, ClientOK
<1>8. ShownSound' BY <1>1, <1>4, ShownKept DEF BInv
<1>9. QED BY <1>3, <1>4, <1>5, <1>6, <1>7, <1>8 DEF BInv

LEMMA HandlerFailsKeeps == ASSUME BInv, HandlerFails PROVE BInv'
<1>1. /\ UNCHANGED <<servers, rooms, news, session, room, serverList, roomList, chosen, loaded>>
      /\ UNCHANGED <<hasty, login, joined, routines, base>>
  BY DEF HandlerFails, atHub, browsing, lists, login, account, ShowError, AddPage
<1>2. base \in Follower BY DEF HandlerFails, Follower
<1>3. LoginTypeOK' /\ routines' \in Seq(Worker') /\ OneAtATime' BY <1>1, <1>2, HandlerStep
<1>4. ScreenOK' /\ \A p : Contains(over', p) => p \in {"error", "toast"} \/ Visible(p)
  <2>1. CASE ShowError("stay") BY <2>1, ErrorShows DEF BInv
  <2>2. CASE AddPage("toast") BY <2>2, AddShows DEF BInv, Overlay
  <2>3. QED BY <2>1, <2>2 DEF HandlerFails
<1>5. FormsInPlace' BY <1>1, <1>4, FormsKept DEF BInv, Form
<1>6. StoreOK' BY <1>1, StoreKept DEF BInv
<1>7. ClientOK' BY <1>1 DEF BInv, ClientOK
<1>8. ShownSound' BY <1>1, <1>4, ShownKept DEF BInv
<1>9. QED BY <1>3, <1>4, <1>5, <1>6, <1>7, <1>8 DEF BInv

LEMMA OpenFormKeeps == ASSUME BInv, NEW form \in Form, OpenForm(form) PROVE BInv'
<1>1. /\ UNCHANGED <<servers, rooms, news, session, room, serverList, roomList, loaded>>
      /\ UNCHANGED <<login, joined, routines, base>>
      /\ hasty' = (hasty \/ (form = "joinRoom" /\ ~loaded))
  BY DEF OpenForm, atHub, login, account, AddPage
<1>2. base \in Follower /\ base = Home(form) BY DEF OpenForm, Opens, Follower, Home
<1>3. LoginTypeOK' /\ routines' \in Seq(Worker') /\ OneAtATime' BY <1>1, <1>2, HandlerStep
<1>4. ScreenOK' /\ \A p : Contains(over', p) <=> Visible(p) \/ p = form
  BY AddShows DEF OpenForm, BInv, Form
<1>5. \A f \in Form : Contains(over', f) => f = form BY <1>4 DEF OpenForm
<1>6. FormsInPlace' BY <1>1, <1>2, <1>5 DEF FormsInPlace, Visible, Home
<1>7. StoreOK' BY <1>1, StoreKept DEF BInv
<1>8. chosen' \in Server \cup Room \cup {NoServer}
  BY DEF OpenForm, Opens, BInv, ClientOK, StoreOK
<1>9. ClientOK' BY <1>1, <1>8 DEF BInv, ClientOK
<1>10. ShownSound'
  <2> SUFFICES ASSUME ~hasty' PROVE /\ loaded' => roomList' \subseteq RoomsIn(session.server)'
                                    /\ Visible("joinRoom")' => chosen' \in RoomsIn(session.server)'
                                    /\ session'.topic \in {NoServer, session'.server}
    BY DEF ShownSound
  <2>1. RoomsIn(session.server)' = RoomsIn(session.server) BY <1>1 DEF RoomsIn
  <2>2. ShownSound /\ ~hasty BY <1>1 DEF BInv
  <2>3. ASSUME Contains(over', "joinRoom") PROVE chosen' \in RoomsIn(session.server)
    <3>1. form = "joinRoom" BY <1>5, <2>3 DEF Form, Overlay
    <3>2. loaded /\ chosen' \in roomList BY <1>1, <3>1 DEF OpenForm, Opens
    <3>3. QED BY <2>2, <3>2 DEF ShownSound
  <2>4. QED BY <1>1, <2>1, <2>2, <2>3 DEF ShownSound, Visible
<1>11. QED BY <1>3, <1>4, <1>6, <1>7, <1>9, <1>10 DEF BInv

LEMMA CancelKeeps == ASSUME BInv, NEW form \in Form, Cancel(form) PROVE BInv'
<1>1. /\ UNCHANGED <<servers, rooms, news, session, room, serverList, roomList, chosen, loaded>>
      /\ UNCHANGED <<hasty, login, joined, routines, base>>
  BY DEF Cancel, atHub, browsing, lists, login, account, RemovePage
<1>2. base \in Follower BY FormsOverPages DEF Cancel, BInv
<1>3. LoginTypeOK' /\ routines' \in Seq(Worker') /\ OneAtATime' BY <1>1, <1>2, HandlerStep
<1>4. ScreenOK' /\ \A p : Contains(over', p) => Visible(p)
  BY RemoveShows DEF Cancel, BInv, Form
<1>5. FormsInPlace' BY <1>1, <1>4, FormsKept DEF BInv
<1>6. StoreOK' BY <1>1, StoreKept DEF BInv
<1>7. ClientOK' BY <1>1 DEF BInv, ClientOK
<1>8. ShownSound' BY <1>1, <1>4, ShownKept DEF BInv
<1>9. QED BY <1>3, <1>4, <1>5, <1>6, <1>7, <1>8 DEF BInv

-----------------------------------------------------------------------------
(* Something is created, by this user or another: the store has more, and  *)
(* what is announced holds no list yet.                                    *)
LEMMA StoreGrows ==
    ASSUME StoreOK, NEW n,
           \/ n \in Server /\ servers' = servers \cup {n} /\ UNCHANGED rooms
           \/ n \in Room /\ rooms' = rooms \cup {n} /\ UNCHANGED servers,
           Announce(n)
    PROVE  StoreOK'
<1> DEFINE a == [of |-> n, pc |-> "list", list |-> {}]
<1>1. a \in [of : Server \cup Room, pc : {"list", "publish"}, list : SUBSET (Server \cup Room)]
      /\ a.of = n /\ a.list = {}
  OBVIOUS
<1>2. news' = news \cup {a} BY DEF Announce
<1> HIDE DEF a
<1>3. servers' \subseteq Server /\ rooms' \subseteq Room BY DEF StoreOK
<1>4. /\ servers \subseteq servers' /\ rooms \subseteq rooms' /\ n \in servers' \cup rooms'
      /\ \A s : RoomsIn(s) \subseteq RoomsIn(s)'
  BY DEF RoomsIn
<1>5. ASSUME NEW b \in news'
      PROVE  /\ b.of \in servers' \cup rooms'
             /\ b.list \subseteq IF b.of \in Server THEN servers' ELSE RoomsIn(ServerOf[b.of])'
  <2>1. CASE b \in news BY <1>4, <2>1 DEF StoreOK
  <2>2. CASE b = a BY <1>1, <1>4, <2>2
  <2>3. QED BY <1>2, <2>1, <2>2
<1>6. news' \subseteq [of : Server \cup Room, pc : {"list", "publish"},
                       list : SUBSET (Server \cup Room)]
  BY <1>1, <1>2 DEF StoreOK
<1>7. QED BY <1>3, <1>5, <1>6 DEF StoreOK, RoomsIn

LEMMA CreateServerKeeps == ASSUME BInv, NEW s \in Server, CreateServer(s) PROVE BInv'
<1>1. /\ UNCHANGED <<rooms, session, room, serverList, roomList, chosen, loaded>>
      /\ UNCHANGED <<hasty, login, joined>>
      /\ servers' = servers \cup {s} /\ Announce(s) /\ Toast("createServer")
      /\ routines' = Append(routines, Go("servers"))
  BY DEF CreateServer, browsing, lists, login, account
<1>2. base \in Follower
  BY FormsOverPages DEF CreateServer, BInv, Form, Overlay
<1>3. LoginTypeOK' /\ routines' \in Seq(Worker') /\ OneAtATime' BY <1>1, <1>2, HandlerStep
<1>4. ScreenOK' /\ base' = base /\ \A p : Contains(over', p) => p = "toast" \/ Visible(p)
  BY <1>1, ToastShows DEF BInv, Form, Overlay
<1>5. FormsInPlace' BY <1>4, FormsKept DEF BInv, Form
<1>6. StoreOK' BY <1>1, StoreGrows DEF BInv
<1>7. ClientOK' BY <1>1 DEF BInv, ClientOK
<1>8. ShownSound' BY <1>1, <1>4, ShownKept DEF BInv
<1>9. QED BY <1>3, <1>4, <1>5, <1>6, <1>7, <1>8 DEF BInv

LEMMA CreateRoomKeeps == ASSUME BInv, NEW r \in Room, CreateRoom(r) PROVE BInv'
<1>1. /\ UNCHANGED <<servers, session, room, serverList, roomList, chosen, loaded>>
      /\ UNCHANGED <<hasty, login, joined>>
      /\ rooms' = rooms \cup {r} /\ Announce(r) /\ Toast("createRoom")
      /\ routines' = Append(routines, Go("rooms"))
  BY DEF CreateRoom, browsing, lists, login, account
<1>2. base \in Follower
  BY FormsOverPages DEF CreateRoom, BInv, Form, Overlay
<1>3. LoginTypeOK' /\ routines' \in Seq(Worker') /\ OneAtATime' BY <1>1, <1>2, HandlerStep
<1>4. ScreenOK' /\ base' = base /\ \A p : Contains(over', p) => p = "toast" \/ Visible(p)
  BY <1>1, ToastShows DEF BInv, Form, Overlay
<1>5. FormsInPlace' BY <1>4, FormsKept DEF BInv, Form
<1>6. StoreOK' BY <1>1, StoreGrows DEF BInv
<1>7. ClientOK' BY <1>1 DEF BInv, ClientOK
<1>8. ShownSound' BY <1>1, <1>4, ShownKept DEF BInv
<1>9. QED BY <1>3, <1>4, <1>5, <1>6, <1>7, <1>8 DEF BInv

LEMMA OthersCreateKeeps == ASSUME BInv, OthersCreate PROVE BInv'
<1>1. /\ UNCHANGED <<base, over, then, routines, hasty>>
      /\ UNCHANGED <<me, pk, host, db, joined, profile, logins>>
      /\ UNCHANGED <<session, room, serverList, roomList, chosen, loaded>>
  BY DEF OthersCreate, screen, login, account, browsing, lists
<1>2. servers \subseteq servers' /\ rooms \subseteq rooms' BY DEF OthersCreate
<1>3. StoreOK' BY StoreGrows DEF OthersCreate, BInv
<1>4. routines' \in Seq(Worker')
  <2>1. Worker \subseteq Worker' BY <1>1, <1>2, WorkersKept
  <2>2. QED BY <1>1, <2>1, SeqGrows DEF BInv
<1>5. OneAtATime'
  BY <1>1 DEF BInv, OneAtATime, Still, Trying, Agreed, Running, Settles, Saved
<1>6. LoginTypeOK' BY <1>1, LoginKept DEF BInv
<1>7. ScreenOK' /\ FormsInPlace' BY <1>1, ScreenKept, FormsKept DEF BInv
<1>8. ClientOK' BY <1>1, <1>2 DEF BInv, ClientOK
<1>9. ShownSound' BY <1>1, <1>2, ShownKept, ScreenKept DEF BInv
<1>10. QED BY <1>3, <1>4, <1>5, <1>6, <1>7, <1>8, <1>9 DEF BInv

-----------------------------------------------------------------------------
(* A server is joined.  The goroutines of the one before go on; who is not *)
(* hasty has waited for them.                                              *)
LEMMA JoinServerKeeps == ASSUME BInv, NEW s \in Server, JoinServer(s) PROVE BInv'
<1>1. /\ UNCHANGED <<servers, rooms, news, room, serverList, roomList>>
      /\ UNCHANGED <<profile, me, pk, host, db, joined, logins>>
      /\ session' = NewServerSession(s) /\ loaded' = FALSE
      /\ hasty' = (hasty \/ Running({"chat", "rooms"}))
      /\ routines' = routines \o <<Go("chat"), Go("rooms")>>
      /\ base = "browse" /\ SwitchToPage("chat")
  BY DEF JoinServer, atHub, login, account
<1>2. session'.server = s /\ session'.topic = NoServer /\ session' \in
        [server : Server \cup {NoServer}, topic : Server \cup {NoServer}]
  BY <1>1 DEF NewServerSession
<1>3. ASSUME NEW i \in DOMAIN routines PROVE routines[i] \in Worker'
  <2>1. routines[i] \in Worker BY DEF BInv
  <2>2. CASE routines[i] \in Attempt BY <2>2 DEF Worker
  <2>3. CASE routines[i] \in PageWorker
    <3>1. PICK x \in PageRoutine : x = routines[i] /\ Sound(x) BY <2>3 DEF PageWorker
    <3>2. Carries(x, rooms)' BY <1>1, <3>1 DEF Sound, Carries, OfServers
    <3>3. ASSUME ~hasty' PROVE OfSession(x)'
      <4>1. x.kind \in {"browse", "servers"}
        BY <1>1, <3>1, <3>3 DEF Running, PageRoutine
      <4>2. Carries(x, RoomsIn(session.server))'
        BY <1>1, <3>1, <4>1 DEF Sound, Carries, OfServers
      <4>3. QED BY <4>1, <4>2 DEF OfSession
    <3>4. Sound(x)' BY <1>2, <3>1, <3>2, <3>3 DEF Sound
    <3>5. QED BY <3>1, <3>4 DEF Worker, PageWorker
  <2>4. QED BY <2>1, <2>2, <2>3 DEF Worker
<1>4. routines \in Seq(Worker') BY <1>3 DEF BInv
<1>5. Go("chat") \in PageWorker' /\ Go("rooms") \in PageWorker' BY <1>2, GoSound
<1>6. \A T : PageWorker' \subseteq T /\ routines \in Seq(T) => routines' \in Seq(T)
  BY <1>1, <1>5
<1>7. routines' \in Seq(Worker') /\ OneAtATime'
  BY <1>1, <1>4, <1>6, WorkersMove DEF BInv, Follower
<1>8. LoginTypeOK' /\ StoreOK' BY <1>1, LoginKept, StoreKept DEF BInv
<1>9. ScreenOK' /\ \A p : ~Contains(over', p) BY <1>1, SwitchShows DEF SwitchToPage
<1>10. FormsInPlace' BY <1>9 DEF FormsInPlace, Visible
<1>11. chosen' \in Server \cup Room \cup {NoServer}
  BY DEF JoinServer, Selects, BInv, ClientOK
<1>12. ClientOK' BY <1>1, <1>2, <1>11 DEF BInv, ClientOK
<1>13. ShownSound' BY <1>1, <1>2, <1>9 DEF ShownSound, Visible
<1>14. QED BY <1>7, <1>8, <1>9, <1>10, <1>12, <1>13 DEF BInv

(* What is picked from a list, or was picked for the form that is filled   *)
(* in, is a room of the current server.                                    *)
LEMMA PickedIsCurrent ==
    ASSUME BInv, NEW r \in Room, JoinRoom(r), ~hasty'
    PROVE  ~hasty /\ r \in RoomsIn(session.server)
<1>1. ~hasty /\ loaded BY DEF JoinRoom
<1>2. /\ roomList \subseteq RoomsIn(session.server)
      /\ Visible("joinRoom") => chosen \in RoomsIn(session.server)
  BY <1>1 DEF BInv, ShownSound
<1>3. r \in roomList \/ (Visible("joinRoom") /\ chosen = r)
  BY DEF JoinRoom, Picks, Fills
<1>4. QED BY <1>1, <1>2, <1>3

LEMMA JoinRoomKeeps == ASSUME BInv, NEW r \in Room, JoinRoom(r) PROVE BInv'
<1>1. /\ UNCHANGED <<servers, rooms, news, session, serverList, roomList, loaded>>
      /\ UNCHANGED <<login, joined>>
      /\ chosen' = IF Visible("joinRoom") THEN r ELSE chosen
      /\ base = "chat" /\ (hasty => hasty')
  BY DEF JoinRoom, login, account, Selects
<1>2. UNCHANGED routines \/ routines' = Append(routines, Go("rooms")) BY DEF JoinRoom
<1>3. LoginTypeOK' /\ routines' \in Seq(Worker') /\ OneAtATime'
  BY <1>1, <1>2, HandlerStep DEF Follower
<1>4. ScreenOK' /\ base' = base /\ \A p : Contains(over', p) => p = "error" \/ Visible(p)
  <2>1. CASE UNCHANGED <<base, over, then>> BY <2>1, ScreenKept DEF BInv
  <2>2. CASE RemovePage("joinRoom") BY <2>2, RemoveShows DEF BInv, RemovePage
  <2>3. CASE ShowError("stay") BY <2>3, ErrorShows DEF BInv
  <2>4. QED BY <2>1, <2>2, <2>3 DEF JoinRoom
<1>5. FormsInPlace' BY <1>4, FormsKept DEF BInv, Form
<1>6. StoreOK' BY <1>1, StoreKept DEF BInv
<1>7. ClientOK'
  <2>1. room' \in Room \cup {NoRoom} BY DEF JoinRoom, BInv, ClientOK
  <2>2. QED BY <1>1, <2>1 DEF BInv, ClientOK
<1>8. ShownSound'
  <2>1. RoomsIn(session.server)' = RoomsIn(session.server) BY <1>1 DEF RoomsIn
  <2>2. ASSUME ~hasty' PROVE ShownSound /\ ~hasty /\ r \in RoomsIn(session.server)
    BY <2>2, PickedIsCurrent DEF BInv
  <2>3. QED BY <1>1, <1>4, <2>1, <2>2 DEF ShownSound, Visible
<1>9. QED BY <1>3, <1>4, <1>5, <1>6, <1>7, <1>8 DEF BInv

-----------------------------------------------------------------------------
(* The hub's advertisements: a list is taken from the store as it is, and  *)
(* reaches those who follow its topic.                                     *)
LEMMA TakeListKeeps == ASSUME BInv, NEW a \in news, TakeList(a) PROVE BInv'
<1>1. /\ UNCHANGED <<base, over, then, routines, hasty>>
      /\ UNCHANGED <<me, pk, host, db, joined, profile, logins>>
      /\ UNCHANGED <<servers, rooms, session, room, serverList, roomList, chosen, loaded>>
  BY DEF TakeList, screen, login, account, browsing, lists
<1>2. StoreOK'
  <2> DEFINE list == IF a.of \in Server THEN servers ELSE RoomsIn(ServerOf[a.of])
             b == [a EXCEPT !.pc = "publish", !.list = list]
  <2>1. list \subseteq Server \cup Room BY DEF BInv, StoreOK, RoomsIn
  <2> HIDE DEF list
  <2>2. /\ b \in [of : Server \cup Room, pc : {"list", "publish"},
                  list : SUBSET (Server \cup Room)]
        /\ b.of = a.of /\ b.list = list
    BY <2>1 DEF BInv, StoreOK
  <2>3. news' = (news \ {a}) \cup {b} BY DEF TakeList, list
  <2> HIDE DEF b
  <2>4. ASSUME NEW c \in news'
        PROVE  /\ c.of \in servers \cup rooms
               /\ c.list \subseteq IF c.of \in Server THEN servers ELSE RoomsIn(ServerOf[c.of])
    BY <2>2, <2>3 DEF BInv, StoreOK, list
  <2>5. news' \subseteq [of : Server \cup Room, pc : {"list", "publish"},
                         list : SUBSET (Server \cup Room)]
    BY <2>2, <2>3 DEF BInv, StoreOK
  <2>6. QED BY <1>1, <2>4, <2>5 DEF BInv, StoreOK, RoomsIn
<1>3. routines' \in Seq(Worker')
  <2>1. Worker \subseteq Worker' BY <1>1, WorkersKept
  <2>2. QED BY <1>1, <2>1, SeqGrows DEF BInv
<1>4. OneAtATime'
  BY <1>1 DEF BInv, OneAtATime, Still, Trying, Agreed, Running, Settles, Saved
<1>5. LoginTypeOK' BY <1>1, LoginKept DEF BInv
<1>6. ScreenOK' /\ FormsInPlace' BY <1>1, ScreenKept, FormsKept DEF BInv
<1>7. ClientOK' BY <1>1 DEF BInv, ClientOK
<1>8. ShownSound' BY <1>1, ShownKept, ScreenKept DEF BInv
<1>9. QED BY <1>2, <1>3, <1>4, <1>5, <1>6, <1>7, <1>8 DEF BInv

(* What a follower hears is of the kind it shows, and of its own server.   *)
LEMMA HeardSound ==
    ASSUME BInv, NEW a \in news, NEW x \in PageWorker, Hears(x, AdvertisedTopic(a))
    PROVE  [x EXCEPT !.msgs = @ \cup {a.list}] \in PageWorker
<1>1. /\ a.of \in Server \cup Room /\ a.list \subseteq Server \cup Room
      /\ a.list \subseteq IF a.of \in Server THEN servers ELSE RoomsIn(ServerOf[a.of])
  BY DEF BInv, StoreOK
<1>2. x \in PageRoutine /\ Sound(x) BY DEF PageWorker
<1>3. x.kind \in {"browse", "chat"} /\ x.pc \in {"next", "show"} /\ x.topic = AdvertisedTopic(a)
  BY DEF Hears, Follower
<1> DEFINE r == [x EXCEPT !.msgs = @ \cup {a.list}]
<1>4. r \in PageRoutine BY <1>1, <1>2 DEF PageRoutine
<1>5. /\ r.kind = x.kind /\ r.pc = x.pc /\ r.list = x.list /\ r.topic = x.topic
      /\ r.msgs = x.msgs \cup {a.list}
  BY <1>2 DEF PageRoutine
<1> HIDE DEF r
<1>6. CASE x.kind = "browse"
  <2>1. AdvertisedTopic(a) = "servers" BY <1>2, <1>3, <1>6 DEF Sound, Joining
  <2>2. a.of \in Server BY <1>1, <2>1, BrowsingAssumption DEF AdvertisedTopic
  <2>3. a.list \subseteq servers BY <1>1, <2>2
  <2>4. Sound(r)
    BY <1>2, <1>3, <1>5, <1>6, <2>3 DEF Sound, Carries, OfServers, OfSession, Joining
  <2>5. QED BY <1>4, <2>4 DEF PageWorker, r
<1>7. CASE x.kind = "chat"
  <2>1. AdvertisedTopic(a) \in Server BY <1>2, <1>3, <1>7 DEF Sound, Joining
  <2>2. a.of \notin Server /\ ServerOf[a.of] = x.topic
    BY <1>3, <2>1, BrowsingAssumption DEF AdvertisedTopic
  <2>3. a.list \subseteq RoomsIn(x.topic) /\ a.list \subseteq rooms
    BY <1>1, <2>2 DEF RoomsIn
  <2>4. Sound(r)
    BY <1>2, <1>3, <1>5, <1>7, <2>3 DEF Sound, Carries, OfServers, OfSession, Joining
  <2>5. QED BY <1>4, <2>4 DEF PageWorker, r
<1>8. QED BY <1>3, <1>6, <1>7

LEMMA PublishKeeps == ASSUME BInv, NEW a \in news, Publish(a) PROVE BInv'
<1>1. /\ UNCHANGED <<base, over, then, hasty>>
      /\ UNCHANGED <<me, pk, host, db, joined, profile, logins>>
      /\ UNCHANGED <<servers, rooms, session, room, serverList, roomList, chosen, loaded>>
  BY DEF Publish, login, account, browsing, lists
<1>2. StoreOK'
  BY <1>1 DEF BInv, StoreOK, RoomsIn, Publish
<1> DEFINE Heard(x) == IF Hears(x, AdvertisedTopic(a))
                       THEN [x EXCEPT !.msgs = @ \cup {a.list}] ELSE x
<1>3. /\ routines' = [i \in DOMAIN routines |-> Heard(routines[i])]
      /\ routines \in Seq(Worker)
  BY DEF Publish, BInv
<1>4. ASSUME NEW x \in Worker
      PROVE  /\ x \in Attempt => Heard(x) = x
             /\ x \in PageWorker => Heard(x) \in PageWorker
  BY HeardSound DEF Hears, Follower, Attempt
<1>5. Worker \subseteq Worker' /\ PageWorker \subseteq PageWorker' BY <1>1, WorkersKept
<1> HIDE DEF Heard
<1>6. routines' \in Seq(Worker)
  <2>1. \A i \in DOMAIN routines : Heard(routines[i]) \in Worker
    BY <1>3, <1>4 DEF Worker
  <2>2. QED BY <1>3, <2>1
<1>7. routines' \in Seq(Worker') BY <1>5, <1>6, SeqGrows
<1>8. OneAtATime'
  <2>1. CASE Still
    <3>1. routines' = << >> BY <1>3, <2>1 DEF Still
    <3>2. QED BY <1>1, <2>1, <3>1 DEF OneAtATime, Still
  <2>2. CASE Trying
    <3>1. PICK r \in Attempt : routines = <<r>> /\ Settles(r) BY <2>2 DEF Trying
    <3>2. Heard(r) = r BY <1>4, <3>1, WorkerKinds
    <3>3. routines' = <<r>> BY <1>3, <3>1, <3>2
    <3>4. QED BY <1>1, <2>2, <3>1, <3>3 DEF OneAtATime, Trying, Settles, Saved
  <2>3. CASE Agreed
    <3>1. \A i \in DOMAIN routines : routines[i] \in PageWorker
      BY <1>3, <2>3, WorkerKinds DEF Agreed, Running
    <3>2. \A i \in DOMAIN routines' : routines'[i] \in PageWorker
      BY <1>3, <1>4, <3>1 DEF Worker
    <3>3. ~Running({"login"})' BY <3>2, WorkerKinds DEF Running
    <3>4. QED BY <1>1, <2>3, <3>3 DEF OneAtATime, Agreed, Saved
  <2>4. QED BY <1>1, <2>1, <2>2, <2>3 DEF BInv, OneAtATime
<1>9. LoginTypeOK' BY <1>1, LoginKept DEF BInv
<1>10. ScreenOK' /\ FormsInPlace' BY <1>1, ScreenKept, FormsKept DEF BInv
<1>11. ClientOK' BY <1>1 DEF BInv, ClientOK
<1>12. ShownSound' BY <1>1, ShownKept, ScreenKept DEF BInv
<1>13. QED BY <1>2, <1>7, <1>8, <1>9, <1>10, <1>11, <1>12 DEF BInv

-----------------------------------------------------------------------------
LEMMA InitBInv == ASSUME Init PROVE BInv
<1>1. ScreenOK /\ OneAtATime /\ routines = << >> /\ over = << >> /\ joined = {}
  BY FreshStarts DEF Init, LoginInit, Fresh
<1>2. LoginTypeOK BY InitTyped DEF Init
<1>3. FormsInPlace BY <1>1 DEF FormsInPlace, Visible, Contains
<1>4. StoreOK BY DEF Init, StoreOK
<1>5. ClientOK BY <1>1 DEF Init, ClientOK, NoSession
<1>6. ShownSound BY <1>1 DEF Init, ShownSound, Visible, Contains, NoSession
<1>7. QED BY <1>1, <1>2, <1>3, <1>4, <1>5, <1>6 DEF BInv

LEMMA StutterKeeps == ASSUME BInv, UNCHANGED vars PROVE BInv'
<1>1. /\ UNCHANGED <<base, over, then, routines, hasty>>
      /\ UNCHANGED <<me, pk, host, db, joined, profile, logins>>
      /\ UNCHANGED <<servers, rooms, news, session, room, serverList, roomList, chosen, loaded>>
  BY DEF vars, screen, login, account, atHub, browsing, lists
<1>2. routines' \in Seq(Worker')
  <2>1. Worker \subseteq Worker' BY <1>1, WorkersKept
  <2>2. QED BY <1>1, <2>1, SeqGrows DEF BInv
<1>3. OneAtATime'
  BY <1>1 DEF BInv, OneAtATime, Still, Trying, Agreed, Running, Settles, Saved
<1>4. LoginTypeOK' /\ StoreOK' BY <1>1, LoginKept, StoreKept DEF BInv
<1>5. ScreenOK' /\ FormsInPlace' BY <1>1, ScreenKept, FormsKept DEF BInv
<1>6. ClientOK' BY <1>1 DEF BInv, ClientOK
<1>7. ShownSound' BY <1>1, ShownKept, ScreenKept DEF BInv
<1>8. QED BY <1>2, <1>3, <1>4, <1>5, <1>6, <1>7 DEF BInv

LEMMA NextBInv == ASSUME BInv, [Next]_vars PROVE BInv'
<1>1. CASE LoginStep /\ UNCHANGED <<atHub, browsing, bounds>> BY <1>1, LoginStepKeeps
<1>2. CASE ProcessStep /\ SessionEnds BY <1>2, SessionEndsKeeps
<1>3. CASE \E i \in DOMAIN routines :
              SwitchToBrowseScreen(i) /\ UNCHANGED <<atHub, browsing, bounds>>
  BY <1>3, SwitchKeeps
<1>4. CASE Pages
  BY <1>4, LeaveKeeps, HandlerFailsKeeps, OpenFormKeeps, CancelKeeps, CreateServerKeeps,
     JoinServerKeeps, CreateRoomKeeps, JoinRoomKeeps
  DEF Pages
<1>5. CASE Routines BY <1>5, RoutineKeeps DEF Routines
<1>6. CASE Tickers BY <1>6, TickKeeps DEF Tickers
<1>7. CASE OthersCreate BY <1>7, OthersCreateKeeps
<1>8. CASE \E a \in news : TakeList(a) \/ Publish(a) BY <1>8, TakeListKeeps, PublishKeeps
<1>9. QED
  BY <1>1, <1>2, <1>3, <1>4, <1>5, <1>6, <1>7, <1>8, StutterKeeps DEF Next

LEMMA BrowsingInvariant == Spec => []BInv
<1>1. Init => BInv BY InitBInv
<1>2. BInv /\ [Next]_vars => BInv' BY NextBInv
<1>3. QED BY <1>1, <1>2, PTL DEF Spec

-----------------------------------------------------------------------------
(* The variables keep their types; in particular both lists on the screen  *)
(* hold only servers and rooms the hub has, and no page is shown twice     *)
(* (Pages of tview, the lists of ui/browse.go and ui/chat.go).             *)
THEOREM BrowsingTypes == Spec => []TypeOK
<1>1. BInv => TypeOK
  BY DEF BInv, TypeOK, ScreenOK, StoreOK, ClientOK, RoomsIn
<1>2. QED BY BrowsingInvariant, <1>1, PTL

(* On all pages, and back on the login page and in again, name and keys,   *)
(* peer id and database are one person's (LoginHandler, CreateUserHandler),*)
(* whatever the pages' goroutines and dialogs do meanwhile.                *)
THEOREM BrowsingAgrees == Spec => []SessionAgrees
<1>1. BInv => SessionAgrees BY OneAtATimeImplies DEF BInv
<1>2. QED BY BrowsingInvariant, <1>1, PTL

(* And the keys in use are in that person's profile file (GenerateProfile).*)
THEOREM BrowsingKeysOnDisk == Spec => []KeysAreOnDisk
<1>1. BInv => KeysAreOnDisk BY OneAtATimeImplies DEF BInv
<1>2. QED BY BrowsingInvariant, <1>1, PTL

(* For a user who joins a server only when the chat page's goroutines of   *)
(* the last one have ended, the rooms topic of a session is its server's,  *)
(* and there when the follower reads it (StartRoomAutoRefresh).  A join    *)
(* while a follower runs is what the theorem leaves out: then GetTopic may *)
(* return nil, and the topic may be the last server's.                     *)
THEOREM BrowsingTopic == Spec => []TopicIsItsServers
<1>1. BInv => TopicIsItsServers
  <2> SUFFICES ASSUME BInv, ~hasty PROVE TopicIsItsServers BY DEF TopicIsItsServers
  <2>1. ASSUME NEW i \in DOMAIN routines, At(i, "chat", "subscribe")
        PROVE  session.topic # NoServer
    BY <2>1, TheRoutine DEF BInv, At, Sound, OfSession
  <2>2. QED BY <2>1 DEF BInv, ShownSound, TopicIsItsServers
<1>2. QED BY BrowsingInvariant, <1>1, PTL

(* A user who is not hasty picks no room that takes the hub down           *)
(* (JoinRoomHandler, server.go:354): none that is not the current          *)
(* server's.  Hasty are those who join a server while goroutines of the    *)
(* last one's chat page run, or pick before a list has come; of them it    *)
(* says nothing.                                                           *)
THEOREM BrowsingPicksFind == Spec => PicksFind
<1>1. BInv /\ [Next]_vars => [hub' = hub \/ hasty']_vars
  <2> SUFFICES ASSUME BInv, Next PROVE hub' = hub \/ hasty' OBVIOUS
  <2>1. CASE UNCHANGED hub BY <2>1
  <2>2. ASSUME NEW r \in Room, JoinRoom(r) PROVE hub' = hub \/ hasty'
    BY <2>2, PickedIsCurrent DEF JoinRoom
  <2>3. CASE Pages
    BY <2>1, <2>2, <2>3
    DEF Pages, Leave, HandlerFails, OpenForm, Cancel, CreateServer, JoinServer, CreateRoom, atHub
  <2>4. CASE Routines \/ Tickers
    BY <2>4
    DEF Routines, Routine, Tickers, Tick, AskServers, UpdateServerList, AskRooms,
        UpdateRoomList, HasTopic, JoinTopic, Subscribe, SubscribePanics, SessionEnds, Receive,
        Show, Cancelled, atHub
  <2>5. CASE OthersCreate \/ \E a \in news : TakeList(a) \/ Publish(a)
    BY <2>5 DEF OthersCreate, TakeList, Publish
  <2>6. QED BY <2>1, <2>3, <2>4, <2>5 DEF Next, SessionEnds, atHub
<1>2. QED BY BrowsingInvariant, <1>1, PTL DEF Spec, PicksFind
=============================================================================
