--------------------------- MODULE CatchUp_proofs ---------------------------
(***************************************************************************)
(* Catch-up for any rooms, goroutines, messages, limits and joins: what an *)
(* answer holds is of the room it was asked for unless the helper's user   *)
(* changed rooms meanwhile, an open response topic has one goroutine that  *)
(* will close it or was lost with the one that had it, and a room's        *)
(* ratchet is installed from one answer.  What a goroutine has read of the *)
(* current room is followed from place to place, until it publishes.       *)
(***************************************************************************)
EXTENDS CatchUp, SequenceTheorems, TLAPS

(* What a goroutine has read so far is of the room that is still current,  *)
(* unless that has changed; there is one as long as it runs, and while a   *)
(* join is going on.                                                       *)
ReadsCurrent ==
    /\ hui # "idle" => hcur \in Room
    /\ \A g \in Helper :
          /\ at[g] # "off" => hcur \in Room
          /\ ~moved[g] =>
               /\ at[g] \in {"auth", "check", "publish", "close"} => answer[g].rows = hcur
               /\ at[g] \in {"check", "publish", "close"} => answer[g].key = hcur
               /\ at[g] \in {"publish", "close"} => answer[g].topic = hcur

(* Answers are there only to be read, and a room whose key has come, or is *)
(* being waited for, has been asked for in this run.                       *)
AskedOnce ==
    /\ answers # {} => ui = "waiting"
    /\ \A r \in Room : key[r] # NoRoom => r \in subscribed
    /\ ui # "idle" => room \in subscribed /\ key[room] = NoRoom

HelperInv == HelperTypeOK /\ ReadsCurrent /\ TopicHeldOrLost
NewcomerInv == NewcomerTypeOK /\ AskedOnce /\ AnswersAskedRoom
CInv == HelperInv /\ NewcomerInv

-----------------------------------------------------------------------------
LEMMA WrittenFacts ==
    \A r \in Room : /\ Len(Written[r]) \in Nat /\ DOMAIN Written[r] = 1..Len(Written[r])
                    /\ DOMAIN Written[r] \subseteq Index
                    /\ 0..Len(Written[r]) \subseteq Count
<1> SUFFICES ASSUME NEW r \in Room
             PROVE  /\ Len(Written[r]) \in Nat /\ DOMAIN Written[r] = 1..Len(Written[r])
                    /\ DOMAIN Written[r] \subseteq Index
                    /\ 0..Len(Written[r]) \subseteq Count
  OBVIOUS
<1>1. Len(Written[r]) \in Nat /\ DOMAIN Written[r] = 1..Len(Written[r])
  <2>1. Written[r] \in Seq(User) BY CatchUpAssumption
  <2>2. QED BY <2>1, LenProperties
<1>2. ASSUME NEW i \in DOMAIN Written[r] PROVE i \in Index
  <2>1. DOMAIN Written[r] \in { DOMAIN Written[q] : q \in Room } OBVIOUS
  <2>2. QED BY <2>1 DEF Index
<1>3. 0..Len(Written[r]) \subseteq Count BY <1>1, <1>2 DEF Count
<1>4. QED BY <1>1, <1>2, <1>3

LEMMA EmptyAnswers ==
    /\ Blank \in Room
    /\ NoAnswer \in [rows : Room, count : Count, key : Room, topic : Room]
    /\ Nothing \in Answer
<1>1. Blank \in Room BY CatchUpAssumption DEF Blank
<1>2. 0 \in Count BY DEF Count
<1>3. QED BY <1>1, <1>2 DEF NoAnswer, Nothing, Answer

(* Who holds which response topic is all that matters of the helper's      *)
(* goroutines there.                                                       *)
LEMMA HoldersKept ==
    ASSUME TopicHeldOrLost, UNCHANGED <<open, lost>>,
           \A g \in Helper, r \in Room : Holds(g, r)' <=> Holds(g, r),
           open \subseteq Room
    PROVE  TopicHeldOrLost'
BY DEF TopicHeldOrLost

(* The invariant holds before the helper has joined a room.                *)
THEOREM InitCInv == Init => CInv
<1> SUFFICES ASSUME Init PROVE CInv OBVIOUS
<1> USE CatchUpAssumption, EmptyAnswers DEF Init
<1>1. HelperTypeOK
  <2>1. answer \in [Helper -> [rows : Room, count : Count, key : Room, topic : Room]]
    OBVIOUS
  <2>2. /\ at \in [Helper -> {"off", "top", "next", "build", "auth", "check",
                            "publish", "close"}]
        /\ listens \in [Helper -> Room] /\ inbox \in [Helper -> 0..MaxInbox]
        /\ moved \in [Helper -> BOOLEAN]
    OBVIOUS
  <2>3. joins \in 0..MaxJoins OBVIOUS
  <2>4. /\ hui \in {"idle", "entered", "subscribed"} /\ hcur \in Room \cup {NoRoom}
        /\ topics \subseteq Room /\ open \subseteq Room /\ lost \subseteq Room
    OBVIOUS
  <2>5. QED BY ONLY <2>1, <2>2, <2>3, <2>4 DEF HelperTypeOK
<1>2. ReadsCurrent /\ TopicHeldOrLost BY DEF ReadsCurrent, TopicHeldOrLost, Holds
<1>3. NewcomerTypeOK BY DEF NewcomerTypeOK
<1>4. AskedOnce /\ AnswersAskedRoom BY DEF AskedOnce, AnswersAskedRoom
<1>5. QED BY <1>1, <1>2, <1>3, <1>4 DEF CInv, HelperInv, NewcomerInv

(* The helper's user: what was read of a room that is left counts as       *)
(* moved.                                                                  *)
LEMMA HelperUIKeepsInv ==
    ASSUME HelperInv, HelperUI
    PROVE  HelperInv'
<1> USE CatchUpAssumption DEF HelperInv
<1>0. open \subseteq Room BY DEF HelperTypeOK
<1>1. ASSUME NEW r \in Room, Enter(r) PROVE HelperInv'
  <2> USE <1>1 DEF Enter
  <2>1. HelperTypeOK' BY DEF HelperTypeOK
  <2>2. ReadsCurrent' BY DEF ReadsCurrent, Answering, HelperTypeOK
  <2>3. TopicHeldOrLost' BY <1>0, HoldersKept DEF Holds
  <2>4. QED BY <2>1, <2>2, <2>3
<1>2. CASE SetTopic \/ JoinFails
  <2> USE <1>2 DEF SetTopic, JoinFails, goroutines
  <2>1. HelperTypeOK' BY DEF HelperTypeOK, ReadsCurrent
  <2>2. ReadsCurrent' BY DEF ReadsCurrent
  <2>3. TopicHeldOrLost' BY <1>0, HoldersKept DEF Holds
  <2>4. QED BY <2>1, <2>2, <2>3
<1>3. ASSUME NEW g \in Helper, StartHelper(g) PROVE HelperInv'
  <2> USE <1>3 DEF StartHelper
  <2>1. HelperTypeOK' BY DEF HelperTypeOK, ReadsCurrent
  <2>2. ReadsCurrent' BY DEF ReadsCurrent, HelperTypeOK
  <2>3. TopicHeldOrLost' BY <1>0, HoldersKept DEF Holds, HelperTypeOK
  <2>4. QED BY <2>1, <2>2, <2>3
<1>4. QED BY <1>1, <1>2, <1>3 DEF HelperUI

LEMMA HelperEndsKeepsInv ==
    ASSUME HelperInv, HelperEnds
    PROVE  HelperInv'
<1> USE CatchUpAssumption, EmptyAnswers DEF HelperInv, HelperEnds
<1>1. HelperTypeOK'
  <2>1. answer' \in [Helper -> [rows : Room, count : Count, key : Room, topic : Room]]
    OBVIOUS
  <2>2. /\ at' \in [Helper -> {"off", "top", "next", "build", "auth", "check",
                             "publish", "close"}]
        /\ listens' \in [Helper -> Room] /\ inbox' \in [Helper -> 0..MaxInbox]
        /\ moved' \in [Helper -> BOOLEAN]
    OBVIOUS
  <2>3. QED BY <2>1, <2>2 DEF HelperTypeOK
<1>2. ReadsCurrent' /\ TopicHeldOrLost' BY DEF ReadsCurrent, TopicHeldOrLost, Holds
<1>3. QED BY <1>1, <1>2

(* A goroutine that ends before it joins a response topic leaves what the  *)
(* others hold alone.                                                      *)
LEMMA DeathsKeepInv ==
    ASSUME HelperInv, NEW g \in Helper, NoAuth(g) \/ Invalid(g) \/ TopicTaken(g)
    PROVE  HelperInv'
<1> USE CatchUpAssumption, EmptyAnswers DEF HelperInv
<1>1. /\ Dies(g) /\ UNCHANGED <<hui, hcur, topics, joins, open, lost>>
      /\ at[g] \in {"auth", "check"}
  BY DEF NoAuth, Invalid, TopicTaken
<1>2. HelperTypeOK' BY <1>1 DEF HelperTypeOK, Dies, Goto
<1>3. ReadsCurrent' BY <1>1 DEF ReadsCurrent, HelperTypeOK, Dies, Goto
<1>4. TopicHeldOrLost' BY <1>1, HoldersKept DEF HelperTypeOK, Holds, Dies, Goto
<1>5. QED BY <1>2, <1>3, <1>4

(* One that ends while it is on a topic is the only one there: the topic   *)
(* is lost, and every other one has its goroutine still.                   *)
LEMMA DeathsOnTopicKeepInv ==
    ASSUME HelperInv, NEW g \in Helper, NotInitialized(g) \/ AnswerFails(g)
    PROVE  HelperInv'
<1> USE CatchUpAssumption, EmptyAnswers DEF HelperInv
<1> DEFINE t == answer[g].topic
<1>1. /\ Dies(g) /\ lost' = lost \cup {t} /\ UNCHANGED <<hui, hcur, topics, joins, open>>
      /\ at[g] \in {"publish", "close"}
  BY DEF NotInitialized, AnswerFails, DiesOnTopic
<1>2. t \in Room BY DEF HelperTypeOK
<1>3. HelperTypeOK' BY <1>1, <1>2 DEF HelperTypeOK, Dies, Goto
<1>4. ReadsCurrent' BY <1>1 DEF ReadsCurrent, HelperTypeOK, Dies, Goto
<1>5. TopicHeldOrLost'
  <2>1. \A h \in Helper, r \in Room : Holds(h, r)' <=> h # g /\ Holds(h, r)
    BY <1>1 DEF Holds, Dies, Goto, HelperTypeOK
  <2>2. Holds(g, t) /\ \A r \in Room : Holds(g, r) => r = t BY <1>1 DEF Holds
  <2>3. open \subseteq Room BY DEF HelperTypeOK
  <2> HIDE DEF t
  <2>4. QED BY <1>1, <1>2, <2>1, <2>2, <2>3 DEF TopicHeldOrLost
<1>6. QED BY <1>3, <1>4, <1>5

(* What is built, looked up and joined is of the current room.             *)
LEMMA HelpKeepsInv ==
    ASSUME HelperInv, NEW g \in Helper, HelpCatchUp(g)
    PROVE  HelperInv'
<1> USE CatchUpAssumption, EmptyAnswers DEF HelperInv, Goto
<1>0. open \subseteq Room BY DEF HelperTypeOK
<1>1. CASE Log(g)
  <2>1. HelperTypeOK' /\ ReadsCurrent' BY <1>1 DEF Log, HelperTypeOK, ReadsCurrent
  <2>2. TopicHeldOrLost' BY <1>0, <1>1, HoldersKept DEF Log, Holds, HelperTypeOK
  <2>3. QED BY <2>1, <2>2
<1>2. CASE LogPanics(g) BY <1>2, HelperEndsKeepsInv DEF LogPanics
<1>3. CASE NextRequest(g)
  <2> USE <1>3 DEF NextRequest
  <2>1. HelperTypeOK' BY DEF HelperTypeOK
  <2>2. ReadsCurrent' BY DEF ReadsCurrent, HelperTypeOK
  <2>3. TopicHeldOrLost' BY <1>0, HoldersKept DEF Holds, HelperTypeOK
  <2>4. QED BY <2>1, <2>2, <2>3
<1>4. CASE BuildCatchUpPayload(g)
  <2>1. hcur \in Room BY <1>4 DEF BuildCatchUpPayload, ReadsCurrent
  <2>2. PICK n \in 0..Len(Written[hcur]) :
          answer' = [answer EXCEPT ![g].rows = hcur, ![g].count = IF n < Limit THEN n ELSE Limit]
    BY <1>4 DEF BuildCatchUpPayload
  <2> DEFINE count == IF n < Limit THEN n ELSE Limit
  <2>3. count \in Count
    <3>1. Len(Written[hcur]) \in Nat /\ 0..Len(Written[hcur]) \subseteq Count
      BY <2>1, WrittenFacts
    <3>2. count \in 0..Len(Written[hcur]) BY <3>1
    <3> HIDE DEF count
    <3>3. QED BY ONLY <3>1, <3>2
  <2>4. answer' = [answer EXCEPT ![g].rows = hcur, ![g].count = count] BY <2>2
  <2> HIDE DEF count
  <2>5. /\ answer'[g] = [answer[g] EXCEPT !.rows = hcur, !.count = count]
        /\ \A h \in Helper \ {g} : answer'[h] = answer[h]
        /\ answer' \in [Helper -> [rows : Room, count : Count, key : Room, topic : Room]]
    BY <2>1, <2>3, <2>4 DEF HelperTypeOK
  <2>6. /\ at[g] = "build" /\ at' = [at EXCEPT ![g] = "auth"]
        /\ UNCHANGED <<hui, hcur, topics, joins, listens, inbox, open, lost, moved>>
    BY <1>4 DEF BuildCatchUpPayload
  <2>7. HelperTypeOK' BY <2>5, <2>6 DEF HelperTypeOK
  <2>8. answer'[g].rows = hcur BY <2>1, <2>3, <2>5 DEF HelperTypeOK
  <2>9. ReadsCurrent' BY <2>1, <2>5, <2>6, <2>8 DEF ReadsCurrent, HelperTypeOK
  <2>10. \A h \in Helper : h # g => answer'[h] = answer[h] /\ at'[h] = at[h]
    BY <2>5, <2>6 DEF HelperTypeOK
  <2>11. at'[g] = "auth" BY <2>6 DEF HelperTypeOK
  <2>12. TopicHeldOrLost' BY <1>0, <2>6, <2>10, <2>11, HoldersKept DEF Holds
  <2>13. QED BY <2>7, <2>9, <2>12
<1>5. CASE GetAuth(g)
  <2> USE <1>5 DEF GetAuth
  <2>1. /\ answer'[g].key = hcur
        /\ \A h \in Helper : /\ answer'[h].rows = answer[h].rows
                             /\ answer'[h].topic = answer[h].topic
        /\ \A h \in Helper \ {g} : answer'[h] = answer[h]
    BY DEF HelperTypeOK
  <2>2. HelperTypeOK' BY DEF HelperTypeOK
  <2>3. ReadsCurrent' BY <2>1 DEF ReadsCurrent, HelperTypeOK
  <2>4. TopicHeldOrLost' BY <1>0, <2>1, HoldersKept DEF Holds, HelperTypeOK
  <2>5. QED BY <2>2, <2>3, <2>4
<1>6. CASE JoinTopic(g)
  <2> USE <1>6 DEF JoinTopic
  <2>1. /\ answer'[g].topic = hcur
        /\ \A h \in Helper : /\ answer'[h].rows = answer[h].rows
                             /\ answer'[h].key = answer[h].key
        /\ \A h \in Helper \ {g} : answer'[h] = answer[h]
    BY DEF HelperTypeOK
  <2>2. hcur \in Room BY DEF ReadsCurrent
  <2>3. HelperTypeOK' BY <2>2 DEF HelperTypeOK
  <2>4. ReadsCurrent' BY <2>1 DEF ReadsCurrent, HelperTypeOK
  <2>5. TopicHeldOrLost'
    <3>1. \A h \in Helper, r \in Room :
             Holds(h, r)' <=> (h = g /\ r = hcur) \/ (h # g /\ Holds(h, r))
      BY <2>1 DEF Holds, HelperTypeOK
    <3>2. open' = open \cup {hcur} /\ hcur \notin open /\ lost' = lost OBVIOUS
    <3>3. \A r \in Room : ~Holds(g, r) BY DEF Holds
    <3>4. QED BY ONLY TopicHeldOrLost, g \in Helper, <1>0, <2>2, <3>1, <3>2, <3>3
              DEF TopicHeldOrLost
  <2>6. QED BY <2>3, <2>4, <2>5
<1>7. CASE PublishAnswer(g)
  <2> USE <1>7 DEF PublishAnswer
  <2>1. HelperTypeOK' BY DEF HelperTypeOK
  <2>2. ReadsCurrent' BY DEF ReadsCurrent, HelperTypeOK
  <2>3. TopicHeldOrLost' BY <1>0, HoldersKept DEF Holds, HelperTypeOK
  <2>4. QED BY <2>1, <2>2, <2>3
<1>8. CASE Close(g)
  <2> USE <1>8 DEF Close
  <2>1. HelperTypeOK' BY DEF HelperTypeOK
  <2>2. ReadsCurrent' BY DEF ReadsCurrent, HelperTypeOK
  <2>3. TopicHeldOrLost'
    <3> DEFINE t == answer[g].topic
    <3>1. \A h \in Helper, r \in Room : Holds(h, r)' <=> h # g /\ Holds(h, r)
      BY DEF Holds, HelperTypeOK
    <3>2. Holds(g, t) /\ t \in Room /\ \A r \in Room : Holds(g, r) => r = t
      BY DEF Holds, HelperTypeOK
    <3>3. open' = open \ {t} /\ lost' = lost OBVIOUS
    <3> HIDE DEF t
    <3>4. QED BY ONLY TopicHeldOrLost, g \in Helper, <1>0, <3>1, <3>2, <3>3
              DEF TopicHeldOrLost
  <2>4. QED BY <2>1, <2>2, <2>3
<1>9. QED
  BY <1>1, <1>2, <1>3, <1>4, <1>5, <1>6, <1>7, <1>8, DeathsKeepInv, DeathsOnTopicKeepInv
  DEF HelpCatchUp

-----------------------------------------------------------------------------
(* The newcomer does nothing to the helper but send it requests.           *)
LEMMA RequestsKeepInv ==
    ASSUME HelperInv, HelperButInbox, inbox' \in [Helper -> 0..MaxInbox]
    PROVE  HelperInv'
BY DEF HelperInv, HelperButInbox, HelperTypeOK, ReadsCurrent, TopicHeldOrLost, Holds

LEMMA RequestArrives ==
    ASSUME HelperTypeOK, NEW r, PublishRequest(r)
    PROVE  inbox' \in [Helper -> 0..MaxInbox]
BY CatchUpAssumption DEF HelperTypeOK, PublishRequest

(* The answer that is published is of the room it is awaited for.          *)
LEMMA PublishKeepsInv ==
    ASSUME CInv, NEW g \in Helper, PublishAnswer(g)
    PROVE  NewcomerInv'
<1> DEFINE sent == [rows |-> answer[g].rows, count |-> answer[g].count,
                    key |-> answer[g].key, moved |-> moved[g]]
<1> USE DEF CInv, HelperInv, NewcomerInv
<1>1. /\ UNCHANGED <<ui, room, attempt, subscribed, saving, next, key, toWrite, peers>>
      /\ \/ UNCHANGED answers
         \/ ui = "waiting" /\ answer[g].topic = room /\ answers' = {sent}
  BY DEF PublishAnswer
<1>2. sent \in Answer BY DEF Answer, HelperTypeOK
<1>3. ~moved[g] => answer[g].rows = answer[g].topic /\ answer[g].key = answer[g].topic
  BY DEF PublishAnswer, ReadsCurrent
<1>4. NewcomerTypeOK' BY <1>1, <1>2 DEF NewcomerTypeOK
<1>5. AskedOnce' BY <1>1 DEF AskedOnce
<1>6. AnswersAskedRoom' BY <1>1, <1>3 DEF AnswersAskedRoom
<1>7. QED BY <1>4, <1>5, <1>6

-----------------------------------------------------------------------------
(* The newcomer's steps.                                                   *)
LEMMA NewcomerKeepsInv ==
    ASSUME CInv,
           \/ \E r \in Asked : Ask(r) \/ AskFails(r)
           \/ RequestCatchUp \/ NewcomerEnds \/ \E u \in User : WritePeer(u)
    PROVE  CInv'
<1> USE CatchUpAssumption DEF CInv, HelperInv, NewcomerInv
<1>1. ASSUME NEW r \in Asked, Ask(r) PROVE CInv'
  <2> USE <1>1 DEF Ask
  <2>1. HelperInv' BY RequestArrives, RequestsKeepInv
  <2>2. NewcomerTypeOK' BY DEF NewcomerTypeOK, Members
  <2>3. AskedOnce' /\ AnswersAskedRoom' BY DEF AskedOnce, AnswersAskedRoom
  <2>4. QED BY <2>1, <2>2, <2>3
<1>2. ASSUME UNCHANGED helper PROVE HelperInv'
  BY <1>2 DEF helper, goroutines, HelperTypeOK, ReadsCurrent, TopicHeldOrLost, Holds
<1>3. ASSUME NEW r \in Asked, AskFails(r) PROVE CInv'
  <2> USE <1>3 DEF AskFails
  <2>1. NewcomerTypeOK' BY DEF NewcomerTypeOK, Members
  <2>2. AskedOnce' /\ AnswersAskedRoom' BY DEF AskedOnce, AnswersAskedRoom
  <2>3. QED BY <1>2, <2>1, <2>2
<1>4. CASE Timeout
  <2> USE <1>4 DEF Timeout
  <2>1. HelperInv' BY RequestArrives, RequestsKeepInv
  <2>2. attempt' \in 0..MaxRetries - 1 BY DEF NewcomerTypeOK, Return
  <2>3. NewcomerTypeOK' BY <2>2, EmptyAnswers DEF NewcomerTypeOK, Return
  <2>4. AskedOnce' /\ AnswersAskedRoom'
    BY EmptyAnswers DEF AskedOnce, AnswersAskedRoom, Return
  <2>5. QED BY <2>1, <2>3, <2>4
<1>5. CASE ReceiveAnswer
  <2> USE <1>5 DEF ReceiveAnswer
  <2>1. NewcomerTypeOK' BY DEF NewcomerTypeOK
  <2>2. AskedOnce' /\ AnswersAskedRoom' BY DEF AskedOnce, AnswersAskedRoom
  <2>3. QED BY <1>2, <2>1, <2>2
<1>6. CASE AnswerInvalid \/ RowInvalid \/ Install
  <2>1. /\ Return /\ UNCHANGED <<helper, subscribed, toWrite, peers>>
        /\ \/ key' = key
           \/ ui = "saving" /\ key' = [key EXCEPT ![room] = saving.key]
    BY <1>6 DEF AnswerInvalid, RowInvalid, Install
  <2>2. NewcomerTypeOK'
    <3>1. saving.key \in Room BY DEF NewcomerTypeOK, Answer
    <3>2. key' \in [Room -> Room \cup {NoRoom}] BY <2>1, <3>1 DEF NewcomerTypeOK
    <3>3. QED BY <2>1, <3>2, EmptyAnswers DEF NewcomerTypeOK, Return
  <2>3. AskedOnce' BY <2>1, EmptyAnswers DEF AskedOnce, Return, NewcomerTypeOK
  <2>4. AnswersAskedRoom' BY <2>1 DEF AnswersAskedRoom, Return
  <2>5. QED BY <1>2, <2>1, <2>2, <2>3, <2>4
<1>7. CASE AnswerPanics \/ NewcomerEnds
  <2> USE <1>7, EmptyAnswers DEF AnswerPanics, NewcomerEnds, Return
  <2>1. NewcomerTypeOK' BY DEF NewcomerTypeOK
  <2>2. AskedOnce' /\ AnswersAskedRoom' BY DEF AskedOnce, AnswersAskedRoom
  <2>3. QED BY <1>2, <2>1, <2>2
<1>8. CASE SaveRow
  <2> USE <1>8 DEF SaveRow
  <2>1. NewcomerTypeOK' BY DEF NewcomerTypeOK
  <2>2. AskedOnce' /\ AnswersAskedRoom' BY DEF AskedOnce, AnswersAskedRoom
  <2>3. QED BY <1>2, <2>1, <2>2
<1>9. ASSUME NEW u \in User, WritePeer(u) PROVE CInv'
  <2> USE <1>9 DEF WritePeer, joining
  <2>1. NewcomerTypeOK' BY DEF NewcomerTypeOK
  <2>2. AskedOnce' /\ AnswersAskedRoom' BY DEF AskedOnce, AnswersAskedRoom
  <2>3. QED BY <1>2, <2>1, <2>2
<1>10. QED
  BY <1>1, <1>3, <1>4, <1>5, <1>6, <1>7, <1>8, <1>9 DEF RequestCatchUp

(* Every step preserves the invariant.                                     *)
LEMMA NextCInv ==
    ASSUME CInv, [Next]_vars
    PROVE  CInv'
<1> USE DEF CInv
<1>1. ASSUME UNCHANGED newcomer PROVE NewcomerInv'
  BY <1>1 DEF newcomer, joining, NewcomerInv, NewcomerTypeOK, AskedOnce, AnswersAskedRoom
<1>2. CASE HelperUI
  <2>1. UNCHANGED newcomer
    BY <1>2 DEF HelperUI, Enter, SetTopic, JoinFails, StartHelper
  <2>2. QED BY <1>1, <1>2, <2>1, HelperUIKeepsInv
<1>3. CASE HelperEnds
  BY <1>1, <1>3, HelperEndsKeepsInv DEF HelperEnds
<1>4. ASSUME NEW g \in Helper, HelpCatchUp(g) PROVE CInv'
  <2>1. HelperInv' BY <1>4, HelpKeepsInv
  <2>2. CASE PublishAnswer(g) BY <2>1, <2>2, PublishKeepsInv
  <2>3. CASE ~PublishAnswer(g)
    <3>1. UNCHANGED newcomer
      BY <1>4, <2>3 DEF HelpCatchUp, Log, LogPanics, HelperEnds, NextRequest,
         BuildCatchUpPayload, GetAuth, NoAuth, Invalid, JoinTopic, TopicTaken,
         NotInitialized, AnswerFails, Close
    <3>2. QED BY <1>1, <2>1, <3>1
  <2>4. QED BY <2>2, <2>3
<1>5. CASE UNCHANGED vars
  <2>1. HelperInv'
    BY <1>5 DEF vars, helper, goroutines, HelperInv, HelperTypeOK, ReadsCurrent,
       TopicHeldOrLost, Holds
  <2>2. QED BY <1>1, <1>5, <2>1 DEF vars
<1>6. QED BY <1>2, <1>3, <1>4, <1>5, NewcomerKeepsInv DEF Next

(* The invariant of both sides.                                            *)
THEOREM CatchUpInvariant == Spec => []CInv
<1>1. QED BY InitCInv, NextCInv, PTL DEF Spec

(* Every variable keeps its type, the counts and bounds included.          *)
THEOREM CatchUpTypes == Spec => []TypeOK
<1>1. CInv => TypeOK BY DEF CInv, HelperInv, NewcomerInv, TypeOK
<1>2. QED BY <1>1, CatchUpInvariant, PTL

(* helpers.go:184-223: an answer is of the room it was asked for, unless   *)
(* the helper's user changed rooms while it was built.                     *)
THEOREM CatchUpAnswersAskedRoom == Spec => []AnswersAskedRoom
<1>1. CInv => AnswersAskedRoom BY DEF CInv, NewcomerInv
<1>2. QED BY <1>1, CatchUpInvariant, PTL

(* helpers.go:223-244: a response topic that is open has one goroutine on  *)
(* its way to close it, or was lost when that one failed.                  *)
THEOREM CatchUpTopicHeldOrLost == Spec => []TopicHeldOrLost
<1>1. CInv => TopicHeldOrLost BY DEF CInv, HelperInv
<1>2. QED BY <1>1, CatchUpInvariant, PTL

(* helpers.go:70-77: in the life of a process an answer installs a room's  *)
(* ratchet once, however many attempts and answers there are.              *)
THEOREM CatchUpInstalledOnce == Spec => InstalledOnce
<1>1. CInv /\ [Next]_vars => [Install => key[room] = NoRoom]_vars
  BY DEF CInv, NewcomerInv, AskedOnce, Install, RowLeft
<1>2. QED BY <1>1, CatchUpInvariant, PTL DEF Spec, InstalledOnce
=============================================================================
