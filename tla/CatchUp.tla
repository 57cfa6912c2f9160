------------------------------ MODULE CatchUp ------------------------------
(***************************************************************************)
(* How a newcomer gets a room's key and its first messages: requestCatchUp *)
(* on one client and the helpCatchUp goroutines of another, which ChatRoom *)
(* takes as one step.  The newcomer publishes a request on the room's      *)
(* catch-up topic, waits for an answer on a topic of its own, asks again   *)
(* after each timeout, and saves the rows it gets one by one, checking     *)
(* each against the peers table, which a worker is still filling from the  *)
(* members list.  The other client answers from one goroutine for every    *)
(* join it has made; all of them read whatever room is current at the      *)
(* time, while its user joins one room after the other.  Requests and      *)
(* answers may be lost, and either process may end at any point and start  *)
(* again: the newcomer keeps its database.                                 *)
(***************************************************************************)
EXTENDS Integers, Sequences

CONSTANTS
    Room,
    NoRoom,
    Owned,         \* rooms in the helper's room_auth table: it created them
    Helper,        \* bound: goroutines that run helpCatchUp at a time
    User,          \* those who have written messages
    Newcomer,      \* the user who joins
    Asked,         \* rooms the newcomer joins
    Written,       \* Written[r]: senders of r's messages, by chain index
    Limit,         \* rows in an answer (100 in the code)
    MaxRetries,    \* 5 in the code
    MaxInbox,      \* bound: requests waiting in one subscription
    MaxJoins       \* bound: joins of the helper's user

ASSUME CatchUpAssumption ==
    /\ Room # {} /\ NoRoom \notin Room /\ Owned \subseteq Room /\ Asked \subseteq Room
    /\ Newcomer \in User /\ Written \in [Room -> Seq(User)]
    /\ Limit \in Nat /\ MaxRetries \in Nat \ {0}
    /\ MaxInbox \in Nat /\ MaxJoins \in Nat

VARIABLES
    (* the helper's process *)
    hui,           \* its UI goroutine's place in JoinRoomHandler
    hcur,          \* its current room
    topics,        \* rooms whose RoomSession has the catch-up topic
    at,            \* where each helpCatchUp goroutine is
    listens,       \* the room whose catch-up topic it is subscribed to
    inbox,         \* requests waiting in its subscription
    answer,        \* the answer it is building: rows, count and key
    open,          \* rooms whose response topic the process has joined
    lost,          \* those that a goroutine joined and died with (history variable)
    moved,         \* the current room changed under this answer (history variable)
    joins,         \* its user's joins so far (for the bound)
    (* the newcomer's process *)
    ui,            \* its UI goroutine's place in requestCatchUp
    room,          \* the room it is joining
    attempt,       \* requests that timed out
    subscribed,    \* rooms whose response topic it has joined, for good
    answers,       \* answers that have reached the topic it waits on
    saving,        \* the answer being saved
    next,          \* the row of it that is next
    key,           \* the room whose master key each joined room's ratchet has
    toWrite,       \* users in the peers write queue
    peers          \* the peers table: survives

goroutines == <<at, listens, inbox, answer, open, lost, moved>>
helper == <<hui, hcur, topics, joins, goroutines>>
joining == <<ui, room, attempt, subscribed, answers, saving, next, key>>
newcomer == <<joining, toWrite, peers>>
vars == <<helper, newcomer>>

Index == UNION { DOMAIN Written[r] : r \in Room }
Count == Index \cup {0}
Answer == [rows : Room, count : Count, key : Room, moved : BOOLEAN]

HelperTypeOK ==
    /\ hui \in {"idle", "entered", "subscribed"}
    /\ hcur \in Room \cup {NoRoom}
    /\ topics \subseteq Room
    /\ at \in [Helper -> {"off", "top", "next", "build", "auth", "check",
                          "publish", "close"}]
    /\ listens \in [Helper -> Room]
    /\ inbox \in [Helper -> 0..MaxInbox]
    /\ answer \in [Helper -> [rows : Room, count : Count, key : Room, topic : Room]]
    /\ open \subseteq Room /\ lost \subseteq Room
    /\ moved \in [Helper -> BOOLEAN]
    /\ joins \in 0..MaxJoins

NewcomerTypeOK ==
    /\ ui \in {"idle", "waiting", "saving"}
    /\ room \in Room
    /\ attempt \in 0..MaxRetries - 1
    /\ subscribed \subseteq Room
    /\ answers \subseteq Answer
    /\ saving \in Answer
    /\ next \in Nat \ {0}
    /\ key \in [Room -> Room \cup {NoRoom}]
    /\ toWrite \subseteq User /\ peers \subseteq User

TypeOK == HelperTypeOK /\ NewcomerTypeOK

-----------------------------------------------------------------------------
Blank == CHOOSE r \in Room : TRUE
Nothing == [rows |-> Blank, count |-> 0, key |-> Blank, moved |-> FALSE]
NoAnswer == [rows |-> Blank, count |-> 0, key |-> Blank, topic |-> Blank]

Init ==
    /\ hui = "idle" /\ hcur = NoRoom /\ topics = {}
    /\ at = [g \in Helper |-> "off"]
    /\ listens = [g \in Helper |-> Blank]
    /\ inbox = [g \in Helper |-> 0]
    /\ answer = [g \in Helper |-> NoAnswer]
    /\ open = {} /\ lost = {}
    /\ moved = [g \in Helper |-> FALSE]
    /\ joins = 0
    /\ ui = "idle" /\ room = Blank /\ attempt = 0 /\ subscribed = {}
    /\ answers = {} /\ saving = Nothing /\ next = 1
    /\ key = [r \in Room |-> NoRoom]
    /\ toWrite = {} /\ peers \in SUBSET (User \ {Newcomer})

-----------------------------------------------------------------------------
Answering == {"build", "auth", "check", "publish", "close"}

(* The helper's user joins a room (JoinRoomHandler): the current room      *)
(* changes first...                                                        *)
Enter(r) ==
    /\ hui = "idle" /\ joins < MaxJoins
    /\ hui' = "entered" /\ hcur' = r /\ joins' = joins + 1
    /\ moved' = [g \in Helper |-> moved[g] \/ (at[g] \in Answering /\ r # hcur)]
    /\ UNCHANGED <<topics, at, listens, inbox, answer, open, lost, newcomer>>

(* ...its catch-up topic is joined later...                                *)
SetTopic ==
    /\ hui = "entered"
    /\ hui' = "subscribed"
    /\ topics' = topics \cup {hcur}
    /\ UNCHANGED <<hcur, joins, goroutines, newcomer>>

JoinFails ==
    /\ hui # "idle"
    /\ hui' = "idle"
    /\ UNCHANGED <<hcur, topics, joins, goroutines, newcomer>>

(* ...and with the join complete one more goroutine answers requests.      *)
StartHelper(g) ==
    /\ hui = "subscribed" /\ at[g] = "off"
    /\ hui' = "idle"
    /\ at' = [at EXCEPT ![g] = "top"]
    /\ listens' = [listens EXCEPT ![g] = hcur]
    /\ inbox' = [inbox EXCEPT ![g] = 0]
    /\ UNCHANGED <<hcur, topics, joins, answer, open, lost, moved, newcomer>>

HelperEnds ==
    /\ hui' = "idle" /\ hcur' = NoRoom /\ topics' = {}
    /\ at' = [g \in Helper |-> "off"]
    /\ listens' = [g \in Helper |-> Blank]
    /\ inbox' = [g \in Helper |-> 0]
    /\ answer' = [g \in Helper |-> NoAnswer]
    /\ open' = {} /\ lost' = {}
    /\ moved' = [g \in Helper |-> FALSE]
    /\ UNCHANGED <<joins, newcomer>>

-----------------------------------------------------------------------------
(* helpCatchUp, in goroutine g.                                            *)
Goto(g, place) == at' = [at EXCEPT ![g] = place]

(* Any error ends it, and the locals go with it...                         *)
Dies(g) ==
    /\ Goto(g, "off")
    /\ listens' = [listens EXCEPT ![g] = Blank]
    /\ inbox' = [inbox EXCEPT ![g] = 0]
    /\ answer' = [answer EXCEPT ![g] = NoAnswer]
    /\ moved' = [moved EXCEPT ![g] = FALSE]

(* ...so that a response topic it is on is never closed.                   *)
DiesOnTopic(g) == Dies(g) /\ lost' = lost \cup {answer[g].topic}

(* The loop starts by logging the name of the current room's topic.        *)
Log(g) ==
    /\ at[g] = "top" /\ hcur \in topics
    /\ Goto(g, "next")
    /\ UNCHANGED <<hui, hcur, topics, joins, listens, inbox, answer, open,
                   lost, moved, newcomer>>

(* A room that is being joined for the first time has none.                *)
LogPanics(g) == at[g] = "top" /\ hcur \notin topics /\ HelperEnds

NextRequest(g) ==
    /\ at[g] = "next" /\ inbox[g] > 0
    /\ inbox' = [inbox EXCEPT ![g] = @ - 1]
    /\ moved' = [moved EXCEPT ![g] = FALSE]
    /\ Goto(g, "build")
    /\ UNCHANGED <<hui, hcur, topics, joins, listens, answer, open, lost,
                   newcomer>>

(* BuildCatchUpPayload for the current room: the first of however many of  *)
(* its messages the helper's table has by now                              *)
BuildCatchUpPayload(g) ==
    /\ at[g] = "build"
    /\ \E n \in 0..Len(Written[hcur]) :
          answer' = [answer EXCEPT ![g].rows = hcur, ![g].count = IF n < Limit THEN n ELSE Limit]
    /\ Goto(g, "auth")
    /\ UNCHANGED <<hui, hcur, topics, joins, listens, inbox, open, lost, moved,
                   newcomer>>

(* GetAuth for the current room                                            *)
GetAuth(g) ==
    /\ at[g] = "auth" /\ hcur \in Owned
    /\ answer' = [answer EXCEPT ![g].key = hcur]
    /\ Goto(g, "check")
    /\ UNCHANGED <<hui, hcur, topics, joins, listens, inbox, open, lost, moved,
                   newcomer>>

(* ...which has no row for a room of somebody else's, and may fail         *)
NoAuth(g) ==
    /\ at[g] = "auth"
    /\ Dies(g)
    /\ UNCHANGED <<hui, hcur, topics, joins, open, lost, newcomer>>

(* A request is refused when it came through a third peer or from a clock  *)
(* that is ahead.                                                          *)
Invalid(g) ==
    /\ at[g] = "check"
    /\ Dies(g)
    /\ UNCHANGED <<hui, hcur, topics, joins, open, lost, newcomer>>

(* The response topic, of the current room again, is joined unless this    *)
(* process is on it already.                                               *)
ListenedTopic(g) ==   \* mutant: the topic of the room it listens for
    /\ at[g] = "check" /\ listens[g] \notin open
    /\ answer' = [answer EXCEPT ![g].topic = listens[g]]
    /\ open' = open \cup {listens[g]}
    /\ Goto(g, "publish")
    /\ UNCHANGED <<hui, hcur, topics, joins, listens, inbox, lost, moved,
                   newcomer>>

JoinTopic(g) ==
    /\ at[g] = "check" /\ hcur \notin open
    /\ answer' = [answer EXCEPT ![g].topic = hcur]
    /\ open' = open \cup {hcur}
    /\ Goto(g, "publish")
    /\ UNCHANGED <<hui, hcur, topics, joins, listens, inbox, lost, moved,
                   newcomer>>

TopicTaken(g) ==
    /\ at[g] = "check" /\ hcur \in open
    /\ Dies(g)
    /\ UNCHANGED <<hui, hcur, topics, joins, open, lost, newcomer>>

(* An answer may be lost, and is lost on a topic the newcomer does not     *)
(* wait on: nothing reads it.  Only one answer is ever read, so one is     *)
(* kept and those before or after it may as well be lost.                  *)
PublishAnswer(g) ==
    LET a == answer[g]
        sent == [rows |-> a.rows, count |-> a.count, key |-> a.key, moved |-> moved[g]]
    IN  /\ at[g] = "publish" /\ hcur \in topics
        /\ \/ /\ ui = "waiting" /\ a.topic = room /\ answers = {}
              /\ answers' = {sent}
           \/ UNCHANGED answers
        /\ Goto(g, "close")
        /\ UNCHANGED <<hui, hcur, topics, joins, listens, inbox, answer, open,
                       lost, moved, ui, room, attempt, subscribed, saving, next, key, toWrite,
                       peers>>

(* The current room may have no catch-up topic...                          *)
NotInitialized(g) ==
    /\ at[g] = "publish" /\ hcur \notin topics
    /\ DiesOnTopic(g)
    /\ UNCHANGED <<hui, hcur, topics, joins, open, newcomer>>

(* ...and the answer may fail to be made or to be published, or its topic  *)
(* to be closed.                                                           *)
AnswerFails(g) ==
    /\ at[g] \in {"publish", "close"}
    /\ DiesOnTopic(g)
    /\ UNCHANGED <<hui, hcur, topics, joins, open, newcomer>>

LeftOpen(g) ==   \* mutant: the response topic is not closed
    /\ at[g] = "close"
    /\ Goto(g, "top")
    /\ answer' = [answer EXCEPT ![g] = NoAnswer] /\ moved' = [moved EXCEPT ![g] = FALSE]
    /\ UNCHANGED <<hui, hcur, topics, joins, listens, inbox, open, lost, newcomer>>

Close(g) ==
    /\ at[g] = "close"
    /\ open' = open \ {answer[g].topic}
    /\ answer' = [answer EXCEPT ![g] = NoAnswer] /\ moved' = [moved EXCEPT ![g] = FALSE]
    /\ Goto(g, "top")
    /\ UNCHANGED <<hui, hcur, topics, joins, listens, inbox, lost, newcomer>>

-----------------------------------------------------------------------------
(* The newcomer.  The hub's members list names users to be written to the  *)
(* peers table; a client skips itself.                                     *)
Members(listed) == toWrite' = toWrite \cup (listed \ {Newcomer})

(* A request reaches any of the goroutines that listen to the room.        *)
PublishRequest(r) ==
    \E reached \in SUBSET { g \in Helper : at[g] # "off" /\ listens[g] = r
                                            /\ inbox[g] < MaxInbox } :
        inbox' = [g \in Helper |-> IF g \in reached THEN inbox[g] + 1 ELSE inbox[g]]

HelperButInbox ==
    UNCHANGED <<hui, hcur, topics, joins, at, listens, answer, open, lost, moved>>

AskAnyway(r) ==   \* mutant: the response topic may be joined twice
    /\ ui = "idle"
    /\ \E listed \in SUBSET User : Members(listed)
    /\ ui' = "waiting" /\ room' = r
    /\ subscribed' = subscribed \cup {r}
    /\ PublishRequest(r)
    /\ HelperButInbox /\ UNCHANGED <<attempt, answers, saving, next, key, peers>>

(* requestCatchUp joins the response topic and asks.                       *)
Ask(r) ==
    /\ ui = "idle" /\ r \notin subscribed
    /\ \E listed \in SUBSET User : Members(listed)
    /\ ui' = "waiting" /\ room' = r
    /\ subscribed' = subscribed \cup {r}
    /\ PublishRequest(r)
    /\ HelperButInbox /\ UNCHANGED <<attempt, answers, saving, next, key, peers>>

(* Anything up to the first request may fail, and the topic of an earlier  *)
(* attempt, which is never left, does: it cannot be joined again.          *)
AskFails(r) ==
    /\ ui = "idle"
    /\ \E listed \in SUBSET User : Members(listed)
    /\ subscribed' \in {subscribed, subscribed \cup {r}}
    /\ UNCHANGED <<helper, ui, room, attempt, answers, saving, next, key, peers>>

(* requestCatchUp returns: its locals go, and nothing reads its            *)
(* subscription any more.                                                  *)
Return ==
    /\ ui' = "idle" /\ room' = Blank /\ attempt' = 0
    /\ answers' = {} /\ saving' = Nothing /\ next' = 1

Unlimited ==   \* mutant: one attempt too many
    /\ ui = "waiting"
    /\ PublishRequest(room)
    /\ \/ attempt < MaxRetries /\ attempt' = attempt + 1
          /\ UNCHANGED <<ui, room, answers, saving, next>>
       \/ attempt = MaxRetries /\ Return
    /\ HelperButInbox /\ UNCHANGED <<subscribed, key, toWrite, peers>>

Uncounted ==   \* mutant: the attempts are not counted
    /\ ui = "waiting"
    /\ PublishRequest(room)
    /\ UNCHANGED <<ui, room, attempt, answers, saving, next>>
    /\ HelperButInbox /\ UNCHANGED <<subscribed, key, toWrite, peers>>

(* A second without an answer: the request is published again, after the   *)
(* last attempt too.                                                       *)
Timeout ==
    /\ ui = "waiting"
    /\ PublishRequest(room)
    /\ \/ attempt + 1 < MaxRetries /\ attempt' = attempt + 1
          /\ UNCHANGED <<ui, room, answers, saving, next>>
       \/ attempt + 1 = MaxRetries /\ Return
    /\ HelperButInbox /\ UNCHANGED <<subscribed, key, toWrite, peers>>

(* The first answer that is read counts...                                 *)
ReceiveAnswer ==
    /\ ui = "waiting" /\ saving' \in answers
    /\ ui' = "saving" /\ attempt' = 0 /\ answers' = {}
    /\ UNCHANGED <<helper, room, subscribed, next, key, toWrite, peers>>

(* ...and ends the join when it came through a third peer or from a clock  *)
(* that is ahead, or says that the helper could not read its rows...       *)
AnswerInvalid ==
    /\ ui = "waiting" /\ answers # {}
    /\ Return
    /\ UNCHANGED <<helper, subscribed, key, toWrite, peers>>

(* ...and the process when its rows do not decompress: they are counted    *)
(* before the error is looked at.                                          *)
NewcomerEnds ==
    /\ Return
    /\ subscribed' = {} /\ toWrite' = {} /\ key' = [r \in Room |-> NoRoom]
    /\ UNCHANGED <<helper, peers>>

AnswerPanics == ui = "waiting" /\ answers # {} /\ NewcomerEnds

(* validateCatchupMessageSecurity: the sender's keys are in the peers table*)
Sender(i) == Written[saving.rows][i]
RowLeft == ui = "saving" /\ next <= saving.count

(* A row that cannot be saved is logged and skipped.                       *)
SaveRow ==
    /\ RowLeft /\ Sender(next) \in peers
    /\ next' = next + 1
    /\ UNCHANGED <<helper, ui, room, attempt, subscribed, answers, saving, key, toWrite, peers>>

RowInvalid ==
    /\ RowLeft /\ Sender(next) \notin peers
    /\ Return
    /\ UNCHANGED <<helper, subscribed, key, toWrite, peers>>

(* SetInitialRatchet with the key of the answer                            *)
Install ==
    /\ ui = "saving" /\ next > saving.count
    /\ key' = [key EXCEPT ![room] = saving.key]
    /\ Return
    /\ UNCHANGED <<helper, subscribed, toWrite, peers>>

(* peerWriteWorker writes one queued user, or fails to.                    *)
WritePeer(u) ==
    /\ u \in toWrite
    /\ toWrite' = toWrite \ {u}
    /\ peers' \in {peers, peers \cup {u}}
    /\ UNCHANGED <<helper, joining>>

-----------------------------------------------------------------------------
HelpCatchUp(g) ==
    \/ Log(g) \/ LogPanics(g) \/ NextRequest(g) \/ BuildCatchUpPayload(g)
    \/ GetAuth(g) \/ NoAuth(g) \/ Invalid(g)
    \/ JoinTopic(g) \/ TopicTaken(g) \/ PublishAnswer(g) \/ NotInitialized(g)
    \/ AnswerFails(g) \/ Close(g)

HelperUI ==
    \/ \E r \in Room : Enter(r)
    \/ SetTopic \/ JoinFails \/ \E g \in Helper : StartHelper(g)

RequestCatchUp ==
    \/ Timeout \/ ReceiveAnswer \/ AnswerInvalid \/ AnswerPanics
    \/ SaveRow \/ RowInvalid \/ Install

Next ==
    \/ HelperUI \/ HelperEnds \/ \E g \in Helper : HelpCatchUp(g)
    \/ \E r \in Asked : Ask(r) \/ AskFails(r)
    \/ RequestCatchUp \/ NewcomerEnds \/ \E u \in User : WritePeer(u)

(* Timers fire and the newcomer's goroutines are scheduled; nothing is     *)
(* asked of the helper or of the network.                                  *)
Spec == Init /\ [][Next]_vars /\ WF_vars(RequestCatchUp)

-----------------------------------------------------------------------------
(* helpers.go:184-223 reads the current room three times.  If it does not  *)
(* change meanwhile, what arrives on a room's response topic is that       *)
(* room's rows and that room's key, although any goroutine may answer any  *)
(* request for any room.                                                   *)
AnswersAskedRoom ==
    \A a \in answers : ~a.moved => a.rows = room /\ a.key = room

(* Of two goroutines that answer one request, the second finds the         *)
(* response topic taken and ends; the first closes it after its answer.    *)
(* So a topic that is open has one goroutine on its way to close it; but   *)
(* if that one fails between joining and closing it, the topic stays open  *)
(* for as long as the process runs, and no goroutine will answer on it     *)
(* again (helpers.go:223-244).                                             *)
Holds(g, r) == at[g] \in {"publish", "close"} /\ answer[g].topic = r

TopicHeldOrLost ==
    /\ lost \subseteq open
    /\ \A r \in open : r \notin lost => \E g \in Helper : Holds(g, r)
    /\ \A g, h \in Helper, r \in Room :
          Holds(g, r) => r \in open \ lost /\ (Holds(h, r) => g = h)

(* The response topic is never left either by the one who asks             *)
(* (helpers.go:70-77).  So a room's ratchet, which an answer sets back to  *)
(* index 0, is set by one answer in the life of a process, whatever is     *)
(* late or sent twice and however often the user comes back to the room:   *)
(* not under chat goroutines that have begun to use it.                    *)
InstalledOnce == [][Install => key[room] = NoRoom]_vars

(* The UI goroutine comes back from requestCatchUp, answered or not, or    *)
(* its process ends.                                                       *)
JoinEnds == ui # "idle" ~> ui = "idle"

(* pubsub_topics.go:60: a user gets the ratchet of the room it joins.      *)
KeyIsTheRooms == \A r \in Room : key[r] \in {r, NoRoom}
=============================================================================
