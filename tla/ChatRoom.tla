------------------------------ MODULE ChatRoom ------------------------------
(***************************************************************************)
(* Several clients of internal/client chatting in rooms of one server.     *)
(* The UI goroutine runs JoinRoomHandler and SendMessageHandler one after  *)
(* the other, and its event loop in between; every join starts one more    *)
(* chat goroutine, which outlives the room it was started for and reads    *)
(* the current room afresh for each thing it does with a message.  A       *)
(* handler's run from one such read to the next, or to a blocking call, is *)
(* one step (module RatchetThreads looks inside).  Chat topics deliver     *)
(* each message to every subscription, the sender's own included, in any   *)
(* order or not at all; a process may exit at any point and keeps only its *)
(* database.                                                               *)
(***************************************************************************)
EXTENDS Ratchet, Sequences, FiniteSets

CONSTANTS
    Client,        \* client processes, each with one user and one database
    NoRoom,        \* Session.Current.Room is nil
    Creator,       \* Creator[r]: the client whose room_auth table holds r's key
    LoadLimit,     \* rows parseAndDisplayDBMessages loads (200 in the code)
    CatchUpLimit,  \* rows helpCatchUp sends (100 in the code)
    QueueSize,     \* what History.writeQ holds
    Plans,         \* bound: in a behaviour each client enters only the rooms, may
                   \* fail before it has a ratchet, and has only as many restarts
                   \* and failing subscriptions and sends, as one of the plans says
    MaxMsgs,       \* bound: messages published in a behaviour
    MaxSubs        \* bound: chat goroutines one client starts for one room

ASSUME ConstantsAssumption ==
    /\ NoRoom \notin Room
    /\ Creator \in [Room -> Client]
    /\ Plans \subseteq [visits : [Client -> SUBSET Room], faults : [Client -> Nat],
                 failing : SUBSET Client]
    /\ LoadLimit \in Nat /\ CatchUpLimit \in Nat /\ QueueSize \in Nat
    /\ MaxMsgs \in Nat /\ MaxSubs \in Nat

VARIABLES
    proc,         \* whether the process is up, has exited or has panicked
    ui,           \* the UI goroutine's place in JoinRoomHandler
    todo,         \* rows parseAndDisplayDBMessages has still to show
    cur,          \* Session.Current.Room
    ready,        \* rooms whose RoomSession has its ratchets
    topics,       \* rooms whose RoomSession has the chat topic
    session,      \* the ratchets of every RoomSession
    asked,        \* rooms whose catch-up response topic was joined
    loops,        \* chat goroutines per room
    idle,         \* those that are waiting for a message
    pending,      \* copies of each message on their way to the chat goroutines; one
                  \* that is never taken is lost
    buffered,     \* the same, for a subscription whose goroutine has yet to start
    opened,       \* messages chat goroutines have decrypted and not yet filed
    drawing,      \* those they have filed and wait for the UI goroutine to draw
    lines,        \* the same, for replayed rows
    screen,       \* messages in the chat screen's list, whichever room is current
    queue,        \* rows waiting in History.writeQ
    used,         \* messages whose keys the client has taken, to send or to open
                  \* them, since it installed their room's ratchet (history variable)
    rows,         \* the messages table: survives the process
    published,    \* every message ever published on a chat topic, in order
    strayed,      \* messages that were in a chat goroutine's hands when its user
                  \* entered another room (history variable)
    plan,         \* the plan of this behaviour
    faults        \* how many faults each client has had

receiving == <<loops, idle, pending, buffered, opened, drawing, lines, screen>>
memory == <<ui, todo, cur, ready, topics, session, asked, receiving, queue, used>>
past == <<published, strayed, plan, faults>>
vars == <<proc, memory, rows, past>>

Msg == 1..MaxMsgs
ChatMessage == [room : Room, sender : Client, ChainIndex : Nat, key : MessageKey]
Row == [room : Room, index : Nat, msg : Msg]

TypeOK ==
    /\ proc \in [Client -> {"up", "exited", "panicked"}]
    /\ ui \in [Client -> {"idle", "entered", "armed", "replaying"}]
    /\ todo \in [Client -> SUBSET Row]
    /\ cur \in [Client -> Room \cup {NoRoom}]
    /\ ready \in [Client -> SUBSET Room] /\ topics \in [Client -> SUBSET Room]
    /\ session \in [Client -> [Room -> Ratchets]]
    /\ asked \in [Client -> SUBSET Room]
    /\ loops \in [Client -> [Room -> Nat]] /\ idle \in [Client -> [Room -> Nat]]
    /\ pending \in [Client -> [Msg -> Nat]]
    /\ buffered \in [Client -> SUBSET Msg]
    /\ opened \in [Client -> [Msg -> Nat]] /\ drawing \in [Client -> [Msg -> Nat]]
    /\ lines \in [Client -> SUBSET Msg] /\ screen \in [Client -> SUBSET Msg]
    /\ queue \in [Client -> Seq(Row)]
    /\ used \in [Client -> SUBSET Msg] /\ strayed \subseteq Msg
    /\ rows \in [Client -> SUBSET Row]
    /\ published \in Seq(ChatMessage) /\ Len(published) \in 0..MaxMsgs
    /\ plan \in Plans /\ faults \in [Client -> Nat]

-----------------------------------------------------------------------------
(* The messages table.                                                     *)

(* INSERT OR IGNORE under the unique index on (room_id, chain_index).      *)
Save(stored, row) ==
    IF \E x \in stored : x.room = row.room /\ x.index = row.index
    THEN stored ELSE stored \cup {row}

SaveAll(stored, new) ==
    stored \cup { row \in new :
                    ~ \E x \in stored : x.room = row.room /\ x.index = row.index }

(* ... WHERE room_id = r ORDER BY chain_index ASC LIMIT n                  *)
Oldest(stored, r, n) ==
    { x \in stored :
        /\ x.room = r
        /\ Cardinality({ y \in stored : y.room = r /\ y.index < x.index }) < n }

IsFirst(row, some) == row \in some /\ \A y \in some : row.index <= y.index

-----------------------------------------------------------------------------
(* EnqueueEnvelope: a row for which the queue has no place is refused.     *)
Enqueue(c, row) ==
    queue' = IF Len(queue[c]) < QueueSize
             THEN [queue EXCEPT ![c] = Append(@, row)] ELSE queue

-----------------------------------------------------------------------------
NewSession == [r \in Room |-> SetInitialRatchet(NewRatchet(r))]

Init ==
    /\ proc = [c \in Client |-> "up"]
    /\ ui = [c \in Client |-> "idle"]
    /\ todo = [c \in Client |-> {}]
    /\ cur = [c \in Client |-> NoRoom]
    /\ ready = [c \in Client |-> {}] /\ topics = [c \in Client |-> {}]
    /\ session = [c \in Client |-> NewSession]
    /\ asked = [c \in Client |-> {}]
    /\ loops = [c \in Client |-> [r \in Room |-> 0]] /\ idle = loops
    /\ pending = [c \in Client |-> [m \in Msg |-> 0]]
    /\ buffered = [c \in Client |-> {}]
    /\ opened = pending /\ drawing = pending
    /\ lines = [c \in Client |-> {}] /\ screen = lines
    /\ queue = [c \in Client |-> << >>] /\ used = lines
    /\ rows = [c \in Client |-> {}]
    /\ published = << >> /\ strayed = {}
    /\ plan \in Plans /\ faults = [c \in Client |-> 0]

Fault(c) ==
    /\ faults[c] < plan.faults[c] /\ faults' = [faults EXCEPT ![c] = @ + 1]
    /\ UNCHANGED plan

(* The process of c is gone, and all it had in memory.                     *)
Stop(c, how) ==
    /\ proc[c] = "up"
    /\ proc' = [proc EXCEPT ![c] = how]
    /\ ui' = [ui EXCEPT ![c] = "idle"]
    /\ todo' = [todo EXCEPT ![c] = {}]
    /\ cur' = [cur EXCEPT ![c] = NoRoom]
    /\ ready' = [ready EXCEPT ![c] = {}] /\ topics' = [topics EXCEPT ![c] = {}]
    /\ session' = [session EXCEPT ![c] = NewSession]
    /\ asked' = [asked EXCEPT ![c] = {}]
    /\ loops' = [loops EXCEPT ![c] = [r \in Room |-> 0]]
    /\ idle' = [idle EXCEPT ![c] = [r \in Room |-> 0]]
    /\ pending' = [pending EXCEPT ![c] = [m \in Msg |-> 0]]
    /\ buffered' = [buffered EXCEPT ![c] = {}]
    /\ opened' = [opened EXCEPT ![c] = [m \in Msg |-> 0]]
    /\ drawing' = [drawing EXCEPT ![c] = [m \in Msg |-> 0]]
    /\ lines' = [lines EXCEPT ![c] = {}] /\ screen' = [screen EXCEPT ![c] = {}]
    /\ queue' = [queue EXCEPT ![c] = << >>] /\ used' = [used EXCEPT ![c] = {}]
    /\ UNCHANGED <<rows, past>>

(* Ctrl-C or a kill at any point; nothing drains the write queue.          *)
Exit(c) == Stop(c, "exited")

Restart(c) ==
    /\ proc[c] # "up"
    /\ proc' = [proc EXCEPT ![c] = "up"]
    /\ UNCHANGED <<memory, rows, published, strayed>>
    /\ Fault(c)

-----------------------------------------------------------------------------
(* JoinRoomHandler.                                                        *)

(* requestJoinRoom: the hub agrees and r becomes the current room, with    *)
(* the RoomSession it already has or a new one without ratchets, also for  *)
(* the goroutines that have a message of another room in their hands.      *)
Enter(c, r) ==
    /\ proc[c] = "up" /\ ui[c] = "idle"
    /\ ui' = [ui EXCEPT ![c] = "entered"]
    /\ cur' = [cur EXCEPT ![c] = r]
    /\ strayed' = strayed \cup { m \in 1..Len(published) :
                                   opened[c][m] > 0 /\ published[m].room # r }
    /\ UNCHANGED <<proc, todo, ready, topics, session, asked, receiving, queue, used,
                   rows, published, plan, faults>>

(* The joining client installs the room's ratchet, always at index 0.      *)
Install(c) ==
    /\ ui' = [ui EXCEPT ![c] = "armed"]
    /\ ready' = [ready EXCEPT ![c] = @ \cup {cur[c]}]
    /\ session' = [session EXCEPT ![c][cur[c]] = SetInitialRatchet(NewRatchet(cur[c]))]
    /\ used' = [used EXCEPT ![c] = { m \in @ : published[m].room # cur[c] }]

(* GetAuth finds the room key: c created the room.                         *)
ArmFromAuth(c) ==
    /\ ui[c] = "entered" /\ Creator[cur[c]] = c
    /\ Install(c)
    /\ UNCHANGED <<proc, todo, cur, topics, asked, receiving, queue, rows, past>>

(* requestCatchUp, answered by the one client that has the key while that  *)
(* client's current room is this one.  The rows are saved one by one until *)
(* one fails validation: the sender of a row must be in the peers table,   *)
(* where a client never stores itself.  The other members are taken to be  *)
(* there: each is enqueued for it as soon as a members list names it.      *)
(* The exchange is one step here, so its helper stays in the room all the  *)
(* while: module CatchUp takes it apart, and shows that a helper that does *)
(* not may send the key of another room.                                   *)
CatchUpRows(c) == Oldest(rows[Creator[cur[c]]], cur[c], CatchUpLimit)
OwnRows(c, some) == { x \in some : published[x.msg].sender = c }

CanCatchUp(c) ==
    LET helper == Creator[cur[c]]
    IN  /\ ui[c] = "entered" /\ helper # c
        /\ cur[c] \notin asked[c]
        /\ proc[helper] = "up" /\ cur[helper] = cur[c] /\ cur[c] \in ready[helper]

ArmFromCatchUp(c) ==
    /\ CanCatchUp(c)
    /\ OwnRows(c, CatchUpRows(c)) = {}
    /\ rows' = [rows EXCEPT ![c] = SaveAll(@, CatchUpRows(c))]
    /\ asked' = [asked EXCEPT ![c] = @ \cup {cur[c]}]
    /\ Install(c)
    /\ UNCHANGED <<proc, todo, cur, topics, receiving, queue, past>>

CatchUpRejected(c) ==
    LET own == OwnRows(c, CatchUpRows(c))
    IN  /\ CanCatchUp(c) /\ own # {}
        /\ rows' = [rows EXCEPT ![c] =
                      SaveAll(@, { x \in CatchUpRows(c) : \A y \in own : x.index < y.index })]
        /\ asked' = [asked EXCEPT ![c] = @ \cup {cur[c]}]
        /\ ui' = [ui EXCEPT ![c] = "idle"]
        /\ UNCHANGED <<proc, todo, cur, ready, topics, session, receiving, queue,
                       used, past>>

(* Any other way to fail before the ratchet is installed: an RPC error, no *)
(* answer to five requests, a response topic that already exists.          *)
JoinError(c) ==
    /\ ui[c] = "entered" /\ c \in plan.failing
    /\ ui' = [ui EXCEPT ![c] = "idle"]
    /\ \E joined \in SUBSET ({cur[c]} \ { r \in Room : Creator[r] = c }) :
          asked' = [asked EXCEPT ![c] = @ \cup joined]
    /\ UNCHANGED <<proc, todo, cur, ready, topics, session, receiving, queue, used,
                   rows, past>>

(* chatHandler: subscribe, then read the rows to show.                     *)
Subscribe(c) ==
    /\ ui[c] = "armed" /\ loops[c][cur[c]] < MaxSubs
    /\ ui' = [ui EXCEPT ![c] = "replaying"]
    /\ topics' = [topics EXCEPT ![c] = @ \cup {cur[c]}]
    /\ todo' = [todo EXCEPT ![c] = Oldest(rows[c], cur[c], LoadLimit)]
    /\ UNCHANGED <<proc, cur, ready, session, asked, receiving, queue, used, rows,
                   past>>

(* Joining the topic, subscribing to it or reading the rows fails: the     *)
(* ratchet stays installed.                                                *)
SubscribeFails(c) ==
    /\ ui[c] = "armed"
    /\ ui' = [ui EXCEPT ![c] = "idle"]
    /\ topics' \in {topics, [topics EXCEPT ![c] = @ \cup {cur[c]}]}
    /\ UNCHANGED <<proc, todo, cur, ready, session, asked, receiving, queue, used,
                   rows, published, strayed>>
    /\ Fault(c)

(* parseAndDisplayDBMessages, one row at a time: a row that does not       *)
(* decrypt ends the join with an error and the subscription is leaked...   *)
ReplayDecrypt(c, row) == Decrypt(session[c][cur[c]], row.index)
ReplayOpens(c, row) == published[row.msg].key \in ReplayDecrypt(c, row).keys

Replaying(c, row) == ui[c] = "replaying" /\ IsFirst(row, todo[c])

ReplayFails(c, row) ==
    /\ Replaying(c, row) /\ ~ReplayOpens(c, row)
    /\ session' = [session EXCEPT ![c][cur[c]] = ReplayDecrypt(c, row).ratchets]
    /\ ui' = [ui EXCEPT ![c] = "idle"]
    /\ todo' = [todo EXCEPT ![c] = {}]
    /\ buffered' = [buffered EXCEPT ![c] = {}]
    /\ UNCHANGED <<proc, cur, ready, topics, asked, loops, idle, pending, opened,
                   drawing, lines, screen, queue, used, rows, past>>

(* ...a row whose sender is not in the peers table dereferences the nil    *)
(* user GetUserByID returned...                                            *)
ReplayPanics(c, row) ==
    /\ Replaying(c, row) /\ ReplayOpens(c, row)
    /\ published[row.msg].sender = c
    /\ Stop(c, "panicked")

(* ...and any other row is handed to the UI goroutine to be drawn.         *)
ReplayShows(c, row) ==
    /\ Replaying(c, row) /\ ReplayOpens(c, row)
    /\ published[row.msg].sender # c
    /\ session' = [session EXCEPT ![c][cur[c]] = ReplayDecrypt(c, row).ratchets]
    /\ lines' = [lines EXCEPT ![c] = @ \cup {row.msg}]
    /\ used' = [used EXCEPT ![c] = @ \cup {row.msg}]
    /\ todo' = [todo EXCEPT ![c] = @ \ {row}]
    /\ UNCHANGED <<proc, ui, cur, ready, topics, asked, loops, idle, pending,
                   buffered, opened, drawing, screen, queue, rows, past>>

(* The chat goroutine starts on what the subscription has buffered.        *)
StartLoop(c) ==
    /\ ui[c] = "replaying" /\ todo[c] = {}
    /\ ui' = [ui EXCEPT ![c] = "idle"]
    /\ loops' = [loops EXCEPT ![c][cur[c]] = @ + 1]
    /\ idle' = [idle EXCEPT ![c][cur[c]] = @ + 1]
    /\ pending' = [pending EXCEPT ![c] =
                     [m \in Msg |-> IF m \in buffered[c] THEN @[m] + 1 ELSE @[m]]]
    /\ buffered' = [buffered EXCEPT ![c] = {}]
    /\ UNCHANGED <<proc, todo, cur, ready, topics, session, asked, opened, drawing,
                   lines, screen, queue, used, rows, past>>

-----------------------------------------------------------------------------
(* SendMessageHandler.  Without a current room the nil RoomSession is      *)
(* dereferenced; in a room that has no ratchet yet an error is shown and   *)
(* nothing changes.                                                        *)
SendWithoutRoom(c) ==
    /\ proc[c] = "up" /\ ui[c] = "idle" /\ cur[c] = NoRoom
    /\ Stop(c, "panicked")

Publish(msg) ==
    LET m == Len(published) + 1
    IN  /\ published' = Append(published, msg)
        /\ pending' = [c \in Client |-> [pending[c] EXCEPT ![m] = @ + loops[c][msg.room]]]
        /\ buffered' = [c \in Client |->
                          IF ui[c] = "replaying" /\ cur[c] = msg.room
                          THEN buffered[c] \cup {m} ELSE buffered[c]]

CanSend(c) == proc[c] = "up" /\ ui[c] = "idle" /\ cur[c] \in ready[c]

Send(c) ==
    LET r == cur[c]
        m == Len(published) + 1
        sealed == EncryptMessage(session[c][r])
    IN  /\ CanSend(c) /\ r \in topics[c] /\ m \in Msg
        /\ session' = [session EXCEPT ![c][r] = sealed]
        /\ Publish([room |-> r, sender |-> c, ChainIndex |-> ChainIndexOf(sealed),
                    key |-> KeyOf(session[c][r].room)])
        /\ used' = [used EXCEPT ![c] = @ \cup {m}]
        /\ Enqueue(c, [room |-> r, index |-> ChainIndexOf(sealed), msg |-> m])
        /\ UNCHANGED <<proc, ui, todo, cur, ready, topics, asked, loops, idle, opened,
                       drawing, lines, screen, rows, strayed, plan, faults>>

(* The envelope is not made, there is no chat topic or it refuses the      *)
(* message: the ratchet has moved all the same.                            *)
SendFails(c) ==
    /\ CanSend(c)
    /\ session' = [session EXCEPT ![c][cur[c]] = EncryptMessage(@)]
    /\ UNCHANGED <<proc, ui, todo, cur, ready, topics, asked, receiving, queue, used,
                   rows, published, strayed>>
    /\ Fault(c)

-----------------------------------------------------------------------------
(* A chat goroutine's turn of its loop, on message m, of which each part   *)
(* reads the current room.  Whatever room the goroutine was started for,   *)
(* the message is decrypted with the current room's ratchets...            *)
Take(c, m) == pending[c][m] > 0 /\ idle[c][published[m].room] > 0

Taken(c, m) == Take(c, m) /\ pending' = [pending EXCEPT ![c][m] = @ - 1]

ReceiveDecrypt(c, m) == Decrypt(session[c][cur[c]], published[m].ChainIndex)

Unchecked(c, m) == TRUE   \* mutant: the error of decryptMessage is ignored

ReceiveOpens(c, m) == published[m].key \in ReceiveDecrypt(c, m).keys

Deciphered(c, m) ==
    /\ cur[c] \in ready[c]
    /\ Taken(c, m) /\ idle' = [idle EXCEPT ![c][published[m].room] = @ - 1]
    /\ ReceiveOpens(c, m)
    /\ session' = [session EXCEPT ![c][cur[c]] = ReceiveDecrypt(c, m).ratchets]
    /\ opened' = [opened EXCEPT ![c][m] = @ + 1]
    /\ used' = [used EXCEPT ![c] = @ \cup {m}]
    /\ UNCHANGED <<proc, ui, todo, cur, ready, topics, asked, loops, buffered,
                   drawing, lines, screen, queue, rows, past>>

(* ...which move even when it does not decrypt under them and all the user *)
(* sees is an error...                                                     *)
Undeciphered(c, m) ==
    /\ cur[c] \in ready[c]
    /\ Taken(c, m)
    /\ ~ReceiveOpens(c, m)
    /\ session' = [session EXCEPT ![c][cur[c]] = ReceiveDecrypt(c, m).ratchets]
    /\ UNCHANGED <<proc, ui, todo, cur, ready, topics, asked, loops, idle, buffered,
                   opened, drawing, lines, screen, queue, used, rows, past>>

(* ...and which a room that is being joined for the first time lacks.      *)
ReceivePanics(c, m) ==
    /\ cur[c] \notin ready[c]
    /\ Take(c, m)
    /\ Stop(c, "panicked")

(* It is filed under the room that is current by then...                   *)
Files(c, m) ==
    /\ opened[c][m] > 0
    /\ opened' = [opened EXCEPT ![c][m] = @ - 1]
    /\ drawing' = [drawing EXCEPT ![c][m] = @ + 1]
    /\ Enqueue(c, [room |-> cur[c], index |-> published[m].ChainIndex, msg |-> m])
    /\ UNCHANGED <<proc, ui, todo, cur, ready, topics, session, asked, loops, idle,
                   pending, buffered, lines, screen, used, rows, past>>

(* ...and the goroutine waits until the UI goroutine, back in its event    *)
(* loop, has added it to the one list of the chat screen.  Nothing takes   *)
(* it off that list when another room is entered.                          *)
Draws(c, m) ==
    /\ drawing[c][m] > 0 /\ ui[c] = "idle"
    /\ drawing' = [drawing EXCEPT ![c][m] = @ - 1]
    /\ idle' = [idle EXCEPT ![c][published[m].room] = @ + 1]
    /\ screen' = [screen EXCEPT ![c] = @ \cup {m}]
    /\ UNCHANGED <<proc, ui, todo, cur, ready, topics, session, asked, loops, pending,
                   buffered, opened, lines, queue, used, rows, past>>

(* DisplayMessage does the same for a replayed row, in a goroutine of its  *)
(* own.                                                                    *)
DisplayMessage(c, m) ==
    /\ m \in lines[c] /\ ui[c] = "idle"
    /\ lines' = [lines EXCEPT ![c] = @ \ {m}]
    /\ screen' = [screen EXCEPT ![c] = @ \cup {m}]
    /\ UNCHANGED <<proc, ui, todo, cur, ready, topics, session, asked, loops, idle,
                   pending, buffered, opened, drawing, queue, used, rows, past>>

(* History's worker writes the next queued row.                            *)
Commit(c) ==
    /\ queue[c] # << >>
    /\ rows' = [rows EXCEPT ![c] = Save(@, Head(queue[c]))]
    /\ queue' = [queue EXCEPT ![c] = Tail(@)]
    /\ UNCHANGED <<proc, ui, todo, cur, ready, topics, session, asked, receiving,
                   used, past>>

-----------------------------------------------------------------------------
Join(c) ==
    \/ ArmFromAuth(c) \/ ArmFromCatchUp(c) \/ CatchUpRejected(c) \/ JoinError(c)
    \/ Subscribe(c) \/ StartLoop(c)
    \/ \E row \in todo[c] :
          ReplayFails(c, row) \/ ReplayPanics(c, row) \/ ReplayShows(c, row)

Receive(c, m) ==
    \/ Deciphered(c, m) \/ Undeciphered(c, m) \/ ReceivePanics(c, m)
    \/ Files(c, m) \/ Draws(c, m) \/ DisplayMessage(c, m)

Next ==
    \E c \in Client :
        \/ Exit(c) \/ Restart(c)
        \/ \E r \in plan.visits[c] : Enter(c, r)
        \/ Join(c) \/ SubscribeFails(c)
        \/ SendWithoutRoom(c) \/ Send(c) \/ SendFails(c)
        \/ \E m \in Msg : Receive(c, m)
        \/ Commit(c)

Spec == Init /\ [][Next]_vars

-----------------------------------------------------------------------------
(* Every ratchet is where its counter says it is on its own room's chain,  *)
(* and the backup never overtakes the ratchet it backs up, through sends,  *)
(* foreign messages, replays, rejoins and restarts.                        *)
RatchetSound == \A c \in Client, r \in Room : SoundAt(session[c][r], r)

Known(row) ==
    /\ row.msg \in 1..Len(published)
    /\ published[row.msg].key =
          [root |-> published[row.msg].room, pos |-> row.index, info |-> row.index]
    /\ row.room = published[row.msg].room \/ row.msg \in strayed

(* The messages table, which outlives every session and is copied to       *)
(* newcomers, holds under a room and index what that room's chain decrypts *)
(* at that index, although a goroutine of one room may take its message    *)
(* while another is current: the index is always the message's, and the    *)
(* room too unless the user entered another one between the decryption     *)
(* (chat.go:65) and the filing (chat.go:78).                               *)
RowsReadable == \A c \in Client : \A row \in rows[c] : Known(row)

(* All members share one sending chain, and rejoining puts it back, so two *)
(* messages may share a key.  But a client never seals one under a key it  *)
(* has itself taken since it last installed the room's ratchet: not that   *)
(* of a message it has sent, nor of one it has opened, live or from its    *)
(* table, by whichever ratchet and with whatever failed in between.        *)
OwnKeysFresh ==
    [][\A c \in Client :
          \A m \in used[c], n \in Len(published) + 1 .. Len(published') :
             published'[n].sender = c => published'[n].key # published[m].key]_vars

(* Only joining a room anew takes a live client's ratchet back.            *)
RatchetsAdvance ==
    [][\A c \in Client, r \in Room :
          \/ /\ session[c][r].room.index <= session'[c][r].room.index
             /\ session[c][r].backup.index <= session'[c][r].backup.index
          \/ cur[c] = r /\ ui'[c] = "armed"
          \/ proc'[c] # "up"]_vars
=============================================================================
