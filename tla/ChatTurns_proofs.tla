-------------------------- MODULE ChatTurns_proofs --------------------------
(***************************************************************************)
(* When people take turns, nothing is lost or overtakes and each client    *)
(* keeps to one room, every message opens.  First what taking turns gives, *)
(* whatever is lost, late, replayed or restarted: a client may send when   *)
(* its screen shows every message of the room, and its ratchet is then     *)
(* past all of them, because a message on a screen has been opened or sent *)
(* since the room's ratchet was installed: a room is armed once.           *)
(***************************************************************************)
EXTENDS ChatTurns, ChatRoom_proofs

(* What is on a screen, or on its way there, is of a room that is ready,   *)
(* and its key has been taken.                                             *)
ShownUsed ==
    \A c \in Client :
        /\ screen[c] \subseteq used[c] /\ lines[c] \subseteq used[c]
        /\ \A m \in Msg : opened[c][m] > 0 \/ drawing[c][m] > 0 => m \in used[c]

UsedReady == \A c \in Client : \A m \in used[c] : published[m].room \in ready[c]

RoomsReady ==
    \A c \in Client :
        /\ ui[c] = "entered" => cur[c] \notin ready[c]
        /\ ui[c] \in {"armed", "replaying"} => cur[c] \in ready[c]

TInv == IInv /\ ShownUsed /\ UsedReady /\ RoomsReady /\ NoKeyReuse

(* Taking turns only restricts when a client sends and joins.              *)
LEMMA TurnsNextIsNext == TurnsNext => Next
BY DEF TurnsNext, Next, EnterOnce, SendTurn

(* The invariant of the turns holds when nothing has been sent.            *)
LEMMA InitTInv == Init => TInv
<1> SUFFICES ASSUME Init PROVE TInv OBVIOUS
<1>1. IInv BY InitIInv
<1>2. ShownUsed /\ UsedReady /\ RoomsReady /\ NoKeyReuse
  BY DEF Init, ShownUsed, UsedReady, RoomsReady, NoKeyReuse
<1>3. QED BY <1>1, <1>2 DEF TInv

-----------------------------------------------------------------------------
(* RoomsReady: only the join's own actions matter, and the rule that a     *)
(* room is entered once.                                                   *)
LEMMA TurnsRoomsReady ==
    ASSUME TInv, [TurnsNext]_vars
    PROVE  RoomsReady'
<1> USE DEF TInv, IInv, TypeOK, RoomsReady
<1>1. CASE UNCHANGED vars BY <1>1 DEF vars, memory
<1>2. ASSUME NEW c \in Client, NEW how \in {"exited", "panicked"}, Stop(c, how)
      PROVE  RoomsReady'
  BY <1>2 DEF Stop
<1>3. ASSUME NEW c \in Client, NEW r \in plan.visits[c], EnterOnce(c, r) PROVE RoomsReady'
  BY <1>3 DEF EnterOnce, Enter
<1>4. ASSUME NEW c \in Client, Join(c) PROVE RoomsReady'
  <2>1. ASSUME NEW row \in todo[c], ReplayPanics(c, row) PROVE RoomsReady'
    BY <2>1, <1>2 DEF ReplayPanics
  <2>2. CASE ArmFromAuth(c) BY <2>2 DEF ArmFromAuth, Install
  <2>3. CASE ArmFromCatchUp(c) BY <2>3 DEF ArmFromCatchUp, CanCatchUp, Install
  <2>4. CASE CatchUpRejected(c) BY <2>4 DEF CatchUpRejected
  <2>5. CASE JoinError(c) BY <2>5 DEF JoinError
  <2>6. CASE Subscribe(c) BY <2>6 DEF Subscribe
  <2>7. CASE StartLoop(c) BY <2>7 DEF StartLoop
  <2>8. ASSUME NEW row \in todo[c], ReplayFails(c, row) \/ ReplayShows(c, row)
        PROVE  RoomsReady'
    BY <2>8 DEF ReplayFails, ReplayShows, Replaying
  <2>9. QED BY <1>4, <2>1, <2>2, <2>3, <2>4, <2>5, <2>6, <2>7, <2>8 DEF Join
<1>5. ASSUME NEW c \in Client, NEW m \in Msg, Receive(c, m) PROVE RoomsReady'
  BY <1>5, <1>2 DEF Receive, Deciphered, Undeciphered, ReceivePanics, Files, Draws,
     DisplayMessage
<1>6. ASSUME NEW c \in Client, SendTurn(c) \/ SendFails(c) PROVE RoomsReady'
  BY <1>6 DEF SendTurn, Send, SendFails
<1>7. ASSUME NEW c \in Client, Restart(c) \/ SubscribeFails(c) \/ Commit(c)
      PROVE  RoomsReady'
  BY <1>7 DEF Restart, memory, SubscribeFails, Commit
<1>8. QED
  BY <1>1, <1>2, <1>3, <1>4, <1>5, <1>6, <1>7 DEF TurnsNext, Exit, SendWithoutRoom

-----------------------------------------------------------------------------
(* ShownUsed and UsedReady.                                                *)
Seen == ShownUsed /\ UsedReady

(* A step that leaves the messages, the screens and what was taken alone.  *)
LEMMA SeenKept ==
    ASSUME TInv, UNCHANGED <<opened, drawing, lines, screen, used, ready, published>>
    PROVE  Seen'
BY DEF TInv, Seen, ShownUsed, UsedReady

LEMMA StopSeen ==
    ASSUME TInv, NEW c \in Client, NEW how, Stop(c, how)
    PROVE  Seen'
<1> USE DEF TInv, IInv, TypeOK, Stop, past
<1>1. ShownUsed' BY DEF ShownUsed
<1>2. UsedReady' BY DEF UsedReady
<1>3. QED BY <1>1, <1>2 DEF Seen

(* A room that is armed for the first time had no message taken.           *)
LEMMA InstallSeen ==
    ASSUME TInv, NEW c \in Client, Install(c), cur[c] \notin ready[c],
           UNCHANGED <<opened, drawing, lines, screen, published>>
    PROVE  Seen'
<1>1. used' = used BY DEF Install, TInv, UsedReady, IInv, TypeOK
<1>2. \A d \in Client : ready[d] \subseteq ready'[d]
  BY DEF Install, TInv, IInv, TypeOK
<1>3. QED BY <1>1, <1>2 DEF TInv, Seen, ShownUsed, UsedReady

LEMMA ReplaySeen ==
    ASSUME TInv, NEW c \in Client, NEW row \in todo[c], ReplayShows(c, row)
    PROVE  Seen'
<1>1. cur[c] \in ready[c] /\ cur[c] \in Room
  BY DEF ReplayShows, Replaying, TInv, RoomsReady, IInv, TypeOK
<1>2. row \in Row /\ Known(row) BY DEF TInv, IInv, TypeOK, TodoReadable
<1>3. row.msg \in 1..Len(published) /\ row.index \in Nat BY <1>2 DEF Row, Known
<1>4. published[row.msg].room = cur[c]
  BY <1>1, <1>3, OpensInItsRoom DEF TInv, ReplayShows, ReplayOpens, ReplayDecrypt
<1> USE DEF TInv, IInv, TypeOK, ReplayShows, past
<1>5. ShownUsed' BY DEF ShownUsed
<1>6. UsedReady' BY <1>1, <1>4 DEF UsedReady
<1>7. QED BY <1>5, <1>6 DEF Seen

LEMMA DecipheredSeen ==
    ASSUME TInv, NEW c \in Client, NEW m \in Msg, Deciphered(c, m)
    PROVE  Seen'
<1>1. /\ cur[c] \in Room /\ m \in 1..Len(published) /\ published[m].ChainIndex \in Nat
  BY ReceiveForward DEF TInv
<1>2. published[m].room = cur[c]
  BY <1>1, OpensInItsRoom DEF TInv, Deciphered, ReceiveOpens, ReceiveDecrypt
<1>0. /\ UNCHANGED <<drawing, lines, screen, ready, published>> /\ cur[c] \in ready[c]
      /\ used' = [used EXCEPT ![c] = @ \cup {m}] /\ opened' = [opened EXCEPT ![c][m] = @ + 1]
  BY DEF Deciphered, past
<1>t. opened \in [Client -> [Msg -> Nat]] /\ used \in [Client -> SUBSET Msg]
  BY DEF TInv, IInv, TypeOK
<1>3. ShownUsed' BY <1>0, <1>t DEF ShownUsed, TInv
<1>4. UsedReady' BY <1>0, <1>2, <1>t DEF UsedReady, TInv
<1>5. QED BY <1>3, <1>4 DEF Seen

(* A message stays taken on its way to the screen.                         *)
LEMMA DrawnSeen ==
    ASSUME TInv, NEW c \in Client, NEW m \in Msg,
           Files(c, m) \/ Draws(c, m) \/ DisplayMessage(c, m)
    PROVE  Seen'
<1> USE DEF TInv, IInv, TypeOK, past
<1>1. UNCHANGED <<used, ready, published>> /\ m \in used[c]
  BY DEF Files, Draws, DisplayMessage, ShownUsed
<1>2. /\ \A d \in Client, n \in Msg :
            opened'[d][n] > 0 \/ drawing'[d][n] > 0 =>
               opened[d][n] > 0 \/ drawing[d][n] > 0 \/ (d = c /\ n = m)
      /\ \A d \in Client : /\ lines'[d] \subseteq lines[d]
                           /\ screen'[d] \subseteq screen[d] \/ d = c
      /\ screen'[c] \subseteq screen[c] \cup {m}
  <2>1. CASE Files(c, m) BY <2>1 DEF Files
  <2>2. CASE Draws(c, m) BY <2>2 DEF Draws
  <2>3. CASE DisplayMessage(c, m) BY <2>3 DEF DisplayMessage
  <2>4. QED BY <2>1, <2>2, <2>3
<1>3. ShownUsed' BY <1>1, <1>2 DEF ShownUsed
<1>4. UsedReady' BY <1>1 DEF UsedReady
<1>5. QED BY <1>3, <1>4 DEF Seen

LEMMA SendSeen ==
    ASSUME TInv, NEW c \in Client, Send(c)
    PROVE  Seen'
<1>1. /\ UNCHANGED <<opened, drawing, lines, screen, ready>>
      /\ used' = [used EXCEPT ![c] = @ \cup {Len(published) + 1}]
      /\ cur[c] \in ready[c]
  BY DEF Send, CanSend
<1>2. /\ \A m \in 1..Len(published) : published'[m] = published[m]
      /\ published'[Len(published) + 1].room = cur[c]
  BY DEF Send, Publish, TInv, IInv, TypeOK
<1> USE DEF TInv, IInv, TypeOK
<1>3. ShownUsed' BY <1>1 DEF ShownUsed
<1>4. UsedReady' BY <1>1, <1>2 DEF UsedReady, UsedPassed
<1>5. QED BY <1>3, <1>4 DEF Seen

(* Every step keeps what is seen among what was taken.                     *)
LEMMA TurnsSeen ==
    ASSUME TInv, [TurnsNext]_vars
    PROVE  Seen'
<1>1. CASE UNCHANGED vars
  BY <1>1, SeenKept DEF vars, memory, receiving, past
<1>2. ASSUME NEW c \in Client, NEW how, Stop(c, how) PROVE Seen'
  BY <1>2, StopSeen
<1>3. ASSUME NEW c \in Client, ArmFromAuth(c) \/ ArmFromCatchUp(c) PROVE Seen'
  BY <1>3, InstallSeen
  DEF ArmFromAuth, ArmFromCatchUp, CanCatchUp, TInv, RoomsReady, receiving, past
<1>4. ASSUME NEW c \in Client,
             Restart(c) \/ CatchUpRejected(c) \/ JoinError(c) \/ Subscribe(c)
                \/ SubscribeFails(c) \/ StartLoop(c) \/ Commit(c) \/ SendFails(c)
                \/ (\E r \in plan.visits[c] : EnterOnce(c, r))
                \/ (\E row \in todo[c] : ReplayFails(c, row))
                \/ (\E m \in Msg : Undeciphered(c, m))
      PROVE  Seen'
  <2>1. UNCHANGED <<opened, drawing, lines, screen, used, ready, published>>
    BY <1>4 DEF Restart, memory, CatchUpRejected, JoinError, Subscribe, SubscribeFails,
       StartLoop, Commit, SendFails, EnterOnce, Enter, ReplayFails, Undeciphered,
       receiving, past
  <2>2. QED BY <2>1, SeenKept
<1>5. ASSUME NEW c \in Client, SendTurn(c) PROVE Seen'
  BY <1>5, SendSeen DEF SendTurn
<1>6. QED
  BY <1>1, <1>2, <1>3, <1>4, <1>5, ReplaySeen, DecipheredSeen, DrawnSeen
  DEF TurnsNext, Join, Receive, Exit, SendWithoutRoom, ReplayPanics, ReceivePanics

-----------------------------------------------------------------------------
(* Who may send has taken the key of every message of the room, so that    *)
(* the new message's key is past all of theirs.                            *)
LEMMA SendsPastAll ==
    ASSUME TInv, NEW c \in Client, SendTurn(c), NEW m \in 1..Len(published),
           published[m].room = cur[c]
    PROVE  published[m].ChainIndex < session[c][cur[c]].room.index
<1>1. m \in used[c] BY DEF SendTurn, SeesAll, TInv, ShownUsed
<1>2. QED BY <1>1 DEF TInv, IInv, UsedPassed

LEMMA SendTakesNewKey ==
    ASSUME TInv, NEW c \in Client, SendTurn(c)
    PROVE  NoKeyReuse'
<1> DEFINE r == cur[c]
           q == session[c][r].room
<1>1. /\ q.index \in Nat
      /\ KeyOf(q) = [root |-> r, pos |-> q.index, info |-> q.index]
      /\ published \in Seq(ChatMessage)
  BY SendForward DEF TInv, IInv, TypeOK, SendTurn
<1>2. \A m \in 1..Len(published) : published[m].key # KeyOf(q)
  <2> SUFFICES ASSUME NEW m \in 1..Len(published), published[m].key = KeyOf(q)
               PROVE  FALSE
    OBVIOUS
  <2>1. published[m].room = r /\ published[m].ChainIndex = q.index
    <3>1. published[m].key = [ root |-> published[m].room,
                               pos  |-> published[m].ChainIndex,
                               info |-> published[m].ChainIndex ]
      BY DEF TInv, IInv, MessagesLabelled
    <3>2. QED BY <1>1, <3>1
  <2>2. published[m].ChainIndex < q.index BY <2>1, SendsPastAll
  <2>3. QED BY <1>1, <2>1, <2>2
<1>3. PICK msg : published' = Append(published, msg) /\ msg.key = KeyOf(q)
  BY DEF SendTurn, Send, Publish
<1>4. /\ \A m \in 1..Len(published) : published'[m] = published[m]
      /\ published'[Len(published) + 1] = msg
      /\ Len(published') = Len(published) + 1
  BY <1>1, <1>3
<1>5. QED BY <1>1, <1>2, <1>3, <1>4 DEF TInv, NoKeyReuse

(* Every step of those who take turns preserves the invariant.             *)
LEMMA NextTInv ==
    ASSUME TInv, [TurnsNext]_vars
    PROVE  TInv'
<1>1. IInv' BY TurnsNextIsNext, NextIInv DEF TInv
<1>2. RoomsReady' /\ ShownUsed' /\ UsedReady' BY TurnsRoomsReady, TurnsSeen DEF Seen
<1>3. CASE UNCHANGED published
  <2>1. NoKeyReuse' BY <1>3 DEF TInv, NoKeyReuse
  <2>2. QED BY <1>1, <1>2, <2>1 DEF TInv
<1>4. ASSUME NEW c \in Client, SendTurn(c) PROVE NoKeyReuse'
  BY <1>4, SendTakesNewKey
<1>5. UNCHANGED published \/ \E c \in Client : SendTurn(c)
  <2>1. ASSUME NEW c \in Client, NEW how, Stop(c, how) PROVE UNCHANGED published
    BY <2>1 DEF Stop, past
  <2>2. ASSUME NEW c \in Client, NEW row \in todo[c],
               ReplayFails(c, row) \/ ReplayPanics(c, row) \/ ReplayShows(c, row)
        PROVE  UNCHANGED published
    BY <2>1, <2>2 DEF ReplayFails, ReplayPanics, ReplayShows, past
  <2>3. ASSUME NEW c \in Client, Join(c) PROVE UNCHANGED published
    BY <2>2, <2>3 DEF Join, ArmFromAuth, ArmFromCatchUp, CatchUpRejected, JoinError,
       Subscribe, StartLoop, past
  <2>4. ASSUME NEW c \in Client, NEW m \in Msg, Receive(c, m) PROVE UNCHANGED published
    BY <2>1, <2>4 DEF Receive, Deciphered, Undeciphered, ReceivePanics, Files, Draws,
       DisplayMessage, past
  <2>5. ASSUME NEW c \in Client,
               Exit(c) \/ Restart(c) \/ SubscribeFails(c) \/ SendWithoutRoom(c)
                  \/ SendFails(c) \/ Commit(c)
                  \/ \E r \in plan.visits[c] : EnterOnce(c, r)
        PROVE  UNCHANGED published
    BY <2>1, <2>5 DEF Exit, Restart, SubscribeFails, SendWithoutRoom, SendFails, Commit,
       EnterOnce, Enter, past
  <2>6. QED BY <2>3, <2>4, <2>5 DEF TurnsNext, vars, past
<1>6. QED BY <1>1, <1>2, <1>3, <1>4, <1>5 DEF TInv

(* While people take turns, no key and nonce encrypt two messages.  Turns  *)
(* are a habit of the users: nothing in the code enforces them, and two    *)
(* who send at once do share a key.                                        *)
LEMMA TurnsNoKeyReuse == TurnsSpec => []NoKeyReuse
<1>1. TInv => NoKeyReuse BY DEF TInv
<1>2. QED BY <1>1, InitTInv, NextTInv, PTL DEF TurnsSpec
-----------------------------------------------------------------------------
(* Ordered delivery, for clients that keep to one room each: a chat        *)
(* goroutine works on whatever room is current, so that one who visits two *)
(* gives the second room's ratchets messages of the first.                 *)
KeepToOneRoom == \A p \in Plans, c \in Client : \A r, s \in p.visits[c] : r = s

AtHome ==
    /\ strayed = {}
    /\ \A c \in Client : /\ cur[c] \in plan.visits[c] \cup {NoRoom}
                         /\ ready[c] \subseteq plan.visits[c]

(* No message comes twice: a client has one chat goroutine, and none until *)
(* it has joined.                                                          *)
OneLoop ==
    \A c \in Client, r \in Room :
        /\ loops[c][r] \in {0, 1}
        /\ loops[c][r] = 1 => r \in ready[c] /\ ui[c] = "idle"

ComesOnce ==
    \A c \in Client, m \in Msg :
        pending[c][m] > 0 => pending[c][m] = 1 /\ loops[c][published[m].room] = 1

(* What is replayed was published before what the subscription buffers.    *)
ReplayedFirst ==
    \A c \in Client :
        /\ ui[c] # "replaying" => todo[c] = {} /\ buffered[c] = {}
        /\ \A m \in buffered[c] : published[m].room = cur[c]
        /\ \A row \in todo[c] : row.room = cur[c] /\ \A m \in buffered[c] : row.msg < m

(* A room's indices grow with its messages, and no ratchet is past the     *)
(* next of them...                                                         *)
IndicesGrow ==
    \A m, n \in 1..Len(published) :
        published[m].room = published[n].room /\ m < n =>
            published[m].ChainIndex < published[n].ChainIndex

RatchetsBehind ==
    \A c \in Client, r \in Room :
        \/ session[c][r].room.index = 0
        \/ \E m \in 1..Len(published) :
              /\ published[m].room = r
              /\ session[c][r].room.index <= published[m].ChainIndex + 1

(* ...and what has still to come is not behind the backup.                 *)
Coming(c) == { m \in Msg : pending[c][m] > 0 } \cup buffered[c]

BackupBehind ==
    \A c \in Client : \A m \in Coming(c) :
        session[c][published[m].room].backup.index <= published[m].ChainIndex

OInv ==
    /\ TInv
    /\ AtHome /\ OneLoop /\ ComesOnce /\ ReplayedFirst
    /\ IndicesGrow /\ RatchetsBehind /\ BackupBehind

LEMMA OrderedNextIsTurns == OrderedNext => TurnsNext
BY DEF OrderedNext, TurnsNext, Handle, ReceiveInOrder

(* So what is proved of those who take turns holds here too.               *)
LEMMA OrderedIsTurns == OrderedSpec => TurnsSpec
<1>1. [OrderedNext]_vars => [TurnsNext]_vars BY OrderedNextIsTurns
<1>2. QED BY <1>1, PTL DEF OrderedSpec, TurnsSpec

LEMMA InitOInv == Init => OInv
<1> SUFFICES ASSUME Init PROVE OInv OBVIOUS
<1>1. TInv BY InitTInv
<1>2. AtHome /\ OneLoop /\ ComesOnce /\ ReplayedFirst /\ IndicesGrow
  BY DEF Init, AtHome, OneLoop, ComesOnce, ReplayedFirst, IndicesGrow
<1>3. RatchetsBehind
  BY DEF Init, RatchetsBehind, NewSession, SetInitialRatchet, NewRatchet
<1>4. BackupBehind BY DEF Init, BackupBehind, Coming
<1>5. QED BY <1>1, <1>2, <1>3, <1>4 DEF OInv

LEMMA IndexTypes ==
    ASSUME TypeOK, NEW c \in Client, NEW r \in Room
    PROVE  session[c][r].room.index \in Nat /\ session[c][r].backup.index \in Nat
BY DEF TypeOK, Ratchets, RoomRatchet

(* What is on its way was published, in a room.                            *)
LEMMA ComingPublished ==
    ASSUME IInv, NEW c \in Client, NEW m \in Coming(c)
    PROVE  /\ m \in 1..Len(published) /\ m \in Msg
           /\ published[m].room \in Room /\ published[m].ChainIndex \in Nat
<1>1. m \in 1..Len(published) BY DEF Coming, IInv, InFlight
<1>2. QED BY <1>1, PublishedType DEF IInv

(* So a message that comes opens: the backup is not past it, and the room  *)
(* it was published in is the current one.                                 *)
LEMMA ComingOpens ==
    ASSUME KeepToOneRoom, OInv, NEW c \in Client, NEW m \in Msg,
           pending[c][m] > 0, cur[c] \in ready[c]
    PROVE  ReceiveOpens(c, m)
<1>1. m \in Coming(c) BY DEF Coming
<1>2. /\ m \in 1..Len(published) /\ published[m].room \in Room
      /\ published[m].ChainIndex \in Nat
  BY <1>1, ComingPublished DEF OInv, TInv
<1>3. published[m].room = cur[c]
  <2>1. published[m].room \in plan.visits[c] /\ cur[c] \in plan.visits[c]
    BY <1>2 DEF OInv, AtHome, OneLoop, ComesOnce
  <2>2. plan \in Plans BY DEF OInv, TInv, IInv, TypeOK
  <2>3. QED BY <2>1, <2>2 DEF KeepToOneRoom
<1>4. session[c][cur[c]].backup.index <= published[m].ChainIndex
  BY <1>1, <1>3 DEF OInv, BackupBehind
<1>5. session[c][cur[c]] \in Ratchets /\ SoundAt(session[c][cur[c]], cur[c])
  BY <1>2, <1>3 DEF OInv, TInv, IInv, TypeOK, RatchetSound
<1>6. [root |-> cur[c], pos |-> published[m].ChainIndex, info |-> published[m].ChainIndex]
          \in ReceiveDecrypt(c, m).keys
  BY <1>2, <1>3, <1>4, <1>5, DecryptFinds DEF ReceiveDecrypt
<1>7. published[m].key = [ root |-> published[m].room, pos |-> published[m].ChainIndex,
                           info |-> published[m].ChainIndex ]
  BY <1>2 DEF OInv, TInv, IInv, MessagesLabelled
<1>8. QED BY <1>3, <1>6, <1>7 DEF ReceiveOpens

-----------------------------------------------------------------------------
(* Who goes where, and what is taken from a topic.                         *)
Homely == AtHome /\ OneLoop /\ ComesOnce /\ ReplayedFirst

LEMMA StopHomely ==
    ASSUME OInv, NEW c \in Client, NEW how, Stop(c, how)
    PROVE  Homely'
<1> USE DEF OInv, TInv, IInv, TypeOK, Stop, Homely, past
<1>1. AtHome' BY DEF AtHome
<1>2. OneLoop' BY DEF OneLoop
<1>3. ComesOnce' BY DEF ComesOnce
<1>4. ReplayedFirst' BY DEF ReplayedFirst
<1>5. QED BY <1>1, <1>2, <1>3, <1>4

(* A client enters only its room, and only before it has joined it.        *)
LEMMA EnterHomely ==
    ASSUME KeepToOneRoom, OInv, NEW c \in Client, NEW r \in plan.visits[c], EnterOnce(c, r)
    PROVE  Homely'
<1> USE DEF OInv, TInv, IInv, TypeOK, EnterOnce, Enter, Homely, receiving
<1>h. ready[c] = {}
  BY DEF AtHome, KeepToOneRoom
<1>1. AtHome'
  <2>1. \A m \in Msg : ~(opened[c][m] > 0)
    BY <1>h DEF ShownUsed, UsedReady
  <2>2. 1..Len(published) \subseteq Msg BY PublishedType
  <2>3. strayed' = {} BY <2>1, <2>2 DEF AtHome
  <2>4. QED BY <2>3 DEF AtHome
<1>2. OneLoop'
  <2>1. \A q \in Room : loops[c][q] # 1
    BY <1>h DEF OneLoop
  <2>2. QED BY <2>1 DEF OneLoop
<1>3. ComesOnce' BY DEF ComesOnce
<1>4. ReplayedFirst' BY DEF ReplayedFirst
<1>5. QED BY <1>1, <1>2, <1>3, <1>4

LEMMA ArmHomely ==
    ASSUME OInv, NEW c \in Client,
           ArmFromAuth(c) \/ ArmFromCatchUp(c) \/ CatchUpRejected(c) \/ JoinError(c)
    PROVE  Homely'
<1> USE DEF OInv, TInv, IInv, TypeOK, Homely
<1>0. /\ ui[c] = "entered" /\ cur[c] \in Room
      /\ UNCHANGED <<todo, cur, loops, pending, buffered, published, plan, strayed>>
      /\ \/ ready' = [ready EXCEPT ![c] = @ \cup {cur[c]}] /\ ui' = [ui EXCEPT ![c] = "armed"]
         \/ UNCHANGED ready /\ ui' = [ui EXCEPT ![c] = "idle"]
  BY DEF ArmFromAuth, ArmFromCatchUp, CatchUpRejected, JoinError, CanCatchUp, Install,
     JoiningARoom, receiving, past
<1>1. AtHome'
  <2>1. cur[c] \in plan.visits[c] BY <1>0, ConstantsAssumption DEF AtHome
  <2>2. \A d \in Client : \/ ready'[d] = ready[d]
                          \/ d = c /\ ready'[d] = ready[d] \cup {cur[c]}
    BY <1>0
  <2>3. \A d \in Client : ready[d] \subseteq plan.visits[d] BY DEF AtHome
  <2>4. \A d \in Client : ready'[d] \subseteq plan.visits[d] BY <2>1, <2>2, <2>3
  <2>5. UNCHANGED <<cur, plan, strayed>> BY <1>0
  <2>6. QED BY <2>4, <2>5 DEF AtHome
<1>2. OneLoop' BY <1>0 DEF OneLoop
<1>3. ComesOnce' BY <1>0 DEF ComesOnce
<1>4. ReplayedFirst' BY <1>0 DEF ReplayedFirst
<1>5. QED BY <1>1, <1>2, <1>3, <1>4

LEMMA SubscribeHomely ==
    ASSUME OInv, NEW c \in Client, Subscribe(c)
    PROVE  Homely'
<1> USE DEF OInv, TInv, IInv, TypeOK, Subscribe, Homely, receiving, past
<1>1. AtHome' BY DEF AtHome
<1>2. OneLoop' BY DEF OneLoop
<1>3. ComesOnce' BY DEF ComesOnce
<1>4. ReplayedFirst' BY DEF ReplayedFirst, Oldest
<1>5. QED BY <1>1, <1>2, <1>3, <1>4

LEMMA ReplayHomely ==
    ASSUME OInv, NEW c \in Client, NEW row \in todo[c],
           ReplayFails(c, row) \/ ReplayShows(c, row)
    PROVE  Homely'
<1> USE DEF OInv, TInv, IInv, TypeOK, Homely
<1>0. /\ ui[c] = "replaying"
      /\ UNCHANGED <<cur, ready, loops, pending, published, plan, strayed>>
      /\ \/ /\ ui' = [ui EXCEPT ![c] = "idle"]
            /\ todo' = [todo EXCEPT ![c] = {}] /\ buffered' = [buffered EXCEPT ![c] = {}]
         \/ UNCHANGED <<ui, buffered>> /\ todo' = [todo EXCEPT ![c] = @ \ {row}]
  BY DEF ReplayFails, ReplayShows, Replaying, past
<1>1. AtHome' BY <1>0 DEF AtHome
<1>2. OneLoop' BY <1>0 DEF OneLoop
<1>3. ComesOnce' BY <1>0 DEF ComesOnce
<1>4. ReplayedFirst'
  <2>1. \A d \in Client : /\ todo'[d] \subseteq todo[d] /\ buffered'[d] \subseteq buffered[d]
                          /\ ui'[d] # "replaying" => ui[d] # "replaying" \/ d = c
    BY <1>0
  <2>2. ui'[c] # "replaying" => todo'[c] = {} /\ buffered'[c] = {}
    BY <1>0
  <2>3. \A d \in Client : ui'[d] # "replaying" => todo'[d] = {} /\ buffered'[d] = {}
    BY <2>1, <2>2 DEF ReplayedFirst
  <2>4. QED BY <1>0, <2>1, <2>3 DEF ReplayedFirst
<1>5. QED BY <1>1, <1>2, <1>3, <1>4

(* The first goroutine, and all it finds waiting is new to it.             *)
LEMMA StartHomely ==
    ASSUME OInv, NEW c \in Client, StartLoop(c)
    PROVE  Homely'
<1> USE DEF OInv, TInv, IInv, TypeOK, StartLoop, Homely, past
<1>0. cur[c] \in Room /\ cur[c] \in ready[c]
  BY DEF JoiningARoom, RoomsReady
<1>n. \A q \in Room : loops[c][q] = 0
  BY DEF OneLoop
<1>p. \A m \in Msg : pending[c][m] = 0
  <2>1. ASSUME NEW m \in Msg, pending[c][m] > 0 PROVE FALSE
    <3>1. m \in Coming(c) BY <2>1 DEF Coming
    <3>2. published[m].room \in Room BY <3>1, ComingPublished
    <3>3. QED BY <1>n, <2>1, <3>2 DEF ComesOnce
  <2>2. pending[c] \in [Msg -> Nat] OBVIOUS
  <2>3. QED BY <2>1, <2>2
<1>1. AtHome' BY DEF AtHome
<1>2. OneLoop'
  <2>1. \A d \in Client, q \in Room :
           loops'[d][q] = IF d = c /\ q = cur[c] THEN 1 ELSE loops[d][q]
    BY <1>0, <1>n
  <2>2. QED BY <1>0, <1>n, <2>1 DEF OneLoop
<1>3. ComesOnce'
  <2>1. \A d \in Client, m \in Msg :
           pending'[d][m] = IF d = c THEN IF m \in buffered[c] THEN 1 ELSE 0 ELSE pending[d][m]
    BY <1>p
  <2>2. \A d \in Client, q \in Room :
           loops'[d][q] = IF d = c /\ q = cur[c] THEN 1 ELSE loops[d][q]
    BY <1>0, <1>n
  <2>3. ASSUME NEW m \in buffered[c] PROVE published[m].room = cur[c]
    BY DEF ReplayedFirst
  <2>4. ASSUME NEW d \in Client, NEW m \in Msg, d # c, pending'[d][m] > 0
        PROVE  pending'[d][m] = 1 /\ loops'[d][published[m].room] = 1
    BY <2>1, <2>4 DEF ComesOnce
  <2>5. ASSUME NEW m \in Msg, pending'[c][m] > 0
        PROVE  pending'[c][m] = 1 /\ loops'[c][published[m].room] = 1
    BY <1>0, <2>1, <2>2, <2>3, <2>5
  <2>6. QED BY <2>4, <2>5 DEF ComesOnce
<1>4. ReplayedFirst' BY DEF ReplayedFirst
<1>5. QED BY <1>1, <1>2, <1>3, <1>4

(* A new message comes once to each goroutine of its room, and after all   *)
(* that is being replayed.                                                 *)
LEMMA SendHomely ==
    ASSUME OInv, NEW c \in Client, Send(c)
    PROVE  Homely'
<1> USE DEF OInv, TInv, IInv, TypeOK, Homely
<1> DEFINE new == Len(published) + 1
<1>0. /\ cur[c] \in Room /\ new \in Msg /\ new \notin 1..Len(published)
      /\ UNCHANGED <<ui, todo, cur, ready, loops, plan, strayed>>
      /\ \A m \in 1..Len(published) : published'[m] = published[m]
      /\ published'[new].room = cur[c]
      /\ \A d \in Client, m \in Msg :
            pending'[d][m] = IF m = new THEN pending[d][m] + loops[d][cur[c]] ELSE pending[d][m]
      /\ \A d \in Client :
            buffered'[d] = IF ui[d] = "replaying" /\ cur[d] = cur[c]
                           THEN buffered[d] \cup {new} ELSE buffered[d]
  <2>1. PICK msg : Publish(msg) /\ msg.room = cur[c] BY DEF Send
  <2>2. cur[c] \in Room /\ new \in Msg /\ new \notin 1..Len(published)
    BY ConstantsAssumption DEF Send, CanSend, Msg
  <2>3. UNCHANGED <<ui, todo, cur, ready, loops, plan, strayed>> BY DEF Send
  <2>4. /\ \A m \in 1..Len(published) : published'[m] = published[m]
        /\ published'[new].room = cur[c]
    BY <2>1 DEF Publish
  <2>5. \A d \in Client, m \in Msg :
           pending'[d][m] = IF m = new THEN pending[d][m] + loops[d][cur[c]] ELSE pending[d][m]
    BY <2>1, <2>2 DEF Publish
  <2>6. QED BY <2>1, <2>2, <2>3, <2>4, <2>5 DEF Publish
<1>p. \A d \in Client : pending[d][new] = 0 /\ new \notin buffered[d]
  BY <1>0 DEF InFlight
<1> HIDE DEF new
<1>1. AtHome' BY <1>0 DEF AtHome
<1>2. OneLoop' BY <1>0 DEF OneLoop
<1>3. ComesOnce'
  <2> SUFFICES ASSUME NEW d \in Client, NEW m \in Msg, pending'[d][m] > 0
               PROVE  pending'[d][m] = 1 /\ loops'[d][published'[m].room] = 1
    BY DEF ComesOnce
  <2>1. CASE m = new
    BY <1>0, <1>p, <2>1 DEF OneLoop
  <2>2. CASE m # new
    <3>1. pending'[d][m] = pending[d][m] BY <1>0, <2>2
    <3>2. m \in 1..Len(published) BY <3>1 DEF InFlight
    <3>3. published'[m] = published[m] /\ loops' = loops BY <1>0, <3>2
    <3>4. pending[d][m] = 1 /\ loops[d][published[m].room] = 1
      BY <3>1 DEF ComesOnce
    <3>5. QED BY <3>1, <3>3, <3>4
  <2>3. QED BY <2>1, <2>2
<1>4. ReplayedFirst'
  <2> SUFFICES ASSUME NEW d \in Client
               PROVE  /\ ui'[d] # "replaying" => todo'[d] = {} /\ buffered'[d] = {}
                      /\ \A m \in buffered'[d] : published'[m].room = cur'[d]
                      /\ \A row \in todo'[d] :
                            row.room = cur'[d] /\ \A m \in buffered'[d] : row.msg < m
    BY DEF ReplayedFirst
  <2>1. ui'[d] # "replaying" => todo'[d] = {} /\ buffered'[d] = {}
    BY <1>0 DEF ReplayedFirst
  <2>2. \A m \in buffered'[d] : published'[m].room = cur'[d]
    <3>1. buffered[d] \subseteq 1..Len(published) BY DEF InFlight
    <3>2. \A m \in buffered[d] : published'[m].room = cur[d]
      <4>1. \A m \in buffered[d] : published[m].room = cur[d] BY DEF ReplayedFirst
      <4>2. QED BY <1>0, <3>1, <4>1
    <3>3. cur' = cur BY <1>0
    <3>4. \A m \in buffered'[d] : m \in buffered[d] \/ (m = new /\ cur[d] = cur[c])
      BY <1>0
    <3>5. QED BY <1>0, <3>2, <3>3, <3>4
  <2>3. ASSUME NEW row \in todo'[d]
        PROVE  row.room = cur'[d] /\ \A m \in buffered'[d] : row.msg < m
    <3>1. row \in todo[d] /\ row.msg \in 1..Len(published)
      BY <1>0 DEF TodoReadable, Known
    <3>2. row.msg < new BY <3>1 DEF new
    <3>3. row.room = cur[d] /\ \A m \in buffered[d] : row.msg < m
      BY <3>1 DEF ReplayedFirst
    <3>4. cur' = cur BY <1>0
    <3>5. \A m \in buffered'[d] : m \in buffered[d] \/ m = new
      BY <1>0
    <3>6. QED BY <3>2, <3>3, <3>4, <3>5
  <2>4. QED BY <2>1, <2>2, <2>3
<1>5. QED BY <1>1, <1>2, <1>3, <1>4

LEMMA DecipheredHomely ==
    ASSUME OInv, NEW c \in Client, NEW m \in Msg, Deciphered(c, m)
    PROVE  Homely'
<1>0. /\ UNCHANGED <<ui, todo, cur, ready, loops, buffered, published, plan, strayed>>
      /\ pending' = [pending EXCEPT ![c][m] = @ - 1]
  BY DEF Deciphered, Taken, past
<1>1. pending \in [Client -> [Msg -> Nat]] BY DEF OInv, TInv, IInv, TypeOK
<1>2. AtHome' /\ OneLoop' /\ ReplayedFirst'
  BY <1>0 DEF OInv, AtHome, OneLoop, ReplayedFirst
<1>3. \A d \in Client, n \in Msg :
         pending'[d][n] = IF d = c /\ n = m THEN pending[d][n] - 1 ELSE pending[d][n]
  BY <1>0, <1>1
<1>4. ComesOnce' BY <1>0, <1>1, <1>3 DEF OInv, ComesOnce
<1>5. QED BY <1>2, <1>4 DEF Homely

(* A step that only files, draws or stores.                                *)
LEMMA OthersHomely ==
    ASSUME OInv, UNCHANGED <<ui, todo, cur, ready, loops, pending, buffered, published,
                             plan, strayed>>
    PROVE  Homely'
BY DEF OInv, Homely, AtHome, OneLoop, ComesOnce, ReplayedFirst

-----------------------------------------------------------------------------
(* How the ratchets stand to what has still to come.                       *)
Behind == RatchetsBehind /\ BackupBehind

(* A step that publishes nothing and brings nothing new, and leaves each   *)
(* pair of ratchets alone or sets it to index 0.                           *)
LEMMA AloneOrReset ==
    ASSUME OInv, IInv', UNCHANGED published,
           \A c \in Client : /\ \A m \in Msg : pending'[c][m] > 0 => pending[c][m] > 0
                             /\ buffered'[c] \subseteq buffered[c],
           \A c \in Client, r \in Room :
              \/ session'[c][r] = session[c][r]
              \/ session'[c][r].room.index = 0 /\ session'[c][r].backup.index = 0
    PROVE  Behind'
<1>1. RatchetsBehind'
  BY DEF OInv, RatchetsBehind
<1>2. ASSUME NEW c \in Client, NEW m \in Coming(c)'
      PROVE  session'[c][published[m].room].backup.index <= published[m].ChainIndex
  <2>1. m \in Coming(c) BY <1>2 DEF Coming, IInv, TypeOK
  <2>2. published[m].room \in Room /\ published[m].ChainIndex \in Nat
    BY <2>1, ComingPublished DEF OInv, TInv
  <2>3. session[c][published[m].room].backup.index <= published[m].ChainIndex
    BY <2>1 DEF OInv, BackupBehind
  <2>4. QED BY <2>2, <2>3
<1>3. BackupBehind' BY <1>2 DEF BackupBehind
<1>4. QED BY <1>1, <1>3 DEF Behind

(* A step that decrypts message n of the current room, when only later     *)
(* messages are still to come.                                             *)
LEMMA DecryptInOrder ==
    ASSUME OInv, IInv', UNCHANGED published, NEW c \in Client, cur[c] \in Room,
           NEW n \in 1..Len(published), published[n].room = cur[c],
           session' = [session EXCEPT ![c][cur[c]] =
                         Decrypt(session[c][cur[c]], published[n].ChainIndex).ratchets],
           \A d \in Client : Coming(d)' \subseteq Coming(d),
           \A m \in Coming(c)' : published[m].room = cur[c] /\ n < m
    PROVE  Behind'
<1> DEFINE s == session[c][cur[c]]
           i == published[n].ChainIndex
           t == Decrypt(s, i).ratchets
<1>0. TypeOK BY DEF OInv, TInv, IInv
<1>1. s \in Ratchets /\ SoundAt(s, cur[c]) /\ i \in Nat
  <2>1. i \in Nat BY <1>0, PublishedType
  <2>2. s \in Ratchets /\ SoundAt(s, cur[c])
    BY <1>0 DEF OInv, TInv, IInv, TypeOK, RatchetSound
  <2>3. QED BY <2>1, <2>2
<1>2. /\ t.room.index \in {s.room.index, i + 1}
      /\ s.backup.index <= i => t.backup.index <= i + 1
      /\ i < s.backup.index => t.backup = s.backup
      /\ t \in Ratchets
  <2> HIDE DEF s, i
  <2>1. QED BY <1>1, DecryptFinds
<1>3. \A d \in Client, r \in Room :
         session'[d][r] = IF d = c /\ r = cur[c] THEN t ELSE session[d][r]
  <2>1. session \in [Client -> [Room -> Ratchets]] BY <1>0 DEF TypeOK
  <2>2. session' = [session EXCEPT ![c][cur[c]] = t] OBVIOUS
  <2> HIDE DEF t
  <2>3. QED BY <2>1, <2>2
<1> HIDE DEF t
<1>4. RatchetsBehind'
  <2> SUFFICES ASSUME NEW d \in Client, NEW r \in Room
               PROVE  \/ session'[d][r].room.index = 0
                      \/ \E m \in 1..Len(published) :
                            /\ published[m].room = r
                            /\ session'[d][r].room.index <= published[m].ChainIndex + 1
    BY DEF RatchetsBehind
  <2>1. CASE session'[d][r].room.index = session[d][r].room.index
    BY <2>1 DEF OInv, RatchetsBehind
  <2>2. CASE d = c /\ r = cur[c] /\ session'[d][r].room.index = i + 1
    BY <1>1, <2>2
  <2>3. QED BY <1>2, <1>3, <2>1, <2>2
<1>5. BackupBehind'
  <2> SUFFICES ASSUME NEW d \in Client, NEW m \in Coming(d)'
               PROVE  session'[d][published[m].room].backup.index <= published[m].ChainIndex
    BY DEF BackupBehind
  <2>1. /\ m \in Coming(d) /\ m \in 1..Len(published)
        /\ published[m].room \in Room /\ published[m].ChainIndex \in Nat
    BY ComingPublished DEF OInv, TInv
  <2>2. session[d][published[m].room].backup.index <= published[m].ChainIndex
    BY <2>1 DEF OInv, BackupBehind
  <2>3. CASE d = c
    <3>1. published[m].room = cur[c] /\ n < m BY <2>3
    <3>2. i < published[m].ChainIndex
      BY <2>1, <3>1 DEF OInv, IndicesGrow
    <3>3. session'[d][published[m].room] = t BY <1>3, <2>3, <3>1
    <3>4. s.backup.index \in Nat /\ t.backup.index \in Nat
      BY <1>1, <1>2 DEF Ratchets, RoomRatchet
    <3>5. s.backup.index <= published[m].ChainIndex BY <2>2, <2>3, <3>1
    <3>6. t.backup.index <= published[m].ChainIndex
      BY <1>1, <1>2, <2>1, <3>2, <3>4, <3>5
    <3>7. QED BY <3>3, <3>6
  <2>4. CASE d # c BY <1>3, <2>1, <2>2, <2>4
  <2>5. QED BY <2>3, <2>4
<1>6. QED BY <1>4, <1>5 DEF Behind

(* A row that is replayed is of the room and was published before all that *)
(* is buffered, and nothing else comes meanwhile.                          *)
LEMMA ReplayBehind ==
    ASSUME OInv, IInv', NEW c \in Client, NEW row \in todo[c],
           ReplayFails(c, row) \/ ReplayShows(c, row)
    PROVE  Behind'
<1>1. /\ ui[c] = "replaying" /\ cur[c] \in Room
      /\ UNCHANGED <<published, pending>>
      /\ session' = [session EXCEPT ![c][cur[c]] =
                       Decrypt(session[c][cur[c]], row.index).ratchets]
      /\ \A d \in Client : buffered'[d] \subseteq buffered[d]
  <2>1. ui[c] = "replaying" /\ cur[c] \in Room
    BY DEF ReplayFails, ReplayShows, Replaying, OInv, TInv, IInv, TypeOK, JoiningARoom
  <2>2. /\ UNCHANGED <<published, pending>>
        /\ session' = [session EXCEPT ![c][cur[c]] =
                         Decrypt(session[c][cur[c]], row.index).ratchets]
        /\ \/ buffered' = [buffered EXCEPT ![c] = {}]
           \/ UNCHANGED buffered
    BY DEF ReplayFails, ReplayShows, ReplayDecrypt, past
  <2>3. buffered \in [Client -> SUBSET Msg] BY DEF OInv, TInv, IInv, TypeOK
  <2>4. QED BY <2>1, <2>2, <2>3
<1>2. row.room = cur[c] /\ \A m \in buffered[c] : published[m].room = cur[c] /\ row.msg < m
  BY DEF OInv, ReplayedFirst
<1>3. row.msg \in 1..Len(published) /\ published[row.msg].room = cur[c]
      /\ published[row.msg].ChainIndex = row.index
  <2>1. /\ row.msg \in 1..Len(published) /\ published[row.msg].room = row.room
        /\ published[row.msg].key = [root |-> row.room, pos |-> row.index, info |-> row.index]
    BY DEF OInv, AtHome, TInv, IInv, TodoReadable, Known
  <2>2. published[row.msg].key =
           [ root |-> published[row.msg].room, pos |-> published[row.msg].ChainIndex,
             info |-> published[row.msg].ChainIndex ]
    BY <2>1 DEF OInv, TInv, IInv, MessagesLabelled
  <2>3. QED BY <1>2, <2>1, <2>2
<1>4. \A m \in Msg : ~(pending[c][m] > 0)
  <2> SUFFICES ASSUME NEW m \in Msg, pending[c][m] > 0 PROVE FALSE OBVIOUS
  <2>1. m \in Coming(c) BY DEF Coming
  <2>2. published[m].room \in Room BY <2>1, ComingPublished DEF OInv, TInv
  <2>3. QED BY <1>1, <2>2 DEF OInv, ComesOnce, OneLoop
<1>5. \A d \in Client : Coming(d)' \subseteq Coming(d)
  BY <1>1 DEF Coming
<1>6. \A m \in Coming(c)' : published[m].room = cur[c] /\ row.msg < m
  BY <1>1, <1>2, <1>4 DEF Coming
<1>7. QED BY <1>1, <1>3, <1>5, <1>6, DecryptInOrder

(* The message a goroutine takes is the first to come.                     *)
LEMMA DecipheredBehind ==
    ASSUME KeepToOneRoom, OInv, IInv', NEW c \in Client, NEW m \in Msg,
           Oldest1(c, m), Deciphered(c, m)
    PROVE  Behind'
<1>1. /\ cur[c] \in ready[c] /\ pending[c][m] > 0
      /\ pending' = [pending EXCEPT ![c][m] = @ - 1]
      /\ UNCHANGED <<published, buffered>>
      /\ session' = [session EXCEPT ![c][cur[c]] =
                       Decrypt(session[c][cur[c]], published[m].ChainIndex).ratchets]
  BY DEF Deciphered, Taken, Take, ReceiveDecrypt, past
<1>2. \A n \in Msg : pending[c][n] > 0 =>
         /\ n \in 1..Len(published) /\ published[n].room = cur[c] /\ cur[c] \in Room
         /\ ui[c] = "idle"
  <2> SUFFICES ASSUME NEW n \in Msg, pending[c][n] > 0
               PROVE  /\ n \in 1..Len(published) /\ published[n].room = cur[c]
                      /\ cur[c] \in Room /\ ui[c] = "idle"
    OBVIOUS
  <2>1. n \in Coming(c) BY DEF Coming
  <2>2. n \in 1..Len(published) /\ published[n].room \in Room
    BY <2>1, ComingPublished DEF OInv, TInv
  <2>3. published[n].room \in ready[c] /\ ui[c] = "idle"
    BY <2>2 DEF OInv, ComesOnce, OneLoop
  <2>4. published[n].room = cur[c]
    <3>1. plan \in Plans /\ cur[c] # NoRoom
      BY <1>1, ConstantsAssumption DEF OInv, TInv, IInv, TypeOK
    <3>2. cur[c] \in plan.visits[c] /\ published[n].room \in plan.visits[c]
      BY <2>3, <3>1 DEF OInv, AtHome
    <3>3. QED BY <3>1, <3>2 DEF KeepToOneRoom
  <2>5. QED BY <2>2, <2>3, <2>4
<1>3. buffered[c] = {} BY <1>1, <1>2 DEF OInv, ReplayedFirst
<1>4. \A d \in Client, n \in Msg :
         pending'[d][n] = IF d = c /\ n = m THEN pending[d][n] - 1 ELSE pending[d][n]
  <2>1. pending \in [Client -> [Msg -> Nat]] BY DEF OInv, TInv, IInv, TypeOK
  <2>2. QED BY <1>1, <2>1
<1>5. \A d \in Client : Coming(d)' \subseteq Coming(d)
  BY <1>1, <1>4 DEF Coming, OInv, TInv, IInv, TypeOK
<1>6. \A n \in Coming(c)' : published[n].room = cur[c] /\ m < n
  <2> SUFFICES ASSUME NEW n \in Coming(c)' PROVE published[n].room = cur[c] /\ m < n
    OBVIOUS
  <2>1. n \in Msg /\ pending'[c][n] > 0 BY <1>1, <1>3 DEF Coming
  <2>2. pending[c][m] = 1 BY <1>1 DEF OInv, ComesOnce
  <2>3. n # m /\ pending[c][n] > 0 BY <1>4, <2>1, <2>2
  <2>4. m <= n BY <2>1, <2>3 DEF Oldest1
  <2>5. QED BY <1>2, <2>1, <2>3, <2>4 DEF Msg
<1>7. QED BY <1>1, <1>2, <1>5, <1>6, DecryptInOrder

(* Who sees every message of a room sends the next index, which no ratchet *)
(* of the room is past.                                                    *)
LEMMA SendBehind ==
    ASSUME OInv, IInv', NEW c \in Client, SendTurn(c)
    PROVE  IndicesGrow' /\ Behind'
<1> DEFINE new == Len(published) + 1
           i == session[c][cur[c]].room.index
<1>0. /\ TypeOK /\ cur[c] \in Room /\ i \in Nat /\ session[c][cur[c]] \in Ratchets
      /\ SoundAt(session[c][cur[c]], cur[c]) /\ published \in Seq(ChatMessage)
  <2>1. TypeOK /\ RatchetSound BY DEF OInv, TInv, IInv
  <2>2. cur[c] \in Room BY <2>1 DEF SendTurn, Send, CanSend, TypeOK
  <2>3. i \in Nat BY <2>1, <2>2, IndexTypes
  <2>4. session[c][cur[c]] \in Ratchets /\ SoundAt(session[c][cur[c]], cur[c])
    BY <2>1, <2>2 DEF TypeOK, RatchetSound
  <2>5. QED BY <2>1, <2>2, <2>3, <2>4 DEF TypeOK
<1>1. /\ Len(published') = new /\ new \notin 1..Len(published)
      /\ \A m \in 1..Len(published) : published'[m] = published[m]
      /\ published'[new].room = cur[c] /\ published'[new].ChainIndex = i
  <2>1. ChainIndexOf(EncryptMessage(session[c][cur[c]])) = i BY <1>0, EncryptSound
  <2>2. QED BY <1>0, <2>1 DEF SendTurn, Send, Publish
<1>2. \A m \in 1..Len(published) :
         published[m].room = cur[c] => published[m].ChainIndex < i
  BY SendsPastAll DEF OInv
<1>3. \A d \in Client, r \in Room :
         /\ session'[d][r].backup = session[d][r].backup
         /\ session'[d][r].room.index =
               IF d = c /\ r = cur[c] THEN i + 1 ELSE session[d][r].room.index
  <2>1. session' = [session EXCEPT ![c][cur[c]] = EncryptMessage(session[c][cur[c]])]
    BY DEF SendTurn, Send
  <2>2. /\ EncryptMessage(session[c][cur[c]]).backup = session[c][cur[c]].backup
        /\ EncryptMessage(session[c][cur[c]]).room.index = i + 1
    BY <1>0, EncryptSound DEF EncryptMessage
  <2> HIDE DEF i
  <2>3. QED BY <1>0, <2>1, <2>2 DEF TypeOK
<1> HIDE DEF i
<1>4. \A d \in Client : session[d][cur[c]].backup.index <= i
  <2> SUFFICES ASSUME NEW d \in Client PROVE session[d][cur[c]].backup.index <= i OBVIOUS
  <2>1. /\ session[d][cur[c]].backup.index <= session[d][cur[c]].room.index
        /\ session[d][cur[c]].backup.index \in Nat /\ session[d][cur[c]].room.index \in Nat
    BY <1>0, IndexTypes DEF OInv, TInv, IInv, RatchetSound, SoundAt
  <2>2. session[d][cur[c]].room.index <= i
    <3>1. CASE session[d][cur[c]].room.index = 0 BY <1>0, <3>1
    <3>2. ASSUME NEW m \in 1..Len(published), published[m].room = cur[c],
                 session[d][cur[c]].room.index <= published[m].ChainIndex + 1
          PROVE  session[d][cur[c]].room.index <= i
      <4>1. published[m].ChainIndex \in Nat BY <1>0, PublishedType
      <4>2. QED BY <1>0, <1>2, <2>1, <3>2, <4>1
    <3>3. \/ session[d][cur[c]].room.index = 0
          \/ \E m \in 1..Len(published) :
                /\ published[m].room = cur[c]
                /\ session[d][cur[c]].room.index <= published[m].ChainIndex + 1
      BY <1>0 DEF OInv, RatchetsBehind
    <3>4. QED BY <3>1, <3>2, <3>3
  <2>3. QED BY <1>0, <2>1, <2>2
<1>5. IndicesGrow'
  <2> SUFFICES ASSUME NEW m \in 1..new, NEW n \in 1..new, m < n,
                      published'[m].room = published'[n].room
               PROVE  published'[m].ChainIndex < published'[n].ChainIndex
    BY <1>1 DEF IndicesGrow
  <2>0. Len(published) \in Nat BY <1>0
  <2>1. m \in 1..Len(published) BY <2>0
  <2>2. CASE n = new BY <1>1, <1>2, <2>1, <2>2
  <2>3. CASE n # new
    <3>1. n \in 1..Len(published) BY <2>0, <2>3
    <3>2. QED BY <1>1, <2>1, <3>1 DEF OInv, IndicesGrow
  <2>4. QED BY <2>2, <2>3
<1>6. new \in 1..Len(published') /\ 1..Len(published) \subseteq 1..Len(published')
  BY <1>0, <1>1
<1> HIDE DEF new
<1>7. RatchetsBehind'
  <2> SUFFICES ASSUME NEW d \in Client, NEW r \in Room
               PROVE  \/ session'[d][r].room.index = 0
                      \/ \E m \in 1..Len(published') :
                            /\ published'[m].room = r
                            /\ session'[d][r].room.index <= published'[m].ChainIndex + 1
    BY DEF RatchetsBehind
  <2>1. CASE d = c /\ r = cur[c]
    BY <1>0, <1>1, <1>3, <1>6, <2>1
  <2>2. CASE ~(d = c /\ r = cur[c])
    <3>1. session'[d][r].room.index = session[d][r].room.index BY <1>3, <2>2
    <3>2. \/ session[d][r].room.index = 0
          \/ \E m \in 1..Len(published) :
                /\ published[m].room = r
                /\ session[d][r].room.index <= published[m].ChainIndex + 1
      BY DEF OInv, RatchetsBehind
    <3>3. QED BY <1>1, <1>6, <3>1, <3>2
  <2>3. QED BY <2>1, <2>2
<1>8. BackupBehind'
  <2> SUFFICES ASSUME NEW d \in Client, NEW m \in Coming(d)'
               PROVE  session'[d][published'[m].room].backup.index
                         <= published'[m].ChainIndex
    BY DEF BackupBehind
  <2>1. CASE m = new BY <1>0, <1>1, <1>3, <1>4, <2>1
  <2>2. CASE m # new
    <3>1. m \in Coming(d)
      <4>1. PICK msg : Publish(msg) BY DEF SendTurn, Send
      <4>2. CASE m \in buffered'[d]
        BY <2>2, <4>1, <4>2 DEF Publish, Coming, new
      <4>3. CASE m \in Msg /\ pending'[d][m] > 0
        BY <1>0, <2>2, <4>1, <4>3 DEF Publish, Coming, new, TypeOK
      <4>4. QED BY <4>2, <4>3 DEF Coming
    <3>2. /\ m \in 1..Len(published) /\ published[m].room \in Room
      BY <3>1, ComingPublished DEF OInv, TInv
    <3>3. session[d][published[m].room].backup.index <= published[m].ChainIndex
      BY <3>1 DEF OInv, BackupBehind
    <3>4. QED BY <1>1, <1>3, <3>2, <3>3
  <2>3. QED BY <2>1, <2>2
<1>9. QED BY <1>5, <1>7, <1>8 DEF Behind

-----------------------------------------------------------------------------
LEMMA NextOInv ==
    ASSUME KeepToOneRoom, OInv, [OrderedNext]_vars
    PROVE  OInv'
<1>1. TInv'
  BY OrderedNextIsTurns, NextTInv DEF OInv
<1>2. IInv' /\ IInv /\ TypeOK /\ TypeOK' BY <1>1 DEF OInv, TInv, IInv
<1> DEFINE Good == Homely' /\ IndicesGrow' /\ Behind'
<1>3. ASSUME UNCHANGED published PROVE IndicesGrow'
  BY <1>3 DEF OInv, IndicesGrow
<1>4. ASSUME UNCHANGED <<published, session, pending, buffered>> PROVE Behind'
  BY <1>2, <1>4, AloneOrReset
<1>5. ASSUME UNCHANGED vars PROVE Good
  <2>1. Homely'
    BY <1>5, OthersHomely DEF vars, memory, receiving, past
  <2>2. UNCHANGED <<published, session, pending, buffered>>
    BY <1>5 DEF vars, memory, receiving, past
  <2>3. IndicesGrow' BY <1>3, <2>2
  <2>4. Behind' BY <1>4, <2>2
  <2>5. QED BY <2>1, <2>3, <2>4
<1>6. ASSUME NEW c \in Client, Stop(c, "panicked") PROVE Good
  <2>1. \A d \in Client, r \in Room :
           \/ session'[d][r] = session[d][r]
           \/ session'[d][r].room.index = 0 /\ session'[d][r].backup.index = 0
    <3>1. session' = [session EXCEPT ![c] = NewSession]
          /\ session \in [Client -> [Room -> Ratchets]]
      BY <1>2, <1>6 DEF Stop, TypeOK
    <3>2. QED BY <3>1 DEF NewSession, SetInitialRatchet, NewRatchet
  <2>2. \A d \in Client : /\ \A m \in Msg : pending'[d][m] > 0 => pending[d][m] > 0
                          /\ buffered'[d] \subseteq buffered[d]
    BY <1>2, <1>6 DEF Stop, TypeOK
  <2>3. UNCHANGED published BY <1>6 DEF Stop, past
  <2>4. QED BY <1>2, <1>3, <1>6, <2>1, <2>2, <2>3, AloneOrReset, StopHomely
<1>7. ASSUME NEW c \in Client, NEW r \in plan.visits[c], EnterOnce(c, r) PROVE Good
  BY <1>3, <1>4, <1>7, EnterHomely DEF EnterOnce, Enter, receiving
<1>8. ASSUME NEW c \in Client,
             ArmFromAuth(c) \/ ArmFromCatchUp(c) \/ CatchUpRejected(c) \/ JoinError(c)
      PROVE  Good
  <2>1. UNCHANGED <<published, pending, buffered>>
    BY <1>8 DEF ArmFromAuth, ArmFromCatchUp, CatchUpRejected, JoinError, receiving, past
  <2>2. UNCHANGED session \/ Install(c)
    BY <1>8 DEF ArmFromAuth, ArmFromCatchUp, CatchUpRejected, JoinError
  <2>3. \A d \in Client, r \in Room :
           \/ session'[d][r] = session[d][r]
           \/ session'[d][r].room.index = 0 /\ session'[d][r].backup.index = 0
    <3>1. session \in [Client -> [Room -> Ratchets]] BY <1>2 DEF TypeOK
    <3>2. QED BY <2>2, <3>1 DEF Install, SetInitialRatchet, NewRatchet
  <2>4. QED BY <1>2, <1>3, <1>8, <2>1, <2>3, AloneOrReset, ArmHomely
<1>9. ASSUME NEW c \in Client, Subscribe(c) PROVE Good
  BY <1>3, <1>4, <1>9, SubscribeHomely DEF Subscribe, receiving, past
<1>10. ASSUME NEW c \in Client, StartLoop(c) PROVE Good
  <2>1. UNCHANGED <<published, session>> BY <1>10 DEF StartLoop, past
  <2>2. Homely' BY <1>10, StartHomely
  <2>3. RatchetsBehind' BY <2>1 DEF OInv, RatchetsBehind
  <2>4. \A d \in Client : Coming(d)' \subseteq Coming(d)
    <3> SUFFICES ASSUME NEW d \in Client, NEW m \in Coming(d)' PROVE m \in Coming(d)
      OBVIOUS
    <3>1. m \in Msg BY <1>2 DEF Coming, TypeOK
    <3>2. buffered'[d] \subseteq buffered[d] BY <1>2, <1>10 DEF StartLoop, TypeOK
    <3>3. pending'[d][m] = IF d = c /\ m \in buffered[c] THEN pending[d][m] + 1 ELSE pending[d][m]
      <4>1. /\ pending' = [pending EXCEPT ![c] =
                  [n \in Msg |-> IF n \in buffered[c] THEN @[n] + 1 ELSE @[n]]]
            /\ pending \in [Client -> [Msg -> Nat]]
        BY <1>2, <1>10 DEF StartLoop, TypeOK
      <4>2. QED BY <3>1, <4>1
    <3>4. QED BY <3>1, <3>2, <3>3 DEF Coming
  <2>5. BackupBehind' BY <2>1, <2>4 DEF OInv, BackupBehind
  <2>6. QED BY <1>3, <2>1, <2>2, <2>3, <2>5 DEF Behind
<1>11. ASSUME NEW c \in Client, NEW row \in todo[c],
              ReplayFails(c, row) \/ ReplayShows(c, row)
       PROVE  Good
  <2>1. UNCHANGED published BY <1>11 DEF ReplayFails, ReplayShows, past
  <2>2. QED BY <1>2, <1>3, <1>11, <2>1, ReplayHomely, ReplayBehind
<1>12. ASSUME NEW c \in Client, NEW row \in todo[c], ReplayPanics(c, row) PROVE Good
  BY <1>6, <1>12 DEF ReplayPanics
<1>13. ASSUME NEW c \in Client, SendTurn(c) PROVE Good
  BY <1>2, <1>13, SendBehind, SendHomely DEF SendTurn
<1>14. ASSUME NEW c \in Client, NEW m \in Msg, ReceiveInOrder(c, m) PROVE Good
  <2>1. CASE Deciphered(c, m)
    <3>1. UNCHANGED published BY <2>1 DEF Deciphered, past
    <3>2. pending'[c][m] < pending[c][m]
      BY <1>2, <2>1 DEF Deciphered, Taken, Take, TypeOK
    <3>3. Oldest1(c, m) BY <1>14, <3>2 DEF ReceiveInOrder
    <3>4. QED BY <1>2, <1>3, <2>1, <3>1, <3>3, DecipheredHomely, DecipheredBehind
  <2>2. ~Undeciphered(c, m) BY ComingOpens DEF Undeciphered, Taken, Take
  <2>3. CASE ReceivePanics(c, m) BY <1>6, <2>3 DEF ReceivePanics
  <2>4. CASE Files(c, m) \/ Draws(c, m) \/ DisplayMessage(c, m)
    <3>1. UNCHANGED <<ui, todo, cur, ready, loops, pending, buffered, published, plan,
                      strayed, session>>
      BY <2>4 DEF Files, Draws, DisplayMessage, past
    <3>2. QED BY <1>3, <1>4, <3>1, OthersHomely
  <2>5. QED BY <1>14, <2>1, <2>2, <2>3, <2>4 DEF ReceiveInOrder, Receive
<1>15. ASSUME NEW c \in Client, Commit(c) PROVE Good
  BY <1>3, <1>4, <1>15, OthersHomely DEF Commit, receiving, past
<1>16. Good
  <2>1. ASSUME NEW c \in Client, Join(c) PROVE Good
    BY <1>8, <1>9, <1>10, <1>11, <1>12, <2>1 DEF Join
  <2> HIDE DEF Good
  <2>2. ASSUME OrderedNext PROVE Good
    <3>1. PICK c \in Client : \/ \E r \in plan.visits[c] : EnterOnce(c, r)
                             \/ SendTurn(c) \/ Handle(c) \/ Commit(c)
      BY <2>2 DEF OrderedNext
    <3>2. CASE Handle(c) BY <1>14, <2>1, <3>2 DEF Handle
    <3>3. QED BY <1>7, <1>13, <1>15, <3>1, <3>2
  <2>3. OrderedNext \/ UNCHANGED vars OBVIOUS
  <2>4. QED BY <1>5, <2>2, <2>3
<1>17. QED BY <1>1, <1>16 DEF OInv, Homely, Behind

(* In a room where people take turns and nothing is lost or overtakes, a   *)
(* message that reaches a chat goroutine decrypts (handlers.go:387-407),   *)
(* for any window, any limits on what is replayed or sent to a newcomer,   *)
(* and any number of members: the backup ratchet never passes a message    *)
(* that is still to come, a client's own included.                         *)
THEOREM TurnsEveryMessageOpens == KeepToOneRoom => (OrderedSpec => EveryMessageOpens)
<1> SUFFICES ASSUME KeepToOneRoom PROVE OrderedSpec => EveryMessageOpens
  OBVIOUS
<1>1. Init => OInv BY InitOInv
<1>2. OInv /\ [OrderedNext]_vars => OInv' BY NextOInv
<1>3. OInv => \A c \in Client, m \in Msg : ~Undeciphered(c, m)
  BY ComingOpens DEF Undeciphered, Taken, Take
<1>4. OInv /\ [OrderedNext]_vars => [\A c \in Client, m \in Msg : ~Undeciphered(c, m)]_vars
  BY <1>3
<1>5. QED BY <1>1, <1>2, <1>4, PTL DEF OrderedSpec, EveryMessageOpens
=============================================================================
