-------------------------- MODULE ChatRoom_proofs --------------------------
(***************************************************************************)
(* Proofs about Ratchet and ChatRoom, for any clients, rooms, window and   *)
(* limits: first what the operators of Ratchet return, then the state      *)
(* machine that uses them.                                                 *)
(*                                                                         *)
(* A message is opened only under the ratchets of its own room, because    *)
(* those are where they say they are on that room's chain; what is filed   *)
(* later was opened under the room that is still current, or has strayed.  *)
(* A client seals no message under a key it has taken, because its ratchet *)
(* has passed every message it has sealed or opened since the ratchet was  *)
(* installed.  Both need that a message carries the index its key was      *)
(* derived under, and that what is on its way has been published.          *)
(***************************************************************************)
EXTENDS ChatRoom, TLAPS

(* AdvanceTo gives a ratchet on the same chain, at i or where it was.      *)
LEMMA AdvanceToType ==
    ASSUME NEW q \in RoomRatchet, NEW i \in Int
    PROVE  /\ AdvanceTo(q, i) \in RoomRatchet
           /\ AdvanceTo(q, i).root = q.root
           /\ AdvanceTo(q, i).index = (IF q.index < i THEN i ELSE q.index)
           /\ q.pos = q.index => AdvanceTo(q, i).pos = AdvanceTo(q, i).index
<1>1. CASE q.index < i
  BY <1>1 DEF AdvanceTo, RoomRatchet
<1>2. CASE ~(q.index < i)
  BY <1>2 DEF AdvanceTo, RoomRatchet
<1>3. QED BY <1>1, <1>2

(* SetInitialRatchet on a room's own chain gives sound ratchets.           *)
LEMMA InitialRatchetSound ==
    ASSUME NEW r \in Room
    PROVE  /\ SetInitialRatchet(NewRatchet(r)) \in Ratchets
           /\ SoundAt(SetInitialRatchet(NewRatchet(r)), r)
BY DEF SetInitialRatchet, NewRatchet, Ratchets, RoomRatchet, SoundAt

(* EncryptMessage keeps the ratchets sound and takes the room ratchet one on.*)
LEMMA EncryptSound ==
    ASSUME NEW r \in Room, NEW s \in Ratchets, SoundAt(s, r)
    PROVE  /\ EncryptMessage(s) \in Ratchets
           /\ SoundAt(EncryptMessage(s), r)
           /\ EncryptMessage(s).room.index = s.room.index + 1
           /\ ChainIndexOf(EncryptMessage(s)) = s.room.index
           /\ KeyOf(s.room) \in MessageKey
           /\ KeyOf(s.room) = [root |-> r, pos |-> s.room.index, info |-> s.room.index]
BY DEF EncryptMessage, ChainIndexOf, Advance, Ratchets, RoomRatchet, SoundAt, KeyOf, MessageKey

(* decryptMessage, on ratchets that are sound for room r: it finds the key *)
(* unless the backup is past the message, takes no ratchet further than    *)
(* past the message, and keeps both sound.                                 *)
LEMMA DecryptFinds ==
    ASSUME NEW r \in Room, NEW s \in Ratchets, SoundAt(s, r), NEW i \in Nat
    PROVE  /\ Decrypt(s, i).ratchets \in Ratchets
           /\ SoundAt(Decrypt(s, i).ratchets, r)
           /\ s.room.index <= Decrypt(s, i).ratchets.room.index
           /\ s.backup.index <= Decrypt(s, i).ratchets.backup.index
           /\ i < Decrypt(s, i).ratchets.room.index
           /\ \A k \in Decrypt(s, i).keys : k = [root |-> r, pos |-> i, info |-> i]
           /\ s.backup.index <= i => [root |-> r, pos |-> i, info |-> i] \in Decrypt(s, i).keys
           /\ Decrypt(s, i).ratchets.room.index \in {s.room.index, i + 1}
           /\ s.backup.index <= i => Decrypt(s, i).ratchets.backup.index <= i + 1
           /\ i < s.backup.index => Decrypt(s, i).ratchets.backup = s.backup
<1> USE WindowAssumption
<1>0. /\ s.room \in RoomRatchet /\ s.room.root = r /\ s.room.pos = s.room.index
      /\ s.room.index \in Nat
      /\ s.backup \in RoomRatchet /\ s.backup.root = r /\ s.backup.pos = s.backup.index
      /\ s.backup.index \in Nat
      /\ s.backup.index <= s.room.index
  BY DEF Ratchets, SoundAt, RoomRatchet
<1>1. CASE s.room.index <= i
  <2> DEFINE front == AdvanceTo(s.room, i)
             room == AdvanceTo(s.room, i + 1)
             backup == AdvanceTo(s.backup, i + 2 - Window)
  <2>1. Decrypt(s, i) = [keys |-> {KeyOf(front)},
                         ratchets |-> [room |-> room, backup |-> backup]]
    BY <1>1 DEF Decrypt, ForwardDecrypt
  <2>2. front.root = r /\ front.pos = i /\ front.index = i
    <3>1. i \in Int OBVIOUS
    <3>2. /\ front.root = s.room.root
          /\ front.index = (IF s.room.index < i THEN i ELSE s.room.index)
          /\ front.pos = front.index
      BY <1>0, <3>1, AdvanceToType
    <3> HIDE DEF front
    <3>3. QED BY <1>0, <1>1, <3>2
  <2>3. room \in RoomRatchet /\ room.root = r /\ room.pos = room.index /\ room.index = i + 1
    <3>1. i + 1 \in Int OBVIOUS
    <3>2. /\ room \in RoomRatchet /\ room.root = s.room.root
          /\ room.index = (IF s.room.index < i + 1 THEN i + 1 ELSE s.room.index)
          /\ room.pos = room.index
      BY <1>0, <3>1, AdvanceToType
    <3> HIDE DEF room
    <3>3. QED BY <1>0, <1>1, <3>2
  <2>4. /\ backup \in RoomRatchet /\ backup.root = r /\ backup.pos = backup.index
        /\ backup.index = (IF s.backup.index < i + 2 - Window
                           THEN i + 2 - Window ELSE s.backup.index)
    <3>1. i + 2 - Window \in Int OBVIOUS
    <3>2. QED BY <1>0, <3>1, AdvanceToType
  <2> HIDE DEF front, room, backup
  <2>5. s.backup.index <= backup.index /\ backup.index <= i + 1
    BY <1>0, <1>1, <2>4
  <2>6. KeyOf(front) = [root |-> r, pos |-> i, info |-> i]
    BY <2>2 DEF KeyOf
  <2>7. QED BY <1>0, <1>1, <2>1, <2>3, <2>4, <2>5, <2>6 DEF Ratchets, SoundAt
<1>2. CASE i < s.room.index /\ s.backup.index <= i
  <2> DEFINE found == AdvanceTo(s.backup, i)
             backup == AdvanceTo(s.backup, i + 1)
  <2>1. Decrypt(s, i) = [keys |-> {KeyOf(found)},
                         ratchets |-> [room |-> s.room, backup |-> backup]]
    BY <1>0, <1>2 DEF Decrypt, BackwardDecrypt
  <2>2. found.root = r /\ found.pos = i /\ found.index = i
    <3>1. i \in Int OBVIOUS
    <3>2. /\ found.root = s.backup.root
          /\ found.index = (IF s.backup.index < i THEN i ELSE s.backup.index)
          /\ found.pos = found.index
      BY <1>0, <3>1, AdvanceToType
    <3> HIDE DEF found
    <3>3. QED BY <1>0, <1>2, <3>2
  <2>3. /\ backup \in RoomRatchet /\ backup.root = r /\ backup.pos = backup.index
        /\ backup.index = i + 1
    <3>1. i + 1 \in Int OBVIOUS
    <3>2. /\ backup \in RoomRatchet /\ backup.root = s.backup.root
          /\ backup.index = (IF s.backup.index < i + 1 THEN i + 1 ELSE s.backup.index)
          /\ backup.pos = backup.index
      BY <1>0, <3>1, AdvanceToType
    <3> HIDE DEF backup
    <3>3. QED BY <1>0, <1>2, <3>2
  <2> HIDE DEF found, backup
  <2>4. KeyOf(found) = [root |-> r, pos |-> i, info |-> i]
    BY <2>2 DEF KeyOf
  <2>5. QED BY <1>0, <1>2, <2>1, <2>3, <2>4 DEF Ratchets, SoundAt
<1>3. CASE i < s.room.index /\ i < s.backup.index
  BY <1>0, <1>3 DEF Decrypt, BackwardDecrypt, SoundAt
<1>4. QED BY <1>0, <1>1, <1>2, <1>3

(* decryptMessage, on ratchets that are sound for room r: they stay sound, *)
(* neither goes back, the room ratchet ends past the message, and the only *)
(* key that may come out is the one room r's chain has at that index.      *)
LEMMA DecryptSound ==
    ASSUME NEW r \in Room, NEW s \in Ratchets, SoundAt(s, r), NEW i \in Nat
    PROVE  /\ Decrypt(s, i).ratchets \in Ratchets
           /\ SoundAt(Decrypt(s, i).ratchets, r)
           /\ s.room.index <= Decrypt(s, i).ratchets.room.index
           /\ s.backup.index <= Decrypt(s, i).ratchets.backup.index
           /\ i < Decrypt(s, i).ratchets.room.index
           /\ \A k \in Decrypt(s, i).keys : k = [root |-> r, pos |-> i, info |-> i]
BY DecryptFinds

-----------------------------------------------------------------------------
MessagesLabelled ==
    \A m \in 1..Len(published) :
        published[m].key = [ root |-> published[m].room,
                             pos  |-> published[m].ChainIndex,
                             info |-> published[m].ChainIndex ]

InFlight ==
    \A c \in Client :
        /\ \A m \in Msg : pending[c][m] > 0 => m \in 1..Len(published)
        /\ buffered[c] \subseteq 1..Len(published)

(* A message that is opened and not yet filed is of the current room, or   *)
(* its user has entered another one since.                                 *)
OpenedHere ==
    \A c \in Client, m \in Msg :
        opened[c][m] > 0 =>
            /\ m \in 1..Len(published) /\ cur[c] \in Room
            /\ published[m].room = cur[c] \/ m \in strayed

QueueReadable ==
    \A c \in Client : \A i \in 1..Len(queue[c]) : Known(queue[c][i])

TodoReadable == \A c \in Client : \A row \in todo[c] : Known(row)

JoiningARoom == \A c \in Client : ui[c] # "idle" => cur[c] \in Room

(* The ratchet is past every message whose key it has given.               *)
UsedPassed ==
    \A c \in Client : \A m \in used[c] :
        /\ m \in 1..Len(published)
        /\ published[m].ChainIndex < session[c][published[m].room].room.index

IInv ==
    /\ TypeOK
    /\ RatchetSound
    /\ MessagesLabelled
    /\ InFlight
    /\ OpenedHere
    /\ QueueReadable
    /\ TodoReadable
    /\ RowsReadable
    /\ JoiningARoom
    /\ UsedPassed

-----------------------------------------------------------------------------
(* A ratchet pair replaced by a sound one leaves every pair sound.         *)
LEMMA SessionUpdate ==
    ASSUME session \in [Client -> [Room -> Ratchets]], RatchetSound,
           NEW c \in Client, NEW r \in Room, NEW x \in Ratchets, SoundAt(x, r),
           session' = [session EXCEPT ![c][r] = x]
    PROVE  session' \in [Client -> [Room -> Ratchets]] /\ RatchetSound'
BY DEF RatchetSound

(* What a new process starts from: every ratchet sound at index 0.         *)
LEMMA NewSessionSound ==
    /\ NewSession \in [Room -> Ratchets]
    /\ \A r \in Room : SoundAt(NewSession[r], r)
<1>1. \A r \in Room : /\ SetInitialRatchet(NewRatchet(r)) \in Ratchets
                      /\ SoundAt(SetInitialRatchet(NewRatchet(r)), r)
  BY InitialRatchetSound
<1>2. QED BY <1>1 DEF NewSession

(* The invariant holds when no client has done anything.                   *)
THEOREM InitIInv == Init => IInv
<1> SUFFICES ASSUME Init PROVE IInv OBVIOUS
<1> USE ConstantsAssumption, NewSessionSound DEF Init
<1>1. TypeOK BY DEF TypeOK
<1>2. RatchetSound BY DEF RatchetSound
<1>3. MessagesLabelled /\ InFlight /\ OpenedHere
  BY DEF MessagesLabelled, InFlight, OpenedHere, Msg
<1>4. QueueReadable /\ TodoReadable /\ RowsReadable /\ JoiningARoom /\ UsedPassed
  BY DEF QueueReadable, TodoReadable, RowsReadable, JoiningARoom, UsedPassed
<1>5. QED BY <1>1, <1>2, <1>3, <1>4 DEF IInv

(* What the table's operators return comes from what they were given.      *)
LEMMA TableSubsets ==
    /\ \A stored, new : SaveAll(stored, new) \subseteq stored \cup new
    /\ \A stored, row : Save(stored, row) \subseteq stored \cup {row}
    /\ \A stored, r, n : Oldest(stored, r, n) \subseteq stored
BY DEF SaveAll, Save, Oldest

(* A row of a published message stays one when more are published.         *)
LEMMA KnownPersists ==
    ASSUME published \in Seq(ChatMessage), NEW msg \in ChatMessage,
           published' = Append(published, msg), UNCHANGED strayed,
           NEW row \in Row, Known(row)
    PROVE  Known(row)'
BY DEF Known, ChatMessage, MessageKey, Row

(* A published message is a message, and its number is one of Msg.         *)
LEMMA PublishedType ==
    ASSUME TypeOK, NEW m \in 1..Len(published)
    PROVE  /\ published[m] \in ChatMessage /\ m \in Msg
           /\ published[m].ChainIndex \in Nat /\ published[m].room \in Room
<1>1. published \in Seq(ChatMessage) /\ Len(published) \in 0..MaxMsgs /\ MaxMsgs \in Nat
  BY ConstantsAssumption DEF TypeOK
<1>2. published[m] \in ChatMessage BY <1>1
<1>3. QED BY <1>1, <1>2 DEF ChatMessage, Msg

(* decryptMessage on the current room's ratchets.                          *)
LEMMA CurrentDecrypt ==
    ASSUME TypeOK, RatchetSound, NEW c \in Client, cur[c] \in Room, NEW i \in Nat
    PROVE  /\ Decrypt(session[c][cur[c]], i).ratchets \in Ratchets
           /\ SoundAt(Decrypt(session[c][cur[c]], i).ratchets, cur[c])
           /\ \A k \in Decrypt(session[c][cur[c]], i).keys :
                 k = [root |-> cur[c], pos |-> i, info |-> i]
<1>1. session[c][cur[c]] \in Ratchets /\ SoundAt(session[c][cur[c]], cur[c])
  BY DEF TypeOK, RatchetSound
<1>2. QED BY <1>1, DecryptSound

(* A message that opens under the current room was sent to that room.      *)
LEMMA OpensInItsRoom ==
    ASSUME IInv, NEW c \in Client, cur[c] \in Room, NEW m \in 1..Len(published),
           NEW i \in Nat, published[m].key \in Decrypt(session[c][cur[c]], i).keys
    PROVE  published[m].room = cur[c] /\ published[m].ChainIndex = i
<1>1. published[m].key = [root |-> cur[c], pos |-> i, info |-> i]
  BY CurrentDecrypt DEF IInv
<1>2. published[m].key = [ root |-> published[m].room, pos |-> published[m].ChainIndex,
                           info |-> published[m].ChainIndex ]
  BY DEF IInv, MessagesLabelled
<1>3. QED BY <1>1, <1>2

-----------------------------------------------------------------------------
(* Which way the ratchets of a running process move.                       *)

(* No ratchet of any client goes back.                                     *)
Forward ==
    \A c \in Client, r \in Room :
        /\ session[c][r].room.index <= session'[c][r].room.index
        /\ session[c][r].backup.index <= session'[c][r].backup.index

(* One pair of ratchets replaced by one no further back.                   *)
LEMMA NotBackwards ==
    ASSUME TypeOK, NEW c \in Client, NEW r \in Room, NEW x \in Ratchets,
           session[c][r].room.index <= x.room.index,
           session[c][r].backup.index <= x.backup.index,
           session' = [session EXCEPT ![c][r] = x]
    PROVE  Forward
<1>1. session \in [Client -> [Room -> Ratchets]] BY DEF TypeOK
<1> SUFFICES ASSUME NEW d \in Client, NEW q \in Room
             PROVE  /\ session[d][q].room.index <= session'[d][q].room.index
                    /\ session[d][q].backup.index <= session'[d][q].backup.index
  BY DEF Forward
<1>2. session'[d][q] = IF d = c /\ q = r THEN x ELSE session[d][q]
  BY <1>1
<1>3. session[d][q].room.index \in Nat /\ session[d][q].backup.index \in Nat
  BY <1>1 DEF Ratchets, RoomRatchet
<1>4. QED BY <1>2, <1>3

(* A step that leaves the sessions alone takes no ratchet back.            *)
LEMMA SessionKept ==
    ASSUME TypeOK, UNCHANGED session
    PROVE  Forward
BY DEF TypeOK, Forward, Ratchets, RoomRatchet

(* decryptMessage keeps the pairs sound and takes neither ratchet back,    *)
(* whatever the index.                                                     *)
LEMMA DecryptForward ==
    ASSUME TypeOK, RatchetSound, NEW c \in Client, cur[c] \in Room, NEW i \in Nat,
           session' = [session EXCEPT ![c][cur[c]] =
                         Decrypt(session[c][cur[c]], i).ratchets]
    PROVE  /\ session' \in [Client -> [Room -> Ratchets]] /\ RatchetSound'
           /\ Forward /\ i < session'[c][cur[c]].room.index
<1>1. session[c][cur[c]] \in Ratchets /\ SoundAt(session[c][cur[c]], cur[c])
  BY DEF TypeOK, RatchetSound
<1>2. Forward BY <1>1, DecryptSound, NotBackwards
<1>3. session' \in [Client -> [Room -> Ratchets]] /\ RatchetSound'
  BY <1>1, DecryptSound, SessionUpdate DEF TypeOK
<1>4. session'[c][cur[c]] = Decrypt(session[c][cur[c]], i).ratchets
  BY DEF TypeOK
<1>5. QED BY <1>1, <1>2, <1>3, <1>4, DecryptSound

(* Replaying a row only advances the current room's ratchets.              *)
LEMMA ReplayForward ==
    ASSUME IInv, NEW c \in Client, NEW row \in todo[c],
           ReplayFails(c, row) \/ ReplayShows(c, row)
    PROVE  /\ session' \in [Client -> [Room -> Ratchets]] /\ RatchetSound'
           /\ Forward /\ row.index < session'[c][cur[c]].room.index
<1>1. cur[c] \in Room
  BY DEF IInv, ReplayFails, ReplayShows, Replaying, JoiningARoom, TypeOK
<1>2. row.index \in Nat BY DEF IInv, TypeOK, Row
<1>3. QED
  BY <1>1, <1>2, DecryptForward DEF IInv, ReplayFails, ReplayShows, ReplayDecrypt

(* Receiving a message only advances the current room's ratchets.          *)
LEMMA ReceiveForward ==
    ASSUME IInv, NEW c \in Client, NEW m \in Msg, Deciphered(c, m) \/ Undeciphered(c, m)
    PROVE  /\ session' \in [Client -> [Room -> Ratchets]] /\ RatchetSound'
           /\ Forward /\ published[m].ChainIndex < session'[c][cur[c]].room.index
           /\ cur[c] \in Room /\ m \in 1..Len(published)
           /\ published[m].ChainIndex \in Nat
<1>1. cur[c] \in Room BY DEF IInv, Deciphered, Undeciphered, TypeOK
<1>2. m \in 1..Len(published)
  BY DEF IInv, Deciphered, Undeciphered, Taken, Take, InFlight
<1>3. published[m].ChainIndex \in Nat BY <1>2, PublishedType DEF IInv
<1>4. QED
  BY <1>1, <1>2, <1>3, DecryptForward
  DEF IInv, Deciphered, Undeciphered, ReceiveDecrypt

(* Sending, whether it succeeds or not, takes the current room's ratchet   *)
(* one on, from the index and the key the message is labelled with.        *)
LEMMA SendForward ==
    ASSUME IInv, NEW c \in Client, Send(c) \/ SendFails(c)
    PROVE  LET r == cur[c] IN
           /\ r \in Room
           /\ session' \in [Client -> [Room -> Ratchets]] /\ RatchetSound' /\ Forward
           /\ session[c][r].room.index \in Nat
           /\ session'[c][r].room.index = session[c][r].room.index + 1
           /\ ChainIndexOf(EncryptMessage(session[c][r])) = session[c][r].room.index
           /\ KeyOf(session[c][r].room) \in MessageKey
           /\ KeyOf(session[c][r].room) = [ root |-> r, pos |-> session[c][r].room.index,
                                            info |-> session[c][r].room.index ]
<1> DEFINE r == cur[c]
           x == EncryptMessage(session[c][r])
<1>1. r \in Room BY DEF IInv, Send, SendFails, CanSend, TypeOK
<1>2. session[c][r] \in Ratchets /\ SoundAt(session[c][r], r)
  BY <1>1 DEF IInv, TypeOK, RatchetSound
<1>3. /\ x \in Ratchets /\ SoundAt(x, r)
      /\ x.room.index = session[c][r].room.index + 1
      /\ ChainIndexOf(x) = session[c][r].room.index
      /\ KeyOf(session[c][r].room) \in MessageKey
      /\ KeyOf(session[c][r].room) = [ root |-> r, pos |-> session[c][r].room.index,
                                       info |-> session[c][r].room.index ]
  BY <1>1, <1>2, EncryptSound
<1>4. x.backup = session[c][r].backup BY DEF EncryptMessage
<1>5. session[c][r].room.index \in Nat /\ session[c][r].backup.index \in Nat
  BY <1>2 DEF Ratchets, RoomRatchet
<1>6. session' = [session EXCEPT ![c][r] = x]
  BY DEF Send, SendFails
<1> HIDE DEF x, r
<1>7. Forward
  <2>1. /\ session[c][r].room.index <= x.room.index
        /\ session[c][r].backup.index <= x.backup.index
    BY <1>3, <1>4, <1>5
  <2>2. QED BY <1>1, <1>3, <1>6, <2>1, NotBackwards DEF IInv
<1>8. session' \in [Client -> [Room -> Ratchets]] /\ RatchetSound'
  BY <1>1, <1>3, <1>6, SessionUpdate DEF IInv, TypeOK
<1>9. session'[c][r] = x BY <1>1, <1>6 DEF IInv, TypeOK
<1>10. QED BY <1>1, <1>3, <1>5, <1>7, <1>8, <1>9 DEF x, r

(* Install puts the current room's pair where the room's chain starts.     *)
LEMMA InstallSound ==
    ASSUME IInv, NEW c \in Client, cur[c] \in Room, Install(c), UNCHANGED published
    PROVE  /\ session' \in [Client -> [Room -> Ratchets]] /\ RatchetSound'
           /\ ready' \in [Client -> SUBSET Room] /\ used' \in [Client -> SUBSET Msg]
           /\ ui' = [ui EXCEPT ![c] = "armed"]
           /\ UsedPassed'
<1> USE DEF IInv, Install
<1>1. session' \in [Client -> [Room -> Ratchets]] /\ RatchetSound'
  BY InitialRatchetSound, SessionUpdate DEF TypeOK
<1>2. /\ ready' \in [Client -> SUBSET Room] /\ used' \in [Client -> SUBSET Msg]
      /\ ui' = [ui EXCEPT ![c] = "armed"]
  BY DEF TypeOK
<1>3. UsedPassed'
  <2> SUFFICES ASSUME NEW d \in Client, NEW m \in used'[d]
               PROVE  /\ m \in 1..Len(published)
                      /\ published[m].ChainIndex < session'[d][published[m].room].room.index
    BY DEF UsedPassed
  <2>1. m \in used[d] /\ (d = c => published[m].room # cur[c]) BY DEF TypeOK
  <2>2. m \in 1..Len(published) BY <2>1 DEF UsedPassed
  <2>3. session'[d][published[m].room] = session[d][published[m].room]
    BY <2>1, <2>2, PublishedType DEF TypeOK
  <2>4. QED BY <2>1, <2>3 DEF UsedPassed
<1>4. QED BY <1>1, <1>2, <1>3

-----------------------------------------------------------------------------
(* What a step that leaves some variables alone keeps of the invariant.    *)

(* The table, the queue before it and the rows about to be replayed.       *)
LEMMA RowsKept ==
    ASSUME IInv, UNCHANGED <<rows, queue, todo, published, strayed>>
    PROVE  MessagesLabelled' /\ QueueReadable' /\ TodoReadable' /\ RowsReadable'
BY DEF IInv, MessagesLabelled, QueueReadable, TodoReadable, RowsReadable, Known

(* The messages on their way to the table.                                 *)
LEMMA FlightKept ==
    ASSUME IInv, UNCHANGED <<pending, buffered, opened, cur, published, strayed>>
    PROVE  InFlight' /\ OpenedHere'
BY DEF IInv, InFlight, OpenedHere

(* The messages whose keys are taken, while no ratchet goes back.          *)
LEMMA UsedKept ==
    ASSUME IInv, Forward, UNCHANGED <<used, published>>,
           session' \in [Client -> [Room -> Ratchets]]
    PROVE  UsedPassed'
<1> SUFFICES ASSUME NEW d \in Client, NEW m \in used[d]
             PROVE  /\ m \in 1..Len(published)
                    /\ published[m].ChainIndex < session'[d][published[m].room].room.index
  BY DEF UsedPassed
<1>1. /\ m \in 1..Len(published)
      /\ published[m].ChainIndex < session[d][published[m].room].room.index
  BY DEF IInv, UsedPassed
<1>2. published[m].ChainIndex \in Nat /\ published[m].room \in Room
  BY <1>1, PublishedType DEF IInv
<1>3. /\ session[d][published[m].room].room.index \in Nat
      /\ session'[d][published[m].room].room.index \in Nat
  BY <1>2 DEF IInv, TypeOK, Ratchets, RoomRatchet
<1>4. QED BY <1>1, <1>2, <1>3 DEF Forward

(* One more message is taken, which the ratchet has passed.                *)
LEMMA UsedGrows ==
    ASSUME IInv, Forward, UNCHANGED published,
           session' \in [Client -> [Room -> Ratchets]],
           NEW c \in Client, NEW m \in 1..Len(published),
           used' = [used EXCEPT ![c] = @ \cup {m}],
           published[m].ChainIndex < session'[c][published[m].room].room.index
    PROVE  used' \in [Client -> SUBSET Msg] /\ UsedPassed'
<1>1. m \in Msg /\ used \in [Client -> SUBSET Msg] BY PublishedType DEF IInv, TypeOK
<1>2. SUFFICES ASSUME NEW d \in Client, NEW n \in used'[d]
               PROVE  /\ n \in 1..Len(published)
                      /\ published[n].ChainIndex < session'[d][published[n].room].room.index
  BY <1>1 DEF UsedPassed
<1>3. CASE d = c /\ n = m BY <1>3
<1>4. CASE ~(d = c /\ n = m)
  <2>1. n \in used[d] BY <1>1, <1>4
  <2>2. /\ n \in 1..Len(published)
        /\ published[n].ChainIndex < session[d][published[n].room].room.index
    BY <2>1 DEF IInv, UsedPassed
  <2>3. published[n].ChainIndex \in Nat /\ published[n].room \in Room
    BY <2>2, PublishedType DEF IInv
  <2>4. /\ session[d][published[n].room].room.index \in Nat
        /\ session'[d][published[n].room].room.index \in Nat
    BY <2>3 DEF IInv, TypeOK, Ratchets, RoomRatchet
  <2>5. QED BY <2>2, <2>3, <2>4 DEF Forward
<1>5. QED BY <1>3, <1>4

(* The ratchets altogether.                                                *)
LEMMA RatchetsKept ==
    ASSUME IInv, UNCHANGED <<session, used, published>>
    PROVE  RatchetSound' /\ UsedPassed'
BY DEF IInv, RatchetSound, UsedPassed

-----------------------------------------------------------------------------
(* One lemma for each action.                                              *)

(* Exits and panics: what a process keeps is its table alone.              *)
LEMMA StopIInv ==
    ASSUME IInv, NEW c \in Client, NEW how \in {"exited", "panicked"}, Stop(c, how)
    PROVE  IInv'
<1> USE DEF IInv, Stop, past
<1>1. TypeOK' BY NewSessionSound DEF TypeOK
<1>2. RatchetSound' BY NewSessionSound DEF RatchetSound, TypeOK
<1>3. MessagesLabelled' BY DEF MessagesLabelled
<1>4. InFlight' BY DEF InFlight, TypeOK
<1>5. OpenedHere' BY DEF OpenedHere, TypeOK
<1>6. QueueReadable' BY DEF QueueReadable, TypeOK, Known
<1>7. TodoReadable' BY DEF TodoReadable, TypeOK, Known
<1>8. RowsReadable' BY DEF RowsReadable, TypeOK, Known
<1>9. JoiningARoom' BY DEF JoiningARoom, TypeOK
<1>10. UsedPassed' BY DEF UsedPassed, TypeOK
<1>11. QED BY <1>1, <1>2, <1>3, <1>4, <1>5, <1>6, <1>7, <1>8, <1>9, <1>10

(* A restarted process has the memory Stop left: none.                     *)
LEMMA RestartIInv ==
    ASSUME IInv, NEW c \in Client, Restart(c)
    PROVE  IInv'
<1> USE DEF Restart, memory, receiving
<1>1. TypeOK' BY DEF IInv, TypeOK, Fault
<1>2. JoiningARoom' BY DEF IInv, JoiningARoom
<1>3. QED BY <1>1, <1>2, RowsKept, FlightKept, RatchetsKept DEF IInv

(* requestJoinRoom moves the current room; the messages that goroutines    *)
(* have in their hands stray.                                              *)
LEMMA EnterIInv ==
    ASSUME IInv, NEW c \in Client, NEW r \in plan.visits[c], Enter(c, r)
    PROVE  IInv'
<1> USE DEF IInv, Enter, receiving
<1>0. r \in Room BY ConstantsAssumption DEF TypeOK
<1>1. strayed \subseteq strayed' /\ strayed' \subseteq Msg
  BY PublishedType DEF TypeOK
<1>2. TypeOK' BY <1>0, <1>1 DEF TypeOK
<1>3. RatchetSound' /\ UsedPassed' BY RatchetsKept
<1>4. MessagesLabelled' BY DEF MessagesLabelled
<1>5. InFlight' BY DEF InFlight
<1>6. OpenedHere'
  <2> SUFFICES ASSUME NEW d \in Client, NEW m \in Msg, opened[d][m] > 0
               PROVE  /\ m \in 1..Len(published) /\ cur'[d] \in Room
                      /\ published[m].room = cur'[d] \/ m \in strayed'
    BY DEF OpenedHere
  <2>1. /\ m \in 1..Len(published) /\ cur[d] \in Room
        /\ published[m].room = cur[d] \/ m \in strayed
    BY DEF OpenedHere
  <2>2. CASE d = c BY <1>0, <2>1, <2>2 DEF TypeOK
  <2>3. CASE d # c BY <1>1, <2>1, <2>3 DEF TypeOK
  <2>4. QED BY <2>2, <2>3
<1> HIDE DEF Enter
<1>7. UNCHANGED <<rows, queue, todo, published>> BY DEF Enter
<1>8. QueueReadable' /\ TodoReadable' /\ RowsReadable'
  BY <1>1, <1>7 DEF QueueReadable, TodoReadable, RowsReadable, Known
<1>9. JoiningARoom' BY <1>0 DEF Enter, JoiningARoom, TypeOK
<1>10. QED BY <1>2, <1>3, <1>4, <1>5, <1>6, <1>8, <1>9

(* The creator installs its own room's ratchet.                            *)
LEMMA ArmFromAuthIInv ==
    ASSUME IInv, NEW c \in Client, ArmFromAuth(c)
    PROVE  IInv'
<1> USE DEF ArmFromAuth, receiving, past
<1>1. cur[c] \in Room BY DEF IInv, JoiningARoom, TypeOK
<1>2. /\ session' \in [Client -> [Room -> Ratchets]] /\ RatchetSound'
      /\ ready' \in [Client -> SUBSET Room] /\ used' \in [Client -> SUBSET Msg]
      /\ ui' = [ui EXCEPT ![c] = "armed"] /\ UsedPassed'
  BY <1>1, InstallSound
<1>3. TypeOK' BY <1>2 DEF IInv, TypeOK
<1>4. JoiningARoom' BY <1>1, <1>2 DEF IInv, JoiningARoom, TypeOK
<1>5. QED BY <1>2, <1>3, <1>4, RowsKept, FlightKept DEF IInv

(* What a catch-up stores is what some client had stored.                  *)
LEMMA CatchUpReadable ==
    ASSUME IInv, NEW c \in Client, cur[c] \in Room, NEW some, some \subseteq CatchUpRows(c),
           rows' = [rows EXCEPT ![c] = SaveAll(@, some)],
           UNCHANGED <<queue, todo, published, strayed>>
    PROVE  /\ rows' \in [Client -> SUBSET Row]
           /\ MessagesLabelled' /\ QueueReadable' /\ TodoReadable' /\ RowsReadable'
<1> USE DEF IInv
<1>1. CatchUpRows(c) \subseteq rows[Creator[cur[c]]] /\ Creator[cur[c]] \in Client
  BY TableSubsets, ConstantsAssumption DEF CatchUpRows
<1>2. rows' \in [Client -> SUBSET Row] BY <1>1, TableSubsets DEF TypeOK
<1>3. \A d \in Client : \A row \in rows'[d] : \E e \in Client : row \in rows[e]
  BY <1>1, TableSubsets DEF TypeOK
<1>4. RowsReadable' BY <1>3 DEF RowsReadable, Known
<1>5. MessagesLabelled' /\ QueueReadable' /\ TodoReadable'
  BY DEF MessagesLabelled, QueueReadable, TodoReadable, Known
<1>6. QED BY <1>2, <1>4, <1>5

(* A catch-up copies readable rows and installs the room's ratchet.        *)
LEMMA ArmFromCatchUpIInv ==
    ASSUME IInv, NEW c \in Client, ArmFromCatchUp(c)
    PROVE  IInv'
<1> USE DEF ArmFromCatchUp, CanCatchUp, receiving, past
<1>1. cur[c] \in Room BY DEF IInv, JoiningARoom, TypeOK
<1>2. /\ session' \in [Client -> [Room -> Ratchets]] /\ RatchetSound'
      /\ ready' \in [Client -> SUBSET Room] /\ used' \in [Client -> SUBSET Msg]
      /\ ui' = [ui EXCEPT ![c] = "armed"] /\ UsedPassed'
  BY <1>1, InstallSound
<1>3. /\ rows' \in [Client -> SUBSET Row]
      /\ MessagesLabelled' /\ QueueReadable' /\ TodoReadable' /\ RowsReadable'
  BY <1>1, CatchUpReadable
<1>4. TypeOK' BY <1>1, <1>2, <1>3 DEF IInv, TypeOK
<1>5. JoiningARoom' BY <1>1, <1>2 DEF IInv, JoiningARoom, TypeOK
<1>6. QED BY <1>2, <1>3, <1>4, <1>5, FlightKept DEF IInv

(* A catch-up that stops half-way has saved readable rows.                 *)
LEMMA CatchUpRejectedIInv ==
    ASSUME IInv, NEW c \in Client, CatchUpRejected(c)
    PROVE  IInv'
<1> USE DEF CatchUpRejected, CanCatchUp, receiving, past
<1>1. cur[c] \in Room BY DEF IInv, JoiningARoom, TypeOK
<1>2. /\ rows' \in [Client -> SUBSET Row]
      /\ MessagesLabelled' /\ QueueReadable' /\ TodoReadable' /\ RowsReadable'
  <2> DEFINE some == { x \in CatchUpRows(c) :
                         \A y \in OwnRows(c, CatchUpRows(c)) : x.index < y.index }
  <2>1. /\ some \subseteq CatchUpRows(c)
        /\ rows' = [rows EXCEPT ![c] = SaveAll(@, some)]
        /\ UNCHANGED <<queue, todo, published, strayed>>
    OBVIOUS
  <2> HIDE DEF some, CatchUpRejected
  <2>2. QED BY <1>1, <2>1, CatchUpReadable
<1>3. TypeOK' BY <1>1, <1>2 DEF IInv, TypeOK
<1>4. JoiningARoom' BY DEF IInv, JoiningARoom, TypeOK
<1>5. QED BY <1>2, <1>3, <1>4, FlightKept, RatchetsKept DEF IInv

(* A failed join leaves ratchets, rows and goroutines alone.               *)
LEMMA JoinErrorIInv ==
    ASSUME IInv, NEW c \in Client, JoinError(c)
    PROVE  IInv'
<1> USE DEF JoinError, receiving, past
<1>1. asked' \in [Client -> SUBSET Room] BY DEF IInv, TypeOK, JoiningARoom
<1>2. TypeOK' BY <1>1 DEF IInv, TypeOK
<1>3. JoiningARoom' BY DEF IInv, JoiningARoom, TypeOK
<1>4. QED BY <1>2, <1>3, RowsKept, FlightKept, RatchetsKept DEF IInv

(* The rows about to be replayed are rows of the table.                    *)
LEMMA SubscribeIInv ==
    ASSUME IInv, NEW c \in Client, Subscribe(c)
    PROVE  IInv'
<1> USE DEF Subscribe, receiving, past
<1>0. Oldest(rows[c], cur[c], LoadLimit) \subseteq rows[c] BY TableSubsets
<1>1. TypeOK' BY <1>0 DEF IInv, TypeOK, JoiningARoom
<1>2. JoiningARoom' BY DEF IInv, JoiningARoom, TypeOK
<1>3. TodoReadable' BY <1>0 DEF IInv, TodoReadable, RowsReadable, TypeOK, Known
<1>4. MessagesLabelled' /\ QueueReadable' /\ RowsReadable'
  BY DEF IInv, MessagesLabelled, QueueReadable, RowsReadable, Known
<1>5. QED BY <1>1, <1>2, <1>3, <1>4, FlightKept, RatchetsKept DEF IInv

(* A join that fails to subscribe leaves the ratchet it has installed.     *)
LEMMA SubscribeFailsIInv ==
    ASSUME IInv, NEW c \in Client, SubscribeFails(c)
    PROVE  IInv'
<1> USE DEF SubscribeFails, receiving
<1>1. topics' \in [Client -> SUBSET Room]
  <2>1. cur[c] \in Room BY DEF IInv, TypeOK, JoiningARoom
  <2>2. topics \in [Client -> SUBSET Room] BY DEF IInv, TypeOK
  <2>3. topics' = topics \/ topics' = [topics EXCEPT ![c] = @ \cup {cur[c]}]
    OBVIOUS
  <2>4. QED BY <2>1, <2>2, <2>3
<1>2. TypeOK'
  <2>1. faults' \in [Client -> Nat] /\ plan' \in Plans BY DEF IInv, TypeOK, Fault
  <2>2. QED BY <1>1, <2>1 DEF IInv, TypeOK
<1>3. JoiningARoom' BY DEF IInv, JoiningARoom, TypeOK
<1>4. QED BY <1>2, <1>3, RowsKept, FlightKept, RatchetsKept DEF IInv

(* A row that does not open moves the current room's ratchets soundly.     *)
LEMMA ReplayFailsIInv ==
    ASSUME IInv, NEW c \in Client, NEW row \in todo[c], ReplayFails(c, row)
    PROVE  IInv'
<1>1. session' \in [Client -> [Room -> Ratchets]] /\ RatchetSound' /\ Forward
  BY ReplayForward
<1> USE DEF ReplayFails, past
<1>2. UsedPassed' BY <1>1, UsedKept
<1>3. TypeOK' BY <1>1 DEF IInv, TypeOK
<1>4. InFlight' /\ OpenedHere' BY DEF IInv, InFlight, OpenedHere, TypeOK
<1>5. TodoReadable' BY DEF IInv, TodoReadable, TypeOK, Known
<1>6. MessagesLabelled' /\ QueueReadable' /\ RowsReadable'
  BY DEF IInv, MessagesLabelled, QueueReadable, RowsReadable, Known
<1>7. JoiningARoom' BY DEF IInv, JoiningARoom, TypeOK
<1>8. QED BY <1>1, <1>2, <1>3, <1>4, <1>5, <1>6, <1>7 DEF IInv

(* A row that opens is a message of the current room, and is passed.       *)
LEMMA ReplayShowsIInv ==
    ASSUME IInv, NEW c \in Client, NEW row \in todo[c], ReplayShows(c, row)
    PROVE  IInv'
<1>1. /\ session' \in [Client -> [Room -> Ratchets]] /\ RatchetSound' /\ Forward
      /\ row.index < session'[c][cur[c]].room.index
  BY ReplayForward
<1>2. row \in Row /\ Known(row) BY DEF IInv, TypeOK, TodoReadable
<1>3. row.index \in Nat /\ row.msg \in 1..Len(published) BY <1>2 DEF Row, Known
<1>4. cur[c] \in Room BY DEF IInv, ReplayShows, Replaying, JoiningARoom, TypeOK
<1>5. published[row.msg].room = cur[c] /\ published[row.msg].ChainIndex = row.index
  BY <1>3, <1>4, OpensInItsRoom DEF ReplayShows, ReplayOpens, ReplayDecrypt
<1> USE DEF ReplayShows, past
<1>6. used' \in [Client -> SUBSET Msg] /\ UsedPassed'
  BY <1>1, <1>3, <1>5, UsedGrows
<1>7. TypeOK'
  <2>1. row.msg \in Msg BY <1>3, PublishedType DEF IInv
  <2>2. lines' \in [Client -> SUBSET Msg] BY <2>1 DEF IInv, TypeOK
  <2>3. QED BY <1>1, <1>6, <2>2 DEF IInv, TypeOK
<1>8. TodoReadable' BY DEF IInv, TodoReadable, TypeOK, Known
<1>9. MessagesLabelled' /\ QueueReadable' /\ RowsReadable'
  BY DEF IInv, MessagesLabelled, QueueReadable, RowsReadable, Known
<1>10. JoiningARoom' BY DEF IInv, JoiningARoom, TypeOK
<1>11. QED BY <1>1, <1>6, <1>7, <1>8, <1>9, <1>10, FlightKept DEF IInv

(* What a new goroutine finds buffered has been published.                 *)
LEMMA StartLoopIInv ==
    ASSUME IInv, NEW c \in Client, StartLoop(c)
    PROVE  IInv'
<1> USE DEF StartLoop, past
<1>1. pending' \in [Client -> [Msg -> Nat]]
  <2>1. pending[c] \in [Msg -> Nat] BY DEF IInv, TypeOK
  <2>2. [m \in Msg |-> IF m \in buffered[c] THEN pending[c][m] + 1 ELSE pending[c][m]]
            \in [Msg -> Nat]
    BY <2>1
  <2>3. QED BY <2>2 DEF IInv, TypeOK
<1>2. loops' \in [Client -> [Room -> Nat]] /\ idle' \in [Client -> [Room -> Nat]]
  BY DEF IInv, TypeOK, JoiningARoom
<1>3. TypeOK' BY <1>1, <1>2 DEF IInv, TypeOK
<1>4. InFlight' BY DEF IInv, InFlight, TypeOK
<1>5. OpenedHere' BY DEF IInv, OpenedHere
<1>6. JoiningARoom' BY DEF IInv, JoiningARoom, TypeOK
<1>7. QED BY <1>3, <1>4, <1>5, <1>6, RowsKept, RatchetsKept DEF IInv

(* A row that is put in the queue, if there is a place, is a known one.    *)
LEMMA EnqueueReadable ==
    ASSUME queue \in [Client -> Seq(Row)], QueueReadable,
           NEW c \in Client, NEW row \in Row, Enqueue(c, row), Known(row)',
           \A x \in Row : Known(x) => Known(x)'
    PROVE  queue' \in [Client -> Seq(Row)] /\ QueueReadable'
<1>1. queue' \in [Client -> Seq(Row)] BY DEF Enqueue
<1>2. ASSUME NEW d \in Client, NEW i \in 1..Len(queue'[d])
      PROVE  \/ i \in 1..Len(queue[d]) /\ queue'[d][i] = queue[d][i]
             \/ queue'[d][i] = row
  <2>1. /\ queue[d] \in Seq(Row)
        /\ queue'[d] = queue[d] \/ queue'[d] = Append(queue[d], row)
    BY DEF Enqueue
  <2>2. QED BY <2>1
<1>3. \A d \in Client : \A i \in 1..Len(queue[d]) :
         queue[d][i] \in Row /\ Known(queue[d][i])
  BY DEF QueueReadable
<1>4. ASSUME NEW d \in Client, NEW i \in 1..Len(queue'[d])
      PROVE  \E x \in Row : queue'[d][i] = x /\ Known(x)'
  BY <1>2, <1>3
<1>5. ASSUME NEW d \in Client, NEW i \in 1..Len(queue'[d])
      PROVE  Known(queue[d][i])'
  <2>1. PICK x \in Row : queue'[d][i] = x /\ Known(x)' BY <1>4
  <2>2. QED BY <2>1 DEF Known
<1>6. QED BY <1>1, <1>5 DEF QueueReadable

(* A message is labelled with the index of its key, and so is its queued row.*)
LEMMA SendIInv ==
    ASSUME IInv, NEW c \in Client, Send(c)
    PROVE  IInv'
<1> USE ConstantsAssumption
<1> DEFINE r == cur[c]
           q == session[c][r].room
           i == ChainIndexOf(EncryptMessage(session[c][r]))
           n == Len(published) + 1
           msg == [room |-> r, sender |-> c, ChainIndex |-> i, key |-> KeyOf(q)]
<1>0. PICK row : row = [room |-> r, index |-> i, msg |-> n] OBVIOUS
<1>1. /\ r \in Room
      /\ session' \in [Client -> [Room -> Ratchets]] /\ RatchetSound' /\ Forward
      /\ q.index \in Nat /\ session'[c][r].room.index = q.index + 1
      /\ i = q.index /\ KeyOf(q) \in MessageKey
      /\ KeyOf(q) = [root |-> r, pos |-> q.index, info |-> q.index]
  BY SendForward
<1>2. /\ published' = Append(published, msg) /\ published \in Seq(ChatMessage)
      /\ n \in Msg /\ Enqueue(c, row) /\ used' = [used EXCEPT ![c] = @ \cup {n}]
      /\ pending' = [d \in Client |-> [pending[d] EXCEPT ![n] = @ + loops[d][r]]]
      /\ buffered' = [d \in Client |-> IF ui[d] = "replaying" /\ cur[d] = r
                                       THEN buffered[d] \cup {n} ELSE buffered[d]]
  BY <1>0 DEF Send, Publish, IInv, TypeOK
<1>3. UNCHANGED <<proc, ui, todo, cur, ready, topics, asked, loops, idle, opened,
                  drawing, lines, screen, rows, strayed, plan, faults>>
  BY DEF Send
<1>4. msg \in ChatMessage /\ row \in Row BY <1>0, <1>1, <1>2 DEF ChatMessage, Row
<1>5. msg.room = r /\ msg.ChainIndex = i /\ msg.key = KeyOf(q)
      /\ row.room = r /\ row.index = i /\ row.msg = n
  BY <1>0
<1>6. Len(published) \in Nat /\ Len(published) < MaxMsgs /\ MaxMsgs \in Nat
  BY <1>2 DEF Msg
<1> HIDE DEF msg, i, q
<1>7. /\ published' \in Seq(ChatMessage) /\ Len(published') = n
      /\ \A m \in 1..Len(published) : published'[m] = published[m]
      /\ published'[n] = msg
  BY <1>2, <1>4
<1>8. 1..Len(published') = 1..Len(published) \cup {n} BY <1>6, <1>7
<1> HIDE DEF r
<1>9. pending' \in [Client -> [Msg -> Nat]] /\ buffered' \in [Client -> SUBSET Msg]
  <2>1. /\ pending \in [Client -> [Msg -> Nat]] /\ buffered \in [Client -> SUBSET Msg]
        /\ loops \in [Client -> [Room -> Nat]]
    BY DEF IInv, TypeOK
  <2>2. \A d \in Client : [pending[d] EXCEPT ![n] = @ + loops[d][r]] \in [Msg -> Nat]
    BY <1>1, <1>2, <2>1
  <2>3. QED BY <1>2, <2>1, <2>2
<1>10. \A x \in Row : Known(x) => Known(x)'
  BY <1>2, <1>3, <1>4, KnownPersists
<1>11. Known(row)' BY <1>1, <1>5, <1>7, <1>8 DEF Known
<1>12. queue' \in [Client -> Seq(Row)] /\ QueueReadable'
  BY <1>2, <1>4, <1>10, <1>11, EnqueueReadable DEF IInv, TypeOK
<1>13. TypeOK'
  <2>1. used' \in [Client -> SUBSET Msg] BY <1>2 DEF IInv, TypeOK
  <2>2. Len(published') \in 0..MaxMsgs BY <1>6, <1>7
  <2>3. QED BY <1>1, <1>3, <1>7, <1>9, <1>12, <2>1, <2>2 DEF IInv, TypeOK
<1>14. MessagesLabelled'
  BY <1>1, <1>5, <1>7, <1>8 DEF IInv, MessagesLabelled
<1>15. InFlight'
  <2>1. \A d \in Client : /\ buffered'[d] \subseteq buffered[d] \cup {n}
                          /\ \A m \in Msg : pending'[d][m] > 0 => pending[d][m] > 0 \/ m = n
    BY <1>2 DEF IInv, TypeOK
  <2>2. QED BY <1>8, <2>1 DEF IInv, InFlight
<1>16. OpenedHere' BY <1>3, <1>7, <1>8 DEF IInv, OpenedHere
<1>17. TodoReadable' /\ RowsReadable'
  BY <1>3, <1>10 DEF IInv, TypeOK, TodoReadable, RowsReadable
<1>18. JoiningARoom' BY <1>3 DEF IInv, JoiningARoom
<1>19. UsedPassed'
  <2> SUFFICES ASSUME NEW d \in Client, NEW m \in used'[d]
               PROVE  /\ m \in 1..Len(published')
                      /\ published'[m].ChainIndex
                            < session'[d][published'[m].room].room.index
    BY DEF UsedPassed
  <2>1. CASE m \in used[d]
    <3>1. /\ m \in 1..Len(published)
          /\ published[m].ChainIndex < session[d][published[m].room].room.index
      BY <2>1 DEF IInv, UsedPassed
    <3>2. published[m].ChainIndex \in Nat /\ published[m].room \in Room
      BY <3>1, PublishedType DEF IInv
    <3>3. /\ session[d][published[m].room] \in Ratchets
          /\ session'[d][published[m].room] \in Ratchets
      <4>1. session \in [Client -> [Room -> Ratchets]] BY DEF IInv, TypeOK
      <4>2. QED BY <1>1, <3>2, <4>1
    <3>4. /\ session[d][published[m].room].room.index \in Nat
          /\ session'[d][published[m].room].room.index \in Nat
      BY <3>3 DEF Ratchets, RoomRatchet
    <3>5. session[d][published[m].room].room.index
             <= session'[d][published[m].room].room.index
      BY <1>1, <3>2 DEF Forward
    <3>6. published[m].ChainIndex < session'[d][published[m].room].room.index
      BY <3>1, <3>2, <3>4, <3>5
    <3>7. published'[m] = published[m] BY <1>7, <3>1
    <3>8. QED BY <1>8, <3>1, <3>6, <3>7
  <2>2. CASE m \notin used[d]
    <3>1. d = c /\ m = n BY <1>2, <2>2 DEF IInv, TypeOK
    <3>2. QED BY <1>1, <1>5, <1>7, <1>8, <3>1
  <2>3. QED BY <2>1, <2>2
<1>20. QED
  BY <1>1, <1>12, <1>13, <1>14, <1>15, <1>16, <1>17, <1>18, <1>19 DEF IInv

(* A message that is not sent has moved the ratchet.                       *)
LEMMA SendFailsIInv ==
    ASSUME IInv, NEW c \in Client, SendFails(c)
    PROVE  IInv'
<1>1. session' \in [Client -> [Room -> Ratchets]] /\ RatchetSound' /\ Forward
  BY SendForward
<1> USE DEF SendFails, receiving
<1>2. UsedPassed' BY <1>1, UsedKept
<1>3. TypeOK' BY <1>1 DEF IInv, TypeOK, Fault
<1>4. JoiningARoom' BY DEF IInv, JoiningARoom
<1>5. QED BY <1>1, <1>2, <1>3, <1>4, RowsKept, FlightKept DEF IInv

(* A message that opens under the current room's ratchets was sent in that *)
(* room, and is passed.                                                    *)
LEMMA DecipheredIInv ==
    ASSUME IInv, NEW c \in Client, NEW m \in Msg, Deciphered(c, m)
    PROVE  IInv'
<1>1. /\ session' \in [Client -> [Room -> Ratchets]] /\ RatchetSound' /\ Forward
      /\ published[m].ChainIndex < session'[c][cur[c]].room.index
      /\ cur[c] \in Room /\ m \in 1..Len(published) /\ published[m].ChainIndex \in Nat
  BY ReceiveForward
<1>2. published[m].room = cur[c]
  BY <1>1, OpensInItsRoom DEF Deciphered, ReceiveOpens, ReceiveDecrypt
<1> USE DEF Deciphered, Taken, Take, past
<1>3. used' \in [Client -> SUBSET Msg] /\ UsedPassed'
  BY <1>1, <1>2, UsedGrows
<1>4. /\ pending' \in [Client -> [Msg -> Nat]] /\ opened' \in [Client -> [Msg -> Nat]]
      /\ \A d \in Client, n \in Msg : pending'[d][n] > 0 => pending[d][n] > 0
      /\ \A d \in Client, n \in Msg : opened'[d][n] > 0 =>
            opened[d][n] > 0 \/ (d = c /\ n = m)
  BY DEF IInv, TypeOK
<1>5. idle' \in [Client -> [Room -> Nat]] BY <1>1, <1>2 DEF IInv, TypeOK
<1>6. TypeOK' BY <1>1, <1>3, <1>4, <1>5 DEF IInv, TypeOK
<1>7. InFlight' BY <1>4 DEF IInv, InFlight
<1>8. OpenedHere' BY <1>1, <1>2, <1>4 DEF IInv, OpenedHere
<1>9. JoiningARoom' BY DEF IInv, JoiningARoom
<1>10. QED BY <1>1, <1>3, <1>6, <1>7, <1>8, <1>9, RowsKept DEF IInv

(* A message that does not open still moves the ratchets soundly.          *)
LEMMA UndecipheredIInv ==
    ASSUME IInv, NEW c \in Client, NEW m \in Msg, Undeciphered(c, m)
    PROVE  IInv'
<1>1. session' \in [Client -> [Room -> Ratchets]] /\ RatchetSound' /\ Forward
  BY ReceiveForward
<1> USE DEF Undeciphered, Taken, Take, past
<1>2. UsedPassed' BY <1>1, UsedKept
<1>3. /\ pending' \in [Client -> [Msg -> Nat]]
      /\ \A d \in Client, n \in Msg : pending'[d][n] > 0 => pending[d][n] > 0
  BY DEF IInv, TypeOK
<1>4. TypeOK' BY <1>1, <1>3 DEF IInv, TypeOK
<1>5. InFlight' BY <1>3 DEF IInv, InFlight
<1>6. OpenedHere' BY DEF IInv, OpenedHere
<1>7. JoiningARoom' BY DEF IInv, JoiningARoom
<1>8. QED BY <1>1, <1>2, <1>4, <1>5, <1>6, <1>7, RowsKept DEF IInv

(* A message is filed under the room it was opened in unless it strayed.   *)
LEMMA FilesIInv ==
    ASSUME IInv, NEW c \in Client, NEW m \in Msg, Files(c, m)
    PROVE  IInv'
<1>0. PICK row : row = [room |-> cur[c], index |-> published[m].ChainIndex, msg |-> m]
  OBVIOUS
<1>1. /\ m \in 1..Len(published) /\ cur[c] \in Room
      /\ published[m].room = cur[c] \/ m \in strayed
  BY DEF Files, IInv, OpenedHere
<1>2. published[m].ChainIndex \in Nat BY <1>1, PublishedType DEF IInv
<1>3. row \in Row BY <1>0, <1>1, <1>2 DEF Row
<1>4. UNCHANGED <<rows, todo, published, strayed>> BY DEF Files, past
<1>5. Known(row)' BY <1>0, <1>1, <1>4 DEF IInv, MessagesLabelled, Known
<1>6. Enqueue(c, row) BY <1>0 DEF Files
<1>7. \A x \in Row : Known(x) => Known(x)' BY <1>4 DEF Known
<1>8. queue' \in [Client -> Seq(Row)] /\ QueueReadable'
  BY <1>3, <1>5, <1>6, <1>7, EnqueueReadable DEF IInv, TypeOK
<1> USE DEF Files, past
<1>9. /\ opened' \in [Client -> [Msg -> Nat]] /\ drawing' \in [Client -> [Msg -> Nat]]
      /\ \A d \in Client, n \in Msg : opened'[d][n] > 0 => opened[d][n] > 0
  BY DEF IInv, TypeOK
<1>10. TypeOK' BY <1>8, <1>9 DEF IInv, TypeOK
<1>11. InFlight' BY DEF IInv, InFlight
<1>12. OpenedHere' BY <1>9 DEF IInv, OpenedHere
<1>13. MessagesLabelled' /\ TodoReadable' /\ RowsReadable'
  BY DEF IInv, MessagesLabelled, TodoReadable, RowsReadable, Known
<1>14. JoiningARoom' BY DEF IInv, JoiningARoom
<1>15. QED
  BY <1>8, <1>10, <1>11, <1>12, <1>13, <1>14, RatchetsKept DEF IInv

(* The screen gets a line, and a goroutine is free again.                  *)
LEMMA DrawsIInv ==
    ASSUME IInv, NEW c \in Client, NEW m \in Msg, Draws(c, m) \/ DisplayMessage(c, m)
    PROVE  IInv'
<1> USE DEF past
<1>1. UNCHANGED <<rows, queue, todo, published, strayed, pending, buffered, opened,
                  cur, session, used, ui>>
  BY DEF Draws, DisplayMessage
<1>2. TypeOK'
  <2>1. CASE Draws(c, m)
    <3>1. /\ drawing \in [Client -> [Msg -> Nat]] /\ idle \in [Client -> [Room -> Nat]]
          /\ screen \in [Client -> SUBSET Msg]
          /\ drawing' = [drawing EXCEPT ![c][m] = @ - 1] /\ drawing[c][m] > 0
          /\ idle' = [idle EXCEPT ![c][published[m].room] = @ + 1]
          /\ screen' = [screen EXCEPT ![c] = @ \cup {m}]
      BY <2>1 DEF Draws, IInv, TypeOK
    <3>2. drawing' \in [Client -> [Msg -> Nat]] /\ screen' \in [Client -> SUBSET Msg]
      BY <3>1
    <3>3. [idle[c] EXCEPT ![published[m].room] = @ + 1] \in [Room -> Nat]
      <4>1. ASSUME NEW f \in [Room -> Nat], NEW r
            PROVE  [f EXCEPT ![r] = @ + 1] \in [Room -> Nat]
        <5>1. CASE r \in Room BY <5>1
        <5>2. CASE r \notin Room
          <6>1. \A q \in Room : [f EXCEPT ![r] = @ + 1][q] = f[q] BY <5>2
          <6>2. QED BY <6>1
        <5>3. QED BY <5>1, <5>2
      <4>2. idle[c] \in [Room -> Nat] BY <3>1
      <4> HIDE DEF past
      <4>3. QED BY <4>1, <4>2
    <3>4. idle' \in [Client -> [Room -> Nat]] BY <3>1, <3>3
    <3>5. QED BY <1>1, <2>1, <3>2, <3>4 DEF Draws, IInv, TypeOK
  <2>2. CASE DisplayMessage(c, m) BY <2>2 DEF DisplayMessage, IInv, TypeOK
  <2>3. QED BY <2>1, <2>2
<1>3. JoiningARoom' BY <1>1 DEF IInv, JoiningARoom
<1>4. QED BY <1>1, <1>2, <1>3, RowsKept, FlightKept, RatchetsKept DEF IInv

(* The table gets what the queue holds.                                    *)
LEMMA CommitIInv ==
    ASSUME IInv, NEW c \in Client, Commit(c)
    PROVE  IInv'
<1> USE DEF Commit, receiving, past
<1>1. Save(rows[c], Head(queue[c])) \subseteq rows[c] \cup {Head(queue[c])}
  BY TableSubsets
<1>2. Known(Head(queue[c])) /\ Head(queue[c]) \in Row
  BY DEF IInv, QueueReadable, TypeOK
<1>3. TypeOK' BY <1>1, <1>2 DEF IInv, TypeOK
<1>4. RowsReadable' BY <1>1, <1>2 DEF IInv, RowsReadable, TypeOK, Known
<1>5. QueueReadable' BY DEF IInv, QueueReadable, TypeOK, Known
<1>6. MessagesLabelled' /\ TodoReadable' /\ JoiningARoom'
  BY DEF IInv, MessagesLabelled, TodoReadable, JoiningARoom, Known
<1>7. QED BY <1>3, <1>4, <1>5, <1>6, FlightKept, RatchetsKept DEF IInv

-----------------------------------------------------------------------------
(* Every step of every client preserves the invariant.                     *)
LEMMA NextIInv ==
    ASSUME IInv, [Next]_vars
    PROVE  IInv'
<1>1. CASE UNCHANGED vars
  <2>1. TypeOK' /\ JoiningARoom'
    BY <1>1 DEF vars, memory, receiving, past, IInv, TypeOK, JoiningARoom
  <2>2. QED
    BY <1>1, <2>1, RowsKept, FlightKept, RatchetsKept
    DEF vars, memory, receiving, past, IInv
<1>2. ASSUME NEW c \in Client, Exit(c) PROVE IInv'
  BY <1>2, StopIInv DEF Exit
<1>3. ASSUME NEW c \in Client, Join(c) PROVE IInv'
  <2>1. ASSUME NEW row \in todo[c], ReplayPanics(c, row) PROVE IInv'
    BY <2>1, StopIInv DEF ReplayPanics
  <2>2. QED
    BY <1>3, <2>1, ArmFromAuthIInv, ArmFromCatchUpIInv, CatchUpRejectedIInv,
       JoinErrorIInv, SubscribeIInv, StartLoopIInv, ReplayFailsIInv, ReplayShowsIInv
    DEF Join
<1>4. ASSUME NEW c \in Client, SendWithoutRoom(c) PROVE IInv'
  BY <1>4, StopIInv DEF SendWithoutRoom
<1>5. ASSUME NEW c \in Client, NEW m \in Msg, Receive(c, m) PROVE IInv'
  <2>1. ASSUME ReceivePanics(c, m) PROVE IInv'
    BY <2>1, StopIInv DEF ReceivePanics
  <2>2. QED
    BY <1>5, <2>1, DecipheredIInv, UndecipheredIInv, FilesIInv, DrawsIInv DEF Receive
<1>6. QED
  BY <1>1, <1>2, <1>3, <1>4, <1>5, RestartIInv, EnterIInv, SubscribeFailsIInv, SendIInv,
     SendFailsIInv, CommitIInv
  DEF Next

(* The invariant holds throughout every behaviour.                         *)
THEOREM SpecIInv == Spec => []IInv
BY InitIInv, NextIInv, PTL DEF Spec

(* Every variable keeps its type, in particular every index in use is that *)
(* of a message and every ratchet a pair of ratchets.                      *)
THEOREM ChatTypeOK == Spec => []TypeOK
<1>1. IInv => TypeOK BY DEF IInv
<1>2. QED BY <1>1, SpecIInv, PTL

(* However many clients, rooms, joins, exits and messages there are, every *)
(* ratchet is where its counter says on its own room's chain.              *)
THEOREM ChatRatchetSound == Spec => []RatchetSound
<1>1. IInv => RatchetSound BY DEF IInv
<1>2. QED BY <1>1, SpecIInv, PTL

(* A row of the messages table has the index of its message's key, and the *)
(* room too unless its user changed rooms between the decryption and the   *)
(* filing, whichever goroutine stored it and however often it was copied.  *)
THEOREM ChatRowsReadable == Spec => []RowsReadable
<1>1. IInv => RowsReadable BY DEF IInv
<1>2. QED BY <1>1, SpecIInv, PTL

-----------------------------------------------------------------------------
(* RatchetsAdvance and OwnKeysFresh, as relations between one state and    *)
(* the next.                                                               *)
Advances ==
    \A c \in Client, r \in Room :
        \/ /\ session[c][r].room.index <= session'[c][r].room.index
           /\ session[c][r].backup.index <= session'[c][r].backup.index
        \/ cur[c] = r /\ ui'[c] = "armed"
        \/ proc'[c] # "up"

Fresh ==
    \A c \in Client :
        \A m \in used[c], n \in Len(published) + 1 .. Len(published') :
            published'[n].sender = c => published'[n].key # published[m].key

(* A process that ends is excused: its memory is gone.                     *)
LEMMA StopAdvances ==
    ASSUME TypeOK, NEW c \in Client, NEW how \in {"exited", "panicked"}, Stop(c, how)
    PROVE  Advances
<1>1. /\ session \in [Client -> [Room -> Ratchets]] /\ proc \in [Client -> {"up", "exited", "panicked"}]
      /\ session' = [session EXCEPT ![c] = NewSession] /\ proc' = [proc EXCEPT ![c] = how]
  BY DEF TypeOK, Stop
<1>2. QED BY <1>1 DEF Advances, Ratchets, RoomRatchet

(* A join is excused: it installs the ratchet anew.                        *)
LEMMA InstallAdvances ==
    ASSUME TypeOK, NEW c \in Client, Install(c)
    PROVE  Advances
<1> DEFINE x == SetInitialRatchet(NewRatchet(cur[c]))
<1>1. /\ session \in [Client -> [Room -> Ratchets]] /\ ui' = [ui EXCEPT ![c] = "armed"]
      /\ session' = [session EXCEPT ![c][cur[c]] = x] /\ DOMAIN ui = Client
  BY DEF TypeOK, Install
<1> HIDE DEF x
<1>2. QED BY <1>1 DEF Advances, Ratchets, RoomRatchet

(* Each step advances the ratchets, joins anew or ends the process.        *)
LEMMA NextAdvances ==
    ASSUME IInv, [Next]_vars
    PROVE  Advances
<1> USE DEF IInv
<1>0. Forward => Advances BY DEF Forward, Advances
<1>1. CASE UNCHANGED vars
  BY <1>0, <1>1, SessionKept DEF vars, memory
<1>2. ASSUME NEW c \in Client,
             Exit(c) \/ SendWithoutRoom(c) \/ (\E row \in todo[c] : ReplayPanics(c, row))
                \/ (\E m \in Msg : ReceivePanics(c, m))
      PROVE  Advances
  BY <1>2, StopAdvances DEF Exit, SendWithoutRoom, ReplayPanics, ReceivePanics
<1>3. ASSUME NEW c \in Client, ArmFromAuth(c) \/ ArmFromCatchUp(c) PROVE Advances
  BY <1>3, InstallAdvances DEF ArmFromAuth, ArmFromCatchUp
<1>4. ASSUME NEW c \in Client,
             Restart(c) \/ CatchUpRejected(c) \/ JoinError(c) \/ Subscribe(c)
                \/ SubscribeFails(c) \/ StartLoop(c) \/ Commit(c)
                \/ (\E r \in plan.visits[c] : Enter(c, r))
                \/ (\E m \in Msg : Files(c, m) \/ Draws(c, m) \/ DisplayMessage(c, m))
      PROVE  Advances
  BY <1>0, <1>4, SessionKept DEF Restart, memory, CatchUpRejected, JoinError,
       Subscribe, SubscribeFails, StartLoop, Commit, Enter, Files, Draws, DisplayMessage
<1>5. ASSUME NEW c \in Client, Send(c) \/ SendFails(c) PROVE Advances
  BY <1>0, <1>5, SendForward
<1>6. QED
  BY <1>0, <1>1, <1>2, <1>3, <1>4, <1>5, ReplayForward, ReceiveForward
  DEF Next, Join, Receive

(* Only Send publishes, and the key it takes is one its client's ratchet   *)
(* had not passed.                                                         *)
LEMMA SendFresh ==
    ASSUME IInv, NEW c \in Client, Send(c)
    PROVE  Fresh
<1> DEFINE r == cur[c]
           new == published'[Len(published')]
<1>1. /\ r \in Room /\ session[c][r].room.index \in Nat
      /\ KeyOf(session[c][r].room) = [ root |-> r, pos |-> session[c][r].room.index,
                                       info |-> session[c][r].room.index ]
  BY SendForward
<1>2. /\ Len(published) \in Nat /\ Len(published') = Len(published) + 1
      /\ new.sender = c /\ new.key = KeyOf(session[c][r].room)
  BY DEF Send, Publish, IInv, TypeOK
<1> SUFFICES ASSUME NEW d \in Client, NEW m \in used[d],
                    NEW n \in Len(published) + 1 .. Len(published'),
                    published'[n].sender = d
             PROVE  published'[n].key # published[m].key
  BY DEF Fresh
<1>3. n = Len(published') /\ d = c BY <1>2
<1>4. /\ m \in 1..Len(published)
      /\ published[m].ChainIndex < session[c][published[m].room].room.index
  BY <1>3 DEF IInv, UsedPassed
<1>5. /\ published[m].ChainIndex \in Nat
      /\ published[m].key = [ root |-> published[m].room, pos |-> published[m].ChainIndex,
                              info |-> published[m].ChainIndex ]
  BY <1>4, PublishedType DEF IInv, MessagesLabelled
<1> HIDE DEF r, new
<1>6. SUFFICES ASSUME published'[n].key = published[m].key PROVE FALSE
  OBVIOUS
<1>7. published[m].room = r /\ published[m].ChainIndex = session[c][r].room.index
  BY <1>1, <1>2, <1>3, <1>5, <1>6 DEF new
<1>8. QED BY <1>1, <1>4, <1>5, <1>7

LEMMA NextFresh ==
    ASSUME IInv, [Next]_vars
    PROVE  Fresh
<1>1. ASSUME UNCHANGED published PROVE Fresh
  BY <1>1 DEF Fresh, IInv, TypeOK
<1>2. ASSUME NEW c \in Client, Send(c) PROVE Fresh
  BY <1>2, SendFresh
<1>3. CASE UNCHANGED vars BY <1>1, <1>3 DEF vars, past
<1>4. ASSUME NEW c \in Client, Join(c) PROVE Fresh
  BY <1>1, <1>4 DEF Join, ArmFromAuth, ArmFromCatchUp, CatchUpRejected, JoinError,
     Subscribe, StartLoop, ReplayFails, ReplayPanics, ReplayShows, Stop, past
<1>5. ASSUME NEW c \in Client, NEW m \in Msg, Receive(c, m) PROVE Fresh
  BY <1>1, <1>5 DEF Receive, Deciphered, Undeciphered, ReceivePanics, Files, Draws,
     DisplayMessage, Stop, past
<1>6. ASSUME NEW c \in Client,
             Exit(c) \/ Restart(c) \/ (\E r \in plan.visits[c] : Enter(c, r))
                \/ SubscribeFails(c) \/ SendWithoutRoom(c) \/ SendFails(c) \/ Commit(c)
      PROVE  Fresh
  BY <1>1, <1>6 DEF Exit, Restart, Enter, SubscribeFails, SendWithoutRoom, SendFails,
     Commit, Stop, past
<1>7. QED BY <1>2, <1>3, <1>4, <1>5, <1>6 DEF Next

(* A ratchet goes back only when its room is joined anew or its process    *)
(* ends: nothing a peer sends, in any order, rewinds one.                  *)
THEOREM ChatRatchetsAdvance == Spec => RatchetsAdvance
<1>1. IInv /\ [Next]_vars => [Advances]_vars BY NextAdvances
<1>2. Spec => [][Advances]_vars
  BY <1>1, SpecIInv, PTL DEF Spec
<1>3. QED BY <1>2 DEF Advances, RatchetsAdvance

(* Whoever sends at the same time, whatever is lost, late or fails, and    *)
(* wherever the user goes: no client seals a message under a key that it   *)
(* has sealed or opened one with since it installed that room's ratchet.   *)
THEOREM ChatOwnKeysFresh == Spec => OwnKeysFresh
<1>1. IInv /\ [Next]_vars => [Fresh]_vars BY NextFresh
<1>2. Spec => [][Fresh]_vars
  BY <1>1, SpecIInv, PTL DEF Spec
<1>3. QED BY <1>2 DEF Fresh, OwnKeysFresh
=============================================================================
