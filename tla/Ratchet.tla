------------------------------ MODULE Ratchet ------------------------------
(***************************************************************************)
(* The symmetric room ratchet of internal/crypto and what a client does    *)
(* with a pair of them (internal/client/handlers.go, decryptMessage).      *)
(*                                                                         *)
(* A RoomRatchet is a chain key and a counter.  The chain key is a hash    *)
(* chain that starts at the room's master key, so it is represented by     *)
(* the room it started from (root) and the number of HMAC steps taken      *)
(* since (pos).  Nothing in RoomRatchet ties pos to index: that they       *)
(* agree is a theorem about the clients (RatchetSound in ChatRoom), not a  *)
(* part of the representation.                                             *)
(***************************************************************************)
EXTENDS Integers

CONSTANTS
    Room,      \* rooms; each has a master key of its own
    Window     \* how far BackupRatchet trails RoomRatchet (10 in the code)

ASSUME WindowAssumption == Window \in Nat \ {0}

RoomRatchet == [root : Room, pos : Nat, index : Nat]

(* A message key and its nonce: HKDF of a chain key, with the counter they *)
(* are derived under as info.  They are equal when all three agree.        *)
MessageKey == [root : Room, pos : Nat, info : Nat]

NewRatchet(r) == [root |-> r, pos |-> 0, index |-> 0]

(* NextKey: the key it returns, and the ratchet it leaves behind.          *)
KeyOf(q) == [root |-> q.root, pos |-> q.pos, info |-> q.index]
Advance(q) == [root |-> q.root, pos |-> q.pos + 1, index |-> q.index + 1]

(* The loop `for q.Index < i { q.NextKey() }`, in closed form.             *)
AdvanceTo(q, i) ==
    IF q.index < i
    THEN [root |-> q.root, pos |-> q.pos + (i - q.index), index |-> i]
    ELSE q

-----------------------------------------------------------------------------
(* A RoomSession's two ratchets.  SetInitialRatchet makes the backup a     *)
(* clone of the room ratchet.                                              *)
Ratchets == [room : RoomRatchet, backup : RoomRatchet]

(* Both are where their counters say on r's chain, the backup not ahead.   *)
SoundAt(s, r) ==
    /\ s.room.root = r /\ s.room.pos = s.room.index
    /\ s.backup.root = r /\ s.backup.pos = s.backup.index
    /\ s.backup.index <= s.room.index

SetInitialRatchet(q) == [room |-> q, backup |-> q]

(* EncryptMessage takes the room ratchet's next key and leaves the backup  *)
(* behind.                                                                 *)
EncryptMessage(s) == [room |-> Advance(s.room), backup |-> s.backup]

TwoBack(s) == s.room.index - 2    \* mutant: Index - 1 read before EncryptMessage
Undecremented(s) == s.room.index  \* mutant: the - 1 forgotten

(* The ChainIndex of a message, read off the ratchet that has encrypted it.*)
ChainIndexOf(s) == s.room.index - 1

BackupUnbounded(s, i) ==   \* mutant: the backup follows without its distance
    [ keys |-> { KeyOf(AdvanceTo(s.room, i)) },
      ratchets |-> [room |-> AdvanceTo(s.room, i + 1), backup |-> AdvanceTo(s.backup, i + 2)] ]

StoppedShort(s, i) ==   \* mutant: the key is taken and the ratchet left on it
    [ keys |-> { KeyOf(AdvanceTo(s.room, i)) },
      ratchets |-> [room |-> AdvanceTo(s.room, i), backup |-> AdvanceTo(s.backup, i + 1 - Window)] ]

(* decryptMessage at chain index i: the keys it may hand to the AEAD (the  *)
(* empty set for the nil key that chacha.New rejects) and the ratchets it  *)
(* leaves.  A message at or past the room ratchet advances it and lets the *)
(* backup follow at a distance below Window; an older one is looked up by  *)
(* advancing the backup itself, which rr aliases.                          *)
ForwardDecrypt(s, i) ==
    [ keys |-> { KeyOf(AdvanceTo(s.room, i)) },
      ratchets |-> [ room   |-> AdvanceTo(s.room, i + 1),
                     backup |-> AdvanceTo(s.backup, i + 2 - Window) ] ]

WithoutBackup(s, i) ==   \* mutant: no lookup behind the room ratchet
    [keys |-> {}, ratchets |-> s]

BackupInstalled(s, i) ==   \* mutant: the room ratchet is left where the lookup ended
    LET found == AdvanceTo(s.backup, i + 1)
    IN  [keys |-> { KeyOf(AdvanceTo(s.backup, i)) }, ratchets |-> [room |-> found, backup |-> found]]

BackwardDecrypt(s, i) ==
    IF s.backup.index <= i
    THEN [ keys |-> { KeyOf(AdvanceTo(s.backup, i)) },
           ratchets |-> [room |-> s.room, backup |-> AdvanceTo(s.backup, i + 1)] ]
    ELSE [ keys |-> {}, ratchets |-> s ]

Decrypt(s, i) ==
    IF s.room.index <= i THEN ForwardDecrypt(s, i) ELSE BackwardDecrypt(s, i)
=============================================================================
