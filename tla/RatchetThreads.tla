--------------------------- MODULE RatchetThreads ---------------------------
(***************************************************************************)
(* One RoomSession's ratchets, shared by goroutines without a lock: the    *)
(* UI goroutine runs SendMessageHandler, every chat subscription runs      *)
(* decryptMessage, and both call NextKey, whose loads and stores are the   *)
(* steps here.  ChatRoom takes the whole of a handler as one step; this    *)
(* module shows what that step is made of.  Spec lets the goroutines       *)
(* overlap, as the code does; SerialSpec starts a handler only when no     *)
(* other runs, the schedule under which ChatRoom's steps are exact.        *)
(***************************************************************************)
EXTENDS Ratchet

CONSTANTS
    UI,         \* the UI goroutine: it sends, and replays stored messages
    Loop,       \* chat goroutines: each receives from one subscription
    MaxIndex    \* bound: chain indices in use

ASSUME MaxIndexAssumption == MaxIndex \in Nat

VARIABLES
    mem,     \* the two ratchets, in shared memory
    pc,      \* where each goroutine is
    job,     \* the chain index it decrypts, or Sending
    target,  \* the ratchet NextKey was called on: "room" or "backup"
    return,  \* where NextKey returns to
    local,   \* the counter or chain position NextKey has read
    keys,    \* the message key in hand ({} for nil)
    label,   \* the ChainIndex SendMessageHandler put in the message
    start    \* the ratchets when the handler started (history variable)

Thread == {UI} \cup Loop
vars == <<mem, pc, job, target, return, local, keys, label, start>>

Sending == -1
InNextKey == {"info", "derive", "mac", "chain", "load", "store"}

(* Every chain stays within one step of the bound on message indices.      *)
TypeOK ==
    /\ mem \in Ratchets /\ mem.room.index \in 0..MaxIndex + 1
    /\ mem.backup.index \in 0..MaxIndex + 1
    /\ start \in [Thread -> Ratchets]
    /\ pc \in [Thread -> InNextKey \cup {"idle", "forward", "trim", "backward", "label", "done"}]
    /\ job \in [Thread -> 0..MaxIndex \cup {Sending}]
    /\ target \in [Thread -> {"room", "backup"}]
    /\ return \in [Thread -> {"forward", "trim", "backward", "label"}]
    /\ local \in [Thread -> Nat] /\ label \in [Thread -> Nat]
    /\ keys \in [Thread -> SUBSET MessageKey]

(* A session some way into its room, the backup behind the room ratchet.   *)
Init ==
    /\ \E r \in Room, i \in 0..MaxIndex : \E b \in 0..i :
          mem = [ room   |-> AdvanceTo(NewRatchet(r), i),
                  backup |-> AdvanceTo(NewRatchet(r), b) ]
    /\ pc = [t \in Thread |-> "idle"]
    /\ job = [t \in Thread |-> Sending]
    /\ target = [t \in Thread |-> "room"]
    /\ return = [t \in Thread |-> "label"]
    /\ local = [t \in Thread |-> 0]
    /\ keys = [t \in Thread |-> {}]
    /\ label = [t \in Thread |-> 0]
    /\ start = [t \in Thread |-> SetInitialRatchet(NewRatchet(mem.room.root))]

Goto(t, place) == pc' = [pc EXCEPT ![t] = place]

(* r.NextKey() on ratchet q, to come back to `back`.                       *)
Call(t, q, back) ==
    /\ target' = [target EXCEPT ![t] = q]
    /\ return' = [return EXCEPT ![t] = back]
    /\ Goto(t, "info")

-----------------------------------------------------------------------------
(* NextKey, one load or store of shared memory at a time.                  *)
ReadInfo(t) ==
    /\ pc[t] = "info"
    /\ local' = [local EXCEPT ![t] = mem[target[t]].index]
    /\ Goto(t, "derive")
    /\ UNCHANGED <<mem, job, target, return, keys, label, start>>

(* The key a trim of the backup derives is thrown away.                    *)
Derive(t) ==
    /\ pc[t] = "derive"
    /\ keys' = [keys EXCEPT ![t] =
                  IF return[t] = "trim" /\ target[t] = "backup"
                  THEN @ ELSE {[KeyOf(mem[target[t]]) EXCEPT !.info = local[t]]}]
    /\ Goto(t, "mac")
    /\ UNCHANGED <<mem, job, target, return, local, label, start>>

ReadChain(t) ==
    /\ pc[t] = "mac"
    /\ local' = [local EXCEPT ![t] = mem[target[t]].pos]
    /\ Goto(t, "chain")
    /\ UNCHANGED <<mem, job, target, return, keys, label, start>>

WriteChain(t) ==
    /\ pc[t] = "chain"
    /\ mem' = [mem EXCEPT ![target[t]].pos = local[t] + 1]
    /\ Goto(t, "load")
    /\ UNCHANGED <<job, target, return, local, keys, label, start>>

ReadIndex(t) ==
    /\ pc[t] = "load"
    /\ local' = [local EXCEPT ![t] = mem[target[t]].index]
    /\ Goto(t, "store")
    /\ UNCHANGED <<mem, job, target, return, keys, label, start>>

WriteIndex(t) ==
    /\ pc[t] = "store"
    /\ mem' = [mem EXCEPT ![target[t]].index = local[t] + 1]
    /\ Goto(t, return[t])
    /\ UNCHANGED <<job, target, return, local, keys, label, start>>

-----------------------------------------------------------------------------
(* SendMessageHandler: EncryptMessage calls NextKey on the room ratchet;   *)
(* the ChainIndex is read back from the ratchet afterwards.                *)
Send(t) ==
    /\ pc[t] = "idle" /\ mem.room.index < MaxIndex
    /\ job' = [job EXCEPT ![t] = Sending]
    /\ start' = [start EXCEPT ![t] = mem]
    /\ Call(t, "room", "label")
    /\ UNCHANGED <<mem, local, keys, label>>

LabelUndecremented(t) ==   \* mutant: RoomRatchet.Index without the - 1
    /\ pc[t] = "label"
    /\ label' = [label EXCEPT ![t] = mem.room.index]
    /\ Goto(t, "done")
    /\ UNCHANGED <<mem, job, target, return, local, keys, start>>

Label(t) ==
    /\ pc[t] = "label"
    /\ label' = [label EXCEPT ![t] = mem.room.index - 1]
    /\ Goto(t, "done")
    /\ UNCHANGED <<mem, job, target, return, local, keys, start>>

(* decryptMessage on a message of chain index i.                           *)
Receive(t, i) ==
    /\ pc[t] = "idle"
    /\ job' = [job EXCEPT ![t] = i]
    /\ keys' = [keys EXCEPT ![t] = {}]
    /\ start' = [start EXCEPT ![t] = mem]
    /\ Goto(t, IF mem.room.index <= i THEN "forward" ELSE "backward")
    /\ UNCHANGED <<mem, target, return, local, label>>

ForwardOverrun(t) ==   \* mutant: the loop derives one key too many
    /\ pc[t] = "forward"
    /\ IF mem.room.index <= job[t] + 1
       THEN Call(t, "room", "trim")
       ELSE Goto(t, "done") /\ UNCHANGED <<target, return>>
    /\ UNCHANGED <<mem, job, local, keys, label, start>>

ForwardOnCopy(t) ==   \* mutant: NextKey is called on a copy of the ratchet
    /\ pc[t] = "forward"
    /\ IF mem.room.index <= job[t]
       THEN Goto(t, "trim") /\ keys' = [keys EXCEPT ![t] = {KeyOf(mem.room)}]
       ELSE Goto(t, "done") /\ UNCHANGED keys
    /\ UNCHANGED <<mem, job, target, return, local, label, start>>

Forward(t) ==
    /\ pc[t] = "forward"
    /\ IF mem.room.index <= job[t]
       THEN Call(t, "room", "trim")
       ELSE Goto(t, "done") /\ UNCHANGED <<target, return>>
    /\ UNCHANGED <<mem, job, local, keys, label, start>>

TrimLate(t) ==   \* mutant: the window test is < instead of <=
    /\ pc[t] = "trim"
    /\ IF mem.backup.index + Window < mem.room.index
       THEN Call(t, "backup", "trim")
       ELSE Goto(t, "forward") /\ UNCHANGED <<target, return>>
    /\ UNCHANGED <<mem, job, local, keys, label, start>>

Trim(t) ==
    /\ pc[t] = "trim"
    /\ IF mem.backup.index + Window <= mem.room.index
       THEN Call(t, "backup", "trim")
       ELSE Goto(t, "forward") /\ UNCHANGED <<target, return>>
    /\ UNCHANGED <<mem, job, local, keys, label, start>>

Backward(t) ==
    /\ pc[t] = "backward"
    /\ IF mem.backup.index <= job[t]
       THEN Call(t, "backup", "backward")
       ELSE Goto(t, "done") /\ UNCHANGED <<target, return>>
    /\ UNCHANGED <<mem, job, local, keys, label, start>>

(* The handler returns and its locals go out of scope.                     *)
Finish(t) ==
    /\ pc[t] = "done"
    /\ Goto(t, "idle")
    /\ job' = [job EXCEPT ![t] = Sending]
    /\ target' = [target EXCEPT ![t] = "room"]
    /\ return' = [return EXCEPT ![t] = "label"]
    /\ local' = [local EXCEPT ![t] = 0]
    /\ keys' = [keys EXCEPT ![t] = {}]
    /\ label' = [label EXCEPT ![t] = 0]
    /\ start' = [start EXCEPT ![t] = SetInitialRatchet(NewRatchet(mem.room.root))]
    /\ UNCHANGED mem

Begin(t) == (t = UI /\ Send(t)) \/ \E i \in 0..MaxIndex : Receive(t, i)

Continue(t) ==
    \/ ReadInfo(t) \/ Derive(t) \/ ReadChain(t) \/ WriteChain(t) \/ ReadIndex(t)
    \/ WriteIndex(t) \/ Label(t) \/ Forward(t) \/ Trim(t) \/ Backward(t) \/ Finish(t)

Next == \E t \in Thread : Begin(t) \/ Continue(t)

Spec == Init /\ [][Next]_vars

(* A handler starts only when no other is under way.                       *)
SerialNext ==
    \E t \in Thread :
        \/ (\A u \in Thread : pc[u] = "idle") /\ Begin(t)
        \/ Continue(t)

(* Go's scheduler runs every goroutine that is not blocked.                *)
SerialSpec ==
    Init /\ [][SerialNext]_vars /\ \A t \in Thread : WF_vars(Continue(t))

-----------------------------------------------------------------------------
(* handlers.go:387-407, the nested loops: when a lone decryptMessage is    *)
(* done it holds the key, and has left the ratchets, that the closed form  *)
(* of module Ratchet gives for the state it started from.                  *)
DecryptIsClosedForm ==
    \A t \in Thread :
        pc[t] = "done" /\ job[t] # Sending =>
            LET d == Decrypt(start[t], job[t])
            IN  keys[t] = d.keys /\ mem = d.ratchets

(* chat.go:124-131: the ChainIndex a message carries is the index its key  *)
(* was derived under.                                                      *)
LabelIsKeyIndex ==
    \A t \in Thread :
        pc[t] = "done" /\ job[t] = Sending =>
            keys[t] = {[root |-> mem.room.root, pos |-> label[t], info |-> label[t]]}

(* The search for a message's key ends, however far ahead or behind it is. *)
HandlersReturn == \A t \in Thread : pc[t] # "idle" ~> pc[t] = "idle"

(* models.go:3-6: Index is the "message count", so outside NextKey the     *)
(* chain key has been advanced Index times.                                *)
IndexCountsKeys ==
    (\A t \in Thread : pc[t] = "idle") =>
        /\ mem.room.pos = mem.room.index
        /\ mem.backup.pos = mem.backup.index
=============================================================================
