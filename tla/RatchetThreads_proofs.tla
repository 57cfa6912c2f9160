----------------------- MODULE RatchetThreads_proofs -----------------------
(***************************************************************************)
(* Goroutines that never overlap, with any window, any number of them and  *)
(* any indices: the nested loops of decryptMessage, made of the loads and  *)
(* stores of NextKey, compute the closed form of module Ratchet, and the   *)
(* label of a message is its key's index.  This is what lets ChatRoom take *)
(* a handler as one step.  The invariant is the loops' own.                *)
(***************************************************************************)
EXTENDS RatchetThreads, TLAPS

ChainKey(n) == {[root |-> mem.room.root, pos |-> n, info |-> n]}

(* What NextKey has done to the ratchet it was called on; the other one's  *)
(* position and counter agree.                                             *)
Ahead(t, q) == target[t] = q /\ pc[t] \in {"load", "store"}
Stepping(t) ==
    /\ mem.backup.root = mem.room.root
    /\ \A q \in {"room", "backup"} :
          mem[q].pos = IF Ahead(t, q) THEN mem[q].index + 1 ELSE mem[q].index
    /\ pc[t] \in {"derive", "store"} => local[t] = mem[target[t]].index
    /\ pc[t] = "chain" => local[t] = mem[target[t]].pos

Keyless(t) == pc[t] \in {"info", "derive"}

(* A sender takes one key.                                                 *)
SendRuns(t) ==
    /\ job[t] = Sending /\ pc[t] \in InNextKey \cup {"label", "done"}
    /\ mem.backup.index = start[t].backup.index /\ start[t].room.index <= MaxIndex
    /\ mem.room.index = IF pc[t] \in InNextKey THEN start[t].room.index
                                               ELSE start[t].room.index + 1
    /\ pc[t] \in InNextKey => target[t] = "room" /\ return[t] = "label"
    /\ Keyless(t) \/ keys[t] = ChainKey(start[t].room.index)
    /\ pc[t] = "done" => label[t] = start[t].room.index

(* The outer loop: the room ratchet goes to the message, the backup to its *)
(* distance after each key.                                                *)
Trimming(t) == pc[t] = "trim" \/ (pc[t] \in InNextKey /\ target[t] = "backup")
Follows(t, i) == IF start[t].backup.index < i + 1 - Window THEN i + 1 - Window
                                                           ELSE start[t].backup.index
ForwardRuns(t) ==
    /\ job[t] # Sending /\ pc[t] \in InNextKey \cup {"forward", "trim", "done"}
    /\ start[t].room.index <= job[t]
    /\ start[t].room.index <= mem.room.index /\ mem.room.index <= job[t] + 1
    /\ IF Trimming(t)
       THEN /\ start[t].room.index < mem.room.index
            /\ start[t].backup.index <= mem.backup.index
            /\ mem.backup.index <= Follows(t, mem.room.index)
       ELSE mem.backup.index = IF start[t].room.index = mem.room.index
                               THEN start[t].backup.index ELSE Follows(t, mem.room.index)
    /\ pc[t] \in InNextKey =>
         /\ return[t] = "trim"
         /\ target[t] = "room" => mem.room.index <= job[t]
         /\ target[t] = "backup" => mem.backup.index + Window <= mem.room.index
    /\ IF pc[t] \in InNextKey /\ target[t] = "room"
       THEN Keyless(t) \/ keys[t] = ChainKey(mem.room.index)
       ELSE start[t].room.index < mem.room.index => keys[t] = ChainKey(mem.room.index - 1)
    /\ pc[t] = "done" => mem.room.index = job[t] + 1

(* The search behind: only the backup moves, to the message or not at all. *)
BackwardRuns(t) ==
    /\ job[t] # Sending /\ pc[t] \in InNextKey \cup {"backward", "done"}
    /\ job[t] < start[t].room.index /\ mem.room.index = start[t].room.index
    /\ start[t].backup.index <= mem.backup.index
    /\ mem.backup.index = start[t].backup.index \/ mem.backup.index <= job[t] + 1
    /\ pc[t] \in InNextKey =>
         target[t] = "backup" /\ return[t] = "backward" /\ mem.backup.index <= job[t]
    /\ IF pc[t] \in InNextKey
       THEN Keyless(t) \/ keys[t] = ChainKey(mem.backup.index)
       ELSE keys[t] = IF mem.backup.index = start[t].backup.index THEN {}
                      ELSE ChainKey(mem.backup.index - 1)
    /\ pc[t] = "done" => job[t] < mem.backup.index

Runs(t) == SoundAt(start[t], mem.room.root) /\ Stepping(t)
           /\ (SendRuns(t) \/ ForwardRuns(t) \/ BackwardRuns(t))

(* At most one goroutine runs, and between two the ratchets are sound.     *)
Alone == \A t, u \in Thread : pc[t] # "idle" /\ pc[u] # "idle" => t = u
Resting == (\A t \in Thread : pc[t] = "idle") => SoundAt(mem, mem.room.root)

RInv == TypeOK /\ Alone /\ Resting /\ \A t \in Thread : pc[t] # "idle" => Runs(t)

-----------------------------------------------------------------------------
(* What the types give, in the terms the loops are about.                  *)
LEMMA Counters ==
    ASSUME TypeOK, NEW t \in Thread
    PROVE  /\ mem \in Ratchets /\ mem.room.root \in Room /\ mem.backup.root \in Room
           /\ mem.room.index \in Nat /\ mem.room.pos \in Nat
           /\ mem.backup.index \in Nat /\ mem.backup.pos \in Nat
           /\ start[t] \in Ratchets
           /\ start[t].room.index \in Nat /\ start[t].backup.index \in Nat
           /\ job[t] \in 0..MaxIndex \cup {Sending} /\ Sending = -1
           /\ local[t] \in Nat /\ label[t] \in Nat
BY DEF TypeOK, Ratchets, RoomRatchet, Sending

(* With one goroutine under way, what it does is all that happens.         *)
LEMMA OneRuns ==
    ASSUME RInv, NEW t \in Thread, pc[t] # "idle", NEW place,
           pc' = [pc EXCEPT ![t] = place], TypeOK',
           IF place = "idle" THEN SoundAt(mem, mem.room.root)' ELSE Runs(t)'
    PROVE  RInv'
<1>1. pc'[t] = place /\ \A u \in Thread \ {t} : pc'[u] = "idle"
  BY DEF RInv, TypeOK, Alone
<1>2. Alone' /\ Resting' BY <1>1 DEF Alone, Resting
<1>3. \A u \in Thread : pc'[u] # "idle" => u = t /\ place # "idle" BY <1>1
<1>4. ASSUME NEW u \in Thread, pc'[u] # "idle" PROVE Runs(u)'
  BY <1>3, <1>4
<1>5. QED BY <1>2, <1>4 DEF RInv

(* The reads of NextKey: the ratchets stay, and so does what the handler   *)
(* is in the middle of.                                                    *)
LEMMA ReadsKeepInv ==
    ASSUME RInv, NEW t \in Thread, ReadInfo(t) \/ ReadChain(t) \/ ReadIndex(t)
    PROVE  RInv'
<1> USE DEF RInv
<1> DEFINE place == IF pc[t] = "info" THEN "derive" ELSE IF pc[t] = "mac" THEN "chain" ELSE "store"
<1>1. /\ pc[t] \in {"info", "mac", "load"} /\ pc' = [pc EXCEPT ![t] = place]
      /\ \/ pc[t] \in {"info", "load"} /\ local' = [local EXCEPT ![t] = mem[target[t]].index]
         \/ pc[t] = "mac" /\ local' = [local EXCEPT ![t] = mem[target[t]].pos]
      /\ UNCHANGED <<mem, job, target, return, keys, label, start>>
  BY DEF ReadInfo, ReadChain, ReadIndex, Goto
<1>2. target[t] \in {"room", "backup"} BY DEF TypeOK
<1>3. mem[target[t]].index \in Nat /\ mem[target[t]].pos \in Nat
  <2>1. CASE target[t] = "room" BY <2>1, Counters
  <2>2. CASE target[t] = "backup" BY <2>2, Counters
  <2>3. QED BY <1>2, <2>1, <2>2
<1>4. TypeOK' BY <1>1, <1>3 DEF TypeOK, InNextKey
<1>5. /\ pc'[t] = place /\ place \in InNextKey /\ pc[t] \in InNextKey
      /\ local'[t] = IF pc[t] = "mac" THEN mem[target[t]].pos ELSE mem[target[t]].index
  BY <1>1 DEF TypeOK, InNextKey
<1>6. Runs(t) BY <1>1
<1>7. Stepping(t)' BY <1>1, <1>5, <1>6 DEF Runs, Stepping, Ahead
<1>8. /\ Keyless(t)' \/ ~Keyless(t)
      /\ Trimming(t)' <=> Trimming(t)
      /\ pc'[t] # "done" /\ \A n : ChainKey(n)' = ChainKey(n)
  BY <1>1, <1>5 DEF Keyless, Trimming, ChainKey, InNextKey
<1>9. CASE SendRuns(t)
  <2>1. SendRuns(t)' BY <1>1, <1>5, <1>8, <1>9 DEF SendRuns
  <2>2. QED BY <1>1, <1>4, <1>6, <1>7, <2>1, OneRuns DEF Runs
<1>10. CASE ForwardRuns(t)
  <2>1. ForwardRuns(t)' BY <1>1, <1>5, <1>8, <1>10 DEF ForwardRuns, Follows
  <2>2. QED BY <1>1, <1>4, <1>6, <1>7, <2>1, OneRuns DEF Runs
<1>11. CASE BackwardRuns(t)
  <2>1. BackwardRuns(t)' BY <1>1, <1>5, <1>8, <1>11 DEF BackwardRuns
  <2>2. QED BY <1>1, <1>4, <1>6, <1>7, <2>1, OneRuns DEF Runs
<1>12. QED BY <1>6, <1>9, <1>10, <1>11 DEF Runs

(* The key that is derived is the chain's where the ratchet is, unless it  *)
(* is the backup that is trimmed.                                          *)
LEMMA DeriveKeepsInv ==
    ASSUME RInv, NEW t \in Thread, Derive(t)
    PROVE  RInv'
<1> USE DEF RInv
<1>1. /\ pc[t] = "derive" /\ pc' = [pc EXCEPT ![t] = "mac"]
      /\ UNCHANGED <<mem, job, target, return, local, label, start>>
  BY DEF Derive, Goto
<1>2. Runs(t) /\ pc'[t] = "mac" BY <1>1 DEF TypeOK
<1>3. target[t] \in {"room", "backup"} BY DEF TypeOK
<1>4. /\ mem[target[t]].index \in Nat /\ mem[target[t]].root = mem.room.root
      /\ mem[target[t]].pos = mem[target[t]].index /\ local[t] = mem[target[t]].index
  <2>1. CASE target[t] = "room" BY <1>1, <1>2, <2>1, Counters DEF Runs, Stepping, Ahead
  <2>2. CASE target[t] = "backup" BY <1>1, <1>2, <2>2, Counters DEF Runs, Stepping, Ahead
  <2>3. QED BY <1>3, <2>1, <2>2
<1>5. {[KeyOf(mem[target[t]]) EXCEPT !.info = local[t]]} = ChainKey(mem[target[t]].index)
  BY <1>4 DEF KeyOf, ChainKey
<1>6. ChainKey(mem[target[t]].index) \in SUBSET MessageKey
  BY <1>4, Counters DEF ChainKey, MessageKey
<1>7. /\ keys' \in [Thread -> SUBSET MessageKey]
      /\ keys'[t] = IF return[t] = "trim" /\ target[t] = "backup"
                    THEN keys[t] ELSE ChainKey(mem[target[t]].index)
  BY <1>5, <1>6 DEF Derive, TypeOK
<1>8. TypeOK' BY <1>1, <1>7 DEF TypeOK, InNextKey
<1>9. Stepping(t)' BY <1>1, <1>2 DEF Runs, Stepping, Ahead
<1>10. /\ pc[t] \in InNextKey /\ pc'[t] \in InNextKey /\ pc'[t] # "done"
       /\ Trimming(t)' <=> Trimming(t)
       /\ \A n : ChainKey(n)' = ChainKey(n)
  BY <1>1, <1>2 DEF Trimming, ChainKey, InNextKey
<1>11. CASE SendRuns(t)
  <2>1. SendRuns(t)' BY <1>1, <1>7, <1>10, <1>11 DEF SendRuns
  <2>2. QED BY <1>1, <1>2, <1>8, <1>9, <2>1, OneRuns DEF Runs
<1>12. CASE ForwardRuns(t)
  <2>1. ForwardRuns(t)'
    <3>1. CASE target[t] = "room" BY <1>1, <1>7, <1>10, <1>12, <3>1 DEF ForwardRuns, Follows
    <3>2. CASE target[t] = "backup" BY <1>1, <1>7, <1>10, <1>12, <3>2 DEF ForwardRuns, Follows
    <3>3. QED BY <1>3, <3>1, <3>2
  <2>2. QED BY <1>1, <1>2, <1>8, <1>9, <2>1, OneRuns DEF Runs
<1>13. CASE BackwardRuns(t)
  <2>1. BackwardRuns(t)' BY <1>1, <1>7, <1>10, <1>13 DEF BackwardRuns
  <2>2. QED BY <1>1, <1>2, <1>8, <1>9, <2>1, OneRuns DEF Runs
<1>14. QED BY <1>2, <1>11, <1>12, <1>13 DEF Runs

(* A store to one field of one ratchet.                                    *)
LEMMA StorePos ==
    ASSUME mem \in Ratchets, NEW q \in {"room", "backup"}, NEW n \in Nat,
           mem' = [mem EXCEPT ![q].pos = n]
    PROVE  /\ mem' \in Ratchets
           /\ \A p \in {"room", "backup"} :
                 /\ mem'[p].root = mem[p].root /\ mem'[p].index = mem[p].index
                 /\ mem'[p].pos = IF p = q THEN n ELSE mem[p].pos
<1>1. CASE q = "room" BY <1>1 DEF Ratchets, RoomRatchet
<1>2. CASE q = "backup" BY <1>2 DEF Ratchets, RoomRatchet
<1>3. QED BY <1>1, <1>2

(* The same for the counter.                                               *)
LEMMA StoreIndex ==
    ASSUME mem \in Ratchets, NEW q \in {"room", "backup"}, NEW n \in Nat,
           mem' = [mem EXCEPT ![q].index = n]
    PROVE  /\ mem' \in Ratchets
           /\ \A p \in {"room", "backup"} :
                 /\ mem'[p].root = mem[p].root /\ mem'[p].pos = mem[p].pos
                 /\ mem'[p].index = IF p = q THEN n ELSE mem[p].index
<1>1. CASE q = "room" BY <1>1 DEF Ratchets, RoomRatchet
<1>2. CASE q = "backup" BY <1>2 DEF Ratchets, RoomRatchet
<1>3. QED BY <1>1, <1>2

(* The chain key moves before the counter does.                            *)
LEMMA WriteChainKeepsInv ==
    ASSUME RInv, NEW t \in Thread, WriteChain(t)
    PROVE  RInv'
<1> USE DEF RInv
<1>1. /\ pc[t] = "chain" /\ pc' = [pc EXCEPT ![t] = "load"]
      /\ mem' = [mem EXCEPT ![target[t]].pos = local[t] + 1]
      /\ UNCHANGED <<job, target, return, local, keys, label, start>>
  BY DEF WriteChain, Goto
<1>2. Runs(t) /\ pc'[t] = "load" BY <1>1 DEF TypeOK
<1>3. target[t] \in {"room", "backup"} /\ local[t] + 1 \in Nat BY DEF TypeOK
<1>4. /\ mem' \in Ratchets
      /\ \A p \in {"room", "backup"} :
            /\ mem'[p].root = mem[p].root /\ mem'[p].index = mem[p].index
            /\ mem'[p].pos = IF p = target[t] THEN local[t] + 1 ELSE mem[p].pos
  BY <1>1, <1>3, StorePos DEF TypeOK
<1>5. /\ mem'.room.root = mem.room.root /\ mem'.backup.root = mem.backup.root
      /\ mem'.room.index = mem.room.index /\ mem'.backup.index = mem.backup.index
  BY <1>4
<1>6. TypeOK' BY <1>1, <1>4, <1>5 DEF TypeOK, InNextKey
<1>7. Stepping(t)'
  <2>1. local[t] = mem[target[t]].index BY <1>1, <1>2, <1>3 DEF Runs, Stepping, Ahead
  <2>2. \A q \in {"room", "backup"} : Ahead(t, q)' <=> q = target[t]
    BY <1>1, <1>2 DEF Ahead
  <2>3. \A q \in {"room", "backup"} : mem[q].pos = mem[q].index
    BY <1>1, <1>2 DEF Runs, Stepping, Ahead
  <2>4. QED BY <1>2, <1>4, <1>5, <2>1, <2>2, <2>3 DEF Runs, Stepping
<1>8. /\ pc[t] \in InNextKey /\ pc'[t] \in InNextKey /\ pc'[t] # "done"
      /\ ~Keyless(t) /\ (Trimming(t)' <=> Trimming(t))
      /\ \A n : ChainKey(n)' = ChainKey(n)
  BY <1>1, <1>2, <1>5 DEF Keyless, Trimming, ChainKey, InNextKey
<1>9. SoundAt(start[t], mem.room.root)' BY <1>1, <1>2, <1>5 DEF Runs
<1>10. CASE SendRuns(t)
  <2>1. SendRuns(t)' BY <1>1, <1>5, <1>8, <1>10 DEF SendRuns
  <2>2. QED BY <1>1, <1>6, <1>7, <1>9, <2>1, OneRuns DEF Runs
<1>11. CASE ForwardRuns(t)
  <2>1. ForwardRuns(t)' BY <1>1, <1>5, <1>8, <1>11 DEF ForwardRuns, Follows
  <2>2. QED BY <1>1, <1>6, <1>7, <1>9, <2>1, OneRuns DEF Runs
<1>12. CASE BackwardRuns(t)
  <2>1. BackwardRuns(t)' BY <1>1, <1>5, <1>8, <1>12 DEF BackwardRuns
  <2>2. QED BY <1>1, <1>6, <1>7, <1>9, <2>1, OneRuns DEF Runs
<1>13. QED BY <1>2, <1>10, <1>11, <1>12 DEF Runs

(* The counter follows, and the loop goes on behind the key it has taken.  *)
LEMMA WriteIndexKeepsInv ==
    ASSUME RInv, NEW t \in Thread, WriteIndex(t)
    PROVE  RInv'
<1> USE DEF RInv
<1>1. /\ pc[t] = "store" /\ pc' = [pc EXCEPT ![t] = return[t]]
      /\ mem' = [mem EXCEPT ![target[t]].index = local[t] + 1]
      /\ UNCHANGED <<job, target, return, local, keys, label, start>>
  BY DEF WriteIndex, Goto
<1>2. /\ Runs(t) /\ pc'[t] = return[t]
      /\ return[t] \in {"forward", "trim", "backward", "label"}
  BY <1>1 DEF TypeOK
<1>3. target[t] \in {"room", "backup"} /\ local[t] + 1 \in Nat BY DEF TypeOK
<1>4. /\ mem' \in Ratchets
      /\ \A p \in {"room", "backup"} :
            /\ mem'[p].root = mem[p].root /\ mem'[p].pos = mem[p].pos
            /\ mem'[p].index = IF p = target[t] THEN local[t] + 1 ELSE mem[p].index
  BY <1>1, <1>3, StoreIndex DEF TypeOK
<1>5. local[t] = mem[target[t]].index BY <1>1, <1>2 DEF Runs, Stepping
<1>6. /\ mem'.room.root = mem.room.root /\ mem'.backup.root = mem.backup.root
      /\ mem'.room.index = IF target[t] = "room" THEN mem.room.index + 1 ELSE mem.room.index
      /\ mem'.backup.index = IF target[t] = "backup" THEN mem.backup.index + 1
                                                     ELSE mem.backup.index
  BY <1>3, <1>4, <1>5
<1>7. Stepping(t)'
  <2>1. \A q \in {"room", "backup"} : Ahead(t, q) <=> q = target[t]
    BY <1>1 DEF Ahead
  <2>2. \A q \in {"room", "backup"} : ~Ahead(t, q)' BY <1>2 DEF Ahead
  <2>3. QED BY <1>2, <1>4, <1>5, <1>6, <2>1, <2>2 DEF Runs, Stepping
<1>8. SoundAt(start[t], mem.room.root)' BY <1>1, <1>2, <1>6 DEF Runs
<1>9. /\ pc[t] \in InNextKey /\ ~Keyless(t) /\ pc'[t] \notin InNextKey /\ pc'[t] # "done"
      /\ \A n : ChainKey(n)' = ChainKey(n)
  BY <1>1, <1>2, <1>6 DEF Keyless, ChainKey, InNextKey
<1>10. SendRuns(t)' \/ ForwardRuns(t)' \/ BackwardRuns(t)'
  <2>1. CASE SendRuns(t)
    <3>1. SendRuns(t)' BY <1>1, <1>2, <1>6, <1>9, <2>1 DEF SendRuns
    <3>2. QED BY <3>1
  <2>2. CASE ForwardRuns(t)
    <3>1. CASE target[t] = "room"
      <4>1. ForwardRuns(t)'
        BY <1>1, <1>2, <1>6, <1>9, <2>2, <3>1, Counters, WindowAssumption
           DEF ForwardRuns, Follows, Trimming
      <4>2. QED BY <4>1
    <3>2. CASE target[t] = "backup"
      <4>1. ForwardRuns(t)'
        BY <1>1, <1>2, <1>6, <1>9, <2>2, <3>2, Counters, WindowAssumption
           DEF ForwardRuns, Follows, Trimming
      <4>2. QED BY <4>1
    <3>3. QED BY <1>3, <3>1, <3>2
  <2>3. CASE BackwardRuns(t)
    <3>1. BackwardRuns(t)'
      BY <1>1, <1>2, <1>6, <1>9, <2>3, Counters DEF BackwardRuns
    <3>2. QED BY <3>1
  <2>4. QED BY <1>2, <2>1, <2>2, <2>3 DEF Runs
<1>11. mem'.room.index \in 0..MaxIndex + 1 /\ mem'.backup.index \in 0..MaxIndex + 1
  BY <1>2, <1>6, <1>9, Counters, WindowAssumption, MaxIndexAssumption
     DEF Runs, SendRuns, ForwardRuns, BackwardRuns, TypeOK, SoundAt
<1>12. TypeOK' BY <1>1, <1>2, <1>4, <1>11 DEF TypeOK
<1>13. QED BY <1>1, <1>2, <1>7, <1>8, <1>10, <1>12, OneRuns DEF Runs

-----------------------------------------------------------------------------
(* The label is read off the ratchet that has gone on by one.              *)
LEMMA LabelKeepsInv ==
    ASSUME RInv, NEW t \in Thread, Label(t)
    PROVE  RInv'
<1> USE DEF RInv
<1>1. /\ pc[t] = "label" /\ pc' = [pc EXCEPT ![t] = "done"]
      /\ label' = [label EXCEPT ![t] = mem.room.index - 1]
      /\ UNCHANGED <<mem, job, target, return, local, keys, start>>
  BY DEF Label, Goto
<1>2. Runs(t) /\ pc'[t] = "done" BY <1>1 DEF TypeOK
<1>3. SendRuns(t) BY <1>1, <1>2 DEF Runs, ForwardRuns, BackwardRuns, InNextKey
<1>4. mem.room.index - 1 = start[t].room.index /\ mem.room.index - 1 \in Nat
  BY <1>1, <1>3, Counters DEF SendRuns, InNextKey
<1>5. label' \in [Thread -> Nat] /\ label'[t] = start[t].room.index
  BY <1>1, <1>4 DEF TypeOK
<1>6. TypeOK' BY <1>1, <1>5 DEF TypeOK
<1>7. Stepping(t)' BY <1>1, <1>2 DEF Runs, Stepping, Ahead
<1>8. SendRuns(t)'
  BY <1>1, <1>2, <1>3, <1>5 DEF SendRuns, Keyless, ChainKey, InNextKey
<1>9. QED BY <1>1, <1>2, <1>6, <1>7, <1>8, OneRuns DEF Runs

(* A loop condition: the loop is left, or NextKey called.                  *)
Turns(t, q, back, exit) ==
    /\ \/ pc' = [pc EXCEPT ![t] = exit] /\ UNCHANGED <<target, return>>
       \/ /\ pc' = [pc EXCEPT ![t] = "info"]
          /\ target' = [target EXCEPT ![t] = q] /\ return' = [return EXCEPT ![t] = back]
    /\ UNCHANGED <<mem, job, local, keys, label, start>>

LEMMA TurnsOK ==
    ASSUME RInv, NEW t \in Thread, pc[t] \in {"forward", "trim", "backward"},
           NEW q \in {"room", "backup"}, NEW back \in {"forward", "trim", "backward"},
           NEW exit \in {"forward", "done"}, Turns(t, q, back, exit)
    PROVE  /\ Runs(t) /\ TypeOK' /\ Stepping(t)' /\ SoundAt(start[t], mem.room.root)'
           /\ pc'[t] \in {exit, "info"} /\ pc' = [pc EXCEPT ![t] = pc'[t]]
           /\ pc'[t] = "info" => target'[t] = q /\ return'[t] = back
           /\ \A n : ChainKey(n)' = ChainKey(n)
<1> USE DEF RInv
<1>1. Runs(t) OBVIOUS
<1>2. /\ pc'[t] \in {exit, "info"} /\ pc' = [pc EXCEPT ![t] = pc'[t]]
      /\ pc'[t] = "info" => target'[t] = q /\ return'[t] = back
  BY DEF TypeOK, Turns
<1>3. TypeOK' BY DEF TypeOK, Turns, InNextKey
<1>4. Stepping(t)' BY <1>1, <1>2 DEF Runs, Stepping, Ahead, Turns
<1>5. SoundAt(start[t], mem.room.root)' BY <1>1 DEF Runs, Turns
<1>6. \A n : ChainKey(n)' = ChainKey(n) BY DEF ChainKey, Turns
<1>7. QED BY <1>1, <1>2, <1>3, <1>4, <1>5, <1>6

LEMMA ForwardKeepsInv ==
    ASSUME RInv, NEW t \in Thread, Forward(t)
    PROVE  RInv'
<1> USE DEF RInv
<1>1. /\ pc[t] = "forward" /\ UNCHANGED <<mem, job, local, keys, label, start>>
      /\ IF mem.room.index <= job[t]
         THEN /\ pc' = [pc EXCEPT ![t] = "info"] /\ target' = [target EXCEPT ![t] = "room"]
              /\ return' = [return EXCEPT ![t] = "trim"]
         ELSE pc' = [pc EXCEPT ![t] = "done"] /\ UNCHANGED <<target, return>>
  BY DEF Forward, Call, Goto
<1>2. Turns(t, "room", "trim", "done") BY <1>1 DEF Turns
<1>3. /\ Runs(t) /\ TypeOK' /\ Stepping(t)' /\ SoundAt(start[t], mem.room.root)'
      /\ pc'[t] \in {"done", "info"} /\ pc' = [pc EXCEPT ![t] = pc'[t]]
      /\ pc'[t] = "info" => target'[t] = "room" /\ return'[t] = "trim"
      /\ \A n : ChainKey(n)' = ChainKey(n)
  BY <1>1, <1>2, TurnsOK
<1>4. pc'[t] = "info" <=> mem.room.index <= job[t] BY <1>1 DEF TypeOK
<1>5. ForwardRuns(t) BY <1>1, <1>3 DEF Runs, SendRuns, BackwardRuns, InNextKey
<1>6. ForwardRuns(t)'
  BY <1>1, <1>3, <1>4, <1>5, Counters
     DEF ForwardRuns, Trimming, Follows, Keyless, InNextKey
<1>7. QED BY <1>1, <1>3, <1>6, OneRuns DEF Runs

LEMMA TrimKeepsInv ==
    ASSUME RInv, NEW t \in Thread, Trim(t)
    PROVE  RInv'
<1> USE DEF RInv
<1>1. /\ pc[t] = "trim" /\ UNCHANGED <<mem, job, local, keys, label, start>>
      /\ IF mem.backup.index + Window <= mem.room.index
         THEN /\ pc' = [pc EXCEPT ![t] = "info"] /\ target' = [target EXCEPT ![t] = "backup"]
              /\ return' = [return EXCEPT ![t] = "trim"]
         ELSE pc' = [pc EXCEPT ![t] = "forward"] /\ UNCHANGED <<target, return>>
  BY DEF Trim, Call, Goto
<1>2. Turns(t, "backup", "trim", "forward") BY <1>1 DEF Turns
<1>3. /\ Runs(t) /\ TypeOK' /\ Stepping(t)' /\ SoundAt(start[t], mem.room.root)'
      /\ pc'[t] \in {"forward", "info"} /\ pc' = [pc EXCEPT ![t] = pc'[t]]
      /\ pc'[t] = "info" => target'[t] = "backup" /\ return'[t] = "trim"
      /\ \A n : ChainKey(n)' = ChainKey(n)
  BY <1>1, <1>2, TurnsOK
<1>4. pc'[t] = "info" <=> mem.backup.index + Window <= mem.room.index BY <1>1 DEF TypeOK
<1>5. ForwardRuns(t) BY <1>1, <1>3 DEF Runs, SendRuns, BackwardRuns, InNextKey
<1>6. ForwardRuns(t)'
  BY <1>1, <1>3, <1>4, <1>5, Counters, WindowAssumption
     DEF ForwardRuns, Trimming, Follows, Keyless, InNextKey
<1>7. QED BY <1>1, <1>3, <1>6, OneRuns DEF Runs

LEMMA BackwardKeepsInv ==
    ASSUME RInv, NEW t \in Thread, Backward(t)
    PROVE  RInv'
<1> USE DEF RInv
<1>1. /\ pc[t] = "backward" /\ UNCHANGED <<mem, job, local, keys, label, start>>
      /\ IF mem.backup.index <= job[t]
         THEN /\ pc' = [pc EXCEPT ![t] = "info"] /\ target' = [target EXCEPT ![t] = "backup"]
              /\ return' = [return EXCEPT ![t] = "backward"]
         ELSE pc' = [pc EXCEPT ![t] = "done"] /\ UNCHANGED <<target, return>>
  BY DEF Backward, Call, Goto
<1>2. Turns(t, "backup", "backward", "done") BY <1>1 DEF Turns
<1>3. /\ Runs(t) /\ TypeOK' /\ Stepping(t)' /\ SoundAt(start[t], mem.room.root)'
      /\ pc'[t] \in {"done", "info"} /\ pc' = [pc EXCEPT ![t] = pc'[t]]
      /\ pc'[t] = "info" => target'[t] = "backup" /\ return'[t] = "backward"
      /\ \A n : ChainKey(n)' = ChainKey(n)
  BY <1>1, <1>2, TurnsOK
<1>4. pc'[t] = "info" <=> mem.backup.index <= job[t] BY <1>1 DEF TypeOK
<1>5. BackwardRuns(t) BY <1>1, <1>3 DEF Runs, SendRuns, ForwardRuns, InNextKey
<1>6. BackwardRuns(t)'
  BY <1>1, <1>3, <1>4, <1>5, Counters DEF BackwardRuns, Keyless, InNextKey
<1>7. QED BY <1>1, <1>3, <1>6, OneRuns DEF Runs

(* A handler that is done leaves sound ratchets to the next.               *)
LEMMA FinishKeepsInv ==
    ASSUME RInv, NEW t \in Thread, Finish(t)
    PROVE  RInv'
<1> USE DEF RInv
<1>1. pc[t] = "done" /\ pc' = [pc EXCEPT ![t] = "idle"] /\ mem' = mem
  BY DEF Finish, Goto
<1>2. Runs(t) BY <1>1
<1>3. mem.room.root \in Room BY Counters
<1>4. SetInitialRatchet(NewRatchet(mem.room.root)) \in Ratchets
  BY <1>3 DEF SetInitialRatchet, NewRatchet, Ratchets, RoomRatchet
<1>5. TypeOK' BY <1>4 DEF Finish, Goto, TypeOK, Sending
<1>6. /\ mem.room.pos = mem.room.index /\ mem.backup.pos = mem.backup.index
      /\ mem.backup.root = mem.room.root
  BY <1>1, <1>2 DEF Runs, Stepping, Ahead
<1>7. start[t].backup.index <= start[t].room.index BY <1>2 DEF Runs, SoundAt
<1>8. mem.backup.index <= mem.room.index
  BY <1>1, <1>2, <1>7, Counters, WindowAssumption
     DEF Runs, SendRuns, ForwardRuns, BackwardRuns, Follows, Trimming, InNextKey
<1>9. SoundAt(mem, mem.room.root)' BY <1>1, <1>6, <1>8 DEF SoundAt
<1>10. QED BY <1>1, <1>5, <1>9, OneRuns

(* A handler starts on the ratchets the last one left.                     *)
LEMMA BeginKeepsInv ==
    ASSUME RInv, NEW t \in Thread, \A u \in Thread : pc[u] = "idle", Begin(t)
    PROVE  RInv'
<1> USE DEF RInv
<1>1. SoundAt(mem, mem.room.root) BY DEF Resting
<1>2. CASE Send(t)
  <2>1. /\ mem.room.index < MaxIndex /\ job' = [job EXCEPT ![t] = Sending]
        /\ start' = [start EXCEPT ![t] = mem] /\ pc' = [pc EXCEPT ![t] = "info"]
        /\ target' = [target EXCEPT ![t] = "room"] /\ return' = [return EXCEPT ![t] = "label"]
        /\ UNCHANGED <<mem, local, keys, label>>
    BY <1>2 DEF Send, Call, Goto
  <2>2. TypeOK' BY <2>1 DEF TypeOK, InNextKey
  <2>3. /\ job'[t] = Sending /\ start'[t] = mem /\ pc'[t] = "info"
        /\ target'[t] = "room" /\ return'[t] = "label"
        /\ \A u \in Thread \ {t} : pc'[u] = "idle"
    BY <2>1 DEF TypeOK
  <2>4. Stepping(t)' BY <1>1, <2>1, <2>3 DEF Stepping, SoundAt, Ahead
  <2>5. SendRuns(t)'
    BY <2>1, <2>3, Counters, MaxIndexAssumption DEF SendRuns, Keyless, InNextKey
  <2>6. Runs(t)' BY <1>1, <2>1, <2>3, <2>4, <2>5 DEF Runs
  <2>7. Alone' /\ Resting' BY <2>3 DEF Alone, Resting
  <2>8. ASSUME NEW u \in Thread, pc'[u] # "idle" PROVE Runs(u)' BY <2>3, <2>6, <2>8
  <2>9. QED BY <2>2, <2>7, <2>8
<1>3. ASSUME NEW i \in 0..MaxIndex, Receive(t, i) PROVE RInv'
  <2> DEFINE place == IF mem.room.index <= i THEN "forward" ELSE "backward"
  <2>1. /\ job' = [job EXCEPT ![t] = i] /\ keys' = [keys EXCEPT ![t] = {}]
        /\ start' = [start EXCEPT ![t] = mem] /\ pc' = [pc EXCEPT ![t] = place]
        /\ UNCHANGED <<mem, target, return, local, label>>
    BY <1>3 DEF Receive, Goto
  <2>2. TypeOK' BY <2>1 DEF TypeOK
  <2>3. /\ job'[t] = i /\ i # Sending /\ start'[t] = mem /\ keys'[t] = {} /\ pc'[t] = place
        /\ \A u \in Thread \ {t} : pc'[u] = "idle"
    BY <2>1, MaxIndexAssumption DEF TypeOK, Sending
  <2>4. Stepping(t)' BY <1>1, <2>1, <2>3 DEF Stepping, SoundAt, Ahead
  <2>5. ForwardRuns(t)' \/ BackwardRuns(t)'
    <3>1. CASE mem.room.index <= i
      <4>1. ForwardRuns(t)'
        BY <2>1, <2>3, <3>1, Counters DEF ForwardRuns, Trimming, InNextKey
      <4>2. QED BY <4>1
    <3>2. CASE ~(mem.room.index <= i)
      <4>1. pc'[t] = "backward" /\ i < mem.room.index
        BY <2>3, <3>2, Counters, MaxIndexAssumption
      <4>2. /\ mem' = mem /\ start'[t].room.index = mem.room.index
            /\ start'[t].backup.index = mem.backup.index /\ mem.backup.index \in Nat
        BY <2>1, <2>3, Counters
      <4>3. pc'[t] \notin InNextKey BY <4>1 DEF InNextKey
      <4>4. job'[t] = i /\ i # Sending /\ keys'[t] = {} BY <2>3
      <4>5. BackwardRuns(t)' BY ONLY <4>1, <4>2, <4>3, <4>4 DEF BackwardRuns
      <4>6. QED BY <4>5
    <3>3. QED BY <3>1, <3>2
  <2>6. Runs(t)' BY <1>1, <2>1, <2>3, <2>4, <2>5 DEF Runs
  <2>7. Alone' /\ Resting' BY <2>3 DEF Alone, Resting
  <2>8. ASSUME NEW u \in Thread, pc'[u] # "idle" PROVE Runs(u)' BY <2>3, <2>6, <2>8
  <2>9. QED BY <2>2, <2>7, <2>8
<1>4. QED BY <1>2, <1>3 DEF Begin

-----------------------------------------------------------------------------
(* A session some way into its room is at rest on its chain.               *)
THEOREM InitRInv == Init => RInv
<1> SUFFICES ASSUME Init PROVE RInv OBVIOUS
<1>1. PICK r \in Room, i \in 0..MaxIndex : \E b \in 0..i :
        mem = [room |-> AdvanceTo(NewRatchet(r), i), backup |-> AdvanceTo(NewRatchet(r), b)]
  BY DEF Init
<1>2. PICK b \in 0..i :
        mem = [room |-> AdvanceTo(NewRatchet(r), i), backup |-> AdvanceTo(NewRatchet(r), b)]
  BY <1>1
<1>3. i \in Nat /\ b \in Nat /\ b <= i /\ i <= MaxIndex BY MaxIndexAssumption
<1>4. \A n \in Nat : AdvanceTo(NewRatchet(r), n) = [root |-> r, pos |-> n, index |-> n]
  BY DEF AdvanceTo, NewRatchet
<1>5. mem = [room |-> [root |-> r, pos |-> i, index |-> i],
             backup |-> [root |-> r, pos |-> b, index |-> b]]
  BY <1>2, <1>3, <1>4
<1>6. mem \in Ratchets /\ mem.room.root = r /\ SoundAt(mem, r)
  BY <1>3, <1>5 DEF Ratchets, RoomRatchet, SoundAt
<1>7. mem.room.index \in 0..MaxIndex + 1 /\ mem.backup.index \in 0..MaxIndex + 1
  BY <1>3, <1>5, MaxIndexAssumption
<1>8. SetInitialRatchet(NewRatchet(r)) \in Ratchets
  BY DEF SetInitialRatchet, NewRatchet, Ratchets, RoomRatchet
<1>9. TypeOK BY <1>6, <1>7, <1>8 DEF Init, TypeOK
<1>10. \A t \in Thread : pc[t] = "idle" BY DEF Init
<1>11. QED BY <1>6, <1>9, <1>10 DEF RInv, Alone, Resting

(* A handler starts when none runs, and each of its steps keeps to its loop.*)
LEMMA NextRInv == ASSUME RInv, [SerialNext]_vars PROVE RInv'
<1>1. ASSUME NEW t \in Thread, \A u \in Thread : pc[u] = "idle", Begin(t) PROVE RInv'
  BY <1>1, BeginKeepsInv
<1>2. ASSUME NEW t \in Thread, Continue(t) PROVE RInv'
  BY <1>2, ReadsKeepInv, DeriveKeepsInv, WriteChainKeepsInv, WriteIndexKeepsInv, LabelKeepsInv,
     ForwardKeepsInv, TrimKeepsInv, BackwardKeepsInv, FinishKeepsInv
     DEF Continue
<1>3. ASSUME UNCHANGED vars PROVE RInv'
  <2>1. UNCHANGED <<mem, pc, job, target, return, local, keys, label, start>> BY <1>3 DEF vars
  <2>2. TypeOK' BY <2>1 DEF RInv, TypeOK
  <2>3. Alone' /\ Resting' BY <2>1 DEF RInv, Alone, Resting
  <2>4. ASSUME NEW t \in Thread, pc'[t] # "idle" PROVE Runs(t)'
    <3>1. Runs(t) BY <2>1, <2>4 DEF RInv
    <3>2. Stepping(t)' BY <2>1, <3>1 DEF Runs, Stepping, Ahead
    <3>3. SendRuns(t) => SendRuns(t)' BY <2>1 DEF SendRuns, Keyless, ChainKey
    <3>4. ForwardRuns(t) => ForwardRuns(t)'
      BY <2>1 DEF ForwardRuns, Keyless, ChainKey, Trimming, Follows
    <3>5. BackwardRuns(t) => BackwardRuns(t)' BY <2>1 DEF BackwardRuns, Keyless, ChainKey
    <3>6. QED BY <2>1, <3>1, <3>2, <3>3, <3>4, <3>5 DEF Runs
  <2>5. QED BY <2>2, <2>3, <2>4 DEF RInv
<1>4. QED BY <1>1, <1>2, <1>3 DEF SerialNext

(* The invariant of the loops, for goroutines that take turns.             *)
THEOREM RatchetInvariant == SerialSpec => []RInv
<1>1. QED BY InitRInv, NextRInv, PTL DEF SerialSpec

(* Every variable keeps its type, and no chain passes the bound.           *)
THEOREM RatchetTypes == SerialSpec => []TypeOK
<1>1. RInv => TypeOK BY DEF RInv
<1>2. QED BY <1>1, RatchetInvariant, PTL

(* handlers.go:387-407: what a lone decryptMessage ends with is the closed *)
(* form that ChatRoom uses, whatever state it started from.                *)
THEOREM RatchetDecryptIsClosedForm == SerialSpec => []DecryptIsClosedForm
<1>1. ASSUME RInv, NEW t \in Thread, pc[t] = "done", job[t] # Sending
      PROVE  /\ keys[t] = Decrypt(start[t], job[t]).keys
             /\ mem = Decrypt(start[t], job[t]).ratchets
  <2> DEFINE s == start[t]
             i == job[t]
             r == mem.room.root
  <2>1. TypeOK /\ Runs(t) BY <1>1 DEF RInv
  <2>2. /\ s.room = [root |-> r, pos |-> s.room.index, index |-> s.room.index]
        /\ s.backup = [root |-> r, pos |-> s.backup.index, index |-> s.backup.index]
        /\ s.backup.index <= s.room.index
        /\ s.room.index \in Nat /\ s.backup.index \in Nat /\ i \in Nat
    <3>1. s \in Ratchets /\ SoundAt(s, r) /\ i \in Nat
      BY <1>1, <2>1, Counters, MaxIndexAssumption DEF Runs
    <3>2. QED BY <3>1 DEF Ratchets, RoomRatchet, SoundAt
  <2>3. mem = [ room |-> [root |-> r, pos |-> mem.room.index, index |-> mem.room.index],
                backup |-> [root |-> r, pos |-> mem.backup.index, index |-> mem.backup.index] ]
    <3>1. /\ mem.room.pos = mem.room.index /\ mem.backup.pos = mem.backup.index
          /\ mem.backup.root = r
      BY <1>1, <2>1 DEF Runs, Stepping, Ahead
    <3>2. mem \in Ratchets BY <2>1 DEF TypeOK
    <3>3. QED BY <3>1, <3>2 DEF Ratchets, RoomRatchet
  <2>4. mem.room.index \in Nat /\ mem.backup.index \in Nat BY <2>1, Counters
  <2> HIDE DEF s, i, r
  <2>5. CASE s.room.index <= i
    <3>1. ForwardRuns(t) BY <1>1, <2>1, <2>2, <2>5 DEF Runs, SendRuns, BackwardRuns, s, i
    <3>2. /\ mem.room.index = i + 1 /\ keys[t] = {[root |-> r, pos |-> i, info |-> i]}
          /\ mem.backup.index = IF s.backup.index < i + 2 - Window THEN i + 2 - Window
                                                                  ELSE s.backup.index
      BY <1>1, <2>2, <2>5, <3>1, WindowAssumption
         DEF ForwardRuns, Trimming, Follows, ChainKey, InNextKey, s, i, r
    <3>3. /\ AdvanceTo(s.room, i) = [root |-> r, pos |-> i, index |-> i]
          /\ AdvanceTo(s.room, i + 1) = [root |-> r, pos |-> i + 1, index |-> i + 1]
      BY <2>2, <2>5 DEF AdvanceTo
    <3>4. AdvanceTo(s.backup, i + 2 - Window) =
            [root |-> r, pos |-> mem.backup.index, index |-> mem.backup.index]
      BY <2>2, <3>2, WindowAssumption DEF AdvanceTo
    <3>5. Decrypt(s, i) = ForwardDecrypt(s, i) BY <2>5 DEF Decrypt
    <3>6. keys[t] = ForwardDecrypt(s, i).keys BY <3>2, <3>3 DEF ForwardDecrypt, KeyOf
    <3>7. mem = ForwardDecrypt(s, i).ratchets BY <2>3, <3>2, <3>3, <3>4 DEF ForwardDecrypt
    <3>8. QED BY <3>5, <3>6, <3>7 DEF s, i
  <2>6. CASE i < s.room.index
    <3>1. BackwardRuns(t) BY <1>1, <2>1, <2>2, <2>6 DEF Runs, SendRuns, ForwardRuns, s, i
    <3>2. /\ mem.room.index = s.room.index /\ i < mem.backup.index
          /\ IF mem.backup.index = s.backup.index THEN keys[t] = {}
             ELSE /\ s.backup.index < mem.backup.index /\ mem.backup.index = i + 1
                  /\ keys[t] = {[root |-> r, pos |-> i, info |-> i]}
      BY <1>1, <2>2, <2>4, <3>1 DEF BackwardRuns, ChainKey, InNextKey, s, i, r
    <3>3. ~(s.room.index <= i) BY <2>2, <2>6
    <3>4. Decrypt(s, i) = BackwardDecrypt(s, i) BY <3>3 DEF Decrypt
    <3>5. CASE mem.backup.index = s.backup.index
      <4>1. ~(s.backup.index <= i) BY <2>2, <3>2, <3>5
      <4>2. mem = s
        <5>1. s = [room |-> s.room, backup |-> s.backup]
          BY <2>1, Counters DEF Ratchets, s
        <5>2. QED BY <2>2, <2>3, <3>2, <3>5, <5>1
      <4>3. QED BY <3>2, <3>4, <3>5, <4>1, <4>2 DEF BackwardDecrypt, s, i
    <3>6. CASE mem.backup.index # s.backup.index
      <4>1. s.backup.index <= i /\ mem.backup.index = i + 1 BY <2>2, <3>2, <3>6
      <4>2. /\ AdvanceTo(s.backup, i) = [root |-> r, pos |-> i, index |-> i]
            /\ AdvanceTo(s.backup, i + 1) = [root |-> r, pos |-> i + 1, index |-> i + 1]
        BY <2>2, <4>1 DEF AdvanceTo
      <4>3. keys[t] = BackwardDecrypt(s, i).keys
        BY <3>2, <3>6, <4>1, <4>2 DEF BackwardDecrypt, KeyOf
      <4>4. mem = BackwardDecrypt(s, i).ratchets
        BY <2>2, <2>3, <3>2, <4>1, <4>2 DEF BackwardDecrypt
      <4>5. QED BY <3>4, <4>3, <4>4 DEF s, i
    <3>7. QED BY <3>5, <3>6
  <2>7. QED BY <2>2, <2>5, <2>6 DEF s, i
<1>2. RInv => DecryptIsClosedForm BY <1>1 DEF DecryptIsClosedForm
<1>3. QED BY <1>2, RatchetInvariant, PTL

(* chat.go:124-131: a message is labelled with its key's index.            *)
THEOREM RatchetLabelIsKeyIndex == SerialSpec => []LabelIsKeyIndex
<1>1. ASSUME RInv, NEW t \in Thread, pc[t] = "done", job[t] = Sending
      PROVE  keys[t] = {[root |-> mem.room.root, pos |-> label[t], info |-> label[t]]}
  <2>1. SendRuns(t) BY <1>1 DEF RInv, Runs, ForwardRuns, BackwardRuns
  <2>2. QED BY <1>1, <2>1 DEF SendRuns, Keyless, ChainKey
<1>2. RInv => LabelIsKeyIndex BY <1>1 DEF LabelIsKeyIndex
<1>3. QED BY <1>2, RatchetInvariant, PTL
=============================================================================
