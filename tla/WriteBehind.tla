---------------------------- MODULE WriteBehind ----------------------------
(***************************************************************************)
(* What History promises of the messages it accepts: they reach the        *)
(* messages table in the order they were accepted, the first one under a   *)
(* room and index stays, and what has not been written is gone when a      *)
(* write fails or the process ends.  Nothing is written twice, invented    *)
(* or overtaken, however writes are batched.                               *)
(***************************************************************************)
EXTENDS Integers, Sequences

CONSTANT Row       \* [room, index, msg]

VARIABLES
    todo,          \* accepted and not yet written, oldest first
    table          \* the messages table

vars == <<todo, table>>

(* INSERT OR IGNORE under the unique index on (room_id, chain_index).      *)
Insert(rows, row) ==
    IF \E x \in rows : x.room = row.room /\ x.index = row.index
    THEN rows ELSE rows \cup {row}

Init == todo = << >> /\ table = {}

Accept(row) == todo' = Append(todo, row) /\ UNCHANGED table

Write ==
    /\ todo # << >>
    /\ todo' = Tail(todo)
    /\ table' = Insert(table, Head(todo))

Fail ==
    /\ todo # << >>
    /\ todo' = Tail(todo)
    /\ UNCHANGED table

End == todo' = << >> /\ UNCHANGED table

Next == (\E row \in Row : Accept(row)) \/ Write \/ Fail \/ End

Spec == Init /\ [][Next]_vars
=============================================================================
