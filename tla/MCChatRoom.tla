----------------------------- MODULE MCChatRoom -----------------------------
(* Two clients; c1 has created every room, c2 stays in one of them.  c1    *)
(* moves between rooms, while c2's joins may fail, or both stay in the     *)
(* room they share, where any join may fail and one of them meets a fault. *)
EXTENDS ChatRoom

CONSTANTS c1, c2, r1

MCCreator == [r \in Room |-> c1]
MCPlans ==
    { [visits |-> [c \in Client |-> IF c = c1 THEN Room ELSE {r1}],
       faults |-> [c \in Client |-> 0], failing |-> {c2}] } \cup
    { [visits |-> [c \in Client |-> {r1}],
       faults |-> [c \in Client |-> IF c = unlucky THEN 1 ELSE 0],
       failing |-> Client] : unlucky \in Client }
=============================================================================
