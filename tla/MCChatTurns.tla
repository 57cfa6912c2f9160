---------------------------- MODULE MCChatTurns ----------------------------
(* The clients of MCChatRoom, taking turns, without faults.               *)
EXTENDS ChatTurns

CONSTANTS c1, c2, r1

MCCreator == [r \in Room |-> c1]
MCPlans == { [visits |-> [c \in Client |-> {r1}], faults |-> [c \in Client |-> 0],
              failing |-> Client] }
=============================================================================
