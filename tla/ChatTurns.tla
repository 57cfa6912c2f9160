----------------------------- MODULE ChatTurns -----------------------------
(***************************************************************************)
(* What the shared ratchet of a room gives people who take turns.  The     *)
(* code lets anybody send at any time, and two messages sent at once are   *)
(* then encrypted under one key.  Here a client sends only when its screen *)
(* shows every message of the room, its own included, and joins a room     *)
(* once in a session; all else is ChatRoom's: late and lost messages,      *)
(* several rooms and goroutines, exits and restarts.                       *)
(***************************************************************************)
EXTENDS ChatRoom

SeesAll(c) ==
    \A m \in 1..Len(published) :
        published[m].room = cur[c] => m \in screen[c]

SendTurn(c) == SeesAll(c) /\ Send(c)
EnterOnce(c, r) == r \notin ready[c] /\ Enter(c, r)

TurnsNext ==
    \E c \in Client :
        \/ Exit(c) \/ Restart(c)
        \/ \E r \in plan.visits[c] : EnterOnce(c, r)
        \/ Join(c) \/ SubscribeFails(c)
        \/ SendWithoutRoom(c) \/ SendTurn(c) \/ SendFails(c)
        \/ \E m \in Msg : Receive(c, m)
        \/ Commit(c)

TurnsSpec == Init /\ [][TurnsNext]_vars

(* No two messages are encrypted under the same key and nonce, which       *)
(* EncryptMessage both takes from NextKey: a client that shows a message   *)
(* has moved its ratchet past it, whichever way the message got there.     *)
NoKeyReuse ==
    \A m, n \in 1..Len(published) : published[m].key = published[n].key => m = n

-----------------------------------------------------------------------------
(* Turns again, while nothing fails: every subscription gets its messages  *)
(* in the order they were published, and processes keep running.           *)
Oldest1(c, m) == \A n \in Msg : pending[c][n] > 0 => m <= n
ReceiveInOrder(c, m) ==
    Receive(c, m) /\ (pending'[c][m] < pending[c][m] => Oldest1(c, m))

Handle(c) == Join(c) \/ \E m \in Msg : ReceiveInOrder(c, m)

OrderedNext ==
    \E c \in Client :
        \/ \E r \in plan.visits[c] : EnterOnce(c, r)
        \/ SendTurn(c) \/ Handle(c) \/ Commit(c)

(* The goroutines of a running process are scheduled, and the network      *)
(* delivers; nobody has to send or to join.                                *)
OrderedSpec ==
    /\ Init /\ [][OrderedNext]_vars
    /\ \A c \in Client : WF_vars(Handle(c)) /\ WF_vars(Commit(c))

(* Every message that reaches a chat goroutine decrypts: the others'       *)
(* through the room ratchet, a client's own, back from the topic, through  *)
(* the backup that trails it (handlers.go:387-407).                        *)
EveryMessageOpens ==
    [][\A c \in Client, m \in Msg : ~Undeciphered(c, m)]_vars

(* A delivered message ends on the screen.                                 *)
EventuallyShown ==
    \A c \in Client, m \in Msg :
        pending[c][m] > 0 ~> m \in screen[c]
=============================================================================
