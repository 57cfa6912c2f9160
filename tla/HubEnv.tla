------------------------------- MODULE HubEnv -------------------------------
(***************************************************************************)
(* How handleRPC reads a request.  The envelope is decoded into a package  *)
(* variable that all handlers share, its method and its params one after   *)
(* the other, and each is read from there later; the bytes of the params   *)
(* are written over those of the last request.  Module Hub takes all this  *)
(* as one step.                                                            *)
(***************************************************************************)
CONSTANTS
    Stream,
    Method,
    Server, Room,
    None           \* no value yet

VARIABLES
    asked,         \* the request sent on each stream
    env,           \* the shared envelope
    pc,            \* where each handler is
    method,        \* the method it dispatched on
    answered       \* the request whose response it sent, None if it sent none

vars == <<asked, env, pc, method, answered>>

Params == Server \X Room
Envelope == [method : Method, params : Params]

TypeOK ==
    /\ asked \in [Stream -> Envelope \cup {None}]
    /\ env \in [method : Method \cup {None}, params : Params \cup {None}]
    /\ pc \in [Stream -> {"off", "method", "params", "dispatch", "unmarshal", "done"}]
    /\ method \in [Stream -> Method \cup {None}]
    /\ answered \in [Stream -> Envelope \cup {None}]

Init ==
    /\ asked = [i \in Stream |-> None]
    /\ env = [method |-> None, params |-> None]
    /\ pc = [i \in Stream |-> "off"]
    /\ method = [i \in Stream |-> None]
    /\ answered = [i \in Stream |-> None]

Goto(i, place) == pc' = [pc EXCEPT ![i] = place]

(* A peer opens a stream and sends a request on it.                        *)
SendRPC(i) ==
    /\ pc[i] \in {"off", "done"} /\ Goto(i, "method")
    /\ \E e \in Envelope : asked' = [asked EXCEPT ![i] = e]
    /\ method' = [method EXCEPT ![i] = None]
    /\ answered' = [answered EXCEPT ![i] = None]
    /\ UNCHANGED env

DecodeMethod(i) ==
    /\ pc[i] = "method" /\ Goto(i, "params")
    /\ env' = [env EXCEPT !.method = asked[i].method]
    /\ UNCHANGED <<asked, method, answered>>

DecodeParams(i) ==
    /\ pc[i] = "params" /\ Goto(i, "dispatch")
    /\ env' = [env EXCEPT !.params = asked[i].params]
    /\ UNCHANGED <<asked, method, answered>>

(* Another handler is writing what this one reads.                         *)
Raced(i, place) == { j \in Stream \ {i} : pc[j] = place }

Dispatch(i) ==
    /\ pc[i] = "dispatch" /\ Goto(i, "unmarshal")
    /\ method' = [method EXCEPT ![i] = env.method]
    /\ UNCHANGED <<asked, env, answered>>

(* A method that is being written may read as no known one.                *)
UnknownMethod(i) ==
    /\ pc[i] = "dispatch" /\ Raced(i, "method") # {} /\ Goto(i, "done")
    /\ UNCHANGED <<asked, env, method, answered>>

(* Each field is the old one, or one that is being written over it.        *)
Read(i) ==
    LET written == {env.params} \cup { asked[j].params : j \in Raced(i, "params") }
    IN  { <<p[1], q[2]>> : p, q \in written }

Unmarshal(i) ==
    /\ pc[i] = "unmarshal" /\ Goto(i, "done")
    /\ \E p \in Read(i) :
          answered' = [answered EXCEPT ![i] = [method |-> method[i], params |-> p]]
    /\ UNCHANGED <<asked, env, method>>

(* Bytes of two requests need not parse.                                   *)
UnmarshalFails(i) ==
    /\ pc[i] = "unmarshal" /\ Raced(i, "params") # {} /\ Goto(i, "done")
    /\ UNCHANGED <<asked, env, method, answered>>

Next == \E i \in Stream :
    \/ SendRPC(i) \/ DecodeMethod(i) \/ DecodeParams(i)
    \/ Dispatch(i) \/ UnknownMethod(i) \/ Unmarshal(i) \/ UnmarshalFails(i)

Spec == Init /\ [][Next]_vars

(* server.go:117-118: handleRPC expects an envelope {method, params} and   *)
(* returns the response, which is the one to that envelope.                *)
AnswersItsRequest ==
    \A i \in Stream : pc[i] = "done" => answered[i] \in {asked[i], None}
=============================================================================
