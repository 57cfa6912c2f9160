------------------------------- MODULE MCHub -------------------------------
(* Clients, rooms and streams are alike; there is one server.              *)
EXTENDS Hub, TLC

MCServerOf == [r \in Room |-> CHOOSE s \in Server : TRUE]

Symmetry ==
    Permutations(Client) \cup Permutations(Room) \cup Permutations(Stream)
=============================================================================
