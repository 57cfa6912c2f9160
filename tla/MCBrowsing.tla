----------------------------- MODULE MCBrowsing -----------------------------
(* Two servers with a room each, the second behind a password.             *)
EXTENDS Browsing

CONSTANTS s1, s2, r1, r2

MCServerOf == [r \in Room |-> IF r = r1 THEN s1 ELSE s2]
=============================================================================
