---------------------------- MODULE MCStandingScope ----------------------------
(* StandingScope on small instances. *)
EXTENDS StandingScope

CONSTANTS s1, s2

\* s1 is an R2 scope, s2 an R3 one that can never stand.
MCClassOf == [s \in Scopes |-> IF s = s1 THEN 2 ELSE 3]
================================================================================
