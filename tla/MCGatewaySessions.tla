--------------------------- MODULE MCGatewaySessions ---------------------------
(***************************************************************************)
(* Small instances of GatewaySessions for TLC.                             *)
(***************************************************************************)
EXTENDS GatewaySessions, TLC

CONSTANTS c1, c2, c3, r1, r2, r3, p1, p2

\* everybody is the same principal
OnePrincipal == [r \in Reqs |-> p1]

\* r3 is a principal of its own
TwoPrincipals == [r \in Reqs |-> IF r = r3 THEN p2 ELSE p1]

RequestSymmetry == Permutations(Reqs)
ContainerSymmetry == Permutations(Cids)
=============================================================================
