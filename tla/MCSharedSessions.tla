--------------------------- MODULE MCSharedSessions ---------------------------
(***************************************************************************)
(* Small instances of SharedSessions for TLC: two gateways, g1 and g2.     *)
(***************************************************************************)
EXTENDS SharedSessions, TLC

CONSTANTS c1, c2, r1, r2, r3, g1, g2, d1, d2

\* r2 goes to the second gateway, the others to the first
Spread == [r \in Reqs |-> IF r = r2 THEN g2 ELSE g1]

OneDaemon == [g \in Gateways |-> d1]
OwnDaemons == [g \in Gateways |-> IF g = g1 THEN d1 ELSE d2]
=============================================================================
