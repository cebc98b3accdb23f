------------------------- MODULE SessionContract_proofs -------------------------
(***************************************************************************)
(* The contract of the session layer is strong enough: whatever keeps it,  *)
(* crashes included, admits one request at a time to a container.          *)
(***************************************************************************)
EXTENDS SessionContract, TLAPS

\* Nobody is inside the lock of a container that docker does not have yet; that is
\* what keeps two early holders from seeing it appear.
Held ==
  /\ phase \in [Cids -> {"absent", "present", "gone"}]
  /\ holders \in [Cids -> SUBSET Reqs]
  /\ \A c \in Cids : phase[c] = "absent" => holders[c] = {}
  /\ Exclusive

LEMMA StepKeepsHeld ==
  ASSUME Held, Step
  PROVE  Held'
<1>1. ASSUME NEW c \in Cids
      PROVE  /\ phase'[c] = "absent" => holders'[c] = {}
             /\ phase'[c] = "present" => \A q, r \in holders'[c] : q = r
  <2>1. CASE holders'[c] = holders[c]
    BY <2>1 DEF Held, Exclusive, Step, Moves
  <2>2. ASSUME NEW r \in Reqs, Enters(c, r)
        PROVE  /\ phase'[c] = "absent" => holders'[c] = {}
               /\ phase'[c] = "present" => \A q, s \in holders'[c] : q = s
    BY <2>2 DEF Held, Exclusive, Step, Moves, Enters
  <2>3. ASSUME NEW r \in Reqs, Leaves(c, r)
        PROVE  /\ phase'[c] = "absent" => holders'[c] = {}
               /\ phase'[c] = "present" => \A q, s \in holders'[c] : q = s
    BY <2>3 DEF Held, Exclusive, Step, Moves, Leaves
  <2> QED
    BY <2>1, <2>2, <2>3 DEF Step
<1> QED
  BY <1>1 DEF Held, Exclusive, Step

LEMMA CrashKeepsHeld ==
  ASSUME Held, Crash
  PROVE  Held'
BY DEF Held, Exclusive, Crash

\* The lock of a container that exists has one holder at a time.
THEOREM ContractExcludes == Spec => []Exclusive
<1>1. Init => Held
  BY DEF Init, Held, Exclusive
<1>2. Held /\ [Step \/ Crash]_cvars => Held'
  <2>1. Held /\ UNCHANGED cvars => Held'
    BY DEF Held, Exclusive, cvars
  <2> QED
    BY <2>1, StepKeepsHeld, CrashKeepsHeld
<1>3. Held => Exclusive
  BY DEF Held
<1> QED
  BY <1>1, <1>2, <1>3, PTL DEF Spec
=============================================================================
