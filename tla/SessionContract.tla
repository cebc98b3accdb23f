---------------------------- MODULE SessionContract ----------------------------
(***************************************************************************)
(* What the session layer of the gateway promises of each container,       *)
(* whatever backend keeps the state: while the container exists its        *)
(* session record is not forgotten and at most one request at a time is    *)
(* inside its execution lock, which only a tracked container admits to.    *)
(* Once the container is gone nothing is promised but that it stays gone.  *)
(***************************************************************************)
EXTENDS Integers, FiniteSets

CONSTANTS Cids, Reqs

VARIABLES
  phase,      \* [Cids -> {"absent", "present", "gone"}]: what docker knows
  tracked,    \* the containers that have a session record
  holders,    \* [Cids -> SUBSET Reqs]: the requests inside the execution lock
  epoch       \* which incarnation of the gateway process this is

cvars == <<phase, tracked, holders, epoch>>

Init ==
  /\ phase \in [Cids -> {"absent", "present"}]
  /\ tracked \in SUBSET Cids
  /\ holders = [c \in Cids |-> {}]
  /\ epoch = 0

\* A container appears at most once, and never comes back.
Moves(c) ==
  \/ phase'[c] = phase[c]
  \/ phase[c] = "absent" /\ phase'[c] \in {"present", "gone"}
  \/ phase[c] = "present" /\ phase'[c] = "gone"

Remembers(c) == phase[c] = "present" /\ c \in tracked => c \in tracked'

Enters(c, r) ==
  /\ c \in tracked
  /\ phase[c] # "absent"
  /\ phase[c] = "present" => holders[c] = {}
  /\ holders'[c] = holders[c] \cup {r}

Leaves(c, r) == holders'[c] = holders[c] \ {r}

Step ==
  /\ phase' \in [Cids -> {"absent", "present", "gone"}]
  /\ tracked' \in SUBSET Cids
  /\ holders' \in [Cids -> SUBSET Reqs]
  /\ \A c \in Cids :
       /\ Moves(c)
       /\ Remembers(c)
       /\ \/ holders'[c] = holders[c]
          \/ \E r \in Reqs : Enters(c, r) \/ Leaves(c, r)
  /\ epoch' = epoch

\* The process dies: its memory is gone, the containers are not.
Crash ==
  /\ phase' \in [Cids -> {"absent", "present", "gone"}]
  /\ \A c \in Cids : Moves(c)
  /\ tracked' \in SUBSET Cids
  /\ holders' = [c \in Cids |-> {}]
  /\ epoch' = epoch + 1

Spec == Init /\ [][Step \/ Crash]_cvars

\* The promise as an invariant: the lock of a container that exists has one holder.
Exclusive ==
  \A c \in Cids : phase[c] = "present" => \A q, r \in holders[c] : q = r
=============================================================================
