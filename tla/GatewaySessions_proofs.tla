------------------------- MODULE GatewaySessions_proofs -------------------------
(***************************************************************************)
(* What is proved of GatewaySessions for every value of its constants:     *)
(* Inductive is an invariant, and so LockExclusion is one.                 *)
(*                                                                         *)
(* Almost every action ends in Leave (the handler returns, giving back     *)
(* what it holds) or in Goto (it moves to its next suspension point), and  *)
(* does something to docker and to the store besides.  Frame says what     *)
(* that something may be; LeaveKeeps and GotoKeeps show that Inductive     *)
(* survives it; each action then only has to establish its Frame.          *)
(***************************************************************************)
EXTENDS GatewaySessions, TLAPS

\* The counters count, and the process lives on.
Counted == CounterType' /\ restarts' = restarts

\* What the contract asks of docker and the store.
Promised ==
  \A c \in Cids :
    /\ Real(c) => Real(c)'
    /\ box[c].status = "gone" => box'[c].status = "gone"
    /\ box[c].status # "gone" /\ sessions[c] # NoObj => sessions'[c] # NoObj

\* What a step may do to docker, the store and the cleanup task's lists.
Frame ==
  /\ DockerType' /\ StoreType' /\ ReaperType'
  /\ Counted /\ Promised
  /\ \A c \in Cids :
       /\ (\E q \in Reqs : pc[q] = "c_run" /\ pc'[q] = "c_run" /\ cid[q] = c)
            => box'[c].status = "starting"
       /\ box'[c].known \/ sessions'[c] # NoObj => Real(c)'
       /\ box[c].status # "gone" => lockTable'[c] = lockTable[c]
  /\ \A c \in todo' \cup listed' : Real(c)'

\* A step that keeps what is promised, and at most lets one request in or out of one
\* container's execution lock, is a step of the contract.
LEMMA ContractStep ==
  ASSUME DockerType, DockerType', StoreType, StoreType', Counted, Promised,
         \A c \in Cids :
           \/ Holders(c)' = Holders(c)
           \/ \E r \in Reqs : Holders(c)' = Holders(c) \ {r}
           \/ \E r \in Reqs : /\ Holders(c)' = Holders(c) \cup {r}
                              /\ c \in Tracked /\ Real(c)
                              /\ box[c].status # "gone" => Holders(c) = {}
  PROVE  Contract!Step
<1>1. \A c \in Cids : Phase(c) \in {"absent", "present", "gone"}
                      /\ Phase(c)' \in {"absent", "present", "gone"}
  BY DEF Phase
<1>2. \A c \in Cids : Holders(c) \in SUBSET Reqs /\ Holders(c)' \in SUBSET Reqs
  BY DEF Holders
<1>3. \A c \in Cids : Contract!Moves(c)
  BY <1>1 DEF Contract!Moves, Phase, Promised, Real, DockerType, BoxType, BoxStates
<1>4. \A c \in Cids : Contract!Remembers(c)
  BY DEF Contract!Remembers, Phase, Promised, Tracked
<1>5. \A c \in Cids : \/ [x \in Cids |-> Holders(x)]'[c] = [x \in Cids |-> Holders(x)][c]
                      \/ \E r \in Reqs : Contract!Enters(c, r) \/ Contract!Leaves(c, r)
  BY DEF Contract!Enters, Contract!Leaves, Phase, Real
<1>6. Tracked' \in SUBSET Cids
  BY DEF Tracked
<1> QED
  BY <1>1, <1>2, <1>3, <1>4, <1>5, <1>6 DEF Contract!Step, Counted

\* What every step but a crash does.
Kept == Inductive' /\ Contract!Step

-----------------------------------------------------------------------------
\* Leave keeps the types of everything the handler gives back.
LEMMA LeaveType ==
  ASSUME HandlerType, NEW r \in Reqs, NEW o \in Outcomes, Leave(r, o)
  PROVE  HandlerType'
<1>1. r \in Actors /\ o \in Steps
  BY DEF Actors, Steps, Outcomes
<1>2. pc' \in [Actors -> Steps]
  BY <1>1 DEF HandlerType, Leave
<1>3. locked' \in [Cids -> SUBSET LockIds]
  BY DEF HandlerType, Leave, Unlock
<1>4. slots' \in Nat
  BY DEF HandlerType, Leave, ReturnSlot
<1> QED
  BY <1>2, <1>3, <1>4 DEF HandlerType, Leave, NoLock, NoObj

\* A handler that leaves gives back its own lock only, and nobody else's.
LEMMA LeaveLock ==
  ASSUME Inductive, NEW r \in Reqs, NEW o \in Outcomes, Leave(r, o), Frame
  PROVE  LockInv'
<1> USE DEF Inductive
<1>1. ASSUME NEW q \in Reqs, lock'[q] # NoLock
      PROVE  /\ q # r
             /\ lock'[q] = lock[q] /\ lock[q] # NoLock /\ pc'[q] = pc[q]
             /\ cid'[q] = cid[q] /\ cid[q] \in Cids
             /\ pc[q] \in LockSteps
             /\ InLock(q)' <=> InLock(q)
  <2>1. q # r /\ lock'[q] = lock[q] /\ pc'[q] = pc[q]
    BY <1>1 DEF Leave, TypeOK, HandlerType, Actors, NoLock
  <2>2. pc[q] \in LockSteps /\ pc[q] \in ContainerSteps /\ q \in Actors
    BY <1>1, <2>1 DEF LockInv, LockSteps, ContainerSteps, Actors
  <2>3. cid[q] \in Cids
    BY <2>2 DEF PlacesInv
  <2> QED
    BY <1>1, <2>1, <2>2, <2>3 DEF Leave, InLock
<1>2. ASSUME NEW q \in Reqs, InLock(q)'
      PROVE  lock'[q] \in locked'[cid'[q]]
  <2>1. q # r /\ InLock(q) /\ lock'[q] = lock[q] /\ cid'[q] = cid[q] /\ cid[q] \in Cids
    BY <1>1, <1>2 DEF InLock
  <2>2. lock[q] \in locked[cid[q]]
    BY <2>1 DEF LockInv
  <2>3. InLock(r) /\ cid[r] = cid[q] => lock[r] # lock[q]
    BY <2>1 DEF LockInv
  <2> QED
    BY <2>1, <2>2, <2>3 DEF Leave, Unlock, TypeOK, HandlerType
<1>3. ASSUME NEW q \in Reqs, lock'[q] # NoLock, box'[cid'[q]].status # "gone"
      PROVE  lockTable'[cid'[q]] = lock'[q]
  <2>1. box[cid[q]].status # "gone" /\ lockTable'[cid[q]] = lockTable[cid[q]]
    BY <1>1, <1>3 DEF Frame, Promised
  <2> QED
    BY <1>1, <1>3, <2>1 DEF LockInv
<1>4. ASSUME NEW q1 \in Reqs, NEW q2 \in Reqs, q1 # q2, InLock(q1)', InLock(q2)',
             cid'[q1] = cid'[q2]
      PROVE  lock'[q1] # lock'[q2]
  <2>1. InLock(q1) /\ lock'[q1] = lock[q1] /\ cid'[q1] = cid[q1]
    BY <1>1, <1>4 DEF InLock
  <2>2. InLock(q2) /\ lock'[q2] = lock[q2] /\ cid'[q2] = cid[q2]
    BY <1>1, <1>4 DEF InLock
  <2> QED
    BY <1>4, <2>1, <2>2 DEF LockInv
<1>5. ASSUME NEW q \in Reqs, pc'[q] = "x_lock"
      PROVE  lock'[q] # NoLock
  <2>1. q # r /\ pc[q] = "x_lock" /\ lock'[q] = lock[q]
    BY <1>5 DEF Leave, TypeOK, HandlerType, Actors, Outcomes
  <2> QED
    BY <2>1 DEF LockInv
<1> QED
  BY <1>1, <1>2, <1>3, <1>4, <1>5 DEF LockInv

\* Leaving disturbs nobody's place.
LEMMA LeavePlaces ==
  ASSUME Inductive, NEW r \in Reqs, NEW o \in Outcomes, Leave(r, o), Frame
  PROVE  PlacesInv' /\ ConfirmInv'
<1> USE DEF Inductive
<1>1. ASSUME NEW a \in Actors, pc'[a] \in ContainerSteps \cup {"c_run"}
      PROVE  /\ a # r /\ pc'[a] = pc[a] /\ cid'[a] = cid[a]
             /\ a \in Reqs => obj'[a] = obj[a]
             /\ creating = a => creating' = a
  BY <1>1 DEF Leave, TypeOK, HandlerType, Actors, ContainerSteps, Outcomes, CreateSteps,
     AccessSteps, ExecSteps, RemovalSteps
<1>2. ASSUME NEW a \in Actors, pc'[a] \in ContainerSteps
      PROVE  cid'[a] \in Cids /\ box'[cid'[a]].status \in {"up", "dead", "gone"}
  BY <1>1, <1>2 DEF PlacesInv, Frame, Promised, Real
<1>3. ASSUME NEW q \in Reqs, pc'[q] = "c_run"
      PROVE  creating' = q /\ cid'[q] \in Cids /\ box'[cid'[q]].status = "starting"
  BY <1>1, <1>3 DEF PlacesInv, Frame, Promised, Actors
<1>4. ASSUME NEW q \in Reqs, pc'[q] \in {"x_get", "x_got"}
      PROVE  obj'[q] \in ObjIds
  BY <1>1, <1>4 DEF PlacesInv, Actors, ContainerSteps, ExecSteps
<1>5. ASSUME NEW a \in Actors, pc'[a] = "rm_confirm"
      PROVE  box'[cid'[a]].status = "gone"
  <2>1. pc[a] = "rm_confirm" /\ cid'[a] = cid[a] /\ cid[a] \in Cids
    BY <1>1, <1>5 DEF PlacesInv, ContainerSteps, RemovalSteps
  <2> QED
    BY <2>1 DEF ConfirmInv, Frame, Promised
<1> QED
  BY <1>2, <1>3, <1>4, <1>5 DEF PlacesInv, ConfirmInv, Frame, Promised, Tracked, Real

LEMMA LeaveKeeps ==
  ASSUME Inductive, NEW r \in Reqs, NEW o \in Outcomes, Leave(r, o), Frame
  PROVE  Kept
<1>1. Inductive'
  BY LeaveType, LeaveLock, LeavePlaces DEF Inductive, TypeOK, Frame, Counted
<1>2. \A q \in Reqs : /\ cid'[q] = cid[q]
                      /\ InLock(q)' <=> q # r /\ InLock(q)
  BY DEF Inductive, TypeOK, HandlerType, Leave, InLock, Actors
<1>3. \A c \in Cids : Holders(c)' = Holders(c) \ {r}
  BY <1>2 DEF Holders
<1> QED
  BY <1>1, <1>3, ContractStep DEF Kept, Inductive, TypeOK, Frame

-----------------------------------------------------------------------------
\* Goto, and what may go with it: a handler notes what to report at the end.
Moves(a, p) ==
  /\ pc' = [pc EXCEPT ![a] = p]
  /\ end' \in [Reqs -> {"done", "deleted", "timed_out"}]
  /\ UNCHANGED <<cid, op, obj, lock, locked, slots, creating>>

\* Moving on to another suspension point respects the locks, as long as it does not
\* cross execution_lock.
LEMMA MovesLock ==
  ASSUME Inductive, NEW a \in Actors, NEW p \in Steps, Moves(a, p), Frame,
         a \in Reqs => /\ p # "x_lock" /\ pc[a] # "x_lock"
                       /\ lock[a] # NoLock => p \in LockSteps
  PROVE  LockInv'
<1> USE DEF Inductive
<1>1. ASSUME NEW q \in Reqs, lock[q] # NoLock
      PROVE  pc'[q] \in LockSteps /\ cid[q] \in Cids /\ (InLock(q)' <=> InLock(q))
  <2>1. q \in Actors /\ pc[q] \in LockSteps /\ pc[q] \in ContainerSteps
    BY <1>1 DEF LockInv, LockSteps, ContainerSteps, Actors
  <2> QED
    BY <1>1, <2>1 DEF PlacesInv, Moves, InLock, TypeOK, HandlerType, Actors
<1>2. ASSUME NEW q \in Reqs, InLock(q)'
      PROVE  InLock(q)
  BY <1>1, <1>2 DEF InLock, Moves
<1>3. ASSUME NEW q \in Reqs, lock'[q] # NoLock, box'[cid'[q]].status # "gone"
      PROVE  lockTable'[cid'[q]] = lock'[q]
  BY <1>1, <1>3 DEF Moves, Frame, Promised, LockInv
<1> QED
  BY <1>1, <1>2, <1>3 DEF LockInv, Moves

\* Moving on puts the handler in its place and leaves the others in theirs.
LEMMA MovesPlaces ==
  ASSUME Inductive, NEW a \in Actors, NEW p \in Steps, Moves(a, p), Frame,
         p \in ContainerSteps => /\ cid[a] \in Cids
                                 /\ \/ Real(cid[a])
                                    \/ box'[cid[a]].status \in {"up", "dead", "gone"},
         p # "c_run",
         a \in Reqs /\ p \in {"x_get", "x_got"} => obj[a] \in ObjIds,
         p = "rm_confirm" => box'[cid[a]].status = "gone"
  PROVE  PlacesInv' /\ ConfirmInv'
<1> USE DEF Inductive
<1>1. /\ \A b \in Actors : pc'[b] = IF b = a THEN p ELSE pc[b]
      /\ cid' = cid /\ obj' = obj /\ creating' = creating
  BY DEF Moves, TypeOK, HandlerType
<1>2. ASSUME NEW b \in Actors, pc'[b] \in ContainerSteps
      PROVE  cid[b] \in Cids /\ box'[cid[b]].status \in {"up", "dead", "gone"}
  BY <1>1, <1>2 DEF PlacesInv, Frame, Promised, Real
<1>3. ASSUME NEW q \in Reqs, pc'[q] = "c_run"
      PROVE  creating = q /\ cid[q] \in Cids /\ box'[cid[q]].status = "starting"
  BY <1>1, <1>3 DEF PlacesInv, Frame, Promised, Actors
<1>4. ASSUME NEW q \in Reqs, pc'[q] \in {"x_get", "x_got"}
      PROVE  obj[q] \in ObjIds
  BY <1>1, <1>4 DEF PlacesInv, Actors
<1>5. ASSUME NEW b \in Actors, pc'[b] = "rm_confirm"
      PROVE  box'[cid[b]].status = "gone"
  <2>1. CASE b = a
    BY <1>1, <1>5, <2>1
  <2>2. CASE b # a
    <3>1. pc[b] = "rm_confirm" /\ cid[b] \in Cids
      BY <1>1, <1>5, <2>2 DEF PlacesInv, ContainerSteps, RemovalSteps
    <3> QED
      BY <3>1 DEF ConfirmInv, Frame, Promised
  <2> QED
    BY <2>1, <2>2
<1> QED
  BY <1>1, <1>2, <1>3, <1>4, <1>5 DEF PlacesInv, ConfirmInv, Frame, Promised, Tracked, Real

LEMMA MovesKeeps ==
  ASSUME Inductive, NEW a \in Actors, NEW p \in Steps, Moves(a, p), Frame,
         p \in ContainerSteps => /\ cid[a] \in Cids
                                 /\ \/ Real(cid[a])
                                    \/ box'[cid[a]].status \in {"up", "dead", "gone"},
         p # "c_run",
         a \in Reqs => /\ p # "x_lock" /\ pc[a] # "x_lock"
                       /\ lock[a] # NoLock => p \in LockSteps
                       /\ p \in {"x_get", "x_got"} => obj[a] \in ObjIds,
         p = "rm_confirm" => box'[cid[a]].status = "gone"
  PROVE  Kept
<1>1. HandlerType'
  BY DEF Inductive, TypeOK, HandlerType, Moves
<1>2. LockInv'
  BY MovesLock
<1>3. PlacesInv' /\ ConfirmInv'
  BY MovesPlaces
<1>4. \A q \in Reqs : InLock(q)' <=> InLock(q)
  BY DEF Inductive, TypeOK, HandlerType, LockInv, Moves, InLock, Actors, LockSteps
<1>5. \A c \in Cids : Holders(c)' = Holders(c)
  BY <1>4 DEF Holders, Moves
<1>6. Contract!Step
  BY <1>5, ContractStep DEF Inductive, TypeOK, Frame
<1> QED
  BY <1>1, <1>2, <1>3, <1>6 DEF Kept, Inductive, TypeOK, Frame, Counted

LEMMA GotoKeeps ==
  ASSUME Inductive, NEW a \in Actors, NEW p \in Steps, Goto(a, p), Frame,
         p \in ContainerSteps => /\ cid[a] \in Cids
                                 /\ \/ Real(cid[a])
                                    \/ box'[cid[a]].status \in {"up", "dead", "gone"},
         p # "c_run",
         a \in Reqs => /\ p # "x_lock" /\ pc[a] # "x_lock"
                       /\ lock[a] # NoLock => p \in LockSteps
                       /\ p \in {"x_get", "x_got"} => obj[a] \in ObjIds,
         p = "rm_confirm" => box'[cid[a]].status = "gone"
  PROVE  Kept
<1>1. Moves(a, p)
  BY DEF Goto, holdings, Moves, Inductive, TypeOK, HandlerType
<1> QED
  BY <1>1, MovesKeeps

\* All handlers stay where they are.
LEMMA StaysKeeps ==
  ASSUME Inductive, UNCHANGED <<pc, holdings>>, Frame
  PROVE  Kept
<1> USE DEF Inductive
<1>1. \A r \in Reqs : InLock(r)' <=> InLock(r)
  BY DEF InLock, holdings
<1>2. \A r \in Reqs : lock[r] # NoLock => cid[r] \in Cids
  BY DEF LockInv, PlacesInv, LockSteps, ContainerSteps, Actors
<1>3. LockInv'
  BY <1>1, <1>2 DEF LockInv, Frame, Promised, holdings
<1>4. ConfirmInv'
  BY DEF ConfirmInv, PlacesInv, Frame, Promised, ContainerSteps, RemovalSteps, holdings
<1>5. PlacesInv'
  BY DEF PlacesInv, Frame, Promised, Tracked, Real, holdings
<1>6. \A c \in Cids : Holders(c)' = Holders(c)
  BY <1>1 DEF Holders, holdings
<1>7. Contract!Step
  BY <1>6, ContractStep DEF TypeOK, Frame
<1> QED
  BY <1>3, <1>4, <1>5, <1>7 DEF Kept, TypeOK, HandlerType, Frame, Counted, holdings

-----------------------------------------------------------------------------
(***************************************************************************)
(* The Frames the actions need                                             *)
(***************************************************************************)
\* Nothing happens to docker and the store; the cleanup task's lists only shrink.
LEMMA FrameSame ==
  ASSUME Inductive, Counted, UNCHANGED <<docker, store>>,
         todo' \subseteq todo, listed' \subseteq listed, snap' \in SUBSET Cids
  PROVE  Frame
BY DEF Inductive, Frame, Counted, Promised, TypeOK, DockerType, StoreType, ReaperType, PlacesInv, docker,
   store, Real, Tracked

\* The session of a container that is gone is deleted.
LEMMA FrameDelete ==
  ASSUME Inductive, Counted, UNCHANGED docker, NEW c \in Cids, DeleteSession(c),
         box[c].status = "gone",
         todo' \subseteq todo, listed' \subseteq listed, snap' \in SUBSET Cids
  PROVE  Frame
<1>1. StoreType'
  BY DEF Inductive, TypeOK, StoreType, DeleteSession, NoObj, NoLock
<1>2. \A x \in Cids : box[x].status # "gone" => lockTable'[x] = lockTable[x]
  BY DEF Inductive, TypeOK, StoreType, DeleteSession
<1>3. \A x \in Cids : sessions'[x] # NoObj => sessions[x] # NoObj
  BY DEF Inductive, TypeOK, StoreType, DeleteSession, NoObj
<1>4. Promised
  BY DEF Inductive, TypeOK, StoreType, DeleteSession, Promised, docker, Real
<1>5. DockerType' /\ ReaperType'
  BY DEF Inductive, TypeOK, DockerType, ReaperType, docker
<1> QED
  BY <1>1, <1>2, <1>3, <1>4, <1>5 DEF Inductive, Frame, ReaperType, PlacesInv, docker, Real,
     Tracked

\* The session of a container docker has or had is saved.
LEMMA FrameSave ==
  ASSUME Inductive, Counted, NEW c \in Cids, NEW k \in ObjIds,
         NEW s \in [count : Nat, last : Nat], SaveSession(c, k, s), Real(c),
         UNCHANGED running, UNCHANGED reaping,
         \/ box' = box
         \/ box' = [box EXCEPT ![c].known = TRUE]
  PROVE  Frame
<1>1. StoreType'
  BY DEF Inductive, TypeOK, StoreType, SaveSession
<1>2. lockTable' = lockTable /\ \A x \in Cids \ {c} : sessions'[x] = sessions[x]
  BY DEF Inductive, TypeOK, StoreType, SaveSession
<1>3. /\ box' \in [Cids -> BoxType]
      /\ \A x \in Cids : box'[x].status = box[x].status
      /\ \A x \in Cids \ {c} : box'[x].known = box[x].known
  <2>1. CASE box' = box
    BY <2>1 DEF Inductive, TypeOK, DockerType, BoxType
  <2>2. CASE box' = [box EXCEPT ![c].known = TRUE]
    <3>1. box \in [Cids -> BoxType]
      BY DEF Inductive, TypeOK, DockerType
    <3>2. [box[c] EXCEPT !.known = TRUE] \in BoxType
      BY <3>1 DEF BoxType
    <3>3. \A x \in Cids : box'[x] = IF x = c THEN [box[c] EXCEPT !.known = TRUE]
                                             ELSE box[x]
      BY <2>2, <3>1
    <3>4. box' = [x \in Cids |-> IF x = c THEN [box[c] EXCEPT !.known = TRUE]
                                           ELSE box[x]]
      BY <2>2, <3>1
    <3>5. box' \in [Cids -> BoxType]
      BY <3>1, <3>2, <3>4
    <3>6. [box[c] EXCEPT !.known = TRUE].status = box[c].status
      BY <3>1 DEF BoxType
    <3> QED
      BY <3>3, <3>5, <3>6
  <2> QED
    BY <2>1, <2>2
<1>4. \A x \in Cids : /\ Real(x)' <=> Real(x)
                      /\ box'[x].known \/ sessions'[x] # NoObj => Real(x)
  BY <1>2, <1>3 DEF Inductive, PlacesInv, Real, Tracked
<1>5. ReaperType' /\ DockerType'
  BY <1>3 DEF Inductive, TypeOK, DockerType, ReaperType, reaping
<1>6. sessions'[c] # NoObj
  BY NumbersAssumption DEF Inductive, TypeOK, StoreType, SaveSession, NoObj
<1>7. Promised
  BY <1>2, <1>3, <1>4, <1>6 DEF Promised
<1> QED
  BY <1>1, <1>2, <1>3, <1>4, <1>5, <1>7 DEF Inductive, Frame, PlacesInv, ReaperType, reaping

\* A container docker has or had dies or disappears.
LEMMA FrameDocker ==
  ASSUME Inductive, Counted, NEW c \in Cids, Real(c), UNCHANGED store,
         NEW st \in {"dead", "gone"}, st = "dead" => box[c].status # "gone",
         \/ box' = [box EXCEPT ![c].status = st]
         \/ box' = box,
         running' \in [Cids -> SUBSET Reqs],
         todo' \subseteq todo, listed' \subseteq listed, snap' \in SUBSET Cids
  PROVE  Frame
<1>1. /\ box' \in [Cids -> BoxType]
      /\ \A x \in Cids \ {c} : box'[x] = box[x]
      /\ box'[c].status \in {st, box[c].status} /\ box'[c].known = box[c].known
  BY DEF Inductive, TypeOK, DockerType, BoxType, BoxStates
<1>2. StoreType' /\ ReaperType' /\ DockerType' /\ sessions' = sessions
  BY <1>1 DEF Inductive, TypeOK, DockerType, StoreType, ReaperType, store
<1>3. \A x \in Cids : /\ Real(x) => Real(x)'
                      /\ box[x].status = "gone" => box'[x].status = "gone"
                      /\ box[x].status = "starting" => box'[x].status = "starting"
                      /\ box'[x].known = box[x].known
                      /\ lockTable'[x] = lockTable[x]
  BY <1>1 DEF Real, store
<1> QED
  BY <1>2, <1>3 DEF Inductive, Frame, Promised, PlacesInv, Tracked, ReaperType

-----------------------------------------------------------------------------
(***************************************************************************)
(* One lemma per action (per group of actions of the same shape)           *)
(***************************************************************************)
\* A handler at a step about a container is about one docker has or had.
LEMMA PlaceOf ==
  ASSUME Inductive, NEW a \in Actors, pc[a] \in ContainerSteps
  PROVE  cid[a] \in Cids /\ Real(cid[a]) /\ (~Exists(cid[a]) => box[cid[a]].status = "gone")
BY DEF Inductive, PlacesInv, Real, Exists

\* Counters do not change in most steps.
LEMMA SameCounters ==
  ASSUME Inductive, UNCHANGED <<now, admitted, bounds>>
  PROVE  Counted
BY DEF Inductive, TypeOK, Counted, CounterType, bounds

LEMMA FaultCounters ==
  ASSUME Inductive, UNCHANGED <<now, admitted>>, Fault
  PROVE  Counted
BY DEF Inductive, TypeOK, Counted, CounterType, Fault

\* The waits that time out, the container that dies under an execution, docker
\* errors: the handler ends and nothing else happens.
LEMMA EndingsKeep ==
  ASSUME Inductive, NEW r \in Reqs,
         GuardTimeout(r) \/ WaitTimeout(r) \/ ExecCut(r) \/ DockerError(r)
  PROVE  Kept
<1>1. Leave(r, "done") /\ UNCHANGED <<docker, store, reaping>>
  BY DEF GuardTimeout, WaitTimeout, ExecCut, DockerError
<1>2. Counted
  BY SameCounters, FaultCounters DEF GuardTimeout, WaitTimeout, ExecCut, DockerError
<1>3. Frame
  BY <1>1, <1>2, FrameSame DEF reaping, Inductive, TypeOK, ReaperType
<1> QED
  BY <1>1, <1>3, LeaveKeeps DEF Outcomes

\* ensure_session_access: 403, removal of an expired session, or go ahead.
LEMMA CheckSessionKeeps ==
  ASSUME Inductive, NEW r \in Reqs, pc[r] \in {"a_begin", "a_got"}, CheckSession(r), Frame
  PROVE  Kept
<1> DEFINE p == NextStepOf(op[r])
<1>1. r \in Actors /\ pc[r] \in ContainerSteps /\ pc[r] \notin LockSteps
  BY DEF Actors, ContainerSteps, AccessSteps, LockSteps, ExecSteps, RemovalSteps
<1>2. cid[r] \in Cids /\ Real(cid[r])
  BY <1>1, PlaceOf
<1>3. lock[r] = NoLock
  BY <1>1 DEF Inductive, LockInv
<1>4. CASE Leave(r, "done")
  BY <1>4, LeaveKeeps DEF Outcomes
<1>5. CASE Goto(r, "rm_get")
  BY <1>1, <1>2, <1>3, <1>5, GotoKeeps DEF Steps, RemovalSteps
<1>6. CASE /\ pc' = [pc EXCEPT ![r] = p]
           /\ end' = [end EXCEPT ![r] = IF op[r] = "delete" THEN "deleted" ELSE @]
           /\ UNCHANGED <<cid, op, obj, lock, locked, slots, creating>>
  <2>1. p \in Steps /\ p \in {"x_slot", "rm_get", "g_get"}
    BY DEF NextStepOf, Steps, ExecSteps, RemovalSteps
  <2>2. end' \in [Reqs -> {"done", "deleted", "timed_out"}]
    BY <1>6 DEF Inductive, TypeOK, HandlerType
  <2>3. Moves(r, p)
    BY <1>6, <2>2 DEF Moves
  <2> QED
    BY <1>1, <1>2, <1>3, <2>1, <2>3, MovesKeeps
<1> QED
  BY <1>4, <1>5, <1>6 DEF CheckSession

LEMMA EnsureSessionKeeps ==
  ASSUME Inductive, NEW r \in Reqs, EnsureSession(r)
  PROVE  Kept
<1>1. pc[r] = "a_begin" /\ r \in Actors /\ UNCHANGED <<docker, store, reaping>>
  BY DEF EnsureSession, Actors
<1>2. Counted
  BY SameCounters DEF EnsureSession
<1>3. Frame
  BY <1>1, <1>2, FrameSame DEF reaping, Inductive, TypeOK, ReaperType
<1>4. cid[r] \in Cids /\ Real(cid[r]) /\ lock[r] = NoLock
  BY <1>1, PlaceOf DEF ContainerSteps, AccessSteps, LockSteps, ExecSteps, RemovalSteps,
     Inductive, LockInv
<1>5. CASE CheckSession(r)
  BY <1>1, <1>3, <1>5, CheckSessionKeeps
<1>6. CASE Goto(r, "a_get")
  BY <1>1, <1>3, <1>4, <1>6, GotoKeeps DEF Steps, AccessSteps
<1> QED
  BY <1>5, <1>6 DEF EnsureSession

LEMMA LookUpContainerKeeps ==
  ASSUME Inductive, NEW r \in Reqs, LookUpContainer(r)
  PROVE  Kept
<1>1. pc[r] = "a_get" /\ r \in Actors /\ UNCHANGED <<docker, store, reaping>>
  BY DEF LookUpContainer, Actors
<1>2. Counted
  BY SameCounters DEF LookUpContainer
<1>3. Frame
  BY <1>1, <1>2, FrameSame DEF reaping, Inductive, TypeOK, ReaperType
<1>4. cid[r] \in Cids /\ Real(cid[r]) /\ lock[r] = NoLock
  BY <1>1, PlaceOf DEF ContainerSteps, AccessSteps, LockSteps, ExecSteps, RemovalSteps,
     Inductive, LockInv
<1>5. CASE Goto(r, "a_got")
  BY <1>1, <1>3, <1>4, <1>5, GotoKeeps DEF Steps, AccessSteps
<1>6. CASE Leave(r, "done")
  BY <1>3, <1>6, LeaveKeeps DEF Outcomes
<1> QED
  BY <1>5, <1>6 DEF LookUpContainer

LEMMA RecoverSessionKeeps ==
  ASSUME Inductive, NEW r \in Reqs, RecoverSession(r)
  PROVE  Kept
<1>1. /\ pc[r] = "a_got" /\ r \in Actors /\ CheckSession(r)
      /\ UNCHANGED <<docker, reaping>>
  BY DEF RecoverSession, Actors
<1>2. Counted
  BY SameCounters DEF RecoverSession
<1>3. cid[r] \in Cids /\ Real(cid[r])
  BY <1>1, PlaceOf DEF ContainerSteps, AccessSteps
<1>4. Recovered(cid[r]) \in [count : Nat, last : Nat]
  BY <1>3 DEF Recovered, Inductive, TypeOK, DockerType, BoxType
<1>5. PICK k \in ObjIds : SaveSession(cid[r], k, Recovered(cid[r]))
  BY DEF RecoverSession
<1>6. Frame
  BY <1>1, <1>2, <1>3, <1>4, <1>5, FrameSave DEF docker
<1> QED
  BY <1>1, <1>6, CheckSessionKeeps

LEMMA InspectKeeps ==
  ASSUME Inductive, NEW r \in Reqs, Inspect(r)
  PROVE  Kept
<1>1. /\ pc[r] = "g_get" /\ r \in Actors /\ Leave(r, "done")
      /\ UNCHANGED <<docker, reaping>>
  BY DEF Inspect, Actors
<1>2. Counted
  BY SameCounters DEF Inspect
<1>3. cid[r] \in Cids /\ (~Exists(cid[r]) => box[cid[r]].status = "gone")
  BY <1>1, PlaceOf DEF ContainerSteps
<1>4. snap' \in SUBSET Cids /\ todo' \subseteq todo /\ listed' \subseteq listed
  BY <1>1 DEF reaping, Inductive, TypeOK, ReaperType
<1>5. CASE UNCHANGED store
  BY <1>1, <1>2, <1>4, <1>5, FrameSame, LeaveKeeps DEF Outcomes
<1>6. CASE ~Exists(cid[r]) /\ DeleteSession(cid[r])
  BY <1>1, <1>2, <1>3, <1>4, <1>6, FrameDelete, LeaveKeeps DEF Outcomes
<1> QED
  BY <1>5, <1>6 DEF Inspect

\* BeginCreate and BeginAccess: a request arrives; it holds nothing.
LEMMA BeginKeeps ==
  ASSUME Inductive, NEW r \in Reqs, BeginCreate(r) \/ BeginAccess(r)
  PROVE  Kept
<1> USE DEF Inductive
<1>1. /\ r \in Actors /\ pc[r] = "idle" /\ lock[r] = NoLock
      /\ UNCHANGED <<now, docker, store, end, obj, lock, locked, slots, creating,
                     reaping, admitted, bounds>>
  BY DEF BeginCreate, BeginAccess, Actors, LockInv, LockSteps, ExecSteps, RemovalSteps
<1>2. PICK p \in {"c_guard", "a_begin"} : pc' = [pc EXCEPT ![r] = p]
  BY DEF BeginCreate, BeginAccess
<1>3. PICK c \in Cids \cup {None} : /\ p = "a_begin" => c \in Cids /\ box[c].known
                                    /\ cid' = IF p = "a_begin" THEN [cid EXCEPT ![r] = c]
                                                               ELSE cid
  BY <1>2, <1>1 DEF BeginCreate, BeginAccess, TypeOK, HandlerType
<1>4. op' \in [Reqs -> {"none", "create", "execute", "delete", "inspect"}]
  BY DEF BeginCreate, BeginAccess, TypeOK, HandlerType
<1>5. TypeOK'
  BY <1>1, <1>2, <1>3, <1>4 DEF TypeOK, DockerType, StoreType, HandlerType, ReaperType,
     CounterType, docker, store, reaping, bounds, Steps, CreateSteps, AccessSteps
<1>6. \A b \in Actors : b # r => pc'[b] = pc[b] /\ cid'[b] = cid[b]
  BY <1>1, <1>2, <1>3 DEF TypeOK, HandlerType
<1>7. pc'[r] = p /\ (p = "a_begin" => cid'[r] = c /\ c \in Cids /\ Real(c))
  BY <1>1, <1>2, <1>3 DEF TypeOK, HandlerType, PlacesInv
<1>8. p \notin {"c_run", "x_get", "x_got", "rm_confirm"} /\ p \notin LockSteps
  BY DEF LockSteps, ExecSteps, RemovalSteps
<1>9. p = "c_guard" => p \notin ContainerSteps
  BY DEF ContainerSteps, AccessSteps, ExecSteps, RemovalSteps
<1>10. ConfirmInv'
  BY <1>1, <1>6, <1>7, <1>8 DEF ConfirmInv, docker
<1>11. PlacesInv'
  BY <1>1, <1>6, <1>7, <1>8, <1>9 DEF PlacesInv, Real, Tracked, docker, store, reaping, Actors
<1>12. \A q \in Reqs : lock[q] # NoLock => q # r /\ pc'[q] = pc[q] /\ cid'[q] = cid[q]
  BY <1>1, <1>6 DEF Actors
<1>13. LockInv'
  <2>1. \A q \in Reqs : pc'[q] = "x_lock" => lock[q] # NoLock
    BY <1>2, <1>6 DEF Actors, LockInv, TypeOK, HandlerType
  <2> QED
    BY <1>1, <1>12, <2>1 DEF LockInv, InLock, docker, store
<1>14. \A x \in Cids : Holders(x)' = Holders(x)
  BY <1>1, <1>12 DEF Holders, InLock
<1>15. Contract!Step
  BY <1>1, <1>5, <1>14, SameCounters, ContractStep DEF TypeOK, Promised, Real, docker, store
<1> QED
  BY <1>5, <1>10, <1>11, <1>13, <1>15 DEF Kept

\* The guard's holder reserves a container id, or the limits refuse the request.
LEMMA EnterGuardKeeps ==
  ASSUME Inductive, NEW r \in Reqs, EnterGuard(r)
  PROVE  Kept
<1> USE DEF Inductive
<1>1. /\ r \in Actors /\ pc[r] = "c_guard" /\ lock[r] = NoLock
      /\ UNCHANGED <<now, running, store, reaping, admitted, bounds>>
  BY DEF EnterGuard, Actors, LockInv, LockSteps, ExecSteps, RemovalSteps
<1>2. Counted
  BY <1>1, SameCounters
<1>3. CASE Leave(r, "done") /\ UNCHANGED box
  <2>1. Frame
    BY <1>1, <1>2, <1>3, FrameSame DEF docker, reaping, TypeOK, ReaperType
  <2> QED
    BY <1>3, <2>1, LeaveKeeps DEF Outcomes
<1>4. ASSUME NEW c \in Cids, box[c].status = "unused",
             box' = [box EXCEPT ![c] = [@ EXCEPT !.status = "starting",
                       !.owner = Subject[r], !.created = now, !.expires = now + Lifetime]],
             cid' = [cid EXCEPT ![r] = c],
             creating = None, creating' = r,
             pc' = [pc EXCEPT ![r] = "c_run"],
             UNCHANGED <<op, end, obj, lock, locked, slots>>
      PROVE  Kept
  <2>1. /\ box' \in [Cids -> BoxType]
        /\ box'[c].status = "starting" /\ box'[c].known = box[c].known
        /\ \A x \in Cids : x # c => box'[x] = box[x]
    <3>1. box \in [Cids -> BoxType] /\ Subject[r] \in Principals /\ now + Lifetime \in Nat
          /\ now \in Nat
      BY SetsAssumption, NumbersAssumption DEF TypeOK, DockerType, CounterType
    <3> DEFINE b == [box[c] EXCEPT !.status = "starting", !.owner = Subject[r],
                       !.created = now, !.expires = now + Lifetime]
    <3>2. b \in BoxType
      BY <3>1 DEF BoxType, BoxStates
    <3>3. b.status = "starting" /\ b.known = box[c].known
      BY <3>1 DEF BoxType
    <3>4. box' = [x \in Cids |-> IF x = c THEN b ELSE box[x]]
      BY <1>4, <3>1
    <3> HIDE DEF b
    <3> QED
      BY <3>1, <3>2, <3>3, <3>4
  <2>2. ~Real(c) /\ ~box[c].known /\ c \notin Tracked /\ c \notin todo \cup listed
    BY <1>4 DEF PlacesInv, Real
  <2>3. \A q \in Reqs : pc[q] # "c_run"
    BY <1>4, SetsAssumption DEF PlacesInv
  <2>4. \A b \in Actors : b # r => pc'[b] = pc[b] /\ cid'[b] = cid[b]
    BY <1>4 DEF TypeOK, HandlerType
  <2>5. pc'[r] = "c_run" /\ cid'[r] = c
    BY <1>1, <1>4 DEF TypeOK, HandlerType
  <2>6. \A b \in Actors : pc[b] \in ContainerSteps => cid[b] # c
    BY <2>2 DEF PlacesInv
  <2>7. TypeOK'
    BY <1>1, <1>2, <1>4, <2>1 DEF TypeOK, DockerType, StoreType, HandlerType, ReaperType,
       Counted, store, reaping, Steps, CreateSteps
  <2>8. ConfirmInv'
    BY <2>1, <2>4, <2>5, <2>6 DEF ConfirmInv, PlacesInv, ContainerSteps, RemovalSteps
  <2>9. "c_run" \notin ContainerSteps /\ "c_run" \notin LockSteps
    BY DEF ContainerSteps, AccessSteps, ExecSteps, RemovalSteps, LockSteps
  <2>10. \A x \in Cids : Real(x) => x # c /\ Real(x)'
    BY <2>1, <2>2 DEF Real
  <2>11. \A x \in Cids : box'[x].known \/ sessions'[x] # NoObj => Real(x)
    BY <1>1, <2>1, <2>2 DEF PlacesInv, Tracked, store
  <2>12. \A b \in Actors : pc'[b] \in ContainerSteps
                             => b # r /\ cid'[b] \in Cids /\ Real(cid[b])
    BY <2>4, <2>5, <2>9 DEF PlacesInv
  <2>13. \A q \in Reqs : pc'[q] = "c_run" => q = r
    BY <2>3, <2>4 DEF Actors
  <2>14. \A q \in Reqs : pc'[q] \in {"x_get", "x_got"} => obj'[q] \in ObjIds
    BY <1>4, <2>4, <2>5 DEF PlacesInv, Actors
  <2>15. \A b \in Actors : pc'[b] \in ContainerSteps
                             => cid'[b] \in Cids /\ box'[cid'[b]].status \in {"up", "dead", "gone"}
    BY <2>1, <2>4, <2>12, <2>10 DEF Real
  <2>16. \A x \in todo' \cup listed' : Real(x)'
    BY <1>1, <2>10 DEF PlacesInv, reaping, TypeOK, ReaperType
  <2>17. PlacesInv'
    BY <1>4, <2>1, <2>5, <2>10, <2>11, <2>13, <2>14, <2>15, <2>16 DEF PlacesInv, Real, Tracked
  <2>18. \A q \in Reqs : lock[q] # NoLock => /\ q # r /\ pc'[q] = pc[q] /\ cid'[q] = cid[q]
                                             /\ cid[q] \in Cids /\ cid[q] # c
    BY <1>1, <2>4, <2>6 DEF Actors, LockInv, LockSteps, ContainerSteps, PlacesInv
  <2>19. LockInv'
    BY <1>1, <1>4, <2>1, <2>18 DEF LockInv, InLock, store
  <2>20. \A x \in Cids : Holders(x)' = Holders(x)
    BY <1>4, <2>18 DEF Holders, InLock
  <2>21. Promised
    BY <1>1, <1>4, <2>1, <2>10 DEF Promised, store
  <2>22. Contract!Step
    BY <1>2, <2>7, <2>20, <2>21, ContractStep DEF TypeOK
  <2> QED
    BY <2>7, <2>8, <2>17, <2>19, <2>22 DEF Kept
<1> QED
  BY <1>3, <1>4 DEF EnterGuard, GuardFree

\* docker run has made the container, or failed with or without leaving one behind.
LEMMA DockerRunKeeps ==
  ASSUME Inductive, NEW r \in Reqs, DockerRun(r) \/ DockerRunFails(r)
  PROVE  Kept
<1> USE DEF Inductive
<1>1. /\ r \in Actors /\ pc[r] = "c_run" /\ lock[r] = NoLock
      /\ creating = r /\ cid[r] \in Cids /\ box[cid[r]].status = "starting"
      /\ UNCHANGED <<running, store, reaping>>
  BY DEF DockerRun, DockerRunFails, Actors, LockInv, LockSteps, ExecSteps, RemovalSteps,
     PlacesInv
<1>2. Counted
  BY SameCounters, FaultCounters DEF DockerRun, DockerRunFails
<1>3. PICK st \in {"up", "gone", "dead"} :
        box' = [box EXCEPT ![cid[r]] = [@ EXCEPT !.status = st, !.born = now]]
  BY DEF DockerRun, DockerRunFails
<1>4. /\ box' \in [Cids -> BoxType]
      /\ box'[cid[r]].status = st
      /\ \A x \in Cids : /\ box'[x].known = box[x].known
                         /\ x # cid[r] => box'[x] = box[x]
  BY <1>1, <1>3 DEF TypeOK, DockerType, CounterType, BoxType, BoxStates
<1>5. \A q \in Reqs : pc[q] = "c_run" => q = r
  BY <1>1 DEF PlacesInv
<1>6. pc'[r] # "c_run"
  BY DEF DockerRun, DockerRunFails, Goto, Leave, TypeOK, HandlerType, Actors
<1>7. \A x \in Cids : /\ Real(x) => Real(x)'
                      /\ box[x].status = "gone" => box'[x].status = "gone"
                      /\ box'[x].known \/ sessions'[x] # NoObj => Real(x)'
                      /\ lockTable'[x] = lockTable[x] /\ sessions'[x] = sessions[x]
  BY <1>1, <1>3, <1>4 DEF PlacesInv, Real, Tracked, store
<1>8. DockerType' /\ StoreType' /\ ReaperType'
  BY <1>1, <1>4 DEF TypeOK, DockerType, StoreType, ReaperType, store, reaping
<1>9. \A x \in todo' \cup listed' : Real(x)'
  BY <1>1, <1>7 DEF PlacesInv, reaping, TypeOK, ReaperType
<1>10. Frame
  BY <1>2, <1>5, <1>6, <1>7, <1>8, <1>9 DEF Frame, Promised
<1>11. CASE Goto(r, "c_ran")
  BY <1>1, <1>4, <1>10, <1>11, GotoKeeps DEF Steps, CreateSteps
<1>12. CASE Leave(r, "done")
  BY <1>10, <1>12, LeaveKeeps DEF Outcomes
<1> QED
  BY <1>11, <1>12 DEF DockerRun, DockerRunFails

LEMMA FinishCreateKeeps ==
  ASSUME Inductive, NEW r \in Reqs, FinishCreate(r)
  PROVE  Kept
<1>1. pc[r] = "c_ran" /\ r \in Actors /\ Leave(r, "done") /\ UNCHANGED <<running, reaping>>
  BY DEF FinishCreate, Actors
<1>2. cid[r] \in Cids /\ Real(cid[r])
  BY <1>1, PlaceOf DEF ContainerSteps
<1>3. Counted
  BY SameCounters DEF FinishCreate
<1>4. PICK k \in ObjIds :
        /\ SaveSession(cid[r], k, [count |-> 0, last |-> box[cid[r]].created])
        /\ box' = [box EXCEPT ![cid[r]].known = TRUE]
  BY DEF FinishCreate
<1>5. [count |-> 0, last |-> box[cid[r]].created] \in [count : Nat, last : Nat]
  BY <1>2 DEF Inductive, TypeOK, DockerType, BoxType
<1>6. Frame
  BY <1>1, <1>2, <1>3, <1>4, <1>5, FrameSave
<1> QED
  BY <1>1, <1>6, LeaveKeeps DEF Outcomes

LEMMA EnvProvisionFailsKeeps ==
  ASSUME Inductive, NEW r \in Reqs, EnvProvisionFails(r)
  PROVE  Kept
<1>1. /\ pc[r] = "c_ran" /\ r \in Actors /\ Goto(r, "rm_kill")
      /\ UNCHANGED <<docker, store, reaping>>
  BY DEF EnvProvisionFails, Actors
<1>2. cid[r] \in Cids /\ Real(cid[r])
  BY <1>1, PlaceOf DEF ContainerSteps
<1>3. Counted
  BY FaultCounters DEF EnvProvisionFails
<1>4. Frame
  BY <1>1, <1>3, FrameSame DEF reaping, Inductive, TypeOK, ReaperType
<1> QED
  BY <1>1, <1>2, <1>4, GotoKeeps DEF Steps, RemovalSteps, LockSteps

\* execution_lock takes the lock object of the table, or puts a new one there; for a
\* container that is not gone, whoever has a lock object has the one of the table.
LEMMA AcquireSlotKeeps ==
  ASSUME Inductive, NEW r \in Reqs, AcquireSlot(r)
  PROVE  Kept
<1> USE DEF Inductive
<1>1. /\ r \in Actors /\ pc[r] = "x_slot" /\ lock[r] = NoLock
      /\ UNCHANGED <<now, docker, sessions, heap, reaping, admitted, bounds>>
  BY DEF AcquireSlot, Actors, LockInv, LockSteps, ExecSteps, RemovalSteps
<1>2. cid[r] \in Cids /\ Real(cid[r])
  BY <1>1, PlaceOf DEF ContainerSteps, ExecSteps
<1>3. Counted
  BY <1>1, SameCounters
<1>4. CASE Leave(r, "done") /\ UNCHANGED lockTable
  <2>1. Frame
    BY <1>1, <1>3, <1>4, FrameSame DEF store, reaping, TypeOK, ReaperType
  <2> QED
    BY <1>4, <2>1, LeaveKeeps DEF Outcomes
<1>5. ASSUME slots > 0, slots' = slots - 1, NEW l \in LockIds, LockOf(cid[r], l),
             lockTable' = [lockTable EXCEPT ![cid[r]] = l],
             lock' = [lock EXCEPT ![r] = l],
             pc' = [pc EXCEPT ![r] = "x_lock"],
             UNCHANGED <<cid, op, end, obj, locked, creating>>
      PROVE  Kept
  <2>1. /\ l # NoLock
        /\ lockTable[cid[r]] \in {NoLock, l}
    BY <1>5, NumbersAssumption DEF LockOf, NoLock
  <2>2. \A b \in Actors : pc'[b] = IF b = r THEN "x_lock" ELSE pc[b]
    BY <1>5 DEF TypeOK, HandlerType
  <2>3. \A q \in Reqs : lock'[q] = IF q = r THEN l ELSE lock[q]
    BY <1>5 DEF TypeOK, HandlerType
  <2>4. \A x \in Cids : lockTable'[x] = IF x = cid[r] THEN l ELSE lockTable[x]
    BY <1>5 DEF TypeOK, StoreType
  <2>5. TypeOK'
    <3>1. slots' \in Nat
      BY <1>5 DEF TypeOK, HandlerType
    <3>2. HandlerType'
      BY <1>1, <1>5, <3>1 DEF TypeOK, HandlerType, Steps, ExecSteps, NoLock
    <3>3. StoreType'
      BY <1>1, <1>5 DEF TypeOK, StoreType, NoLock
    <3> QED
      BY <1>1, <1>3, <3>2, <3>3 DEF TypeOK, DockerType, ReaperType, Counted, docker, reaping
  <2>6. PlacesInv' /\ ConfirmInv'
    BY <1>1, <1>2, <1>5, <2>2 DEF PlacesInv, ConfirmInv, Real, Tracked, docker, reaping,
       ContainerSteps, ExecSteps, Actors
  <2>7. \A q \in Reqs : InLock(q)' <=> InLock(q)
    BY <1>1, <2>2, <2>3 DEF InLock, Actors
  <2>8. ASSUME NEW q \in Reqs, lock'[q] # NoLock
        PROVE  pc'[q] \in LockSteps
    BY <1>1, <2>2, <2>3, <2>8 DEF LockInv, LockSteps, ExecSteps, Actors
  <2>9. ASSUME NEW q \in Reqs, lock'[q] # NoLock, box[cid[q]].status # "gone"
        PROVE  lockTable'[cid[q]] = lock'[q]
    <3>1. CASE q = r
      BY <1>2, <2>3, <2>4, <3>1
    <3>2. CASE q # r
      <4>1. lock[q] # NoLock /\ lockTable[cid[q]] = lock[q]
        BY <2>3, <2>9, <3>2 DEF LockInv
      <4>2. cid[q] \in Cids
        BY <4>1 DEF LockInv, PlacesInv, LockSteps, ContainerSteps, Actors
      <4> QED
        BY <2>1, <2>3, <2>4, <3>2, <4>1, <4>2
    <3> QED
      BY <3>1, <3>2
  <2>10. \A q \in Reqs : InLock(q) => q # r /\ lock'[q] = lock[q]
    BY <1>1, <2>3 DEF InLock
  <2>11. LockInv'
    <3>1. \A q \in Reqs : pc'[q] = "x_lock" => lock'[q] # NoLock
      BY <2>1, <2>2, <2>3 DEF LockInv, Actors
    <3> QED
      BY <1>1, <1>5, <2>7, <2>8, <2>9, <2>10, <3>1 DEF LockInv, docker
  <2>12. \A c \in Cids : Holders(c)' = Holders(c)
    BY <1>5, <2>7 DEF Holders
  <2>13. Contract!Step
    BY <1>1, <1>3, <2>5, <2>12, ContractStep DEF TypeOK, Promised, Real, docker
  <2> QED
    BY <2>5, <2>6, <2>11, <2>13 DEF Kept
<1> QED
  BY <1>4, <1>5 DEF AcquireSlot, SlotFree

\* The lock object was free: who is inside has another one.
LEMMA AcquireLockKeeps ==
  ASSUME Inductive, NEW r \in Reqs, AcquireLock(r)
  PROVE  Kept
<1> USE DEF Inductive
<1>1. /\ r \in Actors /\ pc[r] = "x_lock"
      /\ lock[r] # NoLock /\ lock[r] \notin locked[cid[r]]
      /\ UNCHANGED <<now, docker, store, reaping, admitted, bounds>>
  BY DEF AcquireLock, Actors, LockInv
<1>2. cid[r] \in Cids /\ Real(cid[r])
  BY <1>1, PlaceOf DEF ContainerSteps, ExecSteps
<1>3. Counted
  BY <1>1, SameCounters
<1>4. CASE Leave(r, "done")
  <2>1. Frame
    BY <1>1, <1>3, FrameSame DEF reaping, TypeOK, ReaperType
  <2> QED
    BY <1>4, <2>1, LeaveKeeps DEF Outcomes
<1>5. CASE /\ cid[r] \in Tracked
           /\ locked' = [locked EXCEPT ![cid[r]] = @ \cup {lock[r]}]
           /\ obj' = [obj EXCEPT ![r] = sessions[cid[r]]]
           /\ pc' = [pc EXCEPT ![r] = "x_get"]
           /\ UNCHANGED <<cid, op, end, lock, slots, creating>>
  <2>1. sessions[cid[r]] \in ObjIds
    BY <1>5 DEF Tracked, TypeOK, StoreType
  <2>2. \A b \in Actors : pc'[b] = IF b = r THEN "x_get" ELSE pc[b]
    BY <1>5 DEF TypeOK, HandlerType
  <2>3. \A q \in Reqs : obj'[q] = IF q = r THEN sessions[cid[r]] ELSE obj[q]
    BY <1>5 DEF TypeOK, HandlerType
  <2>4. \A x \in Cids : locked'[x] = IF x = cid[r] THEN locked[x] \cup {lock[r]} ELSE locked[x]
    BY <1>5 DEF TypeOK, HandlerType
  <2>5. ASSUME NEW q \in Reqs, InLock(q)'
        PROVE  /\ lock[q] # NoLock /\ cid[q] \in Cids
               /\ q = r \/ InLock(q)
    BY <1>2, <1>5, <2>2, <2>5 DEF InLock, LockInv, PlacesInv, LockSteps, ContainerSteps, Actors
  <2>6. TypeOK'
    <3>1. lock[r] \in LockIds
      BY <1>1 DEF TypeOK, HandlerType
    <3>2. locked' \in [Cids -> SUBSET LockIds]
      BY <1>5, <3>1 DEF TypeOK, HandlerType
    <3>3. HandlerType'
      BY <1>5, <2>1, <3>2 DEF TypeOK, HandlerType, Steps, ExecSteps
    <3> QED
      BY <1>1, <1>3, <3>3 DEF TypeOK, DockerType, StoreType, ReaperType, Counted, docker,
         store, reaping
  <2>7. PlacesInv' /\ ConfirmInv'
    BY <1>1, <1>2, <1>5, <2>1, <2>2, <2>3 DEF PlacesInv, ConfirmInv, Real, Tracked, docker,
       store, reaping, ContainerSteps, ExecSteps, Actors
  <2>8. LockInv'
    <3>1. ASSUME NEW q \in Reqs, q # r, InLock(q), cid[q] = cid[r]
          PROVE  lock[q] # lock[r]
      BY <1>1, <3>1 DEF LockInv
    <3>2. \A q \in Reqs : InLock(q)' => lock[q] \in locked'[cid[q]]
      BY <2>4, <2>5 DEF LockInv
    <3>3. \A q \in Reqs : pc'[q] = "x_lock" => lock[q] # NoLock
      BY <2>2 DEF LockInv, Actors
    <3>4. \A q \in Reqs : lock[q] # NoLock => pc'[q] \in LockSteps
      BY <2>2 DEF LockInv, LockSteps, ExecSteps, Actors
    <3> QED
      BY <1>1, <1>5, <2>5, <3>1, <3>2, <3>3, <3>4 DEF LockInv, docker, store
  <2>9. \A x \in Cids : /\ x # cid[r] => Holders(x)' = Holders(x)
                        /\ x = cid[r] => Holders(x)' = Holders(x) \cup {r}
    BY <1>1, <1>5, <2>2 DEF Holders, InLock, Actors
  <2>10. box[cid[r]].status # "gone" => Holders(cid[r]) = {}
    <3>1. SUFFICES ASSUME box[cid[r]].status # "gone", NEW q \in Holders(cid[r])
                   PROVE  FALSE
      OBVIOUS
    <3>2. q \in Reqs /\ InLock(q) /\ cid[q] = cid[r] /\ lock[q] # NoLock
      BY <3>1 DEF Holders, InLock
    <3>3. lock[q] = lockTable[cid[r]] /\ lock[r] = lockTable[cid[r]]
      BY <1>1, <3>1, <3>2 DEF LockInv
    <3> QED
      BY <1>1, <3>2, <3>3 DEF LockInv
  <2>11. Contract!Step
    BY <1>1, <1>2, <1>3, <1>5, <2>6, <2>9, <2>10, ContractStep DEF TypeOK, Promised, Real,
       docker, store
  <2> QED
    BY <2>6, <2>7, <2>8, <2>11 DEF Kept
<1> QED
  BY <1>4, <1>5 DEF AcquireLock

LEMMA FetchContainerKeeps ==
  ASSUME Inductive, NEW r \in Reqs, FetchContainer(r)
  PROVE  Kept
<1>1. pc[r] = "x_get" /\ r \in Actors /\ UNCHANGED <<docker, reaping>>
  BY DEF FetchContainer, Actors
<1>2. Counted
  BY SameCounters DEF FetchContainer
<1>3. cid[r] \in Cids /\ Real(cid[r]) /\ (~Exists(cid[r]) => box[cid[r]].status = "gone")
  BY <1>1, PlaceOf DEF ContainerSteps, ExecSteps
<1>4. snap' \in SUBSET Cids /\ todo' \subseteq todo /\ listed' \subseteq listed
  BY <1>1 DEF reaping, Inductive, TypeOK, ReaperType
<1>5. CASE Goto(r, "x_got") /\ UNCHANGED store
  <2>1. Frame
    BY <1>1, <1>2, <1>4, <1>5, FrameSame
  <2>2. obj[r] \in ObjIds
    BY <1>1 DEF Inductive, PlacesInv
  <2> QED
    BY <1>1, <1>3, <1>5, <2>1, <2>2, GotoKeeps DEF Steps, ExecSteps, LockSteps
<1>6. CASE ~Exists(cid[r]) /\ DeleteSession(cid[r]) /\ Leave(r, "done")
  BY <1>1, <1>2, <1>3, <1>4, <1>6, FrameDelete, LeaveKeeps DEF Outcomes
<1> QED
  BY <1>5, <1>6 DEF FetchContainer

LEMMA AdmitExecutionKeeps ==
  ASSUME Inductive, NEW r \in Reqs, AdmitExecution(r)
  PROVE  Kept
<1> DEFINE s == heap[cid[r]][obj[r]]
           t == [count |-> s.count + 1, last |-> now]
<1>1. /\ pc[r] = "x_got" /\ r \in Actors /\ obj[r] \in ObjIds
      /\ UNCHANGED <<docker, reaping, bounds, now>>
  BY DEF AdmitExecution, Actors, Inductive, PlacesInv
<1>2. cid[r] \in Cids /\ Real(cid[r])
  BY <1>1, PlaceOf DEF ContainerSteps, ExecSteps
<1>3. CASE Goto(r, "rm_kill") /\ UNCHANGED <<store, admitted>>
  <2>1. Frame
    BY <1>1, <1>3, SameCounters, FrameSame DEF reaping, Inductive, TypeOK, ReaperType
  <2> QED
    BY <1>1, <1>2, <1>3, <2>1, GotoKeeps DEF Steps, RemovalSteps, LockSteps
<1>4. CASE /\ SaveSession(cid[r], obj[r], t)
           /\ admitted' = [admitted EXCEPT ![cid[r]] = @ + 1]
           /\ Goto(r, "x_prep")
  <2>1. Counted
    <3>1. admitted' \in [Cids -> Nat]
      BY <1>2, <1>4 DEF Inductive, TypeOK, CounterType
    <3> QED
      BY <1>1, <3>1 DEF Inductive, TypeOK, CounterType, Counted, bounds
  <2>2. t \in [count : Nat, last : Nat]
    BY <1>1, <1>2 DEF Inductive, TypeOK, StoreType, CounterType
  <2> HIDE DEF t
  <2>3. Frame
    BY <1>1, <1>2, <1>4, <2>1, <2>2, FrameSave DEF docker
  <2> QED
    BY <1>1, <1>2, <1>4, <2>3, GotoKeeps DEF Steps, ExecSteps, LockSteps
<1> QED
  BY <1>3, <1>4 DEF AdmitExecution

\* Provision, StartExec: the handler goes on when the container runs, else ends.
LEMMA StartKeeps ==
  ASSUME Inductive, NEW r \in Reqs, Provision(r) \/ StartExec(r)
  PROVE  Kept
<1>1. /\ pc[r] \in {"x_prep", "x_start"} /\ r \in Actors
      /\ UNCHANGED <<box, store, reaping>>
  BY DEF Provision, StartExec, Actors, docker
<1>2. Counted
  BY SameCounters DEF Provision, StartExec
<1>3. cid[r] \in Cids /\ Real(cid[r])
  BY <1>1, PlaceOf DEF ContainerSteps, ExecSteps
<1>4. running' \in [Cids -> SUBSET Reqs]
  BY DEF Provision, StartExec, docker, Inductive, TypeOK, DockerType
<1>5. Frame
  BY <1>1, <1>2, <1>3, <1>4, FrameDocker DEF reaping, Inductive, TypeOK, ReaperType
<1>6. CASE Leave(r, "done")
  BY <1>5, <1>6, LeaveKeeps DEF Outcomes
<1>7. ASSUME NEW p \in {"x_start", "x_run"}, Goto(r, p)
      PROVE  Kept
  BY <1>1, <1>3, <1>5, <1>7, GotoKeeps DEF Steps, ExecSteps, LockSteps
<1> QED
  BY <1>6, <1>7 DEF Provision, StartExec

\* User code ends; a handler that waits for it has its answer.
LEMMA CodeEndsKeeps ==
  ASSUME Inductive, NEW c \in Cids, NEW r \in Reqs, CodeEnds(c, r)
  PROVE  Kept
<1>1. UNCHANGED <<now, box, store, holdings, reaping, admitted, bounds>> /\ r \in Actors
  BY DEF CodeEnds, Actors
<1>2. running' \in [Cids -> SUBSET Reqs]
  BY DEF CodeEnds, Inductive, TypeOK, DockerType
<1>3. CASE pc[r] = "x_run"
  <2>1. cid[r] \in Cids /\ Real(cid[r])
    BY <1>1, <1>3, PlaceOf DEF ContainerSteps, ExecSteps
  <2>2. Frame
    BY <1>1, <1>2, <2>1, SameCounters, FrameDocker DEF reaping, Inductive, TypeOK, ReaperType
  <2>3. Goto(r, "x_out")
    BY <1>1, <1>3 DEF CodeEnds, Goto, Inductive, TypeOK, HandlerType
  <2> QED
    BY <1>1, <1>3, <2>1, <2>2, <2>3, GotoKeeps DEF Steps, ExecSteps, LockSteps
<1>4. CASE pc[r] # "x_run"
  <2>1. pc' = pc
    BY <1>1, <1>4 DEF CodeEnds, Inductive, TypeOK, HandlerType
  <2>2. Frame
    BY <1>1, <1>2, SameCounters DEF Frame, Promised, Inductive, TypeOK, DockerType, StoreType,
       ReaperType, PlacesInv, Real, Tracked, store, reaping
  <2> QED
    BY <1>1, <2>1, <2>2, StaysKeeps
<1> QED
  BY <1>3, <1>4

\* The touch writes one field of one object.
LEMMA FinishExecKeeps ==
  ASSUME Inductive, NEW r \in Reqs, FinishExec(r)
  PROVE  Kept
<1>1. Leave(r, "done") /\ UNCHANGED <<docker, sessions, lockTable, reaping>>
  BY DEF FinishExec
<1>2. Counted
  BY SameCounters DEF FinishExec
<1>3. heap' \in [Cids -> [ObjIds -> [count : Nat, last : Nat]]]
  <2>1. /\ heap \in [Cids -> [ObjIds -> [count : Nat, last : Nat]]]
        /\ now \in Nat /\ cid[r] \in Cids
    BY PlaceOf DEF FinishExec, Inductive, TypeOK, StoreType, CounterType, ContainerSteps,
       ExecSteps, Actors
  <2>2. CASE UNCHANGED heap
    BY <2>1, <2>2
  <2>3. CASE /\ cid[r] \in Tracked
             /\ heap' = [heap EXCEPT ![cid[r]][sessions[cid[r]]].last = now]
    <3> DEFINE k == sessions[cid[r]]
               t == [heap[cid[r]][k] EXCEPT !.last = now]
    <3>1. k \in ObjIds
      BY <2>3 DEF Tracked, Inductive, TypeOK, StoreType
    <3>2. t \in [count : Nat, last : Nat]
      BY <2>1, <3>1
    <3>3. heap' = [heap EXCEPT ![cid[r]][k] = t]
      BY <2>3
    <3> HIDE DEF t
    <3> QED
      BY <2>1, <3>1, <3>2, <3>3
  <2> QED
    BY <2>2, <2>3 DEF FinishExec
<1>4. Frame
  BY <1>1, <1>2, <1>3 DEF Frame, Promised, Inductive, TypeOK, DockerType, StoreType,
     ReaperType, PlacesInv, Real, Tracked, docker, reaping
<1> QED
  BY <1>1, <1>4, LeaveKeeps DEF Outcomes

LEMMA ExecTimeoutKeeps ==
  ASSUME Inductive, NEW r \in Reqs, ExecTimeout(r)
  PROVE  Kept
<1>1. pc[r] = "x_run" /\ r \in Actors /\ UNCHANGED <<docker, store, reaping>>
  BY DEF ExecTimeout, Actors
<1>2. cid[r] \in Cids /\ Real(cid[r])
  BY <1>1, PlaceOf DEF ContainerSteps, ExecSteps
<1>3. Frame
  BY <1>1, SameCounters, FrameSame DEF ExecTimeout, reaping, Inductive, TypeOK, ReaperType
<1>4. Moves(r, "rm_kill")
  BY DEF ExecTimeout, Moves, Inductive, TypeOK, HandlerType
<1> QED
  BY <1>1, <1>2, <1>3, <1>4, MovesKeeps DEF Steps, RemovalSteps, LockSteps

-----------------------------------------------------------------------------
\* What follows a removal, for a handler and for the cleanup task.
LEMMA AfterRemovalKeeps ==
  ASSUME Inductive, NEW a \in Actors, pc[a] \in RemovalSteps,
         AfterRemoval(a) \/ Abort(a), Frame
  PROVE  Kept
<1>1. CASE a = Reaper
  <2>1. PICK p \in {"scan", "sleep"} : Goto(a, p)
    BY <1>1 DEF AfterRemoval, Abort
  <2>2. p \in Steps /\ p \notin ContainerSteps /\ a \notin Reqs
    BY <1>1, SetsAssumption DEF Steps, ReaperSteps, ContainerSteps, AccessSteps, ExecSteps,
       RemovalSteps
  <2> QED
    BY <2>1, <2>2, GotoKeeps
<1>2. CASE a # Reaper
  <2>1. a \in Reqs /\ end[a] \in Outcomes
    BY <1>2 DEF Actors, Inductive, TypeOK, HandlerType, Outcomes
  <2>2. CASE AfterRemoval(a)
    BY <1>2, <2>1, <2>2, LeaveKeeps DEF AfterRemoval
  <2>3. CASE Abort(a)
    BY <1>2, <2>1, <2>3, LeaveKeeps DEF Abort, Outcomes
  <2> QED
    BY <2>2, <2>3
<1> QED
  BY <1>1, <1>2

\* The cleanup task's lists only shrink after a removal.
LEMMA AfterRemovalLists ==
  ASSUME Inductive, NEW a \in Actors,
         \/ AfterRemoval(a) \/ Abort(a)
         \/ UNCHANGED reaping
  PROVE  snap' \in SUBSET Cids /\ todo' \subseteq todo /\ listed' \subseteq listed
BY DEF AfterRemoval, Abort, reaping, Inductive, TypeOK, ReaperType

LEMMA RmGetKeeps ==
  ASSUME Inductive, NEW a \in Actors, RmGet(a) \/ RmConfirm(a)
  PROVE  Kept
<1>1. pc[a] \in RemovalSteps /\ UNCHANGED docker
  BY DEF RmGet, RmConfirm, RemovalSteps
<1>2. Counted
  BY SameCounters DEF RmGet, RmConfirm
<1>3. cid[a] \in Cids /\ Real(cid[a]) /\ (~Exists(cid[a]) => box[cid[a]].status = "gone")
  BY <1>1, PlaceOf DEF ContainerSteps
<1>4. CASE Goto(a, "rm_kill") /\ UNCHANGED <<store, reaping>>
  <2>1. Frame
    BY <1>1, <1>2, <1>4, AfterRemovalLists, FrameSame
  <2>2. a \in Reqs => pc[a] # "x_lock"
    BY <1>1 DEF RemovalSteps
  <2> QED
    BY <1>3, <1>4, <2>1, <2>2, GotoKeeps DEF Steps, RemovalSteps, LockSteps
<1>5. CASE box[cid[a]].status = "gone" /\ DeleteSession(cid[a]) /\ AfterRemoval(a)
  <2>1. Frame
    BY <1>1, <1>2, <1>3, <1>5, AfterRemovalLists, FrameDelete
  <2> QED
    BY <1>1, <1>5, <2>1, AfterRemovalKeeps
<1> QED
  BY <1>3, <1>4, <1>5 DEF RmGet, RmConfirm, Inductive, ConfirmInv

LEMMA RmKillKeeps ==
  ASSUME Inductive, NEW a \in Actors, RmKill(a)
  PROVE  Kept
<1>1. /\ pc[a] = "rm_kill" /\ pc[a] \in RemovalSteps /\ Goto(a, "rm_remove")
      /\ UNCHANGED <<now, store, reaping, admitted>>
  BY DEF RmKill, RemovalSteps
<1>2. Counted
  BY <1>1, SameCounters, FaultCounters DEF RmKill
<1>3. cid[a] \in Cids /\ Real(cid[a])
  BY <1>1, PlaceOf DEF ContainerSteps
<1>4. /\ running' \in [Cids -> SUBSET Reqs]
      /\ \/ box' = box
         \/ box[cid[a]].status = "up" /\ box' = [box EXCEPT ![cid[a]].status = "dead"]
  BY <1>3 DEF RmKill, docker, Inductive, TypeOK, DockerType, BoxType
<1>5. Frame
  BY <1>1, <1>2, <1>3, <1>4, AfterRemovalLists, FrameDocker
<1>6. a \in Reqs => pc[a] # "x_lock"
  BY <1>1
<1> QED
  BY <1>1, <1>3, <1>5, <1>6, GotoKeeps DEF Steps, RemovalSteps, LockSteps

LEMMA RmRemoveKeeps ==
  ASSUME Inductive, NEW a \in Actors, RmRemove(a)
  PROVE  Kept
<1>1. /\ pc[a] = "rm_remove" /\ pc[a] \in RemovalSteps /\ Goto(a, "rm_confirm")
      /\ box' = [box EXCEPT ![cid[a]].status = "gone"]
      /\ UNCHANGED <<store, reaping>>
  BY DEF RmRemove, RemovalSteps
<1>2. Counted
  BY SameCounters DEF RmRemove
<1>3. cid[a] \in Cids /\ Real(cid[a])
  BY <1>1, PlaceOf DEF ContainerSteps
<1>4. running' \in [Cids -> SUBSET Reqs]
  BY DEF RmRemove, Inductive, TypeOK, DockerType
<1>5. Frame
  BY <1>1, <1>2, <1>3, <1>4, AfterRemovalLists, FrameDocker
<1>6. box'[cid[a]].status = "gone"
  BY <1>1, <1>3 DEF Inductive, TypeOK, DockerType, BoxType
<1>7. a \in Reqs => pc[a] # "x_lock"
  BY <1>1
<1> QED
  BY <1>1, <1>3, <1>5, <1>6, <1>7, GotoKeeps DEF Steps, RemovalSteps, LockSteps

\* RmUnconfirmed, RmRaises: the removal fails.
LEMMA RmFailsKeeps ==
  ASSUME Inductive, NEW a \in Actors, RmUnconfirmed(a) \/ RmRaises(a)
  PROVE  Kept
<1>1. /\ pc[a] \in RemovalSteps
      /\ AfterRemoval(a) \/ Abort(a)
      /\ UNCHANGED store
  BY DEF RmUnconfirmed, RmRaises, RemovalSteps
<1>2. Counted
  BY FaultCounters DEF RmUnconfirmed, RmRaises
<1>3. cid[a] \in Cids /\ Real(cid[a])
  BY <1>1, PlaceOf DEF ContainerSteps
<1>4. CASE UNCHANGED docker
  BY <1>1, <1>2, <1>4, AfterRemovalLists, FrameSame, AfterRemovalKeeps
<1>5. CASE /\ box' = [box EXCEPT ![cid[a]].status = "gone"]
           /\ running' = [running EXCEPT ![cid[a]] = {}]
  <2>1. running' \in [Cids -> SUBSET Reqs]
    BY <1>5 DEF Inductive, TypeOK, DockerType
  <2>2. Frame
    BY <1>1, <1>2, <1>3, <1>5, <2>1, AfterRemovalLists, FrameDocker
  <2> QED
    BY <1>1, <2>2, AfterRemovalKeeps
<1> QED
  BY <1>4, <1>5 DEF RmUnconfirmed, RmRaises

-----------------------------------------------------------------------------
\* ReaperScan, ReaperList and their failures: new lists, of containers docker has or had.
LEMMA ReaperListKeeps ==
  ASSUME Inductive, ReaperScan \/ ReaperList
  PROVE  Kept
<1>1. Reaper \in Actors /\ Reaper \notin Reqs /\ UNCHANGED <<docker, store>>
  BY SetsAssumption DEF Actors, ReaperScan, ReaperList
<1>2. Counted
  BY SameCounters, FaultCounters DEF ReaperScan, ReaperList
<1>3. /\ ReaperType'
      /\ \A c \in todo' \cup listed' : Real(c)
  BY DEF ReaperScan, ReaperList, Abort, reaping, Inductive, TypeOK, ReaperType, PlacesInv,
     Tracked, Exists, Real
<1>4. Frame
  BY <1>1, <1>2, <1>3 DEF Frame, Promised, Inductive, TypeOK, DockerType, StoreType,
     PlacesInv, Real, Tracked, docker, store
<1>5. PICK p \in {"scan", "listed", "sleep"} : Goto(Reaper, p)
  BY DEF ReaperScan, ReaperList, Abort
<1>6. p \in Steps /\ p \notin ContainerSteps
  BY DEF Steps, ReaperSteps, ContainerSteps, AccessSteps, ExecSteps, RemovalSteps
<1> QED
  BY <1>1, <1>4, <1>5, <1>6, GotoKeeps

\* The cleanup task turns to the next container of its list.
LEMMA ReaperNextKeeps ==
  ASSUME Inductive, ReaperNext
  PROVE  Kept
<1> USE DEF Inductive
<1>1. /\ Reaper \in Actors /\ Reaper \notin Reqs
      /\ UNCHANGED <<now, docker, store, op, end, obj, lock, locked, slots, creating,
                     reaping, admitted, bounds>>
  BY SetsAssumption DEF Actors, ReaperNext
<1>2. PICK c \in todo : cid' = [cid EXCEPT ![Reaper] = c]
  BY DEF ReaperNext
<1>3. c \in Cids /\ Real(c)
  BY DEF PlacesInv, TypeOK, ReaperType
<1>4. \A b \in Actors : /\ pc'[b] = IF b = Reaper THEN "rm_get" ELSE pc[b]
                        /\ cid'[b] = IF b = Reaper THEN c ELSE cid[b]
  BY <1>2 DEF ReaperNext, TypeOK, HandlerType
<1>5. \A q \in Reqs : pc'[q] = pc[q] /\ cid'[q] = cid[q] /\ (InLock(q)' <=> InLock(q))
  BY <1>1, <1>4 DEF Actors, InLock
<1>6. TypeOK'
  <2>1. HandlerType'
    BY <1>1, <1>2, <1>3 DEF ReaperNext, TypeOK, HandlerType, Steps, RemovalSteps
  <2> QED
    BY <1>1, <2>1, SameCounters DEF TypeOK, DockerType, StoreType, ReaperType, Counted,
       docker, store, reaping
<1>7. PlacesInv' /\ ConfirmInv'
  BY <1>1, <1>3, <1>4, <1>5 DEF PlacesInv, ConfirmInv, Real, Tracked, docker, store, reaping
<1>8. LockInv'
  BY <1>1, <1>5 DEF LockInv, docker, store
<1>9. \A x \in Cids : Holders(x)' = Holders(x)
  BY <1>5 DEF Holders
<1>10. Contract!Step
  BY <1>1, <1>6, <1>9, SameCounters, ContractStep DEF TypeOK, Promised, Real, docker, store
<1> QED
  BY <1>6, <1>7, <1>8, <1>10 DEF Kept

\* Sessions are only added, for containers docker had listed.
LEMMA ReaperRecoverKeeps ==
  ASSUME Inductive, ReaperRecover
  PROVE  Kept
<1> DEFINE found == (listed \ snap) \ Tracked
<1>1. /\ Reaper \in Actors /\ Reaper \notin Reqs /\ pc[Reaper] = "listed"
      /\ Abort(Reaper) /\ UNCHANGED <<docker, lockTable>>
  BY SetsAssumption DEF Actors, ReaperRecover
<1>2. Counted
  BY SameCounters DEF ReaperRecover
<1>3. PICK k \in [Cids -> ObjIds] :
        /\ sessions' = [c \in Cids |-> IF c \in found THEN k[c] ELSE sessions[c]]
        /\ heap' = [c \in Cids |-> IF c \in found
                                   THEN [heap[c] EXCEPT ![k[c]] = Recovered(c)]
                                   ELSE heap[c]]
  BY DEF ReaperRecover
<1>4. \A c \in Cids : Recovered(c) \in [count : Nat, last : Nat]
  BY DEF Recovered, Inductive, TypeOK, DockerType, BoxType
<1>5. StoreType'
  <2>1. sessions' \in [Cids -> ObjIds \cup {NoObj}]
    BY <1>3 DEF Inductive, TypeOK, StoreType
  <2>2. heap' \in [Cids -> [ObjIds -> [count : Nat, last : Nat]]]
    <3>1. \A c \in Cids : [heap[c] EXCEPT ![k[c]] = Recovered(c)]
                            \in [ObjIds -> [count : Nat, last : Nat]]
      BY <1>4 DEF Inductive, TypeOK, StoreType
    <3> QED
      BY <1>3, <3>1 DEF Inductive, TypeOK, StoreType
  <2> QED
    BY <1>1, <2>1, <2>2 DEF Inductive, TypeOK, StoreType
<1>6. \A c \in Cids : /\ sessions'[c] # NoObj => Real(c)
                      /\ sessions[c] # NoObj => sessions'[c] # NoObj
  BY <1>3 DEF Inductive, PlacesInv, Tracked
<1>7. Frame
  BY <1>1, <1>2, <1>5, <1>6 DEF Frame, Promised, Abort, Inductive, TypeOK, DockerType,
     ReaperType, PlacesInv, Real, docker
<1>8. Goto(Reaper, "sleep") /\ "sleep" \in Steps /\ "sleep" \notin ContainerSteps
  BY <1>1 DEF Abort, Steps, ReaperSteps, ContainerSteps, AccessSteps, ExecSteps, RemovalSteps
<1> QED
  BY <1>1, <1>7, <1>8, GotoKeeps

LEMMA TickKeeps ==
  ASSUME Inductive, Tick
  PROVE  Kept
<1>1. UNCHANGED <<docker, store, pc, holdings, reaping, admitted, bounds>> /\ now' = now + 1
  BY DEF Tick
<1>2. Counted
  BY <1>1 DEF Counted, CounterType, Inductive, TypeOK, bounds
<1>3. Frame
  BY <1>1, <1>2, FrameSame DEF Inductive, TypeOK, ReaperType, reaping
<1> QED
  BY <1>1, <1>3, StaysKeeps

-----------------------------------------------------------------------------
\* The process dies and starts again: no handler survives, and every recovered
\* session is about a container that is up.
LEMMA RestartKeeps ==
  ASSUME Inductive, Restart
  PROVE  Inductive' /\ Contract!Crash
<1> USE DEF Inductive
<1>1. /\ box' = [c \in Cids |-> [box[c] EXCEPT !.status = IF @ = "starting" THEN "gone" ELSE @]]
      /\ pc' = [a \in Actors |-> IF a = Reaper THEN "sleep"
                                 ELSE IF pc[a] \in Outcomes \cup {"idle"} THEN pc[a]
                                 ELSE "lost"]
      /\ lock' = [r \in Reqs |-> NoLock]
      /\ snap' = {} /\ todo' = {} /\ listed' = {}
      /\ UNCHANGED <<now, running, cid, admitted, faults>>
      /\ restarts' = restarts + 1
  BY DEF Restart
<1>2. /\ box' \in [Cids -> BoxType]
      /\ \A c \in Cids : /\ box'[c].known = box[c].known
                         /\ box'[c].status = IF box[c].status = "starting" THEN "gone"
                                                                           ELSE box[c].status
  <2>1. ASSUME NEW c \in Cids
        PROVE  /\ box'[c] \in BoxType
               /\ box'[c].known = box[c].known
               /\ box'[c].status = IF box[c].status = "starting" THEN "gone"
                                                                 ELSE box[c].status
    <3> DEFINE st == IF box[c].status = "starting" THEN "gone" ELSE box[c].status
    <3>1. box[c] \in BoxType
      BY DEF TypeOK, DockerType
    <3>2. box'[c] = [box[c] EXCEPT !.status = st]
      BY <1>1
    <3>3. st \in BoxStates
      BY <3>1 DEF BoxType, BoxStates
    <3> HIDE DEF st
    <3>4. [box[c] EXCEPT !.status = st] \in BoxType
      BY <3>1, <3>3 DEF BoxType
    <3>5. /\ [box[c] EXCEPT !.status = st].known = box[c].known
          /\ [box[c] EXCEPT !.status = st].status = st
      BY <3>1 DEF BoxType
    <3> QED
      BY <3>2, <3>4, <3>5 DEF st
  <2> QED
    BY <1>1, <2>1
<1>3. PICK recovers \in {TRUE, ~StartupListFails} : Startup(box', recovers)
  BY DEF Restart
<1>4. PICK k \in ObjIds :
        /\ sessions' = [c \in Cids |-> IF recovers /\ box'[c].status = "up" THEN k ELSE NoObj]
        /\ heap' = [c \in Cids |-> [j \in ObjIds |->
                      IF sessions'[c] = j THEN [count |-> 0, last |-> box'[c].born]
                                          ELSE EmptySession]]
  BY <1>3 DEF Startup
<1>5. \A a \in Actors : pc'[a] \in Steps /\ pc'[a] \notin ContainerSteps \cup {"c_run", "x_lock"}
  BY <1>1 DEF TypeOK, HandlerType, Steps, Outcomes, ReaperSteps, ContainerSteps, AccessSteps,
     ExecSteps, RemovalSteps, CreateSteps
<1>6. TypeOK'
  <2>1. HandlerType'
    BY <1>1, <1>5, NumbersAssumption DEF Restart, TypeOK, HandlerType
  <2>2. StoreType'
    <3>1. sessions' \in [Cids -> ObjIds \cup {NoObj}]
      BY <1>4
    <3>2. \A c \in Cids : box'[c].born \in Nat
      BY <1>2 DEF BoxType
    <3>3. heap' \in [Cids -> [ObjIds -> [count : Nat, last : Nat]]]
      BY <1>4, <3>2 DEF EmptySession
    <3>4. lockTable' = [c \in Cids |-> NoLock]
      BY DEF Restart
    <3> QED
      BY <3>1, <3>3, <3>4 DEF StoreType
  <2>3. CounterType' /\ ReaperType' /\ DockerType'
    BY <1>1, <1>2 DEF TypeOK, DockerType, CounterType, ReaperType
  <2> QED
    BY <2>1, <2>2, <2>3 DEF TypeOK
<1>7. LockInv'
  BY <1>1, <1>5 DEF LockInv, InLock, Actors
<1>8. ConfirmInv'
  BY <1>5 DEF ConfirmInv, ContainerSteps, RemovalSteps
<1>9. PlacesInv'
  <2>1. \A c \in Cids : box'[c].known \/ sessions'[c] # NoObj => Real(c)'
    BY <1>2, <1>4 DEF PlacesInv, Real
  <2>2. \A r \in Reqs : pc'[r] \notin {"c_run", "x_get", "x_got"}
    BY <1>5 DEF Actors, ContainerSteps, ExecSteps
  <2> QED
    BY <1>1, <1>5, <2>1, <2>2 DEF PlacesInv, Tracked, Real
<1>10. \A c \in Cids : Contract!Moves(c)
  BY <1>2 DEF Contract!Moves, Phase, BoxType, BoxStates
<1>11. \A c \in Cids : Holders(c)' = {}
  BY <1>1 DEF Holders, InLock
<1>12. Contract!Crash
  BY <1>1, <1>10, <1>11 DEF Contract!Crash, Phase, Tracked
<1> QED
  BY <1>6, <1>7, <1>8, <1>9, <1>12

\* What a gateway that starts finds, and knows.
LEMMA InitHolds ==
  ASSUME Init
  PROVE  Inductive /\ Contract!Init
<1>1. /\ box \in [Cids -> BoxType]
      /\ \A c \in Cids : /\ box[c].status \in {"unused", "up"}
                         /\ box[c].status = "up" <=> c \in Inherited
                         /\ box[c].known <=> c \in Inherited
  <2>1. \A c \in Cids : box[c] \in [status : {"unused", "up"}, owner : Principals,
                          created : {0}, born : {0}, expires : {Lifetime}, known : BOOLEAN]
    BY DEF Init
  <2>2. \A c \in Cids : box[c] \in BoxType /\ box[c].status \in {"unused", "up"}
    BY <2>1, NumbersAssumption DEF BoxType, BoxStates
  <2>3. box = [c \in Cids |-> box[c]]
    BY DEF Init
  <2> QED
    BY <2>2, <2>3 DEF Init
<1>2. /\ sessions \in [Cids -> ObjIds \cup {NoObj}]
      /\ \A c \in Tracked : box[c].status = "up"
  BY <1>1 DEF Init, Tracked, NoObj
<1>3. \A a \in Actors : pc[a] \in {"idle", "sleep"}
  BY DEF Init
<1>4. TypeOK
  <2>1. HandlerType
    BY NumbersAssumption DEF Init, HandlerType, Steps, ReaperSteps
  <2>2. StoreType
    BY <1>2 DEF Init, StoreType, EmptySession
  <2> QED
    BY <1>1, <2>1, <2>2 DEF Init, TypeOK, DockerType, ReaperType, CounterType
<1>5. PlacesInv /\ ConfirmInv
  BY <1>1, <1>2, <1>3 DEF Init, PlacesInv, ConfirmInv, Real, ContainerSteps, AccessSteps,
     ExecSteps, RemovalSteps, Actors
<1>6. LockInv
  BY <1>3 DEF Init, LockInv, InLock, Actors
<1>7. \A c \in Cids : Holders(c) = {}
  BY DEF Init, Holders, InLock
<1>8. Contract!Init
  BY <1>1, <1>7 DEF Init, Contract!Init, Phase, Tracked
<1> QED
  BY <1>4, <1>5, <1>6, <1>8 DEF Inductive

\* Every step keeps the invariant and is a step of the contract.
LEMMA NextKeeps ==
  ASSUME Inductive, [Next]_vars
  PROVE  Inductive' /\ (Contract!Step \/ Contract!Crash)
<1>1. CASE UNCHANGED vars
  <2>1. Inductive'
    BY <1>1 DEF vars, docker, store, holdings, reaping, bounds, Inductive, TypeOK, DockerType,
       StoreType, HandlerType, ReaperType, CounterType, PlacesInv, ConfirmInv, LockInv, InLock,
       Real, Tracked
  <2>2. \A c \in Cids : Holders(c)' = Holders(c)
    BY <1>1 DEF vars, holdings, Holders, InLock
  <2>3. Counted /\ Promised
    BY <1>1 DEF vars, docker, store, bounds, Counted, CounterType, Promised, Real, Inductive,
       TypeOK
  <2> QED
    BY <2>1, <2>2, <2>3, ContractStep DEF Inductive, TypeOK
<1>2. ASSUME NEW r \in Reqs, BeginCreate(r) \/ BeginAccess(r)
      PROVE  Kept
  BY <1>2, BeginKeeps
<1>3. ASSUME NEW r \in Reqs, CreateNext(r) \/ DockerRunFails(r) \/ EnvProvisionFails(r)
      PROVE  Kept
  BY <1>3, EnterGuardKeeps, DockerRunKeeps, FinishCreateKeeps, EnvProvisionFailsKeeps
     DEF CreateNext
<1>4. ASSUME NEW r \in Reqs, AccessNext(r)
      PROVE  Kept
  BY <1>4, EnsureSessionKeeps, LookUpContainerKeeps, RecoverSessionKeeps, InspectKeeps
     DEF AccessNext
<1>5. ASSUME NEW r \in Reqs, ExecuteNext(r)
      PROVE  Kept
  BY <1>5, AcquireSlotKeeps, AcquireLockKeeps, FetchContainerKeeps, AdmitExecutionKeeps,
     StartKeeps, FinishExecKeeps, EndingsKeep, ExecTimeoutKeeps DEF ExecuteNext
<1>6. ASSUME NEW a \in Actors, RemovalNext(a) \/ RmUnconfirmed(a) \/ RmRaises(a)
      PROVE  Kept
  BY <1>6, RmGetKeeps, RmKillKeeps, RmRemoveKeeps, RmFailsKeeps DEF RemovalNext
<1>7. ASSUME NEW r \in Reqs, GuardTimeout(r) \/ WaitTimeout(r) \/ DockerError(r)
      PROVE  Kept
  BY <1>7, EndingsKeep
<1>8. ASSUME NEW c \in Cids, NEW r \in Reqs, CodeEnds(c, r)
      PROVE  Kept
  BY <1>8, CodeEndsKeeps
<1>9. CASE ReaperNextStep
  BY <1>6, <1>9, ReaperListKeeps, ReaperNextKeeps, ReaperRecoverKeeps
     DEF ReaperNextStep, Actors, Kept
<1>10. CASE Restart
  BY <1>10, RestartKeeps
<1>11. CASE Tick
  BY <1>11, TickKeeps DEF Kept
<1>12. ASSUME NEW r \in Reqs, HandlerStep(r)
       PROVE  Kept
  BY <1>3, <1>4, <1>5, <1>6, <1>12 DEF HandlerStep, Actors
<1> QED
  BY <1>1, <1>2, <1>3, <1>6, <1>7, <1>8, <1>9, <1>10, <1>11, <1>12 DEF Next, Kept

-----------------------------------------------------------------------------
\* The inductive invariant holds in every state the gateway can reach.
THEOREM InductiveInvariant == Spec => []Inductive
<1>1. Init => Inductive
  BY InitHolds
<1>2. Inductive /\ [Next]_vars => Inductive'
  BY NextKeeps
<1> QED
  BY <1>1, <1>2, PTL DEF Spec

\* The handlers, the cleanup task and the store keep their types.
THEOREM TypeCorrect == Spec => []TypeOK
<1>1. Inductive => TypeOK
  BY DEF Inductive
<1> QED
  BY <1>1, InductiveInvariant, PTL

\* Two handlers are inside the execution lock of one container only when it is gone,
\* although delete_session drops lock objects that are held or waited for.
THEOREM LockExclusionHolds == Spec => []LockExclusion
<1>1. Inductive => LockExclusion
  <2>1. SUFFICES ASSUME Inductive, NEW r1 \in Reqs, NEW r2 \in Reqs, r1 # r2,
                        InLock(r1), InLock(r2), cid[r1] = cid[r2],
                        box[cid[r1]].status # "gone"
                 PROVE  FALSE
    BY DEF LockExclusion
  <2>2. lock[r1] = lockTable[cid[r1]] /\ lock[r2] = lockTable[cid[r1]]
    BY <2>1 DEF Inductive, LockInv, InLock
  <2>3. lock[r1] # lock[r2]
    BY <2>1 DEF Inductive, LockInv
  <2> QED
    BY <2>2, <2>3
<1> QED
  BY <1>1, InductiveInvariant, PTL

\* The session layer in memory, crashes included, implements SessionContract.
THEOREM ContractRefined == Spec => ContractKept
<1>1. Init => Contract!Init
  BY InitHolds
<1>2. Inductive /\ [Next]_vars => [Contract!Step \/ Contract!Crash]_(Contract!cvars)
  BY NextKeeps
<1> QED
  BY <1>1, <1>2, InductiveInvariant, PTL DEF Spec, ContractKept, Contract!Spec
=============================================================================
