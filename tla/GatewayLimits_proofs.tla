------------------------- MODULE GatewayLimits_proofs -------------------------
(***************************************************************************)
(* The limits GatewaySessions keeps, for every value of its constants:     *)
(* the execution slots, one execution's user code per container, what a    *)
(* response says about a removal, the execution budget, the session quota. *)
(*                                                                         *)
(* All of them rest on Inductive, the invariant of GatewaySessions_proofs. *)
(* A step is one handler's (Only says that it disturbs no other handler),  *)
(* or the clock's, or a restart, so each proof looks at the handler that   *)
(* moves and at what its action does to docker and to the store.           *)
(***************************************************************************)
EXTENDS GatewaySessions_proofs, FiniteSetTheorems

\* Nobody but a moves or changes what it holds.
Only(a) ==
  /\ \A b \in Actors \ {a} : pc'[b] = pc[b] /\ cid'[b] = cid[b]
  /\ \A q \in Reqs \ {a} : /\ lock'[q] = lock[q] /\ obj'[q] = obj[q]
                           /\ op'[q] = op[q] /\ end'[q] = end[q]
                           /\ creating = q => creating' = q

\* A handler that leaves.
LEMMA LeaveOnly ==
  ASSUME HandlerType, NEW r \in Reqs, NEW o, Leave(r, o)
  PROVE  /\ Only(r) /\ cid' = cid
         /\ pc'[r] = o /\ lock'[r] = NoLock /\ obj'[r] = NoObj /\ end'[r] = "done"
BY SetsAssumption DEF HandlerType, Leave, Only, Actors

\* A handler, or the cleanup task, that goes to another suspension point.
LEMMA GotoOnly ==
  ASSUME HandlerType, NEW a \in Actors, NEW p, Goto(a, p)
  PROVE  /\ Only(a) /\ pc'[a] = p
         /\ UNCHANGED <<cid, op, end, obj, lock, locked, slots, creating>>
BY DEF HandlerType, Goto, holdings, Only, Actors

\* What a handler does by itself, other than removing a container.
OwnStep(r) ==
  \/ BeginCreate(r) \/ BeginAccess(r) \/ CreateNext(r) \/ AccessNext(r) \/ ExecuteNext(r)
  \/ GuardTimeout(r) \/ WaitTimeout(r)
  \/ DockerRunFails(r) \/ EnvProvisionFails(r) \/ DockerError(r)

\* What a handler, or the cleanup task, does to remove a container.
RemovalStep(a) == RemovalNext(a) \/ RmUnconfirmed(a) \/ RmRaises(a)

\* What the cleanup task does besides.
CleanupStep == ReaperScan \/ ReaperNext \/ ReaperList \/ ReaperRecover

\* Every step is one of these.
LEMMA Steppers ==
  ASSUME [Next]_vars
  PROVE  \/ \E r \in Reqs : OwnStep(r)
         \/ \E a \in Actors : RemovalStep(a)
         \/ \E c \in Cids, r \in Reqs : CodeEnds(c, r)
         \/ CleanupStep
         \/ Restart
         \/ Tick
         \/ UNCHANGED vars
BY DEF Next, HandlerStep, ReaperNextStep, OwnStep, RemovalStep, CleanupStep, Actors

-----------------------------------------------------------------------------
(***************************************************************************)
(* The execution slots                                                     *)
(***************************************************************************)
\* What a step may do to the locks and the slots: nothing, give both back, take
\* both, or start from scratch.
SlotsMove ==
  \/ UNCHANGED <<lock, slots>>
  \/ \E r \in Reqs : /\ lock' = [lock EXCEPT ![r] = NoLock]
                     /\ ReturnSlot(r)
  \/ \E r \in Reqs, l \in LockIds : /\ lock[r] = NoLock
                                    /\ slots > 0
                                    /\ lock' = [lock EXCEPT ![r] = l]
                                    /\ slots' = slots - 1
  \/ lock' = [r \in Reqs |-> NoLock] /\ slots' = MaxConcurrent

\* Leaving gives back the lock and the slot, or had neither.
LEMMA LeaveMovesSlots ==
  ASSUME NEW r \in Reqs, NEW o, Leave(r, o)
  PROVE  SlotsMove
BY DEF Leave, SlotsMove

\* Going on touches neither.
LEMMA GotoMovesSlots ==
  ASSUME NEW a, NEW p, Goto(a, p)
  PROVE  SlotsMove
BY DEF Goto, holdings, SlotsMove

\* A removal ends in one of the two, for a handler and for the cleanup task.
LEMMA AfterMovesSlots ==
  ASSUME NEW a \in Actors, AfterRemoval(a) \/ Abort(a)
  PROVE  SlotsMove
<1>1. a # Reaper => a \in Reqs
  BY DEF Actors
<1> QED
  BY <1>1, LeaveMovesSlots, GotoMovesSlots DEF AfterRemoval, Abort

LEMMA NextMovesSlots ==
  ASSUME Inductive, [Next]_vars
  PROVE  SlotsMove
<1>1. ASSUME NEW r \in Reqs, CreateNext(r) \/ GuardTimeout(r) \/ WaitTimeout(r)
      PROVE  SlotsMove
  BY <1>1, LeaveMovesSlots, GotoMovesSlots DEF CreateNext, EnterGuard, DockerRun,
     FinishCreate, GuardTimeout, WaitTimeout, SlotsMove
<1>2. ASSUME NEW r \in Reqs, BeginCreate(r) \/ BeginAccess(r)
      PROVE  SlotsMove
  BY <1>2 DEF BeginCreate, BeginAccess, SlotsMove
<1>3. ASSUME NEW r \in Reqs, DockerRunFails(r) \/ EnvProvisionFails(r) \/ DockerError(r)
      PROVE  SlotsMove
  BY <1>3, LeaveMovesSlots, GotoMovesSlots DEF DockerRunFails, EnvProvisionFails, DockerError
<1>4. ASSUME NEW r \in Reqs, CheckSession(r)
      PROVE  SlotsMove
  BY <1>4, LeaveMovesSlots, GotoMovesSlots DEF CheckSession, SlotsMove
<1>5. ASSUME NEW r \in Reqs, AccessNext(r)
      PROVE  SlotsMove
  BY <1>4, <1>5, LeaveMovesSlots, GotoMovesSlots DEF AccessNext, EnsureSession,
     LookUpContainer, RecoverSession, Inspect
<1>6. ASSUME NEW r \in Reqs, AcquireSlot(r)
      PROVE  SlotsMove
  <2>1. lock[r] = NoLock
    BY <1>6 DEF AcquireSlot, Inductive, LockInv, LockSteps, ExecSteps, RemovalSteps
  <2> QED
    BY <1>6, <2>1, LeaveMovesSlots DEF AcquireSlot, SlotFree, SlotsMove
<1>7. ASSUME NEW r \in Reqs, AcquireLock(r) \/ FetchContainer(r) \/ AdmitExecution(r)
      PROVE  SlotsMove
  BY <1>7, LeaveMovesSlots, GotoMovesSlots DEF AcquireLock, FetchContainer, AdmitExecution,
     SlotsMove
<1>8. ASSUME NEW r \in Reqs, Provision(r) \/ StartExec(r) \/ FinishExec(r) \/ ExecCut(r)
                               \/ ExecTimeout(r)
      PROVE  SlotsMove
  BY <1>8, LeaveMovesSlots, GotoMovesSlots DEF Provision, StartExec, FinishExec, ExecCut,
     ExecTimeout, SlotsMove
<1>9. ASSUME NEW r \in Reqs, OwnStep(r)
      PROVE  SlotsMove
  BY <1>1, <1>2, <1>3, <1>5, <1>6, <1>7, <1>8, <1>9 DEF OwnStep, ExecuteNext
<1>10. ASSUME NEW a \in Actors, RemovalStep(a)
       PROVE  SlotsMove
  BY <1>10, AfterMovesSlots, GotoMovesSlots DEF RemovalStep, RemovalNext, RmGet, RmKill,
     RmRemove, RmConfirm, RmUnconfirmed, RmRaises
<1>11. CASE CleanupStep
  BY <1>11, AfterMovesSlots, GotoMovesSlots DEF CleanupStep, ReaperScan, ReaperNext,
     ReaperList, ReaperRecover, SlotsMove, Actors
<1>12. CASE Restart
  BY <1>12 DEF Restart, SlotsMove
<1>13. ASSUME (\E c \in Cids, r \in Reqs : CodeEnds(c, r)) \/ Tick \/ UNCHANGED vars
       PROVE  SlotsMove
  BY <1>13 DEF CodeEnds, Tick, vars, holdings, SlotsMove
<1> QED
  BY <1>9, <1>10, <1>11, <1>12, <1>13, Steppers

\* Every slot of execution_semaphore is free or held by one request in flight,
\* whatever way a request takes out of execute_code.
THEOREM SlotsAreConserved ==
  ASSUME IsFiniteSet(Reqs)
  PROVE  Spec => []SlotsConserved
<1> DEFINE H == {r \in Reqs : lock[r] # NoLock}
<1>1. Init => SlotsConserved
  <2>1. SUFFICES ASSUME Init PROVE SlotsConserved
    OBVIOUS
  <2>2. H = {} /\ slots = MaxConcurrent
    BY <2>1 DEF Init
  <2>3. Cardinality(H) = 0
    BY <2>2, FS_EmptySet
  <2>4. slots + Cardinality(H) = MaxConcurrent
    <3> HIDE DEF H
    <3> QED
      BY <2>2, <2>3, NumbersAssumption
  <2> QED
    BY <2>4 DEF SlotsConserved
<1>2. Inductive /\ SlotsConserved /\ [Next]_vars => SlotsConserved'
  <2>1. SUFFICES ASSUME Inductive, SlotsConserved, [Next]_vars
                 PROVE  SlotsConserved'
    OBVIOUS
  <2>2. SlotsMove
    BY <2>1, NextMovesSlots
  <2>3. lock \in [Reqs -> LockIds \cup {NoLock}] /\ slots \in Nat /\ NoLock \notin LockIds
    BY <2>1, NumbersAssumption DEF Inductive, TypeOK, HandlerType, NoLock
  <2>4. IsFiniteSet(H) /\ Cardinality(H) \in Nat
    <3>1. H \in SUBSET Reqs
      OBVIOUS
    <3> QED
      BY <3>1, FS_Subset, FS_CardinalityType
  <2>5. slots + Cardinality(H) = MaxConcurrent
    BY <2>1 DEF SlotsConserved
  <2>6. SUFFICES slots' + Cardinality(H') = MaxConcurrent
    BY DEF SlotsConserved
  <2>7. CASE UNCHANGED <<lock, slots>>
    BY <2>5, <2>7
  <2>8. ASSUME NEW r \in Reqs, lock' = [lock EXCEPT ![r] = NoLock], ReturnSlot(r)
        PROVE  slots' + Cardinality(H') = MaxConcurrent
    <3>1. H' = H \ {r} /\ (r \in H <=> lock[r] # NoLock)
      BY <2>3, <2>8
    <3>2. Cardinality(H \ {r}) = IF r \in H THEN Cardinality(H) - 1 ELSE Cardinality(H)
      BY <2>4, FS_RemoveElement
    <3>3. slots' = IF r \in H THEN slots + 1 ELSE slots
      BY <2>8, <3>1 DEF ReturnSlot
    <3> HIDE DEF H
    <3> QED
      BY <2>3, <2>4, <2>5, <3>1, <3>2, <3>3
  <2>9. ASSUME NEW r \in Reqs, NEW l \in LockIds, lock[r] = NoLock, slots > 0,
               lock' = [lock EXCEPT ![r] = l], slots' = slots - 1
        PROVE  slots' + Cardinality(H') = MaxConcurrent
    <3>1. H' = H \cup {r} /\ r \notin H
      BY <2>3, <2>9
    <3>2. Cardinality(H \cup {r}) = Cardinality(H) + 1
      BY <2>4, <3>1, FS_AddElement
    <3> HIDE DEF H
    <3> QED
      BY <2>3, <2>4, <2>5, <2>9, <3>1, <3>2
  <2>10. CASE lock' = [r \in Reqs |-> NoLock] /\ slots' = MaxConcurrent
    <3>1. H' = {}
      BY <2>10
    <3> QED
      BY <2>10, <3>1, FS_EmptySet, NumbersAssumption
  <2> QED
    BY <2>2, <2>7, <2>8, <2>9, <2>10 DEF SlotsMove
<1> QED
  BY <1>1, <1>2, InductiveInvariant, PTL DEF Spec

-----------------------------------------------------------------------------
(***************************************************************************)
(* Who moves                                                               *)
(***************************************************************************)
\* A removal ends with the handler gone, or the cleanup task back at its list.
LEMMA AfterOnly ==
  ASSUME HandlerType, NEW a \in Actors, AfterRemoval(a) \/ Abort(a)
  PROVE  Only(a) /\ cid' = cid
<1>1. a # Reaper => a \in Reqs
  BY DEF Actors
<1> QED
  BY <1>1, LeaveOnly, GotoOnly DEF AfterRemoval, Abort

LEMMA OwnStepOnly ==
  ASSUME Inductive, NEW r \in Reqs, OwnStep(r)
  PROVE  Only(r)
<1>1. HandlerType /\ r \in Actors
  BY DEF Inductive, TypeOK, Actors
<1>2. CASE BeginCreate(r) \/ BeginAccess(r)
  BY <1>1, <1>2 DEF BeginCreate, BeginAccess, Only, HandlerType, Actors
<1>3. CASE CreateNext(r) \/ GuardTimeout(r) \/ WaitTimeout(r)
  <2>1. ASSUME NEW c \in Cids, cid' = [cid EXCEPT ![r] = c],
               pc' = [pc EXCEPT ![r] = "c_run"], UNCHANGED <<op, end, obj, lock, locked, slots>>
        PROVE  EnterGuard(r) => Only(r)
    BY <1>1, <2>1, SetsAssumption DEF Only, HandlerType, Actors, EnterGuard, GuardFree, Leave
  <2> QED
    BY <1>1, <1>3, <2>1, LeaveOnly, GotoOnly DEF CreateNext, EnterGuard, DockerRun, FinishCreate,
       GuardTimeout, WaitTimeout
<1>4. CASE DockerRunFails(r) \/ EnvProvisionFails(r) \/ DockerError(r)
  BY <1>1, <1>4, LeaveOnly, GotoOnly DEF DockerRunFails, EnvProvisionFails, DockerError
<1>5. CASE AccessNext(r)
  <2>1. CheckSession(r) => Only(r)
    BY <1>1, LeaveOnly, GotoOnly DEF CheckSession, Only, HandlerType, Actors
  <2> QED
    BY <1>1, <1>5, <2>1, LeaveOnly, GotoOnly DEF AccessNext, EnsureSession, LookUpContainer,
       RecoverSession, Inspect
<1>6. CASE AcquireSlot(r) \/ AcquireLock(r) \/ FetchContainer(r) \/ AdmitExecution(r)
  BY <1>1, <1>6, LeaveOnly, GotoOnly DEF AcquireSlot, AcquireLock, FetchContainer,
     AdmitExecution, Only, HandlerType, Actors
<1>7. CASE Provision(r) \/ StartExec(r) \/ FinishExec(r) \/ ExecCut(r) \/ ExecTimeout(r)
  BY <1>1, <1>7, LeaveOnly, GotoOnly DEF Provision, StartExec, FinishExec, ExecCut,
     ExecTimeout, Only, HandlerType, Actors
<1> QED
  BY <1>2, <1>3, <1>4, <1>5, <1>6, <1>7 DEF OwnStep, ExecuteNext

LEMMA RemovalStepOnly ==
  ASSUME Inductive, NEW a \in Actors, RemovalStep(a)
  PROVE  Only(a) /\ cid' = cid
BY AfterOnly, GotoOnly DEF Inductive, TypeOK, RemovalStep, RemovalNext, RmGet, RmKill,
   RmRemove, RmConfirm, RmUnconfirmed, RmRaises

LEMMA CleanupStepOnly ==
  ASSUME Inductive, CleanupStep
  PROVE  Only(Reaper) /\ pc[Reaper] \in ReaperSteps
<1>1. HandlerType /\ Reaper \in Actors
  BY DEF Inductive, TypeOK, Actors
<1>2. CASE ReaperNext
  BY <1>1, <1>2 DEF ReaperNext, Only, HandlerType, Actors, ReaperSteps
<1> QED
  BY <1>1, <1>2, AfterOnly, GotoOnly DEF CleanupStep, ReaperScan, ReaperList, ReaperRecover,
     ReaperSteps

\* Where a handler gets by itself, and by which action.
LEMMA Arrives ==
  ASSUME Inductive, NEW r \in Reqs, OwnStep(r)
  PROVE  \/ pc'[r] = "done"
         \/ pc'[r] = "c_guard" /\ BeginCreate(r)
         \/ pc'[r] = "c_run" /\ EnterGuard(r)
         \/ pc'[r] = "c_ran" /\ DockerRun(r)
         \/ pc'[r] = "a_begin" /\ BeginAccess(r)
         \/ pc'[r] = "a_get" /\ EnsureSession(r)
         \/ pc'[r] = "a_got" /\ LookUpContainer(r)
         \/ /\ pc'[r] \in {"x_slot", "rm_get", "g_get"}
            /\ EnsureSession(r) \/ RecoverSession(r)
         \/ pc'[r] = "x_lock" /\ AcquireSlot(r) /\ lock'[r] \in LockIds
         \/ pc'[r] = "x_get" /\ AcquireLock(r)
         \/ pc'[r] = "x_got" /\ FetchContainer(r)
         \/ pc'[r] = "x_prep" /\ AdmitExecution(r)
         \/ pc'[r] = "x_start" /\ Provision(r)
         \/ pc'[r] = "x_run" /\ StartExec(r)
         \/ /\ pc'[r] = "rm_kill"
            /\ EnvProvisionFails(r) \/ AdmitExecution(r) \/ ExecTimeout(r)
<1>0. HandlerType /\ r \in Actors
  BY DEF Inductive, TypeOK, Actors
<1>1. Leave(r, "done") => pc'[r] = "done"
  BY <1>0, LeaveOnly
<1>2. ASSUME NEW p, Goto(r, p)
      PROVE  pc'[r] = p
  BY <1>0, <1>2, GotoOnly
<1>3. CASE BeginCreate(r) \/ BeginAccess(r) \/ ExecTimeout(r)
  BY <1>0, <1>3 DEF BeginCreate, BeginAccess, ExecTimeout, HandlerType
<1>4. CASE CreateNext(r) \/ GuardTimeout(r) \/ WaitTimeout(r)
  BY <1>0, <1>1, <1>2, <1>4 DEF CreateNext, EnterGuard, DockerRun, FinishCreate, GuardTimeout,
     WaitTimeout, HandlerType
<1>5. CASE DockerRunFails(r) \/ EnvProvisionFails(r) \/ DockerError(r)
  BY <1>1, <1>2, <1>5 DEF DockerRunFails, EnvProvisionFails, DockerError
<1>6. CASE AccessNext(r)
  <2>1. CheckSession(r) => pc'[r] \in {"done", "x_slot", "rm_get", "g_get"}
    BY <1>0, <1>1, <1>2 DEF CheckSession, NextStepOf, HandlerType
  <2> QED
    BY <1>1, <1>2, <1>6, <2>1 DEF AccessNext, EnsureSession, LookUpContainer, RecoverSession,
       Inspect
<1>7. CASE AcquireSlot(r) \/ AcquireLock(r)
  BY <1>0, <1>1, <1>7 DEF AcquireSlot, AcquireLock, HandlerType
<1>8. CASE FetchContainer(r) \/ AdmitExecution(r) \/ Provision(r) \/ StartExec(r)
             \/ FinishExec(r) \/ ExecCut(r)
  BY <1>1, <1>2, <1>8 DEF FetchContainer, AdmitExecution, Provision, StartExec, FinishExec,
     ExecCut
<1> QED
  BY <1>3, <1>4, <1>5, <1>6, <1>7, <1>8 DEF OwnStep, ExecuteNext

\* A removal goes on or ends the request.
LEMMA RemovalArrives ==
  ASSUME Inductive, NEW r \in Reqs, RemovalStep(r)
  PROVE  pc[r] \in RemovalSteps /\ pc'[r] \in RemovalSteps \cup Outcomes
<1>0. HandlerType /\ r \in Actors /\ r # Reaper /\ end[r] \in Outcomes
  BY SetsAssumption DEF Inductive, TypeOK, HandlerType, Actors, Outcomes
<1>1. ASSUME AfterRemoval(r) \/ Abort(r)
      PROVE  pc'[r] \in Outcomes
  BY <1>0, <1>1, LeaveOnly DEF AfterRemoval, Abort, Outcomes
<1>2. ASSUME NEW p \in RemovalSteps, Goto(r, p)
      PROVE  pc'[r] \in RemovalSteps
  BY <1>0, <1>2, GotoOnly
<1> QED
  BY <1>1, <1>2 DEF RemovalSteps, RemovalStep, RemovalNext, RmGet, RmKill, RmRemove, RmConfirm,
     RmUnconfirmed, RmRaises

-----------------------------------------------------------------------------
(***************************************************************************)
(* One execution's user code per container                                 *)
(***************************************************************************)
\* Two handlers past the execution lock of a container that is not gone are one.
LEMMA LockExcludes ==
  ASSUME Inductive, NEW r1 \in Reqs, NEW r2 \in Reqs, InLock(r1), InLock(r2),
         cid[r1] = cid[r2], box[cid[r1]].status # "gone"
  PROVE  r1 = r2
BY DEF Inductive, LockInv, InLock

\* Who is past the slot holds a lock object, or waits for it.
HeldInv == \A r \in Reqs : pc[r] \in ExecSteps \ {"x_slot"} => lock[r] # NoLock

\* User code of a request runs in the container the request is about, which is up,
\* and the request is inside its execution lock: waiting for the code, or, after a
\* timeout, on its way to kill it.
RunsFor(c, r) ==
  /\ cid[r] = c /\ lock[r] # NoLock
  /\ pc[r] \in {"x_run", "rm_kill"}
  /\ box[c].status = "up"
CodeInv ==
  faults = 0 /\ restarts = 0 =>
    \A c \in Cids : \A r \in running[c] : RunsFor(c, r)

\* The user code and its handlers are left alone by a step of another handler.
LEMMA OthersKeepCode ==
  ASSUME TypeOK, TypeOK', CodeInv, NEW a \in Actors, Only(a), pc[a] \notin {"x_run", "rm_kill"},
         running' = running,
         \A c \in Cids : box[c].status = "up" => box'[c].status = "up",
         faults' = 0 /\ restarts' = 0 => faults = 0 /\ restarts = 0
  PROVE  CodeInv'
<1> SUFFICES ASSUME faults' = 0, restarts' = 0, NEW c \in Cids, NEW r \in running'[c]
             PROVE  RunsFor(c, r)'
  BY DEF CodeInv
<1>1. r \in Reqs /\ r \in Actors
  BY DEF TypeOK, DockerType, Actors
<1>2. RunsFor(c, r)
  BY DEF CodeInv
<1>3. r # a
  BY <1>2 DEF RunsFor
<1> QED
  BY <1>1, <1>2, <1>3 DEF RunsFor, Only

\* A docker call that fails is not a case the property is about.
LEMMA FaultEnds ==
  ASSUME TypeOK, Fault
  PROVE  faults' # 0
BY DEF TypeOK, CounterType, Fault

LEMMA HeldKept ==
  ASSUME Inductive, HeldInv, [Next]_vars
  PROVE  HeldInv'
<1> USE DEF ExecSteps
<1>0. HandlerType /\ Reqs \subseteq Actors /\ NoLock \notin LockIds
  BY NumbersAssumption DEF Inductive, TypeOK, Actors, NoLock
<1>1. ASSUME NEW a \in Actors, Only(a),
             a \in Reqs /\ pc'[a] \in ExecSteps \ {"x_slot"} => lock'[a] # NoLock
      PROVE  HeldInv'
  BY <1>0, <1>1 DEF Only, HeldInv
<1>2. ASSUME NEW r \in Reqs, OwnStep(r), pc'[r] \in ExecSteps \ {"x_slot"}
      PROVE  lock'[r] # NoLock
  <2>1. CASE AcquireLock(r)
    <3>1. lock' = lock /\ pc[r] \in ExecSteps \ {"x_slot"}
      BY <1>0, <1>2, <2>1, LeaveOnly DEF AcquireLock
    <3> QED
      BY <3>1 DEF HeldInv
  <2>2. CASE FetchContainer(r) \/ AdmitExecution(r) \/ Provision(r) \/ StartExec(r)
    <3>1. pc[r] \in ExecSteps \ {"x_slot"} /\ pc'[r] # "done"
      BY <1>2, <2>2 DEF FetchContainer, AdmitExecution, Provision, StartExec
    <3>2. lock' = lock
      BY <1>0, <2>2, <3>1, LeaveOnly, GotoOnly DEF FetchContainer, AdmitExecution, Provision,
         StartExec
    <3> QED
      BY <3>1, <3>2 DEF HeldInv
  <2> QED
    BY <1>0, <1>2, <2>1, <2>2, Arrives
<1>3. ASSUME NEW a \in Reqs, RemovalStep(a), pc'[a] \in ExecSteps \ {"x_slot"}
      PROVE  FALSE
  BY <1>3, RemovalArrives DEF Outcomes, RemovalSteps
<1>4. ASSUME NEW c \in Cids, NEW r \in Reqs, CodeEnds(c, r)
      PROVE  HeldInv'
  BY <1>0, <1>4 DEF CodeEnds, holdings, HeldInv, HandlerType
<1>5. CASE Restart
  BY <1>0, <1>5 DEF Restart, HeldInv, Outcomes
<1>6. CASE Tick \/ UNCHANGED vars
  BY <1>6 DEF Tick, vars, holdings, HeldInv
<1>7. CASE CleanupStep
  BY <1>1, <1>7, CleanupStepOnly, SetsAssumption DEF Actors
<1>8. ASSUME NEW r \in Reqs, OwnStep(r)
      PROVE  HeldInv'
  BY <1>0, <1>1, <1>2, <1>8, OwnStepOnly
<1>9. ASSUME NEW a \in Actors, RemovalStep(a)
      PROVE  HeldInv'
  BY <1>1, <1>3, <1>9, RemovalStepOnly
<1> QED
  BY <1>4, <1>5, <1>6, <1>7, <1>8, <1>9, Steppers

\* A handler that is neither running user code nor about to kill its container
\* does not stop a container that is up, and neither does the cleanup task.
LEMMA OwnStepKeepsCode ==
  ASSUME Inductive, Inductive', HeldInv, CodeInv, NEW r \in Reqs, OwnStep(r)
  PROVE  CodeInv'
<1>0. /\ TypeOK /\ TypeOK' /\ HandlerType /\ r \in Actors /\ Only(r)
      /\ box \in [Cids -> BoxType] /\ running \in [Cids -> SUBSET Reqs]
  BY OwnStepOnly DEF Inductive, TypeOK, DockerType, Actors
<1>1. ASSUME UNCHANGED docker, faults' = 0 /\ restarts' = 0 => faults = 0 /\ restarts = 0,
             pc[r] \notin {"x_run", "rm_kill"}
      PROVE  CodeInv'
  BY <1>0, <1>1, OthersKeepCode DEF docker
<1>2. ASSUME Fault
      PROVE  CodeInv'
  BY <1>0, <1>2, FaultEnds DEF CodeInv
<1>3. CASE BeginCreate(r) \/ BeginAccess(r) \/ GuardTimeout(r) \/ WaitTimeout(r)
  BY <1>1, <1>3 DEF BeginCreate, BeginAccess, GuardTimeout, WaitTimeout, bounds
<1>4. CASE CreateNext(r)
  <2>1. /\ running' = running /\ faults' = faults /\ restarts' = restarts
        /\ pc[r] \in {"c_guard", "c_run", "c_ran"}
    BY <1>4 DEF CreateNext, EnterGuard, DockerRun, FinishCreate, bounds
  <2>2. \A c \in Cids : box[c].status = "up" => box'[c].status = "up"
    <3>1. CASE EnterGuard(r)
      <4>1. CASE UNCHANGED box
        BY <4>1
      <4>2. CASE \E c \in Cids :
                   /\ box[c].status = "unused"
                   /\ box' = [box EXCEPT ![c] = [@ EXCEPT !.status = "starting",
                                !.owner = Subject[r], !.created = now,
                                !.expires = now + Lifetime]]
        BY <1>0, <4>2
      <4> QED
        BY <3>1, <4>1, <4>2 DEF EnterGuard
    <3>2. CASE DockerRun(r)
      BY <1>0, <3>2 DEF DockerRun, BoxType
    <3>3. CASE FinishCreate(r)
      BY <1>0, <3>3 DEF FinishCreate, BoxType
    <3> QED
      BY <1>4, <3>1, <3>2, <3>3 DEF CreateNext
  <2> QED
    BY <1>0, <2>1, <2>2, OthersKeepCode
<1>5. CASE DockerRunFails(r) \/ EnvProvisionFails(r) \/ DockerError(r)
  BY <1>2, <1>5 DEF DockerRunFails, EnvProvisionFails, DockerError
<1>6. CASE AccessNext(r)
  BY <1>1, <1>6 DEF AccessNext, EnsureSession, LookUpContainer, RecoverSession, Inspect, bounds
<1>7. CASE AcquireSlot(r) \/ AcquireLock(r) \/ FetchContainer(r) \/ AdmitExecution(r)
             \/ Provision(r) \/ FinishExec(r)
  BY <1>1, <1>7 DEF AcquireSlot, AcquireLock, FetchContainer, AdmitExecution, Provision,
     FinishExec, bounds
<1>8. CASE StartExec(r)
  <2>1. SUFFICES ASSUME faults' = 0, restarts' = 0, NEW c \in Cids, NEW q \in running'[c]
                 PROVE  RunsFor(c, q)'
    BY DEF CodeInv
  <2>2. /\ box' = box /\ cid' = cid
        /\ faults = 0 /\ restarts = 0 /\ q \in Reqs
        /\ pc[r] = "x_start"
    BY <1>0, <1>8, <2>1, LeaveOnly, GotoOnly DEF StartExec, bounds, Only, TypeOK, DockerType
  <2>3. CASE q # r
    <3>1. q \in running[c]
      BY <1>0, <1>8, <2>3 DEF StartExec
    <3>2. RunsFor(c, q)
      BY <2>2, <3>1 DEF CodeInv
    <3> QED
      BY <1>0, <2>2, <2>3, <3>2 DEF RunsFor, Only, Actors
  <2>4. CASE q = r
    <3>1. r \notin running[c]
      BY <2>2 DEF CodeInv, RunsFor
    <3>2. /\ running' = [running EXCEPT ![cid[r]] = @ \cup {r}]
          /\ box[cid[r]].status = "up" /\ Goto(r, "x_run")
      BY <1>8, <2>1, <2>4, <3>1 DEF StartExec
    <3>3. cid[r] = c
      BY <1>0, <2>1, <2>4, <3>1, <3>2
    <3>4. lock[r] # NoLock
      BY <2>2 DEF HeldInv, ExecSteps
    <3>5. pc'[r] = "x_run" /\ lock' = lock
      BY <1>0, <3>2, GotoOnly
    <3> QED
      BY <2>2, <2>4, <3>2, <3>3, <3>4, <3>5 DEF RunsFor
  <2> QED
    BY <2>3, <2>4
<1>9. CASE ExecCut(r) \/ ExecTimeout(r)
  <2>1. SUFFICES ASSUME faults' = 0, restarts' = 0, NEW c \in Cids, NEW q \in running'[c]
                 PROVE  RunsFor(c, q)'
    BY DEF CodeInv
  <2>2. /\ box' = box /\ running' = running /\ faults = 0 /\ restarts = 0
    BY <1>9, <2>1 DEF ExecCut, ExecTimeout, docker, bounds
  <2>3. q \in Reqs /\ RunsFor(c, q)
    BY <1>0, <2>2 DEF CodeInv
  <2>4. CASE q # r
    BY <1>0, <2>2, <2>3, <2>4 DEF RunsFor, Only, Actors
  <2>5. CASE q = r /\ ExecTimeout(r)
    BY <1>0, <2>2, <2>3, <2>5 DEF RunsFor, ExecTimeout, HandlerType
  <2>6. ~(q = r /\ ExecCut(r))
    BY <2>2, <2>3 DEF RunsFor, ExecCut
  <2> QED
    BY <1>9, <2>4, <2>5, <2>6
<1> QED
  BY <1>3, <1>4, <1>5, <1>6, <1>7, <1>8, <1>9 DEF OwnStep, ExecuteNext

\* A removal stops all the code of the container it stops.
LEMMA RemovalKeepsCode ==
  ASSUME Inductive, Inductive', CodeInv, NEW a \in Actors, RemovalStep(a)
  PROVE  CodeInv'
<1>0. /\ TypeOK /\ TypeOK' /\ HandlerType /\ Only(a)
      /\ box \in [Cids -> BoxType] /\ running \in [Cids -> SUBSET Reqs]
  BY RemovalStepOnly DEF Inductive, TypeOK, DockerType
<1>1. CASE RmGet(a) \/ RmConfirm(a)
  BY <1>0, <1>1, OthersKeepCode DEF RmGet, RmConfirm, docker, bounds
<1>2. ASSUME Fault
      PROVE  CodeInv'
  BY <1>0, <1>2, FaultEnds DEF CodeInv
<1>3. ASSUME NEW st, box' = [box EXCEPT ![cid[a]].status = st],
             running' = [running EXCEPT ![cid[a]] = {}], UNCHANGED bounds, cid' = cid
      PROVE  CodeInv'
  <2>1. SUFFICES ASSUME faults = 0, restarts = 0, NEW c \in Cids, NEW q \in running'[c]
                 PROVE  RunsFor(c, q)'
    BY <1>3 DEF CodeInv, bounds
  <2>2. c # cid[a] /\ q \in running[c] /\ box'[c] = box[c] /\ q \in Reqs
    BY <1>0, <1>3
  <2>3. RunsFor(c, q)
    BY <2>1, <2>2 DEF CodeInv
  <2>4. q # a
    BY <2>2, <2>3 DEF RunsFor
  <2> QED
    BY <1>0, <1>3, <2>2, <2>3, <2>4 DEF RunsFor, Only, Actors
<1>4. CASE RmKill(a) \/ RmRemove(a)
  BY <1>0, <1>2, <1>3, <1>4, RemovalStepOnly DEF RmKill, RmRemove
<1> QED
  BY <1>1, <1>2, <1>4 DEF RemovalStep, RemovalNext, RmUnconfirmed, RmRaises

LEMMA CodeKept ==
  ASSUME Inductive, Inductive', HeldInv, CodeInv, [Next]_vars
  PROVE  CodeInv'
<1>0. TypeOK /\ TypeOK' /\ HandlerType
  BY DEF Inductive, TypeOK
<1>1. ASSUME NEW e \in Cids, NEW r \in Reqs, CodeEnds(e, r)
      PROVE  CodeInv'
  <2>1. SUFFICES ASSUME faults' = 0, restarts' = 0, NEW c \in Cids, NEW q \in running'[c]
                 PROVE  RunsFor(c, q)'
    BY DEF CodeInv
  <2>2. /\ box' = box /\ faults = 0 /\ restarts = 0 /\ lock' = lock /\ cid' = cid
        /\ q \in running[c] /\ ~(c = e /\ q = r) /\ q \in Reqs /\ r \in running[e]
    BY <1>0, <1>1, <2>1 DEF CodeEnds, TypeOK, DockerType, bounds, holdings
  <2>3. RunsFor(c, q) /\ cid[r] = e
    BY <2>2 DEF CodeInv, RunsFor
  <2>4. pc'[q] = pc[q]
    BY <1>0, <1>1, <2>2, <2>3 DEF CodeEnds, HandlerType, RunsFor
  <2> QED
    BY <2>2, <2>3, <2>4 DEF RunsFor
<1>2. CASE CleanupStep
  <2>1. Only(Reaper) /\ pc[Reaper] \notin {"x_run", "rm_kill"} /\ Reaper \in Actors
    BY <1>2, CleanupStepOnly DEF Actors, ReaperSteps
  <2>2. /\ UNCHANGED docker
        /\ faults' = 0 /\ restarts' = 0 => faults = 0 /\ restarts = 0
    BY <1>0, <1>2, FaultEnds DEF CleanupStep, ReaperScan, ReaperNext, ReaperList, ReaperRecover,
       bounds
  <2> QED
    BY <1>0, <2>1, <2>2, OthersKeepCode DEF docker
<1>3. CASE Restart
  BY <1>0, <1>3 DEF Restart, CodeInv, TypeOK, CounterType
<1>4. CASE Tick \/ UNCHANGED vars
  BY <1>4 DEF Tick, vars, holdings, docker, bounds, CodeInv, RunsFor
<1> QED
  BY <1>1, <1>2, <1>3, <1>4, OwnStepKeepsCode, RemovalKeepsCode, Steppers

\* As long as docker calls succeed and the gateway process lives, at most one
\* execution's user code is alive in a container: a timed-out execution is killed
\* before anybody else gets the lock.
THEOREM OneCodePerContainer == Spec => [](faults = 0 /\ restarts = 0 => CodeExclusion)
<1>1. Init => HeldInv /\ CodeInv
  <2>1. SUFFICES ASSUME Init PROVE HeldInv /\ CodeInv
    OBVIOUS
  <2>2. \A a \in Actors : pc[a] \in {"idle", "sleep"}
    BY <2>1 DEF Init
  <2> QED
    BY <2>1, <2>2 DEF Init, HeldInv, CodeInv, ExecSteps, Actors
<1>2. Inductive /\ Inductive' /\ HeldInv /\ CodeInv /\ [Next]_vars => (HeldInv /\ CodeInv)'
  BY HeldKept, CodeKept
<1>3. Inductive /\ CodeInv => (faults = 0 /\ restarts = 0 => CodeExclusion)
  <2>1. SUFFICES ASSUME Inductive, CodeInv, faults = 0, restarts = 0, NEW c \in Cids
                 PROVE  Cardinality(running[c]) <= 1
    BY DEF CodeExclusion
  <2>2. ASSUME NEW r1 \in running[c], NEW r2 \in running[c]
        PROVE  r1 = r2
    <3>1. RunsFor(c, r1) /\ RunsFor(c, r2) /\ r1 \in Reqs /\ r2 \in Reqs
      BY <2>1 DEF CodeInv, Inductive, TypeOK, DockerType
    <3> QED
      BY <2>1, <3>1, LockExcludes DEF RunsFor, InLock
  <2>3. CASE running[c] = {}
    BY <2>3, FS_EmptySet
  <2>4. ASSUME NEW r \in running[c]
        PROVE  Cardinality(running[c]) <= 1
    <3>1. running[c] = {r}
      BY <2>2, <2>4
    <3>2. Cardinality({r}) = 1
      BY FS_Singleton
    <3> QED
      BY <3>1, <3>2
  <2> QED
    BY <2>3, <2>4
<1> QED
  BY <1>1, <1>2, <1>3, InductiveInvariant, PTL DEF Spec


-----------------------------------------------------------------------------
(***************************************************************************)
(* What a response says about a removal                                    *)
(***************************************************************************)
\* What docker no longer has does not come back.
LEMMA GoneStays ==
  ASSUME Inductive, [Next]_vars, NEW c \in Cids, box[c].status = "gone"
  PROVE  box'[c].status = "gone"
<1>1. Inductive' /\ (Contract!Step \/ Contract!Crash)
  BY NextKeeps
<1>2. Contract!Moves(c)
  BY <1>1 DEF Contract!Step, Contract!Crash
<1>3. box[c] \in BoxType /\ box'[c] \in BoxType
  BY <1>1 DEF Inductive, TypeOK, DockerType
<1>4. Phase(c) = "gone" /\ (Phase(c)' = "gone" => box'[c].status = "gone")
  BY <1>3 DEF Phase, BoxType, BoxStates
<1> QED
  BY <1>2, <1>4 DEF Contract!Moves

Claims == {"deleted", "timed_out"}

\* Who has claimed a removal was about a container that is gone.
ClaimsInv ==
  faults = 0 => \A r \in Reqs : pc[r] \in Claims => /\ cid[r] \in Cids
                                                    /\ box[cid[r]].status = "gone"

\* A handler claims nothing but at the end of a removal.
LEMMA OwnStepClaims ==
  ASSUME Inductive, NEW r \in Reqs, OwnStep(r)
  PROVE  pc'[r] \notin Claims
BY Arrives DEF Claims

\* A removal nobody failed to confirm ends with the container gone.
LEMMA RemovalStepClaims ==
  ASSUME Inductive, NEW r \in Reqs, RemovalStep(r), pc'[r] \in Claims, faults' = 0
  PROVE  cid[r] \in Cids /\ box[cid[r]].status = "gone"
<1>0. HandlerType /\ TypeOK /\ r \in Actors /\ r # Reaper
  BY SetsAssumption DEF Inductive, TypeOK, Actors
<1>1. pc[r] \in RemovalSteps
  BY RemovalArrives
<1>2. cid[r] \in Cids /\ (~Exists(cid[r]) => box[cid[r]].status = "gone")
  BY <1>0, <1>1, PlaceOf DEF ContainerSteps
<1>3. ~Fault
  BY <1>0, FaultEnds
<1>4. ASSUME NEW p, Goto(r, p)
      PROVE  p \in Claims
  BY <1>0, <1>4, GotoOnly
<1>5. RmGet(r) \/ RmConfirm(r)
  BY <1>3, <1>4 DEF RemovalStep, RemovalNext, RmKill, RmRemove, RmUnconfirmed, RmRaises, Claims
<1>6. CASE RmGet(r)
  BY <1>2, <1>4, <1>6 DEF RmGet, Claims
<1>7. CASE RmConfirm(r)
  BY <1>0, <1>2, <1>7 DEF RmConfirm, Inductive, ConfirmInv
<1> QED
  BY <1>5, <1>6, <1>7

\* As long as docker calls succeed, a response that says the container was removed is
\* true, and stays true: crashes of the gateway, the other removals of the same
\* container and the cleanup task included.
THEOREM RemovalClaimsHold == Spec => [](faults = 0 => RemovalClaims)
<1>1. Init => ClaimsInv
  <2>1. ASSUME Init
        PROVE  \A r \in Reqs : pc[r] \notin Claims
    BY <2>1 DEF Init, Claims, Actors
  <2> QED
    BY <2>1 DEF ClaimsInv
<1>2. Inductive /\ ClaimsInv /\ [Next]_vars => ClaimsInv'
  <2>1. SUFFICES ASSUME Inductive, ClaimsInv, [Next]_vars, faults' = 0, NEW r \in Reqs,
                        pc'[r] \in Claims
                 PROVE  cid'[r] \in Cids /\ box'[cid'[r]].status = "gone"
    BY DEF ClaimsInv
  <2>2. HandlerType /\ TypeOK /\ r \in Actors /\ r # Reaper
    BY <2>1, SetsAssumption DEF Inductive, TypeOK, Actors
  <2>3. faults = 0
    <3>1. \A a \in Actors : ~RemovalStep(a) \/ faults = 0
      BY <2>1, <2>2, FaultEnds DEF RemovalStep, RemovalNext, RmGet, RmKill, RmRemove, RmConfirm,
         RmUnconfirmed, RmRaises, bounds
    <3>2. \A q \in Reqs : CreateNext(q) \/ AccessNext(q) \/ GuardTimeout(q) \/ WaitTimeout(q)
                            \/ BeginCreate(q) \/ BeginAccess(q) => faults = 0
      BY <2>1 DEF CreateNext, EnterGuard, DockerRun, FinishCreate, GuardTimeout, WaitTimeout,
         BeginCreate, BeginAccess, AccessNext, EnsureSession, LookUpContainer, RecoverSession,
         Inspect, bounds
    <3>3. \A q \in Reqs : ExecuteNext(q) => faults = 0
      BY <2>1 DEF ExecuteNext, AcquireSlot, AcquireLock, FetchContainer, AdmitExecution,
         Provision, StartExec, FinishExec, ExecCut, ExecTimeout, bounds
    <3>4. \A q \in Reqs : ~DockerRunFails(q) /\ ~EnvProvisionFails(q) /\ ~DockerError(q)
      BY <2>1, <2>2, FaultEnds DEF DockerRunFails, EnvProvisionFails, DockerError
    <3>5. CleanupStep => faults = 0
      BY <2>1, <2>2, FaultEnds DEF CleanupStep, ReaperScan, ReaperNext, ReaperList,
         ReaperRecover, bounds
    <3>6. (\E c \in Cids, q \in Reqs : CodeEnds(c, q)) \/ Restart \/ Tick \/ UNCHANGED vars
            => faults = 0
      BY <2>1 DEF CodeEnds, Restart, Tick, vars, bounds
    <3> QED
      BY <2>1, <3>1, <3>2, <3>3, <3>4, <3>5, <3>6, Steppers DEF OwnStep
  <2>4. ASSUME pc[r] \in Claims, cid'[r] = cid[r]
        PROVE  cid'[r] \in Cids /\ box'[cid'[r]].status = "gone"
    BY <2>1, <2>3, <2>4, GoneStays DEF ClaimsInv
  <2>5. ASSUME NEW a \in Actors, Only(a), a # r
        PROVE  cid'[r] \in Cids /\ box'[cid'[r]].status = "gone"
    BY <2>1, <2>2, <2>4, <2>5 DEF Only
  <2>6. ASSUME NEW q \in Reqs, OwnStep(q)
        PROVE  q # r /\ Only(q) /\ q \in Actors
    BY <2>1, <2>6, OwnStepOnly, OwnStepClaims DEF Actors
  <2>7. ASSUME NEW a \in Actors, RemovalStep(a)
        PROVE  cid'[r] \in Cids /\ box'[cid'[r]].status = "gone"
    <3>1. Only(a) /\ cid' = cid
      BY <2>1, <2>7, RemovalStepOnly
    <3> QED
      BY <2>1, <2>5, <2>7, <3>1, RemovalStepClaims, GoneStays
  <2>8. CASE CleanupStep
    BY <2>1, <2>2, <2>5, <2>8, CleanupStepOnly DEF Actors
  <2>9. CASE \E c \in Cids, q \in Reqs : CodeEnds(c, q)
    BY <2>1, <2>2, <2>4, <2>9 DEF CodeEnds, holdings, HandlerType, Claims
  <2>10. CASE Restart
    BY <2>1, <2>2, <2>4, <2>10 DEF Restart, Claims
  <2>11. CASE Tick \/ UNCHANGED vars
    BY <2>1, <2>4, <2>11 DEF Tick, vars, holdings
  <2> QED
    BY <2>1, <2>5, <2>6, <2>7, <2>8, <2>9, <2>10, <2>11, Steppers
<1>3. ClaimsInv => (faults = 0 => RemovalClaims)
  BY DEF ClaimsInv, RemovalClaims, Claims
<1> QED
  BY <1>1, <1>2, <1>3, InductiveInvariant, PTL DEF Spec


-----------------------------------------------------------------------------
(***************************************************************************)
(* Creations, and what is known of a container                             *)
(***************************************************************************)
\* A creation between docker run and the save of the session holds the guard, for
\* an id no client has, in the name of its principal.
CreatorInv ==
  \A r \in Reqs : pc[r] \in {"c_run", "c_ran"} =>
    /\ creating = r /\ cid[r] \in Cids
    /\ ~box[cid[r]].known /\ box[cid[r]].owner = Subject[r]

\* A request about a container has its id from somebody.
ClientSteps == AccessSteps \cup ExecSteps \cup {"g_get"}
ClientInv == \A r \in Reqs : pc[r] \in ClientSteps => box[cid[r]].known

\* Outside a creation, containers only stop and go, and their labels stay.
BoxWanes ==
  \A c \in Cids :
    /\ box'[c].known = box[c].known /\ box'[c].owner = box[c].owner
    /\ box'[c].created = box[c].created /\ box'[c].expires = box[c].expires
    /\ box'[c].born = box[c].born /\ (Exists(c)' => Exists(c))
    /\ box'[c].status = "up" => box[c].status = "up"

\* The steps of a creation that docker or the labels see.
CreationStep(r) == EnterGuard(r) \/ DockerRun(r) \/ DockerRunFails(r) \/ FinishCreate(r)

LEMMA WanesTo ==
  ASSUME DockerType, NEW c \in Cids, NEW st \in {"dead", "gone", box[c].status},
         st = "dead" => Exists(c), box' = [box EXCEPT ![c].status = st]
  PROVE  BoxWanes
<1>1. box \in [Cids -> BoxType]
  BY DEF DockerType
<1>2. /\ \A x \in Cids \ {c} : box'[x] = box[x]
      /\ box'[c] = [box[c] EXCEPT !.status = st]
  BY <1>1
<1>3. /\ box'[c].known = box[c].known /\ box'[c].owner = box[c].owner
      /\ box'[c].created = box[c].created /\ box'[c].expires = box[c].expires
      /\ box'[c].born = box[c].born /\ box'[c].status = st
  BY <1>1, <1>2 DEF BoxType
<1> QED
  BY <1>2, <1>3 DEF BoxWanes, Exists

LEMMA NextWanes ==
  ASSUME Inductive, [Next]_vars
  PROVE  BoxWanes \/ \E r \in Reqs : CreationStep(r)
<1>1. UNCHANGED box => BoxWanes
  BY DEF BoxWanes, Exists
<1>2. ASSUME NEW r \in Reqs, OwnStep(r)
      PROVE  UNCHANGED box \/ CreationStep(r)
  <2>1. CASE BeginCreate(r) \/ BeginAccess(r) \/ CreateNext(r) \/ GuardTimeout(r)
               \/ WaitTimeout(r) \/ DockerRunFails(r) \/ EnvProvisionFails(r) \/ DockerError(r)
    BY <2>1 DEF BeginCreate, BeginAccess, CreateNext, GuardTimeout, WaitTimeout,
       EnvProvisionFails, DockerError, CreationStep, docker
  <2>2. CASE AccessNext(r)
    BY <2>2 DEF AccessNext, EnsureSession, LookUpContainer, RecoverSession, Inspect, docker
  <2>3. CASE ExecuteNext(r)
    BY <2>3 DEF ExecuteNext, AcquireSlot, AcquireLock, FetchContainer, AdmitExecution,
       Provision, StartExec, FinishExec, ExecCut, ExecTimeout, docker
  <2> QED
    BY <1>2, <2>1, <2>2, <2>3 DEF OwnStep
<1>3. ASSUME NEW a \in Actors, RemovalStep(a)
      PROVE  BoxWanes
  <2>1. pc[a] \in ContainerSteps
    BY <1>3 DEF RemovalStep, RemovalNext, RmGet, RmKill, RmRemove, RmConfirm, RmUnconfirmed,
       RmRaises, ContainerSteps, RemovalSteps
  <2>2. cid[a] \in Cids /\ DockerType
    BY <2>1, PlaceOf DEF Inductive, TypeOK
  <2>3. CASE RmKill(a)
    <3>1. CASE UNCHANGED docker
      BY <1>1, <3>1 DEF docker
    <3>2. CASE box' = [box EXCEPT ![cid[a]].status = IF @ = "up" THEN "dead" ELSE @]
      <4> DEFINE st == IF box[cid[a]].status = "up" THEN "dead" ELSE box[cid[a]].status
      <4>1. box' = [box EXCEPT ![cid[a]].status = st]
        BY <2>2, <3>2
      <4>2. st \in {"dead", "gone", box[cid[a]].status} /\ (st = "dead" => Exists(cid[a]))
        BY DEF Exists
      <4> HIDE DEF st
      <4> QED
        BY <2>2, <4>1, <4>2, WanesTo
    <3> QED
      BY <2>3, <3>1, <3>2 DEF RmKill
  <2>4. box' = [box EXCEPT ![cid[a]].status = "gone"] => BoxWanes
    BY <2>2, WanesTo
  <2> QED
    BY <1>1, <1>3, <2>3, <2>4 DEF RemovalStep, RemovalNext, RmGet, RmRemove, RmConfirm,
       RmUnconfirmed, RmRaises, docker
<1>4. ASSUME CleanupStep \/ (\E c \in Cids, r \in Reqs : CodeEnds(c, r)) \/ Tick
               \/ UNCHANGED vars
      PROVE  UNCHANGED box
  BY <1>4 DEF CleanupStep, ReaperScan, ReaperNext, ReaperList, ReaperRecover, CodeEnds, Tick,
     vars, docker
<1>5. CASE Restart
  <2> SUFFICES ASSUME NEW c \in Cids
               PROVE  /\ box'[c].known = box[c].known /\ box'[c].owner = box[c].owner
                      /\ box'[c].created = box[c].created /\ box'[c].expires = box[c].expires
                      /\ box'[c].born = box[c].born /\ (Exists(c)' => Exists(c))
                      /\ box'[c].status = "up" => box[c].status = "up"
    BY DEF BoxWanes
  <2>1. box[c] \in BoxType
    BY DEF Inductive, TypeOK, DockerType
  <2>2. box'[c] = [box[c] EXCEPT !.status = IF @ = "starting" THEN "gone" ELSE @]
    BY <1>5 DEF Restart
  <2> QED
    BY <2>1, <2>2 DEF BoxType, Exists
<1> QED
  BY <1>1, <1>2, <1>3, <1>4, <1>5, Steppers

\* What a creation does to docker and the labels: it turns an unused id into a
\* container that starts; the container it started comes up, or does not; the
\* client gets its id.
LEMMA CreationBox ==
  ASSUME Inductive, NEW r \in Reqs, CreationStep(r), box' # box
  PROVE  \E c \in Cids :
           /\ cid'[r] = c
           /\ \A x \in Cids \ {c} : box'[x] = box[x]
           /\ \/ /\ EnterGuard(r) /\ ~LimitReached(r) /\ creating' = r
                 /\ box[c].status = "unused" /\ box'[c].status = "starting"
                 /\ box'[c].known = box[c].known /\ box'[c].owner = Subject[r]
                 /\ box'[c].created = now
              \/ /\ DockerRun(r) \/ DockerRunFails(r)
                 /\ cid[r] = c /\ box[c].status = "starting"
                 /\ box'[c].known = box[c].known /\ box'[c].owner = box[c].owner
                 /\ box'[c].created = box[c].created /\ box'[c].born = now
              \/ /\ FinishCreate(r)
                 /\ cid[r] = c /\ box'[c].known /\ box'[c].status = box[c].status
                 /\ box'[c].owner = box[c].owner /\ box'[c].created = box[c].created
                 /\ box'[c].expires = box[c].expires /\ box'[c].born = box[c].born
<1>0. HandlerType /\ r \in Actors /\ box \in [Cids -> BoxType]
  BY DEF Inductive, TypeOK, DockerType, Actors
<1>1. CASE EnterGuard(r)
  <2>1. PICK c \in Cids :
          /\ box[c].status = "unused"
          /\ box' = [box EXCEPT ![c] = [@ EXCEPT !.status = "starting",
                       !.owner = Subject[r], !.created = now, !.expires = now + Lifetime]]
          /\ cid' = [cid EXCEPT ![r] = c]
          /\ creating' = r /\ ~LimitReached(r)
    BY <1>1 DEF EnterGuard
  <2>2. /\ box'[c] = [box[c] EXCEPT !.status = "starting", !.owner = Subject[r],
                        !.created = now, !.expires = now + Lifetime]
        /\ \A x \in Cids \ {c} : box'[x] = box[x]
        /\ box[c] \in BoxType /\ cid'[r] = c
    BY <1>0, <2>1 DEF HandlerType
  <2>3. /\ box'[c].status = "starting" /\ box'[c].known = box[c].known
        /\ box'[c].owner = Subject[r] /\ box'[c].created = now
    BY <2>2 DEF BoxType
  <2> QED
    BY <1>1, <2>1, <2>2, <2>3
<1>2. CASE DockerRun(r) \/ DockerRunFails(r)
  <2>1. PICK s \in {"up", "gone", "dead"} :
          box' = [box EXCEPT ![cid[r]] = [@ EXCEPT !.status = s, !.born = now]]
    BY <1>2 DEF DockerRun, DockerRunFails
  <2>2. cid[r] \in Cids /\ box[cid[r]].status = "starting" /\ cid' = cid
    BY <1>0, <1>2, GotoOnly, LeaveOnly DEF DockerRun, DockerRunFails, Inductive, PlacesInv
  <2>3. /\ box'[cid[r]] = [box[cid[r]] EXCEPT !.status = s, !.born = now]
        /\ \A x \in Cids \ {cid[r]} : box'[x] = box[x]
        /\ box[cid[r]] \in BoxType
    BY <1>0, <2>1, <2>2
  <2>4. /\ box'[cid[r]].known = box[cid[r]].known /\ box'[cid[r]].owner = box[cid[r]].owner
        /\ box'[cid[r]].created = box[cid[r]].created /\ box'[cid[r]].born = now
    BY <2>3 DEF BoxType
  <2> QED
    BY <1>2, <2>2, <2>3, <2>4
<1>3. CASE FinishCreate(r)
  <2>1. /\ box' = [box EXCEPT ![cid[r]].known = TRUE] /\ cid' = cid /\ cid[r] \in Cids
    BY <1>0, <1>3, LeaveOnly DEF FinishCreate, Inductive, PlacesInv, ContainerSteps
  <2>2. /\ box'[cid[r]] = [box[cid[r]] EXCEPT !.known = TRUE]
        /\ \A x \in Cids \ {cid[r]} : box'[x] = box[x]
        /\ box[cid[r]] \in BoxType
    BY <1>0, <2>1
  <2>3. /\ box'[cid[r]].known /\ box'[cid[r]].status = box[cid[r]].status
        /\ box'[cid[r]].owner = box[cid[r]].owner
        /\ box'[cid[r]].created = box[cid[r]].created
        /\ box'[cid[r]].expires = box[cid[r]].expires /\ box'[cid[r]].born = box[cid[r]].born
    BY <2>2 DEF BoxType
  <2> QED
    BY <1>3, <2>1, <2>2, <2>3
<1> QED
  BY <1>1, <1>2, <1>3 DEF CreationStep


\* The ids clients have stay theirs.
LEMMA KnownStays ==
  ASSUME Inductive, [Next]_vars, NEW c \in Cids, box[c].known
  PROVE  box'[c].known
<1>1. ASSUME NEW r \in Reqs, CreationStep(r), box' # box
      PROVE  box'[c].known
  BY <1>1, CreationBox
<1> QED
  BY <1>1, NextWanes DEF BoxWanes

\* The guard lets nobody else create.
LEMMA OneCreates ==
  ASSUME Inductive, CreatorInv, NEW r \in Reqs, pc[r] \in {"c_run", "c_ran"},
         NEW q \in Reqs, CreationStep(q), box' # box
  PROVE  q = r
<1>1. creating = r /\ r # None
  BY SetsAssumption DEF CreatorInv
<1>2. CASE EnterGuard(q)
  BY <1>1, <1>2 DEF EnterGuard, GuardFree
<1>3. CASE DockerRun(q) \/ DockerRunFails(q) \/ FinishCreate(q)
  BY <1>1, <1>3 DEF DockerRun, DockerRunFails, FinishCreate, CreatorInv
<1> QED
  BY <1>2, <1>3 DEF CreationStep

\* A handler at work is where another's step found it.
LEMMA NotMoved ==
  ASSUME Inductive, [Next]_vars, NEW r \in Reqs, ~OwnStep(r), ~RemovalStep(r),
         pc'[r] \notin {"x_out", "idle"} \cup Outcomes
  PROVE  /\ pc'[r] = pc[r] /\ cid'[r] = cid[r]
         /\ creating = r => creating' = r
<1>0. HandlerType /\ TypeOK /\ r \in Actors /\ r # Reaper
  BY SetsAssumption DEF Inductive, TypeOK, Actors
<1>1. ASSUME NEW a \in Actors, a # r, Only(a)
      PROVE  /\ pc'[r] = pc[r] /\ cid'[r] = cid[r]
             /\ creating = r => creating' = r
  BY <1>0, <1>1 DEF Only
<1>2. ASSUME NEW q \in Reqs, OwnStep(q)
      PROVE  /\ pc'[r] = pc[r] /\ cid'[r] = cid[r]
             /\ creating = r => creating' = r
  BY <1>1, <1>2, OwnStepOnly DEF Actors
<1>3. ASSUME NEW a \in Actors, RemovalStep(a)
      PROVE  /\ pc'[r] = pc[r] /\ cid'[r] = cid[r]
             /\ creating = r => creating' = r
  BY <1>1, <1>3, RemovalStepOnly
<1>4. CASE CleanupStep
  BY <1>0, <1>1, <1>4, CleanupStepOnly DEF Actors
<1>5. CASE \E c \in Cids, q \in Reqs : CodeEnds(c, q)
  <2>1. PICK q \in Reqs : /\ pc' = [pc EXCEPT ![q] = IF @ = "x_run" THEN "x_out" ELSE @]
                          /\ cid' = cid /\ creating' = creating
    BY <1>5 DEF CodeEnds, holdings
  <2>2. pc'[r] = pc[r]
    BY <1>0, <2>1 DEF HandlerType
  <2> QED
    BY <2>1, <2>2
<1>6. CASE Restart
  BY <1>0, <1>6 DEF Restart, Outcomes
<1>7. CASE Tick \/ UNCHANGED vars
  BY <1>7 DEF Tick, vars, holdings
<1> QED
  BY <1>2, <1>3, <1>4, <1>5, <1>6, <1>7, Steppers

\* Only a handler's own steps change what it holds.
LEMMA ObjStays ==
  ASSUME Inductive, [Next]_vars, ~Restart, NEW r \in Reqs, ~OwnStep(r), ~RemovalStep(r)
  PROVE  obj'[r] = obj[r]
<1>1. ASSUME NEW a \in Actors, a # r, Only(a)
      PROVE  obj'[r] = obj[r]
  BY <1>1 DEF Only
<1>2. \A q \in Reqs : OwnStep(q) => obj'[r] = obj[r]
  BY <1>1, OwnStepOnly DEF Actors
<1>3. \A a \in Actors : RemovalStep(a) => obj'[r] = obj[r]
  BY <1>1, RemovalStepOnly
<1>4. CleanupStep => obj'[r] = obj[r]
  BY <1>1, CleanupStepOnly, SetsAssumption DEF Actors
<1>5. (\E c \in Cids, q \in Reqs : CodeEnds(c, q)) \/ Tick \/ UNCHANGED vars => obj' = obj
  BY DEF CodeEnds, Tick, vars, holdings
<1> QED
  BY <1>2, <1>3, <1>4, <1>5, Steppers

LEMMA CreatorKept ==
  ASSUME Inductive, CreatorInv, [Next]_vars
  PROVE  CreatorInv'
<1> SUFFICES ASSUME NEW r \in Reqs, pc'[r] \in {"c_run", "c_ran"}
             PROVE  /\ creating' = r /\ cid'[r] \in Cids
                    /\ ~box'[cid'[r]].known /\ box'[cid'[r]].owner = Subject[r]
  BY DEF CreatorInv
<1>0. HandlerType /\ r \in Actors
  BY DEF Inductive, TypeOK, Actors
<1>1. ~RemovalStep(r)
  BY RemovalArrives DEF RemovalSteps, Outcomes
<1>2. CASE OwnStep(r)
  <2>1. CASE EnterGuard(r)
    <3>1. creating' = r /\ box' # box
      <4>1. ~Leave(r, "done")
        BY <1>0, LeaveOnly
      <4>2. PICK c \in Cids :
              /\ box[c].status = "unused"
              /\ box' = [box EXCEPT ![c] = [@ EXCEPT !.status = "starting",
                           !.owner = Subject[r], !.created = now, !.expires = now + Lifetime]]
              /\ creating' = r
        BY <2>1, <4>1 DEF EnterGuard
      <4>3. box[c] \in BoxType /\ box \in [Cids -> BoxType]
        BY DEF Inductive, TypeOK, DockerType
      <4>4. box'[c].status = "starting"
        BY <4>2, <4>3 DEF BoxType
      <4> QED
        BY <4>2, <4>4
    <3>2. PICK c \in Cids : /\ cid'[r] = c /\ box[c].status = "unused"
                            /\ box'[c].known = box[c].known /\ box'[c].owner = Subject[r]
      BY <2>1, <3>1, CreationBox DEF CreationStep, EnterGuard, DockerRun, DockerRunFails,
         FinishCreate
    <3>3. ~box[c].known
      BY <3>2 DEF Inductive, PlacesInv, Real
    <3>4. box'[c].known = FALSE \/ ~box'[c].known
      BY <3>2, <3>3
    <3> QED
      BY <3>1, <3>2, <3>3
  <2>2. CASE DockerRun(r)
    <3>1. /\ pc[r] = "c_run" /\ cid' = cid /\ creating' = creating
      BY <1>0, <2>2, GotoOnly DEF DockerRun
    <3>2. creating = r /\ cid[r] \in Cids /\ ~box[cid[r]].known /\ box[cid[r]].owner = Subject[r]
      BY <3>1 DEF CreatorInv
    <3>3. /\ box'[cid[r]].known = box[cid[r]].known
          /\ box'[cid[r]].owner = box[cid[r]].owner
      <4>1. CreationStep(r) /\ ~EnterGuard(r) /\ ~FinishCreate(r)
        BY <2>2, <3>1 DEF CreationStep, EnterGuard, FinishCreate
      <4> QED
        BY <3>1, <4>1, CreationBox
    <3> QED
      BY <3>1, <3>2, <3>3
  <2> QED
    BY <1>2, <2>1, <2>2, Arrives
<1>3. CASE ~OwnStep(r)
  <2>1. pc'[r] = pc[r] /\ cid'[r] = cid[r] /\ (creating = r => creating' = r)
    BY <1>1, <1>3, NotMoved DEF Outcomes
  <2>2. creating = r /\ cid[r] \in Cids /\ ~box[cid[r]].known /\ box[cid[r]].owner = Subject[r]
    BY <2>1 DEF CreatorInv
  <2>3. /\ box'[cid[r]].known = box[cid[r]].known
        /\ box'[cid[r]].owner = box[cid[r]].owner
    <3>1. CASE BoxWanes
      BY <2>2, <3>1 DEF BoxWanes
    <3>2. ASSUME NEW q \in Reqs, CreationStep(q), box' # box
          PROVE  FALSE
      <4>1. q = r
        BY <2>1, <3>2, OneCreates
      <4> QED
        BY <1>3, <3>2, <4>1 DEF CreationStep, OwnStep, CreateNext
    <3> QED
      BY <3>1, <3>2, NextWanes
  <2> QED
    BY <2>1, <2>2, <2>3
<1> QED
  BY <1>2, <1>3

LEMMA ClientKept ==
  ASSUME Inductive, ClientInv, [Next]_vars
  PROVE  ClientInv'
<1> SUFFICES ASSUME NEW r \in Reqs, pc'[r] \in ClientSteps
             PROVE  box'[cid'[r]].known
  BY DEF ClientInv
<1>0. HandlerType /\ r \in Actors
  BY DEF Inductive, TypeOK, Actors
<1>1. ASSUME pc[r] \in ClientSteps, cid'[r] = cid[r]
      PROVE  box'[cid'[r]].known
  <2>1. cid[r] \in Cids
    BY <1>0, <1>1 DEF Inductive, PlacesInv, ClientSteps, ContainerSteps
  <2> QED
    BY <1>1, <2>1, KnownStays DEF ClientInv
<1>2. ~RemovalStep(r)
  BY RemovalArrives DEF RemovalSteps, Outcomes, ClientSteps, AccessSteps, ExecSteps
<1>3. CASE OwnStep(r)
  <2> USE DEF ClientSteps, AccessSteps, ExecSteps
  <2>1. CASE BeginAccess(r)
    <3>1. PICK c \in Cids : box[c].known /\ cid' = [cid EXCEPT ![r] = c]
      BY <2>1 DEF BeginAccess
    <3>2. cid'[r] = c
      BY <1>0, <3>1 DEF HandlerType
    <3> QED
      BY <3>1, <3>2, KnownStays
  <2>2. CASE EnsureSession(r) \/ LookUpContainer(r) \/ RecoverSession(r)
    <3>1. CheckSession(r) => cid' = cid
      BY <1>0, LeaveOnly, GotoOnly DEF CheckSession
    <3>2. pc[r] \in ClientSteps /\ cid' = cid
      BY <1>0, <2>2, <3>1, LeaveOnly, GotoOnly DEF EnsureSession, LookUpContainer, RecoverSession
    <3> QED
      BY <1>1, <3>2
  <2>3. CASE AcquireSlot(r) \/ AcquireLock(r) \/ FetchContainer(r) \/ AdmitExecution(r)
               \/ Provision(r) \/ StartExec(r)
    <3>1. pc[r] \in ClientSteps /\ cid' = cid
      BY <1>0, <2>3, LeaveOnly, GotoOnly DEF AcquireSlot, AcquireLock, FetchContainer,
         AdmitExecution, Provision, StartExec
    <3> QED
      BY <1>1, <3>1
  <2> QED
    BY <1>3, <2>1, <2>2, <2>3, Arrives
<1>4. CASE ~OwnStep(r) /\ pc'[r] # "x_out"
  BY <1>1, <1>2, <1>4, NotMoved DEF ClientSteps, AccessSteps, ExecSteps, Outcomes
<1>5. CASE ~OwnStep(r) /\ pc'[r] = "x_out"
  <2>1. CASE \E c \in Cids, q \in Reqs : CodeEnds(c, q)
    <3>1. PICK q \in Reqs : /\ pc' = [pc EXCEPT ![q] = IF @ = "x_run" THEN "x_out" ELSE @]
                            /\ cid' = cid
      BY <2>1 DEF CodeEnds, holdings
    <3>2. pc[r] \in {"x_out", "x_run"}
      BY <1>0, <1>5, <3>1 DEF HandlerType
    <3> QED
      BY <1>1, <3>1, <3>2 DEF ClientSteps, ExecSteps
  <2>2. ASSUME NEW a \in Actors, Only(a), a # r
        PROVE  box'[cid'[r]].known
    BY <1>0, <1>1, <1>5, <2>2 DEF Only, ClientSteps, ExecSteps
  <2>3. ASSUME NEW q \in Reqs, OwnStep(q)
        PROVE  box'[cid'[r]].known
    BY <1>5, <2>2, <2>3, OwnStepOnly DEF Actors
  <2>4. ASSUME NEW a \in Actors, RemovalStep(a)
        PROVE  box'[cid'[r]].known
    BY <1>2, <2>2, <2>4, RemovalStepOnly
  <2>5. CASE CleanupStep
    BY <1>0, <2>2, <2>5, CleanupStepOnly, SetsAssumption DEF Actors
  <2>6. ~Restart
    BY <1>0, <1>5, SetsAssumption DEF Restart, Outcomes
  <2>7. CASE Tick \/ UNCHANGED vars
    BY <1>1, <1>5, <2>7 DEF Tick, vars, holdings, ClientSteps, ExecSteps
  <2> QED
    BY <2>1, <2>3, <2>4, <2>5, <2>6, <2>7, Steppers
<1> QED
  BY <1>3, <1>4, <1>5


-----------------------------------------------------------------------------
(***************************************************************************)
(* The quota of young sessions                                             *)
(***************************************************************************)
\* As long as docker has a container, it was born after its creation began, and its
\* record says that it was active after that.
TimesInv ==
  \A c \in Cids :
    /\ box[c].created <= now
    /\ Exists(c) => box[c].created <= box[c].born
    /\ Exists(c) /\ sessions[c] # NoObj => box[c].created <= Info(c).last

\* A container that is up, and whose id a client has, is tracked, restarts included.
UpTracked == \A c \in Cids : box[c].known /\ box[c].status = "up" => sessions[c] # NoObj

YoungOf(p) == {c \in Young : box[c].owner = p}

\* The creation in the guard still has room.
RoomInv ==
  \A r \in Reqs : pc[r] \in {"c_run", "c_ran"} =>
    Cardinality(Young) < MaxActive /\ Cardinality(YoungOf(Subject[r])) < MaxPerPrincipal

QuotaInv == TimesInv /\ UpTracked /\ YoungQuota /\ RoomInv

\* A record is the one that was there, or says the time it was made or used.
Fresh(c) ==
  sessions'[c] # NoObj =>
    \/ sessions'[c] = sessions[c] /\ heap'[c][sessions'[c]].last = heap[c][sessions[c]].last
    \/ heap'[c][sessions'[c]].last \in {now, box[c].born, box[c].created}

\* Saving one session, or deleting one, leaves the records of the others alone.
LEMMA SaveEffect ==
  ASSUME StoreType, NEW c \in Cids, NEW k \in ObjIds, NEW s, SaveSession(c, k, s)
  PROVE  /\ sessions'[c] = k /\ heap'[c][k] = s
         /\ \A j \in ObjIds \ {k} : heap'[c][j] = heap[c][j]
         /\ \A x \in Cids \ {c} : sessions'[x] = sessions[x] /\ heap'[x] = heap[x]
BY DEF StoreType, SaveSession

LEMMA DeleteEffect ==
  ASSUME StoreType, NEW c \in Cids, DeleteSession(c)
  PROVE  /\ sessions'[c] = NoObj /\ heap' = heap
         /\ \A x \in Cids \ {c} : sessions'[x] = sessions[x]
BY DEF StoreType, DeleteSession

\* What the cleanup task recovers is new, and nobody's but the containers'.
LEMMA RecoverEffect ==
  ASSUME Inductive, ReaperRecover, NEW c \in Cids
  PROVE  \/ sessions'[c] = sessions[c] /\ heap'[c] = heap[c]
         \/ \E k \in ObjIds :
              /\ c \in listed /\ sessions[c] = NoObj /\ NewObj(c, k)
              /\ sessions'[c] = k /\ heap'[c] = [heap[c] EXCEPT ![k] = Recovered(c)]
<1> DEFINE lost == (listed \ snap) \ Tracked
<1>1. PICK k \in [Cids -> ObjIds] :
         /\ \A x \in Cids : NewObj(x, k[x])
         /\ sessions' = [x \in Cids |-> IF x \in lost THEN k[x] ELSE sessions[x]]
         /\ heap' = [x \in Cids |-> IF x \in lost
                                    THEN [heap[x] EXCEPT ![k[x]] = Recovered(x)]
                                    ELSE heap[x]]
  BY DEF ReaperRecover
<1>2. CASE c \in lost
  <2>1. sessions'[c] = k[c] /\ heap'[c] = [heap[c] EXCEPT ![k[c]] = Recovered(c)]
    BY <1>1, <1>2
  <2>2. c \in listed /\ sessions[c] = NoObj
    BY <1>2 DEF Tracked
  <2> QED
    BY <1>1, <2>1, <2>2
<1>3. CASE c \notin lost
  <2>1. sessions'[c] = sessions[c] /\ heap'[c] = heap[c]
    BY <1>1, <1>3
  <2> QED
    BY <2>1
<1> QED
  BY <1>2, <1>3

LEMMA NextFresh ==
  ASSUME Inductive, [Next]_vars, NEW c \in Cids
  PROVE  Fresh(c)
<1>0. /\ StoreType /\ HandlerType /\ NoObj \notin ObjIds
      /\ \A r \in Reqs : r \in Actors /\ (pc[r] \in ContainerSteps => cid[r] \in Cids)
  BY NumbersAssumption DEF Inductive, TypeOK, PlacesInv, Actors, NoObj
<1>1. ASSUME UNCHANGED store \/ (sessions' = sessions /\ heap' = heap)
      PROVE  Fresh(c)
  BY <1>1 DEF Fresh, store
<1>2. ASSUME NEW d \in Cids, DeleteSession(d)
      PROVE  Fresh(c)
  BY <1>0, <1>2, DeleteEffect DEF Fresh
<1>3. ASSUME NEW d \in Cids, NEW k \in ObjIds, NEW s, SaveSession(d, k, s),
             s.last \in {now, box[d].born, box[d].created}
      PROVE  Fresh(c)
  BY <1>0, <1>3, SaveEffect DEF Fresh
<1>4. ASSUME NEW r \in Reqs, OwnStep(r)
      PROVE  Fresh(c)
  <2> USE DEF ContainerSteps, AccessSteps, ExecSteps
  <2>1. CASE BeginCreate(r) \/ BeginAccess(r) \/ EnterGuard(r) \/ DockerRun(r)
               \/ GuardTimeout(r) \/ WaitTimeout(r) \/ DockerRunFails(r)
               \/ EnvProvisionFails(r) \/ DockerError(r) \/ EnsureSession(r)
               \/ LookUpContainer(r)
    BY <1>1, <2>1 DEF BeginCreate, BeginAccess, EnterGuard, DockerRun, GuardTimeout,
       WaitTimeout, DockerRunFails, EnvProvisionFails, DockerError, EnsureSession,
       LookUpContainer
  <2>2. CASE FinishCreate(r)
    BY <1>0, <1>3, <2>2 DEF FinishCreate
  <2>3. CASE RecoverSession(r)
    BY <1>0, <1>3, <2>3 DEF RecoverSession, Recovered
  <2>4. CASE Inspect(r) \/ FetchContainer(r)
    BY <1>0, <1>1, <1>2, <2>4 DEF Inspect, FetchContainer
  <2>5. CASE AcquireSlot(r) \/ AcquireLock(r) \/ Provision(r) \/ StartExec(r) \/ ExecCut(r)
               \/ ExecTimeout(r)
    BY <1>1, <2>5 DEF AcquireSlot, AcquireLock, Provision, StartExec, ExecCut, ExecTimeout
  <2>6. CASE AdmitExecution(r)
    <3>1. cid[r] \in Cids /\ obj[r] \in ObjIds
      BY <1>0, <2>6 DEF AdmitExecution, Inductive, PlacesInv
    <3> QED
      BY <1>1, <1>3, <2>6, <3>1 DEF AdmitExecution
  <2>7. CASE FinishExec(r)
    <3>1. CASE UNCHANGED heap
      BY <1>1, <2>7, <3>1 DEF FinishExec
    <3>2. CASE cid[r] \in Tracked /\ heap' = [heap EXCEPT ![cid[r]][sessions[cid[r]]].last = now]
      <4>1. sessions' = sessions /\ cid[r] \in Cids /\ sessions[cid[r]] \in ObjIds
        BY <1>0, <2>7, <3>2 DEF FinishExec, Tracked, StoreType
      <4>2. CASE c # cid[r]
        BY <1>0, <3>2, <4>1, <4>2 DEF Fresh, StoreType
      <4>3. CASE c = cid[r]
        <5>1. heap[c][sessions[c]] \in [count : Nat, last : Nat]
          BY <1>0, <4>1, <4>3 DEF StoreType
        <5>2. heap'[c][sessions[c]] = [heap[c][sessions[c]] EXCEPT !.last = now]
          BY <1>0, <3>2, <4>1, <4>3 DEF StoreType
        <5> QED
          BY <4>1, <5>1, <5>2 DEF Fresh
      <4> QED
        BY <4>2, <4>3
    <3> QED
      BY <2>7, <3>1, <3>2 DEF FinishExec
  <2> QED
    BY <1>4, <2>1, <2>2, <2>3, <2>4, <2>5, <2>6, <2>7 DEF OwnStep, CreateNext, AccessNext,
       ExecuteNext
<1>5. ASSUME NEW a \in Actors, RemovalStep(a)
      PROVE  Fresh(c)
  <2>1. pc[a] \in RemovalSteps \/ UNCHANGED store
    BY <1>5 DEF RemovalStep, RemovalNext, RmGet, RmKill, RmRemove, RmConfirm, RmUnconfirmed,
       RmRaises, RemovalSteps
  <2>2. pc[a] \in RemovalSteps => cid[a] \in Cids
    BY DEF Inductive, PlacesInv, ContainerSteps
  <2> QED
    BY <1>1, <1>2, <1>5, <2>1, <2>2 DEF RemovalStep, RemovalNext, RmGet, RmKill, RmRemove,
       RmConfirm, RmUnconfirmed, RmRaises
<1>6. CASE CleanupStep
  <2>1. CASE ReaperRecover
    <3>1. CASE sessions'[c] = sessions[c] /\ heap'[c] = heap[c]
      BY <3>1 DEF Fresh
    <3>2. ASSUME NEW k \in ObjIds, sessions'[c] = k,
                 heap'[c] = [heap[c] EXCEPT ![k] = Recovered(c)]
          PROVE  Fresh(c)
      <4>1. heap'[c][k].last = box[c].born
        BY <1>0, <3>2 DEF StoreType, Recovered
      <4> QED
        BY <3>2, <4>1 DEF Fresh
    <3> QED
      BY <2>1, <3>1, <3>2, RecoverEffect
  <2> QED
    BY <1>1, <1>6, <2>1 DEF CleanupStep, ReaperScan, ReaperNext, ReaperList
<1>7. CASE Restart
  <2>1. PICK k \in ObjIds :
          /\ \E recovers \in BOOLEAN :
               sessions' = [x \in Cids |-> IF recovers /\ box'[x].status = "up" THEN k ELSE NoObj]
          /\ heap' = [x \in Cids |-> [j \in ObjIds |->
                        IF sessions'[x] = j THEN [count |-> 0, last |-> box'[x].born]
                                            ELSE EmptySession]]
    BY <1>7, NumbersAssumption DEF Restart, Startup
  <2>2. sessions'[c] \in {k, NoObj}
    BY <2>1
  <2>3. sessions'[c] = k => heap'[c][k].last = box'[c].born
    BY <2>1
  <2>4. box'[c].born = box[c].born
    BY <1>7 DEF Restart, Inductive, TypeOK, DockerType, BoxType
  <2> QED
    BY <1>0, <2>2, <2>3, <2>4 DEF Fresh
<1>8. CASE (\E d \in Cids, r \in Reqs : CodeEnds(d, r)) \/ Tick \/ UNCHANGED vars
  BY <1>1, <1>8 DEF CodeEnds, Tick, vars
<1> QED
  BY <1>4, <1>5, <1>6, <1>7, <1>8, Steppers


\* Restarts are counted.
LEMMA RestartsCount ==
  ASSUME Inductive, [Next]_vars
  PROVE  restarts \in Nat /\ restarts' = IF Restart THEN restarts + 1 ELSE restarts
<1>1. \A r \in Reqs : OwnStep(r) => restarts' = restarts
  BY DEF OwnStep, BeginCreate, BeginAccess, CreateNext, EnterGuard, DockerRun, FinishCreate,
     AccessNext, EnsureSession, LookUpContainer, RecoverSession, Inspect, ExecuteNext,
     AcquireSlot, AcquireLock, FetchContainer, AdmitExecution, Provision, StartExec,
     FinishExec, ExecCut, ExecTimeout, GuardTimeout, WaitTimeout, DockerRunFails,
     EnvProvisionFails, DockerError, Fault, bounds
<1>2. \A a \in Actors : RemovalStep(a) => restarts' = restarts
  BY DEF RemovalStep, RemovalNext, RmGet, RmKill, RmRemove, RmConfirm, RmUnconfirmed,
     RmRaises, Fault, bounds
<1>3. CleanupStep \/ (\E d \in Cids, r \in Reqs : CodeEnds(d, r)) \/ Tick \/ UNCHANGED vars
        => restarts' = restarts
  BY DEF CleanupStep, ReaperScan, ReaperNext, ReaperList, ReaperRecover, CodeEnds, Tick, vars,
     Fault, bounds
<1>4. Restart => restarts' = restarts + 1
  BY DEF Restart
<1> QED
  BY <1>1, <1>2, <1>3, <1>4, Steppers DEF Inductive, TypeOK, CounterType

\* Only a restart forgets the session of a container docker has.
LEMMA TrackedStays ==
  ASSUME Inductive, [Next]_vars, ~Restart, NEW c \in Cids, sessions[c] # NoObj, Exists(c)
  PROVE  sessions'[c] # NoObj
<1>1. restarts' = restarts /\ restarts \in Nat
  BY RestartsCount
<1>2. Contract!Step
  BY <1>1, NextKeeps DEF Contract!Crash
<1>3. Phase(c) = "present" /\ c \in Tracked
  BY DEF Phase, Exists, Tracked
<1>4. c \in Tracked'
  BY <1>2, <1>3 DEF Contract!Step, Contract!Remembers
<1> QED
  BY <1>4 DEF Tracked

LEMMA TimePasses ==
  ASSUME Inductive, [Next]_vars
  PROVE  now \in Nat /\ now' \in Nat /\ now <= now'
<1>1. \A r \in Reqs : OwnStep(r) => now' = now
  BY DEF OwnStep, BeginCreate, BeginAccess, CreateNext, EnterGuard, DockerRun, FinishCreate,
     AccessNext, EnsureSession, LookUpContainer, RecoverSession, Inspect, ExecuteNext,
     AcquireSlot, AcquireLock, FetchContainer, AdmitExecution, Provision, StartExec,
     FinishExec, ExecCut, ExecTimeout, GuardTimeout, WaitTimeout, DockerRunFails,
     EnvProvisionFails, DockerError
<1>2. \A a \in Actors : RemovalStep(a) => now' = now
  BY DEF RemovalStep, RemovalNext, RmGet, RmKill, RmRemove, RmConfirm, RmUnconfirmed, RmRaises
<1>3. CleanupStep \/ (\E d \in Cids, r \in Reqs : CodeEnds(d, r)) \/ Restart
         \/ UNCHANGED vars => now' = now
  BY DEF CleanupStep, ReaperScan, ReaperNext, ReaperList, ReaperRecover, CodeEnds, Restart, vars
<1>4. now' = now \/ now' = now + 1
  BY <1>1, <1>2, <1>3, Steppers DEF Tick
<1> QED
  BY <1>4 DEF Inductive, TypeOK, CounterType

LEMMA TimesKept ==
  ASSUME Inductive, TimesInv, [Next]_vars
  PROVE  TimesInv'
<1> SUFFICES ASSUME NEW c \in Cids
             PROVE  /\ box'[c].created <= now'
                    /\ Exists(c)' => box'[c].created <= box'[c].born
                    /\ Exists(c)' /\ sessions'[c] # NoObj
                         => box'[c].created <= heap'[c][sessions'[c]].last
  BY DEF TimesInv, Info
<1>0. /\ now \in Nat /\ now' \in Nat /\ now <= now'
      /\ box[c] \in BoxType /\ box'[c] \in BoxType
      /\ sessions[c] # NoObj => heap[c][sessions[c]].last \in Nat
  <2>1. Inductive' /\ now \in Nat /\ now' \in Nat /\ now <= now'
    BY NextKeeps, TimePasses
  <2> QED
    BY <2>1, NumbersAssumption DEF Inductive, TypeOK, DockerType, StoreType
<1>1. /\ box[c].created \in Nat /\ box[c].born \in Nat
      /\ box'[c].created \in Nat /\ box'[c].born \in Nat
  BY <1>0 DEF BoxType
<1>2. /\ box[c].created <= now
      /\ Exists(c) => box[c].created <= box[c].born
      /\ Exists(c) /\ sessions[c] # NoObj => box[c].created <= heap[c][sessions[c]].last
  BY DEF TimesInv, Info
<1>3. Fresh(c)
  BY NextFresh
<1>4. ASSUME box'[c].created = box[c].created, box'[c].born = box[c].born, Exists(c)' => Exists(c)
      PROVE  /\ box'[c].created <= now'
             /\ Exists(c)' => box'[c].created <= box'[c].born
             /\ Exists(c)' /\ sessions'[c] # NoObj
                  => box'[c].created <= heap'[c][sessions'[c]].last
  <2>1. box'[c].created <= now'
    BY <1>0, <1>1, <1>2, <1>4
  <2>2. Exists(c)' => box'[c].created <= box'[c].born
    BY <1>2, <1>4
  <2>3. ASSUME Exists(c)', sessions'[c] # NoObj
        PROVE  box'[c].created <= heap'[c][sessions'[c]].last
    <3>1. CASE sessions'[c] = sessions[c]
                 /\ heap'[c][sessions'[c]].last = heap[c][sessions[c]].last
      BY <1>2, <1>4, <2>3, <3>1
    <3>2. CASE heap'[c][sessions'[c]].last \in {now, box[c].born, box[c].created}
      BY <1>1, <1>2, <1>4, <2>3, <3>2
    <3> QED
      BY <1>3, <2>3, <3>1, <3>2 DEF Fresh
  <2> QED
    BY <2>1, <2>2, <2>3
<1>5. CASE BoxWanes
  BY <1>4, <1>5 DEF BoxWanes
<1>6. ASSUME NEW r \in Reqs, CreationStep(r), box' # box
      PROVE  /\ box'[c].created <= now'
             /\ Exists(c)' => box'[c].created <= box'[c].born
             /\ Exists(c)' /\ sessions'[c] # NoObj
                  => box'[c].created <= heap'[c][sessions'[c]].last
  <2>1. PICK d \in Cids :
           /\ \A x \in Cids \ {d} : box'[x] = box[x]
           /\ \/ box'[d].status = "starting" /\ box'[d].created = now
              \/ /\ DockerRun(r) \/ DockerRunFails(r)
                 /\ box[d].status = "starting"
                 /\ box'[d].created = box[d].created /\ box'[d].born = now
              \/ /\ box'[d].status = box[d].status
                 /\ box'[d].created = box[d].created /\ box'[d].born = box[d].born
    BY <1>6, CreationBox
  <2>2. CASE c # d
    BY <1>4, <2>1, <2>2 DEF Exists
  <2>3. CASE c = d /\ box'[d].status = "starting" /\ box'[d].created = now
    BY <1>0, <2>3 DEF Exists
  <2>4. CASE /\ c = d /\ (DockerRun(r) \/ DockerRunFails(r))
             /\ box[d].status = "starting"
             /\ box'[d].created = box[d].created /\ box'[d].born = now
    <3>1. sessions' = sessions /\ sessions[c] = NoObj
      BY <2>4 DEF DockerRun, DockerRunFails, store, Inductive, PlacesInv, Real, Tracked
    <3> QED
      BY <1>0, <1>1, <1>2, <2>4, <3>1
  <2>5. CASE /\ c = d /\ box'[d].status = box[d].status
             /\ box'[d].created = box[d].created /\ box'[d].born = box[d].born
    BY <1>4, <2>5 DEF Exists
  <2> QED
    BY <2>1, <2>2, <2>3, <2>4, <2>5
<1>7. CASE box' = box
  BY <1>4, <1>7 DEF Exists
<1> QED
  BY <1>5, <1>6, <1>7, NextWanes

LEMMA UpTrackedKept ==
  ASSUME ~StartupListFails, Inductive, CreatorInv, UpTracked, [Next]_vars
  PROVE  UpTracked'
<1> SUFFICES ASSUME NEW c \in Cids, box'[c].known, box'[c].status = "up"
             PROVE  sessions'[c] # NoObj
  BY DEF UpTracked
<1>0. NoObj \notin ObjIds
  BY NumbersAssumption DEF NoObj
<1>1. CASE Restart
  <2>1. PICK k \in ObjIds :
          sessions' = [x \in Cids |-> IF TRUE /\ box'[x].status = "up" THEN k ELSE NoObj]
    <3>1. PICK recovers \in {TRUE, ~StartupListFails} : Startup(box', recovers)
      BY <1>1 DEF Restart
    <3>2. recovers = TRUE
      BY <3>1
    <3> QED
      BY <3>1, <3>2 DEF Startup
  <2> QED
    BY <1>0, <2>1
<1>2. ASSUME ~Restart, box[c].known, box[c].status = "up"
      PROVE  sessions'[c] # NoObj
  BY <1>2, TrackedStays DEF UpTracked, Exists
<1>3. CASE BoxWanes
  BY <1>1, <1>2, <1>3 DEF BoxWanes
<1>4. ASSUME NEW r \in Reqs, CreationStep(r), box' # box, ~Restart
      PROVE  sessions'[c] # NoObj
  <2>1. PICK d \in Cids :
           /\ cid'[r] = d
           /\ \A x \in Cids \ {d} : box'[x] = box[x]
           /\ \/ box'[d].status = "starting"
              \/ /\ DockerRun(r) \/ DockerRunFails(r)
                 /\ cid[r] = d /\ box'[d].known = box[d].known
              \/ FinishCreate(r) /\ cid[r] = d
    BY <1>4, CreationBox
  <2>2. CASE c # d
    BY <1>2, <1>4, <2>1, <2>2
  <2>3. CASE c = d /\ (DockerRun(r) \/ DockerRunFails(r)) /\ cid[r] = d
                   /\ box'[d].known = box[d].known
    BY <2>3 DEF CreatorInv, DockerRun, DockerRunFails
  <2>4. CASE c = d /\ FinishCreate(r) /\ cid[r] = d
    <3>1. PICK k \in ObjIds : \E s : SaveSession(c, k, s)
      BY <2>4 DEF FinishCreate
    <3>2. sessions'[c] = k
      BY <3>1, SaveEffect DEF Inductive, TypeOK
    <3> QED
      BY <1>0, <3>2
  <2> QED
    BY <2>1, <2>2, <2>3, <2>4
<1>5. CASE box' = box
  BY <1>1, <1>2, <1>5
<1> QED
  BY <1>1, <1>3, <1>4, <1>5, NextWanes


\* The sessions that are still young are those that were, but for the one whose id a
\* client gets now.
LEMMA YoungShrinks ==
  ASSUME Inductive, CreatorInv, UpTracked, [Next]_vars, NEW c \in Young'
  PROVE  \/ c \in Young /\ box'[c].owner = box[c].owner
         \/ \E r \in Reqs : FinishCreate(r) /\ c = cid[r] /\ box'[c].owner = Subject[r]
<1>0. /\ c \in Cids /\ sessions'[c] # NoObj /\ box'[c].status = "up" /\ box'[c].known
      /\ now' - box'[c].created <= IdleTimeout /\ ~(now' >= box'[c].expires)
  BY DEF Young, Tracked, HardExpired
<1>1. /\ now \in Nat /\ now' \in Nat /\ now <= now' /\ IdleTimeout \in Nat
      /\ box[c].created \in Nat /\ box[c].expires \in Nat
  BY <1>0, TimePasses, NumbersAssumption DEF Inductive, TypeOK, DockerType, BoxType
<1>2. ASSUME box[c].known, box[c].status = "up", box'[c].created = box[c].created,
             box'[c].expires = box[c].expires
      PROVE  c \in Young
  <2>1. now - box[c].created <= IdleTimeout /\ ~(now >= box[c].expires)
    BY <1>0, <1>1, <1>2
  <2>2. c \in Tracked
    BY <1>0, <1>2 DEF UpTracked, Tracked
  <2> QED
    BY <1>2, <2>1, <2>2 DEF Young, HardExpired
<1>3. CASE BoxWanes
  <2>1. /\ box[c].known /\ box[c].status = "up" /\ box'[c].created = box[c].created
        /\ box'[c].expires = box[c].expires /\ box'[c].owner = box[c].owner
    BY <1>0, <1>3 DEF BoxWanes
  <2> QED
    BY <1>2, <2>1
<1>4. ASSUME NEW r \in Reqs, CreationStep(r), box' # box
      PROVE  \/ c \in Young /\ box'[c].owner = box[c].owner
             \/ \E q \in Reqs : FinishCreate(q) /\ c = cid[q] /\ box'[c].owner = Subject[q]
  <2>1. PICK d \in Cids :
           /\ \A x \in Cids \ {d} : box'[x] = box[x]
           /\ \/ box'[d].status = "starting"
              \/ /\ DockerRun(r) \/ DockerRunFails(r)
                 /\ cid[r] = d /\ box'[d].known = box[d].known
              \/ FinishCreate(r) /\ cid[r] = d /\ box'[d].owner = box[d].owner
    BY <1>4, CreationBox
  <2>2. CASE c # d
    BY <1>0, <1>2, <2>1, <2>2
  <2>3. CASE c = d /\ (DockerRun(r) \/ DockerRunFails(r)) /\ cid[r] = d
                   /\ box'[d].known = box[d].known
    BY <1>0, <2>3 DEF CreatorInv, DockerRun, DockerRunFails
  <2>4. CASE c = d /\ FinishCreate(r) /\ cid[r] = d /\ box'[d].owner = box[d].owner
    BY <2>4 DEF CreatorInv, FinishCreate
  <2> QED
    BY <1>0, <2>1, <2>2, <2>3, <2>4
<1>5. CASE box' = box
  BY <1>0, <1>2, <1>5
<1> QED
  BY <1>3, <1>4, <1>5, NextWanes

\* Counting a set that gains at most one element.
LEMMA GainsOne ==
  ASSUME NEW S, IsFiniteSet(S), NEW x, NEW T \in SUBSET (S \cup {x}), NEW n \in Nat,
         Cardinality(S) < n
  PROVE  Cardinality(T) <= n
<1>1. IsFiniteSet(S \cup {x})
  BY FS_AddElement
<1>2. Cardinality(S) \in Nat
  BY FS_CardinalityType
<1>3. Cardinality(S \cup {x}) \in Nat
  BY <1>1, FS_CardinalityType
<1>4. Cardinality(S \cup {x}) = IF x \in S THEN Cardinality(S) ELSE Cardinality(S) + 1
  BY FS_AddElement
<1>5. IsFiniteSet(S \cup {x}) /\ Cardinality(S \cup {x}) <= Cardinality(S) + 1
      /\ Cardinality(S) \in Nat /\ Cardinality(S \cup {x}) \in Nat
  BY <1>1, <1>2, <1>3, <1>4
<1>6. Cardinality(T) <= Cardinality(S \cup {x}) /\ Cardinality(T) \in Nat
  BY <1>5, FS_Subset, FS_CardinalityType
<1> QED
  BY <1>5, <1>6

LEMMA Shrinks ==
  ASSUME NEW S, IsFiniteSet(S), NEW T \in SUBSET S, NEW n \in Nat
  PROVE  /\ Cardinality(S) <= n => Cardinality(T) <= n
         /\ Cardinality(S) < n => Cardinality(T) < n
<1>1. IsFiniteSet(T) /\ Cardinality(T) <= Cardinality(S)
  BY FS_Subset
<1>2. Cardinality(T) \in Nat /\ Cardinality(S) \in Nat
  BY <1>1, FS_CardinalityType
<1> QED
  BY <1>1, <1>2

LEMMA YoungFinite ==
  ASSUME IsFiniteSet(Cids)
  PROVE  /\ IsFiniteSet(Young) /\ \A p \in Principals : IsFiniteSet(YoungOf(p))
         /\ IsFiniteSet(ActiveSessions)
         /\ \A p : IsFiniteSet({c \in ActiveSessions : box[c].owner = p})
<1>1. Young \in SUBSET Cids /\ ActiveSessions \in SUBSET Cids
  BY DEF Young, ActiveSessions, Tracked
<1>2. ASSUME NEW T \in SUBSET Cids
      PROVE  IsFiniteSet(T)
  BY <1>2, FS_Subset
<1>3. \A p \in Principals : YoungOf(p) \in SUBSET Cids
  BY <1>1 DEF YoungOf
<1>4. \A p : {c \in ActiveSessions : box[c].owner = p} \in SUBSET Cids
  BY <1>1
<1> QED
  BY <1>1, <1>2, <1>3, <1>4

LEMMA QuotaKept ==
  ASSUME ~StartupListFails, IsFiniteSet(Cids), Inductive, CreatorInv, QuotaInv, [Next]_vars
  PROVE  QuotaInv'
<1>0. /\ TimesInv /\ UpTracked /\ YoungQuota /\ RoomInv
      /\ MaxActive \in Nat /\ MaxPerPrincipal \in Nat
      /\ \A r \in Reqs : Subject[r] \in Principals
  BY NumbersAssumption, SetsAssumption DEF QuotaInv
<1>1. TimesInv' /\ UpTracked'
  BY <1>0, TimesKept, UpTrackedKept
<1>2. ASSUME \A r \in Reqs : ~FinishCreate(r)
      PROVE  Young' \in SUBSET Young /\ \A p \in Principals : YoungOf(p)' \in SUBSET YoungOf(p)
  <2>1. \A c \in Young' : c \in Young /\ box'[c].owner = box[c].owner
    BY <1>0, <1>2, YoungShrinks
  <2> QED
    BY <2>1 DEF YoungOf
<1>3. ASSUME NEW r \in Reqs, FinishCreate(r)
      PROVE  /\ Young' \in SUBSET (Young \cup {cid[r]})
             /\ YoungOf(Subject[r])' \in SUBSET (YoungOf(Subject[r]) \cup {cid[r]})
             /\ \A p \in Principals \ {Subject[r]} : YoungOf(p)' \in SUBSET YoungOf(p)
  <2>1. ASSUME NEW q \in Reqs, FinishCreate(q)
        PROVE  q = r
    BY <1>3, <2>1 DEF CreatorInv, FinishCreate
  <2>2. \A c \in Young' : \/ c \in Young /\ box'[c].owner = box[c].owner
                          \/ c = cid[r] /\ box'[c].owner = Subject[r]
    BY <1>0, <2>1, YoungShrinks
  <2> QED
    BY <2>2 DEF YoungOf
<1>4. /\ Cardinality(Young) <= MaxActive
      /\ \A p \in Principals : Cardinality(YoungOf(p)) <= MaxPerPrincipal
  BY <1>0 DEF YoungQuota, YoungOf
<1>5. /\ Cardinality(Young') <= MaxActive
      /\ \A p \in Principals : Cardinality(YoungOf(p)') <= MaxPerPrincipal
  <2>1. CASE \A r \in Reqs : ~FinishCreate(r)
    BY <1>0, <1>2, <1>4, <2>1, YoungFinite, Shrinks
  <2>2. ASSUME NEW r \in Reqs, FinishCreate(r)
        PROVE  /\ Cardinality(Young') <= MaxActive
               /\ \A p \in Principals : Cardinality(YoungOf(p)') <= MaxPerPrincipal
    <3>1. /\ Cardinality(Young) < MaxActive
          /\ Cardinality(YoungOf(Subject[r])) < MaxPerPrincipal
      BY <1>0, <2>2 DEF FinishCreate, RoomInv
    <3>2. Cardinality(Young') <= MaxActive
      BY <1>0, <1>3, <2>2, <3>1, YoungFinite, GainsOne
    <3>3. Cardinality(YoungOf(Subject[r])') <= MaxPerPrincipal
      BY <1>0, <1>3, <2>2, <3>1, YoungFinite, GainsOne
    <3>4. \A p \in Principals \ {Subject[r]} : Cardinality(YoungOf(p)') <= MaxPerPrincipal
      BY <1>0, <1>3, <1>4, <2>2, YoungFinite, Shrinks
    <3> QED
      BY <3>2, <3>3, <3>4
  <2> QED
    BY <2>1, <2>2
<1>6. YoungQuota'
  BY <1>5 DEF YoungQuota, YoungOf
<1>7. RoomInv'
  <2>1. SUFFICES ASSUME NEW r \in Reqs, pc'[r] \in {"c_run", "c_ran"}
                 PROVE  /\ Cardinality(Young') < MaxActive
                        /\ Cardinality(YoungOf(Subject[r])') < MaxPerPrincipal
    BY DEF RoomInv
  <2>2. ASSUME /\ Cardinality(Young) < MaxActive
               /\ Cardinality(YoungOf(Subject[r])) < MaxPerPrincipal,
               \A q \in Reqs : ~FinishCreate(q)
        PROVE  /\ Cardinality(Young') < MaxActive
               /\ Cardinality(YoungOf(Subject[r])') < MaxPerPrincipal
    BY <1>0, <1>2, <2>1, <2>2, YoungFinite, Shrinks
  <2>3. CASE EnterGuard(r)
    <3>1. ~LimitReached(r)
      <4>1. ~Leave(r, "done")
        BY <2>1, LeaveOnly DEF Inductive, TypeOK
      <4> QED
        BY <2>3, <4>1 DEF EnterGuard
    <3>2. Young \in SUBSET ActiveSessions
      <4>1. SUFFICES ASSUME NEW c \in Young
                     PROVE  c \in ActiveSessions
        OBVIOUS
      <4>2. /\ c \in Cids /\ c \in Tracked /\ sessions[c] # NoObj /\ Exists(c)
            /\ now - box[c].created <= IdleTimeout /\ ~HardExpired(c)
        BY DEF Young, Tracked, Exists
      <4>3. box[c].created <= heap[c][sessions[c]].last
        BY <1>0, <4>2 DEF TimesInv, Info
      <4>4. /\ now \in Nat /\ IdleTimeout \in Nat /\ box[c].created \in Nat
            /\ heap[c][sessions[c]].last \in Nat
        BY <4>2, NumbersAssumption DEF Inductive, TypeOK, CounterType, DockerType, StoreType,
           BoxType
      <4>5. ~(now - heap[c][sessions[c]].last > IdleTimeout)
        BY <4>2, <4>3, <4>4
      <4> QED
        BY <4>2, <4>5 DEF ActiveSessions, Active, IdleExpired, Info
    <3>3. YoungOf(Subject[r]) \in SUBSET {c \in ActiveSessions : box[c].owner = Subject[r]}
      BY <3>2 DEF YoungOf
    <3>4. /\ Cardinality(ActiveSessions) < MaxActive
          /\ Cardinality({c \in ActiveSessions : box[c].owner = Subject[r]}) < MaxPerPrincipal
      <4>1. /\ Cardinality(ActiveSessions) \in Nat
            /\ Cardinality({c \in ActiveSessions : box[c].owner = Subject[r]}) \in Nat
        BY YoungFinite, FS_CardinalityType
      <4>2. /\ ~(Cardinality(ActiveSessions) >= MaxActive)
            /\ ~(Cardinality({c \in ActiveSessions : box[c].owner = Subject[r]})
                   >= MaxPerPrincipal)
        BY <3>1 DEF LimitReached
      <4> DEFINE m == Cardinality(ActiveSessions)
                 k == Cardinality({c \in ActiveSessions : box[c].owner = Subject[r]})
      <4>3. m \in Nat /\ k \in Nat /\ ~(m >= MaxActive) /\ ~(k >= MaxPerPrincipal)
        BY <4>1, <4>2
      <4> HIDE DEF m, k
      <4>4. m < MaxActive /\ k < MaxPerPrincipal
        BY <1>0, <4>3
      <4> QED
        BY <4>4 DEF m, k
    <3>5. /\ Cardinality(Young) < MaxActive
          /\ Cardinality(YoungOf(Subject[r])) < MaxPerPrincipal
      BY <1>0, <3>2, <3>3, <3>4, YoungFinite, Shrinks
    <3>6. \A q \in Reqs : ~FinishCreate(q)
      BY <2>3, SetsAssumption DEF EnterGuard, GuardFree, FinishCreate, CreatorInv
    <3> QED
      BY <2>2, <3>5, <3>6
  <2>4. CASE pc[r] \in {"c_run", "c_ran"}
    <3>1. /\ Cardinality(Young) < MaxActive
          /\ Cardinality(YoungOf(Subject[r])) < MaxPerPrincipal
      BY <1>0, <2>4 DEF RoomInv
    <3>2. ASSUME NEW q \in Reqs, FinishCreate(q)
          PROVE  FALSE
      <4>1. q = r
        BY <2>4, <3>2 DEF CreatorInv, FinishCreate
      <4>2. pc'[r] = "done"
        BY <3>2, <4>1, LeaveOnly DEF FinishCreate, Inductive, TypeOK
      <4> QED
        BY <2>1, <4>2
    <3> QED
      BY <2>2, <3>1, <3>2
  <2>5. EnterGuard(r) \/ pc[r] \in {"c_run", "c_ran"}
    <3>1. ~RemovalStep(r)
      BY <2>1, RemovalArrives DEF RemovalSteps, Outcomes
    <3>2. OwnStep(r) => EnterGuard(r) \/ DockerRun(r)
      BY <2>1, Arrives
    <3>3. ~OwnStep(r) => pc'[r] = pc[r]
      BY <2>1, <3>1, NotMoved DEF Outcomes
    <3> QED
      BY <2>1, <3>2, <3>3 DEF DockerRun
  <2> QED
    BY <2>3, <2>4, <2>5
<1> QED
  BY <1>1, <1>6, <1>7 DEF QuotaInv

\* However creations interleave, with each other, with removals, with the cleanup task
\* and with crashes of the gateway whose startup finds the running containers, the
\* young sessions never exceed the limits, if those that were there at the beginning
\* did not.
THEOREM YoungQuotaHolds ==
  ASSUME ~StartupListFails, IsFiniteSet(Cids)
  PROVE  Spec /\ YoungQuota => []YoungQuota
<1>1. Init /\ YoungQuota => CreatorInv /\ QuotaInv
  <2>1. SUFFICES ASSUME Init, YoungQuota
                 PROVE  CreatorInv /\ TimesInv /\ UpTracked /\ RoomInv
    BY DEF QuotaInv
  <2>2. \A r \in Reqs : pc[r] \notin {"c_run", "c_ran"}
    BY <2>1 DEF Init, Actors
  <2>3. \A c \in Cids : box[c] \in [status : {"unused", "up"}, owner : Principals,
                          created : {0}, born : {0}, expires : {Lifetime}, known : BOOLEAN]
    BY <2>1 DEF Init
  <2>4. \A c \in Cids : box[c].created = 0 /\ box[c].born = 0
    BY <2>3
  <2>5. /\ now = 0
        /\ \A c \in Cids : sessions[c] # NoObj => heap[c][sessions[c]].last = 0
    <3>1. sessions \in [Cids -> ObjIds \cup {NoObj}]
      BY <2>1, InitHolds DEF Inductive, TypeOK, StoreType
    <3> QED
      BY <2>1, <3>1 DEF Init, EmptySession
  <2>6. TimesInv
    BY <2>4, <2>5 DEF TimesInv, Info
  <2>7. UpTracked
    <3>1. PICK recovers \in {TRUE, ~StartupListFails}, k \in ObjIds :
            sessions = [c \in Cids |-> IF recovers /\ c \in Inherited THEN k ELSE NoObj]
      BY <2>1 DEF Init
    <3>2. recovers = TRUE /\ k # NoObj
      BY NumbersAssumption DEF NoObj
    <3>3. \A c \in Inherited : sessions[c] # NoObj
      BY <3>1, <3>2, SetsAssumption
    <3> QED
      BY <2>1, <3>3 DEF Init, UpTracked
  <2> QED
    BY <2>2, <2>6, <2>7 DEF CreatorInv, RoomInv
<1>2. Inductive /\ CreatorInv /\ QuotaInv /\ [Next]_vars => (CreatorInv /\ QuotaInv)'
  BY CreatorKept, QuotaKept
<1>3. QuotaInv => YoungQuota
  BY DEF QuotaInv
<1> QED
  BY <1>1, <1>2, <1>3, InductiveInvariant, PTL DEF Spec


-----------------------------------------------------------------------------
(***************************************************************************)
(* The execution budget                                                    *)
(***************************************************************************)
\* The execution budget, while the process lives and its startup found everything.
\* A container whose id a client has is tracked until it is gone, so no handler
\* recovers its session, and its record counts what was admitted.
BoxBudget(c) ==
  /\ box[c].known /\ box[c].status # "gone" => sessions[c] # NoObj
  /\ ~box[c].known => admitted[c] = 0
  /\ box[c].status # "gone" /\ sessions[c] # NoObj => admitted[c] <= Info(c).count
  /\ admitted[c] <= MaxExecutions

\* The object a handler read is the one in the table until the container is gone, and
\* the one handler about to admit counts from what was admitted, gone or not.
HandlerBudget(r) ==
  /\ pc[r] = "a_get" => box[cid[r]].status = "gone"
  /\ pc[r] # "a_got"
  /\ pc[r] \in {"x_get", "x_got"} /\ box[cid[r]].status # "gone" => obj[r] = sessions[cid[r]]
  /\ pc[r] = "x_got" => admitted[cid[r]] <= heap[cid[r]][obj[r]].count

OneAdmits ==
  \A r1, r2 \in Reqs : pc[r1] = "x_got" /\ pc[r2] = "x_got" /\ cid[r1] = cid[r2] => r1 = r2

BudgetState ==
  /\ \A c \in Cids : BoxBudget(c)
  /\ \A r \in Reqs : HandlerBudget(r)
  /\ OneAdmits

BudgetInv == restarts = 0 => BudgetState


\* What a step that neither admits an execution nor makes a record does.
Counts(c) ==
  /\ admitted'[c] = admitted[c] /\ box'[c].known = box[c].known
  /\ sessions'[c] = sessions[c] \/ box'[c].status = "gone"
  /\ \A k \in ObjIds : heap'[c][k].count = heap[c][k].count

LEMMA CountsBox ==
  ASSUME Inductive, [Next]_vars, NEW c \in Cids, BoxBudget(c), Counts(c)
  PROVE  BoxBudget(c)'
<1>1. box[c].status = "gone" => box'[c].status = "gone"
  BY GoneStays
<1>2. sessions[c] \in ObjIds \cup {NoObj}
  BY DEF Inductive, TypeOK, StoreType
<1> QED
  BY <1>1, <1>2 DEF BoxBudget, Counts, Info

\* A handler that does not move has its object as long as Counts is all that happens.
LEMMA CountsHandler ==
  ASSUME Inductive, [Next]_vars, NEW r \in Reqs, HandlerBudget(r),
         pc'[r] = pc[r], cid'[r] = cid[r], obj'[r] = obj[r],
         pc[r] \in {"a_get", "x_get", "x_got"} => Counts(cid[r])
  PROVE  HandlerBudget(r)'
<1>1. ASSUME pc[r] \in {"a_get", "x_get", "x_got"}
      PROVE  cid[r] \in Cids /\ (box[cid[r]].status = "gone" => box'[cid[r]].status = "gone")
  <2>1. cid[r] \in Cids
    BY <1>1 DEF Inductive, PlacesInv, Actors, ContainerSteps, AccessSteps, ExecSteps
  <2> QED
    BY <2>1, GoneStays
<1>2. pc[r] = "x_got" => obj[r] \in ObjIds
  BY DEF Inductive, PlacesInv
<1> QED
  BY <1>1, <1>2 DEF HandlerBudget, Counts

\* Who finishes a creation, admits an execution or recovers records makes records;
\* the other steps only drop those of containers that are gone.
LEMMA NextCounts ==
  ASSUME Inductive, [Next]_vars, ~Restart, ~ReaperRecover,
         \A r \in Reqs : ~FinishCreate(r) /\ ~RecoverSession(r)
                         /\ (AdmitExecution(r) => pc'[r] = "rm_kill"),
         NEW c \in Cids
  PROVE  Counts(c)
<1>0. /\ StoreType /\ HandlerType /\ NoObj \notin ObjIds
      /\ \A r \in Reqs : r \in Actors
      /\ \A a \in Actors : pc[a] \in ContainerSteps =>
           cid[a] \in Cids /\ (~Exists(cid[a]) => box[cid[a]].status = "gone")
  BY NumbersAssumption, PlaceOf DEF Inductive, TypeOK, Actors, NoObj
<1>1. box'[c].known = box[c].known
  <2>1. ASSUME NEW r \in Reqs, CreationStep(r), box' # box
        PROVE  box'[c].known = box[c].known
    BY <2>1, CreationBox
  <2> QED
    BY <2>1, NextWanes DEF BoxWanes
<1>2. ASSUME admitted' = admitted, UNCHANGED store \/ (sessions' = sessions /\ heap' = heap)
      PROVE  Counts(c)
  BY <1>1, <1>2 DEF Counts, store
<1>3. ASSUME NEW d \in Cids, DeleteSession(d), admitted' = admitted, box[d].status = "gone"
      PROVE  Counts(c)
  BY <1>0, <1>1, <1>3, DeleteEffect, GoneStays DEF Counts
<1>4. ASSUME NEW r \in Reqs, OwnStep(r)
      PROVE  Counts(c)
  <2> USE DEF ContainerSteps, AccessSteps, ExecSteps
  <2>1. CASE BeginCreate(r) \/ BeginAccess(r) \/ EnterGuard(r) \/ DockerRun(r)
               \/ GuardTimeout(r) \/ WaitTimeout(r) \/ DockerRunFails(r)
               \/ EnvProvisionFails(r) \/ DockerError(r) \/ EnsureSession(r)
               \/ LookUpContainer(r)
    BY <1>2, <2>1 DEF BeginCreate, BeginAccess, EnterGuard, DockerRun, GuardTimeout,
       WaitTimeout, DockerRunFails, EnvProvisionFails, DockerError, EnsureSession,
       LookUpContainer
  <2>2. CASE Inspect(r) \/ FetchContainer(r)
    <3>1. pc[r] \in ContainerSteps
      BY <2>2 DEF Inspect, FetchContainer
    <3> QED
      BY <1>0, <1>2, <1>3, <2>2, <3>1 DEF Inspect, FetchContainer
  <2>3. CASE AcquireSlot(r) \/ AcquireLock(r) \/ Provision(r) \/ StartExec(r) \/ ExecCut(r)
               \/ ExecTimeout(r)
    BY <1>2, <2>3 DEF AcquireSlot, AcquireLock, Provision, StartExec, ExecCut, ExecTimeout
  <2>4. CASE AdmitExecution(r)
    <3>1. pc'[r] = "rm_kill"
      BY <2>4
    <3>2. ~Goto(r, "x_prep")
      BY <1>0, <3>1, GotoOnly
    <3> QED
      BY <1>2, <2>4, <3>2 DEF AdmitExecution
  <2>5. CASE FinishExec(r)
    <3>1. CASE UNCHANGED heap
      BY <1>2, <2>5, <3>1 DEF FinishExec
    <3>2. CASE cid[r] \in Tracked /\ heap' = [heap EXCEPT ![cid[r]][sessions[cid[r]]].last = now]
      <4>1. /\ sessions' = sessions /\ cid[r] \in Cids /\ sessions[cid[r]] \in ObjIds
            /\ admitted' = admitted
        BY <1>0, <2>5, <3>2 DEF FinishExec, Tracked, StoreType
      <4>2. ASSUME NEW k \in ObjIds
            PROVE  heap'[c][k].count = heap[c][k].count
        <5>1. heap[c][k] \in [count : Nat, last : Nat]
          BY <1>0 DEF StoreType
        <5>2. \/ heap'[c][k] = heap[c][k]
              \/ heap'[c][k] = [heap[c][k] EXCEPT !.last = now]
          BY <1>0, <3>2, <4>1 DEF StoreType
        <5> QED
          BY <5>1, <5>2
      <4> QED
        BY <1>1, <4>1, <4>2 DEF Counts
    <3> QED
      BY <2>5, <3>1, <3>2 DEF FinishExec
  <2> QED
    BY <1>4, <2>1, <2>2, <2>3, <2>4, <2>5 DEF OwnStep, CreateNext, AccessNext, ExecuteNext
<1>5. ASSUME NEW a \in Actors, RemovalStep(a)
      PROVE  Counts(c)
  <2>1. pc[a] \in ContainerSteps
    BY <1>5 DEF RemovalStep, RemovalNext, RmGet, RmKill, RmRemove, RmConfirm, RmUnconfirmed,
       RmRaises, RemovalSteps, ContainerSteps
  <2>2. cid[a] \in Cids /\ (~Exists(cid[a]) => box[cid[a]].status = "gone")
    BY <1>0, <2>1
  <2>3. CASE RmConfirm(a)
    BY <1>3, <2>2, <2>3 DEF RmConfirm, Inductive, ConfirmInv
  <2> QED
    BY <1>2, <1>3, <1>5, <2>2, <2>3 DEF RemovalStep, RemovalNext, RmGet, RmKill, RmRemove,
       RmUnconfirmed, RmRaises
<1>6. CASE CleanupStep
  BY <1>2, <1>6 DEF CleanupStep, ReaperScan, ReaperNext, ReaperList
<1>7. CASE (\E d \in Cids, r \in Reqs : CodeEnds(d, r)) \/ Tick \/ UNCHANGED vars
  BY <1>2, <1>7 DEF CodeEnds, Tick, vars
<1> QED
  BY <1>4, <1>5, <1>6, <1>7, Steppers


\* Who is about a container has its id from somebody, and it is no creation's.
LEMMA ClientPlace ==
  ASSUME Inductive, ClientInv, NEW r \in Reqs, pc[r] \in ClientSteps
  PROVE  cid[r] \in Cids /\ box[cid[r]].known
BY DEF Inductive, PlacesInv, ClientInv, ClientSteps, ContainerSteps, Actors

\* A handler that moves reads the record of a container that is tracked, at its budget.
LEMMA ArrivesHandler ==
  ASSUME Inductive, ClientInv, BudgetState, [Next]_vars, NEW r \in Reqs, OwnStep(r)
  PROVE  HandlerBudget(r)'
<1> USE DEF ClientSteps, AccessSteps, ExecSteps
<1>0. HandlerType /\ StoreType /\ r \in Actors /\ NoObj \notin ObjIds
  BY NumbersAssumption DEF Inductive, TypeOK, Actors, NoObj
<1>1. CASE pc'[r] = "a_get" /\ EnsureSession(r)
  <2>1. pc[r] = "a_begin" /\ cid[r] \notin Tracked /\ cid' = cid
    <3>1. CheckSession(r) => pc'[r] # "a_get"
      BY <1>0, LeaveOnly, GotoOnly DEF CheckSession, NextStepOf, HandlerType
    <3> QED
      BY <1>0, <1>1, <3>1, GotoOnly DEF EnsureSession
  <2>2. cid[r] \in Cids /\ box[cid[r]].known
    BY <2>1, ClientPlace
  <2>3. box[cid[r]].status = "gone"
    BY <2>1, <2>2 DEF BudgetState, BoxBudget, Tracked
  <2>4. box'[cid[r]].status = "gone"
    BY <2>2, <2>3, GoneStays
  <2> QED
    BY <1>1, <2>1, <2>4 DEF HandlerBudget
<1>2. CASE pc'[r] = "a_got" /\ LookUpContainer(r)
  <2>1. ~Exists(cid[r])
    BY <1>2 DEF LookUpContainer, BudgetState, HandlerBudget, Exists
  <2>2. Leave(r, "done")
    BY <1>2, <2>1 DEF LookUpContainer
  <2> QED
    BY <1>0, <1>2, <2>2, LeaveOnly
<1>3. CASE pc'[r] = "x_get" /\ AcquireLock(r)
  <2>1. /\ ~Leave(r, "done")
    BY <1>0, <1>3, LeaveOnly
  <2>2. obj'[r] = sessions[cid[r]] /\ cid' = cid /\ sessions' = sessions
    BY <1>0, <1>3, <2>1 DEF AcquireLock, store, HandlerType
  <2> QED
    BY <1>3, <2>2 DEF HandlerBudget
<1>4. CASE pc'[r] = "x_got" /\ FetchContainer(r)
  <2>1. /\ ~Leave(r, "done")
    BY <1>0, <1>4, LeaveOnly
  <2>2. /\ pc[r] = "x_get" /\ Exists(cid[r]) /\ UNCHANGED <<box, sessions, heap, admitted>>
        /\ cid' = cid /\ obj' = obj
    BY <1>0, <1>4, <2>1, GotoOnly DEF FetchContainer, docker, store
  <2>3. cid[r] \in Cids /\ box[cid[r]].known /\ box[cid[r]].status # "gone"
    BY <2>2, ClientPlace DEF Exists
  <2>4. obj[r] = sessions[cid[r]] /\ sessions[cid[r]] # NoObj
    BY <2>2, <2>3 DEF BudgetState, BoxBudget, HandlerBudget
  <2>5. admitted[cid[r]] <= heap[cid[r]][obj[r]].count
    BY <2>3, <2>4 DEF BudgetState, BoxBudget, Info
  <2> QED
    BY <1>4, <2>2, <2>3, <2>4, <2>5 DEF HandlerBudget
<1>5. CASE pc'[r] \notin {"a_get", "a_got", "x_get", "x_got"}
  BY <1>5 DEF HandlerBudget
<1> QED
  BY <1>1, <1>2, <1>3, <1>4, <1>5, Arrives

\* Only one handler at a time is about to admit an execution to a container.
LEMMA OneAdmitsKept ==
  ASSUME Inductive, HeldInv, OneAdmits, [Next]_vars
  PROVE  OneAdmits'
<1> SUFFICES ASSUME NEW r1 \in Reqs, NEW r2 \in Reqs, pc'[r1] = "x_got", pc'[r2] = "x_got",
                    cid'[r1] = cid'[r2], r1 # r2
             PROVE  FALSE
  BY DEF OneAdmits
<1>0. HandlerType /\ \A r \in Reqs : r \in Actors
  BY DEF Inductive, TypeOK, Actors
<1>1. ASSUME NEW r \in Reqs, pc'[r] = "x_got"
      PROVE  /\ cid'[r] = cid[r]
             /\ pc[r] = "x_got" \/ (pc[r] = "x_get" /\ OwnStep(r) /\ Exists(cid[r]))
  <2>1. ~RemovalStep(r)
    BY <1>1, RemovalArrives DEF RemovalSteps, Outcomes
  <2>2. CASE OwnStep(r)
    <3>1. FetchContainer(r) /\ ~Leave(r, "done")
      BY <1>0, <1>1, <2>2, Arrives, LeaveOnly
    <3> QED
      BY <1>0, <2>2, <3>1, GotoOnly DEF FetchContainer
  <2>3. CASE ~OwnStep(r)
    BY <1>1, <2>1, <2>3, NotMoved DEF Outcomes
  <2> QED
    BY <2>2, <2>3
<1>2. ASSUME NEW r \in Reqs, NEW q \in Reqs, r # q, pc[r] = "x_get", OwnStep(r), Exists(cid[r]),
             pc[q] \in {"x_get", "x_got"}, cid[q] = cid[r]
      PROVE  FALSE
  BY <1>2, LockExcludes DEF HeldInv, InLock, Exists, ExecSteps
<1> QED
  BY <1>1, <1>2 DEF OneAdmits

LEMMA FinishCreateBudget ==
  ASSUME Inductive, CreatorInv, ClientInv, BudgetState, [Next]_vars,
         NEW r \in Reqs, FinishCreate(r)
  PROVE  /\ \A c \in Cids : BoxBudget(c)'
         /\ \A q \in Reqs \ {r} : HandlerBudget(q)'
<1>0. HandlerType /\ StoreType /\ r \in Actors /\ NoObj \notin ObjIds /\ MaxExecutions \in Nat
  BY NumbersAssumption DEF Inductive, TypeOK, Actors, NoObj
<1>1. PICK e \in Cids :
        e = cid[r] /\ ~box[e].known /\ admitted[e] = 0 /\ admitted' = admitted
  BY DEF FinishCreate, CreatorInv, BudgetState, BoxBudget
<1>2. PICK k \in ObjIds : SaveSession(e, k, [count |-> 0, last |-> box[e].created])
  BY <1>1 DEF FinishCreate
<1>3. /\ sessions'[e] = k /\ heap'[e][k] = [count |-> 0, last |-> box[e].created]
      /\ \A x \in Cids \ {e} : sessions'[x] = sessions[x] /\ heap'[x] = heap[x]
  BY <1>0, <1>1, <1>2, SaveEffect
<1>4. \A x \in Cids \ {e} : box'[x] = box[x]
  BY <1>1 DEF FinishCreate, Inductive, TypeOK, DockerType
<1>5. \A x \in Cids \ {e} : Counts(x)
  BY <1>1, <1>3, <1>4 DEF Counts
<1>6. box'[e].known
  BY <1>1 DEF FinishCreate, Inductive, TypeOK, DockerType, BoxType
<1>7. BoxBudget(e)'
  BY <1>0, <1>1, <1>3, <1>6 DEF BoxBudget, Info
<1>8. ASSUME NEW q \in Reqs \ {r}
      PROVE  HandlerBudget(q)'
  <2>1. pc'[q] = pc[q] /\ cid'[q] = cid[q] /\ obj'[q] = obj[q]
    BY <1>0, <1>8, LeaveOnly DEF FinishCreate, Only, Actors
  <2>2. ASSUME pc[q] \in {"a_get", "x_get", "x_got"}
        PROVE  Counts(cid[q])
    <3>1. cid[q] \in Cids /\ box[cid[q]].known
      BY <2>2, ClientPlace DEF ClientSteps, AccessSteps, ExecSteps
    <3> QED
      BY <1>1, <1>5, <3>1
  <2> QED
    BY <2>1, <2>2, CountsHandler DEF BudgetState
<1> QED
  BY <1>5, <1>7, <1>8, CountsBox DEF BudgetState

\* One execution more is admitted, and one more is counted, within the budget.
LEMMA AdmitBudget ==
  ASSUME Inductive, ClientInv, BudgetState, [Next]_vars,
         NEW r \in Reqs, AdmitExecution(r), pc'[r] # "rm_kill"
  PROVE  /\ \A c \in Cids : BoxBudget(c)'
         /\ \A q \in Reqs \ {r} : HandlerBudget(q)'
<1>9. PICK e \in Cids : e = cid[r] /\ box[e].known
  BY ClientPlace DEF AdmitExecution, ClientSteps, ExecSteps
<1> DEFINE n == heap[e][obj[r]].count
<1>0. HandlerType /\ StoreType /\ r \in Actors /\ NoObj \notin ObjIds /\ MaxExecutions \in Nat
      /\ admitted \in [Cids -> Nat]
  BY NumbersAssumption DEF Inductive, TypeOK, CounterType, Actors, NoObj
<1>1. /\ pc[r] = "x_got" /\ e \in Cids /\ box[e].known /\ obj[r] \in ObjIds
      /\ admitted[e] <= n /\ n \in Nat /\ admitted[e] \in Nat
  <2>1. pc[r] = "x_got"
    BY DEF AdmitExecution
  <2>2. obj[r] \in ObjIds
    BY <2>1 DEF Inductive, PlacesInv
  <2>3. admitted[e] <= n
    BY <1>9, <2>1 DEF BudgetState, HandlerBudget
  <2>4. n \in Nat
    BY <1>0, <2>2 DEF StoreType
  <2> QED
    BY <1>0, <1>9, <2>1, <2>2, <2>3, <2>4
<1>2. /\ ~(n >= MaxExecutions)
      /\ SaveSession(e, obj[r], [count |-> n + 1, last |-> now])
      /\ admitted' = [admitted EXCEPT ![e] = @ + 1]
      /\ Goto(r, "x_prep") /\ UNCHANGED docker
  <2>1. ~Goto(r, "rm_kill")
    BY <1>0, GotoOnly
  <2> QED
    BY <1>9, <2>1 DEF AdmitExecution, BudgetSpent
<1>3. /\ sessions'[e] = obj[r] /\ heap'[e][obj[r]] = [count |-> n + 1, last |-> now]
      /\ \A x \in Cids \ {e} : sessions'[x] = sessions[x] /\ heap'[x] = heap[x]
  BY <1>0, <1>1, <1>2, SaveEffect
<1>4. /\ \A x \in Cids \ {e} : admitted'[x] = admitted[x]
      /\ admitted'[e] = admitted[e] + 1
      /\ box' = box
  BY <1>0, <1>1, <1>2 DEF docker
<1>5. \A x \in Cids \ {e} : Counts(x)
  BY <1>3, <1>4 DEF Counts
<1>6. BoxBudget(e)'
  <2>1. heap'[e][sessions'[e]].count = n + 1
    BY <1>3
  <2>2. admitted'[e] <= n + 1 /\ admitted'[e] <= MaxExecutions
    <3> HIDE DEF n
    <3> QED
      BY <1>0, <1>1, <1>2, <1>4
  <2> QED
    BY <1>0, <1>1, <1>3, <1>4, <2>1, <2>2 DEF BoxBudget, Info
<1>7. ASSUME NEW q \in Reqs \ {r}
      PROVE  HandlerBudget(q)'
  <2>1. pc'[q] = pc[q] /\ cid'[q] = cid[q] /\ obj'[q] = obj[q]
    BY <1>0, <1>2, <1>7, GotoOnly DEF Only, Actors
  <2>2. CASE cid[q] # e
    <3>1. pc[q] \in {"a_get", "x_get", "x_got"} => cid[q] \in Cids
      BY ClientPlace DEF ClientSteps, AccessSteps, ExecSteps
    <3> QED
      BY <1>5, <2>1, <2>2, <3>1, CountsHandler DEF BudgetState
  <2>3. CASE cid[q] = e
    <3>1. pc[q] # "x_got"
      BY <1>1, <1>7, <1>9, <2>3 DEF BudgetState, OneAdmits
    <3>2. box[e].status # "gone" => sessions'[e] = sessions[e]
      BY <1>1, <1>3, <1>9 DEF BudgetState, HandlerBudget
    <3> QED
      BY <1>4, <2>1, <2>3, <3>1, <3>2 DEF BudgetState, HandlerBudget
  <2> QED
    BY <2>2, <2>3
<1> QED
  BY <1>5, <1>6, <1>7, CountsBox DEF BudgetState

\* What the cleanup task recovers is nobody's, or of a container that is gone.
LEMMA RecoverBudget ==
  ASSUME Inductive, ClientInv, BudgetState, [Next]_vars, ReaperRecover
  PROVE  /\ \A c \in Cids : BoxBudget(c)'
         /\ \A q \in Reqs : HandlerBudget(q)'
<1>0. HandlerType /\ StoreType /\ NoObj \notin ObjIds /\ MaxExecutions \in Nat
  BY NumbersAssumption DEF Inductive, TypeOK, NoObj
<1>1. UNCHANGED <<box, admitted>>
  BY DEF ReaperRecover, docker
<1>2. ASSUME NEW c \in Cids
      PROVE  /\ BoxBudget(c)'
             /\ \/ Counts(c)
                \/ \A q \in Reqs : cid[q] = c /\ obj[q] \in ObjIds
                                     => heap'[c][obj[q]] = heap[c][obj[q]]
             /\ Counts(c) \/ ~box[c].known \/ box[c].status = "gone"
  <2>1. CASE sessions'[c] = sessions[c] /\ heap'[c] = heap[c]
    <3>1. Counts(c)
      BY <1>1, <2>1 DEF Counts
    <3> QED
      BY <3>1, CountsBox DEF BudgetState
  <2>2. ASSUME NEW k \in ObjIds, sessions[c] = NoObj, NewObj(c, k), sessions'[c] = k,
               heap'[c] = [heap[c] EXCEPT ![k] = Recovered(c)]
        PROVE  /\ BoxBudget(c)'
               /\ \A q \in Reqs : cid[q] = c /\ obj[q] \in ObjIds
                                     => heap'[c][obj[q]] = heap[c][obj[q]]
               /\ ~box[c].known \/ box[c].status = "gone"
    <3>1. ~box[c].known \/ box[c].status = "gone"
      BY <2>2 DEF BudgetState, BoxBudget
    <3>2. heap'[c][k].count = 0
      BY <1>0, <2>2 DEF StoreType, Recovered
    <3>3. BoxBudget(c)'
      BY <1>0, <1>1, <2>2, <3>1, <3>2 DEF BudgetState, BoxBudget, Info
    <3>4. \A q \in Reqs : cid[q] = c => obj[q] # k
      BY <2>2 DEF NewObj, FreeObj
    <3> QED
      BY <1>0, <2>2, <3>1, <3>3, <3>4 DEF StoreType
  <2> QED
    BY <2>1, <2>2, RecoverEffect
<1>3. ASSUME NEW q \in Reqs
      PROVE  HandlerBudget(q)'
  <2>1. pc'[q] = pc[q] /\ cid'[q] = cid[q] /\ obj'[q] = obj[q]
    <3>1. Only(Reaper)
      BY CleanupStepOnly DEF CleanupStep
    <3> QED
      BY <3>1, SetsAssumption DEF Only, Actors
  <2>2. pc[q] \in {"a_get", "x_get", "x_got"} => cid[q] \in Cids /\ box[cid[q]].known
    BY ClientPlace DEF ClientSteps, AccessSteps, ExecSteps
  <2>3. CASE Counts(cid[q])
    BY <2>1, <2>3, CountsHandler DEF BudgetState
  <2>4. CASE pc[q] \in {"a_get", "x_get", "x_got"} /\ ~Counts(cid[q])
    <3>1. box[cid[q]].status = "gone"
      BY <1>2, <2>2, <2>4
    <3>2. pc[q] = "x_got" => heap'[cid[q]][obj[q]] = heap[cid[q]][obj[q]]
      BY <1>2, <2>2, <2>4 DEF Inductive, PlacesInv
    <3> QED
      BY <1>1, <2>1, <3>1, <3>2 DEF BudgetState, HandlerBudget
  <2>5. CASE pc[q] \notin {"a_get", "x_get", "x_got"}
    BY <2>1, <2>5 DEF BudgetState, HandlerBudget
  <2> QED
    BY <2>3, <2>4, <2>5
<1> QED
  BY <1>2, <1>3


LEMMA BudgetKeptByNext ==
  ASSUME Inductive, Inductive', HeldInv, CreatorInv, ClientInv, BudgetInv, [Next]_vars
  PROVE  BudgetInv'
<1> SUFFICES ASSUME restarts' = 0
             PROVE  BudgetState'
  BY DEF BudgetInv
<1>0. HandlerType /\ SetsAssumption
  BY SetsAssumption DEF Inductive, TypeOK
<1>1. restarts = 0 /\ ~Restart
  BY RestartsCount
<1>2. BudgetState
  BY <1>1 DEF BudgetInv
<1>3. OneAdmits'
  BY <1>2, OneAdmitsKept DEF BudgetState
<1>4. \A r \in Reqs : OwnStep(r) => HandlerBudget(r)'
  BY <1>2, ArrivesHandler
<1>5. ASSUME NEW r \in Reqs, FinishCreate(r) \/ (AdmitExecution(r) /\ pc'[r] # "rm_kill")
      PROVE  BudgetState'
  <2>1. OwnStep(r)
    BY <1>5 DEF OwnStep, CreateNext, ExecuteNext
  <2>2. /\ \A c \in Cids : BoxBudget(c)'
        /\ \A q \in Reqs \ {r} : HandlerBudget(q)'
    BY <1>2, <1>5, FinishCreateBudget, AdmitBudget
  <2> QED
    BY <1>3, <1>4, <2>1, <2>2 DEF BudgetState
<1>6. ASSUME NEW r \in Reqs, RecoverSession(r)
      PROVE  FALSE
  BY <1>2, <1>6 DEF RecoverSession, BudgetState, HandlerBudget
<1>7. CASE ReaperRecover
  BY <1>2, <1>3, <1>7, RecoverBudget DEF BudgetState
<1>8. CASE /\ \A r \in Reqs : ~FinishCreate(r) /\ (AdmitExecution(r) => pc'[r] = "rm_kill")
           /\ ~ReaperRecover
  <2>1. \A c \in Cids : Counts(c)
    BY <1>1, <1>6, <1>8, NextCounts
  <2>2. \A c \in Cids : BoxBudget(c)'
    BY <1>2, <2>1, CountsBox DEF BudgetState
  <2>3. ASSUME NEW r \in Reqs, ~OwnStep(r)
        PROVE  HandlerBudget(r)'
    <3>1. CASE pc'[r] \in {"a_get", "a_got", "x_get", "x_got"}
      <4>1. ~RemovalStep(r)
        BY <3>1, RemovalArrives DEF RemovalSteps, Outcomes
      <4>2. pc'[r] = pc[r] /\ cid'[r] = cid[r]
        BY <2>3, <3>1, <4>1, NotMoved DEF Outcomes
      <4>3. obj'[r] = obj[r]
        BY <1>1, <2>3, <4>1, ObjStays
      <4>4. pc[r] \in {"a_get", "x_get", "x_got"} => cid[r] \in Cids
        BY ClientPlace DEF ClientSteps, AccessSteps, ExecSteps
      <4> QED
        BY <1>2, <2>1, <4>2, <4>3, <4>4, CountsHandler DEF BudgetState
    <3>2. CASE pc'[r] \notin {"a_get", "a_got", "x_get", "x_got"}
      BY <3>2 DEF HandlerBudget
    <3> QED
      BY <3>1, <3>2
  <2> QED
    BY <1>3, <1>4, <2>2, <2>3 DEF BudgetState
<1> QED
  BY <1>5, <1>7, <1>8

\* A container admits at most MAX_EXECUTIONS_PER_SESSION executions, whatever deletions,
\* timeouts, recoveries and docker failures do to its session record meanwhile, as long
\* as the process that counts them lives and its startup found the running containers.
THEOREM BudgetIsKept ==
  ASSUME ~StartupListFails
  PROVE  Spec => [](restarts = 0 => BudgetKept)
<1>1. Init => HeldInv /\ CreatorInv /\ ClientInv /\ BudgetInv
  <2>1. SUFFICES ASSUME Init
                 PROVE  HeldInv /\ CreatorInv /\ ClientInv /\ BudgetState
    BY DEF BudgetInv
  <2>2. \A r \in Reqs : pc[r] = "idle"
    BY <2>1, SetsAssumption DEF Init, Actors
  <2>3. HeldInv /\ CreatorInv /\ ClientInv
    BY <2>2 DEF HeldInv, CreatorInv, ClientInv, ClientSteps, AccessSteps, ExecSteps
  <2>4. (\A r \in Reqs : HandlerBudget(r)) /\ OneAdmits
    BY <2>2 DEF HandlerBudget, OneAdmits
  <2>5. ASSUME NEW c \in Cids
        PROVE  BoxBudget(c)
    <3>1. PICK recovers \in {TRUE, ~StartupListFails}, k \in ObjIds :
            sessions = [d \in Cids |-> IF recovers /\ d \in Inherited THEN k ELSE NoObj]
      BY <2>1 DEF Init
    <3>2. recovers = TRUE /\ k # NoObj
      BY NumbersAssumption DEF NoObj
    <3>3. box[c].known => sessions[c] # NoObj
      BY <2>1, <3>1, <3>2 DEF Init
    <3>4. sessions[c] # NoObj => Info(c).count = 0
      BY <2>1, <3>1 DEF Init, Info, EmptySession
    <3>5. admitted[c] = 0 /\ MaxExecutions \in Nat
      BY <2>1, NumbersAssumption DEF Init
    <3> QED
      BY <3>3, <3>4, <3>5 DEF BoxBudget
  <2> QED
    BY <2>3, <2>4, <2>5 DEF BudgetState
<1>2. Inductive /\ HeldInv /\ CreatorInv /\ ClientInv /\ BudgetInv /\ [Next]_vars
        => (HeldInv /\ CreatorInv /\ ClientInv /\ BudgetInv)'
  BY NextKeeps, HeldKept, CreatorKept, ClientKept, BudgetKeptByNext
<1>3. BudgetInv => (restarts = 0 => BudgetKept)
  BY DEF BudgetInv, BudgetState, BoxBudget, BudgetKept
<1> QED
  BY <1>1, <1>2, <1>3, InductiveInvariant, PTL DEF Spec
===============================================================================
