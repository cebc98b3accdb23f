------------------------- MODULE RenderJobs_proofs -------------------------
(***************************************************************************)
(* Proofs about RenderJobs: for every number of requests, slots, worker    *)
(* threads, failures and every choice of the timeouts, the slots and the   *)
(* metrics add up, a request that is answered leaves no container behind,  *)
(* and the cleanup task takes none from a request at work.                 *)
(***************************************************************************)
EXTENDS RenderJobs, FiniteSetTheorems, TLAPS

\* Before docker run the request has no container, and nobody has heard of one.
Early == {"new", "queue", "limits", "guard", "run"}

Placed(j) ==
  /\ pc[j] \in Early => box[j] = "none" /\ j \notin session /\ j \notin cleaner.todo
  /\ pc[j] \in AtWork \ {"save"} /\ Up(j) => j \in session

\* The age of a session is what its request has spent in docker run and since.
Aged(j) ==
  /\ pc[j] = "run" => age[j] <= t[j] /\ t[j] <= RunTime
  /\ pc[j] \in {"save", "get"} => age[j] <= RunTime
  /\ pc[j] = "provision" => age[j] <= RunTime + t[j] /\ t[j] <= ProvisionTime
  /\ pc[j] = "exec" => age[j] <= RunTime + ProvisionTime + t[j] /\ t[j] <= RenderTime
  /\ pc[j] = "read" => /\ age[j] <= RunTime + ProvisionTime + RenderTime + t[j]
                       /\ t[j] <= ReadTime

\* A session that the cleanup task found idle is not that of a request at work.
Listed(j) == cleaner.pc = "idle" /\ j \in cleaner.todo => pc[j] \notin AtWork

\* AnsweredRemoved, of one request
Cleared(j) == pc[j] = "done" /\ Exists(j) => j \in refused

JobInv(j) == Placed(j) /\ Aged(j) /\ Listed(j) /\ Cleared(j)

Inductive == RenderType /\ SlotsKept /\ MetricsBalance /\ \A j \in Jobs : JobInv(j)

-----------------------------------------------------------------------------
(***************************************************************************)
(* Slots and metrics                                                       *)
(***************************************************************************)
\* A set of requests that one joins or leaves changes its size by one.
LEMMA OneMore ==
  ASSUME NEW S \in SUBSET Jobs, NEW j \in Jobs
  PROVE  /\ Cardinality(S) \in Nat
         /\ j \notin S => Cardinality(S \cup {j}) = Cardinality(S) + 1
         /\ j \in S => Cardinality(S \ {j}) = Cardinality(S) - 1
<1>1. IsFiniteSet(S)
  BY RenderAssumption, FS_Subset
<1> QED
  BY <1>1, FS_CardinalityType, FS_AddElement, FS_RemoveElement

\* A request that is neither new nor over before or after keeps its slot.
LEMMA MovesInside ==
  ASSUME RenderType, NEW j \in Jobs, NEW p \in Places, Goto(j, p),
         pc[j] \notin {"new", "queue", "done"}, p \notin {"new", "queue", "done"}
  PROVE  Holders' = Holders /\ Open' = Open
<1>1. pc' = [pc EXCEPT ![j] = p] /\ pc \in [Jobs -> Places]
  BY DEF Goto, RenderType
<1>2. \A i \in Jobs : i # j => pc'[i] = pc[i]
  BY <1>1
<1>3. pc'[j] = p
  BY <1>1
<1> QED
  BY <1>2, <1>3 DEF Holders, Open

\* An answer gives back the slot, if there is one, and counts one verdict.
LEMMA AnswerKeeps ==
  ASSUME RenderType, SlotsKept, MetricsBalance, NEW j \in Jobs, NEW c \in Codes,
         Answer(j, c), pc[j] \notin {"new", "done"}
  PROVE  /\ SlotsKept' /\ MetricsBalance'
         /\ slots' \in Nat
         /\ metrics' \in [total : Nat, active : Nat, successful : Nat, failed : Nat,
                          timed_out : Nat]
<1>1. pc' = [pc EXCEPT ![j] = "done"] /\ pc \in [Jobs -> Places]
  BY DEF Answer, Goto, RenderType
<1>2. Open' = Open \ {j} /\ j \in Open
  BY <1>1 DEF Open
<1>3. Holders' = Holders \ {j}
  BY <1>1 DEF Holders
<1>4. Open \in SUBSET Jobs /\ Holders \in SUBSET Jobs
  BY DEF Open, Holders
<1>5. slots' \in Nat /\ SlotsKept'
  <2>1. CASE j \in Holders
    BY <1>3, <1>4, <2>1, OneMore DEF Answer, Slot, SlotsKept, RenderType
  <2>2. CASE j \notin Holders
    <3>1. Holders' = Holders
      BY <1>3, <2>2
    <3> QED
      BY <3>1, <2>2 DEF Answer, Slot, SlotsKept, RenderType
  <2> QED
    BY <2>1, <2>2
<1>6. /\ metrics' \in [total : Nat, active : Nat, successful : Nat, failed : Nat,
                       timed_out : Nat]
      /\ MetricsBalance'
  <2>1. Cardinality(Open') = Cardinality(Open) - 1 /\ Cardinality(Open') \in Nat
    BY <1>2, <1>4, OneMore
  <2>2. metrics.active = Cardinality(Open)
    BY DEF MetricsBalance
  <2>3. metrics \in [total : Nat, active : Nat, successful : Nat, failed : Nat, timed_out : Nat]
    BY DEF RenderType
  <2>4. metrics.active - 1 \in Nat
    BY <2>1, <2>2, <2>3
  <2>5. \/ metrics' = [[metrics EXCEPT !.successful = @ + 1] EXCEPT !.active = @ - 1]
        \/ metrics' = [[metrics EXCEPT !.failed = @ + 1] EXCEPT !.active = @ - 1]
        \/ metrics' = [[metrics EXCEPT !.timed_out = @ + 1] EXCEPT !.active = @ - 1]
    <3>1. Verdict(c) = "successful" \/ Verdict(c) = "failed" \/ Verdict(c) = "timed_out"
      BY DEF Verdict
    <3> QED
      BY <3>1 DEF Answer, Tally, Count
  <2>6. /\ metrics' \in [total : Nat, active : Nat, successful : Nat, failed : Nat,
                          timed_out : Nat]
        /\ metrics'.active = metrics.active - 1
        /\ metrics'.total = metrics.total
        /\ metrics'.successful + metrics'.failed + metrics'.timed_out
             = metrics.successful + metrics.failed + metrics.timed_out + 1
    <3>1. CASE metrics' = [[metrics EXCEPT !.successful = @ + 1] EXCEPT !.active = @ - 1]
      <4>1. metrics' = [total |-> metrics.total, active |-> metrics.active - 1,
                        successful |-> metrics.successful + 1, failed |-> metrics.failed,
                        timed_out |-> metrics.timed_out]
        BY <2>3, <3>1
      <4> QED
        BY <2>3, <2>4, <4>1
    <3>2. CASE metrics' = [[metrics EXCEPT !.failed = @ + 1] EXCEPT !.active = @ - 1]
      <4>1. metrics' = [total |-> metrics.total, active |-> metrics.active - 1,
                        successful |-> metrics.successful, failed |-> metrics.failed + 1,
                        timed_out |-> metrics.timed_out]
        BY <2>3, <3>2
      <4> QED
        BY <2>3, <2>4, <4>1
    <3>3. CASE metrics' = [[metrics EXCEPT !.timed_out = @ + 1] EXCEPT !.active = @ - 1]
      <4>1. metrics' = [total |-> metrics.total, active |-> metrics.active - 1,
                        successful |-> metrics.successful, failed |-> metrics.failed,
                        timed_out |-> metrics.timed_out + 1]
        BY <2>3, <3>3
      <4> QED
        BY <2>3, <2>4, <4>1
    <3> QED
      BY <2>5, <3>1, <3>2, <3>3
  <2>7. metrics'.active = Cardinality(Open')
    BY <2>1, <2>2, <2>6
  <2>8. metrics'.total = metrics'.active + metrics'.successful + metrics'.failed
                         + metrics'.timed_out
    BY <2>3, <2>6 DEF MetricsBalance
  <2> QED
    BY <2>6, <2>7, <2>8 DEF MetricsBalance
<1> QED
  BY <1>5, <1>6

-----------------------------------------------------------------------------
(***************************************************************************)
(* What requests do                                                        *)
(***************************************************************************)
\* Nothing is different for the other requests.
OthersKept(j) ==
  /\ cleaner' = cleaner
  /\ \A i \in Jobs \ {j} :
       /\ pc'[i] = pc[i] /\ t'[i] = t[i] /\ age'[i] = age[i] /\ box'[i] = box[i]
       /\ (i \in session') = (i \in session)
       /\ i \in refused => i \in refused'

\* The cleanup task has taken no container from a request at work.
NothingCut ==
  \A j \in Jobs : pc[j] \in AtWork /\ Up(j) /\ box'[j] # "up" => required /\ pc[j] = "save"

\* A request's step that keeps its own part of the invariant keeps that of the others.
LEMMA OthersInv ==
  ASSUME Inductive, NEW j \in Jobs, OthersKept(j), NEW i \in Jobs \ {j}
  PROVE  JobInv(i)'
BY DEF Inductive, JobInv, OthersKept, Placed, Aged, Listed, Cleared, Exists, Up, Early, AtWork

\* A step inside keeps slots and metrics.
LEMMA InsideKeeps ==
  ASSUME Inductive, NEW j \in Jobs, NEW p \in Places, Goto(j, p),
         pc[j] \notin {"new", "queue", "done"}, p \notin {"new", "queue", "done"},
         UNCHANGED <<slots, metrics>>
  PROVE  SlotsKept' /\ MetricsBalance'
BY MovesInside DEF Inductive, SlotsKept, MetricsBalance

LEMMA ArriveKeeps ==
  ASSUME Inductive, NEW j \in Jobs, Arrive(j)
  PROVE  Inductive' /\ NothingCut
<1>1. OthersKept(j)
  BY DEF Inductive, RenderType, Arrive, Goto, OthersKept
<1>2. JobInv(j)'
  BY DEF Inductive, RenderType, Arrive, Goto, JobInv, Placed, Aged, Listed, Cleared, Early,
         AtWork, Exists, Up
<1>3. NothingCut
  BY DEF Arrive, NothingCut, Up
<1>4. RenderType /\ pc' = [pc EXCEPT ![j] = "queue"] /\ pc[j] = "new"
  BY DEF Inductive, Arrive, Goto
<1>5. Open' = Open \cup {j} /\ j \notin Open /\ Holders' = Holders
  BY <1>4 DEF RenderType, Open, Holders
<1>6. Cardinality(Open') = Cardinality(Open) + 1 /\ Cardinality(Open) \in Nat
  BY <1>5, OneMore DEF Open
<1>7. SlotsKept'
  BY <1>5 DEF Inductive, Arrive, SlotsKept
<1>8. /\ metrics' = [total |-> metrics.total + 1, active |-> metrics.active + 1,
                     successful |-> metrics.successful, failed |-> metrics.failed,
                     timed_out |-> metrics.timed_out]
      /\ metrics \in [total : Nat, active : Nat, successful : Nat, failed : Nat,
                       timed_out : Nat]
  BY DEF Inductive, RenderType, Arrive, Count
<1>9. MetricsBalance'
  BY <1>6, <1>8 DEF Inductive, MetricsBalance
<1>10. metrics' \in [total : Nat, active : Nat, successful : Nat, failed : Nat,
                     timed_out : Nat]
  BY <1>8
<1>11. RenderType'
  BY <1>10 DEF Inductive, RenderType, Arrive, Goto, Places
<1> QED
  BY <1>1, <1>2, <1>3, <1>7, <1>9, <1>11, OthersInv DEF Inductive

LEMMA AcquireSlotKeeps ==
  ASSUME Inductive, NEW j \in Jobs, AcquireSlot(j)
  PROVE  Inductive' /\ NothingCut
<1>1. OthersKept(j)
  BY DEF Inductive, RenderType, AcquireSlot, Goto, OthersKept
<1>2. JobInv(j)'
  BY DEF Inductive, RenderType, AcquireSlot, Goto, JobInv, Placed, Aged, Listed, Cleared,
         Early, AtWork, Exists, Up
<1>3. NothingCut
  BY DEF AcquireSlot, NothingCut, Up
<1>4. pc \in [Jobs -> Places] /\ pc' = [pc EXCEPT ![j] = "limits"] /\ pc[j] = "queue"
  BY DEF Inductive, RenderType, AcquireSlot, Goto
<1>5. Open' = Open /\ Holders' = Holders \cup {j} /\ j \notin Holders
  BY <1>4 DEF Open, Holders
<1>6. Cardinality(Holders') = Cardinality(Holders) + 1 /\ Cardinality(Holders) \in Nat
  BY <1>5, OneMore DEF Holders
<1>7. SlotsKept' /\ MetricsBalance'
  BY <1>5, <1>6, RenderAssumption
  DEF Inductive, RenderType, AcquireSlot, SlotsKept, MetricsBalance
<1>8. RenderType'
  BY DEF Inductive, RenderType, AcquireSlot, Goto, Places
<1> QED
  BY <1>1, <1>2, <1>3, <1>7, <1>8, OthersInv DEF Inductive

\* What an answer needs: nothing of docker's is left that docker was not asked to remove.
LEMMA AnswerInv ==
  ASSUME Inductive, NEW j \in Jobs, NEW c \in Codes, Answer(j, c),
         pc[j] \notin {"new", "done"}, OthersKept(j),
         box' \in [Jobs -> {"none", "up", "dead", "gone"}],
         age' = age, thread' = thread, required' = required,
         session' \subseteq Jobs, refused' \subseteq Jobs,
         guard' \in Jobs \cup {None}, faults' \in 0..MaxFaults,
         Exists(j)' => j \in refused',
         pc[j] \in AtWork => box' = box
  PROVE  Inductive' /\ NothingCut
<1>1. RenderType'
  <2>1. slots' \in Nat /\ metrics' \in [total : Nat, active : Nat, successful : Nat,
                                        failed : Nat, timed_out : Nat]
    BY AnswerKeeps DEF Inductive
  <2>2. pc' \in [Jobs -> Places] /\ t' \in [Jobs -> Nat] /\ code' \in [Jobs -> Codes]
    BY DEF Inductive, RenderType, Answer, Goto, Places, Codes
  <2> QED
    BY <2>1, <2>2 DEF Inductive, RenderType, OthersKept
<1>2. SlotsKept' /\ MetricsBalance'
  BY AnswerKeeps DEF Inductive
<1>3. JobInv(j)'
  BY DEF Inductive, RenderType, Answer, Goto, JobInv, Placed, Aged, Listed, Cleared,
         Early, AtWork
<1>4. NothingCut
  BY DEF NothingCut, Up, OthersKept
<1> QED
  BY <1>1, <1>2, <1>3, <1>4, OthersInv DEF Inductive

\* An answer without a change of docker or of the store.
LEMMA RefusalInv ==
  ASSUME Inductive, NEW j \in Jobs, NEW c \in Codes, Answer(j, c),
         pc[j] \in {"queue", "limits", "guard"},
         UNCHANGED <<guard, box, age, session, thread, cleaner, faults, refused, required>>
  PROVE  Inductive' /\ NothingCut
<1>1. OthersKept(j)
  BY DEF Inductive, RenderType, Answer, Goto, OthersKept
<1>2. ~Exists(j)'
  BY DEF Inductive, JobInv, Placed, Early, Exists
<1> QED
  BY <1>1, <1>2, AnswerInv DEF Inductive, RenderType

\* What a step inside needs: the request's own part of the invariant.
LEMMA InsideInv ==
  ASSUME Inductive, NEW j \in Jobs, NEW p \in Places, Goto(j, p),
         pc[j] \notin {"new", "queue", "done"}, p \notin {"new", "queue", "done"},
         UNCHANGED <<slots, metrics, required>>, OthersKept(j),
         box' \in [Jobs -> {"none", "up", "dead", "gone"}], age' \in [Jobs -> Nat],
         code' \in [Jobs -> Codes], guard' \in Jobs \cup {None}, faults' \in 0..MaxFaults,
         session' \subseteq Jobs, thread' \subseteq Jobs, refused' \subseteq Jobs,
         pc[j] \in AtWork => box' = box,
         JobInv(j)'
  PROVE  Inductive' /\ NothingCut
<1>1. RenderType'
  BY DEF Inductive, RenderType, Goto, OthersKept
<1>2. NothingCut
  BY DEF NothingCut, Up, OthersKept
<1> QED
  BY <1>1, <1>2, InsideKeeps, OthersInv DEF Inductive

\* A step inside that changes neither docker nor the store.
LEMMA MoveInv ==
  ASSUME Inductive, NEW j \in Jobs, NEW p \in Places, Goto(j, p),
         pc[j] \notin {"new", "queue", "done"}, p \notin {"new", "queue", "done"},
         UNCHANGED <<slots, metrics, required, box, age, session, refused, cleaner>>,
         code' \in [Jobs -> Codes], guard' \in Jobs \cup {None}, faults' \in 0..MaxFaults,
         thread' \subseteq Jobs, JobInv(j)'
  PROVE  Inductive' /\ NothingCut
<1>1. OthersKept(j)
  BY DEF Inductive, RenderType, Goto, OthersKept
<1> QED
  BY <1>1, InsideInv DEF Inductive, RenderType

\* From wherever it is at work a request can go on to the finally clause.
LEMMA FinallyInv ==
  ASSUME Inductive, NEW j \in Jobs, NEW c \in Codes, Finally(j, c),
         pc[j] \in AtWork,
         UNCHANGED <<slots, metrics, required, box, age, session, refused, cleaner, guard>>,
         faults' \in 0..MaxFaults, thread' \subseteq Jobs
  PROVE  Inductive' /\ NothingCut
<1>1. JobInv(j)'
  BY DEF Inductive, RenderType, Finally, Goto, JobInv, Placed, Aged, Listed, Cleared,
         Early, AtWork
<1> QED
  BY <1>1, MoveInv DEF Inductive, RenderType, Finally, Places, AtWork

LEMMA FaultType ==
  ASSUME RenderType, Fine \/ Fault
  PROVE  faults' \in 0..MaxFaults
BY RenderAssumption DEF RenderType, Fine, Fault

-----------------------------------------------------------------------------
(***************************************************************************)
(* The actions of a request                                                *)
(***************************************************************************)
LEMMA RefusalsKeep ==
  ASSUME Inductive, NEW j \in Jobs, QueueTimeout(j) \/ GuardTimeout(j)
  PROVE  Inductive' /\ NothingCut
<1>1. CASE QueueTimeout(j)
  BY <1>1, RefusalInv DEF QueueTimeout, Codes
<1>2. CASE GuardTimeout(j)
  BY <1>2, RefusalInv DEF GuardTimeout, Codes
<1> QED
  BY <1>1, <1>2

LEMMA CheckLimitsKeeps ==
  ASSUME Inductive, NEW j \in Jobs, CheckLimits(j)
  PROVE  Inductive' /\ NothingCut
<1>1. CASE Goto(j, "guard") /\ UNCHANGED <<code, slots, metrics>>
  <2>1. JobInv(j)'
    BY <1>1 DEF Inductive, RenderType, CheckLimits, Goto, JobInv, Placed, Aged, Listed,
                Cleared, Early, AtWork
  <2> QED
    BY <1>1, <2>1, MoveInv DEF Inductive, RenderType, CheckLimits, Places
<1>2. CASE \E c \in {429, 400} : Answer(j, c)
  BY <1>2, RefusalInv DEF CheckLimits, Codes
<1> QED
  BY <1>1, <1>2 DEF CheckLimits

LEMMA EnterGuardKeeps ==
  ASSUME Inductive, NEW j \in Jobs, EnterGuard(j)
  PROVE  Inductive' /\ NothingCut
<1>1. CASE Goto(j, "run") /\ guard' = j /\ age' = [age EXCEPT ![j] = 0]
           /\ UNCHANGED <<code, slots, metrics>>
  <2>1. JobInv(j)'
    BY <1>1, RenderAssumption
    DEF Inductive, RenderType, EnterGuard, Goto, JobInv, Placed, Aged, Listed, Cleared,
        Early, AtWork
  <2>2. OthersKept(j)
    BY <1>1 DEF Inductive, RenderType, EnterGuard, Goto, OthersKept
  <2> QED
    BY <1>1, <2>1, <2>2, InsideInv DEF Inductive, RenderType, EnterGuard, Places, AtWork
<1>2. CASE Answer(j, 429) /\ UNCHANGED <<guard, age>>
  BY <1>2, RefusalInv DEF EnterGuard, Codes
<1> QED
  BY <1>1, <1>2 DEF EnterGuard

LEMMA RunContainerKeeps ==
  ASSUME Inductive, NEW j \in Jobs, RunContainer(j)
  PROVE  Inductive' /\ NothingCut
<1>1. faults' \in 0..MaxFaults
  BY FaultType DEF Inductive, RunContainer
<1>2. CASE /\ box' = [box EXCEPT ![j] = "up"]
           /\ Goto(j, "save")
           /\ UNCHANGED <<code, slots, guard, metrics, refused>>
  <2>1. JobInv(j)'
    BY <1>2, RenderAssumption
    DEF Inductive, RenderType, RunContainer, Goto, JobInv, Placed, Aged, Listed, Cleared,
        Early, AtWork
  <2>2. OthersKept(j)
    BY <1>2 DEF Inductive, RenderType, RunContainer, Goto, OthersKept
  <2> QED
    BY <1>1, <1>2, <2>1, <2>2, InsideInv
    DEF Inductive, RenderType, RunContainer, Places, AtWork
<1>3. CASE /\ \E s \in {"none", "dead", "up"} :
                /\ box' = [box EXCEPT ![j] = s]
                /\ refused' = refused \cup (IF s = "none" THEN {} ELSE {j})
           /\ guard' = None
           /\ Answer(j, 500)
  <2>1. OthersKept(j)
    BY <1>3 DEF Inductive, RenderType, RunContainer, Answer, Goto, OthersKept
  <2>2. Exists(j)' => j \in refused'
    BY <1>3 DEF Inductive, RenderType, Exists
  <2>3. box' \in [Jobs -> {"none", "up", "dead", "gone"}] /\ refused' \subseteq Jobs
    BY <1>3 DEF Inductive, RenderType
  <2> QED
    BY <1>1, <1>3, <2>1, <2>2, <2>3, AnswerInv
    DEF Inductive, RenderType, RunContainer, Codes, AtWork
<1> QED
  BY <1>2, <1>3 DEF RunContainer

LEMMA SaveSessionKeeps ==
  ASSUME Inductive, NEW j \in Jobs, SaveSession(j)
  PROVE  Inductive' /\ NothingCut
<1>1. JobInv(j)'
  BY DEF Inductive, RenderType, SaveSession, Goto, JobInv, Placed, Aged, Listed, Cleared,
         Early, AtWork
<1>2. OthersKept(j)
  BY DEF Inductive, RenderType, SaveSession, Goto, OthersKept
<1> QED
  BY <1>1, <1>2, InsideInv DEF Inductive, RenderType, SaveSession, Places

LEMMA GetContainerKeeps ==
  ASSUME Inductive, NEW j \in Jobs, GetContainer(j)
  PROVE  Inductive' /\ NothingCut
<1>1. faults' \in 0..MaxFaults
  BY FaultType DEF Inductive, GetContainer
<1>2. CASE Goto(j, "provision") /\ UNCHANGED code
  <2>1. JobInv(j)'
    BY <1>2, RenderAssumption
    DEF Inductive, RenderType, GetContainer, Goto, JobInv, Placed, Aged, Listed, Cleared,
        Early, AtWork, Up
  <2> QED
    BY <1>1, <1>2, <2>1, MoveInv DEF Inductive, RenderType, GetContainer, Places
<1>3. CASE Finally(j, 500)
  BY <1>1, <1>3, FinallyInv DEF Inductive, RenderType, GetContainer, AtWork, Codes
<1> QED
  BY <1>2, <1>3 DEF GetContainer

\* A thread more or less makes no difference to anything else.
LEMMA ThreadInv ==
  ASSUME Inductive, thread' \subseteq Jobs, faults' \in 0..MaxFaults,
         UNCHANGED <<request, slots, guard, box, age, session, metrics, cleaner, refused,
                     required>>
  PROVE  Inductive' /\ NothingCut
<1>1. RenderType' /\ SlotsKept' /\ MetricsBalance'
  BY DEF Inductive, RenderType, request, SlotsKept, MetricsBalance, Holders, Open
<1>2. \A j \in Jobs : JobInv(j)'
  BY DEF Inductive, request, JobInv, Placed, Aged, Listed, Cleared, Up, Exists
<1>3. NothingCut
  BY DEF NothingCut, Up
<1> QED
  BY <1>1, <1>2, <1>3 DEF Inductive

LEMMA ExecsKeep ==
  ASSUME Inductive, NEW j \in Jobs,
         \/ StartProvision(j) \/ EndProvision(j) \/ ProvisionTimeout(j)
         \/ StartRenderer(j) \/ EndRenderer(j) \/ RenderTimeout(j)
         \/ ReadArchive(j) \/ ThreadEnds(j)
  PROVE  Inductive' /\ NothingCut
<1>1. faults' \in 0..MaxFaults
  BY FaultType DEF Inductive, RenderType, StartProvision, EndProvision, ProvisionTimeout,
     StartRenderer, EndRenderer, RenderTimeout, ReadArchive, ThreadEnds, Fine
<1>2. thread' \subseteq Jobs
  BY DEF Inductive, RenderType, StartProvision, EndProvision, ProvisionTimeout,
     StartRenderer, EndRenderer, RenderTimeout, ReadArchive, ThreadEnds
<1>3. CASE StartProvision(j)
  <2>1. CASE UNCHANGED request
    BY <1>1, <1>2, <1>3, <2>1, ThreadInv DEF StartProvision
  <2>2. CASE Finally(j, 500)
    BY <1>1, <1>2, <1>3, <2>2, FinallyInv DEF StartProvision, AtWork, Codes
  <2> QED
    BY <1>3, <2>1, <2>2 DEF StartProvision
<1>4. CASE EndProvision(j)
  <2>1. CASE Goto(j, "exec") /\ UNCHANGED code
    <3>1. JobInv(j)'
      BY <1>4, <2>1, RenderAssumption
      DEF Inductive, RenderType, EndProvision, Goto, JobInv, Placed, Aged, Listed, Cleared,
          Early, AtWork, Up
    <3> QED
      BY <1>1, <1>2, <1>4, <2>1, <3>1, MoveInv
      DEF Inductive, RenderType, EndProvision, Places
  <2>2. CASE Finally(j, 500)
    BY <1>1, <1>2, <1>4, <2>2, FinallyInv DEF EndProvision, AtWork, Codes
  <2> QED
    BY <1>4, <2>1, <2>2 DEF EndProvision
<1>5. CASE ProvisionTimeout(j)
  BY <1>1, <1>2, <1>5, FinallyInv DEF ProvisionTimeout, AtWork, Codes
<1>6. CASE StartRenderer(j)
  <2>1. CASE UNCHANGED request
    BY <1>1, <1>2, <1>6, <2>1, ThreadInv DEF StartRenderer
  <2>2. CASE Finally(j, 500)
    BY <1>1, <1>2, <1>6, <2>2, FinallyInv DEF StartRenderer, AtWork, Codes
  <2> QED
    BY <1>6, <2>1, <2>2 DEF StartRenderer
<1>7. CASE EndRenderer(j)
  <2>1. CASE Goto(j, "read") /\ UNCHANGED code
    <3>1. JobInv(j)'
      BY <1>7, <2>1, RenderAssumption
      DEF Inductive, RenderType, EndRenderer, Goto, JobInv, Placed, Aged, Listed, Cleared,
          Early, AtWork, Up
    <3> QED
      BY <1>1, <1>2, <1>7, <2>1, <3>1, MoveInv
      DEF Inductive, RenderType, EndRenderer, Places
  <2>2. CASE \E c \in {400, 422, 500} : Finally(j, c)
    BY <1>1, <1>2, <1>7, <2>2, FinallyInv DEF EndRenderer, AtWork, Codes
  <2> QED
    BY <1>7, <2>1, <2>2 DEF EndRenderer
<1>8. CASE RenderTimeout(j)
  <2>1. JobInv(j)'
    BY <1>8 DEF Inductive, RenderType, RenderTimeout, Goto, JobInv, Placed, Aged, Listed,
                Cleared, Early, AtWork
  <2> QED
    BY <1>1, <1>2, <1>8, <2>1, MoveInv DEF Inductive, RenderType, RenderTimeout, Places
<1>9. CASE ReadArchive(j)
  BY <1>1, <1>2, <1>9, FinallyInv DEF ReadArchive, AtWork, Codes
<1>10. CASE ThreadEnds(j)
  BY <1>1, <1>2, <1>10, ThreadInv DEF ThreadEnds
<1> QED
  BY <1>3, <1>4, <1>5, <1>6, <1>7, <1>8, <1>9, <1>10

-----------------------------------------------------------------------------
(***************************************************************************)
(* Removals, the cleanup task and time                                     *)
(***************************************************************************)
Removal(j) == Removed(j) \/ Refused(j) \/ Raised(j)

\* Whatever docker makes of a removal, a container that is still there was not given up.
LEMMA RemovalFacts ==
  ASSUME RenderType, NEW j \in Jobs, Removal(j)
  PROVE  /\ box' \in [Jobs -> {"none", "up", "dead", "gone"}]
         /\ session' \subseteq Jobs /\ refused' \subseteq Jobs
         /\ refused \subseteq refused'
         /\ faults' \in 0..MaxFaults
         /\ Exists(j)' => j \in refused'
         /\ Up(j)' => Up(j) /\ session' = session
         /\ \A i \in Jobs \ {j} : /\ box'[i] = box[i]
                                  /\ (i \in session') = (i \in session)
         /\ session' \subseteq session
<1>1. faults' \in 0..MaxFaults
  BY FaultType DEF Removal, Removed, Refused, Raised
<1>2. CASE Removed(j)
  BY <1>1, <1>2 DEF RenderType, Removed, Exists, Up
<1>3. CASE Refused(j)
  BY <1>1, <1>3 DEF RenderType, Refused, Exists, Up
<1>4. CASE Raised(j)
  BY <1>1, <1>4 DEF RenderType, Raised, Exists, Up
<1> QED
  BY <1>2, <1>3, <1>4 DEF Removal

LEMMA TeardownKeeps ==
  ASSUME Inductive, NEW j \in Jobs, Teardown(j)
  PROVE  Inductive' /\ NothingCut
<1>1. PICK c \in Codes : Finally(j, c) /\ Removal(j)
  BY DEF Teardown, Removal, Codes
<1>2. OthersKept(j)
  BY <1>1, RemovalFacts DEF Inductive, RenderType, Teardown, Finally, Goto, OthersKept
<1>3. JobInv(j)'
  BY <1>1 DEF Inductive, RenderType, Teardown, Finally, Goto, JobInv, Placed, Aged, Listed,
              Cleared, Early, AtWork
<1> QED
  BY <1>1, <1>2, <1>3, RemovalFacts, InsideInv
  DEF Inductive, RenderType, Teardown, Finally, Places, AtWork

LEMMA FinishKeeps ==
  ASSUME Inductive, NEW j \in Jobs, Finish(j)
  PROVE  Inductive' /\ NothingCut
<1>1. PICK c : Answer(j, c) /\ c \in {code[j], 500} /\ Removal(j)
  BY DEF Finish, FinallyRemoves, Removal
<1>2. OthersKept(j)
  BY <1>1, RemovalFacts DEF Inductive, RenderType, Finish, Answer, Goto, OthersKept
<1> QED
  BY <1>1, <1>2, RemovalFacts, AnswerInv
  DEF Inductive, RenderType, Finish, Codes, AtWork

\* The cleanup task removes what it may remove.
LEMMA SweepInv ==
  ASSUME Inductive, NEW j \in Jobs, Removal(j), j \in cleaner.todo,
         pc[j] \notin AtWork \/ (required /\ j \notin session),
         cleaner' = Asleep \/ cleaner' = [cleaner EXCEPT !.todo = @ \ {j}],
         UNCHANGED <<request, slots, guard, age, thread, metrics, required>>
  PROVE  Inductive' /\ NothingCut
<1>1. /\ cleaner' \in [pc : {"sleep", "idle", "recover"}, snap : SUBSET Jobs, todo : SUBSET Jobs]
      /\ cleaner'.todo \subseteq cleaner.todo
      /\ cleaner'.pc = "idle" => cleaner.pc = "idle"
  BY DEF Inductive, RenderType, Asleep
<1>2. RenderType'
  BY <1>1, RemovalFacts DEF Inductive, RenderType, request
<1>3. SlotsKept' /\ MetricsBalance'
  BY DEF Inductive, request, SlotsKept, MetricsBalance, Holders, Open
<1>4. pc[j] \notin Early
  BY DEF Inductive, JobInv, Placed
<1>5. ASSUME NEW i \in Jobs PROVE JobInv(i)'
  <2>1. Placed(i)'
    BY <1>1, <1>4, RemovalFacts DEF Inductive, JobInv, Placed, Up, request
  <2>2. Aged(i)'
    BY DEF Inductive, JobInv, Aged, request
  <2>3. Listed(i)'
    BY <1>1 DEF Inductive, JobInv, Listed, request
  <2>4. Cleared(i)'
    BY RemovalFacts DEF Inductive, JobInv, Cleared, Exists, request
  <2> QED
    BY <2>1, <2>2, <2>3, <2>4 DEF JobInv
<1>6. NothingCut
  BY RemovalFacts DEF Inductive, JobInv, Placed, NothingCut, Up
<1> QED
  BY <1>2, <1>3, <1>5, <1>6 DEF Inductive

\* A step of the cleanup task that removes nothing.
LEMMA ListInv ==
  ASSUME Inductive, UNCHANGED <<request, slots, guard, box, age, thread, metrics, refused, required>>,
         faults' \in 0..MaxFaults, session \subseteq session', session' \subseteq Jobs,
         cleaner' \in [pc : {"sleep", "idle", "recover"}, snap : SUBSET Jobs, todo : SUBSET Jobs],
         \A i \in Jobs : i \in cleaner'.todo \/ i \in session' \ session => pc[i] \notin Early,
         cleaner'.pc = "idle" => \A i \in cleaner'.todo : pc[i] \notin AtWork
  PROVE  Inductive' /\ NothingCut
<1>1. RenderType' /\ SlotsKept' /\ MetricsBalance'
  BY DEF Inductive, RenderType, request, SlotsKept, MetricsBalance, Holders, Open
<1>2. ASSUME NEW i \in Jobs PROVE JobInv(i)'
  <2>1. Placed(i)'
    BY DEF Inductive, JobInv, Placed, Up, request
  <2>2. Aged(i)' /\ Listed(i)' /\ Cleared(i)'
    BY DEF Inductive, JobInv, Aged, Listed, Cleared, Exists, request
  <2> QED
    BY <2>1, <2>2 DEF JobInv
<1>3. NothingCut
  BY DEF NothingCut, Up
<1> QED
  BY <1>1, <1>2, <1>3 DEF Inductive

LEMMA CleanerKeeps ==
  ASSUME Inductive, CleanerStep
  PROVE  Inductive' /\ NothingCut
<1> USE DEF Inductive
<1>1. CASE ListSessions
  <2>1. \A i \in session : Idle(i) => pc[i] \notin Early /\ pc[i] \notin AtWork
    <3> SUFFICES ASSUME NEW i \in session, Idle(i)
                 PROVE  pc[i] \notin Early /\ pc[i] \notin AtWork
      OBVIOUS
    <3>1. Placed(i) /\ Aged(i) /\ i \in Jobs
      BY DEF RenderType, JobInv
    <3>2. age[i] \in Nat /\ t[i] \in Nat
      BY <3>1 DEF RenderType
    <3> QED
      BY <3>1, <3>2, RenderAssumption DEF Placed, Aged, Idle, AtWork
  <2>2. /\ cleaner' \in [pc : {"sleep", "idle", "recover"}, snap : SUBSET Jobs, todo : SUBSET Jobs]
        /\ cleaner'.todo = {i \in session : Idle(i)}
    BY <1>1 DEF RenderType, ListSessions
  <2> QED
    BY <1>1, <2>1, <2>2, ListInv DEF RenderType, ListSessions
<1>2. CASE ListContainers
  <2>1. faults' \in 0..MaxFaults
    BY <1>2, FaultType DEF ListContainers
  <2>2. \A i \in Untracked : i \in Jobs /\ pc[i] \notin Early
    BY DEF Untracked, JobInv, Placed, Exists
  <2>3. /\ cleaner' \in [pc : {"sleep", "idle", "recover"}, snap : SUBSET Jobs, todo : SUBSET Jobs]
        /\ cleaner'.pc # "idle" /\ cleaner'.todo \subseteq Untracked
    <3>1. CASE cleaner' = [cleaner EXCEPT !.pc = "recover", !.todo = Untracked]
      BY <2>2, <3>1 DEF RenderType
    <3>2. CASE cleaner' = Asleep
      BY <3>2 DEF Asleep
    <3> QED
      BY <1>2, <3>1, <3>2 DEF ListContainers
  <2> QED
    BY <1>2, <2>1, <2>2, <2>3, ListInv DEF RenderType, ListContainers
<1>3. CASE GoToSleep
  BY <1>3, ListInv DEF RenderType, GoToSleep, Asleep
<1>4. ASSUME NEW j \in Jobs, RemoveIdle(j) PROVE Inductive' /\ NothingCut
  <2>1. pc[j] \notin AtWork
    BY <1>4 DEF RemoveIdle, JobInv, Listed
  <2> QED
    BY <1>4, <2>1, SweepInv DEF RemoveIdle, Removal
<1>5. ASSUME NEW j \in Jobs, Recover(j) PROVE Inductive' /\ NothingCut
  <2>1. CASE session' = session \cup {j} /\ UNCHANGED <<box, faults, refused>>
                /\ cleaner' = [cleaner EXCEPT !.todo = @ \ {j}]
    <3>1. \A i \in cleaner.todo : i \in Jobs /\ pc[i] \notin Early
      BY DEF RenderType, JobInv, Placed
    <3> QED
      BY <1>5, <2>1, <3>1, ListInv DEF RenderType, Recover
  <2>2. CASE j \notin session /\ required /\ Removal(j)
                /\ (cleaner' = Asleep \/ cleaner' = [cleaner EXCEPT !.todo = @ \ {j}])
    BY <1>5, <2>2, SweepInv DEF Recover
  <2> QED
    BY <1>5, <2>1, <2>2 DEF Recover, Removal
<1> QED
  BY <1>1, <1>2, <1>3, <1>4, <1>5 DEF CleanerStep

\* Time passes for a request only as long as its step may take.
LEMMA TickKeeps ==
  ASSUME Inductive, Tick
  PROVE  Inductive' /\ NothingCut
<1>1. t \in [Jobs -> Nat] /\ age \in [Jobs -> Nat]
  BY DEF Inductive, RenderType
<1>2. t' \in [Jobs -> Nat] /\ age' \in [Jobs -> Nat]
  BY <1>1 DEF Tick
<1>3. RenderType' /\ SlotsKept' /\ MetricsBalance'
  BY <1>2 DEF Inductive, RenderType, Tick, SlotsKept, MetricsBalance, Holders, Open
<1>4. ASSUME NEW j \in Jobs PROVE JobInv(j)'
  <2>1. Placed(j)' /\ Listed(j)' /\ Cleared(j)'
    BY DEF Inductive, JobInv, Placed, Listed, Cleared, Exists, Up, Tick
  <2>2. Aged(j)'
    <3>1. age'[j] \in {age[j], age[j] + 1} /\ pc' = pc
      BY <1>1 DEF Tick
    <3>2. CASE j \in Open
      <4>1. Waiting(j) /\ t'[j] = t[j] + 1
        BY <1>1, <3>2 DEF Tick
      <4>2. pc[j] \in DOMAIN Timed /\ t[j] < Timed[pc[j]]
        BY <4>1 DEF Waiting
      <4>3. Aged(j)
        BY DEF Inductive, JobInv
      <4> QED
        BY <1>1, <3>1, <4>1, <4>2, <4>3, RenderAssumption DEF Timed, Aged
    <3>3. CASE j \notin Open
      BY <3>1, <3>3 DEF Aged, Open
    <3> QED
      BY <3>2, <3>3
  <2> QED
    BY <2>1, <2>2 DEF JobInv
<1>5. NothingCut
  BY DEF Tick, NothingCut, Up
<1> QED
  BY <1>3, <1>4, <1>5 DEF Inductive

-----------------------------------------------------------------------------
(***************************************************************************)
(* The theorems                                                            *)
(***************************************************************************)
LEMMA InitInductive == Init => Inductive
<1> SUFFICES ASSUME Init PROVE Inductive
  OBVIOUS
<1>1. RenderType
  BY RenderAssumption DEF Init, RenderType, Asleep, Places, Codes
<1>2. Holders = {} /\ Open = {}
  BY DEF Init, Holders, Open
<1>3. SlotsKept /\ MetricsBalance
  BY <1>2, RenderAssumption, FS_EmptySet DEF Init, SlotsKept, MetricsBalance
<1>4. \A j \in Jobs : JobInv(j)
  BY DEF Init, JobInv, Placed, Aged, Listed, Cleared, Asleep, AtWork
<1> QED
  BY <1>1, <1>3, <1>4 DEF Inductive

LEMMA NextInductive ==
  ASSUME Inductive, [Next]_vars
  PROVE  Inductive' /\ (NothingCut \/ UNCHANGED vars)
<1>1. ASSUME NEW j \in Jobs, JobStep(j) PROVE Inductive' /\ NothingCut
  BY <1>1, AcquireSlotKeeps, RefusalsKeep, CheckLimitsKeeps, EnterGuardKeeps,
     RunContainerKeeps, SaveSessionKeeps, GetContainerKeeps, ExecsKeep, TeardownKeeps,
     FinishKeeps DEF JobStep
<1>2. ASSUME NEW j \in Jobs, Arrive(j) \/ ProgramEnds(j) PROVE Inductive' /\ NothingCut
  BY <1>2, ArriveKeeps, ExecsKeep DEF ProgramEnds
<1>3. CASE UNCHANGED vars
  BY <1>3 DEF vars, request, Inductive, RenderType, SlotsKept, MetricsBalance, Holders, Open,
              JobInv, Placed, Aged, Listed, Cleared, Exists, Up
<1> QED
  BY <1>1, <1>2, <1>3, CleanerKeeps, TickKeeps DEF Next

\* The invariant all others follow from.
THEOREM InductiveHolds == Spec => []Inductive
BY InitInductive, NextInductive, PTL DEF Spec

\* Every variable keeps its type.
THEOREM TypeHolds == Spec => []RenderType
<1>1. Inductive => RenderType
  BY DEF Inductive
<1> QED
  BY <1>1, InductiveHolds, PTL

\* render_semaphore is given back once by each request that acquired it, and by no other,
\* however render_endpoint or latex_render_endpoint ends.
THEOREM SlotsHold == Spec => []SlotsKept
<1>1. Inductive => SlotsKept
  BY DEF Inductive
<1> QED
  BY <1>1, InductiveHolds, PTL

\* Each render is active, or was counted once with one verdict.
THEOREM MetricsHold == Spec => []MetricsBalance
<1>1. Inductive => MetricsBalance
  BY DEF Inductive
<1> QED
  BY <1>1, InductiveHolds, PTL

\* No answered request leaves a container, unless docker failed.
THEOREM AnsweredRemovedHolds == Spec => []AnsweredRemoved
<1>1. Inductive => AnsweredRemoved
  BY DEF Inductive, JobInv, Cleared, AnsweredRemoved
<1> QED
  BY <1>1, InductiveHolds, PTL

\* As long as the steps of a rendering take no longer than SESSION_TIMEOUT_SECONDS
\* together, cleanup_idle_containers does not remove its container under it.
THEOREM NotCutHolds == Spec => NotCut
<1>1. Inductive /\ [Next]_vars =>
        [\A j \in Jobs : pc[j] \in AtWork /\ Up(j) /\ box'[j] # "up" =>
           required /\ pc[j] = "save"]_vars
  BY NextInductive DEF NothingCut
<1> QED
  BY <1>1, InductiveHolds, PTL DEF Spec, NotCut
=============================================================================
