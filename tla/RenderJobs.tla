----------------------------- MODULE RenderJobs -----------------------------
(***************************************************************************)
(* The render endpoints of gateway/app.py (POST /api/render and            *)
(* /api/latex/render) in one gateway process: every request waits for a    *)
(* slot, creates a container, copies the request into it, runs the         *)
(* renderer there, reads the archive and removes the container, while the  *)
(* cleanup task removes idle sessions and recovers untracked containers.   *)
(*                                                                         *)
(* A step is what a handler does up to the end of the call it awaits.      *)
(* Docker fails at most MaxFaults times.  Time is kept as the age of each  *)
(* session and the time each request has spent in its present step; the    *)
(* calls without a bound below take no time.  A worker thread of the       *)
(* default pool is held by each exec_start until the program ends, whether *)
(* somebody still waits for it or not; every docker call needs one.        *)
(*                                                                         *)
(* Rate limits and quotas may refuse any request: RateLimiter and          *)
(* GatewaySessions say when.  The hard lifetime of sessions is longer than *)
(* what is looked at here.  Killing and removing a container and           *)
(* forgetting its session are one step.                                    *)
(***************************************************************************)
EXTENDS Integers, FiniteSets

CONSTANTS
  Jobs,           \* render requests; each has at most one container
  None,
  MaxConcurrent,  \* RENDER_MAX_CONCURRENT
  Threads,        \* workers of the default thread pool
  QueueTime,      \* RENDER_QUEUE_TIMEOUT_MS
  GuardTime,      \* CONTAINER_CREATE_GUARD_TIMEOUT
  RunTime,        \* how long docker run takes at most
  ProvisionTime,  \* FILE_PROVISION_TIMEOUT
  RenderTime,     \* RENDER_TIMEOUT_SECONDS, LATEX_RENDER_TIMEOUT_SECONDS
  ReadTime,       \* how long reading the archive takes at most
  IdleTimeout,    \* SESSION_TIMEOUT_SECONDS
  MaxFaults       \* bound on docker's failures

\* A render is over within the idle timeout, and a thread that is lost with each failure
\* leaves one to every slot and one to spare.
ASSUME RenderAssumption ==
  /\ None \notin Jobs /\ IsFiniteSet(Jobs)
  /\ {MaxConcurrent, Threads} \subseteq Nat \ {0}
  /\ {QueueTime, GuardTime, RunTime, ProvisionTime, RenderTime, ReadTime, IdleTimeout,
      MaxFaults} \subseteq Nat
  /\ RunTime + ProvisionTime + RenderTime + ReadTime <= IdleTimeout
  /\ Threads > MaxConcurrent + MaxFaults

VARIABLES
  pc,        \* where each request is
  t,         \* the time it has spent there
  code,      \* the status it will be answered with, once that is settled
  slots,     \* render_semaphore
  guard,     \* who is inside container_creation_guard
  box,       \* docker: the container of each request
  age,       \* the time since its session's last_activity
  session,   \* requests whose container has a session in the store
  thread,    \* requests one of whose exec_start calls holds a worker thread
  metrics,   \* total, active, successful, failed and timed out renders
  cleaner,   \* cleanup_idle_containers
  faults,    \* docker's failures so far
  refused,   \* requests whose container docker did not remove, or half created (history)
  required   \* REQUIRE_SHARED_STATE

request == <<pc, t, code>>
vars == <<request, slots, guard, box, age, session, thread, metrics, cleaner, faults, refused,
          required>>

Goto(j, p) == pc' = [pc EXCEPT ![j] = p] /\ t' = [t EXCEPT ![j] = 0]
\* docker answers as it should, or fails
Fine == UNCHANGED faults
Fault == faults < MaxFaults /\ faults' = faults + 1
Up(j) == box[j] = "up"
Exists(j) == box[j] \in {"up", "dead"}
\* a worker thread is free for a docker call
Worker == Cardinality(thread) < Threads

Open == {j \in Jobs : pc[j] \notin {"new", "done"}}
Holders == {j \in Jobs : pc[j] \notin {"new", "queue", "done"}}

-----------------------------------------------------------------------------
(***************************************************************************)
(* render_endpoint, latex_render_endpoint                                  *)
(***************************************************************************)
Count(m, field) == [m EXCEPT ![field] = @ + 1]

Arrive(j) ==
  /\ pc[j] = "new"
  /\ Goto(j, "queue")
  /\ metrics' = Count(Count(metrics, "total"), "active")
  /\ UNCHANGED <<code, slots, guard, box, age, session, thread, cleaner, faults, refused, required>>

\* Mutant: the slot is given back whether it was acquired or not.
Slot_Always(j) == 1

\* acquired_slot
Slot(j) == IF j \in Holders THEN 1 ELSE 0

Verdict(c) == CASE c = 200 -> "successful" [] c = 504 -> "timed_out" [] OTHER -> "failed"

\* Mutant: a success is counted before the container is removed, a failure of the
\* removal is counted as well.
Tally_Early(j, c) ==
  LET counted == Count(metrics, Verdict(c))
  IN IF code[j] = 200 /\ c # 200 THEN Count(counted, "successful") ELSE counted

Tally(j, c) == Count(metrics, Verdict(c))

\* The handlers' except and finally clauses: count the verdict, give the slot back.
Answer(j, c) ==
  /\ Goto(j, "done")
  /\ code' = [code EXCEPT ![j] = 0]
  /\ metrics' = [Tally(j, c) EXCEPT !.active = @ - 1]
  /\ slots' = slots + Slot(j)

\* Mutant: nobody waits for a slot.
AcquireSlot_Unbounded(j) ==
  /\ pc[j] = "queue"
  /\ slots' = slots - 1
  /\ Goto(j, "limits")
  /\ UNCHANGED <<code, guard, box, age, session, thread, metrics, cleaner, faults, refused, required>>

\* wait_for(render_semaphore.acquire())
AcquireSlot(j) ==
  /\ pc[j] = "queue"
  /\ slots > 0
  /\ slots' = slots - 1
  /\ Goto(j, "limits")
  /\ UNCHANGED <<code, guard, box, age, session, thread, metrics, cleaner, faults, refused, required>>

QueueTimeout(j) ==
  /\ pc[j] = "queue"
  /\ slots = 0 /\ t[j] = QueueTime
  /\ Answer(j, 429)
  /\ UNCHANGED <<guard, box, age, session, thread, cleaner, faults, refused, required>>

\* Two rate limits, then validate_render_payload_limits or its LaTeX counterpart.
CheckLimits(j) ==
  /\ pc[j] = "limits"
  /\ \/ Goto(j, "guard") /\ UNCHANGED <<code, slots, metrics>>
     \/ \E c \in {429, 400} : Answer(j, c)
  /\ UNCHANGED <<guard, box, age, session, thread, cleaner, faults, refused, required>>

-----------------------------------------------------------------------------
(***************************************************************************)
(* create_render_container                                                 *)
(***************************************************************************)
\* The guard, then enforce_container_creation_limits; the session's clock starts.
EnterGuard(j) ==
  /\ pc[j] = "guard"
  /\ guard = None
  /\ \/ /\ guard' = j
        /\ Goto(j, "run")
        /\ age' = [age EXCEPT ![j] = 0]
        /\ UNCHANGED <<code, slots, metrics>>
     \/ Answer(j, 429) /\ UNCHANGED <<guard, age>>
  /\ UNCHANGED <<box, session, thread, cleaner, faults, refused, required>>

GuardTimeout(j) ==
  /\ pc[j] = "guard"
  /\ t[j] = GuardTime
  /\ Answer(j, 503)
  /\ UNCHANGED <<guard, box, age, session, thread, cleaner, faults, refused, required>>

\* docker run creates and starts.  When it fails there may be a container, which has no
\* session and may even run: the handler does not know its id.
RunContainer(j) ==
  /\ pc[j] = "run" /\ Worker
  /\ \/ /\ Fine
        /\ box' = [box EXCEPT ![j] = "up"]
        /\ Goto(j, "save")
        /\ UNCHANGED <<code, slots, guard, metrics, refused>>
     \/ /\ Fault
        /\ \E s \in {"none", "dead", "up"} :
             /\ box' = [box EXCEPT ![j] = s]
             /\ refused' = refused \cup (IF s = "none" THEN {} ELSE {j})
        /\ guard' = None
        /\ Answer(j, 500)
  /\ UNCHANGED <<age, session, thread, cleaner, required>>

SaveSession(j) ==
  /\ pc[j] = "save"
  /\ session' = session \cup {j}
  /\ guard' = None
  /\ Goto(j, "get")
  /\ UNCHANGED <<code, slots, box, age, thread, metrics, cleaner, faults, refused, required>>

-----------------------------------------------------------------------------
(***************************************************************************)
(* render_presentation_in_sandbox, render_latex_in_sandbox                 *)
(***************************************************************************)
\* What the handler will answer, once the container is removed.
Finally(j, c) == Goto(j, "finally") /\ code' = [code EXCEPT ![j] = c]

GetContainer(j) ==
  /\ pc[j] = "get" /\ Worker
  /\ \/ Exists(j) /\ Fine /\ Goto(j, "provision") /\ UNCHANGED code
     \/ ~Exists(j) /\ Fine /\ Finally(j, 500)
     \/ Fault /\ Finally(j, 500)
  /\ UNCHANGED <<slots, guard, box, age, session, thread, metrics, cleaner, refused, required>>

\* provision_files_in_container: exec_create, then _run_exec_with_stdin in a thread
StartProvision(j) ==
  /\ pc[j] = "provision" /\ j \notin thread /\ Worker
  /\ \/ Up(j) /\ Fine /\ thread' = thread \cup {j} /\ UNCHANGED <<request>>
     \/ (Fault \/ (~Up(j) /\ Fine)) /\ Finally(j, 500) /\ UNCHANGED thread
  /\ UNCHANGED <<slots, guard, box, age, session, metrics, cleaner, refused, required>>

EndProvision(j) ==
  /\ pc[j] = "provision" /\ j \in thread
  /\ thread' = thread \ {j}
  /\ \/ Up(j) /\ Goto(j, "exec") /\ UNCHANGED code
     \/ Finally(j, 500)
  /\ UNCHANGED <<slots, guard, box, age, session, metrics, cleaner, faults, refused, required>>

\* Mutant: no wait_for around the provisioning.
ProvisionTimeout_None(j) == FALSE /\ UNCHANGED vars

ProvisionTimeout(j) ==
  /\ pc[j] = "provision" /\ j \in thread
  /\ t[j] = ProvisionTime
  /\ Finally(j, 500)
  /\ UNCHANGED <<slots, guard, box, age, session, thread, metrics, cleaner, faults, refused, required>>

\* exec_create, and run_exec_with_timeout starts the renderer
StartRenderer(j) ==
  /\ pc[j] = "exec" /\ j \notin thread /\ Worker
  /\ \/ Up(j) /\ Fine /\ thread' = thread \cup {j} /\ UNCHANGED request
     \/ (Fault \/ (~Up(j) /\ Fine)) /\ Finally(j, 500) /\ UNCHANGED thread
  /\ UNCHANGED <<slots, guard, box, age, session, metrics, cleaner, refused, required>>

\* The renderer's result is parsed: a path, an error (400 with exit code 2, else 422 or
\* 500), or nothing that parses, as when its container was killed.
EndRenderer(j) ==
  /\ pc[j] = "exec" /\ j \in thread
  /\ thread' = thread \ {j}
  /\ \/ Up(j) /\ Goto(j, "read") /\ UNCHANGED code
     \/ \E c \in {400, 422, 500} : (Up(j) \/ c = 500) /\ Finally(j, c)
  /\ UNCHANGED <<slots, guard, box, age, session, metrics, cleaner, faults, refused, required>>

RenderTimeout(j) ==
  /\ pc[j] = "exec" /\ j \in thread
  /\ t[j] = RenderTime
  /\ Goto(j, "teardown")
  /\ UNCHANGED <<code, slots, guard, box, age, session, thread, metrics, cleaner, faults, refused, required>>

\* read_render_output_file: it cannot be read, or is too large
ReadArchive(j) ==
  /\ pc[j] = "read" /\ Worker
  /\ \E c \in {200, 500} : (Up(j) \/ c = 500) /\ Finally(j, c)
  /\ UNCHANGED <<slots, guard, box, age, session, thread, metrics, cleaner, faults, refused, required>>

\* remove_container: docker removes it (or has already); refuses, which is logged and
\* leaves the session; or the call fails in a way that nothing here catches, such as a
\* timeout, whatever docker then makes of it.
Removed(j) ==
  /\ Fine
  /\ box' = [box EXCEPT ![j] = "gone"]
  /\ session' = session \ {j}
  /\ UNCHANGED refused
Refused(j) ==
  /\ Exists(j) /\ Fault
  /\ box' \in {box, [box EXCEPT ![j] = "dead"]}
  /\ refused' = refused \cup {j}
  /\ UNCHANGED session
Raised(j) ==
  /\ Fault
  /\ box' \in {box, [box EXCEPT ![j] = "dead"], [box EXCEPT ![j] = "gone"]}
  /\ refused' = refused \cup {j}
  /\ UNCHANGED session

\* after a timeout, inside run_exec_with_timeout
Teardown(j) ==
  /\ pc[j] = "teardown" /\ Worker
  /\ \/ (Removed(j) \/ Refused(j)) /\ Finally(j, 504)
     \/ Raised(j) /\ Finally(j, 500)
  /\ UNCHANGED <<slots, guard, age, thread, metrics, cleaner, required>>

\* Mutant: the container is removed on success only.
FinallyRemoves_Success(j) == code[j] = 200

\* in the finally clause, in any case
FinallyRemoves(j) == TRUE

Finish(j) ==
  /\ pc[j] = "finally" /\ Worker
  /\ \/ FinallyRemoves(j) /\ (Removed(j) \/ Refused(j)) /\ Answer(j, code[j])
     \/ FinallyRemoves(j) /\ Raised(j) /\ Answer(j, 500)
     \/ ~FinallyRemoves(j) /\ Answer(j, code[j]) /\ UNCHANGED <<box, session, faults, refused>>
  /\ UNCHANGED <<guard, age, thread, cleaner, required>>

\* The thread of an exec_start nobody waits for is free again when the program ends, by
\* itself or with its container.
ThreadEnds(j) ==
  /\ j \in thread /\ pc[j] \notin {"provision", "exec"}
  /\ thread' = thread \ {j}
  /\ UNCHANGED <<request, slots, guard, box, age, session, metrics, cleaner, faults, refused, required>>

-----------------------------------------------------------------------------
(***************************************************************************)
(* cleanup_idle_containers                                                 *)
(***************************************************************************)
Asleep == [pc |-> "sleep", snap |-> {}, todo |-> {}]

\* Mutant: a session that reaches the timeout is idle.
Idle_Reached(j) == age[j] >= IdleTimeout

\* session_idle_expired
Idle(j) == age[j] > IdleTimeout

ListSessions ==
  /\ cleaner.pc = "sleep"
  /\ cleaner' = [pc |-> "idle", snap |-> session, todo |-> {j \in session : Idle(j)}]
  /\ UNCHANGED <<request, slots, guard, box, age, session, thread, metrics, faults, refused, required>>

\* remove_container(cid) of one idle session; what it raises ends the round
RemoveIdle(j) ==
  /\ cleaner.pc = "idle" /\ j \in cleaner.todo /\ Worker
  /\ \/ (Removed(j) \/ Refused(j)) /\ cleaner' = [cleaner EXCEPT !.todo = @ \ {j}]
     \/ Raised(j) /\ cleaner' = Asleep
  /\ UNCHANGED <<request, slots, guard, age, thread, metrics, required>>

\* Mutant: only the names that begin with "sandbox-" are looked at.
Untracked_Sandbox == {}

\* the managed containers whose session was not in the list
Untracked == {j \in Jobs \ cleaner.snap : Exists(j)}

\* docker ps --all
ListContainers ==
  /\ cleaner.pc = "idle" /\ cleaner.todo = {} /\ Worker
  /\ \/ /\ Fine
        /\ cleaner' = [cleaner EXCEPT !.pc = "recover", !.todo = Untracked]
     \/ Fault /\ cleaner' = Asleep
  /\ UNCHANGED <<request, slots, guard, box, age, session, thread, metrics, refused, required>>

\* recover_or_remove_managed_container
Recover(j) ==
  /\ cleaner.pc = "recover" /\ j \in cleaner.todo
  /\ \/ /\ j \in session \/ ~required
        /\ session' = session \cup {j}
        /\ cleaner' = [cleaner EXCEPT !.todo = @ \ {j}]
        /\ UNCHANGED <<box, faults, refused>>
     \/ /\ j \notin session /\ required /\ Worker
        /\ \/ (Removed(j) \/ Refused(j)) /\ cleaner' = [cleaner EXCEPT !.todo = @ \ {j}]
           \/ Raised(j) /\ cleaner' = Asleep
  /\ UNCHANGED <<request, slots, guard, age, thread, metrics, required>>

GoToSleep ==
  /\ cleaner.pc = "recover" /\ cleaner.todo = {}
  /\ cleaner' = Asleep
  /\ UNCHANGED <<request, slots, guard, box, age, session, thread, metrics, faults, refused, required>>

-----------------------------------------------------------------------------
\* How long a request may wait where it is.
Timed == [queue |-> QueueTime, guard |-> GuardTime, run |-> RunTime,
          provision |-> ProvisionTime, exec |-> RenderTime, read |-> ReadTime]
Waiting(j) ==
  /\ pc[j] \in DOMAIN Timed
  /\ t[j] < Timed[pc[j]]
  /\ pc[j] = "queue" => slots = 0
  /\ pc[j] \in {"provision", "exec"} => j \in thread

\* Ages beyond the idle timeout are all alike.
Tick ==
  /\ \A j \in Open : Waiting(j)
  /\ t' = [j \in Jobs |-> IF j \in Open THEN t[j] + 1 ELSE t[j]]
  /\ age' = [j \in Jobs |-> IF (j \in session \/ Exists(j) \/ pc[j] = "run") /\ ~Idle(j)
                            THEN age[j] + 1 ELSE age[j]]
  /\ UNCHANGED <<pc, code, slots, guard, box, session, thread, metrics, cleaner, faults, refused, required>>

Init ==
  /\ pc = [j \in Jobs |-> "new"]
  /\ t = [j \in Jobs |-> 0]
  /\ code = [j \in Jobs |-> 0]
  /\ slots = MaxConcurrent
  /\ guard = None
  /\ box = [j \in Jobs |-> "none"]
  /\ age = [j \in Jobs |-> 0]
  /\ session = {} /\ thread = {} /\ refused = {}
  /\ metrics = [total |-> 0, active |-> 0, successful |-> 0, failed |-> 0, timed_out |-> 0]
  /\ cleaner = Asleep
  /\ faults = 0
  /\ required \in BOOLEAN

JobStep(j) ==
  \/ AcquireSlot(j) \/ QueueTimeout(j) \/ CheckLimits(j)
  \/ EnterGuard(j) \/ GuardTimeout(j) \/ RunContainer(j) \/ SaveSession(j)
  \/ GetContainer(j) \/ StartProvision(j) \/ ProvisionTimeout(j)
  \/ StartRenderer(j) \/ RenderTimeout(j) \/ ReadArchive(j)
  \/ Teardown(j) \/ Finish(j)

\* The programs in the containers end when they like.
ProgramEnds(j) == EndProvision(j) \/ EndRenderer(j) \/ ThreadEnds(j)

CleanerStep ==
  \/ ListSessions \/ ListContainers \/ GoToSleep
  \/ \E j \in Jobs : RemoveIdle(j) \/ Recover(j)

Next ==
  \/ \E j \in Jobs : Arrive(j) \/ JobStep(j) \/ ProgramEnds(j)
  \/ CleanerStep
  \/ Tick

Spec == Init /\ [][Next]_vars

\* The event loop runs the handlers as time passes, and the cleanup task.
FairSpec ==
  /\ Spec
  /\ WF_vars(Tick \/ \E j \in Jobs : JobStep(j))
  /\ WF_vars(CleanerStep)

-----------------------------------------------------------------------------
Places == {"new", "queue", "limits", "guard", "run", "save", "get", "provision", "exec",
           "read", "teardown", "finally", "done"}
Codes == {0, 200, 400, 422, 429, 500, 503, 504}

\* Every variable keeps its type.
RenderType ==
  /\ pc \in [Jobs -> Places]
  /\ t \in [Jobs -> Nat]
  /\ code \in [Jobs -> Codes]
  /\ slots \in Nat
  /\ guard \in Jobs \cup {None}
  /\ box \in [Jobs -> {"none", "up", "dead", "gone"}]
  /\ age \in [Jobs -> Nat]
  /\ session \subseteq Jobs /\ thread \subseteq Jobs /\ refused \subseteq Jobs
  /\ metrics \in [total : Nat, active : Nat, successful : Nat, failed : Nat, timed_out : Nat]
  /\ cleaner \in [pc : {"sleep", "idle", "recover"}, snap : SUBSET Jobs, todo : SUBSET Jobs]
  /\ faults \in 0..MaxFaults
  /\ required \in BOOLEAN

\* The slots that are free and those that requests hold are MAX_CONCURRENT_RENDERS,
\* however a request ends: in the queue, by a refusal, a timeout or an exception.
SlotsKept == slots + Cardinality(Holders) = MaxConcurrent

\* The metrics add up: every render is active or was counted once, with one verdict.
MetricsBalance ==
  /\ metrics.active = Cardinality(Open)
  /\ metrics.total = metrics.active + metrics.successful + metrics.failed + metrics.timed_out

\* Once a request is answered its container is gone, unless docker failed to start or to
\* remove it: the finally clause is reached from every step.
AnsweredRemoved ==
  \A j \in Jobs : pc[j] = "done" /\ Exists(j) => j \in refused

\* The cleanup task does not take its container from a request at work, whose session is
\* never touched: the steps together take no longer than the idle timeout.  With
\* REQUIRE_SHARED_STATE it does between docker run and save_session.
AtWork == {"save", "get", "provision", "exec", "read"}
NotCut ==
  [][\A j \in Jobs : pc[j] \in AtWork /\ Up(j) /\ box'[j] # "up" =>
       required /\ pc[j] = "save"]_vars

\* Every request is answered, whatever the programs in the containers do and docker
\* refuses: each wait has a timeout, and a thread is free for the removal.
AllAnswered == Open # {} ~> Open = {}

\* Every container is removed in the end, with its session: by its request, or, when
\* docker failed, by the cleanup task.
AllRemoved == session # {} \/ (\E j \in Jobs : Exists(j)) ~> session = {} /\ ~\E j \in Jobs : Exists(j)
=============================================================================
