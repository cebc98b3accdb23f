---------------------------- MODULE GatewaySessions ----------------------------
(***************************************************************************)
(* The session core of the gateway (gateway/app.py) on top of the          *)
(* in-memory state backend (InMemoryStateBackend of gateway/state.py):     *)
(* REQUIRE_SHARED_STATE is false and one process owns all the state.       *)
(*                                                                         *)
(* The process is one asyncio event loop.  A handler runs without          *)
(* interruption between two suspension points, and those are the docker    *)
(* calls (asyncio.to_thread), the timed waits for the creation guard, the  *)
(* execution slot and the per-container lock, and the cleanup task's       *)
(* sleep.  The in-memory backend itself never suspends.  So a step here is *)
(* what one handler does from one suspension point to the next, and pc[r]  *)
(* is the suspension point the handler is parked at.  A docker call whose  *)
(* answer can be outdated when the handler resumes is two steps: the       *)
(* daemon's, then the handler's.                                           *)
(***************************************************************************)
EXTENDS Integers, FiniteSets

CONSTANTS
  Cids,               \* container ids the docker daemon may hand out
  Inherited,          \* the containers an earlier gateway process left running
  Reqs,               \* requests: one handler invocation each
  Reaper,             \* the background task cleanup_idle_containers
  None,               \* no container / nobody
  Principals,         \* authenticated (subject, tenant) pairs
  Subject,            \* the principal of each request
  MaxConcurrent,      \* MAX_CONCURRENT_EXECUTIONS
  MaxActive,          \* MAX_ACTIVE_SESSIONS
  MaxPerPrincipal,    \* MAX_CONTAINERS_PER_PRINCIPAL
  MaxExecutions,      \* MAX_EXECUTIONS_PER_SESSION
  IdleTimeout,        \* SESSION_TIMEOUT_SECONDS
  Lifetime,           \* MAX_SESSION_LIFETIME_SECONDS
  StartupListFails,   \* may the docker list of the startup recovery fail?
  ObjIds,             \* identities of the SessionInfo objects of one container
  LockIds,            \* identities of the asyncio.Lock objects of one container
  MaxNow,             \* bound on the clock
  CreateUntil,        \* bound on the times at which creations begin
  MaxFaults,          \* bound on the docker calls that fail
  MaxRestarts         \* bound on the crashes of the gateway process

ASSUME SetsAssumption ==
  /\ Inherited \subseteq Cids
  /\ Reaper \notin Reqs
  /\ None \notin Cids \cup Reqs
  /\ Subject \in [Reqs -> Principals]

ASSUME NumbersAssumption ==
  /\ {MaxConcurrent, MaxActive, MaxPerPrincipal, MaxExecutions} \subseteq Nat
  /\ {IdleTimeout, Lifetime, MaxNow, CreateUntil, MaxFaults, MaxRestarts} \subseteq Nat
  /\ ObjIds \subseteq Nat \ {0}
  /\ LockIds \subseteq Nat \ {0}
  /\ StartupListFails \in BOOLEAN

NoObj == 0     \* no SessionInfo
NoLock == 0    \* no asyncio.Lock

Actors == Reqs \cup {Reaper}

VARIABLES
  now,        \* time.time()
  box,        \* what docker, and the labels, say of each container
  running,    \* the requests whose user code is still alive in each container
  sessions,   \* InMemoryStateBackend.sessions: the SessionInfo of a container
  heap,       \* the contents of the SessionInfo objects (handlers alias them)
  lockTable,  \* InMemoryStateBackend._exec_locks
  locked,     \* the asyncio.Lock objects of a container that are held
  slots,      \* the value of execution_semaphore
  creating,   \* the request inside container_creation_guard
  pc,         \* where a handler, or the cleanup task, is suspended
  cid,        \* the container it is about
  op,         \* the endpoint that was called
  end,        \* what a handler reports when the removal it started is over
  obj,        \* its local variable "session" in run_code_in_sandbox
  lock,       \* the lock object it waits for or holds
  snap,       \* cleanup task: the ids of its list_sessions() snapshot
  todo,       \* cleanup task: idle_ids not removed yet
  listed,     \* cleanup task: what docker's list answered
  admitted,   \* executions each container admitted (history)
  faults,     \* docker failures so far
  restarts    \* crashes so far

docker == <<box, running>>
store == <<sessions, heap, lockTable>>
holdings == <<cid, op, end, obj, lock, locked, slots, creating>>
reaping == <<snap, todo, listed>>
bounds == <<faults, restarts>>
vars == <<now, docker, store, pc, holdings, reaping, admitted, bounds>>

CreateSteps == {"c_guard", "c_run", "c_ran"}
AccessSteps == {"a_begin", "a_get", "a_got"}
ExecSteps == {"x_slot", "x_lock", "x_get", "x_got", "x_prep", "x_start",
              "x_run", "x_out"}
RemovalSteps == {"rm_get", "rm_kill", "rm_remove", "rm_confirm"}
ReaperSteps == {"sleep", "scan", "listed"}
Outcomes == {"done", "deleted", "timed_out", "lost"}
Steps == {"idle", "g_get"} \cup CreateSteps \cup AccessSteps \cup ExecSteps
           \cup RemovalSteps \cup ReaperSteps \cup Outcomes

\* "unused": never asked for; "starting": being created; "up": running;
\* "dead": docker still lists it, nothing runs in it; "gone": docker has no such id
BoxStates == {"unused", "starting", "up", "dead", "gone"}
Exists(c) == box[c].status \in {"up", "dead"}

Tracked == {c \in Cids : sessions[c] # NoObj}
Info(c) == heap[c][sessions[c]]

(***************************************************************************)
(* session_idle_expired, session_hard_expired, session_is_active           *)
(***************************************************************************)
IdleExpired(s) == now - s.last > IdleTimeout
HardExpired(c) == now >= box[c].expires
Active(c) == ~IdleExpired(Info(c)) /\ ~HardExpired(c)

\* The identity Python gives to a new object is one nothing refers to.
FreeObj(c, k) == sessions[c] # k /\ \A r \in Reqs : cid[r] = c => obj[r] # k
NewObj(c, k) == FreeObj(c, k) /\ \A j \in ObjIds : FreeObj(c, j) => k <= j
FreeLock(c, l) == lockTable[c] # l /\ \A r \in Reqs : cid[r] = c => lock[r] # l
NewLock(c, l) == FreeLock(c, l) /\ \A j \in LockIds : FreeLock(c, j) => l <= j

InLock(r) == lock[r] # NoLock /\ pc[r] # "x_lock"    \* past execution_lock

Goto(a, p) == pc' = [pc EXCEPT ![a] = p] /\ UNCHANGED holdings

\* Mutant: the slot is returned only by those who got the lock.
ReturnSlot_OnlyFromLock(r) == slots' = IF InLock(r) THEN slots + 1 ELSE slots

\* lock.release() and execution_semaphore.release() in the finally clauses
Unlock(r) ==
  locked' = IF InLock(r) THEN [locked EXCEPT ![cid[r]] = @ \ {lock[r]}] ELSE locked
ReturnSlot(r) == slots' = IF lock[r] # NoLock THEN slots + 1 ELSE slots

(***************************************************************************)
(* A handler returns or raises: its finally clauses and context managers   *)
(* give back the lock, the slot and the creation guard it holds.           *)
(***************************************************************************)
Leave(r, outcome) ==
  /\ pc' = [pc EXCEPT ![r] = outcome]
  /\ Unlock(r)
  /\ ReturnSlot(r)
  /\ creating' = IF creating = r THEN None ELSE creating
  /\ lock' = [lock EXCEPT ![r] = NoLock]
  /\ obj' = [obj EXCEPT ![r] = NoObj]
  /\ op' = [op EXCEPT ![r] = "none"]
  /\ end' = [end EXCEPT ![r] = "done"]
  /\ UNCHANGED cid

Fault == faults < MaxFaults /\ faults' = faults + 1 /\ UNCHANGED restarts

\* InMemoryStateBackend.delete_session: the session and the lock entry go together
DeleteSession(c) ==
  /\ sessions' = [sessions EXCEPT ![c] = NoObj]
  /\ lockTable' = [lockTable EXCEPT ![c] = NoLock]
  /\ UNCHANGED heap

SaveSession(c, k, s) ==
  /\ heap' = [heap EXCEPT ![c][k] = s]
  /\ sessions' = [sessions EXCEPT ![c] = k]
  /\ UNCHANGED lockTable

\* recover_session_info: the execution-count label is never updated, it says "0",
\* and the last activity is docker's creation time
Recovered(c) == [count |-> 0, last |-> box[c].born]

-----------------------------------------------------------------------------
(***************************************************************************)
(* POST /containers: create_container and create_container_session         *)
(***************************************************************************)
\* Two bounds: no creation begins after CreateUntil (the runs where everything must
\* expire leave Lifetime until MaxNow), and docker has an id left in Cids for every
\* creation that begins.
BeginCreate(r) ==
  /\ pc[r] = "idle"
  /\ now <= CreateUntil
  /\ Cardinality({q \in Reqs : pc[q] = "c_guard"})
       < Cardinality({c \in Cids : box[c].status = "unused"})
  /\ pc' = [pc EXCEPT ![r] = "c_guard"]
  /\ op' = [op EXCEPT ![r] = "create"]
  /\ UNCHANGED <<now, docker, store, cid, end, obj, lock, locked, slots, creating,
                 reaping, admitted, bounds>>

ActiveSessions == {c \in Tracked : Active(c)}

LimitReached(r) ==
  \/ Cardinality(ActiveSessions) >= MaxActive
  \/ Cardinality({c \in ActiveSessions : box[c].owner = Subject[r]}) >= MaxPerPrincipal

\* Mutant: the limits are checked outside the guard.
GuardFree_Always == TRUE

GuardFree == creating = None

\* The guard is free; enforce_container_creation_limits decides and, when it
\* lets the request through, docker run starts before anything else runs.
EnterGuard(r) ==
  /\ pc[r] = "c_guard"
  /\ GuardFree
  /\ \/ /\ LimitReached(r)
        /\ Leave(r, "done")
        /\ UNCHANGED box
     \/ /\ ~LimitReached(r)
        /\ \E c \in Cids :
             /\ box[c].status = "unused"
             /\ box' = [box EXCEPT ![c] = [@ EXCEPT !.status = "starting",
                          !.owner = Subject[r], !.created = now,
                          !.expires = now + Lifetime]]
             /\ cid' = [cid EXCEPT ![r] = c]
        /\ creating' = r
        /\ pc' = [pc EXCEPT ![r] = "c_run"]
        /\ UNCHANGED <<op, end, obj, lock, locked, slots>>
  /\ UNCHANGED <<now, running, store, reaping, admitted, bounds>>

GuardTimeout(r) ==
  /\ pc[r] = "c_guard"
  /\ Leave(r, "done")
  /\ UNCHANGED <<now, docker, store, reaping, admitted, bounds>>

DockerRun(r) ==
  /\ pc[r] = "c_run"
  /\ box' = [box EXCEPT ![cid[r]] = [@ EXCEPT !.status = "up", !.born = now]]
  /\ Goto(r, "c_ran")
  /\ UNCHANGED <<now, running, store, reaping, admitted, bounds>>

\* Mutant: the guard is not left when docker run fails.
DockerRunFails_KeepsGuard(r) ==
  /\ pc[r] = "c_run"
  /\ Fault
  /\ \E s \in {"gone", "dead"} :
       box' = [box EXCEPT ![cid[r]] = [@ EXCEPT !.status = s, !.born = now]]
  /\ pc' = [pc EXCEPT ![r] = "done"]
  /\ op' = [op EXCEPT ![r] = "none"]
  /\ UNCHANGED <<now, running, store, cid, end, obj, lock, locked, slots, creating,
                 reaping, admitted>>

\* docker run creates, then starts: a failure may leave a container behind
DockerRunFails(r) ==
  /\ pc[r] = "c_run"
  /\ Fault
  /\ \E s \in {"gone", "dead"} :
       box' = [box EXCEPT ![cid[r]] = [@ EXCEPT !.status = s, !.born = now]]
  /\ Leave(r, "done")
  /\ UNCHANGED <<now, running, store, reaping, admitted>>

FinishCreate(r) ==
  /\ pc[r] = "c_ran"
  /\ LET c == cid[r] IN
       /\ \E k \in ObjIds : /\ NewObj(c, k)
                            /\ SaveSession(c, k, [count |-> 0, last |-> box[c].created])
       /\ box' = [box EXCEPT ![c].known = TRUE]
  /\ Leave(r, "done")
  /\ UNCHANGED <<now, running, reaping, admitted, bounds>>

EnvProvisionFails(r) ==
  /\ pc[r] = "c_ran"
  /\ Fault
  /\ Goto(r, "rm_kill")
  /\ UNCHANGED <<now, docker, store, reaping, admitted>>

-----------------------------------------------------------------------------
(***************************************************************************)
(* ensure_session_access, which begins every request about a container     *)
(***************************************************************************)
BeginAccess(r) ==
  /\ pc[r] = "idle"
  /\ \E c \in Cids, o \in {"execute", "delete", "inspect"} :
       /\ box[c].known
       /\ cid' = [cid EXCEPT ![r] = c]
       /\ op' = [op EXCEPT ![r] = o]
  /\ pc' = [pc EXCEPT ![r] = "a_begin"]
  /\ UNCHANGED <<now, docker, store, end, obj, lock, locked, slots, creating,
                 reaping, admitted, bounds>>

NextStepOf(o) == CASE o = "execute" -> "x_slot"
                   [] o = "delete" -> "rm_get"
                   [] OTHER -> "g_get"

\* The session is at hand: principal, then hard lifetime.  The idle timeout is
\* not looked at here.
CheckSession(r) ==
  \/ /\ Subject[r] # box[cid[r]].owner
     /\ Leave(r, "done")
  \/ /\ Subject[r] = box[cid[r]].owner
     /\ HardExpired(cid[r])
     /\ Goto(r, "rm_get")
  \/ /\ Subject[r] = box[cid[r]].owner
     /\ ~HardExpired(cid[r])
     /\ pc' = [pc EXCEPT ![r] = NextStepOf(op[r])]
     /\ end' = [end EXCEPT ![r] = IF op[r] = "delete" THEN "deleted" ELSE @]
     /\ UNCHANGED <<cid, op, obj, lock, locked, slots, creating>>

EnsureSession(r) ==
  /\ pc[r] = "a_begin"
  /\ \/ cid[r] \in Tracked /\ CheckSession(r)
     \/ cid[r] \notin Tracked /\ Goto(r, "a_get")
  /\ UNCHANGED <<now, docker, store, reaping, admitted, bounds>>

LookUpContainer(r) ==
  /\ pc[r] = "a_get"
  /\ \/ Exists(cid[r]) /\ Goto(r, "a_got")
     \/ ~Exists(cid[r]) /\ Leave(r, "done")
  /\ UNCHANGED <<now, docker, store, reaping, admitted, bounds>>

\* The recovered session is saved over whatever others saved meanwhile.
RecoverSession(r) ==
  /\ pc[r] = "a_got"
  /\ \E k \in ObjIds : NewObj(cid[r], k) /\ SaveSession(cid[r], k, Recovered(cid[r]))
  /\ CheckSession(r)
  /\ UNCHANGED <<now, docker, reaping, admitted, bounds>>

\* GET /containers/{id}: NotFound drops the session, anything else only reads
Inspect(r) ==
  /\ pc[r] = "g_get"
  /\ \/ Exists(cid[r]) /\ UNCHANGED store
     \/ ~Exists(cid[r]) /\ DeleteSession(cid[r])
  /\ Leave(r, "done")
  /\ UNCHANGED <<now, docker, reaping, admitted, bounds>>

-----------------------------------------------------------------------------
(***************************************************************************)
(* POST /execute: execute_code, execution_lock, run_code_in_sandbox and    *)
(* run_exec_with_timeout                                                   *)
(***************************************************************************)
\* Mutant: a new lock object for every request.
LockOf_NoReuse(c, l) == NewLock(c, l)

SlotFree == slots > 0

\* _exec_locks.setdefault: the lock object in the table, or else a new one
LockOf(c, l) == IF lockTable[c] = NoLock THEN NewLock(c, l) ELSE l = lockTable[c]

\* A slot is free.  The rate limiter may refuse; otherwise execution_lock picks
\* the lock object of the container.
AcquireSlot(r) ==
  /\ pc[r] = "x_slot"
  /\ SlotFree
  /\ \/ Leave(r, "done") /\ UNCHANGED lockTable
     \/ /\ slots' = slots - 1
        /\ \E l \in LockIds :
             /\ LockOf(cid[r], l)
             /\ lockTable' = [lockTable EXCEPT ![cid[r]] = l]
             /\ lock' = [lock EXCEPT ![r] = l]
        /\ pc' = [pc EXCEPT ![r] = "x_lock"]
        /\ UNCHANGED <<cid, op, end, obj, locked, creating>>
  /\ UNCHANGED <<now, docker, sessions, heap, reaping, admitted, bounds>>

AcquireLock(r) ==
  /\ pc[r] = "x_lock"
  /\ lock[r] \notin locked[cid[r]]
  /\ \/ cid[r] \notin Tracked /\ Leave(r, "done")
     \/ /\ cid[r] \in Tracked
        /\ locked' = [locked EXCEPT ![cid[r]] = @ \cup {lock[r]}]
        /\ obj' = [obj EXCEPT ![r] = sessions[cid[r]]]
        /\ pc' = [pc EXCEPT ![r] = "x_get"]
        /\ UNCHANGED <<cid, op, end, lock, slots, creating>>
  /\ UNCHANGED <<now, docker, store, reaping, admitted, bounds>>

\* the waits for the slot (30 s) and for the lock (timeout + 30 s)
WaitTimeout(r) ==
  /\ pc[r] \in {"x_slot", "x_lock"}
  /\ Leave(r, "done")
  /\ UNCHANGED <<now, docker, store, reaping, admitted, bounds>>

FetchContainer(r) ==
  /\ pc[r] = "x_get"
  /\ \/ Exists(cid[r]) /\ Goto(r, "x_got") /\ UNCHANGED store
     \/ ~Exists(cid[r]) /\ DeleteSession(cid[r]) /\ Leave(r, "done")
  /\ UNCHANGED <<now, docker, reaping, admitted, bounds>>

\* Mutant: off by one.
BudgetSpent_OffByOne(s) == s.count > MaxExecutions

BudgetSpent(s) == s.count >= MaxExecutions

\* Back from docker with the session object read before: lifetime, budget, then
\* one more execution is counted in that object and the object is saved.
AdmitExecution(r) ==
  /\ pc[r] = "x_got"
  /\ LET c == cid[r]
         s == heap[c][obj[r]]
     IN \/ /\ HardExpired(c) \/ BudgetSpent(s)
           /\ Goto(r, "rm_kill")
           /\ UNCHANGED <<store, admitted>>
        \/ /\ ~HardExpired(c)
           /\ ~BudgetSpent(s)
           /\ SaveSession(c, obj[r], [count |-> s.count + 1, last |-> now])
           /\ admitted' = [admitted EXCEPT ![c] = @ + 1]
           /\ Goto(r, "x_prep")
  /\ UNCHANGED <<now, docker, reaping, bounds>>

\* The .env file, the input files and exec_create need a running container; a bad
\* input file ends the request too.
Provision(r) ==
  /\ pc[r] = "x_prep"
  /\ \/ box[cid[r]].status = "up" /\ Goto(r, "x_start")
     \/ Leave(r, "done")
  /\ UNCHANGED <<now, docker, store, reaping, admitted, bounds>>

StartExec(r) ==
  /\ pc[r] = "x_start"
  /\ \/ /\ box[cid[r]].status = "up"
        /\ running' = [running EXCEPT ![cid[r]] = @ \cup {r}]
        /\ Goto(r, "x_run")
     \/ /\ box[cid[r]].status # "up"
        /\ Leave(r, "done")
        /\ UNCHANGED running
  /\ UNCHANGED <<now, box, store, reaping, admitted, bounds>>

\* User code ends by itself, whether or not a handler still waits for it.
CodeEnds(c, r) ==
  /\ r \in running[c]
  /\ running' = [running EXCEPT ![c] = @ \ {r}]
  /\ pc' = [pc EXCEPT ![r] = IF @ = "x_run" THEN "x_out" ELSE @]
  /\ UNCHANGED <<now, box, store, holdings, reaping, admitted, bounds>>

\* The output is there: parsed, it touches the session; unreadable, it does not.
FinishExec(r) ==
  /\ pc[r] = "x_out"
  /\ \/ /\ cid[r] \in Tracked
        /\ heap' = [heap EXCEPT ![cid[r]][sessions[cid[r]]].last = now]
     \/ UNCHANGED heap
  /\ Leave(r, "done")
  /\ UNCHANGED <<now, docker, sessions, lockTable, reaping, admitted, bounds>>

\* exec_start comes back because the container was killed or removed under it
ExecCut(r) ==
  /\ pc[r] = "x_run"
  /\ r \notin running[cid[r]]
  /\ Leave(r, "done")
  /\ UNCHANGED <<now, docker, store, reaping, admitted, bounds>>

\* Mutant: the handler gives up without tearing the container down.
ExecTimeout_NoTeardown(r) ==
  /\ pc[r] = "x_run"
  /\ Leave(r, "done")
  /\ UNCHANGED <<now, docker, store, reaping, admitted, bounds>>

ExecTimeout(r) ==
  /\ pc[r] = "x_run"
  /\ pc' = [pc EXCEPT ![r] = "rm_kill"]
  /\ end' = [end EXCEPT ![r] = "timed_out"]
  /\ UNCHANGED <<now, docker, store, cid, op, obj, lock, locked, slots, creating,
                 reaping, admitted, bounds>>

\* A docker call of the handler fails otherwise than with NotFound: the user
\* code, when there is some, goes on.
DockerError(r) ==
  /\ pc[r] \in {"a_get", "g_get", "x_get", "x_prep", "x_start", "x_run"}
  /\ Fault
  /\ Leave(r, "done")
  /\ UNCHANGED <<now, docker, store, reaping, admitted>>

-----------------------------------------------------------------------------
(***************************************************************************)
(* remove_container, run by a handler or by the cleanup task               *)
(***************************************************************************)
AfterRemoval(a) ==
  IF a = Reaper
  THEN /\ todo' = todo \ {cid[Reaper]}
       /\ Goto(Reaper, "scan")
       /\ UNCHANGED <<snap, listed>>
  ELSE Leave(a, end[a]) /\ UNCHANGED reaping

\* An exception remove_container does not suppress: 500, or the end of the
\* cleanup task's iteration.
Abort(a) ==
  IF a = Reaper
  THEN /\ Goto(Reaper, "sleep")
       /\ snap' = {} /\ todo' = {} /\ listed' = {}
  ELSE Leave(a, "done") /\ UNCHANGED reaping

\* Mutant: a container docker does not know is nothing to do.
RmGet_KeepsRecord(a) ==
  /\ pc[a] = "rm_get"
  /\ \/ Exists(cid[a]) /\ Goto(a, "rm_kill") /\ UNCHANGED reaping
     \/ ~Exists(cid[a]) /\ AfterRemoval(a)
  /\ UNCHANGED <<now, docker, store, admitted, bounds>>

RmGet(a) ==
  /\ pc[a] = "rm_get"
  /\ \/ Exists(cid[a]) /\ Goto(a, "rm_kill") /\ UNCHANGED <<store, reaping>>
     \/ ~Exists(cid[a]) /\ DeleteSession(cid[a]) /\ AfterRemoval(a)
  /\ UNCHANGED <<now, docker, admitted, bounds>>

\* kill stops everything in the container; its failures are suppressed
RmKill(a) ==
  /\ pc[a] = "rm_kill"
  /\ \/ /\ box' = [box EXCEPT ![cid[a]].status = IF @ = "up" THEN "dead" ELSE @]
        /\ running' = [running EXCEPT ![cid[a]] = {}]
        /\ UNCHANGED bounds
     \/ Fault /\ UNCHANGED docker
  /\ Goto(a, "rm_remove")
  /\ UNCHANGED <<now, store, reaping, admitted>>

\* Mutant: killed, but not removed.
RmRemove_KillOnly(a) ==
  /\ pc[a] = "rm_remove"
  /\ Goto(a, "rm_confirm")
  /\ UNCHANGED <<now, docker, store, reaping, admitted, bounds>>

\* remove(force=True), the daemon's side; NotFound counts as removed
RmRemove(a) ==
  /\ pc[a] = "rm_remove"
  /\ box' = [box EXCEPT ![cid[a]].status = "gone"]
  /\ running' = [running EXCEPT ![cid[a]] = {}]
  /\ Goto(a, "rm_confirm")
  /\ UNCHANGED <<now, store, reaping, admitted, bounds>>

RmConfirm(a) ==
  /\ pc[a] = "rm_confirm"
  /\ DeleteSession(cid[a])
  /\ AfterRemoval(a)
  /\ UNCHANGED <<now, docker, admitted, bounds>>

\* Mutant: the session is dropped although the removal failed.
RmUnconfirmed_Forgets(a) ==
  /\ pc[a] = "rm_remove"
  /\ Fault
  /\ DeleteSession(cid[a])
  /\ AfterRemoval(a)
  /\ UNCHANGED <<now, docker, admitted>>

\* The removal fails, or its answer is lost: the session is kept.
RmUnconfirmed(a) ==
  /\ pc[a] = "rm_remove"
  /\ Fault
  /\ \/ UNCHANGED docker
     \/ /\ box' = [box EXCEPT ![cid[a]].status = "gone"]
        /\ running' = [running EXCEPT ![cid[a]] = {}]
  /\ AfterRemoval(a)
  /\ UNCHANGED <<now, store, admitted>>

RmRaises(a) ==
  /\ pc[a] \in {"rm_get", "rm_kill", "rm_remove"}
  /\ Fault
  /\ Abort(a)
  /\ UNCHANGED <<now, docker, store, admitted>>

-----------------------------------------------------------------------------
(***************************************************************************)
(* cleanup_idle_containers                                                 *)
(***************************************************************************)
ReaperScan ==
  /\ pc[Reaper] = "sleep"
  /\ snap' = Tracked
  /\ todo' = {c \in Tracked : ~Active(c)}
  /\ Goto(Reaper, "scan")
  /\ UNCHANGED <<now, docker, store, listed, admitted, bounds>>

ReaperNext ==
  /\ pc[Reaper] = "scan"
  /\ \E c \in todo : cid' = [cid EXCEPT ![Reaper] = c]
  /\ pc' = [pc EXCEPT ![Reaper] = "rm_get"]
  /\ UNCHANGED <<now, docker, store, op, end, obj, lock, locked, slots, creating,
                 reaping, admitted, bounds>>

\* Mutant: docker lists the running containers only.
ReaperList_RunningOnly ==
  /\ pc[Reaper] = "scan"
  /\ todo = {}
  /\ \/ /\ listed' = {c \in Cids : box[c].status = "up"}
        /\ Goto(Reaper, "listed")
        /\ UNCHANGED <<snap, todo, bounds>>
     \/ Fault /\ Abort(Reaper)
  /\ UNCHANGED <<now, docker, store, admitted>>

\* docker lists what exists, running or not; a failure ends the iteration
ReaperList ==
  /\ pc[Reaper] = "scan"
  /\ todo = {}
  /\ \/ /\ listed' = {c \in Cids : Exists(c)}
        /\ Goto(Reaper, "listed")
        /\ UNCHANGED <<snap, todo, bounds>>
     \/ Fault /\ Abort(Reaper)
  /\ UNCHANGED <<now, docker, store, admitted>>

\* Containers of the list that were not in the snapshot, and still have no
\* session, get one from their labels.
ReaperRecover ==
  /\ pc[Reaper] = "listed"
  /\ LET lost == (listed \ snap) \ Tracked IN
       \E k \in [Cids -> ObjIds] :
         /\ \A c \in Cids : NewObj(c, k[c])
         /\ sessions' = [c \in Cids |-> IF c \in lost THEN k[c] ELSE sessions[c]]
         /\ heap' = [c \in Cids |-> IF c \in lost
                                    THEN [heap[c] EXCEPT ![k[c]] = Recovered(c)]
                                    ELSE heap[c]]
  /\ Abort(Reaper)
  /\ UNCHANGED <<now, docker, lockTable, admitted, bounds>>

-----------------------------------------------------------------------------
(***************************************************************************)
(* lifespan: an empty memory, then recovery of the running containers,     *)
(* unless docker's list fails; requests are served only after it.          *)
(***************************************************************************)
EmptySession == [count |-> 0, last |-> 0]
NobodyYet == CHOOSE p \in Principals : TRUE     \* until the container is created

Startup(boxes, recovers) ==
  \E k \in ObjIds :
    /\ \A j \in ObjIds : k <= j
    /\ sessions' = [c \in Cids |-> IF recovers /\ boxes[c].status = "up" THEN k ELSE NoObj]
    /\ heap' = [c \in Cids |-> [j \in ObjIds |->
                  IF sessions'[c] = j THEN [count |-> 0, last |-> boxes[c].born]
                                      ELSE EmptySession]]

Restart ==
  /\ restarts < MaxRestarts
  /\ restarts' = restarts + 1
  /\ box' = [c \in Cids |-> [box[c] EXCEPT !.status = IF @ = "starting" THEN "gone" ELSE @]]
  /\ \E recovers \in {TRUE, ~StartupListFails} : Startup(box', recovers)
  /\ lockTable' = [c \in Cids |-> NoLock]
  /\ locked' = [c \in Cids |-> {}]
  /\ slots' = MaxConcurrent
  /\ creating' = None
  /\ pc' = [a \in Actors |-> IF a = Reaper THEN "sleep"
                             ELSE IF pc[a] \in Outcomes \cup {"idle"} THEN pc[a]
                             ELSE "lost"]
  /\ op' = [r \in Reqs |-> "none"]
  /\ end' = [r \in Reqs |-> "done"]
  /\ obj' = [r \in Reqs |-> NoObj]
  /\ lock' = [r \in Reqs |-> NoLock]
  /\ snap' = {} /\ todo' = {} /\ listed' = {}
  /\ UNCHANGED <<now, running, cid, admitted, faults>>

\* MaxNow bounds the clock; at CreateUntil, time waits for the creations that have begun
Tick ==
  /\ now < MaxNow
  /\ now + 1 <= CreateUntil \/ \A r \in Reqs : pc[r] # "c_guard"
  /\ now' = now + 1
  /\ UNCHANGED <<docker, store, pc, holdings, reaping, admitted, bounds>>

Init ==
  /\ now = 0
  /\ box \in [Cids -> [status : {"unused", "up"}, owner : Principals, created : {0},
                       born : {0}, expires : {Lifetime}, known : BOOLEAN]]
  /\ \A c \in Cids : /\ (box[c].status = "up") <=> c \in Inherited
                     /\ box[c].known <=> c \in Inherited
                     /\ c \notin Inherited => box[c].owner = NobodyYet
  /\ running = [c \in Cids |-> {}]
  /\ \E recovers \in {TRUE, ~StartupListFails}, k \in ObjIds :
       /\ \A j \in ObjIds : k <= j
       /\ sessions = [c \in Cids |-> IF recovers /\ c \in Inherited THEN k ELSE NoObj]
  /\ heap = [c \in Cids |-> [j \in ObjIds |-> EmptySession]]
  /\ lockTable = [c \in Cids |-> NoLock]
  /\ locked = [c \in Cids |-> {}]
  /\ slots = MaxConcurrent
  /\ creating = None
  /\ pc = [a \in Actors |-> IF a = Reaper THEN "sleep" ELSE "idle"]
  /\ cid = [a \in Actors |-> None]
  /\ op = [r \in Reqs |-> "none"]
  /\ end = [r \in Reqs |-> "done"]
  /\ obj = [r \in Reqs |-> NoObj]
  /\ lock = [r \in Reqs |-> NoLock]
  /\ snap = {} /\ todo = {} /\ listed = {}
  /\ admitted = [c \in Cids |-> 0]
  /\ faults = 0
  /\ restarts = 0

-----------------------------------------------------------------------------
CreateNext(r) ==
  \/ EnterGuard(r) \/ DockerRun(r) \/ FinishCreate(r)

AccessNext(r) ==
  \/ EnsureSession(r) \/ LookUpContainer(r) \/ RecoverSession(r) \/ Inspect(r)

ExecuteNext(r) ==
  \/ AcquireSlot(r) \/ AcquireLock(r) \/ FetchContainer(r) \/ AdmitExecution(r)
  \/ Provision(r) \/ StartExec(r) \/ FinishExec(r) \/ ExecCut(r) \/ ExecTimeout(r)

RemovalNext(a) ==
  \/ RmGet(a) \/ RmKill(a) \/ RmRemove(a) \/ RmConfirm(a)

ReaperNextStep ==
  \/ ReaperScan \/ ReaperNext \/ ReaperList \/ ReaperRecover \/ RemovalNext(Reaper)

\* what a handler does by itself once its request has begun
HandlerStep(r) == CreateNext(r) \/ AccessNext(r) \/ ExecuteNext(r) \/ RemovalNext(r)

Next ==
  \/ \E r \in Reqs : \/ BeginCreate(r) \/ BeginAccess(r)
                     \/ HandlerStep(r)
                     \/ GuardTimeout(r) \/ WaitTimeout(r)
                     \/ DockerRunFails(r) \/ EnvProvisionFails(r) \/ DockerError(r)
  \/ \E a \in Actors : RmUnconfirmed(a) \/ RmRaises(a)
  \/ \E c \in Cids, r \in Reqs : CodeEnds(c, r)
  \/ ReaperNextStep
  \/ Restart
  \/ Tick

Spec == Init /\ [][Next]_vars

(***************************************************************************)
(* The event loop runs every handler that can go on, docker answers, the   *)
(* timer of an execution fires, the cleanup task wakes up, time passes.    *)
(* Nothing obliges user code to end, a client to call, a wait for a lock   *)
(* or a slot to time out, or anything to fail.                             *)
(***************************************************************************)
FairSpec ==
  /\ Spec
  /\ \A r \in Reqs : WF_vars(HandlerStep(r))
  /\ WF_vars(ReaperNextStep)
  /\ WF_vars(Tick)

-----------------------------------------------------------------------------
(***************************************************************************)
(* Properties                                                              *)
(***************************************************************************)
BoxType == [status : BoxStates, owner : Principals, created : Nat, born : Nat,
            expires : Nat, known : BOOLEAN]

DockerType ==
  /\ box \in [Cids -> BoxType]
  /\ running \in [Cids -> SUBSET Reqs]

StoreType ==
  /\ sessions \in [Cids -> ObjIds \cup {NoObj}]
  /\ heap \in [Cids -> [ObjIds -> [count : Nat, last : Nat]]]
  /\ lockTable \in [Cids -> LockIds \cup {NoLock}]

HandlerType ==
  /\ pc \in [Actors -> Steps]
  /\ cid \in [Actors -> Cids \cup {None}]
  /\ op \in [Reqs -> {"none", "create", "execute", "delete", "inspect"}]
  /\ end \in [Reqs -> {"done", "deleted", "timed_out"}]
  /\ obj \in [Reqs -> ObjIds \cup {NoObj}]
  /\ lock \in [Reqs -> LockIds \cup {NoLock}]
  /\ locked \in [Cids -> SUBSET LockIds]
  /\ slots \in Nat
  /\ creating \in Reqs \cup {None}

ReaperType == snap \in SUBSET Cids /\ todo \in SUBSET Cids /\ listed \in SUBSET Cids

CounterType ==
  now \in Nat /\ admitted \in [Cids -> Nat] /\ faults \in Nat /\ restarts \in Nat

\* Every variable keeps its type; the semaphore never goes below zero.
TypeOK == DockerType /\ StoreType /\ HandlerType /\ ReaperType /\ CounterType

(***************************************************************************)
(* The inductive invariant behind LockExclusion                            *)
(***************************************************************************)
ContainerSteps == AccessSteps \cup ExecSteps \cup RemovalSteps \cup {"g_get", "c_ran"}
LockSteps == (ExecSteps \ {"x_slot"}) \cup RemovalSteps

\* docker has, or had, the container
Real(c) == box[c].status \in {"up", "dead", "gone"}

\* A handler is about a container that exists or existed, and so is every session
\* record; the one container that is being created belongs to the guard's holder.
PlacesInv ==
  /\ \A a \in Actors : pc[a] \in ContainerSteps => cid[a] \in Cids /\ Real(cid[a])
  /\ \A c \in Cids : box[c].known \/ c \in Tracked => Real(c)
  /\ \A c \in todo \cup listed : Real(c)
  /\ \A r \in Reqs : pc[r] = "c_run" => /\ creating = r
                                        /\ cid[r] \in Cids
                                        /\ box[cid[r]].status = "starting"
  /\ \A r \in Reqs : pc[r] \in {"x_get", "x_got"} => obj[r] \in ObjIds

\* A confirmed removal is a fact.
ConfirmInv == \A a \in Actors : pc[a] = "rm_confirm" => box[cid[a]].status = "gone"

\* Who is past execution_lock holds its lock object and shares it with nobody; and
\* as long as the container is not gone, the object is the one in the table.
LockInv ==
  /\ \A r \in Reqs : lock[r] # NoLock => pc[r] \in LockSteps
  /\ \A r \in Reqs : pc[r] = "x_lock" => lock[r] # NoLock
  /\ \A r \in Reqs : InLock(r) => lock[r] \in locked[cid[r]]
  /\ \A r1, r2 \in Reqs : r1 # r2 /\ InLock(r1) /\ InLock(r2) /\ cid[r1] = cid[r2]
                            => lock[r1] # lock[r2]
  /\ \A r \in Reqs : lock[r] # NoLock /\ box[cid[r]].status # "gone"
                       => lockTable[cid[r]] = lock[r]

Inductive == TypeOK /\ PlacesInv /\ ConfirmInv /\ LockInv

\* Two handlers are inside the execution lock of one container only when that
\* container is gone: delete_session drops the lock object from the table while
\* somebody may hold it or wait for it, and the next request makes a second one
\* (state.py, delete_session and execution_lock).
LockExclusion ==
  \A r1, r2 \in Reqs :
    r1 # r2 /\ InLock(r1) /\ InLock(r2) /\ cid[r1] = cid[r2]
      => box[cid[r1]].status = "gone"

\* At most one execution's user code is alive in a container.
CodeExclusion == \A c \in Cids : Cardinality(running[c]) <= 1

\* A response that says the container was removed ("Container ... removed." of
\* delete_container, "Container removed." of a timed-out execution) is true.
RemovalClaims ==
  \A r \in Reqs : pc[r] \in {"deleted", "timed_out"} => box[cid[r]].status = "gone"

\* A container admits at most MAX_EXECUTIONS_PER_SESSION executions.
BudgetKept == \A c \in Cids : admitted[c] <= MaxExecutions

\* The creation guard makes the limits exact for young sessions: of those created
\* less than an idle timeout ago, no more are alive than the limits allow, per
\* principal and in total, however their creations interleaved.
Young == {c \in Tracked : /\ box[c].status = "up" /\ box[c].known
                          /\ now - box[c].created <= IdleTimeout /\ ~HardExpired(c)}
YoungQuota ==
  /\ Cardinality(Young) <= MaxActive
  /\ \A p \in Principals :
       Cardinality({c \in Young : box[c].owner = p}) <= MaxPerPrincipal

\* Every slot of execution_semaphore is free or held by one request in flight: no
\* way out of execute_code loses or returns one twice.
SlotsConserved ==
  slots + Cardinality({r \in Reqs : lock[r] # NoLock}) = MaxConcurrent

InFlight == {r \in Reqs : pc[r] \notin Outcomes \cup {"idle"}}

\* No deadlock between the creation guard, the slots, the container locks and the
\* docker calls: whatever is in flight ends, even if none of its waits times out.
\* (A request that began is never idle again, so this says that each of them ends.)
RequestsEnd == []<>(InFlight = {})

\* Every container docker has is removed in the end, the ones no handler
\* remembers (failed creation, unconfirmed removal, restart) included.
ContainersReclaimed == \A c \in Cids : Exists(c) ~> box[c].status = "gone"

\* Every session record is dropped in the end, the ones of containers that are
\* already gone (saved by a handler that was at docker meanwhile) included: again
\* and again there is none at all.
RecordsDropped == []<>(Tracked = {})

-----------------------------------------------------------------------------
(***************************************************************************)
(* The core implements the contract of the session layer.                  *)
(***************************************************************************)
Phase(c) == CASE box[c].status \in {"unused", "starting"} -> "absent"
              [] box[c].status \in {"up", "dead"} -> "present"
              [] OTHER -> "gone"

Holders(c) == {r \in Reqs : InLock(r) /\ cid[r] = c}

Contract == INSTANCE SessionContract WITH
  phase <- [c \in Cids |-> Phase(c)],
  tracked <- Tracked,
  holders <- [c \in Cids |-> Holders(c)],
  epoch <- restarts

\* Every step of the core is a step of SessionContract, or none of its business.
ContractKept == Contract!Spec
=============================================================================
