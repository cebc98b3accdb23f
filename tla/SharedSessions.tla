---------------------------- MODULE SharedSessions ----------------------------
(***************************************************************************)
(* Several gateways (gateway/app.py) that share one Redis                  *)
(* (RedisStateBackend of gateway/state.py).  Nothing is shared in memory:  *)
(* a session is a hash with a time to live, handlers work on copies of it, *)
(* locks are leases that Redis lets run out, and every command or MULTI    *)
(* pipeline is a step, like every docker call.                             *)
(*                                                                         *)
(* Docker answers every call here, there is one principal and no rate      *)
(* limit: GatewaySessions has those.  This module is about what changes    *)
(* with Redis: when each piece of shared state is read and written, and    *)
(* by whom in between.                                                     *)
(***************************************************************************)
EXTENDS Integers, FiniteSets

CONSTANTS
  Cids,               \* container ids
  Inherited,          \* those that run, with a session, when it all begins
  Reqs,               \* requests
  Gateways,           \* gateway processes; each is also its own cleanup task
  At,                 \* the gateway a request is sent to
  Daemon,             \* the docker daemon of a gateway
  None,
  RequireSharedState, \* the gateways that run with REQUIRE_SHARED_STATE
  MaxActive,          \* MAX_ACTIVE_SESSIONS
  MaxExecutions,      \* MAX_EXECUTIONS_PER_SESSION
  IdleTimeout,        \* SESSION_TIMEOUT_SECONDS
  Lifetime,           \* MAX_SESSION_LIFETIME_SECONDS
  Grace,              \* SESSION_TTL_GRACE_SECONDS
  ExecLease,          \* the "timeout" of an execution lock
  GuardLease,         \* the "timeout" of the creation guard
  RunTime,            \* how long the executor lets code run by itself (EXEC_TIMEOUT)
  Sweepers,           \* the gateways whose cleanup task wakes up
  MaxHold,            \* how long a handler that lives stays inside either
  MaxStart,           \* how long it takes from the execution lock to the user code
  MaxNow,             \* bound on the clock
  MaxCrashes          \* bound on the crashes

ASSUME SharedAssumption ==
  /\ Reqs \cap Gateways = {} /\ None \notin Cids \cup Reqs /\ Gateways # {}
  /\ Inherited \subseteq Cids
  /\ At \in [Reqs -> Gateways] /\ Sweepers \subseteq Gateways
  /\ {MaxActive, MaxExecutions, IdleTimeout, Lifetime, Grace, RunTime, MaxHold,
      MaxStart, MaxNow, MaxCrashes} \subseteq Nat
  /\ {ExecLease, GuardLease} \subseteq Nat \ {0}
  /\ RequireSharedState \subseteq Gateways

Actors == Reqs \cup Gateways
Gw(a) == IF a \in Gateways THEN a ELSE At[a]
Requires(a) == Gw(a) \in RequireSharedState

VARIABLES
  now,       \* the time, the same everywhere
  box,       \* docker: status, daemon, creation and expires-at of a container
  running,   \* the user code alive in a container: whose, and since when
  hash,      \* gateway:session:<id>: execution_count, last_activity
  dies,      \* when Redis expires that key
  index,     \* gateway:sessions:index
  guard,     \* gateway:lock:container-create: owner and end of the lease
  xlock,     \* gateway:lock:exec:<id>
  act,       \* the actors: where each is suspended, and its local variables
  known,     \* container ids that clients were told
  admitted,  \* executions a container admitted (history)
  disowned,  \* containers a recovery chose to remove: no session of theirs (history)
  crashes

docker == <<box, running>>
store == <<hash, dies, index>>
leases == <<guard, xlock>>
history == <<known, admitted, disowned, crashes>>
vars == <<now, docker, store, leases, act, history>>

NoSession == [count |-> -1, last |-> 0]
NoLease == [by |-> None, until |-> 0]
Outcomes == {"done", "created", "lost"}

\* pc: where it is suspended; cid: the container; copy: its SessionInfo; after:
\* where it goes when a lock, a backend call or a removal is over; ids: what
\* SMEMBERS answered; stamp: its "now"; todo: idle_ids, or what is to be recovered;
\* snap: the sessions the cleanup task saw.  What is not read again is forgotten.
Fresh(p) == [pc |-> p, cid |-> None, op |-> "none", copy |-> NoSession, after |-> "done",
             ids |-> {}, stamp |-> 0, todo |-> {}, snap |-> {}]

Stored == {c \in Cids : hash[c] # NoSession}
\* session_is_local
Local(a, c) == box[c].home = Daemon[Gw(a)]
Up(c) == box[c].status = "up"
HardExpired(c) == now >= box[c].expires
\* session_is_active, with the caller's "now"
Active(c, s, t) == t - s.last <= IdleTimeout /\ t < box[c].expires

\* _session_ttl: the shorter of idle timeout and remaining lifetime, and a grace
Ttl(c) ==
  LET left == IF box[c].expires - now > 1 THEN box[c].expires - now ELSE 1
  IN (IF IdleTimeout < left THEN IdleTimeout ELSE left) + Grace

Put(c, s) ==
  /\ hash' = [hash EXCEPT ![c] = s]
  /\ dies' = [dies EXCEPT ![c] = now + Ttl(c)]

\* save_session: HSET, EXPIRE and SADD in one transaction
Save(c, s) == Put(c, s) /\ index' = index \cup {c}

\* delete_session: DEL and SREM in one transaction
Delete(c) ==
  /\ hash' = [hash EXCEPT ![c] = NoSession]
  /\ dies' = [dies EXCEPT ![c] = 0]
  /\ index' = index \ {c}

\* Mutant: the execution count is forgotten.
Recovered_NoCount(c) == [last |-> box[c].born]

\* recover_session_info
Recovered(c) == [count |-> 0, last |-> box[c].born]

Pc(a) == act[a].pc
Goto(a, p) == act' = [act EXCEPT ![a].pc = p]

\* A handler returns; a lease it took is given back first, in a call of its own.
TookLease(a) == guard.by = a \/ \E c \in Cids : xlock[c].by = a
Leave(a, outcome) ==
  act' = [act EXCEPT ![a] = IF TookLease(a)
                            THEN [Fresh("release") EXCEPT !.after = outcome]
                            ELSE Fresh(outcome)]

\* Lock.release deletes a key only while it holds the caller's token
Release(r) ==
  /\ Pc(r) = "release"
  /\ guard' = IF guard.by = r THEN NoLease ELSE guard
  /\ xlock' = [c \in Cids |-> IF xlock[c].by = r THEN NoLease ELSE xlock[c]]
  /\ act' = [act EXCEPT ![r] = Fresh(@.after)]
  /\ UNCHANGED <<now, docker, store, history>>

-----------------------------------------------------------------------------
(***************************************************************************)
(* list_sessions: SMEMBERS, a pipeline of HGETALL, and SREM of the ids     *)
(* that have no hash.  The creator counts, the cleanup task picks.         *)
(***************************************************************************)
ListMembers(a) ==
  /\ Pc(a) = "l_members"
  /\ act' = [act EXCEPT ![a].pc = "l_hashes", ![a].ids = index, ![a].stamp = now]
  /\ UNCHANGED <<now, docker, store, leases, history>>

\* Mutant: one session too many.
LimitReached_OneMore(seen, t) ==
  Cardinality({c \in seen : Active(c, hash[c], t)}) > MaxActive

\* enforce_container_creation_limits
LimitReached(seen, t) ==
  Cardinality({c \in seen : Active(c, hash[c], t)}) >= MaxActive

\* Mutant: those that are active too.
IdleIds_All(g, seen) == {c \in seen : Local(g, c)}

\* cleanup_idle_containers
IdleIds(g, seen) == {c \in seen : Local(g, c) /\ ~Active(c, hash[c], act[g].stamp)}

ListHashes(a) ==
  /\ Pc(a) = "l_hashes"
  /\ LET seen == act[a].ids \cap Stored
         stale == act[a].ids \ Stored
         next == IF a \in Gateways THEN "scan"
                 ELSE IF LimitReached(seen, act[a].stamp) THEN "release" ELSE "c_run"
     IN act' = [act EXCEPT ![a].ids = stale, ![a].stamp = 0,
                           ![a].snap = IF a \in Gateways THEN seen ELSE {},
                           ![a].todo = IF a \in Gateways THEN IdleIds(a, seen) ELSE {},
                           ![a].after = IF stale # {} THEN next ELSE "done",
                           ![a].pc = IF stale # {} THEN "l_stale" ELSE next]
  /\ UNCHANGED <<now, docker, store, leases, history>>

\* Mutant: ids without a session are left in the index.
ListStale_Leaves(a) ==
  /\ Pc(a) = "l_stale"
  /\ act' = [act EXCEPT ![a].ids = {}, ![a].pc = act[a].after, ![a].after = "done"]
  /\ UNCHANGED <<now, docker, store, leases, history>>

ListStale(a) ==
  /\ Pc(a) = "l_stale"
  /\ index' = index \ act[a].ids
  /\ act' = [act EXCEPT ![a].ids = {}, ![a].pc = act[a].after, ![a].after = "done"]
  /\ UNCHANGED <<now, docker, hash, dies, leases, history>>

-----------------------------------------------------------------------------
(***************************************************************************)
(* POST /containers                                                        *)
(***************************************************************************)
\* A bound: sessions begin early enough to expire by MaxNow.
InTimeToExpire == now + Lifetime + Grace <= MaxNow

\* What a client can ask: a new session, or something about a container it was
\* told of.
Begin(r) ==
  /\ Pc(r) = "idle"
  /\ Pc(At[r]) \notin {"down", "boot"}
  /\ \/ /\ InTimeToExpire
        /\ act' = [act EXCEPT ![r].pc = "c_guard", ![r].op = "create"]
     \/ \E c \in known, o \in {"execute", "delete"} :
          act' = [act EXCEPT ![r].pc = "a_get", ![r].cid = c, ![r].op = o]
  /\ UNCHANGED <<now, docker, store, leases, history>>

\* Mutant: SET without NX.
Free_Always(lease) == TRUE

\* SET NX PX
Free(lease) == lease = NoLease

AcquireGuard(r) ==
  /\ Pc(r) = "c_guard"
  /\ Free(guard) /\ InTimeToExpire
  /\ guard' = [by |-> r, until |-> now + GuardLease]
  /\ Goto(r, "l_members")
  /\ UNCHANGED <<now, docker, store, xlock, history>>

\* create_container_session; docker run fails when Cids is used up
DockerRun(r) ==
  /\ Pc(r) = "c_run"
  /\ \/ \E c \in Cids :
          /\ box[c].status = "unused"
          /\ box' = [box EXCEPT ![c] = [status |-> "up", home |-> Daemon[At[r]],
                                        born |-> now, expires |-> now + Lifetime]]
          /\ act' = [act EXCEPT ![r].cid = c, ![r].pc = "c_env",
                                ![r].copy = [count |-> 0, last |-> now]]
     \/ /\ \A c \in Cids : box[c].status # "unused"
        /\ Leave(r, "done")
        /\ UNCHANGED box
  /\ UNCHANGED <<now, running, store, leases, history>>

\* ensure_sandbox_env_file needs a running container
ProvisionEnv(r) ==
  /\ Pc(r) = "c_env"
  /\ Goto(r, IF Up(act[r].cid) THEN "c_save" ELSE "rm_kill")
  /\ UNCHANGED <<now, docker, store, leases, history>>

SaveCreated(r) ==
  /\ Pc(r) = "c_save"
  /\ Save(act[r].cid, act[r].copy)
  /\ act' = [act EXCEPT ![r].pc = "c_check", ![r].copy = NoSession]
  /\ UNCHANGED <<now, docker, leases, history>>

\* create_container asks the store, not docker, whether the session is there
CheckCreated(r) ==
  /\ Pc(r) = "c_check"
  /\ \/ /\ act[r].cid \in Stored
        /\ known' = known \cup {act[r].cid}
        /\ Leave(r, "created")
     \/ act[r].cid \notin Stored /\ Leave(r, "done") /\ UNCHANGED known
  /\ UNCHANGED <<now, docker, store, leases, admitted, disowned, crashes>>

-----------------------------------------------------------------------------
(***************************************************************************)
(* ensure_session_access                                                   *)
(***************************************************************************)
\* on this daemon, and not at the end of its life
Admit(r) ==
  LET c == act[r].cid IN
    \/ ~Local(r, c) /\ Leave(r, "done")
    \/ Local(r, c) /\ (act[r].op = "delete" \/ HardExpired(c)) /\ Goto(r, "rm_get")
    \/ Local(r, c) /\ act[r].op = "execute" /\ ~HardExpired(c) /\ Goto(r, "x_lock")

GetAccess(r) ==
  /\ Pc(r) = "a_get"
  /\ IF act[r].cid \in Stored THEN Admit(r) ELSE Goto(r, "a_docker")
  /\ UNCHANGED <<now, docker, store, leases, history>>

LookUpContainer(r) ==
  /\ Pc(r) = "a_docker"
  /\ IF Up(act[r].cid) /\ Local(r, act[r].cid)
     THEN Goto(r, IF Requires(r) THEN "rm_kill" ELSE "a_save")
     ELSE Leave(r, "done")
  /\ UNCHANGED <<now, docker, store, leases, history>>

SaveRecovered(r) ==
  /\ Pc(r) = "a_save"
  /\ Save(act[r].cid, Recovered(act[r].cid))
  /\ Admit(r)
  /\ UNCHANGED <<now, docker, leases, history>>

-----------------------------------------------------------------------------
(***************************************************************************)
(* POST /execute under execution_lock: run_code_in_sandbox                 *)
(***************************************************************************)
AcquireExec(r) ==
  /\ Pc(r) = "x_lock"
  /\ Free(xlock[act[r].cid])
  /\ xlock' = [xlock EXCEPT ![act[r].cid] = [by |-> r, until |-> now + ExecLease]]
  /\ Goto(r, "x_get")
  /\ UNCHANGED <<now, docker, store, guard, history>>

\* blocking_timeout runs out
WaitTimeout(r) ==
  /\ Pc(r) \in {"c_guard", "x_lock"}
  /\ Leave(r, "done")
  /\ UNCHANGED <<now, docker, store, leases, history>>

\* get_session of the handler, and of touch_session, which goes on without one
GetSession(r) ==
  /\ Pc(r) \in {"x_get", "t_get"}
  /\ \/ /\ act[r].cid \in Stored
        /\ act' = [act EXCEPT ![r].copy = hash[act[r].cid],
                              ![r].pc = IF @ = "x_get" THEN "x_docker" ELSE "t_set"]
     \/ /\ act[r].cid \notin Stored
        /\ IF Pc(r) = "t_get" /\ act[r].after = "x_start"
           THEN Goto(r, "x_start") ELSE Leave(r, "done")
  /\ UNCHANGED <<now, docker, store, leases, history>>

\* docker's answer, and what the handler makes of its copy when it has it:
\* lifetime, then budget
FetchContainer(r) ==
  /\ Pc(r) = "x_docker"
  /\ LET c == act[r].cid IN
       Goto(r, IF ~Up(c) THEN "rm_drop"
               ELSE IF HardExpired(c) \/ act[r].copy.count >= MaxExecutions THEN "rm_kill"
               ELSE "x_save")
  /\ UNCHANGED <<now, docker, store, leases, history>>

\* one more execution, written from the copy
SaveCounted(r) ==
  /\ Pc(r) = "x_save"
  /\ Save(act[r].cid, [count |-> act[r].copy.count + 1, last |-> now])
  /\ admitted' = [admitted EXCEPT ![act[r].cid] = @ + 1]
  /\ act' = [act EXCEPT ![r].pc = "t_get", ![r].after = "x_start",
                        ![r].copy = NoSession]
  /\ UNCHANGED <<now, docker, leases, known, disowned, crashes>>

\* touch_session writes all it read, without SADD
TouchSession(r) ==
  /\ Pc(r) = "t_set"
  /\ Put(act[r].cid, [act[r].copy EXCEPT !.last = now])
  /\ IF act[r].after = "x_start"
     THEN act' = [act EXCEPT ![r].pc = "x_start", ![r].copy = NoSession]
     ELSE Leave(r, "done")
  /\ UNCHANGED <<now, docker, index, leases, history>>

\* files, exec_create and exec_start: all need the container
StartExec(r) ==
  /\ Pc(r) = "x_start"
  /\ \/ /\ Up(act[r].cid)
        /\ running' = [running EXCEPT ![act[r].cid] = @ \cup {[by |-> r, since |-> now]}]
        /\ act' = [act EXCEPT ![r].pc = "x_run", ![r].after = "done"]
     \/ ~Up(act[r].cid) /\ Leave(r, "done") /\ UNCHANGED running
  /\ UNCHANGED <<now, box, store, leases, history>>

\* The user code ends, whether or not its handler lives; a result is a touch.
CodeEnds(r) ==
  /\ \E c \in Cids : \E x \in running[c] :
       x.by = r /\ running' = [running EXCEPT ![c] = @ \ {x}]
  /\ Goto(r, IF Pc(r) = "x_run" THEN "t_get" ELSE Pc(r))
  /\ UNCHANGED <<now, box, store, leases, history>>

\* Mutant: the handler gives up without tearing the container down.
ExecEnds_NoTeardown(r) ==
  /\ Pc(r) = "x_run"
  /\ Leave(r, "done")
  /\ UNCHANGED <<now, docker, store, leases, history>>

\* the timeout; or exec_start comes back as the container was removed under it
ExecEnds(r) ==
  /\ Pc(r) = "x_run"
  /\ IF \E x \in running[act[r].cid] : x.by = r THEN Goto(r, "rm_kill") ELSE Leave(r, "done")
  /\ UNCHANGED <<now, docker, store, leases, history>>

-----------------------------------------------------------------------------
(***************************************************************************)
(* remove_container; who has the container enters at rm_kill               *)
(***************************************************************************)
Finish(a) == IF a \in Gateways THEN Goto(a, act[a].after) ELSE Leave(a, "done")

\* get_session: a remote container is refused; docker get: NotFound is removed
RmGet(a) ==
  /\ Pc(a) = "rm_get"
  /\ LET c == act[a].cid IN
       IF ~Local(a, c) THEN Finish(a)
       ELSE Goto(a, IF Up(c) THEN "rm_kill" ELSE "rm_drop")
  /\ UNCHANGED <<now, docker, store, leases, history>>

\* Mutant: killed, but not removed.
RmKill_KillOnly(a) ==
  /\ Pc(a) = "rm_kill"
  /\ running' = [running EXCEPT ![act[a].cid] = {}]
  /\ Goto(a, "rm_drop")
  /\ UNCHANGED <<now, box, store, leases, history>>

\* kill and remove, one step here
RmKill(a) ==
  /\ Pc(a) = "rm_kill"
  /\ box' = [box EXCEPT ![act[a].cid].status = "gone"]
  /\ running' = [running EXCEPT ![act[a].cid] = {}]
  /\ Goto(a, "rm_drop")
  /\ UNCHANGED <<now, store, leases, history>>

RmDrop(a) ==
  /\ Pc(a) = "rm_drop"
  /\ Delete(act[a].cid)
  /\ Finish(a)
  /\ UNCHANGED <<now, docker, leases, history>>

-----------------------------------------------------------------------------
(***************************************************************************)
(* cleanup_idle_containers, lifespan and the end of a process              *)
(***************************************************************************)
WakeUp(g) ==
  /\ Pc(g) = "sleep"
  /\ g \in Sweepers
  /\ Goto(g, "l_members")
  /\ UNCHANGED <<now, docker, store, leases, history>>

Reap(g) ==
  /\ Pc(g) = "scan"
  /\ \E c \in act[g].todo :
       act' = [act EXCEPT ![g].cid = c, ![g].todo = @ \ {c}, ![g].pc = "rm_get",
                          ![g].after = "scan"]
  /\ UNCHANGED <<now, docker, store, leases, history>>

\* What docker has: the cleanup leaves out what it saw a session of, the startup
\* leaves out nothing.
ListContainers(g) ==
  /\ Pc(g) \in {"scan", "boot"}
  /\ Pc(g) = "scan" => act[g].todo = {}
  /\ act' = [act EXCEPT ![g].todo = {c \in Cids : Up(c) /\ Local(g, c)} \ act[g].snap,
                        ![g].pc = "recover"]
  /\ UNCHANGED <<now, docker, store, leases, history>>

\* recover_or_remove_managed_container, for each: what it reads it writes back
RecoverGet(g) ==
  /\ Pc(g) = "recover"
  /\ \/ /\ act[g].todo = {}
        /\ act' = [act EXCEPT ![g] = Fresh("sleep")]
        /\ UNCHANGED disowned
     \/ \E c \in act[g].todo :
          /\ act' = [act EXCEPT
               ![g].cid = c, ![g].todo = @ \ {c}, ![g].after = "recover",
               ![g].copy = IF c \in Stored THEN hash[c] ELSE Recovered(c),
               ![g].pc = IF c \notin Stored /\ Requires(g) THEN "rm_kill" ELSE "r_save"]
          /\ disowned' = IF c \notin Stored /\ Requires(g) THEN disowned \cup {c} ELSE disowned
  /\ UNCHANGED <<now, docker, store, leases, known, admitted, crashes>>

RecoverSave(g) ==
  /\ Pc(g) = "r_save"
  /\ Save(act[g].cid, act[g].copy)
  /\ act' = [act EXCEPT ![g].pc = "recover", ![g].copy = NoSession]
  /\ UNCHANGED <<now, docker, leases, history>>

\* The process dies: its handlers are lost, their leases and user code stay.
Crash(g) ==
  /\ crashes < MaxCrashes
  /\ Pc(g) # "down"
  /\ crashes' = crashes + 1
  /\ act' = [a \in Actors |->
               IF a = g THEN Fresh("down")
               ELSE IF Gw(a) = g /\ Pc(a) \notin Outcomes \cup {"idle"}
               THEN Fresh("lost") ELSE act[a]]
  /\ UNCHANGED <<now, docker, store, leases, known, admitted, disowned>>

Start(g) ==
  /\ Pc(g) = "down"
  /\ Goto(g, "boot")
  /\ UNCHANGED <<now, docker, store, leases, history>>

\* Time passes and Redis drops what has expired.  Nobody who lives stays inside a
\* lock for longer than MaxHold, or takes longer than MaxStart to start the code, and
\* no code, whether anybody waits for it or not, runs for longer than RunTime.  MaxNow
\* bounds the clock; near it, time waits for the creations inside the guard.
CreateSteps == {"l_members", "l_hashes", "l_stale", "c_run"}
Starting(r) ==
  \/ Pc(r) \in {"x_get", "x_docker", "x_save", "x_start"}
  \/ Pc(r) \in {"t_get", "t_set"} /\ act[r].after = "x_start"
Held(l, length) == now - (l.until - length)
InTime(l, length) == l # NoLease /\ Pc(l.by) # "lost" => Held(l, length) < MaxHold
Lapse(l) == IF l # NoLease /\ l.until <= now' THEN NoLease ELSE l

Tick ==
  /\ now < MaxNow
  /\ \/ now + 1 + Lifetime + Grace <= MaxNow
     \/ \A r \in Reqs : Pc(r) \notin CreateSteps
  /\ InTime(guard, GuardLease) /\ \A c \in Cids : InTime(xlock[c], ExecLease)
  /\ \A r \in Reqs : Starting(r) => Held(xlock[act[r].cid], ExecLease) < MaxStart
  /\ \A c \in Cids : \A x \in running[c] : now - x.since < RunTime
  /\ now' = now + 1
  /\ hash' = [c \in Cids |-> IF dies[c] <= now' THEN NoSession ELSE hash[c]]
  /\ dies' = [c \in Cids |-> IF dies[c] <= now' THEN 0 ELSE dies[c]]
  /\ guard' = Lapse(guard)
  /\ xlock' = [c \in Cids |-> Lapse(xlock[c])]
  /\ UNCHANGED <<docker, index, act, history>>

\* The clock stops at MaxNow, when all lifetimes are over; the hashes of removed
\* containers still expire.
ExpireLate ==
  /\ now = MaxNow
  /\ \E c \in Stored :
       /\ box[c].status = "gone"
       /\ hash' = [hash EXCEPT ![c] = NoSession]
       /\ dies' = [dies EXCEPT ![c] = 0]
  /\ UNCHANGED <<now, docker, index, leases, act, history>>

Home(c) == CHOOSE d \in {Daemon[g] : g \in Gateways} : TRUE

Init ==
  /\ now = 0
  /\ box = [c \in Cids |-> [status |-> IF c \in Inherited THEN "up" ELSE "unused",
                            home |-> Home(c), born |-> 0, expires |-> Lifetime]]
  /\ running = [c \in Cids |-> {}]
  /\ hash = [c \in Cids |-> IF c \in Inherited THEN [count |-> 0, last |-> 0]
                            ELSE NoSession]
  /\ dies = [c \in Cids |-> IF c \in Inherited THEN Ttl(c) ELSE 0]
  /\ index = Inherited
  /\ guard = NoLease
  /\ xlock = [c \in Cids |-> NoLease]
  /\ act = [a \in Actors |-> Fresh(IF a \in Gateways THEN "sleep" ELSE "idle")]
  /\ known = Inherited
  /\ admitted = [c \in Cids |-> 0]
  /\ disowned = {}
  /\ crashes = 0

-----------------------------------------------------------------------------
\* what a handler does by itself once its request has begun
CreateNext(r) ==
  \/ AcquireGuard(r) \/ ListMembers(r) \/ ListHashes(r) \/ ListStale(r) \/ DockerRun(r)
  \/ ProvisionEnv(r) \/ SaveCreated(r) \/ CheckCreated(r)

ExecuteNext(r) ==
  \/ GetAccess(r) \/ LookUpContainer(r) \/ SaveRecovered(r) \/ AcquireExec(r)
  \/ GetSession(r) \/ FetchContainer(r) \/ SaveCounted(r) \/ TouchSession(r)
  \/ StartExec(r) \/ ExecEnds(r)

RemovalNext(a) == RmGet(a) \/ RmKill(a) \/ RmDrop(a)

HandlerStep(r) == CreateNext(r) \/ ExecuteNext(r) \/ RemovalNext(r) \/ Release(r)

\* a process that runs, or is started again
GatewayStep(g) ==
  \/ WakeUp(g) \/ ListMembers(g) \/ ListHashes(g) \/ ListStale(g) \/ Reap(g)
  \/ RemovalNext(g) \/ ListContainers(g) \/ RecoverGet(g) \/ RecoverSave(g) \/ Start(g)

Next ==
  \/ \E r \in Reqs : Begin(r) \/ HandlerStep(r) \/ WaitTimeout(r) \/ CodeEnds(r)
  \/ \E g \in Gateways : GatewayStep(g) \/ Crash(g)
  \/ Tick \/ ExpireLate

Spec == Init /\ [][Next]_vars

(***************************************************************************)
(* Handlers and cleanup tasks go on, Redis and docker answer, a process    *)
(* that died is started again (restart: unless-stopped in the compose      *)
(* file), the executor ends code whose time is up, time passes.  Nothing   *)
(* obliges clients or waits.                                               *)
(***************************************************************************)
FairSpec ==
  /\ Spec
  /\ \A r \in Reqs : WF_vars(HandlerStep(r)) /\ WF_vars(CodeEnds(r))
  /\ \A g \in Gateways : WF_vars(GatewayStep(g))
  /\ WF_vars(Tick) /\ WF_vars(ExpireLate)

-----------------------------------------------------------------------------
Session == [count : Nat, last : Nat] \cup {NoSession}
Lease == [by : Reqs \cup {None}, until : Nat]
Places == {"idle", "release", "l_members", "l_hashes", "l_stale", "c_guard", "c_run",
           "c_env", "c_save", "c_check", "a_get", "a_docker", "a_save", "x_lock", "x_get",
           "x_docker", "x_save", "x_start", "x_run", "t_get", "t_set", "rm_get", "rm_kill",
           "rm_drop", "sleep", "scan", "recover", "r_save", "boot", "down"} \cup Outcomes

\* Every variable keeps its type.
TypeOK ==
  /\ now \in 0..MaxNow
  /\ box \in [Cids -> [status : {"unused", "up", "gone"}, home : {Daemon[g] : g \in Gateways},
                       born : Nat, expires : Nat]]
  /\ running \in [Cids -> SUBSET [by : Reqs, since : Nat]]
  /\ hash \in [Cids -> Session] /\ dies \in [Cids -> Nat] /\ index \subseteq Cids
  /\ guard \in Lease /\ xlock \in [Cids -> Lease]
  /\ act \in [Actors -> [pc : Places, cid : Cids \cup {None},
                         op : {"none", "create", "execute", "delete"}, copy : Session,
                         after : Places, ids : SUBSET Cids, stamp : Nat,
                         todo : SUBSET Cids, snap : SUBSET Cids]]
  /\ known \subseteq Cids /\ admitted \in [Cids -> Nat] /\ disowned \subseteq Cids
  /\ crashes \in 0..MaxCrashes

ExecSteps == {"x_get", "x_docker", "x_save", "x_start", "x_run", "t_get", "t_set"}

\* While no living handler outlives its lease, one handler at a time, over all gateways,
\* is inside the execution lock of a container, whatever leases crashes left behind
\* (RedisStateBackend.execution_lock).
LeaseExclusion ==
  \A r1, r2 \in Reqs :
    r1 # r2 /\ Pc(r1) \in ExecSteps /\ Pc(r2) \in ExecSteps => act[r1].cid # act[r2].cid

\* One execution at a time is alive in a container, over all gateways (README, "Per-
\* container execution locks to prevent concurrent mutation of one session"), also when
\* a gateway dies and its lease lapses: the executor's own timeout ends the code first,
\* if it does not take longer than the lease is.
OneCode == \A c \in Cids : Cardinality(running[c]) <= 1

\* The creation guard makes MAX_ACTIVE_SESSIONS exact for young sessions over all
\* gateways, although list_sessions reads in two commands and repairs the index in
\* a third, and the cleanup tasks write sessions without the guard.
Young == {c \in known : Up(c) /\ now - box[c].born <= IdleTimeout /\ ~HardExpired(c)}
SharedQuota == Cardinality(Young) <= MaxActive

\* A container whose id create_container answers, as "active", is there: no other
\* request, cleanup or startup reached it while it was being created.  The only
\* exception is a recovery that found no session of it yet and, with
\* REQUIRE_SHARED_STATE, chose to remove it (recover_or_remove_managed_container); where
\* no gateway runs with that setting there is no exception.
CreatedUsable == [][\A c \in known' \ known : Up(c) \/ c \in disowned]_vars

\* A container admits at most MAX_EXECUTIONS_PER_SESSION executions: no recovery
\* takes back what was counted.
BudgetKept == \A c \in Cids : admitted[c] <= MaxExecutions

\* Every container is removed in the end, by the gateways of its daemon, although
\* any of them may die at any point and its leases and sessions stay in Redis.
ContainersReclaimed == \A c \in Cids : Up(c) ~> box[c].status = "gone"

\* What Redis says of a session is dropped in the end, hash and index entry: what
\* touch_session wrote after the deletion, and what a dead gateway left, included.
StoreCleared == \A c \in Cids : c \in Stored \cup index ~> c \notin Stored \cup index
=============================================================================
