------------------------ MODULE SharedSessions_proofs ------------------------
(***************************************************************************)
(* Proofs about SharedSessions: for every number of gateways, requests,    *)
(* containers and crashes, and every choice of limits and timeouts that    *)
(* the theorems do not exclude, the leases exclude, at most one execution  *)
(* lives in a container, MAX_ACTIVE_SESSIONS is exact for young sessions,  *)
(* and a container that a client is told of is there.                      *)
(***************************************************************************)
EXTENDS SharedSessions, FiniteSetTheorems, TLAPS

-----------------------------------------------------------------------------
(***************************************************************************)
(* Places and local variables                                              *)
(***************************************************************************)
ActorRec == [pc : Places, cid : Cids \cup {None},
             op : {"none", "create", "execute", "delete"}, copy : Session,
             after : Places, ids : SUBSET Cids, stamp : Nat,
             todo : SUBSET Cids, snap : SUBSET Cids]

GatewayOnly == {"sleep", "scan", "recover", "r_save", "boot", "down"}
Removing == {"rm_get", "rm_kill", "rm_drop"}
Creating == {"c_env", "c_save", "c_check"}
\* Where it is about a container, and where it has a copy of a session to write back.
WithCid == ExecSteps \cup Removing \cup Creating
             \cup {"a_get", "a_docker", "a_save", "x_lock", "r_save"}
WithCopy == {"c_env", "c_save", "r_save", "x_docker", "x_save", "t_set"}

ShapeOf(a, x) ==
  /\ a \in Gateways => x.pc \in GatewayOnly \cup Removing \cup {"l_members", "l_hashes",
                                                                 "l_stale"}
  /\ a \in Reqs => x.pc \notin GatewayOnly
  /\ x.pc \in WithCid => x.cid \in Cids
  /\ x.pc \in WithCopy => x.copy # NoSession
  /\ x.pc = "l_stale" => IF a \in Gateways THEN x.after = "scan"
                         ELSE x.after \in {"release", "c_run"}
  /\ x.pc = "release" => x.after \in Outcomes
  /\ x.pc \in {"t_get", "t_set"} => x.after \in {"x_start", "done"}
  /\ x.pc = "x_run" => x.after = "done"
  /\ a \in Gateways /\ x.pc \in Removing => x.after \in {"scan", "recover"}
Shape(a) == ShapeOf(a, act[a])

Shaped == TypeOK /\ \A a \in Actors : Shape(a)

-----------------------------------------------------------------------------
(***************************************************************************)
(* Locks and user code                                                     *)
(***************************************************************************)
\* Who is inside an execution lock owns its lease, and is on time.
Inside(r) ==
  /\ Pc(r) \in ExecSteps => xlock[act[r].cid].by = r
  /\ Starting(r) => Held(xlock[act[r].cid], ExecLease) <= MaxStart

\* A lease whose owner lives is young.
OnTime(l, length) == l.by \in Reqs /\ Pc(l.by) # "lost" => Held(l, length) <= MaxHold

Locked == /\ \A r \in Reqs : Inside(r)
          /\ \A c \in Cids : OnTime(xlock[c], ExecLease)

\* Code that is alive is that of the lease, and over before the lease.  Its handler waits
\* for it, or is about to kill it, or died with its gateway.
CodeOf(c, x) ==
  /\ xlock[c].by = x.by
  /\ x.since <= now /\ now <= x.since + RunTime
  /\ x.since + ExecLease <= xlock[c].until + MaxStart
  /\ \/ Pc(x.by) = "lost"
     \/ Pc(x.by) \in {"x_run", "rm_kill"} /\ act[x.by].cid = c

CodeKept == \A c \in Cids : /\ \A x \in running[c] : CodeOf(c, x)
                            /\ \A x, y \in running[c] : x = y

-----------------------------------------------------------------------------
(***************************************************************************)
(* Sessions                                                                *)
(***************************************************************************)
YoungBox(c) == Up(c) /\ now - box[c].born <= IdleTimeout /\ ~HardExpired(c)
Made(c) == box[c].status # "unused"

\* A session is no older than its container, in Redis and in the copies; it does not
\* expire while the container is young, nor is it in the index without a hash.
SessionKept(c) ==
  /\ ~Made(c) => c \notin Stored \cup index \cup known
  /\ Made(c) => box[c].born <= now
  /\ c \in Stored => /\ hash[c].last >= box[c].born
                     /\ \/ dies[c] >= box[c].born + IdleTimeout + Grace
                        \/ dies[c] >= box[c].expires + Grace
  /\ c \in index /\ YoungBox(c) => c \in Stored
  /\ c \in known /\ YoungBox(c) => c \in Stored \cap index

\* Containers that an actor knows of exist or have existed; what it is about to remove
\* from the store is gone, what it is about to remove from the index is not young; the
\* session that was saved last is there when its creator asks for it.
LocalsKept(a) ==
  /\ Pc(a) \in WithCid => Made(act[a].cid)
  /\ Pc(a) \in WithCopy => act[a].copy.last >= box[act[a].cid].born
  /\ Pc(a) = "rm_drop" => box[act[a].cid].status = "gone"
  /\ a \in Gateways /\ Pc(a) \in GatewayOnly \cup Removing \cup {"l_stale"} =>
       \A c \in act[a].todo : Made(c)
  /\ Pc(a) = "l_hashes" => /\ act[a].stamp <= now
                           /\ \A c \in act[a].ids : Made(c) /\ (YoungBox(c) => c \in Stored)
  /\ Pc(a) = "l_stale" => \A c \in act[a].ids : Made(c) /\ ~YoungBox(c)
  /\ Pc(a) = "c_check" /\ YoungBox(act[a].cid) => act[a].cid \in Stored \cap index

StoreKept == (\A c \in Cids : SessionKept(c)) /\ (\A a \in Actors : LocalsKept(a))

\* Who creates owns the guard; from the count of the sessions on there is room for one.
Creators == {"l_members", "l_hashes", "l_stale", "c_run"} \cup Creating
Guarded == /\ \A r \in Reqs : Pc(r) \in Creators => guard.by = r
           /\ OnTime(guard, GuardLease)

Counted(r) == \/ Pc(r) \in {"c_run"} \cup Creating
              \/ Pc(r) = "l_stale" /\ act[r].after = "c_run"
Room(r) == /\ Pc(r) = "l_hashes" => Young \subseteq act[r].ids
           /\ Counted(r) => Cardinality(Young) < MaxActive
QuotaKept == SharedQuota /\ \A r \in Reqs : Room(r)

\* A container that is being created is there, and younger than any that the cleanup
\* tasks have found idle, unless a recovery disowned it; the other requests are about
\* containers that clients were told of, or remove one that was disowned.
Old(c) == Made(c) /\ ~YoungBox(c)

Intact(c) ==
  /\ Up(c) /\ c \notin known
  /\ box[c].born + GuardLease >= guard.until
  /\ box[c].expires = box[c].born + Lifetime

Usable(r) ==
  /\ Pc(r) \in Creating => act[r].cid \in disowned \/ Intact(act[r].cid)
  /\ Pc(r) \in WithCid \ Creating => act[r].cid \in known \cup disowned

Sweeping(g) ==
  Pc(g) \in {"l_stale", "scan"} \/ (Pc(g) \in Removing /\ act[g].after = "scan")

Chosen(g) ==
  /\ Sweeping(g) => \A c \in act[g].todo : Old(c)
  /\ Pc(g) \in Removing => \/ act[g].after = "scan" /\ Old(act[g].cid)
                           \/ act[g].after = "recover" /\ act[g].cid \in disowned

CreationKept == /\ \A r \in Reqs : Usable(r)
                /\ \A g \in Gateways : Chosen(g)
                /\ guard.until <= now + GuardLease

-----------------------------------------------------------------------------
(***************************************************************************)
(* Types and shapes are kept                                               *)
(***************************************************************************)
\* One actor moves, the others stay where they are.
Moves(a) == /\ \A b \in Actors \ {a} : act'[b] = act[b]
            /\ act' \in [Actors -> ActorRec]
            /\ ShapeOf(a, act'[a])

LEMMA ActorTyped ==
  ASSUME Shaped, NEW a \in Actors
  PROVE  act \in [Actors -> ActorRec] /\ act[a] \in ActorRec /\ ShapeOf(a, act[a])
  BY DEF Shaped, TypeOK, ActorRec, Shape

\* An actor that keeps its local variables goes to a place that they allow.
LEMMA GotoMoves ==
  ASSUME Shaped, NEW a \in Actors, NEW p \in Places, Goto(a, p),
         a \in Gateways => p \in GatewayOnly \cup Removing \cup {"l_members"},
         a \in Reqs => p \notin GatewayOnly,
         p \notin {"l_stale", "release"},
         p \in WithCid => Pc(a) \in WithCid,
         p \in WithCopy => Pc(a) \in WithCopy,
         p \in {"t_get", "t_set"} => Pc(a) \in {"t_get", "t_set", "x_run"},
         p # "x_run",
         a \in Gateways /\ p \in Removing => Pc(a) \in Removing
  PROVE  Moves(a) /\ act'[a] = [act[a] EXCEPT !.pc = p]
<1>1. act \in [Actors -> ActorRec] /\ act[a] \in ActorRec /\ ShapeOf(a, act[a])
  BY ActorTyped
<1> DEFINE x == [act[a] EXCEPT !.pc = p]
<1>2. /\ x \in ActorRec /\ x.pc = p /\ x.cid = act[a].cid /\ x.copy = act[a].copy
      /\ x.after = act[a].after
  BY <1>1 DEF ActorRec
<1>3. act' = [act EXCEPT ![a] = x]
  BY DEF Goto
<1>4. ShapeOf(a, x)
  BY <1>1, <1>2 DEF ShapeOf, Pc
<1> QED
  BY <1>1, <1>2, <1>3, <1>4 DEF Moves

LEMMA FreshFine ==
  ASSUME NEW p \in Places
  PROVE  Fresh(p) \in ActorRec
  BY DEF Fresh, ActorRec, Places, Outcomes, Session

LEMMA LeaveMoves ==
  ASSUME Shaped, NEW r \in Reqs, NEW o \in Outcomes, Leave(r, o)
  PROVE  Moves(r) /\ act'[r].pc \in {"release"} \cup Outcomes
<1>1. /\ act \in [Actors -> ActorRec] /\ r \in Actors /\ r \notin Gateways
  BY SharedAssumption DEF Shaped, TypeOK, ActorRec, Actors
<1>2. o \in Places /\ "release" \in Places
  BY DEF Places
<1>3. Fresh(o) \in ActorRec /\ [Fresh("release") EXCEPT !.after = o] \in ActorRec
  BY <1>2, FreshFine DEF Fresh, ActorRec, Session
<1>4. ShapeOf(r, Fresh(o)) /\ ShapeOf(r, [Fresh("release") EXCEPT !.after = o])
  BY <1>1 DEF ShapeOf, Fresh, Outcomes, GatewayOnly, WithCid, WithCopy, ExecSteps, Removing,
              Creating
<1> QED
  BY <1>1, <1>3, <1>4 DEF Leave, Moves, Fresh, Outcomes

\* The places of a request that goes on with what it has.
Onward(r, p) == /\ p \in Places \ (GatewayOnly \cup {"l_stale", "release", "x_run"})
                /\ p \in WithCid => Pc(r) \in WithCid
                /\ p \in WithCopy => Pc(r) \in WithCopy
                /\ p \in {"t_get", "t_set"} => Pc(r) \in {"t_get", "t_set", "x_run"}

LEMMA OnwardMoves ==
  ASSUME Shaped, NEW r \in Reqs, NEW p, Onward(r, p), Goto(r, p)
  PROVE  Moves(r) /\ act'[r] = [act[r] EXCEPT !.pc = p]
<1>1. r \in Actors /\ r \notin Gateways
  BY SharedAssumption DEF Actors
<1> QED
  BY <1>1, GotoMoves DEF Onward

LEMMA HandlerGotos ==
  ASSUME NEW r \in Reqs
  PROVE  /\ AcquireGuard(r) => Goto(r, "l_members") /\ Onward(r, "l_members")
         /\ ProvisionEnv(r) => \E p \in {"c_save", "rm_kill"} : Goto(r, p) /\ Onward(r, p)
         /\ AcquireExec(r) => Goto(r, "x_get") /\ Onward(r, "x_get")
         /\ FetchContainer(r) =>
              \E p \in {"rm_drop", "rm_kill", "x_save"} : Goto(r, p) /\ Onward(r, p)
         /\ CodeEnds(r) => \/ Pc(r) = "x_run" /\ Goto(r, "t_get") /\ Onward(r, "t_get")
                           \/ Pc(r) # "x_run" /\ Goto(r, Pc(r))
  BY DEF AcquireGuard, ProvisionEnv, AcquireExec, FetchContainer, CodeEnds, Onward, Places,
     Outcomes, GatewayOnly, WithCid, WithCopy, ExecSteps, Removing, Creating

\* An actor moves and changes its local variables.
LEMMA MoveTo ==
  ASSUME Shaped, NEW a \in Actors, NEW x \in ActorRec, ShapeOf(a, x),
         act' = [act EXCEPT ![a] = x]
  PROVE  Moves(a) /\ act'[a] = x
<1>1. act \in [Actors -> ActorRec]
  BY ActorTyped
<1> QED
  BY <1>1 DEF Moves

LEMMA ListMoves ==
  ASSUME Shaped, NEW a \in Actors, ListMembers(a) \/ ListHashes(a) \/ ListStale(a)
  PROVE  Moves(a)
<1>1. act[a] \in ActorRec /\ ShapeOf(a, act[a])
  BY ActorTyped
<1>2. index \in SUBSET Cids /\ now \in Nat /\ Stored \in SUBSET Cids
  BY DEF Shaped, TypeOK, Stored
<1>3. CASE ListMembers(a)
  <2> DEFINE x == [act[a] EXCEPT !.pc = "l_hashes", !.ids = index, !.stamp = now]
  <2>1. x \in ActorRec
    BY <1>1, <1>2 DEF ActorRec, Places
  <2>2. x.pc = "l_hashes" /\ act' = [act EXCEPT ![a] = x]
    BY <1>1, <1>3 DEF ListMembers, ActorRec
  <2>3. ShapeOf(a, x)
    BY <2>2 DEF ShapeOf, GatewayOnly, WithCid, WithCopy, ExecSteps, Removing, Creating
  <2> QED
    BY <2>1, <2>2, <2>3, MoveTo
<1>4. CASE ListHashes(a)
  <2>1. PICK next \in {"scan", "release", "c_run"}, todo \in SUBSET Cids, snap \in SUBSET Cids :
          LET stale == act[a].ids \ Stored
          IN /\ next = "scan" <=> a \in Gateways
             /\ act' = [act EXCEPT ![a].ids = stale, ![a].stamp = 0, ![a].snap = snap,
                                   ![a].todo = todo,
                                   ![a].after = IF stale # {} THEN next ELSE "done",
                                   ![a].pc = IF stale # {} THEN "l_stale" ELSE next]
    BY <1>1, <1>2, <1>4 DEF ListHashes, IdleIds
  <2> DEFINE stale == act[a].ids \ Stored
             x == [act[a] EXCEPT !.ids = stale, !.stamp = 0, !.snap = snap, !.todo = todo,
                                 !.after = IF stale # {} THEN next ELSE "done",
                                 !.pc = IF stale # {} THEN "l_stale" ELSE next]
  <2>2. x \in ActorRec
    <3>1. /\ stale \in SUBSET Cids
          /\ (IF stale # {} THEN next ELSE "done") \in Places
          /\ (IF stale # {} THEN "l_stale" ELSE next) \in Places
      BY <1>1 DEF ActorRec, Places, Outcomes
    <3> HIDE DEF stale
    <3> QED
      BY <1>1, <3>1 DEF ActorRec
  <2>3. act' = [act EXCEPT ![a] = x]
    BY <2>1
  <2>4. ShapeOf(a, x)
    BY <1>1, <2>1, SharedAssumption
       DEF ActorRec, ShapeOf, GatewayOnly, WithCid, WithCopy, ExecSteps, Removing, Creating, Outcomes
  <2> QED
    BY <2>2, <2>3, <2>4, MoveTo
<1>5. CASE ListStale(a)
  <2> DEFINE x == [act[a] EXCEPT !.ids = {}, !.pc = act[a].after, !.after = "done"]
  <2>1. x \in ActorRec
    BY <1>1 DEF ActorRec, Places, Outcomes
  <2>2. act' = [act EXCEPT ![a] = x]
    BY <1>5 DEF ListStale
  <2>3. ShapeOf(a, x)
    BY <1>1, <1>5, SharedAssumption
       DEF ListStale, Pc, ActorRec, ShapeOf, GatewayOnly, WithCid, WithCopy, ExecSteps, Removing,
           Creating, Outcomes
  <2> QED
    BY <2>1, <2>2, <2>3, MoveTo
<1> QED
  BY <1>3, <1>4, <1>5

LEMMA BeginMoves ==
  ASSUME Shaped, NEW r \in Reqs, Begin(r)
  PROVE  Moves(r)
<1>1. r \in Actors /\ r \notin Gateways
  BY SharedAssumption DEF Actors
<1>2. act[r] \in ActorRec /\ ShapeOf(r, act[r]) /\ known \in SUBSET Cids
  BY <1>1, ActorTyped DEF Shaped, TypeOK
<1>3. CASE act' = [act EXCEPT ![r].pc = "c_guard", ![r].op = "create"]
  <2> DEFINE x == [act[r] EXCEPT !.pc = "c_guard", !.op = "create"]
  <2>1. x \in ActorRec /\ act' = [act EXCEPT ![r] = x]
    BY <1>2, <1>3 DEF ActorRec, Places
  <2>2. x.pc = "c_guard"
    BY <1>2 DEF ActorRec
  <2>3. ShapeOf(r, x)
    BY <1>1, <2>2 DEF ShapeOf, GatewayOnly, WithCid, WithCopy, ExecSteps, Removing, Creating
  <2> QED
    BY <1>1, <2>1, <2>3, MoveTo
<1>4. ASSUME NEW c \in known, NEW o \in {"execute", "delete"},
             act' = [act EXCEPT ![r].pc = "a_get", ![r].cid = c, ![r].op = o]
      PROVE  Moves(r)
  <2> DEFINE x == [act[r] EXCEPT !.pc = "a_get", !.cid = c, !.op = o]
  <2>1. x \in ActorRec /\ act' = [act EXCEPT ![r] = x]
    BY <1>2, <1>4 DEF ActorRec, Places
  <2>2. x.pc = "a_get" /\ x.cid \in Cids
    BY <1>2 DEF ActorRec
  <2>3. ShapeOf(r, x)
    BY <1>1, <2>2 DEF ShapeOf, GatewayOnly, WithCid, WithCopy, ExecSteps, Removing, Creating
  <2> QED
    BY <1>1, <2>1, <2>3, MoveTo
<1> QED
  BY <1>3, <1>4 DEF Begin

LEMMA CreationMoves ==
  ASSUME Shaped, NEW r \in Reqs, DockerRun(r) \/ SaveCreated(r) \/ CheckCreated(r)
  PROVE  Moves(r)
<1>1. r \in Actors /\ r \notin Gateways
  BY SharedAssumption DEF Actors
<1>2. act[r] \in ActorRec /\ ShapeOf(r, act[r]) /\ now \in Nat
  BY <1>1, ActorTyped DEF Shaped, TypeOK
<1>3. ASSUME \E o \in Outcomes : Leave(r, o)
      PROVE  Moves(r)
  BY <1>3, LeaveMoves
<1>4. ASSUME NEW c \in Cids,
             act' = [act EXCEPT ![r].cid = c, ![r].pc = "c_env",
                                ![r].copy = [count |-> 0, last |-> now]]
      PROVE  Moves(r)
  <2> DEFINE x == [act[r] EXCEPT !.cid = c, !.pc = "c_env", !.copy = [count |-> 0, last |-> now]]
  <2>1. x \in ActorRec /\ act' = [act EXCEPT ![r] = x]
    BY <1>2, <1>4 DEF ActorRec, Places, Session
  <2>2. x.pc = "c_env" /\ x.cid \in Cids /\ x.copy # NoSession
    BY <1>2 DEF ActorRec, NoSession
  <2>3. ShapeOf(r, x)
    BY <1>1, <2>2 DEF ShapeOf, GatewayOnly, WithCid, WithCopy, ExecSteps, Removing, Creating
  <2> QED
    BY <1>1, <2>1, <2>3, MoveTo
<1>5. CASE SaveCreated(r)
  <2> DEFINE x == [act[r] EXCEPT !.pc = "c_check", !.copy = NoSession]
  <2>1. x \in ActorRec /\ act' = [act EXCEPT ![r] = x]
    BY <1>2, <1>5 DEF SaveCreated, ActorRec, Places, Session
  <2>2. x.pc = "c_check" /\ x.cid \in Cids
    BY <1>2, <1>5 DEF SaveCreated, Pc, ActorRec, ShapeOf, WithCid, Creating
  <2>3. ShapeOf(r, x)
    BY <1>1, <2>2 DEF ShapeOf, GatewayOnly, WithCid, WithCopy, ExecSteps, Removing, Creating
  <2> QED
    BY <1>1, <2>1, <2>3, MoveTo
<1> QED
  BY <1>3, <1>4, <1>5 DEF DockerRun, CheckCreated, Outcomes

LEMMA AdmitMoves ==
  ASSUME Shaped, NEW r \in Reqs, Pc(r) \in {"a_get", "a_save"}, Admit(r)
  PROVE  Moves(r) /\ act'[r].pc \in {"release", "rm_get", "x_lock"} \cup Outcomes
<1>1. CASE Leave(r, "done")
  BY <1>1, LeaveMoves DEF Outcomes
<1>2. ASSUME NEW p \in {"rm_get", "x_lock"}, Goto(r, p) PROVE Moves(r) /\ act'[r].pc = p
  <2>1. Onward(r, p)
    BY DEF Onward, Places, Outcomes, GatewayOnly, WithCid, WithCopy, ExecSteps, Removing, Creating
  <2>2. Moves(r) /\ act'[r] = [act[r] EXCEPT !.pc = p]
    BY <1>2, <2>1, OnwardMoves
  <2>3. act[r] \in ActorRec
    BY ActorTyped DEF Actors
  <2>4. act'[r].pc = p
    BY <2>2, <2>3 DEF ActorRec
  <2> QED
    BY <2>2, <2>4
<1> QED
  BY <1>1, <1>2 DEF Admit

LEMMA AccessMoves ==
  ASSUME Shaped, NEW r \in Reqs,
         GetAccess(r) \/ LookUpContainer(r) \/ SaveRecovered(r) \/ WaitTimeout(r)
  PROVE  Moves(r)
<1>1. ASSUME \E p \in {"a_docker", "rm_kill", "a_save"} : Goto(r, p),
             Pc(r) \in {"a_get", "a_docker"}
      PROVE  Moves(r)
  <2>1. \A p \in {"a_docker", "rm_kill", "a_save"} : Onward(r, p)
    BY <1>1 DEF Onward, Places, Outcomes, GatewayOnly, WithCid, WithCopy, ExecSteps, Removing, Creating
  <2> QED
    BY <1>1, <2>1, OnwardMoves
<1>2. Leave(r, "done") => Moves(r)
  BY LeaveMoves DEF Outcomes
<1>3. CASE GetAccess(r)
  BY <1>1, <1>3, AdmitMoves DEF GetAccess
<1>4. CASE LookUpContainer(r)
  BY <1>1, <1>2, <1>4 DEF LookUpContainer
<1>5. CASE SaveRecovered(r)
  BY <1>5, AdmitMoves DEF SaveRecovered
<1>6. CASE WaitTimeout(r)
  BY <1>2, <1>6 DEF WaitTimeout
<1> QED
  BY <1>3, <1>4, <1>5, <1>6

LEMMA ExecuteMoves ==
  ASSUME Shaped, NEW r \in Reqs,
         \/ GetSession(r) \/ SaveCounted(r) \/ TouchSession(r) \/ StartExec(r) \/ ExecEnds(r)
         \/ CodeEnds(r)
  PROVE  Moves(r)
<1>1. r \in Actors /\ r \notin Gateways
  BY SharedAssumption DEF Actors
<1>2. /\ act[r] \in ActorRec /\ ShapeOf(r, act[r]) /\ now \in Nat /\ hash \in [Cids -> Session]
      /\ act \in [Actors -> ActorRec]
  BY <1>1, ActorTyped DEF Shaped, TypeOK
<1>3. Leave(r, "done") => Moves(r)
  BY LeaveMoves DEF Outcomes
<1>4. CASE GetSession(r)
  <2> DEFINE p == IF Pc(r) = "x_get" THEN "x_docker" ELSE "t_set"
             x == [act[r] EXCEPT !.copy = hash[act[r].cid], !.pc = p]
  <2>1. act[r].cid \in Cids /\ Pc(r) \in {"x_get", "t_get"}
    BY <1>2, <1>4 DEF GetSession, Pc, ShapeOf, WithCid, ExecSteps
  <2>2. CASE /\ act[r].cid \in Stored
             /\ act' = [act EXCEPT ![r].copy = hash[act[r].cid],
                              ![r].pc = IF @ = "x_get" THEN "x_docker" ELSE "t_set"]
    <3>1. x \in ActorRec
      BY <1>2, <2>1 DEF ActorRec, Places
    <3>2. act' = [act EXCEPT ![r] = x]
      BY <1>2, <2>2 DEF ActorRec, Pc
    <3>3. x.pc = p /\ x.cid \in Cids /\ x.copy # NoSession /\ x.after = act[r].after
      BY <1>2, <2>1, <2>2 DEF ActorRec, Stored
    <3>4. ShapeOf(r, x)
      BY <1>1, <1>2, <2>1, <3>3 DEF ShapeOf, Pc, GatewayOnly, WithCid, WithCopy, ExecSteps, Removing, Creating
    <3> QED
      BY <1>1, <3>1, <3>2, <3>4, MoveTo
  <2>3. CASE Pc(r) = "t_get" /\ act[r].after = "x_start" /\ Goto(r, "x_start")
    <3>1. Onward(r, "x_start")
      BY <2>3 DEF Onward, Places, Outcomes, GatewayOnly, WithCid, WithCopy, ExecSteps, Removing, Creating
    <3> QED
      BY <2>3, <3>1, OnwardMoves
  <2> QED
    BY <1>3, <1>4, <2>2, <2>3 DEF GetSession
<1>5. CASE SaveCounted(r)
  <2> DEFINE x == [act[r] EXCEPT !.pc = "t_get", !.after = "x_start", !.copy = NoSession]
  <2>1. x \in ActorRec /\ act' = [act EXCEPT ![r] = x]
    BY <1>2, <1>5 DEF SaveCounted, ActorRec, Places, Session
  <2>2. x.pc = "t_get" /\ x.cid \in Cids /\ x.after = "x_start"
    BY <1>2, <1>5 DEF SaveCounted, Pc, ActorRec, ShapeOf, WithCid, ExecSteps
  <2>3. ShapeOf(r, x)
    BY <1>1, <2>2 DEF ShapeOf, GatewayOnly, WithCid, WithCopy, ExecSteps, Removing, Creating
  <2> QED
    BY <1>1, <2>1, <2>3, MoveTo
<1>6. CASE TouchSession(r)
  <2> DEFINE x == [act[r] EXCEPT !.pc = "x_start", !.copy = NoSession]
  <2>1. CASE act' = [act EXCEPT ![r].pc = "x_start", ![r].copy = NoSession]
    <3>1. x \in ActorRec /\ act' = [act EXCEPT ![r] = x]
      BY <1>2, <2>1 DEF ActorRec, Places, Session
    <3>2. x.pc = "x_start" /\ x.cid \in Cids
      BY <1>2, <1>6 DEF TouchSession, Pc, ActorRec, ShapeOf, WithCid, ExecSteps
    <3>3. ShapeOf(r, x)
      BY <1>1, <3>2 DEF ShapeOf, GatewayOnly, WithCid, WithCopy, ExecSteps, Removing, Creating
    <3> QED
      BY <1>1, <3>1, <3>3, MoveTo
  <2> QED
    BY <1>3, <1>6, <2>1 DEF TouchSession
<1>7. CASE StartExec(r)
  <2> DEFINE x == [act[r] EXCEPT !.pc = "x_run", !.after = "done"]
  <2>1. CASE act' = [act EXCEPT ![r].pc = "x_run", ![r].after = "done"]
    <3>1. x \in ActorRec /\ act' = [act EXCEPT ![r] = x]
      BY <1>2, <2>1 DEF ActorRec, Places, Outcomes
    <3>2. x.pc = "x_run" /\ x.cid \in Cids /\ x.after = "done"
      BY <1>2, <1>7 DEF StartExec, Pc, ActorRec, ShapeOf, WithCid, ExecSteps
    <3>3. ShapeOf(r, x)
      BY <1>1, <3>2 DEF ShapeOf, GatewayOnly, WithCid, WithCopy, ExecSteps, Removing, Creating
    <3> QED
      BY <1>1, <3>1, <3>3, MoveTo
  <2> QED
    BY <1>3, <1>7, <2>1 DEF StartExec
<1>8. CASE ExecEnds(r)
  <2>1. CASE Goto(r, "rm_kill")
    <3>1. Onward(r, "rm_kill")
      BY <1>8 DEF ExecEnds, Onward, Places, Outcomes, GatewayOnly, WithCid, WithCopy, ExecSteps,
                  Removing, Creating
    <3> QED
      BY <2>1, <3>1, OnwardMoves
  <2> QED
    BY <1>3, <1>8, <2>1 DEF ExecEnds
<1>9. CASE CodeEnds(r)
  <2>1. Goto(r, Pc(r)) => act' = act
    BY <1>1, <1>2 DEF Goto, Pc, ActorRec
  <2>2. act' = act => Moves(r)
    BY <1>2 DEF Moves
  <2> QED
    BY <1>9, <2>1, <2>2, HandlerGotos, OnwardMoves
<1> QED
  BY <1>4, <1>5, <1>6, <1>7, <1>8, <1>9

LEMMA FinishMoves ==
  ASSUME Shaped, NEW a \in Actors, Pc(a) \in Removing, Finish(a)
  PROVE  Moves(a) /\ act'[a].pc \in {"release", "scan", "recover"} \cup Outcomes
<1>1. CASE a \in Gateways
  <2>1. act[a] \in ActorRec /\ act[a].after \in {"scan", "recover"} /\ a \notin Reqs
    BY <1>1, ActorTyped, SharedAssumption DEF Pc, ShapeOf
  <2>2. Moves(a) /\ act'[a] = [act[a] EXCEPT !.pc = act[a].after]
    BY <1>1, <2>1, GotoMoves DEF Finish, Places, Outcomes, GatewayOnly, WithCid, WithCopy, ExecSteps, Removing,
              Creating
  <2>3. act'[a].pc = act[a].after
    BY <2>1, <2>2 DEF ActorRec
  <2> QED
    BY <2>1, <2>2, <2>3
<1>2. CASE a \in Reqs
  BY <1>2, LeaveMoves, SharedAssumption DEF Finish, Outcomes
<1> QED
  BY <1>1, <1>2 DEF Actors

LEMMA RemovalMoves ==
  ASSUME Shaped, NEW a \in Actors, RemovalNext(a)
  PROVE  Moves(a)
<1>1. ASSUME NEW p \in {"rm_kill", "rm_drop"}, Goto(a, p), Pc(a) \in Removing PROVE Moves(a)
  <2>1. p \in Places \ (GatewayOnly \cup WithCopy) /\ p \in Removing /\ Pc(a) \in WithCid
    BY <1>1 DEF Places, GatewayOnly, WithCid, WithCopy, ExecSteps, Removing, Creating
  <2> QED
    BY <1>1, <2>1, GotoMoves
<1>2. Pc(a) \in Removing
  BY DEF RemovalNext, RmGet, RmKill, RmDrop, Removing
<1> QED
  BY <1>1, <1>2, FinishMoves DEF RemovalNext, RmGet, RmKill, RmDrop

LEMMA ReleaseMoves ==
  ASSUME Shaped, NEW r \in Reqs, Release(r)
  PROVE  Moves(r) /\ act'[r].pc \in Outcomes
<1>1. r \in Actors /\ r \notin Gateways
  BY SharedAssumption DEF Actors
<1>2. act[r].after \in Outcomes
  BY <1>1, ActorTyped DEF Release, Pc, ShapeOf
<1>3. act' = [act EXCEPT ![r] = Fresh(act[r].after)]
  BY DEF Release
<1>4. Fresh(act[r].after) \in ActorRec
  BY <1>2, FreshFine DEF Places
<1>5. ShapeOf(r, Fresh(act[r].after))
  BY <1>1, <1>2 DEF Fresh, Outcomes, ShapeOf, GatewayOnly, WithCid, WithCopy, ExecSteps, Removing, Creating
<1>6. Moves(r) /\ act'[r] = Fresh(act[r].after)
  BY <1>1, <1>3, <1>4, <1>5, MoveTo
<1> QED
  BY <1>2, <1>6 DEF Fresh

LEMMA GatewayMoves ==
  ASSUME Shaped, NEW g \in Gateways,
         WakeUp(g) \/ Reap(g) \/ ListContainers(g) \/ RecoverGet(g) \/ RecoverSave(g) \/ Start(g)
  PROVE  Moves(g)
<1>1. g \in Actors /\ g \notin Reqs
  BY SharedAssumption DEF Actors
<1>2. /\ act[g] \in ActorRec /\ ShapeOf(g, act[g]) /\ hash \in [Cids -> Session]
      /\ box \in [Cids -> [status : {"unused", "up", "gone"}, home : {Daemon[d] : d \in Gateways},
                           born : Nat, expires : Nat]]
  BY <1>1, ActorTyped DEF Shaped, TypeOK
<1>3. CASE WakeUp(g) \/ Start(g)
  <2>1. PICK p \in {"l_members", "boot"} : Goto(g, p)
    BY <1>3 DEF WakeUp, Start
  <2> QED
    BY <1>1, <2>1, GotoMoves DEF Places, Outcomes, GatewayOnly, WithCid, WithCopy, ExecSteps, Removing,
              Creating
<1>4. CASE Reap(g)
  <2>1. PICK c \in act[g].todo :
          act' = [act EXCEPT ![g].cid = c, ![g].todo = @ \ {c}, ![g].pc = "rm_get",
                             ![g].after = "scan"]
    BY <1>4 DEF Reap
  <2> DEFINE x == [act[g] EXCEPT !.cid = c, !.todo = act[g].todo \ {c}, !.pc = "rm_get", !.after = "scan"]
  <2>2. x \in ActorRec /\ act' = [act EXCEPT ![g] = x]
    BY <1>2, <2>1 DEF ActorRec, Places
  <2>3. x.pc = "rm_get" /\ x.cid \in Cids /\ x.after = "scan"
    BY <1>2 DEF ActorRec
  <2>4. ShapeOf(g, x)
    BY <1>1, <2>3 DEF ShapeOf, GatewayOnly, WithCid, WithCopy, ExecSteps, Removing, Creating
  <2> QED
    BY <1>1, <2>2, <2>4, MoveTo
<1>5. CASE ListContainers(g)
  <2> DEFINE todo == {c \in Cids : Up(c) /\ Local(g, c)} \ act[g].snap
             x == [act[g] EXCEPT !.todo = todo, !.pc = "recover"]
  <2>1. x \in ActorRec /\ act' = [act EXCEPT ![g] = x]
    BY <1>2, <1>5 DEF ListContainers, ActorRec, Places
  <2>2. x.pc = "recover"
    BY <1>2 DEF ActorRec
  <2>3. ShapeOf(g, x)
    BY <1>1, <2>2 DEF ShapeOf, GatewayOnly, WithCid, WithCopy, ExecSteps, Removing, Creating
  <2> QED
    BY <1>1, <2>1, <2>3, MoveTo
<1>6. CASE RecoverGet(g)
  <2>1. CASE act' = [act EXCEPT ![g] = Fresh("sleep")]
    <3>1. Fresh("sleep") \in ActorRec
      BY FreshFine DEF Places
    <3>2. ShapeOf(g, Fresh("sleep"))
      BY <1>1 DEF Fresh, ShapeOf, GatewayOnly, WithCid, WithCopy, ExecSteps, Removing, Creating
    <3> QED
      BY <1>1, <2>1, <3>1, <3>2, MoveTo
  <2>2. ASSUME NEW c \in act[g].todo,
          act' = [act EXCEPT
            ![g].cid = c, ![g].todo = @ \ {c}, ![g].after = "recover",
            ![g].copy = IF c \in Stored THEN hash[c] ELSE Recovered(c),
            ![g].pc = IF c \notin Stored /\ Requires(g) THEN "rm_kill" ELSE "r_save"]
        PROVE Moves(g)
    <3>1. PICK k \in Session, p \in {"rm_kill", "r_save"} :
            /\ k # NoSession
            /\ act' = [act EXCEPT ![g].cid = c, ![g].todo = @ \ {c}, ![g].after = "recover",
                                  ![g].copy = k, ![g].pc = p]
      <4>1. c \in Cids
        BY <1>2 DEF ActorRec
      <4>2. /\ Recovered(c) \in Session /\ Recovered(c) # NoSession
            /\ c \in Stored => hash[c] \in Session /\ hash[c] # NoSession
        BY <1>2, <4>1 DEF Recovered, Session, Stored, NoSession
      <4>3. (IF c \in Stored THEN hash[c] ELSE Recovered(c)) \in Session \ {NoSession}
        BY <4>2
      <4> QED
        BY <2>2, <4>3
    <3> DEFINE x == [act[g] EXCEPT !.cid = c, !.todo = act[g].todo \ {c}, !.after = "recover",
                                   !.copy = k, !.pc = p]
    <3>2. x \in ActorRec /\ act' = [act EXCEPT ![g] = x]
      BY <1>2, <3>1 DEF ActorRec, Places
    <3>3. x.pc = p /\ x.cid \in Cids /\ x.after = "recover" /\ x.copy = k
      BY <1>2 DEF ActorRec
    <3>4. ShapeOf(g, x)
      BY <1>1, <3>1, <3>3 DEF ShapeOf, GatewayOnly, WithCid, WithCopy, ExecSteps, Removing, Creating
    <3> QED
      BY <1>1, <3>2, <3>4, MoveTo
  <2> QED
    BY <1>6, <2>1, <2>2 DEF RecoverGet
<1>7. CASE RecoverSave(g)
  <2> DEFINE x == [act[g] EXCEPT !.pc = "recover", !.copy = NoSession]
  <2>1. x \in ActorRec /\ act' = [act EXCEPT ![g] = x]
    BY <1>2, <1>7 DEF RecoverSave, ActorRec, Places, Session
  <2>2. x.pc = "recover"
    BY <1>2 DEF ActorRec
  <2>3. ShapeOf(g, x)
    BY <1>1, <2>2 DEF ShapeOf, GatewayOnly, WithCid, WithCopy, ExecSteps, Removing, Creating
  <2> QED
    BY <1>1, <2>1, <2>3, MoveTo
<1> QED
  BY <1>3, <1>4, <1>5, <1>6, <1>7

\* A crash takes the handlers of a gateway with it and moves nobody else.
LEMMA CrashMoves ==
  ASSUME Shaped, NEW g \in Gateways, Crash(g)
  PROVE  /\ act' \in [Actors -> ActorRec] /\ \A a \in Actors : ShapeOf(a, act'[a])
         /\ \A a \in Actors : \/ act'[a] = act[a]
                              \/ a \in Gateways /\ act'[a] = Fresh("down")
                              \/ a \in Reqs /\ act'[a] = Fresh("lost")
<1>1. /\ Fresh("down") \in ActorRec /\ Fresh("lost") \in ActorRec
      /\ g \in Actors /\ Gateways \cap Reqs = {}
  BY FreshFine, SharedAssumption DEF Places, Outcomes, Actors
<1>2. \A a \in Actors : a # g /\ Gw(a) = g => a \in Reqs
  BY DEF Gw, Actors
<1>3. /\ ShapeOf(g, Fresh("down")) /\ \A r \in Reqs : ShapeOf(r, Fresh("lost"))
  BY <1>1 DEF Fresh, ShapeOf, GatewayOnly, WithCid, WithCopy, ExecSteps, Removing, Creating
<1>4. \A a \in Actors : act[a] \in ActorRec /\ ShapeOf(a, act[a])
  BY ActorTyped
<1>5. act' = [a \in Actors |->
               IF a = g THEN Fresh("down")
               ELSE IF Gw(a) = g /\ Pc(a) \notin Outcomes \cup {"idle"}
               THEN Fresh("lost") ELSE act[a]]
  BY DEF Crash
<1>6. \A a \in Actors : \/ act'[a] = act[a]
                        \/ a = g /\ act'[a] = Fresh("down")
                        \/ a \in Reqs /\ act'[a] = Fresh("lost")
  BY <1>2, <1>5
<1>7. \A a \in Actors : act'[a] \in ActorRec /\ ShapeOf(a, act'[a])
  BY <1>1, <1>3, <1>4, <1>6
<1>8. act' \in [Actors -> ActorRec]
  BY <1>5, <1>7
<1>9. \A a \in Actors : \/ act'[a] = act[a]
                        \/ a \in Gateways /\ act'[a] = Fresh("down")
                        \/ a \in Reqs /\ act'[a] = Fresh("lost")
  BY <1>6
<1> QED
  BY <1>7, <1>8, <1>9

-----------------------------------------------------------------------------
(***************************************************************************)
(* The other variables keep their types                                    *)
(***************************************************************************)
Boxes == [Cids -> [status : {"unused", "up", "gone"}, home : {Daemon[g] : g \in Gateways},
                   born : Nat, expires : Nat]]

LEMMA SharedTyped ==
  ASSUME Shaped
  PROVE  /\ now \in Nat /\ box \in Boxes /\ hash \in [Cids -> Session] /\ dies \in [Cids -> Nat]
         /\ index \in SUBSET Cids /\ known \in SUBSET Cids /\ guard \in Lease
         /\ running \in [Cids -> SUBSET [by : Reqs, since : Nat]]
         /\ xlock \in [Cids -> Lease] /\ admitted \in [Cids -> Nat] /\ crashes \in Nat
         /\ disowned \in SUBSET Cids
  BY DEF Shaped, TypeOK, Boxes

LEMMA NumbersTyped ==
  /\ MaxActive \in Nat /\ IdleTimeout \in Nat /\ Lifetime \in Nat /\ Grace \in Nat
  /\ RunTime \in Nat /\ MaxHold \in Nat /\ MaxStart \in Nat /\ MaxNow \in Nat
  /\ MaxCrashes \in Nat /\ ExecLease \in Nat /\ GuardLease \in Nat
  BY SharedAssumption

LEMMA TtlTyped ==
  ASSUME Shaped, NEW c \in Cids
  PROVE  Ttl(c) \in Nat
  BY SharedTyped, NumbersTyped DEF Ttl, Boxes

LEMMA PutTyped ==
  ASSUME Shaped, NEW c \in Cids, NEW s \in Session, Put(c, s)
  PROVE  hash' \in [Cids -> Session] /\ dies' \in [Cids -> Nat]
<1>1. now + Ttl(c) \in Nat
  BY SharedTyped, TtlTyped
<1> QED
  BY <1>1, SharedTyped DEF Put

\* The container an actor is about, and the copy it has of its session.
LEMMA OwnTyped ==
  ASSUME Shaped, NEW a \in Actors
  PROVE  /\ Pc(a) \in WithCid => act[a].cid \in Cids
         /\ Pc(a) \in WithCopy => act[a].copy \in [count : Nat, last : Nat]
  BY ActorTyped DEF ActorRec, ShapeOf, Pc, Session

\* TypeOK, without the actors
RestTyped ==
  /\ now \in 0..MaxNow /\ crashes \in 0..MaxCrashes
  /\ box \in Boxes /\ running \in [Cids -> SUBSET [by : Reqs, since : Nat]]
  /\ hash \in [Cids -> Session] /\ dies \in [Cids -> Nat] /\ index \in SUBSET Cids
  /\ guard \in Lease /\ xlock \in [Cids -> Lease]
  /\ known \in SUBSET Cids /\ admitted \in [Cids -> Nat] /\ disowned \in SUBSET Cids

LEMMA RestOfType == Shaped => RestTyped
  BY DEF Shaped, TypeOK, RestTyped, Boxes

LEMMA SameRest ==
  ASSUME Shaped, UNCHANGED <<now, docker, store, leases, history>>
  PROVE  RestTyped'
<1> USE RestOfType
<1> QED
  BY DEF RestTyped, docker, store, leases, history, Boxes, Lease, Session

\* A recovery reads, and notes what it is going to remove.
LEMMA RecoverRest ==
  ASSUME Shaped, NEW g \in Gateways, RecoverGet(g)
  PROVE  RestTyped'
<1>1. RestTyped
  BY RestOfType
<1>2. disowned' \in SUBSET Cids
  <2>1. act[g].todo \in SUBSET Cids
    BY ActorTyped DEF Actors, ActorRec
  <2> QED
    BY <2>1, SharedTyped DEF RecoverGet
<1> QED
  BY <1>1, <1>2 DEF RecoverGet, RestTyped, docker, store, leases, Boxes, Lease, Session

LEMMA StoreRest ==
  ASSUME Shaped, NEW a \in Actors,
         ListStale(a) \/ SaveCreated(a) \/ SaveRecovered(a) \/ SaveCounted(a)
           \/ TouchSession(a) \/ RmDrop(a) \/ RecoverSave(a) \/ ExpireLate
  PROVE  RestTyped'
<1>1. RestTyped
  BY RestOfType
<1>2. /\ Pc(a) \in WithCid => act[a].cid \in Cids
      /\ Pc(a) \in WithCopy => act[a].copy \in [count : Nat, last : Nat]
  BY OwnTyped
<1>3. NoSession \in Session /\ now \in Nat
  BY SharedTyped DEF Session
<1>4. ASSUME NEW c \in Cids, NEW k \in Session, Put(c, k)
      PROVE  hash' \in [Cids -> Session] /\ dies' \in [Cids -> Nat]
  BY <1>4, PutTyped
<1>5. CASE ListStale(a)
  BY <1>1, <1>5 DEF ListStale, RestTyped, docker, leases, history, Boxes, Lease, Session
<1>6. CASE SaveCreated(a)
  <2>1. act[a].cid \in Cids /\ act[a].copy \in Session
    BY <1>2, <1>6 DEF SaveCreated, WithCid, WithCopy, Creating, Session
  <2> QED
    BY <1>1, <1>4, <1>6, <2>1
       DEF SaveCreated, Save, RestTyped, docker, leases, history, Boxes, Lease
<1>7. CASE SaveRecovered(a)
  <2>1. act[a].cid \in Cids
    BY <1>2, <1>7 DEF SaveRecovered, WithCid
  <2>2. Recovered(act[a].cid) \in Session
    BY <2>1, SharedTyped DEF Recovered, Session, Boxes
  <2> QED
    BY <1>1, <1>4, <1>7, <2>1, <2>2
       DEF SaveRecovered, Save, RestTyped, docker, leases, history, Boxes, Lease
<1>8. CASE SaveCounted(a)
  <2>1. act[a].cid \in Cids
    BY <1>2, <1>8 DEF SaveCounted, WithCid, ExecSteps
  <2>2. act[a].copy \in [count : Nat, last : Nat]
    BY <1>2, <1>8 DEF SaveCounted, WithCopy
  <2>3. [count |-> act[a].copy.count + 1, last |-> now] \in Session
    BY <1>3, <2>2 DEF Session
  <2>4. admitted' \in [Cids -> Nat]
    BY <1>8, <2>1, SharedTyped DEF SaveCounted
  <2> QED
    BY <1>1, <1>4, <1>8, <2>1, <2>3, <2>4
       DEF SaveCounted, Save, RestTyped, docker, leases, Boxes, Lease
<1>9. CASE TouchSession(a)
  <2>1. act[a].cid \in Cids
    BY <1>2, <1>9 DEF TouchSession, WithCid, ExecSteps
  <2>2. act[a].copy \in [count : Nat, last : Nat]
    BY <1>2, <1>9 DEF TouchSession, WithCopy
  <2>3. [act[a].copy EXCEPT !.last = now] \in Session
    BY <1>3, <2>2 DEF Session
  <2> QED
    BY <1>1, <1>4, <1>9, <2>1, <2>3
       DEF TouchSession, RestTyped, docker, leases, history, Boxes, Lease
<1>10. CASE RmDrop(a)
  <2>1. hash' \in [Cids -> Session] /\ dies' \in [Cids -> Nat] /\ index' \in SUBSET Cids
    BY <1>3, <1>10, SharedTyped DEF RmDrop, Delete
  <2> QED
    BY <1>1, <1>10, <2>1 DEF RmDrop, RestTyped, docker, leases, history, Boxes, Lease
<1>11. CASE RecoverSave(a)
  <2>1. act[a].cid \in Cids /\ act[a].copy \in Session
    BY <1>2, <1>11 DEF RecoverSave, WithCid, WithCopy, Session
  <2> QED
    BY <1>1, <1>4, <1>11, <2>1
       DEF RecoverSave, Save, RestTyped, docker, leases, history, Boxes, Lease
<1>12. CASE ExpireLate
  <2>1. hash' \in [Cids -> Session] /\ dies' \in [Cids -> Nat]
    <3>1. PICK c \in Cids : /\ hash' = [hash EXCEPT ![c] = NoSession]
                            /\ dies' = [dies EXCEPT ![c] = 0]
      BY <1>12 DEF ExpireLate, Stored
    <3> QED
      BY <1>3, <3>1, SharedTyped
  <2> QED
    BY <1>1, <1>12, <2>1 DEF ExpireLate, RestTyped, docker, leases, history, Boxes, Lease
<1> QED
  BY <1>5, <1>6, <1>7, <1>8, <1>9, <1>10, <1>11, <1>12

LEMMA DockerRest ==
  ASSUME Shaped, NEW a \in Actors, RmKill(a) \/ (a \in Reqs /\ (DockerRun(a) \/ StartExec(a) \/ CodeEnds(a)))
  PROVE  RestTyped'
<1>1. RestTyped
  BY RestOfType
<1>2. box \in Boxes /\ running \in [Cids -> SUBSET [by : Reqs, since : Nat]] /\ now \in Nat
  BY SharedTyped
<1>3. CASE RmKill(a)
  <2>1. act[a].cid \in Cids
    BY <1>3, OwnTyped DEF RmKill, WithCid, Removing
  <2>2. box' \in Boxes
    BY <1>2, <1>3, <2>1 DEF RmKill, Boxes
  <2>3. running' \in [Cids -> SUBSET [by : Reqs, since : Nat]]
    BY <1>2, <1>3, <2>1 DEF RmKill
  <2> QED
    BY <1>1, <1>3, <2>2, <2>3 DEF RmKill, RestTyped, store, leases, history, Lease, Session
<1>4. CASE a \in Reqs /\ DockerRun(a)
  <2>1. ASSUME NEW c \in Cids,
               box' = [box EXCEPT ![c] = [status |-> "up", home |-> Daemon[At[a]],
                                        born |-> now, expires |-> now + Lifetime]]
        PROVE  box' \in Boxes
    <3>1. [status |-> "up", home |-> Daemon[At[a]], born |-> now, expires |-> now + Lifetime]
            \in [status : {"unused", "up", "gone"}, home : {Daemon[g] : g \in Gateways},
                   born : Nat, expires : Nat]
      BY <1>2, <1>4, NumbersTyped, SharedAssumption
    <3> QED
      BY <1>2, <2>1, <3>1 DEF Boxes
  <2>2. box' \in Boxes
    BY <1>2, <1>4, <2>1 DEF DockerRun
  <2> QED
    BY <1>1, <1>4, <2>2 DEF DockerRun, RestTyped, store, leases, history, Lease, Session
<1>5. CASE a \in Reqs /\ (StartExec(a) \/ CodeEnds(a))
  <2>1. running' \in [Cids -> SUBSET [by : Reqs, since : Nat]]
    <3>1. CASE StartExec(a)
      <4>1. act[a].cid \in Cids
        BY <3>1, OwnTyped DEF StartExec, WithCid, ExecSteps
      <4>2. [by |-> a, since |-> now] \in [by : Reqs, since : Nat]
        BY <1>2, <1>5
      <4> QED
        BY <1>2, <3>1, <4>1, <4>2 DEF StartExec
    <3>2. CASE CodeEnds(a)
      BY <1>2, <3>2 DEF CodeEnds
    <3> QED
      BY <1>5, <3>1, <3>2
  <2> QED
    BY <1>1, <1>5, <2>1 DEF StartExec, CodeEnds, RestTyped, store, leases, history, Lease, Session, Boxes
<1> QED
  BY <1>3, <1>4, <1>5

LEMMA LeaseRest ==
  ASSUME Shaped, NEW r \in Reqs, AcquireGuard(r) \/ AcquireExec(r) \/ Release(r) \/ CheckCreated(r)
  PROVE  RestTyped'
<1>1. RestTyped
  BY RestOfType
<1>2. /\ guard \in Lease /\ xlock \in [Cids -> Lease] /\ now \in Nat /\ NoLease \in Lease
      /\ known \in SUBSET Cids
  BY SharedTyped DEF Lease, NoLease
<1>3. [by |-> r, until |-> now + GuardLease] \in Lease /\ [by |-> r, until |-> now + ExecLease] \in Lease
  BY <1>2, NumbersTyped DEF Lease
<1>4. CASE AcquireGuard(r)
  BY <1>1, <1>3, <1>4 DEF AcquireGuard, RestTyped, docker, store, history, Boxes, Session
<1>5. CASE AcquireExec(r)
  <2>1. xlock' \in [Cids -> Lease]
    BY <1>2, <1>3, <1>5 DEF AcquireExec
  <2> QED
    BY <1>1, <1>5, <2>1 DEF AcquireExec, RestTyped, docker, store, history, Boxes, Session
<1>6. CASE Release(r)
  <2>1. guard' \in Lease /\ xlock' \in [Cids -> Lease]
    BY <1>2, <1>6 DEF Release
  <2> QED
    BY <1>1, <1>6, <2>1 DEF Release, RestTyped, docker, store, history, Boxes, Session
<1>7. CASE CheckCreated(r)
  <2>1. known' \in SUBSET Cids
    BY <1>2, <1>7, OwnTyped DEF CheckCreated, WithCid, Creating, Actors
  <2> QED
    BY <1>1, <1>7, <2>1 DEF CheckCreated, RestTyped, docker, store, leases, Boxes, Session, Lease
<1> QED
  BY <1>4, <1>5, <1>6, <1>7

LEMMA TimeRest ==
  ASSUME Shaped, Tick \/ \E g \in Gateways : Crash(g)
  PROVE  RestTyped'
<1>1. RestTyped
  BY RestOfType
<1>2. CASE Tick
  <2>1. now' \in 0..MaxNow
    BY <1>1, <1>2, NumbersTyped DEF Tick, RestTyped
  <2>2. hash' \in [Cids -> Session] /\ dies' \in [Cids -> Nat]
    BY <1>2, SharedTyped DEF Tick, Session
  <2>3. guard' \in Lease /\ xlock' \in [Cids -> Lease]
    <3>1. NoLease \in Lease
      BY DEF Lease, NoLease
    <3> QED
      BY <1>2, <3>1, SharedTyped DEF Tick, Lapse
  <2> QED
    BY <1>1, <1>2, <2>1, <2>2, <2>3 DEF Tick, RestTyped, docker, history, Boxes
<1>3. CASE \E g \in Gateways : Crash(g)
  BY <1>1, <1>3, NumbersTyped DEF Crash, RestTyped, docker, store, leases, Boxes, Lease, Session
<1> QED
  BY <1>2, <1>3

LEMMA ShapedStep ==
  ASSUME Shaped, RestTyped', \/ \E a \in Actors : Moves(a)
                             \/ UNCHANGED act
                             \/ \E g \in Gateways : Crash(g)
  PROVE  Shaped'
<1>1. act' \in [Actors -> ActorRec] /\ \A a \in Actors : ShapeOf(a, act'[a])
  <2>1. CASE \E a \in Actors : Moves(a)
    BY <2>1, ActorTyped DEF Moves
  <2>2. CASE UNCHANGED act
    BY <2>2, ActorTyped DEF Shaped, TypeOK, ActorRec, Shape
  <2> QED
    BY <2>1, <2>2, CrashMoves
<1> QED
  BY <1>1 DEF Shaped, TypeOK, RestTyped, Boxes, ActorRec, Shape, Session

LEMMA ShapedInit == Init => Shaped
<1> SUFFICES ASSUME Init PROVE Shaped
  OBVIOUS
<1>1. \A c \in Cids : Home(c) \in {Daemon[g] : g \in Gateways}
  BY SharedAssumption DEF Home
<1>2. box \in Boxes
  BY <1>1, NumbersTyped DEF Init, Boxes
<1>3. hash \in [Cids -> Session] /\ guard \in Lease /\ xlock \in [Cids -> Lease]
  BY DEF Init, Session, NoLease, Lease
<1>4. \A c \in Cids : Ttl(c) \in Nat
  BY <1>2, NumbersTyped DEF Ttl, Boxes, Init
<1>5. dies \in [Cids -> Nat]
  BY <1>4 DEF Init
<1>6. act \in [Actors -> ActorRec]
  BY FreshFine DEF Init, Places
<1>7. \A a \in Actors : Shape(a)
  BY <1>6, SharedAssumption
     DEF Init, Shape, ShapeOf, Fresh, GatewayOnly, WithCid, WithCopy, ExecSteps, Removing, Creating, Actors
<1> QED
  BY <1>2, <1>3, <1>5, <1>6, <1>7, NumbersTyped, SharedAssumption
     DEF Init, Shaped, TypeOK, ActorRec, Boxes

\* What a step of a handler or a gateway does to the actors.
LEMMA ActorMoves ==
  ASSUME Shaped
  PROVE  /\ \A r \in Reqs : Begin(r) \/ HandlerStep(r) \/ WaitTimeout(r) \/ CodeEnds(r) => Moves(r)
         /\ \A g \in Gateways : GatewayStep(g) => Moves(g)
<1>1. Reqs \subseteq Actors /\ Gateways \subseteq Actors
  BY DEF Actors
<1>2. ASSUME NEW r \in Reqs, AcquireGuard(r) \/ ProvisionEnv(r) \/ AcquireExec(r) \/ FetchContainer(r)
      PROVE  Moves(r)
  BY <1>2, HandlerGotos, OnwardMoves
<1>3. ASSUME NEW r \in Reqs, CreateNext(r) PROVE Moves(r)
  BY <1>1, <1>2, <1>3, ListMoves, CreationMoves DEF CreateNext
<1>4. ASSUME NEW r \in Reqs, ExecuteNext(r) PROVE Moves(r)
  BY <1>2, <1>4, AccessMoves, ExecuteMoves DEF ExecuteNext
<1>5. ASSUME NEW r \in Reqs, Begin(r) \/ HandlerStep(r) \/ WaitTimeout(r) \/ CodeEnds(r)
      PROVE  Moves(r)
  BY <1>1, <1>3, <1>4, <1>5, BeginMoves, RemovalMoves, ReleaseMoves, AccessMoves, ExecuteMoves
     DEF HandlerStep
<1>6. ASSUME NEW g \in Gateways, GatewayStep(g) PROVE Moves(g)
  BY <1>1, <1>6, ListMoves, RemovalMoves, GatewayMoves DEF GatewayStep
<1> QED
  BY <1>5, <1>6

LEMMA ShapedNext ==
  ASSUME Shaped, [Next]_vars
  PROVE  Shaped'
<1>1. Reqs \subseteq Actors /\ Gateways \subseteq Actors
  BY DEF Actors
<1>2. ASSUME NEW a \in Actors,
             ListMembers(a) \/ ListHashes(a) \/ ListStale(a) \/ RemovalNext(a)
      PROVE  RestTyped'
  BY <1>2, SameRest, StoreRest, DockerRest DEF ListMembers, ListHashes, RemovalNext, RmGet
<1>3. ASSUME NEW r \in Reqs, Begin(r) \/ HandlerStep(r) \/ WaitTimeout(r) \/ CodeEnds(r)
      PROVE  RestTyped'
  <2>1. CASE \/ Begin(r) \/ ProvisionEnv(r) \/ GetAccess(r) \/ LookUpContainer(r) \/ WaitTimeout(r)
             \/ GetSession(r) \/ FetchContainer(r) \/ ExecEnds(r)
    BY <2>1, SameRest DEF Begin, ProvisionEnv, GetAccess, LookUpContainer, WaitTimeout, GetSession,
       FetchContainer, ExecEnds
  <2>2. CASE SaveCreated(r) \/ SaveRecovered(r) \/ SaveCounted(r) \/ TouchSession(r)
    BY <1>1, <2>2, StoreRest
  <2>3. CASE DockerRun(r) \/ StartExec(r) \/ CodeEnds(r)
    BY <1>1, <2>3, DockerRest
  <2>4. CASE AcquireGuard(r) \/ AcquireExec(r) \/ Release(r) \/ CheckCreated(r)
    BY <2>4, LeaseRest
  <2> QED
    BY <1>1, <1>2, <1>3, <2>1, <2>2, <2>3, <2>4 DEF HandlerStep, CreateNext, ExecuteNext
<1>4. ASSUME NEW g \in Gateways, GatewayStep(g) PROVE RestTyped'
  <2>1. CASE WakeUp(g) \/ Reap(g) \/ ListContainers(g) \/ Start(g)
    BY <2>1, SameRest DEF WakeUp, Reap, ListContainers, Start
  <2>2. CASE RecoverSave(g)
    BY <1>1, <2>2, StoreRest
  <2>3. CASE RecoverGet(g)
    BY <1>1, <2>3, RecoverRest
  <2> QED
    BY <1>1, <1>2, <1>4, <2>1, <2>2, <2>3 DEF GatewayStep
<1>5. CASE ExpireLate
  <2>1. PICK a : a \in Actors
    BY <1>1, SharedAssumption
  <2> QED
    BY <1>5, <2>1, StoreRest, ShapedStep DEF ExpireLate
<1>6. CASE Tick
  BY <1>6, TimeRest, ShapedStep DEF Tick
<1>7. ASSUME NEW g \in Gateways, Crash(g) PROVE Shaped'
  BY <1>7, TimeRest, ShapedStep
<1>8. CASE UNCHANGED vars
  BY <1>8, SameRest, ShapedStep DEF vars
<1> QED
  BY <1>1, <1>3, <1>4, <1>5, <1>6, <1>7, <1>8, ActorMoves, ShapedStep DEF Next

LEMMA ShapedHolds == Spec => []Shaped
  BY ShapedInit, ShapedNext, PTL DEF Spec

\* Every variable keeps its type.
THEOREM SharedType == Spec => []TypeOK
<1>1. Shaped => TypeOK
  BY DEF Shaped
<1> QED
  BY <1>1, ShapedHolds, PTL

-----------------------------------------------------------------------------
(***************************************************************************)
(* The execution lock                                                      *)
(***************************************************************************)
\* A step that touches no execution lock and goes no further into one.
Passive(a) ==
  /\ UNCHANGED <<now, xlock>>
  /\ \/ /\ Moves(a) /\ Pc(a) # "lost"
        /\ act'[a].pc \in ExecSteps => Pc(a) \in ExecSteps /\ act'[a].cid = act[a].cid
        /\ Starting(a)' => Starting(a)
     \/ act' = act

LEMMA PassiveKeeps ==
  ASSUME Shaped, Locked, NEW a \in Actors, a \in Reqs => Passive(a),
         a \in Gateways => Moves(a) /\ UNCHANGED <<now, xlock>>
  PROVE  Locked'
<1>1. \A b \in Reqs : act'[b] = act[b] \/ (b = a /\ a \in Reqs /\ Passive(a))
  <2>1. CASE a \in Reqs
    BY <2>1 DEF Passive, Moves, Actors
  <2>2. CASE a \in Gateways
    BY <2>2, SharedAssumption DEF Moves, Actors
  <2> QED
    BY <2>1, <2>2 DEF Actors
<1>2. now' = now /\ xlock' = xlock
  BY DEF Passive, Actors
<1>3. ASSUME NEW r \in Reqs PROVE Inside(r)'
  <2>1. Inside(r)
    BY DEF Locked
  <2>2. CASE act'[r] = act[r]
    BY <1>2, <2>1, <2>2 DEF Inside, Starting, Pc, Held
  <2>3. CASE act'[r] # act[r]
    <3>1. /\ act'[r].pc \in ExecSteps => Pc(r) \in ExecSteps /\ act'[r].cid = act[r].cid
          /\ Starting(r)' => Starting(r)
      BY <1>1, <2>3 DEF Passive
    <3>2. Starting(r)' => act'[r].pc \in ExecSteps
      BY DEF Starting, Pc, ExecSteps
    <3> QED
      BY <1>2, <2>1, <3>1, <3>2 DEF Inside, Pc, Held
  <2> QED
    BY <2>2, <2>3
<1>4. ASSUME NEW c \in Cids PROVE OnTime(xlock[c], ExecLease)'
  <2>1. OnTime(xlock[c], ExecLease)
    BY DEF Locked
  <2>2. \A r \in Reqs : act'[r].pc # "lost" => act[r].pc # "lost"
    BY <1>1 DEF Passive, Pc
  <2> QED
    BY <1>2, <2>1, <2>2 DEF OnTime, Held, Pc
<1> QED
  BY <1>3, <1>4 DEF Locked

\* What a handler that does not go on inside the lock does.
LEMMA OutsidePassive ==
  ASSUME Shaped, NEW r \in Reqs, Moves(r), act'[r].pc \notin ExecSteps, Pc(r) # "lost",
         UNCHANGED <<now, xlock>>
  PROVE  Passive(r)
  BY DEF Passive, Starting, Pc, ExecSteps

LEMMA CreatePassive ==
  ASSUME Shaped, NEW r \in Reqs, Begin(r) \/ CreateNext(r) \/ RemovalNext(r) \/ WaitTimeout(r)
  PROVE  Passive(r)
<1>1. r \in Actors /\ r \notin Gateways
  BY SharedAssumption DEF Actors
<1>2. Moves(r)
  BY ActorMoves DEF HandlerStep
<1>3. act \in [Actors -> ActorRec] /\ ShapeOf(r, act[r])
  BY <1>1, ActorTyped
<1>4. Leave(r, "done") \/ Leave(r, "created") => act'[r].pc \notin ExecSteps
  BY LeaveMoves DEF Outcomes, ExecSteps
<1>5. \A p \in Places \ ExecSteps : Goto(r, p) => act'[r].pc \notin ExecSteps
  BY <1>1, <1>3 DEF Goto, ActorRec
<1>6. act'[r].pc \notin ExecSteps
  <2>1. CASE Begin(r)
    <3>1. ASSUME NEW c \in known, NEW o \in {"execute", "delete"},
                 act' = [act EXCEPT ![r].pc = "a_get", ![r].cid = c, ![r].op = o]
          PROVE  act'[r].pc = "a_get"
      BY <1>1, <1>3, <3>1 DEF ActorRec
    <3>2. ASSUME act' = [act EXCEPT ![r].pc = "c_guard", ![r].op = "create"]
          PROVE  act'[r].pc = "c_guard"
      BY <1>1, <1>3, <3>2 DEF ActorRec
    <3> QED
      BY <2>1, <3>1, <3>2 DEF Begin, ExecSteps
  <2>2. CASE AcquireGuard(r) \/ ProvisionEnv(r)
    BY <1>5, <2>2 DEF AcquireGuard, ProvisionEnv, Places, Outcomes, ExecSteps
  <2>3. CASE ListMembers(r) \/ ListStale(r)
    <3>1. Pc(r) = "l_stale" => act[r].after \in {"release", "c_run"}
      BY <1>1, <1>3 DEF ShapeOf, Pc
    <3>2. act'[r].pc \in {"l_hashes", act[r].after}
      BY <1>1, <1>3, <2>3 DEF ListMembers, ListStale, ActorRec
    <3>3. act'[r].pc = "l_hashes" \/ Pc(r) = "l_stale"
      BY <1>1, <1>3, <2>3 DEF ListMembers, ListStale, ActorRec
    <3> QED
      BY <3>1, <3>2, <3>3 DEF ExecSteps
  <2>4. CASE ListHashes(r)
    BY <1>1, <1>3, <2>4 DEF ListHashes, ActorRec, ExecSteps
  <2>5. CASE DockerRun(r) \/ SaveCreated(r)
    <3>1. ASSUME NEW c \in Cids,
                 act' = [act EXCEPT ![r].cid = c, ![r].pc = "c_env",
                                    ![r].copy = [count |-> 0, last |-> now]]
          PROVE  act'[r].pc = "c_env"
      BY <1>1, <1>3, <3>1 DEF ActorRec
    <3>2. SaveCreated(r) => act'[r].pc = "c_check"
      BY <1>1, <1>3 DEF SaveCreated, ActorRec
    <3> QED
      BY <1>4, <2>5, <3>1, <3>2 DEF DockerRun, ExecSteps
  <2>6. CASE CheckCreated(r) \/ WaitTimeout(r)
    BY <1>4, <2>6 DEF CheckCreated, WaitTimeout
  <2>7. CASE RemovalNext(r)
    BY <1>1, <1>4, <1>5, <2>7 DEF RemovalNext, RmGet, RmKill, RmDrop, Finish, Places, ExecSteps
  <2> QED
    BY <2>1, <2>2, <2>3, <2>4, <2>5, <2>6, <2>7 DEF CreateNext
<1>7. Pc(r) # "lost"
  BY DEF Begin, CreateNext, AcquireGuard, ListMembers, ListHashes, ListStale, DockerRun, ProvisionEnv,
     SaveCreated, CheckCreated, RemovalNext, RmGet, RmKill, RmDrop, WaitTimeout
<1>8. UNCHANGED <<now, xlock>>
  BY DEF Begin, CreateNext, AcquireGuard, ListMembers, ListHashes, ListStale, DockerRun, ProvisionEnv,
     SaveCreated, CheckCreated, RemovalNext, RmGet, RmKill, RmDrop, WaitTimeout, leases
<1> QED
  BY <1>2, <1>6, <1>7, <1>8, OutsidePassive

LEMMA ExecutePassive ==
  ASSUME Shaped, NEW r \in Reqs, ExecuteNext(r) \/ CodeEnds(r), ~AcquireExec(r)
  PROVE  Passive(r)
<1>1. r \in Actors /\ r \notin Gateways
  BY SharedAssumption DEF Actors
<1>2. Moves(r)
  BY ActorMoves DEF HandlerStep
<1>3. act \in [Actors -> ActorRec] /\ ShapeOf(r, act[r])
  BY <1>1, ActorTyped
<1>4. UNCHANGED <<now, xlock>>
  BY DEF ExecuteNext, GetAccess, LookUpContainer, SaveRecovered, GetSession, FetchContainer, SaveCounted,
     TouchSession, StartExec, ExecEnds, CodeEnds, leases
<1>5. Leave(r, "done") => act'[r].pc \notin ExecSteps
  BY LeaveMoves DEF Outcomes, ExecSteps
<1>6. ASSUME NEW p \in Places, Goto(r, p)
      PROVE  act'[r].pc = p /\ act'[r].cid = act[r].cid /\ act'[r].after = act[r].after
  BY <1>1, <1>3, <1>6 DEF Goto, ActorRec
<1>7. CASE GetAccess(r) \/ LookUpContainer(r) \/ SaveRecovered(r)
  <2>1. Pc(r) \in {"a_get", "a_docker", "a_save"}
    BY <1>7 DEF GetAccess, LookUpContainer, SaveRecovered
  <2>2. act'[r].pc \notin ExecSteps
    <3>1. CASE \/ Leave(r, "done")
               \/ \E p \in {"a_docker", "rm_kill", "a_save", "rm_get", "x_lock"} : Goto(r, p)
      BY <1>5, <1>6, <3>1 DEF Places, ExecSteps
    <3> QED
      BY <1>7, <3>1 DEF GetAccess, LookUpContainer, SaveRecovered, Admit
  <2> QED
    BY <1>2, <1>4, <2>1, <2>2, OutsidePassive
<1>8. CASE GetSession(r)
  <2>1. Pc(r) \in {"x_get", "t_get"}
    BY <1>8 DEF GetSession
  <2>2. \/ Leave(r, "done")
        \/ /\ act'[r].cid = act[r].cid
           /\ Starting(r)' => Starting(r)
    <3>1. CASE act' = [act EXCEPT ![r].copy = hash[act[r].cid],
                                  ![r].pc = IF @ = "x_get" THEN "x_docker" ELSE "t_set"]
      <4>1. /\ act'[r].cid = act[r].cid /\ act'[r].after = act[r].after
            /\ act'[r].pc = IF Pc(r) = "x_get" THEN "x_docker" ELSE "t_set"
        BY <1>1, <1>3, <3>1 DEF ActorRec, Pc
      <4> QED
        BY <2>1, <4>1 DEF Starting, Pc
    <3>2. CASE Pc(r) = "t_get" /\ act[r].after = "x_start" /\ Goto(r, "x_start")
      BY <1>6, <3>2 DEF Starting, Pc, Places
    <3> QED
      BY <1>8, <3>1, <3>2 DEF GetSession
  <2>3. CASE Leave(r, "done")
    BY <1>2, <1>4, <1>5, <2>1, <2>3, OutsidePassive
  <2> QED
    BY <1>2, <1>4, <2>1, <2>2, <2>3 DEF Passive, ExecSteps
<1>9. CASE FetchContainer(r)
  <2>1. PICK p \in {"rm_drop", "rm_kill", "x_save"} : Goto(r, p)
    BY <1>9 DEF FetchContainer
  <2>2. Pc(r) = "x_docker"
    BY <1>9 DEF FetchContainer
  <2> QED
    BY <1>2, <1>4, <1>6, <2>1, <2>2 DEF Passive, ExecSteps, Starting, Pc, Places
<1>10. CASE SaveCounted(r)
  <2>1. act'[r].cid = act[r].cid /\ Pc(r) = "x_save"
    BY <1>1, <1>3, <1>10 DEF SaveCounted, ActorRec, Pc
  <2> QED
    BY <1>2, <1>4, <2>1 DEF Passive, ExecSteps, Starting, Pc
<1>11. CASE TouchSession(r)
  <2>1. CASE act[r].after = "x_start" /\ act' = [act EXCEPT ![r].pc = "x_start", ![r].copy = NoSession]
    <3>1. act'[r].cid = act[r].cid /\ Pc(r) = "t_set" /\ act'[r].pc = "x_start"
      BY <1>1, <1>3, <1>11, <2>1 DEF TouchSession, ActorRec, Pc
    <3> QED
      BY <1>2, <1>4, <2>1, <3>1 DEF Passive, ExecSteps, Starting, Pc
  <2>2. CASE Leave(r, "done")
    BY <1>2, <1>4, <1>5, <1>11, <2>2, OutsidePassive DEF TouchSession
  <2> QED
    BY <1>11, <2>1, <2>2 DEF TouchSession
<1>12. CASE StartExec(r)
  <2>1. CASE act' = [act EXCEPT ![r].pc = "x_run", ![r].after = "done"]
    <3>1. act'[r].cid = act[r].cid /\ Pc(r) = "x_start" /\ act'[r].pc = "x_run"
      BY <1>1, <1>3, <1>12, <2>1 DEF StartExec, ActorRec, Pc
    <3> QED
      BY <1>2, <1>4, <3>1 DEF Passive, ExecSteps, Starting, Pc
  <2>2. CASE Leave(r, "done")
    BY <1>2, <1>4, <1>5, <1>12, <2>2, OutsidePassive DEF StartExec
  <2> QED
    BY <1>12, <2>1, <2>2 DEF StartExec
<1>13. CASE ExecEnds(r)
  <2>1. act'[r].pc \notin ExecSteps
    BY <1>5, <1>6, <1>13 DEF ExecEnds, ExecSteps, Places
  <2> QED
    BY <1>2, <1>4, <1>13, <2>1, OutsidePassive DEF ExecEnds
<1>14. CASE CodeEnds(r)
  <2>1. CASE Pc(r) = "x_run" /\ Goto(r, "t_get")
    <3>1. act[r].after = "done"
      BY <1>3, <2>1 DEF ShapeOf, Pc
    <3> QED
      BY <1>2, <1>4, <1>6, <2>1, <3>1 DEF Passive, ExecSteps, Starting, Pc, Places
  <2>2. CASE Goto(r, Pc(r))
    BY <1>1, <1>3, <1>4, <2>2 DEF Goto, Pc, ActorRec, Passive
  <2> QED
    BY <1>14, <2>1, <2>2 DEF CodeEnds
<1> QED
  BY <1>7, <1>8, <1>9, <1>10, <1>11, <1>12, <1>13, <1>14 DEF ExecuteNext

LEMMA AcquireExecLocked ==
  ASSUME Shaped, Locked, NEW r \in Reqs, AcquireExec(r)
  PROVE  Locked'
<1>1. r \in Actors /\ Moves(r) /\ act'[r] = [act[r] EXCEPT !.pc = "x_get"]
  BY HandlerGotos, OnwardMoves DEF Actors
<1>2. act[r] \in ActorRec /\ act[r].cid \in Cids /\ now \in Nat /\ xlock \in [Cids -> Lease]
  BY <1>1, ActorTyped, OwnTyped, SharedTyped DEF AcquireExec, WithCid
<1> DEFINE k == act[r].cid
<1>3. act'[r].cid = k /\ act'[r].pc = "x_get"
  BY <1>1, <1>2 DEF ActorRec
<1>4. /\ xlock[k].by \notin Reqs /\ now' = now
      /\ xlock'[k].by = r /\ xlock'[k].until = now + ExecLease
      /\ \A c \in Cids \ {k} : xlock'[c] = xlock[c]
  BY <1>2, SharedAssumption DEF AcquireExec, Free, NoLease
<1>5. \A q \in Reqs \ {r} : act'[q] = act[q]
  BY <1>1 DEF Moves, Actors
<1>6. now' - (xlock'[k].until - ExecLease) = 0
  BY <1>2, <1>4, NumbersTyped
<1>7. ASSUME NEW q \in Reqs PROVE Inside(q)'
  <2>1. CASE q = r
    BY <1>3, <1>4, <1>6, <2>1, NumbersTyped DEF Inside, Pc, Held
  <2>2. CASE q # r
    <3>1. Starting(q) => Pc(q) \in ExecSteps
      BY DEF Starting, ExecSteps
    <3>2. Pc(q) \in ExecSteps => act[q].cid \in Cids \ {k}
      BY <1>4, OwnTyped DEF Locked, Inside, WithCid, Actors
    <3> QED
      BY <1>4, <1>5, <2>2, <3>1, <3>2 DEF Locked, Inside, Pc, Starting, Held
  <2> QED
    BY <2>1, <2>2
<1>8. ASSUME NEW c \in Cids PROVE OnTime(xlock[c], ExecLease)'
  <2>1. CASE c = k
    <3>1. now' - (xlock'[c].until - ExecLease) <= MaxHold
      BY <1>6, <2>1, NumbersTyped
    <3> QED
      BY <3>1 DEF OnTime, Held
  <2>2. CASE c # k
    <3>1. OnTime(xlock[c], ExecLease) /\ xlock'[c] = xlock[c]
      BY <1>4, <2>2 DEF Locked
    <3>2. \A q \in Reqs : act'[q].pc # "lost" => act[q].pc # "lost"
      BY <1>5 DEF AcquireExec, Pc
    <3> QED
      BY <1>4, <3>1, <3>2 DEF OnTime, Held, Pc
  <2> QED
    BY <2>1, <2>2
<1> QED
  BY <1>7, <1>8 DEF Locked

LEMMA ReleaseLocked ==
  ASSUME Shaped, Locked, NEW r \in Reqs, Release(r)
  PROVE  Locked'
<1>1. r \in Actors /\ Moves(r) /\ act'[r].pc \notin ExecSteps
  BY ReleaseMoves DEF Actors, Outcomes, ExecSteps
<1>2. \A q \in Reqs \ {r} : act'[q] = act[q]
  BY <1>1 DEF Moves, Actors
<1>3. /\ now' = now /\ xlock \in [Cids -> Lease]
      /\ \A c \in Cids : IF xlock[c].by = r THEN xlock'[c] = NoLease ELSE xlock'[c] = xlock[c]
  BY SharedTyped DEF Release
<1>4. ASSUME NEW q \in Reqs PROVE Inside(q)'
  <2>1. CASE q = r
    BY <1>1, <2>1 DEF Inside, Pc, Starting, ExecSteps
  <2>2. CASE q # r
    <3>1. Starting(q) => Pc(q) \in ExecSteps
      BY DEF Starting, ExecSteps
    <3>2. Pc(q) \in ExecSteps => xlock'[act[q].cid] = xlock[act[q].cid]
      BY <1>3, <2>2, OwnTyped DEF Locked, Inside, WithCid, Actors
    <3> QED
      BY <1>2, <1>3, <2>2, <3>1, <3>2 DEF Locked, Inside, Pc, Starting, Held
  <2> QED
    BY <2>1, <2>2
<1>5. ASSUME NEW c \in Cids PROVE OnTime(xlock[c], ExecLease)'
  <2>1. NoLease.by \notin Reqs
    BY SharedAssumption DEF NoLease
  <2>2. \A q \in Reqs : act'[q].pc # "lost" => act[q].pc # "lost"
    BY <1>2 DEF Release, Pc
  <2> QED
    BY <1>3, <2>1, <2>2 DEF Locked, OnTime, Held, Pc
<1> QED
  BY <1>4, <1>5 DEF Locked

LEMMA CrashLocked ==
  ASSUME Shaped, Locked, NEW g \in Gateways, Crash(g)
  PROVE  Locked'
<1>1. \A r \in Reqs : act'[r] = act[r] \/ act'[r].pc = "lost"
  BY CrashMoves, SharedAssumption DEF Actors, Fresh
<1>2. now' = now /\ xlock' = xlock
  BY DEF Crash, leases
<1> QED
  BY <1>1, <1>2 DEF Locked, Inside, OnTime, Held, Starting, Pc, ExecSteps

\* The lease of a handler that lives does not lapse.
LEMMA TickLocked ==
  ASSUME Shaped, Locked, Tick, MaxHold < ExecLease
  PROVE  Locked'
<1>1. /\ now \in Nat /\ now' = now + 1 /\ act' = act /\ xlock \in [Cids -> Lease]
      /\ \A c \in Cids : xlock'[c] = Lapse(xlock[c])
  BY SharedTyped DEF Tick
<1>2. ASSUME NEW c \in Cids, xlock[c].by \in Reqs, Pc(xlock[c].by) # "lost"
      PROVE  xlock'[c] = xlock[c] /\ Held(xlock[c], ExecLease)' <= MaxHold
  <2>1. InTime(xlock[c], ExecLease) /\ xlock[c] # NoLease
    BY <1>2, SharedAssumption DEF Tick, NoLease
  <2>2. now - (xlock[c].until - ExecLease) < MaxHold /\ xlock[c].until \in Nat
    BY <1>1, <1>2, <2>1 DEF InTime, Held, Lease
  <2>3. ~(xlock[c].until <= now + 1)
    BY <1>1, <2>2, NumbersTyped
  <2> QED
    BY <1>1, <2>2, <2>3, NumbersTyped DEF Lapse, Held
<1>3. ASSUME NEW r \in Reqs PROVE Inside(r)'
  <2>1. Starting(r) => Pc(r) \in ExecSteps
    BY DEF Starting, ExecSteps
  <2>2. CASE Pc(r) \in ExecSteps
    <3>1. act[r].cid \in Cids /\ xlock[act[r].cid].by = r /\ Pc(r) # "lost"
      BY <2>2, OwnTyped DEF Locked, Inside, WithCid, Actors, ExecSteps
    <3>2. xlock'[act[r].cid] = xlock[act[r].cid] /\ xlock[act[r].cid].until \in Nat
      BY <1>1, <1>2, <3>1 DEF Lease
    <3>3. Starting(r) => Held(xlock[act[r].cid], ExecLease) < MaxStart
      BY DEF Tick
    <3>4. Starting(r)' => Held(xlock[act[r].cid], ExecLease)' <= MaxStart
      BY <1>1, <3>2, <3>3, NumbersTyped DEF Held, Starting, Pc
    <3> QED
      BY <1>1, <3>1, <3>2, <3>4 DEF Inside, Pc
  <2> QED
    BY <1>1, <2>1, <2>2 DEF Inside, Pc, Starting
<1>4. ASSUME NEW c \in Cids PROVE OnTime(xlock[c], ExecLease)'
  <2>1. NoLease.by \notin Reqs
    BY SharedAssumption DEF NoLease
  <2>2. xlock'[c] = xlock[c] \/ xlock'[c] = NoLease
    BY <1>1 DEF Lapse
  <2>3. act' = act
    BY <1>1
  <2> QED
    BY <1>2, <2>1, <2>2, <2>3 DEF OnTime, Pc, Held
<1> QED
  BY <1>3, <1>4 DEF Locked

LEMMA LockedInit == Init => Locked
  BY SharedAssumption DEF Init, Locked, Inside, OnTime, Starting, Pc, Fresh, ExecSteps, NoLease, Actors

LEMMA LockedNext ==
  ASSUME Shaped, Locked, MaxHold < ExecLease, [Next]_vars
  PROVE  Locked'
<1>1. Reqs \subseteq Actors /\ Gateways \subseteq Actors /\ Reqs \cap Gateways = {}
  BY SharedAssumption DEF Actors
<1>2. ASSUME NEW r \in Reqs, Begin(r) \/ HandlerStep(r) \/ WaitTimeout(r) \/ CodeEnds(r)
      PROVE  Locked'
  <2>1. CASE AcquireExec(r)
    BY <2>1, AcquireExecLocked
  <2>2. CASE Release(r)
    BY <2>2, ReleaseLocked
  <2>3. CASE Passive(r)
    BY <1>1, <2>3, PassiveKeeps
  <2> QED
    BY <1>2, <2>1, <2>2, <2>3, CreatePassive, ExecutePassive DEF HandlerStep
<1>3. ASSUME NEW g \in Gateways, GatewayStep(g) PROVE Locked'
  <2>1. UNCHANGED <<now, xlock>>
    BY <1>3 DEF GatewayStep, WakeUp, ListMembers, ListHashes, ListStale, Reap, RemovalNext, RmGet, RmKill,
       RmDrop, ListContainers, RecoverGet, RecoverSave, Start, leases
  <2> QED
    BY <1>1, <1>3, <2>1, ActorMoves, PassiveKeeps
<1>4. CASE ExpireLate \/ UNCHANGED vars
  <2>1. UNCHANGED <<now, xlock, act>>
    BY <1>4 DEF ExpireLate, vars, leases
  <2> QED
    BY <2>1 DEF Locked, Inside, OnTime, Held, Starting, Pc
<1> QED
  BY <1>2, <1>3, <1>4, CrashLocked, TickLocked DEF Next

LEMMA LockedHolds ==
  ASSUME MaxHold < ExecLease
  PROVE  Spec => [](Shaped /\ Locked)
<1>1. Init => Shaped /\ Locked
  BY ShapedInit, LockedInit
<1>2. Shaped /\ Locked /\ [Next]_vars => (Shaped /\ Locked)'
  BY ShapedNext, LockedNext
<1> QED
  BY <1>1, <1>2, PTL DEF Spec

\* While handlers that live leave the execution lock before its lease ends, no two of
\* them, on whatever gateways, are inside the lock of one container, whoever crashed
\* before and whatever leases were left behind (RedisStateBackend.execution_lock).
THEOREM LeasesExclude ==
  ASSUME MaxHold < ExecLease
  PROVE  Spec => []LeaseExclusion
<1>1. Shaped /\ Locked => LeaseExclusion
  BY DEF Locked, Inside, LeaseExclusion
<1> QED
  BY <1>1, LockedHolds, PTL

-----------------------------------------------------------------------------
(***************************************************************************)
(* The user code                                                           *)
(***************************************************************************)
CodeRec == [by : Reqs, since : Nat]

\* Code belongs to requests that wait for it, are about to kill it, or are lost.
LEMMA CodeOwner ==
  ASSUME Shaped, CodeKept, NEW c \in Cids, NEW x \in running[c]
  PROVE  /\ x \in CodeRec /\ x.by \in Actors /\ x.by \notin Gateways
         /\ Pc(x.by) \in {"lost", "x_run", "rm_kill"}
         /\ Pc(x.by) # "lost" => act[x.by].cid = c
  BY SharedTyped, SharedAssumption DEF CodeKept, CodeOf, CodeRec, Actors

\* Steps of those that have no code running.
LEMMA NoCodeKeeps ==
  ASSUME Shaped, CodeKept, NEW a \in Actors, Moves(a), Pc(a) \notin {"lost", "x_run", "rm_kill"},
         UNCHANGED <<now, running>>,
         \A c \in Cids : xlock[c].by \in Reqs \ {a} => xlock'[c] = xlock[c]
  PROVE  CodeKept'
<1>1. ASSUME NEW c \in Cids, NEW x \in running[c]
      PROVE  act'[x.by] = act[x.by] /\ xlock'[c] = xlock[c]
  <2>1. x.by # a /\ x.by \in Actors /\ x.by \in Reqs
    BY <1>1, CodeOwner DEF CodeRec
  <2>2. xlock[c].by = x.by
    BY <1>1 DEF CodeKept, CodeOf
  <2> QED
    BY <2>1, <2>2 DEF Moves
<1> QED
  BY <1>1 DEF CodeKept, CodeOf, Pc

LEMMA StartCode ==
  ASSUME Shaped, Locked, CodeKept, NEW r \in Reqs, StartExec(r)
  PROVE  CodeKept'
<1>1. r \in Actors /\ Moves(r) /\ act \in [Actors -> ActorRec]
  BY ExecuteMoves, ActorTyped DEF Actors
<1>2. Pc(r) = "x_start" /\ act[r].cid \in Cids /\ now \in Nat
  BY <1>1, OwnTyped, SharedTyped DEF StartExec, WithCid, ExecSteps
<1>3. now' = now /\ xlock' = xlock
  BY DEF StartExec, leases
<1>4. CASE UNCHANGED running
  BY <1>1, <1>2, <1>3, <1>4, NoCodeKeeps
<1>5. ASSUME running' = [running EXCEPT ![act[r].cid] = @ \cup {[by |-> r, since |-> now]}],
             act' = [act EXCEPT ![r].pc = "x_run", ![r].after = "done"]
      PROVE  CodeKept'
  <2>1. xlock[act[r].cid].by = r /\ Held(xlock[act[r].cid], ExecLease) <= MaxStart
    BY <1>2 DEF Locked, Inside, Starting, ExecSteps
  <2>2. running[act[r].cid] = {}
    <3> SUFFICES ASSUME NEW x \in running[act[r].cid] PROVE FALSE
      OBVIOUS
    <3>1. x.by = r
      BY <1>2, <2>1 DEF CodeKept, CodeOf
    <3> QED
      BY <1>2, <3>1, CodeOwner
  <2> DEFINE n == [by |-> r, since |-> now]
  <2>3. /\ running'[act[r].cid] = {n}
        /\ \A c \in Cids \ {act[r].cid} : running'[c] = running[c]
    BY <1>2, <1>5, <2>2, SharedTyped
  <2>4. act'[r].pc = "x_run" /\ act'[r].cid = act[r].cid
    BY <1>1, <1>5 DEF ActorRec
  <2>5. xlock[act[r].cid].until \in Nat
    BY <1>2, SharedTyped DEF Lease
  <2>6. ASSUME NEW c \in Cids, c = act[r].cid, NEW x, x = n PROVE CodeOf(c, x)'
    BY <1>2, <1>3, <2>1, <2>4, <2>5, <2>6, NumbersTyped DEF CodeOf, Held, Pc
  <2>7. ASSUME NEW c \in Cids \ {act[r].cid}, NEW x \in running[c] PROVE CodeOf(c, x)'
    <3>1. x.by # r /\ x.by \in Actors
      BY <1>2, <2>7, CodeOwner
    <3> QED
      BY <1>1, <1>3, <2>7, <3>1 DEF CodeKept, CodeOf, Moves, Pc
  <2>8. ASSUME NEW c \in Cids
        PROVE  (\A x \in running'[c] : CodeOf(c, x)') /\ (\A x, y \in running'[c] : x = y)
    <3>1. CASE c = act[r].cid
      BY <2>3, <2>6, <3>1
    <3>2. CASE c # act[r].cid
      BY <2>3, <2>7, <3>2 DEF CodeKept
    <3> QED
      BY <3>1, <3>2
  <2> QED
    BY <2>8 DEF CodeKept
<1> QED
  BY <1>4, <1>5 DEF StartExec

LEMMA EndCode ==
  ASSUME Shaped, CodeKept, NEW r \in Reqs, CodeEnds(r)
  PROVE  CodeKept'
<1>1. r \in Actors /\ Moves(r)
  BY ExecuteMoves DEF Actors
<1>2. PICK c \in Cids :
        \E x \in running[c] : x.by = r /\ running' = [running EXCEPT ![c] = @ \ {x}]
  BY DEF CodeEnds
<1> PICK x \in running[c] : x.by = r /\ running' = [running EXCEPT ![c] = @ \ {x}]
  BY <1>2
<1>3. now' = now /\ xlock' = xlock
  BY DEF CodeEnds, leases
<1>4. ASSUME NEW d \in Cids, NEW y \in running'[d]
      PROVE  y \in running[d] /\ act'[y.by] = act[y.by]
  <2>1. y \in running[d]
    BY <1>2, <1>4, SharedTyped
  <2>2. y.by \in Actors
    BY <2>1, CodeOwner
  <2>3. CASE Pc(r) = "lost" \/ Pc(r) = "rm_kill"
    <3>1. act' = act
      BY <1>1, <2>3, ActorTyped DEF CodeEnds, Goto, Pc, ActorRec
    <3> QED
      BY <2>1, <3>1
  <2>4. CASE Pc(r) = "x_run"
    <3>1. y.by # r
      <4> SUFFICES ASSUME y.by = r PROVE FALSE
        OBVIOUS
      <4>1. d = c
        BY <1>2, <2>1, <2>4, CodeOwner
      <4> QED
        BY <1>2, <1>4, <2>1, <4>1, SharedTyped DEF CodeKept
    <3> QED
      BY <1>1, <2>1, <2>2, <3>1 DEF Moves
  <2> QED
    BY <1>2, <2>3, <2>4, CodeOwner
<1> QED
  BY <1>3, <1>4 DEF CodeKept, CodeOf, Pc

LEMMA AbandonCode ==
  ASSUME Shaped, CodeKept, NEW r \in Reqs, ExecEnds(r)
  PROVE  CodeKept'
<1>1. r \in Actors /\ Moves(r) /\ act[r] \in ActorRec
  BY ExecuteMoves, ActorTyped DEF Actors
<1>2. Pc(r) = "x_run" /\ act[r].cid \in Cids
  BY <1>1, OwnTyped DEF ExecEnds, WithCid, ExecSteps
<1>3. now' = now /\ xlock' = xlock /\ running' = running
  BY DEF ExecEnds, leases, docker
<1>4. ASSUME NEW c \in Cids, NEW x \in running[c] PROVE CodeOf(c, x)'
  <2>1. CodeOf(c, x) /\ x.by \in Actors
    BY CodeOwner DEF CodeKept
  <2>2. CASE x.by # r
    BY <1>1, <1>3, <2>1, <2>2 DEF CodeOf, Moves, Pc
  <2>3. CASE x.by = r
    <3>1. c = act[r].cid
      BY <1>2, <2>3, CodeOwner
    <3>2. Goto(r, "rm_kill")
      BY <1>4, <2>3, <3>1 DEF ExecEnds
    <3>3. act'[r].pc = "rm_kill" /\ act'[r].cid = act[r].cid
      BY <1>1, <3>2, ActorTyped DEF Goto, ActorRec
    <3> QED
      BY <1>3, <2>1, <2>3, <3>1, <3>3 DEF CodeOf, Pc
  <2> QED
    BY <2>2, <2>3
<1> QED
  BY <1>3, <1>4 DEF CodeKept

LEMMA KillCode ==
  ASSUME Shaped, CodeKept, NEW a \in Actors, RmKill(a)
  PROVE  CodeKept'
<1>1. Moves(a) /\ Pc(a) = "rm_kill" /\ act[a].cid \in Cids
  BY RemovalMoves, OwnTyped DEF RemovalNext, RmKill, WithCid, Removing
<1>2. now' = now /\ xlock' = xlock /\ running' = [running EXCEPT ![act[a].cid] = {}]
  BY DEF RmKill, leases
<1>3. ASSUME NEW c \in Cids, NEW x \in running'[c] PROVE x \in running[c] /\ CodeOf(c, x)'
  <2>1. x \in running[c] /\ c # act[a].cid
    BY <1>1, <1>2, <1>3, SharedTyped
  <2>2. x.by # a /\ x.by \in Actors /\ CodeOf(c, x)
    BY <1>1, <2>1, CodeOwner DEF CodeKept
  <2> QED
    BY <1>1, <1>2, <2>1, <2>2 DEF CodeOf, Moves, Pc
<1> QED
  BY <1>3 DEF CodeKept

LEMMA CrashCode ==
  ASSUME Shaped, CodeKept, NEW g \in Gateways, Crash(g)
  PROVE  CodeKept'
<1>1. \A r \in Reqs : act'[r] = act[r] \/ act'[r].pc = "lost"
  BY CrashMoves, SharedAssumption DEF Actors, Fresh
<1>2. now' = now /\ xlock' = xlock /\ running' = running
  BY DEF Crash, leases, docker
<1>3. ASSUME NEW c \in Cids, NEW x \in running[c] PROVE CodeOf(c, x)'
  <2>1. CodeOf(c, x) /\ x.by \in Reqs
    BY CodeOwner DEF CodeKept, CodeRec
  <2> QED
    BY <1>1, <1>2, <2>1 DEF CodeOf, Pc
<1> QED
  BY <1>2, <1>3 DEF CodeKept

\* The executor ends code before the lease it began under lapses.
LEMMA TickCode ==
  ASSUME Shaped, CodeKept, Tick, MaxStart + RunTime < ExecLease
  PROVE  CodeKept'
<1>1. now \in Nat /\ now' = now + 1 /\ act' = act /\ running' = running
  BY SharedTyped DEF Tick, docker
<1>2. ASSUME NEW c \in Cids, NEW x \in running[c] PROVE CodeOf(c, x)'
  <2>1. CodeOf(c, x) /\ x.since \in Nat /\ now - x.since < RunTime /\ xlock[c].until \in Nat
    BY CodeOwner, SharedTyped DEF CodeKept, CodeRec, Tick, Lease
  <2>2. ~(xlock[c].until <= now')
    BY <1>1, <2>1, NumbersTyped DEF CodeOf
  <2>3. xlock'[c] = xlock[c]
    BY <2>2 DEF Tick, Lapse
  <2> QED
    BY <1>1, <2>1, <2>3, NumbersTyped DEF CodeOf, Pc
<1> QED
  BY <1>1, <1>2 DEF CodeKept

LEMMA CodeNext ==
  ASSUME Shaped, Locked, CodeKept, MaxStart + RunTime < ExecLease, [Next]_vars
  PROVE  CodeKept'
<1>1. Reqs \subseteq Actors /\ Gateways \subseteq Actors /\ Reqs \cap Gateways = {}
  BY SharedAssumption DEF Actors
<1>2. ASSUME NEW r \in Reqs, Begin(r) \/ HandlerStep(r) \/ WaitTimeout(r) \/ CodeEnds(r)
      PROVE  CodeKept'
  <2>1. CASE StartExec(r) \/ CodeEnds(r) \/ ExecEnds(r) \/ RmKill(r)
    BY <1>1, <2>1, StartCode, EndCode, AbandonCode, KillCode
  <2>2. CASE ~(StartExec(r) \/ CodeEnds(r) \/ ExecEnds(r) \/ RmKill(r))
    <3>1. Pc(r) \notin {"lost", "x_run", "rm_kill"} /\ UNCHANGED <<now, running>>
      BY <1>2, <2>2 DEF HandlerStep, CreateNext, ExecuteNext, RemovalNext, Begin, WaitTimeout, AcquireGuard,
         ListMembers, ListHashes, ListStale, DockerRun, ProvisionEnv, SaveCreated, CheckCreated, GetAccess,
         LookUpContainer, SaveRecovered, AcquireExec, GetSession, FetchContainer, SaveCounted, TouchSession,
         RmGet, RmDrop, Release, docker
    <3>2. \A c \in Cids : xlock[c].by \in Reqs \ {r} => xlock'[c] = xlock[c]
      <4>1. CASE Release(r)
        BY <4>1 DEF Release
      <4>2. CASE AcquireExec(r)
        <5>1. /\ Free(xlock[act[r].cid])
              /\ xlock' = [xlock EXCEPT ![act[r].cid] = [by |-> r, until |-> now + ExecLease]]
          BY <4>2 DEF AcquireExec
        <5>2. xlock[act[r].cid].by \notin Reqs
          BY <5>1, SharedAssumption DEF Free, NoLease
        <5> QED
          BY <5>1, <5>2, SharedTyped
      <4>3. CASE ~Release(r) /\ ~AcquireExec(r)
        BY <1>2, <2>2, <4>3, CreatePassive, ExecutePassive DEF HandlerStep, Passive
      <4> QED
        BY <4>1, <4>2, <4>3
    <3> QED
      BY <1>1, <1>2, <3>1, <3>2, ActorMoves, NoCodeKeeps
  <2> QED
    BY <2>1, <2>2
<1>3. ASSUME NEW g \in Gateways, GatewayStep(g) PROVE CodeKept'
  <2>1. CASE RmKill(g)
    BY <1>1, <2>1, KillCode
  <2>2. CASE ~RmKill(g)
    <3>1. UNCHANGED <<now, running, xlock>> /\ Pc(g) \notin {"lost", "x_run", "rm_kill"}
      BY <1>3, <2>2 DEF GatewayStep, WakeUp, ListMembers, ListHashes, ListStale, Reap, RemovalNext, RmGet,
         RmDrop, ListContainers, RecoverGet, RecoverSave, Start, leases, docker
    <3> QED
      BY <1>1, <1>3, <3>1, ActorMoves, NoCodeKeeps
  <2> QED
    BY <2>1, <2>2
<1>4. CASE ExpireLate \/ UNCHANGED vars
  <2>1. UNCHANGED <<now, xlock, act, running>>
    BY <1>4 DEF ExpireLate, vars, leases, docker
  <2> QED
    BY <2>1 DEF CodeKept, CodeOf, Pc
<1> QED
  BY <1>2, <1>3, <1>4, CrashCode, TickCode DEF Next

\* If handlers leave the execution lock in time, and the executor ends the code before
\* the lease that it began under lapses, then no two executions, of whatever gateways,
\* are alive in one container, although gateways may die with their code running.
THEOREM OneCodeHolds ==
  ASSUME MaxHold < ExecLease, MaxStart + RunTime < ExecLease
  PROVE  Spec => []OneCode
<1>1. Init => Shaped /\ Locked /\ CodeKept
  BY ShapedInit, LockedInit DEF Init, CodeKept
<1>2. Shaped /\ Locked /\ CodeKept /\ [Next]_vars => (Shaped /\ Locked /\ CodeKept)'
  BY ShapedNext, LockedNext, CodeNext
<1>3. Shaped /\ CodeKept => OneCode
  <2> SUFFICES ASSUME CodeKept, NEW c \in Cids PROVE Cardinality(running[c]) <= 1
    BY DEF OneCode
  <2>1. CASE running[c] = {}
    BY <2>1, FS_EmptySet
  <2>2. CASE running[c] # {}
    <3>1. PICK x : x \in running[c]
      BY <2>2
    <3>2. running[c] = {x}
      BY <3>1 DEF CodeKept
    <3>3. Cardinality({x}) = 1
      BY FS_Singleton
    <3> QED
      BY <3>2, <3>3
  <2> QED
    BY <2>1, <2>2
<1> QED
  BY <1>1, <1>2, <1>3, PTL DEF Spec

-----------------------------------------------------------------------------
(***************************************************************************)
(* Sessions and containers                                                 *)
(***************************************************************************)
\* What a step may do to what others know of a container: it gets older, its session
\* and its index entry stay as long as it is young.
Keeps(c) ==
  Made(c) => /\ Made(c)' /\ box'[c].born = box[c].born
             /\ box[c].status = "gone" => box'[c].status = "gone"
             /\ YoungBox(c)' => /\ YoungBox(c)
                                /\ c \in Stored => c \in Stored'
                                /\ c \in index => c \in index'
KeepsAll == now <= now' /\ \A c \in Cids : Keeps(c) /\ SessionKept(c)'

\* who does not move
LEMMA OthersKept ==
  ASSUME Shaped, Shaped', KeepsAll, NEW b \in Actors, LocalsKept(b), act'[b] = act[b]
  PROVE  LocalsKept(b)'
<1>1. /\ act[b].cid \in Cids \cup {None} /\ act[b].ids \in SUBSET Cids /\ act[b].todo \in SUBSET Cids
      /\ act[b].stamp \in Nat
  BY ActorTyped DEF ActorRec
<1>2. now \in Nat /\ now' \in Nat
  BY SharedTyped DEF Shaped, TypeOK
<1>3. Pc(b)' = Pc(b)
  BY DEF Pc
<1>4. Pc(b) \in WithCid => act[b].cid \in Cids
  BY OwnTyped
<1>5. {"rm_drop", "c_check"} \cup WithCopy \subseteq WithCid
  BY DEF WithCid, WithCopy, Removing, Creating, ExecSteps
<1>6. /\ Pc(b) \in WithCid => Made(act[b].cid)'
      /\ Pc(b) \in WithCopy => act[b].copy.last >= box'[act[b].cid].born
      /\ Pc(b) = "rm_drop" => box'[act[b].cid].status = "gone"
  BY <1>4, <1>5 DEF KeepsAll, Keeps, LocalsKept, Made
<1>7. b \in Gateways /\ Pc(b) \in GatewayOnly \cup Removing \cup {"l_stale"} =>
        \A c \in act[b].todo : Made(c)'
  BY <1>1 DEF KeepsAll, Keeps, LocalsKept
<1>8. Pc(b) = "l_hashes" => /\ act[b].stamp <= now'
                           /\ \A c \in act[b].ids : Made(c)' /\ (YoungBox(c)' => c \in Stored')
  BY <1>1, <1>2 DEF KeepsAll, Keeps, LocalsKept
<1>9. Pc(b) = "l_stale" => \A c \in act[b].ids : Made(c)' /\ ~YoungBox(c)'
  BY <1>1 DEF KeepsAll, Keeps, LocalsKept
<1>10. Pc(b) = "c_check" /\ YoungBox(act[b].cid)' => act[b].cid \in Stored' \cap index'
  BY <1>4, <1>5 DEF KeepsAll, Keeps, LocalsKept
<1> QED
  BY <1>3, <1>6, <1>7, <1>8, <1>9, <1>10 DEF LocalsKept, Pc, Made, YoungBox, Up, HardExpired

\* A step of one actor.
LEMMA StoreStep ==
  ASSUME Shaped, Shaped', StoreKept, KeepsAll, NEW a \in Actors, Moves(a), LocalsKept(a)'
  PROVE  StoreKept'
<1>1. \A b \in Actors \ {a} : LocalsKept(b)'
  BY OthersKept DEF StoreKept, Moves
<1> QED
  BY <1>1 DEF StoreKept, KeepsAll

LEMMA SameKept ==
  ASSUME Shaped, StoreKept, UNCHANGED <<now, box, store, known>>
  PROVE  KeepsAll
<1>1. now' = now /\ now \in Nat
  BY SharedTyped
<1> QED
  BY <1>1 DEF KeepsAll, Keeps, StoreKept, SessionKept, Made, YoungBox, Up, HardExpired, Stored, store

\* What is known of a container.
LEMMA BoxTyped ==
  ASSUME Shaped, NEW c \in Cids
  PROVE  /\ box[c].born \in Nat /\ box[c].expires \in Nat /\ dies[c] \in Nat /\ now \in Nat
         /\ box[c].status \in {"unused", "up", "gone"}
         /\ c \in Stored => hash[c] \in [count : Nat, last : Nat]
  BY SharedTyped DEF Boxes, Session, Stored

\* A session is written that is no older than its container.
LEMMA PutKeeps ==
  ASSUME Shaped, Shaped', StoreKept, NEW c \in Cids, NEW s \in [count : Nat, last : Nat],
         Made(c), s.last >= box[c].born, Put(c, s), UNCHANGED <<now, box, known>>,
         index' = index \/ index' = index \cup {c}
  PROVE  KeepsAll /\ c \in Stored'
<1>1. /\ hash'[c] = s /\ dies'[c] = now + Ttl(c)
      /\ \A d \in Cids \ {c} : hash'[d] = hash[d] /\ dies'[d] = dies[d]
  BY SharedTyped DEF Put
<1>2. s # NoSession
  BY DEF NoSession
<1>3. c \in Stored' /\ \A d \in Cids \ {c} : d \in Stored' <=> d \in Stored
  BY <1>1, <1>2 DEF Stored
<1>4. \A d \in Cids : Keeps(d)
  BY <1>3 DEF Keeps, Made, YoungBox, Up, HardExpired
<1>5. SessionKept(c) /\ box[c].born <= now
  BY DEF StoreKept, SessionKept
<1>6. \/ now + Ttl(c) >= box[c].born + IdleTimeout + Grace
      \/ now + Ttl(c) >= box[c].expires + Grace
  <2> DEFINE left == IF box[c].expires - now > 1 THEN box[c].expires - now ELSE 1
  <2>1. left \in Nat /\ left >= box[c].expires - now
    BY BoxTyped
  <2> HIDE DEF left
  <2>2. Ttl(c) = IdleTimeout + Grace \/ Ttl(c) = left + Grace
    BY DEF Ttl, left
  <2> QED
    BY <1>5, <2>1, <2>2, BoxTyped, NumbersTyped
<1>7. SessionKept(c)'
  BY <1>1, <1>3, <1>5, <1>6 DEF SessionKept, Made, YoungBox, Up, HardExpired
<1>8. ASSUME NEW d \in Cids \ {c} PROVE SessionKept(d)'
  <2>1. SessionKept(d)
    BY DEF StoreKept
  <2> QED
    BY <1>1, <1>3, <2>1 DEF SessionKept, Made, YoungBox, Up, HardExpired
<1> QED
  BY <1>3, <1>4, <1>7, <1>8, BoxTyped DEF KeepsAll

\* The session of a removed container is dropped.
LEMMA DropKeeps ==
  ASSUME Shaped, Shaped', StoreKept, NEW c \in Cids, box[c].status = "gone",
         hash' = [hash EXCEPT ![c] = NoSession], dies' = [dies EXCEPT ![c] = 0],
         UNCHANGED <<now, box, known>>, index' = index \/ index' = index \ {c}
  PROVE  KeepsAll
<1>1. /\ c \notin Stored' /\ ~YoungBox(c) /\ ~YoungBox(c)' /\ Made(c) /\ Made(c)'
      /\ \A d \in Cids \ {c} : hash'[d] = hash[d] /\ dies'[d] = dies[d]
                             /\ (d \in Stored' <=> d \in Stored)
  BY SharedTyped DEF YoungBox, Up, Made, Stored
<1>2. \A d \in Cids : Keeps(d)
  BY <1>1 DEF Keeps, Made, YoungBox, Up, HardExpired
<1>3. ASSUME NEW d \in Cids PROVE SessionKept(d)'
  <2>1. SessionKept(d)
    BY DEF StoreKept
  <2>2. CASE d = c
    BY <1>1, <2>1, <2>2 DEF SessionKept, Made
  <2>3. CASE d # c
    BY <1>1, <2>1, <2>3 DEF SessionKept, Made, YoungBox, Up, HardExpired
  <2> QED
    BY <2>2, <2>3
<1> QED
  BY <1>2, <1>3, SharedTyped DEF KeepsAll

\* A container is created under an id that nobody knows.
LEMMA RunKeeps ==
  ASSUME Shaped, Shaped', StoreKept, NEW c \in Cids, ~Made(c), NEW h,
         box' = [box EXCEPT ![c] = [status |-> "up", home |-> h, born |-> now,
                                    expires |-> now + Lifetime]],
         UNCHANGED <<now, store, known>>
  PROVE  KeepsAll /\ Made(c)' /\ box'[c].born = now
<1>1. /\ box'[c].status = "up" /\ box'[c].born = now
      /\ \A d \in Cids \ {c} : box'[d] = box[d]
  BY SharedTyped DEF Boxes
<1>2. hash' = hash /\ dies' = dies /\ index' = index /\ Stored' = Stored
  BY DEF store, Stored
<1>3. c \notin Stored \cup index \cup known
  BY DEF StoreKept, SessionKept
<1>4. \A d \in Cids : Keeps(d)
  BY <1>1, <1>2 DEF Keeps, Made, YoungBox, Up, HardExpired
<1>5. ASSUME NEW d \in Cids PROVE SessionKept(d)'
  <2>1. SessionKept(d)
    BY DEF StoreKept
  <2>2. CASE d = c
    BY <1>1, <1>2, <1>3, <2>2, BoxTyped DEF SessionKept, Made
  <2>3. CASE d # c
    BY <1>1, <1>2, <2>1, <2>3 DEF SessionKept, Made, YoungBox, Up, HardExpired
  <2> QED
    BY <2>2, <2>3
<1> QED
  BY <1>1, <1>4, <1>5, SharedTyped DEF KeepsAll, Made

LEMMA KillKeeps ==
  ASSUME Shaped, Shaped', StoreKept, NEW c \in Cids, Made(c),
         box' = [box EXCEPT ![c].status = "gone"], UNCHANGED <<now, store, known>>
  PROVE  KeepsAll /\ box'[c].status = "gone"
<1>1. /\ box'[c].status = "gone" /\ box'[c].born = box[c].born /\ box'[c].expires = box[c].expires
      /\ \A d \in Cids \ {c} : box'[d] = box[d]
  BY SharedTyped DEF Boxes
<1>2. hash' = hash /\ dies' = dies /\ index' = index /\ Stored' = Stored
  BY DEF store, Stored
<1>3. \A d \in Cids : Keeps(d)
  BY <1>1, <1>2 DEF Keeps, Made, YoungBox, Up, HardExpired
<1>4. ASSUME NEW d \in Cids PROVE SessionKept(d)'
  <2>1. SessionKept(d)
    BY DEF StoreKept
  <2>2. CASE d = c
    BY <1>1, <1>2, <2>1, <2>2 DEF SessionKept, Made, YoungBox, Up, HardExpired
  <2>3. CASE d # c
    BY <1>1, <1>2, <2>1, <2>3 DEF SessionKept, Made, YoungBox, Up, HardExpired
  <2> QED
    BY <2>2, <2>3
<1> QED
  BY <1>1, <1>3, <1>4, SharedTyped DEF KeepsAll

\* Ids of containers that are no longer young leave the index.
LEMMA SweepKeeps ==
  ASSUME Shaped, Shaped', StoreKept, NEW S \in SUBSET Cids, \A c \in S : ~YoungBox(c),
         index' = index \ S, UNCHANGED <<now, box, hash, dies, known>>
  PROVE  KeepsAll
<1>1. Stored' = Stored
  BY DEF Stored
<1>2. \A d \in Cids : Keeps(d)
  BY <1>1 DEF Keeps, Made, YoungBox, Up, HardExpired
<1>3. ASSUME NEW d \in Cids PROVE SessionKept(d)'
  <2>1. SessionKept(d)
    BY DEF StoreKept
  <2> QED
    BY <1>1, <2>1 DEF SessionKept, Made, YoungBox, Up, HardExpired
<1> QED
  BY <1>2, <1>3, SharedTyped DEF KeepsAll

\* A client is told of a container whose session is there while it is young.
LEMMA TellKeeps ==
  ASSUME Shaped, Shaped', StoreKept, NEW c \in Cids, Made(c), YoungBox(c) => c \in Stored \cap index,
         known' = known \cup {c}, UNCHANGED <<now, box, store>>
  PROVE  KeepsAll
<1>1. hash' = hash /\ dies' = dies /\ index' = index /\ Stored' = Stored
  BY DEF store, Stored
<1>2. \A d \in Cids : Keeps(d)
  BY <1>1 DEF Keeps, Made, YoungBox, Up, HardExpired
<1>3. ASSUME NEW d \in Cids PROVE SessionKept(d)'
  <2>1. SessionKept(d)
    BY DEF StoreKept
  <2> QED
    BY <1>1, <2>1 DEF SessionKept, Made, YoungBox, Up, HardExpired
<1> QED
  BY <1>2, <1>3, SharedTyped DEF KeepsAll

\* Redis drops no session whose container is young: the grace period outlasts both the
\* idle timeout and the lifetime.
LEMMA TickKeeps ==
  ASSUME Shaped, Shaped', StoreKept, Tick, Grace > 0
  PROVE  KeepsAll
<1>1. /\ now' = now + 1 /\ box' = box /\ index' = index /\ known' = known
      /\ \A c \in Cids : hash'[c] = IF dies[c] <= now' THEN NoSession ELSE hash[c]
      /\ \A c \in Cids : dies'[c] = IF dies[c] <= now' THEN 0 ELSE dies[c]
  BY DEF Tick, docker, history
<1>2. ASSUME NEW c \in Cids PROVE Keeps(c) /\ SessionKept(c)'
  <2>1. SessionKept(c)
    BY DEF StoreKept
  <2>2. YoungBox(c)' => YoungBox(c)
    BY <1>1, BoxTyped, NumbersTyped DEF YoungBox, Up, HardExpired
  <2>3. c \in Stored' => c \in Stored /\ hash'[c] = hash[c] /\ dies'[c] = dies[c]
    BY <1>1 DEF Stored
  <2>4. ASSUME c \in Stored, Made(c), YoungBox(c)' PROVE c \in Stored'
    <3>1. ~(dies[c] <= now')
      BY <1>1, <2>1, <2>4, BoxTyped, NumbersTyped DEF SessionKept, YoungBox, Up, HardExpired
    <3> QED
      BY <1>1, <2>4, <3>1 DEF Stored
  <2>5. Keeps(c)
    BY <1>1, <2>2, <2>4 DEF Keeps, Made
  <2>6. YoungBox(c)' => Made(c)
    BY <1>1 DEF YoungBox, Up, Made
  <2>7. /\ Made(c)' = Made(c) /\ index' = index /\ known' = known /\ box' = box
        /\ box[c].born <= now => box[c].born <= now'
    BY <1>1, BoxTyped DEF Made
  <2>8. SessionKept(c)'
    BY <2>1, <2>2, <2>3, <2>4, <2>6, <2>7 DEF SessionKept
  <2> QED
    BY <2>5, <2>8
<1> QED
  BY <1>1, <1>2, SharedTyped DEF KeepsAll

\* Who gets to a place where it knows nothing that matters here.
LEMMA NeutralLocals ==
  ASSUME NEW r \in Reqs, act'[r].pc \notin WithCid \cup {"l_hashes", "l_stale"}
  PROVE  LocalsKept(r)'
<1>1. {"rm_drop", "c_check"} \cup WithCopy \subseteq WithCid /\ r \notin Gateways
  BY SharedAssumption DEF WithCid, WithCopy, Removing, Creating, ExecSteps
<1> QED
  BY <1>1 DEF LocalsKept, Pc

\* Who goes on with what it has.
LEMMA GotoLocals ==
  ASSUME Shaped, Shaped', StoreKept, KeepsAll, NEW a \in Actors, NEW p \in Places, Goto(a, p),
         p \in WithCid => Pc(a) \in WithCid,
         p \in WithCopy => Pc(a) \in WithCopy,
         p \notin {"l_hashes", "l_stale", "c_check"},
         p = "rm_drop" => box'[act[a].cid].status = "gone",
         a \in Gateways /\ p \in GatewayOnly \cup Removing =>
           Pc(a) \in GatewayOnly \cup Removing \cup {"l_stale"}
  PROVE  LocalsKept(a)'
<1>1. act[a] \in ActorRec /\ act \in [Actors -> ActorRec]
  BY ActorTyped
<1>2. /\ act'[a].pc = p /\ act'[a].cid = act[a].cid /\ act'[a].copy = act[a].copy
      /\ act'[a].todo = act[a].todo
  BY <1>1 DEF Goto, ActorRec
<1>3. LocalsKept(a) /\ act[a].todo \in SUBSET Cids /\ (Pc(a) \in WithCid => act[a].cid \in Cids)
  BY <1>1, OwnTyped DEF StoreKept, ActorRec
<1>4. p \in WithCid => box'[act[a].cid].status # "unused"
  BY <1>3 DEF LocalsKept, KeepsAll, Keeps, Made
<1>5. p \in WithCopy => act[a].copy.last >= box'[act[a].cid].born
  <2>1. WithCopy \subseteq WithCid
    BY DEF WithCid, WithCopy, Removing, Creating, ExecSteps
  <2> QED
    BY <1>3, <2>1 DEF LocalsKept, KeepsAll, Keeps
<1>6. a \in Gateways /\ p \in GatewayOnly \cup Removing => \A c \in act[a].todo : Made(c)'
  BY <1>3 DEF LocalsKept, KeepsAll, Keeps
<1> QED
  BY <1>2, <1>4, <1>5, <1>6 DEF LocalsKept, Pc, Made

LEMMA ListLocals ==
  ASSUME Shaped, Shaped', StoreKept, NEW a \in Actors, ListMembers(a) \/ ListHashes(a) \/ ListStale(a)
  PROVE  KeepsAll /\ LocalsKept(a)'
<1>1. act \in [Actors -> ActorRec] /\ act[a] \in ActorRec /\ LocalsKept(a) /\ ShapeOf(a, act[a])
  BY ActorTyped DEF StoreKept
<1>2. /\ {"rm_drop", "c_check"} \cup WithCopy \subseteq WithCid
      /\ {"l_hashes", "l_stale", "scan", "release", "c_run"} \cap (WithCid \cup Removing) = {}
      /\ "l_hashes" \notin GatewayOnly
  BY DEF WithCid, WithCopy, Removing, Creating, ExecSteps, GatewayOnly
<1>3. CASE ListMembers(a)
  <2>1. act'[a].pc = "l_hashes" /\ act'[a].ids = index /\ act'[a].stamp = now
    BY <1>1, <1>3 DEF ListMembers, ActorRec
  <2>2. UNCHANGED <<now, box, store, known>> /\ KeepsAll
    BY <1>3, SameKept DEF ListMembers, docker, history
  <2>3. \A c \in index : Made(c)' /\ (YoungBox(c)' => c \in Stored')
    BY <2>2, SharedTyped DEF StoreKept, SessionKept, Made, YoungBox, Up, HardExpired, Stored, store
  <2>4. now <= now'
    BY <2>2 DEF KeepsAll
  <2> QED
    BY <1>2, <2>1, <2>2, <2>3, <2>4 DEF LocalsKept, Pc
<1>4. CASE ListHashes(a)
  <2>1. UNCHANGED <<now, box, store, known>> /\ KeepsAll /\ Pc(a) = "l_hashes"
    BY <1>4, SameKept DEF ListHashes, docker, history
  <2>2. \A c \in act[a].ids : Made(c)' /\ (YoungBox(c)' => c \in Stored)
    BY <1>1, <2>1, SharedTyped DEF LocalsKept, Made, YoungBox, Up, HardExpired
  <2>3. /\ act'[a].ids = act[a].ids \ Stored
        /\ act'[a].todo \subseteq act[a].ids
        /\ act'[a].pc \in {"l_stale", "scan", "release", "c_run"}
    BY <1>1, <1>4 DEF ListHashes, IdleIds, ActorRec
  <2>4. /\ Pc(a)' \notin WithCid \cup {"l_hashes"}
        /\ \A c \in act'[a].todo : Made(c)'
        /\ \A c \in act'[a].ids : Made(c)' /\ ~YoungBox(c)'
    BY <1>2, <2>2, <2>3 DEF Pc
  <2> QED
    BY <1>2, <2>1, <2>4 DEF LocalsKept
<1>5. CASE ListStale(a)
  <2>1. /\ Pc(a) = "l_stale" /\ index' = index \ act[a].ids
        /\ UNCHANGED <<now, box, hash, dies, known>>
    BY <1>5 DEF ListStale, docker, history
  <2>2. KeepsAll
    BY <1>1, <2>1, SweepKeeps DEF ActorRec, LocalsKept
  <2>3. act'[a].pc = act[a].after /\ act'[a].todo = act[a].todo
    BY <1>1, <1>5 DEF ListStale, ActorRec
  <2>4. act[a].after \in {"scan", "release", "c_run"}
    BY <1>1, <2>1 DEF ShapeOf, Pc
  <2>5. a \in Gateways => \A c \in act[a].todo : Made(c)'
    BY <1>1, <2>1, <2>2 DEF LocalsKept, ActorRec, KeepsAll, Keeps
  <2>6. Pc(a)' \notin WithCid \cup {"l_hashes", "l_stale"}
    BY <1>2, <2>3, <2>4 DEF Pc
  <2> QED
    BY <1>2, <2>2, <2>3, <2>5, <2>6 DEF LocalsKept
<1> QED
  BY <1>3, <1>4, <1>5

LEMMA BeginLocals ==
  ASSUME Shaped, Shaped', StoreKept, NEW r \in Reqs, Begin(r)
  PROVE  KeepsAll /\ LocalsKept(r)'
<1>1. act \in [Actors -> ActorRec] /\ r \in Actors /\ r \notin Gateways
  BY ActorTyped, SharedAssumption DEF Actors
<1>2. UNCHANGED <<now, box, store, known>> /\ KeepsAll
  BY SameKept DEF Begin, docker, history
<1>3. CASE act' = [act EXCEPT ![r].pc = "c_guard", ![r].op = "create"]
  <2>1. act'[r].pc = "c_guard"
    BY <1>1, <1>3 DEF ActorRec
  <2> QED
    BY <1>2, <2>1, NeutralLocals DEF WithCid, Removing, Creating, ExecSteps
<1>4. ASSUME NEW c \in known, NEW o \in {"execute", "delete"},
             act' = [act EXCEPT ![r].pc = "a_get", ![r].cid = c, ![r].op = o]
      PROVE  LocalsKept(r)'
  <2>1. act'[r].pc = "a_get" /\ act'[r].cid = c
    BY <1>1, <1>4 DEF ActorRec
  <2>2. box'[c].status # "unused"
    BY <1>2, SharedTyped DEF StoreKept, SessionKept, Made
  <2> QED
    BY <1>1, <2>1, <2>2 DEF LocalsKept, Pc, Made, WithCopy
<1> QED
  BY <1>2, <1>3, <1>4 DEF Begin

LEMMA LeaveLocals ==
  ASSUME Shaped, NEW r \in Reqs, NEW o \in Outcomes, Leave(r, o)
  PROVE  LocalsKept(r)'
<1>1. act'[r].pc \in {"release"} \cup Outcomes
  BY LeaveMoves
<1> QED
  BY <1>1, NeutralLocals DEF WithCid, Removing, Creating, ExecSteps, Outcomes

LEMMA CreateLocals ==
  ASSUME Shaped, Shaped', StoreKept, NEW r \in Reqs,
         DockerRun(r) \/ SaveCreated(r) \/ CheckCreated(r) \/ AcquireGuard(r) \/ ProvisionEnv(r)
  PROVE  KeepsAll /\ LocalsKept(r)'
<1>1. /\ act \in [Actors -> ActorRec] /\ act[r] \in ActorRec /\ r \in Actors /\ r \notin Gateways
      /\ LocalsKept(r)
  BY ActorTyped, SharedAssumption DEF Actors, StoreKept
<1>2. Pc(r) \in Creating => act[r].cid \in Cids /\ Made(act[r].cid)
  BY <1>1, OwnTyped DEF LocalsKept, WithCid
<1>3. CASE DockerRun(r)
  <2>1. CASE Leave(r, "done") /\ UNCHANGED box
    <3>1. KeepsAll
      BY <1>3, <2>1, SameKept DEF DockerRun, history
    <3> QED
      BY <2>1, <3>1, LeaveLocals DEF Outcomes
  <2>2. ASSUME NEW c \in Cids, ~Made(c),
               box' = [box EXCEPT ![c] = [status |-> "up", home |-> Daemon[At[r]],
                                        born |-> now, expires |-> now + Lifetime]],
               act' = [act EXCEPT ![r].cid = c, ![r].pc = "c_env",
                                  ![r].copy = [count |-> 0, last |-> now]]
        PROVE  KeepsAll /\ LocalsKept(r)'
    <3>1. UNCHANGED <<now, store, known>>
      BY <1>3 DEF DockerRun, history
    <3>2. KeepsAll /\ Made(c)' /\ box'[c].born = now
      BY <2>2, <3>1, RunKeeps
    <3>3. act'[r].pc = "c_env" /\ act'[r].cid = c /\ act'[r].copy.last = now
      BY <1>1, <2>2 DEF ActorRec
    <3> QED
      BY <1>1, <3>2, <3>3, SharedTyped DEF LocalsKept, Pc, Made
  <2> QED
    BY <1>3, <2>1, <2>2 DEF DockerRun, Made
<1>4. CASE SaveCreated(r)
  <2> DEFINE c == act[r].cid
             k == act[r].copy
  <2>1. c \in Cids /\ Made(c) /\ k \in [count : Nat, last : Nat] /\ k.last >= box[c].born
    BY <1>1, <1>2, <1>4, OwnTyped DEF SaveCreated, Creating, WithCopy, LocalsKept
  <2>2. Put(c, k) /\ index' = index \cup {c} /\ UNCHANGED <<now, box, known>>
    BY <1>4 DEF SaveCreated, Save, docker, history
  <2>3. act'[r].pc = "c_check" /\ act'[r].cid = c
    BY <1>1, <1>4 DEF SaveCreated, ActorRec
  <2> HIDE DEF c, k
  <2>4. KeepsAll /\ c \in Stored' /\ c \in index'
    BY <2>1, <2>2, PutKeeps
  <2>5. box'[c].status # "unused"
    BY <2>1, <2>2 DEF Made
  <2> QED
    BY <1>1, <2>3, <2>4, <2>5 DEF LocalsKept, Pc, Made, WithCopy
<1>5. CASE CheckCreated(r)
  <2>1. CASE Leave(r, "done") /\ UNCHANGED known
    <3>1. KeepsAll
      BY <1>5, <2>1, SameKept DEF CheckCreated, docker
    <3> QED
      BY <2>1, <3>1, LeaveLocals DEF Outcomes
  <2>2. CASE Leave(r, "created") /\ known' = known \cup {act[r].cid}
    <3>1. /\ act[r].cid \in Cids /\ Made(act[r].cid)
          /\ YoungBox(act[r].cid) => act[r].cid \in Stored \cap index
      BY <1>1, <1>2, <1>5 DEF CheckCreated, LocalsKept, Creating
    <3>2. KeepsAll
      BY <1>5, <2>2, <3>1, TellKeeps DEF CheckCreated, docker
    <3> QED
      BY <2>2, <3>2, LeaveLocals DEF Outcomes
  <2> QED
    BY <1>5, <2>1, <2>2 DEF CheckCreated
<1>6. CASE AcquireGuard(r) \/ ProvisionEnv(r)
  <2>1. KeepsAll
    BY <1>6, SameKept DEF AcquireGuard, ProvisionEnv, docker, history
  <2>2. PICK p \in {"l_members", "c_save", "rm_kill"} :
          Goto(r, p) /\ (p # "l_members" => Pc(r) = "c_env")
    BY <1>6 DEF AcquireGuard, ProvisionEnv
  <2>3. p \in Places /\ p \notin {"l_hashes", "l_stale", "c_check", "rm_drop"}
    BY DEF Places
  <2>4. (p \in WithCid => Pc(r) \in WithCid) /\ (p \in WithCopy => Pc(r) \in WithCopy)
    BY <2>2 DEF WithCid, WithCopy, Removing, Creating, ExecSteps
  <2> QED
    BY <1>1, <2>1, <2>2, <2>3, <2>4, GotoLocals
<1> QED
  BY <1>3, <1>4, <1>5, <1>6

\* A handler goes to a place that needs no more than its container.
LEMMA OnwardLocals ==
  ASSUME Shaped, Shaped', StoreKept, KeepsAll, NEW r \in Reqs, Pc(r) \in WithCid,
         NEW p \in {"a_docker", "a_save", "rm_get", "rm_kill", "rm_drop", "x_lock", "x_get", "x_save",
                    "x_start", "t_get"},
         Goto(r, p), p = "x_save" => Pc(r) = "x_docker",
         p = "rm_drop" => box'[act[r].cid].status = "gone"
  PROVE  LocalsKept(r)'
<1>1. r \in Actors /\ r \notin Gateways /\ p \in Places
  BY SharedAssumption DEF Actors, Places
<1>2. p \in WithCopy => Pc(r) \in WithCopy
  BY DEF WithCopy
<1> QED
  BY <1>1, <1>2, GotoLocals

LEMMA AccessLocals ==
  ASSUME Shaped, Shaped', StoreKept, NEW r \in Reqs,
         GetAccess(r) \/ LookUpContainer(r) \/ SaveRecovered(r) \/ WaitTimeout(r)
  PROVE  KeepsAll /\ LocalsKept(r)'
<1>1. r \in Actors /\ LocalsKept(r)
  BY DEF Actors, StoreKept
<1>2. Leave(r, "done") => LocalsKept(r)'
  BY LeaveLocals DEF Outcomes
<1>3. CASE WaitTimeout(r)
  <2>1. KeepsAll
    BY <1>3, SameKept DEF WaitTimeout, docker, history
  <2> QED
    BY <1>2, <1>3, <2>1 DEF WaitTimeout
<1>4. CASE ~WaitTimeout(r)
  <2>1. Pc(r) \in {"a_get", "a_docker", "a_save"}
    BY <1>4 DEF GetAccess, LookUpContainer, SaveRecovered
  <2>2. Pc(r) \in WithCid /\ act[r].cid \in Cids /\ Made(act[r].cid)
    BY <1>1, <2>1, OwnTyped DEF WithCid, LocalsKept
  <2>3. KeepsAll
    <3>1. CASE SaveRecovered(r)
      <4>1. Recovered(act[r].cid) \in [count : Nat, last : Nat]
            /\ Recovered(act[r].cid).last >= box[act[r].cid].born
        BY <2>2, BoxTyped DEF Recovered
      <4>2. /\ Put(act[r].cid, Recovered(act[r].cid)) /\ index' = index \cup {act[r].cid}
            /\ UNCHANGED <<now, box, known>>
        BY <3>1 DEF SaveRecovered, Save, docker, history
      <4> QED
        BY <2>2, <4>1, <4>2, PutKeeps
    <3>2. CASE GetAccess(r) \/ LookUpContainer(r)
      BY <3>2, SameKept DEF GetAccess, LookUpContainer, docker, history
    <3> QED
      BY <1>4, <3>1, <3>2
  <2>4. \/ Leave(r, "done")
        \/ \E p \in {"a_docker", "rm_kill", "a_save", "rm_get", "x_lock"} : Goto(r, p)
    BY <1>4 DEF GetAccess, LookUpContainer, SaveRecovered, Admit
  <2>5. ASSUME NEW p \in {"a_docker", "rm_kill", "a_save", "rm_get", "x_lock"}, Goto(r, p)
        PROVE  LocalsKept(r)'
    BY <2>2, <2>3, <2>5, OnwardLocals
  <2> QED
    BY <1>2, <2>3, <2>4, <2>5
<1> QED
  BY <1>3, <1>4

LEMMA ExecuteLocals ==
  ASSUME Shaped, Shaped', StoreKept, NEW r \in Reqs,
         \/ AcquireExec(r) \/ GetSession(r) \/ FetchContainer(r) \/ SaveCounted(r)
         \/ TouchSession(r) \/ StartExec(r) \/ ExecEnds(r)
  PROVE  KeepsAll /\ LocalsKept(r)'
<1>1. /\ r \in Actors /\ LocalsKept(r) /\ r \notin Gateways
      /\ act \in [Actors -> ActorRec] /\ act[r] \in ActorRec
  BY ActorTyped, SharedAssumption DEF Actors, StoreKept
<1>2. Leave(r, "done") => LocalsKept(r)'
  BY LeaveLocals DEF Outcomes
<1>3. Pc(r) \in WithCid /\ act[r].cid \in Cids /\ Made(act[r].cid)
  <2>1. Pc(r) \in WithCid
    BY DEF AcquireExec, GetSession, FetchContainer, SaveCounted, TouchSession, StartExec, ExecEnds,
           WithCid, ExecSteps
  <2> QED
    BY <1>1, <2>1, OwnTyped DEF LocalsKept
<1>4. SessionKept(act[r].cid) /\ box[act[r].cid].born <= now
  BY <1>3 DEF StoreKept, SessionKept
<1>5. CASE AcquireExec(r) \/ ExecEnds(r)
  <2>1. KeepsAll
    BY <1>5, SameKept DEF AcquireExec, ExecEnds, docker, history
  <2>2. Leave(r, "done") \/ \E p \in {"x_get", "rm_kill"} : Goto(r, p)
    BY <1>5 DEF AcquireExec, ExecEnds
  <2> QED
    BY <1>2, <1>3, <2>1, <2>2, OnwardLocals
<1>6. CASE GetSession(r)
  <2>1. KeepsAll /\ box' = box
    BY <1>6, SameKept DEF GetSession, docker, history
  <2>2. CASE /\ act[r].cid \in Stored
             /\ act' = [act EXCEPT ![r].copy = hash[act[r].cid],
                                   ![r].pc = IF @ = "x_get" THEN "x_docker" ELSE "t_set"]
    <3>1. /\ act'[r].cid = act[r].cid /\ act'[r].copy = hash[act[r].cid]
          /\ act'[r].pc \in {"x_docker", "t_set"}
      BY <1>1, <2>2 DEF ActorRec
    <3> QED
      BY <1>1, <1>3, <1>4, <2>1, <2>2, <3>1 DEF LocalsKept, Pc, Made, SessionKept
  <2>3. CASE Leave(r, "done") \/ Goto(r, "x_start")
    BY <1>2, <1>3, <2>1, <2>3, OnwardLocals
  <2> QED
    BY <1>6, <2>1, <2>2, <2>3 DEF GetSession
<1>7. CASE FetchContainer(r)
  <2>1. KeepsAll /\ box' = box
    BY <1>7, SameKept DEF FetchContainer, docker, history
  <2>2. PICK p \in {"rm_drop", "rm_kill", "x_save"} :
          Goto(r, p) /\ (p = "rm_drop" => ~Up(act[r].cid)) /\ Pc(r) = "x_docker"
    BY <1>7 DEF FetchContainer
  <2>3. p = "rm_drop" => box'[act[r].cid].status = "gone"
    BY <1>3, <2>1, <2>2, BoxTyped DEF Up, Made
  <2> QED
    BY <1>3, <2>1, <2>2, <2>3, OnwardLocals
<1>8. CASE SaveCounted(r)
  <2> DEFINE k == [count |-> act[r].copy.count + 1, last |-> now]
  <2>1. k \in [count : Nat, last : Nat] /\ k.last >= box[act[r].cid].born
    BY <1>1, <1>4, <1>8, OwnTyped, SharedTyped DEF SaveCounted, WithCopy
  <2>2. Put(act[r].cid, k) /\ index' = index \cup {act[r].cid} /\ UNCHANGED <<now, box, known>>
    BY <1>8 DEF SaveCounted, Save, docker
  <2> HIDE DEF k
  <2>3. KeepsAll
    BY <1>3, <2>1, <2>2, PutKeeps
  <2>4. act'[r].pc = "t_get" /\ act'[r].cid = act[r].cid
    BY <1>1, <1>8 DEF SaveCounted, ActorRec
  <2> QED
    BY <1>1, <1>3, <2>2, <2>3, <2>4 DEF LocalsKept, Pc, Made, WithCopy
<1>9. CASE TouchSession(r)
  <2> DEFINE k == [act[r].copy EXCEPT !.last = now]
  <2>1. act[r].copy \in [count : Nat, last : Nat]
    BY <1>1, <1>9, OwnTyped DEF TouchSession, WithCopy
  <2>2. k \in [count : Nat, last : Nat] /\ k.last >= box[act[r].cid].born
    BY <1>4, <2>1, SharedTyped
  <2>3. Put(act[r].cid, k) /\ index' = index /\ UNCHANGED <<now, box, known>>
    BY <1>9 DEF TouchSession, docker, history
  <2> HIDE DEF k
  <2>4. KeepsAll
    BY <1>3, <2>2, <2>3, PutKeeps
  <2>5. CASE act' = [act EXCEPT ![r].pc = "x_start", ![r].copy = NoSession]
    <3>1. act'[r].pc = "x_start" /\ act'[r].cid = act[r].cid
      BY <1>1, <2>5 DEF ActorRec
    <3> QED
      BY <1>1, <1>3, <2>3, <2>4, <3>1 DEF LocalsKept, Pc, Made, WithCopy
  <2> QED
    BY <1>2, <1>9, <2>4, <2>5 DEF TouchSession
<1>10. CASE StartExec(r)
  <2>1. KeepsAll /\ box' = box
    BY <1>10, SameKept DEF StartExec, docker, history
  <2>2. CASE act' = [act EXCEPT ![r].pc = "x_run", ![r].after = "done"]
    <3>1. act'[r].pc = "x_run" /\ act'[r].cid = act[r].cid
      BY <1>1, <2>2 DEF ActorRec
    <3> QED
      BY <1>1, <1>3, <2>1, <3>1 DEF LocalsKept, Pc, Made, WithCopy
  <2> QED
    BY <1>2, <1>10, <2>1, <2>2 DEF StartExec
<1> QED
  BY <1>5, <1>6, <1>7, <1>8, <1>9, <1>10

LEMMA CodeEndsLocals ==
  ASSUME Shaped, Shaped', StoreKept, NEW r \in Reqs, CodeEnds(r)
  PROVE  KeepsAll /\ LocalsKept(r)'
<1>1. r \in Actors /\ act \in [Actors -> ActorRec]
  BY ActorTyped DEF Actors
<1>2. KeepsAll
  BY SameKept DEF CodeEnds, history
<1>3. CASE Pc(r) = "x_run" /\ Goto(r, "t_get")
  BY <1>2, <1>3, OnwardLocals DEF WithCid, ExecSteps
<1>4. CASE Goto(r, Pc(r))
  <2>1. act' = act
    BY <1>1, <1>4 DEF Goto, Pc, ActorRec
  <2> QED
    BY <1>1, <1>2, <2>1, OthersKept DEF StoreKept
<1> QED
  BY <1>2, <1>3, <1>4 DEF CodeEnds

LEMMA RemovalLocals ==
  ASSUME Shaped, Shaped', StoreKept, NEW a \in Actors, RemovalNext(a)
  PROVE  KeepsAll /\ LocalsKept(a)'
<1>1. /\ Pc(a) \in Removing /\ Pc(a) \in WithCid /\ act[a].cid \in Cids
      /\ LocalsKept(a) /\ Made(act[a].cid)
  <2>1. Pc(a) \in Removing /\ Pc(a) \in WithCid
    BY DEF RemovalNext, RmGet, RmKill, RmDrop, Removing, WithCid
  <2> QED
    BY <2>1, OwnTyped DEF StoreKept, LocalsKept
<1>2. ASSUME KeepsAll, NEW p \in {"rm_kill", "rm_drop"}, Goto(a, p),
             p = "rm_drop" => box'[act[a].cid].status = "gone"
      PROVE  LocalsKept(a)'
  <2>1. p \in Places /\ p \notin WithCopy /\ p \notin {"l_hashes", "l_stale", "c_check"}
    BY DEF Places, WithCopy
  <2> QED
    BY <1>1, <1>2, <2>1, GotoLocals
<1>3. ASSUME KeepsAll, Finish(a) PROVE LocalsKept(a)'
  <2>1. CASE a \in Gateways
    <3>1. Goto(a, act[a].after) /\ act[a].after \in {"scan", "recover"}
      BY <1>1, <1>3, <2>1, ActorTyped DEF Finish, ShapeOf, Pc
    <3>2. act[a].after \in Places \ WithCid /\ act[a].after \notin {"l_hashes", "l_stale", "c_check", "rm_drop"}
          /\ act[a].after \notin WithCopy
      BY <3>1 DEF Places, WithCid, WithCopy, ExecSteps, Removing, Creating
    <3> QED
      BY <1>1, <1>3, <3>1, <3>2, GotoLocals
  <2>2. CASE a \in Reqs
    BY <1>3, <2>2, LeaveLocals, SharedAssumption DEF Finish, Outcomes
  <2> QED
    BY <2>1, <2>2 DEF Actors
<1>4. CASE RmGet(a)
  <2>1. KeepsAll /\ box' = box
    BY <1>4, SameKept DEF RmGet, docker, history
  <2>2. ~Up(act[a].cid) => box'[act[a].cid].status = "gone"
    BY <1>1, <2>1, BoxTyped DEF Up, Made
  <2> QED
    BY <1>2, <1>3, <1>4, <2>1, <2>2 DEF RmGet
<1>5. CASE RmKill(a)
  <2>1. KeepsAll /\ box'[act[a].cid].status = "gone"
    BY <1>1, <1>5, KillKeeps DEF RmKill, history
  <2> QED
    BY <1>2, <1>5, <2>1 DEF RmKill
<1>6. CASE RmDrop(a)
  <2>1. box[act[a].cid].status = "gone"
    BY <1>1, <1>6 DEF RmDrop, LocalsKept
  <2>2. KeepsAll
    BY <1>1, <1>6, <2>1, DropKeeps DEF RmDrop, Delete, docker, history
  <2> QED
    BY <1>3, <1>6, <2>2 DEF RmDrop
<1> QED
  BY <1>4, <1>5, <1>6 DEF RemovalNext

LEMMA GatewayLocals ==
  ASSUME Shaped, Shaped', StoreKept, NEW g \in Gateways,
         WakeUp(g) \/ Reap(g) \/ ListContainers(g) \/ RecoverGet(g) \/ RecoverSave(g) \/ Start(g)
  PROVE  KeepsAll /\ LocalsKept(g)'
<1>1. /\ g \in Actors /\ LocalsKept(g) /\ act \in [Actors -> ActorRec] /\ act[g] \in ActorRec
  BY ActorTyped DEF Actors, StoreKept
<1>2. Pc(g) \in {"sleep", "scan", "boot", "recover", "r_save", "down"}
  BY DEF WakeUp, Reap, ListContainers, RecoverGet, RecoverSave, Start
<1>3. \A c \in act[g].todo : c \in Cids /\ Made(c)
  BY <1>1, <1>2 DEF LocalsKept, GatewayOnly, ActorRec
<1>4. ~RecoverSave(g) => UNCHANGED <<now, box, store, known>>
  BY DEF WakeUp, Reap, ListContainers, RecoverGet, Start, docker, history
<1>5. ~RecoverSave(g) => KeepsAll
  BY <1>4, SameKept
<1>6. CASE WakeUp(g)
  BY <1>1, <1>5, <1>6, GotoLocals DEF RecoverSave, WakeUp, Places, WithCid, WithCopy, ExecSteps, Removing,
     Creating, GatewayOnly
<1>7. CASE Start(g)
  <2>1. Goto(g, "boot") /\ Pc(g) = "down" /\ "boot" \in Places /\ ~RecoverSave(g)
    BY <1>7 DEF Start, RecoverSave, Places
  <2> QED
    BY <1>1, <1>5, <2>1, GotoLocals DEF WithCid, WithCopy, ExecSteps, Removing, Creating, GatewayOnly
<1>8. CASE Reap(g)
  <2>1. PICK c \in act[g].todo :
          act' = [act EXCEPT ![g].cid = c, ![g].todo = @ \ {c}, ![g].pc = "rm_get",
                             ![g].after = "scan"]
    BY <1>8 DEF Reap
  <2>2. act'[g].pc = "rm_get" /\ act'[g].cid = c /\ act'[g].todo = act[g].todo \ {c}
    BY <1>1, <2>1 DEF ActorRec
  <2>3. ~RecoverSave(g)
    BY <1>8 DEF Reap, RecoverSave
  <2> QED
    BY <1>3, <1>4, <1>5, <2>2, <2>3 DEF LocalsKept, Pc, Made, WithCopy
<1>9. CASE ListContainers(g)
  <2>1. /\ act'[g].pc = "recover"
        /\ act'[g].todo = {c \in Cids : Up(c) /\ Local(g, c)} \ act[g].snap
    BY <1>1, <1>9 DEF ListContainers, ActorRec
  <2>2. ~RecoverSave(g)
    BY <1>9 DEF ListContainers, RecoverSave
  <2>3. \A c \in act'[g].todo : Made(c)'
    BY <1>4, <2>1, <2>2 DEF Up, Made
  <2> QED
    BY <1>5, <2>1, <2>2, <2>3 DEF LocalsKept, Pc, WithCid, WithCopy, ExecSteps, Removing, Creating
<1>10. CASE RecoverGet(g)
  <2>1. ~RecoverSave(g)
    BY <1>10 DEF RecoverGet, RecoverSave
  <2>2. CASE act' = [act EXCEPT ![g] = Fresh("sleep")]
    <3>1. act'[g].pc = "sleep" /\ act'[g].todo = {}
      BY <1>1, <2>2 DEF Fresh
    <3> QED
      BY <1>5, <2>1, <3>1 DEF LocalsKept, Pc, WithCid, WithCopy, ExecSteps, Removing, Creating
  <2>3. ASSUME NEW c \in act[g].todo,
          act' = [act EXCEPT
            ![g].cid = c, ![g].todo = @ \ {c}, ![g].after = "recover",
            ![g].copy = IF c \in Stored THEN hash[c] ELSE Recovered(c),
            ![g].pc = IF c \notin Stored /\ Requires(g) THEN "rm_kill" ELSE "r_save"]
        PROVE LocalsKept(g)'
    <3>1. /\ act'[g].pc \in {"rm_kill", "r_save"} /\ act'[g].cid = c
          /\ act'[g].todo = act[g].todo \ {c}
          /\ act'[g].copy = IF c \in Stored THEN hash[c] ELSE Recovered(c)
      BY <1>1, <2>3 DEF ActorRec
    <3>2. c \in Cids /\ SessionKept(c) /\ Made(c)
      BY <1>3 DEF StoreKept
    <3>3. act'[g].copy.last >= box[c].born
      BY <3>1, <3>2, BoxTyped DEF Recovered, SessionKept
    <3> QED
      BY <1>3, <1>4, <2>1, <3>1, <3>2, <3>3 DEF LocalsKept, Pc, Made
  <2> QED
    BY <1>5, <1>10, <2>1, <2>2, <2>3 DEF RecoverGet
<1>11. CASE RecoverSave(g)
  <2> DEFINE c == act[g].cid
             k == act[g].copy
  <2>1. c \in Cids /\ Made(c) /\ k \in [count : Nat, last : Nat] /\ k.last >= box[c].born
    BY <1>1, <1>11, OwnTyped DEF RecoverSave, WithCid, WithCopy, LocalsKept
  <2>2. Put(c, k) /\ index' = index \cup {c} /\ UNCHANGED <<now, box, known>>
    BY <1>11 DEF RecoverSave, Save, docker, history
  <2> HIDE DEF c, k
  <2>3. KeepsAll
    BY <2>1, <2>2, PutKeeps
  <2>4. act'[g].pc = "recover" /\ act'[g].todo = act[g].todo
    BY <1>1, <1>11 DEF RecoverSave, ActorRec
  <2>5. \A d \in act[g].todo : Made(d)'
    BY <1>3, <2>2 DEF Made
  <2> QED
    BY <2>3, <2>4, <2>5 DEF LocalsKept, Pc, WithCid, WithCopy, ExecSteps, Removing, Creating
<1> QED
  BY <1>6, <1>7, <1>8, <1>9, <1>10, <1>11

LEMMA CrashStore ==
  ASSUME Shaped, Shaped', StoreKept, NEW g \in Gateways, Crash(g)
  PROVE  StoreKept'
<1>1. KeepsAll
  BY SameKept DEF Crash, docker
<1>2. ASSUME NEW a \in Actors PROVE LocalsKept(a)'
  <2>1. CASE act'[a] = act[a]
    BY <1>1, <2>1, OthersKept DEF StoreKept
  <2>2. CASE a \in Gateways /\ act'[a] = Fresh("down")
    BY <2>2 DEF Fresh, LocalsKept, Pc, WithCid, WithCopy, ExecSteps, Removing, Creating
  <2>3. CASE a \in Reqs /\ act'[a] = Fresh("lost")
    BY <2>3, NeutralLocals DEF Fresh, WithCid, ExecSteps, Removing, Creating
  <2> QED
    BY <2>1, <2>2, <2>3, CrashMoves
<1> QED
  BY <1>1, <1>2 DEF StoreKept, KeepsAll

LEMMA StoreInit == Init => StoreKept
<1> SUFFICES ASSUME Init PROVE StoreKept
  OBVIOUS
<1>1. ASSUME NEW c \in Cids PROVE SessionKept(c)
  <2>1. CASE c \in Inherited
    <3>1. /\ box[c].status = "up" /\ box[c].born = 0 /\ box[c].expires = Lifetime
          /\ hash[c] = [count |-> 0, last |-> 0] /\ dies[c] = Ttl(c) /\ now = 0
          /\ index = Inherited
      BY <2>1 DEF Init
    <3>2. hash[c].last = 0 /\ c \in Stored
      BY <3>1 DEF Stored, NoSession
    <3>3. Ttl(c) >= IdleTimeout + Grace \/ Ttl(c) >= Lifetime + Grace
      BY <3>1, NumbersTyped DEF Ttl
    <3> QED
      BY <2>1, <3>1, <3>2, <3>3, NumbersTyped DEF SessionKept, Made
  <2>2. CASE c \notin Inherited
    BY <2>2 DEF Init, SessionKept, Made, Stored
  <2> QED
    BY <2>1, <2>2
<1>2. ASSUME NEW a \in Actors PROVE LocalsKept(a)
  <2>1. Pc(a) \in {"sleep", "idle"} /\ act[a].todo = {}
    BY DEF Init, Fresh, Pc
  <2> QED
    BY <2>1 DEF LocalsKept, WithCid, WithCopy, ExecSteps, Removing, Creating
<1> QED
  BY <1>1, <1>2 DEF StoreKept

LEMMA StoreNext ==
  ASSUME Shaped, StoreKept, Grace > 0, [Next]_vars
  PROVE  StoreKept' /\ KeepsAll
<1>1. Reqs \subseteq Actors /\ Gateways \subseteq Actors /\ Shaped'
  BY ShapedNext DEF Actors
<1>2. ASSUME NEW r \in Reqs, Begin(r) \/ HandlerStep(r) \/ WaitTimeout(r) \/ CodeEnds(r)
      PROVE  StoreKept' /\ KeepsAll
  <2>1. Moves(r)
    BY <1>2, ActorMoves
  <2>2. KeepsAll /\ LocalsKept(r)'
    <3>1. CASE Begin(r) \/ WaitTimeout(r) \/ CodeEnds(r)
      BY <1>1, <3>1, BeginLocals, AccessLocals, CodeEndsLocals
    <3>2. CASE CreateNext(r)
      BY <1>1, <3>2, CreateLocals, ListLocals DEF CreateNext
    <3>3. CASE ExecuteNext(r)
      BY <1>1, <3>3, AccessLocals, ExecuteLocals DEF ExecuteNext
    <3>4. CASE RemovalNext(r)
      BY <1>1, <3>4, RemovalLocals
    <3>5. CASE Release(r)
      <4>1. KeepsAll
        BY <1>1, <3>5, SameKept DEF Release, docker, history
      <4>2. LocalsKept(r)'
        BY <3>5, ReleaseMoves, NeutralLocals DEF WithCid, ExecSteps, Removing, Creating, Outcomes
      <4> QED
        BY <4>1, <4>2
    <3> QED
      BY <1>2, <3>1, <3>2, <3>3, <3>4, <3>5 DEF HandlerStep
  <2> QED
    BY <1>1, <2>1, <2>2, StoreStep
<1>3. ASSUME NEW g \in Gateways, GatewayStep(g) PROVE StoreKept' /\ KeepsAll
  <2>1. Moves(g)
    BY <1>3, ActorMoves
  <2>2. KeepsAll /\ LocalsKept(g)'
    BY <1>1, <1>3, GatewayLocals, ListLocals, RemovalLocals DEF GatewayStep
  <2> QED
    BY <1>1, <2>1, <2>2, StoreStep
<1>4. ASSUME KeepsAll, act' = act PROVE StoreKept'
  BY <1>1, <1>4, OthersKept DEF StoreKept, KeepsAll
<1>5. CASE Tick
  BY <1>1, <1>4, <1>5, TickKeeps DEF Tick
<1>6. CASE ExpireLate
  <2>1. KeepsAll
    BY <1>1, <1>6, DropKeeps DEF ExpireLate, docker, history, Stored
  <2> QED
    BY <1>4, <1>6, <2>1 DEF ExpireLate
<1>7. CASE UNCHANGED vars
  BY <1>4, <1>7, SameKept DEF vars, docker, history
<1>8. ASSUME NEW g \in Gateways, Crash(g) PROVE StoreKept' /\ KeepsAll
  BY <1>1, <1>8, CrashStore, SameKept DEF Crash, docker
<1> QED
  BY <1>2, <1>3, <1>5, <1>6, <1>7, <1>8 DEF Next

-----------------------------------------------------------------------------
(***************************************************************************)
(* The creation guard                                                      *)
(***************************************************************************)
LEMMA CreatorPlaces ==
  /\ Creators \cap ExecSteps = {} /\ Creators \cap Removing = {} /\ Creators \cap Outcomes = {}
  /\ Creators \cap {"release", "x_lock", "a_get", "a_docker", "a_save", "c_guard", "idle"} = {}
  BY DEF Creators, Creating, ExecSteps, Removing, Outcomes

\* Handlers that are not creating do not begin to create in the middle.
LEMMA NotCreating ==
  ASSUME Shaped, NEW r \in Reqs,
         Begin(r) \/ ExecuteNext(r) \/ RemovalNext(r) \/ WaitTimeout(r) \/ CodeEnds(r) \/ Release(r)
           \/ CheckCreated(r)
  PROVE  act'[r].pc \notin Creators \/ act' = act
<1>1. /\ r \in Actors /\ r \notin Gateways /\ act \in [Actors -> ActorRec] /\ act[r] \in ActorRec
  BY ActorTyped, SharedAssumption DEF Actors
<1>2. ASSUME NEW o \in Outcomes, Leave(r, o) PROVE act'[r].pc \notin Creators
  BY <1>2, LeaveMoves, CreatorPlaces
<1>3. ASSUME NEW p \in ExecSteps \cup Removing \cup {"x_lock", "a_docker", "a_save"}, Goto(r, p)
      PROVE  act'[r].pc \notin Creators
  <2>1. act'[r].pc = p
    BY <1>1, <1>3 DEF Goto, ActorRec
  <2> QED
    BY <1>3, <2>1, CreatorPlaces
<1>4. CASE Begin(r)
  <2>1. ASSUME act' = [act EXCEPT ![r].pc = "c_guard", ![r].op = "create"]
        PROVE  act'[r].pc = "c_guard"
    BY <1>1, <2>1 DEF ActorRec
  <2>2. ASSUME NEW c \in known, NEW o \in {"execute", "delete"},
               act' = [act EXCEPT ![r].pc = "a_get", ![r].cid = c, ![r].op = o]
        PROVE  act'[r].pc = "a_get"
    BY <1>1, <2>2 DEF ActorRec
  <2> QED
    BY <1>4, <2>1, <2>2, CreatorPlaces DEF Begin
<1>5. CASE GetAccess(r) \/ LookUpContainer(r) \/ SaveRecovered(r) \/ AcquireExec(r) \/ FetchContainer(r)
             \/ ExecEnds(r)
  <2>1. \/ Leave(r, "done")
        \/ \E p \in {"a_docker", "rm_get", "x_lock", "rm_kill", "a_save", "x_get", "rm_drop", "x_save"} :
             Goto(r, p)
    BY <1>5 DEF GetAccess, LookUpContainer, SaveRecovered, Admit, AcquireExec, FetchContainer, ExecEnds
  <2> QED
    BY <1>2, <1>3, <2>1 DEF Outcomes, ExecSteps, Removing
<1>6. CASE GetSession(r)
  <2>1. ASSUME act' = [act EXCEPT ![r].copy = hash[act[r].cid],
                                  ![r].pc = IF @ = "x_get" THEN "x_docker" ELSE "t_set"]
        PROVE  act'[r].pc \in {"x_docker", "t_set"}
    BY <1>1, <2>1 DEF ActorRec
  <2>2. act'[r].pc \in {"x_docker", "t_set"} \/ Leave(r, "done") \/ Goto(r, "x_start")
    BY <1>6, <2>1 DEF GetSession
  <2> QED
    BY <1>2, <1>3, <2>2, CreatorPlaces DEF Outcomes, ExecSteps
<1>7. CASE SaveCounted(r) \/ TouchSession(r) \/ StartExec(r)
  <2>1. Leave(r, "done") \/ act'[r].pc \in {"t_get", "x_start", "x_run"}
    BY <1>1, <1>7 DEF SaveCounted, TouchSession, StartExec, ActorRec
  <2> QED
    BY <1>2, <2>1, CreatorPlaces DEF Outcomes, ExecSteps
<1>8. CASE RemovalNext(r)
  <2>1. Leave(r, "done") \/ \E p \in {"rm_kill", "rm_drop"} : Goto(r, p)
    BY <1>1, <1>8 DEF RemovalNext, RmGet, RmKill, RmDrop, Finish
  <2> QED
    BY <1>2, <1>3, <2>1 DEF Outcomes, Removing
<1>9. CASE WaitTimeout(r) \/ CheckCreated(r)
  <2>1. Leave(r, "done") \/ Leave(r, "created")
    BY <1>9 DEF WaitTimeout, CheckCreated
  <2> QED
    BY <1>2, <2>1 DEF Outcomes
<1>10. CASE CodeEnds(r)
  <2>1. Goto(r, "t_get") \/ Goto(r, Pc(r))
    BY <1>10 DEF CodeEnds
  <2>2. Goto(r, Pc(r)) => act' = act
    BY <1>1 DEF Goto, Pc, ActorRec
  <2> QED
    BY <1>3, <2>1, <2>2 DEF ExecSteps
<1>11. CASE Release(r)
  BY <1>11, ReleaseMoves, CreatorPlaces
<1> QED
  BY <1>4, <1>5, <1>6, <1>7, <1>8, <1>9, <1>10, <1>11 DEF ExecuteNext

\* The steps of a creator come from inside the guard.
LEMMA CreatorSteps ==
  ASSUME NEW r \in Reqs, CreateNext(r), ~AcquireGuard(r)
  PROVE  Pc(r) \in Creators /\ Pc(r) # "lost"
  BY DEF CreateNext, ListMembers, ListHashes, ListStale, DockerRun, ProvisionEnv, SaveCreated, CheckCreated,
         Creators, Creating

LEMMA GuardedStep ==
  ASSUME Shaped, Guarded, NEW a \in Actors, Moves(a), UNCHANGED <<now, guard>>,
         a \in Reqs => \/ act' = act
                       \/ Pc(a) # "lost" /\ (act'[a].pc \in Creators => Pc(a) \in Creators)
  PROVE  Guarded'
<1>1. ASSUME NEW r \in Reqs
      PROVE  /\ act'[r].pc \in Creators => Pc(r) \in Creators
             /\ act'[r].pc # "lost" => Pc(r) # "lost"
  <2>1. act'[r] = act[r] \/ r = a
    BY DEF Moves, Actors
  <2> QED
    BY <2>1 DEF Pc
<1> QED
  BY <1>1 DEF Guarded, OnTime, Held, Pc

LEMMA GuardedNext ==
  ASSUME Shaped, Guarded, MaxHold < GuardLease, [Next]_vars
  PROVE  Guarded'
<1>1. /\ Reqs \subseteq Actors /\ Gateways \subseteq Actors /\ Reqs \cap Gateways = {}
      /\ now \in Nat /\ guard \in Lease /\ NoLease.by \notin Reqs
  BY SharedTyped, SharedAssumption DEF Actors, NoLease
<1>2. ASSUME NEW r \in Reqs, Begin(r) \/ HandlerStep(r) \/ WaitTimeout(r) \/ CodeEnds(r)
      PROVE  Guarded'
  <2>1. Moves(r)
    BY <1>2, ActorMoves
  <2>2. CASE AcquireGuard(r)
    <3>1. /\ guard.by \notin Reqs /\ guard'.by = r /\ now' = now
          /\ now' - (guard'.until - GuardLease) = 0
      BY <1>1, <2>2, NumbersTyped DEF AcquireGuard, Free
    <3>2. \A q \in Reqs \ {r} : act'[q] = act[q]
      BY <1>1, <2>1 DEF Moves
    <3> QED
      BY <3>1, <3>2, NumbersTyped DEF Guarded, OnTime, Held, Pc
  <2>3. CASE Release(r)
    <3>1. /\ now' = now /\ guard' = IF guard.by = r THEN NoLease ELSE guard
          /\ Pc(r) = "release"
      BY <2>3 DEF Release
    <3>2. act'[r].pc \notin Creators /\ \A q \in Reqs \ {r} : act'[q] = act[q]
      BY <1>1, <2>1, <2>3, ReleaseMoves, CreatorPlaces DEF Moves
    <3>3. guard'.by \in Reqs => guard' = guard /\ guard.by # r
      BY <1>1, <3>1
    <3>4. ASSUME NEW q \in Reqs, act'[q].pc \in Creators PROVE guard'.by = q
      BY <3>1, <3>2, <3>4 DEF Guarded, Pc
    <3> QED
      BY <3>1, <3>2, <3>3, <3>4 DEF Guarded, OnTime, Held, Pc
  <2>4. CASE ~AcquireGuard(r) /\ ~Release(r)
    <3>1. UNCHANGED <<now, guard>>
      BY <1>2, <2>4 DEF HandlerStep, CreateNext, ExecuteNext, RemovalNext, Begin, WaitTimeout,
         ListMembers, ListHashes, ListStale, DockerRun, ProvisionEnv, SaveCreated, CheckCreated, GetAccess,
         LookUpContainer, SaveRecovered, AcquireExec, GetSession, FetchContainer, SaveCounted, TouchSession,
         StartExec, ExecEnds, CodeEnds, RmGet, RmKill, RmDrop, leases
    <3>2. \/ act' = act
          \/ Pc(r) # "lost" /\ (act'[r].pc \in Creators => Pc(r) \in Creators)
      <4>1. CASE CreateNext(r)
        BY <2>4, <4>1, CreatorSteps
      <4>2. CASE ~CreateNext(r)
        <5>1. Pc(r) # "lost" \/ act' = act
          <6>1. CASE CodeEnds(r)
            <7>1. Pc(r) = "lost" => act' = act
              BY <1>1, <6>1, ActorTyped DEF CodeEnds, Goto, Pc, ActorRec
            <7> QED
              BY <7>1
          <6>2. CASE ~CodeEnds(r)
            BY <1>2, <2>4, <4>2, <6>2 DEF HandlerStep, ExecuteNext, RemovalNext, Begin, WaitTimeout, GetAccess,
               LookUpContainer, SaveRecovered, AcquireExec, GetSession, FetchContainer, SaveCounted,
               TouchSession, StartExec, ExecEnds, RmGet, RmKill, RmDrop
          <6> QED
            BY <6>1, <6>2
        <5> QED
          BY <1>2, <4>2, <5>1, NotCreating DEF HandlerStep
      <4> QED
        BY <4>1, <4>2
    <3> QED
      BY <1>1, <2>1, <3>1, <3>2, GuardedStep
  <2> QED
    BY <2>2, <2>3, <2>4
<1>3. ASSUME NEW g \in Gateways, GatewayStep(g) PROVE Guarded'
  <2>1. UNCHANGED <<now, guard>>
    BY <1>3 DEF GatewayStep, WakeUp, ListMembers, ListHashes, ListStale, Reap, RemovalNext, RmGet, RmKill,
       RmDrop, ListContainers, RecoverGet, RecoverSave, Start, leases
  <2> QED
    BY <1>1, <1>3, <2>1, ActorMoves, GuardedStep
<1>4. CASE ExpireLate \/ UNCHANGED vars
  <2>1. UNCHANGED <<now, guard, act>>
    BY <1>4 DEF ExpireLate, vars, leases
  <2> QED
    BY <2>1 DEF Guarded, OnTime, Held, Pc
<1>5. ASSUME NEW g \in Gateways, Crash(g) PROVE Guarded'
  <2>1. \A r \in Reqs : act'[r] = act[r] \/ act'[r].pc = "lost"
    BY <1>5, CrashMoves, SharedAssumption DEF Actors, Fresh
  <2>2. UNCHANGED <<now, guard>>
    BY <1>5 DEF Crash, leases
  <2>3. "lost" \notin Creators
    BY CreatorPlaces DEF Outcomes
  <2> QED
    BY <2>1, <2>2, <2>3 DEF Guarded, OnTime, Held, Pc
<1>6. CASE Tick
  <2>1. now' = now + 1 /\ act' = act /\ guard' = Lapse(guard)
    BY <1>6 DEF Tick
  <2>2. ASSUME guard.by \in Reqs, Pc(guard.by) # "lost"
        PROVE  guard' = guard /\ now' - (guard.until - GuardLease) <= MaxHold
    <3>1. guard # NoLease /\ InTime(guard, GuardLease)
      BY <1>1, <1>6, <2>2 DEF Tick
    <3>2. now - (guard.until - GuardLease) < MaxHold /\ guard.until \in Nat
      BY <1>1, <2>2, <3>1 DEF InTime, Held, Lease
    <3>3. ~(guard.until <= now')
      BY <1>1, <2>1, <3>2, NumbersTyped
    <3> QED
      BY <1>1, <2>1, <3>2, <3>3, NumbersTyped DEF Lapse
  <2>3. guard' = guard \/ guard' = NoLease
    BY <2>1 DEF Lapse
  <2>4. ASSUME NEW r \in Reqs, Pc(r) \in Creators PROVE guard'.by = r
    <3>1. guard.by = r /\ Pc(r) # "lost"
      BY <2>4, CreatorPlaces DEF Guarded, Outcomes
    <3> QED
      BY <2>2, <3>1
  <2>5. OnTime(guard, GuardLease)'
    BY <1>1, <2>1, <2>2, <2>3 DEF OnTime, Held, Pc
  <2> QED
    BY <2>1, <2>4, <2>5 DEF Guarded, Pc
<1> QED
  BY <1>2, <1>3, <1>4, <1>5, <1>6 DEF Next

-----------------------------------------------------------------------------
(***************************************************************************)
(* MAX_ACTIVE_SESSIONS                                                     *)
(***************************************************************************)
LEMMA Smaller ==
  ASSUME IsFiniteSet(Cids), NEW S \in SUBSET Cids, NEW T \in SUBSET S
  PROVE  /\ IsFiniteSet(T) /\ Cardinality(T) \in Nat /\ Cardinality(S) \in Nat
         /\ Cardinality(T) <= Cardinality(S)
<1>1. IsFiniteSet(S)
  BY FS_Subset
<1> QED
  BY <1>1, FS_Subset, FS_CardinalityType

\* Only a creation adds a young session.
LEMMA YoungShrinks ==
  ASSUME Shaped, StoreKept, KeepsAll, known' = known
  PROVE  Young' \subseteq Young
<1>1. \A c \in known : c \in Cids /\ Made(c) /\ Keeps(c)
  BY SharedTyped DEF StoreKept, SessionKept, KeepsAll
<1>2. \A c \in known : YoungBox(c)' => YoungBox(c)
  BY <1>1 DEF Keeps
<1> QED
  BY <1>2 DEF Young, YoungBox, Up, HardExpired

LEMMA YoungTyped ==
  ASSUME Shaped
  PROVE  Young \in SUBSET Cids
  BY SharedTyped DEF Young

\* What does not concern the count.
LEMMA NoRoom ==
  ASSUME NEW r \in Reqs, act'[r].pc \notin Creators
  PROVE  Room(r)'
  BY DEF Room, Counted, Creators, Pc

LEMMA RoomStays ==
  ASSUME Shaped, IsFiniteSet(Cids), Young' \subseteq Young, NEW r \in Reqs, Room(r), act'[r] = act[r]
  PROVE  Room(r)'
<1>1. /\ Cardinality(Young') \in Nat /\ Cardinality(Young) \in Nat
      /\ Cardinality(Young') <= Cardinality(Young)
  BY YoungTyped, Smaller
<1>2. Pc(r)' = Pc(r) /\ Counted(r)' = Counted(r)
  BY DEF Pc, Counted
<1> QED
  BY <1>1, <1>2, NumbersTyped DEF Room

LEMMA QuotaStep ==
  ASSUME Shaped, IsFiniteSet(Cids), QuotaKept, Young' \subseteq Young,
         \A r \in Reqs : act'[r] = act[r] \/ Room(r)'
  PROVE  QuotaKept'
<1>1. /\ Cardinality(Young') \in Nat /\ Cardinality(Young) \in Nat
      /\ Cardinality(Young') <= Cardinality(Young)
  BY YoungTyped, Smaller
<1>2. SharedQuota'
  BY <1>1, NumbersTyped DEF QuotaKept, SharedQuota
<1> QED
  BY <1>2, RoomStays DEF QuotaKept

\* Every young session is in the index, and so among the ids that SMEMBERS answers.
LEMMA MembersRoom ==
  ASSUME Shaped, StoreKept, NEW r \in Reqs, ListMembers(r)
  PROVE  Room(r)'
<1>1. act'[r].pc = "l_hashes" /\ act'[r].ids = index
  BY ActorTyped DEF ListMembers, ActorRec, Actors
<1>2. Young' = Young
  BY DEF ListMembers, docker, history, Young, Up, HardExpired
<1>3. Young \subseteq index
  BY SharedTyped DEF Young, StoreKept, SessionKept, YoungBox
<1> QED
  BY <1>1, <1>2, <1>3 DEF Room, Counted, Pc, Creating

\* The count takes in every young session: with the limit not reached there is room.
LEMMA HashesRoom ==
  ASSUME Shaped, StoreKept, QuotaKept, IsFiniteSet(Cids), NEW r \in Reqs, ListHashes(r)
  PROVE  Room(r)'
<1>1. /\ r \in Actors /\ r \notin Gateways /\ act \in [Actors -> ActorRec] /\ act[r] \in ActorRec
      /\ LocalsKept(r) /\ Pc(r) = "l_hashes"
  BY ActorTyped, SharedAssumption DEF Actors, StoreKept, ListHashes
<1>2. Young' = Young
  BY DEF ListHashes, docker, history, Young, Up, HardExpired
<1> DEFINE seen == act[r].ids \cap Stored
           t == act[r].stamp
           counted == {c \in seen : Active(c, hash[c], t)}
<1>3. Young \subseteq counted
  <2> SUFFICES ASSUME NEW c \in Young PROVE c \in counted
    OBVIOUS
  <2>1. c \in Cids /\ c \in known /\ YoungBox(c) /\ c \in act[r].ids
    BY <1>1, SharedTyped DEF Young, YoungBox, QuotaKept, Room
  <2>2. c \in Stored /\ hash[c].last >= box[c].born
    BY <2>1 DEF StoreKept, SessionKept, YoungBox, Up, Made
  <2>3. t \in Nat /\ t <= now
    BY <1>1 DEF ActorRec, LocalsKept
  <2>4. t - hash[c].last <= IdleTimeout /\ t < box[c].expires
    BY <2>1, <2>2, <2>3, BoxTyped, NumbersTyped DEF YoungBox, HardExpired
  <2> QED
    BY <2>1, <2>2, <2>4 DEF Active
<1>4. counted \in SUBSET Cids
  BY <1>1 DEF ActorRec
<1>5. Cardinality(counted) \in Nat /\ Cardinality(Young) \in Nat /\ Cardinality(Young) <= Cardinality(counted)
  BY <1>3, <1>4, Smaller
<1> HIDE DEF counted, t
<1>6. Counted(r)' => ~LimitReached(seen, act[r].stamp)
  <2> DEFINE full == LimitReached(seen, act[r].stamp)
             next == IF full THEN "release" ELSE "c_run"
  <2>1. \/ act'[r].pc = "l_stale" /\ act'[r].after = next
        \/ act'[r].pc = next
    BY <1>1 DEF ListHashes, ActorRec
  <2> HIDE DEF full
  <2>2. full => ~Counted(r)'
    BY <2>1 DEF Counted, Pc, Creating
  <2> QED
    BY <2>2 DEF full
<1>7. ~LimitReached(seen, act[r].stamp) => Cardinality(Young) < MaxActive
  BY <1>5, NumbersTyped DEF LimitReached, counted, t
<1>8. act'[r].pc # "l_hashes"
  BY <1>1 DEF ListHashes, ActorRec
<1> QED
  BY <1>2, <1>6, <1>7, <1>8 DEF Room, Pc

\* A creation takes the room that was counted; nobody else is counting.
LEMMA CreatedRoom ==
  ASSUME Shaped, Guarded, QuotaKept, IsFiniteSet(Cids), NEW r \in Reqs, CheckCreated(r),
         act'[r].pc \notin Creators, Moves(r)
  PROVE  QuotaKept'
<1>1. act[r].cid \in Cids /\ Counted(r) /\ Pc(r) \in Creators
  BY OwnTyped DEF CheckCreated, WithCid, Creating, Actors, Counted, Creators
<1>2. Cardinality(Young) < MaxActive
  BY <1>1 DEF QuotaKept, Room
<1>3. Young' \subseteq Young \cup {act[r].cid}
  BY DEF CheckCreated, docker, Young, Up, HardExpired
<1>4. SharedQuota'
  <2> DEFINE S == Young \cup {act[r].cid}
  <2>1. IsFiniteSet(Young) /\ Cardinality(Young) \in Nat
    BY YoungTyped, Smaller
  <2>2. Cardinality(S) <= Cardinality(Young) + 1 /\ S \in SUBSET Cids
    <3>1. S \in SUBSET Cids
      BY <1>1, YoungTyped
    <3>2. CASE act[r].cid \in Young
      <4>1. S = Young
        BY <3>2
      <4> HIDE DEF S
      <4> QED
        BY <2>1, <3>1, <4>1
    <3>3. CASE act[r].cid \notin Young
      <4>1. Cardinality(S) = Cardinality(Young) + 1
        BY <2>1, <3>3, FS_AddElement
      <4> QED
        BY <2>1, <3>1, <4>1
    <3> QED
      BY <3>2, <3>3
  <2>3. Cardinality(Young') <= Cardinality(S) /\ Cardinality(Young') \in Nat /\ Cardinality(S) \in Nat
    BY <1>3, <2>2, Smaller
  <2> HIDE DEF S
  <2> QED
    BY <1>2, <2>1, <2>2, <2>3, NumbersTyped DEF SharedQuota
<1>5. ASSUME NEW q \in Reqs PROVE Room(q)'
  <2>1. CASE q = r
    BY <2>1, NoRoom
  <2>2. CASE q # r
    <3>1. Pc(q) \notin Creators
      BY <1>1, <2>2 DEF Guarded
    <3>2. act'[q] = act[q]
      BY <2>2 DEF Moves, Actors
    <3> QED
      BY <3>1, <3>2, NoRoom DEF Pc
  <2> QED
    BY <2>1, <2>2
<1> QED
  BY <1>4, <1>5 DEF QuotaKept

\* The other steps of a creator go on with the room they have.
LEMMA CreatorRoom ==
  ASSUME Shaped, IsFiniteSet(Cids), QuotaKept, Young' \subseteq Young, NEW r \in Reqs,
         AcquireGuard(r) \/ ListStale(r) \/ DockerRun(r) \/ ProvisionEnv(r) \/ SaveCreated(r)
  PROVE  Room(r)'
<1>1. /\ r \in Actors /\ r \notin Gateways /\ act \in [Actors -> ActorRec] /\ act[r] \in ActorRec
      /\ ShapeOf(r, act[r])
  BY ActorTyped, SharedAssumption DEF Actors
<1>2. /\ Cardinality(Young') \in Nat /\ Cardinality(Young) \in Nat
      /\ Cardinality(Young') <= Cardinality(Young)
  BY YoungTyped, Smaller
<1>3. CASE AcquireGuard(r)
  <2>1. act'[r].pc = "l_members"
    BY <1>1, <1>3 DEF AcquireGuard, Goto, ActorRec
  <2> QED
    BY <2>1 DEF Room, Counted, Pc, Creating
<1>4. CASE ListStale(r)
  <2>1. act'[r].pc = act[r].after /\ Pc(r) = "l_stale" /\ act[r].after \in {"release", "c_run"}
    BY <1>1, <1>4 DEF ListStale, ActorRec, ShapeOf, Pc
  <2>2. act[r].after = "c_run" => Cardinality(Young) < MaxActive
    BY <2>1 DEF QuotaKept, Room, Counted
  <2> QED
    BY <1>2, <2>1, <2>2, NumbersTyped DEF Room, Counted, Pc, Creating
<1>5. CASE DockerRun(r) \/ ProvisionEnv(r) \/ SaveCreated(r)
  <2>1. Cardinality(Young) < MaxActive
    BY <1>5 DEF QuotaKept, Room, Counted, DockerRun, ProvisionEnv, SaveCreated, Creating
  <2>2. act'[r].pc # "l_hashes"
    <3>1. Leave(r, "done") => act'[r].pc # "l_hashes"
      BY LeaveMoves DEF Outcomes
    <3>2. ASSUME NEW c \in Cids,
                 act' = [act EXCEPT ![r].cid = c, ![r].pc = "c_env",
                                    ![r].copy = [count |-> 0, last |-> now]]
          PROVE  act'[r].pc # "l_hashes"
      BY <1>1, <3>2 DEF ActorRec
    <3>3. SaveCreated(r) \/ ProvisionEnv(r) => act'[r].pc # "l_hashes"
      BY <1>1 DEF SaveCreated, ProvisionEnv, Goto, ActorRec
    <3> QED
      BY <1>5, <3>1, <3>2, <3>3 DEF DockerRun
  <2> QED
    BY <1>2, <2>1, <2>2, NumbersTyped DEF Room, Pc
<1> QED
  BY <1>3, <1>4, <1>5

LEMMA QuotaNext ==
  ASSUME Shaped, StoreKept, Guarded, QuotaKept, Grace > 0, IsFiniteSet(Cids), [Next]_vars
  PROVE  QuotaKept'
<1>1. KeepsAll /\ Reqs \cap Gateways = {} /\ Reqs \subseteq Actors /\ Gateways \subseteq Actors
  BY StoreNext, SharedAssumption DEF Actors
<1>2. ASSUME NEW r \in Reqs, Begin(r) \/ HandlerStep(r) \/ WaitTimeout(r) \/ CodeEnds(r)
      PROVE  QuotaKept'
  <2>1. Moves(r) /\ \A q \in Reqs \ {r} : act'[q] = act[q]
    BY <1>1, <1>2, ActorMoves DEF Moves
  <2>2. CASE CheckCreated(r)
    <3>1. act'[r].pc \notin Creators
      <4>1. Leave(r, "done") \/ Leave(r, "created")
        BY <2>2 DEF CheckCreated
      <4> QED
        BY <4>1, LeaveMoves, CreatorPlaces DEF Outcomes
    <3> QED
      BY <2>1, <2>2, <3>1, CreatedRoom
  <2>3. CASE ~CheckCreated(r)
    <3>1. known' = known
      BY <1>2, <2>3 DEF HandlerStep, CreateNext, ExecuteNext, RemovalNext, Begin, WaitTimeout, AcquireGuard,
         ListMembers, ListHashes, ListStale, DockerRun, ProvisionEnv, SaveCreated, GetAccess,
         LookUpContainer, SaveRecovered, AcquireExec, GetSession, FetchContainer, SaveCounted, TouchSession,
         StartExec, ExecEnds, CodeEnds, RmGet, RmKill, RmDrop, Release, history
    <3>2. Young' \subseteq Young
      BY <1>1, <3>1, YoungShrinks
    <3>3. act'[r] = act[r] \/ Room(r)'
      <4>1. CASE CreateNext(r)
        BY <2>3, <3>2, <4>1, MembersRoom, HashesRoom, CreatorRoom DEF CreateNext
      <4>2. CASE ~CreateNext(r)
        <5>1. act'[r].pc \notin Creators \/ act' = act
          BY <1>2, <4>2, NotCreating DEF HandlerStep
        <5> QED
          BY <5>1, NoRoom
      <4> QED
        BY <4>1, <4>2
    <3> QED
      BY <2>1, <3>2, <3>3, QuotaStep
  <2> QED
    BY <2>2, <2>3
<1>3. ASSUME known' = known, \A r \in Reqs : act'[r] = act[r] \/ act'[r].pc = "lost" PROVE QuotaKept'
  <2>1. Young' \subseteq Young
    BY <1>1, <1>3, YoungShrinks
  <2>2. "lost" \notin Creators
    BY CreatorPlaces DEF Outcomes
  <2> QED
    BY <1>3, <2>1, <2>2, NoRoom, QuotaStep
<1>4. ASSUME NEW g \in Gateways, GatewayStep(g) PROVE QuotaKept'
  <2>1. known' = known
    BY <1>4 DEF GatewayStep, WakeUp, ListMembers, ListHashes, ListStale, Reap, RemovalNext, RmGet, RmKill,
       RmDrop, ListContainers, RecoverGet, RecoverSave, Start, history
  <2>2. \A r \in Reqs : act'[r] = act[r]
    BY <1>1, <1>4, ActorMoves DEF Moves
  <2> QED
    BY <1>3, <2>1, <2>2
<1>5. CASE Tick \/ ExpireLate \/ UNCHANGED vars
  BY <1>3, <1>5 DEF Tick, ExpireLate, vars, history
<1>6. ASSUME NEW g \in Gateways, Crash(g) PROVE QuotaKept'
  BY <1>1, <1>3, <1>6, CrashMoves DEF Crash, Fresh
<1> QED
  BY <1>2, <1>4, <1>5, <1>6 DEF Next

LEMMA QuotaInit ==
  ASSUME Init, IsFiniteSet(Cids), Cardinality(Inherited) <= MaxActive
  PROVE  Guarded /\ QuotaKept
<1>1. \A r \in Reqs : Pc(r) = "idle"
  BY SharedAssumption DEF Init, Pc, Fresh, Actors
<1>2. Guarded
  BY <1>1, CreatorPlaces, SharedAssumption DEF Init, Guarded, OnTime, NoLease
<1>3. Young \subseteq Inherited /\ Inherited \in SUBSET Cids
  BY SharedAssumption DEF Init, Young
<1>4. /\ Cardinality(Young) \in Nat /\ Cardinality(Inherited) \in Nat
      /\ Cardinality(Young) <= Cardinality(Inherited)
  BY <1>3, Smaller
<1>5. SharedQuota
  BY <1>4, NumbersTyped DEF SharedQuota
<1> QED
  BY <1>1, <1>2, <1>5 DEF QuotaKept, Room, Counted, Creating

\* However creations, list_sessions and the cleanup tasks of all gateways interleave, no
\* more than MAX_ACTIVE_SESSIONS young sessions exist, as long as creations leave the guard
\* before its lease ends and sessions have a period of grace in Redis.
THEOREM SharedQuotaHolds ==
  ASSUME MaxHold < GuardLease, Grace > 0, IsFiniteSet(Cids), Cardinality(Inherited) <= MaxActive
  PROVE  Spec => []SharedQuota
<1> DEFINE Inv == Shaped /\ StoreKept /\ Guarded /\ QuotaKept
<1>1. Init => Inv
  BY ShapedInit, StoreInit, QuotaInit
<1>2. Inv /\ [Next]_vars => Inv'
  BY ShapedNext, StoreNext, GuardedNext, QuotaNext
<1>3. Inv => SharedQuota
  BY DEF QuotaKept
<1> QED
  BY <1>1, <1>2, <1>3, PTL DEF Spec

-----------------------------------------------------------------------------
(***************************************************************************)
(* What a client is told of                                                *)
(***************************************************************************)
\* A container is young as long as its creator is inside the guard.
LEMMA NewIsYoung ==
  ASSUME Shaped, Guarded, CreationKept, MaxHold <= IdleTimeout, MaxHold < Lifetime,
         NEW r \in Reqs, Pc(r) \in Creating, act[r].cid \notin disowned
  PROVE  act[r].cid \in Cids /\ act[r].cid \notin known /\ YoungBox(act[r].cid)
<1> DEFINE c == act[r].cid
<1>1. r \in Actors /\ Pc(r) \in WithCid /\ Pc(r) \in Creators /\ Pc(r) # "lost"
  BY DEF Actors, WithCid, Creators, Creating
<1>2. c \in Cids
  BY <1>1, OwnTyped
<1>3. /\ Up(c) /\ c \notin known /\ box[c].born + GuardLease >= guard.until
      /\ box[c].expires = box[c].born + Lifetime
  BY DEF CreationKept, Usable, Intact
<1>4. guard.by = r /\ Held(guard, GuardLease) <= MaxHold
  BY <1>1 DEF Guarded, OnTime
<1>5. guard.until \in Nat /\ box[c].born \in Nat /\ now \in Nat
  BY <1>2, SharedTyped, BoxTyped DEF Lease
<1> HIDE DEF c
<1>6. now <= box[c].born + MaxHold
  BY <1>3, <1>4, <1>5, NumbersTyped DEF Held
<1>7. YoungBox(c)
  BY <1>3, <1>5, <1>6, NumbersTyped DEF YoungBox, HardExpired
<1> QED
  BY <1>2, <1>3, <1>7 DEF c

\* Nobody is about to remove it who did not disown it.
LEMMA NewIsLeft ==
  ASSUME Shaped, Guarded, CreationKept, MaxHold <= IdleTimeout, MaxHold < Lifetime,
         NEW r \in Reqs, Pc(r) \in Creating, act[r].cid \notin disowned,
         NEW a \in Actors, Pc(a) = "rm_kill"
  PROVE  act[a].cid # act[r].cid
<1>1. act[r].cid \notin known /\ YoungBox(act[r].cid)
  BY NewIsYoung
<1>2. a \in Reqs => act[a].cid \in known \cup disowned
  BY DEF CreationKept, Usable, WithCid, Creating, Removing
<1>3. a \in Gateways => ~YoungBox(act[a].cid) \/ act[a].cid \in disowned
  BY DEF CreationKept, Chosen, Removing, Old
<1> QED
  BY <1>1, <1>2, <1>3 DEF Actors

\* A request that does not move.
LEMMA UsableStays ==
  ASSUME Shaped, Shaped', StoreKept, Guarded, CreationKept, MaxHold <= IdleTimeout, MaxHold < Lifetime,
         NEW r \in Reqs, act'[r] = act[r],
         \A c \in Cids : Made(c) => \/ box'[c] = box[c]
                                    \/ \E a \in Actors : Pc(a) = "rm_kill" /\ act[a].cid = c,
         known \subseteq known', disowned \subseteq disowned',
         Pc(r) \in Creators => known' = known /\ guard'.until <= guard.until
  PROVE  Usable(r)'
<1>1. Pc(r)' = Pc(r)
  BY DEF Pc
<1>2. CASE Pc(r) \in Creating /\ act[r].cid \notin disowned
  <2> DEFINE c == act[r].cid
  <2>1. /\ c \in Cids /\ Up(c) /\ c \notin known /\ box[c].born + GuardLease >= guard.until
        /\ box[c].expires = box[c].born + Lifetime
    BY <1>2, NewIsYoung DEF CreationKept, Usable, Intact
  <2>2. box'[c] = box[c]
    BY <1>2, <2>1, NewIsLeft DEF Up, Made
  <2>3. known' = known /\ guard'.until <= guard.until
    BY <1>2 DEF Creators
  <2>4. guard.until \in Nat /\ guard'.until \in Nat /\ box[c].born \in Nat
    BY <2>1, SharedTyped, BoxTyped DEF Lease, Shaped, TypeOK
  <2>5. box[c].born + GuardLease >= guard'.until
    BY <2>1, <2>3, <2>4, NumbersTyped
  <2>6. /\ box'[c].status = "up" /\ c \notin known' /\ box'[c].born + GuardLease >= guard'.until
        /\ box'[c].expires = box'[c].born + Lifetime
    BY <2>1, <2>2, <2>3, <2>5 DEF Up
  <2> QED
    BY <1>1, <1>2, <2>6 DEF Usable, Intact, Up
<1>3. CASE Pc(r) \notin Creating \/ act[r].cid \in disowned
  BY <1>1, <1>3 DEF CreationKept, Usable
<1> QED
  BY <1>2, <1>3

\* A request goes on with its container, or stops being about one.
LEMMA SameContainer ==
  ASSUME Shaped, NEW r \in Reqs,
         ExecuteNext(r) \/ RemovalNext(r) \/ WaitTimeout(r) \/ CodeEnds(r) \/ Release(r)
           \/ CheckCreated(r)
  PROVE  \/ act' = act
         \/ act'[r].pc \notin WithCid
         \/ Pc(r) \in WithCid \ Creating /\ act'[r].cid = act[r].cid /\ act'[r].pc \notin Creating
<1> DEFINE Same == Pc(r) \in WithCid \ Creating /\ act'[r].cid = act[r].cid /\ act'[r].pc \notin Creating
<1>1. /\ r \in Actors /\ r \notin Gateways /\ act \in [Actors -> ActorRec] /\ act[r] \in ActorRec
  BY ActorTyped, SharedAssumption DEF Actors
<1>2. ASSUME NEW o \in Outcomes, Leave(r, o) PROVE act'[r].pc \notin WithCid
  <2>1. act'[r].pc \in {"release"} \cup Outcomes
    BY <1>2, LeaveMoves
  <2> QED
    BY <2>1 DEF Outcomes, WithCid, Creating, Removing, ExecSteps
<1>3. ASSUME NEW p \in (ExecSteps \cup Removing \cup {"x_lock", "a_docker", "a_save"}), Goto(r, p),
             Pc(r) \in WithCid \ Creating
      PROVE  Same
  <2>1. act'[r].pc = p /\ act'[r].cid = act[r].cid
    BY <1>1, <1>3 DEF Goto, ActorRec
  <2> QED
    BY <1>3, <2>1 DEF ExecSteps, Removing, Creating
<1> HIDE DEF Same
<1>4. CASE GetAccess(r) \/ LookUpContainer(r) \/ SaveRecovered(r) \/ AcquireExec(r) \/ FetchContainer(r)
             \/ ExecEnds(r)
  <2>1. Pc(r) \in WithCid \ Creating
    BY <1>4 DEF GetAccess, LookUpContainer, SaveRecovered, AcquireExec, FetchContainer, ExecEnds, WithCid,
       Creating, ExecSteps
  <2>2. \/ Leave(r, "done")
        \/ \E p \in {"a_docker", "rm_get", "x_lock", "rm_kill", "a_save", "x_get", "rm_drop", "x_save"} :
             Goto(r, p)
    BY <1>4 DEF GetAccess, LookUpContainer, SaveRecovered, Admit, AcquireExec, FetchContainer, ExecEnds
  <2> QED
    BY <1>2, <1>3, <2>1, <2>2 DEF Outcomes, ExecSteps, Removing, Same
<1>5. CASE GetSession(r)
  <2>1. Pc(r) \in WithCid \ Creating
    BY <1>5 DEF GetSession, WithCid, Creating, ExecSteps
  <2>2. ASSUME act' = [act EXCEPT ![r].copy = hash[act[r].cid],
                                  ![r].pc = IF @ = "x_get" THEN "x_docker" ELSE "t_set"]
        PROVE  act'[r].pc \in {"x_docker", "t_set"} /\ act'[r].cid = act[r].cid
    BY <1>1, <2>2 DEF ActorRec
  <2>3. \/ act'[r].pc \in {"x_docker", "t_set"} /\ act'[r].cid = act[r].cid
        \/ Leave(r, "done") \/ Goto(r, "x_start")
    BY <1>5, <2>2 DEF GetSession
  <2> QED
    BY <1>2, <1>3, <2>1, <2>3 DEF Outcomes, ExecSteps, Creating, Same
<1>6. CASE SaveCounted(r) \/ TouchSession(r) \/ StartExec(r)
  <2>1. Pc(r) \in WithCid \ Creating
    BY <1>6 DEF SaveCounted, TouchSession, StartExec, WithCid, Creating, ExecSteps
  <2>2. \/ Leave(r, "done")
        \/ act'[r].pc \in {"t_get", "x_start", "x_run"} /\ act'[r].cid = act[r].cid
    BY <1>1, <1>6 DEF SaveCounted, TouchSession, StartExec, ActorRec
  <2> QED
    BY <1>2, <2>1, <2>2 DEF Outcomes, Creating, Same
<1>7. CASE RemovalNext(r)
  <2>1. Pc(r) \in WithCid \ Creating
    BY <1>7 DEF RemovalNext, RmGet, RmKill, RmDrop, WithCid, Creating, Removing
  <2>2. Leave(r, "done") \/ \E p \in {"rm_kill", "rm_drop"} : Goto(r, p)
    BY <1>1, <1>7 DEF RemovalNext, RmGet, RmKill, RmDrop, Finish
  <2> QED
    BY <1>2, <1>3, <2>1, <2>2 DEF Outcomes, Removing, Same
<1>8. CASE WaitTimeout(r) \/ CheckCreated(r)
  <2>1. Leave(r, "done") \/ Leave(r, "created")
    BY <1>8 DEF WaitTimeout, CheckCreated
  <2> QED
    BY <1>2, <2>1 DEF Outcomes
<1>9. CASE CodeEnds(r)
  <2>1. Goto(r, Pc(r)) => act' = act
    BY <1>1 DEF Goto, Pc, ActorRec
  <2>2. Pc(r) = "x_run" => Pc(r) \in WithCid \ Creating
    BY DEF WithCid, Creating, ExecSteps
  <2>3. (Pc(r) = "x_run" /\ Goto(r, "t_get")) \/ act' = act
    BY <1>9, <2>1 DEF CodeEnds
  <2> QED
    BY <1>3, <2>2, <2>3 DEF ExecSteps, Same
<1>10. CASE Release(r)
  BY <1>10, ReleaseMoves DEF Outcomes, WithCid, Creating, Removing, ExecSteps
<1> QED
  BY <1>4, <1>5, <1>6, <1>7, <1>8, <1>9, <1>10 DEF ExecuteNext, Same

\* What a request is about after a step of its own.
LEMMA UsableMoves ==
  ASSUME Shaped, StoreKept, Guarded, CreationKept, MaxHold <= IdleTimeout, MaxHold < Lifetime,
         NEW r \in Reqs, Begin(r) \/ HandlerStep(r) \/ WaitTimeout(r) \/ CodeEnds(r),
         act' # act
  PROVE  Usable(r)'
<1>1. /\ r \in Actors /\ r \notin Gateways /\ act \in [Actors -> ActorRec] /\ act[r] \in ActorRec
      /\ ShapeOf(r, act[r])
  BY ActorTyped, SharedAssumption DEF Actors
<1>2. ASSUME act'[r].pc \notin WithCid PROVE Usable(r)'
  BY <1>2 DEF Usable, Pc, WithCid
<1>3. ASSUME ExecuteNext(r) \/ RemovalNext(r) \/ WaitTimeout(r) \/ CodeEnds(r) \/ Release(r)
               \/ CheckCreated(r)
      PROVE  Usable(r)'
  <2>1. known \subseteq known' /\ disowned \subseteq disowned'
    BY <1>3 DEF ExecuteNext, RemovalNext, WaitTimeout, CodeEnds, Release, CheckCreated, GetAccess,
       LookUpContainer, SaveRecovered, AcquireExec, GetSession, FetchContainer, SaveCounted, TouchSession,
       StartExec, ExecEnds, RmGet, RmKill, RmDrop, history
  <2>2. CASE Pc(r) \in WithCid \ Creating /\ act'[r].cid = act[r].cid /\ act'[r].pc \notin Creating
    BY <2>1, <2>2 DEF CreationKept, Usable, Pc
  <2> QED
    BY <1>2, <1>3, <2>2, SameContainer
<1>4. CASE Begin(r)
  <2>1. ASSUME act' = [act EXCEPT ![r].pc = "c_guard", ![r].op = "create"]
        PROVE  act'[r].pc = "c_guard"
    BY <1>1, <2>1 DEF ActorRec
  <2>2. ASSUME NEW c \in known, NEW o \in {"execute", "delete"},
               act' = [act EXCEPT ![r].pc = "a_get", ![r].cid = c, ![r].op = o]
        PROVE  act'[r].pc = "a_get" /\ act'[r].cid \in known
    BY <1>1, <2>2 DEF ActorRec
  <2>3. known' = known
    BY <1>4 DEF Begin, history
  <2>4. act'[r].pc = "c_guard" \/ (act'[r].pc = "a_get" /\ act'[r].cid \in known)
    BY <1>4, <2>1, <2>2 DEF Begin
  <2> QED
    BY <2>3, <2>4 DEF Usable, Pc, WithCid, Creating, ExecSteps, Removing
<1>5. CASE AcquireGuard(r) \/ ListMembers(r) \/ ListHashes(r) \/ ListStale(r)
  <2>1. CASE AcquireGuard(r) \/ ListMembers(r)
    <3>1. act'[r].pc \in {"l_members", "l_hashes"}
      BY <1>1, <2>1 DEF AcquireGuard, Goto, ListMembers, ActorRec
    <3> QED
      BY <1>2, <3>1 DEF WithCid, Creating, ExecSteps, Removing
  <2>2. CASE ListHashes(r)
    <3>1. act'[r].pc \in {"l_stale", "release", "c_run"}
      BY <1>1, <2>2 DEF ListHashes, ActorRec
    <3> QED
      BY <1>2, <3>1 DEF WithCid, Creating, ExecSteps, Removing
  <2>3. CASE ListStale(r)
    <3>1. act'[r].pc = act[r].after /\ act[r].after \in {"release", "c_run"}
      BY <1>1, <2>3 DEF ListStale, ActorRec, ShapeOf, Pc
    <3> QED
      BY <1>2, <3>1 DEF WithCid, Creating, ExecSteps, Removing
  <2> QED
    BY <1>5, <2>1, <2>2, <2>3
<1>6. CASE DockerRun(r)
  <2>1. ASSUME NEW c \in Cids, box[c].status = "unused",
               box' = [box EXCEPT ![c] = [status |-> "up", home |-> Daemon[At[r]],
                                          born |-> now, expires |-> now + Lifetime]],
               act' = [act EXCEPT ![r].cid = c, ![r].pc = "c_env",
                                  ![r].copy = [count |-> 0, last |-> now]]
        PROVE  Usable(r)'
    <3>1. act'[r].pc = "c_env" /\ act'[r].cid = c
      BY <1>1, <2>1 DEF ActorRec
    <3>2. box'[c] = [status |-> "up", home |-> Daemon[At[r]], born |-> now, expires |-> now + Lifetime]
      BY <2>1, SharedTyped DEF Boxes
    <3>3. c \notin known' /\ guard' = guard
      BY <1>6, <2>1 DEF DockerRun, history, leases, StoreKept, SessionKept, Made
    <3>4. now + GuardLease >= guard'.until
      BY <3>3, SharedTyped, NumbersTyped DEF CreationKept, Lease
    <3>5. /\ box'[c].status = "up" /\ box'[c].born + GuardLease >= guard'.until
          /\ box'[c].expires = box'[c].born + Lifetime
      BY <3>2, <3>4
    <3> QED
      BY <3>1, <3>3, <3>5 DEF Usable, Intact, Pc, Up, Creating
  <2>2. Leave(r, "done") => act'[r].pc \notin WithCid
    BY LeaveMoves DEF Outcomes, WithCid, Creating, Removing, ExecSteps
  <2> QED
    BY <1>2, <1>6, <2>1, <2>2 DEF DockerRun
<1>7. CASE ProvisionEnv(r) \/ SaveCreated(r)
  <2>1. /\ Pc(r) \in Creating /\ UNCHANGED <<box, guard, known, disowned>>
        /\ act'[r].cid = act[r].cid
    BY <1>1, <1>7 DEF ProvisionEnv, SaveCreated, Goto, ActorRec, docker, leases, history, Creating
  <2>2. act[r].cid \in disowned \/ Intact(act[r].cid)
    BY <2>1 DEF CreationKept, Usable
  <2>3. act'[r].pc \in Creating \/ act[r].cid \in disowned
    BY <1>1, <1>7, <2>2 DEF ProvisionEnv, SaveCreated, Goto, ActorRec, Creating, Intact
  <2> QED
    BY <2>1, <2>2, <2>3 DEF Usable, Intact, Pc, Up
<1> QED
  BY <1>3, <1>4, <1>5, <1>6, <1>7 DEF HandlerStep, CreateNext

\* What an actor has chosen to remove stays old.
LEMMA OldStays ==
  ASSUME Shaped, KeepsAll, NEW c \in Cids, Old(c)
  PROVE  Old(c)'
  BY DEF KeepsAll, Keeps, Old

LEMMA ChosenStays ==
  ASSUME Shaped, KeepsAll, disowned \subseteq disowned', NEW g \in Gateways, Chosen(g),
         act'[g] = act[g]
  PROVE  Chosen(g)'
<1>1. g \in Actors /\ act[g].todo \in SUBSET Cids /\ Pc(g)' = Pc(g)
  BY ActorTyped DEF Actors, ActorRec, Pc
<1>2. Pc(g) \in Removing => act[g].cid \in Cids
  BY <1>1, OwnTyped DEF WithCid
<1>3. Sweeping(g) => \A c \in act[g].todo : Old(c)'
  BY <1>1, OldStays DEF Chosen
<1>4. ASSUME Pc(g) \in Removing, Old(act[g].cid) PROVE Old(act[g].cid)'
  <2>1. PICK c \in Cids : c = act[g].cid /\ Old(c)
    BY <1>2, <1>4
  <2>2. Old(c)'
    BY <2>1, OldStays
  <2> QED
    BY <2>1, <2>2 DEF Old, Made, YoungBox, Up, HardExpired
<1> QED
  BY <1>1, <1>3, <1>4 DEF Chosen, Sweeping, Pc, Old, Made, YoungBox, Up, HardExpired

\* The cleanup task picks sessions that are idle or at the end of their life, and their
\* containers are older.
LEMMA ChosenByCleanup ==
  ASSUME Shaped, StoreKept, NEW g \in Gateways, ListHashes(g)
  PROVE  Chosen(g)'
<1>1. /\ g \in Actors /\ act \in [Actors -> ActorRec] /\ act[g] \in ActorRec
      /\ LocalsKept(g) /\ Pc(g) = "l_hashes"
  BY ActorTyped DEF Actors, StoreKept, ListHashes
<1> DEFINE seen == act[g].ids \cap Stored
<1>2. act'[g].todo = IdleIds(g, seen)
  BY <1>1 DEF ListHashes, ActorRec
<1>3. act'[g].pc \in {"l_stale", "scan"}
  BY <1>1 DEF ListHashes, ActorRec
<1>4. ASSUME NEW c \in act'[g].todo PROVE Old(c)
  <2>1. c \in Cids /\ c \in Stored /\ c \in act[g].ids /\ ~Active(c, hash[c], act[g].stamp)
    BY <1>1, <1>2, <1>4 DEF IdleIds, ActorRec
  <2>2. Made(c) /\ hash[c].last >= box[c].born
    BY <1>1, <2>1 DEF StoreKept, SessionKept, LocalsKept
  <2>3. act[g].stamp \in Nat /\ act[g].stamp <= now
    BY <1>1 DEF ActorRec, LocalsKept
  <2>4. ~YoungBox(c)
    BY <2>1, <2>2, <2>3, BoxTyped, NumbersTyped DEF Active, YoungBox, HardExpired
  <2> QED
    BY <2>2, <2>4 DEF Old
<1>5. now' = now /\ box' = box
  BY DEF ListHashes, docker
<1> QED
  BY <1>3, <1>4, <1>5 DEF Chosen, Sweeping, Pc, Removing, Old, Made, YoungBox, Up, HardExpired

\* What a gateway has chosen after a step of its own.
LEMMA ChosenMoves ==
  ASSUME Shaped, StoreKept, KeepsAll, CreationKept, disowned \subseteq disowned',
         NEW g \in Gateways, GatewayStep(g)
  PROVE  Chosen(g)'
<1>1. /\ g \in Actors /\ g \notin Reqs /\ act \in [Actors -> ActorRec] /\ act[g] \in ActorRec
      /\ ShapeOf(g, act[g]) /\ Chosen(g) /\ act[g].todo \in SUBSET Cids
  BY ActorTyped, SharedAssumption DEF Actors, CreationKept, ActorRec
<1>2. Pc(g) \in Removing => act[g].cid \in Cids
  BY <1>1, OwnTyped DEF WithCid
<1>3. ASSUME act'[g].pc \notin {"l_stale", "scan"} \cup Removing PROVE Chosen(g)'
  BY <1>3 DEF Chosen, Sweeping, Pc
<1>4. ASSUME act'[g].pc \in Removing, act'[g].after = "recover", act'[g].cid \in disowned'
       PROVE  Chosen(g)'
  BY <1>4 DEF Chosen, Sweeping, Pc, Removing
<1>5. CASE WakeUp(g) \/ Start(g) \/ ListMembers(g) \/ ListContainers(g) \/ RecoverSave(g)
  <2>1. act'[g].pc \in {"l_members", "boot", "l_hashes", "recover"}
    BY <1>1, <1>5 DEF WakeUp, Start, ListMembers, ListContainers, RecoverSave, Goto, ActorRec
  <2> QED
    BY <1>3, <2>1 DEF Removing
<1>6. CASE RecoverGet(g)
  <2>1. act' = [act EXCEPT ![g] = Fresh("sleep")] => act'[g].pc = "sleep"
    BY <1>1 DEF Fresh
  <2>2. ASSUME NEW c \in act[g].todo,
          act' = [act EXCEPT
            ![g].cid = c, ![g].todo = @ \ {c}, ![g].after = "recover",
            ![g].copy = IF c \in Stored THEN hash[c] ELSE Recovered(c),
            ![g].pc = IF c \notin Stored /\ Requires(g) THEN "rm_kill" ELSE "r_save"],
          disowned' = IF c \notin Stored /\ Requires(g) THEN disowned \cup {c} ELSE disowned
        PROVE \/ act'[g].pc = "r_save"
              \/ act'[g].pc = "rm_kill" /\ act'[g].after = "recover" /\ act'[g].cid \in disowned'
    <3>1. /\ act'[g].pc = IF c \notin Stored /\ Requires(g) THEN "rm_kill" ELSE "r_save"
          /\ act'[g].after = "recover" /\ act'[g].cid = c
      BY <1>1, <2>2 DEF ActorRec
    <3> QED
      BY <2>2, <3>1
  <2>3. \/ act'[g].pc \in {"sleep", "r_save"}
        \/ act'[g].pc = "rm_kill" /\ act'[g].after = "recover" /\ act'[g].cid \in disowned'
    BY <1>6, <2>1, <2>2 DEF RecoverGet
  <2> QED
    BY <1>3, <1>4, <2>3 DEF Removing
<1>7. ASSUME Sweeping(g), act'[g].todo \subseteq act[g].todo,
             act'[g].pc \in Removing => Old(act'[g].cid) /\ act'[g].cid \in Cids /\ act'[g].after = "scan"
      PROVE  Chosen(g)'
  <2>1. \A c \in act'[g].todo : Old(c)'
    BY <1>1, <1>7, OldStays DEF Chosen
  <2>2. ASSUME act'[g].pc \in Removing PROVE Old(act[g].cid)'
    <3>1. PICK c \in Cids : c = act'[g].cid /\ Old(c)
      BY <1>7, <2>2
    <3>2. Old(c)'
      BY <3>1, OldStays
    <3> QED
      BY <3>1, <3>2 DEF Old, Made, YoungBox, Up, HardExpired
  <2> QED
    BY <1>7, <2>1, <2>2 DEF Chosen, Sweeping, Pc, Old, Made, YoungBox, Up, HardExpired
<1>8. CASE ListStale(g)
  <2>1. act'[g].todo = act[g].todo /\ act'[g].pc = "scan" /\ Pc(g) = "l_stale"
    BY <1>1, <1>8 DEF ListStale, ActorRec, ShapeOf, Pc
  <2> QED
    BY <1>7, <2>1 DEF Removing, Sweeping
<1>9. CASE Reap(g)
  <2>1. PICK c \in act[g].todo :
          act' = [act EXCEPT ![g].cid = c, ![g].todo = @ \ {c}, ![g].pc = "rm_get",
                             ![g].after = "scan"]
    BY <1>9 DEF Reap
  <2>2. act'[g].cid = c /\ act'[g].todo = act[g].todo \ {c} /\ act'[g].after = "scan"
    BY <1>1, <2>1 DEF ActorRec
  <2>3. Pc(g) = "scan" /\ Old(c) /\ c \in Cids
    BY <1>1, <1>9 DEF Reap, Chosen, Sweeping
  <2> QED
    BY <1>7, <2>2, <2>3 DEF Sweeping
<1>10. CASE RemovalNext(g)
  <2>1. /\ Pc(g) \in Removing
        /\ \/ act[g].after = "scan" /\ Old(act[g].cid)
           \/ act[g].after = "recover" /\ act[g].cid \in disowned
    BY <1>1, <1>10 DEF RemovalNext, RmGet, RmKill, RmDrop, Removing, Chosen
  <2>2. \E p \in {act[g].after, "rm_kill", "rm_drop"} : Goto(g, p)
    BY <1>10, <2>1 DEF RemovalNext, RmGet, RmKill, RmDrop, Finish
  <2>3. /\ act'[g].cid = act[g].cid /\ act'[g].todo = act[g].todo /\ act'[g].after = act[g].after
        /\ act'[g].pc \in {act[g].after, "rm_kill", "rm_drop"}
    BY <1>1, <2>2 DEF Goto, ActorRec
  <2>4. CASE act[g].after = "scan" /\ Old(act[g].cid)
    BY <1>1, <1>2, <1>7, <2>1, <2>3, <2>4 DEF Sweeping
  <2>5. CASE act[g].after = "recover" /\ act[g].cid \in disowned
    BY <1>3, <1>4, <2>3, <2>5 DEF Removing
  <2> QED
    BY <2>1, <2>4, <2>5
<1> QED
  BY <1>5, <1>6, <1>8, <1>9, <1>10, ChosenByCleanup DEF GatewayStep

\* What steps do to containers and to the guard.
LEMMA BoxSteps ==
  ASSUME Shaped, [Next]_vars, NEW c \in Cids, Made(c)
  PROVE  box'[c] = box[c] \/ \E a \in Actors : Pc(a) = "rm_kill" /\ act[a].cid = c
<1>1. Reqs \subseteq Actors /\ Gateways \subseteq Actors /\ box \in Boxes
  BY SharedTyped DEF Actors
<1>2. ASSUME NEW a \in Actors, RmKill(a)
      PROVE  box'[c] = box[c] \/ (Pc(a) = "rm_kill" /\ act[a].cid = c)
  BY <1>1, <1>2 DEF RmKill, Boxes
<1>3. ASSUME NEW r \in Reqs, DockerRun(r) PROVE box'[c] = box[c]
  BY <1>1, <1>3 DEF DockerRun, Made, Boxes
<1>4. ASSUME NEW r \in Reqs, Begin(r) \/ HandlerStep(r) \/ WaitTimeout(r) \/ CodeEnds(r),
             ~RmKill(r), ~DockerRun(r)
      PROVE  box' = box
  BY <1>4 DEF HandlerStep, CreateNext, ExecuteNext, RemovalNext, Begin, WaitTimeout, AcquireGuard,
     ListMembers, ListHashes, ListStale, ProvisionEnv, SaveCreated, CheckCreated, GetAccess,
     LookUpContainer, SaveRecovered, AcquireExec, GetSession, FetchContainer, SaveCounted, TouchSession,
     StartExec, ExecEnds, CodeEnds, RmGet, RmDrop, Release, docker
<1>5. ASSUME NEW g \in Gateways, GatewayStep(g) \/ Crash(g), ~RmKill(g) PROVE box' = box
  BY <1>5 DEF GatewayStep, WakeUp, ListMembers, ListHashes, ListStale, Reap, RemovalNext, RmGet, RmDrop,
     ListContainers, RecoverGet, RecoverSave, Start, Crash, docker
<1>6. CASE Tick \/ ExpireLate \/ UNCHANGED vars
  BY <1>6 DEF Tick, ExpireLate, vars, docker
<1> QED
  BY <1>1, <1>2, <1>3, <1>4, <1>5, <1>6 DEF Next

\* The guard changes when it is free, when its owner lets go, or when its lease lapses.
LEMMA GuardSteps ==
  ASSUME Shaped, Guarded, [Next]_vars, NEW r \in Reqs, Pc(r) \in Creators, act'[r] = act[r]
  PROVE  guard'.until <= guard.until /\ known' = known
<1>1. /\ Reqs \subseteq Actors /\ Gateways \subseteq Actors /\ guard \in Lease /\ guard.until \in Nat
      /\ guard.by = r /\ NoLease.by \notin Reqs /\ now \in Nat
  BY SharedTyped, SharedAssumption DEF Actors, Guarded, Lease, NoLease
<1>2. NoLease.until = 0
  BY DEF NoLease
<1>3. ASSUME NEW q \in Reqs, Begin(q) \/ HandlerStep(q) \/ WaitTimeout(q) \/ CodeEnds(q)
      PROVE  guard' = guard /\ known' = known
  <2>1. CASE AcquireGuard(q)
    BY <1>1, <2>1 DEF AcquireGuard, Free
  <2>2. CASE Release(q)
    <3>1. q # r
      <4>1. Pc(q) = "release"
        BY <2>2 DEF Release
      <4> QED
        BY <4>1, CreatorPlaces
    <3> QED
      BY <1>1, <2>2, <3>1 DEF Release, history
  <2>3. CASE CheckCreated(q)
    <3>1. Pc(q) \in Creators
      BY <2>3 DEF CheckCreated, Creators, Creating
    <3>2. q = r
      BY <1>1, <3>1 DEF Guarded
    <3>3. act'[r].pc \notin Creators
      <4>1. Leave(r, "done") \/ Leave(r, "created")
        BY <2>3, <3>2 DEF CheckCreated
      <4> QED
        BY <4>1, LeaveMoves, CreatorPlaces DEF Outcomes
    <3> QED
      BY <3>3 DEF Pc
  <2>4. CASE ~AcquireGuard(q) /\ ~Release(q) /\ ~CheckCreated(q)
    BY <1>3, <2>4 DEF HandlerStep, CreateNext, ExecuteNext, RemovalNext, Begin, WaitTimeout,
       ListMembers, ListHashes, ListStale, DockerRun, ProvisionEnv, SaveCreated, GetAccess,
       LookUpContainer, SaveRecovered, AcquireExec, GetSession, FetchContainer, SaveCounted, TouchSession,
       StartExec, ExecEnds, CodeEnds, RmGet, RmKill, RmDrop, leases, history
  <2> QED
    BY <2>1, <2>2, <2>3, <2>4
<1>4. ASSUME NEW g \in Gateways, GatewayStep(g) \/ Crash(g) PROVE guard' = guard /\ known' = known
  BY <1>4 DEF GatewayStep, WakeUp, ListMembers, ListHashes, ListStale, Reap, RemovalNext, RmGet, RmKill,
     RmDrop, ListContainers, RecoverGet, RecoverSave, Start, Crash, leases, history
<1>5. CASE Tick
  <2>1. known' = known /\ guard' = Lapse(guard)
    BY <1>5 DEF Tick, history
  <2> QED
    BY <1>1, <1>2, <2>1 DEF Lapse
<1>6. ASSUME ExpireLate \/ UNCHANGED vars PROVE guard' = guard /\ known' = known
  BY <1>6 DEF ExpireLate, vars, leases, history
<1>7. guard' = guard => guard'.until <= guard.until
  BY <1>1
<1> QED
  BY <1>3, <1>4, <1>5, <1>6, <1>7 DEF Next

LEMMA KnownGrows ==
  ASSUME [Next]_vars
  PROVE  known \subseteq known'
<1>1. ASSUME NEW r \in Reqs, Begin(r) \/ HandlerStep(r) \/ WaitTimeout(r) \/ CodeEnds(r)
      PROVE  known \subseteq known'
  BY <1>1 DEF HandlerStep, CreateNext, ExecuteNext, RemovalNext, Begin, WaitTimeout, AcquireGuard,
     ListMembers, ListHashes, ListStale, DockerRun, ProvisionEnv, SaveCreated, CheckCreated, GetAccess,
     LookUpContainer, SaveRecovered, AcquireExec, GetSession, FetchContainer, SaveCounted, TouchSession,
     StartExec, ExecEnds, CodeEnds, RmGet, RmKill, RmDrop, Release, history
<1>2. ASSUME NEW g \in Gateways, GatewayStep(g) \/ Crash(g) PROVE known' = known
  BY <1>2 DEF GatewayStep, WakeUp, ListMembers, ListHashes, ListStale, Reap, RemovalNext, RmGet, RmKill,
     RmDrop, ListContainers, RecoverGet, RecoverSave, Start, Crash, history
<1>3. CASE Tick \/ ExpireLate \/ UNCHANGED vars
  BY <1>3 DEF Tick, ExpireLate, vars, history
<1> QED
  BY <1>1, <1>2, <1>3 DEF Next

\* What a recovery disowned stays so.
LEMMA DisownedGrows ==
  ASSUME [Next]_vars
  PROVE  disowned \subseteq disowned'
<1>1. ASSUME NEW r \in Reqs, Begin(r) \/ HandlerStep(r) \/ WaitTimeout(r) \/ CodeEnds(r)
      PROVE  disowned' = disowned
  BY <1>1 DEF HandlerStep, CreateNext, ExecuteNext, RemovalNext, Begin, WaitTimeout, AcquireGuard,
     ListMembers, ListHashes, ListStale, DockerRun, ProvisionEnv, SaveCreated, CheckCreated, GetAccess,
     LookUpContainer, SaveRecovered, AcquireExec, GetSession, FetchContainer, SaveCounted, TouchSession,
     StartExec, ExecEnds, CodeEnds, RmGet, RmKill, RmDrop, Release, history
<1>2. ASSUME NEW g \in Gateways, RecoverGet(g) PROVE disowned \subseteq disowned'
  BY <1>2 DEF RecoverGet
<1>3. ASSUME NEW g \in Gateways, GatewayStep(g) \/ Crash(g), ~RecoverGet(g) PROVE disowned' = disowned
  BY <1>3 DEF GatewayStep, WakeUp, ListMembers, ListHashes, ListStale, Reap, RemovalNext, RmGet, RmKill,
     RmDrop, ListContainers, RecoverSave, Start, Crash, history
<1>4. CASE Tick \/ ExpireLate \/ UNCHANGED vars
  BY <1>4 DEF Tick, ExpireLate, vars, history
<1> QED
  BY <1>1, <1>2, <1>3, <1>4 DEF Next

\* No lease of the guard is longer than GuardLease.
LEMMA GuardEnds ==
  ASSUME Shaped, [Next]_vars, guard.until <= now + GuardLease
  PROVE  guard'.until <= now' + GuardLease
<1>1. guard \in Lease /\ guard.until \in Nat /\ now \in Nat /\ NoLease.until = 0 /\ now + GuardLease \in Nat
  BY SharedTyped, NumbersTyped DEF Lease, NoLease
<1>2. ASSUME NEW r \in Reqs, Begin(r) \/ HandlerStep(r) \/ WaitTimeout(r) \/ CodeEnds(r)
      PROVE  guard'.until <= now' + GuardLease
  <2>1. CASE AcquireGuard(r)
    BY <1>1, <2>1 DEF AcquireGuard
  <2>2. CASE Release(r)
    BY <1>1, <2>2 DEF Release
  <2>3. CASE ~AcquireGuard(r) /\ ~Release(r)
    <3>1. UNCHANGED <<now, guard>>
      BY <1>2, <2>3 DEF HandlerStep, CreateNext, ExecuteNext, RemovalNext, Begin, WaitTimeout,
         ListMembers, ListHashes, ListStale, DockerRun, ProvisionEnv, SaveCreated, CheckCreated, GetAccess,
         LookUpContainer, SaveRecovered, AcquireExec, GetSession, FetchContainer, SaveCounted, TouchSession,
         StartExec, ExecEnds, CodeEnds, RmGet, RmKill, RmDrop, leases
    <3> QED
      BY <3>1
  <2> QED
    BY <2>1, <2>2, <2>3
<1>3. ASSUME NEW g \in Gateways, GatewayStep(g) \/ Crash(g) PROVE UNCHANGED <<now, guard>>
  BY <1>3 DEF GatewayStep, WakeUp, ListMembers, ListHashes, ListStale, Reap, RemovalNext, RmGet, RmKill,
     RmDrop, ListContainers, RecoverGet, RecoverSave, Start, Crash, leases
<1>4. CASE Tick
  BY <1>1, <1>4, NumbersTyped DEF Tick, Lapse
<1>5. CASE ExpireLate \/ UNCHANGED vars
  BY <1>5 DEF ExpireLate, vars, leases
<1> QED
  BY <1>2, <1>3, <1>4, <1>5 DEF Next

LEMMA CreationNext ==
  ASSUME Shaped, StoreKept, Guarded, CreationKept, Grace > 0, MaxHold <= IdleTimeout,
         MaxHold < Lifetime, [Next]_vars
  PROVE  CreationKept'
<1>1. /\ Shaped' /\ KeepsAll /\ Reqs \cap Gateways = {} /\ Reqs \subseteq Actors
      /\ Gateways \subseteq Actors /\ disowned \subseteq disowned'
  BY ShapedNext, StoreNext, DisownedGrows, SharedAssumption DEF Actors
<1>2. guard'.until <= now' + GuardLease
  BY GuardEnds DEF CreationKept
<1>3. ASSUME NEW r \in Reqs, act'[r] = act[r] PROVE Usable(r)'
  <2>1. \A c \in Cids : Made(c) => \/ box'[c] = box[c]
                                   \/ \E a \in Actors : Pc(a) = "rm_kill" /\ act[a].cid = c
    BY BoxSteps
  <2>2. Pc(r) \in Creators => known' = known /\ guard'.until <= guard.until
    BY <1>3, GuardSteps
  <2> QED
    BY <1>1, <1>3, <2>1, <2>2, KnownGrows, UsableStays
<1>4. ASSUME NEW g \in Gateways, act'[g] = act[g] PROVE Chosen(g)'
  BY <1>1, <1>4, ChosenStays DEF CreationKept
<1>5. ASSUME NEW q \in Reqs, Begin(q) \/ HandlerStep(q) \/ WaitTimeout(q) \/ CodeEnds(q)
      PROVE  CreationKept'
  <2>1. \A b \in Actors \ {q} : act'[b] = act[b]
    BY <1>5, ActorMoves DEF Moves
  <2>2. \A g \in Gateways : Chosen(g)'
    BY <1>1, <1>4, <2>1
  <2>3. Usable(q)'
    <3>1. CASE act' = act
      BY <1>3, <3>1
    <3>2. CASE act' # act
      BY <1>5, <3>2, UsableMoves
    <3> QED
      BY <3>1, <3>2
  <2>4. \A r \in Reqs : Usable(r)'
    BY <1>1, <1>3, <2>1, <2>3
  <2> QED
    BY <1>2, <2>2, <2>4 DEF CreationKept
<1>6. ASSUME NEW g \in Gateways, GatewayStep(g) PROVE CreationKept'
  <2>1. \A b \in Actors \ {g} : act'[b] = act[b]
    BY <1>6, ActorMoves DEF Moves
  <2>2. \A d \in Gateways : Chosen(d)'
    BY <1>1, <1>4, <1>6, <2>1, ChosenMoves
  <2>3. \A r \in Reqs : Usable(r)'
    BY <1>1, <1>3, <2>1
  <2> QED
    BY <1>2, <2>2, <2>3 DEF CreationKept
<1>7. ASSUME act' = act PROVE CreationKept'
  BY <1>2, <1>3, <1>4, <1>7 DEF CreationKept
<1>8. ASSUME NEW g \in Gateways, Crash(g) PROVE CreationKept'
  <2>1. \A r \in Reqs : act'[r] = act[r] \/ act'[r].pc = "lost"
    BY <1>1, <1>8, CrashMoves DEF Fresh
  <2>2. \A d \in Gateways : act'[d] = act[d] \/ act'[d].pc = "down"
    BY <1>1, <1>8, CrashMoves DEF Fresh
  <2>3. \A r \in Reqs : act'[r].pc = "lost" => Usable(r)'
    BY DEF Usable, Pc, WithCid, Creating, ExecSteps, Removing
  <2>4. \A d \in Gateways : act'[d].pc = "down" => Chosen(d)'
    BY DEF Chosen, Sweeping, Pc, Removing
  <2> QED
    BY <1>2, <1>3, <1>4, <2>1, <2>2, <2>3, <2>4 DEF CreationKept
<1>9. CASE Tick \/ ExpireLate \/ UNCHANGED vars
  BY <1>7, <1>9 DEF Tick, ExpireLate, vars
<1> QED
  BY <1>5, <1>6, <1>8, <1>9 DEF Next

LEMMA CreationInit == Init => CreationKept
<1> SUFFICES ASSUME Init PROVE CreationKept
  OBVIOUS
<1>1. \A a \in Actors : Pc(a) \in {"idle", "sleep"} /\ act[a].todo = {}
  BY DEF Init, Pc, Fresh
<1>2. \A r \in Reqs : Usable(r)
  BY <1>1 DEF Usable, Actors, WithCid, Creating, ExecSteps, Removing
<1>3. \A g \in Gateways : Chosen(g)
  BY <1>1 DEF Chosen, Sweeping, Actors, Removing
<1>4. guard.until <= now + GuardLease
  BY NumbersTyped DEF Init, NoLease
<1> QED
  BY <1>2, <1>3, <1>4 DEF CreationKept

\* A client is told of the container that its creation has kept, or that was disowned.
LEMMA ToldOf ==
  ASSUME Shaped, CreationKept, [Next]_vars
  PROVE  \A c \in known' \ known : Up(c) \/ c \in disowned
<1>1. ASSUME NEW r \in Reqs, CheckCreated(r) PROVE \A c \in known' \ known : Up(c) \/ c \in disowned
  <2>1. known' \ known \subseteq {act[r].cid} /\ Pc(r) \in Creating
    BY <1>1 DEF CheckCreated, Creating
  <2> QED
    BY <2>1 DEF CreationKept, Usable, Intact
<1>2. ASSUME NEW r \in Reqs, Begin(r) \/ HandlerStep(r) \/ WaitTimeout(r) \/ CodeEnds(r),
             ~CheckCreated(r)
      PROVE  known' = known
  BY <1>2 DEF HandlerStep, CreateNext, ExecuteNext, RemovalNext, Begin, WaitTimeout, AcquireGuard,
     ListMembers, ListHashes, ListStale, DockerRun, ProvisionEnv, SaveCreated, GetAccess,
     LookUpContainer, SaveRecovered, AcquireExec, GetSession, FetchContainer, SaveCounted, TouchSession,
     StartExec, ExecEnds, CodeEnds, RmGet, RmKill, RmDrop, Release, history
<1>3. ASSUME NEW g \in Gateways, GatewayStep(g) \/ Crash(g) PROVE known' = known
  BY <1>3 DEF GatewayStep, WakeUp, ListMembers, ListHashes, ListStale, Reap, RemovalNext, RmGet, RmKill,
     RmDrop, ListContainers, RecoverGet, RecoverSave, Start, Crash, history
<1>4. CASE Tick \/ ExpireLate \/ UNCHANGED vars
  BY <1>4 DEF Tick, ExpireLate, vars, history
<1> QED
  BY <1>1, <1>2, <1>3, <1>4 DEF Next

\* create_container answers "active" after asking Redis, not docker; the container is
\* there nonetheless, in whichever gateways REQUIRE_SHARED_STATE is set, and whatever the
\* other requests, the cleanup tasks and the crashes do, if creations leave the guard
\* before they could be taken for idle.  What it can be removed by before its client hears
\* of it is one thing only: a recovery that had seen no session of it, on a gateway with
\* REQUIRE_SHARED_STATE.
THEOREM CreatedIsUsable ==
  ASSUME Grace > 0, MaxHold < GuardLease, MaxHold <= IdleTimeout, MaxHold < Lifetime
  PROVE  Spec => CreatedUsable
<1> DEFINE Inv == Shaped /\ StoreKept /\ Guarded /\ CreationKept
<1>1. Init => Inv
  <2>1. Init => Guarded
    <3> SUFFICES ASSUME Init PROVE Guarded
      OBVIOUS
    <3>1. \A r \in Reqs : Pc(r) = "idle"
      BY SharedAssumption DEF Init, Pc, Fresh, Actors
    <3> QED
      BY <3>1, CreatorPlaces, SharedAssumption DEF Init, Guarded, OnTime, NoLease
  <2> QED
    BY <2>1, ShapedInit, StoreInit, CreationInit
<1>2. Inv /\ [Next]_vars => Inv'
  BY ShapedNext, StoreNext, GuardedNext, CreationNext
<1>3. Inv /\ [Next]_vars => [\A c \in known' \ known : Up(c) \/ c \in disowned]_vars
  BY ToldOf
<1> QED
  BY <1>1, <1>2, <1>3, PTL DEF Spec, CreatedUsable

=============================================================================
