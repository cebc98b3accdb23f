--------------------------- MODULE Executor_proofs ---------------------------
(***************************************************************************)
(* What the executor keeps, in Sandbox, for every number of executions,    *)
(* processes and files.                                                    *)
(*                                                                         *)
(* The user's processes form a forest that the executor only sees by its   *)
(* first child, the program: TreeKept says who may be whose child, so that *)
(* what is left under the executor after the kill is the program alone,    *)
(* dead.  GroupKept follows the program's process group through the kill,  *)
(* FilesKept the execution that each file comes from.  What a result       *)
(* carries is summed up by a fold over a set in OutputBounded and name     *)
(* after name in Used: TotalSize and SentUpTo bring the two together.      *)
(***************************************************************************)
EXTENDS Rendering_proofs, WellFoundedInduction

\* The executor works on an execution; it has spawned the program; the program is
\* over; the executor has looked for descendants.
Busy == Steps \ {"idle", "down"}
Spawned == {"wait", "term", "kill", "drain", "residual", "res_term", "res_kill", "collect", "read", "finish"}
Killed == Spawned \ {"wait", "term", "kill"}
Listed == Killed \ {"drain", "residual"}

\* A running process belongs to this execution or to one that it outlived.
JobsKept ==
  /\ pc # "idle" => job \in 1..MaxJobs
  /\ \A p \in Pids : Running(p) => proc[p].job \in outlived \/ (pc \in Busy /\ proc[p].job = job)

\* Who is whose child: the executor's is the program, only it is ever a zombie, and
\* nobody has a parent that is dead.  After the kill the program does not run, and
\* until it has been reaped it is the executor's child.
TreeKept ==
  /\ \A p \in Pids : proc[p].state = "none" => proc[p].parent = Tini
  /\ \A p \in Pids : proc[p].state = "zombie" => proc[p].parent = Exec
  /\ \A p \in Pids : proc[p].parent = Exec =>
       p = main /\ proc[p].job = job /\ proc[p].inGroup /\ pc \in Spawned
  /\ \A p \in Pids : proc[p].parent \in Pids => Running(proc[p].parent)
  /\ pc \in Killed => \A p \in Pids : proc[p].parent = Exec => ~Running(p)
  /\ (pc = "wait" \/ (ended = "timeout" /\ pc \in {"term", "kill", "drain"})) =>
       main \in Pids /\ proc[main].parent = Exec
  /\ pc = "drain" => ended = "timeout"

\* Processes in the program's group run between its start and the kill only, or when a
\* Python program ended by itself.
GroupKept ==
  /\ pc \in {"idle", "install", "decode", "spawn"} => \A p \in Pids : Running(p) => ~proc[p].inGroup
  /\ pc \in {"drain", "residual", "res_term", "res_kill", "collect"} /\
       ~(lang = "python" /\ ended \in {"zero", "nonzero"}) =>
       \A p \in Pids : Running(p) /\ proc[p].job = job => ~proc[p].inGroup

ResidualKept ==
  /\ \A p \in residual : p = main /\ proc[p].state = "zombie"
  /\ residual # {} => pc \in Listed

\* A file comes from this execution, from one that left a process behind, or cannot be
\* removed.
Own(by, removal) == by = job \/ by \in outlived \/ removal # "done"

FilesKept ==
  /\ pc \in Busy => \A n \in Names : output[n] = NoFile \/ Own(output[n].by, output[n].removal)
  /\ \A f \in files : Own(f.by, f.removal) /\ pc = "finish"
  /\ FilesOwn

ExecutorInv == ExecutorType /\ JobsKept /\ TreeKept /\ GroupKept /\ ResidualKept /\ FilesKept


-----------------------------------------------------------------------------
LEMMA PidsAre == Exec \notin Pids /\ Tini \notin Pids /\ Pids \subseteq Nat
BY ExecutorAssumption DEF Exec, Tini, Pids

LEMMA NoProcessIs ==
  NoProcess \in Processes /\ NoProcess.state = "none" /\ NoProcess.parent = Tini
BY ExecutorAssumption DEF NoProcess, Processes

\* What the end of the processes ps makes of process p.
LEMMA EndedIs ==
  ASSUME proc \in [Pids -> Processes], NEW ps \in SUBSET Pids, NEW p \in Pids, NEW e, e = Ended(ps)[p]
  PROVE  /\ e \in Processes
         /\ e.state = "running" => Running(p) /\ p \notin ps /\ e.job = proc[p].job /\ e.inGroup = proc[p].inGroup
         /\ Running(p) /\ p \notin ps => e.state = "running"
         /\ e.state = "none" => e.parent = Tini \/ (proc[p].state = "none" /\ e.parent = proc[p].parent)
         /\ e.state = "zombie" <=> (proc[p].state = "zombie" \/ (Running(p) /\ p \in ps /\ proc[p].parent = Exec))
         /\ e.parent = Exec => proc[p].parent = Exec /\ e.job = proc[p].job /\ e.inGroup = proc[p].inGroup
         /\ proc[p].parent = Exec => e.parent = Exec
         /\ e.parent \in Pids => e.parent = proc[p].parent /\ e.parent \notin ps
<1>0. proc[p] \in Processes
  OBVIOUS
<1>1. CASE p \in ps /\ Running(p) /\ proc[p].parent = Exec
  <2>1. e = [proc[p] EXCEPT !.state = "zombie"]
    BY <1>1 DEF Ended
  <2> QED
    BY <1>0, <1>1, <2>1, PidsAre DEF Processes, Running
<1>2. CASE p \in ps /\ Running(p) /\ proc[p].parent # Exec
  <2>1. e = NoProcess
    BY <1>2 DEF Ended
  <2>2. e.parent # Exec /\ e.parent \notin Pids
    BY <2>1, NoProcessIs, PidsAre DEF Exec, Tini
  <2> QED
    BY <1>2, <2>1, <2>2, NoProcessIs DEF Running
<1>3. CASE ~(p \in ps /\ Running(p)) /\ proc[p].parent \in ps
  <2>1. e = [proc[p] EXCEPT !.parent = Tini]
    BY <1>3 DEF Ended
  <2>2. /\ e \in Processes /\ e.parent = Tini /\ e.state = proc[p].state /\ e.job = proc[p].job
        /\ e.inGroup = proc[p].inGroup
    BY <1>0, <2>1 DEF Processes
  <2>3. Tini # Exec
    BY DEF Tini, Exec
  <2> QED
    BY <1>3, <2>2, <2>3, PidsAre DEF Running
<1>4. CASE ~(p \in ps /\ Running(p)) /\ proc[p].parent \notin ps
  <2>1. e = proc[p]
    BY <1>4 DEF Ended
  <2> QED
    BY <1>0, <1>4, <2>1 DEF Running
<1> QED
  BY <1>1, <1>2, <1>3, <1>4

\* Processes end: by themselves, or because the executor kills them, and then the
\* executor goes on only when nothing it spawned is left in the group.
LEMMA EndKeeps ==
  ASSUME ExecutorInv, NEW ps \in SUBSET Pids, proc' = Ended(ps),
         UNCHANGED <<job, lang, main, output, tools, result, outlived>>,
         \/ pc' = pc
         \/ pc = "term" /\ pc' = "kill"
         \/ pc = "res_term" /\ pc' = "res_kill"
         \/ pc = "res_kill" /\ pc' = "collect"
         \/ /\ pc \in {"term", "kill"} /\ pc' \in {"drain", "residual"}
            /\ pc' = "drain" => ended = "timeout"
            /\ \A p \in Pids : Running(p) /\ proc[p].job = job /\ proc[p].inGroup => p \in ps
  PROVE  ExecutorInv'
<1>0. ExecutorType /\ JobsKept /\ TreeKept /\ GroupKept /\ ResidualKept /\ FilesKept
  BY DEF ExecutorInv
<1>1. proc \in [Pids -> Processes]
  BY <1>0 DEF ExecutorType
<1>2. /\ install' = install /\ ended' = ended /\ residual' = residual /\ files' = files
  BY DEF tools
<1>3. /\ pc' \in Steps /\ (pc' # "idle" <=> pc # "idle") /\ (pc' \in Busy <=> pc \in Busy)
      /\ (pc \in Spawned => pc' \in Spawned)
      /\ (pc \in Killed => pc' \in Killed) /\ (pc \in Listed => pc' \in Listed)
  BY <1>0 DEF ExecutorType, Steps, Busy, Spawned, Killed, Listed
<1>4. /\ proc' \in [Pids -> Processes]
      /\ \A p \in Pids : proc'[p].state = "running" => Running(p) /\ p \notin ps /\ proc'[p].job = proc[p].job
                                                       /\ proc'[p].inGroup = proc[p].inGroup
      /\ \A p \in Pids : Running(p) /\ p \notin ps => proc'[p].state = "running"
      /\ \A p \in Pids : proc'[p].state = "none" =>
            proc'[p].parent = Tini \/ (proc[p].state = "none" /\ proc'[p].parent = proc[p].parent)
      /\ \A p \in Pids : proc'[p].state = "zombie" <=>
            (proc[p].state = "zombie" \/ (Running(p) /\ p \in ps /\ proc[p].parent = Exec))
      /\ \A p \in Pids : proc'[p].parent = Exec =>
            proc[p].parent = Exec /\ proc'[p].job = proc[p].job /\ proc'[p].inGroup = proc[p].inGroup
      /\ \A p \in Pids : proc[p].parent = Exec => proc'[p].parent = Exec
      /\ \A p \in Pids : proc'[p].parent \in Pids =>
            proc'[p].parent = proc[p].parent /\ proc'[p].parent \notin ps
  <2>1. proc' = [p \in Pids |-> Ended(ps)[p]]
    BY DEF Ended
  <2>2. \A p \in Pids : proc'[p] = Ended(ps)[p]
    OBVIOUS
  <2> QED
    BY <1>1, <2>1, <2>2, EndedIs
<1>5. ExecutorType'
  BY <1>0, <1>2, <1>3, <1>4 DEF ExecutorType
<1>6. JobsKept'
  BY <1>0, <1>3, <1>4 DEF JobsKept, Running
<1>7. TreeKept'
  <2>1. \A p \in Pids : proc'[p].parent = Exec =>
          p = main /\ proc'[p].job = job /\ proc'[p].inGroup /\ pc' \in Spawned
    BY <1>0, <1>3, <1>4 DEF TreeKept
  <2>2. \A p \in Pids : proc'[p].parent \in Pids => proc'[proc'[p].parent].state = "running"
    BY <1>0, <1>4 DEF TreeKept
  <2>3. pc' \in Killed => \A p \in Pids : proc'[p].parent = Exec => proc'[p].state # "running"
    <3> SUFFICES ASSUME pc' \in Killed, NEW p \in Pids, proc'[p].parent = Exec, proc'[p].state = "running"
                 PROVE  FALSE
      OBVIOUS
    <3>1. proc[p].parent = Exec /\ Running(p) /\ p \notin ps /\ proc[p].job = job /\ proc[p].inGroup
      BY <1>0, <1>4 DEF TreeKept
    <3>2. pc \notin Killed
      BY <1>0, <3>1 DEF TreeKept
    <3> QED
      BY <3>1, <3>2 DEF Killed, Spawned
  <2>4. (pc' = "wait" \/ (ended = "timeout" /\ pc' \in {"term", "kill", "drain"})) =>
          main \in Pids /\ proc'[main].parent = Exec
    BY <1>0, <1>4 DEF TreeKept
  <2>5. pc' = "drain" => ended = "timeout"
    BY <1>0 DEF TreeKept
  <2> QED
    BY <1>0, <1>2, <1>4, <2>1, <2>2, <2>3, <2>4, <2>5 DEF TreeKept, Running
<1>8. GroupKept'
  <2>1. pc' \in {"idle", "install", "decode", "spawn"} => pc' = pc
    OBVIOUS
  <2>2. ASSUME pc' \in {"drain", "residual", "res_term", "res_kill", "collect"},
               ~(lang = "python" /\ ended \in {"zero", "nonzero"}),
               NEW p \in Pids, proc'[p].state = "running", proc'[p].job = job
        PROVE  ~proc'[p].inGroup
    <3>1. Running(p) /\ proc[p].job = job /\ p \notin ps /\ proc'[p].inGroup = proc[p].inGroup
      BY <1>4, <2>2
    <3>2. CASE pc \in {"drain", "residual", "res_term", "res_kill", "collect"}
      BY <1>0, <2>2, <3>1, <3>2 DEF GroupKept
    <3>3. CASE pc \in {"term", "kill"}
      BY <2>2, <3>1, <3>3
    <3> QED
      BY <2>2, <3>2, <3>3
  <2>3. pc \in {"idle", "install", "decode", "spawn"} =>
          \A p \in Pids : proc'[p].state = "running" => ~proc'[p].inGroup
    BY <1>0, <1>4 DEF GroupKept
  <2> QED
    BY <1>2, <2>1, <2>2, <2>3 DEF GroupKept, Running
<1>9. ResidualKept'
  <2>1. residual \subseteq Pids
    BY <1>0 DEF ExecutorType
  <2> QED
    BY <1>0, <1>2, <1>3, <1>4, <2>1 DEF ResidualKept
<1>10. FilesKept'
  <2>1. pc' = "finish" <=> pc = "finish"
    OBVIOUS
  <2> QED
    BY <1>0, <1>2, <1>3, <2>1 DEF FilesKept, FilesOwn, Own
<1> QED
  BY <1>5, <1>6, <1>7, <1>8, <1>9, <1>10 DEF ExecutorInv


\* A process is born: a child of one that runs, or tini's.
LEMMA BornKeeps ==
  ASSUME ExecutorInv, NEW q \in Pids, proc[q].state = "none",
         NEW r \in Processes, r.state = "running", proc' = [proc EXCEPT ![q] = r],
         r.parent = Tini \/ (r.parent \in Pids /\ Running(r.parent)),
         r.job \in outlived \/ (pc \in Busy /\ r.job = job),
         r.inGroup => \E p \in Pids : Running(p) /\ proc[p].inGroup /\ proc[p].job = r.job,
         UNCHANGED <<job, lang, main, output, ended, residual, files, result, outlived>>,
         install' \in {"done", "failed"},
         pc' = pc \/ (pc = "install" /\ pc' = "decode")
  PROVE  ExecutorInv'
<1>0. ExecutorType /\ JobsKept /\ TreeKept /\ GroupKept /\ ResidualKept /\ FilesKept
  BY DEF ExecutorInv
<1>1. /\ proc \in [Pids -> Processes] /\ proc' \in [Pids -> Processes] /\ proc'[q] = r
      /\ \A p \in Pids \ {q} : proc'[p] = proc[p]
  BY <1>0 DEF ExecutorType
<1>2. Tini # Exec /\ Exec \notin Pids /\ Tini \notin Pids
  BY PidsAre DEF Exec, Tini
<1>3. ~Running(q) /\ proc[q].parent = Tini /\ r.parent # Exec
  BY <1>0, <1>2 DEF Running, TreeKept
<1>4. /\ pc' \in Steps /\ (pc' # "idle" <=> pc # "idle") /\ (pc' \in Busy <=> pc \in Busy)
      /\ (pc \in Spawned <=> pc' \in Spawned) /\ (pc \in Killed <=> pc' \in Killed)
      /\ (pc \in Listed <=> pc' \in Listed)
  BY <1>0 DEF ExecutorType, Steps, Busy, Spawned, Killed, Listed
<1>5. ExecutorType'
  BY <1>0, <1>1, <1>4 DEF ExecutorType
<1>6. JobsKept'
  BY <1>0, <1>1, <1>4 DEF JobsKept, Running
<1>7. TreeKept'
  <2>1. \A p \in Pids : proc'[p].parent = Exec => p # q /\ proc[p].parent = Exec /\ proc'[p] = proc[p]
    BY <1>1, <1>3
  <2>2. \A p \in Pids : proc'[p].parent \in Pids => proc'[proc'[p].parent].state = "running"
    <3> SUFFICES ASSUME NEW p \in Pids, proc'[p].parent \in Pids
                 PROVE  proc'[proc'[p].parent].state = "running"
      OBVIOUS
    <3>1. Running(proc'[p].parent)
      BY <1>0, <1>1, <1>2 DEF TreeKept
    <3> QED
      BY <1>1, <1>3, <3>1 DEF Running
  <2>3. main \in Pids /\ proc[main].parent = Exec => proc'[main].parent = Exec
    BY <1>1, <1>2, <1>3
  <2>4. \A p \in Pids : proc'[p].state # "running" => p # q /\ proc'[p] = proc[p]
    BY <1>1
  <2>5. /\ (pc' = "wait" <=> pc = "wait") /\ (pc' = "drain" <=> pc = "drain")
        /\ (pc' \in {"term", "kill", "drain"} <=> pc \in {"term", "kill", "drain"})
    OBVIOUS
  <2>6. /\ \A p \in Pids : proc'[p].state = "none" => proc'[p].parent = Tini
        /\ \A p \in Pids : proc'[p].state = "zombie" => proc'[p].parent = Exec
    BY <1>0, <2>4 DEF TreeKept
  <2>7. \A p \in Pids : proc'[p].parent = Exec =>
          /\ p = main /\ proc'[p].job = job /\ proc'[p].inGroup /\ pc' \in Spawned
          /\ pc' \in Killed => proc'[p].state # "running"
    BY <1>0, <1>4, <2>1 DEF TreeKept, Running
  <2>8. /\ (pc = "wait" \/ (ended = "timeout" /\ pc \in {"term", "kill", "drain"})) =>
             main \in Pids /\ proc[main].parent = Exec
        /\ pc = "drain" => ended = "timeout"
    BY <1>0 DEF TreeKept
  <2> QED
    BY <2>2, <2>3, <2>5, <2>6, <2>7, <2>8 DEF TreeKept, Running
<1>8. GroupKept'
  <2>1. pc' \in {"idle", "install", "decode", "spawn"} => pc \in {"idle", "install", "decode", "spawn"}
    OBVIOUS
  <2>2. pc' \in {"drain", "residual", "res_term", "res_kill", "collect"} => pc' = pc
    OBVIOUS
  <2> QED
    BY <1>0, <1>1, <2>1, <2>2 DEF GroupKept, Running
<1>9. ResidualKept'
  <2>1. residual \subseteq Pids /\ q \notin residual
    BY <1>0 DEF ExecutorType, ResidualKept
  <2> QED
    BY <1>0, <1>1, <1>4, <2>1 DEF ResidualKept
<1>10. FilesKept'
  <2>1. pc' = "finish" <=> pc = "finish"
    OBVIOUS
  <2> QED
    BY <1>0, <1>4, <2>1 DEF FilesKept, FilesOwn, Own
<1> QED
  BY <1>5, <1>6, <1>7, <1>8, <1>9, <1>10 DEF ExecutorInv

\* The executor exits, whatever it answers.
LEMMA StopKeeps ==
  ASSUME ExecutorInv, NEW error \in Errors, NEW sent, job' \in 1..MaxJobs, Stop(job', error, sent),
         \A f \in sent : f.name \in Names /\ (f.by = job' \/ f.by \in outlived \/ f.removal # "done"),
         \A p \in Pids : Running(p) => proc[p].job \in outlived \cup {job'},
         \A n \in Names : output'[n].by \in 0..MaxJobs
  PROVE  ExecutorInv'
<1>0. ExecutorType
  BY DEF ExecutorInv
<1>1. /\ pc' = "idle" /\ lang' = "python" /\ main' = 0 /\ install' = "done" /\ ended' = "no"
      /\ residual' = {} /\ files' = {}
      /\ result' = [job |-> job', error |-> error, files |-> sent]
  BY DEF Stop, Forgotten
<1>2. ASSUME NEW p \in Pids, Running(p)
      PROVE  /\ proc'[p] \in Processes /\ proc'[p].state = "running" /\ proc'[p].job = proc[p].job
             /\ proc'[p].parent = Tini /\ ~proc'[p].inGroup
  <2>1. proc'[p] = Process(proc[p].job, Tini, FALSE, FALSE, FALSE)
    BY <1>2 DEF Stop
  <2>2. proc[p] \in Processes
    BY <1>0 DEF ExecutorType
  <2> QED
    BY <2>1, <2>2 DEF Process, Processes
<1>3. ASSUME NEW p \in Pids, ~Running(p) PROVE proc'[p] = NoProcess
  BY <1>3 DEF Stop
<1>4. /\ proc' \in [Pids -> Processes]
      /\ \A p \in Pids : proc'[p].parent = Tini /\ proc'[p].state # "zombie"
      /\ \A p \in Pids : proc'[p].state = "running" =>
            Running(p) /\ proc'[p].job = proc[p].job /\ ~proc'[p].inGroup
  <2>1. \A p \in Pids : proc'[p] \in Processes
    BY <1>2, <1>3, NoProcessIs
  <2>2. proc' = [p \in Pids |-> proc'[p]]
    BY DEF Stop
  <2>3. proc' \in [Pids -> Processes]
    BY <2>1, <2>2
  <2> QED
    BY <1>2, <1>3, <2>3, NoProcessIs
<1>5. outlived' = outlived \cup {proc[p].job : p \in {q \in Pids : Running(q)}}
  BY DEF Stop, Survivors
<1>6. outlived \subseteq outlived' /\ outlived' \subseteq 1..MaxJobs
  BY <1>0, <1>5 DEF ExecutorType
<1>7. ExecutorType'
  <2>1. job' \in 0..MaxJobs
    BY ExecutorAssumption
  <2>2. /\ pc' \in Steps /\ lang' \in {"python", "bash"} /\ main' \in Pids \cup {0}
        /\ install' \in {"done", "failed"} /\ ended' \in {"no", "zero", "nonzero", "failed", "timeout"}
        /\ residual' \subseteq Pids
    BY <1>1 DEF Steps
  <2>3. (\A f \in files' \cup result'.files : f.name \in Names) /\ result'.error \in Errors
    BY <1>1
  <2> QED
    BY <1>4, <1>6, <2>1, <2>2, <2>3 DEF ExecutorType
<1>8. JobsKept'
  BY <1>1, <1>4, <1>5 DEF JobsKept, Running
<1>9. TreeKept' /\ GroupKept' /\ ResidualKept'
  <2>1. Tini # Exec /\ Tini \notin Pids
    BY PidsAre DEF Tini, Exec
  <2> QED
    BY <1>1, <1>4, <2>1 DEF TreeKept, GroupKept, ResidualKept, Listed, Killed, Spawned, Running
<1>10. FilesKept'
  BY <1>1, <1>6 DEF FilesKept, FilesOwn, Busy, Steps
<1> QED
  BY <1>7, <1>8, <1>9, <1>10 DEF ExecutorInv

\* A set of numbers that is not empty has a least one.
LEMMA NatMin ==
  ASSUME NEW T, T \subseteq Nat, T # {}
  PROVE  \E x \in T : \A y \in T : x <= y
<1> DEFINE R == OpToRel(<, Nat)
<1>1. IsWellFoundedOn(R, Nat)
  BY NatLessThanWellFounded
<1>2. \A x, y \in Nat : y < x => <<y, x>> \in R
  BY DEF OpToRel
<1> HIDE DEF R
<1>3. PICK x \in T : \A y \in T : ~ (<<y, x>> \in R)
  BY <1>1, WFMin
<1>4. \A y \in T : x <= y
  <2> SUFFICES ASSUME NEW y \in T PROVE x <= y
    OBVIOUS
  <2>1. x \in Nat /\ y \in Nat
    OBVIOUS
  <2>2. ~ (y < x)
    BY <1>2, <1>3, <2>1
  <2> QED
    BY <2>1, <2>2
<1> QED
  BY <1>4

\* What the executor finds below itself after the kill is the program, dead, if it has
\* not been reaped: the children of what does not run are tini's.
LEMMA DescendantsAre ==
  ASSUME ExecutorInv, pc \in Killed
  PROVE  Descendants = {p \in Pids : Alive(p) /\ proc[p].parent = Exec}
<1> DEFINE Children(s) == {p \in Pids : Alive(p) /\ proc[p].parent \in s}
           A == Children({Exec})
           F(f) == f = [n \in 0..MaxPids |-> IF n = 0 THEN A ELSE f[n - 1] \cup Children(f[n - 1])]
           b == CHOOSE f : F(f)
<1>1. Children(A) = {}
  BY DEF ExecutorInv, TreeKept
<1>2. A = {p \in Pids : Alive(p) /\ proc[p].parent = Exec}
  OBVIOUS
<1>3. Descendants = b[MaxPids]
  BY DEF Descendants
<1> HIDE DEF Children, A
<1>4. F([n \in 0..MaxPids |-> A])
  BY <1>1, ExecutorAssumption
<1>5. F(b)
  BY <1>4
<1> HIDE DEF b
<1>6. \A n \in 0..MaxPids : b[n] = IF n = 0 THEN A ELSE b[n - 1] \cup Children(b[n - 1])
  BY <1>5
<1> DEFINE T == {n \in 0..MaxPids : b[n] # A}
<1>7. T = {}
  <2> SUFFICES ASSUME T # {} PROVE FALSE
    OBVIOUS
  <2>1. PICK x \in T : \A y \in T : x <= y
    <3>1. T \subseteq Nat
      OBVIOUS
    <3> HIDE DEF T
    <3> QED
      BY <3>1, NatMin
  <2>2. x \in 0..MaxPids /\ b[x] # A
    OBVIOUS
  <2>3. x # 0
    BY <1>6, <2>2, ExecutorAssumption
  <2>4. b[x - 1] = A
    BY <2>1, <2>2, <2>3, ExecutorAssumption
  <2>5. b[x] = A \cup Children(A)
    BY <1>6, <2>2, <2>3, <2>4
  <2> QED
    BY <1>1, <2>2, <2>5
<1> QED
  BY <1>2, <1>3, <1>7, ExecutorAssumption

\* The program is reaped: nobody has it for a parent, and the executor has no other child.
LEMMA ReapedIs ==
  ASSUME ExecutorType, TreeKept, main \in Pids, proc[main].state = "zombie", proc' = Reaped(main)
  PROVE  /\ proc' \in [Pids -> Processes] /\ proc'[main] = NoProcess
         /\ \A p \in Pids \ {main} : proc'[p] = proc[p]
         /\ \A p \in Pids : proc'[p].state = "running" <=> Running(p)
         /\ \A p \in Pids : proc'[p].state = "running" => proc'[p] = proc[p]
         /\ \A p \in Pids : proc'[p].state # "zombie" /\ proc'[p].parent # Exec
         /\ \A p \in Pids : proc'[p].parent \in Pids => proc'[proc'[p].parent].state = "running"
         /\ \A p \in Pids : proc'[p].state = "none" => proc'[p].parent = Tini
<1>1. proc \in [Pids -> Processes] /\ proc' = [proc EXCEPT ![main] = NoProcess]
  BY DEF ExecutorType, Reaped
<1>2. /\ proc' \in [Pids -> Processes] /\ proc'[main] = NoProcess
      /\ \A p \in Pids \ {main} : proc'[p] = proc[p]
  BY <1>1, NoProcessIs
<1>3. Tini # Exec /\ Tini \notin Pids
  BY PidsAre DEF Tini, Exec
<1>4. \A p \in Pids : proc[p].parent = Exec => p = main
  BY DEF TreeKept
<1>5. \A p \in Pids : proc'[p].parent = Exec => FALSE
  BY <1>2, <1>3, <1>4, NoProcessIs
<1>6. \A p \in Pids : proc'[p].state = "zombie" => FALSE
  <2>1. \A p \in Pids : proc[p].state = "zombie" => p = main
    BY <1>4 DEF TreeKept
  <2> QED
    BY <1>2, <2>1, NoProcessIs
<1>7. \A p \in Pids : (proc'[p].state = "running" <=> Running(p)) /\ (Running(p) => proc'[p] = proc[p])
  BY <1>2, NoProcessIs DEF Running
<1>8. \A p \in Pids : proc'[p].parent \in Pids => proc'[proc'[p].parent].state = "running"
  BY <1>2, <1>3, <1>7, NoProcessIs DEF TreeKept
<1>9. \A p \in Pids : proc'[p].state = "none" => proc'[p].parent = Tini
  BY <1>2, NoProcessIs DEF TreeKept
<1> QED
  BY <1>2, <1>5, <1>6, <1>7, <1>8, <1>9

\* communicate returns, or gives up for good after the kill.
LEMMA ReadingOverKeeps ==
  ASSUME ExecutorInv, Communicate \/ Drain
  PROVE  ExecutorInv'
<1>0. ExecutorType /\ JobsKept /\ TreeKept /\ GroupKept /\ ResidualKept /\ FilesKept
  BY DEF ExecutorInv
<1>1. CASE Communicate
  <2>1. /\ pc = "wait" /\ pc' \in {"term", "residual"} /\ ended' \in {"zero", "nonzero", "failed"}
        /\ pc' = "residual" => lang = "python" /\ ended' \in {"zero", "nonzero"}
        /\ UNCHANGED <<job, lang, main, output, install, residual, files, result, outlived>>
    BY <1>0, <1>1 DEF Communicate, AfterExit, ExecutorType
  <2>2. main \in Pids /\ proc[main].state = "zombie" /\ proc' = Reaped(main)
    BY <1>0, <1>1, <2>1 DEF Communicate, TreeKept
  <2>3. /\ proc' \in [Pids -> Processes]
        /\ \A p \in Pids : proc'[p].state = "running" <=> Running(p)
        /\ \A p \in Pids : proc'[p].state = "running" => proc'[p] = proc[p]
        /\ \A p \in Pids : proc'[p].state # "zombie" /\ proc'[p].parent # Exec
        /\ \A p \in Pids : proc'[p].parent \in Pids => proc'[proc'[p].parent].state = "running"
        /\ \A p \in Pids : proc'[p].state = "none" => proc'[p].parent = Tini
    BY <1>0, <2>2, ReapedIs
  <2>4. pc \in Busy /\ pc' \in Busy /\ pc' \in Spawned /\ pc' \in Steps
    BY <2>1 DEF Busy, Spawned, Steps
  <2>5. ExecutorType'
    BY <1>0, <2>1, <2>3, <2>4 DEF ExecutorType
  <2>6. JobsKept'
    BY <1>0, <2>1, <2>3, <2>4 DEF JobsKept, Running
  <2>7. TreeKept'
    BY <2>1, <2>3 DEF TreeKept, Running
  <2>8. GroupKept'
    BY <2>1 DEF GroupKept
  <2>9. residual = {}
    BY <1>0, <2>1 DEF ResidualKept, Listed, Killed
  <2>10. ResidualKept'
    BY <2>1, <2>9 DEF ResidualKept
  <2>11. FilesKept'
    BY <1>0, <2>1, <2>4 DEF FilesKept, FilesOwn, Own
  <2> QED
    BY <2>5, <2>6, <2>7, <2>8, <2>10, <2>11 DEF ExecutorInv
<1>2. CASE Drain
  <2>1. /\ pc = "drain" /\ pc' = "residual" /\ ended = "timeout" /\ ended' = ended
        /\ UNCHANGED <<job, lang, main, output, install, residual, files, result, outlived>>
    BY <1>0, <1>2 DEF Drain, TreeKept, tools
  <2>2. main \in Pids /\ proc[main].parent = Exec /\ ~Running(main) /\ pc \in Killed
    BY <1>0, <2>1 DEF TreeKept, Killed, Spawned
  <2>3. proc[main].state = "zombie"
    <3>1. proc[main].state \in {"none", "running", "zombie"}
      BY <1>0, <2>2 DEF ExecutorType, Processes
    <3>2. Tini # Exec
      BY DEF Tini, Exec
    <3> QED
      BY <1>0, <2>2, <3>1, <3>2 DEF TreeKept, Running
  <2>4. proc' = proc \/ proc' = Reaped(main)
    BY <1>2 DEF Drain
  <2>5. /\ proc' \in [Pids -> Processes]
        /\ \A p \in Pids : proc'[p].state = "running" => Running(p) /\ proc'[p] = proc[p]
        /\ \A p \in Pids : proc'[p].state = "none" => proc'[p].parent = Tini
        /\ \A p \in Pids : proc'[p].state = "zombie" => proc'[p].parent = Exec
        /\ \A p \in Pids : proc'[p].parent = Exec =>
             p = main /\ proc'[p].job = job /\ proc'[p].inGroup /\ proc'[p].state # "running"
        /\ \A p \in Pids : proc'[p].parent \in Pids => proc'[proc'[p].parent].state = "running"
    <3>1. CASE proc' = proc
      BY <1>0, <2>2, <3>1 DEF TreeKept, ExecutorType, Running
    <3>2. CASE proc' = Reaped(main)
      BY <1>0, <2>2, <2>3, <3>2, ReapedIs
    <3> QED
      BY <2>4, <3>1, <3>2
  <2>6. pc \in Busy /\ pc' \in Busy /\ pc' \in Spawned /\ pc' \in Steps
    BY <2>1 DEF Busy, Spawned, Steps
  <2>7. ExecutorType'
    BY <1>0, <2>1, <2>5, <2>6 DEF ExecutorType
  <2>8. JobsKept'
    BY <1>0, <2>1, <2>5, <2>6 DEF JobsKept, Running
  <2>9. TreeKept'
    BY <2>1, <2>5, <2>6 DEF TreeKept, Running
  <2>10. GroupKept'
    BY <1>0, <2>1, <2>5 DEF GroupKept, Running
  <2>11. residual = {}
    BY <1>0, <2>1 DEF ResidualKept, Listed
  <2>12. ResidualKept'
    BY <2>1, <2>11 DEF ResidualKept
  <2>13. FilesKept'
    BY <1>0, <2>1, <2>6 DEF FilesKept, FilesOwn, Own
  <2> QED
    BY <2>7, <2>8, <2>9, <2>10, <2>12, <2>13 DEF ExecutorInv
<1> QED
  BY <1>1, <1>2

\* The executor starts on an execution, or falls over what it cannot clear.
LEMMA BeginKeeps ==
  ASSUME ExecutorInv, Begin
  PROVE  ExecutorInv'
<1>0. ExecutorType /\ JobsKept /\ TreeKept /\ GroupKept /\ ResidualKept /\ FilesKept
  BY DEF ExecutorInv
<1>1. /\ pc = "idle" /\ job' \in 1..MaxJobs /\ job' \in 0..MaxJobs
      /\ \A p \in Pids : Running(p) => proc[p].job \in outlived
  <2>1. pc = "idle" /\ job < MaxJobs /\ job' = job + 1
    BY DEF Begin
  <2>2. pc \notin Busy
    BY <2>1 DEF Busy
  <2> QED
    BY <1>0, <2>1, <2>2, ExecutorAssumption DEF ExecutorType, JobsKept
<1>2. \A n \in Names : /\ Cleared[n].by \in 0..MaxJobs
                       /\ Cleared[n] = NoFile \/ Cleared[n].removal # "done"
  <2>1. NoFile.by \in 0..MaxJobs
    BY ExecutorAssumption DEF NoFile
  <2> QED
    BY <1>0, <2>1 DEF Cleared, ExecutorType
<1>3. CASE ClearRaises
  <2>1. output' \in {output, Cleared} /\ Stop(job', "NoResult", {})
    BY <1>3 DEF Begin
  <2>2. \A n \in Names : output'[n].by \in 0..MaxJobs
    BY <1>0, <1>2, <2>1 DEF ExecutorType
  <2>3. "NoResult" \in Errors
    BY DEF Errors
  <2> QED
    BY <1>1, <2>1, <2>2, <2>3, StopKeeps
<1>4. CASE ~ClearRaises
  <2>1. /\ output' = Cleared /\ lang' \in {"python", "bash"} /\ pc' \in {"install", "decode"}
        /\ result' = NoResult
        /\ UNCHANGED <<main, proc, install, ended, residual, files, outlived>>
    BY <1>4 DEF Begin, SetupCleared, tools
  <2>2. pc' \in Steps /\ pc' \in Busy /\ pc' \notin Spawned /\ pc' \notin Killed /\ pc \notin Spawned
    BY <1>1, <2>1 DEF Steps, Busy, Spawned, Killed
  <2>3. residual = {} /\ files = {}
    BY <1>0, <1>1 DEF ResidualKept, FilesKept, Listed, Killed, Spawned
  <2>4. NoResult.files = {} /\ NoResult.error \in Errors
    BY DEF NoResult, Errors
  <2>5. ExecutorType'
    BY <1>0, <1>1, <1>2, <2>1, <2>2, <2>3, <2>4 DEF ExecutorType
  <2>6. JobsKept'
    BY <1>1, <2>1, <2>2 DEF JobsKept, Running
  <2>7. TreeKept'
    BY <1>0, <2>1, <2>2 DEF TreeKept, Running
  <2>8. GroupKept'
    BY <1>0, <1>1, <2>1 DEF GroupKept, Running
  <2>9. ResidualKept'
    BY <2>1, <2>3 DEF ResidualKept
  <2>10. FilesKept'
    BY <1>2, <2>1, <2>3, <2>4 DEF FilesKept, FilesOwn, Own
  <2> QED
    BY <2>5, <2>6, <2>7, <2>8, <2>9, <2>10 DEF ExecutorInv
<1> QED
  BY <1>3, <1>4

\* What is answered without looking at the processes or the files keeps the invariant.
LEMMA StopsKeep ==
  ASSUME ExecutorInv, pc \in Busy, NEW error \in Errors, NEW sent, Stop(job, error, sent), UNCHANGED job,
         \A f \in sent : f.name \in Names /\ Own(f.by, f.removal),
         \A n \in Names : output'[n].by \in 0..MaxJobs
  PROVE  ExecutorInv'
<1>1. job' = job /\ job' \in 1..MaxJobs
  BY DEF ExecutorInv, JobsKept, Busy
<1>2. \A p \in Pids : Running(p) => proc[p].job \in outlived \cup {job'}
  BY <1>1 DEF ExecutorInv, JobsKept
<1>3. \A f \in sent : f.name \in Names /\ (f.by = job' \/ f.by \in outlived \/ f.removal # "done")
  BY <1>1 DEF Own
<1>4. Stop(job', error, sent)
  BY <1>1
<1> QED
  BY <1>1, <1>2, <1>3, <1>4, StopKeeps

LEMMA SimpleStopsKeep ==
  ASSUME ExecutorInv, pc \in Busy, NEW error \in {"ValueError", "NoResult"}, Stop(job, error, {}),
         UNCHANGED <<job, output>>
  PROVE  ExecutorInv'
<1>1. error \in Errors
  BY DEF Errors
<1>2. \A n \in Names : output'[n].by \in 0..MaxJobs
  BY DEF ExecutorInv, ExecutorType
<1> QED
  BY <1>1, <1>2, StopsKeep

\* The packages are installed, the code is decoded, the program is started, or one of
\* these fails.
LEMMA ProgramStartsKeeps ==
  ASSUME ExecutorInv, Install \/ Decode \/ Spawn
  PROVE  ExecutorInv'
<1>0. ExecutorType /\ JobsKept /\ TreeKept /\ GroupKept /\ ResidualKept /\ FilesKept
  BY DEF ExecutorInv
<1>1. pc \in {"install", "decode", "spawn"}
  BY DEF Install, Decode, Spawn
<1>2. pc \in Busy /\ pc \notin Spawned /\ pc \notin Listed /\ job \in 1..MaxJobs /\ residual = {} /\ files = {}
  BY <1>0, <1>1 DEF Busy, Spawned, Listed, Killed, Steps, JobsKept, ResidualKept, FilesKept
<1>3. \A p \in Pids : proc[p].parent # Exec
  BY <1>0, <1>2 DEF TreeKept
\* nothing is started
<1>4. ASSUME UNCHANGED <<job, lang, main, proc, output, residual, files, result, outlived>>,
             install' \in {"done", "failed"}, ended' \in {"no", "zero", "nonzero", "failed", "timeout"},
             \/ pc' \in {"decode", "spawn"}
             \/ pc' = "collect" /\ ended' = "failed" /\ pc = "spawn"
      PROVE  ExecutorInv'
  <2>1. pc' \in Steps /\ pc' \in Busy
    BY <1>4 DEF Steps, Busy
  <2>2. ExecutorType'
    BY <1>0, <1>4, <2>1 DEF ExecutorType
  <2>3. JobsKept'
    BY <1>0, <1>2, <1>4, <2>1 DEF JobsKept, Running
  <2>4. TreeKept'
    BY <1>0, <1>3, <1>4 DEF TreeKept, Running
  <2>5. GroupKept'
    BY <1>0, <1>1, <1>4 DEF GroupKept, Running
  <2>6. ResidualKept' /\ FilesKept'
    BY <1>0, <1>2, <1>4 DEF ResidualKept, FilesKept, FilesOwn, Own
  <2> QED
    BY <2>2, <2>3, <2>4, <2>5, <2>6 DEF ExecutorInv
<1>5. CASE Install
  <2>1. /\ pc = "install" /\ pc' = "decode" /\ install' \in {"done", "failed"}
        /\ UNCHANGED <<job, lang, main, output, ended, residual, files, result, outlived>>
    BY <1>5 DEF Install
  <2>2. CASE proc' = proc
    BY <1>0, <1>4, <2>1, <2>2 DEF ExecutorType
  <2>3. CASE \E q \in Pids : NewPid(q) /\ proc' = [proc EXCEPT ![q] = Process(job, Tini, FALSE, FALSE, FALSE)]
    <3>1. PICK q \in Pids : /\ proc[q].state = "none"
                            /\ proc' = [proc EXCEPT ![q] = Process(job, Tini, FALSE, FALSE, FALSE)]
      BY <2>3 DEF NewPid
    <3> DEFINE r == Process(job, Tini, FALSE, FALSE, FALSE)
    <3>2. r \in Processes /\ r.state = "running" /\ r.parent = Tini /\ r.job = job /\ ~r.inGroup
      BY <1>0 DEF Process, Processes, ExecutorType
    <3>3. proc' = [proc EXCEPT ![q] = r]
      BY <3>1
    <3> HIDE DEF r
    <3> QED
      BY <1>2, <2>1, <3>1, <3>2, <3>3, BornKeeps
  <2> QED
    BY <1>5, <2>2, <2>3 DEF Install
<1>6. CASE Decode
  <2>1. CASE Stop(job, "ValueError", {}) /\ UNCHANGED job
    BY <1>2, <1>6, <2>1, SimpleStopsKeep DEF Decode
  <2>2. CASE ~(Stop(job, "ValueError", {}) /\ UNCHANGED job)
    <3>1. /\ pc' = "spawn" /\ install' = install /\ ended' = ended
          /\ UNCHANGED <<job, lang, main, proc, output, residual, files, result, outlived>>
      BY <1>6, <2>2 DEF Decode, tools
    <3> QED
      BY <1>0, <1>4, <3>1 DEF ExecutorType
  <2> QED
    BY <2>1, <2>2
<1>7. CASE Spawn
  <2>0. pc = "spawn" /\ output' = output
    BY <1>7 DEF Spawn
  <2>1. CASE lang = "bash" /\ Stop(job, "NoResult", {}) /\ UNCHANGED job
    BY <1>2, <2>0, <2>1, SimpleStopsKeep
  <2>2. CASE /\ ended' = "failed"
             /\ pc' = "collect"
             /\ UNCHANGED <<job, lang, main, proc, install, residual, files, result, outlived>>
    BY <1>0, <1>4, <2>0, <2>2 DEF ExecutorType
  <2>3. CASE /\ \E q \in Pids, deaf \in BOOLEAN :
                  /\ NewPid(q)
                  /\ proc' = [proc EXCEPT ![q] = Process(job, Exec, TRUE, TRUE, deaf)]
                  /\ main' = q
             /\ pc' = "wait"
             /\ UNCHANGED <<job, lang, tools, result, outlived>>
    <3>1. PICK q \in Pids, deaf \in BOOLEAN :
            /\ proc[q].state = "none" /\ main' = q
            /\ proc' = [proc EXCEPT ![q] = Process(job, Exec, TRUE, TRUE, deaf)]
      BY <2>3 DEF NewPid
    <3> DEFINE r == Process(job, Exec, TRUE, TRUE, deaf)
    <3>2. r \in Processes /\ r.state = "running" /\ r.parent = Exec /\ r.job = job /\ r.inGroup
      BY <1>0 DEF Process, Processes, ExecutorType
    <3>3. proc' = [proc EXCEPT ![q] = r]
      BY <3>1
    <3> HIDE DEF r
    <3>4. /\ proc' \in [Pids -> Processes] /\ proc'[q] = r
          /\ \A p \in Pids \ {q} : proc'[p] = proc[p]
      BY <1>0, <3>2, <3>3 DEF ExecutorType
    <3>5. UNCHANGED <<job, lang, install, ended, residual, files, result, outlived>>
      BY <2>3 DEF tools
    <3>6. pc' = "wait" /\ pc' \in Steps /\ pc' \in Busy /\ pc' \in Spawned /\ pc' \notin Killed
      BY <2>3 DEF Steps, Busy, Spawned, Killed
    <3>7. ExecutorType'
      BY <1>0, <2>0, <3>1, <3>4, <3>5, <3>6 DEF ExecutorType
    <3>8. JobsKept'
      BY <1>0, <1>2, <3>2, <3>4, <3>5, <3>6 DEF JobsKept, Running
    <3>9. TreeKept'
      <4>1. Exec \notin Pids
        BY PidsAre
      <4>2. ~Running(q)
        BY <3>1 DEF Running
      <4>3. \A p \in Pids : proc'[p].parent \in Pids => proc'[proc'[p].parent].state = "running"
        BY <1>0, <3>2, <3>4, <4>1, <4>2 DEF TreeKept, Running
      <4>4. \A p \in Pids : proc'[p].parent = Exec => p = q
        BY <1>3, <3>4
      <4>5. \A p \in Pids : proc'[p].state # "running" => p # q /\ proc'[p] = proc[p]
        BY <3>2, <3>4
      <4>6. proc'[q].parent = Exec /\ proc'[q].job = job /\ proc'[q].inGroup /\ main' = q /\ q \in Pids
        BY <3>1, <3>2, <3>4
      <4>7. \A p \in Pids : proc'[p].state = "none" => proc'[p].parent = Tini
        BY <1>0, <4>5 DEF TreeKept
      <4>8. \A p \in Pids : proc'[p].state = "zombie" => proc'[p].parent = Exec
        BY <1>0, <4>5 DEF TreeKept
      <4> QED
        BY <3>5, <3>6, <4>3, <4>4, <4>6, <4>7, <4>8 DEF TreeKept, Running
    <3>10. GroupKept'
      BY <3>6 DEF GroupKept
    <3>11. ResidualKept' /\ FilesKept'
      BY <1>0, <1>2, <2>0, <3>5, <3>6 DEF ResidualKept, FilesKept, FilesOwn, Own
    <3> QED
      BY <3>7, <3>8, <3>9, <3>10, <3>11 DEF ExecutorInv
  <2> QED
    BY <1>7, <2>1, <2>2, <2>3 DEF Spawn
<1> QED
  BY <1>5, <1>6, <1>7

\* Time is up, and the two terminations follow.
LEMMA TerminationKeeps ==
  ASSUME ExecutorInv, Timeout \/ Term \/ Kill \/ ListResidual \/ TermResidual \/ KillResidual
  PROVE  ExecutorInv'
<1>0. ExecutorType /\ JobsKept /\ TreeKept /\ GroupKept /\ ResidualKept /\ FilesKept
  BY DEF ExecutorInv
<1>1. \A p \in Pids : Running(p) /\ proc[p].job = job /\ proc[p].inGroup => p \in Group
  BY DEF Group, Alive, Running
<1>2. Group \in SUBSET Pids /\ residual \in SUBSET Pids
  BY <1>0 DEF Group, ExecutorType
<1>3. AfterKill \in {"drain", "residual"} /\ (AfterKill = "drain" => ended = "timeout")
  BY DEF AfterKill
<1>4. CASE Timeout
  <2>1. /\ pc = "wait" /\ pc' = "term" /\ ended' = "timeout"
        /\ UNCHANGED <<job, lang, main, proc, output, install, residual, files, result, outlived>>
    BY <1>4 DEF Timeout
  <2>2. pc \in Busy /\ pc' \in Busy /\ pc' \in Spawned /\ pc' \in Steps /\ pc' \notin Killed /\ pc \notin Listed
    BY <2>1 DEF Busy, Spawned, Steps, Killed, Listed
  <2>3. ExecutorType'
    BY <1>0, <2>1, <2>2 DEF ExecutorType
  <2>4. JobsKept'
    BY <1>0, <2>1, <2>2 DEF JobsKept, Running
  <2>5. TreeKept'
    BY <1>0, <2>1, <2>2 DEF TreeKept, Running
  <2>6. GroupKept'
    BY <2>1 DEF GroupKept
  <2>7. ResidualKept'
    BY <1>0, <2>1, <2>2 DEF ResidualKept
  <2>8. FilesKept'
    BY <1>0, <2>1, <2>2 DEF FilesKept, FilesOwn, Own
  <2> QED
    BY <2>3, <2>4, <2>5, <2>6, <2>7, <2>8 DEF ExecutorInv
<1>5. CASE Term
  <2> DEFINE hit == {p \in Group : Running(p) /\ ~proc[p].deaf}
  <2>1. /\ pc = "term" /\ proc' = Ended(hit)
        /\ pc' = IF Group \ hit = {} /\ main \notin hit THEN AfterKill ELSE "kill"
        /\ UNCHANGED <<job, lang, main, output, tools, result, outlived>>
    BY <1>5 DEF Term
  <2>2. hit \in SUBSET Pids /\ (Group \ hit = {} => Group \subseteq hit)
    BY <1>2
  <2> HIDE DEF hit
  <2>3. CASE pc' = "kill"
    BY <2>1, <2>2, <2>3, EndKeeps
  <2>4. CASE pc' # "kill"
    <3>1. pc' = AfterKill /\ \A p \in Pids : Running(p) /\ proc[p].job = job /\ proc[p].inGroup => p \in hit
      BY <1>1, <2>1, <2>2, <2>4
    <3> QED
      BY <1>3, <2>1, <2>2, <3>1, EndKeeps
  <2> QED
    BY <2>3, <2>4
<1>6. CASE Kill
  BY <1>1, <1>2, <1>3, <1>6, EndKeeps DEF Kill
<1>7. CASE ListResidual
  <2>1. /\ pc = "residual" /\ residual' = Descendants /\ pc' \in {"collect", "res_term"}
        /\ UNCHANGED <<job, lang, main, proc, output, install, ended, files, result, outlived>>
    BY <1>7 DEF ListResidual
  <2>2. pc \in Busy /\ pc' \in Busy /\ pc' \in Spawned /\ pc' \in Steps /\ pc \in Killed /\ pc' \in Killed
        /\ pc' \in Listed
    BY <2>1 DEF Busy, Spawned, Steps, Killed, Listed
  <2>3. \A p \in residual' : p \in Pids /\ p = main /\ proc[p].state = "zombie"
    <3>1. \A p \in residual' : p \in Pids /\ Alive(p) /\ proc[p].parent = Exec
      BY <2>1, <2>2, DescendantsAre
    <3> QED
      BY <1>0, <2>2, <3>1 DEF TreeKept, Alive, Running
  <2>4. ExecutorType'
    BY <1>0, <2>1, <2>2, <2>3 DEF ExecutorType
  <2>5. JobsKept'
    BY <1>0, <2>1, <2>2 DEF JobsKept, Running
  <2>6. TreeKept'
    BY <1>0, <2>1, <2>2 DEF TreeKept, Running
  <2>7. GroupKept'
    BY <1>0, <2>1 DEF GroupKept, Running
  <2>8. ResidualKept'
    BY <2>1, <2>2, <2>3 DEF ResidualKept
  <2>9. FilesKept'
    BY <1>0, <2>1, <2>2 DEF FilesKept, FilesOwn, Own
  <2> QED
    BY <2>4, <2>5, <2>6, <2>7, <2>8, <2>9 DEF ExecutorInv
<1>8. CASE TermResidual
  BY <1>2, <1>8, EndKeeps DEF TermResidual
<1>9. CASE KillResidual
  BY <1>2, <1>9, EndKeeps DEF KillResidual
<1> QED
  BY <1>4, <1>5, <1>6, <1>7, <1>8, <1>9

\* What becomes of a file when the processes of some executions write.
LEMMA OverwriteIs ==
  ASSUME NEW ns, NEW js, Overwrite(ns, js), NEW n \in Names
  PROVE  \/ output'[n] = output[n]
         \/ n \in ns /\ output'[n] = NoFile
         \/ n \in ns /\ \E k \in Kinds, j \in js : output'[n] = File(k, j)
<1>1. PICK touched \in SUBSET ns :
        \E new \in [touched -> {NoFile} \cup {File(k, j) : k \in Kinds, j \in js}] :
          output' = [m \in Names |-> IF m \in touched THEN new[m] ELSE output[m]]
  BY DEF Overwrite
<1>2. PICK new \in [touched -> {NoFile} \cup {File(k, j) : k \in Kinds, j \in js}] :
        output' = [m \in Names |-> IF m \in touched THEN new[m] ELSE output[m]]
  BY <1>1
<1>3. CASE n \in touched
  <2>1. output'[n] = new[n] /\ n \in ns /\ new[n] \in {NoFile} \cup {File(k, j) : k \in Kinds, j \in js}
    BY <1>2, <1>3
  <2> QED
    BY <2>1
<1> QED
  BY <1>2, <1>3

\* The executions that have a process are this one and those that it outlived.
LEMMA SurvivorsAre ==
  ASSUME ExecutorInv, pc \in Busy
  PROVE  Survivors \subseteq outlived \cup {job} /\ Survivors \subseteq 1..MaxJobs
  BY DEF ExecutorInv, ExecutorType, JobsKept, Busy, Survivors

\* The output is written, read and sent.
LEMMA CollectionKeeps ==
  ASSUME ExecutorInv, DecodeTimedOut \/ Wrote \/ Collect \/ Finish
  PROVE  ExecutorInv'
<1>0. ExecutorType /\ JobsKept /\ TreeKept /\ GroupKept /\ ResidualKept /\ FilesKept
  BY DEF ExecutorInv
<1>1. CASE DecodeTimedOut
  <2>1. pc \in Busy
    BY <1>1 DEF DecodeTimedOut, Busy, Steps
  <2> QED
    BY <1>1, <2>1, SimpleStopsKeep DEF DecodeTimedOut
<1>2. CASE Wrote
  <2>1. /\ pc = "collect" /\ pc' = "read"
        /\ UNCHANGED <<job, lang, main, proc, install, ended, residual, files, result, outlived>>
    BY <1>2 DEF Wrote, tools
  <2>2. /\ pc \in Busy /\ pc' \in Busy /\ pc \in Spawned /\ pc' \in Spawned /\ pc' \in Steps
        /\ pc \in Killed /\ pc' \in Listed
    BY <2>1 DEF Busy, Spawned, Steps, Killed, Listed
  <2>3. job \in 1..MaxJobs /\ \A j \in Writers : j \in 0..MaxJobs /\ (j \in outlived \/ j = job)
    <3>1. Survivors \subseteq outlived \cup {job}
      BY <2>2, SurvivorsAre
    <3> QED
      BY <1>0, <2>1, <3>1 DEF Writers, JobsKept, ExecutorType
  <2>4. ASSUME NEW n \in Names
        PROVE  /\ output'[n].by \in 0..MaxJobs
               /\ output'[n] = NoFile \/ Own(output'[n].by, output'[n].removal)
    <3>1. CASE output'[n] = output[n]
      BY <1>0, <2>2, <3>1 DEF ExecutorType, FilesKept
    <3>2. CASE output'[n] = NoFile
      <4>1. NoFile.by \in 0..MaxJobs
        BY ExecutorAssumption DEF NoFile
      <4> QED
        BY <3>2, <4>1
    <3>3. ASSUME NEW k \in Kinds, NEW j \in Writers, output'[n] = File(k, j)
          PROVE  output'[n].by \in 0..MaxJobs /\ Own(output'[n].by, output'[n].removal)
      <4>1. output'[n].by = j
        BY <3>3 DEF File
      <4> QED
        BY <2>3, <4>1 DEF Own
    <3> QED
      BY <1>2, <3>1, <3>2, <3>3, OverwriteIs DEF Wrote
  <2>5. ExecutorType'
    BY <1>0, <2>1, <2>2, <2>4 DEF ExecutorType
  <2>6. JobsKept'
    BY <1>0, <2>1, <2>2 DEF JobsKept, Running
  <2>7. TreeKept'
    BY <1>0, <2>1, <2>2 DEF TreeKept, Running
  <2>8. GroupKept' /\ ResidualKept'
    BY <1>0, <2>1, <2>2 DEF GroupKept, ResidualKept
  <2>9. FilesKept'
    BY <1>0, <2>1, <2>4 DEF FilesKept, FilesOwn, Own
  <2> QED
    BY <2>5, <2>6, <2>7, <2>8, <2>9 DEF ExecutorInv
<1>3. CASE Collect
  <2>0. pc = "read" /\ pc \in Busy /\ job' = job /\ job \in 1..MaxJobs
    BY <1>0, <1>3 DEF Collect, Busy, Steps, JobsKept
  <2>1. Survivors \subseteq outlived \cup {job} /\ Survivors \subseteq 1..MaxJobs
    BY <2>0, SurvivorsAre
  <2>2. \A n \in Names : \/ output'[n] = output[n]
                         \/ output'[n] = NoFile
                         \/ n \in Sent /\ \E k \in Kinds, j \in Survivors : output'[n] = File(k, j)
    BY <1>3, OverwriteIs DEF Collect
  <2>3. \A n \in Names : output'[n].by \in 0..MaxJobs
    <3>1. NoFile.by \in 0..MaxJobs
      BY ExecutorAssumption DEF NoFile
    <3>2. \A k \in Kinds, j \in Survivors : File(k, j).by \in 0..MaxJobs
      BY <2>1 DEF File
    <3> QED
      BY <1>0, <2>2, <3>1, <3>2 DEF ExecutorType
  <2>4. CASE ~ \A n \in Sent : output'[n].readable
    <3>1. Stop(job, "NoResult", {}) /\ "NoResult" \in Errors
      BY <1>3, <2>4 DEF Collect, Errors
    <3> QED
      BY <2>0, <2>3, <3>1, StopsKeep
  <2>5. CASE \A n \in Sent : output'[n].readable
    <3>1. /\ files' = {[name |-> n, size |-> output[n].size, held |-> output'[n].size,
                        by |-> output'[n].by, removal |-> output'[n].removal] : n \in Sent}
          /\ outlived' = outlived \cup Survivors
          /\ pc' = "finish"
          /\ UNCHANGED <<job, lang, main, proc, install, ended, residual, result>>
      BY <1>3, <2>5 DEF Collect
    <3>2. pc' \in Busy /\ pc \in Spawned /\ pc' \in Spawned /\ pc' \in Steps /\ pc \in Killed /\ pc' \in Listed
      BY <2>0, <3>1 DEF Busy, Spawned, Steps, Killed, Listed
    <3>3. \A n \in Names : output'[n] = NoFile \/ Own(output[n].by, output[n].removal)'
      <4>1. \A n \in Names : output'[n] = output[n] =>
              output'[n] = NoFile \/ Own(output[n].by, output[n].removal)'
        BY <1>0, <2>0, <3>1 DEF FilesKept, Own
      <4>2. \A k \in Kinds, j \in Survivors : File(k, j).by \in outlived'
        BY <3>1 DEF File
      <4> QED
        BY <2>2, <4>1, <4>2 DEF Own
    <3>4. \A n \in Sent : n \in Names /\ output'[n] # NoFile
      BY <2>5 DEF Sent, NoFile
    <3>5. /\ \A f \in files' : f.name \in Names
          /\ \A f \in files' : f.by = job' \/ f.by \in outlived' \/ f.removal # "done"
      BY <3>1, <3>3, <3>4 DEF Own
    <3>6. ExecutorType'
      BY <1>0, <2>1, <2>3, <3>1, <3>2, <3>5 DEF ExecutorType
    <3>7. JobsKept'
      BY <1>0, <2>0, <3>1, <3>2 DEF JobsKept, Running, Survivors
    <3>8. TreeKept'
      BY <1>0, <3>1, <3>2 DEF TreeKept, Running
    <3>9. GroupKept' /\ ResidualKept'
      BY <1>0, <3>1, <3>2 DEF GroupKept, ResidualKept
    <3>10. FilesKept'
      <4>1. FilesOwn'
        BY <1>0, <3>1 DEF FilesKept, FilesOwn
      <4> QED
        BY <2>0, <3>1, <3>3, <3>5, <4>1 DEF FilesKept, Own
    <3> QED
      BY <3>6, <3>7, <3>8, <3>9, <3>10 DEF ExecutorInv
  <2> QED
    BY <2>4, <2>5
<1>4. CASE Finish
  <2>0. pc = "finish" /\ pc \in Busy /\ job' = job
    BY <1>4 DEF Finish, Busy, Steps
  <2>1. \A n \in Names : output'[n].by \in 0..MaxJobs
    <3>1. NoFile.by \in 0..MaxJobs
      BY ExecutorAssumption DEF NoFile
    <3>2. \A n \in Names : output[n].by \in 0..MaxJobs /\ Cleared[n].by \in 0..MaxJobs
      BY <1>0, <3>1 DEF Cleared, ExecutorType
    <3> QED
      BY <1>4, <3>2 DEF Finish
  <2>2. ErrorOf \in Errors /\ "NoResult" \in Errors
    BY DEF ErrorOf, Errors
  <2>3. \A f \in files : f.name \in Names /\ Own(f.by, f.removal)
    BY <1>0 DEF FilesKept, ExecutorType
  <2>4. Stop(job, "NoResult", {}) \/ Stop(job, ErrorOf, files)
    BY <1>4 DEF Finish
  <2> QED
    BY <2>0, <2>1, <2>2, <2>3, <2>4, StopsKeep
<1> QED
  BY <1>1, <1>2, <1>3, <1>4

\* The user's processes fork and exit; the gateway removes the container.
LEMMA OthersKeep ==
  ASSUME ExecutorInv, Teardown \/ \E p \in Pids : Fork(p) \/ Exit(p)
  PROVE  ExecutorInv'
<1>0. ExecutorType /\ JobsKept /\ TreeKept /\ GroupKept /\ ResidualKept /\ FilesKept
  BY DEF ExecutorInv
<1>1. ASSUME NEW p \in Pids, Exit(p) PROVE ExecutorInv'
  BY <1>1, EndKeeps DEF Exit
<1>2. ASSUME NEW p \in Pids, Fork(p) PROVE ExecutorInv'
  <2>1. PICK q \in Pids, inGroup \in BOOLEAN, pipe \in BOOLEAN, deaf \in BOOLEAN :
          /\ proc[q].state = "none" /\ (inGroup => proc[p].inGroup)
          /\ proc' = [proc EXCEPT ![q] = Process(proc[p].job, p, inGroup, pipe, deaf)]
    BY <1>2 DEF Fork, NewPid
  <2> DEFINE r == Process(proc[p].job, p, inGroup, pipe, deaf)
  <2>2. proc[p].job \in 0..MaxJobs
    BY <1>0 DEF ExecutorType, Processes
  <2>3. r \in Processes /\ r.state = "running" /\ r.parent = p /\ r.job = proc[p].job /\ r.inGroup = inGroup
    BY <2>2 DEF Process, Processes
  <2>4. proc' = [proc EXCEPT ![q] = r]
    BY <2>1
  <2> HIDE DEF r
  <2>5. /\ Running(p) /\ install \in {"done", "failed"}
        /\ UNCHANGED <<pc, job, lang, main, output, install, ended, residual, files, result, outlived>>
    BY <1>0, <1>2 DEF Fork, tools, ExecutorType
  <2>6. r.job \in outlived \/ (pc \in Busy /\ r.job = job)
    BY <1>0, <2>3, <2>5 DEF JobsKept
  <2>7. r.inGroup => \E s \in Pids : Running(s) /\ proc[s].inGroup /\ proc[s].job = r.job
    BY <2>1, <2>3, <2>5
  <2> QED
    BY <2>1, <2>3, <2>4, <2>5, <2>6, <2>7, BornKeeps
<1>3. CASE Teardown
  <2>1. /\ pc' = "down" /\ proc' = [p \in Pids |-> NoProcess] /\ output' = [n \in Names |-> NoFile]
        /\ lang' = "python" /\ main' = 0 /\ install' = "done" /\ ended' = "no"
        /\ residual' = {} /\ files' = {}
        /\ UNCHANGED <<job, result, outlived>> /\ pc # "idle"
    BY <1>3 DEF Teardown, Forgotten
  <2>2. pc' \in Steps /\ pc' \notin Busy /\ pc' \notin Killed
    BY <2>1 DEF Steps, Busy, Killed, Spawned
  <2>3. proc' \in [Pids -> Processes] /\ \A p \in Pids : proc'[p] = NoProcess
    BY <2>1, NoProcessIs
  <2>4. NoFile.by \in 0..MaxJobs
    BY ExecutorAssumption DEF NoFile
  <2>5. ExecutorType'
    BY <1>0, <2>1, <2>2, <2>3, <2>4 DEF ExecutorType
  <2>6. JobsKept'
    BY <1>0, <2>1, <2>3, NoProcessIs DEF JobsKept, Running
  <2>7. TreeKept'
    <3>1. Tini # Exec /\ Tini \notin Pids
      BY PidsAre DEF Tini, Exec
    <3> QED
      BY <2>1, <2>2, <2>3, <3>1, NoProcessIs DEF TreeKept, Running
  <2>8. GroupKept' /\ ResidualKept'
    BY <2>1 DEF GroupKept, ResidualKept
  <2>9. FilesKept'
    BY <1>0, <2>1, <2>2 DEF FilesKept, FilesOwn
  <2> QED
    BY <2>5, <2>6, <2>7, <2>8, <2>9 DEF ExecutorInv
<1> QED
  BY <1>1, <1>2, <1>3

LEMMA ExecutorStarts == ExecutorInit => ExecutorInv
<1> SUFFICES ASSUME ExecutorInit PROVE ExecutorInv
  OBVIOUS
<1>1. /\ pc = "idle" /\ job = 0 /\ lang = "python" /\ main = 0 /\ residual = {} /\ files = {}
      /\ install = "done" /\ ended = "no" /\ result = NoResult /\ outlived = {}
      /\ proc = [p \in Pids |-> NoProcess] /\ output = [n \in Names |-> NoFile]
  BY DEF ExecutorInit
<1>2. proc \in [Pids -> Processes] /\ \A p \in Pids : proc[p] = NoProcess
  BY <1>1, NoProcessIs
<1>3. NoFile.by \in 0..MaxJobs /\ 0 \in 0..MaxJobs
  BY ExecutorAssumption DEF NoFile
<1>4. NoResult.files = {} /\ NoResult.error \in Errors /\ pc \in Steps /\ pc \notin Killed
  BY <1>1 DEF NoResult, Errors, Steps, Killed, Spawned
<1>5. ExecutorType
  BY <1>1, <1>2, <1>3, <1>4 DEF ExecutorType
<1>6. TreeKept
  <2>1. Tini # Exec /\ Tini \notin Pids
    BY PidsAre DEF Tini, Exec
  <2> QED
    BY <1>1, <1>2, <1>4, <2>1, NoProcessIs DEF TreeKept, Running
<1>7. JobsKept /\ GroupKept
  BY <1>1, <1>2, NoProcessIs DEF JobsKept, GroupKept, Running
<1>8. ResidualKept /\ FilesKept
  BY <1>1, <1>4 DEF ResidualKept, FilesKept, FilesOwn, Busy
<1> QED
  BY <1>5, <1>6, <1>7, <1>8 DEF ExecutorInv

LEMMA ExecutorSteps == ExecutorInv /\ [ExecutorNext]_executorVars => ExecutorInv'
<1> SUFFICES ASSUME ExecutorInv, [ExecutorNext]_executorVars PROVE ExecutorInv'
  OBVIOUS
<1>1. CASE UNCHANGED executorVars
  BY <1>1 DEF executorVars, tools, ExecutorInv, ExecutorType, JobsKept, TreeKept, GroupKept, ResidualKept,
              FilesKept, FilesOwn, Own, Running
<1>2. CASE Begin
  BY <1>2, BeginKeeps
<1>3. CASE ExecutorStep
  BY <1>3, ProgramStartsKeeps, ReadingOverKeeps, TerminationKeeps, CollectionKeeps DEF ExecutorStep
<1>4. CASE Teardown \/ \E p \in Pids : Fork(p) \/ Exit(p)
  BY <1>4, OthersKeep
<1> QED
  BY <1>1, <1>2, <1>3, <1>4 DEF ExecutorNext

LEMMA ExecutorInvariant == Spec => []ExecutorInv
<1>1. Init => ExecutorInv
  BY ExecutorStarts DEF Init
<1>2. ExecutorInv /\ [Next]_sandboxVars => ExecutorInv'
  BY ProgramMoves, ExecutorSteps
<1> QED
  BY <1>1, <1>2, PTL DEF Spec

LEMMA ExecutorInvMeans == ExecutorInv => Contained /\ FilesOwn
<1> SUFFICES ASSUME ExecutorInv PROVE Contained /\ FilesOwn
  OBVIOUS
<1>1. GroupDead
  BY DEF ExecutorInv, GroupKept, GroupDead
<1>2. ResidualDead
  BY DEF ExecutorInv, ResidualKept, ResidualDead, Running
<1> QED
  BY <1>1, <1>2 DEF Contained, ExecutorInv, FilesKept

\* However the user's processes fork, leave the group and ignore SIGTERM, none of the
\* program's group outlives its execution unless a Python program ended by itself, and
\* what terminate_residual_processes finds is the dead program only.
THEOREM ContainedHolds == Spec => []Contained
BY ExecutorInvariant, ExecutorInvMeans, PTL

\* A result carries no file of another execution, unless that one left a process behind
\* or a file that clear_output_dir cannot remove.
THEOREM FilesOwnHolds == Spec => []FilesOwn
BY ExecutorInvariant, ExecutorInvMeans, PTL

\* Every variable of the three programs keeps its type.
THEOREM SandboxTypeHolds == Spec => []SandboxType
<1>1. ExecutorInv /\ LatexInv /\ SlidesInv => SandboxType
  BY DEF SandboxType, ExecutorInv, LatexInv, SlidesInv
<1> QED
  BY <1>1, ExecutorInvariant, LatexInvariant, SlidesInvariant, PTL

-----------------------------------------------------------------------------
(***************************************************************************)
(* The limits of what a result carries.                                    *)
(***************************************************************************)
\* TotalSize is what OutputBounded compares with MAX_TOTAL_FILES_SIZE: the fold of the
\* community modules, a function on the subsets of a set of files that takes one file at
\* a time.
TotalSize(s) == MapThenSumSet(LAMBDA f : f.size, s)
First(s) == CHOOSE f \in s : TRUE
Sums(g, u) == g = [s \in SUBSET u |-> IF s = {} THEN 0 ELSE First(s).size + g[s \ {First(s)}]]

\* Of some subsets of a finite set one has no smaller one among them.
LEMMA SubsetMin ==
  ASSUME NEW u, IsFiniteSet(u), NEW T, T \subseteq SUBSET u, T # {}
  PROVE  \E s \in T : \A t \in T : t \subseteq s => t = s
<1> DEFINE R == StrictSubsetOrdering(u)
<1>1. IsWellFoundedOn(R, FiniteSubsetsOf(u))
  BY FS_StrictSubsetOrderingWellFounded
<1>2. T \subseteq FiniteSubsetsOf(u)
  BY FS_Subset DEF FiniteSubsetsOf
<1>3. \A s, t \in SUBSET u : t \subseteq s /\ t # s => <<t, s>> \in R
  BY DEF StrictSubsetOrdering
<1> HIDE DEF R
<1>4. PICK s \in T : \A t \in T : ~ (<<t, s>> \in R)
  BY <1>1, <1>2, WFMin
<1> QED
  BY <1>3, <1>4

\* Two such functions agree where both are defined.
LEMMA SumsAgree ==
  ASSUME NEW u, IsFiniteSet(u), NEW v, NEW g, NEW h, Sums(g, u), Sums(h, v)
  PROVE  \A s \in SUBSET (u \cap v) : g[s] = h[s]
<1> DEFINE T == {s \in SUBSET (u \cap v) : g[s] # h[s]}
<1> SUFFICES ASSUME T # {} PROVE FALSE
  OBVIOUS
<1>1. PICK s \in T : \A t \in T : t \subseteq s => t = s
  <2>1. T \subseteq SUBSET u
    OBVIOUS
  <2> HIDE DEF T
  <2> QED
    BY <2>1, SubsetMin
<1>2. s \in SUBSET u /\ s \in SUBSET v /\ g[s] # h[s]
  OBVIOUS
<1>3. /\ g[s] = IF s = {} THEN 0 ELSE First(s).size + g[s \ {First(s)}]
      /\ h[s] = IF s = {} THEN 0 ELSE First(s).size + h[s \ {First(s)}]
  BY <1>2 DEF Sums
<1>4. s # {} /\ First(s) \in s
  BY <1>2, <1>3 DEF First
<1>5. g[s \ {First(s)}] = h[s \ {First(s)}]
  BY <1>1, <1>4
<1> QED
  BY <1>2, <1>3, <1>5

\* The fold is such a function, for a finite set.
LEMMA TotalSizeIs ==
  ASSUME NEW u, IsFiniteSet(u)
  PROVE  TotalSize(u) = IF u = {} THEN 0 ELSE First(u).size + TotalSize(u \ {First(u)})
<1> DEFINE G(s) == CHOOSE g : Sums(g, s)
           T == {s \in SUBSET u : ~ \E g : Sums(g, s)}
<1>1. \A s : TotalSize(s) = G(s)[s]
  BY DEF TotalSize, MapThenSumSet, MapThenFoldSet, First, Sums
<1> HIDE DEF G
<1>2. \A s : IsFiniteSet(s) /\ (\E g : Sums(g, s)) => Sums(G(s), s)
  BY DEF G
\* where the fold exists it is one function
<1>3. ASSUME NEW s \in SUBSET u, \A t \in SUBSET s : t # s => \E g : Sums(g, t),
             NEW t \in SUBSET s, t # s
      PROVE  TotalSize(t) = IF t = {} THEN 0 ELSE First(t).size + TotalSize(t \ {First(t)})
  <2>1. IsFiniteSet(t)
    BY FS_Subset
  <2>2. Sums(G(t), t)
    BY <1>2, <1>3, <2>1
  <2>3. G(t)[t] = IF t = {} THEN 0 ELSE First(t).size + G(t)[t \ {First(t)}]
    BY <2>2 DEF Sums
  <2>4. CASE t # {}
    <3> DEFINE r == t \ {First(t)}
    <3>1. r \subseteq t /\ r # s /\ r \in SUBSET s
      BY <1>3
    <3>2. IsFiniteSet(r)
      BY <2>1, <3>1, FS_Subset
    <3>3. Sums(G(r), r)
      BY <1>2, <1>3, <3>1, <3>2
    <3> HIDE DEF r
    <3>4. G(t)[r] = G(r)[r]
      BY <2>1, <2>2, <3>1, <3>3, SumsAgree
    <3> QED
      BY <1>1, <2>3, <2>4, <3>4 DEF r
  <2> QED
    BY <1>1, <2>3, <2>4
<1>4. ASSUME NEW s \in SUBSET u, \A t \in SUBSET s : t # s => \E g : Sums(g, t)
      PROVE  \E g : Sums(g, s)
  <2> DEFINE g == [t \in SUBSET s |-> IF t = {} THEN 0 ELSE First(t).size + TotalSize(t \ {First(t)})]
  <2>1. \A t \in SUBSET s : t # {} => First(t) \in t
    BY DEF First
  <2>2. \A t \in SUBSET s : t # s => g[t] = TotalSize(t)
    BY <1>3, <1>4
  <2>3. \A t \in SUBSET s : t # {} => g[t \ {First(t)}] = TotalSize(t \ {First(t)})
    <3> TAKE t \in SUBSET s
    <3> HAVE t # {}
    <3>1. t \ {First(t)} \in SUBSET s /\ t \ {First(t)} # s
      BY <2>1
    <3> QED
      BY <2>2, <3>1
  <2>4. g = [t \in SUBSET s |-> IF t = {} THEN 0 ELSE First(t).size + g[t \ {First(t)}]]
    BY <2>3
  <2> QED
    BY <2>4 DEF Sums
<1>5. T = {}
  <2> SUFFICES ASSUME T # {} PROVE FALSE
    OBVIOUS
  <2>1. PICK s \in T : \A t \in T : t \subseteq s => t = s
    <3>1. T \subseteq SUBSET u
      OBVIOUS
    <3> HIDE DEF T
    <3> QED
      BY <3>1, SubsetMin
  <2>2. s \in SUBSET u /\ ~ \E g : Sums(g, s)
    OBVIOUS
  <2>3. ASSUME NEW t \in SUBSET s, t # s PROVE \E g : Sums(g, t)
    <3>1. t \in SUBSET u /\ t \notin T
      BY <2>1, <2>2, <2>3
    <3> QED
      BY <3>1
  <2> QED
    BY <1>4, <2>2, <2>3
<1>6. \A s \in SUBSET u : \E g : Sums(g, s)
  BY <1>5
<1>7. Sums(G(u), u)
  BY <1>2, <1>6
<1>8. G(u)[u] = IF u = {} THEN 0 ELSE First(u).size + G(u)[u \ {First(u)}]
  BY <1>7 DEF Sums
<1>9. CASE u # {}
  <2> DEFINE r == u \ {First(u)}
  <2>1. IsFiniteSet(r) /\ r \in SUBSET u
    BY FS_Subset
  <2>2. Sums(G(r), r)
    BY <1>2, <1>6, <2>1
  <2> HIDE DEF r
  <2>3. G(u)[r] = G(r)[r]
    BY <1>7, <2>1, <2>2, SumsAgree
  <2> QED
    BY <1>1, <1>8, <1>9, <2>3 DEF r
<1> QED
  BY <1>1, <1>8, <1>9

\* A file more, in whatever order the fold takes them, is its size more.
LEMMA OneFileMore ==
  ASSUME NEW u, IsFiniteSet(u), \A f \in u : f.size \in Nat
  PROVE  /\ TotalSize(u) \in Nat
         /\ \A f \in u : TotalSize(u) = f.size + TotalSize(u \ {f})
<1> DEFINE Good(s) == TotalSize(s) \in Nat /\ \A f \in s : TotalSize(s) = f.size + TotalSize(s \ {f})
           T == {s \in SUBSET u : ~Good(s)}
<1> SUFFICES ASSUME T # {} PROVE FALSE
  OBVIOUS
<1>1. PICK s \in T : \A t \in T : t \subseteq s => t = s
  <2>1. T \subseteq SUBSET u
    OBVIOUS
  <2> HIDE DEF T
  <2> QED
    BY <2>1, SubsetMin
<1>2. s \in SUBSET u /\ ~Good(s) /\ \A t \in SUBSET s : t # s => Good(t)
  BY <1>1
<1>3. IsFiniteSet(s)
  BY <1>2, FS_Subset
<1>4. TotalSize(s) = IF s = {} THEN 0 ELSE First(s).size + TotalSize(s \ {First(s)})
  BY <1>3, TotalSizeIs
<1>5. s # {}
  BY <1>2, <1>4
<1> DEFINE c == First(s)
<1>6. c \in s /\ c.size \in Nat
  BY <1>2, <1>5 DEF First
<1>7. Good(s \ {c})
  BY <1>2, <1>6
<1>8. TotalSize(s) = c.size + TotalSize(s \ {c})
  BY <1>4, <1>5
<1> HIDE DEF c
<1>9. TotalSize(s) \in Nat
  BY <1>6, <1>7, <1>8
<1>10. ASSUME NEW f \in s PROVE TotalSize(s) = f.size + TotalSize(s \ {f})
  <2>1. CASE f = c
    BY <1>8, <2>1
  <2>2. CASE f # c
    <3>1. f.size \in Nat
      BY <1>2
    <3>2. Good(s \ {f}) /\ Good((s \ {c}) \ {f})
      BY <1>2, <1>6
    <3>3. TotalSize(s \ {c}) = f.size + TotalSize((s \ {c}) \ {f})
      BY <1>7, <2>2
    <3>4. TotalSize(s \ {f}) = c.size + TotalSize((s \ {f}) \ {c})
      BY <1>6, <2>2, <3>2
    <3>5. (s \ {f}) \ {c} = (s \ {c}) \ {f}
      OBVIOUS
    <3>6. TotalSize((s \ {c}) \ {f}) \in Nat
      BY <3>2
    <3> DEFINE n == TotalSize((s \ {c}) \ {f})
    <3>7. /\ TotalSize(s) = c.size + (f.size + n)
          /\ TotalSize(s \ {f}) = c.size + n
      BY <1>8, <3>3, <3>4, <3>5
    <3> HIDE DEF n
    <3> QED
      BY <1>6, <3>1, <3>6, <3>7 DEF n
  <2> QED
    BY <2>1, <2>2
<1> QED
  BY <1>2, <1>9, <1>10

\* What is sent, file by file, when read_bytes finds what now says.
FileOf(n, now) == [name |-> n, size |-> output[n].size, held |-> now[n].size, by |-> now[n].by,
                   removal |-> now[n].removal]
SentUpTo(m, now) == {FileOf(n, now) : n \in {i \in Sent : i <= m}}

\* The recursion of Used, with the test for a file that fits, is that of the code's loop.
LEMMA UsedIs ==
  /\ Used[0] = 0
  /\ \A n \in Names : Used[n] = Used[n - 1] + IF Present(n) /\ ~output[n].link /\ Fits(n, Used[n - 1])
                                              THEN output[n].size ELSE 0
<1> DEFINE N == Cardinality(Names)
           Counted(n, used) == used + IF Present(n) /\ ~output[n].link /\ Fits(n, used)
                                    THEN output[n].size ELSE 0
           Follows(f, n) == f[n] = IF n = 0 THEN 0 ELSE Counted(n, f[n - 1])
           F(f) == f = [n \in 0..N |-> IF n = 0 THEN 0 ELSE Counted(n, f[n - 1])]
           UpTo(m) == \E f : f = [n \in 0..N |-> f[n]] /\ \A n \in 0..m : Follows(f, n)
           T == {m \in 0..N : ~UpTo(m)}
           u == CHOOSE f : F(f)
<1>0. N \in Nat /\ Names = 1..N
  BY FilesAssumption, FS_CardinalityType
<1>1. Used = u
  BY DEF Used
<1> HIDE DEF N, Counted
<1>2. T = {}
  <2> SUFFICES ASSUME T # {} PROVE FALSE
    OBVIOUS
  <2>1. PICK m \in T : \A k \in T : m <= k
    <3>1. T \subseteq Nat
      BY <1>0
    <3> HIDE DEF T
    <3> QED
      BY <3>1, NatMin
  <2>2. m \in 0..N /\ ~UpTo(m)
    OBVIOUS
  <2>3. m # 0
    <3> SUFFICES ASSUME m = 0 PROVE UpTo(m)
      BY <2>2
    <3> DEFINE f == [n \in 0..N |-> 0]
    <3>1. f = [n \in 0..N |-> f[n]]
      OBVIOUS
    <3>2. \A n \in 0..m : f[n] = 0 /\ n = 0
      BY <1>0
    <3> HIDE DEF f
    <3>3. \A n \in 0..m : Follows(f, n)
      BY <3>2
    <3> QED
      BY <3>1, <3>3
  <2>4. m - 1 \in 0..N /\ ~(m <= m - 1)
    BY <1>0, <2>2, <2>3
  <2>5. UpTo(m - 1)
    BY <2>1, <2>4
  <2>6. PICK f : f = [n \in 0..N |-> f[n]] /\ \A n \in 0..(m - 1) : Follows(f, n)
    BY <2>5
  <2> DEFINE g == [n \in 0..N |-> IF n = m THEN Counted(m, f[m - 1]) ELSE f[n]]
  <2>7. g = [n \in 0..N |-> g[n]]
    OBVIOUS
  <2>8. g[m] = Counted(m, f[m - 1]) /\ g[m - 1] = f[m - 1]
    BY <1>0, <2>2, <2>4
  <2>9. \A n \in 0..(m - 1) : g[n] = f[n] /\ (n # 0 => g[n - 1] = f[n - 1])
    BY <1>0, <2>2
  <2> HIDE DEF g
  <2>10. \A n \in 0..m : Follows(g, n)
    <3> TAKE n \in 0..m
    <3>1. CASE n = m
      BY <2>3, <2>8, <3>1
    <3>2. CASE n # m
      <4>1. n \in 0..(m - 1)
        BY <1>0, <2>2, <3>2
      <4> QED
        BY <2>6, <2>9, <4>1
    <3> QED
      BY <3>1, <3>2
  <2> QED
    BY <2>2, <2>7, <2>10
<1>3. \E f : F(f)
  <2>1. UpTo(N)
    BY <1>0, <1>2
  <2>2. PICK f : f = [n \in 0..N |-> f[n]] /\ \A n \in 0..N : Follows(f, n)
    BY <2>1
  <2>3. F(f)
    BY <2>2
  <2> QED
    BY <2>3
<1>4. F(u)
  BY <1>3
<1> HIDE DEF u
<1>5. \A n \in 0..N : Follows(u, n)
  BY <1>4
<1>6. u[0] = 0 /\ \A n \in Names : u[n] = Counted(n, u[n - 1])
  BY <1>0, <1>5
<1> QED
  BY <1>1, <1>6 DEF Counted

\* What is sent is what Used has counted, and that stays within the limit.
LEMMA UsedIsSent ==
  ASSUME NEW now, \A n \in Names : output[n].size \in Nat
  PROVE  \A m \in 0..Cardinality(Names) :
           Used[m] \in Nat /\ Used[m] <= MaxTotal /\ TotalSize(SentUpTo(m, now)) = Used[m]
<1> DEFINE N == Cardinality(Names)
           Good(m) == Used[m] \in Nat /\ Used[m] <= MaxTotal /\ TotalSize(SentUpTo(m, now)) = Used[m]
           T == {m \in 0..N : ~Good(m)}
<1>0. N \in Nat /\ Names = 1..N
  BY FilesAssumption, FS_CardinalityType
<1> HIDE DEF N
<1> SUFFICES ASSUME T # {} PROVE FALSE
  BY DEF N
<1>1. PICK m \in T : \A k \in T : m <= k
  <2>1. T \subseteq Nat
    BY <1>0
  <2> HIDE DEF T
  <2> QED
    BY <2>1, NatMin
<1>2. m \in 0..N /\ ~Good(m)
  OBVIOUS
<1>3. m # 0
  <2> SUFFICES ASSUME m = 0 PROVE Good(m)
    BY <1>2
  <2>1. SentUpTo(m, now) = {}
    BY <1>0 DEF SentUpTo, Sent
  <2>2. TotalSize({}) = 0
    BY TotalSizeIs, FS_EmptySet
  <2>3. Used[m] = 0 /\ MaxTotal \in Nat
    BY UsedIs, FilesAssumption
  <2> QED
    BY <2>1, <2>2, <2>3
<1>4. m \in Names /\ m - 1 \in 0..N /\ ~(m <= m - 1)
  BY <1>0, <1>2, <1>3
<1>5. Good(m - 1)
  BY <1>1, <1>4
<1>6. Used[m] = Used[m - 1] + IF Present(m) /\ ~output[m].link /\ Fits(m, Used[m - 1])
                              THEN output[m].size ELSE 0
  BY <1>4, UsedIs
<1>7. m \in Sent <=> Present(m) /\ ~output[m].link /\ Fits(m, Used[m - 1])
  BY <1>4 DEF Sent
<1>8. \A i \in Sent : i \in Nat /\ (i <= m <=> i <= m - 1 \/ i = m)
  BY <1>0, <1>4 DEF Sent
<1>9. CASE m \notin Sent
  <2>1. SentUpTo(m, now) = SentUpTo(m - 1, now)
    BY <1>8, <1>9 DEF SentUpTo
  <2> QED
    BY <1>2, <1>5, <1>6, <1>7, <1>9, <2>1
<1>10. CASE m \in Sent
  <2> DEFINE s == SentUpTo(m, now)
             f == FileOf(m, now)
  <2>1. f \in s /\ f.size = output[m].size
    BY <1>0, <1>4, <1>10 DEF SentUpTo, FileOf
  <2>2. s \ {f} = SentUpTo(m - 1, now)
    <3>1. \A i \in Sent : FileOf(i, now) = f => i = m
      BY DEF FileOf
    <3>2. \A i \in Sent : i <= m - 1 => i # m
      BY <1>4, <1>8
    <3> QED
      BY <1>8, <3>1, <3>2 DEF SentUpTo
  <2>3. IsFiniteSet(s)
    <3>1. IsFiniteSet({i \in Sent : i <= m})
      BY FilesAssumption, FS_Subset DEF Sent
    <3> DEFINE I == {i \in Sent : i <= m}
               file == [n \in I |-> FileOf(n, now)]
    <3>2. IsFiniteSet({file[n] : n \in I})
      <4>1. file \in [I -> {file[n] : n \in I}]
        OBVIOUS
      <4>2. file \in Surjection(I, {file[n] : n \in I})
        BY <4>1 DEF Surjection
      <4> HIDE DEF file, I
      <4> QED
        BY <3>1, <4>2, FS_Surjection DEF I
    <3>3. {file[n] : n \in I} = s
      BY DEF SentUpTo
    <3> HIDE DEF s
    <3> QED
      BY <3>2, <3>3
  <2>4. \A g \in s : g.size \in Nat
    BY DEF SentUpTo, FileOf, Sent
  <2>5. TotalSize(s) = f.size + TotalSize(s \ {f})
    <3> HIDE DEF s, f
    <3> QED
      BY <2>1, <2>3, <2>4, OneFileMore
  <2>6. TotalSize(SentUpTo(m, now)) = Used[m - 1] + output[m].size
    <3>1. output[m].size \in Nat /\ Used[m - 1] \in Nat /\ TotalSize(s \ {f}) = Used[m - 1]
      BY <1>4, <1>5, <2>2
    <3>2. TotalSize(s) = output[m].size + Used[m - 1]
      BY <2>1, <2>5, <3>1
    <3> QED
      BY <3>1, <3>2
  <2>7. Used[m] = Used[m - 1] + output[m].size /\ Used[m] <= MaxTotal
    BY <1>6, <1>7, <1>10 DEF Fits
  <2> QED
    BY <1>2, <1>4, <1>5, <2>6, <2>7
<1> QED
  BY <1>9, <1>10

\* Sizes are numbers; what has been collected, and what was sent, counts for no more than
\* the limits, and holds what it counts for unless a process left behind wrote it.
Within(s) == (\A f \in s : f.size <= MaxFile) /\ TotalSize(s) <= MaxTotal
Honest(s) == \A f \in s : f.held = f.size \/ f.by \in outlived

BoundKept ==
  /\ \A n \in Names : output[n].size \in Nat
  /\ Within(files) /\ Within(result.files)
  /\ Honest(files) /\ Honest(result.files)

LEMMA NothingIsWithin == Within({}) /\ NoFile.size \in Nat /\ NoResult.files = {}
<1>1. TotalSize({}) = 0
  BY TotalSizeIs, FS_EmptySet
<1>2. MaxTotal \in Nat
  BY FilesAssumption
<1> QED
  BY <1>1, <1>2 DEF Within, NoFile, NoResult

LEMMA SentIsWithin ==
  ASSUME NEW now, \A n \in Names : output[n].size \in Nat
  PROVE  Within({FileOf(n, now) : n \in Sent})
<1>1. Cardinality(Names) \in Nat /\ Names = 1..Cardinality(Names)
  BY FilesAssumption, FS_CardinalityType
<1>2. \A n \in Sent : n <= Cardinality(Names)
  BY <1>1 DEF Sent
<1>3. SentUpTo(Cardinality(Names), now) = {FileOf(n, now) : n \in Sent}
  BY <1>2 DEF SentUpTo
<1>4. TotalSize({FileOf(n, now) : n \in Sent}) <= MaxTotal
  <2> DEFINE m == Cardinality(Names)
  <2>1. m \in 0..m
    BY <1>1
  <2>2. Used[m] <= MaxTotal /\ TotalSize(SentUpTo(m, now)) = Used[m]
    BY <2>1, UsedIsSent
  <2> QED
    BY <1>3, <2>2
<1>5. \A n \in Sent : output[n].size <= MaxFile
  BY DEF Sent, Fits
<1>6. \A f \in {FileOf(n, now) : n \in Sent} : f.size <= MaxFile
  BY <1>5 DEF FileOf
<1> QED
  BY <1>4, <1>6 DEF Within

LEMMA BoundSteps == BoundKept /\ [ExecutorNext]_executorVars => BoundKept'
<1> SUFFICES ASSUME BoundKept, [ExecutorNext]_executorVars PROVE BoundKept'
  OBVIOUS
<1>1. \A n \in Names : output[n].size \in Nat /\ Cleared[n].size \in Nat
  BY NothingIsWithin DEF BoundKept, Cleared
<1>2. Within(files) /\ Within(result.files) /\ Honest(files) /\ Honest(result.files)
  BY DEF BoundKept
\* the executor exits, with the files it has collected or with none
<1>3. ASSUME NEW error, NEW sent \in {{}, files}, NEW j, Stop(j, error, sent),
             \A n \in Names : output'[n].size \in Nat
      PROVE  BoundKept'
  <2>1. files' = {} /\ result'.files = sent /\ outlived \subseteq outlived'
    BY <1>3 DEF Stop, Forgotten
  <2>2. Within(files') /\ Within(result'.files)
    BY <1>2, <1>3, <2>1, NothingIsWithin
  <2>3. \A n \in Names : output'[n].size \in Nat
    BY <1>1, <1>3
  <2>4. Honest(files)' /\ Honest(result.files)'
    BY <1>2, <1>3, <2>1 DEF Honest
  <2> QED
    BY <2>2, <2>3, <2>4 DEF BoundKept, Within
\* neither collected nor sent
<1>4. ASSUME UNCHANGED <<files, result, outlived>>, \A n \in Names : output'[n].size \in Nat
      PROVE  BoundKept'
  BY <1>2, <1>4 DEF BoundKept, Within, Honest
<1>5. CASE UNCHANGED executorVars
  BY <1>1, <1>4, <1>5 DEF executorVars, tools
<1>6. CASE Begin
  <2>1. CASE ClearRaises
    BY <1>1, <1>3, <1>6, <2>1 DEF Begin
  <2>2. CASE ~ClearRaises
    <3>1. output' = Cleared /\ result' = NoResult /\ files' = files /\ outlived' = outlived
      BY <1>6, <2>2 DEF Begin, SetupCleared, tools
    <3>2. Within(files') /\ Within(result'.files)
      BY <1>2, <3>1, NothingIsWithin
    <3>3. Honest(files)' /\ Honest(result.files)'
      BY <1>2, <3>1, NothingIsWithin DEF Honest
    <3> QED
      BY <1>1, <3>1, <3>2, <3>3 DEF BoundKept, Within
  <2> QED
    BY <2>1, <2>2
<1>7. CASE Install \/ Communicate \/ Timeout \/ ListResidual
  BY <1>1, <1>4, <1>7 DEF Install, Communicate, Timeout, ListResidual
<1>8. CASE Term \/ Kill \/ Drain \/ TermResidual \/ KillResidual
  BY <1>1, <1>4, <1>8 DEF Term, Kill, Drain, TermResidual, KillResidual, tools
<1>9. CASE Decode \/ Spawn \/ DecodeTimedOut
  <2>1. output' = output
    BY <1>9 DEF Decode, Spawn, DecodeTimedOut
  <2>2. (\E error : Stop(job, error, {})) \/ UNCHANGED <<files, result, outlived>>
    BY <1>9 DEF Decode, Spawn, DecodeTimedOut, tools
  <2> QED
    BY <1>1, <1>3, <1>4, <2>1, <2>2
\* somebody writes
<1>10. ASSUME NEW ns, NEW js, Overwrite(ns, js), NEW n \in Names PROVE output'[n].size \in Nat
  <2>1. \A k \in Kinds, j \in js : File(k, j).size \in Nat
    BY FilesAssumption DEF File
  <2> QED
    BY <1>1, <1>10, <2>1, NothingIsWithin, OverwriteIs
<1>11. CASE Wrote
  BY <1>4, <1>10, <1>11 DEF Wrote, tools
<1>12. CASE Collect
  <2>1. \A n \in Names : output'[n].size \in Nat
    BY <1>1, <1>10, <1>12 DEF Collect
  <2>2. CASE ~ \A n \in Sent : output'[n].readable
    <3>1. Stop(job, "NoResult", {})
      BY <1>12, <2>2 DEF Collect
    <3> QED
      BY <1>3, <2>1, <3>1
  <2>3. CASE \A n \in Sent : output'[n].readable
    <3>1. /\ files' = {FileOf(n, output') : n \in Sent} /\ result' = result
          /\ outlived' = outlived \cup Survivors
      BY <1>12, <2>3 DEF Collect, FileOf
    <3>2. Within(files')
      <4>1. \A now : Within({FileOf(n, now) : n \in Sent})
        BY <1>1, SentIsWithin
      <4> QED
        BY <3>1, <4>1
    <3>3. \A n \in Sent : output'[n].size = output[n].size \/ output'[n].by \in outlived'
      <4>1. \A n \in Sent : n \in Names /\ output'[n] # NoFile
        BY <2>3 DEF Sent, NoFile
      <4>2. \A k \in Kinds, j \in Survivors : File(k, j).by \in outlived'
        BY <3>1 DEF File
      <4> QED
        BY <1>12, <4>1, <4>2, OverwriteIs DEF Collect
    <3>4. Honest(files)'
      BY <3>1, <3>3 DEF Honest, FileOf
    <3>5. Honest(result.files)'
      BY <1>2, <3>1 DEF Honest
    <3> QED
      BY <1>2, <2>1, <3>1, <3>2, <3>4, <3>5 DEF BoundKept, Within
  <2> QED
    BY <2>2, <2>3
<1>13. CASE Finish
  BY <1>1, <1>3, <1>13 DEF Finish
<1>14. CASE \E p \in Pids : Fork(p) \/ Exit(p)
  BY <1>1, <1>4, <1>14 DEF Fork, Exit, tools
<1>15. CASE Teardown
  <2>1. files' = {} /\ UNCHANGED <<result, outlived>> /\ \A n \in Names : output'[n] = NoFile
    BY <1>15 DEF Teardown, Forgotten
  <2> QED
    BY <1>2, <2>1, NothingIsWithin DEF BoundKept, Within, Honest
<1> QED
  BY <1>5, <1>6, <1>7, <1>8, <1>9, <1>11, <1>13, <1>14, <1>15, <1>12 DEF ExecutorNext, ExecutorStep

LEMMA BoundStarts == ExecutorInit => BoundKept
<1> SUFFICES ASSUME ExecutorInit PROVE BoundKept
  OBVIOUS
<1>1. files = {} /\ result.files = {} /\ \A n \in Names : output[n] = NoFile
  BY NothingIsWithin DEF ExecutorInit
<1> QED
  BY <1>1, NothingIsWithin DEF BoundKept, Honest

LEMMA BoundInvariant == Spec => []BoundKept
<1>1. Init => BoundKept
  BY BoundStarts DEF Init
<1>2. BoundKept /\ [Next]_sandboxVars => BoundKept'
  BY ProgramMoves, BoundSteps
<1> QED
  BY <1>1, <1>2, PTL DEF Spec

\* The files a result carries count for no more than MAX_FILE_SIZE and
\* MAX_TOTAL_FILES_SIZE, whatever they are, and hold what they count for; only a process
\* that outlived its execution can make one hold more, by writing to it after stat.
THEOREM OutputBoundedHolds == Spec => []OutputBounded
<1>1. BoundKept => OutputBounded
  BY DEF BoundKept, Within, Honest, TotalSize, OutputBounded
<1> QED
  BY <1>1, BoundInvariant, PTL
===============================================================================
