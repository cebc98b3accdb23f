------------------------------ MODULE Executor ------------------------------
(***************************************************************************)
(* sandbox/executor.py: the executions of one session, one after another   *)
(* in one container, with the processes the user's code starts.            *)
(*                                                                         *)
(* The executor runs the user's program as the leader of a process group   *)
(* of its own, reads its output through pipes until every process that     *)
(* inherited them has closed them, kills the group when time is up, then   *)
(* looks for descendants, collects /tmp/output, clears it and prints one   *)
(* result.  The user's processes run all the while, between executions,    *)
(* too, if they were not killed: /tmp/output is one directory for all      *)
(* executions of the session.  A step is what the executor does between    *)
(* two moments at which those processes can make a difference.             *)
(*                                                                         *)
(* Processes other than the program itself are reaped as they die, by      *)
(* their parent or by tini, which adopts orphans.                          *)
(***************************************************************************)
EXTENDS Integers, FiniteSets, FiniteSetsExt

CONSTANTS
  MaxJobs,    \* bound on the executions of the session
  MaxPids,    \* bound on the processes the user's code starts
  Names,      \* file names in /tmp/output, 1..n in the order of sorted()
  Kinds,      \* what a file may be: size, link, readable, and what removing it does
  MaxFile,    \* MAX_FILE_SIZE
  MaxTotal    \* MAX_TOTAL_FILES_SIZE

ASSUME ExecutorAssumption == MaxJobs \in Nat /\ MaxPids \in Nat
ASSUME FilesAssumption ==
  /\ IsFiniteSet(Names) /\ Names = 1..Cardinality(Names)
  /\ \A k \in Kinds : k.size \in Nat
  /\ MaxFile \in Nat /\ MaxTotal \in Nat

VARIABLES
  pc,         \* where the executor is
  job,        \* the number of the execution
  lang,       \* --lang
  main,       \* the process of the user's program
  proc,       \* the user's processes
  output,     \* /tmp/output: kind of each file, and the execution it comes from
  install,    \* how install_pip_packages ended
  ended,      \* how the user's program ended
  residual,   \* residual_pids
  files,      \* collect_output_files
  result,     \* the last execution and what it printed
  outlived    \* executions of which a process was alive when their output was read,
              \* or when they ended (history)

tools == <<install, ended, residual, files>>
executorVars == <<pc, job, lang, main, proc, output, tools, result, outlived>>

Pids == 1..MaxPids
Exec == 0        \* the executor, as a parent
Tini == -1       \* tini, as a parent
NoFile == [size |-> 0, by |-> 0, link |-> FALSE, readable |-> FALSE, removal |-> "done"]
File(k, j) == [size |-> k.size, by |-> j, link |-> k.link,
               readable |-> k.readable, removal |-> k.removal]

Running(p) == proc[p].state = "running"
Alive(p) == proc[p].state \in {"running", "zombie"}    \* kill(p, 0) succeeds
\* the process group of this execution's program
Group == {p \in Pids : Alive(p) /\ proc[p].job = job /\ proc[p].inGroup}
\* who can still write to the pipes the executor reads
Holders == {p \in Pids : Running(p) /\ proc[p].job = job /\ proc[p].pipe}
NewPid(q) == proc[q].state = "none" /\ \A p \in 1..q - 1 : proc[p].state # "none"

Process(j, parent, inGroup, pipe, deaf) ==
  [state |-> "running", job |-> j, parent |-> parent, inGroup |-> inGroup,
   pipe |-> pipe, deaf |-> deaf]
NoProcess == [state |-> "none", job |-> 0, parent |-> Tini, inGroup |-> FALSE,
              pipe |-> FALSE, deaf |-> FALSE]

\* The processes of ps end: the executor's child, the program, waits for it to be reaped,
\* the children of all of them become tini's.
Ended(ps) ==
  [p \in Pids |->
     IF p \in ps /\ Running(p)
     THEN IF proc[p].parent = Exec THEN [proc[p] EXCEPT !.state = "zombie"] ELSE NoProcess
     ELSE IF proc[p].parent \in ps THEN [proc[p] EXCEPT !.parent = Tini]
     ELSE proc[p]]
Reaped(p) == [proc EXCEPT ![p] = NoProcess]

NoResult == [job |-> 0, error |-> "none", files |-> {}]

-----------------------------------------------------------------------------
(***************************************************************************)
(* The user's processes                                                    *)
(***************************************************************************)
\* A child may leave the group (setsid), redirect its output, ignore SIGTERM; out of
\* the group that makes no difference.
Fork(p) ==
  /\ Running(p)
  /\ \E q \in Pids, inGroup, pipe, deaf \in BOOLEAN :
       /\ NewPid(q)
       /\ inGroup => proc[p].inGroup
       /\ pipe => proc[p].pipe
       /\ deaf => inGroup
       /\ proc' = [proc EXCEPT ![q] = Process(proc[p].job, p, inGroup, pipe, deaf)]
  /\ UNCHANGED <<pc, job, lang, main, output, tools, result, outlived>>

Exit(p) ==
  /\ Running(p)
  /\ proc' = Ended({p})
  /\ UNCHANGED <<pc, job, lang, main, output, tools, result, outlived>>

\* The executions that have a process now.
Survivors == {proc[p].job : p \in {q \in Pids : Running(q)}}

\* The processes of the executions js write and remove files among ns.
Overwrite(ns, js) ==
  \E touched \in SUBSET ns :
    \E new \in [touched -> {NoFile} \cup {File(k, j) : k \in Kinds, j \in js}] :
      output' = [n \in Names |-> IF n \in touched THEN new[n] ELSE output[n]]

\* What they have made of /tmp/output by the time the executor lists it: nobody else
\* looks at it before.  The program of the execution, pip, every process still there,
\* and those that earlier executions left and that have ended since, may have written
\* and removed what they liked.
Writers == outlived \cup Survivors
             \cup (IF main # 0 \/ lang = "python" THEN {job} ELSE {})

Wrote ==
  /\ pc = "collect"
  /\ pc' = "read"
  /\ Overwrite(Names, Writers)
  /\ UNCHANGED <<job, lang, main, proc, tools, result, outlived>>

-----------------------------------------------------------------------------
(***************************************************************************)
(* main, up to the start of the user's program                             *)
(***************************************************************************)
\* clear_output_dir.  In a directory below, rmtree(ignore_errors=True) leaves what it
\* cannot remove; in /tmp/output itself, when the user's code has made it read-only,
\* unlink raises, with the directories before that file removed already.
ClearRaises == \E n \in Names : output[n].removal = "error"
Cleared == [n \in Names |-> IF output[n].removal = "done" THEN NoFile ELSE output[n]]

\* install_pip_packages: nothing to do, done, failed, or the timeout, which kills pip
\* and not what pip has started
Install ==
  /\ pc = "install"
  /\ pc' = "decode"
  /\ \/ install' \in {"done", "failed"} /\ UNCHANGED proc
     \/ /\ install' = "failed"
        /\ \E q \in Pids : NewPid(q) /\ proc' = [proc EXCEPT ![q] =
                                          Process(job, Tini, FALSE, FALSE, FALSE)]
  /\ UNCHANGED <<job, lang, main, output, ended, residual, files, result, outlived>>

\* Nothing of the executor's own state outlives it.
Forgotten ==
  /\ lang' = "python" /\ main' = 0
  /\ install' = "done" /\ ended' = "no" /\ residual' = {} /\ files' = {}

\* The executor exits, and with it goes what it has not reaped.  Of a process that is
\* left, nothing matters any more but that it runs.
Stop(j, error, sent) ==
  /\ pc' = "idle"
  /\ result' = [job |-> j, error |-> error, files |-> sent]
  /\ proc' = [p \in Pids |-> IF Running(p) THEN Process(proc[p].job, Tini, FALSE, FALSE, FALSE)
                             ELSE NoProcess]
  /\ outlived' = outlived \cup Survivors
  /\ Forgotten

\* Mutant: the directory is cleared after an execution only.
SetupCleared_Not == output

\* setup_output_dir clears it before
SetupCleared == Cleared

\* What clear_output_dir raises nothing catches: no result.
Begin ==
  /\ pc = "idle"
  /\ job < MaxJobs
  /\ job' = job + 1
  /\ IF ClearRaises
     THEN /\ output' \in {output, Cleared}
          /\ Stop(job', "NoResult", {})
     ELSE /\ output' = SetupCleared
          /\ lang' \in {"python", "bash"}
          /\ pc' = IF lang' = "python" THEN "install" ELSE "decode"
          /\ result' = NoResult
          /\ UNCHANGED <<main, proc, tools, outlived>>

\* decode_code_from_environment: empty code is answered at once
Decode ==
  /\ pc = "decode"
  /\ \/ Stop(job, "ValueError", {}) /\ UNCHANGED job
     \/ /\ pc' = "spawn"
        /\ UNCHANGED <<job, lang, main, proc, tools, result, outlived>>
  /\ UNCHANGED output

\* Popen(start_new_session=True).  It may fail, for lack of processes; the script of
\* a bash program may fail to be written before, which nothing catches.
Spawn ==
  /\ pc = "spawn"
  /\ \/ /\ \E q \in Pids, deaf \in BOOLEAN :
             /\ NewPid(q)
             /\ proc' = [proc EXCEPT ![q] = Process(job, Exec, TRUE, TRUE, deaf)]
             /\ main' = q
        /\ pc' = "wait"
        /\ UNCHANGED <<job, lang, tools, result, outlived>>
     \/ /\ ended' = "failed"
        /\ pc' = "collect"
        /\ UNCHANGED <<job, lang, main, proc, install, residual, files, result, outlived>>
     \/ lang = "bash" /\ Stop(job, "NoResult", {}) /\ UNCHANGED job
  /\ UNCHANGED output

-----------------------------------------------------------------------------
(***************************************************************************)
(* execute_code and execute_bash                                           *)
(***************************************************************************)
\* Mutant: execute_bash kills the group only when time is up.
AfterExit_NoKill(e) == IF e = "failed" THEN "term" ELSE "residual"

\* execute_bash kills the group in any case, execute_code on errors only
AfterExit(e) == IF lang = "bash" \/ e = "failed" THEN "term" ELSE "residual"

\* communicate returns: the program is over, its pipes are closed by all.  Output
\* that is no UTF-8 is an exception.
Communicate ==
  /\ pc = "wait"
  /\ proc[main].state = "zombie" /\ Holders = {}
  /\ proc' = Reaped(main)
  /\ ended' \in {"zero", "nonzero", "failed"}
  /\ pc' = AfterExit(ended')
  /\ UNCHANGED <<job, lang, main, output, install, residual, files, result, outlived>>

\* communicate(timeout) gives up
Timeout ==
  /\ pc = "wait"
  /\ ended' = "timeout"
  /\ pc' = "term"
  /\ UNCHANGED <<job, lang, main, proc, output, install, residual, files, result, outlived>>

AfterKill == IF lang = "python" /\ ended = "timeout" THEN "drain" ELSE "residual"

\* terminate_process_group: SIGTERM, and half a second later SIGKILL if the group
\* still has a member; a program nobody has reaped is one.
Term ==
  /\ pc = "term"
  /\ LET hit == {p \in Group : Running(p) /\ ~proc[p].deaf} IN
       /\ proc' = Ended(hit)
       /\ pc' = IF Group \ hit = {} /\ main \notin hit THEN AfterKill ELSE "kill"
  /\ UNCHANGED <<job, lang, main, output, tools, result, outlived>>

\* Mutant: no SIGKILL.
Kill_Not ==
  /\ pc = "kill"
  /\ pc' = AfterKill
  /\ UNCHANGED <<job, lang, main, proc, output, tools, result, outlived>>

Kill ==
  /\ pc = "kill"
  /\ proc' = Ended(Group)
  /\ pc' = AfterKill
  /\ UNCHANGED <<job, lang, main, output, tools, result, outlived>>

\* Mutant: communicate() without a timeout.
DrainOver_Waits == Holders = {}

\* communicate(timeout=1) ends, with the program reaped or not
DrainOver == TRUE

Drain ==
  /\ pc = "drain"
  /\ DrainOver
  /\ proc' = IF Holders = {} THEN Reaped(main) ELSE proc
  /\ pc' = "residual"
  /\ UNCHANGED <<job, lang, main, output, tools, result, outlived>>

\* Mutant: the executor finds itself among its descendants.
Descendants_Self == {Exec} \cup {p \in Pids : Alive(p) /\ proc[p].parent = Exec}

\* _list_residual_pids: the descendants of the executor, by PPid
Descendants ==
  LET Children(s) == {p \in Pids : Alive(p) /\ proc[p].parent \in s}
      Below[n \in 0..MaxPids] == IF n = 0 THEN Children({Exec})
                                 ELSE Below[n - 1] \cup Children(Below[n - 1])
  IN Below[MaxPids]

ListResidual ==
  /\ pc = "residual"
  /\ residual' = Descendants
  /\ pc' = IF residual' = {} THEN "collect" ELSE "res_term"
  /\ UNCHANGED <<job, lang, main, proc, output, install, ended, files, result, outlived>>

\* execute_bash decodes what it has read when time is up; bytes that are no UTF-8, a
\* character cut in two among them, raise inside the handler: no result.
DecodeTimedOut ==
  /\ pc = "residual" /\ lang = "bash" /\ ended = "timeout"
  /\ Stop(job, "NoResult", {})
  /\ UNCHANGED <<job, output>>

\* terminate_residual_processes: the same two signals to the pids listed
TermResidual ==
  /\ pc = "res_term"
  /\ proc' = Ended({p \in residual : ~proc[p].deaf})
  /\ pc' = "res_kill"
  /\ UNCHANGED <<job, lang, main, output, tools, result, outlived>>

KillResidual ==
  /\ pc = "res_kill"
  /\ proc' = Ended(residual)
  /\ pc' = "collect"
  /\ UNCHANGED <<job, lang, main, output, tools, result, outlived>>

-----------------------------------------------------------------------------
(***************************************************************************)
(* collect_output_files, and the end of main                               *)
(***************************************************************************)
\* Mutant: the total is compared before the file is counted.
Fits_OneMore(n, used) == output[n].size <= MaxFile /\ used <= MaxTotal

Fits(n, used) == output[n].size <= MaxFile /\ used + output[n].size <= MaxTotal

Present(n) == output[n] # NoFile
\* total_size before file n + 1, in the order of the names: links are not followed,
\* files that do not fit are reported without content
Used[n \in 0..Cardinality(Names)] ==
  IF n = 0 THEN 0
  ELSE Used[n - 1] + IF Present(n) /\ ~output[n].link /\ Fits(n, Used[n - 1])
                     THEN output[n].size ELSE 0
Sent == {n \in Names : Present(n) /\ ~output[n].link /\ Fits(n, Used[n - 1])}

\* A file is checked and counted by what stat says of it and read later; in between, what
\* still runs may write to it, replace it or remove it.  A link put in its place is
\* followed, and counts as written by who put it there.  A file that cannot be read or
\* is gone is an exception nothing catches: the executor ends without a result, and
\* without clearing.
Collect ==
  /\ pc = "read"
  /\ IF Survivors = {} THEN output' = output ELSE Overwrite(Sent, Survivors)
  /\ IF \A n \in Sent : output'[n].readable
     THEN /\ files' = {[name |-> n, size |-> output[n].size, held |-> output'[n].size,
                        by |-> output'[n].by, removal |-> output'[n].removal] : n \in Sent}
          /\ outlived' = outlived \cup Survivors
          /\ pc' = "finish"
          /\ UNCHANGED <<job, lang, main, proc, install, ended, residual, result>>
     ELSE Stop(job, "NoResult", {}) /\ UNCHANGED job

\* The error of the program, else that of the installation; then the directory is
\* cleared and the result printed.
ErrorOf ==
  CASE ended = "timeout" -> "TimeoutError"
    [] ended \in {"nonzero", "failed"} -> "ProgramError"
    [] ended = "zero" /\ install = "failed" -> "InstallationError"
    [] OTHER -> "none"

Finish ==
  /\ pc = "finish"
  /\ IF ClearRaises
     THEN output' \in {output, Cleared} /\ Stop(job, "NoResult", {})
     ELSE output' = Cleared /\ Stop(job, ErrorOf, files)
  /\ UNCHANGED job

\* run_exec_with_timeout of the gateway: time is up there, the container is removed
Teardown ==
  /\ pc \notin {"idle", "down"}
  /\ pc' = "down"
  /\ proc' = [p \in Pids |-> NoProcess]
  /\ output' = [n \in Names |-> NoFile]
  /\ Forgotten
  /\ UNCHANGED <<job, result, outlived>>

ExecutorInit ==
  /\ pc = "idle" /\ job = 0 /\ lang = "python" /\ main = 0
  /\ proc = [p \in Pids |-> NoProcess]
  /\ output = [n \in Names |-> NoFile]
  /\ install = "done" /\ ended = "no" /\ residual = {} /\ files = {}
  /\ result = NoResult
  /\ outlived = {}

ExecutorStep ==
  \/ Install \/ Decode \/ Spawn \/ Communicate \/ Timeout \/ Term \/ Kill \/ Drain
  \/ DecodeTimedOut \/ ListResidual \/ TermResidual \/ KillResidual \/ Wrote \/ Collect \/ Finish

ExecutorNext ==
  \/ Begin
  \/ ExecutorStep
  \/ \E p \in Pids : Fork(p) \/ Exit(p)
  \/ Teardown

-----------------------------------------------------------------------------
Steps == {"idle", "install", "decode", "spawn", "wait", "term", "kill", "drain", "residual",
          "res_term", "res_kill", "collect", "read", "finish", "down"}
Errors == {"none", "ValueError", "NoResult", "TimeoutError", "ProgramError", "InstallationError"}
Processes ==
  [state : {"none", "running", "zombie"}, job : 0..MaxJobs, parent : Pids \cup {Exec, Tini},
   inGroup : BOOLEAN, pipe : BOOLEAN, deaf : BOOLEAN]

\* Every variable keeps its type.
ExecutorType ==
  /\ pc \in Steps /\ job \in 0..MaxJobs /\ lang \in {"python", "bash"}
  /\ main \in Pids \cup {0}
  /\ proc \in [Pids -> Processes]
  /\ \A n \in Names : output[n].by \in 0..MaxJobs
  /\ install \in {"done", "failed"}
  /\ ended \in {"no", "zero", "nonzero", "failed", "timeout"}
  /\ residual \subseteq Pids
  /\ \A f \in files \cup result.files : f.name \in Names
  /\ result.error \in Errors
  /\ outlived \subseteq 1..MaxJobs

\* Everything in the program's group is dead by the time output is collected, unless a
\* Python program ended by itself.
GroupDead ==
  pc = "collect" =>
    \A p \in Pids : Running(p) /\ proc[p].job = job =>
      ~proc[p].inGroup \/ (lang = "python" /\ ended \in {"zero", "nonzero"})

\* No descendant of the executor is left to run then: those that outlive their parents
\* are tini's, so that terminate_residual_processes only ever finds the program
\* itself, dead and not reaped.
ResidualDead == \A p \in residual : ~Running(p)

\* A process outlives its execution only when it was not in the program's group, or when
\* a Python program ended by itself, however it reacts to SIGTERM and whenever it forks;
\* and the two terminations leave nothing to each other that they could have killed.
Contained == GroupDead /\ ResidualDead

\* A result carries the files of its own execution, and of another one only if that
\* one left a process behind or a file that clear_output_dir cannot remove.
FilesOwn ==
  \A f \in result.files :
    f.by = result.job \/ f.by \in outlived \/ f.removal # "done"

\* The files a result carries count for no more than MAX_FILE_SIZE each and
\* MAX_TOTAL_FILES_SIZE together, and hold what they count for, except those that a
\* process which outlived its execution wrote to after they were counted: nothing bounds
\* what read_bytes then reads.
OutputBounded ==
  /\ \A f \in result.files : f.size <= MaxFile /\ (f.held = f.size \/ f.by \in outlived)
  /\ MapThenSumSet(LAMBDA f : f.size, result.files) <= MaxTotal
=============================================================================
