------------------------------ MODULE Sandbox ------------------------------
(***************************************************************************)
(* What runs in a sandbox container: the gateway makes a container for one *)
(* purpose, and there starts executor.py for every execution of a session, *)
(* or render_latex.py or render_presentation.py for one rendering.  The    *)
(* programs share nothing but the gateway that starts them, waits for them *)
(* and removes the container when it has waited long enough.               *)
(***************************************************************************)
EXTENDS Executor, LatexRender, SlideRender

VARIABLE program    \* the program the container was made for

sandboxVars == <<program, executorVars, latexVars, slidesVars>>

\* The container runs p, and no other program.
Only(p, step) ==
  /\ program = p
  /\ step
  /\ UNCHANGED program
  /\ p # "executor" => UNCHANGED executorVars
  /\ p # "latex" => UNCHANGED latexVars
  /\ p # "slides" => UNCHANGED slidesVars

Init ==
  /\ program \in {"executor", "latex", "slides"}
  /\ ExecutorInit /\ LatexInit /\ SlidesInit

Next ==
  \/ Only("executor", ExecutorNext)
  \/ Only("latex", LatexNext)
  \/ Only("slides", SlidesNext)

\* The programs go on and their timers fire.  Nothing obliges the user's processes or
\* node to end, nor the gateway to remove the container.
Spec ==
  /\ Init /\ [][Next]_sandboxVars
  /\ WF_sandboxVars(Only("executor", ExecutorStep) \/ Only("slides", RendererStep))
-----------------------------------------------------------------------------
\* Every variable of the three programs keeps its type.
SandboxType == ExecutorType /\ LatexType /\ SlidesType

Executing == pc \notin {"idle", "down"}
\* v2 is only bound to end when the images have failed: nothing times node out.
Rendering == phase \notin {"idle", "done", "down"} /\ (raised # "none" \/ settings.version = "v1")

\* Without any help from the gateway every execution ends, though the user's processes
\* never end, hold the pipes for ever and ignore SIGTERM, and every rendering of
\* slides does once one of its tasks has failed, though node never ends.
ProgramsEnd == Executing \/ Rendering ~> ~Executing /\ ~Rendering
=============================================================================
