---------------------------- MODULE SlideRender ----------------------------
(***************************************************************************)
(* sandbox/render_presentation.py and slide_renderer: one deck of slides,  *)
(* rendered in a container of its own.                                     *)
(*                                                                         *)
(* The deck is written to a temporary directory, a web server in the same  *)
(* process serves it, and two tasks of one event loop load it, each in a   *)
(* browser of its own: one makes the presentation (version v1 in Python,   *)
(* version v2 in a node process), the other one image for each slide.  As  *)
(* soon as one of them fails the other is cancelled and waited for; then   *)
(* the server is stopped, the directory removed and the program exits.  A  *)
(* task's step ends where it awaits the browser, and a cancellation is     *)
(* raised at that await.                                                   *)
(*                                                                         *)
(* The browsers and node are external: they start or not, load the page or *)
(* not, show as many slides as the page's scripts leave there.  Playwright *)
(* gives up after PAGE_LOAD_TIMEOUT_MS and stops its browser when its      *)
(* `async with` is left; nothing times node out.                           *)
(***************************************************************************)
EXTENDS Integers, FiniteSets, RenderConfiguration

CONSTANTS
  Decks,        \* the slides a deck may show when loaded, a set for each deck
  MaxSlides,    \* RENDER_MAX_SLIDES
  MaxOutput     \* RENDER_MAX_OUTPUT_BYTES

ASSUME DecksAssumption ==
  /\ MaxSlides \in Nat /\ MaxOutput \in Nat
  /\ \A slides \in Decks : slides \subseteq Nat /\ IsFiniteSet(slides)

VARIABLES
  phase,        \* where the program is
  settings,     \* the settings in the environment
  deck,         \* the request
  task,         \* the two tasks: where they are, the process they use, how they end
  raised,       \* what gather raises: the first failure
  server,       \* the web server accepts requests
  workspace,    \* the temporary directory exists
  shown,        \* slides each task has found
  faulty,       \* something external has failed (history)
  archive,      \* size of the archive delivered, 0: none
  exit          \* exit code, -1: none yet

slidesVars == <<phase, settings, deck, task, raised, server, workspace, shown, faulty, archive, exit>>

Tasks == {"pptx", "images"}
Requests == [assets : {"ok", "refused"}, slides : Decks]
NoTask == [at |-> "none", alive |-> FALSE, cancelled |-> FALSE, outcome |-> "none"]

\* Mutant: an unexpected exception has a code of its own.
ExitCode_Own(e) == CASE e = "validation" -> 2 [] e = "execution" -> 1 [] e = "other" -> 3

\* main: what each exception is answered with.  "validation" is any ValueError: of a
\* request that is refused, and of a library that failed.
ExitCode(e) == CASE e = "validation" -> 2 [] e \in {"execution", "other"} -> 1

\* A deck without scripts that change it
Static == Cardinality(deck.slides) = 1

-----------------------------------------------------------------------------
(***************************************************************************)
(* render_from_file and render_presentation, before the tasks              *)
(***************************************************************************)
Raises(e) == phase' = "done" /\ exit' = ExitCode(e)

\* What the disk, a library or a program fails with: a ValueError, or something else.
Faults == {"other", "validation"}
Breaks == faulty' = TRUE /\ \E e \in Faults : Raises(e)

\* The gateway starts the program, with its own settings in the environment.
StartSlides ==
  /\ phase = "idle"
  /\ settings' \in {RenderEnvironment(s) : s \in Accepted}
  /\ phase' = "configuration"
  /\ UNCHANGED <<deck, task, raised, server, workspace, shown, faulty, archive, exit>>

\* The configuration is validated; of the settings only the version matters from here.
\* The gateway has applied the model of the request, and the limits on the html and
\* the number of files, before; the files themselves it has not looked into.
CheckConfiguration ==
  /\ phase = "configuration"
  /\ IF RendererValidates(settings)
     THEN /\ phase' = "environment"
          /\ settings' = [Fallback EXCEPT !.version = settings.version]
          /\ deck' \in Requests
          /\ UNCHANGED <<faulty, exit>>
     ELSE Raises("other") /\ faulty' = TRUE /\ UNCHANGED <<settings, deck>>
  /\ UNCHANGED <<task, raised, server, workspace, shown, archive>>

\* validate_render_environment: the temporary directory, node, playwright
CheckEnvironment ==
  /\ phase = "environment"
  /\ \/ phase' = "limits" /\ UNCHANGED <<faulty, exit>>
     \/ Breaks
  /\ UNCHANGED <<settings, deck, task, raised, server, workspace, shown, archive>>

\* The html is written to the new directory, the assets are decoded and measured as they
\* are written there; it goes away with the exception.
SaveAssets ==
  /\ phase = "limits"
  /\ \/ /\ deck.assets = "refused"
        /\ Raises("validation") /\ UNCHANGED <<workspace, faulty>>
     \/ /\ deck.assets = "ok"
        /\ phase' = "serve" /\ workspace' = TRUE /\ UNCHANGED <<faulty, exit>>
     \/ Breaks /\ UNCHANGED workspace
  /\ UNCHANGED <<settings, deck, task, raised, server, shown, archive>>

\* LocalStaticServer.__enter__, which may get no port; both tasks are created.
Serve ==
  /\ phase = "serve"
  /\ \/ /\ phase' = "gather" /\ server' = TRUE
        /\ task' = [t \in Tasks |-> [NoTask EXCEPT !.at = "launch"]]
        /\ UNCHANGED <<raised, faulty>>
     \/ /\ phase' = "remove" /\ raised' \in Faults /\ faulty' = TRUE
        /\ UNCHANGED <<task, server>>
  /\ UNCHANGED <<settings, deck, workspace, shown, archive, exit>>

-----------------------------------------------------------------------------
(***************************************************************************)
(* The tasks                                                               *)
(***************************************************************************)
UsesNode(t) == t = "pptx" /\ settings.version = "v2"
TaskEnds(t, outcome) ==
  /\ task' = [task EXCEPT ![t].at = "ended", ![t].alive = FALSE, ![t].outcome = outcome]
  /\ raised' = IF raised = "none" /\ outcome \in {"validation", "execution", "other"}
               THEN outcome ELSE raised
\* leaving by the finally clause, which closes context and browser
TaskFails(t, outcome) ==
  /\ task' = [task EXCEPT ![t].at = "close", ![t].outcome = outcome]
  /\ UNCHANGED raised
TaskGoes(t, at) == task' = [task EXCEPT ![t].at = at] /\ UNCHANGED raised
mainState == <<phase, settings, deck, server, workspace, archive, exit>>
Runs(t, at) == task[t].at = at /\ ~task[t].cancelled

\* A browser, or node, is started; failing that, there is nothing to close.
Launch(t) ==
  /\ Runs(t, "launch")
  /\ \/ /\ task' = [task EXCEPT ![t].at = IF UsesNode(t) THEN "node" ELSE "load", ![t].alive = TRUE]
        /\ UNCHANGED <<raised, faulty>>
     \/ faulty' = TRUE /\ \E e \in Faults : TaskEnds(t, e)
  /\ UNCHANGED <<mainState, shown>>

\* Mutant: v1 compares its slides with the limit by >=.
TooMany_V1(t, n) == IF t = "pptx" THEN n >= MaxSlides ELSE n > MaxSlides

TooMany(t, n) == n > MaxSlides

\* The page is loaded and its slides are counted: _render_page_to_pptx of v1,
\* _render_slide_images.  No slide is a RuntimeError in the one and a
\* RenderExecutionError in the other.
Load(t) ==
  /\ Runs(t, "load") /\ server
  /\ \/ /\ \E n \in deck.slides :
             /\ shown' = [shown EXCEPT ![t] = n]
             /\ IF n = 0 THEN TaskFails(t, IF t = "pptx" THEN "other" ELSE "execution")
                ELSE IF TooMany(t, n) THEN TaskFails(t, "validation")
                ELSE TaskGoes(t, "shoot")
        /\ UNCHANGED faulty
     \/ /\ faulty' = TRUE /\ UNCHANGED shown
        /\ \E e \in Faults : TaskFails(t, e)
  /\ UNCHANGED mainState

\* One screenshot after the other, the images are written to the directory.
Shoot(t) ==
  /\ Runs(t, "shoot")
  /\ \/ TaskFails(t, "done") /\ UNCHANGED faulty
     \/ faulty' = TRUE /\ \E e \in Faults : TaskFails(t, e)
  /\ UNCHANGED <<mainState, shown>>

\* The finally clause; v1 saves the presentation after it.
Close(t) ==
  /\ Runs(t, "close")
  /\ \/ /\ IF task[t].outcome = "done" /\ t = "pptx"
           THEN /\ task' = [task EXCEPT ![t].at = "save", ![t].alive = FALSE]
                /\ UNCHANGED raised
           ELSE TaskEnds(t, task[t].outcome)
        /\ UNCHANGED faulty
     \/ faulty' = TRUE /\ \E e \in Faults : TaskEnds(t, e)
  /\ UNCHANGED <<mainState, shown>>

\* Saving awaits nothing: no cancellation comes in between.
Save(t) ==
  /\ task[t].at = "save"
  /\ \/ TaskEnds(t, "done") /\ UNCHANGED faulty
     \/ faulty' = TRUE /\ \E e \in Faults : TaskEnds(t, e)
  /\ UNCHANGED <<mainState, shown>>

\* node (v2/index.js) ends, if it ends: it fails without a slide, knows no maximum and
\* reports every failure by its return code.
Node(t) ==
  /\ Runs(t, "node") /\ server
  /\ \/ /\ \E n \in deck.slides :
             /\ shown' = [shown EXCEPT ![t] = n]
             /\ TaskEnds(t, IF n = 0 THEN "execution" ELSE "done")
        /\ UNCHANGED faulty
     \/ TaskEnds(t, "execution") /\ faulty' = TRUE /\ UNCHANGED shown
  /\ UNCHANGED mainState

\* Mutant: node is left running.
NodeKilled_Not(t) == [task EXCEPT ![t].at = "ended", ![t].outcome = "cancelled"]

\* process.kill(), process.wait()
NodeKilled(t) == [task EXCEPT ![t].at = "ended", ![t].alive = FALSE, ![t].outcome = "cancelled"]

\* CancelledError is raised where the task awaits.  Before its browser is there and in
\* the finally clause it leaves at once, and playwright stops the browser;
\* elsewhere the finally clause comes first.
Cancelled(t) ==
  /\ task[t].cancelled /\ task[t].at \in {"launch", "load", "shoot", "close", "node"}
  /\ CASE task[t].at = "node" -> task' = NodeKilled(t) /\ UNCHANGED raised
       [] task[t].at \in {"launch", "close"} -> TaskEnds(t, "cancelled")
       [] OTHER -> /\ task' = [task EXCEPT ![t].at = "close", ![t].cancelled = FALSE,
                                           ![t].outcome = "cancelled"]
                   /\ UNCHANGED raised
  /\ UNCHANGED <<mainState, shown, faulty>>

-----------------------------------------------------------------------------
(***************************************************************************)
(* render_presentation, after the tasks                                    *)
(***************************************************************************)
\* Mutant: the exception leaves gather, and the other task alone.
CancelOthers_Not == task

\* Tasks that have not ended are cancelled.
CancelOthers == [t \in Tasks |-> [task[t] EXCEPT !.cancelled = task[t].at # "ended"]]

\* gather raises the first failure
GatherRaises ==
  /\ phase = "gather" /\ raised # "none"
  /\ task' = CancelOthers
  /\ phase' = "settle"
  /\ UNCHANGED <<settings, deck, raised, server, workspace, shown, faulty, archive, exit>>

\* Mutant: nobody waits for the task that was cancelled.
Settled_AtOnce == TRUE

\* gather(return_exceptions=True): both tasks are over
Settled == \A t \in Tasks : task[t].at = "ended"

\* LocalStaticServer.__exit__
StopServer ==
  /\ \/ phase = "gather" /\ raised = "none" /\ \A t \in Tasks : task[t].at = "ended"
     \/ phase = "settle" /\ Settled
  /\ server' = FALSE
  /\ phase' = IF raised = "none" THEN "check" ELSE "remove"
  /\ UNCHANGED <<settings, deck, task, raised, workspace, shown, faulty, archive, exit>>

\* Mutant: the archive is not measured.
ArchiveFits_Any == TRUE

ArchiveFits == archive' <= MaxOutput

\* There is a presentation and an image, the images are counted and added up with it,
\* the archive is measured again.
CheckOutput ==
  /\ phase = "check"
  /\ phase' = "remove"
  /\ \/ raised' \in {"execution"} \cup Faults /\ faulty' = TRUE /\ UNCHANGED archive
     \/ /\ \E pptx, images \in 1..MaxOutput :
             IF pptx + images > MaxOutput
             THEN raised' = "validation" /\ UNCHANGED archive
             ELSE \E size \in 1..MaxOutput + 1 :
                    /\ archive' = size
                    /\ raised' = IF ArchiveFits THEN "none" ELSE "validation"
        /\ UNCHANGED faulty
  /\ UNCHANGED <<settings, deck, task, server, workspace, shown, exit>>

\* The temporary directory is removed, or what cannot be removed raises in its turn.
RemoveWorkspace ==
  /\ phase = "remove"
  /\ \/ /\ workspace' = FALSE /\ UNCHANGED faulty
        /\ IF raised = "none" THEN phase' = "write" /\ UNCHANGED exit ELSE Raises(raised)
     \/ Breaks /\ UNCHANGED workspace
  /\ UNCHANGED <<settings, deck, task, raised, server, shown, archive>>

\* The archive is written for the gateway.
WriteArchive ==
  /\ phase = "write"
  /\ \/ phase' = "done" /\ exit' = 0 /\ UNCHANGED faulty
     \/ Breaks
  /\ UNCHANGED <<settings, deck, task, raised, server, workspace, shown, archive>>

\* run_exec_with_timeout of the gateway removes the container.
SlidesTeardown ==
  /\ phase \notin {"idle", "done", "down"}
  /\ phase' = "down"
  /\ task' = [t \in Tasks |-> NoTask]
  /\ server' = FALSE /\ workspace' = FALSE
  /\ UNCHANGED <<settings, deck, raised, shown, faulty, archive, exit>>

SlidesInit ==
  /\ phase = "idle"
  /\ settings = Fallback /\ deck = [assets |-> "ok", slides |-> {}]
  /\ task = [t \in Tasks |-> NoTask]
  /\ raised = "none" /\ server = FALSE /\ workspace = FALSE
  /\ shown = [t \in Tasks |-> 0]
  /\ faulty = FALSE /\ archive = 0 /\ exit = -1

RendererStep ==
  \/ CheckConfiguration \/ CheckEnvironment \/ SaveAssets \/ Serve
  \/ \E t \in Tasks : Launch(t) \/ Load(t) \/ Shoot(t) \/ Close(t) \/ Save(t) \/ Cancelled(t)
  \/ GatherRaises \/ StopServer \/ CheckOutput \/ RemoveWorkspace \/ WriteArchive

SlidesNext == StartSlides \/ RendererStep \/ (\E t \in Tasks : Node(t)) \/ SlidesTeardown

-----------------------------------------------------------------------------
Phases == {"idle", "configuration", "environment", "limits", "serve", "gather", "settle",
           "check", "remove", "write", "done", "down"}

TaskStates ==
  [at : {"none", "launch", "load", "shoot", "close", "save", "node", "ended"},
   alive : BOOLEAN, cancelled : BOOLEAN,
   outcome : {"none", "done", "validation", "execution", "other", "cancelled"}]

\* Every variable keeps its type.
SlidesType ==
  /\ phase \in Phases /\ settings \in Settings
  /\ task \in [Tasks -> TaskStates]
  /\ raised \in {"none", "validation", "execution", "other"}
  /\ server \in BOOLEAN /\ workspace \in BOOLEAN /\ faulty \in BOOLEAN
  /\ shown \in [Tasks -> Nat]
  /\ archive \in 0..MaxOutput + 1 /\ exit \in {-1, 0, 1, 2}

\* With a gateway that starts, the renderer refuses its environment only for what the
\* gateway does not look at: any host allowed in production without saying so, or an
\* ALLOW_INSECURE_PRODUCTION_CONFIGURATION that is neither true nor false.
ConfigurationAgrees ==
  phase = "done" /\ ~RendererValidates(settings) =>
    \/ settings.production /\ settings.anyHost /\ settings.insecure # "true"
    \/ settings.insecure = "other"

\* When the server stops and the directory goes, nothing is left that could use them:
\* neither a task nor its browser or node process is running, however the other
\* task failed and wherever the cancellation met this one.
QuietStop ==
  phase \in {"check", "remove", "write", "done"} =>
    \A t \in Tasks : task[t].at \in {"none", "ended"} /\ ~task[t].alive

\* What an unchanging deck is answered with does not depend on which task fails first:
\* 2 for too much, 1 for no slides, otherwise success unless the output is too
\* large.  The two tasks judge the deck on their own.
VerdictFixed ==
  phase = "done" /\ ~faulty /\ Static =>
    CASE deck.assets = "refused" -> exit = 2
      [] deck.assets = "ok" /\ deck.slides = {0} -> exit = 1
      [] deck.assets = "ok" /\ \A n \in deck.slides : n > MaxSlides -> exit = 2
      [] OTHER -> exit \in {0, 2} /\ \A t \in Tasks : task[t].outcome = "done"

\* A success is within its limits: an archive that fits, an image for each of at most
\* MaxSlides slides.
SlidesDelivered ==
  exit = 0 =>
    /\ archive \in 1..MaxOutput
    /\ shown["images"] \in 1..MaxSlides
    /\ \A t \in Tasks : task[t].outcome = "done"

\* A deck is answered with what it is: a success is whole and within limits, and for a
\* deck that does not change the answer does not depend on which task is faster.
SlidesAnswered == VerdictFixed /\ SlidesDelivered
=============================================================================
