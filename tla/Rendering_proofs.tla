-------------------------- MODULE Rendering_proofs --------------------------
(***************************************************************************)
(* What the two rendering programs keep, in Sandbox, for every choice of   *)
(* requests, limits and timeouts.                                          *)
(*                                                                         *)
(* LaTeX goes through its stages in one order, so LatexKept says for each  *)
(* stage what has been settled when it is reached.  Slides are rendered by *)
(* two tasks that fail and are cancelled in any order: SlidesKept relates  *)
(* the program's phase, what gather has raised and where each task is.     *)
(***************************************************************************)
EXTENDS Sandbox, FiniteSetTheorems, TLAPS

\* A step of the container is a step of one of its programs.
LEMMA ProgramMoves ==
  ASSUME [Next]_sandboxVars
  PROVE  /\ ExecutorNext \/ UNCHANGED executorVars
         /\ LatexNext \/ UNCHANGED latexVars
         /\ SlidesNext \/ UNCHANGED slidesVars
<1>1. CASE Only("executor", ExecutorNext)
  BY <1>1 DEF Only
<1>2. CASE Only("latex", LatexNext)
  BY <1>2 DEF Only
<1>3. CASE Only("slides", SlidesNext)
  BY <1>3 DEF Only
<1>4. CASE UNCHANGED sandboxVars
  BY <1>4 DEF sandboxVars
<1> QED
  BY <1>1, <1>2, <1>3, <1>4 DEF Next

-----------------------------------------------------------------------------
(***************************************************************************)
(* LaTeX                                                                   *)
(***************************************************************************)
\* main.pdf is not there, or has a byte at least and comes from where it may.
PdfKnown ==
  \/ mainPdf = NoPdf
  \/ /\ mainPdf.size >= 1
     /\ mainPdf.from = "request" \/ (mainPdf.from = "input" /\ "main.pdf" \in InputNames)

\* What is settled at each stage.
LatexKept ==
  /\ code # -1 => stage = "done"
  /\ stage \in {"parse", "inputs"} => GatewayAccepts(document)
  /\ stage \in {"idle", "parse", "inputs", "tex"} => passClock = 0 /\ clock <= BootTime
  /\ stage \in {"tex", "compile", "pdf", "pack"} => PdfKnown
  /\ stage = "compile" =>
       mainTex = "request" /\ (pass = 2 \/ (pass = 1 /\ clock <= BootTime + passClock))
  /\ stage \in {"pdf", "pack"} => pass = 2 /\ mainTex = "request"
  /\ stage = "pack" => mainPdf # NoPdf

LatexInv == LatexType /\ LatexKept /\ GatewayAgrees /\ LatexAnswered

\* What the gateway accepts the program refuses for a blank text only.
LEMMA RefusedIsBlank ==
  ASSUME NEW d \in Documents, GatewayAccepts(d), ~ParseAccepts(d)
  PROVE  d.tex = "blank"
BY DEF Documents, GatewayAccepts, ParseAccepts

\* An input file the gateway accepted has a size that is neither nothing nor too much.
LEMMA SizeAccepted ==
  ASSUME document \in Documents, GatewayAccepts(document), NEW n \in InputNames
  PROVE  SizeOf(n) \in 1..MaxAsset
<1>1. PICK i \in DOMAIN document.inputs : document.inputs[i].name = n
  BY DEF InputNames
<1>2. document.inputs[i] \in ToSet(document.inputs)
  BY DEF ToSet
<1>3. PICK f \in ToSet(document.inputs) :
        f = CHOOSE g \in ToSet(document.inputs) : g.name = n
  BY <1>1, <1>2
<1>4. PICK j \in DOMAIN document.inputs : f = document.inputs[j]
  BY <1>3 DEF ToSet
<1>5. f.size <= MaxAsset
  BY <1>4 DEF GatewayAccepts
<1>6. f \in Inputs
  BY <1>4 DEF Documents
<1> QED
  BY <1>3, <1>5, <1>6, InputsAssumption, LatexAssumption DEF SizeOf

LEMMA LatexStarts == LatexInit => LatexInv
<1> SUFFICES ASSUME LatexInit PROVE LatexInv
  OBVIOUS
<1> USE LatexAssumption
<1>1. document \in Documents
  <2>1. document.inputs \in [1..0 -> Inputs]
    BY DEF LatexInit
  <2>2. document.inputs \in UNION {[1..n -> Inputs] : n \in 0..MaxInputs + 1}
    BY <2>1
  <2> QED
    BY <2>2 DEF LatexInit, Documents
<1>2. LatexType
  BY <1>1 DEF LatexInit, LatexType, NoPdf
<1> QED
  BY <1>2 DEF LatexInit, LatexInv, LatexKept, GatewayAgrees, LatexAnswered, BundleWhole,
     FirstPassReported


LEMMA LatexSteps == LatexInv /\ [LatexNext]_latexVars => LatexInv'
<1> SUFFICES ASSUME LatexInv, [LatexNext]_latexVars PROVE LatexInv'
  OBVIOUS
<1> USE LatexAssumption
<1>0. LatexType /\ LatexKept /\ GatewayAgrees /\ BundleWhole /\ FirstPassReported
  BY DEF LatexInv, LatexAnswered
<1>t. /\ clock \in Nat /\ passClock \in Nat
      /\ BootTime \in Nat /\ PassTime \in Nat /\ BundleTime \in Nat /\ BootTime + PassTime < BundleTime
  BY <1>0 DEF LatexType
<1>1. CASE StartLatex
  <2>1. document' \in Documents /\ GatewayAccepts(document)'
    BY <1>1 DEF StartLatex
  <2>2. LatexType'
    BY <1>0, <1>1, <2>1 DEF StartLatex, LatexType, work
  <2> QED
    BY <1>0, <1>1, <2>1, <2>2 DEF StartLatex, LatexKept, GatewayAgrees, BundleWhole,
       FirstPassReported, work, LatexInv, LatexAnswered
<1>2. CASE ParseRequest
  <2>1. code' = 2 => document'.tex = "blank"
    BY <1>0, <1>2, RefusedIsBlank DEF ParseRequest, Ends, Goes, LatexType, LatexKept
  <2>2. LatexType'
    BY <1>0, <1>2 DEF ParseRequest, LatexType, work, Ends, Goes
  <2> QED
    BY <1>0, <1>2, <2>1, <2>2 DEF ParseRequest, LatexKept, GatewayAgrees, BundleWhole,
       FirstPassReported, work, Ends, Goes, LatexInv, LatexAnswered
<1>3. CASE WriteInputs
  <2>1. mainPdf' # mainPdf => /\ mainPdf' = NoPdf \/ ("main.pdf" \in InputNames /\
                                   mainPdf' = [from |-> "input", size |-> SizeOf("main.pdf")])
    BY <1>3 DEF WriteInputs
  <2>2. "main.pdf" \in InputNames => SizeOf("main.pdf") \in 1..MaxAsset
    BY <1>0, <1>3, SizeAccepted DEF WriteInputs, LatexType, LatexKept
  <2>3. stage' = "tex" => PdfKnown'
    BY <1>3, <2>2 DEF WriteInputs, PdfKnown, NoPdf, Goes, Ends, InputNames
  <2>4. mainPdf' \in [from : {"nowhere", "input", "request"}, size : 0..MaxBundle + MaxAsset + 1]
    BY <1>0, <2>1, <2>2 DEF LatexType, NoPdf
  <2>5. LatexType'
    BY <1>0, <1>3, <2>4 DEF WriteInputs, LatexType, Ends, Goes
  <2> QED
    BY <1>0, <1>3, <2>3, <2>5 DEF WriteInputs, LatexKept, GatewayAgrees, BundleWhole,
       FirstPassReported, Ends, Goes, LatexInv, LatexAnswered
<1>4. CASE WriteTex
  <2>1. LatexType'
    BY <1>0, <1>4 DEF WriteTex, TexFrom, LatexType, Goes
  <2>2. PdfKnown'
    BY <1>0, <1>4 DEF WriteTex, LatexKept, PdfKnown, InputNames, Goes
  <2> QED
    BY <1>0, <1>t, <1>4, <2>1, <2>2 DEF WriteTex, TexFrom, LatexKept, GatewayAgrees, BundleWhole,
       FirstPassReported, Goes, LatexInv, LatexAnswered
<1>5. CASE PassEnds
  <2>1. mainPdf' # mainPdf => mainPdf' = NoPdf \/ mainPdf' \in [from : {mainTex}, size : 1..MaxBundle + 1]
    BY <1>5 DEF PassEnds
  <2>2. mainTex = "request" /\ PdfKnown /\ (pass = 2 \/ (pass = 1 /\ clock <= BootTime + passClock))
    BY <1>0, <1>5 DEF PassEnds, LatexKept
  <2>3. mainPdf' \in [from : {"nowhere", "input", "request"}, size : 0..MaxBundle + MaxAsset + 1]
    BY <1>0, <2>1, <2>2 DEF LatexType, NoPdf
  <2>4. PdfKnown'
    BY <1>5, <2>1, <2>2 DEF PassEnds, PdfKnown, InputNames, NoPdf, Ends, Goes
  <2>5. LatexType'
    BY <1>0, <1>5, <2>3 DEF PassEnds, LatexType, Ends, Goes
  <2> QED
    BY <1>0, <1>5, <2>2, <2>4, <2>5 DEF PassEnds, LatexKept, GatewayAgrees, BundleWhole,
       FirstPassReported, Ends, Goes, LatexInv, LatexAnswered
<1>6. CASE PassTimeout
  <2>1. LatexType'
    BY <1>0, <1>6 DEF PassTimeout, LatexType, work, Ends
  <2> QED
    BY <1>0, <1>6, <2>1 DEF PassTimeout, LatexKept, GatewayAgrees, BundleWhole,
       FirstPassReported, work, Ends, LatexInv, LatexAnswered
<1>7. CASE CheckPdf
  <2>1. LatexType' /\ (PdfKnown <=> PdfKnown')
    BY <1>0, <1>7 DEF CheckPdf, LatexType, work, Ends, Goes, PdfKnown, InputNames
  <2> QED
    BY <1>0, <1>7, <2>1 DEF CheckPdf, LatexKept, GatewayAgrees, BundleWhole,
       FirstPassReported, work, Ends, Goes, LatexInv, LatexAnswered
<1>8. CASE Pack
  <2>1. pass = 2 /\ mainTex = "request" /\ PdfKnown /\ mainPdf # NoPdf
    BY <1>0, <1>8 DEF Pack, LatexKept
  <2>2. mainPdf.size \in Nat /\ MaxBundle \in Nat
    BY <1>0 DEF LatexType
  <2>3. mainPdf.size >= 1 /\ (mainPdf.from = "request" \/ (mainPdf.from = "input" /\ "main.pdf" \in InputNames))
    BY <2>1 DEF PdfKnown
  <2>4. UNCHANGED <<mainPdf, mainTex, pass>> /\ InputNames' = InputNames
    BY <1>8 DEF Pack, Ends, InputNames
  <2>5. BundleWhole'
    <3> SUFFICES ASSUME code' = 0 PROVE mainPdf.size <= MaxBundle /\ bundle' \in 1..MaxBundle
      BY <2>1, <2>2, <2>3, <2>4 DEF BundleWhole
    <3> QED
      BY <1>8, <2>2 DEF Pack, Ends
  <2>6. LatexType'
    BY <1>0, <1>8 DEF Pack, LatexType, Ends
  <2> QED
    BY <1>0, <1>8, <2>5, <2>6 DEF Pack, LatexKept, GatewayAgrees,
       FirstPassReported, Ends, LatexInv, LatexAnswered
<1>9. CASE LatexTick
  <2>1. stage' = stage /\ document' = document /\ code' = code /\ InputNames' = InputNames
        /\ mainTex' = mainTex /\ mainPdf' = mainPdf /\ pass' = pass /\ bundle' = bundle
        /\ GatewayAccepts(document)' = GatewayAccepts(document)
    BY <1>9 DEF LatexTick, InputNames
  <2>2. /\ clock < BundleTime /\ clock' = clock + 1
        /\ \/ stage = "parse" /\ clock < BootTime /\ passClock' = passClock
           \/ stage = "compile" /\ passClock # PassTime /\ passClock' = passClock + 1
           \/ stage = "pack" /\ passClock' = passClock
    BY <1>9 DEF LatexTick, PassOver
  <2>3. LatexType'
    BY <1>0, <1>t, <2>1, <2>2 DEF LatexType
  <2>4. PdfKnown' = PdfKnown
    BY <2>1 DEF PdfKnown
  <2>5. LatexKept'
    BY <1>0, <1>t, <2>1, <2>2, <2>4 DEF LatexKept
  <2> QED
    BY <1>0, <2>1, <2>3, <2>5 DEF GatewayAgrees, BundleWhole, FirstPassReported, LatexInv,
       LatexAnswered
<1>10. CASE LatexTeardown
  <2>1. LatexType'
    BY <1>0, <1>10 DEF LatexTeardown, LatexType, work
  <2>2. clock = BundleTime /\ stage \in {"parse", "inputs", "tex", "compile", "pdf", "pack"}
    BY <1>0, <1>10 DEF LatexTeardown, LatexType
  <2>3. pass = 2
    BY <1>0, <1>t, <2>2 DEF LatexKept, LatexType
  <2> QED
    BY <1>0, <1>10, <2>1, <2>3 DEF LatexTeardown, LatexKept, GatewayAgrees, BundleWhole,
       FirstPassReported, work, LatexInv, LatexAnswered
<1>11. CASE UNCHANGED latexVars
  <2>1. LatexType'
    BY <1>0, <1>11 DEF latexVars, LatexType
  <2> QED
    BY <1>0, <1>11, <2>1 DEF latexVars, LatexKept, GatewayAgrees, BundleWhole, FirstPassReported,
       PdfKnown, InputNames, LatexInv, LatexAnswered
<1> QED
  BY <1>1, <1>2, <1>3, <1>4, <1>5, <1>6, <1>7, <1>8, <1>9, <1>10, <1>11 DEF LatexNext, LatexStep

LEMMA LatexInvariant == Spec => []LatexInv
<1>1. Init => LatexInv
  BY LatexStarts DEF Init
<1>2. LatexInv /\ [Next]_sandboxVars => LatexInv'
  BY ProgramMoves, LatexSteps
<1> QED
  BY <1>1, <1>2, PTL DEF Spec

\* The program and the gateway agree on which requests can be rendered, for all limits:
\* one the gateway let through is refused, with code 2, for a blank text only.
THEOREM GatewayAgreesHolds == Spec => []GatewayAgrees
<1>1. LatexInv => GatewayAgrees
  BY DEF LatexInv
<1> QED
  BY <1>1, LatexInvariant, PTL

\* A LaTeX rendering that succeeds is whole and within its limits, and one whose first
\* pass hangs is answered before the gateway's patience ends.
THEOREM LatexAnsweredHolds == Spec => []LatexAnswered
<1>1. LatexInv => LatexAnswered
  BY DEF LatexInv
<1> QED
  BY <1>1, LatexInvariant, PTL


-----------------------------------------------------------------------------
(***************************************************************************)
(* Slides                                                                  *)
(***************************************************************************)
\* What the renderer refuses of the settings a gateway starts with.
LEMMA RefusedSettings ==
  ASSUME NEW s \in Accepted, ~RendererValidates(s)
  PROVE  (s.production /\ s.anyHost /\ s.insecure # "true") \/ s.insecure = "other"
<1>1. s \in Settings /\ GatewayValidates(s)
  BY DEF Accepted
<1>2. /\ {s.timeout, s.queueTimeout, s.pageLoad, s.body, s.html, s.asset, s.totalAsset, s.output} \subseteq 1..2
      /\ s.production \in BOOLEAN /\ s.anyHost \in BOOLEAN
  BY <1>1 DEF Settings, Sizes
<1>3. RendererErrors(s) => ParseErrors(s)
  BY <1>1, <1>2 DEF GatewayValidates, RendererErrors
<1>4. ~RendererErrors(s) => RendererWarnings(s) /\ ~Allowed(s)
  BY DEF RendererValidates
<1> QED
  BY <1>3, <1>4 DEF RendererWarnings, Allowed, ParseErrors

LEMMA VersionSet ==
  ASSUME NEW s \in Settings, NEW v \in {"v1", "v2"}
  PROVE  [s EXCEPT !.version = v] \in Settings
BY DEF Settings

\* The settings that matter after the validation would be accepted again.
LEMMA FallbackValidates ==
  ASSUME NEW s \in Settings, RendererValidates(s)
  PROVE  LET f == [Fallback EXCEPT !.version = s.version]
         IN  f \in Settings /\ RendererValidates(f)
<1> DEFINE f == [Fallback EXCEPT !.version = s.version]
<1>1. s.version \in {"v1", "v2"}
  BY DEF RendererValidates, RendererErrors
<1>2. /\ f.version = s.version /\ f.timeout = 1 /\ f.queueTimeout = 1 /\ f.pageLoad = 1 /\ f.body = 2
      /\ f.html = 1 /\ f.asset = 1 /\ f.totalAsset = 2 /\ f.output = 2 /\ f.production = FALSE
      /\ f.anyHost = TRUE /\ f.insecure = "unset"
  BY DEF Fallback
<1>3. Fallback \in Settings
  BY DEF Fallback, Settings, Sizes
<1>4. f \in Settings
  BY <1>1, <1>3, VersionSet
<1>5. RendererValidates(f)
  <2> HIDE DEF f
  <2> QED
    BY <1>1, <1>2 DEF RendererValidates, RendererErrors, RendererWarnings, Allowed, ParseErrors
<1> QED
  BY <1>4, <1>5

\* Before the tasks are created
Early == {"idle", "configuration", "environment", "limits", "serve"}

\* The settings, as far as they have been validated.
SettingsKept ==
  /\ phase = "configuration" => settings \in Accepted
  /\ phase \in {"environment", "limits", "serve", "gather", "settle", "check", "remove", "write"} =>
       RendererValidates(settings)
  /\ phase = "done" => settings \in Accepted \/ RendererValidates(settings)

\* A task has an outcome when it is on its way out, what failed is raised, a
\* cancellation comes from a failure, and images are only made for slides that may be.
TaskKept(t) ==
  /\ task[t].at \in {"none", "launch", "save", "ended"} => ~task[t].alive
  /\ task[t].cancelled \/ task[t].outcome = "cancelled" => raised # "none"
  /\ task[t].at \in {"none", "launch", "load", "shoot", "node"} => task[t].outcome = "none"
  /\ task[t].at = "close" => task[t].outcome # "none"
  /\ task[t].at = "save" => task[t].outcome = "done" /\ t = "pptx"
  /\ task[t].at = "ended" => task[t].outcome = "done" \/ raised # "none"
  /\ t = "images" => task[t].at # "node"
  /\ t = "images" /\ (task[t].at = "shoot" \/ task[t].outcome = "done") =>
       shown[t] \in deck.slides /\ shown[t] \in 1..MaxSlides

AllDone == \A t \in Tasks : task[t].at = "ended" /\ task[t].outcome = "done"

\* Where the program is, what has been raised, and where the tasks may be.
PhaseKept ==
  /\ phase \in Early => raised = "none" /\ archive = 0
  /\ phase \in Early \cup {"down"} => task = [t \in Tasks |-> NoTask]
  /\ phase = "gather" => \A t \in Tasks : ~task[t].cancelled
  /\ phase = "settle" => raised # "none"
  /\ phase \in {"check", "remove", "write", "done"} => \A t \in Tasks : task[t].at \in {"none", "ended"}
  /\ phase \in {"check", "write"} => raised = "none"
  /\ (phase \in {"check", "write"} \/ (phase = "remove" /\ raised = "none") \/ exit = 0) => AllDone
  /\ ((phase = "remove" /\ raised = "none") \/ phase = "write" \/ exit = 0) => archive \in 1..MaxOutput
  /\ exit # -1 => phase = "done"

\* How the rendering of n slides, no more and no less, may fail.
Failures(n) == IF n = 0 THEN {"execution", "other"} ELSE IF n > MaxSlides THEN {"validation"} ELSE {}

VerdictKept(n) ==
  deck.slides = {n} /\ ~faulty =>
    /\ \A t \in Tasks : task[t].outcome \in {"none", "done", "cancelled"} \cup Failures(n)
    /\ \/ raised \in {"none"} \cup Failures(n)
       \/ phase \in {"remove", "done", "down"} /\ n \in 1..MaxSlides /\ raised = "validation"
    /\ phase = "remove" /\ n \in 1..MaxSlides => AllDone
    /\ phase = "done" /\ deck.assets = "ok" =>
         \/ \E e \in Failures(n) : exit = ExitCode(e)
         \/ n \in 1..MaxSlides /\ exit \in {0, 2} /\ AllDone

DeckKept ==
  /\ deck \in Requests \/ deck = [assets |-> "ok", slides |-> {}]
  /\ deck.assets = "refused" /\ ~faulty =>
       phase \in {"environment", "limits", "down"} \/ (phase = "done" /\ exit = 2)

SlidesKept ==
  /\ SettingsKept /\ PhaseKept /\ DeckKept
  /\ \A t \in Tasks : TaskKept(t)
  /\ \A n \in Nat : VerdictKept(n)

SlidesInv == SlidesType /\ SlidesKept

LEMMA DecksShown ==
  ASSUME DeckKept
  PROVE  deck.slides \subseteq Nat /\ IsFiniteSet(deck.slides) /\ deck.assets \in {"ok", "refused"}
<1>1. CASE deck \in Requests
  BY <1>1, DecksAssumption DEF Requests
<1>2. CASE deck = [assets |-> "ok", slides |-> {}]
  BY <1>2, FS_EmptySet
<1> QED
  BY <1>1, <1>2 DEF DeckKept

\* What the invariant says of a rendering that is over.
LEMMA SlidesInvMeans == SlidesInv => ConfigurationAgrees /\ QuietStop /\ SlidesAnswered
<1> SUFFICES ASSUME SlidesInv PROVE ConfigurationAgrees /\ QuietStop /\ SlidesAnswered
  OBVIOUS
<1>1. ConfigurationAgrees
  BY RefusedSettings DEF SlidesInv, SlidesKept, SettingsKept, ConfigurationAgrees
<1>2. QuietStop
  BY DEF SlidesInv, SlidesKept, PhaseKept, TaskKept, QuietStop
<1>3. SlidesDelivered
  BY DEF SlidesInv, SlidesKept, PhaseKept, TaskKept, AllDone, SlidesDelivered, Tasks
<1>4. VerdictFixed
  <2> SUFFICES ASSUME phase = "done", ~faulty, Static
               PROVE  CASE deck.assets = "refused" -> exit = 2
                        [] deck.assets = "ok" /\ deck.slides = {0} -> exit = 1
                        [] deck.assets = "ok" /\ \A n \in deck.slides : n > MaxSlides -> exit = 2
                        [] OTHER -> exit \in {0, 2} /\ \A t \in Tasks : task[t].outcome = "done"
    BY DEF VerdictFixed
  <2>1. DeckKept /\ deck.slides \subseteq Nat /\ deck.assets \in {"ok", "refused"}
    BY DecksShown DEF SlidesInv, SlidesKept
  <2>2. PICK n : deck.slides = {n}
    BY DecksShown, FS_Singleton DEF SlidesInv, SlidesKept, Static
  <2>3. n \in Nat /\ VerdictKept(n)
    BY <2>1, <2>2 DEF SlidesInv, SlidesKept
  <2>4. CASE deck.assets = "refused"
    BY <2>1, <2>4 DEF DeckKept
  <2>5. CASE deck.assets = "ok"
    <3>1. \/ \E e \in Failures(n) : exit = ExitCode(e)
          \/ n \in 1..MaxSlides /\ exit \in {0, 2} /\ AllDone
      BY <2>2, <2>3, <2>5 DEF VerdictKept
    <3>2. CASE n = 0
      <4>1. exit = 1
        BY <3>1, <3>2 DEF Failures, ExitCode
      <4> QED
        BY <2>2, <2>5, <3>2, <4>1, DecksAssumption
    <3>3. CASE n # 0 /\ n > MaxSlides
      <4>1. exit = 2
        BY <3>1, <3>3, <2>3, DecksAssumption DEF Failures, ExitCode
      <4> QED
        BY <2>2, <2>5, <3>3, <4>1, SMTT(30)
    <3>4. CASE n # 0 /\ ~(n > MaxSlides)
      <4>1. exit \in {0, 2} /\ AllDone
        BY <3>1, <3>4 DEF Failures
      <4> QED
        BY <2>2, <2>5, <3>4, <4>1 DEF AllDone
    <3> QED
      BY <3>2, <3>3, <3>4
  <2> QED
    BY <2>1, <2>4, <2>5
<1> QED
  BY <1>1, <1>2, <1>3, <1>4 DEF SlidesAnswered

LEMMA SlidesStarts == SlidesInit => SlidesInv
<1> SUFFICES ASSUME SlidesInit PROVE SlidesInv
  OBVIOUS
<1>1. settings \in Settings
  BY DEF SlidesInit, Fallback, Settings, Sizes
<1>2. SlidesType
  <2>1. task \in [Tasks -> TaskStates]
    BY DEF SlidesInit, NoTask, TaskStates
  <2>2. shown \in [Tasks -> Nat]
    BY DEF SlidesInit
  <2>3. archive \in 0..MaxOutput + 1 /\ exit \in {-1, 0, 1, 2}
    BY DecksAssumption DEF SlidesInit
  <2>4. /\ phase \in Phases /\ raised \in {"none", "validation", "execution", "other"}
        /\ server \in BOOLEAN /\ workspace \in BOOLEAN /\ faulty \in BOOLEAN
    BY DEF SlidesInit, Phases
  <2> QED
    BY <1>1, <2>1, <2>2, <2>3, <2>4 DEF SlidesType
<1>3. \A n \in Nat : VerdictKept(n)
  BY DEF SlidesInit, VerdictKept
<1> QED
  BY <1>2, <1>3 DEF SlidesInit, SlidesInv, SlidesKept, SettingsKept, PhaseKept, DeckKept, TaskKept, NoTask,
     Early


\* Where task t goes, and what becomes of the other state, in a step of its own.
TaskMoves(t, k) ==
  /\ k \in TaskStates /\ k.at # "none"
  /\ task' = [task EXCEPT ![t] = k]
  /\ UNCHANGED mainState
  /\ \/ raised' = raised
     \/ k.at = "ended" /\ k.outcome = raised' /\ raised' \in {"validation", "execution", "other"}
  /\ raised # "none" => raised' = raised
  /\ shown' \in [Tasks -> Nat] /\ \A u \in Tasks \ {t} : shown'[u] = shown[u]
  /\ faulty' \in {faulty, TRUE}
  /\ k.cancelled => task[t].cancelled
  /\ \A n \in Nat : deck.slides = {n} /\ ~faulty' =>
       k.outcome \in {"none", "done", "cancelled"} \cup Failures(n)

\* A task that moves, and is still within what a task may be, disturbs nothing else.
LEMMA TaskMovesKeep ==
  ASSUME SlidesInv, NEW t \in Tasks, NEW k, task[t].at \notin {"none", "ended"},
         TaskMoves(t, k), TaskKept(t)'
  PROVE  SlidesInv'
<1>0. /\ SlidesType /\ SettingsKept /\ PhaseKept /\ DeckKept
      /\ \A u \in Tasks : TaskKept(u)
      /\ \A n \in Nat : VerdictKept(n)
  BY DEF SlidesInv, SlidesKept
<1>1. /\ phase' = phase /\ settings' = settings /\ deck' = deck /\ server' = server
      /\ workspace' = workspace /\ archive' = archive /\ exit' = exit
  BY DEF TaskMoves, mainState
<1>2. /\ task' \in [Tasks -> TaskStates] /\ task'[t] = k
      /\ \A u \in Tasks \ {t} : task'[u] = task[u] /\ shown'[u] = shown[u]
  BY <1>0 DEF TaskMoves, SlidesType
<1>3. phase \in {"gather", "settle"}
  <2>1. phase \notin Early \cup {"down"}
    BY <1>0 DEF PhaseKept, NoTask
  <2>2. phase \notin {"check", "remove", "write", "done"}
    BY <1>0 DEF PhaseKept
  <2> QED
    BY <1>0, <2>1, <2>2 DEF SlidesType, Phases, Early
<1>4. raised' \in {"none", "validation", "execution", "other"} /\ faulty' \in BOOLEAN
  BY <1>0 DEF TaskMoves, SlidesType
<1>5. SlidesType'
  BY <1>0, <1>1, <1>2, <1>4 DEF SlidesType, TaskMoves
<1>6. SettingsKept'
  BY <1>0, <1>1 DEF SettingsKept
<1>7. exit = -1
  BY <1>0, <1>3 DEF PhaseKept
<1>8. PhaseKept'
  <2>1. phase = "gather" => \A u \in Tasks : ~task'[u].cancelled
    BY <1>0, <1>2 DEF PhaseKept, TaskMoves
  <2>2. phase = "settle" => raised' # "none"
    BY <1>0 DEF PhaseKept, TaskMoves
  <2> QED
    BY <1>1, <1>3, <1>7, <2>1, <2>2 DEF PhaseKept, Early
<1>9. DeckKept'
  BY <1>0, <1>1, <1>3 DEF DeckKept, TaskMoves
<1>10. \A u \in Tasks : TaskKept(u)'
  <2>1. ASSUME NEW u \in Tasks \ {t} PROVE TaskKept(u)'
    <3>1. TaskKept(u) /\ (raised # "none" => raised' # "none")
      BY <1>0 DEF TaskMoves
    <3> QED
      BY <1>1, <1>2, <3>1 DEF TaskKept
  <2> QED
    BY <2>1
<1>11. ASSUME NEW n \in Nat PROVE VerdictKept(n)'
  <2> SUFFICES ASSUME deck.slides = {n}, ~faulty'
               PROVE  /\ \A u \in Tasks : task'[u].outcome \in {"none", "done", "cancelled"} \cup Failures(n)
                      /\ raised' \in {"none"} \cup Failures(n)
    BY <1>1, <1>3 DEF VerdictKept
  <2>1. ~faulty
    BY DEF TaskMoves
  <2>2. /\ \A u \in Tasks : task[u].outcome \in {"none", "done", "cancelled"} \cup Failures(n)
        /\ raised \in {"none"} \cup Failures(n)
    BY <1>0, <1>3, <2>1 DEF VerdictKept
  <2>3. k.outcome \in {"none", "done", "cancelled"} \cup Failures(n)
    BY DEF TaskMoves
  <2>4. raised' \in {"none"} \cup Failures(n)
    BY <2>2, <2>3 DEF TaskMoves
  <2> QED
    BY <1>2, <2>2, <2>3, <2>4
<1> QED
  BY <1>5, <1>6, <1>8, <1>9, <1>10, <1>11 DEF SlidesInv, SlidesKept


\* What a step of a task leaves alone, and the slides it may find.
TaskStep(t) ==
  /\ UNCHANGED mainState
  /\ shown' \in [Tasks -> Nat] /\ \A u \in Tasks \ {t} : shown'[u] = shown[u]
  /\ faulty' \in {faulty, TRUE}

\* An outcome that n slides may have, and that says the truth about the images.
OutcomeFits(t, o) ==
  /\ o \in {"done", "validation", "execution", "other", "cancelled"}
  /\ o = "cancelled" => raised # "none"
  /\ t = "images" /\ o = "done" => shown'[t] \in deck.slides /\ shown'[t] \in 1..MaxSlides
  /\ \A n \in Nat : deck.slides = {n} /\ ~faulty' => o \in {"done", "cancelled"} \cup Failures(n)

LEMMA TaskEndsKeeps ==
  ASSUME SlidesInv, NEW t \in Tasks, NEW o, task[t].at \notin {"none", "ended"},
         TaskEnds(t, o), TaskStep(t), OutcomeFits(t, o)
  PROVE  SlidesInv'
<1> DEFINE k == [task[t] EXCEPT !.at = "ended", !.alive = FALSE, !.outcome = o]
<1>1. task \in [Tasks -> TaskStates] /\ TaskKept(t) /\ raised \in {"none", "validation", "execution", "other"}
  BY DEF SlidesInv, SlidesKept, SlidesType
<1>2. task' = [task EXCEPT ![t] = k]
  BY DEF TaskEnds
<1>3. /\ k \in TaskStates /\ k.at = "ended" /\ k.outcome = o /\ ~k.alive
      /\ k.cancelled = task[t].cancelled
  BY <1>1 DEF TaskStates, OutcomeFits
<1>4. task'[t] = k
  BY <1>1, <1>2
<1> HIDE DEF k
<1>5. raised # "none" => raised' = raised
  BY DEF TaskEnds
<1>6. \/ raised' = raised
      \/ k.at = "ended" /\ k.outcome = raised' /\ raised' \in {"validation", "execution", "other"}
  BY <1>3 DEF TaskEnds
<1>7. TaskMoves(t, k)
  BY <1>2, <1>3, <1>5, <1>6 DEF TaskMoves, TaskStep, OutcomeFits
<1>8. o = "done" \/ raised' # "none"
  BY DEF TaskEnds, OutcomeFits
<1>9. TaskKept(t)'
  BY <1>1, <1>3, <1>4, <1>5, <1>8 DEF TaskKept, OutcomeFits, TaskStep, mainState
<1> QED
  BY <1>7, <1>9, TaskMovesKeep

\* A task that goes to its finally clause, with the outcome it will have.
LEMMA TaskClosesKeeps ==
  ASSUME SlidesInv, NEW t \in Tasks, NEW o, NEW c \in BOOLEAN, task[t].at \notin {"none", "ended"},
         task' = [task EXCEPT ![t].at = "close", ![t].cancelled = c, ![t].outcome = o],
         c => task[t].cancelled, UNCHANGED raised,
         TaskStep(t), OutcomeFits(t, o)
  PROVE  SlidesInv'
<1> DEFINE k == [task[t] EXCEPT !.at = "close", !.cancelled = c, !.outcome = o]
<1>1. task \in [Tasks -> TaskStates] /\ TaskKept(t)
  BY DEF SlidesInv, SlidesKept, SlidesType
<1>2. task' = [task EXCEPT ![t] = k]
  OBVIOUS
<1>3. k \in TaskStates /\ k.at = "close" /\ k.outcome = o /\ k.cancelled = c
  BY <1>1 DEF TaskStates, OutcomeFits
<1>4. task'[t] = k
  BY <1>1, <1>2
<1> HIDE DEF k
<1>5. TaskMoves(t, k)
  BY <1>2, <1>3 DEF TaskMoves, TaskStep, OutcomeFits
<1>6. TaskKept(t)'
  BY <1>1, <1>3, <1>4 DEF TaskKept, OutcomeFits, TaskStep, mainState
<1> QED
  BY <1>5, <1>6, TaskMovesKeep

LEMMA TaskFailsKeeps ==
  ASSUME SlidesInv, NEW t \in Tasks, NEW o, task[t].at \notin {"none", "ended"},
         TaskFails(t, o), TaskStep(t), OutcomeFits(t, o)
  PROVE  SlidesInv'
<1>1. task[t] \in TaskStates
  BY DEF SlidesInv, SlidesType
<1>2. task[t].cancelled \in BOOLEAN
  BY <1>1 DEF TaskStates
<1>3. task' = [task EXCEPT ![t].at = "close", ![t].cancelled = task[t].cancelled, ![t].outcome = o]
  <2>1. [task[t] EXCEPT !.at = "close", !.outcome = o]
          = [task[t] EXCEPT !.at = "close", !.cancelled = task[t].cancelled, !.outcome = o]
    BY <1>1 DEF TaskStates
  <2> QED
    BY <2>1 DEF TaskFails
<1> QED
  BY <1>2, <1>3, TaskClosesKeeps DEF TaskFails

\* A task that goes on, with no outcome yet.
LEMMA TaskGoesKeeps ==
  ASSUME SlidesInv, NEW t \in Tasks, NEW at \in {"load", "shoot", "node"}, NEW alive \in BOOLEAN,
         task[t].at \in {"launch", "load"},
         task' = [task EXCEPT ![t].at = at, ![t].alive = alive],
         UNCHANGED raised, TaskStep(t),
         t = "images" /\ at = "shoot" => shown'[t] \in deck.slides /\ shown'[t] \in 1..MaxSlides,
         t = "images" => at # "node"
  PROVE  SlidesInv'
<1> DEFINE k == [task[t] EXCEPT !.at = at, !.alive = alive]
<1>1. task \in [Tasks -> TaskStates] /\ TaskKept(t)
  BY DEF SlidesInv, SlidesKept, SlidesType
<1>2. task' = [task EXCEPT ![t] = k]
  OBVIOUS
<1>3. /\ k \in TaskStates /\ k.at = at /\ k.outcome = task[t].outcome
      /\ k.cancelled = task[t].cancelled
  BY <1>1 DEF TaskStates
<1>4. task'[t] = k
  BY <1>1, <1>2
<1> HIDE DEF k
<1>5. task[t].outcome = "none"
  BY <1>1 DEF TaskKept
<1>6. TaskMoves(t, k)
  BY <1>2, <1>3, <1>5 DEF TaskMoves, TaskStep
<1>7. TaskKept(t)'
  BY <1>1, <1>3, <1>4, <1>5 DEF TaskKept, TaskStep, mainState
<1> QED
  BY <1>6, <1>7, TaskMovesKeep


\* The steps of a task, one action after the other.
LEMMA TaskActionsKeep ==
  ASSUME SlidesInv, NEW t \in Tasks,
         Launch(t) \/ Load(t) \/ Shoot(t) \/ Close(t) \/ Save(t) \/ Cancelled(t) \/ Node(t)
  PROVE  SlidesInv'
<1>0. /\ task \in [Tasks -> TaskStates] /\ shown \in [Tasks -> Nat] /\ TaskKept(t)
      /\ deck.slides \subseteq Nat
      /\ \A n \in Nat : VerdictKept(n)
  BY DecksShown DEF SlidesInv, SlidesKept, SlidesType
<1>1. task[t].outcome \in {"none", "done", "validation", "execution", "other", "cancelled"}
  BY <1>0 DEF TaskStates
<1> USE DecksAssumption
\* A failure of something external fits every deck.
<1>2. ASSUME faulty' = TRUE, NEW o \in {"execution"} \cup Faults PROVE OutcomeFits(t, o)
  BY <1>2 DEF OutcomeFits, Faults
<1>3. CASE Launch(t)
  <2>1. task[t].at = "launch" /\ TaskStep(t)
    BY <1>0, <1>3 DEF Launch, Runs, TaskStep
  <2>2. CASE faulty' = TRUE /\ \E e \in Faults : TaskEnds(t, e)
    BY <1>2, <2>1, <2>2, TaskEndsKeeps
  <2>3. CASE /\ task' = [task EXCEPT ![t].at = IF UsesNode(t) THEN "node" ELSE "load", ![t].alive = TRUE]
             /\ UNCHANGED <<raised, faulty>>
    <3>1. PICK at \in {"load", "node"} :
            /\ at = IF UsesNode(t) THEN "node" ELSE "load"
            /\ task' = [task EXCEPT ![t].at = at, ![t].alive = TRUE]
      BY <2>3
    <3>2. t = "images" => at # "node"
      BY <3>1 DEF UsesNode
    <3> QED
      BY <2>1, <2>3, <3>1, <3>2, TaskGoesKeeps
  <2> QED
    BY <1>3, <2>2, <2>3 DEF Launch
<1>4. CASE Load(t)
  <2>1. task[t].at = "load"
    BY <1>4 DEF Load, Runs
  <2>2. CASE faulty' = TRUE /\ UNCHANGED shown /\ \E e \in Faults : TaskFails(t, e)
    <3>1. TaskStep(t)
      BY <1>0, <1>4, <2>2 DEF Load, TaskStep
    <3> QED
      BY <1>2, <2>1, <2>2, <3>1, TaskFailsKeeps
  <2>3. CASE UNCHANGED faulty /\ \E n \in deck.slides :
               /\ shown' = [shown EXCEPT ![t] = n]
               /\ IF n = 0 THEN TaskFails(t, IF t = "pptx" THEN "other" ELSE "execution")
                  ELSE IF TooMany(t, n) THEN TaskFails(t, "validation")
                  ELSE TaskGoes(t, "shoot")
    <3>1. PICK n \in deck.slides :
               /\ shown' = [shown EXCEPT ![t] = n]
               /\ IF n = 0 THEN TaskFails(t, IF t = "pptx" THEN "other" ELSE "execution")
                  ELSE IF TooMany(t, n) THEN TaskFails(t, "validation")
                  ELSE TaskGoes(t, "shoot")
      BY <2>3
    <3>2. n \in Nat /\ TaskStep(t) /\ shown'[t] = n
      BY <1>0, <1>4, <2>3, <3>1 DEF Load, TaskStep
    <3>3. ASSUME n = 0, NEW o \in {"other", "execution"} PROVE OutcomeFits(t, o)
      BY <2>3, <3>1, <3>3 DEF OutcomeFits, Failures
    <3>4. CASE n = 0
      BY <2>1, <3>1, <3>2, <3>3, <3>4, TaskFailsKeeps
    <3>5. CASE n # 0 /\ n > MaxSlides
      <4>1. OutcomeFits(t, "validation")
        BY <2>3, <3>1, <3>5 DEF OutcomeFits, Failures
      <4> QED
        BY <2>1, <3>1, <3>2, <3>5, <4>1, TaskFailsKeeps DEF TooMany
    <3>6. CASE n # 0 /\ ~(n > MaxSlides)
      <4>1. shown'[t] \in deck.slides /\ shown'[t] \in 1..MaxSlides
        BY <3>1, <3>2, <3>6
      <4>2. TaskGoes(t, "shoot") /\ task[t] \in TaskStates
        BY <1>0, <3>1, <3>6 DEF TooMany
      <4>3. task[t].alive \in BOOLEAN
        BY <4>2 DEF TaskStates
      <4>4. task' = [task EXCEPT ![t].at = "shoot", ![t].alive = task[t].alive] /\ UNCHANGED raised
        <5>1. [task[t] EXCEPT !.at = "shoot"] = [task[t] EXCEPT !.at = "shoot", !.alive = task[t].alive]
          BY <4>2 DEF TaskStates
        <5> QED
          BY <4>2, <5>1 DEF TaskGoes
      <4> QED
        BY <2>1, <3>2, <4>1, <4>3, <4>4, TaskGoesKeeps
    <3> QED
      BY <3>4, <3>5, <3>6
  <2> QED
    BY <1>4, <2>2, <2>3 DEF Load
<1>5. CASE Shoot(t)
  <2>1. task[t].at = "shoot" /\ TaskStep(t) /\ shown' = shown
    BY <1>0, <1>5 DEF Shoot, Runs, TaskStep
  <2>2. OutcomeFits(t, "done")
    BY <1>0, <2>1 DEF OutcomeFits, TaskKept
  <2> QED
    BY <1>2, <1>5, <2>1, <2>2, TaskFailsKeeps DEF Shoot
<1>6. CASE Close(t)
  <2>1. task[t].at = "close" /\ TaskStep(t) /\ shown' = shown
    BY <1>0, <1>6 DEF Close, Runs, TaskStep
  <2>2. CASE faulty' = TRUE /\ \E e \in Faults : TaskEnds(t, e)
    BY <1>2, <2>1, <2>2, TaskEndsKeeps
  <2>3. CASE TaskEnds(t, task[t].outcome) /\ UNCHANGED faulty
    <3>1. OutcomeFits(t, task[t].outcome)
      BY <1>0, <1>1, <2>1, <2>3 DEF OutcomeFits, TaskKept, VerdictKept
    <3> QED
      BY <2>1, <2>3, <3>1, TaskEndsKeeps
  <2>4. CASE /\ task[t].outcome = "done" /\ t = "pptx"
             /\ task' = [task EXCEPT ![t].at = "save", ![t].alive = FALSE]
             /\ UNCHANGED <<raised, faulty>>
    <3> DEFINE k == [task[t] EXCEPT !.at = "save", !.alive = FALSE]
    <3>1. task' = [task EXCEPT ![t] = k]
      BY <2>4
    <3>2. /\ k \in TaskStates /\ k.at = "save" /\ k.outcome = "done" /\ ~k.alive
          /\ k.cancelled = task[t].cancelled
      BY <1>0, <2>4 DEF TaskStates
    <3>3. task'[t] = k
      BY <1>0, <3>1
    <3> HIDE DEF k
    <3>4. TaskMoves(t, k)
      BY <2>1, <2>4, <3>1, <3>2 DEF TaskMoves, TaskStep
    <3>5. TaskKept(t)'
      BY <1>0, <2>1, <2>4, <3>2, <3>3 DEF TaskKept, TaskStep, mainState
    <3> QED
      BY <2>1, <3>4, <3>5, TaskMovesKeep
  <2> QED
    BY <1>6, <2>2, <2>3, <2>4 DEF Close
<1>7. CASE Save(t)
  <2>1. task[t].at = "save" /\ TaskStep(t) /\ t = "pptx"
    BY <1>0, <1>7 DEF Save, TaskStep, TaskKept
  <2>2. OutcomeFits(t, "done")
    BY <2>1 DEF OutcomeFits
  <2> QED
    BY <1>2, <1>7, <2>1, <2>2, TaskEndsKeeps DEF Save
<1>8. CASE Cancelled(t)
  <2>1. task[t].cancelled /\ TaskStep(t) /\ raised # "none" /\ task[t].at \notin {"none", "ended"}
    BY <1>0, <1>8 DEF Cancelled, TaskStep, TaskKept
  <2>2. OutcomeFits(t, "cancelled")
    BY <2>1 DEF OutcomeFits
  <2>3. CASE task[t].at = "node"
    <3>1. TaskEnds(t, "cancelled")
      BY <1>8, <2>1, <2>3 DEF Cancelled, NodeKilled, TaskEnds
    <3> QED
      BY <2>1, <2>2, <3>1, TaskEndsKeeps
  <2>4. CASE task[t].at \in {"launch", "close"}
    <3>1. TaskEnds(t, "cancelled")
      BY <1>8, <2>4 DEF Cancelled
    <3> QED
      BY <2>1, <2>2, <3>1, TaskEndsKeeps
  <2>5. CASE task[t].at \in {"load", "shoot"}
    <3>1. /\ task' = [task EXCEPT ![t].at = "close", ![t].cancelled = FALSE, ![t].outcome = "cancelled"]
          /\ UNCHANGED raised
      BY <1>8, <2>5 DEF Cancelled
    <3> QED
      BY <2>1, <2>2, <3>1, TaskClosesKeeps
  <2> QED
    BY <1>8, <2>3, <2>4, <2>5 DEF Cancelled
<1>9. CASE Node(t)
  <2>1. task[t].at = "node" /\ t # "images"
    BY <1>0, <1>9 DEF Node, Runs, TaskKept
  <2>2. CASE TaskEnds(t, "execution") /\ faulty' = TRUE /\ UNCHANGED shown
    <3>1. TaskStep(t)
      BY <1>0, <1>9, <2>2 DEF Node, TaskStep
    <3> QED
      BY <1>2, <2>1, <2>2, <3>1, TaskEndsKeeps
  <2>3. CASE UNCHANGED faulty /\ \E n \in deck.slides :
               /\ shown' = [shown EXCEPT ![t] = n]
               /\ TaskEnds(t, IF n = 0 THEN "execution" ELSE "done")
    <3>1. PICK n \in deck.slides :
               /\ shown' = [shown EXCEPT ![t] = n]
               /\ TaskEnds(t, IF n = 0 THEN "execution" ELSE "done")
      BY <2>3
    <3>2. TaskStep(t)
      BY <1>0, <1>9, <2>3, <3>1 DEF Node, TaskStep
    <3>3. OutcomeFits(t, IF n = 0 THEN "execution" ELSE "done")
      BY <1>0, <2>1, <3>1 DEF OutcomeFits, Failures
    <3> QED
      BY <2>1, <3>1, <3>2, <3>3, TaskEndsKeeps
  <2> QED
    BY <1>9, <2>2, <2>3 DEF Node
<1> QED
  BY <1>3, <1>4, <1>5, <1>6, <1>7, <1>8, <1>9


\* Before there are tasks, and when they are gone with the container.
LEMMA NoTasksKeep ==
  ASSUME task' = [t \in Tasks |-> NoTask]
  PROVE  /\ task' \in [Tasks -> TaskStates]
         /\ \A t \in Tasks : TaskKept(t)'
         /\ \A t \in Tasks : task'[t].at = "none" /\ task'[t].outcome = "none"
<1>1. \A t \in Tasks : task'[t] = NoTask
  OBVIOUS
<1>2. NoTask \in TaskStates
  BY DEF NoTask, TaskStates
<1> QED
  BY <1>1, <1>2 DEF TaskKept, NoTask

\* The program's steps up to the tasks.
LEMMA EarlyStepsKeep ==
  ASSUME SlidesInv,
         StartSlides \/ CheckConfiguration \/ CheckEnvironment \/ SaveAssets \/ Serve
  PROVE  SlidesInv'
<1>0. /\ SlidesType /\ SettingsKept /\ PhaseKept /\ DeckKept
      /\ \A t \in Tasks : TaskKept(t)
      /\ \A n \in Nat : VerdictKept(n)
  BY DEF SlidesInv, SlidesKept
<1>1. phase \in Early /\ raised = "none" /\ archive' = archive /\ archive = 0
      /\ task = [t \in Tasks |-> NoTask] /\ exit = -1 /\ server' \in BOOLEAN /\ shown' = shown
  BY <1>0 DEF StartSlides, CheckConfiguration, CheckEnvironment, SaveAssets, Serve, Early, PhaseKept,
     SlidesType
<1>2. CASE Serve /\ phase' = "gather"
  <2>1. task' = [t \in Tasks |-> [NoTask EXCEPT !.at = "launch"]]
    BY <1>2 DEF Serve
  <2>2. \A t \in Tasks : /\ task'[t].at = "launch" /\ task'[t].outcome = "none"
                         /\ ~task'[t].alive /\ ~task'[t].cancelled
    BY <2>1 DEF NoTask
  <2>3. task' \in [Tasks -> TaskStates]
    BY <2>1 DEF NoTask, TaskStates
  <2>4. SlidesType'
    BY <1>0, <1>2, <2>3 DEF Serve, SlidesType, Phases
  <2>5. \A t \in Tasks : TaskKept(t)'
    BY <2>2 DEF TaskKept
  <2>6. \A n \in Nat : VerdictKept(n)'
    BY <1>1, <1>2, <2>2 DEF Serve, VerdictKept
  <2> QED
    BY <1>0, <1>1, <1>2, <2>2, <2>4, <2>5, <2>6 DEF Serve, SlidesInv, SlidesKept, SettingsKept, PhaseKept,
       DeckKept, Early
<1>3. CASE Serve /\ phase' = "remove"
  <2>1. /\ task' = task /\ raised' \in {"other", "validation"} /\ faulty' = TRUE
        /\ phase = "serve" /\ UNCHANGED <<settings, deck, workspace, server, shown, archive, exit>>
    BY <1>3 DEF Serve, Faults
  <2>2. /\ task' \in [Tasks -> TaskStates]
        /\ \A t \in Tasks : TaskKept(t)'
        /\ \A t \in Tasks : task'[t].at = "none" /\ task'[t].outcome = "none"
    BY <1>1, <2>1, NoTasksKeep
  <2>3. SlidesType'
    BY <1>0, <1>3, <2>1, <2>2 DEF SlidesType, Phases
  <2>4. PhaseKept'
    BY <1>1, <1>3, <2>1, <2>2 DEF PhaseKept, Early
  <2>5. DeckKept' /\ SettingsKept' /\ \A n \in Nat : VerdictKept(n)'
    BY <1>0, <1>3, <2>1 DEF DeckKept, SettingsKept, VerdictKept
  <2> QED
    BY <2>2, <2>3, <2>4, <2>5 DEF SlidesInv, SlidesKept
<1>4. CASE ~Serve
  <2>0. task' = task /\ raised' = raised
    BY <1>4 DEF StartSlides, CheckConfiguration, CheckEnvironment, SaveAssets
  <2>1. /\ task' \in [Tasks -> TaskStates]
        /\ \A t \in Tasks : TaskKept(t)'
        /\ \A t \in Tasks : task'[t].at = "none" /\ task'[t].outcome = "none"
    BY <1>1, <2>0, NoTasksKeep
  <2>2. /\ phase' \in Early \cup {"done"} /\ phase' # "idle"
        /\ phase' = "done" => exit' \in {1, 2}
        /\ phase' # "done" => exit' = exit
    BY <1>4 DEF StartSlides, CheckConfiguration, CheckEnvironment, SaveAssets, Raises, ExitCode, Early, Breaks, Faults
  <2>3. PhaseKept'
    BY <1>1, <2>0, <2>1, <2>2 DEF PhaseKept, Early
  <2>4. settings' \in Settings /\ SettingsKept'
    <3>1. CASE StartSlides
      BY <3>1 DEF StartSlides, RenderEnvironment, Accepted, SettingsKept
    <3>2. CASE CheckConfiguration
      <4>1. settings \in Settings /\ settings \in Accepted
        BY <1>0, <3>2 DEF CheckConfiguration, SlidesType, SettingsKept
      <4> QED
        BY <3>2, <4>1, FallbackValidates DEF CheckConfiguration, SettingsKept, Raises
    <3>3. CASE CheckEnvironment
      BY <1>0, <3>3 DEF CheckEnvironment, SlidesType, SettingsKept, Raises, Breaks
    <3>4. CASE SaveAssets
      BY <1>0, <3>4 DEF SaveAssets, SlidesType, SettingsKept, Raises, Breaks
    <3> QED
      BY <1>4, <3>1, <3>2, <3>3, <3>4
  <2>5. workspace' \in BOOLEAN /\ faulty' \in BOOLEAN /\ (faulty => faulty')
    BY <1>0, <1>4 DEF StartSlides, CheckConfiguration, CheckEnvironment, SaveAssets, SlidesType, Raises, Breaks
  <2>6. SlidesType'
    BY <1>0, <1>1, <2>0, <2>1, <2>2, <2>4, <2>5 DEF SlidesType, Phases, Early
  <2>7. DeckKept'
    <3>1. CASE StartSlides \/ CheckEnvironment \/ SaveAssets
      BY <1>0, <3>1 DEF StartSlides, CheckEnvironment, SaveAssets, DeckKept, Raises, ExitCode, Breaks, Faults
    <3>2. CASE CheckConfiguration
      BY <1>0, <3>2 DEF CheckConfiguration, DeckKept, Raises
    <3> QED
      BY <1>4, <3>1, <3>2
  <2>8. phase' = "done" => faulty' \/ deck'.assets = "refused"
    BY <1>4 DEF StartSlides, CheckConfiguration, CheckEnvironment, SaveAssets, Breaks
  <2>9. \A n \in Nat : VerdictKept(n)'
    <3> SUFFICES ASSUME NEW n \in Nat, ~faulty' PROVE VerdictKept(n)'
      BY DEF VerdictKept
    <3>1. phase' = "done" => deck'.assets # "ok"
      BY <2>8
    <3> QED
      BY <1>1, <2>0, <2>1, <2>2, <3>1 DEF VerdictKept, Early
  <2> QED
    BY <2>1, <2>3, <2>4, <2>6, <2>7, <2>9 DEF SlidesInv, SlidesKept
<1>5. Serve => phase' \in {"gather", "remove"}
  BY DEF Serve
<1> QED
  BY <1>2, <1>3, <1>4, <1>5

\* What follows the tasks.
LEMMA LateStepsKeep ==
  ASSUME SlidesInv, GatherRaises \/ StopServer \/ CheckOutput \/ RemoveWorkspace \/ WriteArchive
  PROVE  SlidesInv'
<1>0. /\ SlidesType /\ SettingsKept /\ PhaseKept /\ DeckKept
      /\ \A t \in Tasks : TaskKept(t)
      /\ \A n \in Nat : VerdictKept(n)
  BY DEF SlidesInv, SlidesKept
<1>1. phase \in {"gather", "settle", "check", "remove", "write"} /\ exit = -1
      /\ settings' = settings /\ deck' = deck /\ shown' = shown
  BY <1>0 DEF GatherRaises, StopServer, CheckOutput, RemoveWorkspace, WriteArchive, PhaseKept
<1>2. CASE GatherRaises
  <2>1. task' = CancelOthers /\ phase' = "settle" /\ raised # "none" /\ raised' = raised
        /\ exit' = exit /\ faulty' = faulty /\ server' = server /\ workspace' = workspace
        /\ archive' = archive
    BY <1>2 DEF GatherRaises
  <2>2. \A t \in Tasks : /\ task[t] \in TaskStates /\ task'[t].at = task[t].at
                         /\ task'[t].alive = task[t].alive /\ task'[t].outcome = task[t].outcome
    BY <1>0, <2>1 DEF CancelOthers, SlidesType, TaskStates
  <2>3. task' \in [Tasks -> TaskStates]
    <3>1. ASSUME NEW t \in Tasks, NEW c \in BOOLEAN PROVE [task[t] EXCEPT !.cancelled = c] \in TaskStates
      BY <2>2 DEF TaskStates
    <3>2. \A t \in Tasks : CancelOthers[t] \in TaskStates
      BY <3>1 DEF CancelOthers
    <3> QED
      BY <2>1, <3>2 DEF CancelOthers
  <2>4. SlidesType'
    BY <1>0, <1>1, <2>1, <2>3 DEF SlidesType, Phases
  <2>5. \A t \in Tasks : TaskKept(t)'
    BY <1>0, <1>1, <2>1, <2>2 DEF TaskKept
  <2>6. PhaseKept'
    BY <1>1, <2>1 DEF PhaseKept, Early
  <2>7. DeckKept'
    BY <1>0, <1>1, <1>2, <2>1 DEF GatherRaises, DeckKept
  <2>8. \A n \in Nat : VerdictKept(n)'
    BY <1>0, <1>2, <1>1, <2>1, <2>2 DEF GatherRaises, VerdictKept
  <2> QED
    BY <1>0, <1>1, <1>2, <2>1, <2>4, <2>5, <2>6, <2>7, <2>8 DEF GatherRaises, SlidesInv, SlidesKept,
       SettingsKept
<1>3. CASE StopServer
  <2>1. /\ \A t \in Tasks : task[t].at = "ended"
        /\ task' = task /\ raised' = raised /\ exit' = exit /\ faulty' = faulty
        /\ workspace' = workspace /\ archive' = archive /\ server' = FALSE
        /\ phase' = IF raised = "none" THEN "check" ELSE "remove"
        /\ phase \in {"gather", "settle"}
    BY <1>3 DEF StopServer, Settled
  <2>2. raised = "none" => AllDone
    BY <1>0, <2>1 DEF AllDone, TaskKept
  <2>3. SlidesType'
    BY <1>0, <1>1, <2>1 DEF SlidesType, Phases
  <2>4. \A t \in Tasks : TaskKept(t)'
    BY <1>0, <1>1, <2>1 DEF TaskKept
  <2>5. PhaseKept'
    BY <1>0, <1>1, <2>1, <2>2 DEF PhaseKept, Early, AllDone
  <2>6. \A n \in Nat : VerdictKept(n)'
    <3> SUFFICES ASSUME NEW n \in Nat, deck.slides = {n}, ~faulty
                 PROVE  VerdictKept(n)'
      BY <1>1, <2>1 DEF VerdictKept
    <3>1. /\ \A t \in Tasks : task[t].outcome \in {"none", "done", "cancelled"} \cup Failures(n)
          /\ raised \in {"none"} \cup Failures(n)
      BY <1>0, <2>1 DEF VerdictKept
    <3>2. n \in 1..MaxSlides => Failures(n) = {}
      BY DecksAssumption DEF Failures
    <3> QED
      BY <2>1, <3>1, <3>2 DEF VerdictKept
  <2> QED
    BY <1>0, <1>1, <2>1, <2>3, <2>4, <2>5, <2>6 DEF SlidesInv, SlidesKept, SettingsKept, DeckKept
<1>4. CASE CheckOutput
  <2>1. /\ phase = "check" /\ phase' = "remove" /\ raised = "none" /\ AllDone
        /\ task' = task /\ exit' = exit /\ server' = server /\ workspace' = workspace
    BY <1>0, <1>4 DEF CheckOutput, PhaseKept
  <2>0. MaxOutput \in Nat
    BY DecksAssumption
  <2>2. /\ faulty' \in {faulty, TRUE}
        /\ raised' \in {"none", "validation", "execution", "other"}
        /\ raised' \in {"execution", "other"} => faulty' = TRUE
        /\ archive' = archive \/ archive' \in 1..MaxOutput + 1
        /\ raised' = "none" => archive' \in 1..MaxOutput
    <3>1. CASE raised' \in {"execution"} \cup Faults /\ faulty' = TRUE /\ UNCHANGED archive
      BY <3>1 DEF Faults
    <3>2. ASSUME NEW pptx \in 1..MaxOutput, NEW images \in 1..MaxOutput, UNCHANGED faulty,
                 IF pptx + images > MaxOutput
                 THEN raised' = "validation" /\ UNCHANGED archive
                 ELSE \E size \in 1..MaxOutput + 1 :
                        /\ archive' = size
                        /\ raised' = IF ArchiveFits THEN "none" ELSE "validation"
          PROVE  /\ raised' \in {"none", "validation"} /\ faulty' = faulty
                 /\ archive' = archive \/ archive' \in 1..MaxOutput + 1
                 /\ raised' = "none" => archive' \in 1..MaxOutput
      BY <2>0, <3>2 DEF ArchiveFits
    <3> QED
      BY <1>4, <3>1, <3>2 DEF CheckOutput
  <2>3. SlidesType'
    <3>1. archive \in 0..MaxOutput + 1 /\ faulty \in BOOLEAN
      BY <1>0 DEF SlidesType
    <3>2. archive' \in 0..MaxOutput + 1
      BY <2>0, <2>2, <3>1
    <3>3. faulty' \in BOOLEAN
      BY <2>2, <3>1
    <3> QED
      BY <1>0, <1>1, <2>1, <2>2, <3>2, <3>3 DEF SlidesType, Phases
  <2>4. \A t \in Tasks : TaskKept(t)'
    BY <1>0, <1>1, <2>1 DEF TaskKept
  <2>5. PhaseKept'
    BY <1>1, <2>1, <2>2 DEF PhaseKept, Early, AllDone
  <2>6. \A n \in Nat : VerdictKept(n)'
    <3> SUFFICES ASSUME NEW n \in Nat, deck.slides = {n}, ~faulty'
                 PROVE  VerdictKept(n)'
      BY <1>1 DEF VerdictKept
    <3>1. shown["images"] \in deck.slides /\ shown["images"] \in 1..MaxSlides
      BY <1>0, <2>1 DEF TaskKept, AllDone, Tasks
    <3>2. n \in 1..MaxSlides
      BY <3>1
    <3>3. raised' \in {"none", "validation"}
      BY <2>2
    <3> QED
      BY <2>1, <3>2, <3>3 DEF VerdictKept, AllDone
  <2>7. SettingsKept' /\ DeckKept'
    <3>1. SettingsKept'
      BY <1>0, <1>1, <2>1 DEF SettingsKept
    <3>2. deck.assets = "refused" => faulty
      BY <1>0, <2>1 DEF DeckKept
    <3>3. faulty => faulty'
      BY <2>2
    <3> QED
      BY <1>0, <1>1, <3>1, <3>2, <3>3 DEF DeckKept
  <2> QED
    BY <2>3, <2>4, <2>5, <2>6, <2>7 DEF SlidesInv, SlidesKept
<1>5. CASE RemoveWorkspace
  <2>1. /\ phase = "remove" /\ task' = task /\ raised' = raised /\ server' = server
        /\ faulty' \in {faulty, TRUE} /\ archive' = archive /\ workspace' \in {workspace, FALSE}
        /\ \/ raised = "none" /\ phase' = "write" /\ exit' = exit
           \/ raised # "none" /\ phase' = "done" /\ exit' = ExitCode(raised)
           \/ faulty' /\ phase' = "done" /\ exit' \in {1, 2}
    BY <1>5 DEF RemoveWorkspace, Raises, Breaks, Faults, ExitCode
  <2>2. exit' \in {-1, 1, 2} /\ (exit' # -1 => phase' = "done")
    BY <1>0, <1>1, <2>1 DEF ExitCode, SlidesType
  <2>3. SlidesType'
    BY <1>0, <1>1, <2>1, <2>2 DEF SlidesType, Phases
  <2>4. \A t \in Tasks : TaskKept(t)'
    BY <1>0, <1>1, <2>1 DEF TaskKept
  <2>5. PhaseKept'
    BY <1>0, <1>1, <2>1, <2>2 DEF PhaseKept, Early, AllDone
  <2>6. \A n \in Nat : VerdictKept(n)'
    <3> SUFFICES ASSUME NEW n \in Nat, deck.slides = {n}, ~faulty'
                 PROVE  VerdictKept(n)'
      BY <1>1, <2>1 DEF VerdictKept
    <3>0. ~faulty
      BY <2>1
    <3>1. /\ \A t \in Tasks : task[t].outcome \in {"none", "done", "cancelled"} \cup Failures(n)
          /\ raised \in {"none"} \cup Failures(n) \/ (n \in 1..MaxSlides /\ raised = "validation")
          /\ n \in 1..MaxSlides => AllDone
      BY <1>0, <2>1, <3>0 DEF VerdictKept
    <3>2. CASE phase' = "write"
      BY <2>1, <3>1, <3>2 DEF VerdictKept
    <3>3. CASE phase' = "done"
      <4>1. CASE raised \in Failures(n)
        BY <2>1, <3>1, <3>3, <4>1 DEF VerdictKept
      <4>2. CASE n \in 1..MaxSlides /\ raised = "validation"
        <5>1. exit' = 2 /\ AllDone'
          BY <2>1, <3>1, <3>3, <4>2 DEF ExitCode, AllDone
        <5> QED
          BY <2>1, <3>1, <3>3, <4>2, <5>1 DEF VerdictKept
      <4> QED
        BY <2>1, <3>1, <3>3, <4>1, <4>2
    <3> QED
      BY <2>1, <3>2, <3>3
  <2>7. DeckKept'
    <3>1. deck.assets = "refused" => faulty
      BY <1>0, <2>1 DEF DeckKept
    <3>2. faulty => faulty'
      BY <2>1
    <3> QED
      BY <1>0, <1>1, <3>1, <3>2 DEF DeckKept
  <2> QED
    BY <1>0, <1>1, <2>1, <2>3, <2>4, <2>5, <2>6, <2>7 DEF SlidesInv, SlidesKept, SettingsKept
<1>6. CASE WriteArchive
  <2>1. /\ phase = "write" /\ phase' = "done" /\ task' = task /\ raised' = raised /\ server' = server
        /\ archive' = archive /\ workspace' = workspace
        /\ \/ exit' = 0 /\ faulty' = faulty
           \/ exit' \in {1, 2} /\ faulty' = TRUE
    BY <1>6 DEF WriteArchive, Raises, Breaks, Faults, ExitCode
  <2>2. AllDone /\ archive \in 1..MaxOutput /\ raised = "none"
    BY <1>0, <2>1 DEF PhaseKept
  <2>3. SlidesType'
    BY <1>0, <1>1, <2>1 DEF SlidesType, Phases
  <2>4. \A t \in Tasks : TaskKept(t)'
    BY <1>0, <1>1, <2>1 DEF TaskKept
  <2>5. PhaseKept'
    BY <1>0, <1>1, <2>1, <2>2 DEF PhaseKept, Early, AllDone
  <2>6. \A n \in Nat : VerdictKept(n)'
    <3> SUFFICES ASSUME NEW n \in Nat, deck.slides = {n}, ~faulty'
                 PROVE  VerdictKept(n)'
      BY <1>1 DEF VerdictKept
    <3>1. shown["images"] \in deck.slides /\ shown["images"] \in 1..MaxSlides
      BY <1>0, <2>2 DEF TaskKept, AllDone, Tasks
    <3>2. n \in 1..MaxSlides
      BY <3>1
    <3> QED
      BY <2>1, <2>2, <3>2 DEF VerdictKept, AllDone
  <2>7. DeckKept'
    BY <1>0, <1>1, <2>1 DEF DeckKept
  <2> QED
    BY <1>0, <1>1, <2>1, <2>3, <2>4, <2>5, <2>6, <2>7 DEF SlidesInv, SlidesKept, SettingsKept
<1> QED
  BY <1>2, <1>3, <1>4, <1>5, <1>6


LEMMA SlidesSteps == SlidesInv /\ [SlidesNext]_slidesVars => SlidesInv'
<1> SUFFICES ASSUME SlidesInv, [SlidesNext]_slidesVars PROVE SlidesInv'
  OBVIOUS
<1>0. /\ SlidesType /\ SettingsKept /\ PhaseKept /\ DeckKept
      /\ \A t \in Tasks : TaskKept(t)
      /\ \A n \in Nat : VerdictKept(n)
  BY DEF SlidesInv, SlidesKept
<1>1. CASE SlidesTeardown
  <2>1. /\ task' \in [Tasks -> TaskStates]
        /\ \A t \in Tasks : TaskKept(t)'
        /\ \A t \in Tasks : task'[t].at = "none" /\ task'[t].outcome = "none"
    BY <1>1, NoTasksKeep DEF SlidesTeardown
  <2>2. SlidesType'
    BY <1>0, <1>1, <2>1 DEF SlidesTeardown, SlidesType, Phases
  <2>3. PhaseKept'
    BY <1>0, <1>1 DEF SlidesTeardown, PhaseKept, Early
  <2>4. \A n \in Nat : VerdictKept(n)'
    BY <1>0, <1>1, <2>1 DEF SlidesTeardown, VerdictKept
  <2> QED
    BY <1>0, <1>1, <2>1, <2>2, <2>3, <2>4 DEF SlidesTeardown, SlidesInv, SlidesKept, SettingsKept, DeckKept
<1>2. CASE UNCHANGED slidesVars
  <2>1. \A n \in Nat : VerdictKept(n)'
    BY <1>0, <1>2 DEF slidesVars, VerdictKept, AllDone
  <2> QED
    BY <1>0, <1>2, <2>1 DEF slidesVars, SlidesInv, SlidesKept, SlidesType, SettingsKept, PhaseKept, DeckKept,
       TaskKept, AllDone
<1>3. CASE \E t \in Tasks : Launch(t) \/ Load(t) \/ Shoot(t) \/ Close(t) \/ Save(t) \/ Cancelled(t) \/ Node(t)
  BY <1>3, TaskActionsKeep
<1> QED
  BY <1>1, <1>2, <1>3, EarlyStepsKeep, LateStepsKeep DEF SlidesNext, RendererStep

LEMMA SlidesInvariant == Spec => []SlidesInv
<1>1. Init => SlidesInv
  BY SlidesStarts DEF Init
<1>2. SlidesInv /\ [Next]_sandboxVars => SlidesInv'
  BY ProgramMoves, SlidesSteps
<1> QED
  BY <1>1, <1>2, PTL DEF Spec

\* A gateway that starts hands the renderer settings that it only refuses for what the
\* gateway does not look at: the hosts in production, and a flag that is no boolean.
THEOREM ConfigurationAgreesHolds == Spec => []ConfigurationAgrees
BY SlidesInvariant, SlidesInvMeans, PTL

\* When the web server stops and the directory goes, no task, browser or node process is
\* left that could use them, however one task failed and wherever the other was
\* cancelled.
THEOREM QuietStopHolds == Spec => []QuietStop
BY SlidesInvariant, SlidesInvMeans, PTL

\* A rendering that succeeds is whole and within limits, and what a deck that does not
\* change is answered with depends on the deck, not on which task fails first.
THEOREM SlidesAnsweredHolds == Spec => []SlidesAnswered
BY SlidesInvariant, SlidesInvMeans, PTL
===============================================================================
