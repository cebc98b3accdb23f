---------------------------- MODULE LatexRender ----------------------------
(***************************************************************************)
(* sandbox/render_latex.py: one LaTeX document, compiled in a container of *)
(* its own, and what the gateway lets through to it.                       *)
(*                                                                         *)
(* The gateway and the program read the same limits, the program from the  *)
(* environment the gateway gives it, and check the request one after the   *)
(* other with code of their own.  The program then writes the input files  *)
(* and main.tex to one directory, runs pdflatex there twice, and packs     *)
(* whatever main.pdf it finds.  pdflatex is external: it fails, or writes  *)
(* main.pdf, or has no page to write and leaves main.pdf as it was, or     *)
(* never ends.  Each pass has a timeout, LATEX_PDFLATEX_TIMEOUT_SECONDS,   *)
(* the gateway has one for both and the start of the program.              *)
(***************************************************************************)
EXTENDS Integers, Sequences, SequencesExt

CONSTANTS
  Inputs,      \* what an input file may be: name, encoding and size
  MaxInputs,   \* LATEX_MAX_INPUT_FILES
  MaxAsset,    \* LATEX_MAX_ASSET_BYTES
  MaxAssets,   \* LATEX_MAX_TOTAL_ASSET_BYTES
  MaxBundle,   \* LATEX_MAX_OUTPUT_BYTES
  BootTime,    \* bound on the time until pdflatex is started
  PassTime,    \* LATEX_PDFLATEX_TIMEOUT_SECONDS
  BundleTime   \* timeout of the gateway, LATEX_RENDER_TIMEOUT_SECONDS

\* The gateway takes no empty text for the content of a file, and base64 of one character
\* or more is one byte or more.
ASSUME InputsAssumption == \A f \in Inputs : f.size \in Nat \ {0}

\* A first pass that hangs ends before the gateway's patience does (defaults: 90 < 120).
ASSUME LatexAssumption ==
  /\ {MaxInputs, MaxAsset, MaxBundle, BootTime, PassTime, BundleTime} \subseteq Nat
  /\ BootTime + PassTime < BundleTime

VARIABLES
  stage,       \* where the program is
  document,    \* the request
  mainTex,     \* where main.tex comes from: nowhere, an input file, the request
  mainPdf,     \* where main.pdf comes from, and its size
  pass,        \* pdflatex passes begun
  passClock,   \* time spent in the present pass
  clock,       \* time since the gateway started the program
  bundle,      \* size of the archive, 0: none
  code         \* exit code, -1: none yet

latexVars == <<stage, document, mainTex, mainPdf, pass, passClock, clock, bundle, code>>
work == <<mainTex, mainPdf, pass, passClock, bundle>>

Names180 == {"fig", "main.tex", "main.pdf", "wide"}   \* same-directory names
Documents == [tex : {"text", "blank", "large"}, inputs : UNION {[1..n -> Inputs] : n \in 0..MaxInputs + 1}]
NoPdf == [from |-> "nowhere", size |-> 0]

-----------------------------------------------------------------------------
(***************************************************************************)
(* The two checks of a request                                             *)
(***************************************************************************)
Distinct(d) == \A i, j \in DOMAIN d.inputs : d.inputs[i].name = d.inputs[j].name => i = j
AssetBytes(d) == FoldSeq(LAMBDA f, n : f.size + n, 0, d.inputs)

\* Mutant: one input file more than the program takes.
GatewayAccepts_OneMore(d) ==
  /\ d.tex # "large" /\ Distinct(d) /\ Len(d.inputs) <= MaxInputs + 1
  /\ \A i \in DOMAIN d.inputs :
       /\ d.inputs[i].name \in Names180 /\ d.inputs[i].encoding = "base64"
       /\ d.inputs[i].size <= MaxAsset
  /\ AssetBytes(d) <= MaxAssets

\* LatexRenderRequest and validate_latex_payload_limits: any text that is not empty,
\* and base64 without a data: prefix
GatewayAccepts(d) ==
  /\ d.tex # "large" /\ Distinct(d) /\ Len(d.inputs) <= MaxInputs
  /\ \A i \in DOMAIN d.inputs :
       /\ d.inputs[i].name \in Names180 /\ d.inputs[i].encoding = "base64"
       /\ d.inputs[i].size <= MaxAsset
  /\ AssetBytes(d) <= MaxAssets

\* parse_request: the text must not be blank, a data: prefix is taken off
ParseAccepts(d) ==
  /\ d.tex = "text" /\ Distinct(d) /\ Len(d.inputs) <= MaxInputs
  /\ \A i \in DOMAIN d.inputs :
       /\ d.inputs[i].name \in Names180 /\ d.inputs[i].encoding \in {"base64", "data"}
       /\ d.inputs[i].size <= MaxAsset
  /\ AssetBytes(d) <= MaxAssets

-----------------------------------------------------------------------------
(***************************************************************************)
(* main                                                                    *)
(***************************************************************************)
Ends(c) == stage' = "done" /\ code' = c /\ UNCHANGED <<document, clock>>
Goes(s) == stage' = s /\ UNCHANGED <<document, clock, code>>

\* The gateway starts the program for a request it accepts.
StartLatex ==
  /\ stage = "idle"
  /\ document' \in {d \in Documents : GatewayAccepts(d)}
  /\ stage' = "parse"
  /\ UNCHANGED <<work, clock, code>>

ParseRequest ==
  /\ stage = "parse"
  /\ IF ParseAccepts(document) THEN Goes("inputs") ELSE Ends(2)
  /\ UNCHANGED work

InputNames == {document.inputs[i].name : i \in DOMAIN document.inputs}
SizeOf(n) == (CHOOSE f \in ToSet(document.inputs) : f.name = n).size

\* write_request_files, the input files.  A name of 180 characters may be longer
\* in UTF-8 than the file system takes, an error the program does not expect.
WriteInputs ==
  /\ stage = "inputs"
  /\ IF "wide" \in InputNames
     THEN Ends(1) /\ UNCHANGED <<mainTex, mainPdf>>
     ELSE /\ Goes("tex")
          /\ mainTex' = IF "main.tex" \in InputNames THEN "input" ELSE "nowhere"
          /\ mainPdf' = IF "main.pdf" \in InputNames THEN [from |-> "input", size |-> SizeOf("main.pdf")]
                        ELSE NoPdf
  /\ UNCHANGED <<pass, passClock, bundle>>

\* Mutant: main.tex is only written where there is none.
TexFrom_Input == IF mainTex = "input" THEN "input" ELSE "request"

\* main.tex is written last, over an input file of that name
TexFrom == "request"

WriteTex ==
  /\ stage = "tex"
  /\ Goes("compile")
  /\ mainTex' = TexFrom
  /\ pass' = 1
  /\ UNCHANGED <<mainPdf, passClock, bundle>>

\* A pass ends: with an error, which may take main.pdf with it, or well, with pages or
\* without any.
PassEnds ==
  /\ stage = "compile"
  /\ \/ /\ Ends(1)
        /\ mainPdf' \in {NoPdf, mainPdf}
        /\ UNCHANGED <<pass, passClock>>
     \/ /\ mainPdf' \in {mainPdf} \cup [from : {mainTex}, size : 1..MaxBundle + 1]
        /\ IF pass = 1 THEN Goes("compile") /\ pass' = 2 ELSE Goes("pdf") /\ UNCHANGED pass
        /\ passClock' = 0
  /\ UNCHANGED <<mainTex, bundle>>

\* Mutant: pdflatex is run without a timeout.
PassOver_Never == FALSE

\* Mutant: off by one.
PassOver_Late == passClock > PassTime

PassOver == passClock = PassTime

\* subprocess.run gives up and kills pdflatex
PassTimeout ==
  /\ stage = "compile"
  /\ PassOver
  /\ Ends(1)
  /\ UNCHANGED work

CheckPdf ==
  /\ stage = "pdf"
  /\ IF mainPdf # NoPdf THEN Goes("pack") ELSE Ends(1)
  /\ UNCHANGED work

\* build_archive: the PDF is measured before it is packed with the source and the log,
\* the archive after it was written; one too large stays where it is.
Pack ==
  /\ stage = "pack"
  /\ IF mainPdf.size > MaxBundle
     THEN Ends(1) /\ UNCHANGED bundle
     ELSE /\ bundle' \in 1..MaxBundle + 1
          /\ IF bundle' <= MaxBundle THEN Ends(0) ELSE Ends(1)
  /\ UNCHANGED <<mainTex, mainPdf, pass, passClock>>

\* Time passes while the program starts, while pdflatex runs and while the archive is
\* built.
LatexTick ==
  /\ clock < BundleTime
  /\ \/ stage = "parse" /\ clock < BootTime /\ UNCHANGED passClock
     \/ stage = "compile" /\ ~PassOver /\ passClock' = passClock + 1
     \/ stage = "pack" /\ UNCHANGED passClock
  /\ clock' = clock + 1
  /\ UNCHANGED <<stage, document, mainTex, mainPdf, pass, bundle, code>>

\* run_exec_with_timeout of the gateway removes the container
LatexTeardown ==
  /\ clock = BundleTime
  /\ stage \notin {"idle", "done", "down"}
  /\ stage' = "down"
  /\ UNCHANGED <<document, work, clock, code>>

LatexInit ==
  /\ stage = "idle" /\ document = [tex |-> "text", inputs |-> <<>>]
  /\ mainTex = "nowhere" /\ mainPdf = NoPdf /\ pass = 0 /\ passClock = 0
  /\ clock = 0 /\ bundle = 0 /\ code = -1

LatexStep ==
  \/ ParseRequest \/ WriteInputs \/ WriteTex \/ PassEnds \/ PassTimeout
  \/ CheckPdf \/ Pack \/ LatexTick \/ LatexTeardown

LatexNext == StartLatex \/ LatexStep

-----------------------------------------------------------------------------
\* Every variable keeps its type.
LatexType ==
  /\ stage \in {"idle", "parse", "inputs", "tex", "compile", "pdf", "pack", "done", "down"}
  /\ document \in Documents
  /\ mainTex \in {"nowhere", "input", "request"}
  /\ mainPdf \in [from : {"nowhere", "input", "request"}, size : 0..MaxBundle + MaxAsset + 1]
  /\ pass \in 0..2 /\ passClock \in 0..PassTime /\ clock \in 0..BundleTime
  /\ bundle \in 0..MaxBundle + 1 /\ code \in {-1, 0, 1, 2}

\* The program refuses a request the gateway let through, with code 2, for one reason
\* only: its text is blank.  Name, number, size and encoding of the input files are
\* settled at the gateway.
GatewayAgrees == code = 2 => document.tex = "blank"

\* A rendering that succeeds has gone through two whole passes, packs a PDF made from
\* the text of the request, even when an input file is named main.tex, and is within
\* its limits.  The one other PDF it can hold is an input file main.pdf, when
\* pdflatex had no page to write.
BundleWhole ==
  code = 0 =>
    /\ pass = 2 /\ mainTex = "request"
    /\ mainPdf.from = "request" \/ (mainPdf.from = "input" /\ "main.pdf" \in InputNames)
    /\ mainPdf.size \in 1..MaxBundle /\ bundle \in 1..MaxBundle

\* The gateway's timeout strikes in the second pass at the earliest.
FirstPassReported == stage = "down" => pass = 2

\* A document is answered with what became of it: with its own PDF, whole and within
\* limits, or with an error, when pdflatex hangs in its first pass as well.  Only a
\* document that spends long in both passes is cut off by the gateway.
LatexAnswered == BundleWhole /\ FirstPassReported
=============================================================================
