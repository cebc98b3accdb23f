----------------------------- MODULE MCSandbox -----------------------------
(***************************************************************************)
(* Instance of Sandbox for TLC.                                            *)
(***************************************************************************)
EXTENDS Sandbox

Plain(n) == [size |-> n, link |-> FALSE, readable |-> TRUE, removal |-> "done"]
\* A file that fits, one that cannot be read, one that stays when it is removed, one too
\* large, and a link whose removal raises
MCKinds == {Plain(2), [Plain(2) EXCEPT !.readable = FALSE], [Plain(2) EXCEPT !.removal = "ignored"],
            Plain(3), [Plain(1) EXCEPT !.link = TRUE, !.removal = "error"]}

Input(n, e, s) == [name |-> n, encoding |-> e, size |-> s]
MCInputs == {Input("fig", "base64", n) : n \in 1..3}
              \cup {Input("fig", "data", 1), Input("fig", "none", 1)}
              \cup {Input(n, "base64", 1) : n \in {"main.tex", "main.pdf", "wide", "a/b"}}

\* Decks that stay as they are, and two whose scripts add slides or take them away
MCDecks == {{0}, {1}, {2}, {3}, {0, 2}, {2, 3}}
=============================================================================
