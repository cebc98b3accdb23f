------------------------ MODULE RenderConfiguration ------------------------
(***************************************************************************)
(* The settings of slide rendering, which are validated twice by code that *)
(* is written twice: by the gateway when it starts (app.py), and by the    *)
(* renderer in the container for every deck (slide_renderer/config.py),    *)
(* from the environment the gateway builds for it.  A setting the gateway  *)
(* accepts and the renderer refuses shows only when somebody renders.      *)
(***************************************************************************)
EXTENDS Integers

\* What the settings can be, as far as either side tells the difference.  Sizes and
\* times are only compared with each other: 1 and 2 give every outcome.
Sizes == 1..2
Settings ==
  [version : {"v1", "v2", "v3"}, timeout : Sizes, queueTimeout : Sizes, pageLoad : Sizes,
   body : Sizes, html : Sizes, asset : Sizes, totalAsset : Sizes, output : Sizes,
   production : BOOLEAN, anyHost : BOOLEAN, insecure : {"unset", "true", "false", "other"}]

\* What the renderer falls back to for a setting it is not given
Fallback ==
  [version |-> "v1", timeout |-> 1, queueTimeout |-> 1, pageLoad |-> 1, body |-> 2, html |-> 1,
   asset |-> 1, totalAsset |-> 2, output |-> 2, production |-> FALSE, anyHost |-> TRUE,
   insecure |-> "unset"]

\* validate_runtime_configuration of the gateway, what concerns rendering: the hosts,
\* and whether an insecure production is allowed, are not looked at.
GatewayValidates(s) ==
  /\ s.version \in {"v1", "v2"}
  /\ s.pageLoad <= s.timeout /\ s.queueTimeout <= s.timeout
  /\ s.body >= s.html /\ s.body >= s.totalAsset
  /\ s.totalAsset >= s.asset /\ s.output >= s.asset

\* Mutant: the timeout is not handed on.
RenderEnvironment_NoTimeout(s) == [s EXCEPT !.timeout = Fallback.timeout]

\* build_render_exec_environment hands every setting on.
RenderEnvironment(s) == s

\* What _get_bool makes of a value, and whether it complains
Allowed(s) == s.insecure = "true"
ParseErrors(s) == s.insecure = "other"

\* validate_runtime_configuration of the renderer: errors are fatal, warnings are if
\* they are not allowed.  Keys are required by default.
RendererErrors(s) ==
  \/ ParseErrors(s)
  \/ s.version \notin {"v1", "v2"}
  \/ s.totalAsset < s.asset \/ s.body < s.html \/ s.body < s.totalAsset
  \/ s.pageLoad > s.timeout \/ s.queueTimeout > s.timeout
  \/ s.output < s.asset
RendererWarnings(s) == s.production /\ s.anyHost
RendererValidates(s) == ~RendererErrors(s) /\ (RendererWarnings(s) => Allowed(s))

\* Settings a gateway starts with
Accepted == {s \in Settings : GatewayValidates(s)}
=============================================================================
