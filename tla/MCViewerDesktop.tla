--------------------------- MODULE MCViewerDesktop ---------------------------
(* Instances of ViewerDesktop: small monitors of two ratios, and requests   *)
(* that are wider than those and too narrow for the ratio to leave a pixel. *)
EXTENDS ViewerDesktop

CONSTANTS v1, v2

Wide == {[w |-> 4, h |-> 2], [w |-> 6, h |-> 4]}

(* The primary plane covers the monitor, or leaves a column. *)
Covering(m) == {m, [m EXCEPT !.w = @ - 1]}

Asked == {[w |-> 3, h |-> 1], [w |-> 3, h |-> 3]}

Unset == [w |-> 0, h |-> 0]
Forced == [w |-> 3, h |-> 0]
Beside == [w |-> 4, h |-> 0]
WholeDesktop == [w |-> 10, h |-> 4]
=============================================================================
