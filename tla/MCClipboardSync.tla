--------------------------- MODULE MCClipboardSync ---------------------------
(* Instances of ClipboardSync: two sessions, so that a text of one must    *)
(* not come to the other as its own.                                       *)
EXTENDS ClipboardSync

CONSTANTS s1, s2, w1, w2, a, b
=============================================================================
