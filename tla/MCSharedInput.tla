---------------------------- MODULE MCSharedInput ----------------------------
(* Two keys with a symbol in common, like < and > of the usual layouts. *)
EXTENDS SharedInput

TwoKeys == (1 :> {11, 13}) @@ (2 :> {13, 21})
=============================================================================
