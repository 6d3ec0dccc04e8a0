----------------------------- MODULE MCFraming -----------------------------
(* Framing on a small instance: users copy on both ends. *)
EXTENDS Framing

Both == Ends
=============================================================================
