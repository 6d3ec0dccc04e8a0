-------------------------- MODULE CaptureOnDemand ---------------------------
(***************************************************************************)
(* What the server promises about capturing a monitor: the streamer is     *)
(* used while somebody watches, and only then; when the capture cannot     *)
(* start or is lost, the clients are disconnected rather than left with a  *)
(* frozen picture.                                                         *)
(***************************************************************************)
EXTENDS Naturals

CONSTANT Clients

VARIABLES
  watching,   \* connected VNC clients
  capturing   \* the streamer is in use

vars == <<watching, capturing>>

Init == watching = {} /\ capturing = FALSE

(* A client connects. *)
Join(c) ==
  /\ watching' = watching \cup {c}
  /\ UNCHANGED capturing

(* Some clients leave. *)
Leave(S) ==
  /\ watching' = watching \ S
  /\ UNCHANGED capturing

(* Somebody watches: the capture begins. *)
Begin ==
  /\ watching # {} /\ ~capturing
  /\ capturing' = TRUE
  /\ UNCHANGED watching

(* Nobody watches: the capture ends. *)
End ==
  /\ watching = {} /\ capturing
  /\ capturing' = FALSE
  /\ UNCHANGED watching

(* The capture fails or is lost: everybody is disconnected. *)
Lose ==
  /\ watching' = {}
  /\ capturing' = FALSE

Next ==
  \/ \E c \in Clients : Join(c)
  \/ \E S \in SUBSET Clients : Leave(S)
  \/ Begin
  \/ End
  \/ Lose

(* A watcher gets the capture unless everybody is disconnected or leaves,  *)
(* and a capture nobody watches ends unless somebody joins.                *)
Fairness ==
  /\ WF_vars(Begin)
  /\ WF_vars(End)

Safety == Init /\ [][Next]_vars
Spec == Safety /\ Fairness
=============================================================================
