--------------------------- MODULE MCStreamerLink ---------------------------
(* Instances of StreamerLink: two connection identities are enough for one *)
(* that a dying streamer still holds and one the server has reopened.      *)
EXTENDS StreamerLink

CONSTANTS c1, c2
=============================================================================
