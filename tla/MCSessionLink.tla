---------------------------- MODULE MCSessionLink ----------------------------
(* Instances of SessionLink: a reframe-session and another program.        *)
EXTENDS SessionLink

CONSTANTS h1, h2, c1, c2
=============================================================================
