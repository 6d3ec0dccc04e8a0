------------------------------ MODULE Channel ------------------------------
(***************************************************************************)
(* What one direction of a socket connection promises its users: messages  *)
(* arrive whole, in the order they were sent, each once, until the         *)
(* receiver loses the connection, or its place in it (cut).                *)
(* src/reframe-common/rf-common.h describes how messages are laid out on   *)
(* the socket; Framing shows when that layout keeps this promise.          *)
(***************************************************************************)
EXTENDS Naturals, Sequences

CONSTANT Message

VARIABLES sent,   \* messages handed to the connection
          got,    \* messages its other end delivered
          cut     \* the other end has lost the connection

vars == <<sent, got, cut>>

Init == /\ sent = <<>>
        /\ got = <<>>
        /\ cut = FALSE

Send == /\ \E m \in Message : sent' = Append(sent, m)
        /\ UNCHANGED <<got, cut>>

Deliver == /\ ~cut
           /\ Len(got) < Len(sent)
           /\ got' = Append(got, sent[Len(got) + 1])
           /\ UNCHANGED <<sent, cut>>

Cut == /\ cut' = TRUE
       /\ UNCHANGED <<sent, got>>

Next == Send \/ Deliver \/ Cut

Spec == Init /\ [][Next]_vars

Fairness == WF_vars(Deliver)
=============================================================================
