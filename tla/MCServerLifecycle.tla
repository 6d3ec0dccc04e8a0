------------------------- MODULE MCServerLifecycle --------------------------
(* Instances of ServerLifecycle: three clients, so that two can be left     *)
(* while a third comes or goes.                                             *)
EXTENDS ServerLifecycle
=============================================================================
