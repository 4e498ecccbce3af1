--------------------------- MODULE MCEventPipeline ---------------------------
(***************************************************************************)
(* Instances of EventPipeline for TLC.                                     *)
(***************************************************************************)
EXTENDS EventPipeline, TLC

CONSTANT x1

OneOnFeed == x1 :> 1
NoneOnFeed == x1 :> 0
=============================================================================
