--------------------------- MODULE MCReferenceModel ---------------------------
(***************************************************************************)
(* Instances of ReferenceModel for TLC: two updates of one token, the      *)
(* first of which takes effect a block after its announcement.             *)
(***************************************************************************)
EXTENDS ReferenceModel, TLC

CONSTANTS u1, u2, live1, live2, script1, db1, db2

Delays == u1 :> 1 @@ u2 :> 0
BothEvents == <<u2, u1>>
NoEvents == <<>>
OneDatabase == live1 :> db1 @@ script1 :> db1
TwoDatabases == live1 :> db1 @@ live2 :> db2
OneRowEach == [d \in Database |-> 1]
=============================================================================
