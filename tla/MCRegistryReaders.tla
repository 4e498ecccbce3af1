--------------------------- MODULE MCRegistryReaders ---------------------------
(***************************************************************************)
(* An instance of RegistryReaders for TLC: two events of one token, with   *)
(* V1 on testnet and V2 on mainnet, as deployment.json has it.             *)
(***************************************************************************)
EXTENDS RegistryReaders, TLC

CONSTANTS e1, e2, t1

Facts == [token : {t1}, content : {"first", "second"}]
EachItsOwn == e1 :> [token |-> t1, content |-> "first"] @@ e2 :> [token |-> t1, content |-> "second"]
AsDeployed == "testnet" :> {"GapwatchRegistry"} @@ "mainnet" :> {"GapwatchRegistryV2"}
=============================================================================
