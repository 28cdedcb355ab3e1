-------------------------- MODULE MCTunnelRegistry --------------------------
(* Instances of TunnelRegistry for TLC. *)
EXTENDS TunnelRegistry, TLC

MCIfaces == <<"x6", "US">>

\* The tables are named after their interfaces, or one is renamed.
MCNamings == {("x6" :> "x6") @@ ("US" :> "US"), ("x6" :> "sub") @@ ("US" :> "US")}

MCForeign == {[num |-> 20, name |-> "lan"]}
=============================================================================
