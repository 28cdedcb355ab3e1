---------------------------- MODULE MCTunnelHost ----------------------------
(* Instances of TunnelHost for TLC. *)
EXTENDS TunnelHost, TLC

MCIfaces == <<"x6", "US">>
MCIds == ("x6" :> 1) @@ ("US" :> 2)

\* rt_table_name is left to its default for x6 and set to another for US.
MCTables == ("x6" :> "x6") @@ ("US" :> "us_exit")

Plan(a, routed, uids) == [addr |-> a, routed |-> routed, uids |-> uids]

\* A first stage, and a second one in which x6 has another address and a
\* second user; US is in no user's use.
MCFirst ==
  [script |-> ("x6" :> Plan(1, TRUE, <<101>>)) @@ ("US" :> Plan(2, FALSE, <<>>)),
   conf |-> {"x6", "US"}, dropin |-> {"x6", "US"}, tables |-> {"x6", "US"}]

MCSecond ==
  [script |-> ("x6" :> Plan(3, TRUE, <<101, 103>>)),
   conf |-> {"x6"}, dropin |-> {"x6"}, tables |-> {"x6", "US"}]

MCTrees == {MCFirst, MCSecond}
MCInstalled == {MCFirst}
MCSelections == {{"x6", "US"}}
=============================================================================
