-------------------------- MODULE MCDeviceRegistry --------------------------
(* Instances of DeviceRegistry for TLC. *)
EXTENDS DeviceRegistry, TLC

CONSTANTS D, E  \* two devices

MCTokens == {"T", "a", "b_"}
MCRefused == {"b_"}

\* A subu, a subu below it, and a directory whose name is refused.
MCPaths == {<<"T", "a">>, <<"T", "a", "a">>, <<"T", "b_">>}

\* One device holds both subu, the other the masu's empty directory.
MCTree == (D :> {<<"T">>, <<"T", "a">>, <<"T", "a", "a">>}) @@ (E :> {<<"T">>})
=============================================================================
