--------------------------- MODULE MCDeviceSession ---------------------------
(* Instances of DeviceSession for TLC. *)
EXTENDS DeviceSession, TLC

MCSubus == <<"US", "x6">>

\* Both partitions have a home for Thomas, one for Eve too; "Eagle2" begins
\* with "Eagle".
MCHolds == ("sda1" :> {"Thomas", "Eve"}) @@ ("sdb1" :> {"Thomas"})
MCLongerNames == ("Eagle" :> {"Eagle2"}) @@ ("Eagle2" :> {})
MCNoLongerNames == "Eagle" :> {}
=============================================================================
