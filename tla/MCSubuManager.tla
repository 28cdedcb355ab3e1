---------------------------- MODULE MCSubuManager ----------------------------
(* Instances of SubuManager for TLC. *)
EXTENDS SubuManager, TLC

MCTokens == {"T", "U", "a", "b"}

\* One masu with a child, a grandchild and a sibling.
OneOwner == {<<"T", "a">>, <<"T", "a", "b">>, <<"T", "b">>}
HomesPresent == {<<"T", "a">>, <<"T", "b">>}
OneMasu == {<<"T">>}

\* Two masus; the second owns a legacy user that has no group of its own.
TwoOwners == {<<"T", "a">>, <<"T", "b">>, <<"U", "a">>}
TwoMasus == {<<"T">>, <<"U">>, <<"U", "a">>}
NoGroup == {<<"U", "a">>}

\* Invocations differ in nothing but their name.
ProcSymmetry == Permutations(Procs)
=============================================================================
