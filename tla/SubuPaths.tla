------------------------------ MODULE SubuPaths ------------------------------
(***************************************************************************)
(* The hierarchy of subu names.                                            *)
(*                                                                         *)
(* A subu path is the token list <<masu, s1, ..., sk>> of the command      *)
(* line.  subu_username joins it with '_' into one Unix name that serves   *)
(* as user name and as group name.  For tokens without inner blanks (and   *)
(* '_' is refused by _validate_token) that join is one to one, so the      *)
(* sequence itself stands for the Unix name; the masu's own account is     *)
(* the sequence <<masu>>.                                                  *)
(***************************************************************************)
EXTENDS Naturals, Sequences

CONSTANTS
  Tokens,   \* masu and leaf names, one token each
  Paths     \* the subu paths that commands may name

ASSUME PathsAssumption ==
  /\ Paths \subseteq Seq(Tokens)
  /\ \A path \in Paths : Len(path) >= 2

\* path[0] of the command line: the masu that owns the subu.
Owner(account) == account[1]

\* _parent_username, and the masu's account for a first-level subu.
Parent(path) == SubSeq(path, 1, Len(path) - 1)

\* _ancestor_group_names: the masu's group and the group of every proper
\* prefix, never the subu's own group.
AncestorGroups(path) == {SubSeq(path, 1, depth) : depth \in 1 .. Len(path) - 1}

Accounts == Paths \cup UNION {AncestorGroups(path) : path \in Paths}

Masus == {Owner(path) : path \in Paths}

\* Within one owner: what incommon and traversal may connect.
SameOwner(a, b) == Owner(a) = Owner(b)
=============================================================================
