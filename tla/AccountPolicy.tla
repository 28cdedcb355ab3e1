---------------------------- MODULE AccountPolicy ----------------------------
(***************************************************************************)
(* What the subu manager promises the host: the only account changes it    *)
(* ever makes, whatever commands run at the same time and wherever one of  *)
(* them dies.                                                              *)
(*   - It creates and deletes subu accounts only; the account of a masu    *)
(*     is never touched.                                                   *)
(*   - A user is created only when its own group exists, and a group is    *)
(*     deleted only when its user does not.                                *)
(*   - A user joins groups of its own owner only.                          *)
(***************************************************************************)
EXTENDS SubuPaths

CONSTANT Legacy     \* accounts that are there before the manager ever runs

VARIABLES users, groups, members

policyVars == <<users, groups, members>>

PolicyInit ==
  /\ users = Legacy
  /\ groups \subseteq Legacy
  /\ members = {}

AddGroup(path) ==
  /\ groups' = groups \cup {path}
  /\ UNCHANGED <<users, members>>

AddUser(path) ==
  /\ path \in groups
  /\ users' = users \cup {path}
  /\ UNCHANGED <<groups, members>>

Join(path, group) ==
  /\ SameOwner(path, group)
  /\ path \in users
  /\ group \in groups
  /\ members' = members \cup {<<path, group>>}
  /\ UNCHANGED <<users, groups>>

Leave(path, group) ==
  /\ members' = members \ {<<path, group>>}
  /\ UNCHANGED <<users, groups>>

\* The user goes with its memberships, and its group may go with it.
DropUser(path) ==
  /\ users' = users \ {path}
  /\ members' = {m \in members : m[1] # path}
  /\ \/ groups' = groups
     \/ /\ \A m \in members' : m[2] # path
        /\ groups' = groups \ {path}

DropGroup(path) ==
  /\ path \notin users
  /\ groups' = groups \ {path}
  /\ members' = {m \in members : m[2] # path}
  /\ UNCHANGED users

PolicyNext ==
  \E path \in Paths :
    \/ AddGroup(path)
    \/ AddUser(path)
    \/ DropUser(path)
    \/ DropGroup(path)
    \/ \E group \in Accounts : Join(path, group) \/ Leave(path, group)

PolicySpec == PolicyInit /\ [][PolicyNext]_policyVars
=============================================================================
