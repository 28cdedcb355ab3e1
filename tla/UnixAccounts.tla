---------------------------- MODULE UnixAccounts ----------------------------
(***************************************************************************)
(* The account database of the host, /etc/passwd and /etc/group, and what  *)
(* release/manager/infrastructure/unix.py does to it.                      *)
(*                                                                         *)
(* Each ensure_... function is a test followed by a command (groupadd,     *)
(* useradd, usermod, gpasswd, userdel, groupdel) that makes the same test  *)
(* again under the lock of the account files.  Whatever another process    *)
(* does in between, the outcome is one of: nothing to do at the test, the  *)
(* change at the command, or the command's failure, a RuntimeError.  So    *)
(* one atomic step and the possibility that the invocation dies before it  *)
(* (SubuManager's Abort) have the same outcomes as the two.                *)
(***************************************************************************)
EXTENDS SubuPaths

VARIABLES
  users,    \* accounts with an entry in /etc/passwd
  groups,   \* accounts with an entry in /etc/group
  members   \* <<user, group>>: user listed in gr_mem of group

accountVars == <<users, groups, members>>

\* ensure_unix_group: groupadd unless the group exists.
EnsureUnixGroup(group) ==
  /\ groups' = groups \cup {group}
  /\ UNCHANGED <<users, members>>

\* ensure_unix_user after its ensure_unix_group: useradd -g name, which fails
\* when the primary group is not there.
EnsureUnixUser(name) ==
  /\ name \in users \cup groups
  /\ users' = users \cup {name}
  /\ UNCHANGED <<groups, members>>

CanJoin(user, group) == user \in users /\ group \in groups

\* ensure_user_in_group, past its two RuntimeErrors: usermod -a -G.
JoinGroup(user, group) ==
  /\ CanJoin(user, group)
  /\ members' = members \cup {<<user, group>>}
  /\ UNCHANGED <<users, groups>>

\* remove_user_from_group: gpasswd -d, a no-op if any part is missing.
LeaveGroup(user, group) ==
  /\ members' = members \ {<<user, group>>}
  /\ UNCHANGED <<users, groups>>

WithoutUser(user) == {m \in members : m[1] # user}

WithoutGroup(group) == {m \in members : m[2] # group}

\* userdel: the entry and every supplementary membership go.  When
\* USERGROUPS_ENAB is set in login.defs, the group of the same name goes too
\* if it has no other member; both settings are in use.
DeleteUser(user) ==
  /\ users' = users \ {user}
  /\ members' = WithoutUser(user)
  /\ \/ groups' = groups
     \/ /\ \A m \in WithoutUser(user) : m[2] # user
        /\ groups' = groups \ {user}

\* groupdel: refused while the group is the primary group of a user.
DeleteGroup(group) ==
  /\ group \notin users
  /\ groups' = groups \ {group}
  /\ members' = WithoutGroup(group)
  /\ UNCHANGED users
=============================================================================
