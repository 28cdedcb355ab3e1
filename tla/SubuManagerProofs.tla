-------------------------- MODULE SubuManagerProofs --------------------------
(***************************************************************************)
(* Proofs about SubuManager for any set of paths and invocations: types,   *)
(* what holds whatever runs concurrently and wherever an invocation dies   *)
(* (rows stay keyed, recorded users keep their group, no membership        *)
(* crosses from one masu to another), and the account policy.              *)
(***************************************************************************)
EXTENDS SubuManager, TLAPS

-----------------------------------------------------------------------------
(* The hierarchy of names. *)

\* Ancestor groups are accounts of the same owner.
LEMMA AncestorsOfOneOwner ==
  ASSUME NEW path \in Paths, NEW group \in AncestorGroups(path)
  PROVE  group \in Accounts /\ SameOwner(path, group)
<1>1. group \in Accounts
  BY DEF Accounts
<1>2. PICK depth \in 1 .. Len(path) - 1 : group = SubSeq(path, 1, depth)
  BY DEF AncestorGroups
<1>3. path \in Seq(Tokens)
  BY PathsAssumption
<1>4. Owner(group) = Owner(path)
  BY <1>2, <1>3 DEF Owner
<1>. QED  BY <1>1, <1>4 DEF SameOwner

\* Paths are accounts.
LEMMA PathsAreAccounts == Paths \subseteq Accounts
BY DEF Accounts

-----------------------------------------------------------------------------
(* Type correctness. *)

LEMMA TypeInit == Init => TypeOK
<1>. SUFFICES ASSUME Init PROVE TypeOK
  OBVIOUS
<1>1. NoOptions \in OptionValues
  BY DEF NoOptions, OptionValues, NoId
<1>2. NoCmd \in Commands
  BY DEF NoCmd, Commands, NoId
<1>3. AccountsTypeOK
  BY ManagerAssumption DEF Init, AccountsTypeOK
<1>4. StoresTypeOK
  BY <1>1 DEF Init, StoresTypeOK
<1>5. ProcsTypeOK
  BY <1>1, <1>2 DEF Init, ProcsTypeOK, Labels, Resting
<1>6. WorksOnPath
  BY DEF Init, WorksOnPath, Resting
<1>. QED  BY <1>3, <1>4, <1>5, <1>6 DEF Init, TypeOK

\* The parts of the type invariant that a step between two labels keeps.
ProcsOK == ProcsTypeOK /\ WorksOnPath

LEMMA GotoType ==
  ASSUME ProcsOK, NEW p \in Procs, NEW label \in Labels,
         Path(p) \in Paths, Goto(p, label)
  PROVE  ProcsOK'
BY DEF ProcsOK, ProcsTypeOK, WorksOnPath, Path, Goto

LEMMA LoopType ==
  ASSUME ProcsOK, NEW p \in Procs, NEW accounts \in SUBSET Accounts,
         NEW label \in Labels, NEW after \in Labels,
         Path(p) \in Paths, Loop(p, accounts, label, after)
  PROVE  ProcsOK'
BY DEF ProcsOK, ProcsTypeOK, WorksOnPath, Path, Loop

LEMMA ReturnType ==
  ASSUME ProcsOK, NEW p \in Procs, NEW result \in Resting, Return(p, result)
  PROVE  ProcsOK'
<1>1. NoOptions \in OptionValues
  BY DEF NoOptions, OptionValues, NoId
<1>2. NoCmd \in Commands
  BY DEF NoCmd, Commands, NoId
<1>3. ProcsTypeOK'
  BY <1>1, <1>2 DEF ProcsOK, ProcsTypeOK, Return, Labels
<1>4. WorksOnPath'
  BY DEF ProcsOK, ProcsTypeOK, WorksOnPath, Path, Return
<1>. QED  BY <1>3, <1>4 DEF ProcsOK

LEMMA IssueType ==
  ASSUME ProcsOK, NEW p \in Procs, NEW op \in Operations, NEW path \in Paths,
         NEW id \in Nat, NEW label \in Labels, Issue(p, op, path, id, label)
  PROVE  ProcsOK'
<1>1. [op |-> op, path |-> path, id |-> id] \in Commands
  BY DEF Commands
<1>2. ProcsTypeOK'
  BY <1>1 DEF ProcsOK, ProcsTypeOK, Issue
<1>3. WorksOnPath'
  BY DEF ProcsOK, ProcsTypeOK, WorksOnPath, Path, Issue
<1>. QED  BY <1>2, <1>3 DEF ProcsOK

LEMMA IssueCounts ==
  ASSUME issued \in Nat, NEW p, NEW op, NEW path, NEW id, NEW label,
         Issue(p, op, path, id, label)
  PROVE  issued' \in Nat
BY DEF Issue

LEMMA EmptyOptions == NoOptions \in OptionValues
BY DEF NoOptions, OptionValues, NoId

LEMMA LoadType ==
  ASSUME ProcsOK, NEW p \in Procs, NEW label \in Labels, Path(p) \in Paths,
         NEW content \in OptionValues,
         loaded' = [loaded EXCEPT ![p] = content],
         pc' = [pc EXCEPT ![p] = label], UNCHANGED <<cmd, todo>>
  PROVE  ProcsOK'
<1>1. ProcsTypeOK'
  BY DEF ProcsOK, ProcsTypeOK
<1>2. WorksOnPath'
  BY DEF ProcsOK, ProcsTypeOK, WorksOnPath, Path
<1>. QED  BY <1>1, <1>2 DEF ProcsOK

LEMMA SetIdType ==
  ASSUME ProcsOK, NEW p \in Procs, NEW label \in Labels, Path(p) \in Paths,
         NEW id \in Nat,
         cmd' = [cmd EXCEPT ![p].id = id],
         pc' = [pc EXCEPT ![p] = label], UNCHANGED <<todo, loaded>>
  PROVE  ProcsOK' /\ Path(p)' = Path(p)
<1>1. cmd[p] \in Commands
  BY DEF ProcsOK, ProcsTypeOK
<1>2. [cmd[p] EXCEPT !.id = id] \in Commands
  BY <1>1 DEF Commands
<1>3. cmd' = [cmd EXCEPT ![p] = [cmd[p] EXCEPT !.id = id]]
  OBVIOUS
<1>4. ProcsTypeOK'
  BY <1>2, <1>3 DEF ProcsOK, ProcsTypeOK
<1>5. \A q \in Procs : cmd'[q].path = cmd[q].path
  BY <1>1, <1>3 DEF ProcsOK, ProcsTypeOK, Commands
<1>6. WorksOnPath'
  BY <1>5 DEF ProcsOK, ProcsTypeOK, WorksOnPath, Path
<1>. QED  BY <1>4, <1>5, <1>6 DEF ProcsOK, Path

LEMMA IssueSchemaType ==
  ASSUME ProcsOK, NEW p \in Procs, Issue(p, "load schema", <<>>, NoId, "ddl")
  PROVE  ProcsOK'
<1>1. [op |-> "load schema", path |-> <<>>, id |-> NoId] \in Commands
  BY DEF Commands, Operations, NoId
<1>2. ProcsTypeOK'
  BY <1>1 DEF ProcsOK, ProcsTypeOK, Issue, Labels
<1>3. WorksOnPath'
  BY DEF ProcsOK, ProcsTypeOK, WorksOnPath, Path, Issue
<1>. QED  BY <1>2, <1>3 DEF ProcsOK

\* The account commands keep to accounts.
LEMMA AccountCommandType ==
  ASSUME AccountsTypeOK, NEW a \in Accounts, NEW b \in Accounts,
         \/ EnsureUnixGroup(a) \/ EnsureUnixUser(a)
         \/ JoinGroup(a, b) \/ LeaveGroup(a, b)
         \/ DeleteUser(a) \/ DeleteGroup(a)
         \/ UNCHANGED accountVars
  PROVE  AccountsTypeOK'
BY DEF AccountsTypeOK, accountVars, EnsureUnixGroup, EnsureUnixUser, JoinGroup,
       LeaveGroup, DeleteUser, DeleteGroup, WithoutUser, WithoutGroup

LEMMA AccountsUnchangedType ==
  ASSUME AccountsTypeOK, UNCHANGED accountVars
  PROVE  AccountsTypeOK'
BY DEF AccountsTypeOK, accountVars

\* The stores keep their types when none of them changes.
LEMMA StoresUnchangedType ==
  ASSUME StoresTypeOK, UNCHANGED <<registryVars, options, openHomes>>
  PROVE  StoresTypeOK'
BY DEF StoresTypeOK, registryVars

\* A working invocation has one of Paths in hand.
LEMMA AtWork ==
  ASSUME WorksOnPath, NEW p \in Procs, pc[p] \notin Resting \cup {"ddl"}
  PROVE  Path(p) \in Paths /\ Path(p) \in Accounts
BY PathsAreAccounts DEF WorksOnPath

LEMMA TypeNext == TypeOK /\ [Next]_vars => TypeOK'
<1>. SUFFICES ASSUME TypeOK, [Next]_vars PROVE TypeOK'
  OBVIOUS
<1>0. AccountsTypeOK /\ StoresTypeOK /\ ProcsOK /\ WorksOnPath /\ issued \in Nat
  BY DEF TypeOK, ProcsOK
<1>1. ASSUME NEW p \in Procs, LoadSchema(p) PROVE TypeOK'
  <2>2. AccountsTypeOK'
    BY <1>0, <1>1, AccountsUnchangedType DEF LoadSchema, accountsAndHomes
  <2>3. StoresTypeOK'
    BY <1>0, <1>1 DEF LoadSchema, accountsAndHomes, StoresTypeOK, CreateFile, DbFileStates
  <2>4. ProcsOK'
    BY <1>0, <1>1, IssueSchemaType DEF LoadSchema, Labels, Resting
  <2>5. issued' \in Nat
    BY <1>0, <1>1, IssueCounts DEF LoadSchema
  <2>. QED  BY <2>2, <2>3, <2>4, <2>5 DEF TypeOK, ProcsOK
<1>2. ASSUME NEW p \in Procs, ExecuteSchema(p) PROVE TypeOK'
  <2>2. AccountsTypeOK'
    BY <1>0, <1>2, AccountsUnchangedType DEF ExecuteSchema, accountsAndHomes
  <2>3. StoresTypeOK'
    BY <1>0, <1>2 DEF ExecuteSchema, accountsAndHomes, StoresTypeOK, CreateTable, DbFileStates, registryVars
  <2>4. ProcsOK'
    BY <1>0, <1>2, ReturnType DEF ExecuteSchema, Labels, Resting
  <2>. QED  BY <1>0, <1>2, <2>2, <2>3, <2>4 DEF TypeOK, ProcsOK, ExecuteSchema, At, Issue
<1>3. ASSUME NEW p \in Procs, EnsureOwnGroup(p) PROVE TypeOK'
  <2>1. Path(p) \in Paths /\ Path(p) \in Accounts
    BY <1>0, <1>3, AtWork DEF EnsureOwnGroup, At, Resting
  <2>2. AccountsTypeOK'
    BY <1>0, <1>3, <2>1, AccountCommandType DEF EnsureOwnGroup
  <2>3. StoresTypeOK'
    BY <1>0, <1>3, StoresUnchangedType DEF EnsureOwnGroup, accountsAndHomes
  <2>4. ProcsOK'
    BY <1>0, <1>3, <2>1, GotoType, LoopType, AncestorsOfOneOwner DEF EnsureOwnGroup, Labels, Resting
  <2>. QED  BY <1>0, <1>3, <2>2, <2>3, <2>4 DEF TypeOK, ProcsOK, EnsureOwnGroup, At, Issue
<1>4. ASSUME NEW p \in Procs, EnsureUser(p) PROVE TypeOK'
  <2>1. Path(p) \in Paths /\ Path(p) \in Accounts
    BY <1>0, <1>4, AtWork DEF EnsureUser, At, Resting
  <2>2. AccountsTypeOK'
    BY <1>0, <1>4, <2>1, AccountCommandType DEF EnsureUser
  <2>3. StoresTypeOK'
    BY <1>0, <1>4, StoresUnchangedType DEF EnsureUser, accountsAndHomes
  <2>4. ProcsOK'
    BY <1>0, <1>4, <2>1, LoopType, ReturnType, AncestorsOfOneOwner DEF EnsureUser, Labels, Resting
  <2>. QED  BY <1>0, <1>4, <2>2, <2>3, <2>4 DEF TypeOK, ProcsOK, EnsureUser, At, Issue
<1>5. ASSUME NEW p \in Procs, JoinAncestor(p) PROVE TypeOK'
  <2>1. Path(p) \in Paths /\ Path(p) \in Accounts
    BY <1>0, <1>5, AtWork DEF JoinAncestor, At, Resting
  <2>2. AccountsTypeOK'
    BY <1>0, <1>5, <2>1, AccountCommandType DEF JoinAncestor, ProcsOK, ProcsTypeOK
  <2>3. StoresTypeOK'
    BY <1>0, <1>5, StoresUnchangedType DEF JoinAncestor, accountsAndHomes
  <2>4. ProcsOK'
    BY <1>0, <1>5, <2>1, LoopType, ReturnType DEF JoinAncestor, Labels, Resting, ProcsOK, ProcsTypeOK
  <2>. QED  BY <1>0, <1>5, <2>2, <2>3, <2>4 DEF TypeOK, ProcsOK, JoinAncestor, At, Issue
<1>6. ASSUME NEW p \in Procs, InsertSubuRow(p) PROVE TypeOK'
  <2>1. Path(p) \in Paths /\ Path(p) \in Accounts
    BY <1>0, <1>6, AtWork DEF InsertSubuRow, At, Resting
  <2>2. AccountsTypeOK'
    BY <1>0, <1>6, AccountsUnchangedType DEF InsertSubuRow, accountsAndHomes
  <2>3. StoresTypeOK'
    BY <1>0, <1>6, <2>1 DEF InsertSubuRow, accountsAndHomes, StoresTypeOK, InsertRow, IsNextId, Rows, registryVars
  <2>4. ProcsOK'
    BY <1>0, <1>6, <2>1, GotoType, ReturnType DEF InsertSubuRow, Labels, Resting
  <2>. QED  BY <1>0, <1>6, <2>2, <2>3, <2>4 DEF TypeOK, ProcsOK, InsertSubuRow, At, Issue
<1>7. ASSUME NEW p \in Procs, ReadIncommon(p) PROVE TypeOK'
  <2>1. Path(p) \in Paths /\ Path(p) \in Accounts
    BY <1>0, <1>7, AtWork DEF ReadIncommon, At, Resting
  <2>0. options[Owner(Path(p))] \in Nat
    BY <1>0, <2>1 DEF StoresTypeOK, OptionValues, Masus
  <2>2. AccountsTypeOK'
    BY <1>0, <1>7, AccountsUnchangedType DEF ReadIncommon, accountsAndHomes
  <2>3. StoresTypeOK'
    BY <1>0, <1>7, StoresUnchangedType DEF ReadIncommon, accountsAndHomes
  <2>4. ProcsOK'
    BY <1>0, <1>7, <2>1, <2>0, ReturnType, SetIdType DEF ReadIncommon, Labels, Resting
  <2>. QED  BY <1>0, <1>7, <2>2, <2>3, <2>4 DEF TypeOK, ProcsOK, ReadIncommon, At, Issue
<1>8. ASSUME NEW p \in Procs, FindIncommon(p) PROVE TypeOK'
  <2>1. Path(p) \in Paths /\ Path(p) \in Accounts
    BY <1>0, <1>8, AtWork DEF FindIncommon, At, Resting
  <2>2. AccountsTypeOK'
    BY <1>0, <1>8, AccountsUnchangedType DEF FindIncommon, accountsAndHomes
  <2>3. StoresTypeOK'
    BY <1>0, <1>8, StoresUnchangedType DEF FindIncommon, accountsAndHomes
  <2>4. ProcsOK'
    BY <1>0, <1>8, <2>1, LoopType, ReturnType, PathsAreAccounts DEF FindIncommon, Labels, Resting, OwnersRow, PathsOfOwner, StoresTypeOK, Rows
  <2>. QED  BY <1>0, <1>8, <2>2, <2>3, <2>4 DEF TypeOK, ProcsOK, FindIncommon, At, Issue
<1>9. ASSUME NEW p \in Procs, JoinIncommon(p) PROVE TypeOK'
  <2>1. Path(p) \in Paths /\ Path(p) \in Accounts
    BY <1>0, <1>9, AtWork DEF JoinIncommon, At, Resting
  <2>2. AccountsTypeOK'
    BY <1>0, <1>9, <2>1, AccountCommandType DEF JoinIncommon, ProcsOK, ProcsTypeOK
  <2>3. StoresTypeOK'
    BY <1>0, <1>9, StoresUnchangedType DEF JoinIncommon, accountsAndHomes
  <2>4. ProcsOK'
    BY <1>0, <1>9, <2>1, ReturnType DEF JoinIncommon, Labels, Resting
  <2>. QED  BY <1>0, <1>9, <2>2, <2>3, <2>4 DEF TypeOK, ProcsOK, JoinIncommon, At, Issue
<1>10. ASSUME NEW p \in Procs, UserDel(p) PROVE TypeOK'
  <2>1. Path(p) \in Paths /\ Path(p) \in Accounts
    BY <1>0, <1>10, AtWork DEF UserDel, At, Resting
  <2>2. AccountsTypeOK'
    BY <1>0, <1>10, <2>1, AccountCommandType DEF UserDel
  <2>3. StoresTypeOK'
    BY <1>0, <1>10, StoresUnchangedType DEF UserDel, accountsAndHomes
  <2>4. ProcsOK'
    BY <1>0, <1>10, <2>1, GotoType DEF UserDel, Labels, Resting
  <2>. QED  BY <1>0, <1>10, <2>2, <2>3, <2>4 DEF TypeOK, ProcsOK, UserDel, At, Issue
<1>11. ASSUME NEW p \in Procs, GroupDel(p) PROVE TypeOK'
  <2>1. Path(p) \in Paths /\ Path(p) \in Accounts
    BY <1>0, <1>11, AtWork DEF GroupDel, At, Resting
  <2>2. AccountsTypeOK'
    BY <1>0, <1>11, <2>1, AccountCommandType DEF GroupDel
  <2>3. StoresTypeOK'
    BY <1>0, <1>11, StoresUnchangedType DEF GroupDel, accountsAndHomes
  <2>4. ProcsOK'
    BY <1>0, <1>11, <2>1, GotoType, ReturnType DEF GroupDel, Labels, Resting
  <2>. QED  BY <1>0, <1>11, <2>2, <2>3, <2>4 DEF TypeOK, ProcsOK, GroupDel, At, Issue
<1>12. ASSUME NEW p \in Procs, DeleteSubuRow(p) PROVE TypeOK'
  <2>1. Path(p) \in Paths /\ Path(p) \in Accounts
    BY <1>0, <1>12, AtWork DEF DeleteSubuRow, At, Resting
  <2>2. AccountsTypeOK'
    BY <1>0, <1>12, AccountsUnchangedType DEF DeleteSubuRow, accountsAndHomes
  <2>3. StoresTypeOK'
    BY <1>0, <1>12, <2>1 DEF DeleteSubuRow, accountsAndHomes, StoresTypeOK, DeleteRow, registryVars
  <2>4. ProcsOK'
    BY <1>0, <1>12, <2>1, ReturnType DEF DeleteSubuRow, Labels, Resting
  <2>. QED  BY <1>0, <1>12, <2>2, <2>3, <2>4 DEF TypeOK, ProcsOK, DeleteSubuRow, At, Issue
<1>13. ASSUME NEW p \in Procs, CheckCurrent(p) PROVE TypeOK'
  <2>1. Path(p) \in Paths /\ Path(p) \in Accounts
    BY <1>0, <1>13, AtWork DEF CheckCurrent, At, Resting
  <2>2. AccountsTypeOK'
    BY <1>0, <1>13, AccountsUnchangedType DEF CheckCurrent, accountsAndHomes
  <2>3. StoresTypeOK'
    BY <1>0, <1>13, StoresUnchangedType DEF CheckCurrent, accountsAndHomes
  <2>4. ProcsOK'
    BY <1>0, <1>13, <2>1, GotoType, ReturnType DEF CheckCurrent, Labels, Resting
  <2>. QED  BY <1>0, <1>13, <2>2, <2>3, <2>4 DEF TypeOK, ProcsOK, CheckCurrent, At, Issue
<1>14. ASSUME NEW p \in Procs, LoadOptions(p) PROVE TypeOK'
  <2>1. Path(p) \in Paths /\ Path(p) \in Accounts
    BY <1>0, <1>14, AtWork DEF LoadOptions, At, Resting
  <2>2. AccountsTypeOK'
    BY <1>0, <1>14, AccountsUnchangedType DEF LoadOptions, accountsAndHomes
  <2>3. StoresTypeOK'
    BY <1>0, <1>14, StoresUnchangedType DEF LoadOptions, accountsAndHomes
  <2>4. ProcsOK'
    BY <1>0, <1>14, <2>1, LoadType DEF LoadOptions, Labels, StoresTypeOK
  <2>. QED  BY <1>0, <1>14, <2>2, <2>3, <2>4 DEF TypeOK, ProcsOK, LoadOptions, At, Issue
<1>15. ASSUME NEW p \in Procs, TruncateFile(p) PROVE TypeOK'
  <2>1. Path(p) \in Paths /\ Path(p) \in Accounts
    BY <1>0, <1>15, AtWork DEF TruncateFile, At, Resting
  <2>2. AccountsTypeOK'
    BY <1>0, <1>15, AccountsUnchangedType DEF TruncateFile, accountsAndHomes
  <2>3. StoresTypeOK'
    BY <1>0, <1>15, <2>1 DEF TruncateFile, accountsAndHomes, StoresTypeOK, TruncateOptions, NoOptions, NoId, OptionValues, registryVars
  <2>4. ProcsOK'
    BY <1>0, <1>15, <2>1, GotoType DEF TruncateFile, Labels, Resting
  <2>. QED  BY <1>0, <1>15, <2>2, <2>3, <2>4 DEF TypeOK, ProcsOK, TruncateFile, At, Issue
<1>16. ASSUME NEW p \in Procs, WriteFile(p) PROVE TypeOK'
  <2>1. Path(p) \in Paths /\ Path(p) \in Accounts
    BY <1>0, <1>16, AtWork DEF WriteFile, At, Resting
  <2>2. AccountsTypeOK'
    BY <1>0, <1>16, AccountsUnchangedType DEF WriteFile, accountsAndHomes
  <2>3. StoresTypeOK'
    BY <1>0, <1>16, <2>1 DEF WriteFile, accountsAndHomes, StoresTypeOK, SaveOptions, ProcsOK, ProcsTypeOK, OptionValues, Commands, NoId, registryVars
  <2>4. ProcsOK'
    BY <1>0, <1>16, <2>1, LoadType, EmptyOptions DEF WriteFile, Labels
  <2>. QED  BY <1>0, <1>16, <2>2, <2>3, <2>4 DEF TypeOK, ProcsOK, WriteFile, At, Issue
<1>17. ASSUME NEW p \in Procs, SelectRows(p) PROVE TypeOK'
  <2>1. Path(p) \in Paths /\ Path(p) \in Accounts
    BY <1>0, <1>17, AtWork DEF SelectRows, At, Resting
  <2>2. AccountsTypeOK'
    BY <1>0, <1>17, AccountsUnchangedType DEF SelectRows, accountsAndHomes
  <2>3. StoresTypeOK'
    BY <1>0, <1>17, StoresUnchangedType DEF SelectRows, accountsAndHomes
  <2>4. ProcsOK'
    BY <1>0, <1>17, <2>1, LoopType, PathsAreAccounts DEF SelectRows, Labels, Resting, OwnersRow, PathsOfOwner, StoresTypeOK, Rows
  <2>. QED  BY <1>0, <1>17, <2>2, <2>3, <2>4 DEF TypeOK, ProcsOK, SelectRows, At, Issue
<1>18. ASSUME NEW p \in Procs, Grant(p) PROVE TypeOK'
  <2>1. Path(p) \in Paths /\ Path(p) \in Accounts
    BY <1>0, <1>18, AtWork DEF Grant, At, Resting
  <2>2. AccountsTypeOK'
    BY <1>0, <1>18, <2>1, AccountCommandType DEF Grant, ProcsOK, ProcsTypeOK
  <2>3. StoresTypeOK'
    BY <1>0, <1>18, StoresUnchangedType DEF Grant, accountsAndHomes
  <2>4. ProcsOK'
    BY <1>0, <1>18, <2>1, LoopType, ReturnType DEF Grant, Labels, Resting, ProcsOK, ProcsTypeOK
  <2>. QED  BY <1>0, <1>18, <2>2, <2>3, <2>4 DEF TypeOK, ProcsOK, Grant, At, Issue
<1>19. ASSUME NEW p \in Procs, Revoke(p) PROVE TypeOK'
  <2>1. Path(p) \in Paths /\ Path(p) \in Accounts
    BY <1>0, <1>19, AtWork DEF Revoke, At, Resting
  <2>2. AccountsTypeOK'
    BY <1>0, <1>19, <2>1, AccountCommandType DEF Revoke, ProcsOK, ProcsTypeOK
  <2>3. StoresTypeOK'
    BY <1>0, <1>19, StoresUnchangedType DEF Revoke, accountsAndHomes
  <2>4. ProcsOK'
    BY <1>0, <1>19, <2>1, LoopType DEF Revoke, Labels, Resting, ProcsOK, ProcsTypeOK
  <2>. QED  BY <1>0, <1>19, <2>2, <2>3, <2>4 DEF TypeOK, ProcsOK, Revoke, At, Issue
<1>20. ASSUME NEW p \in Procs, ChmodHome(p) PROVE TypeOK'
  <2>1. Path(p) \in Paths /\ Path(p) \in Accounts
    BY <1>0, <1>20, AtWork DEF ChmodHome, At, Resting
  <2>2. AccountsTypeOK'
    BY <1>0, <1>20, AccountsUnchangedType DEF ChmodHome, accountsAndHomes
  <2>3. StoresTypeOK'
    BY <1>0, <1>20, <2>1 DEF ChmodHome, accountsAndHomes, StoresTypeOK, registryVars
  <2>4. ProcsOK'
    BY <1>0, <1>20, <2>1, ReturnType DEF ChmodHome, Labels, Resting
  <2>. QED  BY <1>0, <1>20, <2>2, <2>3, <2>4 DEF TypeOK, ProcsOK, ChmodHome, At, Issue
<1>21. ASSUME NEW p \in Procs, Abort(p) PROVE TypeOK'
  <2>2. AccountsTypeOK'
    BY <1>0, <1>21, AccountsUnchangedType DEF Abort, accountsAndHomes
  <2>3. StoresTypeOK'
    BY <1>0, <1>21, StoresUnchangedType DEF Abort, accountsAndHomes
  <2>4. ProcsOK'
    BY <1>0, <1>21, ReturnType DEF Abort, Labels, Resting
  <2>. QED  BY <1>0, <1>21, <2>2, <2>3, <2>4 DEF TypeOK, ProcsOK, Abort, At, Issue
<1>22. ASSUME NEW p \in Procs, NEW path \in Paths, Make(p, path) PROVE TypeOK'
  <2>2. AccountsTypeOK'
    BY <1>0, <1>22, AccountsUnchangedType DEF Make, accountsAndHomes
  <2>3. StoresTypeOK'
    BY <1>0, <1>22, StoresUnchangedType DEF Make, accountsAndHomes
  <2>4. ProcsOK'
    BY <1>0, <1>22, IssueType DEF Make, Labels, Resting, Operations, NoId
  <2>. QED  BY <1>0, <1>22, <2>2, <2>3, <2>4 DEF TypeOK, ProcsOK, Make, Issue
<1>23. ASSUME NEW p \in Procs, NEW path \in Paths, Capture(p, path) PROVE TypeOK'
  <2>2. AccountsTypeOK'
    BY <1>0, <1>23, AccountsUnchangedType DEF Capture, accountsAndHomes
  <2>3. StoresTypeOK'
    BY <1>0, <1>23, StoresUnchangedType DEF Capture, accountsAndHomes
  <2>4. ProcsOK'
    BY <1>0, <1>23, IssueType DEF Capture, Labels, Resting, Operations, NoId
  <2>. QED  BY <1>0, <1>23, <2>2, <2>3, <2>4 DEF TypeOK, ProcsOK, Capture, Issue
<1>24. ASSUME NEW p \in Procs, NEW row \in rows, Remove(p, row) PROVE TypeOK'
  <2>2. AccountsTypeOK'
    BY <1>0, <1>24, AccountsUnchangedType DEF Remove, accountsAndHomes
  <2>3. StoresTypeOK'
    BY <1>0, <1>24, StoresUnchangedType DEF Remove, accountsAndHomes
  <2>4. ProcsOK'
    BY <1>0, <1>24, IssueType DEF Remove, Labels, Resting, Operations, NoId, StoresTypeOK, Rows
  <2>. QED  BY <1>0, <1>24, <2>2, <2>3, <2>4 DEF TypeOK, ProcsOK, Remove, Issue
<1>25. ASSUME NEW p \in Procs, NEW row \in rows, SetIncommon(p, row) PROVE TypeOK'
  <2>2. AccountsTypeOK'
    BY <1>0, <1>25, AccountsUnchangedType DEF SetIncommon, accountsAndHomes
  <2>3. StoresTypeOK'
    BY <1>0, <1>25, StoresUnchangedType DEF SetIncommon, accountsAndHomes
  <2>4. ProcsOK'
    BY <1>0, <1>25, IssueType DEF SetIncommon, Labels, Resting, Operations, NoId, StoresTypeOK, Rows
  <2>. QED  BY <1>0, <1>25, <2>2, <2>3, <2>4 DEF TypeOK, ProcsOK, SetIncommon, Issue
<1>26. ASSUME NEW p \in Procs, NEW row \in rows, ClearIncommon(p, row) PROVE TypeOK'
  <2>2. AccountsTypeOK'
    BY <1>0, <1>26, AccountsUnchangedType DEF ClearIncommon, accountsAndHomes
  <2>3. StoresTypeOK'
    BY <1>0, <1>26, StoresUnchangedType DEF ClearIncommon, accountsAndHomes
  <2>4. ProcsOK'
    BY <1>0, <1>26, IssueType DEF ClearIncommon, Labels, Resting, Operations, NoId, StoresTypeOK, Rows
  <2>. QED  BY <1>0, <1>26, <2>2, <2>3, <2>4 DEF TypeOK, ProcsOK, ClearIncommon, Issue
<1>27. CASE UNCHANGED vars
  BY <1>0, <1>27 DEF vars, TypeOK, AccountsTypeOK, StoresTypeOK, ProcsTypeOK, WorksOnPath, Path
<1>. QED
  BY <1>1, <1>2, <1>3, <1>4, <1>5, <1>6, <1>7, <1>8, <1>9, <1>10, <1>11, <1>12, <1>13, <1>14, <1>15, <1>16, <1>17, <1>18, <1>19, <1>20, <1>21, <1>22, <1>23, <1>24, <1>25, <1>26, <1>27
     DEF Next, Step, OnPath, OnRow


\* TypeOK: the variables only ever hold what the code can put there.
THEOREM TypeCorrect == Spec => []TypeOK
BY TypeInit, TypeNext, PTL DEF Spec

-----------------------------------------------------------------------------
(* Rows are keyed: an id and a Unix name each belong to one row. *)

RowsAreKeyed ==
  \A r, s \in rows : r.id = s.id \/ r.path = s.path => r = s

LEMMA RowsStep ==
  ASSUME [Next]_vars
  PROVE  \/ UNCHANGED rows
         \/ \E p \in Procs : InsertSubuRow(p) \/ DeleteSubuRow(p)
<1>1. ASSUME NEW p \in Procs, Step(p)
      PROVE  UNCHANGED rows \/ InsertSubuRow(p) \/ DeleteSubuRow(p)
  BY <1>1 DEF Step, OnPath, OnRow, LoadSchema, ExecuteSchema, EnsureOwnGroup,
     EnsureUser, JoinAncestor, ReadIncommon, FindIncommon, JoinIncommon, UserDel,
     GroupDel, CheckCurrent, LoadOptions, TruncateFile, WriteFile, SelectRows,
     Grant, Revoke, ChmodHome, Abort, Make, Capture, Remove, SetIncommon,
     ClearIncommon, registryVars, CreateFile, CreateTable
<1>. QED  BY <1>1 DEF Next, vars

LEMMA RowsNext ==
  StoresTypeOK /\ RowsAreKeyed /\ [Next]_vars => RowsAreKeyed'
<1>. SUFFICES ASSUME StoresTypeOK, RowsAreKeyed, [Next]_vars PROVE RowsAreKeyed'
  OBVIOUS
<1>1. ASSUME NEW p \in Procs, InsertSubuRow(p) PROVE RowsAreKeyed'
  <2>1. CASE ~CanInsert(Path(p))
    BY <1>1, <2>1 DEF InsertSubuRow, registryVars, RowsAreKeyed
  <2>2. CASE CanInsert(Path(p))
    <3>1. PICK id \in 1 .. MaxId : InsertRow(Path(p), id)
      BY <1>1, <2>2 DEF InsertSubuRow
    <3>2. \A row \in rows : row.id # id /\ row.path # Path(p)
      BY <3>1 DEF InsertRow, CanInsert, IsRecorded, IsNextId, StoresTypeOK, Rows
    <3>. QED  BY <3>1, <3>2 DEF InsertRow, RowsAreKeyed
  <2>. QED  BY <2>1, <2>2
<1>2. ASSUME NEW p \in Procs, DeleteSubuRow(p) PROVE RowsAreKeyed'
  BY <1>2 DEF DeleteSubuRow, DeleteRow, RowsAreKeyed
<1>. QED  BY <1>1, <1>2, RowsStep DEF RowsAreKeyed

-----------------------------------------------------------------------------
(* A step of one invocation leaves the others where they are. *)

Stays(p) == pc'[p] = pc[p] /\ cmd'[p] = cmd[p] /\ todo'[p] = todo[p]

LEMMA MoveOfOne ==
  ASSUME ProcsTypeOK, NEW p \in Procs, NEW q \in Procs, p # q,
         NEW op, NEW path, NEW id, NEW label, NEW after, NEW accounts,
         \/ Issue(q, op, path, id, label) \/ Goto(q, label)
         \/ Loop(q, accounts, label, after) \/ Return(q, label)
  PROVE  Stays(p)
BY DEF ProcsTypeOK, Issue, Goto, Loop, Return, Stays

LEMMA OthersStay ==
  ASSUME ProcsTypeOK, NEW p \in Procs, NEW q \in Procs, p # q, Step(q)
  PROVE  Stays(p)
<1>1. CASE LoadSchema(q) \/ \E path \in Paths : OnPath(q, path)
  BY <1>1, MoveOfOne DEF LoadSchema, OnPath, Make, Capture
<1>2. CASE \E row \in rows : OnRow(q, row)
  BY <1>2, MoveOfOne DEF OnRow, Remove, SetIncommon, ClearIncommon
<1>3. CASE EnsureOwnGroup(q) \/ EnsureUser(q) \/ JoinAncestor(q) \/ InsertSubuRow(q)
  BY <1>3, MoveOfOne DEF EnsureOwnGroup, EnsureUser, JoinAncestor, InsertSubuRow
<1>4. CASE FindIncommon(q) \/ JoinIncommon(q) \/ ExecuteSchema(q) \/ Abort(q)
  BY <1>4, MoveOfOne DEF FindIncommon, JoinIncommon, ExecuteSchema, Abort
<1>5. CASE UserDel(q) \/ GroupDel(q) \/ DeleteSubuRow(q)
  BY <1>5, MoveOfOne DEF UserDel, GroupDel, DeleteSubuRow
<1>6. CASE CheckCurrent(q) \/ TruncateFile(q) \/ SelectRows(q)
  BY <1>6, MoveOfOne DEF CheckCurrent, TruncateFile, SelectRows
<1>7. CASE Grant(q) \/ Revoke(q) \/ ChmodHome(q)
  BY <1>7, MoveOfOne DEF Grant, Revoke, ChmodHome
<1>8. CASE ReadIncommon(q)
  <2>1. CASE options[Owner(Path(q))] = NoId
    BY <1>8, <2>1, MoveOfOne DEF ReadIncommon
  <2>2. CASE options[Owner(Path(q))] # NoId
    BY <1>8, <2>2 DEF ReadIncommon, Stays, ProcsTypeOK
  <2>. QED  BY <2>1, <2>2
<1>9. CASE LoadOptions(q) \/ WriteFile(q)
  BY <1>9 DEF LoadOptions, WriteFile, Stays, ProcsTypeOK
<1>. QED  BY <1>1, <1>2, <1>3, <1>4, <1>5, <1>6, <1>7, <1>8, <1>9 DEF Step

-----------------------------------------------------------------------------
(* A recorded user has its group. *)

\* The account commands never leave a user without the group it had, and
\* groupadd ends the want of one.
LEMMA GrouplessStep ==
  ASSUME NEW a, NEW b,
         \/ EnsureUnixGroup(a) \/ EnsureUnixUser(a)
         \/ JoinGroup(a, b) \/ LeaveGroup(a, b)
         \/ DeleteUser(a) \/ DeleteGroup(a)
         \/ UNCHANGED accountVars
  PROVE  users' \ groups' \subseteq users \ groups
BY DEF accountVars, EnsureUnixGroup, EnsureUnixUser, JoinGroup, LeaveGroup,
       DeleteUser, DeleteGroup

\* The steps that come between groupadd and the row.
Recording(label) == label \in {"ensureUser", "join", "insert"}

LEMMA GrouplessNext ==
  TypeOK /\ GrouplessIsUntouched /\ [Next]_vars => GrouplessIsUntouched'
<1>. SUFFICES ASSUME TypeOK, GrouplessIsUntouched, [Next]_vars
              PROVE  GrouplessIsUntouched'
  OBVIOUS
<1>0. ProcsTypeOK
  BY DEF TypeOK
<1>1. users' \ groups' \subseteq users \ groups
  <2>1. ASSUME NEW p \in Procs, Step(p)
        PROVE  users' \ groups' \subseteq users \ groups
    BY <2>1, GrouplessStep
       DEF Step, OnPath, OnRow, LoadSchema, ExecuteSchema, EnsureOwnGroup,
           EnsureUser, JoinAncestor, InsertSubuRow, ReadIncommon, FindIncommon,
           JoinIncommon, UserDel, GroupDel, DeleteSubuRow, CheckCurrent,
           LoadOptions, TruncateFile, WriteFile, SelectRows, Grant, Revoke,
           ChmodHome, Abort, Make, Capture, Remove, SetIncommon, ClearIncommon,
           accountsAndHomes
  <2>. QED  BY <2>1, GrouplessStep DEF Next, vars, accountVars
<1>2. \A user \in users' \ groups' : \A row \in rows' : row.path # user
  <2>1. ASSUME NEW p \in Procs, InsertSubuRow(p), NEW row \in rows' \ rows
        PROVE  row.path \notin users \ groups
    BY <2>1 DEF InsertSubuRow, InsertRow, At, GrouplessIsUntouched, registryVars
  <2>2. ASSUME NEW p \in Procs, DeleteSubuRow(p) PROVE rows' \subseteq rows
    BY <2>2 DEF DeleteSubuRow, DeleteRow
  <2>. QED  BY <1>1, <2>1, <2>2, RowsStep DEF GrouplessIsUntouched
<1>3. ASSUME NEW user \in users' \ groups', NEW p \in Procs, Recording(pc'[p])
      PROVE  Path(p)' # user
  <2>1. CASE Recording(pc[p]) /\ Path(p)' = Path(p)
    BY <1>1, <2>1 DEF GrouplessIsUntouched, Recording
  <2>2. CASE ~(Recording(pc[p]) /\ Path(p)' = Path(p))
    <3>1. EnsureOwnGroup(p) \/ (Recording(pc[p]) /\ Path(p)' = Path(p))
      <4>1. ASSUME NEW q \in Procs, Step(q)
            PROVE  q = p \/ (pc'[p] = pc[p] /\ cmd'[p] = cmd[p])
        BY <1>0, <1>3, <4>1, OthersStay DEF Stays
      <4>2. CASE UNCHANGED <<pc, cmd>>
        BY <1>3, <4>2 DEF Path
      <4>3. ASSUME Step(p) PROVE EnsureOwnGroup(p) \/ (Recording(pc[p]) /\ Path(p)' = Path(p))
        BY <1>0, <1>3, <4>3
           DEF Step, OnPath, OnRow, LoadSchema, ExecuteSchema,
               EnsureUser, JoinAncestor, InsertSubuRow, ReadIncommon, FindIncommon,
               JoinIncommon, UserDel, GroupDel, DeleteSubuRow, CheckCurrent,
               LoadOptions, TruncateFile, WriteFile, SelectRows, Grant, Revoke,
               ChmodHome, Abort, Make, Capture, Remove, SetIncommon, ClearIncommon,
               Issue, Goto, Loop, Return, ProcsTypeOK, Recording, Resting, Path, At
      <4>. QED  BY <1>3, <4>1, <4>2, <4>3 DEF Next, vars, Path
    <3>2. Path(p) \in groups' /\ Path(p)' = Path(p)
      BY <2>2, <3>1 DEF EnsureOwnGroup, EnsureUnixGroup, Goto, Loop, Path
    <3>. QED  BY <3>2
  <2>. QED  BY <2>1, <2>2
<1>. QED  BY <1>2, <1>3 DEF GrouplessIsUntouched, Recording

\* GrouplessIsUntouched: an existing user without its own group is neither
\* recorded nor being recorded by a make or capture past its groupadd.
THEOREM GrouplessStayUntouched == Spec => []GrouplessIsUntouched
<1>1. Init => GrouplessIsUntouched
  BY DEF Init, GrouplessIsUntouched
<1>. QED  BY <1>1, GrouplessNext, TypeCorrect, PTL DEF Spec

\* RecordedUserHasGroup: a recorded subu never loses its group while its user
\* exists, for any number of makes, captures and removals at once.
THEOREM RecordedHasGroup == Spec => []RecordedUserHasGroup
<1>1. GrouplessIsUntouched => RecordedUserHasGroup
  BY DEF GrouplessIsUntouched, RecordedUserHasGroup
<1>. QED  BY <1>1, GrouplessStayUntouched, PTL

-----------------------------------------------------------------------------
(* Loops stay within one owner. *)

Looping(label) == label \in {"join", "joinIncommon", "grant", "revoke"}

\* LoopsWithinOwner, of one invocation.
LoopOK(p) ==
  Looping(pc[p]) => \A account \in todo[p] :
    /\ SameOwner(account, Path(p))
    /\ pc[p] \in {"grant", "revoke"} => account \in Paths

\* A loop over accounts of the command's owner.
LEMMA EnterLoop ==
  ASSUME ProcsTypeOK, NEW p \in Procs, NEW accounts, NEW label, NEW after,
         Loop(p, accounts, label, after), ~Looping(after),
         \A account \in accounts :
           /\ SameOwner(account, Path(p))
           /\ label \in {"grant", "revoke"} => account \in Paths
  PROVE  LoopOK(p)'
BY DEF ProcsTypeOK, Loop, LoopOK, Looping, Path

\* Every step that does not go into a loop.
LEMMA EnterNoLoop ==
  ASSUME ProcsTypeOK, NEW p \in Procs, ~Looping(pc'[p])
  PROVE  LoopOK(p)'
BY DEF LoopOK, Looping

LEMMA AncestorLoop ==
  ASSUME TypeOK, NEW p \in Procs, pc[p] \notin Resting \cup {"ddl"}
  PROVE  \A account \in AncestorGroups(Path(p)) : SameOwner(account, Path(p))
BY AncestorsOfOneOwner DEF TypeOK, WorksOnPath, SameOwner

LEMMA LoopStep ==
  ASSUME TypeOK, NEW p \in Procs, LoopOK(p), Step(p)
  PROVE  LoopOK(p)'
<1>0. ProcsTypeOK
  BY DEF TypeOK
<1>1. CASE EnsureOwnGroup(p)
  <2>1. \A account \in AncestorGroups(Path(p)) : SameOwner(account, Path(p))
    BY <1>1, AncestorLoop DEF EnsureOwnGroup, At, Resting
  <2>2. CASE cmd[p].op = "make"
    BY <1>0, <1>1, <2>2, EnterNoLoop DEF EnsureOwnGroup, Goto, Looping, ProcsTypeOK
  <2>3. CASE cmd[p].op # "make"
    BY <1>0, <1>1, <2>1, <2>3, EnterLoop DEF EnsureOwnGroup, Looping
  <2>. QED  BY <2>2, <2>3
<1>2. CASE EnsureUser(p)
  <2>1. \A account \in AncestorGroups(Path(p)) : SameOwner(account, Path(p))
    BY <1>2, AncestorLoop DEF EnsureUser, At, Resting
  <2>2. CASE Return(p, "error")
    BY <1>0, <2>2, EnterNoLoop DEF Return, Looping, ProcsTypeOK
  <2>. QED  BY <1>0, <1>2, <2>1, <2>2, EnterLoop DEF EnsureUser, Looping
<1>3. CASE JoinAncestor(p)
  <2>1. CASE Return(p, "error")
    BY <1>0, <2>1, EnterNoLoop DEF Return, Looping, ProcsTypeOK
  <2>2. \A account \in todo[p] : SameOwner(account, Path(p))
    BY <1>3 DEF JoinAncestor, At, LoopOK, Looping
  <2>. QED  BY <1>0, <1>3, <2>1, <2>2, EnterLoop DEF JoinAncestor, Looping
<1>4. CASE FindIncommon(p)
  <2>1. CASE Return(p, "ok")
    BY <1>0, <2>1, EnterNoLoop DEF Return, Looping, ProcsTypeOK
  <2>2. \A account \in OwnersRow(cmd[p].id, Owner(Path(p))) : SameOwner(account, Path(p))
    BY DEF OwnersRow, SameOwner
  <2>. QED  BY <1>0, <1>4, <2>1, <2>2, EnterLoop DEF FindIncommon, Looping
<1>5. CASE SelectRows(p)
  <2>1. \A account \in PathsOfOwner(Owner(Path(p))) :
          SameOwner(account, Path(p)) /\ account \in Paths
    BY DEF PathsOfOwner, SameOwner, TypeOK, StoresTypeOK, Rows
  <2>. QED  BY <1>0, <1>5, <2>1, EnterLoop DEF SelectRows, Looping
<1>6. CASE Grant(p) \/ Revoke(p)
  <2>1. CASE Return(p, "error")
    BY <1>0, <2>1, EnterNoLoop DEF Return, Looping, ProcsTypeOK
  <2>2. \A account \in todo[p] : SameOwner(account, Path(p)) /\ account \in Paths
    BY <1>6 DEF Grant, Revoke, At, LoopOK, Looping
  <2>3. CASE Grant(p)
    BY <1>0, <2>1, <2>2, <2>3, EnterLoop DEF Grant, Looping
  <2>4. CASE Revoke(p)
    BY <1>0, <2>2, <2>4, EnterLoop DEF Revoke, Looping
  <2>. QED  BY <1>6, <2>3, <2>4
<1>7. CASE \E path \in Paths : OnPath(p, path)
  BY <1>0, <1>7, EnterNoLoop DEF OnPath, Make, Capture, Issue, Looping, ProcsTypeOK
<1>8. CASE \E row \in rows : OnRow(p, row)
  BY <1>0, <1>8, EnterNoLoop
     DEF OnRow, Remove, SetIncommon, ClearIncommon, Issue, Looping, ProcsTypeOK
<1>9. CASE \/ LoadSchema(p) \/ ExecuteSchema(p) \/ InsertSubuRow(p)
           \/ ReadIncommon(p) \/ JoinIncommon(p) \/ Abort(p)
  BY <1>0, <1>9, EnterNoLoop
     DEF LoadSchema, ExecuteSchema, InsertSubuRow, ReadIncommon, JoinIncommon,
         Abort, Issue, Goto, Return, Looping, ProcsTypeOK
<1>10. CASE \/ UserDel(p) \/ GroupDel(p) \/ DeleteSubuRow(p) \/ CheckCurrent(p)
            \/ LoadOptions(p) \/ TruncateFile(p) \/ WriteFile(p) \/ ChmodHome(p)
  BY <1>0, <1>10, EnterNoLoop
     DEF UserDel, GroupDel, DeleteSubuRow, CheckCurrent, LoadOptions,
         TruncateFile, WriteFile, ChmodHome, Goto, Return, Looping, ProcsTypeOK
<1>. QED  BY <1>1, <1>2, <1>3, <1>4, <1>5, <1>6, <1>7, <1>8, <1>9, <1>10 DEF Step

LEMMA LoopsNext ==
  TypeOK /\ LoopsWithinOwner /\ [Next]_vars => LoopsWithinOwner'
<1>. SUFFICES ASSUME TypeOK, LoopsWithinOwner, [Next]_vars, NEW p \in Procs
              PROVE  LoopOK(p)'
  BY DEF LoopsWithinOwner, LoopOK, Looping
<1>1. LoopOK(p)
  BY DEF LoopsWithinOwner, LoopOK, Looping
<1>2. CASE Step(p)
  BY <1>1, <1>2, LoopStep
<1>3. CASE Stays(p)
  BY <1>1, <1>3 DEF Stays, LoopOK, Looping, Path
<1>4. ASSUME NEW q \in Procs, q # p, Step(q) PROVE Stays(p)
  BY <1>4, OthersStay DEF TypeOK
<1>5. CASE UNCHANGED vars
  BY <1>3, <1>5 DEF vars, Stays
<1>. QED  BY <1>2, <1>3, <1>4, <1>5 DEF Next

-----------------------------------------------------------------------------
(* Memberships stay within one owner. *)

Join(user, group) == JoinGroup(user, group) /\ SameOwner(user, group)

\* A step that adds a membership adds it within one owner.
LEMMA MembersStep ==
  ASSUME TypeOK, LoopsWithinOwner, NEW p \in Procs, Step(p)
  PROVE  \/ members' \subseteq members
         \/ \E user \in Paths, group \in Accounts : Join(user, group)
<1>1. CASE JoinAncestor(p) \/ JoinIncommon(p)
  <2>1. Path(p) \in Paths
    BY <1>1 DEF JoinAncestor, JoinIncommon, At, TypeOK, WorksOnPath, Resting
  <2>2. \A group \in todo[p] : SameOwner(Path(p), group) /\ group \in Accounts
    BY <1>1 DEF JoinAncestor, JoinIncommon, At, LoopsWithinOwner, SameOwner,
                TypeOK, ProcsTypeOK
  <2>. QED  BY <1>1, <2>1, <2>2 DEF JoinAncestor, JoinIncommon, Join, accountVars
<1>2. CASE Grant(p)
  <2>1. Path(p) \in Accounts
    BY <1>2, PathsAreAccounts DEF Grant, At, TypeOK, WorksOnPath, Resting
  <2>2. \A user \in todo[p] : SameOwner(user, Path(p)) /\ user \in Paths
    BY <1>2 DEF Grant, At, LoopsWithinOwner
  <2>. QED  BY <1>2, <2>1, <2>2 DEF Grant, Join, accountVars
<1>3. CASE Revoke(p) \/ UserDel(p) \/ GroupDel(p)
  BY <1>3 DEF Revoke, UserDel, GroupDel, LeaveGroup, DeleteUser, DeleteGroup,
              WithoutUser, WithoutGroup, accountVars
<1>4. CASE EnsureOwnGroup(p) \/ EnsureUser(p)
  BY <1>4 DEF EnsureOwnGroup, EnsureUser, EnsureUnixGroup, EnsureUnixUser, accountVars
<1>5. CASE \/ LoadSchema(p) \/ ExecuteSchema(p) \/ InsertSubuRow(p)
           \/ ReadIncommon(p) \/ FindIncommon(p) \/ DeleteSubuRow(p) \/ Abort(p)
  BY <1>5 DEF LoadSchema, ExecuteSchema, InsertSubuRow, ReadIncommon,
     FindIncommon, DeleteSubuRow, Abort, accountsAndHomes, accountVars
<1>6. CASE \/ CheckCurrent(p) \/ LoadOptions(p) \/ TruncateFile(p)
           \/ WriteFile(p) \/ SelectRows(p) \/ ChmodHome(p)
  BY <1>6 DEF CheckCurrent, LoadOptions, TruncateFile, WriteFile, SelectRows,
     ChmodHome, accountsAndHomes, accountVars
<1>7. CASE \/ \E path \in Paths : OnPath(p, path)
           \/ \E row \in rows : OnRow(p, row)
  BY <1>7 DEF OnPath, OnRow, Make, Capture, Remove, SetIncommon, ClearIncommon,
     accountsAndHomes, accountVars
<1>. QED  BY <1>1, <1>2, <1>3, <1>4, <1>5, <1>6, <1>7 DEF Step

LEMMA IsolationNext ==
  TypeOK /\ LoopsWithinOwner /\ OwnerIsolation /\ [Next]_vars => OwnerIsolation'
<1>. SUFFICES ASSUME TypeOK, LoopsWithinOwner, OwnerIsolation, [Next]_vars
              PROVE  OwnerIsolation'
  OBVIOUS
<1>1. CASE members' \subseteq members
  BY <1>1 DEF OwnerIsolation
<1>2. CASE \E user \in Paths, group \in Accounts : Join(user, group)
  BY <1>2 DEF OwnerIsolation, Join, JoinGroup
<1>. QED  BY <1>1, <1>2, MembersStep DEF Next, vars

\* LoopsWithinOwner: what a membership loop has still to visit is of the
\* owner of the command's subu, whatever the row it was looked up by has
\* become since.
THEOREM LoopsHold == Spec => []LoopsWithinOwner
<1>1. Init => LoopsWithinOwner
  BY DEF Init, LoopsWithinOwner
<1>. QED  BY <1>1, LoopsNext, TypeCorrect, PTL DEF Spec

\* OwnerIsolation: no command of any number of concurrent ones makes a user a
\* member of another masu's group, whatever ids the options file names.
THEOREM OwnersIsolated == Spec => []OwnerIsolation
<1>1. Init => OwnerIsolation
  BY DEF Init, OwnerIsolation
<1>. QED  BY <1>1, IsolationNext, LoopsHold, TypeCorrect, PTL DEF Spec

-----------------------------------------------------------------------------
(* SubuManager implements AccountPolicy: every step of an invocation is, for *)
(* the account database, a step the policy allows or none at all.          *)

\* What a step of SubuManager may do to the accounts.
PolicyStep == Policy!PolicyNext \/ UNCHANGED accountVars

LEMMA PolicyStart == Init => Policy!PolicyInit
BY DEF Init, Policy!PolicyInit

LEMMA JoinIsPolicy ==
  ASSUME NEW user \in Paths, NEW group \in Accounts,
         JoinGroup(user, group), SameOwner(user, group)
  PROVE  PolicyStep
<1>1. Policy!Join(user, group)
  BY DEF JoinGroup, CanJoin, SameOwner, Policy!Join, Policy!SameOwner, Policy!Owner, Owner
<1>2. group \in Policy!Accounts
  BY DEF Accounts, AncestorGroups, Policy!Accounts, Policy!AncestorGroups
<1>. QED  BY <1>1, <1>2 DEF PolicyStep, Policy!PolicyNext

LEMMA MakeIsPolicy ==
  ASSUME NEW p \in Procs, Path(p) \in Paths, EnsureOwnGroup(p) \/ EnsureUser(p)
  PROVE  PolicyStep
<1>1. CASE EnsureOwnGroup(p)
  <2>1. Policy!AddGroup(Path(p))
    BY <1>1 DEF EnsureOwnGroup, EnsureUnixGroup, Policy!AddGroup
  <2>. QED  BY <2>1 DEF PolicyStep, Policy!PolicyNext
<1>2. CASE EnsureUser(p)
  <2>1. CASE UNCHANGED accountVars
    BY <2>1 DEF PolicyStep
  <2>2. CASE EnsureUnixUser(Path(p)) /\ Path(p) \in users
    BY <2>2 DEF EnsureUnixUser, PolicyStep, accountVars
  <2>3. CASE EnsureUnixUser(Path(p)) /\ Path(p) \notin users
    <3>1. Policy!AddUser(Path(p))
      BY <2>3 DEF EnsureUnixUser, Policy!AddUser
    <3>. QED  BY <3>1 DEF PolicyStep, Policy!PolicyNext
  <2>. QED  BY <1>2, <2>1, <2>2, <2>3 DEF EnsureUser
<1>. QED  BY <1>1, <1>2

LEMMA RemoveIsPolicy ==
  ASSUME NEW p \in Procs, Path(p) \in Paths, UserDel(p) \/ GroupDel(p)
  PROVE  PolicyStep
<1>1. CASE UNCHANGED accountVars
  BY <1>1 DEF PolicyStep
<1>2. CASE DeleteUser(Path(p))
  <2>1. Policy!DropUser(Path(p))
    BY <1>2 DEF DeleteUser, WithoutUser, Policy!DropUser
  <2>. QED  BY <2>1 DEF PolicyStep, Policy!PolicyNext
<1>3. CASE DeleteGroup(Path(p))
  <2>1. Policy!DropGroup(Path(p))
    BY <1>3 DEF DeleteGroup, WithoutGroup, Policy!DropGroup
  <2>. QED  BY <2>1 DEF PolicyStep, Policy!PolicyNext
<1>. QED  BY <1>1, <1>2, <1>3 DEF UserDel, GroupDel

LEMMA LoopIsPolicy ==
  ASSUME TypeOK, LoopsWithinOwner, NEW p \in Procs, Path(p) \in Paths,
         JoinAncestor(p) \/ JoinIncommon(p) \/ Grant(p) \/ Revoke(p)
  PROVE  PolicyStep
<1>1. Path(p) \in Accounts
  BY PathsAreAccounts
<1>2. \A account \in todo[p] : account \in Accounts
  BY DEF TypeOK, ProcsTypeOK
<1>3. CASE UNCHANGED accountVars
  BY <1>3 DEF PolicyStep
<1>4. CASE JoinAncestor(p) \/ JoinIncommon(p)
  <2>1. \A account \in todo[p] : SameOwner(Path(p), account)
    BY <1>4 DEF JoinAncestor, JoinIncommon, At, LoopsWithinOwner, SameOwner
  <2>. QED  BY <1>2, <1>3, <1>4, <2>1, JoinIsPolicy DEF JoinAncestor, JoinIncommon
<1>5. CASE Grant(p)
  <2>1. \A account \in todo[p] : SameOwner(account, Path(p)) /\ account \in Paths
    BY <1>5 DEF Grant, At, LoopsWithinOwner
  <2>. QED  BY <1>1, <1>3, <1>5, <2>1, JoinIsPolicy DEF Grant
<1>6. CASE Revoke(p)
  <2>1. \A account \in todo[p] : account \in Paths
    BY <1>6 DEF Revoke, At, LoopsWithinOwner
  <2>2. Path(p) \in Policy!Accounts
    BY DEF Policy!Accounts
  <2>3. CASE \E user \in Paths : LeaveGroup(user, Path(p))
    <3>1. \E user \in Paths : Policy!Leave(user, Path(p))
      BY <2>3 DEF LeaveGroup, Policy!Leave
    <3>. QED  BY <2>2, <3>1 DEF PolicyStep, Policy!PolicyNext
  <2>. QED  BY <1>3, <1>6, <2>1, <2>3 DEF Revoke
<1>. QED  BY <1>4, <1>5, <1>6

LEMMA StepIsPolicy ==
  ASSUME TypeOK, LoopsWithinOwner, NEW p \in Procs, Step(p)
  PROVE  PolicyStep
<1>1. CASE EnsureOwnGroup(p) \/ EnsureUser(p)
  <2>1. Path(p) \in Paths
    BY <1>1 DEF EnsureOwnGroup, EnsureUser, At, TypeOK, WorksOnPath, Resting
  <2>. QED  BY <1>1, <2>1, MakeIsPolicy
<1>2. CASE UserDel(p) \/ GroupDel(p)
  <2>1. Path(p) \in Paths
    BY <1>2 DEF UserDel, GroupDel, At, TypeOK, WorksOnPath, Resting
  <2>. QED  BY <1>2, <2>1, RemoveIsPolicy
<1>3. CASE JoinAncestor(p) \/ JoinIncommon(p) \/ Grant(p) \/ Revoke(p)
  <2>1. Path(p) \in Paths
    BY <1>3 DEF JoinAncestor, JoinIncommon, Grant, Revoke, At, TypeOK, WorksOnPath, Resting
  <2>. QED  BY <1>3, <2>1, LoopIsPolicy
<1>4. CASE \/ LoadSchema(p) \/ ExecuteSchema(p) \/ InsertSubuRow(p)
           \/ ReadIncommon(p) \/ FindIncommon(p) \/ DeleteSubuRow(p) \/ Abort(p)
  BY <1>4 DEF LoadSchema, ExecuteSchema, InsertSubuRow, ReadIncommon,
     FindIncommon, DeleteSubuRow, Abort, accountsAndHomes, accountVars, PolicyStep
<1>5. CASE \/ CheckCurrent(p) \/ LoadOptions(p) \/ TruncateFile(p)
           \/ WriteFile(p) \/ SelectRows(p) \/ ChmodHome(p)
  BY <1>5 DEF CheckCurrent, LoadOptions, TruncateFile, WriteFile, SelectRows,
     ChmodHome, accountsAndHomes, accountVars, PolicyStep
<1>6. CASE \/ \E path \in Paths : OnPath(p, path)
           \/ \E row \in rows : OnRow(p, row)
  BY <1>6 DEF OnPath, OnRow, Make, Capture, Remove, SetIncommon, ClearIncommon,
     accountsAndHomes, accountVars, PolicyStep
<1>. QED  BY <1>1, <1>2, <1>3, <1>4, <1>5, <1>6 DEF Step

\* KeepsPolicy: the only account changes the manager makes are those that
\* AccountPolicy allows.
THEOREM ManagerKeepsPolicy == Spec => KeepsPolicy
<1>1. Init => Policy!PolicyInit
  BY PolicyStart
<1>2. TypeOK /\ LoopsWithinOwner /\ [Next]_vars => [Policy!PolicyNext]_(Policy!policyVars)
  <2>. SUFFICES ASSUME TypeOK, LoopsWithinOwner, [Next]_vars
                PROVE  [Policy!PolicyNext]_(Policy!policyVars)
    OBVIOUS
  <2>1. PolicyStep
    BY StepIsPolicy DEF Next, vars, PolicyStep, accountVars
  <2>. QED  BY <2>1 DEF PolicyStep, accountVars, Policy!policyVars
<1>. QED
  BY <1>1, <1>2, TypeCorrect, LoopsHold, PTL
     DEF Spec, KeepsPolicy, Policy!PolicySpec
=============================================================================
