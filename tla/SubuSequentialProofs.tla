------------------------ MODULE SubuSequentialProofs ------------------------
(***************************************************************************)
(* Proofs about the commands of SubuManager when they run one at a time:   *)
(* what rc 0 promises, and the order in which accounts and rows are        *)
(* changed.  Earlier commands may have died at any step; that is why each  *)
(* invariant below starts from nothing but what the command itself has     *)
(* seen or done.  The theorems hold for any paths, and for any number of   *)
(* commands.                                                               *)
(***************************************************************************)
EXTENDS SubuManagerProofs

\* No two invocations are under way.
OneInvocation == \A p, q \in Procs : p = q

-----------------------------------------------------------------------------
(* What an invocation has achieved when it has come to a label. *)

Making == {"join", "insert", "readIncommon", "findIncommon", "joinIncommon"}
Recorded == {"readIncommon", "findIncommon", "joinIncommon"}
Removing == {"userdel", "groupdel", "deleteRow"}
Saved == {"select", "grant", "revoke", "chmod"}

\* The label tells the operation.
KnowsOp(p) ==
  /\ pc[p] = "ddl" => cmd[p].op = "load schema"
  /\ pc[p] \in Making \cup {"ensureGroup"} => cmd[p].op \in {"make", "capture"}
  /\ pc[p] = "ensureUser" => cmd[p].op = "make"
  /\ pc[p] \in Removing => cmd[p].op = "remove"
  /\ pc[p] \in {"load", "truncate", "write", "select", "chmod"} => cmd[p].op \in {"set", "clear"}
  /\ pc[p] = "grant" => cmd[p].op = "set"
  /\ pc[p] \in {"checkCurrent", "revoke"} => cmd[p].op = "clear"

\* The subu's account is there, and in the groups of all ancestors but those
\* left.
Joined(p, left) ==
  /\ Path(p) \in users \cap groups
  /\ \A group \in AncestorGroups(Path(p)) \ left : <<Path(p), group>> \in members

MakeProgress(p) ==
  /\ pc[p] = "ensureGroup" /\ cmd[p].op = "capture" => Path(p) \in users
  /\ pc[p] = "ensureUser" => Path(p) \in groups
  /\ pc[p] = "join" => Joined(p, todo[p])
  /\ pc[p] \in Making \ {"join"} => Joined(p, {})
  /\ pc[p] \in Recorded => IsRecorded(Path(p))
  /\ pc[p] = "findIncommon" => cmd[p].id = options[Owner(Path(p))]
  /\ pc[p] = "joinIncommon" => todo[p] = OwnersRow(options[Owner(Path(p))], Owner(Path(p)))

\* The row that the command found is there until the DELETE.
RemoveProgress(p) ==
  /\ pc[p] \in Removing => [id |-> cmd[p].id, path |-> Path(p)] \in rows
  /\ pc[p] \in {"groupdel", "deleteRow"} =>
       Path(p) \notin users /\ \A m \in members : m[1] # Path(p)
  /\ pc[p] = "deleteRow" =>
       Path(p) \notin groups /\ \A m \in members : m[2] # Path(p)

Others(p) == PathsOfOwner(Owner(Path(p))) \ {Path(p)}

\* The option is saved before the members are looked at, and the members
\* that the loop has behind it have what the command is for.
OptionProgress(p) ==
  /\ pc[p] \in Saved =>
       options[Owner(Path(p))] = IF cmd[p].op = "set" THEN cmd[p].id ELSE NoId
  /\ pc[p] = "grant" =>
       \A user \in Others(p) \ todo[p] : <<user, Path(p)>> \in members
  /\ pc[p] = "revoke" /\ ~GpasswdFails =>
       \A user \in Others(p) \ todo[p] : <<user, Path(p)>> \notin members
  /\ pc[p] = "chmod" /\ cmd[p].op = "set" =>
       \A user \in Others(p) : <<user, Path(p)>> \in members
  /\ pc[p] = "chmod" /\ cmd[p].op = "clear" /\ ~GpasswdFails =>
       \A user \in Others(p) : <<user, Path(p)>> \notin members

Progress(p) ==
  KnowsOp(p) /\ MakeProgress(p) /\ RemoveProgress(p) /\ OptionProgress(p)

\* A membership is of a user and of a group that are there.
MembersExist == \A m \in members : m[1] \in users /\ m[2] \in groups

SequentialInv ==
  /\ OneInvocation
  /\ TypeOK
  /\ RowsAreKeyed
  /\ MembersExist
  /\ \A p \in Procs : Progress(p)

-----------------------------------------------------------------------------
(* Each step keeps what the invocation has achieved. *)

LEMMA KnowsOpStep ==
  ASSUME ProcsTypeOK, NEW p \in Procs, KnowsOp(p), Step(p)
  PROVE  KnowsOp(p)'
<1>1. CASE LoadSchema(p)
  BY <1>1 DEF LoadSchema, Issue, KnowsOp, Making, Removing, ProcsTypeOK
<1>9. CASE \E path \in Paths : OnPath(p, path)
  <2>1. /\ pc'[p] \in {"ensureGroup", "error"}
        /\ cmd'[p].op \in {"make", "capture"}
    BY <1>9 DEF OnPath, Make, Capture, Issue, ProcsTypeOK
  <2>. QED  BY <2>1 DEF KnowsOp, Making, Removing
<1>2. CASE \E row \in rows : OnRow(p, row)
  <2>1. \/ pc'[p] = "userdel" /\ cmd'[p].op = "remove"
        \/ pc'[p] = "load" /\ cmd'[p].op = "set"
        \/ pc'[p] = "checkCurrent" /\ cmd'[p].op = "clear"
    BY <1>2 DEF OnRow, Remove, SetIncommon, ClearIncommon, Issue, ProcsTypeOK
  <2>. QED  BY <2>1 DEF KnowsOp, Making, Removing
<1>3. CASE EnsureOwnGroup(p) \/ EnsureUser(p) \/ JoinAncestor(p) \/ InsertSubuRow(p)
  BY <1>3, ZenonT(40) DEF EnsureOwnGroup, EnsureUser, JoinAncestor, InsertSubuRow, At, Goto, Loop,
              Return, KnowsOp, Making, Removing, ProcsTypeOK
<1>4. CASE ExecuteSchema(p) \/ FindIncommon(p) \/ JoinIncommon(p) \/ Abort(p)
  BY <1>4, ZenonT(40) DEF ExecuteSchema, FindIncommon, JoinIncommon, Abort, At, Loop, Return, Resting,
              KnowsOp, Making, Removing, ProcsTypeOK
<1>5. CASE UserDel(p) \/ GroupDel(p) \/ DeleteSubuRow(p)
  BY <1>5, ZenonT(40) DEF UserDel, GroupDel, DeleteSubuRow, At, Goto, Return, KnowsOp, Making,
              Removing, ProcsTypeOK
<1>6. CASE CheckCurrent(p) \/ LoadOptions(p) \/ TruncateFile(p) \/ WriteFile(p)
  BY <1>6, ZenonT(40) DEF CheckCurrent, LoadOptions, TruncateFile, WriteFile, At, Goto, Return,
              KnowsOp, Making, Removing, ProcsTypeOK
<1>7. CASE SelectRows(p) \/ Grant(p) \/ Revoke(p) \/ ChmodHome(p)
  BY <1>7, ZenonT(40) DEF SelectRows, Grant, Revoke, ChmodHome, At, Loop, Return,
              KnowsOp, Making, Removing, ProcsTypeOK
<1>8. CASE ReadIncommon(p)
  <2>1. CASE options[Owner(Path(p))] = NoId
    BY <1>8, <2>1 DEF ReadIncommon, At, Return, KnowsOp, Making, Removing, ProcsTypeOK
  <2>2. CASE options[Owner(Path(p))] # NoId
    <3>1. cmd'[p].op = cmd[p].op /\ pc'[p] = "findIncommon" /\ pc[p] = "readIncommon"
      BY <1>8, <2>2 DEF ReadIncommon, At, ProcsTypeOK, Commands
    <3>. QED  BY <3>1 DEF KnowsOp, Making, Removing
  <2>. QED  BY <2>1, <2>2
<1>. QED  BY <1>1, <1>2, <1>3, <1>4, <1>5, <1>6, <1>7, <1>8, <1>9 DEF Step

\* Only its own steps come to the labels of a make or a capture.
MakeStep(p) ==
  \/ \E path \in Paths : OnPath(p, path)
  \/ EnsureOwnGroup(p) \/ EnsureUser(p) \/ JoinAncestor(p) \/ InsertSubuRow(p)
  \/ ReadIncommon(p) \/ FindIncommon(p) \/ JoinIncommon(p)

LEMMA OthersDoNotMake ==
  ASSUME ProcsTypeOK, NEW p \in Procs, Step(p), ~MakeStep(p)
  PROVE  pc'[p] \notin Making \cup {"ensureGroup", "ensureUser"}
BY DEF MakeStep, Step, OnRow, LoadSchema, ExecuteSchema, UserDel, GroupDel, DeleteSubuRow,
       CheckCurrent, LoadOptions, TruncateFile, WriteFile, SelectRows, Grant, Revoke,
       ChmodHome, Abort, Remove, SetIncommon, ClearIncommon, Issue, Goto, Loop, Return,
       ProcsTypeOK, Making, Resting

LEMMA MakeProgressStep ==
  ASSUME TypeOK, NEW p \in Procs, KnowsOp(p), MakeProgress(p), Step(p)
  PROVE  MakeProgress(p)'
<1>0. ProcsTypeOK
  BY DEF TypeOK
<1>1. CASE ~MakeStep(p)
  BY <1>0, <1>1, OthersDoNotMake DEF MakeProgress, Making, Recorded
<1>2. CASE \E path \in Paths : OnPath(p, path)
  BY <1>0, <1>2 DEF OnPath, Make, Capture, Issue, ProcsTypeOK, MakeProgress, Making, Recorded,
                    Path, accountsAndHomes, accountVars
<1>3. CASE EnsureOwnGroup(p)
  <2>1. Path(p)' = Path(p) /\ Path(p) \in groups' /\ users' = users /\ pc[p] = "ensureGroup"
    BY <1>3 DEF EnsureOwnGroup, EnsureUnixGroup, Goto, Loop, Path, At
  <2>2. CASE cmd[p].op = "make"
    <3>1. pc'[p] = "ensureUser"
      BY <1>0, <1>3, <2>2 DEF EnsureOwnGroup, Goto, ProcsTypeOK
    <3>. QED  BY <2>1, <3>1 DEF MakeProgress, Making, Recorded
  <2>3. CASE cmd[p].op # "make"
    <3>1. Path(p) \in users
      BY <2>1, <2>3 DEF MakeProgress, KnowsOp, Making
    <3>2. \/ pc'[p] = "join" /\ todo'[p] = AncestorGroups(Path(p))
          \/ pc'[p] = "insert" /\ AncestorGroups(Path(p)) = {}
      BY <1>0, <1>3, <2>3 DEF EnsureOwnGroup, Loop, ProcsTypeOK
    <3>. QED  BY <2>1, <3>1, <3>2 DEF MakeProgress, Making, Recorded, Joined
  <2>. QED  BY <2>2, <2>3
<1>4. CASE EnsureUser(p)
  <2>1. pc[p] = "ensureUser" /\ Path(p) \in groups
    BY <1>4 DEF EnsureUser, At, MakeProgress
  <2>2. Path(p)' = Path(p) /\ Path(p) \in users' /\ groups' = groups
    BY <1>4, <2>1 DEF EnsureUser, EnsureUnixUser, Loop, Path
  <2>3. \/ pc'[p] = "join" /\ todo'[p] = AncestorGroups(Path(p))
        \/ pc'[p] = "insert" /\ AncestorGroups(Path(p)) = {}
    BY <1>0, <1>4, <2>1 DEF EnsureUser, Loop, ProcsTypeOK
  <2>. QED  BY <2>1, <2>2, <2>3 DEF MakeProgress, Making, Recorded, Joined
<1>5. CASE JoinAncestor(p)
  <2>1. pc[p] = "join" /\ Joined(p, todo[p])
    BY <1>5 DEF JoinAncestor, At, MakeProgress
  <2>2. PICK group \in todo[p] :
          IF CanJoin(Path(p), group)
          THEN /\ JoinGroup(Path(p), group)
               /\ Loop(p, todo[p] \ {group}, "join", "insert")
          ELSE UNCHANGED accountVars /\ Return(p, "error")
    BY <1>5 DEF JoinAncestor
  <2>3. CASE CanJoin(Path(p), group)
    <3>1. /\ Path(p)' = Path(p) /\ users' = users /\ groups' = groups
          /\ members' = members \cup {<<Path(p), group>>}
          /\ pc'[p] = IF todo[p] \ {group} = {} THEN "insert" ELSE "join"
          /\ todo'[p] = todo[p] \ {group}
      BY <1>0, <2>2, <2>3 DEF JoinGroup, Loop, Path, ProcsTypeOK
    <3>2. Joined(p, todo[p] \ {group})'
      BY <2>1, <3>1 DEF Joined
    <3>. QED  BY <3>1, <3>2 DEF MakeProgress, Making, Recorded, Joined
  <2>4. CASE ~CanJoin(Path(p), group)
    BY <1>0, <2>2, <2>4 DEF Return, ProcsTypeOK, MakeProgress, Making, Recorded
  <2>. QED  BY <2>3, <2>4
<1>6. CASE InsertSubuRow(p)
  <2>1. CASE CanInsert(Path(p))
    <3>1. PICK id \in 1 .. MaxId : InsertRow(Path(p), id)
      BY <1>6, <2>1 DEF InsertSubuRow
    <3>2. pc[p] = "insert" /\ pc'[p] = "readIncommon" /\ Path(p)' = Path(p)
          /\ UNCHANGED accountVars
      BY <1>0, <1>6, <2>1 DEF InsertSubuRow, At, Goto, Path, ProcsTypeOK, accountsAndHomes
    <3>3. [id |-> id, path |-> Path(p)] \in rows'
      BY <3>1 DEF InsertRow
    <3>4. IsRecorded(Path(p))'
      BY <3>2, <3>3 DEF IsRecorded
    <3>. QED  BY <3>2, <3>4 DEF MakeProgress, Making, Recorded, Joined, accountVars
  <2>2. CASE ~CanInsert(Path(p))
    BY <1>0, <1>6, <2>2 DEF InsertSubuRow, Return, ProcsTypeOK, MakeProgress, Making, Recorded
  <2>. QED  BY <2>1, <2>2
<1>7. CASE ReadIncommon(p)
  <2>1. CASE options[Owner(Path(p))] = NoId
    BY <1>0, <1>7, <2>1 DEF ReadIncommon, Return, ProcsTypeOK, MakeProgress, Making, Recorded
  <2>2. CASE options[Owner(Path(p))] # NoId
    <3>1. /\ pc[p] = "readIncommon" /\ pc'[p] = "findIncommon"
          /\ Path(p)' = Path(p) /\ cmd'[p].id = options[Owner(Path(p))]
          /\ UNCHANGED <<accountVars, rows, options>>
      BY <1>0, <1>7, <2>2 DEF ReadIncommon, At, ProcsTypeOK, Path, Commands, accountsAndHomes,
                              registryVars
    <3>. QED  BY <3>1 DEF MakeProgress, Making, Recorded, Joined, accountVars, IsRecorded
  <2>. QED  BY <2>1, <2>2
<1>8. CASE FindIncommon(p)
  <2>1. /\ pc[p] = "findIncommon" /\ cmd[p].id = options[Owner(Path(p))]
        /\ UNCHANGED <<accountVars, rows, options>>
    BY <1>8 DEF FindIncommon, At, MakeProgress, accountsAndHomes, registryVars
  <2>2. \/ pc'[p] = "ok"
        \/ /\ pc'[p] = "joinIncommon" /\ Path(p)' = Path(p)
           /\ todo'[p] = OwnersRow(options[Owner(Path(p))], Owner(Path(p)))
    BY <1>0, <1>8, <2>1 DEF FindIncommon, Loop, Return, Path, ProcsTypeOK
  <2>. QED  BY <2>1, <2>2 DEF MakeProgress, Making, Recorded, Joined, accountVars, IsRecorded,
                              OwnersRow
<1>9. CASE JoinIncommon(p)
  BY <1>0, <1>9 DEF JoinIncommon, Return, ProcsTypeOK, MakeProgress, Making, Recorded
<1>. QED  BY <1>1, <1>2, <1>3, <1>4, <1>5, <1>6, <1>7, <1>8, <1>9 DEF MakeStep

\* No account command leaves a membership without its user or its group.
LEMMA MembersKept ==
  ASSUME MembersExist, NEW a, NEW b,
         \/ EnsureUnixGroup(a) \/ EnsureUnixUser(a)
         \/ JoinGroup(a, b) \/ LeaveGroup(a, b)
         \/ DeleteUser(a) \/ DeleteGroup(a)
         \/ UNCHANGED accountVars
  PROVE  MembersExist'
<1>1. CASE EnsureUnixGroup(a) \/ EnsureUnixUser(a) \/ LeaveGroup(a, b) \/ UNCHANGED accountVars
  BY <1>1 DEF EnsureUnixGroup, EnsureUnixUser, LeaveGroup, MembersExist, accountVars
<1>2. CASE JoinGroup(a, b)
  <2>1. \A m \in members' : m \in members \/ m = <<a, b>>
    BY <1>2 DEF JoinGroup
  <2>. QED  BY <1>2, <2>1 DEF JoinGroup, CanJoin, MembersExist
<1>3. CASE DeleteUser(a) \/ DeleteGroup(a)
  <2>1. /\ members' \subseteq members
        /\ \/ users' = users \ {a} /\ \A m \in members' : m[1] # a
           \/ users' = users
        /\ \/ groups' = groups \ {a} /\ \A m \in members' : m[2] # a
           \/ groups' = groups
    BY <1>3 DEF DeleteUser, DeleteGroup, WithoutUser, WithoutGroup
  <2>. QED  BY <2>1 DEF MembersExist
<1>. QED  BY <1>1, <1>2, <1>3

LEMMA MembersExistStep ==
  ASSUME MembersExist, NEW p \in Procs, Step(p)
  PROVE  MembersExist'
BY MembersKept
     DEF Step, OnPath, OnRow, LoadSchema, ExecuteSchema, EnsureOwnGroup,
         EnsureUser, JoinAncestor, InsertSubuRow, ReadIncommon, FindIncommon,
         JoinIncommon, UserDel, GroupDel, DeleteSubuRow, CheckCurrent,
         LoadOptions, TruncateFile, WriteFile, SelectRows, Grant, Revoke,
         ChmodHome, Abort, Make, Capture, Remove, SetIncommon, ClearIncommon,
         accountsAndHomes

LEMMA RemoveProgressStep ==
  ASSUME TypeOK, MembersExist, NEW p \in Procs, RemoveProgress(p), Step(p)
  PROVE  RemoveProgress(p)'
<1>0. ProcsTypeOK /\ StoresTypeOK
  BY DEF TypeOK
<1>1. CASE \E row \in rows : Remove(p, row)
  <2>1. PICK row \in rows : Remove(p, row)
    BY <1>1
  <2>2. /\ pc'[p] = "userdel" /\ rows' = rows
        /\ cmd'[p] = [op |-> "remove", path |-> row.path, id |-> row.id]
    BY <1>0, <2>1 DEF Remove, Issue, ProcsTypeOK, registryVars
  <2>3. row = [id |-> row.id, path |-> row.path]
    BY <1>0, <2>1 DEF StoresTypeOK, Rows
  <2>. QED  BY <2>1, <2>2, <2>3 DEF RemoveProgress, Removing, Path
<1>2. CASE UserDel(p)
  <2>1. /\ pc[p] = "userdel" /\ pc'[p] = "groupdel" /\ rows' = rows /\ cmd' = cmd
    BY <1>0, <1>2 DEF UserDel, At, Goto, ProcsTypeOK, registryVars
  <2>2. Path(p) \notin users' /\ \A m \in members' : m[1] # Path(p)
    BY <1>2 DEF UserDel, DeleteUser, WithoutUser, MembersExist, accountVars
  <2>. QED  BY <2>1, <2>2 DEF RemoveProgress, Removing, Path
<1>3. CASE GroupDel(p)
  <2>1. /\ pc[p] = "groupdel" /\ rows' = rows /\ Path(p) \notin users
        /\ \A m \in members : m[1] # Path(p)
    BY <1>3 DEF GroupDel, At, registryVars, RemoveProgress
  <2>2. CASE Path(p) \in groups \cap users
    BY <2>1, <2>2
  <2>3. CASE Path(p) \notin groups \cap users
    <3>1. pc'[p] = "deleteRow" /\ cmd' = cmd
      BY <1>0, <1>3, <2>3 DEF GroupDel, Goto, ProcsTypeOK
    <3>2. /\ users' = users /\ Path(p) \notin groups' /\ members' \subseteq members
          /\ \A m \in members' : m[2] # Path(p)
      BY <1>3, <2>3 DEF GroupDel, DeleteGroup, WithoutGroup, MembersExist, accountVars
    <3>. QED  BY <2>1, <3>1, <3>2 DEF RemoveProgress, Removing, Path
  <2>. QED  BY <2>2, <2>3
<1>4. CASE ~(UserDel(p) \/ GroupDel(p) \/ \E row \in rows : Remove(p, row))
  <2>1. pc'[p] \notin Removing
    BY <1>0, <1>4
       DEF Step, OnPath, OnRow, LoadSchema, ExecuteSchema, EnsureOwnGroup, EnsureUser,
           JoinAncestor, InsertSubuRow, ReadIncommon, FindIncommon, JoinIncommon,
           DeleteSubuRow, CheckCurrent, LoadOptions, TruncateFile, WriteFile, SelectRows,
           Grant, Revoke, ChmodHome, Abort, Make, Capture, SetIncommon, ClearIncommon,
           Issue, Goto, Loop, Return, ProcsTypeOK, Removing, Resting
  <2>. QED  BY <2>1 DEF RemoveProgress, Removing
<1>. QED  BY <1>1, <1>2, <1>3, <1>4

OptionStep(p) ==
  \/ LoadOptions(p) \/ TruncateFile(p) \/ WriteFile(p) \/ SelectRows(p)
  \/ Grant(p) \/ Revoke(p)

LEMMA OthersDoNotSave ==
  ASSUME ProcsTypeOK, NEW p \in Procs, Step(p), ~OptionStep(p)
  PROVE  pc'[p] \notin Saved
BY DEF OptionStep, Step, OnRow, OnPath, LoadSchema, ExecuteSchema, EnsureOwnGroup, EnsureUser,
       JoinAncestor, InsertSubuRow, ReadIncommon, FindIncommon, JoinIncommon, UserDel,
       GroupDel, DeleteSubuRow, CheckCurrent, ChmodHome, Abort, Make, Capture, Remove,
       SetIncommon, ClearIncommon, Issue, Goto, Loop, Return, ProcsTypeOK, Saved, Resting

\* A loop over the owner's other subu, begun or gone on with.
LEMMA OthersLoop ==
  ASSUME ProcsTypeOK, NEW p \in Procs, NEW left, NEW label, NEW after,
         Loop(p, left, label, after)
  PROVE  /\ cmd' = cmd /\ todo'[p] = left
         /\ \/ left = {} /\ pc'[p] = after
            \/ left # {} /\ pc'[p] = label
BY DEF Loop, ProcsTypeOK

LEMMA OptionProgressStep ==
  ASSUME TypeOK, NEW p \in Procs, KnowsOp(p), OptionProgress(p), Step(p)
  PROVE  OptionProgress(p)'
<1>0. ProcsTypeOK
  BY DEF TypeOK
<1>1. CASE ~OptionStep(p)
  BY <1>0, <1>1, OthersDoNotSave DEF OptionProgress, Saved
<1>2. CASE LoadOptions(p) \/ TruncateFile(p)
  BY <1>0, <1>2 DEF LoadOptions, TruncateFile, Goto, ProcsTypeOK, OptionProgress, Saved
<1>3. CASE WriteFile(p)
  <2>1. Path(p) \in Paths /\ loaded[p] \in OptionValues
    BY <1>0, <1>3, AtWork DEF WriteFile, At, Resting, TypeOK, ProcsTypeOK
  <2>2. Owner(Path(p)) \in Masus
    BY <2>1 DEF Masus
  <2>3. options'[Owner(Path(p))] = IF cmd[p].op = "set" THEN cmd[p].id ELSE NoId
    BY <1>3, <2>1, <2>2 DEF WriteFile, SaveOptions, OptionValues
  <2>4. pc'[p] = "select" /\ cmd' = cmd
    BY <1>0, <1>3 DEF WriteFile, ProcsTypeOK
  <2>. QED  BY <2>3, <2>4 DEF OptionProgress, Saved, Path
<1>4. CASE SelectRows(p)
  <2>1. /\ pc[p] = "select" /\ UNCHANGED <<rows, options, members>>
        /\ cmd[p].op \in {"set", "clear"}
    BY <1>4 DEF SelectRows, At, accountsAndHomes, accountVars, registryVars, KnowsOp
  <2>2. /\ cmd' = cmd /\ todo'[p] = Others(p)
        /\ \/ Others(p) = {} /\ pc'[p] = "chmod"
           \/ Others(p) # {} /\ pc'[p] = IF cmd[p].op = "set" THEN "grant" ELSE "revoke"
    BY <1>0, <1>4, OthersLoop DEF SelectRows, Others
  <2>3. Others(p)' = Others(p)
    BY <2>1, <2>2 DEF Others, PathsOfOwner, Path
  <2>. QED  BY <2>1, <2>2, <2>3 DEF OptionProgress, Saved, Path
<1>5. CASE Grant(p)
  <2>1. pc[p] = "grant" /\ UNCHANGED <<rows, options>> /\ cmd[p].op = "set"
    BY <1>5 DEF Grant, At, registryVars, KnowsOp
  <2>2. PICK user \in todo[p] :
          IF CanJoin(user, Path(p))
          THEN /\ JoinGroup(user, Path(p))
               /\ Loop(p, todo[p] \ {user}, "grant", "chmod")
          ELSE UNCHANGED accountVars /\ Return(p, "error")
    BY <1>5 DEF Grant
  <2>3. CASE CanJoin(user, Path(p))
    <3>1. /\ cmd' = cmd /\ todo'[p] = todo[p] \ {user}
          /\ \/ todo[p] \ {user} = {} /\ pc'[p] = "chmod"
             \/ pc'[p] = "grant"
          /\ members' = members \cup {<<user, Path(p)>>}
      BY <1>0, <2>2, <2>3, OthersLoop DEF JoinGroup
    <3>2. Others(p)' = Others(p)
      BY <2>1, <3>1 DEF Others, PathsOfOwner, Path
    <3>3. \A other \in Others(p) \ (todo[p] \ {user}) : <<other, Path(p)>> \in members'
      BY <2>1, <3>1 DEF OptionProgress
    <3>. QED  BY <2>1, <3>1, <3>2, <3>3 DEF OptionProgress, Saved, Path
  <2>4. CASE ~CanJoin(user, Path(p))
    BY <1>0, <2>2, <2>4 DEF Return, ProcsTypeOK, OptionProgress, Saved
  <2>. QED  BY <2>3, <2>4
<1>6. CASE Revoke(p)
  <2>1. pc[p] = "revoke" /\ UNCHANGED <<rows, options>> /\ cmd[p].op = "clear"
    BY <1>6 DEF Revoke, At, registryVars, KnowsOp
  <2>2. PICK user \in todo[p] :
          /\ \/ LeaveGroup(user, Path(p))
             \/ GpasswdFails /\ UNCHANGED accountVars
          /\ Loop(p, todo[p] \ {user}, "revoke", "chmod")
    BY <1>6 DEF Revoke
  <2>3. /\ cmd' = cmd /\ todo'[p] = todo[p] \ {user}
        /\ \/ todo[p] \ {user} = {} /\ pc'[p] = "chmod"
           \/ pc'[p] = "revoke"
    BY <1>0, <2>2, OthersLoop
  <2>4. Others(p)' = Others(p)
    BY <2>1, <2>3 DEF Others, PathsOfOwner, Path
  <2>5. ASSUME ~GpasswdFails
        PROVE  \A other \in Others(p) \ (todo[p] \ {user}) : <<other, Path(p)>> \notin members'
    BY <2>1, <2>2, <2>5 DEF OptionProgress, LeaveGroup
  <2>. QED  BY <2>1, <2>3, <2>4, <2>5 DEF OptionProgress, Saved, Path
<1>. QED  BY <1>1, <1>2, <1>3, <1>4, <1>5, <1>6 DEF OptionStep

-----------------------------------------------------------------------------
(* The invariant of one invocation. *)

LEMMA SequentialInit == Init /\ OneInvocation => SequentialInv
<1>. SUFFICES ASSUME Init, OneInvocation PROVE SequentialInv
  OBVIOUS
<1>1. TypeOK /\ RowsAreKeyed /\ MembersExist
  BY TypeInit DEF Init, RowsAreKeyed, MembersExist
<1>2. ASSUME NEW p \in Procs PROVE Progress(p)
  BY DEF Init, Progress, KnowsOp, MakeProgress, RemoveProgress, OptionProgress, Making,
         Removing, Recorded, Saved
<1>. QED  BY <1>1, <1>2 DEF SequentialInv

LEMMA SequentialNext == SequentialInv /\ [Next]_vars => SequentialInv'
<1>. SUFFICES ASSUME SequentialInv, [Next]_vars PROVE SequentialInv'
  OBVIOUS
<1>0. OneInvocation /\ TypeOK /\ RowsAreKeyed /\ MembersExist /\ \A p \in Procs : Progress(p)
  BY DEF SequentialInv
<1>1. TypeOK' /\ RowsAreKeyed' /\ OneInvocation'
  BY <1>0, TypeNext, RowsNext DEF TypeOK, OneInvocation
<1>2. ASSUME NEW p \in Procs, Step(p) PROVE SequentialInv'
  <2>1. MembersExist'
    BY <1>0, <1>2, MembersExistStep
  <2>2. KnowsOp(p) /\ MakeProgress(p) /\ RemoveProgress(p) /\ OptionProgress(p)
    BY <1>0 DEF Progress
  <2>3. KnowsOp(p)'
    BY <1>0, <1>2, <2>2, KnowsOpStep DEF TypeOK
  <2>4. MakeProgress(p)' /\ RemoveProgress(p)' /\ OptionProgress(p)'
    BY <1>0, <1>2, <2>2, MakeProgressStep, RemoveProgressStep, OptionProgressStep
  <2>5. Progress(p)'
    BY <2>3, <2>4 DEF Progress
  <2>6. \A q \in Procs : q = p
    BY <1>0 DEF OneInvocation
  <2>. QED  BY <1>1, <2>1, <2>5, <2>6 DEF SequentialInv
<1>3. CASE UNCHANGED vars
  <2>1. MembersExist'
    BY <1>0, <1>3 DEF vars, MembersExist
  <2>2. ASSUME NEW p \in Procs PROVE Progress(p)'
    <3>1. KnowsOp(p) /\ MakeProgress(p) /\ RemoveProgress(p) /\ OptionProgress(p)
      BY <1>0 DEF Progress
    <3>2. KnowsOp(p)' /\ RemoveProgress(p)'
      BY <1>3, <3>1 DEF vars, KnowsOp, RemoveProgress, Path
    <3>3. MakeProgress(p)'
      BY <1>3, <3>1 DEF vars, MakeProgress, Joined, IsRecorded, OwnersRow, Path
    <3>4. OptionProgress(p)'
      BY <1>3, <3>1 DEF vars, OptionProgress, Others, PathsOfOwner, Path
    <3>. QED  BY <3>2, <3>3, <3>4 DEF Progress
  <2>. QED  BY <1>1, <2>1, <2>2 DEF SequentialInv
<1>. QED  BY <1>2, <1>3 DEF Next

LEMMA SequentialAlways == OneInvocation /\ Spec => []SequentialInv
BY SequentialInit, SequentialNext, PTL DEF Spec
-----------------------------------------------------------------------------
(* What rc 0 promises. *)

\* The last steps of the commands.
LEMMA OkReturns ==
  ASSUME ProcsTypeOK, NEW p \in Procs, Step(p), pc[p] \notin Resting, pc'[p] = "ok"
  PROVE  \/ ExecuteSchema(p) \/ DeleteSubuRow(p) \/ ChmodHome(p)
         \/ ReadIncommon(p) \/ FindIncommon(p) \/ JoinIncommon(p)
BY DEF Step, OnRow, OnPath, LoadSchema, EnsureOwnGroup, EnsureUser, JoinAncestor,
       InsertSubuRow, UserDel, GroupDel, CheckCurrent, LoadOptions, TruncateFile, WriteFile,
       SelectRows, Grant, Revoke, Abort, Make, Capture, Remove, SetIncommon, ClearIncommon,
       Issue, Goto, Loop, Return, ProcsTypeOK, Resting

\* A returning invocation took the step, for there is no other.
LEMMA ReturnsIsAStep ==
  ASSUME SequentialInv, [Next]_vars, NEW p \in Procs, NEW op, Returns(p, op, "ok")
  PROVE  Step(p) /\ Progress(p) /\ TypeOK /\ ProcsTypeOK /\ RowsAreKeyed
<1>1. pc'[p] # pc[p]
  BY DEF Returns, Resting
<1>2. \A q \in Procs : q = p
  BY DEF SequentialInv, OneInvocation
<1>. QED  BY <1>1, <1>2 DEF Next, vars, SequentialInv, TypeOK

\* A row that the option names is one, so that one join is enough.
LEMMA OneOwnersRow ==
  ASSUME RowsAreKeyed, NEW id, NEW owner,
         NEW a \in OwnersRow(id, owner), NEW b \in OwnersRow(id, owner)
  PROVE  a = b
BY DEF RowsAreKeyed, OwnersRow

LEMMA MakeOk ==
  ASSUME SequentialInv, [Next]_vars, NEW p \in Procs,
         Returns(p, "make", "ok") \/ Returns(p, "capture", "ok")
  PROVE  LET path == Path(p) IN
           /\ path \in users' \cap groups'
           /\ \E row \in rows' : row.path = path
           /\ \A group \in AncestorGroups(path)
                         \cup OwnersRow(options[Owner(path)], Owner(path)) :
                <<path, group>> \in members'
<1>1. Step(p) /\ Progress(p) /\ ProcsTypeOK /\ RowsAreKeyed /\ TypeOK
  BY ReturnsIsAStep
<1>2. KnowsOp(p) /\ MakeProgress(p)
  BY <1>1 DEF Progress
<1>3. ReadIncommon(p) \/ FindIncommon(p) \/ JoinIncommon(p)
  BY <1>1, <1>2, OkReturns
     DEF Returns, KnowsOp, Removing, ExecuteSchema, DeleteSubuRow, ChmodHome, At
<1>4. pc[p] \in Recorded /\ UNCHANGED <<users, groups, rows>>
  BY <1>3 DEF ReadIncommon, FindIncommon, JoinIncommon, At, Recorded, JoinGroup,
              accountsAndHomes, accountVars, registryVars
<1>5. Joined(p, {}) /\ IsRecorded(Path(p))
  BY <1>2, <1>4 DEF MakeProgress, Recorded, Making
<1>6. ASSUME NEW group \in OwnersRow(options[Owner(Path(p))], Owner(Path(p)))
      PROVE  <<Path(p), group>> \in members'
  <2>1. CASE ReadIncommon(p)
    <3>1. options[Owner(Path(p))] = NoId
      BY <1>1, <2>1 DEF ReadIncommon, Returns, ProcsTypeOK
    <3>2. \A row \in rows : row.id # NoId
      BY <1>1 DEF TypeOK, StoresTypeOK, Rows, NoId
    <3>. QED  BY <3>1, <3>2 DEF OwnersRow
  <2>2. CASE FindIncommon(p)
    <3>1. cmd[p].id = options[Owner(Path(p))]
      BY <1>2, <2>2 DEF MakeProgress, FindIncommon, At
    <3>2. pc'[p] = "joinIncommon"
      BY <1>1, <2>2, <3>1 DEF FindIncommon, Loop, ProcsTypeOK
    <3>. QED  BY <3>2 DEF Returns
  <2>3. CASE JoinIncommon(p)
    <3>1. todo[p] = OwnersRow(options[Owner(Path(p))], Owner(Path(p)))
      BY <1>2, <2>3 DEF MakeProgress, JoinIncommon, At
    <3>2. PICK row \in todo[p] :
            IF CanJoin(Path(p), row)
            THEN JoinGroup(Path(p), row) /\ Return(p, "ok")
            ELSE UNCHANGED accountVars /\ Return(p, "error")
      BY <2>3 DEF JoinIncommon
    <3>3. JoinGroup(Path(p), row)
      BY <1>1, <3>2 DEF Return, ProcsTypeOK, Returns
    <3>4. row = group
      BY <1>1, <3>1, OneOwnersRow
    <3>. QED  BY <3>3, <3>4 DEF JoinGroup
  <2>. QED  BY <1>3, <2>1, <2>2, <2>3
<1>7. members \subseteq members'
  BY <1>3 DEF ReadIncommon, FindIncommon, JoinIncommon, JoinGroup, accountsAndHomes, accountVars
<1>. QED  BY <1>4, <1>5, <1>6, <1>7 DEF Joined, IsRecorded

\* MakeEstablishes: rc 0 of a make or a capture means that account, groups of
\* the ancestors, row and incommon membership are there, for any tree of
\* subu and after any history of commands that died.
THEOREM MakesEstablish == OneInvocation /\ Spec => MakeEstablishes
<1>1. SequentialInv /\ [Next]_vars =>
        [\A p \in Procs : Returns(p, "make", "ok") \/ Returns(p, "capture", "ok") =>
           LET path == Path(p) IN
             /\ path \in users' \cap groups'
             /\ \E row \in rows' : row.path = path
             /\ \A group \in AncestorGroups(path)
                           \cup OwnersRow(options[Owner(path)], Owner(path)) :
                  <<path, group>> \in members']_vars
  BY MakeOk
<1>. QED  BY <1>1, SequentialAlways, PTL DEF Spec, MakeEstablishes

\* RemoveErases: rc 0 of a remove means that neither user nor group nor row
\* nor membership is left.
THEOREM RemovesErase == OneInvocation /\ Spec => RemoveErases
<1>1. ASSUME SequentialInv, [Next]_vars, NEW p \in Procs, Returns(p, "remove", "ok")
      PROVE  /\ Path(p) \notin users' \cup groups'
             /\ \A row \in rows' : row.path # Path(p)
             /\ \A m \in members' : Path(p) \notin {m[1], m[2]}
  <2>1. Step(p) /\ Progress(p) /\ ProcsTypeOK /\ RowsAreKeyed
    BY <1>1, ReturnsIsAStep
  <2>2. KnowsOp(p) /\ RemoveProgress(p)
    BY <2>1 DEF Progress
  <2>3. DeleteSubuRow(p)
    BY <1>1, <2>1, <2>2, OkReturns
       DEF Returns, KnowsOp, Making, ExecuteSchema, ChmodHome, ReadIncommon, FindIncommon,
           JoinIncommon, At
  <2>4. pc[p] = "deleteRow" /\ UNCHANGED <<users, groups, members>>
    BY <2>3 DEF DeleteSubuRow, At, accountsAndHomes, accountVars
  <2>5. /\ Path(p) \notin users \cup groups
        /\ \A m \in members : Path(p) \notin {m[1], m[2]}
        /\ [id |-> cmd[p].id, path |-> Path(p)] \in rows
    BY <2>2, <2>4 DEF RemoveProgress, Removing
  <2>6. \A row \in rows' : row.path # Path(p)
    BY <2>1, <2>3, <2>5 DEF DeleteSubuRow, DeleteRow, RowsAreKeyed
  <2>. QED  BY <2>4, <2>5, <2>6
<1>2. SequentialInv /\ [Next]_vars =>
        [\A p \in Procs : Returns(p, "remove", "ok") =>
           /\ Path(p) \notin users' \cup groups'
           /\ \A row \in rows' : row.path # Path(p)
           /\ \A m \in members' : Path(p) \notin {m[1], m[2]}]_vars
  BY <1>1
<1>. QED  BY <1>2, SequentialAlways, PTL DEF Spec, RemoveErases

\* The last step of a set or a clear.
LEMMA OptionOk ==
  ASSUME SequentialInv, [Next]_vars, NEW p \in Procs, NEW op \in {"set", "clear"},
         Returns(p, op, "ok")
  PROVE  /\ ChmodHome(p) /\ OptionProgress(p)
         /\ pc[p] = "chmod" /\ cmd[p].op = op
         /\ UNCHANGED <<members, options, rows>>
<1>1. Step(p) /\ Progress(p) /\ ProcsTypeOK
  BY ReturnsIsAStep
<1>2. KnowsOp(p) /\ OptionProgress(p)
  BY <1>1 DEF Progress
<1>3. ChmodHome(p)
  BY <1>1, <1>2, OkReturns
     DEF Returns, KnowsOp, Making, Removing, ExecuteSchema, DeleteSubuRow, ReadIncommon,
         FindIncommon, JoinIncommon, At
<1>. QED  BY <1>2, <1>3 DEF ChmodHome, At, Returns, accountVars, registryVars

\* SetShares: rc 0 of set means that the option names the subu and that every
\* other recorded subu of the owner is in its group.
THEOREM SetsShare == OneInvocation /\ Spec => SetShares
<1>1. ASSUME SequentialInv, [Next]_vars, NEW p \in Procs, Returns(p, "set", "ok")
      PROVE  /\ options'[Owner(Path(p))] = cmd[p].id
             /\ \A user \in PathsOfOwner(Owner(Path(p))) \ {Path(p)} :
                  <<user, Path(p)>> \in members'
             /\ Path(p) \in Homes => Path(p) \in openHomes'
  BY <1>1, OptionOk DEF OptionProgress, Saved, Others, ChmodHome
<1>2. SequentialInv /\ [Next]_vars =>
        [\A p \in Procs : Returns(p, "set", "ok") =>
           /\ options'[Owner(Path(p))] = cmd[p].id
           /\ \A user \in PathsOfOwner(Owner(Path(p))) \ {Path(p)} :
                <<user, Path(p)>> \in members'
           /\ Path(p) \in Homes => Path(p) \in openHomes']_vars
  BY <1>1
<1>. QED  BY <1>2, SequentialAlways, PTL DEF Spec, SetShares

\* ClearWithdraws: rc 0 of clear means that no other recorded subu of the
\* owner is in the group any more and that none is going to be, provided
\* that gpasswd -d, whose failure the code ignores, does not fail.
THEOREM ClearsWithdraw == OneInvocation /\ ~GpasswdFails /\ Spec => ClearWithdraws
<1>1. ASSUME SequentialInv, ~GpasswdFails, [Next]_vars, NEW p \in Procs,
             Returns(p, "clear", "ok")
      PROVE  /\ options'[Owner(Path(p))] = NoId
             /\ \A user \in PathsOfOwner(Owner(Path(p))) \ {Path(p)} :
                  <<user, Path(p)>> \notin members'
             /\ Path(p) \notin openHomes'
  BY <1>1, OptionOk DEF OptionProgress, Saved, Others, ChmodHome
<1>2. SequentialInv /\ ~GpasswdFails /\ [Next]_vars =>
        [\A p \in Procs : Returns(p, "clear", "ok") =>
           /\ options'[Owner(Path(p))] = NoId
           /\ \A user \in PathsOfOwner(Owner(Path(p))) \ {Path(p)} :
                <<user, Path(p)>> \notin members'
           /\ Path(p) \notin openHomes']_vars
  BY <1>1
<1>3. SequentialInv /\ ~GpasswdFails /\ [Next]_vars => (~GpasswdFails)'
  OBVIOUS
<1>4. ~GpasswdFails /\ OneInvocation /\ Spec => [](SequentialInv /\ ~GpasswdFails)
  BY <1>3, SequentialAlways, PTL DEF Spec
<1>. QED  BY <1>2, <1>4, PTL DEF Spec, ClearWithdraws

\* RecordedAfterUnix: the row is written when user, group and the ancestors'
\* memberships are there.
THEOREM RecordsFollowUnix == OneInvocation /\ Spec => RecordedAfterUnix
<1>1. ASSUME SequentialInv, [Next]_vars, NEW row \in rows' \ rows
      PROVE  /\ row.path \in users' \cap groups'
             /\ \A group \in AncestorGroups(row.path) : <<row.path, group>> \in members'
  <2>1. PICK p \in Procs : InsertSubuRow(p)
    BY <1>1, RowsStep DEF DeleteSubuRow, DeleteRow
  <2>2. CanInsert(Path(p)) /\ \E id \in 1 .. MaxId : InsertRow(Path(p), id)
    BY <1>1, <2>1 DEF InsertSubuRow, registryVars
  <2>3. row.path = Path(p)
    BY <1>1, <2>2 DEF InsertRow
  <2>4. pc[p] = "insert" /\ UNCHANGED accountVars
    BY <2>1 DEF InsertSubuRow, At, accountsAndHomes
  <2>5. Joined(p, {})
    BY <1>1, <2>4 DEF SequentialInv, Progress, MakeProgress, Making
  <2>. QED  BY <2>3, <2>4, <2>5 DEF Joined, accountVars
<1>2. SequentialInv /\ [Next]_vars =>
        [\A row \in rows' \ rows :
           /\ row.path \in users' \cap groups'
           /\ \A group \in AncestorGroups(row.path) : <<row.path, group>> \in members']_vars
  BY <1>1
<1>. QED  BY <1>2, SequentialAlways, PTL DEF Spec, RecordedAfterUnix

\* ForgottenAfterUnix: a row goes only when user and group are gone.
THEOREM ForgettingFollowsUnix == OneInvocation /\ Spec => ForgottenAfterUnix
<1>1. ASSUME SequentialInv, [Next]_vars, NEW row \in rows \ rows'
      PROVE  row.path \notin users' \cup groups'
  <2>1. PICK p \in Procs : DeleteSubuRow(p)
    BY <1>1, RowsStep DEF InsertSubuRow, InsertRow, registryVars
  <2>2. pc[p] = "deleteRow" /\ UNCHANGED accountVars /\ row.id = cmd[p].id
    BY <1>1, <2>1 DEF DeleteSubuRow, At, DeleteRow, accountsAndHomes
  <2>3. /\ [id |-> cmd[p].id, path |-> Path(p)] \in rows
        /\ Path(p) \notin users \cup groups
    BY <1>1, <2>2 DEF SequentialInv, Progress, RemoveProgress, Removing
  <2>4. row.path = Path(p)
    BY <1>1, <2>2, <2>3 DEF SequentialInv, RowsAreKeyed
  <2>. QED  BY <2>2, <2>3, <2>4 DEF accountVars
<1>2. SequentialInv /\ [Next]_vars =>
        [\A row \in rows \ rows' : row.path \notin users' \cup groups']_vars
  BY <1>1
<1>. QED  BY <1>2, SequentialAlways, PTL DEF Spec, ForgottenAfterUnix

=============================================================================
