----------------------------- MODULE SubuManager -----------------------------
(***************************************************************************)
(* The release subu manager: root invocations of release/manager/CLI.py    *)
(* that run concurrently over the host's account database, the SQLite      *)
(* registry and the options file.  Nothing serialises two invocations.     *)
(*                                                                         *)
(* An invocation is a process with a program counter; between two steps    *)
(* any other invocation may run, and at any step it may die (Abort): it is *)
(* killed, or a command fails for a reason outside the model (a user that  *)
(* is logged in, a locked file) and ends in the RuntimeError of unix.run   *)
(* or in rc 1.  Nothing is undone then.  The failures the code's own tests *)
(* lead to are the ELSE branches that return "error".                      *)
(*                                                                         *)
(* A definition marked "Slip:" is no part of the specification: it is the  *)
(* next definition with a mistake a programmer could make, and a property  *)
(* must notice it when it takes that definition's place.                   *)
(***************************************************************************)
EXTENDS UnixAccounts, SubuRegistry, OptionsStore

CONSTANTS
  Procs,        \* invocations that may be under way at the same time
  Legacy,       \* accounts that exist before the manager is used
  Groupless,    \* those of them without a group of their own name
  Homes,        \* subu whose home under /home/<masu>/subu_data exists
  MaxId,        \* bound on row ids
  MaxCommands,  \* bound on the commands issued
  MayDie,       \* may an invocation die between two steps?
  GpasswdFails  \* may gpasswd -d fail and leave the member in place?

ASSUME ManagerAssumption ==
  /\ Legacy \subseteq Accounts
  /\ Groupless \subseteq Legacy \cap Paths
  /\ Homes \subseteq Paths
  /\ MaxId \in Nat
  /\ MaxCommands \in Nat
  /\ MayDie \in BOOLEAN
  /\ GpasswdFails \in BOOLEAN

VARIABLES
  openHomes,  \* homes with group read and execute permission
  pc,         \* where each invocation is; a resting one shows its last result
  cmd,        \* the command: operation, subu path and row id it works on
  todo,       \* accounts its current loop has still to visit
  loaded,     \* the options dictionary it has in memory
  issued      \* number of commands issued so far

procVars == <<pc, cmd, todo, loaded>>

vars == <<users, groups, members, dbFile, rows, options, openHomes,
          pc, cmd, todo, loaded, issued>>

Resting == {"idle", "ok", "error"}

Labels == Resting \cup
  {"ddl", "ensureGroup", "ensureUser", "join", "insert", "readIncommon",
   "findIncommon", "joinIncommon", "userdel", "groupdel", "deleteRow",
   "checkCurrent", "load", "truncate", "write", "select", "grant", "revoke",
   "chmod"}

Operations == {"load schema", "make", "capture", "remove", "set", "clear"}

NoCmd == [op |-> "none", path |-> <<>>, id |-> NoId]

Commands ==
  [op : Operations \cup {"none"}, path : Paths \cup {<<>>}, id : Nat]

-----------------------------------------------------------------------------

Init ==
  /\ users = Legacy
  /\ groups = Legacy \ Groupless
  /\ members = {}
  /\ dbFile \in DbFileStates
  /\ rows = {}
  /\ options = NoOptions
  /\ openHomes = {}
  /\ pc = [p \in Procs |-> "idle"]
  /\ cmd = [p \in Procs |-> NoCmd]
  /\ todo = [p \in Procs |-> {}]
  /\ loaded = [p \in Procs |-> NoOptions]
  /\ issued = 0

-----------------------------------------------------------------------------
(* Steps of one invocation. *)

Path(p) == cmd[p].path

\* Issue a command: its first step leads to `label`.
Issue(p, op, path, id, label) ==
  /\ pc[p] \in Resting
  /\ issued < MaxCommands
  /\ issued' = issued + 1
  /\ cmd' = [cmd EXCEPT ![p] = [op |-> op, path |-> path, id |-> id]]
  /\ pc' = [pc EXCEPT ![p] = label]
  /\ UNCHANGED <<todo, loaded>>

At(p, label) == pc[p] = label /\ UNCHANGED issued

Goto(p, label) ==
  /\ pc' = [pc EXCEPT ![p] = label]
  /\ UNCHANGED <<cmd, todo, loaded>>

\* Go into a loop over `accounts`, or past it when there are none.
Loop(p, accounts, label, after) ==
  /\ todo' = [todo EXCEPT ![p] = accounts]
  /\ pc' = [pc EXCEPT ![p] = IF accounts = {} THEN after ELSE label]
  /\ UNCHANGED <<cmd, loaded>>

\* Return from the command; its locals are gone.
Return(p, result) ==
  /\ pc' = [pc EXCEPT ![p] = result]
  /\ cmd' = [cmd EXCEPT ![p] = NoCmd]
  /\ todo' = [todo EXCEPT ![p] = {}]
  /\ loaded' = [loaded EXCEPT ![p] = NoOptions]

accountsAndHomes == <<accountVars, openHomes>>

\* The invocation dies, or its command fails, between two steps.
Abort(p) ==
  /\ MayDie
  /\ pc[p] \notin Resting
  /\ Return(p, "error")
  /\ UNCHANGED <<accountVars, registryVars, options, openHomes, issued>>

-----------------------------------------------------------------------------
(* db load schema *)

LoadSchema(p) ==
  /\ Issue(p, "load schema", <<>>, NoId, "ddl")
  /\ CreateFile
  /\ UNCHANGED <<accountsAndHomes, options>>

ExecuteSchema(p) ==
  /\ At(p, "ddl")
  /\ IF CanCreateTable
     THEN CreateTable /\ Return(p, "ok")
     ELSE UNCHANGED registryVars /\ Return(p, "error")
  /\ UNCHANGED <<accountsAndHomes, options>>

-----------------------------------------------------------------------------
(* subu make and subu capture: first the Unix accounts, then the row, then *)
(* the owner's incommon group.                                             *)

\* make_subu requires the parent's Unix user (the masu's, at the first
\* level); the database is not asked.
Make(p, path) ==
  /\ Issue(p, "make", path, NoId,
           IF Parent(path) \in users THEN "ensureGroup" ELSE "error")
  /\ UNCHANGED <<accountsAndHomes, registryVars, options>>

\* subu_capture requires the Unix user itself.
Capture(p, path) ==
  /\ Issue(p, "capture", path, NoId,
           IF path \in users THEN "ensureGroup" ELSE "error")
  /\ UNCHANGED <<accountsAndHomes, registryVars, options>>

\* Slip: capture trusts the legacy system to have the group.
EnsureOwnGroupOfMakeOnly(p) ==
  /\ At(p, "ensureGroup")
  /\ IF cmd[p].op = "make"
     THEN EnsureUnixGroup(Path(p)) /\ Goto(p, "ensureUser")
     ELSE /\ Loop(p, AncestorGroups(Path(p)), "join", "insert")
          /\ UNCHANGED accountVars
  /\ UNCHANGED <<openHomes, registryVars, options>>

EnsureOwnGroup(p) ==
  /\ At(p, "ensureGroup")
  /\ EnsureUnixGroup(Path(p))
  /\ IF cmd[p].op = "make"
     THEN Goto(p, "ensureUser")
     ELSE Loop(p, AncestorGroups(Path(p)), "join", "insert")
  /\ UNCHANGED <<openHomes, registryVars, options>>

EnsureUser(p) ==
  /\ At(p, "ensureUser")
  /\ IF Path(p) \in users \cup groups
     THEN /\ EnsureUnixUser(Path(p))
          /\ Loop(p, AncestorGroups(Path(p)), "join", "insert")
     ELSE UNCHANGED accountVars /\ Return(p, "error")
  /\ UNCHANGED <<openHomes, registryVars, options>>

\* Slip: the loop ends after the masu's group.
JoinMasuOnly(p) ==
  /\ At(p, "join")
  /\ IF CanJoin(Path(p), <<Owner(Path(p))>>)
     THEN /\ JoinGroup(Path(p), <<Owner(Path(p))>>)
          /\ Loop(p, {}, "join", "insert")
     ELSE UNCHANGED accountVars /\ Return(p, "error")
  /\ UNCHANGED <<openHomes, registryVars, options>>

\* Slip: a missing ancestor group is passed over.
JoinAncestorIfThere(p) ==
  /\ At(p, "join")
  /\ \E group \in todo[p] :
       /\ \A other \in todo[p] : Len(group) <= Len(other)
       /\ IF CanJoin(Path(p), group)
          THEN JoinGroup(Path(p), group)
          ELSE UNCHANGED accountVars
       /\ Loop(p, todo[p] \ {group}, "join", "insert")
  /\ UNCHANGED <<openHomes, registryVars, options>>

\* The ancestor groups in list order: the masu's first, the parent's last.
JoinAncestor(p) ==
  /\ At(p, "join")
  /\ \E group \in todo[p] :
       /\ \A other \in todo[p] : Len(group) <= Len(other)
       /\ IF CanJoin(Path(p), group)
          THEN /\ JoinGroup(Path(p), group)
               /\ Loop(p, todo[p] \ {group}, "join", "insert")
          ELSE UNCHANGED accountVars /\ Return(p, "error")
  /\ UNCHANGED <<openHomes, registryVars, options>>

InsertSubuRow(p) ==
  /\ At(p, "insert")
  /\ IF CanInsert(Path(p))
     THEN (\E id \in 1 .. MaxId : InsertRow(Path(p), id)) /\ Goto(p, "readIncommon")
     ELSE UNCHANGED registryVars /\ Return(p, "error")
  /\ UNCHANGED <<accountsAndHomes, options>>

\* _maybe_add_to_incommon: the option, then the row it names, then the join.
ReadIncommon(p) ==
  /\ At(p, "readIncommon")
  /\ LET id == options[Owner(Path(p))] IN
       IF id = NoId
       THEN Return(p, "ok")
       ELSE /\ cmd' = [cmd EXCEPT ![p].id = id]
            /\ pc' = [pc EXCEPT ![p] = "findIncommon"]
            /\ UNCHANGED <<todo, loaded>>
  /\ UNCHANGED <<accountsAndHomes, registryVars, options>>

FindIncommon(p) ==
  /\ At(p, "findIncommon")
  /\ LET found == OwnersRow(cmd[p].id, Owner(Path(p))) IN
       IF found = {} THEN Return(p, "ok") ELSE Loop(p, found, "joinIncommon", "ok")
  /\ UNCHANGED <<accountsAndHomes, registryVars, options>>

JoinIncommon(p) ==
  /\ At(p, "joinIncommon")
  /\ \E group \in todo[p] :
       IF CanJoin(Path(p), group)
       THEN JoinGroup(Path(p), group) /\ Return(p, "ok")
       ELSE UNCHANGED accountVars /\ Return(p, "error")
  /\ UNCHANGED <<openHomes, registryVars, options>>

-----------------------------------------------------------------------------
(* subu remove: the accounts first, then the row found at the start. *)

\* Slip: the row goes first, and a death leaves the accounts behind.
RemoveRowFirst(p, row) ==
  /\ Issue(p, "remove", row.path, row.id, "deleteRow")
  /\ UNCHANGED <<accountsAndHomes, registryVars, options>>

Remove(p, row) ==
  /\ Issue(p, "remove", row.path, row.id, "userdel")
  /\ UNCHANGED <<accountsAndHomes, registryVars, options>>

\* Slip: groupdel is tried only for a user that was there.
UserDelElseDone(p) ==
  /\ At(p, "userdel")
  /\ IF Path(p) \in users
     THEN DeleteUser(Path(p)) /\ Goto(p, "groupdel")
     ELSE UNCHANGED accountVars /\ Goto(p, "deleteRow")
  /\ UNCHANGED <<openHomes, registryVars, options>>

UserDel(p) ==
  /\ At(p, "userdel")
  /\ IF Path(p) \in users THEN DeleteUser(Path(p)) ELSE UNCHANGED accountVars
  /\ Goto(p, "groupdel")
  /\ UNCHANGED <<openHomes, registryVars, options>>

GroupDel(p) ==
  /\ At(p, "groupdel")
  /\ IF Path(p) \in groups \cap users
     THEN UNCHANGED accountVars /\ Return(p, "error")
     ELSE /\ IF Path(p) \in groups
             THEN DeleteGroup(Path(p))
             ELSE UNCHANGED accountVars
          /\ Goto(p, "deleteRow")
  /\ UNCHANGED <<openHomes, registryVars, options>>

DeleteSubuRow(p) ==
  /\ At(p, "deleteRow")
  /\ DeleteRow(cmd[p].id)
  /\ Return(p, "ok")
  /\ UNCHANGED <<accountsAndHomes, options>>

-----------------------------------------------------------------------------
(* subu option set | clear incommon: the option, the members, the home. *)

SetIncommon(p, row) ==
  /\ Issue(p, "set", row.path, row.id, "load")
  /\ UNCHANGED <<accountsAndHomes, registryVars, options>>

ClearIncommon(p, row) ==
  /\ Issue(p, "clear", row.path, row.id, "checkCurrent")
  /\ UNCHANGED <<accountsAndHomes, registryVars, options>>

\* Slip: without a current incommon there is nothing to clear.
CheckCurrentOrDone(p) ==
  /\ At(p, "checkCurrent")
  /\ CASE options[Owner(Path(p))] = NoId -> Return(p, "ok")
       [] options[Owner(Path(p))] = cmd[p].id -> Goto(p, "load")
       [] OTHER -> Return(p, "error")
  /\ UNCHANGED <<accountsAndHomes, registryVars, options>>

\* 'clear' refuses when another subu is the owner's incommon.
CheckCurrent(p) ==
  /\ At(p, "checkCurrent")
  /\ IF options[Owner(Path(p))] \in {NoId, cmd[p].id}
     THEN Goto(p, "load")
     ELSE Return(p, "error")
  /\ UNCHANGED <<accountsAndHomes, registryVars, options>>

LoadOptions(p) ==
  /\ At(p, "load")
  /\ loaded' = [loaded EXCEPT ![p] = options]
  /\ pc' = [pc EXCEPT ![p] = "truncate"]
  /\ UNCHANGED <<cmd, todo, accountsAndHomes, registryVars, options>>

TruncateFile(p) ==
  /\ At(p, "truncate")
  /\ TruncateOptions
  /\ Goto(p, "write")
  /\ UNCHANGED <<accountsAndHomes, registryVars>>

WriteFile(p) ==
  /\ At(p, "write")
  /\ SaveOptions(loaded[p], Owner(Path(p)),
                 IF cmd[p].op = "set" THEN cmd[p].id ELSE NoId)
  /\ pc' = [pc EXCEPT ![p] = "select"]
  /\ loaded' = [loaded EXCEPT ![p] = NoOptions]
  /\ UNCHANGED <<cmd, todo, accountsAndHomes, registryVars>>

\* The owner's other subu, as they are recorded now.
SelectRows(p) ==
  /\ At(p, "select")
  /\ Loop(p, PathsOfOwner(Owner(Path(p))) \ {Path(p)},
          IF cmd[p].op = "set" THEN "grant" ELSE "revoke", "chmod")
  /\ UNCHANGED <<accountsAndHomes, registryVars, options>>

\* Slip: the loop returns at the first user that is a member already.
GrantUntilMember(p) ==
  /\ At(p, "grant")
  /\ \E user \in todo[p] :
       IF CanJoin(user, Path(p))
       THEN /\ JoinGroup(user, Path(p))
            /\ Loop(p, IF <<user, Path(p)>> \in members THEN {} ELSE todo[p] \ {user},
                    "grant", "chmod")
       ELSE UNCHANGED accountVars /\ Return(p, "error")
  /\ UNCHANGED <<openHomes, registryVars, options>>

\* SELECT has no ORDER BY: the rows come in any order.
Grant(p) ==
  /\ At(p, "grant")
  /\ \E user \in todo[p] :
       /\ IF CanJoin(user, Path(p))
          THEN /\ JoinGroup(user, Path(p))
               /\ Loop(p, todo[p] \ {user}, "grant", "chmod")
          ELSE UNCHANGED accountVars /\ Return(p, "error")
  /\ UNCHANGED <<openHomes, registryVars, options>>

\* A failing gpasswd is ignored (check=False).
Revoke(p) ==
  /\ At(p, "revoke")
  /\ \E user \in todo[p] :
       /\ \/ LeaveGroup(user, Path(p))
          \/ GpasswdFails /\ UNCHANGED accountVars
       /\ Loop(p, todo[p] \ {user}, "revoke", "chmod")
  /\ UNCHANGED <<openHomes, registryVars, options>>

\* Slip: the home is taken to be there.
ChmodAnyHome(p) ==
  /\ At(p, "chmod")
  /\ openHomes' = IF cmd[p].op = "set"
                  THEN openHomes \cup {Path(p)}
                  ELSE openHomes \ {Path(p)}
  /\ Return(p, "ok")
  /\ UNCHANGED <<accountVars, registryVars, options>>

\* _chmod_incommon and _chmod_private; a missing home only draws a warning.
ChmodHome(p) ==
  /\ At(p, "chmod")
  /\ openHomes' = IF cmd[p].op = "set"
                  THEN openHomes \cup ({Path(p)} \cap Homes)
                  ELSE openHomes \ {Path(p)}
  /\ Return(p, "ok")
  /\ UNCHANGED <<accountVars, registryVars, options>>

-----------------------------------------------------------------------------

\* _resolve_subu finds the row by id or by path, or the command ends here.
OnRow(p, row) ==
  \/ Remove(p, row)
  \/ SetIncommon(p, row)
  \/ ClearIncommon(p, row)

OnPath(p, path) ==
  \/ Make(p, path)
  \/ Capture(p, path)

Step(p) ==
  \/ LoadSchema(p) \/ ExecuteSchema(p)
  \/ EnsureOwnGroup(p) \/ EnsureUser(p) \/ JoinAncestor(p)
  \/ InsertSubuRow(p)
  \/ ReadIncommon(p) \/ FindIncommon(p) \/ JoinIncommon(p)
  \/ UserDel(p) \/ GroupDel(p) \/ DeleteSubuRow(p)
  \/ CheckCurrent(p) \/ LoadOptions(p) \/ TruncateFile(p) \/ WriteFile(p)
  \/ SelectRows(p) \/ Grant(p) \/ Revoke(p) \/ ChmodHome(p)
  \/ Abort(p)
  \/ \E path \in Paths : OnPath(p, path)
  \/ \E row \in rows : OnRow(p, row)

Next == \E p \in Procs : Step(p)

Spec == Init /\ [][Next]_vars

-----------------------------------------------------------------------------

AccountsTypeOK ==
  /\ users \subseteq Accounts
  /\ groups \subseteq Accounts
  /\ members \subseteq Accounts \X Accounts

StoresTypeOK ==
  /\ dbFile \in DbFileStates
  /\ rows \subseteq Rows
  /\ options \in OptionValues
  /\ openHomes \subseteq Homes

ProcsTypeOK ==
  /\ pc \in [Procs -> Labels]
  /\ cmd \in [Procs -> Commands]
  /\ todo \in [Procs -> SUBSET Accounts]
  /\ loaded \in [Procs -> OptionValues]

\* An invocation with a step to take on a subu works on one of Paths.
WorksOnPath ==
  \A p \in Procs : pc[p] \notin Resting \cup {"ddl"} => Path(p) \in Paths

\* The variables hold what the code can put there.
TypeOK ==
  /\ AccountsTypeOK
  /\ StoresTypeOK
  /\ ProcsTypeOK
  /\ WorksOnPath
  /\ issued \in Nat

-----------------------------------------------------------------------------
(* Whatever runs concurrently and wherever an invocation dies. *)

\* _maybe_add_to_incommon and subu_option_incommon: no user is ever a member
\* of a group of another masu, although subu.options is keyed by ids that
\* SQLite hands out again, also to the subu of another masu.
OwnerIsolation == \A m \in members : SameOwner(m[1], m[2])

\* make_subu and subu_capture: a recorded subu whose Unix user exists has the
\* group of its own name, which incommon and its children rely on, although
\* removals run userdel and groupdel in between.
RecordedUserHasGroup ==
  \A row \in rows : row.path \in users => row.path \in groups

\* Why OwnerIsolation holds: what a loop has still to visit belongs to the
\* owner of the command's subu; the users of an incommon loop are subu.
LoopsWithinOwner ==
  \A p \in Procs : pc[p] \in {"join", "joinIncommon", "grant", "revoke"} =>
    \A account \in todo[p] :
      /\ SameOwner(account, Path(p))
      /\ pc[p] \in {"grant", "revoke"} => account \in Paths

\* Why RecordedUserHasGroup holds: a user without its group is one that no
\* row and no make or capture past its groupadd is about.
GrouplessIsUntouched ==
  \A user \in users \ groups :
    /\ \A row \in rows : row.path # user
    /\ \A p \in Procs :
         pc[p] \in {"ensureUser", "join", "insert"} => Path(p) # user

\* The manager keeps the promise of AccountPolicy to the host.
Policy == INSTANCE AccountPolicy

KeepsPolicy == Policy!PolicySpec

-----------------------------------------------------------------------------
(* When no other invocation runs; earlier ones may have died anywhere. *)

Returns(p, op, result) ==
  /\ pc[p] \notin Resting
  /\ cmd[p].op = op
  /\ pc'[p] = result

\* subu_make, subu_capture: rc 0 means that the account, its traversal groups,
\* the row and the owner's incommon membership are all there, also when the
\* command repeats one that died half way.
MakeEstablishes ==
  [][\A p \in Procs : Returns(p, "make", "ok") \/ Returns(p, "capture", "ok") =>
       LET path == Path(p) IN
         /\ path \in users' \cap groups'
         /\ \E row \in rows' : row.path = path
         /\ \A group \in AncestorGroups(path)
                       \cup OwnersRow(options[Owner(path)], Owner(path)) :
              <<path, group>> \in members']_vars

\* subu_remove: rc 0 means that no trace of the subu is left, also when the
\* command repeats one that died between userdel, groupdel and DELETE.
RemoveErases ==
  [][\A p \in Procs : Returns(p, "remove", "ok") =>
       /\ Path(p) \notin users' \cup groups'
       /\ \A row \in rows' : row.path # Path(p)
       /\ \A m \in members' : Path(p) \notin {m[1], m[2]}]_vars

\* subu_option_incommon: rc 0 of set means that every other recorded subu of
\* the owner is in the group, and that the subu made next will be.
SetShares ==
  [][\A p \in Procs : Returns(p, "set", "ok") =>
       /\ options'[Owner(Path(p))] = cmd[p].id
       /\ \A user \in PathsOfOwner(Owner(Path(p))) \ {Path(p)} :
            <<user, Path(p)>> \in members'
       /\ Path(p) \in Homes => Path(p) \in openHomes']_vars

\* subu_option_incommon: rc 0 of clear means that no other recorded subu of
\* the owner keeps access and none gets it later, also when the set it
\* undoes died half way.
ClearWithdraws ==
  [][\A p \in Procs : Returns(p, "clear", "ok") =>
       /\ options'[Owner(Path(p))] = NoId
       /\ \A user \in PathsOfOwner(Owner(Path(p))) \ {Path(p)} :
            <<user, Path(p)>> \notin members'
       /\ Path(p) \notin openHomes']_vars

\* subu_make and subu_capture record a subu only when its Unix side is
\* complete, so that no death leaves a row that promises more than there is.
RecordedAfterUnix ==
  [][\A row \in rows' \ rows :
       /\ row.path \in users' \cap groups'
       /\ \A group \in AncestorGroups(row.path) : <<row.path, group>> \in members']_vars

\* subu_remove drops a row only when user and group are gone, so that no
\* death leaves a managed account that no command can name any more.
ForgottenAfterUnix ==
  [][\A row \in rows \ rows' : row.path \notin users' \cup groups']_vars

-----------------------------------------------------------------------------
(* What the repository's text says and the code does not do. *)

\* domain/subu.py, lines 139-142: a subu is in its ancestor groups so that
\* directory traversal works.  No command may leave a recorded subu outside
\* the existing group of an ancestor.
RecordedCanTraverse ==
  (\A p \in Procs : pc[p] \in Resting) =>
    \A row \in rows : row.path \in users =>
      \A group \in AncestorGroups(row.path) \cap groups :
        <<row.path, group>> \in members

\* infrastructure/options_store.py, line 46: set_option sets a single key.
\* What it is about to save agrees with the file on every other masu's key.
SavesOneKey ==
  \A p \in Procs :
    pc[p] = "truncate" /\ (\A q \in Procs : pc[q] # "write") =>
      \A masu \in Masus \ {Owner(Path(p))} : loaded[p][masu] = options[masu]
=============================================================================
