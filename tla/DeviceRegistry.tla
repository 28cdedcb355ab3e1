--------------------------- MODULE DeviceRegistry ---------------------------
(***************************************************************************)
(* The device-aware manager (developer/manager/CLI): the tables device and *)
(* subu_node, the devices under /mnt whose directory trees they describe,  *)
(* and the invocations that reconcile the two.                             *)
(*                                                                         *)
(* sqlite3 runs a SELECT on its own until the connection's first write;    *)
(* that write begins a transaction, takes the database's one write lock    *)
(* and keeps it until commit() or close(), which rolls back.  So a scan    *)
(* looks a device up without the lock, and holds it from the upsert of     *)
(* the device row to the commit, all through the walk of the directories,  *)
(* which users, mounts and unmounts change meanwhile.                      *)
(*                                                                         *)
(* The tables are assumed to be loaded, and the mount points of Devices    *)
(* to exist under /mnt, where the mount scripts create them and leave      *)
(* them.  'device scan' runs the scan twice in one invocation, 'device     *)
(* attach' runs it once; a scan command here is one of those runs.         *)
(***************************************************************************)
EXTENDS SubuPaths, FiniteSets

CONSTANTS
  Procs,          \* invocations that may be under way at the same time
  Devices,        \* mapnames
  Local, Absent, NoProc,   \* no device; no row; nobody
  RefusedTokens,  \* directory names that _validate_token refuses
  InitiallyMounted, InitialTree,  \* the mounts and directories at the start
  MaxChanges,     \* bound on mounts, unmounts and changes of directories
  MaxCommands,    \* bound on the commands issued
  MayDie          \* may an invocation die between two steps?

\* A directory is named by its account: <<masu>> or a subu path.  A tree
\* holds the directories above each of its directories.
Trees ==
  {tree \in SUBSET Accounts : \A dir \in tree : AncestorGroups(dir) \subseteq tree}

ASSUME DeviceAssumption ==
  /\ Local \notin Devices
  /\ NoProc \notin Procs
  /\ \A path \in Paths : {dir \in AncestorGroups(path) : Len(dir) >= 2} \subseteq Paths
  /\ Absent \notin [device : Devices \cup {Local}, online : BOOLEAN]
  /\ RefusedTokens \subseteq Tokens
  /\ InitiallyMounted \subseteq Devices
  /\ InitialTree \in [Devices -> Trees]
  /\ MaxChanges \in Nat
  /\ MaxCommands \in Nat
  /\ MayDie \in BOOLEAN

VARIABLES
  mounted,   \* devices whose user_data is visible under /mnt
  tree,      \* the directories on each device
  changes,   \* number of changes made to these two
  db,        \* the committed tables
  work,      \* the tables as the transaction in progress sees them
  writer     \* the invocation that holds the write lock

VARIABLES
  pc,      \* where each invocation is; a resting one shows its last result
  todo,    \* scan: the devices it has still to come to
  at,      \* scan: the device being reconciled; capture: the device named
  known,   \* scan: did the SELECT find the device's row?
  dirs,    \* scan: directories whose entries are still to be listed
  seen,    \* scan: nodes it has come across on this device
  goal,    \* capture: the nodes its SELECTs found missing
  quiet,   \* history: no change under /mnt since the scan's upsert
  issued   \* number of commands issued so far

diskVars == <<mounted, tree, changes>>
dbVars == <<db, work, writer>>
localVars == <<at, known, dirs, seen, goal>>
vars == <<diskVars, dbVars, pc, todo, localVars, quiet, issued>>

NodeRows == [device : Devices \cup {Local}, online : BOOLEAN]

\* The rows by their UNIQUE columns, mapname and full_unix_name; a row is
\* never deleted, so its id says no more than these.
Tables ==
  [device : [Devices -> {"unknown", "online", "offline"}],
   node : [Paths -> NodeRows \cup {Absent}]]

Resting == {"idle", "ok", "error"}
Walking == {"owners", "walk"}
Labels == Resting \cup Walking \cup {"next", "upsert", "insert"}

Init ==
  /\ mounted = InitiallyMounted
  /\ tree = InitialTree
  /\ changes = 0
  /\ db = [device |-> [d \in Devices |-> "unknown"],
           node |-> [path \in Paths |-> Absent]]
  /\ work = db
  /\ writer = NoProc
  /\ pc = [p \in Procs |-> "idle"]
  /\ todo = [p \in Procs |-> {}]
  /\ at = [p \in Procs |-> Local]
  /\ known = [p \in Procs |-> FALSE]
  /\ dirs = [p \in Procs |-> {}]
  /\ seen = [p \in Procs |-> {}]
  /\ goal = [p \in Procs |-> {}]
  /\ quiet = [p \in Procs |-> FALSE]
  /\ issued = 0

-----------------------------------------------------------------------------
(* What happens under /mnt, whoever does it. *)

Disturb ==
  /\ changes < MaxChanges
  /\ changes' = changes + 1
  /\ quiet' = [p \in Procs |-> FALSE]
  /\ UNCHANGED <<dbVars, pc, todo, localVars, issued>>

Mount(d) ==
  /\ Disturb
  /\ d \notin mounted
  /\ mounted' = mounted \cup {d}
  /\ UNCHANGED tree

Unmount(d) ==
  /\ Disturb
  /\ d \in mounted
  /\ mounted' = mounted \ {d}
  /\ UNCHANGED tree

MakeDir(d, dir) ==
  /\ Disturb
  /\ dir \notin tree[d]
  /\ AncestorGroups(dir) \subseteq tree[d]
  /\ tree' = [tree EXCEPT ![d] = @ \cup {dir}]
  /\ UNCHANGED mounted

RemoveDir(d, dir) ==
  /\ Disturb
  /\ dir \in tree[d]
  /\ \A below \in tree[d] : dir \notin AncestorGroups(below)
  /\ tree' = [tree EXCEPT ![d] = @ \ {dir}]
  /\ UNCHANGED mounted

-----------------------------------------------------------------------------
(* The statements on the tables. *)

Recorded(tables) == {path \in Paths : tables.node[path] # Absent}

\* Slip: a row for the leaf alone.
LeafOnly(path) == {path}

\* The nodes of a path: one for each of its subu tokens.
Chain(path) == {path} \cup {dir \in AncestorGroups(path) : Len(dir) >= 2}

\* ensure_chain for each of the paths: a row that is there is left as it is.
EnsureChains(tables, paths, d) ==
  [tables EXCEPT !.node =
     [path \in Paths |->
        IF @[path] = Absent /\ \E leaf \in paths : path \in Chain(leaf)
        THEN [device |-> d, online |-> TRUE]
        ELSE @[path]]]

\* The device's nodes outside `present` go offline.
MarkMissingOffline(node, d, present) ==
  [path \in Paths |->
     IF node[path] # Absent /\ node[path].device = d /\ path \notin present
     THEN [node[path] EXCEPT !.online = FALSE]
     ELSE node[path]]

Refused(dir) == \E i \in 1 .. Len(dir) : dir[i] \in RefusedTokens

-----------------------------------------------------------------------------
(* Steps of one invocation. *)

Issue(p, label) ==
  /\ pc[p] \in Resting
  /\ issued < MaxCommands
  /\ issued' = issued + 1
  /\ pc' = [pc EXCEPT ![p] = label]
  /\ UNCHANGED <<diskVars, quiet>>

At(p, label) == pc[p] = label /\ UNCHANGED <<diskVars, issued>>

Goto(p, label) == pc' = [pc EXCEPT ![p] = label]

\* Return to the caller; the connection is closed and the locals are gone.
Return(p, result) ==
  /\ Goto(p, result)
  /\ todo' = [todo EXCEPT ![p] = {}]
  /\ at' = [at EXCEPT ![p] = Local]
  /\ known' = [known EXCEPT ![p] = FALSE]
  /\ dirs' = [dirs EXCEPT ![p] = {}]
  /\ seen' = [seen EXCEPT ![p] = {}]
  /\ goal' = [goal EXCEPT ![p] = {}]
  /\ quiet' = [quiet EXCEPT ![p] = FALSE]

\* Slip: an exception skips the close().
FailUnclosed(p) ==
  /\ Return(p, "error")
  /\ UNCHANGED dbVars

\* An exception: close() rolls the open transaction back.
Fail(p) ==
  /\ Return(p, "error")
  /\ writer' = IF writer = p THEN NoProc ELSE writer
  /\ work' = IF writer = p THEN db ELSE work
  /\ UNCHANGED db

\* The invocation is killed, or a call fails for a reason outside the model.
Abort(p) ==
  /\ MayDie
  /\ pc[p] \notin Resting
  /\ Fail(p)
  /\ UNCHANGED <<diskVars, issued>>

\* The write lock is somebody else's for longer than sqlite3 waits.
Busy(p) ==
  /\ pc[p] \in {"upsert", "insert"}
  /\ writer # NoProc
  /\ Fail(p)
  /\ UNCHANGED <<diskVars, issued>>

-----------------------------------------------------------------------------
(* device scan, device attach: each device in a transaction of its own. *)

ScanStart(p) ==
  /\ Issue(p, "next")
  /\ todo' = [todo EXCEPT ![p] = Devices]
  /\ UNCHANGED <<dbVars, localVars>>

\* Slip: the device is set up only when its row is new.
NextNewDevice(p) ==
  /\ At(p, "next")
  /\ \E d \in todo[p] :
       /\ todo' = [todo EXCEPT ![p] = @ \ {d}]
       /\ IF d \in mounted
          THEN /\ at' = [at EXCEPT ![p] = IF db.device[d] = "unknown" THEN d ELSE @]
               /\ known' = [known EXCEPT ![p] = db.device[d] # "unknown"]
               /\ Goto(p, "upsert")
          ELSE UNCHANGED <<at, known, pc>>
  /\ UNCHANGED <<dbVars, dirs, seen, goal, quiet>>

\* Slip: the entries of /mnt are gone through again and again.
NextDeviceAgain(p) ==
  /\ At(p, "next")
  /\ \E d \in todo[p] \cap mounted :
       /\ at' = [at EXCEPT ![p] = d]
       /\ known' = [known EXCEPT ![p] = db.device[d] # "unknown"]
       /\ Goto(p, "upsert")
  /\ UNCHANGED <<dbVars, todo, dirs, seen, goal, quiet>>

\* The next directory of /mnt; without user_data it is passed over.  The
\* code takes them in the order of their names, here in any order.
NextDevice(p) ==
  /\ At(p, "next")
  /\ \E d \in todo[p] :
       /\ todo' = [todo EXCEPT ![p] = @ \ {d}]
       /\ IF d \in mounted
          THEN /\ at' = [at EXCEPT ![p] = d]
               /\ known' = [known EXCEPT ![p] = db.device[d] # "unknown"]
               /\ Goto(p, "upsert")
          ELSE UNCHANGED <<at, known, pc>>
  /\ UNCHANGED <<dbVars, dirs, seen, goal, quiet>>

ScanDone(p) ==
  /\ At(p, "next")
  /\ todo[p] = {}
  /\ Return(p, "ok")
  /\ UNCHANGED dbVars

\* UPDATE or INSERT as the SELECT found; INSERT fails if the row came since.
UpsertDevice(p) ==
  /\ At(p, "upsert")
  /\ writer = NoProc
  /\ IF db.device[at[p]] # "unknown" /\ ~known[p]
     THEN Fail(p)
     ELSE /\ writer' = p
          /\ work' = [db EXCEPT !.device[at[p]] = "online"]
          /\ seen' = [seen EXCEPT ![p] = {}]
          /\ quiet' = [quiet EXCEPT ![p] = TRUE]
          /\ Goto(p, "owners")
          /\ UNCHANGED <<db, todo, at, known, dirs, goal>>

\* user_data.iterdir(); FileNotFoundError is not caught here.
ListOwners(p) ==
  /\ At(p, "owners")
  /\ IF at[p] \in mounted
     THEN /\ dirs' = [dirs EXCEPT ![p] = {dir \in tree[at[p]] : Len(dir) = 1}]
          /\ Goto(p, "walk")
          /\ UNCHANGED <<dbVars, todo, at, known, seen, goal, quiet>>
     ELSE Fail(p)

Entries(d, dir) ==
  IF d \in mounted
  THEN {path \in tree[d] : Len(path) = Len(dir) + 1 /\ Parent(path) = dir}
  ELSE {}

\* Slip: the walk does not descend.
WalkTopLevel(p) ==
  /\ At(p, "walk")
  /\ \E dir \in dirs[p] :
       LET found == Entries(at[p], dir) IN
       IF \E path \in found : Refused(path)
       THEN Fail(p)
       ELSE /\ work' = EnsureChains(work, found, at[p])
            /\ seen' = [seen EXCEPT ![p] = @ \cup found]
            /\ dirs' = [dirs EXCEPT ![p] = @ \ {dir}]
            /\ UNCHANGED <<db, writer, pc, todo, at, known, goal, quiet>>

\* One subu_data directory is listed, if it is still there: its entries are
\* recorded and seen, and theirs are to be listed.  SystemExit on a refused
\* name.  The code works from a stack, here in any order.
Walk(p) ==
  /\ At(p, "walk")
  /\ \E dir \in dirs[p] :
       LET found == Entries(at[p], dir) IN
       IF \E path \in found : Refused(path)
       THEN Fail(p)
       ELSE /\ work' = EnsureChains(work, found, at[p])
            /\ seen' = [seen EXCEPT ![p] = @ \cup found]
            /\ dirs' = [dirs EXCEPT ![p] = (@ \ {dir}) \cup found]
            /\ UNCHANGED <<db, writer, pc, todo, at, known, goal, quiet>>

\* _mark_missing_offline and commit.
CommitDevice(p) ==
  /\ At(p, "walk")
  /\ dirs[p] = {}
  /\ db' = [work EXCEPT !.node = MarkMissingOffline(@, at[p], seen[p])]
  /\ work' = db'
  /\ writer' = NoProc
  /\ quiet' = [quiet EXCEPT ![p] = FALSE]
  /\ Goto(p, "next")
  /\ UNCHANGED <<todo, localVars>>

-----------------------------------------------------------------------------
(* subu capture *)

\* Slip: the device is taken by its name, scanned or not.
AnyDevice(d) == d \in Devices \cup {Local}

DeviceFound(d) == d = Local \/ db.device[d] # "unknown"

\* The device's row is looked up, then the chain down to the first missing
\* node.  Rows are never deleted, so the SELECTs together see one state.
Capture(p, path, d) ==
  /\ UNCHANGED <<dbVars, todo, known, dirs, seen>>
  /\ LET missing == Chain(path) \ Recorded(db) IN
       IF ~DeviceFound(d) \/ Refused(path)
       THEN Issue(p, "error") /\ UNCHANGED <<at, goal>>
       ELSE IF missing = {}
       THEN Issue(p, "ok") /\ UNCHANGED <<at, goal>>
       ELSE /\ Issue(p, "insert")
            /\ at' = [at EXCEPT ![p] = d]
            /\ goal' = [goal EXCEPT ![p] = missing]

\* The INSERTs and commit; full_unix_name is UNIQUE.
CaptureInsert(p) ==
  /\ At(p, "insert")
  /\ writer = NoProc
  /\ IF goal[p] \cap Recorded(db) # {}
     THEN Fail(p)
     ELSE /\ db' = EnsureChains(db, goal[p], at[p])
          /\ work' = db'
          /\ UNCHANGED writer
          /\ Return(p, "ok")

-----------------------------------------------------------------------------
(* device detach: the device's row and its nodes, then commit.  The mount  *)
(* itself is left to the caller.                                           *)

\* Slip: the device's row only.
DetachRowOnly(p, d) ==
  /\ writer = NoProc
  /\ Issue(p, "ok")
  /\ db' = IF db.device[d] = "unknown"
           THEN db
           ELSE [db EXCEPT !.device[d] = "offline"]
  /\ work' = db'
  /\ UNCHANGED <<writer, todo, localVars>>

\* Slip: the rows are changed without regard to the write lock.
DetachUnlocked(p, d) ==
  /\ Issue(p, "ok")
  /\ db' = IF db.device[d] = "unknown"
           THEN db
           ELSE [device |-> [db.device EXCEPT ![d] = "offline"],
                 node |-> MarkMissingOffline(db.node, d, {})]
  /\ work' = IF writer = NoProc THEN db' ELSE work
  /\ UNCHANGED <<writer, todo, localVars>>

DetachDevice(p, d) ==
  /\ writer = NoProc
  /\ Issue(p, "ok")
  /\ db' = IF db.device[d] = "unknown"
           THEN db
           ELSE [device |-> [db.device EXCEPT ![d] = "offline"],
                 node |-> MarkMissingOffline(db.node, d, {})]
  /\ work' = db'
  /\ UNCHANGED <<writer, todo, localVars>>

-----------------------------------------------------------------------------

\* The steps an invocation takes once it is under way.
Continue(p) ==
  \/ Busy(p)
  \/ NextDevice(p)
  \/ ScanDone(p)
  \/ UpsertDevice(p)
  \/ ListOwners(p)
  \/ Walk(p)
  \/ CommitDevice(p)
  \/ CaptureInsert(p)

Command(p) ==
  \/ ScanStart(p)
  \/ \E path \in Paths, d \in Devices \cup {Local} : Capture(p, path, d)
  \/ \E d \in Devices : DetachDevice(p, d)

Disk ==
  \E d \in Devices :
    \/ Mount(d)
    \/ Unmount(d)
    \/ \E dir \in Accounts : MakeDir(d, dir) \/ RemoveDir(d, dir)

Next ==
  \/ Disk
  \/ \E p \in Procs : Command(p) \/ Continue(p) \/ Abort(p)

Spec == Init /\ [][Next]_vars

\* An invocation that runs keeps running; nobody has to issue another one.
FairSpec == Spec /\ \A p \in Procs : WF_vars(Continue(p))

-----------------------------------------------------------------------------
(* Properties *)

DiskTypeOK ==
  /\ mounted \in SUBSET Devices
  /\ tree \in [Devices -> Trees]
  /\ changes \in Nat

DbTypeOK ==
  /\ db \in Tables
  /\ work \in Tables
  /\ writer \in Procs \cup {NoProc}

LocalsTypeOK ==
  /\ pc \in [Procs -> Labels]
  /\ todo \in [Procs -> SUBSET Devices]
  /\ at \in [Procs -> Devices \cup {Local}]
  /\ known \in [Procs -> BOOLEAN]
  /\ dirs \in [Procs -> SUBSET Accounts]
  /\ seen \in [Procs -> SUBSET Paths]
  /\ goal \in [Procs -> SUBSET Paths]
  /\ quiet \in [Procs -> BOOLEAN]

\* Every variable has its type (the columns of schema.sql, the locals of
\* reconcile_device and subu_capture), and a scan past its SELECT has a
\* device at hand.
TypeOK ==
  /\ DiskTypeOK
  /\ DbTypeOK
  /\ LocalsTypeOK
  /\ issued \in Nat
  /\ \A p \in Procs : pc[p] \in Walking \cup {"upsert"} => at[p] \in Devices

\* The write lock is held exactly by the scan that is between its upsert and
\* its commit: no way out of a scan (an unplugged device, a refused name, a
\* death) leaves the database locked, and no two scans walk at once.
LockIsOfTheWalker ==
  \A p \in Procs : writer = p <=> pc[p] \in Walking

Unbroken(tables) ==
  \A path \in Recorded(tables) : Len(path) > 2 => Parent(path) \in Recorded(tables)

\* A recorded node has its parent recorded (subu_node.parent_id), in the
\* committed tables and in the transaction in progress, however scans,
\* captures and their failures interleave.
ChainsUnbroken == Unbroken(db) /\ Unbroken(work)

\* A node refers to a device that has a row (subu_node.device_id).
DevicesOfNodesRecorded ==
  \A path \in Recorded(db) :
    db.node[path].device # Local => db.device[db.node[path].device] # "unknown"

OnlineOn(tables, d) ==
  {path \in Recorded(tables) : tables.node[path].device = d /\ tables.node[path].online}

\* What reconciling a device commits touches that device's row, its nodes,
\* and nodes that were not recorded before; nothing that others committed
\* while it walked is lost.
CommitTouchesItsDevice ==
  [][\A p \in Procs : CommitDevice(p) =>
       /\ \A d \in Devices \ {at[p]} : db'.device[d] = db.device[d]
       /\ \A path \in Paths :
            db'.node[path] # db.node[path] =>
              /\ db'.node[path].device = at[p]
              /\ db.node[path] = Absent \/ db.node[path].device = at[p]]_vars

\* If nothing under /mnt changed since the upsert, what reconcile_device
\* commits is the device: every subu directory on it is recorded, and none
\* of its nodes is online without a directory.
QuietScanIsExact ==
  [][\A p \in Procs : CommitDevice(p) /\ quiet[p] =>
       /\ tree[at[p]] \cap Paths \subseteq Recorded(db')
       /\ OnlineOn(db', at[p]) \subseteq tree[at[p]]]_vars

Book == INSTANCE DeviceBook WITH device <- db.device, node <- db.node

\* What is committed changes only by whole operations (DeviceBook): no
\* reader sees half a scan, half a capture or half a detach, whichever
\* invocations interleave, fail or die.
ImplementsBook == Book!BookSpec

\* A command that is under way returns, also while others hold the lock,
\* devices vanish and directories change.
CommandsReturn ==
  \A p \in Procs : pc[p] \notin Resting ~> pc[p] \in Resting

\* "Ensure the chain exists and is marked online on this device"
\* (domain/device.py, reconcile_device): whatever the walk has seen is
\* online at the commit.
SeenIsOnline ==
  [][\A p \in Procs : CommitDevice(p) =>
       \A path \in seen[p] : db'.node[path].online]_vars
=============================================================================
