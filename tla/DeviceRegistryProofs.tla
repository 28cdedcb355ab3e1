------------------------ MODULE DeviceRegistryProofs ------------------------
(***************************************************************************)
(* Proofs about DeviceRegistry for any devices, trees and invocations: the *)
(* types, the write lock, and what a scan commits.                         *)
(***************************************************************************)
EXTENDS DeviceRegistry, TLAPS

-----------------------------------------------------------------------------
(* The hierarchy of directories. *)

\* A prefix of a sequence, and a prefix of that.
LEMMA Prefixes ==
  ASSUME NEW s \in Seq(Tokens), NEW n \in 1 .. Len(s), NEW k \in 1 .. n
  PROVE  /\ SubSeq(s, 1, n) \in Seq(Tokens)
         /\ Len(SubSeq(s, 1, n)) = n
         /\ SubSeq(SubSeq(s, 1, n), 1, k) = SubSeq(s, 1, k)
  OBVIOUS

\* Every account is a sequence of tokens, and one of length two or more is
\* a subu path.
LEMMA AccountForm ==
  ASSUME NEW dir \in Accounts
  PROVE  /\ dir \in Seq(Tokens)
         /\ Len(dir) \in Nat \ {0}
         /\ Len(dir) >= 2 => dir \in Paths
<1>1. CASE dir \in Paths
  BY <1>1, PathsAssumption
<1>2. CASE dir \notin Paths
  <2>1. PICK path \in Paths : dir \in AncestorGroups(path)
    BY <1>2 DEF Accounts
  <2>2. PICK n \in 1 .. Len(path) - 1 : dir = SubSeq(path, 1, n)
    BY <2>1 DEF AncestorGroups
  <2>3. path \in Seq(Tokens)
    BY PathsAssumption
  <2>4. dir \in Seq(Tokens) /\ Len(dir) = n
    BY <2>2, <2>3
  <2>5. Len(dir) >= 2 => dir \in Paths
    BY <2>1, DeviceAssumption
  <2>. QED  BY <2>2, <2>4, <2>5
<1>. QED  BY <1>1, <1>2

\* A chain consists of subu paths, ends in the path itself, and holds the
\* parent of each of its members below the first level.
LEMMA ChainForm ==
  ASSUME NEW path \in Paths
  PROVE  /\ Chain(path) \subseteq Paths
         /\ path \in Chain(path)
         /\ \A x \in Chain(path) : Len(x) > 2 => Parent(x) \in Chain(path)
<1>0. path \in Seq(Tokens) /\ Len(path) >= 2
  BY PathsAssumption
<1>1. Chain(path) \subseteq Paths /\ path \in Chain(path)
  BY DeviceAssumption DEF Chain
<1>2. ASSUME NEW x \in Chain(path), Len(x) > 2
      PROVE  Parent(x) \in Chain(path)
  <2>1. PICK n \in 1 .. Len(path) : x = SubSeq(path, 1, n)
    BY <1>0 DEF Chain, AncestorGroups
  <2>2. Len(x) = n /\ n > 2
    BY <1>0, <1>2, <2>1
  <2>3. n - 1 \in 1 .. n /\ n - 1 \in 1 .. Len(path) - 1
    BY <1>0, <2>2
  <2>4. Parent(x) = SubSeq(path, 1, n - 1)
    BY <1>0, <2>1, <2>2, <2>3, Prefixes DEF Parent
  <2>5. Len(Parent(x)) = n - 1
    BY <1>0, <2>2, <2>3, <2>4, Prefixes
  <2>. QED  BY <2>2, <2>3, <2>4, <2>5 DEF Chain, AncestorGroups
<1>. QED  BY <1>1, <1>2

\* What is listed in a directory is a subu on the device.
LEMMA EntriesForm ==
  ASSUME DiskTypeOK, NEW d \in Devices, NEW dir \in Accounts
  PROVE  Entries(d, dir) \subseteq Paths \cap tree[d]
<1>1. tree[d] \subseteq Accounts
  BY DEF DiskTypeOK, Trees
<1>2. Len(dir) \in Nat \ {0}
  BY AccountForm
<1>3. ASSUME NEW path \in tree[d], Len(path) = Len(dir) + 1
      PROVE  path \in Paths
  BY <1>1, <1>2, <1>3, AccountForm
<1>. QED  BY <1>3 DEF Entries

-----------------------------------------------------------------------------
(* The statements on the tables. *)

LEMMA AbsentIsNoRow == Absent \notin NodeRows
BY DeviceAssumption DEF NodeRows

\* ensure_chain keeps the type of the nodes, records the chains, and leaves
\* every row that was there as it was.
LEMMA EnsureChainsForm ==
  ASSUME NEW tables \in Tables, NEW paths \in SUBSET Paths,
         NEW d \in Devices \cup {Local}
  PROVE  LET after == EnsureChains(tables, paths, d)
         IN  /\ after \in Tables
             /\ after.device = tables.device
             /\ Recorded(after)
                  = Recorded(tables) \cup (UNION {Chain(path) : path \in paths})
             /\ \A x \in Paths :
                  \/ after.node[x] = tables.node[x]
                  \/ tables.node[x] = Absent /\ after.node[x].device = d
<1>. DEFINE row == [device |-> d, online |-> TRUE]
            after == EnsureChains(tables, paths, d)
<1>0. row \in NodeRows
  BY DEF NodeRows
<1>1. row \in NodeRows /\ row # Absent
  BY <1>0, AbsentIsNoRow
<1>2. /\ after.device = tables.device
      /\ after.node = [x \in Paths |->
                         IF tables.node[x] = Absent /\ \E leaf \in paths : x \in Chain(leaf)
                         THEN row ELSE tables.node[x]]
  BY DEF Tables, EnsureChains
<1>3. \A x \in Paths :
        after.node[x] = IF tables.node[x] = Absent /\ \E leaf \in paths : x \in Chain(leaf)
                        THEN row ELSE tables.node[x]
  BY <1>2
<1>4. after.node \in [Paths -> NodeRows \cup {Absent}]
  BY <1>1, <1>2, <1>3 DEF Tables
<1>5. after \in Tables
  BY <1>4 DEF Tables, EnsureChains
<1>6. UNION {Chain(path) : path \in paths} \subseteq Paths
  BY ChainForm
<1>7. Recorded(after)
        = Recorded(tables) \cup (UNION {Chain(path) : path \in paths})
  <2>1. ASSUME NEW x \in Paths
        PROVE  x \in Recorded(after)
                 <=> x \in Recorded(tables) \/ \E leaf \in paths : x \in Chain(leaf)
    BY <1>1, <1>3 DEF Recorded
  <2>. HIDE DEF after
  <2>. QED  BY <2>1, <1>6 DEF Recorded
<1>8. row.device = d
  OBVIOUS
<1>9. \A x \in Paths :
        \/ after.node[x] = tables.node[x]
        \/ tables.node[x] = Absent /\ after.node[x].device = d
  BY <1>3, <1>8
<1>. QED  BY <1>2, <1>5, <1>7, <1>9

\* _mark_missing_offline keeps the type, records and forgets nothing, and
\* changes only nodes of its device, which stay its device's; what it
\* leaves online on the device is present.
LEMMA MarkMissingForm ==
  ASSUME NEW node \in [Paths -> NodeRows \cup {Absent}],
         NEW d \in Devices, NEW present \in SUBSET Paths
  PROVE  LET after == MarkMissingOffline(node, d, present)
         IN  /\ after \in [Paths -> NodeRows \cup {Absent}]
             /\ \A x \in Paths :
                  /\ after[x] # Absent <=> node[x] # Absent
                  /\ node[x] # Absent => after[x].device = node[x].device
                  /\ after[x] # node[x] => node[x] # Absent /\ node[x].device = d
                  /\ /\ after[x] # Absent
                     /\ after[x].device = d
                     /\ after[x].online
                     => x \in present
<1>. DEFINE after == MarkMissingOffline(node, d, present)
<1>1. ASSUME NEW x \in Paths, node[x] # Absent
      PROVE  LET row == [node[x] EXCEPT !.online = FALSE]
             IN  /\ row \in NodeRows
                 /\ row # Absent
                 /\ row.device = node[x].device
                 /\ row.online = FALSE
  <2>. DEFINE row == [node[x] EXCEPT !.online = FALSE]
  <2>1. node[x] \in NodeRows
    BY <1>1
  <2>2. row \in NodeRows /\ row.device = node[x].device /\ row.online = FALSE
    BY <2>1 DEF NodeRows
  <2>3. row # Absent
    BY <2>2, AbsentIsNoRow
  <2>. QED  BY <2>2, <2>3
<1>2. \A x \in Paths :
        after[x] = IF node[x] # Absent /\ node[x].device = d /\ x \notin present
                   THEN [node[x] EXCEPT !.online = FALSE] ELSE node[x]
  BY DEF MarkMissingOffline
<1>3. after \in [Paths -> NodeRows \cup {Absent}]
  BY <1>1, <1>2 DEF MarkMissingOffline
<1>4. ASSUME NEW x \in Paths
      PROVE  /\ after[x] # Absent <=> node[x] # Absent
             /\ node[x] # Absent => after[x].device = node[x].device
             /\ after[x] # node[x] => node[x] # Absent /\ node[x].device = d
             /\ /\ after[x] # Absent
                /\ after[x].device = d
                /\ after[x].online
                => x \in present
  <2>1. CASE node[x] # Absent /\ node[x].device = d /\ x \notin present
    <3>1. after[x] = [node[x] EXCEPT !.online = FALSE]
      BY <1>2, <2>1
    <3>. HIDE DEF after
    <3>. QED  BY <1>1, <2>1, <3>1
  <2>2. CASE ~(node[x] # Absent /\ node[x].device = d /\ x \notin present)
    <3>1. after[x] = node[x]
      BY <1>2, <2>2
    <3>. HIDE DEF after
    <3>. QED  BY <2>2, <3>1
  <2>. QED  BY <2>1, <2>2
<1>. HIDE DEF after
<1>5. QED  BY <1>3, <1>4 DEF after

-----------------------------------------------------------------------------
(* Type correctness. *)

AtDevice == \A p \in Procs : pc[p] \in Walking \cup {"upsert"} => at[p] \in Devices

\* What the steps of one invocation keep.
StepTypeOK == DbTypeOK /\ LocalsTypeOK /\ AtDevice

LEMMA TypeInit == Init => TypeOK
<1>. SUFFICES ASSUME Init PROVE TypeOK
  OBVIOUS
<1>1. DiskTypeOK
  BY DeviceAssumption DEF Init, DiskTypeOK
<1>2. DbTypeOK
  BY DEF Init, DbTypeOK, Tables
<1>3. LocalsTypeOK
  BY DEF Init, LocalsTypeOK, Labels, Resting
<1>4. AtDevice
  BY DEF Init, AtDevice, Walking
<1>. QED  BY <1>1, <1>2, <1>3, <1>4 DEF Init, TypeOK, AtDevice

LEMMA ReturnType ==
  ASSUME LocalsTypeOK, AtDevice, NEW p \in Procs, NEW result \in Resting,
         Return(p, result)
  PROVE  LocalsTypeOK' /\ AtDevice'
<1>1. LocalsTypeOK'
  BY DEF LocalsTypeOK, Return, Goto, Labels
<1>2. AtDevice'
  BY DEF LocalsTypeOK, AtDevice, Return, Goto, Resting, Walking
<1>. QED  BY <1>1, <1>2

LEMMA FailType ==
  ASSUME StepTypeOK, NEW p \in Procs, Fail(p)
  PROVE  StepTypeOK'
<1>1. LocalsTypeOK' /\ AtDevice'
  BY ReturnType DEF StepTypeOK, Fail, Resting
<1>2. DbTypeOK'
  BY DEF StepTypeOK, Fail, DbTypeOK
<1>. QED  BY <1>1, <1>2 DEF StepTypeOK

\* Changes under /mnt keep the trees closed.
LEMMA DiskType ==
  ASSUME DiskTypeOK, Disk
  PROVE  DiskTypeOK'
<1>1. ASSUME NEW d \in Devices, Mount(d) \/ Unmount(d)
      PROVE  DiskTypeOK'
  BY <1>1 DEF DiskTypeOK, Mount, Unmount, Disturb
<1>2. ASSUME NEW d \in Devices, NEW dir \in Accounts, MakeDir(d, dir)
      PROVE  DiskTypeOK'
  <2>1. tree[d] \in Trees
    BY DEF DiskTypeOK
  <2>2. tree[d] \cup {dir} \in Trees
    BY <1>2, <2>1 DEF MakeDir, Trees
  <2>. QED  BY <1>2, <2>2 DEF DiskTypeOK, MakeDir, Disturb
<1>3. ASSUME NEW d \in Devices, NEW dir \in Accounts, RemoveDir(d, dir)
      PROVE  DiskTypeOK'
  <2>1. tree[d] \in Trees
    BY DEF DiskTypeOK
  <2>2. tree[d] \ {dir} \in Trees
    BY <1>3, <2>1 DEF RemoveDir, Trees
  <2>. QED  BY <1>3, <2>2 DEF DiskTypeOK, RemoveDir, Disturb
<1>. QED  BY <1>1, <1>2, <1>3 DEF Disk

LEMMA DiskKeepsSteps ==
  ASSUME StepTypeOK, Disk
  PROVE  /\ StepTypeOK' /\ UNCHANGED <<dbVars, pc, todo, localVars, issued>>
         /\ quiet' = [p \in Procs |-> FALSE]
<1>1. Disturb
  BY DEF Disk, Mount, Unmount, MakeDir, RemoveDir
<1>. QED  BY <1>1 DEF Disturb, StepTypeOK, DbTypeOK, LocalsTypeOK, AtDevice,
               dbVars, localVars

LEMMA CommitTables ==
  ASSUME StepTypeOK, NEW p \in Procs, CommitDevice(p)
  PROVE  /\ at[p] \in Devices
         /\ work.node \in [Paths -> NodeRows \cup {Absent}]
         /\ seen[p] \in SUBSET Paths
         /\ db'.device = work.device
         /\ db'.node = MarkMissingOffline(work.node, at[p], seen[p])
         /\ db' \in Tables
<1>1. at[p] \in Devices
  BY DEF StepTypeOK, AtDevice, CommitDevice, At, Walking
<1>2. work \in Tables /\ seen[p] \in SUBSET Paths
  BY DEF StepTypeOK, DbTypeOK, LocalsTypeOK
<1>3. work.node \in [Paths -> NodeRows \cup {Absent}]
  BY <1>2 DEF Tables
<1>4. MarkMissingOffline(work.node, at[p], seen[p])
        \in [Paths -> NodeRows \cup {Absent}]
  BY <1>1, <1>2, <1>3, MarkMissingForm
<1>5. /\ db'.device = work.device
      /\ db'.node = MarkMissingOffline(work.node, at[p], seen[p])
  BY <1>2 DEF CommitDevice, Tables
<1>6. db' \in Tables
  BY <1>2, <1>4 DEF CommitDevice, Tables
<1>. QED  BY <1>1, <1>2, <1>3, <1>5, <1>6

LEMMA DetachTables ==
  ASSUME StepTypeOK, NEW p \in Procs, NEW d \in Devices, DetachDevice(p, d)
  PROVE  /\ db' \in Tables
         /\ \/ db' = db
            \/ /\ db'.device = [db.device EXCEPT ![d] = "offline"]
               /\ db'.node = MarkMissingOffline(db.node, d, {})
<1>1. db \in Tables /\ db.node \in [Paths -> NodeRows \cup {Absent}]
  BY DEF StepTypeOK, DbTypeOK, Tables
<1>2. CASE db.device[d] = "unknown"
  BY <1>1, <1>2 DEF DetachDevice
<1>3. CASE db.device[d] # "unknown"
  <2>1. MarkMissingOffline(db.node, d, {}) \in [Paths -> NodeRows \cup {Absent}]
    BY <1>1, MarkMissingForm
  <2>2. [db.device EXCEPT ![d] = "offline"]
          \in [Devices -> {"unknown", "online", "offline"}]
    BY <1>1 DEF Tables
  <2>3. db' = [device |-> [db.device EXCEPT ![d] = "offline"],
               node |-> MarkMissingOffline(db.node, d, {})]
    BY <1>3 DEF DetachDevice
  <2>. QED  BY <2>1, <2>2, <2>3 DEF Tables
<1>. QED  BY <1>2, <1>3

\* The transaction of a scan begins with its device's row.
LEMMA UpsertTables ==
  ASSUME StepTypeOK, NEW p \in Procs, pc[p] = "upsert"
  PROVE  /\ at[p] \in Devices
         /\ [db EXCEPT !.device[at[p]] = "online"] \in Tables
         /\ [db EXCEPT !.device[at[p]] = "online"].node = db.node
         /\ [db EXCEPT !.device[at[p]] = "online"].device
              = [db.device EXCEPT ![at[p]] = "online"]
<1>1. at[p] \in Devices
  BY DEF StepTypeOK, AtDevice
<1>2. db \in Tables
  BY DEF StepTypeOK, DbTypeOK
<1>. QED  BY <1>1, <1>2 DEF Tables

LEMMA CommandType ==
  ASSUME StepTypeOK, NEW p \in Procs, Command(p)
  PROVE  StepTypeOK' /\ UNCHANGED diskVars
<1>. USE DEF StepTypeOK
<1>1. CASE ScanStart(p)
  BY <1>1 DEF ScanStart, Issue, Resting, Labels, Walking, LocalsTypeOK, DbTypeOK,
              AtDevice, dbVars, localVars, diskVars
<1>2. ASSUME NEW path \in Paths, NEW d \in Devices \cup {Local}, Capture(p, path, d)
      PROVE  StepTypeOK' /\ UNCHANGED diskVars
  <2>1. Chain(path) \ Recorded(db) \in SUBSET Paths
    BY ChainForm
  <2>2. PICK label \in {"error", "ok", "insert"} : Issue(p, label)
    BY <1>2 DEF Capture
  <2>3. /\ at' = at \/ at' = [at EXCEPT ![p] = d]
        /\ goal' = goal \/ goal' = [goal EXCEPT ![p] = Chain(path) \ Recorded(db)]
        /\ UNCHANGED <<dbVars, todo, known, dirs, seen>>
    BY <1>2 DEF Capture
  <2>4. LocalsTypeOK'
    <3>1. pc' \in [Procs -> Labels] /\ quiet' = quiet
      BY <2>2 DEF Issue, LocalsTypeOK, Labels, Resting
    <3>2. at' \in [Procs -> Devices \cup {Local}] /\ goal' \in [Procs -> SUBSET Paths]
      BY <2>1, <2>3 DEF LocalsTypeOK
    <3>. QED  BY <2>3, <3>1, <3>2 DEF LocalsTypeOK
  <2>5. AtDevice'
    BY <2>2, <2>3 DEF Issue, LocalsTypeOK, AtDevice, Walking
  <2>. QED  BY <2>2, <2>3, <2>4, <2>5 DEF DbTypeOK, dbVars, Issue
<1>3. ASSUME NEW d \in Devices, DetachDevice(p, d)
      PROVE  StepTypeOK' /\ UNCHANGED diskVars
  <2>1. DbTypeOK'
    BY <1>3, DetachTables DEF DetachDevice, DbTypeOK
  <2>2. LocalsTypeOK' /\ AtDevice' /\ UNCHANGED diskVars
    BY <1>3 DEF DetachDevice, Issue, LocalsTypeOK, AtDevice, Labels, Resting,
                Walking, localVars
  <2>. QED  BY <2>1, <2>2
<1>. QED  BY <1>1, <1>2, <1>3 DEF Command

LEMMA ContinueType ==
  ASSUME DiskTypeOK, StepTypeOK, NEW p \in Procs, Continue(p) \/ Abort(p)
  PROVE  StepTypeOK' /\ UNCHANGED <<diskVars, issued>>
<1>1. CASE Busy(p)
  BY <1>1, FailType DEF Busy
<1>2. CASE NextDevice(p)
  <2>. PICK d \in todo[p] :
         /\ todo' = [todo EXCEPT ![p] = @ \ {d}]
         /\ IF d \in mounted
            THEN /\ at' = [at EXCEPT ![p] = d]
                 /\ known' = [known EXCEPT ![p] = db.device[d] # "unknown"]
                 /\ Goto(p, "upsert")
            ELSE UNCHANGED <<at, known, pc>>
    BY <1>2 DEF NextDevice
  <2>1. d \in Devices
    BY DEF StepTypeOK, LocalsTypeOK
  <2>2. todo' \in [Procs -> SUBSET Devices]
    BY DEF StepTypeOK, LocalsTypeOK
  <2>3. known' \in [Procs -> BOOLEAN]
    <3>1. [known EXCEPT ![p] = db.device[d] # "unknown"] \in [Procs -> BOOLEAN]
      BY Zenon DEF StepTypeOK, LocalsTypeOK
    <3>. QED  BY <3>1 DEF StepTypeOK, LocalsTypeOK
  <2>4. /\ pc' \in [Procs -> Labels]
        /\ at' \in [Procs -> Devices \cup {Local}]
    BY <2>1 DEF StepTypeOK, LocalsTypeOK, Goto, Labels
  <2>5. AtDevice'
    BY <2>1 DEF StepTypeOK, LocalsTypeOK, AtDevice, Goto, Walking
  <2>. QED  BY <1>2, <2>2, <2>3, <2>4, <2>5
            DEF NextDevice, At, StepTypeOK, LocalsTypeOK, DbTypeOK, dbVars
<1>3. CASE ScanDone(p)
  BY <1>3, ReturnType DEF ScanDone, At, StepTypeOK, DbTypeOK, dbVars, Resting
<1>4. CASE UpsertDevice(p)
  <2>1. CASE Fail(p)
    BY <1>4, <2>1, FailType DEF UpsertDevice, At
  <2>2. CASE ~Fail(p)
    <3>1. /\ writer' = p
          /\ work' = [db EXCEPT !.device[at[p]] = "online"]
          /\ seen' = [seen EXCEPT ![p] = {}]
          /\ quiet' = [quiet EXCEPT ![p] = TRUE]
          /\ Goto(p, "owners")
          /\ UNCHANGED <<db, todo, at, known, dirs, goal>>
      BY <1>4, <2>2 DEF UpsertDevice
    <3>2. at[p] \in Devices /\ work' \in Tables
      BY <1>4, <3>1, UpsertTables DEF UpsertDevice, At
    <3>3. LocalsTypeOK'
      BY <3>1 DEF StepTypeOK, LocalsTypeOK, Goto, Labels, Walking
    <3>4. AtDevice'
      BY <3>1, <3>2 DEF StepTypeOK, LocalsTypeOK, AtDevice, Goto
    <3>. QED  BY <1>4, <3>1, <3>2, <3>3, <3>4
              DEF UpsertDevice, At, StepTypeOK, DbTypeOK
  <2>. QED  BY <2>1, <2>2
<1>5. CASE ListOwners(p)
  <2>1. CASE at[p] \notin mounted
    BY <1>5, <2>1, FailType DEF ListOwners, At
  <2>2. CASE at[p] \in mounted
    <3>1. at[p] \in Devices
      BY <2>2 DEF DiskTypeOK
    <3>2. {dir \in tree[at[p]] : Len(dir) = 1} \in SUBSET Accounts
      BY <3>1 DEF DiskTypeOK, Trees
    <3>3. LocalsTypeOK'
      BY <1>5, <2>2, <3>2 DEF ListOwners, At, StepTypeOK, LocalsTypeOK, Goto,
                              Labels, Walking
    <3>4. AtDevice'
      BY <1>5, <2>2, <3>1 DEF ListOwners, At, StepTypeOK, LocalsTypeOK, AtDevice,
                              Goto
    <3>. QED  BY <1>5, <2>2, <3>3, <3>4
              DEF ListOwners, At, StepTypeOK, DbTypeOK, dbVars
  <2>. QED  BY <2>1, <2>2
<1>6. CASE Walk(p)
  <2>. PICK dir \in dirs[p] :
         LET found == Entries(at[p], dir) IN
         IF \E path \in found : Refused(path)
         THEN Fail(p)
         ELSE /\ work' = EnsureChains(work, found, at[p])
              /\ seen' = [seen EXCEPT ![p] = @ \cup found]
              /\ dirs' = [dirs EXCEPT ![p] = (@ \ {dir}) \cup found]
              /\ UNCHANGED <<db, writer, pc, todo, at, known, goal, quiet>>
    BY <1>6 DEF Walk
  <2>1. CASE Fail(p)
    BY <1>6, <2>1, FailType DEF Walk, At
  <2>2. CASE ~Fail(p)
    <3>. DEFINE found == Entries(at[p], dir)
    <3>1. at[p] \in Devices /\ dir \in Accounts
      BY <1>6 DEF Walk, At, Walking, StepTypeOK, LocalsTypeOK, AtDevice
    <3>2. found \in SUBSET Paths
      BY <3>1, EntriesForm
    <3>3. found \in SUBSET Accounts
      BY <3>2 DEF Accounts
    <3>4. /\ work' = EnsureChains(work, found, at[p])
          /\ seen' = [seen EXCEPT ![p] = @ \cup found]
          /\ dirs' = [dirs EXCEPT ![p] = (@ \ {dir}) \cup found]
          /\ UNCHANGED <<db, writer, pc, todo, at, known, goal, quiet>>
      BY <2>2
    <3>. HIDE DEF found
    <3>5. work' \in Tables
      BY <3>1, <3>2, <3>4, EnsureChainsForm DEF StepTypeOK, DbTypeOK
    <3>6. LocalsTypeOK'
      BY <3>2, <3>3, <3>4 DEF StepTypeOK, LocalsTypeOK
    <3>7. AtDevice'
      BY <3>4 DEF StepTypeOK, AtDevice
    <3>. QED  BY <1>6, <3>4, <3>5, <3>6, <3>7 DEF Walk, At, StepTypeOK, DbTypeOK
  <2>. QED  BY <2>1, <2>2
<1>7. CASE CommitDevice(p)
  <2>1. DbTypeOK'
    BY <1>7, CommitTables DEF CommitDevice, DbTypeOK
  <2>2. LocalsTypeOK' /\ AtDevice'
    BY <1>7 DEF CommitDevice, StepTypeOK, LocalsTypeOK, AtDevice, localVars, Goto,
                Labels, Walking
  <2>. QED  BY <1>7, <2>1, <2>2 DEF CommitDevice, At, StepTypeOK
<1>8. CASE CaptureInsert(p)
  <2>1. CASE Fail(p)
    BY <1>8, <2>1, FailType DEF CaptureInsert, At
  <2>2. CASE ~Fail(p)
    <3>1. /\ db' = EnsureChains(db, goal[p], at[p])
          /\ work' = db'
          /\ UNCHANGED writer
          /\ Return(p, "ok")
      BY <1>8, <2>2 DEF CaptureInsert
    <3>2. goal[p] \in SUBSET Paths /\ at[p] \in Devices \cup {Local}
      BY DEF StepTypeOK, LocalsTypeOK
    <3>3. db' \in Tables
      BY <3>1, <3>2, EnsureChainsForm DEF StepTypeOK, DbTypeOK
    <3>4. LocalsTypeOK' /\ AtDevice'
      BY <3>1, ReturnType DEF StepTypeOK, Resting
    <3>. QED  BY <1>8, <3>1, <3>3, <3>4 DEF CaptureInsert, At, StepTypeOK, DbTypeOK
  <2>. QED  BY <2>1, <2>2
<1>9. CASE Abort(p)
  BY <1>9, FailType DEF Abort
<1>. QED  BY <1>1, <1>2, <1>3, <1>4, <1>5, <1>6, <1>7, <1>8, <1>9 DEF Continue

LEMMA TypeNext == TypeOK /\ [Next]_vars => TypeOK'
<1>. SUFFICES ASSUME TypeOK, [Next]_vars PROVE TypeOK'
  OBVIOUS
<1>1. DiskTypeOK /\ StepTypeOK /\ issued \in Nat
  BY DEF TypeOK, StepTypeOK, AtDevice
<1>2. CASE Disk
  BY <1>1, <1>2, DiskType, DiskKeepsSteps DEF TypeOK, StepTypeOK, AtDevice
<1>3. ASSUME NEW p \in Procs, Command(p)
      PROVE  TypeOK'
  <2>1. issued' = issued + 1
    BY <1>3 DEF Command, ScanStart, Capture, DetachDevice, Issue
  <2>. QED  BY <1>1, <1>3, <2>1, CommandType
            DEF TypeOK, StepTypeOK, AtDevice, DiskTypeOK, diskVars
<1>4. ASSUME NEW p \in Procs, Continue(p) \/ Abort(p)
      PROVE  TypeOK'
  BY <1>1, <1>4, ContinueType
     DEF TypeOK, StepTypeOK, AtDevice, DiskTypeOK, diskVars
<1>5. CASE UNCHANGED vars
  BY <1>1, <1>5 DEF TypeOK, StepTypeOK, AtDevice, DiskTypeOK, DbTypeOK,
                    LocalsTypeOK, vars, diskVars, dbVars, localVars
<1>. QED  BY <1>2, <1>3, <1>4, <1>5 DEF Next

\* The tables, the trees and the locals of every invocation keep their
\* types, and a scan past its SELECT has a device at hand.
THEOREM DevicesTyped == Spec => []TypeOK
BY TypeInit, TypeNext, PTL DEF Spec

-----------------------------------------------------------------------------
(* The write lock. *)

LEMMA FailLock ==
  ASSUME LocalsTypeOK, LockIsOfTheWalker, NEW p \in Procs, Fail(p)
  PROVE  LockIsOfTheWalker'
BY DeviceAssumption
   DEF LocalsTypeOK, LockIsOfTheWalker, Fail, Return, Goto, Walking

LEMMA LockNext ==
  ASSUME TypeOK, LockIsOfTheWalker, [Next]_vars
  PROVE  LockIsOfTheWalker'
<1>1. LocalsTypeOK
  BY DEF TypeOK
<1>2. CASE Disk
  BY <1>2, DiskKeepsSteps DEF TypeOK, StepTypeOK, AtDevice, LockIsOfTheWalker, dbVars
<1>3. ASSUME NEW p \in Procs, NEW label \in {"next", "ok", "error", "insert"},
             Issue(p, label), UNCHANGED writer
      PROVE  LockIsOfTheWalker'
  BY <1>1, <1>3 DEF Issue, LockIsOfTheWalker, LocalsTypeOK, Walking, Resting
<1>4. ASSUME NEW p \in Procs, Command(p)
      PROVE  LockIsOfTheWalker'
  BY <1>3, <1>4 DEF Command, ScanStart, Capture, DetachDevice, dbVars
<1>5. ASSUME NEW p \in Procs, Fail(p)
      PROVE  LockIsOfTheWalker'
  BY <1>1, <1>5, FailLock
<1>6. ASSUME NEW p \in Procs, Continue(p)
      PROVE  LockIsOfTheWalker'
  <2>1. CASE Busy(p)
    BY <1>5, <2>1 DEF Busy
  <2>2. CASE NextDevice(p)
    BY <1>1, <2>2 DEF NextDevice, At, Goto, LockIsOfTheWalker, LocalsTypeOK, Walking, dbVars
  <2>3. CASE ScanDone(p)
    BY <1>1, <2>3 DEF ScanDone, At, Return, Goto, LockIsOfTheWalker, LocalsTypeOK,
                      Walking, dbVars
  <2>4. CASE UpsertDevice(p)
    BY <1>1, <1>5, <2>4, DeviceAssumption
       DEF UpsertDevice, At, Goto, LockIsOfTheWalker, LocalsTypeOK, Walking
  <2>5. CASE ListOwners(p)
    BY <1>1, <1>5, <2>5
       DEF ListOwners, At, Goto, LockIsOfTheWalker, LocalsTypeOK, Walking, dbVars
  <2>6. CASE Walk(p)
    BY <1>5, <2>6 DEF Walk, LockIsOfTheWalker
  <2>7. CASE CommitDevice(p)
    BY <1>1, <2>7, DeviceAssumption
       DEF CommitDevice, At, Goto, LockIsOfTheWalker, LocalsTypeOK, Walking
  <2>8. CASE CaptureInsert(p)
    BY <1>1, <1>5, <2>8
       DEF CaptureInsert, At, Return, Goto, LockIsOfTheWalker, LocalsTypeOK, Walking
  <2>. QED  BY <1>6, <2>1, <2>2, <2>3, <2>4, <2>5, <2>6, <2>7, <2>8 DEF Continue
<1>7. ASSUME NEW p \in Procs, Abort(p)
      PROVE  LockIsOfTheWalker'
  BY <1>5, <1>7 DEF Abort
<1>8. CASE UNCHANGED vars
  BY <1>8 DEF vars, dbVars, LockIsOfTheWalker
<1>. QED  BY <1>2, <1>4, <1>6, <1>7, <1>8 DEF Next

\* The write lock is held exactly by the scan between its upsert and its
\* commit: every way out of a scan gives it back.
THEOREM LockReleased == Spec => []LockIsOfTheWalker
<1>1. Init => LockIsOfTheWalker
  BY DeviceAssumption DEF Init, LockIsOfTheWalker, Walking
<1>. QED  BY <1>1, LockNext, DevicesTyped, PTL DEF Spec

-----------------------------------------------------------------------------
(* The steps by what they do to the tables. *)

Keeps ==
  /\ UNCHANGED dbVars
  /\ \A q \in Procs : writer = q => at'[q] = at[q]

RollsBack == writer' = NoProc /\ db' = db /\ work' = db

Begins(p) ==
  /\ writer = NoProc /\ writer' = p
  /\ db' = db
  /\ work' = [db EXCEPT !.device[at[p]] = "online"]
  /\ pc[p] = "upsert" /\ at' = at

Records(p) ==
  /\ writer = p /\ writer' = p
  /\ db' = db /\ at' = at /\ at[p] \in Devices
  /\ \E found \in SUBSET Paths :
       work' = EnsureChains(work, found, at[p])

Inserts(p) ==
  /\ pc[p] = "insert"
  /\ writer = NoProc /\ writer' = NoProc
  /\ db' = EnsureChains(db, goal[p], at[p])
  /\ work' = db'

Detaches(p) ==
  /\ writer = NoProc /\ writer' = NoProc
  /\ work' = db'
  /\ \E d \in Devices : DetachDevice(p, d)

TableStep ==
  \/ Keeps
  \/ RollsBack
  \/ \E p \in Procs : \/ Begins(p) \/ Records(p) \/ CommitDevice(p)
                      \/ Inserts(p) \/ Detaches(p)

\* An invocation that does not walk is not the writer.
LEMMA NotWriter ==
  ASSUME LockIsOfTheWalker, NEW p \in Procs, pc[p] \notin Walking
  PROVE  writer # p
BY DEF LockIsOfTheWalker

LEMMA FailTables ==
  ASSUME LocalsTypeOK, NEW p \in Procs, Fail(p)
  PROVE  Keeps \/ RollsBack
BY DEF LocalsTypeOK, Fail, Return, Keeps, RollsBack, dbVars

LEMMA TablesStep ==
  ASSUME TypeOK, LockIsOfTheWalker, [Next]_vars
  PROVE  TableStep
<1>1. DiskTypeOK /\ LocalsTypeOK /\ StepTypeOK
  BY DEF TypeOK, StepTypeOK, AtDevice
<1>2. CASE Disk
  BY <1>1, <1>2, DiskKeepsSteps DEF TableStep, Keeps, dbVars, localVars
<1>3. ASSUME NEW p \in Procs, Command(p)
      PROVE  TableStep
  <2>1. CASE ScanStart(p)
    BY <2>1 DEF ScanStart, TableStep, Keeps, localVars
  <2>2. ASSUME NEW path \in Paths, NEW d \in Devices \cup {Local}, Capture(p, path, d)
        PROVE  TableStep
    <3>1. pc[p] \in Resting
      BY <2>2 DEF Capture, Issue
    <3>2. writer # p
      BY <3>1, NotWriter DEF Resting, Walking
    <3>. QED  BY <1>1, <2>2, <3>2 DEF Capture, TableStep, Keeps, LocalsTypeOK
  <2>3. ASSUME NEW d \in Devices, DetachDevice(p, d)
        PROVE  TableStep
    BY <2>3 DEF DetachDevice, TableStep, Detaches
  <2>. QED  BY <1>3, <2>1, <2>2, <2>3 DEF Command
<1>4. ASSUME NEW p \in Procs, Fail(p)
      PROVE  TableStep
  BY <1>1, <1>4, FailTables DEF TableStep
<1>5. ASSUME NEW p \in Procs, Continue(p)
      PROVE  TableStep
  <2>1. CASE Busy(p)
    BY <1>4, <2>1 DEF Busy
  <2>2. CASE NextDevice(p)
    <3>1. writer # p
      BY <2>2, NotWriter DEF NextDevice, At, Walking
    <3>. QED  BY <1>1, <2>2, <3>1 DEF NextDevice, TableStep, Keeps, LocalsTypeOK
  <2>3. CASE ScanDone(p)
    <3>1. writer # p
      BY <2>3, NotWriter DEF ScanDone, At, Walking
    <3>. QED  BY <1>1, <2>3, <3>1 DEF ScanDone, Return, TableStep, Keeps, LocalsTypeOK
  <2>4. CASE UpsertDevice(p)
    BY <1>4, <2>4 DEF UpsertDevice, At, TableStep, Begins
  <2>5. CASE ListOwners(p)
    BY <1>4, <2>5 DEF ListOwners, TableStep, Keeps
  <2>6. CASE Walk(p)
    <3>. PICK dir \in dirs[p] :
           LET found == Entries(at[p], dir) IN
           IF \E path \in found : Refused(path)
           THEN Fail(p)
           ELSE /\ work' = EnsureChains(work, found, at[p])
                /\ seen' = [seen EXCEPT ![p] = @ \cup found]
                /\ dirs' = [dirs EXCEPT ![p] = (@ \ {dir}) \cup found]
                /\ UNCHANGED <<db, writer, pc, todo, at, known, goal, quiet>>
      BY <2>6 DEF Walk
    <3>1. CASE Fail(p)
      BY <1>4, <3>1
    <3>2. CASE ~Fail(p)
      <4>1. at[p] \in Devices /\ dir \in Accounts
        BY <1>1, <2>6 DEF Walk, At, Walking, StepTypeOK, LocalsTypeOK, AtDevice
      <4>2. Entries(at[p], dir) \in SUBSET Paths
        BY <1>1, <4>1, EntriesForm
      <4>3. writer = p
        BY <2>6 DEF Walk, At, LockIsOfTheWalker, Walking
      <4>. QED  BY <3>2, <4>1, <4>2, <4>3 DEF TableStep, Records
    <3>. QED  BY <3>1, <3>2
  <2>7. CASE CommitDevice(p)
    BY <2>7 DEF TableStep
  <2>8. CASE CaptureInsert(p)
    BY <1>4, <2>8 DEF CaptureInsert, At, TableStep, Inserts
  <2>. QED  BY <1>5, <2>1, <2>2, <2>3, <2>4, <2>5, <2>6, <2>7, <2>8 DEF Continue
<1>6. ASSUME NEW p \in Procs, Abort(p)
      PROVE  TableStep
  BY <1>4, <1>6 DEF Abort
<1>7. CASE UNCHANGED vars
  BY <1>7 DEF vars, localVars, TableStep, Keeps
<1>. QED  BY <1>2, <1>3, <1>5, <1>6, <1>7 DEF Next

-----------------------------------------------------------------------------
(* Chains. *)

\* ensure_chain leaves no gap.
LEMMA EnsureUnbroken ==
  ASSUME NEW tables \in Tables, Unbroken(tables), NEW paths \in SUBSET Paths,
         NEW d \in Devices \cup {Local}
  PROVE  Unbroken(EnsureChains(tables, paths, d))
<1>. DEFINE after == EnsureChains(tables, paths, d)
<1>1. Recorded(after) = Recorded(tables) \cup (UNION {Chain(path) : path \in paths})
  BY EnsureChainsForm
<1>. HIDE DEF after
<1>2. ASSUME NEW x \in Recorded(after), Len(x) > 2
      PROVE  Parent(x) \in Recorded(after)
  <2>1. CASE x \in Recorded(tables)
    BY <1>1, <1>2, <2>1 DEF Unbroken
  <2>2. CASE x \notin Recorded(tables)
    <3>1. PICK path \in paths : x \in Chain(path)
      BY <1>1, <2>2
    <3>2. Parent(x) \in Chain(path)
      BY <1>2, <3>1, ChainForm
    <3>. QED  BY <1>1, <3>2
  <2>. QED  BY <2>1, <2>2
<1>3. Unbroken(after)
  BY <1>2 DEF Unbroken
<1>. QED  BY <1>3 DEF after

\* Unbrokenness is a matter of which nodes are recorded.
LEMMA SameRecordedUnbroken ==
  ASSUME NEW a, NEW b, Unbroken(a),
         \A x \in Paths : a.node[x] # Absent <=> b.node[x] # Absent
  PROVE  Unbroken(b)
<1>1. Recorded(a) = Recorded(b)
  BY DEF Recorded
<1>. QED  BY <1>1 DEF Unbroken

LEMMA ChainsNext ==
  ASSUME TypeOK, LockIsOfTheWalker, ChainsUnbroken, [Next]_vars
  PROVE  ChainsUnbroken'
<1>1. StepTypeOK /\ db \in Tables /\ work \in Tables
  BY DEF TypeOK, StepTypeOK, AtDevice, DbTypeOK
<1>2. TableStep
  BY TablesStep
<1>3. CASE Keeps \/ RollsBack
  BY <1>3 DEF Keeps, RollsBack, dbVars, ChainsUnbroken, Unbroken, Recorded
<1>4. ASSUME NEW p \in Procs, Begins(p)
      PROVE  ChainsUnbroken'
  <2>1. work'.node = db.node
    BY <1>1, <1>4, UpsertTables DEF Begins
  <2>2. Unbroken(work')
    BY <2>1, SameRecordedUnbroken DEF ChainsUnbroken
  <2>. QED  BY <1>4, <2>2 DEF Begins, ChainsUnbroken
<1>5. ASSUME NEW p \in Procs, Records(p)
      PROVE  ChainsUnbroken'
  BY <1>1, <1>5, EnsureUnbroken DEF Records, ChainsUnbroken
<1>6. ASSUME NEW p \in Procs, CommitDevice(p)
      PROVE  ChainsUnbroken'
  <2>1. \A x \in Paths : work.node[x] # Absent <=> db'.node[x] # Absent
    BY <1>1, <1>6, CommitTables, MarkMissingForm
  <2>2. Unbroken(db')
    BY <2>1, SameRecordedUnbroken DEF ChainsUnbroken
  <2>. QED  BY <1>6, <2>2 DEF CommitDevice, ChainsUnbroken
<1>7. ASSUME NEW p \in Procs, Inserts(p)
      PROVE  ChainsUnbroken'
  <2>1. goal[p] \in SUBSET Paths /\ at[p] \in Devices \cup {Local}
    BY <1>1 DEF StepTypeOK, LocalsTypeOK
  <2>2. Unbroken(db')
    BY <1>1, <1>7, <2>1, EnsureUnbroken DEF Inserts, ChainsUnbroken
  <2>. QED  BY <1>7, <2>2 DEF Inserts, ChainsUnbroken
<1>8. ASSUME NEW p \in Procs, Detaches(p)
      PROVE  ChainsUnbroken'
  <2>1. PICK d \in Devices : DetachDevice(p, d)
    BY <1>8 DEF Detaches
  <2>2. db.node \in [Paths -> NodeRows \cup {Absent}]
    BY <1>1 DEF Tables
  <2>3. \A x \in Paths : db.node[x] # Absent <=> db'.node[x] # Absent
    <3>1. CASE db' = db
      BY <3>1
    <3>2. CASE db'.node = MarkMissingOffline(db.node, d, {})
      BY <2>2, <3>2, MarkMissingForm
    <3>. QED  BY <1>1, <2>1, <3>1, <3>2, DetachTables
  <2>4. Unbroken(db')
    BY <2>3, SameRecordedUnbroken DEF ChainsUnbroken
  <2>. QED  BY <1>8, <2>4 DEF Detaches, ChainsUnbroken
<1>. QED  BY <1>2, <1>3, <1>4, <1>5, <1>6, <1>7, <1>8 DEF TableStep

\* A recorded node has its parent recorded, in the committed tables and in
\* the transaction in progress.
THEOREM ChainsStayUnbroken == Spec => []ChainsUnbroken
<1>1. Init => ChainsUnbroken
  BY DEF Init, ChainsUnbroken, Unbroken, Recorded
<1>. QED  BY <1>1, ChainsNext, DevicesTyped, LockReleased, PTL DEF Spec

-----------------------------------------------------------------------------
(* What a transaction may change. *)

\* The tables of the transaction in progress differ from the committed ones
\* in the device's row and in nodes that it recorded for the device.
WorkFollowsDb ==
  /\ writer = NoProc => work = db
  /\ \A p \in Procs : writer = p =>
       /\ \A d \in Devices \ {at[p]} : work.device[d] = db.device[d]
       /\ \A x \in Paths :
            \/ work.node[x] = db.node[x]
            \/ db.node[x] = Absent /\ work.node[x].device = at[p]

LEMMA WorkNext ==
  ASSUME TypeOK, LockIsOfTheWalker, WorkFollowsDb, [Next]_vars
  PROVE  WorkFollowsDb'
<1>1. StepTypeOK /\ db \in Tables /\ work \in Tables
  BY DEF TypeOK, StepTypeOK, AtDevice, DbTypeOK
<1>2. TableStep
  BY TablesStep
<1>3. CASE Keeps
  BY <1>3 DEF Keeps, dbVars, WorkFollowsDb
<1>4. CASE RollsBack
  BY <1>4, DeviceAssumption DEF RollsBack, WorkFollowsDb
<1>5. ASSUME NEW p \in Procs, Begins(p)
      PROVE  WorkFollowsDb'
  <2>1. /\ at[p] \in Devices
        /\ work'.node = db.node
        /\ work'.device = [db.device EXCEPT ![at[p]] = "online"]
    BY <1>1, <1>5, UpsertTables DEF Begins
  <2>2. \A d \in Devices \ {at[p]} : work'.device[d] = db.device[d]
    BY <1>1, <2>1 DEF Tables
  <2>. QED  BY <1>5, <2>1, <2>2, DeviceAssumption DEF Begins, WorkFollowsDb
<1>6. ASSUME NEW p \in Procs, Records(p)
      PROVE  WorkFollowsDb'
  <2>1. PICK found \in SUBSET Paths :
          work' = EnsureChains(work, found, at[p])
    BY <1>6 DEF Records
  <2>2. /\ work'.device = work.device
        /\ \A x \in Paths :
             \/ work'.node[x] = work.node[x]
             \/ work.node[x] = Absent /\ work'.node[x].device = at[p]
    <3>1. at[p] \in Devices \cup {Local}
      BY <1>6 DEF Records
    <3>2. LET after == EnsureChains(work, found, at[p])
          IN  /\ after.device = work.device
              /\ \A x \in Paths :
                   \/ after.node[x] = work.node[x]
                   \/ work.node[x] = Absent /\ after.node[x].device = at[p]
      BY <1>1, <3>1, EnsureChainsForm, ZenonT(40)
    <3>. QED  BY <2>1, <3>2, Zenon
  <2>3. /\ \A d \in Devices \ {at[p]} : work.device[d] = db.device[d]
        /\ \A x \in Paths :
             \/ work.node[x] = db.node[x]
             \/ db.node[x] = Absent /\ work.node[x].device = at[p]
    BY <1>6 DEF Records, WorkFollowsDb
  <2>4. \A x \in Paths :
          \/ work'.node[x] = db.node[x]
          \/ db.node[x] = Absent /\ work'.node[x].device = at[p]
    BY <2>2, <2>3
  <2>. QED  BY <1>6, <2>2, <2>3, <2>4, DeviceAssumption DEF Records, WorkFollowsDb
<1>7. ASSUME NEW p \in Procs, CommitDevice(p) \/ Inserts(p) \/ Detaches(p)
      PROVE  WorkFollowsDb'
  BY <1>7, DeviceAssumption DEF CommitDevice, Inserts, Detaches, WorkFollowsDb
<1>. QED  BY <1>2, <1>3, <1>4, <1>5, <1>6, <1>7 DEF TableStep

LEMMA WorkFollows == Spec => []WorkFollowsDb
<1>1. Init => WorkFollowsDb
  BY DeviceAssumption DEF Init, WorkFollowsDb
<1>. QED  BY <1>1, WorkNext, DevicesTyped, LockReleased, PTL DEF Spec

LEMMA CommitTouches ==
  ASSUME TypeOK, LockIsOfTheWalker, WorkFollowsDb, NEW p \in Procs, CommitDevice(p)
  PROVE  /\ \A d \in Devices \ {at[p]} : db'.device[d] = db.device[d]
         /\ \A path \in Paths :
              db'.node[path] # db.node[path] =>
                /\ db'.node[path].device = at[p]
                /\ db.node[path] = Absent \/ db.node[path].device = at[p]
<1>1. StepTypeOK
  BY DEF TypeOK, StepTypeOK, AtDevice
<1>2. writer = p
  BY DEF CommitDevice, At, LockIsOfTheWalker, Walking
<1>3. \A d \in Devices \ {at[p]} : db'.device[d] = db.device[d]
  BY <1>1, <1>2, CommitTables DEF WorkFollowsDb
<1>4. ASSUME NEW x \in Paths, db'.node[x] # db.node[x]
      PROVE  /\ db'.node[x].device = at[p]
             /\ db.node[x] = Absent \/ db.node[x].device = at[p]
  <2>1. /\ work.node[x] # Absent => db'.node[x].device = work.node[x].device
        /\ db'.node[x] # work.node[x]
             => work.node[x] # Absent /\ work.node[x].device = at[p]
    BY <1>1, CommitTables, MarkMissingForm
  <2>2. \/ work.node[x] = db.node[x]
        \/ db.node[x] = Absent /\ work.node[x].device = at[p]
    BY <1>2 DEF WorkFollowsDb
  <2>. QED  BY <1>4, <2>1, <2>2
<1>. QED  BY <1>3, <1>4

\* What reconciling a device commits touches that device's row, its nodes
\* and new nodes only: no other invocation's committed change is lost.
THEOREM CommitsAreLocal == Spec => CommitTouchesItsDevice
<1>1. TypeOK /\ LockIsOfTheWalker /\ WorkFollowsDb /\ [Next]_vars =>
        [\A p \in Procs : CommitDevice(p) =>
           /\ \A d \in Devices \ {at[p]} : db'.device[d] = db.device[d]
           /\ \A path \in Paths :
                db'.node[path] # db.node[path] =>
                  /\ db'.node[path].device = at[p]
                  /\ db.node[path] = Absent \/ db.node[path].device = at[p]]_vars
  BY CommitTouches
<1>. QED  BY <1>1, DevicesTyped, LockReleased, WorkFollows, PTL
          DEF Spec, CommitTouchesItsDevice

-----------------------------------------------------------------------------
(* What an undisturbed scan has covered. *)

\* A subu directory of the device has been seen, or one above it is still
\* to be listed.
Covered(p, x) == x \in seen[p] \/ AncestorGroups(x) \cap dirs[p] # {}

WalkCovers(p) ==
  pc[p] = "walk" =>
    /\ seen[p] \subseteq Recorded(work)
    /\ quiet[p] =>
         /\ at[p] \in mounted
         /\ seen[p] \cup dirs[p] \subseteq tree[at[p]]
         /\ \A x \in tree[at[p]] \cap Paths : Covered(p, x)

WalksCover == \A p \in Procs : WalkCovers(p)

\* Listing a directory: what it covered is covered by its entries.
LEMMA ListingCovers ==
  ASSUME DiskTypeOK, NEW d \in mounted, NEW dir \in tree[d],
         NEW x \in tree[d] \cap Paths, dir \in AncestorGroups(x)
  PROVE  x \in Entries(d, dir) \/ AncestorGroups(x) \cap Entries(d, dir) # {}
<1>0. /\ d \in Devices
      /\ x \in Seq(Tokens)
      /\ AncestorGroups(x) \subseteq tree[d]
  BY PathsAssumption DEF DiskTypeOK, Trees
<1>1. PICK n \in 1 .. Len(x) - 1 : dir = SubSeq(x, 1, n)
  BY DEF AncestorGroups
<1>2. Len(dir) = n
  BY <1>0, <1>1
<1>3. CASE n = Len(x) - 1
  <2>1. Parent(x) = dir /\ Len(x) = Len(dir) + 1
    BY <1>0, <1>1, <1>2, <1>3 DEF Parent
  <2>. QED  BY <2>1 DEF Entries
<1>4. CASE n # Len(x) - 1
  <2>. DEFINE z == SubSeq(x, 1, n + 1)
  <2>1. n + 1 \in 1 .. Len(x) - 1 /\ n + 1 \in 1 .. Len(x) /\ n \in 1 .. n + 1
    BY <1>0, <1>4
  <2>2. z \in AncestorGroups(x)
    BY <2>1 DEF AncestorGroups
  <2>3. Len(z) = n + 1 /\ SubSeq(z, 1, n) = dir
    BY <1>0, <1>1, <2>1, Prefixes
  <2>4. (n + 1) - 1 = n
    BY <2>1
  <2>5. Parent(z) = dir
    BY <2>3, <2>4 DEF Parent
  <2>. HIDE DEF z
  <2>6. z \in Entries(d, dir)
    BY <1>0, <1>2, <2>2, <2>3, <2>5 DEF Entries
  <2>. QED  BY <2>2, <2>6
<1>. QED  BY <1>3, <1>4

\* The owners' directories cover the device.
LEMMA OwnersCover ==
  ASSUME DiskTypeOK, NEW d \in Devices, NEW x \in tree[d] \cap Paths
  PROVE  AncestorGroups(x) \cap {dir \in tree[d] : Len(dir) = 1} # {}
<1>1. x \in Seq(Tokens) /\ Len(x) >= 2 /\ AncestorGroups(x) \subseteq tree[d]
  BY PathsAssumption DEF DiskTypeOK, Trees
<1>2. SubSeq(x, 1, 1) \in AncestorGroups(x)
  BY <1>1 DEF AncestorGroups
<1>3. Len(SubSeq(x, 1, 1)) = 1
  BY <1>1
<1>. QED  BY <1>1, <1>2, <1>3

\* A step that leaves a walking invocation, its work and /mnt alone.
LEMMA OthersCover ==
  ASSUME NEW q \in Procs, WalkCovers(q), pc'[q] = pc[q],
         pc[q] = "walk" => UNCHANGED <<work, mounted, tree, at[q], seen[q], dirs[q], quiet[q]>>
  PROVE  WalkCovers(q)'
BY DEF WalkCovers, Covered, Recorded

\* An invocation that does not walk after the step has nothing to cover.
LEMMA RestingCovers ==
  ASSUME NEW q \in Procs, pc'[q] # "walk"
  PROVE  WalkCovers(q)'
BY DEF WalkCovers

LEMMA FailCovers ==
  ASSUME LocalsTypeOK, LockIsOfTheWalker, WalksCover, NEW p \in Procs, Fail(p),
         UNCHANGED diskVars
  PROVE  WalksCover'
<1>1. ASSUME NEW q \in Procs PROVE WalkCovers(q)'
  <2>1. CASE q = p
    <3>1. pc'[q] = "error"
      BY <2>1 DEF Fail, Return, Goto, LocalsTypeOK
    <3>. QED  BY <3>1, RestingCovers
  <2>2. CASE q # p
    <3>1. pc'[q] = pc[q]
      BY <2>2 DEF Fail, Return, Goto, LocalsTypeOK
    <3>2. UNCHANGED <<at[q], seen[q], dirs[q], quiet[q]>>
      BY <2>2 DEF Fail, Return, LocalsTypeOK
    <3>3. pc[q] = "walk" => UNCHANGED work
      BY <2>2 DEF Fail, LockIsOfTheWalker, Walking
    <3>. QED  BY <3>1, <3>2, <3>3, OthersCover DEF WalksCover, diskVars
  <2>. QED  BY <2>1, <2>2
<1>. QED  BY <1>1 DEF WalksCover

LEMMA ListOwnersCovers ==
  ASSUME TypeOK, LockIsOfTheWalker, WalksCover, NEW p \in Procs, ListOwners(p),
         seen[p] = {}
  PROVE  WalksCover'
<1>0. DiskTypeOK /\ LocalsTypeOK
  BY DEF TypeOK
<1>1. CASE at[p] \notin mounted
  BY <1>0, <1>1, FailCovers DEF ListOwners, At
<1>2. CASE at[p] \in mounted
  <2>1. at[p] \in Devices
    BY <1>0, <1>2 DEF DiskTypeOK
  <2>2. /\ dirs' = [dirs EXCEPT ![p] = {dir \in tree[at[p]] : Len(dir) = 1}]
        /\ pc' = [pc EXCEPT ![p] = "walk"]
        /\ UNCHANGED <<diskVars, dbVars, at, seen, quiet>>
    BY <1>2 DEF ListOwners, At, Goto
  <2>3. ASSUME NEW q \in Procs PROVE WalkCovers(q)'
    <3>1. CASE q = p
      <4>1. /\ dirs'[p] = {dir \in tree[at[p]] : Len(dir) = 1}
            /\ UNCHANGED <<at[p], seen[p], mounted, tree, work>>
        BY <1>0, <2>2 DEF LocalsTypeOK, diskVars, dbVars
      <4>2. \A x \in tree[at[p]] \cap Paths : AncestorGroups(x) \cap dirs'[p] # {}
        BY <1>0, <2>1, <4>1, OwnersCover
      <4>. QED  BY <1>2, <3>1, <4>1, <4>2 DEF WalkCovers, Covered
    <3>2. CASE q # p
      BY <1>0, <2>2, <3>2, OthersCover DEF LocalsTypeOK, WalksCover, diskVars, dbVars
    <3>. QED  BY <3>1, <3>2
  <2>. QED  BY <2>3 DEF WalksCover
<1>. QED  BY <1>1, <1>2

LEMMA WalkStepCovers ==
  ASSUME TypeOK, LockIsOfTheWalker, WalksCover, NEW p \in Procs, Walk(p)
  PROVE  WalksCover'
<1>0. DiskTypeOK /\ LocalsTypeOK /\ work \in Tables /\ at[p] \in Devices
  BY DEF TypeOK, DbTypeOK, Walk, At, Walking
<1>. PICK dir \in dirs[p] :
       LET found == Entries(at[p], dir) IN
       IF \E path \in found : Refused(path)
       THEN Fail(p)
       ELSE /\ work' = EnsureChains(work, found, at[p])
            /\ seen' = [seen EXCEPT ![p] = @ \cup found]
            /\ dirs' = [dirs EXCEPT ![p] = (@ \ {dir}) \cup found]
            /\ UNCHANGED <<db, writer, pc, todo, at, known, goal, quiet>>
  BY DEF Walk
<1>1. CASE Fail(p)
  BY <1>0, <1>1, FailCovers DEF Walk, At
<1>2. CASE ~Fail(p)
  <2>. DEFINE found == Entries(at[p], dir)
  <2>1. dir \in Accounts
    BY <1>0 DEF LocalsTypeOK
  <2>2. found \subseteq Paths \cap tree[at[p]]
    BY <1>0, <2>1, EntriesForm
  <2>3. /\ work' = EnsureChains(work, found, at[p])
        /\ seen' = [seen EXCEPT ![p] = @ \cup found]
        /\ dirs' = [dirs EXCEPT ![p] = (@ \ {dir}) \cup found]
        /\ UNCHANGED <<pc, at, quiet, mounted, tree>>
    BY <1>2 DEF Walk, At, diskVars
  <2>4. at[p] \in mounted /\ dir \in tree[at[p]] =>
          \A x \in tree[at[p]] \cap Paths :
            dir \in AncestorGroups(x) => x \in found \/ AncestorGroups(x) \cap found # {}
    BY <1>0, ListingCovers
  <2>. HIDE DEF found
  <2>5. seen'[p] = seen[p] \cup found /\ dirs'[p] = (dirs[p] \ {dir}) \cup found
    BY <1>0, <2>3 DEF LocalsTypeOK
  <2>6. pc[p] = "walk"
    BY DEF Walk, At
  <2>7. seen'[p] \subseteq Recorded(work')
    <3>1. Recorded(work') = Recorded(work) \cup (UNION {Chain(path) : path \in found})
      BY <1>0, <2>2, <2>3, EnsureChainsForm
    <3>2. found \subseteq UNION {Chain(path) : path \in found}
      BY <2>2, ChainForm
    <3>. QED  BY <2>5, <2>6, <3>1, <3>2 DEF WalksCover, WalkCovers
  <2>8. ASSUME quiet[p]
        PROVE  /\ at[p] \in mounted
               /\ seen'[p] \cup dirs'[p] \subseteq tree[at[p]]
               /\ \A x \in tree[at[p]] \cap Paths :
                    x \in seen'[p] \/ AncestorGroups(x) \cap dirs'[p] # {}
    <3>1. /\ at[p] \in mounted
          /\ seen[p] \cup dirs[p] \subseteq tree[at[p]]
          /\ \A x \in tree[at[p]] \cap Paths :
               x \in seen[p] \/ AncestorGroups(x) \cap dirs[p] # {}
      BY <2>6, <2>8 DEF WalksCover, WalkCovers, Covered
    <3>2. seen'[p] \cup dirs'[p] \subseteq tree[at[p]]
      BY <2>2, <2>5, <3>1
    <3>3. ASSUME NEW x \in tree[at[p]] \cap Paths, x \notin seen'[p]
          PROVE  AncestorGroups(x) \cap dirs'[p] # {}
      <4>1. PICK y \in AncestorGroups(x) : y \in dirs[p]
        BY <2>5, <3>1, <3>3
      <4>2. CASE y = dir
        BY <2>4, <2>5, <3>1, <3>3, <4>1, <4>2
      <4>3. CASE y # dir
        BY <2>5, <4>1, <4>3
      <4>. QED  BY <4>2, <4>3
    <3>. QED  BY <3>1, <3>2, <3>3
  <2>9. ASSUME NEW q \in Procs PROVE WalkCovers(q)'
    <3>1. CASE q = p
      BY <2>3, <2>7, <2>8, <3>1 DEF WalkCovers, Covered
    <3>2. CASE q # p
      <4>1. pc[q] # "walk"
        BY <2>6, <3>2 DEF LockIsOfTheWalker, Walking
      <4>. QED  BY <2>3, <4>1, RestingCovers
    <3>. QED  BY <3>1, <3>2
  <2>. QED  BY <2>9 DEF WalksCover
<1>. QED  BY <1>1, <1>2

\* The walk starts with nothing seen.
FreshWalk == \A p \in Procs : pc[p] = "owners" => seen[p] = {}

CoverInv == WalksCover /\ FreshWalk

\* A step in which every invocation but p keeps its place, and p neither
\* walks nor is about to; the tables change only when nobody walks.
LEMMA OutsideWalkCovers ==
  ASSUME LocalsTypeOK, LockIsOfTheWalker, CoverInv, NEW p \in Procs,
         NEW label \in Labels \ Walking, pc' = [pc EXCEPT ![p] = label],
         UNCHANGED diskVars,
         \A q \in Procs \ {p} : UNCHANGED <<at[q], seen[q], dirs[q], quiet[q]>>,
         work' = work \/ writer \in {NoProc, p}
  PROVE  CoverInv'
<1>1. ASSUME NEW q \in Procs
      PROVE  WalkCovers(q)' /\ (pc'[q] = "owners" => seen'[q] = {})
  <2>1. CASE q = p
    <3>1. pc'[q] \notin Walking
      BY <2>1 DEF LocalsTypeOK
    <3>. QED  BY <3>1, RestingCovers DEF Walking
  <2>2. CASE q # p
    <3>1. pc'[q] = pc[q] /\ UNCHANGED <<at[q], seen[q], dirs[q], quiet[q]>>
      BY <2>2 DEF LocalsTypeOK
    <3>2. pc[q] = "walk" => work' = work
      BY <2>2, DeviceAssumption DEF LockIsOfTheWalker, Walking
    <3>3. WalkCovers(q)'
      BY <3>1, <3>2, OthersCover DEF CoverInv, WalksCover, diskVars
    <3>. QED  BY <3>1, <3>3 DEF CoverInv, FreshWalk
  <2>. QED  BY <2>1, <2>2
<1>. QED  BY <1>1 DEF CoverInv, WalksCover, FreshWalk

LEMMA FailCoverInv ==
  ASSUME LocalsTypeOK, LockIsOfTheWalker, CoverInv, NEW p \in Procs, Fail(p),
         UNCHANGED diskVars
  PROVE  CoverInv'
<1>1. \A q \in Procs \ {p} : UNCHANGED <<at[q], seen[q], dirs[q], quiet[q]>>
  BY DEF Fail, Return, LocalsTypeOK
<1>2. work' = work \/ writer \in {NoProc, p}
  BY DEF Fail
<1>3. "error" \in Labels \ Walking /\ pc' = [pc EXCEPT ![p] = "error"]
  BY DEF Fail, Return, Goto, Labels, Resting, Walking
<1>. QED  BY <1>1, <1>2, <1>3, OutsideWalkCovers

LEMMA DiskCovers ==
  ASSUME TypeOK, CoverInv, Disk
  PROVE  CoverInv'
<1>1. /\ UNCHANGED <<dbVars, pc, todo, localVars, issued>>
      /\ \A q \in Procs : ~quiet'[q]
  BY DiskKeepsSteps DEF TypeOK, StepTypeOK, AtDevice
<1>2. UNCHANGED <<work, pc, at, seen, dirs>>
  BY <1>1 DEF dbVars, localVars
<1>. QED  BY <1>1, <1>2 DEF CoverInv, WalksCover, WalkCovers, FreshWalk, Recorded

LEMMA CommandCovers ==
  ASSUME TypeOK, LockIsOfTheWalker, CoverInv, NEW p \in Procs, Command(p)
  PROVE  CoverInv'
<1>0. LocalsTypeOK /\ StepTypeOK
  BY DEF TypeOK, StepTypeOK, AtDevice
<1>1. PICK label \in {"next", "error", "ok", "insert"} : Issue(p, label)
  BY DEF Command, ScanStart, Capture, DetachDevice
<1>2. /\ label \in Labels \ Walking
      /\ pc' = [pc EXCEPT ![p] = label]
      /\ UNCHANGED diskVars /\ UNCHANGED quiet
  BY <1>1 DEF Issue, Labels, Resting, Walking
<1>3. \A q \in Procs \ {p} : UNCHANGED <<at[q], seen[q], dirs[q], quiet[q]>>
  BY <1>0, <1>2 DEF Command, ScanStart, Capture, DetachDevice, localVars, LocalsTypeOK
<1>4. work' = work \/ writer \in {NoProc, p}
  BY DEF Command, ScanStart, Capture, DetachDevice, dbVars
<1>. QED  BY <1>0, <1>2, <1>3, <1>4, OutsideWalkCovers

LEMMA ContinueCovers ==
  ASSUME TypeOK, LockIsOfTheWalker, CoverInv, NEW p \in Procs, Continue(p)
  PROVE  CoverInv'
<1>0. LocalsTypeOK
  BY DEF TypeOK
<1>f. ASSUME Fail(p), UNCHANGED diskVars PROVE CoverInv'
  BY <1>0, <1>f, FailCoverInv
<1>1. CASE Busy(p)
  BY <1>f, <1>1 DEF Busy
<1>2. CASE NextDevice(p)
  <2>1. PICK label \in {"upsert", "next"} : pc' = [pc EXCEPT ![p] = label]
    <3>1. CASE Goto(p, "upsert")
      BY <3>1 DEF Goto
    <3>2. CASE UNCHANGED pc
      BY <1>0, <1>2, <3>2 DEF NextDevice, At, LocalsTypeOK
    <3>. QED  BY <1>2, <3>1, <3>2 DEF NextDevice
  <2>2. label \in Labels \ Walking
    BY DEF Labels, Walking
  <2>3. \A q \in Procs \ {p} : UNCHANGED <<at[q], seen[q], dirs[q], quiet[q]>>
    BY <1>0, <1>2 DEF NextDevice, LocalsTypeOK
  <2>4. UNCHANGED diskVars /\ work' = work
    BY <1>2 DEF NextDevice, At, dbVars
  <2>. QED  BY <1>0, <2>1, <2>2, <2>3, <2>4, OutsideWalkCovers
<1>3. CASE ScanDone(p)
  <2>1. pc' = [pc EXCEPT ![p] = "ok"] /\ "ok" \in Labels \ Walking
    BY <1>3 DEF ScanDone, Return, Goto, Labels, Resting, Walking
  <2>2. \A q \in Procs \ {p} : UNCHANGED <<at[q], seen[q], dirs[q], quiet[q]>>
    BY <1>0, <1>3 DEF ScanDone, Return, LocalsTypeOK
  <2>3. UNCHANGED diskVars /\ work' = work
    BY <1>3 DEF ScanDone, At, dbVars
  <2>. QED  BY <1>0, <2>1, <2>2, <2>3, OutsideWalkCovers
<1>4. CASE UpsertDevice(p)
  <2>1. CASE Fail(p)
    BY <1>f, <1>4, <2>1 DEF UpsertDevice, At
  <2>2. CASE ~Fail(p)
    <3>1. /\ pc' = [pc EXCEPT ![p] = "owners"]
          /\ seen' = [seen EXCEPT ![p] = {}]
          /\ writer = NoProc
      BY <1>4, <2>2 DEF UpsertDevice, Goto
    <3>2. \A q \in Procs : pc[q] \notin Walking
      BY <3>1, DeviceAssumption DEF LockIsOfTheWalker
    <3>3. \A q \in Procs : pc'[q] # "walk" /\ (pc'[q] = "owners" => seen'[q] = {})
      BY <1>0, <3>1, <3>2 DEF LocalsTypeOK, Walking
    <3>. QED  BY <3>3, RestingCovers DEF CoverInv, WalksCover, FreshWalk
  <2>. QED  BY <2>1, <2>2
<1>5. CASE ListOwners(p)
  <2>1. CASE Fail(p)
    BY <1>f, <1>5, <2>1 DEF ListOwners, At
  <2>2. CASE ~Fail(p)
    <3>1. seen[p] = {}
      BY <1>5 DEF ListOwners, At, CoverInv, FreshWalk
    <3>2. WalksCover'
      BY <1>5, <3>1, ListOwnersCovers DEF CoverInv
    <3>3. UNCHANGED seen /\ pc' = [pc EXCEPT ![p] = "walk"]
      BY <1>5, <2>2 DEF ListOwners, Goto
    <3>4. FreshWalk'
      BY <1>0, <3>3 DEF LocalsTypeOK, CoverInv, FreshWalk
    <3>. QED  BY <3>2, <3>4 DEF CoverInv
  <2>. QED  BY <2>1, <2>2
<1>6. CASE Walk(p)
  <2>1. CASE Fail(p)
    BY <1>f, <1>6, <2>1 DEF Walk, At
  <2>2. CASE ~Fail(p)
    <3>1. WalksCover'
      BY <1>6, WalkStepCovers DEF CoverInv
    <3>2. /\ pc[p] = "walk" /\ UNCHANGED pc
          /\ \A q \in Procs \ {p} : UNCHANGED seen[q]
      BY <1>0, <1>6, <2>2 DEF Walk, At, LocalsTypeOK
    <3>3. FreshWalk'
      BY <3>2 DEF CoverInv, FreshWalk
    <3>. QED  BY <3>1, <3>3 DEF CoverInv
  <2>. QED  BY <2>1, <2>2
<1>7. CASE CommitDevice(p)
  <2>1. pc' = [pc EXCEPT ![p] = "next"] /\ "next" \in Labels \ Walking
    BY <1>7 DEF CommitDevice, Goto, Labels, Resting, Walking
  <2>2. \A q \in Procs \ {p} : UNCHANGED <<at[q], seen[q], dirs[q], quiet[q]>>
    BY <1>0, <1>7 DEF CommitDevice, localVars, LocalsTypeOK
  <2>3. UNCHANGED diskVars /\ writer = p
    BY <1>7 DEF CommitDevice, At, LockIsOfTheWalker, Walking
  <2>. QED  BY <1>0, <2>1, <2>2, <2>3, OutsideWalkCovers
<1>8. CASE CaptureInsert(p)
  <2>1. CASE Fail(p)
    BY <1>f, <1>8, <2>1 DEF CaptureInsert, At
  <2>2. CASE ~Fail(p)
    <3>1. pc' = [pc EXCEPT ![p] = "ok"] /\ "ok" \in Labels \ Walking
      BY <1>8, <2>2 DEF CaptureInsert, Return, Goto, Labels, Resting, Walking
    <3>2. \A q \in Procs \ {p} : UNCHANGED <<at[q], seen[q], dirs[q], quiet[q]>>
      BY <1>0, <1>8, <2>2 DEF CaptureInsert, Return, LocalsTypeOK
    <3>3. UNCHANGED diskVars /\ writer = NoProc
      BY <1>8 DEF CaptureInsert, At
    <3>. QED  BY <1>0, <3>1, <3>2, <3>3, OutsideWalkCovers
  <2>. QED  BY <2>1, <2>2
<1>. QED  BY <1>1, <1>2, <1>3, <1>4, <1>5, <1>6, <1>7, <1>8 DEF Continue

LEMMA CoverNext ==
  ASSUME TypeOK, LockIsOfTheWalker, CoverInv, [Next]_vars
  PROVE  CoverInv'
<1>1. CASE Disk
  BY <1>1, DiskCovers
<1>2. ASSUME NEW p \in Procs, Command(p) PROVE CoverInv'
  BY <1>2, CommandCovers
<1>3. ASSUME NEW p \in Procs, Continue(p) PROVE CoverInv'
  BY <1>3, ContinueCovers
<1>4. ASSUME NEW p \in Procs, Abort(p) PROVE CoverInv'
  BY <1>4, FailCoverInv DEF TypeOK, Abort
<1>5. CASE UNCHANGED vars
  BY <1>5 DEF vars, dbVars, diskVars, localVars, CoverInv, WalksCover, WalkCovers,
              Covered, FreshWalk, Recorded
<1>. QED  BY <1>1, <1>2, <1>3, <1>4, <1>5 DEF Next

LEMMA ScansCover == Spec => []CoverInv
<1>1. Init => CoverInv
  BY DEF Init, CoverInv, WalksCover, WalkCovers, FreshWalk
<1>. QED  BY <1>1, CoverNext, DevicesTyped, LockReleased, PTL DEF Spec

LEMMA CommitExact ==
  ASSUME TypeOK, CoverInv, NEW p \in Procs, CommitDevice(p), quiet[p]
  PROVE  /\ tree[at[p]] \cap Paths \subseteq Recorded(db')
         /\ OnlineOn(db', at[p]) \subseteq tree[at[p]]
<1>0. StepTypeOK
  BY DEF TypeOK, StepTypeOK, AtDevice
<1>1. /\ seen[p] \subseteq Recorded(work)
      /\ seen[p] \subseteq tree[at[p]]
      /\ \A x \in tree[at[p]] \cap Paths : x \in seen[p]
  BY DEF CommitDevice, At, CoverInv, WalksCover, WalkCovers, Covered
<1>2. \A x \in Paths :
        /\ db'.node[x] # Absent <=> work.node[x] # Absent
        /\ db'.node[x] # Absent /\ db'.node[x].device = at[p] /\ db'.node[x].online
             => x \in seen[p]
  BY <1>0, CommitTables, MarkMissingForm
<1>3. tree[at[p]] \cap Paths \subseteq Recorded(db')
  BY <1>1, <1>2 DEF Recorded
<1>4. OnlineOn(db', at[p]) \subseteq seen[p]
  BY <1>2 DEF OnlineOn, Recorded
<1>. QED  BY <1>1, <1>3, <1>4

\* If nothing under /mnt changed since the upsert, the commit leaves every
\* subu directory of the device recorded and no node of it online without a
\* directory.
THEOREM QuietScansAreExact == Spec => QuietScanIsExact
<1>1. TypeOK /\ CoverInv /\ [Next]_vars =>
        [\A p \in Procs : CommitDevice(p) /\ quiet[p] =>
           /\ tree[at[p]] \cap Paths \subseteq Recorded(db')
           /\ OnlineOn(db', at[p]) \subseteq tree[at[p]]]_vars
  BY CommitExact
<1>. QED  BY <1>1, DevicesTyped, ScansCover, PTL DEF Spec, QuietScanIsExact
=============================================================================
