-------------------------- MODULE DeviceBookProofs --------------------------
(***************************************************************************)
(* DeviceRegistry implements DeviceBook: what is committed changes only by *)
(* whole operations.                                                       *)
(***************************************************************************)
EXTENDS DeviceRegistryProofs

-----------------------------------------------------------------------------
(* Chains. *)

\* The chain of a member is part of the chain.
LEMMA ChainOfMember ==
  ASSUME NEW path \in Paths, NEW x \in Chain(path)
  PROVE  Chain(x) \subseteq Chain(path)
<1>0. path \in Seq(Tokens) /\ Len(path) >= 2
  BY PathsAssumption
<1>1. PICK n \in 1 .. Len(path) : x = SubSeq(path, 1, n)
  BY <1>0 DEF Chain, AncestorGroups
<1>2. Len(x) = n
  BY <1>0, <1>1
<1>3. ASSUME NEW y \in AncestorGroups(x), Len(y) >= 2
      PROVE  y \in Chain(path)
  <2>1. PICK k \in 1 .. n - 1 : y = SubSeq(x, 1, k)
    BY <1>2, <1>3 DEF AncestorGroups
  <2>2. k \in 1 .. n /\ k \in 1 .. Len(path) - 1
    BY <1>0, <2>1
  <2>3. y = SubSeq(path, 1, k)
    BY <1>0, <1>1, <2>1, <2>2, Prefixes
  <2>. QED  BY <1>3, <2>2, <2>3 DEF Chain, AncestorGroups
<1>. QED  BY <1>3 DEF Chain

\* The chain of an entry is the entry and the chain of its directory.
LEMMA ChainOfEntry ==
  ASSUME NEW path \in Paths, NEW x \in Chain(path), x # path
  PROVE  /\ Len(Parent(path)) # 1
         /\ Parent(path) \in Paths
         /\ x \in Chain(Parent(path))
<1>0. path \in Seq(Tokens) /\ Len(path) >= 2
  BY PathsAssumption
<1>1. PICK k \in 1 .. Len(path) - 1 : x = SubSeq(path, 1, k)
  BY DEF Chain, AncestorGroups
<1>2. Len(x) >= 2
  BY DEF Chain
<1>3. Len(x) = k /\ k >= 2
  BY <1>0, <1>1, <1>2
<1>. DEFINE n == Len(path) - 1
<1>4. n \in 1 .. Len(path) /\ k \in 1 .. n /\ n >= 2 /\ n \in 1 .. Len(path) - 1
  BY <1>0, <1>3
<1>5. /\ Parent(path) = SubSeq(path, 1, n)
      /\ Len(Parent(path)) = n
      /\ x = SubSeq(Parent(path), 1, k)
  BY <1>0, <1>1, <1>4, Prefixes DEF Parent
<1>6. Parent(path) \in AncestorGroups(path)
  BY <1>4, <1>5 DEF AncestorGroups
<1>7. Parent(path) \in Paths
  BY <1>4, <1>5, <1>6, DeviceAssumption
<1>8. x \in Chain(Parent(path))
  <2>1. CASE k = n
    <3>1. x = Parent(path)
      BY <1>1, <1>5, <2>1
    <3>. QED  BY <3>1 DEF Chain
  <2>2. CASE k # n
    <3>0. k \in 1 .. n - 1
      BY <1>0, <1>4, <2>2
    <3>1. k \in 1 .. Len(Parent(path)) - 1
      BY <1>5, <3>0
    <3>2. x \in AncestorGroups(Parent(path))
      BY <1>5, <3>1 DEF AncestorGroups
    <3>. QED  BY <1>2, <3>2 DEF Chain
  <2>. QED  BY <2>1, <2>2
<1>9. Len(Parent(path)) # 1
  <2>1. n \in Nat /\ n # 1
    BY <1>0, <1>4, SMTT(30)
  <2>. QED  BY <1>5, <2>1
<1>. QED  BY <1>7, <1>8, <1>9

\* ensure_chain, node by node.
LEMMA EnsureChainsNode ==
  ASSUME NEW tables \in Tables, NEW paths \in SUBSET Paths,
         NEW d \in Devices \cup {Local}, NEW x \in Paths
  PROVE  EnsureChains(tables, paths, d).node[x]
           = IF tables.node[x] = Absent /\ \E leaf \in paths : x \in Chain(leaf)
             THEN [device |-> d, online |-> TRUE]
             ELSE tables.node[x]
BY DEF Tables, EnsureChains

LEMMA EnsureChainsGrow ==
  ASSUME NEW tables \in Tables, NEW paths \in SUBSET Paths,
         NEW d \in Devices \cup {Local}
  PROVE  /\ EnsureChains(tables, paths, d).device = tables.device
         /\ Recorded(tables) \subseteq Recorded(EnsureChains(tables, paths, d))
<1>. DEFINE after == EnsureChains(tables, paths, d)
<1>1. after.device = tables.device
  BY EnsureChainsForm
<1>2. Recorded(after) = Recorded(tables) \cup (UNION {Chain(path) : path \in paths})
  BY EnsureChainsForm
<1>. HIDE DEF after
<1>3. Recorded(tables) \subseteq Recorded(after)
  BY <1>2
<1>. QED  BY <1>1, <1>3 DEF after

-----------------------------------------------------------------------------
(* What is prepared, and not yet committed. *)

\* A scan's transaction is what was committed with the device's row online
\* and the nodes it has seen added; it has seen the chain of each of them,
\* and lists only owners' directories and what it has seen.
Drafted(p) ==
  pc[p] \in Walking =>
    /\ work.device = [db.device EXCEPT ![at[p]] = "online"]
    /\ \A x \in Paths :
         work.node[x] = IF db.node[x] = Absent /\ x \in seen[p]
                        THEN [device |-> at[p], online |-> TRUE]
                        ELSE db.node[x]
    /\ \A x \in seen[p] : Chain(x) \subseteq seen[p]
    /\ pc[p] = "walk" => \A dir \in dirs[p] : Len(dir) = 1 \/ dir \in seen[p]

\* A capture has its device's row, and the nodes of its chain that it is not
\* about to insert are recorded.
Promised(p) ==
  pc[p] = "insert" =>
    /\ at[p] \in Devices => db.device[at[p]] # "unknown"
    /\ \E path \in Paths :
         goal[p] \subseteq Chain(path) /\ Chain(path) \ goal[p] \subseteq Recorded(db)

BookInv == \A p \in Procs : Drafted(p) /\ Promised(p)

\* Rows are never deleted.
Grows ==
  /\ \A d \in Devices : db.device[d] # "unknown" => db'.device[d] # "unknown"
  /\ Recorded(db) \subseteq Recorded(db')

LEMMA TablesGrow ==
  ASSUME TypeOK, LockIsOfTheWalker, BookInv, [Next]_vars
  PROVE  Grows
<1>1. StepTypeOK /\ db \in Tables /\ work \in Tables
  BY DEF TypeOK, StepTypeOK, AtDevice, DbTypeOK
<1>2. TableStep
  BY TablesStep
<1>3. CASE db' = db
  BY <1>3 DEF Grows
<1>4. ASSUME NEW p \in Procs, CommitDevice(p)
      PROVE  Grows
  <2>1. /\ at[p] \in Devices
        /\ db'.device = work.device
        /\ work.device = [db.device EXCEPT ![at[p]] = "online"]
    BY <1>1, <1>4, CommitTables DEF BookInv, Drafted, CommitDevice, At, Walking
  <2>2. \A d \in Devices : db.device[d] # "unknown" => db'.device[d] # "unknown"
    BY <1>1, <2>1 DEF Tables
  <2>3. \A x \in Paths : db'.node[x] # Absent <=> work.node[x] # Absent
    BY <1>1, <1>4, CommitTables, MarkMissingForm
  <2>4. \A x \in Paths : db.node[x] # Absent => work.node[x] # Absent
    BY <1>4 DEF BookInv, Drafted, CommitDevice, At, Walking
  <2>. QED  BY <2>2, <2>3, <2>4 DEF Grows, Recorded
<1>5. ASSUME NEW p \in Procs, Inserts(p)
      PROVE  Grows
  <2>1. goal[p] \in SUBSET Paths /\ at[p] \in Devices \cup {Local}
    BY <1>1 DEF StepTypeOK, LocalsTypeOK
  <2>2. db' = EnsureChains(db, goal[p], at[p])
    BY <1>5 DEF Inserts
  <2>. QED  BY <1>1, <2>1, <2>2, EnsureChainsGrow DEF Grows
<1>6. ASSUME NEW p \in Procs, NEW d \in Devices, DetachDevice(p, d)
      PROVE  Grows
  <2>1. CASE db' = db
    BY <1>3, <2>1
  <2>2. CASE db' # db
    <3>1. /\ db'.device = [db.device EXCEPT ![d] = "offline"]
          /\ db'.node = MarkMissingOffline(db.node, d, {})
      BY <1>1, <1>6, <2>2, DetachTables
    <3>2. db.node \in [Paths -> NodeRows \cup {Absent}]
      BY <1>1 DEF Tables
    <3>3. \A x \in Paths : db'.node[x] # Absent <=> db.node[x] # Absent
      BY <3>1, <3>2, MarkMissingForm
    <3>4. \A e \in Devices : db.device[e] # "unknown" => db'.device[e] # "unknown"
      BY <1>1, <3>1 DEF Tables
    <3>. QED  BY <3>3, <3>4 DEF Grows, Recorded
  <2>. QED  BY <2>1, <2>2
<1>. QED  BY <1>2, <1>3, <1>4, <1>5, <1>6
          DEF TableStep, Keeps, RollsBack, Begins, Records, Detaches, dbVars

-----------------------------------------------------------------------------
(* Steps keep what is prepared. *)

\* A step that leaves an invocation alone, and its tables while it walks.
LEMMA OthersBook ==
  ASSUME NEW q \in Procs, Drafted(q), Promised(q), Grows,
         pc'[q] = pc[q], UNCHANGED <<at[q], goal[q]>>,
         pc[q] \in Walking => UNCHANGED <<db, work, seen[q], dirs[q]>>
  PROVE  Drafted(q)' /\ Promised(q)'
<1>1. Drafted(q)'
  <2>1. CASE pc[q] \notin Walking
    BY <2>1 DEF Drafted, Walking
  <2>2. CASE pc[q] \in Walking
    <3>1. db' = db /\ work' = work /\ seen'[q] = seen[q] /\ dirs'[q] = dirs[q]
      BY <2>2
    <3>2. pc'[q] = pc[q] /\ at'[q] = at[q]
      OBVIOUS
    <3>. QED  BY <2>2, <3>1, <3>2, Zenon DEF Drafted
  <2>. QED  BY <2>1, <2>2
<1>2. Promised(q)'
  BY DEF Promised, Grows
<1>. QED  BY <1>1, <1>2

\* A step of p alone that neither walks nor captures afterwards; the tables
\* change only when nobody else walks.
LEMMA OutsideBook ==
  ASSUME LocalsTypeOK, LockIsOfTheWalker, BookInv, Grows, NEW p \in Procs,
         NEW label \in Labels \ (Walking \cup {"insert"}),
         pc' = [pc EXCEPT ![p] = label],
         \A q \in Procs \ {p} : UNCHANGED <<at[q], goal[q], seen[q], dirs[q]>>,
         UNCHANGED <<db, work>> \/ writer \in {NoProc, p}
  PROVE  BookInv'
<1>1. ASSUME NEW q \in Procs
      PROVE  Drafted(q)' /\ Promised(q)'
  <2>1. CASE q = p
    <3>1. pc'[q] \notin Walking \cup {"insert"}
      BY <2>1 DEF LocalsTypeOK
    <3>. QED  BY <3>1 DEF Drafted, Promised
  <2>2. CASE q # p
    <3>1. pc'[q] = pc[q] /\ UNCHANGED <<at[q], goal[q], seen[q], dirs[q]>>
      BY <2>2 DEF LocalsTypeOK
    <3>2. pc[q] \in Walking => UNCHANGED <<db, work>>
      BY <2>2, DeviceAssumption DEF LockIsOfTheWalker
    <3>. QED  BY <3>1, <3>2, OthersBook DEF BookInv
  <2>. QED  BY <2>1, <2>2
<1>. QED  BY <1>1 DEF BookInv

LEMMA FailBook ==
  ASSUME LocalsTypeOK, LockIsOfTheWalker, BookInv, Grows, NEW p \in Procs, Fail(p)
  PROVE  BookInv'
<1>1. \A q \in Procs \ {p} : UNCHANGED <<at[q], goal[q], seen[q], dirs[q]>>
  BY DEF Fail, Return, LocalsTypeOK
<1>2. UNCHANGED <<db, work>> \/ writer \in {NoProc, p}
  BY DEF Fail
<1>3. /\ "error" \in Labels \ (Walking \cup {"insert"})
      /\ pc' = [pc EXCEPT ![p] = "error"]
  BY DEF Fail, Return, Goto, Labels, Resting, Walking
<1>. QED  BY <1>1, <1>2, <1>3, OutsideBook

LEMMA CaptureBook ==
  ASSUME LocalsTypeOK, BookInv, Grows, NEW p \in Procs,
         NEW path \in Paths, NEW d \in Devices \cup {Local}, Capture(p, path, d),
         pc' = [pc EXCEPT ![p] = "insert"]
  PROVE  BookInv'
<1>1. /\ pc[p] \in Resting
      /\ UNCHANGED <<dirs, seen, db, work>>
  BY DEF Capture, Issue, dbVars
<1>2. pc'[p] = "insert"
  BY DEF LocalsTypeOK
<1>. DEFINE missing == Chain(path) \ Recorded(db)
<1>3. /\ DeviceFound(d)
      /\ at' = [at EXCEPT ![p] = d]
      /\ goal' = [goal EXCEPT ![p] = missing]
  BY <1>2 DEF Capture, Issue, LocalsTypeOK
<1>4. /\ at'[p] = d /\ goal'[p] = missing
      /\ \A q \in Procs \ {p} : UNCHANGED <<at[q], goal[q]>>
  BY <1>3 DEF LocalsTypeOK
<1>5. Drafted(p)' /\ Promised(p)'
  <2>1. Drafted(p)'
    BY <1>2 DEF Drafted, Walking
  <2>2. d \in Devices => db'.device[d] # "unknown"
    BY <1>1, <1>3, DeviceAssumption DEF DeviceFound
  <2>3. missing \subseteq Chain(path) /\ Chain(path) \ missing \subseteq Recorded(db')
    BY <1>1
  <2>. HIDE DEF missing
  <2>. QED  BY <1>4, <2>1, <2>2, <2>3 DEF Promised
<1>6. ASSUME NEW q \in Procs \ {p}
      PROVE  Drafted(q)' /\ Promised(q)'
  BY <1>1, <1>4, OthersBook DEF BookInv, LocalsTypeOK
<1>. QED  BY <1>5, <1>6 DEF BookInv

LEMMA CommandBook ==
  ASSUME LocalsTypeOK, LockIsOfTheWalker, BookInv, Grows, NEW p \in Procs, Command(p)
  PROVE  BookInv'
<1>1. CASE ScanStart(p)
  <2>1. /\ pc' = [pc EXCEPT ![p] = "next"]
        /\ "next" \in Labels \ (Walking \cup {"insert"})
        /\ \A q \in Procs \ {p} : UNCHANGED <<at[q], goal[q], seen[q], dirs[q]>>
        /\ UNCHANGED <<db, work>>
    BY <1>1 DEF ScanStart, Issue, Labels, Walking, dbVars, localVars
  <2>. QED  BY <2>1, OutsideBook
<1>2. ASSUME NEW d \in Devices, DetachDevice(p, d)
      PROVE  BookInv'
  <2>1. /\ pc' = [pc EXCEPT ![p] = "ok"]
        /\ "ok" \in Labels \ (Walking \cup {"insert"})
        /\ \A q \in Procs \ {p} : UNCHANGED <<at[q], goal[q], seen[q], dirs[q]>>
        /\ writer = NoProc
    BY <1>2 DEF DetachDevice, Issue, Labels, Resting, Walking, localVars
  <2>. QED  BY <2>1, OutsideBook
<1>3. ASSUME NEW path \in Paths, NEW d \in Devices \cup {Local}, Capture(p, path, d)
      PROVE  BookInv'
  <2>1. CASE pc' = [pc EXCEPT ![p] = "insert"]
    BY <1>3, <2>1, CaptureBook
  <2>2. CASE pc' # [pc EXCEPT ![p] = "insert"]
    <3>1. PICK label \in {"ok", "error"} :
            pc' = [pc EXCEPT ![p] = label] /\ UNCHANGED <<at, goal>>
      BY <1>3, <2>2 DEF Capture, Issue
    <3>2. label \in Labels \ (Walking \cup {"insert"})
      BY DEF Labels, Resting, Walking
    <3>3. UNCHANGED <<seen, dirs, db, work>>
      BY <1>3 DEF Capture, dbVars
    <3>. QED  BY <3>1, <3>2, <3>3, OutsideBook
  <2>. QED  BY <2>1, <2>2
<1>. QED  BY <1>1, <1>2, <1>3 DEF Command

\* The scan begins its transaction.
LEMMA UpsertBook ==
  ASSUME TypeOK, LockIsOfTheWalker, BookInv, Grows, NEW p \in Procs, UpsertDevice(p)
  PROVE  BookInv'
<1>0. LocalsTypeOK /\ StepTypeOK
  BY DEF TypeOK, StepTypeOK, AtDevice
<1>1. CASE Fail(p)
  BY <1>0, <1>1, FailBook
<1>2. CASE ~Fail(p)
  <2>1. /\ pc[p] = "upsert" /\ writer = NoProc
        /\ pc' = [pc EXCEPT ![p] = "owners"]
        /\ work' = [db EXCEPT !.device[at[p]] = "online"]
        /\ seen' = [seen EXCEPT ![p] = {}]
        /\ UNCHANGED <<db, at, dirs, goal>>
    BY <1>2 DEF UpsertDevice, At, Goto
  <2>2. /\ work'.node = db.node
        /\ work'.device = [db.device EXCEPT ![at[p]] = "online"]
    BY <1>0, <2>1, UpsertTables
  <2>3. pc'[p] = "owners" /\ seen'[p] = {} /\ at'[p] = at[p] /\ db' = db
    BY <1>0, <2>1 DEF LocalsTypeOK
  <2>4. Drafted(p)' /\ Promised(p)'
    BY <2>2, <2>3 DEF Drafted, Promised
  <2>5. ASSUME NEW q \in Procs \ {p}
        PROVE  Drafted(q)' /\ Promised(q)'
    <3>1. pc'[q] = pc[q] /\ UNCHANGED <<at[q], goal[q]>>
      BY <1>0, <2>1 DEF LocalsTypeOK
    <3>2. pc[q] \notin Walking
      BY <2>1, DeviceAssumption DEF LockIsOfTheWalker
    <3>. QED  BY <3>1, <3>2, OthersBook DEF BookInv
  <2>. QED  BY <2>4, <2>5 DEF BookInv
<1>. QED  BY <1>1, <1>2

\* The owners' directories are listed.
LEMMA ListOwnersBook ==
  ASSUME LocalsTypeOK, LockIsOfTheWalker, BookInv, Grows, NEW p \in Procs,
         ListOwners(p)
  PROVE  BookInv'
<1>1. CASE Fail(p)
  BY <1>1, FailBook
<1>2. CASE ~Fail(p)
  <2>1. /\ pc[p] = "owners"
        /\ pc' = [pc EXCEPT ![p] = "walk"]
        /\ dirs' = [dirs EXCEPT ![p] = {dir \in tree[at[p]] : Len(dir) = 1}]
        /\ UNCHANGED <<db, work, at, seen, goal>>
    BY <1>2 DEF ListOwners, At, Goto, dbVars
  <2>2. /\ pc'[p] = "walk"
        /\ dirs'[p] = {dir \in tree[at[p]] : Len(dir) = 1}
    BY <2>1 DEF LocalsTypeOK
  <2>3. Drafted(p)' /\ Promised(p)'
    BY <2>1, <2>2 DEF BookInv, Drafted, Promised, Walking
  <2>4. ASSUME NEW q \in Procs \ {p}
        PROVE  Drafted(q)' /\ Promised(q)'
    <3>1. pc'[q] = pc[q] /\ UNCHANGED <<at[q], goal[q], seen[q], dirs[q], db, work>>
      BY <2>1 DEF LocalsTypeOK
    <3>. QED  BY <3>1, OthersBook DEF BookInv
  <2>. QED  BY <2>3, <2>4 DEF BookInv
<1>. QED  BY <1>1, <1>2

\* A directory that was seen, or an owner's, is listed.
LEMMA WalkBook ==
  ASSUME TypeOK, LockIsOfTheWalker, BookInv, Grows, NEW p \in Procs, Walk(p)
  PROVE  BookInv'
<1>0. DiskTypeOK /\ LocalsTypeOK /\ work \in Tables /\ at[p] \in Devices
  BY DEF TypeOK, DbTypeOK, Walk, At, Walking
<1>. PICK dir \in dirs[p] :
       LET found == Entries(at[p], dir) IN
       IF \E path \in found : Refused(path)
       THEN Fail(p)
       ELSE /\ work' = EnsureChains(work, found, at[p])
            /\ seen' = [seen EXCEPT ![p] = @ \cup found]
            /\ dirs' = [dirs EXCEPT ![p] = (@ \ {dir}) \cup found]
            /\ UNCHANGED <<db, writer, pc, todo, at, known, goal, quiet>>
  BY DEF Walk
<1>1. CASE Fail(p)
  BY <1>0, <1>1, FailBook
<1>2. CASE ~Fail(p)
  <2>. DEFINE found == Entries(at[p], dir)
  <2>1. dir \in Accounts
    BY <1>0 DEF LocalsTypeOK
  <2>2. found \in SUBSET Paths /\ \A path \in found : Parent(path) = dir
    BY <1>0, <2>1, EntriesForm DEF Entries
  <2>3. /\ work' = EnsureChains(work, found, at[p])
        /\ seen' = [seen EXCEPT ![p] = @ \cup found]
        /\ dirs' = [dirs EXCEPT ![p] = (@ \ {dir}) \cup found]
        /\ UNCHANGED <<db, pc, at, goal>>
    BY <1>2
  <2>. HIDE DEF found
  <2>4. seen'[p] = seen[p] \cup found /\ dirs'[p] = (dirs[p] \ {dir}) \cup found
    BY <1>0, <2>3 DEF LocalsTypeOK
  <2>5. pc[p] = "walk" /\ pc'[p] = "walk" /\ at'[p] = at[p]
    BY <2>3 DEF Walk, At
  <2>6. /\ work.device = [db.device EXCEPT ![at[p]] = "online"]
        /\ \A x \in Paths :
             work.node[x] = IF db.node[x] = Absent /\ x \in seen[p]
                            THEN [device |-> at[p], online |-> TRUE]
                            ELSE db.node[x]
        /\ \A x \in seen[p] : Chain(x) \subseteq seen[p]
        /\ \A other \in dirs[p] : Len(other) = 1 \/ other \in seen[p]
    BY <2>5 DEF BookInv, Drafted, Walking
  <2>7. ASSUME NEW leaf \in found, NEW x \in Chain(leaf)
        PROVE  x \in seen'[p]
    <3>1. CASE x = leaf
      BY <2>4, <3>1
    <3>2. CASE x # leaf
      <4>1. Len(dir) # 1 /\ x \in Chain(dir)
        BY <2>2, <3>2, ChainOfEntry
      <4>2. dir \in seen[p]
        BY <2>6, <4>1
      <4>. QED  BY <2>4, <2>6, <4>1, <4>2
    <3>. QED  BY <3>1, <3>2
  <2>8. \A x \in seen'[p] : Chain(x) \subseteq seen'[p]
    BY <2>4, <2>6, <2>7
  <2>9. ASSUME NEW x \in Paths
        PROVE  work'.node[x] = IF db.node[x] = Absent /\ x \in seen'[p]
                               THEN [device |-> at[p], online |-> TRUE]
                               ELSE db.node[x]
    <3>1. work'.node[x] = IF work.node[x] = Absent /\ \E leaf \in found : x \in Chain(leaf)
                          THEN [device |-> at[p], online |-> TRUE]
                          ELSE work.node[x]
      BY <1>0, <2>2, <2>3, EnsureChainsNode
    <3>2. [device |-> at[p], online |-> TRUE] # Absent
      <4>1. [device |-> at[p], online |-> TRUE] \in NodeRows
        BY <1>0 DEF NodeRows
      <4>. QED  BY <4>1, AbsentIsNoRow
    <3>3. x \in found => \E leaf \in found : x \in Chain(leaf)
      BY <2>2, ChainForm
    <3>. QED  BY <2>4, <2>6, <2>7, <3>1, <3>2, <3>3
  <2>10. work'.device = [db.device EXCEPT ![at[p]] = "online"]
    <3>1. work'.device = work.device
      BY <1>0, <2>2, <2>3, EnsureChainsGrow
    <3>. QED  BY <2>6, <3>1
  <2>11. \A other \in dirs'[p] : Len(other) = 1 \/ other \in seen'[p]
    BY <2>4, <2>6
  <2>12. Drafted(p)' /\ Promised(p)'
    BY <2>3, <2>5, <2>8, <2>9, <2>10, <2>11 DEF Drafted, Promised
  <2>13. ASSUME NEW q \in Procs \ {p}
         PROVE  Drafted(q)' /\ Promised(q)'
    <3>1. pc'[q] = pc[q] /\ UNCHANGED <<at[q], goal[q]>>
      BY <2>3
    <3>2. pc[q] \notin Walking
      BY <2>5 DEF LockIsOfTheWalker, Walking
    <3>. QED  BY <3>1, <3>2, OthersBook DEF BookInv
  <2>. QED  BY <2>12, <2>13 DEF BookInv
<1>. QED  BY <1>1, <1>2

LEMMA ContinueBook ==
  ASSUME TypeOK, LockIsOfTheWalker, BookInv, Grows, NEW p \in Procs, Continue(p)
  PROVE  BookInv'
<1>0. LocalsTypeOK
  BY DEF TypeOK
<1>1. CASE Busy(p)
  BY <1>0, <1>1, FailBook DEF Busy
<1>2. CASE NextDevice(p)
  <2>1. PICK label \in {"upsert", "next"} : pc' = [pc EXCEPT ![p] = label]
    <3>1. CASE Goto(p, "upsert")
      BY <3>1 DEF Goto
    <3>2. CASE UNCHANGED pc
      BY <1>0, <1>2, <3>2 DEF NextDevice, At, LocalsTypeOK
    <3>. QED  BY <1>2, <3>1, <3>2 DEF NextDevice
  <2>2. label \in Labels \ (Walking \cup {"insert"})
    BY DEF Labels, Resting, Walking
  <2>3. \A q \in Procs \ {p} : UNCHANGED <<at[q], goal[q], seen[q], dirs[q]>>
    BY <1>0, <1>2 DEF NextDevice, LocalsTypeOK
  <2>4. UNCHANGED <<db, work>>
    BY <1>2 DEF NextDevice, dbVars
  <2>. QED  BY <1>0, <2>1, <2>2, <2>3, <2>4, OutsideBook
<1>3. CASE ScanDone(p)
  <2>1. /\ pc' = [pc EXCEPT ![p] = "ok"]
        /\ "ok" \in Labels \ (Walking \cup {"insert"})
    BY <1>3 DEF ScanDone, Return, Goto, Labels, Resting, Walking
  <2>2. \A q \in Procs \ {p} : UNCHANGED <<at[q], goal[q], seen[q], dirs[q]>>
    BY <1>0, <1>3 DEF ScanDone, Return, LocalsTypeOK
  <2>3. UNCHANGED <<db, work>>
    BY <1>3 DEF ScanDone, dbVars
  <2>. QED  BY <1>0, <2>1, <2>2, <2>3, OutsideBook
<1>4. CASE UpsertDevice(p)
  BY <1>4, UpsertBook
<1>5. CASE ListOwners(p)
  BY <1>0, <1>5, ListOwnersBook
<1>6. CASE Walk(p)
  BY <1>6, WalkBook
<1>7. CASE CommitDevice(p)
  <2>1. /\ pc' = [pc EXCEPT ![p] = "next"]
        /\ "next" \in Labels \ (Walking \cup {"insert"})
        /\ \A q \in Procs \ {p} : UNCHANGED <<at[q], goal[q], seen[q], dirs[q]>>
    BY <1>7 DEF CommitDevice, Goto, Labels, Walking, localVars
  <2>2. writer = p
    BY <1>7 DEF CommitDevice, At, LockIsOfTheWalker, Walking
  <2>. QED  BY <1>0, <2>1, <2>2, OutsideBook
<1>8. CASE CaptureInsert(p)
  <2>1. CASE Fail(p)
    BY <1>0, <2>1, FailBook
  <2>2. CASE ~Fail(p)
    <3>1. /\ pc' = [pc EXCEPT ![p] = "ok"]
          /\ "ok" \in Labels \ (Walking \cup {"insert"})
      BY <1>8, <2>2 DEF CaptureInsert, Return, Goto, Labels, Resting, Walking
    <3>2. \A q \in Procs \ {p} : UNCHANGED <<at[q], goal[q], seen[q], dirs[q]>>
      BY <1>0, <1>8, <2>2 DEF CaptureInsert, Return, LocalsTypeOK
    <3>3. writer = NoProc
      BY <1>8 DEF CaptureInsert
    <3>. QED  BY <1>0, <3>1, <3>2, <3>3, OutsideBook
  <2>. QED  BY <2>1, <2>2
<1>. QED  BY <1>1, <1>2, <1>3, <1>4, <1>5, <1>6, <1>7, <1>8 DEF Continue

LEMMA BookNext ==
  ASSUME TypeOK, LockIsOfTheWalker, BookInv, [Next]_vars
  PROVE  BookInv'
<1>0. LocalsTypeOK /\ Grows
  BY TablesGrow DEF TypeOK
<1>1. CASE Disk
  <2>1. UNCHANGED <<dbVars, pc, todo, localVars, issued>>
    BY <1>1, DiskKeepsSteps DEF TypeOK, StepTypeOK, AtDevice
  <2>. QED  BY <1>0, <2>1, OthersBook DEF dbVars, localVars, BookInv
<1>2. ASSUME NEW p \in Procs, Command(p) PROVE BookInv'
  BY <1>0, <1>2, CommandBook
<1>3. ASSUME NEW p \in Procs, Continue(p) PROVE BookInv'
  BY <1>0, <1>3, ContinueBook
<1>4. ASSUME NEW p \in Procs, Abort(p) PROVE BookInv'
  BY <1>0, <1>4, FailBook DEF Abort
<1>5. CASE UNCHANGED vars
  BY <1>0, <1>5, OthersBook DEF vars, dbVars, localVars, BookInv
<1>. QED  BY <1>1, <1>2, <1>3, <1>4, <1>5 DEF Next

LEMMA BookKept == Spec => []BookInv
<1>1. Init => BookInv
  BY DEF Init, BookInv, Drafted, Promised, Walking
<1>. QED  BY <1>1, BookNext, DevicesTyped, LockReleased, PTL DEF Spec

-----------------------------------------------------------------------------
(* What a commit makes of the committed tables. *)

\* The device's row goes online.  A node that was not recorded is recorded
\* if it was seen; a node of the device goes offline if it was not.
LEMMA CommitForm ==
  ASSUME TypeOK, BookInv, NEW p \in Procs, CommitDevice(p)
  PROVE  /\ at[p] \in Devices
         /\ db'.device = [db.device EXCEPT ![at[p]] = "online"]
         /\ db'.node =
              [x \in Paths |->
                 IF db.node[x] = Absent
                 THEN IF x \in seen[p] THEN [device |-> at[p], online |-> TRUE] ELSE Absent
                 ELSE IF db.node[x].device = at[p] /\ x \notin seen[p]
                      THEN [db.node[x] EXCEPT !.online = FALSE]
                      ELSE db.node[x]]
<1>0. StepTypeOK
  BY DEF TypeOK, StepTypeOK, AtDevice
<1>1. /\ at[p] \in Devices
      /\ db'.device = work.device
      /\ db'.node = MarkMissingOffline(work.node, at[p], seen[p])
  BY <1>0, CommitTables
<1>2. /\ work.device = [db.device EXCEPT ![at[p]] = "online"]
      /\ \A x \in Paths :
           work.node[x] = IF db.node[x] = Absent /\ x \in seen[p]
                          THEN [device |-> at[p], online |-> TRUE]
                          ELSE db.node[x]
  BY DEF BookInv, Drafted, CommitDevice, At, Walking
<1>. DEFINE row == [device |-> at[p], online |-> TRUE]
            after(x) == IF work.node[x] # Absent /\ work.node[x].device = at[p] /\ x \notin seen[p]
                        THEN [work.node[x] EXCEPT !.online = FALSE]
                        ELSE work.node[x]
            book(x) == IF db.node[x] = Absent
                       THEN IF x \in seen[p] THEN row ELSE Absent
                       ELSE IF db.node[x].device = at[p] /\ x \notin seen[p]
                            THEN [db.node[x] EXCEPT !.online = FALSE]
                            ELSE db.node[x]
<1>3. row # Absent
  <2>1. row \in NodeRows
    BY <1>1 DEF NodeRows
  <2>. QED  BY <2>1, AbsentIsNoRow
<1>4. ASSUME NEW x \in Paths
      PROVE  after(x) = book(x)
  <2>1. CASE db.node[x] = Absent /\ x \in seen[p]
    <3>1. work.node[x] = row
      BY <1>2, <2>1
    <3>. QED  BY <2>1, <3>1
  <2>2. CASE db.node[x] = Absent /\ x \notin seen[p]
    <3>1. work.node[x] = Absent
      BY <1>2, <2>2
    <3>. QED  BY <2>2, <3>1
  <2>3. CASE db.node[x] # Absent
    <3>1. work.node[x] = db.node[x]
      BY <1>2, <2>3
    <3>. QED  BY <2>3, <3>1
  <2>. QED  BY <2>1, <2>2, <2>3
<1>5. db'.node = [x \in Paths |-> after(x)]
  BY <1>1 DEF MarkMissingOffline
<1>6. db'.node = [x \in Paths |-> book(x)]
  <2>. HIDE DEF after, book
  <2>. QED  BY <1>4, <1>5
<1>. QED  BY <1>1, <1>2, <1>6

-----------------------------------------------------------------------------
(* A node's device. *)

\* A recorded node's device has a row: what a scan records is on the device
\* whose row it has upserted in the same transaction, and a capture's device
\* was there before it and stays.
THEOREM DevicesRecorded == Spec => []DevicesOfNodesRecorded
<1>1. Init => DevicesOfNodesRecorded
  BY DEF Init, DevicesOfNodesRecorded, Recorded
<1>2. ASSUME TypeOK, LockIsOfTheWalker, BookInv, DevicesOfNodesRecorded, [Next]_vars
      PROVE  DevicesOfNodesRecorded'
  <2>1. StepTypeOK /\ db \in Tables /\ work \in Tables
    BY <1>2 DEF TypeOK, StepTypeOK, AtDevice, DbTypeOK
  <2>2. TableStep /\ Grows
    BY <1>2, TablesStep, TablesGrow
  <2>. SUFFICES ASSUME NEW x \in Paths, db'.node[x] # Absent, db'.node[x].device # Local
                PROVE  db'.device[db'.node[x].device] # "unknown"
    BY DEF DevicesOfNodesRecorded, Recorded
  <2>3. ASSUME db.node[x] # Absent, db'.node[x].device = db.node[x].device
        PROVE  db'.device[db'.node[x].device] # "unknown"
    <3>1. db.node[x].device \in Devices
      BY <2>1, <2>3 DEF Tables, NodeRows
    <3>. QED  BY <1>2, <2>2, <2>3, <3>1 DEF Grows, DevicesOfNodesRecorded, Recorded
  <2>4. CASE db' = db
    BY <2>3, <2>4
  <2>5. ASSUME NEW p \in Procs, CommitDevice(p)
        PROVE  db'.device[db'.node[x].device] # "unknown"
    <3>0. /\ at[p] \in Devices
          /\ db'.device = [db.device EXCEPT ![at[p]] = "online"]
          /\ db'.node[x] = IF db.node[x] = Absent
                           THEN IF x \in seen[p] THEN [device |-> at[p], online |-> TRUE] ELSE Absent
                           ELSE IF db.node[x].device = at[p] /\ x \notin seen[p]
                                THEN [db.node[x] EXCEPT !.online = FALSE]
                                ELSE db.node[x]
      BY <1>2, <2>5, CommitForm, ZenonT(40)
    <3>1. db'.device[at[p]] = "online"
      BY <2>1, <3>0 DEF Tables
    <3>2. db.node[x] = Absent => db'.node[x].device = at[p]
      BY <3>0
    <3>3. db.node[x] # Absent => db'.node[x].device = db.node[x].device
      <4>1. db.node[x] # Absent => db.node[x] \in NodeRows
        BY <2>1 DEF Tables
      <4>2. db.node[x] # Absent =>
              [db.node[x] EXCEPT !.online = FALSE].device = db.node[x].device
        BY <4>1 DEF NodeRows
      <4>. QED  BY <3>0, <4>2
    <3>. QED  BY <2>3, <3>1, <3>2, <3>3
  <2>6. ASSUME NEW p \in Procs, Inserts(p)
        PROVE  db'.device[db'.node[x].device] # "unknown"
    <3>1. goal[p] \in SUBSET Paths /\ at[p] \in Devices \cup {Local}
      BY <2>1 DEF StepTypeOK, LocalsTypeOK
    <3>2. db'.node[x] = IF db.node[x] = Absent /\ \E leaf \in goal[p] : x \in Chain(leaf)
                        THEN [device |-> at[p], online |-> TRUE]
                        ELSE db.node[x]
      BY <2>1, <2>6, <3>1, EnsureChainsNode DEF Inserts
    <3>3. at[p] \in Devices => db'.device[at[p]] # "unknown"
      BY <1>2, <2>2, <2>6 DEF BookInv, Promised, Grows, Inserts
    <3>. QED  BY <2>3, <3>1, <3>2, <3>3
  <2>7. ASSUME NEW p \in Procs, NEW d \in Devices, DetachDevice(p, d)
        PROVE  db'.device[db'.node[x].device] # "unknown"
    <3>1. CASE db'.node = MarkMissingOffline(db.node, d, {})
      <4>1. db.node \in [Paths -> NodeRows \cup {Absent}]
        BY <2>1 DEF Tables
      <4>2. db.node[x] # Absent /\ db'.node[x].device = db.node[x].device
        BY <3>1, <4>1, MarkMissingForm
      <4>. QED  BY <2>3, <4>2
    <3>. QED  BY <2>1, <2>4, <2>7, <3>1, DetachTables
  <2>. QED  BY <2>2, <2>4, <2>5, <2>6, <2>7
            DEF TableStep, Keeps, RollsBack, Begins, Records, Detaches, dbVars
<1>. QED  BY <1>1, <1>2, DevicesTyped, LockReleased, BookKept, PTL DEF Spec

-----------------------------------------------------------------------------
(* The refinement. *)

\* A commit is a reconciliation with what was seen.
LEMMA CommitIsReconcile ==
  ASSUME TypeOK, BookInv, NEW p \in Procs, CommitDevice(p)
  PROVE  Book!Reconcile(at[p], seen[p])
<1>1. Book!Rooted(seen[p])
  <2>. SUFFICES ASSUME NEW x \in seen[p], Len(x) > 2
                PROVE  Book!Parent(x) \in seen[p]
    BY DEF Book!Rooted
  <2>1. x \in Paths
    BY DEF TypeOK, LocalsTypeOK
  <2>2. Chain(x) \subseteq seen[p]
    BY DEF BookInv, Drafted, CommitDevice, At, Walking
  <2>3. Parent(x) \in Chain(x)
    BY <2>1, ChainForm
  <2>. QED  BY <2>2, <2>3 DEF Book!Parent, Parent
<1>. QED  BY <1>1, CommitForm DEF Book!Reconcile, Book!Reconciled

\* A capture records what is missing of one path's chain.
LEMMA InsertIsCapture ==
  ASSUME TypeOK, BookInv, NEW p \in Procs, Inserts(p)
  PROVE  \E path \in Paths : Book!CaptureChain(at[p], path)
<1>1. /\ db \in Tables
      /\ goal[p] \in SUBSET Paths
      /\ at[p] \in Devices \cup {Local}
  BY DEF TypeOK, DbTypeOK, LocalsTypeOK
<1>2. /\ db' = EnsureChains(db, goal[p], at[p])
      /\ at[p] = Local \/ db.device[at[p]] # "unknown"
  BY <1>1 DEF Inserts, BookInv, Promised
<1>3. PICK path \in Paths :
        goal[p] \subseteq Chain(path) /\ Chain(path) \ goal[p] \subseteq Recorded(db)
  BY DEF Inserts, BookInv, Promised
<1>4. ASSUME NEW x \in Paths, db.node[x] = Absent
      PROVE  (\E leaf \in goal[p] : x \in Chain(leaf))
               <=> x = path \/ x \in Book!AncestorGroups(path)
  <2>1. x \in Chain(path) <=> x = path \/ x \in Book!AncestorGroups(path)
    BY PathsAssumption DEF Chain, AncestorGroups, Book!AncestorGroups
  <2>2. x \in Chain(path) => x \in goal[p]
    BY <1>3, <1>4 DEF Recorded
  <2>3. x \in Chain(x)
    BY ChainForm
  <2>4. \A leaf \in goal[p] : Chain(leaf) \subseteq Chain(path)
    BY <1>3, ChainOfMember
  <2>. QED  BY <2>1, <2>2, <2>3, <2>4
<1>5. db'.device = db.device
  BY <1>1, <1>2, EnsureChainsGrow
<1>6. db'.node = [x \in Paths |->
                    IF db.node[x] = Absent /\ \E leaf \in goal[p] : x \in Chain(leaf)
                    THEN [device |-> at[p], online |-> TRUE]
                    ELSE db.node[x]]
  BY <1>1, <1>2 DEF EnsureChains, Tables
<1>7. db'.node = [x \in Paths |->
                    IF db.node[x] = Absent
                       /\ (x = path \/ x \in Book!AncestorGroups(path))
                    THEN [device |-> at[p], online |-> TRUE]
                    ELSE db.node[x]]
  BY <1>4, <1>6
<1>. QED  BY <1>2, <1>5, <1>7 DEF Book!CaptureChain

LEMMA DetachIsDetach ==
  ASSUME TypeOK, NEW p \in Procs, NEW d \in Devices, DetachDevice(p, d), db' # db
  PROVE  Book!Detach(d)
<1>1. StepTypeOK /\ db \in Tables
  BY DEF TypeOK, StepTypeOK, AtDevice, DbTypeOK
<1>2. /\ db'.device = [db.device EXCEPT ![d] = "offline"]
      /\ db'.node = MarkMissingOffline(db.node, d, {})
  BY <1>1, DetachTables
<1>3. db.device[d] # "unknown"
  BY DEF DetachDevice
<1>4. MarkMissingOffline(db.node, d, {}) = Book!Reconciled(d, {})
  BY DEF MarkMissingOffline, Book!Reconciled
<1>. QED  BY <1>2, <1>3, <1>4 DEF Book!Detach

LEMMA StepIsBook ==
  ASSUME TypeOK, LockIsOfTheWalker, BookInv, [Next]_vars
  PROVE  Book!BookNext \/ UNCHANGED <<db.device, db.node>>
<1>1. TableStep
  BY TablesStep
<1>2. CASE db' = db
  BY <1>2
<1>3. ASSUME NEW p \in Procs, CommitDevice(p)
      PROVE  Book!BookNext
  <2>1. at[p] \in Devices /\ seen[p] \in SUBSET Paths
    BY <1>3, CommitForm DEF TypeOK, LocalsTypeOK
  <2>. QED  BY <1>3, <2>1, CommitIsReconcile DEF Book!BookNext
<1>4. ASSUME NEW p \in Procs, Inserts(p)
      PROVE  Book!BookNext
  <2>1. at[p] \in Devices \cup {Local}
    BY DEF TypeOK, LocalsTypeOK
  <2>. QED  BY <1>4, <2>1, InsertIsCapture DEF Book!BookNext
<1>5. ASSUME NEW p \in Procs, NEW d \in Devices, DetachDevice(p, d), db' # db
      PROVE  Book!BookNext
  BY <1>5, DetachIsDetach DEF Book!BookNext
<1>. QED  BY <1>1, <1>2, <1>3, <1>4, <1>5
          DEF TableStep, Keeps, RollsBack, Begins, Records, Detaches, dbVars

\* What is committed changes only by whole operations: DeviceRegistry, with
\* its transactions, failures and deaths, implements DeviceBook.
THEOREM RegistryImplementsBook == Spec => ImplementsBook
<1>1. Init => Book!BookInit
  BY DEF Init, Book!BookInit
<1>2. TypeOK /\ LockIsOfTheWalker /\ BookInv /\ [Next]_vars
        => [Book!BookNext]_(Book!bookVars)
  BY StepIsBook DEF Book!bookVars
<1>. QED  BY <1>1, <1>2, DevicesTyped, LockReleased, BookKept, PTL
          DEF Spec, ImplementsBook, Book!BookSpec
=============================================================================
