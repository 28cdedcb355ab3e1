------------------------ MODULE TunnelRegistryProofs ------------------------
(***************************************************************************)
(* Proofs about TunnelRegistry for any interfaces, machines, keys, pools   *)
(* and changes by others.                                                  *)
(***************************************************************************)
EXTENDS TunnelRegistry, SequenceInduction, SequenceTheorems, FiniteSetTheorems, TLAPS

\* What the proofs need to know of a row and of a store.  Numbers and
\* addresses may be anything.
Row(row) ==
  /\ DOMAIN row = {"iface", "table", "num", "addr", "pub"}
  /\ row.iface \in Names
  /\ row.pub \in Machines \cup {None}

\* What an update of a row's number or address leaves as it is.
SameRow(new, old) == new.iface = old.iface /\ new.table = old.table /\ new.pub = old.pub

SameNumber(new, old) == new.num = old.num

IsSequence(rows) == \E S : rows \in Seq(S)

WellFormed(store) ==
  /\ DOMAIN store = {"schema", "rows", "peer", "bound", "routes"}
  /\ DOMAIN store.peer = Names
  /\ DOMAIN store.bound = Names
  /\ IsSequence(store.rows)
  /\ \A n \in DOMAIN store.rows : Row(store.rows[n])
  /\ \A m, n \in DOMAIN store.rows : store.rows[m].iface = store.rows[n].iface => m = n

\* The public keys shown have their private keys on file.
Filed(store, files) ==
  \A n \in DOMAIN store.rows :
    store.rows[n].pub # None => files[store.rows[n].pub] = "key"

Good(store, files) == WellFormed(store) /\ Filed(store, files)

\* What db_init has to achieve for an interface, step after step.
Named(store, i) ==
  \E n \in DOMAIN store.rows : store.rows[n].iface = i /\ store.rows[n].table = naming[i]

Served(store, i) == store.peer[i] = SeedKey

Seeded(store, i) == Named(store, i) /\ Served(store, i) /\ store.bound[i] # "unbound"

SeededAll(store) == \A i \in Names : Seeded(store, i)

NumberedAll(store) == \A n \in DOMAIN store.rows : store.rows[n].num # None

AddressedAll(store) == \A n \in DOMAIN store.rows : store.rows[n].addr # None

\* What the kernel had when the addresses were planned has been taken over.
FollowsKernel(store) ==
  \A n \in DOMAIN store.rows :
    seen[store.rows[n].iface] \in {None, store.rows[n].addr}

-----------------------------------------------------------------------------
(* Stores. *)

\* Fields other than the rows.
LEMMA OtherFields ==
  ASSUME NEW store, NEW files, Good(store, files), NEW i \in Names, NEW x
  PROVE  /\ Good([store EXCEPT !.schema = x], files)
         /\ Good([store EXCEPT !.peer[i] = x], files)
         /\ Good([store EXCEPT !.bound[i] = x], files)
         /\ Good([store EXCEPT !.routes = x], files)
  BY DEF Good, WellFormed, Filed

\* The rows, one for one, with their interfaces and keys.
LEMMA RowsReplaced ==
  ASSUME NEW store, NEW files, Good(store, files), NEW rows,
         IsSequence(rows),
         DOMAIN rows = DOMAIN store.rows,
         \A n \in DOMAIN rows :
           /\ Row(rows[n])
           /\ rows[n].iface = store.rows[n].iface
           /\ rows[n].pub # None => files[rows[n].pub] = "key"
  PROVE  Good([store EXCEPT !.rows = rows], files)
  BY DEF Good, WellFormed, Filed

\* What the planners leave as it is.
LEMMA NumbersPlanned ==
  ASSUME NEW store, WellFormed(store), NEW file, NEW pool
  PROVE  /\ IsSequence(Numbered(store.rows, file, pool))
         /\ DOMAIN Numbered(store.rows, file, pool) = DOMAIN store.rows
         /\ \A n \in DOMAIN store.rows :
              /\ Row(Numbered(store.rows, file, pool)[n])
              /\ SameRow(Numbered(store.rows, file, pool)[n], store.rows[n])
<1>. DEFINE num == PlannedNumbers(store.rows, file, pool)
            new(n) == [store.rows[n] EXCEPT !.num = num[n]]
<1>1. Numbered(store.rows, file, pool) = [n \in DOMAIN store.rows |-> new(n)]
  BY DEF Numbered
<1>2. \A n \in DOMAIN store.rows :
        /\ Row(new(n))
        /\ SameRow(new(n), store.rows[n])
  <2>. HIDE DEF num
  <2>. QED  BY DEF WellFormed, Row, SameRow, SameNumber
<1>3. PICK S : store.rows \in Seq(S)
  BY DEF WellFormed, IsSequence
<1>. HIDE DEF new
<1>4. IsSequence(Numbered(store.rows, file, pool))
  <2>1. [n \in DOMAIN store.rows |-> new(n)] \in Seq({new(n) : n \in DOMAIN store.rows})
    BY <1>3
  <2>. QED  BY <1>1, <2>1 DEF IsSequence
<1>. QED  BY <1>1, <1>2, <1>4

LEMMA AddressesPlanned ==
  ASSUME NEW store, WellFormed(store), NEW addresses, NEW pool
  PROVE  /\ IsSequence(Addressed(store.rows, addresses, pool))
         /\ DOMAIN Addressed(store.rows, addresses, pool) = DOMAIN store.rows
         /\ \A n \in DOMAIN store.rows :
              /\ Row(Addressed(store.rows, addresses, pool)[n])
              /\ SameRow(Addressed(store.rows, addresses, pool)[n], store.rows[n])
              /\ SameNumber(Addressed(store.rows, addresses, pool)[n], store.rows[n])
<1>. DEFINE addr == PlannedAddresses(store.rows, addresses, pool)
            new(n) == [store.rows[n] EXCEPT !.addr = addr[n]]
<1>1. Addressed(store.rows, addresses, pool) = [n \in DOMAIN store.rows |-> new(n)]
  BY DEF Addressed
<1>2. \A n \in DOMAIN store.rows :
        /\ Row(new(n))
        /\ SameRow(new(n), store.rows[n])
        /\ SameNumber(new(n), store.rows[n])
  <2>. HIDE DEF addr
  <2>. QED  BY DEF WellFormed, Row, SameRow, SameNumber
<1>3. PICK S : store.rows \in Seq(S)
  BY DEF WellFormed, IsSequence
<1>. HIDE DEF new
<1>4. IsSequence(Addressed(store.rows, addresses, pool))
  <2>1. [n \in DOMAIN store.rows |-> new(n)] \in Seq({new(n) : n \in DOMAIN store.rows})
    BY <1>3
  <2>. QED  BY <1>1, <2>1 DEF IsSequence
<1>. QED  BY <1>1, <1>2, <1>4

\* upsert_client: the row is there, with the table and without an address;
\* the other rows are what they were.
LEMMA ClientForm ==
  ASSUME NEW store, NEW files, Good(store, files), NEW i \in Names, NEW table,
         NEW new, new = Client(store, i, table)
  PROVE  /\ Good(new, files)
         /\ new.peer = store.peer /\ new.bound = store.bound
         /\ \E n \in DOMAIN new.rows : new.rows[n].iface = i /\ new.rows[n].table = table
         /\ \A n \in DOMAIN store.rows :
              /\ n \in DOMAIN new.rows
              /\ store.rows[n].iface # i => new.rows[n] = store.rows[n]
<1>. DEFINE row == [iface |-> i, table |-> table, num |-> None, addr |-> None, pub |-> None]
<1>1. CASE i \in Registered(store)
  <2>1. PICK n \in DOMAIN store.rows : store.rows[n].iface = i
    BY <1>1 DEF Registered, Rows
  <2>2. IdOf(store, i) = n
    BY <2>1 DEF IdOf, Good, WellFormed
  <2>. DEFINE changed == [store.rows[n] EXCEPT !.table = table, !.addr = None]
              rows == [store.rows EXCEPT ![n] = changed]
  <2>3. PICK S : store.rows \in Seq(S)
    BY DEF Good, WellFormed, IsSequence
  <2>4. new = [store EXCEPT !.rows = rows]
    BY <1>1, <2>1, <2>2, <2>3, ZenonT(40) DEF Client, Good, WellFormed
  <2>5. /\ Row(changed)
        /\ changed.iface = i /\ changed.table = table /\ changed.pub = store.rows[n].pub
    BY <2>1 DEF Good, WellFormed, Row
  <2>. HIDE DEF changed
  <2>6. /\ rows \in Seq(S \cup {changed})
        /\ DOMAIN rows = DOMAIN store.rows
        /\ rows[n] = changed
        /\ \A m \in DOMAIN rows : m # n => rows[m] = store.rows[m]
    BY <2>1, <2>3
  <2>. HIDE DEF rows
  <2>7. \A m \in DOMAIN rows :
          /\ Row(rows[m])
          /\ rows[m].iface = store.rows[m].iface
          /\ rows[m].pub # None => files[rows[m].pub] = "key"
    BY <2>1, <2>5, <2>6 DEF Good, WellFormed, Filed
  <2>8. Good([store EXCEPT !.rows = rows], files)
    BY <2>6, <2>7, RowsReplaced DEF IsSequence
  <2>9. new.rows = rows /\ new.peer = store.peer /\ new.bound = store.bound
    BY <2>4 DEF Good, WellFormed
  <2>. QED  BY <2>1, <2>4, <2>5, <2>6, <2>8, <2>9
<1>2. CASE i \notin Registered(store)
  <2>1. new = [store EXCEPT !.rows = Append(store.rows, row)]
    BY <1>2 DEF Client
  <2>2. \A n \in DOMAIN store.rows : store.rows[n].iface # i
    BY <1>2 DEF Registered, Rows
  <2>3. PICK S : store.rows \in Seq(S)
    BY DEF Good, WellFormed, IsSequence
  <2>4. /\ Append(store.rows, row) \in Seq(S \cup {row})
        /\ DOMAIN Append(store.rows, row) = DOMAIN store.rows \cup {Len(store.rows) + 1}
        /\ Append(store.rows, row)[Len(store.rows) + 1] = row
        /\ \A n \in DOMAIN store.rows : Append(store.rows, row)[n] = store.rows[n]
        /\ Len(store.rows) + 1 \notin DOMAIN store.rows
    <3>. HIDE DEF row
    <3>. QED  BY <2>3
  <2>5. Row(row) /\ row.iface = i /\ row.table = table /\ row.pub = None
    BY DEF Row
  <2>. HIDE DEF row
  <2>6. /\ new.rows = Append(store.rows, row)
        /\ new.peer = store.peer /\ new.bound = store.bound
        /\ DOMAIN new = {"schema", "rows", "peer", "bound", "routes"}
    BY <2>1 DEF Good, WellFormed
  <2>7. WellFormed(new)
    BY <2>2, <2>4, <2>5, <2>6 DEF Good, WellFormed, IsSequence
  <2>8. Filed(new, files)
    BY <2>4, <2>5, <2>6 DEF Good, Filed
  <2>9. \A n \in DOMAIN store.rows : n \in DOMAIN new.rows /\ new.rows[n] = store.rows[n]
    BY <2>4, <2>6
  <2>10. \E n \in DOMAIN new.rows : new.rows[n].iface = i /\ new.rows[n].table = table
    BY <2>4, <2>5, <2>6
  <2>. QED  BY <2>6, <2>7, <2>8, <2>9, <2>10 DEF Good
<1>. QED  BY <1>1, <1>2

\* key_client_generate's UPDATE of all rows.
LEMMA PublicKeyForm ==
  ASSUME NEW store, NEW files, Good(store, files), NEW m \in Machines, files[m] = "key"
  PROVE  Good(WithPublicKey(store, m), files)
<1>. DEFINE new(n) == [store.rows[n] EXCEPT !.pub = m]
            rows == [n \in DOMAIN store.rows |-> new(n)]
<1>1. WithPublicKey(store, m) = [store EXCEPT !.rows = rows]
  BY DEF WithPublicKey, Good, WellFormed
<1>2. \A n \in DOMAIN store.rows :
        Row(new(n)) /\ new(n).iface = store.rows[n].iface /\ new(n).pub = m
  BY DEF Good, WellFormed, Row
<1>3. PICK S : store.rows \in Seq(S)
  BY DEF Good, WellFormed, IsSequence
<1>. HIDE DEF new
<1>4. rows \in Seq({new(n) : n \in DOMAIN store.rows})
  BY <1>3
<1>5. DOMAIN rows = DOMAIN store.rows /\ \A n \in DOMAIN rows : rows[n] = new(n)
  OBVIOUS
<1>. HIDE DEF rows
<1>6. Good([store EXCEPT !.rows = rows], files)
  BY <1>2, <1>4, <1>5, RowsReplaced DEF IsSequence
<1>. QED  BY <1>1, <1>6
-----------------------------------------------------------------------------
(* The invariant. *)

Converged(store) ==
  /\ SeededAll(store) /\ store.routes = Names
  /\ NumberedAll(store) /\ AddressedAll(store) /\ FollowsKernel(store)

\* How far db_init has come, by what its connection sees.
Progress ==
  /\ pc = "schema" => k = 1
  /\ pc \in {"iface", "server", "bind"} => \A n \in 1 .. k - 1 : Seeded(work, Ifaces[n])
  /\ pc \in {"server", "bind"} => Named(work, Ifaces[k])
  /\ pc = "bind" => Served(work, Ifaces[k])
  /\ pc \in {"routes", "numbers", "addresses", "commit"} => SeededAll(work)
  /\ pc \in {"numbers", "addresses", "commit"} => work.routes = Names
  /\ pc \in {"addresses", "commit"} => NumberedAll(work)
  /\ pc = "commit" => AddressedAll(work) /\ FollowsKernel(work)
  /\ pc = "initialised" => Converged(db)

Keys ==
  /\ DOMAIN keyfile = Machines
  /\ client \in Machines
  /\ pc = "keydb" => keyfile[client] = "key"

RegistryInv ==
  /\ Good(db, keyfile)
  /\ Good(work, keyfile)
  /\ Keys
  /\ k \in 1 .. Len(Ifaces)
  /\ Progress

LEMMA IfacesForm ==
  /\ Ifaces \in Seq(STRING)
  /\ Len(Ifaces) \in Nat \ {0}
  /\ DOMAIN Ifaces = 1 .. Len(Ifaces)
  /\ \A n \in 1 .. Len(Ifaces) : Ifaces[n] \in Names
  /\ \A i \in Names : \E n \in 1 .. Len(Ifaces) : i = Ifaces[n]
  /\ None \notin Machines
  BY TunnelAssumption DEF Names

LEMMA InitialInv == Init => RegistryInv
<1>. SUFFICES ASSUME Init PROVE RegistryInv
  OBVIOUS
<1>1. EmptyStore.rows \in Seq({}) /\ DOMAIN EmptyStore.rows = {}
  BY DEF EmptyStore
<1>2. Good(EmptyStore, keyfile)
  BY <1>1 DEF EmptyStore, Good, WellFormed, Filed, IsSequence
<1>. QED  BY <1>2, IfacesForm DEF Init, RegistryInv, Keys, Progress

\* The steps that are no part of db_init.
Apart ==
  \/ World
  \/ \E i \in Names : Bind(i) \/ \E key \in OtherKeys : SetServerKey(i, key)
  \/ Register \/ Readdress
  \/ WipeDb \/ WipeStage \/ InstallTables
  \/ \E m \in Machines : StartKey(m) \/ StartStage(m)
  \/ KeyStep \/ StageStep \/ Abort
  \/ UNCHANGED vars

LEMMA NextParts ==
  ASSUME [Next]_vars
  PROVE  Apart \/ InitStep \/ \E names \in TableNamings : StartInit(names)
  BY DEF Next, Command, Apart

\* A private key on file stays there, and RecordKey finds its own.
LEMMA KeysNext ==
  ASSUME Keys, [Next]_vars
  PROVE  Keys' /\ \A m \in Machines : keyfile[m] = "key" => keyfile'[m] = "key"
<1>1. ASSUME World PROVE UNCHANGED <<keyfile, client, pc>>
  BY <1>1 DEF World, EditTables, EditAddress, EditAccount, Disturb, storeVars, localVars
<1>2. ASSUME Command
      PROVE  keyfile' = keyfile /\ pc' # "keydb" /\ client' \in Machines
  BY <1>2 DEF Keys, Command, StartInit, Bind, SetServerKey, Register, Readdress, WipeDb,
              WipeStage, InstallTables, StartKey, StartStage, Refuse, Immediate, Issue, Begin,
              storeVars
<1>3. ASSUME InitStep
      PROVE  keyfile' = keyfile /\ pc' # "keydb" /\ client' = client
  BY <1>3 DEF InitStep, LoadSchema, UpsertClient, UpsertServer, BindUser, SeedRoutes,
              AssignNumbers, ReconcileAddresses, CommitInit, Then, Fail, Return
<1>4. ASSUME MakeKeyFile PROVE Keys' /\ \A m \in Machines : keyfile[m] = "key" => keyfile'[m] = "key"
  BY <1>4 DEF Keys, MakeKeyFile, Fail, Return, localVars
<1>5. ASSUME WriteKeyFile PROVE Keys' /\ \A m \in Machines : keyfile[m] = "key" => keyfile'[m] = "key"
  BY <1>5 DEF Keys, WriteKeyFile, localVars
<1>6. ASSUME RecordKey PROVE keyfile' = keyfile /\ pc' # "keydb" /\ client' = client
  BY <1>6 DEF RecordKey, Then, Fail, Return
<1>7. ASSUME StageStep PROVE keyfile' = keyfile /\ pc' # "keydb" /\ client' = client
  BY <1>7 DEF StageStep, StageConf, StageTables, StageScript, StageDropin, Stumble, WriteFails,
              StageSteps, StageDone, NextPart, Return, At, storeVars, localVars
<1>8. ASSUME Abort PROVE keyfile' = keyfile /\ pc' # "keydb" /\ client' = client
  BY <1>8 DEF Abort, Fail, Return
<1>9. ASSUME UNCHANGED vars PROVE UNCHANGED <<keyfile, client, pc>>
  BY <1>9 DEF vars, storeVars, localVars
<1>. QED  BY <1>1, <1>2, <1>3, <1>4, <1>5, <1>6, <1>7, <1>8, <1>9 DEF Next, KeyStep, Keys
-----------------------------------------------------------------------------
(* The stores of every step are well formed and filed. *)

\* Neither is changed, or work is dropped.
KeepsOrDrops == db' = db /\ work' \in {work, db}

LEMMA EmptyGood == Good(EmptyStore, keyfile)
<1>1. EmptyStore.rows \in Seq({}) /\ DOMAIN EmptyStore.rows = {}
  BY DEF EmptyStore
<1>. QED  BY <1>1 DEF EmptyStore, Good, WellFormed, Filed, IsSequence

\* The stores that are written.
LEMMA WrittenGood ==
  ASSUME NEW store, Good(store, keyfile), NEW i \in Names
  PROVE  /\ \A x : Good([store EXCEPT !.schema = x], keyfile)
         /\ \A x : Good([store EXCEPT !.peer[i] = x], keyfile)
         /\ \A x : Good([store EXCEPT !.routes = x], keyfile)
         /\ Good(BoundTo(store, i), keyfile)
         /\ \A table : Good(Client(store, i, table), keyfile)
         /\ Good(WithNumbers(store), keyfile)
         /\ Good(WithAddresses(store), keyfile)
<1>1. /\ \A x : Good([store EXCEPT !.schema = x], keyfile)
      /\ \A x : Good([store EXCEPT !.peer[i] = x], keyfile)
      /\ \A x : Good([store EXCEPT !.routes = x], keyfile)
  BY OtherFields
<1>2. Good(BoundTo(store, i), keyfile)
  BY OtherFields DEF BoundTo, Good, WellFormed
<1>3. \A table : Good(Client(store, i, table), keyfile)
  BY ClientForm
<1>4. Good(WithNumbers(store), keyfile)
  <2>. DEFINE planned == Numbered(store.rows, live, TableNumbers)
  <2>1. /\ IsSequence(planned)
        /\ DOMAIN planned = DOMAIN store.rows
        /\ \A n \in DOMAIN store.rows :
             Row(planned[n]) /\ SameRow(planned[n], store.rows[n])
    BY NumbersPlanned DEF Good
  <2>2. WithNumbers(store) = [store EXCEPT !.rows = planned]
    BY DEF WithNumbers, Good, WellFormed
  <2>. HIDE DEF planned
  <2>3. \A n \in DOMAIN planned :
          /\ Row(planned[n])
          /\ planned[n].iface = store.rows[n].iface
          /\ planned[n].pub # None => keyfile[planned[n].pub] = "key"
    BY <2>1 DEF SameRow, Good, Filed
  <2>. QED  BY <2>1, <2>2, <2>3, RowsReplaced
<1>5. Good(WithAddresses(store), keyfile)
  <2>. DEFINE planned == Addressed(store.rows, kernel, Hosts)
  <2>1. /\ IsSequence(planned)
        /\ DOMAIN planned = DOMAIN store.rows
        /\ \A n \in DOMAIN store.rows :
             Row(planned[n]) /\ SameRow(planned[n], store.rows[n])
    BY AddressesPlanned DEF Good
  <2>2. WithAddresses(store) = [store EXCEPT !.rows = planned]
    BY DEF WithAddresses, Good, WellFormed
  <2>. HIDE DEF planned
  <2>3. \A n \in DOMAIN planned :
          /\ Row(planned[n])
          /\ planned[n].iface = store.rows[n].iface
          /\ planned[n].pub # None => keyfile[planned[n].pub] = "key"
    BY <2>1 DEF SameRow, Good, Filed
  <2>. QED  BY <2>1, <2>2, <2>3, RowsReplaced
<1>. QED  BY <1>1, <1>2, <1>3, <1>4, <1>5

\* What db_init writes, step by step.
InitWrites(store) ==
  \/ \E x \in {"partial", "loaded"} : store = [db EXCEPT !.schema = x]
  \/ pc = "iface" /\ store = Client(work, Ifaces[k], naming[Ifaces[k]])
  \/ pc = "server" /\ store = [work EXCEPT !.peer[Ifaces[k]] = SeedKey]
  \/ pc = "routes" /\ store = [work EXCEPT !.routes = Names]
  \/ ~NumbersFail(work) /\ store = WithNumbers(work)
  \/ ~AddressesFail(work) /\ store = WithAddresses(work)
  \/ store = work

\* What the other commands write.
CommandWrites(store) ==
  \/ pc = "keydb" /\ store = WithPublicKey(db, client)
  \/ \E i \in Registered(db) : store = BoundTo(db, i)
  \/ \E i \in Names, key \in OtherKeys : db.peer[i] # None /\ store = [db EXCEPT !.peer[i] = key]
  \/ ~NumbersFail(db) /\ store = WithNumbers(db)
  \/ ~AddressesFail(db) /\ store = WithAddresses(db)
  \/ store = EmptyStore

Saves(store) == (InitWrites(store) \/ CommandWrites(store)) /\ work' = store /\ db' = store

\* The only write that waits for somebody else's commit.
PendsBinding == pc = "bind" /\ work' = BoundTo(work, Ifaces[k]) /\ db' = db

\* Each step keeps, drops, writes and commits, or pends.
LEMMA StoreForms ==
  ASSUME [Next]_vars
  PROVE  KeepsOrDrops \/ PendsBinding \/ \E store : Saves(store)
<1>. DEFINE Fine == KeepsOrDrops \/ PendsBinding \/ \E store : Saves(store)
<1>1. ASSUME KeepsOrDrops PROVE Fine
  BY <1>1
<1>2. ASSUME NEW store, InitWrites(store) \/ CommandWrites(store), Save(store) PROVE Fine
  BY <1>2 DEF Save, Saves
<1>3. ASSUME NEW store, InitWrites(store), SaveIfChanged(store) PROVE Fine
  BY <1>3 DEF Save, SaveIfChanged, Saves, KeepsOrDrops
<1>. HIDE DEF Fine
<1>4. ASSUME World \/ UNCHANGED vars PROVE Fine
  BY <1>1, <1>4 DEF World, EditTables, EditAddress, EditAccount, Disturb, storeVars, vars,
                    KeepsOrDrops
<1>5. ASSUME Abort PROVE Fine
  BY <1>1, <1>5 DEF Abort, Fail, Return, KeepsOrDrops
<1>6. ASSUME StageStep PROVE Fine
  BY <1>1, <1>6 DEF StageStep, StageConf, StageTables, StageScript, StageDropin, Stumble,
                    WriteFails, StageSteps, StageDone, NextPart, Return, At, storeVars,
                    KeepsOrDrops
<1>7. ASSUME MakeKeyFile \/ WriteKeyFile PROVE Fine
  BY <1>1, <1>7 DEF MakeKeyFile, WriteKeyFile, Fail, Return, KeepsOrDrops
<1>8. ASSUME RecordKey PROVE Fine
  <2>1. CASE db.schema = "loaded"
    BY <1>2, <1>8, <2>1 DEF RecordKey, At, CommandWrites
  <2>2. CASE db.schema # "loaded"
    BY <1>1, <1>8, <2>2 DEF RecordKey, Fail, Return, KeepsOrDrops
  <2>. QED  BY <2>1, <2>2
<1>9. ASSUME LoadSchema PROVE Fine
  BY <1>2, <1>9 DEF LoadSchema, InitWrites
<1>10. ASSUME UpsertClient PROVE Fine
  BY <1>3, <1>10 DEF UpsertClient, At, InitWrites
<1>11. ASSUME UpsertServer PROVE Fine
  BY <1>3, <1>11 DEF UpsertServer, At, InitWrites
<1>12. ASSUME BindUser PROVE Fine
  BY <1>12 DEF BindUser, At, Pend, PendsBinding, Fine
<1>13. ASSUME SeedRoutes PROVE Fine
  BY <1>2, <1>13 DEF SeedRoutes, At, InitWrites
<1>14. ASSUME AssignNumbers PROVE Fine
  <2>1. CASE NumbersFail(work)
    BY <1>1, <1>14, <2>1 DEF AssignNumbers, Fail, Return, KeepsOrDrops
  <2>2. CASE ~NumbersFail(work)
    BY <1>3, <1>14, <2>2 DEF AssignNumbers, InitWrites
  <2>. QED  BY <2>1, <2>2
<1>15. ASSUME ReconcileAddresses PROVE Fine
  <2>1. CASE AddressesFail(work)
    BY <1>1, <1>15, <2>1 DEF ReconcileAddresses, Fail, Return, KeepsOrDrops
  <2>2. CASE ~AddressesFail(work)
    BY <1>3, <1>15, <2>2 DEF ReconcileAddresses, InitWrites
  <2>. QED  BY <2>1, <2>2
<1>16. ASSUME CommitInit PROVE Fine
  BY <1>2, <1>16 DEF CommitInit, InitWrites
<1>17. ASSUME NEW store, CommandWrites(store), Immediate(store) PROVE Fine
  <2>1. CASE db.schema = "loaded"
    BY <1>2, <1>17, <2>1 DEF Immediate
  <2>2. CASE db.schema # "loaded"
    BY <1>1, <1>17, <2>2 DEF Immediate, KeepsOrDrops
  <2>. QED  BY <2>1, <2>2
<1>18. ASSUME Refuse PROVE Fine
  BY <1>1, <1>18 DEF Refuse, storeVars, KeepsOrDrops
<1>19. ASSUME NEW i \in Names, Bind(i) PROVE Fine
  BY <1>17, <1>18, <1>19 DEF Bind, CommandWrites
<1>20. ASSUME NEW i \in Names, NEW key \in OtherKeys, SetServerKey(i, key) PROVE Fine
  <2>1. CASE db.peer[i] = None
    BY <1>1, <1>20, <2>1 DEF SetServerKey, Immediate, Save, KeepsOrDrops
  <2>2. CASE db.peer[i] # None
    BY <1>17, <1>20, <2>2 DEF SetServerKey, CommandWrites
  <2>. QED  BY <2>1, <2>2
<1>21. ASSUME Register \/ Readdress PROVE Fine
  BY <1>17, <1>18, <1>21 DEF Register, Readdress, CommandWrites
<1>22. ASSUME WipeDb PROVE Fine
  BY <1>2, <1>22 DEF WipeDb, CommandWrites
<1>23. ASSUME WipeStage \/ InstallTables \/ \E m \in Machines : StartKey(m) \/ StartStage(m)
       PROVE  Fine
  BY <1>1, <1>23 DEF WipeStage, InstallTables, StartKey, StartStage, storeVars, KeepsOrDrops
<1>24. ASSUME NEW names \in TableNamings, StartInit(names) PROVE Fine
  BY <1>1, <1>24 DEF StartInit, storeVars, KeepsOrDrops
<1>25. Fine
  BY <1>4, <1>5, <1>6, <1>7, <1>8, <1>9, <1>10, <1>11, <1>12, <1>13, <1>14, <1>15, <1>16,
     <1>19, <1>20, <1>21, <1>22, <1>23, <1>24
     DEF Next, Command, InitStep, KeyStep
<1>. QED  BY <1>25 DEF Fine

LEMMA StoresNext ==
  ASSUME RegistryInv, [Next]_vars
  PROVE  Good(db', keyfile) /\ Good(work', keyfile)
<1>. USE DEF RegistryInv
<1>1. Ifaces[k] \in Names
  BY IfacesForm
<1>2. ASSUME KeepsOrDrops PROVE Good(db', keyfile) /\ Good(work', keyfile)
  BY <1>2 DEF KeepsOrDrops
<1>3. ASSUME PendsBinding PROVE Good(db', keyfile) /\ Good(work', keyfile)
  BY <1>1, <1>3, WrittenGood DEF PendsBinding
<1>4. ASSUME NEW store, InitWrites(store) PROVE Good(store, keyfile)
  <2>1. /\ \A x : Good([db EXCEPT !.schema = x], keyfile)
        /\ \A x : Good([work EXCEPT !.peer[Ifaces[k]] = x], keyfile)
        /\ \A x : Good([work EXCEPT !.routes = x], keyfile)
        /\ \A table : Good(Client(work, Ifaces[k], table), keyfile)
        /\ Good(WithNumbers(work), keyfile)
        /\ Good(WithAddresses(work), keyfile)
    BY <1>1, WrittenGood
  <2>. QED  BY <1>4, <2>1 DEF InitWrites
<1>5. ASSUME NEW store, CommandWrites(store) PROVE Good(store, keyfile)
  <2>1. ASSUME pc = "keydb" PROVE Good(WithPublicKey(db, client), keyfile)
    BY <2>1, PublicKeyForm DEF Keys
  <2>2. Registered(db) \subseteq Names
    BY DEF Registered, Rows, Good, WellFormed, Row
  <2>3. /\ \A i \in Names : Good(BoundTo(db, i), keyfile)
        /\ \A i \in Names : \A x : Good([db EXCEPT !.peer[i] = x], keyfile)
        /\ Good(WithNumbers(db), keyfile)
        /\ Good(WithAddresses(db), keyfile)
    BY <1>1, WrittenGood
  <2>. QED  BY <1>5, <2>1, <2>2, <2>3, EmptyGood, ZenonT(40) DEF CommandWrites
<1>6. ASSUME NEW store, Saves(store) PROVE Good(db', keyfile) /\ Good(work', keyfile)
  BY <1>4, <1>5, <1>6 DEF Saves
<1>. QED  BY <1>2, <1>3, <1>6, StoreForms
-----------------------------------------------------------------------------
(* The addresses that are planned. *)

\* plan_address_updates for the first n rows.
AddressGiven(rows, addresses, pool, before, m) ==
  IF addresses[rows[m].iface] # None THEN addresses[rows[m].iface]
  ELSE IF rows[m].addr # None THEN rows[m].addr
  ELSE FirstFree(pool, UsedHosts(rows, addresses) \cup before)

IsAddressing(rows, addresses, pool, n, g) ==
  g = [m \in 1 .. n |-> AddressGiven(rows, addresses, pool, {g[i] : i \in 1 .. m - 1}, m)]

LEMMA AddressingExists ==
  ASSUME NEW rows, NEW addresses, NEW pool, NEW n \in Nat
  PROVE  \E g : IsAddressing(rows, addresses, pool, n, g)
<1> DEFINE T == {j \in Nat : \E g : IsAddressing(rows, addresses, pool, j, g)}
<1>1. 0 \in T
  <2> DEFINE g == [m \in 1 .. 0 |-> None]
  <2>1. g = [m \in 1 .. 0 |-> AddressGiven(rows, addresses, pool, {g[i] : i \in 1 .. m - 1}, m)]
    OBVIOUS
  <2> HIDE DEF g
  <2>2. IsAddressing(rows, addresses, pool, 0, g)
    BY <2>1, Zenon DEF IsAddressing
  <2> QED  BY <2>2
<1>2. ASSUME NEW j \in Nat, j \in T PROVE j + 1 \in T
  <2>1. PICK g : IsAddressing(rows, addresses, pool, j, g)
    BY <1>2
  <2> DEFINE last == AddressGiven(rows, addresses, pool, {g[i] : i \in 1 .. j}, j + 1)
             longer == [m \in 1 .. j + 1 |-> IF m = j + 1 THEN last ELSE g[m]]
             next == [m \in 1 .. j + 1 |->
                   AddressGiven(rows, addresses, pool, {longer[i] : i \in 1 .. m - 1}, m)]
  <2>2. ASSUME NEW m \in 1 .. j + 1 PROVE longer[m] = next[m]
    <3>1. {longer[i] : i \in 1 .. m - 1} = {g[i] : i \in 1 .. m - 1}
      <4>1. \A i \in 1 .. m - 1 : longer[i] = g[i]
        OBVIOUS
      <4> HIDE DEF longer
      <4> QED  BY <4>1
    <3>2. next[m] = AddressGiven(rows, addresses, pool, {g[i] : i \in 1 .. m - 1}, m)
      <4>1. next[m] = AddressGiven(rows, addresses, pool, {longer[i] : i \in 1 .. m - 1}, m)
        BY Zenon
      <4> HIDE DEF next, longer
      <4> QED  BY <3>1, <4>1
    <3>3. CASE m = j + 1
      <4>1. longer[m] = last /\ m - 1 = j
        BY <3>3
      <4> HIDE DEF next, longer
      <4> QED  BY <3>2, <3>3, <4>1
    <3>4. CASE m # j + 1
      <4>1. m \in 1 .. j /\ longer[m] = g[m]
        BY <3>4
      <4>2. g[m] = AddressGiven(rows, addresses, pool, {g[i] : i \in 1 .. m - 1}, m)
        BY <2>1, <4>1, Zenon DEF IsAddressing
      <4> HIDE DEF next, longer
      <4> QED  BY <3>2, <4>1, <4>2
    <3> QED  BY <3>3, <3>4
  <2>3. longer = next
    BY <2>2
  <2> HIDE DEF longer
  <2>4. IsAddressing(rows, addresses, pool, j + 1, longer)
    BY <2>3, Zenon DEF IsAddressing
  <2> QED  BY <2>4
<1> HIDE DEF T
<1>3. n \in T
  BY <1>1, <1>2, NatSetInduction
<1> QED  BY <1>3 DEF T

\* Each row's address comes from where the plan says.
LEMMA PlannedAddressesAre ==
  ASSUME NEW rows, NEW addresses, NEW pool, NEW addr,
         addr = PlannedAddresses(rows, addresses, pool),
         NEW n \in Nat, DOMAIN rows = 1 .. n
  PROVE  \A m \in 1 .. n :
           addr[m] = AddressGiven(rows, addresses, pool, {addr[i] : i \in 1 .. m - 1}, m)
<1>1. addr = CHOOSE g : g = [m \in 1 .. n |->
                 IF addresses[rows[m].iface] # None THEN addresses[rows[m].iface]
                 ELSE IF rows[m].addr # None THEN rows[m].addr
                 ELSE FirstFree(pool, UsedHosts(rows, addresses) \cup {g[i] : i \in 1 .. m - 1})]
  BY DEF PlannedAddresses
<1>2. addr = CHOOSE g : IsAddressing(rows, addresses, pool, n, g)
  BY <1>1, Zenon DEF AddressGiven, IsAddressing
<1>3. IsAddressing(rows, addresses, pool, n, addr)
  BY <1>2, AddressingExists
<1> QED  BY <1>3, Zenon DEF IsAddressing

-----------------------------------------------------------------------------
(* How db_init gets on. *)

LEMMA SaveGives ==
  ASSUME NEW store, Save(store) \/ Pend(store) \/ SaveIfChanged(store)
  PROVE  work' = store
  BY DEF Save, Pend, SaveIfChanged

\* A step that is no part of db_init either ends it or leaves it alone.
LEMMA ApartStep ==
  ASSUME Apart
  PROVE  \/ pc' \notin InitSteps \cup {"initialised"}
         \/ UNCHANGED <<db, work, pc, k, naming, seen>>
<1>1. ASSUME World \/ UNCHANGED vars PROVE UNCHANGED <<db, work, pc, k, naming, seen>>
  BY <1>1 DEF World, EditTables, EditAddress, EditAccount, Disturb, storeVars, localVars, vars
<1>2. ASSUME StageStep
      PROVE  pc' \notin InitSteps \cup {"initialised"}
  BY <1>2 DEF StageStep, StageConf, StageTables, StageScript, StageDropin, Stumble, WriteFails,
              StageSteps, StageDone, NextPart, Return, At, storeVars, localVars, InitSteps
<1>3. ASSUME KeyStep \/ Abort PROVE pc' \notin InitSteps \cup {"initialised"}
  BY <1>3 DEF KeyStep, MakeKeyFile, WriteKeyFile, RecordKey, Abort, Then, Fail, Return, InitSteps
<1>4. ASSUME \/ \E i \in Names : Bind(i) \/ \E key \in OtherKeys : SetServerKey(i, key)
             \/ Register \/ Readdress
             \/ WipeDb \/ WipeStage \/ InstallTables
             \/ \E m \in Machines : StartKey(m) \/ StartStage(m)
      PROVE  pc' \notin InitSteps \cup {"initialised"}
  BY <1>4 DEF Bind, SetServerKey, Register, Readdress, WipeDb, WipeStage, InstallTables,
              StartKey, StartStage, Refuse, Immediate, Issue, Begin, InitSteps
<1>. QED  BY <1>1, <1>2, <1>3, <1>4 DEF Apart

\* A loop goes on to the next interface.
Advances == k < Len(Ifaces) /\ k' = k + 1

\* The loops' counter stays among the interfaces.
LEMMA CounterNext ==
  ASSUME k \in 1 .. Len(Ifaces), [Next]_vars
  PROVE  k' \in 1 .. Len(Ifaces)
<1>1. 1 \in 1 .. Len(Ifaces)
  BY IfacesForm
<1>2. Advances => k' \in 1 .. Len(Ifaces)
  BY IfacesForm DEF Advances
<1>3. ASSUME World \/ UNCHANGED vars PROVE k' = k
  BY <1>3 DEF World, EditTables, EditAddress, EditAccount, Disturb, localVars, vars
<1>4. ASSUME Command PROVE k' = 1
  BY <1>4 DEF Command, StartInit, Bind, SetServerKey, Register, Readdress, WipeDb, WipeStage,
              InstallTables, StartKey, StartStage, Refuse, Immediate, Issue, Begin
<1>5. ASSUME InitStep PROVE k' = k \/ k' = 1 \/ Advances
  <2>1. ASSUME BindUser PROVE k' = 1 \/ Advances
    BY <2>1, Zenon DEF BindUser, Advances
  <2>2. ASSUME LoadSchema \/ UpsertClient \/ UpsertServer \/ SeedRoutes \/ CommitInit
        PROVE  k' = k
    BY <2>2 DEF LoadSchema, UpsertClient, UpsertServer, SeedRoutes, CommitInit, Then
  <2>3. ASSUME AssignNumbers \/ ReconcileAddresses PROVE k' = k \/ k' = 1
    BY <2>3 DEF AssignNumbers, ReconcileAddresses, Then, Fail, Return
  <2>. QED  BY <1>5, <2>1, <2>2, <2>3 DEF InitStep
<1>6. ASSUME KeyStep \/ Abort PROVE k' = k \/ k' = 1
  BY <1>6 DEF KeyStep, MakeKeyFile, WriteKeyFile, RecordKey, Abort, Then, Fail, Return, localVars
<1>7. ASSUME StageStep PROVE k' = k \/ k' = 1 \/ Advances
  <2>1. ASSUME StageConf PROVE k' = 1 \/ Advances
    BY <2>1, Zenon DEF StageConf, NextPart, Advances
  <2>2. ASSUME StageDropin PROVE k' = 1 \/ Advances
    BY <2>2, Zenon DEF StageDropin, StageDone, Return, Advances
  <2>3. ASSUME StageTables \/ StageScript PROVE k' = k \/ k' = 1
    BY <2>3 DEF StageTables, StageScript, StageDone, Return, localVars
  <2>4. ASSUME Stumble PROVE k' = 1
    BY <2>4 DEF Stumble, StageDone, NextPart, Return
  <2>. QED  BY <1>7, <2>1, <2>2, <2>3, <2>4 DEF StageStep
<1>. QED  BY <1>1, <1>2, <1>3, <1>4, <1>5, <1>6, <1>7 DEF Next

LEMMA ApartProgress ==
  ASSUME Progress, Apart
  PROVE  Progress'
<1>1. CASE UNCHANGED <<db, work, pc, k, naming, seen>>
  BY <1>1 DEF Progress, Converged, SeededAll, Seeded, Named, Served, NumberedAll, AddressedAll,
              FollowsKernel
<1>2. CASE pc' \notin InitSteps \cup {"initialised"}
  BY <1>2 DEF Progress, InitSteps
<1>. QED  BY <1>1, <1>2, ApartStep

\* What an update of the rows keeps, if it keeps the tables' names.
LEMMA SeededKept ==
  ASSUME NEW old, NEW new, NEW i,
         new.peer = old.peer, new.bound = old.bound,
         DOMAIN new.rows = DOMAIN old.rows,
         \A n \in DOMAIN old.rows : SameRow(new.rows[n], old.rows[n]),
         Seeded(old, i)
  PROVE  Seeded(new, i)
  BY DEF Seeded, Named, Served, SameRow

LEMMA ClientSeeds ==
  ASSUME Good(work, keyfile), NEW i \in Names, NEW new, new = Client(work, i, naming[i])
  PROVE  /\ Named(new, i)
         /\ \A j : Seeded(work, j) => Seeded(new, j)
  BY ClientForm DEF Named, Seeded, Served

LEMMA NumbersGiven ==
  ASSUME Good(work, keyfile), NEW new, new = WithNumbers(work), ~NumbersFail(work)
  PROVE  /\ NumberedAll(new)
         /\ new.routes = work.routes
         /\ \A i : Seeded(work, i) => Seeded(new, i)
<1>. DEFINE planned == Numbered(work.rows, live, TableNumbers)
<1>1. /\ new.rows = planned
      /\ new.peer = work.peer /\ new.bound = work.bound /\ new.routes = work.routes
  BY DEF WithNumbers, Good, WellFormed
<1>2. NumberedAll(new)
  BY <1>1 DEF NumbersFail, NumberedAll, Rows
<1>3. DOMAIN planned = DOMAIN work.rows
      /\ \A n \in DOMAIN work.rows : SameRow(planned[n], work.rows[n])
  BY NumbersPlanned DEF Good
<1>. HIDE DEF planned
<1>. QED  BY <1>1, <1>2, <1>3, SeededKept

LEMMA AddressesGiven ==
  ASSUME Good(work, keyfile), NEW new, new = WithAddresses(work), ~AddressesFail(work)
  PROVE  /\ AddressedAll(new)
         /\ \A n \in DOMAIN new.rows : kernel[new.rows[n].iface] \in {None, new.rows[n].addr}
         /\ NumberedAll(work) => NumberedAll(new)
         /\ new.routes = work.routes
         /\ \A i : Seeded(work, i) => Seeded(new, i)
<1>. DEFINE planned == Addressed(work.rows, kernel, Hosts)
<1>1. /\ new.rows = planned
      /\ new.peer = work.peer /\ new.bound = work.bound /\ new.routes = work.routes
  BY DEF WithAddresses, Good, WellFormed
<1>2. AddressedAll(new)
  BY <1>1 DEF AddressesFail, AddressedAll, Rows
<1>3. DOMAIN planned = DOMAIN work.rows
      /\ \A n \in DOMAIN work.rows :
           SameRow(planned[n], work.rows[n]) /\ SameNumber(planned[n], work.rows[n])
  BY AddressesPlanned DEF Good
<1>4. \A n \in DOMAIN work.rows : kernel[work.rows[n].iface] \in {None, planned[n].addr}
  <2>. DEFINE addr == PlannedAddresses(work.rows, kernel, Hosts)
  <2>. SUFFICES ASSUME NEW n \in DOMAIN work.rows, kernel[work.rows[n].iface] # None
                PROVE  planned[n].addr = kernel[work.rows[n].iface]
    OBVIOUS
  <2>1. PICK S : work.rows \in Seq(S)
    BY DEF Good, WellFormed, IsSequence
  <2>2. DOMAIN work.rows = 1 .. Len(work.rows) /\ Len(work.rows) \in Nat
    BY <2>1
  <2>3. addr[n] = AddressGiven(work.rows, kernel, Hosts, {addr[i] : i \in 1 .. n - 1}, n)
    <3>. HIDE DEF addr
    <3>1. addr = PlannedAddresses(work.rows, kernel, Hosts)
      BY DEF addr
    <3>. QED  BY <2>2, <3>1, PlannedAddressesAre
  <2>4. addr[n] = kernel[work.rows[n].iface]
    <3>. HIDE DEF addr
    <3>. QED  BY <2>3 DEF AddressGiven
  <2>5. planned[n].addr = addr[n]
    <3>1. planned[n] = [work.rows[n] EXCEPT !.addr = addr[n]]
      BY DEF Addressed
    <3>2. "addr" \in DOMAIN work.rows[n]
      BY DEF Good, WellFormed, Row
    <3>. HIDE DEF addr, planned
    <3>. QED  BY <3>1, <3>2
  <2>. QED  BY <2>4, <2>5
<1>. HIDE DEF planned
<1>5. NumberedAll(work) => NumberedAll(new)
  BY <1>1, <1>3 DEF NumberedAll, SameNumber
<1>6. \A n \in DOMAIN new.rows : kernel[new.rows[n].iface] \in {None, new.rows[n].addr}
  BY <1>1, <1>3, <1>4 DEF SameRow
<1>. QED  BY <1>1, <1>2, <1>3, <1>5, <1>6, SeededKept

\* Each step of db_init leaves what the next one counts on.
LEMMA InitProgress ==
  ASSUME RegistryInv, InitStep
  PROVE  Progress'
<1>. USE DEF RegistryInv
<1>0. k \in Nat /\ Len(Ifaces) \in Nat /\ Ifaces[k] \in Names
  BY IfacesForm
<1>1. ASSUME LoadSchema PROVE Progress'
  BY <1>1 DEF LoadSchema, At, Then, Progress
<1>2. ASSUME UpsertClient PROVE Progress'
  <2>1. work' = Client(work, Ifaces[k], naming[Ifaces[k]])
    BY <1>2, SaveGives DEF UpsertClient
  <2>2. /\ Named(work', Ifaces[k])
        /\ \A i : Seeded(work, i) => Seeded(work', i)
    BY <1>0, <2>1, ClientSeeds
  <2>3. pc = "iface" /\ pc' = "server" /\ k' = k /\ naming' = naming
    BY <1>2 DEF UpsertClient, At, Then
  <2>4. \A i : (Seeded(work', i) => Seeded(work, i)') /\ (Named(work', i) => Named(work, i)')
    BY <2>3 DEF Seeded, Named, Served
  <2>. QED  BY <2>2, <2>3, <2>4 DEF Progress
<1>3. ASSUME UpsertServer PROVE Progress'
  <2>1. work' = [work EXCEPT !.peer[Ifaces[k]] = SeedKey]
    BY <1>3, SaveGives DEF UpsertServer
  <2>2. pc = "server" /\ pc' = "bind" /\ k' = k /\ naming' = naming
    BY <1>3 DEF UpsertServer, At, Then
  <2>3. /\ work'.rows = work.rows /\ work'.bound = work.bound
        /\ work'.peer[Ifaces[k]] = SeedKey
        /\ \A i : work.peer[i] = SeedKey => work'.peer[i] = SeedKey
    BY <1>0, <2>1 DEF Good, WellFormed
  <2>4. /\ Named(work, Ifaces[k]) => Named(work, Ifaces[k])'
        /\ Served(work, Ifaces[k])'
        /\ \A i : Seeded(work, i) => Seeded(work, i)'
    BY <2>2, <2>3 DEF Seeded, Named, Served
  <2>. QED  BY <2>2, <2>4 DEF Progress
<1>4. ASSUME BindUser PROVE Progress'
  <2>1. work' = BoundTo(work, Ifaces[k])
    BY <1>4, SaveGives DEF BindUser
  <2>2. /\ pc = "bind" /\ naming' = naming
        /\ \/ k < Len(Ifaces) /\ k' = k + 1 /\ pc' = "iface"
           \/ ~(k < Len(Ifaces)) /\ k' = 1 /\ pc' = "routes"
    BY <1>4 DEF BindUser, At
  <2>3. /\ work'.rows = work.rows /\ work'.peer = work.peer
        /\ work'.bound[Ifaces[k]] # "unbound"
        /\ \A i \in Names : i # Ifaces[k] => work'.bound[i] = work.bound[i]
    BY <1>0, <2>1 DEF BoundTo, Good, WellFormed
  <2>4. /\ \A n \in 1 .. k - 1 : Seeded(work, Ifaces[n])
        /\ Named(work, Ifaces[k]) /\ Served(work, Ifaces[k])
    BY <2>2 DEF Progress
  <2>5. \A n \in 1 .. k : Seeded(work, Ifaces[n])'
    <3>1. \A i : Named(work, i) => Named(work, i)'
      BY <2>2, <2>3 DEF Named
    <3>. PICK j : j = Ifaces[k]
      OBVIOUS
    <3>2. Seeded(work, j)'
      BY <2>3, <2>4, <3>1 DEF Seeded, Served
    <3>3. ASSUME NEW i \in Names, Seeded(work, i) PROVE Seeded(work, i)'
      <4>1. CASE i = j
        BY <3>2, <4>1
      <4>2. CASE i # j
        BY <2>3, <3>1, <3>3, <4>2 DEF Seeded, Served
      <4>. QED  BY <4>1, <4>2
    <3>4. \A n \in 1 .. k : n = k \/ (n \in 1 .. k - 1 /\ Ifaces[n] \in Names)
      BY <1>0, IfacesForm
    <3>. QED  BY <2>4, <3>2, <3>3, <3>4
  <2>6. CASE pc' = "iface"
    <3>1. k' - 1 = k
      BY <1>0, <2>2, <2>6
    <3>. QED  BY <2>5, <2>6, <3>1 DEF Progress
  <2>7. CASE pc' = "routes"
    <3>1. k = Len(Ifaces)
      BY <1>0, <2>2, <2>7
    <3>2. SeededAll(work)'
      BY <2>5, <3>1, IfacesForm DEF SeededAll
    <3>. QED  BY <2>7, <3>2 DEF Progress
  <2>. QED  BY <2>2, <2>6, <2>7
<1>5. ASSUME SeedRoutes PROVE Progress'
  <2>1. /\ work' = [work EXCEPT !.routes = Names]
        /\ pc = "routes" /\ pc' = "numbers" /\ naming' = naming
    BY <1>5, SaveGives DEF SeedRoutes, At, Then
  <2>2. /\ work'.rows = work.rows /\ work'.peer = work.peer /\ work'.bound = work.bound
        /\ work'.routes = Names
    BY <2>1 DEF Good, WellFormed
  <2>3. SeededAll(work)'
    BY <2>1, <2>2 DEF Progress, SeededAll, Seeded, Named, Served
  <2>. QED  BY <2>1, <2>2, <2>3 DEF Progress
<1>6. ASSUME AssignNumbers PROVE Progress'
  <2>1. CASE NumbersFail(work)
    BY <1>6, <2>1 DEF AssignNumbers, Fail, Return, Progress
  <2>2. CASE ~NumbersFail(work)
    <3>1. /\ work' = WithNumbers(work)
          /\ pc = "numbers" /\ pc' = "addresses" /\ naming' = naming
      BY <1>6, <2>2, SaveGives DEF AssignNumbers, At, Then
    <3>2. /\ NumberedAll(work') /\ work'.routes = Names
          /\ \A i \in Names : Seeded(work', i)
      BY <2>2, <3>1, NumbersGiven DEF Progress, SeededAll
    <3>3. SeededAll(work)' /\ NumberedAll(work)'
      BY <3>1, <3>2 DEF SeededAll, Seeded, Named, Served, NumberedAll
    <3>. QED  BY <3>1, <3>2, <3>3 DEF Progress
  <2>. QED  BY <2>1, <2>2
<1>7. ASSUME ReconcileAddresses PROVE Progress'
  <2>1. CASE AddressesFail(work)
    BY <1>7, <2>1 DEF ReconcileAddresses, Fail, Return, Progress
  <2>2. CASE ~AddressesFail(work)
    <3>1. /\ work' = WithAddresses(work)
          /\ pc = "addresses" /\ pc' = "commit" /\ naming' = naming /\ seen' = kernel
      BY <1>7, <2>2, SaveGives DEF ReconcileAddresses, At, Then
    <3>2. /\ AddressedAll(work') /\ NumberedAll(work') /\ work'.routes = Names
          /\ \A i \in Names : Seeded(work', i)
          /\ \A n \in DOMAIN work'.rows :
               kernel[work'.rows[n].iface] \in {None, work'.rows[n].addr}
      BY <2>2, <3>1, AddressesGiven DEF Progress, SeededAll
    <3>3. /\ SeededAll(work)' /\ NumberedAll(work)' /\ AddressedAll(work)'
          /\ FollowsKernel(work)'
      BY <3>1, <3>2
         DEF SeededAll, Seeded, Named, Served, NumberedAll, AddressedAll, FollowsKernel
    <3>. QED  BY <3>1, <3>2, <3>3 DEF Progress
  <2>. QED  BY <2>1, <2>2
<1>8. ASSUME CommitInit PROVE Progress'
  <2>1. /\ db' = work /\ pc = "commit" /\ pc' = "initialised"
        /\ naming' = naming /\ seen' = seen
    BY <1>8 DEF CommitInit, At, Then, Save
  <2>2. Converged(work)
    BY <2>1 DEF Progress, Converged
  <2>3. Converged(db)'
    BY <2>1, <2>2
       DEF Converged, SeededAll, Seeded, Named, Served, NumberedAll, AddressedAll, FollowsKernel
  <2>. QED  BY <2>1, <2>3 DEF Progress
<1>. QED  BY <1>1, <1>2, <1>3, <1>4, <1>5, <1>6, <1>7, <1>8 DEF InitStep

LEMMA StartProgress ==
  ASSUME NEW names \in TableNamings, StartInit(names)
  PROVE  Progress'
  BY DEF StartInit, Issue, Begin, Progress

LEMMA InvNext == RegistryInv /\ [Next]_vars => RegistryInv'
<1>. SUFFICES ASSUME RegistryInv, [Next]_vars PROVE RegistryInv'
  OBVIOUS
<1>1. Keys' /\ \A m \in Machines : keyfile[m] = "key" => keyfile'[m] = "key"
  BY KeysNext DEF RegistryInv
<1>2. Good(db', keyfile) /\ Good(work', keyfile)
  BY StoresNext
<1>3. ASSUME NEW store, Good(store, keyfile) PROVE Good(store, keyfile')
  BY <1>1, <1>3 DEF Good, WellFormed, Filed, Row
<1>4. Good(db, keyfile)' /\ Good(work, keyfile)'
  BY <1>2, <1>3
<1>5. (k \in 1 .. Len(Ifaces))'
  BY CounterNext DEF RegistryInv
<1>6. Progress'
  BY NextParts, ApartProgress, InitProgress, StartProgress DEF RegistryInv
<1>. QED  BY <1>1, <1>4, <1>5, <1>6 DEF RegistryInv

LEMMA InvAlways == Spec => []RegistryInv
  BY InitialInv, InvNext, PTL DEF Spec

-----------------------------------------------------------------------------
(* The theorems. *)

\* KeyHasFile: no key is shown whose private key is not on file, for any
\* machines, wherever generations die and however the database is wiped.
THEOREM KeysHaveFiles == Spec => []KeyHasFile
<1>1. RegistryInv => KeyHasFile
  BY DEF RegistryInv, Good, WellFormed, Filed, KeyHasFile, Rows
<1>. QED  BY <1>1, InvAlways, PTL

\* InitConverges: a db_init that returns has made the registry what its
\* modules say, for any interfaces, from whatever earlier runs have left.
THEOREM InitsConverge == Spec => []InitConverges
<1>1. RegistryInv => InitConverges
  <2>. SUFFICES ASSUME RegistryInv, pc = "initialised", NEW i \in Names
                PROVE  /\ i \in Registered(db)
                       /\ db.peer[i] = SeedKey
                       /\ db.bound[i] # "unbound"
                       /\ i \in db.routes
                       /\ LET row == db.rows[IdOf(db, i)] IN
                            /\ row.table = naming[i] /\ row.num # None /\ row.addr # None
                            /\ seen[i] \in {None, row.addr}
    BY DEF InitConverges
  <2>1. /\ Seeded(db, i) /\ i \in db.routes
        /\ NumberedAll(db) /\ AddressedAll(db) /\ FollowsKernel(db)
    BY DEF RegistryInv, Progress, Converged, SeededAll
  <2>2. PICK n \in DOMAIN db.rows : db.rows[n].iface = i /\ db.rows[n].table = naming[i]
    BY <2>1 DEF Seeded, Named
  <2>3. IdOf(db, i) = n
    BY <2>2 DEF IdOf, RegistryInv, Good, WellFormed
  <2>4. i \in Registered(db)
    BY <2>2 DEF Registered, Rows
  <2>. QED  BY <2>1, <2>2, <2>3, <2>4 DEF Seeded, Served, NumberedAll, AddressedAll, FollowsKernel
<1>. QED  BY <1>1, InvAlways, PTL

-----------------------------------------------------------------------------
(* The recursions of RoutingTables: that the functions exist which they    *)
(* define, and what they return.                                           *)

\* Of the numbers of a set one is the least.
LEMMA LeastExists ==
  ASSUME NEW S, S \subseteq Nat, S # {}
  PROVE  \E n \in S : \A m \in S : n <= m
<1> DEFINE T == {n \in Nat : \A m \in S : n <= m}
<1>1. 0 \in T
  OBVIOUS
<1>2. PICK s \in S : TRUE
  OBVIOUS
<1>3. ~ (Nat \subseteq T)
  <2>1. s + 1 \notin T /\ s + 1 \in Nat
    BY <1>2
  <2> QED  BY <2>1
<1>4. PICK n \in Nat : n \in T /\ n + 1 \notin T
  <2> HIDE DEF T
  <2> QED  BY <1>1, <1>3, NatSetInduction
<1>5. PICK m \in S : ~ (n + 1 <= m)
  BY <1>4
<1>6. m = n
  BY <1>4, <1>5
<1> QED  BY <1>4, <1>6

\* What first_free_id and _first_free_hosts return is free.
LEMMA FirstFreeIs ==
  ASSUME NEW pool, pool \subseteq Nat, NEW used
  PROVE  FirstFree(pool, used) = None \/ FirstFree(pool, used) \in pool \ used
<1>1. CASE pool \subseteq used
  BY <1>1 DEF FirstFree
<1>2. CASE ~ (pool \subseteq used)
  <2>1. pool \ used # {} /\ pool \ used \subseteq Nat
    BY <1>2
  <2>2. \E n \in pool \ used : \A m \in pool \ used : n <= m
    BY <2>1, LeastExists
  <2> QED  BY <1>2, <2>2 DEF FirstFree
<1> QED  BY <1>1, <1>2

\* parse_rt_tables up to the n-th line.
IsParsing(file, n, g) ==
  g = [m \in 0 .. n |->
         IF m = 0 THEN {}
         ELSE IF \E other \in g[m - 1] : other.name = file[m].name \/ other.num = file[m].num
         THEN g[m - 1]
         ELSE g[m - 1] \cup {file[m]}]

LEMMA ParsingExists ==
  ASSUME NEW file, NEW n \in Nat
  PROVE  \E g : IsParsing(file, n, g)
<1> DEFINE More(g, m) ==
             IF \E other \in g : other.name = file[m].name \/ other.num = file[m].num
             THEN g
             ELSE g \cup {file[m]}
           T == {j \in Nat : \E g : g = [m \in 0 .. j |-> IF m = 0 THEN {} ELSE More(g[m - 1], m)]}
<1> HIDE DEF More
<1>1. 0 \in T
  <2> DEFINE g == [m \in 0 .. 0 |-> {}]
  <2>1. g = [m \in 0 .. 0 |-> IF m = 0 THEN {} ELSE More(g[m - 1], m)]
    OBVIOUS
  <2> QED  BY <2>1
<1>2. ASSUME NEW j \in Nat, j \in T PROVE j + 1 \in T
  <2>1. PICK g : g = [m \in 0 .. j |-> IF m = 0 THEN {} ELSE More(g[m - 1], m)]
    BY <1>2
  <2> DEFINE longer == [m \in 0 .. j + 1 |-> IF m = j + 1 THEN More(g[j], m) ELSE g[m]]
             next == [m \in 0 .. j + 1 |-> IF m = 0 THEN {} ELSE More(longer[m - 1], m)]
  <2>2. ASSUME NEW m \in 0 .. j + 1 PROVE longer[m] = next[m]
    <3>1. CASE m = j + 1
      <4>1. longer[j] = g[j] /\ m - 1 = j /\ m # 0
        BY <3>1
      <4> QED  BY <3>1, <4>1
    <3>2. CASE m # j + 1
      <4>1. m \in 0 .. j /\ longer[m] = g[m]
        BY <3>2
      <4>2. m # 0 => longer[m - 1] = g[m - 1]
        BY <4>1
      <4>3. g[m] = IF m = 0 THEN {} ELSE More(g[m - 1], m)
        BY <2>1, <4>1
      <4> QED  BY <4>1, <4>2, <4>3
    <3> QED  BY <3>1, <3>2
  <2>3. longer = next
    BY <2>2
  <2> HIDE DEF longer
  <2> QED  BY <2>3
<1> HIDE DEF T
<1>3. n \in T
  BY <1>1, <1>2, NatSetInduction
<1> QED  BY <1>3 DEF T, IsParsing, More

LEMMA ParsedIs ==
  ASSUME NEW file, Len(file) \in Nat
  PROVE  \E g : IsParsing(file, Len(file), g) /\ Parsed(file) = g[Len(file)]
<1> DEFINE f == CHOOSE g : IsParsing(file, Len(file), g)
<1>1. Parsed(file) = f[Len(file)]
  BY DEF Parsed, IsParsing
<1>2. IsParsing(file, Len(file), f)
  BY ParsingExists
<1> QED  BY <1>1, <1>2

\* The merge up to the n-th row.
IsMerging(file, rows, pool, n, g) ==
  g = [m \in 0 .. n |-> IF m = 0 THEN file ELSE WithTable(g[m - 1], rows[m], pool)]

LEMMA MergingExists ==
  ASSUME NEW file, NEW rows, NEW pool, NEW n \in Nat
  PROVE  \E g : IsMerging(file, rows, pool, n, g)
<1> DEFINE T == {j \in Nat : \E g : IsMerging(file, rows, pool, j, g)}
<1>1. 0 \in T
  <2> DEFINE g == [m \in 0 .. 0 |-> file]
  <2>1. g = [m \in 0 .. 0 |-> IF m = 0 THEN file ELSE WithTable(g[m - 1], rows[m], pool)]
    OBVIOUS
  <2> QED  BY <2>1 DEF IsMerging
<1>2. ASSUME NEW j \in Nat, j \in T PROVE j + 1 \in T
  <2>1. PICK g : g = [m \in 0 .. j |-> IF m = 0 THEN file ELSE WithTable(g[m - 1], rows[m], pool)]
    BY <1>2 DEF IsMerging
  <2> DEFINE longer == [m \in 0 .. j + 1 |->
                          IF m = j + 1 THEN WithTable(g[j], rows[m], pool) ELSE g[m]]
             next == [m \in 0 .. j + 1 |->
                        IF m = 0 THEN file ELSE WithTable(longer[m - 1], rows[m], pool)]
  <2>2. ASSUME NEW m \in 0 .. j + 1 PROVE longer[m] = next[m]
    <3>1. CASE m = j + 1
      <4>1. longer[j] = g[j] /\ m - 1 = j /\ m # 0
        BY <3>1
      <4> QED  BY <3>1, <4>1
    <3>2. CASE m # j + 1
      <4>1. m \in 0 .. j /\ longer[m] = g[m]
        BY <3>2
      <4>2. m # 0 => longer[m - 1] = g[m - 1]
        BY <4>1
      <4>3. g[m] = IF m = 0 THEN file ELSE WithTable(g[m - 1], rows[m], pool)
        BY <2>1, <4>1
      <4> QED  BY <4>1, <4>2, <4>3
    <3> QED  BY <3>1, <3>2
  <2>3. longer = next
    BY <2>2
  <2> HIDE DEF longer
  <2> QED  BY <2>3 DEF IsMerging
<1> HIDE DEF T
<1>3. n \in T
  BY <1>1, <1>2, NatSetInduction
<1> QED  BY <1>3 DEF T

LEMMA MergedIs ==
  ASSUME NEW file, NEW rows, NEW pool, Len(rows) \in Nat
  PROVE  \E g : /\ IsMerging(file, rows, pool, Len(rows), g)
                /\ MergedTables(file, rows, pool) = g[Len(rows)]
<1> DEFINE f == CHOOSE g : IsMerging(file, rows, pool, Len(rows), g)
<1>1. MergedTables(file, rows, pool) = f[Len(rows)]
  BY DEF MergedTables, IsMerging
<1>2. IsMerging(file, rows, pool, Len(rows), f)
  BY MergingExists
<1> QED  BY <1>1, <1>2

\* plan_rt_id_assignments for the first n rows.
NumberGiven(rows, file, pool, before, m) ==
  IF rows[m].num # None THEN rows[m].num
  ELSE IF NumberOf(file, rows[m].table) # None THEN NumberOf(file, rows[m].table)
  ELSE FirstFree(pool, Numbers(file) \cup DbNumbers(rows) \cup before)

IsNumbering(rows, file, pool, n, g) ==
  g = [m \in 1 .. n |-> NumberGiven(rows, file, pool, {g[i] : i \in 1 .. m - 1}, m)]

LEMMA NumberingExists ==
  ASSUME NEW rows, NEW file, NEW pool, NEW n \in Nat
  PROVE  \E g : IsNumbering(rows, file, pool, n, g)
<1> DEFINE T == {j \in Nat : \E g : IsNumbering(rows, file, pool, j, g)}
<1>1. 0 \in T
  <2> DEFINE g == [m \in 1 .. 0 |-> None]
  <2>1. g = [m \in 1 .. 0 |-> NumberGiven(rows, file, pool, {g[i] : i \in 1 .. m - 1}, m)]
    OBVIOUS
  <2> HIDE DEF g
  <2>2. IsNumbering(rows, file, pool, 0, g)
    BY <2>1, Zenon DEF IsNumbering
  <2> QED  BY <2>2
<1>2. ASSUME NEW j \in Nat, j \in T PROVE j + 1 \in T
  <2>1. PICK g : IsNumbering(rows, file, pool, j, g)
    BY <1>2
  <2> DEFINE last == NumberGiven(rows, file, pool, {g[i] : i \in 1 .. j}, j + 1)
             longer == [m \in 1 .. j + 1 |-> IF m = j + 1 THEN last ELSE g[m]]
             next == [m \in 1 .. j + 1 |->
                   NumberGiven(rows, file, pool, {longer[i] : i \in 1 .. m - 1}, m)]
  <2>2. ASSUME NEW m \in 1 .. j + 1 PROVE longer[m] = next[m]
    <3>1. {longer[i] : i \in 1 .. m - 1} = {g[i] : i \in 1 .. m - 1}
      <4>1. \A i \in 1 .. m - 1 : longer[i] = g[i]
        OBVIOUS
      <4> HIDE DEF longer
      <4> QED  BY <4>1
    <3>2. next[m] = NumberGiven(rows, file, pool, {g[i] : i \in 1 .. m - 1}, m)
      <4>1. next[m] = NumberGiven(rows, file, pool, {longer[i] : i \in 1 .. m - 1}, m)
        BY Zenon
      <4> HIDE DEF next, longer
      <4> QED  BY <3>1, <4>1
    <3>3. CASE m = j + 1
      <4>1. longer[m] = last /\ m - 1 = j
        BY <3>3
      <4> HIDE DEF next, longer
      <4> QED  BY <3>2, <3>3, <4>1
    <3>4. CASE m # j + 1
      <4>1. m \in 1 .. j /\ longer[m] = g[m]
        BY <3>4
      <4>2. g[m] = NumberGiven(rows, file, pool, {g[i] : i \in 1 .. m - 1}, m)
        BY <2>1, <4>1, Zenon DEF IsNumbering
      <4> HIDE DEF next, longer
      <4> QED  BY <3>2, <4>1, <4>2
    <3> QED  BY <3>3, <3>4
  <2>3. longer = next
    BY <2>2
  <2> HIDE DEF longer
  <2>4. IsNumbering(rows, file, pool, j + 1, longer)
    BY <2>3, Zenon DEF IsNumbering
  <2> QED  BY <2>4
<1> HIDE DEF T
<1>3. n \in T
  BY <1>1, <1>2, NatSetInduction
<1> QED  BY <1>3 DEF T

\* Each row's number comes from where the plan says.
LEMMA PlannedNumbersAre ==
  ASSUME NEW rows, NEW file, NEW pool, NEW num, num = PlannedNumbers(rows, file, pool),
         NEW n \in Nat, DOMAIN rows = 1 .. n
  PROVE  \A m \in 1 .. n :
           num[m] = NumberGiven(rows, file, pool, {num[i] : i \in 1 .. m - 1}, m)
<1>1. num = CHOOSE g : g = [m \in 1 .. n |->
                 IF rows[m].num # None THEN rows[m].num
                 ELSE IF NumberOf(file, rows[m].table) # None THEN NumberOf(file, rows[m].table)
                 ELSE FirstFree(pool, Numbers(file) \cup DbNumbers(rows)
                                      \cup {g[i] : i \in 1 .. m - 1})]
  BY DEF PlannedNumbers
<1>2. num = CHOOSE g : IsNumbering(rows, file, pool, n, g)
  BY <1>1, Zenon DEF NumberGiven, IsNumbering
<1>3. IsNumbering(rows, file, pool, n, num)
  BY <1>2, NumberingExists
<1> QED  BY <1>3, Zenon DEF IsNumbering

-----------------------------------------------------------------------------
(* Files of which parse_rt_tables keeps every line.                        *)

Clean(file) ==
  /\ IsSequence(file)
  /\ \A n \in DOMAIN file : file[n].num \in Nat
  /\ \A m, n \in DOMAIN file :
       file[m].name = file[n].name \/ file[m].num = file[n].num => m = n

\* The file gives the number to the name.
Lists(file, name, num) == \E n \in DOMAIN file : file[n].name = name /\ file[n].num = num

LEMMA CleanParsed ==
  ASSUME NEW file, Clean(file)
  PROVE  Parsed(file) = {file[n] : n \in DOMAIN file}
<1>1. Len(file) \in Nat /\ DOMAIN file = 1 .. Len(file)
  BY DEF Clean, IsSequence
<1>2. PICK g : IsParsing(file, Len(file), g) /\ Parsed(file) = g[Len(file)]
  BY <1>1, ParsedIs
<1>. DEFINE S == {j \in Nat : j <= Len(file) => g[j] = {file[n] : n \in 1 .. j}}
<1>3. 0 \in S
  <2>1. g[0] = {}
    BY <1>1, <1>2 DEF IsParsing
  <2>. QED  BY <2>1
<1>4. ASSUME NEW j \in Nat, j \in S PROVE j + 1 \in S
  <2>. SUFFICES ASSUME j + 1 <= Len(file) PROVE g[j + 1] = {file[n] : n \in 1 .. j + 1}
    OBVIOUS
  <2>1. g[j] = {file[n] : n \in 1 .. j}
    BY <1>1, <1>4
  <2>2. j + 1 \in 1 .. Len(file) /\ (j + 1) - 1 = j /\ j + 1 # 0
    BY <1>1
  <2>3. g[j + 1] = IF \E other \in g[j] : other.name = file[j + 1].name
                                          \/ other.num = file[j + 1].num
                   THEN g[j]
                   ELSE g[j] \cup {file[j + 1]}
    <3>1. j + 1 \in 0 .. Len(file)
      BY <2>2, <1>1
    <3>2. g[j + 1] = IF j + 1 = 0
                     THEN {}
                     ELSE IF \E other \in g[(j + 1) - 1] : other.name = file[j + 1].name
                                                          \/ other.num = file[j + 1].num
                          THEN g[(j + 1) - 1]
                          ELSE g[(j + 1) - 1] \cup {file[j + 1]}
      BY <1>2, <3>1 DEF IsParsing
    <3>. QED  BY <3>2, <2>2
  <2>4. ASSUME NEW other \in g[j]
        PROVE  ~ (other.name = file[j + 1].name \/ other.num = file[j + 1].num)
    <3>1. PICK n \in 1 .. j : other = file[n]
      BY <2>1, <2>4
    <3>2. n # j + 1 /\ n \in DOMAIN file /\ j + 1 \in DOMAIN file
      BY <1>1, <2>2
    <3>. QED  BY <3>1, <3>2 DEF Clean
  <2>5. g[j + 1] = g[j] \cup {file[j + 1]}
    BY <2>3, <2>4
  <2>6. 1 .. j + 1 = (1 .. j) \cup {j + 1}
    OBVIOUS
  <2>. QED  BY <2>1, <2>5, <2>6
<1>. HIDE DEF S
<1>5. Len(file) \in S
  BY <1>1, <1>3, <1>4, NatSetInduction
<1>. QED  BY <1>1, <1>2, <1>5 DEF S

\* The dictionary of a clean file, and its numbers, are its lines.
LEMMA CleanNumbers ==
  ASSUME NEW file, Clean(file)
  PROVE  /\ \A name, num : Lists(file, name, num) => NumberOf(file, name) = num
         /\ \A name : NumberOf(file, name) # None => Lists(file, name, NumberOf(file, name))
         /\ \A num : num \in Numbers(file) <=> \E name : Lists(file, name, num)
         /\ \A name, num : Lists(file, name, num) => num \in Nat /\ num # None
<1>1. Parsed(file) = {file[n] : n \in DOMAIN file}
  BY CleanParsed
<1>2. ASSUME NEW n \in DOMAIN file PROVE NumberOf(file, file[n].name) = file[n].num
  <2>1. \E line \in Parsed(file) : line.name = file[n].name
    BY <1>1
  <2>2. \A line \in Parsed(file) : line.name = file[n].name => line = file[n]
    BY <1>1 DEF Clean
  <2>3. (CHOOSE line \in Parsed(file) : line.name = file[n].name) = file[n]
    BY <2>1, <2>2
  <2>. QED  BY <2>1, <2>3 DEF NumberOf
<1>3. ASSUME NEW name, NumberOf(file, name) # None
      PROVE  Lists(file, name, NumberOf(file, name))
  <2>1. PICK line \in Parsed(file) : line.name = name
    BY <1>3 DEF NumberOf
  <2>2. PICK n \in DOMAIN file : line = file[n]
    BY <1>1
  <2>. QED  BY <1>2, <2>1, <2>2 DEF Lists
<1>4. \A num : num \in Numbers(file) <=> \E name : Lists(file, name, num)
  BY <1>1 DEF Numbers, Lists
<1>5. None \notin Nat
  BY TunnelAssumption
<1>. QED  BY <1>2, <1>3, <1>4, <1>5 DEF Lists, Clean

\* A line that is new by name and number.
LEMMA CleanAppend ==
  ASSUME NEW file, Clean(file), NEW line, line.num \in Nat,
         line.num \notin Numbers(file), NumberOf(file, line.name) = None
  PROVE  /\ Clean(Append(file, line))
         /\ \A name, num : Lists(Append(file, line), name, num)
              <=> Lists(file, name, num) \/ (name = line.name /\ num = line.num)
<1>1. \A n \in DOMAIN file : file[n].name # line.name /\ file[n].num # line.num
  <2>1. \A n \in DOMAIN file : Lists(file, file[n].name, file[n].num)
    BY DEF Lists
  <2>. QED  BY <2>1, CleanNumbers
<1>2. PICK S : file \in Seq(S)
  BY DEF Clean, IsSequence
<1>3. /\ Append(file, line) \in Seq(S \cup {line})
      /\ DOMAIN Append(file, line) = DOMAIN file \cup {Len(file) + 1}
      /\ Len(file) + 1 \notin DOMAIN file
      /\ Append(file, line)[Len(file) + 1] = line
      /\ \A n \in DOMAIN file : Append(file, line)[n] = file[n]
  BY <1>2
<1>. DEFINE new == Append(file, line)
<1>. HIDE DEF new
<1>4. Clean(new)
  BY <1>1, <1>3 DEF Clean, IsSequence, new
<1>5. \A name, num : Lists(new, name, num)
        <=> Lists(file, name, num) \/ (name = line.name /\ num = line.num)
  BY <1>3 DEF Lists, new
<1>. QED  BY <1>4, <1>5 DEF new

\* Without one of the lines.
LEMMA CleanRemove ==
  ASSUME NEW file, Clean(file), NEW n \in DOMAIN file
  PROVE  /\ Clean(RemoveAt(file, n))
         /\ \A name, num : Lists(RemoveAt(file, n), name, num)
              <=> Lists(file, name, num) /\ name # file[n].name
<1>1. PICK S : file \in Seq(S)
  BY DEF Clean, IsSequence
<1>2. /\ Len(file) \in Nat /\ DOMAIN file = 1 .. Len(file) /\ n \in 1 .. Len(file)
  BY <1>1
<1>. DEFINE front == SubSeq(file, 1, n - 1)
            back == SubSeq(file, n + 1, Len(file))
            new == front \o back
<1>3. /\ front \in Seq(S) /\ Len(front) = n - 1
      /\ \A i \in 1 .. n - 1 : front[i] = file[i]
  <2>1. n - 1 \in 0 .. Len(file) /\ 1 \in 1 .. Len(file) + 1
    BY <1>2
  <2>. QED  BY <1>1, <1>2, <2>1, SubSeqProperties
<1>4. /\ back \in Seq(S) /\ Len(back) = Len(file) - n
      /\ \A i \in 1 .. Len(file) - n : back[i] = file[n + i]
  <2>1. n + 1 \in 1 .. Len(file) + 1 /\ Len(file) \in n .. Len(file)
    BY <1>2
  <2>. QED  BY <1>1, <1>2, <2>1, SubSeqProperties, SMTT(30)
<1>. HIDE DEF front, back
<1>5. /\ new \in Seq(S) /\ DOMAIN new = 1 .. Len(file) - 1
      /\ \A i \in 1 .. Len(file) - 1 : new[i] = IF i < n THEN file[i] ELSE file[i + 1]
  <2>1. new \in Seq(S) /\ DOMAIN new = 1 .. Len(file) - 1
    <3>1. new \in Seq(S) /\ Len(new) = Len(front) + Len(back)
      BY <1>3, <1>4, ConcatProperties
    <3>2. Len(new) = Len(file) - 1
      BY <1>2, <1>3, <1>4, <3>1
    <3>. QED  BY <3>1, <3>2
  <2>. HIDE DEF new
  <2>0. \A i \in 1 .. Len(front) + Len(back) :
          new[i] = IF i <= Len(front) THEN front[i] ELSE back[i - Len(front)]
    BY <1>3, <1>4, ConcatProperties DEF new
  <2>2. ASSUME NEW i \in 1 .. Len(file) - 1
        PROVE  new[i] = IF i < n THEN file[i] ELSE file[i + 1]
    <3>0. i \in 1 .. Len(front) + Len(back) /\ Len(front) = n - 1
      BY <1>2, <1>3, <1>4
    <3>1. CASE i < n
      BY <1>2, <1>3, <2>0, <3>0, <3>1
    <3>2. CASE ~ (i < n)
      <4>1. new[i] = back[i - (n - 1)] /\ i - (n - 1) \in 1 .. Len(file) - n
        BY <1>2, <2>0, <3>0, <3>2
      <4>2. n + (i - (n - 1)) = i + 1
        BY <1>2
      <4>. QED  BY <1>4, <3>2, <4>1, <4>2
    <3>. QED  BY <3>1, <3>2
  <2>. QED  BY <2>1, <2>2
<1>6. RemoveAt(file, n) = new
  BY DEF RemoveAt, front, back
<1>. HIDE DEF new
\* Where a line of the new file was in the old one.
<1>. DEFINE Was(i) == IF i < n THEN i ELSE i + 1
<1>7. /\ \A i \in DOMAIN new : Was(i) \in DOMAIN file /\ Was(i) # n /\ new[i] = file[Was(i)]
      /\ \A i, j \in DOMAIN new : Was(i) = Was(j) => i = j
      /\ \A i \in DOMAIN file : i # n => \E j \in DOMAIN new : Was(j) = i
  <2>1. ASSUME NEW i \in DOMAIN new
        PROVE  Was(i) \in DOMAIN file /\ Was(i) # n /\ new[i] = file[Was(i)]
    BY <1>2, <1>5
  <2>2. ASSUME NEW i \in DOMAIN new, NEW j \in DOMAIN new, Was(i) = Was(j) PROVE i = j
    BY <1>2, <1>5, <2>2
  <2>3. ASSUME NEW i \in DOMAIN file, i # n PROVE \E j \in DOMAIN new : Was(j) = i
    <3>1. CASE i < n
      BY <1>2, <1>5, <3>1
    <3>2. CASE i > n
      <4>1. i - 1 \in DOMAIN new /\ Was(i - 1) = i
        BY <1>2, <1>5, <3>2
      <4>. QED  BY <4>1
    <3>. QED  BY <1>2, <2>3, <3>1, <3>2
  <2>. QED  BY <2>1, <2>2, <2>3
<1>. HIDE DEF Was
<1>8. Clean(new)
  BY <1>5, <1>7 DEF Clean, IsSequence
<1>9. ASSUME NEW name, NEW num
      PROVE  Lists(new, name, num) <=> Lists(file, name, num) /\ name # file[n].name
  BY <1>7 DEF Lists, Clean
<1>. QED  BY <1>6, <1>8, <1>9

\* Everything that one file lists another one lists too.
ListsAll(new, old) == \A name, num : Lists(old, name, num) => Lists(new, name, num)

\* The first n rows' tables are listed.
Covers(lines, rows, n) == \A m \in 1 .. n : \E num : Lists(lines, rows[m].table, num)

\* A number could not be had.
Gap(lines) == IsSequence(lines) /\ \E n \in DOMAIN lines : lines[n].num = None

LEMMA GapAppend ==
  ASSUME NEW lines, IsSequence(lines), NEW line, Gap(lines) \/ line.num = None
  PROVE  Gap(Append(lines, line))
<1>1. PICK S : lines \in Seq(S)
  BY DEF IsSequence
<1>2. /\ Append(lines, line) \in Seq(S \cup {line})
      /\ DOMAIN Append(lines, line) = DOMAIN lines \cup {Len(lines) + 1}
      /\ Append(lines, line)[Len(lines) + 1] = line
      /\ \A n \in DOMAIN lines : Append(lines, line)[n] = lines[n]
  BY <1>1
<1>. DEFINE new == Append(lines, line)
<1>. HIDE DEF new
<1>3. Gap(new)
  BY <1>2 DEF Gap, IsSequence, new
<1>. QED  BY <1>3 DEF new

LEMMA WithTableForm ==
  ASSUME NEW lines, Clean(lines), NEW row, row.num \in Nat \cup {None},
         NEW pool, pool \subseteq Nat,
         NEW new, new = WithTable(lines, row, pool)
  PROVE  \/ Gap(new)
         \/ Clean(new) /\ ListsAll(new, lines) /\ \E num : Lists(new, row.table, num)
<1>1. CASE NumberOf(lines, row.table) # None
  <2>1. new = lines
    BY <1>1 DEF WithTable
  <2>. QED  BY <1>1, <2>1, CleanNumbers DEF ListsAll
<1>2. CASE NumberOf(lines, row.table) = None
  <2>1. PICK num : num = IF row.num # None /\ row.num \notin Numbers(lines)
                         THEN row.num
                         ELSE FirstFree(pool, Numbers(lines))
    OBVIOUS
  <2>2. new = Append(lines, [name |-> row.table, num |-> num])
    BY <1>2, <2>1 DEF WithTable
  <2>3. num = None \/ (num \in Nat /\ num \notin Numbers(lines))
    BY <2>1, FirstFreeIs
  <2>4. PICK line : line = [name |-> row.table, num |-> num]
    OBVIOUS
  <2>5. line.name = row.table /\ line.num = num
    BY <2>4
  <2>6. new = Append(lines, line)
    BY <2>2, <2>4
  <2>7. CASE num = None
    BY <2>5, <2>6, <2>7, GapAppend DEF Clean
  <2>8. CASE num \in Nat /\ num \notin Numbers(lines)
    <3>1. /\ Clean(new)
          /\ \A name, n : Lists(new, name, n)
               <=> Lists(lines, name, n) \/ (name = line.name /\ n = line.num)
      BY <1>2, <2>5, <2>6, <2>8, CleanAppend
    <3>. QED  BY <2>5, <3>1 DEF ListsAll
  <2>. QED  BY <2>3, <2>7, <2>8
<1>. QED  BY <1>1, <1>2

LEMMA WithTableGap ==
  ASSUME NEW lines, Gap(lines), NEW row, NEW pool
  PROVE  Gap(WithTable(lines, row, pool))
<1>1. PICK line : line = [name |-> row.table,
                          num |-> IF row.num # None /\ row.num \notin Numbers(lines)
                                  THEN row.num
                                  ELSE FirstFree(pool, Numbers(lines))]
  OBVIOUS
<1>2. WithTable(lines, row, pool) \in {lines, Append(lines, line)}
  BY <1>1 DEF WithTable
<1>3. Gap(Append(lines, line))
  BY GapAppend DEF Gap
<1>. QED  BY <1>2, <1>3

\* _stage_rt_tables, unless a number cannot be had: the file's lines as they
\* are, and one for each row's table.
LEMMA MergedForm ==
  ASSUME NEW file, Clean(file), NEW rows, IsSequence(rows),
         \A n \in DOMAIN rows : rows[n].num \in Nat \cup {None},
         NEW pool, pool \subseteq Nat,
         NEW merged, merged = MergedTables(file, rows, pool),
         \A n \in DOMAIN merged : merged[n].num # None
  PROVE  Clean(merged) /\ ListsAll(merged, file) /\ Covers(merged, rows, Len(rows))
<1>1. Len(rows) \in Nat /\ DOMAIN rows = 1 .. Len(rows)
  BY DEF IsSequence
<1>2. PICK g : IsMerging(file, rows, pool, Len(rows), g) /\ merged = g[Len(rows)]
  BY <1>1, MergedIs
<1>. DEFINE Fine(j) == \/ Gap(g[j])
                       \/ Clean(g[j]) /\ ListsAll(g[j], file) /\ Covers(g[j], rows, j)
            S == {j \in Nat : j <= Len(rows) => Fine(j)}
<1>3. 0 \in S
  <2>1. g[0] = file
    BY <1>1, <1>2 DEF IsMerging
  <2>. QED  BY <2>1 DEF ListsAll, Covers
<1>4. ASSUME NEW j \in Nat, j \in S PROVE j + 1 \in S
  <2>. SUFFICES ASSUME j + 1 <= Len(rows) PROVE Fine(j + 1)
    OBVIOUS
  <2>1. Fine(j)
    BY <1>1, <1>4
  <2>2. /\ j + 1 \in 0 .. Len(rows) /\ (j + 1) - 1 = j /\ j + 1 # 0
        /\ j + 1 \in DOMAIN rows
    BY <1>1
  <2>3. g[j + 1] = WithTable(g[j], rows[j + 1], pool)
    BY <1>2, <2>2 DEF IsMerging
  <2>4. PICK old, new, row : old = g[j] /\ new = g[j + 1] /\ row = rows[j + 1]
    OBVIOUS
  <2>5. new = WithTable(old, row, pool) /\ row.num \in Nat \cup {None}
    BY <2>2, <2>3, <2>4
  <2>6. CASE Gap(old)
    BY <2>4, <2>5, <2>6, WithTableGap
  <2>7. CASE Clean(old) /\ ListsAll(old, file) /\ Covers(old, rows, j)
    <3>1. \/ Gap(new)
          \/ Clean(new) /\ ListsAll(new, old) /\ \E num : Lists(new, row.table, num)
      BY <2>5, <2>7, WithTableForm
    <3>2. ListsAll(new, old) => ListsAll(new, file)
      BY <2>7 DEF ListsAll
    <3>3. ASSUME ListsAll(new, old), \E num : Lists(new, row.table, num)
          PROVE  Covers(new, rows, j + 1)
      <4>. SUFFICES ASSUME NEW m \in 1 .. j + 1 PROVE \E num : Lists(new, rows[m].table, num)
        BY DEF Covers
      <4>1. CASE m = j + 1
        BY <2>4, <3>3, <4>1
      <4>2. CASE m # j + 1
        <5>1. m \in 1 .. j
          BY <4>2
        <5>. QED  BY <2>7, <3>3, <5>1 DEF Covers, ListsAll
      <4>. QED  BY <4>1, <4>2
    <3>4. Gap(new) \/ (Clean(new) /\ ListsAll(new, file) /\ Covers(new, rows, j + 1))
      BY <3>1, <3>2, <3>3
    <3>. QED  BY <2>4, <3>4
  <2>. QED  BY <2>1, <2>4, <2>6, <2>7
<1>. HIDE DEF S
<1>5. Len(rows) \in S
  BY <1>1, <1>3, <1>4, NatSetInduction
<1>6. Fine(Len(rows))
  BY <1>1, <1>5 DEF S
<1>7. ~ Gap(merged)
  BY DEF Gap
<1>. QED  BY <1>2, <1>6, <1>7

-----------------------------------------------------------------------------
(* Types, and what belongs to what.                                        *)

TableNames == UNION {{names[i] : i \in Names} : names \in TableNamings}

\* A server, a user and a route belong to a row.
Referenced(store) ==
  \A i \in Names :
    store.peer[i] # None \/ store.bound[i] # "unbound" \/ i \in store.routes
      => i \in Registered(store)

Typed(store) == StoreTypeOK(store) /\ Referenced(store)

\* The world is such as the planners take it.
WorldTyped ==
  /\ kernel \in [Names -> Hosts \cup {None}]
  /\ accounts \subseteq Names
  /\ seen \in [Names -> Hosts \cup {None}]
  /\ Clean(live)

LEMMA RowTypeIs ==
  ASSUME NEW row
  PROVE  row \in RowType <=>
           /\ row \in [iface : Names, table : TableNames, num : Nat \cup {None},
                       addr : Hosts \cup {None}, pub : Machines \cup {None}]
  BY DEF RowType, TableNames

\* An update of a row.
LEMMA RowChanged ==
  ASSUME NEW row \in RowType
  PROVE  /\ \A x \in Nat \cup {None} : [row EXCEPT !.num = x] \in RowType
         /\ \A x \in Hosts \cup {None} : [row EXCEPT !.addr = x] \in RowType
         /\ \A x \in Machines \cup {None} : [row EXCEPT !.pub = x] \in RowType
         /\ \A x \in TableNames : [row EXCEPT !.table = x, !.addr = None] \in RowType
  BY DEF RowType, TableNames

LEMMA FieldsTyped ==
  ASSUME NEW store, WellFormed(store), Typed(store), NEW i \in Registered(store)
  PROVE  /\ \A x \in OtherKeys \cup {SeedKey} : Typed([store EXCEPT !.peer[i] = x])
         /\ \A x \in {"no uid", "uid"} : Typed([store EXCEPT !.bound[i] = x])
         /\ Names \subseteq Registered(store) => Typed([store EXCEPT !.routes = Names])
<1>1. ASSUME NEW new, new.rows = store.rows PROVE Registered(new) = Registered(store)
  BY <1>1 DEF Registered, Rows
<1>2. ASSUME NEW x \in OtherKeys \cup {SeedKey} PROVE Typed([store EXCEPT !.peer[i] = x])
  <2>1. PICK new : new = [store EXCEPT !.peer[i] = x]
    OBVIOUS
  <2>2. /\ new.rows = store.rows /\ new.schema = store.schema /\ new.bound = store.bound
        /\ new.routes = store.routes
        /\ new.peer = [store.peer EXCEPT ![i] = x]
    BY <2>1 DEF WellFormed
  <2>3. /\ new.peer \in [Names -> OtherKeys \cup {SeedKey, None}]
        /\ \A j \in Names : new.peer[j] # None => store.peer[j] # None \/ j = i
    BY <2>2 DEF Typed, StoreTypeOK
  <2>4. Registered(new) = Registered(store)
    BY <1>1, <2>2
  <2>5. StoreTypeOK(new)
    BY <2>2, <2>3 DEF Typed, StoreTypeOK
  <2>6. Referenced(new)
    BY <2>2, <2>3, <2>4 DEF Typed, Referenced
  <2>. QED  BY <2>1, <2>5, <2>6 DEF Typed
<1>3. ASSUME NEW x \in {"no uid", "uid"} PROVE Typed([store EXCEPT !.bound[i] = x])
  <2>1. PICK new : new = [store EXCEPT !.bound[i] = x]
    OBVIOUS
  <2>2. /\ new.rows = store.rows /\ new.schema = store.schema /\ new.peer = store.peer
        /\ new.routes = store.routes
        /\ new.bound = [store.bound EXCEPT ![i] = x]
    BY <2>1 DEF WellFormed
  <2>. QED  BY <1>1, <2>1, <2>2, ZenonT(40) DEF Typed, StoreTypeOK, Referenced
<1>4. ASSUME Names \subseteq Registered(store) PROVE Typed([store EXCEPT !.routes = Names])
  <2>1. PICK new : new = [store EXCEPT !.routes = Names]
    OBVIOUS
  <2>2. /\ new.rows = store.rows /\ new.schema = store.schema /\ new.peer = store.peer
        /\ new.bound = store.bound /\ new.routes = Names
    BY <2>1 DEF WellFormed
  <2>. QED  BY <1>1, <1>4, <2>1, <2>2 DEF Typed, StoreTypeOK, Referenced
<1>. QED  BY <1>2, <1>3, <1>4

LEMMA SchemaTyped ==
  ASSUME NEW store, WellFormed(store), Typed(store), NEW x \in {"partial", "loaded"}
  PROVE  Typed([store EXCEPT !.schema = x])
<1>1. PICK new : new = [store EXCEPT !.schema = x]
  OBVIOUS
<1>2. /\ new.rows = store.rows /\ new.schema = x /\ new.peer = store.peer
      /\ new.bound = store.bound /\ new.routes = store.routes
  BY <1>1 DEF WellFormed
<1>3. Registered(new) = Registered(store)
  BY <1>2 DEF Registered, Rows
<1>. QED  BY <1>1, <1>2, <1>3 DEF Typed, StoreTypeOK, Referenced

\* Other rows for at least the same interfaces.
LEMMA RowsTyped ==
  ASSUME NEW store, WellFormed(store), Typed(store), NEW rows \in Seq(RowType),
         \A n \in DOMAIN store.rows :
           n \in DOMAIN rows /\ rows[n].iface = store.rows[n].iface
  PROVE  Typed([store EXCEPT !.rows = rows])
<1>1. PICK new : new = [store EXCEPT !.rows = rows]
  OBVIOUS
<1>2. /\ new.rows = rows /\ new.schema = store.schema /\ new.peer = store.peer
      /\ new.bound = store.bound /\ new.routes = store.routes
  BY <1>1 DEF WellFormed
<1>3. Registered(store) \subseteq Registered(new)
  BY <1>2 DEF Registered, Rows
<1>. QED  BY <1>1, <1>2, <1>3 DEF Typed, StoreTypeOK, Referenced

LEMMA RowsCount ==
  ASSUME NEW store, WellFormed(store)
  PROVE  Cardinality(Registered(store)) = Len(store.rows)
<1>1. Len(store.rows) \in Nat /\ DOMAIN store.rows = 1 .. Len(store.rows)
  BY DEF WellFormed, IsSequence
<1>. DEFINE f == [n \in 1 .. Len(store.rows) |-> store.rows[n].iface]
<1>2. Registered(store) = {store.rows[n].iface : n \in 1 .. Len(store.rows)}
  BY <1>1 DEF Registered, Rows
<1>3. f \in Bijection(1 .. Len(store.rows), Registered(store))
  <2>1. f \in [1 .. Len(store.rows) -> Registered(store)]
    BY <1>2
  <2>2. \A m, n \in 1 .. Len(store.rows) : f[m] = f[n] => m = n
    BY <1>1 DEF WellFormed
  <2>3. \A i \in Registered(store) : \E n \in 1 .. Len(store.rows) : f[n] = i
    BY <1>2
  <2>. QED  BY <2>1, <2>2, <2>3 DEF Bijection, Injection, Surjection, IsInjective
<1>. QED  BY <1>1, <1>3, FS_CountingElements DEF ExistsBijection

LEMMA PoolsForm ==
  /\ TableNumbers \subseteq Nat /\ Hosts \subseteq Nat
  /\ None \notin Nat \cup Machines \cup OtherKeys \cup {SeedKey}
  BY TunnelAssumption

\* The numbers that plan_rt_id_assignments gives.
LEMMA NumberTyped ==
  ASSUME NEW rows, Clean(live), NEW before, NEW m, rows[m].num \in Nat \cup {None}
  PROVE  NumberGiven(rows, live, TableNumbers, before, m) \in Nat \cup {None}
<1>1. NumberOf(live, rows[m].table) # None => NumberOf(live, rows[m].table) \in Nat
  BY CleanNumbers
<1>2. PICK used : used = Numbers(live) \cup DbNumbers(rows) \cup before
  OBVIOUS
<1>3. FirstFree(TableNumbers, used) \in Nat \cup {None}
  BY PoolsForm, FirstFreeIs
<1>. QED  BY <1>1, <1>2, <1>3 DEF NumberGiven

LEMMA AddressTyped ==
  ASSUME NEW rows, kernel \in [Names -> Hosts \cup {None}], NEW before, NEW m,
         rows[m].addr \in Hosts \cup {None}, rows[m].iface \in Names
  PROVE  AddressGiven(rows, kernel, Hosts, before, m) \in Hosts \cup {None}
<1>1. PICK used : used = UsedHosts(rows, kernel) \cup before
  OBVIOUS
<1>2. FirstFree(Hosts, used) \in Hosts \cup {None}
  BY PoolsForm, FirstFreeIs
<1>. QED  BY <1>1, <1>2 DEF AddressGiven

LEMMA NumberedTyped ==
  ASSUME NEW rows \in Seq(RowType), Clean(live),
         NEW new, new = Numbered(rows, live, TableNumbers)
  PROVE  /\ new \in Seq(RowType) /\ DOMAIN new = DOMAIN rows
         /\ \A n \in DOMAIN rows :
              /\ new[n].iface = rows[n].iface /\ new[n].table = rows[n].table
              /\ new[n].addr = rows[n].addr
              /\ new[n].num = PlannedNumbers(rows, live, TableNumbers)[n]
<1>1. PICK num : num = PlannedNumbers(rows, live, TableNumbers)
  OBVIOUS
<1>2. DOMAIN rows = 1 .. Len(rows) /\ Len(rows) \in Nat
  OBVIOUS
<1>3. \A n \in DOMAIN rows : rows[n] \in RowType
  OBVIOUS
<1>4. ASSUME NEW n \in DOMAIN rows PROVE num[n] \in Nat \cup {None}
  <2>1. num[n] = NumberGiven(rows, live, TableNumbers, {num[i] : i \in 1 .. n - 1}, n)
    BY <1>1, <1>2, PlannedNumbersAre
  <2>2. rows[n].num \in Nat \cup {None}
    BY <1>3 DEF RowType
  <2>. QED  BY <2>1, <2>2, NumberTyped
<1>. DEFINE row(n) == [rows[n] EXCEPT !.num = num[n]]
<1>5. new = [n \in DOMAIN rows |-> row(n)]
  BY <1>1 DEF Numbered
<1>6. \A n \in DOMAIN rows : row(n) \in RowType
  BY <1>3, <1>4, RowChanged
<1>7. \A n \in DOMAIN rows :
        /\ row(n).iface = rows[n].iface /\ row(n).table = rows[n].table
        /\ row(n).addr = rows[n].addr /\ row(n).num = num[n]
  BY <1>3 DEF RowType
<1>. HIDE DEF row
<1>8. new \in Seq(RowType) /\ DOMAIN new = DOMAIN rows
  BY <1>2, <1>5, <1>6
<1>. QED  BY <1>1, <1>5, <1>7, <1>8

LEMMA AddressedTyped ==
  ASSUME NEW rows \in Seq(RowType), kernel \in [Names -> Hosts \cup {None}],
         NEW new, new = Addressed(rows, kernel, Hosts)
  PROVE  /\ new \in Seq(RowType) /\ DOMAIN new = DOMAIN rows
         /\ \A n \in DOMAIN rows :
              /\ new[n].iface = rows[n].iface /\ new[n].table = rows[n].table
              /\ new[n].num = rows[n].num
              /\ new[n].addr = PlannedAddresses(rows, kernel, Hosts)[n]
<1>1. PICK addr : addr = PlannedAddresses(rows, kernel, Hosts)
  OBVIOUS
<1>2. DOMAIN rows = 1 .. Len(rows) /\ Len(rows) \in Nat
  OBVIOUS
<1>3. \A n \in DOMAIN rows : rows[n] \in RowType
  OBVIOUS
<1>4. ASSUME NEW n \in DOMAIN rows PROVE addr[n] \in Hosts \cup {None}
  <2>1. addr[n] = AddressGiven(rows, kernel, Hosts, {addr[i] : i \in 1 .. n - 1}, n)
    BY <1>1, <1>2, PlannedAddressesAre
  <2>2. rows[n].addr \in Hosts \cup {None} /\ rows[n].iface \in Names
    BY <1>3 DEF RowType
  <2>. QED  BY <2>1, <2>2, AddressTyped
<1>. DEFINE row(n) == [rows[n] EXCEPT !.addr = addr[n]]
<1>5. new = [n \in DOMAIN rows |-> row(n)]
  BY <1>1 DEF Addressed
<1>6. \A n \in DOMAIN rows : row(n) \in RowType
  BY <1>3, <1>4, RowChanged
<1>7. \A n \in DOMAIN rows :
        /\ row(n).iface = rows[n].iface /\ row(n).table = rows[n].table
        /\ row(n).num = rows[n].num /\ row(n).addr = addr[n]
  BY <1>3 DEF RowType
<1>. HIDE DEF row
<1>8. new \in Seq(RowType) /\ DOMAIN new = DOMAIN rows
  BY <1>2, <1>5, <1>6
<1>. QED  BY <1>1, <1>5, <1>7, <1>8

\* The stores that are written have their types.
LEMMA PlansTyped ==
  ASSUME NEW store, WellFormed(store), Typed(store), WorldTyped
  PROVE  Typed(WithNumbers(store)) /\ Typed(WithAddresses(store))
<1>0. store.rows \in Seq(RowType)
  BY DEF Typed, StoreTypeOK
<1>1. Typed(WithNumbers(store))
  <2>1. PICK rows : rows = Numbered(store.rows, live, TableNumbers)
    OBVIOUS
  <2>2. /\ rows \in Seq(RowType)
        /\ \A n \in DOMAIN store.rows :
             n \in DOMAIN rows /\ rows[n].iface = store.rows[n].iface
    BY <1>0, <2>1, NumberedTyped DEF WorldTyped
  <2>3. WithNumbers(store) = [store EXCEPT !.rows = rows]
    BY <2>1 DEF WithNumbers, WellFormed
  <2>. QED  BY <2>2, <2>3, RowsTyped
<1>2. Typed(WithAddresses(store))
  <2>1. PICK rows : rows = Addressed(store.rows, kernel, Hosts)
    OBVIOUS
  <2>2. /\ rows \in Seq(RowType)
        /\ \A n \in DOMAIN store.rows :
             n \in DOMAIN rows /\ rows[n].iface = store.rows[n].iface
    BY <1>0, <2>1, AddressedTyped DEF WorldTyped
  <2>3. WithAddresses(store) = [store EXCEPT !.rows = rows]
    BY <2>1 DEF WithAddresses, WellFormed
  <2>. QED  BY <2>2, <2>3, RowsTyped
<1>. QED  BY <1>1, <1>2

LEMMA PublicKeyTyped ==
  ASSUME NEW store, WellFormed(store), Typed(store), NEW m \in Machines
  PROVE  Typed(WithPublicKey(store, m))
<1>0. store.rows \in Seq(RowType)
  BY DEF Typed, StoreTypeOK
<1>. DEFINE row(n) == [store.rows[n] EXCEPT !.pub = m]
<1>1. PICK rows : rows = [n \in DOMAIN store.rows |-> row(n)]
  OBVIOUS
<1>2. WithPublicKey(store, m) = [store EXCEPT !.rows = rows]
  BY <1>1 DEF WithPublicKey, WellFormed
<1>3. \A n \in DOMAIN store.rows : row(n) \in RowType /\ row(n).iface = store.rows[n].iface
  <2>1. \A n \in DOMAIN store.rows : store.rows[n] \in RowType
    BY <1>0
  <2>2. \A n \in DOMAIN store.rows : row(n) \in RowType
    BY <2>1, RowChanged
  <2>3. \A n \in DOMAIN store.rows : row(n).iface = store.rows[n].iface
    BY <2>1 DEF RowType
  <2>. QED  BY <2>2, <2>3
<1>. HIDE DEF row
<1>4. rows \in Seq(RowType)
  BY <1>0, <1>1, <1>3
<1>. QED  BY <1>1, <1>2, <1>3, <1>4, RowsTyped

LEMMA ClientTyped ==
  ASSUME NEW store, WellFormed(store), Typed(store), NEW i \in Names, NEW table \in TableNames
  PROVE  Typed(Client(store, i, table))
<1>0. store.rows \in Seq(RowType)
  BY DEF Typed, StoreTypeOK
<1>1. CASE i \in Registered(store)
  <2>1. PICK n \in DOMAIN store.rows : store.rows[n].iface = i
    BY <1>1 DEF Registered, Rows
  <2>2. IdOf(store, i) = n
    BY <2>1 DEF IdOf, WellFormed
  <2>3. PICK row : row = [store.rows[n] EXCEPT !.table = table, !.addr = None]
    OBVIOUS
  <2>4. PICK rows : rows = [store.rows EXCEPT ![n] = row]
    OBVIOUS
  <2>5. Client(store, i, table) = [store EXCEPT !.rows = rows]
    BY <1>0, <1>1, <2>1, <2>2, <2>3, <2>4, ZenonT(40) DEF Client, WellFormed
  <2>6. store.rows[n] \in RowType
    BY <1>0, <2>1
  <2>7. row \in RowType
    BY <2>3, <2>6, RowChanged
  <2>8. row.iface = store.rows[n].iface
    BY <2>3, <2>6 DEF RowType
  <2>9. rows \in Seq(RowType) /\ DOMAIN rows = DOMAIN store.rows
    BY <1>0, <2>4, <2>7
  <2>10. \A m \in DOMAIN store.rows : rows[m].iface = store.rows[m].iface
    BY <1>0, <2>1, <2>4, <2>8
  <2>. QED  BY <2>5, <2>9, <2>10, RowsTyped
<1>2. CASE i \notin Registered(store)
  <2>1. PICK row : row = [iface |-> i, table |-> table, num |-> None, addr |-> None, pub |-> None]
    OBVIOUS
  <2>2. PICK rows : rows = Append(store.rows, row)
    OBVIOUS
  <2>3. Client(store, i, table) = [store EXCEPT !.rows = rows]
    BY <1>2, <2>1, <2>2 DEF Client
  <2>4. row \in RowType
    BY <2>1 DEF RowType, TableNames
  <2>5. /\ rows \in Seq(RowType)
        /\ \A n \in DOMAIN store.rows : n \in DOMAIN rows /\ rows[n] = store.rows[n]
    BY <1>0, <2>2, <2>4
  <2>. QED  BY <2>3, <2>5, RowsTyped
<1>. QED  BY <1>1, <1>2

\* The invariant of types.  Only the binding of a user waits for a commit, so
\* the rows are committed at every step.
LocalsTyped ==
  /\ keyfile \in [Machines -> {"none", "empty", "key"}]
  /\ pc \in Resting \cup InitSteps \cup KeySteps \cup StageSteps
  /\ naming \in TableNamings
  /\ retried \in BOOLEAN /\ ok \in BOOLEAN

StoresTyped == Typed(db) /\ Typed(work) /\ work.rows = db.rows

TypesInv == StoresTyped /\ WorldTyped /\ LocalsTyped

LEMMA EmptyTyped == Typed(EmptyStore) /\ WellFormed(EmptyStore)
<1>1. <<>> \in Seq(RowType)
  OBVIOUS
<1>. HIDE DEF RowType
<1>2. StoreTypeOK(EmptyStore)
  BY <1>1 DEF EmptyStore, StoreTypeOK
<1>3. Referenced(EmptyStore)
  BY DEF EmptyStore, Referenced
<1>. QED  BY <1>2, <1>3, EmptyGood DEF Typed, Good

LEMMA InitialTypes == Init => TypesInv
<1>. SUFFICES ASSUME Init PROVE TypesInv
  OBVIOUS
<1>1. Clean(live)
  <2>1. live \in Seq({}) /\ DOMAIN live = {}
    BY DEF Init
  <2>. QED  BY <2>1 DEF Clean, IsSequence
<1>2. StoresTyped
  BY EmptyTyped DEF Init, StoresTyped
<1>. QED  BY <1>1, <1>2 DEF Init, NoneSeen, TypesInv, WorldTyped, LocalsTyped, Resting

LEMMA StoresTypedNext ==
  ASSUME RegistryInv, TypesInv, [Next]_vars
  PROVE  StoresTyped'
<1>1. /\ WellFormed(db) /\ WellFormed(work)
      /\ Typed(db) /\ Typed(work) /\ work.rows = db.rows /\ WorldTyped
  BY DEF RegistryInv, Good, TypesInv, StoresTyped
<1>. DEFINE Fine == Typed(db') /\ Typed(work') /\ work'.rows = db'.rows
<1>2. PICK i : i = Ifaces[k]
  OBVIOUS
<1>3. i \in Names
  BY <1>2, IfacesForm DEF RegistryInv
<1>4. /\ pc \in {"server", "bind"} => i \in Registered(work)
      /\ pc = "routes" => Names \subseteq Registered(work)
  <2>1. ASSUME NEW j, Named(work, j) PROVE j \in Registered(work)
    BY <2>1 DEF Named, Registered, Rows
  <2>. QED  BY <1>2, <2>1 DEF RegistryInv, Progress, SeededAll, Seeded
<1>5. naming[i] \in TableNames
  BY <1>3 DEF TypesInv, LocalsTyped, TableNames
<1>6. ASSUME KeepsOrDrops PROVE Fine
  BY <1>1, <1>6 DEF KeepsOrDrops
<1>7. ASSUME PendsBinding PROVE Fine
  <2>1. i \in Registered(work) /\ work' = BoundTo(work, i) /\ db' = db
    BY <1>2, <1>4, <1>7 DEF PendsBinding
  <2>2. PICK x \in {"no uid", "uid"} : work' = [work EXCEPT !.bound[i] = x]
    BY <2>1 DEF BoundTo
  <2>3. Typed(work')
    <3>1. \A y \in {"no uid", "uid"} : Typed([work EXCEPT !.bound[i] = y])
      BY <1>1, <2>1, FieldsTyped
    <3>. QED  BY <2>2, <3>1
  <2>4. work'.rows = work.rows
    BY <1>1, <2>2 DEF WellFormed
  <2>. QED  BY <1>1, <2>1, <2>3, <2>4
<1>8. ASSUME NEW store, InitWrites(store) PROVE Typed(store)
  <2>1. \A x \in {"partial", "loaded"} : Typed([db EXCEPT !.schema = x])
    BY <1>1, SchemaTyped
  <2>2. Typed(Client(work, i, naming[i]))
    BY <1>1, <1>3, <1>5, ClientTyped
  <2>3. pc = "server" => Typed([work EXCEPT !.peer[i] = SeedKey])
    BY <1>1, <1>4, FieldsTyped
  <2>4. pc = "routes" => Typed([work EXCEPT !.routes = Names])
    BY <1>1, <1>3, <1>4, FieldsTyped
  <2>5. Typed(WithNumbers(work)) /\ Typed(WithAddresses(work))
    BY <1>1, PlansTyped
  <2>. QED  BY <1>1, <1>2, <1>8, <2>1, <2>2, <2>3, <2>4, <2>5 DEF InitWrites
<1>9. ASSUME NEW store, CommandWrites(store) PROVE Typed(store)
  <2>1. Typed(WithPublicKey(db, client))
    BY <1>1, PublicKeyTyped DEF RegistryInv, Keys
  <2>2. ASSUME NEW j \in Registered(db) PROVE Typed(BoundTo(db, j))
    <3>1. PICK x \in {"no uid", "uid"} : BoundTo(db, j) = [db EXCEPT !.bound[j] = x]
      BY DEF BoundTo
    <3>2. \A y \in {"no uid", "uid"} : Typed([db EXCEPT !.bound[j] = y])
      BY <1>1, FieldsTyped
    <3>. QED  BY <3>1, <3>2
  <2>3. ASSUME NEW j \in Names, NEW key \in OtherKeys, db.peer[j] # None
        PROVE  Typed([db EXCEPT !.peer[j] = key])
    <3>1. j \in Registered(db)
      BY <1>1, <2>3 DEF Typed, Referenced
    <3>. QED  BY <1>1, <3>1, FieldsTyped
  <2>4. Typed(WithNumbers(db)) /\ Typed(WithAddresses(db))
    BY <1>1, PlansTyped
  <2>. QED  BY <1>9, <2>1, <2>2, <2>3, <2>4, EmptyTyped DEF CommandWrites
<1>10. ASSUME NEW store, Saves(store) PROVE Fine
  BY <1>8, <1>9, <1>10 DEF Saves
<1>11. Fine
  BY <1>6, <1>7, <1>10, StoreForms
<1>. QED  BY <1>11 DEF StoresTyped

\* What others do to rt_tables keeps it clean, and its tunnels' lines.
LEMMA EditForm ==
  ASSUME Clean(live), NEW line \in ForeignLines, EditTables(line)
  PROVE  /\ Clean(live')
         /\ \A name \in TableNames : \A num : Lists(live', name, num) <=> Lists(live, name, num)
<1>1. line.num \in Nat /\ \A name \in TableNames : name # line.name
  BY TunnelAssumption DEF TableNames
<1>2. CASE \E n \in DOMAIN live : live[n] = line /\ live' = RemoveAt(live, n)
  BY <1>1, <1>2, CleanRemove
<1>3. CASE /\ line.num \notin Numbers(live)
           /\ NumberOf(live, line.name) = None
           /\ live' = Append(live, line)
  BY <1>1, <1>3, CleanAppend
<1>. QED  BY <1>2, <1>3 DEF EditTables

-----------------------------------------------------------------------------
(* The stage. *)

StageForm ==
  /\ DOMAIN stage = {"conf", "script", "tables", "dropin"}
  /\ DOMAIN stage.conf = Names
  /\ DOMAIN stage.dropin = Names

\* A staged rt_tables has what the live one says of the tunnels' tables.
TablesKept ==
  /\ Clean(stage.tables)
  /\ stage.tables # <<>> =>
       \A name \in TableNames : \A num : Lists(live, name, num) => Lists(stage.tables, name, num)

ConfRight(i) == stage.conf[i] = [key |-> client, peer |-> db.peer[i]]

ScriptRight(s) ==
  /\ s \in DOMAIN stage.script
  /\ DOMAIN stage.script[s] = Registered(db)
  /\ \A i \in Registered(db) : stage.script[s][i] = Prescribed(db, i)

DropinRight(i) == stage.dropin[i] = ScriptName

TablesRight == Covers(stage.tables, db.rows, Len(db.rows))

Staged ==
  \A i \in Registered(db) : ConfRight(i) /\ ScriptRight(stage.dropin[i])

\* How far a staging has come.
Staging ==
  /\ pc = "conf" => \A n \in 1 .. k - 1 : Ifaces[n] \in Registered(db) => ConfRight(Ifaces[n])
  /\ pc \in {"tables", "script", "dropin"} /\ ok => \A i \in Registered(db) : ConfRight(i)
  /\ pc \in {"tables", "script"} => k = 1
  /\ pc \in {"script", "dropin", "staged"} => TablesRight
  /\ pc = "dropin" =>
       /\ ScriptRight(ScriptName)
       /\ \A n \in 1 .. k - 1 : Ifaces[n] \in Registered(db) => DropinRight(Ifaces[n])
  /\ pc = "staged" => Staged

StageInv == StageForm /\ TablesKept /\ Staging

LEMMA EmptyClean == Clean(<<>>)
<1>1. <<>> \in Seq({}) /\ DOMAIN <<>> = {}
  OBVIOUS
<1>. QED  BY <1>1 DEF Clean, IsSequence

LEMMA InitialStage == Init => StageInv
<1>. SUFFICES ASSUME Init PROVE StageInv
  OBVIOUS
<1>1. stage = EmptyStage
  BY DEF Init
<1>2. stage.tables = <<>> /\ StageForm
  BY <1>1 DEF EmptyStage, StageForm
<1>3. TablesKept
  BY <1>2, EmptyClean DEF TablesKept
<1>. QED  BY <1>2, <1>3 DEF Init, StageInv, Staging

\* What steps do to the stage and the host's rt_tables.
LEMMA HostForms ==
  ASSUME [Next]_vars, TypesInv
  PROVE  \/ UNCHANGED <<stage, live>>
         \/ stage' = EmptyStage /\ live' = live
         \/ stage' = stage /\ stage.tables # <<>> /\ live' = stage.tables
         \/ stage' = stage /\ \E line \in ForeignLines : EditTables(line)
         \/ StageStep /\ live' = live
<1>1. ASSUME World
      PROVE  stage' = stage /\ (live' = live \/ \E line \in ForeignLines : EditTables(line))
  BY <1>1 DEF World, EditTables, EditAddress, EditAccount, Disturb
<1>2. ASSUME Command, ~WipeStage, ~InstallTables PROVE UNCHANGED <<stage, live>>
  BY <1>2 DEF Command, StartInit, Bind, SetServerKey, Register, Readdress, WipeDb,
              StartKey, StartStage, Refuse, Immediate, Issue, Begin
<1>3. ASSUME WipeStage PROVE stage' = EmptyStage /\ live' = live
  BY <1>3 DEF WipeStage, Issue
<1>4. ASSUME InstallTables PROVE stage' = stage /\ stage.tables # <<>> /\ live' = stage.tables
  BY <1>4 DEF InstallTables
<1>5. ASSUME InitStep PROVE UNCHANGED <<stage, live>>
  BY <1>5 DEF InitStep, LoadSchema, UpsertClient, UpsertServer, BindUser, SeedRoutes,
              AssignNumbers, ReconcileAddresses, CommitInit, Then, Fail, Return, At, worldVars
<1>6. ASSUME KeyStep \/ Abort PROVE UNCHANGED <<stage, live>>
  BY <1>6 DEF KeyStep, MakeKeyFile, WriteKeyFile, RecordKey, Abort, Then, Fail, At, worldVars
<1>7. ASSUME StageStep PROVE live' = live
  BY <1>7 DEF StageStep, StageConf, StageTables, StageScript, StageDropin, Stumble, WriteFails,
              At, worldVars
<1>8. ASSUME UNCHANGED vars PROVE UNCHANGED <<stage, live>>
  BY <1>8 DEF vars, worldVars
<1>. QED  BY <1>1, <1>2, <1>3, <1>4, <1>5, <1>6, <1>7, <1>8 DEF Next

\* What a step of the staging writes.
LEMMA StageWrites ==
  ASSUME StageStep
  PROVE  \/ stage' = stage
         \/ \E x : stage' = [stage EXCEPT !.conf[Ifaces[k]] = x]
         \/ \E x : stage' = [stage EXCEPT !.script = x]
         \/ \E x : stage' = [stage EXCEPT !.dropin[Ifaces[k]] = x]
         \/ \E merged : /\ stage' = [stage EXCEPT !.tables = merged]
                        /\ merged = MergedTables(live, db.rows, TableNumbers)
                        /\ \A n \in DOMAIN merged : merged[n].num # None
<1>1. ASSUME StageConf PROVE stage' = stage \/ \E x : stage' = [stage EXCEPT !.conf[Ifaces[k]] = x]
  BY <1>1 DEF StageConf
<1>2. ASSUME StageTables
      PROVE  \/ stage' = stage
             \/ \E merged : /\ stage' = [stage EXCEPT !.tables = merged]
                            /\ merged = MergedTables(live, db.rows, TableNumbers)
                            /\ \A n \in DOMAIN merged : merged[n].num # None
  BY <1>2 DEF StageTables
<1>3. ASSUME StageScript PROVE \E x : stage' = [stage EXCEPT !.script = x]
  BY <1>3 DEF StageScript
<1>4. ASSUME StageDropin
      PROVE  stage' = stage \/ \E x : stage' = [stage EXCEPT !.dropin[Ifaces[k]] = x]
  BY <1>4 DEF StageDropin
<1>5. ASSUME Stumble PROVE stage' = stage
  BY <1>5 DEF Stumble, WriteFails
<1>. QED  BY <1>1, <1>2, <1>3, <1>4, <1>5 DEF StageStep

LEMMA MergedNow ==
  ASSUME TypesInv, NEW merged, merged = MergedTables(live, db.rows, TableNumbers),
         \A n \in DOMAIN merged : merged[n].num # None
  PROVE  Clean(merged) /\ ListsAll(merged, live) /\ Covers(merged, db.rows, Len(db.rows))
<1>1. PICK rows : rows = db.rows
  OBVIOUS
<1>2. rows \in Seq(RowType) /\ Clean(live)
  BY <1>1 DEF TypesInv, StoresTyped, Typed, StoreTypeOK, WorldTyped
<1>3. IsSequence(rows) /\ \A n \in DOMAIN rows : rows[n].num \in Nat \cup {None}
  <2>1. \A n \in DOMAIN rows : rows[n] \in RowType
    BY <1>2
  <2>. QED  BY <1>2, <2>1 DEF IsSequence, RowType
<1>. QED  BY <1>1, <1>2, <1>3, MergedForm, PoolsForm

LEMMA TablesNext ==
  ASSUME StageForm, TablesKept, TypesInv, [Next]_vars
  PROVE  StageForm' /\ TablesKept' /\ Clean(live')
<1>. DEFINE Fine == StageForm' /\ TablesKept' /\ Clean(live')
<1>0. Clean(live)
  BY DEF TypesInv, WorldTyped
<1>1. ASSUME UNCHANGED <<stage, live>> PROVE Fine
  BY <1>0, <1>1 DEF StageForm, TablesKept
<1>2. ASSUME stage' = EmptyStage, live' = live PROVE Fine
  <2>1. stage'.tables = <<>> /\ StageForm'
    BY <1>2 DEF EmptyStage, StageForm
  <2>. QED  BY <1>0, <1>2, <2>1, EmptyClean DEF TablesKept
<1>3. ASSUME stage' = stage, live' = stage.tables PROVE Fine
  BY <1>3 DEF StageForm, TablesKept
<1>4. ASSUME stage' = stage, NEW line \in ForeignLines, EditTables(line) PROVE Fine
  BY <1>0, <1>4, EditForm DEF StageForm, TablesKept
<1>5. ASSUME StageStep, live' = live PROVE Fine
  <2>1. ASSUME stage'.tables = stage.tables PROVE TablesKept'
    BY <1>5, <2>1 DEF TablesKept
  <2>2. CASE \E x : stage' = [stage EXCEPT !.conf[Ifaces[k]] = x]
    <3>1. stage'.tables = stage.tables /\ StageForm'
      BY <2>2 DEF StageForm
    <3>. QED  BY <1>0, <1>5, <2>1, <3>1
  <2>3. CASE \E x : stage' = [stage EXCEPT !.script = x]
    <3>1. stage'.tables = stage.tables /\ StageForm'
      BY <2>3 DEF StageForm
    <3>. QED  BY <1>0, <1>5, <2>1, <3>1
  <2>4. CASE \E x : stage' = [stage EXCEPT !.dropin[Ifaces[k]] = x]
    <3>1. stage'.tables = stage.tables /\ StageForm'
      BY <2>4 DEF StageForm
    <3>. QED  BY <1>0, <1>5, <2>1, <3>1
  <2>5. ASSUME NEW merged, stage' = [stage EXCEPT !.tables = merged],
               merged = MergedTables(live, db.rows, TableNumbers),
               \A n \in DOMAIN merged : merged[n].num # None
        PROVE  Fine
    <3>1. Clean(merged) /\ ListsAll(merged, live)
      BY <2>5, MergedNow
    <3>2. stage'.tables = merged /\ StageForm'
      BY <2>5 DEF StageForm
    <3>3. TablesKept'
      BY <1>5, <3>1, <3>2 DEF TablesKept, ListsAll
    <3>. QED  BY <1>0, <1>5, <3>2, <3>3
  <2>6. CASE stage' = stage
    BY <1>1, <1>5, <2>6
  <2>. QED  BY <1>5, <2>2, <2>3, <2>4, <2>5, <2>6, StageWrites
<1>. QED  BY <1>1, <1>2, <1>3, <1>4, <1>5, HostForms

\* The world and the locals keep their types.
LEMMA LocalsNext ==
  ASSUME LocalsTyped, [Next]_vars
  PROVE  LocalsTyped'
<1>1. ASSUME World \/ UNCHANGED vars PROVE LocalsTyped'
  BY <1>1 DEF World, EditTables, EditAddress, EditAccount, Disturb, storeVars, localVars, vars,
              LocalsTyped
<1>2. ASSUME Command PROVE LocalsTyped'
  BY <1>2 DEF Command, StartInit, Bind, SetServerKey, Register, Readdress, WipeDb, WipeStage,
              InstallTables, StartKey, StartStage, Refuse, Immediate, Issue, Begin,
              storeVars, LocalsTyped, Resting, InitSteps, KeySteps, StageSteps
<1>3. ASSUME InitStep PROVE LocalsTyped'
  BY <1>3 DEF InitStep, LoadSchema, UpsertClient, UpsertServer, BindUser, SeedRoutes,
              AssignNumbers, ReconcileAddresses, CommitInit, Then, Fail, Return,
              LocalsTyped, Resting, InitSteps
<1>4. ASSUME KeyStep PROVE LocalsTyped'
  <2>1. ASSUME MakeKeyFile PROVE LocalsTyped'
    BY <2>1 DEF MakeKeyFile, Fail, Return, localVars, LocalsTyped, Resting, KeySteps
  <2>2. ASSUME WriteKeyFile PROVE LocalsTyped'
    BY <2>2 DEF WriteKeyFile, localVars, LocalsTyped, KeySteps
  <2>3. ASSUME RecordKey PROVE LocalsTyped'
    BY <2>3 DEF RecordKey, Then, Fail, Return, LocalsTyped, Resting
  <2>. QED  BY <1>4, <2>1, <2>2, <2>3 DEF KeyStep
<1>5. ASSUME StageStep PROVE LocalsTyped'
  <2>1. ASSUME StageConf PROVE LocalsTyped'
    BY <2>1 DEF StageConf, NextPart, storeVars, LocalsTyped, StageSteps
  <2>2. ASSUME StageTables PROVE LocalsTyped'
    BY <2>2 DEF StageTables, StageDone, Return, storeVars, localVars, LocalsTyped, StageSteps,
                Resting
  <2>3. ASSUME StageScript PROVE LocalsTyped'
    BY <2>3 DEF StageScript, storeVars, localVars, LocalsTyped, StageSteps
  <2>4. ASSUME StageDropin PROVE LocalsTyped'
    BY <2>4 DEF StageDropin, StageDone, Return, storeVars, LocalsTyped, StageSteps, Resting
  <2>5. ASSUME Stumble PROVE LocalsTyped'
    BY <2>5 DEF Stumble, StageDone, NextPart, Return, storeVars, LocalsTyped, StageSteps, Resting
  <2>. QED  BY <1>5, <2>1, <2>2, <2>3, <2>4, <2>5 DEF StageStep
<1>6. ASSUME Abort PROVE LocalsTyped'
  BY <1>6 DEF Abort, Fail, Return, LocalsTyped, Resting
<1>. QED  BY <1>1, <1>2, <1>3, <1>4, <1>5, <1>6 DEF Next

LEMMA KernelNext ==
  ASSUME WorldTyped, [Next]_vars
  PROVE  /\ (kernel \in [Names -> Hosts \cup {None}] /\ accounts \subseteq Names)'
         /\ (seen \in [Names -> Hosts \cup {None}])'
<1>1. ASSUME World
      PROVE  /\ (kernel \in [Names -> Hosts \cup {None}] /\ accounts \subseteq Names)'
             /\ seen' = seen
  BY <1>1 DEF World, EditTables, EditAddress, EditAccount, Disturb, WorldTyped
<1>2. ASSUME Command PROVE UNCHANGED <<kernel, accounts>> /\ seen' \in {seen, kernel, NoneSeen}
  BY <1>2 DEF Command, StartInit, Bind, SetServerKey, Register, Readdress, WipeDb, WipeStage,
              InstallTables, StartKey, StartStage, Refuse, Immediate, Issue, Begin
<1>3. ASSUME InitStep PROVE UNCHANGED <<kernel, accounts>> /\ seen' \in {seen, kernel, NoneSeen}
  BY <1>3 DEF InitStep, LoadSchema, UpsertClient, UpsertServer, BindUser, SeedRoutes,
              AssignNumbers, ReconcileAddresses, CommitInit, At, worldVars
<1>4. ASSUME KeyStep \/ Abort PROVE UNCHANGED <<kernel, accounts>> /\ seen' \in {seen, kernel, NoneSeen}
  BY <1>4 DEF KeyStep, MakeKeyFile, WriteKeyFile, RecordKey, Abort, At, worldVars
<1>5. ASSUME StageStep PROVE UNCHANGED <<kernel, accounts>> /\ seen' \in {seen, kernel, NoneSeen}
  BY <1>5 DEF StageStep, StageConf, StageTables, StageScript, StageDropin, Stumble, WriteFails,
              At, worldVars
<1>6. ASSUME UNCHANGED vars PROVE UNCHANGED <<kernel, accounts>> /\ seen' \in {seen, kernel, NoneSeen}
  BY <1>6 DEF vars, worldVars
<1>7. NoneSeen \in [Names -> Hosts \cup {None}]
  BY DEF NoneSeen
<1>. QED  BY <1>1, <1>2, <1>3, <1>4, <1>5, <1>6, <1>7 DEF Next, WorldTyped

LEMMA TypesNext ==
  ASSUME RegistryInv, TypesInv, StageForm, TablesKept, [Next]_vars
  PROVE  TypesInv' /\ StageForm' /\ TablesKept'
<1>1. LocalsTyped'
  BY LocalsNext DEF TypesInv
<1>2. StoresTyped'
  BY StoresTypedNext
<1>3. StageForm' /\ TablesKept' /\ Clean(live')
  BY TablesNext
<1>4. WorldTyped'
  BY <1>3, KernelNext DEF TypesInv, WorldTyped
<1>. QED  BY <1>1, <1>2, <1>3, <1>4 DEF TypesInv

\* The steps outside a staging, by what they leave of it.
LEMMA StagingLeft ==
  ASSUME [Next]_vars, ~StageStep
  PROVE  \/ UNCHANGED <<db, stage, pc, k, client, retried, ok>>
         \/ pc' \notin StageSteps \cup {"staged"}
         \/ pc' = "conf" /\ k' = 1
<1>1. ASSUME World \/ UNCHANGED vars PROVE UNCHANGED <<db, stage, pc, k, client, retried, ok>>
  BY <1>1 DEF World, EditTables, EditAddress, EditAccount, Disturb, storeVars, localVars, vars
<1>2. ASSUME Command PROVE pc' \notin StageSteps \cup {"staged"} \/ (pc' = "conf" /\ k' = 1)
  BY <1>2 DEF Command, StartInit, Bind, SetServerKey, Register, Readdress, WipeDb, WipeStage,
              InstallTables, StartKey, StartStage, Refuse, Immediate, Issue, Begin, StageSteps
<1>3. ASSUME InitStep PROVE pc' \notin StageSteps \cup {"staged"}
  BY <1>3 DEF InitStep, LoadSchema, UpsertClient, UpsertServer, BindUser, SeedRoutes,
              AssignNumbers, ReconcileAddresses, CommitInit, Then, Fail, Return, StageSteps
<1>4. ASSUME KeyStep \/ Abort PROVE pc' \notin StageSteps \cup {"staged"}
  BY <1>4 DEF KeyStep, MakeKeyFile, WriteKeyFile, RecordKey, Abort, Then, Fail, Return, StageSteps
<1>. QED  BY <1>1, <1>2, <1>3, <1>4 DEF Next

\* Each step of a staging leaves what the end needs.
LEMMA StagingNext ==
  ASSUME RegistryInv, TypesInv, StageForm, Staging, [Next]_vars
  PROVE  Staging'
<1>1. CASE UNCHANGED <<db, stage, pc, k, client, retried, ok>>
  BY <1>1 DEF Staging, ConfRight, ScriptRight, DropinRight, TablesRight, Staged, ScriptName
<1>2. CASE pc' \notin StageSteps \cup {"staged"}
  BY <1>2 DEF Staging, StageSteps
<1>3. CASE pc' = "conf" /\ k' = 1
  BY <1>3 DEF Staging
<1>4. PICK i : i = Ifaces[k]
  OBVIOUS
<1>5. /\ k \in Nat /\ Len(Ifaces) \in Nat /\ k \in 1 .. Len(Ifaces) /\ i \in Names
      /\ \A n \in 1 .. k : n = k \/ n \in 1 .. k - 1
      /\ k + 1 - 1 = k
      /\ \A j \in Names : \E n \in 1 .. Len(Ifaces) : j = Ifaces[n]
      /\ ~ (k < Len(Ifaces)) => k = Len(Ifaces)
  <2>1. k \in 1 .. Len(Ifaces) /\ Len(Ifaces) \in Nat
    BY IfacesForm DEF RegistryInv
  <2>2. k \in Nat /\ k + 1 - 1 = k /\ (~ (k < Len(Ifaces)) => k = Len(Ifaces))
    BY <2>1
  <2>3. \A n \in 1 .. k : n = k \/ n \in 1 .. k - 1
    BY <2>1
  <2>. QED  BY <1>4, <2>1, <2>2, <2>3, IfacesForm
<1>6. Registered(db) \subseteq Names
  BY DEF RegistryInv, Good, WellFormed, Row, Registered, Rows
<1>7. ASSUME StageConf PROVE Staging'
  <2>1. CASE ~HasPrivateKey(client) \/ ~Stageable
    BY <1>7, <2>1 DEF StageConf, NextPart, Staging
  <2>2. CASE HasPrivateKey(client) /\ Stageable
    <3>1. /\ pc = "conf" /\ db' = db /\ client' = client
          /\ stage' = IF i \in Registered(db)
                      THEN [stage EXCEPT !.conf[i] = [key |-> client, peer |-> db.peer[i]]]
                      ELSE stage
          /\ \/ k < Len(Ifaces) /\ k' = k + 1 /\ pc' = pc
             \/ ~ (k < Len(Ifaces)) /\ pc' = "tables" /\ k' = 1
      BY <1>4, <1>7, <2>2 DEF StageConf, NextPart, At, storeVars
    <3>2. /\ i \in Registered(db) => stage'.conf[i] = [key |-> client, peer |-> db.peer[i]]
          /\ \A j : j # i => stage'.conf[j] = stage.conf[j]
      BY <1>5, <3>1 DEF StageForm
    <3>3. \A j : j \in Registered(db) /\ (j = i \/ ConfRight(j)) => ConfRight(j)'
      <4>1. ASSUME NEW j, j \in Registered(db), j = i \/ ConfRight(j) PROVE (ConfRight(j))'
        <5>1. CASE j = i
          BY <3>1, <3>2, <4>1, <5>1 DEF ConfRight
        <5>2. CASE j # i
          BY <3>1, <3>2, <4>1, <5>2 DEF ConfRight
        <5>. QED  BY <5>1, <5>2
      <4>. QED  BY <4>1
    <3>4. \A n \in 1 .. k : Ifaces[n] \in Registered(db) => ConfRight(Ifaces[n])'
      BY <1>4, <1>5, <3>1, <3>3 DEF Staging
    <3>5. CASE k < Len(Ifaces) /\ k' = k + 1 /\ pc' = pc
      BY <1>5, <3>1, <3>4, <3>5 DEF Staging
    <3>6. CASE ~ (k < Len(Ifaces)) /\ pc' = "tables" /\ k' = 1
      <4>1. \A j \in Registered(db) : ConfRight(j)'
        BY <1>5, <1>6, <3>4, <3>6
      <4>. QED  BY <3>1, <3>6, <4>1 DEF Staging
    <3>. QED  BY <3>1, <3>5, <3>6
  <2>. QED  BY <2>1, <2>2
<1>8. ASSUME StageTables PROVE Staging'
  <2>1. CASE pc' = "script"
    <3>1. PICK merged : /\ stage' = [stage EXCEPT !.tables = merged]
                        /\ merged = MergedTables(live, db.rows, TableNumbers)
                        /\ \A n \in DOMAIN merged : merged[n].num # None
      BY <1>8, <2>1 DEF StageTables, StageDone, Return
    <3>2. UNCHANGED <<db, client, ok>> /\ pc = "tables"
      BY <1>8, <2>1 DEF StageTables, StageDone, Return, At, storeVars, localVars
    <3>3. stage'.tables = merged /\ stage'.conf = stage.conf
      BY <3>1 DEF StageForm
    <3>4. Covers(merged, db.rows, Len(db.rows))
      BY <3>1, MergedNow
    <3>5. TablesRight'
      BY <3>2, <3>3, <3>4 DEF TablesRight
    <3>6. ok' => (\A j \in Registered(db) : ConfRight(j))'
      BY <3>2, <3>3 DEF Staging, ConfRight
    <3>7. k' = 1
      BY <1>8, <2>1 DEF StageTables, StageDone, Return, At, localVars, Staging
    <3>. QED  BY <2>1, <3>5, <3>6, <3>7 DEF Staging
  <2>2. CASE pc' # "script"
    BY <1>8, <2>2 DEF StageTables, StageDone, Return, Staging
  <2>. QED  BY <2>1, <2>2
<1>9. ASSUME StageScript PROVE Staging'
  <2>1. PICK s : s = ScriptName
    OBVIOUS
  <2>2. PICK content : content = [j \in Registered(db) |-> Prescribed(db, j)]
    OBVIOUS
  <2>3. /\ pc = "script" /\ pc' = "dropin" /\ UNCHANGED <<db, client, ok, k, retried>>
        /\ stage' = [stage EXCEPT !.script =
                       [t \in DOMAIN stage.script \cup {s} |->
                          IF t = s THEN content ELSE stage.script[t]]]
    BY <1>9, <2>1, <2>2 DEF StageScript, At, storeVars, localVars, StageForm
  <2>4. /\ stage'.conf = stage.conf /\ stage'.tables = stage.tables
        /\ s \in DOMAIN stage'.script /\ stage'.script[s] = content
    BY <2>3 DEF StageForm
  <2>5. ScriptName' = s
    BY <2>1, <2>3 DEF ScriptName
  <2>6. ScriptRight(ScriptName)'
    BY <2>2, <2>3, <2>4, <2>5 DEF ScriptRight, Prescribed
  <2>7. TablesRight' /\ (ok' => (\A j \in Registered(db) : ConfRight(j))')
    BY <2>3, <2>4 DEF Staging, ConfRight, TablesRight
  <2>8. k' = 1
    BY <2>3 DEF Staging
  <2>. QED  BY <2>3, <2>6, <2>7, <2>8 DEF Staging
<1>10. ASSUME StageDropin PROVE Staging'
  <2>1. PICK s : s = ScriptName
    OBVIOUS
  <2>2. /\ pc = "dropin" /\ db' = db /\ client' = client
        /\ stage' = IF i \in Registered(db) THEN [stage EXCEPT !.dropin[i] = s] ELSE stage
        /\ \/ k < Len(Ifaces) /\ k' = k + 1 /\ pc' = pc /\ retried' = retried /\ ok' = ok
           \/ /\ ~ (k < Len(Ifaces))
              /\ pc' \in {"staged", "error"} /\ (pc' = "staged" => ok)
    BY <1>4, <1>10, <2>1 DEF StageDropin, StageDone, Return, At, storeVars
  <2>3. /\ i \in Registered(db) => stage'.dropin[i] = s
        /\ \A j : j # i => stage'.dropin[j] = stage.dropin[j]
        /\ stage'.conf = stage.conf /\ stage'.script = stage.script
        /\ stage'.tables = stage.tables
    BY <1>5, <2>2 DEF StageForm
  <2>4. \A n \in 1 .. k : Ifaces[n] \in Registered(db) => stage'.dropin[Ifaces[n]] = s
    BY <1>4, <1>5, <2>1, <2>2, <2>3 DEF Staging, DropinRight
  <2>5. ScriptRight(s)'
    <3>1. ScriptRight(s)
      BY <2>1, <2>2 DEF Staging
    <3>. QED  BY <2>2, <2>3, <3>1 DEF ScriptRight, Prescribed
  <2>6. TablesRight' /\ (ok => (\A j \in Registered(db) : ConfRight(j))')
    BY <2>2, <2>3 DEF Staging, ConfRight, TablesRight
  <2>7. CASE k < Len(Ifaces)
    <3>1. ScriptName' = s /\ k' - 1 = k /\ pc' = "dropin" /\ ok' = ok
      BY <1>5, <2>1, <2>2, <2>7 DEF ScriptName
    <3>2. (\A n \in 1 .. k - 1 : Ifaces[n] \in Registered(db) => DropinRight(Ifaces[n]))'
      BY <2>2, <2>4, <3>1 DEF DropinRight
    <3>3. ScriptRight(ScriptName)'
      <4>1. (s = ScriptName)'
        BY <3>1
      <4>. QED  BY <2>5, <4>1
    <3>. QED  BY <2>6, <3>1, <3>2, <3>3 DEF Staging
  <2>8. CASE ~ (k < Len(Ifaces)) /\ pc' = "staged"
    <3>1. ASSUME NEW j \in Registered(db) PROVE stage'.dropin[j] = s
      BY <1>5, <1>6, <2>4, <2>8
    <3>2. Staged'
      BY <2>2, <2>5, <2>6, <2>8, <3>1 DEF Staged
    <3>. QED  BY <2>6, <2>8, <3>2 DEF Staging
  <2>9. CASE pc' = "error"
    BY <2>9 DEF Staging
  <2>. QED  BY <2>2, <2>7, <2>8, <2>9
<1>11. ASSUME Stumble PROVE Staging'
  <2>1. stage' = stage /\ db' = db /\ client' = client
    BY <1>11 DEF Stumble, WriteFails, NextPart, StageDone, Return, storeVars
  <2>2. CASE ~retried
    <3>1. /\ k' = 1 /\ ok' = ok /\ pc \in StageSteps
          /\ pc' = IF pc = "conf" THEN "conf" ELSE "tables"
      BY <1>11, <2>2 DEF Stumble, WriteFails
    <3>. QED  BY <2>1, <3>1 DEF Staging, ConfRight, StageSteps
  <2>3. CASE retried
    BY <1>11, <2>3 DEF Stumble, NextPart, StageDone, Return, Staging
  <2>. QED  BY <2>2, <2>3
<1>. QED  BY <1>1, <1>2, <1>3, <1>7, <1>8, <1>9, <1>10, <1>11, StagingLeft DEF StageStep

AllInv == RegistryInv /\ TypesInv /\ StageInv

LEMMA AllAlways == Spec => []AllInv
<1>1. Init => AllInv
  BY InitialInv, InitialTypes, InitialStage DEF AllInv
<1>2. AllInv /\ [Next]_vars => AllInv'
  <2>. SUFFICES ASSUME AllInv, [Next]_vars PROVE AllInv'
    OBVIOUS
  <2>1. RegistryInv'
    BY InvNext DEF AllInv
  <2>2. TypesInv' /\ StageForm' /\ TablesKept'
    BY TypesNext DEF AllInv, StageInv
  <2>3. Staging'
    BY StagingNext DEF AllInv, StageInv
  <2>. QED  BY <2>1, <2>2, <2>3 DEF AllInv, StageInv
<1>. QED  BY <1>1, <1>2, PTL DEF Spec

-----------------------------------------------------------------------------
(* What a step does to numbers and addresses.                              *)

\* Every number and every address is as it was, or gone.
NothingNew(new, old) ==
  \A n \in DOMAIN new :
    /\ new[n].num # None => n \in DOMAIN old /\ new[n].num = old[n].num
    /\ new[n].addr # None => n \in DOMAIN old /\ new[n].addr = old[n].addr

LEMMA ClientNothingNew ==
  ASSUME NEW store, WellFormed(store), Typed(store), NEW i \in Names, NEW table
  PROVE  NothingNew(Client(store, i, table).rows, store.rows)
<1>0. store.rows \in Seq(RowType)
  BY DEF Typed, StoreTypeOK
<1>1. CASE i \in Registered(store)
  <2>1. PICK n \in DOMAIN store.rows : store.rows[n].iface = i
    BY <1>1 DEF Registered, Rows
  <2>2. IdOf(store, i) = n
    BY <2>1 DEF IdOf, WellFormed
  <2>3. PICK row : row = [store.rows[n] EXCEPT !.table = table, !.addr = None]
    OBVIOUS
  <2>4. PICK rows : rows = [store.rows EXCEPT ![n] = row]
    OBVIOUS
  <2>5. Client(store, i, table).rows = rows
    BY <1>0, <1>1, <2>1, <2>2, <2>3, <2>4 DEF Client, WellFormed
  <2>6. row.num = store.rows[n].num /\ row.addr = None
    <3>1. store.rows[n] \in RowType
      BY <1>0, <2>1
    <3>. QED  BY <2>3, <3>1 DEF RowType
  <2>7. /\ DOMAIN rows = DOMAIN store.rows /\ rows[n] = row
        /\ \A m \in DOMAIN store.rows : m # n => rows[m] = store.rows[m]
    BY <1>0, <2>1, <2>4
  <2>. QED  BY <2>1, <2>5, <2>6, <2>7 DEF NothingNew
<1>2. CASE i \notin Registered(store)
  <2>1. PICK row : row = [iface |-> i, table |-> table, num |-> None, addr |-> None, pub |-> None]
    OBVIOUS
  <2>2. PICK rows : rows = Append(store.rows, row)
    OBVIOUS
  <2>3. Client(store, i, table).rows = rows
    BY <1>2, <2>1, <2>2 DEF Client, WellFormed
  <2>4. row.num = None /\ row.addr = None
    BY <2>1
  <2>5. \A n \in DOMAIN rows : rows[n] = row \/ (n \in DOMAIN store.rows /\ rows[n] = store.rows[n])
    BY <1>0, <2>2
  <2>. QED  BY <2>3, <2>4, <2>5 DEF NothingNew
<1>. QED  BY <1>1, <1>2

LEMMA PublicKeyNothingNew ==
  ASSUME NEW store, WellFormed(store), Typed(store), NEW m
  PROVE  NothingNew(WithPublicKey(store, m).rows, store.rows)
<1>0. store.rows \in Seq(RowType)
  BY DEF Typed, StoreTypeOK
<1>1. \A n \in DOMAIN store.rows : store.rows[n] \in RowType
  BY <1>0
<1>. DEFINE row(n) == [store.rows[n] EXCEPT !.pub = m]
<1>2. WithPublicKey(store, m).rows = [n \in DOMAIN store.rows |-> row(n)]
  BY DEF WithPublicKey, WellFormed
<1>3. \A n \in DOMAIN store.rows : row(n).num = store.rows[n].num /\ row(n).addr = store.rows[n].addr
  BY <1>1 DEF RowType
<1>. HIDE DEF row
<1>. QED  BY <1>2, <1>3 DEF NothingNew

\* What the rows of a store that is written are.
LEMMA RowsWritten ==
  ASSUME RegistryInv, TypesInv, NEW store, InitWrites(store) \/ CommandWrites(store)
  PROVE  \/ NothingNew(store.rows, db.rows)
         \/ store.rows = Numbered(db.rows, live, TableNumbers)
         \/ store.rows = Addressed(db.rows, kernel, Hosts)
<1>1. /\ WellFormed(db) /\ WellFormed(work)
      /\ Typed(db) /\ Typed(work) /\ work.rows = db.rows
  BY DEF RegistryInv, Good, TypesInv, StoresTyped
<1>2. ASSUME store.rows = db.rows PROVE NothingNew(store.rows, db.rows)
  BY <1>2 DEF NothingNew
<1>3. CASE InitWrites(store)
  <2>1. ASSUME NEW x, store = [db EXCEPT !.schema = x] PROVE store.rows = db.rows
    BY <1>1, <2>1 DEF WellFormed
  <2>2. NothingNew(Client(work, Ifaces[k], naming[Ifaces[k]]).rows, work.rows)
    BY <1>1, ClientNothingNew, IfacesForm DEF RegistryInv
  <2>3. ASSUME store = [work EXCEPT !.peer[Ifaces[k]] = SeedKey] PROVE store.rows = db.rows
    BY <1>1, <2>3 DEF WellFormed
  <2>4. ASSUME store = [work EXCEPT !.routes = Names] PROVE store.rows = db.rows
    BY <1>1, <2>4 DEF WellFormed
  <2>5. ASSUME store = WithNumbers(work) PROVE store.rows = Numbered(db.rows, live, TableNumbers)
    BY <1>1, <2>5 DEF WithNumbers, WellFormed
  <2>6. ASSUME store = WithAddresses(work) PROVE store.rows = Addressed(db.rows, kernel, Hosts)
    BY <1>1, <2>6 DEF WithAddresses, WellFormed
  <2>. QED  BY <1>1, <1>2, <1>3, <2>1, <2>2, <2>3, <2>4, <2>5, <2>6 DEF InitWrites
<1>4. CASE CommandWrites(store)
  <2>1. NothingNew(WithPublicKey(db, client).rows, db.rows)
    BY <1>1, PublicKeyNothingNew
  <2>2. ASSUME NEW i, store = BoundTo(db, i) PROVE store.rows = db.rows
    BY <1>1, <2>2 DEF BoundTo, WellFormed
  <2>3. ASSUME NEW i, NEW key, store = [db EXCEPT !.peer[i] = key] PROVE store.rows = db.rows
    BY <1>1, <2>3 DEF WellFormed
  <2>4. ASSUME store = WithNumbers(db) PROVE store.rows = Numbered(db.rows, live, TableNumbers)
    BY <1>1, <2>4 DEF WithNumbers, WellFormed
  <2>5. ASSUME store = WithAddresses(db) PROVE store.rows = Addressed(db.rows, kernel, Hosts)
    BY <1>1, <2>5 DEF WithAddresses, WellFormed
  <2>6. NothingNew(EmptyStore.rows, db.rows)
    <3>1. DOMAIN EmptyStore.rows = {}
      BY DEF EmptyStore
    <3>. QED  BY <3>1 DEF NothingNew
  <2>. QED  BY <1>2, <1>4, <2>1, <2>2, <2>3, <2>4, <2>5, <2>6 DEF CommandWrites
<1>. QED  BY <1>3, <1>4

LEMMA RowsNext ==
  ASSUME RegistryInv, TypesInv, [Next]_vars
  PROVE  \/ NothingNew(db'.rows, db.rows)
         \/ db'.rows = Numbered(db.rows, live, TableNumbers)
         \/ db'.rows = Addressed(db.rows, kernel, Hosts)
<1>1. ASSUME db' = db PROVE NothingNew(db'.rows, db.rows)
  BY <1>1 DEF NothingNew
<1>2. ASSUME NEW store, Saves(store)
      PROVE  \/ NothingNew(db'.rows, db.rows)
             \/ db'.rows = Numbered(db.rows, live, TableNumbers)
             \/ db'.rows = Addressed(db.rows, kernel, Hosts)
  <2>1. db' = store /\ (InitWrites(store) \/ CommandWrites(store))
    BY <1>2 DEF Saves
  <2>. QED  BY <2>1, RowsWritten
<1>. QED  BY <1>1, <1>2, StoreForms DEF KeepsOrDrops, PendsBinding

\* Of the rows' numbers and addresses, what is new comes from where the plan
\* says.
LEMMA NumbersFresh ==
  ASSUME NEW rows \in Seq(RowType), Clean(live), NEW num,
         num = PlannedNumbers(rows, live, TableNumbers), NEW n \in DOMAIN rows, num[n] # None
  PROVE  \/ num[n] = rows[n].num
         \/ num[n] = NumberOf(live, rows[n].table)
         \/ /\ num[n] \notin Numbers(live)
            /\ \A m \in DOMAIN rows : num[n] # rows[m].num
            /\ \A m \in DOMAIN rows : m < n => num[n] # num[m]
<1>1. DOMAIN rows = 1 .. Len(rows) /\ Len(rows) \in Nat
  OBVIOUS
<1>2. num[n] = NumberGiven(rows, live, TableNumbers, {num[i] : i \in 1 .. n - 1}, n)
  BY <1>1, PlannedNumbersAre
<1>3. PICK before : before = {num[i] : i \in 1 .. n - 1}
  OBVIOUS
<1>4. PICK used : used = Numbers(live) \cup DbNumbers(rows) \cup before
  OBVIOUS
<1>5. CASE rows[n].num # None \/ NumberOf(live, rows[n].table) # None
  BY <1>2, <1>5 DEF NumberGiven
<1>6. CASE rows[n].num = None /\ NumberOf(live, rows[n].table) = None
  <2>1. num[n] = FirstFree(TableNumbers, used)
    BY <1>2, <1>3, <1>4, <1>6 DEF NumberGiven
  <2>2. num[n] \notin used
    <3>1. \/ FirstFree(TableNumbers, used) = None
          \/ FirstFree(TableNumbers, used) \in TableNumbers \ used
      BY FirstFreeIs, PoolsForm
    <3>. QED  BY <2>1, <3>1
  <2>3. num[n] \notin Numbers(live) /\ num[n] \notin DbNumbers(rows) /\ num[n] \notin before
    BY <1>4, <2>2
  <2>4. \A m \in DOMAIN rows : num[n] # rows[m].num
    BY <2>3 DEF DbNumbers
  <2>5. \A m \in DOMAIN rows : m < n => num[n] # num[m]
    <3>1. \A m \in DOMAIN rows : m < n => m \in 1 .. n - 1
      BY <1>1
    <3>. QED  BY <1>3, <2>3, <3>1
  <2>. QED  BY <2>3, <2>4, <2>5
<1>. QED  BY <1>5, <1>6

LEMMA AddressesFresh ==
  ASSUME NEW rows \in Seq(RowType), NEW addr,
         addr = PlannedAddresses(rows, kernel, Hosts), NEW n \in DOMAIN rows, addr[n] # None
  PROVE  \/ addr[n] = rows[n].addr
         \/ addr[n] = kernel[rows[n].iface]
         \/ \A m \in DOMAIN rows :
              /\ addr[n] # rows[m].addr /\ addr[n] # kernel[rows[m].iface]
              /\ m < n => addr[n] # addr[m]
<1>1. DOMAIN rows = 1 .. Len(rows) /\ Len(rows) \in Nat
  OBVIOUS
<1>2. addr[n] = AddressGiven(rows, kernel, Hosts, {addr[i] : i \in 1 .. n - 1}, n)
  BY <1>1, PlannedAddressesAre
<1>0. PICK before : before = {addr[i] : i \in 1 .. n - 1}
  OBVIOUS
<1>3. PICK used : used = UsedHosts(rows, kernel) \cup before
  OBVIOUS
<1>4. CASE kernel[rows[n].iface] # None \/ rows[n].addr # None
  BY <1>2, <1>4 DEF AddressGiven
<1>5. CASE kernel[rows[n].iface] = None /\ rows[n].addr = None
  <2>1. addr[n] = FirstFree(Hosts, used)
    BY <1>0, <1>2, <1>3, <1>5 DEF AddressGiven
  <2>2. addr[n] \notin used
    <3>1. FirstFree(Hosts, used) = None \/ FirstFree(Hosts, used) \in Hosts \ used
      BY FirstFreeIs, PoolsForm
    <3>. QED  BY <2>1, <3>1
  <2>3. addr[n] \notin UsedHosts(rows, kernel) /\ addr[n] \notin before
    BY <1>3, <2>2
  <2>4. \A m \in DOMAIN rows : m < n => addr[n] # addr[m]
    <3>1. \A m \in DOMAIN rows : m < n => m \in 1 .. n - 1
      BY <1>1
    <3>. QED  BY <1>0, <2>3, <3>1
  <2>. QED  BY <2>3, <2>4 DEF UsedHosts, DbAddresses
<1>. QED  BY <1>4, <1>5

\* Whatever a fresh value is given to, it is given to one row only: of two,
\* the later one was planned around the earlier.
LEMMA FreshNumbersApart ==
  ASSUME NEW rows \in Seq(RowType), Clean(live), NEW num,
         num = PlannedNumbers(rows, live, TableNumbers),
         NEW n \in DOMAIN rows, NEW m \in DOMAIN rows, m # n,
         num[n] \notin {None, rows[n].num, NumberOf(live, rows[n].table)}
  PROVE  num[n] # num[m] /\ num[n] # rows[m].num /\ num[n] \notin Numbers(live)
<1>1. DOMAIN rows = 1 .. Len(rows) /\ Len(rows) \in Nat
  OBVIOUS
<1>2. /\ num[n] \notin Numbers(live)
      /\ \A i \in DOMAIN rows : num[n] # rows[i].num
      /\ \A i \in DOMAIN rows : i < n => num[n] # num[i]
  BY NumbersFresh
<1>3. ASSUME num[m] = num[n] PROVE FALSE
  <2>1. \/ num[m] = rows[m].num
        \/ num[m] = NumberOf(live, rows[m].table)
        \/ \A i \in DOMAIN rows : i < m => num[m] # num[i]
    BY <1>3, NumbersFresh
  <2>2. CASE num[m] = rows[m].num
    BY <1>2, <1>3, <2>2
  <2>3. CASE num[m] = NumberOf(live, rows[m].table)
    <3>1. num[m] \in Numbers(live)
      BY <1>3, <2>3, CleanNumbers
    <3>. QED  BY <1>2, <1>3, <3>1
  <2>4. CASE \A i \in DOMAIN rows : i < m => num[m] # num[i]
    <3>1. m < n \/ n < m
      BY <1>1
    <3>. QED  BY <1>2, <1>3, <2>4, <3>1
  <2>. QED  BY <2>1, <2>2, <2>3, <2>4
<1>. QED  BY <1>2, <1>3

LEMMA FreshAddressesApart ==
  ASSUME NEW rows \in Seq(RowType), NEW addr, addr = PlannedAddresses(rows, kernel, Hosts),
         NEW n \in DOMAIN rows, NEW m \in DOMAIN rows, m # n,
         addr[n] \notin {None, rows[n].addr, kernel[rows[n].iface]}
  PROVE  addr[n] # addr[m] /\ addr[n] # rows[m].addr /\ addr[n] # kernel[rows[m].iface]
<1>1. DOMAIN rows = 1 .. Len(rows) /\ Len(rows) \in Nat
  OBVIOUS
<1>2. \A i \in DOMAIN rows :
        /\ addr[n] # rows[i].addr /\ addr[n] # kernel[rows[i].iface]
        /\ i < n => addr[n] # addr[i]
  BY AddressesFresh
<1>3. ASSUME addr[m] = addr[n] PROVE FALSE
  <2>1. \/ addr[m] = rows[m].addr
        \/ addr[m] = kernel[rows[m].iface]
        \/ \A i \in DOMAIN rows : i < m => addr[m] # addr[i]
    BY <1>3, AddressesFresh
  <2>2. m < n \/ n < m
    BY <1>1
  <2>. QED  BY <1>2, <1>3, <2>1, <2>2
<1>. QED  BY <1>2, <1>3

\* What FreshIsFree says of one row.
FreshRow(new, old, n) ==
  LET row == new[n]
      others == {old[m] : m \in DOMAIN old \ {n}} \cup {new[m] : m \in DOMAIN new \ {n}} IN
    /\ row.addr \notin {None, kernel[row.iface]}
       /\ (n \in DOMAIN old => old[n].addr # row.addr)
         => row.addr \notin {other.addr : other \in others}
                           \cup {kernel[other.iface] : other \in others}
    /\ row.num # None /\ (n \in DOMAIN old => old[n].num # row.num)
         => \/ row.num = NumberOf(live, row.table)
            \/ row.num \notin Numbers(live) \cup {other.num : other \in others}

LEMMA FreshNext ==
  ASSUME RegistryInv, TypesInv, [Next]_vars, NEW n \in DOMAIN db'.rows
  PROVE  FreshRow(db'.rows, db.rows, n)
<1>1. PICK rows, new : rows = db.rows /\ new = db'.rows
  OBVIOUS
<1>2. rows \in Seq(RowType) /\ Clean(live) /\ kernel \in [Names -> Hosts \cup {None}]
  BY <1>1 DEF TypesInv, StoresTyped, Typed, StoreTypeOK, WorldTyped
<1>3. CASE NothingNew(new, rows)
  BY <1>1, <1>3 DEF NothingNew, FreshRow
<1>4. CASE new = Numbered(rows, live, TableNumbers)
  <2>1. PICK num : num = PlannedNumbers(rows, live, TableNumbers)
    OBVIOUS
  <2>2. /\ DOMAIN new = DOMAIN rows /\ n \in DOMAIN rows
        /\ \A m \in DOMAIN rows :
             /\ new[m].iface = rows[m].iface /\ new[m].table = rows[m].table
             /\ new[m].addr = rows[m].addr /\ new[m].num = num[m]
    BY <1>1, <1>2, <1>4, <2>1, NumberedTyped
  <2>3. ASSUME num[n] \notin {None, rows[n].num, NumberOf(live, rows[n].table)}
        PROVE  /\ num[n] \notin Numbers(live)
               /\ \A m \in DOMAIN rows \ {n} : num[n] # num[m] /\ num[n] # rows[m].num
    BY <1>2, <2>1, <2>2, <2>3, NumbersFresh, FreshNumbersApart
  <2>. QED  BY <1>1, <2>2, <2>3 DEF FreshRow
<1>5. CASE new = Addressed(rows, kernel, Hosts)
  <2>1. PICK addr : addr = PlannedAddresses(rows, kernel, Hosts)
    OBVIOUS
  <2>2. /\ DOMAIN new = DOMAIN rows /\ n \in DOMAIN rows
        /\ \A m \in DOMAIN rows :
             /\ new[m].iface = rows[m].iface /\ new[m].table = rows[m].table
             /\ new[m].num = rows[m].num /\ new[m].addr = addr[m]
    BY <1>1, <1>2, <1>5, <2>1, AddressedTyped
  <2>3. ASSUME addr[n] \notin {None, rows[n].addr, kernel[rows[n].iface]}
        PROVE  \A m \in DOMAIN rows \ {n} :
                 /\ addr[n] # addr[m] /\ addr[n] # rows[m].addr
                 /\ addr[n] # kernel[rows[m].iface]
    BY <1>2, <2>1, <2>2, <2>3, FreshAddressesApart
  <2>. QED  BY <1>1, <2>2, <2>3 DEF FreshRow
<1>. QED  BY <1>1, <1>3, <1>4, <1>5, RowsNext

\* What ClashesComeFromTheFile says of two rows.
ClashExplained(new, old, m, n) ==
  LET number == new[m].num IN
    m # n /\ number # None /\ number = new[n].num
      => \/ /\ {m, n} \subseteq DOMAIN old
            /\ old[m].num = number /\ old[n].num = number
         \/ \E j \in {m, n} : NumberOf(live, new[j].table) = number

LEMMA ClashNext ==
  ASSUME RegistryInv, TypesInv, [Next]_vars, NEW m \in DOMAIN db'.rows, NEW n \in DOMAIN db'.rows
  PROVE  ClashExplained(db'.rows, db.rows, m, n)
<1>1. PICK rows, new : rows = db.rows /\ new = db'.rows
  OBVIOUS
<1>2. rows \in Seq(RowType) /\ Clean(live)
  BY <1>1 DEF TypesInv, StoresTyped, Typed, StoreTypeOK, WorldTyped
<1>3. CASE NothingNew(new, rows)
  BY <1>1, <1>3 DEF NothingNew, ClashExplained
<1>4. CASE new = Numbered(rows, live, TableNumbers)
  <2>1. PICK num : num = PlannedNumbers(rows, live, TableNumbers)
    OBVIOUS
  <2>2. /\ DOMAIN new = DOMAIN rows
        /\ \A j \in DOMAIN rows : new[j].table = rows[j].table /\ new[j].num = num[j]
    BY <1>1, <1>2, <1>4, <2>1, NumberedTyped
  <2>3. \A j \in DOMAIN rows : num[j] # None =>
          \/ num[j] = rows[j].num
          \/ num[j] = NumberOf(live, rows[j].table)
          \/ /\ \A i \in DOMAIN rows : num[j] # rows[i].num
             /\ \A i \in DOMAIN rows : i < j => num[j] # num[i]
    BY <1>2, <2>1, NumbersFresh
  <2>4. m \in DOMAIN rows /\ n \in DOMAIN rows /\ (m # n => m < n \/ n < m)
    <3>1. \A i, j \in DOMAIN rows : i # j => i < j \/ j < i
      BY <1>2
    <3>. QED  BY <1>1, <2>2, <3>1
  <2>. DEFINE Known(j) == num[j] = NumberOf(live, rows[j].table)
  <2>5. ASSUME m # n, num[m] # None, num[m] = num[n], ~Known(m), ~Known(n)
        PROVE  num[m] = rows[m].num /\ num[n] = rows[n].num
    <3>1. CASE m < n
      BY <2>3, <2>4, <2>5, <3>1
    <3>2. CASE n < m
      BY <2>3, <2>4, <2>5, <3>2
    <3>. QED  BY <2>4, <2>5, <3>1, <3>2
  <2>. QED  BY <1>1, <2>2, <2>4, <2>5 DEF ClashExplained
<1>5. CASE new = Addressed(rows, kernel, Hosts)
  <2>1. DOMAIN new = DOMAIN rows /\ \A j \in DOMAIN rows : new[j].num = rows[j].num
    BY <1>2, <1>5, AddressedTyped DEF TypesInv, WorldTyped
  <2>. QED  BY <1>1, <2>1 DEF ClashExplained
<1>. QED  BY <1>1, <1>3, <1>4, <1>5, RowsNext

\* The tunnels' lines of rt_tables survive every step.
LEMMA TunnelLinesKept ==
  ASSUME TypesInv, TablesKept, [Next]_vars, NEW name \in TableNames, NEW num,
         Lists(live, name, num)
  PROVE  Lists(live', name, num)
<1>1. CASE live' = live
  BY <1>1
<1>2. CASE stage.tables # <<>> /\ live' = stage.tables
  BY <1>2 DEF TablesKept
<1>3. CASE \E line \in ForeignLines : EditTables(line)
  BY <1>3, EditForm DEF TypesInv, WorldTyped
<1>. QED  BY <1>1, <1>2, <1>3, HostForms

-----------------------------------------------------------------------------
(* The theorems about rows, numbers, addresses and the stage.              *)

\* TypeOK: every variable has its type, an interface has one row, and nothing
\* belongs to an interface without one, in what is committed and in what a
\* connection sees, wherever commands die.
THEOREM RegistryTypes == Spec => []TypeOK
<1>1. AllInv => TypeOK
  <2>. SUFFICES ASSUME AllInv PROVE TypeOK
    OBVIOUS
  <2>1. ASSUME NEW store \in {db, work}
        PROVE  /\ StoreTypeOK(store)
               /\ Cardinality(Registered(store)) = Len(store.rows)
               /\ \A i \in Names :
                    store.peer[i] # None \/ store.bound[i] # "unbound" \/ i \in store.routes
                      => i \in Registered(store)
    <3>1. WellFormed(store) /\ Typed(store)
      BY DEF AllInv, RegistryInv, Good, TypesInv, StoresTyped
    <3>. QED  BY <3>1, RowsCount DEF Typed, Referenced
  <2>2. k \in DOMAIN Ifaces /\ client \in Machines
    BY IfacesForm DEF AllInv, RegistryInv, Keys
  <2>. QED  BY <2>1, <2>2 DEF AllInv, TypesInv, WorldTyped, LocalsTyped, TypeOK
<1>. QED  BY <1>1, AllAlways, PTL

\* FreshIsFree: a number or an address that the planners give out is nobody
\* else's, before the step or after it, for any number of rows, pools and
\* lines in rt_tables.
THEOREM FreshAreFree == Spec => FreshIsFree
<1>1. AllInv /\ [Next]_vars =>
        [\A n \in DOMAIN db'.rows :
           LET row == db'.rows[n]
               others == {db.rows[m] : m \in DOMAIN db.rows \ {n}}
                           \cup {db'.rows[m] : m \in DOMAIN db'.rows \ {n}} IN
             /\ row.addr \notin {None, kernel[row.iface]}
                /\ (n \in DOMAIN db.rows => db.rows[n].addr # row.addr)
                  => row.addr \notin {other.addr : other \in others}
                                    \cup {kernel[other.iface] : other \in others}
             /\ row.num # None /\ (n \in DOMAIN db.rows => db.rows[n].num # row.num)
                  => \/ row.num = NumberOf(live, row.table)
                     \/ row.num \notin Numbers(live) \cup {other.num : other \in others}]_vars
  BY FreshNext DEF AllInv, FreshRow
<1>. QED  BY <1>1, AllAlways, PTL DEF Spec, FreshIsFree

\* ClashesComeFromTheFile: the registry by itself never gives one number to
\* two interfaces.
THEOREM ClashesAreTheFiles == Spec => ClashesComeFromTheFile
<1>1. AllInv /\ [Next]_vars =>
        [\A m, n \in DOMAIN db'.rows :
           LET number == db'.rows[m].num IN
             m # n /\ number # None /\ number = db'.rows[n].num
               => \/ /\ {m, n} \subseteq DOMAIN db.rows
                     /\ db.rows[m].num = number /\ db.rows[n].num = number
                  \/ \E j \in {m, n} : NumberOf(live, db'.rows[j].table) = number]_vars
  BY ClashNext DEF AllInv, ClashExplained
<1>. QED  BY <1>1, AllAlways, PTL DEF Spec, ClashesComeFromTheFile

\* TableNumberIsForever: the number under which the kernel knows a tunnel's
\* table stays, although a stage may be installed long after it was written.
THEOREM TableNumbersStay == Spec => TableNumberIsForever
<1>1. AllInv /\ [Next]_vars =>
        [\A names \in TableNamings, i \in Names :
           NumberOf(live, names[i]) # None
             => NumberOf(live', names[i]) = NumberOf(live, names[i])]_vars
  <2>. SUFFICES ASSUME AllInv, [Next]_vars, NEW names \in TableNamings, NEW i \in Names,
                       NumberOf(live, names[i]) # None
                PROVE  NumberOf(live', names[i]) = NumberOf(live, names[i])
    OBVIOUS
  <2>1. PICK name, num : name = names[i] /\ num = NumberOf(live, name)
    OBVIOUS
  <2>2. name \in TableNames
    BY <2>1 DEF TableNames
  <2>3. Clean(live) /\ Clean(live')
    BY TablesNext DEF AllInv, TypesInv, WorldTyped, StageInv
  <2>4. Lists(live, name, num)
    BY <2>1, <2>3, CleanNumbers
  <2>5. Lists(live', name, num)
    BY <2>2, <2>4, TunnelLinesKept DEF AllInv, StageInv
  <2>. QED  BY <2>1, <2>3, <2>5, CleanNumbers
<1>. QED  BY <1>1, AllAlways, PTL DEF Spec, TableNumberIsForever

\* StagedCovers: what is reported as staged belongs together and covers the
\* registry, also after steps that failed and were tried again.
THEOREM StagesCover == Spec => []StagedCovers
<1>1. AllInv => StagedCovers
  <2>. SUFFICES ASSUME AllInv, pc = "staged", NEW i \in Registered(db)
                PROVE  /\ stage.conf[i] = [key |-> client, peer |-> db.peer[i]]
                       /\ stage.dropin[i] \in DOMAIN stage.script
                       /\ LET content == stage.script[stage.dropin[i]] IN
                            i \in DOMAIN content /\ content[i] = Prescribed(db, i)
                       /\ \E line \in Parsed(stage.tables) :
                            line.name = db.rows[IdOf(db, i)].table
    BY DEF StagedCovers
  <2>1. ConfRight(i) /\ ScriptRight(stage.dropin[i]) /\ TablesRight
    BY DEF AllInv, StageInv, Staging, Staged
  <2>2. PICK n \in DOMAIN db.rows : db.rows[n].iface = i
    BY DEF Registered, Rows
  <2>3. IdOf(db, i) = n
    BY <2>2 DEF IdOf, AllInv, RegistryInv, Good, WellFormed
  <2>4. n \in 1 .. Len(db.rows)
    BY <2>2 DEF AllInv, RegistryInv, Good, WellFormed, IsSequence
  <2>5. PICK num : Lists(stage.tables, db.rows[n].table, num)
    BY <2>1, <2>4 DEF TablesRight, Covers
  <2>6. \E line \in Parsed(stage.tables) : line.name = db.rows[n].table
    <3>1. Parsed(stage.tables) = {stage.tables[j] : j \in DOMAIN stage.tables}
      BY CleanParsed DEF AllInv, StageInv, TablesKept
    <3>. QED  BY <2>5, <3>1 DEF Lists
  <2>. QED  BY <2>1, <2>3, <2>6 DEF ConfRight, ScriptRight
<1>. QED  BY <1>1, AllAlways, PTL
=============================================================================
