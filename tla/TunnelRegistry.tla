--------------------------- MODULE TunnelRegistry ---------------------------
(***************************************************************************)
(* The tunnel client's registry (developer/tunnel-client, db/store), the   *)
(* private key files beside it, and the stage directory that is written    *)
(* from them.                                                              *)
(*                                                                         *)
(* One administrator issues one command after the other.  A command may    *)
(* die between any two of its writes; meanwhile and in between others      *)
(* change /etc/iproute2/rt_tables, the addresses in the kernel and the     *)
(* accounts in /etc/passwd.  A connection of sqlite3 collects its writes   *)
(* until some function commits: which of them does is part of the model.   *)
(***************************************************************************)
EXTENDS RoutingTables, FiniteSets

CONSTANTS
  Ifaces,        \* the machine's interfaces, in the order they are seeded
  Machines,      \* client machine names
  SeedKey,       \* the public key a db_init_server_* module holds
  OtherKeys,     \* keys that key_server_set may be given
  TableNamings,  \* the table names that the db_init_iface_* modules may give
  TableNumbers,  \* low .. high of the routing tables
  Hosts,         \* the address pool
  ForeignLines,  \* lines that others may add to rt_tables
  MaxMishaps,    \* bound on changes by others, deaths and failed writes
  MaxCommands    \* bound on the commands issued

Names == {Ifaces[n] : n \in DOMAIN Ifaces}

ASSUME TunnelAssumption ==
  /\ Ifaces \in Seq(STRING)
  /\ Ifaces # <<>>
  /\ IsInjective(Ifaces)
  /\ \A names \in TableNamings : DOMAIN names = Names
  /\ TableNumbers \in SUBSET Nat
  /\ Hosts \in SUBSET Nat
  /\ None \notin Nat \cup Machines \cup OtherKeys \cup {SeedKey}
  /\ \A line \in ForeignLines :
       /\ line.num \in Nat
       /\ \A names \in TableNamings, i \in Names : names[i] # line.name
  /\ MaxMishaps \in Nat
  /\ MaxCommands \in Nat

VARIABLES
  db,        \* what is committed
  work,      \* the same as the command's connection sees it
  keyfile,   \* key/<machine>: "none", "empty" or "key"
  stage      \* the stage directory

VARIABLES
  live,      \* /etc/iproute2/rt_tables
  kernel,    \* each interface's IPv4 address in the kernel
  accounts,  \* interfaces whose bound user has an account
  mishaps    \* number of changes to these three, of deaths and failures

VARIABLES
  pc,        \* where the command is; a resting one shows the last result
  k,         \* the interface a loop has come to
  naming,    \* the table names that this db_init gives
  client,    \* the machine a key is made for, or the stage is for
  retried,   \* staging: is this the second attempt at a step?
  ok,        \* stage_client_artifacts: has every step succeeded?
  seen,      \* history: the kernel's addresses that this db_init planned around
  issued     \* number of commands issued so far

storeVars == <<db, work, keyfile>>
worldVars == <<live, kernel, accounts, mishaps>>
localVars == <<k, naming, client, retried, ok>>
vars == <<storeVars, stage, worldVars, pc, localVars, seen, issued>>

\* db_schema.sql.  Iface's rows by their id; the tables Server, User and
\* Route by the interface they belong to (each has one server, of its own
\* name, one user and one route).  The public_key of a row is shown by the
\* machine whose private key it belongs to.
EmptyStore ==
  [schema |-> "absent",
   rows |-> <<>>,
   peer |-> [i \in Names |-> None],
   bound |-> [i \in Names |-> "unbound"],
   routes |-> {}]

Rows(store) == {store.rows[n] : n \in DOMAIN store.rows}
Registered(store) == {row.iface : row \in Rows(store)}

\* get_client_id
IdOf(store, i) == CHOOSE n \in DOMAIN store.rows : store.rows[n].iface = i

EmptyStage ==
  [conf |-> [i \in Names |-> None],
   script |-> [s \in {} |-> None],
   tables |-> <<>>,
   dropin |-> [i \in Names |-> None]]

\* The name stage_client gives the script; a second attempt runs
\* stage_IP_apply_script.py, which has a default of its own.
ScriptName == IF retried THEN "apply_IP_state.sh" ELSE "apply_ip_state.sh"

Resting == {"idle", "ok", "initialised", "staged", "error"}
InitSteps == {"schema", "iface", "server", "bind", "routes", "numbers", "addresses", "commit"}
KeySteps == {"keyfile", "keytext", "keydb"}
StageSteps == {"conf", "tables", "script", "dropin"}

NoneSeen == [i \in Names |-> None]

Init ==
  /\ db = EmptyStore
  /\ work = EmptyStore
  /\ keyfile = [m \in Machines |-> "none"]
  /\ stage = EmptyStage
  /\ live = <<>>
  /\ kernel = [i \in Names |-> None]
  /\ accounts = Names
  /\ mishaps = 0
  /\ pc = "idle"
  /\ k = 1
  /\ naming \in TableNamings
  /\ client \in Machines
  /\ retried = FALSE
  /\ ok = TRUE
  /\ seen = NoneSeen
  /\ issued = 0

-----------------------------------------------------------------------------
(* What others do. *)

Mishap ==
  /\ mishaps < MaxMishaps
  /\ mishaps' = mishaps + 1

Disturb ==
  /\ Mishap
  /\ UNCHANGED <<storeVars, stage, pc, localVars, seen, issued>>

\* Somebody else's table is added, under a name and a number that are free,
\* or dropped.
EditTables(line) ==
  /\ Disturb
  /\ \/ \E n \in DOMAIN live : live[n] = line /\ live' = RemoveAt(live, n)
     \/ /\ line.num \notin Numbers(live)
        /\ NumberOf(live, line.name) = None
        /\ live' = Append(live, line)
  /\ UNCHANGED <<kernel, accounts>>

\* 'ip addr' by hand, or what was once applied is gone.
EditAddress(i, host) ==
  /\ Disturb
  /\ kernel[i] # host
  /\ kernel' = [kernel EXCEPT ![i] = host]
  /\ UNCHANGED <<live, accounts>>

EditAccount(i) ==
  /\ Disturb
  /\ accounts' = IF i \in accounts THEN accounts \ {i} ELSE accounts \cup {i}
  /\ UNCHANGED <<live, kernel>>

-----------------------------------------------------------------------------
(* The commands' common parts. *)

Begin(label) ==
  /\ pc \in Resting
  /\ issued < MaxCommands
  /\ issued' = issued + 1
  /\ pc' = label
  /\ k' = 1
  /\ seen' = NoneSeen
  /\ UNCHANGED <<kernel, accounts, mishaps>>

Issue(label) == Begin(label) /\ UNCHANGED live

At(label) ==
  /\ pc = label
  /\ seen' = IF label = "addresses" THEN kernel ELSE seen
  /\ UNCHANGED <<worldVars, issued>>

\* The end of a command: the connection is closed without a commit, and the
\* locals are gone.
Return(result) ==
  /\ pc' = result
  /\ work' = db
  /\ k' = 1
  /\ ok' = TRUE
  /\ retried' = FALSE
  /\ UNCHANGED <<db, naming, client>>

Fail == Return("error") /\ UNCHANGED <<keyfile, stage>>

\* A command is killed, or fails for a reason outside the model.
Abort ==
  /\ Mishap
  /\ pc \notin Resting
  /\ Fail
  /\ UNCHANGED <<live, kernel, accounts, seen, issued>>

\* Write and commit: whatever the connection had pending goes along.
Save(store) == work' = store /\ db' = store

\* Write only: a later commit takes it along, a close drops it.
Pend(store) == work' = store /\ UNCHANGED db

\* A function that writes and commits only if there is something to change.
SaveIfChanged(store) == IF store = work THEN UNCHANGED <<db, work>> ELSE Save(store)

-----------------------------------------------------------------------------
(* db_init_StanleyPark: the schema, then all the rest on one connection.   *)

Then(label) ==
  /\ pc' = label
  /\ UNCHANGED <<keyfile, stage, k, naming, client, retried, ok>>

StartInit(names) ==
  /\ Issue("schema")
  /\ naming' = names
  /\ UNCHANGED <<storeVars, stage, client, retried, ok>>

\* db_schema_load.sh: sqlite3 commits every statement for itself, and IF NOT
\* EXISTS lets a later load finish what a broken one began.
LoadSchema ==
  /\ At("schema")
  /\ IF db.schema = "absent"
     THEN Save([db EXCEPT !.schema = "partial"]) /\ Then("schema")
     ELSE Save([db EXCEPT !.schema = "loaded"]) /\ Then("iface")

\* Slip: a row for every call.
ClientAppended(store, i, table) ==
  [store EXCEPT !.rows =
     Append(@, [iface |-> i, table |-> table, num |-> None, addr |-> None, pub |-> None])]

\* upsert_client without addr_cidr: a row that is there loses its address.
Client(store, i, table) ==
  IF i \in Registered(store)
  THEN [store EXCEPT !.rows[IdOf(store, i)].table = table,
                     !.rows[IdOf(store, i)].addr = None]
  ELSE [store EXCEPT !.rows =
          Append(@, [iface |-> i, table |-> table, num |-> None, addr |-> None,
                     pub |-> None])]

UpsertClient ==
  /\ At("iface")
  /\ SaveIfChanged(Client(work, Ifaces[k], naming[Ifaces[k]]))
  /\ Then("server")

\* Slip: a server that is there is left alone.
InsertServer ==
  /\ At("server")
  /\ SaveIfChanged([work EXCEPT !.peer[Ifaces[k]] = IF @ = None THEN SeedKey ELSE @])
  /\ Then("bind")

\* upsert_server: a key that key_server_set put there gives way.
UpsertServer ==
  /\ At("server")
  /\ SaveIfChanged([work EXCEPT !.peer[Ifaces[k]] = SeedKey])
  /\ Then("bind")

\* bind_user_to_iface: the uid is NULL while the user has no account.
BoundTo(store, i) ==
  [store EXCEPT !.bound[i] = IF i \in accounts THEN "uid" ELSE "no uid"]

BindUser ==
  /\ At("bind")
  /\ Pend(BoundTo(work, Ifaces[k]))
  /\ UNCHANGED <<keyfile, stage, naming, client, retried, ok>>
  /\ IF k < Len(Ifaces)
     THEN k' = k + 1 /\ pc' = "iface"
     ELSE k' = 1 /\ pc' = "routes"

\* seed_default_routes: leaving 'with conn' commits, changed or not.
SeedRoutes ==
  /\ At("routes")
  /\ Save([work EXCEPT !.routes = Names])
  /\ Then("numbers")

NumbersFail(store) ==
  \/ DuplicateTable(store.rows)
  \/ \E row \in Rows([rows |-> Numbered(store.rows, live, TableNumbers)]) : row.num = None

WithNumbers(store) == [store EXCEPT !.rows = Numbered(@, live, TableNumbers)]

AssignNumbers ==
  /\ At("numbers")
  /\ IF NumbersFail(work)
     THEN Fail
     ELSE SaveIfChanged(WithNumbers(work)) /\ Then("addresses")

AddressesFail(store) ==
  \E row \in Rows([rows |-> Addressed(store.rows, kernel, Hosts)]) : row.addr = None

WithAddresses(store) == [store EXCEPT !.rows = Addressed(@, kernel, Hosts)]

ReconcileAddresses ==
  /\ At("addresses")
  /\ IF AddressesFail(work)
     THEN Fail
     ELSE SaveIfChanged(WithAddresses(work)) /\ Then("commit")

CommitInit ==
  /\ At("commit")
  /\ Save(work)
  /\ Then("initialised")

-----------------------------------------------------------------------------
(* Commands of one transaction each. *)

Immediate(store) ==
  /\ UNCHANGED <<keyfile, stage, naming, client, retried, ok>>
  /\ IF db.schema = "loaded"
     THEN Issue("ok") /\ Save(store)
     ELSE Issue("error") /\ UNCHANGED <<db, work>>

Refuse == Issue("error") /\ UNCHANGED <<storeVars, stage, naming, client, retried, ok>>

\* db_bind_user_to_iface, as a command.
Bind(i) ==
  IF i \in Registered(db) THEN Immediate(BoundTo(db, i)) ELSE Refuse

\* db_init_ip_table_registration, as a command.
Register == IF NumbersFail(db) THEN Refuse ELSE Immediate(WithNumbers(db))

\* db_init_ip_iface_addr_assign, as a command.
Readdress == IF AddressesFail(db) THEN Refuse ELSE Immediate(WithAddresses(db))

\* key_server_set: a server of that name may not be there.
SetServerKey(i, key) ==
  Immediate(IF db.peer[i] = None THEN db ELSE [db EXCEPT !.peer[i] = key])

\* db_wipe: the files of db/, and only these.
WipeDb ==
  /\ Issue("ok")
  /\ Save(EmptyStore)
  /\ UNCHANGED <<keyfile, stage, naming, client, retried, ok>>

\* stage_wipe: whatever is in the stage directory.
WipeStage ==
  /\ Issue("ok")
  /\ stage' = EmptyStage
  /\ UNCHANGED <<storeVars, naming, client, retried, ok>>

\* The part of deploy_StanleyPark that this module is about: the staged
\* rt_tables is copied over the live one, whatever was done to that since
\* (TunnelHost has the deployment as a whole).
InstallTables ==
  /\ stage.tables # <<>>
  /\ Begin("ok")
  /\ live' = stage.tables
  /\ UNCHANGED <<storeVars, stage, naming, client, retried, ok>>

-----------------------------------------------------------------------------
(* key_client_generate: the private key's file first, then every row.      *)

StartKey(m) ==
  /\ Issue("keyfile")
  /\ client' = m
  /\ UNCHANGED <<storeVars, stage, naming, retried, ok>>

\* Slip: it overwrites.
OverwriteKeyFile ==
  /\ At("keyfile")
  /\ keyfile' = [keyfile EXCEPT ![client] = "empty"]
  /\ pc' = "keytext"
  /\ UNCHANGED <<db, work, stage, localVars>>

\* It refuses to overwrite; open(.., "w") leaves an empty file.
MakeKeyFile ==
  /\ At("keyfile")
  /\ IF keyfile[client] # "none"
     THEN Fail
     ELSE /\ keyfile' = [keyfile EXCEPT ![client] = "empty"]
          /\ pc' = "keytext"
          /\ UNCHANGED <<db, work, stage, localVars>>

WriteKeyFile ==
  /\ At("keytext")
  /\ keyfile' = [keyfile EXCEPT ![client] = "key"]
  /\ pc' = "keydb"
  /\ UNCHANGED <<db, work, stage, localVars>>

WithPublicKey(store, m) ==
  [store EXCEPT !.rows = [n \in DOMAIN @ |-> [@[n] EXCEPT !.pub = m]]]

RecordKey ==
  /\ At("keydb")
  /\ IF db.schema = "loaded"
     THEN Save(WithPublicKey(db, client)) /\ Then("ok")
     ELSE Fail

-----------------------------------------------------------------------------
(* stage_client_artifacts: the WireGuard confs, then rt_tables, script and *)
(* drop-ins.  A step that raises is tried once more as a command of its    *)
(* own; if that fails too the other step is taken all the same.            *)

StartStage(m) ==
  /\ Issue("conf")
  /\ client' = m
  /\ UNCHANGED <<storeVars, stage, naming, retried, ok>>

Stageable == db.schema = "loaded" /\ db.rows # <<>>

NextPart(label) ==
  /\ pc' = label
  /\ k' = 1
  /\ retried' = FALSE
  /\ UNCHANGED <<storeVars, naming, client>>

\* The end of the second step: return code 0 or 2.
StageDone(success) ==
  /\ Return(IF ok /\ success THEN "staged" ELSE "error")
  /\ UNCHANGED keyfile

\* _read_private_key: a file that is missing or empty will not do.
HasPrivateKey(m) == keyfile[m] = "key"

\* stage_wg_conf, one file: the private key and the peer.
StageConf ==
  /\ At("conf")
  /\ IF ~HasPrivateKey(client) \/ ~Stageable
     THEN NextPart("tables") /\ ok' = FALSE /\ UNCHANGED stage
     ELSE /\ stage' = IF Ifaces[k] \in Registered(db)
                      THEN [stage EXCEPT !.conf[Ifaces[k]] =
                              [key |-> client, peer |-> db.peer[Ifaces[k]]]]
                      ELSE stage
          /\ UNCHANGED ok
          /\ IF k < Len(Ifaces)
             THEN /\ k' = k + 1
                  /\ UNCHANGED <<storeVars, pc, naming, client, retried>>
             ELSE NextPart("tables")

\* _stage_rt_tables
StageTables ==
  /\ At("tables")
  /\ LET merged == MergedTables(live, db.rows, TableNumbers) IN
       IF ~Stageable \/ \E n \in DOMAIN merged : merged[n].num = None
       THEN StageDone(FALSE) /\ UNCHANGED stage
       ELSE /\ stage' = [stage EXCEPT !.tables = merged]
            /\ pc' = "script"
            /\ UNCHANGED <<storeVars, localVars>>

\* What the rendered script says of an interface.
Prescribed(store, i) ==
  LET row == store.rows[IdOf(store, i)] IN
    [pref |-> IdOf(store, i), addr |-> row.addr, table |-> row.table,
     routed |-> i \in store.routes, user |-> store.bound[i] = "uid"]

StageScript ==
  /\ At("script")
  /\ stage' = [stage EXCEPT !.script =
       [s \in DOMAIN @ \cup {ScriptName} |->
          IF s = ScriptName THEN [i \in Registered(db) |-> Prescribed(db, i)] ELSE @[s]]]
  /\ pc' = "dropin"
  /\ UNCHANGED <<storeVars, localVars>>

\* _write_dropin_for_iface, one file.
StageDropin ==
  /\ At("dropin")
  /\ stage' = IF Ifaces[k] \in Registered(db)
              THEN [stage EXCEPT !.dropin[Ifaces[k]] = ScriptName]
              ELSE stage
  /\ IF k < Len(Ifaces)
     THEN k' = k + 1 /\ UNCHANGED <<storeVars, pc, naming, client, retried, ok>>
     ELSE StageDone(TRUE)

\* A write to the stage fails: for a reason outside the model, or because
\* the script is there, with mode 0500, and it is not root that stages.
WriteFails ==
  /\ pc \in StageSteps
  /\ \/ Mishap
     \/ pc = "script" /\ ScriptName \in DOMAIN stage.script /\ UNCHANGED mishaps
  /\ UNCHANGED <<live, kernel, accounts, seen, issued, stage>>

\* Slip: the second attempt goes on where the first one failed.
StumbleOnward ==
  /\ WriteFails
  /\ IF ~retried
     THEN retried' = TRUE /\ UNCHANGED <<storeVars, pc, k, naming, client, ok>>
     ELSE IF pc = "conf"
     THEN NextPart("tables") /\ ok' = FALSE
     ELSE StageDone(FALSE)

Stumble ==
  /\ WriteFails
  /\ IF ~retried
     THEN /\ retried' = TRUE
          /\ pc' = IF pc = "conf" THEN "conf" ELSE "tables"
          /\ k' = 1
          /\ UNCHANGED <<storeVars, naming, client, ok>>
     ELSE IF pc = "conf"
     THEN NextPart("tables") /\ ok' = FALSE
     ELSE StageDone(FALSE)

-----------------------------------------------------------------------------

World ==
  \/ \E line \in ForeignLines : EditTables(line)
  \/ \E i \in Names : EditAccount(i) \/ \E host \in Hosts \cup {None} : EditAddress(i, host)

Command ==
  \/ \E names \in TableNamings : StartInit(names)
  \/ \E i \in Names : Bind(i) \/ \E key \in OtherKeys : SetServerKey(i, key)
  \/ Register \/ Readdress
  \/ WipeDb \/ WipeStage \/ InstallTables
  \/ \E m \in Machines : StartKey(m) \/ StartStage(m)

InitStep ==
  \/ LoadSchema \/ UpsertClient \/ UpsertServer \/ BindUser
  \/ SeedRoutes \/ AssignNumbers \/ ReconcileAddresses \/ CommitInit

KeyStep == MakeKeyFile \/ WriteKeyFile \/ RecordKey

StageStep == StageConf \/ StageTables \/ StageScript \/ StageDropin \/ Stumble

Next == World \/ Command \/ InitStep \/ KeyStep \/ StageStep \/ Abort

Spec == Init /\ [][Next]_vars

-----------------------------------------------------------------------------
(* Properties *)

RowType ==
  [iface : Names, table : UNION {{names[i] : i \in Names} : names \in TableNamings},
   num : Nat \cup {None}, addr : Hosts \cup {None}, pub : Machines \cup {None}]

StoreTypeOK(store) ==
  /\ store.schema \in {"absent", "partial", "loaded"}
  /\ store.rows \in Seq(RowType)
  /\ store.peer \in [Names -> OtherKeys \cup {SeedKey, None}]
  /\ store.bound \in [Names -> {"unbound", "no uid", "uid"}]
  /\ store.routes \subseteq Names

\* Every variable has its type; an interface has one row (UNIQUE), and a
\* server, a user or a route belongs to a row (REFERENCES Iface).
TypeOK ==
  /\ \A store \in {db, work} :
       /\ StoreTypeOK(store)
       /\ Cardinality(Registered(store)) = Len(store.rows)
       /\ \A i \in Names :
            store.peer[i] # None \/ store.bound[i] # "unbound" \/ i \in store.routes
              => i \in Registered(store)
  /\ keyfile \in [Machines -> {"none", "empty", "key"}]
  /\ kernel \in [Names -> Hosts \cup {None}]
  /\ accounts \subseteq Names
  /\ pc \in Resting \cup InitSteps \cup KeySteps \cup StageSteps
  /\ k \in DOMAIN Ifaces
  /\ naming \in TableNamings
  /\ client \in Machines
  /\ retried \in BOOLEAN /\ ok \in BOOLEAN
  /\ seen \in [Names -> Hosts \cup {None}]

\* The public key that the registry shows, and that servers are given, is
\* one whose private key is on file: whatever dies during a generation, and
\* whichever machine is given a key again.
KeyHasFile ==
  \A row \in Rows(db) : row.pub # None => keyfile[row.pub] = "key"

\* db_init that returns has made the registry what its modules say: each
\* interface with its table, a number, an address (the kernel's, if the
\* kernel had one when db_init planned), the server's own key, its user bound
\* and a default route; whatever was there, and wherever earlier runs had
\* died.
InitConverges ==
  pc = "initialised" =>
    \A i \in Names :
      /\ i \in Registered(db)
      /\ db.peer[i] = SeedKey
      /\ db.bound[i] # "unbound"
      /\ i \in db.routes
      /\ LET row == db.rows[IdOf(db, i)] IN
           /\ row.table = naming[i] /\ row.num # None /\ row.addr # None
           /\ seen[i] \in {None, row.addr}

\* Two interfaces do not come to one routing table in the registry by its own
\* doing: a clash is a step's only if rt_tables itself gives the number to one
\* of the two tables (the planner takes the file's number without a look at
\* the other rows).
ClashesComeFromTheFile ==
  [][\A m, n \in DOMAIN db'.rows :
       LET number == db'.rows[m].num IN
         m # n /\ number # None /\ number = db'.rows[n].num
           => \/ /\ {m, n} \subseteq DOMAIN db.rows
                 /\ db.rows[m].num = number /\ db.rows[n].num = number
              \/ \E j \in {m, n} : NumberOf(live, db'.rows[j].table) = number]_vars

\* A number or an address that the registry gives out is nobody else's: of
\* no other row as it was or as it is afterwards, the rows that are given one
\* in the same step included, of no line of rt_tables, of no interface it
\* knows.
FreshIsFree ==
  [][\A n \in DOMAIN db'.rows :
       LET row == db'.rows[n]
           others == {db.rows[m] : m \in DOMAIN db.rows \ {n}}
                       \cup {db'.rows[m] : m \in DOMAIN db'.rows \ {n}} IN
         /\ row.addr \notin {None, kernel[row.iface]}
            /\ (n \in DOMAIN db.rows => db.rows[n].addr # row.addr)
              => row.addr \notin {other.addr : other \in others}
                                \cup {kernel[other.iface] : other \in others}
         /\ row.num # None /\ (n \in DOMAIN db.rows => db.rows[n].num # row.num)
              => \/ row.num = NumberOf(live, row.table)
                 \/ row.num \notin Numbers(live) \cup {other.num : other \in others}]_vars

\* The kernel knows a table by its number and the scripts by its name: the
\* number that rt_tables once gives to a tunnel's table never changes under
\* it, from whichever stage the file is installed.
TableNumberIsForever ==
  [][\A names \in TableNamings, i \in Names :
       NumberOf(live, names[i]) # None
         => NumberOf(live', names[i]) = NumberOf(live, names[i])]_vars

\* What stage_client reports as staged belongs together: for each interface
\* of the registry its conf with the client's key and the server's, a
\* drop-in that names a script which is there and prescribes what the
\* registry holds, and a line for its table in rt_tables; also after steps
\* that failed and were tried again.
StagedCovers ==
  pc = "staged" =>
    \A i \in Registered(db) :
      /\ stage.conf[i] = [key |-> client, peer |-> db.peer[i]]
      /\ stage.dropin[i] \in DOMAIN stage.script
      /\ LET content == stage.script[stage.dropin[i]] IN
           i \in DOMAIN content /\ content[i] = Prescribed(db, i)
      /\ \E line \in Parsed(stage.tables) : line.name = db.rows[IdOf(db, i)].table
=============================================================================
