# subu: a verification project

`subu` ("sub-user") gives a Unix user, the *masu*, a tree of further users,
the *subu*, whose files live under `/home/<masu>/subu_data` and whose network
traffic can be bound to a WireGuard tunnel of their own.  This project models
the parts of the repository that change shared state of the host, checks them
with TLC on small instances and proves their main properties with TLAPS.

Sections: [Inventory](#inventory) - [Modules](#modules) -
[Modelling decisions](#modelling-decisions) - [Runs](#runs) -
[Proofs](#proofs) - [Divergences](#where-the-texts-and-the-code-differ) -
[Not modelled](#not-modelled) - [Plan](#plan)

## Inventory

### A. Release manager (`release/manager`)

The working subu manager.  `CLI.py` parses one command and calls one function
of `dispatch.py`; every exception ends in `rc 1`.

| part | state | operations |
|---|---|---|
| `infrastructure/unix.py` | `/etc/passwd`, `/etc/group`, supplementary memberships | `ensure_unix_group`, `ensure_unix_user`, `ensure_user_in_group`, `remove_user_from_group`, `remove_unix_user_and_group` |
| `domain/subu.py` | none | name conversion, `make_subu`, `remove_subu` |
| `infrastructure/db.py`, `schema.sql` | the SQLite file, table `subu` | `open_db`, `ensure_schema`; `dispatch.py` has the INSERT, DELETE and SELECTs |
| `infrastructure/options_store.py` | the file `subu.options`, keys `incommon.<masu>` | `load_options`, `save_options`, `set_option`, `get_option` |
| `dispatch.py` | mode of a subu's home | `db_load_schema`, `subu_make`, `subu_capture`, `subu_remove`, `subu_option_incommon` (set, clear); `subu_list` and `subu_info` only read |

The parts share all of their state with every other invocation: there is no
lock, no transaction over more than one statement, and no undo.  The hard
behaviours are therefore: two invocations whose steps interleave; an
invocation that dies between two steps, and its repetition; rows and option
values read at one step and used at a later one; row ids that SQLite hands out
again while the options file still names them; a membership loop that fails
half way.

Correct means: no membership ever crosses from one masu to
another; a recorded user has its group; `rc 0` means the effect of the command
is complete; whatever a death leaves behind can still be named by a command;
and the only accounts ever changed are those of subu.

`domain/{wg,network,options,exec}.py`, `infrastructure/bpf*.py` and the `lo`,
`WG`, `attach`, `network`, `exec` commands are stubs.

### B. Device-aware manager (`developer/manager`)

The next version: tables `device` and `subu_node`.  `device scan` walks
`/mnt/*/user_data/<masu>/subu_data` and reconciles each device in a
transaction of its own; `capture`, `attach`, `detach` and the boot service
`boot_attach` change the same tables.  Correct means: a node is online exactly
when its device was seen by the last reconciliation, belongs to the device it
was last seen on, and has an unbroken chain of parents.

### C. Tunnel client (`developer/tunnel-client`)

Two halves that meet in a directory of files.

The *registry* is a SQLite file with the tables `Iface`, `Server`, `Route` and
`User`, and beside it a directory of private keys.  `db_init_StanleyPark`
loads the schema, upserts each interface with its server and its user, seeds
routes, and plans routing-table numbers and tunnel addresses; the same
planners, the user binding, `key_client_generate` and `key_server_set` are
commands of their own.  `stage_client_artifacts` writes from it a tree of
files: a WireGuard conf per interface, `rt_tables`, the script
`apply_ip_state.sh`, a systemd drop-in per interface.

The *host* half is `install_staged_tree`, `start_iface`, `stop_clean_iface`,
`iface_up`, `iface_down` and `deploy_StanleyPark` (stop, install, start).  They
change files under `/etc` and `/usr/local/bin`, systemd's units, and the
kernel's links, addresses, routes and policy rules.

Hard here: which of many functions commits what others have written; numbers
and addresses that come from three places which others edit (the database,
`/etc/iproute2/rt_tables`, the kernel); steps that fail and are tried again as
another program with other defaults; straight-line scripts that go on when a
command fails, on a host where systemd runs the same script at the same time.

Correct means: a number or an address that is given out is nobody else's; two
rows clash only where `rt_tables` itself did; a re-run of the initialisation
converges from whatever a dead one left; what is reported as staged belongs
together; a deployment serves its interfaces from whatever state it finds; stop
undoes what start did; applying the state twice is the same as once; one
interface never disturbs another.

### D. Mount and login scripts (`developer/mount`, `developer/login`)

Shell scripts over the kernel's state: the LUKS mappings, the mounts at
`/mnt/<mapname>`, the binds at `/home/<masu>`, the bindfs views of the subu
homes on these, and login sessions.  `device_mapname__open_mount`,
`mapname_masu__to_home`, `masu_subu__map_own`, `masu__map_own_all`,
`logout_subu` and `device_umount` open, bind, show and undo.  Mounts stack, a
busy one cannot go, bindfs views get lost, and most failures are ignored.
Correct means: what a script says it has mounted is what is mounted; a view is
shown once and with the rights that were asked for; a logout gives up what
nothing keeps busy.

### E. C command server (`developer/cc`)

A prototype ("currently not used", its `README.org`): a Unix-socket server
that serves one client at a time and splits requests into lines, one command,
no state of its own; and a SQLite schema of users and events.

### F. Tooling, DNS, documents

Release and test scripts, nftables and unbound configurations, HTML.

## Modules

| module | models | its state |
|---|---|---|
| `SubuPaths` | names of `domain/subu.py`: owner, parent, ancestor groups | none (constants `Tokens`, `Paths`) |
| `UnixAccounts` | `infrastructure/unix.py` and what groupadd, useradd, usermod, gpasswd, userdel, groupdel do | `users`, `groups`, `members` |
| `SubuRegistry` | `schema.sql`, `db.py`, the SQL of `dispatch.py` | `dbFile`, `rows` |
| `OptionsStore` | `options_store.py` | `options` |
| `SubuManager` | composes the three: the commands of `dispatch.py` as processes | `openHomes`, and per invocation `pc`, `cmd`, `todo`, `loaded`; `issued` |
| `AccountPolicy` | abstract specification: what the manager promises the host | `users`, `groups`, `members` |
| `MCSubuManager` | the constants of the TLC instances | |
| `SubuManagerProofs` | theorems about part A, for concurrent invocations | |
| `SubuSequentialProofs` | theorems about part A, for one invocation at a time | |
| `DeviceRegistry` | part B: `CLI/domain/device.py`, `ensure_chain` of `CLI/domain/subu.py`, `device_scan`, `device_attach`, `device_detach` and `subu_capture` of `CLI/dispatch.py`, the tables of `schema.sql` | the world: `mounted`, `tree`, `changes`; SQLite: `db` (committed), `work` (the open transaction), `writer` (the write lock); per invocation `pc`, `todo`, `at`, `known`, `dirs`, `seen`, `goal`, `quiet`; `issued` |
| `DeviceBook` | abstract specification: what the device tables promise their readers, whole operations only | `device`, `node` |
| `MCDeviceRegistry` | the constants of its TLC instances | |
| `DeviceRegistryProofs`, `DeviceBookProofs` | theorems about part B | |
| `RoutingTables` | part C: `parse_rt_tables`, the planners of numbers and of addresses, the merge of `rt_tables`, as operators | none |
| `TunnelRegistry` | part C, registry and stage: every command that writes the database, the key directory or the stage | SQLite: `db` (committed), `work` (the connection's view); `keyfile`, `stage`; the world: `live` (`rt_tables`), `kernel` (addresses), `accounts`; the command: `pc`, `k`, `naming`, `client`, `retried`, `ok`; `issued`, `mishaps` |
| `TunnelHost` | part C, host: install, start, stop, deploy, the staged script, systemd's units | `kernel` (links, addresses, routes, rules), `disk` (installed files), `parents`, `unit`, `loaded`, `enabled`; per process `todo`; `result`, `last`, `alone`; `issued`, `reboots`, `mishaps` |
| `DeviceSession` | part D: the scripts of `developer/mount` | `mapping`, `mnt`, `home`, `session`; `todo`, `result`, `last`, `alone`; `issued`, `events` |
| `TunnelRegistryProofs` | theorems about the registry of part C | |
| `TunnelHostProofs` | theorems about the host of part C | |
| `DeviceSessionProofs` | theorems about part D | |
| `SequenceInduction` | lemmas on concatenated sequences, by induction over sets of naturals | |
| `MCTunnelRegistry`, `MCTunnelHost`, `MCDeviceSession` | the constants of their TLC instances | |

A command is a sequence of steps of one invocation `p`.  Part A:

| command | steps |
|---|---|
| `db load schema` | `LoadSchema` `ExecuteSchema` |
| `subu make` | `Make` `EnsureOwnGroup` `EnsureUser` `JoinAncestor`* `InsertSubuRow` `ReadIncommon` `FindIncommon` `JoinIncommon` |
| `subu capture` | `Capture` `EnsureOwnGroup` `JoinAncestor`* `InsertSubuRow` `ReadIncommon` ... |
| `subu remove` | `Remove` `UserDel` `GroupDel` `DeleteSubuRow` |
| `option set incommon` | `SetIncommon` `LoadOptions` `TruncateFile` `WriteFile` `SelectRows` `Grant`* `ChmodHome` |
| `option clear incommon` | `ClearIncommon` `CheckCurrent` `LoadOptions` `TruncateFile` `WriteFile` `SelectRows` `Revoke`* `ChmodHome` |

`Abort` may end any of them between two steps.

Part B, where every command opens its own connection:

| command | steps |
|---|---|
| `device scan`, `device attach` | `ScanStart`, for each device `NextDevice` `UpsertDevice` `ListOwners` `Walk`* `CommitDevice`, then `ScanDone` |
| `device detach` | `DetachDevice` |
| `subu capture` | `Capture` `CaptureInsert` |

`Fail` is the way out on an exception, `Busy` on a lock that is not given up in
time, `Abort` on a death; `close()` rolls back in all three.  `Mount`,
`Unmount`, `MakeDir` and `RemoveDir` are what the mount scripts and the users
do under `/mnt` meanwhile.

Part C, registry, one command after the other:

| command | steps |
|---|---|
| `db_init_StanleyPark` | `StartInit` `LoadSchema`\*, for each interface `UpsertClient` `UpsertServer` `BindUser`, then `SeedRoutes` `AssignNumbers` `ReconcileAddresses` `CommitInit` |
| `db_bind_user_to_iface`, `db_init_ip_table_registration`, `db_init_ip_iface_addr_assign`, `key_server_set` | `Bind`, `Register`, `Readdress`, `SetServerKey`: one transaction each |
| `key_client_generate` | `StartKey` `MakeKeyFile` `WriteKeyFile` `RecordKey` |
| `stage_client_artifacts` | `StartStage` `StageConf`\* `StageTables` `StageScript` `StageDropin`\*; `Stumble` is a write that fails, and the second attempt |
| `db_wipe`, `stage_wipe`, and of a deployment the copy of `rt_tables` | `WipeDb`, `WipeStage`, `InstallTables` |

`Abort` is a death between two steps; `EditTables`, `EditAddress` and
`EditAccount` are what others do to the host meanwhile.

Part C, host, and part D: a command is a *program*, a sequence of operations
that a process has still to run (`todo`); an operation that is itself a program
puts its operations at the head of the queue.

| command | program |
|---|---|
| `deploy_StanleyPark` | `Deploy`: `StopProgram` of each interface, `InstallProgram`, then `BeginStart` of each, with its switches |
| `stop_clean_iface` | `StopClean`: `SystemctlStop` `WgDown` `CleanRules`\* route flush, address flush, link del |
| `start_iface` | `Start`: with `--force` the link is taken down; then `SystemctlStart` `ApplyState` |
| systemd's start of a unit | `SystemctlStart` `WgUp` (or `WgUpFails`) `ExecStartPost` `UnitStarted` |
| `apply_ip_state.sh` | `ApplyScript`, each of its `ip` commands a `KernelStep` |
| `iface_up.sh`, `iface_down.py` | `IfaceUp`; `IfaceDown`: `SystemctlStop` `LookUpTable` |
| `device_mapname__open_mount.sh` | `OpenMount`: `LuksOpen` `MountDevice` |
| `mapname_masu__to_home.sh` | `ToHome`: `BindHome` |
| `masu_subu__map_own.sh`, `masu__map_own_all.sh` | `MapOwn`, `MapOwnAll`: per subu `FindSource` `Unstack`\* `MountView` |
| `logout_subu.sh` | `Logout`: `Terminate`\* `Kill`\* `UmountHome` `UmountDevice` `CloseDevice` |
| `device_umount.sh` | `DeviceUmount`: `UmountDevice` |

`Interrupt` cuts the administrator's program off between two operations.
After a `Reboot` each enabled unit is a process of its own, and they run
interleaved.  `Login`, `LoseView` and `LuksOpenFails` are what happens to the
mounts from outside; a session ends by itself (`SessionEnds`) at any time.

## Modelling decisions

* **Names.** A path is the sequence of its tokens and stands for the Unix
  name that `subu_username` joins from it.  The join is one to one for tokens
  without inner blanks (`_` is refused by the code), which is what `Paths`
  holds.  What happens with inner blanks is listed as a hazard and not modelled.
* **Grain.** A step is what no other invocation can divide: one command on the
  account files, which the shadow tools lock; one SQL statement, which is its
  own transaction; the opening of the options file with `"w"`, which truncates
  it, apart from the write that follows.  The test in front of each account
  command (`if not user_exists ...`) is folded into the command: the command
  makes the same test again under its lock, and if the answer changed in
  between it fails, which is an `Abort` of the model.
* **Failure.** `Abort` stands for a kill and for every failure the model has
  no reason for (a logged-in user, a locked file).  Failures that do have a
  reason in the model are `ELSE` branches to `"error"`.  `gpasswd` failures are
  ignored by the code, and by `Revoke`.
* **userdel** removes the user's own group as well when `USERGROUPS_ENAB` is
  set and it has no other members; `DeleteUser` allows both settings.
* **Options.** A value `subu_<id>` is the id; a missing key and the empty
  value that `clear` writes are both `NoId`, because every reader tests
  truthiness.
* **Ids.** `id INTEGER PRIMARY KEY` without AUTOINCREMENT: the largest id plus
  one.  The ids of deleted last rows come back; the options file may name them.
* **Schema.** `CREATE TABLE` is one statement, so a death leaves an `"empty"`
  file or a `"ready"` one; `Init` allows all three states of the file.
* **Legacy accounts.** masus exist before the manager is used; `Groupless`
  are existing users whose own group is missing, the case for which `capture`
  calls `ensure_unix_group`.
* Definitions marked `Slip:` are no part of the specification.  Each is a
  plausible mistake in the definition that follows it, used to show that a
  property would notice the mistake.

Of part B:

* **Transactions.** Python's `sqlite3` runs a SELECT on its own until the
  connection's first write; that write opens a transaction and takes the one
  write lock, which `commit` or `close` gives back.  So the SELECT of
  `_upsert_device` is a step before the lock (`NextDevice`) and its INSERT or
  UPDATE the step that takes it (`UpsertDevice`), and the row may have come in
  between.  Everything up to the commit works on `work`.
* **Capture** makes several SELECTs before its first INSERT.  Rows are never
  deleted, so they read as one; what others insert before `CaptureInsert` is
  a UNIQUE failure.
* **One scan.** `device scan` runs the scan twice in one invocation
  (`CLI.py:197` and `:286`), `device attach` once; a scan command of the
  model is one such run, so that `device scan` is two commands in a row.
* **Order.** Devices and directories are taken in any order; the code takes
  them by name and from a stack.
* **Rows** are keyed by their UNIQUE columns, mapname and full_unix_name;
  nothing is deleted, so ids say no more.  Times, `kind` and `mount_point`
  are left out, as no behaviour depends on them.
* **Names.** `RefusedTokens` are directory names that `_validate_token`
  refuses; one such directory ends the scan with `SystemExit`.
* **Assumed**: the tables are loaded (`CLI.py` names a `db_load_schema` that
  `dispatch.py` does not have) and the mount points exist.  Every `subu` verb
  fails in `CLI.py:291`, before dispatch; capture is modelled as `dispatch.py`
  has it, for the day it is reached.
* `quiet` is a history variable: nothing under `/mnt` has changed since the
  upsert of the scan's device.  No guard reads it.

Of part C:

* **Commits.** Python's `sqlite3` collects the writes of a connection; `work`
  is what it sees, `db` what the last commit left.  Which function commits, and
  whether also when it has changed nothing, is translated case by case (`Save`,
  `SaveIfChanged`, `Pend`): `BindUser` does not, so that its row is taken along
  by whatever commits next or lost with the command.
* **Schema.** The `sqlite3` shell commits each statement for itself, hence the
  `"partial"` schema; `IF NOT EXISTS` lets the next load finish it.
* **Data.** An address is its host number in the pool; an interface has one
  server of its own name, one user and one route, as in the site's seeds.
  Endpoints, keep-alives and the prefix length are left out.  A public key is
  shown by the machine whose private key it belongs to.
* **Second attempts.** `stage_client` runs a step in its own process first, and
  a failed one again as a command; the command's default name for the script is
  another one (`ScriptName`).
* **The kernel refuses silently.** An `ip` command that cannot be carried out
  has no effect (`Effect`), because the scripts run on: an address or a route
  without its link, a rule that is already there, a table without a name.  A
  deleted link takes its addresses and routes with it.
* **External**: `ip`, `wg-quick`, `systemctl`.  A conf has `Table = off` and no
  `Address`, so wg-quick makes the bare link, and refuses if it is there.
  systemd may or may not have read a drop-in that was installed without a
  daemon-reload (`SystemctlStart` chooses).
* **Table names.** The staged script names a table by `rt_table_name`
  (`TableOf`), `stop_clean_iface` looks for rules and routes under the
  interface's own name (`PrefsLookingUp`, `FlushNamesake`).  The two are the
  same only where the registry leaves the name at its default or sets it so;
  no table bears the name of another interface (`HostAssumption`).  Rules are
  compared by name: a rule whose table has lost its line in `rt_tables` would be
  listed by number, which does not happen here because a stage keeps the lines
  that it finds.
* `TunnelHost` takes the trees that may be installed as a constant, with one
  script, `apply_ip_state.sh`, as `start_iface.py:98` has it; that a staged tree
  belongs together is `StagedCovers` of `TunnelRegistry`.
* `seen`, in `TunnelRegistry`, is a history variable: the addresses the kernel
  had when `db_init` planned.  No guard reads it.
* `last` and `alone` are history variables: the command last begun, and whether
  anything came between since.  No guard reads them.

Of part D:

* `home[m]` is the stack of binds at `/home/m`, each with the stack of views on
  it; an umount takes the topmost one, and none while it carries a view or a
  session.  A lazy umount (`Unstack`) always takes the view out of sight.
* One administrator runs the scripts one after the other.
* **Signals.** `loginctl terminate-user` and `pkill -KILL` signal, and
  `logout_subu` waits half a second in all.  So the session is gone after
  `Terminate` or `Kill`, or it is still there (`Signal`) and ends later
  (`SessionEnds`), before, during or after the umount that it makes fail.
* **Refused umounts.** The umount of `/mnt/<name>` fails while anybody works
  there, and both scripts go on (`UmountDevice`, where the choice is free: the
  model does not know who works there).
* `LongerNames` are the names that begin with a name, because `open_mount` looks
  for one with a prefix match.
* `last` and `alone` are history variables, as above.

Bounds, all in guards: `MaxId` row ids (`InsertSubuRow`), `MaxCommands`
commands (`Issue`, `Begin`, `IfaceUp`, `Refuse`), `MaxChanges` changes under
`/mnt` (`Disturb`), `MaxMishaps` edits by others, deaths and failed writes
(`Mishap`, `Interrupt`, `WgUpFails`), and `MaxEvents`, in `TunnelHost` commands
and reboots (`MayBegin`, `Reboot`), in `DeviceSession` logins, lost views,
failures and interruptions (`Event`).  The command bound
stops the system, hence `CHECK_DEADLOCK FALSE`; without it an invocation can
always be issued.  In part A no invocation waits for another.
In part B one waits for the write lock, and `CommandsReturn` says that it does
not wait for ever.

## Runs

| run | instance | shows |
|---|---|---|
| `sequential` | 1 masu, paths `T a`, `T a b`, `T b`; one invocation at a time, 6 commands, deaths anywhere | `MakeEstablishes`, `RemoveErases`, `SetShares`, `ClearWithdraws`: rc 0 means a complete effect, also when the command repeats one that died; `RecordedAfterUnix`, `ForgottenAfterUnix`: the row is the last to come and the last to go |
| `concurrent` | 2 masus, 3 paths, one of them a legacy user without group; 2 invocations at once, 5 commands, deaths, failing gpasswd | `OwnerIsolation`, `RecordedUserHasGroup`, `KeepsPolicy`, and the strengthenings `LoopsWithinOwner`, `GrouplessIsUntouched` |
| `clear_loses_traversal`, `lost_option` | the smallest instance that shows it | two statements of the repository's texts that the code does not keep |
| `device_reconcile` | 2 devices that are mounted, unmounted and changed (2 changes), a subu, a subu below it and a directory with a refused name; 2 invocations, 3 commands, deaths | `LockIsOfTheWalker`: every way out of a scan gives the lock back; `ChainsUnbroken`, `DevicesOfNodesRecorded`: parents and devices of nodes are recorded; `CommitTouchesItsDevice`: no commit undoes another's; `QuietScanIsExact`: an undisturbed scan records what the device holds; `CommandsReturn`: a command under way ends; `ImplementsBook`: the committed tables change only by the whole operations of `DeviceBook` |
| `rescan_stays_offline` | one invocation at a time, 3 commands | a comment of `reconcile_device` that the code does not keep |
| `tunnel_registry` | 2 interfaces, 1 machine, the seeded server key and another, 3 table numbers, 3 addresses, 2 namings of the tables, 1 foreign line; 6 commands, 1 mishap | `KeyHasFile`, `InitConverges`, `ClashesComeFromTheFile`, `StagedCovers`, `FreshIsFree`, `TableNumberIsForever` |
| `tunnel_deploy` | 2 interfaces, the table of one under another name, 2 staged trees, 3 uids, 3 addresses; a fresh host or one that is booting from the first tree; 2 commands or reboots (one fewer if it boots), 1 interruption or failing wg-quick | `DeployServes`, `BootServes`: served from whatever state; `StopLeavesNothing`: but for the rules of the renamed table; `ApplyIsIdempotent`; `OthersUndisturbed`; `CommandsReturn` |
| `one_uid_routed` | the same | a comment of the schema that the generated script does not keep |
| `rules_stay_behind` | the same | what `stop_clean_iface` says of itself, and does not do for a renamed table |
| `device_session` | 2 partitions, 2 names of which one begins with the other, 2 masus, 2 subus; 5 scripts, 1 event; sessions end, or outlive the signals, and umounts are refused at any time | `ViewsAsAsked`, `LogoutReleases`, `OpenMountsTheDevice` |
| `other_device_mounted` | 2 partitions under one name, 3 scripts, no event | a sentence of `developer/mount/README.org` that `open_mount` does not keep |

Six commands are enough for load, make of a parent and a child, set, a death
in the middle of clear, and its repetition; or for make, set, remove, and a
make that gets the freed id.  Two invocations are enough for every race of the
code, because each shared object is read and written by pairs of steps.
The parent, child and sibling give every shape of an owner's row set that the
membership loops can meet; the second masu is there for the row ids both use.

The four `rc 0` properties and the two order properties are *not* claimed for
concurrent invocations: a removal that overlaps a make of the same name
refutes them, and the code offers nothing against it.  The concurrent run
checks what does hold then.

No liveness is stated for part A: a command is a straight sequence of steps
with loops over finite sets, it waits for nobody, and the operator is under no
obligation to repeat one that died.

In `device_reconcile` three commands let two scans meet a capture or a detach,
or a scan, a detach and a second scan follow one another; two changes let a
device go and come back, or a directory appear behind the walk, within one
transaction.  The second device is what tells a scan's own rows from others'.
Device `E` starts with the masu's empty directory, so that one change puts a
node there that another device has already.

In `tunnel_registry` six commands are enough for an initialisation, a key, a
staging, a wipe, a second initialisation and a staging or an installation of
what the first one staged; the mishap is a death, a failed write or an edit in
any of them.  Three numbers and three addresses for two interfaces leave room
for one that others have taken, and exhaust the pool when the foreign line and
a stale row hold one each.  Two namings let a later module rename a table.
487,698 distinct states.

In `tunnel_deploy` two commands are a deployment after whatever a first
command left: a deployment of the other tree, a stop, a start, an interrupted
one.  A host that boots from the first tree runs the units of both interfaces
at the same time, and one command meets them on their way or comes after them;
so does a reboot after a deployment.  Commands that take interfaces are given
both (`Selections`), as the site's are: one is then stopped or served while the
other still is on its way.  The second tree gives one interface another address
and a second user, which is what a stale rule or address would show by.
229,970 distinct states, 92 steps deep.

In `device_session` five scripts are open, bind, view, logout and one more (an
umount that leaves the mapping behind, a second bind, a second open); the event
is a login that makes an umount fail, or an interruption.  429,108 distinct
states.

Fairness in `device_reconcile`, for `CommandsReturn` only: `WF_vars(Continue(p))`.  An invocation is
a process of its own, which the operating system keeps scheduling; nobody has
to issue a command, change a disk or die.  `Busy` is part of `Continue`
because sqlite itself gives up waiting after its timeout (5 s by default in
Python); it may be taken as soon as somebody else holds the lock.

Fairness in `tunnel_deploy`, for `CommandsReturn` only: `WF_vars(Step(p))` of
each process, for the same reason; systemd's jobs are processes too.  Nothing
is assumed of the administrator, of reboots or of failures.  What could keep a
command from ending is `_clean_iface_ip_state`, which deletes rules until it
finds none, and a `systemctl start` of a unit that is being started; the
code's ten rounds and the progress of the other process are what ends them.
No fairness is assumed in the other runs, and no liveness stated: their
commands are straight sequences with loops over finite sets, one at a time.

## Proofs

The theorems about part A hold for any tokens and paths, any number of
invocations, commands and ids, with or without deaths; they rest on `PathsAssumption` and
`ManagerAssumption` (paths are token sequences of length at least two; legacy
accounts are accounts of the system), which TLC evaluates in each run.

* `TypeCorrect == Spec => []TypeOK`.  `WorksOnPath` is the part that carries
  weight: an invocation past its first step works on a path of the system, so
  the account commands never see a masu's account.  One step per action, each
  from the lemmas on `Goto`, `Loop`, `Return` and `Issue`.
* `RecordedHasGroup == Spec => []RecordedUserHasGroup`.  Not inductive: between
  groupadd and INSERT a removal can delete the group, so that the row would be
  written for a groupless user.  `GrouplessIsUntouched` adds that an existing
  user without its group is not one that a make or capture past its groupadd
  works on.  Inductive because the set of groupless users never grows
  (`GrouplessStep`): groupdel is refused while the user exists, useradd needs
  the group.
* `OwnersIsolated == Spec => []OwnerIsolation`.  `LoopsWithinOwner`: what a
  loop has still to visit is of the owner of the command's subu.  It rests on
  the `AND owner = ?` of the SELECT for the option's id and on
  `AncestorsOfOneOwner`.
* `GrouplessStayUntouched == Spec => []GrouplessIsUntouched` and
  `LoopsHold == Spec => []LoopsWithinOwner`: the two strengthenings, stated for
  themselves because they say what the loops and the groupadd rely on.
* `ManagerKeepsPolicy == Spec => KeepsPolicy`.  The refinement mapping is the
  identity on the account variables; each step is a policy step or a stutter,
  by the same two invariants.

The six theorems of `SubuSequentialProofs` are about one invocation at a time,
`OneInvocation /\ Spec => ...`: what overlapping invocations do to each other's
`rc 0` is refuted by TLC and claimed nowhere.  Earlier commands may have died
at any step.

* `MakesEstablish`, `RemovesErase`, `SetsShare`, `ClearsWithdraw`: `rc 0` means
  the complete effect, also when the command repeats one that died.
  `SequentialInv` says at each label what the invocation has achieved: the
  label tells the operation (`KnowsOp`), the account and its memberships but
  for the ancestors left (`MakeProgress`), the row that was found and what is
  already gone (`RemoveProgress`), the saved option and the members behind the
  loop (`OptionProgress`).  `MembersExist` is needed because the removal skips
  a user that is already missing, with whatever memberships it would have had.
  `ClearsWithdraw` excludes failing `gpasswd`, as its property does.
* `RecordsFollowUnix`, `ForgettingFollowsUnix`: the row is the last to come and
  the last to go; from the same invariant.

The theorems about part B hold for any devices, trees, changes and invocations,
from `PathsAssumption` and `DeviceAssumption` (a path's ancestors of length at
least two are paths; the markers are no devices, rows or invocations).

* `DevicesTyped == Spec => []TypeOK`: a scan past its SELECT has a device.
* `LockReleased == Spec => []LockIsOfTheWalker`.  Inductive with `TypeOK`: the
  lock is taken by the step that starts a walk, and `Fail`, `CommitDevice` and
  nothing else end one.
* `ChainsStayUnbroken == Spec => []ChainsUnbroken`.  `EnsureChains` keeps
  `Unbroken` whatever paths it is given, because a chain holds the parents of
  its members; capture's missing nodes together with what is recorded hold
  their parents too.
* `CommitsAreLocal == Spec => CommitTouchesItsDevice`.  The property is about
  `db` before and after a commit, the code changes `work` in many steps:
  `WorkFollowsDb` says at each of them how the two may differ, and that they
  are equal while nobody holds the lock.
* `QuietScansAreExact == Spec => QuietScanIsExact`.  `WalksCover`: while the
  scan is undisturbed, every subu directory of the device has been seen or lies
  below one still to be listed; what was seen is recorded and is a directory.
  `FreshWalk`: nothing has been seen before the owners are listed.  With nothing
  left to list this is the property.

* `DevicesRecorded == Spec => []DevicesOfNodesRecorded`.  Not inductive: a node
  is recorded by a commit, in whose transaction its device's row was upserted
  long before, or by a capture, which has looked its device up in an earlier
  step.  `BookInv` says for each invocation what it has *drafted*, the committed
  tables with its device online and what it has seen so far, and what it has
  been *promised*, a device that has a row and a chain of which the rest is
  recorded.  It is inductive because rows are never deleted (`Grows`) and
  nobody else commits while a draft holds the lock.
* `RegistryImplementsBook == Spec => ImplementsBook`.  The refinement mapping
  takes the committed tables for those of `DeviceBook`.  `CommitForm` gives the
  tables after a commit from those before and the set seen; with `BookInv`,
  which also says that what was seen includes the chains of its members, a
  commit is a `Reconcile` with that set, a capture's insert a
  `CaptureChain`, a detach a `Detach`, and every other step, roll-backs and
  deaths included, leaves the committed tables alone.

The theorems about the registry of part C hold for any interfaces, machines,
keys, pools, lines of `rt_tables`, edits by others and deaths, from
`TunnelAssumption` (there is an interface; numbers and addresses are numbers;
`None` is nothing else; foreign lines do not use the interfaces' table names).

* `KeysHaveFiles == Spec => []KeyHasFile` and
  `InitsConverge == Spec => []InitConverges`.  Both from one `RegistryInv`:
  the stores are well formed (one row for each interface) and show only keys on
  file (`Good`); a generation that is about to record its key has written it
  (`Keys`); and at each step of an initialisation the connection sees what the
  steps before were to achieve (`Progress`), for the interfaces before `k` and
  for the half-done one.  `SeededKept` and `ClientForm` say that a later step
  does not undo an earlier one.
* `RegistryTypes == Spec => []TypeOK` (`TypesInv`): numbers are naturals,
  addresses are the host's, and nothing belongs to an interface without a row.
* `StagesCover == Spec => []StagedCovers` (`StageInv`): what is reported as
  staged belongs together, whichever attempts failed: each conf, script entry
  and drop-in is right from the step that wrote it on (`Staging`), and the
  merged `rt_tables` lists every table of the rows (`TablesRight`).  It needs
  `Clean`: a file whose names and numbers are each used once stays one.
* `FreshAreFree`, `ClashesAreTheFiles`, `TableNumbersStay`: a number or address
  that is given out is nobody else's, those given out in the same step included;
  two rows come to share a number only through what `rt_tables` says; the number
  of a tunnel's table, once listed, is never changed.  Of foreign lines the last
  says nothing: an installation may drop them.

`RoutingTables` goes through rows and lines in turn, by recursive functions.
What they compute for any number of rows (`IsParsing`, `IsMerging`,
`IsNumbering`, `IsAddressing` and the lemmas after them) is proved by
`NatSetInduction` of `SequenceInduction`: induction over a *set* of naturals,
which a lemma can take as a constant where the library's theorems take a
predicate.  The lemmas on `FlattenSeq`, which the programs of `TunnelHost` and
`DeviceSession` are built with, are proved the same way.

The theorems about the host of part C hold for any interfaces, identifiers,
trees, selections, commands, reboots, kills and failures, from
`HostAssumption` (identifiers are positive and different, tables have different
names and none that of another interface; trees speak of the interfaces;
commands are given interfaces).

* `HostTypes == Spec => []TypeOK`, from `HostInv`, which says of each process
  which commands can be in its queue (a unit's has commands for its own
  interface and for the prohibit only) and of each preference which rules can
  be there.  One lemma per program that it consists of such commands, one per
  command that the kernel keeps its form.
* `TunnelsApart == BlocksApart /\ Spec => OthersUndisturbed`.  `BlocksApart`
  says that no interface has the identifier 105: its block of preferences
  begins at 17000 + 1050, which is the prohibit's, and the scripts of all
  others would delete its rule.  The code gives out identifiers from 1 on and
  nothing keeps it from 105.  By cases over `Effect`: `Of(k, j)` is untouched
  by a command for another interface (`EffectElsewhere`).
* `TenRoundsAreEnough`: no preference of a tunnel holds more than two rules.
  An addition comes right after its own deletion (`QueuesTidy`, which holds
  when a process is cut off anywhere, or its first deletion has been run), and
  only the administrator's process and the unit's own touch a tunnel's
  preferences, so that `TwoRules` is inductive: the rules there, and one for
  each of the two that is about to add, are at most two.
* `StopLeavesNothingBehind == BlocksApart /\ Spec => []StopLeavesNothing`.
  Of the rules it speaks for the interfaces whose table bears their name.
  `StopInv` says of a stop that runs alone: for each of its interfaces the link
  is gone or its deletion is still in the queue, and the rules are gone or
  rounds enough for the longest preference are still to come (`EnoughRounds`,
  where the round that is running counts until it has come to the preference).
  It starts from `TwoRules`: ten rounds are more than two.
* `ApplyTwiceIsOnce == Spec => []ApplyIsIdempotent`, without the condition on
  105.  Each pair of the script's commands, and so any concatenation of them
  (`ConcatSets`), makes of a kernel what a *setting* says (`Sets`, `Assigned`):
  addresses and routes to have, and a rule for some preferences, none of which
  depends on what is there.  One setting after another is a setting, and the
  same one twice is the same as once (`AssignedTwice`, `AssignedAgain`).
  `RunConcat` says that a program's run is the run of its parts.

* `BootServed == BlocksApart /\ Spec => []BootServes`.  What a script says of an
  interface is taken apart into *parts* (`Wanted`: address, source rule, route,
  users' rules, prohibit), each with the commands that do it and those that undo
  it (`Does`, `Undoes`).  A part is `Due` when it holds or a command that does
  it is in *some* process' queue; in every queue each undoing command has a
  doing one behind it (`Redone`).  So the units may delete the prohibit of one
  another in any order: whoever deletes it adds it after (`DueStays`).  `Booting`
  says in addition where each unit is on its way: link still to be made, script
  still to be run (`Coming`), or script under way with every part due
  (`SettingUp`).  `BootInv` says that as long as nothing has come between since
  the boot (a command ends it, a failing `wg-quick` makes `alone` false).
* `DeploymentServes == BlocksApart /\ Spec => []DeployServes`.  `DeployInv`
  follows the deployment through its queue.  `Preparing`: stop commands, then
  installations, then starts; every interface that is stopped loses its unit,
  link and rules yet (`UnitGoes`, and `Clearing` as in `StopInv`), and a script
  is there or comes (`ScriptComes`: the first installation, whatever was on the
  host).  When the starts are all that is left, nothing of the stopped
  interfaces is in the kernel, and `Starting` takes over: each interface's
  script has still to be run or every part is due once there is a link; an
  interface that was stopped has its link or will (`LinkComes`), and nothing but
  what the script says (`NothingElse`, for the rules again where the table bears
  the interface's name).  It needs that every `systemctl start`
  and `wg-quick up` has its `apply` behind it, so that a link that comes up
  while systemd does not know the drop-in is served all the same; and that a
  deployment which raises (a missing drop-in directory) does not return 0.

The theorems about part D hold for any partitions, names, masus, subus and
lists, with sessions, lost views, failures and interruptions at any point, from
`SessionAssumption`.

* `SessionTypes == Spec => []TypeOK`, from `SessionInv`: which commands can be
  in the queue; that no partition is open twice and what is mounted or bound is
  open (`Devices`, `Homes`); that a session lives on a bind that is there.
* `OpenMountsIt`, `ViewsAreAsAsked`, `LogoutReleasesIt`: an invariant each
  (`OpenInv`, `OwnInv`, `LogoutInv`) says what is already so and what the rest
  of the queue will bring.  The first is about opens for which nothing else has
  the name or the partition (`Free`); the last says of every logout with a device
  that only what is still mounted keeps it open, and of an idle home
  (`HeldByIdleHome`) that it is given up.  For the views: of each subuser's old views and the
  new one, both, only the new one, or none are still to come
  (`ViewOnItsWay`), whatever the length of the list.

What only TLC checks: the liveness `CommandsReturn` of `DeviceRegistry` and of
`TunnelHost`, which is out of the prover's reach (fairness, ENABLED).  Every
other property of a passing run is stated by a theorem.

## Where the texts and the code differ

1. `clear_loses_traversal`: clearing incommon of a subu, set or not, takes its
   descendants out of the group they need to pass its directory
   (`domain/subu.py:139`).
2. `lost_option`: `set_option` writes all keys, not "a single" one
   (`options_store.py:46`).
3. `rescan_stays_offline`: a scan after a detach leaves the nodes it finds
   offline; "ensure the chain exists and is marked online" holds of new rows
   only (`developer/manager/CLI/domain/device.py:90`).
4. `one_uid_routed`: "many linux users → one Iface", "each user is bound to an
   iface via an 'ip rule add uidrange ..' command"
   (`developer/tunnel-client/db_schema.sql:66`), but the script resets every uid
   of an interface at one preference, and the last one's rule is what remains.
5. `rules_stay_behind`: `stop_clean_iface` is to "clean IP state
   (rules/routes/addresses)" (`developer/tunnel-client/stop_clean_iface.py:5`),
   but looks for them under the interface's name, while the script makes them
   under `rt_table_name` (`stage_IP_apply_script.py:369`).  The routes go with
   the link, the rules stay.
6. `other_device_mounted`: "the remote device is mounted under /mnt/map_name"
   (`developer/mount/README.org:23`), but a failed luksOpen does not stop
   `open_mount`, which then mounts what the name maps: the partition that an
   earlier `device_umount` left open.

Met while modelling, and part of the models where they concern them, without a
run of their own:

* `iface_down.py:13`, `iface_status.py:28`, `db_checks.py:14`, `ls_iface.py` and
  `inspect_1.py` query `v_client_effective`; the schema's view is
  `v_iface_effective`.  So `iface_down` stops the unit, fails, and leaves the
  rules (`LookUpTable`).
* A first deployment without `--create-dirs` stops the interfaces, installs the
  script and the confs, and fails at the drop-in's directory (`InstallDropin`).
* `rt_tables` is installed last: what was added to it after the staging is
  overwritten (`InstallTables` of `TunnelRegistry`).
* A deployment returns 0 although `wg-quick` failed; `DeployServes` would not
  hold across that mishap, which is why `WgUpFails` resets `alone`.
* A re-run of the initialisation sets an interface's address to NULL before it
  plans one, though `db_init_iface.py:9-10` speaks of reuse (`Client`), and puts
  the seeded server key over one that `key_server_set` recorded
  (`UpsertServer`).
* `db_wipe` leaves the key directory, and `key_client_generate` then refuses to
  make a key (`doc_StanleyPark.org:15,33` has the wipe first).
* `plan_rt_id_assignments` takes over the number that `rt_tables` has for a name
  without looking at the other rows: where the file gives a name a number that
  another row was planned to have, two interfaces come to one number
  (`ClashesComeFromTheFile` says that there is no other way).
* A `stop_clean` that overlaps a boot's unit start leaves the unit "active"
  without its link; a later deployment with `--no-stop` then does not bring the
  link up (`DeployServes` asks for the link in that case).
* Two scripts that run at once can leave a second rule at one preference;
  running the script again then changes the state (`ApplyIsIdempotent` is about
  kernels without one).
* The address pool is `10.0.0.0/16`, the prohibit covers `10.0.0.0/24`.
* Staging again without root cannot overwrite the script, whose mode is 0500;
  the second attempt writes one under its other default name, so that the new
  drop-ins and `start_iface` run different scripts (`Stumble`, `StagedCovers`).
* A deeper make "requires DB entry for" the parent
  (`developer/document/manager.org:80`); `make_subu` asks for the parent's Unix
  user only, so that a parent whose row was never written, or was removed, does
  (`Make`).
* `ensure_schema` says that "executing the DDL again is acceptable"
  (`release/manager/infrastructure/db.py:46`); over a table that is there it ends
  in `sqlite3.OperationalError`, rc 1 (`ExecuteSchema`).
* A make whose last step, the join of the owner's incommon group, fails returns 1
  with the row committed; repeated, it fails at the row and never joins.
* The preference of interface 105 is that of the prohibit; `--aggressive` deletes 17000 to 17059, other interfaces' rules too.
* `boot_attach` tests `findmnt -T`, which is true of every path, so it binds no
  home.
* `logout_subu` names sessions `<masu>-<subu>`; `subu_login` and the release
  manager name users `<masu>_<subu>`.
* `device_umount` closes a mapping `<name>`; open_mount makes `<name>-crypt`.
* `logout_subu` does not wait for the sessions it has signalled; it says done
  whether or not the home and the device could be given up (`LogoutReleases`
  says what is).
* `open_mount` takes a name for mounted if a mount point begins with it
  (`ListedAsMounted`).

## Not modelled

Of part A: `subu list` and `subu info` (they only read), texts, argument
parsing, PRAGMAs, directory creation, the working directory that
`subu.options` is relative to, the root check (its failure changes nothing),
stubs, and names with inner blanks.

Of part B: the account commands and the option, which repeat the release
manager's; the unused `infrastructure/device.py`; `boot_attach`, which binds
nothing (above) and stops at its first relative call.

Of part C: `--overwrite`, `--dry-run` and the staging of some interfaces only;
of the deployment `--aggressive`, `--no-clean`, `--no-systemd`,
`--skip-ip-state`, `--daemon-reload` and the backups; the inspection scripts
(they read and print) and the one-off seeds of site data.

Of part D: `subu_login` (systemd-run for an X session) and `bestow_audio` (ACLs
of `/dev/snd`), which keep no state of their own.

Part E: the server is a prototype that nothing calls, serves one client at a
time and keeps no state; there is nothing to interleave.  Part F: file copying
and configuration texts.

## Plan

1. *(done)* A: the modules, runs and proofs above.
2. *(done)* B: `DeviceRegistry`, `DeviceBook`, their runs and proofs.
3. *(done)* C: `RoutingTables`, `TunnelRegistry` and its proofs; `TunnelHost`
   and the proofs of `TypeOK`, `OthersUndisturbed`, `StopLeavesNothing`,
   `ApplyIsIdempotent`, `BootServes` and `DeployServes`.
4. *(done)* D: `DeviceSession`, its run and its proofs.
5. *(done)* A, one invocation at a time: `SubuSequentialProofs`.
6. `SubuNames`: the name conversion, with inner blanks, and where it is one to
   one; the switches of the deployment listed above.
