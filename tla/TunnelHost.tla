----------------------------- MODULE TunnelHost -----------------------------
(***************************************************************************)
(* The host of the tunnels: what deploy_StanleyPark, stop_clean_iface,     *)
(* start_iface and the staged apply_ip_state.sh do to the installed files, *)
(* to systemd's units and to the kernel's links, addresses, routes and     *)
(* policy rules.                                                           *)
(*                                                                         *)
(* All of these are straight-line programs of commands that change the     *)
(* kernel one at a time and that mostly go on when one fails.  A process   *)
(* is the queue of the commands it has still to run; a command that is     *)
(* itself a program puts its commands at the head of the queue.  The       *)
(* administrator's command is one process; after a reboot the start of     *)
(* each enabled unit is another.                                           *)
(*                                                                         *)
(* External: the ip(8), wg-quick(8) and systemctl(1) that these call.  A   *)
(* conf has Table = off and no Address, so wg-quick makes the bare link.   *)
(***************************************************************************)
EXTENDS Naturals, Sequences, SequencesExt, FiniteSets

CONSTANTS
  Ifaces,     \* the interfaces, in the order of the scripts' loops
  IfaceId,    \* Iface.id of each: preferences are computed from it
  TableOf,    \* the name of each one's routing table, rt_table_name_eff
  None,
  Uids,       \* uids of bound users
  Addrs,      \* tunnel addresses
  Trees,      \* the staged trees that may come to be installed
  Installed,  \* those that a host may be switched on with
  Admin,      \* the administrator's process
  Selections, \* the sets of interfaces that commands are given
  MaxEvents,     \* bound on the administrator's commands and reboots
  MaxMishaps     \* bound on kills and failures of wg-quick

Names == {Ifaces[n] : n \in DOMAIN Ifaces}

\* A tree: the script's content, and the interfaces that have a conf and a
\* drop-in and whose tables rt_tables lists.
Plans == [addr : Addrs \cup {None}, routed : BOOLEAN, uids : Seq(Uids)]
IsScript(s) == s \in [DOMAIN s -> Plans] /\ DOMAIN s \subseteq Names

ASSUME HostAssumption ==
  /\ Ifaces \in Seq(STRING) /\ IsInjective(Ifaces)
  /\ IfaceId \in [Names -> Nat \ {0}] /\ IsInjective(IfaceId)
  /\ IsInjective(TableOf) /\ DOMAIN TableOf = Names
  /\ \A i, j \in Names : TableOf[i] = j => i = j
  /\ None \notin Addrs /\ None \notin Names
  /\ \A tree \in Trees :
       /\ IsScript(tree.script) /\ tree.script # None
       /\ tree \in [script : {tree.script}, conf : SUBSET Names,
                   dropin : SUBSET Names, tables : SUBSET Names]
  /\ Installed \subseteq Trees
  /\ Selections \subseteq (SUBSET Names) \ {{}}
  /\ Admin \notin Names
  /\ {MaxEvents, MaxMishaps} \subseteq Nat

VARIABLES
  kernel,   \* links, their IPv4 addresses, the tables that hold their
            \* default route, and the rules of each preference in order
  disk,     \* the installed tree; script is None before there is one
  parents,  \* interfaces whose drop-in directory exists
  unit,     \* wg-quick@iface: "inactive", "starting", "active", "failed"
  loaded,   \* drop-ins that systemd has read
  enabled   \* units that start with the system

VARIABLES
  todo,     \* each process' commands to come
  result,   \* how the administrator's last command ended
  last,     \* history: what was last begun
  alone,    \* history: has nothing come between since then?
  issued, reboots, mishaps

systemVars == <<disk, parents, unit, loaded, enabled>>
counters == <<issued, reboots, mishaps>>
vars == <<kernel, systemVars, todo, result, last, alone, counters>>

Processes == Names \cup {Admin}

\* _render_composite_script: a block of preferences for each interface.
FromPref(i) == 17000 + 10 * IfaceId[i]
UidPref(i) == FromPref(i) + 1
GuardPref == 18050
Prefs == {FromPref(i) : i \in Names} \cup {UidPref(i) : i \in Names} \cup {GuardPref}

\* The rules: a selector, and the interface whose table it looks up.
FromRule(i, a) == [sel |-> <<"from", a>>, table |-> i]
UidRule(i, u) == [sel |-> <<"uid", u>>, table |-> i]
Prohibit == [sel |-> <<"from", "subu_cidr">>, table |-> None]

EmptyKernel ==
  [addr |-> [i \in Names |-> {}], link |-> {}, route |-> {},
   rules |-> [pref \in Prefs |-> <<>>]]
NoDisk == [script |-> None, conf |-> {}, dropin |-> {}, tables |-> {}]

\* A command.
Op(name, i, arg) == [arg |-> arg, op |-> name, on |-> i]
Do(name, i) == Op(name, i, None)

\* As the system comes up: the kernel starts empty, systemd reads everything,
\* and the enabled units start at once.
UnitsToStart ==
  [p \in Processes |-> IF p \in enabled THEN <<Do("systemctl start", p)>> ELSE <<>>]

\* A host that the tunnel client has not been on yet, or one that has been
\* switched on with a tree installed.
Init ==
  /\ kernel = EmptyKernel
  /\ \/ disk = NoDisk /\ parents = {} /\ enabled = {} /\ reboots = 0
     \/ disk \in Installed /\ parents = disk.dropin /\ enabled = disk.conf /\ reboots = 1
  /\ unit = [i \in Names |-> "inactive"]
  /\ loaded = disk.dropin
  /\ todo = UnitsToStart
  /\ result = "ok"
  /\ last = [what |-> "boot"]
  /\ alone = TRUE
  /\ issued = 0 /\ mishaps = 0

-----------------------------------------------------------------------------
(* Programs. *)

\* The programs of the interfaces that have one, in the interfaces' order.
ForEach(program) ==
  FlattenSeq([n \in DOMAIN Ifaces |->
    IF Ifaces[n] \in DOMAIN program THEN program[Ifaces[n]] ELSE <<>>])

\* Slip: the two in the other order.
AddThenDelete(pref, i, rule) ==
  <<Op("rule add", i, [pref |-> pref, rule |-> rule]), Op("rule del", i, pref)>>

\* reset_IP_rule
ResetRule(pref, i, rule) ==
  <<Op("rule del", i, pref), Op("rule add", i, [pref |-> pref, rule |-> rule])>>

\* reset_addr
ResetAddress(i, a) == <<Op("addr del", i, a), Op("addr add", i, a)>>

AddressCommands(i, plan) ==
  IF plan.addr = None THEN <<>> ELSE ResetAddress(i, plan.addr)

RouteCommands(i, plan) == IF plan.routed THEN <<Do("route replace", i)>> ELSE <<>>

RuleCommands(i, plan) ==
  (IF plan.addr = None THEN <<>> ELSE ResetRule(FromPref(i), i, FromRule(i, plan.addr)))
    \o FlattenSeq([n \in DOMAIN plan.uids |->
          ResetRule(UidPref(i), i, UidRule(i, plan.uids[n]))])

\* apply_ip_state.sh with the interfaces it is given as arguments: all
\* addresses, then all routes, then all rules, then the prohibit.
ApplyScript(content, args) ==
  LET wanted == args \cap DOMAIN content IN
    ForEach([i \in wanted |-> AddressCommands(i, content[i])])
      \o ForEach([i \in wanted |-> RouteCommands(i, content[i])])
      \o ForEach([i \in wanted |-> RuleCommands(i, content[i])])
      \o ResetRule(GuardPref, None, Prohibit)

\* Slip: the rules are left.
StopBySystemd(i) ==
  <<Do("systemctl stop", i), Do("wg-quick down", i), Do("link del", i)>>

\* stop_clean_ifaces; systemctl, wg-quick and root are there.
StopProgram(i) ==
  <<Do("systemctl stop", i), Do("wg-quick down", i), Op("clean rules", i, 10),
    Do("route flush", i), Do("addr flush", i), Do("link del", i)>>

\* Slip: the script is left to systemd's drop-in.
StartBySystemd(i) == <<Do("systemctl start", i)>>

\* start_ifaces, one interface that has its conf.
StartProgram(i) == <<Do("systemctl start", i), Do("apply", i)>>

\* _iter_stage_targets: the order of the copies.
InstallProgram(tree, create) ==
  <<Op("install script", None, tree)>>
    \o ForEach([i \in tree.conf |-> <<Do("install conf", i)>>])
    \o ForEach([i \in tree.dropin |-> <<Op("install dropin", i, create)>>])
    \o <<Op("install tables", None, tree)>>

-----------------------------------------------------------------------------
(* How a process runs. *)

Running == {p \in Processes : todo[p] # <<>>}

\* The next command of p is of this name; the rest of the queue is kept,
\* after the commands that `more` says.
Runs(p, name) == todo[p] # <<>> /\ Head(todo[p]).op = name
Subject(p) == Head(todo[p]).on
Argument(p) == Head(todo[p]).arg

Continue(p, more) ==
  /\ todo' = [todo EXCEPT ![p] = more \o Tail(@)]
  /\ UNCHANGED <<result, last, alone, counters>>

Done(p) == Continue(p, <<>>)

\* An exception ends the whole command: return code 2.
Raise(p) ==
  /\ todo' = [todo EXCEPT ![p] = <<>>]
  /\ result' = "error"
  /\ UNCHANGED <<last, alone, counters>>

-----------------------------------------------------------------------------
(* The kernel's commands, by what they make of the kernel k.  They print   *)
(* or log an error and have no effect where the kernel refuses.            *)

AddrFlush(k, i) == [k EXCEPT !.addr[i] = {}]

RouteFlush(k, i) == [k EXCEPT !.route = @ \ {i}]

\* stop_clean_iface flushes the table that bears the interface's name.
FlushNamesake(k, i) == IF TableOf[i] = i THEN RouteFlush(k, i) ELSE k

\* Slip: only the link.
DropOnlyLink(k, i) == [k EXCEPT !.link = @ \ {i}]

\* A link takes its addresses with it, and the routes through it.
DropLink(k, i) == RouteFlush(AddrFlush([k EXCEPT !.link = @ \ {i}], i), i)

AddrDel(k, i, a) == [k EXCEPT !.addr[i] = @ \ {a}]

AddrAdd(k, i, a) == IF i \in k.link THEN [k EXCEPT !.addr[i] = @ \cup {a}] ELSE k

\* Neither without the link nor without the table's name.
RouteReplace(k, i) ==
  IF i \in k.link \cap disk.tables THEN [k EXCEPT !.route = @ \cup {i}] ELSE k

\* The first rule of that preference goes, whichever it is.
RuleDel(k, pref) ==
  IF k.rules[pref] = <<>> THEN k ELSE [k EXCEPT !.rules[pref] = Tail(@)]

\* Not if there is such a rule already, nor without the table's name.
RuleAdd(k, pref, rule) ==
  IF rule \in Range(k.rules[pref]) \/ rule.table \notin disk.tables \cup {None}
  THEN k
  ELSE [k EXCEPT !.rules[pref] = Append(@, rule)]

KernelOps ==
  {"addr del", "addr add", "addr flush", "route replace", "route flush",
   "rule del", "rule add", "link del"}

Effect(k, op) ==
  CASE op.op = "addr del"      -> AddrDel(k, op.on, op.arg)
    [] op.op = "addr add"      -> AddrAdd(k, op.on, op.arg)
    [] op.op = "addr flush"    -> AddrFlush(k, op.on)
    [] op.op = "route replace" -> RouteReplace(k, op.on)
    [] op.op = "route flush"   -> FlushNamesake(k, op.on)
    [] op.op = "rule del"      -> RuleDel(k, op.arg)
    [] op.op = "rule add"      -> RuleAdd(k, op.arg.pref, op.arg.rule)
    [] op.op = "link del"      -> DropLink(k, op.on)

KernelStep(p) ==
  /\ todo[p] # <<>>
  /\ Head(todo[p]).op \in KernelOps
  /\ kernel' = Effect(kernel, Head(todo[p]))
  /\ Done(p)
  /\ UNCHANGED systemVars

\* Slip: all the preferences of the tunnels.
PrefsOfAll(i) == {pref \in Prefs \ {GuardPref} : kernel.rules[pref] # <<>>}

\* _prefs_matching_lookups: the preferences that have a rule for the table
\* that bears the interface's name; no other interface's does.
PrefsLookingUp(i) ==
  {pref \in Prefs : \E rule \in Range(kernel.rules[pref]) :
     rule.table # None /\ TableOf[rule.table] = i}

\* sorted(...)
Ordered(prefs) ==
  {list \in [1 .. Cardinality(prefs) -> prefs] :
     \A m, n \in DOMAIN list : m < n => list[m] < list[n]}

Deletions(i, list) == [n \in DOMAIN list |-> Op("rule del", i, list[n])]

\* Slip: nothing ends the rounds.
CleanForever(p) ==
  /\ Runs(p, "clean rules")
  /\ \E list \in Ordered(PrefsLookingUp(Subject(p))) :
       Continue(p, Deletions(Subject(p), list)
                     \o <<Op("clean rules", Subject(p), Argument(p))>>)
  /\ UNCHANGED <<kernel, systemVars>>

\* _clean_iface_ip_state, one round: the preferences are listed, then
\* deleted one by one; ten rounds at most.
CleanRules(p) ==
  /\ Runs(p, "clean rules")
  /\ \E list \in Ordered(PrefsLookingUp(Subject(p))) :
       Continue(p, IF list = <<>> \/ Argument(p) = 0
                   THEN <<>>
                   ELSE Deletions(Subject(p), list)
                          \o <<Op("clean rules", Subject(p), Argument(p) - 1)>>)
  /\ UNCHANGED <<kernel, systemVars>>

-----------------------------------------------------------------------------
(* wg-quick and systemd. *)

\* wg-quick needs the conf to take a link down; failure is ignored.
WgDown(p) ==
  /\ Runs(p, "wg-quick down")
  /\ kernel' = IF Subject(p) \in disk.conf THEN DropLink(kernel, Subject(p)) ELSE kernel
  /\ Done(p)
  /\ UNCHANGED systemVars

\* A unit that is active is left alone.  Without a daemon-reload systemd may
\* know the drop-in as it is on disk or as it was.
SystemctlStart(p) ==
  /\ Runs(p, "systemctl start")
  /\ unit[Subject(p)] # "starting"
  /\ UNCHANGED <<kernel, disk, parents, enabled>>
  /\ IF unit[Subject(p)] = "active"
     THEN Done(p) /\ UNCHANGED <<unit, loaded>>
     ELSE /\ unit' = [unit EXCEPT ![Subject(p)] = "starting"]
          /\ loaded' \in {loaded, (loaded \ {Subject(p)}) \cup (disk.dropin \cap {Subject(p)})}
          /\ Continue(p, <<Do("wg-quick up", Subject(p))>>)

\* ExecStart; the link must not be there yet.
WgUp(p) ==
  /\ Runs(p, "wg-quick up")
  /\ UNCHANGED <<disk, parents, loaded, enabled>>
  /\ IF Subject(p) \in disk.conf \ kernel.link
     THEN /\ kernel' = [kernel EXCEPT !.link = @ \cup {Subject(p)}]
          /\ Continue(p, <<Do("post", Subject(p))>>)
          /\ UNCHANGED unit
     ELSE /\ unit' = [unit EXCEPT ![Subject(p)] = "failed"]
          /\ Done(p)
          /\ UNCHANGED kernel

\* wg-quick fails to resolve the peer's endpoint, say.
WgUpFails(p) ==
  /\ Runs(p, "wg-quick up")
  /\ mishaps < MaxMishaps
  /\ mishaps' = mishaps + 1
  /\ unit' = [unit EXCEPT ![Subject(p)] = "failed"]
  /\ todo' = [todo EXCEPT ![p] = Tail(@)]
  /\ alone' = FALSE
  /\ UNCHANGED <<kernel, disk, parents, loaded, enabled, result, last, issued, reboots>>

\* ExecStartPost of the drop-in, if systemd has read one.
ExecStartPost(p) ==
  /\ Runs(p, "post")
  /\ UNCHANGED <<kernel, disk, parents, loaded, enabled>>
  /\ IF Subject(p) \in loaded /\ disk.script = None
     THEN unit' = [unit EXCEPT ![Subject(p)] = "failed"] /\ Done(p)
     ELSE /\ UNCHANGED unit
          /\ Continue(p,
               (IF Subject(p) \in loaded
                THEN ApplyScript(disk.script, {Subject(p)}) ELSE <<>>)
                 \o <<Do("started", Subject(p))>>)

UnitStarted(p) ==
  /\ Runs(p, "started")
  /\ unit' = [unit EXCEPT ![Subject(p)] = "active"]
  /\ Done(p)
  /\ UNCHANGED <<kernel, disk, parents, loaded, enabled>>

\* A unit that is active has its link taken down; one that is starting is
\* killed on the way, wherever it is, and leaves what it has done.
SystemctlStop(p) ==
  /\ Runs(p, "systemctl stop")
  /\ LET i == Subject(p) IN
       /\ unit' = [unit EXCEPT ![i] = IF @ = "failed" THEN @ ELSE "inactive"]
       /\ kernel' = IF unit[i] = "active" /\ i \in disk.conf
                    THEN DropLink(kernel, i) ELSE kernel
       /\ todo' = [q \in Processes |->
                     IF q = p THEN Tail(todo[p])
                     ELSE IF q = i /\ unit[i] = "starting" THEN <<>>
                     ELSE todo[q]]
  /\ UNCHANGED <<disk, parents, loaded, enabled, result, last, alone, counters>>

-----------------------------------------------------------------------------
(* The installed files: _atomic_install replaces one at a time. *)

InstallScript(p) ==
  /\ Runs(p, "install script")
  /\ disk' = [disk EXCEPT !.script = Argument(p).script]
  /\ Done(p)
  /\ UNCHANGED <<kernel, parents, unit, loaded, enabled>>

InstallConf(p) ==
  /\ Runs(p, "install conf")
  /\ disk' = [disk EXCEPT !.conf = @ \cup {Subject(p)}]
  /\ Done(p)
  /\ UNCHANGED <<kernel, parents, unit, loaded, enabled>>

\* _ensure_parents: the drop-in's directory is made with --create-dirs only.
InstallDropin(p) ==
  /\ Runs(p, "install dropin")
  /\ UNCHANGED <<kernel, unit, loaded, enabled>>
  /\ IF Subject(p) \in parents \/ Argument(p)
     THEN /\ disk' = [disk EXCEPT !.dropin = @ \cup {Subject(p)}]
          /\ parents' = parents \cup {Subject(p)}
          /\ Done(p)
     ELSE Raise(p) /\ UNCHANGED <<disk, parents>>

InstallTables(p) ==
  /\ Runs(p, "install tables")
  /\ disk' = [disk EXCEPT !.tables = Argument(p).tables]
  /\ Done(p)
  /\ UNCHANGED <<kernel, parents, unit, loaded, enabled>>

\* start_ifaces comes to an interface: without its conf it is passed over.
BeginStart(p) ==
  /\ Runs(p, "start")
  /\ Continue(p, IF Subject(p) \in disk.conf THEN StartProgram(Subject(p)) ELSE <<>>)
  /\ UNCHANGED <<kernel, systemVars>>

\* start_ifaces runs the script itself if there is one and the link is up.
ApplyState(p) ==
  /\ Runs(p, "apply")
  /\ Continue(p, IF disk.script # None /\ Subject(p) \in kernel.link
                 THEN ApplyScript(disk.script, {Subject(p)}) ELSE <<>>)
  /\ UNCHANGED <<kernel, systemVars>>

\* iface_down looks the table up in v_client_effective, a view that the
\* schema does not have: return code 1, and the rules stay.
LookUpTable(p) ==
  /\ Runs(p, "look up table")
  /\ Raise(p)
  /\ UNCHANGED <<kernel, systemVars>>

-----------------------------------------------------------------------------
(* The administrator's commands. *)

MayBegin == todo[Admin] = <<>> /\ issued + reboots < MaxEvents

Begin(what, program) ==
  /\ issued' = issued + 1
  /\ todo' = [todo EXCEPT ![Admin] = program]
  /\ result' = "ok"
  /\ last' = what
  /\ alone' = (Running = {})
  /\ UNCHANGED <<kernel, disk, parents, unit, loaded, reboots, mishaps>>

\* deploy_StanleyPark: stop, install, start, for the interfaces given, or
\* those of the stage if none are (--no-stop, --no-start, --create-dirs).
Deploy(tree, ifs, stop, start, create) ==
  /\ MayBegin
  /\ Begin([what |-> "deploy", ifs |-> ifs, stop |-> stop, start |-> start],
           (IF stop THEN ForEach([i \in ifs |-> StopProgram(i)]) ELSE <<>>)
             \o InstallProgram(tree, create)
             \o (IF start THEN ForEach([i \in ifs |-> <<Do("start", i)>>]) ELSE <<>>))
  /\ UNCHANGED enabled

StopClean(ifs) ==
  /\ MayBegin
  /\ Begin([what |-> "stop", ifs |-> ifs], ForEach([i \in ifs |-> StopProgram(i)]))
  /\ UNCHANGED enabled

\* start_iface --force: a link that is there is taken down first.
Start(i, force) ==
  /\ MayBegin
  /\ Begin([what |-> "start"],
           (IF force /\ i \in kernel.link \cap disk.conf
            THEN <<Do("systemctl stop", i), Do("wg-quick down", i), Do("link del", i)>>
            ELSE <<>>)
             \o <<Do("start", i)>>)
  /\ UNCHANGED enabled

\* iface_up.sh
IfaceUp(i) ==
  /\ MayBegin
  /\ i \in disk.conf
  /\ Begin([what |-> "up"], <<Do("systemctl start", i)>>)
  /\ enabled' = enabled \cup {i}

\* iface_down
IfaceDown(i) ==
  /\ MayBegin
  /\ Begin([what |-> "down"], <<Do("systemctl stop", i), Do("look up table", i)>>)
  /\ UNCHANGED enabled

\* The script run by hand, for all of its interfaces.
ApplyByHand ==
  /\ MayBegin
  /\ disk.script # None
  /\ Begin([what |-> "apply"], ApplyScript(disk.script, DOMAIN disk.script))
  /\ UNCHANGED enabled

\* The administrator's command is interrupted; a unit being started for it
\* is a job of systemd's and goes on.
Interrupt ==
  /\ todo[Admin] # <<>>
  /\ \A i \in Names : unit[i] # "starting"
  /\ mishaps < MaxMishaps
  /\ mishaps' = mishaps + 1
  /\ todo' = [todo EXCEPT ![Admin] = <<>>]
  /\ result' = "error"
  /\ alone' = FALSE
  /\ UNCHANGED <<kernel, systemVars, last, issued, reboots>>

\* The kernel starts empty, systemd reads everything, and the enabled units
\* start at once.
Reboot ==
  /\ issued + reboots < MaxEvents
  /\ reboots' = reboots + 1
  /\ kernel' = EmptyKernel
  /\ unit' = [i \in Names |-> "inactive"]
  /\ loaded' = disk.dropin
  /\ todo' = UnitsToStart
  /\ result' = IF todo[Admin] = <<>> THEN result ELSE "error"
  /\ last' = [what |-> "boot"]
  /\ alone' = TRUE
  /\ UNCHANGED <<disk, parents, enabled, issued, mishaps>>

-----------------------------------------------------------------------------

\* The steps a process takes once it has commands to run.
Step(p) ==
  \/ KernelStep(p) \/ CleanRules(p)
  \/ WgDown(p) \/ WgUp(p) \/ SystemctlStart(p) \/ SystemctlStop(p)
  \/ ExecStartPost(p) \/ UnitStarted(p)
  \/ InstallScript(p) \/ InstallConf(p) \/ InstallDropin(p) \/ InstallTables(p)
  \/ BeginStart(p) \/ ApplyState(p) \/ LookUpTable(p)

Command ==
  \/ \E tree \in Trees, ifs \in Selections, stop, start, create \in BOOLEAN :
       Deploy(tree, ifs, stop, start, create)
  \/ \E ifs \in Selections : StopClean(ifs)
  \/ \E i \in Names : IfaceUp(i) \/ IfaceDown(i) \/ \E force \in BOOLEAN : Start(i, force)
  \/ ApplyByHand

Next ==
  \/ Command
  \/ Interrupt \/ Reboot
  \/ \E p \in Processes : Step(p) \/ WgUpFails(p)

Spec == Init /\ [][Next]_vars

\* A process that has commands to run runs them; nobody has to issue any,
\* and nothing has to fail or to be rebooted.
FairSpec == Spec /\ \A p \in Processes : WF_vars(Step(p))

-----------------------------------------------------------------------------
(* Properties *)

\* Every variable has its type, and a link keeps addresses and routes only
\* while it exists.
TypeOK ==
  /\ kernel.link \subseteq Names
  /\ kernel.addr \in [Names -> SUBSET Addrs]
  /\ kernel.route \subseteq kernel.link
  /\ \A i \in Names : kernel.addr[i] # {} => i \in kernel.link
  /\ DOMAIN kernel.rules = Prefs
  /\ disk.conf \cup disk.dropin \cup disk.tables \cup parents \cup loaded \cup enabled
       \subseteq Names
  /\ disk.script # None => IsScript(disk.script)
  /\ unit \in [Names -> {"inactive", "starting", "active", "failed"}]
  /\ result \in {"ok", "error"}
  /\ alone \in BOOLEAN

\* Nothing is under way, and nothing came in between since it was begun.
Ended(what) == Running = {} /\ alone /\ last.what = what /\ result = "ok"

Guarded == Prohibit \in Range(kernel.rules[GuardPref])

\* What the installed script says of an interface is in the kernel.
Served(i) ==
  LET plan == disk.script[i] IN
    /\ i \in kernel.link
    /\ plan.addr # None =>
         /\ plan.addr \in kernel.addr[i]
         /\ FromRule(i, plan.addr) \in Range(kernel.rules[FromPref(i)])
    /\ plan.routed => i \in kernel.route
    /\ plan.uids # <<>> => kernel.rules[UidPref(i)] # <<>>

\* ... and nothing of an earlier one, except rules for a table that does not
\* bear the interface's name: stop_clean_iface does not find them.
NothingElse(i) ==
  LET plan == disk.script[i] IN
    /\ kernel.addr[i] \subseteq {plan.addr}
    /\ TableOf[i] = i =>
         \A pref \in Prefs : \A rule \in Range(kernel.rules[pref]) :
           rule.table = i =>
             \/ pref = FromPref(i) /\ rule = FromRule(i, plan.addr)
             \/ pref = UidPref(i) /\ rule \in {UidRule(i, u) : u \in Range(plan.uids)}

\* A deployment that nothing disturbed and that returned 0 has left the
\* interfaces it was for as the script says, and the prohibit behind them;
\* if it stopped them first, with no address and no rule of what was there
\* before, but for the rules of tables named otherwise: whatever was
\* interrupted, half installed or half started earlier, and whether or not
\* systemd has read the drop-ins.  Without its stop it does not bring a link
\* up that a unit is taken to have.
DeployServes ==
  Ended("deploy") /\ last.start =>
    \A i \in last.ifs \cap disk.conf \cap disk.tables \cap DOMAIN disk.script :
      last.stop \/ i \in kernel.link =>
        Served(i) /\ Guarded /\ (last.stop => NothingElse(i))

\* After a reboot the units start at the same time, and their scripts reset
\* the one prohibit between them: in the end each is served all the same.
BootServes ==
  Ended("boot") /\ disk.script # None =>
    \A i \in enabled \cap disk.dropin \cap DOMAIN disk.script :
      i \in disk.tables => unit[i] = "active" /\ Served(i) /\ Guarded

HasRules(i) == \E pref \in Prefs : \E rule \in Range(kernel.rules[pref]) : rule.table = i

\* stop_clean_iface leaves neither link nor address nor route of the
\* interfaces, whatever was interrupted, half started or installed before;
\* and no rule for a table that bears the interface's name, as the tables do
\* that db_init_iface_x6 and db_init_iface_US ask for.
StopLeavesNothing ==
  Ended("stop") =>
    \A i \in last.ifs :
      /\ i \notin kernel.link \cup kernel.route
      /\ kernel.addr[i] = {}
      /\ TableOf[i] = i => ~HasRules(i)

Of(k, i) ==
  <<i \in k.link, k.addr[i], i \in k.route,
    [pref \in Prefs |-> {rule \in Range(k.rules[pref]) : rule.table = i}]>>

\* A tunnel's links, addresses, routes and rules are changed by commands
\* that are for it, never by those for another: preferences, which the
\* deletions go by, do not collide.
OthersUndisturbed ==
  [][\A i \in Names :
       Of(kernel', i) # Of(kernel, i) =>
         \/ reboots' # reboots
         \/ \E p \in Running : Subject(p) = i /\ todo'[p] # todo[p]]_vars

\* What a program makes of the kernel k.
RunAll(k, program) ==
  LET after[n \in 0 .. Len(program)] ==
        IF n = 0 THEN k ELSE Effect(after[n - 1], program[n])
  IN after[Len(program)]

\* "apply IP state for selected interfaces (addresses, routes, rules) --
\* idempotent": run again on what it has made the script changes nothing,
\* whatever is there, provided that no preference holds a second rule; two
\* scripts that have run at once may leave one.
ApplyIsIdempotent ==
  /\ Running = {} /\ disk.script # None
  /\ \A pref \in Prefs : Len(kernel.rules[pref]) <= 1
  => \A ifs \in SUBSET Names :
       LET program == ApplyScript(disk.script, ifs)
           once == RunAll(kernel, program) IN
         RunAll(once, program) = once

\* A command comes to its end, whatever it finds; so do the units that a
\* reboot starts.
CommandsReturn == \A p \in Processes : todo[p] # <<>> ~> todo[p] = <<>>

-----------------------------------------------------------------------------
(* What the texts say and the code does not do. *)

\* "Stop one or more WireGuard interfaces and clean IP state
\* (rules/routes/addresses)" (stop_clean_iface.py): no rule of a stopped
\* interface is left, whatever its table's name.
StopCleansRules == Ended("stop") => \A i \in last.ifs : ~HasRules(i)

\* "each user is bound to an iface via an 'ip rule add uidrange ..' command"
\* (db_schema.sql, table User): after a deployment every bound uid has its
\* rule.
EveryBoundUidIsRouted ==
  Ended("deploy") /\ last.start =>
    \A i \in last.ifs \cap disk.conf \cap DOMAIN disk.script :
      \A u \in Range(disk.script[i].uids) :
        UidRule(i, u) \in Range(kernel.rules[UidPref(i)])
=============================================================================
