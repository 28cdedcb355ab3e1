-------------------------- MODULE TunnelHostProofs --------------------------
(***************************************************************************)
(* What the tunnels' host keeps to, for every set of interfaces, trees and *)
(* bounds.                                                                 *)
(***************************************************************************)
EXTENDS TunnelHost, SequenceInduction, SequenceTheorems, FiniteSetTheorems

(* Commands and rules, by the interface that they are for. *)

PlainNames ==
  {"route replace", "route flush", "addr flush", "link del", "systemctl stop",
   "systemctl start", "wg-quick down", "wg-quick up", "post", "started",
   "install conf", "start", "apply", "look up table"}

FromAdd(i, a) == Op("rule add", i, [pref |-> FromPref(i), rule |-> FromRule(i, a)])
UidAdd(i, u) == Op("rule add", i, [pref |-> UidPref(i), rule |-> UidRule(i, u)])
GuardAdd == Op("rule add", None, [pref |-> GuardPref, rule |-> Prohibit])
GuardDel == Op("rule del", None, GuardPref)

OpsOn(i) ==
  [arg : {None}, op : PlainNames, on : {i}]
    \cup [arg : Addrs, op : {"addr del", "addr add"}, on : {i}]
    \cup [arg : {FromPref(i), UidPref(i)}, op : {"rule del"}, on : {i}]
    \cup [arg : [pref : {FromPref(i)}, rule : {FromRule(i, a) : a \in Addrs}],
          op : {"rule add"}, on : {i}]
    \cup [arg : [pref : {UidPref(i)}, rule : {UidRule(i, u) : u \in Uids}],
          op : {"rule add"}, on : {i}]
    \cup [arg : Nat, op : {"clean rules"}, on : {i}]
    \cup [arg : BOOLEAN, op : {"install dropin"}, on : {i}]

CommonOps ==
  {GuardDel, GuardAdd}
    \cup [arg : Trees, op : {"install script", "install tables"}, on : {None}]

\* A unit's process runs commands for its interface only.
OpsOf(p) ==
  CommonOps \cup UNION {OpsOn(i) : i \in IF p = Admin THEN Names ELSE {p}}

RulesAt(pref) ==
  {FromRule(i, a) : i \in {j \in Names : FromPref(j) = pref}, a \in Addrs}
    \cup {UidRule(i, u) : i \in {j \in Names : UidPref(j) = pref}, u \in Uids}
    \cup (IF pref = GuardPref THEN {Prohibit} ELSE {})

KernelOK(k) ==
  /\ k = [addr |-> k.addr, link |-> k.link, route |-> k.route, rules |-> k.rules]
  /\ k.addr \in [Names -> SUBSET Addrs]
  /\ k.link \subseteq Names
  /\ k.route \subseteq k.link
  /\ \A i \in Names : k.addr[i] # {} => i \in k.link
  /\ DOMAIN k.rules = Prefs /\ k.rules = [pref \in Prefs |-> k.rules[pref]]
  /\ \A pref \in Prefs : k.rules[pref] \in Seq(RulesAt(pref))

DiskOK ==
  /\ disk = [script |-> disk.script, conf |-> disk.conf, dropin |-> disk.dropin,
             tables |-> disk.tables]
  /\ disk.script # None => IsScript(disk.script)
  /\ disk.conf \subseteq Names /\ disk.dropin \subseteq Names /\ disk.tables \subseteq Names

QueuesOK ==
  /\ todo = [p \in Processes |-> todo[p]]
  /\ \A p \in Processes : todo[p] \in Seq(OpsOf(p))

\* What every state is.
HostInv ==
  /\ KernelOK(kernel)
  /\ DiskOK
  /\ QueuesOK
  /\ parents \cup loaded \subseteq Names
  /\ enabled \subseteq disk.conf
  /\ unit \in [Names -> {"inactive", "starting", "active", "failed"}]
  /\ result \in {"ok", "error"}
  /\ alone \in BOOLEAN

-----------------------------------------------------------------------------
(* Lemmas on commands. *)

LEMMA NoneIsNoName == None \notin Names /\ Admin \notin Names
  BY HostAssumption

\* What a command for an interface looks like.
LEMMA OpOnShape ==
  ASSUME NEW i \in Names, NEW o \in OpsOn(i)
  PROVE  /\ o = [arg |-> o.arg, op |-> o.op, on |-> o.on]
         /\ o.on = i
         /\ o.op \in PlainNames \cup {"addr del", "addr add", "rule del", "rule add",
                                      "clean rules", "install dropin"}
         /\ o.op \in PlainNames => o = Do(o.op, i)
         /\ o.op \in {"addr del", "addr add"} => o.arg \in Addrs
         /\ o.op = "rule del" => o.arg \in {FromPref(i), UidPref(i)}
         /\ o.op = "rule add" => \/ \E a \in Addrs : o = FromAdd(i, a)
                                 \/ \E u \in Uids : o = UidAdd(i, u)
         /\ o.op = "clean rules" => o.arg \in Nat
         /\ o.op = "install dropin" => o.arg \in BOOLEAN
<1>1. CASE o \in [arg : {None}, op : PlainNames, on : {i}]
  BY <1>1 DEF PlainNames, Do, Op
<1>2. CASE o \in [arg : Addrs, op : {"addr del", "addr add"}, on : {i}]
  BY <1>2 DEF PlainNames
<1>3. CASE o \in [arg : {FromPref(i), UidPref(i)}, op : {"rule del"}, on : {i}]
  BY <1>3 DEF PlainNames
<1>4. CASE o \in [arg : [pref : {FromPref(i)}, rule : {FromRule(i, a) : a \in Addrs}],
                  op : {"rule add"}, on : {i}]
  <2>1. PICK a \in Addrs : o.arg.rule = FromRule(i, a)
    BY <1>4
  <2>2. o = FromAdd(i, a)
    BY <1>4, <2>1 DEF FromAdd, Op
  <2> QED  BY <1>4, <2>2 DEF PlainNames
<1>5. CASE o \in [arg : [pref : {UidPref(i)}, rule : {UidRule(i, u) : u \in Uids}],
                  op : {"rule add"}, on : {i}]
  <2>1. PICK u \in Uids : o.arg.rule = UidRule(i, u)
    BY <1>5
  <2>2. o = UidAdd(i, u)
    BY <1>5, <2>1 DEF UidAdd, Op
  <2> QED  BY <1>5, <2>2 DEF PlainNames
<1>6. CASE o \in [arg : Nat, op : {"clean rules"}, on : {i}]
  BY <1>6 DEF PlainNames
<1>7. CASE o \in [arg : BOOLEAN, op : {"install dropin"}, on : {i}]
  BY <1>7 DEF PlainNames
<1> QED  BY <1>1, <1>2, <1>3, <1>4, <1>5, <1>6, <1>7 DEF OpsOn

LEMMA CommonOpShape ==
  ASSUME NEW o \in CommonOps
  PROVE  /\ o = [arg |-> o.arg, op |-> o.op, on |-> o.on]
         /\ o.on = None
         /\ o.op \in {"rule del", "rule add", "install script", "install tables"}
         /\ o.op = "rule del" => o = GuardDel
         /\ o.op = "rule add" => o = GuardAdd
         /\ o.op \in {"install script", "install tables"} => o.arg \in Trees
<1>1. CASE o = GuardDel
  BY <1>1 DEF GuardDel, Op
<1>2. CASE o = GuardAdd
  BY <1>2 DEF GuardAdd, Op
<1>3. CASE o \in [arg : Trees, op : {"install script", "install tables"}, on : {None}]
  BY <1>3
<1> QED  BY <1>1, <1>2, <1>3 DEF CommonOps

\* A process' commands are for its interface or for none.
LEMMA OpsOfShape ==
  ASSUME NEW p \in Processes, NEW o \in OpsOf(p)
  PROVE  \/ o \in CommonOps
         \/ /\ o.on \in Names /\ o \in OpsOn(o.on)
            /\ p # Admin => o.on = p
<1>1. SUFFICES ASSUME o \notin CommonOps
               PROVE  o.on \in Names /\ o \in OpsOn(o.on) /\ (p # Admin => o.on = p)
  OBVIOUS
<1>2. PICK i \in IF p = Admin THEN Names ELSE {p} : o \in OpsOn(i)
  BY <1>1 DEF OpsOf
<1>3. i \in Names
  BY <1>2 DEF Processes
<1> QED  BY <1>2, <1>3, OpOnShape

LEMMA OpsOnAreOpsOf ==
  ASSUME NEW p \in Processes, NEW i \in Names, p = Admin \/ p = i
  PROVE  OpsOn(i) \subseteq OpsOf(p) /\ CommonOps \subseteq OpsOf(p)
  BY DEF OpsOf

\* The head of a queue, by what it is called.
LEMMA HeadShape ==
  ASSUME NEW p \in Processes, QueuesOK, todo[p] # <<>>
  PROVE  /\ Head(todo[p]) \in OpsOf(p)
         /\ Tail(todo[p]) \in Seq(OpsOf(p))
         /\ todo[p] = <<Head(todo[p])>> \o Tail(todo[p])
<1>1. todo[p] \in Seq(OpsOf(p))
  BY DEF QueuesOK
<1> QED  BY <1>1, HeadTailProperties

LEMMA PlainHead ==
  ASSUME NEW p \in Processes, QueuesOK, NEW name \in PlainNames, Runs(p, name)
  PROVE  /\ Subject(p) \in Names
         /\ Head(todo[p]) = Do(name, Subject(p))
         /\ p # Admin => Subject(p) = p
<1>1. Head(todo[p]) \in OpsOf(p) /\ Head(todo[p]).op = name
  BY HeadShape DEF Runs
<1>2. Head(todo[p]) \notin CommonOps
  BY <1>1, CommonOpShape DEF PlainNames
<1> DEFINE o == Head(todo[p])
<1>3. o.on \in Names /\ o \in OpsOn(o.on) /\ (p # Admin => o.on = p)
  BY <1>1, <1>2, OpsOfShape
<1> HIDE DEF o
<1>4. o = Do(name, o.on)
  BY <1>1, <1>3, OpOnShape DEF o
<1> QED  BY <1>3, <1>4 DEF Subject, o

-----------------------------------------------------------------------------
(* The kernel keeps its type. *)

LEMMA PrefsOfRules ==
  ASSUME NEW i \in Names
  PROVE  /\ FromPref(i) \in Prefs /\ UidPref(i) \in Prefs /\ GuardPref \in Prefs
         /\ \A a \in Addrs : FromRule(i, a) \in RulesAt(FromPref(i))
         /\ \A u \in Uids : UidRule(i, u) \in RulesAt(UidPref(i))
         /\ Prohibit \in RulesAt(GuardPref)
  BY DEF Prefs, RulesAt

LEMMA RuleDelTyped ==
  ASSUME NEW k, KernelOK(k), NEW pref \in Prefs
  PROVE  KernelOK(RuleDel(k, pref))
<1>1. CASE k.rules[pref] = <<>>
  BY <1>1 DEF RuleDel
<1>2. CASE k.rules[pref] # <<>>
  <2> DEFINE r == [k.rules EXCEPT ![pref] = Tail(@)]
  <2>1. RuleDel(k, pref) = [addr |-> k.addr, link |-> k.link, route |-> k.route, rules |-> r]
    BY <1>2 DEF RuleDel, KernelOK
  <2>2. k.rules = [q \in Prefs |-> k.rules[q]] /\ k.rules[pref] \in Seq(RulesAt(pref))
    BY DEF KernelOK
  <2>3. Tail(k.rules[pref]) \in Seq(RulesAt(pref))
    BY <1>2, <2>2, HeadTailProperties
  <2>4. DOMAIN r = Prefs /\ r = [q \in Prefs |-> r[q]]
    BY <2>2
  <2>5. \A q \in Prefs : r[q] = IF q = pref THEN Tail(k.rules[pref]) ELSE k.rules[q]
    BY <2>2
  <2>6. \A q \in Prefs : r[q] \in Seq(RulesAt(q))
    BY <2>5, <2>3 DEF KernelOK
  <2> HIDE DEF r
  <2> QED  BY <2>1, <2>4, <2>6 DEF KernelOK
<1> QED  BY <1>1, <1>2

LEMMA RuleAddTyped ==
  ASSUME NEW k, KernelOK(k), NEW pref \in Prefs, NEW rule \in RulesAt(pref)
  PROVE  KernelOK(RuleAdd(k, pref, rule))
<1>1. CASE rule \in Range(k.rules[pref]) \/ rule.table \notin disk.tables \cup {None}
  BY <1>1 DEF RuleAdd
<1>2. CASE ~(rule \in Range(k.rules[pref]) \/ rule.table \notin disk.tables \cup {None})
  <2> DEFINE r == [k.rules EXCEPT ![pref] = Append(@, rule)]
  <2>1. RuleAdd(k, pref, rule) = [addr |-> k.addr, link |-> k.link, route |-> k.route, rules |-> r]
    BY <1>2 DEF RuleAdd, KernelOK
  <2>2. k.rules = [q \in Prefs |-> k.rules[q]] /\ k.rules[pref] \in Seq(RulesAt(pref))
    BY DEF KernelOK
  <2>3. Append(k.rules[pref], rule) \in Seq(RulesAt(pref))
    BY <2>2, AppendProperties
  <2>4. DOMAIN r = Prefs /\ r = [q \in Prefs |-> r[q]]
    BY <2>2
  <2>5. \A q \in Prefs : r[q] = IF q = pref THEN Append(k.rules[pref], rule) ELSE k.rules[q]
    BY <2>2
  <2>6. \A q \in Prefs : r[q] \in Seq(RulesAt(q))
    BY <2>5, <2>3 DEF KernelOK
  <2> HIDE DEF r
  <2> QED  BY <2>1, <2>4, <2>6 DEF KernelOK
<1> QED  BY <1>1, <1>2

LEMMA DropLinkIs ==
  ASSUME NEW a, NEW l, NEW t, NEW r, NEW i
  PROVE  DropLink([addr |-> a, link |-> l, route |-> t, rules |-> r], i) =
           [addr |-> [a EXCEPT ![i] = {}], link |-> l \ {i}, route |-> t \ {i}, rules |-> r]
<1> DEFINE b == [a EXCEPT ![i] = {}]
<1>1. [[addr |-> a, link |-> l, route |-> t, rules |-> r] EXCEPT !.link = @ \ {i}]
        = [addr |-> a, link |-> l \ {i}, route |-> t, rules |-> r]
  OBVIOUS
<1>2. AddrFlush([addr |-> a, link |-> l \ {i}, route |-> t, rules |-> r], i)
        = [addr |-> b, link |-> l \ {i}, route |-> t, rules |-> r]
  BY DEF AddrFlush
<1>3. RouteFlush([addr |-> b, link |-> l \ {i}, route |-> t, rules |-> r], i)
        = [addr |-> b, link |-> l \ {i}, route |-> t \ {i}, rules |-> r]
  BY DEF RouteFlush
<1> QED  BY <1>1, <1>2, <1>3 DEF DropLink

\* The commands that leave the rules alone.
LEMMA LinksTyped ==
  ASSUME NEW k, KernelOK(k), NEW i \in Names
  PROVE  /\ KernelOK(DropLink(k, i)) /\ KernelOK(AddrFlush(k, i))
         /\ KernelOK(RouteReplace(k, i)) /\ KernelOK(RouteFlush(k, i))
         /\ \A a \in Addrs : KernelOK(AddrDel(k, i, a)) /\ KernelOK(AddrAdd(k, i, a))
<1> DEFINE Made(l, b, t) == [addr |-> b, link |-> l, route |-> t, rules |-> k.rules]
           Fits(l, b, t) == /\ b \in [Names -> SUBSET Addrs] /\ l \subseteq Names /\ t \subseteq l
                            /\ \A j \in Names : b[j] # {} => j \in l
<1>1. ASSUME NEW l, NEW b, NEW t, Fits(l, b, t) PROVE KernelOK(Made(l, b, t))
  BY <1>1 DEF KernelOK
<1>2. Fits(k.link, k.addr, k.route)
  BY DEF KernelOK
<1>0. k = [addr |-> k.addr, link |-> k.link, route |-> k.route, rules |-> k.rules]
  BY DEF KernelOK
<1>3. KernelOK(DropLink(k, i))
  <2> DEFINE b == [k.addr EXCEPT ![i] = {}]
  <2>1. DropLink(k, i) = Made(k.link \ {i}, b, k.route \ {i})
    <3>1. DropLink([addr |-> k.addr, link |-> k.link, route |-> k.route, rules |-> k.rules], i)
            = Made(k.link \ {i}, b, k.route \ {i})
      BY DropLinkIs
    <3> HIDE DEF Made, b
    <3> QED  BY <1>0, <3>1
  <2>2. Fits(k.link \ {i}, b, k.route \ {i})
    BY <1>2
  <2> QED  BY <1>1, <2>1, <2>2
<1>4. KernelOK(AddrFlush(k, i))
  <2> DEFINE b == [k.addr EXCEPT ![i] = {}]
  <2>1. AddrFlush(k, i) = Made(k.link, b, k.route)
    BY <1>0 DEF AddrFlush
  <2>2. Fits(k.link, b, k.route)
    BY <1>2
  <2> QED  BY <1>1, <2>1, <2>2
<1>5. KernelOK(RouteReplace(k, i))
  <2>1. CASE i \in k.link \cap disk.tables
    <3>1. RouteReplace(k, i) = Made(k.link, k.addr, k.route \cup {i})
      BY <2>1 DEF RouteReplace, KernelOK
    <3>2. Fits(k.link, k.addr, k.route \cup {i})
      BY <1>2, <2>1
    <3> QED  BY <1>1, <3>1, <3>2
  <2> QED  BY <2>1 DEF RouteReplace
<1>6. KernelOK(RouteFlush(k, i))
  <2>1. RouteFlush(k, i) = Made(k.link, k.addr, k.route \ {i})
    BY <1>0 DEF RouteFlush
  <2>2. Fits(k.link, k.addr, k.route \ {i})
    BY <1>2
  <2> QED  BY <1>1, <2>1, <2>2
<1>7. ASSUME NEW a \in Addrs PROVE KernelOK(AddrDel(k, i, a))
  <2> DEFINE b == [k.addr EXCEPT ![i] = @ \ {a}]
  <2>1. AddrDel(k, i, a) = Made(k.link, b, k.route)
    BY <1>0 DEF AddrDel
  <2>2. Fits(k.link, b, k.route)
    BY <1>2
  <2> QED  BY <1>1, <2>1, <2>2
<1>8. ASSUME NEW a \in Addrs PROVE KernelOK(AddrAdd(k, i, a))
  <2> DEFINE b == [k.addr EXCEPT ![i] = @ \cup {a}]
  <2>1. CASE i \in k.link
    <3>1. AddrAdd(k, i, a) = Made(k.link, b, k.route)
      BY <2>1 DEF AddrAdd, KernelOK
    <3>2. Fits(k.link, b, k.route)
      BY <1>2, <2>1
    <3> QED  BY <1>1, <3>1, <3>2
  <2> QED  BY <2>1 DEF AddrAdd
<1> QED  BY <1>3, <1>4, <1>5, <1>6, <1>7, <1>8

LEMMA EffectTyped ==
  ASSUME NEW k, KernelOK(k), NEW p \in Processes, NEW o \in OpsOf(p), o.op \in KernelOps
  PROVE  KernelOK(Effect(k, o))
<1>1. CASE o \in CommonOps
  <2>1. CASE o = GuardDel
    <3>1. Effect(k, o) = RuleDel(k, GuardPref)
      BY <2>1 DEF Effect, GuardDel, Op
    <3> QED  BY <3>1, RuleDelTyped DEF Prefs
  <2>2. CASE o = GuardAdd
    <3>1. Effect(k, o) = RuleAdd(k, GuardPref, Prohibit)
      BY <2>2 DEF Effect, GuardAdd, Op
    <3> QED  BY <3>1, RuleAddTyped DEF Prefs, RulesAt
  <2> QED  BY <1>1, <2>1, <2>2, CommonOpShape DEF KernelOps
<1>2. CASE o.on \in Names /\ o \in OpsOn(o.on)
  <2>1. PICK i \in Names : i = o.on
    BY <1>2
  <2>2. CASE o.op \in {"addr del", "addr add"}
    <3>1. o.arg \in Addrs
      BY <1>2, <2>2, OpOnShape
    <3> QED  BY <2>1, <2>2, <3>1, LinksTyped DEF Effect
  <2>3. CASE o.op \in {"addr flush", "route replace", "route flush", "link del"}
    BY <2>1, <2>3, LinksTyped DEF Effect, FlushNamesake
  <2>4. CASE o.op = "rule del"
    <3>2. o.arg \in {FromPref(i), UidPref(i)}
      BY <1>2, <2>1, <2>4, OpOnShape
    <3>1. o.arg \in Prefs
      BY <3>2, PrefsOfRules
    <3> QED  BY <2>4, <3>1, RuleDelTyped DEF Effect
  <2>5. CASE o.op = "rule add"
    <3>1. CASE \E a \in Addrs : o = FromAdd(i, a)
      <4>1. PICK a \in Addrs : o = FromAdd(i, a)
        BY <3>1
      <4>2. o.arg.pref = FromPref(i) /\ o.arg.rule = FromRule(i, a)
        BY <4>1 DEF FromAdd, Op
      <4>3. Effect(k, o) = RuleAdd(k, FromPref(i), FromRule(i, a))
        BY <2>5, <4>2 DEF Effect
      <4> QED  BY <2>1, <4>3, RuleAddTyped, PrefsOfRules
    <3>2. CASE \E u \in Uids : o = UidAdd(i, u)
      <4>1. PICK u \in Uids : o = UidAdd(i, u)
        BY <3>2
      <4>2. o.arg.pref = UidPref(i) /\ o.arg.rule = UidRule(i, u)
        BY <4>1 DEF UidAdd, Op
      <4>3. Effect(k, o) = RuleAdd(k, UidPref(i), UidRule(i, u))
        BY <2>5, <4>2 DEF Effect
      <4> QED  BY <2>1, <4>3, RuleAddTyped, PrefsOfRules
    <3> QED  BY <1>2, <2>1, <2>5, <3>1, <3>2, OpOnShape
  <2> QED  BY <2>2, <2>3, <2>4, <2>5 DEF KernelOps
<1> QED  BY <1>1, <1>2, OpsOfShape

-----------------------------------------------------------------------------
(* What programs are made of. *)

LEMMA SeqsGrow ==
  ASSUME NEW S, NEW T, S \subseteq T
  PROVE  Seq(S) \subseteq Seq(T)
  OBVIOUS

LEMMA ConcatTyped ==
  ASSUME NEW S
  PROVE  <<>> \in Seq(S) /\ \A a, b \in Seq(S) : a \o b \in Seq(S)
  BY ConcatProperties, EmptySeq

LEMMA IfacesAre ==
  /\ Len(Ifaces) \in Nat /\ DOMAIN Ifaces = 1 .. Len(Ifaces)
  /\ \A n \in 1 .. Len(Ifaces) : Ifaces[n] \in Names
  /\ \A i \in Names : \E n \in 1 .. Len(Ifaces) : Ifaces[n] = i
  /\ \A m, n \in 1 .. Len(Ifaces) : Ifaces[m] = Ifaces[n] => m = n
<1>1. Ifaces \in Seq(STRING) /\ IsInjective(Ifaces)
  BY HostAssumption
<1> QED  BY <1>1 DEF Names, IsInjective

\* What holds of the programs holds of all of them one after the other.
LEMMA ForEachClosed ==
  ASSUME NEW T, NEW program, << >> \in T, \A a, b \in T : a \o b \in T,
         \A i \in Names : i \in DOMAIN program => program[i] \in T
  PROVE  ForEach(program) \in T
<1> DEFINE seqs == [n \in DOMAIN Ifaces |->
                      IF Ifaces[n] \in DOMAIN program THEN program[Ifaces[n]] ELSE <<>>]
<1>1. \A n \in 1 .. Len(Ifaces) : seqs[n] \in T
  BY IfacesAre
<1>2. seqs \in Seq(T)
  <2>1. seqs = [n \in 1 .. Len(Ifaces) |-> seqs[n]]
    BY IfacesAre
  <2> HIDE DEF seqs
  <2> QED  BY <1>1, <2>1, IfacesAre
<1> HIDE DEF seqs
<1>3. FlattenSeq(seqs) \in T
  BY <1>2, FlattenClosed
<1> QED  BY <1>3 DEF ForEach, seqs

LEMMA TwoTyped ==
  ASSUME NEW S, NEW a \in S, NEW b \in S
  PROVE  <<a, b>> \in Seq(S) /\ <<a>> \in Seq(S)
  OBVIOUS

LEMMA ThreeTyped ==
  ASSUME NEW S, NEW a \in S, NEW b \in S, NEW c \in S
  PROVE  <<a, b, c>> \in Seq(S)
  OBVIOUS

LEMMA SixTyped ==
  ASSUME NEW S, NEW a \in S, NEW b \in S, NEW c \in S, NEW d \in S, NEW e \in S, NEW f \in S
  PROVE  <<a, b, c, d, e, f>> \in Seq(S)
  OBVIOUS

LEMMA MadeTyped ==
  ASSUME NEW S, NEW n \in Nat, NEW q, DOMAIN q = 1 .. n, q = [k \in 1 .. n |-> q[k]],
         \A k \in 1 .. n : q[k] \in S
  PROVE  q \in Seq(S) /\ Len(q) = n
  OBVIOUS

LEMMA ResetRuleTyped ==
  ASSUME NEW i \in Names
  PROVE  /\ \A a \in Addrs : ResetRule(FromPref(i), i, FromRule(i, a)) \in Seq(OpsOn(i))
         /\ \A u \in Uids : ResetRule(UidPref(i), i, UidRule(i, u)) \in Seq(OpsOn(i))
<1>1. Op("rule del", i, FromPref(i)) \in OpsOn(i) /\ Op("rule del", i, UidPref(i)) \in OpsOn(i)
  BY DEF OpsOn, Op
<1>2. ASSUME NEW a \in Addrs PROVE FromAdd(i, a) \in OpsOn(i)
  BY DEF OpsOn, Op, FromAdd
<1>3. ASSUME NEW u \in Uids PROVE UidAdd(i, u) \in OpsOn(i)
  BY DEF OpsOn, Op, UidAdd
<1>4. ASSUME NEW a \in Addrs PROVE ResetRule(FromPref(i), i, FromRule(i, a)) \in Seq(OpsOn(i))
  BY <1>1, <1>2, TwoTyped DEF ResetRule, FromAdd
<1>5. ASSUME NEW u \in Uids PROVE ResetRule(UidPref(i), i, UidRule(i, u)) \in Seq(OpsOn(i))
  BY <1>1, <1>3, TwoTyped DEF ResetRule, UidAdd
<1> QED  BY <1>4, <1>5

LEMMA DoTyped ==
  ASSUME NEW i \in Names
  PROVE  \A name \in PlainNames : Do(name, i) \in OpsOn(i)
  BY DEF OpsOn, Do, Op

LEMMA PlanTyped ==
  ASSUME NEW i \in Names, NEW plan \in Plans
  PROVE  /\ AddressCommands(i, plan) \in Seq(OpsOn(i))
         /\ RouteCommands(i, plan) \in Seq(OpsOn(i))
         /\ RuleCommands(i, plan) \in Seq(OpsOn(i))
<1>1. /\ plan.addr = None \/ plan.addr \in Addrs
      /\ plan.uids \in Seq(Uids)
  BY DEF Plans
<1>2. AddressCommands(i, plan) \in Seq(OpsOn(i))
  <2>1. ASSUME NEW a \in Addrs PROVE Op("addr del", i, a) \in OpsOn(i) /\ Op("addr add", i, a) \in OpsOn(i)
    BY DEF OpsOn, Op
  <2> QED  BY <1>1, <2>1, TwoTyped, ConcatTyped DEF AddressCommands, ResetAddress
<1>3. RouteCommands(i, plan) \in Seq(OpsOn(i))
  <2>1. Do("route replace", i) \in OpsOn(i)
    BY DoTyped DEF PlainNames
  <2> QED  BY <2>1, TwoTyped, ConcatTyped DEF RouteCommands
<1>4. RuleCommands(i, plan) \in Seq(OpsOn(i))
  <2> DEFINE seqs == [n \in DOMAIN plan.uids |-> ResetRule(UidPref(i), i, UidRule(i, plan.uids[n]))]
             from == IF plan.addr = None THEN <<>>
                     ELSE ResetRule(FromPref(i), i, FromRule(i, plan.addr))
  <2>1. \A n \in 1 .. Len(plan.uids) : plan.uids[n] \in Uids
    BY <1>1
  <2>2. \A n \in 1 .. Len(plan.uids) :
          ResetRule(UidPref(i), i, UidRule(i, plan.uids[n])) \in Seq(OpsOn(i))
    BY <2>1, ResetRuleTyped
  <2>3. DOMAIN plan.uids = 1 .. Len(plan.uids) /\ Len(plan.uids) \in Nat
    BY <1>1
  <2>4. seqs \in Seq(Seq(OpsOn(i)))
    BY <2>2, <2>3
  <2>5. from \in Seq(OpsOn(i))
    BY <1>1, ResetRuleTyped, ConcatTyped
  <2> HIDE DEF seqs, from
  <2>6. FlattenSeq(seqs) \in Seq(OpsOn(i))
    BY <2>4, FlattenClosed, ConcatTyped
  <2>7. from \o FlattenSeq(seqs) \in Seq(OpsOn(i))
    BY <2>5, <2>6, ConcatTyped
  <2> QED  BY <2>7 DEF RuleCommands, from, seqs
<1> QED  BY <1>2, <1>3, <1>4

LEMMA ApplyScriptTyped ==
  ASSUME NEW content, IsScript(content), NEW p \in Processes, NEW args,
         p # Admin => args \subseteq {p}
  PROVE  ApplyScript(content, args) \in Seq(OpsOf(p))
<1> DEFINE wanted == args \cap DOMAIN content
           S == OpsOf(p)
           adding == [i \in wanted |-> AddressCommands(i, content[i])]
           routing == [i \in wanted |-> RouteCommands(i, content[i])]
           ruling == [i \in wanted |-> RuleCommands(i, content[i])]
<1>1. ASSUME NEW i \in wanted
      PROVE  /\ adding[i] \in Seq(S) /\ routing[i] \in Seq(S) /\ ruling[i] \in Seq(S)
  <2>1. i \in Names /\ (p = Admin \/ p = i)
    BY DEF IsScript, Processes
  <2>2. content[i] \in Plans
    BY DEF IsScript
  <2>3. Seq(OpsOn(i)) \subseteq Seq(S)
    BY <2>1, OpsOnAreOpsOf, SeqsGrow
  <2> QED  BY <2>1, <2>2, <2>3, PlanTyped
<1>2. ResetRule(GuardPref, None, Prohibit) \in Seq(S)
  <2>1. GuardDel \in S /\ GuardAdd \in S
    BY DEF OpsOf, CommonOps
  <2> QED  BY <2>1, TwoTyped DEF ResetRule, GuardDel, GuardAdd
<1>3. DOMAIN adding = wanted /\ DOMAIN routing = wanted /\ DOMAIN ruling = wanted
  OBVIOUS
<1> HIDE DEF S, adding, routing, ruling
<1>4. ForEach(adding) \in Seq(S)
  BY <1>1, <1>3, ForEachClosed, ConcatTyped
<1>5. ForEach(routing) \in Seq(S)
  BY <1>1, <1>3, ForEachClosed, ConcatTyped
<1>6. ForEach(ruling) \in Seq(S)
  BY <1>1, <1>3, ForEachClosed, ConcatTyped
<1>7. ForEach(adding) \o ForEach(routing) \o ForEach(ruling)
        \o ResetRule(GuardPref, None, Prohibit) \in Seq(S)
  BY <1>2, <1>4, <1>5, <1>6, ConcatTyped
<1> QED  BY <1>7 DEF ApplyScript, S, adding, routing, ruling

LEMMA StopTyped ==
  ASSUME NEW i \in Names
  PROVE  StopProgram(i) \in Seq(OpsOn(i))
<1>1. /\ Do("systemctl stop", i) \in OpsOn(i) /\ Do("wg-quick down", i) \in OpsOn(i)
      /\ Do("route flush", i) \in OpsOn(i) /\ Do("addr flush", i) \in OpsOn(i)
      /\ Do("link del", i) \in OpsOn(i)
  BY DoTyped DEF PlainNames
<1>2. Op("clean rules", i, 10) \in OpsOn(i)
  BY DEF OpsOn, Op
<1> QED  BY <1>1, <1>2, SixTyped DEF StopProgram

LEMMA InstallTyped ==
  ASSUME NEW tree \in Trees, NEW create \in BOOLEAN
  PROVE  InstallProgram(tree, create) \in Seq(OpsOf(Admin))
<1> DEFINE S == OpsOf(Admin)
           confs == [i \in tree.conf |-> <<Do("install conf", i)>>]
           dropins == [i \in tree.dropin |-> <<Op("install dropin", i, create)>>]
<1>1. Op("install script", None, tree) \in S /\ Op("install tables", None, tree) \in S
  BY DEF OpsOf, CommonOps, Op
<1>2. ASSUME NEW i \in Names PROVE OpsOn(i) \subseteq S
  BY OpsOnAreOpsOf DEF Processes
<1>3. ASSUME NEW i \in Names PROVE Do("install conf", i) \in S /\ Op("install dropin", i, create) \in S
  <2>1. Do("install conf", i) \in OpsOn(i)
    BY DoTyped DEF PlainNames
  <2>2. Op("install dropin", i, create) \in OpsOn(i)
    BY DEF OpsOn, Op
  <2> QED  BY <1>2, <2>1, <2>2
<1> HIDE DEF S
<1>4. \A i \in Names : i \in DOMAIN confs => confs[i] \in Seq(S)
  BY <1>3, TwoTyped
<1>5. \A i \in Names : i \in DOMAIN dropins => dropins[i] \in Seq(S)
  BY <1>3, TwoTyped
<1> HIDE DEF confs, dropins
<1>6. ForEach(confs) \in Seq(S) /\ ForEach(dropins) \in Seq(S)
  BY <1>4, <1>5, ForEachClosed, ConcatTyped
<1>7. <<Op("install script", None, tree)>> \in Seq(S) /\ <<Op("install tables", None, tree)>> \in Seq(S)
  BY <1>1, TwoTyped
<1>8. <<Op("install script", None, tree)>> \o ForEach(confs) \o ForEach(dropins)
        \o <<Op("install tables", None, tree)>> \in Seq(S)
  BY <1>6, <1>7, ConcatTyped
<1> QED  BY <1>8 DEF InstallProgram, S, confs, dropins

\* A rule for a tunnel's table is at one of the tunnel's preferences.
LEMMA PrefsLookingUpAre ==
  ASSUME KernelOK(kernel), NEW i \in Names
  PROVE  /\ PrefsLookingUp(i) \subseteq {FromPref(i), UidPref(i)}
         /\ PrefsLookingUp(i) # {} => TableOf[i] = i
         /\ IsFiniteSet(PrefsLookingUp(i))
         /\ Cardinality(PrefsLookingUp(i)) \in Nat
<1>1. ASSUME NEW pref \in Prefs, NEW rule \in RulesAt(pref), rule.table = i
      PROVE  pref \in {FromPref(i), UidPref(i)}
  <2>1. CASE \E j \in Names, a \in Addrs : FromPref(j) = pref /\ rule = FromRule(j, a)
    BY <1>1, <2>1 DEF FromRule
  <2>2. CASE \E j \in Names, u \in Uids : UidPref(j) = pref /\ rule = UidRule(j, u)
    BY <1>1, <2>2 DEF UidRule
  <2>3. rule # Prohibit
    BY <1>1, NoneIsNoName DEF Prohibit
  <2>4. \/ \E j \in Names, a \in Addrs : FromPref(j) = pref /\ rule = FromRule(j, a)
        \/ \E j \in Names, u \in Uids : UidPref(j) = pref /\ rule = UidRule(j, u)
        \/ rule = Prohibit
    BY <1>1 DEF RulesAt
  <2> QED  BY <2>1, <2>2, <2>3, <2>4
<1>2. \A pref \in Prefs : Range(kernel.rules[pref]) \subseteq RulesAt(pref)
  BY DEF KernelOK, Range
<1>3. /\ PrefsLookingUp(i) \subseteq {FromPref(i), UidPref(i)}
      /\ PrefsLookingUp(i) # {} => TableOf[i] = i
  <2>1. \A pref \in Prefs : \A rule \in RulesAt(pref) : rule.table \in Names \cup {None}
    BY DEF RulesAt, FromRule, UidRule, Prohibit
  <2>2. \A pref \in Prefs : \A rule \in Range(kernel.rules[pref]) :
          rule.table # None /\ TableOf[rule.table] = i => rule.table = i
    BY <1>2, <2>1, HostAssumption
  <2> QED  BY <1>1, <1>2, <2>2 DEF PrefsLookingUp
<1>4. IsFiniteSet({FromPref(i), UidPref(i)})
  <2>1. IsFiniteSet({FromPref(i)}) /\ IsFiniteSet({UidPref(i)})
    BY FS_Singleton
  <2>2. {FromPref(i), UidPref(i)} = {FromPref(i)} \cup {UidPref(i)}
    OBVIOUS
  <2> QED  BY <2>1, <2>2, FS_Union
<1>5. IsFiniteSet(PrefsLookingUp(i))
  BY <1>3, <1>4, FS_Subset
<1> QED  BY <1>3, <1>5, FS_CardinalityType

LEMMA DeletionsTyped ==
  ASSUME KernelOK(kernel), NEW i \in Names, NEW list \in Ordered(PrefsLookingUp(i))
  PROVE  /\ list \in Seq({FromPref(i), UidPref(i)})
         /\ Deletions(i, list) \in Seq(OpsOn(i))
         /\ Len(Deletions(i, list)) = Len(list)
         /\ \A n \in 1 .. Len(list) : Deletions(i, list)[n] = Op("rule del", i, list[n])
<1>1. list \in [1 .. Cardinality(PrefsLookingUp(i)) -> PrefsLookingUp(i)]
  BY DEF Ordered
<1>2. list \in Seq({FromPref(i), UidPref(i)})
  BY <1>1, PrefsLookingUpAre
<1>3. ASSUME NEW n \in 1 .. Len(list) PROVE Op("rule del", i, list[n]) \in OpsOn(i)
  <2>1. list[n] \in {FromPref(i), UidPref(i)}
    BY <1>2
  <2> QED  BY <2>1 DEF OpsOn, Op
<1> HIDE DEF Ordered
<1>4. DOMAIN list = 1 .. Len(list) /\ Len(list) \in Nat
  BY <1>2
<1>5. Deletions(i, list) = [n \in 1 .. Len(list) |-> Op("rule del", i, list[n])]
  BY <1>4 DEF Deletions
<1> DEFINE q == Deletions(i, list)
<1>6. DOMAIN q = 1 .. Len(list) /\ \A n \in 1 .. Len(list) : q[n] = Op("rule del", i, list[n])
  BY <1>5
<1>7. q = [n \in 1 .. Len(list) |-> q[n]]
  BY <1>5
<1> HIDE DEF q
<1>9. \A n \in 1 .. Len(list) : q[n] \in OpsOn(i)
  BY <1>3, <1>6
<1>8. q \in Seq(OpsOn(i)) /\ Len(q) = Len(list)
  BY <1>4, <1>6, <1>7, <1>9, MadeTyped
<1> QED  BY <1>2, <1>6, <1>8 DEF q

-----------------------------------------------------------------------------
(* The invariant. *)

LEMMA InitHostInv == Init => HostInv
<1>1. SUFFICES ASSUME Init PROVE HostInv
  OBVIOUS
<1>2. KernelOK(kernel)
  <2>1. kernel = EmptyKernel
    BY <1>1 DEF Init
  <2>2. \A pref \in Prefs : <<>> \in Seq(RulesAt(pref))
    BY ConcatTyped
  <2> QED  BY <2>1, <2>2 DEF KernelOK, EmptyKernel
<1>3. DiskOK /\ parents \subseteq Names /\ enabled \subseteq disk.conf
  <2>1. CASE disk = NoDisk /\ parents = {} /\ enabled = {}
    BY <2>1 DEF DiskOK, NoDisk
  <2>2. CASE disk \in Installed /\ parents = disk.dropin /\ enabled = disk.conf
    <3>1. disk \in Trees
      BY <2>2, HostAssumption
    <3>2. /\ IsScript(disk.script)
          /\ disk \in [script : {disk.script}, conf : SUBSET Names,
                       dropin : SUBSET Names, tables : SUBSET Names]
      BY <3>1, HostAssumption
    <3> QED  BY <2>2, <3>2 DEF DiskOK
  <2> QED  BY <1>1, <2>1, <2>2 DEF Init
<1>4. QueuesOK
  <2>1. todo = [p \in Processes |-> IF p \in enabled THEN <<Do("systemctl start", p)>> ELSE <<>>]
    BY <1>1 DEF Init, UnitsToStart
  <2>2. ASSUME NEW p \in Processes, p \in enabled PROVE <<Do("systemctl start", p)>> \in Seq(OpsOf(p))
    <3>1. p \in Names
      BY <1>3, <2>2 DEF DiskOK
    <3>2. Do("systemctl start", p) \in OpsOf(p)
      BY <3>1, DoTyped, OpsOnAreOpsOf DEF PlainNames
    <3> QED  BY <3>2, TwoTyped
  <2> QED  BY <2>1, <2>2, ConcatTyped DEF QueuesOK
<1>5. loaded \subseteq Names /\ unit \in [Names -> {"inactive", "starting", "active", "failed"}]
  BY <1>1, <1>3 DEF Init, DiskOK
<1> QED  BY <1>1, <1>2, <1>3, <1>4, <1>5 DEF HostInv, Init

LEMMA ContinueTyped ==
  ASSUME HostInv, NEW p \in Processes, todo[p] # <<>>, NEW more \in Seq(OpsOf(p)),
         Continue(p, more)
  PROVE  QueuesOK' /\ UNCHANGED <<result, alone>>
<1>1. QueuesOK
  BY DEF HostInv
<1>2. Tail(todo[p]) \in Seq(OpsOf(p))
  BY <1>1, HeadShape
<1>3. more \o Tail(todo[p]) \in Seq(OpsOf(p))
  BY <1>2, ConcatTyped
<1>4. todo' = [todo EXCEPT ![p] = more \o Tail(todo[p])] /\ UNCHANGED <<result, alone>>
  BY DEF Continue
<1> QED  BY <1>1, <1>3, <1>4 DEF QueuesOK

LEMMA DoneTyped ==
  ASSUME HostInv, NEW p \in Processes, todo[p] # <<>>, Done(p)
  PROVE  QueuesOK' /\ UNCHANGED <<result, alone>>
  BY ContinueTyped, ConcatTyped DEF Done

\* The processes whose programs are dropped.
LEMMA DroppedTyped ==
  ASSUME QueuesOK, todo' = [q \in Processes |-> todo'[q]],
         \A q \in Processes : todo'[q] \in {<<>>, todo[q]} \/ (todo[q] # <<>> /\ todo'[q] = Tail(todo[q]))
  PROVE  QueuesOK'
<1>1. ASSUME NEW q \in Processes PROVE todo'[q] \in Seq(OpsOf(q))
  <2>1. todo[q] \in Seq(OpsOf(q)) /\ (todo[q] # <<>> => Tail(todo[q]) \in Seq(OpsOf(q)))
    BY HeadShape DEF QueuesOK
  <2> QED  BY <2>1, ConcatTyped
<1> QED  BY <1>1 DEF QueuesOK

LEMMA RaiseTyped ==
  ASSUME HostInv, NEW p \in Processes, Raise(p)
  PROVE  QueuesOK' /\ result' \in {"ok", "error"} /\ UNCHANGED alone
<1>1. todo' = [todo EXCEPT ![p] = <<>>] /\ todo = [q \in Processes |-> todo[q]]
  BY DEF Raise, HostInv, QueuesOK
<1>2. /\ todo' = [q \in Processes |-> todo'[q]]
      /\ \A q \in Processes :
           todo'[q] \in {<<>>, todo[q]} \/ (todo[q] # <<>> /\ todo'[q] = Tail(todo[q]))
  BY <1>1
<1>4. QueuesOK
  BY DEF HostInv
<1>3. QueuesOK'
  BY <1>2, <1>4, DroppedTyped
<1> QED  BY <1>3 DEF Raise

\* A step that leaves the systemd side alone and keeps the queues typed.
LEMMA KernelStepKeeps ==
  ASSUME HostInv, NEW p \in Processes, KernelStep(p)
  PROVE  HostInv'
<1>1. todo[p] # <<>> /\ Head(todo[p]).op \in KernelOps /\ kernel' = Effect(kernel, Head(todo[p]))
      /\ Done(p) /\ UNCHANGED systemVars
  BY DEF KernelStep
<1>2. Head(todo[p]) \in OpsOf(p)
  BY <1>1, HeadShape DEF HostInv
<1>3. KernelOK(kernel')
  BY <1>1, <1>2, EffectTyped DEF HostInv
<1>4. QueuesOK' /\ UNCHANGED <<result, alone>>
  BY <1>1, DoneTyped
<1> QED  BY <1>1, <1>3, <1>4 DEF HostInv, DiskOK, systemVars, KernelOK

\* Deletions of what is listed, then another round.
LEMMA CleanHead ==
  ASSUME QueuesOK, NEW p \in Processes, Runs(p, "clean rules")
  PROVE  /\ Subject(p) \in Names /\ (p # Admin => Subject(p) = p)
         /\ Argument(p) \in Nat
         /\ Head(todo[p]) = Op("clean rules", Subject(p), Argument(p))
<1> DEFINE o == Head(todo[p])
<1>1. o \in OpsOf(p) /\ o.op = "clean rules"
  BY HeadShape DEF Runs
<1> HIDE DEF o
<1>2. o \notin CommonOps
  BY <1>1, CommonOpShape
<1>3. o.on \in Names /\ o \in OpsOn(o.on) /\ (p # Admin => o.on = p)
  BY <1>1, <1>2, OpsOfShape
<1>4. o.arg \in Nat /\ o = [arg |-> o.arg, op |-> o.op, on |-> o.on]
  BY <1>1, <1>3, OpOnShape
<1> QED  BY <1>1, <1>3, <1>4 DEF Subject, Argument, Op, o

LEMMA CleanRulesKeeps ==
  ASSUME HostInv, NEW p \in Processes, CleanRules(p)
  PROVE  HostInv'
<1>1. Runs(p, "clean rules") /\ UNCHANGED <<kernel, systemVars>>
  BY DEF CleanRules
<1> DEFINE i == Subject(p)
<1>2. i \in Names /\ (p # Admin => i = p) /\ Argument(p) \in Nat
  BY <1>1, CleanHead DEF HostInv
<1>3. PICK list \in Ordered(PrefsLookingUp(i)) :
        Continue(p, IF list = <<>> \/ Argument(p) = 0
                    THEN <<>>
                    ELSE Deletions(i, list) \o <<Op("clean rules", i, Argument(p) - 1)>>)
  BY DEF CleanRules
<1> HIDE DEF i
<1>4. OpsOn(i) \subseteq OpsOf(p)
  BY <1>2, OpsOnAreOpsOf
<1>5. Deletions(i, list) \in Seq(OpsOf(p))
  BY <1>2, <1>4, DeletionsTyped, SeqsGrow DEF HostInv
<1>6. Argument(p) # 0 => <<Op("clean rules", i, Argument(p) - 1)>> \in Seq(OpsOf(p))
  <2>1. SUFFICES ASSUME Argument(p) # 0 PROVE Op("clean rules", i, Argument(p) - 1) \in OpsOn(i)
    BY <1>4, TwoTyped
  <2>2. Argument(p) - 1 \in Nat
    BY <1>2, <2>1
  <2> QED  BY <2>2 DEF OpsOn, Op
<1> DEFINE more == IF list = <<>> \/ Argument(p) = 0
                   THEN <<>>
                   ELSE Deletions(i, list) \o <<Op("clean rules", i, Argument(p) - 1)>>
<1>7. more \in Seq(OpsOf(p))
  BY <1>5, <1>6, ConcatTyped
<1>8. Continue(p, more)
  BY <1>3
<1> HIDE DEF more
<1>9. QueuesOK' /\ UNCHANGED <<result, alone>>
  BY <1>1, <1>7, <1>8, ContinueTyped DEF Runs
<1> QED  BY <1>1, <1>9 DEF HostInv, DiskOK, systemVars, KernelOK

\* What is left when the kernel, the queues and the units change.
LEMMA UnitStepKeeps ==
  ASSUME HostInv, KernelOK(kernel'), QueuesOK', UNCHANGED <<disk, parents, enabled, result, alone>>,
         loaded' \subseteq Names,
         unit' = unit \/ \E i \in Names : \E u \in {"inactive", "starting", "active", "failed"} :
                           unit' = [unit EXCEPT ![i] = u]
  PROVE  HostInv'
<1>1. unit' \in [Names -> {"inactive", "starting", "active", "failed"}]
  BY DEF HostInv
<1>2. DiskOK'
  BY DEF HostInv, DiskOK
<1>3. KernelOK(kernel)'
  BY DEF KernelOK
<1> QED  BY <1>1, <1>2, <1>3 DEF HostInv

LEMMA LinkUpTyped ==
  ASSUME KernelOK(kernel), NEW i \in Names
  PROVE  KernelOK([kernel EXCEPT !.link = @ \cup {i}])
<1>1. [kernel EXCEPT !.link = @ \cup {i}]
        = [addr |-> kernel.addr, link |-> kernel.link \cup {i}, route |-> kernel.route,
           rules |-> kernel.rules]
  <2>1. kernel = [addr |-> kernel.addr, link |-> kernel.link, route |-> kernel.route,
                  rules |-> kernel.rules]
    BY DEF KernelOK
  <2> QED  BY <2>1
<1> QED  BY <1>1 DEF KernelOK

LEMMA DropLinkTyped ==
  ASSUME HostInv, NEW i \in Names
  PROVE  KernelOK(DropLink(kernel, i)) /\ KernelOK(kernel)
  BY LinksTyped DEF HostInv

\* One command of systemd's or of wg-quick's for one interface.
LEMMA UnitStepsKeep ==
  ASSUME HostInv, NEW p \in Processes,
         \/ WgDown(p) \/ WgUp(p) \/ WgUpFails(p) \/ SystemctlStart(p) \/ SystemctlStop(p)
         \/ ExecStartPost(p) \/ UnitStarted(p)
  PROVE  HostInv'
<1> DEFINE i == Subject(p)
<1>0. QueuesOK /\ KernelOK(kernel)
  BY DEF HostInv
<1>1. ASSUME NEW name \in PlainNames, Runs(p, name)
      PROVE  i \in Names /\ todo[p] # <<>> /\ (p # Admin => i = p)
             /\ OpsOn(i) \subseteq OpsOf(p)
  <2>1. i \in Names /\ (p # Admin => i = p)
    BY <1>0, <1>1, PlainHead
  <2> QED  BY <1>1, <2>1, OpsOnAreOpsOf DEF Runs
<1>2. ASSUME NEW name \in PlainNames, NEW j \in Names, OpsOn(j) \subseteq OpsOf(p)
      PROVE  <<Do(name, j)>> \in Seq(OpsOf(p))
  BY <1>2, DoTyped, TwoTyped
<1>3. CASE WgDown(p)
  <2>1. Runs(p, "wg-quick down") /\ Done(p) /\ UNCHANGED systemVars
        /\ kernel' = IF i \in disk.conf THEN DropLink(kernel, i) ELSE kernel
    BY <1>3 DEF WgDown
  <2>2. i \in Names /\ todo[p] # <<>>
    BY <1>1, <2>1 DEF PlainNames
  <2> HIDE DEF i
  <2>3. KernelOK(kernel')
    BY <1>0, <2>1, <2>2, DropLinkTyped
  <2>4. QueuesOK' /\ UNCHANGED <<result, alone>>
    BY <2>1, <2>2, DoneTyped
  <2> QED  BY <2>1, <2>3, <2>4, UnitStepKeeps DEF systemVars, HostInv
<1>4. CASE WgUp(p)
  <2>1. Runs(p, "wg-quick up") /\ UNCHANGED <<disk, parents, loaded, enabled>>
    BY <1>4 DEF WgUp
  <2>2. i \in Names /\ todo[p] # <<>> /\ OpsOn(i) \subseteq OpsOf(p)
    BY <1>1, <2>1 DEF PlainNames
  <2>3. CASE i \in disk.conf \ kernel.link
    <3>1. kernel' = [kernel EXCEPT !.link = @ \cup {i}] /\ Continue(p, <<Do("post", i)>>)
          /\ UNCHANGED unit
      BY <1>4, <2>3 DEF WgUp
    <3>2. <<Do("post", i)>> \in Seq(OpsOf(p))
      BY <1>2, <2>2 DEF PlainNames
    <3> HIDE DEF i
    <3>3. KernelOK(kernel')
      BY <1>0, <2>2, <3>1, LinkUpTyped
    <3>4. QueuesOK' /\ UNCHANGED <<result, alone>>
      BY <2>2, <3>1, <3>2, ContinueTyped
    <3> QED  BY <2>1, <3>1, <3>3, <3>4, UnitStepKeeps DEF HostInv
  <2>4. CASE ~(i \in disk.conf \ kernel.link)
    <3>1. unit' = [unit EXCEPT ![i] = "failed"] /\ Done(p) /\ UNCHANGED kernel
      BY <1>4, <2>4 DEF WgUp
    <3> HIDE DEF i
    <3>3. KernelOK(kernel')
      BY <1>0, <3>1
    <3>4. QueuesOK' /\ UNCHANGED <<result, alone>>
      BY <2>2, <3>1, DoneTyped
    <3> QED  BY <2>1, <2>2, <3>1, <3>3, <3>4, UnitStepKeeps DEF HostInv
  <2> QED  BY <2>3, <2>4
<1>5. CASE WgUpFails(p)
  <2>1. /\ Runs(p, "wg-quick up") /\ UNCHANGED <<kernel, disk, parents, loaded, enabled, result>>
        /\ unit' = [unit EXCEPT ![i] = "failed"]
        /\ todo' = [todo EXCEPT ![p] = Tail(@)]
        /\ alone' = FALSE
    BY <1>5 DEF WgUpFails
  <2>2. i \in Names /\ todo[p] # <<>>
    BY <1>1, <2>1 DEF PlainNames
  <2> HIDE DEF i
  <2>3. todo = [q \in Processes |-> todo[q]]
    BY <1>0 DEF QueuesOK
  <2>4. /\ todo' = [q \in Processes |-> todo'[q]]
        /\ \A q \in Processes :
             todo'[q] \in {<<>>, todo[q]} \/ (todo[q] # <<>> /\ todo'[q] = Tail(todo[q]))
    BY <2>1, <2>2, <2>3
  <2>5. QueuesOK'
    BY <1>0, <2>4, DroppedTyped
  <2>6. unit' \in [Names -> {"inactive", "starting", "active", "failed"}]
    BY <2>1, <2>2 DEF HostInv
  <2> QED  BY <2>1, <2>5, <2>6 DEF HostInv, DiskOK, KernelOK
<1>6. CASE SystemctlStart(p)
  <2>1. Runs(p, "systemctl start") /\ UNCHANGED <<kernel, disk, parents, enabled>>
    BY <1>6 DEF SystemctlStart
  <2>2. i \in Names /\ todo[p] # <<>> /\ OpsOn(i) \subseteq OpsOf(p)
    BY <1>1, <2>1 DEF PlainNames
  <2>3. KernelOK(kernel')
    BY <1>0, <2>1
  <2>4. CASE unit[i] = "active"
    <3>1. Done(p) /\ UNCHANGED <<unit, loaded>>
      BY <1>6, <2>4 DEF SystemctlStart
    <3> HIDE DEF i
    <3>2. QueuesOK' /\ UNCHANGED <<result, alone>>
      BY <2>2, <3>1, DoneTyped
    <3> QED  BY <2>1, <2>3, <3>1, <3>2, UnitStepKeeps DEF HostInv
  <2>5. CASE unit[i] # "active"
    <3>1. /\ unit' = [unit EXCEPT ![i] = "starting"]
          /\ loaded' \in {loaded, (loaded \ {i}) \cup (disk.dropin \cap {i})}
          /\ Continue(p, <<Do("wg-quick up", i)>>)
      BY <1>6, <2>5 DEF SystemctlStart
    <3>2. <<Do("wg-quick up", i)>> \in Seq(OpsOf(p))
      BY <1>2, <2>2 DEF PlainNames
    <3> HIDE DEF i
    <3>3. QueuesOK' /\ UNCHANGED <<result, alone>>
      BY <2>2, <3>1, <3>2, ContinueTyped
    <3>4. loaded' \subseteq Names
      BY <3>1, <2>2 DEF HostInv
    <3> QED  BY <2>1, <2>2, <2>3, <3>1, <3>3, <3>4, UnitStepKeeps
  <2> QED  BY <2>4, <2>5
<1>7. CASE SystemctlStop(p)
  <2>1. Runs(p, "systemctl stop") /\ UNCHANGED <<disk, parents, loaded, enabled, result, alone>>
    BY <1>7 DEF SystemctlStop
  <2>2. i \in Names /\ todo[p] # <<>>
    BY <1>1, <2>1 DEF PlainNames
  <2>3. /\ unit' = [unit EXCEPT ![i] = IF unit[i] = "failed" THEN unit[i] ELSE "inactive"]
        /\ kernel' = IF unit[i] = "active" /\ i \in disk.conf THEN DropLink(kernel, i) ELSE kernel
        /\ todo' = [q \in Processes |->
                      IF q = p THEN Tail(todo[p])
                      ELSE IF q = i /\ unit[i] = "starting" THEN <<>>
                      ELSE todo[q]]
    BY <1>7 DEF SystemctlStop
  <2> HIDE DEF i
  <2>4. KernelOK(kernel')
    BY <1>0, <2>2, <2>3, DropLinkTyped
  <2>5. /\ todo' = [q \in Processes |-> todo'[q]]
        /\ \A q \in Processes :
             todo'[q] \in {<<>>, todo[q]} \/ (todo[q] # <<>> /\ todo'[q] = Tail(todo[q]))
    BY <2>2, <2>3
  <2>6. QueuesOK'
    BY <1>0, <2>5, DroppedTyped
  <2>7. unit' = [unit EXCEPT ![i] = "failed"] \/ unit' = [unit EXCEPT ![i] = "inactive"]
    BY <2>3
  <2> QED  BY <2>1, <2>2, <2>4, <2>6, <2>7, UnitStepKeeps DEF HostInv
<1>8. CASE ExecStartPost(p)
  <2>1. Runs(p, "post") /\ UNCHANGED <<kernel, disk, parents, loaded, enabled>>
    BY <1>8 DEF ExecStartPost
  <2>2. i \in Names /\ todo[p] # <<>> /\ (p # Admin => i = p) /\ OpsOn(i) \subseteq OpsOf(p)
    BY <1>1, <2>1 DEF PlainNames
  <2>3. KernelOK(kernel')
    BY <1>0, <2>1
  <2>4. CASE i \in loaded /\ disk.script = None
    <3>1. unit' = [unit EXCEPT ![i] = "failed"] /\ Done(p)
      BY <1>8, <2>4 DEF ExecStartPost
    <3> HIDE DEF i
    <3>2. QueuesOK' /\ UNCHANGED <<result, alone>>
      BY <2>2, <3>1, DoneTyped
    <3> QED  BY <2>1, <2>2, <2>3, <3>1, <3>2, UnitStepKeeps DEF HostInv
  <2>5. CASE ~(i \in loaded /\ disk.script = None)
    <3> DEFINE script == IF i \in loaded THEN ApplyScript(disk.script, {i}) ELSE <<>>
    <3>1. UNCHANGED unit /\ Continue(p, script \o <<Do("started", i)>>)
      BY <1>8, <2>5 DEF ExecStartPost
    <3>2. <<Do("started", i)>> \in Seq(OpsOf(p))
      BY <1>2, <2>2 DEF PlainNames
    <3>3. i \in loaded => ApplyScript(disk.script, {i}) \in Seq(OpsOf(p))
      <4>1. i \in loaded => IsScript(disk.script)
        BY <2>5 DEF HostInv, DiskOK
      <4> HIDE DEF i
      <4> QED  BY <2>2, <4>1, ApplyScriptTyped
    <3>4. script \in Seq(OpsOf(p))
      BY <3>3, ConcatTyped
    <3> HIDE DEF script, i
    <3>5. script \o <<Do("started", i)>> \in Seq(OpsOf(p))
      BY <3>2, <3>4, ConcatTyped
    <3>6. QueuesOK' /\ UNCHANGED <<result, alone>>
      BY <2>2, <3>1, <3>5, ContinueTyped
    <3> QED  BY <2>1, <2>3, <3>1, <3>6, UnitStepKeeps DEF HostInv
  <2> QED  BY <2>4, <2>5
<1>9. CASE UnitStarted(p)
  <2>1. Runs(p, "started") /\ UNCHANGED <<kernel, disk, parents, loaded, enabled>>
        /\ unit' = [unit EXCEPT ![i] = "active"] /\ Done(p)
    BY <1>9 DEF UnitStarted
  <2>2. i \in Names /\ todo[p] # <<>>
    BY <1>1, <2>1 DEF PlainNames
  <2> HIDE DEF i
  <2>3. QueuesOK' /\ UNCHANGED <<result, alone>>
    BY <2>1, <2>2, DoneTyped
  <2>4. KernelOK(kernel')
    BY <1>0, <2>1
  <2> QED  BY <2>1, <2>2, <2>3, <2>4, UnitStepKeeps DEF HostInv
<1> QED  BY <1>3, <1>4, <1>5, <1>6, <1>7, <1>8, <1>9

LEMMA InstallHead ==
  ASSUME QueuesOK, NEW p \in Processes
  PROVE  /\ \A name \in {"install script", "install tables"} :
              Runs(p, name) => Argument(p) \in Trees
         /\ Runs(p, "install dropin") => Subject(p) \in Names /\ Argument(p) \in BOOLEAN
<1> DEFINE o == Head(todo[p])
<1>1. todo[p] # <<>> => o \in OpsOf(p)
  BY HeadShape
<1> HIDE DEF o
<1>2. ASSUME NEW name \in {"install script", "install tables"}, todo[p] # <<>>, o.op = name
      PROVE  o.arg \in Trees
  <2>1. ASSUME o \notin CommonOps PROVE FALSE
    <3>1. o.on \in Names /\ o \in OpsOn(o.on)
      BY <1>1, <1>2, <2>1, OpsOfShape
    <3>2. o.op \in PlainNames \cup {"addr del", "addr add", "rule del", "rule add",
                                    "clean rules", "install dropin"}
      BY <3>1, OpOnShape
    <3> QED  BY <1>2, <3>2 DEF PlainNames
  <2> QED  BY <1>2, <2>1, CommonOpShape
<1>3. ASSUME todo[p] # <<>>, o.op = "install dropin"
      PROVE  o.on \in Names /\ o.arg \in BOOLEAN
  <2>1. o \notin CommonOps
    BY <1>3, CommonOpShape
  <2>2. o.on \in Names /\ o \in OpsOn(o.on)
    BY <1>1, <1>3, <2>1, OpsOfShape
  <2> QED  BY <1>3, <2>2, OpOnShape
<1> QED  BY <1>2, <1>3 DEF Runs, Subject, Argument, o

LEMMA TreeIs ==
  ASSUME NEW tree \in Trees
  PROVE  /\ IsScript(tree.script) /\ tree.script # None
         /\ tree.conf \subseteq Names /\ tree.dropin \subseteq Names /\ tree.tables \subseteq Names
<1>1. /\ IsScript(tree.script) /\ tree.script # None
      /\ tree \in [script : {tree.script}, conf : SUBSET Names,
                   dropin : SUBSET Names, tables : SUBSET Names]
  BY HostAssumption
<1> QED  BY <1>1

\* A step that changes the files and the queues only.
LEMMA FileStepKeeps ==
  ASSUME HostInv, QueuesOK', UNCHANGED <<kernel, unit, loaded, enabled, alone>>,
         result' \in {"ok", "error"}, parents' \subseteq Names,
         NEW s, NEW c, NEW d, NEW t,
         disk' = [script |-> s, conf |-> c, dropin |-> d, tables |-> t],
         s # None => IsScript(s), c \subseteq Names, d \subseteq Names, t \subseteq Names,
         disk.conf \subseteq c
  PROVE  HostInv'
<1>1. disk'.script = s /\ disk'.conf = c /\ disk'.dropin = d /\ disk'.tables = t
  OBVIOUS
<1>2. DiskOK'
  BY <1>1 DEF DiskOK
<1> QED  BY <1>1, <1>2 DEF HostInv, KernelOK

LEMMA InstallStepsKeep ==
  ASSUME HostInv, NEW p \in Processes,
         InstallScript(p) \/ InstallConf(p) \/ InstallDropin(p) \/ InstallTables(p)
  PROVE  HostInv'
<1>0. /\ QueuesOK /\ DiskOK
      /\ disk = [script |-> disk.script, conf |-> disk.conf, dropin |-> disk.dropin,
                 tables |-> disk.tables]
      /\ disk.script # None => IsScript(disk.script)
      /\ disk.conf \subseteq Names /\ disk.dropin \subseteq Names /\ disk.tables \subseteq Names
      /\ parents \subseteq Names /\ result \in {"ok", "error"}
  BY DEF HostInv, DiskOK
<1>1. CASE InstallScript(p)
  <2>1. Runs(p, "install script") /\ disk' = [disk EXCEPT !.script = Argument(p).script] /\ Done(p)
        /\ UNCHANGED <<kernel, parents, unit, loaded, enabled>>
    BY <1>1 DEF InstallScript
  <2>2. Argument(p) \in Trees
    BY <1>0, <2>1, InstallHead
  <2>3. IsScript(Argument(p).script)
    BY <2>2, TreeIs
  <2>4. disk' = [script |-> Argument(p).script, conf |-> disk.conf, dropin |-> disk.dropin,
                 tables |-> disk.tables]
    BY <1>0, <2>1
  <2>5. QueuesOK' /\ UNCHANGED <<result, alone>>
    BY <2>1, DoneTyped DEF Runs
  <2> QED  BY <1>0, <2>1, <2>3, <2>4, <2>5, FileStepKeeps
<1>2. CASE InstallConf(p)
  <2>1. Runs(p, "install conf") /\ disk' = [disk EXCEPT !.conf = @ \cup {Subject(p)}] /\ Done(p)
        /\ UNCHANGED <<kernel, parents, unit, loaded, enabled>>
    BY <1>2 DEF InstallConf
  <2>2. Subject(p) \in Names
    BY <1>0, <2>1, PlainHead DEF PlainNames
  <2> DEFINE c == disk.conf \cup {Subject(p)}
  <2>4. disk' = [script |-> disk.script, conf |-> c, dropin |-> disk.dropin, tables |-> disk.tables]
    BY <1>0, <2>1
  <2>5. QueuesOK' /\ UNCHANGED <<result, alone>>
    BY <2>1, DoneTyped DEF Runs
  <2>6. c \subseteq Names /\ disk.conf \subseteq c
    BY <1>0, <2>2
  <2> HIDE DEF c
  <2>7. /\ result' \in {"ok", "error"} /\ parents' \subseteq Names
        /\ UNCHANGED <<kernel, unit, loaded, enabled, alone>>
    BY <1>0, <2>1, <2>5
  <2> QED  BY <1>0, <2>4, <2>5, <2>6, <2>7, FileStepKeeps
<1>3. CASE InstallDropin(p)
  <2>1. Runs(p, "install dropin") /\ UNCHANGED <<kernel, unit, loaded, enabled>>
    BY <1>3 DEF InstallDropin
  <2>2. Subject(p) \in Names
    BY <1>0, <2>1, InstallHead
  <2>3. CASE Subject(p) \in parents \/ Argument(p)
    <3>1. /\ disk' = [disk EXCEPT !.dropin = @ \cup {Subject(p)}]
          /\ parents' = parents \cup {Subject(p)} /\ Done(p)
      BY <1>3, <2>3 DEF InstallDropin
    <3>2. disk' = [script |-> disk.script, conf |-> disk.conf,
                   dropin |-> disk.dropin \cup {Subject(p)}, tables |-> disk.tables]
      BY <1>0, <3>1
    <3>3. QueuesOK' /\ UNCHANGED <<result, alone>>
      BY <2>1, <3>1, DoneTyped DEF Runs
    <3>4. disk.dropin \cup {Subject(p)} \subseteq Names /\ parents' \subseteq Names
      BY <1>0, <2>2, <3>1
    <3> QED  BY <1>0, <2>1, <3>2, <3>3, <3>4, FileStepKeeps
  <2>4. CASE ~(Subject(p) \in parents \/ Argument(p))
    <3>1. Raise(p) /\ UNCHANGED <<disk, parents>>
      BY <1>3, <2>4 DEF InstallDropin
    <3>2. QueuesOK' /\ result' \in {"ok", "error"} /\ UNCHANGED alone
      BY <3>1, RaiseTyped
    <3> QED  BY <1>0, <2>1, <3>1, <3>2, FileStepKeeps
  <2> QED  BY <2>3, <2>4
<1>4. CASE InstallTables(p)
  <2>1. Runs(p, "install tables") /\ disk' = [disk EXCEPT !.tables = Argument(p).tables] /\ Done(p)
        /\ UNCHANGED <<kernel, parents, unit, loaded, enabled>>
    BY <1>4 DEF InstallTables
  <2>2. Argument(p) \in Trees
    BY <1>0, <2>1, InstallHead
  <2>3. Argument(p).tables \subseteq Names
    BY <2>2, TreeIs
  <2>4. disk' = [script |-> disk.script, conf |-> disk.conf, dropin |-> disk.dropin,
                 tables |-> Argument(p).tables]
    BY <1>0, <2>1
  <2>5. QueuesOK' /\ UNCHANGED <<result, alone>>
    BY <2>1, DoneTyped DEF Runs
  <2> QED  BY <1>0, <2>1, <2>3, <2>4, <2>5, FileStepKeeps
<1> QED  BY <1>1, <1>2, <1>3, <1>4

LEMMA StartTyped ==
  ASSUME NEW i \in Names
  PROVE  StartProgram(i) \in Seq(OpsOn(i))
<1>1. Do("systemctl start", i) \in OpsOn(i) /\ Do("apply", i) \in OpsOn(i)
  BY DoTyped DEF PlainNames
<1> QED  BY <1>1, TwoTyped DEF StartProgram

\* A step that changes the queues and the result only.
LEMMA QueueStepKeeps ==
  ASSUME HostInv, QueuesOK', UNCHANGED <<kernel, systemVars>>, result' \in {"ok", "error"},
         alone' \in BOOLEAN
  PROVE  HostInv'
  BY DEF HostInv, KernelOK, DiskOK, systemVars

LEMMA StartStepsKeep ==
  ASSUME HostInv, NEW p \in Processes, BeginStart(p) \/ ApplyState(p) \/ LookUpTable(p)
  PROVE  HostInv'
<1> DEFINE i == Subject(p)
<1>0. QueuesOK /\ result \in {"ok", "error"} /\ alone \in BOOLEAN
      /\ (disk.script # None => IsScript(disk.script))
  BY DEF HostInv, DiskOK
<1>1. ASSUME NEW name \in PlainNames, Runs(p, name)
      PROVE  i \in Names /\ todo[p] # <<>> /\ (p # Admin => i = p)
             /\ OpsOn(i) \subseteq OpsOf(p)
  <2>1. i \in Names /\ (p # Admin => i = p)
    BY <1>0, <1>1, PlainHead
  <2> QED  BY <1>1, <2>1, OpsOnAreOpsOf DEF Runs
<1>2. CASE BeginStart(p)
  <2> DEFINE more == IF i \in disk.conf THEN StartProgram(i) ELSE <<>>
  <2>1. Runs(p, "start") /\ Continue(p, more) /\ UNCHANGED <<kernel, systemVars>>
    BY <1>2 DEF BeginStart
  <2>2. i \in Names /\ todo[p] # <<>> /\ OpsOn(i) \subseteq OpsOf(p)
    BY <1>1, <2>1 DEF PlainNames
  <2> HIDE DEF i
  <2>3. more \in Seq(OpsOf(p))
    BY <2>2, StartTyped, SeqsGrow, ConcatTyped
  <2> HIDE DEF more
  <2>4. QueuesOK' /\ UNCHANGED <<result, alone>>
    BY <2>1, <2>2, <2>3, ContinueTyped
  <2> QED  BY <1>0, <2>1, <2>4, QueueStepKeeps
<1>3. CASE ApplyState(p)
  <2> DEFINE more == IF disk.script # None /\ i \in kernel.link
                     THEN ApplyScript(disk.script, {i}) ELSE <<>>
  <2>1. Runs(p, "apply") /\ Continue(p, more) /\ UNCHANGED <<kernel, systemVars>>
    BY <1>3 DEF ApplyState
  <2>2. i \in Names /\ todo[p] # <<>> /\ (p # Admin => i = p)
    BY <1>1, <2>1 DEF PlainNames
  <2> HIDE DEF i
  <2>3. more \in Seq(OpsOf(p))
    BY <1>0, <2>2, ApplyScriptTyped, ConcatTyped
  <2> HIDE DEF more
  <2>4. QueuesOK' /\ UNCHANGED <<result, alone>>
    BY <2>1, <2>2, <2>3, ContinueTyped
  <2> QED  BY <1>0, <2>1, <2>4, QueueStepKeeps
<1>4. CASE LookUpTable(p)
  <2>1. Raise(p) /\ UNCHANGED <<kernel, systemVars>>
    BY <1>4 DEF LookUpTable
  <2>2. QueuesOK' /\ result' \in {"ok", "error"} /\ UNCHANGED alone
    BY <2>1, RaiseTyped
  <2> QED  BY <1>0, <2>1, <2>2, QueueStepKeeps
<1> QED  BY <1>2, <1>3, <1>4

LEMMA BeginKeeps ==
  ASSUME HostInv, NEW program \in Seq(OpsOf(Admin)), NEW what, Begin(what, program),
         enabled' \subseteq disk.conf
  PROVE  HostInv'
<1>1. /\ todo' = [todo EXCEPT ![Admin] = program] /\ result' = "ok" /\ alone' \in BOOLEAN
      /\ UNCHANGED <<kernel, disk, parents, unit, loaded>>
  BY DEF Begin
<1>2. QueuesOK'
  BY <1>1 DEF HostInv, QueuesOK
<1> QED  BY <1>1, <1>2 DEF HostInv, KernelOK, DiskOK

\* The administrator's programs.
LEMMA ProgramsTyped ==
  /\ \A ifs \in SUBSET Names : ForEach([i \in ifs |-> StopProgram(i)]) \in Seq(OpsOf(Admin))
  /\ \A ifs \in SUBSET Names : ForEach([i \in ifs |-> <<Do("start", i)>>]) \in Seq(OpsOf(Admin))
  /\ \A i \in Names : \A name \in PlainNames : Do(name, i) \in OpsOf(Admin)
<1>1. \A i \in Names : OpsOn(i) \subseteq OpsOf(Admin) /\ Seq(OpsOn(i)) \subseteq Seq(OpsOf(Admin))
  BY OpsOnAreOpsOf, SeqsGrow DEF Processes
<1>2. ASSUME NEW ifs \in SUBSET Names
      PROVE  ForEach([i \in ifs |-> StopProgram(i)]) \in Seq(OpsOf(Admin))
  <2> DEFINE program == [i \in ifs |-> StopProgram(i)]
  <2>1. \A i \in Names : i \in DOMAIN program => program[i] \in Seq(OpsOf(Admin))
    BY <1>1, StopTyped
  <2> HIDE DEF program
  <2>2. ForEach(program) \in Seq(OpsOf(Admin))
    BY <2>1, ForEachClosed, ConcatTyped
  <2> QED  BY <2>2 DEF program
<1>3. \A i \in Names : \A name \in PlainNames : Do(name, i) \in OpsOf(Admin)
  BY <1>1, DoTyped
<1>4. ASSUME NEW ifs \in SUBSET Names
      PROVE  ForEach([i \in ifs |-> <<Do("start", i)>>]) \in Seq(OpsOf(Admin))
  <2> DEFINE program == [i \in ifs |-> <<Do("start", i)>>]
  <2>1. \A i \in Names : i \in DOMAIN program => program[i] \in Seq(OpsOf(Admin))
    BY <1>3, TwoTyped DEF PlainNames
  <2> HIDE DEF program
  <2>2. ForEach(program) \in Seq(OpsOf(Admin))
    BY <2>1, ForEachClosed, ConcatTyped
  <2> QED  BY <2>2 DEF program
<1> QED  BY <1>2, <1>3, <1>4

LEMMA CommandKeeps ==
  ASSUME HostInv, Command
  PROVE  HostInv'
<1>0. enabled \subseteq disk.conf /\ (disk.script # None => IsScript(disk.script))
      /\ Admin \in Processes /\ \A ifs \in Selections : ifs \subseteq Names
  BY HostAssumption DEF HostInv, DiskOK, Processes
<1>1. ASSUME NEW tree \in Trees, NEW ifs \in Selections,
             NEW stop \in BOOLEAN, NEW start \in BOOLEAN, NEW create \in BOOLEAN,
             Deploy(tree, ifs, stop, start, create)
      PROVE  HostInv'
  <2> DEFINE stops == IF stop THEN ForEach([i \in ifs |-> StopProgram(i)]) ELSE <<>>
             starts == IF start THEN ForEach([i \in ifs |-> <<Do("start", i)>>]) ELSE <<>>
             what == [what |-> "deploy", ifs |-> ifs, stop |-> stop, start |-> start]
  <2>1. stops \in Seq(OpsOf(Admin)) /\ starts \in Seq(OpsOf(Admin))
    BY <1>0, ProgramsTyped, ConcatTyped
  <2>2. Begin(what, stops \o InstallProgram(tree, create) \o starts) /\ UNCHANGED enabled
    BY <1>1 DEF Deploy
  <2> HIDE DEF stops, starts, what
  <2>3. stops \o InstallProgram(tree, create) \o starts \in Seq(OpsOf(Admin))
    BY <2>1, InstallTyped, ConcatTyped
  <2> QED  BY <1>0, <2>2, <2>3, BeginKeeps
<1>2. ASSUME NEW ifs \in Selections, StopClean(ifs) PROVE HostInv'
  <2>1. Begin([what |-> "stop", ifs |-> ifs], ForEach([i \in ifs |-> StopProgram(i)]))
        /\ UNCHANGED enabled
    BY <1>2 DEF StopClean
  <2>2. ForEach([i \in ifs |-> StopProgram(i)]) \in Seq(OpsOf(Admin))
    BY <1>0, ProgramsTyped
  <2> QED  BY <1>0, <2>1, <2>2, BeginKeeps
<1>3. ASSUME NEW i \in Names, IfaceUp(i) PROVE HostInv'
  <2>1. Begin([what |-> "up"], <<Do("systemctl start", i)>>) /\ enabled' \subseteq disk.conf
    BY <1>0, <1>3 DEF IfaceUp
  <2>2. <<Do("systemctl start", i)>> \in Seq(OpsOf(Admin))
    BY ProgramsTyped, TwoTyped DEF PlainNames
  <2> QED  BY <2>1, <2>2, BeginKeeps
<1>4. ASSUME NEW i \in Names, IfaceDown(i) PROVE HostInv'
  <2>1. Begin([what |-> "down"], <<Do("systemctl stop", i), Do("look up table", i)>>)
        /\ UNCHANGED enabled
    BY <1>4 DEF IfaceDown
  <2>2. <<Do("systemctl stop", i), Do("look up table", i)>> \in Seq(OpsOf(Admin))
    BY ProgramsTyped, TwoTyped DEF PlainNames
  <2> QED  BY <1>0, <2>1, <2>2, BeginKeeps
<1>5. ASSUME NEW i \in Names, NEW force \in BOOLEAN, Start(i, force) PROVE HostInv'
  <2> DEFINE down == IF force /\ i \in kernel.link \cap disk.conf
                     THEN <<Do("systemctl stop", i), Do("wg-quick down", i), Do("link del", i)>>
                     ELSE <<>>
  <2>1. Begin([what |-> "start"], down \o <<Do("start", i)>>) /\ UNCHANGED enabled
    BY <1>5 DEF Start
  <2>2. <<Do("start", i)>> \in Seq(OpsOf(Admin))
    BY ProgramsTyped, TwoTyped DEF PlainNames
  <2>3. <<Do("systemctl stop", i), Do("wg-quick down", i), Do("link del", i)>> \in Seq(OpsOf(Admin))
    BY ProgramsTyped, ThreeTyped DEF PlainNames
  <2>4. down \in Seq(OpsOf(Admin))
    BY <2>3, ConcatTyped
  <2> HIDE DEF down
  <2>5. down \o <<Do("start", i)>> \in Seq(OpsOf(Admin))
    BY <2>2, <2>4, ConcatTyped
  <2> QED  BY <1>0, <2>1, <2>5, BeginKeeps
<1>6. ASSUME ApplyByHand PROVE HostInv'
  <2>1. disk.script # None /\ UNCHANGED enabled
        /\ Begin([what |-> "apply"], ApplyScript(disk.script, DOMAIN disk.script))
    BY <1>6 DEF ApplyByHand
  <2>2. ApplyScript(disk.script, DOMAIN disk.script) \in Seq(OpsOf(Admin))
    BY <1>0, <2>1, ApplyScriptTyped
  <2> QED  BY <1>0, <2>1, <2>2, BeginKeeps
<1> QED  BY <1>1, <1>2, <1>3, <1>4, <1>5, <1>6 DEF Command

LEMMA RebootKeeps ==
  ASSUME HostInv, Reboot
  PROVE  HostInv'
<1>1. /\ kernel' = EmptyKernel /\ loaded' = disk.dropin /\ unit' = [i \in Names |-> "inactive"]
      /\ todo' = UnitsToStart /\ result' \in {"ok", "error"} /\ alone' = TRUE
      /\ UNCHANGED <<disk, parents, enabled>>
  BY DEF Reboot, HostInv
<1>2. KernelOK(kernel')
  <2>1. \A pref \in Prefs : <<>> \in Seq(RulesAt(pref))
    BY ConcatTyped
  <2> QED  BY <1>1, <2>1 DEF KernelOK, EmptyKernel
<1>3. QueuesOK'
  <2>1. todo' = [p \in Processes |-> IF p \in enabled THEN <<Do("systemctl start", p)>> ELSE <<>>]
    BY <1>1 DEF UnitsToStart
  <2>2. ASSUME NEW p \in Processes, p \in enabled PROVE <<Do("systemctl start", p)>> \in Seq(OpsOf(p))
    <3>1. p \in Names
      BY <2>2 DEF DiskOK, HostInv
    <3>2. Do("systemctl start", p) \in OpsOf(p)
      BY <3>1, DoTyped, OpsOnAreOpsOf DEF PlainNames
    <3> QED  BY <3>2, TwoTyped
  <2> QED  BY <2>1, <2>2, ConcatTyped DEF QueuesOK
<1>4. loaded' \subseteq Names /\ unit' \in [Names -> {"inactive", "starting", "active", "failed"}]
  BY <1>1 DEF DiskOK, HostInv
<1> QED  BY <1>1, <1>2, <1>3, <1>4 DEF HostInv, DiskOK, KernelOK

LEMMA InterruptKeeps ==
  ASSUME HostInv, Interrupt
  PROVE  HostInv'
<1>1. /\ todo' = [todo EXCEPT ![Admin] = <<>>] /\ result' = "error" /\ alone' = FALSE
      /\ UNCHANGED <<kernel, systemVars>>
  BY DEF Interrupt
<1>2. QueuesOK'
  BY <1>1, ConcatTyped DEF HostInv, QueuesOK
<1> QED  BY <1>1, <1>2, QueueStepKeeps

LEMMA NextHostInv == HostInv /\ [Next]_vars => HostInv'
<1>1. SUFFICES ASSUME HostInv, [Next]_vars PROVE HostInv'
  OBVIOUS
<1>2. CASE Command
  BY <1>1, <1>2, CommandKeeps
<1>3. CASE Interrupt
  BY <1>1, <1>3, InterruptKeeps
<1>4. CASE Reboot
  BY <1>1, <1>4, RebootKeeps
<1>5. ASSUME NEW p \in Processes, Step(p) \/ WgUpFails(p) PROVE HostInv'
  BY <1>1, <1>5, KernelStepKeeps, CleanRulesKeeps, UnitStepsKeep, InstallStepsKeep,
     StartStepsKeep DEF Step
<1>6. CASE UNCHANGED vars
  BY <1>1, <1>6 DEF vars, systemVars, HostInv, KernelOK, DiskOK, QueuesOK
<1> QED  BY <1>1, <1>2, <1>3, <1>4, <1>5, <1>6 DEF Next

THEOREM HostInvariant == Spec => []HostInv
  BY InitHostInv, NextHostInv, PTL DEF Spec

\* Every variable of the host has its type in every state, and a link that is
\* gone has kept neither addresses nor routes.
THEOREM HostTypes == Spec => []TypeOK
<1>1. HostInv => TypeOK
  BY DEF HostInv, KernelOK, DiskOK, TypeOK
<1> QED  BY <1>1, HostInvariant, PTL

-----------------------------------------------------------------------------
(* The preferences of different tunnels are apart. *)

\* 17000 + 10 * 105 is the preference of the prohibit.
BlocksApart == \A i \in Names : IfaceId[i] # 105

LEMMA PrefsApart ==
  ASSUME NEW i \in Names
  PROVE  /\ FromPref(i) # UidPref(i)
         /\ UidPref(i) # GuardPref
         /\ \A j \in Names : j # i => /\ FromPref(i) # FromPref(j) /\ FromPref(i) # UidPref(j)
                                      /\ UidPref(i) # UidPref(j)
         /\ BlocksApart => FromPref(i) # GuardPref
<1>1. \A j \in Names : IfaceId[j] \in Nat
  BY HostAssumption
<1>2. \A j \in Names : j # i => IfaceId[j] # IfaceId[i]
  BY HostAssumption DEF IsInjective
<1>3. ASSUME NEW j \in Names, j # i
      PROVE  /\ FromPref(i) # FromPref(j) /\ FromPref(i) # UidPref(j)
             /\ UidPref(i) # UidPref(j)
  BY <1>1, <1>2, <1>3 DEF FromPref, UidPref
<1>4. FromPref(i) # UidPref(i) /\ UidPref(i) # GuardPref
  BY <1>1 DEF FromPref, UidPref, GuardPref
<1>5. BlocksApart => FromPref(i) # GuardPref
  BY <1>1 DEF FromPref, GuardPref, BlocksApart
<1> QED  BY <1>3, <1>4, <1>5

\* Where a rule of a tunnel can be.
LEMMA RuleIsAt ==
  ASSUME NEW pref \in Prefs, NEW rule \in RulesAt(pref), NEW i \in Names, rule.table = i
  PROVE  pref \in {FromPref(i), UidPref(i)}
<1>1. CASE \E j \in Names, a \in Addrs : FromPref(j) = pref /\ rule = FromRule(j, a)
  BY <1>1 DEF FromRule
<1>2. CASE \E j \in Names, u \in Uids : UidPref(j) = pref /\ rule = UidRule(j, u)
  BY <1>2 DEF UidRule
<1>3. rule # Prohibit
  BY NoneIsNoName DEF Prohibit
<1> QED  BY <1>1, <1>2, <1>3 DEF RulesAt

\* What is done at a preference of no concern to a tunnel.
LEMMA OtherPref ==
  ASSUME NEW k, KernelOK(k), NEW j \in Names, NEW pref \in Prefs \ {FromPref(j), UidPref(j)},
         NEW r, r \in [Prefs -> {r[q] : q \in Prefs}], DOMAIN r = Prefs,
         r[pref] \in Seq(RulesAt(pref)),
         \A q \in Prefs \ {pref} : r[q] = k.rules[q]
  PROVE  [q \in Prefs |-> {rule \in Range(r[q]) : rule.table = j}]
           = [q \in Prefs |-> {rule \in Range(k.rules[q]) : rule.table = j}]
<1>1. k.rules[pref] \in Seq(RulesAt(pref))
  BY DEF KernelOK
<1>2. Range(k.rules[pref]) \subseteq RulesAt(pref) /\ Range(r[pref]) \subseteq RulesAt(pref)
  BY <1>1 DEF Range
<1>3. \A rule \in RulesAt(pref) : rule.table # j
  BY RuleIsAt
<1>4. {rule \in Range(r[pref]) : rule.table = j} = {rule \in Range(k.rules[pref]) : rule.table = j}
  BY <1>2, <1>3
<1> QED  BY <1>4

LEMMA RulesElsewhere ==
  ASSUME NEW k, KernelOK(k), NEW j \in Names, NEW pref \in Prefs \ {FromPref(j), UidPref(j)},
         NEW rule \in RulesAt(pref)
  PROVE  Of(RuleDel(k, pref), j) = Of(k, j) /\ Of(RuleAdd(k, pref, rule), j) = Of(k, j)
<1>1. ASSUME NEW k2, KernelOK(k2), k2.link = k.link, k2.addr = k.addr, k2.route = k.route,
             \A q \in Prefs \ {pref} : k2.rules[q] = k.rules[q]
      PROVE  Of(k2, j) = Of(k, j)
  <2> DEFINE r == k2.rules
  <2>1. /\ r \in [Prefs -> {r[q] : q \in Prefs}] /\ DOMAIN r = Prefs
        /\ r[pref] \in Seq(RulesAt(pref)) /\ \A q \in Prefs \ {pref} : r[q] = k.rules[q]
    BY <1>1 DEF KernelOK
  <2> HIDE DEF r
  <2>2. [q \in Prefs |-> {x \in Range(r[q]) : x.table = j}]
           = [q \in Prefs |-> {x \in Range(k.rules[q]) : x.table = j}]
    BY <2>1, OtherPref
  <2> QED  BY <1>1, <2>2 DEF Of, r
<1>2. k = [addr |-> k.addr, link |-> k.link, route |-> k.route, rules |-> k.rules]
      /\ k.rules = [q \in Prefs |-> k.rules[q]]
  BY DEF KernelOK
<1>3. Of(RuleDel(k, pref), j) = Of(k, j)
  <2> DEFINE k2 == RuleDel(k, pref)
  <2>1. KernelOK(k2)
    BY RuleDelTyped
  <2>2. k2.link = k.link /\ k2.addr = k.addr /\ k2.route = k.route
        /\ \A q \in Prefs \ {pref} : k2.rules[q] = k.rules[q]
    BY <1>2 DEF RuleDel
  <2> HIDE DEF k2
  <2> QED  BY <1>1, <2>1, <2>2 DEF k2
<1>4. Of(RuleAdd(k, pref, rule), j) = Of(k, j)
  <2> DEFINE k2 == RuleAdd(k, pref, rule)
  <2>1. KernelOK(k2)
    BY RuleAddTyped
  <2>2. k2.link = k.link /\ k2.addr = k.addr /\ k2.route = k.route
        /\ \A q \in Prefs \ {pref} : k2.rules[q] = k.rules[q]
    BY <1>2 DEF RuleAdd
  <2> HIDE DEF k2
  <2> QED  BY <1>1, <2>1, <2>2 DEF k2
<1> QED  BY <1>3, <1>4

\* A command changes nothing of a tunnel that it is not for.
LEMMA LinksElsewhere ==
  ASSUME NEW k, KernelOK(k), NEW i \in Names, NEW j \in Names, j # i
  PROVE  /\ Of(DropLink(k, i), j) = Of(k, j) /\ Of(AddrFlush(k, i), j) = Of(k, j)
         /\ Of(RouteReplace(k, i), j) = Of(k, j) /\ Of(RouteFlush(k, i), j) = Of(k, j)
         /\ \A a \in Addrs : Of(AddrDel(k, i, a), j) = Of(k, j) /\ Of(AddrAdd(k, i, a), j) = Of(k, j)
         /\ Of([k EXCEPT !.link = @ \cup {i}], j) = Of(k, j)
<1>0. /\ k = [addr |-> k.addr, link |-> k.link, route |-> k.route, rules |-> k.rules]
      /\ k.addr \in [Names -> SUBSET Addrs]
  BY DEF KernelOK
<1>1. ASSUME NEW k2, k2.rules = k.rules, k2.addr[j] = k.addr[j],
             j \in k2.link <=> j \in k.link, j \in k2.route <=> j \in k.route
      PROVE  Of(k2, j) = Of(k, j)
  BY <1>1 DEF Of
<1>2. Of(DropLink(k, i), j) = Of(k, j)
  <2> DEFINE b == [k.addr EXCEPT ![i] = {}]
             k2 == [addr |-> b, link |-> k.link \ {i}, route |-> k.route \ {i}, rules |-> k.rules]
  <2>1. DropLink([addr |-> k.addr, link |-> k.link, route |-> k.route, rules |-> k.rules], i) = k2
    BY DropLinkIs
  <2>2. k2.rules = k.rules /\ k2.addr[j] = k.addr[j]
        /\ (j \in k2.link <=> j \in k.link) /\ (j \in k2.route <=> j \in k.route)
    BY <1>0
  <2> HIDE DEF k2
  <2> QED  BY <1>0, <1>1, <2>1, <2>2
<1>3. Of(AddrFlush(k, i), j) = Of(k, j)
  <2> DEFINE k2 == AddrFlush(k, i)
  <2>1. k2.rules = k.rules /\ k2.addr[j] = k.addr[j]
        /\ (j \in k2.link <=> j \in k.link) /\ (j \in k2.route <=> j \in k.route)
    BY <1>0 DEF AddrFlush
  <2> HIDE DEF k2
  <2> QED  BY <1>1, <2>1 DEF k2
<1>4. Of(RouteReplace(k, i), j) = Of(k, j)
  <2> DEFINE k2 == RouteReplace(k, i)
  <2>1. k2.rules = k.rules /\ k2.addr[j] = k.addr[j]
        /\ (j \in k2.link <=> j \in k.link) /\ (j \in k2.route <=> j \in k.route)
    BY <1>0 DEF RouteReplace
  <2> HIDE DEF k2
  <2> QED  BY <1>1, <2>1 DEF k2
<1>5. Of(RouteFlush(k, i), j) = Of(k, j)
  <2> DEFINE k2 == RouteFlush(k, i)
  <2>1. k2.rules = k.rules /\ k2.addr[j] = k.addr[j]
        /\ (j \in k2.link <=> j \in k.link) /\ (j \in k2.route <=> j \in k.route)
    BY <1>0 DEF RouteFlush
  <2> HIDE DEF k2
  <2> QED  BY <1>1, <2>1 DEF k2
<1>6. ASSUME NEW a \in Addrs PROVE Of(AddrDel(k, i, a), j) = Of(k, j)
  <2> DEFINE k2 == AddrDel(k, i, a)
  <2>1. k2.rules = k.rules /\ k2.addr[j] = k.addr[j]
        /\ (j \in k2.link <=> j \in k.link) /\ (j \in k2.route <=> j \in k.route)
    BY <1>0 DEF AddrDel
  <2> HIDE DEF k2
  <2> QED  BY <1>1, <2>1 DEF k2
<1>7. ASSUME NEW a \in Addrs PROVE Of(AddrAdd(k, i, a), j) = Of(k, j)
  <2> DEFINE k2 == AddrAdd(k, i, a)
  <2>1. k2.rules = k.rules /\ k2.addr[j] = k.addr[j]
        /\ (j \in k2.link <=> j \in k.link) /\ (j \in k2.route <=> j \in k.route)
    BY <1>0 DEF AddrAdd
  <2> HIDE DEF k2
  <2> QED  BY <1>1, <2>1 DEF k2
<1>8. Of([k EXCEPT !.link = @ \cup {i}], j) = Of(k, j)
  <2> DEFINE k2 == [k EXCEPT !.link = @ \cup {i}]
  <2>1. k2.rules = k.rules /\ k2.addr[j] = k.addr[j]
        /\ (j \in k2.link <=> j \in k.link) /\ (j \in k2.route <=> j \in k.route)
    BY <1>0
  <2> HIDE DEF k2
  <2> QED  BY <1>1, <2>1 DEF k2
<1> QED  BY <1>2, <1>3, <1>4, <1>5, <1>6, <1>7, <1>8

LEMMA EffectElsewhere ==
  ASSUME BlocksApart, NEW k, KernelOK(k), NEW p \in Processes, NEW o \in OpsOf(p),
         o.op \in KernelOps, NEW j \in Names, o.on # j
  PROVE  Of(Effect(k, o), j) = Of(k, j)
<1>1. CASE o \in CommonOps
  <2>0. GuardPref \in Prefs \ {FromPref(j), UidPref(j)} /\ Prohibit \in RulesAt(GuardPref)
    BY PrefsApart, PrefsOfRules
  <2>1. CASE o = GuardDel
    <3>1. Effect(k, o) = RuleDel(k, GuardPref)
      BY <2>1 DEF Effect, GuardDel, Op
    <3> QED  BY <2>0, <3>1, RulesElsewhere
  <2>2. CASE o = GuardAdd
    <3>1. Effect(k, o) = RuleAdd(k, GuardPref, Prohibit)
      BY <2>2 DEF Effect, GuardAdd, Op
    <3> QED  BY <2>0, <3>1, RulesElsewhere
  <2> QED  BY <1>1, <2>1, <2>2, CommonOpShape DEF KernelOps
<1>2. CASE o.on \in Names /\ o \in OpsOn(o.on)
  <2>1. PICK i \in Names : i = o.on
    BY <1>2
  <2>0. /\ FromPref(i) \in Prefs \ {FromPref(j), UidPref(j)}
        /\ UidPref(i) \in Prefs \ {FromPref(j), UidPref(j)}
    <3>1. i # j
      BY <2>1
    <3>2. FromPref(i) # FromPref(j) /\ FromPref(i) # UidPref(j) /\ UidPref(i) # UidPref(j)
      BY <3>1, PrefsApart
    <3>3. FromPref(j) # UidPref(i)
      BY <3>1, PrefsApart
    <3> QED  BY <3>2, <3>3, PrefsOfRules
  <2>2. CASE o.op \in {"addr del", "addr add"}
    <3>1. o.arg \in Addrs
      BY <1>2, <2>2, OpOnShape
    <3> QED  BY <2>1, <2>2, <3>1, LinksElsewhere, ZenonT(40) DEF Effect
  <2>3. CASE o.op \in {"addr flush", "route replace", "route flush", "link del"}
    BY <2>1, <2>3, LinksElsewhere DEF Effect, FlushNamesake
  <2>4. CASE o.op = "rule del"
    <3>2. o.arg \in {FromPref(i), UidPref(i)}
      BY <1>2, <2>1, <2>4, OpOnShape
    <3>3. Effect(k, o) = RuleDel(k, o.arg)
      BY <2>4 DEF Effect
    <3>4. \A pref \in Prefs \ {FromPref(j), UidPref(j)} : Of(RuleDel(k, pref), j) = Of(k, j)
      <4>1. TAKE pref \in Prefs \ {FromPref(j), UidPref(j)}
      <4>2. CASE k.rules[pref] = <<>>
        BY <4>2 DEF RuleDel
      <4>3. CASE k.rules[pref] # <<>>
        <5>1. k.rules[pref] \in Seq(RulesAt(pref))
          BY DEF KernelOK
        <5>2. Head(k.rules[pref]) \in RulesAt(pref)
          BY <4>3, <5>1
        <5> QED  BY <5>2, RulesElsewhere
      <4> QED  BY <4>2, <4>3
    <3> QED  BY <2>0, <3>2, <3>3, <3>4
  <2>5. CASE o.op = "rule add"
    <3>1. CASE \E a \in Addrs : o = FromAdd(i, a)
      <4>1. PICK a \in Addrs : o = FromAdd(i, a)
        BY <3>1
      <4>2. o.arg.pref = FromPref(i) /\ o.arg.rule = FromRule(i, a)
        BY <4>1 DEF FromAdd, Op
      <4>3. Effect(k, o) = RuleAdd(k, FromPref(i), FromRule(i, a))
        BY <2>5, <4>2 DEF Effect
      <4> QED  BY <2>0, <4>3, RulesElsewhere, PrefsOfRules
    <3>2. CASE \E u \in Uids : o = UidAdd(i, u)
      <4>1. PICK u \in Uids : o = UidAdd(i, u)
        BY <3>2
      <4>2. o.arg.pref = UidPref(i) /\ o.arg.rule = UidRule(i, u)
        BY <4>1 DEF UidAdd, Op
      <4>3. Effect(k, o) = RuleAdd(k, UidPref(i), UidRule(i, u))
        BY <2>5, <4>2 DEF Effect
      <4> QED  BY <2>0, <4>3, RulesElsewhere, PrefsOfRules
    <3> QED  BY <1>2, <2>1, <2>5, <3>1, <3>2, OpOnShape
  <2> QED  BY <2>2, <2>3, <2>4, <2>5 DEF KernelOps
<1> QED  BY <1>1, <1>2, OpsOfShape

LEMMA QueueMoves ==
  ASSUME QueuesOK, NEW p \in Processes, todo[p] # <<>>
  PROVE  /\ Done(p) => todo'[p] # todo[p]
         /\ todo'[p] = Tail(todo[p]) => todo'[p] # todo[p]
         /\ \A o : Continue(p, <<o>>) /\ o # Head(todo[p]) => todo'[p] # todo[p]
<1>1. /\ todo = [q \in Processes |-> todo[q]] /\ todo[p] \in Seq(OpsOf(p))
      /\ Len(Tail(todo[p])) = Len(todo[p]) - 1 /\ Tail(todo[p]) \in Seq(OpsOf(p))
      /\ Len(todo[p]) \in Nat
  BY HeadTailProperties DEF QueuesOK
<1>0. Tail(todo[p]) # todo[p]
  <2>1. Tail(todo[p]) = todo[p] => Len(Tail(todo[p])) = Len(todo[p])
    OBVIOUS
  <2>2. \A n \in Nat : n - 1 # n
    OBVIOUS
  <2> QED  BY <1>1, <2>1, <2>2
<1>2. todo'[p] = Tail(todo[p]) => todo'[p] # todo[p]
  BY <1>0
<1>3. Done(p) => todo'[p] = Tail(todo[p])
  <2>1. <<>> \o Tail(todo[p]) = Tail(todo[p])
    BY <1>1
  <2> QED  BY <1>1, <2>1 DEF Done, Continue
<1>4. ASSUME NEW o, Continue(p, <<o>>), o # Head(todo[p]) PROVE todo'[p] # todo[p]
  <2>1. todo'[p] = <<o>> \o Tail(todo[p])
    BY <1>1, <1>4 DEF Continue
  <2>2. (<<o>> \o Tail(todo[p]))[1] = o
    BY <1>1
  <2>3. todo[p][1] = Head(todo[p])
    BY <1>1
  <2> QED  BY <1>4, <2>1, <2>2, <2>3
<1> QED  BY <1>2, <1>3, <1>4

\* A tunnel's links, addresses, routes and rules are changed by the commands
\* that are for it and by a reboot, whoever else runs, as long as no
\* interface has the identifier whose block begins with the prohibit's
\* preference.
THEOREM TunnelsApart == BlocksApart /\ Spec => OthersUndisturbed
<1> DEFINE Caused(i) == \/ reboots' # reboots
                        \/ \E p \in Running : Subject(p) = i /\ todo'[p] # todo[p]
<1>1. ASSUME BlocksApart, HostInv, [Next]_vars, NEW i \in Names, Of(kernel', i) # Of(kernel, i)
      PROVE  Caused(i)
  <2>0. QueuesOK /\ KernelOK(kernel)
    BY <1>1 DEF HostInv
  <2>1. ASSUME NEW p \in Processes, todo[p] # <<>>, Subject(p) = i, todo'[p] # todo[p]
        PROVE  Caused(i)
    BY <2>1 DEF Running
  <2>2. CASE Reboot
    <3>1. reboots \in Nat => reboots' # reboots
      BY <2>2 DEF Reboot
    <3>2. kernel' # kernel
      BY <1>1
    <3> QED  BY <2>2, <3>1 DEF Reboot
  <2>3. CASE UNCHANGED kernel
    BY <1>1, <2>3
  <2>4. ASSUME NEW p \in Processes, KernelStep(p) PROVE Caused(i)
    <3>1. todo[p] # <<>> /\ Head(todo[p]).op \in KernelOps
          /\ kernel' = Effect(kernel, Head(todo[p])) /\ Done(p)
      BY <2>4 DEF KernelStep
    <3>2. Head(todo[p]) \in OpsOf(p)
      BY <2>0, <3>1, HeadShape
    <3>3. Head(todo[p]).on = i
      BY <1>1, <2>0, <3>1, <3>2, EffectElsewhere
    <3> QED  BY <2>0, <2>1, <3>1, <3>3, QueueMoves DEF Subject
  <2>5. ASSUME NEW p \in Processes, WgDown(p) PROVE Caused(i)
    <3>1. Runs(p, "wg-quick down") /\ Done(p) /\ kernel' \in {kernel, DropLink(kernel, Subject(p))}
      BY <2>5 DEF WgDown
    <3>2. Subject(p) \in Names /\ todo[p] # <<>>
      BY <2>0, <3>1, PlainHead DEF PlainNames, Runs
    <3>0. Subject(p) # i => Of(DropLink(kernel, Subject(p)), i) = Of(kernel, i)
                           /\ Of([kernel EXCEPT !.link = @ \cup {Subject(p)}], i) = Of(kernel, i)
      <4> DEFINE s == Subject(p)
      <4>1. s \in Names
        BY <3>2
      <4> HIDE DEF s
      <4>2. s # i => Of(DropLink(kernel, s), i) = Of(kernel, i)
                   /\ Of([kernel EXCEPT !.link = @ \cup {s}], i) = Of(kernel, i)
        BY <1>1, <2>0, <4>1, LinksElsewhere
      <4> QED  BY <4>2 DEF s
    <3>3. Subject(p) = i
      BY <1>1, <3>0, <3>1
    <3> QED  BY <2>0, <2>1, <3>1, <3>2, <3>3, QueueMoves
  <2>6. ASSUME NEW p \in Processes, SystemctlStop(p) PROVE Caused(i)
    <3>1. Runs(p, "systemctl stop") /\ kernel' \in {kernel, DropLink(kernel, Subject(p))}
          /\ todo'[p] = Tail(todo[p])
      BY <2>6 DEF SystemctlStop
    <3>2. Subject(p) \in Names /\ todo[p] # <<>>
      BY <2>0, <3>1, PlainHead DEF PlainNames, Runs
    <3>0. Subject(p) # i => Of(DropLink(kernel, Subject(p)), i) = Of(kernel, i)
                           /\ Of([kernel EXCEPT !.link = @ \cup {Subject(p)}], i) = Of(kernel, i)
      <4> DEFINE s == Subject(p)
      <4>1. s \in Names
        BY <3>2
      <4> HIDE DEF s
      <4>2. s # i => Of(DropLink(kernel, s), i) = Of(kernel, i)
                   /\ Of([kernel EXCEPT !.link = @ \cup {s}], i) = Of(kernel, i)
        BY <1>1, <2>0, <4>1, LinksElsewhere
      <4> QED  BY <4>2 DEF s
    <3>3. Subject(p) = i
      BY <1>1, <3>0, <3>1
    <3> QED  BY <2>0, <2>1, <3>1, <3>2, <3>3, QueueMoves
  <2>7. ASSUME NEW p \in Processes, WgUp(p), kernel' # kernel PROVE Caused(i)
    <3>1. Runs(p, "wg-quick up") /\ Continue(p, <<Do("post", Subject(p))>>)
          /\ kernel' = [kernel EXCEPT !.link = @ \cup {Subject(p)}]
      BY <2>7 DEF WgUp
    <3>2. Subject(p) \in Names /\ todo[p] # <<>>
      BY <2>0, <3>1, PlainHead DEF PlainNames, Runs
    <3>0. Subject(p) # i => Of(DropLink(kernel, Subject(p)), i) = Of(kernel, i)
                           /\ Of([kernel EXCEPT !.link = @ \cup {Subject(p)}], i) = Of(kernel, i)
      <4> DEFINE s == Subject(p)
      <4>1. s \in Names
        BY <3>2
      <4> HIDE DEF s
      <4>2. s # i => Of(DropLink(kernel, s), i) = Of(kernel, i)
                   /\ Of([kernel EXCEPT !.link = @ \cup {s}], i) = Of(kernel, i)
        BY <1>1, <2>0, <4>1, LinksElsewhere
      <4> QED  BY <4>2 DEF s
    <3>3. Subject(p) = i
      BY <1>1, <3>0, <3>1
    <3>4. Do("post", Subject(p)) # Head(todo[p])
      <4>1. Head(todo[p]).op = "wg-quick up" /\ Do("post", Subject(p)).op = "post"
        BY <3>1 DEF Runs, Do, Op
      <4> QED  BY <4>1
    <3> QED  BY <2>0, <2>1, <3>1, <3>2, <3>3, <3>4, QueueMoves
  <2>8. ASSUME NEW p \in Processes, Step(p) \/ WgUpFails(p) PROVE Caused(i)
    <3>1. \/ KernelStep(p) \/ WgDown(p) \/ SystemctlStop(p) \/ WgUp(p)
          \/ UNCHANGED kernel
      BY <2>8 DEF Step, CleanRules, SystemctlStart, ExecStartPost, UnitStarted, InstallScript,
         InstallConf, InstallDropin, InstallTables, BeginStart, ApplyState, LookUpTable, WgUpFails
    <3> QED  BY <2>3, <2>4, <2>5, <2>6, <2>7, <3>1
  <2>9. Command \/ Interrupt => UNCHANGED kernel
    BY DEF Command, Interrupt, Deploy, StopClean, IfaceUp, IfaceDown, Start, ApplyByHand, Begin
  <2>10. UNCHANGED vars => UNCHANGED kernel
    BY DEF vars
  <2> QED  BY <1>1, <2>2, <2>3, <2>8, <2>9, <2>10 DEF Next
<1>2. BlocksApart /\ HostInv /\ [Next]_vars =>
        [\A i \in Names :
           Of(kernel', i) # Of(kernel, i) =>
             \/ reboots' # reboots
             \/ \E p \in Running : Subject(p) = i /\ todo'[p] # todo[p]]_vars
  BY <1>1
<1>3. BlocksApart /\ [Next]_vars => BlocksApart'
  BY DEF BlocksApart
<1> QED  BY <1>2, <1>3, HostInvariant, PTL DEF OthersUndisturbed, Spec

-----------------------------------------------------------------------------
(* No preference of a tunnel comes to hold more than two rules: a script    *)
(* deletes one before it adds one, and two scripts at most run for the      *)
(* tunnel at a time.                                                        *)

IsAdd(op) == op.op = "rule add"
IsDel(op) == op.op = "rule del"
DeletesBefore(del, add) == IsDel(del) /\ del.arg = add.arg.pref

\* Every addition comes right after its deletion; the second lets the first
\* command be an addition, whose deletion has been run.
Tidy(s) == \A n \in 1 .. Len(s) : IsAdd(s[n]) => n > 1 /\ DeletesBefore(s[n - 1], s[n])
TidyBehind(s) == \A n \in 2 .. Len(s) : IsAdd(s[n]) => DeletesBefore(s[n - 1], s[n])

TidySeqs(S) == {s \in Seq(S) : Tidy(s)}

\* p is about to add a rule at this preference.
Adding(p, pref) ==
  IF todo[p] # <<>> /\ IsAdd(Head(todo[p])) /\ Head(todo[p]).arg.pref = pref THEN 1 ELSE 0

QueuesTidy == \A p \in Processes : TidyBehind(todo[p])

TwoRules ==
  \A i \in Names : \A pref \in {FromPref(i), UidPref(i)} :
    Len(kernel.rules[pref]) + Adding(Admin, pref) + Adding(i, pref) <= 2

-----------------------------------------------------------------------------
(* What stop_clean_iface has still to do is in its queue. *)

StopNames ==
  {"systemctl stop", "wg-quick down", "clean rules", "rule del", "route flush",
   "addr flush", "link del"}
IsStopOp(op) == op.op \in StopNames
IsRound(op, i) == op.op = "clean rules" /\ op.on = i
LinkDel(i) == Do("link del", i)
DelRule(i, pref) == Op("rule del", i, pref)

LinkGoes(i) ==
  \/ i \notin kernel.link
  \/ \E n \in 1 .. Len(todo[Admin]) : todo[Admin][n] = LinkDel(i)

\* Rounds enough are to come for every rule at this preference: as many as
\* the command says, and the one that is running if it has not come to the
\* preference yet.
DeletedBefore(pref, i, n) == \E m \in 1 .. n - 1 : todo[Admin][m] = DelRule(i, pref)

EnoughRounds(pref, i, n) ==
  Len(kernel.rules[pref])
    <= todo[Admin][n].arg + (IF DeletedBefore(pref, i, n) THEN 1 ELSE 0)

RulesGo(i) ==
  \/ PrefsLookingUp(i) = {}
  \/ \E n \in 1 .. Len(todo[Admin]) :
       /\ IsRound(todo[Admin][n], i)
       /\ \A pref \in {FromPref(i), UidPref(i)} : EnoughRounds(pref, i, n)

\* A command that runs alone has still to take the interfaces away.
Clearing(ifs) ==
  /\ ifs \subseteq Names
  /\ \A p \in Names : todo[p] = <<>>
  /\ \A i \in ifs : LinkGoes(i) /\ RulesGo(i)

\* The rest of what a stop_clean has to do.
Stopping(ifs) ==
  /\ Clearing(ifs)
  /\ \A n \in 1 .. Len(todo[Admin]) : IsStopOp(todo[Admin][n])

StopInv == last.what = "stop" /\ alone => Stopping(last.ifs)

StopCleans == HostInv /\ QueuesTidy /\ TwoRules /\ StopInv

-----------------------------------------------------------------------------
(* Tidy programs. *)

LEMMA TidyConcat ==
  ASSUME NEW S
  PROVE  <<>> \in TidySeqs(S) /\ \A a, b \in TidySeqs(S) : a \o b \in TidySeqs(S)
<1>1. <<>> \in TidySeqs(S)
  BY ConcatTyped DEF TidySeqs, Tidy
<1>2. ASSUME NEW a \in TidySeqs(S), NEW b \in TidySeqs(S) PROVE a \o b \in TidySeqs(S)
  <2>1. a \in Seq(S) /\ b \in Seq(S) /\ Tidy(a) /\ Tidy(b)
    BY DEF TidySeqs
  <2> DEFINE c == a \o b
  <2>2. /\ c \in Seq(S) /\ Len(c) = Len(a) + Len(b)
        /\ Len(a) \in Nat /\ Len(b) \in Nat
        /\ \A n \in 1 .. Len(a) : c[n] = a[n]
        /\ \A n \in 1 .. Len(b) : c[Len(a) + n] = b[n]
    BY <2>1
  <2> HIDE DEF c
  <2>3. ASSUME NEW n \in 1 .. Len(c), IsAdd(c[n])
        PROVE  n > 1 /\ DeletesBefore(c[n - 1], c[n])
    <3>1. CASE n <= Len(a)
      <4>1. n \in 1 .. Len(a) /\ c[n] = a[n]
        BY <2>2, <3>1
      <4>2. n > 1 /\ DeletesBefore(a[n - 1], a[n])
        BY <2>1, <2>3, <4>1 DEF Tidy
      <4>3. n - 1 \in 1 .. Len(a)
        BY <4>1, <4>2
      <4> QED  BY <2>2, <4>1, <4>2, <4>3
    <3>2. CASE n > Len(a)
      <4> DEFINE m == n - Len(a)
      <4>1. m \in 1 .. Len(b) /\ n = Len(a) + m
        BY <2>2, <3>2
      <4>2. c[n] = b[m]
        BY <2>2, <4>1
      <4>3. m > 1 /\ DeletesBefore(b[m - 1], b[m])
        BY <2>1, <2>3, <4>1, <4>2 DEF Tidy
      <4>4. m - 1 \in 1 .. Len(b) /\ n - 1 = Len(a) + (m - 1)
        BY <2>2, <4>1, <4>3
      <4>5. c[n - 1] = b[m - 1]
        BY <2>2, <4>4
      <4> QED  BY <2>2, <4>1, <4>2, <4>3, <4>5
    <3> QED  BY <2>2, <3>1, <3>2
  <2> QED  BY <2>2, <2>3 DEF TidySeqs, Tidy, c
<1> QED  BY <1>1, <1>2

\* A program without additions is tidy.
LEMMA NoAddsTidy ==
  ASSUME NEW S, NEW s \in Seq({op \in S : ~ IsAdd(op)})
  PROVE  s \in TidySeqs(S)
<1>1. \A n \in 1 .. Len(s) : ~ IsAdd(s[n])
  OBVIOUS
<1>2. s \in Seq(S)
  OBVIOUS
<1> QED  BY <1>1, <1>2 DEF TidySeqs, Tidy

\* What is behind a command that is no deletion is tidy.
LEMMA TidyTail ==
  ASSUME NEW S, NEW s \in Seq(S), s # <<>>, TidyBehind(s)
  PROVE  /\ ~ IsDel(Head(s)) => Tail(s) \in TidySeqs(S)
         /\ TidyBehind(Tail(s))
         /\ Tail(s) # <<>> /\ IsAdd(Head(Tail(s))) => DeletesBefore(Head(s), Head(Tail(s)))
<1> DEFINE t == Tail(s)
<1>1. /\ t \in Seq(S) /\ Len(t) = Len(s) - 1 /\ Len(s) \in Nat \ {0}
      /\ \A n \in 1 .. Len(t) : t[n] = s[n + 1]
      /\ Head(s) = s[1]
      /\ t # <<>> => Head(t) = s[2] /\ Len(s) >= 2
  BY HeadTailProperties
<1> HIDE DEF t
<1>2. ASSUME NEW n \in 1 .. Len(t), IsAdd(t[n]), n > 1 PROVE DeletesBefore(t[n - 1], t[n])
  <2>1. n + 1 \in 2 .. Len(s) /\ (n + 1) - 1 = n /\ n - 1 \in 1 .. Len(t) /\ (n - 1) + 1 = n
    BY <1>1, <1>2
  <2>2. t[n] = s[n + 1] /\ t[n - 1] = s[n]
    BY <1>1, <2>1
  <2>3. IsAdd(s[n + 1]) => DeletesBefore(s[(n + 1) - 1], s[n + 1])
    BY <2>1 DEF TidyBehind
  <2> QED  BY <1>2, <2>1, <2>2, <2>3
<1>3. ASSUME t # <<>>, IsAdd(s[2]) PROVE DeletesBefore(s[1], s[2])
  <2>1. 2 \in 2 .. Len(s) /\ 2 - 1 = 1
    BY <1>1, <1>3
  <2> QED  BY <1>3, <2>1 DEF TidyBehind
<1>4. TidyBehind(t)
  BY <1>1, <1>2 DEF TidyBehind
<1>5. ASSUME ~ IsDel(s[1]) PROVE Tidy(t)
  <2>1. ASSUME NEW n \in 1 .. Len(t), IsAdd(t[n]) PROVE n > 1
    <3>1. SUFFICES ASSUME n = 1 PROVE FALSE
      BY <1>1
    <3>2. t # <<>> /\ IsAdd(s[2])
      BY <1>1, <2>1, <3>1
    <3> QED  BY <1>3, <1>5, <3>2 DEF DeletesBefore
  <2> QED  BY <1>2, <2>1 DEF Tidy
<1> QED  BY <1>1, <1>3, <1>4, <1>5 DEF t, TidySeqs

\* Nothing is being added at the head of a tidy program.
LEMMA TidyHead ==
  ASSUME NEW S, NEW s \in TidySeqs(S)
  PROVE  TidyBehind(s) /\ (s # <<>> => ~ IsAdd(Head(s)))
<1>1. s \in Seq(S) /\ Tidy(s)
  BY DEF TidySeqs
<1>2. TidyBehind(s)
  BY <1>1 DEF Tidy, TidyBehind
<1>3. ASSUME s # <<>> PROVE ~ IsAdd(Head(s))
  <2>1. 1 \in 1 .. Len(s) /\ Head(s) = s[1]
    BY <1>1, <1>3
  <2>2. ~ (1 > 1)
    OBVIOUS
  <2> QED  BY <1>1, <2>1, <2>2 DEF Tidy
<1> QED  BY <1>2, <1>3

LEMMA ResetIsTidy ==
  ASSUME NEW S, NEW pref, NEW i, NEW rule, ResetRule(pref, i, rule) \in Seq(S)
  PROVE  ResetRule(pref, i, rule) \in TidySeqs(S)
<1> DEFINE d == Op("rule del", i, pref)
           a == Op("rule add", i, [pref |-> pref, rule |-> rule])
<1>1. DeletesBefore(d, a) /\ ~ IsAdd(d)
  BY DEF Op, DeletesBefore, IsAdd, IsDel
<1>2. ResetRule(pref, i, rule) = <<d, a>>
  BY DEF ResetRule
<1> HIDE DEF d, a
<1>3. Tidy(<<d, a>>)
  <2>1. ASSUME NEW n \in 1 .. 2, IsAdd(<<d, a>>[n])
        PROVE  n > 1 /\ DeletesBefore(<<d, a>>[n - 1], <<d, a>>[n])
    <3>1. n = 2
      BY <1>1, <2>1
    <3> QED  BY <1>1, <3>1
  <2> QED  BY <2>1 DEF Tidy
<1> QED  BY <1>2, <1>3 DEF TidySeqs

LEMMA TidyGrow ==
  ASSUME NEW S, NEW T, S \subseteq T
  PROVE  TidySeqs(S) \subseteq TidySeqs(T)
  BY SeqsGrow DEF TidySeqs

LEMMA PlanTidy ==
  ASSUME NEW i \in Names, NEW plan \in Plans
  PROVE  /\ AddressCommands(i, plan) \in TidySeqs(OpsOn(i))
         /\ RouteCommands(i, plan) \in TidySeqs(OpsOn(i))
         /\ RuleCommands(i, plan) \in TidySeqs(OpsOn(i))
<1>1. /\ plan.addr = None \/ plan.addr \in Addrs
      /\ plan.uids \in Seq(Uids)
  BY DEF Plans
<1>2. AddressCommands(i, plan) \in TidySeqs(OpsOn(i))
  <2>1. CASE plan.addr = None
    BY <2>1, TidyConcat DEF AddressCommands
  <2>2. CASE plan.addr # None
    <3>1. ASSUME NEW a \in Addrs
          PROVE  /\ Op("addr del", i, a) \in {op \in OpsOn(i) : ~ IsAdd(op)}
                 /\ Op("addr add", i, a) \in {op \in OpsOn(i) : ~ IsAdd(op)}
      BY DEF OpsOn, Op, IsAdd
    <3>2. ASSUME NEW a \in Addrs PROVE ResetAddress(i, a) \in TidySeqs(OpsOn(i))
      BY <3>1, TwoTyped, NoAddsTidy DEF ResetAddress
    <3> QED  BY <1>1, <2>2, <3>2 DEF AddressCommands
  <2> QED  BY <2>1, <2>2
<1>3. RouteCommands(i, plan) \in TidySeqs(OpsOn(i))
  <2>1. CASE ~ plan.routed
    BY <2>1, TidyConcat DEF RouteCommands
  <2>2. CASE plan.routed
    <3>1. Do("route replace", i) \in {op \in OpsOn(i) : ~ IsAdd(op)}
      BY DoTyped DEF PlainNames, IsAdd, Do, Op
    <3>2. <<Do("route replace", i)>> \in TidySeqs(OpsOn(i))
      BY <3>1, TwoTyped, NoAddsTidy
    <3> QED  BY <2>2, <3>2 DEF RouteCommands
  <2> QED  BY <2>1, <2>2
<1>4. RuleCommands(i, plan) \in TidySeqs(OpsOn(i))
  <2> DEFINE seqs == [n \in DOMAIN plan.uids |-> ResetRule(UidPref(i), i, UidRule(i, plan.uids[n]))]
             from == IF plan.addr = None THEN <<>>
                     ELSE ResetRule(FromPref(i), i, FromRule(i, plan.addr))
  <2>1. \A n \in 1 .. Len(plan.uids) : plan.uids[n] \in Uids
    BY <1>1
  <2>2. \A n \in 1 .. Len(plan.uids) :
          ResetRule(UidPref(i), i, UidRule(i, plan.uids[n])) \in TidySeqs(OpsOn(i))
    BY <2>1, ResetRuleTyped, ResetIsTidy
  <2>3. DOMAIN plan.uids = 1 .. Len(plan.uids) /\ Len(plan.uids) \in Nat
    BY <1>1
  <2>4. seqs \in Seq(TidySeqs(OpsOn(i)))
    BY <2>2, <2>3
  <2>5. from \in TidySeqs(OpsOn(i))
    BY <1>1, ResetRuleTyped, ResetIsTidy, TidyConcat
  <2> HIDE DEF seqs, from
  <2>6. FlattenSeq(seqs) \in TidySeqs(OpsOn(i))
    BY <2>4, FlattenClosed, TidyConcat
  <2>7. from \o FlattenSeq(seqs) \in TidySeqs(OpsOn(i))
    BY <2>5, <2>6, TidyConcat
  <2> QED  BY <2>7 DEF RuleCommands, from, seqs
<1> QED  BY <1>2, <1>3, <1>4

LEMMA ApplyScriptTidy ==
  ASSUME NEW content, IsScript(content), NEW p \in Processes, NEW args,
         p # Admin => args \subseteq {p}
  PROVE  ApplyScript(content, args) \in TidySeqs(OpsOf(p))
<1> DEFINE wanted == args \cap DOMAIN content
           S == OpsOf(p)
           adding == [i \in wanted |-> AddressCommands(i, content[i])]
           routing == [i \in wanted |-> RouteCommands(i, content[i])]
           ruling == [i \in wanted |-> RuleCommands(i, content[i])]
<1>1. ASSUME NEW i \in wanted
      PROVE  /\ adding[i] \in TidySeqs(S) /\ routing[i] \in TidySeqs(S) /\ ruling[i] \in TidySeqs(S)
  <2>1. i \in Names /\ (p = Admin \/ p = i)
    BY DEF IsScript, Processes
  <2>2. content[i] \in Plans
    BY DEF IsScript
  <2>3. TidySeqs(OpsOn(i)) \subseteq TidySeqs(S)
    BY <2>1, OpsOnAreOpsOf, TidyGrow
  <2> QED  BY <2>1, <2>2, <2>3, PlanTidy
<1>2. ResetRule(GuardPref, None, Prohibit) \in TidySeqs(S)
  <2>1. GuardDel \in S /\ GuardAdd \in S
    BY DEF OpsOf, CommonOps
  <2>2. ResetRule(GuardPref, None, Prohibit) \in Seq(S)
    BY <2>1, TwoTyped DEF ResetRule, GuardDel, GuardAdd
  <2> QED  BY <2>2, ResetIsTidy
<1>3. DOMAIN adding = wanted /\ DOMAIN routing = wanted /\ DOMAIN ruling = wanted
  OBVIOUS
<1> HIDE DEF S, adding, routing, ruling
<1>4. ForEach(adding) \in TidySeqs(S)
  BY <1>1, <1>3, ForEachClosed, TidyConcat
<1>5. ForEach(routing) \in TidySeqs(S)
  BY <1>1, <1>3, ForEachClosed, TidyConcat
<1>6. ForEach(ruling) \in TidySeqs(S)
  BY <1>1, <1>3, ForEachClosed, TidyConcat
<1>7. ForEach(adding) \o ForEach(routing) \o ForEach(ruling)
        \o ResetRule(GuardPref, None, Prohibit) \in TidySeqs(S)
  BY <1>2, <1>4, <1>5, <1>6, TidyConcat
<1> QED  BY <1>7 DEF ApplyScript, S, adding, routing, ruling

LEMMA OneTidy ==
  ASSUME NEW S, NEW op \in S, ~ IsAdd(op)
  PROVE  <<op>> \in TidySeqs(S)
<1>1. op \in {o \in S : ~ IsAdd(o)}
  OBVIOUS
<1> QED  BY <1>1, TwoTyped, NoAddsTidy

\* The programs of start, stop and install.
LEMMA CommandsTidy ==
  /\ \A i \in Names : \A name \in PlainNames :
       Do(name, i) \in OpsOf(Admin) /\ <<Do(name, i)>> \in TidySeqs(OpsOf(Admin))
  /\ \A i \in Names : StopProgram(i) \in TidySeqs(OpsOn(i)) /\ StartProgram(i) \in TidySeqs(OpsOn(i))
  /\ \A ifs \in SUBSET Names : ForEach([i \in ifs |-> StopProgram(i)]) \in TidySeqs(OpsOf(Admin))
  /\ \A ifs \in SUBSET Names : ForEach([i \in ifs |-> <<Do("start", i)>>]) \in TidySeqs(OpsOf(Admin))
  /\ \A tree \in Trees, create \in BOOLEAN :
       InstallProgram(tree, create) \in TidySeqs(OpsOf(Admin))
<1> DEFINE S == OpsOf(Admin)
<1>1. \A i \in Names : OpsOn(i) \subseteq S /\ TidySeqs(OpsOn(i)) \subseteq TidySeqs(S)
  BY OpsOnAreOpsOf, TidyGrow DEF Processes
<1>2. ASSUME NEW i \in Names, NEW name \in PlainNames
      PROVE  Do(name, i) \in S /\ <<Do(name, i)>> \in TidySeqs(S)
  <2>1. Do(name, i) \in S /\ ~ IsAdd(Do(name, i))
    BY <1>1, DoTyped DEF Do, Op, IsAdd, PlainNames
  <2> HIDE DEF S
  <2> QED  BY <2>1, OneTidy
<1>3. ASSUME NEW i \in Names
      PROVE  StopProgram(i) \in TidySeqs(OpsOn(i)) /\ StartProgram(i) \in TidySeqs(OpsOn(i))
  <2> DEFINE T == {op \in OpsOn(i) : ~ IsAdd(op)}
  <2>1. \A name \in PlainNames : Do(name, i) \in T
    BY DoTyped DEF PlainNames, IsAdd, Do, Op
  <2>2. Op("clean rules", i, 10) \in T
    BY DEF OpsOn, Op, IsAdd
  <2>3. /\ Do("systemctl stop", i) \in T /\ Do("wg-quick down", i) \in T
        /\ Do("route flush", i) \in T /\ Do("addr flush", i) \in T /\ Do("link del", i) \in T
        /\ Do("systemctl start", i) \in T /\ Do("apply", i) \in T
    BY <2>1 DEF PlainNames
  <2> HIDE DEF T
  <2>4. StopProgram(i) \in Seq(T) /\ StartProgram(i) \in Seq(T)
    BY <2>2, <2>3, SixTyped, TwoTyped DEF StopProgram, StartProgram
  <2> QED  BY <2>4, NoAddsTidy DEF T
<1>4. ASSUME NEW ifs \in SUBSET Names
      PROVE  /\ ForEach([i \in ifs |-> StopProgram(i)]) \in TidySeqs(S)
             /\ ForEach([i \in ifs |-> <<Do("start", i)>>]) \in TidySeqs(S)
  <2> DEFINE stops == [i \in ifs |-> StopProgram(i)]
             starts == [i \in ifs |-> <<Do("start", i)>>]
  <2>1. \A i \in Names : i \in DOMAIN stops => stops[i] \in TidySeqs(S)
    BY <1>1, <1>3
  <2>2. \A i \in Names : i \in DOMAIN starts => starts[i] \in TidySeqs(S)
    BY <1>2 DEF PlainNames
  <2> HIDE DEF stops, starts, S
  <2>3. ForEach(stops) \in TidySeqs(S) /\ ForEach(starts) \in TidySeqs(S)
    BY <2>1, <2>2, ForEachClosed, TidyConcat
  <2> QED  BY <2>3 DEF stops, starts
<1>5. ASSUME NEW tree \in Trees, NEW create \in BOOLEAN
      PROVE  InstallProgram(tree, create) \in TidySeqs(S)
  <2> DEFINE confs == [i \in tree.conf |-> <<Do("install conf", i)>>]
             dropins == [i \in tree.dropin |-> <<Op("install dropin", i, create)>>]
  <2>1. Op("install script", None, tree) \in S /\ Op("install tables", None, tree) \in S
    BY DEF OpsOf, CommonOps, Op
  <2>2. ASSUME NEW i \in Names PROVE Op("install dropin", i, create) \in S
    <3>1. Op("install dropin", i, create) \in OpsOn(i)
      BY DEF OpsOn, Op
    <3> QED  BY <1>1, <3>1
  <2> HIDE DEF S
  <2>3. \A i \in Names : i \in DOMAIN confs => confs[i] \in TidySeqs(S)
    BY <1>2 DEF PlainNames
  <2>4. \A i \in Names : i \in DOMAIN dropins => dropins[i] \in TidySeqs(S)
    <3>1. \A i \in Names : ~ IsAdd(Op("install dropin", i, create))
      BY DEF IsAdd, Op
    <3> QED  BY <2>2, <3>1, OneTidy
  <2>5. <<Op("install script", None, tree)>> \in TidySeqs(S)
        /\ <<Op("install tables", None, tree)>> \in TidySeqs(S)
    <3>1. ~ IsAdd(Op("install script", None, tree)) /\ ~ IsAdd(Op("install tables", None, tree))
      BY DEF IsAdd, Op
    <3> QED  BY <2>1, <3>1, OneTidy
  <2> HIDE DEF confs, dropins
  <2>6. ForEach(confs) \in TidySeqs(S) /\ ForEach(dropins) \in TidySeqs(S)
    BY <2>3, <2>4, ForEachClosed, TidyConcat
  <2>7. <<Op("install script", None, tree)>> \o ForEach(confs) \o ForEach(dropins)
        \o <<Op("install tables", None, tree)>> \in TidySeqs(S)
    BY <2>5, <2>6, TidyConcat
  <2> QED  BY <2>7 DEF InstallProgram, confs, dropins
<1> QED  BY <1>2, <1>3, <1>4, <1>5

-----------------------------------------------------------------------------
(* How a step moves the queues: all steps but a deletion leave a tidy one   *)
(* wherever they leave another.                                             *)

Moves(q) == todo'[q] = todo[q] \/ todo'[q] \in TidySeqs(OpsOf(q))

LEMMA ContinueMoves ==
  ASSUME HostInv, QueuesTidy, NEW p \in Processes, todo[p] # <<>>, ~ IsDel(Head(todo[p])),
         NEW more \in TidySeqs(OpsOf(p)),
         todo' = [todo EXCEPT ![p] = more \o Tail(todo[p])]
  PROVE  \A q \in Processes : Moves(q)
<1>1. todo = [q \in Processes |-> todo[q]] /\ todo[p] \in Seq(OpsOf(p)) /\ TidyBehind(todo[p])
  BY DEF HostInv, QueuesOK, QueuesTidy
<1>2. Tail(todo[p]) \in TidySeqs(OpsOf(p))
  BY <1>1, TidyTail
<1>3. more \o Tail(todo[p]) \in TidySeqs(OpsOf(p))
  BY <1>2, TidyConcat
<1> QED  BY <1>1, <1>3 DEF Moves

LEMMA MovingSteps ==
  ASSUME HostInv, QueuesTidy, NEW p \in Processes
  PROVE  /\ \A name : \A more \in TidySeqs(OpsOf(p)) :
              Runs(p, name) /\ name # "rule del" /\ Continue(p, more) => \A q \in Processes : Moves(q)
         /\ \A name : Runs(p, name) /\ name # "rule del" /\ Done(p) => \A q \in Processes : Moves(q)
         /\ Raise(p) => \A q \in Processes : Moves(q)
<1>1. ASSUME NEW name, NEW more \in TidySeqs(OpsOf(p)), name # "rule del", Runs(p, name),
             Continue(p, more)
      PROVE  \A q \in Processes : Moves(q)
  <2>1. todo[p] # <<>> /\ ~ IsDel(Head(todo[p]))
        /\ todo' = [todo EXCEPT ![p] = more \o Tail(todo[p])]
    BY <1>1 DEF Runs, Continue, IsDel
  <2> QED  BY <1>1, <2>1, ContinueMoves
<1>2. ASSUME NEW name, name # "rule del", Runs(p, name), Done(p)
      PROVE  \A q \in Processes : Moves(q)
  BY <1>1, <1>2, TidyConcat DEF Done
<1>3. ASSUME Raise(p) PROVE \A q \in Processes : Moves(q)
  <2>1. todo' = [todo EXCEPT ![p] = <<>>] /\ todo = [q \in Processes |-> todo[q]]
    BY <1>3 DEF Raise, HostInv, QueuesOK
  <2> QED  BY <2>1, TidyConcat DEF Moves
<1> QED  BY <1>1, <1>2, <1>3

LEMMA DeletionsTidy ==
  ASSUME KernelOK(kernel), NEW i \in Names, NEW list \in Ordered(PrefsLookingUp(i))
  PROVE  Deletions(i, list) \in TidySeqs(OpsOn(i))
<1> DEFINE s == Deletions(i, list)
           T == {o \in OpsOn(i) : ~ IsAdd(o)}
<1>1. /\ s \in Seq(OpsOn(i)) /\ Len(s) = Len(list)
      /\ \A n \in 1 .. Len(list) : ~ IsAdd(s[n])
  <2>1. \A x : ~ IsAdd(Op("rule del", i, x))
    BY DEF Op, IsAdd
  <2> QED  BY <2>1, DeletionsTyped
<1> HIDE DEF s
<1>2. ASSUME NEW n \in 1 .. Len(s) PROVE s[n] \in T
  <2>1. ~ IsAdd(s[n]) /\ s[n] \in OpsOn(i)
    BY <1>1
  <2> QED  BY <2>1
<1>3. Len(s) \in Nat /\ DOMAIN s = 1 .. Len(s) /\ s = [n \in 1 .. Len(s) |-> s[n]]
  BY <1>1
<1> HIDE DEF T
<1>4. s \in Seq(T)
  BY <1>2, <1>3, MadeTyped
<1> QED  BY <1>4, NoAddsTidy DEF s, T

LEMMA StepMoves ==
  ASSUME HostInv, QueuesTidy, NEW p \in Processes, Step(p) \/ WgUpFails(p),
         todo[p] # <<>> => ~ IsDel(Head(todo[p]))
  PROVE  \A q \in Processes : Moves(q)
<1> DEFINE i == Subject(p)
           S == OpsOf(p)
<1>0. QueuesOK /\ DiskOK /\ KernelOK(kernel) /\ todo = [q \in Processes |-> todo[q]]
  BY DEF HostInv, QueuesOK
<1>1. ASSUME NEW name \in PlainNames, Runs(p, name)
      PROVE  i \in Names /\ (p # Admin => i = p)
             /\ OpsOn(i) \subseteq S /\ TidySeqs(OpsOn(i)) \subseteq TidySeqs(S)
  <2>1. i \in Names /\ (p # Admin => i = p)
    BY <1>0, <1>1, PlainHead
  <2>2. OpsOn(i) \subseteq S
    BY <2>1, OpsOnAreOpsOf
  <2> HIDE DEF i, S
  <2> QED  BY <2>1, <2>2, TidyGrow
<1>2. ASSUME NEW name \in PlainNames, Runs(p, name)
      PROVE  \A n \in PlainNames : <<Do(n, i)>> \in TidySeqs(S)
  <2>1. i \in Names /\ OpsOn(i) \subseteq S
    BY <1>1, <1>2
  <2> HIDE DEF i, S
  <2>2. ASSUME NEW n \in PlainNames PROVE <<Do(n, i)>> \in TidySeqs(S)
    <3>1. Do(n, i) \in S /\ ~ IsAdd(Do(n, i))
      BY <2>1, DoTyped DEF Do, Op, IsAdd, PlainNames
    <3> QED  BY <3>1, OneTidy
  <2> QED  BY <2>2
<1>3. CASE KernelStep(p)
  <2>1. todo[p] # <<>> /\ Done(p)
    BY <1>3 DEF KernelStep
  <2>2. Runs(p, Head(todo[p]).op) /\ Head(todo[p]).op # "rule del"
    BY <2>1 DEF Runs, IsDel
  <2> QED  BY <2>1, <2>2, MovingSteps
<1>4. CASE CleanRules(p)
  <2>1. Runs(p, "clean rules")
    BY <1>4 DEF CleanRules
  <2>2. i \in Names /\ (p # Admin => i = p) /\ Argument(p) \in Nat
    BY <1>0, <2>1, CleanHead
  <2>9. Argument(p) # 0 => Argument(p) - 1 \in Nat
    BY <2>2
  <2>3. PICK list \in Ordered(PrefsLookingUp(i)) :
          Continue(p, IF list = <<>> \/ Argument(p) = 0
                      THEN <<>>
                      ELSE Deletions(i, list) \o <<Op("clean rules", i, Argument(p) - 1)>>)
    BY <1>4 DEF CleanRules
  <2> HIDE DEF i
  <2>4. OpsOn(i) \subseteq S
    BY <2>2, OpsOnAreOpsOf
  <2>5. Deletions(i, list) \in TidySeqs(S)
    <3> HIDE DEF S
    <3> QED  BY <1>0, <2>2, <2>4, DeletionsTidy, TidyGrow
  <2>6. Argument(p) # 0 => <<Op("clean rules", i, Argument(p) - 1)>> \in TidySeqs(S)
    <3>1. SUFFICES ASSUME Argument(p) # 0
                   PROVE  <<Op("clean rules", i, Argument(p) - 1)>> \in TidySeqs(S)
      OBVIOUS
    <3>2. Argument(p) - 1 \in Nat
      BY <2>9, <3>1
    <3>3. Op("clean rules", i, Argument(p) - 1) \in S
          /\ ~ IsAdd(Op("clean rules", i, Argument(p) - 1))
      BY <2>4, <3>2 DEF OpsOn, Op, IsAdd
    <3> HIDE DEF S
    <3> QED  BY <3>3, OneTidy
  <2> DEFINE more == IF list = <<>> \/ Argument(p) = 0
                     THEN <<>>
                     ELSE Deletions(i, list) \o <<Op("clean rules", i, Argument(p) - 1)>>
  <2>7. more \in TidySeqs(S)
    <3> HIDE DEF S
    <3> QED  BY <2>5, <2>6, TidyConcat
  <2>8. Continue(p, more)
    BY <2>3
  <2> HIDE DEF more
  <2> QED  BY <2>1, <2>7, <2>8, MovingSteps
<1>5. CASE WgDown(p)
  BY <1>5, MovingSteps DEF WgDown
<1>6. CASE WgUp(p)
  <2>1. Runs(p, "wg-quick up") /\ (Continue(p, <<Do("post", i)>>) \/ Done(p))
    BY <1>6 DEF WgUp
  <2>2. <<Do("post", i)>> \in TidySeqs(S)
    BY <1>2, <2>1 DEF PlainNames
  <2> QED  BY <2>1, <2>2, MovingSteps
<1>7. CASE WgUpFails(p)
  <2>1. todo[p] # <<>> /\ ~ IsDel(Head(todo[p])) /\ todo' = [todo EXCEPT ![p] = Tail(@)]
    BY <1>7 DEF WgUpFails, Runs, IsDel
  <2>2. todo[p] \in Seq(OpsOf(p))
    BY <1>0 DEF QueuesOK
  <2>4. <<>> \o Tail(todo[p]) = Tail(todo[p])
    BY <2>1, <2>2
  <2>3. todo' = [todo EXCEPT ![p] = <<>> \o Tail(todo[p])]
    BY <2>1, <2>4
  <2> QED  BY <2>1, <2>3, ContinueMoves, TidyConcat
<1>8. CASE SystemctlStart(p)
  <2>1. Runs(p, "systemctl start") /\ (Continue(p, <<Do("wg-quick up", i)>>) \/ Done(p))
    BY <1>8 DEF SystemctlStart
  <2>2. <<Do("wg-quick up", i)>> \in TidySeqs(S)
    BY <1>2, <2>1 DEF PlainNames
  <2> QED  BY <2>1, <2>2, MovingSteps
<1>9. CASE SystemctlStop(p)
  <2>1. todo[p] # <<>> /\ ~ IsDel(Head(todo[p]))
        /\ todo' = [q \in Processes |->
                      IF q = p THEN Tail(todo[p])
                      ELSE IF q = i /\ unit[i] = "starting" THEN <<>>
                      ELSE todo[q]]
    BY <1>9 DEF SystemctlStop, Runs, IsDel
  <2>2. todo[p] \in Seq(OpsOf(p)) /\ TidyBehind(todo[p])
    BY <1>0 DEF QueuesOK, QueuesTidy
  <2>3. Tail(todo[p]) \in TidySeqs(OpsOf(p))
    BY <2>1, <2>2, TidyTail
  <2> QED  BY <2>1, <2>3, TidyConcat DEF Moves
<1>10. CASE ExecStartPost(p)
  <2> DEFINE script == IF i \in loaded THEN ApplyScript(disk.script, {i}) ELSE <<>>
  <2>1. Runs(p, "post")
    BY <1>10 DEF ExecStartPost
  <2>2. i \in Names /\ (p # Admin => i = p) /\ <<Do("started", i)>> \in TidySeqs(S)
    BY <1>1, <1>2, <2>1 DEF PlainNames
  <2>3. CASE i \in loaded /\ disk.script = None
    BY <1>10, <2>1, <2>3, MovingSteps DEF ExecStartPost
  <2>4. CASE ~ (i \in loaded /\ disk.script = None)
    <3>1. Continue(p, script \o <<Do("started", i)>>)
      BY <1>10, <2>4 DEF ExecStartPost
    <3> HIDE DEF i
    <3>2. i \in loaded => ApplyScript(disk.script, {i}) \in TidySeqs(OpsOf(p))
      <4>1. i \in loaded => IsScript(disk.script)
        BY <1>0, <2>4 DEF DiskOK
      <4> QED  BY <2>2, <4>1, ApplyScriptTidy
    <3>3. script \in TidySeqs(OpsOf(p))
      BY <3>2, TidyConcat
    <3> HIDE DEF script
    <3>4. script \o <<Do("started", i)>> \in TidySeqs(OpsOf(p))
      BY <2>2, <3>3, TidyConcat
    <3> QED  BY <2>1, <3>1, <3>4, MovingSteps
  <2> QED  BY <2>3, <2>4
<1>11. CASE UnitStarted(p)
  BY <1>11, MovingSteps DEF UnitStarted
<1>12. CASE InstallScript(p) \/ InstallConf(p) \/ InstallTables(p)
  BY <1>12, MovingSteps DEF InstallScript, InstallConf, InstallTables
<1>13. CASE InstallDropin(p)
  <2>1. Runs(p, "install dropin") /\ (Done(p) \/ Raise(p))
    BY <1>13 DEF InstallDropin
  <2> QED  BY <2>1, MovingSteps
<1>14. CASE BeginStart(p)
  <2> DEFINE more == IF i \in disk.conf THEN StartProgram(i) ELSE <<>>
  <2>1. Runs(p, "start") /\ Continue(p, more)
    BY <1>14 DEF BeginStart
  <2>2. i \in Names /\ TidySeqs(OpsOn(i)) \subseteq TidySeqs(S)
    BY <1>1, <2>1 DEF PlainNames
  <2> HIDE DEF i
  <2>3. more \in TidySeqs(S)
    BY <2>2, CommandsTidy, TidyConcat
  <2> HIDE DEF more
  <2> QED  BY <2>1, <2>3, MovingSteps
<1>15. CASE ApplyState(p)
  <2> DEFINE more == IF disk.script # None /\ i \in kernel.link
                     THEN ApplyScript(disk.script, {i}) ELSE <<>>
  <2>1. Runs(p, "apply") /\ Continue(p, more)
    BY <1>15 DEF ApplyState
  <2>2. i \in Names /\ (p # Admin => i = p)
    BY <1>1, <2>1 DEF PlainNames
  <2> HIDE DEF i
  <2>3. more \in TidySeqs(S)
    BY <1>0, <2>2, ApplyScriptTidy, TidyConcat DEF DiskOK
  <2> HIDE DEF more
  <2> QED  BY <2>1, <2>3, MovingSteps
<1>16. CASE LookUpTable(p)
  BY <1>16, MovingSteps DEF LookUpTable
<1> QED  BY <1>3, <1>4, <1>5, <1>6, <1>7, <1>8, <1>9, <1>10, <1>11, <1>12, <1>13, <1>14,
            <1>15, <1>16 DEF Step

LEMMA OtherMoves ==
  ASSUME HostInv, QueuesTidy, Command \/ Interrupt \/ Reboot
  PROVE  \A q \in Processes : Moves(q)
<1> DEFINE S == OpsOf(Admin)
<1>0. /\ todo = [q \in Processes |-> todo[q]] /\ DiskOK /\ enabled \subseteq Names
      /\ \A ifs \in Selections : ifs \subseteq Names
      /\ Admin \in Processes
  BY HostAssumption DEF HostInv, QueuesOK, DiskOK, Processes
<1>1. ASSUME NEW what, NEW program \in TidySeqs(S), Begin(what, program)
      PROVE  \A q \in Processes : Moves(q)
  BY <1>0, <1>1 DEF Begin, Moves
<1>2. CASE Interrupt
  BY <1>0, <1>2, TidyConcat DEF Interrupt, Moves
<1>3. CASE Reboot
  <2>1. ASSUME NEW q \in enabled PROVE <<Do("systemctl start", q)>> \in TidySeqs(OpsOf(q))
    <3>1. Do("systemctl start", q) \in OpsOf(q) /\ ~ IsAdd(Do("systemctl start", q))
      BY <1>0, DoTyped, OpsOnAreOpsOf DEF Do, Op, IsAdd, PlainNames, Processes
    <3> QED  BY <3>1, OneTidy
  <2>2. todo' = [q \in Processes |-> IF q \in enabled THEN <<Do("systemctl start", q)>> ELSE <<>>]
    BY <1>3 DEF Reboot, UnitsToStart
  <2> QED  BY <2>1, <2>2, TidyConcat DEF Moves
<1> HIDE DEF S
<1>4. ASSUME NEW tree \in Trees, NEW ifs \in Selections,
             NEW stop \in BOOLEAN, NEW start \in BOOLEAN, NEW create \in BOOLEAN,
             Deploy(tree, ifs, stop, start, create)
      PROVE  \A q \in Processes : Moves(q)
  <2> DEFINE stops == IF stop THEN ForEach([i \in ifs |-> StopProgram(i)]) ELSE <<>>
             starts == IF start THEN ForEach([i \in ifs |-> <<Do("start", i)>>]) ELSE <<>>
             what == [what |-> "deploy", ifs |-> ifs, stop |-> stop, start |-> start]
  <2>1. stops \in TidySeqs(S) /\ starts \in TidySeqs(S)
    BY <1>0, CommandsTidy, TidyConcat DEF S
  <2>2. Begin(what, stops \o InstallProgram(tree, create) \o starts)
    BY <1>4 DEF Deploy
  <2> HIDE DEF stops, starts, what
  <2>3. stops \o InstallProgram(tree, create) \o starts \in TidySeqs(S)
    BY <2>1, CommandsTidy, TidyConcat DEF S
  <2> QED  BY <1>1, <2>2, <2>3
<1>5. ASSUME NEW ifs \in Selections, StopClean(ifs) PROVE \A q \in Processes : Moves(q)
  <2>1. Begin([what |-> "stop", ifs |-> ifs], ForEach([i \in ifs |-> StopProgram(i)]))
    BY <1>5 DEF StopClean
  <2>2. ForEach([i \in ifs |-> StopProgram(i)]) \in TidySeqs(S)
    BY <1>0, CommandsTidy DEF S
  <2> QED  BY <1>1, <2>1, <2>2
<1>6. ASSUME NEW i \in Names, NEW name \in PlainNames
      PROVE  Do(name, i) \in S /\ <<Do(name, i)>> \in TidySeqs(S) /\ ~ IsAdd(Do(name, i))
  BY CommandsTidy DEF S, Do, Op, IsAdd, PlainNames
<1>7. ASSUME NEW i \in Names, IfaceUp(i) PROVE \A q \in Processes : Moves(q)
  <2>1. Begin([what |-> "up"], <<Do("systemctl start", i)>>)
    BY <1>7 DEF IfaceUp
  <2>2. <<Do("systemctl start", i)>> \in TidySeqs(S)
    BY <1>6 DEF PlainNames
  <2> QED  BY <1>1, <2>1, <2>2
<1>8. ASSUME NEW i \in Names, IfaceDown(i) PROVE \A q \in Processes : Moves(q)
  <2>1. Begin([what |-> "down"], <<Do("systemctl stop", i), Do("look up table", i)>>)
    BY <1>8 DEF IfaceDown
  <2>2. /\ Do("systemctl stop", i) \in {op \in S : ~ IsAdd(op)}
        /\ Do("look up table", i) \in {op \in S : ~ IsAdd(op)}
    BY <1>6 DEF PlainNames
  <2>3. <<Do("systemctl stop", i), Do("look up table", i)>> \in TidySeqs(S)
    BY <2>2, TwoTyped, NoAddsTidy
  <2> QED  BY <1>1, <2>1, <2>3
<1>9. ASSUME NEW i \in Names, NEW force \in BOOLEAN, Start(i, force)
      PROVE  \A q \in Processes : Moves(q)
  <2> DEFINE down == IF force /\ i \in kernel.link \cap disk.conf
                     THEN <<Do("systemctl stop", i), Do("wg-quick down", i), Do("link del", i)>>
                     ELSE <<>>
  <2>1. Begin([what |-> "start"], down \o <<Do("start", i)>>)
    BY <1>9 DEF Start
  <2>2. <<Do("start", i)>> \in TidySeqs(S)
    BY <1>6 DEF PlainNames
  <2>3. /\ Do("systemctl stop", i) \in {op \in S : ~ IsAdd(op)}
        /\ Do("wg-quick down", i) \in {op \in S : ~ IsAdd(op)}
        /\ Do("link del", i) \in {op \in S : ~ IsAdd(op)}
    BY <1>6 DEF PlainNames
  <2>4. <<Do("systemctl stop", i), Do("wg-quick down", i), Do("link del", i)>> \in TidySeqs(S)
    BY <2>3, ThreeTyped, NoAddsTidy
  <2>5. down \in TidySeqs(S)
    BY <2>4, TidyConcat
  <2> HIDE DEF down
  <2>6. down \o <<Do("start", i)>> \in TidySeqs(S)
    BY <2>2, <2>5, TidyConcat
  <2> QED  BY <1>1, <2>1, <2>6
<1>10. ASSUME ApplyByHand PROVE \A q \in Processes : Moves(q)
  <2>1. disk.script # None
        /\ Begin([what |-> "apply"], ApplyScript(disk.script, DOMAIN disk.script))
    BY <1>10 DEF ApplyByHand
  <2>2. ApplyScript(disk.script, DOMAIN disk.script) \in TidySeqs(S)
    BY <1>0, <2>1, ApplyScriptTidy DEF DiskOK, S
  <2> QED  BY <1>1, <2>1, <2>2
<1> QED  BY <1>2, <1>3, <1>4, <1>5, <1>7, <1>8, <1>9, <1>10 DEF Command

LEMMA MovesKeepTidy ==
  ASSUME HostInv, QueuesTidy, \A q \in Processes : Moves(q)
  PROVE  /\ QueuesTidy'
         /\ \A q \in Processes : \A pref :
              /\ Adding(q, pref)' <= Adding(q, pref)
              /\ todo'[q] # todo[q] => Adding(q, pref)' = 0
<1>1. ASSUME NEW q \in Processes PROVE TidyBehind(todo'[q])
  <2>1. TidyBehind(todo[q])
    BY DEF QueuesTidy
  <2> QED  BY <2>1, TidyHead DEF Moves
<1>2. ASSUME NEW q \in Processes, NEW pref, todo'[q] # todo[q] PROVE Adding(q, pref)' = 0
  <2>1. todo'[q] # <<>> => ~ IsAdd(Head(todo'[q]))
    BY <1>2, TidyHead DEF Moves
  <2> QED  BY <2>1 DEF Adding
<1>3. ASSUME NEW q \in Processes, NEW pref PROVE Adding(q, pref)' <= Adding(q, pref)
  <2>1. Adding(q, pref) \in {0, 1}
    BY DEF Adding
  <2>2. todo'[q] = todo[q] => Adding(q, pref)' = Adding(q, pref)
    BY DEF Adding
  <2> QED  BY <1>2, <2>1, <2>2
<1> QED  BY <1>1, <1>2, <1>3 DEF QueuesTidy

\* A rule of a tunnel is deleted and added by its own unit's process and by
\* the administrator's only.
LEMMA WhoDoesRules ==
  ASSUME BlocksApart, HostInv, NEW p \in Processes, todo[p] # <<>>,
         NEW i \in Names, NEW pref \in {FromPref(i), UidPref(i)}
  PROVE  /\ IsAdd(Head(todo[p])) /\ Head(todo[p]).arg.pref = pref => p \in {Admin, i}
         /\ IsDel(Head(todo[p])) /\ Head(todo[p]).arg = pref => p \in {Admin, i}
<1> DEFINE o == Head(todo[p])
<1>0. pref # GuardPref
  BY PrefsApart
<1>1. o \in OpsOf(p)
  BY HeadShape DEF HostInv
<1> HIDE DEF o
<1>2. CASE o \in CommonOps
  <2>1. IsAdd(o) => o.arg.pref = GuardPref
    <3>1. IsAdd(o) => o = GuardAdd
      BY <1>2, CommonOpShape DEF IsAdd
    <3>2. GuardAdd.arg.pref = GuardPref
      BY DEF GuardAdd, Op
    <3> QED  BY <3>1, <3>2
  <2>2. IsDel(o) => o.arg = GuardPref
    BY <1>2, CommonOpShape DEF IsDel, GuardDel, Op
  <2> QED  BY <1>0, <2>1, <2>2 DEF o
<1>3. CASE o.on \in Names /\ o \in OpsOn(o.on) /\ (p # Admin => o.on = p)
  <2> DEFINE j == o.on
  <2>0. j \in Names
    BY <1>3
  <2>1. IsAdd(o) => o.arg.pref \in {FromPref(j), UidPref(j)}
    <3>1. ASSUME IsAdd(o) PROVE (\E a \in Addrs : o = FromAdd(j, a)) \/ (\E u \in Uids : o = UidAdd(j, u))
      BY <1>3, <3>1, OpOnShape DEF IsAdd
    <3>2. \A a : FromAdd(j, a).arg.pref = FromPref(j)
      BY DEF FromAdd, Op
    <3>3. \A u : UidAdd(j, u).arg.pref = UidPref(j)
      BY DEF UidAdd, Op
    <3> QED  BY <3>1, <3>2, <3>3
  <2>2. IsDel(o) => o.arg \in {FromPref(j), UidPref(j)}
    BY <1>3, OpOnShape DEF IsDel
  <2> HIDE DEF j
  <2>3. pref \in {FromPref(j), UidPref(j)} => j = i
    BY <2>0, PrefsApart
  <2> QED  BY <1>3, <2>1, <2>2, <2>3 DEF j, o
<1> QED  BY <1>1, <1>2, <1>3, OpsOfShape

\* All other steps leave the rules.
LEMMA StepRulesStay ==
  ASSUME HostInv, NEW p \in Processes, Step(p) \/ WgUpFails(p),
         ~ (KernelStep(p) /\ (IsDel(Head(todo[p])) \/ IsAdd(Head(todo[p]))))
  PROVE  kernel'.rules = kernel.rules
<1>0. KernelOK(kernel) /\ QueuesOK
  BY DEF HostInv
<1>1. kernel = [addr |-> kernel.addr, link |-> kernel.link, route |-> kernel.route,
                rules |-> kernel.rules]
  BY <1>0 DEF KernelOK
<1>2. ASSUME NEW i \in Names
      PROVE  /\ DropLink(kernel, i).rules = kernel.rules
             /\ [kernel EXCEPT !.link = @ \cup {i}].rules = kernel.rules
  <2> DEFINE b == [kernel.addr EXCEPT ![i] = {}]
             k2 == [addr |-> b, link |-> kernel.link \ {i}, route |-> kernel.route \ {i},
                    rules |-> kernel.rules]
  <2>3. DropLink([addr |-> kernel.addr, link |-> kernel.link, route |-> kernel.route,
                  rules |-> kernel.rules], i) = k2
    BY DropLinkIs
  <2>1. DropLink([addr |-> kernel.addr, link |-> kernel.link, route |-> kernel.route,
                  rules |-> kernel.rules], i).rules = kernel.rules
    BY <2>3
  <2>2. [kernel EXCEPT !.link = @ \cup {i}].rules = kernel.rules
    BY <1>1
  <2> QED  BY <1>1, <2>1, <2>2
<1>3. ASSUME KernelStep(p), ~ IsAdd(Head(todo[p])), ~ IsDel(Head(todo[p]))
      PROVE  kernel'.rules = kernel.rules
  <2> DEFINE o == Head(todo[p])
  <2>1. todo[p] # <<>> /\ o.op \in KernelOps /\ kernel' = Effect(kernel, o)
    BY <1>3 DEF KernelStep
  <2>2. o \in OpsOf(p) /\ ~ IsAdd(o) /\ ~ IsDel(o)
    BY <1>0, <1>3, <2>1, HeadShape
  <2> HIDE DEF o
  <2>3. o.on \in Names /\ o \in OpsOn(o.on)
    <3>1. o \notin CommonOps
      BY <2>1, <2>2, CommonOpShape DEF KernelOps, IsAdd, IsDel
    <3> QED  BY <2>2, <3>1, OpsOfShape
  <2>4. o.op \in {"addr del", "addr add", "addr flush", "route replace", "route flush", "link del"}
    BY <2>1, <2>2 DEF KernelOps, IsAdd, IsDel
  <2>5. CASE o.op = "link del"
    <3>1. kernel' = DropLink(kernel, o.on)
      BY <2>1, <2>5 DEF Effect
    <3> QED  BY <1>2, <2>3, <3>1
  <2>6. CASE o.op = "addr del"
    <3>1. kernel' = AddrDel(kernel, o.on, o.arg)
      BY <2>1, <2>6 DEF Effect
    <3>2. AddrDel(kernel, o.on, o.arg).rules = kernel.rules
      BY <1>1 DEF AddrDel
    <3> QED  BY <3>1, <3>2
  <2>7. CASE o.op = "addr add"
    <3>1. kernel' = AddrAdd(kernel, o.on, o.arg)
      BY <2>1, <2>7 DEF Effect
    <3>2. AddrAdd(kernel, o.on, o.arg).rules = kernel.rules
      BY <1>1 DEF AddrAdd
    <3> QED  BY <3>1, <3>2
  <2>8. CASE o.op = "addr flush"
    <3>1. kernel' = AddrFlush(kernel, o.on)
      BY <2>1, <2>8 DEF Effect
    <3>2. AddrFlush(kernel, o.on).rules = kernel.rules
      BY <1>1 DEF AddrFlush
    <3> QED  BY <3>1, <3>2
  <2>9. CASE o.op = "route replace"
    <3>1. kernel' = RouteReplace(kernel, o.on)
      BY <2>1, <2>9 DEF Effect
    <3>2. RouteReplace(kernel, o.on).rules = kernel.rules
      BY <1>1 DEF RouteReplace
    <3> QED  BY <3>1, <3>2
  <2>10. CASE o.op = "route flush"
    <3>1. kernel' = FlushNamesake(kernel, o.on)
      BY <2>1, <2>10 DEF Effect
    <3>2. FlushNamesake(kernel, o.on).rules = kernel.rules
      BY <1>1 DEF FlushNamesake, RouteFlush
    <3> QED  BY <3>1, <3>2
  <2> QED  BY <2>4, <2>5, <2>6, <2>7, <2>8, <2>9, <2>10
<1>5. CASE UNCHANGED kernel
  BY <1>5
<1>6. ASSUME ~ UNCHANGED kernel, ~ KernelStep(p)
      PROVE  kernel'.rules = kernel.rules
  <2>1. \/ WgDown(p) \/ SystemctlStop(p) \/ WgUp(p)
    BY <1>6 DEF Step, CleanRules, SystemctlStart, ExecStartPost, UnitStarted, InstallScript,
       InstallConf, InstallDropin, InstallTables, BeginStart, ApplyState, LookUpTable, WgUpFails
  <2>2. \/ Runs(p, "wg-quick down") /\ kernel' = DropLink(kernel, Subject(p))
        \/ Runs(p, "systemctl stop") /\ kernel' = DropLink(kernel, Subject(p))
        \/ Runs(p, "wg-quick up") /\ kernel' = [kernel EXCEPT !.link = @ \cup {Subject(p)}]
    BY <1>6, <2>1 DEF WgDown, SystemctlStop, WgUp
  <2>3. Subject(p) \in Names
    BY <1>0, <2>2, PlainHead DEF PlainNames
  <2>4. kernel' \in {DropLink(kernel, Subject(p)), [kernel EXCEPT !.link = @ \cup {Subject(p)}]}
    BY <2>2
  <2> DEFINE s == Subject(p)
  <2>5. s \in Names /\ kernel' \in {DropLink(kernel, s), [kernel EXCEPT !.link = @ \cup {s}]}
    BY <2>3, <2>4
  <2> HIDE DEF s
  <2>6. DropLink(kernel, s).rules = kernel.rules
        /\ [kernel EXCEPT !.link = @ \cup {s}].rules = kernel.rules
    BY <1>2, <2>5
  <2>7. CASE kernel' = DropLink(kernel, s)
    BY <2>6, <2>7
  <2>8. CASE kernel' = [kernel EXCEPT !.link = @ \cup {s}]
    BY <2>6, <2>8
  <2> QED  BY <2>5, <2>7, <2>8
<1> QED  BY <1>3, <1>5, <1>6

\* What a step that adds or deletes a rule does to the preferences' lengths.
LEMMA RuleStepLengths ==
  ASSUME HostInv, NEW p \in Processes, KernelStep(p), NEW pref \in Prefs
  PROVE  /\ kernel.rules[pref] \in Seq(RulesAt(pref)) /\ Len(kernel.rules[pref]) \in Nat
         /\ Len(kernel'.rules[pref]) \in Nat
         /\ IsAdd(Head(todo[p])) =>
              Len(kernel'.rules[pref])
                <= Len(kernel.rules[pref]) + (IF Head(todo[p]).arg.pref = pref THEN 1 ELSE 0)
         /\ IsDel(Head(todo[p])) =>
              /\ Len(kernel'.rules[pref]) <= Len(kernel.rules[pref])
              /\ Head(todo[p]).arg = pref /\ Len(kernel.rules[pref]) # 0 =>
                   Len(kernel'.rules[pref]) = Len(kernel.rules[pref]) - 1
<1>0. KernelOK(kernel) /\ KernelOK(kernel')
  <2>1. HostInv'
    BY KernelStepKeeps
  <2> QED  BY <2>1 DEF HostInv, KernelOK
<1>1. /\ kernel = [addr |-> kernel.addr, link |-> kernel.link, route |-> kernel.route,
                   rules |-> kernel.rules]
      /\ kernel.rules = [q \in Prefs |-> kernel.rules[q]]
      /\ kernel.rules[pref] \in Seq(RulesAt(pref)) /\ kernel'.rules[pref] \in Seq(RulesAt(pref))
  BY <1>0 DEF KernelOK
<1> DEFINE o == Head(todo[p])
           r == kernel.rules[pref]
<1>2. kernel' = Effect(kernel, o)
  BY DEF KernelStep
<1> HIDE DEF o
<1>3. r \in Seq(RulesAt(pref)) /\ Len(r) \in Nat /\ Len(kernel'.rules[pref]) \in Nat
  BY <1>1
<1>4. ASSUME IsAdd(o)
      PROVE  Len(kernel'.rules[pref]) <= Len(r) + (IF o.arg.pref = pref THEN 1 ELSE 0)
  <2>1. kernel' = RuleAdd(kernel, o.arg.pref, o.arg.rule)
    BY <1>2, <1>4 DEF Effect, IsAdd
  <2>2. kernel'.rules[pref] \in {r, IF o.arg.pref = pref THEN Append(r, o.arg.rule) ELSE r}
    BY <1>1, <2>1 DEF RuleAdd
  <2>3. Len(Append(r, o.arg.rule)) = Len(r) + 1
    BY <1>3
  <2> HIDE DEF r
  <2> QED  BY <1>3, <2>2, <2>3
<1>5. ASSUME IsDel(o)
      PROVE  /\ Len(kernel'.rules[pref]) <= Len(r)
             /\ o.arg = pref /\ Len(r) # 0 => Len(kernel'.rules[pref]) = Len(r) - 1
  <2>1. kernel' = RuleDel(kernel, o.arg)
    BY <1>2, <1>5 DEF Effect, IsDel
  <2>2. kernel'.rules[pref] = IF o.arg = pref /\ r # <<>> THEN Tail(r) ELSE r
    BY <1>1, <2>1 DEF RuleDel
  <2>3. r # <<>> => Len(Tail(r)) = Len(r) - 1 /\ Len(r) # 0
    BY <1>3
  <2>4. r = <<>> => Len(r) = 0
    OBVIOUS
  <2> HIDE DEF r
  <2> QED  BY <1>3, <2>2, <2>3, <2>4
<1> QED  BY <1>3, <1>4, <1>5 DEF o

LEMMA TwoRulesStep ==
  ASSUME BlocksApart, HostInv, QueuesTidy, TwoRules, [Next]_vars
  PROVE  QueuesTidy' /\ TwoRules'
<1>0. QueuesOK /\ KernelOK(kernel) /\ todo = [q \in Processes |-> todo[q]]
      /\ Admin \in Processes /\ Names \subseteq Processes /\ \A i \in Names : i # Admin
  BY NoneIsNoName DEF HostInv, QueuesOK, Processes
<1>00. \A q, pref : Adding(q, pref) \in {0, 1} /\ Adding(q, pref)' \in {0, 1}
  BY DEF Adding
<1>01. \A i \in Names : \A pref \in {FromPref(i), UidPref(i)} :
         pref \in Prefs /\ Len(kernel.rules[pref]) \in Nat
  <2>1. \A pref \in Prefs : Len(kernel.rules[pref]) \in Nat
    BY <1>0 DEF KernelOK
  <2> QED  BY <2>1, PrefsOfRules
<1>1. ASSUME \A q \in Processes : Moves(q),
             \/ kernel'.rules = kernel.rules
             \/ \A pref \in Prefs : kernel'.rules[pref] = <<>>
      PROVE  QueuesTidy' /\ TwoRules'
  <2>1. QueuesTidy' /\ \A q \in Processes : \A pref : Adding(q, pref)' <= Adding(q, pref)
    BY <1>1, MovesKeepTidy
  <2>2. \A i \in Names : \A pref \in {FromPref(i), UidPref(i)} :
          Len(kernel'.rules[pref]) <= Len(kernel.rules[pref]) /\ Len(kernel'.rules[pref]) \in Nat
    <3>1. ASSUME NEW i \in Names, NEW pref \in {FromPref(i), UidPref(i)}
          PROVE  Len(kernel'.rules[pref]) <= Len(kernel.rules[pref])
                 /\ Len(kernel'.rules[pref]) \in Nat
      <4>1. CASE kernel'.rules = kernel.rules
        BY <1>01, <4>1
      <4>2. CASE \A q \in Prefs : kernel'.rules[q] = <<>>
        BY <1>01, <4>2
      <4> QED  BY <1>1, <4>1, <4>2
    <3> QED  BY <3>1
  <2>3. ASSUME NEW i \in Names, NEW pref \in {FromPref(i), UidPref(i)}
        PROVE  Len(kernel'.rules[pref]) + Adding(Admin, pref)' + Adding(i, pref)' <= 2
    <3>1. Len(kernel.rules[pref]) + Adding(Admin, pref) + Adding(i, pref) <= 2
      BY DEF TwoRules
    <3>2. /\ Adding(Admin, pref)' <= Adding(Admin, pref) /\ Adding(i, pref)' <= Adding(i, pref)
      BY <1>0, <2>1
    <3>3. Len(kernel'.rules[pref]) <= Len(kernel.rules[pref]) /\ Len(kernel'.rules[pref]) \in Nat
          /\ Len(kernel.rules[pref]) \in Nat
      BY <1>01, <2>2
    <3> QED  BY <1>00, <3>1, <3>2, <3>3, SMTT(30)
  <2> QED  BY <2>1, <2>3 DEF TwoRules
<1>2. ASSUME NEW p \in Processes, KernelStep(p), IsAdd(Head(todo[p])), ~ IsDel(Head(todo[p]))
      PROVE  QueuesTidy' /\ TwoRules'
  <2>0. todo[p] # <<>> /\ Done(p)
    BY <1>2 DEF KernelStep
  <2>1. \A q \in Processes : Moves(q)
    BY <1>2, StepMoves DEF Step
  <2>2. QueuesTidy' /\ \A q \in Processes : \A pref :
          Adding(q, pref)' <= Adding(q, pref) /\ (todo'[q] # todo[q] => Adding(q, pref)' = 0)
    BY <2>1, MovesKeepTidy
  <2>3. todo'[p] # todo[p]
    BY <1>0, <2>0, QueueMoves
  <2>4. ASSUME NEW i \in Names, NEW pref \in {FromPref(i), UidPref(i)}
        PROVE  Len(kernel'.rules[pref]) + Adding(Admin, pref)' + Adding(i, pref)' <= 2
    <3>1. Len(kernel.rules[pref]) + Adding(Admin, pref) + Adding(i, pref) <= 2
      BY DEF TwoRules
    <3>2. /\ Adding(Admin, pref)' <= Adding(Admin, pref) /\ Adding(i, pref)' <= Adding(i, pref)
          /\ Adding(p, pref)' = 0
      BY <1>0, <2>2, <2>3
    <3>3. /\ Len(kernel.rules[pref]) \in Nat /\ Len(kernel'.rules[pref]) \in Nat
          /\ Len(kernel'.rules[pref])
               <= Len(kernel.rules[pref]) + (IF Head(todo[p]).arg.pref = pref THEN 1 ELSE 0)
      BY <1>01, <1>2, RuleStepLengths
    <3>4. CASE Head(todo[p]).arg.pref # pref
      <4>1. Len(kernel'.rules[pref]) <= Len(kernel.rules[pref])
        BY <3>3, <3>4
      <4>2. Len(kernel.rules[pref]) \in Nat /\ Len(kernel'.rules[pref]) \in Nat
        BY <3>3
      <4> QED  BY <1>00, <3>1, <3>2, <4>1, <4>2, SMTT(30)
    <3>5. CASE Head(todo[p]).arg.pref = pref
      <4>1. p \in {Admin, i}
        BY <1>2, <2>0, <3>5, WhoDoesRules
      <4>2. Adding(p, pref) = 1
        BY <1>2, <2>0, <3>5 DEF Adding
      <4>3. Len(kernel'.rules[pref]) <= Len(kernel.rules[pref]) + 1
        BY <3>3, <3>5
      <4>4. CASE p = Admin
        BY <1>00, <3>1, <3>2, <3>3, <4>2, <4>3, <4>4
      <4>5. CASE p = i
        BY <1>00, <3>1, <3>2, <3>3, <4>2, <4>3, <4>5
      <4> QED  BY <4>1, <4>4, <4>5
    <3> QED  BY <3>4, <3>5
  <2> QED  BY <2>2, <2>4 DEF TwoRules
<1>3. ASSUME NEW p \in Processes, KernelStep(p), IsDel(Head(todo[p]))
      PROVE  QueuesTidy' /\ TwoRules'
  <2>0. todo[p] # <<>> /\ Done(p) /\ todo[p] \in Seq(OpsOf(p)) /\ TidyBehind(todo[p])
    BY <1>0, <1>3 DEF KernelStep, QueuesOK, QueuesTidy
  <2>1. todo' = [todo EXCEPT ![p] = Tail(todo[p])]
    <3>1. todo' = [todo EXCEPT ![p] = <<>> \o Tail(todo[p])]
      BY <2>0 DEF Done, Continue
    <3>2. <<>> \o Tail(todo[p]) = Tail(todo[p])
      BY <2>0
    <3> QED  BY <3>1, <3>2
  <2>2. /\ todo'[p] = Tail(todo[p]) /\ \A q \in Processes : q # p => todo'[q] = todo[q]
    BY <1>0, <2>1
  <2>3. /\ TidyBehind(Tail(todo[p]))
        /\ Tail(todo[p]) # <<>> /\ IsAdd(Head(Tail(todo[p]))) =>
             Head(todo[p]).arg = Head(Tail(todo[p])).arg.pref
    BY <2>0, TidyTail DEF DeletesBefore
  <2>4. QueuesTidy'
    BY <2>2, <2>3 DEF QueuesTidy
  <2>5. ASSUME NEW pref PROVE /\ Adding(p, pref)' = 1 => Head(todo[p]).arg = pref
                              /\ \A q \in Processes : q # p => Adding(q, pref)' = Adding(q, pref)
    BY <1>00, <2>2, <2>3 DEF Adding
  <2>6. \A pref : Adding(p, pref) = 0
    <3>1. ~ IsAdd(Head(todo[p]))
      BY <1>3 DEF IsAdd, IsDel
    <3> QED  BY <3>1 DEF Adding
  <2>7. ASSUME NEW i \in Names, NEW pref \in {FromPref(i), UidPref(i)}
        PROVE  Len(kernel'.rules[pref]) + Adding(Admin, pref)' + Adding(i, pref)' <= 2
    <3>1. Len(kernel.rules[pref]) + Adding(Admin, pref) + Adding(i, pref) <= 2
      BY DEF TwoRules
    <3>2. /\ Len(kernel.rules[pref]) \in Nat /\ Len(kernel'.rules[pref]) \in Nat
          /\ Len(kernel'.rules[pref]) <= Len(kernel.rules[pref])
          /\ Head(todo[p]).arg = pref /\ Len(kernel.rules[pref]) # 0 =>
               Len(kernel'.rules[pref]) = Len(kernel.rules[pref]) - 1
      BY <1>01, <1>3, RuleStepLengths
    <3>3. CASE Head(todo[p]).arg # pref
      <4>1. Adding(p, pref)' = 0
        BY <1>00, <2>5, <3>3
      <4>2. Adding(Admin, pref)' <= Adding(Admin, pref) /\ Adding(i, pref)' <= Adding(i, pref)
        <5>1. \A q \in {Admin, i} : Adding(q, pref)' <= Adding(q, pref)
          <6>1. TAKE q \in {Admin, i}
          <6>2. CASE q = p
            BY <1>00, <4>1, <6>2
          <6>3. CASE q # p
            <7>1. Adding(q, pref)' = Adding(q, pref)
              BY <1>0, <2>5, <6>3
            <7> QED  BY <1>00, <7>1
          <6> QED  BY <6>2, <6>3
        <5> QED  BY <5>1
      <4> QED  BY <1>00, <3>1, <3>2, <4>2
    <3>4. CASE Head(todo[p]).arg = pref
      <4>1. p \in {Admin, i}
        BY <1>3, <2>0, <3>4, WhoDoesRules
      <4>2. PICK q \in {Admin, i} : q # p
        BY <1>0
      <4>3. /\ Adding(Admin, pref) + Adding(i, pref) = Adding(q, pref)
            /\ Adding(Admin, pref)' + Adding(i, pref)' <= 1 + Adding(q, pref)
        <5>1. Adding(q, pref)' = Adding(q, pref) /\ Adding(p, pref) = 0
              /\ Adding(p, pref)' <= 1
          BY <1>0, <1>00, <2>5, <2>6, <4>2
        <5>2. (p = Admin /\ q = i) \/ (p = i /\ q = Admin)
          BY <4>1, <4>2
        <5> QED  BY <1>00, <5>1, <5>2
      <4>4. CASE Len(kernel.rules[pref]) = 0
        BY <1>00, <3>2, <4>3, <4>4
      <4>5. CASE Len(kernel.rules[pref]) # 0
        BY <1>00, <3>1, <3>2, <3>4, <4>3, <4>5
      <4> QED  BY <4>4, <4>5
    <3> QED  BY <3>3, <3>4
  <2> QED  BY <2>4, <2>7 DEF TwoRules
<1>4. CASE UNCHANGED vars
  BY <1>1, <1>4 DEF vars, Moves
<1>5. CASE Command \/ Interrupt \/ Reboot
  <2>1. \/ kernel'.rules = kernel.rules \/ \A pref \in Prefs : kernel'.rules[pref] = <<>>
    <3>1. Command \/ Interrupt => UNCHANGED kernel
      BY DEF Command, Interrupt, Deploy, StopClean, IfaceUp, IfaceDown, Start, ApplyByHand, Begin
    <3>2. Reboot => \A pref \in Prefs : kernel'.rules[pref] = <<>>
      BY DEF Reboot, EmptyKernel
    <3> QED  BY <1>5, <3>1, <3>2
  <2> QED  BY <1>1, <1>5, <2>1, OtherMoves
<1>6. ASSUME NEW p \in Processes, Step(p) \/ WgUpFails(p)
      PROVE  QueuesTidy' /\ TwoRules'
  <2>1. CASE KernelStep(p) /\ IsDel(Head(todo[p]))
    BY <1>3, <2>1
  <2>2. CASE KernelStep(p) /\ ~ IsDel(Head(todo[p])) /\ IsAdd(Head(todo[p]))
    BY <1>2, <2>2
  <2>3. CASE ~ (KernelStep(p) /\ (IsDel(Head(todo[p])) \/ IsAdd(Head(todo[p]))))
    <3>1. todo[p] # <<>> => ~ IsDel(Head(todo[p]))
      <4>1. SUFFICES ASSUME todo[p] # <<>>, IsDel(Head(todo[p])) PROVE KernelStep(p)
        BY <2>3
      <4>2. Head(todo[p]).op = "rule del"
        BY <4>1 DEF IsDel
      <4> QED  BY <1>6, <4>2 DEF Step, CleanRules, SystemctlStart, ExecStartPost, UnitStarted,
               InstallScript, InstallConf, InstallDropin, InstallTables, BeginStart, ApplyState,
               LookUpTable, WgUpFails, WgUp, WgDown, SystemctlStop, Runs
    <3>2. \A q \in Processes : Moves(q)
      BY <1>6, <3>1, StepMoves
    <3>3. kernel'.rules = kernel.rules
      BY <1>6, <2>3, StepRulesStay
    <3> QED  BY <1>1, <3>2, <3>3
  <2> QED  BY <2>1, <2>2, <2>3
<1> QED  BY <1>4, <1>5, <1>6 DEF Next

-----------------------------------------------------------------------------
(* stop_clean_iface, which runs alone: the steps that it takes. *)

\* A sequence that has something keeps it at the place that it moves to.
LEMMA TailHas ==
  ASSUME NEW S, NEW T, NEW s \in Seq(S), NEW more \in Seq(T), s # <<>>
  PROVE  /\ Len(more \o Tail(s)) = Len(more) + Len(s) - 1
         /\ \A n \in 1 .. Len(more) : (more \o Tail(s))[n] = more[n]
         /\ \A n \in 2 .. Len(s) :
              /\ Len(more) + n - 1 \in 1 .. Len(more \o Tail(s))
              /\ (more \o Tail(s))[Len(more) + n - 1] = s[n]
         /\ \A n \in 1 .. Len(more \o Tail(s)) :
              \/ n \in 1 .. Len(more)
              \/ \E m \in 2 .. Len(s) : n = Len(more) + m - 1
<1> DEFINE t == Tail(s)
           c == more \o t
<1>1. /\ t \in Seq(S) /\ Len(t) = Len(s) - 1 /\ Len(s) \in Nat \ {0}
      /\ \A n \in 1 .. Len(t) : t[n] = s[n + 1]
  BY HeadTailProperties
<1> HIDE DEF t
<1>2. /\ Len(c) = Len(more) + Len(t) /\ Len(more) \in Nat
      /\ \A n \in 1 .. Len(more) : c[n] = more[n]
      /\ \A n \in 1 .. Len(t) : c[Len(more) + n] = t[n]
  <2>1. t \in Seq(S \cup T) /\ more \in Seq(S \cup T)
    BY <1>1
  <2> QED  BY <2>1
<1> HIDE DEF c
<1>3. Len(c) = Len(more) + Len(s) - 1
  BY <1>1, <1>2
<1>4. ASSUME NEW n \in 2 .. Len(s)
      PROVE  Len(more) + n - 1 \in 1 .. Len(c) /\ c[Len(more) + n - 1] = s[n]
  <2>1. n - 1 \in 1 .. Len(t) /\ (n - 1) + 1 = n /\ Len(more) + n - 1 = Len(more) + (n - 1)
    BY <1>1, <1>2
  <2>2. c[Len(more) + (n - 1)] = t[n - 1] /\ t[n - 1] = s[(n - 1) + 1]
    BY <1>1, <1>2, <2>1
  <2>3. Len(more) + n - 1 \in 1 .. Len(c)
    BY <1>1, <1>2, <2>1
  <2> QED  BY <2>1, <2>2, <2>3
<1>5. ASSUME NEW n \in 1 .. Len(c), n \notin 1 .. Len(more)
      PROVE  \E m \in 2 .. Len(s) : n = Len(more) + m - 1
  <2> DEFINE m == n - Len(more) + 1
  <2>1. m \in 2 .. Len(s) /\ n = Len(more) + m - 1
    BY <1>1, <1>2, <1>5
  <2> QED  BY <2>1
<1> QED  BY <1>2, <1>3, <1>4, <1>5 DEF c, t

\* What one of the programs has, the whole has.
LEMMA ForEachHas ==
  ASSUME NEW S, NEW program, NEW i \in Names, i \in DOMAIN program,
         \A j \in Names : j \in DOMAIN program => program[j] \in Seq(S),
         NEW k \in 1 .. Len(program[i])
  PROVE  \E n \in 1 .. Len(ForEach(program)) : ForEach(program)[n] = program[i][k]
<1> DEFINE op == program[i][k]
           T == Seq(S)
           U == {s \in Seq(S) : \E n \in 1 .. Len(s) : s[n] = op}
           seqs == [n \in DOMAIN Ifaces |->
                      IF Ifaces[n] \in DOMAIN program THEN program[Ifaces[n]] ELSE <<>>]
<1>1. \A a, b \in T : a \o b \in T
  BY ConcatTyped
<1>2. \A a \in T, b \in U : a \o b \in U /\ b \o a \in U
  <2>1. TAKE a \in T, b \in U
  <2>2. PICK n \in 1 .. Len(b) : b[n] = op
    OBVIOUS
  <2>3. Len(a) + n \in 1 .. Len(a \o b) /\ (a \o b)[Len(a) + n] = op
    BY <2>2
  <2>4. n \in 1 .. Len(b \o a) /\ (b \o a)[n] = op
    BY <2>2
  <2>5. a \o b \in Seq(S) /\ b \o a \in Seq(S)
    OBVIOUS
  <2> QED  BY <2>3, <2>4, <2>5
<1>3. PICK m \in 1 .. Len(Ifaces) : Ifaces[m] = i
  BY IfacesAre
<1>4. seqs[m] \in U
  BY <1>3, IfacesAre
<1>5. \A n \in 1 .. Len(Ifaces) : seqs[n] \in T
  BY IfacesAre, ConcatTyped
<1>6. Len(seqs) = Len(Ifaces) /\ Len(seqs) \in Nat
  <2>1. seqs = [n \in 1 .. Len(Ifaces) |-> seqs[n]]
    BY IfacesAre
  <2> HIDE DEF seqs
  <2> QED  BY <2>1, IfacesAre
<1> HIDE DEF T, U, seqs
<1>7. FlattenSeq(seqs) \in U
  BY <1>1, <1>2, <1>3, <1>4, <1>5, <1>6, FlattenSpecial
<1>8. ForEach(program) = FlattenSeq(seqs)
  BY DEF ForEach, seqs
<1> QED  BY <1>7, <1>8 DEF U

\* The deletions of a round are of all the preferences that were found.
LEMMA OrderedHasAll ==
  ASSUME NEW prefs, prefs \subseteq Nat, IsFiniteSet(prefs), NEW list \in Ordered(prefs)
  PROVE  /\ Len(list) = Cardinality(prefs)
         /\ \A pref \in prefs : \E n \in 1 .. Len(list) : list[n] = pref
         /\ list = <<>> => prefs = {}
<1> DEFINE c == Cardinality(prefs)
<1>1. /\ list \in [1 .. c -> prefs] /\ c \in Nat
      /\ \A m, n \in 1 .. c : m < n => list[m] < list[n]
  BY FS_CardinalityType DEF Ordered
<1>2. list \in Injection(1 .. c, prefs)
  <2>1. ASSUME NEW m \in 1 .. c, NEW n \in 1 .. c, list[m] = list[n] PROVE m = n
    <3>1. list[m] \in Nat /\ list[n] \in Nat
      BY <1>1
    <3>2. ~ (m < n) /\ ~ (n < m)
      BY <1>1, <2>1, <3>1
    <3> QED  BY <1>1, <3>2
  <2> QED  BY <1>1, <2>1 DEF Injection, IsInjective
<1>3. IsFiniteSet(1 .. c) /\ Cardinality(1 .. c) = c
  BY <1>1, FS_Interval
<1>4. list \in Surjection(1 .. c, prefs)
  BY <1>2, <1>3, FS_Injection
<1>5. \A pref \in prefs : \E n \in 1 .. c : list[n] = pref
  BY <1>4 DEF Surjection
<1>6. Len(list) = c
  BY <1>1
<1>7. list = <<>> => c = 0
  BY <1>6
<1> QED  BY <1>5, <1>6, <1>7

\* A preference of a tunnel holds rules for the tunnel's table only.
LEMMA OwnRulesOnly ==
  ASSUME BlocksApart, KernelOK(kernel), NEW i \in Names, NEW pref \in {FromPref(i), UidPref(i)}
  PROVE  /\ pref \in Prefs /\ Len(kernel.rules[pref]) \in Nat
         /\ TableOf[i] = i /\ Len(kernel.rules[pref]) # 0 => pref \in PrefsLookingUp(i)
<1>1. pref \in Prefs /\ pref # GuardPref
  BY PrefsOfRules, PrefsApart
<1>2. \A rule \in RulesAt(pref) : rule.table = i
  <2>1. TAKE rule \in RulesAt(pref)
  <2>3. \A j \in Names : FromPref(j) = pref \/ UidPref(j) = pref => j = i
    BY PrefsApart
  <2> QED  BY <1>1, <2>3 DEF RulesAt, FromRule, UidRule
<1>3. kernel.rules[pref] \in Seq(RulesAt(pref))
  BY <1>1 DEF KernelOK
<1>4. ASSUME TableOf[i] = i, Len(kernel.rules[pref]) # 0 PROVE pref \in PrefsLookingUp(i)
  <2>1. kernel.rules[pref][1] \in RulesAt(pref) /\ 1 \in DOMAIN kernel.rules[pref]
    BY <1>3, <1>4
  <2>2. kernel.rules[pref][1] \in Range(kernel.rules[pref])
    BY <2>1 DEF Range
  <2> QED  BY <1>1, <1>2, <1>4, <2>1, <2>2, NoneIsNoName DEF PrefsLookingUp
<1> QED  BY <1>1, <1>3, <1>4

\* ... and what is without rules is not found.
LEMMA NoRulesNotFound ==
  ASSUME KernelOK(kernel), NEW i \in Names,
         \A pref \in {FromPref(i), UidPref(i)} : Len(kernel.rules[pref]) = 0
  PROVE  PrefsLookingUp(i) = {}
<1>1. SUFFICES ASSUME NEW pref \in PrefsLookingUp(i) PROVE FALSE
  OBVIOUS
<1>2. pref \in {FromPref(i), UidPref(i)} /\ pref \in Prefs
  BY PrefsLookingUpAre DEF PrefsLookingUp
<1>3. kernel.rules[pref] \in Seq(RulesAt(pref)) /\ Len(kernel.rules[pref]) = 0
  BY <1>2 DEF KernelOK
<1>4. Range(kernel.rules[pref]) = {}
  BY <1>3 DEF Range
<1> QED  BY <1>1, <1>4 DEF PrefsLookingUp

\* The commands of stop_clean take links and rules away and add none.
LEMMA StopEffect ==
  ASSUME HostInv, NEW p \in Processes, todo[p] # <<>>, IsStopOp(Head(todo[p])), KernelStep(p)
  PROVE  /\ kernel'.link \subseteq kernel.link
         /\ \A i \in Names : Head(todo[p]) = LinkDel(i) => i \notin kernel'.link
         /\ \A pref \in Prefs :
              /\ Range(kernel'.rules[pref]) \subseteq Range(kernel.rules[pref])
              /\ Len(kernel'.rules[pref]) <= Len(kernel.rules[pref])
              /\ \A i \in Names :
                   Head(todo[p]) = DelRule(i, pref) /\ Len(kernel.rules[pref]) # 0 =>
                     Len(kernel'.rules[pref]) = Len(kernel.rules[pref]) - 1
<1> DEFINE o == Head(todo[p])
<1>1. /\ kernel = [addr |-> kernel.addr, link |-> kernel.link, route |-> kernel.route,
                   rules |-> kernel.rules]
      /\ kernel.rules = [pref \in Prefs |-> kernel.rules[pref]]
      /\ \A pref \in Prefs : kernel.rules[pref] \in Seq(RulesAt(pref))
  BY DEF HostInv, KernelOK
<1>2. kernel' = Effect(kernel, o) /\ o.op \in KernelOps /\ o.op \in StopNames
  BY DEF KernelStep, IsStopOp
<1>3. o.op \in {"rule del", "route flush", "addr flush", "link del"}
  BY <1>2 DEF KernelOps, StopNames
<1>4. \A i, pref : IsDel(DelRule(i, pref)) /\ ~ IsDel(LinkDel(i)) /\ DelRule(i, pref).arg = pref
  BY DEF IsDel, DelRule, LinkDel, Do, Op
<1>5. \A i : LinkDel(i).op = "link del" /\ LinkDel(i).on = i
  BY DEF LinkDel, Do, Op
<1> HIDE DEF o
<1>6. CASE o.op = "rule del"
  <2>0. IsDel(o)
    BY <1>6 DEF IsDel
  <2>1. kernel' = RuleDel(kernel, o.arg)
    BY <1>2, <1>6 DEF Effect
  <2>2. kernel'.link = kernel.link
    BY <1>1, <2>1 DEF RuleDel
  <2>3. \A i \in Names : o # LinkDel(i)
    BY <1>4, <2>0
  <2>4. ASSUME NEW pref \in Prefs
        PROVE  Range(kernel'.rules[pref]) \subseteq Range(kernel.rules[pref])
    <3> DEFINE r == kernel.rules[pref]
    <3>1. kernel'.rules[pref] \in {r, IF r # <<>> THEN Tail(r) ELSE r}
      BY <1>1, <2>1 DEF RuleDel
    <3>2. r \in Seq(RulesAt(pref))
      BY <1>1
    <3> HIDE DEF r
    <3>3. r # <<>> => Range(Tail(r)) \subseteq Range(r)
      BY <3>2, HeadTailProperties DEF Range
    <3> QED  BY <3>1, <3>3 DEF r
  <2>5. ASSUME NEW pref \in Prefs
        PROVE  /\ Len(kernel'.rules[pref]) <= Len(kernel.rules[pref])
               /\ o.arg = pref /\ Len(kernel.rules[pref]) # 0 =>
                    Len(kernel'.rules[pref]) = Len(kernel.rules[pref]) - 1
    BY <2>0, RuleStepLengths DEF o
  <2>6. \A i \in Names : Head(todo[p]) # LinkDel(i)
    BY <2>3 DEF o
  <2>7. ASSUME NEW pref \in Prefs, NEW i \in Names, Head(todo[p]) = DelRule(i, pref)
        PROVE  o.arg = pref
    BY <1>4, <2>7 DEF o
  <2>8. ASSUME NEW pref \in Prefs, NEW i \in Names, Head(todo[p]) = DelRule(i, pref),
               Len(kernel.rules[pref]) # 0
        PROVE  Len(kernel'.rules[pref]) = Len(kernel.rules[pref]) - 1
    BY <2>5, <2>7, <2>8
  <2> QED  BY <2>2, <2>4, <2>5, <2>6, <2>8
<1>7. CASE o.op \in {"route flush", "addr flush", "link del"}
  <2>1. ~ IsDel(o) /\ ~ IsAdd(o)
    BY <1>7 DEF IsDel, IsAdd
  <2>2. kernel'.rules = kernel.rules
    BY <2>1, StepRulesStay DEF Step, o
  <2>3. \A pref \in Prefs : Len(kernel.rules[pref]) \in Nat
    BY <1>1
  <2>4. kernel'.link \subseteq kernel.link /\ (o.op = "link del" => o.on \notin kernel'.link)
    <3>1. CASE o.op = "route flush"
      <4>1. kernel' = FlushNamesake(kernel, o.on)
        BY <1>2, <3>1 DEF Effect
      <4>2. kernel'.link = kernel.link
        BY <1>1, <4>1 DEF FlushNamesake, RouteFlush
      <4> QED  BY <3>1, <4>2
    <3>2. CASE o.op = "addr flush"
      <4>1. kernel' = AddrFlush(kernel, o.on)
        BY <1>2, <3>2 DEF Effect
      <4>2. kernel'.link = kernel.link
        BY <1>1, <4>1 DEF AddrFlush
      <4> QED  BY <3>2, <4>2
    <3>3. CASE o.op = "link del"
      <4> DEFINE b == [kernel.addr EXCEPT ![o.on] = {}]
                 k2 == [addr |-> b, link |-> kernel.link \ {o.on}, route |-> kernel.route \ {o.on},
                        rules |-> kernel.rules]
      <4>1. kernel' = DropLink(kernel, o.on)
        BY <1>2, <3>3 DEF Effect
      <4>2. DropLink([addr |-> kernel.addr, link |-> kernel.link, route |-> kernel.route,
                      rules |-> kernel.rules], o.on) = k2
        BY DropLinkIs
      <4> HIDE DEF b
      <4>3. kernel'.link = kernel.link \ {o.on}
        BY <1>1, <4>1, <4>2
      <4> QED  BY <4>3
    <3> QED  BY <1>7, <3>1, <3>2, <3>3
  <2>5. \A i \in Names : o = LinkDel(i) => i \notin kernel'.link
    BY <1>5, <2>4
  <2>6. \A i, pref : o # DelRule(i, pref)
    BY <1>4, <2>1
  <2>7. \A pref \in Prefs : Len(kernel'.rules[pref]) <= Len(kernel.rules[pref])
    BY <2>2, <2>3
  <2> QED  BY <2>2, <2>4, <2>5, <2>6, <2>7 DEF o
<1> QED  BY <1>3, <1>6, <1>7

\* What such a step comes to.
TakesAway(o) ==
  /\ kernel'.link \subseteq kernel.link
  /\ \A i \in Names : o = LinkDel(i) => i \notin kernel'.link
  /\ \A pref \in Prefs :
       /\ Range(kernel'.rules[pref]) \subseteq Range(kernel.rules[pref])
       /\ Len(kernel'.rules[pref]) <= Len(kernel.rules[pref])
       /\ \A i \in Names :
            o = DelRule(i, pref) /\ Len(kernel.rules[pref]) # 0 =>
              Len(kernel'.rules[pref]) = Len(kernel.rules[pref]) - 1

LEMMA LinkTakenAway ==
  ASSUME HostInv, NEW o, \A i \in Names : o # LinkDel(i), \A i, pref : o # DelRule(i, pref),
         kernel' = kernel \/ \E i \in Names : kernel' = DropLink(kernel, i)
  PROVE  TakesAway(o)
<1>1. /\ kernel = [addr |-> kernel.addr, link |-> kernel.link, route |-> kernel.route,
                   rules |-> kernel.rules]
      /\ \A pref \in Prefs : kernel.rules[pref] \in Seq(RulesAt(pref))
  BY DEF HostInv, KernelOK
<1>2. kernel'.link \subseteq kernel.link /\ kernel'.rules = kernel.rules
  <2>1. ASSUME NEW i \in Names, kernel' = DropLink(kernel, i)
        PROVE  kernel'.link \subseteq kernel.link /\ kernel'.rules = kernel.rules
    <3> DEFINE b == [kernel.addr EXCEPT ![i] = {}]
               k2 == [addr |-> b, link |-> kernel.link \ {i}, route |-> kernel.route \ {i},
                      rules |-> kernel.rules]
    <3>1. DropLink([addr |-> kernel.addr, link |-> kernel.link, route |-> kernel.route,
                    rules |-> kernel.rules], i) = k2
      BY DropLinkIs
    <3> HIDE DEF b
    <3>2. kernel' = k2
      BY <1>1, <2>1, <3>1
    <3> QED  BY <3>2
  <2> QED  BY <2>1
<1>3. \A pref \in Prefs : Len(kernel.rules[pref]) \in Nat
  BY <1>1
<1> QED  BY <1>2, <1>3 DEF TakesAway

\* Names tell these commands from others.
LEMMA StopOpNames ==
  ASSUME NEW i, NEW pref
  PROVE  LinkDel(i).op = "link del" /\ DelRule(i, pref).op = "rule del"
  BY DEF LinkDel, DelRule, Do, Op

LEMMA StopStep ==
  ASSUME HostInv, Step(Admin) \/ WgUpFails(Admin), IsStopOp(Head(todo[Admin])),
         \A p \in Names : todo[p] = <<>>
  PROVE  /\ todo[Admin] # <<>>
         /\ UNCHANGED <<last, alone>>
         /\ \A p \in Names : todo'[p] = <<>>
         /\ TakesAway(Head(todo[Admin]))
         /\ \/ todo'[Admin] = Tail(todo[Admin]) /\ \A i : ~ IsRound(Head(todo[Admin]), i)
            \/ CleanRules(Admin)
<1>0. /\ Admin \in Processes /\ QueuesOK /\ todo = [p \in Processes |-> todo[p]]
      /\ \A p \in Names : p \in Processes /\ p # Admin
  BY NoneIsNoName DEF HostInv, QueuesOK, Processes
<1>1. /\ todo[Admin] # <<>>
      /\ \/ KernelStep(Admin) \/ CleanRules(Admin) \/ WgDown(Admin) \/ SystemctlStop(Admin)
  BY DEF Step, IsStopOp, StopNames, KernelStep, CleanRules, WgDown, SystemctlStop, SystemctlStart,
     ExecStartPost, UnitStarted, InstallScript, InstallConf, InstallDropin, InstallTables,
     BeginStart, ApplyState, LookUpTable, WgUpFails, WgUp, Runs
<1>2. Tail(todo[Admin]) \in Seq(OpsOf(Admin)) /\ <<>> \o Tail(todo[Admin]) = Tail(todo[Admin])
  <2>1. Tail(todo[Admin]) \in Seq(OpsOf(Admin))
    BY <1>0, <1>1, HeadShape
  <2> QED  BY <2>1
<1>3. ASSUME NEW more, Continue(Admin, more)
      PROVE  UNCHANGED <<last, alone>> /\ \A p \in Names : todo'[p] = <<>>
  BY <1>0, <1>3 DEF Continue
<1>4. Done(Admin) => /\ UNCHANGED <<last, alone>> /\ \A p \in Names : todo'[p] = <<>>
                     /\ todo'[Admin] = Tail(todo[Admin])
  BY <1>0, <1>2, <1>3 DEF Done, Continue
<1>5. CASE KernelStep(Admin)
  <2>1. TakesAway(Head(todo[Admin]))
    BY <1>0, <1>1, <1>5, StopEffect DEF TakesAway
  <2>2. \A i : ~ IsRound(Head(todo[Admin]), i)
    BY <1>5 DEF KernelStep, KernelOps, IsRound
  <2> QED  BY <1>1, <1>4, <1>5, <2>1, <2>2 DEF KernelStep
<1>6. CASE CleanRules(Admin)
  <2>1. Head(todo[Admin]).op = "clean rules" /\ UNCHANGED kernel
    BY <1>6 DEF CleanRules, Runs
  <2>2. /\ \A i : Head(todo[Admin]) # LinkDel(i)
        /\ \A i, pref : Head(todo[Admin]) # DelRule(i, pref)
    BY <2>1, StopOpNames
  <2>3. TakesAway(Head(todo[Admin]))
    BY <2>1, <2>2, LinkTakenAway
  <2>4. UNCHANGED <<last, alone>> /\ \A p \in Names : todo'[p] = <<>>
    BY <1>3, <1>6 DEF CleanRules
  <2> QED  BY <1>1, <1>6, <2>3, <2>4
<1>7. CASE WgDown(Admin)
  <2>1. Head(todo[Admin]).op = "wg-quick down" /\ Done(Admin)
        /\ kernel' \in {kernel, DropLink(kernel, Subject(Admin))} /\ Runs(Admin, "wg-quick down")
    BY <1>7 DEF WgDown, Runs
  <2>2. /\ \A i : Head(todo[Admin]) # LinkDel(i) /\ ~ IsRound(Head(todo[Admin]), i)
        /\ \A i, pref : Head(todo[Admin]) # DelRule(i, pref)
    BY <2>1, StopOpNames DEF IsRound
  <2>3. Subject(Admin) \in Names
    BY <1>0, <2>1, PlainHead DEF PlainNames
  <2>4. TakesAway(Head(todo[Admin]))
    BY <2>1, <2>2, <2>3, LinkTakenAway
  <2> QED  BY <1>1, <1>4, <2>1, <2>2, <2>4
<1>8. CASE SystemctlStop(Admin)
  <2>1. /\ Head(todo[Admin]).op = "systemctl stop" /\ Runs(Admin, "systemctl stop")
        /\ kernel' \in {kernel, DropLink(kernel, Subject(Admin))}
        /\ UNCHANGED <<last, alone>> /\ todo'[Admin] = Tail(todo[Admin])
        /\ \A p \in Names : todo'[p] = <<>>
    BY <1>0, <1>8 DEF SystemctlStop, Runs
  <2>2. /\ \A i : Head(todo[Admin]) # LinkDel(i) /\ ~ IsRound(Head(todo[Admin]), i)
        /\ \A i, pref : Head(todo[Admin]) # DelRule(i, pref)
    BY <2>1, StopOpNames DEF IsRound
  <2>3. Subject(Admin) \in Names
    BY <1>0, <2>1, PlainHead DEF PlainNames
  <2>4. TakesAway(Head(todo[Admin]))
    BY <2>1, <2>2, <2>3, LinkTakenAway
  <2> QED  BY <1>1, <2>1, <2>2, <2>4
<1> QED  BY <1>1, <1>5, <1>6, <1>7, <1>8

LEMMA RoundShape ==
  ASSUME NEW p \in Processes, NEW o \in OpsOf(p), NEW i, IsRound(o, i)
  PROVE  i \in Names /\ o.arg \in Nat
<1>1. o.op = "clean rules" /\ o.on = i
  BY DEF IsRound
<1>2. o \notin CommonOps
  BY <1>1, CommonOpShape
<1> QED  BY <1>1, <1>2, OpsOfShape, OpOnShape

\* One step further, what is still to be done has moved up, unless it was
\* just done.
LEMMA ClearingMovesOn ==
  ASSUME HostInv, HostInv', NEW ifs, Clearing(ifs), todo[Admin] # <<>>,
         NEW more \in Seq(OpsOf(Admin)), todo'[Admin] = more \o Tail(todo[Admin]),
         \A p \in Names : todo'[p] = <<>>,
         TakesAway(Head(todo[Admin])),
         \A i \in ifs :
           /\ IsRound(Head(todo[Admin]), i)
           /\ \A pref \in {FromPref(i), UidPref(i)} : EnoughRounds(pref, i, 1)
           =>
           \/ PrefsLookingUp(i)' = {}
           \/ \E n \in 1 .. Len(more) :
                /\ IsRound(more[n], i)
                /\ \A pref \in {FromPref(i), UidPref(i)} : EnoughRounds(pref, i, n)'
  PROVE  Clearing(ifs)'
<1> DEFINE s == todo[Admin]
           t == todo'[Admin]
           l == Len(more)
<1>0. Admin \in Processes /\ ifs \subseteq Names /\ s \in Seq(OpsOf(Admin)) /\ s # <<>>
  BY DEF HostInv, QueuesOK, Processes, Clearing
<1>1. /\ Len(t) = l + Len(s) - 1 /\ l \in Nat /\ Len(s) \in Nat /\ Len(s) > 0
      /\ \A n \in 1 .. l : t[n] = more[n] /\ n \in 1 .. Len(t)
      /\ \A n \in 2 .. Len(s) : l + n - 1 \in 1 .. Len(t) /\ t[l + n - 1] = s[n]
      /\ \A n \in 1 .. Len(t) : n \in 1 .. l \/ \E m \in 2 .. Len(s) : n = l + m - 1
  <2>1. /\ Len(t) = l + Len(s) - 1
        /\ \A n \in 1 .. l : t[n] = more[n]
        /\ \A n \in 2 .. Len(s) : l + n - 1 \in 1 .. Len(t) /\ t[l + n - 1] = s[n]
        /\ \A n \in 1 .. Len(t) : n \in 1 .. l \/ \E m \in 2 .. Len(s) : n = l + m - 1
    <3> DEFINE T == OpsOf(Admin)
               joined == more \o Tail(s)
    <3>1. t = joined
      OBVIOUS
    <3>2. s \in Seq(T) /\ s # <<>> /\ more \in Seq(T)
      BY <1>0
    <3> HIDE DEF s, t, T
    <3>3. /\ Len(joined) = l + Len(s) - 1
          /\ \A n \in 1 .. l : joined[n] = more[n]
          /\ \A n \in 2 .. Len(s) : l + n - 1 \in 1 .. Len(joined) /\ joined[l + n - 1] = s[n]
          /\ \A n \in 1 .. Len(joined) : n \in 1 .. l \/ \E m \in 2 .. Len(s) : n = l + m - 1
      BY <3>2, TailHas
    <3> HIDE DEF joined, l
    <3> QED  BY <3>1, <3>3
  <2>2. l \in Nat /\ Len(s) \in Nat /\ Len(s) > 0
    BY <1>0
  <2> HIDE DEF s, t, l
  <2>3. \A n \in 1 .. l : n \in 1 .. Len(t)
    BY <2>1, <2>2
  <2> QED  BY <2>1, <2>2, <2>3
<1>2. s[1] = Head(s) /\ 1 \in 1 .. Len(s)
  BY <1>1
<1> HIDE DEF s, t, l
<1>4. ASSUME NEW i \in ifs PROVE LinkGoes(i)'
  <2>0. LinkGoes(i) /\ i \in Names
    BY <1>0 DEF Clearing
  <2>1. CASE i \notin kernel.link
    BY <2>1 DEF TakesAway, LinkGoes
  <2>2. CASE \E n \in 1 .. Len(s) : s[n] = LinkDel(i)
    <3>1. PICK n \in 1 .. Len(s) : s[n] = LinkDel(i)
      BY <2>2
    <3>2. CASE n = 1
      <4>1. Head(todo[Admin]) = LinkDel(i)
        BY <1>2, <3>1, <3>2 DEF s
      <4> QED  BY <2>0, <4>1 DEF TakesAway, LinkGoes
    <3>3. CASE n # 1
      <4>1. n \in 2 .. Len(s)
        BY <1>1, <3>3
      <4>2. \E m \in 1 .. Len(t) : t[m] = LinkDel(i)
        BY <1>1, <3>1, <4>1
      <4>3. LinkDel(i)' = LinkDel(i)
        BY DEF LinkDel, Do, Op
      <4> QED  BY <4>2, <4>3 DEF LinkGoes, t
    <3> QED  BY <3>2, <3>3
  <2> QED  BY <2>0, <2>1, <2>2 DEF LinkGoes, s
<1>5. ASSUME NEW i \in ifs PROVE RulesGo(i)'
  <2>0. RulesGo(i) /\ i \in Names
    BY <1>0 DEF Clearing
  <2>1. CASE PrefsLookingUp(i) = {}
    <3>1. PrefsLookingUp(i)' = {}
      BY <2>1 DEF TakesAway, PrefsLookingUp
    <3> QED  BY <3>1 DEF RulesGo
  <2>2. ASSUME NEW n \in 1 .. Len(s), IsRound(s[n], i),
               \A pref \in {FromPref(i), UidPref(i)} : EnoughRounds(pref, i, n)
        PROVE  RulesGo(i)'
    <3>1. CASE n = 1
      <4>1. IsRound(Head(todo[Admin]), i)
        BY <1>2, <2>2, <3>1 DEF s
      <4>4. \A pref \in {FromPref(i), UidPref(i)} : EnoughRounds(pref, i, 1)
        BY <2>2, <3>1
      <4>2. CASE PrefsLookingUp(i)' = {}
        BY <4>2 DEF RulesGo
      <4>3. CASE \E m \in 1 .. Len(more) :
                   /\ IsRound(more[m], i)
                   /\ \A pref \in {FromPref(i), UidPref(i)} : EnoughRounds(pref, i, m)'
        <5>1. PICK m \in 1 .. l : /\ IsRound(more[m], i)
                                  /\ \A pref \in {FromPref(i), UidPref(i)} : EnoughRounds(pref, i, m)'
          BY <4>3 DEF l
        <5>2. m \in 1 .. Len(t) /\ IsRound(t[m], i)
          BY <1>1, <5>1
        <5> QED  BY <5>1, <5>2 DEF RulesGo, t
      <4> QED  BY <4>1, <4>2, <4>3, <4>4
    <3>2. CASE n # 1
      <4> DEFINE m == l + n - 1
      <4>1. /\ n \in 2 .. Len(s) /\ m \in 1 .. Len(t) /\ t[m] = s[n] /\ m \in Nat
        BY <1>1, <3>2
      <4>2. s[n] \in OpsOf(Admin)
        BY <1>0, <4>1
      <4>3. s[n].arg \in Nat
        BY <1>0, <2>2, <4>2, RoundShape
      <4>4. ASSUME NEW pref \in {FromPref(i), UidPref(i)} PROVE EnoughRounds(pref, i, m)'
        <5>1. /\ pref \in Prefs /\ Len(kernel.rules[pref]) \in Nat
              /\ Len(kernel'.rules[pref]) \in Nat
              /\ Len(kernel'.rules[pref]) <= Len(kernel.rules[pref])
          <6>1. pref \in Prefs
            BY <2>0, PrefsOfRules
          <6>0. KernelOK(kernel) /\ KernelOK(kernel')
            BY DEF HostInv, KernelOK
          <6>2. /\ kernel.rules[pref] \in Seq(RulesAt(pref))
                /\ kernel'.rules[pref] \in Seq(RulesAt(pref))
            BY <6>0, <6>1 DEF KernelOK
          <6> QED  BY <6>1, <6>2 DEF TakesAway
        <5>2. Len(kernel.rules[pref])
                <= s[n].arg + (IF DeletedBefore(pref, i, n) THEN 1 ELSE 0)
          BY <2>2 DEF EnoughRounds, s
        <5>3. CASE ~ DeletedBefore(pref, i, n)
          <6>1. Len(kernel'.rules[pref]) <= s[n].arg
            BY <4>3, <5>1, <5>2, <5>3
          <6>2. \A x \in {0, 1} : Len(kernel'.rules[pref]) <= s[n].arg + x
            BY <4>3, <5>1, <6>1
          <6> QED  BY <4>1, <6>2 DEF EnoughRounds, t
        <5>4. ASSUME NEW k \in 1 .. n - 1, s[k] = DelRule(i, pref) PROVE EnoughRounds(pref, i, m)'
          <6>1. Len(kernel.rules[pref]) <= s[n].arg + 1
            <7>1. \A x \in {0, 1} : x <= 1
              OBVIOUS
            <7> QED  BY <4>3, <5>1, <5>2, <7>1
          <6>2. CASE k = 1
            <7>1. Head(todo[Admin]) = DelRule(i, pref)
              BY <1>2, <5>4, <6>2 DEF s
            <7>2. Len(kernel.rules[pref]) # 0 =>
                    Len(kernel'.rules[pref]) = Len(kernel.rules[pref]) - 1
              BY <2>0, <5>1, <7>1 DEF TakesAway
            <7>3. Len(kernel'.rules[pref]) <= s[n].arg
              BY <4>3, <5>1, <6>1, <7>2, SMTT(30)
            <7>4. \A x \in {0, 1} : Len(kernel'.rules[pref]) <= s[n].arg + x
              BY <4>3, <5>1, <7>3
            <7> QED  BY <4>1, <7>4 DEF EnoughRounds, t
          <6>3. CASE k # 1
            <7>0. k \in 2 .. n - 1 /\ n \in 2 .. Len(s) /\ l \in Nat /\ Len(s) \in Nat
              BY <1>1, <4>1, <6>3
            <7>1. k \in 2 .. Len(s) /\ l + k - 1 \in 1 .. m - 1
              BY <7>0
            <7>2. t[l + k - 1] = DelRule(i, pref)
              BY <1>1, <5>4, <7>1
            <7>3. DeletedBefore(pref, i, m)'
              BY <7>1, <7>2 DEF DeletedBefore, t, DelRule, Op
            <7>4. Len(kernel'.rules[pref]) <= s[n].arg + 1
              <8>1. \A a, b, c \in Nat : a <= b /\ b <= c + 1 => a <= c + 1
                OBVIOUS
              <8> QED  BY <4>3, <5>1, <6>1, <8>1
            <7> QED  BY <4>1, <7>3, <7>4 DEF EnoughRounds, t
          <6> QED  BY <6>2, <6>3
        <5> QED  BY <5>3, <5>4 DEF DeletedBefore, s
      <4> HIDE DEF m
      <4>5. IsRound(t[m], i)
        BY <2>2, <4>1
      <4> QED  BY <4>1, <4>4, <4>5 DEF RulesGo, t
    <3> QED  BY <3>1, <3>2
  <2>3. \/ PrefsLookingUp(i) = {}
        \/ \E n \in 1 .. Len(s) :
             /\ IsRound(s[n], i)
             /\ \A pref \in {FromPref(i), UidPref(i)} : EnoughRounds(pref, i, n)
    BY <2>0 DEF RulesGo, s
  <2> QED  BY <2>1, <2>2, <2>3
<1> QED  BY <1>0, <1>4, <1>5 DEF Clearing

\* A round: what it puts in the queue.
Round(i, n) == Op("clean rules", i, n)

LEMMA RoundProgram ==
  ASSUME KernelOK(kernel), NEW i \in Names, NEW list \in Ordered(PrefsLookingUp(i)),
         NEW n \in Nat
  PROVE  /\ Round(i, n).arg = n /\ IsRound(Round(i, n), i)
         /\ Deletions(i, list) \o <<Round(i, n)>> \in Seq(OpsOn(i))
         /\ Len(Deletions(i, list) \o <<Round(i, n)>>) = Len(list) + 1
         /\ (Deletions(i, list) \o <<Round(i, n)>>)[Len(list) + 1] = Round(i, n)
         /\ \A k \in 1 .. Len(list) :
              (Deletions(i, list) \o <<Round(i, n)>>)[k] = DelRule(i, list[k])
         /\ \A k \in 1 .. Len(list) + 1 :
              IsStopOp((Deletions(i, list) \o <<Round(i, n)>>)[k])
         /\ Len(list) \in Nat
<1> DEFINE d == Deletions(i, list)
           r == Round(i, n)
           c == d \o <<r>>
<1>1. d \in Seq(OpsOn(i)) /\ Len(d) = Len(list) /\ list \in Seq({FromPref(i), UidPref(i)})
  BY DeletionsTyped
<1>2. \A k \in 1 .. Len(list) : d[k] = DelRule(i, list[k])
  BY DeletionsTyped DEF DelRule
<1>3. r.arg = n /\ IsRound(r, i) /\ IsStopOp(r)
  BY DEF Round, Op, IsRound, IsStopOp, StopNames
<1>4. \A x : IsStopOp(DelRule(i, x))
  BY DEF DelRule, Op, IsStopOp, StopNames
<1>5. r \in OpsOn(i)
  BY DEF OpsOn, Round, Op
<1> HIDE DEF d, r
<1>6. /\ c \in Seq(OpsOn(i)) /\ Len(c) = Len(d) + 1 /\ c[Len(d) + 1] = r
      /\ \A k \in 1 .. Len(d) : c[k] = d[k]
      /\ Len(d) \in Nat
  BY <1>1, <1>5
<1> HIDE DEF c
<1>7. \A k \in 1 .. Len(list) + 1 : IsStopOp(c[k])
  <2>1. TAKE k \in 1 .. Len(list) + 1
  <2>2. k = Len(list) + 1 \/ k \in 1 .. Len(list)
    BY <1>1, <1>6
  <2>3. CASE k = Len(list) + 1
    BY <1>1, <1>3, <1>6, <2>3
  <2>4. CASE k \in 1 .. Len(list)
    BY <1>1, <1>2, <1>4, <1>6, <2>4
  <2> QED  BY <2>2, <2>3, <2>4
<1> QED  BY <1>1, <1>2, <1>3, <1>6, <1>7 DEF c, d, r

\* A round that begins with rounds enough to come leaves rounds enough.
LEMMA RoundGoesOn ==
  ASSUME BlocksApart, HostInv, NEW i \in Names, todo[Admin] # <<>>, IsRound(Head(todo[Admin]), i),
         \A pref \in {FromPref(i), UidPref(i)} : EnoughRounds(pref, i, 1),
         TableOf[i] = i, NEW list \in Ordered(PrefsLookingUp(i)), UNCHANGED kernel,
         NEW n \in Nat, Head(todo[Admin]).arg = n + 1,
         todo'[Admin] = (Deletions(i, list) \o <<Round(i, n)>>) \o Tail(todo[Admin])
  PROVE  \A pref \in {FromPref(i), UidPref(i)} : EnoughRounds(pref, i, Len(list) + 1)'
<1> DEFINE c == Deletions(i, list) \o <<Round(i, n)>>
           t == todo'[Admin]
           s == todo[Admin]
<1>0. s \in Seq(OpsOf(Admin)) /\ s[1] = Head(s) /\ KernelOK(kernel)
  <2>1. s \in Seq(OpsOf(Admin)) /\ KernelOK(kernel)
    BY DEF HostInv, QueuesOK, Processes
  <2> QED  BY <2>1
<1>1. /\ Round(i, n).arg = n /\ c \in Seq(OpsOn(i)) /\ Len(c) = Len(list) + 1
      /\ c[Len(list) + 1] = Round(i, n) /\ Len(list) \in Nat
      /\ \A k \in 1 .. Len(list) : c[k] = DelRule(i, list[k])
  BY <1>0, RoundProgram
<1> HIDE DEF c
<1>2. \A k \in 1 .. Len(c) : t[k] = c[k]
  BY <1>0, <1>1, TailHas DEF c
<1> HIDE DEF t, s
<1>3. ASSUME NEW pref \in {FromPref(i), UidPref(i)}
      PROVE  EnoughRounds(pref, i, Len(list) + 1)'
  <2>1. pref \in Prefs /\ Len(kernel.rules[pref]) \in Nat
        /\ (Len(kernel.rules[pref]) # 0 => pref \in PrefsLookingUp(i))
    BY <1>0, OwnRulesOnly
  <2>2. Len(kernel.rules[pref]) <= n + 1
    <3>1. ~ DeletedBefore(pref, i, 1)
      <4>1. 1 .. 1 - 1 = {}
        OBVIOUS
      <4> QED  BY <4>1 DEF DeletedBefore
    <3>2. Len(kernel.rules[pref]) <= s[1].arg + 0
      BY <3>1 DEF EnoughRounds, s
    <3> QED  BY <1>0, <3>2 DEF s
  <2>3. t[Len(list) + 1].arg = n
    BY <1>1, <1>2
  <2>4. CASE Len(kernel.rules[pref]) = 0
    <3>1. \A x \in {0, 1} : Len(kernel'.rules[pref]) <= n + x
      BY <2>4
    <3> QED  BY <2>3, <3>1 DEF EnoughRounds, t
  <2>5. CASE Len(kernel.rules[pref]) # 0
    <3>1. PrefsLookingUp(i) \subseteq Nat /\ IsFiniteSet(PrefsLookingUp(i))
      <4>1. IfaceId[i] \in Nat
        BY HostAssumption
      <4>2. FromPref(i) \in Nat /\ UidPref(i) \in Nat
        BY <4>1 DEF FromPref, UidPref
      <4> QED  BY <1>0, <4>2, PrefsLookingUpAre
    <3>2. PICK k \in 1 .. Len(list) : list[k] = pref
      BY <2>1, <2>5, <3>1, OrderedHasAll
    <3>3. t[k] = DelRule(i, pref) /\ k \in 1 .. Len(list) + 1 - 1
      BY <1>1, <1>2, <3>2
    <3>4. ASSUME NEW m, m = Len(list) + 1 PROVE DeletedBefore(pref, i, m)'
      <4>1. \E q \in 1 .. m - 1 : t[q] = DelRule(i, pref)
        BY <3>3, <3>4
      <4> QED  BY <4>1 DEF DeletedBefore, t
    <3>5. Len(kernel'.rules[pref]) <= n + 1
      BY <2>2
    <3> QED  BY <2>3, <3>4, <3>5 DEF EnoughRounds, t
  <2> QED  BY <2>4, <2>5
<1> QED  BY <1>3

LEMMA ClearingStays ==
  ASSUME BlocksApart, HostInv, HostInv', NEW ifs, Clearing(ifs), Step(Admin) \/ WgUpFails(Admin),
         IsStopOp(Head(todo[Admin]))
  PROVE  /\ Clearing(ifs)' /\ UNCHANGED <<last, alone>>
         /\ \E more \in Seq(OpsOf(Admin)) :
              /\ todo'[Admin] = more \o Tail(todo[Admin])
              /\ \A n \in 1 .. Len(more) : IsStopOp(more[n])
<1> DEFINE o == Head(todo[Admin])
           i == Subject(Admin)
           Goal == /\ Clearing(ifs)'
                   /\ \E more \in Seq(OpsOf(Admin)) :
                        /\ todo'[Admin] = more \o Tail(todo[Admin])
                        /\ \A n \in 1 .. Len(more) : IsStopOp(more[n])
<1>0. /\ Admin \in Processes /\ QueuesOK /\ KernelOK(kernel) /\ ifs \subseteq Names
      /\ \A p \in Names : todo[p] = <<>>
  BY DEF HostInv, Processes, Clearing
<1>1. todo[Admin] # <<>>
  BY DEF Step, KernelStep, CleanRules, WgDown, SystemctlStop, SystemctlStart, ExecStartPost,
     UnitStarted, InstallScript, InstallConf, InstallDropin, InstallTables, BeginStart, ApplyState,
     LookUpTable, WgUpFails, WgUp, Runs
<1>2. IsStopOp(o)
  OBVIOUS
<1>3. /\ UNCHANGED <<last, alone>> /\ TakesAway(o)
      /\ \A p \in Names : todo'[p] = <<>>
      /\ \/ todo'[Admin] = Tail(todo[Admin]) /\ \A j : ~ IsRound(o, j)
         \/ CleanRules(Admin)
  BY <1>0, <1>2, StopStep
<1>4. Tail(todo[Admin]) \in Seq(OpsOf(Admin)) /\ <<>> \o Tail(todo[Admin]) = Tail(todo[Admin])
  <2>1. Tail(todo[Admin]) \in Seq(OpsOf(Admin))
    BY <1>0, <1>1, HeadShape
  <2> QED  BY <2>1
<1>5. ASSUME todo'[Admin] = Tail(todo[Admin]),
             \A j \in ifs :
               /\ IsRound(o, j) /\ \A pref \in {FromPref(j), UidPref(j)} : EnoughRounds(pref, j, 1)
               => PrefsLookingUp(j)' = {}
      PROVE  Goal
  <2> DEFINE more == <<>>
  <2>1. /\ more \in Seq(OpsOf(Admin)) /\ todo'[Admin] = more \o Tail(todo[Admin])
        /\ \A n \in 1 .. Len(more) : IsStopOp(more[n])
    BY <1>4, <1>5
  <2> HIDE DEF more
  <2>2. Clearing(ifs)'
    BY <1>1, <1>3, <1>5, <2>1, ClearingMovesOn
  <2> QED  BY <2>1, <2>2
<1>6. CASE todo'[Admin] = Tail(todo[Admin]) /\ \A j : ~ IsRound(o, j)
  BY <1>3, <1>5, <1>6
<1>7. CASE CleanRules(Admin)
  <2>1. Runs(Admin, "clean rules") /\ UNCHANGED kernel
    BY <1>7 DEF CleanRules
  <2>2. i \in Names /\ Argument(Admin) \in Nat
    BY <1>0, <2>1, CleanHead
  <2>3. IsRound(o, i) /\ \A j : IsRound(o, j) => j = i
    BY <2>1 DEF Runs, IsRound, Subject
  <2>4. PICK list \in Ordered(PrefsLookingUp(i)) :
          Continue(Admin, IF list = <<>> \/ Argument(Admin) = 0
                          THEN <<>>
                          ELSE Deletions(i, list) \o <<Round(i, Argument(Admin) - 1)>>)
    BY <1>7 DEF CleanRules, Round
  <2> HIDE DEF i, o
  <2>5. PrefsLookingUp(i) \subseteq Nat /\ IsFiniteSet(PrefsLookingUp(i))
    <3>1. IfaceId[i] \in Nat
      BY <2>2, HostAssumption
    <3>2. FromPref(i) \in Nat /\ UidPref(i) \in Nat
      BY <3>1 DEF FromPref, UidPref
    <3> QED  BY <1>0, <2>2, <3>2, PrefsLookingUpAre
  <2>6. todo = [p \in Processes |-> todo[p]]
    BY <1>0 DEF QueuesOK
  <2>8. CASE list = <<>> \/ Argument(Admin) = 0
    <3>1. todo'[Admin] = Tail(todo[Admin])
      BY <1>0, <1>4, <2>4, <2>6, <2>8 DEF Continue
    <3>2. ASSUME \A pref \in {FromPref(i), UidPref(i)} : EnoughRounds(pref, i, 1)
          PROVE  PrefsLookingUp(i) = {}
      <4>1. CASE list = <<>>
        BY <2>5, <4>1, OrderedHasAll
      <4>2. CASE Argument(Admin) = 0
        <5>1. ASSUME NEW pref \in {FromPref(i), UidPref(i)} PROVE Len(kernel.rules[pref]) = 0
          <6>1. Len(kernel.rules[pref]) \in Nat
            BY <1>0, <2>2, OwnRulesOnly
          <6>2. ~ DeletedBefore(pref, i, 1)
            <7>1. 1 .. 1 - 1 = {}
              OBVIOUS
            <7> QED  BY <7>1 DEF DeletedBefore
          <6>3. todo[Admin][1].arg = 0
            BY <1>0, <1>1, <4>2 DEF Argument, QueuesOK
          <6>4. Len(kernel.rules[pref]) <= 0 + 0
            BY <3>2, <6>2, <6>3 DEF EnoughRounds
          <6> QED  BY <6>1, <6>4
        <5> QED  BY <1>0, <2>2, <5>1, NoRulesNotFound
      <4> QED  BY <2>8, <4>1, <4>2
    <3>3. ASSUME NEW j \in ifs, IsRound(o, j),
                 \A pref \in {FromPref(j), UidPref(j)} : EnoughRounds(pref, j, 1)
          PROVE  PrefsLookingUp(j)' = {}
      <4>1. j = i
        BY <2>3, <3>3
      <4>2. PrefsLookingUp(j) = {}
        BY <3>2, <3>3, <4>1
      <4> QED  BY <2>1, <4>2 DEF PrefsLookingUp
    <3>4. \A j \in ifs :
             /\ IsRound(o, j) /\ \A pref \in {FromPref(j), UidPref(j)} : EnoughRounds(pref, j, 1)
             => PrefsLookingUp(j)' = {}
      BY <3>3
    <3> QED  BY <1>3, <1>5, <3>1, <3>4
  <2>9. CASE list # <<>> /\ Argument(Admin) # 0
    <3>1. PICK n \in Nat : Argument(Admin) = n + 1 /\ n = Argument(Admin) - 1
      <4>1. Argument(Admin) - 1 \in Nat /\ Argument(Admin) = (Argument(Admin) - 1) + 1
        BY <2>2, <2>9
      <4> QED  BY <4>1
    <3>2. PICK j \in Names : j = i
      BY <2>2
    <3> DEFINE more == Deletions(j, list) \o <<Round(j, n)>>
    <3>3. list \in Ordered(PrefsLookingUp(j))
      BY <3>2
    <3>4. todo'[Admin] = more \o Tail(todo[Admin])
      BY <1>0, <2>4, <2>6, <2>9, <3>1, <3>2 DEF Continue
    <3>5. /\ IsRound(Round(j, n), j) /\ Len(list) \in Nat
          /\ more \in Seq(OpsOn(j)) /\ Len(more) = Len(list) + 1
          /\ more[Len(list) + 1] = Round(j, n)
          /\ \A k \in 1 .. Len(list) + 1 : IsStopOp(more[k])
      BY <1>0, <3>3, RoundProgram
    <3>6. more \in Seq(OpsOf(Admin))
      <4>1. OpsOn(j) \subseteq OpsOf(Admin)
        BY <1>0, OpsOnAreOpsOf
      <4> QED  BY <3>5, <4>1, SeqsGrow
    <3>7. Head(todo[Admin]).arg = n + 1 /\ IsRound(Head(todo[Admin]), j)
      BY <2>3, <3>1, <3>2 DEF Argument, o
    <3>8. (\A pref \in {FromPref(j), UidPref(j)} : EnoughRounds(pref, j, 1)) =>
            \A pref \in {FromPref(j), UidPref(j)} : EnoughRounds(pref, j, Len(list) + 1)'
      <4>1. TableOf[j] = j
        <5>1. Cardinality({}) = 0
          BY FS_EmptySet
        <5>2. list \in [1 .. Cardinality(PrefsLookingUp(j)) -> PrefsLookingUp(j)]
          BY <3>3 DEF Ordered
        <5>3. PrefsLookingUp(j) # {}
          <6> SUFFICES ASSUME PrefsLookingUp(j) = {} PROVE list = <<>>
            BY <2>9
          <6>1. Cardinality(PrefsLookingUp(j)) = 0 /\ 1 .. 0 = {}
            BY <5>1
          <6>2. list \in [{} -> {}]
            BY <5>2, <6>1
          <6> QED  BY <6>2
        <5> QED  BY <1>0, <5>3, PrefsLookingUpAre
      <4> QED  BY <1>1, <2>1, <3>3, <3>4, <3>7, <4>1, RoundGoesOn
    <3>9. Len(list) + 1 \in 1 .. Len(more) /\ IsRound(more[Len(list) + 1], j)
          /\ \A k \in 1 .. Len(more) : IsStopOp(more[k])
      BY <3>5
    <3> HIDE DEF more
    <3>10. ASSUME NEW q \in ifs, IsRound(Head(todo[Admin]), q),
                  \A pref \in {FromPref(q), UidPref(q)} : EnoughRounds(pref, q, 1)
           PROVE  \E k \in 1 .. Len(more) :
                    /\ IsRound(more[k], q)
                    /\ \A pref \in {FromPref(q), UidPref(q)} : EnoughRounds(pref, q, k)'
      <4>1. q = j
        BY <2>3, <3>2, <3>10 DEF o
      <4> QED  BY <3>8, <3>9, <3>10, <4>1
    <3>11. Clearing(ifs)'
      BY <1>1, <1>3, <3>4, <3>6, <3>10, ClearingMovesOn DEF o
    <3> QED  BY <1>3, <3>4, <3>6, <3>9, <3>11
  <2> QED  BY <2>8, <2>9
<1> QED  BY <1>3, <1>6, <1>7

LEMMA StoppingStays ==
  ASSUME BlocksApart, HostInv, HostInv', NEW ifs, Stopping(ifs), Step(Admin) \/ WgUpFails(Admin)
  PROVE  Stopping(ifs)' /\ UNCHANGED <<last, alone>>
<1> DEFINE S == {o \in OpsOf(Admin) : IsStopOp(o)}
           s == todo[Admin]
<1>1. s # <<>> /\ s \in Seq(OpsOf(Admin)) /\ Clearing(ifs)
  BY DEF Step, KernelStep, CleanRules, WgDown, SystemctlStop, SystemctlStart, ExecStartPost,
     UnitStarted, InstallScript, InstallConf, InstallDropin, InstallTables, BeginStart, ApplyState,
     LookUpTable, WgUpFails, WgUp, Runs, HostInv, QueuesOK, Processes, Stopping
<1>2. s \in Seq(S) /\ Head(s) \in S /\ Tail(s) \in Seq(S)
  <2>1. \A n \in 1 .. Len(s) : s[n] \in S
    BY <1>1 DEF Stopping
  <2>2. Len(s) \in Nat /\ DOMAIN s = 1 .. Len(s) /\ s = [n \in 1 .. Len(s) |-> s[n]]
    BY <1>1
  <2> HIDE DEF s, S
  <2>3. s \in Seq(S)
    BY <2>1, <2>2, MadeTyped
  <2> QED  BY <1>1, <2>3, HeadTailProperties
<1>3. PICK more \in Seq(OpsOf(Admin)) :
        /\ Clearing(ifs)' /\ UNCHANGED <<last, alone>>
        /\ todo'[Admin] = more \o Tail(s)
        /\ \A n \in 1 .. Len(more) : IsStopOp(more[n])
  BY <1>1, <1>2, ClearingStays
<1>4. more \in Seq(S)
  <2>1. \A n \in 1 .. Len(more) : more[n] \in S
    BY <1>3
  <2>2. Len(more) \in Nat /\ DOMAIN more = 1 .. Len(more) /\ more = [n \in 1 .. Len(more) |-> more[n]]
    BY <1>3
  <2> HIDE DEF S
  <2> QED  BY <2>1, <2>2, MadeTyped
<1>5. \A n \in 1 .. Len(todo'[Admin]) : IsStopOp(todo'[Admin][n])
  <2>1. more \o Tail(s) \in Seq(S)
    BY <1>2, <1>4, ConcatTyped
  <2>2. \A n \in 1 .. Len(todo'[Admin]) : todo'[Admin][n] \in S
    BY <1>3, <2>1
  <2> QED  BY <2>2
<1> QED  BY <1>3, <1>5 DEF Stopping, IsStopOp, StopNames

\* What stop_clean begins with.
LEMMA ClearingBegins ==
  ASSUME BlocksApart, HostInv, TwoRules, NEW ifs \in SUBSET Names, Running = {},
         NEW rest \in Seq(OpsOf(Admin)),
         todo' = [todo EXCEPT ![Admin] = ForEach([i \in ifs |-> StopProgram(i)]) \o rest],
         UNCHANGED kernel
  PROVE  /\ Clearing(ifs)'
         /\ ForEach([i \in ifs |-> StopProgram(i)]) \in Seq({o \in OpsOf(Admin) : IsStopOp(o)})
         /\ \A i \in ifs : \E n \in 1 .. Len(todo'[Admin]) :
              todo'[Admin][n] = Do("systemctl stop", i)
<1> DEFINE S == {o \in OpsOf(Admin) : IsStopOp(o)}
           program == [i \in ifs |-> StopProgram(i)]
           s == ForEach(program)
           t == todo'[Admin]
<1>0. /\ Admin \in Processes /\ todo = [p \in Processes |-> todo[p]] /\ KernelOK(kernel)
      /\ \A p \in Names : p \in Processes /\ p # Admin
  BY NoneIsNoName DEF HostInv, QueuesOK, Processes
<1>1. /\ t = s \o rest
      /\ \A p \in Names : todo'[p] = <<>>
  <2>1. \A p \in Names : todo[p] = <<>>
    BY <1>0 DEF Running
  <2> QED  BY <1>0, <2>1
<1>2. ASSUME NEW i \in Names
      PROVE  /\ StopProgram(i) \in Seq(S)
             /\ \E n \in 1 .. Len(StopProgram(i)) : StopProgram(i)[n] = LinkDel(i)
             /\ \E n \in 1 .. Len(StopProgram(i)) : StopProgram(i)[n] = Round(i, 10)
             /\ \E n \in 1 .. Len(StopProgram(i)) : StopProgram(i)[n] = Do("systemctl stop", i)
  <2> DEFINE a == Do("systemctl stop", i)
             b == Do("wg-quick down", i)
             c == Round(i, 10)
             d == Do("route flush", i)
             e == Do("addr flush", i)
             f == LinkDel(i)
  <2>1. StopProgram(i) = <<a, b, c, d, e, f>>
    BY DEF StopProgram, Round, LinkDel
  <2>2. /\ IsStopOp(a) /\ IsStopOp(b) /\ IsStopOp(c) /\ IsStopOp(d) /\ IsStopOp(e) /\ IsStopOp(f)
    BY DEF IsStopOp, StopNames, Do, Op, Round, LinkDel
  <2>3. /\ a \in OpsOn(i) /\ b \in OpsOn(i) /\ d \in OpsOn(i) /\ e \in OpsOn(i) /\ f \in OpsOn(i)
    BY DoTyped DEF PlainNames, LinkDel
  <2>4. c \in OpsOn(i)
    BY DEF OpsOn, Round, Op
  <2>5. OpsOn(i) \subseteq OpsOf(Admin)
    BY <1>0, OpsOnAreOpsOf
  <2> HIDE DEF a, b, c, d, e, f
  <2>6. a \in S /\ b \in S /\ c \in S /\ d \in S /\ e \in S /\ f \in S
    BY <2>2, <2>3, <2>4, <2>5
  <2> HIDE DEF S
  <2>7. <<a, b, c, d, e, f>> \in Seq(S)
    BY <2>6, SixTyped
  <2>8. /\ Len(<<a, b, c, d, e, f>>) = 6 /\ <<a, b, c, d, e, f>>[1] = a
        /\ <<a, b, c, d, e, f>>[3] = c /\ <<a, b, c, d, e, f>>[6] = f
    OBVIOUS
  <2>9. 1 \in 1 .. 6 /\ 3 \in 1 .. 6 /\ 6 \in 1 .. 6
    OBVIOUS
  <2> QED  BY <2>1, <2>7, <2>8, <2>9 DEF a, c, f
<1> HIDE DEF S
<1>3. DOMAIN program = ifs /\ \A i \in Names : i \in DOMAIN program => program[i] = StopProgram(i)
  OBVIOUS
<1>4. s \in Seq(S)
  <2>1. \A i \in Names : i \in DOMAIN program => program[i] \in Seq(S)
    BY <1>2, <1>3
  <2> HIDE DEF program
  <2> QED  BY <2>1, ForEachClosed, ConcatTyped, ZenonT(40)
<1>5. /\ Len(t) = Len(s) + Len(rest) /\ Len(s) \in Nat /\ Len(rest) \in Nat
      /\ \A n \in 1 .. Len(s) : t[n] = s[n]
  <2> DEFINE T == OpsOf(Admin)
  <2>1. S \subseteq T
    BY DEF S
  <2>2. s \in Seq(T) /\ rest \in Seq(T)
    BY <1>4, <2>1, SeqsGrow
  <2> HIDE DEF T, s, t
  <2>3. /\ Len(s \o rest) = Len(s) + Len(rest) /\ Len(s) \in Nat /\ Len(rest) \in Nat
        /\ \A n \in 1 .. Len(s) : (s \o rest)[n] = s[n]
    BY <2>2
  <2> QED  BY <1>1, <2>3
<1>6. ASSUME NEW i \in ifs
      PROVE  /\ \E n \in 1 .. Len(t) : t[n] = LinkDel(i)
             /\ \E n \in 1 .. Len(t) : t[n] = Round(i, 10)
             /\ \E n \in 1 .. Len(t) : t[n] = Do("systemctl stop", i)
  <2>0. i \in Names /\ i \in DOMAIN program
    OBVIOUS
  <2>1. \A j \in Names : j \in DOMAIN program => program[j] \in Seq(S)
    BY <1>2, <1>3
  <2>2. /\ \E n \in 1 .. Len(program[i]) : program[i][n] = LinkDel(i)
        /\ \E n \in 1 .. Len(program[i]) : program[i][n] = Round(i, 10)
        /\ \E n \in 1 .. Len(program[i]) : program[i][n] = Do("systemctl stop", i)
    BY <1>2, <1>3
  <2> HIDE DEF program, s, t
  <2>3. \A k \in 1 .. Len(program[i]) :
          \E n \in 1 .. Len(ForEach(program)) : ForEach(program)[n] = program[i][k]
    BY <2>0, <2>1, ForEachHas
  <2>4. \A n \in 1 .. Len(s) : n \in 1 .. Len(t) /\ t[n] = s[n]
    BY <1>5
  <2>5. \A k \in 1 .. Len(program[i]) : \E n \in 1 .. Len(t) : t[n] = program[i][k]
    BY <2>3, <2>4 DEF s
  <2> QED  BY <2>2, <2>5
<1> HIDE DEF s, t, program
<1>7. ASSUME NEW i \in ifs PROVE LinkGoes(i)'
  BY <1>6 DEF LinkGoes, t
<1>8. ASSUME NEW i \in ifs PROVE RulesGo(i)'
  <2>1. PICK n \in 1 .. Len(t) : t[n] = Round(i, 10)
    BY <1>6
  <2>2. t[n].arg = 10 /\ IsRound(t[n], i)
    <3>1. Round(i, 10).arg = 10 /\ IsRound(Round(i, 10), i)
      BY DEF Round, Op, IsRound
    <3> QED  BY <2>1, <3>1
  <2>3. ASSUME NEW pref \in {FromPref(i), UidPref(i)} PROVE EnoughRounds(pref, i, n)'
    <3>1. Len(kernel.rules[pref]) \in Nat
      BY <1>0, OwnRulesOnly
    <3>2. Len(kernel.rules[pref]) + Adding(Admin, pref) + Adding(i, pref) <= 2
      BY DEF TwoRules
    <3>3. Adding(Admin, pref) \in {0, 1} /\ Adding(i, pref) \in {0, 1}
      BY DEF Adding
    <3>4. \A x \in {0, 1} : Len(kernel.rules[pref]) <= 10 + x
      BY <3>1, <3>2, <3>3
    <3> QED  BY <2>2, <3>4 DEF EnoughRounds, t
  <2> QED  BY <2>1, <2>2, <2>3 DEF RulesGo, t
<1> QED  BY <1>1, <1>4, <1>6, <1>7, <1>8 DEF Clearing, t, s, S, program

\* ... alone.
LEMMA StopBegins ==
  ASSUME BlocksApart, HostInv, TwoRules, NEW ifs \in SUBSET Names, Running = {},
         todo' = [todo EXCEPT ![Admin] = ForEach([i \in ifs |-> StopProgram(i)])],
         UNCHANGED kernel
  PROVE  Stopping(ifs)'
<1> DEFINE S == {o \in OpsOf(Admin) : IsStopOp(o)}
           s == ForEach([i \in ifs |-> StopProgram(i)])
<1>1. s \in Seq(OpsOf(Admin))
  BY ProgramsTyped
<1>2. <<>> \in Seq(OpsOf(Admin)) /\ \A q \in Seq(OpsOf(Admin)) : q \o <<>> = q
  OBVIOUS
<1> HIDE DEF s
<1>3. s \o <<>> = s
  BY <1>1, <1>2
<1>4. Clearing(ifs)' /\ s \in Seq(S)
  BY <1>2, <1>3, ClearingBegins DEF s
<1>5. todo'[Admin] = s
  BY DEF HostInv, QueuesOK, Processes, s
<1>6. \A n \in 1 .. Len(s) : s[n] \in S
  BY <1>4
<1>7. \A n \in 1 .. Len(todo'[Admin]) : IsStopOp(todo'[Admin][n])
  BY <1>5, <1>6
<1> QED  BY <1>4, <1>7 DEF Stopping, IsStopOp, StopNames

LEMMA StopInvStep ==
  ASSUME BlocksApart, HostInv, HostInv', TwoRules, StopInv, [Next]_vars
  PROVE  StopInv'
<1>1. SUFFICES ASSUME last'.what = "stop", alone' PROVE Stopping(last.ifs)'
  BY DEF StopInv, Stopping
<1>9. ASSUME NEW ifs, ifs = last'.ifs, Stopping(ifs)' PROVE Stopping(last.ifs)'
  BY <1>9 DEF Stopping
<1>2. CASE \E ifs \in Selections : StopClean(ifs)
  <2>1. PICK ifs \in Selections : StopClean(ifs)
    BY <1>2
  <2>2. /\ todo' = [todo EXCEPT ![Admin] = ForEach([i \in ifs |-> StopProgram(i)])]
        /\ last' = [what |-> "stop", ifs |-> ifs]
        /\ UNCHANGED kernel /\ Running = {}
    BY <1>1, <2>1 DEF StopClean, Begin
  <2>3. ifs \in SUBSET Names
    BY HostAssumption
  <2>4. Stopping(ifs)'
    BY <2>2, <2>3, StopBegins
  <2>5. last'.ifs = ifs
    BY <2>2
  <2> QED  BY <1>9, <2>4, <2>5
<1>3. ASSUME UNCHANGED <<last, alone>>
      PROVE  \E ifs : ifs = last'.ifs /\ Stopping(ifs)
  BY <1>1, <1>3 DEF StopInv, Stopping
<1>4. CASE UNCHANGED vars
  <2>1. PICK ifs : ifs = last'.ifs /\ Stopping(ifs)
    BY <1>3, <1>4 DEF vars
  <2>2. Stopping(ifs)'
    BY <1>4, <2>1, SMTT(30) DEF vars, Stopping, Clearing, LinkGoes, RulesGo, PrefsLookingUp, EnoughRounds, DeletedBefore
  <2> QED  BY <1>9, <2>1, <2>2
<1>5. ASSUME NEW p \in Processes, Step(p) PROVE Stopping(last.ifs)'
  <2>1. UNCHANGED <<last, alone>> /\ todo[p] # <<>>
    BY <1>5 DEF Step, KernelStep, CleanRules, WgDown, SystemctlStop, SystemctlStart, ExecStartPost,
       UnitStarted, InstallScript, InstallConf, InstallDropin, InstallTables, BeginStart, ApplyState,
       LookUpTable, WgUp, Runs, Done, Continue, Raise
  <2>2. PICK ifs : ifs = last'.ifs /\ Stopping(ifs)
    BY <1>3, <2>1
  <2>3. p = Admin
    BY <2>1, <2>2 DEF Processes, Stopping, Clearing
  <2>4. Stopping(ifs)'
    BY <1>5, <2>2, <2>3, StoppingStays
  <2> QED  BY <1>9, <2>2, <2>4
<1>6. Interrupt \/ (\E p \in Processes : WgUpFails(p)) => ~ alone'
  BY DEF Interrupt, WgUpFails
<1>7. Reboot => last'.what # "stop"
  BY DEF Reboot
<1>8. Command => \/ last'.what # "stop"
                 \/ \E ifs \in Selections : StopClean(ifs)
  <2>1. \A what, program : Begin(what, program) => last' = what
    BY DEF Begin
  <2>2. \A tree, ifs, stop, start, create :
          Deploy(tree, ifs, stop, start, create) => last'.what = "deploy"
    BY <2>1 DEF Deploy
  <2>3. ASSUME NEW i, NEW force, IfaceUp(i) \/ IfaceDown(i) \/ Start(i, force)
        PROVE  last'.what # "stop"
    <3>1. CASE IfaceUp(i)
      <4>1. last' = [what |-> "up"]
        BY <2>1, <3>1 DEF IfaceUp
      <4> QED  BY <4>1
    <3>2. CASE IfaceDown(i)
      <4>1. last' = [what |-> "down"]
        BY <2>1, <3>2 DEF IfaceDown
      <4> QED  BY <4>1
    <3>3. CASE Start(i, force)
      <4>1. last' = [what |-> "start"]
        BY <2>1, <3>3 DEF Start
      <4> QED  BY <4>1
    <3> QED  BY <2>3, <3>1, <3>2, <3>3
  <2>4. ApplyByHand => last'.what = "apply"
    BY <2>1 DEF ApplyByHand
  <2> QED  BY <2>2, <2>3, <2>4 DEF Command
<1> QED  BY <1>1, <1>2, <1>4, <1>5, <1>6, <1>7, <1>8 DEF Next

\* As the system comes up no rule is there, and the units' starts add none.
LEMMA InitStopCleans == Init => StopCleans
<1>1. SUFFICES ASSUME Init PROVE StopCleans
  OBVIOUS
<1>2. HostInv
  BY <1>1, InitHostInv
<1>3. StopInv
  BY <1>1 DEF Init, StopInv
<1>4. ASSUME NEW p \in Processes
      PROVE  TidyBehind(todo[p]) /\ \A pref : Adding(p, pref) = 0
  <2> DEFINE o == Do("systemctl start", p)
  <2>1. todo[p] = <<>> \/ todo[p] = <<o>>
    BY <1>1 DEF Init, UnitsToStart
  <2>2. ~ IsAdd(o)
    BY DEF IsAdd, Do, Op
  <2> HIDE DEF o
  <2>3. TidyBehind(<<>>) /\ TidyBehind(<<o>>)
    BY DEF TidyBehind
  <2>4. Head(<<o>>) = o
    OBVIOUS
  <2> QED  BY <2>1, <2>2, <2>3, <2>4 DEF Adding
<1>5. \A pref \in Prefs : kernel.rules[pref] = <<>>
  BY <1>1 DEF Init, EmptyKernel
<1>6. TwoRules
  <2>1. ASSUME NEW i \in Names, NEW pref \in {FromPref(i), UidPref(i)}
        PROVE  Len(kernel.rules[pref]) + Adding(Admin, pref) + Adding(i, pref) <= 2
    <3>1. pref \in Prefs /\ Admin \in Processes /\ i \in Processes
      BY PrefsOfRules DEF Processes
    <3> QED  BY <1>4, <1>5, <3>1
  <2> QED  BY <2>1 DEF TwoRules
<1> QED  BY <1>2, <1>3, <1>4, <1>6 DEF StopCleans, QueuesTidy

\* No preference of a tunnel ever holds more than the two rules of two
\* scripts that run at once: the ten rounds of _clean_iface_ip_state are
\* enough to empty it.
THEOREM TenRoundsAreEnough ==
  BlocksApart /\ Spec =>
    [](\A i \in Names : \A pref \in {FromPref(i), UidPref(i)} : Len(kernel.rules[pref]) <= 2)
<1>1. BlocksApart /\ StopCleans /\ [Next]_vars => StopCleans'
  BY NextHostInv, TwoRulesStep, StopInvStep DEF StopCleans
<1>2. ASSUME StopCleans, NEW i \in Names, NEW pref \in {FromPref(i), UidPref(i)}
      PROVE  Len(kernel.rules[pref]) <= 2
  <2>1. Len(kernel.rules[pref]) + Adding(Admin, pref) + Adding(i, pref) <= 2
    BY <1>2 DEF StopCleans, TwoRules
  <2>2. kernel.rules[pref] \in Seq(RulesAt(pref))
    BY <1>2, PrefsOfRules DEF StopCleans, HostInv, KernelOK
  <2>3. Adding(Admin, pref) \in {0, 1} /\ Adding(i, pref) \in {0, 1}
    BY DEF Adding
  <2> QED  BY <2>1, <2>2, <2>3
<1>3. StopCleans => \A i \in Names : \A pref \in {FromPref(i), UidPref(i)} : Len(kernel.rules[pref]) <= 2
  BY <1>2
<1>4. BlocksApart /\ [Next]_vars => BlocksApart'
  BY DEF BlocksApart
<1> QED  BY <1>1, <1>3, <1>4, InitStopCleans, PTL DEF Spec

\* A stop_clean that nothing came between has left neither link nor address
\* nor route of its interfaces, and no rule of those whose tables bear their
\* names, whatever it found: kernels half set up, units on their way, more
\* than one rule at a preference.  The rules of a table that is named
\* otherwise may stay.
THEOREM StopLeavesNothingBehind == BlocksApart /\ Spec => []StopLeavesNothing
<1>1. BlocksApart /\ StopCleans /\ [Next]_vars => StopCleans'
  BY NextHostInv, TwoRulesStep, StopInvStep DEF StopCleans
<1>2. StopCleans => StopLeavesNothing
  <2>1. SUFFICES ASSUME StopCleans, Ended("stop"), NEW i \in last.ifs
                 PROVE  /\ i \notin kernel.link \cup kernel.route
                        /\ kernel.addr[i] = {}
                        /\ TableOf[i] = i => ~HasRules(i)
    BY DEF StopLeavesNothing
  <2>2. KernelOK(kernel) /\ Stopping(last.ifs) /\ todo[Admin] = <<>>
    BY <2>1 DEF StopCleans, HostInv, StopInv, Ended, Running, Processes
  <2>3. i \in Names /\ LinkGoes(i) /\ RulesGo(i) /\ 1 .. Len(todo[Admin]) = {}
    BY <2>2 DEF Stopping, Clearing
  <2>4. i \notin kernel.link /\ PrefsLookingUp(i) = {}
    BY <2>3 DEF LinkGoes, RulesGo
  <2>5. TableOf[i] = i => ~HasRules(i)
    BY <2>3, <2>4, NoneIsNoName DEF PrefsLookingUp, HasRules
  <2> QED  BY <2>2, <2>3, <2>4, <2>5 DEF KernelOK
<1>3. BlocksApart /\ [Next]_vars => BlocksApart'
  BY DEF BlocksApart
<1> QED  BY <1>1, <1>2, <1>3, InitStopCleans, PTL DEF Spec

-----------------------------------------------------------------------------
(* The script run again: what a program of kernel commands makes of a      *)
(* kernel (RunAll), taken apart by concatenation.                          *)

\* A program's run on the kernel k, command after command.
IsRun(k, s, n, f) ==
  f = [m \in 0 .. n |-> IF m = 0 THEN k ELSE Effect(f[m - 1], s[m])]

LEMMA RunExists ==
  ASSUME NEW k, NEW s, NEW n \in Nat
  PROVE  \E f : IsRun(k, s, n, f)
<1> DEFINE T == {j \in Nat : \E f : f = [m \in 0 .. j |->
                                          IF m = 0 THEN k ELSE Effect(f[m - 1], s[m])]}
<1>1. 0 \in T
  <2> DEFINE f == [m \in 0 .. 0 |-> k]
  <2>1. f = [m \in 0 .. 0 |-> IF m = 0 THEN k ELSE Effect(f[m - 1], s[m])]
    OBVIOUS
  <2> QED  BY <2>1
<1>2. ASSUME NEW j \in Nat, j \in T PROVE j + 1 \in T
  <2>1. PICK f : f = [m \in 0 .. j |-> IF m = 0 THEN k ELSE Effect(f[m - 1], s[m])]
    BY <1>2
  <2> DEFINE longer == [m \in 0 .. j + 1 |-> IF m = j + 1 THEN Effect(f[j], s[m]) ELSE f[m]]
             next == [m \in 0 .. j + 1 |-> IF m = 0 THEN k ELSE Effect(longer[m - 1], s[m])]
  <2>2. ASSUME NEW m \in 0 .. j + 1 PROVE longer[m] = next[m]
    <3>1. CASE m = j + 1
      <4>1. longer[j] = f[j] /\ m - 1 = j /\ m # 0
        BY <3>1
      <4> QED  BY <3>1, <4>1
    <3>2. CASE m # j + 1
      <4>1. m \in 0 .. j /\ longer[m] = f[m]
        BY <3>2
      <4>2. m # 0 => longer[m - 1] = f[m - 1]
        BY <4>1
      <4>3. f[m] = IF m = 0 THEN k ELSE Effect(f[m - 1], s[m])
        BY <2>1, <4>1
      <4> QED  BY <4>1, <4>2, <4>3
    <3> QED  BY <3>1, <3>2
  <2>3. longer = next
    BY <2>2
  <2> HIDE DEF longer
  <2> QED  BY <2>3
<1> HIDE DEF T
<1>3. n \in T
  BY <1>1, <1>2, NatSetInduction
<1> QED  BY <1>3 DEF T, IsRun

LEMMA RunIs ==
  ASSUME NEW k, NEW s, Len(s) \in Nat
  PROVE  \E f : IsRun(k, s, Len(s), f) /\ RunAll(k, s) = f[Len(s)]
<1> DEFINE f == CHOOSE g : IsRun(k, s, Len(s), g)
<1>1. RunAll(k, s) = f[Len(s)]
  BY DEF RunAll, IsRun
<1>2. IsRun(k, s, Len(s), f)
  BY RunExists
<1> QED  BY <1>1, <1>2

\* There is one run only, ...
LEMMA RunUnique ==
  ASSUME NEW k, NEW s, NEW n \in Nat, NEW f, NEW g, IsRun(k, s, n, f), IsRun(k, s, n, g),
         NEW m \in 0 .. n
  PROVE  f[m] = g[m]
<1> DEFINE T == {j \in Nat : j <= n => f[j] = g[j]}
<1>1. 0 \in T
  BY DEF IsRun
<1>2. ASSUME NEW j \in Nat, j \in T PROVE j + 1 \in T
  <2>1. SUFFICES ASSUME j + 1 <= n PROVE f[j + 1] = g[j + 1]
    OBVIOUS
  <2>2. j + 1 \in 0 .. n /\ j + 1 # 0 /\ (j + 1) - 1 = j /\ f[j] = g[j]
    BY <1>2, <2>1
  <2>3. f[j + 1] = Effect(f[(j + 1) - 1], s[j + 1]) /\ g[j + 1] = Effect(g[(j + 1) - 1], s[j + 1])
    BY <2>2 DEF IsRun
  <2> QED  BY <2>2, <2>3
<1> HIDE DEF T
<1>3. m \in T
  BY <1>1, <1>2, NatSetInduction
<1> QED  BY <1>3 DEF T

\* ... and that of two programs is the second's on what the first has made.
LEMMA RunConcat ==
  ASSUME NEW k, NEW S, NEW a \in Seq(S), NEW b \in Seq(S)
  PROVE  RunAll(k, a \o b) = RunAll(RunAll(k, a), b)
<1> DEFINE s == a \o b
<1>1. /\ Len(a) \in Nat /\ Len(b) \in Nat /\ Len(s) = Len(a) + Len(b) /\ Len(s) \in Nat
      /\ \A n \in 1 .. Len(s) : s[n] = IF n <= Len(a) THEN a[n] ELSE b[n - Len(a)]
  BY ConcatProperties
<1> HIDE DEF s
<1>2. PICK f : IsRun(k, a, Len(a), f) /\ RunAll(k, a) = f[Len(a)]
  BY <1>1, RunIs
<1>3. PICK g : IsRun(RunAll(k, a), b, Len(b), g) /\ RunAll(RunAll(k, a), b) = g[Len(b)]
  BY <1>1, RunIs
<1>4. PICK h : IsRun(k, s, Len(s), h) /\ RunAll(k, s) = h[Len(s)]
  BY <1>1, RunIs
<1> DEFINE both == [m \in 0 .. Len(s) |-> IF m <= Len(a) THEN f[m] ELSE g[m - Len(a)]]
           next == [m \in 0 .. Len(s) |-> IF m = 0 THEN k ELSE Effect(both[m - 1], s[m])]
<1>5. ASSUME NEW m \in 0 .. Len(s) PROVE both[m] = next[m]
  <2>1. CASE m = 0
    <3>1. f[0] = k
      BY <1>1, <1>2 DEF IsRun
    <3> QED  BY <1>1, <2>1, <3>1
  <2>2. CASE m # 0 /\ m <= Len(a)
    <3>1. m \in 1 .. Len(s) /\ m \in 0 .. Len(a) /\ m - 1 \in 0 .. Len(s) /\ m - 1 <= Len(a)
      BY <1>1, <2>2
    <3>2. f[m] = Effect(f[m - 1], a[m])
      BY <1>2, <2>2, <3>1 DEF IsRun
    <3>3. both[m] = f[m] /\ both[m - 1] = f[m - 1] /\ s[m] = a[m]
      BY <1>1, <2>2, <3>1
    <3> QED  BY <2>2, <3>2, <3>3
  <2>3. CASE m > Len(a)
    <3>1. /\ m \in 1 .. Len(s) /\ m # 0 /\ ~ (m <= Len(a)) /\ m - 1 \in 0 .. Len(s)
          /\ m - Len(a) \in 0 .. Len(b) /\ m - Len(a) # 0
          /\ (m - Len(a)) - 1 = (m - 1) - Len(a)
      BY <1>1, <2>3
    <3>2. g[m - Len(a)] = Effect(g[(m - Len(a)) - 1], b[m - Len(a)])
      BY <1>3, <3>1 DEF IsRun
    <3>3. both[m] = g[m - Len(a)] /\ s[m] = b[m - Len(a)]
      BY <1>1, <3>1
    <3>4. both[m - 1] = g[(m - 1) - Len(a)]
      <4>1. CASE m - 1 <= Len(a)
        <5>1. m - 1 = Len(a) /\ (m - 1) - Len(a) = 0
          BY <1>1, <2>3, <4>1
        <5>2. g[0] = RunAll(k, a)
          BY <1>1, <1>3 DEF IsRun
        <5>3. both[m - 1] = f[m - 1]
          BY <3>1, <4>1
        <5> QED  BY <1>2, <5>1, <5>2, <5>3
      <4>2. CASE ~ (m - 1 <= Len(a))
        BY <3>1, <4>2
      <4> QED  BY <4>1, <4>2
    <3> QED  BY <3>1, <3>2, <3>3, <3>4
  <2> QED  BY <1>1, <2>1, <2>2, <2>3
<1>6. IsRun(k, s, Len(s), both)
  <2>1. both = next
    BY <1>5
  <2> HIDE DEF both
  <2> QED  BY <2>1 DEF IsRun
<1>7. h[Len(s)] = both[Len(s)]
  <2> HIDE DEF both
  <2> QED  BY <1>1, <1>4, <1>6, RunUnique
<1>8. both[Len(s)] = g[Len(b)]
  <2>1. CASE Len(b) = 0
    <3>1. g[0] = RunAll(k, a)
      BY <1>1, <1>3 DEF IsRun
    <3> QED  BY <1>1, <1>2, <2>1, <3>1
  <2>2. CASE Len(b) # 0
    <3>1. ~ (Len(s) <= Len(a)) /\ Len(s) - Len(a) = Len(b) /\ Len(s) \in 0 .. Len(s)
      BY <1>1, <2>2
    <3> QED  BY <3>1
  <2> QED  BY <2>1, <2>2
<1> QED  BY <1>3, <1>4, <1>7, <1>8 DEF s

\* Of no command, of one and of two.
LEMMA RunNone ==
  ASSUME NEW k
  PROVE  RunAll(k, << >>) = k
<1>1. PICK f : IsRun(k, << >>, Len(<< >>), f) /\ RunAll(k, << >>) = f[Len(<< >>)]
  BY RunIs
<1> QED  BY <1>1 DEF IsRun

LEMMA RunOne ==
  ASSUME NEW k, NEW c
  PROVE  RunAll(k, <<c>>) = Effect(k, c)
<1> DEFINE s == <<c>>
<1>0. Len(s) = 1 /\ s[1] = c
  OBVIOUS
<1> HIDE DEF s
<1>1. PICK f : IsRun(k, s, 1, f) /\ RunAll(k, s) = f[1]
  BY <1>0, RunIs
<1>2. f[0] = k /\ f[1] = Effect(f[1 - 1], s[1]) /\ f[1 - 1] = f[0]
  BY <1>1 DEF IsRun
<1>3. f[1] = Effect(k, c)
  BY <1>0, <1>2
<1> QED  BY <1>1, <1>3 DEF s

LEMMA RunTwo ==
  ASSUME NEW k, NEW o, NEW p
  PROVE  RunAll(k, <<o, p>>) = Effect(Effect(k, o), p)
<1> DEFINE S == {o, p}
           a == <<o>>
           b == <<p>>
           ab == <<o, p>>
<1>1. Len(a) = 1 /\ a[1] = o /\ Len(b) = 1 /\ b[1] = p /\ Len(ab) = 2 /\ ab[1] = o /\ ab[2] = p
  OBVIOUS
<1>2. o \in S /\ p \in S
  OBVIOUS
<1> HIDE DEF S
<1>3. a \in Seq(S) /\ b \in Seq(S) /\ ab \in Seq(S)
  BY <1>2, TwoTyped
<1> HIDE DEF a, b, ab
<1>4. a \o b = ab
  <2>0. /\ a \o b \in Seq(S)
        /\ Len(a \o b) = Len(a) + Len(b)
        /\ \A n \in 1 .. Len(a) + Len(b) :
             (a \o b)[n] = IF n <= Len(a) THEN a[n] ELSE b[n - Len(a)]
    BY <1>3, ConcatProperties
  <2> DEFINE c == a \o b
  <2> HIDE DEF c
  <2>1. c \in Seq(S) /\ Len(c) = 2
    BY <1>1, <2>0 DEF c
  <2>2. c[1] = o /\ c[2] = p
    BY <1>1, <2>0 DEF c
  <2>3. \A n \in 1 .. Len(c) : c[n] = ab[n]
    BY <1>1, <2>1, <2>2
  <2>4. c = ab
    BY <1>1, <1>3, <2>1, <2>3, SeqEqual
  <2> QED  BY <2>4 DEF c
<1>5. RunAll(k, a \o b) = RunAll(RunAll(k, a), b)
  BY <1>3, RunConcat
<1>6. RunAll(k, a) = Effect(k, o)
  BY RunOne DEF a
<1>7. RunAll(Effect(k, o), b) = Effect(Effect(k, o), p)
  BY RunOne DEF b
<1> QED  BY <1>4, <1>5, <1>6, <1>7 DEF ab

-----------------------------------------------------------------------------
(* What the script's commands come to: each pair of them, and so all of    *)
(* them, set a few things to values that do not depend on what is there.   *)

OneRule(k) == \A pref \in Prefs : Len(k.rules[pref]) <= 1

\* A setting: addresses and routes to have, and preferences with their rule.
IsSetting(d) ==
  /\ d.addr \in [Names -> SUBSET Addrs]
  /\ DOMAIN d.rules \subseteq Prefs
  /\ \A pref \in DOMAIN d.rules :
       d.rules[pref] \in Seq(RulesAt(pref)) /\ Len(d.rules[pref]) <= 1

\* What there is of the links and tables that it takes.
Assigned(k, d) ==
  [addr |-> [i \in Names |-> IF i \in k.link THEN k.addr[i] \cup d.addr[i] ELSE k.addr[i]],
   link |-> k.link,
   route |-> k.route \cup (d.route \cap k.link \cap disk.tables),
   rules |-> [pref \in Prefs |->
                IF pref \in DOMAIN d.rules THEN d.rules[pref] ELSE k.rules[pref]]]

\* One setting after another.
Merged(d, e) ==
  [addr |-> [i \in Names |-> d.addr[i] \cup e.addr[i]],
   route |-> d.route \cup e.route,
   rules |-> [pref \in DOMAIN d.rules \cup DOMAIN e.rules |->
                IF pref \in DOMAIN e.rules THEN e.rules[pref] ELSE d.rules[pref]]]

LEMMA AssignedTyped ==
  ASSUME NEW k, KernelOK(k), OneRule(k), NEW d, IsSetting(d)
  PROVE  KernelOK(Assigned(k, d)) /\ OneRule(Assigned(k, d))
<1> DEFINE b == [i \in Names |-> IF i \in k.link THEN k.addr[i] \cup d.addr[i] ELSE k.addr[i]]
           t == k.route \cup (d.route \cap k.link \cap disk.tables)
           r == [pref \in Prefs |->
                   IF pref \in DOMAIN d.rules THEN d.rules[pref] ELSE k.rules[pref]]
<1>1. Assigned(k, d) = [addr |-> b, link |-> k.link, route |-> t, rules |-> r]
  BY DEF Assigned
<1>2. b \in [Names -> SUBSET Addrs] /\ \A i \in Names : b[i] # {} => i \in k.link
  BY DEF KernelOK, IsSetting
<1>3. t \subseteq k.link /\ k.link \subseteq Names
  BY DEF KernelOK
<1>4. DOMAIN r = Prefs /\ r = [pref \in Prefs |-> r[pref]]
  OBVIOUS
<1>5. \A pref \in Prefs : r[pref] \in Seq(RulesAt(pref)) /\ Len(r[pref]) <= 1
  BY DEF KernelOK, IsSetting, OneRule
<1> HIDE DEF b, t, r
<1> QED  BY <1>1, <1>2, <1>3, <1>4, <1>5 DEF KernelOK, OneRule

LEMMA MergedTyped ==
  ASSUME NEW d, IsSetting(d), NEW e, IsSetting(e)
  PROVE  IsSetting(Merged(d, e))
<1> DEFINE b == [i \in Names |-> d.addr[i] \cup e.addr[i]]
           r == [pref \in DOMAIN d.rules \cup DOMAIN e.rules |->
                   IF pref \in DOMAIN e.rules THEN e.rules[pref] ELSE d.rules[pref]]
<1>1. Merged(d, e).addr = b /\ Merged(d, e).rules = r
  BY DEF Merged
<1>2. b \in [Names -> SUBSET Addrs]
  BY DEF IsSetting
<1>3. DOMAIN r \subseteq Prefs
  BY DEF IsSetting
<1>4. \A pref \in DOMAIN r : r[pref] \in Seq(RulesAt(pref)) /\ Len(r[pref]) <= 1
  BY DEF IsSetting
<1> HIDE DEF b, r
<1> QED  BY <1>1, <1>2, <1>3, <1>4 DEF IsSetting

LEMMA AssignedTwice ==
  ASSUME NEW k, KernelOK(k), NEW d, IsSetting(d), NEW e, IsSetting(e)
  PROVE  Assigned(Assigned(k, d), e) = Assigned(k, Merged(d, e))
<1> DEFINE m == Merged(d, e)
           one == Assigned(k, d)
<1>1. /\ m.addr = [i \in Names |-> d.addr[i] \cup e.addr[i]]
      /\ m.route = d.route \cup e.route
      /\ m.rules = [pref \in DOMAIN d.rules \cup DOMAIN e.rules |->
                      IF pref \in DOMAIN e.rules THEN e.rules[pref] ELSE d.rules[pref]]
  BY DEF Merged
<1>2. /\ one.addr = [i \in Names |-> IF i \in k.link THEN k.addr[i] \cup d.addr[i] ELSE k.addr[i]]
      /\ one.link = k.link
      /\ one.route = k.route \cup (d.route \cap k.link \cap disk.tables)
      /\ one.rules = [pref \in Prefs |->
                        IF pref \in DOMAIN d.rules THEN d.rules[pref] ELSE k.rules[pref]]
  BY DEF Assigned
<1> HIDE DEF m, one
<1>3. [i \in Names |-> IF i \in one.link THEN one.addr[i] \cup e.addr[i] ELSE one.addr[i]]
        = [i \in Names |-> IF i \in k.link THEN k.addr[i] \cup m.addr[i] ELSE k.addr[i]]
  <2>1. ASSUME NEW i \in Names
        PROVE  (IF i \in one.link THEN one.addr[i] \cup e.addr[i] ELSE one.addr[i])
                 = (IF i \in k.link THEN k.addr[i] \cup m.addr[i] ELSE k.addr[i])
    <3>1. m.addr[i] = d.addr[i] \cup e.addr[i]
      BY <1>1
    <3>2. one.addr[i] = IF i \in k.link THEN k.addr[i] \cup d.addr[i] ELSE k.addr[i]
      BY <1>2
    <3>3. one.link = k.link
      BY <1>2
    <3> QED  BY <3>1, <3>2, <3>3
  <2> QED  BY <2>1
<1>4. one.route \cup (e.route \cap one.link \cap disk.tables)
        = k.route \cup (m.route \cap k.link \cap disk.tables)
  BY <1>1, <1>2
<1>5. [pref \in Prefs |-> IF pref \in DOMAIN e.rules THEN e.rules[pref] ELSE one.rules[pref]]
        = [pref \in Prefs |-> IF pref \in DOMAIN m.rules THEN m.rules[pref] ELSE k.rules[pref]]
  <2>1. ASSUME NEW pref \in Prefs
        PROVE  (IF pref \in DOMAIN e.rules THEN e.rules[pref] ELSE one.rules[pref])
                 = (IF pref \in DOMAIN m.rules THEN m.rules[pref] ELSE k.rules[pref])
    BY <1>1, <1>2
  <2> QED  BY <2>1
<1> QED  BY <1>2, <1>3, <1>4, <1>5 DEF Assigned, m, one

\* Again the same.
LEMMA AssignedAgain ==
  ASSUME NEW k, KernelOK(k), NEW d, IsSetting(d)
  PROVE  Assigned(Assigned(k, d), d) = Assigned(k, d)
<1> DEFINE m == Merged(d, d)
<1>1. Assigned(Assigned(k, d), d) = Assigned(k, m)
  BY AssignedTwice
<1>2. /\ m.addr = [i \in Names |-> d.addr[i] \cup d.addr[i]]
      /\ m.route = d.route \cup d.route
      /\ m.rules = [pref \in DOMAIN d.rules \cup DOMAIN d.rules |->
                      IF pref \in DOMAIN d.rules THEN d.rules[pref] ELSE d.rules[pref]]
  BY DEF Merged
<1> HIDE DEF m
<1>3. /\ \A i \in Names : m.addr[i] = d.addr[i]
      /\ m.route = d.route /\ DOMAIN m.rules = DOMAIN d.rules
      /\ \A pref \in DOMAIN d.rules : m.rules[pref] = d.rules[pref]
  BY <1>2
<1>4. [i \in Names |-> IF i \in k.link THEN k.addr[i] \cup m.addr[i] ELSE k.addr[i]]
        = [i \in Names |-> IF i \in k.link THEN k.addr[i] \cup d.addr[i] ELSE k.addr[i]]
  BY <1>3
<1>5. [pref \in Prefs |-> IF pref \in DOMAIN m.rules THEN m.rules[pref] ELSE k.rules[pref]]
        = [pref \in Prefs |-> IF pref \in DOMAIN d.rules THEN d.rules[pref] ELSE k.rules[pref]]
  BY <1>3
<1>6. Assigned(k, m) = Assigned(k, d)
  BY <1>3, <1>4, <1>5 DEF Assigned
<1> QED  BY <1>1, <1>6 DEF m

\* The program sets what d says.
Sets(s, d) ==
  /\ IsSetting(d)
  /\ \A k : KernelOK(k) /\ OneRule(k) => RunAll(k, s) = Assigned(k, d)

\* The programs of commands c that set something.
Setting(c) == {s \in Seq(c) : \E d : Sets(s, d)}

LEMMA EmptySets ==
  ASSUME NEW c
  PROVE  << >> \in Setting(c)
<1> DEFINE none == [pref \in {} |-> << >>]
           d == [addr |-> [i \in Names |-> {}], route |-> {}, rules |-> none]
<1>1. IsSetting(d)
  BY DEF IsSetting
<1>2. ASSUME NEW k, KernelOK(k) PROVE Assigned(k, d) = k
  <2>1. Assigned(k, d) = [addr |-> [i \in Names |-> k.addr[i]], link |-> k.link,
                          route |-> k.route, rules |-> [pref \in Prefs |-> k.rules[pref]]]
    <3>1. [i \in Names |-> IF i \in k.link THEN k.addr[i] \cup d.addr[i] ELSE k.addr[i]]
            = [i \in Names |-> k.addr[i]]
      OBVIOUS
    <3>2. k.route \cup (d.route \cap k.link \cap disk.tables) = k.route
      OBVIOUS
    <3>3. [pref \in Prefs |-> IF pref \in DOMAIN d.rules THEN d.rules[pref] ELSE k.rules[pref]]
            = [pref \in Prefs |-> k.rules[pref]]
      OBVIOUS
    <3> HIDE DEF d
    <3> QED  BY <3>1, <3>2, <3>3 DEF Assigned
  <2>2. k.addr = [i \in Names |-> k.addr[i]]
    BY <1>2 DEF KernelOK
  <2> HIDE DEF d
  <2> QED  BY <1>2, <2>1, <2>2 DEF KernelOK
<1> HIDE DEF d
<1>3. Sets(<< >>, d)
  BY <1>1, <1>2, RunNone DEF Sets
<1> QED  BY <1>3 DEF Setting

LEMMA ConcatSets ==
  ASSUME NEW c, NEW a \in Setting(c), NEW b \in Setting(c)
  PROVE  a \o b \in Setting(c)
<1>1. PICK d : Sets(a, d)
  BY DEF Setting
<1>2. PICK e : Sets(b, e)
  BY DEF Setting
<1>3. a \in Seq(c) /\ b \in Seq(c) /\ IsSetting(d) /\ IsSetting(e)
  BY <1>1, <1>2 DEF Setting, Sets
<1>4. ASSUME NEW k, KernelOK(k), OneRule(k)
      PROVE  RunAll(k, a \o b) = Assigned(k, Merged(d, e))
  <2>1. RunAll(k, a) = Assigned(k, d)
    BY <1>1, <1>4 DEF Sets
  <2>2. KernelOK(Assigned(k, d)) /\ OneRule(Assigned(k, d))
    BY <1>3, <1>4, AssignedTyped
  <2>3. RunAll(Assigned(k, d), b) = Assigned(Assigned(k, d), e)
    BY <1>2, <2>2 DEF Sets
  <2>4. RunAll(k, a \o b) = RunAll(RunAll(k, a), b)
    BY <1>3, RunConcat
  <2>5. Assigned(Assigned(k, d), e) = Assigned(k, Merged(d, e))
    BY <1>3, <1>4, AssignedTwice
  <2> QED  BY <2>1, <2>3, <2>4, <2>5
<1>5. Sets(a \o b, Merged(d, e))
  BY <1>3, <1>4, MergedTyped DEF Sets
<1>6. a \o b \in Seq(c)
  BY <1>3, ConcatTyped
<1> QED  BY <1>5, <1>6 DEF Setting

LEMMA SetsAgain ==
  ASSUME NEW c, NEW s \in Setting(c), NEW k, KernelOK(k), OneRule(k)
  PROVE  RunAll(RunAll(k, s), s) = RunAll(k, s)
<1>1. PICK d : Sets(s, d)
  BY DEF Setting
<1>2. RunAll(k, s) = Assigned(k, d) /\ IsSetting(d)
  BY <1>1 DEF Sets
<1>3. KernelOK(Assigned(k, d)) /\ OneRule(Assigned(k, d))
  BY <1>2, AssignedTyped
<1>4. RunAll(Assigned(k, d), s) = Assigned(Assigned(k, d), d)
  BY <1>1, <1>3 DEF Sets
<1> QED  BY <1>2, <1>4, AssignedAgain

\* The address of an interface that is there is set, ...
LEMMA AddressSets ==
  ASSUME NEW i \in Names, NEW a \in Addrs
  PROVE  \E d : Sets(ResetAddress(i, a), d)
<1> DEFINE del == Op("addr del", i, a)
           add == Op("addr add", i, a)
           none == [pref \in {} |-> << >>]
           b == [j \in Names |-> IF j = i THEN {a} ELSE {}]
           d == [addr |-> b, route |-> {}, rules |-> none]
<1>1. IsSetting(d)
  BY DEF IsSetting
<1>2. ASSUME NEW k PROVE RunAll(k, ResetAddress(i, a)) = AddrAdd(AddrDel(k, i, a), i, a)
  <2>1. \A j : Effect(j, del) = AddrDel(j, i, a) /\ Effect(j, add) = AddrAdd(j, i, a)
    BY DEF Effect, Op
  <2> HIDE DEF del, add
  <2>2. RunAll(k, <<del, add>>) = Effect(Effect(k, del), add)
    <3>1. PICK x, y : x = del /\ y = add
      OBVIOUS
    <3>2. RunAll(k, <<x, y>>) = Effect(Effect(k, x), y)
      BY RunTwo
    <3> QED  BY <3>1, <3>2
  <2>3. RunAll(k, <<del, add>>) = AddrAdd(AddrDel(k, i, a), i, a)
    BY <2>1, <2>2
  <2> QED  BY <2>3 DEF ResetAddress, del, add
<1>3. ASSUME NEW k, KernelOK(k) PROVE AddrAdd(AddrDel(k, i, a), i, a) = Assigned(k, d)
  <2> DEFINE c == [j \in Names |-> IF j \in k.link THEN k.addr[j] \cup d.addr[j] ELSE k.addr[j]]
             less == [k.addr EXCEPT ![i] = @ \ {a}]
  <2>1. Assigned(k, d) = [addr |-> c, link |-> k.link, route |-> k.route, rules |-> k.rules]
    <3>1. k.route \cup (d.route \cap k.link \cap disk.tables) = k.route
      OBVIOUS
    <3>2. [pref \in Prefs |-> IF pref \in DOMAIN d.rules THEN d.rules[pref] ELSE k.rules[pref]]
            = [pref \in Prefs |-> k.rules[pref]]
      OBVIOUS
    <3>3. [pref \in Prefs |-> k.rules[pref]] = k.rules
      BY <1>3 DEF KernelOK
    <3> HIDE DEF d
    <3> QED  BY <3>1, <3>2, <3>3 DEF Assigned
  <2>2. AddrDel(k, i, a) = [addr |-> less, link |-> k.link, route |-> k.route, rules |-> k.rules]
    <3>1. k = [addr |-> k.addr, link |-> k.link, route |-> k.route, rules |-> k.rules]
      BY <1>3 DEF KernelOK
    <3> QED  BY <3>1 DEF AddrDel
  <2>3. k.addr \in [Names -> SUBSET Addrs] /\ \A j \in Names : k.addr[j] # {} => j \in k.link
    BY <1>3 DEF KernelOK
  <2>4. CASE i \in k.link
    <3> DEFINE more == [less EXCEPT ![i] = @ \cup {a}]
    <3>1. AddrAdd(AddrDel(k, i, a), i, a)
            = [addr |-> more, link |-> k.link, route |-> k.route, rules |-> k.rules]
      <4> HIDE DEF less
      <4> QED  BY <2>2, <2>4 DEF AddrAdd
    <3>2. ASSUME NEW j \in Names PROVE more[j] = c[j]
      BY <2>3, <2>4
    <3>3. DOMAIN more = Names /\ more = [j \in Names |-> more[j]]
      BY <2>3
    <3>4. more = c
      <4> HIDE DEF more, d
      <4> QED  BY <3>2, <3>3
    <3> QED  BY <2>1, <3>1, <3>4
  <2>5. CASE i \notin k.link
    <3>1. AddrAdd(AddrDel(k, i, a), i, a)
            = [addr |-> less, link |-> k.link, route |-> k.route, rules |-> k.rules]
      <4> HIDE DEF less
      <4> QED  BY <2>2, <2>5 DEF AddrAdd
    <3>2. ASSUME NEW j \in Names PROVE less[j] = c[j]
      BY <2>3, <2>5
    <3>3. DOMAIN less = Names /\ less = [j \in Names |-> less[j]]
      BY <2>3
    <3>4. less = c
      <4> HIDE DEF less, d
      <4> QED  BY <3>2, <3>3
    <3> QED  BY <2>1, <3>1, <3>4
  <2> QED  BY <2>4, <2>5
<1> HIDE DEF d
<1> QED  BY <1>1, <1>2, <1>3 DEF Sets

\* ... its route, ...
LEMMA RouteSets ==
  ASSUME NEW i \in Names
  PROVE  \E d : Sets(<<Do("route replace", i)>>, d)
<1> DEFINE o == Do("route replace", i)
           none == [pref \in {} |-> << >>]
           d == [addr |-> [j \in Names |-> {}], route |-> {i}, rules |-> none]
<1>1. IsSetting(d)
  BY DEF IsSetting
<1>2. ASSUME NEW k PROVE RunAll(k, <<o>>) = RouteReplace(k, i)
  <2>1. Effect(k, o) = RouteReplace(k, i)
    BY DEF Effect, Do, Op
  <2> HIDE DEF o
  <2> QED  BY <2>1, RunOne
<1>3. ASSUME NEW k, KernelOK(k) PROVE RouteReplace(k, i) = Assigned(k, d)
  <2>1. Assigned(k, d) = [addr |-> k.addr, link |-> k.link,
                          route |-> k.route \cup ({i} \cap k.link \cap disk.tables),
                          rules |-> k.rules]
    <3>1. [j \in Names |-> IF j \in k.link THEN k.addr[j] \cup d.addr[j] ELSE k.addr[j]]
            = [j \in Names |-> k.addr[j]]
      OBVIOUS
    <3>2. [pref \in Prefs |-> IF pref \in DOMAIN d.rules THEN d.rules[pref] ELSE k.rules[pref]]
            = [pref \in Prefs |-> k.rules[pref]]
      OBVIOUS
    <3>3. [pref \in Prefs |-> k.rules[pref]] = k.rules /\ [j \in Names |-> k.addr[j]] = k.addr
      BY <1>3 DEF KernelOK
    <3>4. d.route = {i}
      OBVIOUS
    <3> HIDE DEF d
    <3> QED  BY <3>1, <3>2, <3>3, <3>4 DEF Assigned
  <2>2. CASE i \in k.link \cap disk.tables
    <3>1. RouteReplace(k, i) = [addr |-> k.addr, link |-> k.link, route |-> k.route \cup {i},
                                rules |-> k.rules]
      BY <1>3, <2>2 DEF RouteReplace, KernelOK
    <3>2. {i} \cap k.link \cap disk.tables = {i}
      BY <2>2
    <3> QED  BY <2>1, <3>1, <3>2
  <2>3. CASE i \notin k.link \cap disk.tables
    <3>1. RouteReplace(k, i) = [addr |-> k.addr, link |-> k.link, route |-> k.route,
                                rules |-> k.rules]
      BY <1>3, <2>3 DEF RouteReplace, KernelOK
    <3>2. k.route \cup ({i} \cap k.link \cap disk.tables) = k.route
      BY <2>3
    <3> QED  BY <2>1, <3>1, <3>2
  <2> QED  BY <2>2, <2>3
<1> HIDE DEF d
<1>4. Sets(<<o>>, d)
  BY <1>1, <1>2, <1>3 DEF Sets
<1> QED  BY <1>4

\* ... and the rule of a preference that had no more than one.
LEMMA RuleSets ==
  ASSUME NEW i, NEW pref \in Prefs, NEW rule \in RulesAt(pref)
  PROVE  \E d : Sets(ResetRule(pref, i, rule), d)
<1> DEFINE del == Op("rule del", i, pref)
           add == Op("rule add", i, [pref |-> pref, rule |-> rule])
           only == IF rule.table \in disk.tables \cup {None} THEN <<rule>> ELSE << >>
           d == [addr |-> [j \in Names |-> {}], route |-> {}, rules |-> [q \in {pref} |-> only]]
<1>1. IsSetting(d)
  <2>1. only \in Seq(RulesAt(pref)) /\ Len(only) <= 1
    BY TwoTyped, EmptySeq
  <2> HIDE DEF only
  <2> QED  BY <2>1 DEF IsSetting
<1>2. ASSUME NEW k PROVE RunAll(k, ResetRule(pref, i, rule)) = RuleAdd(RuleDel(k, pref), pref, rule)
  <2>1. \A j : Effect(j, del) = RuleDel(j, pref) /\ Effect(j, add) = RuleAdd(j, pref, rule)
    BY DEF Effect, Op
  <2> HIDE DEF del, add
  <2>2. RunAll(k, <<del, add>>) = Effect(Effect(k, del), add)
    <3>1. PICK x, y : x = del /\ y = add
      OBVIOUS
    <3>2. RunAll(k, <<x, y>>) = Effect(Effect(k, x), y)
      BY RunTwo
    <3> QED  BY <3>1, <3>2
  <2>3. RunAll(k, <<del, add>>) = RuleAdd(RuleDel(k, pref), pref, rule)
    BY <2>1, <2>2
  <2> QED  BY <2>3 DEF ResetRule, del, add
<1>3. ASSUME NEW k, KernelOK(k), OneRule(k)
      PROVE  RuleAdd(RuleDel(k, pref), pref, rule) = Assigned(k, d)
  <2> DEFINE gone == [k.rules EXCEPT ![pref] = << >>]
             set == [k.rules EXCEPT ![pref] = only]
  <2>1. Assigned(k, d) = [addr |-> k.addr, link |-> k.link, route |-> k.route, rules |-> set]
    <3>1. [j \in Names |-> IF j \in k.link THEN k.addr[j] \cup d.addr[j] ELSE k.addr[j]]
            = [j \in Names |-> k.addr[j]]
      OBVIOUS
    <3>2. [q \in Prefs |-> IF q \in DOMAIN d.rules THEN d.rules[q] ELSE k.rules[q]] = set
      <4>1. k.rules = [q \in Prefs |-> k.rules[q]]
        BY <1>3 DEF KernelOK
      <4>2. DOMAIN d.rules = {pref} /\ d.rules[pref] = only
        OBVIOUS
      <4> HIDE DEF d, only
      <4> QED  BY <4>1, <4>2
    <3>3. [j \in Names |-> k.addr[j]] = k.addr
      BY <1>3 DEF KernelOK
    <3>4. k.route \cup (d.route \cap k.link \cap disk.tables) = k.route
      OBVIOUS
    <3> HIDE DEF d, set
    <3> QED  BY <3>1, <3>2, <3>3, <3>4 DEF Assigned
  <2>2. /\ k.rules = [q \in Prefs |-> k.rules[q]]
        /\ k.rules[pref] \in Seq(RulesAt(pref)) /\ Len(k.rules[pref]) <= 1
        /\ k = [addr |-> k.addr, link |-> k.link, route |-> k.route, rules |-> k.rules]
    BY <1>3 DEF KernelOK, OneRule
  <2>3. RuleDel(k, pref) = [addr |-> k.addr, link |-> k.link, route |-> k.route, rules |-> gone]
    <3>1. CASE k.rules[pref] = << >>
      <4>1. gone = k.rules
        BY <2>2, <3>1
      <4> QED  BY <2>2, <3>1, <4>1 DEF RuleDel
    <3>2. CASE k.rules[pref] # << >>
      <4>1. Tail(k.rules[pref]) = << >>
        <5>1. /\ Tail(k.rules[pref]) \in Seq(RulesAt(pref))
              /\ Len(Tail(k.rules[pref])) = Len(k.rules[pref]) - 1
          BY <2>2, <3>2, HeadTailProperties
        <5>2. Len(k.rules[pref]) \in Nat /\ Len(k.rules[pref]) # 0
          BY <2>2, <3>2, EmptySeq
        <5>3. Len(Tail(k.rules[pref])) = 0
          <6>1. \A n \in Nat : n <= 1 /\ n # 0 => n - 1 = 0
            OBVIOUS
          <6> QED  BY <2>2, <5>1, <5>2, <6>1
        <5> QED  BY <5>1, <5>3, EmptySeq
      <4>2. RuleDel(k, pref) = [k EXCEPT !.rules[pref] = Tail(k.rules[pref])]
        BY <3>2 DEF RuleDel
      <4> QED  BY <2>2, <4>1, <4>2
    <3> QED  BY <3>1, <3>2
  <2>4. gone[pref] = << >> /\ Range(gone[pref]) = {}
    BY <2>2 DEF Range
  <2>5. CASE rule.table \in disk.tables \cup {None}
    <3> DEFINE more == [gone EXCEPT ![pref] = Append(@, rule)]
    <3>1. more = [k.rules EXCEPT ![pref] = <<rule>>]
      <4>1. Append(<< >>, rule) = <<rule>>
        OBVIOUS
      <4>2. more = [gone EXCEPT ![pref] = <<rule>>]
        <5> HIDE DEF gone
        <5> QED  BY <2>4, <4>1
      <4>3. [gone EXCEPT ![pref] = <<rule>>] = [k.rules EXCEPT ![pref] = <<rule>>]
        BY <2>2
      <4> QED  BY <4>2, <4>3
    <3>2. RuleAdd(RuleDel(k, pref), pref, rule)
            = [addr |-> k.addr, link |-> k.link, route |-> k.route, rules |-> more]
      <4> HIDE DEF gone
      <4> QED  BY <2>3, <2>4, <2>5 DEF RuleAdd
    <3> QED  BY <2>1, <2>5, <3>1, <3>2
  <2>6. CASE rule.table \notin disk.tables \cup {None}
    <3>1. RuleAdd(RuleDel(k, pref), pref, rule) = RuleDel(k, pref)
      BY <2>6 DEF RuleAdd
    <3>2. gone = set
      BY <2>6
    <3> QED  BY <2>1, <2>3, <3>1, <3>2
  <2> QED  BY <2>5, <2>6
<1> HIDE DEF d
<1> QED  BY <1>1, <1>2, <1>3 DEF Sets

\* So does all that the script has for an interface, ...
LEMMA PlanSets ==
  ASSUME NEW i \in Names, NEW plan \in Plans, NEW c, OpsOn(i) \subseteq c
  PROVE  /\ AddressCommands(i, plan) \in Setting(c)
         /\ RouteCommands(i, plan) \in Setting(c)
         /\ RuleCommands(i, plan) \in Setting(c)
<1>1. /\ plan.addr = None \/ plan.addr \in Addrs
      /\ plan.uids \in Seq(Uids)
  BY DEF Plans
<1>2. /\ AddressCommands(i, plan) \in Seq(c)
      /\ RouteCommands(i, plan) \in Seq(c)
  BY PlanTyped, SeqsGrow
<1>3. AddressCommands(i, plan) \in Setting(c)
  <2>1. CASE plan.addr = None
    BY <2>1, EmptySets DEF AddressCommands
  <2>2. CASE plan.addr # None
    <3>1. AddressCommands(i, plan) = ResetAddress(i, plan.addr)
      BY <2>2 DEF AddressCommands
    <3>2. \E d : Sets(ResetAddress(i, plan.addr), d)
      BY <1>1, <2>2, AddressSets
    <3> QED  BY <1>2, <3>1, <3>2 DEF Setting
  <2> QED  BY <2>1, <2>2
<1>4. RouteCommands(i, plan) \in Setting(c)
  <2>1. CASE ~ plan.routed
    BY <2>1, EmptySets DEF RouteCommands
  <2>2. CASE plan.routed
    <3>1. RouteCommands(i, plan) = <<Do("route replace", i)>>
      BY <2>2 DEF RouteCommands
    <3>2. \E d : Sets(RouteCommands(i, plan), d)
      BY <3>1, RouteSets
    <3> QED  BY <1>2, <3>2 DEF Setting
  <2> QED  BY <2>1, <2>2
<1>5. ASSUME NEW a \in Addrs PROVE ResetRule(FromPref(i), i, FromRule(i, a)) \in Setting(c)
  <2>1. ResetRule(FromPref(i), i, FromRule(i, a)) \in Seq(c)
    BY ResetRuleTyped, SeqsGrow
  <2>2. \E d : Sets(ResetRule(FromPref(i), i, FromRule(i, a)), d)
    BY PrefsOfRules, RuleSets
  <2> QED  BY <2>1, <2>2 DEF Setting
<1>6. ASSUME NEW u \in Uids PROVE ResetRule(UidPref(i), i, UidRule(i, u)) \in Setting(c)
  <2>1. ResetRule(UidPref(i), i, UidRule(i, u)) \in Seq(c)
    BY ResetRuleTyped, SeqsGrow
  <2>2. \E d : Sets(ResetRule(UidPref(i), i, UidRule(i, u)), d)
    BY PrefsOfRules, RuleSets
  <2> QED  BY <2>1, <2>2 DEF Setting
<1>7. RuleCommands(i, plan) \in Setting(c)
  <2> DEFINE seqs == [n \in DOMAIN plan.uids |-> ResetRule(UidPref(i), i, UidRule(i, plan.uids[n]))]
             from == IF plan.addr = None THEN <<>>
                     ELSE ResetRule(FromPref(i), i, FromRule(i, plan.addr))
  <2>1. \A n \in 1 .. Len(plan.uids) : plan.uids[n] \in Uids
    BY <1>1
  <2>2. \A n \in 1 .. Len(plan.uids) :
          ResetRule(UidPref(i), i, UidRule(i, plan.uids[n])) \in Setting(c)
    BY <1>6, <2>1
  <2>3. DOMAIN plan.uids = 1 .. Len(plan.uids) /\ Len(plan.uids) \in Nat
    BY <1>1
  <2>4. seqs \in Seq(Setting(c))
    BY <2>2, <2>3
  <2>5. from \in Setting(c)
    BY <1>1, <1>5, EmptySets
  <2> HIDE DEF seqs, from
  <2>6. FlattenSeq(seqs) \in Setting(c)
    BY <2>4, FlattenClosed, EmptySets, ConcatSets
  <2>7. from \o FlattenSeq(seqs) \in Setting(c)
    BY <2>5, <2>6, ConcatSets
  <2> QED  BY <2>7 DEF RuleCommands, from, seqs
<1> QED  BY <1>3, <1>4, <1>7

\* ... and the whole of it.
LEMMA ApplyScriptSets ==
  ASSUME NEW content, IsScript(content), NEW args
  PROVE  ApplyScript(content, args) \in Setting(OpsOf(Admin))
<1> DEFINE wanted == args \cap DOMAIN content
           S == Setting(OpsOf(Admin))
           adding == [i \in wanted |-> AddressCommands(i, content[i])]
           routing == [i \in wanted |-> RouteCommands(i, content[i])]
           ruling == [i \in wanted |-> RuleCommands(i, content[i])]
           guard == ResetRule(GuardPref, None, Prohibit)
<1>0. Admin \in Processes
  BY DEF Processes
<1>1. ASSUME NEW i \in wanted
      PROVE  adding[i] \in S /\ routing[i] \in S /\ ruling[i] \in S
  <2>1. i \in Names /\ content[i] \in Plans
    BY DEF IsScript
  <2>2. OpsOn(i) \subseteq OpsOf(Admin)
    BY <1>0, <2>1, OpsOnAreOpsOf
  <2> QED  BY <2>1, <2>2, PlanSets
<1>2. guard \in S
  <2>1. GuardDel \in OpsOf(Admin) /\ GuardAdd \in OpsOf(Admin)
    BY DEF OpsOf, CommonOps
  <2>2. guard \in Seq(OpsOf(Admin))
    BY <2>1, TwoTyped DEF ResetRule, GuardDel, GuardAdd
  <2>3. GuardPref \in Prefs /\ Prohibit \in RulesAt(GuardPref)
    BY DEF Prefs, RulesAt
  <2>4. \E d : Sets(guard, d)
    BY <2>3, RuleSets
  <2> QED  BY <2>2, <2>4 DEF Setting
<1>3. << >> \in S /\ \A a, b \in S : a \o b \in S
  BY EmptySets, ConcatSets
<1>4. DOMAIN adding = wanted /\ DOMAIN routing = wanted /\ DOMAIN ruling = wanted
  OBVIOUS
<1> HIDE DEF S, adding, routing, ruling, guard
<1>5. ForEach(adding) \in S
  BY <1>1, <1>3, <1>4, ForEachClosed
<1>6. ForEach(routing) \in S
  BY <1>1, <1>3, <1>4, ForEachClosed
<1>7. ForEach(ruling) \in S
  BY <1>1, <1>3, <1>4, ForEachClosed
<1>8. ForEach(adding) \o ForEach(routing) \o ForEach(ruling) \o guard \in S
  BY <1>2, <1>3, <1>5, <1>6, <1>7
<1> QED  BY <1>8 DEF ApplyScript, S, adding, routing, ruling, guard

\* Running the script again on what it has made changes nothing: every pair
\* of its commands sets something to a value that does not depend on what is
\* there, so long as no preference holds a second rule, and what is set twice
\* in it is set the same way the second time (apply_ip_state.sh,
\* _render_composite_script).
THEOREM ApplyTwiceIsOnce == Spec => []ApplyIsIdempotent
<1>1. HostInv => ApplyIsIdempotent
  <2>1. SUFFICES ASSUME HostInv, disk.script # None, OneRule(kernel), NEW ifs
                 PROVE  RunAll(RunAll(kernel, ApplyScript(disk.script, ifs)),
                               ApplyScript(disk.script, ifs))
                          = RunAll(kernel, ApplyScript(disk.script, ifs))
    BY DEF ApplyIsIdempotent, OneRule
  <2>2. KernelOK(kernel) /\ IsScript(disk.script)
    BY <2>1 DEF HostInv, DiskOK
  <2>3. ApplyScript(disk.script, ifs) \in Setting(OpsOf(Admin))
    BY <2>2, ApplyScriptSets
  <2> QED  BY <2>1, <2>2, <2>3, SetsAgain
<1> QED  BY <1>1, HostInvariant, PTL DEF Spec

-----------------------------------------------------------------------------
(* At the boot: every enabled unit is started by a process of its own, and *)
(* the script each runs deletes the prohibit before it adds it.  What the  *)
(* installed script says of an interface holds, or a command that makes it *)
(* hold is still to come in some queue: a deletion has its addition behind *)
(* it in the same queue.                                                   *)

\* A command of B is in the queue; every one of A has one of B behind it.
Has(q, B) == \E n \in 1 .. Len(q) : q[n] \in B
Followed(q, A, B) ==
  \A n \in 1 .. Len(q) : q[n] \in A => \E m \in n + 1 .. Len(q) : q[m] \in B

-----------------------------------------------------------------------------
(* What a script says of an interface, taken apart: the commands that do   *)
(* each part and those that undo it.                                       *)

ScriptNames == {"addr del", "addr add", "route replace", "rule del", "rule add"}

Wanted(plan) ==
  {"guard"} \cup (IF plan.addr = None THEN {} ELSE {"address", "source"})
            \cup (IF plan.routed THEN {"route"} ELSE {})
            \cup (IF plan.uids = <<>> THEN {} ELSE {"users"})

Does(part, i, plan) ==
  CASE part = "address" -> {Op("addr add", i, plan.addr)}
    [] part = "source"  -> {FromAdd(i, plan.addr)}
    [] part = "route"   -> {Do("route replace", i)}
    [] part = "users"   -> {UidAdd(i, u) : u \in Uids}
    [] part = "guard"   -> {GuardAdd}

Undoes(part, i, plan) ==
  CASE part = "address" -> {Op("addr del", i, plan.addr)}
    [] part = "source"  -> {DelRule(i, FromPref(i))}
    [] part = "route"   -> {}
    [] part = "users"   -> {DelRule(i, UidPref(i))}
    [] part = "guard"   -> {GuardDel}

Holds(k, part, i, plan) ==
  CASE part = "address" -> plan.addr \in k.addr[i]
    [] part = "source"  -> FromRule(i, plan.addr) \in Range(k.rules[FromPref(i)])
    [] part = "route"   -> i \in k.route
    [] part = "users"   -> k.rules[UidPref(i)] # <<>>
    [] part = "guard"   -> Prohibit \in Range(k.rules[GuardPref])

\* A part holds or is still to be done.
Due(part, i) ==
  \/ Holds(kernel, part, i, disk.script[i])
  \/ \E p \in Processes : Has(todo[p], Does(part, i, disk.script[i]))

AllDue(i) == \A part \in Wanted(disk.script[i]) : Due(part, i)

\* What is undone is done again.
Redone(q) ==
  \A i \in DOMAIN disk.script : \A part \in Wanted(disk.script[i]) :
    Followed(q, Undoes(part, i, disk.script[i]), Does(part, i, disk.script[i]))

\* A unit comes up: its link is still to be made, or its script to be run, or
\* its script is under way.
BootNames == ScriptNames \cup {"systemctl start", "wg-quick up", "post", "started"}

OneCommand(i, name) == todo[i] = <<Do(name, i)>>

Coming(i) ==
  \/ i \notin kernel.link /\ unit[i] = "inactive" /\ OneCommand(i, "systemctl start")
  \/ i \notin kernel.link /\ OneCommand(i, "wg-quick up")
  \/ i \in kernel.link /\ OneCommand(i, "post")

SettingUp(i) ==
  /\ i \in kernel.link
  /\ \A n \in 1 .. Len(todo[i]) : todo[i][n].op \in ScriptNames \cup {"started"}
  /\ unit[i] = "active" \/ Has(todo[i], {Do("started", i)})
  /\ i \in disk.dropin \cap disk.tables \cap DOMAIN disk.script => AllDue(i)

Booting ==
  /\ todo[Admin] = <<>>
  /\ loaded = disk.dropin
  /\ \A p \in Names : /\ p \notin enabled => todo[p] = <<>>
                      /\ \A n \in 1 .. Len(todo[p]) : todo[p][n].op \in BootNames
  /\ disk.script # None => /\ \A p \in Processes : Redone(todo[p])
                           /\ \A i \in enabled : Coming(i) \/ SettingUp(i)

BootInv == last.what = "boot" /\ alone => Booting

FollowedSeqs(S, A, B) == {s \in Seq(S) : Followed(s, A, B)}

LEMMA HasConcat ==
  ASSUME NEW S, NEW a \in Seq(S), NEW b \in Seq(S), NEW B
  PROVE  Has(a \o b, B) <=> Has(a, B) \/ Has(b, B)
<1> DEFINE c == a \o b
<1>1. /\ Len(c) = Len(a) + Len(b) /\ Len(a) \in Nat /\ Len(b) \in Nat
      /\ \A n \in 1 .. Len(a) : c[n] = a[n]
      /\ \A n \in 1 .. Len(b) : c[Len(a) + n] = b[n]
  OBVIOUS
<1> HIDE DEF c
<1>2. ASSUME NEW n \in 1 .. Len(c), c[n] \in B PROVE Has(a, B) \/ Has(b, B)
  <2>1. CASE n <= Len(a)
    BY <1>1, <1>2, <2>1 DEF Has
  <2>2. CASE n > Len(a)
    <3>1. n - Len(a) \in 1 .. Len(b) /\ Len(a) + (n - Len(a)) = n
      BY <1>1, <2>2
    <3>2. c[n] = b[n - Len(a)]
      BY <1>1, <3>1
    <3> QED  BY <1>2, <3>1, <3>2 DEF Has
  <2> QED  BY <1>1, <2>1, <2>2
<1>3. ASSUME NEW n \in 1 .. Len(a), a[n] \in B PROVE Has(c, B)
  BY <1>1, <1>3 DEF Has
<1>4. ASSUME NEW n \in 1 .. Len(b), b[n] \in B PROVE Has(c, B)
  <2>1. Len(a) + n \in 1 .. Len(c)
    BY <1>1
  <2> QED  BY <1>1, <1>4, <2>1 DEF Has
<1>5. Has(c, B) => Has(a, B) \/ Has(b, B)
  BY <1>2 DEF Has
<1>6. Has(a, B) \/ Has(b, B) => Has(c, B)
  <2>1. Has(a, B) => Has(c, B)
    <3>1. SUFFICES ASSUME NEW n \in 1 .. Len(a), a[n] \in B PROVE Has(c, B)
      BY DEF Has
    <3> QED  BY <1>3, <3>1
  <2>2. Has(b, B) => Has(c, B)
    <3>1. SUFFICES ASSUME NEW n \in 1 .. Len(b), b[n] \in B PROVE Has(c, B)
      BY DEF Has
    <3> QED  BY <1>4, <3>1
  <2> QED  BY <2>1, <2>2
<1> QED  BY <1>5, <1>6 DEF c

LEMMA FollowedConcat ==
  ASSUME NEW S, NEW A, NEW B
  PROVE  /\ <<>> \in FollowedSeqs(S, A, B)
         /\ \A a, b \in FollowedSeqs(S, A, B) : a \o b \in FollowedSeqs(S, A, B)
<1>1. <<>> \in FollowedSeqs(S, A, B)
  <2>1. <<>> \in Seq(S) /\ Len(<<>>) = 0
    OBVIOUS
  <2>2. 1 .. 0 = {}
    OBVIOUS
  <2> QED  BY <2>1, <2>2 DEF FollowedSeqs, Followed
<1>2. ASSUME NEW a \in FollowedSeqs(S, A, B), NEW b \in FollowedSeqs(S, A, B)
      PROVE  a \o b \in FollowedSeqs(S, A, B)
  <2> DEFINE c == a \o b
  <2>0. a \in Seq(S) /\ b \in Seq(S) /\ Followed(a, A, B) /\ Followed(b, A, B)
    BY DEF FollowedSeqs
  <2>1. /\ c \in Seq(S) /\ Len(c) = Len(a) + Len(b) /\ Len(a) \in Nat /\ Len(b) \in Nat
        /\ \A n \in 1 .. Len(a) : c[n] = a[n]
        /\ \A n \in 1 .. Len(b) : c[Len(a) + n] = b[n]
    BY <2>0
  <2> HIDE DEF c
  <2>2. ASSUME NEW n \in 1 .. Len(c), c[n] \in A PROVE \E m \in n + 1 .. Len(c) : c[m] \in B
    <3>1. CASE n <= Len(a)
      <4>1. n \in 1 .. Len(a) /\ a[n] \in A
        BY <2>1, <2>2, <3>1
      <4>2. PICK m \in n + 1 .. Len(a) : a[m] \in B
        BY <2>0, <4>1 DEF Followed
      <4>3. m \in n + 1 .. Len(c) /\ m \in 1 .. Len(a)
        BY <2>1, <4>1
      <4> QED  BY <2>1, <4>2, <4>3
    <3>2. CASE n > Len(a)
      <4> DEFINE k == n - Len(a)
      <4>1. k \in 1 .. Len(b) /\ Len(a) + k = n
        BY <2>1, <3>2
      <4>2. b[k] \in A
        BY <2>1, <2>2, <4>1
      <4>3. PICK m \in k + 1 .. Len(b) : b[m] \in B
        BY <2>0, <4>1, <4>2 DEF Followed
      <4>4. Len(a) + m \in n + 1 .. Len(c) /\ m \in 1 .. Len(b)
        BY <2>1, <4>1
      <4> QED  BY <2>1, <4>3, <4>4
    <3> QED  BY <2>1, <3>1, <3>2
  <2> QED  BY <2>1, <2>2 DEF FollowedSeqs, Followed, c
<1> QED  BY <1>1, <1>2

LEMMA TailFollows ==
  ASSUME NEW S, NEW s \in Seq(S), s # <<>>, NEW A, NEW B
  PROVE  /\ Has(s, B) <=> Head(s) \in B \/ Has(Tail(s), B)
         /\ Followed(s, A, B) => /\ Followed(Tail(s), A, B)
                                 /\ Head(s) \in A => Has(Tail(s), B)
<1> DEFINE t == Tail(s)
<1>1. /\ t \in Seq(S) /\ Len(t) = Len(s) - 1 /\ Len(s) \in Nat \ {0}
      /\ \A n \in 1 .. Len(t) : t[n] = s[n + 1]
      /\ Head(s) = s[1]
  BY HeadTailProperties
<1> HIDE DEF t
<1>2. Has(t, B) => Has(s, B)
  <2>1. SUFFICES ASSUME NEW n \in 1 .. Len(t), t[n] \in B PROVE Has(s, B)
    BY DEF Has
  <2>2. n + 1 \in 1 .. Len(s)
    BY <1>1
  <2> QED  BY <1>1, <2>1, <2>2 DEF Has
<1>3. s[1] \in B => Has(s, B)
  <2>1. 1 \in 1 .. Len(s)
    BY <1>1
  <2> QED  BY <2>1 DEF Has
<1>4. ASSUME NEW n \in 2 .. Len(s) PROVE n - 1 \in 1 .. Len(t) /\ t[n - 1] = s[n]
  <2>1. n - 1 \in 1 .. Len(t) /\ (n - 1) + 1 = n
    BY <1>1
  <2>2. t[n - 1] = s[(n - 1) + 1]
    BY <1>1, <2>1
  <2> QED  BY <2>1, <2>2
<1>5. Has(s, B) => s[1] \in B \/ Has(t, B)
  <2>1. SUFFICES ASSUME NEW n \in 1 .. Len(s), s[n] \in B, n # 1 PROVE Has(t, B)
    BY DEF Has
  <2>2. n \in 2 .. Len(s)
    BY <1>1, <2>1
  <2> QED  BY <1>4, <2>1, <2>2 DEF Has
<1>6. ASSUME Followed(s, A, B) PROVE Followed(t, A, B)
  <2>1. SUFFICES ASSUME NEW n \in 1 .. Len(t), t[n] \in A
                 PROVE  \E m \in n + 1 .. Len(t) : t[m] \in B
    BY DEF Followed
  <2>2. n + 1 \in 1 .. Len(s) /\ s[n + 1] \in A
    BY <1>1, <2>1
  <2>3. PICK m \in (n + 1) + 1 .. Len(s) : s[m] \in B
    BY <1>6, <2>2 DEF Followed
  <2>4. m \in 2 .. Len(s) /\ m - 1 \in n + 1 .. Len(t)
    BY <1>1, <2>2
  <2> QED  BY <1>4, <2>3, <2>4
<1>7. ASSUME Followed(s, A, B), s[1] \in A PROVE Has(t, B)
  <2>1. 1 \in 1 .. Len(s)
    BY <1>1
  <2>2. PICK m \in 1 + 1 .. Len(s) : s[m] \in B
    BY <1>7, <2>1 DEF Followed
  <2>3. m \in 2 .. Len(s)
    BY <2>2
  <2> QED  BY <1>4, <2>2, <2>3 DEF Has
<1> QED  BY <1>1, <1>2, <1>3, <1>5, <1>6, <1>7 DEF t

\* What is not there has not to be followed.
LEMMA NothingToFollow ==
  ASSUME NEW q, NEW A, NEW B, \A n \in 1 .. Len(q) : q[n] \notin A
  PROVE  Followed(q, A, B) /\ ~ Has(q, A)
  BY DEF Followed, Has

LEMMA PairFollows ==
  ASSUME NEW S, NEW x \in S, NEW y \in S, NEW A, NEW B, x \in A => y \in B, y \notin A
  PROVE  <<x, y>> \in FollowedSeqs(S, A, B) /\ (y \in B => Has(<<x, y>>, B))
<1> DEFINE s == <<x, y>>
<1>1. s \in Seq(S) /\ Len(s) = 2 /\ s[1] = x /\ s[2] = y
  OBVIOUS
<1> HIDE DEF s
<1>2. 2 \in 1 + 1 .. 2 /\ 2 \in 1 .. 2
  OBVIOUS
<1>3. ASSUME NEW n \in 1 .. 2, s[n] \in A PROVE \E m \in n + 1 .. 2 : s[m] \in B
  <2>1. n = 1
    BY <1>1, <1>3
  <2> QED  BY <1>1, <1>2, <1>3, <2>1
<1> QED  BY <1>1, <1>2, <1>3 DEF FollowedSeqs, Followed, Has, s

\* One program's commands are the whole's.
LEMMA ForEachHasOne ==
  ASSUME NEW S, NEW program, NEW i \in Names, i \in DOMAIN program,
         \A j \in Names : j \in DOMAIN program => program[j] \in Seq(S),
         NEW B, Has(program[i], B)
  PROVE  Has(ForEach(program), B)
<1>1. PICK k \in 1 .. Len(program[i]) : program[i][k] \in B
  BY DEF Has
<1>2. PICK n \in 1 .. Len(ForEach(program)) : ForEach(program)[n] = program[i][k]
  BY ForEachHas
<1> QED  BY <1>1, <1>2 DEF Has

-----------------------------------------------------------------------------
\* The parts are told apart by the commands that do and undo them.
Parts == {"address", "source", "route", "users", "guard"}

\* An addition is one that the script has for the interface.
ProperIn(content, o, i) ==
  /\ o.on = i /\ o.op = "addr add" => o.arg = content[i].addr
  /\ o.on = i /\ o.op = "rule add" =>
       o \in {FromAdd(i, content[i].addr)} \cup {UidAdd(i, u) : u \in Range(content[i].uids)}

\* A program of the script that does again all that it undoes.
ScriptOps(content, p) ==
  {o \in OpsOf(p) : o.op \in ScriptNames /\ \A j \in DOMAIN content : ProperIn(content, o, j)}

Redoes(content, s) ==
  \A j \in DOMAIN content : \A part \in Wanted(content[j]) :
    Followed(s, Undoes(part, j, content[j]), Does(part, j, content[j]))

RedoingSeqs(content, p) == {s \in Seq(ScriptOps(content, p)) : Redoes(content, s)}

LEMMA OpParts ==
  ASSUME NEW name, NEW i, NEW arg
  PROVE  Op(name, i, arg).op = name /\ Op(name, i, arg).on = i /\ Op(name, i, arg).arg = arg
  BY DEF Op

LEMMA WantedParts ==
  ASSUME NEW plan
  PROVE  /\ Wanted(plan) \subseteq Parts
         /\ "guard" \in Wanted(plan)
         /\ {"address", "source"} \cap Wanted(plan) # {} => plan.addr # None
         /\ plan.addr # None => {"address", "source"} \subseteq Wanted(plan)
         /\ "route" \in Wanted(plan) <=> plan.routed
         /\ "users" \in Wanted(plan) <=> plan.uids # <<>>
<1>1. Wanted(plan) \subseteq Parts /\ "guard" \in Wanted(plan)
  BY DEF Wanted, Parts
<1>2. {"address", "source"} \cap Wanted(plan) # {} => plan.addr # None
  BY DEF Wanted
<1>3. plan.addr # None => {"address", "source"} \subseteq Wanted(plan)
  BY DEF Wanted
<1>4. "route" \in Wanted(plan) <=> plan.routed
  BY DEF Wanted
<1>5. "users" \in Wanted(plan) <=> plan.uids # <<>>
  BY DEF Wanted
<1> QED  BY <1>1, <1>2, <1>3, <1>4, <1>5

LEMMA PartsAre ==
  ASSUME NEW i, NEW plan
  PROVE  /\ Does("address", i, plan) = {Op("addr add", i, plan.addr)}
         /\ Does("source", i, plan) = {FromAdd(i, plan.addr)}
         /\ Does("route", i, plan) = {Do("route replace", i)}
         /\ Does("users", i, plan) = {UidAdd(i, u) : u \in Uids}
         /\ Does("guard", i, plan) = {GuardAdd}
         /\ Undoes("address", i, plan) = {Op("addr del", i, plan.addr)}
         /\ Undoes("source", i, plan) = {DelRule(i, FromPref(i))}
         /\ Undoes("route", i, plan) = {}
         /\ Undoes("users", i, plan) = {DelRule(i, UidPref(i))}
         /\ Undoes("guard", i, plan) = {GuardDel}
<1>1. /\ Does("address", i, plan) = {Op("addr add", i, plan.addr)}
      /\ Does("source", i, plan) = {FromAdd(i, plan.addr)}
  BY DEF Does
<1>2. /\ Does("route", i, plan) = {Do("route replace", i)}
      /\ Does("users", i, plan) = {UidAdd(i, u) : u \in Uids}
      /\ Does("guard", i, plan) = {GuardAdd}
  BY DEF Does
<1>3. /\ Undoes("address", i, plan) = {Op("addr del", i, plan.addr)}
      /\ Undoes("source", i, plan) = {DelRule(i, FromPref(i))}
      /\ Undoes("route", i, plan) = {}
  BY DEF Undoes
<1>4. /\ Undoes("users", i, plan) = {DelRule(i, UidPref(i))}
      /\ Undoes("guard", i, plan) = {GuardDel}
  BY DEF Undoes
<1> QED  BY <1>1, <1>2, <1>3, <1>4

IsAddrDel(o) == o.op = "addr del"
IsAddition(o) == o.op \in {"addr add", "rule add", "route replace"}

\* What undoes a part deletes, and whose it is.
LEMMA UndoneBy ==
  ASSUME NEW j \in Names, NEW plan, NEW part \in Parts, NEW o \in Undoes(part, j, plan)
  PROVE  /\ \/ part = "address" /\ IsAddrDel(o) /\ ~ IsDel(o) /\ o.on = j
            \/ part = "source" /\ IsDel(o) /\ o.on = j /\ o.arg = FromPref(j)
            \/ part = "users" /\ IsDel(o) /\ o.on = j /\ o.arg = UidPref(j)
            \/ part = "guard" /\ IsDel(o) /\ o.on = None
         /\ IsDel(o) => ~ IsAddrDel(o)
         /\ ~ IsAddition(o)
<1>0. /\ IsDel(o) => ~ IsAddrDel(o)
      /\ IsDel(o) \/ IsAddrDel(o) => ~ IsAddition(o)
  BY DEF IsDel, IsAddrDel, IsAddition
<1>1. CASE part = "address"
  <2>1. Undoes("address", j, plan) = {Op("addr del", j, plan.addr)}
    BY PartsAre
  <2>2. o = Op("addr del", j, plan.addr)
    BY <1>1, <2>1, Zenon
  <2>3. IsAddrDel(o) /\ ~ IsDel(o) /\ o.on = j
    BY <2>2 DEF Op, IsAddrDel, IsDel
  <2> QED  BY <1>0, <1>1, <2>3
<1>2. CASE part = "source"
  <2>1. Undoes("source", j, plan) = {DelRule(j, FromPref(j))}
    BY PartsAre
  <2>2. o = DelRule(j, FromPref(j))
    BY <1>2, <2>1, Zenon
  <2>3. IsDel(o) /\ o.on = j /\ o.arg = FromPref(j)
    BY <2>2 DEF Op, DelRule, IsDel
  <2> QED  BY <1>0, <1>2, <2>3
<1>3. CASE part = "users"
  <2>1. Undoes("users", j, plan) = {DelRule(j, UidPref(j))}
    BY PartsAre
  <2>2. o = DelRule(j, UidPref(j))
    BY <1>3, <2>1, Zenon
  <2>3. IsDel(o) /\ o.on = j /\ o.arg = UidPref(j)
    BY <2>2 DEF Op, DelRule, IsDel
  <2> QED  BY <1>0, <1>3, <2>3
<1>4. CASE part = "guard"
  <2>1. Undoes("guard", j, plan) = {GuardDel}
    BY PartsAre
  <2>2. o = GuardDel
    BY <1>4, <2>1, Zenon
  <2>3. IsDel(o) /\ o.on = None
    BY <2>2 DEF Op, GuardDel, IsDel
  <2> QED  BY <1>0, <1>4, <2>3
<1>5. part # "route"
  <2>1. Undoes("route", j, plan) = {}
    BY PartsAre
  <2> QED  BY <2>1, Zenon
<1> QED  BY <1>1, <1>2, <1>3, <1>4, <1>5 DEF Parts

\* What does a part adds.
LEMMA DoneBy ==
  ASSUME NEW j \in Names, NEW plan, NEW part \in Parts, NEW o \in Does(part, j, plan)
  PROVE  IsAddition(o) /\ (part # "guard" => o.on = j)
<1>1. CASE part = "address"
  <2>1. Does("address", j, plan) = {Op("addr add", j, plan.addr)}
    BY PartsAre
  <2>2. o = Op("addr add", j, plan.addr)
    BY <1>1, <2>1, Zenon
  <2> QED  BY <2>2 DEF IsAddition, Op
<1>2. CASE part = "source"
  <2>1. Does("source", j, plan) = {FromAdd(j, plan.addr)}
    BY PartsAre
  <2>2. o = FromAdd(j, plan.addr)
    BY <1>2, <2>1, Zenon
  <2> QED  BY <2>2 DEF IsAddition, Op, FromAdd
<1>3. CASE part = "users"
  <2>1. Does("users", j, plan) = {UidAdd(j, u) : u \in Uids}
    BY DEF Does
  <2>3. o \in {UidAdd(j, u) : u \in Uids}
    BY <1>3, <2>1, Zenon
  <2>2. PICK u \in Uids : o = UidAdd(j, u)
    BY <2>3, Zenon
  <2> QED  BY <2>2 DEF IsAddition, Op, UidAdd
<1>4. CASE part = "guard"
  <2>1. Does("guard", j, plan) = {GuardAdd}
    BY PartsAre
  <2>2. o = GuardAdd
    BY <1>4, <2>1, Zenon
  <2>3. IsAddition(o)
    BY <2>2 DEF IsAddition, Op, GuardAdd
  <2> QED  BY <1>4, <2>3
<1>5. CASE part = "route"
  <2>1. Does("route", j, plan) = {Do("route replace", j)}
    BY PartsAre
  <2>2. o = Do("route replace", j)
    BY <1>5, <2>1, Zenon
  <2> QED  BY <2>2 DEF IsAddition, Op, Do
<1> QED  BY <1>1, <1>2, <1>3, <1>4, <1>5 DEF Parts

LEMMA RedoingConcat ==
  ASSUME NEW content, NEW p
  PROVE  /\ <<>> \in RedoingSeqs(content, p)
         /\ \A a, b \in RedoingSeqs(content, p) : a \o b \in RedoingSeqs(content, p)
<1> DEFINE S == ScriptOps(content, p)
<1>1. \A A, B : <<>> \in FollowedSeqs(S, A, B)
  BY FollowedConcat
<1>2. <<>> \in RedoingSeqs(content, p)
  <2>1. <<>> \in Seq(S) /\ \A A, B : Followed(<<>>, A, B)
    BY <1>1 DEF FollowedSeqs
  <2> HIDE DEF S
  <2> QED  BY <2>1 DEF RedoingSeqs, Redoes, S
<1>3. ASSUME NEW a \in RedoingSeqs(content, p), NEW b \in RedoingSeqs(content, p)
      PROVE  a \o b \in RedoingSeqs(content, p)
  <2>1. a \in Seq(S) /\ b \in Seq(S) /\ Redoes(content, a) /\ Redoes(content, b)
    BY DEF RedoingSeqs
  <2> HIDE DEF S
  <2>2. a \o b \in Seq(S)
    BY <2>1
  <2>3. ASSUME NEW A, NEW B, Followed(a, A, B), Followed(b, A, B) PROVE Followed(a \o b, A, B)
    BY <2>1, <2>3, FollowedConcat DEF FollowedSeqs
  <2>4. Redoes(content, a \o b)
    BY <2>1, <2>3 DEF Redoes
  <2> QED  BY <2>2, <2>4 DEF RedoingSeqs, S
<1> QED  BY <1>2, <1>3

\* A deletion with its addition behind it.
LEMMA PairRedoes ==
  ASSUME NEW content, IsScript(content), NEW p, NEW x \in ScriptOps(content, p),
         NEW y \in ScriptOps(content, p),
         IsAddition(y),
         \A j \in DOMAIN content : \A part \in Wanted(content[j]) :
           x \in Undoes(part, j, content[j]) => y \in Does(part, j, content[j])
  PROVE  <<x, y>> \in RedoingSeqs(content, p)
<1>1. <<x, y>> \in Seq(ScriptOps(content, p))
  BY TwoTyped
<1>2. ASSUME NEW j \in DOMAIN content, NEW part \in Wanted(content[j])
      PROVE  Followed(<<x, y>>, Undoes(part, j, content[j]), Does(part, j, content[j]))
  <2> DEFINE A == Undoes(part, j, content[j])
             B == Does(part, j, content[j])
  <2>1. j \in Names /\ part \in Parts
    BY WantedParts DEF IsScript
  <2>2. y \notin A
    BY <2>1, UndoneBy
  <2>3. x \in A => y \in B
    OBVIOUS
  <2> HIDE DEF A, B
  <2>4. <<x, y>> \in FollowedSeqs(ScriptOps(content, p), A, B)
    BY <2>2, <2>3, PairFollows
  <2> QED  BY <2>4 DEF FollowedSeqs, A, B
<1> QED  BY <1>1, <1>2 DEF RedoingSeqs, Redoes

LEMMA OneCommandIs ==
  ASSUME NEW x, NEW A, x \notin A
  PROVE  \A n \in 1 .. Len(<<x>>) : <<x>>[n] \notin A
  OBVIOUS

\* ... and a command that undoes nothing.
LEMMA OneRedoes ==
  ASSUME NEW content, IsScript(content), NEW p, NEW x \in ScriptOps(content, p),
         IsAddition(x)
  PROVE  <<x>> \in RedoingSeqs(content, p)
<1>1. <<x>> \in Seq(ScriptOps(content, p))
  BY TwoTyped
<1>2. ASSUME NEW j \in DOMAIN content, NEW part \in Wanted(content[j])
      PROVE  Followed(<<x>>, Undoes(part, j, content[j]), Does(part, j, content[j]))
  <2>1. j \in Names /\ part \in Parts
    BY WantedParts DEF IsScript
  <2>2. x \notin Undoes(part, j, content[j])
    BY <2>1, UndoneBy
  <2> DEFINE A == Undoes(part, j, content[j])
  <2>4. x \notin A
    BY <2>2
  <2> HIDE DEF A
  <2>3. \A n \in 1 .. Len(<<x>>) : <<x>>[n] \notin A
    BY <2>4, OneCommandIs
  <2> QED  BY <2>3, NothingToFollow DEF A
<1> QED  BY <1>1, <1>2 DEF RedoingSeqs, Redoes

LEMMA ScriptOpsAre ==
  ASSUME NEW content, IsScript(content), NEW p \in Processes
  PROVE  /\ GuardDel \in ScriptOps(content, p) /\ GuardAdd \in ScriptOps(content, p)
         /\ \A i \in DOMAIN content : p = Admin \/ p = i =>
              /\ content[i].addr # None =>
                   /\ Op("addr del", i, content[i].addr) \in ScriptOps(content, p)
                   /\ Op("addr add", i, content[i].addr) \in ScriptOps(content, p)
                   /\ FromAdd(i, content[i].addr) \in ScriptOps(content, p)
              /\ DelRule(i, FromPref(i)) \in ScriptOps(content, p)
              /\ DelRule(i, UidPref(i)) \in ScriptOps(content, p)
              /\ Do("route replace", i) \in ScriptOps(content, p)
              /\ \A u \in Range(content[i].uids) : UidAdd(i, u) \in ScriptOps(content, p)
<1>0. \A j \in DOMAIN content : j \in Names /\ j # None /\ content[j] \in Plans
  BY NoneIsNoName DEF IsScript
<1>1. GuardDel \in ScriptOps(content, p)
  <2>1. GuardDel \in OpsOf(p)
    BY DEF OpsOf, CommonOps
  <2>2. GuardDel.op = "rule del"
    BY DEF GuardDel, Op
  <2> QED  BY <2>1, <2>2 DEF ScriptOps, ScriptNames, ProperIn
<1>2. GuardAdd \in ScriptOps(content, p)
  <2>1. GuardAdd \in OpsOf(p)
    BY DEF OpsOf, CommonOps
  <2>2. GuardAdd.op = "rule add" /\ GuardAdd.on = None
    BY DEF GuardAdd, Op
  <2>3. \A j \in DOMAIN content : GuardAdd.on # j
    BY <1>0, <2>2
  <2> QED  BY <2>1, <2>2, <2>3 DEF ScriptOps, ScriptNames, ProperIn
<1>3. ASSUME NEW i \in DOMAIN content, p = Admin \/ p = i
      PROVE  /\ content[i].addr # None =>
                  /\ Op("addr del", i, content[i].addr) \in ScriptOps(content, p)
                  /\ Op("addr add", i, content[i].addr) \in ScriptOps(content, p)
                  /\ FromAdd(i, content[i].addr) \in ScriptOps(content, p)
             /\ DelRule(i, FromPref(i)) \in ScriptOps(content, p)
             /\ DelRule(i, UidPref(i)) \in ScriptOps(content, p)
             /\ Do("route replace", i) \in ScriptOps(content, p)
             /\ \A u \in Range(content[i].uids) : UidAdd(i, u) \in ScriptOps(content, p)
  <2>0. i \in Names /\ content[i] \in Plans
    BY <1>0
  <2>1. OpsOn(i) \subseteq OpsOf(p)
    BY <1>3, <2>0, OpsOnAreOpsOf
  <2>2. ASSUME NEW o \in OpsOn(i), o.op \in ScriptNames,
               o.op = "addr add" => o.arg = content[i].addr,
               o.op = "rule add" =>
                 o \in {FromAdd(i, content[i].addr)} \cup {UidAdd(i, u) : u \in Range(content[i].uids)}
        PROVE  o \in ScriptOps(content, p)
    <3>1. o.on = i /\ o \in OpsOf(p)
      BY <2>0, <2>1, OpOnShape
    <3>2. ASSUME NEW j \in DOMAIN content PROVE ProperIn(content, o, j)
      <4>1. CASE j = i
        BY <2>2, <4>1 DEF ProperIn
      <4>2. CASE j # i
        BY <3>1, <4>2 DEF ProperIn
      <4> QED  BY <4>1, <4>2
    <3> QED  BY <2>2, <3>1, <3>2 DEF ScriptOps
  <2>3. ASSUME NEW a \in Addrs, a = content[i].addr
        PROVE  /\ Op("addr del", i, a) \in ScriptOps(content, p)
               /\ Op("addr add", i, a) \in ScriptOps(content, p)
               /\ FromAdd(i, a) \in ScriptOps(content, p)
    <3>1. /\ Op("addr del", i, a) \in OpsOn(i) /\ Op("addr add", i, a) \in OpsOn(i)
          /\ FromAdd(i, a) \in OpsOn(i)
      BY DEF OpsOn, Op, FromAdd
    <3>2. /\ Op("addr del", i, a).op = "addr del" /\ Op("addr add", i, a).op = "addr add"
          /\ Op("addr add", i, a).arg = a /\ FromAdd(i, a).op = "rule add"
      BY DEF Op, FromAdd
    <3>3. Op("addr del", i, a) \in ScriptOps(content, p)
      BY <2>2, <3>1, <3>2 DEF ScriptNames
    <3>4. Op("addr add", i, a) \in ScriptOps(content, p)
      BY <2>2, <2>3, <3>1, <3>2 DEF ScriptNames
    <3>5. FromAdd(i, a) \in ScriptOps(content, p)
      BY <2>2, <2>3, <3>1, <3>2 DEF ScriptNames
    <3> QED  BY <3>3, <3>4, <3>5
  <2>4. ASSUME NEW pref \in {FromPref(i), UidPref(i)} PROVE DelRule(i, pref) \in ScriptOps(content, p)
    <3>1. DelRule(i, pref) \in OpsOn(i)
      BY DEF OpsOn, Op, DelRule
    <3>2. DelRule(i, pref).op = "rule del"
      BY DEF Op, DelRule
    <3> QED  BY <2>2, <3>1, <3>2 DEF ScriptNames
  <2>5. Do("route replace", i) \in ScriptOps(content, p)
    <3>1. Do("route replace", i) \in OpsOn(i)
      BY <2>0, DoTyped DEF PlainNames
    <3>2. Do("route replace", i).op = "route replace"
      BY DEF Op, Do
    <3> QED  BY <2>2, <3>1, <3>2 DEF ScriptNames
  <2>6. ASSUME NEW u \in Range(content[i].uids) PROVE UidAdd(i, u) \in ScriptOps(content, p)
    <3>0. u \in Uids
      BY <2>0 DEF Plans, Range
    <3>1. UidAdd(i, u) \in OpsOn(i)
      BY <3>0 DEF OpsOn, Op, UidAdd
    <3>2. UidAdd(i, u).op = "rule add"
      BY DEF Op, UidAdd
    <3>3. UidAdd(i, u) \in {UidAdd(i, v) : v \in Range(content[i].uids)}
      OBVIOUS
    <3> QED  BY <2>2, <3>1, <3>2, <3>3 DEF ScriptNames
  <2>7. content[i].addr # None => content[i].addr \in Addrs
    BY <2>0 DEF Plans
  <2> QED  BY <2>3, <2>4, <2>5, <2>6, <2>7
<1> QED  BY <1>1, <1>2, <1>3

LEMMA ResetsRedo ==
  ASSUME NEW content, IsScript(content), NEW p \in Processes
  PROVE  /\ ResetRule(GuardPref, None, Prohibit) \in RedoingSeqs(content, p)
         /\ \A i \in DOMAIN content : p = Admin \/ p = i =>
              /\ content[i].addr # None =>
                   /\ ResetAddress(i, content[i].addr) \in RedoingSeqs(content, p)
                   /\ ResetRule(FromPref(i), i, FromRule(i, content[i].addr))
                        \in RedoingSeqs(content, p)
              /\ \A u \in Range(content[i].uids) :
                   ResetRule(UidPref(i), i, UidRule(i, u)) \in RedoingSeqs(content, p)
<1>0. \A j \in DOMAIN content : j \in Names /\ j # None /\ content[j] \in Plans
  BY NoneIsNoName DEF IsScript
<1>1. ASSUME NEW x \in ScriptOps(content, p), NEW y \in ScriptOps(content, p),
             IsAddition(y),
             \A j \in DOMAIN content : \A part \in Parts :
               x \in Undoes(part, j, content[j]) => y \in Does(part, j, content[j])
      PROVE  <<x, y>> \in RedoingSeqs(content, p)
  BY <1>1, PairRedoes, WantedParts
<1>2. ResetRule(GuardPref, None, Prohibit) \in RedoingSeqs(content, p)
  <2>1. IsDel(GuardDel) /\ GuardDel.on = None /\ IsAddition(GuardAdd)
    BY DEF GuardDel, GuardAdd, Op, IsDel, IsAddition
  <2>2. ASSUME NEW j \in DOMAIN content, NEW part \in Parts, GuardDel \in Undoes(part, j, content[j])
        PROVE  GuardAdd \in Does(part, j, content[j])
    <3>1. part = "guard"
      BY <1>0, <2>1, <2>2, UndoneBy
    <3>2. Does("guard", j, content[j]) = {GuardAdd}
      BY PartsAre
    <3> QED  BY <3>1, <3>2, Zenon
  <2>3. <<GuardDel, GuardAdd>> \in RedoingSeqs(content, p)
    BY <1>1, <2>1, <2>2, ScriptOpsAre
  <2> QED  BY <2>3 DEF ResetRule, GuardDel, GuardAdd
<1>3. ASSUME NEW i \in DOMAIN content, p = Admin \/ p = i, content[i].addr # None
      PROVE  /\ ResetAddress(i, content[i].addr) \in RedoingSeqs(content, p)
             /\ ResetRule(FromPref(i), i, FromRule(i, content[i].addr)) \in RedoingSeqs(content, p)
  <2> DEFINE a == content[i].addr
             x == Op("addr del", i, a)
             y == Op("addr add", i, a)
             d == DelRule(i, FromPref(i))
  <2>1. IsAddrDel(x) /\ IsAddition(y) /\ x.on = i
    BY DEF Op, IsAddrDel, IsAddition
  <2>2. IsDel(d) /\ IsAddition(FromAdd(i, a)) /\ d.on = i /\ d.arg = FromPref(i)
    BY DEF Op, DelRule, FromAdd, IsDel, IsAddition
  <2>3. /\ x \in ScriptOps(content, p) /\ y \in ScriptOps(content, p)
        /\ d \in ScriptOps(content, p) /\ FromAdd(i, a) \in ScriptOps(content, p)
    BY <1>3, ScriptOpsAre
  <2>4. Does("address", i, content[i]) = {y} /\ Does("source", i, content[i]) = {FromAdd(i, a)}
    BY PartsAre
  <2> HIDE DEF x, y, d, a
  <2>5. ASSUME NEW j \in DOMAIN content, NEW part \in Parts, x \in Undoes(part, j, content[j])
        PROVE  y \in Does(part, j, content[j])
    <3>0. j \in Names /\ j # None
      BY <1>0
    <3>4. /\ \/ part = "address" /\ IsAddrDel(x) /\ ~ IsDel(x) /\ x.on = j
             \/ part = "source" /\ IsDel(x) /\ x.on = j /\ x.arg = FromPref(j)
             \/ part = "users" /\ IsDel(x) /\ x.on = j /\ x.arg = UidPref(j)
             \/ part = "guard" /\ IsDel(x) /\ x.on = None
          /\ IsDel(x) => ~ IsAddrDel(x)
      BY <2>5, <3>0, UndoneBy
    <3>1. part = "address" /\ i = j
      BY <2>1, <3>0, <3>4
    <3> QED  BY <2>4, <3>1, Zenon
  <2>6. ASSUME NEW j \in DOMAIN content, NEW part \in Parts, d \in Undoes(part, j, content[j])
        PROVE  FromAdd(i, a) \in Does(part, j, content[j])
    <3>0. j \in Names /\ i # None
      BY <1>0
    <3>4. /\ \/ part = "address" /\ IsAddrDel(d) /\ ~ IsDel(d) /\ d.on = j
             \/ part = "source" /\ IsDel(d) /\ d.on = j /\ d.arg = FromPref(j)
             \/ part = "users" /\ IsDel(d) /\ d.on = j /\ d.arg = UidPref(j)
             \/ part = "guard" /\ IsDel(d) /\ d.on = None
          /\ IsDel(d) => ~ IsAddrDel(d)
      BY <2>6, <3>0, UndoneBy
    <3>1. i = j /\ (part = "source" \/ d.arg = UidPref(j))
      BY <2>2, <3>0, <3>4
    <3>2. FromPref(i) # UidPref(i)
      BY <1>0, PrefsApart
    <3>3. part = "source"
      BY <2>2, <3>1, <3>2
    <3> QED  BY <2>4, <3>1, <3>3, Zenon
  <2>7. <<x, y>> \in RedoingSeqs(content, p)
    BY <1>1, <2>1, <2>3, <2>5
  <2>8. <<d, FromAdd(i, a)>> \in RedoingSeqs(content, p)
    BY <1>1, <2>2, <2>3, <2>6
  <2> QED  BY <2>7, <2>8 DEF ResetAddress, ResetRule, x, y, d, a, DelRule, FromAdd
<1>4. ASSUME NEW i \in DOMAIN content, p = Admin \/ p = i, NEW u \in Range(content[i].uids)
      PROVE  ResetRule(UidPref(i), i, UidRule(i, u)) \in RedoingSeqs(content, p)
  <2> DEFINE d == DelRule(i, UidPref(i))
  <2>2. IsDel(d) /\ IsAddition(UidAdd(i, u)) /\ d.on = i /\ d.arg = UidPref(i)
    BY DEF Op, DelRule, UidAdd, IsDel, IsAddition
  <2>3. d \in ScriptOps(content, p) /\ UidAdd(i, u) \in ScriptOps(content, p)
    BY <1>4, ScriptOpsAre
  <2>4. UidAdd(i, u) \in Does("users", i, content[i])
    <3>1. u \in Uids
      BY <1>0 DEF Plans, Range
    <3>2. Does("users", i, content[i]) = {UidAdd(i, v) : v \in Uids}
      BY DEF Does
    <3> QED  BY <3>1, <3>2
  <2> HIDE DEF d
  <2>6. ASSUME NEW j \in DOMAIN content, NEW part \in Parts, d \in Undoes(part, j, content[j])
        PROVE  UidAdd(i, u) \in Does(part, j, content[j])
    <3>0. j \in Names /\ i # None
      BY <1>0
    <3>4. /\ \/ part = "address" /\ IsAddrDel(d) /\ ~ IsDel(d) /\ d.on = j
             \/ part = "source" /\ IsDel(d) /\ d.on = j /\ d.arg = FromPref(j)
             \/ part = "users" /\ IsDel(d) /\ d.on = j /\ d.arg = UidPref(j)
             \/ part = "guard" /\ IsDel(d) /\ d.on = None
          /\ IsDel(d) => ~ IsAddrDel(d)
      BY <2>6, <3>0, UndoneBy
    <3>1. i = j /\ (part = "users" \/ d.arg = FromPref(j))
      BY <2>2, <3>0, <3>4
    <3>2. FromPref(i) # UidPref(i)
      BY <1>0, PrefsApart
    <3>3. part = "users"
      BY <2>2, <3>1, <3>2
    <3> QED  BY <2>4, <3>1, <3>3, Zenon
  <2>8. <<d, UidAdd(i, u)>> \in RedoingSeqs(content, p)
    BY <1>1, <2>2, <2>3, <2>6
  <2> QED  BY <2>8 DEF ResetRule, d, DelRule, UidAdd
<1> QED  BY <1>2, <1>3, <1>4

LEMMA PlanRedoes ==
  ASSUME NEW content, IsScript(content), NEW p \in Processes, NEW i \in DOMAIN content,
         p = Admin \/ p = i
  PROVE  /\ AddressCommands(i, content[i]) \in RedoingSeqs(content, p)
         /\ RouteCommands(i, content[i]) \in RedoingSeqs(content, p)
         /\ RuleCommands(i, content[i]) \in RedoingSeqs(content, p)
         /\ \A part \in Wanted(content[i]) \ {"guard"} :
              \/ Has(AddressCommands(i, content[i]), Does(part, i, content[i]))
              \/ Has(RouteCommands(i, content[i]), Does(part, i, content[i]))
              \/ Has(RuleCommands(i, content[i]), Does(part, i, content[i]))
<1> DEFINE plan == content[i]
           R == RedoingSeqs(content, p)
           S == ScriptOps(content, p)
           seqs == [n \in DOMAIN plan.uids |-> ResetRule(UidPref(i), i, UidRule(i, plan.uids[n]))]
           from == IF plan.addr = None THEN <<>>
                   ELSE ResetRule(FromPref(i), i, FromRule(i, plan.addr))
<1>0. /\ i \in Names /\ plan \in Plans /\ plan.uids \in Seq(Uids)
      /\ <<>> \in R /\ (\A a, b \in R : a \o b \in R) /\ R \subseteq Seq(S)
  <2>1. i \in Names /\ plan \in Plans
    BY DEF IsScript
  <2>2. plan.uids \in Seq(Uids)
    BY <2>1 DEF Plans
  <2> QED  BY <2>1, <2>2, RedoingConcat DEF RedoingSeqs
<1>1. AddressCommands(i, plan) \in R
  BY <1>0, ResetsRedo DEF AddressCommands
<1>2. RouteCommands(i, plan) \in R
  <2>1. Do("route replace", i) \in S
    BY ScriptOpsAre
  <2>2. IsAddition(Do("route replace", i))
    BY DEF Do, Op, IsAddition
  <2>3. <<Do("route replace", i)>> \in R
    BY <2>1, <2>2, OneRedoes
  <2> QED  BY <1>0, <2>3 DEF RouteCommands
<1>3. \A n \in 1 .. Len(plan.uids) :
        /\ plan.uids[n] \in Range(plan.uids)
        /\ ResetRule(UidPref(i), i, UidRule(i, plan.uids[n])) \in R
  <2>1. \A n \in 1 .. Len(plan.uids) : plan.uids[n] \in Range(plan.uids)
    BY <1>0 DEF Range
  <2> QED  BY <2>1, ResetsRedo
<1>4. /\ seqs \in Seq(R) /\ Len(seqs) = Len(plan.uids) /\ Len(seqs) \in Nat
      /\ \A n \in 1 .. Len(plan.uids) : seqs[n] = ResetRule(UidPref(i), i, UidRule(i, plan.uids[n]))
  <2>1. DOMAIN plan.uids = 1 .. Len(plan.uids) /\ Len(plan.uids) \in Nat
    BY <1>0
  <2>2. /\ DOMAIN seqs = 1 .. Len(plan.uids) /\ seqs = [n \in 1 .. Len(plan.uids) |-> seqs[n]]
        /\ \A n \in 1 .. Len(plan.uids) :
             seqs[n] = ResetRule(UidPref(i), i, UidRule(i, plan.uids[n]))
    BY <2>1
  <2>3. \A n \in 1 .. Len(plan.uids) : seqs[n] \in R
    BY <1>3, <2>2
  <2> HIDE DEF R, seqs, plan
  <2>4. seqs \in Seq(R) /\ Len(seqs) = Len(plan.uids)
    BY <2>1, <2>2, <2>3, MadeTyped
  <2> QED  BY <2>1, <2>2, <2>4
<1>5. from \in R
  BY <1>0, ResetsRedo
<1>6. RuleCommands(i, plan) = from \o FlattenSeq(seqs)
  BY DEF RuleCommands
<1> HIDE DEF R, S, seqs, from, plan
<1>7. FlattenSeq(seqs) \in R
  BY <1>0, <1>4, FlattenClosed
<1>8. RuleCommands(i, plan) \in R
  BY <1>0, <1>5, <1>6, <1>7
<1>9. ASSUME plan.addr # None
      PROVE  /\ Has(AddressCommands(i, plan), Does("address", i, plan))
             /\ Has(RuleCommands(i, plan), Does("source", i, plan))
  <2> DEFINE x == Op("addr del", i, plan.addr)
             y == Op("addr add", i, plan.addr)
             d == DelRule(i, FromPref(i))
             e == FromAdd(i, plan.addr)
  <2>1. AddressCommands(i, plan) = <<x, y>>
    BY <1>9 DEF AddressCommands, ResetAddress
  <2>2. from = <<d, e>>
    BY <1>9 DEF from, ResetRule, DelRule, FromAdd
  <2>3. Does("address", i, plan) = {y} /\ Does("source", i, plan) = {e}
    BY PartsAre
  <2> HIDE DEF x, y, d, e
  <2>4. ASSUME NEW v, NEW w PROVE Has(<<v, w>>, {w})
    <3>1. Len(<<v, w>>) = 2 /\ <<v, w>>[2] = w /\ 2 \in 1 .. 2
      OBVIOUS
    <3> QED  BY <3>1 DEF Has
  <2>5. Has(from, {e})
    BY <2>2, <2>4
  <2>6. Has(from \o FlattenSeq(seqs), {e})
    BY <1>0, <1>5, <1>7, <2>5, HasConcat
  <2> QED  BY <1>6, <2>1, <2>3, <2>4, <2>6
<1>10. ASSUME plan.routed PROVE Has(RouteCommands(i, plan), Does("route", i, plan))
  <2> DEFINE x == Do("route replace", i)
  <2>1. RouteCommands(i, plan) = <<x>> /\ Does("route", i, plan) = {x}
    BY <1>10, PartsAre DEF RouteCommands
  <2> HIDE DEF x
  <2>2. Len(<<x>>) = 1 /\ <<x>>[1] = x /\ 1 \in 1 .. 1
    OBVIOUS
  <2>3. Has(<<x>>, {x})
    BY <2>2 DEF Has
  <2> QED  BY <2>1, <2>3
<1>11. ASSUME plan.uids # <<>> PROVE Has(RuleCommands(i, plan), Does("users", i, plan))
  <2> DEFINE u == plan.uids[1]
             d == DelRule(i, UidPref(i))
             e == UidAdd(i, u)
             B == Does("users", i, plan)
             U == {s \in Seq(S) : Has(s, B)}
  <2>0. 1 \in 1 .. Len(plan.uids) /\ u \in Uids
    BY <1>0, <1>11
  <2>1. seqs[1] = <<d, e>>
    BY <1>4, <2>0 DEF ResetRule, DelRule, UidAdd
  <2>2. e \in B
    <3>1. B = {UidAdd(i, v) : v \in Uids}
      BY DEF Does
    <3> QED  BY <2>0, <3>1
  <2> HIDE DEF u, d, e, B
  <2>3. Has(<<d, e>>, B)
    <3>1. Len(<<d, e>>) = 2 /\ <<d, e>>[2] = e /\ 2 \in 1 .. 2
      OBVIOUS
    <3> QED  BY <2>2, <3>1 DEF Has
  <2>4. \A n \in 1 .. Len(seqs) : seqs[n] \in Seq(S)
    BY <1>0, <1>4
  <2>5. \A a, b \in Seq(S) : a \o b \in Seq(S)
    BY ConcatTyped
  <2>6. \A a \in Seq(S), b \in U : a \o b \in U /\ b \o a \in U
    BY <2>5, HasConcat
  <2>7. seqs[1] \in U /\ 1 \in 1 .. Len(seqs)
    BY <1>4, <2>0, <2>1, <2>3, <2>4
  <2> HIDE DEF U
  <2>8. FlattenSeq(seqs) \in U
    BY <1>4, <2>4, <2>5, <2>6, <2>7, FlattenSpecial
  <2>9. FlattenSeq(seqs) \in Seq(S) /\ Has(FlattenSeq(seqs), B) /\ from \in Seq(S)
    BY <1>0, <1>5, <2>8 DEF U
  <2>10. Has(from \o FlattenSeq(seqs), B)
    BY <2>9, HasConcat
  <2> QED  BY <1>6, <2>10 DEF B
<1>12. ASSUME NEW part \in Wanted(plan) \ {"guard"}
       PROVE  \/ Has(AddressCommands(i, plan), Does(part, i, plan))
              \/ Has(RouteCommands(i, plan), Does(part, i, plan))
              \/ Has(RuleCommands(i, plan), Does(part, i, plan))
  <2>1. part \in {"address", "source", "route", "users"}
    BY WantedParts DEF Parts
  <2>2. CASE part \in {"address", "source"}
    <3>1. plan.addr # None
      BY <2>2, WantedParts
    <3>2. Has(AddressCommands(i, plan), Does("address", i, plan))
          /\ Has(RuleCommands(i, plan), Does("source", i, plan))
      BY <1>9, <3>1
    <3> QED  BY <2>2, <3>2, Zenon
  <2>3. CASE part = "route"
    <3>1. Has(RouteCommands(i, plan), Does("route", i, plan))
      BY <1>10, <2>3, WantedParts
    <3> QED  BY <2>3, <3>1, Zenon
  <2>4. CASE part = "users"
    <3>1. Has(RuleCommands(i, plan), Does("users", i, plan))
      BY <1>11, <2>4, WantedParts
    <3> QED  BY <2>4, <3>1, Zenon
  <2> QED  BY <2>1, <2>2, <2>3, <2>4
<1> QED  BY <1>1, <1>2, <1>8, <1>12 DEF plan, R

LEMMA ApplyScriptRedoes ==
  ASSUME NEW content, IsScript(content), NEW p \in Processes, NEW args,
         p # Admin => args \subseteq {p}
  PROVE  /\ ApplyScript(content, args) \in RedoingSeqs(content, p)
         /\ \A i \in args \cap DOMAIN content : \A part \in Wanted(content[i]) :
              Has(ApplyScript(content, args), Does(part, i, content[i]))
<1> DEFINE wanted == args \cap DOMAIN content
           R == RedoingSeqs(content, p)
           S == ScriptOps(content, p)
           adding == [i \in wanted |-> AddressCommands(i, content[i])]
           routing == [i \in wanted |-> RouteCommands(i, content[i])]
           ruling == [i \in wanted |-> RuleCommands(i, content[i])]
           guard == ResetRule(GuardPref, None, Prohibit)
           a == ForEach(adding)
           b == ForEach(routing)
           c == ForEach(ruling)
<1>0. <<>> \in R /\ (\A x, y \in R : x \o y \in R) /\ R \subseteq Seq(S)
  BY RedoingConcat DEF RedoingSeqs
<1>1. ASSUME NEW i \in wanted
      PROVE  /\ i \in Names /\ i \in DOMAIN content
             /\ adding[i] = AddressCommands(i, content[i]) /\ adding[i] \in R
             /\ routing[i] = RouteCommands(i, content[i]) /\ routing[i] \in R
             /\ ruling[i] = RuleCommands(i, content[i]) /\ ruling[i] \in R
             /\ \A part \in Wanted(content[i]) \ {"guard"} :
                  \/ Has(adding[i], Does(part, i, content[i]))
                  \/ Has(routing[i], Does(part, i, content[i]))
                  \/ Has(ruling[i], Does(part, i, content[i]))
  <2>1. i \in DOMAIN content /\ i \in Names /\ (p = Admin \/ p = i)
    BY DEF IsScript, Processes
  <2>2. /\ AddressCommands(i, content[i]) \in R
        /\ RouteCommands(i, content[i]) \in R
        /\ RuleCommands(i, content[i]) \in R
        /\ \A part \in Wanted(content[i]) \ {"guard"} :
             \/ Has(AddressCommands(i, content[i]), Does(part, i, content[i]))
             \/ Has(RouteCommands(i, content[i]), Does(part, i, content[i]))
             \/ Has(RuleCommands(i, content[i]), Does(part, i, content[i]))
    BY <2>1, PlanRedoes
  <2> HIDE DEF R
  <2> QED  BY <2>1, <2>2
<1>2. guard \in R
  BY ResetsRedo
<1>3. DOMAIN adding = wanted /\ DOMAIN routing = wanted /\ DOMAIN ruling = wanted
  OBVIOUS
<1>4. ApplyScript(content, args) = a \o b \o c \o guard
  BY DEF ApplyScript
<1>5. \A i \in DOMAIN content : Has(guard, Does("guard", i, content[i]))
  <2>1. guard = <<GuardDel, GuardAdd>>
    BY DEF ResetRule, GuardDel, GuardAdd
  <2>2. Len(<<GuardDel, GuardAdd>>) = 2 /\ <<GuardDel, GuardAdd>>[2] = GuardAdd /\ 2 \in 1 .. 2
    OBVIOUS
  <2>3. Has(guard, {GuardAdd})
    BY <2>1, <2>2 DEF Has
  <2>4. \A i : Does("guard", i, content[i]) = {GuardAdd}
    BY PartsAre
  <2> QED  BY <2>3, <2>4
<1> HIDE DEF R, S, adding, routing, ruling, guard
<1>6. a \in R
  BY <1>0, <1>1, <1>3, ForEachClosed
<1>7. b \in R
  BY <1>0, <1>1, <1>3, ForEachClosed
<1>8. c \in R
  BY <1>0, <1>1, <1>3, ForEachClosed
<1>9. ASSUME NEW i \in wanted, NEW B
      PROVE  /\ Has(adding[i], B) => Has(a, B)
             /\ Has(routing[i], B) => Has(b, B)
             /\ Has(ruling[i], B) => Has(c, B)
  <2>1. /\ \A j \in Names : j \in DOMAIN adding => adding[j] \in Seq(S)
        /\ \A j \in Names : j \in DOMAIN routing => routing[j] \in Seq(S)
        /\ \A j \in Names : j \in DOMAIN ruling => ruling[j] \in Seq(S)
    BY <1>0, <1>1, <1>3
  <2>2. i \in Names
    BY <1>1
  <2>3. Has(adding[i], B) => Has(a, B)
    BY <1>3, <2>1, <2>2, ForEachHasOne
  <2>4. Has(routing[i], B) => Has(b, B)
    BY <1>3, <2>1, <2>2, ForEachHasOne
  <2>5. Has(ruling[i], B) => Has(c, B)
    BY <1>3, <2>1, <2>2, ForEachHasOne
  <2> QED  BY <2>3, <2>4, <2>5
<1> HIDE DEF a, b, c
<1>10. a \o b \in R /\ a \o b \o c \in R /\ a \o b \o c \o guard \in R
  BY <1>0, <1>2, <1>6, <1>7, <1>8
<1>11. ASSUME NEW B
       PROVE  Has(a \o b \o c \o guard, B) <=> Has(a, B) \/ Has(b, B) \/ Has(c, B) \/ Has(guard, B)
  <2>1. a \in Seq(S) /\ b \in Seq(S) /\ c \in Seq(S) /\ guard \in Seq(S)
        /\ a \o b \in Seq(S) /\ a \o b \o c \in Seq(S)
    BY <1>0, <1>2, <1>6, <1>7, <1>8, <1>10
  <2>2. Has(a \o b, B) <=> Has(a, B) \/ Has(b, B)
    BY <2>1, HasConcat
  <2>3. Has(a \o b \o c, B) <=> Has(a \o b, B) \/ Has(c, B)
    BY <2>1, HasConcat
  <2>4. Has(a \o b \o c \o guard, B) <=> Has(a \o b \o c, B) \/ Has(guard, B)
    <3>1. PICK d \in Seq(S) : d = a \o b \o c
      BY <2>1
    <3>2. Has(d \o guard, B) <=> Has(d, B) \/ Has(guard, B)
      BY <2>1, HasConcat
    <3> QED  BY <3>1, <3>2
  <2> QED  BY <2>2, <2>3, <2>4
<1>12. ASSUME NEW i \in wanted, NEW part \in Wanted(content[i])
       PROVE  Has(a \o b \o c \o guard, Does(part, i, content[i]))
  <2>1. CASE part = "guard"
    <3>1. Has(guard, Does("guard", i, content[i]))
      BY <1>1, <1>5
    <3>2. Has(guard, Does(part, i, content[i]))
      BY <2>1, <3>1, Zenon
    <3> QED  BY <1>11, <3>2
  <2>2. CASE part # "guard"
    <3>1. \/ Has(adding[i], Does(part, i, content[i]))
          \/ Has(routing[i], Does(part, i, content[i]))
          \/ Has(ruling[i], Does(part, i, content[i]))
      BY <1>1, <2>2
    <3>2. \/ Has(a, Does(part, i, content[i]))
          \/ Has(b, Does(part, i, content[i]))
          \/ Has(c, Does(part, i, content[i]))
      BY <1>9, <3>1
    <3> QED  BY <1>11, <3>2
  <2> QED  BY <2>1, <2>2
<1> QED  BY <1>4, <1>10, <1>12 DEF R

-----------------------------------------------------------------------------
\* What a command of the script leaves and what it adds.
IsAddrAdd(o) == o.op = "addr add"

LEMMA ScriptEffect ==
  ASSUME NEW k, KernelOK(k), NEW p \in Processes, NEW o \in OpsOf(p), o.op \in ScriptNames,
         NEW k2, k2 = Effect(k, o)
  PROVE  /\ k2.link = k.link
         /\ k.route \subseteq k2.route
         /\ \A j \in Names : \A a \in k.addr[j] :
              a \in k2.addr[j] \/ (IsAddrDel(o) /\ o.on = j /\ o.arg = a)
         /\ \A j \in Names : \A a \in k2.addr[j] :
              a \in k.addr[j] \/ (IsAddrAdd(o) /\ o.on = j /\ o.arg = a)
         /\ \A pref \in Prefs :
              /\ ~ (IsDel(o) /\ o.arg = pref) =>
                   /\ Range(k.rules[pref]) \subseteq Range(k2.rules[pref])
                   /\ k.rules[pref] # <<>> => k2.rules[pref] # <<>>
              /\ \A rule \in Range(k2.rules[pref]) :
                   rule \in Range(k.rules[pref]) \/ (IsAdd(o) /\ o.arg.pref = pref /\ o.arg.rule = rule)
<1>0. /\ k = [addr |-> k.addr, link |-> k.link, route |-> k.route, rules |-> k.rules]
      /\ k.addr \in [Names -> SUBSET Addrs]
      /\ k.rules = [pref \in Prefs |-> k.rules[pref]]
      /\ \A pref \in Prefs : k.rules[pref] \in Seq(RulesAt(pref))
  BY DEF KernelOK
<1>1. CASE o.op = "addr del"
  <2>0. IsAddrDel(o)
    BY <1>1 DEF IsAddrDel
  <2>1. k2 = AddrDel(k, o.on, o.arg)
    BY <1>1 DEF Effect
  <2>2. k2.link = k.link /\ k2.route = k.route /\ k2.rules = k.rules
    BY <1>0, <2>1 DEF AddrDel
  <2>3. \A j \in Names : k2.addr[j] = IF j = o.on THEN k.addr[j] \ {o.arg} ELSE k.addr[j]
    <3>1. k2.addr = [k.addr EXCEPT ![o.on] = @ \ {o.arg}]
      BY <1>0, <2>1 DEF AddrDel
    <3> QED  BY <1>0, <3>1
  <2> QED  BY <2>0, <2>2, <2>3
<1>2. CASE o.op = "addr add"
  <2>0. IsAddrAdd(o)
    BY <1>2 DEF IsAddrAdd
  <2>1. k2 = AddrAdd(k, o.on, o.arg)
    BY <1>2 DEF Effect
  <2>2. k2.link = k.link /\ k2.route = k.route /\ k2.rules = k.rules
    BY <1>0, <2>1 DEF AddrAdd
  <2>3. \A j \in Names :
          k2.addr[j] \in {k.addr[j], IF j = o.on THEN k.addr[j] \cup {o.arg} ELSE k.addr[j]}
    BY <1>0, <2>1 DEF AddrAdd
  <2> QED  BY <2>0, <2>2, <2>3
<1>3. CASE o.op = "route replace"
  <2>1. k2 = RouteReplace(k, o.on)
    BY <1>3 DEF Effect
  <2>2. k2.link = k.link /\ k2.addr = k.addr /\ k2.rules = k.rules /\ k.route \subseteq k2.route
    BY <1>0, <2>1 DEF RouteReplace
  <2> QED  BY <2>2
<1>4. CASE o.op = "rule del"
  <2>0. IsDel(o)
    BY <1>4 DEF IsDel
  <2>1. k2 = RuleDel(k, o.arg)
    BY <1>4 DEF Effect
  <2>2. k2.link = k.link /\ k2.addr = k.addr /\ k2.route = k.route
    BY <1>0, <2>1 DEF RuleDel
  <2>3. ASSUME NEW pref \in Prefs
        PROVE  /\ o.arg # pref => k2.rules[pref] = k.rules[pref]
               /\ Range(k2.rules[pref]) \subseteq Range(k.rules[pref])
    <3>1. /\ o.arg # pref => k2.rules[pref] = k.rules[pref]
          /\ k2.rules[pref] \in {k.rules[pref],
                IF k.rules[pref] # <<>> THEN Tail(k.rules[pref]) ELSE k.rules[pref]}
      BY <1>0, <2>1 DEF RuleDel
    <3> DEFINE r == k.rules[pref]
    <3>2. r \in Seq(RulesAt(pref))
      BY <1>0
    <3> HIDE DEF r
    <3>3. r # <<>> => Range(Tail(r)) \subseteq Range(r)
      BY <3>2, HeadTailProperties DEF Range
    <3> QED  BY <3>1, <3>3 DEF r
  <2> QED  BY <2>0, <2>2, <2>3
<1>5. CASE o.op = "rule add"
  <2>0. IsAdd(o) /\ ~ IsDel(o)
    BY <1>5 DEF IsAdd, IsDel
  <2>1. k2 = RuleAdd(k, o.arg.pref, o.arg.rule)
    BY <1>5 DEF Effect
  <2>2. k2.link = k.link /\ k2.addr = k.addr /\ k2.route = k.route
    BY <1>0, <2>1 DEF RuleAdd
  <2>3. ASSUME NEW pref \in Prefs
        PROVE  /\ Range(k.rules[pref]) \subseteq Range(k2.rules[pref])
               /\ k.rules[pref] # <<>> => k2.rules[pref] # <<>>
               /\ \A rule \in Range(k2.rules[pref]) :
                   rule \in Range(k.rules[pref]) \/ (o.arg.pref = pref /\ o.arg.rule = rule)
    <3> DEFINE r == k.rules[pref]
               x == o.arg.rule
    <3>1. k2.rules[pref] = r \/ (o.arg.pref = pref /\ k2.rules[pref] = Append(r, x))
      <4>1. k2 = k \/ k2 = [k EXCEPT !.rules[o.arg.pref] = Append(@, x)]
        BY <2>1 DEF RuleAdd
      <4>2. CASE k2 = k
        BY <4>2
      <4>3. CASE k2 = [k EXCEPT !.rules[o.arg.pref] = Append(@, x)]
        BY <1>0, <4>3
      <4> QED  BY <4>1, <4>2, <4>3
    <3>2. r \in Seq(RulesAt(pref))
      BY <1>0
    <3> HIDE DEF r, x
    <3>3. /\ Append(r, x) # <<>>
          /\ Range(r) \subseteq Range(Append(r, x))
          /\ \A y \in Range(Append(r, x)) : y \in Range(r) \/ y = x
      <4>1. r \in Seq(RulesAt(pref) \cup {x})
        BY <3>2
      <4>2. /\ Len(Append(r, x)) = Len(r) + 1 /\ Len(r) \in Nat
            /\ \A n \in 1 .. Len(r) : Append(r, x)[n] = r[n]
            /\ Append(r, x)[Len(r) + 1] = x
            /\ DOMAIN r = 1 .. Len(r) /\ DOMAIN Append(r, x) = 1 .. Len(r) + 1
        BY <4>1
      <4>3. Append(r, x) # <<>>
        BY <4>1, AppendProperties
      <4>4. \A n \in 1 .. Len(r) + 1 : n = Len(r) + 1 \/ n \in 1 .. Len(r)
        BY <4>2
      <4>5. \A n \in 1 .. Len(r) : n \in 1 .. Len(r) + 1
        BY <4>2
      <4> QED  BY <4>2, <4>3, <4>4, <4>5 DEF Range
    <3>4. CASE k2.rules[pref] = r
      BY <3>4 DEF r
    <3>5. CASE o.arg.pref = pref /\ k2.rules[pref] = Append(r, x)
      BY <3>3, <3>5 DEF r, x
    <3> QED  BY <3>1, <3>4, <3>5
  <2> QED  BY <2>0, <2>2, <2>3
<1> QED  BY <1>1, <1>2, <1>3, <1>4, <1>5 DEF ScriptNames

\* A deletion is the one that there is at its preference.
LEMMA DelIs ==
  ASSUME BlocksApart, NEW p \in Processes, NEW o \in OpsOf(p), IsDel(o)
  PROVE  /\ \A i \in Names : \A pref \in {FromPref(i), UidPref(i)} :
              o.arg = pref => o = DelRule(i, pref)
         /\ o.arg = GuardPref => o = GuardDel
<1>1. CASE o \in CommonOps
  <2>1. o = GuardDel
    BY <1>1, CommonOpShape DEF IsDel
  <2>2. o.arg = GuardPref
    BY <2>1 DEF GuardDel, Op
  <2>3. \A i \in Names : FromPref(i) # GuardPref /\ UidPref(i) # GuardPref
    BY PrefsApart
  <2> QED  BY <2>1, <2>2, <2>3
<1>2. CASE o.on \in Names /\ o \in OpsOn(o.on)
  <2>1. PICK j \in Names : j = o.on
    BY <1>2
  <2>2. /\ o = [arg |-> o.arg, op |-> o.op, on |-> o.on]
        /\ o.arg \in {FromPref(j), UidPref(j)}
    BY <1>2, <2>1, OpOnShape DEF IsDel
  <2>3. o = DelRule(j, o.arg)
    BY <2>1, <2>2 DEF DelRule, Op, IsDel
  <2>4. \A i \in Names : \A pref \in {FromPref(i), UidPref(i)} : o.arg = pref => i = j
    BY <2>2, PrefsApart
  <2>5. o.arg # GuardPref
    BY <2>2, PrefsApart
  <2> QED  BY <2>3, <2>4, <2>5
<1> QED  BY <1>1, <1>2, OpsOfShape

LEMMA HoldsAre ==
  ASSUME NEW k, NEW i, NEW plan
  PROVE  /\ Holds(k, "address", i, plan) <=> plan.addr \in k.addr[i]
         /\ Holds(k, "source", i, plan) <=>
              FromRule(i, plan.addr) \in Range(k.rules[FromPref(i)])
         /\ Holds(k, "route", i, plan) <=> i \in k.route
         /\ Holds(k, "users", i, plan) <=> k.rules[UidPref(i)] # <<>>
         /\ Holds(k, "guard", i, plan) <=> Prohibit \in Range(k.rules[GuardPref])
<1>1. Holds(k, "address", i, plan) <=> plan.addr \in k.addr[i]
  BY DEF Holds
<1>2. Holds(k, "source", i, plan) <=> FromRule(i, plan.addr) \in Range(k.rules[FromPref(i)])
  BY DEF Holds
<1>3. Holds(k, "route", i, plan) <=> i \in k.route
  BY DEF Holds
<1>4. Holds(k, "users", i, plan) <=> k.rules[UidPref(i)] # <<>>
  BY DEF Holds
<1>5. Holds(k, "guard", i, plan) <=> Prohibit \in Range(k.rules[GuardPref])
  BY DEF Holds
<1> QED  BY <1>1, <1>2, <1>3, <1>4, <1>5

\* A part that holds is left by every command of the script but the one that
\* undoes it.
LEMMA HoldsStays ==
  ASSUME BlocksApart, NEW k, KernelOK(k), NEW p \in Processes, NEW o \in OpsOf(p),
         o.op \in ScriptNames, NEW i \in Names, NEW plan, NEW part \in Parts,
         Holds(k, part, i, plan), o \notin Undoes(part, i, plan)
  PROVE  Holds(Effect(k, o), part, i, plan)
<1> DEFINE k2 == Effect(k, o)
<1>1. /\ k.route \subseteq k2.route
      /\ \A j \in Names : \A a \in k.addr[j] :
           a \in k2.addr[j] \/ (IsAddrDel(o) /\ o.on = j /\ o.arg = a)
      /\ \A pref \in Prefs : ~ (IsDel(o) /\ o.arg = pref) =>
           /\ Range(k.rules[pref]) \subseteq Range(k2.rules[pref])
           /\ k.rules[pref] # <<>> => k2.rules[pref] # <<>>
  BY ScriptEffect
<1> HIDE DEF k2
<1>2. FromPref(i) \in Prefs /\ UidPref(i) \in Prefs /\ GuardPref \in Prefs
  BY PrefsOfRules
<1>3. CASE part = "address"
  <2>1. plan.addr \in k.addr[i]
    BY <1>3, HoldsAre
  <2>2. SUFFICES ASSUME IsAddrDel(o), o.on = i, o.arg = plan.addr PROVE FALSE
    <3>1. plan.addr \in k2.addr[i] => Holds(k2, "address", i, plan)
      BY HoldsAre
    <3>2. plan.addr \in k2.addr[i] => Holds(k2, part, i, plan)
      BY <1>3, <3>1
    <3> QED  BY <1>1, <2>1, <3>2 DEF k2
  <2>3. o = [arg |-> o.arg, op |-> o.op, on |-> o.on]
    <3>1. CASE o \in CommonOps
      BY <3>1, CommonOpShape
    <3>2. CASE o.on \in Names /\ o \in OpsOn(o.on)
      <4>1. PICK j \in Names : j = o.on
        BY <3>2
      <4> QED  BY <3>2, <4>1, OpOnShape
    <3> QED  BY <3>1, <3>2, OpsOfShape
  <2>4. o = Op("addr del", i, plan.addr)
    BY <2>2, <2>3 DEF Op, IsAddrDel
  <2>5. Undoes("address", i, plan) = {Op("addr del", i, plan.addr)}
    BY PartsAre
  <2> QED  BY <1>3, <2>4, <2>5, Zenon
<1>4. CASE part = "source"
  <2>1. FromRule(i, plan.addr) \in Range(k.rules[FromPref(i)])
    BY <1>4, HoldsAre
  <2>2. SUFFICES ASSUME IsDel(o), o.arg = FromPref(i) PROVE FALSE
    <3>1. FromRule(i, plan.addr) \in Range(k2.rules[FromPref(i)]) => Holds(k2, "source", i, plan)
      BY HoldsAre
    <3>2. FromRule(i, plan.addr) \in Range(k2.rules[FromPref(i)]) => Holds(k2, part, i, plan)
      BY <1>4, <3>1
    <3> QED  BY <1>1, <1>2, <2>1, <3>2 DEF k2
  <2>3. o = DelRule(i, FromPref(i))
    BY <2>2, DelIs
  <2>4. Undoes("source", i, plan) = {DelRule(i, FromPref(i))}
    BY PartsAre
  <2> QED  BY <1>4, <2>3, <2>4, Zenon
<1>5. CASE part = "route"
  <2>1. i \in k.route
    BY <1>5, HoldsAre
  <2>2. Holds(k2, "route", i, plan)
    BY <1>1, <2>1, HoldsAre
  <2> QED  BY <1>5, <2>2 DEF k2
<1>6. CASE part = "users"
  <2>1. k.rules[UidPref(i)] # <<>>
    BY <1>6, HoldsAre
  <2>2. SUFFICES ASSUME IsDel(o), o.arg = UidPref(i) PROVE FALSE
    <3>1. k2.rules[UidPref(i)] # <<>> => Holds(k2, "users", i, plan)
      BY HoldsAre
    <3>2. k2.rules[UidPref(i)] # <<>> => Holds(k2, part, i, plan)
      BY <1>6, <3>1
    <3> QED  BY <1>1, <1>2, <2>1, <3>2 DEF k2
  <2>3. o = DelRule(i, UidPref(i))
    BY <2>2, DelIs
  <2>4. Undoes("users", i, plan) = {DelRule(i, UidPref(i))}
    BY PartsAre
  <2> QED  BY <1>6, <2>3, <2>4, Zenon
<1>7. CASE part = "guard"
  <2>1. Prohibit \in Range(k.rules[GuardPref])
    BY <1>7, HoldsAre
  <2>2. SUFFICES ASSUME IsDel(o), o.arg = GuardPref PROVE FALSE
    <3>1. Prohibit \in Range(k2.rules[GuardPref]) => Holds(k2, "guard", i, plan)
      BY HoldsAre
    <3>2. Prohibit \in Range(k2.rules[GuardPref]) => Holds(k2, part, i, plan)
      BY <1>7, <3>1
    <3> QED  BY <1>1, <1>2, <2>1, <3>2 DEF k2
  <2>3. o = GuardDel
    BY <2>2, DelIs
  <2>4. Undoes("guard", i, plan) = {GuardDel}
    BY PartsAre
  <2> QED  BY <1>7, <2>3, <2>4, Zenon
<1> QED  BY <1>3, <1>4, <1>5, <1>6, <1>7 DEF Parts

\* A rule that is added is there, and its preference is not empty.
LEMMA AddedIsThere ==
  ASSUME NEW k, KernelOK(k), NEW pref \in Prefs, NEW rule,
         rule.table \in disk.tables \cup {None}
  PROVE  /\ rule \in Range(RuleAdd(k, pref, rule).rules[pref])
         /\ RuleAdd(k, pref, rule).rules[pref] # <<>>
<1> DEFINE r == k.rules[pref]
           k2 == RuleAdd(k, pref, rule)
<1>0. r \in Seq(RulesAt(pref))
  BY DEF KernelOK
<1>1. CASE rule \in Range(r)
  <2>1. k2 = k
    BY <1>1 DEF RuleAdd
  <2>2. r # <<>>
    <3>1. Range(<<>>) = {}
      BY DEF Range
    <3> QED  BY <1>1, <3>1
  <2> QED  BY <1>1, <2>1, <2>2
<1>2. CASE rule \notin Range(r)
  <2>1. k2.rules[pref] = Append(r, rule)
    <3>1. k = [addr |-> k.addr, link |-> k.link, route |-> k.route, rules |-> k.rules]
          /\ k.rules = [q \in Prefs |-> k.rules[q]]
      BY DEF KernelOK
    <3>2. k2 = [k EXCEPT !.rules[pref] = Append(@, rule)]
      BY <1>2 DEF RuleAdd
    <3> QED  BY <3>1, <3>2
  <2> HIDE DEF r, k2
  <2>2. r \in Seq(RulesAt(pref) \cup {rule})
    BY <1>0
  <2>3. Append(r, rule) # <<>> /\ rule \in Range(Append(r, rule))
    <3>1. /\ Append(r, rule)[Len(r) + 1] = rule /\ Len(r) + 1 \in DOMAIN Append(r, rule)
      BY <2>2
    <3>2. Append(r, rule) # <<>>
      BY <2>2, AppendProperties
    <3> QED  BY <3>1, <3>2 DEF Range
  <2> QED  BY <2>1, <2>3 DEF k2
<1> QED  BY <1>1, <1>2

\* A command that does a part makes it hold, if the link and the table are
\* there.
LEMMA DoneHolds ==
  ASSUME NEW k, KernelOK(k), NEW i \in Names, NEW plan, NEW part \in Parts,
         NEW o \in Does(part, i, plan),
         part = "guard" \/ i \in k.link \cap disk.tables
  PROVE  o.op \in ScriptNames /\ Holds(Effect(k, o), part, i, plan)
<1>0. /\ k = [addr |-> k.addr, link |-> k.link, route |-> k.route, rules |-> k.rules]
      /\ k.addr \in [Names -> SUBSET Addrs]
      /\ FromPref(i) \in Prefs /\ UidPref(i) \in Prefs /\ GuardPref \in Prefs
  BY PrefsOfRules DEF KernelOK
<1>1. CASE part = "address"
  <2>1. Does("address", i, plan) = {Op("addr add", i, plan.addr)}
    BY PartsAre
  <2>2. o = Op("addr add", i, plan.addr)
    BY <1>1, <2>1, Zenon
  <2>3. o.op = "addr add" /\ o.on = i /\ o.arg = plan.addr
    BY <2>2 DEF Op
  <2>4. Effect(k, o) = AddrAdd(k, i, plan.addr)
    BY <2>3 DEF Effect
  <2>5. i \in k.link
    BY <1>1
  <2>6. AddrAdd(k, i, plan.addr).addr[i] = k.addr[i] \cup {plan.addr}
    <3>1. AddrAdd(k, i, plan.addr) = [k EXCEPT !.addr[i] = @ \cup {plan.addr}]
      BY <2>5 DEF AddrAdd
    <3>2. [k EXCEPT !.addr[i] = @ \cup {plan.addr}].addr = [k.addr EXCEPT ![i] = @ \cup {plan.addr}]
      BY <1>0
    <3> QED  BY <1>0, <3>1, <3>2
  <2>7. Holds(Effect(k, o), "address", i, plan)
    BY <2>4, <2>6, HoldsAre
  <2> QED  BY <1>1, <2>3, <2>7 DEF ScriptNames
<1>2. CASE part = "source"
  <2>1. Does("source", i, plan) = {FromAdd(i, plan.addr)}
    BY PartsAre
  <2>2. o = FromAdd(i, plan.addr)
    BY <1>2, <2>1, Zenon
  <2> DEFINE rule == FromRule(i, plan.addr)
  <2>3. o.op = "rule add" /\ o.arg.pref = FromPref(i) /\ o.arg.rule = rule
    BY <2>2 DEF FromAdd, Op
  <2>4. Effect(k, o) = RuleAdd(k, FromPref(i), rule)
    BY <2>3 DEF Effect
  <2>5. rule.table \in disk.tables \cup {None}
    BY <1>2 DEF FromRule
  <2>6. Holds(Effect(k, o), "source", i, plan)
    BY <1>0, <2>4, <2>5, AddedIsThere, HoldsAre
  <2> QED  BY <1>2, <2>3, <2>6 DEF ScriptNames
<1>3. CASE part = "route"
  <2>1. Does("route", i, plan) = {Do("route replace", i)}
    BY PartsAre
  <2>2. o = Do("route replace", i)
    BY <1>3, <2>1, Zenon
  <2>3. o.op = "route replace" /\ o.on = i
    BY <2>2 DEF Do, Op
  <2>4. Effect(k, o) = RouteReplace(k, i)
    BY <2>3 DEF Effect
  <2>5. i \in k.link \cap disk.tables
    BY <1>3
  <2>6. i \in RouteReplace(k, i).route
    BY <1>0, <2>5 DEF RouteReplace
  <2>7. Holds(Effect(k, o), "route", i, plan)
    BY <2>4, <2>6, HoldsAre
  <2> QED  BY <1>3, <2>3, <2>7 DEF ScriptNames
<1>4. CASE part = "users"
  <2>1. Does("users", i, plan) = {UidAdd(i, u) : u \in Uids}
    BY DEF Does
  <2>2. o \in {UidAdd(i, u) : u \in Uids}
    BY <1>4, <2>1, Zenon
  <2>8. PICK u \in Uids : o = UidAdd(i, u)
    BY <2>2, Zenon
  <2> DEFINE rule == UidRule(i, u)
  <2>3. o.op = "rule add" /\ o.arg.pref = UidPref(i) /\ o.arg.rule = rule
    BY <2>8 DEF UidAdd, Op
  <2>4. Effect(k, o) = RuleAdd(k, UidPref(i), rule)
    BY <2>3 DEF Effect
  <2>5. rule.table \in disk.tables \cup {None}
    BY <1>4 DEF UidRule
  <2>6. Holds(Effect(k, o), "users", i, plan)
    BY <1>0, <2>4, <2>5, AddedIsThere, HoldsAre
  <2> QED  BY <1>4, <2>3, <2>6 DEF ScriptNames
<1>5. CASE part = "guard"
  <2>1. Does("guard", i, plan) = {GuardAdd}
    BY PartsAre
  <2>2. o = GuardAdd
    BY <1>5, <2>1, Zenon
  <2>3. o.op = "rule add" /\ o.arg.pref = GuardPref /\ o.arg.rule = Prohibit
    BY <2>2 DEF GuardAdd, Op
  <2>4. Effect(k, o) = RuleAdd(k, GuardPref, Prohibit)
    BY <2>3 DEF Effect
  <2>5. Prohibit.table \in disk.tables \cup {None}
    BY DEF Prohibit
  <2>6. Holds(Effect(k, o), "guard", i, plan)
    BY <1>0, <2>4, <2>5, AddedIsThere, HoldsAre
  <2> QED  BY <1>5, <2>3, <2>6 DEF ScriptNames
<1> QED  BY <1>1, <1>2, <1>3, <1>4, <1>5 DEF Parts

LEMMA StepQueue ==
  ASSUME HostInv, NEW p \in Processes, KernelStep(p)
  PROVE  /\ todo[p] # <<>> /\ todo[p] \in Seq(OpsOf(p)) /\ Head(todo[p]) \in OpsOf(p)
         /\ kernel' = Effect(kernel, Head(todo[p]))
         /\ todo'[p] = Tail(todo[p])
         /\ \A q \in Processes : q # p => todo'[q] = todo[q]
         /\ UNCHANGED <<disk, parents, unit, loaded, enabled, result, last, alone>>
<1>1. todo[p] # <<>> /\ todo = [q \in Processes |-> todo[q]] /\ todo[p] \in Seq(OpsOf(p))
  BY DEF KernelStep, HostInv, QueuesOK
<1>2. Head(todo[p]) \in OpsOf(p) /\ Tail(todo[p]) \in Seq(OpsOf(p))
  BY <1>1, HeadTailProperties
<1>3. todo' = [todo EXCEPT ![p] = <<>> \o Tail(todo[p])]
  BY DEF KernelStep, Done, Continue
<1>4. <<>> \o Tail(todo[p]) = Tail(todo[p])
  BY <1>2
<1> QED  BY <1>1, <1>2, <1>3, <1>4 DEF KernelStep, Done, Continue, systemVars

\* A command of the script leaves every part due that is redone.
LEMMA DueStays ==
  ASSUME BlocksApart, HostInv, NEW p \in Processes, KernelStep(p),
         Head(todo[p]).op \in ScriptNames,
         NEW i \in Names, NEW part \in Parts, Due(part, i),
         Followed(todo[p], Undoes(part, i, disk.script[i]), Does(part, i, disk.script[i])),
         part = "guard" \/ i \in kernel.link \cap disk.tables
  PROVE  Due(part, i)'
<1> DEFINE plan == disk.script[i]
           o == Head(todo[p])
           A == Undoes(part, i, plan)
           B == Does(part, i, plan)
<1>1. /\ todo[p] # <<>> /\ todo[p] \in Seq(OpsOf(p)) /\ o \in OpsOf(p)
      /\ kernel' = Effect(kernel, o) /\ todo'[p] = Tail(todo[p])
      /\ \A q \in Processes : q # p => todo'[q] = todo[q]
      /\ disk' = disk
  BY StepQueue
<1>2. KernelOK(kernel)
  BY DEF HostInv
<1>3. /\ Has(todo[p], B) <=> o \in B \/ Has(Tail(todo[p]), B)
      /\ o \in A => Has(Tail(todo[p]), B)
  BY <1>1, TailFollows
<1>4. SUFFICES \/ Holds(kernel', part, i, plan)
               \/ \E q \in Processes : Has(todo'[q], B)
  BY <1>1 DEF Due
<1>5. CASE o \in A
  BY <1>1, <1>3, <1>5
<1>6. CASE o \in B
  BY <1>1, <1>2, <1>6, DoneHolds
<1>7. CASE o \notin A /\ o \notin B
  <2>1. CASE Holds(kernel, part, i, plan)
    <3>1. Holds(Effect(kernel, o), part, i, plan)
      BY <1>1, <1>2, <1>7, <2>1, HoldsStays
    <3> QED  BY <1>1, <3>1
  <2>2. ASSUME NEW q \in Processes, Has(todo[q], B)
        PROVE  Has(todo'[q], B)
    <3>1. CASE q = p
      BY <1>1, <1>3, <1>7, <2>2, <3>1
    <3>2. CASE q # p
      BY <1>1, <2>2, <3>2
    <3> QED  BY <3>1, <3>2
  <2> QED  BY <2>1, <2>2 DEF Due
<1> QED  BY <1>5, <1>6, <1>7

\* A step that leaves addresses, routes and rules, and that puts commands in
\* the place of one that does nothing for a part, leaves it due.
LEMMA DueMoves ==
  ASSUME HostInv, NEW p \in Processes, todo[p] # <<>>,
         kernel'.addr = kernel.addr, kernel'.route = kernel.route, kernel'.rules = kernel.rules,
         disk' = disk,
         \A q \in Processes : q # p => todo'[q] = todo[q],
         NEW S, NEW more \in Seq(S), todo'[p] = more \o Tail(todo[p]),
         NEW i \in Names, NEW part \in Parts, Due(part, i),
         Head(todo[p]) \notin Does(part, i, disk.script[i])
  PROVE  Due(part, i)'
<1> DEFINE plan == disk.script[i]
           B == Does(part, i, plan)
<1>1. todo[p] \in Seq(OpsOf(p)) /\ Tail(todo[p]) \in Seq(OpsOf(p))
  <2>1. todo[p] \in Seq(OpsOf(p))
    BY DEF HostInv, QueuesOK
  <2> QED  BY <2>1, HeadTailProperties
<1>2. SUFFICES \/ Holds(kernel', part, i, plan)
               \/ \E q \in Processes : Has(todo'[q], B)
  BY DEF Due
<1>3. CASE Holds(kernel, part, i, plan)
  <2>1. Holds(kernel', part, i, plan)
    <3>1. CASE part = "address"
      <4>1. Holds(kernel, "address", i, plan)
        BY <1>3, <3>1
      <4>2. Holds(kernel', "address", i, plan)
        BY <4>1, HoldsAre
      <4> QED  BY <3>1, <4>2
    <3>2. CASE part = "source"
      <4>1. Holds(kernel, "source", i, plan)
        BY <1>3, <3>2
      <4>2. Holds(kernel', "source", i, plan)
        BY <4>1, HoldsAre
      <4> QED  BY <3>2, <4>2
    <3>3. CASE part = "route"
      <4>1. Holds(kernel, "route", i, plan)
        BY <1>3, <3>3
      <4>2. Holds(kernel', "route", i, plan)
        BY <4>1, HoldsAre
      <4> QED  BY <3>3, <4>2
    <3>4. CASE part = "users"
      <4>1. Holds(kernel, "users", i, plan)
        BY <1>3, <3>4
      <4>2. Holds(kernel', "users", i, plan)
        BY <4>1, HoldsAre
      <4> QED  BY <3>4, <4>2
    <3>5. CASE part = "guard"
      <4>1. Holds(kernel, "guard", i, plan)
        BY <1>3, <3>5
      <4>2. Holds(kernel', "guard", i, plan)
        BY <4>1, HoldsAre
      <4> QED  BY <3>5, <4>2
    <3> QED  BY <3>1, <3>2, <3>3, <3>4, <3>5 DEF Parts
  <2> QED  BY <2>1
<1>4. ASSUME NEW q \in Processes, Has(todo[q], B)
      PROVE  Has(todo'[q], B)
  <2>1. CASE q = p
    <3>1. Has(Tail(todo[p]), B)
      BY <1>1, <1>4, <2>1, TailFollows
    <3> DEFINE T == S \cup OpsOf(p)
    <3>2. more \in Seq(T) /\ Tail(todo[p]) \in Seq(T)
      BY <1>1
    <3> HIDE DEF T, B
    <3>3. Has(more \o Tail(todo[p]), B)
      BY <3>1, <3>2, HasConcat
    <3> QED  BY <2>1, <3>3
  <2>2. CASE q # p
    BY <1>4, <2>2
  <2> QED  BY <2>1, <2>2
<1> QED  BY <1>3, <1>4 DEF Due

JustBooted ==
  /\ kernel = EmptyKernel
  /\ unit = [i \in Names |-> "inactive"]
  /\ loaded = disk.dropin
  /\ todo = UnitsToStart
  /\ enabled \subseteq Names
  /\ disk.script # None => DOMAIN disk.script \subseteq Names

\* As the system comes up every enabled unit is on its way.
LEMMA BootBegins == JustBooted => Booting
<1> SUFFICES ASSUME JustBooted PROVE Booting
  OBVIOUS
<1>1. ASSUME NEW p \in Processes
      PROVE  /\ p \in enabled => todo[p] = <<Do("systemctl start", p)>>
             /\ p \notin enabled => todo[p] = <<>>
  BY <1>1 DEF JustBooted, UnitsToStart
<1>2. Names \subseteq Processes /\ Admin \in Processes /\ Admin \notin enabled
  BY NoneIsNoName DEF Processes, JustBooted
<1>3. ASSUME NEW p \in Processes, NEW n \in 1 .. Len(todo[p])
      PROVE  todo[p][n] = Do("systemctl start", p)
  <2> DEFINE x == Do("systemctl start", p)
  <2> HIDE DEF x
  <2>1. todo[p] = <<>> \/ todo[p] = <<x>>
    BY <1>1 DEF x
  <2>2. n \in 1 .. Len(<<>>) => FALSE
    OBVIOUS
  <2>3. Len(<<x>>) = 1 /\ <<x>>[1] = x
    OBVIOUS
  <2>4. todo[p][n] = x
    BY <2>1, <2>2, <2>3
  <2> QED  BY <2>4 DEF x
<1>4. \A p : Do("systemctl start", p).op = "systemctl start"
  BY DEF Do, Op
<1>5. \A p \in Names : \A n \in 1 .. Len(todo[p]) : todo[p][n].op \in BootNames
  BY <1>2, <1>3, <1>4 DEF BootNames
<1>6. ASSUME NEW p \in Processes, disk.script # None PROVE Redone(todo[p])
  <2>1. ASSUME NEW i \in DOMAIN disk.script, NEW part \in Wanted(disk.script[i]),
               NEW n \in 1 .. Len(todo[p])
        PROVE  todo[p][n] \notin Undoes(part, i, disk.script[i])
    <3>1. i \in Names /\ part \in Parts
      BY <1>6, <2>1, WantedParts DEF JustBooted
    <3>2. todo[p][n].op = "systemctl start"
      BY <1>3, <1>4
    <3>3. ~ IsAddrDel(todo[p][n]) /\ ~ IsDel(todo[p][n])
      BY <3>2 DEF IsAddrDel, IsDel
    <3> QED  BY <3>1, <3>3, UndoneBy
  <2> QED  BY <2>1, NothingToFollow DEF Redone
<1>7. \A i \in enabled : Coming(i)
  <2>1. ASSUME NEW i \in enabled PROVE Coming(i)
    <3>1. i \in Names /\ i \in Processes
      BY <1>2 DEF JustBooted
    <3> QED  BY <1>1, <3>1 DEF JustBooted, Coming, OneCommand, EmptyKernel
  <2> QED  BY <2>1
<1> QED  BY <1>1, <1>2, <1>5, <1>6, <1>7 DEF Booting, JustBooted

LEMMA BootedNext == JustBooted' => Booting'
BY BootBegins, PTL

\* What a start of a unit does to the others that are on their way.
LEMMA UnitStepLeaves ==
  ASSUME HostInv, NEW p \in Names, todo[p] # <<>>, Head(todo[p]).op \notin ScriptNames,
         kernel'.addr = kernel.addr, kernel'.route = kernel.route, kernel'.rules = kernel.rules,
         disk' = disk,
         \A q \in Processes : q # p => todo'[q] = todo[q],
         NEW more \in Seq(OpsOf(p)), todo'[p] = more \o Tail(todo[p]),
         NEW i \in Names, disk.script # None
  PROVE  /\ i \in DOMAIN disk.script /\ AllDue(i) => AllDue(i)'
         /\ i # p /\ (i \in kernel'.link <=> i \in kernel.link) /\ unit'[i] = unit[i] =>
              /\ Coming(i) => Coming(i)'
              /\ SettingUp(i) => SettingUp(i)'
<1>0. p \in Processes /\ i \in Processes
  BY DEF Processes
<1>1. ASSUME i \in DOMAIN disk.script, AllDue(i) PROVE AllDue(i)'
  <2>1. ASSUME NEW part \in Wanted(disk.script[i]) PROVE Due(part, i)'
    <3>1. part \in Parts /\ Due(part, i)
      BY <1>1, WantedParts DEF AllDue
    <3>2. Head(todo[p]) \notin Does(part, i, disk.script[i])
      <4>1. SUFFICES ASSUME Head(todo[p]) \in Does(part, i, disk.script[i]) PROVE FALSE
        OBVIOUS
      <4>2. IsAddition(Head(todo[p]))
        BY <3>1, <4>1, DoneBy
      <4> QED  BY <4>2 DEF IsAddition, ScriptNames
    <3> QED  BY <1>0, <3>1, <3>2, DueMoves
  <2> QED  BY <2>1 DEF AllDue
<1>2. ASSUME i # p, i \in kernel'.link <=> i \in kernel.link, unit'[i] = unit[i], Coming(i)
      PROVE  Coming(i)'
  <2>1. todo'[i] = todo[i]
    BY <1>0, <1>2
  <2> QED  BY <1>2, <2>1 DEF Coming, OneCommand
<1>3. ASSUME i # p, i \in kernel'.link <=> i \in kernel.link, unit'[i] = unit[i], SettingUp(i)
      PROVE  SettingUp(i)'
  <2>1. todo'[i] = todo[i]
    BY <1>0, <1>3
  <2>2. i \in disk.dropin \cap disk.tables \cap DOMAIN disk.script => AllDue(i)'
    BY <1>1, <1>3 DEF SettingUp
  <2>3. /\ i \in kernel'.link
        /\ \A n \in 1 .. Len(todo'[i]) : todo'[i][n].op \in ScriptNames \cup {"started"}
        /\ unit'[i] = "active" \/ Has(todo'[i], {Do("started", i)})
    BY <1>3, <2>1 DEF SettingUp
  <2> QED  BY <2>2, <2>3 DEF SettingUp
<1> QED  BY <1>1, <1>2, <1>3

\* What a process of the boot does next, and for whom.
LEMMA BootHead ==
  ASSUME HostInv, Booting, NEW p \in Processes, todo[p] # <<>>
  PROVE  /\ p \in Names /\ p \in enabled
         /\ todo[p] \in Seq(OpsOf(p)) /\ Head(todo[p]) \in OpsOf(p)
         /\ Tail(todo[p]) \in Seq(OpsOf(p))
         /\ Head(todo[p]).op \in BootNames
         /\ \A n \in 1 .. Len(Tail(todo[p])) : Tail(todo[p])[n].op \in BootNames
         /\ \A name \in PlainNames : Runs(p, name) => Subject(p) = p /\ Head(todo[p]) = Do(name, p)
<1>1. p # Admin /\ p \in Names /\ p \in enabled
  BY DEF Booting, Processes
<1>2. todo[p] \in Seq(OpsOf(p))
  BY DEF HostInv, QueuesOK
<1>3. \A n \in 1 .. Len(todo[p]) : todo[p][n].op \in BootNames
  BY <1>1 DEF Booting
<1>4. /\ Head(todo[p]) = todo[p][1] /\ 1 \in 1 .. Len(todo[p])
      /\ \A n \in 1 .. Len(Tail(todo[p])) : Tail(todo[p])[n] = todo[p][n + 1] /\ n + 1 \in 1 .. Len(todo[p])
      /\ Head(todo[p]) \in OpsOf(p) /\ Tail(todo[p]) \in Seq(OpsOf(p))
  BY <1>2
<1>5. \A name \in PlainNames : Runs(p, name) => Subject(p) = p /\ Head(todo[p]) = Do(name, p)
  BY <1>1, PlainHead DEF HostInv
<1> QED  BY <1>1, <1>2, <1>3, <1>4, <1>5

\* The queue after the step of a unit's process.
LEMMA BootQueues ==
  ASSUME HostInv, Booting, NEW p \in Processes, todo[p] # <<>>,
         UNCHANGED <<disk, enabled, loaded>>,
         \A q \in Processes : q # p => todo'[q] = todo[q],
         NEW more \in Seq(OpsOf(p)), todo'[p] = more \o Tail(todo[p]),
         \A n \in 1 .. Len(more) : more[n].op \in BootNames,
         disk.script # None =>
           /\ Redone(more)
           /\ \A i \in enabled : (Coming(i) \/ SettingUp(i))'
  PROVE  Booting'
<1>1. /\ p \in Names /\ p \in enabled /\ p # Admin
      /\ todo[p] \in Seq(OpsOf(p)) /\ Tail(todo[p]) \in Seq(OpsOf(p))
      /\ \A n \in 1 .. Len(Tail(todo[p])) : Tail(todo[p])[n].op \in BootNames
  BY BootHead, NoneIsNoName
<1>2. todo'[Admin] = <<>> /\ loaded' = disk'.dropin
  BY <1>1 DEF Booting, Processes
<1>3. ASSUME NEW q \in Names
      PROVE  /\ q \notin enabled' => todo'[q] = <<>>
             /\ \A n \in 1 .. Len(todo'[q]) : todo'[q][n].op \in BootNames
  <2>1. CASE q = p
    <3>1. \A n \in 1 .. Len(more \o Tail(todo[p])) : (more \o Tail(todo[p]))[n].op \in BootNames
      <4> DEFINE T == OpsOf(p)
                 s == Tail(todo[p])
      <4>1. more \in Seq(T) /\ s \in Seq(T)
        BY <1>1
      <4>2. \A n \in 1 .. Len(s) : s[n].op \in BootNames
        BY <1>1
      <4> HIDE DEF T, s
      <4>3. /\ Len(more \o s) = Len(more) + Len(s)
            /\ \A n \in 1 .. Len(more) + Len(s) :
                 (more \o s)[n] = IF n <= Len(more) THEN more[n] ELSE s[n - Len(more)]
        BY <4>1, ConcatProperties
      <4>4. Len(more) \in Nat /\ Len(s) \in Nat
        BY <4>1
      <4>5. ASSUME NEW n \in 1 .. Len(more \o s) PROVE (more \o s)[n].op \in BootNames
        <5>1. n \in 1 .. Len(more) + Len(s) /\ n \in Nat
          BY <4>3, <4>4
        <5>2. CASE n <= Len(more)
          BY <4>3, <4>4, <5>1, <5>2
        <5>3. CASE ~ (n <= Len(more))
          <6>1. n - Len(more) \in 1 .. Len(s)
            BY <4>4, <5>1, <5>3
          <6> QED  BY <4>2, <4>3, <5>1, <5>3, <6>1
        <5> QED  BY <5>2, <5>3
      <4> QED  BY <4>5 DEF s
    <3> QED  BY <1>1, <2>1, <3>1
  <2>2. CASE q # p
    BY <2>2 DEF Booting, Processes
  <2> QED  BY <2>1, <2>2
<1>4. ASSUME disk.script # None, NEW q \in Processes PROVE Redone(todo[q])'
  <2>1. Redone(todo[q])
    BY <1>4 DEF Booting
  <2>2. CASE q = p
    <3>1. ASSUME NEW i \in DOMAIN disk.script, NEW part \in Wanted(disk.script[i])
          PROVE  Followed(more \o Tail(todo[p]), Undoes(part, i, disk.script[i]),
                          Does(part, i, disk.script[i]))
      <4> DEFINE T == OpsOf(p)
                 A == Undoes(part, i, disk.script[i])
                 B == Does(part, i, disk.script[i])
                 s == Tail(todo[p])
      <4>1. Followed(todo[p], A, B) /\ Followed(more, A, B)
        BY <1>4, <2>1, <2>2 DEF Redone
      <4> HIDE DEF A, B
      <4>2. Followed(s, A, B)
        BY <1>1, <4>1, TailFollows
      <4>3. s \in FollowedSeqs(T, A, B) /\ more \in FollowedSeqs(T, A, B)
        BY <1>1, <4>1, <4>2 DEF FollowedSeqs
      <4> HIDE DEF s, T
      <4>4. more \o s \in FollowedSeqs(T, A, B)
        BY <4>3, FollowedConcat
      <4> QED  BY <4>4 DEF FollowedSeqs, A, B, s
    <3> QED  BY <2>2, <3>1 DEF Redone
  <2>3. CASE q # p
    BY <2>1, <2>3 DEF Redone
  <2> QED  BY <2>2, <2>3
<1> QED  BY <1>2, <1>3, <1>4 DEF Booting

\* Nobody but the script's commands changes the kernel at the boot, except
\* for links.
LEMMA BootKernelStep ==
  ASSUME BlocksApart, HostInv, Booting, NEW p \in Processes, KernelStep(p)
  PROVE  Booting'
<1> DEFINE o == Head(todo[p])
<1>1. /\ todo[p] # <<>> /\ o \in OpsOf(p) /\ kernel' = Effect(kernel, o)
      /\ todo'[p] = Tail(todo[p]) /\ todo[p] \in Seq(OpsOf(p)) /\ Tail(todo[p]) \in Seq(OpsOf(p))
      /\ \A q \in Processes : q # p => todo'[q] = todo[q]
      /\ UNCHANGED <<disk, unit, loaded>>
  BY StepQueue, HeadTailProperties
<1>2. UNCHANGED enabled
  BY DEF KernelStep, systemVars
<1>3. p \in Names /\ o.op \in ScriptNames
  <2>1. o.op \in BootNames /\ p \in Names
    BY <1>1, BootHead
  <2>2. o.op \in KernelOps
    BY DEF KernelStep
  <2> QED  BY <2>1, <2>2 DEF BootNames, ScriptNames, KernelOps
<1>4. kernel'.link = kernel.link
  BY <1>1, <1>3, ScriptEffect DEF HostInv
<1>5. ASSUME NEW i \in enabled, disk.script # None
      PROVE  (Coming(i) \/ SettingUp(i))'
  <2>0. i \in Names /\ i \in Processes
    BY DEF HostInv, DiskOK, Processes
  <2>1. CASE Coming(i)
    <3>1. i # p
      <4>1. ASSUME NEW name, todo[p] = <<Do(name, p)>> PROVE o.op = name
        <5>1. o = Do(name, p)
          BY <4>1
        <5> QED  BY <5>1 DEF Do, Op
      <4> QED  BY <1>3, <2>1, <4>1 DEF Coming, OneCommand, ScriptNames
    <3>2. todo'[i] = todo[i]
      BY <1>1, <2>0, <3>1
    <3> QED  BY <1>1, <1>4, <2>1, <3>2 DEF Coming, OneCommand
  <2>2. CASE SettingUp(i)
    <3>1. /\ \A n \in 1 .. Len(todo'[i]) : todo'[i][n].op \in ScriptNames \cup {"started"}
          /\ Has(todo[i], {Do("started", i)}) => Has(todo'[i], {Do("started", i)})
      <4>1. CASE i # p
        BY <1>1, <2>0, <2>2, <4>1 DEF SettingUp
      <4>2. CASE i = p
        <5>1. \A n \in 1 .. Len(Tail(todo[p])) :
                Tail(todo[p])[n] = todo[p][n + 1] /\ n + 1 \in 1 .. Len(todo[p])
          BY <1>1
        <5>2. o # Do("started", i)
          <6>1. Do("started", i).op = "started"
            BY DEF Do, Op
          <6> QED  BY <1>3, <6>1 DEF ScriptNames
        <5>3. Has(todo[p], {Do("started", i)}) => Has(Tail(todo[p]), {Do("started", i)})
          BY <1>1, <5>2, TailFollows
        <5>4. todo'[i] = Tail(todo[p])
          BY <1>1, <4>2
        <5>5. \A n \in 1 .. Len(Tail(todo[p])) : Tail(todo[p])[n].op \in ScriptNames \cup {"started"}
          <6>1. \A n \in 1 .. Len(todo[p]) : todo[p][n].op \in ScriptNames \cup {"started"}
            BY <2>2, <4>2 DEF SettingUp
          <6> QED  BY <5>1, <6>1
        <5> QED  BY <4>2, <5>3, <5>4, <5>5
      <4> QED  BY <4>1, <4>2
    <3>2. ASSUME i \in disk.dropin \cap disk.tables \cap DOMAIN disk.script,
                 NEW part \in Wanted(disk.script[i])
          PROVE  Due(part, i)'
      <4>1. part \in Parts /\ Due(part, i)
        BY <2>2, <3>2, WantedParts DEF SettingUp, AllDue
      <4>2. Followed(todo[p], Undoes(part, i, disk.script[i]), Does(part, i, disk.script[i]))
        BY <1>5, <3>2 DEF Booting, Redone
      <4>3. i \in kernel.link \cap disk.tables
        BY <2>2, <3>2 DEF SettingUp
      <4> QED  BY <1>3, <2>0, <4>1, <4>2, <4>3, DueStays
    <3>3. i \in disk.dropin \cap disk.tables \cap DOMAIN disk.script => AllDue(i)'
      BY <1>1, <3>2 DEF AllDue
    <3> QED  BY <1>1, <1>4, <2>2, <3>1, <3>3 DEF SettingUp
  <2>3. Coming(i) \/ SettingUp(i)
    BY <1>5 DEF Booting
  <2> QED  BY <2>1, <2>2, <2>3
<1>6. Redone(<<>>)
  <2>1. Len(<<>>) = 0 /\ 1 .. 0 = {}
    OBVIOUS
  <2> QED  BY <2>1 DEF Redone, Followed
<1>7. /\ <<>> \in Seq(OpsOf(p)) /\ todo'[p] = <<>> \o Tail(todo[p])
      /\ \A n \in 1 .. Len(<<>>) : <<>>[n].op \in BootNames
  BY <1>1
<1> QED  BY <1>1, <1>2, <1>5, <1>6, <1>7, BootQueues

\* What is coming is told by the head of its queue.
LEMMA ComingHead ==
  ASSUME NEW p, Coming(p)
  PROVE  /\ todo[p] # <<>> /\ Tail(todo[p]) = <<>>
         /\ Head(todo[p]).op \in {"systemctl start", "wg-quick up", "post"}
         /\ Runs(p, "systemctl start") => p \notin kernel.link /\ unit[p] = "inactive"
         /\ Runs(p, "wg-quick up") => p \notin kernel.link
         /\ Runs(p, "post") => p \in kernel.link
<1>1. ASSUME NEW name, todo[p] = <<Do(name, p)>>
      PROVE  todo[p] # <<>> /\ Tail(todo[p]) = <<>> /\ Head(todo[p]).op = name
  <2>1. todo[p] # <<>> /\ Tail(todo[p]) = <<>> /\ Head(todo[p]) = Do(name, p)
    BY <1>1
  <2> QED  BY <2>1 DEF Do, Op
<1>2. CASE p \notin kernel.link /\ unit[p] = "inactive" /\ OneCommand(p, "systemctl start")
  <2>1. todo[p] # <<>> /\ Tail(todo[p]) = <<>> /\ Head(todo[p]).op = "systemctl start"
    BY <1>1, <1>2 DEF OneCommand
  <2> QED  BY <1>2, <2>1 DEF Runs
<1>3. CASE p \notin kernel.link /\ OneCommand(p, "wg-quick up")
  <2>1. todo[p] # <<>> /\ Tail(todo[p]) = <<>> /\ Head(todo[p]).op = "wg-quick up"
    BY <1>1, <1>3 DEF OneCommand
  <2> QED  BY <1>3, <2>1 DEF Runs
<1>4. CASE p \in kernel.link /\ OneCommand(p, "post")
  <2>1. todo[p] # <<>> /\ Tail(todo[p]) = <<>> /\ Head(todo[p]).op = "post"
    BY <1>1, <1>4 DEF OneCommand
  <2> QED  BY <1>4, <2>1 DEF Runs
<1> QED  BY <1>2, <1>3, <1>4 DEF Coming

LEMMA SettingHead ==
  ASSUME NEW p \in Processes, QueuesOK, SettingUp(p), todo[p] # <<>>
  PROVE  Head(todo[p]).op \in ScriptNames \cup {"started"}
<1>1. Head(todo[p]) = todo[p][1] /\ 1 \in 1 .. Len(todo[p])
  <2>1. todo[p] \in Seq(OpsOf(p))
    BY DEF QueuesOK
  <2> QED  BY <2>1
<1> QED  BY <1>1 DEF SettingUp

LEMMA OneNotRedoing ==
  ASSUME NEW x, x.op \notin ScriptNames, disk.script # None => IsScript(disk.script)
  PROVE  disk.script # None => Redone(<<>>) /\ Redone(<<x>>)
<1>1. ASSUME disk.script # None, NEW i \in DOMAIN disk.script, NEW part \in Wanted(disk.script[i])
      PROVE  x \notin Undoes(part, i, disk.script[i])
  <2>1. i \in Names /\ part \in Parts
    BY <1>1, WantedParts DEF IsScript
  <2>2. ~ IsAddrDel(x) /\ ~ IsDel(x)
    BY DEF IsAddrDel, IsDel, ScriptNames
  <2> QED  BY <2>1, <2>2, UndoneBy
<1>2. \A A : x \notin A => \A n \in 1 .. Len(<<x>>) : <<x>>[n] \notin A
  BY OneCommandIs
<1>3. Len(<<>>) = 0 /\ 1 .. 0 = {}
  OBVIOUS
<1>4. disk.script # None => Redone(<<x>>)
  BY <1>1, <1>2, NothingToFollow DEF Redone
<1> QED  BY <1>3, <1>4 DEF Redone, Followed

LEMMA OneIs ==
  ASSUME NEW S, NEW x \in S
  PROVE  /\ <<x>> \in Seq(S) /\ <<x>> \o <<>> = <<x>>
         /\ \A n \in 1 .. Len(<<x>>) : <<x>>[n] = x
  OBVIOUS

\* systemctl start, of a unit that is not there yet.
LEMMA BootUnitStart ==
  ASSUME HostInv, Booting, NEW p \in Processes, SystemctlStart(p)
  PROVE  Booting'
<1> DEFINE x == Do("wg-quick up", p)
<1>0. todo[p] # <<>> /\ Runs(p, "systemctl start")
  BY DEF SystemctlStart, Runs
<1>1. /\ p \in Names /\ p \in enabled /\ Subject(p) = p /\ Tail(todo[p]) \in Seq(OpsOf(p))
      /\ Head(todo[p]) = Do("systemctl start", p) /\ Head(todo[p]).op = "systemctl start"
  BY <1>0, BootHead DEF PlainNames, Runs
<1>2. x \in OpsOf(p) /\ x.op = "wg-quick up"
  <2>1. x \in OpsOn(p)
    BY <1>1, DoTyped DEF PlainNames
  <2> QED  BY <1>1, <2>1, OpsOnAreOpsOf DEF Do, Op
<1>3. UNCHANGED <<kernel, disk, enabled, loaded>>
  <2>1. loaded = disk.dropin
    BY DEF Booting
  <2> QED  BY <1>1, <2>1 DEF SystemctlStart
<1> HIDE DEF x
<1>4. PICK more : /\ more = IF unit[p] = "active" THEN <<>> ELSE <<x>>
                  /\ Continue(p, more)
                  /\ unit' = IF unit[p] = "active" THEN unit ELSE [unit EXCEPT ![p] = "starting"]
  BY <1>1 DEF SystemctlStart, Done, x
<1>5. more \in Seq(OpsOf(p)) /\ \A n \in 1 .. Len(more) : more[n].op \in BootNames
  <2>1. CASE unit[p] = "active"
    BY <1>4, <2>1
  <2>2. CASE unit[p] # "active"
    <3>1. more = <<x>>
      BY <1>4, <2>2
    <3>2. <<x>> \in Seq(OpsOf(p)) /\ \A n \in 1 .. Len(<<x>>) : <<x>>[n].op \in BootNames
      BY <1>2, OneIs DEF BootNames
    <3> QED  BY <3>1, <3>2
  <2> QED  BY <2>1, <2>2
<1>6. todo'[p] = more \o Tail(todo[p]) /\ \A q \in Processes : q # p => todo'[q] = todo[q]
  BY <1>4 DEF Continue, HostInv, QueuesOK
<1>7. disk.script # None => Redone(more)
  <2>1. x.op \notin ScriptNames
    BY <1>2 DEF ScriptNames
  <2>2. disk.script # None => Redone(<<>>) /\ Redone(<<x>>)
    BY <2>1, OneNotRedoing DEF HostInv, DiskOK
  <2> QED  BY <1>4, <2>2
<1>8. Head(todo[p]).op \notin ScriptNames \cup {"started"}
  BY <1>1 DEF ScriptNames
<1>9. ASSUME disk.script # None, NEW i \in enabled
      PROVE  (Coming(i) \/ SettingUp(i))'
  <2>1. i \in Names /\ (Coming(i) \/ SettingUp(i))
    BY <1>9 DEF Booting, HostInv, DiskOK
  <2>2. CASE i # p
    <3>1. unit'[i] = unit[i]
      BY <1>4, <2>1, <2>2 DEF HostInv
    <3>2. /\ Coming(i) => Coming(i)'
          /\ SettingUp(i) => SettingUp(i)'
      BY <1>0, <1>1, <1>3, <1>5, <1>6, <1>8, <1>9, <2>1, <2>2, <3>1, UnitStepLeaves
    <3> QED  BY <2>1, <3>2
  <2>3. CASE i = p
    <3>1. Coming(p)
      BY <1>0, <1>8, <2>1, <2>3, SettingHead DEF HostInv
    <3>2. p \notin kernel.link /\ unit[p] = "inactive" /\ Tail(todo[p]) = <<>>
      BY <1>0, <3>1, ComingHead
    <3>3. todo'[p] = <<x>>
      BY <1>2, <1>4, <1>6, <3>2, OneIs
    <3> QED  BY <1>3, <2>3, <3>2, <3>3 DEF Coming, OneCommand, x
  <2> QED  BY <2>2, <2>3
<1> QED  BY <1>0, <1>3, <1>5, <1>6, <1>7, <1>9, BootQueues

\* wg-quick up: the link is not there, and an enabled unit has its conf.
LEMMA BootWgUp ==
  ASSUME HostInv, Booting, NEW p \in Processes, WgUp(p)
  PROVE  Booting'
<1> DEFINE x == Do("post", p)
<1>0. todo[p] # <<>> /\ Runs(p, "wg-quick up")
  BY DEF WgUp, Runs
<1>1. /\ p \in Names /\ p \in enabled /\ Subject(p) = p /\ Tail(todo[p]) \in Seq(OpsOf(p))
      /\ Head(todo[p]) = Do("wg-quick up", p) /\ Head(todo[p]).op = "wg-quick up"
  BY <1>0, BootHead DEF PlainNames, Runs
<1>2. x \in OpsOf(p) /\ x.op = "post"
  <2>1. x \in OpsOn(p)
    BY <1>1, DoTyped DEF PlainNames
  <2> QED  BY <1>1, <2>1, OpsOnAreOpsOf DEF Do, Op
<1>3. UNCHANGED <<disk, enabled, loaded>>
  BY DEF WgUp
<1> HIDE DEF x
<1>4. PICK more :
        /\ Continue(p, more)
        /\ \/ /\ p \in disk.conf \ kernel.link /\ more = <<x>> /\ UNCHANGED unit
              /\ kernel' = [kernel EXCEPT !.link = @ \cup {p}]
           \/ /\ p \notin disk.conf \ kernel.link /\ more = <<>> /\ UNCHANGED kernel
              /\ unit' = [unit EXCEPT ![p] = "failed"]
  BY <1>1 DEF WgUp, Done, x
<1>5. more \in Seq(OpsOf(p)) /\ \A n \in 1 .. Len(more) : more[n].op \in BootNames
  <2>1. CASE more = <<>>
    BY <2>1
  <2>2. CASE more = <<x>>
    <3>2. <<x>> \in Seq(OpsOf(p)) /\ \A n \in 1 .. Len(<<x>>) : <<x>>[n].op \in BootNames
      BY <1>2, OneIs DEF BootNames
    <3> QED  BY <2>2, <3>2
  <2> QED  BY <1>4, <2>1, <2>2
<1>6. todo'[p] = more \o Tail(todo[p]) /\ \A q \in Processes : q # p => todo'[q] = todo[q]
  BY <1>4 DEF Continue, HostInv, QueuesOK
<1>7. disk.script # None => Redone(more)
  <2>1. x.op \notin ScriptNames
    BY <1>2 DEF ScriptNames
  <2>2. disk.script # None => Redone(<<>>) /\ Redone(<<x>>)
    BY <2>1, OneNotRedoing DEF HostInv, DiskOK
  <2> QED  BY <1>4, <2>2
<1>8. Head(todo[p]).op \notin ScriptNames \cup {"started"}
  BY <1>1 DEF ScriptNames
<1>10. /\ kernel'.addr = kernel.addr /\ kernel'.route = kernel.route /\ kernel'.rules = kernel.rules
       /\ \A i \in Names : i # p => (i \in kernel'.link <=> i \in kernel.link)
       /\ \A i \in Names : i # p => unit'[i] = unit[i]
  <2>1. kernel = [addr |-> kernel.addr, link |-> kernel.link, route |-> kernel.route,
                  rules |-> kernel.rules]
        /\ unit \in [Names -> {"inactive", "starting", "active", "failed"}]
    BY DEF HostInv, KernelOK
  <2>2. CASE kernel' = [kernel EXCEPT !.link = @ \cup {p}] /\ UNCHANGED unit
    BY <2>1, <2>2
  <2>3. CASE UNCHANGED kernel /\ unit' = [unit EXCEPT ![p] = "failed"]
    BY <2>1, <2>3
  <2> QED  BY <1>4, <2>2, <2>3
<1>9. ASSUME disk.script # None, NEW i \in enabled
      PROVE  (Coming(i) \/ SettingUp(i))'
  <2>1. i \in Names /\ (Coming(i) \/ SettingUp(i))
    BY <1>9 DEF Booting, HostInv, DiskOK
  <2>2. CASE i # p
    <3>2. /\ Coming(i) => Coming(i)'
          /\ SettingUp(i) => SettingUp(i)'
      BY <1>0, <1>1, <1>3, <1>5, <1>6, <1>8, <1>9, <1>10, <2>1, <2>2, UnitStepLeaves
    <3> QED  BY <2>1, <3>2
  <2>3. CASE i = p
    <3>1. Coming(p)
      BY <1>0, <1>8, <2>1, <2>3, SettingHead DEF HostInv
    <3>2. p \notin kernel.link /\ Tail(todo[p]) = <<>>
      BY <1>0, <3>1, ComingHead
    <3>3. p \in disk.conf
      BY <1>1 DEF HostInv
    <3>4. more = <<x>> /\ kernel' = [kernel EXCEPT !.link = @ \cup {p}]
      BY <1>4, <3>2, <3>3
    <3>5. todo'[p] = <<x>>
      BY <1>2, <1>6, <3>2, <3>4, OneIs
    <3>6. p \in kernel'.link
      BY <3>4 DEF HostInv, KernelOK
    <3> QED  BY <2>3, <3>5, <3>6 DEF Coming, OneCommand, x
  <2> QED  BY <2>2, <2>3
<1> QED  BY <1>0, <1>3, <1>5, <1>6, <1>7, <1>9, BootQueues

\* The unit has started.
LEMMA BootStarted ==
  ASSUME HostInv, Booting, NEW p \in Processes, UnitStarted(p)
  PROVE  Booting'
<1>0. todo[p] # <<>> /\ Runs(p, "started")
  BY DEF UnitStarted, Runs
<1>1. /\ p \in Names /\ p \in enabled /\ Subject(p) = p /\ Tail(todo[p]) \in Seq(OpsOf(p))
      /\ todo[p] \in Seq(OpsOf(p)) /\ Head(todo[p]) = Do("started", p)
  BY <1>0, BootHead DEF PlainNames
<1>3. UNCHANGED <<kernel, disk, enabled, loaded>>
  BY DEF UnitStarted
<1>4. <<>> \in Seq(OpsOf(p)) /\ \A n \in 1 .. Len(<<>>) : <<>>[n].op \in BootNames
  OBVIOUS
<1>6. todo'[p] = <<>> \o Tail(todo[p]) /\ \A q \in Processes : q # p => todo'[q] = todo[q]
  BY DEF UnitStarted, Done, Continue, HostInv, QueuesOK
<1>7. disk.script # None => Redone(<<>>)
  <2>1. Len(<<>>) = 0 /\ 1 .. 0 = {}
    OBVIOUS
  <2> QED  BY <2>1 DEF Redone, Followed
<1>8. Head(todo[p]).op = "started"
  BY <1>1 DEF Do, Op
<1>9. ASSUME disk.script # None, NEW i \in enabled
      PROVE  (Coming(i) \/ SettingUp(i))'
  <2>1. i \in Names /\ (Coming(i) \/ SettingUp(i))
    BY <1>9 DEF Booting, HostInv, DiskOK
  <2>2. /\ i \in DOMAIN disk.script /\ AllDue(i) => AllDue(i)'
        /\ i # p /\ unit'[i] = unit[i] =>
             /\ Coming(i) => Coming(i)'
             /\ SettingUp(i) => SettingUp(i)'
    <3>1. Head(todo[p]).op \notin ScriptNames
      BY <1>8 DEF ScriptNames
    <3> QED  BY <1>0, <1>1, <1>3, <1>4, <1>6, <1>9, <2>1, <3>1, UnitStepLeaves
  <2>3. CASE i # p
    <3>1. unit'[i] = unit[i]
      BY <1>1, <2>1, <2>3 DEF HostInv, UnitStarted
    <3> QED  BY <2>1, <2>2, <2>3, <3>1
  <2>4. CASE i = p
    <3>1. SettingUp(p)
      BY <1>0, <1>8, <2>1, <2>4, ComingHead
    <3>2. unit'[p] = "active"
      BY <1>1 DEF HostInv, UnitStarted
    <3>3. \A n \in 1 .. Len(todo'[p]) : todo'[p][n].op \in ScriptNames \cup {"started"}
      <4>1. todo'[p] = Tail(todo[p])
        BY <1>1, <1>6
      <4>2. \A n \in 1 .. Len(Tail(todo[p])) :
              Tail(todo[p])[n] = todo[p][n + 1] /\ n + 1 \in 1 .. Len(todo[p])
        BY <1>0, <1>1
      <4> QED  BY <3>1, <4>1, <4>2 DEF SettingUp
    <3> QED  BY <1>3, <2>2, <2>4, <3>1, <3>2, <3>3 DEF SettingUp
  <2> QED  BY <2>3, <2>4
<1> QED  BY <1>0, <1>1, <1>3, <1>4, <1>6, <1>7, <1>9, BootQueues

LEMMA ScriptSeqs ==
  ASSUME NEW content, NEW p, NEW s \in RedoingSeqs(content, p)
  PROVE  /\ s \in Seq(OpsOf(p)) /\ Redoes(content, s)
         /\ \A n \in 1 .. Len(s) : s[n] \in OpsOf(p) /\ s[n].op \in ScriptNames
                                   /\ \A j \in DOMAIN content : ProperIn(content, s[n], j)
<1>1. s \in Seq(ScriptOps(content, p)) /\ Redoes(content, s)
  BY DEF RedoingSeqs
<1>2. ScriptOps(content, p) \subseteq OpsOf(p)
  BY DEF ScriptOps
<1>3. s \in Seq(OpsOf(p))
  BY <1>1, <1>2, SeqsGrow
<1>4. \A n \in 1 .. Len(s) : s[n] \in ScriptOps(content, p)
  BY <1>1
<1> QED  BY <1>1, <1>3, <1>4 DEF ScriptOps

\* ExecStartPost: the script for the one interface, then the unit is up.
LEMMA BootPost ==
  ASSUME HostInv, Booting, NEW p \in Processes, ExecStartPost(p)
  PROVE  Booting'
<1> DEFINE x == Do("started", p)
           s == IF p \in loaded THEN ApplyScript(disk.script, {p}) ELSE <<>>
<1>0. todo[p] # <<>> /\ Runs(p, "post")
  BY DEF ExecStartPost, Runs
<1>1. /\ p \in Names /\ p \in enabled /\ Subject(p) = p /\ Tail(todo[p]) \in Seq(OpsOf(p))
      /\ Head(todo[p]) = Do("post", p) /\ Head(todo[p]).op = "post"
  BY <1>0, BootHead DEF PlainNames, Runs
<1>2. x \in OpsOf(p) /\ x.op = "started" /\ <<x>> \in Seq(OpsOf(p))
      /\ \A n \in 1 .. Len(<<x>>) : <<x>>[n] = x
  <2>1. x \in OpsOn(p)
    BY <1>1, DoTyped DEF PlainNames
  <2>2. x \in OpsOf(p)
    BY <1>1, <2>1, OpsOnAreOpsOf
  <2>3. x.op = "started"
    BY DEF Do, Op
  <2> HIDE DEF x
  <2> QED  BY <2>2, <2>3, OneIs
<1>3. UNCHANGED <<kernel, disk, enabled, loaded>> /\ loaded = disk.dropin
  BY DEF ExecStartPost, Booting
<1>4. disk.script # None => IsScript(disk.script)
  BY DEF HostInv, DiskOK
<1>5. disk.script # None =>
        /\ s \in Seq(OpsOf(p)) /\ Redone(s)
        /\ \A n \in 1 .. Len(s) : s[n].op \in ScriptNames
  <2>1. CASE p \in loaded /\ disk.script # None
    <3>1. ApplyScript(disk.script, {p}) \in RedoingSeqs(disk.script, p)
      BY <1>4, <2>1, ApplyScriptRedoes
    <3>2. s \in RedoingSeqs(disk.script, p)
      BY <2>1, <3>1
    <3> HIDE DEF s
    <3> QED  BY <3>2, ScriptSeqs DEF Redoes, Redone
  <2>2. CASE p \notin loaded
    <3>1. Len(<<>>) = 0 /\ 1 .. 0 = {} /\ <<>> \in Seq(OpsOf(p))
      OBVIOUS
    <3> QED  BY <2>2, <3>1 DEF Redone, Followed
  <2> QED  BY <2>1, <2>2
<1>6. \/ /\ p \in loaded /\ disk.script = None /\ Continue(p, <<>>)
         /\ unit' = [unit EXCEPT ![p] = "failed"]
      \/ /\ ~ (p \in loaded /\ disk.script = None) /\ UNCHANGED unit /\ Continue(p, s \o <<x>>)
  BY <1>1 DEF ExecStartPost, Done
<1> HIDE DEF x, s
<1>7. s \in Seq(OpsOf(p)) \/ (p \in loaded /\ disk.script = None)
  <2>1. p \notin loaded => s = <<>>
    BY DEF s
  <2>2. <<>> \in Seq(OpsOf(p))
    OBVIOUS
  <2> QED  BY <1>5, <2>1, <2>2
<1>8. PICK more : /\ more \in Seq(OpsOf(p)) /\ Continue(p, more)
                  /\ \/ more = <<>> /\ disk.script = None
                     \/ more = s \o <<x>> /\ s \in Seq(OpsOf(p)) /\ UNCHANGED unit
                        /\ ~ (p \in loaded /\ disk.script = None)
  <2>1. <<>> \in Seq(OpsOf(p)) /\ (s \in Seq(OpsOf(p)) => s \o <<x>> \in Seq(OpsOf(p)))
    BY <1>2
  <2> QED  BY <1>6, <1>7, <2>1
<1>9. \A q \in Processes : q # p => todo'[q] = todo[q]
  BY <1>8 DEF Continue, HostInv, QueuesOK
<1>10. todo'[p] = more \o Tail(todo[p])
  BY <1>8 DEF Continue, HostInv, QueuesOK
<1>11. ASSUME more = s \o <<x>>, s \in Seq(OpsOf(p)), NEW n \in 1 .. Len(more)
       PROVE  more[n] = x \/ \E m \in 1 .. Len(s) : more[n] = s[m]
  BY <1>2, <1>11
<1>12. \A n \in 1 .. Len(more) : more[n].op \in BootNames
  <2>1. CASE more = <<>>
    BY <2>1
  <2>2. CASE more = s \o <<x>> /\ s \in Seq(OpsOf(p)) /\ ~ (p \in loaded /\ disk.script = None)
    <3>1. ASSUME NEW m \in 1 .. Len(s) PROVE s[m].op \in BootNames
      <4>1. CASE disk.script # None
        BY <1>5, <4>1 DEF BootNames
      <4>2. CASE p \notin loaded
        <5>1. s = <<>>
          BY <4>2 DEF s
        <5> QED  BY <5>1
      <4> QED  BY <2>2, <4>1, <4>2
    <3>2. x.op \in BootNames
      BY <1>2 DEF BootNames
    <3> QED  BY <1>11, <2>2, <3>1, <3>2
  <2> QED  BY <1>8, <2>1, <2>2
<1>13. disk.script # None => Redone(more)
  <2>1. SUFFICES ASSUME disk.script # None, NEW i \in DOMAIN disk.script,
                        NEW part \in Wanted(disk.script[i])
                 PROVE  Followed(more, Undoes(part, i, disk.script[i]), Does(part, i, disk.script[i]))
    BY DEF Redone
  <2> DEFINE A == Undoes(part, i, disk.script[i])
             B == Does(part, i, disk.script[i])
             T == OpsOf(p)
  <2>2. more = s \o <<x>> /\ s \in Seq(T) /\ <<x>> \in Seq(T)
    BY <1>2, <1>8, <2>1
  <2>3. Followed(s, A, B)
    BY <1>5, <2>1 DEF Redone
  <2>4. Followed(<<x>>, A, B)
    <3>1. x.op \notin ScriptNames
      BY <1>2 DEF ScriptNames
    <3>2. Redone(<<x>>)
      BY <1>4, <2>1, <3>1, OneNotRedoing
    <3> QED  BY <2>1, <3>2 DEF Redone
  <2> HIDE DEF A, B, T
  <2>5. s \in FollowedSeqs(T, A, B) /\ <<x>> \in FollowedSeqs(T, A, B)
    BY <2>2, <2>3, <2>4 DEF FollowedSeqs
  <2>6. s \o <<x>> \in FollowedSeqs(T, A, B)
    BY <2>5, FollowedConcat
  <2> QED  BY <2>2, <2>6 DEF FollowedSeqs, A, B
<1>14. ASSUME disk.script # None, NEW i \in enabled
       PROVE  (Coming(i) \/ SettingUp(i))'
  <2>1. i \in Names /\ (Coming(i) \/ SettingUp(i))
    BY <1>14 DEF Booting, HostInv, DiskOK
  <2>2. more = s \o <<x>> /\ s \in Seq(OpsOf(p)) /\ UNCHANGED unit
    BY <1>8, <1>14
  <2>3. Head(todo[p]).op \notin ScriptNames \cup {"started"}
    BY <1>1 DEF ScriptNames
  <2>4. CASE i # p
    <3>1. /\ Coming(i) => Coming(i)'
          /\ SettingUp(i) => SettingUp(i)'
      BY <1>0, <1>1, <1>3, <1>8, <1>9, <1>10, <1>14, <2>1, <2>2, <2>3, <2>4, UnitStepLeaves
    <3> QED  BY <2>1, <3>1
  <2>5. CASE i = p
    <3>1. Coming(p)
      BY <1>0, <2>1, <2>3, <2>5, SettingHead DEF HostInv
    <3>2. p \in kernel.link /\ Tail(todo[p]) = <<>>
      BY <1>0, <3>1, ComingHead
    <3>3. todo'[p] = s \o <<x>>
      <4>1. \A q \in Seq(OpsOf(p)) : q \o <<>> = q
        OBVIOUS
      <4> QED  BY <1>8, <1>10, <2>2, <3>2, <4>1
    <3>4. \A n \in 1 .. Len(todo'[p]) : todo'[p][n].op \in ScriptNames \cup {"started"}
      BY <1>2, <1>5, <1>11, <1>14, <2>2, <3>3
    <3>5. \A B : Has(todo'[p], B) <=> Has(s, B) \/ Has(<<x>>, B)
      <4> DEFINE T == OpsOf(p)
      <4>1. s \in Seq(T) /\ <<x>> \in Seq(T)
        BY <1>2, <2>2
      <4> HIDE DEF T
      <4>2. \A B : Has(s \o <<x>>, B) <=> Has(s, B) \/ Has(<<x>>, B)
        BY <4>1, HasConcat
      <4> QED  BY <3>3, <4>2, Zenon
    <3>6. Has(todo'[p], {x})
      <4>1. Has(<<x>>, {x})
        BY DEF Has
      <4> QED  BY <3>5, <4>1
    <3>7. ASSUME p \in disk.dropin \cap disk.tables \cap DOMAIN disk.script,
                 NEW part \in Wanted(disk.script[p])
          PROVE  Due(part, p)'
      <4>1. s = ApplyScript(disk.script, {p})
        BY <1>3, <3>7 DEF s
      <4>2. Has(ApplyScript(disk.script, {p}), Does(part, p, disk.script[p]))
        BY <1>4, <1>14, <3>7, ApplyScriptRedoes
      <4>3. Has(todo'[p], Does(part, p, disk.script[p]))
        BY <3>5, <4>1, <4>2
      <4> QED  BY <1>3, <4>3 DEF Due
    <3>8. p \in disk.dropin \cap disk.tables \cap DOMAIN disk.script => AllDue(p)'
      BY <1>3, <3>7 DEF AllDue
    <3> QED  BY <1>3, <2>5, <3>2, <3>4, <3>6, <3>8 DEF SettingUp, x
  <2> QED  BY <2>4, <2>5
<1> QED  BY <1>0, <1>3, <1>8, <1>9, <1>10, <1>12, <1>13, <1>14, BootQueues

LEMMA BootStep ==
  ASSUME BlocksApart, HostInv, Booting, NEW p \in Processes, Step(p)
  PROVE  Booting' /\ UNCHANGED <<last, alone>>
<1>1. UNCHANGED <<last, alone>> /\ todo[p] # <<>>
  BY DEF Step, KernelStep, CleanRules, WgDown, SystemctlStop, SystemctlStart, ExecStartPost,
     UnitStarted, InstallScript, InstallConf, InstallDropin, InstallTables, BeginStart, ApplyState,
     LookUpTable, WgUp, Runs, Done, Continue, Raise
<1>2. Head(todo[p]).op \in BootNames
  BY <1>1, BootHead
<1>3. ~ (CleanRules(p) \/ WgDown(p) \/ SystemctlStop(p) \/ InstallScript(p) \/ InstallConf(p)
         \/ InstallDropin(p) \/ InstallTables(p) \/ BeginStart(p) \/ ApplyState(p) \/ LookUpTable(p))
  BY <1>2 DEF CleanRules, WgDown, SystemctlStop, InstallScript, InstallConf, InstallDropin,
     InstallTables, BeginStart, ApplyState, LookUpTable, Runs, BootNames, ScriptNames
<1> QED  BY <1>1, <1>3, BootKernelStep, BootUnitStart, BootWgUp, BootStarted, BootPost DEF Step

LEMMA NoCommandBoots == Command => last'.what # "boot"
<1>1. \A what, program : Begin(what, program) => last' = what
  BY DEF Begin
<1>2. \A tree, ifs, stop, start, create :
        Deploy(tree, ifs, stop, start, create) => last'.what = "deploy"
  BY <1>1 DEF Deploy
<1>3. ASSUME NEW ifs, StopClean(ifs) PROVE last'.what # "boot"
  <2>1. last' = [what |-> "stop", ifs |-> ifs]
    BY <1>1, <1>3 DEF StopClean
  <2> QED  BY <2>1
<1>4. ASSUME NEW i, NEW force, IfaceUp(i) \/ IfaceDown(i) \/ Start(i, force)
      PROVE  last'.what # "boot"
  <2>1. CASE IfaceUp(i)
    <3>1. last' = [what |-> "up"]
      BY <1>1, <2>1 DEF IfaceUp
    <3> QED  BY <3>1
  <2>2. CASE IfaceDown(i)
    <3>1. last' = [what |-> "down"]
      BY <1>1, <2>2 DEF IfaceDown
    <3> QED  BY <3>1
  <2>3. CASE Start(i, force)
    <3>1. last' = [what |-> "start"]
      BY <1>1, <2>3 DEF Start
    <3> QED  BY <3>1
  <2> QED  BY <1>4, <2>1, <2>2, <2>3
<1>5. ApplyByHand => last'.what = "apply"
  BY <1>1 DEF ApplyByHand
<1> QED  BY <1>2, <1>3, <1>4, <1>5 DEF Command

LEMMA BootInvStep ==
  ASSUME BlocksApart, HostInv, BootInv, [Next]_vars
  PROVE  BootInv'
<1>1. SUFFICES ASSUME last'.what = "boot", alone' PROVE Booting'
  BY DEF BootInv
<1>2. CASE UNCHANGED vars
  <2>1. Booting
    BY <1>1, <1>2 DEF vars, BootInv
  <2> QED  BY <1>2, <2>1 DEF vars, systemVars, Booting, Redone, Coming, OneCommand, SettingUp,
              AllDue, Due
<1>3. ASSUME NEW p \in Processes, Step(p) PROVE Booting'
  <2>1. UNCHANGED <<last, alone>>
    BY <1>3 DEF Step, KernelStep, CleanRules, WgDown, SystemctlStop, SystemctlStart, ExecStartPost,
       UnitStarted, InstallScript, InstallConf, InstallDropin, InstallTables, BeginStart, ApplyState,
       LookUpTable, WgUp, Runs, Done, Continue, Raise
  <2>2. Booting
    BY <1>1, <2>1 DEF BootInv
  <2> QED  BY <1>3, <2>2, BootStep
<1>4. Interrupt \/ (\E p \in Processes : WgUpFails(p)) => ~ alone'
  BY DEF Interrupt, WgUpFails
<1>5. CASE Reboot
  <2>1. UnitsToStart' = UnitsToStart
    BY <1>5 DEF Reboot, UnitsToStart
  <2>2. JustBooted'
    BY <1>5, <2>1 DEF Reboot, JustBooted, HostInv, DiskOK, IsScript
  <2> QED  BY <2>2, BootedNext
<1> QED  BY <1>1, <1>2, <1>3, <1>4, <1>5, NoCommandBoots DEF Next

LEMMA InitBootInv == Init => BootInv
<1>1. SUFFICES ASSUME Init PROVE BootInv
  OBVIOUS
<1>2. HostInv
  BY <1>1, InitHostInv
<1>3. JustBooted
  BY <1>1, <1>2 DEF Init, JustBooted, HostInv, DiskOK, IsScript
<1> QED  BY <1>3, BootBegins DEF BootInv

\* What is due holds once nothing is under way.
LEMMA NothingDue ==
  ASSUME Running = {}, disk.script # None, IsScript(disk.script), NEW i \in DOMAIN disk.script,
         AllDue(i), i \in kernel.link
  PROVE  Served(i) /\ Guarded
<1> DEFINE plan == disk.script[i]
<1>1. \A p \in Processes : todo[p] = <<>>
  BY DEF Running
<1>2. \A B : ~ Has(<<>>, B)
  <2>1. Len(<<>>) = 0 /\ 1 .. 0 = {}
    OBVIOUS
  <2> QED  BY <2>1 DEF Has
<1>3. \A part \in Wanted(plan) : Holds(kernel, part, i, plan)
  BY <1>1, <1>2 DEF AllDue, Due
<1>4. plan.addr # None => Holds(kernel, "address", i, plan) /\ Holds(kernel, "source", i, plan)
  BY <1>3, WantedParts
<1>5. plan.routed => Holds(kernel, "route", i, plan)
  BY <1>3, WantedParts
<1>6. plan.uids # <<>> => Holds(kernel, "users", i, plan)
  BY <1>3, WantedParts
<1>7. Holds(kernel, "guard", i, plan)
  BY <1>3, WantedParts
<1> QED  BY <1>4, <1>5, <1>6, <1>7, HoldsAre DEF Served, Guarded

\* After a reboot the units start at the same time, each with the script
\* that resets the prohibit all of them share: whatever the order of their
\* commands, in the end each is active and as the installed script says,
\* and the prohibit is there.
THEOREM BootServed == BlocksApart /\ Spec => []BootServes
<1>1. BlocksApart /\ HostInv /\ BootInv /\ [Next]_vars => HostInv' /\ BootInv'
  BY NextHostInv, BootInvStep
<1>2. HostInv /\ BootInv => BootServes
  <2>1. SUFFICES ASSUME HostInv, BootInv, Ended("boot"), disk.script # None,
                        NEW i \in enabled \cap disk.dropin \cap DOMAIN disk.script,
                        i \in disk.tables
                 PROVE  unit[i] = "active" /\ Served(i) /\ Guarded
    BY DEF BootServes
  <2>2. Booting /\ Running = {} /\ IsScript(disk.script) /\ i \in Processes
    BY <2>1 DEF BootInv, Ended, HostInv, DiskOK, Processes
  <2>3. todo[i] = <<>> /\ ~ Has(todo[i], {Do("started", i)})
    <3>1. todo[i] = <<>>
      BY <2>2 DEF Running
    <3>2. Len(<<>>) = 0 /\ 1 .. 0 = {}
      OBVIOUS
    <3> QED  BY <3>1, <3>2 DEF Has
  <2>4. SettingUp(i)
    BY <2>1, <2>2, <2>3, ComingHead DEF Booting
  <2>5. unit[i] = "active" /\ i \in kernel.link /\ AllDue(i)
    BY <2>1, <2>3, <2>4 DEF SettingUp
  <2> QED  BY <2>1, <2>2, <2>5, NothingDue
<1>3. BlocksApart /\ [Next]_vars => BlocksApart'
  BY DEF BlocksApart
<1> QED  BY <1>1, <1>2, <1>3, InitHostInv, InitBootInv, PTL DEF Spec

-----------------------------------------------------------------------------
(* A deployment that nothing disturbs: first it stops and installs, then   *)
(* it starts.  gone is what it stops first.                                *)

InstallNames == {"install script", "install conf", "install dropin", "install tables"}
StartNames == {"start", "systemctl start", "wg-quick up", "post", "started", "apply"}

Named(names) == {o \in OpsOf(Admin) : o.op \in names}

ScriptComes ==
  \/ disk.script # None
  \/ \E tree \in Trees : Has(todo[Admin], {Op("install script", None, tree)})

UnitGoes(i) == unit[i] \in {"inactive", "failed"} \/ Has(todo[Admin], {Do("systemctl stop", i)})

\* Commands of the stop, then of the installation, then the starts.
Preparing(ifs, gone) ==
  /\ \E s \in Seq(Named(StopNames)), t \in Seq(Named(InstallNames)), u \in Seq(Named({"start"})) :
       todo[Admin] = s \o (t \o u)
  /\ ScriptComes
  /\ Clearing(gone)
  /\ \A i \in gone : UnitGoes(i)
  /\ \A i \in ifs : Has(todo[Admin], {Do("start", i)})

\* A program of starts and of the script's commands that does again all that
\* it undoes.
StartOps(content) ==
  {o \in Named(StartNames \cup ScriptNames) : \A j \in DOMAIN content : ProperIn(content, o, j)}

StartSeqs(content) == {s \in Seq(StartOps(content)) : Redoes(content, s)}

\* The link is there, or the unit is not active and will be started.
LinkComes(i) ==
  \/ i \in kernel.link
  \/ Has(todo[Admin], {Do("wg-quick up", i)})
  \/ unit[i] # "active" /\ Has(todo[Admin], {Do("start", i), Do("systemctl start", i)})

\* The script is still to be run for an interface, or it has its part in the
\* kernel or in the queue: once there is a link.
Starting(ifs, gone) ==
  /\ \A p \in Names : todo[p] = <<>>
  /\ disk.script # None
  /\ todo[Admin] \in StartSeqs(disk.script)
  /\ \A i \in Names :
       /\ Has(todo[Admin], {Do("post", i), Do("started", i)}) => i \in kernel.link
       /\ Followed(todo[Admin], {Do("systemctl start", i), Do("wg-quick up", i)}, {Do("apply", i)})
  /\ \A i \in ifs \cap disk.conf \cap disk.tables \cap DOMAIN disk.script :
       /\ \/ Has(todo[Admin], {Do("start", i), Do("apply", i)})
          \/ i \in kernel.link => AllDue(i)
       /\ i \in gone => LinkComes(i) /\ NothingElse(i)

DeployInv ==
  last.what = "deploy" /\ alone /\ result = "ok" /\ last.start =>
    LET gone == IF last.stop THEN last.ifs ELSE {} IN
      Preparing(last.ifs, gone) \/ Starting(last.ifs, gone)

\* What is in a queue is there until it is run.
LEMMA HasStays ==
  ASSUME NEW S, NEW q \in Seq(S), q # <<>>, NEW more \in Seq(S), NEW B, Has(q, B)
  PROVE  Has(more \o Tail(q), B) \/ Head(q) \in B
<1>1. Tail(q) \in Seq(S) /\ (Head(q) \in B \/ Has(Tail(q), B))
  BY TailFollows, HeadTailProperties
<1>2. PICK t \in Seq(S) : t = Tail(q)
  BY <1>1
<1>3. Has(t, B) => Has(more \o t, B)
  BY HasConcat
<1> QED  BY <1>1, <1>2, <1>3

LEMMA HasTail ==
  ASSUME NEW S, NEW q \in Seq(S), q # <<>>, NEW more \in Seq(S), NEW B,
         Has(more \o Tail(q), B)
  PROVE  Has(more, B) \/ Has(q, B)
<1>1. PICK t \in Seq(S) : t = Tail(q)
  BY HeadTailProperties
<1>2. Has(more \o t, B) => Has(more, B) \/ Has(t, B)
  BY HasConcat
<1>3. Has(t, B) => Has(q, B)
  BY <1>1, TailFollows
<1> QED  BY <1>1, <1>2, <1>3

LEMMA FollowedBefore ==
  ASSUME NEW S, NEW more \in Seq(S), NEW rest \in Seq(S), NEW A, NEW B, Followed(rest, A, B),
         Followed(more, A, B) \/ Has(rest, B)
  PROVE  Followed(more \o rest, A, B)
<1> DEFINE c == more \o rest
<1>1. CASE Followed(more, A, B)
  <2>1. more \in FollowedSeqs(S, A, B) /\ rest \in FollowedSeqs(S, A, B)
    BY <1>1 DEF FollowedSeqs
  <2>2. c \in FollowedSeqs(S, A, B)
    BY <2>1, FollowedConcat
  <2> QED  BY <2>2 DEF FollowedSeqs
<1>2. CASE Has(rest, B)
  <2>1. /\ Len(c) = Len(more) + Len(rest) /\ Len(more) \in Nat /\ Len(rest) \in Nat
        /\ \A n \in 1 .. Len(rest) : c[Len(more) + n] = rest[n]
    OBVIOUS
  <2> HIDE DEF c
  <2>2. PICK k \in 1 .. Len(rest) : rest[k] \in B
    BY <1>2 DEF Has
  <2>3. ASSUME NEW n \in 1 .. Len(c), c[n] \in A
        PROVE  \E m \in n + 1 .. Len(c) : c[m] \in B
    <3>1. CASE n <= Len(more)
      <4>1. Len(more) + k \in n + 1 .. Len(c)
        BY <2>1, <3>1
      <4> QED  BY <2>1, <2>2, <4>1
    <3>2. CASE n > Len(more)
      <4>1. PICK j \in 1 .. Len(rest) : n = Len(more) + j
        <5>1. PICK a, b \in Nat : a = Len(more) /\ b = Len(rest)
          BY <2>1
        <5>2. n \in 1 .. a + b /\ n > a
          BY <2>1, <3>2, <5>1
        <5>3. n - a \in 1 .. b /\ n = a + (n - a)
          BY <5>2
        <5> QED  BY <5>1, <5>3
      <4>2. rest[j] \in A
        BY <2>1, <2>3, <4>1
      <4>3. PICK m \in j + 1 .. Len(rest) : rest[m] \in B
        BY <4>2 DEF Followed
      <4>4. Len(more) + m \in n + 1 .. Len(c) /\ c[Len(more) + m] \in B
        BY <2>1, <4>1, <4>3
      <4> QED  BY <4>4
    <3> QED  BY <2>1, <3>1, <3>2
  <2> QED  BY <2>3 DEF Followed, c
<1> QED  BY <1>1, <1>2

\* A sequence whose elements are of a smaller set.
LEMMA SmallerSeq ==
  ASSUME NEW S, NEW T, NEW q \in Seq(S), \A n \in 1 .. Len(q) : q[n] \in T
  PROVE  q \in Seq(T)
<1>1. Len(q) \in Nat /\ DOMAIN q = 1 .. Len(q) /\ q = [n \in 1 .. Len(q) |-> q[n]]
  OBVIOUS
<1> QED  BY <1>1, MadeTyped

LEMMA NamedSeqs ==
  ASSUME NEW names
  PROVE  /\ Seq(Named(names)) \subseteq Seq(OpsOf(Admin))
         /\ <<>> \in Seq(Named(names))
         /\ \A a, b \in Seq(Named(names)) : a \o b \in Seq(Named(names))
         /\ \A q \in Seq(Named(names)) : \A n \in 1 .. Len(q) : q[n] \in OpsOf(Admin) /\ q[n].op \in names
<1> DEFINE T == Named(names)
<1>1. T \subseteq OpsOf(Admin) /\ \A o \in T : o.op \in names
  BY DEF Named
<1> HIDE DEF T
<1>2. \A q \in Seq(T) : \A n \in 1 .. Len(q) : q[n] \in T
  OBVIOUS
<1>3. \A a, b \in Seq(T) : a \o b \in Seq(T)
  BY ConcatTyped
<1>4. Seq(T) \subseteq Seq(OpsOf(Admin)) /\ <<>> \in Seq(T)
  BY <1>1, SeqsGrow
<1> QED  BY <1>1, <1>2, <1>3, <1>4 DEF T

\* No command of another name is in such a sequence.
LEMMA NotNamed ==
  ASSUME NEW names, NEW q \in Seq(Named(names)), NEW B, \A o \in B : o.op \notin names
  PROVE  ~ Has(q, B)
<1>1. \A n \in 1 .. Len(q) : q[n].op \in names
  BY NamedSeqs
<1> QED  BY <1>1 DEF Has

LEMMA InstallNamed ==
  ASSUME NEW tree \in Trees, NEW create \in BOOLEAN
  PROVE  /\ InstallProgram(tree, create) \in Seq(Named(InstallNames))
         /\ Has(InstallProgram(tree, create), {Op("install script", None, tree)})
<1> DEFINE T == Named(InstallNames)
           x == Op("install script", None, tree)
           y == Op("install tables", None, tree)
           confs == [i \in tree.conf |-> <<Do("install conf", i)>>]
           dropins == [i \in tree.dropin |-> <<Op("install dropin", i, create)>>]
<1>0. tree.conf \subseteq Names /\ tree.dropin \subseteq Names /\ Admin \in Processes
  BY TreeIs DEF Processes
<1>1. x \in T /\ y \in T
  <2>1. x \in CommonOps /\ y \in CommonOps
    BY DEF CommonOps, Op
  <2>2. x.op = "install script" /\ y.op = "install tables"
    BY DEF Op
  <2>3. x \in OpsOf(Admin) /\ y \in OpsOf(Admin)
    BY <2>1 DEF OpsOf
  <2> HIDE DEF x, y
  <2> QED  BY <2>2, <2>3 DEF T, Named, InstallNames
<1>2. ASSUME NEW i \in Names
      PROVE  Do("install conf", i) \in T /\ Op("install dropin", i, create) \in T
  <2>1. Do("install conf", i) \in OpsOn(i)
    BY DoTyped DEF PlainNames
  <2>2. Op("install dropin", i, create) \in OpsOn(i)
    BY DEF OpsOn, Op
  <2>3. Do("install conf", i).op = "install conf" /\ Op("install dropin", i, create).op = "install dropin"
    BY DEF Do, Op
  <2>4. Do("install conf", i) \in OpsOf(Admin) /\ Op("install dropin", i, create) \in OpsOf(Admin)
    BY <1>0, <2>1, <2>2, OpsOnAreOpsOf
  <2> QED  BY <2>3, <2>4 DEF T, Named, InstallNames
<1>3. DOMAIN confs = tree.conf /\ DOMAIN dropins = tree.dropin
      /\ (\A i \in tree.conf : confs[i] = <<Do("install conf", i)>>)
      /\ (\A i \in tree.dropin : dropins[i] = <<Op("install dropin", i, create)>>)
  OBVIOUS
<1>4. InstallProgram(tree, create) = <<x>> \o ForEach(confs) \o ForEach(dropins) \o <<y>>
  BY DEF InstallProgram
<1> HIDE DEF T, x, y, confs, dropins
<1>5. /\ \A i \in Names : i \in DOMAIN confs => confs[i] \in Seq(T)
      /\ \A i \in Names : i \in DOMAIN dropins => dropins[i] \in Seq(T)
  <2>1. \A z \in T : <<z>> \in Seq(T)
    BY OneIs
  <2> QED  BY <1>2, <1>3, <2>1
<1>6. ForEach(confs) \in Seq(T)
  <2> DEFINE Q == Seq(T)
  <2>1. <<>> \in Q /\ \A a, b \in Q : a \o b \in Q
    BY ConcatTyped
  <2> HIDE DEF Q
  <2>2. ForEach(confs) \in Q
    BY <1>5, <2>1, ForEachClosed DEF Q
  <2> QED  BY <2>2 DEF Q
<1>7. ForEach(dropins) \in Seq(T)
  <2> DEFINE Q == Seq(T)
  <2>1. <<>> \in Q /\ \A a, b \in Q : a \o b \in Q
    BY ConcatTyped
  <2> HIDE DEF Q
  <2>2. ForEach(dropins) \in Q
    BY <1>5, <2>1, ForEachClosed DEF Q
  <2> QED  BY <2>2 DEF Q
<1>8. PICK a, b \in Seq(T) : a = ForEach(confs) /\ b = ForEach(dropins)
  BY <1>6, <1>7
<1>9. <<x>> \in Seq(T) /\ <<y>> \in Seq(T)
  BY <1>1, OneIs
<1>10. <<x>> \o a \in Seq(T) /\ <<x>> \o a \o b \in Seq(T) /\ <<x>> \o a \o b \o <<y>> \in Seq(T)
  BY <1>9, ConcatTyped
<1>11. Has(<<x>> \o a \o b \o <<y>>, {x})
  <2>1. Has(<<x>>, {x})
    BY DEF Has
  <2>2. Has(<<x>> \o a, {x})
    BY <1>9, <2>1, HasConcat
  <2>3. PICK c \in Seq(T) : c = <<x>> \o a
    BY <1>10
  <2>4. Has(c \o b, {x}) /\ c \o b \in Seq(T)
    BY <2>2, <2>3, HasConcat, ConcatTyped
  <2>5. PICK d \in Seq(T) : d = c \o b
    BY <2>4
  <2>6. Has(d \o <<y>>, {x})
    BY <1>9, <2>4, <2>5, HasConcat
  <2> QED  BY <2>3, <2>5, <2>6
<1> QED  BY <1>4, <1>8, <1>10, <1>11 DEF T, x

LEMMA StartsNamed ==
  ASSUME NEW ifs \in SUBSET Names
  PROVE  /\ ForEach([i \in ifs |-> <<Do("start", i)>>]) \in Seq(Named({"start"}))
         /\ \A i \in ifs : Has(ForEach([j \in ifs |-> <<Do("start", j)>>]), {Do("start", i)})
<1> DEFINE T == Named({"start"})
           program == [i \in ifs |-> <<Do("start", i)>>]
           Q == Seq(T)
<1>1. ASSUME NEW i \in Names PROVE Do("start", i) \in T
  <2>1. Do("start", i) \in OpsOf(Admin)
    BY ProgramsTyped DEF PlainNames
  <2>2. Do("start", i).op = "start"
    BY DEF Do, Op
  <2> QED  BY <2>1, <2>2 DEF Named
<1>2. DOMAIN program = ifs /\ \A i \in ifs : program[i] = <<Do("start", i)>>
  OBVIOUS
<1> HIDE DEF T, program
<1>3. \A i \in Names : i \in DOMAIN program => program[i] \in Seq(T)
  <2>1. \A z \in T : <<z>> \in Seq(T)
    BY OneIs
  <2> QED  BY <1>1, <1>2, <2>1
<1>4. ForEach(program) \in Q
  <2>1. <<>> \in Q /\ \A a, b \in Q : a \o b \in Q
    BY ConcatTyped
  <2> HIDE DEF Q
  <2> QED  BY <1>3, <2>1, ForEachClosed DEF Q
<1>5. ASSUME NEW i \in ifs PROVE Has(ForEach(program), {Do("start", i)})
  <2> DEFINE B == {Do("start", i)}
  <2>1. Has(program[i], B)
    <3>1. Has(<<Do("start", i)>>, B)
      BY DEF Has
    <3> QED  BY <1>2, <3>1
  <2> HIDE DEF B
  <2>2. i \in Names /\ i \in DOMAIN program
    BY <1>2
  <2>3. Has(ForEach(program), B)
    BY <1>3, <2>1, <2>2, ForEachHasOne
  <2> QED  BY <2>3 DEF B
<1> QED  BY <1>4, <1>5 DEF T, program

\* A deployment begins with its stop.
LEMMA DeployBegins ==
  ASSUME BlocksApart, HostInv, TwoRules, Running = {},
         NEW tree \in Trees, NEW ifs \in SUBSET Names, NEW stop \in BOOLEAN, NEW create \in BOOLEAN,
         NEW gone, gone = IF stop THEN ifs ELSE {},
         todo' = [todo EXCEPT ![Admin] =
                    (IF stop THEN ForEach([i \in ifs |-> StopProgram(i)]) ELSE <<>>)
                      \o InstallProgram(tree, create)
                      \o ForEach([i \in ifs |-> <<Do("start", i)>>])],
         UNCHANGED kernel
  PROVE  Preparing(ifs, gone)'
<1> DEFINE stops == IF stop THEN ForEach([i \in ifs |-> StopProgram(i)]) ELSE <<>>
           installs == InstallProgram(tree, create)
           starts == ForEach([i \in ifs |-> <<Do("start", i)>>])
           T == OpsOf(Admin)
           rest == installs \o starts
<1>0. /\ Admin \in Processes /\ todo = [p \in Processes |-> todo[p]]
      /\ \A p \in Names : p \in Processes /\ p # Admin
      /\ \A p \in Processes : todo[p] = <<>>
  BY NoneIsNoName DEF HostInv, QueuesOK, Processes, Running
<1>1. /\ installs \in Seq(Named(InstallNames)) /\ starts \in Seq(Named({"start"}))
      /\ installs \in Seq(T) /\ starts \in Seq(T) /\ rest \in Seq(T)
  <2>1. installs \in Seq(Named(InstallNames)) /\ starts \in Seq(Named({"start"}))
    BY InstallNamed, StartsNamed
  <2> HIDE DEF installs, starts
  <2>2. installs \in Seq(T) /\ starts \in Seq(T)
    BY <2>1, NamedSeqs
  <2> HIDE DEF T
  <2>3. installs \o starts \in Seq(T)
    BY <2>2, ConcatTyped
  <2> QED  BY <2>1, <2>2, <2>3
<1> HIDE DEF installs, starts
<1>2. stops \o installs \o starts = stops \o rest
  <2>1. stops \in Seq(T)
    BY ProgramsTyped, ConcatTyped
  <2> HIDE DEF T, stops
  <2> QED  BY <1>1, <2>1, ConcatAssociative
<1>3. todo' = [todo EXCEPT ![Admin] = stops \o rest]
  BY <1>2 DEF installs, starts
<1>4. \E s \in Seq(Named(StopNames)) :
        /\ todo'[Admin] = s \o rest
        /\ Clearing(gone)'
        /\ \A i \in gone : Has(todo'[Admin], {Do("systemctl stop", i)})
  <2>1. CASE stop
    <3>1. stops = ForEach([i \in ifs |-> StopProgram(i)]) /\ gone = ifs
      BY <2>1
    <3> HIDE DEF stops, rest, T
    <3>2. todo' = [todo EXCEPT ![Admin] = ForEach([i \in ifs |-> StopProgram(i)]) \o rest]
      BY <1>3, <3>1
    <3>3. rest \in Seq(OpsOf(Admin))
      BY <1>1 DEF T
    <3>4. /\ Clearing(ifs)'
          /\ ForEach([i \in ifs |-> StopProgram(i)]) \in Seq({o \in OpsOf(Admin) : IsStopOp(o)})
          /\ \A i \in ifs : \E n \in 1 .. Len(todo'[Admin]) :
               todo'[Admin][n] = Do("systemctl stop", i)
      BY <3>2, <3>3, ClearingBegins
    <3>5. {o \in OpsOf(Admin) : IsStopOp(o)} = Named(StopNames)
      BY DEF Named, IsStopOp
    <3>6. todo'[Admin] = stops \o rest
      BY <1>0, <1>3
    <3>7. stops \in Seq(Named(StopNames))
      BY <3>1, <3>4, <3>5
    <3> QED  BY <3>1, <3>4, <3>6, <3>7 DEF Has
  <2>2. CASE ~ stop
    <3>1. stops = <<>> /\ gone = {}
      BY <2>2
    <3> HIDE DEF stops, rest, T
    <3>2. todo'[Admin] = <<>> \o rest /\ \A p \in Names : todo'[p] = <<>>
      BY <1>0, <1>3, <3>1
    <3>3. Clearing({})'
      BY <3>2 DEF Clearing
    <3>4. <<>> \in Seq(Named(StopNames))
      BY NamedSeqs
    <3> QED  BY <3>1, <3>2, <3>3, <3>4
  <2> QED  BY <2>1, <2>2
<1>5. PICK s \in Seq(Named(StopNames)) :
        /\ todo'[Admin] = s \o rest
        /\ Clearing(gone)'
        /\ \A i \in gone : Has(todo'[Admin], {Do("systemctl stop", i)})
  BY <1>4
<1>6. ASSUME NEW B, Has(installs, B) \/ Has(starts, B)
      PROVE  Has(todo'[Admin], B)
  <2>1. Has(rest, B)
    <3> HIDE DEF T
    <3> QED  BY <1>1, <1>6, HasConcat DEF rest
  <2>2. s \in Seq(T) /\ rest \in Seq(T)
    BY <1>1, NamedSeqs
  <2> HIDE DEF T, rest
  <2>3. Has(s \o rest, B)
    BY <2>1, <2>2, HasConcat
  <2> QED  BY <1>5, <2>3
<1>7. ScriptComes'
  <2>1. Has(installs, {Op("install script", None, tree)})
    BY InstallNamed DEF installs
  <2>2. Has(todo'[Admin], {Op("install script", None, tree)})
    BY <1>6, <2>1
  <2> QED  BY <2>2 DEF ScriptComes
<1>8. \A i \in ifs : Has(todo'[Admin], {Do("start", i)})
  <2>1. \A i \in ifs : Has(starts, {Do("start", i)})
    BY StartsNamed DEF starts
  <2> QED  BY <1>6, <2>1
<1>9. \A i \in gone : UnitGoes(i)'
  BY <1>5 DEF UnitGoes
<1>10. todo'[Admin] = s \o (installs \o starts)
  BY <1>5 DEF rest
<1> QED  BY <1>1, <1>5, <1>7, <1>8, <1>9, <1>10 DEF Preparing

\* A step of the stop.
LEMMA PreparingStops ==
  ASSUME BlocksApart, HostInv, HostInv', NEW ifs, NEW gone, Clearing(gone), ScriptComes,
         \A i \in gone : UnitGoes(i),
         \A i \in ifs : Has(todo[Admin], {Do("start", i)}),
         NEW s \in Seq(Named(StopNames)), s # <<>>,
         NEW t \in Seq(Named(InstallNames)), NEW u \in Seq(Named({"start"})),
         todo[Admin] = s \o (t \o u),
         Step(Admin)
  PROVE  Preparing(ifs, gone)'
<1> DEFINE T == OpsOf(Admin)
           o == Head(todo[Admin])
           rest == t \o u
<1>1. /\ s \in Seq(T) /\ t \in Seq(T) /\ u \in Seq(T) /\ rest \in Seq(T)
      /\ todo[Admin] \in Seq(T) /\ todo[Admin] # <<>>
      /\ o = Head(s) /\ Tail(todo[Admin]) = Tail(s) \o rest
      /\ Head(s) \in Named(StopNames) /\ Tail(s) \in Seq(Named(StopNames)) /\ Tail(s) \in Seq(T)
  <2>1. s \in Seq(T) /\ t \in Seq(T) /\ u \in Seq(T)
    BY NamedSeqs
  <2>2. Head(s) \in Named(StopNames) /\ Tail(s) \in Seq(Named(StopNames))
    <3> DEFINE S == Named(StopNames)
    <3>1. s \in Seq(S) /\ s # <<>>
      OBVIOUS
    <3> HIDE DEF S
    <3>2. Head(s) \in S /\ Tail(s) \in Seq(S)
      BY <3>1, HeadTailProperties
    <3> QED  BY <3>2 DEF S
  <2>3. Tail(s) \in Seq(T)
    BY <2>2, NamedSeqs
  <2> HIDE DEF T
  <2>4. rest \in Seq(T)
    BY <2>1, ConcatTyped
  <2> HIDE DEF rest
  <2>5. /\ s \o rest \in Seq(T) /\ s \o rest # <<>>
        /\ Head(s \o rest) = Head(s) /\ Tail(s \o rest) = Tail(s) \o rest
    BY <2>1, <2>4
  <2> QED  BY <2>1, <2>2, <2>3, <2>4, <2>5 DEF rest
<1>2. o.op \in StopNames /\ IsStopOp(o)
  BY <1>1 DEF Named, IsStopOp
<1>3. PICK more \in Seq(T) :
        /\ Clearing(gone)'
        /\ todo'[Admin] = more \o Tail(todo[Admin])
        /\ \A n \in 1 .. Len(more) : IsStopOp(more[n])
  BY <1>2, ClearingStays
<1>4. more \in Seq(Named(StopNames))
  <2>1. \A n \in 1 .. Len(more) : more[n] \in T
    BY <1>3
  <2>2. \A n \in 1 .. Len(more) : more[n] \in Named(StopNames)
    BY <1>3, <2>1 DEF Named, IsStopOp
  <2> HIDE DEF T
  <2> QED  BY <2>2, SmallerSeq
<1>5. /\ KernelStep(Admin) \/ CleanRules(Admin) \/ WgDown(Admin) \/ SystemctlStop(Admin)
      /\ UNCHANGED disk
  BY <1>2 DEF Step, StopNames, KernelStep, CleanRules, WgDown, SystemctlStop, SystemctlStart,
     ExecStartPost, UnitStarted, InstallScript, InstallConf, InstallDropin, InstallTables,
     BeginStart, ApplyState, LookUpTable, WgUp, Runs, systemVars
<1> HIDE DEF T, o, rest
<1>6. ASSUME NEW B, Has(todo[Admin], B), o \notin B PROVE Has(todo'[Admin], B)
  BY <1>1, <1>3, <1>6, HasStays DEF o
<1>7. ScriptComes'
  <2>1. \A tree : Op("install script", None, tree).op \notin StopNames
    BY DEF Op, StopNames
  <2>2. \A tree : o \notin {Op("install script", None, tree)}
    BY <1>2, <2>1
  <2> QED  BY <1>5, <1>6, <2>2 DEF ScriptComes
<1>8. \A i \in ifs : Has(todo'[Admin], {Do("start", i)})
  <2>1. \A i : Do("start", i).op \notin StopNames
    BY DEF Do, Op, StopNames
  <2>2. \A i : o \notin {Do("start", i)}
    BY <1>2, <2>1
  <2> QED  BY <1>6, <2>2
<1>9. ASSUME NEW i \in gone PROVE UnitGoes(i)'
  <2>0. i \in Names /\ UnitGoes(i) /\ unit \in [Names -> {"inactive", "starting", "active", "failed"}]
    BY DEF Clearing, HostInv
  <2>1. CASE o = Do("systemctl stop", i)
    <3>1. o.op = "systemctl stop" /\ o.on = i
      BY <2>1 DEF Do, Op
    <3>2. SystemctlStop(Admin) /\ Subject(Admin) = i
      BY <1>5, <3>1 DEF KernelStep, KernelOps, CleanRules, WgDown, Runs, Subject, o
    <3>3. unit'[i] \in {"inactive", "failed"}
      BY <2>0, <3>2 DEF SystemctlStop
    <3> QED  BY <3>3 DEF UnitGoes
  <2>2. CASE o # Do("systemctl stop", i)
    <3>1. Has(todo[Admin], {Do("systemctl stop", i)}) => Has(todo'[Admin], {Do("systemctl stop", i)})
      BY <1>6, <2>2
    <3>2. unit[i] \in {"inactive", "failed"} => unit'[i] \in {"inactive", "failed"}
      BY <1>5, <2>0 DEF KernelStep, CleanRules, WgDown, SystemctlStop, systemVars
    <3> QED  BY <2>0, <3>1, <3>2 DEF UnitGoes
  <2> QED  BY <2>1, <2>2
<1>10. todo'[Admin] = (more \o Tail(s)) \o (t \o u) /\ more \o Tail(s) \in Seq(Named(StopNames))
  <2>1. more \o Tail(s) \in Seq(Named(StopNames))
    <3> DEFINE S == Named(StopNames)
    <3>1. more \in Seq(S) /\ Tail(s) \in Seq(S)
      BY <1>1, <1>4
    <3> HIDE DEF S
    <3>2. more \o Tail(s) \in Seq(S)
      BY <3>1, ConcatTyped
    <3> QED  BY <3>2 DEF S
  <2>2. (more \o Tail(s)) \o rest = more \o (Tail(s) \o rest)
    <3>1. PICK a \in Seq(T) : a = Tail(s)
      BY <1>1
    <3>2. more \in Seq(T) /\ rest \in Seq(T)
      BY <1>1
    <3>3. (more \o a) \o rest = more \o (a \o rest)
      BY <3>2, ConcatAssociative
    <3> QED  BY <3>1, <3>3
  <2> QED  BY <1>1, <1>3, <2>1, <2>2 DEF rest
<1> QED  BY <1>3, <1>7, <1>8, <1>9, <1>10 DEF Preparing

\* A step of the installation that raises nothing.
LEMMA PreparingInstalls ==
  ASSUME BlocksApart, HostInv, HostInv', NEW ifs, NEW gone, Clearing(gone), ScriptComes,
         \A i \in gone : UnitGoes(i),
         \A i \in ifs : Has(todo[Admin], {Do("start", i)}),
         NEW t \in Seq(Named(InstallNames)), t # <<>>, NEW u \in Seq(Named({"start"})),
         todo[Admin] = t \o u,
         Step(Admin), result' = "ok"
  PROVE  Preparing(ifs, gone)'
<1> DEFINE T == OpsOf(Admin)
           o == Head(todo[Admin])
<1>0. /\ Admin \in Processes /\ QueuesOK /\ todo = [p \in Processes |-> todo[p]]
      /\ \A p \in Names : p \in Processes /\ p # Admin /\ todo[p] = <<>>
  BY NoneIsNoName DEF HostInv, QueuesOK, Processes, Clearing
<1>1. /\ t \in Seq(T) /\ u \in Seq(T) /\ todo[Admin] \in Seq(T) /\ todo[Admin] # <<>>
      /\ o = Head(t) /\ Tail(todo[Admin]) = Tail(t) \o u
      /\ Head(t) \in Named(InstallNames) /\ Tail(t) \in Seq(Named(InstallNames)) /\ Tail(t) \in Seq(T)
  <2>1. t \in Seq(T) /\ u \in Seq(T)
    BY NamedSeqs
  <2>2. Head(t) \in Named(InstallNames) /\ Tail(t) \in Seq(Named(InstallNames))
    <3> DEFINE S == Named(InstallNames)
    <3>1. t \in Seq(S) /\ t # <<>>
      OBVIOUS
    <3> HIDE DEF S
    <3>2. Head(t) \in S /\ Tail(t) \in Seq(S)
      BY <3>1, HeadTailProperties
    <3> QED  BY <3>2 DEF S
  <2>3. Tail(t) \in Seq(T)
    BY <2>2, NamedSeqs
  <2> HIDE DEF T
  <2>5. /\ t \o u \in Seq(T) /\ t \o u # <<>>
        /\ Head(t \o u) = Head(t) /\ Tail(t \o u) = Tail(t) \o u
    BY <2>1
  <2> QED  BY <2>1, <2>2, <2>3, <2>5
<1>2. o.op \in InstallNames
  BY <1>1 DEF Named
<1>3. /\ InstallScript(Admin) \/ InstallConf(Admin) \/ InstallDropin(Admin) \/ InstallTables(Admin)
      /\ UNCHANGED <<kernel, unit>>
  BY <1>2 DEF Step, InstallNames, KernelStep, KernelOps, CleanRules, WgDown, SystemctlStop,
     SystemctlStart, ExecStartPost, UnitStarted, InstallScript, InstallConf, InstallDropin,
     InstallTables, BeginStart, ApplyState, LookUpTable, WgUp, Runs
<1>4. Done(Admin)
  <2>1. ~ Raise(Admin)
    BY DEF Raise
  <2> QED  BY <1>3, <2>1 DEF InstallScript, InstallConf, InstallDropin, InstallTables
<1>5. /\ todo'[Admin] = <<>> \o Tail(todo[Admin])
      /\ \A p \in Names : todo'[p] = <<>>
  BY <1>0, <1>4 DEF Done, Continue
<1>6. <<>> \in Seq(T) /\ <<>> \o Tail(todo[Admin]) = Tail(todo[Admin])
  <2> HIDE DEF T
  <2> QED  BY <1>1, HeadTailProperties
<1>7. Clearing(gone)'
  <2>1. (\A i \in Names : o # LinkDel(i)) /\ (\A i, pref : o # DelRule(i, pref))
    BY <1>2, StopOpNames DEF InstallNames
  <2>2. \A i : ~ IsRound(o, i)
    BY <1>2 DEF IsRound, InstallNames
  <2>3. TakesAway(o)
    BY <1>3, <2>1, LinkTakenAway
  <2> QED  BY <1>1, <1>5, <1>6, <2>2, <2>3, ClearingMovesOn
<1> HIDE DEF T, o
<1>8. ASSUME NEW B, Has(todo[Admin], B), o \notin B PROVE Has(todo'[Admin], B)
  BY <1>1, <1>5, <1>6, <1>8, HasStays DEF o
<1>9. ScriptComes'
  <2>1. CASE InstallScript(Admin)
    <3>1. Argument(Admin) \in Trees
      BY <1>0, <2>1, InstallHead DEF InstallScript
    <3>2. disk'.script = Argument(Admin).script
      BY <2>1 DEF InstallScript, HostInv, DiskOK
    <3> QED  BY <3>1, <3>2, TreeIs DEF ScriptComes
  <2>2. CASE ~ InstallScript(Admin)
    <3>1. disk'.script = disk.script
      BY <1>3, <1>4, <2>2 DEF InstallConf, InstallDropin, InstallTables, HostInv, DiskOK, Raise
    <3>2. o.op # "install script"
      BY <1>3, <2>2 DEF InstallConf, InstallDropin, InstallTables, Runs, o
    <3>3. \A tree : Op("install script", None, tree).op = "install script"
      BY DEF Op
    <3>4. \A tree : o \notin {Op("install script", None, tree)}
      BY <3>2, <3>3
    <3> QED  BY <1>8, <3>1, <3>4 DEF ScriptComes
  <2> QED  BY <2>1, <2>2
<1>10. \A i \in ifs : Has(todo'[Admin], {Do("start", i)})
  <2>1. \A i : Do("start", i).op \notin InstallNames
    BY DEF Do, Op, InstallNames
  <2>2. \A i : o \notin {Do("start", i)}
    BY <1>2, <2>1
  <2> QED  BY <1>8, <2>2
<1>11. \A i \in gone : UnitGoes(i)'
  <2>1. \A i : Do("systemctl stop", i).op \notin InstallNames
    BY DEF Do, Op, InstallNames
  <2>2. \A i : o \notin {Do("systemctl stop", i)}
    BY <1>2, <2>1
  <2> QED  BY <1>3, <1>8, <2>2 DEF UnitGoes
<1>12. \E s \in Seq(Named(StopNames)) : todo'[Admin] = s \o (Tail(t) \o u)
  <2>1. <<>> \in Seq(Named(StopNames))
    BY NamedSeqs
  <2> QED  BY <1>1, <1>5, <2>1
<1> QED  BY <1>1, <1>7, <1>9, <1>10, <1>11, <1>12 DEF Preparing

\* A command that is none of the script's is proper and undoes nothing.
LEMMA PlainStarts ==
  ASSUME NEW content, IsScript(content), NEW o \in Named(StartNames)
  PROVE  /\ o \in StartOps(content)
         /\ \A j \in DOMAIN content : \A part \in Wanted(content[j]) :
              o \notin Undoes(part, j, content[j]) /\ o \notin Does(part, j, content[j])
<1>1. o \in OpsOf(Admin) /\ o.op \in StartNames
  BY DEF Named
<1>2. o.op \notin ScriptNames
  BY <1>1 DEF StartNames, ScriptNames
<1>3. o \in StartOps(content)
  BY <1>1, <1>2 DEF StartOps, Named, ProperIn, ScriptNames
<1>4. ~ IsAddrDel(o) /\ ~ IsDel(o) /\ ~ IsAddition(o)
  BY <1>2 DEF IsAddrDel, IsDel, IsAddition, ScriptNames
<1>5. ASSUME NEW j \in DOMAIN content, NEW part \in Wanted(content[j])
      PROVE  o \notin Undoes(part, j, content[j]) /\ o \notin Does(part, j, content[j])
  <2>1. j \in Names /\ part \in Parts
    BY WantedParts DEF IsScript
  <2> QED  BY <1>4, <2>1, UndoneBy, DoneBy
<1> QED  BY <1>3, <1>5

LEMMA PlainSeqs ==
  ASSUME NEW content, IsScript(content), NEW q \in Seq(Named(StartNames))
  PROVE  q \in StartSeqs(content)
<1>1. \A n \in 1 .. Len(q) : q[n] \in Named(StartNames)
  BY SMT
<1>2. \A n \in 1 .. Len(q) : q[n] \in StartOps(content)
  BY <1>1, PlainStarts
<1>3. q \in Seq(StartOps(content))
  BY <1>2, SmallerSeq
<1>4. ASSUME NEW j \in DOMAIN content, NEW part \in Wanted(content[j])
      PROVE  Followed(q, Undoes(part, j, content[j]), Does(part, j, content[j]))
  <2>1. \A n \in 1 .. Len(q) : q[n] \notin Undoes(part, j, content[j])
    BY <1>1, PlainStarts
  <2> QED  BY <2>1, NothingToFollow
<1> QED  BY <1>3, <1>4 DEF StartSeqs, Redoes

\* Once everything is stopped and installed.
LEMMA PreparedStarts ==
  ASSUME HostInv, NEW ifs, NEW gone, Clearing(gone), ScriptComes,
         \A i \in gone : UnitGoes(i),
         \A i \in ifs : Has(todo[Admin], {Do("start", i)}),
         todo[Admin] \in Seq(Named({"start"}))
  PROVE  Starting(ifs, gone)
<1>1. ASSUME NEW name, name # "start", NEW i, NEW arg
      PROVE  ~ Has(todo[Admin], {Op(name, i, arg)})
  <2>1. Op(name, i, arg).op \notin {"start"}
    BY <1>1 DEF Op
  <2>2. \A o \in {Op(name, i, arg)} : o.op \notin {"start"}
    BY <2>1
  <2> QED  BY <2>2, NotNamed
<1>2. disk.script # None /\ IsScript(disk.script)
  <2>1. \A tree : ~ Has(todo[Admin], {Op("install script", None, tree)})
    BY <1>1
  <2> QED  BY <2>1 DEF ScriptComes, HostInv, DiskOK
<1>3. todo[Admin] \in StartSeqs(disk.script)
  <2>1. Named({"start"}) \subseteq Named(StartNames)
    BY DEF Named, StartNames
  <2>2. todo[Admin] \in Seq(Named(StartNames))
    BY <2>1, SeqsGrow
  <2> QED  BY <1>2, <2>2, PlainSeqs
<1>4. \A n \in 1 .. Len(todo[Admin]) : todo[Admin][n].op = "start"
  BY NamedSeqs
<1>5. ASSUME NEW i \in Names
      PROVE  /\ ~ Has(todo[Admin], {Do("post", i), Do("started", i)})
             /\ Followed(todo[Admin], {Do("systemctl start", i), Do("wg-quick up", i)}, {Do("apply", i)})
  <2>1. /\ Do("post", i).op # "start" /\ Do("started", i).op # "start"
        /\ Do("systemctl start", i).op # "start" /\ Do("wg-quick up", i).op # "start"
    BY DEF Do, Op
  <2>2. /\ \A n \in 1 .. Len(todo[Admin]) : todo[Admin][n] \notin {Do("post", i), Do("started", i)}
        /\ \A n \in 1 .. Len(todo[Admin]) :
             todo[Admin][n] \notin {Do("systemctl start", i), Do("wg-quick up", i)}
    BY <1>4, <2>1
  <2> QED  BY <2>2, NothingToFollow
<1>6. ASSUME NEW i \in ifs
      PROVE  /\ Has(todo[Admin], {Do("start", i), Do("apply", i)})
             /\ Has(todo[Admin], {Do("start", i), Do("systemctl start", i)})
  <2>1. Has(todo[Admin], {Do("start", i)})
    OBVIOUS
  <2> QED  BY <2>1 DEF Has
<1>7. ASSUME NEW i \in ifs, i \in gone, i \in DOMAIN disk.script
      PROVE  LinkComes(i) /\ NothingElse(i)
  <2>0. i \in Names /\ LinkGoes(i) /\ RulesGo(i) /\ UnitGoes(i)
    BY <1>7 DEF Clearing
  <2>1. unit[i] \in {"inactive", "failed"}
    <3>1. ~ Has(todo[Admin], {Do("systemctl stop", i)})
      BY <1>1 DEF Do
    <3> QED  BY <2>0, <3>1 DEF UnitGoes
  <2>2. LinkComes(i)
    BY <1>6, <2>1 DEF LinkComes
  <2>3. i \notin kernel.link
    <3>1. LinkDel(i).op # "start"
      BY StopOpNames
    <3> QED  BY <1>4, <2>0, <3>1 DEF LinkGoes
  <2>4. PrefsLookingUp(i) = {}
    <3>1. \A n \in 1 .. Len(todo[Admin]) : ~ IsRound(todo[Admin][n], i)
      BY <1>4 DEF IsRound
    <3> QED  BY <2>0, <3>1 DEF RulesGo
  <2>5. kernel.addr[i] = {}
    BY <2>0, <2>3 DEF HostInv, KernelOK
  <2>6. TableOf[i] = i =>
          \A pref \in Prefs : \A rule \in Range(kernel.rules[pref]) : rule.table # i
    BY <2>0, <2>4, NoneIsNoName DEF PrefsLookingUp
  <2> QED  BY <2>2, <2>5, <2>6 DEF NothingElse
<1>8. \A p \in Names : todo[p] = <<>>
  BY DEF Clearing
<1> QED  BY <1>2, <1>3, <1>5, <1>6, <1>7, <1>8 DEF Starting

LEMMA StartSeqsConcat ==
  ASSUME NEW content
  PROVE  /\ StartSeqs(content) \subseteq Seq(OpsOf(Admin))
         /\ <<>> \in StartSeqs(content)
         /\ \A a, b \in StartSeqs(content) : a \o b \in StartSeqs(content)
         /\ \A a \in StartSeqs(content) : a # <<>> =>
              Tail(a) \in StartSeqs(content) /\ Head(a) \in StartOps(content)
<1> DEFINE S == StartOps(content)
<1>0. S \subseteq OpsOf(Admin)
  BY DEF StartOps, Named
<1> HIDE DEF S
<1>1. StartSeqs(content) \subseteq Seq(OpsOf(Admin))
  <2>1. Seq(S) \subseteq Seq(OpsOf(Admin))
    BY <1>0, SeqsGrow
  <2> QED  BY <2>1 DEF StartSeqs, S
<1>2. \A a : a \in StartSeqs(content) <=> a \in Seq(S) /\ Redoes(content, a)
  BY DEF StartSeqs, S
<1>3. <<>> \in StartSeqs(content)
  <2>1. <<>> \in Seq(S)
    OBVIOUS
  <2>2. \A A, B : Followed(<<>>, A, B)
    <3>1. Len(<<>>) = 0 /\ 1 .. 0 = {}
      OBVIOUS
    <3> QED  BY <3>1 DEF Followed
  <2> QED  BY <1>2, <2>1, <2>2 DEF Redoes
<1>4. ASSUME NEW a \in StartSeqs(content), NEW b \in StartSeqs(content)
      PROVE  a \o b \in StartSeqs(content)
  <2>1. a \in Seq(S) /\ b \in Seq(S) /\ Redoes(content, a) /\ Redoes(content, b)
    BY <1>2
  <2>2. a \o b \in Seq(S)
    BY <2>1
  <2>3. ASSUME NEW A, NEW B, Followed(a, A, B), Followed(b, A, B) PROVE Followed(a \o b, A, B)
    <3>1. a \in FollowedSeqs(S, A, B) /\ b \in FollowedSeqs(S, A, B)
      BY <2>1, <2>3 DEF FollowedSeqs
    <3>2. a \o b \in FollowedSeqs(S, A, B)
      BY <3>1, FollowedConcat
    <3> QED  BY <3>2 DEF FollowedSeqs
  <2>4. Redoes(content, a \o b)
    BY <2>1, <2>3 DEF Redoes
  <2> QED  BY <1>2, <2>2, <2>4
<1>5. ASSUME NEW a \in StartSeqs(content), a # <<>>
      PROVE  Tail(a) \in StartSeqs(content) /\ Head(a) \in S
  <2>1. a \in Seq(S) /\ Redoes(content, a)
    BY <1>2
  <2>2. Head(a) \in S /\ Tail(a) \in Seq(S)
    BY <1>5, <2>1, HeadTailProperties
  <2>3. \A A, B : Followed(a, A, B) => Followed(Tail(a), A, B)
    BY <1>5, <2>1, TailFollows
  <2>4. Redoes(content, Tail(a))
    BY <2>1, <2>3 DEF Redoes
  <2> QED  BY <1>2, <2>2, <2>4
<1> QED  BY <1>1, <1>3, <1>4, <1>5 DEF S

\* The script's run for one interface.
LEMMA ApplyStarts ==
  ASSUME NEW content, IsScript(content), NEW j \in Names, NEW s, s = ApplyScript(content, {j})
  PROVE  /\ s \in StartSeqs(content)
         /\ \A n \in 1 .. Len(s) : s[n].op \in ScriptNames
         /\ j \in DOMAIN content => \A part \in Wanted(content[j]) : Has(s, Does(part, j, content[j]))
<1>1. Admin \in Processes
  BY DEF Processes
<1>2. /\ s \in RedoingSeqs(content, Admin)
      /\ j \in DOMAIN content => \A part \in Wanted(content[j]) : Has(s, Does(part, j, content[j]))
  BY <1>1, ApplyScriptRedoes
<1>3. s \in Seq(OpsOf(Admin)) /\ Redoes(content, s)
      /\ \A n \in 1 .. Len(s) : s[n] \in OpsOf(Admin) /\ s[n].op \in ScriptNames
                                /\ \A i \in DOMAIN content : ProperIn(content, s[n], i)
  BY <1>2, ScriptSeqs
<1>4. \A n \in 1 .. Len(s) : s[n] \in StartOps(content)
  BY <1>3 DEF StartOps, Named
<1>5. s \in Seq(StartOps(content))
  BY <1>3, <1>4, SmallerSeq
<1> QED  BY <1>2, <1>3, <1>5 DEF StartSeqs

\* A step that changes nothing but links and puts commands in the place of
\* one that is not the script's.
LEMMA StartingMoves ==
  ASSUME HostInv, NEW ifs, NEW gone, Starting(ifs, gone), todo[Admin] # <<>>,
         NEW o \in Named(StartNames), o = Head(todo[Admin]),
         NEW rest, rest = Tail(todo[Admin]),
         NEW more \in StartSeqs(disk.script), todo'[Admin] = more \o rest,
         \A p \in Names : todo'[p] = <<>>,
         kernel'.addr = kernel.addr, kernel'.route = kernel.route, kernel'.rules = kernel.rules,
         kernel.link \subseteq kernel'.link, disk' = disk,
         \A i \in Names :
           /\ Has(more, {Do("post", i), Do("started", i)}) => i \in kernel'.link
           /\ \/ Followed(more, {Do("systemctl start", i), Do("wg-quick up", i)}, {Do("apply", i)})
              \/ Has(rest, {Do("apply", i)}),
         \A i \in disk.conf \cap disk.tables \cap DOMAIN disk.script :
           /\ o \in {Do("start", i), Do("apply", i)} =>
                \/ Has(more, {Do("start", i), Do("apply", i)})
                \/ i \notin kernel'.link
                \/ \A part \in Wanted(disk.script[i]) : Has(more, Does(part, i, disk.script[i]))
           /\ i \in kernel'.link \ kernel.link => Has(rest, {Do("apply", i)}),
         \A i \in disk.conf : LinkComes(i) => LinkComes(i)'
  PROVE  Starting(ifs, gone)'
<1> DEFINE T == OpsOf(Admin)
           q == todo[Admin]
<1>0. /\ Admin \in Processes /\ (\A p \in Processes : p # Admin => p \in Names)
      /\ disk.script # None /\ IsScript(disk.script) /\ (\A p \in Names : todo[p] = <<>>)
      /\ q \in StartSeqs(disk.script)
  BY DEF Processes, HostInv, DiskOK, Starting
<1>1. /\ q \in Seq(T) /\ more \in Seq(T) /\ rest \in Seq(T) /\ q # <<>>
      /\ rest \in StartSeqs(disk.script)
  BY <1>0, StartSeqsConcat
<1>2. todo'[Admin] \in StartSeqs(disk.script)
  BY <1>1, StartSeqsConcat
<1> HIDE DEF T
<1>3. ASSUME NEW B
      PROVE  /\ Has(q, B) => Has(todo'[Admin], B) \/ o \in B
             /\ Has(more, B) \/ Has(rest, B) => Has(todo'[Admin], B)
             /\ Has(todo'[Admin], B) => Has(more, B) \/ Has(q, B)
  <2>1. Has(q, B) => Has(more \o rest, B) \/ o \in B
    BY <1>1, HasStays
  <2>2. Has(more, B) \/ Has(rest, B) => Has(more \o rest, B)
    BY <1>1, HasConcat
  <2>3. Has(more \o rest, B) => Has(more, B) \/ Has(q, B)
    BY <1>1, HasTail
  <2> QED  BY <2>1, <2>2, <2>3
<1>4. ASSUME NEW i \in Names
      PROVE  /\ Has(todo'[Admin], {Do("post", i), Do("started", i)}) => i \in kernel'.link
             /\ Followed(todo'[Admin], {Do("systemctl start", i), Do("wg-quick up", i)}, {Do("apply", i)})
  <2> DEFINE A == {Do("systemctl start", i), Do("wg-quick up", i)}
             B == {Do("apply", i)}
             C == {Do("post", i), Do("started", i)}
  <2>1. /\ Followed(q, A, B) /\ (Has(q, C) => i \in kernel.link)
        /\ Followed(more, A, B) \/ Has(rest, B)
        /\ Has(more, C) => i \in kernel'.link
    BY DEF Starting
  <2> HIDE DEF A, B, C, q
  <2>2. Followed(rest, A, B)
    BY <1>1, <2>1, TailFollows DEF q
  <2>3. Followed(more \o rest, A, B)
    BY <1>1, <2>1, <2>2, FollowedBefore
  <2>4. Has(todo'[Admin], C) => i \in kernel'.link
    BY <1>3, <2>1 
  <2> QED  BY <2>3, <2>4 DEF A, B, C
<1>5. ASSUME NEW i \in ifs \cap disk.conf \cap disk.tables \cap DOMAIN disk.script
      PROVE  \/ Has(todo'[Admin], {Do("start", i), Do("apply", i)})
             \/ i \in kernel'.link => AllDue(i)'
  <2> DEFINE B == {Do("start", i), Do("apply", i)}
  <2>0. i \in Names
    BY <1>0 DEF IsScript
  <2>1. Has(rest, {Do("apply", i)}) => Has(todo'[Admin], B)
    <3>1. Has(rest, {Do("apply", i)}) => Has(rest, B)
      BY DEF Has
    <3> QED  BY <1>3, <3>1
  <2>2. CASE Has(q, B)
    <3>1. Has(todo'[Admin], B) \/ o \in B
      BY <1>3, <2>2
    <3>2. ASSUME \A part \in Wanted(disk.script[i]) : Has(more, Does(part, i, disk.script[i]))
          PROVE  AllDue(i)'
      <4>1. \A part \in Wanted(disk.script[i]) : Has(todo'[Admin], Does(part, i, disk.script[i]))
        BY <1>3, <3>2
      <4> QED  BY <1>0, <4>1 DEF AllDue, Due
    <3>3. o \in B => \/ Has(more, B) \/ i \notin kernel'.link
                     \/ \A part \in Wanted(disk.script[i]) : Has(more, Does(part, i, disk.script[i]))
      OBVIOUS
    <3> QED  BY <1>3, <3>1, <3>2, <3>3
  <2>3. CASE i \in kernel.link => AllDue(i)
    <3>1. CASE i \notin kernel.link
      BY <2>1, <3>1
    <3>2. CASE i \in kernel.link
      <4>1. ASSUME NEW part \in Wanted(disk.script[i]) PROVE Due(part, i)'
        <5>1. part \in Parts /\ Due(part, i)
          BY <2>3, <3>2, WantedParts DEF AllDue
        <5>2. o \notin Does(part, i, disk.script[i])
          BY <1>0, PlainStarts
        <5>3. \A p \in Processes : p # Admin => todo'[p] = todo[p]
          BY <1>0
        <5> QED  BY <1>0, <1>1, <2>0, <5>1, <5>2, <5>3, DueMoves
      <4> QED  BY <4>1 DEF AllDue
    <3> QED  BY <3>1, <3>2
  <2> QED  BY <2>2, <2>3 DEF Starting
<1>6. ASSUME NEW i \in ifs \cap disk.conf \cap disk.tables \cap DOMAIN disk.script, i \in gone
      PROVE  LinkComes(i)' /\ NothingElse(i)'
  <2>1. LinkComes(i) /\ NothingElse(i)
    BY <1>6 DEF Starting
  <2> QED  BY <2>1 DEF NothingElse
<1> QED  BY <1>0, <1>2, <1>4, <1>5, <1>6 DEF Starting

\* The link goes on to come.
LEMMA LinkStillComes ==
  ASSUME HostInv, todo[Admin] # <<>>, NEW more \in Seq(OpsOf(Admin)),
         todo'[Admin] = more \o Tail(todo[Admin]), kernel.link \subseteq kernel'.link,
         NEW i \in Names, LinkComes(i),
         unit'[i] = unit[i] \/ unit'[i] # "active" \/ i \in kernel'.link,
         Head(todo[Admin]) \in {Do("start", i), Do("systemctl start", i), Do("wg-quick up", i)} =>
           LinkComes(i)'
  PROVE  LinkComes(i)'
<1> DEFINE o == Head(todo[Admin])
<1>1. todo[Admin] \in Seq(OpsOf(Admin))
  BY DEF HostInv, QueuesOK, Processes
<1>2. \A B : Has(todo[Admin], B) => Has(todo'[Admin], B) \/ o \in B
  BY <1>1, HasStays
<1>3. CASE o \notin {Do("start", i), Do("systemctl start", i), Do("wg-quick up", i)}
  <2>1. /\ Has(todo[Admin], {Do("wg-quick up", i)}) => Has(todo'[Admin], {Do("wg-quick up", i)})
        /\ Has(todo[Admin], {Do("start", i), Do("systemctl start", i)}) =>
             Has(todo'[Admin], {Do("start", i), Do("systemctl start", i)})
    BY <1>2, <1>3
  <2> QED  BY <2>1 DEF LinkComes
<1> QED  BY <1>3

\* What the command does that is next, when it is none of the script's.
LEMMA StartHead ==
  ASSUME HostInv, NEW ifs, NEW gone, Starting(ifs, gone), NEW name \in StartNames,
         Runs(Admin, name)
  PROVE  /\ todo[Admin] # <<>> /\ Subject(Admin) \in Names
         /\ Head(todo[Admin]) = Do(name, Subject(Admin))
         /\ Head(todo[Admin]) \in Named(StartNames)
         /\ Tail(todo[Admin]) \in Seq(OpsOf(Admin))
         /\ disk.script # None /\ IsScript(disk.script)
         /\ \A A, B : Followed(todo[Admin], A, B) /\ Head(todo[Admin]) \in A => Has(Tail(todo[Admin]), B)
<1>0. Admin \in Processes /\ QueuesOK /\ name \in PlainNames /\ todo[Admin] # <<>>
      /\ todo[Admin] \in Seq(OpsOf(Admin))
  BY DEF HostInv, QueuesOK, Processes, StartNames, PlainNames, Runs
<1>1. Subject(Admin) \in Names /\ Head(todo[Admin]) = Do(name, Subject(Admin))
  BY <1>0, PlainHead
<1>2. Head(todo[Admin]) \in OpsOf(Admin) /\ Tail(todo[Admin]) \in Seq(OpsOf(Admin))
  BY <1>0, HeadShape
<1>3. Head(todo[Admin]) \in Named(StartNames)
  BY <1>2 DEF Runs, Named
<1>4. disk.script # None /\ IsScript(disk.script)
  BY DEF Starting, HostInv, DiskOK
<1>5. \A A, B : Followed(todo[Admin], A, B) /\ Head(todo[Admin]) \in A => Has(Tail(todo[Admin]), B)
  BY <1>0, TailFollows
<1> QED  BY <1>0, <1>1, <1>2, <1>3, <1>4, <1>5

LEMMA ContinuesAlone ==
  ASSUME HostInv, \A p \in Names : todo[p] = <<>>, NEW more, Continue(Admin, more)
  PROVE  /\ todo'[Admin] = more \o Tail(todo[Admin])
         /\ \A p \in Names : todo'[p] = <<>>
         /\ UNCHANGED <<last, alone, result>>
<1>1. /\ Admin \in Processes /\ todo = [p \in Processes |-> todo[p]]
      /\ \A p \in Names : p \in Processes /\ p # Admin
  BY NoneIsNoName DEF HostInv, QueuesOK, Processes
<1> QED  BY <1>1 DEF Continue

\* Commands tell their interface and their name.
LEMMA DoApart ==
  ASSUME NEW a, NEW b, NEW i, NEW j
  PROVE  Do(a, i) = Do(b, j) => a = b /\ i = j
  BY DEF Do, Op

LEMMA StartsAlone ==
  ASSUME NEW j \in Names, NEW name \in StartNames
  PROVE  Do(name, j) \in Named(StartNames) /\ <<Do(name, j)>> \in Seq(Named(StartNames))
<1>1. Do(name, j) \in OpsOf(Admin)
  BY ProgramsTyped DEF PlainNames, StartNames
<1>2. Do(name, j).op = name
  BY DEF Do, Op
<1>3. Do(name, j) \in Named(StartNames)
  BY <1>1, <1>2 DEF Named
<1> QED  BY <1>3, OneIs

LEMMA BeginStartStays ==
  ASSUME HostInv, NEW ifs, NEW gone, Starting(ifs, gone), BeginStart(Admin)
  PROVE  Starting(ifs, gone)' /\ UNCHANGED <<last, alone>>
<1> DEFINE j == Subject(Admin)
           o == Head(todo[Admin])
           rest == Tail(todo[Admin])
           x == Do("systemctl start", j)
           y == Do("apply", j)
<1>1. /\ todo[Admin] # <<>> /\ j \in Names /\ o = Do("start", j) /\ o \in Named(StartNames)
      /\ rest \in Seq(OpsOf(Admin)) /\ disk.script # None /\ IsScript(disk.script)
  BY StartHead DEF BeginStart, StartNames
<1>2. /\ \A p \in Names : todo[p] = <<>>
      /\ UNCHANGED <<kernel, disk, unit>>
  BY DEF Starting, BeginStart, systemVars
<1>3. x \in Named(StartNames) /\ y \in Named(StartNames)
  BY <1>1, StartsAlone DEF StartNames
<1>4. PICK more : /\ Continue(Admin, more)
                  /\ more = IF j \in disk.conf THEN <<x, y>> ELSE <<>>
  BY DEF BeginStart, StartProgram
<1>5. todo'[Admin] = more \o rest /\ (\A p \in Names : todo'[p] = <<>>) /\ UNCHANGED <<last, alone>>
  BY <1>2, <1>4, ContinuesAlone
<1> HIDE DEF j, o, rest
<1>6. more \in Seq(Named(StartNames))
  <2> DEFINE S == Named(StartNames)
  <2>1. x \in S /\ y \in S
    BY <1>3
  <2> HIDE DEF S, x, y
  <2>2. <<x, y>> \in Seq(S) /\ <<>> \in Seq(S)
    BY <2>1, TwoTyped
  <2>3. more \in Seq(S)
    BY <1>4, <2>2
  <2> QED  BY <2>3 DEF S
<1>7. more \in StartSeqs(disk.script)
  BY <1>1, <1>6, PlainSeqs
<1>8. more \in Seq(OpsOf(Admin))
  BY <1>6, NamedSeqs
<1>9. x.op = "systemctl start" /\ y.op = "apply"
  BY DEF Do, Op
<1>10. \A i, k : /\ Do("systemctl start", i) = x \/ Do("wg-quick up", i) = x => i = j
                 /\ Do("systemctl start", i) # y /\ Do("wg-quick up", i) # y
                 /\ Do("post", i) # x /\ Do("post", i) # y
                 /\ Do("started", i) # x /\ Do("started", i) # y
  BY DoApart
<1>11. ASSUME NEW i \in Names
       PROVE  /\ ~ Has(more, {Do("post", i), Do("started", i)})
              /\ Followed(more, {Do("systemctl start", i), Do("wg-quick up", i)}, {Do("apply", i)})
  <2> DEFINE A == {Do("systemctl start", i), Do("wg-quick up", i)}
             B == {Do("apply", i)}
             C == {Do("post", i), Do("started", i)}
             S == Named(StartNames)
  <2>1. x \notin C /\ y \notin C /\ y \notin A /\ (x \in A => y \in B) /\ x \in S /\ y \in S
    BY <1>3, <1>10
  <2> HIDE DEF A, B, C, S, x, y
  <2>2. CASE more = <<>>
    <3>1. Len(<<>>) = 0 /\ 1 .. 0 = {}
      OBVIOUS
    <3> QED  BY <2>2, <3>1 DEF Has, Followed, A, B, C
  <2>3. CASE more = <<x, y>>
    <3>1. <<x, y>> \in FollowedSeqs(S, A, B)
      BY <2>1, PairFollows
    <3>2. Len(<<x, y>>) = 2 /\ <<x, y>>[1] = x /\ <<x, y>>[2] = y /\ \A n \in 1 .. 2 : n = 1 \/ n = 2
      OBVIOUS
    <3>3. ~ Has(<<x, y>>, C)
      BY <2>1, <3>2 DEF Has
    <3> QED  BY <2>3, <3>1, <3>3 DEF FollowedSeqs, A, B, C
  <2> QED  BY <1>4, <2>2, <2>3
<1>12. j \in disk.conf => Has(more, {x}) /\ Has(more, {y})
  <2> HIDE DEF x, y
  <2>1. Len(<<x, y>>) = 2 /\ <<x, y>>[1] = x /\ <<x, y>>[2] = y /\ 1 \in 1 .. 2 /\ 2 \in 1 .. 2
    OBVIOUS
  <2>2. Has(<<x, y>>, {x}) /\ Has(<<x, y>>, {y})
    BY <2>1 DEF Has
  <2> QED  BY <1>4, <2>2
<1>13. ASSUME NEW i \in disk.conf
       PROVE  /\ o \in {Do("start", i), Do("apply", i)} => Has(more, {Do("start", i), Do("apply", i)})
              /\ LinkComes(i) => LinkComes(i)'
  <2>1. o \in {Do("start", i), Do("systemctl start", i), Do("wg-quick up", i), Do("apply", i)} => i = j
    <3>1. o = Do("start", j)
      BY <1>1
    <3>2. \A name : o = Do(name, i) => i = j
      BY <3>1, DoApart
    <3> QED  BY <3>2
  <2>2. ASSUME i = j
        PROVE  /\ Has(more, {Do("start", i), Do("apply", i)})
               /\ Has(more, {Do("start", i), Do("systemctl start", i)})
    <3>1. /\ Has(more, {y}) => Has(more, {Do("start", i), Do("apply", i)})
          /\ Has(more, {x}) => Has(more, {Do("start", i), Do("systemctl start", i)})
      BY <2>2 DEF Has
    <3> QED  BY <1>12, <2>2, <3>1
  <2>3. ASSUME LinkComes(i), o \in {Do("start", i), Do("systemctl start", i), Do("wg-quick up", i)}
        PROVE  LinkComes(i)'
    <3> DEFINE T == OpsOf(Admin)
               q == todo[Admin]
    <3>1. q \in Seq(T) /\ q # <<>> /\ more \in Seq(T) /\ rest \in Seq(T) /\ rest = Tail(q) /\ o = Head(q)
      BY <1>1, <1>8 DEF HostInv, QueuesOK, Processes, o, rest
    <3> HIDE DEF T, q
    <3>2. o \notin {Do("wg-quick up", i)}
      BY <1>1, DoApart
    <3>3. Has(q, {Do("wg-quick up", i)}) => Has(more \o rest, {Do("wg-quick up", i)})
      BY <3>1, <3>2, HasStays
    <3>4. Has(more \o rest, {Do("start", i), Do("systemctl start", i)})
      <4> DEFINE B == {Do("start", i), Do("systemctl start", i)}
      <4>1. Has(more, B)
        BY <2>1, <2>2, <2>3
      <4> HIDE DEF B
      <4>2. Has(more \o rest, B)
        BY <3>1, <4>1, HasConcat
      <4> QED  BY <4>2 DEF B
    <3> QED  BY <1>2, <1>5, <2>3, <3>3, <3>4 DEF LinkComes, q
  <2>4. LinkComes(i) => LinkComes(i)'
    <3>1. i \in Names
      BY DEF HostInv, DiskOK
    <3> QED  BY <1>1, <1>2, <1>5, <1>8, <2>3, <3>1, LinkStillComes DEF o, rest
  <2> QED  BY <2>1, <2>2, <2>4
<1> QED  BY <1>1, <1>2, <1>5, <1>7, <1>11, <1>13, StartingMoves DEF o, rest

LEMMA NothingIn ==
  \A A, B : ~ Has(<<>>, A) /\ Followed(<<>>, A, B)
<1>1. Len(<<>>) = 0 /\ 1 .. 0 = {}
  OBVIOUS
<1> QED  BY <1>1 DEF Has, Followed

LEMMA OneIn ==
  ASSUME NEW x
  PROVE  /\ \A A : x \notin A => ~ Has(<<x>>, A)
         /\ \A A, B : x \notin A => Followed(<<x>>, A, B)
         /\ \A A : x \in A => Has(<<x>>, A)
<1>1. \A A : x \notin A => \A n \in 1 .. Len(<<x>>) : <<x>>[n] \notin A
  BY OneCommandIs
<1>2. Len(<<x>>) = 1 /\ <<x>>[1] = x /\ 1 \in 1 .. 1
  OBVIOUS
<1>3. \A A : x \in A => Has(<<x>>, A)
  BY <1>2 DEF Has
<1> QED  BY <1>1, <1>3, NothingToFollow DEF Has

\* systemctl start.
LEMMA UnitStartStays ==
  ASSUME HostInv, NEW ifs, NEW gone, Starting(ifs, gone), SystemctlStart(Admin)
  PROVE  Starting(ifs, gone)' /\ UNCHANGED <<last, alone>>
<1> DEFINE j == Subject(Admin)
           o == Head(todo[Admin])
           rest == Tail(todo[Admin])
           x == Do("wg-quick up", j)
<1>1. /\ todo[Admin] # <<>> /\ j \in Names /\ o = Do("systemctl start", j) /\ o \in Named(StartNames)
      /\ rest \in Seq(OpsOf(Admin)) /\ disk.script # None /\ IsScript(disk.script)
      /\ \A A, B : Followed(todo[Admin], A, B) /\ o \in A => Has(rest, B)
  BY StartHead DEF SystemctlStart, StartNames
<1>2. /\ \A p \in Names : todo[p] = <<>>
      /\ UNCHANGED <<kernel, disk>>
      /\ unit \in [Names -> {"inactive", "starting", "active", "failed"}]
  BY DEF Starting, SystemctlStart, HostInv
<1>3. x \in Named(StartNames) /\ <<x>> \in Seq(Named(StartNames))
  BY <1>1, StartsAlone DEF StartNames
<1>4. PICK more : /\ Continue(Admin, more)
                  /\ \/ more = <<>> /\ unit[j] = "active" /\ UNCHANGED unit
                     \/ more = <<x>> /\ unit' = [unit EXCEPT ![j] = "starting"]
  BY DEF SystemctlStart, Done
<1>5. todo'[Admin] = more \o rest /\ (\A p \in Names : todo'[p] = <<>>) /\ UNCHANGED <<last, alone>>
  BY <1>2, <1>4, ContinuesAlone
<1>6. Has(rest, {Do("apply", j)})
  <2> DEFINE A == {Do("systemctl start", j), Do("wg-quick up", j)}
             B == {Do("apply", j)}
  <2>1. Followed(todo[Admin], A, B) /\ o \in A
    BY <1>1 DEF Starting
  <2> HIDE DEF A, B, o, rest
  <2>2. Has(rest, B)
    BY <1>1, <2>1
  <2> QED  BY <2>2 DEF B
<1> HIDE DEF j, o, rest
<1>7. more \in Seq(Named(StartNames)) /\ more \in StartSeqs(disk.script) /\ more \in Seq(OpsOf(Admin))
  <2>1. more \in Seq(Named(StartNames))
    <3>1. <<>> \in Seq(Named(StartNames))
      BY NamedSeqs
    <3> QED  BY <1>3, <1>4, <3>1
  <2> QED  BY <1>1, <2>1, PlainSeqs, NamedSeqs
<1>8. ASSUME NEW i \in Names
      PROVE  /\ ~ Has(more, {Do("post", i), Do("started", i)})
             /\ \/ Followed(more, {Do("systemctl start", i), Do("wg-quick up", i)}, {Do("apply", i)})
                \/ Has(rest, {Do("apply", i)})
  <2>1. x \notin {Do("post", i), Do("started", i)}
    BY DoApart
  <2>2. i # j => x \notin {Do("systemctl start", i), Do("wg-quick up", i)}
    BY DoApart
  <2> DEFINE A == {Do("systemctl start", i), Do("wg-quick up", i)}
             B == {Do("apply", i)}
             C == {Do("post", i), Do("started", i)}
  <2>3. x \notin C /\ (i # j => x \notin A) /\ (i = j => Has(rest, B))
    BY <1>6, <2>1, <2>2
  <2> HIDE DEF x, A, B, C
  <2>4. ~ Has(more, C)
    BY <1>4, <2>3, NothingIn, OneIn
  <2>5. i # j => Followed(more, A, B)
    BY <1>4, <2>3, NothingIn, OneIn
  <2> QED  BY <2>3, <2>4, <2>5 DEF A, B, C
<1>9. ASSUME NEW i \in disk.conf
      PROVE  /\ o \notin {Do("start", i), Do("apply", i)}
             /\ LinkComes(i) => LinkComes(i)'
  <2>0. i \in Names
    BY DEF HostInv, DiskOK
  <2>1. o \notin {Do("start", i), Do("wg-quick up", i), Do("apply", i)}
    BY <1>1, DoApart
  <2>2. ASSUME LinkComes(i), i = j PROVE LinkComes(i)'
    <3> DEFINE T == OpsOf(Admin)
               q == todo[Admin]
               B == {Do("wg-quick up", i)}
    <3>1. q \in Seq(T) /\ q # <<>> /\ more \in Seq(T) /\ rest \in Seq(T) /\ rest = Tail(q) /\ o = Head(q)
          /\ o \notin B
      BY <1>1, <1>7, <2>1 DEF HostInv, QueuesOK, Processes, o, rest
    <3>2. i \in kernel.link \/ Has(q, B) \/ unit[j] # "active"
      BY <2>2 DEF LinkComes
    <3>3. more = <<x>> => Has(more, B)
      BY <2>2, OneIn
    <3> HIDE DEF T, q, B
    <3>4. Has(q, B) \/ Has(more, B) => Has(more \o rest, B)
      BY <3>1, HasStays, HasConcat
    <3>5. i \in kernel.link \/ Has(more \o rest, B)
      BY <1>4, <3>2, <3>3, <3>4
    <3> QED  BY <1>2, <1>5, <3>5 DEF LinkComes, B
  <2>3. i # j => o \notin {Do("start", i), Do("systemctl start", i), Do("wg-quick up", i)}
    BY <1>1, <2>1, DoApart
  <2>4. i # j => unit'[i] = unit[i]
    BY <1>2, <1>4, <2>0
  <2>5. LinkComes(i) /\ i # j => LinkComes(i)'
    BY <1>1, <1>2, <1>5, <1>7, <2>0, <2>3, <2>4, LinkStillComes DEF o, rest
  <2> QED  BY <2>1, <2>2, <2>5
<1> QED  BY <1>1, <1>2, <1>5, <1>7, <1>8, <1>9, StartingMoves DEF o, rest

\* wg-quick up.
LEMMA WgUpStays ==
  ASSUME HostInv, NEW ifs, NEW gone, Starting(ifs, gone), WgUp(Admin)
  PROVE  Starting(ifs, gone)' /\ UNCHANGED <<last, alone>>
<1> DEFINE j == Subject(Admin)
           o == Head(todo[Admin])
           rest == Tail(todo[Admin])
           x == Do("post", j)
<1>1. /\ todo[Admin] # <<>> /\ j \in Names /\ o = Do("wg-quick up", j) /\ o \in Named(StartNames)
      /\ rest \in Seq(OpsOf(Admin)) /\ disk.script # None /\ IsScript(disk.script)
      /\ \A A, B : Followed(todo[Admin], A, B) /\ o \in A => Has(rest, B)
  BY StartHead DEF WgUp, StartNames
<1>2. /\ \A p \in Names : todo[p] = <<>>
      /\ UNCHANGED disk
      /\ unit \in [Names -> {"inactive", "starting", "active", "failed"}]
      /\ kernel = [addr |-> kernel.addr, link |-> kernel.link, route |-> kernel.route,
                   rules |-> kernel.rules]
  BY DEF Starting, WgUp, HostInv, KernelOK
<1>3. x \in Named(StartNames) /\ <<x>> \in Seq(Named(StartNames))
  BY <1>1, StartsAlone DEF StartNames
<1>4. PICK more :
        /\ Continue(Admin, more)
        /\ \/ /\ j \in disk.conf \ kernel.link /\ more = <<x>> /\ UNCHANGED unit
              /\ kernel' = [kernel EXCEPT !.link = @ \cup {j}]
           \/ /\ j \notin disk.conf \ kernel.link /\ more = <<>> /\ UNCHANGED kernel
              /\ unit' = [unit EXCEPT ![j] = "failed"]
  BY DEF WgUp, Done
<1>5. todo'[Admin] = more \o rest /\ (\A p \in Names : todo'[p] = <<>>) /\ UNCHANGED <<last, alone>>
  BY <1>2, <1>4, ContinuesAlone
<1>6. Has(rest, {Do("apply", j)})
  <2> DEFINE A == {Do("systemctl start", j), Do("wg-quick up", j)}
             B == {Do("apply", j)}
  <2>1. Followed(todo[Admin], A, B) /\ o \in A
    BY <1>1 DEF Starting
  <2> HIDE DEF A, B, o, rest
  <2>2. Has(rest, B)
    BY <1>1, <2>1
  <2> QED  BY <2>2 DEF B
<1> HIDE DEF j, o, rest
<1>7. more \in Seq(Named(StartNames)) /\ more \in StartSeqs(disk.script) /\ more \in Seq(OpsOf(Admin))
  <2>1. more \in Seq(Named(StartNames))
    <3>1. <<>> \in Seq(Named(StartNames))
      BY NamedSeqs
    <3> QED  BY <1>3, <1>4, <3>1
  <2> QED  BY <1>1, <2>1, PlainSeqs, NamedSeqs
<1>8. /\ kernel'.addr = kernel.addr /\ kernel'.route = kernel.route /\ kernel'.rules = kernel.rules
      /\ kernel.link \subseteq kernel'.link /\ kernel'.link \ kernel.link \subseteq {j}
      /\ more = <<x>> => j \in kernel'.link
      /\ j \in disk.conf => j \in kernel'.link
  BY <1>2, <1>4
<1>9. ASSUME NEW i \in Names
      PROVE  /\ Has(more, {Do("post", i), Do("started", i)}) => i \in kernel'.link
             /\ Followed(more, {Do("systemctl start", i), Do("wg-quick up", i)}, {Do("apply", i)})
  <2>1. i # j => x \notin {Do("post", i), Do("started", i)}
    BY DoApart
  <2>2. x \notin {Do("systemctl start", i), Do("wg-quick up", i)}
    BY DoApart
  <2> DEFINE A == {Do("systemctl start", i), Do("wg-quick up", i)}
             B == {Do("apply", i)}
             C == {Do("post", i), Do("started", i)}
  <2>3. x \notin A /\ (i # j => x \notin C)
    BY <2>1, <2>2
  <2> HIDE DEF x, A, B, C
  <2>4. i # j => ~ Has(more, C)
    BY <1>4, <2>3, NothingIn, OneIn
  <2>5. Followed(more, A, B)
    BY <1>4, <2>3, NothingIn, OneIn
  <2>6. ~ Has(<<>>, C)
    BY NothingIn
  <2>7. i = j => (Has(more, C) => i \in kernel'.link)
    BY <1>4, <1>8, <2>6
  <2> QED  BY <2>4, <2>5, <2>7 DEF A, B, C
<1>10. ASSUME NEW i \in disk.conf
       PROVE  /\ o \notin {Do("start", i), Do("apply", i)}
              /\ i \in kernel'.link \ kernel.link => Has(rest, {Do("apply", i)})
              /\ LinkComes(i) => LinkComes(i)'
  <2>0. i \in Names
    BY DEF HostInv, DiskOK
  <2>1. o \notin {Do("start", i), Do("apply", i)}
    BY <1>1, DoApart
  <2>2. i # j => o \notin {Do("start", i), Do("systemctl start", i), Do("wg-quick up", i)}
    BY <1>1, DoApart
  <2>3. i = j => LinkComes(i)'
    BY <1>8 DEF LinkComes
  <2>4. i # j => unit'[i] = unit[i]
    BY <1>2, <1>4, <2>0
  <2>5. LinkComes(i) /\ i # j => LinkComes(i)'
    BY <1>1, <1>5, <1>7, <1>8, <2>0, <2>2, <2>4, LinkStillComes DEF o, rest
  <2> QED  BY <1>6, <1>8, <2>1, <2>3, <2>5
<1> QED  BY <1>1, <1>2, <1>5, <1>7, <1>8, <1>9, <1>10, StartingMoves DEF o, rest

\* The unit is active; its link is there.
LEMMA StartedStays ==
  ASSUME HostInv, NEW ifs, NEW gone, Starting(ifs, gone), UnitStarted(Admin)
  PROVE  Starting(ifs, gone)' /\ UNCHANGED <<last, alone>>
<1> DEFINE j == Subject(Admin)
           o == Head(todo[Admin])
           rest == Tail(todo[Admin])
<1>1. /\ todo[Admin] # <<>> /\ j \in Names /\ o = Do("started", j) /\ o \in Named(StartNames)
      /\ rest \in Seq(OpsOf(Admin)) /\ disk.script # None /\ IsScript(disk.script)
  BY StartHead DEF UnitStarted, StartNames
<1>2. /\ \A p \in Names : todo[p] = <<>>
      /\ UNCHANGED <<disk, kernel>>
      /\ unit \in [Names -> {"inactive", "starting", "active", "failed"}]
      /\ unit' = [unit EXCEPT ![j] = "active"]
  BY DEF Starting, UnitStarted, HostInv
<1>3. todo[Admin] \in Seq(OpsOf(Admin))
  BY DEF HostInv, QueuesOK, Processes
<1>4. j \in kernel.link
  <2>1. Has(todo[Admin], {Do("post", j), Do("started", j)})
    BY <1>1, <1>3, TailFollows
  <2> QED  BY <1>1, <2>1 DEF Starting
<1>5. todo'[Admin] = <<>> \o rest /\ (\A p \in Names : todo'[p] = <<>>) /\ UNCHANGED <<last, alone>>
  BY <1>2, ContinuesAlone DEF UnitStarted, Done
<1> HIDE DEF j, o, rest
<1>6. <<>> \in StartSeqs(disk.script) /\ <<>> \in Seq(OpsOf(Admin))
  BY StartSeqsConcat
<1>7. \A i \in Names :
        /\ ~ Has(<<>>, {Do("post", i), Do("started", i)})
        /\ Followed(<<>>, {Do("systemctl start", i), Do("wg-quick up", i)}, {Do("apply", i)})
  BY NothingIn
<1>8. ASSUME NEW i \in disk.conf
      PROVE  /\ o \notin {Do("start", i), Do("apply", i)}
             /\ LinkComes(i) => LinkComes(i)'
  <2>0. i \in Names
    BY DEF HostInv, DiskOK
  <2>1. o \notin {Do("start", i), Do("apply", i), Do("systemctl start", i), Do("wg-quick up", i)}
    BY <1>1, DoApart
  <2>2. unit'[i] = unit[i] \/ i \in kernel'.link
    BY <1>2, <1>4, <2>0
  <2> QED  BY <1>1, <1>2, <1>5, <1>6, <2>0, <2>1, <2>2, LinkStillComes DEF o, rest
<1> QED  BY <1>1, <1>2, <1>5, <1>6, <1>7, <1>8, StartingMoves DEF o, rest

\* A program of the script holds no command of another name.
LEMMA ScriptOnly ==
  ASSUME NEW s, \A n \in 1 .. Len(s) : s[n].op \in ScriptNames,
         NEW B, \A o \in B : o.op \notin ScriptNames, NEW C
  PROVE  ~ Has(s, B) /\ Followed(s, B, C)
  BY DEF Has, Followed

\* ExecStartPost: the script, perhaps, and the unit is up.
LEMMA PostStays ==
  ASSUME HostInv, NEW ifs, NEW gone, Starting(ifs, gone), ExecStartPost(Admin)
  PROVE  Starting(ifs, gone)' /\ UNCHANGED <<last, alone>>
<1> DEFINE j == Subject(Admin)
           o == Head(todo[Admin])
           rest == Tail(todo[Admin])
           x == Do("started", j)
           s == IF j \in loaded THEN ApplyScript(disk.script, {j}) ELSE <<>>
           more == s \o <<x>>
<1>1. /\ todo[Admin] # <<>> /\ j \in Names /\ o = Do("post", j) /\ o \in Named(StartNames)
      /\ rest \in Seq(OpsOf(Admin)) /\ disk.script # None /\ IsScript(disk.script)
  BY StartHead DEF ExecStartPost, StartNames
<1>2. (\A p \in Names : todo[p] = <<>>) /\ UNCHANGED <<disk, kernel>>
  BY DEF Starting, ExecStartPost
<1>3. UNCHANGED unit /\ Continue(Admin, more)
  BY <1>1 DEF ExecStartPost
<1>4. j \in kernel.link
  <2>1. todo[Admin] \in Seq(OpsOf(Admin))
    BY DEF HostInv, QueuesOK, Processes
  <2>2. Has(todo[Admin], {Do("post", j), Do("started", j)})
    BY <1>1, <2>1, TailFollows
  <2> QED  BY <1>1, <2>2 DEF Starting
<1> HIDE DEF more
<1>5. todo'[Admin] = more \o rest /\ (\A p \in Names : todo'[p] = <<>>) /\ UNCHANGED <<last, alone>>
  BY <1>2, <1>3, ContinuesAlone
<1>6. s \in StartSeqs(disk.script) /\ \A n \in 1 .. Len(s) : s[n].op \in ScriptNames
  <2>1. CASE j \in loaded
    <3>1. s = ApplyScript(disk.script, {j})
      BY <2>1
    <3> HIDE DEF s, j
    <3> QED  BY <1>1, <3>1, ApplyStarts
  <2>2. CASE j \notin loaded
    <3>1. s = <<>>
      BY <2>2
    <3>2. 1 .. Len(<<>>) = {}
      OBVIOUS
    <3> HIDE DEF s
    <3> QED  BY <3>1, <3>2, StartSeqsConcat
  <2> QED  BY <2>1, <2>2
<1>7. <<x>> \in StartSeqs(disk.script)
  <2>1. <<x>> \in Seq(Named(StartNames))
    BY <1>1, StartsAlone DEF StartNames
  <2> HIDE DEF x
  <2> QED  BY <1>1, <2>1, PlainSeqs
<1> HIDE DEF j, o, rest, s
<1>8. more \in StartSeqs(disk.script) /\ more \in Seq(OpsOf(Admin))
      /\ s \in Seq(OpsOf(Admin)) /\ <<x>> \in Seq(OpsOf(Admin))
  <2> HIDE DEF x
  <2>1. s \o <<x>> \in StartSeqs(disk.script)
    BY <1>6, <1>7, StartSeqsConcat
  <2> QED  BY <1>6, <1>7, <2>1, StartSeqsConcat DEF more
<1>9. ASSUME NEW i \in Names
      PROVE  /\ Has(more, {Do("post", i), Do("started", i)}) => i \in kernel.link
             /\ Followed(more, {Do("systemctl start", i), Do("wg-quick up", i)}, {Do("apply", i)})
  <2> DEFINE A == {Do("systemctl start", i), Do("wg-quick up", i)}
             B == {Do("apply", i)}
             C == {Do("post", i), Do("started", i)}
             T == OpsOf(Admin)
  <2>1. x \notin A /\ (x \in C => i = j)
    BY DoApart
  <2>2. (\A c \in A : c.op \notin ScriptNames) /\ (\A c \in C : c.op \notin ScriptNames)
    <3>1. /\ Do("systemctl start", i).op = "systemctl start" /\ Do("wg-quick up", i).op = "wg-quick up"
          /\ Do("post", i).op = "post" /\ Do("started", i).op = "started"
      BY DEF Do, Op
    <3> QED  BY <3>1 DEF ScriptNames
  <2> HIDE DEF A, B, C, T, x
  <2>3. ~ Has(s, A) /\ ~ Has(s, C) /\ Followed(s, A, B)
    BY <1>6, <2>2, ScriptOnly
  <2>4. Followed(<<x>>, A, B) /\ (Has(<<x>>, C) => i = j)
    BY <2>1, OneIn
  <2>5. s \in Seq(T) /\ <<x>> \in Seq(T)
    BY <1>8 DEF T
  <2>6. Followed(s \o <<x>>, A, B)
    BY <2>3, <2>4, <2>5, FollowedBefore
  <2>7. Has(s \o <<x>>, C) => i = j
    BY <2>3, <2>4, <2>5, HasConcat
  <2> QED  BY <1>4, <2>6, <2>7 DEF A, B, C, more
<1>10. ASSUME NEW i \in disk.conf
       PROVE  /\ o \notin {Do("start", i), Do("apply", i)}
              /\ LinkComes(i) => LinkComes(i)'
  <2>0. i \in Names
    BY DEF HostInv, DiskOK
  <2>1. o \notin {Do("start", i), Do("apply", i), Do("systemctl start", i), Do("wg-quick up", i)}
    BY <1>1, DoApart
  <2> QED  BY <1>1, <1>2, <1>3, <1>5, <1>8, <2>0, <2>1, LinkStillComes DEF o, rest
<1> QED  BY <1>1, <1>2, <1>5, <1>8, <1>9, <1>10, StartingMoves DEF o, rest

\* start_ifaces runs the script itself.
LEMMA ApplyStays ==
  ASSUME HostInv, NEW ifs, NEW gone, Starting(ifs, gone), ApplyState(Admin)
  PROVE  Starting(ifs, gone)' /\ UNCHANGED <<last, alone>>
<1> DEFINE j == Subject(Admin)
           o == Head(todo[Admin])
           rest == Tail(todo[Admin])
           more == IF j \in kernel.link THEN ApplyScript(disk.script, {j}) ELSE <<>>
<1>1. /\ todo[Admin] # <<>> /\ j \in Names /\ o = Do("apply", j) /\ o \in Named(StartNames)
      /\ rest \in Seq(OpsOf(Admin)) /\ disk.script # None /\ IsScript(disk.script)
  BY StartHead DEF ApplyState, StartNames
<1>2. (\A p \in Names : todo[p] = <<>>) /\ UNCHANGED <<disk, kernel, unit>>
  BY DEF Starting, ApplyState, systemVars
<1>3. Continue(Admin, more)
  BY <1>1 DEF ApplyState
<1>4. /\ more \in StartSeqs(disk.script)
      /\ \A n \in 1 .. Len(more) : more[n].op \in ScriptNames
      /\ j \in kernel.link /\ j \in DOMAIN disk.script =>
           \A part \in Wanted(disk.script[j]) : Has(more, Does(part, j, disk.script[j]))
  <2>1. CASE j \in kernel.link
    <3>1. more = ApplyScript(disk.script, {j})
      BY <2>1
    <3> HIDE DEF more, j
    <3> QED  BY <1>1, <3>1, ApplyStarts
  <2>2. CASE j \notin kernel.link
    <3>1. more = <<>>
      BY <2>2
    <3>2. 1 .. Len(<<>>) = {}
      OBVIOUS
    <3> HIDE DEF more, j
    <3> QED  BY <2>2, <3>1, <3>2, StartSeqsConcat
  <2> QED  BY <2>1, <2>2
<1> HIDE DEF more
<1>5. todo'[Admin] = more \o rest /\ (\A p \in Names : todo'[p] = <<>>) /\ UNCHANGED <<last, alone>>
  BY <1>2, <1>3, ContinuesAlone
<1>8. more \in Seq(OpsOf(Admin))
  BY <1>4, StartSeqsConcat
<1> HIDE DEF j, o, rest
<1>9. ASSUME NEW i \in Names
      PROVE  /\ ~ Has(more, {Do("post", i), Do("started", i)})
             /\ Followed(more, {Do("systemctl start", i), Do("wg-quick up", i)}, {Do("apply", i)})
  <2> DEFINE A == {Do("systemctl start", i), Do("wg-quick up", i)}
             C == {Do("post", i), Do("started", i)}
  <2>1. (\A c \in A : c.op \notin ScriptNames) /\ (\A c \in C : c.op \notin ScriptNames)
    <3>1. /\ Do("systemctl start", i).op = "systemctl start" /\ Do("wg-quick up", i).op = "wg-quick up"
          /\ Do("post", i).op = "post" /\ Do("started", i).op = "started"
      BY DEF Do, Op
    <3> QED  BY <3>1 DEF ScriptNames
  <2> HIDE DEF A, C
  <2>2. ~ Has(more, C) /\ \A B : Followed(more, A, B)
    BY <1>4, <2>1, ScriptOnly
  <2> QED  BY <2>2 DEF A, C
<1>10. ASSUME NEW i \in disk.conf
       PROVE  /\ o \in {Do("start", i), Do("apply", i)} => i = j
              /\ LinkComes(i) => LinkComes(i)'
  <2>0. i \in Names
    BY DEF HostInv, DiskOK
  <2>1. o \notin {Do("start", i), Do("systemctl start", i), Do("wg-quick up", i)}
    BY <1>1, DoApart
  <2>2. o \in {Do("start", i), Do("apply", i)} => i = j
    BY <1>1, DoApart
  <2> QED  BY <1>1, <1>2, <1>5, <1>8, <2>0, <2>1, <2>2, LinkStillComes DEF o, rest
<1>11. \A i \in disk.conf \cap disk.tables \cap DOMAIN disk.script :
         o \in {Do("start", i), Do("apply", i)} =>
           \/ i \notin kernel'.link
           \/ \A part \in Wanted(disk.script[i]) : Has(more, Does(part, i, disk.script[i]))
  BY <1>2, <1>4, <1>10
<1> QED  BY <1>1, <1>2, <1>4, <1>5, <1>9, <1>10, <1>11, StartingMoves DEF o, rest

\* A command of the script.
LEMMA StartingKernelStep ==
  ASSUME BlocksApart, HostInv, NEW ifs, NEW gone, Starting(ifs, gone), KernelStep(Admin)
  PROVE  Starting(ifs, gone)' /\ UNCHANGED <<last, alone>>
<1> DEFINE o == Head(todo[Admin])
           T == OpsOf(Admin)
           q == todo[Admin]
<1>1. /\ Admin \in Processes /\ q # <<>> /\ q \in Seq(T) /\ o \in T /\ kernel' = Effect(kernel, o)
      /\ todo'[Admin] = Tail(q) /\ \A p \in Processes : p # Admin => todo'[p] = todo[p]
      /\ UNCHANGED <<disk, unit, last, alone>>
  <2>1. Admin \in Processes
    BY DEF Processes
  <2> QED  BY <2>1, StepQueue
<1>2. /\ disk.script # None /\ IsScript(disk.script) /\ q \in StartSeqs(disk.script)
      /\ \A p \in Names : p \in Processes /\ p # Admin /\ todo[p] = <<>>
  BY NoneIsNoName DEF Starting, HostInv, DiskOK, Processes
<1>3. Tail(q) \in StartSeqs(disk.script) /\ o \in StartOps(disk.script)
  BY <1>1, <1>2, StartSeqsConcat
<1>4. o.op \in ScriptNames /\ \A i \in DOMAIN disk.script : ProperIn(disk.script, o, i)
  <2>1. o.op \in KernelOps /\ o.op \in StartNames \cup ScriptNames
    BY <1>3 DEF KernelStep, StartOps, Named
  <2>2. o.op \in ScriptNames
    BY <2>1 DEF KernelOps, StartNames, ScriptNames
  <2> QED  BY <1>3, <2>2 DEF StartOps
<1> HIDE DEF T
<1>5. ASSUME NEW A, NEW B
      PROVE  /\ Has(Tail(q), B) => Has(q, B)
             /\ (\A c \in B : c.op \notin ScriptNames) /\ Has(q, B) => Has(Tail(q), B)
             /\ Followed(q, A, B) => Followed(Tail(q), A, B)
  BY <1>1, <1>4, TailFollows
<1>6. /\ kernel'.link = kernel.link
      /\ \A j \in Names : \A a \in kernel'.addr[j] :
           a \in kernel.addr[j] \/ (IsAddrAdd(o) /\ o.on = j /\ o.arg = a)
      /\ \A pref \in Prefs : \A rule \in Range(kernel'.rules[pref]) :
           rule \in Range(kernel.rules[pref])
             \/ (IsAdd(o) /\ o.arg.pref = pref /\ o.arg.rule = rule)
  <2>1. KernelOK(kernel)
    BY DEF HostInv
  <2>2. o \in OpsOf(Admin) /\ o.op \in ScriptNames /\ Admin \in Processes
    BY <1>1, <1>4 DEF T, Processes
  <2> HIDE DEF o, q
  <2>3. PICK k2 : k2 = Effect(kernel, o)
    OBVIOUS
  <2>4. /\ k2.link = kernel.link
        /\ \A j \in Names : \A a \in k2.addr[j] :
             a \in kernel.addr[j] \/ (IsAddrAdd(o) /\ o.on = j /\ o.arg = a)
        /\ \A pref \in Prefs : \A rule \in Range(k2.rules[pref]) :
             rule \in Range(kernel.rules[pref])
               \/ (IsAdd(o) /\ o.arg.pref = pref /\ o.arg.rule = rule)
    BY <2>1, <2>2, <2>3, ScriptEffect
  <2> QED  BY <1>1, <2>3, <2>4
<1> HIDE DEF q
<1>7. ASSUME NEW i \in Names
      PROVE  /\ Has(Tail(q), {Do("post", i), Do("started", i)}) => i \in kernel'.link
             /\ Followed(Tail(q), {Do("systemctl start", i), Do("wg-quick up", i)}, {Do("apply", i)})
  <2>1. /\ Has(q, {Do("post", i), Do("started", i)}) => i \in kernel.link
        /\ Followed(q, {Do("systemctl start", i), Do("wg-quick up", i)}, {Do("apply", i)})
    BY DEF Starting, q
  <2> QED  BY <1>5, <1>6, <2>1
<1>8. ASSUME NEW i \in ifs \cap disk.conf \cap disk.tables \cap DOMAIN disk.script
      PROVE  \/ Has(Tail(q), {Do("start", i), Do("apply", i)})
             \/ i \in kernel'.link => AllDue(i)'
  <2>0. i \in Names
    BY <1>2 DEF IsScript
  <2>1. CASE Has(q, {Do("start", i), Do("apply", i)})
    <3> DEFINE B == {Do("start", i), Do("apply", i)}
    <3>1. \A c \in B : c.op \notin ScriptNames
      <4>1. Do("start", i).op = "start" /\ Do("apply", i).op = "apply"
        BY DEF Do, Op
      <4> QED  BY <4>1 DEF ScriptNames
    <3>2. Has(q, B)
      BY <2>1
    <3> HIDE DEF B
    <3>3. Has(Tail(q), B)
      BY <1>5, <3>1, <3>2
    <3> QED  BY <3>3 DEF B
  <2>2. CASE i \in kernel.link => AllDue(i)
    <3>1. ASSUME i \in kernel.link, NEW part \in Wanted(disk.script[i]) PROVE Due(part, i)'
      <4>1. part \in Parts /\ Due(part, i)
        BY <2>2, <3>1, WantedParts DEF AllDue
      <4>2. Followed(todo[Admin], Undoes(part, i, disk.script[i]), Does(part, i, disk.script[i]))
        BY <1>2 DEF StartSeqs, Redoes, q
      <4>3. i \in kernel.link \cap disk.tables
        BY <3>1
      <4> QED  BY <1>1, <1>4, <2>0, <4>1, <4>2, <4>3, DueStays
    <3> QED  BY <1>1, <1>6, <3>1 DEF AllDue
  <2> QED  BY <2>1, <2>2 DEF Starting, q
<1>9. ASSUME NEW i \in ifs \cap disk.conf \cap disk.tables \cap DOMAIN disk.script, i \in gone
      PROVE  LinkComes(i)' /\ NothingElse(i)'
  <2>0. i \in Names /\ LinkComes(i) /\ NothingElse(i) /\ ProperIn(disk.script, o, i)
    BY <1>2, <1>4, <1>9 DEF IsScript, Starting
  <2>1. LinkComes(i)'
    <3> DEFINE A == {Do("wg-quick up", i)}
               B == {Do("start", i), Do("systemctl start", i)}
    <3>1. (\A c \in A : c.op \notin ScriptNames) /\ (\A c \in B : c.op \notin ScriptNames)
      <4>1. /\ Do("start", i).op = "start" /\ Do("systemctl start", i).op = "systemctl start"
            /\ Do("wg-quick up", i).op = "wg-quick up"
        BY DEF Do, Op
      <4> QED  BY <4>1 DEF ScriptNames
    <3>2. i \in kernel.link \/ Has(q, A) \/ (unit[i] # "active" /\ Has(q, B))
      BY <2>0 DEF LinkComes, q
    <3> HIDE DEF A, B
    <3>3. i \in kernel.link \/ Has(Tail(q), A) \/ (unit[i] # "active" /\ Has(Tail(q), B))
      BY <1>5, <3>1, <3>2
    <3> QED  BY <1>1, <1>6, <3>3 DEF LinkComes, A, B
  <2> DEFINE plan == disk.script[i]
  <2>2. kernel'.addr[i] \subseteq {plan.addr}
    <3>1. IsAddrAdd(o) /\ o.on = i => o.arg = plan.addr
      BY <2>0 DEF ProperIn, IsAddrAdd
    <3> QED  BY <1>6, <2>0, <3>1 DEF NothingElse
  <2>3. ASSUME TableOf[i] = i, NEW pref \in Prefs, NEW rule \in Range(kernel'.rules[pref]),
               rule.table = i
        PROVE  \/ pref = FromPref(i) /\ rule = FromRule(i, plan.addr)
               \/ pref = UidPref(i) /\ rule \in {UidRule(i, u) : u \in Range(plan.uids)}
    <3>3. /\ \A j, a : /\ FromAdd(j, a).arg.rule = FromRule(j, a) /\ FromRule(j, a).table = j
                        /\ FromAdd(j, a).arg.pref = FromPref(j)
          /\ \A j, u : /\ UidAdd(j, u).arg.rule = UidRule(j, u) /\ UidRule(j, u).table = j
                        /\ UidAdd(j, u).arg.pref = UidPref(j)
      BY DEF FromAdd, UidAdd, Op, FromRule, UidRule
    <3>1. CASE rule \in Range(kernel.rules[pref])
      BY <2>0, <2>3, <3>1 DEF NothingElse
    <3>2. CASE IsAdd(o) /\ o.arg.pref = pref /\ o.arg.rule = rule
      <4>0. o.op = "rule add"
        BY <3>2 DEF IsAdd
      <4>1. o.on = i
        <5>1. CASE o \in CommonOps
          <6>1. o = GuardAdd
            BY <4>0, <5>1, CommonOpShape
          <6>2. rule = Prohibit
            <7>1. GuardAdd.arg.rule = Prohibit
              BY DEF GuardAdd, Op
            <7> QED  BY <3>2, <6>1, <7>1
          <6> QED  BY <2>0, <2>3, <6>2, NoneIsNoName DEF Prohibit
        <5>2. CASE o.on \in Names /\ o \in OpsOn(o.on)
          <6>1. PICK j \in Names : j = o.on
            BY <5>2
          <6>2. (\E a \in Addrs : o = FromAdd(j, a)) \/ (\E u \in Uids : o = UidAdd(j, u))
            BY <4>0, <5>2, <6>1, OpOnShape
          <6>3. rule.table = j
            BY <3>2, <3>3, <6>2
          <6> QED  BY <2>3, <6>1, <6>3
        <5> QED  BY <1>1, <5>1, <5>2, OpsOfShape DEF T
      <4>2. o \in {FromAdd(i, plan.addr)} \cup {UidAdd(i, u) : u \in Range(plan.uids)}
        BY <2>0, <4>0, <4>1 DEF ProperIn
      <4>3. CASE o = FromAdd(i, plan.addr)
        BY <3>2, <3>3, <4>3
      <4>4. CASE \E u \in Range(plan.uids) : o = UidAdd(i, u)
        BY <3>2, <3>3, <4>4
      <4> QED  BY <4>2, <4>3, <4>4
    <3> QED  BY <1>6, <3>1, <3>2
  <2>4. NothingElse(i)'
    BY <1>1, <2>2, <2>3 DEF NothingElse
  <2> QED  BY <2>1, <2>4
<1>10. \A p \in Names : todo'[p] = <<>>
  BY <1>1, <1>2
<1> QED  BY <1>1, <1>2, <1>3, <1>7, <1>8, <1>9, <1>10 DEF Starting, q

\* Every command of the starts keeps the starts right.
LEMMA StartingStep ==
  ASSUME BlocksApart, HostInv, NEW ifs, NEW gone, Starting(ifs, gone), Step(Admin)
  PROVE  Starting(ifs, gone)'
<1> DEFINE name == Head(todo[Admin]).op
           Others == {"clean rules", "wg-quick down", "systemctl stop", "install script",
                      "install conf", "install dropin", "install tables", "look up table"}
<1>1. KernelStep(Admin) \/ BeginStart(Admin) \/ SystemctlStart(Admin) \/ WgUp(Admin)
      \/ ExecStartPost(Admin) \/ UnitStarted(Admin) \/ ApplyState(Admin)
      \/ (todo[Admin] # <<>> /\ name \in Others)
  BY DEF Step, CleanRules, WgDown, SystemctlStop, InstallScript, InstallConf, InstallDropin,
     InstallTables, LookUpTable, Runs
<1>2. ~ (todo[Admin] # <<>> /\ name \in Others)
  <2>1. SUFFICES ASSUME todo[Admin] # <<>> PROVE name \notin Others
    OBVIOUS
  <2>2. Head(todo[Admin]) \in StartOps(disk.script)
    BY <2>1, StartSeqsConcat DEF Starting
  <2>3. name \in StartNames \cup ScriptNames
    BY <2>2 DEF StartOps, Named
  <2> QED  BY <2>3 DEF StartNames, ScriptNames
<1> QED  BY <1>1, <1>2, StartingKernelStep, BeginStartStays, UnitStartStays, WgUpStays, PostStays,
            StartedStays, ApplyStays

LEMMA EmptyFirst ==
  ASSUME NEW T, NEW q \in Seq(T)
  PROVE  <<>> \o q = q
  OBVIOUS

\* Every command of a deployment leaves it on its way.
LEMMA PreparingStep ==
  ASSUME BlocksApart, HostInv, HostInv', NEW ifs, NEW gone, Preparing(ifs, gone), Step(Admin),
         result' = "ok"
  PROVE  Preparing(ifs, gone)' \/ Starting(ifs, gone)'
<1>1. PICK s \in Seq(Named(StopNames)), t \in Seq(Named(InstallNames)), u \in Seq(Named({"start"})) :
        todo[Admin] = s \o (t \o u)
  BY DEF Preparing
<1>2. /\ Clearing(gone) /\ ScriptComes
      /\ \A i \in gone : UnitGoes(i)
      /\ \A i \in ifs : Has(todo[Admin], {Do("start", i)})
  BY DEF Preparing
<1>3. CASE s # <<>>
  BY <1>1, <1>2, <1>3, PreparingStops
<1>4. CASE s = <<>>
  <2>1. t \in Seq(OpsOf(Admin)) /\ u \in Seq(OpsOf(Admin)) /\ t \o u \in Seq(OpsOf(Admin))
    BY NamedSeqs, ConcatTyped
  <2>2. todo[Admin] = t \o u
    BY <1>1, <1>4, <2>1, EmptyFirst
  <2>3. CASE t # <<>>
    BY <1>2, <2>2, <2>3, PreparingInstalls
  <2>4. CASE t = <<>>
    <3>1. todo[Admin] = u
      BY <2>1, <2>2, <2>4, EmptyFirst
    <3>2. Starting(ifs, gone)
      BY <1>2, <3>1, PreparedStarts
    <3> QED  BY <3>2, StartingStep
  <2> QED  BY <2>3, <2>4
<1> QED  BY <1>3, <1>4

\* A command of a process, and what it leaves as it is.
LEMMA StepKeeps ==
  ASSUME NEW p \in Processes, Step(p)
  PROVE  UNCHANGED <<last, alone>> /\ todo[p] # <<>> /\ (result' = "ok" => result = "ok")
  BY DEF Step, KernelStep, CleanRules, WgDown, SystemctlStop, SystemctlStart, ExecStartPost,
     UnitStarted, InstallScript, InstallConf, InstallDropin, InstallTables, BeginStart, ApplyState,
     LookUpTable, WgUp, Runs, Done, Continue, Raise

\* The state of a deployment hangs on no history.
LEMMA DeployStays ==
  ASSUME UNCHANGED vars, NEW ifs, NEW gone, Preparing(ifs, gone) \/ Starting(ifs, gone)
  PROVE  Preparing(ifs, gone)' \/ Starting(ifs, gone)'
<1>1. UNCHANGED <<kernel, disk, unit, todo>>
  BY DEF vars, systemVars
<1>2. CASE Preparing(ifs, gone)
  <2>1. ScriptComes' /\ \A i \in gone : UnitGoes(i)'
    <3>1. ScriptComes'
      <4>1. ScriptComes
        BY <1>2 DEF Preparing
      <4>2. disk' = disk /\ todo' = todo
        BY <1>1
      <4> QED  BY <4>1, <4>2, Zenon DEF ScriptComes
    <3>2. ASSUME NEW i \in gone PROVE UnitGoes(i)'
      <4>1. UnitGoes(i)
        BY <1>2 DEF Preparing
      <4> QED  BY <1>1, <4>1 DEF UnitGoes
    <3> QED  BY <3>1, <3>2
  <2>2. Clearing(gone)'
    <3>1. Clearing(gone)
      BY <1>2 DEF Preparing
    <3> QED  BY <1>1, <3>1, SMTT(30) DEF Clearing, LinkGoes, RulesGo, PrefsLookingUp, EnoughRounds,
                DeletedBefore
  <2> QED  BY <1>1, <1>2, <2>1, <2>2 DEF Preparing
<1>3. CASE Starting(ifs, gone)
  <2>1. /\ \A i : LinkComes(i) => LinkComes(i)'
        /\ \A i : NothingElse(i) => NothingElse(i)'
        /\ \A i : AllDue(i) => AllDue(i)'
    <3>1. \A i : LinkComes(i) => LinkComes(i)'
      BY <1>1 DEF LinkComes
    <3>2. \A i : NothingElse(i) => NothingElse(i)'
      BY <1>1 DEF NothingElse
    <3>3. \A i : AllDue(i) => AllDue(i)'
      BY <1>1 DEF AllDue, Due
    <3> QED  BY <3>1, <3>2, <3>3
  <2> QED  BY <1>1, <1>3, <2>1 DEF Starting
<1> QED  BY <1>2, <1>3

\* What a step makes of an undisturbed deployment: what the command begins
\* with, or what the process' command makes of what was there.
LEMMA DeployInvStep ==
  ASSUME BlocksApart, HostInv, HostInv', TwoRules, DeployInv, [Next]_vars
  PROVE  DeployInv'
<1>1. SUFFICES ASSUME last'.what = "deploy", alone', result' = "ok", last'.start
               PROVE  \E ifs, gone : /\ ifs = last'.ifs /\ gone = (IF last'.stop THEN last'.ifs ELSE {})
                                     /\ Preparing(ifs, gone)' \/ Starting(ifs, gone)'
  <2>1. ASSUME NEW ifs, NEW gone, ifs = last'.ifs, gone = (IF last'.stop THEN last'.ifs ELSE {}),
               Preparing(ifs, gone)' \/ Starting(ifs, gone)'
        PROVE  DeployInv'
    BY <2>1 DEF DeployInv, Preparing, Starting
  <2> QED  BY <2>1 DEF DeployInv
<1>2. CASE \E tree \in Trees, ifs \in Selections, stop, start, create \in BOOLEAN :
             Deploy(tree, ifs, stop, start, create)
  <2>1. PICK tree \in Trees, ifs \in Selections, stop \in BOOLEAN, start \in BOOLEAN,
             create \in BOOLEAN : Deploy(tree, ifs, stop, start, create)
    BY <1>2
  <2>2. /\ last' = [what |-> "deploy", ifs |-> ifs, stop |-> stop, start |-> start]
        /\ UNCHANGED kernel /\ Running = {}
    BY <1>1, <2>1 DEF Deploy, Begin
  <2>3. PICK gone : gone = IF stop THEN ifs ELSE {}
    OBVIOUS
  <2>4. start /\ last'.ifs = ifs /\ last'.stop = stop
    BY <1>1, <2>2
  <2>5. todo' = [todo EXCEPT ![Admin] =
                   (IF stop THEN ForEach([i \in ifs |-> StopProgram(i)]) ELSE <<>>)
                     \o InstallProgram(tree, create)
                     \o ForEach([i \in ifs |-> <<Do("start", i)>>])]
    BY <2>1, <2>4 DEF Deploy, Begin
  <2>6. ifs \in SUBSET Names
    BY HostAssumption
  <2>7. Preparing(ifs, gone)'
    BY <2>2, <2>3, <2>5, <2>6, DeployBegins
  <2> QED  BY <2>3, <2>4, <2>7
<1>3. ASSUME UNCHANGED <<last, alone>>, result = "ok"
      PROVE  \E ifs, gone : /\ ifs = last'.ifs /\ gone = (IF last'.stop THEN last'.ifs ELSE {})
                            /\ Preparing(ifs, gone) \/ Starting(ifs, gone)
  BY <1>1, <1>3 DEF DeployInv
<1>4. CASE UNCHANGED vars
  <2>1. UNCHANGED <<last, alone>> /\ result = "ok"
    BY <1>1, <1>4 DEF vars
  <2>2. PICK ifs, gone : /\ ifs = last'.ifs /\ gone = (IF last'.stop THEN last'.ifs ELSE {})
                         /\ Preparing(ifs, gone) \/ Starting(ifs, gone)
    BY <1>3, <2>1
  <2>3. Preparing(ifs, gone)' \/ Starting(ifs, gone)'
    BY <1>4, <2>2, DeployStays
  <2> QED  BY <2>2, <2>3
<1>5. ASSUME NEW p \in Processes, Step(p)
      PROVE  \E ifs, gone : /\ ifs = last'.ifs /\ gone = (IF last'.stop THEN last'.ifs ELSE {})
                            /\ Preparing(ifs, gone)' \/ Starting(ifs, gone)'
  <2>1. UNCHANGED <<last, alone>> /\ todo[p] # <<>> /\ result = "ok"
    BY <1>1, <1>5, StepKeeps
  <2>2. PICK ifs, gone : /\ ifs = last'.ifs /\ gone = (IF last'.stop THEN last'.ifs ELSE {})
                         /\ Preparing(ifs, gone) \/ Starting(ifs, gone)
    BY <1>3, <2>1
  <2>3. \A q \in Names : todo[q] = <<>>
    BY <2>2 DEF Preparing, Clearing, Starting
  <2>4. p = Admin
    BY <2>1, <2>3 DEF Processes
  <2>5. Preparing(ifs, gone)' \/ Starting(ifs, gone)'
    <3>1. CASE Preparing(ifs, gone)
      BY <1>1, <1>5, <2>4, <3>1, PreparingStep
    <3>2. CASE Starting(ifs, gone)
      BY <1>5, <2>4, <3>2, StartingStep
    <3> QED  BY <2>2, <3>1, <3>2
  <2> QED  BY <2>2, <2>5
<1>6. Interrupt \/ (\E p \in Processes : WgUpFails(p)) => ~ alone'
  BY DEF Interrupt, WgUpFails
<1>7. Reboot => last'.what # "deploy"
  BY DEF Reboot
<1>8. Command => \/ last'.what # "deploy"
                 \/ \E tree \in Trees, ifs \in Selections, stop, start, create \in BOOLEAN :
                      Deploy(tree, ifs, stop, start, create)
  <2>1. \A what, program : Begin(what, program) => last' = what
    BY DEF Begin
  <2>2. ASSUME NEW ifs, StopClean(ifs) PROVE last'.what # "deploy"
    <3>1. last' = [what |-> "stop", ifs |-> ifs]
      BY <2>1, <2>2 DEF StopClean
    <3> QED  BY <3>1
  <2>3. ASSUME NEW i, IfaceUp(i) PROVE last'.what # "deploy"
    <3>1. last' = [what |-> "up"]
      BY <2>1, <2>3 DEF IfaceUp
    <3> QED  BY <3>1
  <2>4. ASSUME NEW i, IfaceDown(i) PROVE last'.what # "deploy"
    <3>1. last' = [what |-> "down"]
      BY <2>1, <2>4 DEF IfaceDown
    <3> QED  BY <3>1
  <2>5. ASSUME NEW i, NEW force, Start(i, force) PROVE last'.what # "deploy"
    <3>1. last' = [what |-> "start"]
      BY <2>1, <2>5 DEF Start
    <3> QED  BY <3>1
  <2>6. ASSUME ApplyByHand PROVE last'.what # "deploy"
    <3>1. last' = [what |-> "apply"]
      BY <2>1, <2>6 DEF ApplyByHand
    <3> QED  BY <3>1
  <2> QED  BY <2>2, <2>3, <2>4, <2>5, <2>6 DEF Command
<1> QED  BY <1>1, <1>2, <1>4, <1>5, <1>6, <1>7, <1>8 DEF Next

\* What a deployment has left once nothing is under way.
LEMMA DeployEnds ==
  ASSUME HostInv, DeployInv
  PROVE  DeployServes
<1>1. SUFFICES ASSUME Ended("deploy"), last.start,
                      NEW i \in last.ifs \cap disk.conf \cap disk.tables \cap DOMAIN disk.script,
                      last.stop \/ i \in kernel.link
               PROVE  Served(i) /\ Guarded /\ (last.stop => NothingElse(i))
  BY DEF DeployServes
<1> DEFINE gone == IF last.stop THEN last.ifs ELSE {}
<1>2. Running = {} /\ todo[Admin] = <<>>
  BY <1>1 DEF Ended, Running, Processes
<1>3. \A B : ~ Has(todo[Admin], B)
  BY <1>2, NothingIn
<1>4. Starting(last.ifs, gone)
  <2>1. Preparing(last.ifs, gone) \/ Starting(last.ifs, gone)
    BY <1>1 DEF DeployInv, Ended
  <2>2. ~ Preparing(last.ifs, gone)
    BY <1>1, <1>3 DEF Preparing
  <2> QED  BY <2>1, <2>2
<1>5. /\ i \in kernel.link => AllDue(i)
      /\ i \in gone => LinkComes(i) /\ NothingElse(i)
  BY <1>1, <1>3, <1>4 DEF Starting
<1>6. last.stop => i \in gone
  BY <1>1
<1>7. i \in kernel.link
  BY <1>1, <1>3, <1>5, <1>6 DEF LinkComes
<1>8. disk.script # None /\ IsScript(disk.script) /\ i \in DOMAIN disk.script
  BY <1>1, <1>4 DEF Starting, HostInv, DiskOK
<1>9. Served(i) /\ Guarded
  BY <1>2, <1>5, <1>7, <1>8, NothingDue
<1> QED  BY <1>5, <1>6, <1>9

\* A deployment that nothing came between and that returned 0 has left each
\* of its interfaces as the installed script says, and the prohibit behind
\* them, whatever it found on the host: the script is run for every link
\* there is, whether or not systemd has read the drop-in, and nothing after
\* it undoes a part without doing it again.  If the deployment stopped the
\* interfaces first, each has its link, no address of an earlier script and,
\* if its table bears its name, no rule of one.
THEOREM DeploymentServes == BlocksApart /\ Spec => []DeployServes
<1> DEFINE I == HostInv /\ QueuesTidy /\ TwoRules /\ DeployInv
<1>1. BlocksApart /\ I /\ [Next]_vars => I'
  BY NextHostInv, TwoRulesStep, DeployInvStep
<1>2. Init => I
  <2>1. ASSUME Init PROVE DeployInv
    BY <2>1 DEF Init, DeployInv
  <2> QED  BY <2>1, InitStopCleans DEF StopCleans
<1>3. I => DeployServes
  BY DeployEnds
<1>4. BlocksApart /\ [Next]_vars => BlocksApart'
  BY DEF BlocksApart
<1> HIDE DEF I
<1> QED  BY <1>1, <1>2, <1>3, <1>4, PTL DEF Spec

=============================================================================
