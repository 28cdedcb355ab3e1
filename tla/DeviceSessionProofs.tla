------------------------- MODULE DeviceSessionProofs -------------------------
(***************************************************************************)
(* What the mount scripts of DeviceSession keep, whatever users, systemd   *)
(* and interruptions do between and during them: the types, that what is   *)
(* mounted is open, and what each script leaves when nothing comes in      *)
(* between.                                                                *)
(***************************************************************************)
EXTENDS DeviceSession, SequenceInduction, SequenceTheorems, FiniteSetTheorems

-----------------------------------------------------------------------------
(* The inductive invariant. *)

Binds == [node : Nodes, views : [SubuNames -> Seq(BOOLEAN)]]

\* What a script of each kind may still have to do.
OpenOps ==
  [op : {"luksOpen"}, arg : [node : Nodes, name : MapNames]] \cup [op : {"mount"}, arg : MapNames]

ViewOps ==
  [op : {"source"}, arg : [masu : Masus]]
    \cup [op : {"unstack"}, arg : [masu : Masus, subu : SubuNames]]
    \cup [op : {"bindfs"}, arg : [masu : Masus, subu : SubuNames, suid : BOOLEAN]]

EndOps == [op : {"terminate", "kill"}, arg : [masu : Masus, subu : SubuNames]]
LogoutOps ==
  EndOps \cup [op : {"umount home"}, arg : Masus] \cup [op : {"umount mnt", "close"}, arg : MapNames]

\* A view is touched only after its script has found the home bound.
Sourced(q) ==
  \A n \in DOMAIN q : q[n].op # "source" =>
    \/ home[q[n].arg.masu] # << >>
    \/ \E k \in DOMAIN q : k < n /\ q[k] = Op("source", [masu |-> q[n].arg.masu])

Queue ==
  \/ todo \in Seq(OpenOps)
  \/ todo \in Seq(LogoutOps)
  \/ todo \in Seq(ViewOps) /\ Sourced(todo)
  \/ \E name \in MapNames, m \in Masus :
       mnt[name] # None /\ todo = <<Op("bind", [name |-> name, masu |-> m])>>

\* No partition is open twice; what is mounted under a name is open under it;
\* and a bound home's partition is open.
Devices ==
  /\ mapping \in [MapNames -> Nodes \cup {None}]
  /\ mnt \in [MapNames -> Nodes \cup {None}]
  /\ \A name, other \in MapNames :
       mapping[name] # None /\ mapping[name] = mapping[other] => name = other
  /\ \A name \in MapNames : mnt[name] \in {None, mapping[name]}

Homes ==
  /\ home \in [Masus -> Seq(Binds)]
  /\ \A m \in Masus : \A n \in DOMAIN home[m] :
       \E name \in MapNames : mapping[name] = home[m][n].node

Sessions ==
  /\ session \in [Masus -> [SubuNames -> Nat]]
  /\ \A m \in Masus, s \in SubuNames : session[m][s] <= Len(home[m])

Asked ==
  /\ result \in {"ok", "error"}
  /\ last.what = "open" => last.node \in Nodes /\ last.name \in MapNames
  /\ last.what = "own" => last.masu \in Masus /\ DOMAIN last.suid \subseteq SubuNames
  /\ last.what = "logout" => last.masu \in Masus /\ last.name \in MapNames \cup {None}

SessionInv == Queue /\ Devices /\ Homes /\ Sessions /\ Asked

\* open_mount, while nothing comes in between.
OpenInv ==
  alone /\ last.what = "open" /\ last.free =>
    LET node == last.node name == last.name IN
    \/ /\ todo = <<Op("luksOpen", [node |-> node, name |-> name]), Op("mount", name)>>
       /\ mapping[name] \in {None, node}
       /\ \A other \in MapNames \ {name} : mapping[other] # node
    \/ todo = <<Op("mount", name)>> /\ mapping[name] = node
    \/ todo = << >> /\ mnt[name] = node

\* map_own: for each subuser the old views and the new one are still to
\* come, or the new one, or neither.
Concerns(o, s) == o.op # "source" /\ o.arg.subu = s

ViewPending(q, m, s, suid) ==
  \E n \in DOMAIN q :
    /\ n + 1 \in DOMAIN q
    /\ q[n] = Op("unstack", [masu |-> m, subu |-> s])
    /\ q[n + 1] = Op("bindfs", [masu |-> m, subu |-> s, suid |-> suid])
    /\ \A k \in DOMAIN q : Concerns(q[k], s) => k \in {n, n + 1}

ViewNext(q, m, s, suid) ==
  /\ q # << >>
  /\ Head(q) = Op("bindfs", [masu |-> m, subu |-> s, suid |-> suid])
  /\ \A k \in DOMAIN q : Concerns(q[k], s) => k = 1
  /\ ViewsAt(m, s) = << >>

ViewDone(q, m, s, suid) ==
  /\ \A k \in DOMAIN q : ~Concerns(q[k], s)
  /\ ViewsAt(m, s) = <<suid>>

ViewOnItsWay(q, m, s, suid) ==
  ViewPending(q, m, s, suid) \/ ViewNext(q, m, s, suid) \/ ViewDone(q, m, s, suid)

OwnInv ==
  alone /\ result = "ok" /\ last.what = "own" =>
    /\ todo \in Seq(ViewOps)
    /\ \A n \in DOMAIN todo : todo[n].arg.masu = last.masu
    /\ \A s \in DOMAIN last.suid : ViewOnItsWay(todo, last.masu, s, last.suid[s])

\* logout: the sessions are signalled, then the home goes, the mount and the
\* mapping.
HomeGone(m, name) ==
  /\ home[m] = << >>
  /\ \A other \in Masus : \A n \in DOMAIN home[other] : home[other][n].node # mapping[name]

EndsWithHome(q, m, name) ==
  /\ Len(q) >= 3
  /\ \A n \in DOMAIN q : n <= Len(q) - 3 => q[n] \in EndOps
  /\ q[Len(q) - 2] = Op("umount home", m)
  /\ q[Len(q) - 1] = Op("umount mnt", name)
  /\ q[Len(q)] = Op("close", name)

LogoutInv ==
  alone /\ last.what = "logout" /\ last.name # None =>
    LET m == last.masu name == last.name IN
    \/ EndsWithHome(todo, m, name) /\ (last.idle => HeldByIdleHome(m, name))
    \/ todo = <<Op("umount mnt", name), Op("close", name)>> /\ (last.idle => HomeGone(m, name))
    \/ todo = <<Op("close", name)>> /\ (last.idle => HomeGone(m, name))
    \/ /\ todo = << >>
       /\ mapping[name] # None => InUse(mapping[name])
       /\ last.idle => home[m] = << >> /\ mapping[name] \in {None, mnt[name]}

-----------------------------------------------------------------------------
(* The programs. *)

LEMMA SubusAreListed ==
  /\ Len(Subus) \in Nat /\ DOMAIN Subus = 1 .. Len(Subus)
  /\ \A n \in 1 .. Len(Subus) : Subus[n] \in SubuNames
  /\ \A s \in SubuNames : \E n \in 1 .. Len(Subus) :
       Subus[n] = s /\ \A k \in 1 .. Len(Subus) : k # n => Subus[k] # s
<1>1. Subus \in Seq(SubuNames) /\ IsInjective(Subus)
  BY SessionAssumption
<1>2. Len(Subus) \in Nat /\ DOMAIN Subus = 1 .. Len(Subus)
  BY <1>1
<1>3. \A a, b \in DOMAIN Subus : Subus[a] = Subus[b] => a = b
  BY <1>1 DEF IsInjective
<1>. QED  BY <1>2, <1>3 DEF SubuNames

\* A sequence of parts, one for each subuser, has the length of the list.
LEMMA PartsLength ==
  ASSUME NEW S, NEW parts \in [DOMAIN Subus -> Seq(S)]
  PROVE  parts \in Seq(Seq(S)) /\ Len(parts) = Len(Subus)
BY SubusAreListed

LEMMA SeqClosed ==
  ASSUME NEW S
  PROVE  << >> \in Seq(S) /\ \A a, b \in Seq(S) : a \o b \in Seq(S)
OBVIOUS

\* One command for each subuser.
LEMMA EndEach ==
  ASSUME NEW m \in Masus, NEW name \in {"terminate", "kill"}
  PROVE  FlattenSeq([n \in DOMAIN Subus |-> <<Op(name, [masu |-> m, subu |-> Subus[n]])>>])
           \in Seq(EndOps)
<1> DEFINE End(s) == Op(name, [masu |-> m, subu |-> s])
           parts == [n \in DOMAIN Subus |-> <<End(Subus[n])>>]
<1>1. \A s \in SubuNames : End(s) \in EndOps
  BY DEF Op, EndOps
<1> HIDE DEF End
<1>2. parts \in [DOMAIN Subus -> Seq(EndOps)]
  <2>1. \A n \in DOMAIN Subus : <<End(Subus[n])>> \in Seq(EndOps)
    BY <1>1, SubusAreListed
  <2>. QED  BY <2>1
<1>3. FlattenSeq(parts) \in Seq(EndOps)
  <2> HIDE DEF parts
  <2>1. parts \in Seq(Seq(EndOps)) /\ Len(parts) \in Nat
    BY <1>2, PartsLength, SubusAreListed
  <2>2. << >> \in Seq(EndOps) /\ \A a, b \in Seq(EndOps) : a \o b \in Seq(EndOps)
    BY SeqClosed
  <2>. QED  BY <2>1, <2>2, FlattenClosed
<1>. QED  BY <1>3 DEF End

LEMMA LogoutProgramIs ==
  ASSUME NEW m \in Masus, NEW name \in MapNames \cup {None}, NEW aggressive \in BOOLEAN,
         NEW q, q = LogoutProgram(m, name, aggressive)
  PROVE  q \in Seq(LogoutOps) /\ (name # None => EndsWithHome(q, m, name))
<1> DEFINE each(op) == FlattenSeq([n \in DOMAIN Subus |-> <<Op(op, [masu |-> m, subu |-> Subus[n]])>>])
           ends == each("terminate") \o (IF aggressive THEN each("kill") ELSE << >>)
           rest == IF name # None THEN <<Op("umount mnt", name), Op("close", name)>> ELSE << >>
<1>1. q = ends \o <<Op("umount home", m)>> \o rest
  BY DEF LogoutProgram, ForEachSubu
<1>2. each("terminate") \in Seq(EndOps) /\ each("kill") \in Seq(EndOps)
  <2> HIDE DEF EndOps
  <2>. QED  BY EndEach
<1> HIDE DEF each
<1> DEFINE umountHome == Op("umount home", m)
           umountMnt == Op("umount mnt", name)
           close == Op("close", name)
<1>4. ends \in Seq(EndOps)
  BY <1>2
<1>6. umountHome \in LogoutOps /\ (name # None => umountMnt \in LogoutOps /\ close \in LogoutOps)
  BY DEF Op, LogoutOps
<1>7. EndOps \subseteq LogoutOps
  BY DEF LogoutOps
<1>8. rest = IF name # None THEN <<umountMnt, close>> ELSE << >>
  OBVIOUS
<1>9. q = ends \o <<umountHome>> \o rest
  BY <1>1
<1> HIDE DEF ends, rest, umountHome, umountMnt, close
<1>10. q \in Seq(LogoutOps)
  <2>1. ends \in Seq(LogoutOps)
    BY <1>4, <1>7
  <2>2. rest \in Seq(LogoutOps)
    BY <1>6, <1>8
  <2>3. <<umountHome>> \in Seq(LogoutOps)
    BY <1>6
  <2>. QED  BY <1>9, <2>1, <2>2, <2>3
<1>11. ASSUME name # None PROVE EndsWithHome(q, m, name)
  <2>1. q = ends \o <<umountHome, umountMnt, close>>
    <3>1. \A r \in Seq(EndOps) : \A x, y, z : r \o <<x>> \o <<y, z>> = r \o <<x, y, z>>
      OBVIOUS
    <3>2. rest = <<umountMnt, close>>
      BY <1>8, <1>11
    <3>. QED  BY <1>9, <1>4, <3>1, <3>2
  <2>2. /\ Len(q) = Len(ends) + 3 /\ Len(ends) \in Nat
        /\ \A n \in 1 .. Len(ends) : q[n] = ends[n]
        /\ q[Len(ends) + 1] = umountHome
        /\ q[Len(ends) + 2] = umountMnt
        /\ q[Len(ends) + 3] = close
    BY <2>1, <1>4
  <2>3. DOMAIN q = 1 .. Len(q) /\ \A n \in 1 .. Len(ends) : ends[n] \in EndOps
    BY <1>4, <1>10
  <2>4. /\ Len(q) >= 3
        /\ \A n \in DOMAIN q : n <= Len(q) - 3 => q[n] \in EndOps
        /\ q[Len(q) - 2] = umountHome
        /\ q[Len(q) - 1] = umountMnt
        /\ q[Len(q)] = close
    BY <2>2, <2>3
  <2>. QED  BY <2>4 DEF EndsWithHome, umountHome, umountMnt, close
<1>. QED  BY <1>10, <1>11

\* The view programs of one home; those that leave a subuser alone; and those
\* that replace his view once.
ViewsOf(m) == {q \in Seq(ViewOps) : \A n \in DOMAIN q : q[n].arg.masu = m}
Without(m, s) == {q \in ViewsOf(m) : \A n \in DOMAIN q : ~Concerns(q[n], s)}
Replacing(m, s, suid) == {q \in ViewsOf(m) : ViewPending(q, m, s, suid)}

LEMMA MapOwnProgramIs ==
  ASSUME NEW m \in Masus, NEW s \in SubuNames, NEW suid \in BOOLEAN,
         NEW q, q = MapOwnProgram(m, s, suid)
  PROVE  /\ q \in Replacing(m, s, suid)
         /\ \A t \in SubuNames : t # s => q \in Without(m, t)
         /\ Len(q) = 3 /\ q[1] = Op("source", [masu |-> m])
<1>1. /\ Len(q) = 3 /\ DOMAIN q = 1 .. 3
      /\ q[1] = Op("source", [masu |-> m])
      /\ q[2] = Op("unstack", [masu |-> m, subu |-> s])
      /\ q[3] = Op("bindfs", [masu |-> m, subu |-> s, suid |-> suid])
  BY DEF MapOwnProgram
<1>2. q[1] \in ViewOps /\ q[2] \in ViewOps /\ q[3] \in ViewOps
  BY <1>1 DEF Op, ViewOps
<1>3. q \in Seq(ViewOps)
  BY <1>1, <1>2 DEF MapOwnProgram
<1>4. q \in ViewsOf(m)
  BY <1>1, <1>3 DEF ViewsOf, Op
<1>5. \A t : ~Concerns(q[1], t) /\ (Concerns(q[2], t) => t = s) /\ (Concerns(q[3], t) => t = s)
  BY <1>1 DEF Concerns, Op
<1>6. ViewPending(q, m, s, suid)
  BY <1>1, <1>5 DEF ViewPending
<1>7. \A t \in SubuNames : t # s => q \in Without(m, t)
  BY <1>1, <1>4, <1>5 DEF Without
<1>. QED  BY <1>1, <1>4, <1>6, <1>7 DEF Replacing

LEMMA WithoutClosed ==
  ASSUME NEW m, NEW s
  PROVE  << >> \in Without(m, s) /\ \A a, b \in Without(m, s) : a \o b \in Without(m, s)
<1>1. << >> \in Without(m, s)
  BY DEF Without, ViewsOf
<1>2. ASSUME NEW a \in Without(m, s), NEW b \in Without(m, s)
      PROVE  a \o b \in Without(m, s)
  <2>1. a \in Seq(ViewOps) /\ b \in Seq(ViewOps) /\ a \o b \in Seq(ViewOps)
    BY DEF Without, ViewsOf
  <2>2. ASSUME NEW n \in DOMAIN (a \o b)
        PROVE  (a \o b)[n].arg.masu = m /\ ~Concerns((a \o b)[n], s)
    <3>1. CASE n \in DOMAIN a
      <4>1. (a \o b)[n] = a[n]
        BY <2>1, <3>1
      <4>. QED  BY <3>1, <4>1 DEF Without, ViewsOf
    <3>2. CASE n \notin DOMAIN a
      <4>1. n - Len(a) \in DOMAIN b /\ (a \o b)[n] = b[n - Len(a)]
        BY <2>1, <3>2
      <4>. QED  BY <4>1 DEF Without, ViewsOf
    <3>. QED  BY <3>1, <3>2
  <2>. QED  BY <2>1, <2>2 DEF Without, ViewsOf
<1>. QED  BY <1>1, <1>2

LEMMA ReplacingBehind ==
  ASSUME NEW m, NEW s, NEW suid, NEW a \in Without(m, s), NEW b \in Replacing(m, s, suid)
  PROVE  a \o b \in Replacing(m, s, suid)
<1>1. a \in Seq(ViewOps) /\ b \in Seq(ViewOps) /\ a \o b \in Seq(ViewOps)
  BY DEF Without, Replacing, ViewsOf
<1>2. PICK n \in DOMAIN b :
        /\ n + 1 \in DOMAIN b
        /\ b[n] = Op("unstack", [masu |-> m, subu |-> s])
        /\ b[n + 1] = Op("bindfs", [masu |-> m, subu |-> s, suid |-> suid])
        /\ \A k \in DOMAIN b : Concerns(b[k], s) => k \in {n, n + 1}
  BY DEF Replacing, ViewPending
<1>3. /\ Len(a) \in Nat /\ n \in Nat
      /\ Len(a) + n \in DOMAIN (a \o b) /\ (a \o b)[Len(a) + n] = b[n]
      /\ Len(a) + n + 1 \in DOMAIN (a \o b) /\ (a \o b)[Len(a) + n + 1] = b[n + 1]
  BY <1>1, <1>2
<1>4. ASSUME NEW k \in DOMAIN (a \o b)
      PROVE  /\ (a \o b)[k].arg.masu = m
             /\ Concerns((a \o b)[k], s) => k \in {Len(a) + n, Len(a) + n + 1}
  <2>1. CASE k \in DOMAIN a
    <3>1. (a \o b)[k] = a[k]
      BY <1>1, <2>1
    <3>. QED  BY <2>1, <3>1 DEF Without, ViewsOf
  <2>2. CASE k \notin DOMAIN a
    <3>1. k - Len(a) \in DOMAIN b /\ (a \o b)[k] = b[k - Len(a)] /\ k \in Nat
      BY <1>1, <2>2
    <3>2. k - Len(a) \in {n, n + 1} => k \in {Len(a) + n, Len(a) + n + 1}
      BY <1>3, <3>1
    <3>3. b[k - Len(a)].arg.masu = m
      BY <3>1 DEF Replacing, ViewsOf
    <3>. QED  BY <3>1, <3>2, <3>3, <1>2
  <2>. QED  BY <2>1, <2>2
<1>5. ViewPending(a \o b, m, s, suid)
  BY <1>2, <1>3, <1>4 DEF ViewPending
<1>. QED  BY <1>1, <1>4, <1>5 DEF Replacing, ViewsOf

LEMMA ReplacingBefore ==
  ASSUME NEW m, NEW s, NEW suid, NEW a \in Without(m, s), NEW b \in Replacing(m, s, suid)
  PROVE  b \o a \in Replacing(m, s, suid)
<1>1. a \in Seq(ViewOps) /\ b \in Seq(ViewOps) /\ b \o a \in Seq(ViewOps)
  BY DEF Without, Replacing, ViewsOf
<1>2. PICK n \in DOMAIN b :
        /\ n + 1 \in DOMAIN b
        /\ b[n] = Op("unstack", [masu |-> m, subu |-> s])
        /\ b[n + 1] = Op("bindfs", [masu |-> m, subu |-> s, suid |-> suid])
        /\ \A k \in DOMAIN b : Concerns(b[k], s) => k \in {n, n + 1}
  BY DEF Replacing, ViewPending
<1>3. /\ n \in DOMAIN (b \o a) /\ (b \o a)[n] = b[n]
      /\ n + 1 \in DOMAIN (b \o a) /\ (b \o a)[n + 1] = b[n + 1]
  BY <1>1, <1>2
<1>4. ASSUME NEW k \in DOMAIN (b \o a)
      PROVE  /\ (b \o a)[k].arg.masu = m
             /\ Concerns((b \o a)[k], s) => k \in {n, n + 1}
  <2>1. CASE k \in DOMAIN b
    <3>1. (b \o a)[k] = b[k]
      BY <1>1, <2>1
    <3>2. b[k].arg.masu = m
      BY <2>1 DEF Replacing, ViewsOf
    <3>. QED  BY <1>2, <2>1, <3>1, <3>2
  <2>2. CASE k \notin DOMAIN b
    <3>1. k - Len(b) \in DOMAIN a /\ (b \o a)[k] = a[k - Len(b)]
      BY <1>1, <2>2
    <3>. QED  BY <3>1 DEF Without, ViewsOf
  <2>. QED  BY <2>1, <2>2
<1>5. ViewPending(b \o a, m, s, suid)
  BY <1>2, <1>3, <1>4 DEF ViewPending
<1>. QED  BY <1>1, <1>4, <1>5 DEF Replacing, ViewsOf

\* map_own_all replaces each subuser's view once.
LEMMA MapOwnAllProgramIs ==
  ASSUME NEW m \in Masus, NEW suids \in SUBSET SubuNames, NEW q,
         q = FlattenSeq([n \in DOMAIN Subus |-> MapOwnProgram(m, Subus[n], Subus[n] \in suids)])
  PROVE  /\ q \in ViewsOf(m)
         /\ \A s \in SubuNames : q \in Replacing(m, s, s \in suids)
<1> DEFINE parts == [n \in DOMAIN Subus |-> MapOwnProgram(m, Subus[n], Subus[n] \in suids)]
<1>1. q = FlattenSeq(parts)
  OBVIOUS
<1>2. \A n \in 1 .. Len(Subus) :
        /\ parts[n] \in Replacing(m, Subus[n], Subus[n] \in suids)
        /\ \A t \in SubuNames : t # Subus[n] => parts[n] \in Without(m, t)
  <2> SUFFICES ASSUME NEW n \in 1 .. Len(Subus)
               PROVE  /\ parts[n] \in Replacing(m, Subus[n], Subus[n] \in suids)
                      /\ \A t \in SubuNames : t # Subus[n] => parts[n] \in Without(m, t)
    OBVIOUS
  <2> DEFINE s == Subus[n]
             suid == Subus[n] \in suids
  <2>1. s \in SubuNames /\ suid \in BOOLEAN /\ parts[n] = MapOwnProgram(m, s, suid)
    BY SubusAreListed
  <2> HIDE DEF parts, s, suid
  <2>2. parts[n] \in Replacing(m, s, suid) /\ \A t \in SubuNames : t # s => parts[n] \in Without(m, t)
    <3>1. ASSUME NEW q1, q1 = MapOwnProgram(m, s, suid)
          PROVE  q1 \in Replacing(m, s, suid) /\ \A t \in SubuNames : t # s => q1 \in Without(m, t)
      BY <2>1, <3>1, MapOwnProgramIs
    <3>. QED  BY <2>1, <3>1
  <2>. QED  BY <2>2 DEF s, suid
<1>3. \A n \in 1 .. Len(Subus) : parts[n] \in ViewsOf(m)
  BY <1>2 DEF Replacing
<1>4. parts \in Seq(ViewsOf(m)) /\ Len(parts) = Len(Subus) /\ Len(parts) \in Nat
  <2>1. DOMAIN parts = 1 .. Len(Subus) /\ Len(Subus) \in Nat /\ parts = [n \in 1 .. Len(Subus) |-> parts[n]]
    BY SubusAreListed
  <2> HIDE DEF parts
  <2>. QED  BY <2>1, <1>3
<1> HIDE DEF parts
<1>5. q \in ViewsOf(m)
  <2>1. << >> \in ViewsOf(m)
    BY DEF ViewsOf
  <2>2. ASSUME NEW a \in ViewsOf(m), NEW b \in ViewsOf(m) PROVE a \o b \in ViewsOf(m)
    <3>1. a \in Seq(ViewOps) /\ b \in Seq(ViewOps) /\ a \o b \in Seq(ViewOps)
      BY DEF ViewsOf
    <3>2. ASSUME NEW n \in DOMAIN (a \o b) PROVE (a \o b)[n].arg.masu = m
      <4>1. \/ n \in DOMAIN a /\ (a \o b)[n] = a[n]
            \/ n - Len(a) \in DOMAIN b /\ (a \o b)[n] = b[n - Len(a)]
        BY <3>1
      <4>. QED  BY <4>1 DEF ViewsOf
    <3>. QED  BY <3>1, <3>2 DEF ViewsOf
  <2>. QED  BY <1>1, <1>4, <2>1, <2>2, FlattenClosed
<1>6. ASSUME NEW s \in SubuNames PROVE q \in Replacing(m, s, s \in suids)
  <2>1. PICK n \in 1 .. Len(Subus) : Subus[n] = s /\ \A k \in 1 .. Len(Subus) : k # n => Subus[k] # s
    BY SubusAreListed
  <2>2. \A k \in 1 .. Len(parts) : k # n => parts[k] \in Without(m, s)
    BY <1>2, <1>4, <2>1
  <2>3. parts[n] \in Replacing(m, s, s \in suids) /\ n \in 1 .. Len(parts) /\ Len(parts) \in Nat
    BY <1>2, <1>4, <2>1
  <2>4. \A a \in Without(m, s), b \in Replacing(m, s, s \in suids) :
          a \o b \in Replacing(m, s, s \in suids) /\ b \o a \in Replacing(m, s, s \in suids)
    BY ReplacingBehind, ReplacingBefore
  <2>5. \A a, b \in Without(m, s) : a \o b \in Without(m, s)
    BY WithoutClosed
  <2> DEFINE T == Without(m, s)
             U == Replacing(m, s, s \in suids)
  <2> HIDE DEF T, U
  <2>6. FlattenSeq(parts) \in U
    <3>1. \A a \in T, b \in U : a \o b \in U /\ b \o a \in U
      BY <2>4 DEF T, U
    <3>2. \A a, b \in T : a \o b \in T
      BY <2>5 DEF T
    <3>3. parts[n] \in U /\ \A k \in 1 .. Len(parts) : k # n => parts[k] \in T
      BY <2>2, <2>3 DEF T, U
    <3>. QED  BY <2>3, <3>1, <3>2, <3>3, FlattenSpecial
  <2>. QED  BY <1>1, <2>6 DEF U
<1>. QED  BY <1>5, <1>6

-----------------------------------------------------------------------------
(* What the commands do to the kernel's tables. *)

Kernel == Devices /\ Homes /\ Sessions

\* What the first command of the queue says of the rest.
LEMMA HeadKinds ==
  ASSUME Queue, todo # << >>
  PROVE  \/ todo \in Seq(OpenOps) /\ Head(todo) \in OpenOps /\ Tail(todo) \in Seq(OpenOps)
         \/ todo \in Seq(LogoutOps) /\ Head(todo) \in LogoutOps /\ Tail(todo) \in Seq(LogoutOps)
         \/ /\ todo \in Seq(ViewOps) /\ Head(todo) \in ViewOps /\ Tail(todo) \in Seq(ViewOps)
            /\ Sourced(todo)
         \/ \E name \in MapNames, m \in Masus :
              /\ mnt[name] # None /\ Tail(todo) = << >>
              /\ Head(todo) = Op("bind", [name |-> name, masu |-> m])
<1>1. ASSUME NEW S, todo \in Seq(S) PROVE Head(todo) \in S /\ Tail(todo) \in Seq(S)
  BY <1>1
<1>2. ASSUME NEW x, todo = <<x>> PROVE Head(todo) = x /\ Tail(todo) = << >>
  BY <1>2
<1>3. CASE todo \in Seq(OpenOps)
  BY <1>1, <1>3
<1>4. CASE todo \in Seq(LogoutOps)
  BY <1>1, <1>4
<1>5. CASE todo \in Seq(ViewOps) /\ Sourced(todo)
  BY <1>1, <1>5
<1>6. CASE \E name \in MapNames, m \in Masus :
             mnt[name] # None /\ todo = <<Op("bind", [name |-> name, masu |-> m])>>
  BY <1>2, <1>6
<1>. QED  BY <1>3, <1>4, <1>5, <1>6 DEF Queue

LEMMA ExchangeHome ==
  ASSUME Homes, Sessions, NEW m \in Masus, NEW new \in Seq(Binds),
         home' = [home EXCEPT ![m] = new], UNCHANGED <<mapping, session>>,
         \A n \in DOMAIN new : \E name \in MapNames : mapping[name] = new[n].node,
         \A s \in SubuNames : session[m][s] <= Len(new)
  PROVE  Homes' /\ Sessions'
<1>1. home' \in [Masus -> Seq(Binds)] /\ home'[m] = new /\ \A o \in Masus : o # m => home'[o] = home[o]
  BY DEF Homes
<1>2. Homes'
  BY <1>1 DEF Homes
<1>3. Sessions'
  BY <1>1 DEF Sessions
<1>. QED  BY <1>2, <1>3

\* Exchanging the views of one subuser in the visible bind.
LEMMA ExchangeViews ==
  ASSUME home \in [Masus -> Seq(Binds)], NEW m \in Masus, NEW s \in SubuNames, home[m] # << >>,
         NEW stack \in Seq(BOOLEAN), NEW new, new = WithViews(m, s, stack)
  PROVE  /\ new = [home EXCEPT ![m] = new[m]]
         /\ new[m] \in Seq(Binds) /\ Len(new[m]) = Len(home[m]) /\ new[m] # << >>
         /\ \A n \in DOMAIN new[m] : new[m][n].node = home[m][n].node
         /\ new[m][Len(new[m])].views[s] = stack
         /\ \A t \in SubuNames : t # s =>
              new[m][Len(new[m])].views[t] = home[m][Len(home[m])].views[t]
<1> DEFINE top == Len(home[m])
           bind == home[m][top]
           bind1 == [bind EXCEPT !.views = [@ EXCEPT ![s] = stack]]
<1>1. home[m] \in Seq(Binds) /\ top \in DOMAIN home[m] /\ top \in Nat \ {0} /\ bind \in Binds
  <2>1. home[m] \in Seq(Binds)
    OBVIOUS
  <2>2. top \in 1 .. Len(home[m]) /\ DOMAIN home[m] = 1 .. Len(home[m]) /\ top \in Nat \ {0}
    BY <2>1
  <2>. QED  BY <2>1, <2>2
<1>2. new = [home EXCEPT ![m] = [@ EXCEPT ![top] = bind1]]
  BY <1>1 DEF WithViews
<1>3. new[m] = [home[m] EXCEPT ![top] = bind1] /\ new = [home EXCEPT ![m] = new[m]]
  BY <1>2
<1>4. /\ bind1 \in Binds /\ bind1.node = bind.node
      /\ bind1.views[s] = stack
      /\ \A t \in SubuNames : t # s => bind1.views[t] = bind.views[t]
  BY <1>1 DEF Binds
<1> HIDE DEF bind1
<1>5. new[m] \in Seq(Binds) /\ Len(new[m]) = Len(home[m])
  BY <1>1, <1>3, <1>4
<1>6. new[m][top] = bind1 /\ \A n \in DOMAIN home[m] : n # top => new[m][n] = home[m][n]
  BY <1>1, <1>3
<1>7. DOMAIN new[m] = DOMAIN home[m] /\ new[m] # << >>
  BY <1>1, <1>5
<1>. QED  BY <1>3, <1>4, <1>5, <1>6, <1>7

LEMMA ExchangeViewsKernel ==
  ASSUME Kernel, NEW m \in Masus, NEW s \in SubuNames, home[m] # << >>,
         NEW stack \in Seq(BOOLEAN), home' = WithViews(m, s, stack), UNCHANGED <<mapping, mnt, session>>
  PROVE  Kernel'
<1>1. home \in [Masus -> Seq(Binds)]
  BY DEF Kernel, Homes
<1>2. PICK new : new = home'
  OBVIOUS
<1>3. /\ new = [home EXCEPT ![m] = new[m]]
      /\ new[m] \in Seq(Binds) /\ Len(new[m]) = Len(home[m])
      /\ \A n \in DOMAIN new[m] : new[m][n].node = home[m][n].node
  BY <1>1, <1>2, ExchangeViews
<1>4. DOMAIN new[m] = DOMAIN home[m]
  BY <1>1, <1>3
<1>5. Homes' /\ Sessions'
  <2>1. \A n \in DOMAIN new[m] : \E name \in MapNames : mapping[name] = new[m][n].node
    <3>1. SUFFICES ASSUME NEW n \in DOMAIN home[m]
                   PROVE  \E name \in MapNames : mapping[name] = new[m][n].node
      BY <1>4
    <3>2. new[m][n].node = home[m][n].node
      BY <1>3, <1>4
    <3>. QED  BY <3>2 DEF Kernel, Homes
  <2>2. \A t \in SubuNames : session[m][t] <= Len(new[m])
    BY <1>3 DEF Kernel, Sessions
  <2>3. home' = [home EXCEPT ![m] = new[m]]
    BY <1>2, <1>3
  <2>. QED  BY <2>1, <2>2, <2>3, <1>3, ExchangeHome DEF Kernel
<1>6. Devices'
  BY DEF Kernel, Devices
<1>. QED  BY <1>5, <1>6 DEF Kernel

\* The types of the arguments; a view's home is bound when its turn comes.
LEMMA Arguments ==
  ASSUME Queue, todo # << >>
  PROVE  /\ Head(todo).op = "luksOpen" => Head(todo).arg \in [node : Nodes, name : MapNames]
         /\ Head(todo).op = "mount" => Head(todo).arg \in MapNames
         /\ Head(todo).op = "bind" =>
              Head(todo).arg.masu \in Masus /\ Head(todo).arg.name \in MapNames /\ mnt[Head(todo).arg.name] # None
         /\ Head(todo).op = "source" => Head(todo).arg.masu \in Masus
         /\ Head(todo).op \in {"unstack", "bindfs"} =>
              /\ Head(todo).arg.masu \in Masus /\ Head(todo).arg.subu \in SubuNames
              /\ home[Head(todo).arg.masu] # << >>
         /\ Head(todo).op = "bindfs" => Head(todo).arg.suid \in BOOLEAN
         /\ Head(todo).op \in {"terminate", "kill"} =>
              Head(todo).arg.masu \in Masus /\ Head(todo).arg.subu \in SubuNames
         /\ Head(todo).op = "umount home" => Head(todo).arg \in Masus
         /\ Head(todo).op \in {"umount mnt", "close"} => Head(todo).arg \in MapNames
<1>1. CASE todo \in Seq(OpenOps) /\ Head(todo) \in OpenOps
  BY <1>1 DEF OpenOps
<1>2. CASE todo \in Seq(LogoutOps) /\ Head(todo) \in LogoutOps
  BY <1>2 DEF LogoutOps, EndOps
<1>3. CASE todo \in Seq(ViewOps) /\ Head(todo) \in ViewOps /\ Sourced(todo)
  <2>1. 1 \in DOMAIN todo /\ Head(todo) = todo[1] /\ \A k \in DOMAIN todo : ~ (k < 1)
    BY <1>3
  <2>2. todo[1].op # "source" => home[todo[1].arg.masu] # << >>
    BY <2>1, <1>3 DEF Sourced
  <2>. QED  BY <1>3, <2>1, <2>2 DEF ViewOps
<1>4. CASE \E name \in MapNames, m \in Masus :
             mnt[name] # None /\ Head(todo) = Op("bind", [name |-> name, masu |-> m])
  <2>1. PICK name \in MapNames, m \in Masus :
               mnt[name] # None /\ Head(todo) = Op("bind", [name |-> name, masu |-> m])
    BY <1>4
  <2>2. Head(todo).op = "bind" /\ Head(todo).arg.masu = m /\ Head(todo).arg.name = name
    BY <2>1 DEF Op
  <2>. QED  BY <2>1, <2>2
<1>. QED  BY <1>1, <1>2, <1>3, <1>4, HeadKinds

LEMMA QueueEmpty == ASSUME todo' = << >> PROVE Queue'
<1>1. todo' \in Seq(OpenOps)
  OBVIOUS
<1>. QED  BY <1>1 DEF Queue

\* A command that is done leaves a queue, if no bound home goes that views
\* are still to be shown from.
LEMMA QueueTail ==
  ASSUME Queue, todo # << >>, todo' = Tail(todo),
         todo \in Seq(ViewOps) => \A m \in Masus : home[m] # << >> => home'[m] # << >>,
         Head(todo).op = "source" => home'[Head(todo).arg.masu] # << >>
  PROVE  Queue'
<1>1. CASE todo \in Seq(OpenOps) /\ Tail(todo) \in Seq(OpenOps)
  BY <1>1 DEF Queue
<1>2. CASE todo \in Seq(LogoutOps) /\ Tail(todo) \in Seq(LogoutOps)
  BY <1>2 DEF Queue
<1>3. CASE todo \in Seq(ViewOps) /\ Head(todo) \in ViewOps /\ Tail(todo) \in Seq(ViewOps) /\ Sourced(todo)
  <2>1. /\ Head(todo) = todo[1] /\ DOMAIN todo = 1 .. Len(todo) /\ Len(todo) \in Nat
        /\ DOMAIN Tail(todo) = 1 .. Len(todo) - 1
        /\ \A n \in 1 .. Len(todo) - 1 : Tail(todo)[n] = todo[n + 1] /\ todo[n + 1] \in ViewOps
    BY <1>3
  <2>2. Sourced(todo)'
    <3> SUFFICES ASSUME NEW n \in DOMAIN todo', todo'[n].op # "source"
                 PROVE  \/ home'[todo'[n].arg.masu] # << >>
                        \/ \E k \in DOMAIN todo' :
                             k < n /\ todo'[k] = Op("source", [masu |-> todo'[n].arg.masu])
      BY DEF Sourced
    <3> DEFINE m == todo[n + 1].arg.masu
    <3>1. n \in 1 .. Len(todo) - 1 /\ n + 1 \in DOMAIN todo /\ todo'[n] = todo[n + 1]
      BY <2>1
    <3>2. m \in Masus
      BY <2>1, <3>1 DEF ViewOps
    <3>3. CASE home[m] # << >>
      BY <1>3, <3>1, <3>2, <3>3
    <3>4. CASE home[m] = << >>
      <4>1. PICK k \in DOMAIN todo : k < n + 1 /\ todo[k] = Op("source", [masu |-> m])
        BY <1>3, <3>1, <3>4 DEF Sourced
      <4>2. CASE k = 1
        BY <2>1, <3>1, <4>1, <4>2 DEF Op
      <4>3. CASE k # 1
        <5>1. k - 1 \in DOMAIN todo' /\ k - 1 < n /\ todo'[k - 1] = todo[k]
          BY <2>1, <3>1, <4>1, <4>3
        <5>. QED  BY <5>1, <4>1, <3>1
      <4>. QED  BY <4>2, <4>3
    <3>. QED  BY <3>3, <3>4
  <2>. QED  BY <1>3, <2>2 DEF Queue
<1>4. CASE Tail(todo) = << >>
  BY <1>4, QueueEmpty
<1>. QED  BY <1>1, <1>2, <1>3, <1>4, HeadKinds

LEMMA FrontType ==
  ASSUME NEW S, NEW q \in Seq(S), q # << >>
  PROVE  /\ Front(q) \in Seq(S) /\ Len(Front(q)) = Len(q) - 1 /\ Len(q) \in Nat \ {0}
         /\ \A n \in DOMAIN Front(q) : n \in DOMAIN q /\ Front(q)[n] = q[n]
<1>1. Len(q) \in Nat \ {0}
  OBVIOUS
<1>2. Front(q) = SubSeq(q, 1, Len(q) - 1)
  BY DEF Front
<1>3. /\ SubSeq(q, 1, Len(q) - 1) \in Seq(S) /\ Len(SubSeq(q, 1, Len(q) - 1)) = Len(q) - 1
      /\ \A n \in 1 .. Len(q) - 1 : SubSeq(q, 1, Len(q) - 1)[n] = q[n]
  <2> DEFINE end == Len(q) - 1
  <2>1. end \in Nat /\ 1 \in Int /\ end \in Int /\ \A i \in 1 .. end : q[i] \in S
    BY <1>1
  <2> HIDE DEF end
  <2>2. /\ SubSeq(q, 1, end) \in Seq(S)
        /\ Len(SubSeq(q, 1, end)) = IF 1 <= end THEN end - 1 + 1 ELSE 0
        /\ \A i \in 1 .. end - 1 + 1 : SubSeq(q, 1, end)[i] = q[1 + i - 1]
    BY <2>1, SubSeqProperties
  <2>3. Len(SubSeq(q, 1, end)) = end
    BY <2>1, <2>2
  <2>4. \A i \in 1 .. end : SubSeq(q, 1, end)[i] = q[i]
    <3>1. \A i \in 1 .. end : i \in 1 .. end - 1 + 1 /\ 1 + i - 1 = i
      BY <2>1
    <3>. QED  BY <2>2, <3>1
  <2>. QED  BY <2>2, <2>3, <2>4 DEF end
<1>4. DOMAIN Front(q) = 1 .. Len(q) - 1 /\ DOMAIN q = 1 .. Len(q)
  BY <1>1, <1>2, <1>3
<1>. QED  BY <1>1, <1>2, <1>3, <1>4

LEMMA AppendType ==
  ASSUME NEW S, NEW q \in Seq(S), NEW e \in S
  PROVE  Append(q, e) \in Seq(S)
OBVIOUS

LEMMA ViewsType ==
  ASSUME Homes, NEW m \in Masus, NEW s \in SubuNames
  PROVE  ViewsAt(m, s) \in Seq(BOOLEAN)
<1>1. CASE home[m] = << >>
  <2>1. ViewsAt(m, s) = << >>
    BY <1>1 DEF ViewsAt
  <2>. QED  BY <2>1
<1>2. CASE home[m] # << >>
  <2>1. home[m] \in Seq(Binds)
    BY DEF Homes
  <2>2. home[m][Len(home[m])] \in Binds
    BY <1>2, <2>1
  <2>3. ViewsAt(m, s) = home[m][Len(home[m])].views[s]
    BY <1>2 DEF ViewsAt, Last
  <2>. QED  BY <2>2, <2>3 DEF Binds
<1>. QED  BY <1>1, <1>2

LEMMA SessionsFewer ==
  ASSUME Sessions, Homes, NEW m \in Masus, NEW s \in SubuNames, home' = home,
         session' = session \/ session' = [session EXCEPT ![m][s] = 0]
  PROVE  Sessions'
<1>1. \A o \in Masus : Len(home[o]) \in Nat
  BY DEF Homes
<1>2. CASE session' = session
  BY <1>2 DEF Sessions
<1>3. CASE session' = [session EXCEPT ![m][s] = 0]
  <2>1. session' \in [Masus -> [SubuNames -> Nat]]
    BY <1>3 DEF Sessions
  <2>2. \A o \in Masus, t \in SubuNames : session'[o][t] \in {0, session[o][t]}
    BY <1>3 DEF Sessions
  <2>. QED  BY <1>1, <2>1, <2>2 DEF Sessions
<1>. QED  BY <1>2, <1>3

LEMMA StepKeepsKernel == ASSUME Queue, Kernel, Step PROVE Kernel'
<1> USE DEF Kernel
<1> DEFINE arg == Head(todo).arg
<1>1. CASE LuksOpen
  <2>1. arg \in [node : Nodes, name : MapNames]
    BY <1>1, Arguments DEF LuksOpen, Runs
  <2>2. arg.name \in MapNames /\ arg.node \in Nodes /\ arg.node # None
    BY <2>1, SessionAssumption
  <2>3. CASE mapping' = mapping
    <3>1. UNCHANGED mounts
      BY <1>1, <2>3 DEF LuksOpen, mounts
    <3>. QED  BY <3>1 DEF Devices, Homes, Sessions, mounts
  <2>4. CASE /\ mapping[arg.name] = None /\ \A other \in MapNames : mapping[other] # arg.node
             /\ mapping' = [mapping EXCEPT ![arg.name] = arg.node]
    <3>1. \A name \in MapNames : mapping'[name] = IF name = arg.name THEN arg.node ELSE mapping[name]
      BY <2>4 DEF Devices
    <3>2. UNCHANGED <<mnt, home, session>>
      BY <1>1 DEF LuksOpen
    <3>3. Devices'
      BY <2>2, <2>4, <3>1, <3>2 DEF Devices
    <3>4. Homes'
      <4> SUFFICES ASSUME NEW m \in Masus, NEW n \in DOMAIN home[m]
                   PROVE  \E name \in MapNames : mapping'[name] = home[m][n].node
        BY <3>2 DEF Homes
      <4>1. PICK name \in MapNames : mapping[name] = home[m][n].node
        BY DEF Homes
      <4>2. home[m][n].node \in Nodes
        <5>1. home[m][n] \in Binds
          BY DEF Homes
        <5>. QED  BY <5>1 DEF Binds
      <4>3. name # arg.name
        BY <2>4, <4>1, <4>2, SessionAssumption
      <4>. QED  BY <4>1, <4>3, <3>1
    <3>5. Sessions'
      BY <3>2 DEF Sessions
    <3>. QED  BY <3>3, <3>4, <3>5
  <2>. QED  BY <1>1, <2>3, <2>4 DEF LuksOpen, Argument
<1>2. CASE MountDevice
  <2>1. arg \in MapNames
    BY <1>2, Arguments DEF MountDevice, Runs
  <2>2. UNCHANGED <<mapping, home, session>>
    BY <1>2 DEF MountDevice
  <2>3. \A name \in MapNames : mnt'[name] \in {mnt[name], mapping[name]}
    BY <1>2, <2>1 DEF MountDevice, Argument, Devices
  <2>4. mnt' \in [MapNames -> Nodes \cup {None}]
    BY <1>2, <2>1 DEF MountDevice, Argument, Devices
  <2>5. Devices'
    BY <2>2, <2>3, <2>4 DEF Devices
  <2>. QED  BY <2>2, <2>5 DEF Homes, Sessions
<1>3. CASE BindHome
  <2>1. arg.masu \in Masus /\ arg.name \in MapNames /\ mnt[arg.name] # None
    BY <1>3, Arguments DEF BindHome, Runs
  <2> DEFINE m == arg.masu
             bind == [node |-> mnt[arg.name], views |-> NoViews]
             new == Append(home[m], bind)
  <2>2. bind \in Binds
    <3>1. mnt[arg.name] \in Nodes
      BY <2>1 DEF Devices
    <3>2. NoViews \in [SubuNames -> Seq(BOOLEAN)]
      BY DEF NoViews
    <3>. QED  BY <3>1, <3>2 DEF Binds
  <2>3. UNCHANGED <<mapping, mnt, session>> /\ home' = [home EXCEPT ![m] = new]
    BY <1>3 DEF BindHome, Argument
  <2>4. bind.node = mapping[arg.name]
    BY <2>1 DEF Devices
  <2> HIDE DEF bind
  <2>5. home[m] \in Seq(Binds)
    BY <2>1 DEF Homes
  <2>6. /\ new \in Seq(Binds) /\ Len(new) = Len(home[m]) + 1 /\ Len(home[m]) \in Nat
        /\ \A n \in DOMAIN new : new[n] = bind \/ (n \in DOMAIN home[m] /\ new[n] = home[m][n])
    BY <2>2, <2>5
  <2>7. \A n \in DOMAIN new : \E name \in MapNames : mapping[name] = new[n].node
    <3> SUFFICES ASSUME NEW n \in DOMAIN new
                 PROVE  \E name \in MapNames : mapping[name] = new[n].node
      OBVIOUS
    <3>1. CASE new[n] = bind
      BY <3>1, <2>1, <2>4
    <3>2. CASE n \in DOMAIN home[m] /\ new[n] = home[m][n]
      BY <3>2, <2>1 DEF Homes
    <3>. QED  BY <3>1, <3>2, <2>6
  <2>8. \A s \in SubuNames : session[m][s] <= Len(new)
    BY <2>1, <2>6 DEF Sessions
  <2> HIDE DEF new
  <2>9. Homes' /\ Sessions'
    BY <2>1, <2>3, <2>6, <2>7, <2>8, ExchangeHome
  <2>. QED  BY <2>3, <2>9 DEF Devices
<1>4. CASE FindSource
  BY <1>4 DEF FindSource, mounts, Devices, Homes, Sessions
<1>5. CASE Unstack
  <2>1. arg.masu \in Masus /\ arg.subu \in SubuNames /\ home[arg.masu] # << >>
    BY <1>5, Arguments DEF Unstack, Runs
  <2>2. CASE home' = home
    <3>1. UNCHANGED mounts
      BY <1>5, <2>2 DEF Unstack, mounts
    <3>. QED  BY <3>1 DEF Devices, Homes, Sessions, mounts
  <2>3. CASE home' # home
    <3> DEFINE views == ViewsAt(arg.masu, arg.subu)
    <3>1. views # << >> /\ home' = WithViews(arg.masu, arg.subu, Front(views))
      BY <1>5, <2>3 DEF Unstack, Argument
    <3>2. views \in Seq(BOOLEAN)
      BY <2>1, ViewsType
    <3>3. Front(views) \in Seq(BOOLEAN)
      BY <3>1, <3>2, FrontType
    <3>4. UNCHANGED <<mapping, mnt, session>>
      BY <1>5 DEF Unstack
    <3>. QED  BY <2>1, <3>1, <3>3, <3>4, ExchangeViewsKernel
  <2>. QED  BY <2>2, <2>3
<1>6. CASE MountView
  <2>1. /\ arg.masu \in Masus /\ arg.subu \in SubuNames /\ home[arg.masu] # << >>
        /\ arg.suid \in BOOLEAN
    BY <1>6, Arguments DEF MountView, Runs
  <2> DEFINE views == Append(ViewsAt(arg.masu, arg.subu), arg.suid)
  <2>2. ViewsAt(arg.masu, arg.subu) \in Seq(BOOLEAN)
    BY <2>1, ViewsType
  <2>3. views \in Seq(BOOLEAN)
    BY <2>1, <2>2, AppendType
  <2>4. UNCHANGED <<mapping, mnt, session>> /\ home' = WithViews(arg.masu, arg.subu, views)
    BY <1>6 DEF MountView, Argument
  <2>. QED  BY <2>1, <2>3, <2>4, ExchangeViewsKernel
<1>7. CASE Terminate \/ Kill
  <2>1. arg.masu \in Masus /\ arg.subu \in SubuNames
    BY <1>7, Arguments DEF Terminate, Kill, Signal, Runs
  <2>2. UNCHANGED <<mapping, mnt, home>>
    BY <1>7 DEF Terminate, Kill, Signal
  <2>3. session' = session \/ session' = [session EXCEPT ![arg.masu][arg.subu] = 0]
    BY <1>7 DEF Terminate, Kill, Signal, Argument
  <2>4. Sessions'
    BY <2>1, <2>2, <2>3, SessionsFewer
  <2>. QED  BY <2>2, <2>4 DEF Devices, Homes
<1>8. CASE UmountHome
  <2>1. arg \in Masus
    BY <1>8, Arguments DEF UmountHome, Runs
  <2>2. UNCHANGED <<mapping, mnt, session>>
    BY <1>8 DEF UmountHome
  <2>3. CASE home' = home
    BY <2>2, <2>3 DEF Devices, Homes, Sessions
  <2>4. CASE home' # home
    <3>1. home[arg] # << >> /\ ~HomeBusy(arg) /\ home' = [home EXCEPT ![arg] = Front(@)]
      <4>1. home' = [home EXCEPT ![arg] = IF home[arg] = << >> \/ HomeBusy(arg)
                                          THEN home[arg] ELSE Front(home[arg])]
        BY <1>8 DEF UmountHome, Argument
      <4>2. home = [home EXCEPT ![arg] = home[arg]]
        BY DEF Homes
      <4>. QED  BY <2>4, <4>1, <4>2
    <3> DEFINE new == Front(home[arg])
    <3>2. home[arg] \in Seq(Binds)
      BY <2>1 DEF Homes
    <3>3. /\ new \in Seq(Binds) /\ Len(new) = Len(home[arg]) - 1 /\ Len(home[arg]) \in Nat \ {0}
          /\ \A n \in DOMAIN new : n \in DOMAIN home[arg] /\ new[n] = home[arg][n]
      BY <3>1, <3>2, FrontType
    <3>4. \A n \in DOMAIN new : \E name \in MapNames : mapping[name] = new[n].node
      BY <2>1, <3>3 DEF Homes
    <3>5. \A s \in SubuNames : session[arg][s] <= Len(new)
      <4>1. \A s \in SubuNames : session[arg][s] # Len(home[arg])
        BY <3>1 DEF HomeBusy
      <4>. QED  BY <2>1, <3>3, <4>1 DEF Sessions
    <3>6. home' = [home EXCEPT ![arg] = new]
      BY <3>1
    <3> HIDE DEF new
    <3>7. Homes' /\ Sessions'
      BY <2>1, <2>2, <3>3, <3>4, <3>5, <3>6, ExchangeHome
    <3>. QED  BY <2>2, <3>7 DEF Devices
  <2>. QED  BY <2>3, <2>4
<1>9. CASE UmountDevice
  <2>1. arg \in MapNames
    BY <1>9, Arguments DEF UmountDevice, Runs
  <2>2. /\ UNCHANGED <<mapping, home, session>>
        /\ mnt' = mnt \/ mnt' = [mnt EXCEPT ![arg] = None]
    BY <1>9 DEF UmountDevice, Argument
  <2>3. /\ mnt' \in [MapNames -> Nodes \cup {None}]
        /\ \A name \in MapNames : mnt'[name] \in {None, mnt[name]}
    BY <2>1, <2>2 DEF Devices
  <2>. QED  BY <2>2, <2>3 DEF Devices, Homes, Sessions
<1>10. CASE CloseDevice
  <2>1. arg \in MapNames
    BY <1>10, Arguments DEF CloseDevice, Runs
  <2>2. UNCHANGED <<mnt, home, session>>
    BY <1>10 DEF CloseDevice
  <2>3. /\ mapping' \in [MapNames -> Nodes \cup {None}]
        /\ \A name \in MapNames : name # arg => mapping'[name] = mapping[name]
        /\ mapping'[arg] \in {mapping[arg], None}
        /\ mapping'[arg] # mapping[arg] => ~InUse(mapping[arg])
    BY <1>10, <2>1 DEF CloseDevice, Argument, Devices
  <2>4. \A name \in MapNames :
          mapping'[name] # mapping[name] => mapping'[name] = None /\ ~InUse(mapping[name])
    BY <2>3
  <2>5. Devices'
    <3>1. \A name, other \in MapNames :
            mapping'[name] # None /\ mapping'[name] = mapping'[other] => name = other
      BY <2>4 DEF Devices
    <3>2. \A name \in MapNames : mnt[name] \in {None, mapping'[name]}
      BY <2>4 DEF Devices, InUse
    <3>. QED  BY <2>2, <2>3, <3>1, <3>2 DEF Devices
  <2>6. Homes'
    <3> SUFFICES ASSUME NEW m \in Masus, NEW n \in DOMAIN home[m]
                 PROVE  \E name \in MapNames : mapping'[name] = home[m][n].node
      BY <2>2 DEF Homes
    <3>1. PICK name \in MapNames : mapping[name] = home[m][n].node
      BY DEF Homes
    <3>2. InUse(mapping[name])
      BY <3>1 DEF InUse
    <3>. QED  BY <2>4, <3>1, <3>2
  <2>. QED  BY <2>2, <2>5, <2>6 DEF Sessions
<1>. QED  BY <1>1, <1>2, <1>3, <1>4, <1>5, <1>6, <1>7, <1>8, <1>9, <1>10 DEF Step

\* What is bound stays bound while there is a view still to show.
LEMMA StepKeepsBound ==
  ASSUME Queue, Kernel, Step, todo \in Seq(ViewOps), NEW m \in Masus, home[m] # << >>
  PROVE  home'[m] # << >>
<1> DEFINE arg == Head(todo).arg
<1>1. todo # << >> /\ Head(todo) \in ViewOps
  <2>1. todo # << >>
    BY DEF Step, LuksOpen, MountDevice, BindHome, FindSource, Unstack, MountView, Terminate, Kill, Signal,
           UmountHome, UmountDevice, CloseDevice, Runs
  <2>. QED  BY <2>1
<1>2. Head(todo).op \in {"source", "unstack", "bindfs"}
  BY <1>1 DEF ViewOps
<1>3. CASE home' = home
  BY <1>3
<1>4. CASE Unstack \/ MountView
  <2>1. arg.masu \in Masus /\ arg.subu \in SubuNames /\ home[arg.masu] # << >>
    BY <1>4, Arguments DEF Unstack, MountView, Runs
  <2>2. Head(todo).op = "bindfs" => arg.suid \in BOOLEAN
    BY <1>1, Arguments
  <2>3. ViewsAt(arg.masu, arg.subu) \in Seq(BOOLEAN)
    BY <2>1, ViewsType DEF Kernel
  <2>4. home' = home \/ \E stack \in Seq(BOOLEAN) : home' = WithViews(arg.masu, arg.subu, stack)
    <3>1. CASE Unstack
      BY <3>1, <2>3, FrontType DEF Unstack, Argument
    <3>2. CASE MountView
      <4>1. Append(ViewsAt(arg.masu, arg.subu), arg.suid) \in Seq(BOOLEAN)
        BY <3>2, <2>2, <2>3, AppendType DEF MountView, Runs
      <4>. QED  BY <3>2, <4>1 DEF MountView, Argument
    <3>. QED  BY <1>4, <3>1, <3>2
  <2>5. CASE \E stack \in Seq(BOOLEAN) : home' = WithViews(arg.masu, arg.subu, stack)
    <3>1. PICK stack \in Seq(BOOLEAN) : home' = WithViews(arg.masu, arg.subu, stack)
      BY <2>5
    <3>2. PICK new : new = home'
      OBVIOUS
    <3>3. home \in [Masus -> Seq(Binds)]
      BY DEF Kernel, Homes
    <3>4. new = [home EXCEPT ![arg.masu] = new[arg.masu]] /\ new[arg.masu] # << >>
      <4>1. PICK m1 \in Masus, s1 \in SubuNames : m1 = arg.masu /\ s1 = arg.subu
        BY <2>1
      <4>2. home[m1] # << >> /\ new = WithViews(m1, s1, stack)
        BY <2>1, <3>1, <3>2, <4>1
      <4>3. new = [home EXCEPT ![m1] = new[m1]] /\ new[m1] # << >>
        BY <3>3, <4>2, ExchangeViews
      <4>. QED  BY <4>1, <4>3
    <3>5. new[m] = home[m] \/ m = arg.masu
      BY <3>4, <3>3
    <3>. QED  BY <3>2, <3>4, <3>5
  <2>. QED  BY <2>4, <2>5
<1>5. Unstack \/ MountView \/ home' = home
  BY <1>2 DEF Step, LuksOpen, MountDevice, BindHome, FindSource, Unstack, MountView, Terminate, Kill, Signal,
              UmountHome, UmountDevice, CloseDevice, Runs, mounts
<1>. QED  BY <1>3, <1>4, <1>5

LEMMA StepKeepsInv == ASSUME SessionInv, Step PROVE SessionInv'
<1>1. Queue /\ Kernel /\ Kernel'
  BY StepKeepsKernel DEF SessionInv, Kernel
<1>2. todo # << >> /\ (todo' = Tail(todo) \/ todo' = todo \/ todo' = << >>)
  BY DEF Step, LuksOpen, MountDevice, BindHome, FindSource, Unstack, MountView, Terminate, Kill, Signal,
         UmountHome, UmountDevice, CloseDevice, Runs, Proceed, Go, Quit
<1>3. last' = last /\ result' \in {result, "error"}
  BY DEF Step, LuksOpen, MountDevice, BindHome, FindSource, Unstack, MountView, Terminate, Kill, Signal,
         UmountHome, UmountDevice, CloseDevice, Proceed, Go, Quit
<1>4. Queue'
  <2>1. CASE todo' = << >>
    BY <2>1, QueueEmpty
  <2>2. CASE todo' = Tail(todo) /\ todo' # << >>
    <3>1. todo \in Seq(ViewOps) => \A m \in Masus : home[m] # << >> => home'[m] # << >>
      BY <1>1, StepKeepsBound
    <3>2. Head(todo).op = "source" => home'[Head(todo).arg.masu] # << >>
      BY <2>2 DEF Step, LuksOpen, MountDevice, BindHome, FindSource, Unstack, MountView, Terminate, Kill, Signal,
                  UmountHome, UmountDevice, CloseDevice, Runs, Argument, Quit, mounts
    <3>. QED  BY <1>1, <1>2, <2>2, <3>1, <3>2, QueueTail
  <2>3. CASE todo' = todo /\ todo' # Tail(todo) /\ todo' # << >>
    <3>1. Unstack
      BY <2>3 DEF Step, LuksOpen, MountDevice, BindHome, FindSource, Unstack, MountView, Terminate, Kill, Signal,
                  UmountHome, UmountDevice, CloseDevice, Runs, Proceed, Go, Quit
    <3>2. todo \in Seq(ViewOps) /\ Sourced(todo)
      <4>1. Head(todo).op = "unstack"
        BY <3>1 DEF Unstack, Runs
      <4>2. Head(todo) \notin OpenOps /\ Head(todo) \notin LogoutOps
        BY <4>1 DEF OpenOps, LogoutOps, EndOps
      <4>3. \A name, m : Head(todo) # Op("bind", [name |-> name, masu |-> m])
        BY <4>1 DEF Op
      <4>. QED  BY <1>1, <1>2, <4>2, <4>3, HeadKinds
    <3>3. \A m \in Masus : home[m] # << >> => home'[m] # << >>
      BY <1>1, <3>2, StepKeepsBound
    <3>4. Sourced(todo)'
      <4>1. \A n \in DOMAIN todo : todo[n].op # "source" => todo[n].arg.masu \in Masus
        BY <3>2 DEF ViewOps
      <4>. QED  BY <2>3, <3>2, <3>3, <4>1 DEF Sourced
    <3>. QED  BY <2>3, <3>2, <3>4 DEF Queue
  <2>. QED  BY <1>2, <2>1, <2>2, <2>3
<1>5. Asked'
  BY <1>3 DEF SessionInv, Asked
<1>. QED  BY <1>1, <1>4, <1>5 DEF SessionInv, Kernel

LEMMA ScriptKeepsInv == ASSUME SessionInv, Script PROVE SessionInv'
<1>1. UNCHANGED mounts
  BY DEF Script, OpenMount, DeviceUmount, ToHome, MapOwn, MapOwnAll, Logout, Begin, Refuse
<1>2. Kernel'
  BY <1>1 DEF SessionInv, mounts, Devices, Homes, Sessions, Kernel
<1>3. ASSUME NEW node \in Nodes, NEW name \in MapNames, OpenMount(node, name)
      PROVE  Queue' /\ Asked'
  <2>1. todo' = << >> \/ todo' = <<Op("luksOpen", [node |-> node, name |-> name]), Op("mount", name)>>
    BY <1>3 DEF OpenMount, Begin
  <2>2. /\ last' = [what |-> "open", node |-> node, name |-> name,
                    free |-> Free(node, name), listed |-> ListedAsMounted(name)]
        /\ result' = "ok"
    BY <1>3 DEF OpenMount, Begin
  <2>3. Queue'
    <3> DEFINE a == Op("luksOpen", [node |-> node, name |-> name])
               b == Op("mount", name)
    <3>1. a \in OpenOps /\ b \in OpenOps
      BY DEF OpenOps, Op
    <3>2. todo' = << >> \/ todo' = <<a, b>>
      BY <2>1
    <3> HIDE DEF a, b
    <3>3. todo' \in Seq(OpenOps)
      <4>1. <<a, b>> \in Seq(OpenOps) /\ << >> \in Seq(OpenOps)
        BY <3>1
      <4>. QED  BY <3>2, <4>1
    <3>. QED  BY <3>3 DEF Queue
  <2>4. Asked'
    BY <2>2 DEF Asked
  <2>. QED  BY <2>3, <2>4
<1>4. ASSUME NEW name \in MapNames, DeviceUmount(name)
      PROVE  Queue' /\ Asked'
  <2>1. todo' = <<Op("umount mnt", name)>> /\ last' = [what |-> "umount"] /\ result' = "ok"
    BY <1>4 DEF DeviceUmount, Begin
  <2>2. Queue'
    <3> DEFINE a == Op("umount mnt", name)
    <3>1. a \in LogoutOps /\ todo' = <<a>>
      BY <2>1 DEF LogoutOps, Op
    <3> HIDE DEF a
    <3>2. todo' \in Seq(LogoutOps)
      BY <3>1
    <3>. QED  BY <3>2 DEF Queue
  <2>. QED  BY <2>1, <2>2 DEF Asked
<1>5. ASSUME Refuse PROVE Queue' /\ Asked'
  <2>1. todo' = << >> /\ last' = [what |-> "refused"] /\ result' = "error"
    BY <1>5 DEF Refuse
  <2>. QED  BY <2>1, QueueEmpty DEF Asked
<1>6. ASSUME NEW name \in MapNames, NEW m \in Masus, ToHome(name, m)
      PROVE  Queue' /\ Asked'
  <2>1. CASE Refuse
    BY <1>5, <2>1
  <2>2. CASE /\ mnt[name] # None
             /\ Begin([what |-> "home"], <<Op("bind", [name |-> name, masu |-> m])>>)
    <3>1. todo' = <<Op("bind", [name |-> name, masu |-> m])>> /\ last' = [what |-> "home"] /\ result' = "ok"
      BY <2>2 DEF Begin
    <3>2. mnt'[name] # None
      BY <2>2, <1>1 DEF mounts
    <3>3. Queue'
      BY <3>1, <3>2 DEF Queue
    <3>. QED  BY <3>1, <3>3 DEF Asked
  <2>. QED  BY <1>6, <2>1, <2>2 DEF ToHome
<1>7. ASSUME NEW m \in Masus, NEW s \in SubuNames, NEW suid \in BOOLEAN, MapOwn(m, s, suid)
      PROVE  Queue' /\ Asked'
  <2>1. /\ todo' = MapOwnProgram(m, s, suid) /\ result' = "ok"
        /\ last' = [what |-> "own", masu |-> m, suid |-> [t \in {s} |-> suid]]
    BY <1>7 DEF MapOwn, Begin
  <2>2. PICK q : q = todo'
    OBVIOUS
  <2>3. q \in Replacing(m, s, suid) /\ Len(q) = 3 /\ q[1] = Op("source", [masu |-> m])
    BY <2>1, <2>2, MapOwnProgramIs
  <2>4. q \in Seq(ViewOps) /\ \A n \in DOMAIN q : q[n].arg.masu = m
    BY <2>3 DEF Replacing, ViewsOf
  <2>5. ASSUME NEW n \in DOMAIN q, q[n].op # "source"
        PROVE  \E k \in DOMAIN q : k < n /\ q[k] = Op("source", [masu |-> q[n].arg.masu])
    <3>1. n # 1
      BY <2>3, <2>5 DEF Op
    <3>2. 1 \in DOMAIN q /\ 1 < n /\ q[n].arg.masu = m
      BY <2>3, <2>4, <3>1
    <3>. QED  BY <2>3, <3>2
  <2>6. Sourced(todo)'
    BY <2>2, <2>5 DEF Sourced
  <2>7. Queue'
    BY <2>2, <2>4, <2>6 DEF Queue
  <2>. QED  BY <2>1, <2>7 DEF Asked
<1>8. ASSUME NEW m \in Masus, NEW suids \in SUBSET SubuNames, MapOwnAll(m, suids)
      PROVE  Queue' /\ Asked'
  <2>1. CASE Refuse
    BY <1>5, <2>1
  <2>2. CASE home[m] # << >> /\ ~Refuse
    <3>1. /\ todo' = FlattenSeq([n \in DOMAIN Subus |-> MapOwnProgram(m, Subus[n], Subus[n] \in suids)])
          /\ last' = [what |-> "own", masu |-> m, suid |-> [t \in SubuNames |-> t \in suids]]
          /\ result' = "ok"
      BY <1>8, <2>2 DEF MapOwnAll, Begin, ForEachSubu
    <3>2. PICK q : q = todo'
      OBVIOUS
    <3>3. q \in ViewsOf(m)
      BY <3>1, <3>2, MapOwnAllProgramIs
    <3>4. q \in Seq(ViewOps) /\ \A n \in DOMAIN q : q[n].arg.masu = m
      BY <3>3 DEF ViewsOf
    <3>5. home'[m] # << >>
      BY <2>2, <1>1 DEF mounts
    <3>6. Sourced(todo)'
      BY <3>2, <3>4, <3>5 DEF Sourced
    <3>7. Queue'
      BY <3>2, <3>4, <3>6 DEF Queue
    <3>. QED  BY <3>1, <3>7 DEF Asked
  <2>. QED  BY <1>8, <2>1, <2>2 DEF MapOwnAll
<1>9. ASSUME NEW m \in Masus, NEW name \in MapNames \cup {None}, NEW aggressive \in BOOLEAN,
             Logout(m, name, aggressive)
      PROVE  Queue' /\ Asked'
  <2>1. /\ todo' = LogoutProgram(m, name, aggressive)
        /\ last' = [what |-> "logout", masu |-> m, name |-> name,
                    idle |-> name # None /\ HeldByIdleHome(m, name)]
        /\ result' = "ok"
    BY <1>9 DEF Logout, Begin
  <2>2. PICK q : q = todo'
    OBVIOUS
  <2>3. q \in Seq(LogoutOps)
    BY <2>1, <2>2, LogoutProgramIs
  <2>4. Queue'
    BY <2>2, <2>3 DEF Queue
  <2>5. last'.what = "logout" /\ last'.masu = m /\ last'.name = name
    BY <2>1
  <2>6. Asked'
    BY <2>1, <2>5 DEF Asked
  <2>. QED  BY <2>4, <2>6
<1>10. Queue' /\ Asked'
  BY <1>3, <1>4, <1>6, <1>7, <1>8, <1>9 DEF Script
<1>. QED  BY <1>2, <1>10 DEF SessionInv, Kernel

LEMMA EventKeepsInv ==
  ASSUME SessionInv,
         \/ \E m \in Masus, s \in SubuNames : Login(m, s) \/ LoseView(m, s)
         \/ LuksOpenFails \/ Interrupt
  PROVE  SessionInv'
<1> USE DEF SessionInv
<1>1. ASSUME NEW m \in Masus, NEW s \in SubuNames, Login(m, s) PROVE SessionInv'
  <2>1. /\ UNCHANGED <<mapping, mnt, home, todo, result, last>> /\ home[m] # << >>
        /\ session' = [session EXCEPT ![m][s] = Len(home[m])]
    BY <1>1 DEF Login, Event
  <2>2. home[m] \in Seq(Binds) /\ Len(home[m]) \in Nat
    BY DEF Homes
  <2>3. /\ session' \in [Masus -> [SubuNames -> Nat]]
        /\ \A o \in Masus, t \in SubuNames :
             session'[o][t] \in {0, session[o][t]} \/ (o = m /\ session'[o][t] = Len(home[m]))
    BY <2>1, <2>2 DEF Sessions
  <2>4. \A o \in Masus : Len(home[o]) \in Nat
    BY DEF Homes
  <2>5. Sessions'
    BY <2>1, <2>2, <2>3, <2>4 DEF Sessions
  <2>6. Queue'
    BY <2>1 DEF Queue, Sourced
  <2>. QED  BY <2>1, <2>5, <2>6 DEF Devices, Homes, Asked
<1>2. ASSUME NEW m \in Masus, NEW s \in SubuNames, LoseView(m, s) PROVE SessionInv'
  <2>1. /\ UNCHANGED <<mapping, mnt, session, todo, result, last>> /\ ViewsAt(m, s) # << >>
        /\ home' = WithViews(m, s, Front(ViewsAt(m, s)))
    BY <1>2 DEF LoseView, Event
  <2>2. home[m] # << >>
    BY <2>1 DEF ViewsAt
  <2>3. Front(ViewsAt(m, s)) \in Seq(BOOLEAN)
    BY <2>1, ViewsType, FrontType
  <2>4. Kernel'
    BY <2>1, <2>2, <2>3, ExchangeViewsKernel DEF Kernel
  <2>5. \A o \in Masus : home[o] # << >> => home'[o] # << >>
    <3>1. PICK new : new = home'
      OBVIOUS
    <3>2. home \in [Masus -> Seq(Binds)]
      BY DEF Homes
    <3>3. new = [home EXCEPT ![m] = new[m]] /\ new[m] # << >>
      BY <2>1, <2>2, <2>3, <3>1, <3>2, ExchangeViews
    <3>. QED  BY <3>1, <3>2, <3>3
  <2>6. Queue'
    <3>1. CASE todo \in Seq(ViewOps) /\ Sourced(todo)
      <4>1. \A n \in DOMAIN todo : todo[n].op # "source" => todo[n].arg.masu \in Masus
        BY <3>1 DEF ViewOps
      <4>2. Sourced(todo)'
        BY <2>1, <2>5, <3>1, <4>1 DEF Sourced
      <4>. QED  BY <2>1, <3>1, <4>2 DEF Queue
    <3>2. CASE ~ (todo \in Seq(ViewOps) /\ Sourced(todo))
      BY <2>1, <3>2 DEF Queue
    <3>. QED  BY <3>1, <3>2
  <2>. QED  BY <2>1, <2>4, <2>6 DEF Kernel, Asked
<1>3. ASSUME LuksOpenFails PROVE SessionInv'
  <2>1. /\ UNCHANGED <<mapping, mnt, home, session, result, last>>
        /\ todo # << >> /\ Head(todo).op = "luksOpen" /\ todo' = Tail(todo)
    BY <1>3 DEF LuksOpenFails, Event, Runs, mounts
  <2>2. Queue'
    BY <2>1, QueueTail
  <2>. QED  BY <2>1, <2>2 DEF Devices, Homes, Sessions, Asked
<1>4. ASSUME Interrupt PROVE SessionInv'
  <2>1. UNCHANGED <<mapping, mnt, home, session, last>> /\ todo' = << >> /\ result' = "error"
    BY <1>4 DEF Interrupt, Event, mounts
  <2>. QED  BY <2>1, QueueEmpty DEF Devices, Homes, Sessions, Asked
<1>. QED  BY <1>1, <1>2, <1>3, <1>4

LEMMA SessionInvInit == ASSUME Init PROVE SessionInv
<1>1. Queue
  BY DEF Init, Queue
<1>2. Homes
  <2>1. home \in [Masus -> Seq(Binds)] /\ \A m \in Masus : home[m] = << >>
    BY DEF Init
  <2>. QED  BY <2>1 DEF Homes
<1>3. Devices
  BY DEF Init, Devices
<1>4. Sessions
  <2>1. session \in [Masus -> [SubuNames -> Nat]] /\ \A m \in Masus, s \in SubuNames : session[m][s] = 0
    BY DEF Init, NoSession
  <2>2. \A m \in Masus : Len(home[m]) \in Nat
    BY <1>2 DEF Homes
  <2>. QED  BY <2>1, <2>2 DEF Sessions
<1>5. Asked
  BY DEF Init, Asked
<1>. QED  BY <1>1, <1>2, <1>3, <1>4, <1>5 DEF SessionInv

LEMMA EndingKeepsInv ==
  ASSUME SessionInv, NEW m \in Masus, NEW s \in SubuNames, SessionEnds(m, s)
  PROVE  SessionInv'
<1>1. /\ UNCHANGED <<mapping, mnt, home, todo, result, last>>
      /\ session' = [session EXCEPT ![m][s] = 0]
  BY DEF SessionEnds
<1>2. Sessions'
  BY <1>1, SessionsFewer DEF SessionInv
<1>3. Queue'
  BY <1>1 DEF SessionInv, Queue, Sourced
<1>. QED  BY <1>1, <1>2, <1>3 DEF SessionInv, Devices, Homes, Asked

LEMMA SessionInvNext == SessionInv /\ [Next]_vars => SessionInv'
<1> SUFFICES ASSUME SessionInv, [Next]_vars PROVE SessionInv'
  OBVIOUS
<1>1. CASE UNCHANGED vars
  BY <1>1 DEF vars, mounts, SessionInv, Queue, Sourced, Devices, Homes, Sessions, Asked
<1>2. CASE Next
  BY <1>2, StepKeepsInv, ScriptKeepsInv, EventKeepsInv, EndingKeepsInv DEF Next
<1>. QED  BY <1>1, <1>2

\* The invariant holds whatever the scripts, their interruptions, the users
\* and systemd do.
THEOREM SessionInvAlways == Spec => []SessionInv
BY SessionInvInit, SessionInvNext, PTL DEF Spec

\* Every variable has its type; a partition that is mounted or bound is open
\* under one name; and a session lives on a bind that is there: no umount,
\* close or lazy umount of the scripts takes it away.
THEOREM SessionTypes == Spec => []TypeOK
<1>1. SessionInv => TypeOK
  <2> SUFFICES ASSUME SessionInv PROVE TypeOK
    OBVIOUS
  <2>1. ASSUME NEW node \in Nodes, InUse(node)
        PROVE  Cardinality({name \in MapNames : mapping[name] = node}) = 1
    <3>1. \E name \in MapNames : mapping[name] = node
      BY <2>1, SessionAssumption DEF InUse, SessionInv, Devices, Homes
    <3>2. PICK name \in MapNames : mapping[name] = node
      BY <3>1
    <3>3. {other \in MapNames : mapping[other] = node} = {name}
      BY <3>2, SessionAssumption DEF SessionInv, Devices
    <3>. QED  BY <3>3, FS_Singleton
  <2>2. \A m \in Masus, s \in SubuNames : session[m][s] \in 0 .. Len(home[m])
    <3>1. \A m \in Masus : Len(home[m]) \in Nat
      BY DEF SessionInv, Homes
    <3>. QED  BY <3>1 DEF SessionInv, Sessions
  <2>. QED  BY <2>1, <2>2 DEF TypeOK, SessionInv, Devices, Homes, Binds, Asked
<1>. QED  BY <1>1, SessionInvAlways, PTL

-----------------------------------------------------------------------------
(* Which step, and which script, it was. *)

LEMMA StepIs ==
  ASSUME Step
  PROVE  /\ todo # << >> /\ alone' = alone /\ last' = last
         /\ Head(todo).op = "luksOpen" => LuksOpen
         /\ Head(todo).op = "mount" => MountDevice
         /\ Head(todo).op = "source" => FindSource
         /\ Head(todo).op = "unstack" => Unstack
         /\ Head(todo).op = "bindfs" => MountView
         /\ Head(todo).op \in {"terminate", "kill"} => Terminate \/ Kill
         /\ Head(todo).op = "umount home" => UmountHome
         /\ Head(todo).op = "umount mnt" => UmountDevice
         /\ Head(todo).op = "close" => CloseDevice
BY DEF Step, LuksOpen, MountDevice, BindHome, FindSource, Unstack, MountView, Terminate, Kill, Signal,
       UmountHome, UmountDevice, CloseDevice, Runs, Proceed, Go, Quit

LEMMA ScriptIs ==
  ASSUME Script
  PROVE  /\ last'.what = "open" => \E node \in Nodes, name \in MapNames : OpenMount(node, name)
         /\ last'.what = "own" =>
              \/ \E m \in Masus, s \in SubuNames, suid \in BOOLEAN : MapOwn(m, s, suid)
              \/ \E m \in Masus, suids \in SUBSET SubuNames : home[m] # << >> /\ MapOwnAll(m, suids)
         /\ last'.what = "logout" =>
              \E m \in Masus, name \in MapNames \cup {None}, aggressive \in BOOLEAN :
                Logout(m, name, aggressive)
<1>1. ASSUME Refuse PROVE last'.what = "refused"
  BY <1>1 DEF Refuse
<1>2. ASSUME NEW node \in Nodes, NEW name \in MapNames, OpenMount(node, name)
      PROVE  last'.what = "open"
  <2>1. last' = [what |-> "open", node |-> node, name |-> name,
                 free |-> Free(node, name), listed |-> ListedAsMounted(name)]
    BY <1>2 DEF OpenMount, Begin
  <2>. QED  BY <2>1
<1>3. ASSUME NEW name, DeviceUmount(name) PROVE last'.what = "umount"
  <2>1. last' = [what |-> "umount"]
    BY <1>3 DEF DeviceUmount, Begin
  <2>. QED  BY <2>1
<1>4. ASSUME NEW name, NEW m, ToHome(name, m) PROVE last'.what \in {"home", "refused"}
  <2>1. last' = [what |-> "home"] \/ Refuse
    BY <1>4 DEF ToHome, Begin
  <2>. QED  BY <1>1, <2>1
<1>5. ASSUME NEW m, NEW s, NEW suid, MapOwn(m, s, suid) PROVE last'.what = "own"
  <2>1. last' = [what |-> "own", masu |-> m, suid |-> [t \in {s} |-> suid]]
    BY <1>5 DEF MapOwn, Begin
  <2>. QED  BY <2>1
<1>6. ASSUME NEW m, NEW suids, MapOwnAll(m, suids)
      PROVE  last'.what = "refused" \/ (last'.what = "own" /\ home[m] # << >>)
  <2>1. CASE home[m] = << >>
    BY <1>1, <1>6, <2>1 DEF MapOwnAll
  <2>2. CASE home[m] # << >>
    <3>1. last' = [what |-> "own", masu |-> m, suid |-> [t \in SubuNames |-> t \in suids]]
      BY <1>6, <2>2 DEF MapOwnAll, Begin
    <3>. QED  BY <2>2, <3>1
  <2>. QED  BY <2>1, <2>2
<1>7. ASSUME NEW m, NEW name, NEW aggressive, Logout(m, name, aggressive) PROVE last'.what = "logout"
  <2>1. last' = [what |-> "logout", masu |-> m, name |-> name,
                 idle |-> name # None /\ HeldByIdleHome(m, name)]
    BY <1>7 DEF Logout, Begin
  <2>. QED  BY <2>1
<1>8. CASE \E node \in Nodes, name \in MapNames : OpenMount(node, name)
  BY <1>2, <1>8
<1>9. CASE \E name \in MapNames : DeviceUmount(name) \/ \E m \in Masus : ToHome(name, m)
  BY <1>3, <1>4, <1>9
<1>10. CASE \E m \in Masus, s \in SubuNames, suid \in BOOLEAN : MapOwn(m, s, suid)
  BY <1>5, <1>10
<1>11. CASE \E m \in Masus, suids \in SUBSET SubuNames : MapOwnAll(m, suids)
  BY <1>6, <1>11
<1>12. CASE \E m \in Masus, name \in MapNames \cup {None}, aggressive \in BOOLEAN :
              Logout(m, name, aggressive)
  BY <1>7, <1>12
<1>. QED  BY <1>8, <1>9, <1>10, <1>11, <1>12 DEF Script

\* What comes in between is not alone.
LEMMA EventIs ==
  ASSUME \/ \E m \in Masus, s \in SubuNames : Login(m, s) \/ LoseView(m, s)
         \/ LuksOpenFails \/ Interrupt
  PROVE  alone' = FALSE
BY DEF Login, LoseView, LuksOpenFails, Interrupt, Event

\* A session's end touches nothing but the session.
LEMMA EndingIs ==
  ASSUME NEW m \in Masus, NEW s \in SubuNames, SessionEnds(m, s)
  PROVE  /\ UNCHANGED <<mapping, mnt, home, todo, result, last, alone>>
         /\ session' = [session EXCEPT ![m][s] = 0]
BY DEF SessionEnds

-----------------------------------------------------------------------------
(* open_mount. *)

LEMMA OpenInvNext == ASSUME SessionInv, OpenInv, [Next]_vars PROVE OpenInv'
<1> SUFFICES ASSUME alone', last'.what = "open", last'.free PROVE OpenInv'
  BY DEF OpenInv
<1>1. CASE UNCHANGED vars
  BY <1>1 DEF vars, mounts, OpenInv
<1>2. CASE Step
  <2>1. alone /\ last' = last /\ last.what = "open" /\ last.free
    BY <1>2, StepIs
  <2>2. PICK node \in Nodes, name \in MapNames : node = last.node /\ name = last.name
    BY <2>1 DEF SessionInv, Asked
  <2>3. todo # << >> /\ Devices
    BY <1>2, StepIs DEF SessionInv
  <2> DEFINE a == Op("luksOpen", [node |-> node, name |-> name])
             b == Op("mount", name)
  <2>4. a.op = "luksOpen" /\ a.arg.node = node /\ a.arg.name = name /\ b.op = "mount" /\ b.arg = name
    BY DEF Op
  <2> HIDE DEF a, b
  <2>5. CASE todo = <<b>> /\ mapping[name] = node
    <3>1. Head(todo) = b /\ Tail(todo) = << >>
      BY <2>5
    <3>2. MountDevice
      BY <1>2, <2>4, <3>1, StepIs
    <3>3. todo' = << >>
      BY <3>1, <3>2 DEF MountDevice, Proceed, Go
    <3>4. mnt' = [mnt EXCEPT ![name] = IF mapping[name] # None THEN mapping[name] ELSE @]
      BY <2>4, <3>1, <3>2 DEF MountDevice, Argument
    <3>5. mnt'[name] = node
      BY <2>3, <2>5, <3>4, SessionAssumption DEF Devices
    <3>. QED  BY <2>1, <2>2, <3>3, <3>5 DEF OpenInv
  <2>6. CASE /\ todo = <<a, b>> /\ mapping[name] \in {None, node}
             /\ \A other \in MapNames \ {name} : mapping[other] # node
    <3>1. Head(todo) = a /\ Tail(todo) = <<b>>
      BY <2>6
    <3>2. LuksOpen
      BY <1>2, <2>4, <3>1, StepIs
    <3>3. todo' = <<b>>
      BY <3>1, <3>2 DEF LuksOpen, Proceed, Go
    <3>4. mapping' = IF mapping[name] = None /\ \A other \in MapNames : mapping[other] # node
                     THEN [mapping EXCEPT ![name] = node] ELSE mapping
      BY <2>4, <3>1, <3>2 DEF LuksOpen, Argument
    <3>5. mapping'[name] = node
      BY <2>3, <2>6, <3>4, SessionAssumption DEF Devices
    <3>. QED  BY <2>1, <2>2, <3>3, <3>5 DEF OpenInv, b
  <2>. QED  BY <2>1, <2>2, <2>3, <2>5, <2>6 DEF OpenInv, a, b
<1>3. ASSUME NEW node \in Nodes, NEW name \in MapNames, OpenMount(node, name)
      PROVE  OpenInv'
  <2>1. /\ last' = [what |-> "open", node |-> node, name |-> name,
                    free |-> Free(node, name), listed |-> ListedAsMounted(name)]
        /\ UNCHANGED mounts
    BY <1>3 DEF OpenMount, Begin
  <2>2. last'.node = node /\ last'.name = name /\ Free(node, name)
    BY <2>1
  <2>3. CASE ListedAsMounted(name)
    <3>1. todo' = << >>
      BY <1>3, <2>3 DEF OpenMount, Begin
    <3>2. mnt[name] # None
      BY <2>2, <2>3 DEF ListedAsMounted, Free
    <3>3. mnt'[name] = node
      BY <2>1, <2>2, <3>2 DEF Free, SessionInv, Devices, mounts
    <3>. QED  BY <2>2, <3>1, <3>3 DEF OpenInv
  <2>4. CASE ~ListedAsMounted(name)
    <3>1. todo' = <<Op("luksOpen", [node |-> node, name |-> name]), Op("mount", name)>>
      BY <1>3, <2>4 DEF OpenMount, Begin
    <3>2. mapping' = mapping
      BY <2>1 DEF mounts
    <3>. QED  BY <2>2, <3>1, <3>2 DEF OpenInv, Free
  <2>. QED  BY <2>3, <2>4
<1>4. CASE Script
  BY <1>3, <1>4, ScriptIs
<1>5. CASE \/ \E m \in Masus, s \in SubuNames : Login(m, s) \/ LoseView(m, s)
           \/ LuksOpenFails \/ Interrupt
  BY <1>5, EventIs
<1>6. CASE \E m \in Masus, s \in SubuNames : SessionEnds(m, s)
  BY <1>6, EndingIs DEF OpenInv
<1>. QED  BY <1>1, <1>2, <1>4, <1>5, <1>6 DEF Next

\* open_mount, when nothing comes in between, mounts the partition that it is
\* asked for at the name's place, whatever earlier scripts left open or
\* mounted: unless the name maps another partition, the partition is open
\* under another name, or a device of a longer name is mounted.
THEOREM OpenMountsIt == Spec => []OpenMountsTheDevice
<1>1. Init => OpenInv
  BY DEF Init, OpenInv
<1>2. SessionInv /\ OpenInv /\ [Next]_vars => OpenInv'
  BY OpenInvNext
<1>3. OpenInv => OpenMountsTheDevice
  BY DEF OpenInv, OpenMountsTheDevice
<1>. QED  BY <1>1, <1>2, <1>3, SessionInvAlways, PTL DEF Spec

-----------------------------------------------------------------------------
(* map_own. *)

\* A command that has nothing to do with a subuser brings his own nearer.
LEMMA PendingShifts ==
  ASSUME NEW q \in Seq(ViewOps), q # << >>, NEW m, NEW s, NEW suid, ~Concerns(Head(q), s),
         ViewPending(q, m, s, suid)
  PROVE  ViewPending(Tail(q), m, s, suid)
<1>1. /\ Head(q) = q[1] /\ DOMAIN q = 1 .. Len(q) /\ Len(q) \in Nat
      /\ DOMAIN Tail(q) = 1 .. Len(q) - 1
      /\ \A n \in 1 .. Len(q) - 1 : Tail(q)[n] = q[n + 1]
  OBVIOUS
<1>2. PICK n \in DOMAIN q :
        /\ n + 1 \in DOMAIN q
        /\ q[n] = Op("unstack", [masu |-> m, subu |-> s])
        /\ q[n + 1] = Op("bindfs", [masu |-> m, subu |-> s, suid |-> suid])
        /\ \A k \in DOMAIN q : Concerns(q[k], s) => k \in {n, n + 1}
  BY DEF ViewPending
<1>3. Concerns(q[n], s)
  BY <1>2 DEF Concerns, Op
<1>4. n # 1
  BY <1>1, <1>3
<1>5. /\ n - 1 \in DOMAIN Tail(q) /\ (n - 1) + 1 \in DOMAIN Tail(q)
      /\ Tail(q)[n - 1] = q[n] /\ Tail(q)[(n - 1) + 1] = q[n + 1]
  BY <1>1, <1>2, <1>4
<1>6. ASSUME NEW k \in DOMAIN Tail(q), Concerns(Tail(q)[k], s) PROVE k \in {n - 1, (n - 1) + 1}
  <2>1. k + 1 \in DOMAIN q /\ Tail(q)[k] = q[k + 1]
    BY <1>1
  <2>2. k + 1 \in {n, n + 1}
    BY <1>2, <1>6, <2>1
  <2>. QED  BY <1>1, <1>2, <2>2
<1>. QED  BY <1>2, <1>5, <1>6 DEF ViewPending

LEMMA NothingShifts ==
  ASSUME NEW q \in Seq(ViewOps), q # << >>, NEW s,
         \A k \in DOMAIN q : Concerns(q[k], s) => k = 1
  PROVE  \A k \in DOMAIN Tail(q) : ~Concerns(Tail(q)[k], s)
<1>1. \A k \in DOMAIN Tail(q) : k + 1 \in DOMAIN q /\ Tail(q)[k] = q[k + 1] /\ k + 1 # 1
  OBVIOUS
<1>. QED  BY <1>1

LEMMA SecondIsNext ==
  ASSUME NEW S, NEW q \in Seq(S), 1 + 1 \in DOMAIN q
  PROVE  Tail(q) # << >> /\ Head(Tail(q)) = q[1 + 1]
<1>1. Len(q) \in Nat /\ Len(q) >= 2
  OBVIOUS
<1>2. Tail(q) \in Seq(S) /\ Len(Tail(q)) = Len(q) - 1 /\ Tail(q)[1] = q[1 + 1]
  BY <1>1
<1>3. Tail(q) # << >> /\ Head(Tail(q)) = Tail(q)[1]
  BY <1>1, <1>2
<1>. QED  BY <1>2, <1>3

LEMMA ViewsAfter ==
  ASSUME Homes, NEW m \in Masus, NEW s \in SubuNames, home[m] # << >>,
         NEW stack \in Seq(BOOLEAN), home' = WithViews(m, s, stack)
  PROVE  /\ ViewsAt(m, s)' = stack
         /\ \A t \in SubuNames : t # s => ViewsAt(m, t)' = ViewsAt(m, t)
<1>1. PICK new : new = home'
  OBVIOUS
<1>2. home \in [Masus -> Seq(Binds)] /\ new = WithViews(m, s, stack)
  BY <1>1 DEF Homes
<1>3. /\ new[m] # << >> /\ new[m][Len(new[m])].views[s] = stack
      /\ \A t \in SubuNames : t # s =>
           new[m][Len(new[m])].views[t] = home[m][Len(home[m])].views[t]
  BY <1>2, ExchangeViews
<1>. QED  BY <1>1, <1>3 DEF ViewsAt, Last

\* A command for somebody else.
LEMMA OthersViewWaits ==
  ASSUME NEW m, NEW s, NEW suid, todo \in Seq(ViewOps), todo # << >>, ~Concerns(Head(todo), s),
         ViewOnItsWay(todo, m, s, suid), todo' = Tail(todo) \/ todo' = todo,
         ViewsAt(m, s)' = ViewsAt(m, s)
  PROVE  ViewOnItsWay(todo, m, s, suid)'
<1>1. CASE ViewPending(todo, m, s, suid)
  <2>1. ViewPending(Tail(todo), m, s, suid)
    BY <1>1, PendingShifts
  <2>2. ViewPending(todo, m, s, suid)'
    <3>1. PICK q : q = todo' /\ ViewPending(q, m, s, suid)
      BY <1>1, <2>1
    <3>. QED  BY <3>1 DEF ViewPending
  <2>. QED  BY <2>2 DEF ViewOnItsWay
<1>2. CASE ViewNext(todo, m, s, suid)
  <2>1. Concerns(Head(todo), s)
    BY <1>2 DEF ViewNext, Concerns, Op
  <2>. QED  BY <2>1
<1>3. CASE ViewDone(todo, m, s, suid)
  <2>1. \A k \in DOMAIN Tail(todo) : ~Concerns(Tail(todo)[k], s)
    BY <1>3, NothingShifts DEF ViewDone
  <2>. QED  BY <1>3, <2>1 DEF ViewOnItsWay, ViewDone
<1>. QED  BY <1>1, <1>2, <1>3 DEF ViewOnItsWay

\* The subuser's own commands: the old views go one by one, then the new one
\* comes.
LEMMA OwnViewComes ==
  ASSUME SessionInv, Step, NEW m \in Masus, NEW s \in SubuNames, NEW suid,
         todo \in Seq(ViewOps), todo # << >>, Concerns(Head(todo), s),
         Head(todo).arg.masu = m, ViewOnItsWay(todo, m, s, suid)
  PROVE  ViewOnItsWay(todo, m, s, suid)'
<1>1. Head(todo) \in ViewOps /\ Head(todo) = todo[1] /\ 1 \in DOMAIN todo
  OBVIOUS
<1>2. Head(todo).op \in {"unstack", "bindfs"} /\ Head(todo).arg.subu = s
  BY <1>1 DEF ViewOps, Concerns
<1>3. home[m] # << >> /\ Homes
  BY <1>2, <1>1, Arguments DEF SessionInv
<1>4. CASE ViewPending(todo, m, s, suid)
  <2>1. PICK n \in DOMAIN todo :
          /\ n + 1 \in DOMAIN todo
          /\ todo[n] = Op("unstack", [masu |-> m, subu |-> s])
          /\ todo[n + 1] = Op("bindfs", [masu |-> m, subu |-> s, suid |-> suid])
          /\ \A k \in DOMAIN todo : Concerns(todo[k], s) => k \in {n, n + 1}
    BY <1>4 DEF ViewPending
  <2>2. n = 1
    BY <1>1, <2>1
  <2>3. Unstack
    <3>1. Head(todo).op = "unstack"
      BY <1>1, <2>1, <2>2 DEF Op
    <3>. QED  BY <3>1, StepIs
  <2>4. CASE ViewsAt(m, s) = << >>
    <3>1. todo' = Tail(todo) /\ home' = home
      BY <1>2, <2>3, <2>4 DEF Unstack, Argument, Proceed, Go
    <3>2. \A k \in DOMAIN Tail(todo) : k + 1 \in DOMAIN todo /\ Tail(todo)[k] = todo[k + 1] /\ k \in Nat
      OBVIOUS
    <3>3. Tail(todo) # << >> /\ Head(Tail(todo)) = todo[n + 1]
      BY <2>1, <2>2, SecondIsNext
    <3>4. \A k \in DOMAIN Tail(todo) : Concerns(Tail(todo)[k], s) => k = 1
      BY <2>1, <2>2, <3>2
    <3>5. ViewsAt(m, s)' = << >>
      BY <2>4, <3>1 DEF ViewsAt
    <3>6. ViewNext(todo, m, s, suid)'
      BY <2>1, <2>2, <3>1, <3>3, <3>4, <3>5 DEF ViewNext
    <3>. QED  BY <3>6 DEF ViewOnItsWay
  <2>5. CASE ViewsAt(m, s) # << >>
    <3>1. todo' = todo
      BY <1>2, <2>3, <2>5 DEF Unstack, Argument, Go
    <3>. QED  BY <1>4, <3>1 DEF ViewOnItsWay, ViewPending
  <2>. QED  BY <2>4, <2>5
<1>5. CASE ViewNext(todo, m, s, suid)
  <2>1. Head(todo).op = "bindfs" /\ Head(todo).arg.suid = suid /\ ViewsAt(m, s) = << >>
    BY <1>5 DEF ViewNext, Op
  <2>2. MountView
    BY <2>1, StepIs
  <2>3. todo' = Tail(todo) /\ home' = WithViews(m, s, Append(ViewsAt(m, s), suid))
    BY <1>2, <2>1, <2>2 DEF MountView, Argument, Proceed, Go
  <2>4. Append(ViewsAt(m, s), suid) = <<suid>> /\ <<suid>> \in Seq(BOOLEAN)
    <3>1. suid \in BOOLEAN
      BY <1>1, <2>1 DEF ViewOps
    <3>. QED  BY <2>1, <3>1
  <2>5. ViewsAt(m, s)' = <<suid>>
    <3>1. PICK stack \in Seq(BOOLEAN) : stack = <<suid>> /\ home' = WithViews(m, s, stack)
      BY <2>3, <2>4
    <3>. QED  BY <1>3, <3>1, ViewsAfter
  <2>6. \A k \in DOMAIN Tail(todo) : ~Concerns(Tail(todo)[k], s)
    BY <1>5, NothingShifts DEF ViewNext
  <2>7. ViewDone(todo, m, s, suid)'
    BY <2>3, <2>5, <2>6 DEF ViewDone
  <2>. QED  BY <2>7 DEF ViewOnItsWay
<1>6. ~ViewDone(todo, m, s, suid)
  BY <1>1 DEF ViewDone
<1>. QED  BY <1>4, <1>5, <1>6 DEF ViewOnItsWay

\* A step on one subuser's views leaves the others' alone.
LEMMA OthersViewStays ==
  ASSUME SessionInv, Step, NEW m \in Masus, NEW s \in SubuNames,
         todo \in Seq(ViewOps), todo # << >>, ~Concerns(Head(todo), s), Head(todo).arg.masu = m
  PROVE  ViewsAt(m, s)' = ViewsAt(m, s)
<1>1. Head(todo) \in ViewOps
  OBVIOUS
<1>2. Queue /\ Homes
  BY DEF SessionInv
<1>3. CASE home' = home
  BY <1>3 DEF ViewsAt
<1>4. CASE Head(todo).op = "source"
  BY <1>3, <1>4, StepIs DEF FindSource, mounts
<1>5. CASE Head(todo).op \in {"unstack", "bindfs"} /\ home' # home
  <2>1. PICK t \in SubuNames : t = Head(todo).arg.subu /\ t # s
    BY <1>2, <1>5, Arguments DEF Concerns
  <2>2. home[m] # << >>
    BY <1>2, <1>5, Arguments
  <2>3. ViewsAt(m, t) \in Seq(BOOLEAN)
    BY <1>2, ViewsType
  <2>4. \E stack \in Seq(BOOLEAN) : home' = WithViews(m, t, stack)
    <3>1. CASE Head(todo).op = "unstack"
      <4>1. Unstack
        BY <3>1, StepIs
      <4>2. ViewsAt(m, t) # << >> /\ home' = WithViews(m, t, Front(ViewsAt(m, t)))
        BY <1>5, <2>1, <4>1 DEF Unstack, Argument
      <4>3. Front(ViewsAt(m, t)) \in Seq(BOOLEAN)
        BY <2>3, <4>2, FrontType
      <4>. QED  BY <4>2, <4>3
    <3>2. CASE Head(todo).op = "bindfs"
      <4>1. MountView /\ Head(todo).arg.suid \in BOOLEAN
        BY <1>2, <3>2, StepIs, Arguments
      <4>2. home' = WithViews(m, t, Append(ViewsAt(m, t), Head(todo).arg.suid))
        BY <2>1, <4>1 DEF MountView, Argument
      <4>3. Append(ViewsAt(m, t), Head(todo).arg.suid) \in Seq(BOOLEAN)
        BY <2>3, <4>1, AppendType
      <4>. QED  BY <4>2, <4>3
    <3>. QED  BY <1>5, <3>1, <3>2
  <2>5. PICK stack \in Seq(BOOLEAN) : home' = WithViews(m, t, stack)
    BY <2>4
  <2>. QED  BY <1>2, <2>1, <2>2, <2>5, ViewsAfter
<1>. QED  BY <1>1, <1>3, <1>4, <1>5 DEF ViewOps

LEMMA OwnInvStep == ASSUME SessionInv, OwnInv, Step PROVE OwnInv'
<1> SUFFICES ASSUME alone', result' = "ok", last'.what = "own" PROVE OwnInv'
  BY DEF OwnInv
<1>1. alone /\ last' = last /\ last.what = "own" /\ last.masu \in Masus /\ DOMAIN last.suid \subseteq SubuNames
  BY StepIs DEF SessionInv, Asked
<1>2. result = "ok" /\ (todo' = Tail(todo) \/ todo' = todo) /\ todo # << >>
  BY DEF Step, LuksOpen, MountDevice, BindHome, FindSource, Unstack, MountView, Terminate, Kill, Signal,
         UmountHome, UmountDevice, CloseDevice, Runs, Proceed, Go, Quit
<1>3. /\ todo \in Seq(ViewOps)
      /\ \A n \in DOMAIN todo : todo[n].arg.masu = last.masu
      /\ \A s \in DOMAIN last.suid : ViewOnItsWay(todo, last.masu, s, last.suid[s])
  BY <1>1, <1>2 DEF OwnInv
<1>4. /\ Head(todo) = todo[1] /\ 1 \in DOMAIN todo /\ Tail(todo) \in Seq(ViewOps)
      /\ \A n \in DOMAIN Tail(todo) : n + 1 \in DOMAIN todo /\ Tail(todo)[n] = todo[n + 1]
  BY <1>2, <1>3
<1>5. PICK m \in Masus : m = last.masu
  BY <1>1
<1>6. ASSUME NEW s \in DOMAIN last.suid PROVE ViewOnItsWay(todo, m, s, last.suid[s])'
  <2>1. PICK suid : suid = last.suid[s]
    OBVIOUS
  <2>2. s \in SubuNames /\ ViewOnItsWay(todo, m, s, suid) /\ Head(todo).arg.masu = m
    BY <1>1, <1>3, <1>4, <1>5, <2>1
  <2>3. CASE Concerns(Head(todo), s)
    BY <1>1, <1>2, <1>3, <2>1, <2>2, <2>3, OwnViewComes
  <2>4. CASE ~Concerns(Head(todo), s)
    <3>1. ViewsAt(m, s)' = ViewsAt(m, s)
      BY <1>2, <1>3, <2>2, <2>4, OthersViewStays
    <3>2. ViewOnItsWay(todo, m, s, suid)'
      BY <1>2, <1>3, <2>2, <2>4, <3>1, OthersViewWaits
    <3>. QED  BY <1>1, <2>1, <3>2
  <2>. QED  BY <2>3, <2>4
<1>7. todo' \in Seq(ViewOps) /\ \A n \in DOMAIN todo' : todo'[n].arg.masu = last'.masu
  BY <1>1, <1>2, <1>3, <1>4
<1>8. \A s \in DOMAIN last'.suid : ViewOnItsWay(todo, last.masu, s, last.suid[s])'
  BY <1>1, <1>5, <1>6
<1>. QED  BY <1>7, <1>8 DEF OwnInv

LEMMA OwnInvScript == ASSUME SessionInv, Script PROVE OwnInv'
<1> SUFFICES ASSUME last'.what = "own" PROVE OwnInv'
  BY DEF OwnInv
<1>1. ASSUME NEW m \in Masus, NEW s \in SubuNames, NEW suid \in BOOLEAN, MapOwn(m, s, suid)
      PROVE  OwnInv'
  <2>1. /\ todo' = MapOwnProgram(m, s, suid)
        /\ last' = [what |-> "own", masu |-> m, suid |-> [t \in {s} |-> suid]]
    BY <1>1 DEF MapOwn, Begin
  <2>2. PICK q : q = todo'
    OBVIOUS
  <2>3. q \in Replacing(m, s, suid)
    BY <2>1, <2>2, MapOwnProgramIs
  <2>4. q \in Seq(ViewOps) /\ (\A n \in DOMAIN q : q[n].arg.masu = m) /\ ViewPending(q, m, s, suid)
    BY <2>3 DEF Replacing, ViewsOf
  <2>5. last'.masu = m /\ DOMAIN last'.suid = {s} /\ last'.suid[s] = suid
    BY <2>1
  <2>. QED  BY <2>2, <2>4, <2>5 DEF OwnInv, ViewOnItsWay, ViewPending
<1>2. ASSUME NEW m \in Masus, NEW suids \in SUBSET SubuNames, home[m] # << >>, MapOwnAll(m, suids)
      PROVE  OwnInv'
  <2>1. /\ todo' = FlattenSeq([n \in DOMAIN Subus |-> MapOwnProgram(m, Subus[n], Subus[n] \in suids)])
        /\ last' = [what |-> "own", masu |-> m, suid |-> [t \in SubuNames |-> t \in suids]]
    BY <1>2 DEF MapOwnAll, Begin, ForEachSubu
  <2>2. PICK q : q = todo'
    OBVIOUS
  <2>3. q \in ViewsOf(m) /\ \A s \in SubuNames : q \in Replacing(m, s, s \in suids)
    BY <2>1, <2>2, MapOwnAllProgramIs
  <2>4. /\ q \in Seq(ViewOps) /\ (\A n \in DOMAIN q : q[n].arg.masu = m)
        /\ \A s \in SubuNames : ViewPending(q, m, s, s \in suids)
    BY <2>3 DEF Replacing, ViewsOf
  <2>5. last'.masu = m /\ DOMAIN last'.suid = SubuNames /\ \A s \in SubuNames : last'.suid[s] = (s \in suids)
    BY <2>1
  <2>6. \A s \in DOMAIN last'.suid : ViewPending(q, m, s, last'.suid[s])
    BY <2>4, <2>5
  <2>7. \A s \in DOMAIN last'.suid : ViewOnItsWay(todo, last.masu, s, last.suid[s])'
    BY <2>2, <2>5, <2>6 DEF ViewOnItsWay
  <2>. QED  BY <2>2, <2>4, <2>5, <2>7 DEF OwnInv
<1>. QED  BY <1>1, <1>2, ScriptIs

LEMMA OwnInvNext == ASSUME SessionInv, OwnInv, [Next]_vars PROVE OwnInv'
<1>1. CASE UNCHANGED vars
  BY <1>1 DEF vars, mounts, OwnInv, ViewOnItsWay, ViewPending, ViewNext, ViewDone, ViewsAt
<1>2. CASE \/ \E m \in Masus, s \in SubuNames : Login(m, s) \/ LoseView(m, s)
           \/ LuksOpenFails \/ Interrupt
  BY <1>2, EventIs DEF OwnInv
<1>3. CASE \E m \in Masus, s \in SubuNames : SessionEnds(m, s)
  BY <1>3, EndingIs DEF OwnInv, ViewOnItsWay, ViewPending, ViewNext, ViewDone, ViewsAt
<1>. QED  BY <1>1, <1>2, <1>3, OwnInvStep, OwnInvScript DEF Next

\* After a map_own, or a map_own_all, that nothing came between and that came
\* to its end, each subuser's home is shown by exactly one view, with suid
\* where that was asked for, whatever was mounted there before, for any list
\* of subusers.
THEOREM ViewsAreAsAsked == Spec => []ViewsAsAsked
<1>1. Init => OwnInv
  BY DEF Init, OwnInv
<1>2. SessionInv /\ OwnInv /\ [Next]_vars => OwnInv'
  BY OwnInvNext
<1>3. OwnInv => ViewsAsAsked
  <2> SUFFICES ASSUME OwnInv, Ended("own"), NEW s \in DOMAIN last.suid
               PROVE  ViewsAt(last.masu, s) = <<last.suid[s]>>
    BY DEF ViewsAsAsked
  <2>1. todo = << >> /\ ViewOnItsWay(todo, last.masu, s, last.suid[s])
    BY DEF OwnInv, Ended
  <2>2. ~ViewPending(todo, last.masu, s, last.suid[s])
    BY <2>1 DEF ViewPending
  <2>3. ~ViewNext(todo, last.masu, s, last.suid[s])
    BY <2>1 DEF ViewNext
  <2>. QED  BY <2>1, <2>2, <2>3 DEF ViewOnItsWay, ViewDone
<1>. QED  BY <1>1, <1>2, <1>3, SessionInvAlways, PTL DEF Spec

-----------------------------------------------------------------------------
(* logout. *)

LEMMA PairIs ==
  ASSUME NEW S, NEW q \in Seq(S), Len(q) = 2
  PROVE  q = <<q[1], q[2]>>
OBVIOUS

LEMMA TailIs ==
  ASSUME NEW S, NEW q \in Seq(S), q # << >>
  PROVE  /\ Len(q) \in Nat \ {0} /\ DOMAIN q = 1 .. Len(q) /\ Head(q) = q[1]
         /\ Tail(q) \in Seq(S) /\ Len(Tail(q)) = Len(q) - 1
         /\ DOMAIN Tail(q) = 1 .. Len(q) - 1
         /\ \A n \in 1 .. Len(q) - 1 : Tail(q)[n] = q[n + 1]
OBVIOUS

\* The first command ends a session, or it is the umount of the home.
LEMMA LogoutFirst ==
  ASSUME NEW q, NEW m, NEW name, EndsWithHome(q, m, name), q \in Seq(LogoutOps)
  PROVE  /\ q # << >>
         /\ \/ Head(q) \in EndOps /\ EndsWithHome(Tail(q), m, name)
            \/ /\ Head(q) = Op("umount home", m)
               /\ Tail(q) = <<Op("umount mnt", name), Op("close", name)>>
<1>1. /\ Len(q) \in Nat /\ Len(q) >= 3 /\ DOMAIN q = 1 .. Len(q) /\ q # << >> /\ Head(q) = q[1]
      /\ Tail(q) \in Seq(LogoutOps) /\ Len(Tail(q)) = Len(q) - 1
      /\ DOMAIN Tail(q) = 1 .. Len(q) - 1
      /\ \A n \in 1 .. Len(q) - 1 : Tail(q)[n] = q[n + 1]
  <2>1. Len(q) >= 3
    BY DEF EndsWithHome
  <2>2. q # << >>
    BY <2>1
  <2>. QED  BY <2>1, <2>2, TailIs
<1> DEFINE a == Op("umount home", m)
           b == Op("umount mnt", name)
           c == Op("close", name)
<1>2. /\ \A n \in DOMAIN q : n <= Len(q) - 3 => q[n] \in EndOps
      /\ q[Len(q) - 2] = a /\ q[Len(q) - 1] = b /\ q[Len(q)] = c
  BY DEF EndsWithHome
<1> HIDE DEF a, b, c
<1>4. CASE Len(q) = 3
  <2>1. q[1] = a /\ q[2] = b /\ q[3] = c
    BY <1>2, <1>4
  <2>2. Len(Tail(q)) = 2 /\ Tail(q)[1] = b /\ Tail(q)[2] = c
    BY <1>1, <1>4, <2>1
  <2>3. Tail(q) = <<b, c>>
    BY <1>1, <2>2, PairIs
  <2>. QED  BY <1>1, <2>1, <2>3 DEF a, b, c
<1>5. CASE Len(q) > 3
  <2>1. Head(q) \in EndOps
    BY <1>1, <1>2, <1>5
  <2>2. /\ Len(Tail(q)) >= 3
        /\ \A n \in DOMAIN Tail(q) : n <= Len(Tail(q)) - 3 => Tail(q)[n] \in EndOps
        /\ Tail(q)[Len(Tail(q)) - 2] = a
        /\ Tail(q)[Len(Tail(q)) - 1] = b
        /\ Tail(q)[Len(Tail(q))] = c
    BY <1>1, <1>2, <1>5
  <2>3. EndsWithHome(Tail(q), m, name)
    BY <2>2 DEF EndsWithHome, a, b, c
  <2>. QED  BY <1>1, <2>1, <2>3
<1>6. Len(q) = 3 \/ Len(q) > 3
  BY <1>1
<1>. QED  BY <1>4, <1>5, <1>6

LEMMA LogoutInvStep == ASSUME SessionInv, LogoutInv, Step PROVE LogoutInv'
<1> SUFFICES ASSUME alone', last'.what = "logout", last'.name # None PROVE LogoutInv'
  BY DEF LogoutInv
<1>1. alone /\ last' = last /\ last.what = "logout" /\ last.name # None
  BY StepIs
<1>2. PICK m \in Masus, name \in MapNames : m = last.masu /\ name = last.name
  BY <1>1 DEF SessionInv, Asked
<1>3. Devices /\ Homes /\ Sessions /\ Queue /\ todo # << >>
  BY StepIs DEF SessionInv
<1> DEFINE a == Op("umount home", m)
           b == Op("umount mnt", name)
           c == Op("close", name)
<1> HIDE DEF a, b, c
<1>4. CASE EndsWithHome(todo, m, name) /\ (last.idle => HeldByIdleHome(m, name))
  <2>1. todo \in Seq(LogoutOps)
    <3>1. Head(todo) \in EndOps \cup {a}
      <4>1. /\ Len(todo) \in Nat /\ Head(todo) = todo[1] /\ DOMAIN todo = 1 .. Len(todo)
        <5>1. todo \in Seq(OpenOps) \/ todo \in Seq(LogoutOps) \/ todo \in Seq(ViewOps) \/ \E x : todo = <<x>>
          BY <1>3 DEF Queue
        <5>. QED  BY <5>1, <1>3
      <4>2. Len(todo) >= 3 /\ \A n \in DOMAIN todo : n <= Len(todo) - 3 => todo[n] \in EndOps
        BY <1>4 DEF EndsWithHome
      <4>3. todo[Len(todo) - 2] = a
        BY <1>4 DEF EndsWithHome, a
      <4>4. Len(todo) = 3 => todo[1] = a
        BY <4>3
      <4>5. Len(todo) > 3 => todo[1] \in EndOps
        BY <4>1, <4>2
      <4>. QED  BY <4>1, <4>2, <4>4, <4>5
    <3>2. Head(todo).op \in {"terminate", "kill", "umount home"}
      <4>1. a.op = "umount home"
        BY DEF a, Op
      <4>2. Head(todo) \in EndOps => Head(todo).op \in {"terminate", "kill"}
        BY DEF EndOps
      <4>. QED  BY <3>1, <4>1, <4>2
    <3>3. Head(todo) \notin OpenOps /\ Head(todo) \notin ViewOps
      BY <3>2 DEF OpenOps, ViewOps
    <3>4. \A n1, m1 : Head(todo) # Op("bind", [name |-> n1, masu |-> m1])
      <4>1. \A n1, m1 : Op("bind", [name |-> n1, masu |-> m1]).op = "bind"
        BY DEF Op
      <4>. QED  BY <3>2, <4>1
    <3>. QED  BY <1>3, <3>3, <3>4, HeadKinds
  <2>2. CASE Head(todo) \in EndOps /\ EndsWithHome(Tail(todo), m, name)
    <3>1. Head(todo).op \in {"terminate", "kill"} /\ Head(todo).arg.masu \in Masus /\ Head(todo).arg.subu \in SubuNames
      BY <2>2 DEF EndOps
    <3>2. Terminate \/ Kill
      BY <3>1, StepIs
    <3>3. todo' = Tail(todo) /\ UNCHANGED <<mapping, mnt, home>>
      BY <3>2 DEF Terminate, Kill, Signal, Proceed, Go
    <3>4. session[m] = NoSession => session'[m] = NoSession
      <4>1. PICK o \in Masus, t \in SubuNames : o = Head(todo).arg.masu /\ t = Head(todo).arg.subu
        BY <3>1
      <4>2. session' = session \/ session' = [session EXCEPT ![o][t] = 0]
        BY <3>2, <4>1 DEF Terminate, Kill, Signal, Argument
      <4>. QED  BY <1>3, <4>2 DEF Sessions, NoSession
    <3>5. HeldByIdleHome(m, name) => HeldByIdleHome(m, name)'
      BY <3>3, <3>4 DEF HeldByIdleHome
    <3>6. EndsWithHome(todo, m, name)'
      <4>1. PICK q : q = todo' /\ EndsWithHome(q, m, name)
        BY <2>2, <3>3
      <4>. QED  BY <4>1 DEF EndsWithHome
    <3>. QED  BY <1>1, <1>2, <1>4, <3>5, <3>6 DEF LogoutInv
  <2>3. CASE Head(todo) = a /\ Tail(todo) = <<b, c>>
    <3>1. Head(todo).op = "umount home" /\ Head(todo).arg = m
      <4>1. a.op = "umount home" /\ a.arg = m
        BY DEF a, Op
      <4>. QED  BY <2>3, <4>1
    <3>2. UmountHome
      BY <3>1, StepIs
    <3>3. UNCHANGED <<mapping, mnt, session>> /\ todo' = <<b, c>>
      BY <2>3, <3>2 DEF UmountHome, Proceed, Go
    <3>4. ASSUME HeldByIdleHome(m, name) PROVE HomeGone(m, name)'
      <4>1. Len(home[m]) = 1 /\ home[m][1].views = NoViews /\ home[m] # << >>
        BY <3>4 DEF HeldByIdleHome
      <4>2. \A s \in SubuNames : session[m][s] = 0
        BY <3>4 DEF HeldByIdleHome, NoSession
      <4>3. ~HomeBusy(m)
        BY <4>1, <4>2 DEF HomeBusy
      <4>4. home' = [home EXCEPT ![m] = Front(home[m])]
        BY <3>1, <3>2, <4>1, <4>3 DEF UmountHome, Argument
      <4>5. Front(home[m]) = << >>
        <5>1. home[m] \in Seq(Binds)
          BY <1>3 DEF Homes
        <5>2. Front(home[m]) \in Seq(Binds) /\ Len(Front(home[m])) = 0
          BY <4>1, <5>1, FrontType
        <5>. QED  BY <5>2
      <4>6. home'[m] = << >> /\ \A o \in Masus : o # m => home'[o] = home[o]
        BY <1>3, <4>4, <4>5 DEF Homes
      <4>7. ASSUME NEW other \in Masus, NEW n \in DOMAIN home'[other]
            PROVE  home'[other][n].node # mapping[name]
        <5>1. other # m
          BY <4>6
        <5>. QED  BY <3>4, <4>6, <5>1 DEF HeldByIdleHome
      <4>. QED  BY <3>3, <4>6, <4>7 DEF HomeGone
    <3>. QED  BY <1>1, <1>2, <1>4, <3>3, <3>4 DEF LogoutInv, b, c
  <2>. QED  BY <1>4, <2>1, <2>2, <2>3, LogoutFirst DEF a, b, c
<1>5. CASE todo = <<b, c>> /\ (last.idle => HomeGone(m, name))
  <2>1. b.op = "umount mnt" /\ b.arg = name
    BY DEF b, Op
  <2>2. Head(todo) = b /\ Tail(todo) = <<c>>
    BY <1>5
  <2>3. UmountDevice
    BY <2>1, <2>2, StepIs
  <2>4. UNCHANGED <<mapping, home, session>> /\ todo' = <<c>>
    BY <2>2, <2>3 DEF UmountDevice, Proceed, Go
  <2>5. HomeGone(m, name) => HomeGone(m, name)'
    BY <2>4 DEF HomeGone
  <2>. QED  BY <1>1, <1>2, <1>5, <2>4, <2>5 DEF LogoutInv, c
<1>6. CASE todo = <<c>> /\ (last.idle => HomeGone(m, name))
  <2>1. c.op = "close" /\ c.arg = name
    BY DEF c, Op
  <2>2. Head(todo) = c /\ Tail(todo) = << >>
    BY <1>6
  <2>3. CloseDevice
    BY <2>1, <2>2, StepIs
  <2>4. UNCHANGED <<mnt, home, session>> /\ todo' = << >>
    BY <2>2, <2>3 DEF CloseDevice, Proceed, Go
  <2>5. mapping'[name] = IF mapping[name] # None /\ InUse(mapping[name]) THEN mapping[name] ELSE None
    BY <1>3, <2>1, <2>2, <2>3 DEF CloseDevice, Argument, Devices
  <2>6. mapping'[name] # None => InUse(mapping[name])'
    <3>1. mapping'[name] # None => mapping'[name] = mapping[name] /\ InUse(mapping[name])
      BY <2>5
    <3>. QED  BY <2>4, <3>1 DEF InUse
  <2>7. ASSUME HomeGone(m, name) PROVE home'[m] = << >> /\ mapping'[name] \in {None, mnt'[name]}
    <3>1. mapping[name] # None /\ InUse(mapping[name]) => mnt[name] = mapping[name]
      BY <1>3, <2>7 DEF Devices, HomeGone, InUse
    <3>. QED  BY <2>4, <2>5, <2>7, <3>1 DEF HomeGone
  <2>. QED  BY <1>1, <1>2, <1>6, <2>4, <2>6, <2>7 DEF LogoutInv
<1>. QED  BY <1>1, <1>2, <1>3, <1>4, <1>5, <1>6 DEF LogoutInv, b, c

LEMMA LogoutInvScript == ASSUME SessionInv, Script PROVE LogoutInv'
<1> SUFFICES ASSUME last'.what = "logout", last'.name # None PROVE LogoutInv'
  BY DEF LogoutInv
<1>1. PICK m \in Masus, name \in MapNames \cup {None}, aggressive \in BOOLEAN : Logout(m, name, aggressive)
  BY ScriptIs
<1>2. /\ todo' = LogoutProgram(m, name, aggressive) /\ UNCHANGED mounts
      /\ last' = [what |-> "logout", masu |-> m, name |-> name,
                  idle |-> name # None /\ HeldByIdleHome(m, name)]
  BY <1>1 DEF Logout, Begin
<1>3. last'.masu = m /\ last'.name = name /\ (last'.idle => HeldByIdleHome(m, name))
  BY <1>2
<1>4. PICK q : q = todo'
  OBVIOUS
<1>5. EndsWithHome(q, m, name)
  BY <1>2, <1>3, <1>4, LogoutProgramIs
<1>6. EndsWithHome(todo, m, name)'
  BY <1>4, <1>5 DEF EndsWithHome
<1>7. HeldByIdleHome(m, name) => HeldByIdleHome(m, name)'
  BY <1>2 DEF HeldByIdleHome, mounts
<1>. QED  BY <1>3, <1>6, <1>7 DEF LogoutInv

LEMMA LogoutInvNext == ASSUME SessionInv, LogoutInv, [Next]_vars PROVE LogoutInv'
<1>1. CASE UNCHANGED vars
  BY <1>1 DEF vars, mounts, LogoutInv, EndsWithHome, HeldByIdleHome, HomeGone, InUse
<1>2. CASE \/ \E m \in Masus, s \in SubuNames : Login(m, s) \/ LoseView(m, s)
           \/ LuksOpenFails \/ Interrupt
  BY <1>2, EventIs DEF LogoutInv
<1>3. ASSUME NEW o \in Masus, NEW t \in SubuNames, SessionEnds(o, t) PROVE LogoutInv'
  <2>1. /\ UNCHANGED <<mapping, mnt, home, todo, last, alone>>
        /\ session' = [session EXCEPT ![o][t] = 0]
    BY <1>3, EndingIs
  <2>2. \A m \in Masus : session[m] = NoSession => session'[m] = NoSession
    BY <2>1 DEF SessionInv, Sessions, NoSession
  <2>3. last.what = "logout" => last.masu \in Masus
    BY DEF SessionInv, Asked
  <2>4. last.what = "logout" /\ HeldByIdleHome(last.masu, last.name) => HeldByIdleHome(last.masu, last.name)'
    BY <2>1, <2>2, <2>3 DEF HeldByIdleHome
  <2>. QED  BY <2>1, <2>4 DEF LogoutInv, EndsWithHome, HomeGone, InUse
<1>. QED  BY <1>1, <1>2, <1>3, LogoutInvStep, LogoutInvScript DEF Next

\* A logout that names a device, and that nothing came between, leaves it open
\* only while something of it is mounted; and where one bind without views
\* and without sessions was all that the homes held of it, the home is given
\* up and the device is closed or still mounted under its name.
THEOREM LogoutReleasesIt == Spec => []LogoutReleases
<1>1. Init => LogoutInv
  BY DEF Init, LogoutInv
<1>2. SessionInv /\ LogoutInv /\ [Next]_vars => LogoutInv'
  BY LogoutInvNext
<1>3. LogoutInv => LogoutReleases
  <2> SUFFICES ASSUME LogoutInv, Ended("logout"), last.name # None
               PROVE  /\ mapping[last.name] # None => InUse(mapping[last.name])
                      /\ last.idle => home[last.masu] = << >> /\ mapping[last.name] \in {None, mnt[last.name]}
    BY DEF LogoutReleases
  <2>1. todo = << >> /\ ~EndsWithHome(todo, last.masu, last.name)
    BY DEF Ended, EndsWithHome
  <2>. QED  BY <2>1 DEF LogoutInv, Ended
<1>. QED  BY <1>1, <1>2, <1>3, SessionInvAlways, PTL DEF Spec
=============================================================================
