---------------------------- MODULE DeviceSession ----------------------------
(***************************************************************************)
(* The scripts of developer/mount: a master user's home on an encrypted    *)
(* device is opened, mounted, bound to /home/<masu>, shown to the master   *)
(* user through bindfs views of the subusers' homes, and given up again by *)
(* logout_subu.                                                            *)
(*                                                                         *)
(* The scripts mostly ignore what fails, so what the kernel refuses is     *)
(* part of the model.  Mounts at one place stack: home[m] is the sequence  *)
(* of the binds at /home/m, and each has the views that were mounted on it.*)
(* One administrator runs one script after the other; users log in and     *)
(* out, and systemd drops views, in between and meanwhile.                 *)
(*                                                                         *)
(* External: mount(8), umount(8), cryptsetup(8), bindfs(1), loginctl(1).   *)
(***************************************************************************)
EXTENDS Naturals, Sequences, SequencesExt, FiniteSets

CONSTANTS
  Nodes,        \* encrypted partitions
  MapNames,     \* names for /dev/mapper/<name>-crypt and /mnt/<name>
  LongerNames,  \* for each name, the others that begin with it
  Masus,        \* master users
  Holds,        \* for each partition, whose user_data it has
  Subus,        \* subusers, in the order in which they are listed
  None,
  MaxCommands,  \* bound on the scripts run
  MaxEvents     \* bound on logins, lost views, wrong passphrases and interruptions

SubuNames == {Subus[n] : n \in DOMAIN Subus}

ASSUME SessionAssumption ==
  /\ LongerNames \in [MapNames -> SUBSET MapNames]
  /\ Holds \in [Nodes -> SUBSET Masus]
  /\ Subus \in Seq(SubuNames) /\ IsInjective(Subus)
  /\ None \notin Nodes \cup MapNames
  /\ {MaxCommands, MaxEvents} \subseteq Nat

VARIABLES
  mapping,  \* the partition that /dev/mapper/<name>-crypt opens
  mnt,      \* the partition mounted at /mnt/<name>
  home,     \* the binds at /home/<masu>: [node, views]
  session   \* the bind that <masu>-<subu>'s session lives on, 0 if there is none

VARIABLES
  todo,     \* what the script has still to do
  result,   \* how the last script ended
  last,     \* history: the script last begun
  alone,    \* history: has none of the events come between since then?
  issued, events

mounts == <<mapping, mnt, home, session>>
vars == <<mounts, todo, result, last, alone, issued, events>>

NoViews == [s \in SubuNames |-> <<>>]
NoSession == [s \in SubuNames |-> 0]

Init ==
  /\ mapping = [name \in MapNames |-> None]
  /\ mnt = [name \in MapNames |-> None]
  /\ home = [m \in Masus |-> <<>>]
  /\ session = [m \in Masus |-> NoSession]
  /\ todo = <<>>
  /\ result = "ok"
  /\ last = [what |-> "nothing"]
  /\ alone = TRUE
  /\ issued = 0 /\ events = 0

-----------------------------------------------------------------------------
(* What the kernel knows. *)

\* cryptsetup close: is anything of the partition mounted?
InUse(node) ==
  \/ \E name \in MapNames : mnt[name] = node
  \/ \E m \in Masus : \E n \in DOMAIN home[m] : home[m][n].node = node

\* The topmost bind of a home cannot go while it carries a view or a session.
HomeBusy(m) ==
  LET top == Len(home[m]) IN
    \/ home[m][top].views # NoViews
    \/ \E s \in SubuNames : session[m][s] = top

\* The views at /home/m/subu/s, in the bind that is visible.
ViewsAt(m, s) == IF home[m] = <<>> THEN <<>> ELSE Last(home[m]).views[s]

WithViews(m, s, stack) == [home EXCEPT ![m][Len(home[m])].views[s] = stack]

-----------------------------------------------------------------------------
(* Programs. *)

Op(name, arg) == [op |-> name, arg |-> arg]

ForEachSubu(program(_)) == FlattenSeq([n \in DOMAIN Subus |-> program(Subus[n])])

\* Slip: what is mounted there is mounted over.
MapOwnOver(m, s, suid) ==
  <<Op("source", [masu |-> m]), Op("bindfs", [masu |-> m, subu |-> s, suid |-> suid])>>

\* masu_subu__map_own.sh
MapOwnProgram(m, s, suid) ==
  <<Op("source", [masu |-> m]), Op("unstack", [masu |-> m, subu |-> s]),
    Op("bindfs", [masu |-> m, subu |-> s, suid |-> suid])>>

\* Slip: the device first.
LogoutDeviceFirst(m, name, aggressive) ==
  ForEachSubu(LAMBDA s : <<Op("terminate", [masu |-> m, subu |-> s])>>)
    \o (IF aggressive
        THEN ForEachSubu(LAMBDA s : <<Op("kill", [masu |-> m, subu |-> s])>>) ELSE <<>>)
    \o (IF name # None THEN <<Op("umount mnt", name), Op("close", name)>> ELSE <<>>)
    \o <<Op("umount home", m)>>

\* logout_subu.sh.  The list of bindfs mounts asks for a source named
\* "fuse.*", and is empty whatever is mounted.
LogoutProgram(m, name, aggressive) ==
  ForEachSubu(LAMBDA s : <<Op("terminate", [masu |-> m, subu |-> s])>>)
    \o (IF aggressive
        THEN ForEachSubu(LAMBDA s : <<Op("kill", [masu |-> m, subu |-> s])>>) ELSE <<>>)
    \o <<Op("umount home", m)>>
    \o (IF name # None THEN <<Op("umount mnt", name), Op("close", name)>> ELSE <<>>)

Runs(name) == todo # <<>> /\ Head(todo).op = name
Argument == Head(todo).arg

Go(rest) ==
  /\ todo' = rest
  /\ UNCHANGED <<result, last, alone, issued, events>>

Proceed == Go(Tail(todo))

\* set -e
Quit ==
  /\ todo' = <<>>
  /\ result' = "error"
  /\ UNCHANGED <<last, alone, issued, events>>

-----------------------------------------------------------------------------
(* Steps.  A command that the kernel refuses has no effect. *)

\* Slip: a failure ends the script.
LuksOpenOrQuit ==
  /\ Runs("luksOpen")
  /\ UNCHANGED <<mnt, home, session>>
  /\ LET name == Argument.name node == Argument.node IN
       IF mapping[name] = None /\ \A other \in MapNames : mapping[other] # node
       THEN mapping' = [mapping EXCEPT ![name] = node] /\ Proceed
       ELSE UNCHANGED mapping /\ Quit

\* Neither for a name that is in use nor for a partition that is.
LuksOpen ==
  /\ Runs("luksOpen")
  /\ LET name == Argument.name node == Argument.node IN
       mapping' = IF mapping[name] = None /\ \A other \in MapNames : mapping[other] # node
                  THEN [mapping EXCEPT ![name] = node] ELSE mapping
  /\ Proceed
  /\ UNCHANGED <<mnt, home, session>>

MountDevice ==
  /\ Runs("mount")
  /\ mnt' = [mnt EXCEPT ![Argument] = IF mapping[Argument] # None THEN mapping[Argument] ELSE @]
  /\ Proceed
  /\ UNCHANGED <<mapping, home, session>>

BindHome ==
  /\ Runs("bind")
  /\ home' = [home EXCEPT ![Argument.masu] =
                Append(@, [node |-> mnt[Argument.name], views |-> NoViews])]
  /\ Proceed
  /\ UNCHANGED <<mapping, mnt, session>>

\* Only a bound home has a subu_data.
FindSource ==
  /\ Runs("source")
  /\ IF home[Argument.masu] # <<>> THEN Proceed ELSE Quit
  /\ UNCHANGED mounts

\* One round of the loop; a lazy umount if the view is in use.
Unstack ==
  /\ Runs("unstack")
  /\ UNCHANGED <<mapping, mnt, session>>
  /\ LET stack == ViewsAt(Argument.masu, Argument.subu) IN
       IF stack = <<>>
       THEN Proceed /\ UNCHANGED home
       ELSE home' = WithViews(Argument.masu, Argument.subu, Front(stack)) /\ Go(todo)

MountView ==
  /\ Runs("bindfs")
  /\ LET m == Argument.masu s == Argument.subu IN
       home' = WithViews(m, s, Append(ViewsAt(m, s), Argument.suid))
  /\ Proceed
  /\ UNCHANGED <<mapping, mnt, session>>

\* The session is gone, or it is not gone yet.
Signal ==
  /\ session' \in {session, [session EXCEPT ![Argument.masu][Argument.subu] = 0]}
  /\ Proceed
  /\ UNCHANGED <<mapping, mnt, home>>

\* loginctl terminate-user, and half a second.
Terminate == Runs("terminate") /\ Signal

\* pkill -KILL, which waits for nothing.
Kill == Runs("kill") /\ Signal

\* Slip: lazily.
DetachHome ==
  /\ Runs("umount home")
  /\ home' = [home EXCEPT ![Argument] = IF @ = <<>> THEN @ ELSE Front(@)]
  /\ Proceed
  /\ UNCHANGED <<mapping, mnt, session>>

\* findmnt -T finds some file system for every directory: the umount is
\* always tried, once.
UmountHome ==
  /\ Runs("umount home")
  /\ home' = [home EXCEPT ![Argument] =
                IF @ = <<>> \/ HomeBusy(Argument) THEN @ ELSE Front(@)]
  /\ Proceed
  /\ UNCHANGED <<mapping, mnt, session>>

\* Refused while somebody works there; the script goes on.  The binds of its
\* directories are mounts of their own and stay.
UmountDevice ==
  /\ Runs("umount mnt")
  /\ mnt' \in {mnt, [mnt EXCEPT ![Argument] = None]}
  /\ Proceed
  /\ UNCHANGED <<mapping, home, session>>

CloseDevice ==
  /\ Runs("close")
  /\ mapping' = [mapping EXCEPT ![Argument] =
                   IF @ # None /\ InUse(@) THEN @ ELSE None]
  /\ Proceed
  /\ UNCHANGED <<mnt, home, session>>

-----------------------------------------------------------------------------
(* The scripts. *)

Begin(what, program) ==
  /\ todo = <<>>
  /\ issued < MaxCommands
  /\ issued' = issued + 1
  /\ todo' = program
  /\ result' = "ok"
  /\ last' = what
  /\ alone' = TRUE
  /\ UNCHANGED <<mounts, events>>

Refuse ==
  /\ todo = <<>>
  /\ issued < MaxCommands
  /\ issued' = issued + 1
  /\ result' = "error"
  /\ last' = [what |-> "refused"]
  /\ UNCHANGED <<mounts, todo, alone, events>>

\* 'mount | grep "on /mnt/<name>"': any mount point that begins so.
ListedAsMounted(name) == \E other \in LongerNames[name] \cup {name} : mnt[other] # None

\* Nothing stands in the way: the name maps nothing else, the partition is
\* not open under another name, and no longer name is mounted.
Free(node, name) ==
  /\ mapping[name] \in {None, node}
  /\ \A other \in MapNames \ {name} : mapping[other] # node
  /\ \A other \in LongerNames[name] : mnt[other] = None

\* device_mapname__open_mount.sh
OpenMount(node, name) ==
  Begin([what |-> "open", node |-> node, name |-> name,
         free |-> Free(node, name), listed |-> ListedAsMounted(name)],
        IF ListedAsMounted(name)
        THEN <<>>
        ELSE <<Op("luksOpen", [node |-> node, name |-> name]), Op("mount", name)>>)

\* device_umount.sh; whatever came of the umount it closes a mapping
\* "<name>", and there is none.
DeviceUmount(name) == Begin([what |-> "umount"], <<Op("umount mnt", name)>>)

\* mapname_masu__to_home.sh
ToHome(name, m) ==
  IF mnt[name] # None /\ m \in Holds[mnt[name]]
  THEN Begin([what |-> "home"], <<Op("bind", [name |-> name, masu |-> m])>>)
  ELSE Refuse

MapOwn(m, s, suid) ==
  Begin([what |-> "own", masu |-> m, suid |-> [t \in {s} |-> suid]],
        MapOwnProgram(m, s, suid))

\* masu__map_own_all.sh --suid=...
MapOwnAll(m, suids) ==
  IF home[m] # <<>>
  THEN Begin([what |-> "own", masu |-> m, suid |-> [t \in SubuNames |-> t \in suids]],
             ForEachSubu(LAMBDA s : MapOwnProgram(m, s, s \in suids)))
  ELSE Refuse

\* Of the homes only this one holds the device, by one bind that carries
\* neither a view nor a session.
HeldByIdleHome(m, name) ==
  /\ mapping[name] # None
  /\ home[m] = <<[node |-> mapping[name], views |-> NoViews]>>
  /\ session[m] = NoSession
  /\ \A other \in Masus \ {m} : \A n \in DOMAIN home[other] :
       home[other][n].node # mapping[name]

Logout(m, name, aggressive) ==
  Begin([what |-> "logout", masu |-> m, name |-> name,
         idle |-> name # None /\ HeldByIdleHome(m, name)],
        LogoutProgram(m, name, aggressive))

-----------------------------------------------------------------------------
(* What else happens. *)

Event ==
  /\ events < MaxEvents
  /\ events' = events + 1
  /\ alone' = FALSE
  /\ UNCHANGED <<last, issued>>

\* A subuser logs in.
Login(m, s) ==
  /\ Event
  /\ home[m] # <<>>
  /\ session[m][s] = 0
  /\ session' = [session EXCEPT ![m][s] = Len(home[m])]
  /\ UNCHANGED <<mapping, mnt, home, todo, result>>

\* He leaves, or has come to the end that was signalled.
SessionEnds(m, s) ==
  /\ session[m][s] # 0
  /\ session' = [session EXCEPT ![m][s] = 0]
  /\ UNCHANGED <<mapping, mnt, home, todo, result, last, alone, issued, events>>

\* "it keeps losing the mounts" (README.org, bindfs problem)
LoseView(m, s) ==
  /\ Event
  /\ ViewsAt(m, s) # <<>>
  /\ home' = WithViews(m, s, Front(ViewsAt(m, s)))
  /\ UNCHANGED <<mapping, mnt, session, todo, result>>

\* A wrong passphrase, say; open_mount goes on.
LuksOpenFails ==
  /\ Event
  /\ Runs("luksOpen")
  /\ todo' = Tail(todo)
  /\ UNCHANGED <<mounts, result>>

Interrupt ==
  /\ Event
  /\ todo # <<>>
  /\ todo' = <<>>
  /\ result' = "error"
  /\ UNCHANGED mounts

-----------------------------------------------------------------------------

Step ==
  \/ LuksOpen \/ MountDevice \/ BindHome
  \/ FindSource \/ Unstack \/ MountView
  \/ Terminate \/ Kill \/ UmountHome \/ UmountDevice \/ CloseDevice

Script ==
  \/ \E node \in Nodes, name \in MapNames : OpenMount(node, name)
  \/ \E name \in MapNames : DeviceUmount(name) \/ \E m \in Masus : ToHome(name, m)
  \/ \E m \in Masus :
       \/ \E s \in SubuNames, suid \in BOOLEAN : MapOwn(m, s, suid)
       \/ \E suids \in SUBSET SubuNames : MapOwnAll(m, suids)
       \/ \E name \in MapNames \cup {None}, aggressive \in BOOLEAN :
            Logout(m, name, aggressive)

Next ==
  \/ Step \/ Script
  \/ \E m \in Masus, s \in SubuNames : Login(m, s) \/ SessionEnds(m, s) \/ LoseView(m, s)
  \/ LuksOpenFails \/ Interrupt

Spec == Init /\ [][Next]_vars

-----------------------------------------------------------------------------
(* Properties *)

\* Every variable has its type; what is mounted is open, and a session lives
\* on a bind that is there.
TypeOK ==
  /\ mapping \in [MapNames -> Nodes \cup {None}]
  /\ mnt \in [MapNames -> Nodes \cup {None}]
  /\ \A node \in Nodes :
       InUse(node) => Cardinality({name \in MapNames : mapping[name] = node}) = 1
  /\ home \in [Masus -> Seq([node : Nodes, views : [SubuNames -> Seq(BOOLEAN)]])]
  /\ \A m \in Masus, s \in SubuNames : session[m][s] \in 0 .. Len(home[m])
  /\ result \in {"ok", "error"}

Ended(what) == todo = <<>> /\ alone /\ result = "ok" /\ last.what = what

\* After map_own, or map_own_all, each subuser's home is shown by one view,
\* with suid where that was asked for and nowhere else: whatever earlier
\* calls, interrupted ones and lost mounts had left there.
ViewsAsAsked ==
  Ended("own") =>
    \A s \in DOMAIN last.suid : ViewsAt(last.masu, s) = <<last.suid[s]>>

\* A logout that names a device, and comes to its end, leaves it open only
\* while something of it is mounted: each thing is given up after what keeps
\* it busy, so that a session or a view which outlives the signals, or
\* somebody at work under /mnt, is all that can hold the device.  And it
\* finishes what an earlier one had to leave: where one bind without views
\* and without sessions is all that the homes hold of the device, the home is
\* given up, and the device unless its file system is still in use.
LogoutReleases ==
  Ended("logout") /\ last.name # None =>
    /\ mapping[last.name] # None => InUse(mapping[last.name])
    /\ last.idle => home[last.masu] = <<>> /\ mapping[last.name] \in {None, mnt[last.name]}

\* open_mount mounts the partition that it is asked for if nothing else has
\* the name or the partition: also where an earlier umount or logout left the
\* mapping open, so that luksOpen fails.
OpenMountsTheDevice ==
  todo = <<>> /\ alone /\ last.what = "open" /\ last.free =>
    mnt[last.name] = last.node

-----------------------------------------------------------------------------
(* What the texts say and the code does not do. *)

\* developer/mount/README.org: "the remote device is mounted under
\* /mnt/map_name".  Where the script reports that, no other device is.
MountsNoOtherDevice ==
  todo = <<>> /\ alone /\ last.what = "open" /\ ~last.listed =>
    mnt[last.name] \in {None, last.node}
=============================================================================
