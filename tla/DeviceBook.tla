----------------------------- MODULE DeviceBook -----------------------------
(***************************************************************************)
(* What the device tables promise to those who read them: they change only *)
(* by whole operations.  A device is reconciled with a set of directories  *)
(* that was found on it, a chain of nodes is captured, or a device is      *)
(* detached with all its nodes; each happens at once, and nothing else     *)
(* does.  DeviceRegistry shows how transactions and their failures keep    *)
(* this promise.                                                           *)
(***************************************************************************)
EXTENDS SubuPaths

CONSTANTS
  Devices,         \* mapnames
  Local, Absent    \* no device; no row

VARIABLES
  device,   \* the state of each device's row
  node      \* the row of each path

bookVars == <<device, node>>

BookInit ==
  /\ device = [d \in Devices |-> "unknown"]
  /\ node = [path \in Paths |-> Absent]

\* A directory is found only below directories that are found.
Rooted(found) == \A path \in found : Len(path) > 2 => Parent(path) \in found

\* A node that is not recorded yet becomes d's and online; one of d's that
\* was not found goes offline; one that was found stays as it is.
Reconciled(d, found) ==
  [path \in Paths |->
     IF node[path] = Absent
     THEN IF path \in found THEN [device |-> d, online |-> TRUE] ELSE Absent
     ELSE IF node[path].device = d /\ path \notin found
          THEN [node[path] EXCEPT !.online = FALSE]
          ELSE node[path]]

Reconcile(d, found) ==
  /\ Rooted(found)
  /\ device' = [device EXCEPT ![d] = "online"]
  /\ node' = Reconciled(d, found)

\* The path and the paths above it, on a device that has a row.
CaptureChain(d, path) ==
  /\ d = Local \/ device[d] # "unknown"
  /\ node' = [other \in Paths |->
                IF node[other] = Absent
                   /\ (other = path \/ other \in AncestorGroups(path))
                THEN [device |-> d, online |-> TRUE]
                ELSE node[other]]
  /\ UNCHANGED device

Detach(d) ==
  /\ device[d] # "unknown"
  /\ device' = [device EXCEPT ![d] = "offline"]
  /\ node' = Reconciled(d, {})

BookNext ==
  \/ \E d \in Devices, found \in SUBSET Paths : Reconcile(d, found)
  \/ \E d \in Devices \cup {Local}, path \in Paths : CaptureChain(d, path)
  \/ \E d \in Devices : Detach(d)

BookSpec == BookInit /\ [][BookNext]_bookVars
=============================================================================
