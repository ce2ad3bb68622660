--------------------------- MODULE GameController ---------------------------
(***************************************************************************)
(* The game controller clients of src/bluez: ps5_dual_sense/dual_sense.cc  *)
(* and its twins xbox_controller and horipad_steam (which has no UPower    *)
(* clients: MaxUPower = 0 here), with hidraw.hpp and udev_monitor.hpp.     *)
(*                                                                         *)
(* A client follows two services that know nothing of each other: BlueZ    *)
(* announces Device1 objects on the bus, udev announces hidraw nodes on a  *)
(* netlink socket.  Both queues are drained on the loop's thread; which    *)
(* one is served first is left open.  The client caches the udev database  *)
(* in a map from device to node name, and names are reused by the kernel,  *)
(* so a cached name may be that of another controller when it is opened.   *)
(*                                                                         *)
(* PropertiesChanged signals are stored by Device1 and acted on by nobody; *)
(* they are not modelled.  Modalias is the one of this kind of controller. *)
(***************************************************************************)
EXTENDS Naturals, Sequences, FiniteSets

CONSTANTS
  Devs,        \* controllers: a Bluetooth address, a serial number
  Names,       \* names of hidraw nodes, given to nodes by the kernel
  None,        \* no name, no device, no reader
  MaxDevices,  \* kMaxDevices
  MaxUPower,   \* kMaxUPowerClients
  OpenMayFail, \* can open() or an ioctl() of an existing node fail
  MaxEvents    \* bound on what BlueZ and the kernel do

ASSUME ControllerAssumption ==
  /\ None \notin Devs /\ None \notin Names
  /\ None \notin [dev : Devs, node : Devs \cup {None}]
  /\ OpenMayFail \in BOOLEAN
  /\ MaxDevices \in Nat /\ MaxUPower \in Nat /\ MaxEvents \in Nat

VARIABLES
  phase,   \* how far the constructor is; "running" in the event loop
  snap,    \* reply of GetManagedObjects still to be handled
  hidmap,  \* Hidraw::devices_: name of each controller's node, or None
  devices, \* devices_
  upower,  \* upower_clients_
  reader,  \* input_reader_: made for dev; reads node, None when hung up
  bz,      \* BlueZ: what Device1 of each controller says
  hid,     \* kernel: name of the controller's hidraw node
  inp,     \* kernel: transport of the controller's input device, if any
  dbusq,   \* signals for the client
  udevq,   \* actions of the hidraw events for the client
  budget   \* events left

client  == <<devices, upower, reader>>
kernel  == <<hid, inp, udevq>>
bus     == <<bz, dbusq>>
vars    == <<phase, snap, hidmap, client, kernel, bus, budget>>

Phases == {"start", "monitored", "scanned", "registered", "snapshot", "running"}

(* "bare" has no Modalias; "ready" is connected, paired and trusted.       *)
Known   == {"bare", "known", "ready"}
Readers == [dev : Devs, node : Devs \cup {None}]
Signals == [dev : Devs, props : Known \cup {"removed"}]

(* No two nodes have one name.                                             *)
DistinctNames == \A d, e \in Devs : hid[d] # None /\ hid[d] = hid[e] => d = e

(* The client starts at any moment in the life of the two services.        *)
Init ==
  /\ phase = "start" /\ snap = {}
  /\ hidmap = [d \in Devs |-> None]
  /\ devices = {} /\ upower = {} /\ reader = None
  /\ bz \in [Devs -> Known \cup {"absent"}]
  /\ hid \in [Devs -> Names \cup {None}] /\ DistinctNames
  /\ inp \in [Devs -> {"none", "bt", "usb"}]
  /\ dbusq = <<>> /\ udevq = <<>>
  /\ budget = MaxEvents

-----------------------------------------------------------------------------
(* udev: get_udev_properties("input", match) and the nodes beside them.    *)

Matching(transport) == {d \in Devs : inp[d] = transport}

(* Fault: the controller's key is stored where the name belongs.           *)
get_hidraw_devices_swapped(transport) ==
  [d \in Devs |-> IF d \in Matching(transport) THEN d ELSE None]

(* FindHidDevice() finds nothing for a controller whose entry is None.     *)
get_hidraw_devices(transport) ==
  [d \in Devs |-> IF d \in Matching(transport) THEN hid[d] ELSE None]

(* USB is looked at only when no Bluetooth input device matches.           *)
Scan == get_hidraw_devices(IF Matching("bt") # {} THEN "bt" ELSE "usb")

(* Fault: the socket receives only when the loop runs.                     *)
MonitoringLate == phase = "running"

(* The netlink socket receives from the monitor's constructor on.          *)
Monitoring == phase # "start"

(* Fault: signals are received only when the first objects are handled.    *)
SubscribedLate == phase = "running"

(* registerProxy() installs the matches of the object manager's signals.   *)
Subscribed == phase \in {"registered", "snapshot", "running"}

-----------------------------------------------------------------------------
(* The constructor.                                                        *)

MonitorEnabled ==
  /\ phase = "start" /\ phase' = "monitored"
  /\ UNCHANGED <<snap, hidmap, client, kernel, bus, budget>>

FirstScan ==
  /\ phase = "monitored" /\ phase' = "scanned"
  /\ hidmap' = Scan
  /\ UNCHANGED <<snap, client, kernel, bus, budget>>

RegisterProxy ==
  /\ phase = "scanned" /\ phase' = "registered"
  /\ UNCHANGED <<snap, hidmap, client, kernel, bus, budget>>

GetManagedObjects ==
  /\ phase = "registered" /\ phase' = "snapshot"
  /\ snap' = {[dev |-> d, props |-> bz[d]] : d \in {e \in Devs : bz[e] # "absent"}}
  /\ UNCHANGED <<hidmap, client, kernel, bus, budget>>

-----------------------------------------------------------------------------
(* onInterfacesAdded, the Device1 branch.                                  *)

(* Fault: off by one.                                                      *)
IsAtCapacityOffByOne(set, limit) == Cardinality(set) > limit

IsAtCapacity(set, limit) == Cardinality(set) >= limit

(* Skipped: no Modalias, already there, or no room.                        *)
Accepted(d, props) ==
  props # "bare" /\ d \notin devices /\ ~IsAtCapacity(devices, MaxDevices)

(* Readers that may result from opening the node named name for d: none if *)
(* the node is gone or an open() or ioctl() fails, else one that reads     *)
(* whichever controller has that name now.                                 *)
InputReader(d, name) ==
  LET opened == {[dev |-> d, node |-> e] : e \in {c \in Devs : hid[c] = name}}
  IN  IF OpenMayFail \/ opened = {} THEN opened \cup {None} ELSE opened

onDevice1Added(d, props) ==
  IF ~Accepted(d, props)
  THEN UNCHANGED client
  ELSE /\ devices' = devices \cup {d}
       /\ IF props = "ready" /\ hidmap[d] # None /\ reader = None
          THEN reader' \in InputReader(d, hidmap[d])
          ELSE UNCHANGED reader
       /\ upower' = IF IsAtCapacity(upower, MaxUPower) THEN upower
                                                        ELSE upower \cup {d}

(* The reader is left to udev.                                             *)
onDevice1Removed(d) ==
  /\ devices' = devices \ {d}
  /\ upower' = IF d \in devices THEN upower \ {d} ELSE upower
  /\ UNCHANGED reader

(* The constructor handles the objects of the reply, ...                   *)
SnapshotAdded(m) ==
  /\ phase = "snapshot" /\ m \in snap /\ snap' = snap \ {m}
  /\ onDevice1Added(m.dev, m.props)
  /\ UNCHANGED <<phase, hidmap, kernel, bus, budget>>

LoopRuns ==
  /\ phase = "snapshot" /\ snap = {} /\ phase' = "running"
  /\ UNCHANGED <<snap, hidmap, client, kernel, bus, budget>>

(* ... the loop then handles the signals, those sent meanwhile included.   *)
HandleSignal ==
  /\ phase = "running" /\ dbusq # <<>> /\ dbusq' = Tail(dbusq)
  /\ LET m == Head(dbusq)
     IN  IF m.props = "removed" THEN onDevice1Removed(m.dev)
                                ELSE onDevice1Added(m.dev, m.props)
  /\ UNCHANGED <<phase, snap, hidmap, kernel, bz, budget>>

(* Fault: the map is read again only when a node is added.                 *)
ScanOnAdd(action) == IF action = "add" THEN Scan ELSE hidmap

(* The callback reads the map again whatever the action is.                *)
ScanAfter(action) == Scan

(* Fault: the reader is dropped for the wrong action.                      *)
RetiredOnAdd(action) == action = "add"

RetiredBy(action) == action = "remove"

(* One turn of UdevMonitor::dispatch(): the callback for one hidraw event. *)
UdevCallback ==
  /\ phase = "running" /\ udevq # <<>> /\ udevq' = Tail(udevq)
  /\ reader' = IF RetiredBy(Head(udevq)) THEN None ELSE reader
  /\ hidmap' = ScanAfter(Head(udevq))
  /\ UNCHANGED <<phase, snap, devices, upower, hid, inp, bus, budget>>

-----------------------------------------------------------------------------
(* The kernel and udevd.  The hidraw node and the input device of one      *)
(* controller come and go on their own.                                    *)

Notify(action) == udevq' = IF Monitoring THEN Append(udevq, action) ELSE udevq

HidrawAdded(d, name) ==
  /\ budget > 0 /\ budget' = budget - 1
  /\ hid[d] = None /\ \A e \in Devs : hid[e] # name
  /\ hid' = [hid EXCEPT ![d] = name]
  /\ Notify("add")
  /\ UNCHANGED <<phase, snap, hidmap, client, inp, bus>>

HidrawRemoved(d) ==
  /\ budget > 0 /\ budget' = budget - 1
  /\ hid[d] # None
  /\ hid' = [hid EXCEPT ![d] = None]
  /\ reader' = IF reader # None /\ reader.node = d
               THEN [dev |-> reader.dev, node |-> None] ELSE reader
  /\ Notify("remove")
  /\ UNCHANGED <<phase, snap, hidmap, devices, upower, inp, bus>>

(* Events of the input subsystem are not received, or ignored.             *)
InputChanged(d, transport) ==
  /\ budget > 0 /\ budget' = budget - 1
  /\ (inp[d] = "none") # (transport = "none")
  /\ inp' = [inp EXCEPT ![d] = transport]
  /\ UNCHANGED <<phase, snap, hidmap, client, hid, udevq, bus>>

(* BlueZ.                                                                  *)

Signal(d, props) ==
  dbusq' = IF Subscribed THEN Append(dbusq, [dev |-> d, props |-> props]) ELSE dbusq

DeviceAppears(d, props) ==
  /\ budget > 0 /\ budget' = budget - 1
  /\ bz[d] = "absent"
  /\ bz' = [bz EXCEPT ![d] = props]
  /\ Signal(d, props)
  /\ UNCHANGED <<phase, snap, hidmap, client, kernel>>

DeviceChanges(d, props) ==
  /\ budget > 0 /\ budget' = budget - 1
  /\ bz[d] \in Known \ {props}
  /\ bz' = [bz EXCEPT ![d] = props]
  /\ UNCHANGED <<phase, snap, hidmap, client, kernel, dbusq>>

DeviceVanishes(d) ==
  /\ budget > 0 /\ budget' = budget - 1
  /\ bz[d] # "absent"
  /\ bz' = [bz EXCEPT ![d] = "absent"]
  /\ Signal(d, "removed")
  /\ UNCHANGED <<phase, snap, hidmap, client, kernel>>

-----------------------------------------------------------------------------
Construct ==
  \/ MonitorEnabled \/ FirstScan \/ RegisterProxy \/ GetManagedObjects
  \/ \E m \in snap : SnapshotAdded(m)
  \/ LoopRuns

WorldStep ==
  \E d \in Devs :
    \/ \E name \in Names : HidrawAdded(d, name)
    \/ HidrawRemoved(d)
    \/ \E transport \in {"none", "bt", "usb"} : InputChanged(d, transport)
    \/ \E props \in Known : DeviceAppears(d, props) \/ DeviceChanges(d, props)
    \/ DeviceVanishes(d)

Next == Construct \/ HandleSignal \/ UdevCallback \/ WorldStep

Spec == Init /\ [][Next]_vars

(* The constructor goes on, and the loop serves both queues.               *)
FairSpec == Spec /\ WF_vars(Construct) /\ WF_vars(HandleSignal) /\ WF_vars(UdevCallback)

-----------------------------------------------------------------------------
TypeOK ==
  /\ phase \in Phases
  /\ snap \subseteq [dev : Devs, props : Known]
  /\ hidmap \in [Devs -> Names \cup {None}]
  /\ devices \subseteq Devs /\ upower \subseteq Devs
  /\ reader \in Readers \cup {None}
  /\ bz \in [Devs -> Known \cup {"absent"}]
  /\ hid \in [Devs -> Names \cup {None}]
  /\ inp \in [Devs -> {"none", "bt", "usb"}]
  /\ dbusq \in Seq(Signals) /\ udevq \in Seq({"add", "remove"})
  /\ budget \in 0..MaxEvents

HasRemove(queue) == \E i \in 1..Len(queue) : queue[i] = "remove"

(* A remove event has still to be handled.                                 *)
RemovePending == HasRemove(udevq)

(* The reader reads nothing any more, or another controller.               *)
StaleReader == reader # None /\ reader.node # reader.dev

(* A reader of a vanished node, or one opened by a reused name for the     *)
(* wrong controller, never outlives the queued remove events: the callback *)
(* that drops it is still to come.                                         *)
NoStaleReader == phase = "running" /\ StaleReader => RemovePending

(* Why: nodes have different names, and a cached name that is not the      *)
(* controller's any more has a remove event on its way; before the monitor *)
(* runs nothing is cached.                                                 *)
ReaderInv ==
  /\ DistinctNames
  /\ \A d \in Devs : hidmap[d] # None /\ hidmap[d] # hid[d] => RemovePending
  /\ StaleReader => RemovePending
  /\ phase = "start" => reader = None /\ \A d \in Devs : hidmap[d] = None

(* With every signal handled, the client holds no device that BlueZ does   *)
(* not have, and no UPower client without its device: nothing removed      *)
(* between registration, snapshot and loop slips through.                  *)
MirrorDrained ==
  phase = "running" /\ dbusq = <<>> =>
    devices \subseteq {d \in Devs : bz[d] # "absent"} /\ upower \subseteq devices

(* The limits hold whatever is announced.                                  *)
WithinLimits == Cardinality(devices) <= MaxDevices /\ Cardinality(upower) <= MaxUPower

(* A stale reader is dropped in the end.                                   *)
StaleReaderDropped == StaleReader ~> ~StaleReader

(* "a udev "remove" handler retiring the reader for the device that just   *)
(* went away" (event_loop.h): only such a reader is retired.               *)
RetiresTheReaderOfTheDevice ==
  [][reader # None /\ reader' = None => reader.node = None]_vars

(* "add it on device arrival" (dual_sense.h): a controller that is and     *)
(* stays connected, known to the client and in its map is read in the end, *)
(* unless another one is.                                                  *)
ReaderOnArrival ==
  \A d \in Devs :
    <>[](d \in devices /\ bz[d] = "ready" /\ hidmap[d] # None) => []<>(reader # None)
=============================================================================
