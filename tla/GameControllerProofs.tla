------------------------ MODULE GameControllerProofs ------------------------
(***************************************************************************)
(* Proofs about GameController, for any set of controllers, any node names *)
(* and any limits.  The reader is an argument about the udev queue: what   *)
(* the client caches is out of date for a controller only while the remove *)
(* event of its node is queued, and handling an event makes all of it up   *)
(* to date.  The devices are an argument about the order of the signals    *)
(* from BlueZ.                                                             *)
(***************************************************************************)
EXTENDS GameController, FiniteSetTheorems, TLAPS

Actions == {"add", "remove"}

(* A queued remove event stays queued when another event arrives.          *)
LEMMA AppendKeepsRemove ==
  ASSUME NEW q \in Seq(Actions), NEW a \in Actions, HasRemove(q)
  PROVE  HasRemove(Append(q, a))
<1>1. PICK i \in 1..Len(q) : q[i] = "remove"
  BY DEF HasRemove
<1>2. i \in 1..Len(Append(q, a)) /\ Append(q, a)[i] = "remove"
  BY <1>1
<1> QED
  BY <1>2 DEF HasRemove

(* A remove event that arrives is queued.                                  *)
LEMMA AppendedRemove ==
  ASSUME NEW q \in Seq(Actions)
  PROVE  HasRemove(Append(q, "remove"))
<1>1. Len(q) + 1 \in 1..Len(Append(q, "remove"))
  OBVIOUS
<1>2. Append(q, "remove")[Len(q) + 1] = "remove"
  OBVIOUS
<1> QED
  BY <1>1, <1>2 DEF HasRemove

(* Handling another event leaves a queued remove event queued.             *)
LEMMA TailKeepsRemove ==
  ASSUME NEW q \in Seq(Actions), q # <<>>, Head(q) # "remove", HasRemove(q)
  PROVE  HasRemove(Tail(q))
<1>1. PICK i \in 1..Len(q) : q[i] = "remove"
  BY DEF HasRemove
<1>2. i # 1
  BY <1>1
<1>3. i - 1 \in 1..Len(Tail(q)) /\ Tail(q)[i - 1] = "remove"
  BY <1>1, <1>2
<1> QED
  BY <1>3 DEF HasRemove

-----------------------------------------------------------------------------
(* What a scan returns is the controller's own node or nothing.            *)
LEMMA ScanIsOwn ==
  ASSUME NEW d \in Devs
  PROVE  Scan[d] \in {hid[d], None}
BY DEF Scan, get_hidraw_devices

(* A scan has the type of the map.                                         *)
LEMMA ScanType ==
  ASSUME TypeOK
  PROVE  Scan \in [Devs -> Names \cup {None}]
BY DEF Scan, get_hidraw_devices, TypeOK

(* A reader that results from opening a name is one of that name's node.   *)
LEMMA ReaderType ==
  ASSUME NEW d \in Devs, NEW name, NEW r \in InputReader(d, name)
  PROVE  \/ r = None
         \/ \E e \in Devs : hid[e] = name /\ r = [dev |-> d, node |-> e]
BY DEF InputReader

(* The handlers of Device1 objects keep the types of the client's state.   *)
LEMMA AddedType ==
  ASSUME TypeOK, NEW d \in Devs, NEW props \in Known, onDevice1Added(d, props)
  PROVE  devices' \subseteq Devs /\ upower' \subseteq Devs /\ reader' \in Readers \cup {None}
<1>1. CASE ~Accepted(d, props)
  BY <1>1 DEF onDevice1Added, TypeOK, client
<1>2. CASE Accepted(d, props)
  <2>1. devices' \subseteq Devs /\ upower' \subseteq Devs
    BY <1>2 DEF onDevice1Added, TypeOK
  <2>2. reader' \in Readers \cup {None}
    <3>1. CASE props = "ready" /\ hidmap[d] # None /\ reader = None
      <4>1. reader' \in InputReader(d, hidmap[d])
        BY <1>2, <3>1 DEF onDevice1Added
      <4> QED
        BY <4>1, ReaderType DEF Readers
    <3>2. CASE ~(props = "ready" /\ hidmap[d] # None /\ reader = None)
      BY <1>2, <3>2 DEF onDevice1Added, TypeOK
    <3> QED
      BY <3>1, <3>2
  <2> QED
    BY <2>1, <2>2
<1> QED
  BY <1>1, <1>2

(* So does the handler of a removal.                                       *)
LEMMA RemovedType ==
  ASSUME TypeOK, NEW d \in Devs, onDevice1Removed(d)
  PROVE  devices' \subseteq Devs /\ upower' \subseteq Devs /\ reader' \in Readers \cup {None}
BY DEF onDevice1Removed, TypeOK

(* The state of the client, of the kernel, of BlueZ and both queues have   *)
(* their types in every reachable state.                                   *)
THEOREM ControllerTypeCorrect == Spec => []TypeOK
<1> USE ControllerAssumption DEF ControllerAssumption
<1>1. Init => TypeOK
  BY DEF Init, TypeOK, Phases, Known
<1>2. TypeOK /\ [Next]_vars => TypeOK'
  <2> SUFFICES ASSUME TypeOK, [Next]_vars PROVE TypeOK'
    OBVIOUS
  <2>1. CASE MonitorEnabled
    BY <2>1 DEF MonitorEnabled, TypeOK, Phases, client, kernel, bus
  <2>2. CASE FirstScan
    BY <2>2, ScanType DEF FirstScan, TypeOK, Phases, client, kernel, bus
  <2>3. CASE RegisterProxy
    BY <2>3 DEF RegisterProxy, TypeOK, Phases, client, kernel, bus
  <2>4. CASE GetManagedObjects
    <3>1. snap' \subseteq [dev : Devs, props : Known]
      BY <2>4 DEF GetManagedObjects, TypeOK
    <3> QED
      BY <2>4, <3>1 DEF GetManagedObjects, TypeOK, Phases, client, kernel, bus
  <2>5. ASSUME NEW m \in snap, SnapshotAdded(m) PROVE TypeOK'
    <3>1. m.dev \in Devs /\ m.props \in Known
      BY DEF TypeOK
    <3>2. devices' \subseteq Devs /\ upower' \subseteq Devs /\ reader' \in Readers \cup {None}
      BY <2>5, <3>1, AddedType DEF SnapshotAdded
    <3> QED
      BY <2>5, <3>2 DEF SnapshotAdded, TypeOK, kernel, bus
  <2>6. CASE LoopRuns
    BY <2>6 DEF LoopRuns, TypeOK, Phases, client, kernel, bus
  <2>7. CASE HandleSignal
    <3>1. Head(dbusq) \in Signals /\ dbusq' \in Seq(Signals)
      BY <2>7 DEF HandleSignal, TypeOK
    <3>2. devices' \subseteq Devs /\ upower' \subseteq Devs /\ reader' \in Readers \cup {None}
      <4>1. CASE Head(dbusq).props = "removed"
        BY <2>7, <3>1, <4>1, RemovedType DEF HandleSignal, Signals
      <4>2. CASE Head(dbusq).props # "removed"
        BY <2>7, <3>1, <4>2, AddedType DEF HandleSignal, Signals
      <4> QED
        BY <4>1, <4>2
    <3> QED
      BY <2>7, <3>1, <3>2 DEF HandleSignal, TypeOK, kernel
  <2>8. CASE UdevCallback
    BY <2>8, ScanType DEF UdevCallback, TypeOK, ScanAfter, bus
  <2>9. ASSUME NEW d \in Devs, NEW name \in Names, HidrawAdded(d, name) PROVE TypeOK'
    BY <2>9 DEF HidrawAdded, Notify, TypeOK, client, bus
  <2>10. ASSUME NEW d \in Devs, HidrawRemoved(d) PROVE TypeOK'
    <3>1. reader' \in Readers \cup {None}
      BY <2>10 DEF HidrawRemoved, TypeOK, Readers
    <3> QED
      BY <2>10, <3>1 DEF HidrawRemoved, Notify, TypeOK, bus
  <2>11. ASSUME NEW d \in Devs, NEW t \in {"none", "bt", "usb"}, InputChanged(d, t)
         PROVE TypeOK'
    BY <2>11 DEF InputChanged, TypeOK, client, bus
  <2>12. ASSUME NEW d \in Devs, NEW p \in Known, DeviceAppears(d, p) PROVE TypeOK'
    <3>1. [dev |-> d, props |-> p] \in Signals
      BY DEF Signals
    <3>2. dbusq' \in Seq(Signals)
      BY <2>12, <3>1 DEF DeviceAppears, Signal, TypeOK
    <3> QED
      BY <2>12, <3>2 DEF DeviceAppears, TypeOK, client, kernel
  <2>13. ASSUME NEW d \in Devs, NEW p \in Known, DeviceChanges(d, p) PROVE TypeOK'
    BY <2>13 DEF DeviceChanges, TypeOK, client, kernel
  <2>14. ASSUME NEW d \in Devs, DeviceVanishes(d) PROVE TypeOK'
    <3>1. [dev |-> d, props |-> "removed"] \in Signals
      BY DEF Signals
    <3>2. dbusq' \in Seq(Signals)
      BY <2>14, <3>1 DEF DeviceVanishes, Signal, TypeOK
    <3> QED
      BY <2>14, <3>2 DEF DeviceVanishes, TypeOK, client, kernel
  <2>15. CASE UNCHANGED vars
    BY <2>15 DEF TypeOK, vars, client, kernel, bus
  <2> QED
    BY <2>1, <2>2, <2>3, <2>4, <2>5, <2>6, <2>7, <2>8, <2>9, <2>10, <2>11, <2>12,
       <2>13, <2>14, <2>15 DEF Next, Construct, WorldStep
<1> QED
  BY <1>1, <1>2, PTL DEF Spec

-----------------------------------------------------------------------------
(* A reader that onInterfacesAdded opens may be that of the wrong node,    *)
(* but only of one whose remove event is queued.                           *)
LEMMA AddedReader ==
  ASSUME TypeOK, ReaderInv, NEW d \in Devs, NEW props \in Known,
         onDevice1Added(d, props), UNCHANGED udevq
  PROVE  StaleReader' => RemovePending'
<1> USE ControllerAssumption DEF ControllerAssumption
<1>1. CASE reader' = reader
  BY <1>1 DEF ReaderInv, StaleReader, RemovePending
<1>2. CASE reader' # reader
  <2>1. hidmap[d] # None /\ reader' \in InputReader(d, hidmap[d])
    BY <1>2 DEF onDevice1Added, client
  <2>2. CASE reader' = None
    BY <2>2 DEF StaleReader
  <2>3. ASSUME NEW e \in Devs, hid[e] = hidmap[d], reader' = [dev |-> d, node |-> e]
        PROVE StaleReader' => RemovePending'
    <3>1. CASE e = d
      BY <2>3, <3>1 DEF StaleReader
    <3>2. CASE e # d
      <4>1. hid[d] # hidmap[d]
        BY <2>1, <2>3, <3>2 DEF ReaderInv, DistinctNames
      <4> QED
        BY <2>1, <4>1 DEF ReaderInv, RemovePending
    <3> QED
      BY <3>1, <3>2
  <2> QED
    BY <2>1, <2>2, <2>3, ReaderType
<1> QED
  BY <1>1, <1>2

(* Every step keeps the cached names and the reader covered by the queue.  *)
LEMMA ReaderStep ==
  ASSUME TypeOK, ReaderInv, [Next]_vars
  PROVE  ReaderInv'
<1> USE ControllerAssumption DEF ControllerAssumption
<1>1. CASE MonitorEnabled \/ RegisterProxy \/ GetManagedObjects \/ LoopRuns
  BY <1>1 DEF MonitorEnabled, RegisterProxy, GetManagedObjects, LoopRuns, ReaderInv,
     DistinctNames, RemovePending, StaleReader, client, kernel
<1>2. CASE FirstScan
  BY <1>2, ScanIsOwn DEF FirstScan, ReaderInv, DistinctNames, RemovePending, StaleReader,
     client, kernel
<1>3. ASSUME NEW m \in snap, SnapshotAdded(m) PROVE ReaderInv'
  <2>1. m.dev \in Devs /\ m.props \in Known
    BY DEF TypeOK
  <2>2. StaleReader' => RemovePending'
    BY <1>3, <2>1, AddedReader DEF SnapshotAdded, kernel
  <2> QED
    BY <1>3, <2>2 DEF SnapshotAdded, ReaderInv, DistinctNames, RemovePending, kernel
<1>4. CASE HandleSignal
  <2>1. Head(dbusq) \in Signals
    BY <1>4 DEF HandleSignal, TypeOK
  <2>2. StaleReader' => RemovePending'
    <3>1. CASE Head(dbusq).props = "removed"
      BY <1>4, <3>1 DEF HandleSignal, onDevice1Removed, ReaderInv, StaleReader,
         RemovePending, kernel
    <3>2. CASE Head(dbusq).props # "removed"
      BY <1>4, <2>1, <3>2, AddedReader DEF HandleSignal, Signals, kernel
    <3> QED
      BY <3>1, <3>2
  <2> QED
    BY <1>4, <2>2 DEF HandleSignal, ReaderInv, DistinctNames, RemovePending, kernel
<1>5. CASE UdevCallback
  <2>1. \A d \in Devs : hidmap'[d] \in {hid'[d], None}
    BY <1>5, ScanIsOwn DEF UdevCallback, ScanAfter
  <2>2. StaleReader' => RemovePending'
    <3>1. CASE Head(udevq) = "remove"
      BY <1>5, <3>1 DEF UdevCallback, RetiredBy, StaleReader
    <3>2. CASE Head(udevq) # "remove"
      <4>1. reader' = reader
        BY <1>5, <3>2 DEF UdevCallback, RetiredBy
      <4>2. RemovePending => RemovePending'
        BY <1>5, <3>2, TailKeepsRemove DEF UdevCallback, RemovePending, TypeOK, Actions
      <4> QED
        BY <4>1, <4>2 DEF ReaderInv, StaleReader
    <3> QED
      BY <3>1, <3>2
  <2> QED
    BY <1>5, <2>1, <2>2 DEF UdevCallback, ReaderInv, DistinctNames
<1>6. ASSUME NEW d \in Devs, NEW name \in Names, HidrawAdded(d, name) PROVE ReaderInv'
  <2>1. DistinctNames'
    BY <1>6 DEF HidrawAdded, ReaderInv, DistinctNames, TypeOK
  <2>2. RemovePending => RemovePending'
    BY <1>6, AppendKeepsRemove DEF HidrawAdded, Notify, RemovePending, TypeOK, Actions
  <2>3. \A e \in Devs : hidmap[e] # None /\ hidmap[e] # hid'[e] => hidmap[e] # hid[e]
    BY <1>6 DEF HidrawAdded, TypeOK
  <2> QED
    BY <1>6, <2>1, <2>2, <2>3 DEF HidrawAdded, ReaderInv, StaleReader, client
<1>7. ASSUME NEW d \in Devs, HidrawRemoved(d) PROVE ReaderInv'
  <2>1. DistinctNames'
    BY <1>7 DEF HidrawRemoved, ReaderInv, DistinctNames, TypeOK
  <2>2. CASE phase = "start"
    BY <1>7, <2>1, <2>2 DEF HidrawRemoved, ReaderInv, StaleReader
  <2>3. CASE phase # "start"
    <3>1. RemovePending'
      BY <1>7, <2>3, AppendedRemove DEF HidrawRemoved, Notify, Monitoring, RemovePending,
         TypeOK, Actions
    <3> QED
      BY <1>7, <2>1, <2>3, <3>1 DEF HidrawRemoved, ReaderInv
  <2> QED
    BY <2>2, <2>3
<1>8. ASSUME NEW d \in Devs, NEW t \in {"none", "bt", "usb"}, InputChanged(d, t)
      PROVE ReaderInv'
  BY <1>8 DEF InputChanged, ReaderInv, DistinctNames, RemovePending, StaleReader, client
<1>9. ASSUME NEW d \in Devs, NEW p \in Known,
             DeviceAppears(d, p) \/ DeviceChanges(d, p)
      PROVE ReaderInv'
  BY <1>9 DEF DeviceAppears, DeviceChanges, ReaderInv, DistinctNames, RemovePending,
     StaleReader, client, kernel
<1>10. ASSUME NEW d \in Devs, DeviceVanishes(d) PROVE ReaderInv'
  BY <1>10 DEF DeviceVanishes, ReaderInv, DistinctNames, RemovePending, StaleReader,
     client, kernel
<1>11. CASE UNCHANGED vars
  BY <1>11 DEF ReaderInv, DistinctNames, RemovePending, StaleReader, vars, client, kernel
<1> QED
  BY <1>1, <1>2, <1>3, <1>4, <1>5, <1>6, <1>7, <1>8, <1>9, <1>10, <1>11
     DEF Next, Construct, WorldStep

(* Nodes have distinct names, and neither a cached name nor the reader is  *)
(* out of date without a remove event on its way.                          *)
THEOREM ReaderInvariant == Spec => []ReaderInv
<1>1. Init => ReaderInv
  BY DEF Init, ReaderInv, StaleReader
<1>2. TypeOK /\ ReaderInv /\ [Next]_vars => ReaderInv'
  BY ReaderStep
<1> QED
  BY <1>1, <1>2, ControllerTypeCorrect, PTL DEF Spec

(* A reader that has hung up, or reads another controller than the one it  *)
(* was opened for, is about to be dropped by a queued udev event.          *)
THEOREM StaleReaderHasRemoval == Spec => []NoStaleReader
<1>1. ReaderInv => NoStaleReader
  BY DEF ReaderInv, NoStaleReader
<1> QED
  BY <1>1, ReaderInvariant, PTL

-----------------------------------------------------------------------------
(* A signal after the i-th in q says that BlueZ dropped the Device1 of d.  *)
RemovedAfter(q, i, d) ==
  \E j \in 1..Len(q) : j > i /\ q[j].dev = d /\ q[j].props = "removed"

(* What stands for a controller stands for one that BlueZ has, unless its  *)
(* removal is queued; an announcement is true unless a removal follows it; *)
(* nothing is received or held before the proxy is registered; and every   *)
(* UPower client has its device.                                           *)
Early == phase \in {"start", "monitored", "scanned", "registered"}

Held(d) == d \in devices \/ \E m \in snap : m.dev = d

MirrorInv ==
  /\ \A d \in Devs : Held(d) /\ ~RemovedAfter(dbusq, 0, d) => bz[d] # "absent"
  /\ \A i \in 1..Len(dbusq) : \A d \in Devs :
       dbusq[i].dev = d /\ dbusq[i].props # "removed" /\ ~RemovedAfter(dbusq, i, d) =>
         bz[d] # "absent"
  /\ Early => devices = {} /\ snap = {}
  /\ phase \in {"start", "monitored", "scanned"} => dbusq = <<>>
  /\ phase = "running" => snap = {}
  /\ upower \subseteq devices

(* What is removed stays removed when a signal arrives.                    *)
LEMMA AppendRemoved ==
  ASSUME NEW q \in Seq(Signals), NEW m \in Signals, NEW i \in Nat, NEW d,
         RemovedAfter(q, i, d)
  PROVE  RemovedAfter(Append(q, m), i, d)
<1>1. PICK j \in 1..Len(q) : j > i /\ q[j].dev = d /\ q[j].props = "removed"
  BY DEF RemovedAfter
<1>2. j \in 1..Len(Append(q, m)) /\ Append(q, m)[j] = q[j]
  OBVIOUS
<1> QED
  BY <1>1, <1>2 DEF RemovedAfter

(* A removal that arrives is behind everything in the queue.               *)
LEMMA AppendedRemoval ==
  ASSUME NEW q \in Seq(Signals), NEW d \in Devs, NEW i \in 0..Len(q)
  PROVE  RemovedAfter(Append(q, [dev |-> d, props |-> "removed"]), i, d)
<1> DEFINE m == [dev |-> d, props |-> "removed"]
<1>1. m \in Signals /\ m.dev = d /\ m.props = "removed"
  BY DEF Signals
<1> HIDE DEF m
<1>2. /\ Len(q) + 1 \in 1..Len(Append(q, m)) /\ Len(q) + 1 > i
      /\ Append(q, m)[Len(q) + 1] = m
  BY <1>1
<1>3. RemovedAfter(Append(q, m), i, d)
  BY <1>1, <1>2 DEF RemovedAfter
<1> QED
  BY <1>3 DEF m

(* Handling a signal moves the others up by one.                           *)
LEMMA TailRemoved ==
  ASSUME NEW q \in Seq(Signals), q # <<>>, NEW i \in Nat, NEW d,
         RemovedAfter(q, i + 1, d)
  PROVE  RemovedAfter(Tail(q), i, d)
<1>1. PICK j \in 1..Len(q) : j > i + 1 /\ q[j].dev = d /\ q[j].props = "removed"
  BY DEF RemovedAfter
<1>2. j - 1 \in 1..Len(Tail(q)) /\ Tail(q)[j - 1] = q[j] /\ j - 1 > i
  BY <1>1
<1> QED
  BY <1>1, <1>2 DEF RemovedAfter

(* Only the first signal is behind nothing and not behind itself.          *)
LEMMA HeadRemoved ==
  ASSUME NEW q \in Seq(Signals), q # <<>>, NEW d, RemovedAfter(q, 0, d)
  PROVE  (Head(q).dev = d /\ Head(q).props = "removed") \/ RemovedAfter(Tail(q), 0, d)
<1>1. PICK j \in 1..Len(q) : j > 0 /\ q[j].dev = d /\ q[j].props = "removed"
  BY DEF RemovedAfter
<1>2. CASE j = 1
  BY <1>1, <1>2
<1>3. CASE j # 1
  <2>1. RemovedAfter(q, 0 + 1, d)
    BY <1>1, <1>3 DEF RemovedAfter
  <2> QED
    BY <2>1, TailRemoved
<1> QED
  BY <1>2, <1>3

(* The handler of a Device1 object takes in that controller and no other.  *)
LEMMA AddedHolds ==
  ASSUME NEW d \in Devs, NEW props, onDevice1Added(d, props), upower \subseteq devices
  PROVE  devices' \subseteq devices \cup {d} /\ upower' \subseteq devices'
BY DEF onDevice1Added, client

(* Every step keeps what is held covered by BlueZ or by the queue.         *)
LEMMA MirrorStep ==
  ASSUME TypeOK, MirrorInv, [Next]_vars
  PROVE  MirrorInv'
<1> USE ControllerAssumption DEF ControllerAssumption
<1>0. dbusq \in Seq(Signals)
  BY DEF TypeOK
<1>1. CASE MonitorEnabled \/ FirstScan \/ RegisterProxy \/ LoopRuns
  BY <1>1 DEF MonitorEnabled, FirstScan, RegisterProxy, LoopRuns, MirrorInv, Early, Held,
     client, bus
<1>2. CASE GetManagedObjects
  <2>1. \A d \in Devs : Held(d)' => bz[d] # "absent"
    BY <1>2 DEF GetManagedObjects, MirrorInv, Early, Held, client
  <2> QED
    BY <1>2, <2>1 DEF GetManagedObjects, MirrorInv, Early, client, bus
<1>3. ASSUME NEW m \in snap, SnapshotAdded(m) PROVE MirrorInv'
  <2>1. m.dev \in Devs /\ upower \subseteq devices
    BY DEF TypeOK, MirrorInv
  <2>2. devices' \subseteq devices \cup {m.dev} /\ upower' \subseteq devices'
    BY <1>3, <2>1, AddedHolds DEF SnapshotAdded
  <2>3. \A d \in Devs : Held(d)' => Held(d)
    BY <1>3, <2>2 DEF SnapshotAdded, Held
  <2> QED
    BY <1>3, <2>2, <2>3 DEF SnapshotAdded, MirrorInv, Early, bus
<1>4. CASE HandleSignal
  <2> DEFINE m == Head(dbusq)
  <2>1. /\ m \in Signals /\ dbusq # <<>> /\ dbusq' = Tail(dbusq) /\ bz' = bz
        /\ phase = "running" /\ phase' = phase /\ snap = {} /\ snap' = {}
        /\ upower \subseteq devices
    BY <1>4 DEF HandleSignal, TypeOK, MirrorInv
  <2>2. ASSUME NEW i \in 1..Len(dbusq'), NEW d \in Devs, dbusq'[i].dev = d,
               dbusq'[i].props # "removed", ~RemovedAfter(dbusq', i, d)
        PROVE  bz'[d] # "absent"
    <3>1. i + 1 \in 1..Len(dbusq) /\ dbusq[i + 1] = dbusq'[i]
      BY <1>0, <2>1
    <3>2. ~RemovedAfter(dbusq, i + 1, d)
      BY <1>0, <2>1, <2>2, TailRemoved
    <3> QED
      BY <2>1, <2>2, <3>1, <3>2 DEF MirrorInv
  <2>3. CASE m.props = "removed"
    <3>1. devices' = devices \ {m.dev} /\ upower' \subseteq devices'
      BY <1>4, <2>1, <2>3 DEF HandleSignal, onDevice1Removed
    <3>2. ASSUME NEW d \in Devs, Held(d)', ~RemovedAfter(dbusq', 0, d)
          PROVE  bz'[d] # "absent"
      <4>1. d \in devices /\ d # m.dev
        BY <2>1, <3>1, <3>2 DEF Held
      <4>2. ~RemovedAfter(dbusq, 0, d)
        BY <1>0, <2>1, <3>2, <4>1, HeadRemoved
      <4> QED
        BY <2>1, <4>1, <4>2 DEF MirrorInv, Held
    <3> QED
      BY <2>1, <2>2, <3>1, <3>2 DEF MirrorInv, Early
  <2>4. CASE m.props # "removed"
    <3>1. onDevice1Added(m.dev, m.props) /\ m.dev \in Devs
      BY <1>4, <2>1, <2>4 DEF HandleSignal, Signals
    <3>2. devices' \subseteq devices \cup {m.dev} /\ upower' \subseteq devices'
      BY <2>1, <3>1, AddedHolds
    <3>3. ASSUME NEW d \in Devs, Held(d)', ~RemovedAfter(dbusq', 0, d)
          PROVE  bz'[d] # "absent"
      <4>1. CASE d \in devices
        <5>1. ~RemovedAfter(dbusq, 0, d)
          BY <1>0, <2>1, <2>4, <3>3, HeadRemoved
        <5> QED
          BY <2>1, <4>1, <5>1 DEF MirrorInv, Held
      <4>2. CASE d = m.dev
        <5>1. ~RemovedAfter(dbusq, 0 + 1, d)
          BY <1>0, <2>1, <3>3, TailRemoved
        <5>2. 1 \in 1..Len(dbusq) /\ dbusq[1] = m
          BY <1>0, <2>1
        <5> QED
          BY <2>1, <2>4, <4>2, <5>1, <5>2 DEF MirrorInv
      <4> QED
        BY <2>1, <3>2, <3>3, <4>1, <4>2 DEF Held
    <3> QED
      BY <2>1, <2>2, <3>2, <3>3 DEF MirrorInv, Early
  <2> QED
    BY <2>3, <2>4
<1>5. CASE UdevCallback
  BY <1>5 DEF UdevCallback, MirrorInv, Early, Held, bus
<1>6. ASSUME NEW d \in Devs, NEW name \in Names, HidrawAdded(d, name) PROVE MirrorInv'
  BY <1>6 DEF HidrawAdded, MirrorInv, Early, Held, client, bus
<1>7. ASSUME NEW d \in Devs, HidrawRemoved(d) PROVE MirrorInv'
  BY <1>7 DEF HidrawRemoved, MirrorInv, Early, Held, bus
<1>8. ASSUME NEW d \in Devs, NEW t \in {"none", "bt", "usb"}, InputChanged(d, t)
      PROVE MirrorInv'
  BY <1>8 DEF InputChanged, MirrorInv, Early, Held, client, bus
<1>9. ASSUME NEW d \in Devs, NEW p \in Known, DeviceAppears(d, p) PROVE MirrorInv'
  <2> DEFINE m == [dev |-> d, props |-> p]
  <2>1. m \in Signals
    BY DEF Signals
  <2>2. /\ dbusq' = dbusq \/ dbusq' = Append(dbusq, m)
        /\ phase \in {"start", "monitored", "scanned"} => dbusq' = dbusq
        /\ devices' = devices /\ snap' = snap /\ upower' = upower /\ phase' = phase
    BY <1>9 DEF DeviceAppears, Signal, Subscribed, client
  <2>3. \A e \in Devs : bz[e] # "absent" => bz'[e] # "absent"
    BY <1>9 DEF DeviceAppears, TypeOK, Known
  <2>4. bz'[d] # "absent"
    BY <1>9 DEF DeviceAppears, TypeOK, Known
  <2> HIDE DEF m
  <2>5. ASSUME NEW i \in Nat, NEW e, RemovedAfter(dbusq, i, e)
        PROVE  RemovedAfter(dbusq', i, e)
    BY <1>0, <2>1, <2>2, <2>5, AppendRemoved
  <2>6. ASSUME NEW i \in 1..Len(dbusq'), NEW e \in Devs, dbusq'[i].dev = e,
               dbusq'[i].props # "removed", ~RemovedAfter(dbusq', i, e)
        PROVE  bz'[e] # "absent"
    <3>1. CASE i \in 1..Len(dbusq)
      <4>1. dbusq'[i] = dbusq[i]
        BY <1>0, <2>1, <2>2, <3>1
      <4>2. ~RemovedAfter(dbusq, i, e)
        BY <1>0, <2>5, <2>6, <3>1
      <4> QED
        BY <2>3, <2>6, <3>1, <4>1, <4>2 DEF MirrorInv
    <3>2. CASE i \notin 1..Len(dbusq)
      <4>1. dbusq'[i] = m
        BY <1>0, <2>1, <2>2, <2>6, <3>2
      <4> QED
        BY <2>4, <2>6, <4>1 DEF m
    <3> QED
      BY <3>1, <3>2
  <2>7. \A e \in Devs : Held(e)' /\ ~RemovedAfter(dbusq', 0, e) => bz'[e] # "absent"
    BY <2>2, <2>3, <2>5 DEF MirrorInv, Held
  <2> QED
    BY <2>2, <2>6, <2>7 DEF MirrorInv, Early
<1>10. ASSUME NEW d \in Devs, NEW p \in Known, DeviceChanges(d, p) PROVE MirrorInv'
  <2>1. \A e \in Devs : bz[e] # "absent" => bz'[e] # "absent"
    BY <1>10 DEF DeviceChanges, TypeOK, Known
  <2> QED
    BY <1>10, <2>1 DEF DeviceChanges, MirrorInv, Early, Held, client
<1>11. ASSUME NEW d \in Devs, DeviceVanishes(d) PROVE MirrorInv'
  <2> DEFINE m == [dev |-> d, props |-> "removed"]
  <2>1. m \in Signals /\ m.props = "removed"
    BY DEF Signals
  <2>2. /\ devices' = devices /\ snap' = snap /\ upower' = upower /\ phase' = phase
        /\ \A e \in Devs \ {d} : bz'[e] = bz[e]
    BY <1>11 DEF DeviceVanishes, client, TypeOK
  <2>3. CASE ~Subscribed
    <3>1. dbusq' = dbusq /\ dbusq = <<>> /\ devices = {} /\ snap = {}
      BY <1>11, <2>3 DEF DeviceVanishes, Signal, Subscribed, MirrorInv, Early, TypeOK, Phases
    <3> QED
      BY <2>2, <3>1 DEF MirrorInv, Held, Early
  <2>4. CASE Subscribed
    <3>1. dbusq' = Append(dbusq, m)
      BY <1>11, <2>4 DEF DeviceVanishes, Signal
    <3>2. \A i \in 0..Len(dbusq) : RemovedAfter(dbusq', i, d)
      BY <1>0, <3>1, AppendedRemoval
    <3> HIDE DEF m
    <3>3. ASSUME NEW i \in Nat, NEW e, RemovedAfter(dbusq, i, e)
          PROVE  RemovedAfter(dbusq', i, e)
      BY <1>0, <2>1, <3>1, <3>3, AppendRemoved
    <3>4. ASSUME NEW i \in 1..Len(dbusq'), NEW e \in Devs, dbusq'[i].dev = e,
                 dbusq'[i].props # "removed", ~RemovedAfter(dbusq', i, e)
          PROVE  bz'[e] # "absent"
      <4>1. i \in 1..Len(dbusq) /\ dbusq'[i] = dbusq[i]
        BY <1>0, <2>1, <3>1, <3>4
      <4>2. e # d /\ ~RemovedAfter(dbusq, i, e)
        BY <3>2, <3>3, <3>4, <4>1
      <4> QED
        BY <2>2, <3>4, <4>1, <4>2 DEF MirrorInv
    <3>5. ASSUME NEW e \in Devs, Held(e)', ~RemovedAfter(dbusq', 0, e)
          PROVE  bz'[e] # "absent"
      <4>1. e # d /\ ~RemovedAfter(dbusq, 0, e)
        BY <1>0, <3>2, <3>3, <3>5
      <4> QED
        BY <2>2, <3>5, <4>1 DEF MirrorInv, Held
    <3> QED
      BY <2>2, <2>4, <3>4, <3>5 DEF MirrorInv, Early, Subscribed
  <2> QED
    BY <2>3, <2>4
<1>12. CASE UNCHANGED vars
  BY <1>12 DEF MirrorInv, Early, Held, vars, client, bus
<1> QED
  BY <1>1, <1>2, <1>3, <1>4, <1>5, <1>6, <1>7, <1>8, <1>9, <1>10, <1>11, <1>12
     DEF Next, Construct, WorldStep

(* Once every signal is handled the client holds no device that BlueZ does *)
(* not have, and no UPower client without its device, whatever came and    *)
(* went while the constructor ran.                                         *)
THEOREM DrainedMirrorIsTrue == Spec => []MirrorDrained
<1>1. Init => MirrorInv
  BY DEF Init, MirrorInv, Held, Early
<1>2. TypeOK /\ MirrorInv /\ [Next]_vars => MirrorInv'
  BY MirrorStep
<1>3. TypeOK /\ MirrorInv => MirrorDrained
  BY DEF MirrorInv, MirrorDrained, Held, RemovedAfter, TypeOK
<1> QED
  BY <1>1, <1>2, <1>3, ControllerTypeCorrect, PTL DEF Spec

-----------------------------------------------------------------------------
(* The limits, together with the finiteness that makes them countable.     *)
LimitInv == WithinLimits /\ IsFiniteSet(devices) /\ IsFiniteSet(upower)

(* A set grows by one only below its limit.                                *)
LEMMA RoomForOne ==
  ASSUME NEW S, IsFiniteSet(S), NEW limit \in Nat, Cardinality(S) <= limit, NEW d,
         ~IsAtCapacity(S, limit)
  PROVE  IsFiniteSet(S \cup {d}) /\ Cardinality(S \cup {d}) <= limit
<1>1. Cardinality(S) \in Nat
  BY FS_CardinalityType
<1>2. Cardinality(S) < limit
  BY <1>1 DEF IsAtCapacity
<1>3. IsFiniteSet(S \cup {d}) /\ Cardinality(S \cup {d}) \in {Cardinality(S), Cardinality(S) + 1}
  BY <1>1, FS_AddElement
<1> QED
  BY <1>1, <1>2, <1>3

(* Nor does it grow by losing an element.                                  *)
LEMMA RoomAfterLoss ==
  ASSUME NEW S, IsFiniteSet(S), NEW limit \in Nat, Cardinality(S) <= limit, NEW d
  PROVE  IsFiniteSet(S \ {d}) /\ Cardinality(S \ {d}) <= limit
<1>1. /\ IsFiniteSet(S \ {d}) /\ Cardinality(S \ {d}) <= Cardinality(S)
      /\ Cardinality(S \ {d}) \in Nat /\ Cardinality(S) \in Nat
  BY FS_Subset, FS_CardinalityType
<1> QED
  BY <1>1

(* Both handlers keep the limits.                                          *)
LEMMA AddedWithin ==
  ASSUME LimitInv, NEW d, NEW props, onDevice1Added(d, props)
  PROVE  LimitInv'
<1> USE ControllerAssumption DEF ControllerAssumption
<1>1. CASE ~Accepted(d, props)
  BY <1>1 DEF onDevice1Added, client, LimitInv, WithinLimits
<1>2. CASE Accepted(d, props)
  <2>0. /\ devices' = devices \cup {d} /\ ~IsAtCapacity(devices, MaxDevices)
        /\ upower' = IF IsAtCapacity(upower, MaxUPower) THEN upower ELSE upower \cup {d}
    BY <1>2 DEF onDevice1Added, Accepted
  <2>1. IsFiniteSet(devices') /\ Cardinality(devices') <= MaxDevices
    BY <2>0, RoomForOne DEF LimitInv, WithinLimits
  <2>2. IsFiniteSet(upower') /\ Cardinality(upower') <= MaxUPower
    BY <2>0, RoomForOne DEF LimitInv, WithinLimits
  <2> QED
    BY <2>1, <2>2 DEF LimitInv, WithinLimits
<1> QED
  BY <1>1, <1>2

LEMMA RemovedWithin ==
  ASSUME LimitInv, NEW d, onDevice1Removed(d)
  PROVE  LimitInv'
<1> USE ControllerAssumption DEF ControllerAssumption
<1>1. IsFiniteSet(devices') /\ Cardinality(devices') <= MaxDevices
  BY RoomAfterLoss DEF onDevice1Removed, LimitInv, WithinLimits
<1>2. IsFiniteSet(upower') /\ Cardinality(upower') <= MaxUPower
  BY RoomAfterLoss DEF onDevice1Removed, LimitInv, WithinLimits
<1> QED
  BY <1>1, <1>2 DEF LimitInv, WithinLimits

(* kMaxDevices and kMaxUPowerClients hold whatever BlueZ announces, for    *)
(* every limit and any number of controllers.                              *)
THEOREM LimitsHold == Spec => []WithinLimits
<1> USE ControllerAssumption DEF ControllerAssumption
<1>1. Init => LimitInv
  BY FS_EmptySet DEF Init, LimitInv, WithinLimits
<1>2. LimitInv /\ [Next]_vars => LimitInv'
  <2> SUFFICES ASSUME LimitInv, [Next]_vars PROVE LimitInv'
    OBVIOUS
  <2>1. ASSUME NEW m \in snap, SnapshotAdded(m) PROVE LimitInv'
    BY <2>1, AddedWithin DEF SnapshotAdded
  <2>2. CASE HandleSignal
    BY <2>2, AddedWithin, RemovedWithin DEF HandleSignal
  <2>3. CASE UNCHANGED <<devices, upower>>
    BY <2>3 DEF LimitInv, WithinLimits
  <2>4. \/ \E m \in snap : SnapshotAdded(m)
        \/ HandleSignal
        \/ UNCHANGED <<devices, upower>>
    BY DEF Next, Construct, WorldStep, MonitorEnabled, FirstScan, RegisterProxy,
       GetManagedObjects, LoopRuns, UdevCallback, HidrawAdded, HidrawRemoved, InputChanged,
       DeviceAppears, DeviceChanges, DeviceVanishes, vars, client
  <2> QED
    BY <2>1, <2>2, <2>3, <2>4
<1>3. LimitInv => WithinLimits
  BY DEF LimitInv
<1> QED
  BY <1>1, <1>2, <1>3, PTL DEF Spec
=============================================================================
