----------------------- MODULE RemovableMonitorProofs -----------------------
(***************************************************************************)
(* Proofs about RemovableMonitor, for any paths and drives and for calls   *)
(* that fail or not.  Signals about one path are a history of its blocks;  *)
(* the argument only needs to know whether a removal is still queued.      *)
(***************************************************************************)
EXTENDS RemovableMonitor, TLAPS

(* The handlers are well typed.                                            *)
LEMMA JobType ==
  ASSUME NEW at \in {"drive", "watch", "block", "filesystem"}, NEW p \in Paths,
         NEW d \in Drives, NEW u \in BOOLEAN
  PROVE  Job(at, p, d, u) \in Jobs
BY DEF Job, Jobs

(* The handler of an announcement is well typed.                           *)
LEMMA AddedType ==
  ASSUME TypeOK, NEW p \in Paths, NEW d \in Drives \cup {None}, onInterfacesAdded(p, d)
  PROVE  job' \in Jobs \cup {Idle}
<1>1. CASE d = None
  BY <1>1 DEF onInterfacesAdded, TypeOK
<1>2. CASE d # None
  <2>1. job' = Job("drive", p, d, FALSE) /\ d \in Drives
    BY <1>2 DEF onInterfacesAdded, Start
  <2> QED
    BY <2>1, JobType
<1> QED
  BY <1>1, <1>2

(* A handler that waits is one with a path and a drive.                    *)
LEMMA BusyIsJob ==
  ASSUME TypeOK, job # Idle
  PROVE  job \in Jobs /\ job.path \in Paths /\ job.drive \in Drives
BY DEF TypeOK, Jobs

(* The place of no handler.                                                *)
LEMMA IdleIsIdle == Idle.at = "idle"
BY DEF Idle

(* The types of the daemon's state and of UDisks2 hold in every state.     *)
THEOREM MonitorTypeCorrect == Spec => []TypeOK
<1> USE MonitorAssumption DEF MonitorAssumption
<1>1. Init => TypeOK
  BY DEF Init, TypeOK
<1>2. TypeOK /\ [Next]_vars => TypeOK'
  <2> SUFFICES ASSUME TypeOK, [Next]_vars PROVE TypeOK'
    OBVIOUS
  <2>1. CASE RegisterProxy
    BY <2>1 DEF RegisterProxy, TypeOK, service
  <2>2. CASE GetManagedObjects
    <3>1. snap' \subseteq [path : Paths, drive : Drives \cup {None}]
      BY <2>2 DEF GetManagedObjects, TypeOK, Blocks
    <3> QED
      BY <2>2, <3>1 DEF GetManagedObjects, TypeOK, service
  <2>3. ASSUME NEW m \in snap, SnapshotAdded(m) PROVE TypeOK'
    <3>1. m.path \in Paths /\ m.drive \in Drives \cup {None}
      BY DEF TypeOK
    <3>2. job' \in Jobs \cup {Idle}
      BY <2>3, <3>1, AddedType DEF SnapshotAdded
    <3> QED
      BY <2>3, <3>2 DEF SnapshotAdded, TypeOK, service
  <2>4. CASE LoopRuns
    BY <2>4 DEF LoopRuns, TypeOK, service
  <2>5. CASE HandleSignal
    <3>1. Head(queue) \in Signals /\ queue' \in Seq(Signals)
      BY <2>5 DEF HandleSignal, TypeOK
    <3>2. Head(queue).path \in Paths /\ Head(queue).drive \in Drives \cup {None}
      BY <3>1 DEF Signals
    <3>3. watchers' \in [Paths -> Watchers \cup {None}]
      BY <2>5, <3>2 DEF HandleSignal, onInterfacesRemoved, TypeOK
    <3>4. job' \in Jobs \cup {Idle}
      <4>1. CASE onInterfacesAdded(Head(queue).path, Head(queue).drive)
        BY <3>2, <4>1, AddedType
      <4>2. CASE onPropertiesChanged(Head(queue).path)
        <5>1. CASE UNCHANGED job
          BY <5>1 DEF TypeOK
        <5>2. CASE ~UNCHANGED job
          <6>1. /\ job' = Job("block", Head(queue).path, watchers[Head(queue).path].drive, FALSE)
                /\ watchers[Head(queue).path] # None
            BY <4>2, <5>2 DEF onPropertiesChanged, Start
          <6>2. watchers[Head(queue).path].drive \in Drives
            BY <3>2, <6>1 DEF TypeOK, Watchers
          <6> QED
            BY <3>2, <6>1, <6>2, JobType
        <5> QED
          BY <5>1, <5>2
      <4>3. CASE UNCHANGED job
        BY <4>3 DEF TypeOK
      <4> QED
        BY <2>5, <4>1, <4>2, <4>3 DEF HandleSignal
    <3> QED
      BY <2>5, <3>1, <3>3, <3>4 DEF HandleSignal, TypeOK
  <2>6. CASE QueryDrive
    <3>1. job # Idle
      BY <2>6, IdleIsIdle DEF QueryDrive
    <3>2. job' \in Jobs \cup {Idle}
      BY <2>6, <3>1, BusyIsJob DEF QueryDrive, Job, Jobs
    <3> QED
      BY <2>6, <3>2 DEF QueryDrive, TypeOK, service
  <2>7. CASE RegisterWatcher
    <3>1. job # Idle
      BY <2>7, IdleIsIdle DEF RegisterWatcher
    <3>2. job' \in Jobs \cup {Idle}
      BY <2>7, <3>1, BusyIsJob DEF RegisterWatcher, Job, Jobs
    <3> QED
      BY <2>7, <3>2 DEF RegisterWatcher, TypeOK, service
  <2>8. CASE ReadBlock
    <3>1. job # Idle
      BY <2>8, IdleIsIdle DEF ReadBlock
    <3>2. job.path \in Paths /\ job.drive \in Drives
      BY <3>1, BusyIsJob
    <3>3. PICK ok \in Replies(block[job.path] # None) :
            IF ok THEN /\ job' = Job("filesystem", job.path, job.drive, block[job.path].usage)
                       /\ UNCHANGED watchers
                  ELSE Checked(FALSE)
      BY <2>8 DEF ReadBlock
    <3>4. ok => block[job.path] \in Blocks
      BY <3>2 DEF Replies, TypeOK
    <3>5. job' \in Jobs \cup {Idle} /\ watchers' \in [Paths -> Watchers \cup {None}]
      <4>1. CASE ok
        <5>1. block[job.path].usage \in BOOLEAN
          BY <3>4, <4>1 DEF Blocks
        <5> QED
          BY <3>2, <3>3, <4>1, <5>1, JobType DEF TypeOK
      <4>2. CASE ~ok
        <5>1. Checked(FALSE)
          BY <3>3, <4>2
        <5>2. [drive |-> job.drive, reported |-> FALSE] \in Watchers
          BY <3>2 DEF Watchers
        <5> QED
          BY <3>2, <5>1, <5>2 DEF Checked, TypeOK
      <4> QED
        BY <4>1, <4>2
    <3> QED
      BY <2>8, <3>5 DEF ReadBlock, TypeOK, service
  <2>9. CASE ReadFilesystem
    <3>1. job # Idle
      BY <2>9, IdleIsIdle DEF ReadFilesystem
    <3>2. job.path \in Paths /\ job.drive \in Drives /\ job.usage \in BOOLEAN
      BY <3>1, BusyIsJob DEF Jobs
    <3>3. PICK ok : Checked(job.usage \/ ok)
      BY <2>9 DEF ReadFilesystem
    <3>4. (job.usage \/ ok) \in BOOLEAN
      OBVIOUS
    <3>5. job' \in Jobs \cup {Idle} /\ watchers' \in [Paths -> Watchers \cup {None}]
      BY <3>2, <3>3, <3>4 DEF Checked, Watchers, TypeOK
    <3> QED
      BY <2>9, <3>5 DEF ReadFilesystem, TypeOK, service
  <2>10. ASSUME NEW d \in Drives, DriveChanges(d) PROVE TypeOK'
    BY <2>10 DEF DriveChanges, Event, TypeOK, daemon
  <2>11. ASSUME NEW p \in Paths, NEW b \in Blocks, BlockAppears(p, b) PROVE TypeOK'
    <3>1. [kind |-> "added", path |-> p, drive |-> b.drive] \in Signals
      BY DEF Signals, Kinds, Blocks
    <3>2. queue' \in Seq(Signals)
      BY <2>11, <3>1 DEF BlockAppears, Send, TypeOK
    <3> QED
      BY <2>11, <3>2 DEF BlockAppears, Event, TypeOK, daemon
  <2>12. ASSUME NEW p \in Paths, BlockVanishes(p) PROVE TypeOK'
    <3>1. [kind |-> "removed", path |-> p, drive |-> None] \in Signals
      BY DEF Signals, Kinds
    <3>2. queue' \in Seq(Signals)
      BY <2>12, <3>1 DEF BlockVanishes, Send, TypeOK
    <3> QED
      BY <2>12, <3>2 DEF BlockVanishes, Event, TypeOK, daemon
  <2>13. ASSUME NEW p \in Paths, UsageChanges(p) PROVE TypeOK'
    <3>1. [kind |-> "changed", path |-> p, drive |-> None] \in Signals
      BY DEF Signals, Kinds
    <3>2. queue' \in Seq(Signals)
      BY <2>13, <3>1 DEF UsageChanges, Send, TypeOK
    <3>3. block' \in [Paths -> Blocks \cup {None}]
      BY <2>13 DEF UsageChanges, TypeOK, Blocks
    <3> QED
      BY <2>13, <3>2, <3>3 DEF UsageChanges, Event, TypeOK, daemon
  <2>14. ASSUME NEW p \in Paths, FilesystemChanges(p) PROVE TypeOK'
    <3>1. [kind |-> "filesystem", path |-> p, drive |-> None] \in Signals
      BY DEF Signals, Kinds
    <3>2. queue' \in Seq(Signals)
      BY <2>14, <3>1 DEF FilesystemChanges, Send, TypeOK
    <3>3. block' \in [Paths -> Blocks \cup {None}]
      BY <2>14 DEF FilesystemChanges, TypeOK, Blocks
    <3> QED
      BY <2>14, <3>2, <3>3 DEF FilesystemChanges, Event, TypeOK, daemon
  <2>15. CASE UNCHANGED vars
    BY <2>15 DEF TypeOK, vars, service
  <2> QED
    BY <2>1, <2>2, <2>3, <2>4, <2>5, <2>6, <2>7, <2>8, <2>9, <2>10, <2>11, <2>12,
       <2>13, <2>14, <2>15 DEF Next, DaemonStep, ServiceStep
<1> QED
  BY <1>1, <1>2, PTL DEF Spec

-----------------------------------------------------------------------------
(* Queued signals are about paths.                                         *)
LEMMA QueuedSignal ==
  ASSUME NEW q \in Seq(Signals), NEW i \in 1..Len(q)
  PROVE  q[i] \in Signals /\ q[i].path \in Paths
<1>1. q[i] \in Signals
  OBVIOUS
<1> QED
  BY <1>1 DEF Signals

(* What a signal that arrives or is handled does to "a removal follows".   *)
LEMMA AppendRemovedAfter ==
  ASSUME NEW q \in Seq(Signals), NEW m \in Signals, NEW i \in Nat, NEW p \in Paths
  PROVE  RemovedAfter(q, i, p) => RemovedAfter(Append(q, m), i, p)
<1> SUFFICES ASSUME RemovedAfter(q, i, p) PROVE RemovedAfter(Append(q, m), i, p)
  OBVIOUS
<1>1. PICK j \in 1..Len(q) : j > i /\ q[j].kind = "removed" /\ q[j].path = p
  BY DEF RemovedAfter
<1>2. j \in 1..Len(Append(q, m)) /\ Append(q, m)[j] = q[j]
  OBVIOUS
<1> QED
  BY <1>1, <1>2 DEF RemovedAfter

(* A removal that arrives follows everything queued.                       *)
LEMMA AppendedRemoval ==
  ASSUME NEW q \in Seq(Signals), NEW m \in Signals, m.kind = "removed",
         NEW i \in 0..Len(q)
  PROVE  RemovedAfter(Append(q, m), i, m.path)
<1>1. Len(q) + 1 \in 1..Len(Append(q, m)) /\ Append(q, m)[Len(q) + 1] = m
  OBVIOUS
<1> QED
  BY <1>1 DEF RemovedAfter

(* Handling a signal shifts the queue.                                     *)
LEMMA TailRemovedAfter ==
  ASSUME NEW q \in Seq(Signals), q # <<>>, NEW i \in Nat, NEW p \in Paths
  PROVE  RemovedAfter(q, i + 1, p) => RemovedAfter(Tail(q), i, p)
<1> SUFFICES ASSUME RemovedAfter(q, i + 1, p) PROVE RemovedAfter(Tail(q), i, p)
  OBVIOUS
<1>1. PICK j \in 1..Len(q) : j > i + 1 /\ q[j].kind = "removed" /\ q[j].path = p
  BY DEF RemovedAfter
<1>2. j - 1 \in 1..Len(Tail(q)) /\ Tail(q)[j - 1] = q[j]
  BY <1>1
<1> QED
  BY SMTT(30), <1>1, <1>2 DEF RemovedAfter

(* Handling a signal that is no removal of p loses none.                   *)
LEMMA HeadRemovedAfter ==
  ASSUME NEW q \in Seq(Signals), q # <<>>, NEW p \in Paths,
         Head(q).kind # "removed" \/ Head(q).path # p
  PROVE  RemovedAfter(q, 0, p) => RemovedAfter(Tail(q), 0, p)
<1> SUFFICES ASSUME RemovedAfter(q, 0, p) PROVE RemovedAfter(q, 1, p)
  BY TailRemovedAfter
<1>1. PICK j \in 1..Len(q) : q[j].kind = "removed" /\ q[j].path = p
  BY DEF RemovedAfter
<1>2. j # 1
  BY <1>1
<1> QED
  BY <1>1, <1>2 DEF RemovedAfter

-----------------------------------------------------------------------------
(* The parts of WatcherInv.                                                *)
Truthful ==
  \A p \in Paths, d \in Drives \cup {None} :
    StandsFor(p, d) /\ ~RemovedAfter(queue, 0, p) => block[p] # None /\ block[p].drive = d

Announced ==
  \A i \in 1..Len(queue) :
    queue[i].kind = "added" /\ ~RemovedAfter(queue, i, queue[i].path) =>
      /\ block[queue[i].path] # None
      /\ block[queue[i].path].drive = queue[i].drive

OnlyRemovable ==
  /\ \A p \in Paths : watchers[p] # None => watchers[p].drive \in Removable
  /\ job.at \in {"watch", "block", "filesystem"} => job.drive \in Removable

Phased ==
  /\ phase = "start" => queue = <<>>
  /\ phase \in {"start", "registered"} =>
       job = Idle /\ \A p \in Paths : watchers[p] = None
  /\ phase # "snapshot" => snap = {}

(* WatcherInv is their conjunction.                                        *)
LEMMA WatcherInvParts == WatcherInv <=> Truthful /\ Announced /\ OnlyRemovable /\ Phased
BY DEF WatcherInv, Truthful, Announced, OnlyRemovable, Phased

(* A step that leaves the signals and the blocks alone keeps both          *)
(* statements about blocks if it lets nothing stand for a block that       *)
(* nothing stood for before.                                               *)
LEMMA QuietStep ==
  ASSUME Truthful, Announced, UNCHANGED <<block, queue>>,
         \A p \in Paths, d \in Drives \cup {None} :
           StandsFor(p, d)' /\ ~RemovedAfter(queue, 0, p) =>
             StandsFor(p, d) \/ (block[p] # None /\ block[p].drive = d)
  PROVE  Truthful' /\ Announced'
BY DEF Truthful, Announced

(* A signal about something else than a block's arrival or removal.        *)
LEMMA ReceiveKeeps ==
  ASSUME TypeOK, Truthful, Announced, NEW m \in Signals, m.kind # "added",
         UNCHANGED <<watchers, snap, job>>, queue' = queue \/ queue' = Append(queue, m),
         \A q \in Paths : block[q] # None => block'[q] # None /\ block'[q].drive = block[q].drive
  PROVE  Truthful' /\ Announced'
<1>1. queue \in Seq(Signals)
  BY DEF TypeOK
<1>2. ASSUME NEW i \in Nat, NEW q \in Paths
      PROVE  RemovedAfter(queue, i, q) => RemovedAfter(queue', i, q)
  BY <1>1, AppendRemovedAfter
<1>3. Truthful'
  BY <1>2 DEF Truthful, StandsFor
<1>4. Announced'
  <2> SUFFICES ASSUME NEW i \in 1..Len(queue'), queue'[i].kind = "added",
                      ~RemovedAfter(queue', i, queue'[i].path)
               PROVE  /\ block'[queue'[i].path] # None
                      /\ block'[queue'[i].path].drive = queue'[i].drive
    BY DEF Announced
  <2>1. i \in 1..Len(queue) /\ queue'[i] = queue[i]
    BY <1>1
  <2>2. queue[i].path \in Paths
    BY <1>1, <2>1, QueuedSignal
  <2>3. ~RemovedAfter(queue, i, queue[i].path)
    BY <1>2, <2>1, <2>2
  <2> QED
    BY <2>1, <2>2, <2>3 DEF Announced
<1> QED
  BY <1>3, <1>4

(* Before the daemon has subscribed nothing stands for a block.            *)
LEMMA UnsubscribedStep ==
  ASSUME Phased, phase = "start", UNCHANGED <<watchers, snap, job, queue>>
  PROVE  Truthful' /\ Announced'
<1>1. queue' = <<>> /\ snap' = {} /\ job' = Idle /\ \A p \in Paths : watchers'[p] = None
  BY DEF Phased
<1>2. Truthful'
  BY <1>1 DEF Truthful, StandsFor
<1>3. Announced'
  BY <1>1 DEF Announced
<1> QED
  BY <1>2, <1>3

(* A removal is queued behind everything that stands for the block.        *)
LEMMA VanishStep ==
  ASSUME TypeOK, Truthful, Announced, Phased, NEW p \in Paths, BlockVanishes(p)
  PROVE  Truthful' /\ Announced'
<1> DEFINE m == [kind |-> "removed", path |-> p, drive |-> None]
<1>1. CASE phase = "start"
  BY <1>1, UnsubscribedStep DEF BlockVanishes, Send, Subscribed, daemon
<1>2. CASE phase # "start"
  <2>1. queue \in Seq(Signals) /\ m \in Signals /\ m.kind = "removed" /\ m.path = p
    BY DEF TypeOK, Signals, Kinds
  <2>2. queue' = Append(queue, m) /\ UNCHANGED <<watchers, snap, job>>
    BY <1>2 DEF BlockVanishes, Send, Subscribed, daemon
  <2> HIDE DEF m
  <2>3. ASSUME NEW i \in Nat, NEW q \in Paths
        PROVE  RemovedAfter(queue, i, q) => RemovedAfter(queue', i, q)
    BY <2>1, <2>2, AppendRemovedAfter
  <2>4. ASSUME NEW i \in 0..Len(queue) PROVE RemovedAfter(queue', i, p)
    BY <2>1, <2>2, AppendedRemoval
  <2>5. \A q \in Paths : q # p => block'[q] = block[q]
    BY DEF BlockVanishes, TypeOK
  <2>6. Truthful'
    <3>1. RemovedAfter(queue', 0, p)
      BY <2>1, <2>4
    <3> QED
      BY <2>2, <2>3, <2>5, <3>1 DEF Truthful, StandsFor
  <2>7. Announced'
    <3> SUFFICES ASSUME NEW i \in 1..Len(queue'), queue'[i].kind = "added",
                        ~RemovedAfter(queue', i, queue'[i].path)
                 PROVE  /\ block'[queue'[i].path] # None
                        /\ block'[queue'[i].path].drive = queue'[i].drive
      BY DEF Announced
    <3>1. i \in 1..Len(queue) /\ queue'[i] = queue[i]
      BY <2>1, <2>2
    <3>2. queue[i].path \in Paths /\ queue[i].path # p
      BY <2>1, <2>4, <3>1, QueuedSignal
    <3>3. ~RemovedAfter(queue, i, queue[i].path)
      BY <2>3, <3>1, <3>2
    <3> QED
      BY <2>5, <3>1, <3>2, <3>3 DEF Announced
  <2> QED
    BY <2>6, <2>7
<1> QED
  BY <1>1, <1>2

(* A new block: nothing stood for it, and its announcement is the truth.   *)
LEMMA AppearStep ==
  ASSUME TypeOK, Truthful, Announced, Phased, NEW p \in Paths, NEW b \in Blocks,
         BlockAppears(p, b)
  PROVE  Truthful' /\ Announced'
<1> DEFINE m == [kind |-> "added", path |-> p, drive |-> b.drive]
<1>1. CASE phase = "start"
  BY <1>1, UnsubscribedStep DEF BlockAppears, Send, Subscribed, daemon
<1>2. CASE phase # "start"
  <2>1. queue \in Seq(Signals) /\ m \in Signals /\ m.path = p /\ m.drive = b.drive
    BY DEF TypeOK, Signals, Kinds, Blocks
  <2>2. queue' = Append(queue, m) /\ UNCHANGED <<watchers, snap, job>>
    BY <1>2 DEF BlockAppears, Send, Subscribed, daemon
  <2> HIDE DEF m
  <2>3. ASSUME NEW i \in Nat, NEW q \in Paths
        PROVE  RemovedAfter(queue, i, q) => RemovedAfter(queue', i, q)
    BY <2>1, <2>2, AppendRemovedAfter
  <2>4. /\ block[p] = None /\ block'[p] = b /\ b # None
        /\ \A q \in Paths : q # p => block'[q] = block[q]
    BY MonitorAssumption DEF BlockAppears, TypeOK, MonitorAssumption, Blocks
  <2>5. Truthful'
    BY <2>2, <2>3, <2>4 DEF Truthful, StandsFor
  <2>6. Announced'
    <3> SUFFICES ASSUME NEW i \in 1..Len(queue'), queue'[i].kind = "added",
                        ~RemovedAfter(queue', i, queue'[i].path)
                 PROVE  /\ block'[queue'[i].path] # None
                        /\ block'[queue'[i].path].drive = queue'[i].drive
      BY DEF Announced
    <3>1. CASE i \in 1..Len(queue)
      <4>1. queue'[i] = queue[i] /\ queue[i].path \in Paths
        BY <2>1, <2>2, <3>1, QueuedSignal
      <4>2. ~RemovedAfter(queue, i, queue[i].path)
        BY <2>3, <4>1
      <4> QED
        BY <2>4, <3>1, <4>1, <4>2 DEF Announced
    <3>2. CASE i = Len(queue) + 1
      <4>1. queue'[i] = m
        BY <2>1, <2>2, <3>2
      <4> QED
        BY <2>1, <2>4, <4>1
    <3> QED
      BY <2>1, <2>2, <3>1, <3>2
  <2> QED
    BY <2>5, <2>6
<1> QED
  BY <1>1, <1>2

(* The handler of one signal acts on what the signal still says.           *)
LEMMA SignalStep ==
  ASSUME TypeOK, Truthful, Announced, Phased, HandleSignal
  PROVE  Truthful' /\ Announced'
<1> DEFINE m == Head(queue)
<1>1. /\ queue \in Seq(Signals) /\ queue # <<>> /\ queue' = Tail(queue)
      /\ block' = block /\ snap' = {} /\ job = Idle
  BY DEF HandleSignal, TypeOK, Phased
<1>2. 1 \in 1..Len(queue) /\ queue[1] = m /\ m \in Signals /\ m.path \in Paths
  BY <1>1, QueuedSignal
<1>3. Announced'
  <2> SUFFICES ASSUME NEW i \in 1..Len(queue'), queue'[i].kind = "added",
                      ~RemovedAfter(queue', i, queue'[i].path)
               PROVE  /\ block[queue'[i].path] # None
                      /\ block[queue'[i].path].drive = queue'[i].drive
    BY <1>1 DEF Announced
  <2>1. i + 1 \in 1..Len(queue) /\ queue'[i] = queue[i + 1] /\ queue[i + 1].path \in Paths
    BY <1>1, QueuedSignal
  <2>2. ~RemovedAfter(queue, i + 1, queue[i + 1].path)
    BY <1>1, <2>1, TailRemovedAfter
  <2> QED
    BY <2>1, <2>2 DEF Announced
<1>4. ASSUME NEW q \in Paths, m.kind # "removed" \/ m.path # q
      PROVE  RemovedAfter(queue, 0, q) => RemovedAfter(queue', 0, q)
  BY <1>1, <1>4, HeadRemovedAfter
<1>5. Truthful'
  <2>1. CASE m.kind = "added"
    <3>1. watchers' = watchers /\ onInterfacesAdded(m.path, m.drive)
      BY <2>1 DEF HandleSignal
    <3>2. ASSUME ~RemovedAfter(queue', 0, m.path)
          PROVE  block[m.path] # None /\ block[m.path].drive = m.drive
      <4>1. ~RemovedAfter(queue, 1, m.path)
        BY <1>1, <1>2, <3>2, TailRemovedAfter
      <4> QED
        BY <1>2, <2>1, <4>1 DEF Announced
    <3>3. job' = Idle \/ job' = Job("drive", m.path, m.drive, FALSE)
      BY <1>1, <3>1 DEF onInterfacesAdded, Start
    <3>4. \A q \in Paths, d \in Drives \cup {None} :
            StandsFor(q, d)' => StandsFor(q, d) \/ (q = m.path /\ d = m.drive)
      <4> HIDE DEF m
      <4>1. CASE job' = Idle
        BY <1>1, <3>1, <4>1 DEF StandsFor
      <4>2. CASE job' = Job("drive", m.path, m.drive, FALSE)
        <5>1. job'.path = m.path /\ job'.drive = m.drive
          BY <4>2 DEF Job
        <5> QED
          BY <1>1, <3>1, <5>1 DEF StandsFor
      <4> QED
        BY <3>3, <4>1, <4>2
    <3> QED
      BY <1>1, <1>4, <2>1, <3>2, <3>4 DEF Truthful
  <2>2. CASE m.kind = "removed"
    <3>1. watchers' = [watchers EXCEPT ![m.path] = None] /\ job' = Idle
      BY <1>1, <2>2 DEF HandleSignal, onInterfacesRemoved
    <3>2. \A q \in Paths, d \in Drives \cup {None} :
            StandsFor(q, d)' => StandsFor(q, d) /\ q # m.path
      BY <1>1, <1>2, <3>1 DEF StandsFor, TypeOK
    <3> QED
      BY <1>1, <1>4, <3>2 DEF Truthful
  <2>3. CASE m.kind = "changed" \/ m.kind = "filesystem"
    <3>1. watchers' = watchers
      BY <2>3 DEF HandleSignal
    <3>2. \/ job' = Idle
          \/ /\ watchers[m.path] # None
             /\ job' = Job("block", m.path, watchers[m.path].drive, FALSE)
      BY <1>1, <2>3 DEF HandleSignal, onPropertiesChanged, Start
    <3>3. \A q \in Paths, d \in Drives \cup {None} : StandsFor(q, d)' => StandsFor(q, d)
      <4> HIDE DEF m
      <4>1. CASE job' = Idle
        BY <1>1, <3>1, <4>1 DEF StandsFor
      <4>2. CASE /\ watchers[m.path] # None
                 /\ job' = Job("block", m.path, watchers[m.path].drive, FALSE)
        <5>1. job'.path = m.path /\ job'.drive = watchers[m.path].drive
          BY <4>2 DEF Job
        <5> QED
          BY <1>1, <3>1, <4>2, <5>1 DEF StandsFor
      <4> QED
        BY <3>2, <4>1, <4>2
    <3> QED
      BY <1>1, <1>4, <2>3, <3>3 DEF Truthful
  <2> QED
    BY <1>2, <2>1, <2>2, <2>3 DEF Signals, Kinds
<1> QED
  BY <1>3, <1>5

(* Only removable drives are watched.                                      *)
LEMMA RemovableStep ==
  ASSUME TypeOK, OnlyRemovable, [Next]_vars
  PROVE  OnlyRemovable'
<1>1. ASSUME UNCHANGED <<watchers, job>> PROVE OnlyRemovable'
  BY <1>1 DEF OnlyRemovable
<1>2. ASSUME NEW m \in snap, SnapshotAdded(m) PROVE OnlyRemovable'
  BY <1>2 DEF SnapshotAdded, onInterfacesAdded, Start, Job, OnlyRemovable
<1>3. CASE HandleSignal
  <2>1. queue \in Seq(Signals) /\ queue # <<>>
    BY <1>3 DEF HandleSignal, TypeOK
  <2>2. Head(queue).path \in Paths
    BY <2>1, QueuedSignal
  <2>3. CASE UNCHANGED watchers
    BY <1>3, <2>2, <2>3 DEF HandleSignal, onInterfacesAdded, onPropertiesChanged, Start, Job,
       OnlyRemovable
  <2>4. CASE watchers' = onInterfacesRemoved(Head(queue).path) /\ UNCHANGED job
    BY <2>2, <2>4 DEF onInterfacesRemoved, OnlyRemovable, TypeOK
  <2> QED
    BY <1>3, <2>3, <2>4 DEF HandleSignal
<1>4. CASE QueryDrive
  BY <1>4 DEF QueryDrive, Watched, Job, Idle, OnlyRemovable
<1>5. CASE RegisterWatcher
  BY <1>5 DEF RegisterWatcher, Job, Idle, OnlyRemovable
<1>6. CASE ReadBlock \/ ReadFilesystem
  <2>1. job # Idle /\ job.drive \in Removable
    BY <1>6, IdleIsIdle DEF ReadBlock, ReadFilesystem, OnlyRemovable
  <2>2. job.path \in Paths
    BY <2>1, BusyIsJob
  <2>3. ASSUME NEW r, Checked(r) PROVE OnlyRemovable'
    BY <2>1, <2>2, <2>3, IdleIsIdle DEF Checked, OnlyRemovable, TypeOK
  <2>4. ASSUME NEW u, job' = Job("filesystem", job.path, job.drive, u), UNCHANGED watchers
        PROVE OnlyRemovable'
    BY <2>1, <2>4 DEF Job, OnlyRemovable
  <2> QED
    BY <1>6, <2>3, <2>4 DEF ReadBlock, ReadFilesystem
<1> QED
  BY <1>1, <1>2, <1>3, <1>4, <1>5, <1>6 DEF Next, DaemonStep, ServiceStep, RegisterProxy,
     GetManagedObjects, LoopRuns, DriveChanges, BlockAppears, BlockVanishes, UsageChanges,
     FilesystemChanges, daemon, vars

(* What the phases of the constructor exclude.                             *)
LEMMA PhasedStep ==
  ASSUME TypeOK, Phased, [Next]_vars
  PROVE  Phased'
<1>1. ASSUME UNCHANGED <<phase, snap, watchers, job>>, phase = "start" => UNCHANGED queue
      PROVE  Phased'
  BY <1>1 DEF Phased
<1>2. CASE RegisterProxy \/ GetManagedObjects \/ LoopRuns
  BY <1>2 DEF RegisterProxy, GetManagedObjects, LoopRuns, Phased
<1>3. ASSUME NEW m \in snap, SnapshotAdded(m) PROVE Phased'
  BY <1>3 DEF SnapshotAdded, Phased
<1>4. CASE HandleSignal
  BY <1>4 DEF HandleSignal, Phased
<1>5. CASE QueryDrive \/ RegisterWatcher \/ ReadBlock \/ ReadFilesystem
  <2>1. job # Idle /\ UNCHANGED <<phase, snap, queue>>
    BY <1>5, IdleIsIdle DEF QueryDrive, RegisterWatcher, ReadBlock, ReadFilesystem, service
  <2> QED
    BY <2>1 DEF Phased
<1>6. ASSUME NEW p \in Paths, UsageChanges(p) PROVE Phased'
  <2>1. phase = "start" => ~Watching(p)
    BY IdleIsIdle DEF Phased, Watching
  <2> QED
    BY <1>1, <1>6, <2>1 DEF UsageChanges, Send, daemon
<1>7. ASSUME NEW p \in Paths, BlockVanishes(p) \/ FilesystemChanges(p) PROVE Phased'
  BY <1>1, <1>7 DEF BlockVanishes, FilesystemChanges, Send, Subscribed, daemon
<1>8. ASSUME NEW p \in Paths, NEW b \in Blocks, BlockAppears(p, b) PROVE Phased'
  BY <1>1, <1>8 DEF BlockAppears, Send, Subscribed, daemon
<1>9. ASSUME NEW d \in Drives, DriveChanges(d) PROVE Phased'
  BY <1>1, <1>9 DEF DriveChanges, daemon
<1>10. CASE UNCHANGED vars
  BY <1>1, <1>10 DEF vars, service
<1> QED
  BY <1>2, <1>3, <1>4, <1>5, <1>6, <1>7, <1>8, <1>9, <1>10
     DEF Next, DaemonStep, ServiceStep

(* Waiting for replies lets nothing new stand for a block.                 *)
LEMMA JobStep ==
  ASSUME TypeOK, Truthful, Announced,
         QueryDrive \/ RegisterWatcher \/ ReadBlock \/ ReadFilesystem
  PROVE  Truthful' /\ Announced'
<1>1. job # Idle /\ UNCHANGED <<block, queue, snap>>
  BY IdleIsIdle DEF QueryDrive, RegisterWatcher, ReadBlock, ReadFilesystem, service
<1>2. job.path \in Paths /\ job.drive \in Drives
  BY <1>1, BusyIsJob
<1>3. \/ \E at, u : job' = Job(at, job.path, job.drive, u) /\ UNCHANGED watchers
      \/ job' = Idle /\ UNCHANGED watchers
      \/ \E r : Checked(r)
  BY DEF QueryDrive, RegisterWatcher, ReadBlock, ReadFilesystem
<1>4. \A p \in Paths, d \in Drives \cup {None} : StandsFor(p, d)' => StandsFor(p, d)
  <2>1. ASSUME NEW at, NEW u, job' = Job(at, job.path, job.drive, u), UNCHANGED watchers
        PROVE  \A p \in Paths, d \in Drives \cup {None} : StandsFor(p, d)' => StandsFor(p, d)
    <3>1. job'.path = job.path /\ job'.drive = job.drive
      BY <2>1 DEF Job
    <3> QED
      BY <1>1, <2>1, <3>1 DEF StandsFor
  <2>2. CASE job' = Idle /\ UNCHANGED watchers
    BY <1>1, <2>2 DEF StandsFor
  <2>3. ASSUME NEW r, Checked(r)
        PROVE  \A p \in Paths, d \in Drives \cup {None} : StandsFor(p, d)' => StandsFor(p, d)
    <3>1. job' = Idle /\ \A p \in Paths : p # job.path => watchers'[p] = watchers[p]
      BY <2>3 DEF Checked, TypeOK
    <3>2. watchers'[job.path].drive = job.drive
      BY <1>2, <2>3 DEF Checked, TypeOK
    <3> QED
      BY <1>1, <3>1, <3>2 DEF StandsFor
  <2> QED
    BY <1>3, <2>1, <2>2, <2>3
<1> QED
  BY <1>1, <1>4, QuietStep

(* Every step keeps what stands for blocks true to UDisks2.                *)
LEMMA TruthStep ==
  ASSUME TypeOK, Truthful, Announced, Phased, [Next]_vars
  PROVE  Truthful' /\ Announced'
<1>1. ASSUME UNCHANGED <<block, queue, watchers, snap, job>> PROVE Truthful' /\ Announced'
  BY <1>1, QuietStep DEF StandsFor
<1>2. CASE RegisterProxy \/ LoopRuns \/ UNCHANGED vars
  BY <1>1, <1>2 DEF RegisterProxy, LoopRuns, vars, service
<1>3. CASE GetManagedObjects
  <2>1. UNCHANGED <<block, queue, watchers, job>>
    BY <1>3 DEF GetManagedObjects, service
  <2>2. ASSUME NEW p \in Paths, NEW d \in Drives \cup {None},
               [path |-> p, drive |-> d] \in snap'
        PROVE  block[p] # None /\ block[p].drive = d
    BY <1>3, <2>2 DEF GetManagedObjects
  <2>3. \A p \in Paths, d \in Drives \cup {None} :
          StandsFor(p, d)' => StandsFor(p, d) \/ (block[p] # None /\ block[p].drive = d)
    BY <2>1, <2>2 DEF StandsFor
  <2> QED
    BY <2>1, <2>3, QuietStep
<1>4. ASSUME NEW m \in snap, SnapshotAdded(m) PROVE Truthful' /\ Announced'
  <2>1. UNCHANGED <<block, queue, watchers>> /\ snap' \subseteq snap /\ job = Idle
    BY <1>4 DEF SnapshotAdded, service
  <2>2. m.path \in Paths /\ m.drive \in Drives \cup {None}
        /\ m = [path |-> m.path, drive |-> m.drive]
    BY DEF TypeOK
  <2>3. StandsFor(m.path, m.drive)
    BY <2>2 DEF StandsFor
  <2>4. job' = Idle \/ job' = Job("drive", m.path, m.drive, FALSE)
    BY <1>4, <2>1 DEF SnapshotAdded, onInterfacesAdded, Start
  <2>5. job' # Idle => job'.path = m.path /\ job'.drive = m.drive
    BY <2>4 DEF Job
  <2>6. \A p \in Paths, d \in Drives \cup {None} : StandsFor(p, d)' => StandsFor(p, d)
    BY <2>1, <2>3, <2>5 DEF StandsFor
  <2> QED
    BY <2>1, <2>6, QuietStep
<1>5. CASE HandleSignal
  BY <1>5, SignalStep
<1>6. CASE QueryDrive \/ RegisterWatcher \/ ReadBlock \/ ReadFilesystem
  BY <1>6, JobStep
<1>7. ASSUME NEW d \in Drives, DriveChanges(d) PROVE Truthful' /\ Announced'
  BY <1>1, <1>7 DEF DriveChanges, daemon
<1>8. ASSUME NEW p \in Paths, NEW b \in Blocks, BlockAppears(p, b)
      PROVE Truthful' /\ Announced'
  BY <1>8, AppearStep
<1>9. ASSUME NEW p \in Paths, BlockVanishes(p) PROVE Truthful' /\ Announced'
  BY <1>9, VanishStep
<1>10. ASSUME NEW p \in Paths, UsageChanges(p) \/ FilesystemChanges(p)
       PROVE Truthful' /\ Announced'
  <2>1. UNCHANGED <<watchers, snap, job>>
    BY <1>10 DEF UsageChanges, FilesystemChanges, daemon
  <2>2. \A q \in Paths :
          block[q] # None => block'[q] # None /\ block'[q].drive = block[q].drive
    <3>1. block[p] \in Blocks /\ block \in [Paths -> Blocks \cup {None}]
      BY <1>10 DEF UsageChanges, FilesystemChanges, TypeOK
    <3>2. PICK u \in BOOLEAN, f \in BOOLEAN :
            block' = [block EXCEPT ![p] = [drive |-> block[p].drive, usage |-> u, fs |-> f]]
      BY <1>10, <3>1 DEF UsageChanges, FilesystemChanges, Blocks
    <3>3. [drive |-> block[p].drive, usage |-> u, fs |-> f] # None
      BY <3>1, MonitorAssumption DEF Blocks, MonitorAssumption
    <3> QED
      BY <3>1, <3>2, <3>3
  <2>3. PICK kind \in {"changed", "filesystem"} :
          \/ queue' = queue
          \/ queue' = Append(queue, [kind |-> kind, path |-> p, drive |-> None])
    BY <1>10 DEF UsageChanges, FilesystemChanges, Send
  <2>4. [kind |-> kind, path |-> p, drive |-> None] \in Signals
        /\ [kind |-> kind, path |-> p, drive |-> None].kind # "added"
    BY DEF Signals, Kinds
  <2> QED
    BY <2>1, <2>2, <2>3, <2>4, ReceiveKeeps
<1> QED
  BY <1>2, <1>3, <1>4, <1>5, <1>6, <1>7, <1>8, <1>9, <1>10
     DEF Next, DaemonStep, ServiceStep

(* What stands for a block is true to UDisks2 unless a removal is queued.  *)
THEOREM WatcherInvariant == Spec => []WatcherInv
<1>1. Init => WatcherInv
  BY IdleIsIdle DEF Init, WatcherInv, StandsFor
<1>2. TypeOK /\ WatcherInv /\ [Next]_vars => WatcherInv'
  <2> SUFFICES ASSUME TypeOK, WatcherInv, [Next]_vars PROVE WatcherInv'
    OBVIOUS
  <2>1. Truthful /\ Announced /\ OnlyRemovable /\ Phased
    BY WatcherInvParts
  <2>2. Truthful' /\ Announced' /\ OnlyRemovable' /\ Phased'
    BY <2>1, TruthStep, RemovableStep, PhasedStep
  <2> QED
    BY <2>2 DEF WatcherInv, Truthful, Announced, OnlyRemovable, Phased
<1> QED
  BY <1>1, <1>2, MonitorTypeCorrect, PTL DEF Spec

(* Once every signal is handled no watcher is left of a device that is     *)
(* gone, was replaced by another one or is not removable.                  *)
THEOREM NoGhosts == Spec => []NoGhostWatcher
<1>1. TypeOK /\ WatcherInv => NoGhostWatcher
  <2> SUFFICES ASSUME TypeOK, WatcherInv, Drained, NEW p \in Paths, watchers[p] # None
               PROVE  /\ block[p] # None /\ block[p].drive = watchers[p].drive
                      /\ watchers[p].drive \in Removable
    BY DEF NoGhostWatcher
  <2>1. ~RemovedAfter(queue, 0, p)
    BY DEF Drained, RemovedAfter
  <2>2. watchers[p].drive \in Drives /\ StandsFor(p, watchers[p].drive)
    BY DEF TypeOK, Watchers, StandsFor
  <2> QED
    BY <2>1, <2>2 DEF WatcherInv
<1> QED
  BY <1>1, WatcherInvariant, MonitorTypeCorrect, PTL

-----------------------------------------------------------------------------
(* The converse: nothing is overlooked, as long as no call fails.          *)

(* An announcement of the block at p on drive d that no removal follows.   *)
ComingIn(q, p, d) ==
  \E i \in 1..Len(q) : /\ q[i].kind = "added" /\ q[i].path = p /\ q[i].drive = d
                       /\ ~RemovedAfter(q, i, p)

(* The daemon has got at the block at p, or is about to enumerate it.      *)
Reached(p) ==
  \/ phase \in {"start", "registered"}
  \/ watchers[p] # None
  \/ [path |-> p, drive |-> block[p].drive] \in snap
  \/ job # Idle /\ job.path = p

(* A block of a removable drive is announced in the queue, or the daemon   *)
(* has reached it and has no removal to handle that would undo that.       *)
Wanted(p) == block[p] # None /\ block[p].drive \in Removable

Covered ==
  ~flaky => \A p \in Paths : Wanted(p) =>
    \/ ComingIn(queue, p, block[p].drive)
    \/ ~RemovedAfter(queue, 0, p) /\ Reached(p)

(* A change of IdUsage is still to be handled.                             *)
ChangeIn(q, p) == \E i \in 1..Len(q) : q[i].kind = "changed" /\ q[i].path = p

(* A block with a file system whose watcher has not reported it will be    *)
(* looked at again: a change is queued, or the handler at work has seen    *)
(* the file system or has still to look.                                   *)
LooksAgain(p) ==
  \/ ChangeIn(queue, p)
  \/ job.at = "block" /\ job.path = p
  \/ job.at = "filesystem" /\ job.path = p /\ job.usage

LookedAt(p) ==
  block[p] # None /\ block[p].usage /\ ~RemovedAfter(queue, 0, p) =>
    /\ watchers[p] # None /\ ~watchers[p].reported => LooksAgain(p)
    /\ job.at = "filesystem" /\ job.path = p => job.usage \/ ChangeIn(queue, p)

Looked == ~flaky => \A p \in Paths : LookedAt(p)

(* A signal that is not a removal of p adds none.                          *)
LEMMA AppendNoRemoval ==
  ASSUME NEW q \in Seq(Signals), NEW m \in Signals, NEW i \in Nat, NEW p,
         m.kind # "removed" \/ m.path # p, RemovedAfter(Append(q, m), i, p)
  PROVE  RemovedAfter(q, i, p)
<1>1. PICK j \in 1..Len(Append(q, m)) :
        j > i /\ Append(q, m)[j].kind = "removed" /\ Append(q, m)[j].path = p
  BY DEF RemovedAfter
<1>2. CASE j \in 1..Len(q)
  BY <1>1, <1>2 DEF RemovedAfter
<1>3. CASE j = Len(q) + 1
  <2>1. Append(q, m)[j] = m
    BY <1>3
  <2> QED
    BY <1>1, <2>1
<1> QED
  BY <1>2, <1>3

(* A removal in the rest of the queue was one place further back.          *)
LEMMA TailRemovedBack ==
  ASSUME NEW q \in Seq(Signals), q # <<>>, NEW i \in Nat, NEW p, RemovedAfter(Tail(q), i, p)
  PROVE  RemovedAfter(q, i + 1, p)
<1>1. PICK j \in 1..Len(Tail(q)) :
        j > i /\ Tail(q)[j].kind = "removed" /\ Tail(q)[j].path = p
  BY DEF RemovedAfter
<1>2. j + 1 \in 1..Len(q) /\ q[j + 1] = Tail(q)[j] /\ j + 1 > i + 1
  BY <1>1
<1> QED
  BY <1>1, <1>2 DEF RemovedAfter

(* An announcement stays when another signal arrives.                      *)
LEMMA AppendComing ==
  ASSUME NEW q \in Seq(Signals), NEW m \in Signals, NEW p, NEW d,
         m.kind # "removed" \/ m.path # p, ComingIn(q, p, d)
  PROVE  ComingIn(Append(q, m), p, d)
<1>1. PICK i \in 1..Len(q) : /\ q[i].kind = "added" /\ q[i].path = p /\ q[i].drive = d
                             /\ ~RemovedAfter(q, i, p)
  BY DEF ComingIn
<1>2. i \in 1..Len(Append(q, m)) /\ Append(q, m)[i] = q[i] /\ i \in Nat
  OBVIOUS
<1>3. ~RemovedAfter(Append(q, m), i, p)
  BY <1>1, <1>2, AppendNoRemoval
<1> QED
  BY <1>1, <1>2, <1>3 DEF ComingIn

(* An announcement that arrives has no removal behind it.                  *)
LEMMA AppendedComing ==
  ASSUME NEW q \in Seq(Signals), NEW m \in Signals, m.kind = "added"
  PROVE  ComingIn(Append(q, m), m.path, m.drive)
<1>1. Len(q) + 1 \in 1..Len(Append(q, m)) /\ Append(q, m)[Len(q) + 1] = m
  OBVIOUS
<1>2. ~RemovedAfter(Append(q, m), Len(q) + 1, m.path)
  BY DEF RemovedAfter
<1> QED
  BY <1>1, <1>2 DEF ComingIn

(* An announcement is handled, or stays in the rest of the queue.          *)
LEMMA TailComing ==
  ASSUME NEW q \in Seq(Signals), q # <<>>, NEW p \in Paths, NEW d, ComingIn(q, p, d)
  PROVE  \/ ComingIn(Tail(q), p, d)
         \/ /\ Head(q).kind = "added" /\ Head(q).path = p /\ Head(q).drive = d
            /\ ~RemovedAfter(Tail(q), 0, p)
<1>1. PICK i \in 1..Len(q) : /\ q[i].kind = "added" /\ q[i].path = p /\ q[i].drive = d
                             /\ ~RemovedAfter(q, i, p)
  BY DEF ComingIn
<1>2. CASE i = 1
  <2>1. ~RemovedAfter(q, 0 + 1, p)
    BY <1>1, <1>2
  <2>2. ~RemovedAfter(Tail(q), 0, p)
    BY <2>1, TailRemovedBack
  <2> QED
    BY <1>1, <1>2, <2>2
<1>3. CASE i # 1
  <2>1. i - 1 \in 1..Len(Tail(q)) /\ Tail(q)[i - 1] = q[i] /\ i - 1 \in Nat /\ (i - 1) + 1 = i
    BY <1>1, <1>3
  <2>2. ~RemovedAfter(Tail(q), i - 1, p)
    BY <1>1, <2>1, TailRemovedBack
  <2> QED
    BY <1>1, <2>1, <2>2 DEF ComingIn
<1> QED
  BY <1>2, <1>3

(* A queued change stays, or is handled.                                   *)
LEMMA AppendChange ==
  ASSUME NEW q \in Seq(Signals), NEW m \in Signals, NEW p, ChangeIn(q, p)
  PROVE  ChangeIn(Append(q, m), p)
<1>1. PICK i \in 1..Len(q) : q[i].kind = "changed" /\ q[i].path = p
  BY DEF ChangeIn
<1>2. i \in 1..Len(Append(q, m)) /\ Append(q, m)[i] = q[i]
  OBVIOUS
<1> QED
  BY <1>1, <1>2 DEF ChangeIn

LEMMA AppendedChange ==
  ASSUME NEW q \in Seq(Signals), NEW m \in Signals, m.kind = "changed"
  PROVE  ChangeIn(Append(q, m), m.path)
<1>1. Len(q) + 1 \in 1..Len(Append(q, m)) /\ Append(q, m)[Len(q) + 1] = m
  OBVIOUS
<1> QED
  BY <1>1 DEF ChangeIn

LEMMA TailChange ==
  ASSUME NEW q \in Seq(Signals), q # <<>>, NEW p, ChangeIn(q, p)
  PROVE  ChangeIn(Tail(q), p) \/ (Head(q).kind = "changed" /\ Head(q).path = p)
<1>1. PICK i \in 1..Len(q) : q[i].kind = "changed" /\ q[i].path = p
  BY DEF ChangeIn
<1>2. CASE i = 1
  BY <1>1, <1>2
<1>3. CASE i # 1
  <2>1. i - 1 \in 1..Len(Tail(q)) /\ Tail(q)[i - 1] = q[i]
    BY <1>1, <1>3
  <2> QED
    BY <1>1, <2>1 DEF ChangeIn
<1> QED
  BY <1>2, <1>3

-----------------------------------------------------------------------------
(* Drives outlive their blocks.                                            *)
LEMMA DrivesStep ==
  ASSUME TypeOK, DrivesOutliveBlocks, [Next]_vars
  PROVE  DrivesOutliveBlocks'
<1> USE MonitorAssumption DEF MonitorAssumption
<1>1. CASE UNCHANGED <<block, drives>>
  BY <1>1 DEF DrivesOutliveBlocks
<1>2. ASSUME NEW d \in Drives, DriveChanges(d) PROVE DrivesOutliveBlocks'
  BY <1>2 DEF DriveChanges, DrivesOutliveBlocks
<1>3. ASSUME NEW p \in Paths, NEW b \in Blocks, BlockAppears(p, b) PROVE DrivesOutliveBlocks'
  BY <1>3 DEF BlockAppears, DrivesOutliveBlocks, TypeOK
<1>4. ASSUME NEW p \in Paths, BlockVanishes(p) PROVE DrivesOutliveBlocks'
  BY <1>4 DEF BlockVanishes, DrivesOutliveBlocks, TypeOK
<1>5. ASSUME NEW p \in Paths, UsageChanges(p) \/ FilesystemChanges(p)
      PROVE DrivesOutliveBlocks'
  <2>1. block[p] # None /\ drives' = drives
    BY <1>5 DEF UsageChanges, FilesystemChanges
  <2>2. PICK u, f :
          block' = [block EXCEPT ![p] = [drive |-> block[p].drive, usage |-> u, fs |-> f]]
    BY <1>5 DEF UsageChanges, FilesystemChanges
  <2>3. /\ block'[p].drive = block[p].drive
        /\ \A q \in Paths : q # p => block'[q] = block[q]
    BY <2>2 DEF TypeOK
  <2> QED
    BY <2>1, <2>3 DEF DrivesOutliveBlocks
<1> QED
  BY <1>1, <1>2, <1>3, <1>4, <1>5 DEF Next, DaemonStep, ServiceStep, RegisterProxy,
     GetManagedObjects, SnapshotAdded, LoopRuns, HandleSignal, QueryDrive, RegisterWatcher,
     ReadBlock, ReadFilesystem, service, vars

(* A step of UDisks2 that leaves p and its removals alone.                 *)
LEMMA CoveredElsewhere ==
  ASSUME TypeOK, NEW p \in Paths, NEW m \in Signals, m.kind # "removed" \/ m.path # p,
         queue' = queue \/ queue' = Append(queue, m), UNCHANGED <<phase, snap, watchers, job>>,
         block[p] # None, block'[p].drive = block[p].drive,
         \/ ComingIn(queue, p, block[p].drive)
         \/ ~RemovedAfter(queue, 0, p) /\ Reached(p)
  PROVE  \/ ComingIn(queue', p, block'[p].drive)
         \/ ~RemovedAfter(queue', 0, p) /\ Reached(p)'
<1>1. queue \in Seq(Signals)
  BY DEF TypeOK
<1>2. CASE ComingIn(queue, p, block[p].drive)
  BY <1>1, <1>2, AppendComing
<1>3. CASE ~RemovedAfter(queue, 0, p) /\ Reached(p)
  <2>1. ~RemovedAfter(queue', 0, p)
    BY <1>1, <1>3, AppendNoRemoval
  <2>2. Reached(p)'
    BY <1>3 DEF Reached
  <2> QED
    BY <2>1, <2>2
<1> QED
  BY <1>2, <1>3

(* Handling an announcement of a block on a drive starts a handler for it. *)
LEMMA AddedStarts ==
  ASSUME NEW p, NEW d \in Drives, onInterfacesAdded(p, d)
  PROVE  job' = Job("drive", p, d, FALSE)
BY MonitorAssumption DEF onInterfacesAdded, Start, MonitorAssumption

(* A finished check leaves a watcher at its path and the others alone.     *)
LEMMA CheckedWatches ==
  ASSUME TypeOK, job # Idle, NEW r \in BOOLEAN, Checked(r)
  PROVE  /\ watchers'[job.path] = [drive |-> job.drive, reported |-> r]
         /\ watchers'[job.path] # None
         /\ \A q \in Paths : q # job.path => watchers'[q] = watchers[q]
         /\ job' = Idle
<1>1. job.path \in Paths /\ job.drive \in Drives
  BY BusyIsJob
<1>2. [drive |-> job.drive, reported |-> r] \in [drive : Drives, reported : BOOLEAN]
  BY <1>1
<1> QED
  BY <1>1, <1>2, MonitorAssumption DEF Checked, TypeOK, MonitorAssumption

(* ReadBlock and ReadFilesystem, by their outcome.                         *)
LEMMA LookOutcome ==
  ASSUME TypeOK, ReadBlock \/ ReadFilesystem
  PROVE  \/ \E r \in BOOLEAN : Checked(r)
         \/ \E u : job' = Job("filesystem", job.path, job.drive, u) /\ UNCHANGED watchers
<1>1. CASE ReadBlock
  BY <1>1 DEF ReadBlock
<1>2. CASE ReadFilesystem
  <2>1. job # Idle
    BY <1>2, IdleIsIdle DEF ReadFilesystem
  <2>2. job.usage \in BOOLEAN
    BY <2>1, BusyIsJob DEF Jobs
  <2>3. PICK ok \in Replies(block[job.path] # None /\ block[job.path].fs) :
          Checked(job.usage \/ ok)
    BY <1>2 DEF ReadFilesystem
  <2> QED
    BY <2>2, <2>3
<1> QED
  BY <1>1, <1>2

(* Every step of the daemon keeps hold of the blocks it has reached.       *)
LEMMA CoveredDaemonStep ==
  ASSUME TypeOK, Truthful, Phased, DrivesOutliveBlocks, Covered, DaemonStep
  PROVE  Covered'
<1> USE MonitorAssumption DEF MonitorAssumption
<1> SUFFICES ASSUME ~flaky, NEW p \in Paths, Wanted(p)
             PROVE  \/ ComingIn(queue', p, block[p].drive)
                    \/ ~RemovedAfter(queue', 0, p) /\ Reached(p)'
  <2>1. UNCHANGED <<block, flaky>>
    BY DEF DaemonStep, RegisterProxy, GetManagedObjects, SnapshotAdded, LoopRuns, HandleSignal,
       QueryDrive, RegisterWatcher, ReadBlock, ReadFilesystem, service
  <2> QED
    BY <2>1 DEF Covered, Wanted
<1> DEFINE d == block[p].drive
<1>0. /\ block[p] # None /\ d \in Removable /\ d \in Drives /\ d # None
      /\ queue \in Seq(Signals)
      /\ block' = block
  BY DEF Wanted, TypeOK, DaemonStep, RegisterProxy, GetManagedObjects, SnapshotAdded, LoopRuns,
     HandleSignal, QueryDrive, RegisterWatcher, ReadBlock, ReadFilesystem, service
<1>1. ComingIn(queue, p, d) \/ (~RemovedAfter(queue, 0, p) /\ Reached(p))
  BY DEF Covered
<1>2. CASE UNCHANGED queue /\ (Reached(p) => Reached(p)')
  BY <1>1, <1>2
<1>3. CASE RegisterProxy
  BY <1>2, <1>3 DEF RegisterProxy, Reached, service
<1>4. CASE GetManagedObjects
  <2>1. Reached(p)'
    BY <1>0, <1>4 DEF GetManagedObjects, Reached
  <2> QED
    BY <1>2, <1>4, <2>1 DEF GetManagedObjects, service
<1>5. ASSUME NEW m \in snap, SnapshotAdded(m)
      PROVE  UNCHANGED queue /\ (Reached(p) => Reached(p)')
  <2>1. /\ UNCHANGED <<queue, phase, watchers>> /\ job = Idle /\ snap' = snap \ {m}
        /\ onInterfacesAdded(m.path, m.drive)
    BY <1>5 DEF SnapshotAdded, service
  <2>2. CASE m = [path |-> p, drive |-> d]
    <3>1. job' = Job("drive", p, d, FALSE)
      BY <1>0, <2>1, <2>2, AddedStarts
    <3>2. job' # Idle /\ job'.path = p
      BY <3>1, IdleIsIdle DEF Job
    <3> QED
      BY <2>1, <3>2 DEF Reached
  <2>3. CASE m # [path |-> p, drive |-> d]
    BY <1>0, <2>1, <2>3 DEF Reached
  <2> QED
    BY <2>2, <2>3
<1>6. CASE LoopRuns
  BY <1>2, <1>6 DEF LoopRuns, Reached, service
<1>7. CASE HandleSignal
  <2> DEFINE m == Head(queue)
  <2>1. /\ queue # <<>> /\ queue' = Tail(queue) /\ phase = "running" /\ phase' = phase
        /\ snap = {} /\ snap' = {} /\ job = Idle
    BY <1>7 DEF HandleSignal, Phased
  <2>2. /\ m.kind = "removed" => watchers' = [watchers EXCEPT ![m.path] = None]
        /\ m.kind # "removed" => watchers' = watchers
        /\ m.kind = "added" => onInterfacesAdded(m.path, m.drive)
    BY <1>7 DEF HandleSignal, onInterfacesRemoved
  <2>3. CASE ComingIn(queue, p, d)
    <3>1. CASE ComingIn(Tail(queue), p, d)
      BY <2>1, <3>1
    <3>2. CASE /\ m.kind = "added" /\ m.path = p /\ m.drive = d
               /\ ~RemovedAfter(Tail(queue), 0, p)
      <4>1. job' = Job("drive", p, d, FALSE)
        BY <1>0, <2>2, <3>2, AddedStarts
      <4>2. job' # Idle /\ job'.path = p
        BY <4>1, IdleIsIdle DEF Job
      <4> QED
        BY <2>1, <3>2, <4>2 DEF Reached
    <3> QED
      BY <1>0, <2>1, <2>3, <3>1, <3>2, TailComing
  <2>4. CASE ~RemovedAfter(queue, 0, p) /\ Reached(p)
    <3>1. watchers[p] # None
      BY <2>1, <2>4 DEF Reached
    <3>2. ~(m.kind = "removed" /\ m.path = p)
      <4>1. 1 \in 1..Len(queue) /\ queue[1] = m
        BY <1>0, <2>1
      <4> QED
        BY <2>4, <4>1 DEF RemovedAfter
    <3>3. watchers'[p] # None
      BY <2>2, <3>1, <3>2 DEF TypeOK
    <3>4. ~RemovedAfter(queue', 0, p)
      <4>1. ~RemovedAfter(queue, 0 + 1, p)
        BY <2>4 DEF RemovedAfter
      <4> QED
        BY <1>0, <2>1, <4>1, TailRemovedBack
    <3> QED
      BY <3>3, <3>4 DEF Reached
  <2> QED
    BY <1>1, <2>3, <2>4
<1>8. CASE QueryDrive \/ RegisterWatcher \/ ReadBlock \/ ReadFilesystem
  <2>1. UNCHANGED <<queue, snap, phase>> /\ job # Idle
    BY <1>8, IdleIsIdle DEF QueryDrive, RegisterWatcher, ReadBlock, ReadFilesystem, service
  <2>2. job.path \in Paths /\ job.drive \in Drives
    BY <2>1, BusyIsJob
  <2>3. \A q \in Paths : watchers[q] # None => watchers'[q] # None
    <3>1. CASE QueryDrive \/ RegisterWatcher
      BY <3>1 DEF QueryDrive, RegisterWatcher
    <3>2. ASSUME NEW r \in BOOLEAN, Checked(r)
          PROVE  \A q \in Paths : watchers[q] # None => watchers'[q] # None
      BY <2>1, <3>2, CheckedWatches
    <3> QED
      BY <1>8, <3>1, <3>2, LookOutcome
  <2>4. CASE job.path # p
    <3>1. Reached(p) => Reached(p)'
      BY <1>0, <2>1, <2>3, <2>4 DEF Reached
    <3> QED
      BY <1>1, <2>1, <3>1
  <2>5. CASE RemovedAfter(queue, 0, p)
    BY <1>1, <2>1, <2>5
  <2>6. CASE job.path = p /\ ~RemovedAfter(queue, 0, p)
    <3>1. d = job.drive
      BY <2>1, <2>2, <2>6 DEF Truthful, StandsFor
    <3>2. CASE QueryDrive
      <4>1. job.drive \in drives
        BY <1>0, <3>1 DEF DrivesOutliveBlocks
      <4>2. Replies(job.drive \in drives) = {TRUE}
        BY <4>1 DEF Replies
      <4>3. watchers[p] # None \/ job' = Job("watch", job.path, job.drive, FALSE)
        BY <1>0, <2>6, <3>1, <3>2, <4>2 DEF QueryDrive, Watched
      <4>4. watchers'[p] # None \/ (job' # Idle /\ job'.path = p)
        BY <2>3, <2>6, <4>3, IdleIsIdle DEF Job
      <4> QED
        BY <2>1, <2>6, <4>4 DEF Reached
    <3>3. CASE RegisterWatcher
      <4>1. job' = Job("block", job.path, job.drive, FALSE)
        BY <3>3 DEF RegisterWatcher, Replies
      <4>2. job' # Idle /\ job'.path = p
        BY <2>6, <4>1, IdleIsIdle DEF Job
      <4> QED
        BY <2>1, <2>6, <4>2 DEF Reached
    <3>4. CASE ReadBlock \/ ReadFilesystem
      <4>1. ASSUME NEW r \in BOOLEAN, Checked(r) PROVE watchers'[p] # None
        BY <2>1, <2>6, <4>1, CheckedWatches
      <4>2. ASSUME NEW u, job' = Job("filesystem", job.path, job.drive, u)
            PROVE  job' # Idle /\ job'.path = p
        BY <2>6, <4>2, IdleIsIdle DEF Job
      <4>3. watchers'[p] # None \/ (job' # Idle /\ job'.path = p)
        BY <3>4, <4>1, <4>2, LookOutcome
      <4> QED
        BY <2>1, <2>6, <4>3 DEF Reached
    <3> QED
      BY <1>8, <3>2, <3>3, <3>4
  <2> QED
    BY <2>4, <2>5, <2>6
<1> QED
  BY <1>2, <1>3, <1>4, <1>5, <1>6, <1>7, <1>8 DEF DaemonStep

(* What UDisks2 does to one block and the signal it may send.              *)
LEMMA BlockEvent ==
  ASSUME TypeOK, NEW p \in Paths,
         \/ \E b \in Blocks : BlockAppears(p, b)
         \/ BlockVanishes(p) \/ UsageChanges(p) \/ FilesystemChanges(p)
  PROVE  /\ UNCHANGED <<phase, snap, watchers, job, flaky>>
         /\ \A q \in Paths : q # p => block'[q] = block[q]
         /\ \E m \in Signals : m.path = p /\ queue' \in {queue, Append(queue, m)}
<1>1. /\ UNCHANGED <<phase, snap, watchers, job, flaky>>
      /\ \A q \in Paths : q # p => block'[q] = block[q]
  BY DEF BlockAppears, BlockVanishes, UsageChanges, FilesystemChanges, daemon, TypeOK
<1>2. PICK kind \in Kinds, d \in Drives \cup {None} :
        queue' \in {queue, Append(queue, [kind |-> kind, path |-> p, drive |-> d])}
  BY DEF BlockAppears, BlockVanishes, UsageChanges, FilesystemChanges, Send, Kinds, Blocks
<1>3. [kind |-> kind, path |-> p, drive |-> d] \in Signals
      /\ [kind |-> kind, path |-> p, drive |-> d].path = p
  BY DEF Signals
<1> QED
  BY <1>1, <1>2, <1>3

(* Every step of UDisks2 announces the blocks it adds.                     *)
LEMMA CoveredServiceStep ==
  ASSUME TypeOK, Phased, Covered, ServiceStep
  PROVE  Covered'
<1> USE MonitorAssumption DEF MonitorAssumption
<1> DEFINE Held(q) == \/ ComingIn(queue, q, block[q].drive)
                      \/ ~RemovedAfter(queue, 0, q) /\ Reached(q)
<1>0. queue \in Seq(Signals)
  BY DEF TypeOK
<1>1. ASSUME NEW d \in Drives, DriveChanges(d) PROVE Covered'
  <2>1. UNCHANGED <<phase, snap, watchers, job, flaky, block, queue>>
    BY <1>1 DEF DriveChanges, daemon
  <2> QED
    BY <2>1 DEF Covered, Wanted, Reached
<1>2. ASSUME NEW p \in Paths,
             \/ \E b \in Blocks : BlockAppears(p, b)
             \/ BlockVanishes(p) \/ UsageChanges(p) \/ FilesystemChanges(p)
      PROVE  Covered'
  <2>1. /\ UNCHANGED <<phase, snap, watchers, job, flaky>>
        /\ \A q \in Paths : q # p => block'[q] = block[q]
    BY <1>2, BlockEvent
  <2>2. PICK m \in Signals : m.path = p /\ queue' \in {queue, Append(queue, m)}
    BY <1>2, BlockEvent
  <2> SUFFICES ASSUME ~flaky, NEW q \in Paths, Wanted(q)' PROVE Held(q)'
    BY <2>1 DEF Covered
  <2>3. CASE q # p
    <3>1. block'[q] = block[q] /\ block[q] # None /\ Held(q)
      BY <2>1, <2>3 DEF Covered, Wanted
    <3> QED
      BY <2>1, <2>2, <2>3, <3>1, CoveredElsewhere
  <2>4. ASSUME q = p, NEW b \in Blocks, BlockAppears(p, b) PROVE Held(q)'
    <3>1. block'[p] = b
      BY <2>4 DEF BlockAppears, TypeOK
    <3>2. CASE phase = "start"
      BY <2>1, <2>4, <3>2 DEF BlockAppears, Send, Subscribed, Phased, Reached, RemovedAfter
    <3>3. CASE phase # "start"
      <4> DEFINE n == [kind |-> "added", path |-> p, drive |-> b.drive]
      <4>1. n \in Signals /\ n.kind = "added" /\ n.path = p /\ n.drive = b.drive
        BY DEF Signals, Kinds, Blocks
      <4>2. queue' = Append(queue, n)
        BY <2>4, <3>3 DEF BlockAppears, Send, Subscribed
      <4> HIDE DEF n
      <4> QED
        BY <1>0, <2>4, <3>1, <4>1, <4>2, AppendedComing
    <3> QED
      BY <3>2, <3>3
  <2>5. CASE q = p /\ BlockVanishes(p)
    BY <2>5 DEF BlockVanishes, Wanted, TypeOK
  <2>6. CASE q = p /\ (UsageChanges(p) \/ FilesystemChanges(p))
    <3>1. block[p] # None /\ block'[p].drive = block[p].drive
      BY <2>6 DEF UsageChanges, FilesystemChanges, TypeOK
    <3>2. PICK kind \in {"changed", "filesystem"} :
            queue' \in {queue, Append(queue, [kind |-> kind, path |-> p, drive |-> None])}
      BY <2>6 DEF UsageChanges, FilesystemChanges, Send
    <3>3. [kind |-> kind, path |-> p, drive |-> None] \in Signals
          /\ [kind |-> kind, path |-> p, drive |-> None].kind # "removed"
      BY DEF Signals, Kinds
    <3>4. Held(p)
      BY <2>1, <2>6, <3>1 DEF Covered, Wanted
    <3> QED
      BY <2>1, <2>6, <3>1, <3>2, <3>3, <3>4, CoveredElsewhere
  <2> QED
    BY <1>2, <2>3, <2>4, <2>5, <2>6
<1> QED
  BY <1>1, <1>2 DEF ServiceStep

-----------------------------------------------------------------------------
(* A signal that arrives hides no look at a block that has not changed.    *)
LEMMA LookedElsewhere ==
  ASSUME TypeOK, NEW p \in Paths, NEW m \in Signals, LookedAt(p),
         queue' \in {queue, Append(queue, m)}, UNCHANGED <<watchers, job>>,
         block'[p] # None => block[p] # None /\ block'[p].usage = block[p].usage
  PROVE  LookedAt(p)'
<1>1. queue \in Seq(Signals)
  BY DEF TypeOK
<1>2. RemovedAfter(queue, 0, p) => RemovedAfter(queue', 0, p)
  BY <1>1, AppendRemovedAfter
<1>3. ChangeIn(queue, p) => ChangeIn(queue', p)
  BY <1>1, AppendChange
<1> QED
  BY <1>2, <1>3 DEF LookedAt, LooksAgain

(* A watcher or a handler at p with no removal queued is of a block.       *)
LEMMA HeldIsBlock ==
  ASSUME TypeOK, Truthful, NEW p \in Paths, ~RemovedAfter(queue, 0, p),
         watchers[p] # None \/ (job # Idle /\ job.path = p)
  PROVE  block[p] # None
<1>1. CASE watchers[p] # None
  <2>1. watchers[p].drive \in Drives /\ StandsFor(p, watchers[p].drive)
    BY <1>1 DEF TypeOK, Watchers, StandsFor
  <2> QED
    BY <2>1 DEF Truthful
<1>2. CASE job # Idle /\ job.path = p
  <2>1. job.drive \in Drives /\ StandsFor(p, job.drive)
    BY <1>2, BusyIsJob DEF StandsFor
  <2> QED
    BY <2>1 DEF Truthful
<1> QED
  BY <1>1, <1>2

(* Steps of UDisks2: a change of IdUsage that a watcher needs is queued.   *)
LEMMA LookedServiceStep ==
  ASSUME TypeOK, Truthful, Looked, ServiceStep
  PROVE  Looked'
<1>0. queue \in Seq(Signals)
  BY DEF TypeOK
<1>1. ASSUME NEW d \in Drives, DriveChanges(d) PROVE Looked'
  <2>1. UNCHANGED <<watchers, job, flaky, block, queue>>
    BY <1>1 DEF DriveChanges, daemon
  <2> QED
    BY <2>1 DEF Looked, LookedAt, LooksAgain
<1>2. ASSUME NEW p \in Paths,
             \/ \E b \in Blocks : BlockAppears(p, b)
             \/ BlockVanishes(p) \/ UsageChanges(p) \/ FilesystemChanges(p)
      PROVE  Looked'
  <2>1. /\ UNCHANGED <<watchers, job, flaky>>
        /\ \A q \in Paths : q # p => block'[q] = block[q]
    BY <1>2, BlockEvent
  <2>2. PICK m \in Signals : m.path = p /\ queue' \in {queue, Append(queue, m)}
    BY <1>2, BlockEvent
  <2> SUFFICES ASSUME ~flaky, NEW q \in Paths PROVE LookedAt(q)'
    BY <2>1 DEF Looked
  <2>3. LookedAt(q)
    BY DEF Looked
  <2>4. CASE q # p
    BY <2>1, <2>2, <2>3, <2>4, LookedElsewhere
  <2>5. ASSUME q = p, NEW b \in Blocks, BlockAppears(p, b) PROVE LookedAt(q)'
    <3>1. block[p] = None
      BY <2>5 DEF BlockAppears
    <3>2. RemovedAfter(queue, 0, p) => RemovedAfter(queue', 0, p)
      BY <1>0, <2>2, AppendRemovedAfter
    <3>3. job.at = "filesystem" => job # Idle
      BY IdleIsIdle
    <3>4. ~RemovedAfter(queue, 0, p) => watchers[p] = None /\ ~(job # Idle /\ job.path = p)
      BY <3>1, HeldIsBlock
    <3> QED
      BY <2>1, <2>5, <3>2, <3>3, <3>4 DEF LookedAt
  <2>6. CASE q = p /\ BlockVanishes(p)
    BY <2>6 DEF BlockVanishes, LookedAt, TypeOK
  <2>7. CASE q = p /\ UsageChanges(p)
    <3>1. CASE Watching(p)
      <4> DEFINE n == [kind |-> "changed", path |-> p, drive |-> None]
      <4>1. n \in Signals /\ n.kind = "changed" /\ n.path = p
        BY DEF Signals, Kinds
      <4>2. queue' = Append(queue, n)
        BY <2>7, <3>1 DEF UsageChanges, Send
      <4> HIDE DEF n
      <4>3. ChangeIn(queue', p)
        BY <1>0, <4>1, <4>2, AppendedChange
      <4> QED
        BY <2>7, <4>3 DEF LookedAt, LooksAgain
    <3>2. CASE ~Watching(p)
      BY <2>1, <2>7, <3>2 DEF Watching, LookedAt
    <3> QED
      BY <3>1, <3>2
  <2>8. CASE q = p /\ FilesystemChanges(p)
    <3>1. block[p] # None /\ block'[p].usage = block[p].usage
      BY <2>8 DEF FilesystemChanges, TypeOK
    <3> QED
      BY <2>1, <2>2, <2>3, <2>8, <3>1, LookedElsewhere
  <2> QED
    BY <1>2, <2>4, <2>5, <2>6, <2>7, <2>8
<1> QED
  BY <1>1, <1>2 DEF ServiceStep

(* Handling a signal: the change that is handled starts a look.            *)
LEMMA LookedSignalStep ==
  ASSUME TypeOK, HandleSignal, ~flaky, NEW p \in Paths, LookedAt(p)
  PROVE  LookedAt(p)'
<1> DEFINE m == Head(queue)
<1>1. /\ queue \in Seq(Signals) /\ queue # <<>> /\ queue' = Tail(queue)
      /\ block' = block /\ job = Idle
  BY DEF HandleSignal, TypeOK
<1>2. /\ m.kind = "removed" => watchers' = [watchers EXCEPT ![m.path] = None]
      /\ m.kind # "removed" => watchers' = watchers
      /\ m.kind = "added" => onInterfacesAdded(m.path, m.drive)
      /\ m.kind = "changed" => onPropertiesChanged(m.path)
      /\ m.kind \notin {"added", "changed"} => job' = Idle
  BY <1>1 DEF HandleSignal, onInterfacesRemoved
<1>3. job'.at # "filesystem"
  BY <1>1, <1>2, IdleIsIdle DEF onInterfacesAdded, onPropertiesChanged, Start, Job
<1>4. CASE m.kind = "removed" /\ m.path = p
  BY <1>2, <1>3, <1>4 DEF LookedAt, TypeOK
<1>5. CASE m.kind # "removed" \/ m.path # p
  <2>1. RemovedAfter(queue, 0, p) => RemovedAfter(queue', 0, p)
    BY <1>1, <1>5, HeadRemovedAfter
  <2>2. watchers'[p] = watchers[p]
    BY <1>2, <1>5 DEF TypeOK
  <2> SUFFICES ASSUME block[p] # None, block[p].usage, ~RemovedAfter(queue, 0, p),
                      watchers[p] # None, ~watchers[p].reported
               PROVE  LooksAgain(p)'
    BY <1>1, <1>3, <2>1, <2>2 DEF LookedAt
  <2>3. ChangeIn(queue, p)
    BY <1>1, IdleIsIdle DEF LookedAt, LooksAgain
  <2>4. CASE ChangeIn(Tail(queue), p)
    BY <1>1, <2>4 DEF LooksAgain
  <2>5. CASE m.kind = "changed" /\ m.path = p
    <3>1. job' = Job("block", p, watchers[p].drive, FALSE)
      BY <1>2, <2>5 DEF onPropertiesChanged, Start
    <3>2. job'.at = "block" /\ job'.path = p
      BY <3>1 DEF Job
    <3> QED
      BY <3>2 DEF LooksAgain
  <2> QED
    BY <1>1, <2>3, <2>4, <2>5, TailChange
<1> QED
  BY <1>4, <1>5

(* A look finds the file system of the block, or its change is queued.     *)
LEMMA LookedJobStep ==
  ASSUME TypeOK, ~flaky, NEW p \in Paths, LookedAt(p),
         QueryDrive \/ RegisterWatcher \/ ReadBlock \/ ReadFilesystem
  PROVE  LookedAt(p)'
<1>1. UNCHANGED <<queue, block>> /\ job # Idle
  BY IdleIsIdle DEF QueryDrive, RegisterWatcher, ReadBlock, ReadFilesystem, service
<1>2. job \in Jobs /\ job.path \in Paths
  BY <1>1, BusyIsJob
<1> SUFFICES ASSUME block[p] # None, block[p].usage, ~RemovedAfter(queue, 0, p)
             PROVE  /\ watchers'[p] # None /\ ~watchers'[p].reported => LooksAgain(p)'
                    /\ job'.at = "filesystem" /\ job'.path = p => job'.usage \/ ChangeIn(queue, p)
  BY <1>1 DEF LookedAt
<1>3. CASE QueryDrive \/ RegisterWatcher
  <2>1. watchers' = watchers /\ job.at \in {"drive", "watch"} /\ job'.at # "filesystem"
    <3>1. CASE QueryDrive
      <4>1. job' = Job("watch", job.path, job.drive, FALSE) \/ job' = Idle
        BY <3>1 DEF QueryDrive
      <4> QED
        BY <3>1, <4>1, IdleIsIdle DEF QueryDrive, Job
    <3>2. CASE RegisterWatcher
      <4>1. job' = Job("block", job.path, job.drive, FALSE) \/ job' = Idle
        BY <3>2 DEF RegisterWatcher
      <4> QED
        BY <3>2, <4>1, IdleIsIdle DEF RegisterWatcher, Job
    <3> QED
      BY <1>3, <3>1, <3>2
  <2>2. watchers[p] # None /\ ~watchers[p].reported => ChangeIn(queue, p)
    BY <2>1 DEF LookedAt, LooksAgain
  <2> QED
    BY <1>1, <2>1, <2>2 DEF LooksAgain
<1>4. CASE job.path # p /\ (ReadBlock \/ ReadFilesystem)
  <2>1. watchers'[p] = watchers[p] /\ (job' = Idle \/ job'.path # p)
    <3>1. ASSUME NEW r \in BOOLEAN, Checked(r)
          PROVE  watchers'[p] = watchers[p] /\ (job' = Idle \/ job'.path # p)
      BY <1>1, <1>4, <3>1, CheckedWatches
    <3>2. ASSUME NEW u, job' = Job("filesystem", job.path, job.drive, u), UNCHANGED watchers
          PROVE  watchers'[p] = watchers[p] /\ (job' = Idle \/ job'.path # p)
      BY <1>4, <3>2 DEF Job
    <3> QED
      BY <1>4, <3>1, <3>2, LookOutcome
  <2>2. watchers[p] # None /\ ~watchers[p].reported => ChangeIn(queue, p)
    BY <1>4 DEF LookedAt, LooksAgain
  <2>3. job'.at = "filesystem" => job' # Idle
    BY IdleIsIdle
  <2> QED
    BY <1>1, <2>1, <2>2, <2>3 DEF LooksAgain
<1>5. CASE job.path = p /\ ReadBlock
  <2>1. Replies(block[job.path] # None) = {TRUE}
    BY <1>5 DEF Replies
  <2>2. job' = Job("filesystem", job.path, job.drive, block[job.path].usage)
    BY <1>5, <2>1 DEF ReadBlock
  <2>3. job'.at = "filesystem" /\ job'.path = p /\ job'.usage
    BY <1>5, <2>2 DEF Job
  <2> QED
    BY <2>3 DEF LooksAgain
<1>6. CASE job.path = p /\ ReadFilesystem
  <2>1. job.usage \in BOOLEAN /\ job.at = "filesystem"
    BY <1>2, <1>6 DEF Jobs, ReadFilesystem
  <2>2. PICK r \in BOOLEAN : Checked(r) /\ (job.usage => r)
    BY <1>6, <2>1 DEF ReadFilesystem
  <2>3. job' = Idle /\ watchers'[p] = [drive |-> job.drive, reported |-> r]
    BY <1>1, <1>6, <2>2, CheckedWatches
  <2>4. watchers'[p].reported = r /\ job'.at # "filesystem"
    BY <2>3, IdleIsIdle
  <2>5. job.usage \/ ChangeIn(queue, p)
    BY <1>6, <2>1 DEF LookedAt
  <2> QED
    BY <1>1, <2>2, <2>4, <2>5 DEF LooksAgain
<1> QED
  BY <1>3, <1>4, <1>5, <1>6

(* The daemon's own steps.                                                 *)
LEMMA LookedDaemonStep ==
  ASSUME TypeOK, Looked, DaemonStep
  PROVE  Looked'
<1> SUFFICES ASSUME ~flaky, NEW p \in Paths, LookedAt(p) PROVE LookedAt(p)'
  <2>1. flaky' = flaky
    BY DEF DaemonStep, RegisterProxy, GetManagedObjects, SnapshotAdded, LoopRuns, HandleSignal,
       QueryDrive, RegisterWatcher, ReadBlock, ReadFilesystem
  <2> QED
    BY <2>1 DEF Looked
<1>1. CASE RegisterProxy \/ GetManagedObjects \/ LoopRuns
  BY <1>1 DEF RegisterProxy, GetManagedObjects, LoopRuns, service, LookedAt, LooksAgain
<1>2. ASSUME NEW m \in snap, SnapshotAdded(m) PROVE LookedAt(p)'
  <2>1. UNCHANGED <<watchers, block, queue>> /\ job = Idle
    BY <1>2 DEF SnapshotAdded, service
  <2>2. job'.at # "filesystem"
    BY <1>2, <2>1, IdleIsIdle DEF SnapshotAdded, onInterfacesAdded, Start, Job
  <2> QED
    BY <2>1, <2>2, IdleIsIdle DEF LookedAt, LooksAgain
<1>3. CASE HandleSignal
  BY <1>3, LookedSignalStep
<1>4. CASE QueryDrive \/ RegisterWatcher \/ ReadBlock \/ ReadFilesystem
  BY <1>4, LookedJobStep
<1> QED
  BY <1>1, <1>2, <1>3, <1>4 DEF DaemonStep

(* While no call fails, every block of a removable drive is announced or   *)
(* reached, and every watcher that has not reported its block's file       *)
(* system is going to look again.                                          *)
THEOREM NothingOverlooked == Spec => [](DrivesOutliveBlocks /\ Covered /\ Looked)
<1>1. Init => DrivesOutliveBlocks /\ Covered /\ Looked
  BY IdleIsIdle DEF Init, Covered, RemovedAfter, Reached, Looked, LookedAt
<1>2. /\ TypeOK /\ WatcherInv /\ [Next]_vars
      /\ DrivesOutliveBlocks /\ Covered /\ Looked
      => (DrivesOutliveBlocks /\ Covered /\ Looked)'
  <2> SUFFICES ASSUME TypeOK, WatcherInv, [Next]_vars, DrivesOutliveBlocks, Covered, Looked
               PROVE  (DrivesOutliveBlocks /\ Covered /\ Looked)'
    OBVIOUS
  <2>1. Truthful /\ Phased
    BY WatcherInvParts
  <2>2. DrivesOutliveBlocks'
    BY DrivesStep
  <2>3. CASE UNCHANGED vars
    BY <2>2, <2>3 DEF vars, service, Covered, Wanted, Reached, Looked, LookedAt, LooksAgain
  <2>4. CASE DaemonStep
    BY <2>1, <2>2, <2>4, CoveredDaemonStep, LookedDaemonStep
  <2>5. CASE ServiceStep
    BY <2>1, <2>2, <2>5, CoveredServiceStep, LookedServiceStep
  <2> QED
    BY <2>3, <2>4, <2>5 DEF Next
<1> QED
  BY <1>1, <1>2, MonitorTypeCorrect, WatcherInvariant, PTL DEF Spec

(* Once every signal is handled, and if no call failed, every block on a   *)
(* removable drive has a watcher, in whatever order the blocks came, went  *)
(* and were announced while handlers waited for replies.                   *)
THEOREM NothingMissed == Spec => []NoneMissed
<1>1. TypeOK /\ WatcherInv /\ Covered => NoneMissed
  <2> SUFFICES ASSUME TypeOK, WatcherInv, Covered, Drained, ~flaky, NEW p \in Paths, Wanted(p)
               PROVE  watchers[p] # None
    BY DEF NoneMissed, Wanted
  <2>1. ~ComingIn(queue, p, block[p].drive)
    BY DEF Drained, ComingIn
  <2>2. Reached(p)
    BY <2>1 DEF Covered
  <2> QED
    BY <2>2 DEF Reached, Drained, WatcherInv
<1> QED
  BY <1>1, NothingOverlooked, MonitorTypeCorrect, WatcherInvariant, PTL

(* Once every signal is handled, and if no call failed, no block whose     *)
(* IdUsage says file system is left unreported by its watcher.             *)
THEOREM ReadyIsReported == Spec => []ReadyReported
<1>1. TypeOK /\ WatcherInv /\ Looked => ReadyReported
  <2> SUFFICES ASSUME TypeOK, WatcherInv, Looked, Drained, ~flaky, NEW p \in Paths,
                      watchers[p] # None, block[p].usage, ~watchers[p].reported
               PROVE  FALSE
    BY DEF ReadyReported
  <2>1. ~RemovedAfter(queue, 0, p) /\ ~ChangeIn(queue, p) /\ job.at = "idle"
    BY IdleIsIdle DEF Drained, RemovedAfter, ChangeIn
  <2>2. block[p] # None
    BY <2>1, WatcherInvParts, HeldIsBlock
  <2> QED
    BY <2>1, <2>2 DEF Looked, LookedAt, LooksAgain
<1> QED
  BY <1>1, NothingOverlooked, MonitorTypeCorrect, WatcherInvariant, PTL
=============================================================================
