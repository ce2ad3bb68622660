-------------------------- MODULE RemovableMonitor --------------------------
(***************************************************************************)
(* The daemon of src/udisks2/udisks2_monitor_daemon.cc, which reports each *)
(* removable block device once it holds a file system.                     *)
(*                                                                         *)
(* Everything runs on the loop's thread, but handlers make synchronous     *)
(* calls: while one waits for its reply UDisks2 goes on, and the signals   *)
(* it sends queue up behind the handler.  A handler is therefore a job of  *)
(* several steps, one for each call; its outcome depends on the block that *)
(* has the path then, which need not be the one of the signal.             *)
(*                                                                         *)
(* Blocks are exported with their Drive property set and after the drive,  *)
(* which outlives them.  Interfaces other than Block, Filesystem and Drive *)
(* make the handlers return at once.                                       *)
(***************************************************************************)
EXTENDS Naturals, Sequences

CONSTANTS
  Paths,     \* object paths of block devices; a path is used again
  Drives,    \* object paths of drives
  Removable, \* the drives with the property Removable
  None,      \* no block, no watcher; the drive path "/"
  Flaky,     \* can calls fail although their object exists: sets of BOOLEAN
  MaxEvents  \* bound on what UDisks2 does

ASSUME MonitorAssumption ==
  /\ Removable \subseteq Drives
  /\ None \notin Drives
  /\ None \notin [drive : Drives \cup {None}, usage : BOOLEAN, fs : BOOLEAN]
  /\ None \notin [drive : Drives, reported : BOOLEAN]
  /\ Flaky \subseteq BOOLEAN
  /\ MaxEvents \in Nat

VARIABLES
  phase,    \* how far the constructor is; "running" in the event loop
  snap,     \* reply of GetManagedObjects still to be handled
  watchers, \* watchers_, with drive_path_ and reported_ of each
  job,      \* the handler that waits for a reply
  block,    \* UDisks2: the Block objects; usage is IdUsage = "filesystem"
  drives,   \* UDisks2: the Drive objects
  queue,    \* signals for the daemon
  flaky,    \* calls fail now and then
  budget    \* events left

service == <<block, drives, queue, budget>>
vars    == <<phase, snap, watchers, job, service, flaky>>

Blocks   == [drive : Drives \cup {None}, usage : BOOLEAN, fs : BOOLEAN]
Watchers == [drive : Drives, reported : BOOLEAN]
Kinds    == {"added", "removed", "changed", "filesystem"}
Signals  == [kind : Kinds, path : Paths, drive : Drives \cup {None}]
Jobs     == [at : {"drive", "watch", "block", "filesystem"}, path : Paths,
             drive : Drives, usage : BOOLEAN]
Idle     == [at |-> "idle"]

(* Blocks refer to drives that exist.                                      *)
DrivesOutliveBlocks ==
  \A p \in Paths : block[p] # None => block[p].drive \in drives \cup {None}

Init ==
  /\ phase = "start" /\ snap = {}
  /\ watchers = [p \in Paths |-> None] /\ job = Idle
  /\ block \in [Paths -> Blocks \cup {None}] /\ drives \in SUBSET Drives
  /\ DrivesOutliveBlocks
  /\ queue = <<>> /\ budget = MaxEvents
  /\ flaky \in Flaky

-----------------------------------------------------------------------------
(* Fault: signals are received only once the loop runs.                    *)
SubscribedLate == phase = "running"

(* The matches of the object manager's signals are installed.              *)
Subscribed == phase # "start"

(* Fault: a watcher looks first and registers afterwards.                  *)
WatchingLate(p) == watchers[p] # None

(* The matches of a watcher are installed before it looks at the block.    *)
Watching(p) ==
  \/ watchers[p] # None
  \/ job.at \in {"block", "filesystem"} /\ job.path = p

(* Outcomes of a call whose object exists or not.                          *)
Replies(exists) == {exists} \cup (IF flaky THEN {FALSE} ELSE {})

Job(at, p, d, usage) == [at |-> at, path |-> p, drive |-> d, usage |-> usage]
Start(at, p, d) == job' = Job(at, p, d, FALSE)

(* Fault: the drive path "/" is looked up too.                             *)
onInterfacesAddedAny(p, d) == Start("drive", p, d)

(* The Drive property of a block that is not "/" is looked up.             *)
onInterfacesAdded(p, d) == IF d = None THEN UNCHANGED job ELSE Start("drive", p, d)

-----------------------------------------------------------------------------
(* The constructor of RemovableDeviceMonitor.                              *)

RegisterProxy ==
  /\ phase = "start" /\ phase' = "registered"
  /\ UNCHANGED <<snap, watchers, job, service, flaky>>

GetManagedObjects ==
  /\ phase = "registered" /\ phase' = "snapshot"
  /\ snap' = {[path |-> p, drive |-> block[p].drive] : p \in {q \in Paths : block[q] # None}}
  /\ UNCHANGED <<watchers, job, service, flaky>>

SnapshotAdded(m) ==
  /\ phase = "snapshot" /\ job = Idle
  /\ snap' = snap \ {m}
  /\ onInterfacesAdded(m.path, m.drive)
  /\ UNCHANGED <<phase, watchers, service, flaky>>

LoopRuns ==
  /\ phase = "snapshot" /\ job = Idle /\ snap = {} /\ phase' = "running"
  /\ UNCHANGED <<snap, watchers, job, service, flaky>>

-----------------------------------------------------------------------------
(* Signals.                                                                *)

(* Fault: the watcher of a removed block is kept if it has reported.       *)
onInterfacesRemovedUnreported(p) ==
  IF watchers[p] # None /\ watchers[p].reported
  THEN watchers ELSE [watchers EXCEPT ![p] = None]

onInterfacesRemoved(p) == [watchers EXCEPT ![p] = None]

(* Fault: the watcher does not look again.                                 *)
onPropertiesChangedIgnored(p) == UNCHANGED job

(* IdUsage has changed.                                                    *)
onPropertiesChanged(p) ==
  IF watchers[p] # None /\ ~watchers[p].reported
  THEN Start("block", p, watchers[p].drive)
  ELSE UNCHANGED job

HandleSignal ==
  /\ phase = "running" /\ job = Idle
  /\ queue # <<>> /\ queue' = Tail(queue)
  /\ LET m == Head(queue)
     IN  \/ /\ m.kind = "added" /\ onInterfacesAdded(m.path, m.drive)
            /\ UNCHANGED watchers
         \/ /\ m.kind = "removed" /\ watchers' = onInterfacesRemoved(m.path)
            /\ UNCHANGED job
         \/ /\ m.kind = "changed" /\ onPropertiesChanged(m.path)
            /\ UNCHANGED watchers
         \/ m.kind = "filesystem" /\ UNCHANGED <<watchers, job>>
  /\ UNCHANGED <<phase, snap, block, drives, budget, flaky>>

-----------------------------------------------------------------------------
(* The rest of a handler.                                                  *)

(* Fault: whether the drive is removable is not looked at.                 *)
WatchedAny(d) == TRUE

Watched(d) == d \in Removable

(* GetAll on the drive: a failure or a fixed drive ends the handler, and   *)
(* so does a watcher that is already there.                                *)
QueryDrive ==
  /\ job.at = "drive"
  /\ \E ok \in Replies(job.drive \in drives) :
       job' = IF ok /\ Watched(job.drive) /\ watchers[job.path] = None
              THEN Job("watch", job.path, job.drive, FALSE) ELSE Idle
  /\ UNCHANGED <<phase, snap, watchers, service, flaky>>

(* The constructor of BlockDeviceWatcher; a failure is caught.             *)
RegisterWatcher ==
  /\ job.at = "watch"
  /\ \E ok \in Replies(TRUE) :
       job' = IF ok THEN Job("block", job.path, job.drive, FALSE) ELSE Idle
  /\ UNCHANGED <<phase, snap, watchers, service, flaky>>

(* checkAndReportIfReady() returns; the watcher is in the map.             *)
Checked(report) ==
  /\ watchers' = [watchers EXCEPT ![job.path] = [drive |-> job.drive, reported |-> report]]
  /\ job' = Idle

(* checkAndReportIfReady(): GetAll(Block) ...                              *)
ReadBlock ==
  /\ job.at = "block"
  /\ \E ok \in Replies(block[job.path] # None) :
       IF ok THEN /\ job' = Job("filesystem", job.path, job.drive, block[job.path].usage)
                  /\ UNCHANGED watchers
             ELSE Checked(FALSE)
  /\ UNCHANGED <<phase, snap, service, flaky>>

(* ... and GetAll(Filesystem), whose failure means that there is none.     *)
ReadFilesystem ==
  /\ job.at = "filesystem"
  /\ \E ok \in Replies(block[job.path] # None /\ block[job.path].fs) :
       Checked(job.usage \/ ok)
  /\ UNCHANGED <<phase, snap, service, flaky>>

-----------------------------------------------------------------------------
(* UDisks2.                                                                *)

daemon == <<phase, snap, watchers, job, flaky>>
Event  == budget > 0 /\ budget' = budget - 1

Send(received, kind, p, d) ==
  queue' = IF received THEN Append(queue, [kind |-> kind, path |-> p, drive |-> d])
                       ELSE queue

DriveChanges(d) ==
  /\ Event
  /\ \A p \in Paths : block[p] # None => block[p].drive # d
  /\ drives' = IF d \in drives THEN drives \ {d} ELSE drives \cup {d}
  /\ UNCHANGED <<daemon, block, queue>>

BlockAppears(p, b) ==
  /\ Event
  /\ block[p] = None /\ b.drive \in drives \cup {None}
  /\ block' = [block EXCEPT ![p] = b]
  /\ Send(Subscribed, "added", p, b.drive)
  /\ UNCHANGED <<daemon, drives>>

BlockVanishes(p) ==
  /\ Event
  /\ block[p] # None
  /\ block' = [block EXCEPT ![p] = None]
  /\ Send(Subscribed, "removed", p, None)
  /\ UNCHANGED <<daemon, drives>>

UsageChanges(p) ==
  /\ Event
  /\ block[p] # None
  /\ block' = [block EXCEPT ![p] =
                 [drive |-> block[p].drive, usage |-> ~block[p].usage, fs |-> block[p].fs]]
  /\ Send(Watching(p), "changed", p, None)
  /\ UNCHANGED <<daemon, drives>>

FilesystemChanges(p) ==
  /\ Event
  /\ block[p] # None
  /\ block' = [block EXCEPT ![p] =
                 [drive |-> block[p].drive, usage |-> block[p].usage, fs |-> ~block[p].fs]]
  /\ Send(Subscribed, "filesystem", p, None)
  /\ UNCHANGED <<daemon, drives>>

-----------------------------------------------------------------------------
DaemonStep ==
  \/ RegisterProxy \/ GetManagedObjects \/ LoopRuns
  \/ \E m \in snap : SnapshotAdded(m)
  \/ HandleSignal
  \/ QueryDrive \/ RegisterWatcher \/ ReadBlock \/ ReadFilesystem

ServiceStep ==
  \/ \E d \in Drives : DriveChanges(d)
  \/ \E p \in Paths : \/ \E b \in Blocks : BlockAppears(p, b)
                      \/ BlockVanishes(p)
                      \/ UsageChanges(p)
                      \/ FilesystemChanges(p)

Next == DaemonStep \/ ServiceStep

Spec == Init /\ [][Next]_vars

(* Calls return, with a reply or an error, and the loop serves the queue.  *)
FairSpec == Spec /\ WF_vars(DaemonStep)

-----------------------------------------------------------------------------
TypeOK ==
  /\ phase \in {"start", "registered", "snapshot", "running"}
  /\ snap \subseteq [path : Paths, drive : Drives \cup {None}]
  /\ watchers \in [Paths -> Watchers \cup {None}]
  /\ job \in Jobs \cup {Idle}
  /\ block \in [Paths -> Blocks \cup {None}]
  /\ drives \subseteq Drives
  /\ queue \in Seq(Signals)
  /\ flaky \in BOOLEAN /\ budget \in 0..MaxEvents

Drained == phase = "running" /\ job = Idle /\ queue = <<>>

(* With nothing left to handle, every watcher stands for a block UDisks2   *)
(* has, on the removable drive the watcher was made with: a path that was  *)
(* removed, or removed and used again, at whatever moment of the           *)
(* constructor or of a handler, leaves no watcher of the old device.       *)
NoGhostWatcher ==
  Drained => \A p \in Paths :
    watchers[p] # None =>
      block[p] # None /\ block[p].drive = watchers[p].drive /\ watchers[p].drive \in Removable

(* A signal in q after the i-th says that the block at p was removed.      *)
RemovedAfter(q, i, p) == \E j \in 1..Len(q) : j > i /\ q[j].kind = "removed" /\ q[j].path = p

(* What stands for the block at p: a watcher, an object of the snapshot    *)
(* that is still to be handled, the handler at work.                       *)
StandsFor(p, d) ==
  \/ watchers[p] # None /\ watchers[p].drive = d
  \/ [path |-> p, drive |-> d] \in snap
  \/ job # Idle /\ job.path = p /\ job.drive = d

(* Why there is no ghost: whatever stands for a block stands for the one   *)
(* UDisks2 has unless a removal is queued, and so does an announcement     *)
(* that no removal follows in the queue.                                   *)
WatcherInv ==
  /\ \A p \in Paths, d \in Drives \cup {None} :
       StandsFor(p, d) /\ ~RemovedAfter(queue, 0, p) => block[p] # None /\ block[p].drive = d
  /\ \A i \in 1..Len(queue) :
       queue[i].kind = "added" /\ ~RemovedAfter(queue, i, queue[i].path) =>
         /\ block[queue[i].path] # None
         /\ block[queue[i].path].drive = queue[i].drive
  /\ \A p \in Paths : watchers[p] # None => watchers[p].drive \in Removable
  /\ job.at \in {"watch", "block", "filesystem"} => job.drive \in Removable
  /\ phase = "start" => queue = <<>>
  /\ phase \in {"start", "registered"} =>
       job = Idle /\ \A p \in Paths : watchers[p] = None
  /\ phase # "snapshot" => snap = {}

(* With nothing left to handle and no call failed, every block of a        *)
(* removable drive has a watcher.                                          *)
NoneMissed ==
  Drained /\ ~flaky => \A p \in Paths :
    block[p] # None /\ block[p].drive \in Removable => watchers[p] # None

(* With nothing left to handle and no call failed, a block whose IdUsage   *)
(* says it holds a file system has been reported: none becomes ready       *)
(* between the look at it and the wait for its change.                     *)
ReadyReported ==
  Drained /\ ~flaky => \A p \in Paths :
    watchers[p] # None /\ block[p].usage => watchers[p].reported

(* A block that stays, on a removable drive and with a file system, is     *)
(* reported in the end.                                                    *)
ReportedInTheEnd ==
  \A p \in Paths :
    ~flaky /\ <>[](block[p] # None /\ block[p].drive \in Removable /\ block[p].usage)
      => <>[](watchers[p] # None /\ watchers[p].reported)
=============================================================================
