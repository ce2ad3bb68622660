------------------------------ MODULE EventLoop ------------------------------
(***************************************************************************)
(* The single-threaded event loop of src/utils/event_loop.{h,cc}.          *)
(*                                                                         *)
(* One thread executes run(): it applies the pending registrations, polls  *)
(* the bus, the wake eventfd and every registered source, drains the       *)
(* eventfd, drives the bus and dispatches the ready sources.  D-Bus        *)
(* handlers and dispatch() callbacks run on that thread and may call       *)
(* add(), remove(), retire() and stop(); other threads and signal handlers *)
(* may call stop() only.  So exit_code_, running_ and the eventfd are the  *)
(* shared state, and every access the loop makes to one of them is a step  *)
(* of its own here, interleaved with the three steps of stop().            *)
(*                                                                         *)
(* Names are those of the code without the trailing underscore.  The       *)
(* vectors are sets: add() and remove() are idempotent, and the order of   *)
(* dispatch inside one pass is left open.  A source is an ADDRESS: once    *)
(* destroyed it may be allocated again.                                    *)
(***************************************************************************)
EXTENDS Naturals, FiniteSets

CONSTANTS
  Sources,      \* addresses at which an EventSource can live
  Stoppers,     \* threads or signal handlers that may call stop()
  ExitCodes,    \* codes passed to stop()
  WakeOutcomes, \* can eventfd() succeed (TRUE), fail (FALSE), or either
  MaxEvents,    \* bound on external events: input, hang-ups, bus messages
  Loop,         \* the loop thread, as a caller of stop()
  Bus           \* the D-Bus connection, as the origin of a callback

Callers == Stoppers \cup {Loop}

ASSUME LoopAssumption ==
  /\ Loop \notin Stoppers
  /\ Bus \notin Sources
  /\ ExitCodes \subseteq Nat
  /\ WakeOutcomes \subseteq BOOLEAN
  /\ MaxEvents \in Nat

VARIABLES
  pc,         \* where the loop thread is in run()
  running,    \* running_
  exit_code,  \* exit_code_
  wake_valid, \* wake_fd_.valid(), settled by the constructor
  wake,       \* the eventfd counter is not zero
  sources,    \* sources_
  to_add,     \* to_add_
  to_remove,  \* to_remove_
  to_retire,  \* to_retire_, whose members the loop owns
  pfds,       \* revents of the last poll(), per polled source
  dbus_ready, \* this pass drives the bus
  todo,       \* ready sources this pass has still to dispatch
  cur,        \* whose callback runs: a source or Bus
  result,     \* the value run() returned
  stop_at,    \* next store of each caller inside stop()
  alive,      \* addresses that hold an object
  input,      \* sources whose fd has data
  hup,        \* sources whose peer hung up
  sock,       \* messages in the bus socket
  rqueue,     \* messages sd-bus has read but not processed
  budget,     \* external events left
  wanted,     \* history: sources whose last request was add()
  asked,      \* history: codes some stop() call began to set
  failed      \* history: run() took an internal-error exit

shared  == <<running, exit_code, stop_at, asked>>
pending == <<to_add, to_remove, to_retire>>
pass    == <<pfds, dbus_ready, todo, cur>>
fds     == <<input, hup, sock, rqueue, budget>>
others  == <<wake_valid, result, failed>>
data    == <<shared, wake, sources, pending, pass, alive, fds, wanted, others>>
vars    == <<pc, data>>

Revents == SUBSET {"IN", "HUP"}
Places  == {"idle", "head", "apply", "recheck", "poll", "drain", "dbus",
            "dispatch", "callback", "fail", "return", "done"}

-----------------------------------------------------------------------------
(* The constructor: no eventfd is logged and tolerated, wake() then does   *)
(* nothing.                                                                *)
Init ==
  /\ pc = "idle"
  /\ running = FALSE /\ exit_code = 0
  /\ wake_valid \in WakeOutcomes /\ wake = FALSE
  /\ sources = {} /\ to_add = {} /\ to_remove = {} /\ to_retire = {}
  /\ pfds = [s \in {} |-> {}] /\ dbus_ready = FALSE /\ todo = {} /\ cur = Bus
  /\ result = 0
  /\ stop_at = [c \in Callers |-> "none"]
  /\ alive = {} /\ input = {} /\ hup = {}
  /\ sock = 0 /\ rqueue = 0 /\ budget = MaxEvents
  /\ wanted = {} /\ asked = {} /\ failed = FALSE

(* Code of the program that uses the loop runs on the loop's thread before *)
(* run() or inside a callback; never while it is itself inside stop().     *)
ClientRuns == pc \in {"idle", "callback"} /\ stop_at[Loop] = "none"

(* Objects the program may pass to the loop: alive, not handed to retire() *)
Owned == alive \ to_retire

(* wake(): a write() to the eventfd; when the counter is saturated it      *)
(* fails with EAGAIN and the eventfd is readable anyway.                   *)
Wake == wake' = (wake \/ wake_valid)

-----------------------------------------------------------------------------
(* add(), remove(), retire().                                              *)

add(s) ==
  /\ ClientRuns /\ s \in Owned
  /\ to_add' = to_add \cup {s} /\ Wake
  /\ wanted' = wanted \cup {s}
  /\ UNCHANGED <<pc, shared, sources, to_remove, to_retire, pass, alive, fds, others>>

remove(s) ==
  /\ ClientRuns /\ s \in Owned
  /\ to_remove' = to_remove \cup {s} /\ Wake
  /\ wanted' = wanted \ {s}
  /\ UNCHANGED <<pc, shared, sources, to_add, to_retire, pass, alive, fds, others>>

(* Fault: the object is destroyed by the caller.                           *)
retireAtOnce(s) ==
  /\ ClientRuns /\ s \in Owned
  /\ to_remove' = to_remove \cup {s} /\ alive' = alive \ {s} /\ Wake
  /\ wanted' = wanted \ {s}
  /\ UNCHANGED <<pc, shared, sources, to_add, to_retire, pass, fds, others>>

retire(s) ==
  /\ ClientRuns /\ s \in Owned
  /\ to_remove' = to_remove \cup {s} /\ to_retire' = to_retire \cup {s} /\ Wake
  /\ wanted' = wanted \ {s}
  /\ UNCHANGED <<pc, shared, sources, to_add, pass, alive, fds, others>>

-----------------------------------------------------------------------------
(* stop(): three accesses to shared state, in this order.  The loop thread *)
(* makes them from a callback, another thread at any time.                 *)

AfterStop == <<pc, sources, pending, pass, alive, fds, wanted, others>>

StopExitCode(c, code) ==
  /\ stop_at[c] = "none" /\ (c = Loop => pc = "callback")
  /\ exit_code' = code
  /\ stop_at' = [stop_at EXCEPT ![c] = "running"]
  /\ asked' = asked \cup {code}
  /\ UNCHANGED <<running, wake, AfterStop>>

StopRunning(c) ==
  /\ stop_at[c] = "running"
  /\ running' = FALSE
  /\ stop_at' = [stop_at EXCEPT ![c] = "wake"]
  /\ UNCHANGED <<exit_code, asked, wake, AfterStop>>

StopWake(c) ==
  /\ stop_at[c] = "wake"
  /\ Wake
  /\ stop_at' = [stop_at EXCEPT ![c] = "none"]
  /\ UNCHANGED <<running, exit_code, asked, AfterStop>>

-----------------------------------------------------------------------------
(* run().                                                                  *)

(* A step of the loop thread that changes nothing but its place.           *)
Goto(from, to) == pc = from /\ pc' = to /\ UNCHANGED data

(* Fault: run() also resets exit_code_.                                    *)
RunStartResets ==
  /\ pc = "idle" /\ pc' = "head"
  /\ running' = TRUE /\ exit_code' = 0
  /\ UNCHANGED <<stop_at, asked, wake, sources, pending, pass, alive, fds, wanted, others>>

RunStart ==
  /\ pc = "idle" /\ pc' = "head"
  /\ running' = TRUE
  /\ UNCHANGED <<exit_code, stop_at, asked, wake, sources, pending, pass, alive, fds,
                 wanted, others>>

(* The condition of the while loop.                                        *)
TestRunning == Goto("head", IF running THEN "apply" ELSE "return")

(* Fault: no test whether the added source is pending removal.             *)
AppliedReAdding == (sources \ to_remove) \cup to_add

(* Removals first; an addition that is also pending removal is skipped.    *)
Applied == (sources \ to_remove) \cup (to_add \ to_remove)

(* Fault: only sources that were registered are destroyed.                 *)
DestroyedIfRegistered == to_retire \cap sources

(* Clearing to_retire_ destroys its objects.                               *)
Destroyed == to_retire

apply_pending ==
  /\ pc = "apply" /\ pc' = "recheck"
  /\ sources' = Applied
  /\ to_add' = {} /\ to_remove' = {}
  /\ to_retire' = to_retire \ Destroyed /\ alive' = alive \ Destroyed
  /\ UNCHANGED <<shared, wake, pass, fds, wanted, others>>

(* Fault: the eventfd is drained before poll() and running_ is not tested  *)
(* again.                                                                  *)
RecheckDrains ==
  /\ pc = "recheck" /\ pc' = "poll"
  /\ wake' = FALSE
  /\ UNCHANGED <<shared, sources, pending, pass, alive, fds, wanted, others>>

(* The second test of running_; then the poll set is built from sources_.  *)
RecheckRunning == Goto("recheck", IF running THEN "poll" ELSE "return")

(* What poll() would report now for a source.  POLLHUP is unmaskable.      *)
ReventsOf(s) == (IF s \in input THEN {"IN"} ELSE {})
                  \cup (IF s \in hup THEN {"HUP"} ELSE {})

(* Fault: the readable bit is not looked at.                               *)
ReadySourcesOnError == sources \cap hup

(* Sources with revents # 0, in whatever order they are registered.        *)
ReadySources == sources \cap (input \cup hup)

SomethingReady == wake \/ sock > 0 \/ sources \cap (input \cup hup) # {}

(* Fault: a timeout does not drive the bus.                                *)
DbusReadyNoTimeout == sock > 0

(* n == 0, or the bus has something to read.                               *)
DbusReady == ~SomethingReady \/ sock > 0

(* poll() returns with something ready, or with 0 on a timeout: sd-bus     *)
(* asks for a zero timeout while it holds messages it has already read     *)
(* (poll() cannot see those), and one of its timers may expire.            *)
PollReturns ==
  /\ pc = "poll"
  /\ pc' = IF wake THEN "drain" ELSE IF DbusReady THEN "dbus" ELSE "dispatch"
  /\ pfds' = [s \in sources |-> ReventsOf(s)]
  /\ todo' = ReadySources
  /\ dbus_ready' = DbusReady
  /\ UNCHANGED <<shared, wake, sources, pending, cur, alive, fds, wanted, others>>

(* A signal interrupted the wait: EINTR, only while nothing is ready.      *)
PollInterrupted == ~SomethingReady /\ rqueue = 0 /\ Goto("poll", "head")

(* Any other error of poll() ends the loop.                                *)
PollFails == Goto("poll", "fail")

DrainWake ==
  /\ pc = "drain" /\ pc' = IF dbus_ready THEN "dbus" ELSE "dispatch"
  /\ wake' = FALSE
  /\ UNCHANGED <<shared, sources, pending, pass, alive, fds, wanted, others>>

(* Fault: off by one.                                                      *)
MessageWaitingOffByOne == sock + rqueue >= 0

MessageWaiting == sock + rqueue > 0

(* processPendingEvent() takes a queued message, or reads one, and runs    *)
(* its handler.                                                            *)
ProcessPendingEvent ==
  /\ pc = "dbus" /\ pc' = "callback"
  /\ MessageWaiting
  /\ IF rqueue > 0 THEN rqueue' = rqueue - 1 /\ UNCHANGED sock
                   ELSE sock' = sock - 1 /\ UNCHANGED rqueue
  /\ UNCHANGED <<shared, wake, sources, pending, pass, alive, input, hup, budget,
                 wanted, others>>

(* A D-Bus handler returns: on to the next message.                        *)
HandlerReturns == cur = Bus /\ stop_at[Loop] = "none" /\ Goto("callback", "dbus")

BusIdle == ~MessageWaiting /\ Goto("dbus", "dispatch")

(* The variables local to one iteration of the loop go out of scope.       *)
EndPass == pfds' = [s \in {} |-> {}] /\ dbus_ready' = FALSE /\ todo' = {} /\ cur' = Bus

(* processPendingEvent() throws: the bus connection is broken.             *)
BusFails ==
  /\ pc = "dbus" /\ pc' = "fail"
  /\ EndPass
  /\ UNCHANGED <<shared, wake, sources, pending, alive, fds, wanted, others>>

(* dispatch() of one ready source; the callback reads its fd.              *)
Dispatch(s) ==
  /\ pc = "dispatch" /\ pc' = "callback"
  /\ s \in todo /\ todo' = todo \ {s}
  /\ cur' = s
  /\ input' = input \ {s}
  /\ UNCHANGED <<shared, wake, sources, pending, pfds, dbus_ready, alive, hup, sock,
                 rqueue, budget, wanted, others>>

(* Fault: hung-up sources stay registered.                                 *)
DroppedNever(s) == FALSE

(* revents had POLLHUP or POLLERR.                                         *)
DroppedAfterDispatch(s) == "HUP" \in pfds[s]

(* dispatch() returns: a hung-up source is removed so that it cannot spin. *)
DispatchReturns ==
  /\ pc = "callback" /\ pc' = "dispatch"
  /\ cur # Bus /\ stop_at[Loop] = "none"
  /\ IF DroppedAfterDispatch(cur) THEN to_remove' = to_remove \cup {cur} /\ Wake
                                  ELSE UNCHANGED <<to_remove, wake>>
  /\ wanted' = IF "HUP" \in pfds[cur] THEN wanted \ {cur} ELSE wanted
  /\ cur' = Bus
  /\ UNCHANGED <<shared, sources, to_add, to_retire, pfds, dbus_ready, todo, alive,
                 fds, others>>

PassDone ==
  /\ pc = "dispatch" /\ pc' = "head"
  /\ todo = {}
  /\ EndPass
  /\ UNCHANGED <<shared, wake, sources, pending, alive, fds, wanted, others>>

(* The store of exit code 1 before either error leaves the loop.           *)
FailExitCode ==
  /\ pc = "fail" /\ pc' = "return"
  /\ exit_code' = 1 /\ failed' = TRUE
  /\ UNCHANGED <<running, stop_at, asked, wake, sources, pending, pass, alive, fds,
                 wanted, wake_valid, result>>

RunReturns ==
  /\ pc = "return" /\ pc' = "done"
  /\ result' = exit_code
  /\ UNCHANGED <<shared, wake, sources, pending, pass, alive, fds, wanted, wake_valid,
                 failed>>

-----------------------------------------------------------------------------
(* The program that uses the loop.  It keeps the contract of the header:   *)
(* a source it still owns is destroyed only once the loop does not refer   *)
(* to it any more.                                                         *)

Create(s) ==
  /\ ClientRuns /\ s \notin alive
  /\ alive' = alive \cup {s} /\ input' = input \ {s} /\ hup' = hup \ {s}
  /\ UNCHANGED <<pc, shared, wake, sources, pending, pass, sock, rqueue, budget,
                 wanted, others>>

Destroy(s) ==
  /\ ClientRuns /\ s \in Owned \ (sources \cup to_add)
  /\ alive' = alive \ {s} /\ wanted' = wanted \ {s}
  /\ UNCHANGED <<pc, shared, wake, sources, pending, pass, fds, others>>

(* A synchronous D-Bus call: sd-bus reads what precedes the reply and      *)
(* keeps it in its own queue, where poll() cannot see it.                  *)
SyncCall ==
  /\ ClientRuns /\ sock > 0
  /\ rqueue' = rqueue + sock /\ sock' = 0
  /\ UNCHANGED <<pc, shared, wake, sources, pending, pass, alive, input, hup, budget,
                 wanted, others>>

(* The outside world.                                                      *)

BeyondWorld == <<pc, shared, wake, sources, pending, pass, alive, rqueue, wanted, others>>

InputArrives(s) ==
  /\ budget > 0 /\ budget' = budget - 1
  /\ s \in alive \ input /\ input' = input \cup {s}
  /\ UNCHANGED <<hup, sock, BeyondWorld>>

HangUp(s) ==
  /\ budget > 0 /\ budget' = budget - 1
  /\ s \in alive \ hup /\ hup' = hup \cup {s}
  /\ UNCHANGED <<input, sock, BeyondWorld>>

MessageArrives ==
  /\ budget > 0 /\ budget' = budget - 1
  /\ sock' = sock + 1
  /\ UNCHANGED <<input, hup, BeyondWorld>>

-----------------------------------------------------------------------------
ClientStep ==
  \/ \E s \in Sources : \/ add(s) \/ remove(s) \/ retire(s)
                        \/ Create(s) \/ Destroy(s)
  \/ SyncCall

StopStep ==
  \E c \in Callers : \/ \E code \in ExitCodes : StopExitCode(c, code)
                     \/ StopRunning(c)
                     \/ StopWake(c)

LoopStep ==
  \/ RunStart \/ TestRunning \/ apply_pending \/ RecheckRunning
  \/ PollReturns \/ PollInterrupted \/ PollFails \/ DrainWake
  \/ ProcessPendingEvent \/ BusIdle \/ BusFails
  \/ \E s \in Sources : Dispatch(s)
  \/ HandlerReturns \/ DispatchReturns \/ PassDone
  \/ FailExitCode \/ RunReturns

WorldStep ==
  \/ \E s \in Sources : InputArrives(s) \/ HangUp(s)
  \/ MessageArrives

Next == ClientStep \/ StopStep \/ LoopStep \/ WorldStep

Spec == Init /\ [][Next]_vars

(* The loop thread keeps running, callbacks return ("Must not block", the  *)
(* contract of dispatch()), poll() returns when something is ready or its  *)
(* timeout is zero, and a thread inside stop() finishes it.  Nothing makes *)
(* a timer expire, a signal interrupt poll(), or the program call stop().  *)
Fairness ==
  /\ WF_vars(RunStart) /\ WF_vars(TestRunning) /\ WF_vars(apply_pending)
  /\ WF_vars(RecheckRunning) /\ WF_vars((SomethingReady \/ rqueue > 0) /\ PollReturns)
  /\ WF_vars(DrainWake) /\ WF_vars(ProcessPendingEvent) /\ WF_vars(BusIdle)
  /\ WF_vars(\E s \in Sources : Dispatch(s)) /\ WF_vars(PassDone)
  /\ SF_vars(HandlerReturns) /\ SF_vars(DispatchReturns)
  /\ WF_vars(FailExitCode) /\ WF_vars(RunReturns)
  /\ \A c \in Callers : WF_vars(StopRunning(c)) /\ WF_vars(StopWake(c))

FairSpec == Spec /\ Fairness

-----------------------------------------------------------------------------
TypeOK ==
  /\ pc \in Places
  /\ running \in BOOLEAN /\ exit_code \in Nat /\ result \in Nat
  /\ wake_valid \in BOOLEAN /\ wake \in BOOLEAN
  /\ sources \subseteq Sources /\ to_add \subseteq Sources
  /\ to_remove \subseteq Sources /\ to_retire \subseteq Sources
  /\ DOMAIN pfds \subseteq Sources /\ pfds \in [DOMAIN pfds -> Revents]
  /\ dbus_ready \in BOOLEAN /\ todo \subseteq Sources
  /\ cur \in Sources \cup {Bus}
  /\ stop_at \in [Callers -> {"none", "running", "wake"}]
  /\ alive \subseteq Sources /\ input \subseteq Sources /\ hup \subseteq Sources
  /\ sock \in Nat /\ rqueue \in Nat /\ budget \in 0..MaxEvents
  /\ wanted \subseteq Sources /\ asked \subseteq ExitCodes
  /\ failed \in BOOLEAN

(* Where the loop dereferences the members of sources_: it builds the poll *)
(* set, and it may dispatch them until the pass ends.                      *)
InPass == pc \in {"poll", "drain", "dbus", "dispatch", "callback"}

(* No use after free: from building the poll set to the end of the pass    *)
(* every registered source, every source still to be dispatched and the    *)
(* one being dispatched are objects that exist, whatever the callbacks     *)
(* added, removed or retired meanwhile.                                    *)
NoUseAfterFree ==
  InPass => /\ sources \subseteq alive
            /\ todo \subseteq alive
            /\ cur # Bus => cur \in alive

(* Why NoUseAfterFree holds, as an inductive invariant: whatever the loop  *)
(* owns for destruction is pending removal too, nothing it would register  *)
(* or has registered is dead, a pass only refers to registered sources,    *)
(* and after apply_pending() nothing is pending until a callback runs.     *)
MemoryInv ==
  /\ to_retire \subseteq alive \cap to_remove
  /\ sources \cup to_add \subseteq alive
  /\ todo \subseteq sources
  /\ todo # {} => pc \in {"drain", "dbus", "dispatch", "callback"}
  /\ cur # Bus => pc = "callback" /\ cur \in sources
  /\ pc \in {"recheck", "poll"} => to_add = {} /\ to_remove = {} /\ to_retire = {}

(* Nothing is polled after its last remove(), retire() or hang-up.         *)
PolledAreWanted == pc = "poll" => sources \subseteq wanted

(* No lost wake-up: the loop does not sit in poll() after a stop() unless  *)
(* the eventfd is readable or the stop() has still to write it.            *)
NoLostWakeup ==
  pc = "poll" /\ wake_valid /\ ~running =>
    wake \/ \E c \in Callers : stop_at[c] = "wake"

(* run() hands back a code that some stop() call was given, or the 1 of an *)
(* internal error that did happen, whichever way the two race: an error is *)
(* never returned as a success nobody asked for.                           *)
ReturnsStopCode == pc = "done" => result \in asked \/ (failed /\ result = 1)

(* Once run() is under way, a stop() makes it return.                      *)
StopReturns == pc # "idle" /\ ~running ~> pc = "done"

(* A retired source is destroyed, or the loop has ended.                   *)
RetiredReclaimed == \A s \in Sources : s \in to_retire ~> s \notin to_retire \/ pc = "done"

(* A ready source that stays registered is dispatched.                     *)
ReadyDispatched ==
  \A s \in Sources :
    s \in sources \cap input ~> s \notin sources \cap input \/ pc = "done"

(* Bus messages, also those sd-bus holds in its own queue, are processed   *)
(* once the loop runs.                                                     *)
MessagesProcessed == sock + rqueue > 0 ~> sock + rqueue = 0 \/ pc = "done"

(* The loop implements deferred reclamation: its passes pin sources_.      *)
Reclamation == INSTANCE DeferredReclamation WITH
  Objects <- Sources, owned <- Owned, retired <- to_retire,
  pinned <- IF InPass THEN sources ELSE {}

ImplementsReclamation == Reclamation!RSpec

(* "Drive `bus` and every registered source until stop() is called"        *)
(* (event_loop.h): a completed stop() ends the loop, whenever it came.     *)
StopAlwaysReturns == asked # {} ~> pc = "done"
=============================================================================
