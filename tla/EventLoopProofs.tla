-------------------------- MODULE EventLoopProofs --------------------------
(***************************************************************************)
(* Theorems about EventLoop for every set of sources, threads and codes.   *)
(***************************************************************************)
EXTENDS EventLoop, TLAPS

USE LoopAssumption DEF LoopAssumption, Callers, Revents, Places

(* Every variable stays in its type in every behaviour of the loop.        *)
THEOREM TypeCorrect == Spec => []TypeOK
<1>1. Init => TypeOK
  <2> SUFFICES ASSUME Init PROVE TypeOK
    OBVIOUS
  <2>1. wake_valid \in BOOLEAN
    BY DEF Init
  <2>2. DOMAIN pfds \subseteq Sources /\ pfds \in [DOMAIN pfds -> Revents]
    BY DEF Init
  <2>3. /\ running \in BOOLEAN /\ wake \in BOOLEAN
        /\ dbus_ready \in BOOLEAN /\ failed \in BOOLEAN
    BY DEF Init
  <2>4. /\ exit_code \in Nat /\ result \in Nat
        /\ sock \in Nat /\ rqueue \in Nat /\ budget \in 0..MaxEvents
    BY DEF Init
  <2>5. stop_at \in [Callers -> {"none", "running", "wake"}]
    BY DEF Init
  <2> QED BY <2>1, <2>2, <2>3, <2>4, <2>5 DEF Init, TypeOK
<1>2. TypeOK /\ [Next]_vars => TypeOK'
  <2> SUFFICES ASSUME TypeOK, [Next]_vars PROVE TypeOK'
    OBVIOUS
  <2> USE DEF TypeOK, shared, pending, pass, fds, others, data
  <2>1. CASE ClientStep
    <3>1. ASSUME NEW s \in Sources, add(s) \/ remove(s) \/ retire(s) PROVE TypeOK'
      BY <3>1 DEF add, remove, retire, Wake, Owned
    <3>2. ASSUME NEW s \in Sources, Create(s) \/ Destroy(s) PROVE TypeOK'
      BY <3>2 DEF Create, Destroy, Owned
    <3>3. CASE SyncCall
      BY <3>3 DEF SyncCall
    <3> QED BY <2>1, <3>1, <3>2, <3>3 DEF ClientStep
  <2>2. CASE StopStep
    <3>1. ASSUME NEW c \in Callers, NEW code \in ExitCodes, StopExitCode(c, code)
          PROVE  TypeOK'
      BY <3>1 DEF StopExitCode, AfterStop
    <3>2. ASSUME NEW c \in Callers, StopRunning(c) \/ StopWake(c) PROVE TypeOK'
      <4>1. CASE StopRunning(c)
        BY <4>1 DEF StopRunning, AfterStop
      <4>2. CASE StopWake(c)
        <5>1. wake' \in BOOLEAN
          BY <4>2 DEF StopWake, Wake
        <5> QED
          BY <4>2, <5>1 DEF StopWake, AfterStop
      <4> QED
        BY <3>2, <4>1, <4>2
    <3> QED BY <2>2, <3>1, <3>2 DEF StopStep
  <2>3. CASE LoopStep
    <3>1. CASE RunStart
      BY <3>1 DEF RunStart
    <3>2. CASE TestRunning \/ RecheckRunning
      BY <3>2 DEF TestRunning, RecheckRunning, Goto
    <3>3. CASE apply_pending
      BY <3>3 DEF apply_pending, Applied, Destroyed
    <3>4. CASE PollReturns
      <4>1. pfds' = [s \in sources |-> ReventsOf(s)]
        BY <3>4 DEF PollReturns
      <4>2. \A s \in sources : ReventsOf(s) \in Revents
        BY DEF ReventsOf
      <4>3. DOMAIN pfds' = sources /\ pfds' \in [DOMAIN pfds' -> Revents]
        BY <4>1, <4>2
      <4> QED BY <3>4, <4>3 DEF PollReturns, ReadySources, DbusReady
    <3>5. CASE PollInterrupted \/ PollFails
      BY <3>5 DEF PollInterrupted, PollFails, Goto
    <3>6. CASE DrainWake
      BY <3>6 DEF DrainWake
    <3>7. CASE ProcessPendingEvent
      BY <3>7 DEF ProcessPendingEvent, MessageWaiting
    <3>8. CASE BusIdle \/ HandlerReturns
      BY <3>8 DEF BusIdle, HandlerReturns, Goto
    <3>9. CASE BusFails \/ PassDone
      <4>1. pfds' = [s \in {} |-> {}]
        BY <3>9 DEF BusFails, PassDone, EndPass
      <4>2. DOMAIN pfds' \subseteq Sources /\ pfds' \in [DOMAIN pfds' -> Revents]
        BY <4>1
      <4> QED BY <3>9, <4>2 DEF BusFails, PassDone, EndPass
    <3>10. ASSUME NEW s \in Sources, Dispatch(s) PROVE TypeOK'
      BY <3>10 DEF Dispatch
    <3>11. CASE DispatchReturns
      BY <3>11 DEF DispatchReturns, Wake
    <3>12. CASE FailExitCode
      <4>1. failed' \in BOOLEAN
        BY <3>12 DEF FailExitCode
      <4>2. exit_code' \in Nat /\ result' \in Nat
        BY <3>12 DEF FailExitCode
      <4> QED BY <3>12, <4>1, <4>2 DEF FailExitCode
    <3>13. CASE RunReturns
      BY <3>13 DEF RunReturns
    <3> QED BY <2>3, <3>1, <3>2, <3>3, <3>4, <3>5, <3>6, <3>7, <3>8, <3>9, <3>10,
               <3>11, <3>12, <3>13 DEF LoopStep
  <2>4. CASE WorldStep
    BY <2>4 DEF WorldStep, InputArrives, HangUp, MessageArrives, BeyondWorld
  <2>5. CASE UNCHANGED vars
    BY <2>5 DEF vars
  <2> QED BY <2>1, <2>2, <2>3, <2>4, <2>5 DEF Next
<1> QED BY <1>1, <1>2, PTL DEF Spec

-----------------------------------------------------------------------------
(* One step preserves the inductive invariant of memory safety.            *)
LEMMA MemoryStep == TypeOK /\ MemoryInv /\ [Next]_vars => MemoryInv'
<1> SUFFICES ASSUME TypeOK, MemoryInv, [Next]_vars PROVE MemoryInv'
  OBVIOUS
<1> USE DEF TypeOK, MemoryInv, shared, pending, pass, fds, others, data
<1>1. CASE ClientStep
  <2>1. ASSUME NEW s \in Sources, add(s) \/ remove(s) \/ retire(s) PROVE MemoryInv'
    BY <2>1 DEF add, remove, retire, Owned, ClientRuns
  <2>2. ASSUME NEW s \in Sources, Create(s) PROVE MemoryInv'
    BY <2>2 DEF Create
  <2>3. ASSUME NEW s \in Sources, Destroy(s) PROVE MemoryInv'
    BY <2>3 DEF Destroy, Owned
  <2>4. CASE SyncCall
    BY <2>4 DEF SyncCall
  <2> QED BY <1>1, <2>1, <2>2, <2>3, <2>4 DEF ClientStep
<1>2. CASE StopStep
  BY <1>2 DEF StopStep, StopExitCode, StopRunning, StopWake, AfterStop
<1>3. CASE LoopStep
  <2>1. CASE RunStart
    BY <2>1 DEF RunStart
  <2>2. CASE TestRunning \/ RecheckRunning
    BY <2>2 DEF TestRunning, RecheckRunning, Goto
  <2>3. CASE apply_pending
    BY <2>3 DEF apply_pending, Applied, Destroyed
  <2>4. CASE PollReturns
    BY <2>4 DEF PollReturns, ReadySources, SomethingReady
  <2>5. CASE PollInterrupted \/ PollFails
    BY <2>5 DEF PollInterrupted, PollFails, Goto
  <2>6. CASE DrainWake
    BY <2>6 DEF DrainWake
  <2>7. CASE ProcessPendingEvent
    BY <2>7 DEF ProcessPendingEvent
  <2>8. CASE BusIdle \/ HandlerReturns
    BY <2>8 DEF BusIdle, HandlerReturns, Goto
  <2>9. CASE BusFails \/ PassDone
    BY <2>9 DEF BusFails, PassDone, EndPass
  <2>10. ASSUME NEW s \in Sources, Dispatch(s) PROVE MemoryInv'
    BY <2>10 DEF Dispatch
  <2>11. CASE DispatchReturns
    BY <2>11 DEF DispatchReturns
  <2>12. CASE FailExitCode \/ RunReturns
    BY <2>12 DEF FailExitCode, RunReturns
  <2> QED BY <1>3, <2>1, <2>2, <2>3, <2>4, <2>5, <2>6, <2>7, <2>8, <2>9, <2>10,
             <2>11, <2>12 DEF LoopStep
<1>4. CASE WorldStep
  BY <1>4 DEF WorldStep, InputArrives, HangUp, MessageArrives, BeyondWorld
<1>5. CASE UNCHANGED vars
  BY <1>5 DEF vars
<1> QED BY <1>1, <1>2, <1>3, <1>4, <1>5 DEF Next

(* The invariant behind memory safety holds in every behaviour.            *)
THEOREM MemoryInvariant == Spec => []MemoryInv
<1>1. Init => MemoryInv
  BY DEF Init, MemoryInv
<1> QED BY <1>1, MemoryStep, TypeCorrect, PTL DEF Spec

(* No use after free: a source that a pass polls, has still to dispatch or *)
(* is dispatching exists, whatever the callbacks of the pass retired.      *)
THEOREM MemorySafe == Spec => []NoUseAfterFree
<1>1. MemoryInv => NoUseAfterFree
  BY DEF MemoryInv, NoUseAfterFree
<1> QED BY <1>1, MemoryInvariant, PTL

(* The loop implements DeferredReclamation: retire() is safe at any time,  *)
(* and destruction happens between passes only.                            *)
THEOREM ReclamationRefined == Spec => ImplementsReclamation
<1>1. Init => Reclamation!RInit
  BY DEF Init, Reclamation!RInit, Owned, InPass
<1>2. TypeOK /\ MemoryInv /\ [Next]_vars => [Reclamation!RNext]_(Reclamation!rvars)
  <2> SUFFICES ASSUME TypeOK, MemoryInv, [Next]_vars
               PROVE  [Reclamation!RNext]_(Reclamation!rvars)
    OBVIOUS
  <2> USE DEF TypeOK, MemoryInv, Owned, InPass, shared, pending, pass, fds, others,
              data, Reclamation!rvars
  <2>1. CASE ClientStep
    <3>1. ASSUME NEW s \in Sources, add(s) \/ remove(s) PROVE UNCHANGED Reclamation!rvars
      BY <3>1 DEF add, remove
    <3>2. ASSUME NEW s \in Sources, retire(s) PROVE Reclamation!HandOver(s)
      BY <3>2 DEF retire, Reclamation!HandOver
    <3>3. ASSUME NEW s \in Sources, Create(s) PROVE Reclamation!Allocate(s)
      BY <3>3 DEF Create, Reclamation!Allocate
    <3>4. ASSUME NEW s \in Sources, Destroy(s) PROVE Reclamation!Free(s)
      BY <3>4 DEF Destroy, Reclamation!Free
    <3>5. CASE SyncCall
      BY <3>5 DEF SyncCall
    <3> QED BY <2>1, <3>1, <3>2, <3>3, <3>4, <3>5 DEF ClientStep, Reclamation!RNext
  <2>2. CASE StopStep
    BY <2>2 DEF StopStep, StopExitCode, StopRunning, StopWake, AfterStop
  <2>3. CASE LoopStep
    <3>1. CASE RunStart \/ TestRunning
      BY <3>1 DEF RunStart, TestRunning, Goto
    <3>2. CASE apply_pending
      <4>1. Reclamation!Reclaim
        BY <3>2 DEF apply_pending, Destroyed, Reclamation!Reclaim
      <4> QED BY <4>1 DEF Reclamation!RNext
    <3>3. CASE RecheckRunning
      <4>1. CASE running
        <5>1. sources \in SUBSET Sources /\ Reclamation!BeginPass(sources)
          BY <3>3, <4>1 DEF RecheckRunning, Goto, Reclamation!BeginPass
        <5> QED BY <5>1 DEF Reclamation!RNext
      <4>2. CASE ~running
        BY <3>3, <4>2 DEF RecheckRunning, Goto
      <4> QED BY <4>1, <4>2
    <3>4. CASE PollReturns \/ DrainWake \/ ProcessPendingEvent \/ BusIdle \/ HandlerReturns
      BY <3>4 DEF PollReturns, DrainWake, ProcessPendingEvent, BusIdle, HandlerReturns, Goto
    <3>5. CASE PollInterrupted \/ PollFails \/ BusFails \/ PassDone
      <4>1. Reclamation!FinishPass
        BY <3>5 DEF PollInterrupted, PollFails, BusFails, PassDone, Goto,
                    Reclamation!FinishPass
      <4> QED BY <4>1 DEF Reclamation!RNext
    <3>6. ASSUME NEW s \in Sources, Dispatch(s) PROVE UNCHANGED Reclamation!rvars
      BY <3>6 DEF Dispatch
    <3>7. CASE DispatchReturns \/ FailExitCode \/ RunReturns
      BY <3>7 DEF DispatchReturns, FailExitCode, RunReturns
    <3> QED BY <2>3, <3>1, <3>2, <3>3, <3>4, <3>5, <3>6, <3>7 DEF LoopStep
  <2>4. CASE WorldStep
    BY <2>4 DEF WorldStep, InputArrives, HangUp, MessageArrives, BeyondWorld
  <2>5. CASE UNCHANGED vars
    BY <2>5 DEF vars
  <2> QED BY <2>1, <2>2, <2>3, <2>4, <2>5 DEF Next
<1> QED BY <1>1, <1>2, TypeCorrect, MemoryInvariant, PTL
        DEF Spec, ImplementsReclamation, Reclamation!RSpec

-----------------------------------------------------------------------------
(* Registration: what is or will be registered and is not pending removal  *)
(* was asked for by the last request about it.                             *)
WantedInv == (sources \cup to_add) \ to_remove \subseteq wanted

(* Nothing is polled after its last remove(), retire() or hang-up.         *)
THEOREM RemovedIsNotPolled == Spec => []PolledAreWanted
<1>1. Init => WantedInv
  BY DEF Init, WantedInv
<1>2. TypeOK /\ MemoryInv /\ WantedInv /\ [Next]_vars => WantedInv'
  <2> SUFFICES ASSUME TypeOK, MemoryInv, WantedInv, [Next]_vars PROVE WantedInv'
    OBVIOUS
  <2> USE DEF TypeOK, MemoryInv, WantedInv, shared, pending, pass, fds, others, data
  <2>1. CASE ClientStep
    BY <2>1 DEF ClientStep, add, remove, retire, Create, Destroy, SyncCall
  <2>2. CASE StopStep
    BY <2>2 DEF StopStep, StopExitCode, StopRunning, StopWake, AfterStop
  <2>3. CASE LoopStep
    <3>1. CASE apply_pending
      BY <3>1 DEF apply_pending, Applied
    <3>2. CASE DispatchReturns
      BY <3>2 DEF DispatchReturns, DroppedAfterDispatch
    <3>3. ASSUME NEW s \in Sources, Dispatch(s) PROVE WantedInv'
      BY <3>3 DEF Dispatch
    <3>4. CASE RunStart \/ TestRunning \/ RecheckRunning \/ PollReturns
                \/ PollInterrupted \/ PollFails \/ DrainWake
      BY <3>4 DEF RunStart, TestRunning, RecheckRunning, PollReturns, PollInterrupted,
                  PollFails, DrainWake, Goto
    <3>5. CASE ProcessPendingEvent \/ BusIdle \/ BusFails \/ HandlerReturns \/ PassDone
                \/ FailExitCode \/ RunReturns
      BY <3>5 DEF ProcessPendingEvent, BusIdle, BusFails, HandlerReturns, PassDone,
                  FailExitCode, RunReturns, Goto
    <3> QED BY <2>3, <3>1, <3>2, <3>3, <3>4, <3>5 DEF LoopStep
  <2>4. CASE WorldStep
    BY <2>4 DEF WorldStep, InputArrives, HangUp, MessageArrives, BeyondWorld
  <2>5. CASE UNCHANGED vars
    BY <2>5 DEF vars
  <2> QED BY <2>1, <2>2, <2>3, <2>4, <2>5 DEF Next
<1>3. MemoryInv /\ WantedInv => PolledAreWanted
  BY DEF MemoryInv, WantedInv, PolledAreWanted
<1> QED BY <1>1, <1>2, <1>3, TypeCorrect, MemoryInvariant, PTL DEF Spec

-----------------------------------------------------------------------------
(* What stop() has established at each of its three steps, and what the    *)
(* loop knows when it has seen running_ = FALSE.                           *)
StopInv ==
  /\ asked # {} \/ failed => exit_code \in asked \/ (failed /\ exit_code = 1)
  /\ \A c \in Callers : stop_at[c] # "none" => asked # {}
  /\ pc # "idle" /\ ~running => asked # {}
  /\ pc = "return" => asked # {} \/ failed
  /\ ReturnsStopCode
  /\ NoLostWakeup

(* One step preserves StopInv.                                             *)
LEMMA StopInvStep == TypeOK /\ StopInv /\ [Next]_vars => StopInv'
<1> SUFFICES ASSUME TypeOK, StopInv, [Next]_vars PROVE StopInv'
  OBVIOUS
<1> USE DEF TypeOK, StopInv, ReturnsStopCode, NoLostWakeup, shared, pending, pass, fds,
            others, data
<1>1. CASE ClientStep
  BY <1>1 DEF ClientStep, add, remove, retire, Create, Destroy, SyncCall, Wake, ClientRuns
<1>2. CASE StopStep
  <2>1. ASSUME NEW c \in Callers, NEW code \in ExitCodes, StopExitCode(c, code)
        PROVE  StopInv'
    BY <2>1 DEF StopExitCode, AfterStop
  <2>2. ASSUME NEW c \in Callers, StopRunning(c) PROVE StopInv'
    BY <2>2 DEF StopRunning, AfterStop
  <2>3. ASSUME NEW c \in Callers, StopWake(c) PROVE StopInv'
    BY <2>3 DEF StopWake, Wake, AfterStop
  <2> QED BY <1>2, <2>1, <2>2, <2>3 DEF StopStep
<1>3. CASE LoopStep
  <2>1. CASE RunStart \/ TestRunning \/ RecheckRunning \/ apply_pending
    BY <2>1 DEF RunStart, TestRunning, RecheckRunning, apply_pending, Goto
  <2>2. CASE PollReturns \/ PollInterrupted \/ PollFails \/ DrainWake
    BY <2>2 DEF PollReturns, PollInterrupted, PollFails, DrainWake, Goto
  <2>3. CASE ProcessPendingEvent \/ BusIdle \/ BusFails \/ HandlerReturns \/ PassDone
    BY <2>3 DEF ProcessPendingEvent, BusIdle, BusFails, HandlerReturns, PassDone, Goto
  <2>4. ASSUME NEW s \in Sources, Dispatch(s) PROVE StopInv'
    BY <2>4 DEF Dispatch
  <2>5. CASE DispatchReturns
    BY <2>5 DEF DispatchReturns, Wake
  <2>6. CASE FailExitCode \/ RunReturns
    BY <2>6 DEF FailExitCode, RunReturns
  <2> QED BY <1>3, <2>1, <2>2, <2>3, <2>4, <2>5, <2>6 DEF LoopStep
<1>4. CASE WorldStep
  BY <1>4 DEF WorldStep, InputArrives, HangUp, MessageArrives, BeyondWorld
<1>5. CASE UNCHANGED vars
  BY <1>5 DEF vars
<1> QED BY <1>1, <1>2, <1>3, <1>4, <1>5 DEF Next

(* StopInv holds in every behaviour.                                       *)
LEMMA StopInvariant == Spec => []StopInv
<1>1. Init => StopInv
  BY DEF Init, StopInv, ReturnsStopCode, NoLostWakeup
<1> QED BY <1>1, StopInvStep, TypeCorrect, PTL DEF Spec

(* The release/acquire pairing of stop() and run(): run() returns a code   *)
(* some stop() was given, or the 1 of an internal error, and nothing else. *)
THEOREM StopCodeReturned == Spec => []ReturnsStopCode
BY StopInvariant, PTL DEF StopInv

(* The loop never blocks in poll() on a stop() that has finished.          *)
THEOREM StopWakesPoll == Spec => []NoLostWakeup
BY StopInvariant, PTL DEF StopInv
=============================================================================
