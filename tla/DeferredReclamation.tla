------------------------ MODULE DeferredReclamation ------------------------
(***************************************************************************)
(* What EventLoop::retire() and remove() promise a program, without the    *)
(* loop: an object may be handed over for destruction at any moment, also  *)
(* while a pass of the loop refers to it, and it is destroyed only when no *)
(* pass does.  A pass pins the objects it refers to; it may only pin       *)
(* objects that exist and were not handed over before it began.            *)
(***************************************************************************)
EXTENDS TLAPS

CONSTANT Objects

VARIABLES
  owned,   \* objects the program owns
  retired, \* objects handed over and not yet destroyed
  pinned   \* objects the current pass refers to

rvars == <<owned, retired, pinned>>

RInit == owned = {} /\ retired = {} /\ pinned = {}

Allocate(o) ==
  /\ o \notin owned \cup retired
  /\ owned' = owned \cup {o}
  /\ UNCHANGED <<retired, pinned>>

HandOver(o) ==
  /\ o \in owned
  /\ owned' = owned \ {o}
  /\ retired' = retired \cup {o}
  /\ UNCHANGED pinned

(* The owner destroys an object it did not hand over.                      *)
Free(o) ==
  /\ o \in owned \ pinned
  /\ owned' = owned \ {o}
  /\ UNCHANGED <<retired, pinned>>

BeginPass(S) ==
  /\ pinned = {} /\ S \subseteq owned
  /\ pinned' = S
  /\ UNCHANGED <<owned, retired>>

FinishPass ==
  /\ pinned' = {}
  /\ UNCHANGED <<owned, retired>>

(* Everything handed over so far is destroyed, between passes.             *)
Reclaim ==
  /\ pinned = {}
  /\ retired' = {}
  /\ UNCHANGED <<owned, pinned>>

RNext ==
  \/ \E o \in Objects : Allocate(o) \/ HandOver(o) \/ Free(o)
  \/ \E S \in SUBSET Objects : BeginPass(S)
  \/ FinishPass
  \/ Reclaim

RSpec == RInit /\ [][RNext]_rvars

(* Nothing a pass refers to has been destroyed.                            *)
PinnedExist == pinned \subseteq owned \cup retired

(* Deferred reclamation is memory safe: what a pass refers to exists until *)
(* the pass is over, whoever hands it over or frees it.                    *)
THEOREM ReclamationSafe == RSpec => []PinnedExist
<1>1. RInit => PinnedExist
  BY DEF RInit, PinnedExist
<1>2. PinnedExist /\ [RNext]_rvars => PinnedExist'
  <2> SUFFICES ASSUME PinnedExist, [RNext]_rvars PROVE PinnedExist'
    OBVIOUS
  <2>1. ASSUME NEW o \in Objects, Allocate(o) PROVE PinnedExist'
    BY <2>1 DEF Allocate, PinnedExist
  <2>2. ASSUME NEW o \in Objects, HandOver(o) PROVE PinnedExist'
    BY <2>2 DEF HandOver, PinnedExist
  <2>3. ASSUME NEW o \in Objects, Free(o) PROVE PinnedExist'
    BY <2>3 DEF Free, PinnedExist
  <2>4. ASSUME NEW S \in SUBSET Objects, BeginPass(S) PROVE PinnedExist'
    BY <2>4 DEF BeginPass, PinnedExist
  <2>5. CASE FinishPass
    BY <2>5 DEF FinishPass, PinnedExist
  <2>6. CASE Reclaim
    BY <2>6 DEF Reclaim, PinnedExist
  <2>7. CASE UNCHANGED rvars
    BY <2>7 DEF rvars, PinnedExist
  <2> QED
    BY <2>1, <2>2, <2>3, <2>4, <2>5, <2>6, <2>7 DEF RNext
<1> QED
  BY <1>1, <1>2, PTL DEF RSpec
=============================================================================
