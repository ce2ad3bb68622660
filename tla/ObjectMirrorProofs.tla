------------------------- MODULE ObjectMirrorProofs -------------------------
(***************************************************************************)
(* Proofs about ObjectMirror, for any paths, limit and set of clients.     *)
(***************************************************************************)
EXTENDS ObjectMirror, FiniteSetTheorems, TLAPS

(* Kinds is the set of the names of kinds.                                 *)
LEMMA KindNames ==
  Kinds = {"Adapter1", "GattManager1", "Device1", "GattCharacteristic1", "Block",
           "Filesystem", "NVMe", "Seat", "Session", "DisplayDevice", "Unit"}
BY DEF Kinds, Rank

(* The interfaces of objects are kinds.                                    *)
LEMMA ShapesAreKinds ==
  ASSUME NEW c \in Clients, NEW s \in Shapes(c)
  PROVE  s \subseteq Kinds
BY MirrorAssumption, KindNames DEF MirrorAssumption, Shapes

(* The resting state of the handler is well typed.                         *)
LEMMA NoObjectType == NoObject \in Jobs /\ NoObject.kinds = {}
<1>1. (CHOOSE p \in Paths : TRUE) \in Paths
  BY MirrorAssumption DEF MirrorAssumption
<1> QED
  BY <1>1, MirrorAssumption DEF NoObject, Jobs, Versions, MirrorAssumption

(* What is left of an object after one interface is well typed.            *)
LEMMA DoneType ==
  ASSUME TypeOK, NEW k, Done(k)
  PROVE  cur' \in Jobs /\ cur'.kinds = cur.kinds \ {k}
         /\ (cur'.kinds # {} => cur'.path = cur.path)
<1>1. cur \in Jobs
  BY DEF TypeOK
<1>2. CASE cur.kinds = {k}
  BY <1>2, NoObjectType DEF Done
<1>3. CASE cur.kinds # {k}
  <2> DEFINE j == [path |-> cur.path, kinds |-> cur.kinds \ {k}, val |-> cur.val]
  <2>1. j \in Jobs /\ j.kinds = cur.kinds \ {k} /\ j.path = cur.path
    BY <1>1 DEF Jobs
  <2>2. cur' = j
    BY <1>3 DEF Done
  <2> QED
    BY <2>1, <2>2
<1> QED
  BY <1>2, <1>3

(* A proxy object that enters a map leaves the state well typed.           *)
LEMMA EntersType ==
  ASSUME TypeOK, NEW k \in Kinds, NEW p \in Paths, NEW v \in Versions \cup {0},
         Enters(k, p, v), fetching' \in BOOLEAN, unheard' \subseteq Kinds \X Paths
  PROVE  TypeOK'
<1>1. cur' \in Jobs
  BY DoneType DEF Enters
<1>2. mirror' \in [Kinds -> SUBSET Paths]
  BY DEF Enters, TypeOK
<1>3. cache' \in [Kinds -> [Paths -> Versions \cup {0}]]
  <2>1. [cache[k] EXCEPT ![p] = v] \in [Paths -> Versions \cup {0}]
    BY DEF TypeOK
  <2> QED
    BY <2>1 DEF Enters, TypeOK
<1>4. pending' \subseteq Kinds \X Paths /\ lost' \subseteq Kinds \X Paths
  BY DEF Enters, TypeOK
<1> QED
  BY <1>1, <1>2, <1>3, <1>4 DEF Enters, TypeOK, service

(* What is exported of some kinds, as objects to be handled.               *)
LEMMA ManagedType ==
  ASSUME TypeOK, NEW ks
  PROVE  Managed(ks) \subseteq Jobs
BY DEF Managed, Jobs, TypeOK

(* A queued message is one, and so is the rest of the queue.               *)
LEMMA QueuedMessage ==
  ASSUME NEW q \in Seq(Messages)
  PROVE  /\ \A i \in 1..Len(q) :
              /\ q[i] \in Messages /\ q[i].type \in Types
              /\ q[i].paths \subseteq Paths /\ q[i].kinds \subseteq Kinds
              /\ q[i].val \in Versions
         /\ q # <<>> => /\ Tail(q) \in Seq(Messages) /\ Head(q) = q[1] /\ 1 \in 1..Len(q)
                        /\ Len(Tail(q)) = Len(q) - 1
                        /\ \A i \in 1..Len(Tail(q)) : Tail(q)[i] = q[i + 1]
<1>1. \A i \in 1..Len(q) : q[i] \in Messages
  OBVIOUS
<1>2. \A m \in Messages : /\ m.type \in Types /\ m.paths \subseteq Paths
                          /\ m.kinds \subseteq Kinds /\ m.val \in Versions
  BY DEF Messages
<1>3. q # <<>> => /\ Tail(q) \in Seq(Messages) /\ Head(q) = q[1] /\ 1 \in 1..Len(q)
                  /\ Len(Tail(q)) = Len(q) - 1
                  /\ \A i \in 1..Len(Tail(q)) : Tail(q)[i] = q[i + 1]
  OBVIOUS
<1> QED
  BY <1>1, <1>2, <1>3

(* Cancelling keeps the queue's length and every message but replies.      *)
LEMMA CancelledKeeps ==
  ASSUME NEW q \in Seq(Messages), NEW ks, NEW ps
  PROVE  /\ Cancelled(q, ks, ps) \in Seq(Messages)
         /\ Len(Cancelled(q, ks, ps)) = Len(q)
         /\ \A i \in 1..Len(q) :
              IF q[i].type = "reply" /\ q[i].kinds \subseteq ks /\ q[i].paths \subseteq ps
                THEN Cancelled(q, ks, ps)[i].type = "dropped"
                ELSE Cancelled(q, ks, ps)[i] = q[i]
<1> DEFINE d(i) == [type |-> "dropped", paths |-> q[i].paths, kinds |-> q[i].kinds,
                    val |-> q[i].val]
<1>1. \A i \in 1..Len(q) : q[i] \in Messages /\ d(i) \in Messages /\ d(i).type = "dropped"
  <2> SUFFICES ASSUME NEW i \in 1..Len(q)
               PROVE  q[i] \in Messages /\ d(i) \in Messages /\ d(i).type = "dropped"
    OBVIOUS
  <2>1. /\ q[i] \in Messages /\ q[i].paths \subseteq Paths /\ q[i].kinds \subseteq Kinds
        /\ q[i].val \in Versions
    BY QueuedMessage
  <2> QED
    BY <2>1 DEF Messages, Types
<1>2. Cancelled(q, ks, ps) =
        [i \in 1..Len(q) |->
           IF q[i].type = "reply" /\ q[i].kinds \subseteq ks /\ q[i].paths \subseteq ps
             THEN d(i) ELSE q[i]]
  BY DEF Cancelled
<1> HIDE DEF d
<1>3. Cancelled(q, ks, ps) \in Seq(Messages) /\ Len(Cancelled(q, ks, ps)) = Len(q)
  BY <1>1, <1>2
<1> QED
  BY <1>1, <1>2, <1>3

(* The types of the client's state and of the service hold in every state. *)
THEOREM MirrorTypeCorrect == Spec => []TypeOK
<1> USE MirrorAssumption DEF MirrorAssumption
<1>1. Init => TypeOK
  <2> SUFFICES ASSUME Init PROVE TypeOK
    OBVIOUS
  <2>1. shape \in [Paths -> SUBSET Kinds] /\ exported \in [Paths -> SUBSET Kinds]
    <3>1. \A s \in Shapes(client) : s \subseteq Kinds
      BY ShapesAreKinds DEF Init
    <3>2. shape \in [Paths -> SUBSET Kinds]
      BY <3>1 DEF Init
    <3> QED
      BY <3>2 DEF Init
  <2>2. cur \in Jobs
    BY NoObjectType DEF Init
  <2>3. filter \in Paths \cup {AnyDevice}
    BY DEF Init
  <2>4. /\ cache \in [Kinds -> [Paths -> Versions \cup {0}]] /\ value \in [Paths -> Versions]
        /\ mirror \in [Kinds -> SUBSET Paths]
    BY DEF Init, Versions
  <2>5. toList \in Seq(Kinds) /\ queue \in Seq(Messages)
    BY DEF Init
  <2>6. /\ asked \in BOOLEAN /\ fetching \in BOOLEAN /\ listFailed \in BOOLEAN
        /\ phase \in {"new", "asking", "subscribed", "listing", "running", "failed"}
    BY DEF Init
  <2>7. /\ client \in Clients /\ work \subseteq Jobs /\ pending \subseteq Kinds \X Paths
        /\ unheard \subseteq Kinds \X Paths /\ lost \subseteq Kinds \X Paths
        /\ old \subseteq Kinds \X Paths /\ events \in 0..MaxEvents
    BY DEF Init
  <2> QED
    BY <2>1, <2>2, <2>3, <2>4, <2>5, <2>6, <2>7 DEF TypeOK
<1>2. TypeOK /\ [Next]_vars => TypeOK'
  <2> SUFFICES ASSUME TypeOK, [Next]_vars PROVE TypeOK'
    OBVIOUS
  <2>0. Existing \subseteq Kinds \X Paths
    BY DEF Existing
  <2>1. CASE Registers \/ LoopRuns \/ UPowerClient \/ Login1GetAllAsync \/ Login1Registers
             \/ Systemd1ManagerClient
    BY <2>0, <2>1 DEF Registers, LoopRuns, UPowerClient, Login1GetAllAsync, Login1Registers,
       Systemd1ManagerClient, TypeOK, handler, copy, service, history
  <2>2. CASE GetManagedObjects
    BY <2>2, ManagedType DEF GetManagedObjects, TypeOK, copy, service, history
  <2>3. CASE NextObject
    BY <2>3 DEF NextObject, TypeOK, copy, service, history
  <2>4. CASE Throws
    <3>1. cur' \in Jobs
      BY <2>4, NoObjectType DEF Throws, TypeOK
    <3>2. cur.path \in Paths /\ cur.kinds \subseteq Kinds
      BY DEF TypeOK, Jobs
    <3>3. lost' \subseteq Kinds \X Paths
      BY <2>4, <3>2 DEF Throws, TypeOK
    <3> QED
      BY <2>4, <3>1, <3>3 DEF Throws, TypeOK, copy, service
  <2>5. CASE Lists
    <3>1. work' \subseteq Jobs
      BY <2>5, ManagedType DEF Lists, TypeOK
    <3>2. toList \in Seq(Kinds) /\ toList # <<>> /\ (toList' = Tail(toList) \/ toList' = <<>>)
      BY <2>5 DEF Lists, TypeOK
    <3>3. toList' \in Seq(Kinds)
      <4>1. Tail(toList) \in Seq(Kinds)
        BY <3>2
      <4>2. <<>> \in Seq(Kinds)
        OBVIOUS
      <4> QED
        BY <3>2, <4>1, <4>2
    <3> QED
      BY <2>5, <3>1, <3>3 DEF Lists, TypeOK, copy, service
  <2>6. ASSUME NEW k \in Kinds, PassesOver(k) PROVE TypeOK'
    <3>1. cur' \in Jobs
      BY <2>6, DoneType DEF PassesOver
    <3>2. cur.path \in Paths
      BY DEF TypeOK, Jobs
    <3> QED
      BY <2>6, <3>1, <3>2 DEF PassesOver, TypeOK, copy, service
  <2>7. ASSUME NEW k \in Kinds, Makes(k) PROVE TypeOK'
    <3>1. cur.path \in Paths /\ cur.val \in Versions
      BY DEF TypeOK, Jobs
    <3>2. fetching' \in BOOLEAN /\ unheard' \subseteq Kinds \X Paths
      BY <2>7 DEF Makes, TypeOK
    <3> QED
      BY <2>7, <3>1, <3>2, EntersType DEF Makes
  <2>8. ASSUME NEW k \in Kinds, StartsFetch(k) PROVE TypeOK'
    BY <2>8 DEF StartsFetch, TypeOK, copy, service, history
  <2>9. ASSUME NEW k \in Kinds, EndsFetch(k) PROVE TypeOK'
    <3>1. cur.path \in Paths /\ value[cur.path] \in Versions
      BY DEF TypeOK, Jobs
    <3>2. unheard' \subseteq Kinds \X Paths
      <4>1. \/ unheard' = unheard \cup {<<k, cur.path>>}
            \/ unheard' = unheard \ {<<k, cur.path>>}
        BY <2>9 DEF EndsFetch, PassedBy
      <4> QED
        BY <3>1, <4>1 DEF TypeOK
    <3>3. fetching' \in BOOLEAN
      BY <2>9 DEF EndsFetch
    <3> QED
      BY <2>9, <3>1, <3>2, <3>3, EntersType DEF EndsFetch
  <2>10. ASSUME NEW t, Receives(t)
         PROVE  /\ Head(queue).paths \subseteq Paths /\ Head(queue).kinds \subseteq Kinds
                /\ Head(queue).val \in Versions /\ Tail(queue) \in Seq(Messages)
    <3>1. queue \in Seq(Messages) /\ queue # <<>>
      BY <2>10 DEF Receives, TypeOK
    <3> QED
      BY <3>1, QueuedMessage
  <2>11. CASE onAdded
    <3>1. cur' \in Jobs
      BY <2>10, <2>11 DEF onAdded, Jobs
    <3> QED
      BY <2>10, <2>11, <3>1 DEF onAdded, TypeOK, copy, service, history
  <2>12. CASE onRemoved
    <3>1. PICK p \in Paths :
            /\ mirror' = [k \in Kinds |-> IF k \in Head(queue).kinds THEN Erases(k, p)
                                                                  ELSE mirror[k]]
            /\ pending' = pending \ (Head(queue).kinds \X {p})
            /\ queue' = Cancelled(Tail(queue), Head(queue).kinds, {p})
            /\ lost' = lost \ (Head(queue).kinds \X {p})
      BY <2>12 DEF onRemoved
    <3>2. \A k \in Kinds : Erases(k, p) \subseteq Paths
      BY DEF TypeOK, Erases, BluezErases, UDisks2Erases, Login1Erases, UPowerErases,
             Systemd1Erases
    <3>3. queue' \in Seq(Messages)
      BY <2>10, <2>12, <3>1, CancelledKeeps DEF onRemoved
    <3>4. mirror' \in [Kinds -> SUBSET Paths]
      BY <3>1, <3>2 DEF TypeOK
    <3> QED
      BY <2>12, <3>1, <3>3, <3>4 DEF onRemoved, TypeOK, handler, service
  <2>13. \A k \in Kinds, p \in Paths, v \in Versions : \A ok : Applied(k, p, v, ok) \in Versions
    BY DEF Applied, TypeOK
  <2>A. ASSUME NEW t, Receives(t)
        PROVE  \A ks, ok : Gives(ks, ok) \in [Kinds -> [Paths -> Versions \cup {0}]]
    <3>1. Head(queue).val \in Versions
      BY <2>10, <2>A
    <3> QED
      BY <2>13, <3>1 DEF Gives, TypeOK
  <2>14. CASE onPropertiesChanged
    <3>1. cache' \in [Kinds -> [Paths -> Versions \cup {0}]]
      BY <2>14, <2>A DEF onPropertiesChanged
    <3>2. unheard' \subseteq Kinds \X Paths
      BY <2>10, <2>14, KindNames DEF onPropertiesChanged, TypeOK
    <3> QED
      BY <2>10, <2>14, <3>1, <3>2 DEF onPropertiesChanged, TypeOK, handler, service
  <2>15. CASE onGetAll
    <3>1. cache' \in [Kinds -> [Paths -> Versions \cup {0}]]
      BY <2>15, <2>A DEF onGetAll
    <3> QED
      BY <2>10, <2>15, <3>1 DEF onGetAll, TypeOK, handler, service, history
  <2>16. CASE onDropped
    BY <2>10, <2>16 DEF onDropped, TypeOK, handler, copy, service, history
  <2>17. CASE onEnumerateDevices
    <3>1. "DisplayDevice" \in Kinds
      BY KindNames
    <3>2. work' \subseteq Jobs
      BY <2>10, <2>17, <3>1 DEF onEnumerateDevices, Jobs
    <3> QED
      BY <2>10, <2>17, <3>2 DEF onEnumerateDevices, TypeOK, copy, service, history
  <2>18. CASE onLogin1GetAll
    <3>1. <<"Seat", "Session">> \in Seq(Kinds)
      BY KindNames
    <3> QED
      BY <2>10, <2>18, <3>1 DEF onLogin1GetAll, TypeOK, copy, service, history
  <2>19. ASSUME NEW t \in Types, NEW p \in Paths, NEW ks \in SUBSET Kinds, NEW v \in Versions,
                NEW r, Send(r, t, p, ks, v)
         PROVE  queue' \in Seq(Messages)
    <3>1. [type |-> t, paths |-> {p}, kinds |-> ks, val |-> v] \in Messages
      BY DEF Messages
    <3> QED
      BY <2>19, <3>1 DEF Send, TypeOK
  <2>20. ASSUME NEW p \in Paths, NEW ks \in SUBSET shape[p], Exports(p, ks) PROVE TypeOK'
    <3>1. ks \subseteq Kinds /\ value[p] \in Versions
      BY DEF TypeOK
    <3>2. queue' \in Seq(Messages)
      BY <2>19, <2>20, <3>1 DEF Exports, Types
    <3> QED
      BY <2>20, <3>1, <3>2 DEF Exports, Event, TypeOK, handler, copy
  <2>21. ASSUME NEW p \in Paths, NEW ks \in SUBSET shape[p], Unexports(p, ks) PROVE TypeOK'
    <3>1. ks \subseteq Kinds /\ value[p] \in Versions
      BY DEF TypeOK
    <3>2. queue' \in Seq(Messages)
      BY <2>19, <2>21, <3>1 DEF Unexports, Types
    <3> QED
      BY <2>21, <3>1, <3>2 DEF Unexports, Event, TypeOK, handler, copy, history
  <2>22. ASSUME NEW p \in Paths, Changes(p) PROVE TypeOK'
    <3>1. exported[p] \subseteq Kinds /\ value[p] + 1 \in Versions
      BY DEF TypeOK, Versions
    <3>2. queue' \in Seq(Messages)
      BY <2>19, <2>22, <3>1 DEF Changes, Types
    <3>3. unheard' \subseteq Kinds \X Paths
      BY <2>22, KindNames DEF Changes, Payload, TypeOK
    <3> QED
      BY <2>22, <3>1, <3>2, <3>3 DEF Changes, Event, TypeOK, handler, copy
  <2>23. CASE AnswersList
    <3> DEFINE m == [type |-> "list", kinds |-> {}, val |-> 1,
                     paths |-> {p \in Paths : exported[p] # {}}]
    <3>1. m \in Messages
      BY DEF Messages, Types, Versions
    <3>2. queue' = Append(queue, m) \/ queue' = queue
      BY <2>23 DEF AnswersList
    <3> HIDE DEF m
    <3>3. queue \in Seq(Messages)
      BY DEF TypeOK
    <3>4. queue' \in Seq(Messages)
      BY <3>1, <3>2, <3>3
    <3> QED
      BY <2>23, <3>4 DEF AnswersList, TypeOK, handler, copy, service
  <2>24. ASSUME NEW k \in Kinds, NEW p \in Paths, AnswersGetAll(k, p) PROVE TypeOK'
    <3>1. {k} \subseteq Kinds /\ value[p] \in Versions
      BY DEF TypeOK
    <3>2. CASE UNCHANGED queue
      BY <2>24, <3>2 DEF AnswersGetAll, TypeOK, handler, copy, service
    <3>3. CASE Send(TRUE, "reply", p, {k}, value[p])
      <4>1. queue' \in Seq(Messages)
        BY <2>19, <3>1, <3>3 DEF Types
      <4> QED
        BY <2>24, <4>1 DEF AnswersGetAll, TypeOK, handler, copy, service
    <3> QED
      BY <2>24, <3>2, <3>3 DEF AnswersGetAll
  <2>25. CASE UNCHANGED vars
    BY <2>25 DEF TypeOK, vars, handler, copy, service, history
  <2> QED
    BY <2>1, <2>2, <2>3, <2>4, <2>5, <2>6, <2>7, <2>8, <2>9, <2>11, <2>12, <2>14, <2>15,
       <2>16, <2>17, <2>18, <2>20, <2>21, <2>22, <2>23, <2>24, <2>25
    DEF Next, ClientStep, Answers, ServiceStep
<1> QED
  BY <1>1, <1>2, PTL DEF Spec

-----------------------------------------------------------------------------
(* The kinds of objects the client knows, and how its state goes with them *)
(* and with the phase of its constructor.                                  *)
KindsOf == UNION Shapes(client)

NotStarted == {"new", "asking", "subscribed"}

Shaped == \A p \in Paths : shape[p] \in Shapes(client) /\ exported[p] \subseteq shape[p]

KnownKinds ==
  /\ cur.kinds \subseteq KindsOf
  /\ \A w \in work : w.kinds \subseteq KindsOf
  /\ \A i \in 1..Len(queue) : queue[i].type = "added" => queue[i].kinds \subseteq KindsOf

Phased ==
  /\ phase \in NotStarted =>
       /\ cur.kinds = {} /\ work = {} /\ ~fetching
       /\ \A k \in Kinds : mirror[k] = {}
  /\ phase \in {"new", "asking"} => \A i \in 1..Len(queue) : queue[i].type # "added"
  /\ phase = "new" => ~asked /\ \A i \in 1..Len(queue) : queue[i].type # "list"
  /\ phase = "asking" => client = "login1"
  /\ toList # <<>> => phase = "running"
  /\ fetching => client = "udisks2"

Filtered ==
  client = "upower" => \A k \in Kinds : \A p \in mirror[k] : filter \in {AnyDevice, p}

Proper == Shaped /\ KnownKinds /\ Phased /\ Filtered

(* A message in q after the i-th says that the object at p lost k.         *)
RemovedAfter(q, i, k, p) ==
  \E j \in 1..Len(q) : j > i /\ q[j].type = "removed" /\ k \in q[j].kinds /\ q[j].paths = {p}

(* What stands for interface k of the object at p, and what will.          *)
StandsFor(k, p) ==
  \/ p \in mirror[k]
  \/ k \in cur.kinds /\ cur.path = p
  \/ \E w \in work : w.path = p /\ k \in w.kinds

Tells(m, k, p) ==
  /\ p \in m.paths
  /\ \/ m.type = "added" /\ k \in m.kinds
     \/ m.type = "list" /\ client = "upower" /\ k = "DisplayDevice"

Truthful ==
  \A k \in Kinds, p \in Paths :
    StandsFor(k, p) /\ ~RemovedAfter(queue, 0, k, p) => k \in exported[p]

Announced ==
  \A i \in 1..Len(queue) : \A k \in Kinds, p \in Paths :
    Tells(queue[i], k, p) /\ ~RemovedAfter(queue, i, k, p) => k \in exported[p]

(* Why there is no ghost: whatever stands for an interface stands for one  *)
(* the service exports, unless its removal is queued, and so does every    *)
(* announcement that no removal follows.                                   *)
GhostInv == Proper /\ Truthful /\ Announced

(* What is removed stays removed when a message is added to the queue.     *)
LEMMA AppendRemoved ==
  ASSUME NEW q \in Seq(Messages), NEW m \in Messages, NEW i \in Nat, NEW k, NEW p,
         RemovedAfter(q, i, k, p)
  PROVE  RemovedAfter(Append(q, m), i, k, p)
<1>1. PICK j \in 1..Len(q) :
        j > i /\ q[j].type = "removed" /\ k \in q[j].kinds /\ q[j].paths = {p}
  BY DEF RemovedAfter
<1>2. j \in 1..Len(Append(q, m)) /\ Append(q, m)[j] = q[j]
  OBVIOUS
<1> QED
  BY <1>1, <1>2 DEF RemovedAfter

(* A removal at the end of the queue comes after everything else.          *)
LEMMA AppendedRemoval ==
  ASSUME NEW q \in Seq(Messages), NEW m \in Messages, NEW i \in 0..Len(q), NEW k, NEW p,
         m.type = "removed", k \in m.kinds, m.paths = {p}
  PROVE  RemovedAfter(Append(q, m), i, k, p)
<1>1. /\ Len(q) + 1 \in 1..Len(Append(q, m)) /\ Append(q, m)[Len(q) + 1] = m
      /\ Len(q) + 1 > i
  OBVIOUS
<1> QED
  BY <1>1 DEF RemovedAfter

(* The head taken off, every message moves up by one.                      *)
LEMMA TailRemoved ==
  ASSUME NEW q \in Seq(Messages), q # <<>>, NEW i \in Nat, NEW k, NEW p
  PROVE  /\ RemovedAfter(q, i + 1, k, p) => RemovedAfter(Tail(q), i, k, p)
         /\ RemovedAfter(q, 0, k, p)
              /\ ~(q[1].type = "removed" /\ k \in q[1].kinds /\ q[1].paths = {p})
              => RemovedAfter(Tail(q), 0, k, p)
<1>1. ASSUME NEW n \in Nat, NEW j \in 1..Len(q), j > n + 1, q[j].type = "removed",
             k \in q[j].kinds, q[j].paths = {p}
      PROVE  RemovedAfter(Tail(q), n, k, p)
  <2>1. j - 1 \in 1..Len(Tail(q)) /\ Tail(q)[j - 1] = q[j] /\ j - 1 > n
    BY <1>1
  <2> QED
    BY <1>1, <2>1 DEF RemovedAfter
<1>2. RemovedAfter(q, i + 1, k, p) => RemovedAfter(Tail(q), i, k, p)
  BY <1>1 DEF RemovedAfter
<1>3. ASSUME RemovedAfter(q, 0, k, p),
             ~(q[1].type = "removed" /\ k \in q[1].kinds /\ q[1].paths = {p})
      PROVE  RemovedAfter(Tail(q), 0, k, p)
  <2>1. PICK j \in 1..Len(q) :
          j > 0 /\ q[j].type = "removed" /\ k \in q[j].kinds /\ q[j].paths = {p}
    BY <1>3 DEF RemovedAfter
  <2>2. j > 0 + 1
    BY <1>3, <2>1
  <2> QED
    BY <1>1, <2>1, <2>2
<1> QED
  BY <1>2, <1>3

(* Cancelling replies hides no removal and no announcement.                *)
LEMMA CancelledRemoved ==
  ASSUME NEW q \in Seq(Messages), NEW ks, NEW ps, NEW i \in Nat, NEW k, NEW p
  PROVE  /\ RemovedAfter(q, i, k, p) => RemovedAfter(Cancelled(q, ks, ps), i, k, p)
         /\ \A j \in 1..Len(q) : /\ Tells(Cancelled(q, ks, ps)[j], k, p) => Tells(q[j], k, p)
                                 /\ Cancelled(q, ks, ps)[j].type = "added" =>
                                      Cancelled(q, ks, ps)[j] = q[j]
<1> DEFINE c == Cancelled(q, ks, ps)
<1>1. /\ Len(c) = Len(q)
      /\ \A j \in 1..Len(q) : \/ q[j].type = "reply" /\ c[j].type = "dropped"
                              \/ c[j] = q[j]
  BY CancelledKeeps
<1> HIDE DEF c
<1>2. RemovedAfter(q, i, k, p) => RemovedAfter(c, i, k, p)
  <2> SUFFICES ASSUME RemovedAfter(q, i, k, p) PROVE RemovedAfter(c, i, k, p)
    OBVIOUS
  <2>1. PICK j \in 1..Len(q) :
          j > i /\ q[j].type = "removed" /\ k \in q[j].kinds /\ q[j].paths = {p}
    BY DEF RemovedAfter
  <2>2. c[j] = q[j] /\ j \in 1..Len(c)
    BY <1>1, <2>1
  <2> QED
    BY <2>1, <2>2 DEF RemovedAfter
<1>3. \A j \in 1..Len(q) : /\ Tells(c[j], k, p) => Tells(q[j], k, p)
                           /\ c[j].type = "added" => c[j] = q[j]
  BY <1>1 DEF Tells
<1> QED
  BY <1>2, <1>3 DEF c

(* Objects have the interfaces of their shape.                             *)
LEMMA ShapedStep ==
  ASSUME TypeOK, Shaped, [Next]_vars
  PROVE  Shaped'
<1>1. ASSUME NEW p \in Paths, NEW ks \in SUBSET shape[p], Exports(p, ks) PROVE Shaped'
  BY <1>1 DEF Exports, Shaped, TypeOK
<1>2. ASSUME NEW p \in Paths, NEW ks \in SUBSET shape[p], Unexports(p, ks) PROVE Shaped'
  BY <1>2 DEF Unexports, Shaped, TypeOK
<1>3. ASSUME NEW p \in Paths, Changes(p) PROVE Shaped'
  BY <1>3 DEF Changes, Shaped
<1>4. CASE UNCHANGED vars
  BY <1>4 DEF Shaped, vars, service
<1>5. CASE Answers
  BY <1>5 DEF Answers, AnswersList, AnswersGetAll, Shaped, service
<1>6. CASE ClientStep
  <2>1. UNCHANGED <<client, shape, exported>>
    BY <1>6 DEF ClientStep, Registers, GetManagedObjects, LoopRuns, UPowerClient,
       Login1GetAllAsync, Login1Registers, Systemd1ManagerClient, NextObject, Throws, Lists,
       PassesOver, Makes, Enters, StartsFetch, EndsFetch, onAdded, onRemoved,
       onPropertiesChanged, onGetAll, onDropped, onEnumerateDevices, onLogin1GetAll, service
  <2> QED
    BY <2>1 DEF Shaped
<1> QED
  BY <1>1, <1>2, <1>3, <1>4, <1>5, <1>6 DEF Next, ServiceStep

(* Every object that is exported has kinds of the client.                  *)
LEMMA ExportedKinds ==
  ASSUME Shaped, NEW p \in Paths
  PROVE  exported[p] \subseteq KindsOf /\ shape[p] \subseteq KindsOf
BY DEF Shaped, KindsOf

(* What GetManagedObjects() or a list returns is exported.                 *)
LEMMA ManagedExported ==
  ASSUME TypeOK, NEW ks, NEW w \in Managed(ks)
  PROVE  w.path \in Paths /\ w.kinds \subseteq exported[w.path]
BY DEF Managed

-----------------------------------------------------------------------------
(* No message of q has type t; appending and handling others keeps it so.  *)
Without(q, t) == \A i \in 1..Len(q) : q[i].type # t

(* Every announcement in q is about kinds of ks.                           *)
AddsOnly(q, ks) == \A i \in 1..Len(q) : q[i].type = "added" => q[i].kinds \subseteq ks

(* Both survive when a message is handled or cancelled, and when one is    *)
(* appended that respects them.                                            *)
LEMMA QueueSteps ==
  ASSUME NEW q \in Seq(Messages), NEW ks, NEW t
  PROVE  /\ q # <<>> => /\ Without(q, t) => Without(Tail(q), t)
                        /\ AddsOnly(q, ks) => AddsOnly(Tail(q), ks)
         /\ \A m \in Messages :
              /\ Without(q, t) /\ m.type # t => Without(Append(q, m), t)
              /\ AddsOnly(q, ks) /\ (m.type = "added" => m.kinds \subseteq ks)
                   => AddsOnly(Append(q, m), ks)
         /\ \A js, ps : AddsOnly(q, ks) => AddsOnly(Cancelled(q, js, ps), ks)
<1>1. q # <<>> => /\ Without(q, t) => Without(Tail(q), t)
                  /\ AddsOnly(q, ks) => AddsOnly(Tail(q), ks)
  BY QueuedMessage DEF Without, AddsOnly
<1>2. ASSUME NEW m \in Messages
      PROVE  /\ Without(q, t) /\ m.type # t => Without(Append(q, m), t)
             /\ AddsOnly(q, ks) /\ (m.type = "added" => m.kinds \subseteq ks)
                  => AddsOnly(Append(q, m), ks)
  <2>1. \A i \in 1..Len(Append(q, m)) :
          Append(q, m)[i] = m \/ (i \in 1..Len(q) /\ Append(q, m)[i] = q[i])
    OBVIOUS
  <2> QED
    BY <2>1 DEF Without, AddsOnly
<1>3. ASSUME NEW js, NEW ps, AddsOnly(q, ks) PROVE AddsOnly(Cancelled(q, js, ps), ks)
  <2>1. /\ Len(Cancelled(q, js, ps)) = Len(q)
        /\ \A i \in 1..Len(q) : \/ Cancelled(q, js, ps)[i].type = "dropped"
                                \/ Cancelled(q, js, ps)[i] = q[i]
    BY CancelledKeeps
  <2> QED
    BY <1>3, <2>1 DEF AddsOnly
<1> QED
  BY <1>1, <1>2, <1>3

(* What a sent message looks like.                                         *)
LEMMA Sent ==
  ASSUME TypeOK, NEW r, NEW t \in Types, NEW p \in Paths, NEW ks \in SUBSET Kinds,
         NEW v \in Versions, Send(r, t, p, ks, v)
  PROVE  \/ ~r /\ queue' = queue
         \/ \E m \in Messages : /\ r /\ queue' = Append(queue, m)
                                /\ m.type = t /\ m.paths = {p} /\ m.kinds = ks
<1> DEFINE m == [type |-> t, paths |-> {p}, kinds |-> ks, val |-> v]
<1>1. m \in Messages /\ m.type = t /\ m.paths = {p} /\ m.kinds = ks
  BY DEF Messages
<1>2. (r /\ queue' = Append(queue, m)) \/ (~r /\ queue' = queue)
  BY DEF Send
<1> HIDE DEF m
<1> QED
  BY <1>1, <1>2

(* How a step may change the queue.                                        *)
LEMMA QueueChange ==
  ASSUME TypeOK, [Next]_vars
  PROVE  \/ queue' = queue
         \/ /\ queue # <<>> /\ phase = "running" /\ Idle
            /\ \/ queue' = Tail(queue)
               \/ \E ks, ps : queue' = Cancelled(Tail(queue), ks, ps)
         \/ \E m \in Messages :
              /\ queue' = Append(queue, m)
              /\ m.type = "added" => /\ Announces
                                     /\ \E p \in Paths : m.kinds \subseteq shape[p]
              /\ m.type = "list" => asked
<1>1. CASE ClientStep
  BY <1>1 DEF ClientStep, Registers, GetManagedObjects, LoopRuns, UPowerClient,
     Login1GetAllAsync, Login1Registers, Systemd1ManagerClient, NextObject, Throws, Lists,
     PassesOver, Makes, Enters, StartsFetch, EndsFetch, onAdded, onRemoved, Receives,
     onPropertiesChanged, onGetAll, onDropped, onEnumerateDevices, onLogin1GetAll
<1>2. CASE AnswersList
  <2> DEFINE m == [type |-> "list", kinds |-> {}, val |-> 1,
                   paths |-> {p \in Paths : exported[p] # {}}]
  <2>1. m \in Messages /\ m.type = "list"
    BY DEF Messages, Types, Versions
  <2>2. asked /\ (queue' = Append(queue, m) \/ queue' = queue)
    BY <1>2 DEF AnswersList
  <2> HIDE DEF m
  <2> QED
    BY <2>1, <2>2
<1>3. ASSUME NEW k \in Kinds, NEW p \in Paths, AnswersGetAll(k, p)
      PROVE  \/ queue' = queue
             \/ \E m \in Messages : queue' = Append(queue, m) /\ m.type = "reply"
  <2>1. {k} \in SUBSET Kinds /\ value[p] \in Versions /\ "reply" \in Types
    BY DEF TypeOK, Types
  <2>2. queue' = queue \/ Send(TRUE, "reply", p, {k}, value[p])
    BY <1>3 DEF AnswersGetAll
  <2> QED
    BY <2>1, <2>2, Sent
<1>4. ASSUME NEW p \in Paths, NEW ks \in SUBSET shape[p], Exports(p, ks)
      PROVE  \/ queue' = queue
             \/ \E m \in Messages : /\ queue' = Append(queue, m) /\ m.type = "added"
                                    /\ Announces /\ m.kinds \subseteq shape[p]
  <2>1. ks \in SUBSET Kinds /\ value[p] \in Versions /\ "added" \in Types
    BY DEF TypeOK, Types
  <2>2. Send(Announces, "added", p, ks, value[p])
    BY <1>4 DEF Exports
  <2> DEFINE m == [type |-> "added", paths |-> {p}, kinds |-> ks, val |-> value[p]]
  <2>3. m \in Messages /\ m.type = "added" /\ m.kinds \subseteq shape[p]
    BY <2>1 DEF Messages
  <2>4. (Announces /\ queue' = Append(queue, m)) \/ queue' = queue
    BY <2>2 DEF Send
  <2> HIDE DEF m
  <2> QED
    BY <2>3, <2>4
<1>5. ASSUME NEW p \in Paths, NEW ks \in SUBSET shape[p], Unexports(p, ks)
      PROVE  \/ queue' = queue
             \/ \E m \in Messages : queue' = Append(queue, m) /\ m.type = "removed"
  <2>1. ks \in SUBSET Kinds /\ value[p] \in Versions /\ "removed" \in Types
    BY DEF TypeOK, Types
  <2>2. Send(Announces, "removed", p, ks, value[p])
    BY <1>5 DEF Unexports
  <2> QED
    BY <2>1, <2>2, Sent
<1>6. ASSUME NEW p \in Paths, Changes(p)
      PROVE  \/ queue' = queue
             \/ \E m \in Messages : queue' = Append(queue, m) /\ m.type = "changed"
  <2>1. exported[p] \in SUBSET Kinds /\ value[p] + 1 \in Versions /\ "changed" \in Types
    BY DEF TypeOK, Types, Versions
  <2>2. Send(Hears(p), "changed", p, exported[p], value[p] + 1)
    BY <1>6 DEF Changes
  <2> QED
    BY <2>1, <2>2, Sent
<1>7. CASE UNCHANGED vars
  BY <1>7 DEF vars
<1> QED
  BY <1>1, <1>2, <1>3, <1>4, <1>5, <1>6, <1>7 DEF Next, Answers, ServiceStep

(* What is at hand, enumerated or announced is of the client's kinds.      *)
LEMMA KnownKindsStep ==
  ASSUME TypeOK, Shaped, KnownKinds, Phased, [Next]_vars
  PROVE  KnownKinds'
<1>0. client' = client /\ KindsOf' = KindsOf
  BY DEF Next, ClientStep, Registers, GetManagedObjects, LoopRuns, UPowerClient,
     Login1GetAllAsync, Login1Registers, Systemd1ManagerClient, NextObject, Throws, Lists,
     PassesOver, Makes, Enters, StartsFetch, EndsFetch, onAdded, onRemoved,
     onPropertiesChanged, onGetAll, onDropped, onEnumerateDevices, onLogin1GetAll, Answers,
     AnswersList, AnswersGetAll, ServiceStep, Exports, Unexports, Changes, vars, KindsOf
<1>1. queue \in Seq(Messages)
  BY DEF TypeOK
<1>2. AddsOnly(queue, KindsOf)'
  <2>1. AddsOnly(queue, KindsOf)
    BY DEF KnownKinds, AddsOnly
  <2>2. AddsOnly(queue', KindsOf)
    <3>1. CASE queue # <<>> /\ queue' = Tail(queue)
      BY <1>1, <2>1, <3>1, QueueSteps
    <3>2. ASSUME NEW ks, NEW ps, queue # <<>>, queue' = Cancelled(Tail(queue), ks, ps)
          PROVE  AddsOnly(queue', KindsOf)
      <4>1. Tail(queue) \in Seq(Messages)
        BY <1>1, <3>2
      <4>2. AddsOnly(Tail(queue), KindsOf)
        BY <1>1, <2>1, <3>2, QueueSteps
      <4> QED
        BY <3>2, <4>1, <4>2, QueueSteps
    <3>3. ASSUME NEW m \in Messages, queue' = Append(queue, m),
                 m.type = "added" => \E p \in Paths : m.kinds \subseteq shape[p]
          PROVE  AddsOnly(queue', KindsOf)
      <4>1. m.type = "added" => m.kinds \subseteq KindsOf
        BY <3>3, ExportedKinds
      <4> QED
        BY <1>1, <2>1, <3>3, <4>1, QueueSteps
    <3>4. CASE queue' = queue
      BY <2>1, <3>4
    <3> QED
      BY <3>1, <3>2, <3>3, <3>4, QueueChange
  <2> QED
    BY <1>0, <2>2 DEF AddsOnly
<1>3. cur'.kinds \subseteq KindsOf /\ \A w \in work' : w.kinds \subseteq KindsOf
  <2>0. \A ks : \A w \in Managed(ks) : w.kinds \subseteq KindsOf
    BY ManagedExported, ExportedKinds
  <2>1. CASE Registers \/ LoopRuns \/ UPowerClient \/ Login1GetAllAsync \/ Login1Registers
             \/ Systemd1ManagerClient \/ onRemoved \/ onPropertiesChanged \/ onGetAll
             \/ onDropped \/ onLogin1GetAll
    BY <2>1 DEF Registers, LoopRuns, UPowerClient, Login1GetAllAsync, Login1Registers,
       Systemd1ManagerClient, onRemoved, onPropertiesChanged, onGetAll, onDropped,
       onLogin1GetAll, handler, KnownKinds
  <2>2. CASE GetManagedObjects \/ Lists
    BY <2>0, <2>2 DEF GetManagedObjects, Lists, KnownKinds
  <2>3. CASE NextObject
    BY <2>3 DEF NextObject, KnownKinds
  <2>4. CASE Throws
    BY <2>4, NoObjectType DEF Throws, KnownKinds
  <2>5. ASSUME NEW k \in Kinds, PassesOver(k) \/ Makes(k) \/ StartsFetch(k) \/ EndsFetch(k)
        PROVE  cur'.kinds \subseteq KindsOf /\ \A w \in work' : w.kinds \subseteq KindsOf
    <3>1. work' = work
      BY <2>5 DEF PassesOver, Makes, StartsFetch, EndsFetch, Enters
    <3>2. cur' = cur \/ Done(k)
      BY <2>5 DEF PassesOver, Makes, StartsFetch, EndsFetch, Enters
    <3> QED
      BY <3>1, <3>2, DoneType DEF KnownKinds
  <2>6. CASE onAdded
    <3>1. queue[1].type = "added" /\ 1 \in 1..Len(queue) /\ cur'.kinds = queue[1].kinds
      BY <1>1, <2>6 DEF onAdded, Receives
    <3> QED
      BY <2>6, <3>1 DEF onAdded, KnownKinds
  <2>7. CASE onEnumerateDevices
    BY <2>7 DEF onEnumerateDevices, KnownKinds, KindsOf, Shapes
  <2>8. CASE Answers \/ ServiceStep \/ UNCHANGED vars
    BY <2>8 DEF Answers, AnswersList, AnswersGetAll, ServiceStep, Exports, Unexports, Changes,
       vars, handler, KnownKinds
  <2> QED
    BY <2>1, <2>2, <2>3, <2>4, <2>5, <2>6, <2>7, <2>8 DEF Next, ClientStep
<1> QED
  BY <1>0, <1>2, <1>3 DEF KnownKinds, AddsOnly

(* Only the UDisks2 client fetches, and only UPower filters.               *)
LEMMA OutcomesOf ==
  ASSUME NEW k, NEW p
  PROVE  /\ Adds(k, p, "fetch") => client = "udisks2"
         /\ Adds(k, p, "made") /\ client = "upower" => filter \in {AnyDevice, p}
BY DEF Adds, BluezAdds, UDisks2Adds, Login1Adds, UPowerAdds, Systemd1Adds

(* Before the client has subscribed it holds and hears nothing.            *)
LEMMA PhasedStep ==
  ASSUME TypeOK, Phased, [Next]_vars
  PROVE  Phased'
<1>1. queue \in Seq(Messages)
  BY DEF TypeOK
<1>2. CASE ClientStep
  <2>1. CASE Registers \/ LoopRuns \/ UPowerClient \/ Login1GetAllAsync \/ Login1Registers
             \/ Systemd1ManagerClient \/ GetManagedObjects
    BY <2>1 DEF Registers, LoopRuns, UPowerClient, Login1GetAllAsync, Login1Registers,
       Systemd1ManagerClient, GetManagedObjects, handler, copy, Phased, NotStarted
  <2>2. CASE NextObject \/ Lists
    BY <2>2 DEF NextObject, Lists, copy, Phased, NotStarted
  <2>3. CASE Throws
    BY <2>3 DEF Throws, copy, Phased, NotStarted, IsFirst
  <2>4. ASSUME NEW k \in Kinds, PassesOver(k) \/ Makes(k) \/ EndsFetch(k) PROVE Phased'
    BY <2>4 DEF PassesOver, Makes, EndsFetch, Enters, Phased, NotStarted, IsFirst
  <2>5. ASSUME NEW k \in Kinds, StartsFetch(k) PROVE Phased'
    BY <2>5, OutcomesOf DEF StartsFetch, copy, Phased, NotStarted, IsFirst
  <2>6. CASE onAdded \/ onRemoved \/ onPropertiesChanged \/ onGetAll \/ onDropped
             \/ onEnumerateDevices \/ onLogin1GetAll
    BY <2>6 DEF onAdded, onRemoved, onPropertiesChanged, onGetAll, onDropped,
       onEnumerateDevices, onLogin1GetAll, Receives, handler, Phased, NotStarted
  <2> QED
    BY <1>2, <2>1, <2>2, <2>3, <2>4, <2>5, <2>6 DEF ClientStep
<1>3. CASE Answers \/ ServiceStep \/ UNCHANGED vars
  <2>0. UNCHANGED <<client, phase, toList, work, cur, fetching, mirror>>
    BY <1>3 DEF Answers, AnswersList, AnswersGetAll, ServiceStep, Exports, Unexports, Changes,
       vars, handler, copy
  <2>1. asked' = asked \/ asked' = FALSE
    BY <1>3 DEF Answers, AnswersList, AnswersGetAll, ServiceStep, Exports, Unexports, Changes,
       vars
  <2>2. phase \in {"new", "asking"} => Without(queue', "added")
    <3>1. phase \in {"new", "asking"} => Without(queue, "added") /\ ~Announces
      BY DEF Phased, Without, Announces
    <3>2. phase \in {"new", "asking"} =>
            \/ queue' = queue
            \/ \E m \in Messages : queue' = Append(queue, m) /\ m.type # "added"
      BY <3>1, QueueChange
    <3>3. \A m \in Messages : Without(queue, "added") /\ m.type # "added"
                              => Without(Append(queue, m), "added")
      BY <1>1, QueueSteps
    <3> QED
      BY <3>1, <3>2, <3>3
  <2>3. phase = "new" => Without(queue', "list")
    <3>1. phase = "new" => Without(queue, "list") /\ ~asked
      BY DEF Phased, Without
    <3>2. phase = "new" =>
            \/ queue' = queue
            \/ \E m \in Messages : queue' = Append(queue, m) /\ m.type # "list"
      BY <3>1, QueueChange
    <3>3. \A m \in Messages : Without(queue, "list") /\ m.type # "list"
                              => Without(Append(queue, m), "list")
      BY <1>1, QueueSteps
    <3> QED
      BY <3>1, <3>2, <3>3
  <2> QED
    BY <2>0, <2>1, <2>2, <2>3 DEF Phased, Without, NotStarted
<1> QED
  BY <1>2, <1>3 DEF Next

(* A UPower client with a filter holds no other device.                    *)
LEMMA FilteredStep ==
  ASSUME TypeOK, Phased, Filtered, [Next]_vars
  PROVE  Filtered'
<1>0. client' = client /\ filter' = filter
  BY DEF Next, ClientStep, Registers, GetManagedObjects, LoopRuns, UPowerClient,
     Login1GetAllAsync, Login1Registers, Systemd1ManagerClient, NextObject, Throws, Lists,
     PassesOver, Makes, Enters, StartsFetch, EndsFetch, onAdded, onRemoved,
     onPropertiesChanged, onGetAll, onDropped, onEnumerateDevices, onLogin1GetAll, Answers,
     AnswersList, AnswersGetAll, ServiceStep, Exports, Unexports, Changes, vars
<1> SUFFICES ASSUME client = "upower", NEW j \in Kinds, NEW q \in mirror'[j]
             PROVE  filter \in {AnyDevice, q}
  BY <1>0 DEF Filtered
<1>1. ASSUME q \in mirror[j] PROVE filter \in {AnyDevice, q}
  BY <1>1 DEF Filtered
<1>2. ASSUME NEW k \in Kinds, Makes(k) PROVE filter \in {AnyDevice, q}
  <2>1. q \in mirror[j] \/ q = cur.path
    BY <1>2 DEF Makes, Enters, TypeOK
  <2>2. filter \in {AnyDevice, cur.path}
    BY <1>2, OutcomesOf DEF Makes
  <2> QED
    BY <1>1, <2>1, <2>2
<1>3. CASE onRemoved
  <2>1. mirror'[j] \subseteq mirror[j]
    BY <1>3 DEF onRemoved, Erases, UPowerErases, TypeOK
  <2> QED
    BY <1>1, <2>1
<1>4. CASE mirror' = mirror
  BY <1>1, <1>4
<1>5. \/ mirror' = mirror \/ onRemoved
      \/ \E k \in Kinds : Makes(k) \/ EndsFetch(k)
  BY DEF Next, ClientStep, Registers, GetManagedObjects, LoopRuns, UPowerClient,
     Login1GetAllAsync, Login1Registers, Systemd1ManagerClient, NextObject, Throws, Lists,
     PassesOver, StartsFetch, onAdded, onPropertiesChanged, onGetAll, onDropped,
     onEnumerateDevices, onLogin1GetAll, Answers, AnswersList, AnswersGetAll, ServiceStep,
     Exports, Unexports, Changes, vars, copy
<1>6. \A k \in Kinds : ~EndsFetch(k)
  BY DEF EndsFetch, Phased
<1> QED
  BY <1>2, <1>3, <1>4, <1>5, <1>6

-----------------------------------------------------------------------------
(* A step that leaves the queue alone and only takes up what is exported.  *)
LEMMA QuietKeeps ==
  ASSUME Truthful, Announced, queue' = queue, client' = client, exported' = exported,
         \A k \in Kinds, p \in Paths : StandsFor(k, p)' => StandsFor(k, p) \/ k \in exported[p]
  PROVE  Truthful' /\ Announced'
<1>1. Truthful'
  BY DEF Truthful, RemovedAfter
<1>2. Announced'
  BY DEF Announced, RemovedAfter, Tells
<1> QED
  BY <1>1, <1>2

(* A handler that takes up no more than the message it was called with.    *)
LEMMA ConsumeKeeps ==
  ASSUME TypeOK, Truthful, Announced, queue # <<>>, queue[1].type # "removed",
         queue' = Tail(queue), client' = client, exported' = exported,
         \A k \in Kinds, p \in Paths :
           StandsFor(k, p)' => StandsFor(k, p) \/ Tells(queue[1], k, p)
  PROVE  Truthful' /\ Announced'
<1>0. queue \in Seq(Messages)
  BY DEF TypeOK
<1>1. /\ 1 \in 1..Len(queue) /\ Len(queue') = Len(queue) - 1
      /\ \A i \in 1..Len(queue') : queue'[i] = queue[i + 1] /\ i + 1 \in 1..Len(queue) /\ i \in Nat
  BY <1>0
<1>2. Truthful'
  <2> SUFFICES ASSUME NEW k \in Kinds, NEW p \in Paths, StandsFor(k, p)',
                      ~RemovedAfter(queue', 0, k, p)
               PROVE  k \in exported[p]
    BY DEF Truthful, RemovedAfter
  <2>1. ~RemovedAfter(queue, 0, k, p) /\ ~RemovedAfter(queue, 0 + 1, k, p)
    BY <1>0, TailRemoved
  <2>2. CASE StandsFor(k, p)
    BY <2>1, <2>2 DEF Truthful
  <2>3. CASE Tells(queue[1], k, p)
    BY <1>1, <2>1, <2>3 DEF Announced
  <2> QED
    BY <2>2, <2>3
<1>3. Announced'
  <2> SUFFICES ASSUME NEW i \in 1..Len(queue'), NEW k \in Kinds, NEW p \in Paths,
                      Tells(queue'[i], k, p), ~RemovedAfter(queue', i, k, p)
               PROVE  k \in exported[p]
    BY DEF Announced, RemovedAfter, Tells
  <2>1. ~RemovedAfter(queue, i + 1, k, p)
    BY <1>0, <1>1, TailRemoved
  <2> QED
    BY <1>1, <2>1 DEF Announced
<1> QED
  BY <1>2, <1>3

(* A message sent by the service, which says what has happened to it.      *)
LEMMA AppendKeeps ==
  ASSUME TypeOK, Truthful, Announced, NEW m \in Messages, queue' = Append(queue, m),
         client' = client,
         \A k \in Kinds, p \in Paths :
           /\ StandsFor(k, p)' => StandsFor(k, p)
           /\ k \in exported[p] => \/ k \in exported'[p]
                                   \/ m.type = "removed" /\ k \in m.kinds /\ m.paths = {p}
           /\ Tells(m, k, p) => k \in exported'[p]
  PROVE  Truthful' /\ Announced'
<1>0. queue \in Seq(Messages)
  BY DEF TypeOK
<1>2. ASSUME NEW i \in 0..Len(queue), NEW k \in Kinds, NEW p \in Paths,
             ~RemovedAfter(queue', i, k, p)
      PROVE  ~RemovedAfter(queue, i, k, p) /\ (k \in exported[p] => k \in exported'[p])
  <2>1. ~RemovedAfter(queue, i, k, p)
    BY <1>0, <1>2, AppendRemoved
  <2>2. ~(m.type = "removed" /\ k \in m.kinds /\ m.paths = {p})
    BY <1>0, <1>2, AppendedRemoval
  <2> QED
    BY <2>1, <2>2
<1>3. Truthful'
  <2> SUFFICES ASSUME NEW k \in Kinds, NEW p \in Paths, StandsFor(k, p)',
                      ~RemovedAfter(queue', 0, k, p)
               PROVE  k \in exported'[p]
    BY DEF Truthful, RemovedAfter
  <2>1. 0 \in 0..Len(queue)
    BY <1>0
  <2> QED
    BY <1>2, <2>1 DEF Truthful
<1>4. Announced'
  <2> SUFFICES ASSUME NEW i \in 1..Len(queue'), NEW k \in Kinds, NEW p \in Paths,
                      Tells(queue'[i], k, p), ~RemovedAfter(queue', i, k, p)
               PROVE  k \in exported'[p]
    BY DEF Announced, RemovedAfter, Tells
  <2>1. queue'[i] = m \/ (i \in 1..Len(queue) /\ i \in 0..Len(queue) /\ queue'[i] = queue[i])
    BY <1>0
  <2>2. CASE queue'[i] = m
    BY <2>2
  <2>3. CASE i \in 1..Len(queue) /\ i \in 0..Len(queue) /\ queue'[i] = queue[i]
    BY <1>2, <2>3 DEF Announced
  <2> QED
    BY <2>1, <2>2, <2>3
<1> QED
  BY <1>3, <1>4

(* A handled removal leaves nothing that stands for what was removed.      *)
LEMMA RemovalKeeps ==
  ASSUME TypeOK, Proper, Truthful, Announced, onRemoved
  PROVE  Truthful' /\ Announced'
<1>0. queue \in Seq(Messages) /\ queue # <<>> /\ client' = client /\ exported' = exported
  BY DEF TypeOK, onRemoved, Receives, service
<1>H. Head(queue) = queue[1]
  BY <1>0
<1>1. PICK r \in Paths :
        /\ queue[1].paths = {r}
        /\ mirror' = [k \in Kinds |-> IF k \in queue[1].kinds THEN Erases(k, r) ELSE mirror[k]]
        /\ queue' = Cancelled(Tail(queue), queue[1].kinds, {r})
  BY <1>H DEF onRemoved
<1>2. cur' = cur /\ cur.kinds = {} /\ work' = work /\ work = {} /\ queue[1].type = "removed"
  BY <1>H DEF onRemoved, Receives, Idle, handler
<1>3. \A k \in Kinds : /\ Erases(k, r) \subseteq mirror[k] /\ r \notin Erases(k, r)
  BY MirrorAssumption DEF Erases, BluezErases, UDisks2Erases, Login1Erases, UPowerErases,
     Systemd1Erases, TypeOK, MirrorAssumption, Proper, Filtered
<1>4. ASSUME NEW k \in Kinds, NEW p \in Paths, StandsFor(k, p)'
      PROVE  StandsFor(k, p) /\ ~(k \in queue[1].kinds /\ queue[1].paths = {p})
  BY <1>1, <1>2, <1>3, <1>4 DEF StandsFor, TypeOK
<1> DEFINE t == Tail(queue)
<1>5. t \in Seq(Messages) /\ Len(t) = Len(queue) - 1
  BY <1>0
<1>6. Truthful'
  <2> SUFFICES ASSUME NEW k \in Kinds, NEW p \in Paths, StandsFor(k, p)',
                      ~RemovedAfter(queue', 0, k, p)
               PROVE  k \in exported[p]
    BY <1>0 DEF Truthful, RemovedAfter
  <2>1. ~RemovedAfter(t, 0, k, p)
    BY <1>1, <1>5, CancelledRemoved
  <2>2. ~RemovedAfter(queue, 0, k, p)
    BY <1>0, <1>4, <2>1, TailRemoved
  <2> QED
    BY <1>4, <2>2 DEF Truthful
<1>7. Announced'
  <2> SUFFICES ASSUME NEW i \in 1..Len(queue'), NEW k \in Kinds, NEW p \in Paths,
                      Tells(queue'[i], k, p), ~RemovedAfter(queue', i, k, p)
               PROVE  k \in exported[p]
    BY <1>0 DEF Announced, RemovedAfter, Tells
  <2>0. Len(queue') = Len(t)
    BY <1>1, <1>5, CancelledKeeps
  <2>1. i \in 1..Len(t) /\ i \in Nat
    BY <1>0, <1>5, <2>0
  <2>2. ~RemovedAfter(t, i, k, p) /\ Tells(t[i], k, p)
    BY <1>1, <1>5, <2>1, CancelledRemoved
  <2>3. ~RemovedAfter(queue, i + 1, k, p)
    BY <1>0, <2>1, <2>2, TailRemoved
  <2>4. i + 1 \in 1..Len(queue) /\ t[i] = queue[i + 1]
    BY <1>0, <1>5, <2>1
  <2> QED
    BY <2>2, <2>3, <2>4 DEF Announced
<1> QED
  BY <1>6, <1>7

(* The invariant holds in every state: whatever stands for an interface of *)
(* an object, or announces it, is true unless a removal is queued behind   *)
(* it.                                                                     *)
THEOREM GhostInvariant == Spec => []GhostInv
<1>1. Init => GhostInv
  <2> SUFFICES ASSUME Init PROVE GhostInv
    OBVIOUS
  <2>1. queue = <<>> /\ work = {} /\ cur.kinds = {} /\ mirror = [k \in Kinds |-> {}]
    BY NoObjectType DEF Init
  <2>2. Shaped /\ KnownKinds /\ Phased /\ Filtered
    <3>1. Shaped
      BY DEF Init, Shaped
    <3>2. KnownKinds /\ Filtered
      BY <2>1 DEF KnownKinds, Filtered
    <3>3. Phased
      BY <2>1 DEF Init, Phased, NotStarted
    <3> QED
      BY <3>1, <3>2, <3>3
  <2>3. Truthful /\ Announced
    BY <2>1 DEF Truthful, Announced, StandsFor
  <2> QED
    BY <2>2, <2>3 DEF GhostInv, Proper
<1>2. TypeOK /\ GhostInv /\ [Next]_vars => GhostInv'
  <2> SUFFICES ASSUME TypeOK, GhostInv, [Next]_vars PROVE GhostInv'
    OBVIOUS
  <2>0. Proper /\ Truthful /\ Announced
    BY DEF GhostInv
  <2>1. Proper'
    BY <2>0, ShapedStep, KnownKindsStep, PhasedStep, FilteredStep DEF Proper
  <2> SUFFICES Truthful' /\ Announced'
    BY <2>1 DEF GhostInv
  <2>Q. queue \in Seq(Messages)
    BY DEF TypeOK
  <2>2. CASE Registers \/ LoopRuns \/ UPowerClient \/ Login1GetAllAsync \/ Login1Registers
             \/ Systemd1ManagerClient \/ UNCHANGED vars
    <3>1. UNCHANGED <<queue, client, exported, mirror, cur, work>>
      BY <2>2 DEF Registers, LoopRuns, UPowerClient, Login1GetAllAsync, Login1Registers,
         Systemd1ManagerClient, vars, handler, copy, service
    <3>2. \A k \in Kinds, p \in Paths : StandsFor(k, p)' => StandsFor(k, p)
      BY <3>1 DEF StandsFor
    <3> QED
      BY <2>0, <3>1, <3>2, QuietKeeps
  <2>3. CASE GetManagedObjects \/ Lists
    <3>1. UNCHANGED <<queue, client, exported, mirror, cur>>
      BY <2>3 DEF GetManagedObjects, Lists, copy, service
    <3>2. work' = work \/ \E ks : work' = Managed(ks)
      BY <2>3 DEF GetManagedObjects, Lists
    <3>3. \A k \in Kinds, p \in Paths : StandsFor(k, p)' => StandsFor(k, p) \/ k \in exported[p]
      BY <3>1, <3>2, ManagedExported DEF StandsFor
    <3> QED
      BY <2>0, <3>1, <3>3, QuietKeeps
  <2>4. CASE NextObject
    <3>1. UNCHANGED <<queue, client, exported, mirror>>
      BY <2>4 DEF NextObject, copy, service
    <3>2. \A k \in Kinds, p \in Paths : StandsFor(k, p)' => StandsFor(k, p)
      BY <2>4, <3>1 DEF NextObject, StandsFor
    <3> QED
      BY <2>0, <3>1, <3>2, QuietKeeps
  <2>5. CASE Throws
    <3>1. UNCHANGED <<queue, client, exported, mirror, work>>
      BY <2>5 DEF Throws, copy, service
    <3>2. cur' = cur \/ cur'.kinds = {}
      BY <2>5, NoObjectType DEF Throws
    <3>3. \A k \in Kinds, p \in Paths : StandsFor(k, p)' => StandsFor(k, p)
      BY <3>1, <3>2 DEF StandsFor
    <3> QED
      BY <2>0, <3>1, <3>3, QuietKeeps
  <2>6. ASSUME NEW j \in Kinds, PassesOver(j) \/ StartsFetch(j) PROVE Truthful' /\ Announced'
    <3>1. UNCHANGED <<queue, client, exported, mirror, work>>
      BY <2>6 DEF PassesOver, StartsFetch, copy, service
    <3>2. cur' = cur \/ Done(j)
      BY <2>6 DEF PassesOver, StartsFetch
    <3>3. \A k \in Kinds, p \in Paths : StandsFor(k, p)' => StandsFor(k, p)
      BY <3>1, <3>2, DoneType DEF StandsFor
    <3> QED
      BY <2>0, <3>1, <3>3, QuietKeeps
  <2>7. ASSUME NEW j \in Kinds, Makes(j) \/ EndsFetch(j) PROVE Truthful' /\ Announced'
    <3>1. UNCHANGED <<queue, client, exported, work>> /\ Done(j) /\ j \in cur.kinds
      BY <2>7 DEF Makes, EndsFetch, Enters, IsFirst, service
    <3>2. \A k \in Kinds : \A p \in mirror'[k] : p \in mirror[k] \/ (k = j /\ p = cur.path)
      BY <2>7 DEF Makes, EndsFetch, Enters, TypeOK
    <3>3. \A k \in Kinds, p \in Paths : StandsFor(k, p)' => StandsFor(k, p)
      BY <3>1, <3>2, DoneType DEF StandsFor
    <3> QED
      BY <2>0, <3>1, <3>3, QuietKeeps
  <2>8. CASE onAdded
    <3>1. /\ queue # <<>> /\ Head(queue) = queue[1] /\ queue[1].type = "added"
          /\ queue' = Tail(queue) /\ UNCHANGED <<client, exported, mirror, work>>
          /\ \E q \in queue[1].paths :
               cur' = [path |-> q, kinds |-> queue[1].kinds, val |-> queue[1].val]
      BY <2>Q, <2>8 DEF onAdded, Receives, copy, service
    <3>2. \A k \in Kinds, p \in Paths : StandsFor(k, p)' => StandsFor(k, p) \/ Tells(queue[1], k, p)
      BY <3>1 DEF StandsFor, Tells
    <3> QED
      BY <2>0, <3>1, <3>2, ConsumeKeeps
  <2>9. CASE onRemoved
    BY <2>0, <2>9, RemovalKeeps
  <2>10. CASE onPropertiesChanged \/ onGetAll \/ onDropped \/ onLogin1GetAll
    <3>1. /\ queue # <<>> /\ Head(queue) = queue[1] /\ queue[1].type # "removed"
          /\ queue' = Tail(queue) /\ UNCHANGED <<client, exported, mirror, work, cur>>
      BY <2>Q, <2>10 DEF onPropertiesChanged, onGetAll, onDropped, onLogin1GetAll, Receives,
         copy, service, handler
    <3>2. \A k \in Kinds, p \in Paths : StandsFor(k, p)' => StandsFor(k, p)
      BY <3>1 DEF StandsFor
    <3> QED
      BY <2>0, <3>1, <3>2, ConsumeKeeps
  <2>11. CASE onEnumerateDevices
    <3>1. /\ queue # <<>> /\ Head(queue) = queue[1] /\ queue[1].type = "list"
          /\ queue' = Tail(queue) /\ UNCHANGED <<client, exported, mirror, cur>>
          /\ client = "upower"
          /\ work' = {[path |-> q, kinds |-> {"DisplayDevice"}, val |-> queue[1].val] :
                        q \in queue[1].paths}
      BY <2>Q, <2>11 DEF onEnumerateDevices, Receives, copy, service
    <3>2. \A k \in Kinds, p \in Paths : StandsFor(k, p)' => StandsFor(k, p) \/ Tells(queue[1], k, p)
      BY <3>1 DEF StandsFor, Tells
    <3> QED
      BY <2>0, <3>1, <3>2, ConsumeKeeps
  <2>12. ASSUME NEW m \in Messages, queue' = Append(queue, m),
                UNCHANGED <<client, exported, mirror, cur, work>>,
                \A k \in Kinds, p \in Paths : Tells(m, k, p) => k \in exported[p]
         PROVE  Truthful' /\ Announced'
    <3>1. \A k \in Kinds, p \in Paths : StandsFor(k, p)' => StandsFor(k, p)
      BY <2>12 DEF StandsFor
    <3> QED
      BY <2>0, <2>12, <3>1, AppendKeeps
  <2>13. ASSUME UNCHANGED <<queue, client, exported, mirror, cur, work>>
         PROVE  Truthful' /\ Announced'
    <3>1. \A k \in Kinds, p \in Paths : StandsFor(k, p)' => StandsFor(k, p)
      BY <2>13 DEF StandsFor
    <3> QED
      BY <2>0, <2>13, <3>1, QuietKeeps
  <2>14. CASE AnswersList
    <3> DEFINE m == [type |-> "list", kinds |-> {}, val |-> 1,
                     paths |-> {p \in Paths : exported[p] # {}}]
    <3>1. m \in Messages
      BY DEF Messages, Types, Versions
    <3>2. UNCHANGED <<client, exported, mirror, cur, work>>
      BY <2>14 DEF AnswersList, handler, copy, service
    <3>3. \A k \in Kinds, p \in Paths : Tells(m, k, p) => k \in exported[p]
      <4> SUFFICES ASSUME NEW p \in Paths, client = "upower", exported[p] # {}
                   PROVE  "DisplayDevice" \in exported[p]
        BY DEF Tells
      <4> QED
        BY <2>0 DEF Proper, Shaped, Shapes
    <3>4. queue' = Append(queue, m) \/ queue' = queue
      BY <2>14 DEF AnswersList
    <3> HIDE DEF m
    <3> QED
      BY <2>12, <2>13, <3>1, <3>2, <3>3, <3>4
  <2>15. ASSUME NEW j \in Kinds, NEW q \in Paths, AnswersGetAll(j, q)
         PROVE  Truthful' /\ Announced'
    <3>1. {j} \in SUBSET Kinds /\ value[q] \in Versions /\ "reply" \in Types
      BY DEF TypeOK, Types
    <3>2. \/ queue' = queue
          \/ \E m \in Messages : queue' = Append(queue, m) /\ m.type = "reply"
      BY <2>15, <3>1, Sent DEF AnswersGetAll
    <3>3. UNCHANGED <<client, exported, mirror, cur, work>>
      BY <2>15 DEF AnswersGetAll, handler, copy, service
    <3> QED
      BY <2>12, <2>13, <3>2, <3>3 DEF Tells
  <2>16. ASSUME NEW q \in Paths, Changes(q) PROVE Truthful' /\ Announced'
    <3>1. exported[q] \in SUBSET Kinds /\ value[q] + 1 \in Versions /\ "changed" \in Types
      BY DEF TypeOK, Types, Versions
    <3>2. \/ queue' = queue
          \/ \E m \in Messages : queue' = Append(queue, m) /\ m.type = "changed"
      BY <2>16, <3>1, Sent DEF Changes
    <3>3. UNCHANGED <<client, exported, mirror, cur, work>>
      BY <2>16 DEF Changes, handler, copy
    <3> QED
      BY <2>12, <2>13, <3>2, <3>3 DEF Tells
  <2>17. ASSUME NEW q \in Paths, NEW ks \in SUBSET shape[q], Exports(q, ks)
         PROVE  Truthful' /\ Announced'
    <3> DEFINE m == [type |-> "added", paths |-> {q}, kinds |-> ks, val |-> value[q]]
    <3>1. m \in Messages
      BY DEF TypeOK, Messages, Types
    <3>2. UNCHANGED <<client, mirror, cur, work>>
      BY <2>17 DEF Exports, handler, copy
    <3>3. \A k \in Kinds, p \in Paths : /\ k \in exported[p] => k \in exported'[p]
                                        /\ Tells(m, k, p) => k \in exported'[p]
      BY <2>17 DEF Exports, Tells, TypeOK
    <3>4. \A k \in Kinds, p \in Paths : StandsFor(k, p)' => StandsFor(k, p)
      BY <3>2 DEF StandsFor
    <3>5. queue' = Append(queue, m) \/ queue' = queue
      BY <2>17 DEF Exports, Send
    <3> HIDE DEF m
    <3>6. CASE queue' = Append(queue, m)
      BY <2>0, <3>1, <3>2, <3>3, <3>4, <3>6, AppendKeeps
    <3>7. CASE queue' = queue
      <4>1. Truthful'
        BY <2>0, <3>3, <3>4, <3>7 DEF Truthful, RemovedAfter
      <4>2. Announced'
        BY SMTT(30), <2>0, <3>2, <3>3, <3>7 DEF Announced, RemovedAfter, Tells
      <4> QED
        BY <4>1, <4>2
    <3> QED
      BY <3>5, <3>6, <3>7
  <2>18. ASSUME NEW q \in Paths, NEW ks \in SUBSET shape[q], Unexports(q, ks)
         PROVE  Truthful' /\ Announced'
    <3> DEFINE m == [type |-> "removed", paths |-> {q}, kinds |-> ks, val |-> value[q]]
    <3>1. m \in Messages /\ m.type = "removed" /\ m.kinds = ks /\ m.paths = {q}
      BY DEF TypeOK, Messages, Types
    <3>2. UNCHANGED <<client, mirror, cur, work>>
      BY <2>18 DEF Unexports, handler, copy
    <3>3. \A k \in Kinds, p \in Paths :
            k \in exported[p] => k \in exported'[p] \/ (k \in ks /\ p = q)
      BY <2>18 DEF Unexports, TypeOK
    <3>4. \A k \in Kinds, p \in Paths : StandsFor(k, p)' => StandsFor(k, p)
      BY <3>2 DEF StandsFor
    <3>5. \/ Announces /\ queue' = Append(queue, m)
          \/ ~Announces /\ queue' = queue
      BY <2>18 DEF Unexports, Send
    <3> HIDE DEF m
    <3>6. CASE Announces /\ queue' = Append(queue, m)
      <4>1. \A k, p : ~Tells(m, k, p)
        BY <3>1 DEF Tells
      <4> QED
        BY <2>0, <3>1, <3>2, <3>3, <3>4, <3>6, <4>1, AppendKeeps
    <3>7. CASE ~Announces /\ queue' = queue
      <4>1. phase \in {"new", "asking"}
        BY <2>18, <3>7 DEF Unexports, Event, Announces, TypeOK
      <4>2. \A k \in Kinds, p \in Paths : ~StandsFor(k, p)
        BY <2>0, <4>1 DEF StandsFor, Proper, Phased, NotStarted
      <4>3. \A i \in 1..Len(queue) : \A k, p : ~Tells(queue[i], k, p)
        BY <2>0, <4>1 DEF Tells, Proper, Phased
      <4>4. Truthful'
        BY <3>4, <4>2 DEF Truthful
      <4>5. Announced'
        BY <3>2, <3>7, <4>3 DEF Announced, Tells
      <4> QED
        BY <4>4, <4>5
    <3> QED
      BY <3>5, <3>6, <3>7
  <2> QED
    BY <2>2, <2>3, <2>4, <2>5, <2>6, <2>7, <2>8, <2>9, <2>10, <2>11, <2>14, <2>15, <2>16,
       <2>17, <2>18 DEF Next, ClientStep, Answers, ServiceStep
<1> QED
  BY <1>1, <1>2, MirrorTypeCorrect, PTL DEF Spec

(* No proxy object outlives its object once the queue is drained, for any  *)
(* number of objects, in any of the five clients.                          *)
THEOREM MirrorNoGhosts == Spec => []NoGhost
<1>1. TypeOK /\ GhostInv => NoGhost
  <2> SUFFICES ASSUME TypeOK, GhostInv, Drained, NEW k \in Kinds, NEW p \in mirror[k]
               PROVE  k \in exported[p]
    BY DEF NoGhost
  <2>1. p \in Paths /\ queue = <<>>
    BY DEF TypeOK, Drained
  <2>2. ~RemovedAfter(queue, 0, k, p)
    BY <2>1 DEF RemovedAfter
  <2> QED
    BY <2>1, <2>2 DEF GhostInv, Truthful, StandsFor
<1> QED
  BY <1>1, MirrorTypeCorrect, GhostInvariant, PTL

-----------------------------------------------------------------------------
(* The limits, together with the finiteness that makes them countable.     *)
LimitInv == WithinLimit /\ \A k \in Kinds : IsFiniteSet(mirror[k])

(* A limited map takes a new path only below its limit.                    *)
LEMMA RoomForOne ==
  ASSUME TypeOK, Proper, NEW k \in Limited, NEW p, k \in cur.kinds, Adds(k, p, "made")
  PROVE  p \in mirror[k] \/ ~IsAtCapacity(k)
<1>1. k \in KindsOf
  BY DEF Proper, KnownKinds
<1> QED
  BY <1>1 DEF Adds, BluezAdds, UDisks2Adds, Login1Adds, UPowerAdds, Systemd1Adds, KindsOf,
     Shapes, Limited

(* No map with a limit outgrows it (resource_limits.h), and a manager is a *)
(* single one, whatever the limit and however many objects there are.      *)
THEOREM MirrorWithinLimit == Spec => []WithinLimit
<1>1. Init => LimitInv
  <2> SUFFICES ASSUME Init PROVE LimitInv
    OBVIOUS
  <2>1. \A k \in Kinds : mirror[k] = {}
    BY DEF Init
  <2> QED
    BY <2>1, FS_EmptySet, MirrorAssumption DEF LimitInv, WithinLimit, MirrorAssumption
<1>2. TypeOK /\ GhostInv /\ LimitInv /\ [Next]_vars => LimitInv'
  <2> SUFFICES ASSUME TypeOK, GhostInv, LimitInv, [Next]_vars PROVE LimitInv'
    OBVIOUS
  <2> DEFINE Fits(k, S) == /\ IsFiniteSet(S) /\ (k \in Limited => Cardinality(S) <= Limit)
                           /\ (k \in Single => Cardinality(S) <= 1)
  <2>0. \A k \in Kinds : Fits(k, mirror[k])
    BY DEF LimitInv, WithinLimit
  <2> SUFFICES \A k \in Kinds : Fits(k, mirror'[k])
    BY DEF LimitInv, WithinLimit
  <2>1. ASSUME NEW k \in Kinds, mirror'[k] \subseteq mirror[k] PROVE Fits(k, mirror'[k])
    <3>1. /\ IsFiniteSet(mirror'[k]) /\ Cardinality(mirror'[k]) <= Cardinality(mirror[k])
          /\ Cardinality(mirror'[k]) \in Nat /\ Cardinality(mirror[k]) \in Nat
      BY <2>0, <2>1, FS_Subset, FS_CardinalityType
    <3> QED
      BY <2>0, <3>1, MirrorAssumption DEF MirrorAssumption
  <2>2. ASSUME NEW k \in Kinds, Makes(k) \/ EndsFetch(k)
        PROVE  \A j \in Kinds : Fits(j, mirror'[j])
    <3> DEFINE p == cur.path
    <3>1. /\ \A j \in Kinds \ {k} : mirror'[j] = mirror[j]
          /\ mirror'[k] = IF k \in Single THEN {p} ELSE mirror[k] \cup {p}
          /\ k \in cur.kinds
      BY <2>2 DEF Makes, EndsFetch, Enters, IsFirst, TypeOK
    <3>2. k \in Limited => k \notin Single /\ (p \in mirror[k] \/ ~IsAtCapacity(k))
      <4>1. CASE Makes(k)
        BY <4>1, <3>1, RoomForOne DEF Makes, GhostInv, Limited, Single
      <4>2. CASE EndsFetch(k)
        BY <4>2, <3>1 DEF EndsFetch, GhostInv, Proper, Phased, KnownKinds, KindsOf, Shapes,
           Limited
      <4> QED
        BY <2>2, <4>1, <4>2
    <3>3. CASE k \in Single
      <4>1. IsFiniteSet({p}) /\ Cardinality({p}) = 1
        BY FS_Singleton
      <4>2. Fits(k, mirror'[k])
        BY <3>1, <3>2, <3>3, <4>1
      <4> QED
        BY <2>1, <3>1, <4>2
    <3>4. CASE k \notin Single /\ p \in mirror[k]
      <4>1. \A j \in Kinds : mirror'[j] \subseteq mirror[j]
        BY <3>1, <3>4
      <4> QED
        BY <2>1, <4>1
    <3>5. CASE k \notin Single /\ p \notin mirror[k]
      <4>1. /\ IsFiniteSet(mirror[k]) /\ IsFiniteSet(mirror'[k])
            /\ Cardinality(mirror[k]) \in Nat
            /\ Cardinality(mirror'[k]) = Cardinality(mirror[k]) + 1
        BY <2>0, <3>1, <3>5, FS_AddElement, FS_CardinalityType
      <4>2. k \in Limited => Cardinality(mirror[k]) < Limit
        BY <3>2, <3>5, <4>1, MirrorAssumption DEF IsAtCapacity, MirrorAssumption
      <4>3. Fits(k, mirror'[k])
        BY <3>5, <4>1, <4>2, MirrorAssumption DEF MirrorAssumption
      <4> QED
        BY <2>1, <3>1, <4>3
    <3> QED
      BY <3>3, <3>4, <3>5
  <2>3. CASE onRemoved
    <3>1. \A k \in Kinds : mirror'[k] \subseteq mirror[k]
      BY <2>3, MirrorAssumption DEF onRemoved, Erases, BluezErases, UDisks2Erases,
         Login1Erases, UPowerErases, Systemd1Erases, TypeOK, MirrorAssumption
    <3> QED
      BY <2>1, <3>1
  <2>4. CASE mirror' = mirror
    BY <2>1, <2>4
  <2>5. \/ mirror' = mirror \/ onRemoved
        \/ \E k \in Kinds : Makes(k) \/ EndsFetch(k)
    BY DEF Next, ClientStep, Registers, GetManagedObjects, LoopRuns, UPowerClient,
       Login1GetAllAsync, Login1Registers, Systemd1ManagerClient, NextObject, Throws, Lists,
       PassesOver, StartsFetch, onAdded, onPropertiesChanged, onGetAll, onDropped,
       onEnumerateDevices, onLogin1GetAll, Answers, AnswersList, AnswersGetAll, ServiceStep,
       Exports, Unexports, Changes, vars, copy
  <2> QED
    BY <2>2, <2>3, <2>4, <2>5
<1>3. LimitInv => WithinLimit
  BY DEF LimitInv
<1> QED
  BY <1>1, <1>2, <1>3, MirrorTypeCorrect, GhostInvariant, PTL DEF Spec
=============================================================================
