---------------------------- MODULE ObjectMirror ----------------------------
(***************************************************************************)
(* The clients that mirror the objects of a service: BluezClient,          *)
(* UDisks2Manager, Login1ManagerClient, UPowerClient and                   *)
(* Systemd1ManagerClient.  Each keeps one proxy object per object of the   *)
(* service, made and destroyed by the service's signals, after it has      *)
(* enumerated what exists already.  They differ in how they enumerate, in  *)
(* what a proxy object does when it is made and in which objects they skip;*)
(* the variable client says which one a behaviour is about.                *)
(*                                                                         *)
(* All of them run on the loop's thread, where a handler makes synchronous *)
(* calls: the service goes on meanwhile, and its signals queue up behind   *)
(* the handler.  A reply that was waited for therefore overtakes signals   *)
(* the service sent before it; the reply to an asynchronous call does not. *)
(*                                                                         *)
(* One kind of object stands for the others a client treats alike: Device1 *)
(* for the limited maps of BlueZ, GattCharacteristic1 for descriptors,     *)
(* GattManager1 for the five single managers, Block and Filesystem for the *)
(* maps of UDisks2, Session for users.                                     *)
(***************************************************************************)
EXTENDS Naturals, Sequences, FiniteSets

CONSTANTS
  Clients,   \* the clients to look at
  Paths,     \* object paths; a path is used again
  AnyDevice, \* an empty device_filter_
  Limit,     \* kMaxAdapters, kMaxDevices, kMaxGattCharacteristics, kMaxUnits
  MaxEvents  \* bound on what the service does

ASSUME MirrorAssumption ==
  /\ Clients \subseteq {"bluez", "udisks2", "login1", "upower", "systemd1"}
  /\ Paths # {} /\ AnyDevice \notin Paths
  /\ Limit \in Nat /\ MaxEvents \in Nat

VARIABLES
  client,   \* which client this is
  shape,    \* the interfaces of the object at each path, when it is there
  filter,   \* device_filter_ of UPowerClient
  phase,    \* how far the constructor is; "running" in the event loop
  asked,    \* an asynchronous call of the constructor is on its way
  toList,   \* login1: the lists still to be fetched in the handler of the reply
  work,     \* enumerated objects still to be handled
  cur,      \* the object at hand and its interfaces still to be handled
  fetching, \* the proxy of the first of them is registered, its GetAll() is not back
  mirror,   \* the paths in each map; at most one for a single manager
  cache,    \* the properties each proxy object holds, or last printed
  pending,  \* GetAllAsync() of proxy objects on their way
  exported, \* the service: the interfaces of each object
  value,    \* the service: the version of each object's properties
  queue,    \* messages for the client
  events,   \* what the service did so far
  unheard,  \* proxy objects that properties passed by
  lost,     \* objects the client decided to skip
  old,      \* objects exported before the client subscribed
  listFailed \* an enumeration failed

handler == <<toList, work, cur, fetching>>
copy    == <<mirror, cache>>
service == <<exported, value, events>>
history == <<unheard, lost, old, listFailed>>
vars    == <<client, shape, filter, phase, asked, handler, copy, pending, service, queue, history>>

-----------------------------------------------------------------------------
(* Kinds of objects, in the order in which the handlers meet the           *)
(* interfaces of one object (a std::map is sorted by interface name).      *)
Rank == [Adapter1 |-> 1, GattManager1 |-> 2, Device1 |-> 1, GattCharacteristic1 |-> 1,
         Block |-> 1, Filesystem |-> 2, NVMe |-> 1,
         Seat |-> 1, Session |-> 1, DisplayDevice |-> 1, Unit |-> 1]
Kinds == DOMAIN Rank

IsFirst(k, ks) == k \in ks /\ \A j \in ks : Rank[k] <= Rank[j]

(* The interfaces an object of the service may have.                       *)
Shapes(c) ==
  CASE c = "bluez"    -> {{"Adapter1", "GattManager1"}, {"Device1"}, {"GattCharacteristic1"}}
    [] c = "udisks2"  -> {{"Block", "Filesystem"}, {"NVMe"}}
    [] c = "login1"   -> {{"Seat"}, {"Session"}}
    [] c = "upower"   -> {{"DisplayDevice"}}
    [] c = "systemd1" -> {{"Unit"}}

Single   == {"GattManager1", "NVMe"}        \* one std::unique_ptr, not a map
Limited  == {"Adapter1", "Device1", "GattCharacteristic1", "Unit"}
Payload  == {"Adapter1", "Device1", "GattCharacteristic1"} \* holds what was announced
Fetched  == {"Block", "Filesystem", "NVMe"}                \* GetAll() when made
FetchedAsync == {"Seat", "Session", "DisplayDevice"}       \* GetAllAsync() when made
Subscribing == (Payload \cup Fetched \cup FetchedAsync) \ {"GattCharacteristic1"}

Versions == Nat \ {0}
Jobs     == [path : Paths, kinds : SUBSET Kinds, val : Versions]
Types    == {"added", "removed", "changed", "reply", "dropped", "list"}
Messages == [type : Types, paths : SUBSET Paths, kinds : SUBSET Kinds, val : Versions]

(* No object is at hand.                                                   *)
NoObject == [path |-> CHOOSE p \in Paths : TRUE, kinds |-> {}, val |-> 1]

Init ==
  /\ client \in Clients
  /\ shape \in [Paths -> Shapes(client)]
  /\ filter \in IF client = "upower" THEN Paths \cup {AnyDevice} ELSE {AnyDevice}
  /\ phase = "new" /\ asked = FALSE
  /\ toList = <<>> /\ work = {} /\ fetching = FALSE
  /\ cur = NoObject
  /\ mirror = [k \in Kinds |-> {}]
  /\ cache = [k \in Kinds |-> [p \in Paths |-> 0]]
  /\ pending = {} /\ queue = <<>>
  /\ \E live \in SUBSET Paths :
       exported = [p \in Paths |-> IF p \in live THEN shape[p] ELSE {}]
  /\ value = [p \in Paths |-> 1] /\ events = 0
  /\ unheard = {} /\ lost = {} /\ old = {} /\ listFailed = FALSE

-----------------------------------------------------------------------------
(* Constructors.  What exists when a client subscribes is not announced.   *)
Existing == {o \in Kinds \X Paths : o[1] \in exported[o[2]]}

Managed(ks) == {[path |-> p, kinds |-> exported[p] \cap ks, val |-> value[p]] :
                  p \in {q \in Paths : exported[q] \cap ks # {}}}

Idle == cur.kinds = {} /\ work = {} /\ toList = <<>>

(* registerProxy() first, then GetManagedObjects(), handled object by      *)
(* object before the loop runs.                                            *)
Registers ==
  /\ client \in {"bluez", "udisks2"} /\ phase = "new"
  /\ phase' = "subscribed" /\ old' = Existing
  /\ UNCHANGED <<client, shape, filter, asked, handler, copy, pending, service, queue,
                 unheard, lost, listFailed>>

GetManagedObjects ==
  /\ phase = "subscribed"
  /\ \/ phase' = "listing" /\ work' = Managed(Kinds)
     \/ phase' = "failed" /\ work' = work
  /\ UNCHANGED <<client, shape, filter, asked, toList, cur, fetching, copy, pending, service,
                 queue, history>>

LoopRuns ==
  /\ phase = "listing" /\ Idle
  /\ phase' = "running"
  /\ UNCHANGED <<client, shape, filter, asked, handler, copy, pending, service, queue, history>>

(* UPowerClient subscribes, then asks for the devices without waiting.     *)
UPowerClient ==
  /\ client = "upower" /\ phase = "new"
  /\ phase' = "running" /\ asked' = TRUE /\ old' = Existing
  /\ UNCHANGED <<client, shape, filter, handler, copy, pending, service, queue,
                 unheard, lost, listFailed>>

(* Login1ManagerClient asks first and subscribes afterwards.               *)
Login1GetAllAsync ==
  /\ client = "login1" /\ phase = "new"
  /\ phase' = "asking" /\ asked' = TRUE
  /\ UNCHANGED <<client, shape, filter, handler, copy, pending, service, queue, history>>

Login1Registers ==
  /\ phase = "asking"
  /\ phase' = "running" /\ old' = Existing
  /\ UNCHANGED <<client, shape, filter, asked, handler, copy, pending, service, queue,
                 unheard, lost, listFailed>>

(* Systemd1ManagerClient subscribes and never asks for the units.          *)
Systemd1ManagerClient ==
  /\ client = "systemd1" /\ phase = "new"
  /\ phase' = "running" /\ old' = Existing
  /\ UNCHANGED <<client, shape, filter, asked, handler, copy, pending, service, queue,
                 unheard, lost, listFailed>>

-----------------------------------------------------------------------------
(* Mutant: one too many.                                                   *)
IsAtCapacityOneMore(k) == Cardinality(mirror[k]) > Limit

IsAtCapacity(k) == Cardinality(mirror[k]) >= Limit

(* What becomes of interface k of the object at p: "known" leaves the      *)
(* proxy object there is, "skip" goes on without one, "made" makes one,    *)
(* "fetch" registers one that waits for GetAll(), "throw" ends the handler.*)

(* Mutant: a device that is announced again is made again.                 *)
BluezAddsAgain(k, p, o) ==
  \/ k # "GattManager1" /\ p \notin mirror[k] /\ IsAtCapacity(k) /\ o = "skip"
  \/ k # "GattManager1" /\ (p \in mirror[k] \/ ~IsAtCapacity(k)) /\ o = "made"
  \/ k = "GattManager1" /\ o = "made"

(* Adapter1 calls StartDiscovery() when made; a characteristic needs its   *)
(* property Service and replaces the one there is.                         *)
BluezAdds(k, p, o) ==
  \/ k \in {"Adapter1", "Device1"} /\ p \in mirror[k] /\ o = "known"
  \/ k \in {"Adapter1", "Device1"} /\ p \notin mirror[k] /\ IsAtCapacity(k) /\ o = "skip"
  \/ k \in {"Adapter1", "Device1"} /\ p \notin mirror[k] /\ ~IsAtCapacity(k) /\ o = "made"
  \/ k = "Adapter1" /\ p \notin mirror[k] /\ ~IsAtCapacity(k) /\ o = "throw"
  \/ k = "GattCharacteristic1" /\ o = "skip"
  \/ k = "GattCharacteristic1" /\ (p \in mirror[k] \/ ~IsAtCapacity(k)) /\ o = "made"
  \/ k = "GattManager1" /\ o = "made"

UDisks2Adds(k, p, o) ==
  IF k # "NVMe" /\ p \in mirror[k] THEN o = "known" ELSE o = "fetch"

Login1Adds(k, p, o) == IF p \in mirror[k] THEN o = "known" ELSE o = "made"

UPowerAdds(k, p, o) ==
  CASE filter \notin {AnyDevice, p} -> o = "skip"
    [] filter \in {AnyDevice, p} /\ p \in mirror[k] -> o = "known"
    [] filter \in {AnyDevice, p} /\ p \notin mirror[k] -> o = "made"

Systemd1Adds(k, p, o) ==
  CASE p \in mirror[k] -> o = "known"
    [] p \notin mirror[k] /\ IsAtCapacity(k) -> o = "skip"
    [] p \notin mirror[k] /\ ~IsAtCapacity(k) -> o = "made"

Adds(k, p, o) ==
  \/ client = "bluez" /\ BluezAdds(k, p, o)
  \/ client = "udisks2" /\ UDisks2Adds(k, p, o)
  \/ client = "login1" /\ Login1Adds(k, p, o)
  \/ client = "upower" /\ UPowerAdds(k, p, o)
  \/ client = "systemd1" /\ Systemd1Adds(k, p, o)

(* The paths of kind k that are left when the object at p loses k.         *)
BluezErases(k, p)    == IF k \in Single THEN {} ELSE mirror[k] \ {p}
UDisks2Erases(k, p)  == IF k = "NVMe" THEN {} ELSE mirror[k] \ {p}
Login1Erases(k, p)   == mirror[k] \ {p}
UPowerErases(k, p)   == IF filter \in {AnyDevice, p} THEN mirror[k] \ {p} ELSE mirror[k]
Systemd1Erases(k, p) == mirror[k] \ {p}

Erases(k, p) ==
  CASE client = "bluez"    -> BluezErases(k, p)
    [] client = "udisks2"  -> UDisks2Erases(k, p)
    [] client = "login1"   -> Login1Erases(k, p)
    [] client = "upower"   -> UPowerErases(k, p)
    [] client = "systemd1" -> Systemd1Erases(k, p)

-----------------------------------------------------------------------------
(* Mutant: the loop over the objects starts over.                          *)
NextObjectAgain ==
  /\ cur.kinds = {} /\ work # {} /\ phase \in {"listing", "running"}
  /\ \E w \in work : cur' = w /\ UNCHANGED work
  /\ UNCHANGED <<client, shape, filter, phase, asked, toList, fetching, copy, pending, service,
                 queue, history>>

(* The loop over the enumerated objects and over the interfaces of one.    *)
NextObject ==
  /\ cur.kinds = {} /\ work # {} /\ phase \in {"listing", "running"}
  /\ \E w \in work : cur' = w /\ work' = work \ {w}
  /\ UNCHANGED <<client, shape, filter, phase, asked, toList, fetching, copy, pending, service,
                 queue, history>>

Done(k) ==
  cur' = IF cur.kinds = {k} THEN NoObject
         ELSE [path |-> cur.path, kinds |-> cur.kinds \ {k}, val |-> cur.val]

PassesOver(k) ==
  /\ phase # "failed" /\ ~fetching /\ IsFirst(k, cur.kinds)
  /\ \/ Adds(k, cur.path, "known") /\ lost' = lost
     \/ Adds(k, cur.path, "skip") /\ lost' = lost \cup {<<k, cur.path>>}
  /\ Done(k)
  /\ UNCHANGED <<client, shape, filter, phase, asked, toList, work, fetching, copy, pending,
                 service, queue, unheard, old, listFailed>>

(* A proxy object with properties v enters its map.                        *)
Enters(k, p, v) ==
  /\ mirror' = [mirror EXCEPT ![k] = IF k \in Single THEN {p} ELSE @ \cup {p}]
  /\ cache' = [cache EXCEPT ![k] = [@ EXCEPT ![p] = v]]
  /\ pending' = IF k \in FetchedAsync THEN pending \cup {<<k, p>>} ELSE pending
  /\ lost' = lost \ {<<k, p>>}
  /\ Done(k)
  /\ UNCHANGED <<client, shape, filter, phase, asked, toList, work, service, queue,
                 old, listFailed>>

Makes(k) ==
  /\ phase # "failed" /\ ~fetching /\ IsFirst(k, cur.kinds)
  /\ Adds(k, cur.path, "made")
  /\ Enters(k, cur.path, IF k \in Payload THEN cur.val ELSE 0)
  /\ UNCHANGED <<fetching, unheard>>

(* The constructor of a UDisks2 proxy object: registerProxy(), GetAll().   *)
StartsFetch(k) ==
  /\ phase # "failed" /\ ~fetching /\ IsFirst(k, cur.kinds)
  /\ Adds(k, cur.path, "fetch")
  /\ fetching' = TRUE
  /\ UNCHANGED <<client, shape, filter, phase, asked, toList, work, cur, copy, pending,
                 service, queue, history>>

(* The reply is newer than every change still queued for the path: these   *)
(* were meant for an earlier proxy object there, and the last change came  *)
(* when there was none.                                                    *)
Changed(i, p) == queue[i].type = "changed" /\ p \in queue[i].paths

Overtakes(p) ==
  /\ \E i \in 1..Len(queue) : Changed(i, p)
  /\ \A i \in 1..Len(queue) : Changed(i, p) => queue[i].val < value[p]

PassedBy(k, p) ==
  unheard' = IF Overtakes(p) THEN unheard \cup {<<k, p>>} ELSE unheard \ {<<k, p>>}

(* Mutant: the properties of the announcement are taken for the reply.     *)
EndsFetchAnnounced(k) ==
  /\ phase # "failed" /\ fetching /\ IsFirst(k, cur.kinds)
  /\ k \in exported[cur.path]
  /\ fetching' = FALSE
  /\ Enters(k, cur.path, cur.val) /\ PassedBy(k, cur.path)

EndsFetch(k) ==
  /\ phase # "failed" /\ fetching /\ IsFirst(k, cur.kinds)
  /\ k \in exported[cur.path]
  /\ fetching' = FALSE
  /\ Enters(k, cur.path, value[cur.path]) /\ PassedBy(k, cur.path)

(* An exception out of a constructor ends the handler, whose caller drops  *)
(* it; out of the client's own constructor it ends the program.            *)
Throws ==
  /\ phase # "failed"
  /\ \/ fetching
     \/ \E k \in Kinds : ~fetching /\ IsFirst(k, cur.kinds) /\ Adds(k, cur.path, "throw")
  /\ IF phase = "listing"
       THEN phase' = "failed" /\ UNCHANGED <<cur, lost>>
       ELSE /\ cur' = NoObject
            /\ lost' = lost \cup {<<j, cur.path>> : j \in cur.kinds}
            /\ UNCHANGED phase
  /\ fetching' = FALSE
  /\ UNCHANGED <<client, shape, filter, asked, toList, work, copy, pending, service, queue,
                 unheard, old, listFailed>>

-----------------------------------------------------------------------------
(* The event loop: one message at a time.                                  *)
Receives(type) ==
  /\ phase = "running" /\ Idle /\ queue # <<>>
  /\ Head(queue).type = type

(* Mutant: only one interface of the object is handled.                    *)
onAddedOnce ==
  /\ Receives("added")
  /\ \E p \in Head(queue).paths, k \in Head(queue).kinds :
       cur' = [path |-> p, kinds |-> {k}, val |-> Head(queue).val]
  /\ queue' = Tail(queue)
  /\ UNCHANGED <<client, shape, filter, phase, asked, toList, work, fetching, copy, pending,
                 service, history>>


onAdded ==
  /\ Receives("added")
  /\ \E p \in Head(queue).paths :
       cur' = [path |-> p, kinds |-> Head(queue).kinds, val |-> Head(queue).val]
  /\ queue' = Tail(queue)
  /\ UNCHANGED <<client, shape, filter, phase, asked, toList, work, fetching, copy, pending,
                 service, history>>

(* A destroyed proxy object has cancelled its calls: the loop drops the    *)
(* reply.                                                                  *)
Cancelled(q, ks, ps) ==
  [i \in 1..Len(q) |->
     IF q[i].type = "reply" /\ q[i].kinds \subseteq ks /\ q[i].paths \subseteq ps
       THEN [type |-> "dropped", paths |-> q[i].paths, kinds |-> q[i].kinds, val |-> q[i].val]
       ELSE q[i]]

onRemoved ==
  /\ Receives("removed")
  /\ \E p \in Paths :
       LET ks == Head(queue).kinds
       IN  /\ Head(queue).paths = {p}
           /\ mirror' = [k \in Kinds |-> IF k \in ks THEN Erases(k, p) ELSE mirror[k]]
           /\ pending' = pending \ (ks \X {p})
           /\ queue' = Cancelled(Tail(queue), ks, {p})
           /\ lost' = lost \ (ks \X {p})
  /\ UNCHANGED <<client, shape, filter, phase, asked, handler, cache, service,
                 unheard, old, listFailed>>

(* What a proxy object holds after version v of its properties: login1's   *)
(* print v and then what a GetAll() of their own returns, if it succeeds.  *)
Applied(k, p, v, ok) ==
  IF ok /\ k \in {"Seat", "Session"} /\ k \in exported[p] THEN value[p] ELSE v

(* The message at the head of the queue reaches the proxy objects at its   *)
(* path, if they are of kinds ks.                                          *)
Gives(ks, ok) ==
  [k \in Kinds |-> [p \in Paths |->
     IF k \in ks /\ p \in mirror[k] /\ p \in Head(queue).paths
       THEN Applied(k, p, Head(queue).val, ok) ELSE cache[k][p]]]

(* Every proxy object at the path gets the signal.  Adapter1 answers the   *)
(* end of a discovery with StartDiscovery(); if that throws, the rest of   *)
(* the signal is lost.                                                     *)
onPropertiesChanged ==
  /\ Receives("changed")
  /\ \E ok \in BOOLEAN :
       \/ cache' = Gives(Subscribing, ok) /\ UNCHANGED unheard
       \/ /\ \E p \in Head(queue).paths : p \in mirror["Adapter1"]
          /\ cache' = Gives(Subscribing \ {"Adapter1"}, ok)
          /\ unheard' = unheard \cup ({"Adapter1"} \X Head(queue).paths)
  /\ queue' = Tail(queue)
  /\ UNCHANGED <<client, shape, filter, phase, asked, handler, mirror, pending, service,
                 lost, old, listFailed>>

(* The reply to a proxy object's GetAllAsync().                            *)
onGetAll ==
  /\ Receives("reply")
  /\ \E ok \in BOOLEAN : cache' = Gives(Head(queue).kinds, ok)
  /\ queue' = Tail(queue)
  /\ UNCHANGED <<client, shape, filter, phase, asked, handler, mirror, pending, service, history>>

onDropped ==
  /\ Receives("dropped")
  /\ queue' = Tail(queue)
  /\ UNCHANGED <<client, shape, filter, phase, asked, handler, copy, pending, service, history>>

(* The reply to EnumerateDevices.                                          *)
onEnumerateDevices ==
  /\ client = "upower" /\ Receives("list")
  /\ work' = {[path |-> p, kinds |-> {"DisplayDevice"}, val |-> Head(queue).val] :
                p \in Head(queue).paths}
  /\ queue' = Tail(queue)
  /\ UNCHANGED <<client, shape, filter, phase, asked, toList, cur, fetching, copy, pending,
                 service, history>>

(* Mutant: a list for which there is no map.                               *)
onLogin1GetAllInhibitors ==
  /\ client = "login1" /\ Receives("list")
  /\ toList' = <<"Seat", "Session", "Inhibitor">>
  /\ queue' = Tail(queue)
  /\ UNCHANGED <<client, shape, filter, phase, asked, work, cur, fetching, copy, pending,
                 service, history>>


(* The reply to login1's GetAllAsync(): the handler fetches the lists one  *)
(* after the other and waits for each; the first that fails is the last.   *)
onLogin1GetAll ==
  /\ client = "login1" /\ Receives("list")
  /\ toList' = <<"Seat", "Session">>
  /\ queue' = Tail(queue)
  /\ UNCHANGED <<client, shape, filter, phase, asked, work, cur, fetching, copy, pending,
                 service, history>>

Lists ==
  /\ toList # <<>> /\ cur.kinds = {} /\ work = {}
  /\ \/ /\ work' = Managed({Head(toList)})
        /\ toList' = Tail(toList)
        /\ UNCHANGED listFailed
     \/ toList' = <<>> /\ listFailed' = TRUE /\ UNCHANGED work
  /\ UNCHANGED <<client, shape, filter, phase, asked, cur, fetching, copy, pending, service,
                 queue, unheard, lost, old>>

-----------------------------------------------------------------------------
(* The service.                                                            *)
Send(received, type, p, ks, v) ==
  queue' = IF received
             THEN Append(queue, [type |-> type, paths |-> {p}, kinds |-> ks, val |-> v])
             ELSE queue

(* Mutant: the client subscribes after it has enumerated.                  *)
AnnouncesLate == phase = "running"


Announces == phase \in {"subscribed", "listing", "running"}


(* A proxy object for p is registered, so the bus forwards changes.        *)
Hears(p) ==
  \/ \E k \in Subscribing : p \in mirror[k]
  \/ fetching /\ cur.path = p

Event == phase # "failed" /\ events < MaxEvents /\ events' = events + 1

Exports(p, ks) ==
  /\ Event
  /\ ks # {} /\ ks \subseteq shape[p] \ exported[p]
  /\ exported' = [exported EXCEPT ![p] = @ \cup ks]
  /\ Send(Announces, "added", p, ks, value[p])
  /\ old' = old \ (ks \X {p})
  /\ unheard' = unheard \ ((ks \cap Payload) \X {p})
  /\ UNCHANGED <<client, shape, filter, phase, asked, handler, copy, pending, value,
                 lost, listFailed>>

Unexports(p, ks) ==
  /\ Event
  /\ ks # {} /\ ks \subseteq exported[p]
  /\ exported' = [exported EXCEPT ![p] = @ \ ks]
  /\ Send(Announces, "removed", p, ks, value[p])
  /\ UNCHANGED <<client, shape, filter, phase, asked, handler, copy, pending, value, history>>

Changes(p) ==
  /\ Event
  /\ exported[p] # {}
  /\ value' = [value EXCEPT ![p] = @ + 1]
  /\ Send(Hears(p), "changed", p, exported[p], value[p] + 1)
  /\ unheard' = IF Hears(p) THEN unheard ELSE unheard \cup (Payload \X {p})
  /\ UNCHANGED <<client, shape, filter, phase, asked, handler, copy, pending, exported,
                 lost, old, listFailed>>

(* Answers to asynchronous calls; an error is only logged, and so is a     *)
(* property of an unexpected type, which leaves the rest unread: without   *)
(* the answer a proxy object follows later changes but never has the rest. *)
AnswersList ==
  /\ asked /\ asked' = FALSE
  /\ \/ /\ queue' = Append(queue, [type |-> "list", kinds |-> {}, val |-> 1,
                                   paths |-> {p \in Paths : exported[p] # {}}])
        /\ UNCHANGED listFailed
     \/ listFailed' = TRUE /\ UNCHANGED queue
  /\ UNCHANGED <<client, shape, filter, phase, handler, copy, pending, service,
                 unheard, lost, old>>

AnswersGetAll(k, p) ==
  /\ <<k, p>> \in pending
  /\ pending' = pending \ {<<k, p>>}
  /\ \/ /\ k \in exported[p]
        /\ Send(TRUE, "reply", p, {k}, value[p])
        /\ unheard' = unheard \ {<<k, p>>}
     \/ unheard' = unheard \cup {<<k, p>>} /\ UNCHANGED queue
  /\ UNCHANGED <<client, shape, filter, phase, asked, handler, copy, service,
                 lost, old, listFailed>>

-----------------------------------------------------------------------------
ClientStep ==
  \/ Registers \/ GetManagedObjects \/ LoopRuns
  \/ UPowerClient \/ Login1GetAllAsync \/ Login1Registers \/ Systemd1ManagerClient
  \/ NextObject \/ Throws \/ Lists
  \/ \E k \in Kinds : PassesOver(k) \/ Makes(k) \/ StartsFetch(k) \/ EndsFetch(k)
  \/ onAdded \/ onRemoved \/ onPropertiesChanged \/ onGetAll \/ onDropped
  \/ onEnumerateDevices \/ onLogin1GetAll

Answers == AnswersList \/ \E k \in Kinds, p \in Paths : AnswersGetAll(k, p)

ServiceStep ==
  \E p \in Paths : \/ \E ks \in SUBSET shape[p] : Exports(p, ks) \/ Unexports(p, ks)
                   \/ Changes(p)

Next == ClientStep \/ Answers \/ ServiceStep

Spec == Init /\ [][Next]_vars

(* The loop runs, and every call is answered.                              *)
FairSpec == Spec /\ WF_vars(ClientStep) /\ WF_vars(Answers)

-----------------------------------------------------------------------------
TypeOK ==
  /\ client \in Clients /\ filter \in Paths \cup {AnyDevice}
  /\ shape \in [Paths -> SUBSET Kinds]
  /\ phase \in {"new", "asking", "subscribed", "listing", "running", "failed"}
  /\ asked \in BOOLEAN /\ fetching \in BOOLEAN /\ listFailed \in BOOLEAN
  /\ toList \in Seq(Kinds)
  /\ work \subseteq Jobs /\ cur \in Jobs
  /\ mirror \in [Kinds -> SUBSET Paths]
  /\ cache \in [Kinds -> [Paths -> Versions \cup {0}]]
  /\ pending \subseteq Kinds \X Paths
  /\ exported \in [Paths -> SUBSET Kinds]
  /\ value \in [Paths -> Versions]
  /\ queue \in Seq(Messages)
  /\ events \in 0..MaxEvents
  /\ unheard \subseteq Kinds \X Paths /\ lost \subseteq Kinds \X Paths
  /\ old \subseteq Kinds \X Paths

(* Nothing is left for the client to handle or to wait for.                *)
Drained == phase = "running" /\ Idle /\ queue = <<>> /\ ~asked /\ pending = {}

(* With nothing left to handle, every proxy object stands for an interface *)
(* the service exports: objects that come and go while a client starts,    *)
(* enumerates or waits inside a handler leave no proxy object behind       *)
(* (onInterfacesAdded/Removed and their likes).                            *)
NoGhost ==
  Drained => \A k \in Kinds : \A p \in mirror[k] : k \in exported[p]

(* With nothing left to handle, every object of the service that belongs   *)
(* in a map has its proxy object, unless the client skipped it (a limit, a *)
(* filter, a missing property, an exception) or it is older than the       *)
(* client and no enumeration reported it.                                  *)
Complete ==
  Drained => \A p \in Paths : \A k \in exported[p] \ Single :
    \/ p \in mirror[k]
    \/ <<k, p>> \in lost
    \/ <<k, p>> \in old /\ (listFailed \/ client = "systemd1")

(* The maps with a limit never outgrow it, and a manager is a single one.  *)
WithinLimit ==
  \A k \in Kinds : /\ k \in Limited => Cardinality(mirror[k]) <= Limit
                   /\ k \in Single => Cardinality(mirror[k]) <= 1

(* With nothing left to handle, the properties a proxy object follows are  *)
(* the service's, unless they passed it by in one of four ways: one that   *)
(* takes them from its announcement misses a change that came too early    *)
(* for it, or whose handler threw; one that waits for GetAll() is set back *)
(* by a change that was queued for its predecessor; one that asks without  *)
(* waiting is stale where its GetAllAsync() failed, and only there: no     *)
(* order of changes, replies and failing calls of printProperties() makes  *)
(* it so.                                                                  *)
Fresh ==
  Drained => \A k \in Subscribing \ Single : \A p \in mirror[k] :
    cache[k][p] = value[p] \/ <<k, p>> \in unheard

(* A proxy object that keeps its properties never goes back to older ones  *)
(* than it had (the others only print them).                               *)
NeverOlder ==
  [][\A k \in {"Adapter1", "Device1", "DisplayDevice"} : \A p \in mirror[k] \cap mirror'[k] :
       cache'[k][p] >= cache[k][p]]_vars

(* Once the service falls silent, the client gets through with what it was *)
(* told: no handler waits for ever and no message is left.                 *)
Settles == <>[](phase = "failed" \/ Drained)
=============================================================================
