--------------------- MODULE ObjectMirrorContentProofs ---------------------
(***************************************************************************)
(* Proofs about what the maps and the proxy objects of ObjectMirror hold:  *)
(* that nothing of the service is overlooked, that properties never go     *)
(* back, and that they are current once everything is handled.             *)
(***************************************************************************)
EXTENDS ObjectMirrorProofs

(* The message announces interface k of the object at p, and no removal is *)
(* queued behind it.                                                       *)
Promised(q, k, p) ==
  \E i \in 1..Len(q) : /\ q[i].type = "added" /\ k \in q[i].kinds /\ q[i].paths = {p}
                       /\ ~RemovedAfter(q, i, k, p)

(* The reply that leads to an enumeration of p is queued.                  *)
ListQueued(q, p) ==
  \E i \in 1..Len(q) : q[i].type = "list" /\ (client = "login1" \/ p \in q[i].paths)

(* What is older than the client has yet to be enumerated, or never will.  *)
WillList(k, p) ==
  \/ phase = "subscribed" \/ asked \/ ListQueued(queue, p)
  \/ \E i \in 1..Len(toList) : toList[i] = k
  \/ listFailed \/ client = "systemd1"

Accounted(k, p) ==
  StandsFor(k, p) \/ <<k, p>> \in lost \/ (<<k, p>> \in old /\ WillList(k, p))

(* Nothing the service exports is overlooked: it is announced and not      *)
(* removed again, or its removal is not queued and it is accounted for.    *)
Kept(k, p) ==
  Promised(queue, k, p) \/ (~RemovedAfter(queue, 0, k, p) /\ Accounted(k, p))

Overlooks == {"new", "asking", "failed"}

Covered ==
  phase \notin Overlooks => \A p \in Paths : \A k \in exported[p] \ Single : Kept(k, p)

(* Only two clients ask without waiting; nothing is sent before the client *)
(* has subscribed but the list of the one that asks first.                 *)
Asking ==
  /\ asked => client \in {"login1", "upower"}
  /\ phase \in {"new", "asking"} => Without(queue, "removed")
  /\ phase = "asking" => \/ asked \/ listFailed
                         \/ \E i \in 1..Len(queue) : queue[i].type = "list"

CompleteInv == Asking /\ Covered

-----------------------------------------------------------------------------
(* What a message that is appended, taken off or cancelled does to what is *)
(* removed behind a message, and to what is promised.                      *)
LEMMA RemovedOnly ==
  ASSUME NEW q \in Seq(Messages), NEW i \in Nat, NEW k, NEW p
  PROVE  /\ \A m \in Messages : RemovedAfter(Append(q, m), i, k, p) =>
              \/ RemovedAfter(q, i, k, p)
              \/ m.type = "removed" /\ k \in m.kinds /\ m.paths = {p}
         /\ q # <<>> /\ RemovedAfter(Tail(q), i, k, p) =>
              RemovedAfter(q, i + 1, k, p) /\ RemovedAfter(q, 0, k, p)
         /\ \A ks, ps : RemovedAfter(Cancelled(q, ks, ps), i, k, p) => RemovedAfter(q, i, k, p)
<1>1. ASSUME NEW m \in Messages, RemovedAfter(Append(q, m), i, k, p)
      PROVE  \/ RemovedAfter(q, i, k, p)
             \/ m.type = "removed" /\ k \in m.kinds /\ m.paths = {p}
  <2> DEFINE a == Append(q, m)
  <2>1. PICK j \in 1..Len(a) : j > i /\ a[j].type = "removed" /\ k \in a[j].kinds /\ a[j].paths = {p}
    BY <1>1 DEF RemovedAfter
  <2>2. a[j] = m \/ (j \in 1..Len(q) /\ a[j] = q[j])
    OBVIOUS
  <2> QED
    BY <2>1, <2>2 DEF RemovedAfter
<1>2. ASSUME q # <<>>, RemovedAfter(Tail(q), i, k, p)
      PROVE  RemovedAfter(q, i + 1, k, p) /\ RemovedAfter(q, 0, k, p)
  <2> DEFINE t == Tail(q)
  <2>1. PICK j \in 1..Len(t) : j > i /\ t[j].type = "removed" /\ k \in t[j].kinds /\ t[j].paths = {p}
    BY <1>2 DEF RemovedAfter
  <2>2. t[j] = q[j + 1] /\ j + 1 \in 1..Len(q) /\ j + 1 > i + 1 /\ j + 1 > 0
    BY <1>2, <2>1
  <2> QED
    BY <2>1, <2>2 DEF RemovedAfter
<1>3. ASSUME NEW ks, NEW ps, RemovedAfter(Cancelled(q, ks, ps), i, k, p)
      PROVE  RemovedAfter(q, i, k, p)
  <2> DEFINE c == Cancelled(q, ks, ps)
  <2>0. /\ Len(c) = Len(q)
        /\ \A j \in 1..Len(q) : c[j].type = "dropped" \/ c[j] = q[j]
    BY CancelledKeeps
  <2>1. PICK j \in 1..Len(c) : j > i /\ c[j].type = "removed" /\ k \in c[j].kinds /\ c[j].paths = {p}
    BY <1>3 DEF RemovedAfter
  <2> QED
    BY <2>0, <2>1 DEF RemovedAfter
<1> QED
  BY <1>1, <1>2, <1>3

(* A promise is kept while messages about other things come and go; the    *)
(* announcement itself becomes one, and is the last to be handled.         *)
LEMMA PromisedSteps ==
  ASSUME NEW q \in Seq(Messages), NEW k, NEW p
  PROVE  /\ \A m \in Messages :
              /\ Promised(q, k, p) /\ ~(m.type = "removed" /\ k \in m.kinds /\ m.paths = {p})
                   => Promised(Append(q, m), k, p)
              /\ m.type = "added" /\ k \in m.kinds /\ m.paths = {p}
                   => Promised(Append(q, m), k, p)
         /\ q # <<>> /\ Promised(q, k, p) =>
              \/ Promised(Tail(q), k, p)
              \/ /\ q[1].type = "added" /\ k \in q[1].kinds /\ q[1].paths = {p}
                 /\ ~RemovedAfter(Tail(q), 0, k, p)
         /\ \A ks, ps : Promised(q, k, p) => Promised(Cancelled(q, ks, ps), k, p)
<1>1. ASSUME NEW m \in Messages, Promised(q, k, p),
             ~(m.type = "removed" /\ k \in m.kinds /\ m.paths = {p})
      PROVE  Promised(Append(q, m), k, p)
  <2>1. PICK i \in 1..Len(q) : /\ q[i].type = "added" /\ k \in q[i].kinds /\ q[i].paths = {p}
                               /\ ~RemovedAfter(q, i, k, p)
    BY <1>1 DEF Promised
  <2>2. i \in 1..Len(Append(q, m)) /\ Append(q, m)[i] = q[i] /\ i \in Nat
    OBVIOUS
  <2>3. ~RemovedAfter(Append(q, m), i, k, p)
    BY <1>1, <2>1, <2>2, RemovedOnly
  <2> QED
    BY <2>1, <2>2, <2>3 DEF Promised
<1>2. ASSUME NEW m \in Messages, m.type = "added", k \in m.kinds, m.paths = {p}
      PROVE  Promised(Append(q, m), k, p)
  <2> DEFINE n == Len(q) + 1
  <2>1. n \in 1..Len(Append(q, m)) /\ Append(q, m)[n] = m /\ Len(Append(q, m)) = n
    OBVIOUS
  <2>2. ~RemovedAfter(Append(q, m), n, k, p)
    BY <2>1 DEF RemovedAfter
  <2> QED
    BY <1>2, <2>1, <2>2 DEF Promised
<1>3. ASSUME q # <<>>, Promised(q, k, p)
      PROVE  \/ Promised(Tail(q), k, p)
             \/ /\ q[1].type = "added" /\ k \in q[1].kinds /\ q[1].paths = {p}
                /\ ~RemovedAfter(Tail(q), 0, k, p)
  <2>1. PICK i \in 1..Len(q) : /\ q[i].type = "added" /\ k \in q[i].kinds /\ q[i].paths = {p}
                               /\ ~RemovedAfter(q, i, k, p)
    BY <1>3 DEF Promised
  <2>2. CASE i = 1
    <3>1. ~RemovedAfter(q, 0 + 1, k, p)
      BY <2>1, <2>2
    <3>2. ~RemovedAfter(Tail(q), 0, k, p)
      BY <1>3, <3>1, RemovedOnly
    <3> QED
      BY <2>1, <2>2, <3>2
  <2>3. CASE i # 1
    <3>1. /\ i - 1 \in 1..Len(Tail(q)) /\ Tail(q)[i - 1] = q[i] /\ i - 1 \in Nat
          /\ (i - 1) + 1 = i
      BY <1>3, <2>3
    <3>2. ~RemovedAfter(q, (i - 1) + 1, k, p)
      BY <2>1, <3>1
    <3>3. ~RemovedAfter(Tail(q), i - 1, k, p)
      BY <1>3, <3>1, <3>2, RemovedOnly
    <3> QED
      BY <2>1, <3>1, <3>3 DEF Promised
  <2> QED
    BY <2>2, <2>3
<1>4. ASSUME NEW ks, NEW ps, Promised(q, k, p)
      PROVE  Promised(Cancelled(q, ks, ps), k, p)
  <2> DEFINE c == Cancelled(q, ks, ps)
  <2>1. PICK i \in 1..Len(q) : /\ q[i].type = "added" /\ k \in q[i].kinds /\ q[i].paths = {p}
                               /\ ~RemovedAfter(q, i, k, p)
    BY <1>4 DEF Promised
  <2>2. Len(c) = Len(q) /\ c[i] = q[i] /\ i \in Nat
    BY <2>1, CancelledKeeps
  <2>3. ~RemovedAfter(c, i, k, p)
    BY <2>1, <2>2, RemovedOnly
  <2> QED
    BY <2>1, <2>2, <2>3 DEF Promised
<1> QED
  BY <1>1, <1>2, <1>3, <1>4

(* The list stays queued until it is handled.                              *)
LEMMA ListSteps ==
  ASSUME NEW q \in Seq(Messages), NEW p, ListQueued(q, p)
  PROVE  /\ \A m \in Messages : ListQueued(Append(q, m), p)
         /\ q # <<>> /\ q[1].type # "list" => ListQueued(Tail(q), p)
         /\ q # <<>> => ListQueued(Tail(q), p)
                        \/ (q[1].type = "list" /\ (client = "login1" \/ p \in q[1].paths))
         /\ \A ks, ps : ListQueued(Cancelled(q, ks, ps), p)
<1>1. PICK i \in 1..Len(q) : q[i].type = "list" /\ (client = "login1" \/ p \in q[i].paths)
  BY DEF ListQueued
<1>2. ASSUME NEW m \in Messages PROVE ListQueued(Append(q, m), p)
  <2>1. i \in 1..Len(Append(q, m)) /\ Append(q, m)[i] = q[i]
    OBVIOUS
  <2> QED
    BY <1>1, <2>1 DEF ListQueued
<1>3. ASSUME q # <<>>, i # 1 PROVE ListQueued(Tail(q), p)
  <2>1. i - 1 \in 1..Len(Tail(q)) /\ Tail(q)[i - 1] = q[i]
    BY <1>3
  <2> QED
    BY <1>1, <2>1 DEF ListQueued
<1>4. ASSUME NEW ks, NEW ps PROVE ListQueued(Cancelled(q, ks, ps), p)
  <2>1. Len(Cancelled(q, ks, ps)) = Len(q) /\ Cancelled(q, ks, ps)[i] = q[i]
    BY <1>1, CancelledKeeps
  <2> QED
    BY <1>1, <2>1 DEF ListQueued
<1> QED
  BY <1>1, <1>2, <1>3, <1>4

-----------------------------------------------------------------------------
(* What a message looks like.                                              *)
LEMMA AMessage ==
  ASSUME NEW t \in Types, NEW p \in Paths, NEW ks \in SUBSET Kinds, NEW v \in Versions,
         NEW m, m = [type |-> t, paths |-> {p}, kinds |-> ks, val |-> v]
  PROVE  m \in Messages /\ m.type = t /\ m.paths = {p} /\ m.kinds = ks /\ m.val = v
BY DEF Messages

(* What the service sends when it exports, withdraws or changes an object. *)
LEMMA ServiceSends ==
  ASSUME TypeOK, NEW p \in Paths
  PROVE  /\ \A ks \in SUBSET shape[p] : Exports(p, ks) =>
              \/ ~Announces /\ queue' = queue
              \/ \E m \in Messages : /\ Announces /\ queue' = Append(queue, m)
                                     /\ m.type = "added" /\ m.paths = {p} /\ m.kinds = ks
                                     /\ m.val = value[p]
         /\ \A ks \in SUBSET shape[p] : Unexports(p, ks) =>
              \/ ~Announces /\ queue' = queue
              \/ \E m \in Messages : /\ Announces /\ queue' = Append(queue, m)
                                     /\ m.type = "removed" /\ m.paths = {p} /\ m.kinds = ks
                                     /\ m.val = value[p]
         /\ Changes(p) =>
              \/ ~Hears(p) /\ queue' = queue
              \/ \E m \in Messages : /\ Hears(p) /\ queue' = Append(queue, m)
                                     /\ m.type = "changed" /\ m.paths = {p}
                                     /\ m.val = value[p] + 1
<1>0. /\ \A ks \in SUBSET shape[p] : ks \in SUBSET Kinds
      /\ exported[p] \in SUBSET Kinds /\ \A k \in Kinds : {k} \in SUBSET Kinds
      /\ value[p] \in Versions /\ value[p] + 1 \in Versions
      /\ "added" \in Types /\ "removed" \in Types /\ "changed" \in Types /\ "reply" \in Types
  BY DEF TypeOK, Types, Versions
<1>1. ASSUME NEW ks \in SUBSET shape[p], Exports(p, ks)
      PROVE  \/ ~Announces /\ queue' = queue
             \/ \E m \in Messages : /\ Announces /\ queue' = Append(queue, m)
                                    /\ m.type = "added" /\ m.paths = {p} /\ m.kinds = ks
                                    /\ m.val = value[p]
  <2> DEFINE m == [type |-> "added", paths |-> {p}, kinds |-> ks, val |-> value[p]]
  <2>1. (~Announces /\ queue' = queue) \/ (Announces /\ queue' = Append(queue, m))
    BY <1>1 DEF Exports, Send
  <2>2. /\ m \in Messages /\ m.type = "added" /\ m.paths = {p} /\ m.kinds = ks
        /\ m.val = value[p]
    BY <1>0, AMessage
  <2> HIDE DEF m
  <2> QED
    BY <2>1, <2>2
<1>2. ASSUME NEW ks \in SUBSET shape[p], Unexports(p, ks)
      PROVE  \/ ~Announces /\ queue' = queue
             \/ \E m \in Messages : /\ Announces /\ queue' = Append(queue, m)
                                    /\ m.type = "removed" /\ m.paths = {p} /\ m.kinds = ks
                                    /\ m.val = value[p]
  <2> DEFINE m == [type |-> "removed", paths |-> {p}, kinds |-> ks, val |-> value[p]]
  <2>1. (~Announces /\ queue' = queue) \/ (Announces /\ queue' = Append(queue, m))
    BY <1>2 DEF Unexports, Send
  <2>2. /\ m \in Messages /\ m.type = "removed" /\ m.paths = {p} /\ m.kinds = ks
        /\ m.val = value[p]
    BY <1>0, AMessage
  <2> HIDE DEF m
  <2> QED
    BY <2>1, <2>2
<1>3. ASSUME Changes(p)
      PROVE  \/ ~Hears(p) /\ queue' = queue
             \/ \E m \in Messages : /\ Hears(p) /\ queue' = Append(queue, m)
                                    /\ m.type = "changed" /\ m.paths = {p}
                                    /\ m.val = value[p] + 1
  <2> DEFINE m == [type |-> "changed", paths |-> {p}, kinds |-> exported[p], val |-> value[p] + 1]
  <2>1. (~Hears(p) /\ queue' = queue) \/ (Hears(p) /\ queue' = Append(queue, m))
    BY <1>3 DEF Changes, Send
  <2>2. /\ m \in Messages /\ m.type = "changed" /\ m.paths = {p} /\ m.kinds = exported[p]
        /\ m.val = value[p] + 1
    BY <1>0, AMessage
  <2> HIDE DEF m
  <2> QED
    BY <2>1, <2>2
<1> QED
  BY <1>1, <1>2, <1>3

(* GetAllAsync() is answered with what the object is like, or fails.       *)
LEMMA AnswerSent ==
  ASSUME TypeOK, NEW k \in Kinds, NEW p \in Paths, AnswersGetAll(k, p)
  PROVE  \/ queue' = queue
         \/ \E m \in Messages : /\ k \in exported[p] /\ queue' = Append(queue, m)
                                /\ m.type = "reply" /\ m.paths = {p} /\ m.kinds = {k}
                                /\ m.val = value[p]
<1> DEFINE m == [type |-> "reply", paths |-> {p}, kinds |-> {k}, val |-> value[p]]
<1>0. {k} \in SUBSET Kinds /\ value[p] \in Versions /\ "reply" \in Types
  BY DEF TypeOK, Types
<1>1. queue' = queue \/ (k \in exported[p] /\ queue' = Append(queue, m))
  BY DEF AnswersGetAll, Send
<1>2. /\ m \in Messages /\ m.type = "reply" /\ m.paths = {p} /\ m.kinds = {k}
      /\ m.val = value[p]
  BY <1>0, AMessage
<1> HIDE DEF m
<1> QED
  BY <1>1, <1>2

(* The answer to the constructor's call lists what is exported.            *)
LEMMA ListSent ==
  ASSUME TypeOK, AnswersList
  PROVE  \/ listFailed' = TRUE /\ queue' = queue
         \/ \E m \in Messages : /\ queue' = Append(queue, m) /\ m.type = "list"
                                /\ m.paths = {p \in Paths : exported[p] # {}}
                                /\ listFailed' = listFailed
<1> DEFINE m == [type |-> "list", kinds |-> {}, val |-> 1,
                 paths |-> {p \in Paths : exported[p] # {}}]
<1>1. m \in Messages /\ m.type = "list" /\ m.paths = {p \in Paths : exported[p] # {}}
  BY DEF Messages, Types, Versions
<1>2. \/ listFailed' = TRUE /\ queue' = queue
      \/ queue' = Append(queue, m) /\ listFailed' = listFailed
  BY DEF AnswersList
<1> HIDE DEF m
<1> QED
  BY <1>1, <1>2

(* Before the client has subscribed nothing but its list is on the way.    *)
LEMMA AskingStep ==
  ASSUME TypeOK, Asking, [Next]_vars
  PROVE  Asking'
<1>0. queue \in Seq(Messages)
  BY DEF TypeOK
<1>1. CASE Registers \/ GetManagedObjects \/ LoopRuns \/ UPowerClient \/ Login1GetAllAsync
           \/ Login1Registers \/ Systemd1ManagerClient \/ UNCHANGED vars
  BY <1>1 DEF Registers, GetManagedObjects, LoopRuns, UPowerClient, Login1GetAllAsync,
     Login1Registers, Systemd1ManagerClient, vars, history, Asking, Without
<1>2. CASE NextObject \/ Throws \/ Lists
  BY <1>2 DEF NextObject, Throws, Lists, history, Asking, Without
<1>3. ASSUME NEW k \in Kinds, PassesOver(k) \/ Makes(k) \/ StartsFetch(k) \/ EndsFetch(k)
      PROVE  Asking'
  BY <1>3 DEF PassesOver, Makes, StartsFetch, EndsFetch, Enters, history, Asking, Without
<1>4. CASE onAdded \/ onRemoved \/ onPropertiesChanged \/ onGetAll \/ onDropped
           \/ onEnumerateDevices \/ onLogin1GetAll
  BY <1>4 DEF onAdded, onRemoved, onPropertiesChanged, onGetAll, onDropped,
     onEnumerateDevices, onLogin1GetAll, Receives, history, Asking
<1>5. ASSUME NEW m \in Messages, queue' = Append(queue, m), UNCHANGED <<client, phase>>,
             asked' => asked, listFailed => listFailed',
             m.type = "removed" => phase \notin {"new", "asking"},
             m.type = "list" \/ asked' = asked
      PROVE  Asking'
  <2>1. \A i \in 1..Len(queue) : i \in 1..Len(queue') /\ queue'[i] = queue[i]
    BY <1>0, <1>5
  <2>2. Len(queue') \in 1..Len(queue') /\ queue'[Len(queue')] = m
    BY <1>0, <1>5
  <2>3. phase \in {"new", "asking"} => Without(queue, "removed")
    BY DEF Asking
  <2>4. phase' \in {"new", "asking"} => Without(queue', "removed")
    BY <1>0, <1>5, <2>3, QueueSteps
  <2>5. phase' = "asking" => \/ asked' \/ listFailed'
                             \/ \E i \in 1..Len(queue') : queue'[i].type = "list"
    BY <1>5, <2>1, <2>2 DEF Asking
  <2> QED
    BY <1>5, <2>4, <2>5 DEF Asking, Without
<1>6. CASE AnswersList
  <2>1. UNCHANGED <<client, phase>> /\ asked' = FALSE
    BY <1>6 DEF AnswersList
  <2>2. CASE listFailed' = TRUE /\ queue' = queue
    BY <2>1, <2>2 DEF Asking, Without
  <2>3. ASSUME NEW m \in Messages, queue' = Append(queue, m), m.type = "list",
               listFailed' = listFailed
        PROVE  Asking'
    BY <1>5, <2>1, <2>3
  <2> QED
    BY <1>6, <2>2, <2>3, ListSent
<1>7. ASSUME UNCHANGED <<queue, client, phase, asked, listFailed>> PROVE Asking'
  BY <1>7 DEF Asking, Without
<1>8. ASSUME NEW k \in Kinds, NEW p \in Paths, AnswersGetAll(k, p) PROVE Asking'
  <2>1. UNCHANGED <<client, phase, asked, listFailed>>
    BY <1>8 DEF AnswersGetAll, history
  <2> QED
    BY <1>5, <1>7, <1>8, <2>1, AnswerSent
<1>9. ASSUME NEW p \in Paths, NEW ks \in SUBSET shape[p], Exports(p, ks) PROVE Asking'
  <2>1. UNCHANGED <<client, phase, asked, listFailed>>
    BY <1>9 DEF Exports
  <2> QED
    BY <1>5, <1>7, <1>9, <2>1, ServiceSends
<1>10. ASSUME NEW p \in Paths, NEW ks \in SUBSET shape[p], Unexports(p, ks) PROVE Asking'
  <2>1. UNCHANGED <<client, phase, asked, listFailed>>
    BY <1>10 DEF Unexports, history
  <2>2. Announces => phase \notin {"new", "asking"}
    BY DEF Announces
  <2> QED
    BY <1>5, <1>7, <1>10, <2>1, <2>2, ServiceSends
<1>11. ASSUME NEW p \in Paths, Changes(p) PROVE Asking'
  <2>1. UNCHANGED <<client, phase, asked, listFailed>>
    BY <1>11 DEF Changes
  <2> QED
    BY <1>5, <1>7, <1>11, <2>1, ServiceSends
<1> QED
  BY <1>1, <1>2, <1>3, <1>4, <1>6, <1>8, <1>9, <1>10, <1>11
  DEF Next, ClientStep, Answers, ServiceStep

-----------------------------------------------------------------------------
(* What was kept is kept by a step that accounts for what was accounted    *)
(* for, whatever it does to the queue.                                     *)
LEMMA KeptSteps ==
  ASSUME TypeOK, NEW k, NEW p, Kept(k, p), Accounted(k, p) => Accounted(k, p)'
  PROVE  /\ queue' = queue => Kept(k, p)'
         /\ \A m \in Messages :
              /\ queue' = Append(queue, m)
              /\ ~(m.type = "removed" /\ k \in m.kinds /\ m.paths = {p})
              => Kept(k, p)'
         /\ /\ queue # <<>> /\ queue' = Tail(queue)
            /\ queue[1].type = "added" /\ k \in queue[1].kinds /\ queue[1].paths = {p}
                 => Accounted(k, p)'
            => Kept(k, p)'
<1>0. queue \in Seq(Messages) /\ 0 \in Nat
  BY DEF TypeOK
<1>1. Promised(queue', k, p) => Kept(k, p)'
  BY DEF Kept, Promised, RemovedAfter
<1>2. ~RemovedAfter(queue', 0, k, p) /\ Accounted(k, p)' => Kept(k, p)'
  BY DEF Kept, Promised, RemovedAfter
<1>3. Promised(queue, k, p) \/ (~RemovedAfter(queue, 0, k, p) /\ Accounted(k, p)')
  BY DEF Kept
<1>4. CASE queue' = queue
  BY <1>1, <1>2, <1>3, <1>4
<1>5. ASSUME NEW m \in Messages, queue' = Append(queue, m),
             ~(m.type = "removed" /\ k \in m.kinds /\ m.paths = {p})
      PROVE  Kept(k, p)'
  BY <1>0, <1>1, <1>2, <1>3, <1>5, PromisedSteps, RemovedOnly
<1>6. ASSUME queue # <<>>, queue' = Tail(queue),
             queue[1].type = "added" /\ k \in queue[1].kinds /\ queue[1].paths = {p}
               => Accounted(k, p)'
      PROVE  Kept(k, p)'
  <2>1. ~RemovedAfter(queue, 0, k, p) => ~RemovedAfter(Tail(queue), 0, k, p)
    BY <1>0, <1>6, RemovedOnly
  <2>2. Promised(queue, k, p) =>
          \/ Promised(Tail(queue), k, p)
          \/ /\ queue[1].type = "added" /\ k \in queue[1].kinds /\ queue[1].paths = {p}
             /\ ~RemovedAfter(Tail(queue), 0, k, p)
    BY <1>0, <1>6, PromisedSteps
  <2> QED
    BY <1>1, <1>2, <1>3, <1>6, <2>1, <2>2
<1> QED
  BY <1>4, <1>5, <1>6

(* An object that is known already has its proxy object.                   *)
LEMMA KnownIsMirrored ==
  ASSUME NEW k, NEW p, Adds(k, p, "known")
  PROVE  p \in mirror[k]
BY DEF Adds, BluezAdds, UDisks2Adds, Login1Adds, UPowerAdds, Systemd1Adds

(* A handled removal keeps everything but what it removes.                 *)
LEMMA RemovalKept ==
  ASSUME TypeOK, Phased, onRemoved, NEW p \in Paths, NEW k \in Kinds \ Single, Kept(k, p)
  PROVE  Kept(k, p)'
<1>0. queue \in Seq(Messages) /\ queue # <<>> /\ Head(queue) = queue[1] /\ 0 \in Nat
      /\ Tail(queue) \in Seq(Messages)
  BY DEF TypeOK, onRemoved, Receives
<1>1. PICK r \in Paths :
        /\ queue[1].paths = {r}
        /\ mirror' = [j \in Kinds |-> IF j \in queue[1].kinds THEN Erases(j, r) ELSE mirror[j]]
        /\ queue' = Cancelled(Tail(queue), queue[1].kinds, {r})
        /\ lost' = lost \ (queue[1].kinds \X {r})
  BY <1>0, ZenonT(60) DEF onRemoved
<1>2. /\ queue[1].type = "removed" /\ UNCHANGED <<client, phase, asked, toList, work, cur>>
      /\ UNCHANGED <<old, listFailed>>
  BY <1>0 DEF onRemoved, Receives, handler
<1> DEFINE t == Tail(queue)
<1>3. Promised(queue, k, p) => Promised(queue', k, p)
  BY <1>0, <1>1, <1>2, PromisedSteps
<1>4. ASSUME ~RemovedAfter(queue, 0, k, p), Accounted(k, p)
      PROVE  ~RemovedAfter(queue', 0, k, p) /\ Accounted(k, p)'
  <2>1. ~(k \in queue[1].kinds /\ r = p)
    <3>1. 1 \in 1..Len(queue) /\ 1 > 0
      BY <1>0
    <3> QED
      BY <1>1, <1>2, <1>4, <3>1 DEF RemovedAfter
  <2>2. ~RemovedAfter(queue', 0, k, p)
    BY <1>0, <1>1, <1>4, RemovedOnly
  <2>3. p \in mirror[k] => p \in mirror'[k]
    BY <1>1, <2>1, MirrorAssumption DEF Erases, BluezErases, UDisks2Erases, Login1Erases,
       UPowerErases, Systemd1Erases, TypeOK, MirrorAssumption, Single
  <2>4. <<k, p>> \in lost => <<k, p>> \in lost'
    BY <1>1, <2>1
  <2>5. WillList(k, p) => WillList(k, p)'
    <3>1. ListQueued(queue, p) => ListQueued(queue', p)
      BY <1>0, <1>1, <1>2, ListSteps
    <3> QED
      BY <1>2, <3>1 DEF WillList, ListQueued
  <2> QED
    BY <1>2, <1>4, <2>2, <2>3, <2>4, <2>5 DEF Accounted, StandsFor
<1> QED
  BY <1>3, <1>4 DEF Kept, Promised, RemovedAfter

(* What is enumerated is at hand afterwards.                               *)
LEMMA ManagedStands ==
  ASSUME TypeOK, NEW ks, work' = Managed(ks), NEW p \in Paths, NEW k \in exported[p], k \in ks
  PROVE  StandsFor(k, p)'
<1> DEFINE w == [path |-> p, kinds |-> exported[p] \cap ks, val |-> value[p]]
<1>1. w \in Managed(ks)
  BY DEF Managed
<1>2. w.path = p /\ k \in w.kinds
  OBVIOUS
<1> QED
  BY <1>1, <1>2 DEF StandsFor

(* Every step keeps what is exported covered.                              *)
LEMMA CoveredStep ==
  ASSUME TypeOK, GhostInv, CompleteInv, [Next]_vars
  PROVE  Covered'
<1> SUFFICES ASSUME phase' \notin Overlooks, NEW p \in Paths, NEW k \in exported'[p] \ Single
             PROVE  Kept(k, p)'
  BY DEF Covered
<1>0. queue \in Seq(Messages) /\ Asking /\ Proper /\ Covered /\ 0 \in Nat
  BY DEF TypeOK, GhostInv, CompleteInv
<1>T. ASSUME exported'[p] \subseteq exported[p] PROVE k \in Kinds
  BY <1>T DEF TypeOK
<1>K. ASSUME phase \notin Overlooks, k \in exported[p] PROVE Kept(k, p)
  BY <1>0, <1>K DEF Covered
<1>1. CASE Registers \/ UPowerClient \/ Login1Registers \/ Systemd1ManagerClient
  <2>1. UNCHANGED <<queue, exported, client>> /\ phase \in {"new", "asking"} /\ old' = Existing
    BY <1>1 DEF Registers, UPowerClient, Login1Registers, Systemd1ManagerClient, service
  <2>2. ~RemovedAfter(queue', 0, k, p)
    BY <1>0, <2>1 DEF RemovedAfter, Asking, Without
  <2>3. <<k, p>> \in old'
    BY <2>1, <1>T DEF Existing
  <2>4. WillList(k, p)'
    <3>1. CASE Registers \/ UPowerClient \/ Systemd1ManagerClient
      BY <3>1 DEF Registers, UPowerClient, Systemd1ManagerClient, WillList
    <3>2. CASE Login1Registers
      <4>1. client = "login1" /\ UNCHANGED <<asked, listFailed>> /\ phase = "asking"
        BY <1>0, <3>2 DEF Login1Registers, Proper, Phased
      <4>2. asked \/ listFailed \/ \E i \in 1..Len(queue) : queue[i].type = "list"
        BY <1>0, <4>1 DEF Asking
      <4> QED
        BY <2>1, <4>1, <4>2 DEF WillList, ListQueued
    <3> QED
      BY <1>1, <3>1, <3>2
  <2> QED
    BY <2>2, <2>3, <2>4 DEF Kept, Accounted, RemovedAfter
<1>2. CASE Login1GetAllAsync
  BY <1>2 DEF Login1GetAllAsync, Overlooks
<1>3. ASSUME UNCHANGED <<queue, exported, client, asked, old, listFailed>>, phase \notin Overlooks,
             phase' = phase \/ phase # "subscribed",
             StandsFor(k, p) => StandsFor(k, p)' \/ <<k, p>> \in lost',
             <<k, p>> \in lost => StandsFor(k, p)' \/ <<k, p>> \in lost',
             \A i \in 1..Len(toList) : toList[i] = k =>
               (\E j \in 1..Len(toList') : toList'[j] = k) \/ StandsFor(k, p)'
      PROVE  Kept(k, p)'
  <2>1. WillList(k, p) => WillList(k, p)' \/ StandsFor(k, p)'
    BY <1>3 DEF WillList, ListQueued
  <2>2. Accounted(k, p) => Accounted(k, p)'
    BY <1>3, <2>1 DEF Accounted
  <2> QED
    BY <1>3, <1>K, <2>2, KeptSteps
<1>4. CASE GetManagedObjects
  <2>1. phase = "subscribed" /\ UNCHANGED <<queue, exported>> /\ work' = Managed(Kinds)
    BY <1>4 DEF GetManagedObjects, service, Overlooks
  <2>2. StandsFor(k, p)'
    BY <2>1, <1>T, ManagedStands
  <2>3. Kept(k, p)
    BY <1>K, <2>1 DEF Overlooks
  <2> QED
    BY <2>1, <2>2, <2>3, KeptSteps DEF Accounted
<1>5. CASE LoopRuns
  BY <1>3, <1>5 DEF LoopRuns, handler, copy, service, history, StandsFor, Overlooks
<1>6. CASE NextObject
  <2>1. /\ UNCHANGED <<queue, exported, client, asked, old, listFailed, phase, toList, mirror>>
        /\ phase \notin Overlooks /\ cur.kinds = {} /\ lost' = lost
        /\ \E w \in work : cur' = w /\ work' = work \ {w}
    BY <1>6 DEF NextObject, copy, service, history, Overlooks
  <2>2. StandsFor(k, p) => StandsFor(k, p)'
    BY <2>1 DEF StandsFor
  <2> QED
    BY <1>3, <2>1, <2>2
<1>7. CASE Throws
  <2>1. /\ UNCHANGED <<queue, exported, client, asked, old, listFailed, toList, mirror, work>>
        /\ phase # "failed" /\ (fetching \/ cur.kinds # {})
    BY <1>7 DEF Throws, copy, service, IsFirst
  <2>2. phase \notin NotStarted
    BY <1>0, <2>1 DEF Proper, Phased
  <2>3. phase' = phase /\ lost' = lost \cup {<<j, cur.path>> : j \in cur.kinds}
    BY <1>7 DEF Throws, Overlooks
  <2>4. StandsFor(k, p) => StandsFor(k, p)' \/ <<k, p>> \in lost'
    BY <2>1, <2>3 DEF StandsFor
  <2> QED
    BY <1>3, <2>1, <2>2, <2>3, <2>4 DEF NotStarted, Overlooks
<1>8. CASE Lists
  <2>1. /\ UNCHANGED <<queue, exported, client, asked, old, phase, lost, mirror, cur>>
        /\ phase = "running" /\ toList \in Seq(Kinds) /\ toList # <<>> /\ work = {}
    BY <1>0, <1>8 DEF Lists, copy, service, Proper, Phased, TypeOK
  <2>2. Kept(k, p)
    BY <1>K, <2>1 DEF Overlooks
  <2>3. CASE listFailed' = TRUE /\ work' = work
    <3>1. Accounted(k, p) => Accounted(k, p)'
      BY <2>1, <2>3 DEF Accounted, StandsFor, WillList
    <3> QED
      BY <2>1, <2>2, <3>1, KeptSteps
  <2>4. CASE work' = Managed({Head(toList)}) /\ toList' = Tail(toList) /\ listFailed' = listFailed
    <3>1. StandsFor(k, p) => StandsFor(k, p)'
      BY <2>1 DEF StandsFor
    <3>2. ASSUME NEW i \in 1..Len(toList), toList[i] = k
          PROVE  (\E j \in 1..Len(toList') : toList'[j] = k) \/ StandsFor(k, p)'
      <4>1. CASE i = 1
        <5>1. Head(toList) = k
          BY <2>1, <3>2, <4>1
        <5> QED
          BY <2>1, <2>4, <5>1, ManagedStands
      <4>2. CASE i # 1
        <5>1. i - 1 \in 1..Len(Tail(toList)) /\ Tail(toList)[i - 1] = k
          BY <2>1, <3>2, <4>2
        <5> QED
          BY <2>4, <5>1
      <4> QED
        BY <4>1, <4>2
    <3> QED
      BY <1>3, <2>1, <2>4, <3>1, <3>2 DEF Overlooks
  <2> QED
    BY <1>8, <2>3, <2>4 DEF Lists
<1>9. ASSUME NEW j \in Kinds, PassesOver(j) PROVE Kept(k, p)'
  <2>1. /\ UNCHANGED <<queue, exported, client, asked, old, listFailed, phase, toList, mirror, work>>
        /\ j \in cur.kinds /\ Done(j)
        /\ \/ cur.path \in mirror[j] /\ lost' = lost
           \/ lost' = lost \cup {<<j, cur.path>>}
    BY <1>9, KnownIsMirrored DEF PassesOver, copy, service, IsFirst
  <2>2. phase \notin Overlooks
    BY <2>1
  <2>3. StandsFor(k, p) => StandsFor(k, p)' \/ <<k, p>> \in lost'
    BY <2>1, DoneType DEF StandsFor
  <2> QED
    BY <1>3, <2>1, <2>2, <2>3
<1>10. ASSUME NEW j \in Kinds, Makes(j) \/ EndsFetch(j) PROVE Kept(k, p)'
  <2>1. /\ UNCHANGED <<queue, exported, client, asked, old, listFailed, phase, toList, work>>
        /\ j \in cur.kinds /\ Done(j) /\ lost' = lost \ {<<j, cur.path>>}
        /\ mirror' = [mirror EXCEPT ![j] = IF j \in Single THEN {cur.path} ELSE @ \cup {cur.path}]
    BY <1>10 DEF Makes, EndsFetch, Enters, service, IsFirst
  <2>2. phase \notin Overlooks /\ k \in Kinds
    BY <2>1, <1>T
  <2>3. p \in mirror[k] \/ (k = j /\ p = cur.path) => p \in mirror'[k]
    BY <2>1, <2>2 DEF TypeOK
  <2>4. StandsFor(k, p) => StandsFor(k, p)'
    BY <2>1, <2>3, DoneType DEF StandsFor
  <2>5. <<k, p>> \in lost => StandsFor(k, p)' \/ <<k, p>> \in lost'
    BY <2>1, <2>3 DEF StandsFor
  <2> QED
    BY <1>3, <2>1, <2>2, <2>4, <2>5
<1>11. ASSUME NEW j \in Kinds, StartsFetch(j) PROVE Kept(k, p)'
  BY <1>3, <1>11 DEF StartsFetch, copy, service, history, StandsFor
<1>12. ASSUME UNCHANGED vars PROVE Kept(k, p)'
  BY <1>3, <1>12 DEF vars, handler, copy, service, history, StandsFor
<1>13. ASSUME queue # <<>>, queue' = Tail(queue), phase = "running",
              UNCHANGED <<exported, client, asked, old, listFailed, phase, lost, mirror>>,
              cur.kinds = {}, work = {}, toList = <<>>,
              queue[1].type = "added" /\ k \in queue[1].kinds /\ queue[1].paths = {p}
                => StandsFor(k, p)',
              queue[1].type = "list" /\ (client = "login1" \/ p \in queue[1].paths)
                => StandsFor(k, p)' \/ \E i \in 1..Len(toList') : toList'[i] = k
       PROVE  Kept(k, p)'
  <2>1. StandsFor(k, p) => StandsFor(k, p)'
    BY <1>13 DEF StandsFor
  <2>2. ListQueued(queue, p) =>
          \/ ListQueued(Tail(queue), p)
          \/ queue[1].type = "list" /\ (client = "login1" \/ p \in queue[1].paths)
    BY <1>0, <1>13, ListSteps
  <2>3. WillList(k, p) => WillList(k, p)' \/ StandsFor(k, p)'
    BY <1>13, <2>2 DEF WillList, ListQueued
  <2>4. Accounted(k, p) => Accounted(k, p)'
    BY <1>13, <2>1, <2>3 DEF Accounted
  <2> QED
    BY <1>13, <1>K, <2>4, KeptSteps DEF Accounted, Overlooks
<1>14. CASE onAdded
  <2>1. /\ queue # <<>> /\ queue' = Tail(queue) /\ phase = "running" /\ queue[1].type = "added"
        /\ UNCHANGED <<exported, client, asked, old, listFailed, phase, lost, mirror>>
        /\ cur.kinds = {} /\ work = {} /\ toList = <<>>
        /\ \E q \in queue[1].paths :
             cur' = [path |-> q, kinds |-> queue[1].kinds, val |-> queue[1].val]
    BY <1>0, <1>14 DEF onAdded, Receives, Idle, copy, service, history
  <2>2. k \in queue[1].kinds /\ queue[1].paths = {p} => StandsFor(k, p)'
    BY <2>1 DEF StandsFor
  <2> QED
    BY <1>13, <2>1, <2>2
<1>15. CASE onRemoved
  <2>1. phase = "running" /\ exported' = exported
    BY <1>15 DEF onRemoved, Receives, service
  <2>2. k \in Kinds \ Single /\ Kept(k, p)
    BY <1>K, <1>T, <2>1 DEF Overlooks
  <2> QED
    BY <1>0, <1>15, <2>2, RemovalKept DEF Proper
<1>16. CASE onPropertiesChanged \/ onGetAll \/ onDropped
  <2>1. /\ queue # <<>> /\ queue' = Tail(queue) /\ phase = "running"
        /\ UNCHANGED <<exported, client, asked, old, listFailed, phase, lost, mirror>>
        /\ cur.kinds = {} /\ work = {} /\ toList = <<>>
        /\ queue[1].type \notin {"added", "list"}
    BY <1>0, <1>16 DEF onPropertiesChanged, onGetAll, onDropped, Receives, Idle, copy, service,
       history
  <2> QED
    BY <1>13, <2>1
<1>17. CASE onEnumerateDevices
  <2>1. /\ queue # <<>> /\ queue' = Tail(queue) /\ phase = "running" /\ queue[1].type = "list"
        /\ UNCHANGED <<exported, client, asked, old, listFailed, phase, lost, mirror>>
        /\ cur.kinds = {} /\ work = {} /\ toList = <<>> /\ client = "upower"
        /\ work' = {[path |-> q, kinds |-> {"DisplayDevice"}, val |-> queue[1].val] :
                      q \in queue[1].paths}
    BY <1>0, <1>17 DEF onEnumerateDevices, Receives, Idle, copy, service, history
  <2>2. k = "DisplayDevice"
    BY <1>0, <2>1, ExportedKinds DEF Proper, KindsOf, Shapes
  <2>3. p \in queue[1].paths => StandsFor(k, p)'
    <3> DEFINE w == [path |-> p, kinds |-> {"DisplayDevice"}, val |-> queue[1].val]
    <3>1. w.path = p /\ k \in w.kinds
      BY <2>2
    <3>2. p \in queue[1].paths => w \in work'
      BY <2>1
    <3> QED
      BY <3>1, <3>2 DEF StandsFor
  <2> QED
    BY <1>13, <2>1, <2>3
<1>18. CASE onLogin1GetAll
  <2>1. /\ queue # <<>> /\ queue' = Tail(queue) /\ phase = "running" /\ queue[1].type = "list"
        /\ UNCHANGED <<exported, client, asked, old, listFailed, phase, lost, mirror>>
        /\ cur.kinds = {} /\ work = {} /\ toList = <<>> /\ client = "login1"
        /\ toList' = <<"Seat", "Session">>
    BY <1>0, <1>18 DEF onLogin1GetAll, Receives, Idle, copy, service, history
  <2>2. k = "Seat" \/ k = "Session"
    BY <1>0, <2>1, ExportedKinds DEF Proper, KindsOf, Shapes
  <2>3. Len(toList') = 2 /\ toList'[1] = "Seat" /\ toList'[2] = "Session"
    BY <2>1
  <2>4. \E i \in 1..Len(toList') : toList'[i] = k
    BY <2>2, <2>3
  <2> QED
    BY <1>13, <2>1, <2>4
<1>19. ASSUME NEW m \in Messages, queue' = Append(queue, m), k \in exported[p],
              UNCHANGED <<client, phase, toList, work, cur, lost, mirror>>,
              <<k, p>> \in old => <<k, p>> \in old', listFailed' = listFailed,
              ~(m.type = "removed" /\ k \in m.kinds /\ m.paths = {p}),
              asked' = asked \/ (m.type = "list" /\ (client = "login1" \/ p \in m.paths))
       PROVE  Kept(k, p)'
  <2>1. Kept(k, p)
    BY <1>K, <1>19
  <2>2. StandsFor(k, p) => StandsFor(k, p)'
    BY <1>19 DEF StandsFor
  <2>3. ListQueued(queue, p) => ListQueued(queue', p)
    BY <1>0, <1>19, ListSteps
  <2>4. asked => asked' \/ ListQueued(queue', p)
    <3>1. Len(queue') \in 1..Len(queue') /\ queue'[Len(queue')] = m
      BY <1>0, <1>19
    <3> QED
      BY <1>19, <3>1 DEF ListQueued
  <2>5. WillList(k, p) => WillList(k, p)'
    BY <1>19, <2>3, <2>4 DEF WillList, ListQueued
  <2>6. Accounted(k, p) => Accounted(k, p)'
    BY <1>19, <2>2, <2>5 DEF Accounted
  <2> QED
    BY <1>19, <2>1, <2>6, KeptSteps
<1>20. ASSUME queue' = queue, k \in exported[p], <<k, p>> \in old => <<k, p>> \in old',
              UNCHANGED <<client, phase, toList, work, cur, lost, mirror>>,
              listFailed' = TRUE \/ (listFailed' = listFailed /\ asked' = asked)
       PROVE  Kept(k, p)'
  <2>1. Kept(k, p)
    BY <1>K, <1>20
  <2>2. StandsFor(k, p) => StandsFor(k, p)'
    BY <1>20 DEF StandsFor
  <2>3. WillList(k, p) => WillList(k, p)'
    BY <1>20 DEF WillList, ListQueued
  <2>4. Accounted(k, p) => Accounted(k, p)'
    BY <1>20, <2>2, <2>3 DEF Accounted
  <2> QED
    BY <1>20, <2>1, <2>4, KeptSteps
<1>21. CASE AnswersList
  <2>1. /\ UNCHANGED <<client, phase, toList, work, cur, lost, mirror, exported, old>>
        /\ asked
    BY <1>21 DEF AnswersList, handler, copy, service
  <2>2. client \in {"login1", "upower"} /\ exported[p] # {}
    BY <1>0, <2>1 DEF Asking
  <2>3. ASSUME NEW m \in Messages, queue' = Append(queue, m), m.type = "list",
               m.paths = {q \in Paths : exported[q] # {}}, listFailed' = listFailed
        PROVE  Kept(k, p)'
    BY <1>19, <2>1, <2>2, <2>3
  <2> QED
    BY <1>20, <1>21, <2>1, <2>3, ListSent
<1>22. ASSUME NEW j \in Kinds, NEW q \in Paths, AnswersGetAll(j, q) PROVE Kept(k, p)'
  <2>1. UNCHANGED <<client, phase, toList, work, cur, lost, mirror, exported, old, asked,
                    listFailed>>
    BY <1>22 DEF AnswersGetAll, handler, copy, service, history
  <2> QED
    BY <1>19, <1>20, <1>22, <2>1, AnswerSent
<1>23. ASSUME NEW q \in Paths, Changes(q) PROVE Kept(k, p)'
  <2>1. UNCHANGED <<client, phase, toList, work, cur, lost, mirror, exported, old, asked,
                    listFailed>>
    BY <1>23 DEF Changes, handler, copy
  <2> QED
    BY <1>19, <1>20, <1>23, <2>1, ServiceSends
<1>24. ASSUME NEW q \in Paths, NEW ks \in SUBSET shape[q], Exports(q, ks) PROVE Kept(k, p)'
  <2>1. /\ UNCHANGED <<client, phase, toList, work, cur, lost, mirror, asked, listFailed>>
        /\ old' = old \ (ks \X {q}) /\ ks \cap exported[q] = {}
        /\ exported' = [exported EXCEPT ![q] = @ \cup ks]
    BY <1>24 DEF Exports, handler, copy
  <2>2. phase \notin Overlooks /\ Announces
    BY <1>24, <2>1 DEF Overlooks, Exports, Event, Announces, TypeOK
  <2>3. PICK m \in Messages : /\ queue' = Append(queue, m) /\ m.type = "added"
                              /\ m.paths = {q} /\ m.kinds = ks
    BY <1>24, <2>2, ServiceSends
  <2>4. k \in exported[p] \/ (k \in ks /\ p = q)
    BY <2>1 DEF TypeOK
  <2>5. CASE k \in ks /\ p = q
    <3>1. Promised(queue', k, p)
      BY <1>0, <2>3, <2>5, PromisedSteps
    <3> QED
      BY <3>1 DEF Kept, Promised, RemovedAfter
  <2>6. CASE k \in exported[p]
    <3>1. <<k, p>> \in old => <<k, p>> \in old'
      BY <2>1, <2>6
    <3> QED
      BY <1>19, <2>1, <2>3, <2>6, <3>1
  <2> QED
    BY <2>4, <2>5, <2>6
<1>25. ASSUME NEW q \in Paths, NEW ks \in SUBSET shape[q], Unexports(q, ks) PROVE Kept(k, p)'
  <2>1. /\ UNCHANGED <<client, phase, toList, work, cur, lost, mirror, asked, listFailed, old>>
        /\ exported' = [exported EXCEPT ![q] = @ \ ks]
    BY <1>25 DEF Unexports, handler, copy, history
  <2>2. k \in exported[p] /\ ~(k \in ks /\ p = q)
    BY <2>1 DEF TypeOK
  <2>3. \/ queue' = queue
        \/ \E m \in Messages : /\ queue' = Append(queue, m) /\ m.type = "removed"
                               /\ m.paths = {q} /\ m.kinds = ks
    BY <1>25, ServiceSends
  <2> QED
    BY <1>19, <1>20, <2>1, <2>2, <2>3
<1> QED
  BY <1>1, <1>2, <1>4, <1>5, <1>6, <1>7, <1>8, <1>9, <1>10, <1>11, <1>12, <1>14, <1>15, <1>16,
     <1>17, <1>18, <1>21, <1>22, <1>23, <1>24, <1>25
  DEF Next, ClientStep, Answers, ServiceStep

(* In every state, whatever the service exports is announced, accounted    *)
(* for or still to be enumerated (the constructors, which subscribe and    *)
(* enumerate, and onInterfacesAdded/Removed and their likes).              *)
THEOREM MirrorCovers == Spec => []CompleteInv
<1>1. Init => CompleteInv
  BY DEF Init, CompleteInv, Asking, Covered, Overlooks, Without
<1>2. TypeOK /\ GhostInv /\ CompleteInv /\ [Next]_vars => CompleteInv'
  BY AskingStep, CoveredStep DEF CompleteInv
<1> QED
  BY <1>1, <1>2, MirrorTypeCorrect, GhostInvariant, PTL DEF Spec

(* Once everything is handled, every object of the service has its proxy   *)
(* object unless the client has a reason to do without, for any number of  *)
(* objects and events, in any of the five clients.                         *)
THEOREM MirrorComplete == Spec => []Complete
<1>1. CompleteInv => Complete
  <2> SUFFICES ASSUME CompleteInv, Drained, NEW p \in Paths, NEW k \in exported[p] \ Single
               PROVE  \/ p \in mirror[k] \/ <<k, p>> \in lost
                      \/ <<k, p>> \in old /\ (listFailed \/ client = "systemd1")
    BY DEF Complete
  <2>1. phase = "running" /\ queue = <<>> /\ toList = <<>> /\ ~asked /\ cur.kinds = {} /\ work = {}
    BY DEF Drained, Idle
  <2>2. Kept(k, p) /\ ~Promised(queue, k, p)
    BY <2>1 DEF CompleteInv, Covered, Overlooks, Promised
  <2> QED
    BY <2>1, <2>2 DEF Kept, Accounted, StandsFor, WillList, ListQueued
<1> QED
  BY <1>1, MirrorCovers, PTL

-----------------------------------------------------------------------------
(* The messages about one path carry versions in order, none newer than    *)
(* the service's.                                                          *)
About(m, p) == m.type # "list" /\ m.paths = {p}

Singles(q) == \A i \in 1..Len(q) : q[i].type # "list" => \E p \in Paths : q[i].paths = {p}

Ordered(q) ==
  \A p \in Paths : \A i, j \in 1..Len(q) :
    i <= j /\ About(q[i], p) /\ About(q[j], p) => q[i].val <= q[j].val

Bounded(q, vs) == \A p \in Paths : \A i \in 1..Len(q) : About(q[i], p) => q[i].val <= vs[p]

InOrder == Singles(queue) /\ Ordered(queue) /\ Bounded(queue, value)

(* Replies are about the kinds that ask; nothing has changed before a      *)
(* proxy object is there to hear it; one client fetches lists.             *)
Replies ==
  /\ pending \subseteq FetchedAsync \X Paths
  /\ \A i \in 1..Len(queue) : queue[i].type = "reply" => \E k \in FetchedAsync : queue[i].kinds = {k}
  /\ phase \in NotStarted => Without(queue, "changed")
  /\ toList # <<>> => client = "login1"

(* The message gives the proxy object of kind k at p its properties.       *)
Reaches(m, k, p) ==
  p \in m.paths /\ (m.type = "changed" \/ (m.type = "reply" /\ m.kinds = {k}))

(* Version v is not ahead of any that is queued for the proxy object.      *)
Behind(q, k, p, v) == \A i \in 1..Len(q) : Reaches(q[i], k, p) => v <= q[i].val

(* The kinds that take what is announced and follow it, and the kinds that *)
(* keep their properties.                                                  *)
Following == {"Adapter1", "Device1"}
Keeping   == Following \cup {"DisplayDevice"}

(* An object at hand or enumerated.                                        *)
Job(j) == j \in work \/ (j = cur /\ cur.kinds # {})

JobsBehind ==
  client = "bluez" => \A j \in Jobs : Job(j) =>
    j.val <= value[j.path] /\ \A k \in Following : Behind(queue, k, j.path, j.val)

CacheBehind ==
  \A k \in Keeping : \A p \in mirror[k] :
    cache[k][p] <= value[p] /\ Behind(queue, k, p, cache[k][p])

(* Why properties never go back: neither what a proxy object holds nor     *)
(* what a client of BlueZ is about to give it is ahead of what is queued.  *)
OrderInv == InOrder /\ Replies /\ JobsBehind /\ CacheBehind

(* Cancelling leaves every message its path, its kinds and its version.    *)
LEMMA CancelledSame ==
  ASSUME NEW q \in Seq(Messages), NEW ks, NEW ps
  PROVE  /\ Len(Cancelled(q, ks, ps)) = Len(q)
         /\ \A i \in 1..Len(q) :
              /\ Cancelled(q, ks, ps)[i].paths = q[i].paths
              /\ Cancelled(q, ks, ps)[i].kinds = q[i].kinds
              /\ Cancelled(q, ks, ps)[i].val = q[i].val
              /\ \/ Cancelled(q, ks, ps)[i].type = q[i].type
                 \/ q[i].type = "reply" /\ Cancelled(q, ks, ps)[i].type = "dropped"
BY DEF Cancelled

(* Order and bounds survive when messages are handled or cancelled, and    *)
(* when the newest one is appended.                                        *)
LEMMA OrderSteps ==
  ASSUME NEW q \in Seq(Messages), NEW vs, Singles(q), Ordered(q), Bounded(q, vs)
  PROVE  /\ q # <<>> => Singles(Tail(q)) /\ Ordered(Tail(q)) /\ Bounded(Tail(q), vs)
         /\ \A ks, ps : /\ Singles(Cancelled(q, ks, ps)) /\ Ordered(Cancelled(q, ks, ps))
                        /\ Bounded(Cancelled(q, ks, ps), vs)
<1>1. ASSUME q # <<>>
      PROVE  Singles(Tail(q)) /\ Ordered(Tail(q)) /\ Bounded(Tail(q), vs)
  <2>1. \A i \in 1..Len(Tail(q)) : Tail(q)[i] = q[i + 1] /\ i + 1 \in 1..Len(q) /\ i \in Int
    BY <1>1
  <2>2. Singles(Tail(q))
    BY <2>1 DEF Singles
  <2>3. Ordered(Tail(q))
    <3>1. \A i, j \in 1..Len(Tail(q)) : i <= j => i + 1 <= j + 1
      BY <2>1
    <3> QED
      BY <2>1, <3>1 DEF Ordered
  <2>4. Bounded(Tail(q), vs)
    BY <2>1 DEF Bounded
  <2> QED
    BY <2>2, <2>3, <2>4
<1>2. ASSUME NEW ks, NEW ps
      PROVE  /\ Singles(Cancelled(q, ks, ps)) /\ Ordered(Cancelled(q, ks, ps))
             /\ Bounded(Cancelled(q, ks, ps), vs)
  <2> DEFINE c == Cancelled(q, ks, ps)
  <2>1. /\ Len(c) = Len(q)
        /\ \A i \in 1..Len(q) : /\ c[i].paths = q[i].paths /\ c[i].val = q[i].val
                                /\ c[i].type # "list" => q[i].type # "list"
    BY CancelledSame
  <2> HIDE DEF c
  <2>2. \A i \in 1..Len(q) : \A p : About(c[i], p) => About(q[i], p)
    BY <2>1 DEF About
  <2>3. Singles(c) /\ Ordered(c) /\ Bounded(c, vs)
    BY <2>1, <2>2 DEF Singles, Ordered, Bounded
  <2> QED
    BY <2>3 DEF c
<1> QED
  BY <1>1, <1>2

LEMMA OrderAppend ==
  ASSUME NEW q \in Seq(Messages), NEW vs \in [Paths -> Nat], NEW ws \in [Paths -> Nat],
         Singles(q), Ordered(q), Bounded(q, vs), NEW m \in Messages,
         \A p \in Paths : vs[p] <= ws[p],
         m.type = "list" \/ \E p \in Paths : m.paths = {p} /\ vs[p] <= m.val /\ m.val <= ws[p]
  PROVE  Singles(Append(q, m)) /\ Ordered(Append(q, m)) /\ Bounded(Append(q, m), ws)
<1> DEFINE a == Append(q, m)
<1>1. /\ \A i \in 1..Len(a) : \/ i = Len(a) /\ a[i] = m
                              \/ i \in 1..Len(q) /\ a[i] = q[i]
      /\ \A i \in 1..Len(q) : i < Len(a)
  OBVIOUS
<1>2. \A i \in 1..Len(q) : q[i].val \in Nat
  BY QueuedMessage DEF Versions
<1>3. m.val \in Nat
  BY DEF Messages, Versions
<1>4. \A p \in Paths : About(m, p) => vs[p] <= m.val /\ m.val <= ws[p]
  BY DEF About
<1> HIDE DEF a
<1>5. Singles(a)
  BY <1>1 DEF Singles
<1>6. Bounded(a, ws)
  <2> SUFFICES ASSUME NEW p \in Paths, NEW i \in 1..Len(a), About(a[i], p)
               PROVE  a[i].val <= ws[p]
    BY DEF Bounded
  <2>1. CASE a[i] = m
    BY <1>4, <2>1
  <2>2. CASE i \in 1..Len(q) /\ a[i] = q[i]
    <3>1. q[i].val <= vs[p] /\ vs[p] <= ws[p] /\ q[i].val \in Nat /\ vs[p] \in Nat /\ ws[p] \in Nat
      BY <1>2, <2>2 DEF Bounded
    <3> QED
      BY <2>2, <3>1
  <2> QED
    BY <1>1, <2>1, <2>2
<1>7. Ordered(a)
  <2> SUFFICES ASSUME NEW p \in Paths, NEW i \in 1..Len(a), NEW j \in 1..Len(a), i <= j,
                      About(a[i], p), About(a[j], p)
               PROVE  a[i].val <= a[j].val
    BY DEF Ordered
  <2>1. CASE j \in 1..Len(q) /\ a[j] = q[j]
    <3>1. i \in 1..Len(q) /\ a[i] = q[i]
      BY <1>1, <2>1
    <3> QED
      BY <2>1, <3>1 DEF Ordered
  <2>2. CASE j = Len(a) /\ a[j] = m
    <3>1. CASE a[i] = m
      BY <1>3, <2>2, <3>1
    <3>2. CASE i \in 1..Len(q) /\ a[i] = q[i]
      <4>1. q[i].val <= vs[p] /\ vs[p] <= m.val /\ q[i].val \in Nat /\ vs[p] \in Nat
        BY <1>2, <1>4, <2>2, <3>2 DEF Bounded
      <4> QED
        BY <1>3, <2>2, <3>2, <4>1
    <3> QED
      BY <1>1, <3>1, <3>2
  <2> QED
    BY <1>1, <2>1, <2>2
<1> QED
  BY <1>5, <1>6, <1>7 DEF a

(* A version stays behind the queue; the one just handled is behind what   *)
(* follows it.                                                             *)
LEMMA BehindSteps ==
  ASSUME NEW q \in Seq(Messages), NEW k, NEW p, NEW v
  PROVE  /\ q # <<>> /\ Behind(q, k, p, v) => Behind(Tail(q), k, p, v)
         /\ \A ks, ps : Behind(q, k, p, v) => Behind(Cancelled(q, ks, ps), k, p, v)
         /\ \A m \in Messages : Behind(q, k, p, v) /\ (Reaches(m, k, p) => v <= m.val)
                                  => Behind(Append(q, m), k, p, v)
<1>1. ASSUME q # <<>>, Behind(q, k, p, v) PROVE Behind(Tail(q), k, p, v)
  <2>1. \A i \in 1..Len(Tail(q)) : Tail(q)[i] = q[i + 1] /\ i + 1 \in 1..Len(q)
    BY <1>1
  <2> QED
    BY <1>1, <2>1 DEF Behind
<1>2. ASSUME NEW ks, NEW ps, Behind(q, k, p, v) PROVE Behind(Cancelled(q, ks, ps), k, p, v)
  <2> DEFINE c == Cancelled(q, ks, ps)
  <2>1. /\ Len(c) = Len(q)
        /\ \A i \in 1..Len(q) : /\ c[i].paths = q[i].paths /\ c[i].val = q[i].val
                                /\ c[i].kinds = q[i].kinds
                                /\ c[i].type = q[i].type \/ c[i].type = "dropped"
    BY CancelledSame
  <2> HIDE DEF c
  <2>2. Behind(c, k, p, v)
    BY <1>2, <2>1 DEF Behind, Reaches
  <2> QED
    BY <2>2 DEF c
<1>3. ASSUME NEW m \in Messages, Behind(q, k, p, v), Reaches(m, k, p) => v <= m.val
      PROVE  Behind(Append(q, m), k, p, v)
  <2>1. \A i \in 1..Len(Append(q, m)) :
          Append(q, m)[i] = m \/ (i \in 1..Len(q) /\ Append(q, m)[i] = q[i])
    OBVIOUS
  <2> QED
    BY <1>3, <2>1 DEF Behind
<1> QED
  BY <1>1, <1>2, <1>3

LEMMA HandledBehind ==
  ASSUME NEW q \in Seq(Messages), q # <<>>, Singles(q), Ordered(q), NEW p \in Paths,
         q[1].type # "list", p \in q[1].paths, NEW k
  PROVE  Behind(Tail(q), k, p, q[1].val)
<1> SUFFICES ASSUME NEW i \in 1..Len(Tail(q)), Reaches(Tail(q)[i], k, p)
             PROVE  q[1].val <= Tail(q)[i].val
  BY DEF Behind
<1>1. /\ 1 \in 1..Len(q) /\ i + 1 \in 1..Len(q) /\ Tail(q)[i] = q[i + 1] /\ 1 <= i + 1
  OBVIOUS
<1>2. About(q[1], p) /\ About(q[i + 1], p)
  BY <1>1 DEF Singles, About, Reaches
<1> QED
  BY <1>1, <1>2 DEF Ordered

-----------------------------------------------------------------------------
(* A client changes nothing of the service and only takes messages.        *)
LEMMA ClientQueue ==
  ASSUME ClientStep
  PROVE  /\ UNCHANGED <<client, shape, exported, value>>
         /\ \/ queue' = queue
            \/ /\ queue # <<>> /\ phase = "running" /\ Idle
               /\ \/ queue' = Tail(queue)
                  \/ \E ks, ps : queue' = Cancelled(Tail(queue), ks, ps)
BY DEF ClientStep, Registers, GetManagedObjects, LoopRuns, UPowerClient,
   Login1GetAllAsync, Login1Registers, Systemd1ManagerClient, NextObject, Throws, Lists,
   PassesOver, Makes, Enters, StartsFetch, EndsFetch, onAdded, onRemoved, Receives,
   onPropertiesChanged, onGetAll, onDropped, onEnumerateDevices, onLogin1GetAll, service

(* Versions only grow.                                                     *)
LEMMA ChangesValue ==
  ASSUME TypeOK, NEW p \in Paths, Changes(p)
  PROVE  /\ value' = [value EXCEPT ![p] = @ + 1] /\ value'[p] = value[p] + 1
         /\ value \in [Paths -> Nat] /\ value' \in [Paths -> Nat]
         /\ \A r \in Paths : value[r] <= value'[r] /\ (r # p => value'[r] = value[r])
<1>1. value \in [Paths -> Nat] /\ value' = [value EXCEPT ![p] = @ + 1]
  BY DEF TypeOK, Versions, Changes
<1> QED
  BY <1>1

(* The queue stays in order.                                               *)
LEMMA InOrderStep ==
  ASSUME TypeOK, InOrder, [Next]_vars
  PROVE  InOrder'
<1>0. queue \in Seq(Messages) /\ value \in [Paths -> Nat]
  BY DEF TypeOK, Versions
<1>I. Singles(queue) /\ Ordered(queue) /\ Bounded(queue, value)
  BY DEF InOrder
<1>P. ASSUME Singles(queue'), Ordered(queue'), Bounded(queue', value') PROVE InOrder'
  BY <1>P DEF InOrder, Singles, Ordered, Bounded
<1>1. CASE ClientStep
  <2>1. value' = value
    BY <1>1, ClientQueue
  <2>2. CASE queue' = queue
    BY <1>I, <1>P, <2>1, <2>2
  <2>3. CASE queue # <<>> /\ queue' = Tail(queue)
    BY <1>0, <1>I, <1>P, <2>1, <2>3, OrderSteps
  <2>4. ASSUME NEW ks, NEW ps, queue # <<>>, queue' = Cancelled(Tail(queue), ks, ps)
        PROVE  InOrder'
    <3>1. /\ Tail(queue) \in Seq(Messages)
          /\ Singles(Tail(queue)) /\ Ordered(Tail(queue)) /\ Bounded(Tail(queue), value)
      BY <1>0, <1>I, <2>4, OrderSteps
    <3> QED
      BY <1>P, <2>1, <2>4, <3>1, OrderSteps
  <2> QED
    BY <1>1, <2>2, <2>3, <2>4, ClientQueue
<1>2. CASE UNCHANGED vars
  BY <1>I, <1>P, <1>2 DEF vars, service
<1>3. ASSUME NEW m \in Messages, queue' = Append(queue, m), value' = value,
             m.type = "list" \/ \E p \in Paths : m.paths = {p} /\ m.val = value[p]
      PROVE  InOrder'
  BY <1>0, <1>I, <1>P, <1>3, OrderAppend
<1>4. ASSUME queue' = queue, value' = value PROVE InOrder'
  BY <1>I, <1>P, <1>4
<1>5. CASE AnswersList
  <2>1. value' = value
    BY <1>5 DEF AnswersList, service
  <2> QED
    BY <1>3, <1>4, <1>5, <2>1, ListSent
<1>6. ASSUME NEW k \in Kinds, NEW p \in Paths, AnswersGetAll(k, p) PROVE InOrder'
  <2>1. value' = value
    BY <1>6 DEF AnswersGetAll, service
  <2> QED
    BY <1>3, <1>4, <1>6, <2>1, AnswerSent
<1>7. ASSUME NEW p \in Paths, NEW ks \in SUBSET shape[p], Exports(p, ks) PROVE InOrder'
  <2>1. value' = value
    BY <1>7 DEF Exports
  <2> QED
    BY <1>3, <1>4, <1>7, <2>1, ServiceSends
<1>8. ASSUME NEW p \in Paths, NEW ks \in SUBSET shape[p], Unexports(p, ks) PROVE InOrder'
  <2>1. value' = value
    BY <1>8 DEF Unexports
  <2> QED
    BY <1>3, <1>4, <1>8, <2>1, ServiceSends
<1>9. ASSUME NEW p \in Paths, Changes(p) PROVE InOrder'
  <2>1. /\ value' \in [Paths -> Nat] /\ value'[p] = value[p] + 1
        /\ \A r \in Paths : value[r] <= value'[r]
    BY <1>9, ChangesValue
  <2>2. CASE queue' = queue
    <3>1. Bounded(queue, value')
      <4> SUFFICES ASSUME NEW r \in Paths, NEW i \in 1..Len(queue), About(queue[i], r)
                   PROVE  queue[i].val <= value'[r]
        BY DEF Bounded
      <4>1. queue[i].val <= value[r] /\ queue[i].val \in Nat
        BY <1>0, <1>I, QueuedMessage DEF Bounded, Versions
      <4> QED
        BY <1>0, <2>1, <4>1
    <3> QED
      BY <1>I, <1>P, <2>2, <3>1
  <2>3. ASSUME NEW m \in Messages, queue' = Append(queue, m), m.paths = {p},
               m.val = value[p] + 1
        PROVE  InOrder'
    <3>1. value[p] <= m.val /\ m.val <= value'[p]
      BY <1>0, <2>1, <2>3
    <3> QED
      BY <1>0, <1>I, <1>P, <2>1, <2>3, <3>1, OrderAppend
  <2> QED
    BY <1>9, <2>2, <2>3, ServiceSends
<1> QED
  BY <1>1, <1>2, <1>5, <1>6, <1>7, <1>8, <1>9 DEF Next, Answers, ServiceStep

(* Who asks and who is answered.                                           *)
LEMMA RepliesStep ==
  ASSUME TypeOK, Phased, Replies, [Next]_vars
  PROVE  Replies'
<1> DEFINE OneKind(q) == \A i \in 1..Len(q) : q[i].type = "reply" =>
                           \E k \in FetchedAsync : q[i].kinds = {k}
<1>0. queue \in Seq(Messages) /\ OneKind(queue)
  BY DEF TypeOK, Replies
<1>1. ASSUME NEW q \in Seq(Messages), OneKind(q)
      PROVE  /\ q # <<>> => OneKind(Tail(q))
             /\ \A ks, ps : OneKind(Cancelled(q, ks, ps))
             /\ \A m \in Messages : (m.type = "reply" => \E k \in FetchedAsync : m.kinds = {k})
                                      => OneKind(Append(q, m))
  <2>1. q # <<>> => \A i \in 1..Len(Tail(q)) : Tail(q)[i] = q[i + 1] /\ i + 1 \in 1..Len(q)
    BY <1>1
  <2>2. \A m \in Messages : \A i \in 1..Len(Append(q, m)) :
          Append(q, m)[i] = m \/ (i \in 1..Len(q) /\ Append(q, m)[i] = q[i])
    BY <1>1
  <2>3. ASSUME NEW ks, NEW ps PROVE OneKind(Cancelled(q, ks, ps))
    <3> DEFINE c == Cancelled(q, ks, ps)
    <3>1. /\ Len(c) = Len(q)
          /\ \A i \in 1..Len(q) : /\ c[i].kinds = q[i].kinds
                                  /\ c[i].type = q[i].type \/ c[i].type = "dropped"
      BY <1>1, CancelledSame
    <3> HIDE DEF c
    <3>2. OneKind(c)
      BY <1>1, <3>1
    <3> QED
      BY <3>2 DEF c
  <2> QED
    BY <1>1, <2>1, <2>2, <2>3
<1> HIDE DEF OneKind
<1>P. ASSUME pending' \subseteq FetchedAsync \X Paths, OneKind(queue'),
             phase' \in NotStarted => Without(queue', "changed"),
             toList' # <<>> => client' = "login1"
      PROVE  Replies'
  BY <1>P DEF Replies, OneKind, Without
<1>2. pending \subseteq FetchedAsync \X Paths /\ (toList # <<>> => client = "login1")
      /\ (phase \in NotStarted => Without(queue, "changed"))
  BY DEF Replies
<1>3. CASE ClientStep
  <2>1. pending' \subseteq FetchedAsync \X Paths
    <3>1. cur.path \in Paths
      BY DEF TypeOK, Jobs
    <3>2. \/ pending' \subseteq pending
          \/ \E k \in FetchedAsync : pending' = pending \cup {<<k, cur.path>>}
      BY <1>3 DEF ClientStep, Registers, GetManagedObjects, LoopRuns, UPowerClient,
         Login1GetAllAsync, Login1Registers, Systemd1ManagerClient, NextObject, Throws, Lists,
         PassesOver, Makes, Enters, StartsFetch, EndsFetch, onAdded, onRemoved,
         onPropertiesChanged, onGetAll, onDropped, onEnumerateDevices, onLogin1GetAll
    <3> QED
      BY <1>2, <3>1, <3>2
  <2>2. OneKind(queue')
    <3>1. ASSUME NEW ks, NEW ps, queue # <<>>, queue' = Cancelled(Tail(queue), ks, ps)
          PROVE  OneKind(queue')
      <4>1. Tail(queue) \in Seq(Messages) /\ OneKind(Tail(queue))
        BY <1>0, <1>1, <3>1
      <4> QED
        BY <1>1, <3>1, <4>1
    <3> QED
      BY <1>0, <1>1, <1>3, <3>1, ClientQueue
  <2>3. phase' \in NotStarted => phase \in NotStarted
    BY <1>3 DEF ClientStep, Registers, GetManagedObjects, LoopRuns, UPowerClient,
       Login1GetAllAsync, Login1Registers, Systemd1ManagerClient, NextObject, Throws, Lists,
       PassesOver, Makes, Enters, StartsFetch, EndsFetch, onAdded, onRemoved,
       onPropertiesChanged, onGetAll, onDropped, onEnumerateDevices, onLogin1GetAll, NotStarted
  <2>4. phase' \in NotStarted => Without(queue', "changed")
    BY <1>2, <1>3, <2>3, ClientQueue DEF NotStarted
  <2>5. toList' # <<>> => client' = "login1"
    BY <1>2, <1>3 DEF ClientStep, Registers, GetManagedObjects, LoopRuns, UPowerClient,
       Login1GetAllAsync, Login1Registers, Systemd1ManagerClient, NextObject, Throws, Lists,
       PassesOver, Makes, Enters, StartsFetch, EndsFetch, onAdded, onRemoved,
       onPropertiesChanged, onGetAll, onDropped, onEnumerateDevices, onLogin1GetAll, handler
  <2> QED
    BY <1>P, <2>1, <2>2, <2>4, <2>5
<1>4. ASSUME pending' \subseteq pending, UNCHANGED <<client, phase, toList>>,
             \/ queue' = queue
             \/ \E m \in Messages :
                  /\ queue' = Append(queue, m)
                  /\ m.type = "reply" => \E k \in FetchedAsync : m.kinds = {k}
                  /\ m.type = "changed" => phase \notin NotStarted
      PROVE  Replies'
  <2>1. OneKind(queue')
    BY <1>0, <1>1, <1>4
  <2>2. phase' \in NotStarted => Without(queue', "changed")
    <3>1. \A m \in Messages : Without(queue, "changed") /\ m.type # "changed"
                              => Without(Append(queue, m), "changed")
      BY <1>0, QueueSteps
    <3> QED
      BY <1>2, <1>4, <3>1
  <2> QED
    BY <1>P, <1>2, <1>4, <2>1, <2>2
<1>5. CASE AnswersList
  <2>1. UNCHANGED <<pending, client, phase, toList>>
    BY <1>5 DEF AnswersList, handler
  <2> QED
    BY <1>4, <1>5, <2>1, ListSent
<1>6. ASSUME NEW k \in Kinds, NEW p \in Paths, AnswersGetAll(k, p) PROVE Replies'
  <2>1. pending' \subseteq pending /\ UNCHANGED <<client, phase, toList>> /\ k \in FetchedAsync
    BY <1>2, <1>6 DEF AnswersGetAll, handler
  <2> QED
    BY <1>4, <1>6, <2>1, AnswerSent
<1>7. ASSUME NEW p \in Paths, NEW ks \in SUBSET shape[p], Exports(p, ks) \/ Unexports(p, ks)
      PROVE  Replies'
  <2>1. UNCHANGED <<pending, client, phase, toList>>
    BY <1>7 DEF Exports, Unexports, handler
  <2> QED
    BY <1>4, <1>7, <2>1, ServiceSends
<1>8. ASSUME NEW p \in Paths, Changes(p) PROVE Replies'
  <2>1. UNCHANGED <<pending, client, phase, toList>>
    BY <1>8 DEF Changes, handler
  <2>2. Hears(p) => phase \notin NotStarted
    BY KindNames DEF Hears, Phased, Subscribing, Payload, Fetched, FetchedAsync
  <2> QED
    BY <1>4, <1>8, <2>1, <2>2, ServiceSends
<1>9. CASE UNCHANGED vars
  BY <1>4, <1>9 DEF vars, handler
<1> QED
  BY <1>3, <1>5, <1>6, <1>7, <1>8, <1>9 DEF Next, Answers, ServiceStep

(* What is left of an object keeps its path and its version.               *)
LEMMA DoneKeeps ==
  ASSUME NEW k, Done(k), cur'.kinds # {}
  PROVE  cur'.path = cur.path /\ cur'.val = cur.val /\ cur.kinds # {}
BY NoObjectType DEF Done

(* An enumerated object has the version of the moment.                     *)
LEMMA ManagedValue ==
  ASSUME TypeOK, NEW ks, NEW w \in Managed(ks)
  PROVE  w.path \in Paths /\ w.val = value[w.path]
BY DEF Managed

(* No job of a client of BlueZ gets ahead of a queued change.              *)
LEMMA JobsBehindStep ==
  ASSUME TypeOK, Proper, InOrder, Replies, JobsBehind, [Next]_vars
  PROVE  JobsBehind'
<1>0. /\ queue \in Seq(Messages) /\ value \in [Paths -> Nat] /\ client' = client
      /\ Singles(queue) /\ Ordered(queue) /\ Bounded(queue, value)
  <2>1. client' = client
    BY ClientQueue DEF Next, Answers, AnswersList, AnswersGetAll, ServiceStep, Exports,
       Unexports, Changes, vars
  <2> QED
    BY <2>1 DEF TypeOK, Versions, InOrder
<1> SUFFICES ASSUME client = "bluez", NEW j \in Jobs, Job(j)'
             PROVE  j.val <= value'[j.path] /\ \A k \in Following : Behind(queue', k, j.path, j.val)
  BY <1>0 DEF JobsBehind, Behind
<1>J. j.path \in Paths /\ j.val \in Nat
  BY DEF Jobs, Versions
<1>1. ASSUME Job(j)
      PROVE  j.val <= value[j.path] /\ \A k \in Following : Behind(queue, k, j.path, j.val)
  BY <1>1 DEF JobsBehind
<1>2. ASSUME UNCHANGED <<queue, value>>, Job(j)
      PROVE  j.val <= value'[j.path] /\ \A k \in Following : Behind(queue', k, j.path, j.val)
  BY <1>1, <1>2
<1>3. CASE ClientStep
  <2>0. value' = value
    BY <1>3, ClientQueue
  <2>1. CASE Registers \/ LoopRuns \/ UPowerClient \/ Login1GetAllAsync \/ Login1Registers
             \/ Systemd1ManagerClient
    BY <1>2, <2>0, <2>1 DEF Registers, LoopRuns, UPowerClient, Login1GetAllAsync,
       Login1Registers, Systemd1ManagerClient, handler, Job
  <2>2. CASE GetManagedObjects
    <3>1. queue' = queue /\ cur' = cur /\ phase = "subscribed"
          /\ (work' = work \/ work' = Managed(Kinds))
      BY <2>2 DEF GetManagedObjects
    <3>2. CASE Job(j)
      BY <1>2, <2>0, <3>1, <3>2
    <3>3. CASE j \in Managed(Kinds)
      <4>1. j.val = value[j.path]
        BY <3>3, ManagedValue
      <4>2. \A i \in 1..Len(queue) : \A k \in Following : ~Reaches(queue[i], k, j.path)
        <5>1. Without(queue, "changed")
          BY <3>1 DEF Replies, NotStarted
        <5>2. \A i \in 1..Len(queue) : queue[i].type = "reply" =>
                \A k \in Following : queue[i].kinds # {k}
          BY DEF Replies, Following, FetchedAsync
        <5> QED
          BY <5>1, <5>2 DEF Reaches, Without
      <4> QED
        BY <1>0, <1>J, <2>0, <3>1, <4>1, <4>2 DEF Behind
    <3> QED
      BY <3>1, <3>2, <3>3 DEF Job
  <2>3. CASE NextObject
    BY <1>2, <2>0, <2>3 DEF NextObject, Job
  <2>4. CASE Throws
    BY <1>2, <2>0, <2>4, NoObjectType DEF Throws, Job
  <2>5. CASE Lists
    BY <2>5 DEF Lists, Replies
  <2>6. ASSUME NEW k \in Kinds, PassesOver(k) \/ Makes(k) \/ StartsFetch(k) \/ EndsFetch(k)
        PROVE  /\ j.val <= value'[j.path]
               /\ \A l \in Following : Behind(queue', l, j.path, j.val)
    <3>1. queue' = queue /\ work' = work /\ (cur' = cur \/ Done(k))
      BY <2>6 DEF PassesOver, Makes, StartsFetch, EndsFetch, Enters
    <3>2. CASE Job(j)
      BY <1>2, <2>0, <3>1, <3>2
    <3>3. CASE j = cur' /\ cur'.kinds # {} /\ Done(k)
      <4>1. j.path = cur.path /\ j.val = cur.val /\ cur.kinds # {} /\ cur \in Jobs
        BY <3>3, DoneKeeps DEF TypeOK
      <4>2. cur.val <= value[cur.path] /\ \A l \in Following : Behind(queue, l, cur.path, cur.val)
        BY <4>1 DEF JobsBehind, Job
      <4> QED
        BY <2>0, <3>1, <4>1, <4>2
    <3> QED
      BY <3>1, <3>2, <3>3 DEF Job
  <2>7. CASE onAdded
    <3>1. /\ queue # <<>> /\ queue' = Tail(queue) /\ queue[1].type = "added" /\ work' = work
          /\ work = {} /\ 1 \in 1..Len(queue)
          /\ \E q \in queue[1].paths :
               cur' = [path |-> q, kinds |-> queue[1].kinds, val |-> queue[1].val]
      BY <1>0, <2>7 DEF onAdded, Receives, Idle
    <3>2. j.path \in queue[1].paths /\ j.val = queue[1].val
      BY <3>1 DEF Job
    <3>3. About(queue[1], j.path)
      BY <1>0, <3>1, <3>2 DEF Singles, About
    <3>4. j.val <= value[j.path]
      BY <1>0, <1>J, <3>1, <3>2, <3>3 DEF Bounded
    <3>5. \A k \in Following : Behind(Tail(queue), k, j.path, queue[1].val)
      BY <1>0, <1>J, <3>1, <3>2, HandledBehind
    <3> QED
      BY <2>0, <3>1, <3>2, <3>4, <3>5
  <2>8. CASE onRemoved \/ onPropertiesChanged \/ onGetAll \/ onDropped \/ onLogin1GetAll
             \/ onEnumerateDevices
    <3>1. ~Job(j)'
      BY <2>8 DEF onRemoved, onPropertiesChanged, onGetAll, onDropped, onLogin1GetAll,
         onEnumerateDevices, Receives, Idle, handler, Job
    <3> QED
      BY <3>1
  <2> QED
    BY <1>3, <2>1, <2>2, <2>3, <2>4, <2>5, <2>6, <2>7, <2>8 DEF ClientStep
<1>4. ASSUME UNCHANGED <<work, cur>>, \A p \in Paths : value[p] <= value'[p],
             value' \in [Paths -> Nat],
             \/ queue' = queue
             \/ \E m \in Messages :
                  /\ queue' = Append(queue, m)
                  /\ \A k \in Following, p \in Paths : Reaches(m, k, p) => value[p] <= m.val
      PROVE  j.val <= value'[j.path] /\ \A k \in Following : Behind(queue', k, j.path, j.val)
  <2>1. j.val <= value[j.path] /\ \A k \in Following : Behind(queue, k, j.path, j.val)
    BY <1>1, <1>4 DEF Job
  <2>2. j.val <= value'[j.path]
    BY <1>0, <1>J, <1>4, <2>1
  <2>3. ASSUME NEW m \in Messages, NEW k \in Following, queue' = Append(queue, m),
               Reaches(m, k, j.path) => value[j.path] <= m.val
        PROVE  Behind(queue', k, j.path, j.val)
    <3>1. m.val \in Nat
      BY DEF Messages, Versions
    <3>2. Reaches(m, k, j.path) => j.val <= m.val
      BY <1>0, <1>J, <2>1, <2>3, <3>1
    <3> QED
      BY <1>0, <2>1, <2>3, <3>2, BehindSteps
  <2> QED
    BY <1>J, <1>4, <2>1, <2>2, <2>3
<1>5. CASE AnswersList
  <2>1. UNCHANGED <<work, cur, value>>
    BY <1>5 DEF AnswersList, handler, service
  <2>2. value' \in [Paths -> Nat] /\ \A p \in Paths : value[p] <= value'[p]
    BY <1>0, <2>1
  <2>3. \/ queue' = queue
        \/ \E m \in Messages : /\ queue' = Append(queue, m)
                               /\ \A k, p : ~Reaches(m, k, p)
    BY <1>5, ListSent DEF Reaches
  <2> QED
    BY <1>4, <2>1, <2>2, <2>3
<1>6. ASSUME NEW k \in Kinds, NEW p \in Paths, AnswersGetAll(k, p)
      PROVE  j.val <= value'[j.path] /\ \A l \in Following : Behind(queue', l, j.path, j.val)
  <2>1. UNCHANGED <<work, cur, value>>
    BY <1>6 DEF AnswersGetAll, handler, service
  <2>2. \A m \in Messages : m.paths = {p} /\ m.val = value[p] =>
          \A l \in Following, r \in Paths : Reaches(m, l, r) => value[r] <= m.val
    BY <1>0 DEF Reaches
  <2>3. value' \in [Paths -> Nat] /\ \A r \in Paths : value[r] <= value'[r]
    BY <1>0, <2>1
  <2>4. \/ queue' = queue
        \/ \E m \in Messages : queue' = Append(queue, m) /\ m.paths = {p} /\ m.val = value[p]
    BY <1>6, AnswerSent
  <2> QED
    BY <1>4, <2>1, <2>2, <2>3, <2>4
<1>7. ASSUME NEW p \in Paths, NEW ks \in SUBSET shape[p], Exports(p, ks) \/ Unexports(p, ks)
      PROVE  j.val <= value'[j.path] /\ \A k \in Following : Behind(queue', k, j.path, j.val)
  <2>1. UNCHANGED <<work, cur, value>>
    BY <1>7 DEF Exports, Unexports, handler
  <2> QED
    BY <1>0, <1>4, <1>7, <2>1, ServiceSends DEF Reaches
<1>8. ASSUME NEW p \in Paths, Changes(p)
      PROVE  j.val <= value'[j.path] /\ \A k \in Following : Behind(queue', k, j.path, j.val)
  <2>1. UNCHANGED <<work, cur>>
    BY <1>8 DEF Changes, handler
  <2>2. \A m \in Messages : m.paths = {p} /\ m.val = value[p] + 1 =>
          \A k \in Following, r \in Paths : Reaches(m, k, r) => value[r] <= m.val
    BY <1>0 DEF Reaches
  <2>3. value' \in [Paths -> Nat] /\ \A r \in Paths : value[r] <= value'[r]
    BY <1>8, ChangesValue
  <2>4. \/ queue' = queue
        \/ \E m \in Messages : queue' = Append(queue, m) /\ m.paths = {p} /\ m.val = value[p] + 1
    BY <1>8, ServiceSends
  <2> QED
    BY <1>4, <2>1, <2>2, <2>3, <2>4
<1>9. CASE UNCHANGED vars
  BY <1>2, <1>9 DEF vars, handler, service, Job
<1> QED
  BY <1>3, <1>5, <1>6, <1>7, <1>8, <1>9 DEF Next, Answers, ServiceStep

(* A proxy object that keeps its properties is made once, and then changed *)
(* only by what reaches it.                                                *)
LEMMA CacheChange ==
  ASSUME TypeOK, TypeOK', Proper, Replies, [Next]_vars, NEW k \in Keeping, NEW p \in mirror'[k]
  PROVE  \/ p \in mirror[k] /\ cache'[k][p] = cache[k][p]
         \/ /\ p \in mirror[k] /\ queue # <<>> /\ Reaches(queue[1], k, p)
            /\ cache'[k][p] = queue[1].val
            /\ queue' = Tail(queue) /\ value' = value
         \/ /\ p \notin mirror[k] /\ p = cur.path /\ k \in cur.kinds
            /\ cache'[k][p] = IF k \in Payload THEN cur.val ELSE 0
            /\ queue' = queue /\ value' = value
<1>0. /\ k \in Kinds /\ p \in Paths /\ queue \in Seq(Messages)
      /\ \A v, ok : Applied(k, p, v, ok) = v
  <2>1. k \in Kinds
    BY KindNames DEF Keeping, Following
  <2>2. p \in Paths
    BY <2>1 DEF TypeOK
  <2> QED
    BY <2>1, <2>2 DEF TypeOK, Applied, Keeping, Following
<1>1. ASSUME UNCHANGED <<mirror, cache>> PROVE p \in mirror[k] /\ cache'[k][p] = cache[k][p]
  BY <1>1
<1>2. ASSUME NEW j \in Kinds, Makes(j)
      PROVE  \/ p \in mirror[k] /\ cache'[k][p] = cache[k][p]
             \/ /\ p \notin mirror[k] /\ p = cur.path /\ k \in cur.kinds
                /\ cache'[k][p] = IF k \in Payload THEN cur.val ELSE 0
                /\ queue' = queue /\ value' = value
  <2> DEFINE v == IF j \in Payload THEN cur.val ELSE 0
  <2>1. /\ mirror' = [mirror EXCEPT ![j] = IF j \in Single THEN {cur.path} ELSE @ \cup {cur.path}]
        /\ cache' = [cache EXCEPT ![j] = [@ EXCEPT ![cur.path] = v]]
        /\ queue' = queue /\ value' = value /\ j \in cur.kinds /\ Adds(j, cur.path, "made")
    BY <1>2 DEF Makes, Enters, service, IsFirst
  <2>2. CASE j = k /\ p = cur.path
    <3>1. k \in KindsOf
      BY <2>1, <2>2 DEF Proper, KnownKinds
    <3>2. p \notin mirror[k]
      BY <2>1, <2>2, <3>1 DEF Adds, BluezAdds, UDisks2Adds, Login1Adds, UPowerAdds,
         Systemd1Adds, Keeping, Following, KindsOf, Shapes
    <3>3. cache'[k][p] = v
      BY <1>0, <2>1, <2>2 DEF TypeOK
    <3> QED
      BY <2>1, <2>2, <3>2, <3>3
  <2>3. CASE ~(j = k /\ p = cur.path)
    <3>1. p \in mirror[k]
      BY <1>0, <2>1, <2>3 DEF TypeOK, Keeping, Following, Single
    <3>2. cache'[k][p] = cache[k][p]
      BY <1>0, <2>1, <2>3 DEF TypeOK
    <3> QED
      BY <3>1, <3>2
  <2> QED
    BY <2>2, <2>3
<1>3. ASSUME NEW j \in Kinds, EndsFetch(j) PROVE p \in mirror[k] /\ cache'[k][p] = cache[k][p]
  <2>1. j \in cur.kinds /\ client = "udisks2"
    BY <1>3 DEF EndsFetch, IsFirst, Proper, Phased
  <2>2. j # k
    BY <2>1 DEF Proper, KnownKinds, KindsOf, Shapes, Keeping, Following
  <2> QED
    BY <1>0, <1>3, <2>2 DEF EndsFetch, Enters, TypeOK
<1>4. CASE onRemoved
  <2>1. mirror'[k] \subseteq mirror[k] /\ cache' = cache
    BY <1>0, <1>4, MirrorAssumption DEF onRemoved, Erases, BluezErases, UDisks2Erases,
       Login1Erases, UPowerErases, Systemd1Erases, TypeOK, MirrorAssumption
  <2> QED
    BY <2>1
<1>5. CASE onPropertiesChanged
  <2>1. /\ queue # <<>> /\ queue[1].type = "changed" /\ mirror' = mirror
        /\ queue' = Tail(queue) /\ value' = value
    BY <1>0, <1>5 DEF onPropertiesChanged, Receives, service
  <2>2. \/ cache'[k][p] = cache[k][p]
        \/ p \in queue[1].paths /\ cache'[k][p] = queue[1].val
    BY <1>0, <1>5 DEF onPropertiesChanged, Receives, Gives
  <2> QED
    BY <2>1, <2>2 DEF Reaches
<1>6. CASE onGetAll
  <2>1. /\ queue # <<>> /\ queue[1].type = "reply" /\ mirror' = mirror
        /\ queue' = Tail(queue) /\ value' = value /\ 1 \in 1..Len(queue)
    BY <1>0, <1>6 DEF onGetAll, Receives, service
  <2>2. \/ cache'[k][p] = cache[k][p]
        \/ k \in queue[1].kinds /\ p \in queue[1].paths /\ cache'[k][p] = queue[1].val
    BY <1>0, <1>6 DEF onGetAll, Receives, Gives
  <2>3. k \in queue[1].kinds => queue[1].kinds = {k}
    BY <2>1 DEF Replies
  <2> QED
    BY <2>1, <2>2, <2>3 DEF Reaches
<1>7. \/ UNCHANGED <<mirror, cache>>
      \/ \E j \in Kinds : Makes(j) \/ EndsFetch(j)
      \/ onRemoved \/ onPropertiesChanged \/ onGetAll
  BY DEF Next, ClientStep, Registers, GetManagedObjects, LoopRuns, UPowerClient,
     Login1GetAllAsync, Login1Registers, Systemd1ManagerClient, NextObject, Throws, Lists,
     PassesOver, StartsFetch, onAdded, onDropped, onEnumerateDevices, onLogin1GetAll, Answers,
     AnswersList, AnswersGetAll, ServiceStep, Exports, Unexports, Changes, vars, copy
<1> QED
  BY <1>1, <1>2, <1>3, <1>4, <1>5, <1>6, <1>7

(* No step adds something older than what a proxy object keeps.            *)
LEMMA SendsNewer ==
  ASSUME TypeOK, Answers \/ ServiceStep
  PROVE  /\ UNCHANGED <<mirror, cache, work, cur>>
         /\ value' \in [Paths -> Nat] /\ \A p \in Paths : value[p] <= value'[p]
         /\ \/ queue' = queue
            \/ \E m \in Messages :
                 /\ queue' = Append(queue, m)
                 /\ \A k, p : p \in Paths /\ Reaches(m, k, p) => value[p] <= m.val
<1>0. value \in [Paths -> Nat]
  BY DEF TypeOK, Versions
<1>1. UNCHANGED <<mirror, cache, work, cur>>
  BY DEF Answers, AnswersList, AnswersGetAll, ServiceStep, Exports, Unexports, Changes,
     handler, copy
<1>2. ASSUME NEW p \in Paths, Changes(p)
      PROVE  /\ value' \in [Paths -> Nat] /\ \A r \in Paths : value[r] <= value'[r]
             /\ \/ queue' = queue
                \/ \E m \in Messages :
                     /\ queue' = Append(queue, m)
                     /\ \A k, r : r \in Paths /\ Reaches(m, k, r) => value[r] <= m.val
  <2>1. \A m \in Messages : m.paths = {p} /\ m.val = value[p] + 1 =>
          \A k, r : r \in Paths /\ Reaches(m, k, r) => value[r] <= m.val
    BY <1>0 DEF Reaches
  <2> QED
    BY <1>2, <2>1, ChangesValue, ServiceSends
<1>3. ASSUME value' = value
      PROVE  value' \in [Paths -> Nat] /\ \A r \in Paths : value[r] <= value'[r]
  BY <1>0, <1>3
<1>4. CASE AnswersList
  <2>1. value' = value
    BY <1>4 DEF AnswersList, service
  <2>2. \/ queue' = queue
        \/ \E m \in Messages : queue' = Append(queue, m) /\ \A k, p : ~Reaches(m, k, p)
    BY <1>4, ListSent DEF Reaches
  <2> QED
    BY <1>1, <1>3, <2>1, <2>2
<1>5. ASSUME NEW j \in Kinds, NEW p \in Paths, AnswersGetAll(j, p)
      PROVE  /\ value' = value
             /\ \/ queue' = queue
                \/ \E m \in Messages :
                     /\ queue' = Append(queue, m)
                     /\ \A k, r : r \in Paths /\ Reaches(m, k, r) => value[r] <= m.val
  <2>1. \A m \in Messages : m.paths = {p} /\ m.val = value[p] =>
          \A k, r : r \in Paths /\ Reaches(m, k, r) => value[r] <= m.val
    BY <1>0 DEF Reaches
  <2>2. value' = value
    BY <1>5 DEF AnswersGetAll, service
  <2> QED
    BY <1>5, <2>1, <2>2, AnswerSent
<1>6. ASSUME NEW p \in Paths, NEW ks \in SUBSET shape[p], Exports(p, ks) \/ Unexports(p, ks)
      PROVE  /\ value' = value
             /\ \/ queue' = queue
                \/ \E m \in Messages : queue' = Append(queue, m) /\ \A k, r : ~Reaches(m, k, r)
  <2>1. value' = value
    BY <1>6 DEF Exports, Unexports
  <2> QED
    BY <1>6, <2>1, ServiceSends DEF Reaches
<1> QED
  BY <1>1, <1>2, <1>3, <1>4, <1>5, <1>6 DEF Answers, ServiceStep

(* What a proxy object keeps is never ahead of what is queued for it.      *)
LEMMA CacheBehindStep ==
  ASSUME TypeOK, TypeOK', Proper, OrderInv, [Next]_vars
  PROVE  CacheBehind'
<1> SUFFICES ASSUME NEW k \in Keeping, NEW p \in mirror'[k]
             PROVE  cache'[k][p] <= value'[p] /\ Behind(queue', k, p, cache'[k][p])
  BY DEF CacheBehind, Behind
<1>0. /\ k \in Kinds /\ queue \in Seq(Messages) /\ value \in [Paths -> Nat]
      /\ Singles(queue) /\ Ordered(queue) /\ Bounded(queue, value) /\ Replies
      /\ JobsBehind /\ CacheBehind
  BY KindNames DEF Keeping, Following, TypeOK, Versions, OrderInv, InOrder
<1>1. p \in Paths /\ cache'[k][p] \in Nat
  BY <1>0 DEF TypeOK, Versions
<1>2. CASE p \in mirror[k] /\ cache'[k][p] = cache[k][p]
  <2> DEFINE v == cache[k][p]
  <2>1. v \in Nat /\ v <= value[p] /\ Behind(queue, k, p, v)
    BY <1>0, <1>1, <1>2 DEF CacheBehind
  <2> HIDE DEF v
  <2>2. CASE ClientStep
    <3>1. value' = value
      BY <2>2, ClientQueue
    <3>2. ASSUME NEW ks, NEW ps, queue # <<>>, queue' = Cancelled(Tail(queue), ks, ps)
          PROVE  Behind(queue', k, p, v)
      <4>1. Tail(queue) \in Seq(Messages) /\ Behind(Tail(queue), k, p, v)
        BY <1>0, <2>1, <3>2, BehindSteps
      <4> QED
        BY <3>2, <4>1, BehindSteps
    <3>3. queue # <<>> /\ queue' = Tail(queue) => Behind(queue', k, p, v)
      BY <1>0, <2>1, BehindSteps
    <3>4. Behind(queue', k, p, v)
      BY <2>1, <2>2, <3>2, <3>3, ClientQueue
    <3> QED
      BY <1>2, <2>1, <3>1, <3>4 DEF v
  <2>3. CASE Answers \/ ServiceStep
    <3>1. /\ value' \in [Paths -> Nat] /\ value[p] <= value'[p]
          /\ \/ queue' = queue
             \/ \E m \in Messages : /\ queue' = Append(queue, m)
                                    /\ Reaches(m, k, p) => value[p] <= m.val
      BY <1>1, <2>3, SendsNewer
    <3>2. v <= value'[p]
      BY <1>0, <1>1, <2>1, <3>1
    <3>3. ASSUME NEW m \in Messages, queue' = Append(queue, m), Reaches(m, k, p) => value[p] <= m.val
          PROVE  Behind(queue', k, p, v)
      <4>1. m.val \in Nat
        BY DEF Messages, Versions
      <4>2. Reaches(m, k, p) => v <= m.val
        BY <1>0, <1>1, <2>1, <3>3, <4>1
      <4> QED
        BY <1>0, <2>1, <3>3, <4>2, BehindSteps
    <3> QED
      BY <1>2, <2>1, <3>1, <3>2, <3>3 DEF v
  <2>4. CASE UNCHANGED vars
    BY <1>2, <2>1, <2>4 DEF vars, service, v
  <2> QED
    BY <2>2, <2>3, <2>4 DEF Next
<1>3. CASE /\ p \in mirror[k] /\ queue # <<>> /\ Reaches(queue[1], k, p)
           /\ cache'[k][p] = queue[1].val /\ queue' = Tail(queue) /\ value' = value
  <2>1. queue[1].type # "list" /\ p \in queue[1].paths /\ 1 \in 1..Len(queue)
    BY <1>0, <1>3 DEF Reaches
  <2>2. About(queue[1], p)
    BY <1>0, <2>1 DEF Singles, About
  <2>3. queue[1].val <= value[p]
    BY <1>0, <1>1, <2>1, <2>2 DEF Bounded
  <2>4. Behind(Tail(queue), k, p, queue[1].val)
    BY <1>0, <1>1, <1>3, <2>1, HandledBehind
  <2> QED
    BY <1>3, <2>3, <2>4
<1>4. CASE /\ p \notin mirror[k] /\ p = cur.path /\ k \in cur.kinds
           /\ cache'[k][p] = IF k \in Payload THEN cur.val ELSE 0
           /\ queue' = queue /\ value' = value
  <2>1. CASE k \in Following
    <3>1. client = "bluez" /\ k \in Payload
      <4>1. k \in KindsOf /\ client \in Clients
        BY <1>4 DEF Proper, KnownKinds, TypeOK
      <4> QED
        BY <2>1, <4>1, MirrorAssumption DEF KindsOf, Shapes, Following, Payload, MirrorAssumption
    <3>2. cur \in Jobs /\ Job(cur)
      BY <1>4 DEF TypeOK, Job
    <3>3. cur.val <= value[p] /\ Behind(queue, k, p, cur.val)
      BY <1>0, <1>4, <2>1, <3>1, <3>2 DEF JobsBehind
    <3> QED
      BY <1>4, <3>1, <3>3
  <2>2. CASE k = "DisplayDevice"
    <3>1. cache'[k][p] = 0
      BY <1>4, <2>2 DEF Payload
    <3>2. \A i \in 1..Len(queue) : queue[i].val \in Nat
      BY <1>0, QueuedMessage DEF Versions
    <3> QED
      BY <1>0, <1>1, <1>4, <3>1, <3>2 DEF Behind
  <2> QED
    BY <2>1, <2>2 DEF Keeping
<1> QED
  BY <1>0, <1>2, <1>3, <1>4, CacheChange

(* The versions on their way to a proxy object are in order, and none of   *)
(* them is older than what it keeps.                                       *)
THEOREM VersionsInOrder == Spec => []OrderInv
<1>1. Init => OrderInv
  <2> SUFFICES ASSUME Init PROVE OrderInv
    OBVIOUS
  <2>1. /\ queue = <<>> /\ work = {} /\ cur.kinds = {} /\ pending = {} /\ toList = <<>>
        /\ \A k \in Keeping : mirror[k] = {}
    BY NoObjectType, KindNames DEF Init, Keeping, Following
  <2>2. InOrder
    BY <2>1 DEF InOrder, Singles, Ordered, Bounded
  <2>3. Replies
    BY <2>1 DEF Replies, Without
  <2>4. JobsBehind /\ CacheBehind
    BY <2>1 DEF JobsBehind, CacheBehind, Job
  <2> QED
    BY <2>2, <2>3, <2>4 DEF OrderInv
<1>2. TypeOK /\ TypeOK' /\ GhostInv /\ OrderInv /\ [Next]_vars => OrderInv'
  <2> SUFFICES ASSUME TypeOK, TypeOK', GhostInv, OrderInv, [Next]_vars PROVE OrderInv'
    OBVIOUS
  <2>1. Proper /\ Phased
    BY DEF GhostInv, Proper
  <2> QED
    BY <2>1, InOrderStep, RepliesStep, JobsBehindStep, CacheBehindStep DEF OrderInv
<1> QED
  BY <1>1, <1>2, MirrorTypeCorrect, GhostInvariant, PTL DEF Spec

(* A proxy object that keeps its properties (Adapter1, Device1 and the     *)
(* devices of UPower) never goes back to older ones than it had, whatever  *)
(* is announced, enumerated, changed and answered in whatever order.       *)
THEOREM MirrorNeverOlder == Spec => NeverOlder
<1>1. /\ TypeOK /\ TypeOK' /\ GhostInv /\ OrderInv /\ [Next]_vars
      => [\A k \in {"Adapter1", "Device1", "DisplayDevice"} : \A p \in mirror[k] \cap mirror'[k] :
            cache'[k][p] >= cache[k][p]]_vars
  <2> SUFFICES ASSUME TypeOK, TypeOK', GhostInv, OrderInv, [Next]_vars,
                      NEW k \in Keeping, NEW p \in mirror[k] \cap mirror'[k]
               PROVE  cache'[k][p] >= cache[k][p]
    BY DEF Keeping, Following
  <2>1. /\ Proper /\ Replies /\ CacheBehind /\ queue \in Seq(Messages) /\ k \in Kinds
    BY KindNames DEF GhostInv, OrderInv, TypeOK, Keeping, Following
  <2>2. p \in Paths /\ cache[k][p] \in Nat /\ cache'[k][p] \in Nat
    BY <2>1 DEF TypeOK, Versions
  <2>3. CASE cache'[k][p] = cache[k][p]
    BY <2>2, <2>3
  <2>4. CASE queue # <<>> /\ Reaches(queue[1], k, p) /\ cache'[k][p] = queue[1].val
    <3>1. 1 \in 1..Len(queue) /\ Behind(queue, k, p, cache[k][p])
      BY <2>1, <2>4 DEF CacheBehind
    <3>2. cache[k][p] <= queue[1].val
      BY <2>4, <3>1 DEF Behind
    <3> QED
      BY <2>2, <2>4, <3>2
  <2> QED
    BY <2>1, <2>3, <2>4, CacheChange
<1> QED
  BY <1>1, MirrorTypeCorrect, GhostInvariant, VersionsInOrder, PTL DEF Spec, NeverOlder

-----------------------------------------------------------------------------
(* A change of the object at p to version v is queued; none is.            *)
Comes(q, p, v) ==
  \E i \in 1..Len(q) : q[i].type = "changed" /\ p \in q[i].paths /\ q[i].val = v

NoneComes(q, p) == \A i \in 1..Len(q) : ~(q[i].type = "changed" /\ p \in q[i].paths)

Coming(p) == Comes(queue, p, value[p])

(* Version v, taken from an announcement, is or will be made current.      *)
UpToDate(k, p, v) == v = value[p] \/ <<k, p>> \in unheard \/ Coming(p)

AddedFresh ==
  \A k \in Following, p \in Paths : \A i \in 1..Len(queue) :
    /\ queue[i].type = "added" /\ k \in queue[i].kinds /\ queue[i].paths = {p}
    /\ ~RemovedAfter(queue, i, k, p)
    => UpToDate(k, p, queue[i].val)

(* Version v is to be given to the proxy object for k at p, or was.        *)
Taken(k, p, v) ==
  \/ \E j \in Jobs : Job(j) /\ j.path = p /\ k \in j.kinds /\ j.val = v
  \/ p \in mirror[k] /\ cache[k][p] = v

TakenFresh ==
  \A k \in Following, p \in Paths : \A v \in Nat :
    ~RemovedAfter(queue, 0, k, p) /\ Taken(k, p, v) => UpToDate(k, p, v)

(* A reply that was waited for is current, or a later change is queued.    *)
FetchedFresh ==
  \A k \in Fetched : \A p \in mirror[k] :
    \/ <<k, p>> \in unheard \/ Coming(p)
    \/ cache[k][p] = value[p] /\ NoneComes(queue, p)

(* Version v is queued for the proxy object for k at p; nothing is.        *)
Answering(q, k, p, v) == \E i \in 1..Len(q) : Reaches(q[i], k, p) /\ q[i].val = v

NoneReaches(q, k, p) == \A i \in 1..Len(q) : ~Reaches(q[i], k, p)

(* What was asked for without waiting is on its way, was refused, is       *)
(* queued, or is current with nothing queued that could set it back.       *)
AskedFresh ==
  \A k \in FetchedAsync : \A p \in mirror[k] : ~RemovedAfter(queue, 0, k, p) =>
    \/ <<k, p>> \in pending \/ <<k, p>> \in unheard
    \/ Answering(queue, k, p, value[p])
    \/ cache[k][p] = value[p] /\ NoneReaches(queue, k, p)

(* Why properties are current in the end: the last change of what a proxy  *)
(* object follows was applied, is queued, or is known to have passed it by.*)
FreshInv == AddedFresh /\ TakenFresh /\ FetchedFresh /\ AskedFresh

(* A queued change stays queued until it is handled.                       *)
LEMMA ComesSteps ==
  ASSUME NEW q \in Seq(Messages), NEW p, NEW v
  PROVE  /\ \A m \in Messages :
              /\ Comes(q, p, v) => Comes(Append(q, m), p, v)
              /\ m.type = "changed" /\ m.paths = {p} /\ m.val = v => Comes(Append(q, m), p, v)
              /\ NoneComes(q, p) /\ ~(m.type = "changed" /\ p \in m.paths)
                   => NoneComes(Append(q, m), p)
         /\ q # <<>> =>
              /\ Comes(q, p, v) =>
                   \/ Comes(Tail(q), p, v)
                   \/ q[1].type = "changed" /\ p \in q[1].paths /\ q[1].val = v
              /\ NoneComes(q, p) => /\ NoneComes(Tail(q), p)
                                    /\ ~(q[1].type = "changed" /\ p \in q[1].paths)
         /\ \A ks, ps : /\ Comes(q, p, v) => Comes(Cancelled(q, ks, ps), p, v)
                        /\ NoneComes(q, p) => NoneComes(Cancelled(q, ks, ps), p)
<1>1. ASSUME NEW m \in Messages
      PROVE  /\ Comes(q, p, v) => Comes(Append(q, m), p, v)
             /\ m.type = "changed" /\ m.paths = {p} /\ m.val = v => Comes(Append(q, m), p, v)
             /\ NoneComes(q, p) /\ ~(m.type = "changed" /\ p \in m.paths)
                  => NoneComes(Append(q, m), p)
  <2>1. \A i \in 1..Len(q) : i \in 1..Len(Append(q, m)) /\ Append(q, m)[i] = q[i]
    OBVIOUS
  <2>2. Len(q) + 1 \in 1..Len(Append(q, m)) /\ Append(q, m)[Len(q) + 1] = m
    OBVIOUS
  <2>3. \A i \in 1..Len(Append(q, m)) :
          Append(q, m)[i] = m \/ (i \in 1..Len(q) /\ Append(q, m)[i] = q[i])
    OBVIOUS
  <2>4. Comes(q, p, v) => Comes(Append(q, m), p, v)
    BY <2>1 DEF Comes
  <2>5. m.type = "changed" /\ m.paths = {p} /\ m.val = v => Comes(Append(q, m), p, v)
    BY <2>2 DEF Comes
  <2>6. NoneComes(q, p) /\ ~(m.type = "changed" /\ p \in m.paths) => NoneComes(Append(q, m), p)
    BY <2>3 DEF NoneComes
  <2> QED
    BY <2>4, <2>5, <2>6
<1>2. ASSUME q # <<>>, Comes(q, p, v)
      PROVE  \/ Comes(Tail(q), p, v)
             \/ q[1].type = "changed" /\ p \in q[1].paths /\ q[1].val = v
  <2>1. PICK i \in 1..Len(q) : q[i].type = "changed" /\ p \in q[i].paths /\ q[i].val = v
    BY <1>2 DEF Comes
  <2>2. CASE i = 1
    BY <2>1, <2>2
  <2>3. CASE i # 1
    <3>1. i - 1 \in 1..Len(Tail(q)) /\ Tail(q)[i - 1] = q[i]
      BY <1>2, <2>3
    <3> QED
      BY <2>1, <3>1 DEF Comes
  <2> QED
    BY <2>2, <2>3
<1>3. ASSUME q # <<>>, NoneComes(q, p)
      PROVE  NoneComes(Tail(q), p) /\ ~(q[1].type = "changed" /\ p \in q[1].paths)
  <2>1. 1 \in 1..Len(q) /\ \A i \in 1..Len(Tail(q)) : Tail(q)[i] = q[i + 1] /\ i + 1 \in 1..Len(q)
    BY <1>3
  <2> QED
    BY <1>3, <2>1 DEF NoneComes
<1>4. ASSUME NEW ks, NEW ps
      PROVE  /\ Comes(q, p, v) => Comes(Cancelled(q, ks, ps), p, v)
             /\ NoneComes(q, p) => NoneComes(Cancelled(q, ks, ps), p)
  <2> DEFINE c == Cancelled(q, ks, ps)
  <2>1. /\ Len(c) = Len(q)
        /\ \A i \in 1..Len(q) : /\ c[i].paths = q[i].paths /\ c[i].val = q[i].val
                                /\ c[i].type = "changed" <=> q[i].type = "changed"
    BY CancelledSame
  <2> HIDE DEF c
  <2>2. (Comes(q, p, v) => Comes(c, p, v)) /\ (NoneComes(q, p) => NoneComes(c, p))
    BY <2>1 DEF Comes, NoneComes
  <2> QED
    BY <2>2 DEF c
<1> QED
  BY <1>1, <1>2, <1>3, <1>4

(* How a step may change what is known to have passed a proxy object by.   *)
LEMMA UnheardChange ==
  ASSUME TypeOK, Proper, Replies, [Next]_vars, NEW k, NEW p, <<k, p>> \in unheard
  PROVE  \/ <<k, p>> \in unheard'
         \/ EndsFetch(k) /\ p = cur.path /\ k \in Fetched
         \/ AnswersGetAll(k, p) /\ k \in FetchedAsync
         \/ \E ks \in SUBSET shape[p] : Exports(p, ks) /\ k \in ks \cap Payload
<1>1. ASSUME NEW j \in Kinds, EndsFetch(j) PROVE <<k, p>> \in unheard' \/ (j = k /\ p = cur.path)
  BY <1>1 DEF EndsFetch, PassedBy
<1>2. ASSUME NEW j \in Kinds, EndsFetch(j) PROVE j \in Fetched
  BY <1>2 DEF EndsFetch, IsFirst, Proper, Phased, KnownKinds, KindsOf, Shapes, Fetched
<1>3. ASSUME NEW q \in Paths, NEW ks \in SUBSET shape[q], Exports(q, ks)
      PROVE  <<k, p>> \in unheard' \/ (p = q /\ k \in ks \cap Payload)
  BY <1>3 DEF Exports
<1>4. \/ <<k, p>> \in unheard'
      \/ \E j \in Kinds : EndsFetch(j)
      \/ \E j \in Kinds, q \in Paths : AnswersGetAll(j, q)
      \/ \E q \in Paths : \E ks \in SUBSET shape[q] : Exports(q, ks)
  BY DEF Next, ClientStep, Registers, GetManagedObjects, LoopRuns, UPowerClient,
     Login1GetAllAsync, Login1Registers, Systemd1ManagerClient, NextObject, Throws, Lists,
     PassesOver, Makes, StartsFetch, onAdded, onRemoved, onPropertiesChanged, onGetAll,
     onDropped, onEnumerateDevices, onLogin1GetAll, Answers, AnswersList,
     ServiceStep, Unexports, Changes, vars, history
<1>5. ASSUME NEW j \in Kinds, NEW q \in Paths, AnswersGetAll(j, q)
      PROVE  <<k, p>> \in unheard' \/ (j = k /\ q = p /\ k \in FetchedAsync)
  <2>1. j \in FetchedAsync
    BY <1>5 DEF AnswersGetAll, Replies
  <2> QED
    BY <1>5, <2>1 DEF AnswersGetAll
<1> QED
  BY <1>1, <1>2, <1>3, <1>4, <1>5

(* Which handlers take a change off the queue, and which a removal.        *)
LEMMA ClientTakes ==
  ASSUME TypeOK, ClientStep
  PROVE  \/ queue' = queue
         \/ onPropertiesChanged /\ queue # <<>> /\ queue' = Tail(queue) /\ queue[1].type = "changed"
         \/ /\ onRemoved /\ queue # <<>> /\ queue[1].type = "removed"
            /\ \E ks, ps : queue' = Cancelled(Tail(queue), ks, ps)
         \/ /\ queue # <<>> /\ queue' = Tail(queue)
            /\ queue[1].type \notin {"changed", "removed"}
<1>1. queue \in Seq(Messages) /\ (queue # <<>> => Head(queue) = queue[1])
  BY DEF TypeOK
<1>2. CASE \/ Registers \/ GetManagedObjects \/ LoopRuns
           \/ UPowerClient \/ Login1GetAllAsync \/ Login1Registers \/ Systemd1ManagerClient
           \/ NextObject \/ Throws \/ Lists
           \/ \E k \in Kinds : PassesOver(k) \/ Makes(k) \/ StartsFetch(k) \/ EndsFetch(k)
  BY <1>2 DEF Registers, GetManagedObjects, LoopRuns, UPowerClient,
     Login1GetAllAsync, Login1Registers, Systemd1ManagerClient, NextObject, Throws, Lists,
     PassesOver, Makes, Enters, StartsFetch, EndsFetch
<1>3. CASE onRemoved
  <2>1. queue # <<>> /\ queue[1].type = "removed"
    BY <1>1, <1>3 DEF onRemoved, Receives
  <2>2. \E ks, ps : queue' = Cancelled(Tail(queue), ks, ps)
    BY <1>3 DEF onRemoved
  <2> QED
    BY <1>3, <2>1, <2>2
<1>4. CASE onPropertiesChanged
  BY <1>1, <1>4 DEF onPropertiesChanged, Receives
<1>5. CASE onAdded \/ onGetAll \/ onDropped \/ onEnumerateDevices \/ onLogin1GetAll
  BY <1>1, <1>5 DEF onAdded, onGetAll, onDropped, onEnumerateDevices, onLogin1GetAll, Receives
<1> QED
  BY <1>2, <1>3, <1>4, <1>5 DEF ClientStep

(* The latest change of an object is handled next.                         *)
Handles(p) ==
  /\ onPropertiesChanged /\ queue # <<>> /\ queue' = Tail(queue) /\ value' = value
  /\ queue[1].type = "changed" /\ p \in queue[1].paths /\ queue[1].val = value[p]

(* The latest change of an object stays queued until it is handled, or is  *)
(* no longer the latest.                                                   *)
LEMMA ComingStep ==
  ASSUME TypeOK, [Next]_vars, NEW p \in Paths, ~Changes(p)
  PROVE  /\ value'[p] = value[p]
         /\ Coming(p) => Comes(queue', p, value'[p]) \/ Handles(p)
<1>0. queue \in Seq(Messages) /\ value \in [Paths -> Nat]
  BY DEF TypeOK, Versions
<1>1. CASE ClientStep
  <2>1. value' = value
    BY <1>1, ClientQueue
  <2> SUFFICES ASSUME Coming(p) PROVE Comes(queue', p, value[p]) \/ Handles(p)
    BY <2>1
  <2>2. Comes(queue, p, value[p])
    BY DEF Coming
  <2>3. CASE queue # <<>> /\ queue' = Tail(queue)
             /\ (onPropertiesChanged \/ queue[1].type # "changed")
    <3>1. \/ Comes(Tail(queue), p, value[p])
          \/ queue[1].type = "changed" /\ p \in queue[1].paths /\ queue[1].val = value[p]
      BY <1>0, <2>2, <2>3, ComesSteps
    <3> QED
      BY <2>1, <2>3, <3>1 DEF Handles
  <2>4. ASSUME NEW ks, NEW ps, queue # <<>>, queue' = Cancelled(Tail(queue), ks, ps),
               queue[1].type = "removed"
        PROVE  Comes(queue', p, value[p])
    <3>1. Tail(queue) \in Seq(Messages) /\ Comes(Tail(queue), p, value[p])
      BY <1>0, <2>2, <2>4, ComesSteps
    <3> QED
      BY <2>4, <3>1, ComesSteps
  <2> QED
    BY <1>1, <2>2, <2>3, <2>4, ClientTakes
<1>2. CASE Answers \/ ServiceStep
  <2>1. value'[p] = value[p]
    <3>1. ASSUME NEW r \in Paths, Changes(r) PROVE value'[p] = value[p]
      BY <3>1, ChangesValue
    <3> QED
      BY <1>2, <3>1 DEF Answers, AnswersList, AnswersGetAll, ServiceStep, Exports, Unexports,
         service
  <2>2. queue' = queue \/ \E m \in Messages : queue' = Append(queue, m)
    BY <1>2, SendsNewer
  <2>3. \A m \in Messages : Comes(queue, p, value[p]) => Comes(Append(queue, m), p, value[p])
    BY <1>0, ComesSteps
  <2> QED
    BY <2>1, <2>2, <2>3 DEF Coming
<1>3. CASE UNCHANGED vars
  BY <1>3 DEF vars, service, Coming
<1> QED
  BY <1>1, <1>2, <1>3 DEF Next

(* A change that is heard is queued.                                       *)
LEMMA HeardComes ==
  ASSUME TypeOK, NEW p \in Paths, Changes(p), Hears(p)
  PROVE  Comes(queue', p, value'[p])
<1>0. queue \in Seq(Messages)
  BY DEF TypeOK
<1>1. value'[p] = value[p] + 1
  BY ChangesValue
<1>2. PICK m \in Messages : /\ queue' = Append(queue, m) /\ m.type = "changed"
                            /\ m.paths = {p} /\ m.val = value[p] + 1
  BY ServiceSends
<1> QED
  BY <1>0, <1>1, <1>2, ComesSteps

(* What follows its object is left behind only by a change that is handled *)
(* now, unless the object is exported anew.                                *)
LEMMA UpToDateStep ==
  ASSUME TypeOK, Proper, Replies, [Next]_vars, NEW k \in Following, NEW p \in Paths, NEW v,
         UpToDate(k, p, v)
  PROVE  \/ UpToDate(k, p, v)'
         \/ Handles(p)
         \/ \E ks \in SUBSET shape[p] : Exports(p, ks) /\ k \in ks
<1>0. k \in Payload /\ k \notin Fetched /\ k \notin FetchedAsync
  BY DEF Following, Payload, Fetched, FetchedAsync
<1>1. CASE Changes(p)
  <2>1. Hears(p) => Comes(queue', p, value'[p])
    BY <1>1, HeardComes
  <2>2. ~Hears(p) => <<k, p>> \in unheard'
    BY <1>0, <1>1 DEF Changes
  <2> QED
    BY <2>1, <2>2 DEF UpToDate, Coming
<1>2. CASE ~Changes(p)
  <2>1. value'[p] = value[p] /\ (Coming(p) => Comes(queue', p, value'[p]) \/ Handles(p))
    BY <1>2, ComingStep
  <2>2. <<k, p>> \in unheard => \/ <<k, p>> \in unheard'
                                \/ \E ks \in SUBSET shape[p] : Exports(p, ks) /\ k \in ks
    BY <1>0, UnheardChange
  <2> QED
    BY <2>1, <2>2 DEF UpToDate, Coming
<1> QED
  BY <1>1, <1>2

(* What is queued behind the latest change has its version.                *)
LEMMA LastHandled ==
  ASSUME TypeOK, InOrder, NEW p \in Paths, Handles(p), NEW n \in 1..Len(queue),
         About(queue[n], p)
  PROVE  queue[n].val = value[p]
<1>0. queue \in Seq(Messages) /\ value[p] \in Nat /\ Singles(queue) /\ Ordered(queue)
      /\ Bounded(queue, value)
  BY DEF TypeOK, Versions, InOrder
<1>1. 1 \in 1..Len(queue) /\ 1 <= n /\ queue[n].val \in Nat
  BY <1>0, QueuedMessage DEF Handles, Versions
<1>2. About(queue[1], p)
  BY <1>0, <1>1 DEF Singles, About, Handles
<1>3. queue[1].val <= queue[n].val /\ queue[n].val <= value[p] /\ queue[1].val = value[p]
  BY <1>0, <1>1, <1>2 DEF Ordered, Bounded, Handles
<1> QED
  BY <1>0, <1>1, <1>3

(* An announcement in the queue was there before, or was sent just now.    *)
LEMMA AddedBefore ==
  ASSUME TypeOK, [Next]_vars, NEW i \in 1..Len(queue'), NEW k, NEW p,
         queue'[i].type = "added", queue'[i].paths = {p}, ~RemovedAfter(queue', i, k, p)
  PROVE  \/ \E n \in 1..Len(queue) : queue'[i] = queue[n] /\ ~RemovedAfter(queue, n, k, p)
         \/ p \in Paths /\ queue'[i].val = value[p] /\ value' = value
<1>0. queue \in Seq(Messages)
  BY DEF TypeOK
<1>1. CASE queue' = queue
  BY <1>1
<1>2. ASSUME queue # <<>>, NEW t, t = Tail(queue), NEW j \in 1..Len(t), queue'[i] = t[j],
             ~RemovedAfter(t, j, k, p)
      PROVE  \E n \in 1..Len(queue) : queue'[i] = queue[n] /\ ~RemovedAfter(queue, n, k, p)
  <2>1. j \in Nat /\ j + 1 \in 1..Len(queue) /\ t[j] = queue[j + 1]
    BY <1>0, <1>2
  <2>2. ~RemovedAfter(queue, j + 1, k, p)
    BY <1>0, <1>2, <2>1, TailRemoved
  <2> QED
    BY <1>2, <2>1, <2>2
<1>3. CASE queue # <<>> /\ queue' = Tail(queue)
  BY <1>2, <1>3
<1>4. ASSUME queue # <<>>, NEW ks, NEW ps, queue' = Cancelled(Tail(queue), ks, ps)
      PROVE  \E n \in 1..Len(queue) : queue'[i] = queue[n] /\ ~RemovedAfter(queue, n, k, p)
  <2>0. Tail(queue) \in Seq(Messages)
    BY <1>0, <1>4
  <2>1. PICK t \in Seq(Messages) : t = Tail(queue)
    BY <2>0
  <2>2. i \in 1..Len(t) /\ i \in Nat
    <3>1. Len(Cancelled(t, ks, ps)) = Len(t)
      BY CancelledKeeps
    <3>2. Len(queue') = Len(t) /\ Len(t) \in Nat
      BY <1>4, <2>1, <3>1
    <3> QED
      BY <3>2
  <2>3. queue'[i] = t[i] /\ ~RemovedAfter(t, i, k, p)
    BY <1>4, <2>1, <2>2, CancelledRemoved
  <2> QED
    BY <1>2, <1>4, <2>1, <2>2, <2>3
<1>5. ASSUME NEW m \in Messages, queue' = Append(queue, m), queue'[i] # m
      PROVE  \E n \in 1..Len(queue) : queue'[i] = queue[n] /\ ~RemovedAfter(queue, n, k, p)
  <2>1. i \in 1..Len(queue) /\ i \in Nat /\ queue'[i] = queue[i]
    BY <1>0, <1>5
  <2>2. ~RemovedAfter(queue, i, k, p)
    BY <1>0, <1>5, <2>1, AppendRemoved
  <2> QED
    BY <2>1, <2>2
<1>6. CASE ClientStep
  BY <1>1, <1>3, <1>4, <1>6, ClientQueue
<1>7. CASE AnswersList
  <2>1. \A m \in Messages : m.type = "list" => queue'[i] # m
    OBVIOUS
  <2> QED
    BY <1>1, <1>5, <1>7, <2>1, ListSent
<1>8. ASSUME NEW j \in Kinds, NEW r \in Paths, AnswersGetAll(j, r)
      PROVE  \E n \in 1..Len(queue) : queue'[i] = queue[n] /\ ~RemovedAfter(queue, n, k, p)
  <2>1. \A m \in Messages : m.type = "reply" => queue'[i] # m
    OBVIOUS
  <2> QED
    BY <1>1, <1>5, <1>8, <2>1, AnswerSent
<1>9. ASSUME NEW r \in Paths, NEW ks \in SUBSET shape[r], Unexports(r, ks)
      PROVE  \E n \in 1..Len(queue) : queue'[i] = queue[n] /\ ~RemovedAfter(queue, n, k, p)
  <2>1. \A m \in Messages : m.type = "removed" => queue'[i] # m
    OBVIOUS
  <2> QED
    BY <1>1, <1>5, <1>9, <2>1, ServiceSends
<1>10. ASSUME NEW r \in Paths, Changes(r)
       PROVE  \E n \in 1..Len(queue) : queue'[i] = queue[n] /\ ~RemovedAfter(queue, n, k, p)
  <2>1. \A m \in Messages : m.type = "changed" => queue'[i] # m
    OBVIOUS
  <2> QED
    BY <1>1, <1>5, <1>10, <2>1, ServiceSends
<1>11. ASSUME NEW r \in Paths, NEW ks \in SUBSET shape[r], Exports(r, ks)
       PROVE  \/ \E n \in 1..Len(queue) : queue'[i] = queue[n] /\ ~RemovedAfter(queue, n, k, p)
              \/ p \in Paths /\ queue'[i].val = value[p] /\ value' = value
  <2>1. \A m \in Messages : m.paths = {r} /\ m.val = value[r] /\ queue'[i] = m
          => p \in Paths /\ queue'[i].val = value[p]
    OBVIOUS
  <2>2. value' = value
    BY <1>11 DEF Exports
  <2> QED
    BY <1>1, <1>5, <1>11, <2>1, <2>2, ServiceSends
<1>12. CASE UNCHANGED vars
  BY <1>1, <1>12 DEF vars
<1> QED
  BY <1>6, <1>7, <1>8, <1>9, <1>10, <1>11, <1>12 DEF Next, Answers, ServiceStep

(* An announcement that nothing takes back is or will be made current.     *)
LEMMA AddedFreshStep ==
  ASSUME TypeOK, TypeOK', GhostInv, InOrder, Replies, AddedFresh, [Next]_vars
  PROVE  AddedFresh'
<1> SUFFICES ASSUME NEW k \in Following, NEW p \in Paths, NEW i \in 1..Len(queue'),
                    NEW v, v = queue'[i].val,
                    queue'[i].type = "added", k \in queue'[i].kinds, queue'[i].paths = {p},
                    ~RemovedAfter(queue', i, k, p)
             PROVE  UpToDate(k, p, v)'
  <2>1. \A k \in Following, p \in Paths : \A i \in 1..Len(queue') :
          /\ queue'[i].type = "added" /\ k \in queue'[i].kinds /\ queue'[i].paths = {p}
          /\ ~RemovedAfter(queue', i, k, p)
          => \/ queue'[i].val = value'[p] \/ <<k, p>> \in unheard'
             \/ Comes(queue', p, value'[p])
    BY DEF UpToDate, Coming
  <2> QED
    BY <2>1 DEF AddedFresh, RemovedAfter, UpToDate, Coming, Comes
<1>1. CASE queue'[i].val = value[p] /\ value' = value
  BY <1>1 DEF UpToDate
<1>2. ASSUME NEW n \in 1..Len(queue), queue'[i] = queue[n], ~RemovedAfter(queue, n, k, p)
      PROVE  UpToDate(k, p, v)'
  <2>1. UpToDate(k, p, v)
    BY <1>2 DEF AddedFresh
  <2>2. CASE Handles(p)
    <3>1. About(queue[n], p)
      BY <1>2 DEF About
    <3>2. v = value[p] /\ value' = value
      BY <1>2, <2>2, <3>1, LastHandled DEF Handles
    <3> QED
      BY <3>2 DEF UpToDate
  <2>3. ASSUME NEW ks \in SUBSET shape[p], Exports(p, ks), k \in ks PROVE FALSE
    <3>1. k \notin exported[p] /\ k \in Kinds
      BY <2>3, KindNames DEF Exports, Following
    <3>2. Tells(queue[n], k, p)
      BY <1>2 DEF Tells
    <3> QED
      BY <1>2, <3>1, <3>2 DEF GhostInv, Announced
  <2> QED
    BY <2>1, <2>2, <2>3, UpToDateStep DEF GhostInv
<1> QED
  BY <1>1, <1>2, AddedBefore

(* A job was one before, has just been enumerated or announced.            *)
LEMMA JobBefore ==
  ASSUME TypeOK, TypeOK', InOrder, [Next]_vars, NEW k \in Following, NEW j \in Jobs, Job(j)',
         k \in j.kinds
  PROVE  \/ /\ \E l \in Jobs : Job(l) /\ l.path = j.path /\ k \in l.kinds /\ l.val = j.val
            /\ queue' = queue \/ \E m \in Messages : queue' = Append(queue, m)
         \/ j.val = value[j.path] /\ value' = value
         \/ /\ queue # <<>> /\ queue' = Tail(queue) /\ queue[1].type = "added"
            /\ k \in queue[1].kinds /\ queue[1].paths = {j.path} /\ j.val = queue[1].val
<1>0. queue \in Seq(Messages) /\ Singles(queue) /\ cur \in Jobs
  BY DEF TypeOK, InOrder
<1>1. ASSUME queue' = queue, Job(j)
      PROVE  /\ \E l \in Jobs : Job(l) /\ l.path = j.path /\ k \in l.kinds /\ l.val = j.val
             /\ queue' = queue
  BY <1>1
<1>2. CASE Registers \/ LoopRuns \/ UPowerClient \/ Login1GetAllAsync \/ Login1Registers
           \/ Systemd1ManagerClient
  BY <1>1, <1>2 DEF Registers, LoopRuns, UPowerClient, Login1GetAllAsync, Login1Registers,
     Systemd1ManagerClient, handler, Job
<1>3. CASE GetManagedObjects \/ Lists
  <2>1. /\ queue' = queue /\ cur' = cur /\ value' = value
        /\ work' = work \/ work' = {} \/ \E ks : work' = Managed(ks)
    BY <1>3 DEF GetManagedObjects, Lists, service
  <2> QED
    BY <1>1, <2>1, ManagedValue DEF Job
<1>4. CASE NextObject
  BY <1>1, <1>4 DEF NextObject, Job
<1>5. CASE Throws
  BY <1>1, <1>5, NoObjectType DEF Throws, Job
<1>6. ASSUME NEW l \in Kinds, PassesOver(l) \/ Makes(l) \/ StartsFetch(l) \/ EndsFetch(l)
      PROVE  /\ \E i \in Jobs : Job(i) /\ i.path = j.path /\ k \in i.kinds /\ i.val = j.val
             /\ queue' = queue
  <2>1. queue' = queue /\ work' = work /\ (cur' = cur \/ Done(l))
    BY <1>6 DEF PassesOver, Makes, StartsFetch, EndsFetch, Enters
  <2>2. CASE Job(j)
    BY <1>1, <2>1, <2>2
  <2>3. CASE j = cur' /\ cur'.kinds # {} /\ Done(l)
    <3>1. j.path = cur.path /\ j.val = cur.val /\ cur.kinds # {} /\ k \in cur.kinds
      BY <2>3, DoneKeeps, DoneType
    <3> QED
      BY <1>0, <2>1, <3>1 DEF Job
  <2> QED
    BY <2>1, <2>2, <2>3 DEF Job
<1>7. CASE onAdded
  <2>1. /\ queue # <<>> /\ queue' = Tail(queue) /\ queue[1].type = "added" /\ work' = work
        /\ work = {} /\ 1 \in 1..Len(queue)
        /\ \E q \in queue[1].paths :
             cur' = [path |-> q, kinds |-> queue[1].kinds, val |-> queue[1].val]
    BY <1>0, <1>7 DEF onAdded, Receives, Idle
  <2>2. j.path \in queue[1].paths /\ j.val = queue[1].val /\ j.kinds = queue[1].kinds
    BY <2>1 DEF Job
  <2>3. queue[1].paths = {j.path}
    BY <1>0, <2>1, <2>2 DEF Singles
  <2> QED
    BY <2>1, <2>2, <2>3
<1>8. CASE onRemoved \/ onPropertiesChanged \/ onGetAll \/ onDropped \/ onLogin1GetAll
  <2>1. ~Job(j)'
    BY <1>8 DEF onRemoved, onPropertiesChanged, onGetAll, onDropped, onLogin1GetAll, Receives,
       Idle, handler, Job
  <2> QED
    BY <2>1
<1>9. CASE onEnumerateDevices
  BY <1>9 DEF onEnumerateDevices, Receives, Idle, Job, Following
<1>10. CASE Answers \/ ServiceStep
  <2>1. Job(j)
    BY <1>10, SendsNewer DEF Job
  <2> QED
    BY <1>10, <2>1, SendsNewer
<1>11. CASE UNCHANGED vars
  BY <1>1, <1>11 DEF vars, handler, Job
<1> QED
  BY <1>2, <1>3, <1>4, <1>5, <1>6, <1>7, <1>8, <1>9, <1>10, <1>11 DEF Next, ClientStep

(* A handled removal takes the proxy object out of its map.                *)
LEMMA RemovedFirst ==
  ASSUME TypeOK, Proper, [Next]_vars, NEW k \in Kinds \ Single, NEW p \in mirror'[k], p \in mirror[k],
         ~RemovedAfter(queue', 0, k, p)
  PROVE  ~RemovedAfter(queue, 0, k, p)
<1>0. queue \in Seq(Messages)
  BY DEF TypeOK
<1>1. CASE queue' = queue
  BY <1>1
<1>2. CASE queue # <<>> /\ queue' = Tail(queue) /\ queue[1].type # "removed"
  BY <1>0, <1>2, TailRemoved
<1>3. CASE onRemoved
  <2>1. /\ queue # <<>> /\ Head(queue) = queue[1]
    BY <1>0, <1>3 DEF onRemoved, Receives
  <2>2. PICK r \in Paths :
          /\ queue[1].paths = {r}
          /\ mirror' = [j \in Kinds |-> IF j \in queue[1].kinds THEN Erases(j, r) ELSE mirror[j]]
          /\ queue' = Cancelled(Tail(queue), queue[1].kinds, {r})
    BY <1>3, <2>1 DEF onRemoved
  <2>3. r \notin Erases(k, r)
    BY MirrorAssumption DEF Erases, BluezErases, UDisks2Erases, Login1Erases, UPowerErases,
       Systemd1Erases, TypeOK, MirrorAssumption, Proper, Filtered
  <2>4. ~(k \in queue[1].kinds /\ queue[1].paths = {p})
    BY <2>2, <2>3
  <2>5. Tail(queue) \in Seq(Messages)
    BY <1>0, <2>1
  <2>6. ~RemovedAfter(Tail(queue), 0, k, p)
    BY <2>2, <2>5, CancelledRemoved
  <2> QED
    BY <1>0, <2>1, <2>4, <2>6, TailRemoved
<1>4. ASSUME NEW m \in Messages, queue' = Append(queue, m) PROVE ~RemovedAfter(queue, 0, k, p)
  BY <1>0, <1>4, AppendRemoved
<1>5. CASE ClientStep
  BY <1>1, <1>2, <1>3, <1>5, ClientTakes
<1>6. CASE Answers \/ ServiceStep
  BY <1>1, <1>4, <1>6, SendsNewer
<1>7. CASE UNCHANGED vars
  BY <1>1, <1>7 DEF vars
<1> QED
  BY <1>5, <1>6, <1>7 DEF Next

(* What takes its properties from an announcement follows its object.      *)
LEMMA HandledFollows ==
  ASSUME TypeOK, NEW k \in Following, NEW p \in mirror[k], Handles(p)
  PROVE  cache'[k][p] = value'[p] \/ <<k, p>> \in unheard'
<1>1. /\ queue \in Seq(Messages) /\ k \in Kinds /\ p \in Paths /\ k \in Subscribing
      /\ \A v, ok : Applied(k, p, v, ok) = v
  <2>1. k \in Kinds /\ k \in Subscribing
    BY KindNames DEF Following, Subscribing, Payload, Fetched, FetchedAsync
  <2> QED
    BY <2>1 DEF TypeOK, Applied, Following
<1>2. Head(queue) = queue[1]
  BY <1>1 DEF Handles
<1> QED
  BY <1>1, <1>2 DEF Handles, onPropertiesChanged, Gives

(* Nothing is exported that is there already.                              *)
LEMMA ExportsNew ==
  ASSUME TypeOK, GhostInv, NEW k \in Kinds, NEW p \in Paths, StandsFor(k, p),
         ~RemovedAfter(queue, 0, k, p)
  PROVE  ~\E ks \in SUBSET shape[p] : Exports(p, ks) /\ k \in ks
<1>1. k \in exported[p]
  BY DEF GhostInv, Truthful
<1> QED
  BY <1>1 DEF Exports

LEMMA TakenFreshStep ==
  ASSUME TypeOK, TypeOK', GhostInv, OrderInv, AddedFresh, TakenFresh, [Next]_vars
  PROVE  TakenFresh'
<1> SUFFICES ASSUME NEW k \in Following, NEW p \in Paths, NEW v \in Nat,
                    ~RemovedAfter(queue', 0, k, p), Taken(k, p, v)'
             PROVE  UpToDate(k, p, v)'
  BY DEF TakenFresh, RemovedAfter
<1>0. /\ queue \in Seq(Messages) /\ k \in Kinds /\ Proper /\ InOrder /\ Replies /\ CacheBehind
      /\ k \notin Single /\ k \in Payload /\ k \in Keeping /\ value \in [Paths -> Nat]
  BY KindNames DEF TypeOK, Following, GhostInv, OrderInv, Single, Payload, Keeping, Versions
<1>1. ASSUME NEW w \in Nat, Taken(k, p, w), ~RemovedAfter(queue, 0, k, p)
      PROVE  UpToDate(k, p, w)' \/ Handles(p)
  <2>1. UpToDate(k, p, w)
    BY <1>1 DEF TakenFresh
  <2>2. StandsFor(k, p)
    BY <1>1 DEF Taken, Job, StandsFor
  <2>3. ~\E ks \in SUBSET shape[p] : Exports(p, ks) /\ k \in ks
    BY <1>0, <1>1, <2>2, ExportsNew
  <2> QED
    BY <1>0, <2>1, <2>3, UpToDateStep
<1>2. ASSUME queue' = queue \/ \E m \in Messages : queue' = Append(queue, m)
      PROVE  ~Handles(p) /\ ~RemovedAfter(queue, 0, k, p)
  <2>1. queue # <<>> => Len(Tail(queue)) # Len(queue)
    BY <1>0
  <2>2. \A m \in Messages : queue # <<>> => Len(Tail(queue)) # Len(Append(queue, m))
    BY <1>0
  <2>3. ~Handles(p)
    BY <1>2, <2>1, <2>2 DEF Handles
  <2>4. \A m \in Messages : RemovedAfter(queue, 0, k, p) => RemovedAfter(Append(queue, m), 0, k, p)
    BY <1>0, AppendRemoved
  <2> QED
    BY <1>2, <2>3, <2>4
<1>3. ASSUME NEW j \in Jobs, Job(j)', j.path = p, k \in j.kinds, j.val = v
      PROVE  UpToDate(k, p, v)'
  <2>1. ASSUME NEW l \in Jobs, Job(l), l.path = p, k \in l.kinds, l.val = v,
               queue' = queue \/ \E m \in Messages : queue' = Append(queue, m)
        PROVE  UpToDate(k, p, v)'
    <3>1. Taken(k, p, v)
      BY <2>1 DEF Taken
    <3> QED
      BY <1>1, <1>2, <2>1, <3>1
  <2>2. CASE v = value[p] /\ value' = value
    BY <2>2 DEF UpToDate
  <2>3. CASE /\ queue # <<>> /\ queue' = Tail(queue) /\ queue[1].type = "added"
             /\ k \in queue[1].kinds /\ queue[1].paths = {p} /\ v = queue[1].val
    <3>1. ~RemovedAfter(queue, 0 + 1, k, p)
      BY <1>0, <2>3, TailRemoved
    <3>2. 1 \in 1..Len(queue)
      BY <1>0, <2>3
    <3>3. UpToDate(k, p, v)
      BY <2>3, <3>1, <3>2 DEF AddedFresh
    <3>4. ~Handles(p)
      BY <2>3 DEF Handles
    <3>5. ~\E ks \in SUBSET shape[p] : Exports(p, ks) /\ k \in ks
      <4>1. Tells(queue[1], k, p)
        BY <2>3 DEF Tells
      <4>2. k \in exported[p]
        BY <1>0, <3>1, <3>2, <4>1 DEF GhostInv, Announced
      <4> QED
        BY <4>2 DEF Exports
    <3> QED
      BY <1>0, <3>3, <3>4, <3>5, UpToDateStep
  <2> QED
    BY <1>0, <1>3, <2>1, <2>2, <2>3, JobBefore
<1>4. ASSUME p \in mirror'[k], cache'[k][p] = v
      PROVE  UpToDate(k, p, v)'
  <2>1. CASE p \in mirror[k] /\ cache'[k][p] = cache[k][p]
    <3>1. Taken(k, p, v) /\ ~RemovedAfter(queue, 0, k, p)
      BY <1>0, <1>4, <2>1, RemovedFirst DEF Taken
    <3>2. Handles(p) => v = value'[p] \/ <<k, p>> \in unheard'
      BY <1>4, <2>1, HandledFollows
    <3> QED
      BY <1>1, <3>1, <3>2 DEF UpToDate
  <2>2. CASE /\ p \in mirror[k] /\ queue # <<>> /\ Reaches(queue[1], k, p)
             /\ cache'[k][p] = queue[1].val /\ queue' = Tail(queue) /\ value' = value
    <3>1. PICK w \in Nat : w = cache[k][p]
      BY <1>0 DEF TypeOK, Versions
    <3>2. Taken(k, p, w) /\ ~RemovedAfter(queue, 0, k, p)
      BY <1>0, <1>4, <2>2, <3>1, RemovedFirst DEF Taken
    <3>3. w <= v /\ v <= value[p]
      <4>1. 1 \in 1..Len(queue) /\ queue[1].type # "list"
        BY <1>0, <2>2 DEF Reaches
      <4>2. About(queue[1], p)
        BY <1>0, <2>2, <4>1 DEF InOrder, Singles, About, Reaches
      <4> QED
        BY <1>0, <1>4, <2>2, <3>1, <4>1, <4>2 DEF CacheBehind, Behind, InOrder, Bounded
    <3>4. Handles(p) => v = value'[p]
      BY <1>4, <2>2 DEF Handles
    <3>5. w = value'[p] => v = value'[p]
      BY <1>0, <2>2, <3>3
    <3> QED
      BY <1>1, <3>2, <3>4, <3>5 DEF UpToDate
  <2>3. CASE /\ p \notin mirror[k] /\ p = cur.path /\ k \in cur.kinds
             /\ cache'[k][p] = IF k \in Payload THEN cur.val ELSE 0
             /\ queue' = queue /\ value' = value
    <3>1. Taken(k, p, v)
      <4>1. cur \in Jobs /\ Job(cur) /\ cur.val = v
        BY <1>0, <1>4, <2>3 DEF TypeOK, Job
      <4> QED
        BY <2>3, <4>1 DEF Taken
    <3> QED
      BY <1>1, <1>2, <2>3, <3>1
  <2> QED
    BY <1>0, <1>4, <2>1, <2>2, <2>3, CacheChange
<1>5. \/ \E j \in Jobs : Job(j)' /\ j.path = p /\ k \in j.kinds /\ j.val = v
      \/ p \in mirror'[k] /\ cache'[k][p] = v
  BY DEF Taken
<1> QED
  BY <1>3, <1>4, <1>5

(* A proxy object that waits for GetAll() changes only when it is made and *)
(* when a change is handled.                                               *)
LEMMA FetchedCache ==
  ASSUME TypeOK, Proper, Replies, [Next]_vars, NEW k \in Fetched, NEW p \in mirror'[k],
         ~(EndsFetch(k) /\ p = cur.path)
  PROVE  /\ p \in mirror[k]
         /\ \/ cache'[k][p] = cache[k][p]
            \/ onPropertiesChanged /\ queue[1].type = "changed" /\ p \in queue[1].paths
<1>0. k \in Kinds /\ queue \in Seq(Messages) /\ k \notin FetchedAsync
  BY KindNames DEF Fetched, FetchedAsync, TypeOK
<1>1. CASE UNCHANGED <<mirror, cache>>
  BY <1>1
<1>2. ASSUME NEW j \in Kinds, Makes(j) PROVE p \in mirror[k] /\ cache'[k][p] = cache[k][p]
  <2>1. Adds(j, cur.path, "made") /\ j \in cur.kinds
    BY <1>2 DEF Makes, IsFirst
  <2>2. j \in KindsOf /\ client \in Clients
    BY <2>1 DEF Proper, KnownKinds, TypeOK
  <2>3. client # "udisks2"
    BY <2>1 DEF Adds, UDisks2Adds
  <2>4. j # k
    BY <2>2, <2>3, MirrorAssumption DEF MirrorAssumption, KindsOf, Shapes, Fetched
  <2> QED
    BY <1>0, <1>2, <2>4 DEF Makes, Enters, TypeOK
<1>3. ASSUME NEW j \in Kinds, EndsFetch(j) PROVE p \in mirror[k] /\ cache'[k][p] = cache[k][p]
  <2>1. /\ mirror' = [mirror EXCEPT ![j] = IF j \in Single THEN {cur.path} ELSE @ \cup {cur.path}]
        /\ cache' = [cache EXCEPT ![j] = [@ EXCEPT ![cur.path] = value[cur.path]]]
    BY <1>3 DEF EndsFetch, Enters
  <2>2. ~(j = k /\ p = cur.path)
    BY <1>3
  <2>3. p \in mirror[k]
    BY <1>0, <2>1, <2>2 DEF TypeOK
  <2>4. cache'[k][p] = cache[k][p]
    BY <1>0, <2>1, <2>2, <2>3 DEF TypeOK
  <2> QED
    BY <2>3, <2>4
<1>4. CASE onRemoved
  <2>1. mirror'[k] \subseteq mirror[k] /\ cache' = cache
    BY <1>0, <1>4, MirrorAssumption DEF onRemoved, Erases, BluezErases, UDisks2Erases,
       Login1Erases, UPowerErases, Systemd1Erases, TypeOK, MirrorAssumption
  <2> QED
    BY <2>1
<1>5. CASE onPropertiesChanged
  <2>1. queue # <<>> /\ Head(queue) = queue[1] /\ queue[1].type = "changed" /\ mirror' = mirror
    BY <1>0, <1>5 DEF onPropertiesChanged, Receives
  <2>2. p \in Paths
    BY <1>0, <2>1 DEF TypeOK
  <2>3. p \notin queue[1].paths => cache'[k][p] = cache[k][p]
    BY <1>0, <1>5, <2>1, <2>2 DEF onPropertiesChanged, Gives
  <2> QED
    BY <1>5, <2>1, <2>3
<1>6. CASE onGetAll
  <2>1. /\ queue # <<>> /\ Head(queue) = queue[1] /\ queue[1].type = "reply" /\ mirror' = mirror
        /\ 1 \in 1..Len(queue)
    BY <1>0, <1>6 DEF onGetAll, Receives
  <2>2. k \notin queue[1].kinds /\ p \in Paths
    BY <1>0, <2>1 DEF Replies, TypeOK
  <2>3. cache'[k][p] = cache[k][p]
    BY <1>0, <1>6, <2>1, <2>2 DEF onGetAll, Gives
  <2> QED
    BY <2>1, <2>3
<1>7. \/ UNCHANGED <<mirror, cache>>
      \/ \E j \in Kinds : Makes(j) \/ EndsFetch(j)
      \/ onRemoved \/ onPropertiesChanged \/ onGetAll
  BY DEF Next, ClientStep, Registers, GetManagedObjects, LoopRuns, UPowerClient,
     Login1GetAllAsync, Login1Registers, Systemd1ManagerClient, NextObject, Throws, Lists,
     PassesOver, StartsFetch, onAdded, onDropped, onEnumerateDevices, onLogin1GetAll, Answers,
     AnswersList, AnswersGetAll, ServiceStep, Exports, Unexports, Changes, vars, copy
<1> QED
  BY <1>1, <1>2, <1>3, <1>4, <1>5, <1>6, <1>7

(* Only a change of the object itself queues one.                          *)
LEMMA NoneComesStep ==
  ASSUME TypeOK, [Next]_vars, NEW p \in Paths, ~Changes(p), NoneComes(queue, p)
  PROVE  NoneComes(queue', p)
<1>0. queue \in Seq(Messages)
  BY DEF TypeOK
<1>1. CASE ClientStep
  <2>1. CASE queue # <<>> /\ queue' = Tail(queue)
    BY <1>0, <2>1, ComesSteps
  <2>2. ASSUME NEW ks, NEW ps, queue # <<>>, queue' = Cancelled(Tail(queue), ks, ps)
        PROVE  NoneComes(queue', p)
    <3>1. Tail(queue) \in Seq(Messages) /\ NoneComes(Tail(queue), p)
      BY <1>0, <2>2, ComesSteps
    <3> QED
      BY <2>2, <3>1, ComesSteps
  <2> QED
    BY <1>1, <2>1, <2>2, ClientQueue
<1>2. ASSUME NEW m \in Messages, queue' = Append(queue, m),
             ~(m.type = "changed" /\ p \in m.paths)
      PROVE  NoneComes(queue', p)
  BY <1>0, <1>2, ComesSteps
<1>3. CASE AnswersList
  <2>1. \A m \in Messages : m.type = "list" => ~(m.type = "changed" /\ p \in m.paths)
    OBVIOUS
  <2> QED
    BY <1>2, <1>3, <2>1, ListSent
<1>4. ASSUME NEW j \in Kinds, NEW r \in Paths, AnswersGetAll(j, r) PROVE NoneComes(queue', p)
  <2>1. \A m \in Messages : m.type = "reply" => ~(m.type = "changed" /\ p \in m.paths)
    OBVIOUS
  <2> QED
    BY <1>2, <1>4, <2>1, AnswerSent
<1>5. ASSUME NEW r \in Paths, NEW ks \in SUBSET shape[r], Exports(r, ks) \/ Unexports(r, ks)
      PROVE  NoneComes(queue', p)
  <2>1. \A m \in Messages : m.type \in {"added", "removed"} =>
          ~(m.type = "changed" /\ p \in m.paths)
    OBVIOUS
  <2> QED
    BY <1>2, <1>5, <2>1, ServiceSends
<1>6. ASSUME NEW r \in Paths, Changes(r) PROVE NoneComes(queue', p)
  <2>1. r # p
    BY <1>6
  <2>2. \A m \in Messages : m.paths = {r} => ~(m.type = "changed" /\ p \in m.paths)
    BY <2>1
  <2> QED
    BY <1>2, <1>6, <2>2, ServiceSends
<1>7. CASE UNCHANGED vars
  BY <1>7 DEF vars
<1> QED
  BY <1>1, <1>3, <1>4, <1>5, <1>6, <1>7 DEF Next, Answers, ServiceStep

(* What a proxy object that waits for GetAll() holds is current, will be,  *)
(* or was overtaken.                                                       *)
LEMMA FetchedFreshStep ==
  ASSUME TypeOK, TypeOK', Proper, InOrder, Replies, FetchedFresh, [Next]_vars
  PROVE  FetchedFresh'
<1> SUFFICES ASSUME NEW k \in Fetched, NEW p \in mirror'[k]
             PROVE  \/ <<k, p>> \in unheard' \/ Comes(queue', p, value'[p])
                    \/ cache'[k][p] = value'[p] /\ NoneComes(queue', p)
  BY DEF FetchedFresh, Coming, Comes, NoneComes
<1>0. /\ k \in Kinds /\ queue \in Seq(Messages) /\ k \in Subscribing /\ k \notin Payload
      /\ k \notin FetchedAsync
      /\ \A i \in 1..Len(queue) : queue[i].val \in Nat
  <2>1. k \in Kinds /\ k \in Subscribing /\ k \notin Payload /\ k \notin FetchedAsync
    BY KindNames DEF Fetched, Payload, Subscribing, FetchedAsync
  <2> QED
    BY <2>1, QueuedMessage DEF TypeOK, Versions
<1>1. p \in Paths /\ value[p] \in Nat
  BY <1>0 DEF TypeOK, Versions
<1>2. CASE EndsFetch(k) /\ p = cur.path
  <2>1. queue' = queue /\ value' = value
    BY <1>2 DEF EndsFetch, Enters, service
  <2>2. cache'[k][p] = value[p]
    BY <1>0, <1>1, <1>2 DEF EndsFetch, Enters, TypeOK
  <2>3. CASE Overtakes(p)
    BY <1>2, <2>3 DEF EndsFetch, PassedBy
  <2>4. CASE NoneComes(queue, p)
    BY <2>1, <2>2, <2>4
  <2>5. CASE ~Overtakes(p) /\ ~NoneComes(queue, p)
    <3>1. PICK i \in 1..Len(queue) : Changed(i, p) /\ ~(queue[i].val < value[p])
      BY <2>5 DEF Overtakes, NoneComes, Changed
    <3>2. About(queue[i], p)
      BY <1>1, <3>1 DEF Changed, About, InOrder, Singles
    <3>3. queue[i].val <= value[p]
      BY <1>1, <3>2 DEF InOrder, Bounded
    <3>4. queue[i].val = value[p]
      BY <1>0, <1>1, <3>1, <3>3
    <3> QED
      BY <2>1, <3>1, <3>4 DEF Comes, Changed
  <2> QED
    BY <2>3, <2>4, <2>5
<1>3. CASE ~(EndsFetch(k) /\ p = cur.path)
  <2>1. /\ p \in mirror[k]
        /\ \/ cache'[k][p] = cache[k][p]
           \/ onPropertiesChanged /\ queue[1].type = "changed" /\ p \in queue[1].paths
    BY <1>3, FetchedCache
  <2>2. CASE Changes(p)
    <3>1. Hears(p)
      BY <1>0, <2>1 DEF Hears
    <3> QED
      BY <1>1, <2>2, <3>1, HeardComes
  <2>3. CASE ~Changes(p)
    <3>1. /\ value'[p] = value[p]
          /\ Coming(p) => Comes(queue', p, value'[p]) \/ Handles(p)
          /\ NoneComes(queue, p) => NoneComes(queue', p)
      BY <1>1, <2>3, ComingStep, NoneComesStep
    <3>2. CASE <<k, p>> \in unheard
      <4>1. \/ <<k, p>> \in unheard'
            \/ EndsFetch(k) /\ p = cur.path /\ k \in Fetched
            \/ AnswersGetAll(k, p) /\ k \in FetchedAsync
            \/ \E ks \in SUBSET shape[p] : Exports(p, ks) /\ k \in ks \cap Payload
        BY <3>2, UnheardChange
      <4> QED
        BY <1>0, <1>3, <4>1
    <3>3. CASE Handles(p)
      <4>1. queue # <<>> /\ Head(queue) = queue[1]
        BY <1>0, <3>3 DEF Handles
      <4>2. (\A ok : Applied(k, p, queue[1].val, ok) = queue[1].val) /\ k # "Adapter1"
        BY DEF Applied, Fetched
      <4>3. cache'[k][p] = value'[p]
        BY <1>0, <1>1, <2>1, <3>3, <4>1, <4>2 DEF Handles, onPropertiesChanged, Gives
      <4>4. ASSUME NEW i \in 1..Len(queue'), queue'[i].type = "changed", p \in queue'[i].paths
            PROVE  Comes(queue', p, value'[p])
        <5>1. i + 1 \in 1..Len(queue) /\ queue'[i] = queue[i + 1]
          BY <1>0, <3>3, <4>1 DEF Handles
        <5>2. About(queue[i + 1], p)
          BY <4>4, <5>1 DEF About, InOrder, Singles
        <5>3. queue[i + 1].val = value[p]
          BY <1>1, <3>3, <5>1, <5>2, LastHandled
        <5> QED
          BY <3>1, <4>4, <5>1, <5>3 DEF Comes
      <4> QED
        BY <4>3, <4>4 DEF NoneComes
    <3>4. CASE cache[k][p] = value[p] /\ NoneComes(queue, p)
      <4>1. ~(onPropertiesChanged /\ queue[1].type = "changed" /\ p \in queue[1].paths)
        <5>1. onPropertiesChanged => 1 \in 1..Len(queue)
          BY <1>0 DEF onPropertiesChanged, Receives
        <5> QED
          BY <3>4, <5>1 DEF NoneComes
      <4> QED
        BY <2>1, <3>1, <3>4, <4>1
    <3> QED
      BY <2>1, <3>1, <3>2, <3>3, <3>4 DEF FetchedFresh
  <2> QED
    BY <2>2, <2>3
<1> QED
  BY <1>2, <1>3

(* What will answer a proxy object stays queued until it is handled, if    *)
(* the proxy object is not destroyed; what is not queued does not appear.  *)
LEMMA AnsweringSteps ==
  ASSUME NEW q \in Seq(Messages), NEW k, NEW p, NEW v
  PROVE  /\ \A m \in Messages :
              /\ Answering(q, k, p, v) => Answering(Append(q, m), k, p, v)
              /\ Reaches(m, k, p) /\ m.val = v => Answering(Append(q, m), k, p, v)
              /\ NoneReaches(q, k, p) /\ ~Reaches(m, k, p) => NoneReaches(Append(q, m), k, p)
         /\ q # <<>> =>
              /\ Answering(q, k, p, v) => \/ Answering(Tail(q), k, p, v)
                                          \/ Reaches(q[1], k, p) /\ q[1].val = v
              /\ NoneReaches(q, k, p) => NoneReaches(Tail(q), k, p) /\ ~Reaches(q[1], k, p)
         /\ \A ks, ps :
              /\ Answering(q, k, p, v) /\ ~(k \in ks /\ p \in ps)
                   => Answering(Cancelled(q, ks, ps), k, p, v)
              /\ NoneReaches(q, k, p) => NoneReaches(Cancelled(q, ks, ps), k, p)
<1>1. ASSUME NEW m \in Messages
      PROVE  /\ Answering(q, k, p, v) => Answering(Append(q, m), k, p, v)
             /\ Reaches(m, k, p) /\ m.val = v => Answering(Append(q, m), k, p, v)
             /\ NoneReaches(q, k, p) /\ ~Reaches(m, k, p) => NoneReaches(Append(q, m), k, p)
  <2>1. \A i \in 1..Len(q) : i \in 1..Len(Append(q, m)) /\ Append(q, m)[i] = q[i]
    OBVIOUS
  <2>2. Len(q) + 1 \in 1..Len(Append(q, m)) /\ Append(q, m)[Len(q) + 1] = m
    OBVIOUS
  <2>3. \A i \in 1..Len(Append(q, m)) :
          Append(q, m)[i] = m \/ (i \in 1..Len(q) /\ Append(q, m)[i] = q[i])
    OBVIOUS
  <2>4. Answering(q, k, p, v) => Answering(Append(q, m), k, p, v)
    BY <2>1 DEF Answering
  <2>5. Reaches(m, k, p) /\ m.val = v => Answering(Append(q, m), k, p, v)
    BY <2>2 DEF Answering
  <2>6. NoneReaches(q, k, p) /\ ~Reaches(m, k, p) => NoneReaches(Append(q, m), k, p)
    BY <2>3 DEF NoneReaches
  <2> QED
    BY <2>4, <2>5, <2>6
<1>2. ASSUME q # <<>>, Answering(q, k, p, v)
      PROVE  Answering(Tail(q), k, p, v) \/ (Reaches(q[1], k, p) /\ q[1].val = v)
  <2>1. PICK i \in 1..Len(q) : Reaches(q[i], k, p) /\ q[i].val = v
    BY <1>2 DEF Answering
  <2>2. CASE i = 1
    BY <2>1, <2>2
  <2>3. CASE i # 1
    <3>1. i - 1 \in 1..Len(Tail(q)) /\ Tail(q)[i - 1] = q[i]
      BY <1>2, <2>3
    <3> QED
      BY <2>1, <3>1 DEF Answering
  <2> QED
    BY <2>2, <2>3
<1>3. ASSUME q # <<>>, NoneReaches(q, k, p)
      PROVE  NoneReaches(Tail(q), k, p) /\ ~Reaches(q[1], k, p)
  <2>1. 1 \in 1..Len(q) /\ \A i \in 1..Len(Tail(q)) : Tail(q)[i] = q[i + 1] /\ i + 1 \in 1..Len(q)
    BY <1>3
  <2> QED
    BY <1>3, <2>1 DEF NoneReaches
<1>4. ASSUME NEW ks, NEW ps, ~(k \in ks /\ p \in ps), Answering(q, k, p, v)
      PROVE  Answering(Cancelled(q, ks, ps), k, p, v)
  <2>1. PICK i \in 1..Len(q) : Reaches(q[i], k, p) /\ q[i].val = v
    BY <1>4 DEF Answering
  <2>2. ~(q[i].type = "reply" /\ q[i].kinds \subseteq ks /\ q[i].paths \subseteq ps)
    BY <1>4, <2>1 DEF Reaches
  <2>3. Len(Cancelled(q, ks, ps)) = Len(q) /\ Cancelled(q, ks, ps)[i] = q[i]
    BY <2>2, CancelledKeeps
  <2> QED
    BY <2>1, <2>3 DEF Answering
<1>5. ASSUME NEW ks, NEW ps, NoneReaches(q, k, p)
      PROVE  NoneReaches(Cancelled(q, ks, ps), k, p)
  <2> DEFINE c == Cancelled(q, ks, ps)
  <2>1. /\ Len(c) = Len(q)
        /\ \A i \in 1..Len(q) : /\ c[i].paths = q[i].paths /\ c[i].kinds = q[i].kinds
                                /\ c[i].type = q[i].type \/ c[i].type = "dropped"
    BY CancelledSame
  <2> HIDE DEF c
  <2>2. NoneReaches(c, k, p)
    BY <1>5, <2>1 DEF NoneReaches, Reaches
  <2> QED
    BY <2>2 DEF c
<1> QED
  BY <1>1, <1>2, <1>3, <1>4, <1>5

(* A message is handled that gives the proxy object its properties.        *)
Gets(k, p) ==
  (onPropertiesChanged \/ onGetAll) /\ queue # <<>> /\ Reaches(queue[1], k, p)

(* A proxy object that asks without waiting has asked when it is made, and *)
(* changes only when something reaches it.                                 *)
LEMMA AskedCache ==
  ASSUME TypeOK, Proper, Replies, [Next]_vars, NEW k \in FetchedAsync, NEW p \in mirror'[k]
  PROVE  \/ <<k, p>> \in pending'
         \/ p \in mirror[k] /\ Gets(k, p) /\ cache'[k][p] \in {queue[1].val, value[p]}
         \/ p \in mirror[k] /\ ~Gets(k, p) /\ cache'[k][p] = cache[k][p]
<1>0. k \in Kinds /\ queue \in Seq(Messages) /\ k \in Subscribing \ {"Adapter1"} /\ k \notin Single
  BY KindNames DEF FetchedAsync, Subscribing, Single, TypeOK
<1>1. CASE UNCHANGED <<mirror, cache>> /\ ~onPropertiesChanged /\ ~onGetAll
  BY <1>1 DEF Gets
<1>2. ASSUME NEW j \in Kinds, Makes(j)
      PROVE  \/ <<k, p>> \in pending'
             \/ p \in mirror[k] /\ ~Gets(k, p) /\ cache'[k][p] = cache[k][p]
  <2>1. /\ mirror' = [mirror EXCEPT ![j] = IF j \in Single THEN {cur.path} ELSE @ \cup {cur.path}]
        /\ cache' = [cache EXCEPT ![j] = [@ EXCEPT ![cur.path] =
                       IF j \in Payload THEN cur.val ELSE 0]]
        /\ pending' = IF j \in FetchedAsync THEN pending \cup {<<j, cur.path>>} ELSE pending
        /\ j \in cur.kinds
    BY <1>2 DEF Makes, Enters, IsFirst
  <2>2. CASE j = k /\ p = cur.path
    BY <2>1, <2>2
  <2>3. CASE ~(j = k /\ p = cur.path)
    <3>1. p \in mirror[k]
      BY <1>0, <2>1, <2>3 DEF TypeOK
    <3>2. cache'[k][p] = cache[k][p]
      BY <1>0, <2>1, <2>3, <3>1 DEF TypeOK
    <3>3. ~Gets(k, p)
      BY <2>1 DEF Gets, onPropertiesChanged, onGetAll, Receives, Idle
    <3> QED
      BY <3>1, <3>2, <3>3
  <2> QED
    BY <2>2, <2>3
<1>3. ASSUME NEW j \in Kinds, EndsFetch(j)
      PROVE  p \in mirror[k] /\ ~Gets(k, p) /\ cache'[k][p] = cache[k][p]
  <2>1. j \in cur.kinds /\ client = "udisks2"
    BY <1>3 DEF EndsFetch, IsFirst, Proper, Phased
  <2>2. j # k
    BY <2>1 DEF Proper, KnownKinds, KindsOf, Shapes, FetchedAsync
  <2>3. ~Gets(k, p)
    BY <2>1 DEF Gets, onPropertiesChanged, onGetAll, Receives, Idle
  <2> QED
    BY <1>0, <1>3, <2>2, <2>3 DEF EndsFetch, Enters, TypeOK
<1>4. CASE onRemoved
  <2>1. mirror'[k] \subseteq mirror[k] /\ cache' = cache
    BY <1>0, <1>4, MirrorAssumption DEF onRemoved, Erases, BluezErases, UDisks2Erases,
       Login1Erases, UPowerErases, Systemd1Erases, TypeOK, MirrorAssumption
  <2>2. ~Gets(k, p)
    BY <1>4 DEF onRemoved, Gets, onPropertiesChanged, onGetAll, Receives
  <2> QED
    BY <2>1, <2>2
<1>5. CASE onPropertiesChanged
  <2>1. queue # <<>> /\ Head(queue) = queue[1] /\ queue[1].type = "changed" /\ mirror' = mirror
    BY <1>0, <1>5 DEF onPropertiesChanged, Receives
  <2>2. p \in Paths /\ (Gets(k, p) <=> p \in queue[1].paths)
    BY <1>0, <1>5, <2>1 DEF TypeOK, Gets, Reaches
  <2>3. IF p \in queue[1].paths
          THEN \E ok \in BOOLEAN : cache'[k][p] = Applied(k, p, queue[1].val, ok)
          ELSE cache'[k][p] = cache[k][p]
    BY <1>0, <1>5, <2>1, <2>2, SMTT(30) DEF onPropertiesChanged, Gives
  <2> QED
    BY <2>1, <2>2, <2>3 DEF Applied
<1>6. CASE onGetAll
  <2>1. /\ queue # <<>> /\ Head(queue) = queue[1] /\ queue[1].type = "reply" /\ mirror' = mirror
        /\ 1 \in 1..Len(queue)
    BY <1>0, <1>6 DEF onGetAll, Receives
  <2>2. k \in queue[1].kinds <=> queue[1].kinds = {k}
    BY <2>1 DEF Replies
  <2>3. p \in Paths /\ (Gets(k, p) <=> k \in queue[1].kinds /\ p \in queue[1].paths)
    BY <1>0, <1>6, <2>1, <2>2 DEF TypeOK, Gets, Reaches
  <2>4. IF k \in queue[1].kinds /\ p \in queue[1].paths
          THEN \E ok \in BOOLEAN : cache'[k][p] = Applied(k, p, queue[1].val, ok)
          ELSE cache'[k][p] = cache[k][p]
    BY <1>0, <1>6, <2>1, <2>3 DEF onGetAll, Gives
  <2> QED
    BY <2>1, <2>3, <2>4 DEF Applied
<1>7. \/ UNCHANGED <<mirror, cache>>
      \/ \E j \in Kinds : Makes(j) \/ EndsFetch(j)
      \/ onRemoved \/ onPropertiesChanged \/ onGetAll
  BY DEF Next, ClientStep, Registers, GetManagedObjects, LoopRuns, UPowerClient,
     Login1GetAllAsync, Login1Registers, Systemd1ManagerClient, NextObject, Throws, Lists,
     PassesOver, StartsFetch, onAdded, onDropped, onEnumerateDevices, onLogin1GetAll, Answers,
     AnswersList, AnswersGetAll, ServiceStep, Exports, Unexports, Changes, vars, copy
<1> QED
  BY <1>1, <1>2, <1>3, <1>4, <1>5, <1>6, <1>7

(* What reaches a proxy object is taken off the queue by its handler.      *)
LEMMA TakenIsHandled ==
  ASSUME TypeOK, ClientStep, queue # <<>>, queue' = Tail(queue), NEW k, NEW p,
         Reaches(queue[1], k, p)
  PROVE  Gets(k, p)
<1>1. queue \in Seq(Messages)
  BY DEF TypeOK
<1>2. Head(queue) = queue[1] /\ queue' # queue
  <2>1. Len(Tail(queue)) # Len(queue)
    BY <1>1
  <2> QED
    BY <1>1, <2>1
<1> QED
  BY <1>2 DEF Gets, Reaches, ClientStep, Registers, GetManagedObjects, LoopRuns, UPowerClient,
     Login1GetAllAsync, Login1Registers, Systemd1ManagerClient, NextObject, Throws, Lists,
     PassesOver, Makes, Enters, StartsFetch, EndsFetch, onAdded, onRemoved, Receives,
     onPropertiesChanged, onGetAll, onDropped, onEnumerateDevices, onLogin1GetAll

(* Only a change of the object and an answer to the proxy object are sent  *)
(* to it.                                                                  *)
LEMMA NoneReachesSent ==
  ASSUME TypeOK, Answers \/ ServiceStep, NEW k \in Kinds, NEW p \in Paths,
         ~Changes(p), ~AnswersGetAll(k, p), NoneReaches(queue, k, p)
  PROVE  NoneReaches(queue', k, p)
<1>0. queue \in Seq(Messages)
  BY DEF TypeOK
<1>1. \A m \in Messages : queue' = Append(queue, m) /\ ~Reaches(m, k, p) => NoneReaches(queue', k, p)
  BY <1>0, AnsweringSteps
<1>2. CASE AnswersList
  BY <1>1, <1>2, ListSent DEF Reaches
<1>3. ASSUME NEW j \in Kinds, NEW r \in Paths, AnswersGetAll(j, r)
      PROVE  NoneReaches(queue', k, p)
  <2>1. \A m \in Messages : m.type = "reply" /\ m.paths = {r} /\ m.kinds = {j} => ~Reaches(m, k, p)
    BY <1>3 DEF Reaches
  <2> QED
    BY <1>1, <1>3, <2>1, AnswerSent
<1>4. ASSUME NEW r \in Paths, NEW ks \in SUBSET shape[r], Exports(r, ks) \/ Unexports(r, ks)
      PROVE  NoneReaches(queue', k, p)
  <2>1. \A m \in Messages : m.type \in {"added", "removed"} => ~Reaches(m, k, p)
    BY DEF Reaches
  <2> QED
    BY <1>1, <1>4, <2>1, ServiceSends
<1>5. ASSUME NEW r \in Paths, Changes(r) PROVE NoneReaches(queue', k, p)
  <2>1. \A m \in Messages : m.paths = {r} => ~Reaches(m, k, p)
    BY <1>5 DEF Reaches
  <2> QED
    BY <1>1, <1>5, <2>1, ServiceSends
<1> QED
  BY <1>2, <1>3, <1>4, <1>5 DEF Answers, ServiceStep

(* The message that is handled is the latest for the proxy object: what it *)
(* leaves is current, and whatever is queued behind it says the same.      *)
LEMMA LatestHandled ==
  ASSUME TypeOK, InOrder, NEW k, NEW p \in Paths, queue # <<>>, Reaches(queue[1], k, p),
         queue[1].val = value[p]
  PROVE  Answering(Tail(queue), k, p, value[p]) \/ NoneReaches(Tail(queue), k, p)
<1>0. /\ queue \in Seq(Messages) /\ value[p] \in Nat /\ Singles(queue) /\ Ordered(queue)
      /\ Bounded(queue, value)
  BY DEF TypeOK, Versions, InOrder
<1> SUFFICES ASSUME NEW i \in 1..Len(Tail(queue)), Reaches(Tail(queue)[i], k, p)
             PROVE  Tail(queue)[i].val = value[p]
  BY DEF Answering, NoneReaches
<1>1. /\ 1 \in 1..Len(queue) /\ i + 1 \in 1..Len(queue) /\ Tail(queue)[i] = queue[i + 1]
      /\ 1 <= i + 1
  BY <1>0
<1>2. About(queue[1], p) /\ About(queue[i + 1], p) /\ queue[i + 1].val \in Nat
  BY <1>0, <1>1, QueuedMessage DEF Singles, About, Reaches, Versions
<1>3. queue[1].val <= queue[i + 1].val /\ queue[i + 1].val <= value[p]
  BY <1>0, <1>1, <1>2 DEF Ordered, Bounded
<1> QED
  BY <1>0, <1>1, <1>2, <1>3

(* What a proxy object that asks without waiting holds is current, or will *)
(* be when the answer or the latest change arrives, or its call failed.    *)
LEMMA AskedFreshStep ==
  ASSUME TypeOK, TypeOK', GhostInv, OrderInv, AskedFresh, [Next]_vars
  PROVE  AskedFresh'
<1> SUFFICES ASSUME NEW k \in FetchedAsync, NEW p \in mirror'[k], ~RemovedAfter(queue', 0, k, p),
                    <<k, p>> \notin pending', <<k, p>> \notin unheard'
             PROVE  \/ Answering(queue', k, p, value'[p])
                    \/ cache'[k][p] = value'[p] /\ NoneReaches(queue', k, p)
  BY DEF AskedFresh, RemovedAfter, Answering, NoneReaches
<1>0. /\ k \in Kinds /\ queue \in Seq(Messages) /\ k \in Subscribing /\ k \in Kinds \ Single
      /\ Proper /\ InOrder /\ Replies
  BY KindNames DEF FetchedAsync, Subscribing, Single, TypeOK, GhostInv, OrderInv
<1>1. p \in Paths /\ value[p] \in Nat
  BY <1>0 DEF TypeOK, Versions
<1>2. /\ p \in mirror[k]
      /\ \/ Gets(k, p) /\ cache'[k][p] \in {queue[1].val, value[p]}
         \/ ~Gets(k, p) /\ cache'[k][p] = cache[k][p]
  BY <1>0, AskedCache
<1>3. ~RemovedAfter(queue, 0, k, p)
  BY <1>0, <1>2, RemovedFirst
<1>4. \/ <<k, p>> \in pending \/ <<k, p>> \in unheard
      \/ Answering(queue, k, p, value[p])
      \/ cache[k][p] = value[p] /\ NoneReaches(queue, k, p)
  BY <1>2, <1>3 DEF AskedFresh
<1>5. CASE Changes(p)
  <2>1. Hears(p)
    BY <1>0, <1>2 DEF Hears
  <2>2. Comes(queue', p, value'[p])
    BY <1>1, <1>5, <2>1, HeardComes
  <2> QED
    BY <2>2 DEF Comes, Answering, Reaches
<1>6. CASE AnswersGetAll(k, p)
  <2>0. queue' # queue
    <3>1. Send(TRUE, "reply", p, {k}, value[p])
      BY <1>6 DEF AnswersGetAll
    <3>2. PICK w \in Messages : w = [type |-> "reply", paths |-> {p}, kinds |-> {k}, val |-> value[p]]
      BY <1>0, <1>1 DEF Messages, Types, TypeOK
    <3>3. queue' = Append(queue, w) /\ Len(Append(queue, w)) # Len(queue)
      BY <1>0, <3>1, <3>2 DEF Send
    <3> QED
      BY <3>3
  <2>1. PICK m \in Messages : /\ queue' = Append(queue, m) /\ m.type = "reply"
                              /\ m.paths = {p} /\ m.kinds = {k} /\ m.val = value[p]
    BY <1>0, <1>1, <1>6, <2>0, AnswerSent
  <2>2. Reaches(m, k, p) /\ value' = value
    BY <1>6, <2>1 DEF Reaches, AnswersGetAll, service
  <2> QED
    BY <1>0, <2>1, <2>2, AnsweringSteps
<1>7. CASE ~Changes(p) /\ ~AnswersGetAll(k, p)
  <2>1. value'[p] = value[p]
    BY <1>1, <1>7, ComingStep
  <2>2. <<k, p>> \notin unheard
    <3>1. k \notin Fetched /\ k \notin Payload
      BY DEF FetchedAsync, Fetched, Payload
    <3> QED
      BY <1>0, <1>7, <3>1, UnheardChange
  <2>3. CASE onRemoved
    <3>1. /\ queue # <<>> /\ Head(queue) = queue[1] /\ queue[1].type = "removed"
      BY <1>0, <2>3 DEF onRemoved, Receives
    <3>2. PICK r \in Paths : /\ queue[1].paths = {r}
                             /\ pending' = pending \ (queue[1].kinds \X {r})
                             /\ queue' = Cancelled(Tail(queue), queue[1].kinds, {r})
      BY <2>3, <3>1 DEF onRemoved
    <3>3. ~(k \in queue[1].kinds /\ p \in {r})
      <4>1. 1 \in 1..Len(queue) /\ 1 > 0
        BY <1>0, <3>1
      <4> QED
        BY <1>3, <3>1, <3>2, <4>1 DEF RemovedAfter
    <3>4. <<k, p>> \notin pending
      BY <3>2, <3>3
    <3>5. ~Gets(k, p) /\ ~Reaches(queue[1], k, p)
      BY <3>1 DEF Gets, Reaches
    <3>6. Tail(queue) \in Seq(Messages)
      BY <1>0, <3>1
    <3>7. CASE Answering(queue, k, p, value[p])
      <4>1. Answering(Tail(queue), k, p, value[p])
        BY <1>0, <3>1, <3>5, <3>7, AnsweringSteps
      <4>2. Answering(Cancelled(Tail(queue), queue[1].kinds, {r}), k, p, value[p])
        BY <3>3, <3>6, <4>1, AnsweringSteps
      <4> QED
        BY <2>1, <3>2, <4>2
    <3>8. CASE cache[k][p] = value[p] /\ NoneReaches(queue, k, p)
      <4>1. NoneReaches(Tail(queue), k, p)
        BY <1>0, <3>1, <3>8, AnsweringSteps
      <4>2. NoneReaches(Cancelled(Tail(queue), queue[1].kinds, {r}), k, p)
        BY <3>6, <4>1, AnsweringSteps
      <4> QED
        BY <1>2, <2>1, <3>2, <3>5, <3>8, <4>2
    <3> QED
      BY <1>4, <2>2, <3>4, <3>7, <3>8
  <2>4. CASE ~onRemoved
    <3>1. <<k, p>> \notin pending
      <4>1. CASE Registers \/ GetManagedObjects \/ LoopRuns \/ UPowerClient
                 \/ Login1GetAllAsync \/ Login1Registers \/ Systemd1ManagerClient
        BY <4>1 DEF Registers, GetManagedObjects, LoopRuns, UPowerClient, Login1GetAllAsync,
           Login1Registers, Systemd1ManagerClient
      <4>2. CASE NextObject \/ Throws \/ Lists
                 \/ \E j \in Kinds : PassesOver(j) \/ StartsFetch(j)
        BY <4>2 DEF NextObject, Lists, PassesOver, Throws, StartsFetch
      <4>3. CASE \E j \in Kinds : Makes(j) \/ EndsFetch(j)
        <5>1. pending \subseteq pending'
          BY <4>3 DEF Makes, EndsFetch, Enters
        <5> QED
          BY <5>1
      <4>4. CASE onAdded \/ onPropertiesChanged \/ onGetAll \/ onDropped
                 \/ onEnumerateDevices \/ onLogin1GetAll
        BY <4>4 DEF onAdded, onPropertiesChanged, onGetAll, onDropped, onEnumerateDevices,
           onLogin1GetAll
      <4>5. CASE Answers
        BY <1>7, <4>5 DEF Answers, AnswersList, AnswersGetAll
      <4>6. CASE ServiceStep
        BY <4>6 DEF ServiceStep, Exports, Unexports, Changes
      <4>7. CASE UNCHANGED vars
        BY <4>7 DEF vars
      <4> QED
        BY <2>4, <4>1, <4>2, <4>3, <4>4, <4>5, <4>6, <4>7 DEF Next, ClientStep
    <3>2. CASE Gets(k, p)
      <4>1. queue # <<>> /\ Reaches(queue[1], k, p) /\ queue' = Tail(queue)
        BY <3>2 DEF Gets, onPropertiesChanged, onGetAll
      <4>2. ~NoneReaches(queue, k, p)
        BY <1>0, <4>1, AnsweringSteps
      <4>3. Answering(Tail(queue), k, p, value[p]) \/ queue[1].val = value[p]
        BY <1>0, <1>4, <2>2, <3>1, <4>1, <4>2, AnsweringSteps
      <4>4. CASE queue[1].val = value[p]
        <5>1. cache'[k][p] = value[p]
          BY <1>2, <3>2, <4>4
        <5>2. Answering(Tail(queue), k, p, value[p]) \/ NoneReaches(Tail(queue), k, p)
          BY <1>0, <1>1, <4>1, <4>4, LatestHandled
        <5> QED
          BY <2>1, <4>1, <5>1, <5>2
      <4> QED
        BY <2>1, <4>1, <4>3, <4>4
    <3>3. CASE ~Gets(k, p)
      <4>1. CASE ClientStep
        <5>1. CASE queue # <<>> /\ queue' = Tail(queue)
          <6>1. ~Reaches(queue[1], k, p)
            BY <3>3, <4>1, <5>1, TakenIsHandled
          <6>2. /\ Answering(queue, k, p, value[p]) => Answering(queue', k, p, value[p])
                /\ NoneReaches(queue, k, p) => NoneReaches(queue', k, p)
            BY <1>0, <5>1, <6>1, AnsweringSteps
          <6> QED
            BY <1>2, <1>4, <2>1, <2>2, <3>1, <3>3, <6>2
        <5>2. CASE queue' = queue
          BY <1>2, <1>4, <2>1, <2>2, <3>1, <3>3, <5>2
        <5> QED
          BY <2>4, <4>1, <5>1, <5>2, ClientTakes
      <4>2. CASE Answers \/ ServiceStep
        <5>1. NoneReaches(queue, k, p) => NoneReaches(queue', k, p)
          BY <1>0, <1>1, <1>7, <4>2, NoneReachesSent
        <5>2. \A m \in Messages : Answering(queue, k, p, value[p]) =>
                Answering(Append(queue, m), k, p, value[p])
          BY <1>0, AnsweringSteps
        <5>3. Answering(queue, k, p, value[p]) => Answering(queue', k, p, value[p])
          BY <4>2, <5>2, SendsNewer
        <5> QED
          BY <1>2, <1>4, <2>1, <2>2, <3>1, <3>3, <5>1, <5>3
      <4>3. CASE UNCHANGED vars
        BY <1>2, <1>4, <2>1, <2>2, <3>1, <3>3, <4>3 DEF vars
      <4> QED
        BY <4>1, <4>2, <4>3 DEF Next
    <3> QED
      BY <3>2, <3>3
  <2> QED
    BY <2>3, <2>4
<1> QED
  BY <1>5, <1>6, <1>7

-----------------------------------------------------------------------------
(* The last change of the properties a proxy object follows was applied,   *)
(* is on its way, or is known to have passed it by; what was asked for     *)
(* without waiting likewise, unless the call failed.                       *)
THEOREM FreshInvariant == Spec => []FreshInv
<1>1. Init => FreshInv
  <2> SUFFICES ASSUME Init PROVE FreshInv
    OBVIOUS
  <2>1. queue = <<>> /\ work = {} /\ cur.kinds = {} /\ \A k \in Kinds : mirror[k] = {}
    BY NoObjectType DEF Init
  <2>2. AddedFresh
    BY <2>1 DEF AddedFresh
  <2>3. \A k \in Following \cup Fetched \cup FetchedAsync : mirror[k] = {}
    BY <2>1, KindNames DEF Following, Fetched, FetchedAsync
  <2>4. TakenFresh
    BY <2>1, <2>3 DEF TakenFresh, Taken, Job
  <2>5. FetchedFresh /\ AskedFresh
    BY <2>3 DEF FetchedFresh, AskedFresh
  <2> QED
    BY <2>2, <2>4, <2>5 DEF FreshInv
<1>2. TypeOK /\ TypeOK' /\ GhostInv /\ OrderInv /\ FreshInv /\ [Next]_vars => FreshInv'
  <2> SUFFICES ASSUME TypeOK, TypeOK', GhostInv, OrderInv, FreshInv, [Next]_vars PROVE FreshInv'
    OBVIOUS
  <2>1. Proper /\ InOrder /\ Replies /\ AddedFresh /\ TakenFresh /\ FetchedFresh /\ AskedFresh
    BY DEF GhostInv, OrderInv, FreshInv
  <2> QED
    BY <2>1, AddedFreshStep, TakenFreshStep, FetchedFreshStep, AskedFreshStep DEF FreshInv
<1> QED
  BY <1>1, <1>2, MirrorTypeCorrect, GhostInvariant, VersionsInOrder, PTL DEF Spec

(* With nothing left to handle, the properties a proxy object follows are  *)
(* the service's, unless a change passed it by or its GetAllAsync() failed:*)
(* for any number of objects and of changes, in whatever order signals,    *)
(* replies, failures and handlers come.                                    *)
THEOREM MirrorFresh == Spec => []Fresh
<1>1. TypeOK /\ FreshInv => Fresh
  <2> SUFFICES ASSUME TypeOK, FreshInv, Drained, NEW k \in Subscribing \ Single, NEW p \in mirror[k]
               PROVE  cache[k][p] = value[p] \/ <<k, p>> \in unheard
    BY DEF Fresh
  <2>1. /\ k \in Following \cup (Fetched \ Single) \cup FetchedAsync
        /\ k \in Kinds
    BY KindNames DEF Subscribing, Payload, Fetched, FetchedAsync, Following, Single
  <2>2. p \in Paths /\ cache[k][p] \in Nat
    BY <2>1 DEF TypeOK, Versions
  <2>3. queue = <<>> /\ pending = {}
    BY DEF Drained
  <2>4. ~RemovedAfter(queue, 0, k, p) /\ ~Coming(p) /\ ~Answering(queue, k, p, value[p])
    BY <2>3 DEF RemovedAfter, Coming, Comes, Answering
  <2>5. CASE k \in Following
    <3>1. Taken(k, p, cache[k][p])
      BY DEF Taken
    <3> QED
      BY <2>2, <2>4, <2>5, <3>1 DEF FreshInv, TakenFresh, UpToDate
  <2>6. CASE k \in Fetched
    BY <2>4, <2>6 DEF FreshInv, FetchedFresh
  <2>7. CASE k \in FetchedAsync
    BY <2>3, <2>4, <2>7 DEF FreshInv, AskedFresh
  <2> QED
    BY <2>1, <2>5, <2>6, <2>7
<1> QED
  BY <1>1, MirrorTypeCorrect, FreshInvariant, PTL
=============================================================================
