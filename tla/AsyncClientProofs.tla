-------------------------- MODULE AsyncClientProofs --------------------------
(***************************************************************************)
(* Proofs about AsyncClient, for any technologies, services, delays and    *)
(* number of events.                                                       *)
(***************************************************************************)
EXTENDS AsyncClient, FiniteSetTheorems, TLAPS

Known == {"connman", "hostname1", "locale1", "timedate1", "fwupd", "packagekit", "flatpak",
          "avahi"}

(* The statement that follows each statement of each program.              *)
LEMMA Statements ==
  ASSUME program \in Known
  PROVE  /\ program = "hostname1" =>
              /\ After("connect") = "register" /\ After("register") = "call"
              /\ After("call") = "ask" /\ After("ask") = "await"
              /\ After("await") = "use" /\ After("use") = "leave"
              /\ After("leave") = "forget" /\ After("forget") = "destroy"
              /\ After("destroy") = "done"
         /\ program = "locale1" =>
              /\ After("connect") = "register" /\ After("register") = "ask"
              /\ After("ask") = "await" /\ After("await") = "use"
              /\ After("use") = "leave" /\ After("leave") = "forget"
              /\ After("forget") = "destroy" /\ After("destroy") = "done"
         /\ program = "timedate1" =>
              /\ After("connect") = "register" /\ After("register") = "ask"
              /\ After("ask") = "await" /\ After("await") = "use"
              /\ After("use") = "leave" /\ After("leave") = "forget"
              /\ After("forget") = "destroy" /\ After("destroy") = "done"
         /\ program = "fwupd" =>
              /\ After("connect") = "register" /\ After("register") = "ask"
              /\ After("ask") = "await" /\ After("await") = "forget"
              /\ After("forget") = "call" /\ After("call") = "leave"
              /\ After("leave") = "destroy" /\ After("destroy") = "done"
         /\ program = "packagekit" =>
              /\ After("connect") = "register" /\ After("register") = "ask"
              /\ After("ask") = "await" /\ After("await") = "call"
              /\ After("call") = "forget" /\ After("forget") = "destroy"
              /\ After("destroy") = "leave" /\ After("leave") = "done"
         /\ program = "flatpak" =>
              /\ After("connect") = "register" /\ After("register") = "call"
              /\ After("call") = "use" /\ After("use") = "leave"
              /\ After("leave") = "destroy" /\ After("destroy") = "done"
         /\ program = "avahi" =>
              /\ After("connect") = "register" /\ After("register") = "call"
              /\ After("call") = "use" /\ After("use") = "destroy"
              /\ After("destroy") = "leave" /\ After("leave") = "done"
         /\ program = "connman" =>
              /\ After("test") = "connect" /\ After("connect") = "register"
              /\ After("register") = "lock" /\ After("lock") = "technologies"
              /\ After("technologies") = "create_technologies" /\ After("create_technologies") = "services"
              /\ After("services") = "create_services" /\ After("create_services") = "monitor"
              /\ After("monitor") = "destroy" /\ After("destroy") = "leave"
              /\ After("leave") = "retry" /\ After("retry") = "sleep"
              /\ After("sleep") = "test"
<1>1. CASE program = "hostname1"
  BY <1>1 DEF After, Script, hostname1
<1>2. CASE program = "locale1"
  BY <1>2 DEF After, Script, locale1
<1>3. CASE program = "timedate1"
  BY <1>3 DEF After, Script, timedate1
<1>4. CASE program = "fwupd"
  BY <1>4 DEF After, Script, fwupd
<1>5. CASE program = "packagekit"
  BY <1>5 DEF After, Script, packagekit
<1>6. CASE program = "flatpak"
  BY <1>6 DEF After, Script, flatpak
<1>7. CASE program = "avahi"
  BY <1>7 DEF After, Script, avahi
<1>8. CASE program = "connman"
  BY <1>8 DEF After, Script, connman
<1> QED
  BY <1>1, <1>2, <1>3, <1>4, <1>5, <1>6, <1>7, <1>8 DEF Known

(* Where an exception leads: on, only in three programs; to the clean-up,  *)
(* only in the programs with a try block around main.                      *)
LEMMA ThrowsLeads ==
  ASSUME program \in Known, NEW s, Throws(s)
  PROVE  \/ step' = "terminated"
         \/ step' = "unwind" /\ program \in {"packagekit", "flatpak", "connman"}
         \/ /\ step' = After(s)
            /\ \/ s = "call" /\ program \in {"flatpak", "fwupd"}
               \/ s = "await" /\ program \in {"fwupd", "timedate1"}
BY DEF Known, Throws, Handled

(* Statements belong to programs, and the order of clean-up in each.       *)
Placed ==
  /\ step \in {"test", "lock", "technologies", "create_technologies", "services",
               "create_services", "monitor", "retry", "sleep"} => program = "connman"
  /\ step \in {"ask", "await", "forget"} =>
       program \in {"hostname1", "locale1", "timedate1", "fwupd", "packagekit"}
  /\ step = "call" => program \in {"hostname1", "fwupd", "packagekit", "flatpak", "avahi"}
  /\ step = "use" => program \in {"hostname1", "locale1", "timedate1", "flatpak", "avahi"}
  /\ step = "unwind" => program \in {"packagekit", "flatpak", "connman"}

CleanedUp ==
  /\ step \in {"test", "connect", "retry", "sleep", "done"} => thread = "off" /\ ~registered
  /\ step = "register" => ~registered
  /\ step = "leave" /\ program \in {"packagekit", "avahi", "connman"} => ~registered
  /\ step \in {"forget", "destroy"} /\ program \in {"hostname1", "locale1", "timedate1"} =>
       thread = "off"
  /\ step = "destroy" /\ program \in {"fwupd", "flatpak"} => thread = "off"

(* Who holds maps_mutex_, and that a handler has a client.                 *)
Locked ==
  /\ thread \in {"waits", "handles"} => registered
  /\ thread = "handles" /\ program = "connman" => maps_mutex = "event"
  /\ step \in Loading => maps_mutex = "main"

ThreadInv == Placed /\ CleanedUp /\ Locked

(* The invariant implies what is wanted.                                   *)
LEMMA ThreadInvSuffices == ThreadInv => ThreadsApart
BY DEF ThreadInv, CleanedUp, Locked, ThreadsApart, Loading, Placed

(* What the invariant says once more, with its steps and threads.          *)
Sound ==
  /\ program \in Known /\ step \in Steps
  /\ thread \in {"off", "idle", "waits", "handles"}
  /\ maps_mutex \in {"none", "main", "event"} /\ registered \in BOOLEAN
  /\ ThreadInv

LEMMA InitSound == Init => Sound
<1> SUFFICES ASSUME Init
             PROVE  Sound
  OBVIOUS
<1>1. program \in Known
  BY AsyncAssumption DEF Init, Known
<1>2. step \in {"test", "connect"} /\ (step = "test" => program = "connman")
  BY DEF Init
<1>3. thread = "off" /\ ~registered /\ registered \in BOOLEAN /\ maps_mutex = "none"
  BY DEF Init
<1> QED
  BY <1>1, <1>2, <1>3 DEF Sound, ThreadInv, Placed, CleanedUp, Locked, Loading, Steps

(* Main's statements that every program may have.                          *)
LEMMA ConnectSound == Sound /\ Connect => Sound'
<1> SUFFICES ASSUME Sound, Connect
             PROVE  Sound'
  OBVIOUS
<1> USE DEF Sound
<1>1. step = "connect" /\ program' = program /\ registered' = registered
  BY DEF Connect
<1>2. ~registered /\ thread = "off"
  BY <1>1 DEF ThreadInv, CleanedUp
<1>3. CASE step' = After("connect") /\ thread' = "idle" /\ UNCHANGED maps_mutex
  <2>1. step' = "register"
    BY <1>3, Statements DEF Known
  <2> QED
    BY <1>1, <1>2, <1>3, <2>1 DEF ThreadInv, Placed, CleanedUp, Locked, Loading, Steps
<1>4. CASE Throws("connect") /\ UNCHANGED thread
  <2>1. \/ step' = "terminated"
        \/ step' = "unwind" /\ program \in {"packagekit", "flatpak", "connman"}
    BY <1>4, ThrowsLeads
  <2>2. maps_mutex' \in {"none", "main", "event"}
    BY <1>4 DEF Throws
  <2> QED
    BY <1>1, <1>2, <1>4, <2>1, <2>2 DEF ThreadInv, Placed, CleanedUp, Locked, Loading, Steps
<1> QED
  BY <1>3, <1>4 DEF Connect

(* An exception leaves both threads in order, wherever it comes from.      *)
LEMMA ThrowSound ==
  ASSUME Sound, NEW s, Throws(s), UNCHANGED <<program, thread, registered>>
  PROVE  Sound'
<1> USE DEF Sound
<1>1. /\ maps_mutex' \in {"none", "main", "event"}
      /\ maps_mutex = "event" => maps_mutex' = "event"
  BY DEF Throws
<1>2. \/ step' = "terminated"
      \/ step' = "unwind" /\ program \in {"packagekit", "flatpak", "connman"}
      \/ step' \in {"use", "leave", "forget"} /\ program = "fwupd" /\ step' # "use"
      \/ step' = "use" /\ program \in {"flatpak", "timedate1"}
  BY ThrowsLeads, Statements DEF Known
<1> QED
  BY <1>1, <1>2 DEF ThreadInv, Placed, CleanedUp, Locked, Loading, Steps

(* The statements of the programs that ask once.                           *)
LEMMA AskingSound ==
  ASSUME Sound, Register \/ Call \/ Ask \/ Await \/ Use \/ Forget
  PROVE  Sound'
<1>1. UNCHANGED <<program, thread>>
  BY DEF Register, Call, Ask, Await, Use, Forget, threadVars
<1>2. CASE \E s : Throws(s) /\ UNCHANGED registered
  BY <1>1, <1>2, ThrowSound
<1>3. CASE Register /\ registered' = TRUE /\ step' = After("register") /\ UNCHANGED maps_mutex
  <2>1. /\ step' \in {"call", "ask", "lock"}
        /\ step' = "call" => program \in {"hostname1", "flatpak", "avahi"}
        /\ step' = "ask" => program \in {"locale1", "timedate1", "fwupd", "packagekit"}
        /\ step' = "lock" => program = "connman"
    BY <1>3, Statements DEF Sound, Known
  <2>2. step = "register"
    BY <1>3 DEF Register
  <2> QED
    BY <1>1, <1>3, <2>1, <2>2
    DEF Sound, ThreadInv, Placed, CleanedUp, Locked, Loading, Steps
<1>4. CASE Register /\ program = "avahi" /\ step' = "leave" /\ UNCHANGED <<registered, maps_mutex>>
  BY <1>1, <1>4 DEF Register, Sound, ThreadInv, Placed, CleanedUp, Locked, Loading, Steps
<1>5. CASE Call /\ step' = After("call") /\ UNCHANGED <<registered, maps_mutex>>
  <2>1. step = "call" /\ program \in {"hostname1", "fwupd", "packagekit", "flatpak", "avahi"}
    BY <1>5 DEF Call, Sound, ThreadInv, Placed
  <2>2. \/ program = "hostname1" /\ step' = "ask"
        \/ program = "fwupd" /\ step' = "leave"
        \/ program = "packagekit" /\ step' = "forget"
        \/ program \in {"flatpak", "avahi"} /\ step' = "use"
    BY <1>5, <2>1, Statements DEF Sound
  <2> QED
    BY <1>1, <1>5, <2>1, <2>2
    DEF Sound, ThreadInv, Placed, CleanedUp, Locked, Loading, Steps
<1>6. CASE /\ Ask \/ Await
           /\ step' = step \/ step' = After(step)
           /\ UNCHANGED <<registered, maps_mutex>>
  <2>1. /\ step \in {"ask", "await"}
        /\ program \in {"hostname1", "locale1", "timedate1", "fwupd", "packagekit"}
    BY <1>6 DEF Ask, Await, Sound, ThreadInv, Placed
  <2>2. \/ step' \in {"ask", "await"}
        \/ program \in {"hostname1", "locale1", "timedate1"} /\ step' = "use"
        \/ program = "fwupd" /\ step' = "forget"
        \/ program = "packagekit" /\ step' = "call"
    BY <1>6, <2>1, Statements DEF Sound
  <2> QED
    BY <1>1, <1>6, <2>1, <2>2
    DEF Sound, ThreadInv, Placed, CleanedUp, Locked, Loading, Steps
<1>7. CASE Use
  <2>1. /\ step = "use" /\ UNCHANGED <<registered, maps_mutex>>
        /\ program \in {"hostname1", "locale1", "timedate1", "flatpak", "avahi"}
    BY <1>7 DEF Use, Sound, ThreadInv, Placed
  <2>2. \/ program # "avahi" /\ step' = "leave" /\ program \notin {"packagekit", "connman"}
        \/ program = "avahi" /\ step' = "destroy"
    BY <1>7, <2>1, Statements DEF Use, Sound
  <2> QED
    BY <1>1, <2>1, <2>2 DEF Sound, ThreadInv, Placed, CleanedUp, Locked, Loading, Steps
<1>8. CASE Forget
  <2>1. /\ step = "forget" /\ UNCHANGED <<registered, maps_mutex>>
        /\ program \in {"hostname1", "locale1", "timedate1", "fwupd", "packagekit"}
    BY <1>8 DEF Forget, Sound, ThreadInv, Placed
  <2>2. \/ program # "fwupd" /\ step' = "destroy"
        \/ program = "fwupd" /\ step' = "call"
    BY <1>8, <2>1, Statements DEF Forget, Sound
  <2> QED
    BY <1>1, <2>1, <2>2 DEF Sound, ThreadInv, Placed, CleanedUp, Locked, Loading, Steps
<1>9. Register => \/ Throws("register") /\ UNCHANGED registered
                  \/ registered' = TRUE /\ step' = After("register") /\ UNCHANGED maps_mutex
                  \/ /\ program = "avahi" /\ step' = "leave"
                     /\ UNCHANGED <<registered, maps_mutex>>
  BY DEF Register
<1>10. Call => /\ UNCHANGED registered
               /\ Throws("call") \/ (step' = After("call") /\ UNCHANGED maps_mutex)
  BY DEF Call
<1>11. Ask \/ Await => /\ UNCHANGED registered
                       /\ \/ Throws("ask") \/ Throws("await")
                          \/ /\ step' = step \/ step' = After(step)
                             /\ UNCHANGED maps_mutex
  BY DEF Ask, Await
<1> QED
  BY <1>2, <1>3, <1>4, <1>5, <1>6, <1>7, <1>8, <1>9, <1>10, <1>11

(* The clean-up: client first or event thread first, as each program has it.*)
LEMMA CleanupSound ==
  ASSUME Sound, Destroy \/ Leave
  PROVE  Sound'
<1>1. /\ program' = program /\ maps_mutex' = maps_mutex /\ thread \in {"off", "idle"}
      /\ program \in Known
  BY DEF Destroy, Leave, BusFree, Sound
<1>2. CASE Destroy
  <2>1. thread' = thread /\ registered' = FALSE /\ step \in {"destroy", "unwind"}
    BY <1>2 DEF Destroy, threadVars
  <2>2. CASE step = "destroy"
    <3>1. \/ /\ program \in {"hostname1", "locale1", "timedate1", "fwupd", "flatpak"}
             /\ step' = "done" /\ thread = "off"
          \/ program \in {"packagekit", "avahi", "connman"} /\ step' = "leave"
      BY <1>1, <1>2, <2>2, Statements DEF Destroy, Sound, ThreadInv, CleanedUp, Known
    <3> QED
      BY <1>1, <2>1, <3>1 DEF Sound, ThreadInv, Placed, CleanedUp, Locked, Loading, Steps
  <2>3. CASE step = "unwind"
    <3>1. step' = "leave"
      BY <1>2, <2>3 DEF Destroy
    <3> QED
      BY <1>1, <2>1, <3>1 DEF Sound, ThreadInv, Placed, CleanedUp, Locked, Loading, Steps
  <2> QED
    BY <2>1, <2>2, <2>3
<1>3. CASE Leave
  <2>1. thread' = "off" /\ registered' = registered /\ step = "leave"
    BY <1>3 DEF Leave
  <2>2. \/ program \in {"hostname1", "locale1", "timedate1"} /\ step' = "forget"
        \/ program \in {"fwupd", "flatpak"} /\ step' = "destroy"
        \/ program \in {"packagekit", "avahi"} /\ step' = "done" /\ ~registered
        \/ program = "connman" /\ step' = "retry" /\ ~registered
    BY <1>1, <1>3, <2>1, Statements DEF Leave, Sound, ThreadInv, CleanedUp, Known
  <2> QED
    BY <1>1, <2>1, <2>2 DEF Sound, ThreadInv, Placed, CleanedUp, Locked, Loading, Steps
<1> QED
  BY <1>2, <1>3

(* The statements of the ConnMan monitor.                                  *)
LEMMA ConnmanSound ==
  ASSUME Sound,
         \/ TestRunning \/ Sleep \/ Lock \/ GetTechnologies \/ GetServices \/ Create
         \/ Created \/ Built \/ MonitorLoop \/ isConnectionAlive
  PROVE  Sound'
<1>1. UNCHANGED <<program, thread, registered>>
  BY DEF TestRunning, Sleep, Lock, GetTechnologies, GetServices, Create, Created, Built,
     MonitorLoop, isConnectionAlive, threadVars
<1>2. program = "connman"
  BY DEF TestRunning, Sleep, Lock, GetTechnologies, GetServices, Create, Created, Built,
     MonitorLoop, isConnectionAlive, Sound, ThreadInv, Placed
<1>3. CASE \E s : Throws(s)
  BY <1>1, <1>3, ThrowSound
<1>4. CASE TestRunning \/ Sleep
  <2>1. /\ step \in {"test", "retry", "sleep"} /\ maps_mutex' = maps_mutex
        /\ step' \in {"connect", "sleep", "done", "test"}
    BY <1>2, <1>4, Statements DEF TestRunning, Sleep, Sound
  <2> QED
    BY <1>1, <1>2, <2>1 DEF Sound, ThreadInv, Placed, CleanedUp, Locked, Loading, Steps
<1>5. CASE Lock
  <2>1. step' = "technologies" /\ maps_mutex' = "main" /\ maps_mutex = "none"
    BY <1>2, <1>5, Statements DEF Lock, Sound
  <2> QED
    BY <1>1, <1>2, <2>1 DEF Sound, ThreadInv, Placed, CleanedUp, Locked, Loading, Steps
<1>6. CASE /\ GetTechnologies \/ GetServices \/ Create \/ Created
           /\ ~ \E s : Throws(s)
  <2>1. step \in Loading /\ maps_mutex' = maps_mutex /\ step' \in Loading
    BY <1>2, <1>6, Statements
    DEF GetTechnologies, GetServices, Create, Created, Sound, Loading
  <2> QED
    BY <1>1, <1>2, <2>1 DEF Sound, ThreadInv, Placed, CleanedUp, Locked, Loading, Steps
<1>7. CASE Built
  <2>1. step' = "monitor" /\ maps_mutex' = "none" /\ maps_mutex = "main"
    BY <1>2, <1>7, Statements DEF Built, Sound, ThreadInv, Locked, Loading
  <2> QED
    BY <1>1, <1>2, <2>1 DEF Sound, ThreadInv, Placed, CleanedUp, Locked, Loading, Steps
<1>8. CASE MonitorLoop \/ isConnectionAlive
  <2>1. step' = "destroy" /\ maps_mutex' = maps_mutex
    BY <1>8 DEF MonitorLoop, isConnectionAlive
  <2> QED
    BY <1>1, <1>2, <2>1 DEF Sound, ThreadInv, Placed, CleanedUp, Locked, Loading, Steps
<1> QED
  BY <1>3, <1>4, <1>5, <1>6, <1>7, <1>8

(* The event thread, and what happens outside.                             *)
LEMMA EventThreadSound ==
  ASSUME Sound, EventThread \/ Answer \/ Outside \/ UNCHANGED vars
  PROVE  Sound'
<1>1. UNCHANGED <<program, step, registered>>
  BY DEF EventThread, Takes, HandlerLocks, HandlerReturns, Answer, Outside, signalHandler,
     ServiceChanges, BusLost, TechnologyChanges, ServicesChange, vars, mainVars
<1>2. CASE UNCHANGED <<thread, maps_mutex>>
  BY <1>1, <1>2 DEF Sound, ThreadInv, Placed, CleanedUp, Locked, Loading, Steps
<1>3. CASE Takes /\ ~UNCHANGED thread
  <2>1. /\ thread = "idle" /\ registered /\ maps_mutex' = maps_mutex
        /\ thread' = IF program = "connman" THEN "waits" ELSE "handles"
    BY <1>3 DEF Takes, threadVars
  <2> QED
    BY <1>1, <2>1 DEF Sound, ThreadInv, Placed, CleanedUp, Locked, Loading, Steps
<1>4. CASE HandlerLocks
  <2>1. thread = "waits" /\ thread' = "handles" /\ maps_mutex = "none" /\ maps_mutex' = "event"
    BY <1>4 DEF HandlerLocks
  <2> QED
    BY <1>1, <2>1 DEF Sound, ThreadInv, Placed, CleanedUp, Locked, Loading, Steps
<1>5. CASE HandlerReturns
  <2>1. /\ thread = "handles" /\ thread' = "idle"
        /\ maps_mutex' = IF maps_mutex = "event" THEN "none" ELSE maps_mutex
    BY <1>5 DEF HandlerReturns
  <2> QED
    BY <1>1, <2>1 DEF Sound, ThreadInv, Placed, CleanedUp, Locked, Loading, Steps
<1>6. Takes => UNCHANGED maps_mutex
  BY DEF Takes
<1>7. Answer \/ Outside \/ UNCHANGED vars => UNCHANGED <<thread, maps_mutex>>
  BY DEF Answer, Outside, signalHandler, ServiceChanges, BusLost, TechnologyChanges,
     ServicesChange, vars, threadVars
<1> QED
  BY <1>2, <1>3, <1>4, <1>5, <1>6, <1>7 DEF EventThread

LEMMA NextSound == Sound /\ [Next]_vars => Sound'
BY ConnectSound, AskingSound, CleanupSound, ConnmanSound, EventThreadSound DEF Next, Main

(* The threads keep out of each other's way (connman_client.cc: the        *)
(* handlers lock maps_mutex_, which the constructor holds; every main.cc:  *)
(* the order of unregisterProxy() and leaveEventLoop()).                   *)
THEOREM ThreadsStayApart == Spec => []ThreadsApart
<1>1. Sound => ThreadsApart
  BY ThreadInvSuffices DEF Sound
<1> QED
  BY InitSound, NextSound, <1>1, PTL DEF Spec

(* The types of the other variables, part by part.                         *)
Numbers ==
  /\ asked \in Nat /\ got \in Nat /\ calls \in Nat /\ promises \in Int
  /\ failures \in Nat /\ late \in Nat /\ delay \in InitialDelay..MaxDelay
  /\ events \in 0..MaxEvents

Sets ==
  /\ todo \subseteq Objects /\ mirror \subseteq Objects
  /\ present \subseteq Objects /\ missed \subseteq Objects

Mail == message \in Messages \cup {NoMessage} /\ queue \in Seq(Messages)

Flags == g_running \in BOOLEAN /\ bus \in BOOLEAN

LEMMA InitTyped == Init => Numbers /\ Sets /\ Mail /\ Flags
<1> SUFFICES ASSUME Init
             PROVE  Numbers /\ Sets /\ Mail /\ Flags
  OBVIOUS
<1>1. Numbers
  BY AsyncAssumption DEF Init, Numbers
<1>2. Sets
  BY DEF Init, Sets
<1>3. Mail
  BY DEF Init, Mail
<1>4. Flags
  BY DEF Init, Flags
<1> QED
  BY <1>1, <1>2, <1>3, <1>4

LEMMA NextNumbers == Numbers /\ [Next]_vars => Numbers'
<1> SUFFICES ASSUME Numbers, [Next]_vars
             PROVE  Numbers'
  OBVIOUS
<1> USE AsyncAssumption DEF Numbers
<1>1. CASE Connect
  BY <1>1 DEF Connect
<1>2. CASE Register \/ Call
  BY <1>2 DEF Register, Call, world
<1>3. CASE Ask
  BY <1>3 DEF Ask
<1>4. CASE Await
  BY <1>4 DEF Await, world
<1>5. CASE Use \/ Forget \/ Destroy \/ Leave
  BY <1>5 DEF Use, Forget, Destroy, Leave, world
<1>6. CASE TestRunning \/ Lock \/ GetTechnologies \/ GetServices \/ Create \/ Created
  BY <1>6 DEF TestRunning, Lock, GetTechnologies, GetServices, Create, Created, world
<1>7. CASE Sleep
  BY <1>7 DEF Sleep, Doubled, world
<1>8. CASE Built \/ MonitorLoop \/ isConnectionAlive
  BY <1>8 DEF Built, MonitorLoop, isConnectionAlive, world
<1>9. CASE EventThread
  BY SMTT(30), <1>9 DEF EventThread, Takes, HandlerLocks, HandlerReturns, mainVars, world
<1>10. CASE Answer
  BY <1>10 DEF Answer, mainVars
<1>11. CASE Outside
  <2>1. UNCHANGED <<asked, got, calls, promises, failures, late, delay>>
    BY <1>11 DEF Outside, signalHandler, ServiceChanges, BusLost, TechnologyChanges,
       ServicesChange, mainVars, world
  <2>2. events' = events \/ (events < MaxEvents /\ events' = events + 1)
    BY <1>11 DEF Outside, signalHandler, ServiceChanges, BusLost, TechnologyChanges,
       ServicesChange, Event, world
  <2> QED
    BY <2>1, <2>2
<1>12. CASE UNCHANGED vars
  BY <1>12 DEF vars, mainVars, world
<1> QED
  BY <1>1, <1>2, <1>3, <1>4, <1>5, <1>6, <1>7, <1>8, <1>9, <1>10, <1>11, <1>12
  DEF Next, Main

LEMMA NextSets == Sets /\ Mail /\ [Next]_vars => Sets'
<1> SUFFICES ASSUME Sets, Mail, [Next]_vars
             PROVE  Sets'
  OBVIOUS
<1> USE DEF Sets
<1>1. CASE Connect \/ Register \/ Call \/ Ask \/ Await \/ Use \/ Forget \/ Leave
  BY <1>1 DEF Connect, Register, Call, Ask, Await, Use, Forget, Leave, world
<1>2. CASE Destroy
  BY <1>2 DEF Destroy, world
<1>3. CASE TestRunning \/ Lock \/ Created \/ Sleep \/ Built \/ MonitorLoop \/ isConnectionAlive
  BY <1>3 DEF TestRunning, Lock, Created, Sleep, Built, MonitorLoop, isConnectionAlive, world
<1>4. CASE GetTechnologies \/ GetServices
  BY <1>4 DEF GetTechnologies, GetServices, world
<1>5. CASE Create
  BY <1>5 DEF Create, world
<1>6. CASE Takes \/ HandlerLocks
  BY <1>6 DEF Takes, HandlerLocks, mainVars, world
<1>7. CASE HandlerReturns
  <2>1. message.add \subseteq Objects /\ message.del \subseteq Objects
    BY DEF Mail, Messages, NoMessage
  <2>2. UNCHANGED <<todo, present>>
    BY <1>7 DEF HandlerReturns, mainVars, world
  <2>3. mirror' \subseteq Objects /\ missed' \subseteq Objects
    BY <1>7, <2>1 DEF HandlerReturns, onTechnologyAdded, onTechnologyRemoved,
       onServicesChanged
  <2> QED
    BY <2>2, <2>3
<1>8. CASE Answer \/ Outside
  BY <1>8 DEF Answer, Outside, signalHandler, ServiceChanges, BusLost, TechnologyChanges,
     ServicesChange, mainVars, world, Objects
<1>9. CASE UNCHANGED vars
  BY <1>9 DEF vars, mainVars, world
<1> QED
  BY <1>1, <1>2, <1>3, <1>4, <1>5, <1>6, <1>7, <1>8, <1>9 DEF Next, Main, EventThread

LEMMA NextMail == Sets /\ Mail /\ [Next]_vars => Mail'
<1> SUFFICES ASSUME Sets, Mail, [Next]_vars
             PROVE  Mail'
  OBVIOUS
<1> USE DEF Mail
<1>1. CASE Connect
  <2>1. message' = message /\ queue' \in {queue, <<>>}
    BY <1>1 DEF Connect
  <2>2. <<>> \in Seq(Messages)
    OBVIOUS
  <2> QED
    BY <2>1, <2>2
<1>2. CASE UNCHANGED <<message, queue>>
  BY <1>2
<1>3. CASE Takes
  <2>1. queue # <<>> /\ queue' = Tail(queue) /\ message' \in {message, Head(queue)}
    BY <1>3 DEF Takes, threadVars
  <2> QED
    BY <2>1
<1>4. CASE HandlerReturns
  BY <1>4 DEF HandlerReturns, world
<1>5. CASE Answer
  <2>1. [type |-> "reply", add |-> {}, del |-> {}] \in Messages
    BY DEF Messages
  <2>2. queue' \in Seq(Messages)
    BY <1>5, <2>1 DEF Answer
  <2> QED
    BY <1>5, <2>2 DEF Answer, threadVars
<1>6. ASSUME NEW add \in SUBSET Objects, NEW del \in SUBSET Objects, Emit(add, del)
      PROVE  queue' \in Seq(Messages)
  <2>1. [type |-> "signal", add |-> add, del |-> del] \in Messages
    BY DEF Messages
  <2> QED
    BY <1>6, <2>1 DEF Emit
<1>7. CASE ServiceChanges
  BY <1>6, <1>7 DEF ServiceChanges, threadVars
<1>8. ASSUME NEW t \in Technologies, TechnologyChanges(t)
      PROVE  Mail'
  <2>1. Emit({t}, {}) \/ Emit({}, {t})
    BY <1>8 DEF TechnologyChanges
  <2>2. {t} \in SUBSET Objects /\ {} \in SUBSET Objects
    BY DEF Objects
  <2>3. queue' \in Seq(Messages)
    BY <1>6, <2>1, <2>2
  <2> QED
    BY <1>8, <2>3 DEF TechnologyChanges, threadVars
<1>9. ASSUME NEW now \in SUBSET Services, ServicesChange(now)
      PROVE  Mail'
  <2>1. Emit(now, (present \cap Services) \ now)
    BY <1>9 DEF ServicesChange
  <2>2. now \in SUBSET Objects /\ (present \cap Services) \ now \in SUBSET Objects
    BY DEF Objects
  <2>3. queue' \in Seq(Messages)
    BY <1>6, <2>1, <2>2
  <2> QED
    BY <1>9, <2>3 DEF ServicesChange, threadVars
<1>10. signalHandler \/ BusLost \/ HandlerLocks => UNCHANGED <<message, queue>>
  BY DEF signalHandler, BusLost, HandlerLocks, threadVars, world
<1>11. \/ Register \/ Call \/ Ask \/ Await \/ Use \/ Forget \/ Destroy \/ Leave
       \/ TestRunning \/ Sleep \/ Lock \/ GetTechnologies \/ GetServices \/ Create \/ Created
       \/ Built \/ MonitorLoop \/ isConnectionAlive \/ UNCHANGED vars
       => UNCHANGED <<message, queue>>
  BY DEF Register, Call, Ask, Await, Use, Forget, Destroy, Leave, TestRunning, Sleep, Lock,
     GetTechnologies, GetServices, Create, Created, Built, MonitorLoop, isConnectionAlive,
     vars, threadVars, world
<1> QED
  BY <1>1, <1>2, <1>3, <1>4, <1>5, <1>7, <1>8, <1>9, <1>10, <1>11
  DEF Next, Main, EventThread, Outside

LEMMA NextFlags == Flags /\ [Next]_vars => Flags'
<1> SUFFICES ASSUME Flags, [Next]_vars
             PROVE  Flags'
  OBVIOUS
<1> USE DEF Flags
<1>1. CASE Connect
  BY <1>1 DEF Connect
<1>2. CASE Main /\ ~Connect
  BY <1>2 DEF Main, Register, Call, Ask, Await, Use, Forget, Destroy, Leave, TestRunning,
     Sleep, Lock, GetTechnologies, GetServices, Create, Created, Built, MonitorLoop, world
<1>3. CASE isConnectionAlive \/ EventThread \/ Answer
  BY <1>3 DEF isConnectionAlive, EventThread, Takes, HandlerLocks, HandlerReturns, Answer,
     world
<1>4. CASE Outside
  BY <1>4 DEF Outside, signalHandler, ServiceChanges, BusLost, TechnologyChanges,
     ServicesChange, world
<1>5. CASE UNCHANGED vars
  BY <1>5 DEF vars, world
<1> QED
  BY <1>1, <1>2, <1>3, <1>4, <1>5 DEF Next

(* Type correctness of every program of the module: the statements are     *)
(* those of its script, the delay of the reconnection stays within         *)
(* kInitialReconnectDelay and kMaxReconnectDelay (connman/main.cc).        *)
THEOREM AsyncTypeCorrect == Spec => []TypeOK
<1> DEFINE All == Sound /\ Numbers /\ Sets /\ Mail /\ Flags /\ program \in Programs
<1>1. Init => All
  <2>1. Init => program \in Programs
    BY DEF Init
  <2> QED
    BY <2>1, InitSound, InitTyped
<1>2. All /\ [Next]_vars => All'
  <2>1. [Next]_vars => program' = program
    BY DEF Next, Main, Connect, Register, Call, Ask, Await, Use, Forget, Destroy, Leave,
       TestRunning, Sleep, Lock, GetTechnologies, GetServices, Create, Created, Built,
       MonitorLoop, isConnectionAlive, EventThread, Takes, HandlerLocks, HandlerReturns,
       Answer, Outside, signalHandler, ServiceChanges, BusLost, TechnologyChanges,
       ServicesChange, vars
  <2> QED
    BY <2>1, NextSound, NextNumbers, NextSets, NextMail, NextFlags
<1>3. All => TypeOK
  BY DEF Sound, Numbers, Sets, Mail, Flags, TypeOK
<1> QED
  BY <1>1, <1>2, <1>3, PTL DEF Spec

-----------------------------------------------------------------------------
(* Promises and replies.                                                   *)

(* The replies in a queue.                                                 *)
RepliesIn(q) == {i \in 1..Len(q) : q[i].type = "reply"}

(* They are finitely many.                                                 *)
LEMMA RepliesFinite ==
  ASSUME NEW q \in Seq(Messages)
  PROVE  IsFiniteSet(RepliesIn(q)) /\ Cardinality(RepliesIn(q)) \in Nat
<1>1. IsFiniteSet(1..Len(q))
  BY FS_Interval
<1>2. RepliesIn(q) \in SUBSET (1..Len(q))
  BY DEF RepliesIn
<1> QED
  BY <1>1, <1>2, FS_Subset, FS_CardinalityType

(* A reply that arrives is one more; a signal changes nothing.             *)
LEMMA AppendReplies ==
  ASSUME NEW q \in Seq(Messages), NEW m \in Messages
  PROVE  Cardinality(RepliesIn(Append(q, m))) =
           IF m.type = "reply" THEN Cardinality(RepliesIn(q)) + 1
                               ELSE Cardinality(RepliesIn(q))
<1>1. /\ Len(Append(q, m)) = Len(q) + 1 /\ Append(q, m)[Len(q) + 1] = m
      /\ \A i \in 1..Len(q) : Append(q, m)[i] = q[i]
  OBVIOUS
<1>2. Len(q) \in Nat
  OBVIOUS
<1>3. CASE m.type = "reply"
  <2>1. RepliesIn(Append(q, m)) = RepliesIn(q) \cup {Len(q) + 1}
    BY <1>1, <1>2, <1>3 DEF RepliesIn
  <2>2. Len(q) + 1 \notin RepliesIn(q)
    BY <1>2 DEF RepliesIn
  <2> QED
    BY <1>3, <2>1, <2>2, RepliesFinite, FS_AddElement
<1>4. CASE m.type # "reply"
  <2>1. RepliesIn(Append(q, m)) = RepliesIn(q)
    BY <1>1, <1>2, <1>4 DEF RepliesIn
  <2> QED
    BY <1>4, <2>1
<1> QED
  BY <1>3, <1>4

(* A reply that is taken is one less.                                      *)
LEMMA TailReplies ==
  ASSUME NEW q \in Seq(Messages), q # <<>>
  PROVE  Cardinality(RepliesIn(q)) =
           IF Head(q).type = "reply" THEN Cardinality(RepliesIn(Tail(q))) + 1
                                     ELSE Cardinality(RepliesIn(Tail(q)))
<1> DEFINE Rest == RepliesIn(q) \ {1}
           Back == [i \in RepliesIn(Tail(q)) |-> i + 1]
<1>1. /\ Len(q) \in Nat \ {0} /\ Len(Tail(q)) = Len(q) - 1 /\ Head(q) = q[1]
      /\ Tail(q) \in Seq(Messages)
      /\ \A i \in 1..Len(Tail(q)) : Tail(q)[i] = q[i + 1]
  OBVIOUS
<1>2. Back \in Bijection(RepliesIn(Tail(q)), Rest)
  <2>1. \A i \in RepliesIn(Tail(q)) : i \in Nat /\ i + 1 \in Rest
    BY <1>1 DEF RepliesIn
  <2>2. \A j \in Rest : j - 1 \in RepliesIn(Tail(q)) /\ (j - 1) + 1 = j
    BY <1>1 DEF RepliesIn
  <2>3. \A i, j \in RepliesIn(Tail(q)) : i + 1 = j + 1 => i = j
    BY <2>1
  <2>4. Back \in [RepliesIn(Tail(q)) -> Rest]
    BY <2>1
  <2>5. \A i, j \in RepliesIn(Tail(q)) : Back[i] = Back[j] => i = j
    BY <2>3
  <2>6. \A j \in Rest : \E i \in RepliesIn(Tail(q)) : Back[i] = j
    BY <2>2
  <2> HIDE DEF Back, Rest
  <2> QED
    BY <2>4, <2>5, <2>6 DEF Bijection, Injection, Surjection, IsInjective
<1>3. Cardinality(Rest) = Cardinality(RepliesIn(Tail(q)))
  <2>1. ExistsBijection(RepliesIn(Tail(q)), Rest)
    BY <1>2 DEF ExistsBijection
  <2> QED
    BY <1>1, <2>1, RepliesFinite, FS_Bijection
<1>4. Cardinality(Rest) =
        IF 1 \in RepliesIn(q) THEN Cardinality(RepliesIn(q)) - 1 ELSE Cardinality(RepliesIn(q))
  BY RepliesFinite, FS_RemoveElement
<1>5. 1 \in RepliesIn(q) <=> Head(q).type = "reply"
  BY <1>1 DEF RepliesIn
<1>6. Cardinality(RepliesIn(q)) \in Nat
  BY RepliesFinite
<1> HIDE DEF Rest
<1> QED
  BY <1>3, <1>4, <1>5, <1>6

(* Every promise that is not set has a call on its way or a reply queued.  *)
(* Main makes promises only while it asks, and goes on from "await" only   *)
(* when all are set: no statement that ends promises finds one unset.      *)
Owed ==
  /\ promises = calls + Cardinality(Replies)
  /\ step \notin {"ask", "await", "terminated"} => promises = 0
  /\ step = "register" \/ (step = "call" /\ program = "hostname1") => asked = 0 /\ got = 0
  /\ step = "ask" => got = 0 /\ asked < Calls /\ promises <= asked
  /\ step = "await" => asked = Calls /\ got < Calls

(* What the module has established of the types so far.                    *)
Typed == Sound /\ Numbers /\ Sets /\ Mail /\ Flags

LEMMA RepliesCount ==
  ASSUME Mail
  PROVE  Cardinality(Replies) = Cardinality(RepliesIn(queue)) /\ Cardinality(Replies) \in Nat
<1>1. Replies = RepliesIn(queue) /\ queue \in Seq(Messages)
  BY DEF Replies, RepliesIn, Mail
<1> QED
  BY <1>1, RepliesFinite

(* Statements that neither ask nor wait change nothing that is owed.       *)
LEMMA OwedElsewhere ==
  ASSUME Owed, UNCHANGED <<program, promises, calls, queue>>, promises = 0,
         step' \notin {"register", "call", "ask", "await"}
  PROVE  Owed'
<1>1. Cardinality(Replies)' = Cardinality(Replies)
  BY DEF Replies
<1> QED
  BY <1>1 DEF Owed

(* The statements before the first call.                                   *)
LEMMA OwedBefore ==
  ASSUME Typed, Owed, Connect \/ Register \/ Call
  PROVE  Owed'
<1>1. program \in Known /\ program' = program /\ promises = 0 /\ promises' = 0
  BY DEF Typed, Sound, Owed, Connect, Register, Call
<1>2. Calls \in Nat \ {0}
  BY DEF Calls
<1>3. CASE Connect /\ step' = After("connect")
  <2>1. step' = "register" /\ asked' = 0 /\ got' = 0
    BY <1>1, <1>3, Statements DEF Known, Connect
  <2>2. CASE calls' = 0 /\ queue' = <<>>
    <3>1. Replies' = {}
      BY <2>2 DEF Replies
    <3>2. Cardinality(Replies)' = 0
      BY <3>1, FS_EmptySet
    <3> QED
      BY <1>1, <2>1, <2>2, <3>2 DEF Owed
  <2>3. CASE UNCHANGED <<calls, queue>>
    <3>1. Cardinality(Replies)' = Cardinality(Replies)
      BY <2>3 DEF Replies
    <3> QED
      BY <1>1, <2>1, <2>3, <3>1 DEF Owed
  <2> QED
    BY <1>3, <2>2, <2>3 DEF Connect
<1>4. CASE Connect /\ step' # After("connect")
  <2>1. Throws("connect") /\ UNCHANGED <<calls, queue>>
    BY <1>4 DEF Connect
  <2>2. step' \in {"terminated", "unwind"}
    BY <1>1, <2>1, ThrowsLeads
  <2> QED
    BY <1>1, <2>1, <2>2, OwedElsewhere
<1>5. CASE Register \/ Call
  <2>1. UNCHANGED <<calls, queue, asked, got>>
    BY <1>5 DEF Register, Call, world
  <2>2. Cardinality(Replies)' = Cardinality(Replies)
    BY <2>1 DEF Replies
  <2>3. CASE step' \notin {"register", "call", "ask", "await"}
    BY <1>1, <2>1, <2>3, OwedElsewhere
  <2>4. CASE step' \in {"register", "call", "ask", "await"}
    <3>1. CASE Register
      <4>1. step' = After("register")
        BY <1>1, <2>4, <3>1, ThrowsLeads DEF Register
      <4>2. step' \in {"call", "ask"} /\ asked = 0 /\ got = 0
        BY <1>1, <2>4, <3>1, <4>1, Statements DEF Known, Register, Owed
      <4> QED
        BY <1>1, <1>2, <2>1, <2>2, <4>2 DEF Owed, Calls
    <3>2. CASE Call
      <4>1. step' = After("call")
        BY <1>1, <2>4, <3>2, ThrowsLeads DEF Call
      <4>2. program \in {"hostname1", "fwupd", "packagekit", "flatpak", "avahi"}
        BY <3>2 DEF Call, Typed, Sound, ThreadInv, Placed
      <4>3. step' = "ask" /\ asked = 0 /\ got = 0
        BY <1>1, <2>4, <3>2, <4>1, <4>2, Statements DEF Known, Call, Owed
      <4> QED
        BY <1>1, <1>2, <2>1, <2>2, <4>3 DEF Owed, Calls
    <3> QED
      BY <1>5, <3>1, <3>2
  <2> QED
    BY <2>3, <2>4
<1> QED
  BY <1>3, <1>4, <1>5

(* GetAllAsync() and future.get().                                         *)
LEMMA OwedAsking ==
  ASSUME Typed, Owed, Ask \/ Await
  PROVE  Owed'
<1>1. /\ program \in Known /\ program' = program /\ queue' = queue
      /\ asked \in Nat /\ got \in Nat /\ calls \in Nat /\ promises \in Int
  BY DEF Typed, Sound, Numbers, Ask, Await, world
<1>2. program \in {"hostname1", "locale1", "timedate1", "fwupd", "packagekit"}
  BY DEF Typed, Sound, ThreadInv, Placed, Ask, Await
<1>3. Cardinality(Replies)' = Cardinality(Replies) /\ Cardinality(Replies) \in Nat
  BY <1>1, RepliesCount DEF Replies, Typed
<1>4. Calls' = Calls /\ Calls \in Nat \ {0} /\ (program # "timedate1" => Calls = 1)
  BY <1>1 DEF Calls
<1>5. promises = calls + Cardinality(Replies) /\ promises \in Nat
  BY <1>1, <1>3 DEF Owed
<1>6. CASE Ask
  <2>1. step = "ask" /\ got = 0 /\ asked < Calls /\ promises <= asked /\ got' = got
    BY <1>6 DEF Ask, Owed
  <2>2. CASE asked' = asked + 1 /\ calls' = calls + 1 /\ promises' = promises + 1
             /\ step' = IF asked' = Calls THEN After("ask") ELSE "ask"
    <3>1. After("ask") = "await"
      BY <1>1, <1>2, Statements
    <3> QED
      BY <1>1, <1>3, <1>4, <1>5, <2>1, <2>2, <3>1 DEF Owed
  <2>3. CASE Throws("ask") /\ UNCHANGED <<asked, calls, promises>>
    <3>1. step' = "terminated" \/ (step' = "unwind" /\ program = "packagekit")
      BY <1>1, <1>2, <2>3, ThrowsLeads
    <3>2. CASE step' = "terminated"
      BY <1>1, <1>3, <1>5, <2>3, <3>2 DEF Owed
    <3>3. CASE step' = "unwind" /\ program = "packagekit"
      <4>1. promises = 0
        BY <1>1, <1>4, <1>5, <2>1, <3>3
      <4> QED
        BY <1>1, <2>3, <3>3, <4>1, OwedElsewhere
    <3> QED
      BY <3>1, <3>2, <3>3
  <2> QED
    BY <1>6, <2>2, <2>3 DEF Ask
<1>7. CASE Await
  <2>1. /\ step = "await" /\ asked = Calls /\ got < Calls /\ promises < asked - got
        /\ UNCHANGED <<asked, calls, promises>> /\ got' = got + 1
    BY <1>7 DEF Await, Owed, world
  <2>2. CASE step' = "await" /\ got' # Calls
    BY <1>1, <1>3, <1>4, <1>5, <2>1, <2>2 DEF Owed
  <2>3. CASE got' = Calls /\ step' = After("await")
    <3>1. promises = 0
      BY <1>1, <1>4, <1>5, <2>1, <2>3
    <3>2. step' \in {"use", "forget", "call"} /\ (step' = "call" => program = "packagekit")
      BY <1>1, <1>2, <2>3, Statements
    <3> QED
      BY <1>1, <1>3, <1>5, <2>1, <3>1, <3>2 DEF Owed
  <2>4. CASE ~(program = "timedate1" /\ got + 1 < Calls) /\ Throws("await")
    <3>1. got' = Calls /\ promises = 0
      BY <1>1, <1>4, <1>5, <2>1, <2>4
    <3>2. step' \in {"terminated", "unwind"} \/ step' = After("await")
      BY <1>1, <2>4, ThrowsLeads
    <3>3. CASE step' \in {"terminated", "unwind"}
      BY <1>1, <2>1, <3>1, <3>3, OwedElsewhere
    <3> QED
      BY <2>3, <3>1, <3>2, <3>3
  <2>5. CASE program = "timedate1" /\ got + 1 < Calls /\ step' = step
    BY <1>1, <1>3, <1>4, <1>5, <2>1, <2>5 DEF Owed
  <2> QED
    BY <1>7, <2>1, <2>2, <2>3, <2>4, <2>5 DEF Await
<1> QED
  BY <1>6, <1>7

(* The statements after the last reply, and those of ConnMan.              *)
LEMMA OwedAfter ==
  ASSUME Typed, Owed,
         \/ Use \/ Forget \/ Destroy \/ Leave \/ TestRunning \/ Sleep \/ Lock
         \/ GetTechnologies \/ GetServices \/ Create \/ Created \/ Built \/ MonitorLoop
         \/ isConnectionAlive
  PROVE  Owed'
<1>1. program \in Known /\ Placed
  BY DEF Typed, Sound, ThreadInv
<1>2. UNCHANGED <<program, asked, got, calls, queue>>
  BY DEF Use, Forget, Destroy, Leave, TestRunning, Sleep, Lock, GetTechnologies, GetServices,
     Create, Created, Built, MonitorLoop, isConnectionAlive, world
<1>3. step \notin {"ask", "await", "terminated"}
  BY DEF Use, Forget, Destroy, Leave, TestRunning, Sleep, Lock, GetTechnologies, GetServices,
     Create, Created, Built, MonitorLoop, isConnectionAlive
<1>4. promises = 0 /\ promises' = 0
  BY <1>3 DEF Owed, Use, Forget, Destroy, Leave, TestRunning, Sleep, Lock, GetTechnologies,
     GetServices, Create, Created, Built, MonitorLoop, isConnectionAlive
<1>5. step' \notin {"register", "ask", "await"} /\ (step' = "call" => program = "fwupd")
  <2>1. CASE Use \/ Forget \/ Destroy \/ Leave
    <3>1. CASE Use
      BY <1>1, <3>1, Statements DEF Use, Placed, Known
    <3>2. CASE Forget
      BY <1>1, <3>2, Statements DEF Forget, Placed, Known
    <3>3. CASE Destroy
      BY <1>1, <3>3, Statements DEF Destroy, Known
    <3>4. CASE Leave
      BY <1>1, <3>4, Statements DEF Leave, Known
    <3> QED
      BY <2>1, <3>1, <3>2, <3>3, <3>4
  <2>2. CASE \/ TestRunning \/ Sleep \/ Lock \/ Created \/ Built \/ MonitorLoop
             \/ isConnectionAlive
    <3>1. program = "connman"
      BY <1>1, <2>2 DEF TestRunning, Sleep, Lock, Created, Built, MonitorLoop,
         isConnectionAlive, Placed
    <3> QED
      BY <1>1, <2>2, <3>1, Statements DEF TestRunning, Sleep, Lock, Created, Built,
         MonitorLoop, isConnectionAlive
  <2>3. CASE GetTechnologies \/ GetServices \/ Create
    <3>1. program = "connman" /\ step \in Loading
      BY <1>1, <2>3 DEF GetTechnologies, GetServices, Create, Placed, Loading
    <3>2. \/ Throws(step) \/ step' = step
          \/ step' \in {After("technologies"), After("services")}
      BY <2>3 DEF GetTechnologies, GetServices, Create
    <3>3. ASSUME Throws(step) PROVE step' \in {"terminated", "unwind"}
      BY <1>1, <3>1, <3>3, ThrowsLeads DEF Loading
    <3> QED
      BY <1>1, <3>1, <3>2, <3>3, Statements DEF Loading
  <2> QED
    BY <2>1, <2>2, <2>3
<1>6. Cardinality(Replies)' = Cardinality(Replies)
  BY <1>2 DEF Replies
<1> QED
  BY <1>1, <1>2, <1>4, <1>5, <1>6 DEF Owed, Known

(* The event thread, the service and the rest of the world.                *)
LEMMA OwedOutside ==
  ASSUME Typed, Owed, EventThread \/ Answer \/ Outside \/ UNCHANGED vars
  PROVE  Owed'
<1>1. queue \in Seq(Messages) /\ calls \in Nat /\ asked \in Nat /\ promises \in Int
  BY DEF Typed, Mail, Numbers
<1>2. /\ Cardinality(Replies) = Cardinality(RepliesIn(queue))
      /\ Cardinality(Replies) \in Nat
      /\ promises = calls + Cardinality(Replies)
  BY RepliesCount DEF Typed, Owed
<1>3. UNCHANGED <<program, step, asked, got>>
  BY DEF EventThread, Takes, HandlerLocks, HandlerReturns, Answer, Outside, signalHandler,
     ServiceChanges, BusLost, TechnologyChanges, ServicesChange, vars, mainVars
<1>4. Cardinality(Replies)' = Cardinality(RepliesIn(queue'))
  BY DEF Replies, RepliesIn
<1>5. ASSUME UNCHANGED <<promises, calls>>,
             Cardinality(RepliesIn(queue')) = Cardinality(RepliesIn(queue))
      PROVE  Owed'
  BY <1>2, <1>3, <1>4, <1>5 DEF Owed, Calls
<1>6. CASE Takes
  <2>1. /\ queue # <<>> /\ queue' = Tail(queue) /\ calls' = calls /\ step # "terminated"
        /\ promises' = IF Head(queue).type = "reply" THEN promises - 1 ELSE promises
    BY <1>6 DEF Takes
  <2>2. queue' \in Seq(Messages)
    BY <1>1, <2>1
  <2>3. Cardinality(RepliesIn(queue)) =
          IF Head(queue).type = "reply" THEN Cardinality(RepliesIn(queue')) + 1
                                        ELSE Cardinality(RepliesIn(queue'))
    BY <1>1, <2>1, TailReplies
  <2>4. Cardinality(RepliesIn(queue')) \in Nat
    BY <2>2, RepliesFinite
  <2>5. CASE Head(queue).type = "reply"
    <3>1. promises > 0 /\ promises' = promises - 1
      BY <1>1, <1>2, <2>1, <2>3, <2>4, <2>5
    <3>2. promises' = calls' + Cardinality(Replies)'
      BY <1>1, <1>2, <1>4, <2>1, <2>3, <2>4, <2>5
    <3>3. step \in {"ask", "await"}
      BY <2>1, <3>1 DEF Owed
    <3>4. Calls' = Calls
      BY <1>3 DEF Calls
    <3> QED
      BY <1>1, <1>3, <3>1, <3>2, <3>3, <3>4 DEF Owed
  <2>6. CASE Head(queue).type # "reply"
    BY <1>5, <2>1, <2>3, <2>6
  <2> QED
    BY <2>5, <2>6
<1>7. CASE Answer
  <2>1. [type |-> "reply", add |-> {}, del |-> {}] \in Messages
        /\ [type |-> "reply", add |-> {}, del |-> {}].type = "reply"
    BY DEF Messages
  <2>2. /\ calls' = calls - 1 /\ promises' = promises
        /\ queue' = Append(queue, [type |-> "reply", add |-> {}, del |-> {}])
    BY <1>7 DEF Answer
  <2>3. Cardinality(RepliesIn(queue')) = Cardinality(RepliesIn(queue)) + 1
    BY <1>1, <2>1, <2>2, AppendReplies
  <2> QED
    BY <1>1, <1>2, <1>3, <1>4, <2>2, <2>3 DEF Owed, Calls
<1>8. ASSUME NEW add \in SUBSET Objects, NEW del \in SUBSET Objects, Emit(add, del),
             UNCHANGED <<promises, calls>>
      PROVE  Owed'
  <2>1. [type |-> "signal", add |-> add, del |-> del] \in Messages
        /\ [type |-> "signal", add |-> add, del |-> del].type # "reply"
    BY DEF Messages
  <2>2. queue' \in {queue, Append(queue, [type |-> "signal", add |-> add, del |-> del])}
    BY <1>8 DEF Emit
  <2>3. Cardinality(RepliesIn(queue')) = Cardinality(RepliesIn(queue))
    BY <1>1, <2>1, <2>2, AppendReplies
  <2> QED
    BY <1>5, <1>8, <2>3
<1>9. CASE ServiceChanges
  BY <1>8, <1>9 DEF ServiceChanges
<1>10. ASSUME NEW t \in Technologies, TechnologyChanges(t) PROVE Owed'
  <2>1. {t} \in SUBSET Objects /\ {} \in SUBSET Objects
    BY DEF Objects
  <2> QED
    BY <1>8, <1>10, <2>1 DEF TechnologyChanges
<1>11. ASSUME NEW now \in SUBSET Services, ServicesChange(now) PROVE Owed'
  <2>1. now \in SUBSET Objects /\ (present \cap Services) \ now \in SUBSET Objects
    BY DEF Objects
  <2> QED
    BY <1>8, <1>11, <2>1 DEF ServicesChange
<1>12. CASE HandlerLocks \/ HandlerReturns \/ signalHandler \/ BusLost \/ UNCHANGED vars
  <2>1. UNCHANGED <<promises, calls, queue>>
    BY <1>12 DEF HandlerLocks, HandlerReturns, signalHandler, BusLost, vars, world
  <2> QED
    BY <1>5, <2>1
<1> QED
  BY <1>6, <1>7, <1>9, <1>10, <1>11, <1>12 DEF EventThread, Outside

LEMMA InitOwed == Init => Owed
<1> SUFFICES ASSUME Init PROVE Owed
  OBVIOUS
<1>1. step \in {"test", "connect"} /\ promises = 0 /\ calls = 0 /\ Replies = {}
  BY DEF Init, Replies
<1> QED
  BY <1>1, FS_EmptySet DEF Owed

LEMMA NextOwed == Typed /\ Owed /\ [Next]_vars => Owed'
BY OwedBefore, OwedAsking, OwedAfter, OwedOutside DEF Next, Main

(* What is typed stays so.                                                 *)
LEMMA TypedInvariant == (Init => Typed) /\ (Typed /\ [Next]_vars => Typed')
BY InitSound, InitTyped, NextSound, NextNumbers, NextSets, NextMail, NextFlags DEF Typed

(* A reply to GetAllAsync() always finds its promise: no path of any main, *)
(* the error paths included, ends a promise whose reply is still to come   *)
(* (the main.cc of hostname1, locale1, timedate1, fwupd and packagekit).   *)
THEOREM PromisesAlive == Spec => []PromiseAlive
<1>1. Typed /\ Owed => PromiseAlive
  <2> SUFFICES ASSUME Typed, Owed PROVE PromiseAlive
    OBVIOUS
  <2>1. calls \in Nat /\ Cardinality(Replies) \in Nat
    BY RepliesCount DEF Typed, Numbers
  <2> QED
    BY <2>1 DEF Owed, PromiseAlive
<1> QED
  BY <1>1, InitOwed, NextOwed, TypedInvariant, PTL DEF Spec

-----------------------------------------------------------------------------
(* The delays of the reconnection loop.                                    *)

(* 2^n counts the subsets of 1..n.                                         *)
LEMMA PowerCounts ==
  ASSUME NEW n \in Nat
  PROVE  /\ IsFiniteSet(SUBSET (1..n)) /\ Cardinality(SUBSET (1..n)) = 2^n
         /\ 2^n \in Nat
<1>1. IsFiniteSet(1..n) /\ Cardinality(1..n) = n
  BY FS_Interval
<1> QED
  BY <1>1, FS_SUBSET, FS_CardinalityType

(* Doubling is one more in the exponent.                                   *)
LEMMA PowerStep ==
  ASSUME NEW n \in Nat
  PROVE  2^(n + 1) = 2 * 2^n
<1> DEFINE A == SUBSET (1..n)
           B == {a \cup {n + 1} : a \in A}
           f == [a \in A |-> a \cup {n + 1}]
<1>1. \A a \in A : n + 1 \notin a
  OBVIOUS
<1>2. f \in Bijection(A, B)
  <2>1. f \in [A -> B] /\ \A b \in B : \E a \in A : f[a] = b
    OBVIOUS
  <2>2. ASSUME NEW a \in A, NEW b \in A, f[a] = f[b] PROVE a = b
    <3>1. a \cup {n + 1} = b \cup {n + 1} /\ n + 1 \notin a /\ n + 1 \notin b
      BY <1>1, <2>2
    <3> QED
      BY <3>1
  <2> HIDE DEF f, A, B
  <2> QED
    BY <2>1, <2>2 DEF Bijection, Injection, Surjection, IsInjective
<1>3. IsFiniteSet(A) /\ Cardinality(A) = 2^n /\ 2^n \in Nat
  BY PowerCounts
<1>4. IsFiniteSet(B) /\ Cardinality(B) = 2^n
  <2>1. ExistsBijection(A, B)
    BY <1>2 DEF ExistsBijection
  <2> HIDE DEF A, B
  <2> QED
    BY <1>3, <2>1, FS_Bijection
<1>5. A \cap B = {} /\ A \cup B = SUBSET (1..(n + 1))
  <2>1. A \cap B = {}
    BY <1>1
  <2>2. \A c \in SUBSET (1..(n + 1)) : n + 1 \in c => c \in B
    <3> SUFFICES ASSUME NEW c \in SUBSET (1..(n + 1)), n + 1 \in c PROVE c \in B
      OBVIOUS
    <3>1. c \ {n + 1} \in A /\ c = (c \ {n + 1}) \cup {n + 1}
      OBVIOUS
    <3> QED
      BY <3>1
  <2>3. \A c \in SUBSET (1..(n + 1)) : n + 1 \notin c => c \in A
    OBVIOUS
  <2>4. A \subseteq SUBSET (1..(n + 1)) /\ B \subseteq SUBSET (1..(n + 1))
    <3>1. 1..n \subseteq 1..(n + 1) /\ n + 1 \in 1..(n + 1)
      OBVIOUS
    <3> QED
      BY <3>1
  <2> QED
    BY <2>1, <2>2, <2>3, <2>4
<1>6. Cardinality(SUBSET (1..(n + 1))) = 2^(n + 1)
  BY PowerCounts, n + 1 \in Nat
<1>7. Cardinality(A \cup B) = Cardinality(A) + Cardinality(B)
  <2> HIDE DEF A, B
  <2>1. Cardinality(A \cap B) = 0
    BY <1>5, FS_EmptySet
  <2> QED
    BY <1>3, <1>4, <2>1, FS_Union
<1> HIDE DEF A, B
<1>8. 2^(n + 1) = 2^n + 2^n
  BY <1>3, <1>4, <1>5, <1>6, <1>7, Zenon
<1> QED
  BY <1>3, <1>8

LEMMA ScaledPower ==
  ASSUME NEW i \in Nat, NEW n \in Nat
  PROVE  i * 2^(n + 1) = 2 * (i * 2^n) /\ i * 2^n \in Nat
<1>1. PICK p \in Nat : 2^n = p /\ 2^(n + 1) = 2 * p
  BY PowerCounts, PowerStep
<1>2. i * (2 * p) = 2 * (i * p) /\ i * p \in Nat
  OBVIOUS
<1> QED
  BY <1>1, <1>2

(* The delay as a function of the number of attempts.                      *)
BackedOff ==
  delay = LET d == InitialDelay * 2^failures IN IF d < MaxDelay THEN d ELSE MaxDelay

LEMMA InitBackedOff == Init => BackedOff
<1> SUFFICES ASSUME Init PROVE BackedOff
  OBVIOUS
<1>1. InitialDelay * 2^0 = InitialDelay
  BY AsyncAssumption DEF AsyncAssumption
<1> QED
  BY <1>1, AsyncAssumption DEF Init, BackedOff, AsyncAssumption

LEMMA NextBackedOff == Numbers /\ BackedOff /\ [Next]_vars => BackedOff'
<1> SUFFICES ASSUME Numbers, BackedOff, [Next]_vars PROVE BackedOff'
  OBVIOUS
<1> USE AsyncAssumption DEF AsyncAssumption
<1>1. CASE Sleep
  <2>1. failures \in Nat /\ delay \in Nat /\ InitialDelay \in Nat /\ MaxDelay \in Nat \ {0}
    BY DEF Numbers
  <2>2. PICK d \in Nat : /\ d = InitialDelay * 2^failures
                         /\ 2 * d = InitialDelay * 2^(failures + 1)
    BY <2>1, ScaledPower
  <2>3. delay = IF d < MaxDelay THEN d ELSE MaxDelay
    BY <2>2 DEF BackedOff
  <2>4. /\ delay' = IF 2 * delay < MaxDelay THEN 2 * delay ELSE MaxDelay
        /\ failures' = IF delay < MaxDelay THEN failures + 1 ELSE failures
    BY <1>1 DEF Sleep, Doubled
  <2>5. CASE d < MaxDelay
    <3>1. failures' = failures + 1 /\ delay' = IF 2 * d < MaxDelay THEN 2 * d ELSE MaxDelay
      BY <2>3, <2>4, <2>5
    <3> QED
      BY <2>2, <3>1 DEF BackedOff
  <2>6. CASE ~(d < MaxDelay)
    <3>1. failures' = failures /\ delay' = MaxDelay
      BY <2>1, <2>3, <2>4, <2>6
    <3> QED
      BY <2>2, <2>6, <3>1 DEF BackedOff
  <2> QED
    BY <2>5, <2>6
<1>2. CASE Built
  <2>1. InitialDelay * 2^0 = InitialDelay
    OBVIOUS
  <2>2. delay' = InitialDelay /\ failures' = 0
    BY <1>2 DEF Built
  <2> QED
    BY <2>1, <2>2 DEF BackedOff
<1>3. CASE UNCHANGED <<delay, failures>>
  BY <1>3 DEF BackedOff
<1> QED
  BY <1>1, <1>2, <1>3 DEF Next, Main, Connect, Register, Call, Ask, Await, Use, Forget,
     Destroy, Leave, TestRunning, Lock, GetTechnologies, GetServices, Create, Created,
     MonitorLoop, isConnectionAlive, EventThread, Takes, HandlerLocks, HandlerReturns,
     Answer, Outside, signalHandler, ServiceChanges, BusLost, TechnologyChanges,
     ServicesChange, vars, world, mainVars, threadVars

(* A connection made after the signal is the last one: only the test of    *)
(* g_running leads to another.                                             *)
OnceMore ==
  /\ g_running => late = 0
  /\ late <= 1
  /\ late = 1 => step # "connect"

LEMMA NextOnceMore == Typed /\ OnceMore /\ [Next]_vars => OnceMore'
<1> SUFFICES ASSUME Typed, OnceMore, [Next]_vars PROVE OnceMore'
  OBVIOUS
<1>1. program \in Known /\ Placed /\ late \in Nat /\ g_running \in BOOLEAN
  BY DEF Typed, Sound, ThreadInv, Numbers, Flags
<1>2. CASE Connect
  <2>1. /\ step = "connect" /\ g_running' = g_running
        /\ late' = IF g_running THEN late ELSE late + 1
    BY <1>2 DEF Connect
  <2>2. late = 0
    BY <1>1, <2>1 DEF OnceMore
  <2>3. step' # "connect"
    <3>1. CASE step' = After("connect")
      BY <1>1, <3>1, Statements DEF Known
    <3>2. CASE Throws("connect")
      BY <1>1, <3>2, ThrowsLeads
    <3> QED
      BY <1>2, <3>1, <3>2 DEF Connect
  <2> QED
    BY <2>1, <2>2, <2>3 DEF OnceMore
<1>3. CASE ~Connect
  <2>1. late' = late /\ (g_running' = g_running \/ ~g_running')
    BY <1>3 DEF Next, Main, Register, Call, Ask, Await, Use, Forget, Destroy, Leave,
       TestRunning, Sleep, Lock, GetTechnologies, GetServices, Create, Created, Built,
       MonitorLoop, isConnectionAlive, EventThread, Takes, HandlerLocks, HandlerReturns,
       Answer, Outside, signalHandler, ServiceChanges, BusLost, TechnologyChanges,
       ServicesChange, vars
  <2>2. step' = "connect" => step = "connect" \/ g_running
    <3>1. CASE TestRunning
      BY <3>1 DEF TestRunning
    <3>2. ASSUME NEW s \in Steps, Throws(s), s # "connect" PROVE step' # "connect"
      <4>1. /\ program \in {"flatpak", "fwupd"} => After("call") # "connect"
            /\ program \in {"fwupd", "timedate1"} => After("await") # "connect"
        BY Statements DEF Known
      <4> QED
        BY <1>1, <3>2, <4>1, ThrowsLeads
    <3>3. CASE Register \/ Call \/ Ask \/ Await
      <4>1. \/ step' \in {"leave", "ask", "await"} \/ step' = After(step)
            \/ step \in Steps /\ Throws(step)
        BY <3>3 DEF Register, Call, Ask, Await, Steps
      <4>2. step' = After(step) => step' # "connect"
        <5>1. CASE step \in {"register", "call"}
          BY <1>1, <5>1, Statements DEF Placed, Known
        <5>2. CASE step \in {"ask", "await"}
          BY <1>1, <5>2, Statements DEF Placed
        <5> QED
          BY <3>3, <5>1, <5>2 DEF Register, Call, Ask, Await
      <4> QED
        BY <3>2, <3>3, <4>1, <4>2 DEF Register, Call, Ask, Await
    <3>4. CASE Use \/ Forget \/ Destroy \/ Leave
      <4>1. CASE Use
        BY <1>1, <4>1, Statements DEF Use, Placed, Known
      <4>2. CASE Forget
        BY <1>1, <4>2, Statements DEF Forget, Placed, Known
      <4>3. CASE Destroy
        BY <1>1, <4>3, Statements DEF Destroy, Known
      <4>4. CASE Leave
        BY <1>1, <4>4, Statements DEF Leave, Known
      <4> QED
        BY <3>4, <4>1, <4>2, <4>3, <4>4
    <3>5. CASE Sleep \/ Lock \/ Created \/ Built \/ MonitorLoop \/ isConnectionAlive
      <4>1. program = "connman"
        BY <1>1, <3>5 DEF Sleep, Lock, Created, Built, MonitorLoop, isConnectionAlive, Placed
      <4> QED
        BY <1>1, <3>5, <4>1, Statements DEF Sleep, Lock, Created, Built, MonitorLoop,
           isConnectionAlive
    <3>6. CASE GetTechnologies \/ GetServices \/ Create
      <4>1. program = "connman" /\ step \in Loading
        BY <1>1, <3>6 DEF GetTechnologies, GetServices, Create, Placed, Loading
      <4>2. \/ Throws(step) \/ step' = step
            \/ step' \in {After("technologies"), After("services")}
        BY <3>6 DEF GetTechnologies, GetServices, Create
      <4> QED
        BY <1>1, <3>2, <4>1, <4>2, Statements DEF Loading, Steps
    <3>7. CASE EventThread \/ Answer \/ Outside \/ UNCHANGED vars
      BY <3>7 DEF EventThread, Takes, HandlerLocks, HandlerReturns, Answer, Outside,
         signalHandler, ServiceChanges, BusLost, TechnologyChanges, ServicesChange, vars,
         mainVars
    <3> QED
      BY <1>3, <3>1, <3>3, <3>4, <3>5, <3>6, <3>7 DEF Next, Main
  <2> QED
    BY <1>1, <2>1, <2>2 DEF OnceMore
<1> QED
  BY <1>2, <1>3

(* The delay before an attempt is kInitialReconnectDelay doubled for each  *)
(* attempt since a client was last built, up to kMaxReconnectDelay, and    *)
(* after a signal main connects at most once more (connman/main.cc).       *)
THEOREM RetriesBackOff == Spec => []Retries
<1>1. Init => BackedOff /\ OnceMore
  <2>1. Init => OnceMore
    BY DEF Init, OnceMore
  <2> QED
    BY <2>1, InitBackedOff
<1>2. Typed /\ BackedOff /\ OnceMore /\ [Next]_vars => (BackedOff /\ OnceMore)'
  BY NextBackedOff, NextOnceMore DEF Typed
<1>3. BackedOff /\ OnceMore => Retries
  BY DEF BackedOff, OnceMore, Retries
<1> QED
  BY <1>1, <1>2, <1>3, TypedInvariant, PTL DEF Spec

-----------------------------------------------------------------------------
(* The maps of the ConnMan client.                                         *)

(* What ConnMan's signals say of an object.                                *)
Mentions(m, o) == o \in m.add \/ o \in m.del

MentionedAfter(q, i, o) == \E j \in 1..Len(q) : j > i /\ Mentions(q[j], o)

(* A signal is about technologies that came or went, or about services.    *)
Shaped(m) ==
  /\ m.type = "signal" /\ m.add \cap m.del = {}
  /\ \/ m.add \cup m.del \subseteq Services
     \/ m.add \cup m.del \subseteq Technologies /\ (m.add = {} \/ m.del = {})

AtWork == thread \in {"waits", "handles"}

(* A signal about o is still to be handled.                                *)
Open(o) == MentionedAfter(queue, 0, o) \/ (AtWork /\ Mentions(message, o))

(* The last signal about an object tells whether ConnMan has it.           *)
LastWord ==
  \A o \in Objects :
    /\ \A i \in 1..Len(queue) :
         Mentions(queue[i], o) /\ ~MentionedAfter(queue, i, o) =>
           (o \in queue[i].add <=> o \in present)
    /\ AtWork /\ Mentions(message, o) /\ ~MentionedAfter(queue, 0, o) =>
         (o \in message.add <=> o \in present)

Building == {"lock", "monitor"} \cup Loading

(* The constructor has still to ask for o.                                 *)
ToAsk(o) ==
  \/ step \in {"lock", "technologies"}
  \/ step \in {"create_technologies", "services"} /\ o \in Services

(* An object no signal to come is about is in the maps as it is in ConnMan.*)
Settled ==
  \A o \in Objects : ~Open(o) =>
    /\ o \in mirror => o \in present \cup missed
    /\ o \in todo => o \in present
    /\ o \in present => o \in mirror \cup missed \cup todo \/ ToAsk(o)

(* Only signals are queued; a connection starts with empty maps.           *)
CleanStart ==
  /\ calls = 0
  /\ \A i \in 1..Len(queue) : Shaped(queue[i])
  /\ AtWork => Shaped(message)
  /\ step \in {"test", "connect", "register", "leave", "retry", "sleep"} =>
       mirror = {} /\ todo = {}
  /\ step \in {"lock", "technologies", "services", "monitor"} => todo = {}
  /\ step = "register" => queue = <<>> /\ ~AtWork
  /\ step \in Building => registered

Mirrored == CleanStart /\ (step \in Building /\ bus => LastWord /\ Settled)

MirrorInv == program = "connman" => Mirrored

(* What a signal that arrives or is taken does to "mentioned after".       *)
LEMMA AppendMentioned ==
  ASSUME NEW q \in Seq(Messages), NEW m \in Messages, NEW i \in 0..Len(q), NEW o
  PROVE  MentionedAfter(Append(q, m), i, o) <=> MentionedAfter(q, i, o) \/ Mentions(m, o)
<1>1. /\ Len(Append(q, m)) = Len(q) + 1 /\ Append(q, m)[Len(q) + 1] = m
      /\ \A j \in 1..Len(q) : Append(q, m)[j] = q[j]
      /\ Len(q) \in Nat
  OBVIOUS
<1>2. ASSUME MentionedAfter(q, i, o) PROVE MentionedAfter(Append(q, m), i, o)
  <2>1. PICK j \in 1..Len(q) : j > i /\ Mentions(q[j], o)
    BY <1>2 DEF MentionedAfter
  <2>2. j \in 1..Len(Append(q, m)) /\ Append(q, m)[j] = q[j]
    BY <1>1
  <2> QED
    BY <2>1, <2>2 DEF MentionedAfter
<1>3. ASSUME Mentions(m, o) PROVE MentionedAfter(Append(q, m), i, o)
  <2>1. Len(q) + 1 \in 1..Len(Append(q, m)) /\ Len(q) + 1 > i
    BY <1>1
  <2> QED
    BY <1>1, <1>3, <2>1 DEF MentionedAfter
<1>4. ASSUME MentionedAfter(Append(q, m), i, o), ~Mentions(m, o) PROVE MentionedAfter(q, i, o)
  <2>1. PICK j \in 1..Len(Append(q, m)) : j > i /\ Mentions(Append(q, m)[j], o)
    BY <1>4 DEF MentionedAfter
  <2>2. j # Len(q) + 1
    BY <1>1, <1>4, <2>1
  <2>3. j \in 1..Len(q) /\ Append(q, m)[j] = q[j]
    BY <1>1, <2>2
  <2> QED
    BY <2>1, <2>3 DEF MentionedAfter
<1> QED
  BY <1>2, <1>3, <1>4

LEMMA TailMentioned ==
  ASSUME NEW q \in Seq(Messages), q # <<>>, NEW i \in Nat, NEW o
  PROVE  MentionedAfter(Tail(q), i, o) <=> MentionedAfter(q, i + 1, o)
<1>1. /\ Len(q) \in Nat \ {0} /\ Len(Tail(q)) = Len(q) - 1
      /\ \A j \in 1..Len(Tail(q)) : Tail(q)[j] = q[j + 1]
  OBVIOUS
<1>2. ASSUME MentionedAfter(Tail(q), i, o) PROVE MentionedAfter(q, i + 1, o)
  <2>1. PICK j \in 1..Len(Tail(q)) : j > i /\ Mentions(Tail(q)[j], o)
    BY <1>2 DEF MentionedAfter
  <2>2. j + 1 \in 1..Len(q) /\ j + 1 > i + 1 /\ q[j + 1] = Tail(q)[j]
    BY <1>1, <2>1
  <2> QED
    BY <2>1, <2>2 DEF MentionedAfter
<1>3. ASSUME MentionedAfter(q, i + 1, o) PROVE MentionedAfter(Tail(q), i, o)
  <2>1. PICK j \in 1..Len(q) : j > i + 1 /\ Mentions(q[j], o)
    BY <1>3 DEF MentionedAfter
  <2>2. j - 1 \in 1..Len(Tail(q)) /\ j - 1 > i /\ Tail(q)[j - 1] = q[j]
    BY <1>1, <2>1
  <2> QED
    BY <2>1, <2>2 DEF MentionedAfter
<1> QED
  BY <1>2, <1>3

LEMMA HeadMentioned ==
  ASSUME NEW q \in Seq(Messages), q # <<>>, NEW o
  PROVE  MentionedAfter(q, 0, o) <=> Mentions(Head(q), o) \/ MentionedAfter(Tail(q), 0, o)
<1>1. Head(q) = q[1] /\ 1 \in 1..Len(q)
  OBVIOUS
<1>2. MentionedAfter(q, 0, o) <=> Mentions(q[1], o) \/ MentionedAfter(q, 0 + 1, o)
  BY <1>1 DEF MentionedAfter
<1> QED
  BY <1>1, <1>2, TailMentioned

(* A step of main that leaves the client for good or its state alone.      *)
LEMMA MirrorFrame ==
  ASSUME Mirrored, step' \in {"destroy", "unwind", "terminated", "done"},
         UNCHANGED <<calls, queue, thread, message>>
  PROVE  Mirrored'
BY DEF Mirrored, CleanStart, AtWork, Building, Loading

(* Main before and after the client.                                       *)
LEMMA MirrorAround ==
  ASSUME Typed, Mirrored, program = "connman",
         \/ Connect \/ Register \/ Destroy \/ Leave \/ TestRunning \/ Sleep \/ MonitorLoop
         \/ isConnectionAlive
  PROVE  Mirrored'
<1>1. program \in Known
  BY DEF Typed, Sound
<1>2. ASSUME NEW s, s \in {"connect", "register"}, Throws(s)
      PROVE  step' \in {"unwind", "terminated"}
  BY <1>1, <1>2, ThrowsLeads
<1>3. CASE Connect
  <2>1. step = "connect" /\ UNCHANGED <<mirror, todo, message>>
    BY <1>3 DEF Connect
  <2>2. CASE step' = After("connect") /\ thread' = "idle" /\ queue' = <<>> /\ calls' = 0
    <3>1. step' = "register"
      BY <1>1, <2>2, Statements
    <3> QED
      BY <2>1, <2>2, <3>1 DEF Mirrored, CleanStart, AtWork, Building, Loading
  <2>3. CASE Throws("connect") /\ UNCHANGED <<thread, queue, calls>>
    BY <1>2, <2>1, <2>3, MirrorFrame
  <2> QED
    BY <1>3, <2>2, <2>3 DEF Connect
<1>4. CASE Register
  <2>1. /\ step = "register" /\ UNCHANGED <<mirror, todo, message, thread, queue, calls>>
        /\ mirror = {} /\ todo = {} /\ queue = <<>> /\ ~AtWork
    BY <1>4 DEF Register, Mirrored, CleanStart, threadVars, world
  <2>2. CASE step' = After("register") /\ registered'
    <3>1. step' = "lock"
      BY <1>1, <2>2, Statements
    <3>2. ~AtWork' /\ queue' = <<>> /\ mirror' = {} /\ todo' = {} /\ calls' = calls
      BY <2>1 DEF AtWork
    <3>3. LastWord'
      BY <3>2 DEF LastWord
    <3>4. Settled'
      BY <3>1, <3>2 DEF Settled, ToAsk
    <3> QED
      BY <2>2, <3>1, <3>2, <3>3, <3>4 DEF Mirrored, CleanStart
  <2>3. CASE Throws("register")
    BY <1>2, <2>1, <2>3, MirrorFrame
  <2> QED
    BY <1>4, <2>2, <2>3 DEF Register
<1>5. CASE MonitorLoop \/ isConnectionAlive
  BY <1>5, MirrorFrame DEF MonitorLoop, isConnectionAlive, threadVars, world
<1>6. CASE Destroy
  <2>1. step' = "leave"
    BY <1>1, <1>6, Statements DEF Destroy
  <2> QED
    BY <1>6, <2>1 DEF Destroy, threadVars, world, Mirrored, CleanStart, AtWork, Building,
       Loading
<1>7. CASE Leave
  <2>1. step' = "retry"
    BY <1>1, <1>7, Statements DEF Leave
  <2> QED
    BY <1>7, <2>1 DEF Leave, world, Mirrored, CleanStart, AtWork, Building, Loading
<1>8. CASE TestRunning \/ Sleep
  <2>1. step \in {"test", "retry", "sleep"} /\ step' \in {"connect", "sleep", "done", "test"}
    BY <1>1, <1>8, Statements DEF TestRunning, Sleep
  <2>2. UNCHANGED <<mirror, todo, thread, message, queue, calls>>
    BY <1>8 DEF TestRunning, Sleep, threadVars, world
  <2> QED
    BY <2>1, <2>2 DEF Mirrored, CleanStart, AtWork, Building, Loading
<1> QED
  BY <1>3, <1>4, <1>5, <1>6, <1>7, <1>8

(* The body of the constructor: what it asks for is what ConnMan has, and  *)
(* what changes meanwhile is mentioned by a signal.                        *)
LEMMA MirrorLoading ==
  ASSUME Typed, Mirrored, program = "connman",
         Lock \/ GetTechnologies \/ Create \/ Created \/ GetServices \/ Built
  PROVE  Mirrored'
<1>1. program \in Known /\ present \subseteq Objects
  BY DEF Typed, Sound, Sets
<1>2. /\ step \in Building
      /\ UNCHANGED <<present, bus, missed, registered, calls, queue, thread, message>>
  BY DEF Lock, GetTechnologies, Create, Created, GetServices, Built, threadVars, world,
     Building, Loading
<1>3. LastWord' <=> LastWord
  BY <1>2 DEF LastWord, AtWork
<1>4. \A o \in Objects : Open(o)' <=> Open(o)
  BY <1>2 DEF Open, AtWork
<1>5. ASSUME NEW s \in Loading, Throws(s) PROVE Mirrored'
  <2>1. step' \in {"unwind", "terminated"}
    BY <1>1, <1>5, ThrowsLeads DEF Loading
  <2> QED
    BY <1>2, <2>1, MirrorFrame
<1>6. ASSUME step' \in Building, bus => Settled',
             step' \in {"lock", "technologies", "services", "monitor"} => todo' = {}
      PROVE  Mirrored'
  BY <1>2, <1>3, <1>6 DEF Mirrored, CleanStart, AtWork, Building, Loading
<1>7. CASE Lock
  <2>1. step = "lock" /\ step' = "technologies" /\ UNCHANGED <<mirror, todo>>
    BY <1>1, <1>7, Statements DEF Lock
  <2>2. bus => Settled'
    BY <1>2, <1>4, <2>1 DEF Mirrored, Settled, ToAsk
  <2> QED
    BY <1>6, <2>1, <2>2 DEF Mirrored, CleanStart, Building, Loading
<1>8. CASE GetTechnologies /\ ~Throws("technologies")
  <2>1. /\ step = "technologies" /\ step' = "create_technologies" /\ mirror' = mirror
        /\ todo' = present \cap Technologies
    BY <1>1, <1>8, Statements DEF GetTechnologies
  <2>2. bus => Settled'
    BY <1>1, <1>2, <1>4, <2>1 DEF Mirrored, Settled, ToAsk, Objects
  <2> QED
    BY <1>6, <2>1, <2>2 DEF Building, Loading
<1>9. CASE GetServices /\ ~Throws("services")
  <2>1. /\ step = "services" /\ step' = "create_services" /\ mirror' = mirror
        /\ todo' = present \cap Services /\ todo = {}
    BY <1>1, <1>9, Statements DEF GetServices, Mirrored, CleanStart
  <2>2. bus => Settled'
    BY <1>1, <1>2, <1>4, <2>1 DEF Mirrored, Settled, ToAsk, Objects
  <2> QED
    BY <1>6, <2>1, <2>2 DEF Building, Loading
<1>10. CASE Create /\ ~Throws(step)
  <2>1. step \in {"create_technologies", "create_services"} /\ step' = step
    BY <1>10 DEF Create
  <2>2. PICK o \in todo : mirror' = mirror \cup {o} /\ todo' = todo \ {o}
    BY <1>10 DEF Create
  <2>3. bus => Settled'
    BY <1>2, <1>4, <2>1, <2>2 DEF Mirrored, Settled, ToAsk
  <2> QED
    BY <1>2, <1>6, <2>1, <2>3
<1>11. CASE Created \/ Built
  <2>1. /\ todo = {} /\ UNCHANGED <<todo, mirror>>
        /\ \/ step = "create_technologies" /\ step' = "services"
           \/ step = "create_services" /\ step' = "monitor"
    BY <1>1, <1>11, Statements DEF Created, Built
  <2>2. bus => Settled'
    BY <1>2, <1>4, <2>1 DEF Mirrored, Settled, ToAsk
  <2> QED
    BY <1>6, <2>1, <2>2 DEF Building, Loading
<1>12. Create => step \in Loading
  BY DEF Create, Loading
<1>13. "technologies" \in Loading /\ "services" \in Loading
  BY DEF Loading
<1> QED
  BY <1>5, <1>7, <1>8, <1>9, <1>10, <1>11, <1>12, <1>13

(* The handlers of onTechnologyAdded, onTechnologyRemoved and              *)
(* onServicesChanged touch what their signal mentions, and get it right or *)
(* leave it to be missed.                                                  *)
LEMMA HandlerEffect ==
  ASSUME Shaped(message), NEW o \in Objects,
         \/ onTechnologyAdded(message.add, message.del)
         \/ onTechnologyRemoved(message.add, message.del)
         \/ onServicesChanged(message.add, message.del)
  PROVE  /\ ~Mentions(message, o) => (o \in mirror' <=> o \in mirror)
                                     /\ (o \in missed' <=> o \in missed)
         /\ o \in message.add => o \in mirror' \cup missed'
         /\ o \in message.del => o \notin mirror' \/ o \in missed'
<1> DEFINE add == message.add
           del == message.del
<1>1. Technologies \cap Services = {} /\ add \cap del = {}
  BY AsyncAssumption DEF AsyncAssumption, Shaped
<1>2. CASE onTechnologyAdded(add, del)
  <2>1. del = {}
    BY <1>1, <1>2 DEF onTechnologyAdded, Shaped
  <2> QED
    BY <1>2, <2>1 DEF onTechnologyAdded, Mentions
<1>3. CASE onTechnologyRemoved(add, del)
  BY <1>3 DEF onTechnologyRemoved, Mentions
<1>4. CASE onServicesChanged(add, del)
  <2>1. CASE mirror' = (mirror \cup add) \ del /\ missed' = missed \ (add \cup del)
    BY <1>1, <2>1 DEF Mentions
  <2>2. ASSUME NEW made \in SUBSET (add \ mirror), mirror' = mirror \cup made,
               missed' = (missed \ made) \cup (add \ (mirror \cup made)) \cup del
        PROVE  /\ ~Mentions(message, o) => (o \in mirror' <=> o \in mirror)
                                           /\ (o \in missed' <=> o \in missed)
               /\ o \in add => o \in mirror' \cup missed'
               /\ o \in del => o \notin mirror' \/ o \in missed'
    BY <2>2 DEF Mentions
  <2> QED
    BY <1>4, <2>1, <2>2 DEF onServicesChanged
<1> QED
  BY <1>2, <1>3, <1>4

(* The event thread takes the signals in order and does what the last one  *)
(* about an object says.                                                   *)
LEMMA MirrorThread ==
  ASSUME Typed, Mirrored, program = "connman", EventThread
  PROVE  Mirrored'
<1>1. /\ queue \in Seq(Messages) /\ UNCHANGED <<step, todo, registered, calls, present, bus>>
  BY DEF Typed, Mail, EventThread, Takes, HandlerLocks, HandlerReturns, mainVars, world
<1>2. CASE Takes
  <2>1. queue # <<>> /\ queue' = Tail(queue) /\ thread = "idle" /\ UNCHANGED <<mirror, missed>>
    BY <1>2 DEF Takes
  <2>2. /\ Head(queue) = queue[1] /\ Len(queue) \in Nat \ {0} /\ Len(Tail(queue)) = Len(queue) - 1
        /\ \A i \in 1..Len(Tail(queue)) : i + 1 \in 1..Len(queue) /\ Tail(queue)[i] = queue[i + 1]
    BY <1>1, <2>1
  <2>3. Shaped(Head(queue)) /\ \A i \in 1..Len(queue') : Shaped(queue'[i])
    BY <2>1, <2>2 DEF Mirrored, CleanStart
  <2>4. ~AtWork /\ Head(queue).type = "signal"
    BY <2>1, <2>3 DEF AtWork, Shaped
  <2>5. step # "register"
    BY <2>1 DEF Mirrored, CleanStart
  <2>6. CASE registered
    <3>1. message' = Head(queue) /\ AtWork'
      BY <1>2, <2>4, <2>6 DEF Takes, AtWork
    <3>2. \A o \in Objects : Open(o)' <=> Open(o)
      BY <1>1, <2>1, <2>4, <3>1, HeadMentioned DEF Open
    <3>3. Settled => Settled'
      BY <1>1, <2>1, <3>2 DEF Settled, ToAsk
    <3>4. LastWord => LastWord'
      <4> SUFFICES ASSUME LastWord, NEW o \in Objects
                   PROVE  /\ \A i \in 1..Len(queue') :
                               Mentions(queue'[i], o) /\ ~MentionedAfter(queue', i, o) =>
                                 (o \in queue'[i].add <=> o \in present)
                          /\ Mentions(message', o) /\ ~MentionedAfter(queue', 0, o) =>
                               (o \in message'.add <=> o \in present)
        BY <1>1 DEF LastWord
      <4>1. ASSUME NEW i \in 1..Len(queue'), Mentions(queue'[i], o),
                   ~MentionedAfter(queue', i, o)
            PROVE  o \in queue'[i].add <=> o \in present
        <5>1. i + 1 \in 1..Len(queue) /\ queue'[i] = queue[i + 1] /\ i \in Nat
          BY <2>1, <2>2
        <5>2. ~MentionedAfter(queue, i + 1, o)
          BY <1>1, <2>1, <4>1, <5>1, TailMentioned
        <5> QED
          BY <4>1, <5>1, <5>2 DEF LastWord
      <4>2. ASSUME Mentions(message', o), ~MentionedAfter(queue', 0, o)
            PROVE  o \in message'.add <=> o \in present
        <5>1. ~MentionedAfter(queue, 0 + 1, o)
          BY <1>1, <2>1, <4>2, TailMentioned
        <5>2. 1 \in 1..Len(queue) /\ message' = queue[1] /\ ~MentionedAfter(queue, 1, o)
          BY <2>2, <3>1, <5>1
        <5> QED
          BY <4>2, <5>2 DEF LastWord
      <4> QED
        BY <4>1, <4>2
    <3> QED
      BY <1>1, <2>1, <2>3, <2>5, <3>1, <3>3, <3>4 DEF Mirrored, CleanStart
  <2>7. CASE ~registered
    <3>1. step \notin Building /\ UNCHANGED <<thread, message>>
      BY <1>2, <2>4, <2>7 DEF Takes, Mirrored, CleanStart, threadVars
    <3> QED
      BY <1>1, <2>1, <2>3, <2>5, <3>1 DEF Mirrored, CleanStart, AtWork
  <2> QED
    BY <2>6, <2>7
<1>3. CASE HandlerLocks
  <2>1. /\ AtWork /\ AtWork' /\ UNCHANGED <<mirror, missed, queue, message>>
    BY <1>3 DEF HandlerLocks, AtWork, world
  <2>2. (LastWord' <=> LastWord) /\ (Settled' <=> Settled)
    BY <1>1, <2>1 DEF LastWord, Settled, Open, ToAsk
  <2> QED
    BY <1>1, <2>1, <2>2 DEF Mirrored, CleanStart
<1>4. CASE HandlerReturns
  <2>1. /\ AtWork /\ ~AtWork' /\ queue' = queue /\ Shaped(message)
        /\ \/ onTechnologyAdded(message.add, message.del)
           \/ onTechnologyRemoved(message.add, message.del)
           \/ onServicesChanged(message.add, message.del)
    BY <1>4 DEF HandlerReturns, AtWork, world, Mirrored, CleanStart
  <2>2. registered /\ step \notin Loading
    BY <1>4 DEF HandlerReturns, Typed, Sound, ThreadInv, Locked
  <2>3. step \notin {"test", "connect", "register", "retry", "sleep", "leave"}
    BY <2>2 DEF Typed, Sound, ThreadInv, CleanedUp
  <2>4. LastWord => LastWord'
    BY <1>1, <2>1 DEF LastWord
  <2>5. ASSUME step \in Building, LastWord, Settled PROVE Settled'
    <3>1. todo = {}
      BY <2>2, <2>5 DEF Building, Mirrored, CleanStart
    <3> SUFFICES ASSUME NEW o \in Objects, ~MentionedAfter(queue, 0, o)
                 PROVE  /\ o \in mirror' => o \in present \cup missed'
                        /\ o \in present => o \in mirror' \cup missed' \/ ToAsk(o)
      BY <1>1, <2>1, <3>1 DEF Settled, Open, ToAsk
    <3>2. CASE ~Mentions(message, o)
      <4>1. ~Open(o)
        BY <3>2 DEF Open
      <4>2. (o \in mirror' <=> o \in mirror) /\ (o \in missed' <=> o \in missed)
        BY <2>1, <3>2, HandlerEffect
      <4> QED
        BY <2>5, <3>1, <4>1, <4>2 DEF Settled
    <3>3. CASE Mentions(message, o)
      <4>1. o \in message.add <=> o \in present
        BY <2>1, <2>5, <3>3 DEF LastWord
      <4>2. /\ o \in message.add => o \in mirror' \cup missed'
            /\ o \in message.del => o \notin mirror' \/ o \in missed'
        BY <2>1, HandlerEffect
      <4> QED
        BY <3>3, <4>1, <4>2 DEF Mentions
    <3> QED
      BY <3>2, <3>3
  <2> QED
    BY <1>1, <2>1, <2>3, <2>4, <2>5 DEF Mirrored, CleanStart
<1> QED
  BY <1>2, <1>3, <1>4 DEF EventThread

(* ConnMan sends a signal for every change once the client is registered.  *)
LEMMA MirrorEmit ==
  ASSUME Typed, Mirrored, NEW add \in SUBSET Objects, NEW del \in SUBSET Objects,
         Emit(add, del), Shaped([type |-> "signal", add |-> add, del |-> del]),
         UNCHANGED <<step, todo, registered, calls, bus, thread, message, mirror, missed>>,
         \A o \in Objects : /\ o \in add => o \in present'
                            /\ o \in del => o \notin present'
                            /\ o \notin add \cup del => (o \in present' <=> o \in present)
  PROVE  Mirrored'
<1> DEFINE m == [type |-> "signal", add |-> add, del |-> del]
<1>1. queue \in Seq(Messages) /\ m \in Messages /\ Shaped(m) /\ m.add = add /\ m.del = del
  BY DEF Typed, Mail, Messages
<1>2. queue' = IF registered /\ bus THEN Append(queue, m) ELSE queue
  BY DEF Emit
<1>3. m.add \cap m.del = {}
  BY <1>1 DEF Shaped
<1> HIDE DEF m
<1>4. CASE ~(registered /\ bus)
  <2>1. queue' = queue /\ (step \in Building => ~bus)
    BY <1>2, <1>4 DEF Mirrored, CleanStart
  <2> QED
    BY <2>1 DEF Mirrored, CleanStart, AtWork
<1>5. CASE registered /\ bus
  <2>1. /\ queue' = Append(queue, m) /\ Len(queue) \in Nat /\ Len(queue') = Len(queue) + 1
        /\ queue'[Len(queue) + 1] = m /\ \A i \in 1..Len(queue) : queue'[i] = queue[i]
    BY <1>1, <1>2, <1>5
  <2>2. \A i \in 1..Len(queue') : Shaped(queue'[i])
    BY <1>1, <2>1 DEF Mirrored, CleanStart
  <2>3. step # "register"
    BY <1>5 DEF Typed, Sound, ThreadInv, CleanedUp
  <2>4. \A o \in Objects, i \in 0..Len(queue) :
          MentionedAfter(queue', i, o) <=> MentionedAfter(queue, i, o) \/ Mentions(m, o)
    BY <1>1, <2>1, AppendMentioned
  <2>5. 0 \in 0..Len(queue)
    BY <2>1
  <2>6. \A o \in Objects : /\ Mentions(m, o) => (o \in m.add <=> o \in present')
                           /\ ~Mentions(m, o) => (o \in present' <=> o \in present)
    BY <1>1, <1>3 DEF Mentions
  <2>7. Settled => Settled'
    <3> SUFFICES ASSUME Settled, NEW o \in Objects, ~Open(o)'
                 PROVE  /\ o \in mirror => o \in present' \cup missed
                        /\ o \in todo => o \in present'
                        /\ o \in present' => o \in mirror \cup missed \cup todo \/ ToAsk(o)
      BY DEF Settled, ToAsk
    <3>1. ~Mentions(m, o) /\ ~Open(o)
      BY <2>4, <2>5 DEF Open, AtWork
    <3> QED
      BY <2>6, <3>1 DEF Settled
  <2>8. LastWord => LastWord'
    <3> SUFFICES ASSUME LastWord, NEW o \in Objects
                 PROVE  /\ \A i \in 1..Len(queue') :
                             Mentions(queue'[i], o) /\ ~MentionedAfter(queue', i, o) =>
                               (o \in queue'[i].add <=> o \in present')
                        /\ AtWork /\ Mentions(message, o) /\ ~MentionedAfter(queue', 0, o) =>
                             (o \in message.add <=> o \in present')
      BY DEF LastWord, AtWork
    <3>1. ASSUME NEW i \in 1..Len(queue), Mentions(queue[i], o), ~MentionedAfter(queue', i, o)
          PROVE  o \in queue[i].add <=> o \in present'
      <4>1. ~Mentions(m, o) /\ ~MentionedAfter(queue, i, o)
        BY <2>1, <2>4, <3>1
      <4> QED
        BY <2>6, <3>1, <4>1 DEF LastWord
    <3>2. AtWork /\ Mentions(message, o) /\ ~MentionedAfter(queue', 0, o) =>
            (o \in message.add <=> o \in present')
      BY <2>4, <2>5, <2>6 DEF LastWord
    <3>3. ASSUME NEW i \in 1..Len(queue'), Mentions(queue'[i], o),
                 ~MentionedAfter(queue', i, o)
          PROVE  o \in queue'[i].add <=> o \in present'
      <4>1. CASE i = Len(queue) + 1
        BY <2>1, <2>6, <3>3, <4>1
      <4>2. CASE i \in 1..Len(queue)
        BY <2>1, <3>1, <3>3, <4>2
      <4> QED
        BY <2>1, <4>1, <4>2
    <3> QED
      BY <3>2, <3>3
  <2> QED
    BY <2>2, <2>3, <2>7, <2>8 DEF Mirrored, CleanStart, AtWork
<1> QED
  BY <1>4, <1>5

(* The world around the client.                                            *)
LEMMA MirrorOutside ==
  ASSUME Typed, Mirrored, program = "connman", Answer \/ Outside \/ UNCHANGED vars
  PROVE  Mirrored'
<1>1. CASE Answer
  BY <1>1 DEF Answer, Mirrored, CleanStart
<1>2. ASSUME NEW t \in Technologies, TechnologyChanges(t) PROVE Mirrored'
  <2>1. UNCHANGED <<step, todo, registered, calls, bus, thread, message, mirror, missed>>
    BY <1>2 DEF TechnologyChanges, mainVars, threadVars
  <2>2. {t} \in SUBSET Objects /\ {} \in SUBSET Objects
    BY DEF Objects
  <2>3. CASE present' = present \cup {t} /\ Emit({t}, {})
    <3>1. Shaped([type |-> "signal", add |-> {t}, del |-> {}])
      BY DEF Shaped
    <3> QED
      BY <2>1, <2>2, <2>3, <3>1, MirrorEmit
  <2>4. CASE present' = present \ {t} /\ Emit({}, {t})
    <3>1. Shaped([type |-> "signal", add |-> {}, del |-> {t}])
      BY DEF Shaped
    <3> QED
      BY <2>1, <2>2, <2>4, <3>1, MirrorEmit
  <2> QED
    BY <1>2, <2>3, <2>4 DEF TechnologyChanges
<1>3. ASSUME NEW now \in SUBSET Services, ServicesChange(now) PROVE Mirrored'
  <2> DEFINE gone == (present \cap Services) \ now
  <2>1. /\ UNCHANGED <<step, todo, registered, calls, bus, thread, message, mirror, missed>>
        /\ present' = (present \cap Technologies) \cup now /\ Emit(now, gone)
    BY <1>3 DEF ServicesChange, mainVars, threadVars
  <2>2. now \in SUBSET Objects /\ gone \in SUBSET Objects
    BY DEF Objects
  <2>3. Shaped([type |-> "signal", add |-> now, del |-> gone])
    BY DEF Shaped
  <2>4. Technologies \cap Services = {}
    BY AsyncAssumption DEF AsyncAssumption
  <2>5. \A o \in Objects : /\ o \in now => o \in present'
                           /\ o \in gone => o \notin present'
                           /\ o \notin now \cup gone => (o \in present' <=> o \in present)
    BY <2>1, <2>4 DEF Objects
  <2> HIDE DEF gone
  <2> QED
    BY <2>1, <2>2, <2>3, <2>5, MirrorEmit
<1>4. CASE signalHandler \/ UNCHANGED vars
  <2>1. UNCHANGED <<step, todo, registered, calls, bus, thread, message, mirror, missed,
                    queue, present>>
    BY <1>4 DEF signalHandler, vars, mainVars, threadVars, world
  <2> QED
    BY <2>1 DEF Mirrored, CleanStart, AtWork, LastWord, Settled, Open, ToAsk
<1>5. CASE BusLost
  BY <1>5 DEF BusLost, mainVars, threadVars, Mirrored, CleanStart, AtWork
<1>6. ~ServiceChanges
  BY DEF ServiceChanges
<1> QED
  BY <1>1, <1>2, <1>3, <1>4, <1>5, <1>6 DEF Outside

LEMMA NextMirror == Typed /\ MirrorInv /\ [Next]_vars => MirrorInv'
<1> SUFFICES ASSUME Typed, MirrorInv, [Next]_vars, program' = "connman" PROVE Mirrored'
  BY DEF MirrorInv
<1>1. program = "connman"
  BY DEF Next, Main, Connect, Register, Call, Ask, Await, Use, Forget, Destroy, Leave,
     TestRunning, Sleep, Lock, GetTechnologies, GetServices, Create, Created, Built,
     MonitorLoop, isConnectionAlive, EventThread, Takes, HandlerLocks, HandlerReturns,
     Answer, Outside, signalHandler, ServiceChanges, BusLost, TechnologyChanges,
     ServicesChange, vars
<1>2. ~(Call \/ Ask \/ Await \/ Use \/ Forget)
  BY <1>1 DEF Call, Ask, Await, Use, Forget, Typed, Sound, ThreadInv, Placed
<1> QED
  BY <1>1, <1>2, MirrorAround, MirrorLoading, MirrorThread, MirrorOutside
     DEF MirrorInv, Next, Main

(* Once every signal is handled the ConnMan client's maps are ConnMan's    *)
(* technologies and services, but for what a handler that threw left out,  *)
(* however these changed between registerProxy() and the end of the        *)
(* constructor (connman_client.cc).                                        *)
THEOREM MirrorIsComplete == Spec => []MirrorComplete
<1>1. Init => MirrorInv
  BY DEF Init, MirrorInv, Mirrored, CleanStart, AtWork, Building, Loading
<1>2. Typed /\ MirrorInv => MirrorComplete
  <2> SUFFICES ASSUME Typed, MirrorInv, step = "monitor", bus, queue = <<>>, thread = "idle"
               PROVE  (mirror \ present) \cup (present \ mirror) \subseteq missed
    BY DEF MirrorComplete
  <2>1. Mirrored /\ mirror \subseteq Objects /\ present \subseteq Objects
    BY DEF MirrorInv, Typed, Sound, ThreadInv, Placed, Sets
  <2>2. Settled /\ todo = {}
    BY <2>1 DEF Mirrored, CleanStart, Building
  <2>3. \A o \in Objects : ~Open(o) /\ ~ToAsk(o)
    BY DEF Open, MentionedAfter, AtWork, ToAsk
  <2> QED
    BY <2>1, <2>2, <2>3 DEF Settled
<1> QED
  BY <1>1, <1>2, NextMirror, TypedInvariant, PTL DEF Spec
=============================================================================
