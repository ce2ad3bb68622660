----------------------------- MODULE AsyncClient -----------------------------
(***************************************************************************)
(* The programs that call enterEventLoopAsync(): the ConnMan monitor with  *)
(* its signal handler and reconnection loop, and the programs that ask a   *)
(* service once, print and end (hostname1, locale1, timedate1, fwupd,      *)
(* packagekit, flatpak, avahi).  Two threads: main, and the event thread   *)
(* of sdbus-c++, which processes the connection's messages.                *)
(*                                                                         *)
(* sdbus-c++ guards the connection by a recursive mutex.  The event thread *)
(* holds it while a handler runs; main takes it for every synchronous call,*)
(* registerProxy() and unregisterProxy().  Main never holds it from one    *)
(* action of this module to the next, so only the event thread's share of  *)
(* it is state: it has it unless it is idle or off.                        *)
(***************************************************************************)
EXTENDS Integers, Sequences, FiniteSets

CONSTANTS
  Programs,     \* the programs to look at
  Technologies, \* object paths of ConnMan's technologies
  Services,     \* and of its services
  InitialDelay, \* kInitialReconnectDelay
  MaxDelay,     \* kMaxReconnectDelay
  MaxEvents     \* bound on what services and the bus do

ASSUME AsyncAssumption ==
  /\ Programs \subseteq {"connman", "hostname1", "locale1", "timedate1", "fwupd",
                         "packagekit", "flatpak", "avahi"}
  /\ Technologies \cap Services = {}
  /\ InitialDelay \in Nat \ {0} /\ MaxDelay \in Nat /\ InitialDelay <= MaxDelay
  /\ MaxEvents \in Nat

VARIABLES
  program,    \* which program this is
  step,       \* main: the statement it is at
  asked,      \* main: GetAllAsync() calls made so far
  got,        \* main: futures read so far
  todo,       \* main: enumerated objects that need a client
  thread,     \* the event thread: "off", "idle", "waits" for maps_mutex_, "handles"
  message,    \* the message it works on
  maps_mutex, \* who holds maps_mutex_
  registered, \* the client's proxy is registered
  promises,   \* promises that exist and are not set
  mirror,     \* technologies_ and services_
  g_running,  \* cleared by the signal handler
  delay,      \* reconnect_delay
  queue,      \* messages the event thread has not looked at
  calls,      \* asynchronous calls on their way
  present,    \* ConnMan's technologies and services
  bus,        \* the connection works
  events,     \* what happened outside so far
  failures,   \* attempts since a client was last built
  missed,     \* objects a handler that threw did not handle
  late        \* connections made after the signal

mainVars   == <<step, asked, got, todo>>
threadVars == <<thread, message>>
world      == <<queue, calls, present, bus, events>>
vars == <<program, mainVars, threadVars, maps_mutex, registered, promises, mirror,
          g_running, delay, world, failures, missed, late>>

Objects == Technologies \cup Services
NoMessage == [type |-> "none", add |-> {}, del |-> {}]
Messages  == [type : {"signal", "reply"}, add : SUBSET Objects, del : SUBSET Objects]

-----------------------------------------------------------------------------
(* What main does, statement by statement, each with the next one.         *)
(* "register" is the client's constructor, "call" a synchronous call (or   *)
(* several), "ask" and "await" are GetAllAsync() and future.get(), "use" an*)
(* access to the cached properties, "forget" the end of the block the      *)
(* promise lives in, "destroy" the client's destructor, "leave"            *)
(* leaveEventLoop() or the connection's destructor.                        *)
hostname1 == [connect |-> "register", register |-> "call", call |-> "ask", ask |-> "await",
              await |-> "use", use |-> "leave", leave |-> "forget", forget |-> "destroy",
              destroy |-> "done"]
locale1 == [connect |-> "register", register |-> "ask", ask |-> "await", await |-> "use",
            use |-> "leave", leave |-> "forget", forget |-> "destroy", destroy |-> "done"]
timedate1 == [connect |-> "register", register |-> "ask", ask |-> "await", await |-> "use",
              use |-> "leave", leave |-> "forget", forget |-> "destroy",
              destroy |-> "done"]
fwupd == [connect |-> "register", register |-> "ask", ask |-> "await", await |-> "forget",
          forget |-> "call", call |-> "leave", leave |-> "destroy", destroy |-> "done"]
packagekit == [connect |-> "register", register |-> "ask", ask |-> "await",
               await |-> "call", call |-> "forget", forget |-> "destroy",
               destroy |-> "leave", leave |-> "done"]
flatpak == [connect |-> "register", register |-> "call", call |-> "use", use |-> "leave",
            leave |-> "destroy", destroy |-> "done"]
avahi == [connect |-> "register", register |-> "call", call |-> "use", use |-> "destroy",
          destroy |-> "leave", leave |-> "done"]

(* Mutant: subscribed after the enumeration.                               *)
connmanLate == [test |-> "connect", connect |-> "lock", lock |-> "technologies",
                technologies |-> "create_technologies", create_technologies |-> "services",
                services |-> "create_services", create_services |-> "register",
                register |-> "monitor", monitor |-> "destroy", destroy |-> "leave",
                leave |-> "retry", retry |-> "sleep", sleep |-> "test"]

connman == [test |-> "connect", connect |-> "register", register |-> "lock",
            lock |-> "technologies", technologies |-> "create_technologies",
            create_technologies |-> "services", services |-> "create_services",
            create_services |-> "monitor", monitor |-> "destroy", destroy |-> "leave",
            leave |-> "retry", retry |-> "sleep", sleep |-> "test"]

Script ==
  CASE program = "hostname1"  -> hostname1
    [] program = "locale1"    -> locale1
    [] program = "timedate1"  -> timedate1
    [] program = "fwupd"      -> fwupd
    [] program = "packagekit" -> packagekit
    [] program = "flatpak"    -> flatpak
    [] program = "avahi"      -> avahi
    [] program = "connman"    -> connman

(* The statement after s.                                                  *)
After(s) == Script[s]

(* timedate1 asks four times.                                              *)
Calls == IF program = "timedate1" THEN 4 ELSE 1

(* Where an exception out of statement s leads: to the next statement, to  *)
(* the clean-up of main's try block, or to std::terminate().               *)
Handled(s) ==
  CASE program \in {"packagekit", "connman"} -> "unwind"
    [] program = "flatpak"   -> IF s = "call" THEN "next" ELSE "unwind"
    [] program = "fwupd"     -> IF s \in {"await", "call"} THEN "next" ELSE "terminate"
    [] program = "timedate1" -> IF s = "await" THEN "next" ELSE "terminate"
    [] program \in {"hostname1", "locale1", "avahi"} -> "terminate"

Init ==
  /\ program \in Programs
  /\ step = IF program = "connman" THEN "test" ELSE "connect"
  /\ asked = 0 /\ got = 0 /\ todo = {}
  /\ thread = "off" /\ message = NoMessage /\ maps_mutex = "none"
  /\ registered = FALSE /\ promises = 0 /\ mirror = {}
  /\ g_running = TRUE /\ delay = InitialDelay
  /\ queue = <<>> /\ calls = 0 /\ bus = TRUE /\ events = 0
  /\ present \in IF program = "connman" THEN SUBSET Objects ELSE {{}}
  /\ failures = 0 /\ missed = {} /\ late = 0

(* Main can get at the connection: no handler runs.                        *)
BusFree == thread \in {"off", "idle"}

Throws(s) ==
  /\ step' = CASE Handled(s) = "next"      -> After(s)
               [] Handled(s) = "unwind"    -> "unwind"
               [] Handled(s) = "terminate" -> "terminated"
  /\ maps_mutex' = IF maps_mutex = "main" THEN "none" ELSE maps_mutex

-----------------------------------------------------------------------------
(* Main, every program.                                                    *)

(* createSystemBusConnection() and enterEventLoopAsync().                  *)
Connect ==
  /\ step = "connect"
  /\ \/ /\ step' = After("connect") /\ thread' = "idle"
        /\ bus' = TRUE /\ queue' = <<>> /\ calls' = 0
        /\ UNCHANGED maps_mutex
     \/ /\ Throws("connect")
        /\ UNCHANGED <<thread, bus, queue, calls>>
  /\ asked' = 0 /\ got' = 0
  /\ late' = IF g_running THEN late ELSE late + 1
  /\ UNCHANGED <<program, todo, message, registered, promises, mirror, g_running, delay,
                 present, events, failures, missed>>

(* The client's constructor up to registerProxy().  avahi looks first      *)
(* whether the service is there, and does without a client otherwise.      *)
Register ==
  /\ step = "register" /\ BusFree
  /\ \/ /\ bus /\ registered' = TRUE /\ missed' = {}
        /\ step' = After("register") /\ UNCHANGED maps_mutex
     \/ /\ program = "avahi" /\ step' = "leave"
        /\ UNCHANGED <<registered, missed, maps_mutex>>
     \/ Throws("register") /\ UNCHANGED <<registered, missed>>
  /\ UNCHANGED <<program, asked, got, todo, threadVars, promises, mirror, g_running, delay,
                 world, failures, late>>

Call ==
  /\ step = "call" /\ BusFree
  /\ \/ bus /\ step' = After("call") /\ UNCHANGED maps_mutex
     \/ Throws("call")
  /\ UNCHANGED <<program, asked, got, todo, threadVars, registered, promises, mirror,
                 g_running, delay, world, failures, missed, late>>

(* GetAllAsync() with a callback that sets the promise.                    *)
Ask ==
  /\ step = "ask" /\ BusFree
  /\ \/ /\ asked' = asked + 1 /\ calls' = calls + 1 /\ promises' = promises + 1
        /\ step' = IF asked' = Calls THEN After("ask") ELSE "ask"
        /\ UNCHANGED maps_mutex
     \/ ~bus /\ Throws("ask") /\ UNCHANGED <<asked, calls, promises>>
  /\ UNCHANGED <<program, got, todo, threadVars, registered, mirror, g_running, delay, queue,
                 present, bus, events, failures, missed, late>>

(* Mutant: the future is given up after a while.                           *)
AwaitTimesOut ==
  /\ step = "await"
  /\ got' = got + 1 /\ step' = IF got' = Calls THEN After("await") ELSE "await"
  /\ UNCHANGED <<program, asked, todo, threadVars, maps_mutex, registered, promises, mirror,
                 g_running, delay, world, failures, missed, late>>

(* future.get(), in timedate1 one after the other in the order of the      *)
(* calls, which is that of the replies.                                    *)
Await ==
  /\ step = "await" /\ promises < asked - got
  /\ \/ /\ got' = got + 1
        /\ step' = IF got' = Calls THEN After("await") ELSE "await"
        /\ UNCHANGED maps_mutex
     \/ IF program = "timedate1" /\ got + 1 < Calls
          THEN got' = got + 1 /\ UNCHANGED <<step, maps_mutex>>
          ELSE got' = got + 1 /\ Throws("await")
  /\ UNCHANGED <<program, asked, todo, threadVars, registered, promises, mirror, g_running,
                 delay, world, failures, missed, late>>

(* updateX() and printX(): main is in the cached properties.               *)
Use ==
  /\ step = "use" /\ step' = After("use")
  /\ UNCHANGED <<program, asked, got, todo, threadVars, maps_mutex, registered, promises,
                 mirror, g_running, delay, world, failures, missed, late>>

(* The promises go out of scope.                                           *)
Forget ==
  /\ step = "forget" /\ step' = After("forget") /\ promises' = 0
  /\ UNCHANGED <<program, asked, got, todo, threadVars, maps_mutex, registered, mirror,
                 g_running, delay, world, failures, missed, late>>

(* Mutant: the destructor does not unregister.                             *)
DestroyRegistered ==
  /\ step \in {"destroy", "unwind"} /\ BusFree
  /\ step' = IF step = "destroy" THEN After("destroy") ELSE "leave"
  /\ mirror' = {} /\ todo' = {}
  /\ promises' = IF step = "unwind" THEN 0 ELSE promises
  /\ UNCHANGED <<program, asked, got, threadVars, maps_mutex, registered, g_running, delay,
                 world, failures, missed, late>>

(* The destructor, or the catch of the constructor: unregisterProxy(),     *)
(* then the maps with their own proxies.  Unwinding also ends the promises.*)
Destroy ==
  /\ step \in {"destroy", "unwind"} /\ BusFree
  /\ step' = IF step = "destroy" THEN After("destroy") ELSE "leave"
  /\ registered' = FALSE /\ mirror' = {} /\ todo' = {}
  /\ promises' = IF step = "unwind" THEN 0 ELSE promises
  /\ UNCHANGED <<program, asked, got, threadVars, maps_mutex, g_running, delay, world,
                 failures, missed, late>>

(* The event thread ends when it looks for the next message; main waits.   *)
Leave ==
  /\ step = "leave" /\ BusFree
  /\ thread' = "off" /\ step' = After("leave")
  /\ UNCHANGED <<program, asked, got, todo, message, maps_mutex, registered, promises,
                 mirror, g_running, delay, world, failures, missed, late>>

-----------------------------------------------------------------------------
(* Main, ConnMan.                                                          *)

(* while (g_running), and the test after a connection.                     *)
TestRunning ==
  /\ step \in {"test", "retry"}
  /\ step' = IF g_running THEN After(step) ELSE "done"
  /\ UNCHANGED <<program, asked, got, todo, threadVars, maps_mutex, registered, promises,
                 mirror, g_running, delay, world, failures, missed, late>>

(* sleep_for() goes on after a signal; then the delay doubles.             *)
Doubled(d) == IF 2 * d < MaxDelay THEN 2 * d ELSE MaxDelay

(* Mutant: no maximum.                                                     *)
SleepUncapped ==
  /\ step = "sleep" /\ step' = After("sleep")
  /\ delay' = IF delay <= MaxDelay THEN 2 * delay ELSE delay
  /\ failures' = IF delay < MaxDelay THEN failures + 1 ELSE failures
  /\ UNCHANGED <<program, asked, got, todo, threadVars, maps_mutex, registered, promises,
                 mirror, g_running, world, missed, late>>

Sleep ==
  /\ step = "sleep" /\ step' = After("sleep")
  /\ delay' = Doubled(delay)
  /\ failures' = IF delay < MaxDelay THEN failures + 1 ELSE failures
  /\ UNCHANGED <<program, asked, got, todo, threadVars, maps_mutex, registered, promises,
                 mirror, g_running, world, missed, late>>

(* The constructor holds maps_mutex_ from here to its end.                 *)
Lock ==
  /\ step = "lock" /\ maps_mutex = "none"
  /\ maps_mutex' = "main" /\ step' = After("lock")
  /\ UNCHANGED <<program, asked, got, todo, threadVars, registered, promises, mirror,
                 g_running, delay, world, failures, missed, late>>

GetTechnologies ==
  /\ step = "technologies" /\ BusFree
  /\ \/ /\ bus /\ todo' = present \cap Technologies
        /\ step' = After("technologies") /\ UNCHANGED maps_mutex
     \/ Throws("technologies") /\ UNCHANGED todo
  /\ UNCHANGED <<program, asked, got, threadVars, registered, promises, mirror, g_running,
                 delay, world, failures, missed, late>>

GetServices ==
  /\ step = "services" /\ BusFree
  /\ \/ /\ bus /\ todo' = present \cap Services
        /\ step' = After("services") /\ UNCHANGED maps_mutex
     \/ Throws("services") /\ UNCHANGED todo
  /\ UNCHANGED <<program, asked, got, threadVars, registered, promises, mirror, g_running,
                 delay, world, failures, missed, late>>

(* A client per object, each of which registers a proxy.                   *)
Create ==
  /\ step \in {"create_technologies", "create_services"} /\ BusFree
  /\ \E o \in todo :
       \/ bus /\ mirror' = mirror \cup {o} /\ todo' = todo \ {o} /\ UNCHANGED <<step, maps_mutex>>
       \/ Throws(step) /\ UNCHANGED <<mirror, todo>>
  /\ UNCHANGED <<program, asked, got, threadVars, registered, promises, g_running, delay,
                 world, failures, missed, late>>

Created ==
  /\ step = "create_technologies" /\ todo = {}
  /\ step' = After("create_technologies")
  /\ UNCHANGED <<program, asked, got, todo, threadVars, maps_mutex, registered, promises,
                 mirror, g_running, delay, world, failures, missed, late>>

(* Mutant: the delay is not reset.                                         *)
BuiltKeepsDelay ==
  /\ step = "create_services" /\ todo = {}
  /\ step' = After("create_services") /\ maps_mutex' = "none"
  /\ failures' = 0
  /\ UNCHANGED <<program, asked, got, todo, threadVars, registered, promises, mirror,
                 g_running, delay, world, missed, late>>

(* The end of the constructor; the delay starts over.                      *)
Built ==
  /\ step = "create_services" /\ todo = {}
  /\ step' = After("create_services") /\ maps_mutex' = "none"
  /\ delay' = InitialDelay /\ failures' = 0
  /\ UNCHANGED <<program, asked, got, todo, threadVars, registered, promises, mirror,
                 g_running, world, missed, late>>

(* Mutant: only the signal ends the loop.                                  *)
MonitorLoopDeaf ==
  /\ step = "monitor" /\ ~g_running
  /\ step' = "destroy"
  /\ UNCHANGED <<program, asked, got, todo, threadVars, maps_mutex, registered, promises,
                 mirror, g_running, delay, world, failures, missed, late>>

(* monitorLoop() ends on the signal, or when isConnectionAlive() fails for *)
(* want of a bus.                                                          *)
MonitorLoop ==
  /\ step = "monitor"
  /\ ~g_running \/ (~bus /\ BusFree)
  /\ step' = "destroy"
  /\ UNCHANGED <<program, asked, got, todo, threadVars, maps_mutex, registered, promises,
                 mirror, g_running, delay, world, failures, missed, late>>

(* isConnectionAlive() may also fail because the answer takes too long.    *)
isConnectionAlive ==
  /\ step = "monitor" /\ bus /\ BusFree
  /\ step' = "destroy"
  /\ UNCHANGED <<program, asked, got, todo, threadVars, maps_mutex, registered, promises,
                 mirror, g_running, delay, world, failures, missed, late>>

-----------------------------------------------------------------------------
(* The event thread.  A reply is for a promise; a signal is for the        *)
(* client's handler, which in the ConnMan client locks the maps.           *)
Takes ==
  /\ thread = "idle" /\ step # "terminated" /\ queue # <<>>
  /\ queue' = Tail(queue)
  /\ \/ /\ Head(queue).type = "reply" /\ promises' = promises - 1
        /\ UNCHANGED threadVars
     \/ /\ Head(queue).type = "signal" /\ registered
        /\ message' = Head(queue)
        /\ thread' = IF program = "connman" THEN "waits" ELSE "handles"
        /\ UNCHANGED promises
     \/ /\ Head(queue).type = "signal" /\ ~registered
        /\ UNCHANGED <<threadVars, promises>>
  /\ UNCHANGED <<program, mainVars, maps_mutex, registered, mirror, g_running, delay, calls,
                 present, bus, events, failures, missed, late>>

HandlerLocks ==
  /\ thread = "waits" /\ maps_mutex = "none"
  /\ maps_mutex' = "event" /\ thread' = "handles"
  /\ UNCHANGED <<program, mainVars, message, registered, promises, mirror, g_running, delay,
                 world, failures, missed, late>>

(* onTechnologyAdded, onTechnologyRemoved and onServicesChanged: a client  *)
(* for each added object that has none, then the removals.  A client whose *)
(* constructor throws ends the handler; what comes after it is skipped.    *)
onTechnologyAdded(add, del) ==
  /\ add # {} /\ add \subseteq Technologies
  /\ \/ /\ bus \/ add \subseteq mirror
        /\ mirror' = mirror \cup add /\ missed' = missed \ add
     \/ ~(add \subseteq mirror) /\ UNCHANGED mirror /\ missed' = missed \cup add

onTechnologyRemoved(add, del) ==
  /\ add = {} /\ del # {} /\ del \subseteq Technologies
  /\ mirror' = mirror \ del /\ missed' = missed \ del

onServicesChanged(add, del) ==
  /\ add \cup del \subseteq Services
  /\ \/ /\ bus \/ add \subseteq mirror
        /\ mirror' = (mirror \cup add) \ del /\ missed' = missed \ (add \cup del)
     \/ \E made \in SUBSET (add \ mirror) :
          /\ made # add \ mirror
          /\ mirror' = mirror \cup made
          /\ missed' = (missed \ made) \cup (add \ (mirror \cup made)) \cup del

(* Mutant: a handler that throws leaves the mutex locked.                  *)
HandlerReturnsLocked ==
  /\ thread = "handles" /\ step # "terminated"
  /\ \/ /\ program = "connman"
        /\ \/ onTechnologyAdded(message.add, message.del)
           \/ onTechnologyRemoved(message.add, message.del)
           \/ onServicesChanged(message.add, message.del)
     \/ program # "connman" /\ UNCHANGED <<mirror, missed>>
  /\ thread' = "idle" /\ message' = NoMessage
  /\ maps_mutex' = IF maps_mutex = "event" /\ missed' = missed THEN "none" ELSE maps_mutex
  /\ UNCHANGED <<program, mainVars, registered, promises, g_running, delay, world, failures,
                 late>>

HandlerReturns ==
  /\ thread = "handles" /\ step # "terminated"
  /\ \/ /\ program = "connman"
        /\ \/ onTechnologyAdded(message.add, message.del)
           \/ onTechnologyRemoved(message.add, message.del)
           \/ onServicesChanged(message.add, message.del)
     \/ program # "connman" /\ UNCHANGED <<mirror, missed>>
  /\ thread' = "idle" /\ message' = NoMessage
  /\ maps_mutex' = IF maps_mutex = "event" THEN "none" ELSE maps_mutex
  /\ UNCHANGED <<program, mainVars, registered, promises, g_running, delay, world, failures,
                 late>>

-----------------------------------------------------------------------------
(* SIGINT or SIGTERM, at any moment.                                       *)
signalHandler ==
  /\ program = "connman" /\ g_running
  /\ g_running' = FALSE
  /\ UNCHANGED <<program, mainVars, threadVars, maps_mutex, registered, promises, mirror,
                 delay, world, failures, missed, late>>

Event == events < MaxEvents /\ events' = events + 1

(* The bus forwards a signal to a connection that has a matching proxy.    *)
Emit(add, del) ==
  queue' = IF registered /\ bus
             THEN Append(queue, [type |-> "signal", add |-> add, del |-> del]) ELSE queue

(* Any other service: its properties change.                               *)
ServiceChanges ==
  /\ program # "connman" /\ Event /\ Emit({}, {})
  /\ UNCHANGED <<program, mainVars, threadVars, maps_mutex, registered, promises, mirror,
                 g_running, delay, calls, present, bus, failures, missed, late>>

TechnologyChanges(t) ==
  /\ program = "connman" /\ Event
  /\ \/ t \notin present /\ present' = present \cup {t} /\ Emit({t}, {})
     \/ t \in present /\ present' = present \ {t} /\ Emit({}, {t})
  /\ UNCHANGED <<program, mainVars, threadVars, maps_mutex, registered, promises, mirror,
                 g_running, delay, calls, bus, failures, missed, late>>

(* The signal lists the services there are and those that have gone.       *)
ServicesChange(now) ==
  /\ program = "connman" /\ Event
  /\ now # present \cap Services
  /\ present' = (present \cap Technologies) \cup now
  /\ Emit(now, (present \cap Services) \ now)
  /\ UNCHANGED <<program, mainVars, threadVars, maps_mutex, registered, promises, mirror,
                 g_running, delay, calls, bus, failures, missed, late>>

BusLost ==
  /\ Event /\ bus /\ bus' = FALSE
  /\ UNCHANGED <<program, mainVars, threadVars, maps_mutex, registered, promises, mirror,
                 g_running, delay, queue, calls, present, failures, missed, late>>

(* Every asynchronous call gets an answer or an error in the end; the      *)
(* error may be a timeout and needs no bus.                                *)
Answer ==
  /\ calls > 0 /\ thread # "off"
  /\ calls' = calls - 1
  /\ queue' = Append(queue, [type |-> "reply", add |-> {}, del |-> {}])
  /\ UNCHANGED <<program, mainVars, threadVars, maps_mutex, registered, promises, mirror,
                 g_running, delay, present, bus, events, failures, missed, late>>

-----------------------------------------------------------------------------
Main ==
  \/ Connect \/ Register \/ Call \/ Ask \/ Await \/ Use \/ Forget \/ Destroy \/ Leave
  \/ TestRunning \/ Sleep \/ Lock \/ GetTechnologies \/ GetServices \/ Create \/ Created
  \/ Built \/ MonitorLoop

EventThread == Takes \/ HandlerLocks \/ HandlerReturns

Outside ==
  \/ signalHandler \/ ServiceChanges \/ BusLost
  \/ \E t \in Technologies : TechnologyChanges(t)
  \/ \E now \in SUBSET Services : ServicesChange(now)

Next == Main \/ isConnectionAlive \/ EventThread \/ Answer \/ Outside

Spec == Init /\ [][Next]_vars

(* Both threads run, and every call is answered.  Nobody has to send a     *)
(* signal, and nothing has to fail.                                        *)
FairSpec == Spec /\ WF_vars(Main) /\ WF_vars(EventThread) /\ WF_vars(Answer)

-----------------------------------------------------------------------------
Steps == {"test", "connect", "register", "lock", "technologies", "create_technologies",
          "services", "create_services", "monitor", "call", "ask", "await", "use", "forget",
          "destroy", "unwind", "leave", "retry", "sleep", "done", "terminated"}

TypeOK ==
  /\ program \in Programs /\ step \in Steps
  /\ asked \in Nat /\ got \in Nat /\ todo \subseteq Objects
  /\ thread \in {"off", "idle", "waits", "handles"}
  /\ message \in Messages \cup {NoMessage}
  /\ maps_mutex \in {"none", "main", "event"}
  /\ registered \in BOOLEAN /\ g_running \in BOOLEAN /\ bus \in BOOLEAN
  /\ promises \in Int /\ calls \in Nat
  /\ mirror \subseteq Objects /\ present \subseteq Objects /\ missed \subseteq Objects
  /\ delay \in InitialDelay..MaxDelay /\ failures \in Nat /\ late \in Nat
  /\ queue \in Seq(Messages) /\ events \in 0..MaxEvents

(* Main is in the body of the ConnMan client's constructor.                *)
Loading == {"technologies", "create_technologies", "services", "create_services"}

(* The threads keep out of each other's way: a handler runs only as long   *)
(* as its client exists (also when the constructor throws, and when a lost *)
(* connection is replaced), never in the maps while the constructor fills  *)
(* them, and the event thread has ended when main returns.                 *)
ThreadsApart ==
  /\ thread \in {"waits", "handles"} => registered
  /\ ~(thread = "handles" /\ program = "connman" /\ step \in Loading)
  /\ step = "done" => thread = "off" /\ ~registered

(* A reply to GetAllAsync() that is still to come finds its promise: main  *)
(* does not leave the block that holds it before, not on an error either.  *)
Replies == {i \in 1..Len(queue) : queue[i].type = "reply"}

PromiseAlive == calls + Cardinality(Replies) <= promises

(* While the ConnMan client monitors and nothing is left to handle, its    *)
(* maps are ConnMan's technologies and services, however these changed     *)
(* while the constructor asked for them; only what a handler that threw    *)
(* did not get to is missing or left over.                                 *)
MirrorComplete ==
  step = "monitor" /\ bus /\ queue = <<>> /\ thread = "idle" =>
    (mirror \ present) \cup (present \ mirror) \subseteq missed

(* The delay is the initial one doubled for every attempt since a client   *)
(* was last built, up to the maximum; and after the signal the program     *)
(* connects at most once more (when it had tested g_running before).       *)
Retries ==
  /\ delay = LET d == InitialDelay * 2^failures IN IF d < MaxDelay THEN d ELSE MaxDelay
  /\ late <= 1

(* Each thread holds the lock the other one waits for.                     *)
Crossed == thread = "waits" /\ maps_mutex = "main"

(* A program that asks once ends; the ConnMan monitor ends after a signal, *)
(* unless the constructor and a handler have locked each other out.        *)
Ends ==
  (program # "connman" \/ ~g_running) ~> (step \in {"done", "terminated"} \/ Crossed)

(* A lost connection is noticed and given up.                              *)
LossNoticed == (step = "monitor" /\ ~bus) ~> (step # "monitor")

(* The signal handler triggers a graceful shutdown: what                   *)
(* utils/signal_handler.h says of g_running.                               *)
GracefulShutdown == (program = "connman" /\ ~g_running) ~> (step = "done")
=============================================================================
