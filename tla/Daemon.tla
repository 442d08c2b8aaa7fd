------------------------------- MODULE Daemon -------------------------------
(***************************************************************************)
(* The life of the BarcodeManager process: main.c from the pid file check  *)
(* to the exit, and BMDBusManager (bm-dbus-manager.c), which claims the    *)
(* daemon's two bus names and reconnects when the system bus goes away.    *)
(*                                                                         *)
(* Several processes may be started on one machine; they share the pid     *)
(* file and the system bus.  Up to g_main_loop_run() each step is a        *)
(* stretch of main() that signals and other processes can come between;    *)
(* from there on a step is one callback.  A process is named by its pid.   *)
(***************************************************************************)
EXTENDS Naturals

CONSTANTS
    Process,        \* pids of the processes ever started
    Checkable,      \* the pids check_pidfile() accepts: at most 65536
    Nobody,         \* no process: an empty pid file, a free bus name
    Foreigner,      \* another program that may own the system settings name
    ForeignerComes, \* whether it ever does
    MaxOutages      \* bound: how often the bus stops

ASSUME DaemonAssumption ==
    /\ Checkable \subseteq Process
    /\ {Nobody, Foreigner} \cap Process = {}
    /\ Nobody # Foreigner
    /\ ForeignerComes \in BOOLEAN
    /\ MaxOutages \in Nat

VARIABLES
    busUp,      \* the system bus runs
    outages,    \* how often it has stopped
    names,      \* who owns each bus name
    pidfile,    \* the pid in the pid file
    pc,         \* how far main() has come
    wrote,      \* wrote_pidfile
    quitEarly,  \* quit_early
    asked,      \* processes sent SIGTERM while they handle it: one each is the bound
    abnormal,   \* history: processes that ended without reaching "done"
    link,       \* libdbus's shared connection of the process is connected
    exported,   \* the manager object is registered on that connection
    conn,       \* priv->connection is set
    started,    \* priv->started
    timer       \* priv->reconnect_id is set

busVars  == <<busUp, outages, names>>
mainVars == <<pidfile, pc, wrote, quitEarly, asked, abnormal>>
dbusVars == <<link, exported, conn, started, timer>>
vars     == <<busUp, outages, names, pidfile, pc, wrote, quitEarly, asked, abnormal,
              link, exported, conn, started, timer>>

Service        == "org.freedesktop.BarcodeManager"
SystemSettings == "org.freedesktop.BarcodeManagerSystemSettings"
Names          == {Service, SystemSettings}

(* main() up to its signal handlers: the pid file, the files it reads, the    *)
(* fork, the threads and GLib's types.                                        *)
Preparing == {"checked", "daemonized"}

(* setup_signals() has been called: SIGTERM is handled. *)
Handling == {"connected", "built", "serving", "entering", "loop", "done"}

Stages == {"off", "exited"} \union Preparing \union Handling

Alive(p) == pc[p] \notin {"off", "exited"}

Init ==
    /\ busUp = TRUE
    /\ outages = 0
    /\ names = [n \in Names |-> Nobody]
    /\ pidfile = Nobody
    /\ pc = [p \in Process |-> "off"]
    /\ wrote = [p \in Process |-> FALSE]
    /\ quitEarly = [p \in Process |-> FALSE]
    /\ asked = {}
    /\ abnormal = {}
    /\ link = [p \in Process |-> FALSE]
    /\ exported = [p \in Process |-> FALSE]
    /\ conn = [p \in Process |-> FALSE]
    /\ started = [p \in Process |-> FALSE]
    /\ timer = [p \in Process |-> FALSE]

GoTo(p, stage) == pc' = [pc EXCEPT ![p] = stage]

-----------------------------------------------------------------------------
(* The bus *)

BusStops ==
    /\ busUp
    /\ outages < MaxOutages
    /\ busUp' = FALSE
    /\ outages' = outages + 1
    /\ names' = [n \in Names |-> Nobody]
    /\ link' = [p \in Process |-> FALSE]
    /\ exported' = [p \in Process |-> FALSE]
    /\ UNCHANGED <<mainVars, conn, started, timer>>

BusStarts ==
    /\ ~busUp
    /\ busUp' = TRUE
    /\ UNCHANGED <<outages, names, mainVars, dbusVars>>

ForeignerClaims ==
    /\ ForeignerComes
    /\ busUp
    /\ names[SystemSettings] = Nobody
    /\ names' = [names EXCEPT ![SystemSettings] = Foreigner]
    /\ UNCHANGED <<busUp, outages, mainVars, dbusVars>>

ForeignerLeaves ==
    /\ names[SystemSettings] = Foreigner
    /\ names' = [names EXCEPT ![SystemSettings] = Nobody]
    /\ UNCHANGED <<busUp, outages, mainVars, dbusVars>>

(* The kernel closes what a process leaves open, the bus frees its names. *)
Gone(p) ==
    /\ GoTo(p, "exited")
    /\ link' = [link EXCEPT ![p] = FALSE]
    /\ exported' = [exported EXCEPT ![p] = FALSE]
    /\ names' = [n \in Names |-> IF names[n] = p THEN Nobody ELSE names[n]]
    /\ UNCHANGED <<busUp, outages, conn, started, timer>>

-----------------------------------------------------------------------------
(* BMDBusManager *)

(* bm_dbus_manager_start_service asks for both names, one after the other,   *)
(* each refused unless it was free.  It succeeds with both; the first stays  *)
(* taken when the second is refused.                                         *)
NamesAcquired(p) ==
    IF started[p] \/ names[Service] # Nobody THEN {}
    ELSE {n \in Names : names[n] = Nobody}

(* Mutant of StartedWith: the reply to the second RequestName is not read. *)
StartedWithFirst(acquired) == Service \in acquired

StartedWith(acquired) == acquired = Names

TakeNames(p, acquired) == names' = [n \in Names |-> IF n \in acquired THEN p ELSE names[n]]

(* destroy_cb, when the bus's proxy is gone: bm_dbus_manager_cleanup, and    *)
(* start_reconnection_timeout for an attempt every three seconds.            *)
ProxyDestroyed(p) ==
    /\ pc[p] = "loop"
    /\ conn[p]
    /\ ~link[p]
    /\ conn' = [conn EXCEPT ![p] = FALSE]
    /\ started' = [started EXCEPT ![p] = FALSE]
    /\ timer' = [timer EXCEPT ![p] = TRUE]
    /\ UNCHANGED <<busVars, mainVars, link, exported>>

(* Mutant of Reconnect: a failed attempt is the last one. *)
ReconnectOnce(p) ==
    /\ pc[p] = "loop" /\ timer[p] /\ busUp
    /\ LET acquired == NamesAcquired(p)
       IN  /\ TakeNames(p, acquired)
           /\ conn' = [conn EXCEPT ![p] = StartedWith(acquired)]
           /\ started' = [started EXCEPT ![p] = StartedWith(acquired)]
    /\ timer' = [timer EXCEPT ![p] = FALSE]
    /\ link' = [link EXCEPT ![p] = TRUE]
    /\ UNCHANGED <<busUp, outages, mainVars, exported>>

(* Mutant of Reconnect: a failed attempt keeps its connection, which makes   *)
(* bm_dbus_manager_init_bus refuse the next one.                             *)
ReconnectUncleaned(p) ==
    /\ pc[p] = "loop" /\ timer[p] /\ busUp /\ ~conn[p]
    /\ LET acquired == NamesAcquired(p)
       IN  /\ TakeNames(p, acquired)
           /\ started' = [started EXCEPT ![p] = StartedWith(acquired)]
           /\ timer' = [timer EXCEPT ![p] = ~StartedWith(acquired)]
    /\ conn' = [conn EXCEPT ![p] = TRUE]
    /\ link' = [link EXCEPT ![p] = TRUE]
    /\ UNCHANGED <<busUp, outages, mainVars, exported>>

(* bm_dbus_manager_reconnect, init_bus and start_service.  While the bus is  *)
(* down nothing changes.  A failure drops priv->connection again, but not    *)
(* libdbus's shared connection and the names it may have got by then; the    *)
(* unreferenced proxy runs destroy_cb, which schedules the next attempt.     *)
Reconnect(p) ==
    /\ pc[p] = "loop"
    /\ timer[p]
    /\ busUp
    /\ link' = [link EXCEPT ![p] = TRUE]
    /\ LET acquired == NamesAcquired(p)
       IN  /\ TakeNames(p, acquired)
           /\ conn' = [conn EXCEPT ![p] = StartedWith(acquired)]
           /\ started' = [started EXCEPT ![p] = StartedWith(acquired)]
           /\ timer' = [timer EXCEPT ![p] = ~StartedWith(acquired)]
    /\ UNCHANGED <<busUp, outages, mainVars, exported>>

-----------------------------------------------------------------------------
(* main() *)

(* check_pidfile: exit(1) when the file names a live BarcodeManager whose pid *)
(* it accepts; a dead pid, or a big one, is ignored.                          *)
CheckPidfile(p) ==
    /\ pc[p] = "off"
    /\ GoTo(p, IF pidfile \in Checkable /\ Alive(pidfile) THEN "exited" ELSE "checked")
    /\ UNCHANGED <<busVars, dbusVars, pidfile, wrote, quitEarly, asked, abnormal>>

(* write_pidfile may fail, before the file is open or with it truncated. *)
WritePidfile(p) ==
    \/ UNCHANGED <<pidfile, wrote>>
    \/ pidfile' = p /\ wrote' = [wrote EXCEPT ![p] = TRUE]
    \/ pidfile' = Nobody /\ UNCHANGED wrote

(* daemon(), then the pid file, unless --no-daemon is given. *)
Daemonize(p) ==
    /\ pc[p] = "checked"
    /\ GoTo(p, "daemonized")
    /\ WritePidfile(p)
    /\ UNCHANGED <<busVars, dbusVars, quitEarly, asked, abnormal>>

(* setup_signals and bm_dbus_manager_get.  Without a bus bm_manager_get()    *)
(* asserts, and the handler of SIGABRT exits.                                *)
ConnectBus(p) ==
    /\ pc[p] = "daemonized"
    /\ busUp
    /\ GoTo(p, "connected")
    /\ link' = [link EXCEPT ![p] = TRUE]
    /\ conn' = [conn EXCEPT ![p] = TRUE]
    /\ UNCHANGED <<busVars, pidfile, wrote, quitEarly, asked, abnormal, exported, started, timer>>

AbortWithoutBus(p) ==
    /\ pc[p] = "daemonized"
    /\ ~busUp
    /\ Gone(p)
    /\ abnormal' = abnormal \union {p}
    /\ UNCHANGED <<pidfile, wrote, quitEarly, asked>>

(* bm_manager_get: the manager is registered on the connection of the moment, *)
(* or the system settings fail to load.                                       *)
GetManager(p) ==
    /\ pc[p] = "connected"
    /\ \/ GoTo(p, "built") /\ exported' = [exported EXCEPT ![p] = link[p]]
       \/ GoTo(p, "done") /\ UNCHANGED exported
    /\ UNCHANGED <<busVars, pidfile, wrote, quitEarly, asked, abnormal, link, conn, started, timer>>

(* bm_dbus_manager_start_service, then bm_manager_start. *)
StartService(p) ==
    /\ pc[p] = "built"
    /\ LET acquired == IF link[p] THEN NamesAcquired(p) ELSE {}
       IN  /\ TakeNames(p, acquired)
           /\ started' = [started EXCEPT ![p] = StartedWith(acquired)]
           /\ GoTo(p, IF StartedWith(acquired) THEN "serving" ELSE "done")
    /\ UNCHANGED <<busUp, outages, pidfile, wrote, quitEarly, asked, abnormal,
                    link, exported, conn, timer>>

(* Mutant of CheckQuitEarly: the early request to quit is not looked at. *)
CheckQuitEarlyNever(p) ==
    /\ pc[p] = "serving"
    /\ GoTo(p, "entering")
    /\ UNCHANGED <<busVars, dbusVars, pidfile, wrote, quitEarly, asked, abnormal>>

(* "Told to quit before getting to the mainloop by the signal handler" *)
CheckQuitEarly(p) ==
    /\ pc[p] = "serving"
    /\ GoTo(p, IF quitEarly[p] THEN "done" ELSE "entering")
    /\ UNCHANGED <<busVars, dbusVars, pidfile, wrote, quitEarly, asked, abnormal>>

(* g_main_loop_run marks the loop as running, whatever was asked before. *)
EnterLoop(p) ==
    /\ pc[p] = "entering"
    /\ GoTo(p, "loop")
    /\ UNCHANGED <<busVars, dbusVars, pidfile, wrote, quitEarly, asked, abnormal>>

(* The end of main: the pid file goes if this process wrote it. *)
Finish(p) ==
    /\ pc[p] = "done"
    /\ Gone(p)
    /\ pidfile' = IF wrote[p] THEN Nobody ELSE pidfile
    /\ UNCHANGED <<wrote, quitEarly, asked, abnormal>>

(* Mutant of Terminate: the handler only notes the request. *)
TerminateLater(p) ==
    /\ pc[p] \in Handling
    /\ p \notin asked
    /\ asked' = asked \union {p}
    /\ quitEarly' = [quitEarly EXCEPT ![p] = TRUE]
    /\ UNCHANGED <<busVars, dbusVars, pidfile, pc, wrote, abnormal>>

(* bm_signal_handler for SIGTERM and SIGINT: g_main_loop_quit ends a running *)
(* loop only.                                                                *)
Terminate(p) ==
    /\ pc[p] \in Handling
    /\ p \notin asked
    /\ asked' = asked \union {p}
    /\ quitEarly' = [quitEarly EXCEPT ![p] = TRUE]
    /\ pc' = IF pc[p] = "loop" THEN [pc EXCEPT ![p] = "done"] ELSE pc
    /\ UNCHANGED <<busVars, dbusVars, pidfile, wrote, abnormal>>

(* A fatal signal, or SIGTERM before the handlers are set up. *)
Crash(p) ==
    /\ Alive(p)
    /\ Gone(p)
    /\ abnormal' = abnormal \union {p}
    /\ UNCHANGED <<pidfile, wrote, quitEarly, asked>>

-----------------------------------------------------------------------------

(* What main() and its loop do by themselves. *)
Advance(p) ==
    \/ Daemonize(p)
    \/ ConnectBus(p)
    \/ AbortWithoutBus(p)
    \/ GetManager(p)
    \/ StartService(p)
    \/ CheckQuitEarly(p)
    \/ EnterLoop(p)
    \/ Finish(p)
    \/ ProxyDestroyed(p)
    \/ Reconnect(p)

Environment ==
    \/ BusStops
    \/ BusStarts
    \/ ForeignerClaims
    \/ ForeignerLeaves
    \/ \E p \in Process : CheckPidfile(p) \/ Terminate(p) \/ Crash(p)

Next == Environment \/ \E p \in Process : Advance(p)

Spec == Init /\ [][Next]_vars

(* Processes run and their three-second timeout fires. *)
FairSpec == Spec /\ \A p \in Process : WF_vars(Advance(p))

-----------------------------------------------------------------------------
(* Properties *)

TypeOK ==
    /\ busUp \in BOOLEAN
    /\ outages \in 0 .. MaxOutages
    /\ names \in [Names -> Process \union {Nobody, Foreigner}]
    /\ pidfile \in Process \union {Nobody}
    /\ pc \in [Process -> Stages]
    /\ asked \subseteq Process
    /\ abnormal \subseteq Process
    /\ wrote \in [Process -> BOOLEAN]
    /\ quitEarly \in [Process -> BOOLEAN]
    /\ link \in [Process -> BOOLEAN]
    /\ exported \in [Process -> BOOLEAN]
    /\ conn \in [Process -> BOOLEAN]
    /\ started \in [Process -> BOOLEAN]
    /\ timer \in [Process -> BOOLEAN]

(* A process that believes its service started, over a connection that is up, *)
(* owns both names, whatever other processes and outages came before: two     *)
(* daemons never both serve.                                                  *)
ServingOwnsNames ==
    \A p \in Process : started[p] /\ link[p] => \A n \in Names : names[n] = p

(* In the main loop an attempt to reconnect is pending exactly while there is *)
(* no connection: none is forgotten and none drops a connection in use.       *)
RetryPending ==
    \A p \in Process : pc[p] = "loop" => (timer[p] <=> ~conn[p])

(* The pid file of a process that came to its proper end is gone. *)
PidfileOfTheLiving ==
    \A p \in Process : pidfile = p /\ pc[p] = "exited" => p \in abnormal

(* A request to quit is in the end obeyed: one that comes while main() still  *)
(* prepares, which quit_early keeps, and one that comes in the main loop,     *)
(* whatever the bus does meanwhile.  Between the check of quit_early and the  *)
(* loop (stage "entering") a request is lost.                                 *)
QuitObeyed ==
    \A p \in Process :
        /\ quitEarly[p] /\ pc[p] \in {"connected", "built", "serving"} ~> pc[p] = "exited"
        /\ [](pc[p] = "loop" /\ ~quitEarly[p] => [](quitEarly[p] => <>(pc[p] = "exited")))

(* The first attempt got only one of the two names: the bus then tells the    *)
(* daemon that it is already the owner, which every later attempt takes for   *)
(* a refusal.                                                                 *)
HalfNamed(p) == names[Service] = p /\ names[SystemSettings] # p

(* A daemon that lost the bus gets its names back once the bus is there and   *)
(* nobody else has taken one.  The exception is a daemon that is HalfNamed.   *)
Reconnects ==
    \A p \in Process :
        pc[p] = "loop" /\ busUp
            ~> \/ started[p] /\ conn[p] /\ link[p]
               \/ pc[p] # "loop"
               \/ ~busUp
               \/ HalfNamed(p)
               \/ \E n \in Names : names[n] \notin {Nobody, p}
=============================================================================
