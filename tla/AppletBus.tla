------------------------------ MODULE AppletBus ------------------------------
(***************************************************************************)
(* applet-dbus-manager.c: the applet's connections to the two buses.  On   *)
(* the session bus its name makes it the only applet of the session; on    *)
(* the system bus the same name offers the user's settings.  Both names    *)
(* are requested at the start and again by a timer after a bus was lost.   *)
(*                                                                         *)
(* A step is a stretch of the start or of the timer between two blocking   *)
(* calls to a bus; the rest runs from the main loop.  A connection is      *)
(* "dead" from the loss of its bus until its "destroy" signal is emitted.  *)
(***************************************************************************)
EXTENDS Naturals, FiniteSets

CONSTANTS
    Applet,    \* bm-applet processes of one session
    Other,     \* an applet of another session, on the system bus only
    NoOwner,   \* neither an applet nor Other
    MaxDowns,  \* bound: losses of a bus
    MaxStarts  \* bound: processes started

VARIABLES
    up,       \* the buses that run
    owner,    \* owner of org.freedesktop.BarcodeManagerUserSettings on each bus
    conn,     \* g_connection and session_g_connection: "none", "live" or "dead"
    started,  \* priv->started
    source,   \* the main loop has the source of reconnect_cb
    reconId,  \* priv->recon_id is not 0
    at,       \* where each process is
    late,     \* history: the timer has once found something still missing
    downs, starts

busVars == <<up, owner, downs>>
vars == <<busVars, conn, started, source, reconId, at, late, starts>>

Bus == {"system", "session"}

Init ==
    /\ up \in SUBSET Bus
    /\ owner = [b \in Bus |-> NoOwner]
    /\ conn = [a \in Applet |-> [b \in Bus |-> "none"]]
    /\ started = [a \in Applet |-> FALSE]
    /\ source = [a \in Applet |-> FALSE]
    /\ reconId = [a \in Applet |-> FALSE]
    /\ at = [a \in Applet |-> "off"]
    /\ late = [a \in Applet |-> FALSE]
    /\ downs = 0
    /\ starts = 0

Goto(a, place) == at' = [at EXCEPT ![a] = place]
SetConn(a, b, c) == conn' = [conn EXCEPT ![a][b] = c]

-----------------------------------------------------------------------------
(* The buses and the other sessions *)

BusDown(b) ==
    /\ b \in up
    /\ downs < MaxDowns
    /\ up' = up \ {b}
    /\ owner' = [owner EXCEPT ![b] = NoOwner]
    /\ conn' = [a \in Applet |->
                   [conn[a] EXCEPT ![b] = IF @ = "live" THEN "dead" ELSE @]]
    /\ downs' = downs + 1
    /\ UNCHANGED <<started, source, reconId, at, late, starts>>

BusUp(b) ==
    /\ b \notin up
    /\ up' = up \union {b}
    /\ UNCHANGED <<owner, downs, conn, started, source, reconId, at, late, starts>>

OtherApplet ==
    /\ "system" \in up
    /\ \/ owner["system"] = NoOwner /\ owner' = [owner EXCEPT !["system"] = Other]
       \/ owner["system"] = Other /\ owner' = [owner EXCEPT !["system"] = NoOwner]
    /\ UNCHANGED <<up, downs, conn, started, source, reconId, at, late, starts>>

-----------------------------------------------------------------------------
(* The parts of the manager *)

(* The process ends, by the user or by exit-now, and all it had goes with it. *)
Exit(a) ==
    /\ Goto(a, "off")
    /\ owner' = [b \in Bus |-> IF owner[b] = a THEN NoOwner ELSE owner[b]]
    /\ conn' = [conn EXCEPT ![a] = [b \in Bus |-> "none"]]
    /\ started' = [started EXCEPT ![a] = FALSE]
    /\ source' = [source EXCEPT ![a] = FALSE]
    /\ reconId' = [reconId EXCEPT ![a] = FALSE]
    /\ late' = [late EXCEPT ![a] = FALSE]

(* bus_init() as system_bus_init() and session_bus_init() call it *)
BusInit(a, b) == SetConn(a, b, IF b \in up THEN "live" ELSE "none")

CanRequest(a, b) == conn[a][b] = "live" /\ owner[b] = NoOwner
RequestName(a, b) == owner' = [owner EXCEPT ![b] = a]

SystemCleanup(a) ==
    /\ SetConn(a, "system", "none")
    /\ started' = [started EXCEPT ![a] = FALSE]

StartReconnectionTimeout(a) ==
    IF reconId[a] THEN UNCHANGED <<source, reconId>>
    ELSE /\ source' = [source EXCEPT ![a] = TRUE]
         /\ reconId' = [reconId EXCEPT ![a] = TRUE]

-----------------------------------------------------------------------------
(* applet_dbus_manager_get() and the constructor of the applet *)

Start(a) ==
    /\ at[a] = "off"
    /\ starts < MaxStarts
    /\ starts' = starts + 1
    /\ BusInit(a, "session")
    /\ IF "session" \in up
       THEN Goto(a, "startSession") /\ UNCHANGED <<source, reconId>>
       ELSE Goto(a, "startSystem") /\ StartReconnectionTimeout(a)
    /\ UNCHANGED <<busVars, started, late>>

StartSessionBusService(a) ==
    /\ at[a] = "startSession"
    /\ \/ /\ CanRequest(a, "session")
          /\ RequestName(a, "session")
          /\ Goto(a, "startSystem")
          /\ UNCHANGED <<conn, started, source, reconId, late>>
       \/ ~CanRequest(a, "session") /\ Exit(a)
    /\ UNCHANGED <<up, downs, starts>>

StartSystemBus(a) ==
    /\ at[a] = "startSystem"
    /\ BusInit(a, "system")
    /\ Goto(a, "startService")
    /\ IF "system" \in up THEN UNCHANGED <<source, reconId>> ELSE StartReconnectionTimeout(a)
    /\ UNCHANGED <<busVars, started, late, starts>>

(* applet_dbus_manager_start_service(): the applet gives up without the name. *)
StartService(a) ==
    /\ at[a] = "startService"
    /\ \/ /\ CanRequest(a, "system")
          /\ RequestName(a, "system")
          /\ started' = [started EXCEPT ![a] = TRUE]
          /\ Goto(a, "loop")
          /\ UNCHANGED <<conn, source, reconId, late>>
       \/ ~CanRequest(a, "system") /\ Exit(a)
    /\ UNCHANGED <<up, downs, starts>>

-----------------------------------------------------------------------------
(* The main loop *)

Quit(a) == at[a] = "loop" /\ Exit(a) /\ UNCHANGED <<up, downs, starts>>

SystemBusDestroyed(a) ==
    /\ at[a] = "loop" /\ conn[a]["system"] = "dead"
    /\ SystemCleanup(a)
    /\ StartReconnectionTimeout(a)
    /\ UNCHANGED <<busVars, at, late, starts>>

SessionBusDestroyed(a) ==
    /\ at[a] = "loop" /\ conn[a]["session"] = "dead"
    /\ SetConn(a, "session", "none")
    /\ StartReconnectionTimeout(a)
    /\ UNCHANGED <<busVars, started, at, late, starts>>

-----------------------------------------------------------------------------
(* reconnect_cb() *)

ReconnectSystem(a) ==
    /\ at[a] = "loop" /\ source[a]
    /\ \/ /\ conn[a]["system"] # "none"
          /\ Goto(a, "session") /\ UNCHANGED conn
       \/ /\ conn[a]["system"] = "none"
          /\ BusInit(a, "system")
          /\ Goto(a, IF "system" \in up THEN "systemName" ELSE "session")
    /\ UNCHANGED <<busVars, started, source, reconId, late, starts>>

(* start_service(), and a second system_bus_cleanup() when it failed *)
ReconnectService(a) ==
    /\ at[a] = "systemName"
    /\ \/ started[a] /\ UNCHANGED <<owner, conn, started>>
       \/ /\ ~started[a] /\ CanRequest(a, "system")
          /\ RequestName(a, "system")
          /\ started' = [started EXCEPT ![a] = TRUE]
          /\ UNCHANGED conn
       \/ ~started[a] /\ ~CanRequest(a, "system") /\ SystemCleanup(a) /\ UNCHANGED owner
    /\ Goto(a, "session")
    /\ UNCHANGED <<up, downs, source, reconId, late, starts>>

ReconnectSession(a) ==
    /\ at[a] = "session"
    /\ \/ conn[a]["session"] # "none" /\ Goto(a, "return") /\ UNCHANGED conn
       \/ /\ conn[a]["session"] = "none"
          /\ BusInit(a, "session")
          /\ Goto(a, IF "session" \in up THEN "sessionName" ELSE "return")
    /\ UNCHANGED <<busVars, started, source, reconId, late, starts>>

ReconnectSessionName(a) ==
    /\ at[a] = "sessionName"
    /\ \/ /\ CanRequest(a, "session")
          /\ RequestName(a, "session")
          /\ Goto(a, "return")
          /\ UNCHANGED <<conn, started, source, reconId, late>>
       \/ ~CanRequest(a, "session") /\ Exit(a)
    /\ UNCHANGED <<up, downs, starts>>

(* Mutant of ReconnectReturn: the timer always stops. *)
ReconnectReturnStops(a) ==
    /\ at[a] = "return"
    /\ Goto(a, "loop")
    /\ source' = [source EXCEPT ![a] = FALSE]
    /\ late' = [late EXCEPT ![a] = @ \/ \E b \in Bus : conn[a][b] = "none"]
    /\ UNCHANGED <<busVars, conn, started, reconId, starts>>

(* i < 2 ? FALSE : TRUE, the reverse of the comment above it: the timer stops *)
(* when a connection is missing, recon_id stays set, and no other is started. *)
ReconnectReturn(a) ==
    /\ at[a] = "return"
    /\ Goto(a, "loop")
    /\ LET both == \A b \in Bus : conn[a][b] # "none"
       IN /\ source' = [source EXCEPT ![a] = both]
          /\ late' = [late EXCEPT ![a] = @ \/ ~both]
    /\ UNCHANGED <<busVars, conn, started, reconId, starts>>

-----------------------------------------------------------------------------

Step(a) ==
    \/ StartSessionBusService(a) \/ StartSystemBus(a) \/ StartService(a)
    \/ SystemBusDestroyed(a) \/ SessionBusDestroyed(a)
    \/ ReconnectSystem(a) \/ ReconnectService(a)
    \/ ReconnectSession(a) \/ ReconnectSessionName(a) \/ ReconnectReturn(a)

Environment ==
    \/ \E b \in Bus : BusDown(b) \/ BusUp(b)
    \/ OtherApplet
    \/ \E a \in Applet : Start(a) \/ Quit(a)

Next == Environment \/ \E a \in Applet : Step(a)

Spec == Init /\ [][Next]_vars

(* A process runs its handlers, and the timer, which comes again and again,  *)
(* does not starve the "destroy" of a connection.                            *)
Fairness ==
    \A a \in Applet :
        /\ WF_vars(Step(a))
        /\ SF_vars(SystemBusDestroyed(a))
        /\ SF_vars(SessionBusDestroyed(a))

-----------------------------------------------------------------------------
(* Properties *)

(* "session bus service - to enforce single-applet-per-session; this service  *)
(* *must* be claimed" and "system bus service - to provide settings": in the  *)
(* main loop, a connection to a bus that runs comes with the name on it, so   *)
(* no two applets of a session share it, however often the buses restart.     *)
LiveOwnsName ==
    \A a \in Applet, b \in Bus :
        at[a] = "loop" /\ conn[a][b] = "live" => owner[b] = a

(* A lost bus is joined again, every time, unless the applet ended or its     *)
(* timer once fired while a bus was away or the name was taken (after which   *)
(* this code never tries again).                                              *)
ComesBack ==
    \A a \in Applet, b \in Bus :
        at[a] = "loop" /\ conn[a][b] # "live"
            ~> conn[a][b] = "live" \/ at[a] = "off" \/ late[a]
=============================================================================
