------------------------------- MODULE OldApi -------------------------------
(***************************************************************************)
(* Two clients of the manager's old interface, the method `state` and the  *)
(* signals StateChange and StateChanged: libbm_glib.c, a library that      *)
(* follows the state in a thread of its own and tells registered           *)
(* callbacks in the program's thread, and bm-online.c, a program that      *)
(* waits until the manager is connected.                                   *)
(*                                                                         *)
(* The daemon is this repository's.  It has no method `state`, so that     *)
(* every call of it ends in an error; it sends StateChanged alone, which   *)
(* the library does not read; and no device of it is ever activated, so    *)
(* that it is never connected or connecting.  What the clients do with     *)
(* an answer, with a StateChange or with a connected manager is not        *)
(* reached and is left out: the library never learns the manager's state.  *)
(* A step of the worker thread is a handler of its main loop, or a part of *)
(* one between which the other thread may run.                             *)
(***************************************************************************)
EXTENDS Naturals, Sequences, FiniteSets

CONSTANTS
    Callback,    \* callbacks the program registers
    MaxEvents,   \* bound: starts, exits and state changes of the daemon
    MaxDowns     \* bound: losses of the bus

VARIABLES
    up,          \* the system bus runs
    daemon,      \* the manager's BMState, "none" without a manager
    inbox,       \* messages the bus has queued for each client
    calls,       \* calls of `state` the daemon has not answered
    events, downs

VARIABLES
    worker,      \* the thread of the library
    con,         \* ctx->dbus_con: "none", "live", or "dead" until Disconnected is read
    watcher,     \* ctx->dbus_watcher is not 0
    bmState,     \* ctx->bm_state
    running,     \* what g_main_loop_quit() clears
    program,     \* the program's thread
    registered,  \* ctx->callbacks
    pending,     \* callbacks with an idle source in the program's main context
    told,        \* history: callbacks that were called
    online       \* main() of bm-online, "waits" in its loop without a timer

busVars    == <<up, daemon, inbox, calls, events, downs>>
workerVars == <<worker, con, watcher, bmState>>
userVars   == <<program, registered, told>>
vars == <<busVars, workerVars, running, userVars, pending, online>>

Client == {"lib", "online"}

Init ==
    /\ up \in BOOLEAN
    /\ daemon = "none"
    /\ inbox = [c \in Client |-> <<>>]
    /\ calls = <<>>
    /\ events = 0 /\ downs = 0
    /\ worker = "off" /\ con = "none" /\ watcher = FALSE /\ bmState = "no dbus"
    /\ running = FALSE
    /\ program = "off" /\ registered = {} /\ told = {} /\ pending = {}
    /\ online = "off"

Listening(c) == IF c = "lib" THEN con = "live" ELSE online \in {"filter", "check", "loop", "waits"}

Tell(kind, value) ==
    [c \in Client |-> IF Listening(c) THEN Append(inbox[c], <<kind, value>>) ELSE inbox[c]]

-----------------------------------------------------------------------------
(* The bus and the daemon *)

(* bm_manager_init(): a manager starts disconnected. *)
DaemonStarts ==
    /\ up /\ daemon = "none" /\ events < MaxEvents
    /\ daemon' = "disconnected"
    /\ inbox' = Tell("owner", TRUE)
    /\ events' = events + 1
    /\ UNCHANGED <<up, calls, downs, workerVars, running, userVars, pending, online>>

(* The bus answers the calls of a daemon that is gone with an error. *)
DaemonExits ==
    /\ daemon # "none" /\ events < MaxEvents
    /\ daemon' = "none"
    /\ calls' = <<>>
    /\ inbox' = [c \in Client |->
                    IF Listening(c)
                    THEN Tell("owner", FALSE)[c] \o
                         [i \in 1 .. Cardinality({j \in DOMAIN calls : calls[j] = c}) |->
                             <<"reply", "error">>]
                    ELSE inbox[c]]
    /\ events' = events + 1
    /\ UNCHANGED <<up, downs, workerVars, running, userVars, pending, online>>

(* do_sleep_wake(): networking is disabled or enabled. *)
DaemonChanges ==
    /\ daemon # "none" /\ events < MaxEvents
    /\ daemon' = IF daemon = "asleep" THEN "disconnected" ELSE "asleep"
    /\ inbox' = Tell("StateChanged", daemon')
    /\ events' = events + 1
    /\ UNCHANGED <<up, calls, downs, workerVars, running, userVars, pending, online>>

(* dbus-glib: the interface has no such method. *)
DaemonAnswers ==
    /\ calls # <<>>
    /\ LET c == Head(calls) IN
       inbox' = IF Listening(c) THEN [inbox EXCEPT ![c] = Append(@, <<"reply", "error">>)] ELSE inbox
    /\ calls' = Tail(calls)
    /\ UNCHANGED <<up, daemon, events, downs, workerVars, running, userVars, pending, online>>

(* bm-online has not called dbus_connection_set_exit_on_disconnect(): it ends. *)
BusDown ==
    /\ up /\ downs < MaxDowns
    /\ up' = FALSE
    /\ daemon' = "none"
    /\ calls' = <<>>
    /\ inbox' = [inbox EXCEPT !["online"] = <<>>,
                              !["lib"] = IF con = "live" THEN Append(@, <<"lost", TRUE>>) ELSE @]
    /\ con' = IF con = "live" THEN "dead" ELSE con
    /\ online' = IF Listening("online") THEN "failed" ELSE online
    /\ downs' = downs + 1
    /\ UNCHANGED <<events, worker, watcher, bmState, running, userVars, pending>>

BusUp ==
    /\ ~up
    /\ up' = TRUE
    /\ UNCHANGED <<daemon, inbox, calls, events, downs, workerVars, running, userVars, pending, online>>

(* A call of `state`: the bus itself answers when nobody owns the name. *)
Call(c, queue) ==
    IF daemon = "none"
    THEN inbox' = [inbox EXCEPT ![c] = Append(queue, <<"reply", "error">>)] /\ UNCHANGED calls
    ELSE inbox' = [inbox EXCEPT ![c] = queue] /\ calls' = Append(calls, c)

-----------------------------------------------------------------------------
(* libbm_glib.c: the worker *)

(* libbm_glib_dbus_worker() up to thread_inited *)
WorkerStarts ==
    /\ worker = "created"
    /\ worker' = "inited"
    /\ \/ up /\ con' = "live" /\ Call("lib", <<>>) /\ UNCHANGED watcher
       \/ ~up /\ watcher' = TRUE /\ UNCHANGED <<con, inbox, calls>>
    /\ UNCHANGED <<up, daemon, events, downs, bmState, running, userVars, pending, online>>

(* g_main_loop_run() sets what an earlier g_main_loop_quit() cleared. *)
WorkerRuns ==
    /\ worker = "inited"
    /\ worker' = "loop"
    /\ running' = TRUE
    /\ UNCHANGED <<busVars, con, watcher, bmState, userVars, pending, online>>

WorkerEnds ==
    /\ worker = "loop" /\ ~running
    /\ worker' = "done"
    /\ UNCHANGED <<busVars, con, watcher, bmState, running, userVars, pending, online>>

Message == Head(inbox["lib"])
Reading(kind) == worker = "loop" /\ running /\ inbox["lib"] # <<>> /\ Message[1] = kind
Rest == Tail(inbox["lib"])
Drop == inbox' = [inbox EXCEPT !["lib"] = Rest]

(* libbm_glib_bm_state_cb() for an error, and libbm_glib_dbus_filter() for a *)
(* signal that is not one of its own.                                        *)
ReadOther ==
    /\ Reading("reply") \/ Reading("StateChanged")
    /\ Drop
    /\ UNCHANGED <<up, daemon, calls, events, downs, workerVars, running, userVars, pending, online>>

ReadOwner ==
    /\ Reading("owner")
    /\ IF Message[2] /\ con = "live"
       THEN Call("lib", Rest) /\ UNCHANGED bmState
       ELSE Drop /\ UNCHANGED calls /\ bmState' = IF Message[2] THEN bmState ELSE "no manager"
    /\ UNCHANGED <<up, daemon, events, downs, worker, con, watcher, running, userVars, pending, online>>

(* Disconnected: no callback is told of this or of the loss of the manager. *)
ReadDisconnected ==
    /\ Reading("lost")
    /\ bmState' = "no dbus"
    /\ con' = "none"
    /\ watcher' = TRUE
    /\ inbox' = [inbox EXCEPT !["lib"] = <<>>]
    /\ UNCHANGED <<up, daemon, calls, events, downs, worker, running, userVars, pending, online>>

(* Mutant of Watcher: an attempt that fails is the last one. *)
WatcherGivesUp ==
    /\ worker = "loop" /\ running /\ watcher
    /\ watcher' = FALSE
    /\ IF up THEN con' = "live" /\ Call("lib", <<>>) ELSE UNCHANGED <<con, inbox, calls>>
    /\ UNCHANGED <<up, daemon, events, downs, worker, bmState, running, userVars, pending, online>>

(* libbm_glib_dbus_watcher(): an attempt without a bus is repeated, later each *)
(* time; only the last is a step.                                             *)
Watcher ==
    /\ worker = "loop" /\ running /\ watcher
    /\ up
    /\ watcher' = FALSE
    /\ con' = "live"
    /\ Call("lib", <<>>)
    /\ UNCHANGED <<up, daemon, events, downs, worker, bmState, running, userVars, pending, online>>

-----------------------------------------------------------------------------
(* libbm_glib.c: the program's thread *)

LibInit ==
    /\ program = "off" /\ program' = "waiting"
    /\ worker' = "created"
    /\ UNCHANGED <<busVars, con, watcher, bmState, running, registered, told, pending, online>>

(* "Wait until initialization of the thread" *)
InitReturns ==
    /\ program = "waiting" /\ worker \in {"inited", "loop"}
    /\ program' = "ready"
    /\ UNCHANGED <<busVars, workerVars, running, registered, told, pending, online>>

Register(c) ==
    /\ program = "ready" /\ c \notin registered \union told
    /\ registered' = registered \union {c}
    /\ pending' = pending \union {c}
    /\ UNCHANGED <<busVars, workerVars, running, program, told, online>>

Unregister(c) ==
    /\ program = "ready" /\ c \in registered
    /\ registered' = registered \ {c}
    /\ pending' = pending \ {c}
    /\ UNCHANGED <<busVars, workerVars, running, program, told, online>>

(* After libbm_glib_shutdown() a source that is left has the freed callback. *)
CallbackHelper(c) ==
    /\ program \in {"ready", "over"} /\ c \in pending
    /\ pending' = pending \ {c}
    /\ \/ program = "ready" /\ told' = told \union {c} /\ UNCHANGED program
       \/ program = "over" /\ program' \in {"over", "crashed"} /\ UNCHANGED told
    /\ UNCHANGED <<busVars, workerVars, running, registered, online>>

(* Mutant of Shutdown: the main loop is not asked to end. *)
ShutdownNotAsked ==
    /\ program = "ready" /\ program' = "shutdown"
    /\ UNCHANGED <<busVars, workerVars, running, registered, told, pending, online>>

(* libbm_glib_shutdown(): a quit before the worker runs its loop is lost. *)
Shutdown ==
    /\ program = "ready" /\ program' = "shutdown"
    /\ running' = FALSE
    /\ UNCHANGED <<busVars, workerVars, registered, told, pending, online>>

(* libbm_glib_ctx_free() closes what connection there is. *)
ShutdownReturns ==
    /\ program = "shutdown" /\ worker = "done"
    /\ program' = "over"
    /\ con' = "none" /\ watcher' = FALSE
    /\ registered' = {}
    /\ inbox' = [inbox EXCEPT !["lib"] = <<>>]
    /\ UNCHANGED <<up, daemon, calls, events, downs, worker, bmState, running, told, pending, online>>

-----------------------------------------------------------------------------
(* bm-online.c *)

OnlineFilter ==
    /\ online = "off"
    /\ online' = IF up THEN "filter" ELSE "failed"
    /\ UNCHANGED <<busVars, workerVars, running, userVars, pending>>

OnlineAsks ==
    /\ online = "filter"
    /\ Call("online", inbox["online"])
    /\ online' = "check"
    /\ UNCHANGED <<up, daemon, events, downs, workerVars, running, userVars, pending>>

(* Mutant of OnlineChecked: only the message that is next is looked at. *)
OnlineCheckedInOrder ==
    /\ online = "check"
    /\ inbox["online"] # <<>> /\ Head(inbox["online"])[1] = "reply"
    /\ inbox' = [inbox EXCEPT !["online"] = Tail(@)]
    /\ online' \in {"failed", "loop", "waits"}
    /\ UNCHANGED <<up, daemon, calls, events, downs, workerVars, running, userVars, pending>>

(* check_online(): a blocking call; what else comes in waits.  The option   *)
(* --exit ends it, a timeout of 0 means no timer.                           *)
OnlineChecked ==
    /\ online = "check"
    /\ \E i \in DOMAIN inbox["online"] :
          /\ inbox["online"][i][1] = "reply"
          /\ inbox' = [inbox EXCEPT !["online"] =
                          SubSeq(@, 1, i - 1) \o SubSeq(@, i + 1, Len(@))]
    /\ online' \in {"failed", "loop", "waits"}
    /\ UNCHANGED <<up, daemon, calls, events, downs, workerVars, running, userVars, pending>>

(* dbus_filter(): no StateChanged of this manager says connected. *)
OnlineSignal ==
    /\ online \in {"loop", "waits"} /\ inbox["online"] # <<>>
    /\ inbox' = [inbox EXCEPT !["online"] = Tail(@)]
    /\ UNCHANGED <<up, daemon, calls, events, downs, workerVars, running, userVars, pending, online>>

(* handle_timeout() for the last second *)
OnlineTimeout ==
    /\ online = "loop"
    /\ online' = "failed"
    /\ UNCHANGED <<busVars, workerVars, running, userVars, pending>>

-----------------------------------------------------------------------------

Environment ==
    \/ DaemonStarts \/ DaemonExits \/ DaemonChanges \/ DaemonAnswers
    \/ BusDown \/ BusUp

Worker ==
    \/ WorkerStarts \/ WorkerRuns \/ WorkerEnds
    \/ ReadOther \/ ReadOwner \/ ReadDisconnected \/ Watcher

Program ==
    \/ LibInit \/ InitReturns \/ Shutdown \/ ShutdownReturns
    \/ \E c \in Callback : Register(c) \/ Unregister(c) \/ CallbackHelper(c)

Online == OnlineFilter \/ OnlineAsks \/ OnlineChecked \/ OnlineSignal \/ OnlineTimeout

Next == Environment \/ Worker \/ Program \/ Online

-----------------------------------------------------------------------------
(* Properties *)

(* The library is connected and waits for nothing. *)
LibQuiet ==
    /\ worker = "loop" /\ running
    /\ con = "live" /\ inbox["lib"] = <<>> /\ "lib" \notin {calls[i] : i \in DOMAIN calls}

(* "Repeatedly try to re-activate the connection to dbus": a library in its   *)
(* loop that finds no bus or loses it, with messages unread and its call out, *)
(* is connected to the bus that runs in the end and has asked and been        *)
(* answered, unless the bus is lost again or the library shut down.           *)
Reattaches == (worker = "loop" /\ running /\ up) ~> (LibQuiet \/ ~up \/ ~running)

(* libbm_glib_shutdown() returns whatever the worker waits for, provided the  *)
(* worker was in its loop: a quit that comes between thread_inited and        *)
(* g_main_loop_run() is lost and it waits for thread_done for ever.           *)
ShutdownEnds ==
    [](program = "ready" /\ worker = "loop"
           => [](program = "shutdown" => <>(program \in {"over", "crashed"})))

(* bm-online ends within its timeout, which is not 0, though the manager      *)
(* starts, exits and sends signals while it is asked.                         *)
OnlineEnds == (online = "filter") ~> (online \in {"failed", "waits"})
=============================================================================
