----------------------------- MODULE Dispatcher -----------------------------
(***************************************************************************)
(* bm-dispatcher-action.c: a service the bus starts for a call of Action   *)
(* and that ends ten seconds after the last one, unless --persist.  For an *)
(* action it lists the scripts of a directory that are safe to run, in the *)
(* order of their names; at this commit it does not run them (FIXME).      *)
(*                                                                         *)
(* A step is a stretch of main() between two points where a signal can     *)
(* come in, a source of the main loop, or the look at one file.            *)
(***************************************************************************)
EXTENDS Naturals, Sequences, FiniteSets

CONSTANTS
    QuitAfter,  \* the seconds of the quit timeout, ten in the code
    MaxFile,    \* bound: names in the directory
    MaxAction,  \* bound: calls of Action
    MaxEdits    \* bound: changes of the directory, signals and losses of the bus

VARIABLES
    owner,    \* of BM_DISPATCHER_DBUS_SERVICE: "none", "us" or "other"
    calls,    \* what became of each call: [kind, state]
    pc,       \* how far main() has come
    persist,  \* d->persist
    quit,     \* the main loop runs no more
    lost,     \* the connection to the bus is gone
    timers,   \* seconds left of each quit timeout
    idle,     \* history: seconds since the service was ready or had an action
    cutShort, \* history: the quit timeout ended a service idle for less than QuitAfter

    files,    \* what each name of the directory stands for
    unread,   \* names g_dir_read_name() has still to return
    scripts,  \* scripts, by name
    edits     \* changes, signals and losses so far

busVars == <<owner, calls>>
mainVars == <<pc, persist, quit, lost>>
timeVars == <<timers, idle, cutShort>>
dirVars == <<files, unread, scripts>>
vars == <<busVars, mainVars, timeVars, dirVars, edits>>

(* Files sort by name, here a number; "hidden" stands for every name          *)
(* bmd_is_valid_filename() refuses, "unsafe" for what bmd_permission_check() *)
(* refuses: not a regular file of root, writable by others, set-UID, not     *)
(* executable.                                                               *)
File == 1 .. MaxFile
FileKinds == {"none", "hidden", "unsafe", "script"}

(* "incomplete": a device's action without all the properties it needs. *)
CallKinds == {"complete", "incomplete"}

Init ==
    /\ owner = "none"
    /\ calls = <<>>
    /\ pc = "off" /\ persist = FALSE /\ quit = FALSE /\ lost = FALSE
    /\ timers = {} /\ idle = 0 /\ cutShort = FALSE
    /\ files \in [File -> FileKinds]
    /\ unread = {} /\ scripts = <<>> /\ edits = 0

With(states, s) == [i \in DOMAIN calls |->
                       IF calls[i].state \in states THEN [calls[i] EXCEPT !.state = s] ELSE calls[i]]

-----------------------------------------------------------------------------
(* The bus, an administrator and time *)

(* Action is called; the bus keeps the call until a service it starts is there. *)
CallAction(kind) ==
    /\ Len(calls) < MaxAction
    /\ calls' = Append(calls, [kind |-> kind,
                               state |-> CASE owner = "us" -> "queued"
                                           [] owner = "other" -> "done"
                                           [] OTHER -> "held"])
    /\ UNCHANGED <<owner, mainVars, timeVars, dirVars, edits>>

(* The bus starts the service for a call, an administrator with --persist. *)
Activate(p) ==
    /\ pc = "off"
    /\ p \/ \E i \in DOMAIN calls : calls[i].state = "held"
    /\ p => edits < MaxEdits
    /\ edits' = IF p THEN edits + 1 ELSE edits
    /\ pc' = "started" /\ persist' = p /\ quit' = FALSE /\ lost' = FALSE
    /\ UNCHANGED <<busVars, timeVars, dirVars>>

OtherService ==
    /\ edits < MaxEdits
    /\ edits' = edits + 1
    /\ \/ owner = "none" /\ owner' = "other" /\ calls' = With({"held"}, "done")
       \/ owner = "other" /\ owner' = "none" /\ UNCHANGED calls
    /\ UNCHANGED <<mainVars, timeVars, dirVars>>

(* Calls a connection has not answered when it closes end with an error.     *)
BusLost ==
    /\ edits < MaxEdits
    /\ edits' = edits + 1
    /\ owner' = "none"
    /\ calls' = With({"held", "queued", "busy"}, "error")
    /\ lost' = (pc \in {"connected", "named", "loop", "scan"})
    /\ UNCHANGED <<pc, persist, quit, timeVars, dirVars>>

EditFile(f) ==
    /\ edits < MaxEdits
    /\ edits' = edits + 1
    /\ \E kind \in FileKinds \ {files[f]} : files' = [files EXCEPT ![f] = kind]
    /\ UNCHANGED <<busVars, mainVars, timeVars, unread, scripts>>

(* signal_handler(): there is no loop yet in "started", and g_main_loop_run() *)
(* makes a loop run that was told to quit before.                            *)
Terminate ==
    /\ edits < MaxEdits
    /\ edits' = edits + 1
    /\ pc \in {"loop", "scan"}
    /\ quit' = TRUE
    /\ UNCHANGED <<busVars, pc, persist, lost, timeVars, dirVars>>

Second ==
    /\ pc \in {"loop", "scan"} /\ idle <= QuitAfter
    /\ idle' = idle + 1
    /\ timers' = {IF t > 0 THEN t - 1 ELSE 0 : t \in timers}
    /\ UNCHANGED <<busVars, mainVars, cutShort, dirVars, edits>>

-----------------------------------------------------------------------------
(* main() *)

(* dbus_init() *)
ConnectBus ==
    /\ pc = "started"
    /\ pc' = "connected"
    /\ UNCHANGED <<busVars, persist, quit, lost, timeVars, dirVars, edits>>

(* start_dbus_service(): without the name main() returns, and the bus answers *)
(* the calls it had kept for the service with an error.                      *)
StartDbusService ==
    /\ pc = "connected"
    /\ IF owner = "none" /\ ~lost
       THEN /\ owner' = "us"
            /\ calls' = With({"held"}, "queued")
            /\ pc' = "named"
       ELSE /\ pc' = "off"
            /\ calls' = With({"held"}, "error")
            /\ UNCHANGED owner
    /\ UNCHANGED <<persist, quit, lost, timeVars, dirVars, edits>>

(* Messages wait for the loop, so none finds the object not registered. *)
RunLoop ==
    /\ pc = "named"
    /\ pc' = "loop"
    /\ timers' = IF persist THEN {} ELSE {QuitAfter}
    /\ idle' = 0
    /\ UNCHANGED <<busVars, persist, quit, lost, cutShort, dirVars, edits>>

Running == pc = "loop" /\ ~quit

(* destroy_cb() *)
Destroyed ==
    /\ Running /\ lost
    /\ quit' = TRUE
    /\ UNCHANGED <<busVars, pc, persist, lost, timeVars, dirVars, edits>>

QuitTimeout ==
    /\ Running /\ 0 \in timers
    /\ quit' = TRUE
    /\ cutShort' = (cutShort \/ idle < QuitAfter)
    /\ timers' = timers \ {0}
    /\ UNCHANGED <<busVars, pc, persist, lost, idle, dirVars, edits>>

(* Mutant of BackOff: the timeout that runs is not removed. *)
BackOffAdds == timers' = IF persist THEN timers ELSE timers \union {QuitAfter}

BackOff == timers' = IF persist THEN {} ELSE {QuitAfter}

(* bm_dispatcher_action() returns TRUE at once when a property is missing. *)
AnswerTo(kind) == IF kind = "incomplete" THEN "done" ELSE "busy"

DispatcherAction(i) ==
    /\ Running
    /\ calls[i].state = "queued" /\ \A j \in 1 .. i - 1 : calls[j].state # "queued"
    /\ BackOff
    /\ idle' = 0
    /\ calls' = [calls EXCEPT ![i].state = AnswerTo(calls[i].kind)]
    /\ IF calls[i].kind = "incomplete"
       THEN UNCHANGED <<pc, unread, scripts>>
       ELSE /\ pc' = "scan"
            /\ unread' = {f \in File : files[f] # "none"}
            /\ scripts' = <<>>
    /\ UNCHANGED <<owner, persist, quit, lost, cutShort, files, edits>>

(* g_slist_insert_sorted() with sort_files() *)
InsertSorted(f) ==
    SelectSeq(scripts, LAMBDA g : g < f) \o <<f>> \o SelectSeq(scripts, LAMBDA g : f <= g)

(* One turn of dispatch_scripts(); g_dir_read_name() goes by no order, and a *)
(* file that is gone cannot be stated.                                       *)
ReadFile(f) ==
    /\ pc = "scan" /\ f \in unread
    /\ unread' = unread \ {f}
    /\ scripts' = IF files[f] = "script" THEN InsertSorted(f) ELSE scripts
    /\ UNCHANGED <<busVars, mainVars, timeVars, files, edits>>

Reply ==
    /\ pc = "scan" /\ unread = {}
    /\ pc' = "loop"
    /\ calls' = With({"busy"}, "done")
    /\ UNCHANGED <<owner, persist, quit, lost, timeVars, dirVars, edits>>

(* The end of main(): the bus takes the name back, and a call that came after *)
(* the loop ended fails.                                                     *)
Finish ==
    /\ pc = "loop" /\ quit
    /\ pc' = "off"
    /\ owner' = IF owner = "us" THEN "none" ELSE owner
    /\ calls' = With({"queued", "busy"}, "error")
    /\ timers' = {}
    /\ UNCHANGED <<persist, quit, lost, idle, cutShort, dirVars, edits>>

-----------------------------------------------------------------------------

Advance ==
    \/ ConnectBus \/ StartDbusService \/ RunLoop
    \/ Destroyed \/ QuitTimeout
    \/ \E i \in DOMAIN calls : DispatcherAction(i)
    \/ \E f \in File : ReadFile(f)
    \/ Reply \/ Finish

Environment ==
    \/ \E kind \in CallKinds : CallAction(kind)
    \/ \E p \in BOOLEAN : Activate(p)
    \/ OtherService \/ BusLost \/ Terminate \/ Second
    \/ \E f \in File : EditFile(f)

Next == Environment \/ Advance

Spec == Init /\ [][Next]_vars

(* The process runs, the bus starts it, and time passes. *)
Fairness == WF_vars(Advance) /\ WF_vars(Activate(FALSE)) /\ WF_vars(Second)

-----------------------------------------------------------------------------
(* Properties *)

(* "Back off the quit timeout": no action and no wait for one is cut short by *)
(* a timeout set before it, and --persist means no timeout at all.           *)
BackedOff == ~cutShort /\ (persist => timers = {})

(* "Executes scripts upon actions": of a directory nobody changed meanwhile   *)
(* every script that is safe to run is listed, no other, in the order of the *)
(* names, whatever the order the directory has them in.                      *)
ScriptsListed ==
    pc = "scan" /\ unread = {} /\ edits = 0 =>
        /\ {scripts[i] : i \in DOMAIN scripts} = {f \in File : files[f] = "script"}
        /\ \A i \in 1 .. Len(scripts) - 1 : scripts[i] < scripts[i + 1]

(* Every call of Action is answered in the end, by the service, or with an   *)
(* error by the bus when the service ended, or could not start, before that. *)
ActionsAnswered ==
    \A i \in 1 .. MaxAction :
        i \in DOMAIN calls ~> (i \in DOMAIN calls /\ calls[i].state \in {"done", "error"})
=============================================================================
