---------------------------- MODULE CommandLine ----------------------------
(***************************************************************************)
(* bmcli: one command, run from a main loop that the command must quit.    *)
(*                                                                         *)
(* The `bm' and `dev' commands ask the daemon by blocking calls and are    *)
(* done in the first callback.  The `con' commands wait until both         *)
(* settings services that were running have been read (connections-read of *)
(* BMRemoteSettings, see RemoteSettings), and what is read goes on         *)
(* changing.  The lists they take hold no references to the connections.   *)
(*                                                                         *)
(* Output is the set of connections printed; options and arguments are     *)
(* right or wrong.                                                         *)
(***************************************************************************)
EXTENDS Naturals, FiniteSets

CONSTANTS
    Connection, \* the ids of connections
    MaxChange   \* bound: what services and the daemon do by themselves

ASSUME CommandLineAssumption == MaxChange \in Nat

VARIABLES
    command,  \* the command line
    daemon,   \* the daemon runs
    owners,   \* the settings services that run
    changes,  \* what they did by themselves so far
    reading,  \* BMRemoteSettings objects whose connections-read is to come
    shown,    \* the connections each holds
    phase,    \* of bmcli: "start", "loop", "quitting", "ended" or "crashed"
    wait,     \* bmc->should_wait
    result,   \* bmc->return_value
    runs,     \* system_settings_running, user_settings_running
    called,   \* system_cb_called, user_cb_called
    lists,    \* system_connections, user_connections
    printed,  \* the connections printed
    given     \* history: do_connection_up went as far as BMClient

outside == <<daemon, owners, changes>>
vars == <<command, outside, reading, shown, phase, wait, result, runs, called, lists, printed,
          given>>

-----------------------------------------------------------------------------
(* Data *)

Scope == {"system", "user"}

(* A command with its options and arguments: right, or wrong in some way.   *)
NoConnection == "none"

Commands ==
    [object: {"bm"}, verb: {"status", "enable", "sleep"}, id: {NoConnection}, right: BOOLEAN] \union
    [object: {"dev"}, verb: {"status", "list"}, id: {NoConnection}, right: BOOLEAN] \union
    [object: {"con"}, verb: {"list", "status"}, id: {NoConnection}, right: BOOLEAN] \union
    [object: {"con"}, verb: {"list", "up"}, id: Connection, right: BOOLEAN] \union
    [object: {"none"}, verb: {"help"}, id: {NoConnection}, right: BOOLEAN]

NoLists == [s \in Scope |-> {}]

(* A list that holds what was freed: using it may end the program. *)
Dangling(ls, now) == \E s \in Scope : ls[s] \ now[s] # {}

Init ==
    /\ command \in Commands
    /\ daemon \in BOOLEAN
    /\ owners \in SUBSET Scope
    /\ changes = 0
    /\ reading = {}
    /\ shown = NoLists
    /\ phase = "start"
    /\ wait = FALSE
    /\ result = "success"
    /\ runs = {}
    /\ called = {}
    /\ lists = NoLists
    /\ printed = {}
    /\ given = FALSE

-----------------------------------------------------------------------------
(* The daemon and the settings services *)

Change == changes < MaxChange /\ changes' = changes + 1

DaemonChanges ==
    /\ Change
    /\ daemon' = ~daemon
    /\ UNCHANGED <<command, owners, reading, shown, phase, wait, result, runs, called, lists,
                   printed, given>>

(* The service exits: its connections are removed, and a listing that did   *)
(* not begin is given up.                                                   *)
ServiceExits(s) ==
    /\ Change
    /\ s \in owners
    /\ owners' = owners \ {s}
    /\ shown' = [shown EXCEPT ![s] = {}]
    /\ reading' \in {reading, reading \ {s}}
    /\ UNCHANGED <<command, daemon, phase, wait, result, runs, called, lists, printed, given>>

(* It starts: a BMRemoteSettings that is there lists it. *)
ServiceStarts(s) ==
    /\ Change
    /\ s \notin owners
    /\ owners' = owners \union {s}
    /\ reading' = IF phase = "start" THEN reading ELSE reading \union {s}
    /\ UNCHANGED <<command, daemon, shown, phase, wait, result, runs, called, lists, printed, given>>

(* A connection is deleted while bmcli waits. *)
ConnectionRemoved(s, c) ==
    /\ Change
    /\ c \in shown[s]
    /\ shown' = [shown EXCEPT ![s] = @ \ {c}]
    /\ UNCHANGED <<command, daemon, owners, reading, phase, wait, result, runs, called, lists,
                   printed, given>>

-----------------------------------------------------------------------------
(* bmcli *)

End(r) == result' = r /\ wait' = FALSE /\ phase' = "quitting"

Fail(r) == End(r) /\ UNCHANGED printed

(* bmc_is_bm_running, then the answers a BMClient gets; the daemon may go   *)
(* between the two, which no answer tells.                                  *)
AskDaemon == IF daemon THEN End("success") ELSE End("not running")

DoDevicesStatus == AskDaemon

(* An interface that was named may not be there. *)
DoDevicesList == AskDaemon \/ (daemon /\ End("unknown"))

DoDevices ==
    /\ command.object = "dev"
    /\ \/ ~command.right /\ End("user input")
       \/ command.right /\ command.verb = "status" /\ DoDevicesStatus
       \/ command.right /\ command.verb = "list" /\ DoDevicesList
    /\ UNCHANGED <<reading, runs, printed>>

(* The status of a daemon that does not run is no error, *)
ShowStatus == End("success")

(* and nor is an Enable that fails. *)
SetEnabled == End("success")

(* The daemon has no method Sleep. *)
SetSleep == End("unknown")

DoBarcodeManager ==
    /\ command.object = "bm"
    /\ \/ ~command.right /\ End("user input")
       \/ command.right /\ command.verb = "status" /\ ShowStatus
       \/ command.right /\ command.verb = "enable" /\ SetEnabled
       \/ command.right /\ command.verb = "sleep" /\ SetSleep
    /\ UNCHANGED <<reading, runs, printed>>

(* No command, help, the version; or an option that is wrong. *)
ParseOnly ==
    /\ command.object = "none"
    /\ IF command.right THEN End("success") ELSE End("user input")
    /\ UNCHANGED <<reading, runs, printed>>

(* do_connections: the services that run are waited for.  Without one it    *)
(* returns an error, and should_wait stays TRUE.                            *)
DoConnections ==
    /\ command.object = "con"
    /\ runs' = owners
    /\ reading' = Scope
    /\ wait' = TRUE
    /\ phase' = "loop"
    /\ result' = IF owners = {} THEN "unknown" ELSE "success"
    /\ UNCHANGED printed

(* The idle function that runs the command. *)
Start ==
    /\ phase = "start"
    /\ DoDevices \/ DoBarcodeManager \/ ParseOnly \/ DoConnections
    /\ UNCHANGED <<command, outside, shown, called, lists, given>>

Found(ls, c) == \E s \in Scope : c \in ls[s]

Every(ls) == {x \in Scope \X Connection : x[2] \in ls[x[1]]}

(* Mutant of DoList: should_wait is not reset. *)
DoListWaits(ls) ==
    /\ UNCHANGED given
    /\ IF ~command.right THEN Fail("user input")
       ELSE /\ result' = "success"
            /\ printed' = printed \union Every(ls)
            /\ UNCHANGED <<wait, phase>>

(* do_connections_list *)
DoList(ls) ==
    /\ UNCHANGED given
    /\ IF ~command.right THEN Fail("user input")
       ELSE IF command.id = NoConnection
       THEN End("success") /\ printed' = printed \union Every(ls)
       ELSE IF Found(ls, command.id)
       THEN /\ End("success")
            /\ printed' = printed \union {x \in Every(ls) : x[2] = command.id}
       ELSE Fail("unknown")

(* do_connections_status: the daemon has no active connections. *)
DoStatus ==
    /\ UNCHANGED <<printed, given>>
    /\ IF command.right THEN AskDaemon ELSE End("user input")

(* do_connection_up: it asks BMClient to activate the connection on no      *)
(* device, which BMClient ignores, and waits.                               *)
DoUp(ls) ==
    IF ~command.right THEN Fail("user input") /\ UNCHANGED given
    ELSE IF ~Found(ls, command.id) THEN Fail("unknown") /\ UNCHANGED given
    ELSE IF ~daemon THEN Fail("not running") /\ UNCHANGED given
    ELSE given' = TRUE /\ wait' = TRUE /\ UNCHANGED <<result, phase, printed>>

DoCommand(ls) ==
    \/ command.verb = "list" /\ DoList(ls)
    \/ command.verb = "status" /\ DoStatus
    \/ command.verb = "up" /\ DoUp(ls)

(* Mutant of ReadAll: the first service read is enough. *)
ReadAny(cs) == cs # {}

(* Both services that were running have been read. *)
ReadAll(cs) == runs \subseteq cs

(* connections-read of a service that was running: get_connections_cb.      *)
(* Freed connections in the other list may crash the commands that look at  *)
(* them.                                                                    *)
GetConnections(s) ==
    LET ls == [lists EXCEPT ![s] = shown'[s]]
    IN  /\ called' = called \union {s}
        /\ lists' = ls
        /\ IF ~ReadAll(called') THEN UNCHANGED <<phase, wait, result, printed, given>>
           ELSE \/ DoCommand(ls)
                \/ /\ Dangling(ls, shown')
                   /\ command.verb # "status"
                   /\ phase' = "crashed"
                   /\ UNCHANGED <<wait, result, printed, given>>

(* A listing is done, with what its service had; none if it failed. *)
ConnectionsRead(s) ==
    /\ phase \in {"loop", "quitting"}
    /\ s \in reading
    /\ reading' = reading \ {s}
    /\ \E cs \in SUBSET Connection :
        /\ s \notin owners => cs = {}
        /\ shown' = [shown EXCEPT ![s] = cs]
    /\ IF s \in runs THEN GetConnections(s)
       ELSE UNCHANGED <<phase, wait, result, called, lists, printed, given>>
    /\ UNCHANGED <<command, outside, runs>>

(* SIGINT or SIGTERM. *)
Interrupt ==
    /\ phase = "loop"
    /\ phase' = "quitting"
    /\ UNCHANGED <<command, outside, reading, shown, wait, result, runs, called, lists, printed,
                   given>>

(* The callbacks that were ready with the last one have run. *)
MainEnds ==
    /\ phase = "quitting"
    /\ phase' = "ended"
    /\ UNCHANGED <<command, outside, reading, shown, wait, result, runs, called, lists, printed,
                   given>>

-----------------------------------------------------------------------------
(* Specification *)

Services ==
    \/ DaemonChanges
    \/ \E s \in Scope : ServiceExits(s) \/ ServiceStarts(s)
    \/ \E s \in Scope, c \in Connection : ConnectionRemoved(s, c)

Next ==
    \/ phase \notin {"ended", "crashed"} /\ Services
    \/ Start
    \/ \E s \in Scope : ConnectionsRead(s)
    \/ Interrupt
    \/ MainEnds

Spec == Init /\ [][Next]_vars

(* bmcli runs its main loop, and what BMRemoteSettings began to read comes  *)
(* (ReadComes of RemoteSettings).  Nobody needs to interrupt it.            *)
FairSpec ==
    /\ Spec
    /\ WF_vars(Start)
    /\ \A s \in Scope : WF_vars(ConnectionsRead(s))
    /\ WF_vars(MainEnds)

-----------------------------------------------------------------------------
(* Properties *)

(* What bmcli waits for that cannot come: do_connections found no service   *)
(* running (connections.c:1054), BMClient was asked to activate on no       *)
(* device (line 935), or a service went before it was read.                 *)
Stuck ==
    /\ phase = "loop"
    /\ runs = {} \/ given \/ \E s \in runs : s \notin called \union reading

(* Every command ends by itself, with should_wait false by then, however    *)
(* the readings of the two services, their restarts and deletions cross,    *)
(* but for the three cases of Stuck.                                        *)
Ends == <>(phase \in {"ended", "crashed"} \/ Stuck)

(* "return and wait for the callback of the second settings is called"      *)
(* (connections.c:967): a list that succeeded has all that either service   *)
(* was read to have, and was printed only after both were.                  *)
ListedAll ==
    (phase \in {"quitting", "ended"} /\ ~wait /\ command.object = "con" /\ command.verb = "list"
        /\ result = "success" /\ command.id = NoConnection) =>
    /\ runs \subseteq called
    /\ Every(lists) \subseteq printed
=============================================================================
