------------------------------- MODULE Manager -------------------------------
(***************************************************************************)
(* BMManager's own duties (bm-manager.c) on top of BMUdevManager           *)
(* (bm-udev-manager.c): the list of hidraw devices, and Enable(), which    *)
(* switches networking on and off for callers PolicyKit lets do so.        *)
(*                                                                         *)
(* The kernel queues uevents from the moment bm_manager_get() subscribes;  *)
(* the main loop handles them one by one.  bm_manager_start() lists what   *)
(* is there already.  Between any two steps nodes come and go.  The daemon *)
(* may be killed and started again; only its state file survives.          *)
(***************************************************************************)
EXTENDS Naturals, Sequences, SequencesExt, AuthChain

CONSTANTS
    Iface,        \* names of hidraw nodes
    Driverless,   \* those no driver can be found for
    Caller,       \* callers of Enable()
    Root,         \* the caller with uid 0
    HasAuthority, \* whether priv->authority is set
    MaxPlugs,     \* bound: nodes that appear
    MaxCalls,     \* bound: calls of Enable()
    MaxStarts     \* bound: starts of the daemon

ASSUME ManagerAssumption ==
    /\ Driverless \subseteq Iface
    /\ HasAuthority \in BOOLEAN
    /\ {MaxPlugs, MaxCalls, MaxStarts} \subseteq Nat

VARIABLES
    present,    \* the nodes there are
    plugs,      \* how many have appeared so far
    phase,      \* "off", "built" (bm_manager_get), "starting" (bm_manager_start), "running"
    starts,     \* how often the daemon was started
    uevents,    \* uevents not handled yet
    queried,    \* nodes the query found, not added yet
    twice,      \* history: nodes the query found with their "add" still queued
    devices,    \* priv->devices
    devcount,   \* the counter in add_device
    netEnabled, \* priv->net_enabled
    state,      \* priv->state
    stateFile,  \* NetworkingEnabled in the state file, "none" without a file
    calls,      \* calls of Enable() so far: [caller, want, reply]
    chains,     \* priv->auth_chains, by the number of the call
    granted     \* history: calls PolicyKit answered with yes

kernelVars == <<present, plugs>>
deviceVars == <<uevents, queried, twice, devices, devcount>>
enableVars == <<netEnabled, state, stateFile, calls, chains, granted>>
vars == <<present, plugs, phase, starts, uevents, queried, twice, devices, devcount,
          netEnabled, state, stateFile, calls, chains, granted>>

Permission == "org.freedesktop.NetworkManager.enable-disable-network"

Init ==
    /\ present = {}
    /\ plugs = 0
    /\ phase = "off"
    /\ starts = 0
    /\ uevents = <<>>
    /\ queried = {}
    /\ twice = {}
    /\ devices = <<>>
    /\ devcount = 0
    /\ netEnabled = TRUE
    /\ state = "DISCONNECTED"
    /\ stateFile = "none"
    /\ calls = <<>>
    /\ chains = <<>>
    /\ granted = {}

-----------------------------------------------------------------------------
(* The kernel *)

(* Mutant of Subscribed: bm_manager_start subscribes, after its query. *)
SubscribedLate == phase = "running"

Subscribed == phase # "off"

Notify(action, i) ==
    uevents' = IF Subscribed THEN Append(uevents, [action |-> action, iface |-> i]) ELSE uevents

Plug(i) ==
    /\ i \notin present
    /\ plugs < MaxPlugs
    /\ present' = present \union {i}
    /\ plugs' = plugs + 1
    /\ Notify("add", i)
    /\ UNCHANGED <<phase, starts, queried, twice, devices, devcount, enableVars>>

Unplug(i) ==
    /\ i \in present
    /\ present' = present \ {i}
    /\ Notify("remove", i)
    /\ UNCHANGED <<plugs, phase, starts, queried, twice, devices, devcount, enableVars>>

-----------------------------------------------------------------------------
(* The list of devices *)

IsListed(i) == \E n \in DOMAIN devices : devices[n].iface = i

NewDevice(i) == [path |-> devcount, iface |-> i]

(* udev_add, device_creator and add_device.  Nothing checks whether the node *)
(* is listed already.  The driver of a node that is gone may still be found, *)
(* through a parent that outlasts it.                                        *)
AddDevice(i) ==
    \/ /\ i \notin Driverless
       /\ devices' = Append(devices, NewDevice(i))
       /\ devcount' = devcount + 1
    \/ /\ i \in Driverless \/ i \notin present
       /\ UNCHANGED <<devices, devcount>>

(* find_device_by_iface: the first that has the name. *)
FoundAt(n, i) ==
    /\ devices[n].iface = i
    /\ \A m \in 1 .. n - 1 : devices[m].iface # i

(* Mutant of RemoveDevice: udev_remove has the checks of udev_add. *)
RemoveDevicePresent(i) ==
    \/ \E n \in DOMAIN devices :
           i \in present /\ FoundAt(n, i) /\ devices' = RemoveAt(devices, n)
    \/ (i \in present => ~IsListed(i)) /\ UNCHANGED devices

(* udev_device_removed_cb and remove_one_device. *)
RemoveDevice(i) ==
    \/ \E n \in DOMAIN devices : FoundAt(n, i) /\ devices' = RemoveAt(devices, n)
    \/ ~IsListed(i) /\ UNCHANGED devices

(* bm_udev_manager_query_devices: what is there now ... *)
QueryDevices ==
    /\ phase = "built"
    /\ phase' = "starting"
    /\ queried' = present
    /\ twice' = {i \in present : [action |-> "add", iface |-> i] \in ToSet(uevents)}
    /\ UNCHANGED <<kernelVars, starts, uevents, devices, devcount, enableVars>>

(* ... is added, node by node, in the order of sysfs, *)
AddQueried(i) ==
    /\ phase = "starting"
    /\ i \in queried
    /\ queried' = queried \ {i}
    /\ AddDevice(i)
    /\ UNCHANGED <<kernelVars, phase, starts, uevents, twice, enableVars>>

(* and main() goes on to its loop. *)
RunLoop ==
    /\ phase = "starting"
    /\ queried = {}
    /\ phase' = "running"
    /\ UNCHANGED <<kernelVars, starts, deviceVars, enableVars>>

HandleUevent ==
    /\ phase = "running"
    /\ uevents # <<>>
    /\ uevents' = Tail(uevents)
    /\ LET event == Head(uevents)
       IN  \/ event.action = "add" /\ AddDevice(event.iface)
           \/ event.action = "remove" /\ RemoveDevice(event.iface) /\ UNCHANGED devcount
    /\ UNCHANGED <<kernelVars, phase, starts, queried, twice, enableVars>>

-----------------------------------------------------------------------------
(* Enable() *)

(* manager_sleeping, with no device ever activated: bm_manager_update_state. *)
StateFor(enabled) == IF enabled THEN "DISCONNECTED" ELSE "ASLEEP"

(* Writing the state file may fail, "Not a hard error". *)
WriteStateFile(enable) == stateFile' \in {stateFile, IF enable THEN "true" ELSE "false"}

InternalEnable(enable) ==
    /\ WriteStateFile(enable)
    /\ netEnabled' = enable
    /\ state' = StateFor(enable)

Reply(c, enable, reply) ==
    calls' = Append(calls, [caller |-> c, want |-> enable, reply |-> reply])

KeepSetting == UNCHANGED <<netEnabled, state, stateFile>>

(* bm_auth_get_caller_uid: the bus is asked, and may know the caller no more. *)
CallerUids(c) == {"unknown", IF c = Root THEN "root" ELSE "user"}

(* impl_manager_enable: refused at once, done at once for root, or a         *)
(* question to PolicyKit.                                                    *)
Enable(c, enable) ==
    /\ phase = "running"
    /\ Len(calls) < MaxCalls
    /\ \E uid \in CallerUids(c) :
       \/ netEnabled = enable /\ Reply(c, enable, "already") /\ KeepSetting /\ UNCHANGED chains
       \/ /\ netEnabled # enable
          /\ uid = "unknown" \/ (uid = "user" /\ ~HasAuthority)
          /\ Reply(c, enable, "denied")
          /\ KeepSetting
          /\ UNCHANGED chains
       \/ /\ netEnabled # enable
          /\ uid = "root"
          /\ InternalEnable(enable)
          /\ Reply(c, enable, "done")
          /\ UNCHANGED chains
       \/ /\ netEnabled # enable
          /\ uid = "user"
          /\ HasAuthority
          /\ chains' = Append(chains, [call |-> Len(calls) + 1, chain |-> NewChain(c, {Permission})])
          /\ Reply(c, enable, "pending")
          /\ KeepSetting
    /\ UNCHANGED <<kernelVars, phase, starts, deviceVars, granted>>

(* Mutant of Authorized: a caller who could authenticate counts as authorized. *)
AuthorizedObtainable(chain) == ~chain.error /\ chain.data[Permission] \in Obtainable

Authorized(chain) == ~chain.error /\ chain.data[Permission] = "YES"

(* pk_call_cb and enable_net_done_cb.  The setting is not looked at again. *)
EnableNetDone(k, answer) ==
    /\ phase = "running"
    /\ k \in DOMAIN chains
    /\ LET n     == chains[k].call
           chain == CallAnswered(chains[k].chain, Permission, answer)
       IN  /\ chains' = RemoveAt(chains, k)
           /\ granted' = IF answer = "YES" THEN granted \union {n} ELSE granted
           /\ \/ /\ Authorized(chain)
                 /\ InternalEnable(calls[n].want)
                 /\ calls' = [calls EXCEPT ![n].reply = "done"]
              \/ /\ ~Authorized(chain)
                 /\ calls' = [calls EXCEPT ![n].reply = "denied"]
                 /\ KeepSetting
    /\ UNCHANGED <<kernelVars, phase, starts, deviceVars>>

-----------------------------------------------------------------------------
(* The process *)

(* parse_state_file takes nothing from the state file.  It creates one where *)
(* there is none, and may fail to, "Not a hard failure".                     *)
ParseStateFile == stateFile' \in {stateFile, IF stateFile = "none" THEN "empty" ELSE stateFile}

(* main, from the state file to bm_manager_get: NetworkingEnabled starts out *)
(* TRUE, whatever the file says.                                             *)
BuildManager ==
    /\ phase = "off"
    /\ starts < MaxStarts
    /\ phase' = "built"
    /\ starts' = starts + 1
    /\ netEnabled' = TRUE
    /\ state' = "DISCONNECTED"
    /\ devcount' = 0
    /\ ParseStateFile
    /\ UNCHANGED <<kernelVars, uevents, queried, twice, devices, calls, chains, granted>>

(* The daemon ends; callers still waiting get an error from the bus. *)
Crash ==
    /\ phase # "off"
    /\ phase' = "off"
    /\ uevents' = <<>>
    /\ queried' = {}
    /\ twice' = {}
    /\ devices' = <<>>
    /\ chains' = <<>>
    /\ calls' = [n \in DOMAIN calls |->
                    IF calls[n].reply = "pending" THEN [calls[n] EXCEPT !.reply = "lost"]
                    ELSE calls[n]]
    /\ UNCHANGED <<kernelVars, starts, devcount, netEnabled, state, stateFile, granted>>

Next ==
    \/ \E i \in Iface : Plug(i) \/ Unplug(i) \/ AddQueried(i)
    \/ QueryDevices
    \/ RunLoop
    \/ HandleUevent
    \/ \E c \in Caller, enable \in BOOLEAN : Enable(c, enable)
    \/ \E k \in DOMAIN chains, answer \in Answers : EnableNetDone(k, answer)
    \/ BuildManager
    \/ Crash

Spec == Init /\ [][Next]_vars

-----------------------------------------------------------------------------
(* Properties *)

Devices == [path: Nat, iface: Iface]

TypeOK ==
    /\ present \subseteq Iface
    /\ plugs \in 0 .. MaxPlugs
    /\ phase \in {"off", "built", "starting", "running"}
    /\ starts \in 0 .. MaxStarts
    /\ uevents \in Seq([action: {"add", "remove"}, iface: Iface])
    /\ queried \subseteq Iface
    /\ twice \subseteq Iface
    /\ devices \in Seq(Devices)
    /\ devcount \in Nat
    /\ netEnabled \in BOOLEAN
    /\ state \in {"DISCONNECTED", "ASLEEP"}
    /\ stateFile \in {"none", "empty", "true", "false"}
    /\ calls \in Seq([caller: Caller, want: BOOLEAN,
                      reply: {"already", "denied", "done", "pending", "lost"}])
    /\ chains \in Seq([call: Nat, chain: ChainOf(Caller, {Permission})])
    /\ granted \subseteq DOMAIN calls

(* The daemon has caught up with the kernel. *)
Settled == phase = "running" /\ uevents = <<>>

(* No node slips through between the subscription, the query and the loop,    *)
(* however it comes and goes meanwhile.                                       *)
NothingMissed == Settled => \A i \in present \ Driverless : IsListed(i)

(* A node has at most one object, and none when it is gone, unless it was     *)
(* plugged in between the subscription and the query.                         *)
NoGhosts ==
    \A i \in Iface \ twice :
        /\ \A m, n \in DOMAIN devices :
               devices[m].iface = i /\ devices[n].iface = i => m = n
        /\ Settled /\ i \notin present => ~IsListed(i)

(* The daemon says that it is asleep exactly while networking is disabled. *)
AsleepIffDisabled == state = StateFor(netEnabled)

(* While the daemon runs, the setting changes only by a call that is answered *)
(* with success then, asked for this value and was root's or was granted.     *)
OnlyGrantedCallsRule ==
    [][phase = "running" /\ netEnabled' # netEnabled
         => \E n \in DOMAIN calls' :
               /\ calls'[n].reply = "done"
               /\ n \in DOMAIN calls => calls[n].reply = "pending"
               /\ calls'[n].want = netEnabled'
               /\ calls'[n].caller = Root \/ n \in granted']_vars
=============================================================================
