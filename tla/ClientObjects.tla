---------------------------- MODULE ClientObjects ----------------------------
(***************************************************************************)
(* libbm-glib's BMClient and BMDevice: what a program that uses the        *)
(* library sees of the daemon, its devices and whether it is enabled.      *)
(*                                                                         *)
(* The daemon announces a device at once, but the change of a property in  *)
(* an idle function, with the value it had when it changed.  The library   *)
(* reads ahead of that: its calls block, and are answered out of the       *)
(* present state while older signals still queue (inbox).  It lists the    *)
(* devices when somebody first asks for them and makes an object for each, *)
(* with a call for each: devices come and go between these calls.  What a  *)
(* property says is kept, and asked for only if it says nothing yet.       *)
(*                                                                         *)
(* State and NetworkingEnabled change together, Enable() being all that    *)
(* changes them; `enabled' stands for both in the daemon.                  *)
(***************************************************************************)
EXTENDS Naturals, Sequences, FiniteSets

CONSTANTS
    MaxStart,   \* bound: how often the daemon is started
    MaxPath,    \* bound: devices of one daemon
    MaxChange,  \* bound: changes of NetworkingEnabled
    MaxInbox    \* bound: messages under way when a device comes or goes

ASSUME ClientObjectsAssumption ==
    /\ {MaxStart, MaxPath} \subseteq Nat \ {0}
    /\ {MaxChange, MaxInbox} \subseteq Nat

VARIABLES
    running,    \* the daemon, by number; 0 for none
    starts,     \* how many there were
    enabled,    \* daemon: NetworkingEnabled, and State with it
    changes,    \* how often it changed
    exported,   \* daemon: paths of its devices
    devcount,   \* daemon: paths it has numbered
    changed,    \* daemon: the value in info->hash, whose idle function waits, if any
    announced,  \* history: the daemon changed it since it started
    inbox,      \* signals for the client
    born,       \* the daemon there was when the BMClient was built
    listed,     \* priv->devices is there
    devices,    \* paths of the objects in it
    from,       \* history: the daemon that was asked for them
    job,        \* the call the client blocks in
    cache,      \* priv->state, priv->networking_enabled, priv->have_networking_enabled
    notify,     \* deferred_notify_cb waits
    shown       \* the listener's last answers: state and networking-enabled

daemonVars == <<running, starts, enabled, changes, exported, devcount, changed, announced>>
deviceVars == <<listed, devices, from, job>>
valueVars  == <<cache, notify, shown>>
vars == <<running, starts, enabled, changes, exported, devcount, changed, announced, inbox, born,
          listed, devices, from, job, cache, notify, shown>>

-----------------------------------------------------------------------------
(* Data *)

Path == 1 .. MaxPath

DeviceAdded(p)         == [type |-> "DeviceAdded", path |-> p]
DeviceRemoved(p)       == [type |-> "DeviceRemoved", path |-> p]
PropertiesChanged(on)  == [type |-> "PropertiesChanged", enabled |-> on]

Message ==
    [type: {"DeviceAdded", "DeviceRemoved"}, path: Path] \union
    [type: {"PropertiesChanged"}, enabled: BOOLEAN]

(* A job lists the devices, and goes on with the device of the signal that    *)
(* asked for the list, if any; or it makes the object of one that was added.  *)
Jobs == [kind: {"none", "list", "add"}, todo: SUBSET Path, made: SUBSET Path,
         then: {"nothing", "add", "remove"}, for: Path \union {0}]

NoJob == [kind |-> "none", todo |-> {}, made |-> {}, then |-> "nothing", for |-> 0]

ListJob(then, for) ==
    [kind |-> "list", todo |-> exported, made |-> {}, then |-> then, for |-> for]

AddJob(then, for) ==
    IF then = "add" THEN [NoJob EXCEPT !.kind = "add", !.then = then, !.for = for] ELSE NoJob

StateOf(on) == IF on THEN "DISCONNECTED" ELSE "ASLEEP"

States == {"UNKNOWN", "ASLEEP", "DISCONNECTED"}

(* bm_client_init *)
FreshCache == [state |-> "UNKNOWN", enabled |-> FALSE, have |-> FALSE]

(* constructor: NameHasOwner says whether there is a daemon. *)
Init ==
    /\ running \in {0, 1}
    /\ starts = running
    /\ enabled = TRUE
    /\ changes = 0
    /\ devcount \in IF running = 0 THEN {0} ELSE {0, 1}
    /\ exported \in SUBSET (1 .. devcount)
    /\ changed = {}
    /\ announced = FALSE
    /\ inbox = <<>>
    /\ born = running
    /\ listed = FALSE
    /\ devices = {}
    /\ from = 0
    /\ job = NoJob
    /\ cache = FreshCache
    /\ notify = FALSE
    /\ shown = [state |-> "UNKNOWN", enabled |-> FALSE]

-----------------------------------------------------------------------------
(* The daemon *)

Send(m) == inbox' = Append(inbox, m)

DaemonStarts ==
    /\ running = 0
    /\ starts < MaxStart
    /\ starts' = starts + 1
    /\ running' = starts'
    /\ enabled' = TRUE
    /\ devcount' = 0
    /\ announced' = FALSE
    /\ UNCHANGED <<changes, exported, changed, inbox, born, deviceVars, valueVars>>

(* The bus says NameOwnerChanged; proxy_name_owner_changed compares what it  *)
(* says with priv->manager_running, and leaves it at that.                  *)
DaemonExits ==
    /\ running # 0
    /\ running' = 0
    /\ exported' = {}
    /\ changed' = {}
    /\ UNCHANGED <<starts, enabled, changes, devcount, announced, inbox, born, deviceVars, valueVars>>

(* add_device *)
AddDevice ==
    /\ running # 0
    /\ devcount < MaxPath
    /\ Len(inbox) < MaxInbox
    /\ devcount' = devcount + 1
    /\ exported' = exported \union {devcount'}
    /\ Send(DeviceAdded(devcount'))
    /\ UNCHANGED <<running, starts, enabled, changes, changed, announced, born, deviceVars, valueVars>>

(* remove_one_device *)
RemoveDevice(p) ==
    /\ p \in exported
    /\ Len(inbox) < MaxInbox
    /\ exported' = exported \ {p}
    /\ Send(DeviceRemoved(p))
    /\ UNCHANGED <<running, starts, enabled, changes, devcount, changed, announced, born, deviceVars, valueVars>>

(* Mutant of Notify: what waits in the hash is not replaced. *)
NotifyOnce(on) == changed' = IF changed = {} THEN {on} ELSE changed

(* notify: the value the property has now, in the place of an older one. *)
Notify(on) == changed' = {on}

(* _internal_enable *)
Enable ==
    /\ running # 0
    /\ changes < MaxChange
    /\ changes' = changes + 1
    /\ enabled' = ~enabled
    /\ Notify(~enabled)
    /\ announced' = TRUE
    /\ UNCHANGED <<running, starts, exported, devcount, inbox, born, deviceVars, valueVars>>

(* properties_changed *)
EmitPropertiesChanged ==
    /\ changed' = {}
    /\ \E on \in changed : Send(PropertiesChanged(on))
    /\ UNCHANGED <<running, starts, enabled, changes, exported, devcount, announced, born, deviceVars, valueVars>>

-----------------------------------------------------------------------------
(* The client's devices *)

Ready == job = NoJob

(* _bm_object_cache_get: the objects that are referenced, here the devices. *)
Cached(p) == p \in devices

(* bm_device_new: no object without an answer to Get("DeviceType"). *)
NewObject(p) == p \in exported

Obtained(p) == Cached(p) \/ NewObject(p)

(* bm_client_get_devices, with nothing listed yet *)
GetDevices(then, for) ==
    \/ running # 0 /\ job' = ListJob(then, for) /\ from' = running
    \/ running = 0 /\ job' = AddJob(then, for) /\ UNCHANGED from

ListDevices ==
    /\ Ready
    /\ ~listed
    /\ GetDevices("nothing", 0)
    /\ UNCHANGED <<daemonVars, inbox, born, listed, devices, valueVars>>

(* _bm_object_array_demarshal, for one of the paths *)
Demarshal(p) ==
    /\ job.kind = "list"
    /\ p \in job.todo
    /\ job' = [job EXCEPT !.todo = @ \ {p},
                          !.made = IF Obtained(p) THEN @ \union {p} ELSE @]
    /\ UNCHANGED <<daemonVars, inbox, born, listed, devices, from, valueVars>>

(* The list is there.  A device that was added is in it, or it is on its own. *)
Listed ==
    /\ job.kind = "list"
    /\ job.todo = {}
    /\ listed' = TRUE
    /\ devices' = IF job.then = "remove" THEN job.made \ {job.for} ELSE job.made
    /\ job' = IF job.for \in job.made THEN NoJob ELSE AddJob(job.then, job.for)
    /\ UNCHANGED <<daemonVars, inbox, born, from, valueVars>>

(* bm_client_get_device_by_path, of a list that is there: the device with the *)
(* path, or none.                                                             *)
ByPath(p) == devices \intersect {p}

(* client_device_added_proxy, when the list has been asked for.  Without a     *)
(* list, g_ptr_array_add only warns.                                          *)
Added(p) ==
    devices' = IF listed /\ ByPath(p) = {} /\ Obtained(p) THEN devices \union {p} ELSE devices

AddedAlone ==
    /\ job.kind = "add"
    /\ Added(job.for)
    /\ job' = NoJob
    /\ UNCHANGED <<daemonVars, inbox, born, listed, from, valueVars>>

Receive(type) ==
    /\ Ready
    /\ inbox # <<>>
    /\ Head(inbox).type = type
    /\ inbox' = Tail(inbox)

HandleDeviceAdded ==
    /\ Receive("DeviceAdded")
    /\ \/ ~listed /\ GetDevices("add", Head(inbox).path) /\ UNCHANGED devices
       \/ listed /\ Added(Head(inbox).path) /\ UNCHANGED <<job, from>>
    /\ UNCHANGED <<daemonVars, born, listed, valueVars>>

(* Mutant of HandleDeviceRemoved: a device that Get() fails for stays. *)
HandleDeviceRemovedPresent ==
    /\ Receive("DeviceRemoved")
    /\ \/ ~listed /\ GetDevices("remove", Head(inbox).path) /\ UNCHANGED devices
       \/ listed /\ devices' = devices \ ({Head(inbox).path} \intersect exported) /\ UNCHANGED <<job, from>>
    /\ UNCHANGED <<daemonVars, born, listed, valueVars>>

(* client_device_removed_proxy: bm_client_get_device_by_path lists first, too. *)
HandleDeviceRemoved ==
    /\ Receive("DeviceRemoved")
    /\ \/ ~listed /\ GetDevices("remove", Head(inbox).path) /\ UNCHANGED devices
       \/ listed /\ devices' = devices \ ByPath(Head(inbox).path) /\ UNCHANGED <<job, from>>
    /\ UNCHANGED <<daemonVars, born, listed, valueVars>>

-----------------------------------------------------------------------------
(* The client's properties *)

(* _bm_object_get_property: a blocking Get() fails where nobody owns the name. *)
Answered == running # 0

(* _bm_object_get_uint_property, _bm_object_get_boolean_property: where Get()  *)
(* fails the property reads as the zero of its type, and no caller can tell.   *)
Get(value, zero) == IF Answered THEN value ELSE zero

(* bm_client_get_state *)
GetState ==
    IF born = 0 THEN "UNKNOWN"
    ELSE IF cache.state = "UNKNOWN" THEN Get(StateOf(enabled), "UNKNOWN")
    ELSE cache.state

(* bm_client_networking_get_enabled *)
GetEnabled ==
    IF ~cache.have /\ ~cache.enabled THEN Get(enabled, FALSE) ELSE cache.enabled

(* A user asks for both and keeps the answers; the client keeps what it had   *)
(* to ask the daemon for.  have_networking_enabled is set by a notification    *)
(* too, which comes before the listener's.                                     *)
Read(have) ==
    /\ shown' = [state |-> GetState, enabled |-> GetEnabled]
    /\ cache' = [state   |-> IF born = 0 THEN cache.state ELSE GetState,
                 enabled |-> GetEnabled,
                 have    |-> have \/ ~cache.enabled]

ReadProperties ==
    /\ Ready
    /\ Read(cache.have)
    /\ UNCHANGED <<daemonVars, inbox, born, deviceVars, notify>>

(* _bm_object_demarshal_generic, for both properties: what is kept is         *)
(* replaced, and a notification queued.                                       *)
DemarshalGeneric(on) ==
    /\ cache' = [cache EXCEPT !.state = StateOf(on), !.enabled = on]
    /\ notify' = TRUE

(* properties_changed_proxy, handle_property_changed *)
HandlePropertiesChanged ==
    /\ Receive("PropertiesChanged")
    /\ DemarshalGeneric(Head(inbox).enabled)
    /\ UNCHANGED <<daemonVars, born, deviceVars, shown>>

(* deferred_notify_cb: the listener is told, and asks. *)
DeferredNotify ==
    /\ Ready
    /\ notify
    /\ notify' = FALSE
    /\ Read(TRUE)
    /\ UNCHANGED <<daemonVars, inbox, born, deviceVars>>

-----------------------------------------------------------------------------

Daemon ==
    \/ DaemonStarts
    \/ DaemonExits
    \/ AddDevice
    \/ \E p \in Path : RemoveDevice(p)
    \/ Enable

User == ListDevices \/ ReadProperties

Blocked ==
    \/ \E p \in Path : Demarshal(p)
    \/ Listed
    \/ AddedAlone

Handle ==
    \/ HandleDeviceAdded
    \/ HandleDeviceRemoved
    \/ HandlePropertiesChanged
    \/ DeferredNotify

Next == Daemon \/ EmitPropertiesChanged \/ User \/ Blocked \/ Handle

Spec == Init /\ [][Next]_vars

(* Both main loops run, a blocking call ends, and the listener looks at what  *)
(* there is at least once.                                                    *)
FairSpec ==
    /\ Spec
    /\ WF_vars(EmitPropertiesChanged)
    /\ WF_vars(Blocked)
    /\ WF_vars(Handle)
    /\ WF_vars(ReadProperties)

-----------------------------------------------------------------------------
(* Properties *)

(* Every variable has its type. *)
TypeOK ==
    /\ running \in 0 .. MaxStart
    /\ starts \in 0 .. MaxStart
    /\ enabled \in BOOLEAN
    /\ changes \in 0 .. MaxChange
    /\ exported \subseteq Path
    /\ devcount \in 0 .. MaxPath
    /\ changed \in SUBSET BOOLEAN
    /\ announced \in BOOLEAN
    /\ inbox \in Seq(Message)
    /\ born \in {0, 1}
    /\ listed \in BOOLEAN
    /\ devices \subseteq Path
    /\ from \in 0 .. MaxStart
    /\ job \in Jobs
    /\ cache \in [state: States, enabled: BOOLEAN, have: BOOLEAN]
    /\ notify \in BOOLEAN
    /\ shown \in [state: States, enabled: BOOLEAN]

Quiet == inbox = <<>> /\ job = NoJob /\ changed = {} /\ ~notify

(* "Gets all the detected devices": however devices come and go while the     *)
(* list is made and signals queue, and whatever a daemon before left behind,  *)
(* once all is quiet a client that holds a list misses no device.  It holds   *)
(* no other, if the list is the present daemon's.                             *)
DevicesFollow ==
    /\ TypeOK
    /\ Quiet /\ running # 0 /\ listed =>
           /\ exported \subseteq devices
           /\ from = running => devices = exported

(* Whatever was fetched ahead of signals still queued, in the end a listener  *)
(* that asks when it is notified has the setting and the state for good: if   *)
(* the daemon is the one the client was built with, or changed them since.    *)
(* The state is kept from a client that was built before any daemon.          *)
ValuesFollow ==
    <>[](running # 0 /\ (running = born \/ announced) =>
            /\ shown.enabled = enabled
            /\ shown.state = IF born = 0 THEN "UNKNOWN" ELSE StateOf(enabled))
=============================================================================
