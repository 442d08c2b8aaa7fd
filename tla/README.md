# Verification of barcode-utils

TLA+ models of the BarcodeManager daemon, its client library, its command line client, the
applet's settings service and the repository's small services; TLC configurations that check
them on small instances; and TLAPS proofs of the results that matter most for every instance.
`PROJECT.json` lists the components, the runs, the mutants (deliberate bugs that each property
is shown to catch), the source lines each definition stands for, the hazards of the code with
the properties that cover them, and the theorems.

    tlc -config Daemon.cfg DaemonMC      model-check one run
    tlapm DaemonProofs.tla               check one module of proofs

1. The system · 2. The modules · 3. Runs, bounds, fairness · 4. Proofs ·
5. Known disagreements · 6. Not modelled · 7. Plan

## 1. The system

BarcodeManager is a fork of NetworkManager for barcode scanners. Each of its programs is a
GLib main loop, with a single thread but for the old C library. What is hard comes from
*asynchronous* work: D-Bus replies, signals and name changes, PolicyKit answers, GConf
notifications, idle functions and timeouts, each a callback that runs to its end and finds
a state other callbacks have changed since it was started. What is asked by *blocking* calls
is answered out of the present, ahead of signals that still queue.

| component | state | operations and inputs | what is hard | correct when |
|---|---|---|---|---|
| user settings client (`bm-manager.c`) | proxy of the service, authorization chains, hash of connections, batch counter | name owner changes, ListConnections, GetSettings, NewConnection/Updated/Removed | service restarts while calls and chains are out; signals race replies | the hash follows the service, every connection is announced once known, nothing of a gone service stays |
| authorization chain (`bm-manager-auth.c`) | outstanding PolicyKit calls, first error, results | add call, answer, unref | answers in any order, owners that are gone | the callback runs once, after the last answer |
| daemon process (`main.c`, `bm-dbus-manager.c`) | pid file, start-up stage, connection, `started`, reconnect timeout | start, signals, bus loss, retry | several daemons; signals between two steps of `main()`; bus restarts; one of two names refused | one daemon serves; it comes back; it quits when told |
| options, configuration and logging (`main.c`, `bm-logging.c`) | plugin list, level, domains | options, two files, SetLogging | a file that is given up half-way; a refused change | every setting from one source, the last one asked for |
| manager: devices (`bm-manager.c`, `bm-udev-manager.c`) | device list, path counter | query, uevents | nodes that come and go around subscription and query | the list follows the kernel |
| manager: Enable (`bm-manager.c`) | `net_enabled`, `state`, state file, chains | Enable, PolicyKit answer, restart | answers long after the check | only granted calls take effect |
| system settings (`system-settings/`) | plugins, exported connections, permission checks | load, claim, remove; Add, Update, Delete, GetSecrets behind PolicyKit | a connection removed while PolicyKit is asked; memory updated before the disk | every call is answered once; memory, disk and clients agree; only authorized changes |
| permissions (`bm-sysconfig-settings.c`, `bm-remote-settings-system.c`, `ce-polkit-button.c`) | checks in flight, the client's cache, the buttons | GetPermissions, CheckPermissions, PolicyKit's Changed | a change while a check is out | a button allows what PolicyKit allows |
| hostname (the same files) | plugins' hostnames, the client's copy | plugin changes, SaveHostname, GetAll, PropertiesChanged | GetAll races changes | the client shows the daemon's hostname |
| inotify helper | watches with reference counts | add, remove, events | paths of one inode share a watch | every plugin hears of its files |
| property change signals | hash of changed properties, idle source | notify, idle | a notification before the announcement | the last value is announced |
| remote settings (`libbm-glib`) | connections, pending ones, idle functions | init, owner changes, NewConnection/Removed, replies | signals race ListConnections; owner lost and back | the list follows the service; connections-read comes |
| remote connection calls (`libbm-glib`) | calls in flight, the object's settings, references | Update, Delete, GetSecrets, AddConnection | Removed and Updated race the replies | a callback tells what is so |
| client objects (`libbm-glib`) | devices, properties, object cache | signals, blocking calls, daemon restarts | blocking calls overtake signals | the view follows the daemon |
| old C API (`libbm_glib.c`, `bm-online.c`) | worker thread, callbacks, idles, bus watch | register, unregister, shutdown | two threads; a bus that is lost and retried | the library finds its bus again; a shutdown and a wait end |
| connections and settings (`libbm-util`) | settings of a connection | compare, diff, to/from hash, verify, secrets | two traversals that must agree; many types of values | compare, diff and hash agree |
| applet: GConf (`gconf-helpers/`) | directories, cache, idle functions | notifications, D-Bus Update/Delete, timestamps, restart | notifications lag behind the database | what is exported follows GConf; what is written is read back |
| applet: buses (`applet-dbus-manager.c`) | two connections, timer | bus loss, retry | one timer for two buses | one applet serves and comes back |
| command line client (`cli/`) | services waited for, result | one command | two services that finish in any order; deletions | a command ends; a list is complete |
| command line output (`cli/src/utils.c`) | none | fields, escaping, columns | separators inside values, wide characters | scripts read the values back |
| barcode D-Bus service, reader library | open nodes, polling loop | enumeration, monitor, reports | nodes that come and go around enumeration | every scanner is open, codes come in order |
| dispatcher (`callouts/`) | quit timeout, script list | Action, timeout, SIGTERM | a call during the timeout | every call is answered |
| devices, policy, activation, secrets | (section 6) | | | |

The parts meet on the system bus: the daemon is a client of the user settings service (the
applet), a server for libbm-glib (editor, command line client), and asks PolicyKit before it
obeys. Inside the daemon, BMManager owns the user settings client, the device list and the system
settings and shares BMDBusManager's connection.

## 2. The modules

| module | models | role |
|---|---|---|
| `AuthChain` | `bm-manager-auth.c` | operators on a chain, for the modules that start chains |
| `UserSettings`, `UserSettingsMC`, `UserSettingsProofs` | `bm-manager.c`, user settings client | state machine, with the bus, the service and PolicyKit as its environment |
| `Daemon`, `DaemonMC`, `DaemonProofs` | `main.c`, `bm-dbus-manager.c` | state machine of several daemon processes and the bus |
| `Startup` | `main.c`, `bm-logging.c`, SetLogging | options, files and logging of one daemon; proofs in `ManagerProofs` |
| `Manager`, `ManagerMC`, `ManagerProofs` | `bm-manager.c` (devices, Enable), `bm-udev-manager.c` | state machine, with the kernel and PolicyKit |
| `InotifyHelper` | `bm-inotify-helper.c` | plugins, watches and the kernel's queue; proofs in `ManagerProofs` |
| `OldApi` | `libbm_glib.c`, `bm-online.c` | two clients of the old interface, one with two threads, and this daemon |
| `SettingsStore` | what the system settings service promises | abstract specification |
| `SystemSettings`, `SystemSettingsMC`, `SystemSettingsProofs` | `bm-sysconfig-settings.c`, `bm-sysconfig-connection.c`, `bm-exported-connection.c`, `bm-settings-service.c` | state machine that implements `SettingsStore` |
| `Permissions`, `MirrorsMC` | GetPermissions, CheckPermissions, the client's cache, `ce-polkit-button.c` | polkitd, daemon and editor composed; proofs in `DaemonProofs` |
| `Hostname` | hostname of `bm-sysconfig-settings.c` and `bm-remote-settings-system.c` | plugins, daemon, PolicyKit and client composed; proofs in `DaemonProofs` |
| `Follower` | what a client library promises about somebody else's list | abstract specification |
| `RemoteSettings`, `RemoteSettingsMC`, `RemoteSettingsProofs` | `bm-remote-settings.c`, `bm-remote-connection.c` | client and service composed; implements `Follower` |
| `RemoteCalls` | `bm-remote-connection.c`, `bm-settings-connection-interface.c` | a program's calls on a connection, with the daemon; proofs in `ClientObjectsProofs` |
| `ClientObjects`, `ClientObjectsMC`, `ClientObjectsProofs` | `bm-client.c`, `bm-object.c`, `bm-types.c`, `bm-properties-changed-signal.c` | daemon and client composed |
| `Connections`, `ConnectionsProofs` | `bm-connection.c`, `bm-setting*.c` | operators on connections |
| `ValueCompare` | `bm-param-spec-specialized.c` | order of specialized values, as recursive operators |
| `GConfConnections`, `GConfValues` | `gconf-helpers.c` | a connection, and a value of each type, in GConf |
| `ConnectionStore`, `ConnectionStoreMC` | a connection on its way between applet, D-Bus and GConf | state machine over the operators above |
| `GConfSettings` | `bma-gconf-settings.c`, `bma-gconf-connection.c` | the applet's service and the GConf database composed; proofs in `DaemonProofs` |
| `AppletBus` | `applet-dbus-manager.c` | several applets and two buses |
| `CommandLine`, `CommandLineMC` | `cli/src/*.c` | a command from start to end, with two settings services; proofs in `ConnectionsProofs` |
| `Output` | `cli/src/utils.c`, tables of `connections.c` and `devices.c` | what is printed, as functions on texts |
| `BarcodeService`, `BarcodeServiceMC`, `BarcodeServiceProofs` | `barcode-dbus-service.c`, `barcode-reader-glib.c` | kernel, service and reader composed |
| `Dispatcher` | `bm-dispatcher-action.c` | bus, process and script directory |

Several MC modules hold two or more components that do not interact: the variable `part` (or
`program`, `print`) says which of them a behaviour is about, the others stay in an initial
state; in `RemoteSettingsMC` and `CommandLineMC`, where the first component must come to something, the
second starts when the first is done. This is composition for economy only: each state of such a run is a state of one of
its components, and a property of one part is evaluated in its own behaviours.

### UserSettings

One action is one callback of the daemon's main loop. All that arrives over the system bus
is one FIFO (`inbox`): libdbus dispatches replies, signals and the bus's NameOwnerChanged
in the order they came. What the code reads synchronously (NameHasOwner and GetNameOwner in
`user_proxy_init`) is the *present* state of the bus, ahead of the queue: this is why the
proxy can be bound to an instance whose NameOwnerChanged is still to come. PolicyKit's
answers come over another connection, so in any order relative to `inbox`.

- `proxy` is `priv->user_proxy`, by the unique name it is bound to, and how often
  NewConnection was connected on it; `known` is `priv->user_connections`; `perms` the two
  user permissions.
- `calls` are the outstanding ListConnections and GetSettings calls. GetSettings calls belong
  to connection proxies of their own and survive `user_proxy_cleanup`; the listing's call is
  cancelled with its proxy.
- `counter[t]` is the counter that the GetSettings calls of one listing share; the last one
  emits connections-added and frees it. A token stands for the address of the counter.
- An instance of the service is a unique bus name. A restarted service is another instance,
  and numbers its connections from the first path again.
- `announced`, `granted` and `rejected` are history variables; no action reads them.

`priv->authority` is never assigned in this fork, so `HasAuthority` is a parameter. FALSE is the
code as it stands: `user_settings_no_authority` shows that the proxy stays half set up for good,
against what `user_proxy_init` says it does. With TRUE, the code as it was written to run, the two
other runs show what the rest of the component does once somebody answers (section 5).

### Daemon and Startup

A step of `Daemon` is a stretch of `main()` between two points where a signal or another process
can come in, and one callback after that. `pc` names the stretch. The bus is a name table that is
lost when the bus stops; `link` is libdbus's shared connection of a process, `conn` is
`priv->connection`, which may be unset while the shared connection stays open with the names it
got: the reason why `ServingOwnsNames` is worth proving and why `Reconnects` has the
exception `HalfNamed`.

`Startup` is the first part of `main()`: the options, the old and the new configuration file, each
of which an administrator may write in between, and `bm_logging_setup`, called with the options,
with the file's values and later by SetLogging. `setups` is a history of these calls.

### Manager and InotifyHelper

The kernel adds and removes hidraw nodes at any time; from `bm_manager_get` on it also queues
a uevent. `QueryDevices`, `AddQueried` and `RunLoop` are `bm_manager_start` split at the
points where a node can come or go under it. `Enable` is `impl_manager_enable` with its early
returns, among them what `bm_auth_get_caller_uid` finds out about the caller (`CallerUids`);
`EnableNetDone` is the answer of its chain. `Crash` keeps only the state file, which the next daemon
parses (`ParseStateFile`).

In `InotifyHelper` the kernel gives the paths of one inode (hard links) the same watch, which is
why the helper counts references by watch and not by path.

### SystemSettings

A connection exists three times: in a file, in an object of the daemon (`memory`, which is also
what GetSettings and GetSecrets return) and with the clients that heard NewConnection and
Updated (`seen`). `listed` is `priv->connections`, `calls` the PolkitCalls of both files with
what became of them; `canceled` is `call->disposed`. One action is one callback; a call has
two, the arrival (with `check_writable` or `get_plugin`) and PolicyKit's answer.

The plugins are loadable modules which the repository does not contain. They are modelled as
the daemon uses them: `get_connections()` returns an object for every file; connection-added may
come before that, from `init()`; a change of a file is noticed later and taken over through
`bm_sysconfig_connection_update()`; "update" and "delete" write the file and then call the parent's
implementation, or report an error. Two assumptions matter: a plugin drops its reference when a
connection is removed, so that the object is disposed of then, and a connection that a
plugin cannot save is read-only. Without the first a waiting Update would be performed on a removed
object. The code loads the connections at the end of `bm_sysconfig_settings_new`; `Load` may come
at any later time, which allows more.

`SettingsStore` says what that comes to for a client. The refinement mapping (`PublishedAt`,
`Requested`) forgets the objects' memory, the notices still to come and the cancellations: an
answer of PolicyKit is `Perform` or `Refuse`, a notice is `Publish`, `Retract` or nothing. An Update
whose saving failed is a refusal because the *store* is as before; that the object keeps the
refused settings is what `CopiesAgree` has to except (`failed`).

### Permissions and Hostname

Both compose three main loops and two FIFOs: PolicyKit (or the plugins) to the daemon, the daemon
to the client. A permission check allows no interaction, so polkitd answers in the order
it was asked, by the policy of that moment; SaveHostname asks the user, so its answers come in any
order. `ButtonsRight` leaves out a button that was told from the cache, which the code never
refreshes (section 5), and `HostnameFollows` a client whose first GetAll failed.

### RemoteSettings and Follower

Service and client in one module. `inbox` is all the client hears, in one order; `idle` is the idle
function it has scheduled for itself. A version stands for a connection's settings; versions are
never reused, paths are, by a restarted service that counts from the first again. A reply to an object
that went stays in the queue as a `CanceledReply`, which libdbus drops. `Follower` says what the client's users rely on: the
view may lag and skip, but shows nothing that was not published at that path and never goes
back. The mapping forgets the messages, the pending connections and the idle functions.

### RemoteCalls

One connection, the calls a program makes on its object and the callbacks. The daemon's reply and
its signals for the same call share one order, but what else clients and the connection's file
do comes between. The object lives while the list or the program holds a reference; with it
go the calls that it waits for. A program lets go of its references outside of callbacks
and before it lets go of the list: what happens otherwise is in section 5.

### ClientObjects

The daemon's device list, its two properties and the idle function that announces them; the client's
`devices`, `cache` of properties and the `job` it is blocked in. Every blocking call is a step of its
own, so that nodes come and go between the calls that make a list of objects.

### Connections, ValueCompare, GConfConnections, GConfValues, ConnectionStore

`Connections` has no state: a connection is a function on setting types, a setting one on properties.
`Compare` and `Diff` are the two traversals of the code, kept apart, because what can go wrong is
their disagreement. `GConfConnections` writes and reads the same as keys of a directory, `GConfValues`
goes below, to how GConf, without unsigned or 64 bit numbers and NULL, holds a value of each type.
`ConnectionStore` is the applet's object, a copy somebody edits and the directory, with edits in
between by another program, so that conversions start from whatever is left of earlier ones.
The widths `IntBits` and `LongBits` stand for 32 and 64: what happens at the top bit is what the two
depend on.

### GConfSettings

GConf's server (`gconf`), the applet's cache of it, the notifications in between and the idle
functions they cause, one for each directory. A read of a key that is not in the cache goes to the server,
past notifications still queued.

### AppletBus, OldApi, CommandLine, BarcodeService, Dispatcher

`AppletBus`: a step is a stretch between two blocking calls to a bus; a connection is "dead" from the
loss of its bus until its "destroy" is emitted. `OldApi`: the daemon is this repository's, which
refuses `state` and sends StateChanged alone, so that handlers of an answer or of StateChange are never
reached and left out; a step of the worker thread is a handler or a part of one between which the
program's thread may run. `CommandLine`: the lists of the two settings services go on changing while a command
waits; the objects a list holds are not referenced. `BarcodeService`: the kernel gives each open file a
queue of its own, from when it was opened on; a step is a stretch of `main()` between two points where
what the kernel does matters. `Dispatcher`: seconds pass, a call of Action and the end of the
timeout meet in any order.

### Output

Pure functions from fields and values to lines, with `ReadLine` and `ReadField` as the reference: the
script that takes a line apart. They are checked for each combination of mode, fields and values
before the shortest of the commands is run.

## 3. Runs, bounds, fairness

| run | modules | question |
|---|---|---|
| `user_settings_one` | UserSettings | does the hash follow one service through listing, changes, invalid settings and deletions, and is every connection announced? |
| `user_settings_no_authority` | UserSettings | is the set-up of the proxy ever over, with the authority as the code leaves it? (violated) |
| `user_settings_restart` | UserSettings | do counters, signals and the hash survive a restart of the service while calls and chains are out? |
| `daemon` | Daemon; AppletBus | does one daemon serve, come back after an outage, quit when told early? Does one applet serve a session and join its buses again? |
| `manager` | Manager; Startup; InotifyHelper | does the device list follow the kernel, do only granted calls take effect? Is every option from one source? Does every plugin hear of its files? |
| `system_settings` | SystemSettings, SettingsStore | is every request performed at one moment or refused without a trace on disk, do copies agree, is every call answered? |
| `remote_settings` | RemoteSettings, Follower; OldApi | does a client's list follow the service through races and a restart, and never go back? Does the old library find the bus again, does a shutdown return, does bm-online end? |
| `client_objects` | ClientObjects; RemoteCalls | do devices and properties follow the daemon? Is what a callback tells so? |
| `mirrors` | Permissions; Hostname; GConfSettings | do buttons and hostname follow the daemon, is what the applet exports in step with GConf, is every caller answered? |
| `command_line` | CommandLine; Output; ConnectionStore, GConfValues, ValueCompare | does every command end, is a list complete, can scripts read the output? Do compare and diff agree, is what is written what is read? |
| `barcode_service` | BarcodeService; Dispatcher | is every scanner open, are codes printed, once and in order? Is every action answered? |
| `barcode_service_reread` | BarcodeService | is a scanner that is there ever closed? (it is: violated) |

All but the two marked violated hold; those state what comments or a README of the code say, and
TLC shows a behaviour of the code against it (section 5). Parts separated by a semicolon share a run, not a behaviour (section 2).
Exceptions are part of the properties, each stated where it is used and explained in section 5: a
property without its exception is what the code does *not* give.

Bounds. `user_settings_one`: one instance, two paths, one valid and one invalid content, one
queued signal of the environment (the service's replies are not bounded), three calls, two chains:
enough for a signal to overtake a reply and for a batch of two with one failing.
`user_settings_restart`: two instances, so a reply, a chain and a signal of the first meet the
second, with two queued signals; up to the names of the paths, which no step tells apart (SYMMETRY).
`Daemon.cfg`: two processes, one with a pid that `check_pidfile` accepts and one with
a bigger pid, an outage in which a reconnect can fail and be tried again; two
applets of one session and the owner of another, two losses. `Manager.cfg`: a node with and one
without a driver, two plugs (absent at the subscription, doubled at the query, plugged in again
later), two calls of Enable and one restart; one write of a configuration file between the steps that
read them and one SetLogging; two plugins, two paths that may be links of one file. `SystemSettings.cfg`: two files and two paths (a file
removed and written again gets the second one), settings that differ in being read-only, two calls (one
waiting while the other deletes, updates or adds) and an edit.
`RemoteSettings.cfg`: two paths and a service that restarts once with a second
version, or stays and makes a third (`MaxSpent`), so a path is used for an older, a newer and another
service's connection; of the old interface a callback, one loss of the bus, three events of the manager.
`ClientObjects.cfg`: two devices, a daemon that restarts once, two changes, three queued signals; two
calls on a connection that is changed or removed by others once. `Mirrors.cfg`: two buttons, a
change of the policy, a failing check or an exit; two plugins with hostnames, one SaveHostname; two
directories, two new versions, a notification that lags when others write (the applet's own writes add
theirs). Liveness makes this run costly; its three invariants are proved for every bound (section 4).
`CommandLine.cfg`: two connections and three changes outside; of a connection in the store three
edits, with a value for each case verification, comparison or GConf treats in a way of its own. `BarcodeService.cfg`: a scanner and
another node, four descriptors, three of them above the size of the shorter of two reports, two
plugs, two scans (several scanners at once are in the proofs); the
dispatcher's ten seconds are two, with two files and two calls. Every `Max...` constant is a bound, a
guard of an action of the environment or the size of a set of names, and nothing else bounds a run.

CHECK_DEADLOCK is FALSE in every run: a system whose environment has used up its bounds, or
whose processes have all ended, has nothing left to do.

Fairness is assumed of what a main loop, the kernel or libdbus does by itself, never of users, other
programs, the bus or the administrator.

| module | assumed | because |
|---|---|---|
| `UserSettings` | the loop dispatches, `bm_manager_start` is reached, PolicyKit answers, a call ends | libdbus ends every call with a reply, an error of the bus or its timeout |
| `Daemon` | a process that can take a step takes it | main runs on; the three-second timeout and destroy_cb are sources of its loop |
| `AppletBus` | the same; "destroy" is strongly fair | the timer comes again and again, at most every three seconds, and does not starve other sources |
| `SystemSettings`, `Permissions`, `Hostname` | PolicyKit answers what it is asked | its call ends, if only by cancellation; in question is whether the daemon passes it on |
| `RemoteSettings` | replies come, the client handles messages and idle functions | as above |
| `ClientObjects` | both main loops run, a blocking call ends, the listener looks at least once | as above |
| `CommandLine` | bmcli runs, and what began to be read is read | `ReadComes`, the property of `RemoteSettings`, outside its exceptions |
| `BarcodeService`, `Dispatcher` | the programs run, the bus activates, time passes | as above |
| `OldApi` | the worker's loop runs, `libbm_glib_init` and `_shutdown` poll on, a call ends, timers expire | as above; a program need not call anything |

The other modules state safety only.

## 4. Proofs

TLAPS proves the results for every set of instances, paths, files, nodes, processes and for
every bound; `PROJECT.json` lists them under "theorems".

`UserSettingsProofs`. `TypeCorrect`: `Spec => []TypeOK`. `NothingOutlivesService`: with no
owner of the name and no message queued, the hash is empty. The formula is not inductive: late
GetSettings replies and signals do reach the hash after a cleanup. The strengthening says
that whatever can still put something into the hash is *ahead* in `inbox` of a
NameOwnerChanged that will clean it up, whenever the name has no owner. `AnnouncedStaysKnown` is
inductive with the types. `CounterStaysExact` needs `CounterInv`: a listing's counter is right only as
long as no reply is counted that is not out any more (`RepliesOutstanding`; this is why the calls must
survive the cleanup) and none is counted twice (`AnsweredOnce`).

The hash in step with the service is proved in two halves. `NothingStale`: what is held is not out of
date, without any hypothesis. From each held content a line leads along the queue to what is exported,
each message stating the content the next one starts from (`Told`). `SyncedAlways`: nothing is missing
either. The proxy is bound to the owner or word of a change is queued (`ProxyOfOwner`), an owner
granted or asked about has a proxy (`Standing`), and what an owner exports is held or coming, by a
signal, a reply, a call, or a listing that is out and will see it (`NoneMissed`). It has two hypotheses,
because `SyncedWhenQuiet` is false without them. `~SlowService`: a listing that timed out is not asked
for again. `Undisputed`: no failing chain takes away the proxy of an owner granted or being asked about,
which the code does when a denied instance is replaced (section 5; with two instances TLC finds it).
`SyncedAlone` shows that with a single instance, whatever it does, the second always holds.

`RemoteSettingsProofs`. `Implementation`: the client implements `Follower`. For each path there is
a line from what was shown, along the queue, to what the service stores (`Line`): versions never
fall along it, and rise over a fence, which is a Removed, a service's end, or that the client hides
the connection or is about to forget all (`InOrder`). That forgetting never hides a version of the
next service follows from the order of ends and beginnings in the queue (`BackFirst`). Lemmas say
how a line changes when a message is sent, taken or canceled; then there is one for each action.
`FollowsAlways`: what the service exports and the list lacks, or has in an older version, or has too
much, is under way to it. The invariant names for each path what that is: a signal, a reply still
queued or to come, a listing, or an idle function not yet run. `kept` is the exception the property has.

`ClientObjectsProofs`. `DevicesAlwaysFollow`: a device that the list lacks has its DeviceAdded queued or
is in the listing or the addition being worked off (`NoneMissed`); behind the DeviceRemoved of a device that
is there again a DeviceAdded follows (`BackAgain`), also when that removal made the client fetch the list
and leave the device out (`LeftOut`); and what is too much in the list of the present daemon has its
DeviceRemoved queued (`NoneLeft`). `CallsAlwaysSeen`, about `RemoteCalls`:
a call that is out has its reply still to come (`Unanswered`), the signal of what it did is ahead of the
reply on the one line (`SignalFirst`), and the line ends with the daemon's settings (`Current`).

`BarcodeServiceProofs`. `PrintedAlwaysInOrder`: of an "add" that waits, an enumerated node to be opened
and an open descriptor, a device that is not in `crossed` has one at most (`PendingInv`), so one descriptor
is open on it (`SingleInv`); a code sent is older than those left in the queue (`SentFirst`), and the
reader's inbox and output keep that order. `NoCodeEverLost` is the safety half of `ScansPrinted`: a code
owed to the reader is in a queue, sent or printed. `ScannersAllOpen`: a scanner is open, to be opened, has its
"add" queued or was read again (`CoveredInv`), and a round of the loop closes only what lost its device or is
read again (`RoundInv`): a descriptor the loop comes back to behind a short report is put into `reread` in that
step if its queue is empty. `ScannersAllStayOpen` is the corollary without that exception, where no descriptor
is above the size of a report (`FdsBelowSizes`). All hold for any size of a report.

`DaemonProofs`. `TypeCorrect`, `ServiceExclusive`, `RetryNeverLost` and `NoStalePidfile` from one
inductive invariant `DaemonInv`, which adds to the three properties what a stage of `main()`
implies about BMDBusManager (`StageInv`) and whose pid the file can hold (`PidfileInv`). The one
fact about data is `AcquiredWereFree`: RequestName with DO_NOT_QUEUE takes only free names.

`HostnameAlwaysFollows`, also in `DaemonProofs`, is about `Hostname` as `MirrorsMC` composes it. The
property speaks of a client with nothing left to handle; what holds all the time is `LastToldIsNow`: the last
message in the client's queue that tells a hostname tells the one the daemon has now, and if there is none,
the client shows it. A PropertiesChanged is sent in the step that changes what is shown and GetAll reads in the
step that replies, so the order of the queue is all it takes. It needs that a daemon that runs has
its plugins (`PluginsLoaded`: after an exit the new one has the same) and that a client that never called
GetAll was told nothing (`NotYetTold`).

`InStepAlways`, about `GConfSettings`. For each directory the notifications under way lead from the cache to
the database (`NotesTell`), and a directory with no idle function pending is exported as the cache has it
(`SettledAgrees`): every difference between list and database has a notification or an idle function behind
it. That an idle function mends one object and not another of the same directory takes `OneEach`.

`ButtonsAlwaysRight`, about `Permissions`. A button calls again with every CheckPermissions and old replies
may still come, so what counts is its last call. `LastCallsRight`: while no word of a change is under way, what
PolicyKit, the daemon and the queue hold for that call is by the policy of now; and a button whose calls are
all answered shows it (`ShownRight`). That the answer handled last is that of the last call takes the order of both
lines: checks are answered as they were made (`ChecksInTurn`), calls as they were made (`CallsInTurn`), also by the bus
when the daemon exits. `ChecksCounted`, that `permissions_calls` counts exactly the checks under way, is why
the last of them finds all the others found. A new call knows nothing yet, a call that is not the last of
its button counts no more (`NewCallsKnowNothing`), and a CheckPermissions leaves every button with a new one.

`ManagerProofs`. `NothingMissedAlways` and `NoGhostsAlways` rest on the inductive `DeviceInv`,
because both speak of a settled daemon only, with the queue empty, and say nothing of what is
under way: `QueueInv` (the queued uevents of a node alternate and end with its presence),
`PhaseInv` (what the start-up stage implies), `CoveredInv` (a present node is listed, still to be
added from the query, or has an "add" queued) and `ListedInv` (a listed node is one the handled
part of the queue says is there, with a single object). Nodes in `twice` are exempt from the last
(section 5). `OnlyGrantedCalls` needs `ChainsInv` (one chain for each waiting call) and one fact
about the chain's data, `AuthorizedIsYes`; `AsleepFollows` follows from the types.

`FilesAlwaysWatched`, also in `ManagerProofs`, is about `InotifyHelper`. A watch is counted as often as it is
held at least (`Counted`), which needs the other parts of `WatchInv`: the kernel has one watch on a
file (`OneWatch`), so that a plugin that comes later gets the one others hold; who holds a watch holds the
helper (`UsersHold`), so the last unref closes nothing in use; and a held watch is dead only when no path
leads to its file any more (`HeldLives`). Who is owed a write has its event in the queue (`WillHear`).

`StartsAlwaysAsAsked`, about `Startup`, for the file contents and the names of domains that `ManagerMC` has. What
holds at every stage of `main()` is `ReadFromOne`: the three results are those of the content parsed, or all
unset if none was, so a file that is given up must leave none behind. `LastInForce` ties `log_level` and
`log_domains` to the history of calls of `bm_logging_setup`; a refused call may change the level and
never the domains. `AllKeptTogether` carries this and `FilesAlwaysWatched` over to `MCSpec`.

`SystemSettingsProofs`. `SignalsTellTheList`, `CopiesAlwaysAgree` and `Implementation` (the service
implements `SettingsStore`) rest on one invariant `IInv`: a plugin keeps exactly the listed objects
(`KeptIsListed`), one for a file (`OneEach`), so that saving one cannot disturb the copies of another;
a call that waits and is not canceled waits for a listed object (`WaitingIsListed`), which is why
PolicyKit's answer finds a published connection; and what clients were sent is what the object
holds unless saving failed (`SeenIsHeld`). The refinement has a lemma for each action.

`ConnectionsProofs`. `DiffCorrect` (the two traversals agree on any two connections),
`SavingCorrect` (what is written to a directory is read back, whatever was there) and
`SendingCorrect` (a valid connection survives D-Bus, where defaults are left out) are statements about
the operators of `Connections` and `GConfConnections`; the invariant is `TypeOK`, that an operand is
always made of known settings. The lemmas follow the traversals: one setting, then the table.

`ListComplete`, at the end of `ConnectionsProofs`, is about `CommandLine`: the property is inductive with
its types and `LoopWaits`, that bmcli is in its main loop only with `should_wait` set. What ended without it
went through `End`; and a service once read stays read, so a later connections-read always runs the command
again.

The proofs assume what the ASSUMEs of the modules state about constants, which TLC evaluates in
every run of a module that extends them: no value stands for two things, bounds are natural numbers.

Model-checked only: liveness (`EventuallyAnnounced`, `QuitObeyed`, `Reattaches`, `OldApiReturns`,
`Reconnects`, `ComesBack`, `CallsAnswered`, `ReadComes`, `ValuesFollow`, `CallersAnswered`, `Ends`,
`ScansPrinted`, `DispatcherServes`), since the prover has neither fairness nor ENABLED; what recursive
operators compute (`ValueCompare`, `GConfValues`, `Output`), since it has no induction over data:
so of `KeptAsWritten` the part about `GConfConnections` is proved (`SavingCorrect`), the parts about recursive
operators are not, and `LinesReadBack`, about `Output`, is not. Every other invariant and action property
has a theorem.

## 5. Known disagreements

Where the code does not do what its comments, documentation or the rest of it expect. The models
follow the code; where a property needs an exception for one of these, the exception is named.

*Daemon and manager.*
- `priv->authority` is never assigned (`bm-manager.c:722`), so no chain for the user settings can be
  made and the user's connections are never listed: run `user_settings_no_authority`. The other runs of
  `UserSettings` take `HasAuthority = TRUE`.
- A failed chain of an old instance drops the new instance's proxy (`bm-manager.c:656`, 680-683 against
  947-950).
- After a restart of the bus the daemon owns its names but exports nothing there
  (`bm-dbus-manager.c:158-165` against 303-306): `started` and the names are what `Reconnects` speaks of.
- When only one of the two names was acquired, every later attempt takes "already owner" for a refusal:
  `HalfNamed` in `Reconnects`.
- SIGTERM between the check of `quit_early` and `g_main_loop_run` is lost (`main.c:561-565`): why
  `QuitObeyed` leaves out a request made between the two.
- A node plugged in between subscription and query is listed twice, and one object stays when it goes
  (`bm-manager.c:1650`): `twice` in `NoGhosts`.
- The state file is written (`bm-manager.c:1436`) and parsed (`main.c:262`) but what is parsed is not used,
  against the man page.
- The properties' `Set` is answered with success though `glib_propname` is NULL (`bm-manager.c:1026`).
- PolicyKit is asked for org.freedesktop.NetworkManager actions (`bm-manager-auth.h:30`); the installed
  policy has others.
- A refused SetLogging (an unknown domain) leaves the new level in force. NONE gives the empty list of
  domains, which SetLogging takes as "unchanged".
- Inotify helper: a watched file that is replaced is not reported and its watch is dead (IN_IGNORED is
  swallowed); after the last unref `bm_inotify_helper_get` returns a freed object. No plugin here uses it.

*System settings.*
- The read-only check precedes PolicyKit and is not repeated after it (`bm-exported-connection.c:126-129`,
  172-175): an Update granted late is performed on a connection that became read-only.
- An Update that could not be saved leaves the refused settings in the object: `failed` in `CopiesAgree`.
- GetPermissions is never answered if no plugin is capable of anything (`bm-sysconfig-settings.c:1006`).
- `save_hostname` of the client interface rejects the NULL its documentation allows
  (`bm-settings-system-interface.c:30` against 48); changes of UnmanagedSpecs and CanModify reach no client.

*libbm-glib.*
- The permission cache is neither filled anew nor dropped when the policy or the daemon changes between
  two questions (`bm-remote-settings-system.c:173`, `ce-polkit-button.c:135-137`): `cached` in `ButtonsRight`.
- connections-read is not emitted if the last pending connection is removed, or the service goes before it
  was listed: `lost` in `ReadComes`. A service that is back before the idle function ran keeps old
  connections shown: `kept`.
- Removed precedes the reply to Delete: a caller without a reference of its own never has its callback
  called. A callback that drops the last reference makes `remote_call_complete` use freed memory.
  Objects are addressed by name and path: after a restart of the daemon an object held by a user reaches
  whatever connection has the path now.
- `manager_running` of BMClient is never updated (`bm-client.c:622`): after a restart of the daemon the
  client keeps its devices and values; one built before any daemon shows UNKNOWN for ever. The premises of
  `DevicesFollow` and `ValuesFollow` say so. A value that was fetched is for a moment put back by an older
  PropertiesChanged. DeviceAdded is emitted again for a device that is listed.
- `bm-object.c` reads 64 bit values with getters of another type; no property has one.
- Old API: the daemon has no method `state` and sends StateChanged alone, although it means to emit
  StateChange too (`bm-manager.c:1399`): the library never knows its state. A shutdown
  before the worker's `g_main_loop_run` is lost (`libbm_glib.c:430`): the premise of `OldApiReturns`;
  unregistering removes one of several idle functions; idle functions of a shut
  down context are used after free. `bm-online` always ends as not connected with this daemon.

*libbm-util and GConf.*
- `bm_gvalues_compare` finds boxed values of an unknown type equal. `bm_connection_replace_settings` leaves
  invalid settings in the connection it refuses.
- update_one_secret gives `g_value_transform` an uninitialised destination, so a secret of another type always
  fails; `bm_setting_update_secrets` stops at the first error and keeps what it set.
- A D-Bus Update, Delete or AddConnection of the applet never writes GConf: a deleted connection comes back,
  two added ones share a directory (`deleted`, `apart`, `crowded` in `InStep`). SaveTimestamp writes all keys of
  an object that may be stale. Reads that mix cache and server make a connection invalid for a moment.
- `set_stringhash` removes every key of the setting's directory, and maps are never read back.

*Applet, editor, command line.*
- The applet never reaches its main loop at this commit (`applet.c:2203`, context_menu NULL), and
  bm-connection-editor's `main` always exits (`list = NULL`). What is modelled of them is modelled as the
  library code it is written as.
- The applet's timer ends for good when it fired while a bus was away: `late` in `ComesBack`
  (`applet-dbus-manager.c`; the return value contradicts its comment).
- bmcli con waits for ever if no settings service runs (`connections.c:1054`), if the service goes before it
  was read, or on `con up`, which passes no device and whose `--timeout` never starts: `Stuck` in `Ends`.
  Its lists hold unreferenced connections (`connections.c:960`). `bm enable` reports success though Enable
  failed. A NULL value prints as "not set", which a script cannot tell from that text; several lists do not
  check the fields for terse mode.

*Barcode service and dispatcher.*
- The service exits when a node has no USB parent or is gone when opened (`barcode-dbus-service.c:69`). A scanner
  plugged in during enumeration is opened twice and its codes repeat: `crossed` in `PrintedInOrder`. A
  descriptor above the size of a report is read again and closed on EAGAIN (line 296): `reread` in
  `ScannersOpen`, run `barcode_service_reread`. A report of at most
  four bytes announces what the buffer held before. The service does not notice the loss of its bus.
- The dispatcher lists scripts and does not run them (FIXME, line 286), and nothing in the daemon calls it.
  SIGTERM before `g_main_loop_run` is lost; with `--persist` it runs on.

## 6. Not modelled

- Device objects and policy: this fork has commented out the state machine and connects no handler. A hidraw
  device is its name and path, which `Manager` has.
- Activation requests, secrets and the call store: nothing constructs a request, and no handler answers
  manager-get-secrets, so none of their states is reachable. For the same reason the client's permissions,
  activation and active connections (`bm-client.c`) have no counterpart to be modelled with.
- Unmanaged specs and time stamps of the system settings; the manager's `dispose` and `prop_filter`; the
  look-ups of callers' user ids outside of `Enable`, which are blocking calls.
- `bm-utils.c`, dumping of connections and registration of types: pure helpers no property tells apart.
- Widgets, menus, icons and dialogs of the applet and the editor; the Bluetooth plugin and
  `nmn-mobile-providers.c`, which are not built; XML and character set conversion.
- Texts, logging of messages, syslog, backtraces; the syntax of the state file.
- `check_pidfile` reads a process name from `/proc`; pids are not reused in the model.
- `Start` in `UserSettings`, `Load` in `SystemSettings` and the activation of services by the bus are
  single steps, though they consist of blocking calls to others.

## 7. Plan

What would come next, most important first:

1. The recursive operators of `ValueCompare`, `GConfValues` and `Output` as folds, for a prover with
   induction over data.
2. The permission cache across restarts of the daemon, once the code invalidates it; activation and
   secrets, once something constructs a request.
