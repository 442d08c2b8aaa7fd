--------------------------- MODULE RemoteSettings ---------------------------
(***************************************************************************)
(* libbm-glib's BMRemoteSettings and BMRemoteConnection: a client's list   *)
(* of the connections that a settings service, the user's or the system's, *)
(* exports on the bus.                                                     *)
(*                                                                         *)
(* The client is one main loop.  All it hears comes in one FIFO (inbox):   *)
(* the service's signals, replies, and the bus's NameOwnerChanged.  What   *)
(* it starts by itself, listing the connections of a service that came and *)
(* forgetting those of one that went, waits for an idle function.  A       *)
(* connection is shown to users once its settings have come.               *)
(*                                                                         *)
(* A service that restarts numbers its paths from the first again; every   *)
(* change of what it exports has a version, which stands for the settings. *)
(***************************************************************************)
EXTENDS Naturals, Sequences

CONSTANTS
    Path,       \* D-Bus paths of connections, by the number they end with
    MaxStart,   \* bound: how often the service is started
    MaxVersion, \* bound: changes of what services export
    MaxInbox    \* bound: messages under way when a service acts by itself

ASSUME RemoteSettingsAssumption ==
    /\ Path \subseteq Nat
    /\ {MaxStart, MaxVersion} \subseteq Nat \ {0}
    /\ MaxInbox \in Nat

VARIABLES
    running,    \* bus: the service that owns the name, by number; 0 for none
    starts,     \* how many there were
    version,    \* changes so far
    store,      \* service: the version it exports at each path; 0 for none
    used,       \* service: the paths it has numbered
    calls,      \* client's calls that have no reply yet
    inbox,      \* messages for the client
    idle,       \* priv->fetch_id: the idle function that waits, if any
    pending,    \* priv->pending: the paths whose settings are to come
    view,       \* priv->connections: the version held at each path; 0 for none
    read,       \* history: connections-read was emitted
    lost,       \* history: what was to emit connections-read was given up
    kept,       \* history: remove_connections was called off
    published,  \* history: the versions exported at each path
    top         \* history: the newest version held at each path

busVars     == <<running, starts>>
serviceVars == <<version, store, used, published>>
historyVars == <<lost, kept>>
clientVars  == <<idle, pending, view, read, lost, kept, top>>
vars == <<running, starts, version, store, used, calls, inbox, idle, pending, view,
          read, lost, kept, published, top>>

-----------------------------------------------------------------------------
(* Data *)

None == 0

(* A call of the list itself, or of the object that is pending at a path.   *)
(* The first listing may cross the one for a service that just came.        *)
ListCall(to, n) == [kind |-> "list", to |-> to, of |-> n]
GetCall(to, p)  == [kind |-> "get", to |-> to, of |-> p]

CallSet ==
    [kind: {"list"}, to: 0 .. MaxStart, of: {1, 2}] \union
    [kind: {"get"}, to: 0 .. MaxStart, of: Path]

NameOwnerChanged(there) == [type |-> "NameOwnerChanged", there |-> there]
NewConnection(p)        == [type |-> "NewConnection", path |-> p]
Updated(p, v)           == [type |-> "Updated", path |-> p, version |-> v]
Removed(p)              == [type |-> "Removed", path |-> p]
ListReply(paths)        == [type |-> "ListReply", paths |-> paths]
ListError               == [type |-> "ListError"]
SettingsReply(p, v)     == [type |-> "SettingsReply", path |-> p, version |-> v]
SettingsError(p)        == [type |-> "SettingsError", path |-> p]
CanceledReply           == [type |-> "CanceledReply"]

Message ==
    [type: {"NameOwnerChanged"}, there: BOOLEAN] \union
    [type: {"NewConnection", "Removed", "SettingsError"}, path: Path] \union
    [type: {"Updated", "SettingsReply"}, path: Path, version: 1 .. MaxVersion] \union
    [type: {"ListReply"}, paths: SUBSET Path] \union
    [type: {"ListError", "CanceledReply"}]

Exported == {p \in Path : store[p] # None}

(* A service counts the connections it exports: their paths are the first.  *)
Numbered == {P \in SUBSET Path : \A p \in P, q \in Path : q < p => q \in P}

(* BMRemoteSettings is built whether or not a service is there. *)
Init ==
    /\ running \in {0, 1}
    /\ starts = running
    /\ version = running
    /\ used \in Numbered
    /\ running = 0 => used = {}
    /\ store = [p \in Path |-> IF p \in used THEN version ELSE None]
    /\ published = used \X {version}
    /\ calls = {}
    /\ inbox = <<>>
    /\ idle = "fetch"
    /\ pending = {}
    /\ view = [p \in Path |-> None]
    /\ read = FALSE
    /\ lost = FALSE
    /\ kept = FALSE
    /\ top = [p \in Path |-> None]

-----------------------------------------------------------------------------
(* The service and the bus *)

Room == Len(inbox) < MaxInbox /\ version < MaxVersion

Send(m) == inbox' = Append(inbox, m)

ServiceStarts ==
    /\ Room
    /\ running = 0
    /\ starts < MaxStart
    /\ starts' = starts + 1
    /\ running' = starts'
    /\ version' = version + 1
    /\ used' \in Numbered
    /\ store' = [p \in Path |-> IF p \in used' THEN version' ELSE None]
    /\ published' = published \union (used' \X {version'})
    /\ Send(NameOwnerChanged(TRUE))
    /\ UNCHANGED <<calls, clientVars>>

ServiceExits ==
    /\ Len(inbox) < MaxInbox
    /\ running # 0
    /\ running' = 0
    /\ store' = [p \in Path |-> None]
    /\ used' = {}
    /\ Send(NameOwnerChanged(FALSE))
    /\ UNCHANGED <<starts, version, published, calls, clientVars>>

Export(p) ==
    /\ Room
    /\ running # 0
    /\ p \notin used
    /\ used' = used \union {p}
    /\ used' \in Numbered
    /\ version' = version + 1
    /\ store' = [store EXCEPT ![p] = version']
    /\ published' = published \union {<<p, version'>>}
    /\ Send(NewConnection(p))
    /\ UNCHANGED <<busVars, calls, clientVars>>

Update(p) ==
    /\ Room
    /\ p \in Exported
    /\ version' = version + 1
    /\ store' = [store EXCEPT ![p] = version']
    /\ published' = published \union {<<p, version'>>}
    /\ Send(Updated(p, version'))
    /\ UNCHANGED <<busVars, used, calls, clientVars>>

Delete(p) ==
    /\ Len(inbox) < MaxInbox
    /\ p \in Exported
    /\ store' = [store EXCEPT ![p] = None]
    /\ Send(Removed(p))
    /\ UNCHANGED <<busVars, version, used, published, calls, clientVars>>

(* The service answers, or the bus does because it is gone or not there. *)
AnswerList(c) ==
    /\ c.kind = "list"
    /\ c.to = running /\ running # 0
    /\ Send(ListReply(Exported))

AnswerGetSettings(c) ==
    /\ c.kind = "get"
    /\ c.to = running /\ running # 0
    /\ Send(IF c.of \in Exported THEN SettingsReply(c.of, store[c.of]) ELSE SettingsError(c.of))

FailCall(c) ==
    /\ c.to # running \/ running = 0
    /\ Send(IF c.kind = "list" THEN ListError ELSE SettingsError(c.of))

Answer(c) ==
    /\ c \in calls
    /\ calls' = calls \ {c}
    /\ AnswerList(c) \/ AnswerGetSettings(c) \/ FailCall(c)
    /\ UNCHANGED <<busVars, serviceVars, clientVars>>

-----------------------------------------------------------------------------
(* The client *)

(* Objects at P that wait for their settings are disposed of: their calls   *)
(* are canceled, and a reply that is under way will find no pending call.   *)
Canceled(P) == {c \in calls : ~(c.kind = "get" /\ c.of \in P)}

Muted(messages, P) ==
    [i \in DOMAIN messages |->
        IF messages[i].type \in {"SettingsReply", "SettingsError"} /\ messages[i].path \in P
        THEN CanceledReply
        ELSE messages[i]]

(* fetch_connections *)
FetchConnections ==
    /\ idle = "fetch"
    /\ idle' = "none"
    /\ \E n \in {1, 2} :
          /\ n = 1 \/ ListCall(running, 1) \in calls
          /\ ListCall(running, n) \notin calls
          /\ calls' = calls \union {ListCall(running, n)}
    /\ UNCHANGED <<busVars, serviceVars, inbox, pending, view, read, historyVars, top>>

(* connection_removed_cb for the objects at P: they go from both tables.     *)
(* Nobody looks whether the last pending one went.                          *)
Forget(P) ==
    /\ view' = [p \in Path |-> IF p \in P THEN None ELSE view[p]]
    /\ pending' = pending \ P
    /\ lost' = (lost \/ (pending # {} /\ pending \subseteq P))

(* remove_connections *)
RemoveConnections ==
    /\ idle = "remove"
    /\ idle' = "none"
    /\ LET P == {p \in Path : view[p] # None}
       IN  /\ Forget(P)
           /\ calls' = Canceled(P)
           /\ inbox' = Muted(inbox, P)
    /\ UNCHANGED <<busVars, serviceVars, read, kept, top>>

Hears(type) == inbox # <<>> /\ Head(inbox).type = type

Receive(type) == Hears(type) /\ inbox' = Tail(inbox)

(* Mutant of HandleNameOwnerChanged: a service that is gone is listed too. *)
HandleNameOwnerChangedFetches ==
    /\ Receive("NameOwnerChanged")
    /\ idle' = "fetch"
    /\ UNCHANGED <<busVars, serviceVars, calls, pending, view, read, lost, kept, top>>

(* name_owner_changed: whatever idle function waits is called off, a        *)
(* remove_connections of the service before too.                            *)
HandleNameOwnerChanged ==
    /\ Receive("NameOwnerChanged")
    /\ idle' = IF Head(inbox).there THEN "fetch" ELSE "remove"
    /\ kept' = (kept \/ (idle = "remove" /\ Head(inbox).there))
    /\ lost' = (lost \/ (idle = "fetch" /\ ~Head(inbox).there))
    /\ UNCHANGED <<busVars, serviceVars, calls, pending, view, read, top>>

(* new_connection_cb for the paths of P: each gets an object that asks for  *)
(* its settings; an object that was pending at the path is dropped.         *)
NewConnections(P) ==
    /\ pending' = pending \union P
    /\ calls' = Canceled(P) \union {GetCall(running, p) : p \in P}
    /\ inbox' = Muted(Tail(inbox), P)

HandleNewConnection ==
    /\ Hears("NewConnection")
    /\ NewConnections({Head(inbox).path})
    /\ UNCHANGED <<busVars, serviceVars, idle, view, read, lost, kept, top>>

(* fetch_connections_done: an empty list is read at once. *)
HandleListReply ==
    /\ Hears("ListReply")
    /\ NewConnections(Head(inbox).paths)
    /\ read' = (read \/ Head(inbox).paths = {})
    /\ UNCHANGED <<busVars, serviceVars, idle, view, lost, kept, top>>

(* fetch_connections_done with an error *)
HandleListError ==
    /\ Receive("ListError")
    /\ read' = TRUE
    /\ UNCHANGED <<busVars, serviceVars, calls, idle, pending, view, historyVars, top>>

(* Mutant of Settled: the signal waits for one connection more. *)
SettledNever(p) ==
    /\ pending' = pending \ {p}
    /\ read' = (read \/ pending = {})

(* The end of connection_init_result_cb: the last one says connections-read. *)
Settled(p) ==
    /\ pending' = pending \ {p}
    /\ read' = (read \/ pending = {p})

(* The object goes to priv->connections, in the place of any other at its   *)
(* path, and users hear new-connection.                                     *)
Shown(p, v) ==
    /\ view' = [view EXCEPT ![p] = v]
    /\ top' = [top EXCEPT ![p] = v]

(* get_settings_cb and connection_init_result_cb *)
HandleSettingsReply ==
    /\ Receive("SettingsReply")
    /\ Shown(Head(inbox).path, Head(inbox).version)
    /\ Settled(Head(inbox).path)
    /\ UNCHANGED <<busVars, serviceVars, calls, idle, historyVars>>

(* get_settings_cb with an error *)
HandleSettingsError ==
    /\ Receive("SettingsError")
    /\ Settled(Head(inbox).path)
    /\ UNCHANGED <<busVars, serviceVars, calls, idle, view, historyVars, top>>

(* libdbus drops what answers no pending call. *)
HandleCanceledReply ==
    /\ Receive("CanceledReply")
    /\ UNCHANGED <<busVars, serviceVars, calls, clientVars>>

(* Mutant of HandleUpdated: an idle function does it, behind what is here. *)
HandleUpdatedLater ==
    /\ Hears("Updated")
    /\ LET p == Head(inbox).path
       IN  \/ /\ view[p] # None
              /\ view' = [view EXCEPT ![p] = Head(inbox).version]
              /\ top' = [top EXCEPT ![p] = Head(inbox).version]
              /\ inbox' = Tail(inbox)
           \/ inbox' = Append(Tail(inbox), Head(inbox)) /\ UNCHANGED <<view, top>>
    /\ UNCHANGED <<busVars, serviceVars, calls, idle, pending, read, historyVars>>

(* updated_cb of the object that is shown; what a pending one is told here   *)
(* is overwritten by the settings it waits for.                             *)
HandleUpdated ==
    /\ Receive("Updated")
    /\ LET p == Head(inbox).path
       IN  \/ /\ view[p] # None
              /\ view' = [view EXCEPT ![p] = Head(inbox).version]
              /\ top' = [top EXCEPT ![p] = Head(inbox).version]
           \/ view[p] = None /\ UNCHANGED <<view, top>>
    /\ UNCHANGED <<busVars, serviceVars, calls, idle, pending, read, historyVars>>

(* removed_cb, at a path that an object has *)
HandleRemoved ==
    /\ Hears("Removed")
    /\ LET P == {Head(inbox).path}
       IN  Forget(P) /\ calls' = Canceled(P) /\ inbox' = Muted(Tail(inbox), P)
    /\ UNCHANGED <<busVars, serviceVars, idle, read, kept, top>>

-----------------------------------------------------------------------------

Service ==
    \/ ServiceStarts
    \/ ServiceExits
    \/ \E p \in Path : Export(p) \/ Update(p) \/ Delete(p)

Handle ==
    \/ HandleNameOwnerChanged
    \/ HandleNewConnection
    \/ HandleListReply
    \/ HandleListError
    \/ HandleSettingsReply
    \/ HandleSettingsError
    \/ HandleCanceledReply
    \/ HandleUpdated
    \/ HandleRemoved

Idle == FetchConnections \/ RemoveConnections

Reply == \E c \in calls : Answer(c)

Next == Service \/ Reply \/ Handle \/ Idle

Spec == Init /\ [][Next]_vars

(* The client's main loop runs, and every call ends with the service's or   *)
(* the bus's reply.                                                         *)
FairSpec ==
    /\ Spec
    /\ WF_vars(Reply)
    /\ WF_vars(Handle)
    /\ WF_vars(Idle)

-----------------------------------------------------------------------------
(* Properties *)

(* Every variable has its type. *)
TypeOK ==
    /\ running \in 0 .. MaxStart
    /\ starts \in 0 .. MaxStart
    /\ version \in 0 .. MaxVersion
    /\ store \in [Path -> 0 .. MaxVersion]
    /\ used \subseteq Path
    /\ calls \subseteq CallSet
    /\ inbox \in Seq(Message)
    /\ idle \in {"none", "fetch", "remove"}
    /\ pending \subseteq Path
    /\ view \in [Path -> 0 .. MaxVersion]
    /\ {read, lost, kept} \subseteq BOOLEAN
    /\ published \subseteq Path \X (1 .. MaxVersion)
    /\ top \in [Path -> 0 .. MaxVersion]

Quiet == inbox = <<>> /\ calls = {} /\ idle = "none"

(* When nothing is under way, the client holds every connection the service *)
(* exports, in its present version, and waits for none: no signal that      *)
(* raced a listing, a reply or a restart was lost.  It holds no other,      *)
(* unless the service was back before the client came to forget it.         *)
FollowsWhenQuiet ==
    /\ TypeOK
    /\ Quiet =>
           /\ pending = {}
           /\ \A p \in Exported : view[p] = store[p]
           /\ \A p \in Path \ Exported : view[p] = None \/ kept

Followed == INSTANCE Follower WITH Nothing <- None

(* RemoteSettings implements Follower: whatever order replies, signals and  *)
(* restarts come in, the client never shows settings that were not exported *)
(* at that path, and never goes back to older ones.                         *)
FollowerSpec == Followed!Spec

(* "Let listeners know that all connections have been found": whoever waits *)
(* for connections-read hears it in the end, service or not, unless the     *)
(* last connection the client waited for was removed or the service went    *)
(* before the client came to list its connections.                          *)
ReadComes == <>(read \/ lost)
=============================================================================
