---------------------------- MODULE UserSettings ----------------------------
(***************************************************************************)
(* The daemon's view of the user settings service (bm-manager.c): how      *)
(* BMManager follows the owner of the service's bus name, asks PolicyKit   *)
(* whether that owner may provide connections, lists and fetches them and  *)
(* keeps its hash of user connections in step with the service's signals.  *)
(*                                                                         *)
(* The daemon is one main loop: each action below is one callback, run to  *)
(* its end.  Everything it hears from the bus arrives in one FIFO (inbox): *)
(* replies, signals of the service and the bus daemon's NameOwnerChanged.  *)
(* PolicyKit answers on a connection of its own, in any order.  What the   *)
(* daemon reads synchronously (NameHasOwner, GetNameOwner) is the bus's    *)
(* state at that moment, ahead of the signals still queued in inbox.       *)
(*                                                                         *)
(* Service instances are unique bus names: an instance that exited never   *)
(* comes back, a restarted service is another instance, and it numbers     *)
(* its connections from the same first object path again.                  *)
(***************************************************************************)
EXTENDS Integers, Sequences, FiniteSets, AuthChain

CONSTANTS
    Service,        \* instances of the user settings service
    NoService,      \* the bus name has no owner
    Path,           \* object paths of exported connections
    Content,        \* settings a connection may carry
    Valid,          \* the settings bm_connection_new_from_hash() accepts
    NoConnection,   \* no connection known, or exported, at a path
    Deleted,        \* a path the service has used up
    HasAuthority,   \* priv->authority is set: PolicyKit calls are answered
    SlowService,    \* a call may outlive its D-Bus timeout
    Refused,        \* <<instance, permission>> pairs PolicyKit says no to
    MaxInbox,       \* bound: signals the environment queues before they are handled
    MaxToken,       \* bound: method calls in flight
    MaxChain        \* bound: authorization chains in flight

ASSUME UserSettingsAssumption ==
    /\ NoService \notin Service
    /\ IsFiniteSet(Path)
    /\ Valid \subseteq Content
    /\ {NoConnection, Deleted} \cap Content = {}
    /\ NoConnection # Deleted
    /\ {HasAuthority, SlowService} \subseteq BOOLEAN
    /\ {MaxInbox, MaxToken, MaxChain} \subseteq Nat

VARIABLES
    owner,      \* bus: who owns the user settings name
    exited,     \* bus: the instances that have come and gone
    exported,   \* the running service: what it exports at each path
    inbox,      \* messages for the daemon, in the order the bus sent them
    started,    \* bm_manager_start() has run
    proxy,      \* priv->user_proxy: its unique name, how often its signals are connected
    chains,     \* priv->auth_chains
    perms,      \* priv->user_con_perm, priv->user_net_perm
    known,      \* priv->user_connections
    calls,      \* outstanding ListConnections and GetSettings calls
    counter,    \* the counter shared by the GetSettings calls of one listing
    announced,  \* history: paths that the emitted signals left announced
    granted,    \* history: instances whose authorization chain said yes
    rejected    \* history: paths whose settings were once found invalid

busVars     == <<owner, exited, exported>>
managerVars == <<started, proxy, chains, perms, known, calls, counter, announced, granted, rejected>>
vars        == <<owner, exited, exported, inbox, started, proxy, chains, perms,
                 known, calls, counter, announced, granted, rejected>>

-----------------------------------------------------------------------------
(* Data *)

ConPerm     == "use-user-connections"
NetPerm     == "network-control"
Permissions == {ConPerm, NetPerm}

Token   == 1 .. MaxToken
ChainId == 1 .. MaxChain
Owners  == Service \union {NoService}

NoProxy == [service |-> NoService, wired |-> 0]

Call(token, to, kind, path, batched) ==
    [token |-> token, to |-> to, kind |-> kind, path |-> path, batched |-> batched]
ListCalls == [token: Token, to: Owners, kind: {"list"}, path: {NoConnection}, batched: {FALSE}]
GetCalls  == [token: Token, to: Owners, kind: {"get"}, path: Path, batched: BOOLEAN]
CallSet   == ListCalls \union GetCalls

(* Messages.  A reply carries the token and path of the call it answers. *)
NameOwnerChanged(old, new)     == [type |-> "NameOwnerChanged", old |-> old, new |-> new]
NewConnection(s, p)            == [type |-> "NewConnection", from |-> s, path |-> p]
Removed(s, p)                  == [type |-> "Removed", from |-> s, path |-> p]
Updated(s, p, c)               == [type |-> "Updated", from |-> s, path |-> p, settings |-> c]
ListReply(s, call, paths)      == [type |-> "ListReply", from |-> s, call |-> call, paths |-> paths]
SettingsReply(s, call, c)      == [type |-> "SettingsReply", from |-> s, call |-> call, settings |-> c]
ErrorReply(call)               == [type |-> "ErrorReply", call |-> call]

Message ==
    [type: {"NameOwnerChanged"}, old: Owners, new: Owners] \union
    [type: {"NewConnection", "Removed"}, from: Service, path: Path] \union
    [type: {"Updated"}, from: Service, path: Path, settings: Content] \union
    [type: {"ListReply"}, from: Service, call: ListCalls, paths: SUBSET Path] \union
    [type: {"SettingsReply"}, from: Service, call: GetCalls, settings: Content] \union
    [type: {"ErrorReply"}, call: CallSet]

Replies == {"ListReply", "SettingsReply", "ErrorReply"}

Queued        == {inbox[i] : i \in DOMAIN inbox}
QueuedReplies == {m \in Queued : m.type \in Replies}
Answered(c)   == \E m \in QueuedReplies : m.call = c

(* The n lowest tokens that neither an outstanding call nor a queued reply uses. *)
UsedTokens == {c.token : c \in calls} \union {m.call.token : m \in QueuedReplies}
FreshTokens(n) ==
    {T \in SUBSET (Token \ UsedTokens) :
        /\ Cardinality(T) = n
        /\ \A t \in T : \A u \in (Token \ UsedTokens) \ T : t < u}

Known            == {p \in Path : known[p] # NoConnection}
Exported         == {p \in Path : exported[p] \in Content}
PendingGets(p)   == {c \in calls : c.kind = "get" /\ c.path = p}
BatchCalls(t)    == {c \in calls : c.kind = "get" /\ c.batched /\ c.token = t}

Init ==
    /\ owner = NoService
    /\ exited = {}
    /\ exported = [p \in Path |-> NoConnection]
    /\ inbox = <<>>
    /\ started = FALSE
    /\ proxy = NoProxy
    /\ chains = {}
    /\ perms = [p \in Permissions |-> "UNKNOWN"]
    /\ known = [p \in Path |-> NoConnection]
    /\ calls = {}
    /\ counter = [t \in Token |-> 0]
    /\ announced = {}
    /\ granted = {}
    /\ rejected = {}

-----------------------------------------------------------------------------
(* The user settings service and the bus *)

Room == Len(inbox) < MaxInbox

Send(m) == inbox' = Append(inbox, m)

(* A signal reaches the daemon only under a match rule, one per live proxy. *)
SendIf(cond, m) == IF cond THEN Send(m) ELSE UNCHANGED inbox

(* A fresh instance claims the free name (DO_NOT_QUEUE), its connections loaded. *)
ServiceStarts(s) ==
    /\ Room
    /\ owner = NoService
    /\ s \notin exited
    /\ owner' = s
    /\ exported' \in [Path -> Content \union {NoConnection}]
    /\ Send(NameOwnerChanged(NoService, s))
    /\ UNCHANGED <<exited, managerVars>>

(* The process ends; what it sent before is ahead of the bus's own signal. *)
ServiceExits(s) ==
    /\ owner = s
    /\ owner' = NoService
    /\ exited' = exited \union {s}
    /\ exported' = [p \in Path |-> NoConnection]
    /\ Send(NameOwnerChanged(s, NoService))
    /\ UNCHANGED managerVars

ExportConnection(s, p, c) ==
    /\ Room
    /\ owner = s
    /\ exported[p] = NoConnection
    /\ exported' = [exported EXCEPT ![p] = c]
    /\ SendIf(proxy.service = s, NewConnection(s, p))
    /\ UNCHANGED <<owner, exited, managerVars>>

HasConnectionProxy(p) == p \in Known \/ PendingGets(p) # {}

UpdateConnection(s, p, c) ==
    /\ Room
    /\ owner = s
    /\ exported[p] \in Content \ {c}
    /\ exported' = [exported EXCEPT ![p] = c]
    /\ SendIf(HasConnectionProxy(p), Updated(s, p, c))
    /\ UNCHANGED <<owner, exited, managerVars>>

(* Paths are numbered by a counter, so a deleted one is not used again. *)
DeleteConnection(s, p) ==
    /\ Room
    /\ owner = s
    /\ exported[p] \in Content
    /\ exported' = [exported EXCEPT ![p] = Deleted]
    /\ SendIf(HasConnectionProxy(p), Removed(s, p))
    /\ UNCHANGED <<owner, exited, managerVars>>

AnswerList(c) ==
    /\ c.kind = "list"
    /\ c.to \in Service
    /\ owner = c.to
    /\ ~Answered(c)
    /\ Send(ListReply(c.to, c, Exported))
    /\ UNCHANGED <<busVars, managerVars>>

AnswerGetSettings(c) ==
    /\ c.kind = "get"
    /\ c.to \in Service
    /\ owner = c.to
    /\ ~Answered(c)
    /\ Send(IF c.path \in Exported THEN SettingsReply(c.to, c, exported[c.path])
                                   ELSE ErrorReply(c))
    /\ UNCHANGED <<busVars, managerVars>>

(* The peer is gone, or libdbus queues the error of a call that timed out. *)
FailCall(c) ==
    /\ ~Answered(c)
    /\ c.to # owner \/ c.to = NoService \/ SlowService
    /\ Send(ErrorReply(c))
    /\ UNCHANGED <<busVars, managerVars>>

-----------------------------------------------------------------------------
(* The daemon *)

(* Mutants of UserProxyCleanup: connections are dropped without a signal;   *)
(* the outstanding GetSettings calls are dropped uncounted.                 *)
UserProxyCleanupSilent ==
    /\ known' = [p \in Path |-> NoConnection]
    /\ rejected' = {}
    /\ proxy' = NoProxy
    /\ calls' = {c \in calls : c.kind = "get"}
    /\ UNCHANGED announced

UserProxyCleanupDropsCalls ==
    /\ announced' = announced \ Known
    /\ known' = [p \in Path |-> NoConnection]
    /\ rejected' = {}
    /\ proxy' = NoProxy
    /\ calls' = {}

(* user_proxy_cleanup: every known connection is reported removed and       *)
(* dropped; the proxy goes, and its outstanding ListConnections with it.    *)
(* GetSettings calls belong to proxies of their own and stay outstanding.   *)
UserProxyCleanup ==
    /\ announced' = announced \ Known
    /\ known' = [p \in Path |-> NoConnection]
    /\ rejected' = {}
    /\ proxy' = NoProxy
    /\ calls' = {c \in calls : c.kind = "get"}

ChainStarted ==
    \E id \in ChainId :
        /\ \A ch \in chains : ch.id # id
        /\ \A j \in 1 .. (id - 1) : \E ch \in chains : ch.id = j
        /\ chains' = chains \union {[id |-> id, chain |-> NewChain(owner, Permissions)]}

(* bm_dbus_manager_name_has_owner, a blocking call to the bus *)
NameHasOwner == owner # NoService

(* user_proxy_init: nothing to do when a proxy exists or nobody owns the name. *)
UserProxyInit ==
    \/ /\ proxy # NoProxy \/ ~NameHasOwner
       /\ UNCHANGED <<proxy, chains>>
    \/ /\ proxy = NoProxy
       /\ NameHasOwner
       /\ proxy' = [service |-> owner, wired |-> 0]
       /\ ChainStarted

(* bm_manager_start: the settings service may already be there. *)
Start ==
    /\ ~started
    /\ started' = TRUE
    /\ UserProxyInit
    /\ UNCHANGED <<busVars, inbox, perms, known, calls, counter, announced, granted, rejected>>

(* Dispatch the next message to the handler that follows. *)
Receive(type) ==
    /\ started
    /\ inbox # <<>>
    /\ Head(inbox).type = type
    /\ inbox' = Tail(inbox)

(* Mutant of HandleNameOwnerChanged: without a proxy nothing is cleaned up. *)
HandleNameOwnerChangedWithProxy ==
    /\ Receive("NameOwnerChanged")
    /\ LET m == Head(inbox)
       IN  \/ /\ m.old = NoService /\ m.new # NoService
              /\ UserProxyInit
              /\ UNCHANGED <<known, calls, announced, rejected>>
           \/ /\ ~(m.old = NoService /\ m.new # NoService)
              /\ proxy # NoProxy
              /\ UserProxyCleanup
              /\ UNCHANGED chains
           \/ /\ ~(m.old = NoService /\ m.new # NoService)
              /\ proxy = NoProxy
              /\ UNCHANGED <<proxy, chains, known, calls, announced, rejected>>
    /\ UNCHANGED <<busVars, started, perms, counter, granted>>

(* bm_manager_name_owner_changed *)
HandleNameOwnerChanged ==
    /\ Receive("NameOwnerChanged")
    /\ LET m == Head(inbox)
       IN  \/ /\ m.old = NoService /\ m.new # NoService
              /\ UserProxyInit
              /\ UNCHANGED <<known, calls, announced, rejected>>
           \/ /\ ~(m.old = NoService /\ m.new # NoService)
              /\ UserProxyCleanup
              /\ UNCHANGED chains
    /\ UNCHANGED <<busVars, started, perms, counter, granted>>

(* user_settings_authorized: both permissions must be obtainable. *)
UserSettingsAuthorized(chain) ==
    \A p \in Permissions : chain.data[p] \in Obtainable

(* user_proxy_auth_done, run by the last PolicyKit answer of a chain.  The   *)
(* chain acts on whatever proxy the manager holds by now, if any.           *)
UserProxyAuthDone(chain) ==
    LET authorized == ~chain.error /\ UserSettingsAuthorized(chain)
    IN  /\ perms' = IF chain.error THEN perms ELSE chain.data
        /\ granted' = IF authorized THEN granted \union {chain.owner} ELSE granted
        /\ \/ /\ authorized
              /\ proxy # NoProxy
              /\ proxy' = [proxy EXCEPT !.wired = @ + 1]
              /\ \E T \in FreshTokens(1) : calls' = calls \union
                    {Call(t, proxy.service, "list", NoConnection, FALSE) : t \in T}
              /\ UNCHANGED <<known, announced, rejected>>
           \/ /\ authorized
              /\ proxy = NoProxy
              /\ UNCHANGED <<proxy, calls, known, announced, rejected>>
           \/ /\ ~authorized
              /\ UserProxyCleanup

(* PolicyKit's policy is fixed per instance; any call of it may also fail.   *)
PolkitMayAnswer(chain, p, answer) ==
    \/ answer = "ERROR"
    \/ answer \in Obtainable /\ <<chain.owner, p>> \notin Refused
    \/ answer = "NO" /\ <<chain.owner, p>> \in Refused

(* pk_call_cb for one permission of one chain. *)
PolkitAnswers(ch, p, answer) ==
    /\ HasAuthority
    /\ p \in ch.chain.calls
    /\ PolkitMayAnswer(ch.chain, p, answer)
    /\ LET chain == CallAnswered(ch.chain, p, answer)
       IN  \/ /\ ~ChainDone(chain)
              /\ chains' = (chains \ {ch}) \union {[ch EXCEPT !.chain = chain]}
              /\ UNCHANGED <<perms, granted, proxy, calls, known, announced, rejected>>
           \/ /\ ChainDone(chain)
              /\ chains' = chains \ {ch}
              /\ UserProxyAuthDone(chain)
    /\ UNCHANGED <<busVars, inbox, started, counter>>

(* user_list_connections_cb: one GetSettings call per path, by the service's *)
(* well-known name, all counted together.  The counter is one token.         *)
HandleListReply ==
    /\ Receive("ListReply")
    /\ LET m == Head(inbox)
       IN  \/ /\ m.call \in calls
              /\ \E T \in FreshTokens(1) : \E t \in T :
                    /\ calls' = (calls \ {m.call}) \union
                                {Call(t, owner, "get", p, TRUE) : p \in m.paths}
                    /\ counter' = [counter EXCEPT ![t] = Cardinality(m.paths)]
           \/ /\ m.call \notin calls
              /\ UNCHANGED <<calls, counter>>
    /\ UNCHANGED <<busVars, started, proxy, chains, perms, known, announced, granted, rejected>>

(* user_new_connection_cb, once for each time the signal is connected. *)
HandleNewConnection ==
    /\ Receive("NewConnection")
    /\ LET m == Head(inbox)
           n == IF proxy.service = m.from THEN proxy.wired ELSE 0
       IN  \E T \in FreshTokens(n) :
              calls' = calls \union {Call(t, owner, "get", m.path, FALSE) : t \in T}
    /\ UNCHANGED <<busVars, started, proxy, chains, perms, known, counter, announced, granted,
                    rejected>>

(* free_get_settings_info: the last call of a batch announces all that is known. *)
FreeGetSettingsInfo(c, single) ==
    /\ calls' = calls \ {c}
    /\ counter' = IF c.batched THEN [counter EXCEPT ![c.token] = @ - 1] ELSE counter
    /\ announced' = IF c.batched
                    THEN IF counter[c.token] = 1
                         THEN announced \union {p \in Path : known'[p] # NoConnection}
                         ELSE announced
                    ELSE announced \union single

(* user_connection_get_settings_cb: an invalid connection is dropped, an     *)
(* identical one kept, any other replaces what was known at the path.        *)
HandleSettingsReply ==
    /\ Receive("SettingsReply")
    /\ LET m == Head(inbox)
           p == m.call.path
           added == m.settings \in Valid /\ known[p] # m.settings
       IN  /\ known' = IF added THEN [known EXCEPT ![p] = m.settings] ELSE known
           /\ rejected' = IF m.settings \in Valid THEN rejected ELSE rejected \union {p}
           /\ FreeGetSettingsInfo(m.call, IF added THEN {p} ELSE {})
    /\ UNCHANGED <<busVars, started, proxy, chains, perms, granted>>

(* Mutant of HandleErrorReply: a failed GetSettings leaves its batch's count. *)
HandleErrorReplyUncounted ==
    /\ Receive("ErrorReply")
    /\ calls' = calls \ {Head(inbox).call}
    /\ UNCHANGED <<busVars, started, proxy, chains, perms, known, counter, announced,
                    granted, rejected>>

(* Either callback with an error; a failed listing is not retried. *)
HandleErrorReply ==
    /\ Receive("ErrorReply")
    /\ LET c == Head(inbox).call
       IN  \/ /\ c.kind = "get"
              /\ UNCHANGED known
              /\ FreeGetSettingsInfo(c, {})
           \/ /\ c.kind = "list"
              /\ calls' = calls \ {c}
              /\ UNCHANGED <<known, counter, announced>>
    /\ UNCHANGED <<busVars, started, proxy, chains, perms, granted, rejected>>

(* remove_connection *)
RemoveConnection(p) ==
    /\ known' = [known EXCEPT ![p] = NoConnection]
    /\ announced' = announced \ {p}

(* Mutant of HandleRemoved: the signal is ignored while calls are out. *)
HandleRemovedWhenIdle ==
    /\ Receive("Removed")
    /\ LET p == Head(inbox).path
       IN  \/ p \in Known /\ calls = {} /\ RemoveConnection(p)
           \/ (p \notin Known \/ calls # {}) /\ UNCHANGED <<known, announced>>
    /\ UNCHANGED <<busVars, started, proxy, chains, perms, calls, counter, granted, rejected>>

(* user_connection_removed_cb *)
HandleRemoved ==
    /\ Receive("Removed")
    /\ LET p == Head(inbox).path
       IN  \/ p \in Known /\ RemoveConnection(p)
           \/ p \notin Known /\ UNCHANGED <<known, announced>>
    /\ UNCHANGED <<busVars, started, proxy, chains, perms, calls, counter, granted, rejected>>

(* user_connection_updated_cb: invalid settings remove the connection. *)
HandleUpdated ==
    /\ Receive("Updated")
    /\ LET m == Head(inbox)
       IN  \/ /\ m.path \in Known /\ m.settings \in Valid
              /\ known' = [known EXCEPT ![m.path] = m.settings]
              /\ UNCHANGED <<announced, rejected>>
           \/ /\ m.path \in Known /\ m.settings \notin Valid
              /\ RemoveConnection(m.path)
              /\ rejected' = rejected \union {m.path}
           \/ /\ m.path \notin Known
              /\ UNCHANGED <<known, announced, rejected>>
    /\ UNCHANGED <<busVars, started, proxy, chains, perms, calls, counter, granted>>

-----------------------------------------------------------------------------

Handle ==
    \/ HandleNameOwnerChanged
    \/ HandleListReply
    \/ HandleNewConnection
    \/ HandleSettingsReply
    \/ HandleErrorReply
    \/ HandleRemoved
    \/ HandleUpdated

Polkit == \E ch \in chains, p \in Permissions, a \in Answers : PolkitAnswers(ch, p, a)

Answer == \E c \in calls : AnswerList(c) \/ AnswerGetSettings(c) \/ FailCall(c)

ServiceActs ==
    \E s \in Service :
        \/ ServiceStarts(s)
        \/ ServiceExits(s)
        \/ \E p \in Path :
              \/ DeleteConnection(s, p)
              \/ \E c \in Content : ExportConnection(s, p, c) \/ UpdateConnection(s, p, c)

Next == Start \/ Handle \/ Polkit \/ Answer \/ ServiceActs

Spec == Init /\ [][Next]_vars

(* The main loop runs, PolicyKit answers, and every D-Bus call is answered   *)
(* by the peer, by the bus or by its timeout.                                *)
Fairness ==
    /\ WF_vars(Start)
    /\ WF_vars(Handle)
    /\ WF_vars(Polkit)
    /\ WF_vars(Answer)

FairSpec == Spec /\ Fairness

-----------------------------------------------------------------------------
(* Properties *)

(* Every variable has its type. *)
TypeOK ==
    /\ owner \in Owners
    /\ exited \subseteq Service
    /\ exported \in [Path -> Content \union {NoConnection, Deleted}]
    /\ inbox \in Seq(Message)
    /\ started \in BOOLEAN
    /\ proxy \in [service: Owners, wired: Nat]
    /\ chains \subseteq [id: ChainId, chain: ChainOf(Service, Permissions)]
    /\ perms \in [Permissions -> Results]
    /\ known \in [Path -> Valid \union {NoConnection}]
    /\ calls \subseteq CallSet
    /\ counter \in [Token -> Int]
    /\ announced \subseteq Path
    /\ granted \subseteq Service
    /\ rejected \subseteq Path

(* The shared counter of a listing counts its GetSettings calls still out,   *)
(* whatever cleanup, restart or signal came in between: connections-added is *)
(* emitted by the last of them and the counter is freed exactly then.        *)
BatchCounterExact ==
    \A t \in Token : counter[t] = Cardinality(BatchCalls(t))

(* What the emitted signals left announced is what the manager still holds:  *)
(* connection-removed is emitted for every announced connection that goes.   *)
AnnouncedIsKnown == announced \subseteq Known

(* A gone service leaves nothing behind: with nobody owning the name and no  *)
(* word of it still queued, no user connection is known, although GetSettings *)
(* calls outlive user_proxy_cleanup().                                       *)
NothingFromExited ==
    owner = NoService /\ inbox = <<>> => Known = {}

Quiet == started /\ inbox = <<>> /\ calls = {} /\ chains = {}

(* When nothing is in flight, the manager holds exactly the connections an   *)
(* authorized service exports, with their current settings: no signal that   *)
(* raced the listing or a GetSettings reply was lost or overwritten by an    *)
(* older value.  The exception is a connection once found invalid, which     *)
(* nobody asks for again; even that one is never held with stale settings.   *)
SyncedWhenQuiet ==
    Quiet /\ owner \in granted =>
        \A p \in Path :
            \/ known[p] = exported[p]
            \/ known[p] = NoConnection /\ (p \in rejected \/ exported[p] = Deleted)

(* connections-added must come: a connection held back is in the end         *)
(* announced or dropped.                                                     *)
EventuallyAnnounced ==
    \A p \in Path : p \in Known \ announced ~> p \in announced \/ p \notin Known

(* "Get user connections if the user settings service is around": the proxy  *)
(* made for a service is in the end set up and asked, or dropped again.  As  *)
(* nothing sets priv->authority, no check is answered and it never is.       *)
ProxySettles ==
    \A s \in Service : proxy.service = s ~> proxy.service # s \/ proxy.wired > 0
=============================================================================
