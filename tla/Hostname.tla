------------------------------ MODULE Hostname ------------------------------
(***************************************************************************)
(* The machine's hostname: the plugins of the daemon's BMSysconfigSettings *)
(* that keep it, SaveHostname with its question to PolicyKit, the signal   *)
(* PropertiesChanged, and the copy that libbm-glib's                       *)
(* BMRemoteSettingsSystem shows a client.                                  *)
(*                                                                         *)
(* The daemon and the client are one main loop each; the daemon's replies  *)
(* and signals come to the client in one order.  SaveHostname asks the     *)
(* user, so PolicyKit answers its calls in any order.                      *)
(***************************************************************************)
EXTENDS Naturals, Sequences, FiniteSets

CONSTANTS
    HostName,   \* the hostnames that are ever set, "" is none
    Modifiers,  \* the plugins that can modify connections
    MaxEdit,    \* bound: changes by the administrator
    MaxCall,    \* bound: calls of SaveHostname
    MaxExit     \* bound: exits of the daemon

VARIABLES
    config,     \* the plugins that the configuration file names
    broken,     \* the plugins whose module cannot be loaded
    capable,    \* the plugins that can modify the hostname
    hosts,      \* the plugins: the hostname of each
    up,         \* the daemon runs
    plugins,    \* daemon: priv->plugins
    asked,      \* daemon: priv->pk_calls
    requests,   \* calls on their way to the daemon
    inbox,      \* replies and signals on their way to the client
    hostname,   \* client: priv->hostname
    canModify,  \* client: priv->can_modify
    calls,      \* client: what each call saves, and how it stands
    edits, exits,
    known,      \* history: the client was told a hostname
    blind       \* history: a hostname changed while no daemon ran

pluginVars == <<config, broken, capable, hosts>>
daemonVars == <<up, plugins, asked>>
clientVars == <<hostname, canModify, calls>>
vars == <<pluginVars, daemonVars, requests, inbox, clientVars, edits, exits, known, blind>>

-----------------------------------------------------------------------------
(* Data *)

Plugin == {"keyfile", "ifcfg-rh"}
Call   == 1 .. MaxCall
GetAll == 0     \* the client's call of org.freedesktop.DBus.Properties
NULL   == "NULL"

(* The k-th of a set of numbers. *)
Nth(S, k) == CHOOSE i \in S : Cardinality({j \in S : j <= i}) = k

PropertiesChanged(v) == [type |-> "properties-changed", hostname |-> v]
Properties(h, m)        == [type |-> "get-all", hostname |-> h, canModify |-> m]
Reply(c, ok)            == [type |-> "reply", call |-> c, ok |-> ok]
AllFailed               == [type |-> "error"]

(* ifcfg-fedora was renamed ifcfg-rh. *)
Named(i) == IF config[i] = "ifcfg-fedora" THEN "ifcfg-rh" ELSE config[i]

(* find_plugin: only what was not loaded before is loaded. *)
Fresh == {i \in DOMAIN config : \A j \in 1 .. i - 1 : Named(j) # Named(i)}

(* load_plugins: one that fails ends the loading, and then the daemon. *)
LoadsAll == \A i \in Fresh : Named(i) \notin broken

Loaded == [k \in 1 .. Cardinality(Fresh) |-> Named(Nth(Fresh, k))]

(* get_plugin *)
SomePlugin(can) == \E i \in DOMAIN plugins : plugins[i] \in can

(* Those of the daemon's plugins that can modify the hostname. *)
Keepers == {i \in DOMAIN plugins : plugins[i] \in capable}

(* bm_sysconfig_settings_get_hostname: that of the first plugin that has    *)
(* one; get_property never passes NULL.                                     *)
HostnameOf(hs) ==
    LET having == {i \in Keepers : hs[plugins[i]] # ""}
    IN  IF having = {} THEN "" ELSE hs[plugins[Nth(having, 1)]]

Set(hs, p, name) == [hs EXCEPT ![p] = name]

Init ==
    /\ config \in {<<"keyfile">>, <<"keyfile", "ifcfg-rh">>,
                   <<"ifcfg-fedora", "keyfile", "ifcfg-rh">>}
    /\ broken \in SUBSET {"ifcfg-rh"}
    /\ capable \in SUBSET Plugin
    /\ hosts = [p \in Plugin |-> ""]
    /\ up = FALSE
    /\ plugins = <<>>
    /\ asked = {}
    /\ requests = <<>>
    /\ inbox = <<>>
    /\ hostname = NULL
    /\ canModify = FALSE
    /\ calls = [c \in {GetAll} \union Call |-> [name |-> NULL, state |-> "none"]]
    /\ edits = 0
    /\ exits = 0
    /\ known = FALSE
    /\ blind = FALSE

-----------------------------------------------------------------------------
(* The daemon *)

(* bm_sysconfig_settings_new: nobody listens yet to what it notifies. *)
DaemonStarts ==
    /\ ~up /\ LoadsAll
    /\ up' = TRUE
    /\ plugins' = Loaded
    /\ UNCHANGED <<pluginVars, asked, requests, inbox, clientVars, edits, exits, known, blind>>

Unanswered == {c \in DOMAIN calls : /\ calls[c].state = "sent"
                                    /\ \A i \in DOMAIN inbox :
                                          /\ c = GetAll => inbox[i].type # "get-all"
                                          /\ inbox[i].type = "reply" => inbox[i].call # c}

Errors(cs) ==
    [k \in 1 .. Cardinality(cs) |->
        IF Nth(cs, k) = GetAll THEN AllFailed ELSE Reply(Nth(cs, k), FALSE)]

(* dispose cancels PolicyKit's requests, but no main loop runs their        *)
(* callbacks any more: the bus answers the callers.                         *)
DaemonExits ==
    /\ up
    /\ exits < MaxExit
    /\ exits' = exits + 1
    /\ up' = FALSE
    /\ plugins' = <<>>
    /\ asked' = {}
    /\ requests' = <<>>
    /\ inbox' = inbox \o Errors(Unanswered)
    /\ UNCHANGED <<pluginVars, clientVars, edits, known, blind>>

(* Signals go to a client that has connected to them. *)
Signaled(signals) == IF calls[GetAll].state = "none" THEN inbox ELSE inbox \o signals

(* Mutant of HostnameChanged: the plugin's own hostname is sent. *)
HostnameChangedThere(hs, p) == PropertiesChanged(hs[p])

(* hostname_changed and notify: the signal carries what get_property        *)
(* returns then, whichever plugin it came from.                             *)
HostnameChanged(hs, p) == PropertiesChanged(HostnameOf(hs))

(* The administrator changes the hostname in a plugin's file. *)
PluginHostname(p, name) ==
    /\ edits < MaxEdit
    /\ edits' = edits + 1
    /\ p \in capable /\ name # hosts[p]
    /\ hosts' = Set(hosts, p, name)
    /\ inbox' = IF \E i \in DOMAIN plugins : plugins[i] = p
                THEN Signaled(<<HostnameChanged(hosts', p)>>) ELSE inbox
    /\ blind' = (blind \/ ~up)
    /\ UNCHANGED <<config, broken, capable, daemonVars, requests, clientVars, exits,
                   known>>

(* impl_settings_save_hostname, and GetAll, which dbus-glib answers with    *)
(* get_property.                                                            *)
HandleRequest ==
    /\ up /\ requests # <<>>
    /\ requests' = Tail(requests)
    /\ LET c == Head(requests)
       IN  IF c = GetAll
           THEN /\ inbox' = Append(inbox, Properties(HostnameOf(hosts), SomePlugin(Modifiers)))
                /\ UNCHANGED asked
           ELSE IF ~SomePlugin(capable)
           THEN inbox' = Append(inbox, Reply(c, FALSE)) /\ UNCHANGED asked
           ELSE asked' = asked \union {c} /\ UNCHANGED inbox
    /\ UNCHANGED <<pluginVars, up, plugins, clientVars, edits, exits, known, blind>>

(* Every plugin that can is set; each notifies, while the next ones still   *)
(* have what they had.                                                      *)
SetBefore(name, k) ==
    [p \in Plugin |-> IF \E i \in 1 .. k : plugins[Nth(Keepers, i)] = p THEN name ELSE hosts[p]]

SetEverywhere(name) ==
    LET n == Cardinality(Keepers)
    IN  [hosts |-> SetBefore(name, n),
         inbox |-> Signaled([k \in 1 .. n |->
                       HostnameChanged(SetBefore(name, k), plugins[Nth(Keepers, k)])])]

(* pk_hostname_cb *)
PkHostname(c, says) ==
    /\ c \in asked
    /\ asked' = asked \ {c}
    /\ IF says # "yes"
       THEN UNCHANGED hosts /\ inbox' = Append(inbox, Reply(c, FALSE))
       ELSE LET after == SetEverywhere(calls[c].name)
            IN  hosts' = after.hosts /\ inbox' = Append(after.inbox, Reply(c, TRUE))
    /\ UNCHANGED <<config, broken, capable, up, plugins, requests, clientVars,
                   edits, exits, known, blind>>

-----------------------------------------------------------------------------
(* The client: BMRemoteSettingsSystem *)

Send(c, name) ==
    /\ calls[c].state = "none"
    /\ calls' = [calls EXCEPT ![c] = [name |-> name, state |-> "sent"]]
    /\ requests' = IF up THEN Append(requests, c) ELSE requests
    /\ inbox' = IF up THEN inbox ELSE inbox \o Errors({c})

(* constructor: signals are connected, then GetAll is called, only once. *)
ClientStarts ==
    /\ Send(GetAll, NULL)
    /\ UNCHANGED <<pluginVars, daemonVars, hostname, canModify, edits, exits, known, blind>>

(* bm_settings_system_interface_save_hostname refuses NULL. *)
SaveHostname(c, name) ==
    /\ calls[GetAll].state # "none"
    /\ \A d \in 1 .. c - 1 : calls[d].state # "none"
    /\ name # NULL
    /\ Send(c, name)
    /\ UNCHANGED <<pluginVars, daemonVars, hostname, canModify, edits, exits, known, blind>>

Receive(type) ==
    /\ inbox # <<>> /\ Head(inbox).type = type
    /\ inbox' = Tail(inbox)

HandlePropertiesChanged ==
    /\ Receive("properties-changed")
    /\ hostname' = Head(inbox).hostname
    /\ known' = TRUE
    /\ UNCHANGED <<pluginVars, daemonVars, requests, canModify, calls, edits, exits, blind>>

Done(c) == calls' = [calls EXCEPT ![c].state = "done"]

(* get_all_cb: taken as if it had been a signal; an error is logged. *)
HandleGetAll ==
    /\ \/ /\ Receive("get-all")
          /\ hostname' = Head(inbox).hostname
          /\ canModify' = Head(inbox).canModify
          /\ known' = TRUE
       \/ Receive("error") /\ UNCHANGED <<hostname, canModify, known>>
    /\ Done(GetAll)
    /\ UNCHANGED <<pluginVars, daemonVars, requests, edits, exits, blind>>

(* save_hostname_cb *)
HandleReply ==
    /\ Receive("reply")
    /\ Done(Head(inbox).call)
    /\ UNCHANGED <<pluginVars, daemonVars, requests, hostname, canModify, edits, exits, known,
                   blind>>

-----------------------------------------------------------------------------
(* Specification *)

Dispatch == HandlePropertiesChanged \/ HandleGetAll \/ HandleReply

Administrator ==
    \E p \in Plugin, name \in HostName \union {""} : PluginHostname(p, name)

PolkitAnswers == \E c \in Call, says \in {"yes", "no", "error"} : PkHostname(c, says)

Daemon == DaemonStarts \/ DaemonExits \/ HandleRequest \/ PolkitAnswers

Client ==
    \/ ClientStarts
    \/ \E c \in Call, name \in HostName \union {""} : SaveHostname(c, name)
    \/ Dispatch

Next == Administrator \/ Daemon \/ Client

Spec == Init /\ [][Next]_vars

-----------------------------------------------------------------------------
(* Properties *)

Quiet == inbox = <<>> /\ requests = <<>>

(* The hostname a client shows is the one the daemon's plugins have,        *)
(* however changes of several plugins, SaveHostname, the first GetAll and   *)
(* restarts of the daemon crossed.  Left out: a client that was told none   *)
(* yet because its GetAll failed, and a change while no daemon ran: the     *)
(* client never asks again (bm-remote-settings-system.c:302).               *)
HostnameFollows == Quiet /\ up /\ known /\ ~blind => hostname = HostnameOf(hosts)

(* Every SaveHostname is answered, whatever PolicyKit and the daemon do.    *)
SavesAnswered == \A c \in Call : (calls[c].state = "sent") ~> (calls[c].state = "done")
=============================================================================
