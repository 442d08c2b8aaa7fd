--------------------------- MODULE SystemSettings ---------------------------
(***************************************************************************)
(* The daemon's own settings service: BMSysconfigSettings, which lists and *)
(* publishes the connections its plugins read from files, and one          *)
(* NMSysconfigConnection for each of them, which clients may Update,       *)
(* Delete, or ask for secrets once PolicyKit agrees.                       *)
(*                                                                         *)
(* Everything runs in one main loop, one callback at a time, but three     *)
(* things happen in between: the files change behind a plugin's back and   *)
(* it is told later (inotify), PolicyKit answers in any order, and an      *)
(* object a call waits for may be removed meanwhile.                       *)
(*                                                                         *)
(* The plugins are loadable modules that this repository does not have:    *)
(* they are modelled as the daemon uses them through                       *)
(* NMSystemConfigInterface.  A plugin keeps one object for each file,      *)
(* lets go of it when it is removed, and saves it on "update".             *)
(***************************************************************************)
EXTENDS Naturals, Sequences

CONSTANTS
    File,       \* where a plugin can save a connection
    NoFile,     \* not the object of any file
    Object,     \* D-Bus paths of exported connections, by number
    NoObject,   \* the service itself
    Value,      \* what a connection's settings may say
    NoSettings, \* the file does not exist
    Call,       \* method calls, by number
    CanModify,  \* a plugin has CAP_MODIFY_CONNECTIONS
    MaxEdit     \* bound: edits of the files by somebody else

ASSUME SystemSettingsAssumption ==
    /\ NoFile \notin File
    /\ Object \subseteq Nat
    /\ Call \subseteq Nat
    /\ NoObject \notin Object
    /\ CanModify \in BOOLEAN
    /\ MaxEdit \in Nat

VARIABLES
    files,      \* disk: what each file holds
    edits,      \* bound: edits so far
    dirty,      \* plugin: files with a change it was not told of yet
    at,         \* plugin: the file of each object it keeps
    loaded,     \* priv->connections_loaded
    listed,     \* priv->connections
    memory,     \* each object's own settings (and priv->secrets, its copy)
    failed,     \* history: objects whose last saving failed
    told,       \* history: the signals sent for each object, NewConnection and Removed
    seen,       \* history: the settings clients were last sent for each object
    calls,      \* method calls, with what became of them (priv->pk_calls)
    granted     \* history: calls that PolicyKit authorized

objectVars == <<at, listed, memory, failed, told, seen>>
vars == <<files, edits, dirty, at, loaded, listed, memory, failed, told, seen, calls, granted>>

-----------------------------------------------------------------------------
(* Data *)

Settings == [value: Value, readOnly: BOOLEAN]

ASSUME NoSettingsAssumption == NoSettings \notin Settings

New  == "NewConnection"
Gone == "Removed"

NoCall == [op |-> "none", on |-> NoObject, settings |-> NoSettings,
           canceled |-> FALSE, reply |-> "none"]

(* "waiting" is for PolicyKit; every other reply has gone to the caller.    *)
Replies == {"waiting", "done", "readOnly", "unsupported", "canceled", "denied", "error"}

MethodCalls ==
    [op: {"Update"}, on: Object, settings: Settings, canceled: BOOLEAN, reply: Replies] \union
    [op: {"Delete", "GetSecrets"}, on: Object, settings: {NoSettings},
     canceled: BOOLEAN, reply: Replies] \union
    [op: {"Add"}, on: {NoObject}, settings: Settings, canceled: {FALSE}, reply: Replies]

(* polkit_authorization_result_get_is_authorized() is true for "yes" only:  *)
(* a challenge is an answer that authenticating could still turn into one.  *)
Answers == {"yes", "challenge", "no", "error"}

Authorized(answer) == answer = "yes"

Kept(f)   == {i \in Object : at[i] = f}
Unused(i) == at[i] = NoFile /\ told[i] = <<>>

(* The next path: the export counter only grows. *)
FreshObjects == {i \in Object : Unused(i)}
Fresh(i) == i \in FreshObjects /\ \A j \in FreshObjects : i <= j

Init ==
    /\ files \in [File -> Settings \union {NoSettings}]
    /\ edits = 0
    /\ dirty = {}
    /\ at = [i \in Object |-> NoFile]
    /\ loaded = FALSE
    /\ listed = {}
    /\ memory = [i \in Object |-> NoSettings]
    /\ failed = {}
    /\ told = [i \in Object |-> <<>>]
    /\ seen = [i \in Object |-> NoSettings]
    /\ calls = [n \in Call |-> NoCall]
    /\ granted = {}

-----------------------------------------------------------------------------
(* The files *)

(* Somebody writes or removes a file; a plugin that watches it will hear. *)
EditFile(f, s) ==
    /\ edits < MaxEdit
    /\ files[f] # s
    /\ edits' = edits + 1
    /\ files' = [files EXCEPT ![f] = s]
    /\ dirty' = dirty \union {f}
    /\ UNCHANGED <<loaded, objectVars, calls, granted>>

-----------------------------------------------------------------------------
(* Publishing *)

(* Mutant of Claim: what is already listed is published again. *)
ClaimAgain(I) ==
    /\ listed' = listed \union I
    /\ told' = [i \in Object |-> IF i \in I THEN Append(told[i], New) ELSE told[i]]
    /\ seen' = [i \in Object |-> IF i \in I THEN memory'[i] ELSE seen[i]]

(* claim_connection, for the objects of I: what is listed stays as it is,   *)
(* the rest is listed, exported under a new path and announced.             *)
Claim(I) ==
    /\ listed' = listed \union I
    /\ told' = [i \in Object |-> IF i \in I \ listed THEN Append(told[i], New) ELSE told[i]]
    /\ seen' = [i \in Object |-> IF i \in I \ listed THEN memory'[i] ELSE seen[i]]

(* The plugin reads file f into a new object. *)
Read(f, i) ==
    /\ files[f] # NoSettings
    /\ Kept(f) = {}
    /\ Fresh(i)
    /\ at' = [at EXCEPT ![i] = f]
    /\ memory' = [memory EXCEPT ![i] = files[f]]

(* add_plugin connects connection-added before it calls the plugin's init(): *)
(* a plugin may announce connections before they are loaded.                *)
AnnounceEarly(f) ==
    /\ ~loaded
    /\ \E i \in Object : Read(f, i) /\ Claim({i})
    /\ UNCHANGED <<files, edits, dirty, loaded, failed, calls, granted>>

(* load_connections, by the constructor and before the service has a name   *)
(* on the bus: get_connections() returns an object for every file, old or   *)
(* new, and all of them are claimed.                                        *)
Load ==
    /\ ~loaded
    /\ loaded' = TRUE
    /\ \E new \in [{f \in File : files[f] # NoSettings /\ Kept(f) = {}} -> FreshObjects] :
          /\ \A f, g \in DOMAIN new : new[f] = new[g] => f = g
          /\ \A f \in DOMAIN new : \A j \in FreshObjects :
                j < new[f] => \E g \in DOMAIN new : new[g] = j
          /\ at' = [i \in Object |-> IF \E f \in DOMAIN new : new[f] = i
                                     THEN CHOOSE f \in DOMAIN new : new[f] = i
                                     ELSE at[i]]
          /\ memory' = [i \in Object |-> IF at'[i] # at[i] THEN files[at'[i]] ELSE memory[i]]
    /\ Claim({i \in Object : at'[i] # NoFile})
    /\ UNCHANGED <<files, edits, dirty, failed, calls, granted>>

(* Mutant of Canceled: calls that wait for a removed object stay good. *)
CanceledNone(cs, i) == cs

(* dispose of an object: what waits for PolicyKit on its behalf is canceled. *)
Canceled(cs, i) ==
    [n \in Call |-> IF cs[n].on = i /\ cs[n].reply = "waiting"
                    THEN [cs[n] EXCEPT !.canceled = TRUE] ELSE cs[n]]

(* "removed" of an object: connection_removed drops it from the list, the   *)
(* bus hears of it, and with the last reference it is disposed of.          *)
Remove(i) ==
    /\ at' = [at EXCEPT ![i] = NoFile]
    /\ listed' = listed \ {i}
    /\ told' = [told EXCEPT ![i] = Append(@, Gone)]
    /\ failed' = failed \ {i}
    /\ UNCHANGED <<memory, seen>>

(* The parent class's update(): Updated tells the settings of the object.   *)
Saved(i) ==
    /\ seen' = [seen EXCEPT ![i] = memory'[i]]
    /\ failed' = failed \ {i}

NotSaved(i) ==
    /\ failed' = failed \union {i}
    /\ UNCHANGED seen

(* Mutant of Reread: the change is taken over without a signal. *)
RereadSilent(i) ==
    /\ memory' = [memory EXCEPT ![i] = files[at[i]]]
    /\ UNCHANGED <<at, listed, told, failed, seen>>

(* bm_sysconfig_connection_update, by the plugin and with its signal: the   *)
(* object takes over what the file says and "update" saves it once more.    *)
Reread(i) ==
    /\ UNCHANGED <<at, listed, told>>
    /\ \/ /\ memory[i] = files[at[i]]
          /\ UNCHANGED <<memory, failed, seen>>
       \/ /\ memory[i] # files[at[i]]
          /\ memory' = [memory EXCEPT ![i] = files[at[i]]]
          /\ Saved(i) \/ NotSaved(i)

(* The plugin is told of a change: it reads a new file, drops the object of *)
(* a file that is gone, or takes over new contents.                         *)
Notice(f) ==
    /\ loaded
    /\ f \in dirty
    /\ dirty' = dirty \ {f}
    /\ \/ /\ \E i \in Object : Read(f, i) /\ Claim({i})
          /\ UNCHANGED <<failed, calls>>
       \/ \E i \in Kept(f) :
             \/ files[f] = NoSettings /\ Remove(i) /\ calls' = Canceled(calls, i)
             \/ files[f] # NoSettings /\ Reread(i) /\ UNCHANGED calls
       \/ files[f] = NoSettings /\ Kept(f) = {} /\ UNCHANGED <<objectVars, calls>>
    /\ UNCHANGED <<files, edits, loaded, granted>>

-----------------------------------------------------------------------------
(* Method calls *)

(* The next call; it is answered at once or waits for PolicyKit. *)
Ask(op, i, s, reply) ==
    /\ loaded
    /\ \E n \in Call :
          /\ calls[n] = NoCall
          /\ \A m \in Call : m < n => calls[m] # NoCall
          /\ calls' = [calls EXCEPT ![n] =
                [op |-> op, on |-> i, settings |-> s, canceled |-> FALSE, reply |-> reply]]
    /\ UNCHANGED <<files, edits, dirty, loaded, objectVars, granted>>

(* check_writable *)
WritableReply(i) == IF memory[i].readOnly THEN "readOnly" ELSE "waiting"

(* impl_exported_connection_update, dbus_update; invalid settings never get here. *)
CallUpdate(i, s) == i \in listed /\ Ask("Update", i, s, WritableReply(i))

(* impl_exported_connection_delete, dbus_delete *)
CallDelete(i) == i \in listed /\ Ask("Delete", i, NoSettings, WritableReply(i))

(* impl_exported_connection_get_secrets, dbus_get_secrets *)
CallGetSecrets(i) == i \in listed /\ Ask("GetSecrets", i, NoSettings, "waiting")

(* impl_settings_add_connection, add_connection *)
CallAdd(s) == Ask("Add", NoObject, s, IF CanModify THEN "waiting" ELSE "unsupported")

Replied(n, reply) == [calls EXCEPT ![n].reply = reply]

(* Mutant of AnswerCanceled: the call is forgotten. *)
AnswerCanceledSilently(n) ==
    /\ calls[n].canceled
    /\ calls' = [calls EXCEPT ![n].reply = "waiting"]
    /\ UNCHANGED <<files, dirty, objectVars>>

(* The first lines of each callback. *)
AnswerCanceled(n) ==
    /\ calls[n].canceled
    /\ calls' = Replied(n, "canceled")
    /\ UNCHANGED <<files, dirty, objectVars>>

AnswerRefused(n, answer) ==
    /\ ~calls[n].canceled
    /\ ~Authorized(answer)
    /\ calls' = Replied(n, IF answer = "error" THEN "error" ELSE "denied")
    /\ UNCHANGED <<files, dirty, objectVars>>

(* pk_update_cb: the object has the new settings before they are saved, and *)
(* keeps them when saving fails.                                            *)
AnswerUpdate(n) ==
    LET i == calls[n].on
    IN  /\ memory' = [memory EXCEPT ![i] = calls[n].settings]
        /\ UNCHANGED <<at, listed, told>>
        /\ \/ /\ files' = [files EXCEPT ![at[i]] = calls[n].settings]
              /\ dirty' = dirty \union {at[i]}
              /\ Saved(i)
              /\ calls' = Replied(n, "done")
           \/ /\ NotSaved(i)
              /\ calls' = Replied(n, "error")
              /\ UNCHANGED <<files, dirty>>

(* pk_delete_cb *)
AnswerDelete(n) ==
    LET i == calls[n].on
    IN  \/ /\ files' = [files EXCEPT ![at[i]] = NoSettings]
           /\ dirty' = dirty \union {at[i]}
           /\ Remove(i)
           /\ calls' = Canceled(Replied(n, "done"), i)
        \/ /\ calls' = Replied(n, "error")
           /\ UNCHANGED <<files, dirty, objectVars>>

(* pk_secrets_cb: an unknown setting name is an error. *)
AnswerGetSecrets(n) ==
    /\ \E reply \in {"done", "error"} : calls' = Replied(n, reply)
    /\ UNCHANGED <<files, dirty, objectVars>>

(* pk_add_cb, add_new_connection: the first plugin that can saves it, under  *)
(* a name that is free; the object comes with connection-added.             *)
AnswerAdd(n) ==
    /\ UNCHANGED objectVars
    /\ \/ \E f \in File :
             /\ files[f] = NoSettings
             /\ files' = [files EXCEPT ![f] = calls[n].settings]
             /\ dirty' = dirty \union {f}
             /\ calls' = Replied(n, "done")
       \/ /\ calls' = Replied(n, "error")
          /\ UNCHANGED <<files, dirty>>

AnswerGranted(n, answer) ==
    /\ ~calls[n].canceled
    /\ Authorized(answer)
    /\ \/ calls[n].op = "Update"     /\ AnswerUpdate(n)
       \/ calls[n].op = "Delete"     /\ AnswerDelete(n)
       \/ calls[n].op = "GetSecrets" /\ AnswerGetSecrets(n)
       \/ calls[n].op = "Add"        /\ AnswerAdd(n)

(* PolicyKit answers; a canceled check comes back too. *)
PolkitAnswers(n, answer) ==
    /\ calls[n].reply = "waiting"
    /\ granted' = IF answer = "yes" THEN granted \union {n} ELSE granted
    /\ AnswerCanceled(n) \/ AnswerRefused(n, answer) \/ AnswerGranted(n, answer)
    /\ UNCHANGED <<edits, loaded>>

-----------------------------------------------------------------------------

Clients ==
    \/ \E i \in Object :
          \/ \E s \in Settings : CallUpdate(i, s)
          \/ CallDelete(i)
          \/ CallGetSecrets(i)
    \/ \E s \in Settings : CallAdd(s)

Next ==
    \/ \E f \in File, s \in Settings \union {NoSettings} : EditFile(f, s)
    \/ \E f \in File : AnnounceEarly(f) \/ Notice(f)
    \/ Load
    \/ Clients
    \/ \E n \in Call, answer \in Answers : PolkitAnswers(n, answer)

Spec == Init /\ [][Next]_vars

(* PolicyKit answers every check, if only because it was canceled. *)
FairSpec ==
    /\ Spec
    /\ \A n \in Call : WF_vars(\E answer \in Answers : PolkitAnswers(n, answer))

-----------------------------------------------------------------------------
(* Properties *)

(* Every variable has its type. *)
TypeOK ==
    /\ files \in [File -> Settings \union {NoSettings}]
    /\ edits \in 0 .. MaxEdit
    /\ dirty \subseteq File
    /\ at \in [Object -> File \union {NoFile}]
    /\ loaded \in BOOLEAN
    /\ listed \subseteq Object
    /\ memory \in [Object -> Settings \union {NoSettings}]
    /\ failed \subseteq Object
    /\ told \in [Object -> Seq({New, Gone})]
    /\ seen \in [Object -> Settings \union {NoSettings}]
    /\ calls \in [Call -> MethodCalls \union {NoCall}]
    /\ granted \subseteq Call

(* A client that follows NewConnection and Removed knows what               *)
(* ListConnections would return: each listed connection was announced once, *)
(* although a plugin may announce it before it is loaded, and each path     *)
(* that was removed once was retracted once and is never used again.        *)
ToldAsListed ==
    \A i \in Object :
        /\ told[i] \in {<<>>, <<New>>, <<New, Gone>>}
        /\ i \in listed <=> told[i] = <<New>>

(* The three copies of a connection agree once its plugin has heard of all  *)
(* changes: what the file says, what the object holds and what clients were *)
(* sent, whatever edits and Updates crossed.  The exception is a connection *)
(* whose last saving failed.                                                *)
CopiesAgree ==
    \A i \in listed \ failed :
        at[i] \notin dirty => memory[i] = files[at[i]] /\ seen[i] = memory[i]

(* Every call is answered, one whose connection was removed while PolicyKit *)
(* was asked too.                                                           *)
CallsAnswered == \A n \in Call : calls[n].reply = "waiting" ~> calls[n].reply # "waiting"

(* What SettingsStore knows of the objects and of the calls. *)
PublishedAt ==
    [i \in Object |-> IF at[i] # NoFile THEN at[i]
                      ELSE IF told[i] = <<>> THEN "unpublished" ELSE "retracted"]

Outcome(reply) ==
    IF reply = "none" THEN "none"
    ELSE IF reply = "waiting" THEN "pending"
    ELSE IF reply = "done" THEN "done" ELSE "refused"

Requested ==
    [n \in Call |-> [op |-> calls[n].op, on |-> calls[n].on,
                     settings |-> calls[n].settings, outcome |-> Outcome(calls[n].reply)]]

Store == INSTANCE SettingsStore WITH
    store <- files, published <- PublishedAt, request <- Requested

(* The service implements SettingsStore: a request changes the store at one *)
(* moment, authorized and on a connection that clients still know; one that *)
(* is answered with an error saves nothing.                                 *)
StoreSpec == Store!Spec
=============================================================================
