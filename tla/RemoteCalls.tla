----------------------------- MODULE RemoteCalls -----------------------------
(***************************************************************************)
(* libbm-glib's BMRemoteConnection: a program edits the object of a system *)
(* connection and calls Update, Delete or GetSecrets, each with a callback *)
(* that is to tell it the outcome.                                         *)
(*                                                                         *)
(* The daemon asks PolicyKit about each call and does, signals and answers *)
(* what was granted, in the order of PolicyKit's answers; other clients    *)
(* and edits of the connection's file come between.  The object lives as   *)
(* long as the list of BMRemoteSettings has it or the program holds a      *)
(* reference; with it go the calls it waits for.  A program lets go of its *)
(* references outside of the callbacks, and before it lets go of the list. *)
(***************************************************************************)
EXTENDS Naturals, Sequences, SequencesExt

CONSTANTS
    Call,       \* method calls, by number
    Value,      \* what a connection's settings may say
    ReadOnly,   \* those among them with read-only set
    Invalid,    \* settings a program may make up that do not verify
    MaxChange   \* bound: changes of the connection by somebody else

VARIABLES
    up,         \* the daemon runs
    exported,   \* daemon: the connection's object is registered
    settings,   \* daemon: its settings
    waiting,    \* daemon: calls PolicyKit is asked about
    requests,   \* calls on their way to the daemon
    inbox,      \* signals and replies on their way to the program
    changes,    \* changes by somebody else
    listing,    \* the program has its BMRemoteSettings
    held,       \* BMRemoteSettings lists the object
    used,       \* the program holds a reference
    content,    \* the object's settings
    removing,   \* the idle function remove_connections waits
    calls,      \* what became of each call; "out" is in priv->calls
    edited,     \* history: the program changed content since it was last replaced
    performed,  \* history: calls the daemon did
    applied     \* history: Updates whose signal the object handled

daemonVars == <<up, exported, settings, waiting, changes, performed>>
clientVars == <<listing, held, used, content, removing, calls, edited, applied>>
vars == <<up, exported, settings, waiting, requests, inbox, changes, listing, held, used,
          content, removing, calls, edited, performed, applied>>

-----------------------------------------------------------------------------
(* Data *)

NoCall == [op |-> "none", value |-> "none", state |-> "none"]

Signal(type, value, call) == [type |-> type, value |-> value, call |-> call]
Reply(outcome, call)      == [type |-> outcome, value |-> "none", call |-> call]

(* No call of the program caused the signal. *)
Nobody == 0

Alive == held \/ used

OfObject == {"Update", "Delete", "GetSecrets"}

Init ==
    /\ up = TRUE
    /\ exported = TRUE
    /\ settings \in Value
    /\ waiting = {}
    /\ requests = <<>>
    /\ inbox = <<>>
    /\ changes = 0
    /\ listing = TRUE
    /\ held = TRUE
    /\ used \in BOOLEAN
    /\ content = settings
    /\ removing = FALSE
    /\ calls = [c \in Call |-> NoCall]
    /\ edited = FALSE
    /\ performed = {}
    /\ applied = {}

-----------------------------------------------------------------------------
(* The daemon *)

Send(messages) == inbox' = inbox \o messages

(* Another client's Update or Delete, or an edit of the file. *)
OthersChange(v) ==
    /\ up /\ exported /\ changes < MaxChange
    /\ changes' = changes + 1
    /\ settings' = v
    /\ Send(<<Signal("Updated", v, Nobody)>>)
    /\ UNCHANGED <<up, exported, waiting, performed, requests, clientVars>>

OthersRemove ==
    /\ up /\ exported /\ changes < MaxChange
    /\ changes' = changes + 1
    /\ exported' = FALSE
    /\ Send(<<Signal("Removed", "none", Nobody)>>)
    /\ UNCHANGED <<up, settings, waiting, performed, requests, clientVars>>

(* check_writable *)
Writable == settings \notin ReadOnly

(* impl_exported_connection_update, _delete and _get_secrets; the first needs  *)
(* settings that verify.                                                      *)
Accepted(c) ==
    /\ exported
    /\ calls[c].op = "GetSecrets" \/ Writable
    /\ calls[c].op = "Update" => calls[c].value \notin Invalid

(* impl_settings_add_connection *)
AcceptedNew(c) == calls[c].value \notin Invalid

(* What is accepted PolicyKit is asked about. *)
Serve ==
    /\ up /\ requests # <<>>
    /\ requests' = Tail(requests)
    /\ LET c == Head(requests)
       IN  IF IF calls[c].op = "Add" THEN AcceptedNew(c) ELSE Accepted(c)
           THEN waiting' = waiting \union {c} /\ UNCHANGED inbox
           ELSE Send(<<Reply("error", c)>>) /\ UNCHANGED waiting
    /\ UNCHANGED <<up, exported, settings, changes, performed, clientVars>>

(* PolicyKit refuses, or fails; or the call was canceled with its object. *)
Refuse(c) ==
    /\ c \in waiting
    /\ waiting' = waiting \ {c}
    /\ Send(<<Reply("error", c)>>)
    /\ UNCHANGED <<up, exported, settings, changes, performed, requests, clientVars>>

Perform(c, op) ==
    /\ c \in waiting
    /\ calls[c].op = op
    /\ waiting' = waiting \ {c}
    /\ performed' = performed \union {c}
    /\ UNCHANGED <<up, changes, requests, clientVars>>

(* Mutant of Update: the reply is sent before the signal. *)
UpdateReplyFirst(c) ==
    /\ Perform(c, "Update") /\ exported
    /\ settings' = calls[c].value
    /\ Send(<<Reply("done", c), Signal("Updated", calls[c].value, c)>>)
    /\ UNCHANGED exported

(* pk_update_cb, and update() with con_update_cb: the signal, then the reply. *)
Update(c) ==
    /\ Perform(c, "Update") /\ exported
    /\ settings' = calls[c].value
    /\ Send(<<Signal("Updated", calls[c].value, c), Reply("done", c)>>)
    /\ UNCHANGED exported

(* pk_delete_cb, and do_delete() with con_delete_cb *)
Delete(c) ==
    /\ Perform(c, "Delete") /\ exported
    /\ exported' = FALSE
    /\ Send(<<Signal("Removed", "none", c), Reply("done", c)>>)
    /\ UNCHANGED settings

(* pk_secrets_cb, get_secrets and con_secrets_cb: the object keeps a copy of  *)
(* itself with its secrets.  A setting it does not have is an error.          *)
GetSecrets(c) ==
    /\ Perform(c, "GetSecrets") /\ exported
    /\ Send(<<Reply("done", c)>>)
    /\ UNCHANGED <<exported, settings>>

(* pk_add_cb: another connection is added. *)
AddConnection(c) ==
    /\ Perform(c, "Add")
    /\ Send(<<Reply("done", c)>>)
    /\ UNCHANGED <<exported, settings>>

(* The bus says that the name is free, and answers what the daemon did not.   *)
DaemonExits ==
    /\ up
    /\ up' = FALSE
    /\ exported' = FALSE
    /\ waiting' = {}
    /\ requests' = <<>>
    /\ \E unanswered \in SetToSeqs(waiting \union ToSet(requests)) :
          Send(<<Signal("NameLost", "none", Nobody)>> \o
               [i \in DOMAIN unanswered |-> Reply("error", unanswered[i])])
    /\ UNCHANGED <<settings, changes, performed, clientVars>>

-----------------------------------------------------------------------------
(* The program *)

(* It sets properties of the connection's settings, once until they are       *)
(* replaced by the daemon's.                                                  *)
Edit(v) ==
    /\ Alive /\ ~edited
    /\ content # v
    /\ content' = v
    /\ edited' = TRUE
    /\ UNCHANGED <<daemonVars, requests, inbox, listing, held, used, removing, calls, applied>>

(* update, do_delete and get_secrets of the object; an Update has the          *)
(* settings of this moment.                                                   *)
Out(op) == [op |-> op, value |-> content, state |-> "out"]

(* bm_settings_connection_interface_update, _delete and _get_secrets *)
CanMake(op) == op \in OfObject /\ Alive

(* add_connection of the list, here with the settings of the object *)
CanAdd(op) == op = "Add" /\ listing

Make(c, op) ==
    /\ calls[c].state = "none"
    /\ \A d \in Call : d < c => calls[d].state # "none"
    /\ CanMake(op) \/ CanAdd(op)
    /\ calls' = [calls EXCEPT ![c] = Out(op)]
    /\ IF up
       THEN requests' = Append(requests, c) /\ UNCHANGED inbox
       ELSE Send(<<Reply("error", c)>>) /\ UNCHANGED requests
    /\ UNCHANGED <<daemonVars, listing, held, used, content, removing, edited, applied>>

Ref ==
    /\ listing /\ held /\ ~used
    /\ used' = TRUE
    /\ UNCHANGED <<daemonVars, requests, inbox, listing, held, content, removing, calls, edited,
                   applied>>

(* The calls of an object are forgotten by its dispose(), and canceled with   *)
(* its proxies; those of the list with the list's.                            *)
Drop(kinds) ==
    [c \in Call |-> IF calls[c].state = "out" /\ calls[c].op \in kinds
                    THEN [calls[c] EXCEPT !.state = "dropped"]
                    ELSE calls[c]]

CallsWithout(references) == IF references THEN calls ELSE Drop(OfObject)

Unref ==
    /\ used
    /\ used' = FALSE
    /\ calls' = CallsWithout(held)
    /\ UNCHANGED <<daemonVars, requests, inbox, listing, held, content, removing, edited, applied>>

(* dispose() of the list *)
DisposeList ==
    /\ listing /\ ~used
    /\ listing' = FALSE
    /\ held' = FALSE
    /\ removing' = FALSE
    /\ calls' = Drop(OfObject \union {"Add"})
    /\ UNCHANGED <<daemonVars, requests, inbox, used, content, edited, applied>>

(* connection_removed_cb takes it off the list *)
Removed ==
    /\ held' = FALSE
    /\ calls' = IF held THEN CallsWithout(used) ELSE calls

(* updated_cb, replace_settings *)
HandleUpdated(m) ==
    /\ m.type = "Updated"
    /\ IF Alive
       THEN /\ content' = m.value
            /\ edited' = FALSE
            /\ applied' = applied \union {m.call}
       ELSE UNCHANGED <<content, edited, applied>>
    /\ UNCHANGED <<listing, held, used, removing, calls>>

(* removed_cb *)
HandleRemoved(m) ==
    /\ m.type = "Removed"
    /\ Removed
    /\ UNCHANGED <<listing, used, content, removing, edited, applied>>

(* name_owner_changed *)
HandleNameLost(m) ==
    /\ m.type = "NameLost"
    /\ removing' = listing
    /\ UNCHANGED <<listing, held, used, content, calls, edited, applied>>

(* update_cb, delete_cb, get_secrets_cb and add_connection_done, with          *)
(* remote_call_complete: a call that was canceled has none.                   *)
HandleReply(m) ==
    /\ m.type \in {"done", "error"}
    /\ calls' = IF calls[m.call].state = "out"
                THEN [calls EXCEPT ![m.call].state = m.type]
                ELSE calls
    /\ UNCHANGED <<listing, held, used, content, removing, edited, applied>>

Receive ==
    /\ inbox # <<>>
    /\ inbox' = Tail(inbox)
    /\ LET m == Head(inbox)
       IN  HandleUpdated(m) \/ HandleRemoved(m) \/ HandleNameLost(m) \/ HandleReply(m)
    /\ UNCHANGED <<daemonVars, requests>>

(* The idle function: "removed" for each connection, then none is listed. *)
RemoveConnections ==
    /\ removing
    /\ removing' = FALSE
    /\ Removed
    /\ UNCHANGED <<daemonVars, requests, inbox, listing, used, content, edited, applied>>

-----------------------------------------------------------------------------
Answer ==
    \/ Serve
    \/ \E c \in waiting : Refuse(c) \/ Update(c) \/ Delete(c) \/ GetSecrets(c) \/ AddConnection(c)
Daemon == (\E v \in Value : OthersChange(v)) \/ OthersRemove \/ Answer \/ DaemonExits

MainLoop == Receive \/ RemoveConnections
Program ==
    \/ \E v \in Value \union Invalid : Edit(v)
    \/ \E c \in Call : \E op \in OfObject \union {"Add"} : Make(c, op)
    \/ Ref \/ Unref \/ DisposeList

Next == Daemon \/ MainLoop \/ Program

Spec == Init /\ [][Next]_vars

-----------------------------------------------------------------------------
(* Properties *)

Quiet == requests = <<>> /\ waiting = {} /\ inbox = <<>> /\ ~removing

(* The answer to a call is still to come. *)
Expected(c) ==
    \/ c \in waiting \union ToSet(requests)
    \/ \E i \in DOMAIN inbox : inbox[i].type \in {"done", "error"} /\ inbox[i].call = c

(* What a callback tells is so: a call was done or was not; an Update that was *)
(* done is in the object, and a Delete has taken it off the list, before the  *)
(* callback runs.  A call that is out has its answer still to come and is not *)
(* left to an object that is gone ("g_assert (call->call)"); and at rest an   *)
(* object the program did not change has the settings of the daemon.          *)
CallsSeen ==
    /\ \A c \in Call :
          /\ calls[c].state = "done" => c \in performed
          /\ calls[c].state = "error" => c \notin performed
          /\ calls[c].state = "done" /\ calls[c].op = "Update" => c \in applied
          /\ calls[c].state = "done" /\ calls[c].op = "Delete" => ~held
          /\ calls[c].state = "out" => Expected(c)
          /\ calls[c].state = "out" /\ calls[c].op \in OfObject => Alive
    /\ Quiet /\ Alive /\ exported /\ ~edited => content = settings
=============================================================================
