--------------------------- MODULE SettingsStore ---------------------------
(***************************************************************************)
(* What the system settings service promises its clients, without its      *)
(* memory, its plugins or its callbacks: there is a store of saved         *)
(* connections, which its administrator may edit; connections are          *)
(* published to clients and retracted, each once; and every request to     *)
(* change one is performed at a single moment, after PolicyKit granted it  *)
(* and on a connection still published then, or leaves no trace in it.     *)
(*                                                                         *)
(* SystemSettings implements this specification.                           *)
(***************************************************************************)
CONSTANTS File, NoFile, Object, NoObject, Call, Settings, NoSettings

VARIABLES
    store,      \* what is saved in each file
    published,  \* each connection: not yet published, at a file, or retracted
    request,    \* the requests made, with their outcome
    granted     \* the requests PolicyKit has authorized

vars == <<store, published, request, granted>>

Unpublished == "unpublished"
Retracted   == "retracted"

NoRequest == [op |-> "none", on |-> NoObject, settings |-> NoSettings, outcome |-> "none"]

Requests ==
    [op: {"Update"}, on: Object, settings: Settings, outcome: {"pending", "done", "refused"}] \union
    [op: {"Delete", "GetSecrets"}, on: Object, settings: {NoSettings},
     outcome: {"pending", "done", "refused"}] \union
    [op: {"Add"}, on: {NoObject}, settings: Settings, outcome: {"pending", "done", "refused"}]

Init ==
    /\ store \in [File -> Settings \union {NoSettings}]
    /\ published = [i \in Object |-> Unpublished]
    /\ request = [n \in Call |-> NoRequest]
    /\ granted = {}

(* Anybody with access to the files changes one behind the service's back. *)
Edit ==
    /\ \E f \in File, s \in Settings \union {NoSettings} : store' = [store EXCEPT ![f] = s]
    /\ UNCHANGED <<published, request, granted>>

(* Saved connections become known to clients, which a retracted one never does again. *)
Publish ==
    /\ \E P \in SUBSET Object, at \in [Object -> File] :
          /\ \A i \in P : published[i] = Unpublished /\ store[at[i]] # NoSettings
          /\ published' = [i \in Object |-> IF i \in P THEN at[i] ELSE published[i]]
    /\ UNCHANGED <<store, request, granted>>

(* A connection is retracted once its file is gone. *)
Retract ==
    /\ \E i \in Object :
          /\ published[i] \in File
          /\ store[published[i]] = NoSettings
          /\ published' = [published EXCEPT ![i] = Retracted]
    /\ UNCHANGED <<store, request, granted>>

(* A request is made of a published connection, or of the service; it may   *)
(* be turned down at once.                                                  *)
Ask ==
    /\ \E n \in Call, r \in Requests :
          /\ request[n] = NoRequest
          /\ r.outcome \in {"pending", "refused"}
          /\ r.op # "Add" => published[r.on] \in File
          /\ request' = [request EXCEPT ![n] = r]
    /\ UNCHANGED <<store, published, granted>>

Update(i, s) ==
    /\ published[i] \in File
    /\ store' = [store EXCEPT ![published[i]] = s]
    /\ UNCHANGED published

Delete(i) ==
    /\ published[i] \in File
    /\ store' = [store EXCEPT ![published[i]] = NoSettings]
    /\ published' = [published EXCEPT ![i] = Retracted]

GetSecrets(i) ==
    /\ published[i] \in File
    /\ UNCHANGED <<store, published>>

Add(s) ==
    /\ \E f \in File :
          /\ store[f] = NoSettings
          /\ store' = [store EXCEPT ![f] = s]
    /\ UNCHANGED published

Perform(n) ==
    /\ request[n].outcome = "pending"
    /\ request' = [request EXCEPT ![n].outcome = "done"]
    /\ granted' = granted \union {n}
    /\ \/ request[n].op = "Update"     /\ Update(request[n].on, request[n].settings)
       \/ request[n].op = "Delete"     /\ Delete(request[n].on)
       \/ request[n].op = "GetSecrets" /\ GetSecrets(request[n].on)
       \/ request[n].op = "Add"        /\ Add(request[n].settings)

Refuse(n) ==
    /\ request[n].outcome = "pending"
    /\ request' = [request EXCEPT ![n].outcome = "refused"]
    /\ granted' \in {granted, granted \union {n}}
    /\ UNCHANGED <<store, published>>

Next == Edit \/ Publish \/ Retract \/ Ask \/ \E n \in Call : Perform(n) \/ Refuse(n)

Spec == Init /\ [][Next]_vars
=============================================================================
