---------------------------- MODULE ConnectionStore ----------------------------
(***************************************************************************)
(* One connection of the applet on its way: the object the applet exports, *)
(* a copy that an editor or another client works on, and the directory in  *)
(* GConf that the applet, and other programs, write.                       *)
(***************************************************************************)
EXTENDS GConfConnections

CONSTANTS
    Edits,      \* bound: what is set, <<type, property, value>>
    MaxEdits    \* bound: edits of the copy and of GConf

ASSUME ConnectionStoreAssumption ==
    /\ MaxEdits \in Nat
    /\ {"one", "1-1"} \subseteq Value
    /\ Edits \subseteq SettingType \X Property \X Value
    /\ \A e \in Edits : e[2] \in Properties(e[1]) /\ e[3] \in ValuesOf(e[2])

VARIABLES
    object,     \* the BMAGConfConnection's settings
    copy,       \* a client's copy of it
    dir,        \* the content of its directory in GConf
    edits       \* edits so far

storeVars == <<object, copy, dir, edits>>

(* A valid connection, not saved yet *)
Fresh ==
    LET Set == [id |-> "one", uuid |-> "1-1", type |-> "serial"]
    IN  [t \in {"connection", "serial"} |->
            [p \in Properties(t) |-> IF p \in DOMAIN Set THEN Set[p] ELSE Default(t, p)]]

StoreInit ==
    /\ object = Fresh
    /\ copy = Fresh
    /\ dir = [k \in {} |-> Null]
    /\ edits = 0

Edit == edits < MaxEdits /\ edits' = edits + 1

(* The editor sets a property, adds a setting or takes one away. *)
EditProperty(t, p, v) ==
    /\ Edit
    /\ t \in DOMAIN copy
    /\ copy' = SetProperty(copy, t, p, v)
    /\ UNCHANGED <<object, dir>>

EditAdd(t) ==
    /\ Edit
    /\ t \notin DOMAIN copy
    /\ copy' = AddSetting(copy, t, NewSetting(t))
    /\ UNCHANGED <<object, dir>>

EditRemove(t) ==
    /\ Edit
    /\ t \in DOMAIN copy
    /\ copy' = RemoveSetting(copy, t)
    /\ UNCHANGED <<object, dir>>

(* A client reads the settings: get_settings_cb replaces its copy's. *)
Fetch ==
    /\ copy' = ReplaceSettings(GetSettings(object)).settings
    /\ UNCHANGED <<object, dir, edits>>

(* The editor works on a duplicate. *)
Open ==
    /\ copy' = Duplicate(object)
    /\ UNCHANGED <<object, dir, edits>>

(* dbus_update: what is not valid changes nothing. *)
Send ==
    /\ \E c \in NewFromHash(ToHash(copy)) : object' = c
    /\ UNCHANGED <<copy, dir, edits>>

(* bma_gconf_connection_update *)
Save ==
    /\ dir' = WriteConnection(dir, object)
    /\ UNCHANGED <<object, copy, edits>>

(* bma_gconf_connection_changed *)
Load ==
    /\ \E c \in ReadConnection(dir) :
          Verify(c) /\ ~Compare(object, c, {}) /\ object' = c
    /\ UNCHANGED <<copy, dir, edits>>

(* Another program sets or unsets a key. *)
OtherSets(t, p, v) ==
    /\ Edit
    /\ dir' = [k \in DOMAIN dir \union {<<t, p>>} |-> IF k = <<t, p>> THEN v ELSE dir[k]]
    /\ UNCHANGED <<object, copy>>

OtherUnsets(k) ==
    /\ Edit
    /\ dir' = Keep(dir, DOMAIN dir \ {k})
    /\ UNCHANGED <<object, copy>>

Editing ==
    \/ \E e \in Edits : EditProperty(e[1], e[2], e[3])
    \/ \E t \in SettingType : EditAdd(t) \/ EditRemove(t)

Other ==
    \/ \E e \in Edits : \E v \in {e[3], Empty, Unusable} \ {Null} : OtherSets(e[1], e[2], v)
    \/ \E k \in DOMAIN dir : OtherUnsets(k)

StoreNext == Editing \/ Fetch \/ Open \/ Send \/ Save \/ Load \/ Other

StoreSpec == StoreInit /\ [][StoreNext]_storeVars

-----------------------------------------------------------------------------
(* Properties *)

(* Every variable has its type. *)
TypeOK ==
    /\ IsConnection(object)
    /\ IsConnection(copy)
    /\ IsDir(dir)
    /\ edits \in 0 .. MaxEdits

(* What bm_connection_compare and bm_connection_diff, two traversals with    *)
(* their own handling of flags and of settings on one side, say of any two  *)
(* connections agrees; no order of the arguments matters, and the more is   *)
(* ignored the more is equal.                                               *)
DiffIsCompare ==
    \A flags \in SUBSET Flag :
        /\ Compare(object, copy, flags) <=> Diff(object, copy, flags) = NoSettings
        /\ Compare(object, copy, flags) <=> Compare(copy, object, flags)
        /\ Compare(object, copy, {}) => Compare(object, copy, flags)

(* However its directory looked before, a connection that is written to GConf *)
(* comes back as it was when it is read, all but read-only, which is not    *)
(* kept in GConf: no key of an older version and no other program's leftovers *)
(* show through.                                                            *)
WithoutReadOnly(c) == SetProperty(c, "connection", "read-only", "FALSE")

SavedComesBack ==
    "connection" \in DOMAIN object =>
        ReadConnection(WriteConnection(dir, object)) = {WithoutReadOnly(object)}

(* A valid connection that is sent over D-Bus arrives as it was, however    *)
(* many of its properties are left out as defaults.                         *)
SentArrives == \A c \in {object, copy} : Verify(c) => NewFromHash(ToHash(c)) = {c}
=============================================================================
