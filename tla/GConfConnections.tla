--------------------------- MODULE GConfConnections ---------------------------
(***************************************************************************)
(* The applet's gconf-helpers.c: a connection as GConf keys under one      *)
(* directory, a subdirectory for each setting, a key for each property.    *)
(* A directory's content d is a function on <<subdirectory, key>>.         *)
(***************************************************************************)
EXTENDS Connections

(* Everything under one connection's directory; other programs write there  *)
(* too, so any key may be of any type, and subdirectories may be foreign.   *)
IsDir(d) == d \in [DOMAIN d -> Value \union {Unusable}]

(* gconf_client_all_dirs *)
Subdirs(d) == {k[1] : k \in DOMAIN d}

Keep(d, K) == [k \in K |-> d[k]]

-----------------------------------------------------------------------------
(* Reading *)

(* What the get helpers make of a key: an empty string stands for TRUE in a  *)
(* boolean's place, a timestamp is kept as a string and parsed, and what is *)
(* of another type is not read.                                             *)
ReadValue(p, v) ==
    CASE v = Empty /\ p = "autoconnect" -> "TRUE"
      [] v = Empty /\ p = "timestamp"   -> "0"
      [] OTHER                          -> v

(* GConf holds no NULL. *)
IsRead(p, v) == v # Null /\ ReadValue(p, v) \in ValuesOf(p)

(* read_one_setting_value_from_gconf *)
ReadProperty(d, t, p) ==
    LET k == <<t, p>>
    IN  IF p # "read-only" /\ k \in DOMAIN d /\ IsRead(p, d[k]) THEN ReadValue(p, d[k])
        ELSE Default(t, p)

(* read_one_setting, for each subdirectory that a setting's type names; a    *)
(* directory without subdirectories is no connection.                       *)
ReadConnection(d) ==
    {c \in {[t \in Known(Subdirs(d)) |-> [p \in Properties(t) |-> ReadProperty(d, t, p)]]} :
        Subdirs(d) # {}}

-----------------------------------------------------------------------------
(* Writing *)

(* copy_one_setting_value_to_gconf: keys that are set, and keys that are     *)
(* unset because the value is the default; read-only is left as it is.  The *)
(* "name" is among the values.                                             *)
Written(c, k) == k[1] \in DOMAIN c /\ k[2] \in Properties(k[1]) \ {"read-only"}

SetKeys(c) ==
    {k \in SettingType \X Property : Written(c, k) /\ c[k[1]][k[2]] # Default(k[1], k[2])}

NameKeys(c) == {<<t, "name">> : t \in DOMAIN c}

UnsetKeys(c) ==
    {k \in SettingType \X Property : Written(c, k) /\ c[k[1]][k[2]] = Default(k[1], k[2])}

(* remove_leftovers: the subdirectories that no setting names *)
Leftovers(d, c) == {k \in DOMAIN d : k[1] \notin DOMAIN c}

(* Mutant of WriteConnection: keys of properties that went back to their    *)
(* default stay.                                                            *)
WriteConnectionKeepsDefaults(d, c) ==
    [k \in ((DOMAIN d \ Leftovers(d, c)) \union SetKeys(c)) \union NameKeys(c) |->
        IF k \in SetKeys(c) THEN c[k[1]][k[2]]
        ELSE IF k \in NameKeys(c) THEN k[1]
        ELSE d[k]]

(* bm_gconf_write_connection; nothing is written without a connection setting. *)
WriteConnection(d, c) ==
    IF "connection" \notin DOMAIN c THEN d
    ELSE [k \in ((DOMAIN d \ UnsetKeys(c)) \ Leftovers(d, c)) \union SetKeys(c) \union NameKeys(c) |->
            IF k \in SetKeys(c) THEN c[k[1]][k[2]]
            ELSE IF k \in NameKeys(c) THEN k[1]
            ELSE d[k]]
=============================================================================
