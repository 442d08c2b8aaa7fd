----------------------------- MODULE Connections -----------------------------
(***************************************************************************)
(* libbm-util's BMConnection and BMSetting: a connection is a table of     *)
(* settings by type, a setting a table of values by property.  Everything  *)
(* the daemon, its clients and the applet tell each other about a          *)
(* connection passes through the operators below: to and from the hash     *)
(* that D-Bus carries, comparison, verification.                           *)
(*                                                                         *)
(* Values are names; Null is NULL, and Unusable a value that D-Bus or      *)
(* GConf holds under a type the property does not have.  The property      *)
(* "name" always equals the setting's type and is left out.                *)
(***************************************************************************)
EXTENDS Naturals

CONSTANTS
    Value,      \* values of properties
    Uuid        \* the values that consist of hex digits and dashes

Null == "NULL"
Empty == ""
Unusable == "of another type"

(* The settings' properties, each with its default *)
ConnectionDefaults ==
    [p \in {"id", "uuid", "type", "autoconnect", "timestamp", "read-only"} |->
        CASE p = "autoconnect" -> "TRUE"
          [] p = "timestamp"   -> "0"
          [] p = "read-only"   -> "FALSE"
          [] OTHER             -> Null]

BluetoothDefaults == [p \in {"bdaddr", "type"} |-> Null]

SerialDefaults ==
    [p \in {"baud", "bits", "parity", "stopbits", "send-delay"} |->
        CASE p = "baud"       -> "57600"
          [] p = "bits"       -> "8"
          [] p = "parity"     -> "n"
          [] p = "stopbits"   -> "1"
          [] p = "send-delay" -> "0"]

(* register_default_settings *)
SettingType == {"connection", "bluetooth", "serial"}

ASSUME ValueAssumption ==
    /\ {"TRUE", "FALSE", "0", "57600", "8", "n", "1"} \subseteq Value
    /\ {Null, Empty} \union SettingType \subseteq Value
    /\ Unusable \notin Value
    /\ Uuid \subseteq Value \ {Null, Empty}

DefaultsOf(t) ==
    CASE t = "connection" -> ConnectionDefaults
      [] t = "bluetooth"  -> BluetoothDefaults
      [] t = "serial"     -> SerialDefaults

Default(t, p) == DefaultsOf(t)[p]

Properties(t) == DOMAIN DefaultsOf(t)

Property == UNION {Properties(t) : t \in SettingType}

(* BM_SETTING_PARAM_FUZZY_IGNORE and BM_SETTING_PARAM_SECRET; this fork has  *)
(* no setting with a secret.                                                *)
FuzzyIgnore(t, p) == t = "connection" /\ p # "type"
Secret(t, p) == FALSE

(* set_property: what a property can hold: strings may be empty, and they and the address *)
(* may be NULL.                                                             *)
ValuesOf(p) ==
    CASE p \in {"id", "uuid", "type"} -> Value
      [] p = "bdaddr"                 -> Value \ {Empty}
      [] OTHER                        -> Value \ {Null, Empty}

IsSetting(t, s) ==
    /\ s \in [Properties(t) -> Value]
    /\ \A p \in Properties(t) : s[p] \in ValuesOf(p)

IsConnection(c) ==
    /\ DOMAIN c \subseteq SettingType
    /\ c = [t \in DOMAIN c |-> c[t]]
    /\ \A t \in DOMAIN c : IsSetting(t, c[t])

(* bm_connection_new, and g_object_new of a setting's type *)
NoSettings == [t \in {} |-> {}]
NewSetting(t) == [p \in Properties(t) |-> Default(t, p)]

(* bm_connection_lookup_setting_type: a name that is not registered has no type. *)
Known(names) == names \intersect SettingType

-----------------------------------------------------------------------------
(* Settings of a connection *)

(* bm_connection_add_setting replaces one of the same type. *)
AddSetting(c, t, s) == [u \in DOMAIN c \union {t} |-> IF u = t THEN s ELSE c[u]]

RemoveSetting(c, t) == [u \in DOMAIN c \ {t} |-> c[u]]

SetProperty(c, t, p, v) == [c EXCEPT ![t] = [@ EXCEPT ![p] = v]]

(* bm_setting_duplicate sets what enumerate_values finds, all of it writable. *)
DuplicateSetting(t, s) == [p \in Properties(t) |-> s[p]]

(* bm_connection_duplicate *)
Duplicate(c) == [t \in DOMAIN c |-> DuplicateSetting(t, c[t])]

-----------------------------------------------------------------------------
(* Hashes: by setting's name, by property's name, the values that are not   *)
(* the default; NULL when there is no setting.                              *)

IsHash(h) ==
    /\ h = [n \in DOMAIN h |-> h[n]]
    /\ \A n \in DOMAIN h :
          /\ h[n] = [p \in DOMAIN h[n] |-> h[n][p]]
          /\ \A p \in DOMAIN h[n] : h[n][p] \in Value \union {Unusable}

SettingToHash(t, s) == [p \in {q \in Properties(t) : s[q] # Default(t, q)} |-> s[p]]

ToHash(c) == [t \in DOMAIN c |-> SettingToHash(t, c[t])]

(* bm_setting_new_from_hash: unknown properties are skipped, g_object_newv    *)
(* leaves the default in place of a value it cannot transform.              *)
SettingFromHash(t, h) ==
    [p \in Properties(t) |->
        IF p \in DOMAIN h /\ h[p] \in ValuesOf(p) THEN h[p] ELSE Default(t, p)]

(* parse_one_setting for each of the hash *)
ParseSettings(h) == [t \in Known(DOMAIN h) |-> SettingFromHash(t, h[t])]

-----------------------------------------------------------------------------
(* Verification *)

(* bm-setting-connection.c: there must be a setting that the type names. *)
VerifyConnectionSetting(s, types) ==
    /\ s["id"] \notin {Null, Empty}
    /\ s["uuid"] \in Uuid
    /\ s["type"] \in types

(* bm-setting-bluetooth.c *)
VerifyBluetooth(s) ==
    /\ s["bdaddr"] # Null
    /\ s["type"] \in {"dun", "panu"}

(* bm_setting_verify; a serial setting is always valid. *)
VerifySetting(c, t) ==
    CASE t = "connection" -> VerifyConnectionSetting(c[t], DOMAIN c)
      [] t = "bluetooth"  -> VerifyBluetooth(c[t])
      [] t = "serial"     -> TRUE

(* bm_connection_verify *)
Verify(c) ==
    /\ "connection" \in DOMAIN c
    /\ \A t \in DOMAIN c : VerifySetting(c, t)

(* bm_connection_replace_settings: what it leaves, and whether it says so. *)
ReplaceSettings(h) == [settings |-> ParseSettings(h), valid |-> Verify(ParseSettings(h))]

(* bm_connection_new_from_hash: the valid connection, if it is one *)
NewFromHash(h) == {c \in {ParseSettings(h)} : Verify(c)}

-----------------------------------------------------------------------------
(* Secrets *)

(* bm_connection_clear_secrets: each secret gets its default. *)
ClearSettingSecrets(t, s) == [p \in Properties(t) |-> IF Secret(t, p) THEN Default(t, p) ELSE s[p]]
ClearSecrets(c) == [t \in DOMAIN c |-> ClearSettingSecrets(t, c[t])]

(* real_get_settings of an exported connection, which has a duplicate to     *)
(* clear; the time stamp of system connections is kept out of their settings.  *)
GetSettings(c) == ToHash(ClearSecrets(Duplicate(c)))

(* update_one_secret: what is no secret is ignored, "name" among it; a value  *)
(* of another type is never transformed, as there is no type to transform it *)
(* to.                                                                      *)
OneSecretFits(t, p, v) == p \in Properties(t) \union {"name"} /\ (Secret(t, p) => v \in ValuesOf(p))

(* bm_setting_update_secrets: whether it succeeds, and what it may leave.  The *)
(* secrets come in any order and the first that does not fit is the last.   *)
UpdateSettingSecrets(t, s, h) ==
    LET fits == {p \in DOMAIN h : OneSecretFits(t, p, h[p])}
        with(S) == [p \in Properties(t) |-> IF p \in S /\ Secret(t, p) THEN h[p] ELSE s[p]]
    IN  IF fits = DOMAIN h THEN [valid |-> TRUE, left |-> {with(fits)}]
        ELSE [valid |-> FALSE, left |-> {with(S) : S \in SUBSET fits}]

(* bm_connection_update_secrets *)
UpdateSecrets(c, t, h) ==
    IF t \notin DOMAIN c THEN [valid |-> FALSE, left |-> {c}]
    ELSE LET r == UpdateSettingSecrets(t, c[t], h)
         IN  [valid |-> r.valid, left |-> {AddSetting(c, t, s) : s \in r.left}]

-----------------------------------------------------------------------------
(* Comparison *)

Flag == {"FUZZY", "IGNORE_ID", "IGNORE_SECRETS"}

ShouldCompare(t, p, flags) ==
    /\ ~("FUZZY" \in flags /\ (FuzzyIgnore(t, p) \/ Secret(t, p)))
    /\ ~("IGNORE_SECRETS" \in flags /\ Secret(t, p))
    /\ ~("IGNORE_ID" \in flags /\ t = "connection" /\ p = "id")

Compared(t, flags) == {p \in Properties(t) : ShouldCompare(t, p, flags)}

(* bm_setting_compare *)
CompareSetting(t, s, other, flags) == \A p \in Compared(t, flags) : s[p] = other[p]

(* compare_one_setting for each of a's *)
CompareOneWay(a, b, flags) ==
    \A t \in DOMAIN a : t \in DOMAIN b /\ CompareSetting(t, a[t], b[t], flags)

(* Mutant of Compare: B is not compared to A. *)
CompareHalf(a, b, flags) == CompareOneWay(a, b, flags)

(* bm_connection_compare: A to B, then B to A for what B has and A has not. *)
Compare(a, b, flags) == CompareOneWay(a, b, flags) /\ CompareOneWay(b, a, flags)

(* bm_setting_diff of a setting of one side, named side, with the other's:  *)
(* a property differs for each side that has not its default.               *)
DiffSetting(t, s, side, other, otherSide, flags) ==
    [p \in {q \in Compared(t, flags) : s[q] # other[q]} |->
        {x \in {side}      : s[p] # Default(t, p)} \union
        {x \in {otherSide} : other[p] # Default(t, p)}]

(* A setting the other side does not have: all of it is this side's. *)
DiffMissing(t, side, flags) == [p \in Compared(t, flags) |-> {side}]

(* diff_one_connection: the results of one direction, without the settings   *)
(* that do not differ.                                                      *)
DiffOne(a, aSide, b, bSide, flags) ==
    LET Results(t) ==
            IF t \in DOMAIN b THEN DiffSetting(t, a[t], aSide, b[t], bSide, flags)
            ELSE DiffMissing(t, aSide, flags)
    IN  [t \in {u \in DOMAIN a : DOMAIN Results(u) # {}} |-> Results(t)]

(* bm_connection_diff: both directions, the results of one added to the other's. *)
Diff(a, b, flags) ==
    LET ab == DiffOne(a, "A", b, "B", flags)
        ba == DiffOne(b, "B", a, "A", flags)
        In(d, t, p) == IF t \in DOMAIN d /\ p \in DOMAIN d[t] THEN d[t][p] ELSE {}
    IN  [t \in DOMAIN ab \union DOMAIN ba |->
            [p \in UNION {DOMAIN d[t] : d \in {x \in {ab, ba} : t \in DOMAIN x}} |->
                In(ab, t, p) \union In(ba, t, p)]]
=============================================================================
