------------------------------ MODULE GConfValues ------------------------------
(***************************************************************************)
(* gconf-helpers.c below the level of connections: how a value of each of  *)
(* the types that a setting's property can have is kept in GConf, which    *)
(* has neither unsigned nor 64 bit numbers nor NULL, and how secrets and   *)
(* the flags of a connection are kept.                                     *)
(*                                                                         *)
(* A setting's directory d is a function on its keys; what a key holds is  *)
(* a record of GConf's type and the data.  A property's value is the set   *)
(* of its data, empty when it is NULL; so is what a get helper finds.      *)
(***************************************************************************)
EXTENDS Integers, Sequences, SequencesExt, Functions, TLC

CONSTANTS
    IntBits,    \* bound: the width of C's int, 32 in the code
    LongBits    \* bound: the width of guint64, 64 in the code

ASSUME GConfValuesAssumption ==
    /\ IntBits \in Nat \ {0}
    /\ LongBits \in Nat \ {0}

MaxLong == 2 ^ LongBits - 1

(* Casts between int and guint *)
AsUint(i) == i % 2 ^ IntBits
AsInt(u) == IF u >= 2 ^ (IntBits - 1) THEN u - 2 ^ IntBits ELSE u

(* A number that g_object_set brings into the property's range *)
Clamped(spec, i) == IF i < spec.lo THEN spec.lo ELSE IF i > spec.hi THEN spec.hi ELSE i

(* g_ascii_strtoull: what is no number is 0, what is too large ERANGE. *)
Overflow == MaxLong + 1
Parsed(str) ==
    LET N == {n \in 0 .. Overflow : ToString(n) = str}
    IN  IF N = {} THEN 0 ELSE CHOOSE n \in N : TRUE

-----------------------------------------------------------------------------
(* GConf *)

HoldsType(d, k, gc) == k \in DOMAIN d /\ d[k].gc = gc
GetOf(d, k, gc) == {d[j].data : j \in {i \in {k} : HoldsType(d, i, gc)}}
Put(d, k, gc, data) == (k :> [gc |-> gc, data |-> data]) @@ d
Unset(d, k) == Restrict(d, DOMAIN d \ {k})

(* bm_gconf_key_is_set *)
KeyIsSet(d, k) == k \in DOMAIN d

-----------------------------------------------------------------------------
(* The get helpers *)

GetInt(d, k) == GetOf(d, k, "int")
GetFloat(d, k) == GetOf(d, k, "float")
GetString(d, k) == GetOf(d, k, "string")

(* An empty string is TRUE: "a kludge". *)
GetBool(d, k) == GetOf(d, k, "bool") \union {TRUE : str \in GetString(d, k) \intersect {""}}

GetStringList(d, k) == GetOf(d, k, "strings")
GetStringArray(d, k) == GetOf(d, k, "strings")

(* One element that is no byte, and nothing is read. *)
GetBytes(d, k) == {l \in GetOf(d, k, "ints") : \A i \in DOMAIN l : l[i] \in 0 .. 255}

GetUints(d, k) == {[i \in DOMAIN l |-> AsUint(l[i])] : l \in GetOf(d, k, "ints")}

-----------------------------------------------------------------------------
(* The set helpers *)

SetInt(d, k, i) == Put(d, k, "int", i)
SetFloat(d, k, x) == Put(d, k, "float", x)
SetBool(d, k, b) == Put(d, k, "bool", b)

(* NULL unsets. *)
SetString(d, k, v) ==
    IF v = {} THEN Unset(d, k) ELSE Put(d, k, "string", CHOOSE str \in v : TRUE)

(* A list is NULL when it is empty. *)
SetStringList(d, k, l) == Put(d, k, "strings", l)
SetStringArray(d, k, l) == Put(d, k, "strings", l)

(* NULL writes nothing. *)
SetBytes(d, k, v) == IF v = {} THEN d ELSE Put(d, k, "ints", CHOOSE l \in v : TRUE)
SetUints(d, k, v) ==
    IF v = {} THEN d
    ELSE LET l == CHOOSE l \in v : TRUE IN Put(d, k, "ints", [i \in DOMAIN l |-> AsInt(l[i])])

(* The keys of a map are keys of the setting's own directory, and every key  *)
(* there goes first, the other properties' too: no prefix is ever set.      *)
SetStringHash(map) == [name \in DOMAIN map |-> [gc |-> "string", data |-> map[name]]]

(* The set helpers for addresses give up at the first element that is not   *)
(* well formed, and write the whole list or nothing.                        *)
SetList(d, k, ok, gc, written) ==
    IF ~ok \/ written = {} THEN [success |-> ok, dir |-> d]
    ELSE [success |-> TRUE, dir |-> Put(d, k, gc, CHOOSE l \in written : TRUE)]

(* Tuples of one length, one after the other *)
SetIp4(d, k, n, v) ==
    SetList(d, k, \A l \in v : \A i \in DOMAIN l : Len(l[i]) = n, "ints",
            {[i \in 1 .. n * Len(l) |-> AsInt(l[((i - 1) \div n) + 1][((i - 1) % n) + 1])] : l \in v})

(* inet_ntop never fails for an address that is there. *)
SetIp6Dns(d, k, v) == SetList(d, k, TRUE, "strings", v)

(* <<address, prefix>> or <<address, prefix, gateway>>; a gateway that is    *)
(* unspecified is left out.  A tuple of one element is no input: the code     *)
(* lets it pass the test of the length and dereferences the missing prefix. *)
SetIp6Address(d, k, v) ==
    SetList(d, k, \A l \in v : \A i \in DOMAIN l : Len(l[i]) \in 2 .. 3 /\ l[i][2] <= 128, "strings",
            {[i \in DOMAIN l |->
                IF Len(l[i]) = 3 /\ l[i][3] # {} THEN l[i] ELSE SubSeq(l[i], 1, 2)] : l \in v})

(* <<destination, prefix, next hop, metric>> *)
SetIp6Route(d, k, v) ==
    SetList(d, k, \A l \in v : \A i \in DOMAIN l : Len(l[i]) = 4 /\ l[i][2] <= 128, "strings", v)

-----------------------------------------------------------------------------
(* A setting's properties; spec tells the type of each, its range if it has  *)
(* one and its default.                                                     *)

(* read_one_setting_value_from_gconf.  Of a 64 bit number only the largest   *)
(* can be an overflow; errno is looked at but was not reset, so an overflow *)
(* left behind by another call (erange) hides that value.                   *)
ReadOne(d, p, spec, erange) ==
    LET long(str) == IF Parsed(str) = Overflow THEN MaxLong ELSE Parsed(str)
        found ==
            CASE spec.type = "string"  -> GetString(d, p)
              [] spec.type = "uint"    -> {Clamped(spec, AsUint(i)) : i \in GetInt(d, p)}
              [] spec.type = "int"     -> GetInt(d, p)
              [] spec.type = "uint64"  ->
                    {long(str) : str \in
                        {t \in GetString(d, p) : Parsed(t) # Overflow /\ (erange => Parsed(t) # MaxLong)}}
              [] spec.type = "boolean" -> GetBool(d, p)
              [] spec.type = "char"    -> {Clamped(spec, i) : i \in GetInt(d, p)}
              [] spec.type = "bytes"   -> GetBytes(d, p)
              [] spec.type = "list"    -> GetStringList(d, p)
              [] spec.type = "array"   -> GetStringArray(d, p)
              [] spec.type = "uints"   -> GetUints(d, p)
              [] OTHER                 -> {}
    IN  IF found = {} THEN spec.default ELSE found

The(v) == CHOOSE data \in v : TRUE

(* copy_one_setting_value_to_gconf: the default's key is taken away. *)
WriteOne(d, p, spec, v) ==
    IF v = spec.default THEN Unset(d, p)
    ELSE CASE spec.type = "string"           -> SetString(d, p, v)
           [] spec.type = "uint"             -> SetInt(d, p, AsInt(The(v)))
           [] spec.type \in {"int", "char"}  -> SetInt(d, p, The(v))
           [] spec.type = "uint64"           -> SetString(d, p, {ToString(The(v))})
           [] spec.type = "boolean"          -> SetBool(d, p, The(v))
           [] spec.type = "bytes"            -> SetBytes(d, p, v)
           [] spec.type = "list"             -> SetStringList(d, p, The(v))
           [] spec.type = "map"              -> SetStringHash(The(v))
           [] spec.type = "array"            -> SetStringArray(d, p, The(v))
           [] spec.type = "uints"            -> SetUints(d, p, v)
           [] OTHER                          -> d

ReadSetting(d, specs, erange) == [p \in DOMAIN specs |-> ReadOne(d, p, specs[p], erange)]

(* The properties in the order they are listed *)
WriteSetting(d, specs, order, s) ==
    FoldLeft(LAMBDA e, p : WriteOne(e, p, specs[p], s[p]), d, order)

-----------------------------------------------------------------------------
(* What is kept outside the connection's directory: keys are the             *)
(* connection's uuid, and in the keyring setting and property with it.      *)

(* pre_keyring_callback: the applet lets go of the mouse before a dialog. *)
WarnsOfDialog(callback, answers, locked) == callback /\ (~answers \/ locked)

AddItem(keyring, item, secret) == (item :> secret) @@ keyring
DeleteItem(keyring, item) == Restrict(keyring, DOMAIN keyring \ {item})

(* write_one_secret_to_keyring: every string that is not empty, whether it is *)
(* a secret or not; the flags are not looked at.                            *)
WriteSecret(keyring, item, spec, v) ==
    IF spec.type # "string" THEN keyring
    ELSE IF v \in {{}, {""}} THEN DeleteItem(keyring, item)
    ELSE AddItem(keyring, item, The(v))

(* bm_gconf_set_ignore_ca_cert, bm_gconf_set_8021x_password_always_ask: what  *)
(* is FALSE is unset; and what is not set, or is of another type, is FALSE. *)
SetFlag(prefs, k, on) == IF on THEN SetBool(prefs, k, TRUE) ELSE Unset(prefs, k)
GetFlag(prefs, k) == GetOf(prefs, k, "bool") = {TRUE}
=============================================================================
