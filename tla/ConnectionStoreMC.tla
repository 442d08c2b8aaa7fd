--------------------------- MODULE ConnectionStoreMC ---------------------------
(* ConnectionStore with a value for each property that verification, GConf   *)
(* or comparison treats in a way of its own; Open gives the defaults back.  *)
EXTENDS ConnectionStore, ValueCompare, GConfValues

ValuesMC ==
    {"TRUE", "FALSE", "0", "57600", "8", "n", "1"} \union SettingType \union
    {Null, Empty, "one", "1-1", "dun", "00:11"}
UuidMC == {"1-1"}
EditsMC ==
    {<<"connection", "type", "bluetooth">>,
     <<"connection", "id", Empty>>,
     <<"connection", "autoconnect", "FALSE">>,
     <<"connection", "timestamp", "1">>,
     <<"connection", "read-only", "TRUE">>,
     <<"bluetooth", "bdaddr", "00:11">>,
     <<"bluetooth", "type", "dun">>,
     <<"serial", "baud", "1">>}

Strings == {<<>>, <<1>>, <<2>>, <<1, 2>>}
Fixed == [type: {"uchar", "uint"}, data: {0, 1}]
StringValues == [type: {"string"}, data: Strings] \union [type: {"string"}]
Boxed ==
    [type: {"strv", "bytes", "list", "map", "value", "ip6address"}] \union
    [type: {"strv"}, data: {<<>>} \union {<<s>> : s \in Strings} \union {<<<<1>>, <<2>>>>}] \union
    [type: {"bytes"}, data: Strings] \union
    [type: {"list"}, data: {<<>>} \union {<<s>> : s \in StringValues} \union
                           {<<s, t>> : s, t \in [type: {"string"}, data: {<<1>>, <<2>>}]}] \union
    [type: {"value"}, data: Fixed \union StringValues] \union
    [type: {"ip6address"}, data: {<<1>>, <<2>>} \X {0, 64} \X {<<1>>, <<2>>}] \union
    [type: {"ip6route"}, data: {<<1>>, <<2>>} \X {0, 64} \X {<<1>>, <<2>>} \X {0, 1}]
Maps == [type: {"map"}, data: UNION {[K -> Fixed] : K \in SUBSET {"k", "l"}}]

(* Values of the types that specialized properties can have, NULL and        *)
(* nested ones among them                                                   *)
Ordered == Fixed \union StringValues \union Boxed

(* bm_gvalues_compare finds exactly equal values equal, so that a setting    *)
(* differs if and only if one of its values does; and, but for maps, it     *)
(* orders values: no two are each greater than the other, and what is less  *)
(* than a lesser one is less.                                               *)
ValuesCompared ==
    /\ \A v, w \in Ordered \union Maps : CompareValues(v, w) = 0 <=> v = w
    /\ \A v, w \in Ordered : CompareValues(v, w) = -CompareValues(w, v)
    /\ \A u, v, w \in Ordered :
          CompareValues(u, v) = -1 /\ CompareValues(v, w) = -1 => CompareValues(u, w) = -1

(* A setting with a property of each type, and the values each can have      *)
Spec0(type, default) == [type |-> type, lo |-> 0, hi |-> 2 ^ IntBits - 1, default |-> default]
Specs ==
    [p \in {"s", "u", "i", "l", "b", "c", "y", "ls", "as", "au"} |->
        CASE p = "s"  -> Spec0("string", {})
          [] p = "u"  -> Spec0("uint", {7})
          [] p = "i"  -> Spec0("int", {0})
          [] p = "l"  -> Spec0("uint64", {0})
          [] p = "b"  -> Spec0("boolean", {TRUE})
          [] p = "c"  -> [type |-> "char", lo |-> 69, hi |-> 111, default |-> {110}]
          [] p = "y"  -> Spec0("bytes", {})
          [] p = "ls" -> Spec0("list", {<<>>})
          [] p = "as" -> Spec0("array", {})
          [] p = "au" -> Spec0("uints", {})]
Order == <<"s", "u", "i", "l", "b", "c", "y", "ls", "as", "au">>
Lists == {<<>>, <<"x">>, <<"", "x">>}
DataOf ==
    [p \in DOMAIN Specs |->
        CASE p = "s"  -> {{}, {""}, {"x"}}
          [] p = "u"  -> {{u} : u \in 0 .. 2 ^ IntBits - 1}
          [] p = "i"  -> {{i} : i \in -(2 ^ (IntBits - 1)) .. 2 ^ (IntBits - 1) - 1}
          [] p = "l"  -> {{n} : n \in 0 .. MaxLong}
          [] p = "b"  -> {{TRUE}, {FALSE}}
          [] p = "c"  -> {{c} : c \in 69 .. 111}
          [] p = "y"  -> {{}, {<<>>}, {<<0, 255>>}, {<<128>>}}
          [] p = "ls" -> {{l} : l \in Lists}
          [] p = "as" -> {{}} \union {{l} : l \in Lists}
          [] p = "au" -> {{}, {<<>>}, {<<1, 2 ^ IntBits - 1>>}, {<<2 ^ (IntBits - 1)>>}}]

(* What another program or an older version may have left under a key *)
Left ==
    <<[gc |-> "int", data |-> -1], [gc |-> "int", data |-> 300], [gc |-> "string", data |-> ""],
      [gc |-> "bool", data |-> FALSE], [gc |-> "ints", data |-> <<256>>],
      [gc |-> "strings", data |-> <<"z">>]>>
Old(n) == [k \in IF n = 0 THEN {} ELSE DOMAIN Specs \union {"x"} |-> Left[n]]
Olds == 0 .. Len(Left)

Usual == [p \in DOMAIN Specs |-> CHOOSE v \in DataOf[p] : v # Specs[p].default]

(* A setting that is written to GConf is read back as it was, whatever was   *)
(* under its keys: numbers above the largest int and lists of them pass     *)
(* through int, a boolean is not taken for a left over string, and no key   *)
(* stays for a default or for NULL.  Only the largest 64 bit number can be  *)
(* taken for an overflow.  Other keys stay.                                 *)
SettingsComeBack ==
    \A n \in Olds : \A p \in DOMAIN Specs : \A v \in DataOf[p] :
        LET d == Old(n)
            s == [Usual EXCEPT ![p] = v]
            e == WriteSetting(d, Specs, Order, s)
        IN  /\ ReadSetting(e, Specs, FALSE) = s
            /\ s["l"] # {MaxLong} => ReadSetting(e, Specs, TRUE) = s
            /\ \A q \in DOMAIN Specs : KeyIsSet(e, q) <=> s[q] # Specs[q].default
            /\ KeyIsSet(e, "x") <=> KeyIsSet(d, "x")

(* The helpers for addresses, which no setting uses: all of a list or nothing *)
Tuples == {<<1, 2 ^ IntBits - 1>>, <<1>>, <<3, 4>>}
Ip6 == {<<"a", 64>>, <<"a", 64, {}>>, <<"a", 64, {"g"}>>, <<"a", 129>>, <<"d", 64, "h", 1>>}
TwoOf(S) == {<<>>} \union {<<a>> : a \in S} \union (S \X S)
ListsWhole ==
    LET d == Put([k \in {} |-> 0], "k", "strings", <<"old">>)
        whole(r, l) == IF r.success THEN Len(r.dir["k"].data) = Len(l) ELSE r.dir = d
    IN  /\ \A l \in TwoOf(Tuples) :
              LET r == SetIp4(d, "k", 2, {l})
              IN  IF r.success
                  THEN GetUints(r.dir, "k") = {FlattenSeq(l)}
                  ELSE r.dir = d
        /\ \A l \in TwoOf(Ip6) :
              /\ whole(SetIp6Address(d, "k", {l}), l)
              /\ whole(SetIp6Route(d, "k", {l}), l)
              /\ whole(SetIp6Dns(d, "k", {l}), l)

(* Secrets and flags follow what was written last, each under its own key,    *)
(* and a map brings its own keys alone.                                     *)
KeptApart ==
    LET items == {<<"1-1", "connection", p>> : p \in {"s", "u"}}
        none == [i \in {} |-> ""]
        write(ring, v, w) ==
            WriteSecret(WriteSecret(ring, <<"1-1", "connection", "s">>, Specs["s"], v),
                        <<"1-1", "connection", "u">>, Specs["u"], w)
    IN  /\ \A v, w \in DataOf["s"] :
              LET ring == write(write(none, v, {1}), w, {2})
              IN  DOMAIN ring = {i \in items : i[3] = "s" /\ w \notin {{}, {""}}}
        /\ \A on, off \in BOOLEAN :
              LET prefs == SetFlag(SetFlag(SetFlag([k \in {} |-> 0], 1, ~on), 1, on), 2, off)
              IN  GetFlag(prefs, 1) = on /\ GetFlag(prefs, 2) = off
        /\ \A n \in Olds : LET e == WriteOne(Old(n), "m", Spec0("map", {}), {[x |-> "1", y |-> "2"]})
                           IN  /\ DOMAIN e = {"x", "y"}
                               /\ GetString(e, "y") = {"2"} /\ GetFloat(SetFloat(e, "f", 1), "f") = {1}
        /\ \A c, a, l \in BOOLEAN : c /\ l => WarnsOfDialog(c, a, l)

(* No setting of this library has a secret: clearing them before a connection *)
(* is sent takes nothing away, and what comes as a secret sets nothing, be  *)
(* it refused or ignored.                                                   *)
SecretsLeaveAlone ==
    /\ GetSettings(object) = ToHash(object)
    /\ \A t \in SettingType : \A p, q \in Property \union {"psk"} : \A v \in {"one", Unusable} :
          LET r == UpdateSecrets(object, t, [k \in {p, q} |-> v])
          IN  /\ r.left = {object}
              /\ r.valid <=> t \in DOMAIN object /\ {p, q} \subseteq Properties(t)

(* What is written is read back.  A connection from its directory, however    *)
(* that looked before; value by value, what gconf-helpers.c writes of each   *)
(* type; and a change is seen by bm_gvalues_compare and no other.  The      *)
(* values are constants: they are looked at after the first edit.          *)
KeptAsWritten ==
    /\ SavedComesBack
    /\ edits = 1 => ValuesCompared /\ SettingsComeBack /\ ListsWhole /\ KeptApart
    /\ edits = 1 => SecretsLeaveAlone
=============================================================================
