----------------------------- MODULE ValueCompare -----------------------------
(***************************************************************************)
(* libbm-util's bm-param-spec-specialized.c: how values of the types that  *)
(* D-Bus knows are compared when settings are.  A value is a record of its *)
(* type and its data; one without data is NULL.  A string is the sequence  *)
(* of its characters, numbers, and so is an array of bytes.  The result is *)
(* negative, zero or positive in C; here it is -1, 0 or 1.                 *)
(***************************************************************************)
EXTENDS Integers, Sequences, FiniteSetsExt

IsNull(v) == "data" \notin DOMAIN v

(* type_is_fixed_size *)
FixedSize == {"char", "uchar", "boolean", "long", "ulong", "int", "uint", "int64", "uint64"}

Sign(x, y) == IF x < y THEN -1 ELSE IF x > y THEN 1 ELSE 0

(* The first result that is not zero *)
FirstOf(results) ==
    LET I == {i \in DOMAIN results : results[i] # 0}
    IN  IF I = {} THEN 0 ELSE results[Min(I)]

Shorter(s, t) == Min({Len(s), Len(t)})

(* strcmp, and memcmp of arrays of one length *)
CompareBytes(s, t) ==
    LET first == FirstOf([i \in 1 .. Shorter(s, t) |-> Sign(s[i], t[i])])
    IN  IF first # 0 THEN first ELSE Sign(Len(s), Len(t))

(* bm_gvalues_compare_fixed *)
CompareFixed(v, w) == Sign(v.data, w.data)

(* What comes before the data are looked at: NULL is greater than any. *)
CompareNulls(v, w) ==
    IF IsNull(v) /\ IsNull(w) THEN 0 ELSE IF IsNull(v) THEN 1 ELSE -1

(* bm_gvalues_compare_string *)
CompareString(v, w) ==
    IF IsNull(v) \/ IsNull(w) THEN CompareNulls(v, w)
    ELSE CompareBytes(v.data, w.data)

(* bm_gvalues_compare_strv: element by element, then the longer is greater. *)
CompareStrv(v, w) ==
    LET first == FirstOf([i \in 1 .. Shorter(v.data, w.data) |-> CompareBytes(v.data[i], w.data[i])])
    IN  IF first # 0 THEN first ELSE Sign(Len(v.data), Len(w.data))

(* bm_gvalue_ip6_address_compare: <<address, prefix, gateway>> *)
CompareAddress(v, w) ==
    FirstOf(<<Sign(v.data[2], w.data[2]),
              CompareBytes(v.data[1], w.data[1]),
              CompareBytes(v.data[3], w.data[3])>>)

(* bm_gvalue_ip6_route_compare: <<destination, prefix, next hop, metric>>; the *)
(* metric is looked at last and decides if it can.                          *)
CompareRoute(v, w) ==
    FirstOf(<<Sign(v.data[2], w.data[2]),
              Sign(v.data[4], w.data[4]),
              CompareBytes(v.data[1], w.data[1]),
              CompareBytes(v.data[3], w.data[3])>>)

(* bm_gvalues_compare_struct: other structures are warned about; the result *)
(* is that of a comparison of the addresses of two different GValues.       *)
CompareStruct(v, w) ==
    CASE v.type = "ip6address" -> CompareAddress(v, w)
      [] v.type = "ip6route"   -> CompareRoute(v, w)
      [] OTHER                 -> 0

RECURSIVE CompareValues(_, _)

(* bm_gvalues_compare_collection of what has no fixed size: the shorter is   *)
(* less; iterate_collection prepends, so the last elements come first.      *)
CompareList(v, w) ==
    LET n == Len(v.data)
    IN  IF n # Len(w.data) THEN Sign(n, Len(w.data))
        ELSE FirstOf([i \in 1 .. n |-> CompareValues(v.data[n + 1 - i], w.data[n + 1 - i])])

(* bm_gvalues_compare_collection of a fixed size's elements *)
CompareArray(v, w) ==
    IF Len(v.data) # Len(w.data) THEN Sign(Len(v.data), Len(w.data))
    ELSE CompareBytes(v.data, w.data)

(* bm_gvalues_compare_map: the smaller is less.  Otherwise the first key of   *)
(* the table's order that has no equal decides, and one that the other does *)
(* not have gives 1 on either side; here it always does.                    *)
CompareMap(v, w) ==
    LET size(x) == Cardinality(DOMAIN x.data)
        item(k) == IF k \in DOMAIN w.data THEN CompareValues(v.data[k], w.data[k]) ELSE 1
    IN  IF size(v) # size(w) THEN Sign(size(v), size(w))
        ELSE IF \A k \in DOMAIN v.data : item(k) = 0 THEN 0 ELSE 1

(* The types' order is that of their numbers, any. *)
TypeOrder ==
    <<"char", "uchar", "boolean", "int", "uint", "long", "ulong", "int64", "uint64", "string",
      "strv", "bytes", "list", "map", "ip6address", "ip6route", "value", "other">>

TypeNumber(v) == CHOOSE i \in DOMAIN TypeOrder : TypeOrder[i] = v.type

(* bm_gvalues_compare of boxed values; those of a type it does not know it   *)
(* takes for equal.                                                         *)
CompareBoxed(v, w) ==
    IF IsNull(v) \/ IsNull(w) THEN CompareNulls(v, w)
    ELSE CASE v.type = "strv"  -> CompareStrv(v, w)
           [] v.type = "bytes" -> CompareArray(v, w)
           [] v.type = "list"  -> CompareList(v, w)
           [] v.type = "map"   -> CompareMap(v, w)
           [] v.type = "value" -> CompareValues(v.data, w.data)
           [] OTHER            -> CompareStruct(v, w)

(* bm_gvalues_compare *)
CompareValues(v, w) ==
    IF v.type # w.type THEN Sign(TypeNumber(v), TypeNumber(w))
    ELSE CASE v.type \in FixedSize -> CompareFixed(v, w)
           [] v.type = "string"    -> CompareString(v, w)
           [] OTHER                -> CompareBoxed(v, w)
=============================================================================
