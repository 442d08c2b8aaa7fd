--------------------------- MODULE ConnectionsProofs ---------------------------
(* Proofs about Connections, GConfConnections and ConnectionStore, for any    *)
(* values of properties, any set of edits and number of them; and about     *)
(* bmcli, which lists the connections there are (CommandLine).              *)
EXTENDS ConnectionStore, CommandLine, TLAPS

-----------------------------------------------------------------------------
(* Types of the operators *)

LEMMA PropertiesOf ==
    /\ Properties("connection") = {"id", "uuid", "type", "autoconnect", "timestamp", "read-only"}
    /\ Properties("bluetooth") = {"bdaddr", "type"}
    /\ Properties("serial") = {"baud", "bits", "parity", "stopbits", "send-delay"}
BY DEF Properties, DefaultsOf, ConnectionDefaults, BluetoothDefaults, SerialDefaults

LEMMA ValuesAreValues == ASSUME NEW p \in Property PROVE ValuesOf(p) \subseteq Value
BY DEF ValuesOf

(* Every default is a value its property can hold. *)
LEMMA DefaultsFit ==
    ASSUME NEW t \in SettingType, NEW p \in Properties(t)
    PROVE  Default(t, p) \in ValuesOf(p)
<1> USE ValueAssumption DEF Default, Properties, DefaultsOf, ValuesOf, Null, Empty
<1>1. CASE t = "connection"
  BY <1>1 DEF ConnectionDefaults
<1>2. CASE t = "bluetooth"
  BY <1>2 DEF BluetoothDefaults
<1>3. CASE t = "serial"
  BY <1>3 DEF SerialDefaults
<1> QED
  BY <1>1, <1>2, <1>3 DEF SettingType

LEMMA PropertyIs ==
    ASSUME NEW t \in SettingType PROVE Properties(t) \subseteq Property
BY DEF Property

LEMMA NewSettingIs == ASSUME NEW t \in SettingType PROVE IsSetting(t, NewSetting(t))
BY DefaultsFit, ValuesAreValues, PropertyIs DEF IsSetting, NewSetting

(* What is parsed, whatever it is, consists of settings of their types. *)
LEMMA ParsedIs == ASSUME NEW h PROVE IsConnection(ParseSettings(h))
<1>1. ASSUME NEW t \in SettingType PROVE IsSetting(t, SettingFromHash(t, h[t]))
  BY DefaultsFit, ValuesAreValues, PropertyIs DEF IsSetting, SettingFromHash
<1>2. DOMAIN ParseSettings(h) \subseteq SettingType
  BY DEF ParseSettings, Known
<1>3. ParseSettings(h) = [t \in DOMAIN ParseSettings(h) |-> ParseSettings(h)[t]]
  BY DEF ParseSettings
<1>4. ASSUME NEW t \in DOMAIN ParseSettings(h) PROVE IsSetting(t, ParseSettings(h)[t])
  BY <1>1, <1>2 DEF ParseSettings
<1> QED
  BY <1>2, <1>3, <1>4 DEF IsConnection

LEMMA ReadIs == ASSUME NEW d, NEW c \in ReadConnection(d) PROVE IsConnection(c)
<1>1. ASSUME NEW t \in SettingType, NEW p \in Properties(t)
      PROVE  ReadProperty(d, t, p) \in ValuesOf(p)
  BY DefaultsFit DEF ReadProperty, IsRead
<1>2. c = [t \in Known(Subdirs(d)) |-> [p \in Properties(t) |-> ReadProperty(d, t, p)]]
  BY DEF ReadConnection
<1>3. ASSUME NEW t \in Known(Subdirs(d)) PROVE IsSetting(t, c[t])
  <2>1. t \in SettingType
    BY DEF Known
  <2>2. c[t] = [p \in Properties(t) |-> ReadProperty(d, t, p)]
    BY <1>2
  <2> QED
    BY <1>1, <2>1, <2>2, ValuesAreValues, PropertyIs DEF IsSetting
<1> QED
  BY <1>2, <1>3 DEF IsConnection, Known

-----------------------------------------------------------------------------
(* What is sent arrives. *)

LEMMA SettingArrives ==
    ASSUME NEW t \in SettingType, NEW s, IsSetting(t, s)
    PROVE  SettingFromHash(t, SettingToHash(t, s)) = s
<1>1. s = [p \in Properties(t) |-> s[p]]
  BY DEF IsSetting
<1>2. ASSUME NEW p \in Properties(t)
      PROVE  SettingFromHash(t, SettingToHash(t, s))[p] = s[p]
  <2>1. CASE s[p] = Default(t, p)
    <3>1. p \notin DOMAIN SettingToHash(t, s)
      BY <2>1 DEF SettingToHash
    <3> QED
      BY <2>1, <3>1 DEF SettingFromHash
  <2>2. CASE s[p] # Default(t, p)
    <3>1. p \in DOMAIN SettingToHash(t, s) /\ SettingToHash(t, s)[p] = s[p]
      BY <2>2 DEF SettingToHash
    <3> QED
      BY <3>1 DEF SettingFromHash, IsSetting
  <2> QED
    BY <2>1, <2>2
<1> QED
  BY <1>1, <1>2 DEF SettingFromHash

LEMMA ConnectionArrives ==
    ASSUME NEW c, IsConnection(c)
    PROVE  ParseSettings(ToHash(c)) = c
<1>1. Known(DOMAIN ToHash(c)) = DOMAIN c
  BY DEF Known, ToHash, IsConnection
<1>2. ASSUME NEW t \in DOMAIN c PROVE SettingFromHash(t, ToHash(c)[t]) = c[t]
  <2>1. t \in SettingType /\ IsSetting(t, c[t])
    BY DEF IsConnection
  <2>2. ToHash(c)[t] = SettingToHash(t, c[t])
    BY DEF ToHash
  <2> QED
    BY <2>1, <2>2, SettingArrives
<1>3. ParseSettings(ToHash(c)) = [t \in DOMAIN c |-> c[t]]
  BY <1>1, <1>2 DEF ParseSettings
<1> QED
  BY <1>3 DEF IsConnection

(* A valid connection that is sent arrives as it was: both of the properties *)
(* that are left out and of those that are sent.                            *)
LEMMA Arrival == TypeOK => SentArrives
<1> SUFFICES ASSUME TypeOK, NEW c \in {object, copy}, Verify(c)
             PROVE  NewFromHash(ToHash(c)) = {c}
  BY DEF SentArrives
<1>1. ParseSettings(ToHash(c)) = c
  BY ConnectionArrives DEF TypeOK
<1> QED
  BY <1>1 DEF NewFromHash

-----------------------------------------------------------------------------
(* Comparison and difference *)

LEMMA CompareBothWays ==
    ASSUME NEW a, NEW b, NEW flags
    PROVE  Compare(a, b, flags) <=>
             /\ DOMAIN a = DOMAIN b
             /\ \A t \in DOMAIN a : \A p \in Compared(t, flags) : a[t][p] = b[t][p]
BY DEF Compare, CompareOneWay, CompareSetting

(* Something of a setting is compared, whatever is ignored. *)
LEMMA SomethingCompared ==
    ASSUME NEW t \in SettingType, NEW flags
    PROVE  Compared(t, flags) # {}
<1>1. CASE t = "connection"
  <2>1. "type" \in Compared(t, flags)
    BY <1>1, PropertiesOf DEF Compared, ShouldCompare, FuzzyIgnore, Secret
  <2> QED
    BY <2>1
<1>2. CASE t # "connection"
  <2>1. Compared(t, flags) = Properties(t)
    BY <1>2 DEF Compared, ShouldCompare, FuzzyIgnore, Secret
  <2> QED
    BY <1>2, <2>1, PropertiesOf DEF SettingType
<1> QED
  BY <1>1, <1>2

(* One direction finds nothing if and only if this direction compares.      *)
LEMMA DiffOneWay ==
    ASSUME NEW a, NEW b, NEW flags, NEW as, NEW bs, IsConnection(a)
    PROVE  DOMAIN DiffOne(a, as, b, bs, flags) = {} <=> CompareOneWay(a, b, flags)
<1> DEFINE Results(t) == IF t \in DOMAIN b THEN DiffSetting(t, a[t], as, b[t], bs, flags)
                         ELSE DiffMissing(t, as, flags)
<1>1. DOMAIN DiffOne(a, as, b, bs, flags) = {t \in DOMAIN a : DOMAIN Results(t) # {}}
  BY DEF DiffOne
<1>2. ASSUME NEW t \in DOMAIN a
      PROVE  DOMAIN Results(t) = {} <=> t \in DOMAIN b /\ CompareSetting(t, a[t], b[t], flags)
  <2>1. t \in SettingType
    BY DEF IsConnection
  <2>2. CASE t \in DOMAIN b
    <3>1. DOMAIN Results(t) = {p \in Compared(t, flags) : a[t][p] # b[t][p]}
      BY <2>2 DEF DiffSetting
    <3> QED
      BY <2>2, <3>1 DEF CompareSetting
  <2>3. CASE t \notin DOMAIN b
    <3>1. DOMAIN Results(t) = Compared(t, flags)
      BY <2>3 DEF DiffMissing
    <3> QED
      BY <2>1, <2>3, <3>1, SomethingCompared
  <2> QED
    BY <2>2, <2>3
<1> QED
  BY <1>1, <1>2 DEF CompareOneWay

LEMMA DiffDomain ==
    ASSUME NEW a, NEW b, NEW flags
    PROVE  DOMAIN Diff(a, b, flags) =
             DOMAIN DiffOne(a, "A", b, "B", flags) \union DOMAIN DiffOne(b, "B", a, "A", flags)
BY DEF Diff

LEMMA NothingIsEmpty ==
    ASSUME NEW a, NEW b, NEW flags
    PROVE  Diff(a, b, flags) = NoSettings <=> DOMAIN Diff(a, b, flags) = {}
<1> DEFINE F(t) ==
        [p \in UNION {DOMAIN d[t] : d \in {x \in {DiffOne(a, "A", b, "B", flags), DiffOne(b, "B", a, "A", flags)} :
                                            t \in DOMAIN x}} |->
            (IF t \in DOMAIN DiffOne(a, "A", b, "B", flags) /\ p \in DOMAIN DiffOne(a, "A", b, "B", flags)[t]
             THEN DiffOne(a, "A", b, "B", flags)[t][p] ELSE {}) \union
            (IF t \in DOMAIN DiffOne(b, "B", a, "A", flags) /\ p \in DOMAIN DiffOne(b, "B", a, "A", flags)[t]
             THEN DiffOne(b, "B", a, "A", flags)[t][p] ELSE {})]
<1>1. Diff(a, b, flags) = [t \in DOMAIN Diff(a, b, flags) |-> F(t)]
  BY DiffDomain DEF Diff
<1> HIDE DEF F
<1>2. CASE DOMAIN Diff(a, b, flags) = {}
  BY <1>1, <1>2 DEF NoSettings
<1>3. DOMAIN NoSettings = {}
  BY DEF NoSettings
<1> QED
  BY <1>2, <1>3

(* What bm_connection_diff finds is what bm_connection_compare sees, of any   *)
(* two connections; neither minds the order of its arguments, and ignoring  *)
(* more never makes equal ones differ.                                      *)
LEMMA DiffAgrees == TypeOK => DiffIsCompare
<1> SUFFICES ASSUME TypeOK, NEW flags \in SUBSET Flag
             PROVE  /\ Compare(object, copy, flags) <=> Diff(object, copy, flags) = NoSettings
                    /\ Compare(object, copy, flags) <=> Compare(copy, object, flags)
                    /\ Compare(object, copy, {}) => Compare(object, copy, flags)
  BY DEF DiffIsCompare
<1>1. IsConnection(object) /\ IsConnection(copy)
  BY DEF TypeOK
<1>2. Compare(object, copy, flags) <=> Diff(object, copy, flags) = NoSettings
  <2>1. DOMAIN DiffOne(object, "A", copy, "B", flags) = {} <=> CompareOneWay(object, copy, flags)
    BY <1>1, DiffOneWay
  <2>2. DOMAIN DiffOne(copy, "B", object, "A", flags) = {} <=> CompareOneWay(copy, object, flags)
    BY <1>1, DiffOneWay
  <2>3. DOMAIN Diff(object, copy, flags) = {} <=> Compare(object, copy, flags)
    BY <2>1, <2>2, DiffDomain DEF Compare
  <2> QED
    BY <2>3, NothingIsEmpty
<1>3. Compare(object, copy, flags) <=> Compare(copy, object, flags)
  BY DEF Compare
<1>4. ASSUME NEW t PROVE Compared(t, flags) \subseteq Compared(t, {})
  BY DEF Compared, ShouldCompare
<1>5. Compare(object, copy, {}) => Compare(object, copy, flags)
  BY <1>4, CompareBothWays
<1> QED
  BY <1>2, <1>3, <1>5

-----------------------------------------------------------------------------
(* What is saved comes back. *)

LEMMA WrittenKeys ==
    ASSUME NEW d, NEW c, "connection" \in DOMAIN c
    PROVE  DOMAIN WriteConnection(d, c) =
               ((DOMAIN d \ UnsetKeys(c)) \ Leftovers(d, c)) \union SetKeys(c) \union NameKeys(c)
BY DEF WriteConnection

LEMMA WrittenValue ==
    ASSUME NEW d, NEW c, "connection" \in DOMAIN c, NEW k \in SetKeys(c)
    PROVE  WriteConnection(d, c)[k] = c[k[1]][k[2]]
BY DEF WriteConnection

(* The subdirectories that are left are those of the settings. *)
LEMMA WrittenSubdirs ==
    ASSUME NEW d, NEW c, IsConnection(c), "connection" \in DOMAIN c
    PROVE  Subdirs(WriteConnection(d, c)) = DOMAIN c
<1> DEFINE w == WriteConnection(d, c)
<1>1. ASSUME NEW k \in DOMAIN w PROVE k[1] \in DOMAIN c
  <2>1. k \in (DOMAIN d \ Leftovers(d, c)) \union SetKeys(c) \union NameKeys(c)
    BY WrittenKeys
  <2>2. CASE k \in DOMAIN d \ Leftovers(d, c)
    BY <2>2 DEF Leftovers
  <2>3. CASE k \in SetKeys(c)
    BY <2>3 DEF SetKeys, Written
  <2>4. CASE k \in NameKeys(c)
    BY <2>4 DEF NameKeys
  <2> QED
    BY <2>1, <2>2, <2>3, <2>4
<1>2. ASSUME NEW t \in DOMAIN c PROVE \E k \in DOMAIN w : k[1] = t
  <2>1. <<t, "name">> \in NameKeys(c)
    BY DEF NameKeys
  <2>2. <<t, "name">> \in DOMAIN w
    BY <2>1, WrittenKeys
  <2> QED
    BY <2>2
<1> QED
  BY <1>1, <1>2 DEF Subdirs

(* Each property reads as it was written. *)
LEMMA PropertyComesBack ==
    ASSUME NEW d, NEW c, IsConnection(c), "connection" \in DOMAIN c,
           NEW t \in DOMAIN c, NEW p \in Properties(t), p # "read-only"
    PROVE  ReadProperty(WriteConnection(d, c), t, p) = c[t][p]
<1> DEFINE w == WriteConnection(d, c)
           k == <<t, p>>
<1>1. t \in SettingType /\ p \in Property /\ c[t][p] \in ValuesOf(p) /\ p # "name"
  BY PropertyIs, PropertiesOf DEF IsConnection, IsSetting, SettingType
<1>2. k \in SettingType \X Property /\ Written(c, k) /\ k[1] = t /\ k[2] = p
  BY <1>1 DEF Written
<1>3. k \notin NameKeys(c)
  BY <1>1 DEF NameKeys
<1>4. CASE c[t][p] = Default(t, p)
  <2>1. k \in UnsetKeys(c) /\ k \notin SetKeys(c)
    BY <1>2, <1>4 DEF UnsetKeys, SetKeys
  <2>2. k \notin DOMAIN w
    BY <1>3, <2>1, WrittenKeys
  <2> QED
    BY <1>4, <2>2 DEF ReadProperty
<1>5. CASE c[t][p] # Default(t, p)
  <2>1. k \in SetKeys(c)
    BY <1>2, <1>5 DEF SetKeys
  <2>2. k \in DOMAIN w /\ w[k] = c[t][p]
    <3>1. k \in DOMAIN w
      BY <2>1, WrittenKeys
    <3>2. w[k] = c[k[1]][k[2]]
      BY <2>1, WrittenValue
    <3> QED
      BY <1>2, <3>1, <3>2
  <2>3. c[t][p] # Null
    <3>1. CASE p \in {"id", "uuid", "type", "bdaddr"}
      <4>1. Default(t, p) = Null
        BY <1>1, <3>1, PropertiesOf
           DEF Default, DefaultsOf, ConnectionDefaults, BluetoothDefaults, SerialDefaults,
               SettingType
      <4> QED
        BY <1>5, <4>1
    <3>2. CASE p \notin {"id", "uuid", "type", "bdaddr"}
      BY <1>1, <3>2 DEF ValuesOf
    <3> QED
      BY <3>1, <3>2
  <2>4. ReadValue(p, c[t][p]) = c[t][p]
    BY <1>1 DEF ReadValue, ValuesOf
  <2>5. IsRead(p, w[k])
    BY <1>1, <2>2, <2>3, <2>4 DEF IsRead
  <2> QED
    BY <2>2, <2>4, <2>5 DEF ReadProperty
<1> QED
  BY <1>4, <1>5

LEMMA ReadOnlyIsSingle ==
    ASSUME NEW t \in SettingType
    PROVE  "read-only" \in Properties(t) <=> t = "connection"
BY PropertiesOf DEF SettingType

(* Whatever a connection's directory held, what is saved there is read again; *)
(* read-only reads as FALSE.                                                *)
LEMMA SavingKeeps == TypeOK => SavedComesBack
<1> SUFFICES ASSUME TypeOK, "connection" \in DOMAIN object
             PROVE  ReadConnection(WriteConnection(dir, object)) = {WithoutReadOnly(object)}
  BY DEF SavedComesBack
<1> DEFINE w == WriteConnection(dir, object)
           c == WithoutReadOnly(object)
<1>1. IsConnection(object)
  BY DEF TypeOK
<1>2. Subdirs(w) = DOMAIN object /\ Known(Subdirs(w)) = DOMAIN object
  BY <1>1, WrittenSubdirs DEF Known, IsConnection
<1>3. Default("connection", "read-only") = "FALSE"
  BY DEF Default, DefaultsOf, ConnectionDefaults
<1>4. c = [t \in DOMAIN object |-> c[t]]
  BY <1>1 DEF WithoutReadOnly, SetProperty, IsConnection
<1>5. ASSUME NEW t \in DOMAIN object
      PROVE  [p \in Properties(t) |-> ReadProperty(w, t, p)] = c[t]
  <2>1. t \in SettingType /\ object[t] = [p \in Properties(t) |-> object[t][p]]
    BY <1>1 DEF IsConnection, IsSetting
  <2>2. CASE t = "connection"
    <3>1. c[t] = [object[t] EXCEPT !["read-only"] = "FALSE"]
      BY <1>1, <2>2 DEF WithoutReadOnly, SetProperty, IsConnection
    <3>2. c[t] = [p \in Properties(t) |-> IF p = "read-only" THEN "FALSE" ELSE object[t][p]]
      BY <2>1, <3>1
    <3>3. ReadProperty(w, t, "read-only") = "FALSE"
      BY <1>3, <2>2 DEF ReadProperty
    <3>4. \A p \in Properties(t) : p # "read-only" => ReadProperty(w, t, p) = object[t][p]
      BY <1>1, PropertyComesBack
    <3> QED
      BY <3>2, <3>3, <3>4
  <2>3. CASE t # "connection"
    <3>1. c[t] = object[t]
      BY <1>1, <2>3 DEF WithoutReadOnly, SetProperty, IsConnection
    <3>2. \A p \in Properties(t) : ReadProperty(w, t, p) = object[t][p]
      BY <1>1, <2>1, <2>3, PropertyComesBack, ReadOnlyIsSingle
    <3> QED
      BY <2>1, <3>1, <3>2
  <2> QED
    BY <2>2, <2>3
<1>6. [t \in Known(Subdirs(w)) |-> [p \in Properties(t) |-> ReadProperty(w, t, p)]] = c
  BY <1>2, <1>4, <1>5
<1>7. Subdirs(w) # {}
  BY <1>2
<1> QED
  BY <1>6, <1>7 DEF ReadConnection

-----------------------------------------------------------------------------
(* The specification *)

LEMMA TypeInit == StoreInit => TypeOK
<1> SUFFICES ASSUME StoreInit PROVE TypeOK
  OBVIOUS
<1>1. IsConnection(Fresh)
  <2> DEFINE Set == [id |-> "one", uuid |-> "1-1", type |-> "serial"]
             S(t) == [p \in Properties(t) |-> IF p \in DOMAIN Set THEN Set[p] ELSE Default(t, p)]
  <2>1. Fresh = [t \in {"connection", "serial"} |-> S(t)]
    BY DEF Fresh
  <2>2. ASSUME NEW t \in {"connection", "serial"} PROVE IsSetting(t, S(t))
    <3>1. t \in SettingType
      BY DEF SettingType
    <3>2. ASSUME NEW p \in Properties(t) PROVE S(t)[p] \in ValuesOf(p)
      <4>1. CASE p \in {"id", "uuid", "type"}
        BY <4>1, ValueAssumption, ConnectionStoreAssumption DEF ValuesOf, SettingType
      <4>2. CASE p \notin {"id", "uuid", "type"}
        BY <3>1, <4>2, DefaultsFit
      <4> QED
        BY <4>1, <4>2
    <3> QED
      BY <3>1, <3>2, ValuesAreValues, PropertyIs DEF IsSetting
  <2> HIDE DEF S
  <2> QED
    BY <2>1, <2>2 DEF IsConnection, SettingType
<1>2. IsDir(dir)
  BY DEF StoreInit, IsDir
<1> QED
  BY <1>1, <1>2, ConnectionStoreAssumption DEF StoreInit, TypeOK

LEMMA EditedIs ==
    ASSUME NEW c, IsConnection(c), NEW t \in DOMAIN c, NEW p \in Properties(t),
           NEW v \in ValuesOf(p)
    PROVE  IsConnection(SetProperty(c, t, p, v))
<1>1. t \in SettingType /\ IsSetting(t, c[t])
  BY DEF IsConnection
<1>2. IsSetting(t, [c[t] EXCEPT ![p] = v])
  BY <1>1, ValuesAreValues, PropertyIs DEF IsSetting
<1> QED
  BY <1>1, <1>2 DEF SetProperty, IsConnection

LEMMA DuplicateIs == ASSUME NEW c, IsConnection(c) PROVE Duplicate(c) = c
<1>1. ASSUME NEW t \in DOMAIN c PROVE DuplicateSetting(t, c[t]) = c[t]
  BY DEF IsConnection, IsSetting, DuplicateSetting
<1> QED
  BY <1>1 DEF Duplicate, IsConnection

LEMMA WrittenIs ==
    ASSUME NEW d, NEW c, IsDir(d), IsConnection(c)
    PROVE  IsDir(WriteConnection(d, c))
<1> DEFINE w == WriteConnection(d, c)
<1>1. CASE "connection" \notin DOMAIN c
  BY <1>1 DEF WriteConnection
<1>2. CASE "connection" \in DOMAIN c
  <2>1. ASSUME NEW k \in SetKeys(c) PROVE c[k[1]][k[2]] \in Value
    BY <2>1 DEF SetKeys, Written, IsConnection, IsSetting
  <2>2. ASSUME NEW k \in NameKeys(c) PROVE k[1] \in Value
    BY ValueAssumption DEF NameKeys, IsConnection
  <2>3. ASSUME NEW k \in DOMAIN d PROVE d[k] \in Value \union {Unusable}
    BY DEF IsDir
  <2>4. w = [k \in DOMAIN w |-> IF k \in SetKeys(c) THEN c[k[1]][k[2]]
                                ELSE IF k \in NameKeys(c) THEN k[1] ELSE d[k]]
    BY <1>2 DEF WriteConnection
  <2>5. ASSUME NEW k \in DOMAIN w PROVE k \in DOMAIN d \/ k \in SetKeys(c) \/ k \in NameKeys(c)
    BY <1>2, WrittenKeys
  <2>6. ASSUME NEW k \in DOMAIN w PROVE w[k] \in Value \union {Unusable}
    <3>1. w[k] = IF k \in SetKeys(c) THEN c[k[1]][k[2]]
                 ELSE IF k \in NameKeys(c) THEN k[1] ELSE d[k]
      BY <2>4
    <3> HIDE DEF w
    <3> QED
      BY <2>1, <2>2, <2>3, <2>5, <3>1
  <2> HIDE DEF w
  <2>7. IsDir(w)
    BY <2>4, <2>6 DEF IsDir
  <2> QED
    BY <2>7 DEF w
<1> QED
  BY <1>1, <1>2

LEMMA TypeStep == TypeOK /\ [StoreNext]_storeVars => TypeOK'
<1> SUFFICES ASSUME TypeOK, [StoreNext]_storeVars PROVE TypeOK'
  OBVIOUS
<1> USE ConnectionStoreAssumption DEF TypeOK
<1>1. Edit => edits' \in 0 .. MaxEdits
  BY DEF Edit
<1>2. ASSUME NEW e \in Edits, EditProperty(e[1], e[2], e[3]) PROVE TypeOK'
  <2>1. IsConnection(copy')
    BY <1>2, EditedIs DEF EditProperty
  <2> QED
    BY <1>1, <1>2, <2>1 DEF EditProperty
<1>3. ASSUME NEW t \in SettingType, EditAdd(t) PROVE TypeOK'
  <2>1. IsSetting(t, NewSetting(t))
    BY NewSettingIs
  <2>2. IsConnection(copy')
    BY <1>3, <2>1 DEF EditAdd, AddSetting, IsConnection
  <2> QED
    BY <1>1, <1>3, <2>2 DEF EditAdd
<1>4. ASSUME NEW t \in SettingType, EditRemove(t) PROVE TypeOK'
  <2>1. IsConnection(copy')
    BY <1>4 DEF EditRemove, RemoveSetting, IsConnection
  <2> QED
    BY <1>1, <1>4, <2>1 DEF EditRemove
<1>5. CASE Fetch
  BY <1>5, ParsedIs DEF Fetch, ReplaceSettings
<1>6. CASE Open
  BY <1>6, DuplicateIs DEF Open
<1>7. CASE Send
  BY <1>7, ParsedIs DEF Send, NewFromHash
<1>8. CASE Save
  BY <1>8, WrittenIs DEF Save
<1>9. CASE Load
  BY <1>9, ReadIs DEF Load
<1>10. ASSUME NEW e \in Edits, NEW v \in {e[3], Empty, Unusable} \ {Null},
              OtherSets(e[1], e[2], v)
       PROVE  TypeOK'
  <2>1. v \in Value \union {Unusable}
    BY ValueAssumption
  <2>2. IsDir(dir')
    BY <1>10, <2>1 DEF OtherSets, IsDir
  <2> QED
    BY <1>1, <1>10, <2>2 DEF OtherSets
<1>11. ASSUME NEW k \in DOMAIN dir, OtherUnsets(k) PROVE TypeOK'
  <2>1. IsDir(dir')
    BY <1>11 DEF OtherUnsets, Keep, IsDir
  <2> QED
    BY <1>1, <1>11, <2>1 DEF OtherUnsets
<1>12. CASE UNCHANGED storeVars
  BY <1>12 DEF storeVars
<1> QED
  BY <1>2, <1>3, <1>4, <1>5, <1>6, <1>7, <1>8, <1>9, <1>10, <1>11, <1>12
     DEF StoreNext, Editing, Other

(* Every variable keeps its type: whatever is parsed, read or edited is made  *)
(* of settings with values their properties can hold.                       *)
THEOREM TypeCorrect == StoreSpec => []TypeOK
BY TypeInit, TypeStep, PTL DEF StoreSpec

(* What bm_connection_diff finds is what bm_connection_compare sees.        *)
THEOREM DiffCorrect == StoreSpec => []DiffIsCompare
BY DiffAgrees, TypeCorrect, PTL

(* A connection that is saved comes back from GConf, whatever was there.     *)
THEOREM SavingCorrect == StoreSpec => []SavedComesBack
BY SavingKeeps, TypeCorrect, PTL

(* A valid connection that is sent over D-Bus arrives as it was.            *)
THEOREM SendingCorrect == StoreSpec => []SentArrives
BY Arrival, TypeCorrect, PTL

-----------------------------------------------------------------------------
(* bmcli, the program that waits for connections-read: module CommandLine, for *)
(* any set of connections and any number of changes.  Two facts carry the      *)
(* proof that `bmcli con list' is complete: bmcli is in its main loop only     *)
(* with should_wait set, so what ended without it went through End; and a      *)
(* service once read stays read, so a later connections-read always runs the   *)
(* command again.                                                              *)

CliTypes ==
    /\ lists \in [Scope -> SUBSET Connection]
    /\ shown \in [Scope -> SUBSET Connection]
    /\ {owners, runs} \subseteq SUBSET Scope
    /\ wait \in BOOLEAN

LoopWaits == phase = "loop" => wait

CliInv == CliTypes /\ LoopWaits /\ ListedAll

LEMMA CliInit == Init => CliInv
<1> SUFFICES ASSUME Init PROVE CliInv OBVIOUS
<1>1. CliTypes BY DEF Init, CliTypes, NoLists
<1>2. phase = "start" BY DEF Init
<1> QED BY <1>1, <1>2 DEF CliInv, LoopWaits, ListedAll

(* Steps outside bmcli change only what its connections are. *)
LEMMA CliServices == ASSUME CliInv, Services PROVE CliInv'
<1> USE DEF CliInv
<1>1. UNCHANGED <<command, phase, wait, result, runs, called, lists, printed>>
  BY DEF Services, DaemonChanges, ServiceExits, ServiceStarts, ConnectionRemoved
<1>2. shown' \in [Scope -> SUBSET Connection] /\ owners' \subseteq Scope
  BY DEF Services, DaemonChanges, ServiceExits, ServiceStarts, ConnectionRemoved, CliTypes
<1> QED
  BY <1>1, <1>2 DEF CliTypes, LoopWaits, ListedAll, Every

LEMMA CliStart == ASSUME CliInv, Start PROVE CliInv'
<1> USE DEF CliInv
<1>1. UNCHANGED <<command, lists, shown, owners>> BY DEF Start, outside
<1>2. CASE DoConnections
  <2>1. phase' = "loop" /\ wait' = TRUE BY <1>2 DEF DoConnections
  <2> QED BY <1>1, <1>2, <2>1 DEF DoConnections, CliTypes, LoopWaits, ListedAll, Every
<1>3. CASE DoDevices \/ DoBarcodeManager \/ ParseOnly
  <2>1. command.object # "con"
    BY <1>3 DEF DoDevices, DoBarcodeManager, ParseOnly
  <2>2. phase' = "quitting" /\ wait' = FALSE /\ runs' = runs
    BY <1>3 DEF DoDevices, DoDevicesStatus, DoDevicesList, DoBarcodeManager, ParseOnly, AskDaemon,
                ShowStatus, SetEnabled, SetSleep, End
  <2> QED BY <1>1, <2>1, <2>2 DEF CliTypes, LoopWaits, ListedAll
<1> QED BY <1>2, <1>3 DEF Start

(* End leaves the loop without should_wait; what is listed has just been    *)
(* printed.                                                                 *)
LEMMA CliCommand ==
    ASSUME CliInv, runs \subseteq called', UNCHANGED <<command, runs>>,
           DoCommand(lists'), phase \in {"loop", "quitting"}
    PROVE  (wait' \in BOOLEAN /\ LoopWaits') /\ ListedAll'
<1> USE DEF CliInv
<1>1. CASE command.verb = "list" /\ DoList(lists')
  <2>1. CASE ~command.right \/ (command.id # NoConnection /\ ~Found(lists', command.id))
    BY <1>1, <2>1 DEF DoList, Fail, End, LoopWaits, ListedAll
  <2>2. CASE command.right /\ command.id = NoConnection
    BY <1>1, <2>2 DEF DoList, End, LoopWaits, ListedAll
  <2>3. CASE command.right /\ command.id # NoConnection /\ Found(lists', command.id)
    BY <1>1, <2>3 DEF DoList, End, LoopWaits, ListedAll
  <2> QED BY <2>1, <2>2, <2>3
<1>2. CASE command.verb = "status" /\ DoStatus
  BY <1>2 DEF DoStatus, AskDaemon, End, LoopWaits, ListedAll
<1>3. CASE command.verb = "up" /\ DoUp(lists')
  BY <1>3 DEF DoUp, Fail, End, LoopWaits, ListedAll, CliTypes
<1> QED BY <1>1, <1>2, <1>3 DEF DoCommand

LEMMA CliRead == ASSUME CliInv, NEW s \in Scope, ConnectionsRead(s) PROVE CliInv'
<1> USE DEF CliInv
<1>1. /\ phase \in {"loop", "quitting"}
      /\ UNCHANGED <<command, owners, runs>>
      /\ shown' \in [Scope -> SUBSET Connection]
  BY DEF ConnectionsRead, outside, CliTypes
<1>2. CASE s \notin runs
  <2>1. UNCHANGED <<phase, wait, result, called, lists, printed>> BY <1>2 DEF ConnectionsRead
  <2> QED BY <1>1, <2>1 DEF CliTypes, LoopWaits, ListedAll, Every
<1>3. CASE s \in runs
  <2>1. GetConnections(s) BY <1>3 DEF ConnectionsRead
  <2>2. lists' = [lists EXCEPT ![s] = shown'[s]] /\ called' = called \union {s}
    BY <2>1 DEF GetConnections
  <2>3. lists' \in [Scope -> SUBSET Connection] BY <1>1, <2>2 DEF CliTypes
  <2>4. CASE ~ReadAll(called')
    <3>1. UNCHANGED <<phase, wait, result, printed>> BY <2>1, <2>4 DEF GetConnections
    <3>2. ~(runs' \subseteq called) BY <1>1, <2>2, <2>4 DEF ReadAll
    <3>3. ListedAll' BY <1>1, <2>2, <3>1, <3>2 DEF ListedAll
    <3> QED BY <1>1, <2>3, <3>1, <3>3 DEF CliTypes, LoopWaits
  <2>5. CASE ReadAll(called') /\ DoCommand(lists')
    <3>1. runs \subseteq called' BY <2>5 DEF ReadAll
    <3>2. (wait' \in BOOLEAN /\ LoopWaits') /\ ListedAll'
      BY <1>1, <2>5, <3>1, CliCommand
    <3> QED BY <1>1, <2>3, <3>2 DEF CliTypes
  <2>6. CASE ReadAll(called') /\ phase' = "crashed" /\ wait' = wait
    BY <1>1, <2>3, <2>6 DEF CliTypes, LoopWaits, ListedAll
  <2> QED BY <2>1, <2>2, <2>4, <2>5, <2>6 DEF GetConnections
<1> QED BY <1>2, <1>3

LEMMA CliEnd == ASSUME CliInv, Interrupt \/ MainEnds PROVE CliInv'
<1>1. UNCHANGED <<command, owners, shown, wait, result, runs, called, lists, printed>>
  BY DEF Interrupt, MainEnds, outside
<1>2. CASE Interrupt
  <2>1. phase = "loop" /\ phase' = "quitting" BY <1>2 DEF Interrupt
  <2> QED BY <1>1, <2>1 DEF CliInv, CliTypes, LoopWaits, ListedAll, Every
<1>3. CASE MainEnds
  <2>1. phase = "quitting" /\ phase' = "ended" BY <1>3 DEF MainEnds
  <2> QED BY <1>1, <2>1 DEF CliInv, CliTypes, LoopWaits, ListedAll, Every
<1> QED BY <1>2, <1>3

LEMMA CliStutter == ASSUME CliInv, UNCHANGED vars PROVE CliInv'
BY DEF CliInv, CliTypes, LoopWaits, ListedAll, Every, vars, outside

LEMMA CliNext == ASSUME CliInv, [Next]_(vars) PROVE CliInv'
BY CliServices, CliStart, CliRead, CliEnd, CliStutter DEF Next

(* A list of connections that succeeded has everything that the services    *)
(* that were running were read to have (get_connections_cb).                *)
THEOREM ListComplete == Spec => []ListedAll
<1>1. CliInv => ListedAll BY DEF CliInv
<1> QED BY CliInit, CliNext, <1>1, PTL DEF Spec
=============================================================================
