-------------------------------- MODULE Output --------------------------------
(***************************************************************************)
(* What bmcli prints (utils.c, and the tables and sections of              *)
(* connections.c and devices.c): the fields that were asked for, for people *)
(* in columns and for scripts in lines they can take apart.                *)
(*                                                                         *)
(* A text is a sequence of characters; a string of C that may be NULL is a *)
(* set of at most one text.  A field has a name, the width of its column   *)
(* and a value.  Upper and lower case are alike, as for strcasecmp().      *)
(* A line is a text too; a rule across the table is left out, and so are   *)
(* the headers of --pretty.                                                *)
(***************************************************************************)
EXTENDS Integers, Sequences, SequencesExt

CONSTANTS
    Wide,      \* characters that take two columns of the screen, in three bytes,
    ZeroWidth, \* and those that take none, in two
    NotSet     \* the text "not set"

Separator == ":"
Escape == "\\"
Blank == " "
Dash == "-"
All == <<"all">>
Common == <<"common">>

Blanks(n) == [i \in 1 .. n |-> Blank]

(* strlen() *)
Bytes(text) ==
    FoldLeft(LAMBDA n, c : n + (IF c \in Wide THEN 3 ELSE IF c \in ZeroWidth THEN 2 ELSE 1), 0, text)

(* bmc_string_screen_width *)
ScreenWidth(text) ==
    FoldLeft(LAMBDA n, c : n + (IF c \in Wide THEN 2 ELSE IF c \in ZeroWidth THEN 0 ELSE 1), 0, text)

(* printf ("%-*s"): at least n bytes *)
PadBytes(text, n) == text \o Blanks(n - Bytes(text))

-----------------------------------------------------------------------------
(* Options *)

(* The list of fields for an option --fields, which may be missing *)
FieldsAsked(required, all, common) ==
    IF required \subseteq {<<Common>>} THEN common
    ELSE IF required = {<<All>>} THEN all
    ELSE CHOOSE names \in required : TRUE

TerseOptionCheck(mode, required) ==
    mode = "terse" => required # {} /\ required \intersect {<<All>>, <<Common>>} = {}

(* parse_output_fields: the indices of the fields named, or the first wrong name *)
ParseOutputFields(names, fields) ==
    LET index(name) == SelectInSeq(fields, LAMBDA f : f.name = name)
        wrong == SelectInSeq(names, LAMBDA name : index(name) = 0)
    IN  IF wrong = 0
        THEN [ok |-> TRUE, indices |-> [i \in DOMAIN names |-> index(names[i])]]
        ELSE [ok |-> FALSE, wrong |-> names[wrong]]

-----------------------------------------------------------------------------
(* The tables: the names of the fields in the order in which values are      *)
(* given, and the lists of --fields all and --fields common                  *)

Named(names) == [i \in DOMAIN names |-> [name |-> names[i]]]

ConStatus ==
    [fields |-> Named(<<"NAME", "UUID", "DEVICES", "SCOPE", "DEFAULT", "DBUS-SERVICE",
                        "SPEC-OBJECT", "VPN", "DBUS-PATH">>),
     all    |-> <<"NAME", "UUID", "DEVICES", "SCOPE", "DEFAULT", "VPN", "DBUS-SERVICE",
                  "DBUS-PATH", "SPEC-OBJECT">>,
     common |-> <<"NAME", "UUID", "DEVICES", "SCOPE", "DEFAULT", "VPN">>]

ConListAll ==
    <<"NAME", "UUID", "TYPE", "SCOPE", "TIMESTAMP", "TIMESTAMP-REAL", "AUTOCONNECT",
      "READONLY", "DBUS-PATH">>

ConList ==
    [fields |-> Named(ConListAll), all |-> ConListAll,
     common |-> <<"NAME", "UUID", "TYPE", "SCOPE", "TIMESTAMP-REAL">>]

DevStatus ==
    [fields |-> Named(<<"DEVICE", "TYPE", "STATE", "DBUS-PATH">>),
     all    |-> <<"DEVICE", "TYPE", "STATE", "DBUS-PATH">>,
     common |-> <<"DEVICE", "TYPE", "STATE">>]

(* The sections of dev list, and of those that are printed the fields *)
DevListSections ==
    <<"GENERAL", "CAPABILITIES", "WIFI-PROPERTIES", "AP", "WIRED-PROPERTIES", "IP4-SETTINGS",
      "IP4-DNS", "IP6-SETTINGS", "IP6-DNS">>
DevListGeneral == <<"NAME", "DEVICE", "TYPE", "DRIVER", "HWADDR", "STATE">>
DevListCap == <<"NAME", "CARRIER-DETECT", "SPEED">>
DeviceDetails == [GENERAL |-> DevListGeneral, CAPABILITIES |-> DevListCap]

(* The sections of con list id, which are settings, and their fields *)
SettingsNames == <<"connection", "serial", "bluetooth">>
SettingConnection ==
    <<"name", "id", "uuid", "type", "autoconnect", "timestamp", "read-only">>
SettingSerial == <<"name", "baud", "bits", "parity", "stopbits", "send-delay">>
SettingBluetooth == <<"name", "bdaddr", "type">>
ConnectionDetails ==
    [connection |-> SettingConnection, serial |-> SettingSerial, bluetooth |-> SettingBluetooth]

-----------------------------------------------------------------------------
(* print_fields *)

ValueOf(field) == IF field.value = {} THEN NotSet ELSE CHOOSE v \in field.value : TRUE

(* Mutant of Escaped: the character that escapes is not escaped itself. *)
EscapedSeparators(text) ==
    FlattenSeq([i \in DOMAIN text |->
        IF text[i] = Separator THEN <<Escape, text[i]>> ELSE <<text[i]>>])

Escaped(text) ==
    FlattenSeq([i \in DOMAIN text |->
        IF text[i] \in {Separator, Escape} THEN <<Escape, text[i]>> ELSE <<text[i]>>])

(* One column of a line: the width is counted before "--" stands for nothing. *)
Cell(how, text, width) ==
    IF how.mode = "terse"
    THEN (IF how.escape THEN Escaped(text) ELSE text) \o <<Separator>>
    ELSE LET shown == IF text = <<>> THEN <<Dash, Dash>> ELSE text
         IN  PadBytes(shown, width + Bytes(text) - ScreenWidth(text)) \o <<Blank>>

(* Each line is one object. *)
TabularLine(how, texts, widths) == Front(FlattenSeq([i \in DOMAIN texts |-> Cell(how, texts[i], widths[i])]))

(* Each line is one field. *)
MultilineLine(how, prefix, name, text) ==
    LET label == (IF prefix = {} THEN <<>> ELSE Append(CHOOSE p \in prefix : TRUE, ".")) \o name
    IN  PadBytes(Append(label, Separator), IF how.mode = "terse" THEN 0 ELSE 32) \o text

(* The names of the fields, as the first line of a table *)
PrintNames(how, indices, fields) ==
    IF how.mode = "terse" \/ how.multiline \/ indices = <<>> THEN <<>>
    ELSE LET of == [i \in DOMAIN indices |-> fields[indices[i]]]
         IN  <<TabularLine(how, [i \in DOMAIN of |-> of[i].name], [i \in DOMAIN of |-> of[i].width])>>

(* The values.  In several lines the first field is the prefix of a section. *)
PrintValues(how, indices, fields, section) ==
    LET rest == SelectSeq(indices, LAMBDA i : ~(section /\ i = 1))
        prefix == IF section THEN fields[1].value ELSE {}
        of == [i \in DOMAIN indices |-> fields[indices[i]]]
    IN  IF how.multiline
        THEN [i \in DOMAIN rest |->
                MultilineLine(how, prefix, fields[rest[i]].name, ValueOf(fields[rest[i]]))]
        ELSE IF indices = <<>> THEN <<>>
        ELSE <<TabularLine(how, [i \in DOMAIN of |-> ValueOf(of[i])], [i \in DOMAIN of |-> of[i].width])>>

-----------------------------------------------------------------------------
(* The commands *)

WithValues(fields, values) ==
    [i \in DOMAIN fields |-> [name |-> fields[i].name, width |-> fields[i].width, value |-> values[i]]]

(* do_connections_list: a table of objects, each with the values of all      *)
(* fields.  The tables of status do not check --terse.                       *)
PrintTable(how, required, all, common, fields, objects) ==
    LET parsed == ParseOutputFields(FieldsAsked(required, all, common), fields)
    IN  IF ~TerseOptionCheck(how.mode, required) \/ ~parsed.ok
        THEN [ok |-> FALSE]
        ELSE [ok    |-> TRUE,
              lines |-> PrintNames(how, parsed.indices, fields) \o
                        FlattenSeq([o \in DOMAIN objects |->
                           PrintValues(how, parsed.indices, WithValues(fields, objects[o]), FALSE)])]

(* setting_connection_details and the like, with all the fields they have:   *)
(* the first of the values is the name of the section.                       *)
PrintSection(how, fields, values) ==
    LET indices == [i \in DOMAIN fields |-> i]
    IN  PrintNames(how, indices, fields) \o
        PrintValues(how, indices, WithValues(fields, values), TRUE)

(* show_device_info, bmc_connection_detail: of one object the sections that  *)
(* were asked for, each with all its fields; a section that is not there is  *)
(* left out.                                                                 *)
PrintSections(how, required, all, sections, fieldsOf, valuesOf) ==
    LET parsed == ParseOutputFields(FieldsAsked(required, all, all), sections)
        one(section) ==
            IF section \in DOMAIN valuesOf
            THEN PrintSection(how, fieldsOf[section], valuesOf[section])
            ELSE <<>>
    IN  IF ~parsed.ok THEN [ok |-> FALSE]
        ELSE [ok    |-> TRUE,
              lines |-> FlattenSeq([i \in DOMAIN parsed.indices |->
                                       one(sections[parsed.indices[i]].name)])]

-----------------------------------------------------------------------------
(* How a script reads *)

(* The values in a line of the terse, escaped table *)
ReadLine(line) ==
    LET step(r, c) ==
            IF r.escaped
            THEN [done |-> r.done, cell |-> Append(r.cell, c), escaped |-> FALSE]
            ELSE IF c = Escape THEN [r EXCEPT !.escaped = TRUE]
            ELSE IF c = Separator
            THEN [done |-> Append(r.done, r.cell), cell |-> <<>>, escaped |-> FALSE]
            ELSE [r EXCEPT !.cell = Append(@, c)]
        end == FoldLeft(step, [done |-> <<>>, cell |-> <<>>, escaped |-> FALSE], line)
    IN  Append(end.done, end.cell)

(* The name and the value in a line of the terse output in several lines *)
ReadField(line) ==
    LET n == SelectInSeq(line, LAMBDA c : c = Separator)
    IN  <<SubSeq(line, 1, n - 1), SubSeq(line, n + 1, Len(line))>>
=============================================================================
