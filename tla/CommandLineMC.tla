--------------------------- MODULE CommandLineMC ---------------------------
(* CommandLine: every command, with two connections that may exist.  Output: *)
(* whatever is to be there, beside the shortest of the commands.  And by    *)
(* itself, when that command has ended and nothing else is left to happen,  *)
(* a connection between applet, D-Bus and GConf (ConnectionStore).          *)
EXTENDS CommandLine, Output, ConnectionStoreMC

VARIABLE print  \* what is to be there, if anything

(* A table of three fields, two of them common *)
Fields ==
    <<[name |-> <<"N">>, width |-> 3], [name |-> <<"I", "D">>, width |-> 4],
      [name |-> <<"T">>, width |-> 1]>>
AllFields == <<<<"N">>, <<"I", "D">>, <<"T">>>>
CommonFields == <<<<"N">>, <<"I", "D">>>>
Required ==
    {{}, {<<All>>}, {<<Common>>}, {<<<<"T">>, <<"N">>>>}, {<<<<"I", "D">>>>},
     {<<<<"N">>, <<"X">>>>}, {<<<<"N">>, All>>}}

(* Texts of at most two characters: one that separates, one that escapes, a  *)
(* wide one and one of no width                                              *)
Char == {"a", Separator, Escape} \union Wide \union ZeroWidth
Text == {<<>>} \union {<<c>> : c \in Char} \union {<<c, d>> : c, d \in Char}

Prints ==
    [how: [mode: {"normal", "terse", "pretty"}, multiline: BOOLEAN, escape: BOOLEAN],
     required: Required,
     name: {{}} \union {{t} : t \in Text},
     id: {{}, {<<>>}, {<<Escape>>}, {<<Separator, Escape>>}}]

NotSetMC == <<"n">>

Shortest == command.object = "none" /\ command.right /\ daemon /\ owners = {}

allVars == <<print, vars, storeVars>>

MCInit ==
    /\ Init /\ StoreInit
    /\ print \in {{}} \union {{p} : p \in Prints} /\ (print = {} \/ Shortest)

CommandDoes(A) == edits = 0 /\ A /\ UNCHANGED <<print, storeVars>>
StoreDoes(A) ==
    /\ Shortest /\ phase = "ended" /\ print = {} /\ changes = 0
    /\ A /\ UNCHANGED <<print, vars>>

(* Nothing changes outside while something is there. *)
MCNext ==
    \/ CommandDoes(Next) /\ (print = {} \/ UNCHANGED changes)
    \/ StoreDoes(StoreNext)

(* The fairness of CommandLine; nothing in ConnectionStore needs any. *)
MCSpec ==
    /\ MCInit /\ [][MCNext]_allVars
    /\ WF_allVars(CommandDoes(Start))
    /\ \A s \in Scope : WF_allVars(CommandDoes(ConnectionsRead(s)))
    /\ WF_allVars(CommandDoes(MainEnds))

-----------------------------------------------------------------------------
(* Properties of Output *)

ReadsBack(p, objects) ==
    LET table == PrintTable(p.how, p.required, AllFields, CommonFields, Fields, objects)
        names == CASE p.required = {} \/ p.required = {<<Common>>} -> CommonFields
                   [] p.required = {<<All>>} -> AllFields
                   [] OTHER -> CHOOSE r \in p.required : TRUE
        place(name) == CHOOSE i \in DOMAIN Fields : Fields[i].name = name
        values == [o \in DOMAIN objects |-> [n \in DOMAIN names |->
                      LET v == objects[o][place(names[n])]
                      IN  IF v = {} THEN NotSet ELSE CHOOSE t \in v : TRUE]]
        pairs == [o \in DOMAIN objects |-> [n \in DOMAIN names |-> <<names[n], values[o][n]>>]]
        fits == \A o \in DOMAIN objects : \A n \in DOMAIN names :
                   ScreenWidth(values[o][n]) <= Fields[place(names[n])].width
        lines == table.lines
    IN  /\ table.ok <=> /\ \A n \in DOMAIN names : names[n] \in ToSet(AllFields)
                        /\ p.how.mode = "terse" => p.required \notin {{}, {<<All>>}, {<<Common>>}}
        /\ table.ok /\ p.how.mode = "terse" =>
              IF p.how.multiline
              THEN [l \in DOMAIN lines |-> ReadField(lines[l])] = FlattenSeq(pairs)
              ELSE p.how.escape => [l \in DOMAIN lines |-> ReadLine(lines[l])] = values
        /\ table.ok /\ p.how.mode # "terse" /\ ~p.how.multiline /\ fits =>
              \A l \in DOMAIN lines : ScreenWidth(lines[l]) = ScreenWidth(lines[1])

(* Names as texts of one character *)
SectionsReadBack(p, sections, details, some) ==
    LET text(v) == IF v = {} THEN NotSet ELSE CHOOSE t \in v : TRUE
        values(s) == [i \in DOMAIN details[s] |-> IF i = 1 THEN {<<s>>} ELSE some[1 + (i % 2)]]
        named(names) == [i \in DOMAIN names |-> <<names[i]>>]
        fields(names) == [i \in DOMAIN names |-> [name |-> <<names[i]>>, width |-> 1]]
        there == SelectSeq(sections, LAMBDA s : s \in DOMAIN details)
        out == PrintSections(p.how, {}, named(sections), fields(sections),
                             [t \in {<<s>> : s \in DOMAIN details} |-> fields(details[t[1]])],
                             [t \in {<<s>> : s \in DOMAIN details} |-> values(t[1])])
        asked(s) == [i \in 2 .. Len(details[s]) |-> <<<<s, ".", details[s][i]>>, text(values(s)[i])>>]
        read == [l \in DOMAIN out.lines |->
                    IF p.how.multiline THEN ReadField(out.lines[l]) ELSE ReadLine(out.lines[l])]
    IN  CASE p.how.mode # "terse" -> TRUE
          [] p.how.multiline ->
               read = FlattenSeq([i \in DOMAIN there |->
                          [j \in 1 .. Len(details[there[i]]) - 1 |-> asked(there[i])[j + 1]]])
          [] p.how.escape ->
               read = [i \in DOMAIN there |->
                          [j \in DOMAIN details[there[i]] |-> text(values(there[i])[j])]]
          [] OTHER -> TRUE

(* Each list of fields that bmcli itself has names fields of its table, once, *)
(* and the one for "all" names them all.                                     *)
ListsOfFields ==
    \A t \in {ConStatus, ConList, DevStatus} :
        LET parsed(names) == ParseOutputFields(names, t.fields)
            once(names) == parsed(names).ok /\ IsInjective(parsed(names).indices)
        IN  once(t.all) /\ once(t.common) /\ Len(t.all) = Len(t.fields)

(* "Output is terse.  This mode is designed and suitable for computer         *)
(* (script) processing" (bmcli.1): from each line a script gets back the      *)
(* values of the fields asked for, in that order, whatever characters but    *)
(* line breaks are in them: in several lines always, in a table with         *)
(* --escape yes, the default.  And for people the columns stay below their   *)
(* names, while the values fit, whatever width the characters have.          *)
LinesReadBack ==
    \A p \in print :
        /\ ReadsBack(p, <<<<p.name, p.id, {<<"a">>}>>, <<p.id, p.name, {}>>>>)
        /\ p.required = {} =>
              /\ SectionsReadBack(p, SettingsNames, ConnectionDetails, <<p.name, p.id>>)
              /\ SectionsReadBack(p, DevListSections, DeviceDetails, <<p.name, p.id>>)
        /\ p.name = {} => ListsOfFields
=============================================================================
