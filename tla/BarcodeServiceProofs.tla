------------------------ MODULE BarcodeServiceProofs ------------------------
(***************************************************************************)
(* Proofs about BarcodeService, for any nodes, descriptors, report sizes   *)
(* and bounds: type correctness, the order of what is printed, that no     *)
(* code scanned with an open scanner is lost while service and reader run, *)
(* and that the service has every scanner open but those whose descriptor  *)
(* is read again in a round, which where no descriptor is above the size   *)
(* of a report are none.                                                   *)
(***************************************************************************)
EXTENDS BarcodeService, SequenceTheorems, WellFoundedInduction, TLAPS

-----------------------------------------------------------------------------
(* Sequences, and the lowest free descriptor *)

LEMMA SeqOfMore ==
    ASSUME NEW S, NEW T, S \subseteq T, NEW s \in Seq(S)
    PROVE  s \in Seq(T)
  OBVIOUS

LEMMA ToSetOf ==
    ASSUME NEW S, NEW s \in Seq(S), NEW x
    PROVE  x \in ToSet(s) <=> \E k \in 1 .. Len(s) : s[k] = x
  BY DEF ToSet

LEMMA AppendFacts ==
    ASSUME NEW S, NEW s \in Seq(S), NEW x \in S
    PROVE  /\ Append(s, x) \in Seq(S)
           /\ Len(Append(s, x)) = Len(s) + 1
           /\ Append(s, x)[Len(s) + 1] = x
           /\ \A k \in 1 .. Len(s) : Append(s, x)[k] = s[k]
           /\ DOMAIN Append(s, x) = 1 .. Len(s) + 1
           /\ DOMAIN s = 1 .. Len(s)
           /\ ToSet(Append(s, x)) = ToSet(s) \union {x}
<1>1. /\ Append(s, x) \in Seq(S)
      /\ Len(Append(s, x)) = Len(s) + 1
      /\ Append(s, x)[Len(s) + 1] = x
      /\ \A k \in 1 .. Len(s) : Append(s, x)[k] = s[k]
  OBVIOUS
<1>2. Len(s) \in Nat /\ DOMAIN Append(s, x) = 1 .. Len(s) + 1 /\ DOMAIN s = 1 .. Len(s)
  BY <1>1
<1>3. ASSUME NEW y PROVE y \in ToSet(Append(s, x)) <=> y \in ToSet(s) \union {x}
  <2>1. y \in ToSet(Append(s, x)) <=> \E k \in 1 .. Len(s) + 1 : Append(s, x)[k] = y
    BY <1>1, <1>2 DEF ToSet
  <2>2. y \in ToSet(s) <=> \E k \in 1 .. Len(s) : s[k] = y
    BY <1>2 DEF ToSet
  <2>3. \A k : k \in 1 .. Len(s) + 1 <=> k \in 1 .. Len(s) \/ k = Len(s) + 1
    BY <1>2
  <2> QED
    BY <1>1, <2>1, <2>2, <2>3
<1> QED
  BY <1>1, <1>2, <1>3

LEMMA TailFacts ==
    ASSUME NEW S, NEW s \in Seq(S), s # <<>>
    PROVE  /\ Head(s) \in S
           /\ Head(s) = s[1]
           /\ Tail(s) \in Seq(S)
           /\ Len(s) \in Nat /\ Len(s) >= 1
           /\ Len(Tail(s)) = Len(s) - 1
           /\ \A k \in 1 .. Len(Tail(s)) : Tail(s)[k] = s[k + 1]
           /\ DOMAIN Tail(s) = 1 .. Len(Tail(s))
           /\ DOMAIN s = 1 .. Len(s)
           /\ ToSet(s) = ToSet(Tail(s)) \union {Head(s)}
<1>1. /\ Head(s) \in S
      /\ Head(s) = s[1]
      /\ Tail(s) \in Seq(S)
      /\ Len(s) \in Nat /\ Len(s) >= 1
      /\ Len(Tail(s)) = Len(s) - 1
      /\ \A k \in 1 .. Len(Tail(s)) : Tail(s)[k] = s[k + 1]
  OBVIOUS
<1>2. DOMAIN Tail(s) = 1 .. Len(Tail(s)) /\ DOMAIN s = 1 .. Len(s)
  BY <1>1
<1>3. ASSUME NEW y PROVE y \in ToSet(s) <=> y \in ToSet(Tail(s)) \union {Head(s)}
  <2>1. y \in ToSet(s) <=> \E k \in 1 .. Len(s) : s[k] = y
    BY <1>2 DEF ToSet
  <2>2. y \in ToSet(Tail(s)) <=> \E k \in 1 .. Len(s) - 1 : s[k + 1] = y
    BY <1>1, <1>2 DEF ToSet
  <2>3. ASSUME NEW k \in 1 .. Len(s), s[k] = y, k # 1 PROVE \E j \in 1 .. Len(s) - 1 : s[j + 1] = y
    <3>1. k - 1 \in 1 .. Len(s) - 1 /\ (k - 1) + 1 = k
      BY <1>1, <2>3
    <3> QED
      BY <2>3, <3>1
  <2>4. ASSUME NEW j \in 1 .. Len(s) - 1 PROVE j + 1 \in 1 .. Len(s)
    BY <1>1
  <2>5. 1 \in 1 .. Len(s)
    BY <1>1
  <2> QED
    BY <1>1, <2>1, <2>2, <2>3, <2>4, <2>5
<1> QED
  BY <1>1, <1>2, <1>3

LEMMA LowestIsThere ==
    ASSUME NEW S \in SUBSET Nat, S # {}
    PROVE  Min(S) \in S /\ \A k \in S : Min(S) <= k
<1>1. PICK m \in S : \A k \in S : ~(<<k, m>> \in OpToRel(<, Nat))
  BY WFMin, NatLessThanWellFounded
<1>2. m \in Nat /\ \A k \in S : k \in Nat /\ m <= k
  <2>1. ASSUME NEW k \in S PROVE m <= k
    <3>1. k \in Nat /\ m \in Nat
      OBVIOUS
    <3>2. ~(k < m)
      BY <1>1, <3>1 DEF OpToRel
    <3> QED
      BY <3>1, <3>2
  <2> QED
    BY <2>1
<1> QED
  BY <1>1, <1>2 DEF Min

-----------------------------------------------------------------------------
(* Type correctness *)

Report(codes) == [code : codes, size : ReportSizes]
File(last, codes) == [device : 0 .. last, queue : Seq(Report(codes))]
Uevent == [action : {"add", "remove"}, node : Node]

(* TypeOK, in pieces *)
Types ==
    /\ device \in [Node -> 0 .. plugs] /\ plugs \in 0 .. MaxPlugs /\ scans \in Seq(1 .. plugs)
    /\ pc \in {"off", "checked", "named", "monitored", "opening", "loop", "select", "reading"}
    /\ owner \in BOOLEAN /\ uevents \in Seq(Uevent) /\ found \subseteq Node
    /\ files \in [Fd -> File(plugs, DOMAIN scans)]
    /\ readFds \subseteq Fd /\ at \in Nat /\ reader \in BOOLEAN
    /\ inbox \in Seq(DOMAIN scans) /\ printed \in Seq(DOMAIN scans)
    /\ starts \in 0 .. MaxStarts /\ crossed \subseteq 1 .. plugs /\ owed \subseteq DOMAIN scans
    /\ reread \subseteq 0 .. plugs

LEMMA TypesIsTypeOK == Types <=> TypeOK
  BY DEF Types, TypeOK, File, Report, Uevent

LEMMA TypeInit == Init => Types
<1> SUFFICES ASSUME Init PROVE Types
  OBVIOUS
<1>1. files \in [Fd -> File(plugs, DOMAIN scans)]
  <2>1. NoFile \in File(plugs, DOMAIN scans)
    BY DEF NoFile, File, Init
  <2> QED
    BY <2>1 DEF Init
<1>2. scans \in Seq(1 .. plugs) /\ inbox \in Seq(DOMAIN scans) /\ printed \in Seq(DOMAIN scans)
  BY DEF Init
<1>3. device \in [Node -> 0 .. plugs] /\ plugs \in 0 .. MaxPlugs /\ starts \in 0 .. MaxStarts
  BY BoundAssumption DEF Init
<1>4. uevents \in Seq(Uevent) /\ found \subseteq Node /\ readFds \subseteq Fd
  BY DEF Init
<1>5. crossed \subseteq 1 .. plugs /\ owed \subseteq DOMAIN scans /\ reread \subseteq 0 .. plugs
  BY DEF Init
<1>6. pc = "off" /\ owner \in BOOLEAN /\ at \in Nat /\ reader \in BOOLEAN
  BY DEF Init
<1> QED
  BY <1>1, <1>2, <1>3, <1>4, <1>5, <1>6 DEF Types

LEMMA ScansDomain == ASSUME Types PROVE DOMAIN scans = 1 .. Len(scans) /\ Len(scans) \in Nat
  BY DEF Types

LEMMA EventType ==
    ASSUME Types, NEW action \in {"add", "remove"}, NEW n \in Node, Event(action, n)
    PROVE  uevents' \in Seq(Uevent)
<1>1. uevents \in Seq(Uevent) /\ [action |-> action, node |-> n] \in Uevent
  BY DEF Types, Uevent
<1> QED
  BY <1>1, AppendFacts DEF Event

LEMMA PlugType == ASSUME Types, NEW n \in Node, Plug(n) PROVE Types'
<1>0. UNCHANGED <<scans, pc, owner, found, files, readFds, at, reader, inbox, printed, starts, owed,
                  reread>>
  BY DEF Plug, readerVars
<1>1. plugs \in Nat /\ plugs' = plugs + 1 /\ plugs' \in 0 .. MaxPlugs
  BY BoundAssumption DEF Types, Plug
<1>2. device' \in [Node -> 0 .. plugs']
  BY <1>1 DEF Types, Plug
<1>3. /\ 1 .. plugs \subseteq 1 .. plugs' /\ 0 .. plugs \subseteq 0 .. plugs'
      /\ File(plugs, DOMAIN scans) \subseteq File(plugs', DOMAIN scans)
  BY <1>1 DEF File
<1>4. scans' \in Seq(1 .. plugs')
  BY <1>0, <1>3, SeqOfMore DEF Types
<1>5. files' \in [Fd -> File(plugs', DOMAIN scans')]
  BY <1>0, <1>3 DEF Types
<1>6. crossed' \subseteq 1 .. plugs' /\ reread' \subseteq 0 .. plugs'
  BY <1>0, <1>1, <1>3 DEF Types, Plug
<1>7. uevents' \in Seq(Uevent)
  BY EventType DEF Plug
<1> QED
  BY <1>0, <1>1, <1>2, <1>4, <1>5, <1>6, <1>7 DEF Types

LEMMA UnplugType == ASSUME Types, NEW n \in Node, Unplug(n) PROVE Types'
<1>0. UNCHANGED <<plugs, scans, pc, owner, found, files, readFds, at, reader, inbox, printed, starts,
                  crossed, owed, reread>>
  BY DEF Unplug, readerVars, historyVars
<1>1. device' \in [Node -> 0 .. plugs']
  BY <1>0, BoundAssumption DEF Types, Unplug
<1>2. uevents' \in Seq(Uevent)
  BY EventType DEF Unplug
<1> QED
  BY <1>0, <1>1, <1>2 DEF Types

LEMMA ScanType ==
    ASSUME Types, NEW n \in Node, NEW size \in ReportSizes, Scan(n, size)
    PROVE  Types'
<1>0. UNCHANGED <<device, plugs, pc, owner, uevents, found, readFds, at, reader, inbox, printed,
                  starts, crossed, reread>>
  BY DEF Scan, readerVars
<1>1. device[n] \in 1 .. plugs
  BY DEF Types, Scan, Present
<1>2. /\ scans' \in Seq(1 .. plugs')
      /\ DOMAIN scans' = 1 .. Len(scans) + 1
      /\ DOMAIN scans = 1 .. Len(scans) /\ Len(scans) \in Nat
  BY <1>0, <1>1, AppendFacts DEF Types, Scan
<1>3. DOMAIN scans \subseteq DOMAIN scans' /\ Len(scans) + 1 \in DOMAIN scans'
  BY <1>2
<1>4. inbox' \in Seq(DOMAIN scans') /\ printed' \in Seq(DOMAIN scans')
  BY <1>0, <1>3, SeqOfMore DEF Types
<1>5. owed' \subseteq DOMAIN scans'
  BY <1>3 DEF Types, Scan
<1>6. files' \in [Fd -> File(plugs', DOMAIN scans')]
  <2>1. ASSUME NEW f \in Fd PROVE files'[f] \in File(plugs', DOMAIN scans')
    <3>1. files[f] \in File(plugs, DOMAIN scans)
      BY DEF Types
    <3>2. files[f].device \in 0 .. plugs' /\ files[f].queue \in Seq(Report(DOMAIN scans'))
      <4>1. Report(DOMAIN scans) \subseteq Report(DOMAIN scans')
        BY <1>3 DEF Report
      <4>2. files[f].queue \in Seq(Report(DOMAIN scans)) /\ files[f].device \in 0 .. plugs
        BY <3>1 DEF File
      <4> QED
        BY <1>0, <4>1, <4>2, SeqOfMore
    <3>3. [code |-> Len(scans) + 1, size |-> size] \in Report(DOMAIN scans')
      BY <1>3 DEF Report
    <3>4. Append(files[f].queue, [code |-> Len(scans) + 1, size |-> size]) \in Seq(Report(DOMAIN scans'))
      BY <3>2, <3>3
    <3>5. CASE files'[f] = files[f]
      BY <3>1, <3>2, <3>5 DEF File
    <3>6. CASE files'[f] = [files[f] EXCEPT !.queue = Append(@, [code |-> Len(scans) + 1, size |-> size])]
      BY <3>1, <3>2, <3>4, <3>6 DEF File
    <3> QED
      BY <3>5, <3>6 DEF Scan
  <2>2. files' = [f \in Fd |-> files'[f]]
    BY DEF Scan
  <2> QED
    BY <2>1, <2>2
<1> QED
  BY <1>0, <1>2, <1>4, <1>5, <1>6 DEF Types

LEMMA NoFileType == ASSUME Types PROVE NoFile \in File(plugs, DOMAIN scans)
  BY DEF Types, NoFile, File

LEMMA EndedType ==
    ASSUME Types, Ended, UNCHANGED <<kernelVars, readerVars, starts, crossed>>
    PROVE  Types'
<1>1. files' \in [Fd -> File(plugs, DOMAIN scans)]
  BY NoFileType DEF Ended
<1>2. uevents' \in Seq(Uevent)
  BY DEF Ended
<1> QED
  BY <1>1, <1>2 DEF Types, Ended, kernelVars, readerVars

(* open_hid puts a file into a free descriptor, or into none. *)
LEMMA OpenedFacts ==
    ASSUME Types, NEW n \in Node, n \in Present, Opened(n)
    PROVE  /\ files' \in [Fd -> File(plugs, DOMAIN scans)]
           /\ n \notin Scanner => files' = files
           /\ n \in Scanner =>
                 \E f \in Fd :
                     /\ files[f] = NoFile
                     /\ files' = [files EXCEPT ![f] = [device |-> device[n], queue |-> <<>>]]
<1>1. CASE n \notin Scanner
  BY <1>1 DEF Opened, Types
<1>2. CASE n \in Scanner
  <2> DEFINE free == {f \in Fd : files[f] = NoFile}
  <2>1. free # {} /\ files' = [files EXCEPT ![Min(free)] = [device |-> device[n], queue |-> <<>>]]
    BY <1>2 DEF Opened
  <2>2. free \in SUBSET Nat
    BY FdAssumption DEF Fd
  <2>3. Min(free) \in free
    BY <2>1, <2>2, LowestIsThere
  <2>4. PICK f \in Fd : f = Min(free)
    BY <2>3
  <2>5. files[f] = NoFile /\ files' = [files EXCEPT ![f] = [device |-> device[n], queue |-> <<>>]]
    BY <2>1, <2>3, <2>4
  <2>6. [device |-> device[n], queue |-> <<>>] \in File(plugs, DOMAIN scans)
    BY DEF File, Types
  <2>7. files' \in [Fd -> File(plugs, DOMAIN scans)]
    BY <2>5, <2>6 DEF Types
  <2> QED
    BY <1>2, <2>5, <2>7
<1> QED
  BY <1>1, <1>2

LEMMA OpenFoundType == ASSUME Types, NEW n \in Node, OpenFound(n) PROVE Types'
<1>1. CASE Ended /\ UNCHANGED crossed
  BY <1>1, EndedType DEF OpenFound
<1>2. CASE ~Fatal(n) /\ Opened(n) /\ found' = found \ {n}
           /\ UNCHANGED <<pc, owner, uevents, readFds, at, crossed, owed, reread>>
  <2>1. files' \in [Fd -> File(plugs, DOMAIN scans)]
    BY <1>2, OpenedFacts DEF Fatal
  <2>2. found' \subseteq Node
    BY <1>2 DEF Types
  <2> QED
    BY <1>2, <2>1, <2>2 DEF Types, OpenFound, kernelVars, readerVars
<1> QED
  BY <1>1, <1>2 DEF OpenFound

LEMMA HandleUeventType == ASSUME Types, HandleUevent PROVE Types'
<1>0. uevents \in Seq(Uevent) /\ uevents # <<>>
  BY DEF HandleUevent, Types
<1>1. Head(uevents).node \in Node /\ Tail(uevents) \in Seq(Uevent)
  <2>1. Head(uevents) \in Uevent /\ Tail(uevents) \in Seq(Uevent)
    BY <1>0, TailFacts
  <2> QED
    BY <2>1 DEF Uevent
<1>2. CASE Ended /\ UNCHANGED crossed
  BY <1>2, EndedType DEF HandleUevent
<1>3. CASE /\ \/ ~Fatal(Head(uevents).node) /\ Opened(Head(uevents).node)
              \/ UNCHANGED files
           /\ pc' = "select" /\ uevents' = Tail(uevents)
           /\ UNCHANGED <<owner, found, readFds, at, crossed, owed, reread>>
  <2>1. files' \in [Fd -> File(plugs, DOMAIN scans)]
    BY <1>1, <1>3, OpenedFacts DEF Fatal, Types
  <2> QED
    BY <1>1, <1>3, <2>1 DEF Types, HandleUevent, kernelVars, readerVars
<1> QED
  BY <1>2, <1>3 DEF HandleUevent

LEMMA GoOnAtType ==
    ASSUME Types, NEW i \in Nat, GoOnAt(i)
    PROVE  at' \in Nat /\ readFds' \subseteq Fd /\ pc' \in {pc, "loop"}
  BY DEF Types, GoOnAt

LEMMA SendType ==
    ASSUME Types, NEW c \in DOMAIN scans, Send(c)
    PROVE  inbox' \in Seq(DOMAIN scans)
<1>1. inbox \in Seq(DOMAIN scans)
  BY DEF Types
<1> QED
  BY <1>1, AppendFacts DEF Send

(* What is in the queue of a file is a report of a code. *)
LEMMA QueueFacts ==
    ASSUME Types, NEW f \in Fd
    PROVE  /\ files[f] \in File(plugs, DOMAIN scans)
           /\ files[f].device \in 0 .. plugs
           /\ files[f].queue \in Seq(Report(DOMAIN scans))
           /\ Len(files[f].queue) \in Nat /\ DOMAIN files[f].queue = 1 .. Len(files[f].queue)
           /\ \A k \in DOMAIN files[f].queue : files[f].queue[k] \in Report(DOMAIN scans)
<1>1. files[f] \in File(plugs, DOMAIN scans)
  BY DEF Types
<1>2. files[f].device \in 0 .. plugs /\ files[f].queue \in Seq(Report(DOMAIN scans))
  BY <1>1 DEF File
<1> QED
  BY <1>1, <1>2

LEMMA ReadReportType == ASSUME Types, NEW f \in Fd, ReadReport(f) PROVE Types'
<1> DEFINE q == files[f].queue
<1>1. q \in Seq(Report(DOMAIN scans)) /\ q # <<>>
  BY QueueFacts DEF ReadReport
<1>2. Head(q) \in Report(DOMAIN scans) /\ Tail(q) \in Seq(Report(DOMAIN scans))
  BY <1>1, TailFacts
<1>3. Head(q).code \in DOMAIN scans /\ Head(q).size + 1 \in Nat
  <2>1. Head(q).code \in DOMAIN scans /\ Head(q).size \in ReportSizes
    BY <1>2 DEF Report
  <2>2. \A size \in ReportSizes : size \in Nat /\ size + 1 \in Nat
    BY FdAssumption
  <2> QED
    BY <2>1, <2>2
<1>4. inbox' \in Seq(DOMAIN scans)
  BY <1>3, SendType DEF ReadReport
<1>5. at' \in Nat /\ readFds' \subseteq Fd /\ pc' \in {pc, "loop"}
  BY <1>3, GoOnAtType DEF ReadReport
<1>6. files' \in [Fd -> File(plugs, DOMAIN scans)]
  <2>1. [files[f] EXCEPT !.queue = Tail(q)] \in File(plugs, DOMAIN scans)
    BY <1>2, QueueFacts DEF File
  <2>2. files' = [files EXCEPT ![f] = [files[f] EXCEPT !.queue = Tail(q)]]
    BY DEF ReadReport, Types
  <2> QED
    BY <2>1, <2>2 DEF Types
<1>7. UNCHANGED <<device, plugs, scans, owner, uevents, found, reader, printed, starts, crossed, owed>>
  BY DEF ReadReport, kernelVars
<1>8. reread' \subseteq 0 .. plugs
  <2>1. \A g \in readFds : g \in Fd /\ files[g].device \in 0 .. plugs
    BY QueueFacts DEF Types
  <2> QED
    BY <2>1 DEF ReadReport, ReadAgain, Types
<1> QED
  BY <1>4, <1>5, <1>6, <1>7, <1>8 DEF Types

LEMMA ReadErrorType == ASSUME Types, NEW f \in Fd, ReadError(f) PROVE Types'
<1>1. f + 1 \in Nat
  BY FdAssumption DEF Fd
<1>2. at' \in Nat /\ readFds' \subseteq Fd /\ pc' \in {pc, "loop"}
  BY <1>1, GoOnAtType DEF ReadError
<1>3. files' \in [Fd -> File(plugs, DOMAIN scans)]
  BY NoFileType DEF ReadError, Types
<1>4. UNCHANGED <<device, plugs, scans, owner, uevents, found, reader, inbox, printed, starts,
                  crossed, owed, reread>>
  BY DEF ReadError, kernelVars, historyVars, readerVars
<1> QED
  BY <1>2, <1>3, <1>4 DEF Types

LEMMA ReceiveType == ASSUME Types, Receive PROVE Types'
<1>1. inbox \in Seq(DOMAIN scans) /\ printed \in Seq(DOMAIN scans) /\ inbox # <<>>
  BY DEF Types, Receive
<1>2. Head(inbox) \in DOMAIN scans /\ Tail(inbox) \in Seq(DOMAIN scans)
  BY <1>1, TailFacts
<1>3. Append(printed, Head(inbox)) \in Seq(DOMAIN scans)
  BY <1>1, <1>2, AppendFacts
<1> QED
  BY <1>2, <1>3 DEF Types, Receive, kernelVars, serviceVars, historyVars

LEMMA ReaderType == ASSUME Types, ReaderStarts \/ ReaderExits PROVE Types'
<1>1. printed' \in Seq(DOMAIN scans) /\ inbox' \in Seq(DOMAIN scans)
  <2>1. <<>> \in Seq(DOMAIN scans) /\ inbox \in Seq(DOMAIN scans)
    BY DEF Types
  <2> QED
    BY <2>1 DEF ReaderStarts, ReaderExits
<1>2. reader' \in BOOLEAN /\ owed' \subseteq DOMAIN scans
  BY DEF Types, ReaderStarts, ReaderExits, historyVars
<1>3. UNCHANGED <<kernelVars, serviceVars, starts, crossed, reread>>
  BY DEF ReaderStarts, ReaderExits, historyVars
<1> QED
  BY <1>1, <1>2, <1>3 DEF Types, kernelVars, serviceVars

(* The stretches of main() that open and read nothing. *)
LEMMA StageType ==
    ASSUME Types,
           \/ CheckName \/ RequestName \/ OtherInstance \/ EnableMonitor \/ ScanDevices
           \/ EnterLoop \/ Select
    PROVE  Types'
<1>1. UNCHANGED <<kernelVars, uevents, files, readerVars, historyVars>>
  BY DEF CheckName, RequestName, OtherInstance, EnableMonitor, ScanDevices, EnterLoop, Select
<1>2. /\ pc' \in {"off", "checked", "named", "monitored", "opening", "loop", "select", "reading"}
      /\ owner' \in BOOLEAN
  BY DEF CheckName, RequestName, OtherInstance, EnableMonitor, ScanDevices, EnterLoop, Select, Types
<1>3. found' \subseteq Node /\ readFds' \subseteq Fd /\ at' \in Nat
  BY DEF CheckName, RequestName, OtherInstance, EnableMonitor, ScanDevices, EnterLoop, Select, Types,
         Present, Readable, Open
<1>4. starts' \in 0 .. MaxStarts
  BY BoundAssumption
     DEF CheckName, RequestName, OtherInstance, EnableMonitor, ScanDevices, EnterLoop, Select, Types
<1> QED
  BY <1>1, <1>2, <1>3, <1>4 DEF Types, kernelVars, readerVars, historyVars

LEMMA TypeStep == ASSUME Types, [Next]_vars PROVE Types'
<1>1. CASE UNCHANGED vars
  BY <1>1 DEF Types, vars, kernelVars, serviceVars, readerVars, historyVars
<1>2. CASE Killed
  BY <1>2, EndedType DEF Killed
<1> QED
  BY <1>1, <1>2, PlugType, UnplugType, ScanType, OpenFoundType, HandleUeventType, ReadReportType,
     ReadErrorType, ReceiveType, ReaderType, StageType
     DEF Next, Advance, Environment

(* Every variable has its type. *)
THEOREM TypeCorrect == Spec => []TypeOK
<1>1. Types => TypeOK
  BY TypesIsTypeOK
<1> QED
  BY <1>1, TypeInit, TypeStep, PTL DEF Spec

-----------------------------------------------------------------------------
(* What the steps do to the files *)

(* A file is opened on the device of a node. *)
Opens(f, n) ==
    /\ files[f] = NoFile
    /\ files' = [files EXCEPT ![f] = [device |-> device[n], queue |-> <<>>]]

(* The opening of one node goes well. *)
OpensNode(n) ==
    /\ n \in Present
    /\ \/ n \notin Scanner /\ files' = files
       \/ \E f \in Fd : n \in Scanner /\ Opens(f, n)

LEMMA OpensFacts ==
    ASSUME Types, NEW f \in Fd, NEW n \in Node, Opens(f, n)
    PROVE  /\ files[f].device = 0 /\ files'[f].device = device[n] /\ files'[f].queue = <<>>
           /\ \A g \in Fd : g # f => files'[g] = files[g]
  BY DEF Types, Opens, NoFile

LEMMA OpenedOpens == ASSUME Types, NEW n \in Node, n \in Present, Opened(n) PROVE OpensNode(n)
  BY OpenedFacts DEF OpensNode, Opens

LEMMA FoundOpens ==
    ASSUME Types, NEW n \in Node, OpenFound(n)
    PROVE  \/ Ended /\ UNCHANGED <<device, plugs, scans, reader, inbox, printed, crossed>>
           \/ /\ OpensNode(n) /\ n \in found /\ found' = found \ {n} /\ pc = "opening"
              /\ UNCHANGED <<device, plugs, scans, pc, uevents, readFds, at, reader, inbox, printed,
                             crossed, owed>>
<1>1. UNCHANGED <<device, plugs, scans, reader, inbox, printed>>
  BY DEF OpenFound, kernelVars, readerVars
<1> QED
  BY <1>1, OpenedOpens DEF OpenFound, Fatal

LEMMA UeventOpens ==
    ASSUME Types, HandleUevent
    PROVE  /\ uevents # <<>> /\ pc = "loop" /\ uevents \in Seq(Uevent) /\ Head(uevents).node \in Node
           /\ UNCHANGED <<device, plugs, scans, reader, inbox, printed, crossed>>
           /\ \/ Ended
              \/ /\ \/ Head(uevents) = [action |-> "add", node |-> Head(uevents).node]
                       /\ OpensNode(Head(uevents).node)
                    \/ Head(uevents) = [action |-> "remove", node |-> Head(uevents).node] /\ files' = files
                 /\ pc' = "select" /\ uevents' = Tail(uevents)
                 /\ UNCHANGED <<found, readFds, at, owed>>
<1>1. uevents # <<>> /\ pc = "loop" /\ uevents \in Seq(Uevent)
  BY DEF HandleUevent, Types
<1>2. Head(uevents) \in Uevent
  BY <1>1, TailFacts
<1>3. /\ Head(uevents).node \in Node
      /\ Head(uevents) = [action |-> Head(uevents).action, node |-> Head(uevents).node]
  BY <1>2 DEF Uevent
<1>4. UNCHANGED <<device, plugs, scans, reader, inbox, printed>>
  BY DEF HandleUevent, kernelVars, readerVars
<1>5. CASE Ended /\ UNCHANGED crossed
  BY <1>1, <1>3, <1>4, <1>5
<1>6. CASE /\ \/ /\ Head(uevents).action = "add" /\ ~Fatal(Head(uevents).node)
                 /\ Opened(Head(uevents).node)
              \/ Head(uevents).action = "remove" /\ UNCHANGED files
           /\ pc' = "select" /\ uevents' = Tail(uevents)
           /\ UNCHANGED <<owner, found, readFds, at, crossed, owed, reread>>
  <2>1. CASE Head(uevents).action = "add" /\ ~Fatal(Head(uevents).node) /\ Opened(Head(uevents).node)
    <3>1. OpensNode(Head(uevents).node)
      BY <1>3, <2>1, OpenedOpens DEF Fatal
    <3> QED
      BY <1>1, <1>3, <1>4, <1>6, <2>1, <3>1
  <2>2. CASE Head(uevents).action = "remove" /\ UNCHANGED files
    BY <1>1, <1>3, <1>4, <1>6, <2>2
  <2> QED
    BY <1>6, <2>1, <2>2
<1> QED
  BY <1>5, <1>6 DEF HandleUevent

(* The report of a scan, in every file open on the device. *)
LEMMA ScanFiles ==
    ASSUME Types, NEW n \in Node, NEW size \in ReportSizes, Scan(n, size), NEW f \in Fd
    PROVE  /\ files'[f].device = files[f].device
           /\ \/ files'[f].queue = files[f].queue
              \/ /\ files[f].device = device[n] /\ files[f].device # 0
                 /\ files'[f].queue = Append(files[f].queue, [code |-> Len(scans) + 1, size |-> size])
<1>1. device[n] # 0
  BY DEF Scan, Present
<1>2. files[f] \in [device : 0 .. plugs, queue : Seq(Report(DOMAIN scans))]
  BY QueueFacts DEF File
<1>3. CASE f \in OpenOn(device[n])
  <2>1. files'[f] = [files[f] EXCEPT !.queue = Append(@, [code |-> Len(scans) + 1, size |-> size])]
    BY <1>3 DEF Scan
  <2> QED
    BY <1>1, <1>2, <1>3, <2>1 DEF OpenOn
<1>4. CASE f \notin OpenOn(device[n])
  BY <1>2, <1>4 DEF Scan
<1> QED
  BY <1>3, <1>4

(* A report read is the oldest of its file. *)
LEMMA ReadReportFiles ==
    ASSUME Types, NEW f \in Fd, ReadReport(f)
    PROVE  /\ files'[f].device = files[f].device /\ files'[f].queue = Tail(files[f].queue)
           /\ \A g \in Fd : g # f => files'[g] = files[g]
           /\ \A g \in Fd : files'[g].device = files[g].device
<1>1. files' = [files EXCEPT ![f] = [files[f] EXCEPT !.queue = Tail(@)]]
  BY DEF ReadReport, Types
<1>2. files \in [Fd -> File(plugs, DOMAIN scans)] /\ files[f] \in File(plugs, DOMAIN scans)
  BY DEF Types
<1>3. files'[f] = [files[f] EXCEPT !.queue = Tail(@)] /\ \A g \in Fd : g # f => files'[g] = files[g]
  BY <1>1, <1>2
<1>4. files'[f].device = files[f].device /\ files'[f].queue = Tail(files[f].queue)
  BY <1>2, <1>3 DEF File
<1> QED
  BY <1>3, <1>4

LEMMA ReadErrorFiles ==
    ASSUME Types, NEW f \in Fd, ReadError(f)
    PROVE  files'[f] = NoFile /\ \A g \in Fd : g # f => files'[g] = files[g]
  BY DEF ReadError, Types

LEMMA EndedFiles ==
    ASSUME Ended
    PROVE  /\ \A f \in Fd : files'[f] = NoFile /\ files'[f].device = 0 /\ files'[f].queue = <<>>
           /\ pc' = "off" /\ uevents' = <<>> /\ found' = {} /\ readFds' = {} /\ owed' = {}
           /\ reread' = {}
  BY DEF Ended, NoFile

(* The steps that open, read, send and are sent nothing. *)
Passes ==
    UNCHANGED <<device, plugs, scans, uevents, files, reader, inbox, printed, crossed, owed, reread>>

(* A step, by what it does to the kernel's and the service's state. *)
LEMMA StepCases ==
    ASSUME Types, [Next]_vars
    PROVE  \/ \E n \in Node : Plug(n) \/ Unplug(n) \/ (\E size \in ReportSizes : Scan(n, size))
           \/ Ended /\ UNCHANGED <<device, plugs, scans, reader, inbox, printed, crossed>>
           \/ \E n \in Node : OpenFound(n)
           \/ HandleUevent
           \/ \E f \in Fd : ReadReport(f) \/ ReadError(f)
           \/ Receive \/ ReaderStarts \/ ReaderExits
           \/ /\ Passes
              /\ \/ UNCHANGED <<pc, found, readFds, at>>
                 \/ UNCHANGED <<found, readFds, at>> /\ pc' \in {"off", "checked", "named"}
                    /\ pc \in {"off", "checked", "named"}
                 \/ EnableMonitor \/ ScanDevices \/ EnterLoop \/ Select
<1>1. CASE UNCHANGED vars
  BY <1>1 DEF Passes, vars, kernelVars, serviceVars, readerVars, historyVars
<1>2. CASE Killed
  BY <1>2 DEF Killed, kernelVars, readerVars
<1>3. CASE CheckName \/ RequestName \/ OtherInstance
  <2>1. UNCHANGED <<found, readFds, at>> /\ Passes
    BY <1>3 DEF CheckName, RequestName, OtherInstance, Passes, kernelVars, readerVars, historyVars
  <2>2. pc' \in {"off", "checked", "named"} /\ pc \in {"off", "checked", "named"}
    BY <1>3 DEF CheckName, RequestName, OtherInstance
  <2> QED
    BY <2>1, <2>2
<1>4. CASE EnableMonitor \/ ScanDevices \/ EnterLoop \/ Select
  <2>1. Passes
    BY <1>4 DEF EnableMonitor, ScanDevices, EnterLoop, Select, Passes, kernelVars, readerVars, historyVars
  <2> QED
    BY <1>4, <2>1
<1> QED
  BY <1>1, <1>2, <1>3, <1>4 DEF Next, Advance, Environment

-----------------------------------------------------------------------------
(* Devices, stages, and what is about to be opened *)

(* The stages from the opening of what the enumeration found. *)
Serving == {"opening", "loop", "select", "reading"}

Added(n) == [action |-> "add", node |-> n]

(* No two nodes have one device. *)
OneNode == \A m, n \in Node : device[m] = device[n] /\ device[m] # 0 => m = n

(* A free descriptor holds nothing. *)
FreeIsEmpty == \A f \in Fd : files[f].device = 0 => files[f].queue = <<>>

(* Nothing is heard before the monitor listens, nothing is left to open after  *)
(* the enumeration was worked off, nothing is open before it.                  *)
StageInv ==
    /\ pc \in {"off", "checked", "named"} => uevents = <<>>
    /\ pc # "opening" => found = {}
    /\ pc \notin Serving => \A f \in Fd : files[f].device = 0

(* A device that did not come while its node was about to be opened anyway is  *)
(* opened once at most: one "add" waits, or the enumeration found it, or a     *)
(* descriptor is open on it, and never two of these.                           *)
AddWaits(n) == \E j \in 1 .. Len(uevents) : uevents[j] = Added(n)
AddsOnce(n) ==
    \A j, k \in 1 .. Len(uevents) : uevents[j] = Added(n) /\ uevents[k] = Added(n) => j = k
NoFileOn(n) == \A f \in Fd : files[f].device # device[n]

Pending(n) ==
    /\ AddsOnce(n)
    /\ AddWaits(n) => pc # "monitored" /\ n \notin found /\ NoFileOn(n)
    /\ n \in found => NoFileOn(n)

PendingInv == \A n \in Node : device[n] # 0 /\ device[n] \notin crossed => Pending(n)

(* Of such a device one descriptor is open. *)
SingleInv ==
    \A f, g \in Fd :
        files[f].device = files[g].device /\ files[f].device # 0 /\ files[f].device \notin crossed => f = g

LEMMA DevicesAre ==
    ASSUME Types
    PROVE  /\ \A n \in Node : device[n] \in 0 .. plugs /\ device[n] \in Nat
           /\ plugs \in Nat
           /\ \A f \in Fd : files[f].device \in 0 .. plugs /\ files[f].device \in Nat
  BY QueueFacts, BoundAssumption DEF Types

LEMMA PlugDevice ==
    ASSUME Types, NEW n \in Node, Plug(n)
    PROVE  /\ device'[n] = plugs + 1 /\ \A m \in Node : m # n => device'[m] = device[m]
           /\ \A m \in Node : device[m] # plugs + 1
           /\ \A f \in Fd : files[f].device # plugs + 1
           /\ plugs + 1 # 0
  BY DevicesAre DEF Plug, Types

LEMMA UnplugDevice ==
    ASSUME Types, NEW n \in Node, Unplug(n)
    PROVE  device'[n] = 0 /\ \A m \in Node : m # n => device'[m] = device[m]
  BY DEF Unplug, Types

(* What the steps that are neither Plug nor Unplug leave alone. *)
LEMMA DevicesStay ==
    ASSUME Types, [Next]_vars, \A n \in Node : ~Plug(n) /\ ~Unplug(n)
    PROVE  UNCHANGED <<device, plugs, crossed>>
<1>1. CASE \E n \in Node, size \in ReportSizes : Scan(n, size)
  BY <1>1 DEF Scan
<1>2. CASE \E n \in Node : OpenFound(n)
  BY <1>2, FoundOpens
<1>3. CASE \E f \in Fd : ReadReport(f) \/ ReadError(f)
  BY <1>3 DEF ReadReport, ReadError, kernelVars, historyVars
<1>4. CASE Receive \/ ReaderStarts \/ ReaderExits
  BY <1>4 DEF Receive, ReaderStarts, ReaderExits, kernelVars, historyVars
<1> QED
  BY <1>1, <1>2, <1>3, <1>4, UeventOpens, StepCases DEF Passes

LEMMA OneNodeStep == ASSUME Types, OneNode, [Next]_vars PROVE OneNode'
<1>1. ASSUME NEW n \in Node, Plug(n) PROVE OneNode'
  BY <1>1, PlugDevice DEF OneNode
<1>2. ASSUME NEW n \in Node, Unplug(n) PROVE OneNode'
  BY <1>2, UnplugDevice DEF OneNode
<1>3. CASE \A n \in Node : ~Plug(n) /\ ~Unplug(n)
  BY <1>3, DevicesStay DEF OneNode
<1> QED
  BY <1>1, <1>2, <1>3

(* What the steps do to the devices of the files. *)
LEMMA FileSteps ==
    ASSUME Types, [Next]_vars
    PROVE  \/ \A f \in Fd : files'[f].device = files[f].device
           \/ Ended
           \/ \E n \in Node : OpensNode(n) /\ (OpenFound(n) \/ HandleUevent)
           \/ \E f \in Fd : ReadError(f)
<1>1. CASE \E n \in Node : Plug(n) \/ Unplug(n) \/ (\E size \in ReportSizes : Scan(n, size))
  BY <1>1, ScanFiles DEF Plug, Unplug
<1>2. CASE \E n \in Node : OpenFound(n)
  BY <1>2, FoundOpens
<1>3. CASE HandleUevent
  BY <1>3, UeventOpens
<1>4. CASE \E f \in Fd : ReadReport(f) \/ ReadError(f)
  BY <1>4, ReadReportFiles
<1>5. CASE Receive \/ ReaderStarts \/ ReaderExits
  BY <1>5 DEF Receive, ReaderStarts, ReaderExits, serviceVars
<1> QED
  BY <1>1, <1>2, <1>3, <1>4, <1>5, StepCases DEF Passes

LEMMA FreeIsEmptyStep == ASSUME Types, FreeIsEmpty, [Next]_vars PROVE FreeIsEmpty'
<1> SUFFICES ASSUME NEW f \in Fd, files'[f].device = 0 PROVE files'[f].queue = <<>>
  BY DEF FreeIsEmpty
<1>1. CASE \E n \in Node, size \in ReportSizes : Scan(n, size)
  BY <1>1, ScanFiles DEF FreeIsEmpty
<1>2. CASE Ended
  BY <1>2, EndedFiles
<1>3. CASE \E n \in Node : OpensNode(n)
  <2>1. CASE files' = files
    BY <2>1 DEF FreeIsEmpty
  <2>2. CASE \E n \in Node, g \in Fd : Opens(g, n)
    BY <2>2, OpensFacts DEF FreeIsEmpty
  <2> QED
    BY <1>3, <2>1, <2>2 DEF OpensNode
<1>4. CASE \E g \in Fd : ReadReport(g)
  <2>1. PICK g \in Fd : ReadReport(g)
    BY <1>4
  <2>2. files[g].device # 0
    BY <2>1 DEF FreeIsEmpty, ReadReport
  <2> QED
    BY <2>1, <2>2, ReadReportFiles DEF FreeIsEmpty
<1>5. CASE \E g \in Fd : ReadError(g)
  BY <1>5, ReadErrorFiles DEF FreeIsEmpty, NoFile
<1>6. CASE files' = files
  BY <1>6 DEF FreeIsEmpty
<1>7. CASE \E n \in Node : Plug(n) \/ Unplug(n)
  BY <1>6, <1>7 DEF Plug, Unplug
<1>8. CASE \/ \E n \in Node : OpenFound(n)
           \/ HandleUevent
  BY <1>2, <1>3, <1>6, <1>8, FoundOpens, UeventOpens
<1>9. CASE Receive \/ ReaderStarts \/ ReaderExits
  BY <1>6, <1>9 DEF Receive, ReaderStarts, ReaderExits, serviceVars
<1> QED
  BY <1>1, <1>2, <1>4, <1>5, <1>6, <1>7, <1>8, <1>9, StepCases DEF Passes

LEMMA StageStep == ASSUME Types, StageInv, [Next]_vars PROVE StageInv'
<1>1. CASE \E n \in Node : Plug(n) \/ Unplug(n) \/ (\E size \in ReportSizes : Scan(n, size))
  <2>1. \A f \in Fd : files'[f].device = files[f].device
    BY <1>1, ScanFiles DEF Plug, Unplug
  <2>2. pc' = pc /\ found' = found
    BY <1>1 DEF Plug, Unplug, Scan
  <2>3. pc \in {"off", "checked", "named"} => uevents' = uevents
    BY <1>1 DEF Plug, Unplug, Scan, Event, Listening
  <2> QED
    BY <2>1, <2>2, <2>3 DEF StageInv
<1>2. CASE Ended
  BY <1>2, EndedFiles DEF StageInv, Serving
<1>3. CASE \E n \in Node : OpenFound(n)
  <2> SUFFICES ASSUME ~Ended PROVE StageInv'
    BY <1>2
  <2>1. pc' = pc /\ pc = "opening"
    BY <1>3, FoundOpens
  <2> QED
    BY <2>1 DEF StageInv, Serving
<1>4. CASE HandleUevent
  <2> SUFFICES ASSUME ~Ended PROVE StageInv'
    BY <1>2
  <2>1. pc' = "select" /\ found' = found /\ pc = "loop"
    BY <1>4, UeventOpens
  <2> QED
    BY <2>1 DEF StageInv, Serving
<1>5. CASE \E f \in Fd : ReadReport(f) \/ ReadError(f)
  <2>1. pc = "reading" /\ pc' \in {"reading", "loop"} /\ found' = found
    BY <1>5 DEF ReadReport, ReadError, GoOnAt
  <2> QED
    BY <2>1 DEF StageInv, Serving
<1>6. CASE Receive \/ ReaderStarts \/ ReaderExits
  BY <1>6 DEF Receive, ReaderStarts, ReaderExits, serviceVars, StageInv
<1>7. CASE /\ Passes
           /\ \/ UNCHANGED <<pc, found, readFds, at>>
              \/ UNCHANGED <<found, readFds, at>> /\ pc' \in {"off", "checked", "named"}
                 /\ pc \in {"off", "checked", "named"}
  BY <1>7 DEF Passes, StageInv, Serving
<1>8. CASE Passes /\ (EnableMonitor \/ ScanDevices \/ EnterLoop \/ Select)
  <2>1. CASE EnableMonitor
    BY <1>8, <2>1 DEF Passes, StageInv, Serving, EnableMonitor
  <2>2. CASE ScanDevices
    BY <1>8, <2>2 DEF Passes, StageInv, Serving, ScanDevices
  <2>3. CASE EnterLoop \/ Select
    BY <1>8, <2>3 DEF Passes, StageInv, Serving, EnterLoop, Select
  <2> QED
    BY <1>8, <2>1, <2>2, <2>3
<1> QED
  BY <1>1, <1>2, <1>3, <1>4, <1>5, <1>6, <1>7, <1>8, StepCases

LEMMA UeventsAre == ASSUME Types PROVE Len(uevents) \in Nat /\ uevents \in Seq(Uevent)
  BY DEF Types

(* An event heard, and an event dealt with. *)
LEMMA EventAdds ==
    ASSUME Types, NEW action \in {"add", "remove"}, NEW m \in Node, Event(action, m), NEW n \in Node,
           action = "remove" \/ n # m
    PROVE  (AddsOnce(n) => AddsOnce(n)') /\ (AddWaits(n)' => AddWaits(n))
<1>1. CASE uevents' = uevents
  BY <1>1 DEF AddsOnce, AddWaits
<1>2. CASE uevents' = Append(uevents, [action |-> action, node |-> m])
  <2>1. [action |-> action, node |-> m] \in Uevent /\ [action |-> action, node |-> m] # Added(n)
    BY DEF Uevent, Added
  <2>2. /\ Len(uevents') = Len(uevents) + 1 /\ Len(uevents) \in Nat
        /\ uevents'[Len(uevents) + 1] # Added(n)
        /\ \A j \in 1 .. Len(uevents) : uevents'[j] = uevents[j]
    BY <1>2, <2>1, UeventsAre, AppendFacts
  <2>3. ASSUME NEW j \in 1 .. Len(uevents'), uevents'[j] = Added(n)
        PROVE  j \in 1 .. Len(uevents) /\ uevents[j] = Added(n)
    BY <2>2, <2>3
  <2>4. AddWaits(n)' => AddWaits(n)
    BY <2>3 DEF AddWaits, Added
  <2>5. AddsOnce(n) => AddsOnce(n)'
    BY <2>3 DEF AddsOnce, Added
  <2> QED
    BY <2>4, <2>5
<1> QED
  BY <1>1, <1>2 DEF Event

LEMMA EventTaken ==
    ASSUME Types, uevents # <<>>, uevents' = Tail(uevents), NEW n \in Node
    PROVE  /\ (AddsOnce(n) => AddsOnce(n)') /\ (AddWaits(n)' => AddWaits(n))
           /\ Head(uevents) = Added(n) => AddWaits(n) /\ (AddsOnce(n) => ~AddWaits(n)')
<1>1. /\ Len(uevents) \in Nat /\ Len(uevents) >= 1 /\ Len(uevents') = Len(uevents) - 1
      /\ \A k \in 1 .. Len(uevents') : uevents'[k] = uevents[k + 1]
      /\ Head(uevents) = uevents[1]
  BY UeventsAre, TailFacts
<1>2. ASSUME NEW j \in 1 .. Len(uevents') PROVE j + 1 \in 1 .. Len(uevents) /\ j + 1 # 1
  BY <1>1
<1>3. AddWaits(n)' => AddWaits(n)
  BY <1>1, <1>2 DEF AddWaits, Added
<1>4. AddsOnce(n) => AddsOnce(n)'
  <2> SUFFICES ASSUME AddsOnce(n), NEW j \in 1 .. Len(uevents'), NEW k \in 1 .. Len(uevents'),
                      uevents'[j] = Added(n), uevents'[k] = Added(n)
               PROVE  j = k
    BY DEF AddsOnce, Added
  <2>1. j + 1 = k + 1
    BY <1>1, <1>2 DEF AddsOnce
  <2> QED
    BY <2>1, <1>1
<1>5. 1 \in 1 .. Len(uevents)
  BY <1>1
<1>6. Head(uevents) = Added(n) => AddWaits(n)
  BY <1>1, <1>5 DEF AddWaits
<1>7. Head(uevents) = Added(n) /\ AddsOnce(n) => ~AddWaits(n)'
  <2> SUFFICES ASSUME Head(uevents) = Added(n), AddsOnce(n), NEW j \in 1 .. Len(uevents'),
                      uevents'[j] = Added(n)
               PROVE  FALSE
    BY DEF AddWaits, Added
  <2>1. uevents[j + 1] = Added(n) /\ uevents[1] = Added(n) /\ j + 1 \in 1 .. Len(uevents)
    BY <1>1, <1>2
  <2>2. j + 1 = 1
    BY <1>5, <2>1 DEF AddsOnce
  <2> QED
    BY <1>2, <2>2
<1> QED
  BY <1>3, <1>4, <1>6, <1>7

(* A step that opens nothing and leaves the node and what waits for it alone. *)
LEMMA PendingKept ==
    ASSUME NEW n \in Node, Pending(n), device[n] # 0, device'[n] = device[n],
           AddsOnce(n)', AddWaits(n)' => AddWaits(n), n \in found' => n \in found,
           pc' = "monitored" => pc = "monitored",
           \A f \in Fd : files'[f].device \in {files[f].device, 0}
    PROVE  Pending(n)'
<1>1. NoFileOn(n) => NoFileOn(n)'
  BY DEF NoFileOn
<1> QED
  BY <1>1 DEF Pending

(* What is open already is not opened again. *)
LEMMA OpensOther ==
    ASSUME Types, OneNode, NEW m \in Node, OpensNode(m), NEW n \in Node, n # m, device[n] # 0,
           device'[n] = device[n], NoFileOn(n)
    PROVE  NoFileOn(n)'
<1>1. device[m] # device[n]
  BY DEF OneNode
<1>2. CASE files' = files
  BY <1>2 DEF NoFileOn
<1>3. CASE \E f \in Fd : Opens(f, m)
  BY <1>1, <1>3, OpensFacts DEF NoFileOn
<1> QED
  BY <1>2, <1>3 DEF OpensNode

LEMMA PendingPlug ==
    ASSUME Types, PendingInv, NEW m \in Node, Plug(m)
    PROVE  PendingInv'
<1> SUFFICES ASSUME NEW n \in Node, device'[n] # 0, device'[n] \notin crossed' PROVE Pending(n)'
  BY DEF PendingInv
<1>0. /\ UNCHANGED <<pc, found, files>> /\ Event("add", m) /\ crossed \subseteq crossed'
      /\ Len(uevents) \in Nat /\ uevents \in Seq(Uevent)
  BY UeventsAre DEF Plug
<1>1. CASE n # m
  <2>1. device'[n] = device[n]
    BY <1>1, PlugDevice
  <2>2. Pending(n)
    BY <1>0, <2>1 DEF PendingInv
  <2>3. AddsOnce(n)' /\ (AddWaits(n)' => AddWaits(n))
    BY <1>0, <1>1, <2>2, EventAdds DEF Pending
  <2> QED
    BY <1>0, <2>1, <2>2, <2>3, PendingKept
<1>2. CASE n = m
  <2>1. device'[n] = plugs + 1 /\ (\A f \in Fd : files[f].device # plugs + 1)
    BY <1>2, PlugDevice
  <2>2. pc # "monitored" /\ m \notin found /\ Added(m) \notin ToSet(uevents)
    BY <1>2, <2>1 DEF Plug, Added
  <2>3. ~AddWaits(m)
    BY <1>0, <2>2, ToSetOf DEF AddWaits
  <2>4. NoFileOn(n)'
    BY <1>0, <2>1 DEF NoFileOn
  <2>5. AddsOnce(n)'
    <3>1. CASE uevents' = uevents
      BY <1>2, <2>3, <3>1 DEF AddsOnce, AddWaits, Added
    <3>2. CASE uevents' = Append(uevents, Added(m))
      <4>1. Added(m) \in Uevent
        BY DEF Added, Uevent
      <4>2. /\ Len(uevents') = Len(uevents) + 1
            /\ \A j \in 1 .. Len(uevents) : uevents'[j] = uevents[j]
        BY <1>0, <3>2, <4>1, AppendFacts
      <4>3. ASSUME NEW j \in 1 .. Len(uevents'), uevents'[j] = Added(m) PROVE j = Len(uevents) + 1
        BY <1>0, <2>3, <4>2, <4>3 DEF AddWaits
      <4> QED
        BY <1>2, <4>3 DEF AddsOnce, Added
    <3> QED
      BY <1>0, <3>1, <3>2 DEF Event, Added
  <2> QED
    BY <1>0, <1>2, <2>2, <2>4, <2>5 DEF Pending
<1> QED
  BY <1>1, <1>2

LEMMA PendingUnplug ==
    ASSUME Types, PendingInv, NEW m \in Node, Unplug(m)
    PROVE  PendingInv'
<1> SUFFICES ASSUME NEW n \in Node, device'[n] # 0, device'[n] \notin crossed' PROVE Pending(n)'
  BY DEF PendingInv
<1>0. UNCHANGED <<pc, found, files, crossed>> /\ Event("remove", m)
  BY DEF Unplug, historyVars
<1>1. device'[n] = device[n]
  BY UnplugDevice
<1>2. Pending(n)
  BY <1>0, <1>1 DEF PendingInv
<1>3. AddsOnce(n)' /\ (AddWaits(n)' => AddWaits(n))
  BY <1>0, <1>2, EventAdds DEF Pending
<1> QED
  BY <1>0, <1>1, <1>2, <1>3, PendingKept

LEMMA PendingOpened ==
    ASSUME Types, OneNode, PendingInv, NEW m \in Node, OpensNode(m), UNCHANGED <<device, crossed>>,
           pc' # "monitored", found' \subseteq found,
           \/ m \in found /\ found' = found \ {m} /\ uevents' = uevents
           \/ uevents # <<>> /\ Head(uevents) = Added(m) /\ uevents' = Tail(uevents)
    PROVE  PendingInv'
<1> SUFFICES ASSUME NEW n \in Node, device[n] # 0, device[n] \notin crossed PROVE Pending(n)'
  BY DEF PendingInv
<1>1. Pending(n)
  BY DEF PendingInv
<1>2. (AddsOnce(n) => AddsOnce(n)') /\ (AddWaits(n)' => AddWaits(n))
  <2>1. CASE uevents' = uevents
    BY <2>1 DEF AddsOnce, AddWaits, Added
  <2> QED
    BY <2>1, EventTaken
<1>3. CASE n # m
  <2>1. NoFileOn(n) => NoFileOn(n)'
    BY <1>3, OpensOther
  <2> QED
    BY <1>1, <1>2, <2>1 DEF Pending
<1>4. CASE n = m
  <2>1. ~AddWaits(n)'
    <3>1. CASE m \in found /\ found' = found \ {m} /\ uevents' = uevents
      BY <1>1, <1>2, <1>4, <3>1 DEF Pending
    <3>2. CASE uevents # <<>> /\ Head(uevents) = Added(m) /\ uevents' = Tail(uevents)
      BY <1>1, <1>4, <3>2, EventTaken DEF Pending
    <3> QED
      BY <3>1, <3>2
  <2>2. n \notin found'
    <3>1. CASE uevents # <<>> /\ Head(uevents) = Added(m) /\ uevents' = Tail(uevents)
      <4>1. AddWaits(n)
        BY <1>4, <3>1, EventTaken
      <4> QED
        BY <1>1, <4>1 DEF Pending
    <3> QED
      BY <1>4, <3>1
  <2> QED
    BY <1>1, <1>2, <2>1, <2>2 DEF Pending
<1> QED
  BY <1>3, <1>4

LEMMA PendingStep ==
    ASSUME Types, OneNode, StageInv, PendingInv, [Next]_vars
    PROVE  PendingInv'
<1>1. CASE Ended /\ UNCHANGED <<device, plugs, scans, reader, inbox, printed, crossed>>
  <2>1. uevents' = <<>> /\ found' = {} /\ pc' = "off"
    BY <1>1, EndedFiles
  <2> QED
    BY <2>1 DEF PendingInv, Pending, AddsOnce, AddWaits
<1>2. CASE \E n \in Node : OpenFound(n)
  <2>1. PICK n \in Node : OpenFound(n)
    BY <1>2
  <2>2. CASE OpensNode(n) /\ n \in found /\ found' = found \ {n} /\ pc = "opening"
             /\ UNCHANGED <<device, pc, uevents, crossed>>
    BY <2>2, PendingOpened
  <2> QED
    BY <1>1, <2>1, <2>2, FoundOpens
<1>3. CASE HandleUevent
  <2> SUFFICES ASSUME ~Ended PROVE PendingInv'
    BY <1>1, <1>3, UeventOpens
  <2>1. /\ uevents # <<>> /\ uevents' = Tail(uevents) /\ pc' = "select" /\ found' = found
        /\ UNCHANGED <<device, crossed>> /\ Head(uevents).node \in Node
        /\ \/ Head(uevents) = Added(Head(uevents).node) /\ OpensNode(Head(uevents).node)
           \/ files' = files
    BY <1>3, UeventOpens DEF Added
  <2>2. CASE files' = files
    <3> SUFFICES ASSUME NEW n \in Node, device[n] # 0, device[n] \notin crossed PROVE Pending(n)'
      BY <2>1 DEF PendingInv
    <3>1. Pending(n)
      BY DEF PendingInv
    <3>2. AddsOnce(n)' /\ (AddWaits(n)' => AddWaits(n))
      BY <2>1, <3>1, EventTaken DEF Pending
    <3> QED
      BY <2>1, <2>2, <3>1, <3>2, PendingKept
  <2>3. CASE Head(uevents) = Added(Head(uevents).node) /\ OpensNode(Head(uevents).node)
    BY <2>1, <2>3, PendingOpened
  <2> QED
    BY <2>1, <2>2, <2>3
<1>4. ASSUME UNCHANGED <<device, crossed, uevents>>, found' \subseteq found,
             pc' = "monitored" => pc = "monitored",
             \A f \in Fd : files'[f].device \in {files[f].device, 0}
      PROVE  PendingInv'
  <2> SUFFICES ASSUME NEW n \in Node, device[n] # 0, device[n] \notin crossed PROVE Pending(n)'
    BY <1>4 DEF PendingInv
  <2>1. Pending(n)
    BY DEF PendingInv
  <2>2. AddsOnce(n)' /\ (AddWaits(n)' => AddWaits(n))
    BY <1>4, <2>1 DEF Pending, AddsOnce, AddWaits, Added
  <2> QED
    BY <1>4, <2>1, <2>2, PendingKept
<1>5. CASE \E n \in Node : \E size \in ReportSizes : Scan(n, size)
  <2>1. UNCHANGED <<device, crossed, uevents, found, pc>>
    BY <1>5 DEF Scan
  <2>2. \A f \in Fd : files'[f].device = files[f].device
    BY <1>5, ScanFiles
  <2> QED
    BY <1>4, <2>1, <2>2
<1>6. CASE \E f \in Fd : ReadReport(f) \/ ReadError(f)
  <2>1. UNCHANGED <<device, crossed, uevents, found>> /\ pc' # "monitored"
    BY <1>6 DEF ReadReport, ReadError, GoOnAt, kernelVars, historyVars
  <2>2. \A f \in Fd : files'[f].device \in {files[f].device, 0}
    BY <1>6, ReadReportFiles, ReadErrorFiles DEF NoFile
  <2> QED
    BY <1>4, <2>1, <2>2
<1>7. CASE Receive \/ ReaderStarts \/ ReaderExits
  <2>1. UNCHANGED <<device, crossed, uevents, found, pc, files>>
    BY <1>7 DEF Receive, ReaderStarts, ReaderExits, kernelVars, serviceVars, historyVars
  <2> QED
    BY <1>4, <2>1
<1>8. CASE Passes /\ EnableMonitor
  <2>1. uevents' = <<>> /\ found' = {}
    BY <1>8 DEF StageInv, EnableMonitor
  <2> QED
    BY <2>1 DEF PendingInv, Pending, AddsOnce, AddWaits
<1>9. CASE Passes /\ ScanDevices
  <2> SUFFICES ASSUME NEW n \in Node, device[n] # 0, device[n] \notin crossed PROVE Pending(n)'
    BY <1>9 DEF PendingInv, Passes
  <2>1. Pending(n) /\ pc = "monitored" /\ pc' = "opening" /\ UNCHANGED <<uevents, files, device>>
    BY <1>9 DEF PendingInv, Passes, ScanDevices
  <2>2. AddsOnce(n)' /\ ~AddWaits(n)'
    BY <2>1 DEF Pending, AddsOnce, AddWaits, Added
  <2>3. NoFileOn(n)'
    BY <2>1 DEF NoFileOn, StageInv, Serving
  <2> QED
    BY <2>2, <2>3 DEF Pending
<1>10. CASE /\ Passes
            /\ \/ UNCHANGED <<pc, found, readFds, at>>
               \/ UNCHANGED <<found, readFds, at>> /\ pc' \in {"off", "checked", "named"}
               \/ EnterLoop \/ Select
  <2>1. UNCHANGED <<device, crossed, uevents, files>>
    BY <1>10 DEF Passes
  <2>2. found' = found /\ (pc' = "monitored" => pc = "monitored")
    BY <1>10 DEF EnterLoop, Select
  <2> QED
    BY <1>4, <2>1, <2>2
<1> QED
  BY <1>1, <1>2, <1>3, <1>5, <1>6, <1>7, <1>8, <1>9, <1>10, PendingPlug, PendingUnplug, StepCases

LEMMA SingleStep ==
    ASSUME Types, OneNode, PendingInv, SingleInv, [Next]_vars
    PROVE  SingleInv'
<1>0. crossed \subseteq crossed'
  BY DevicesStay DEF Plug, Unplug, historyVars
<1>1. CASE \A f \in Fd : files'[f].device = files[f].device
  BY <1>0, <1>1 DEF SingleInv
<1>2. CASE Ended
  BY <1>2, EndedFiles DEF SingleInv
<1>3. CASE \E f \in Fd : ReadError(f)
  BY <1>0, <1>3, ReadErrorFiles DEF SingleInv, NoFile
<1>4. CASE \E n \in Node : OpensNode(n) /\ (OpenFound(n) \/ HandleUevent)
  <2> SUFFICES ASSUME ~Ended, ~\A f \in Fd : files'[f].device = files[f].device PROVE SingleInv'
    BY <1>1, <1>2
  <2>1. PICK n \in Node, f \in Fd : (n \in found \/ AddWaits(n)) /\ Opens(f, n)
    <3>1. CASE \E n \in Node : OpenFound(n)
      <4>1. PICK n \in Node : n \in found /\ OpensNode(n)
        BY <3>1, FoundOpens
      <4> QED
        BY <4>1 DEF OpensNode
    <3>2. CASE HandleUevent
      <4>1. /\ Head(uevents) = Added(Head(uevents).node) /\ OpensNode(Head(uevents).node)
            /\ Head(uevents).node \in Node /\ uevents # <<>> /\ uevents' = Tail(uevents)
        BY <3>2, UeventOpens DEF Added
      <4>2. AddWaits(Head(uevents).node)
        BY <4>1, EventTaken
      <4> QED
        BY <4>1, <4>2 DEF OpensNode
    <3> QED
      BY <1>4, <3>1, <3>2
  <2>2. device[n] # 0 /\ device[n] \notin crossed => \A g \in Fd : files[g].device # device[n]
    BY <2>1 DEF PendingInv, Pending, NoFileOn
  <2> QED
    BY <1>0, <2>1, <2>2, OpensFacts DEF SingleInv
<1> QED
  BY <1>1, <1>2, <1>3, <1>4, FileSteps

-----------------------------------------------------------------------------
(* The order of what is printed *)

(* Two codes of one device that counts. *)
Comparable(a, b) == scans[a] = scans[b] /\ scans[a] \notin crossed

InQueue(f, c) == \E k \in 1 .. Len(files[f].queue) : files[f].queue[k].code = c
InInbox(c) == \E k \in 1 .. Len(inbox) : inbox[k] = c
InPrinted(c) == \E k \in 1 .. Len(printed) : printed[k] = c
Sent(c) == InInbox(c) \/ InPrinted(c)

(* A queue holds codes of its file's device, in the order they were scanned. *)
QueueDevice == \A f \in Fd, c \in DOMAIN scans : InQueue(f, c) => scans[c] = files[f].device
QueueInOrder ==
    \A f \in Fd : \A j, k \in 1 .. Len(files[f].queue) :
        j < k => files[f].queue[j].code < files[f].queue[k].code

(* What was sent of a device is older than what its file still holds. *)
SentFirst ==
    \A f \in Fd : \A b, c \in DOMAIN scans : InQueue(f, c) /\ Sent(b) /\ Comparable(b, c) => b < c

(* What was printed of a device is older than what was sent and not printed, *)
(* and both are in order.                                                    *)
InboxInOrder ==
    \A i, j \in 1 .. Len(inbox) : i < j /\ Comparable(inbox[i], inbox[j]) => inbox[i] < inbox[j]
PrintedFirst ==
    \A b, c \in DOMAIN scans : InPrinted(b) /\ InInbox(c) /\ Comparable(b, c) => b < c
InOrder ==
    \A i, j \in 1 .. Len(printed) : i < j /\ Comparable(printed[i], printed[j]) => printed[i] < printed[j]

OrderInv ==
    /\ OneNode /\ FreeIsEmpty /\ StageInv /\ PendingInv /\ SingleInv
    /\ QueueDevice /\ QueueInOrder /\ SentFirst /\ InboxInOrder /\ PrintedFirst /\ InOrder

LEMMA ScansGrow ==
    ASSUME Types, [Next]_vars
    PROVE  /\ Len(scans) \in Nat /\ DOMAIN scans = 1 .. Len(scans)
           /\ \A c \in DOMAIN scans : c \in Nat /\ c \in DOMAIN scans' /\ scans'[c] = scans[c]
           /\ crossed \subseteq crossed'
           /\ (\A n \in Node, size \in ReportSizes : ~Scan(n, size)) => scans' = scans
<1>1. Len(scans) \in Nat /\ DOMAIN scans = 1 .. Len(scans) /\ scans \in Seq(1 .. plugs)
  BY DEF Types
<1>2. crossed \subseteq crossed'
  BY DevicesStay DEF Plug, Unplug, historyVars
<1>3. CASE \E n \in Node, size \in ReportSizes : Scan(n, size)
  <2>1. PICK n \in Node, size \in ReportSizes : Scan(n, size)
    BY <1>3
  <2>2. scans' = Append(scans, device[n]) /\ device[n] \in 1 .. plugs
    BY <2>1 DEF Scan, Present, Types
  <2>3. /\ DOMAIN scans' = 1 .. Len(scans) + 1
        /\ \A c \in 1 .. Len(scans) : scans'[c] = scans[c]
    BY <1>1, <2>2, AppendFacts
  <2>4. \A c \in 1 .. Len(scans) : c \in Nat /\ c \in 1 .. Len(scans) + 1
    BY <1>1
  <2> QED
    BY <1>1, <1>2, <1>3, <2>3, <2>4
<1>4. CASE \A n \in Node, size \in ReportSizes : ~Scan(n, size)
  <2>1. scans' = scans
    <3>1. CASE \E n \in Node : Plug(n) \/ Unplug(n)
      BY <3>1 DEF Plug, Unplug
    <3>2. CASE \E n \in Node : OpenFound(n)
      BY <3>2, FoundOpens
    <3>3. CASE \E f \in Fd : ReadReport(f) \/ ReadError(f)
      BY <3>3 DEF ReadReport, ReadError, kernelVars
    <3>4. CASE Receive \/ ReaderStarts \/ ReaderExits
      BY <3>4 DEF Receive, ReaderStarts, ReaderExits, kernelVars
    <3> QED
      BY <1>4, <3>1, <3>2, <3>3, <3>4, UeventOpens, StepCases DEF Passes
  <2> QED
    BY <1>1, <1>2, <2>1
<1> QED
  BY <1>3, <1>4

LEMMA ComparableKept ==
    ASSUME Types, [Next]_vars, NEW a \in DOMAIN scans, NEW b \in DOMAIN scans, Comparable(a, b)'
    PROVE  Comparable(a, b)
  BY ScansGrow DEF Comparable

LEMMA ScanCode ==
    ASSUME Types, NEW n \in Node, NEW size \in ReportSizes, Scan(n, size)
    PROVE  /\ scans'[Len(scans) + 1] = device[n] /\ DOMAIN scans' = 1 .. Len(scans) + 1
           /\ DOMAIN scans = 1 .. Len(scans) /\ Len(scans) \in Nat
           /\ \A c \in DOMAIN scans : c < Len(scans) + 1
           /\ UNCHANGED <<inbox, printed, reader, crossed>>
<1>1. scans' = Append(scans, device[n]) /\ device[n] \in 1 .. plugs
  BY DEF Scan, Present, Types
<1>2. scans \in Seq(1 .. plugs) /\ Len(scans) \in Nat /\ DOMAIN scans = 1 .. Len(scans)
  BY DEF Types
<1>3. scans'[Len(scans) + 1] = device[n] /\ DOMAIN scans' = 1 .. Len(scans) + 1
  BY <1>1, <1>2, AppendFacts
<1>4. \A c \in DOMAIN scans : c < Len(scans) + 1
  BY <1>2
<1> QED
  BY <1>2, <1>3, <1>4 DEF Scan, readerVars

(* What a step does to a queue. *)
LEMMA QueueSteps ==
    ASSUME Types, [Next]_vars, NEW f \in Fd
    PROVE  \/ files'[f].queue = <<>>
           \/ files'[f].device = files[f].device /\ files'[f].queue = files[f].queue
           \/ \E n \in Node, size \in ReportSizes :
                 /\ Scan(n, size) /\ files[f].device = device[n] /\ files[f].device # 0
                 /\ files'[f].device = files[f].device
                 /\ files'[f].queue = Append(files[f].queue, [code |-> Len(scans) + 1, size |-> size])
           \/ ReadReport(f) /\ files'[f].device = files[f].device /\ files'[f].queue = Tail(files[f].queue)
<1>1. CASE \E n \in Node, size \in ReportSizes : Scan(n, size)
  BY <1>1, ScanFiles
<1>2. CASE Ended
  BY <1>2, EndedFiles
<1>3. CASE \E n \in Node : OpensNode(n)
  BY <1>3, OpensFacts DEF OpensNode
<1>4. CASE \E g \in Fd : ReadReport(g)
  BY <1>4, ReadReportFiles
<1>5. CASE \E g \in Fd : ReadError(g)
  BY <1>5, ReadErrorFiles DEF NoFile
<1>6. CASE files' = files
  BY <1>6
<1>7. CASE \E n \in Node : Plug(n) \/ Unplug(n)
  BY <1>6, <1>7 DEF Plug, Unplug
<1>8. CASE \/ \E n \in Node : OpenFound(n)
           \/ HandleUevent
  BY <1>2, <1>3, <1>6, <1>8, FoundOpens, UeventOpens
<1>9. CASE Receive \/ ReaderStarts \/ ReaderExits
  BY <1>6, <1>9 DEF Receive, ReaderStarts, ReaderExits, serviceVars
<1> QED
  BY <1>1, <1>2, <1>4, <1>5, <1>6, <1>7, <1>8, <1>9, StepCases DEF Passes

(* The codes of a queue, and those of a report appended or read. *)
LEMMA QueueCodes ==
    ASSUME Types, NEW f \in Fd
    PROVE  \A k \in 1 .. Len(files[f].queue) :
              files[f].queue[k].code \in DOMAIN scans /\ files[f].queue[k].size \in ReportSizes
<1>1. \A k \in 1 .. Len(files[f].queue) : files[f].queue[k] \in Report(DOMAIN scans)
  BY QueueFacts
<1> QED
  BY <1>1 DEF Report

LEMMA AppendedQueue ==
    ASSUME Types, NEW f \in Fd, NEW size \in ReportSizes, NEW c,
           files'[f].queue = Append(files[f].queue, [code |-> c, size |-> size])
    PROVE  /\ Len(files'[f].queue) = Len(files[f].queue) + 1 /\ Len(files[f].queue) \in Nat
           /\ files'[f].queue[Len(files[f].queue) + 1].code = c
           /\ \A k \in 1 .. Len(files[f].queue) : files'[f].queue[k] = files[f].queue[k]
<1>1. /\ files[f].queue \in Seq(Report(DOMAIN scans \union {c}))
      /\ [code |-> c, size |-> size] \in Report(DOMAIN scans \union {c})
  <2>1. Report(DOMAIN scans) \subseteq Report(DOMAIN scans \union {c})
    BY DEF Report
  <2>2. files[f].queue \in Seq(Report(DOMAIN scans))
    BY QueueFacts
  <2>3. [code |-> c, size |-> size] \in Report(DOMAIN scans \union {c})
    BY DEF Report
  <2> QED
    BY <2>1, <2>2, <2>3, SeqOfMore
<1>2. /\ Len(files'[f].queue) = Len(files[f].queue) + 1 /\ Len(files[f].queue) \in Nat
      /\ files'[f].queue[Len(files[f].queue) + 1] = [code |-> c, size |-> size]
      /\ \A k \in 1 .. Len(files[f].queue) : files'[f].queue[k] = files[f].queue[k]
  BY <1>1, AppendFacts
<1> QED
  BY <1>2

LEMMA ReadQueue ==
    ASSUME Types, NEW f \in Fd, ReadReport(f)
    PROVE  /\ Len(files[f].queue) \in Nat /\ Len(files[f].queue) >= 1
           /\ Len(files'[f].queue) = Len(files[f].queue) - 1
           /\ \A k \in 1 .. Len(files'[f].queue) : files'[f].queue[k] = files[f].queue[k + 1]
           /\ Head(files[f].queue) = files[f].queue[1] /\ 1 \in 1 .. Len(files[f].queue)
           /\ files[f].queue[1].code \in DOMAIN scans /\ InQueue(f, files[f].queue[1].code)
           /\ inbox' = IF reader THEN Append(inbox, files[f].queue[1].code) ELSE inbox
           /\ UNCHANGED <<scans, crossed, printed, device, reader>>
<1>1. files[f].queue \in Seq(Report(DOMAIN scans)) /\ files[f].queue # <<>>
  BY QueueFacts DEF ReadReport
<1>2. files'[f].queue = Tail(files[f].queue)
  BY ReadReportFiles
<1>3. /\ Len(files[f].queue) \in Nat /\ Len(files[f].queue) >= 1
      /\ Len(files'[f].queue) = Len(files[f].queue) - 1
      /\ \A k \in 1 .. Len(files'[f].queue) : files'[f].queue[k] = files[f].queue[k + 1]
      /\ Head(files[f].queue) = files[f].queue[1]
  BY <1>1, <1>2, TailFacts
<1>4. 1 \in 1 .. Len(files[f].queue)
  BY <1>3
<1>5. UNCHANGED <<scans, crossed, printed, device, reader>>
  BY DEF ReadReport, kernelVars, historyVars
<1>6. inbox' = IF reader THEN Append(inbox, files[f].queue[1].code) ELSE inbox
  BY <1>3 DEF ReadReport, Send
<1> QED
  BY <1>3, <1>4, <1>5, <1>6, QueueCodes DEF InQueue

(* A code in a queue was there, or is the one scanned now. *)
LEMMA QueueCodeSteps ==
    ASSUME Types, [Next]_vars, NEW f \in Fd, NEW c, InQueue(f, c)'
    PROVE  /\ files'[f].device = files[f].device
           /\ \/ InQueue(f, c)
              \/ \E n \in Node, size \in ReportSizes :
                    Scan(n, size) /\ files[f].device = device[n] /\ c = Len(scans) + 1
<1>1. PICK k \in 1 .. Len(files'[f].queue) : files'[f].queue[k].code = c
  BY DEF InQueue
<1>2. files'[f].queue # <<>>
  BY <1>1
<1>3. CASE files'[f].device = files[f].device /\ files'[f].queue = files[f].queue
  BY <1>1, <1>3 DEF InQueue
<1>4. CASE \E n \in Node, size \in ReportSizes :
              /\ Scan(n, size) /\ files[f].device = device[n] /\ files[f].device # 0
              /\ files'[f].device = files[f].device
              /\ files'[f].queue = Append(files[f].queue, [code |-> Len(scans) + 1, size |-> size])
  <2>1. PICK n \in Node, size \in ReportSizes :
              /\ Scan(n, size) /\ files[f].device = device[n] /\ files[f].device # 0
              /\ files'[f].device = files[f].device
              /\ files'[f].queue = Append(files[f].queue, [code |-> Len(scans) + 1, size |-> size])
    BY <1>4
  <2>2. k \in 1 .. Len(files[f].queue) \/ c = Len(scans) + 1
    BY <1>1, <2>1, AppendedQueue
  <2>3. k \in 1 .. Len(files[f].queue) => InQueue(f, c)
    BY <1>1, <2>1, AppendedQueue DEF InQueue
  <2> QED
    BY <2>1, <2>2, <2>3
<1>5. CASE ReadReport(f) /\ files'[f].device = files[f].device
  <2>1. k + 1 \in 1 .. Len(files[f].queue) /\ files[f].queue[k + 1].code = c
    BY <1>1, <1>5, ReadQueue
  <2> QED
    BY <1>5, <2>1 DEF InQueue
<1> QED
  BY <1>2, <1>3, <1>4, <1>5, QueueSteps

LEMMA QueueDeviceStep == ASSUME Types, QueueDevice, [Next]_vars PROVE QueueDevice'
<1> SUFFICES ASSUME NEW f \in Fd, NEW c \in DOMAIN scans', InQueue(f, c)'
             PROVE  scans'[c] = files'[f].device
  BY DEF QueueDevice
<1>1. CASE InQueue(f, c)
  <2>1. c \in DOMAIN scans
    BY <1>1, QueueCodes DEF InQueue
  <2> QED
    BY <1>1, <2>1, QueueCodeSteps, ScansGrow DEF QueueDevice
<1>2. CASE \E n \in Node, size \in ReportSizes :
              Scan(n, size) /\ files[f].device = device[n] /\ c = Len(scans) + 1
  BY <1>2, QueueCodeSteps, ScanCode
<1> QED
  BY <1>1, <1>2, QueueCodeSteps

LEMMA QueueOrderStep == ASSUME Types, QueueInOrder, [Next]_vars PROVE QueueInOrder'
<1> SUFFICES ASSUME NEW f \in Fd, NEW j \in 1 .. Len(files'[f].queue), NEW k \in 1 .. Len(files'[f].queue),
                    j < k
             PROVE  files'[f].queue[j].code < files'[f].queue[k].code
  BY DEF QueueInOrder
<1>1. files'[f].queue # <<>>
  OBVIOUS
<1>2. CASE files'[f].queue = files[f].queue
  BY <1>2 DEF QueueInOrder
<1>3. CASE \E n \in Node, size \in ReportSizes :
              /\ Scan(n, size)
              /\ files'[f].queue = Append(files[f].queue, [code |-> Len(scans) + 1, size |-> size])
  <2>1. PICK n \in Node, size \in ReportSizes :
              /\ Scan(n, size)
              /\ files'[f].queue = Append(files[f].queue, [code |-> Len(scans) + 1, size |-> size])
    BY <1>3
  <2> DEFINE l == Len(files[f].queue)
  <2>2. l \in Nat /\ Len(files'[f].queue) = l + 1 /\ files'[f].queue[l + 1].code = Len(scans) + 1
        /\ \A i \in 1 .. l : files'[f].queue[i] = files[f].queue[i]
    BY <2>1, AppendedQueue
  <2> HIDE DEF l
  <2>3. j \in 1 .. l /\ (k \in 1 .. l \/ k = l + 1)
    BY <2>2
  <2>4. CASE k \in 1 .. l
    BY <2>2, <2>3, <2>4 DEF QueueInOrder, l
  <2>5. CASE k = l + 1
    <3>1. files[f].queue[j].code \in DOMAIN scans
      BY <2>3, QueueCodes DEF l
    <3> QED
      BY <2>1, <2>2, <2>3, <2>5, <3>1, ScanCode
  <2> QED
    BY <2>3, <2>4, <2>5
<1>4. CASE ReadReport(f)
  <2>1. /\ j + 1 \in 1 .. Len(files[f].queue) /\ k + 1 \in 1 .. Len(files[f].queue) /\ j + 1 < k + 1
        /\ files'[f].queue[j] = files[f].queue[j + 1] /\ files'[f].queue[k] = files[f].queue[k + 1]
    BY <1>4, ReadQueue
  <2> QED
    BY <2>1 DEF QueueInOrder
<1> QED
  BY <1>1, <1>2, <1>3, <1>4, QueueSteps

(* What a step does to what was sent and printed. *)
SendsHead(f) ==
    /\ ReadReport(f) /\ reader
    /\ inbox' = Append(inbox, files[f].queue[1].code) /\ printed' = printed
    /\ UNCHANGED <<scans, crossed>>

Receives ==
    /\ inbox # <<>> /\ inbox' = Tail(inbox) /\ printed' = Append(printed, Head(inbox))
    /\ UNCHANGED <<scans, crossed, files>>

LEMMA SentSteps ==
    ASSUME Types, [Next]_vars
    PROVE  \/ UNCHANGED <<inbox, printed, reader>>
           \/ \E f \in Fd : SendsHead(f) /\ reader' = reader
           \/ Receives /\ reader' = reader
           \/ ~reader /\ printed' = <<>> /\ inbox' = inbox /\ owed' = owed
           \/ printed' = <<>> /\ inbox' = <<>> /\ owed' = {}
<1>1. CASE \E n \in Node : Plug(n) \/ Unplug(n) \/ (\E size \in ReportSizes : Scan(n, size))
  BY <1>1 DEF Plug, Unplug, Scan, readerVars
<1>2. CASE \E n \in Node : OpenFound(n)
  BY <1>2, FoundOpens
<1>3. CASE \E f \in Fd : ReadReport(f)
  BY <1>3, ReadQueue DEF SendsHead
<1>4. CASE \E f \in Fd : ReadError(f)
  BY <1>4 DEF ReadError, readerVars
<1>5. CASE Receive
  BY <1>5 DEF Receive, Receives, kernelVars, serviceVars, historyVars
<1>6. CASE ReaderStarts
  BY <1>6 DEF ReaderStarts, kernelVars, serviceVars, historyVars
<1>7. CASE ReaderExits
  BY <1>7 DEF ReaderExits
<1> QED
  BY <1>1, <1>2, <1>3, <1>4, <1>5, <1>6, <1>7, UeventOpens, StepCases DEF Passes

LEMMA InboxesAre ==
    ASSUME Types
    PROVE  /\ Len(inbox) \in Nat /\ Len(printed) \in Nat
           /\ inbox \in Seq(DOMAIN scans) /\ printed \in Seq(DOMAIN scans)
           /\ \A k \in 1 .. Len(inbox) : inbox[k] \in DOMAIN scans
           /\ \A k \in 1 .. Len(printed) : printed[k] \in DOMAIN scans
  BY DEF Types

LEMMA SentAppends ==
    ASSUME Types, NEW f \in Fd, SendsHead(f)
    PROVE  /\ Len(inbox') = Len(inbox) + 1 /\ inbox'[Len(inbox) + 1] = files[f].queue[1].code
           /\ \A k \in 1 .. Len(inbox) : inbox'[k] = inbox[k]
  BY InboxesAre, ReadQueue, AppendFacts DEF SendsHead

LEMMA ReceivedMoves ==
    ASSUME Types, Receives
    PROVE  /\ Len(inbox) >= 1 /\ Len(inbox') = Len(inbox) - 1 /\ 1 \in 1 .. Len(inbox)
           /\ \A k \in 1 .. Len(inbox') : inbox'[k] = inbox[k + 1]
           /\ Len(printed') = Len(printed) + 1 /\ printed'[Len(printed) + 1] = inbox[1]
           /\ \A k \in 1 .. Len(printed) : printed'[k] = printed[k]
<1>1. /\ inbox \in Seq(DOMAIN scans) /\ printed \in Seq(DOMAIN scans) /\ inbox # <<>>
      /\ inbox' = Tail(inbox) /\ printed' = Append(printed, Head(inbox))
  BY InboxesAre DEF Receives
<1>2. /\ Len(inbox) \in Nat /\ Len(inbox) >= 1 /\ Len(inbox') = Len(inbox) - 1
      /\ \A k \in 1 .. Len(inbox') : inbox'[k] = inbox[k + 1]
      /\ Head(inbox) = inbox[1] /\ Head(inbox) \in DOMAIN scans
  BY <1>1, TailFacts
<1>3. /\ Len(printed') = Len(printed) + 1 /\ printed'[Len(printed) + 1] = inbox[1]
      /\ \A k \in 1 .. Len(printed) : printed'[k] = printed[k]
  BY <1>1, <1>2, AppendFacts
<1> QED
  BY <1>2, <1>3

(* Where a code that is in the inbox or printed after a step was before it. *)
LEMMA InboxSteps ==
    ASSUME Types, [Next]_vars, NEW c, InInbox(c)'
    PROVE  InInbox(c) \/ \E f \in Fd : SendsHead(f) /\ c = files[f].queue[1].code
<1>1. PICK k \in 1 .. Len(inbox') : inbox'[k] = c
  BY DEF InInbox
<1>2. CASE inbox' = inbox
  BY <1>2 DEF InInbox
<1>3. CASE inbox' = <<>>
  BY <1>1, <1>3
<1>4. ASSUME NEW f \in Fd, SendsHead(f) PROVE InInbox(c) \/ c = files[f].queue[1].code
  <2>1. k \in 1 .. Len(inbox) \/ k = Len(inbox) + 1
    BY <1>4, SentAppends, InboxesAre
  <2> QED
    BY <1>1, <1>4, <2>1, SentAppends DEF InInbox
<1>5. CASE Receives
  <2>1. k + 1 \in 1 .. Len(inbox) /\ inbox[k + 1] = c
    BY <1>1, <1>5, ReceivedMoves, InboxesAre
  <2> QED
    BY <2>1 DEF InInbox
<1> QED
  BY <1>2, <1>3, <1>4, <1>5, SentSteps

LEMMA PrintedSteps ==
    ASSUME Types, [Next]_vars, NEW c, InPrinted(c)'
    PROVE  InPrinted(c) \/ (Receives /\ c = inbox[1] /\ InInbox(c))
<1>1. PICK k \in 1 .. Len(printed') : printed'[k] = c
  BY DEF InPrinted
<1>2. CASE printed' = printed
  BY <1>2 DEF InPrinted
<1>3. CASE printed' = <<>>
  BY <1>1, <1>3
<1>4. CASE Receives
  <2>1. k \in 1 .. Len(printed) \/ k = Len(printed) + 1
    BY <1>4, ReceivedMoves, InboxesAre
  <2> QED
    BY <1>1, <1>4, <2>1, ReceivedMoves DEF InPrinted, InInbox
<1> QED
  BY <1>2, <1>3, <1>4, SentSteps DEF SendsHead

LEMMA SentCodes ==
    ASSUME Types, NEW c, Sent(c)
    PROVE  c \in DOMAIN scans
  BY InboxesAre DEF Sent, InInbox, InPrinted

LEMMA SentFirstStep ==
    ASSUME Types, FreeIsEmpty, SingleInv, QueueDevice, QueueInOrder, SentFirst, [Next]_vars
    PROVE  SentFirst'
<1> SUFFICES ASSUME NEW f \in Fd, NEW b \in DOMAIN scans', NEW c \in DOMAIN scans',
                    InQueue(f, c)', Sent(b)', Comparable(b, c)'
             PROVE  b < c
  BY DEF SentFirst
<1>1. Sent(b) \/ \E g \in Fd : SendsHead(g) /\ b = files[g].queue[1].code
  BY InboxSteps, PrintedSteps DEF Sent
<1>2. b \in DOMAIN scans
  BY <1>1, SentCodes, ReadQueue DEF SendsHead
<1>3. CASE ~InQueue(f, c)
  <2>1. c = Len(scans) + 1 /\ \A a \in DOMAIN scans : a < Len(scans) + 1
    BY <1>3, QueueCodeSteps, ScanCode
  <2> QED
    BY <1>2, <2>1
<1>4. CASE InQueue(f, c) /\ Sent(b)
  <2>1. c \in DOMAIN scans
    BY <1>4, QueueCodes DEF InQueue
  <2> QED
    BY <1>2, <1>4, <2>1, ComparableKept DEF SentFirst
<1>5. ASSUME InQueue(f, c), NEW g \in Fd, SendsHead(g), b = files[g].queue[1].code PROVE b < c
  <2>0. ReadReport(g)
    BY <1>5 DEF SendsHead
  <2>1. c \in DOMAIN scans /\ Comparable(b, c) /\ InQueue(g, b)
    <3>1. c \in DOMAIN scans
      BY <1>5, QueueCodes DEF InQueue
    <3> QED
      BY <1>2, <1>5, <2>0, <3>1, ComparableKept, ReadQueue
  <2>2. scans[c] = files[f].device /\ scans[b] = files[g].device
    BY <1>2, <1>5, <2>1 DEF QueueDevice
  <2>3. files[f].device # 0
    <3>1. files[f].queue # <<>>
      BY <1>5 DEF InQueue
    <3> QED
      BY <3>1 DEF FreeIsEmpty
  <2>4. f = g
    BY <2>1, <2>2, <2>3 DEF SingleInv, Comparable
  <2>5. PICK k \in 1 .. Len(files'[f].queue) : files'[f].queue[k].code = c
    BY DEF InQueue
  <2>6. k + 1 \in 1 .. Len(files[g].queue) /\ 1 < k + 1 /\ files[g].queue[k + 1].code = c
        /\ 1 \in 1 .. Len(files[g].queue)
    BY <2>0, <2>4, <2>5, ReadQueue
  <2> QED
    BY <1>5, <2>6 DEF QueueInOrder
<1> QED
  BY <1>1, <1>3, <1>4, <1>5

LEMMA InboxOrderStep ==
    ASSUME Types, SentFirst, InboxInOrder, [Next]_vars
    PROVE  InboxInOrder'
<1> SUFFICES ASSUME NEW i \in 1 .. Len(inbox'), NEW j \in 1 .. Len(inbox'), i < j,
                    Comparable(inbox[i], inbox[j])'
             PROVE  inbox'[i] < inbox'[j]
  BY DEF InboxInOrder
<1>1. CASE inbox' = inbox
  <2>1. inbox[i] \in DOMAIN scans /\ inbox[j] \in DOMAIN scans
    BY <1>1, InboxesAre
  <2>2. PICK a \in DOMAIN scans, b \in DOMAIN scans : a = inbox[i] /\ b = inbox[j]
    BY <2>1
  <2>3. Comparable(a, b)'
    BY <1>1, <2>2 DEF Comparable
  <2>4. Comparable(inbox[i], inbox[j])
    BY <2>2, <2>3, ComparableKept
  <2> QED
    BY <1>1, <2>4 DEF InboxInOrder
<1>2. CASE inbox' = <<>>
  BY <1>2
<1>3. ASSUME NEW f \in Fd, SendsHead(f) PROVE inbox'[i] < inbox'[j]
  <2>1. i \in 1 .. Len(inbox) /\ (j \in 1 .. Len(inbox) \/ j = Len(inbox) + 1) /\ Len(inbox) \in Nat
    BY <1>3, SentAppends, InboxesAre
  <2>2. inbox'[i] = inbox[i] /\ scans[inbox[i]] = scans[inbox'[j]] /\ scans[inbox[i]] \notin crossed
    BY <1>3, <2>1, SentAppends DEF Comparable, SendsHead
  <2>3. CASE j \in 1 .. Len(inbox)
    BY <1>3, <2>1, <2>2, <2>3, SentAppends DEF InboxInOrder, Comparable
  <2>4. CASE j = Len(inbox) + 1
    <3>1. inbox'[j] = files[f].queue[1].code /\ InQueue(f, inbox'[j]) /\ inbox'[j] \in DOMAIN scans
      BY <1>3, <2>4, SentAppends, ReadQueue DEF SendsHead
    <3>2. Sent(inbox[i]) /\ inbox[i] \in DOMAIN scans
      BY <2>1, InboxesAre DEF Sent, InInbox
    <3> QED
      BY <2>2, <3>1, <3>2 DEF SentFirst, Comparable
  <2> QED
    BY <2>1, <2>3, <2>4
<1>4. CASE Receives
  <2>1. /\ i + 1 \in 1 .. Len(inbox) /\ j + 1 \in 1 .. Len(inbox) /\ i + 1 < j + 1
        /\ inbox'[i] = inbox[i + 1] /\ inbox'[j] = inbox[j + 1]
    BY <1>4, ReceivedMoves, InboxesAre
  <2>2. Comparable(inbox[i + 1], inbox[j + 1])
    BY <1>4, <2>1 DEF Comparable, Receives
  <2> QED
    BY <2>1, <2>2 DEF InboxInOrder
<1> QED
  BY <1>1, <1>2, <1>3, <1>4, SentSteps

LEMMA PrintedFirstStep ==
    ASSUME Types, SentFirst, InboxInOrder, PrintedFirst, [Next]_vars
    PROVE  PrintedFirst'
<1> SUFFICES ASSUME NEW b \in DOMAIN scans', NEW c \in DOMAIN scans',
                    InPrinted(b)', InInbox(c)', Comparable(b, c)'
             PROVE  b < c
  BY DEF PrintedFirst
<1>1. b \in DOMAIN scans /\ Sent(b)
  BY PrintedSteps, SentCodes DEF Sent
<1>2. CASE Receives
  <2>1. PICK k \in 1 .. Len(inbox') : inbox'[k] = c
    BY DEF InInbox
  <2>2. k + 1 \in 1 .. Len(inbox) /\ inbox[k + 1] = c /\ 1 \in 1 .. Len(inbox) /\ 1 < k + 1
    BY <1>2, <2>1, ReceivedMoves, InboxesAre
  <2>3. Comparable(b, c) /\ InInbox(c) /\ c \in DOMAIN scans
    BY <1>2, <2>2, InboxesAre DEF Comparable, Receives, InInbox
  <2>4. CASE InPrinted(b)
    BY <1>1, <2>3, <2>4 DEF PrintedFirst
  <2>5. CASE b = inbox[1]
    BY <2>2, <2>3, <2>5 DEF InboxInOrder
  <2> QED
    BY <2>4, <2>5, PrintedSteps
<1>3. CASE ~Receives
  <2>1. InPrinted(b)
    BY <1>3, PrintedSteps
  <2>2. CASE InInbox(c)
    <3>1. c \in DOMAIN scans
      BY <2>2, SentCodes DEF Sent
    <3> QED
      BY <1>1, <2>1, <2>2, <3>1, ComparableKept DEF PrintedFirst
  <2>3. CASE \E f \in Fd : SendsHead(f) /\ c = files[f].queue[1].code
    <3>1. PICK f \in Fd : SendsHead(f) /\ c = files[f].queue[1].code
      BY <2>3
    <3>2. InQueue(f, c) /\ c \in DOMAIN scans
      BY <3>1, ReadQueue DEF SendsHead
    <3> QED
      BY <1>1, <3>2, ComparableKept DEF SentFirst
  <2> QED
    BY <2>2, <2>3, InboxSteps
<1> QED
  BY <1>2, <1>3

LEMMA InOrderStep ==
    ASSUME Types, PrintedFirst, InOrder, [Next]_vars
    PROVE  InOrder'
<1> SUFFICES ASSUME NEW i \in 1 .. Len(printed'), NEW j \in 1 .. Len(printed'), i < j,
                    Comparable(printed[i], printed[j])'
             PROVE  printed'[i] < printed'[j]
  BY DEF InOrder
<1>1. CASE printed' = printed
  <2>1. printed[i] \in DOMAIN scans /\ printed[j] \in DOMAIN scans
    BY <1>1, InboxesAre
  <2>2. PICK a \in DOMAIN scans, b \in DOMAIN scans : a = printed[i] /\ b = printed[j]
    BY <2>1
  <2>3. Comparable(a, b)'
    BY <1>1, <2>2 DEF Comparable
  <2>4. Comparable(printed[i], printed[j])
    BY <2>2, <2>3, ComparableKept
  <2> QED
    BY <1>1, <2>4 DEF InOrder
<1>2. CASE printed' = <<>>
  BY <1>2
<1>3. CASE Receives
  <2>0. Len(printed') = Len(printed) + 1 /\ Len(printed) \in Nat
    BY <1>3, ReceivedMoves, InboxesAre
  <2>1. /\ i \in 1 .. Len(printed) /\ (j \in 1 .. Len(printed) \/ j = Len(printed) + 1)
        /\ printed'[i] = printed[i]
    <3>1. i \in 1 .. Len(printed) /\ (j \in 1 .. Len(printed) \/ j = Len(printed) + 1)
      BY <2>0
    <3> QED
      BY <1>3, <3>1, ReceivedMoves
  <2>2. scans[printed[i]] = scans[printed'[j]] /\ scans[printed[i]] \notin crossed
    BY <1>3, <2>1 DEF Comparable, Receives
  <2>3. CASE j \in 1 .. Len(printed)
    BY <1>3, <2>1, <2>2, <2>3, ReceivedMoves DEF InOrder, Comparable
  <2>4. CASE j = Len(printed) + 1
    <3>1. printed'[j] = inbox[1] /\ InInbox(inbox[1]) /\ inbox[1] \in DOMAIN scans
      BY <1>3, <2>4, ReceivedMoves, InboxesAre DEF InInbox
    <3>2. InPrinted(printed[i]) /\ printed[i] \in DOMAIN scans
      BY <2>1, InboxesAre DEF InPrinted
    <3> QED
      BY <2>1, <2>2, <3>1, <3>2 DEF PrintedFirst, Comparable
  <2> QED
    BY <2>1, <2>3, <2>4
<1> QED
  BY <1>1, <1>2, <1>3, SentSteps DEF SendsHead

LEMMA OrderInit == Init => OrderInv
<1> SUFFICES ASSUME Init PROVE OrderInv
  OBVIOUS
<1>1. \A f \in Fd : files[f].device = 0 /\ files[f].queue = <<>>
  BY DEF Init, NoFile
<1>2. OneNode /\ FreeIsEmpty /\ StageInv /\ PendingInv /\ SingleInv
  BY <1>1 DEF Init, OneNode, FreeIsEmpty, StageInv, PendingInv, SingleInv
<1>3. QueueDevice /\ QueueInOrder /\ SentFirst
  BY <1>1 DEF QueueDevice, QueueInOrder, SentFirst, InQueue
<1>4. InboxInOrder /\ PrintedFirst /\ InOrder
  BY DEF Init, InboxInOrder, PrintedFirst, InOrder, InPrinted
<1> QED
  BY <1>2, <1>3, <1>4 DEF OrderInv

LEMMA OrderStep == ASSUME Types, OrderInv, [Next]_vars PROVE OrderInv'
<1>1. OneNode' /\ FreeIsEmpty' /\ StageInv'
  BY OneNodeStep, FreeIsEmptyStep, StageStep DEF OrderInv
<1>2. PendingInv' /\ SingleInv'
  BY PendingStep, SingleStep DEF OrderInv
<1>3. QueueDevice' /\ QueueInOrder' /\ SentFirst'
  BY QueueDeviceStep, QueueOrderStep, SentFirstStep DEF OrderInv
<1>4. InboxInOrder' /\ PrintedFirst' /\ InOrder'
  BY InboxOrderStep, PrintedFirstStep, InOrderStep DEF OrderInv
<1> QED
  BY <1>1, <1>2, <1>3, <1>4 DEF OrderInv

(* Codes of one device are printed in the order they were scanned, each once, *)
(* but for a device plugged in while its node was about to be opened anyway:   *)
(* the service opens any other device once, its file hands out its reports     *)
(* first in first out, and bus and reader keep their order.                   *)
THEOREM PrintedAlwaysInOrder == Spec => []PrintedInOrder
<1>1. Types /\ OrderInv => PrintedInOrder
  <2>1. ASSUME Types, InOrder PROVE PrintedInOrder
    <3>1. DOMAIN printed = 1 .. Len(printed)
      BY <2>1 DEF Types
    <3> QED
      BY <2>1, <3>1 DEF InOrder, PrintedInOrder, Comparable
  <2> QED
    BY <2>1 DEF OrderInv
<1> QED
  BY <1>1, TypeInit, TypeStep, OrderInit, OrderStep, PTL DEF Spec

-----------------------------------------------------------------------------
(* Codes owed to the reader *)

(* A code scanned with an open scanner while the reader ran is printed, on its *)
(* way, or in the queue of an open file; the reader has run ever since.        *)
NoCodeLost ==
    \A c \in owed : reader /\ (InPrinted(c) \/ InInbox(c) \/ \E f \in Fd : InQueue(f, c))

LEMMA OwedSteps ==
    ASSUME Types, [Next]_vars
    PROVE  \/ owed' = {}
           \/ owed' = owed
           \/ \E n \in Node, size \in ReportSizes : Scan(n, size)
<1>1. CASE \E n \in Node : Plug(n) \/ Unplug(n)
  BY <1>1 DEF Plug, Unplug, historyVars
<1>2. CASE \E n \in Node : OpenFound(n)
  BY <1>2, FoundOpens, EndedFiles
<1>3. CASE HandleUevent
  BY <1>3, UeventOpens, EndedFiles
<1>4. CASE \E f \in Fd : ReadReport(f) \/ ReadError(f)
  BY <1>4 DEF ReadReport, ReadError, historyVars
<1>5. CASE Receive \/ ReaderStarts \/ ReaderExits
  BY <1>5 DEF Receive, ReaderStarts, ReaderExits, historyVars
<1> QED
  BY <1>1, <1>2, <1>3, <1>4, <1>5, EndedFiles, StepCases DEF Passes

(* A code leaves a queue when it is read, or with the service. *)
LEMMA QueueKept ==
    ASSUME Types, [Next]_vars, ~Ended, NEW f \in Fd, NEW c, InQueue(f, c)
    PROVE  InQueue(f, c)' \/ (ReadReport(f) /\ c = files[f].queue[1].code)
<1>1. PICK k \in 1 .. Len(files[f].queue) : files[f].queue[k].code = c
  BY DEF InQueue
<1>2. files[f].queue # <<>> /\ Len(files[f].queue) \in Nat
  BY <1>1, QueueFacts
<1>3. CASE files'[f].queue = files[f].queue
  BY <1>1, <1>3 DEF InQueue
<1>4. CASE \E n \in Node, size \in ReportSizes :
              files'[f].queue = Append(files[f].queue, [code |-> Len(scans) + 1, size |-> size])
  <2>1. /\ Len(files'[f].queue) = Len(files[f].queue) + 1
        /\ \A i \in 1 .. Len(files[f].queue) : files'[f].queue[i] = files[f].queue[i]
    BY <1>4, AppendedQueue
  <2>2. k \in 1 .. Len(files'[f].queue) /\ files'[f].queue[k].code = c
    BY <1>1, <1>2, <2>1
  <2> QED
    BY <2>2 DEF InQueue
<1>5. CASE ReadReport(f)
  <2>1. CASE k = 1
    BY <1>1, <1>5, <2>1
  <2>2. CASE k # 1
    <3>1. k - 1 \in 1 .. Len(files'[f].queue) /\ (k - 1) + 1 = k
      BY <1>1, <1>2, <1>5, <2>2, ReadQueue
    <3>2. files'[f].queue[k - 1].code = c
      BY <1>1, <1>5, <3>1, ReadQueue
    <3> QED
      BY <3>1, <3>2 DEF InQueue
  <2> QED
    BY <2>1, <2>2
<1>6. CASE \E n \in Node : OpensNode(n)
  <2>1. CASE \E n \in Node : Opens(f, n)
    BY <1>2, <2>1 DEF Opens, NoFile
  <2> QED
    BY <1>3, <1>6, <2>1, OpensFacts DEF OpensNode
<1>7. CASE \E g \in Fd : ReadError(g)
  <2>1. CASE ReadError(f)
    BY <1>2, <2>1 DEF ReadError
  <2> QED
    BY <1>3, <1>7, <2>1, ReadErrorFiles
<1>8. CASE \E n \in Node : OpenFound(n)
  BY <1>6, <1>8, FoundOpens
<1>9. CASE HandleUevent
  BY <1>3, <1>6, <1>9, UeventOpens
<1>10. CASE \E n \in Node, size \in ReportSizes : Scan(n, size)
  BY <1>3, <1>4, <1>10, ScanFiles
<1>11. CASE files' = files
  BY <1>3, <1>11
<1>12. CASE \E n \in Node : Plug(n) \/ Unplug(n)
  BY <1>11, <1>12 DEF Plug, Unplug
<1>13. CASE \E g \in Fd : ReadReport(g)
  BY <1>3, <1>5, <1>13, ReadReportFiles
<1>14. CASE Receive \/ ReaderStarts \/ ReaderExits
  BY <1>11, <1>14 DEF Receive, ReaderStarts, ReaderExits, serviceVars
<1> QED
  BY <1>7, <1>8, <1>9, <1>10, <1>11, <1>12, <1>13, <1>14, StepCases DEF Passes

(* What was sent stays sent until the reader's next run. *)
LEMMA SentKept ==
    ASSUME Types, NEW c, Sent(c),
           \/ UNCHANGED <<inbox, printed>>
           \/ \E f \in Fd : SendsHead(f)
           \/ Receives
    PROVE  Sent(c)'
<1>1. CASE UNCHANGED <<inbox, printed>>
  BY <1>1 DEF Sent, InInbox, InPrinted
<1>2. ASSUME NEW f \in Fd, SendsHead(f) PROVE Sent(c)'
  <2>1. /\ printed' = printed /\ Len(inbox') = Len(inbox) + 1 /\ Len(inbox) \in Nat
        /\ \A k \in 1 .. Len(inbox) : inbox'[k] = inbox[k] /\ k \in 1 .. Len(inbox')
    BY <1>2, SentAppends, InboxesAre DEF SendsHead
  <2> QED
    BY <2>1 DEF Sent, InInbox, InPrinted
<1>3. CASE Receives
  <2>1. /\ Len(printed') = Len(printed) + 1 /\ printed'[Len(printed) + 1] = inbox[1]
        /\ Len(printed) \in Nat /\ Len(printed) + 1 \in 1 .. Len(printed')
        /\ \A k \in 1 .. Len(printed) : printed'[k] = printed[k] /\ k \in 1 .. Len(printed')
    BY <1>3, ReceivedMoves, InboxesAre
  <2>2. CASE InPrinted(c)
    BY <2>1, <2>2 DEF Sent, InPrinted
  <2>3. CASE InInbox(c)
    <3>1. PICK k \in 1 .. Len(inbox) : inbox[k] = c
      BY <2>3 DEF InInbox
    <3>2. CASE k = 1
      BY <2>1, <3>1, <3>2 DEF Sent, InPrinted
    <3>3. CASE k # 1
      <4>1. k - 1 \in 1 .. Len(inbox') /\ (k - 1) + 1 = k
        BY <1>3, <3>1, <3>3, ReceivedMoves, InboxesAre
      <4>2. inbox'[k - 1] = c
        BY <1>3, <3>1, <4>1, ReceivedMoves
      <4> QED
        BY <4>1, <4>2 DEF Sent, InInbox
    <3> QED
      BY <3>2, <3>3
  <2> QED
    BY <2>2, <2>3 DEF Sent
<1> QED
  BY <1>1, <1>2, <1>3

LEMMA NoCodeLostStep == ASSUME Types, NoCodeLost, [Next]_vars PROVE NoCodeLost'
<1> SUFFICES ASSUME NEW c \in owed' PROVE reader' /\ (Sent(c)' \/ \E f \in Fd : InQueue(f, c)')
  BY DEF NoCodeLost, Sent
<1>0. ~Ended
  BY EndedFiles
<1>1. CASE c \in owed
  <2>1. reader /\ (Sent(c) \/ \E f \in Fd : InQueue(f, c))
    BY <1>1 DEF NoCodeLost, Sent
  <2>2. /\ reader' = reader
        /\ UNCHANGED <<inbox, printed>> \/ (\E f \in Fd : SendsHead(f)) \/ Receives
    BY <2>1, SentSteps
  <2>3. CASE Sent(c)
    BY <2>1, <2>2, <2>3, SentKept
  <2>4. CASE \E f \in Fd : InQueue(f, c)
    <3>1. PICK f \in Fd : InQueue(f, c)
      BY <2>4
    <3>2. CASE ReadReport(f) /\ c = files[f].queue[1].code
      <4>1. SendsHead(f)
        BY <2>1, <3>2, ReadQueue DEF SendsHead
      <4>2. Len(inbox) + 1 \in 1 .. Len(inbox') /\ inbox'[Len(inbox) + 1] = c
        BY <3>2, <4>1, SentAppends, InboxesAre
      <4> QED
        BY <2>1, <2>2, <4>2 DEF Sent, InInbox
    <3> QED
      BY <1>0, <2>1, <2>2, <3>1, <3>2, QueueKept
  <2> QED
    BY <2>1, <2>3, <2>4
<1>2. CASE c \notin owed
  <2>1. PICK n \in Node, size \in ReportSizes : Scan(n, size)
    BY <1>2, OwedSteps
  <2>2. c = Len(scans) + 1 /\ reader /\ reader' = reader /\ OpenOn(device[n]) # {}
    BY <1>2, <2>1 DEF Scan, readerVars
  <2>3. PICK f \in Fd : f \in OpenOn(device[n])
    BY <2>2 DEF OpenOn, Open
  <2>4. files'[f].queue = Append(files[f].queue, [code |-> c, size |-> size])
    <3>1. files'[f] = [files[f] EXCEPT !.queue = Append(@, [code |-> c, size |-> size])]
      BY <2>1, <2>2, <2>3 DEF Scan
    <3>2. files[f] \in [device : 0 .. plugs, queue : Seq(Report(DOMAIN scans))]
      BY QueueFacts DEF File
    <3> QED
      BY <3>1, <3>2
  <2>5. /\ Len(files[f].queue) + 1 \in 1 .. Len(files'[f].queue)
        /\ files'[f].queue[Len(files[f].queue) + 1].code = c
    BY <2>4, AppendedQueue
  <2> QED
    BY <2>2, <2>5 DEF InQueue
<1> QED
  BY <1>1, <1>2

(* The safety half of ScansPrinted: whatever is scanned with an open scanner   *)
(* while the reader runs is printed, or still on its way in a queue or in the *)
(* inbox, until the service or the reader ends.  Nothing a run of select(),    *)
(* a failed read() or the loop's index skips is dropped.                      *)
THEOREM NoCodeEverLost == Spec => []NoCodeLost
<1>1. Init => NoCodeLost
  BY DEF Init, NoCodeLost
<1> QED
  BY <1>1, TypeInit, TypeStep, NoCodeLostStep, PTL DEF Spec

-----------------------------------------------------------------------------
(* Every scanner open *)

(* Every scanner is open, or about to be, but those read again. *)
Covered(n) == ~NoFileOn(n) \/ n \in found \/ AddWaits(n) \/ device[n] \in reread
CoveredInv == pc \in Serving => \A n \in Scanner : device[n] # 0 => Covered(n)

(* A round has descriptors still to read; each has a report, or lost its *)
(* device, or is read again.                                             *)
Gone(f) == files[f].device # 0 /\ \A n \in Node : device[n] # files[f].device
Due(f) == files[f].queue # <<>> \/ Gone(f) \/ files[f].device \in reread
RoundInv ==
    pc = "reading" =>
        /\ \E f \in readFds : f >= at
        /\ \A f \in readFds : f >= at => Due(f)

LEMMA FdsAre ==
    ASSUME Types
    PROVE  /\ \A f \in Fd : f \in Nat /\ f <= MaxFd
           /\ \A f \in readFds : f \in Fd
           /\ at \in Nat /\ MaxFd \in Nat
           /\ \A size \in ReportSizes : size \in Nat
  BY FdAssumption DEF Fd, Types

LEMMA NextIsDue ==
    ASSUME Types, RoundInv, pc = "reading", NEW f \in Fd, IsNext(f)
    PROVE  f \in readFds /\ f >= at
<1> DEFINE due == {g \in readFds : g >= at}
<1>1. due # {} /\ due \in SUBSET Nat
  BY FdsAre DEF RoundInv
<1>2. Min(due) \in due
  BY <1>1, LowestIsThere
<1> QED
  BY <1>2 DEF IsNext

(* The loop goes on behind the size of the report. *)
LEMMA ReportGoesOn ==
    ASSUME Types, NEW f \in Fd, ReadReport(f)
    PROVE  \E size \in ReportSizes : ReadAgain(f, size) /\ GoOnAt(size + 1)
<1>1. PICK s : s = Head(files[f].queue).size
  OBVIOUS
<1>2. files[f].queue \in Seq(Report(DOMAIN scans)) /\ files[f].queue # <<>>
  BY QueueFacts DEF ReadReport
<1>3. Head(files[f].queue) \in Report(DOMAIN scans)
  BY <1>2, TailFacts
<1>4. s \in ReportSizes
  BY <1>1, <1>3 DEF Report
<1>5. ReadAgain(f, s) /\ GoOnAt(s + 1)
  BY <1>1 DEF ReadReport
<1> QED
  BY <1>4, <1>5

(* A device read again is known to be until the service ends. *)
LEMMA RereadGrows == ASSUME Types, [Next]_vars, ~Ended PROVE reread \subseteq reread'
<1>1. CASE \E n \in Node : Plug(n) \/ Unplug(n) \/ (\E size \in ReportSizes : Scan(n, size))
  BY <1>1 DEF Plug, Unplug, Scan, historyVars
<1>2. CASE (\E n \in Node : OpenFound(n)) \/ HandleUevent
  BY <1>2 DEF OpenFound, HandleUevent
<1>3. CASE \E f \in Fd : ReadReport(f) \/ ReadError(f)
  BY <1>3 DEF ReadReport, ReadAgain, ReadError, historyVars
<1>4. CASE Receive \/ ReaderStarts \/ ReaderExits
  BY <1>4 DEF Receive, ReaderStarts, ReaderExits, historyVars
<1> QED
  BY <1>1, <1>2, <1>3, <1>4, StepCases DEF Passes

LEMMA NoOtherIsOpen == ASSUME Types, NEW f \in Fd, files[f].device = 0, FreeIsEmpty PROVE f \notin Open
<1>1. files[f] \in [device : 0 .. plugs, queue : Seq(Report(DOMAIN scans))]
  BY QueueFacts DEF File
<1> QED
  BY <1>1 DEF FreeIsEmpty, Open, NoFile

LEMMA RoundStep ==
    ASSUME Types, FreeIsEmpty, RoundInv, [Next]_vars
    PROVE  RoundInv'
<1> SUFFICES ASSUME pc' = "reading" PROVE RoundInv'
  BY DEF RoundInv
<1>0. ~Ended
  BY EndedFiles
<1>due. \E f \in readFds' : f >= at'
  <2>1. CASE UNCHANGED <<pc, readFds, at>>
    BY <2>1 DEF RoundInv
  <2>2. CASE Select
    <3>1. readFds' = Readable /\ Readable # {} /\ at' = 0
      BY <2>2 DEF Select
    <3>2. \A f \in Readable : f >= 0
      BY FdsAre DEF Readable, Open
    <3> QED
      BY <3>1, <3>2
  <2>3. CASE \E f \in Fd : ReadReport(f) \/ ReadError(f)
    BY <2>3 DEF ReadReport, ReadError, GoOnAt
  <2>4. CASE \E n \in Node : Plug(n) \/ Unplug(n) \/ (\E size \in ReportSizes : Scan(n, size))
    BY <2>1, <2>4 DEF Plug, Unplug, Scan
  <2>5. CASE \E n \in Node : OpenFound(n)
    BY <1>0, <2>1, <2>5, FoundOpens
  <2>6. CASE Receive \/ ReaderStarts \/ ReaderExits
    BY <2>1, <2>6 DEF Receive, ReaderStarts, ReaderExits, serviceVars
  <2>7. CASE EnableMonitor \/ ScanDevices \/ EnterLoop
    BY <2>7 DEF EnableMonitor, ScanDevices, EnterLoop
  <2> QED
    BY <1>0, <2>1, <2>2, <2>3, <2>4, <2>5, <2>6, <2>7, UeventOpens, StepCases
<1> SUFFICES ASSUME NEW f \in readFds', f >= at'
             PROVE  Due(f)'
  BY <1>due DEF RoundInv
<1>grows. reread \subseteq reread'
  BY <1>0, RereadGrows
<1>1. CASE \E n \in Node : Plug(n)
  <2>1. PICK n \in Node : Plug(n)
    BY <1>1
  <2>2. UNCHANGED <<pc, files, readFds, at>>
    BY <2>1 DEF Plug
  <2>3. Due(f) /\ f \in Fd
    BY <2>2, FdsAre DEF RoundInv
  <2>4. Gone(f) => Gone(f)'
    BY <2>1, <2>2, <2>3, PlugDevice DEF Gone
  <2> QED
    BY <1>grows, <2>2, <2>3, <2>4 DEF Due
<1>2. CASE \E n \in Node : Unplug(n)
  <2>1. PICK n \in Node : Unplug(n)
    BY <1>2
  <2>2. UNCHANGED <<pc, files, readFds, at>>
    BY <2>1 DEF Unplug
  <2>3. Due(f) /\ f \in Fd
    BY <2>2, FdsAre DEF RoundInv
  <2>4. Gone(f) => Gone(f)'
    BY <2>1, <2>2, <2>3, UnplugDevice DEF Gone
  <2> QED
    BY <1>grows, <2>2, <2>3, <2>4 DEF Due
<1>3. CASE \E n \in Node, size \in ReportSizes : Scan(n, size)
  <2>1. PICK n \in Node, size \in ReportSizes : Scan(n, size)
    BY <1>3
  <2>2. UNCHANGED <<pc, readFds, at, device>>
    BY <2>1 DEF Scan
  <2>3. Due(f) /\ f \in Fd
    BY <2>2, FdsAre DEF RoundInv
  <2>4. files'[f].device = files[f].device
    BY <2>1, <2>3, ScanFiles
  <2>5. files[f].queue # <<>> => files'[f].queue # <<>>
    <3>1. CASE files'[f].queue = files[f].queue
      BY <3>1
    <3>2. CASE files'[f].queue = Append(files[f].queue, [code |-> Len(scans) + 1, size |-> size])
      <4>1. Len(files'[f].queue) = Len(files[f].queue) + 1 /\ Len(files[f].queue) \in Nat
        BY <2>3, <3>2, AppendedQueue
      <4>2. Len(files'[f].queue) # 0
        BY <4>1
      <4> QED
        BY <4>2
    <3> QED
      BY <2>1, <2>3, <3>1, <3>2, ScanFiles
  <2> QED
    BY <1>grows, <2>2, <2>3, <2>4, <2>5 DEF Due, Gone
<1>4. CASE Select
  <2>1. readFds' = Readable /\ UNCHANGED <<files, device>>
    BY <1>4 DEF Select, kernelVars
  <2>2. f \in Readable /\ f \in Open /\ f \in Fd
    BY <2>1 DEF Readable, Open
  <2>3. files[f].device # 0
    BY <2>2, NoOtherIsOpen
  <2> QED
    BY <2>1, <2>2, <2>3 DEF Readable, Gone, Due
<1>5. CASE \E g \in Fd : ReadError(g)
  <2>1. PICK g \in Fd : ReadError(g)
    BY <1>5
  <2>2. g \in readFds /\ g >= at /\ pc = "reading" /\ g \in Nat
    BY <2>1, NextIsDue, FdsAre DEF ReadError
  <2>3. at' = g + 1 /\ readFds' = readFds /\ device' = device
    BY <2>1 DEF ReadError, GoOnAt, kernelVars
  <2>4. f >= at /\ f # g /\ f \in Fd
    BY <2>2, <2>3, FdsAre
  <2>5. files'[f] = files[f]
    BY <2>1, <2>4, ReadErrorFiles
  <2> QED
    BY <1>grows, <2>2, <2>3, <2>4, <2>5 DEF RoundInv, Due, Gone
<1>6. CASE \E g \in Fd : ReadReport(g)
  <2>1. PICK g \in Fd : ReadReport(g)
    BY <1>6
  <2>2. PICK size \in ReportSizes : ReadAgain(g, size) /\ GoOnAt(size + 1)
    BY <2>1, ReportGoesOn
  <2>3. at' = size + 1 /\ readFds' = readFds /\ device' = device
    BY <2>1, <2>2 DEF ReadReport, GoOnAt, kernelVars
  <2>4. g \in readFds /\ g >= at /\ pc = "reading"
    BY <2>1, NextIsDue DEF ReadReport
  <2>5. f \in readFds /\ f \in Fd /\ f \in Nat /\ g \in Nat /\ size \in Nat /\ size < f
    BY <2>3, FdsAre
  <2>6. files'[f].device = files[f].device /\ (f # g => files'[f] = files[f])
    BY <2>1, <2>5, ReadReportFiles
  <2>7. CASE f > g
    <3>1. f >= at /\ f # g
      BY <2>4, <2>5, <2>7, FdsAre
    <3>2. Due(f)
      BY <2>4, <2>5, <3>1 DEF RoundInv
    <3> QED
      BY <1>grows, <2>3, <2>6, <3>1, <3>2 DEF Due, Gone
  <2>8. CASE f <= g
    <3>1. CASE files'[f].queue # <<>>
      BY <3>1 DEF Due
    <3>2. CASE files'[f].queue = <<>>
      <4>1. files[f].device \in reread'
        BY <2>2, <2>5, <2>8, <3>2 DEF ReadAgain
      <4> QED
        BY <2>6, <4>1 DEF Due
    <3> QED
      BY <3>1, <3>2
  <2> QED
    BY <2>5, <2>7, <2>8
<1>7. CASE \E n \in Node : OpenFound(n)
  BY <1>0, <1>7, FoundOpens
<1>8. CASE HandleUevent
  BY <1>0, <1>8, UeventOpens
<1>9. CASE Receive \/ ReaderStarts \/ ReaderExits
  <2>1. UNCHANGED <<pc, device, files, readFds, at>>
    BY <1>9 DEF Receive, ReaderStarts, ReaderExits, kernelVars, serviceVars
  <2> QED
    BY <1>grows, <2>1 DEF RoundInv, Due, Gone
<1>10. CASE Passes /\ UNCHANGED <<pc, found, readFds, at>>
  BY <1>10 DEF Passes, RoundInv, Due, Gone
<1>11. CASE EnableMonitor \/ ScanDevices \/ EnterLoop
  BY <1>11 DEF EnableMonitor, ScanDevices, EnterLoop
<1> QED
  BY <1>0, <1>1, <1>2, <1>3, <1>4, <1>5, <1>6, <1>7, <1>8, <1>9, <1>10, <1>11, StepCases

(* An "add" that waits is still waiting, or was taken. *)
LEMMA WaitsOn ==
    ASSUME Types, NEW n \in Node, AddWaits(n),
           \/ uevents' = uevents
           \/ \E action \in {"add", "remove"}, m \in Node : Event(action, m)
           \/ uevents # <<>> /\ uevents' = Tail(uevents) /\ Head(uevents) # Added(n)
    PROVE  AddWaits(n)'
<1>1. PICK j \in 1 .. Len(uevents) : uevents[j] = Added(n)
  BY DEF AddWaits
<1>2. CASE uevents' = uevents
  BY <1>1, <1>2 DEF AddWaits, Added
<1>3. ASSUME NEW action \in {"add", "remove"}, NEW m \in Node,
             uevents' = Append(uevents, [action |-> action, node |-> m])
      PROVE  AddWaits(n)'
  <2>1. [action |-> action, node |-> m] \in Uevent
    BY DEF Uevent
  <2>2. Len(uevents') = Len(uevents) + 1 /\ uevents'[j] = uevents[j] /\ Len(uevents) \in Nat
    BY <1>3, <2>1, UeventsAre, AppendFacts
  <2> QED
    BY <1>1, <2>2 DEF AddWaits, Added
<1>4. CASE uevents # <<>> /\ uevents' = Tail(uevents) /\ Head(uevents) # Added(n)
  <2>1. /\ Len(uevents) \in Nat /\ Len(uevents') = Len(uevents) - 1 /\ Head(uevents) = uevents[1]
        /\ \A k \in 1 .. Len(uevents') : uevents'[k] = uevents[k + 1]
    BY <1>4, UeventsAre, TailFacts
  <2>2. j - 1 \in 1 .. Len(uevents') /\ (j - 1) + 1 = j
    <3>1. j # 1
      BY <1>1, <1>4, <2>1
    <3> QED
      BY <2>1, <3>1
  <2>3. uevents'[j - 1] = Added(n)
    BY <1>1, <2>1, <2>2
  <2> QED
    BY <2>2, <2>3 DEF AddWaits, Added
<1> QED
  BY <1>2, <1>3, <1>4 DEF Event

LEMMA EventWaits ==
    ASSUME Types, NEW n \in Node, Event("add", n), Listening
    PROVE  AddWaits(n)'
<1>1. uevents' = Append(uevents, Added(n)) /\ Added(n) \in Uevent
  BY DEF Event, Added, Uevent
<1>2. Len(uevents') = Len(uevents) + 1 /\ uevents'[Len(uevents) + 1] = Added(n) /\ Len(uevents) \in Nat
  BY <1>1, UeventsAre, AppendFacts
<1> QED
  BY <1>2 DEF AddWaits, Added

(* A file opened is open, and another's stays. *)
LEMMA OpensCover ==
    ASSUME Types, NEW m \in Node, OpensNode(m), NEW n \in Scanner, device[n] # 0, device' = device
    PROVE  (n = m => ~NoFileOn(n)') /\ (~NoFileOn(n) => ~NoFileOn(n)')
<1>1. CASE m \notin Scanner /\ files' = files
  BY <1>1 DEF NoFileOn
<1>2. ASSUME NEW f \in Fd, Opens(f, m) PROVE (n = m => ~NoFileOn(n)') /\ (~NoFileOn(n) => ~NoFileOn(n)')
  <2>1. files[f].device = 0 /\ files'[f].device = device[m] /\ \A g \in Fd : g # f => files'[g] = files[g]
    BY <1>2, OpensFacts
  <2>2. n = m => ~NoFileOn(n)'
    BY <2>1 DEF NoFileOn
  <2>3. ~NoFileOn(n) => ~NoFileOn(n)'
    BY <2>1 DEF NoFileOn
  <2> QED
    BY <2>2, <2>3
<1> QED
  BY <1>1, <1>2 DEF OpensNode

LEMMA CoveredStep ==
    ASSUME Types, StageInv, RoundInv, CoveredInv, [Next]_vars
    PROVE  CoveredInv'
<1> SUFFICES ASSUME pc' \in Serving, NEW n \in Scanner, device'[n] # 0
             PROVE  Covered(n)'
  BY DEF CoveredInv
<1>0. ~Ended /\ n \in Node
  BY EndedFiles, NodeAssumption DEF Serving
<1>grows. reread \subseteq reread'
  BY <1>0, RereadGrows
<1>1. ASSUME pc \in Serving, device[n] # 0 PROVE Covered(n)
  BY <1>1 DEF CoveredInv
<1>2. ASSUME pc \in Serving, device'[n] = device[n], found' = found,
             \A f \in Fd : files'[f].device = files[f].device,
             AddWaits(n) => AddWaits(n)'
      PROVE  Covered(n)'
  BY <1>1, <1>2, <1>grows DEF Covered, NoFileOn
<1>3. CASE \E m \in Node : Plug(m)
  <2>1. PICK m \in Node : Plug(m)
    BY <1>3
  <2>2. UNCHANGED <<pc, files, found>> /\ Event("add", m)
    BY <2>1 DEF Plug
  <2>3. CASE n = m
    <3>1. Listening
      BY <2>2 DEF Listening, Serving
    <3> QED
      BY <1>0, <2>2, <2>3, <3>1, EventWaits DEF Covered
  <2>4. CASE n # m
    <3>1. AddWaits(n) => AddWaits(n)'
      BY <1>0, <2>2, WaitsOn
    <3> QED
      BY <1>0, <1>2, <2>1, <2>2, <2>4, <3>1, PlugDevice
  <2> QED
    BY <2>3, <2>4
<1>4. CASE \E m \in Node : Unplug(m)
  <2>1. PICK m \in Node : Unplug(m)
    BY <1>4
  <2>2. UNCHANGED <<pc, files, found>> /\ Event("remove", m)
    BY <2>1 DEF Unplug
  <2>3. AddWaits(n) => AddWaits(n)'
    BY <1>0, <2>2, WaitsOn
  <2> QED
    BY <1>0, <1>2, <2>1, <2>2, <2>3, UnplugDevice
<1>5. CASE \E m \in Node : OpenFound(m)
  <2>1. PICK m \in Node : OpenFound(m)
    BY <1>5
  <2>2. /\ OpensNode(m) /\ found' = found \ {m} /\ pc = "opening" /\ UNCHANGED <<device, uevents>>
    BY <1>0, <2>1, FoundOpens
  <2>3. Covered(n)
    BY <1>1, <2>2 DEF Serving
  <2>4. AddWaits(n) => AddWaits(n)'
    BY <1>0, <2>2, WaitsOn
  <2> QED
    BY <1>grows, <2>2, <2>3, <2>4, OpensCover DEF Covered
<1>6. CASE HandleUevent
  <2>1. /\ uevents # <<>> /\ uevents' = Tail(uevents) /\ found' = found /\ pc = "loop" /\ device' = device
        /\ Head(uevents).node \in Node
        /\ \/ Head(uevents) = Added(Head(uevents).node) /\ OpensNode(Head(uevents).node)
           \/ Head(uevents) = [action |-> "remove", node |-> Head(uevents).node] /\ files' = files
    BY <1>0, <1>6, UeventOpens DEF Added
  <2>2. Covered(n)
    BY <1>1, <2>1 DEF Serving
  <2>3. Head(uevents) # Added(n) => (AddWaits(n) => AddWaits(n)')
    BY <1>0, <2>1, WaitsOn
  <2>4. CASE files' = files /\ Head(uevents) = [action |-> "remove", node |-> Head(uevents).node]
    <3>1. Head(uevents) # Added(n)
      BY <2>4 DEF Added
    <3> QED
      BY <1>grows, <2>1, <2>2, <2>3, <2>4, <3>1 DEF Covered, NoFileOn
  <2>5. CASE Head(uevents) = Added(Head(uevents).node) /\ OpensNode(Head(uevents).node)
    <3>1. Head(uevents) = Added(n) => n = Head(uevents).node
      BY DEF Added
    <3> QED
      BY <1>grows, <2>1, <2>2, <2>3, <2>5, <3>1, OpensCover DEF Covered
  <2> QED
    BY <2>1, <2>4, <2>5
<1>7. CASE \E f \in Fd : ReadError(f)
  <2>1. PICK f \in Fd : ReadError(f)
    BY <1>7
  <2>2. UNCHANGED <<device, uevents, found>> /\ pc = "reading"
    BY <2>1 DEF ReadError, kernelVars
  <2>3. Gone(f) \/ files[f].device \in reread
    <3>1. f \in readFds /\ f >= at
      BY <2>1, NextIsDue DEF ReadError
    <3> QED
      BY <2>1, <2>2, <3>1 DEF RoundInv, Due, ReadError
  <2>4. ~NoFileOn(n) => ~NoFileOn(n)' \/ device[n] \in reread
    BY <1>0, <2>1, <2>2, <2>3, ReadErrorFiles DEF NoFileOn, Gone
  <2>5. AddWaits(n) => AddWaits(n)'
    BY <1>0, <2>2, WaitsOn
  <2> QED
    BY <1>1, <1>grows, <2>2, <2>4, <2>5 DEF Covered, Serving
<1>8. CASE \E f \in Fd : ReadReport(f)
  <2>1. \A f \in Fd : files'[f].device = files[f].device
    BY <1>8, ReadReportFiles
  <2>2. UNCHANGED <<device, uevents, found>> /\ pc = "reading"
    BY <1>8 DEF ReadReport, kernelVars
  <2>3. AddWaits(n) => AddWaits(n)'
    BY <1>0, <2>2, WaitsOn
  <2> QED
    BY <1>2, <2>1, <2>2, <2>3 DEF Serving
<1>9. CASE \E m \in Node, size \in ReportSizes : Scan(m, size)
  <2>1. \A f \in Fd : files'[f].device = files[f].device
    BY <1>9, ScanFiles
  <2>2. UNCHANGED <<device, uevents, found, pc>>
    BY <1>9 DEF Scan
  <2>3. AddWaits(n) => AddWaits(n)'
    BY <1>0, <2>2, WaitsOn
  <2> QED
    BY <1>2, <2>1, <2>2, <2>3
<1>10. CASE Receive \/ ReaderStarts \/ ReaderExits
  <2>1. UNCHANGED <<device, uevents, found, pc, files>>
    BY <1>10 DEF Receive, ReaderStarts, ReaderExits, kernelVars, serviceVars
  <2>2. AddWaits(n) => AddWaits(n)'
    BY <1>0, <2>1, WaitsOn
  <2> QED
    BY <1>2, <2>1, <2>2
<1>11. CASE Passes /\ ScanDevices
  <2>1. n \in found'
    BY <1>0, <1>11 DEF ScanDevices, Passes, Present
  <2> QED
    BY <2>1 DEF Covered
<1>12. CASE Passes /\ (EnterLoop \/ Select \/ UNCHANGED <<pc, found, readFds, at>>)
  <2>1. UNCHANGED <<device, uevents, found, files>> /\ pc \in Serving
    BY <1>12 DEF Passes, EnterLoop, Select, Serving
  <2>2. AddWaits(n) => AddWaits(n)'
    BY <1>0, <2>1, WaitsOn
  <2> QED
    BY <1>2, <2>1, <2>2
<1>13. CASE EnableMonitor \/ pc' \in {"off", "checked", "named"}
  BY <1>13 DEF EnableMonitor, Serving
<1> QED
  BY <1>0, <1>3, <1>4, <1>5, <1>6, <1>7, <1>8, <1>9, <1>10, <1>11, <1>12, <1>13, StepCases

(* With all events dealt with every scanner is open: an "add" is heard or its *)
(* node is enumerated, and a round closes only what lost its device, or what   *)
(* the loop came back to behind a report shorter than the descriptor's number. *)
THEOREM ScannersAllOpen == Spec => []ScannersOpen
<1> DEFINE Inv == Types /\ FreeIsEmpty /\ StageInv /\ RoundInv /\ CoveredInv
<1>1. Init => Inv
  <2>1. Init => FreeIsEmpty /\ StageInv
    BY OrderInit DEF OrderInv
  <2>2. Init => RoundInv /\ CoveredInv
    BY DEF Init, RoundInv, CoveredInv, Serving
  <2> QED
    BY <2>1, <2>2, TypeInit
<1>2. Inv /\ [Next]_vars => Inv'
  BY TypeStep, FreeIsEmptyStep, StageStep, RoundStep, CoveredStep
<1>3. Inv => ScannersOpen
  <2> SUFFICES ASSUME Inv, pc = "loop", uevents = <<>>, NEW n \in Scanner \intersect Present,
                      device[n] \notin reread
               PROVE  OpenOn(device[n]) # {}
    BY DEF ScannersOpen
  <2>1. device[n] # 0 /\ found = {} /\ ~AddWaits(n)
    BY DEF Present, StageInv, AddWaits
  <2>2. PICK f \in Fd : files[f].device = device[n]
    BY <2>1 DEF CoveredInv, Covered, Serving, NoFileOn
  <2>3. f \in OpenOn(device[n])
    BY <2>1, <2>2 DEF OpenOn, Open, NoFile
  <2> QED
    BY <2>3
<1> QED
  BY <1>1, <1>2, <1>3, PTL DEF Spec

(* No descriptor is above the size of a report. *)
FdsBelowSizes == \A size \in ReportSizes : MaxFd <= size

(* Then nothing is read again, and no scanner that is still there is closed. *)
THEOREM ScannersAllStayOpen ==
    ASSUME FdsBelowSizes
    PROVE  Spec => []ScannersStayOpen
<1> DEFINE Inv == Types /\ reread = {}
<1>1. Init => Inv
  BY TypeInit DEF Init
<1>2. Inv /\ [Next]_vars => Inv'
  <2> SUFFICES ASSUME Types, reread = {}, [Next]_vars PROVE reread' = {}
    BY TypeStep
  <2>1. CASE Ended
    BY <2>1, EndedFiles
  <2>2. CASE \E n \in Node : Plug(n) \/ Unplug(n) \/ (\E size \in ReportSizes : Scan(n, size))
    BY <2>2 DEF Plug, Unplug, Scan, historyVars
  <2>3. CASE (\E n \in Node : OpenFound(n)) \/ HandleUevent
    BY <2>1, <2>3 DEF OpenFound, HandleUevent
  <2>4. CASE \E f \in Fd : ReadReport(f)
    <3>1. PICK f \in Fd, size \in ReportSizes : ReadAgain(f, size)
      BY <2>4, ReportGoesOn
    <3>2. \A g \in readFds : ~(size < g)
      BY FdsAre DEF FdsBelowSizes
    <3> QED
      BY <3>1, <3>2 DEF ReadAgain
  <2>5. CASE \E f \in Fd : ReadError(f)
    BY <2>5 DEF ReadError, historyVars
  <2>6. CASE Receive \/ ReaderStarts \/ ReaderExits
    BY <2>6 DEF Receive, ReaderStarts, ReaderExits, historyVars
  <2> QED
    BY <2>1, <2>2, <2>3, <2>4, <2>5, <2>6, StepCases DEF Passes
<1>3. Inv /\ ScannersOpen => ScannersStayOpen
  BY DEF ScannersOpen, ScannersStayOpen
<1> QED
  BY <1>1, <1>2, <1>3, ScannersAllOpen, PTL DEF Spec
=============================================================================
