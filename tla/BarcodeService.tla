--------------------------- MODULE BarcodeService ---------------------------
(***************************************************************************)
(* barcode-dbus-service.c and barcode-reader-glib.c: a service that opens  *)
(* the hidraw nodes of barcode scanners, reads their reports in a polling  *)
(* loop and sends a signal for each, and a program that has the service    *)
(* started and prints what it signals.                                     *)
(*                                                                         *)
(* The kernel gives every open file a queue of its own with the reports    *)
(* that came since it was opened, and wakes a reader of a removed device:  *)
(* read() first returns what is queued, then EIO.  udevd tells the monitor *)
(* of the nodes that come and go from the moment it listens.  A step of    *)
(* the service is a stretch of main() between two points where what the    *)
(* kernel does in between matters.                                         *)
(***************************************************************************)
EXTENDS Integers, Sequences, FiniteSets, SequencesExt, FiniteSetsExt

CONSTANTS
    Node,         \* hidraw nodes
    Scanner,      \* those with the vendor id 05e0 that the service may open
    NotUsb,       \* those without a usb_device parent
    ReportSizes,  \* bytes of a report, at most the 32 that read() asks for
    FirstFd,      \* the first descriptor open() finds free
    MaxFd,        \* bound: the last one
    MaxPlugs,     \* bound: devices plugged in
    MaxScans,     \* bound: codes scanned
    MaxStarts     \* bound: processes started

ASSUME NodeAssumption == Scanner \subseteq Node /\ NotUsb \subseteq Node \ Scanner
ASSUME FdAssumption ==
    /\ FirstFd \in Nat \ {0} /\ MaxFd \in Nat /\ FirstFd <= MaxFd
    /\ ReportSizes \subseteq 1 .. 32
ASSUME BoundAssumption == {MaxPlugs, MaxScans, MaxStarts} \subseteq Nat

VARIABLES
    device,    \* the device behind each node, 0 for a node that does not exist
    plugs,     \* the number of devices plugged in so far: the last one's number
    scans,     \* the device each code was scanned with, by the code's number
    pc,        \* where main() of the service is; "off" is no process
    owner,     \* the name me.koppi.BarcodeReader has an owner
    uevents,   \* the monitor's socket
    found,     \* nodes of udev_enumerate_scan_devices() still to be opened
    files,     \* the descriptors in `master`, and what the kernel holds for each
    readFds,   \* read_fds: descriptors that select() found readable
    at,        \* i of the loop over them
    reader,    \* the reader runs, its match rule is set
    inbox,     \* signals the bus has queued for it
    printed,   \* codes it printed
    starts,    \* processes started so far
    crossed,   \* history: devices plugged in while the service was about to
               \*   open their node for another reason
    owed,      \* history: codes scanned with an open scanner for a reader
    reread     \* history: devices whose descriptor is read again in a round
               \*   although it has no report left

kernelVars  == <<device, plugs, scans>>
serviceVars == <<pc, owner, uevents, found, files, readFds, at>>
readerVars  == <<reader, inbox, printed>>
historyVars == <<crossed, owed, reread>>
vars == <<kernelVars, serviceVars, readerVars, starts, historyVars>>

Fd == FirstFd .. MaxFd
NoFile == [device |-> 0, queue |-> <<>>]
Code == 1 .. MaxScans

Present == {n \in Node : device[n] # 0}
Open == {f \in Fd : files[f] # NoFile}
OpenOn(d) == {f \in Open : files[f].device = d}

Init ==
    /\ device = [n \in Node |-> 0]
    /\ plugs = 0
    /\ scans = <<>>
    /\ pc = "off"
    /\ owner = FALSE
    /\ uevents = <<>>
    /\ found = {}
    /\ files = [f \in Fd |-> NoFile]
    /\ readFds = {}
    /\ at = 0
    /\ reader = FALSE
    /\ inbox = <<>>
    /\ printed = <<>>
    /\ starts = 0
    /\ crossed = {}
    /\ owed = {}
    /\ reread = {}

-----------------------------------------------------------------------------
(* The kernel and udevd *)

(* Mutant of Listening: the monitor is enabled after the enumeration. *)
ListeningLate == pc \notin {"off", "checked", "named", "monitored", "opening"}

(* udev_monitor_enable_receiving comes before the enumeration. *)
Listening == pc \notin {"off", "checked", "named"}

Event(action, n) ==
    uevents' = IF Listening THEN Append(uevents, [action |-> action, node |-> n]) ELSE uevents

(* A node the service is going to open anyway, in the enumeration or for the *)
(* "add" of a device that had it before, is opened once more for its own.    *)
Plug(n) ==
    /\ n \notin Present
    /\ plugs < MaxPlugs
    /\ plugs' = plugs + 1
    /\ device' = [device EXCEPT ![n] = plugs + 1]
    /\ Event("add", n)
    /\ crossed' = IF pc = "monitored" \/ n \in found
                     \/ [action |-> "add", node |-> n] \in ToSet(uevents)
                  THEN crossed \union {plugs + 1} ELSE crossed
    /\ UNCHANGED <<scans, pc, owner, found, files, readFds, at, readerVars, starts, owed, reread>>

Unplug(n) ==
    /\ n \in Present
    /\ device' = [device EXCEPT ![n] = 0]
    /\ Event("remove", n)
    /\ UNCHANGED <<plugs, scans, pc, owner, found, files, readFds, at, readerVars, starts, historyVars>>

(* Every file opened on the device gets the report. *)
Scan(n, size) ==
    /\ n \in Scanner \intersect Present
    /\ Len(scans) < MaxScans
    /\ scans' = Append(scans, device[n])
    /\ files' = [f \in Fd |-> IF f \in OpenOn(device[n])
                              THEN [files[f] EXCEPT !.queue = Append(@, [code |-> Len(scans) + 1, size |-> size])]
                              ELSE files[f]]
    /\ owed' = IF reader /\ OpenOn(device[n]) # {} THEN owed \union {Len(scans) + 1} ELSE owed
    /\ UNCHANGED <<device, plugs, pc, owner, uevents, found, readFds, at, readerVars, starts, crossed, reread>>

-----------------------------------------------------------------------------
(* barcode-dbus-service *)

(* The process ends, by return, exit() or a signal: the kernel closes its    *)
(* files and the bus gives up its name.                                      *)
Ended ==
    /\ pc' = "off"
    /\ owner' = IF pc \in {"off", "checked"} THEN owner ELSE FALSE
    /\ uevents' = <<>>
    /\ found' = {}
    /\ files' = [f \in Fd |-> NoFile]
    /\ readFds' = {}
    /\ at' = 0
    /\ owed' = {}
    /\ reread' = {}

(* dbus_bus_name_has_owner *)
CheckName ==
    /\ pc = "off"
    /\ starts < MaxStarts
    /\ starts' = starts + 1
    /\ pc' = IF owner THEN "off" ELSE "checked"
    /\ UNCHANGED <<kernelVars, owner, uevents, found, files, readFds, at, readerVars, historyVars>>

(* dbus_bus_request_name with DO_NOT_QUEUE *)
RequestName ==
    /\ pc = "checked"
    /\ pc' = IF owner THEN "off" ELSE "named"
    /\ owner' = TRUE
    /\ UNCHANGED <<kernelVars, uevents, found, files, readFds, at, readerVars, starts, historyVars>>

(* Another instance, started at the same time, has or gives up the name. *)
OtherInstance ==
    /\ pc \in {"off", "checked"}
    /\ owner' = ~owner
    /\ UNCHANGED <<kernelVars, pc, uevents, found, files, readFds, at, readerVars, starts, historyVars>>

EnableMonitor ==
    /\ pc = "named"
    /\ pc' = "monitored"
    /\ UNCHANGED <<kernelVars, owner, uevents, found, files, readFds, at, readerVars, starts, historyVars>>

ScanDevices ==
    /\ pc = "monitored"
    /\ found' = Present
    /\ pc' = "opening"
    /\ UNCHANGED <<kernelVars, owner, uevents, files, readFds, at, readerVars, starts, historyVars>>

(* open_hid: a node without a USB parent, or one that is gone, ends the      *)
(* service; one of another vendor, or one that cannot be opened, is left     *)
(* alone.  A file opened is put into `master`.                               *)
Fatal(n) == n \in NotUsb \/ n \notin Present

Opened(n) ==
    LET free == {f \in Fd : files[f] = NoFile}
    IN  \/ /\ n \notin Scanner
           /\ UNCHANGED files
        \/ /\ n \in Scanner
           /\ free # {}
           /\ files' = [files EXCEPT ![Min(free)] = [device |-> device[n], queue |-> <<>>]]

OpenFound(n) ==
    /\ pc = "opening"
    /\ n \in found
    /\ \/ Fatal(n) /\ Ended /\ UNCHANGED crossed
       \/ /\ ~Fatal(n)
          /\ Opened(n)
          /\ found' = found \ {n}
          /\ UNCHANGED <<pc, owner, uevents, readFds, at, crossed, owed, reread>>
    /\ UNCHANGED <<kernelVars, readerVars, starts>>

EnterLoop ==
    /\ pc = "opening"
    /\ found = {}
    /\ pc' = "loop"
    /\ UNCHANGED <<kernelVars, owner, uevents, found, files, readFds, at, readerVars, starts, historyVars>>

(* Mutant of HandleUevent: whatever the action, the node is opened. *)
HandleUeventAnyAction ==
    /\ pc = "loop"
    /\ uevents # <<>>
    /\ LET n == Head(uevents).node
       IN  IF Fatal(n)
           THEN Ended /\ UNCHANGED crossed
           ELSE /\ Opened(n)
                /\ pc' = "select"
                /\ uevents' = Tail(uevents)
                /\ UNCHANGED <<owner, found, readFds, at, crossed, owed, reread>>
    /\ UNCHANGED <<kernelVars, readerVars, starts>>

(* The first select(): one event of the monitor is dealt with in a round.  A *)
(* "remove" closes nothing, the descriptor's next read() will.               *)
HandleUevent ==
    /\ pc = "loop"
    /\ uevents # <<>>
    /\ LET n == Head(uevents).node
       IN  \/ /\ Head(uevents).action = "add" /\ Fatal(n)
              /\ Ended
              /\ UNCHANGED crossed
           \/ /\ \/ Head(uevents).action = "add" /\ ~Fatal(n) /\ Opened(n)
                 \/ Head(uevents).action = "remove" /\ UNCHANGED files
              /\ pc' = "select"
              /\ uevents' = Tail(uevents)
              /\ UNCHANGED <<owner, found, readFds, at, crossed, owed, reread>>
    /\ UNCHANGED <<kernelVars, readerVars, starts>>

Readable == {f \in Open : files[f].queue # <<>> \/ (\A n \in Node : device[n] # files[f].device)}

(* The second select() *)
Select ==
    /\ pc = "select" \/ (pc = "loop" /\ uevents = <<>>)
    /\ readFds' = Readable
    /\ at' = 0
    /\ pc' = IF Readable = {} THEN "loop" ELSE "reading"
    /\ UNCHANGED <<kernelVars, owner, uevents, found, files, readerVars, starts, historyVars>>

(* The loop over the descriptors goes on at i, or is over. *)
GoOnAt(i) ==
    IF \E f \in readFds : f >= i
    THEN at' = i /\ UNCHANGED <<pc, readFds>>
    ELSE at' = 0 /\ pc' = "loop" /\ readFds' = {}

(* dbus_send: the bus passes a signal on to a reader whose match it has. *)
Send(code) == inbox' = IF reader THEN Append(inbox, code) ELSE inbox

IsNext(f) == f \in readFds /\ f = Min({g \in readFds : g >= at})

(* Behind a report that is shorter than the number of its descriptor the loop *)
(* comes to descriptors again that it has read.                               *)
ReadAgain(f, size) ==
    LET empty == {g \in readFds : size < g /\ g <= f /\ files'[g].queue = <<>>}
    IN  reread' = reread \union {files[g].device : g \in empty}

(* Mutant of ReadReport: the loop ends with the first report of a round, whose *)
(* signal takes what is left of the queue along.                               *)
ReadReportDrains(f) ==
    /\ pc = "reading"
    /\ IsNext(f)
    /\ files[f].queue # <<>>
    /\ Send(Head(files[f].queue).code)
    /\ files' = [files EXCEPT ![f].queue = <<>>]
    /\ ReadAgain(f, Head(files[f].queue).size)
    /\ GoOnAt(Head(files[f].queue).size + 1)
    /\ UNCHANGED <<kernelVars, owner, uevents, found, reader, printed, starts, crossed, owed>>

(* read() returns a report.  The loop that prints its bytes uses i as well:  *)
(* the outer one goes on behind the size of the report, not behind f.        *)
ReadReport(f) ==
    /\ pc = "reading"
    /\ IsNext(f)
    /\ files[f].queue # <<>>
    /\ Send(Head(files[f].queue).code)
    /\ files' = [files EXCEPT ![f].queue = Tail(@)]
    /\ ReadAgain(f, Head(files[f].queue).size)
    /\ GoOnAt(Head(files[f].queue).size + 1)
    /\ UNCHANGED <<kernelVars, owner, uevents, found, reader, printed, starts, crossed, owed>>

(* read() fails: EIO of a removed device, EAGAIN of a descriptor that is read *)
(* again although it was found readable once.  Either way it is closed.       *)
ReadError(f) ==
    /\ pc = "reading"
    /\ IsNext(f)
    /\ files[f].queue = <<>>
    /\ files' = [files EXCEPT ![f] = NoFile]
    /\ GoOnAt(f + 1)
    /\ UNCHANGED <<kernelVars, owner, uevents, found, readerVars, starts, historyVars>>

Killed ==
    /\ pc # "off"
    /\ Ended
    /\ UNCHANGED <<kernelVars, readerVars, starts, crossed>>

-----------------------------------------------------------------------------
(* barcode-reader-glib: it asks the bus to start the service, which may run   *)
(* or start by itself as well, and has its match rule set right after.        *)

ReaderStarts ==
    /\ ~reader
    /\ reader' = TRUE
    /\ printed' = <<>>
    /\ UNCHANGED <<kernelVars, serviceVars, inbox, starts, historyVars>>

(* dbus_filter *)
Receive ==
    /\ inbox # <<>>
    /\ printed' = Append(printed, Head(inbox))
    /\ inbox' = Tail(inbox)
    /\ UNCHANGED <<kernelVars, serviceVars, reader, starts, historyVars>>

ReaderExits ==
    /\ reader
    /\ reader' = FALSE
    /\ inbox' = <<>>
    /\ printed' = <<>>
    /\ owed' = {}
    /\ UNCHANGED <<kernelVars, serviceVars, starts, crossed, reread>>

-----------------------------------------------------------------------------

(* What main() of the service does by itself. *)
Advance ==
    \/ RequestName
    \/ EnableMonitor
    \/ ScanDevices
    \/ \E n \in Node : OpenFound(n)
    \/ EnterLoop
    \/ HandleUevent
    \/ Select
    \/ \E f \in Fd : ReadReport(f) \/ ReadError(f)

Environment ==
    \/ \E n \in Node : Plug(n) \/ Unplug(n) \/ \E size \in ReportSizes : Scan(n, size)
    \/ CheckName
    \/ OtherInstance
    \/ Killed
    \/ ReaderStarts
    \/ ReaderExits

Next == Advance \/ Receive \/ Environment

Spec == Init /\ [][Next]_vars

(* Both programs run whenever they can; nothing is assumed of who starts them, *)
(* plugs in and scans.                                                         *)
FairSpec == Spec /\ WF_vars(Advance) /\ WF_vars(Receive)

-----------------------------------------------------------------------------
(* Properties *)

TypeOK ==
    /\ device \in [Node -> 0 .. plugs]
    /\ plugs \in 0 .. MaxPlugs
    /\ scans \in Seq(1 .. plugs)
    /\ pc \in {"off", "checked", "named", "monitored", "opening", "loop", "select", "reading"}
    /\ owner \in BOOLEAN
    /\ uevents \in Seq([action : {"add", "remove"}, node : Node])
    /\ found \subseteq Node
    /\ files \in [Fd -> [device : 0 .. plugs, queue : Seq([code : DOMAIN scans, size : ReportSizes])]]
    /\ readFds \subseteq Fd
    /\ at \in Nat
    /\ reader \in BOOLEAN
    /\ {inbox, printed} \subseteq Seq(DOMAIN scans)
    /\ starts \in 0 .. MaxStarts
    /\ crossed \subseteq 1 .. plugs
    /\ owed \subseteq DOMAIN scans
    /\ reread \subseteq 0 .. plugs

(* "connects the system's barcode readers to the DBus": with all events of the *)
(* monitor dealt with, the service has every scanner open that it could open,  *)
(* whether it was there before the service or plugged in since.  The exception *)
(* is a scanner whose descriptor is above the size of a report: the loop comes *)
(* back to it, EAGAIN closes it and nothing opens it again.                    *)
ScannersOpen ==
    pc = "loop" /\ uevents = <<>> =>
        \A n \in Scanner \intersect Present : OpenOn(device[n]) # {} \/ device[n] \in reread

(* The same without the exception.  It does not hold. *)
ScannersStayOpen ==
    pc = "loop" /\ uevents = <<>> =>
        \A n \in Scanner \intersect Present : OpenOn(device[n]) # {}

(* Codes of one device are printed in the order they were scanned, each once; *)
(* a device plugged in while its node was about to be opened may repeat them. *)
PrintedInOrder ==
    \A i, j \in DOMAIN printed :
        i < j /\ scans[printed[i]] = scans[printed[j]] /\ scans[printed[i]] \notin crossed
            => printed[i] < printed[j]

(* "print read 'barcode' to STDOUT": a code scanned with an open scanner is in *)
(* the end printed, even if the scanner is unplugged right after, unless the  *)
(* service or the reader ends first.                                          *)
ScansPrinted ==
    \A c \in Code : c \in owed ~> c \in ToSet(printed) \/ c \notin owed
=============================================================================
