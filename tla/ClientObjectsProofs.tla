------------------------- MODULE ClientObjectsProofs -------------------------
(***************************************************************************)
(* Proofs about libbm-glib's objects, for any number of daemons, devices   *)
(* and calls: the types of ClientObjects, that a client's list follows the *)
(* daemon's devices, and that a callback of RemoteCalls tells what is so.  *)
(***************************************************************************)
EXTENDS ClientObjectsMC, FiniteSetTheorems, TLAPS

-----------------------------------------------------------------------------
(* Type correctness *)

LEMMA InitType == Init => TypeOK
<1> SUFFICES ASSUME Init PROVE TypeOK
  OBVIOUS
<1> USE ClientObjectsAssumption
<1>1. running \in 0 .. MaxStart /\ starts \in 0 .. MaxStart
  BY DEF Init
<1>2. devcount \in 0 .. MaxPath /\ exported \subseteq Path
  BY DEF Init, Path
<1>3. job \in Jobs
  BY DEF Init, NoJob, Jobs
<1>4. cache \in [state: States, enabled: BOOLEAN, have: BOOLEAN]
  BY DEF Init, FreshCache, States
<1>5. shown \in [state: States, enabled: BOOLEAN]
  BY DEF Init, States
<1>6. changes \in 0 .. MaxChange /\ from \in 0 .. MaxStart /\ born \in {0, 1}
  BY DEF Init
<1>7. inbox \in Seq(Message) /\ changed \in SUBSET BOOLEAN /\ devices \subseteq Path
  BY DEF Init
<1> QED
  BY <1>1, <1>2, <1>3, <1>4, <1>5, <1>6, <1>7 DEF Init, TypeOK

LEMMA SentType ==
    ASSUME TypeOK, NEW m \in Message, Send(m)
    PROVE  inbox' \in Seq(Message)
  BY DEF TypeOK, Send

LEMMA ReceivedType ==
    ASSUME TypeOK, NEW type, Receive(type)
    PROVE  /\ inbox' \in Seq(Message)
           /\ Head(inbox) \in Message
           /\ Head(inbox).type = type
  BY DEF TypeOK, Receive

LEMMA DaemonType ==
    ASSUME TypeOK, Daemon
    PROVE  TypeOK'
<1> USE ClientObjectsAssumption
<1>1. CASE DaemonStarts
  <2>1. starts' \in 0 .. MaxStart /\ running' \in 0 .. MaxStart /\ devcount' \in 0 .. MaxPath
    BY <1>1 DEF TypeOK, DaemonStarts
  <2> QED
    BY <1>1, <2>1 DEF TypeOK, DaemonStarts, deviceVars, valueVars
<1>2. CASE DaemonExits
  BY <1>2 DEF TypeOK, DaemonExits, deviceVars, valueVars
<1>3. CASE AddDevice
  <2>1. devcount' \in Path /\ devcount' \in 0 .. MaxPath
    BY <1>3 DEF TypeOK, AddDevice, Path
  <2>2. DeviceAdded(devcount') \in Message
    BY <2>1 DEF DeviceAdded, Message
  <2> QED
    BY <1>3, <2>1, <2>2, SentType DEF TypeOK, AddDevice, deviceVars, valueVars
<1>4. ASSUME NEW p \in Path, RemoveDevice(p) PROVE TypeOK'
  <2>1. DeviceRemoved(p) \in Message
    BY DEF DeviceRemoved, Message
  <2> QED
    BY <1>4, <2>1, SentType DEF TypeOK, RemoveDevice, deviceVars, valueVars
<1>5. CASE Enable
  BY <1>5 DEF TypeOK, Enable, Notify, deviceVars, valueVars
<1> QED
  BY <1>1, <1>2, <1>3, <1>4, <1>5 DEF Daemon

LEMMA EmitType ==
    ASSUME TypeOK, EmitPropertiesChanged
    PROVE  TypeOK'
<1>1. PICK on \in changed : Send(PropertiesChanged(on))
  BY DEF EmitPropertiesChanged
<1>2. PropertiesChanged(on) \in Message
  BY DEF TypeOK, PropertiesChanged, Message
<1> QED
  BY <1>1, <1>2, SentType DEF TypeOK, EmitPropertiesChanged, deviceVars, valueVars

LEMMA GetDevicesType ==
    ASSUME TypeOK, NEW then \in {"nothing", "add", "remove"}, NEW for \in Path \union {0},
           GetDevices(then, for)
    PROVE  job' \in Jobs /\ from' \in 0 .. MaxStart
<1>1. ListJob(then, for) \in Jobs /\ AddJob(then, for) \in Jobs
  BY DEF TypeOK, ListJob, AddJob, NoJob, Jobs
<1> QED
  BY <1>1 DEF TypeOK, GetDevices

LEMMA ReadType ==
    ASSUME TypeOK, NEW have \in BOOLEAN, Read(have)
    PROVE  /\ shown' \in [state: States, enabled: BOOLEAN]
           /\ cache' \in [state: States, enabled: BOOLEAN, have: BOOLEAN]
<1>1. GetState \in States /\ GetEnabled \in BOOLEAN
  BY DEF TypeOK, GetState, GetEnabled, Get, Answered, StateOf, States
<1> QED
  BY <1>1 DEF TypeOK, Read

LEMMA ClientType ==
    ASSUME TypeOK, User \/ Blocked \/ Handle
    PROVE  TypeOK'
<1> USE ClientObjectsAssumption
<1>1. CASE ListDevices
  BY <1>1, GetDevicesType DEF TypeOK, ListDevices, daemonVars, valueVars
<1>2. CASE ReadProperties
  <2>1. cache.have \in BOOLEAN /\ Read(cache.have)
    BY <1>2 DEF TypeOK, ReadProperties
  <2> QED
    BY <1>2, <2>1, ReadType DEF TypeOK, ReadProperties, daemonVars, deviceVars
<1>3. ASSUME NEW p \in Path, Demarshal(p) PROVE TypeOK'
  <2>1. job' \in Jobs
    <3>1. job' = [job EXCEPT !.todo = job.todo \ {p},
                             !.made = IF Obtained(p) THEN job.made \union {p} ELSE job.made]
      BY <1>3 DEF Demarshal
    <3>2. job.todo \ {p} \in SUBSET Path /\ job.made \union {p} \in SUBSET Path
      BY DEF TypeOK, Jobs
    <3> QED
      BY <3>1, <3>2 DEF TypeOK, Jobs
  <2> QED
    BY <1>3, <2>1 DEF TypeOK, Demarshal, daemonVars, valueVars
<1>4. CASE Listed
  <2>1. job' \in Jobs /\ devices' \subseteq Path
    BY <1>4 DEF TypeOK, Listed, AddJob, NoJob, Jobs
  <2> QED
    BY <1>4, <2>1 DEF TypeOK, Listed, daemonVars, valueVars
<1>5. ASSUME NEW p \in Path \union {0}, Added(p) PROVE devices' \subseteq Path
  BY <1>5 DEF TypeOK, Added, Obtained, Cached, NewObject
<1>6. CASE AddedAlone
  <2>1. job.for \in Path \union {0} /\ NoJob \in Jobs
    BY DEF TypeOK, NoJob, Jobs
  <2> QED
    BY <1>5, <1>6, <2>1 DEF TypeOK, AddedAlone, daemonVars, valueVars
<1>7. CASE HandleDeviceAdded
  <2>1. inbox' \in Seq(Message) /\ Head(inbox).path \in Path
    BY <1>7, ReceivedType DEF HandleDeviceAdded, Message
  <2> QED
    BY <1>5, <1>7, <2>1, GetDevicesType DEF TypeOK, HandleDeviceAdded, daemonVars, valueVars
<1>8. CASE HandleDeviceRemoved
  <2>1. inbox' \in Seq(Message) /\ Head(inbox).path \in Path
    BY <1>8, ReceivedType DEF HandleDeviceRemoved, Message
  <2> QED
    BY <1>8, <2>1, GetDevicesType DEF TypeOK, HandleDeviceRemoved, daemonVars, valueVars
<1>9. CASE HandlePropertiesChanged
  <2>1. inbox' \in Seq(Message) /\ Head(inbox).enabled \in BOOLEAN
    BY <1>9, ReceivedType DEF HandlePropertiesChanged, Message
  <2>2. cache' \in [state: States, enabled: BOOLEAN, have: BOOLEAN] /\ notify' \in BOOLEAN
    BY <1>9, <2>1 DEF TypeOK, HandlePropertiesChanged, DemarshalGeneric, StateOf, States
  <2> QED
    BY <1>9, <2>1, <2>2 DEF TypeOK, HandlePropertiesChanged, daemonVars, deviceVars
<1>10. CASE DeferredNotify
  <2>1. Read(TRUE)
    BY <1>10 DEF DeferredNotify
  <2> QED
    BY <1>10, <2>1, ReadType DEF TypeOK, DeferredNotify, daemonVars, deviceVars
<1> QED
  BY <1>1, <1>2, <1>3, <1>4, <1>6, <1>7, <1>8, <1>9, <1>10 DEF User, Blocked, Handle

(* Every variable of ClientObjects has its type, whatever the daemon does    *)
(* while the client blocks.                                                  *)
THEOREM TypeCorrect == Spec => []TypeOK
<1>1. TypeOK /\ [Next]_vars => TypeOK'
  <2> SUFFICES ASSUME TypeOK, [Next]_vars PROVE TypeOK'
    OBVIOUS
  <2>1. CASE UNCHANGED vars
    BY <2>1 DEF TypeOK, vars
  <2> QED
    BY <2>1, DaemonType, EmitType, ClientType DEF Next
<1> QED
  BY <1>1, InitType, PTL DEF Spec

-----------------------------------------------------------------------------
(* The list of devices.                                                    *)
(*                                                                         *)
(* A device that is exported is listed, about to be, or has its signal     *)
(* still queued, behind any that says an older device of that path is      *)
(* gone; a device listed that the daemon no longer exports has the signal  *)
(* that says so queued, if the list was this daemon's.                     *)

Coming(p) == \E i \in 1 .. Len(inbox) : inbox[i] = DeviceAdded(p)
Going(p)  == \E i \in 1 .. Len(inbox) : inbox[i] = DeviceRemoved(p)

BackAgain ==
    \A p \in exported : \A i \in 1 .. Len(inbox) :
        inbox[i] = DeviceRemoved(p) => \E j \in (i + 1) .. Len(inbox) : inbox[j] = DeviceAdded(p)

NoneMissed ==
    \A p \in exported :
        \/ Coming(p)
        \/ job.kind = "list" /\ p \in job.todo \union job.made
        \/ job.kind = "add" /\ job.for = p
        \/ job.kind # "list" /\ (listed => p \in devices)

(* The list that a DeviceRemoved asked for is made without that device. *)
LeftOut == job.kind = "list" /\ job.then = "remove" /\ job.for \in exported => Coming(job.for)

NoneLeft ==
    running # 0 /\ from = running =>
        \A p \in (devices \union job.made) \ exported : Going(p)

ListedOnce ==
    /\ ~listed => devices = {}
    /\ job.kind = "list" => ~listed
    /\ job.kind # "list" => job.made = {}
    /\ from <= starts
    /\ running <= starts

DevicesInv == BackAgain /\ NoneMissed /\ LeftOut /\ NoneLeft /\ ListedOnce

(* A signal joins the queue: what was to come still is, and it is. *)
LEMMA SentIsQueued ==
    ASSUME TypeOK, NEW m, Send(m)
    PROVE  /\ \A p : Coming(p)' <=> Coming(p) \/ m = DeviceAdded(p)
           /\ \A p : Going(p)' <=> Going(p) \/ m = DeviceRemoved(p)
           /\ Len(inbox') = Len(inbox) + 1 /\ Len(inbox) \in Nat /\ inbox'[Len(inbox) + 1] = m
           /\ \A i \in 1 .. Len(inbox) : inbox'[i] = inbox[i]
<1>1. /\ Len(inbox') = Len(inbox) + 1 /\ Len(inbox) \in Nat /\ inbox'[Len(inbox) + 1] = m
      /\ \A i \in 1 .. Len(inbox) : inbox'[i] = inbox[i]
  BY DEF TypeOK, Send
<1>2. ASSUME NEW n PROVE (\E i \in 1 .. Len(inbox') : inbox'[i] = n)
                         <=> (\E i \in 1 .. Len(inbox) : inbox[i] = n) \/ m = n
  BY <1>1
<1> QED
  BY <1>1, <1>2 DEF Coming, Going, DeviceAdded, DeviceRemoved

LEMMA TakenIsGone ==
    ASSUME TypeOK, inbox # <<>>, inbox' = Tail(inbox)
    PROVE  /\ \A p : Coming(p) <=> Coming(p)' \/ Head(inbox) = DeviceAdded(p)
           /\ \A p : Going(p) <=> Going(p)' \/ Head(inbox) = DeviceRemoved(p)
           /\ Len(inbox') = Len(inbox) - 1 /\ Len(inbox) \in Nat \ {0} /\ inbox[1] = Head(inbox)
           /\ \A i \in 1 .. Len(inbox') : inbox'[i] = inbox[i + 1]
<1>1. /\ Len(inbox') = Len(inbox) - 1 /\ Len(inbox) \in Nat \ {0} /\ inbox[1] = Head(inbox)
      /\ \A i \in 1 .. Len(inbox') : inbox'[i] = inbox[i + 1]
  BY DEF TypeOK
<1>2. ASSUME NEW n PROVE (\E i \in 1 .. Len(inbox) : inbox[i] = n)
                         <=> (\E i \in 1 .. Len(inbox') : inbox'[i] = n) \/ Head(inbox) = n
  <2>1. ASSUME NEW i \in 1 .. Len(inbox), inbox[i] = n, Head(inbox) # n
        PROVE  \E j \in 1 .. Len(inbox') : inbox'[j] = n
    <3>1. i - 1 \in 1 .. Len(inbox') /\ inbox'[i - 1] = inbox[i]
      BY <1>1, <2>1
    <3> QED
      BY <2>1, <3>1
  <2>2. ASSUME NEW i \in 1 .. Len(inbox'), inbox'[i] = n
        PROVE  \E j \in 1 .. Len(inbox) : inbox[j] = n
    <3>1. i + 1 \in 1 .. Len(inbox) /\ inbox[i + 1] = n
      BY <1>1, <2>2
    <3> QED
      BY <3>1
  <2>3. 1 \in 1 .. Len(inbox)
    BY <1>1
  <2> QED
    BY <1>1, <2>1, <2>2, <2>3
<1> QED
  BY <1>1, <1>2 DEF Coming, Going, DeviceAdded, DeviceRemoved

LEMMA SentBackAgain ==
    ASSUME TypeOK, BackAgain, NEW m, Send(m),
           \A p \in exported' : m = DeviceAdded(p) \/ (p \in exported /\ m # DeviceRemoved(p))
    PROVE  BackAgain'
<1> SUFFICES ASSUME NEW p \in exported', NEW i \in 1 .. Len(inbox'), inbox'[i] = DeviceRemoved(p)
             PROVE  \E j \in (i + 1) .. Len(inbox') : inbox'[j] = DeviceAdded(p)
  BY DEF BackAgain, DeviceAdded, DeviceRemoved
<1>1. DeviceAdded(p) # DeviceRemoved(p)
  BY DEF DeviceAdded, DeviceRemoved
<1>2. i \in 1 .. Len(inbox)
  BY <1>1, SentIsQueued
<1>3. CASE m = DeviceAdded(p)
  <2>1. Len(inbox') \in (i + 1) .. Len(inbox') /\ inbox'[Len(inbox')] = m
    BY <1>2, SentIsQueued
  <2> QED
    BY <1>3, <2>1
<1>4. CASE p \in exported
  <2>1. PICK j \in (i + 1) .. Len(inbox) : inbox[j] = DeviceAdded(p)
    BY <1>2, <1>4, SentIsQueued DEF BackAgain
  <2>2. j \in (i + 1) .. Len(inbox') /\ inbox'[j] = inbox[j]
    BY <1>2, <2>1, SentIsQueued
  <2> QED
    BY <2>1, <2>2
<1> QED
  BY <1>3, <1>4

LEMMA TakenBackAgain ==
    ASSUME TypeOK, BackAgain, inbox # <<>>, inbox' = Tail(inbox), exported' = exported
    PROVE  /\ BackAgain'
           /\ \A p \in exported : Head(inbox) = DeviceRemoved(p) => Coming(p)'
<1>1. ASSUME NEW p \in exported, NEW i \in 1 .. Len(inbox), inbox[i] = DeviceRemoved(p)
      PROVE  \E j \in i .. Len(inbox') : inbox'[j] = DeviceAdded(p)
  <2>1. PICK j \in (i + 1) .. Len(inbox) : inbox[j] = DeviceAdded(p)
    BY <1>1 DEF BackAgain
  <2>2. j - 1 \in i .. Len(inbox') /\ j - 1 \in 1 .. Len(inbox') /\ inbox'[j - 1] = inbox[j]
    BY <2>1, TakenIsGone
  <2> QED
    BY <2>1, <2>2
<1>2. ASSUME NEW p \in exported, NEW i \in 1 .. Len(inbox'), inbox'[i] = DeviceRemoved(p)
      PROVE  \E j \in (i + 1) .. Len(inbox') : inbox'[j] = DeviceAdded(p)
  <2>1. i + 1 \in 1 .. Len(inbox) /\ inbox[i + 1] = DeviceRemoved(p)
    BY <1>2, TakenIsGone
  <2> QED
    BY <1>1, <2>1
<1>3. ASSUME NEW p \in exported, Head(inbox) = DeviceRemoved(p) PROVE Coming(p)'
  <2>1. 1 \in 1 .. Len(inbox) /\ inbox[1] = DeviceRemoved(p)
    BY <1>3, TakenIsGone
  <2>2. \E j \in 1 .. Len(inbox') : inbox'[j] = DeviceAdded(p)
    BY <1>1, <2>1
  <2> QED
    BY <2>2 DEF Coming, DeviceAdded
<1> QED
  BY <1>2, <1>3 DEF BackAgain, DeviceAdded, DeviceRemoved

LEMMA DaemonKeepsDevices ==
    ASSUME TypeOK, DevicesInv, Daemon \/ EmitPropertiesChanged
    PROVE  DevicesInv'
<1> USE ClientObjectsAssumption
<1> USE DEF DevicesInv
<1>1. UNCHANGED <<listed, devices, from, job>>
  BY DEF Daemon, EmitPropertiesChanged, DaemonStarts, DaemonExits, AddDevice, RemoveDevice,
     Enable, deviceVars
<1>2. from \in Nat /\ starts \in Nat /\ running \in Nat
  BY DEF TypeOK
<1>3. CASE DaemonStarts
  <2>1. UNCHANGED <<exported, inbox>> /\ starts' = starts + 1 /\ running' = starts'
    BY <1>3 DEF DaemonStarts
  <2>2. ListedOnce'
    BY <1>1, <1>2, <2>1 DEF ListedOnce
  <2>3. NoneLeft'
    BY <1>1, <1>2, <2>1 DEF ListedOnce, NoneLeft
  <2> QED
    BY <1>1, <2>1, <2>2, <2>3
       DEF BackAgain, NoneMissed, LeftOut, Coming, DeviceAdded, DeviceRemoved
<1>4. CASE DaemonExits
  <2>1. exported' = {} /\ running' = 0 /\ UNCHANGED <<inbox, starts>>
    BY <1>4 DEF DaemonExits
  <2> QED
    BY <1>1, <1>2, <2>1 DEF BackAgain, NoneMissed, LeftOut, NoneLeft, ListedOnce
<1>5. CASE Enable
  <2>1. UNCHANGED <<exported, running, inbox, starts>>
    BY <1>5 DEF Enable
  <2> QED
    BY <1>1, <2>1 DEF BackAgain, NoneMissed, LeftOut, NoneLeft, ListedOnce, Coming, Going,
       DeviceAdded, DeviceRemoved
<1>6. ASSUME NEW m, Send(m), UNCHANGED <<running, starts>>,
             \A p \in exported' : m = DeviceAdded(p) \/ (p \in exported /\ m # DeviceRemoved(p)),
             \A p \in exported : p \in exported' \/ m = DeviceRemoved(p)
      PROVE  DevicesInv'
  <2>1. BackAgain'
    BY <1>6, SentBackAgain
  <2>2. /\ \A p : Coming(p)' <=> Coming(p) \/ m = DeviceAdded(p)
        /\ \A p : Going(p)' <=> Going(p) \/ m = DeviceRemoved(p)
    BY <1>6, SentIsQueued
  <2>3. NoneMissed' /\ LeftOut'
    BY <1>1, <1>6, <2>2 DEF NoneMissed, LeftOut
  <2>4. NoneLeft'
    BY <1>1, <1>6, <2>2 DEF NoneLeft
  <2>5. ListedOnce'
    BY <1>1, <1>6 DEF ListedOnce
  <2> QED
    BY <2>1, <2>3, <2>4, <2>5
<1>7. CASE AddDevice
  <2> PICK p : p = devcount'
    OBVIOUS
  <2>1. exported' = exported \union {p} /\ Send(DeviceAdded(p)) /\ UNCHANGED <<running, starts>>
    BY <1>7 DEF AddDevice
  <2>2. \A q : DeviceAdded(p) # DeviceRemoved(q)
    BY DEF DeviceAdded, DeviceRemoved
  <2> QED
    BY <1>6, <2>1, <2>2
<1>8. ASSUME NEW p \in Path, RemoveDevice(p) PROVE DevicesInv'
  <2>1. exported' = exported \ {p} /\ Send(DeviceRemoved(p)) /\ UNCHANGED <<running, starts>>
    BY <1>8 DEF RemoveDevice
  <2>2. \A q : DeviceRemoved(p) = DeviceRemoved(q) => p = q
    BY DEF DeviceRemoved
  <2> QED
    BY <1>6, <2>1, <2>2
<1>9. CASE EmitPropertiesChanged
  <2>1. PICK on \in changed : Send(PropertiesChanged(on))
    BY <1>9 DEF EmitPropertiesChanged
  <2>2. UNCHANGED <<exported, running, starts>>
    BY <1>9 DEF EmitPropertiesChanged
  <2>3. \A q : PropertiesChanged(on) # DeviceRemoved(q)
    BY DEF PropertiesChanged, DeviceRemoved
  <2> QED
    BY <1>6, <2>1, <2>2, <2>3
<1> QED
  BY <1>3, <1>4, <1>5, <1>7, <1>8, <1>9 DEF Daemon

(* A blocked client goes on with its job: nothing is taken off the queue. *)
LEMMA BlockedKeepsDevices ==
    ASSUME TypeOK, DevicesInv, Blocked
    PROVE  DevicesInv'
<1> USE DEF DevicesInv
<1>1. UNCHANGED <<exported, running, starts, inbox, from>>
  BY DEF Blocked, Demarshal, Listed, AddedAlone, daemonVars
<1>2. (\A p : Coming(p)' <=> Coming(p)) /\ (\A p : Going(p)' <=> Going(p)) /\ BackAgain'
  BY <1>1 DEF BackAgain, Coming, Going, DeviceAdded, DeviceRemoved
<1>3. ASSUME NEW p \in Path, Demarshal(p) PROVE DevicesInv'
  <2>1. /\ job.kind = "list" /\ UNCHANGED <<listed, devices>> /\ devices = {}
        /\ job'.kind = "list" /\ job'.then = job.then /\ job'.for = job.for
        /\ job'.todo = job.todo \ {p}
        /\ job'.made = IF p \in exported THEN job.made \union {p} ELSE job.made
    BY <1>3 DEF TypeOK, Jobs, Demarshal, Obtained, Cached, NewObject, ListedOnce
  <2> QED
    BY <1>1, <1>2, <2>1 DEF NoneMissed, LeftOut, NoneLeft, ListedOnce
<1>4. CASE Listed
  <2>1. /\ job.kind = "list" /\ job.todo = {} /\ listed'
        /\ devices' = IF job.then = "remove" THEN job.made \ {job.for} ELSE job.made
    BY <1>4 DEF Listed
  <2>2. /\ job'.kind # "list" /\ job'.made = {}
        /\ job'.kind # "add" => job'.kind = "none"
    BY <1>4 DEF Listed, AddJob, NoJob
  <2>3. NoneMissed'
    BY <1>1, <1>2, <2>1, <2>2 DEF NoneMissed, LeftOut
  <2>4. NoneLeft' /\ LeftOut' /\ ListedOnce'
    BY <1>1, <1>2, <2>1, <2>2 DEF NoneLeft, LeftOut, ListedOnce
  <2> QED
    BY <1>2, <2>3, <2>4
<1>5. CASE AddedAlone
  <2>1. /\ job.kind = "add" /\ job'.kind = "none" /\ job'.made = {} /\ listed' = listed
        /\ devices' = IF listed /\ job.for \notin devices /\ job.for \in exported
                      THEN devices \union {job.for} ELSE devices
    BY <1>5 DEF AddedAlone, Added, ByPath, Obtained, Cached, NewObject, NoJob
  <2> QED
    BY <1>1, <1>2, <2>1 DEF NoneMissed, LeftOut, NoneLeft, ListedOnce
<1> QED
  BY <1>3, <1>4, <1>5 DEF Blocked

(* Somebody asks for the devices while nothing is listed. *)
LEMMA GetDevicesKeeps ==
    ASSUME TypeOK, DevicesInv, Ready, ~listed, NEW then, NEW for, GetDevices(then, for),
           BackAgain', UNCHANGED <<exported, running, starts, listed, devices>>,
           then = "remove" /\ for \in exported => Coming(for)'
    PROVE  DevicesInv'
<1> USE DEF DevicesInv
<1>1. devices = {}
  BY DEF ListedOnce
<1>2. CASE running # 0 /\ job' = ListJob(then, for) /\ from' = running
  <2>1. /\ job'.kind = "list" /\ job'.todo = exported /\ job'.made = {}
        /\ job'.then = then /\ job'.for = for
    BY <1>2 DEF ListJob
  <2> QED
    BY <1>1, <1>2, <2>1 DEF NoneMissed, LeftOut, NoneLeft, ListedOnce
<1>3. CASE running = 0 /\ job' = AddJob(then, for) /\ UNCHANGED from
  <2>1. job'.kind # "list" /\ job'.made = {}
    BY <1>3 DEF AddJob, NoJob
  <2> QED
    BY <1>1, <1>3, <2>1 DEF NoneMissed, LeftOut, NoneLeft, ListedOnce
<1> QED
  BY <1>2, <1>3 DEF GetDevices

LEMMA HandleKeepsDevices ==
    ASSUME TypeOK, DevicesInv, User \/ Handle
    PROVE  DevicesInv'
<1> USE DEF DevicesInv
<1>1. CASE ListDevices
  <2>1. UNCHANGED <<exported, running, starts, inbox, listed, devices>> /\ Ready /\ ~listed
    BY <1>1 DEF ListDevices, daemonVars
  <2>2. BackAgain' /\ GetDevices("nothing", 0)
    BY <1>1, <2>1 DEF ListDevices, BackAgain, DeviceAdded, DeviceRemoved
  <2> QED
    BY <2>1, <2>2, GetDevicesKeeps
<1>2. CASE ReadProperties \/ DeferredNotify
  <2>1. UNCHANGED <<exported, running, starts, inbox, listed, devices, from, job>>
    BY <1>2 DEF ReadProperties, DeferredNotify, daemonVars, deviceVars
  <2> QED
    BY <2>1 DEF BackAgain, NoneMissed, LeftOut, NoneLeft, ListedOnce, Coming, Going,
       DeviceAdded, DeviceRemoved
<1>3. CASE HandleDeviceAdded \/ HandleDeviceRemoved \/ HandlePropertiesChanged
  <2> PICK m : m = Head(inbox)
    OBVIOUS
  <2>1. /\ Ready /\ inbox # <<>> /\ inbox' = Tail(inbox)
        /\ UNCHANGED <<exported, running, starts, listed>>
        /\ job.kind = "none" /\ job.made = {} /\ m \in Message
    BY <1>3 DEF HandleDeviceAdded, HandleDeviceRemoved, HandlePropertiesChanged, Receive, Ready,
       NoJob, daemonVars, deviceVars, TypeOK
  <2>2. /\ BackAgain' /\ \A p \in exported : m = DeviceRemoved(p) => Coming(p)'
        /\ \A p : Coming(p) <=> Coming(p)' \/ m = DeviceAdded(p)
        /\ \A p : Going(p) <=> Going(p)' \/ m = DeviceRemoved(p)
    BY <2>1, TakenBackAgain, TakenIsGone
  <2>3. CASE HandlePropertiesChanged
    <3>1. UNCHANGED <<devices, from, job>> /\ m.type = "PropertiesChanged"
      BY <2>3 DEF HandlePropertiesChanged, Receive, deviceVars
    <3>2. \A p : m # DeviceAdded(p) /\ m # DeviceRemoved(p)
      BY <3>1 DEF DeviceAdded, DeviceRemoved
    <3> QED
      BY <2>1, <2>2, <3>1, <3>2 DEF NoneMissed, LeftOut, NoneLeft, ListedOnce
  <2>4. CASE HandleDeviceAdded
    <3>1. m.type = "DeviceAdded"
      BY <2>4 DEF HandleDeviceAdded, Receive
    <3>2. m = DeviceAdded(m.path) /\ \A p : m # DeviceRemoved(p) /\ (m = DeviceAdded(p) => p = m.path)
      BY <2>1, <3>1 DEF DeviceAdded, DeviceRemoved, Message
    <3>3. CASE ~listed
      <4>1. GetDevices("add", m.path) /\ UNCHANGED devices
        BY <2>4, <3>3 DEF HandleDeviceAdded
      <4> QED
        BY <2>1, <2>2, <3>3, <4>1, GetDevicesKeeps
    <3>4. CASE listed
      <4>1. /\ UNCHANGED <<job, from>>
            /\ devices' = IF m.path \notin devices /\ m.path \in exported
                          THEN devices \union {m.path} ELSE devices
        BY <2>4, <3>4 DEF HandleDeviceAdded, Added, ByPath, Obtained, Cached, NewObject
      <4> QED
        BY <2>1, <2>2, <3>2, <3>4, <4>1 DEF NoneMissed, LeftOut, NoneLeft, ListedOnce
    <3> QED
      BY <3>3, <3>4
  <2>5. CASE HandleDeviceRemoved
    <3>1. m.type = "DeviceRemoved"
      BY <2>5 DEF HandleDeviceRemoved, Receive
    <3>2. m = DeviceRemoved(m.path) /\ \A p : m # DeviceAdded(p) /\ (m = DeviceRemoved(p) => p = m.path)
      BY <2>1, <3>1 DEF DeviceAdded, DeviceRemoved, Message
    <3>3. m.path \in exported => Coming(m.path)'
      BY <2>2, <3>2
    <3>4. CASE ~listed
      <4>1. GetDevices("remove", m.path) /\ UNCHANGED devices
        BY <2>5, <3>4 DEF HandleDeviceRemoved
      <4> QED
        BY <2>1, <2>2, <3>3, <3>4, <4>1, GetDevicesKeeps
    <3>5. CASE listed
      <4>1. UNCHANGED <<job, from>> /\ devices' = devices \ {m.path}
        BY <2>5, <3>5 DEF HandleDeviceRemoved, ByPath
      <4> QED
        BY <2>1, <2>2, <3>2, <3>3, <3>5, <4>1 DEF NoneMissed, LeftOut, NoneLeft, ListedOnce
    <3> QED
      BY <3>4, <3>5
  <2> QED
    BY <1>3, <2>3, <2>4, <2>5
<1> QED
  BY <1>1, <1>2, <1>3 DEF User, Handle

LEMMA DevicesInvHolds == Spec => []DevicesInv
<1>1. Init => DevicesInv
  <2> SUFFICES ASSUME Init PROVE DevicesInv
    OBVIOUS
  <2>1. Len(inbox) = 0 /\ ~listed /\ devices = {} /\ job.kind = "none" /\ job.made = {}
    BY DEF Init, NoJob
  <2>2. from = 0 /\ starts = running /\ running \in {0, 1}
    BY DEF Init
  <2> QED
    BY <2>1, <2>2 DEF DevicesInv, BackAgain, NoneMissed, LeftOut, NoneLeft, ListedOnce
<1>2. TypeOK /\ DevicesInv /\ [Next]_vars => DevicesInv'
  <2> SUFFICES ASSUME TypeOK, DevicesInv, [Next]_vars PROVE DevicesInv'
    OBVIOUS
  <2>1. CASE UNCHANGED vars
    BY <2>1 DEF vars, DevicesInv, BackAgain, NoneMissed, LeftOut, NoneLeft, ListedOnce, Coming,
       Going, DeviceAdded, DeviceRemoved
  <2> QED
    BY <2>1, DaemonKeepsDevices, BlockedKeepsDevices, HandleKeepsDevices DEF Next
<1> QED
  BY <1>1, <1>2, TypeCorrect, PTL DEF Spec

(* However daemons and devices come and go while the client blocks in a call *)
(* or signals queue, at rest a list misses no device of the daemon, and has  *)
(* no other if it is this daemon's.                                          *)
THEOREM DevicesAlwaysFollow == Spec => []DevicesFollow
<1>1. TypeOK /\ DevicesInv => DevicesFollow
  <2> SUFFICES ASSUME TypeOK, DevicesInv, Quiet, running # 0, listed
               PROVE  exported \subseteq devices /\ (from = running => devices = exported)
    BY DEF DevicesFollow
  <2>1. (\A p : ~Coming(p) /\ ~Going(p)) /\ job.kind = "none"
    BY DEF Quiet, Coming, Going, NoJob
  <2> QED
    BY <2>1 DEF DevicesInv, NoneMissed, NoneLeft
<1> QED
  BY <1>1, DevicesInvHolds, TypeCorrect, PTL

-----------------------------------------------------------------------------
(* RemoteCalls.  What becomes of a call: the daemon has it, or it has been    *)
(* answered, and the answer waits behind the signal that tells the outcome.   *)

Text == Value \union Invalid \union {"none"}

CallMessage ==
    [type: {"Updated", "Removed", "NameLost", "done", "error"}, value: Text,
     call: Call \union {Calls!Nobody}]

CallRecord ==
    [op: {"none", "Add"} \union Calls!OfObject, value: Text,
     state: {"none", "out", "done", "error", "dropped"}]

IsReply(m) == m.type \in {"done", "error"}

Pending(c) == c \in waiting \/ \E i \in 1 .. Len(requests) : requests[i] = c

Replied(c) == \E i \in 1 .. Len(replies) : IsReply(replies[i]) /\ replies[i].call = c

(* Types, and a reply is one to a call. *)
CallsType ==
    /\ calls \in [Call -> CallRecord]
    /\ requests \in Seq(Call)
    /\ waiting \subseteq Call
    /\ IsFiniteSet(waiting)
    /\ replies \in Seq(CallMessage)
    /\ \A i \in 1 .. Len(replies) : IsReply(replies[i]) => replies[i].call \in Call
    /\ {held, used, edited} \subseteq BOOLEAN
    /\ settings \in Text /\ content \in Text

(* The daemon knows of no call that was not made, ... *)
Made == \A c \in Call : Pending(c) \/ c \in performed \/ Replied(c) => calls[c].state # "none"

(* ... has done and answered none of those it still has, ... *)
Unanswered ==
    \A c \in Call : Pending(c) => c \notin performed /\ ~Replied(c) /\ calls[c].state \notin {"done", "error"}

(* ... and has each once. *)
OneLine ==
    /\ \A i, j \in 1 .. Len(requests) : requests[i] = requests[j] => i = j
    /\ \A i \in 1 .. Len(requests) : requests[i] \notin waiting

(* A reply says what was done, ... *)
RepliesTrue ==
    \A i \in 1 .. Len(replies) :
        /\ replies[i].type = "done" => replies[i].call \in performed
        /\ replies[i].type = "error" => replies[i].call \notin performed

SignalAhead(type, c, i) ==
    \E j \in 1 .. Len(replies) : j < i /\ replies[j].type = type /\ replies[j].call = c

(* ... behind the signal that says so too, unless that was handled already. *)
SignalFirst ==
    \A c \in Call : \A i \in 1 .. Len(replies) :
        replies[i].type = "done" /\ replies[i].call = c /\ calls[c].state = "out" =>
           /\ calls[c].op = "Update" => c \in applied \/ SignalAhead("Updated", c, i)
           /\ calls[c].op = "Delete" => ~held \/ SignalAhead("Removed", c, i)

(* CallsSeen, of the calls. *)
CallerTold ==
    \A c \in Call :
        /\ calls[c].state = "done" => c \in performed
        /\ calls[c].state = "error" => c \notin performed
        /\ calls[c].state = "done" /\ calls[c].op = "Update" => c \in applied
        /\ calls[c].state = "done" /\ calls[c].op = "Delete" => ~held
        /\ calls[c].state = "out" => Pending(c) \/ Replied(c)
        /\ calls[c].state = "out" /\ calls[c].op \in Calls!OfObject => held \/ used

LastUpdate(v) ==
    \E i \in 1 .. Len(replies) :
        /\ replies[i].type = "Updated" /\ replies[i].value = v
        /\ \A j \in 1 .. Len(replies) : j > i => replies[j].type # "Updated"

(* The last settings the daemon announced are its settings: they are on their *)
(* way, or in the object.                                                     *)
Current ==
    \/ LastUpdate(settings)
    \/ /\ \A i \in 1 .. Len(replies) : replies[i].type # "Updated"
       /\ (held \/ used) /\ ~edited => content = settings

CallsInv ==
    /\ CallsType /\ Made /\ Unanswered /\ OneLine /\ RepliesTrue /\ SignalFirst
    /\ CallerTold /\ Current

-----------------------------------------------------------------------------

LEMMA Sent ==
    ASSUME replies \in Seq(CallMessage), NEW ms \in Seq(CallMessage), Calls!Send(ms)
    PROVE  /\ replies' \in Seq(CallMessage)
           /\ Len(replies) \in Nat /\ Len(ms) \in Nat
           /\ Len(replies') = Len(replies) + Len(ms)
           /\ \A i \in 1 .. Len(replies) : i \in 1 .. Len(replies') /\ replies'[i] = replies[i]
           /\ \A k \in 1 .. Len(ms) : \E i \in 1 .. Len(replies') :
                 i = Len(replies) + k /\ replies'[i] = ms[k]
           /\ \A i \in 1 .. Len(replies') :
                 \/ i \in 1 .. Len(replies) /\ replies'[i] = replies[i]
                 \/ \E k \in 1 .. Len(ms) : i = Len(replies) + k /\ replies'[i] = ms[k]
<1>1. replies' = replies \o ms
  BY DEF Calls!Send
<1>2. Len(replies) \in Nat /\ Len(ms) \in Nat /\ replies' \in Seq(CallMessage)
      /\ Len(replies') = Len(replies) + Len(ms)
  BY <1>1
<1>3. \A i \in 1 .. Len(replies) : i \in 1 .. Len(replies') /\ replies'[i] = replies[i]
  BY <1>1, <1>2
<1>4. \A k \in 1 .. Len(ms) :
         Len(replies) + k \in 1 .. Len(replies') /\ replies'[Len(replies) + k] = ms[k]
  BY <1>1, <1>2
<1>5. ASSUME NEW i \in 1 .. Len(replies'), i \notin 1 .. Len(replies)
      PROVE  \E k \in 1 .. Len(ms) : i = Len(replies) + k /\ replies'[i] = ms[k]
  <2>1. i - Len(replies) \in 1 .. Len(ms) /\ i = Len(replies) + (i - Len(replies))
    BY <1>2, <1>5
  <2> QED
    BY <1>4, <2>1
<1> QED
  BY <1>2, <1>3, <1>4, <1>5

(* What is queued, as a relation between the queues. *)
Queued(ms) ==
    /\ \A i \in 1 .. Len(replies) : i \in 1 .. Len(replies') /\ replies'[i] = replies[i]
    /\ \A k \in 1 .. Len(ms) : \E i \in 1 .. Len(replies') :
          i = Len(replies) + k /\ replies'[i] = ms[k]
    /\ \A i \in 1 .. Len(replies') :
          \/ i \in 1 .. Len(replies) /\ replies'[i] = replies[i]
          \/ \E k \in 1 .. Len(ms) : i = Len(replies) + k /\ replies'[i] = ms[k]

Answers(ms, c) == \E k \in 1 .. Len(ms) : IsReply(ms[k]) /\ ms[k].call = c

LEMMA SentQueued ==
    ASSUME replies \in Seq(CallMessage), NEW ms \in Seq(CallMessage), Calls!Send(ms)
    PROVE  replies' \in Seq(CallMessage) /\ Queued(ms)
  BY Sent DEF Queued

LEMMA RepliedQueued ==
    ASSUME NEW ms, Queued(ms)
    PROVE  \A c : Replied(c)' <=> Replied(c) \/ Answers(ms, c)
<1> SUFFICES ASSUME NEW c PROVE Replied(c)' <=> Replied(c) \/ Answers(ms, c)
  OBVIOUS
<1>1. Replied(c)' => Replied(c) \/ Answers(ms, c)
  <2> SUFFICES ASSUME NEW i \in 1 .. Len(replies'), IsReply(replies'[i]), replies'[i].call = c
               PROVE  Replied(c) \/ Answers(ms, c)
    BY DEF Replied
  <2>1. CASE i \in 1 .. Len(replies) /\ replies'[i] = replies[i]
    BY <2>1 DEF Replied
  <2>2. ASSUME NEW k \in 1 .. Len(ms), replies'[i] = ms[k] PROVE Answers(ms, c)
    BY <2>2 DEF Answers
  <2> QED
    BY <2>1, <2>2 DEF Queued
<1>2. Replied(c) => Replied(c)'
  BY DEF Replied, Queued
<1>3. ASSUME NEW k \in 1 .. Len(ms), IsReply(ms[k]), ms[k].call = c
      PROVE  Replied(c)'
  BY <1>3 DEF Replied, Queued
<1> QED
  BY <1>1, <1>2, <1>3 DEF Answers

LEMMA SignalFirstQueued ==
    ASSUME SignalFirst, NEW ms, Queued(ms), UNCHANGED <<calls, applied>>, held' => held,
           held \in BOOLEAN, Len(replies) \in Nat,
           \A c \in Call : \A k \in 1 .. Len(ms) : ms[k].type = "done" /\ ms[k].call = c =>
              /\ calls[c].op = "Update" => \E j \in 1 .. Len(ms) :
                    j < k /\ ms[j].type = "Updated" /\ ms[j].call = c
              /\ calls[c].op = "Delete" => \E j \in 1 .. Len(ms) :
                    j < k /\ ms[j].type = "Removed" /\ ms[j].call = c
    PROVE  SignalFirst'
<1> SUFFICES ASSUME NEW c \in Call, NEW i \in 1 .. Len(replies'),
                    replies'[i].type = "done", replies'[i].call = c, calls[c].state = "out"
             PROVE  /\ calls[c].op = "Update" => c \in applied \/ SignalAhead("Updated", c, i)'
                    /\ calls[c].op = "Delete" => ~held' \/ SignalAhead("Removed", c, i)'
  BY DEF SignalFirst
<1>1. CASE i \in 1 .. Len(replies) /\ replies'[i] = replies[i]
  <2>1. ASSUME NEW type, SignalAhead(type, c, i) PROVE SignalAhead(type, c, i)'
    BY <2>1 DEF SignalAhead, Queued
  <2> QED
    BY <1>1, <2>1 DEF SignalFirst
<1>2. ASSUME NEW k \in 1 .. Len(ms), i = Len(replies) + k, replies'[i] = ms[k]
      PROVE  /\ calls[c].op = "Update" => c \in applied \/ SignalAhead("Updated", c, i)'
             /\ calls[c].op = "Delete" => ~held' \/ SignalAhead("Removed", c, i)'
  <2>1. ASSUME NEW type, NEW j \in 1 .. Len(ms), j < k, ms[j].type = type, ms[j].call = c
        PROVE  SignalAhead(type, c, i)'
    <3>1. PICK n \in 1 .. Len(replies') : n = Len(replies) + j /\ replies'[n] = ms[j]
      BY DEF Queued
    <3> QED
      BY <1>2, <2>1, <3>1 DEF SignalAhead
  <2> QED
    BY <1>2, <2>1
<1> QED
  BY <1>1, <1>2 DEF Queued

LEMMA CurrentQueued ==
    ASSUME Current, NEW ms, Queued(ms), Len(replies) \in Nat, Len(ms) \in Nat,
           UNCHANGED <<held, used, edited, content>>,
           \/ /\ settings' = settings
              /\ \A k \in 1 .. Len(ms) : ms[k].type # "Updated"
           \/ \E k \in 1 .. Len(ms) :
                 /\ ms[k].type = "Updated" /\ ms[k].value = settings'
                 /\ \A j \in 1 .. Len(ms) : j > k => ms[j].type # "Updated"
    PROVE  Current'
<1>1. CASE settings' = settings /\ \A k \in 1 .. Len(ms) : ms[k].type # "Updated"
  <2>1. \A i \in 1 .. Len(replies') :
           (i \in 1 .. Len(replies) /\ replies'[i] = replies[i]) \/ replies'[i].type # "Updated"
    BY <1>1 DEF Queued
  <2> PICK v : v = settings
    OBVIOUS
  <2>2. ASSUME LastUpdate(v) PROVE LastUpdate(v)'
    <3>1. PICK i \in 1 .. Len(replies) :
             /\ replies[i].type = "Updated" /\ replies[i].value = v
             /\ \A j \in 1 .. Len(replies) : j > i => replies[j].type # "Updated"
      BY <2>2 DEF LastUpdate
    <3>2. i \in 1 .. Len(replies') /\ replies'[i] = replies[i]
      BY DEF Queued
    <3> QED
      BY <2>1, <3>1, <3>2 DEF LastUpdate
  <2>3. (\A i \in 1 .. Len(replies) : replies[i].type # "Updated")
           => (\A i \in 1 .. Len(replies') : replies'[i].type # "Updated")
    BY <2>1
  <2>4. LastUpdate(v)' => LastUpdate(settings)'
    BY <1>1 DEF LastUpdate
  <2> QED
    BY <1>1, <2>2, <2>3, <2>4 DEF Current
<1>2. ASSUME NEW k \in 1 .. Len(ms), ms[k].type = "Updated", ms[k].value = settings',
             \A j \in 1 .. Len(ms) : j > k => ms[j].type # "Updated"
      PROVE  Current'
  <2>1. PICK n \in 1 .. Len(replies') : n = Len(replies) + k /\ replies'[n] = ms[k]
    BY DEF Queued
  <2>2. ASSUME NEW i \in 1 .. Len(replies'), i > n PROVE replies'[i].type # "Updated"
    <3>1. i \notin 1 .. Len(replies)
      BY <2>1, <2>2
    <3>2. PICK j \in 1 .. Len(ms) : i = Len(replies) + j /\ replies'[i] = ms[j]
      BY <3>1 DEF Queued
    <3>3. j > k
      BY <2>1, <2>2, <3>2
    <3> QED
      BY <1>2, <3>2, <3>3
  <2>3. replies'[n].type = "Updated" /\ replies'[n].value = settings'
    BY <1>2, <2>1
  <2>4. LastUpdate(settings)'
    BY <2>2, <2>3 DEF LastUpdate
  <2> QED
    BY <2>4 DEF Current
<1> QED
  BY <1>1, <1>2

(* A step of the daemon may answer calls that it had, and has no more: behind *)
(* the signal of what it did, and once it did it.                             *)
Honest(ms) ==
    /\ \A k \in 1 .. Len(ms) : IsReply(ms[k]) => ms[k].call \in Call
    /\ \A c \in Call : Pending(c) => Pending(c)' \/ Answers(ms, c)
    /\ \A c \in Call : \A k \in 1 .. Len(ms) : IsReply(ms[k]) /\ ms[k].call = c =>
          /\ Pending(c) /\ ~Pending(c)'
          /\ ms[k].type = "done" => c \in performed'
          /\ ms[k].type = "error" => c \notin performed'
    /\ \A c \in Call : \A k \in 1 .. Len(ms) : ms[k].type = "done" /\ ms[k].call = c =>
          /\ calls[c].op = "Update" => \E j \in 1 .. Len(ms) :
                j < k /\ ms[j].type = "Updated" /\ ms[j].call = c
          /\ calls[c].op = "Delete" => \E j \in 1 .. Len(ms) :
                j < k /\ ms[j].type = "Removed" /\ ms[j].call = c
    /\ \/ /\ settings' = settings
          /\ \A k \in 1 .. Len(ms) : ms[k].type # "Updated"
       \/ \E k \in 1 .. Len(ms) :
             /\ ms[k].type = "Updated" /\ ms[k].value = settings'
             /\ \A j \in 1 .. Len(ms) : j > k => ms[j].type # "Updated"

Progress ==
    /\ \A c \in Call : Pending(c)' => Pending(c) /\ c \notin performed'
    /\ \A c \in Call : c \in performed => c \in performed'
    /\ \A c \in Call : c \in performed' => c \in performed \/ Pending(c)

LEMMA DaemonAnswers ==
    ASSUME CallsInv, UNCHANGED Calls!clientVars,
           NEW ms \in Seq(CallMessage), Calls!Send(ms), Honest(ms), Progress,
           requests' \in Seq(Call), waiting' \subseteq Call, IsFiniteSet(waiting'),
           settings' \in Text, OneLine'
    PROVE  CallsInv'
<1>0. UNCHANGED <<calls, held, used, content, edited, applied>>
  BY DEF Calls!clientVars
<1>1. replies' \in Seq(CallMessage) /\ Queued(ms) /\ Len(replies) \in Nat /\ Len(ms) \in Nat
  BY SentQueued DEF CallsInv, CallsType
<1>2. ASSUME NEW i \in 1 .. Len(replies'), IsReply(replies'[i])
      PROVE  replies'[i].call \in Call
  <2>1. CASE i \in 1 .. Len(replies) /\ replies'[i] = replies[i]
    BY <1>2, <2>1 DEF CallsInv, CallsType
  <2>2. ASSUME NEW k \in 1 .. Len(ms), replies'[i] = ms[k]
        PROVE  replies'[i].call \in Call
    BY <1>2, <2>2 DEF Honest
  <2> QED
    BY <1>1, <2>1, <2>2 DEF Queued
<1>3. CallsType'
  BY <1>0, <1>1, <1>2 DEF CallsInv, CallsType
<1>4. \A c : Replied(c)' <=> Replied(c) \/ Answers(ms, c)
  BY <1>1, RepliedQueued
<1>5. \A c \in Call : Answers(ms, c) => Pending(c) /\ ~Pending(c)'
  BY DEF Answers, Honest
<1>6. Made'
  BY <1>0, <1>4, <1>5 DEF CallsInv, Made, Progress
<1>7. Unanswered'
  BY <1>0, <1>4, <1>5 DEF CallsInv, Unanswered, Progress
<1>8. RepliesTrue'
  <2> SUFFICES ASSUME NEW i \in 1 .. Len(replies')
               PROVE  /\ replies'[i].type = "done" => replies'[i].call \in performed'
                      /\ replies'[i].type = "error" => replies'[i].call \notin performed'
    BY DEF RepliesTrue
  <2>1. CASE i \in 1 .. Len(replies) /\ replies'[i] = replies[i]
    <3>1. IsReply(replies[i]) => replies[i].call \in Call /\ Replied(replies[i].call)
      BY <2>1 DEF CallsInv, CallsType, Replied
    <3>2. /\ replies[i].type = "done" => replies[i].call \in performed
          /\ replies[i].type = "error" => replies[i].call \notin performed
      BY <2>1 DEF CallsInv, RepliesTrue
    <3> QED
      BY <2>1, <3>1, <3>2 DEF CallsInv, Unanswered, IsReply, Progress
  <2>2. ASSUME NEW k \in 1 .. Len(ms), replies'[i] = ms[k]
        PROVE  /\ replies'[i].type = "done" => replies'[i].call \in performed'
               /\ replies'[i].type = "error" => replies'[i].call \notin performed'
    BY <2>2 DEF IsReply, Honest
  <2> QED
    BY <1>1, <2>1, <2>2 DEF Queued
<1>9. SignalFirst'
  <2>1. SignalFirst /\ held \in BOOLEAN
    BY DEF CallsInv, CallsType
  <2> QED
    BY <1>0, <1>1, <2>1, SignalFirstQueued DEF Honest
<1>10. CallerTold'
  BY <1>0, <1>4 DEF CallsInv, CallerTold, Unanswered, Progress, Honest
<1>11. Current'
  BY <1>0, <1>1, CurrentQueued DEF CallsInv, Honest
<1> QED
  BY <1>3, <1>6, <1>7, <1>8, <1>9, <1>10, <1>11 DEF CallsInv

LEMMA AnswerAlone ==
    ASSUME CallsInv, UNCHANGED Calls!clientVars, UNCHANGED settings, OneLine',
           requests' \in Seq(Call), waiting' \subseteq Call, IsFiniteSet(waiting'),
           NEW c \in Call, Pending(c), \A d \in Call : Pending(d)' <=> Pending(d) /\ d # c,
           NEW r \in CallMessage, r.call = c, Calls!Send(<<r>>),
           \/ r.type = "error" /\ performed' = performed
           \/ /\ r.type = "done" /\ performed' = performed \union {c}
              /\ calls[c].op \notin {"Update", "Delete"}
    PROVE  CallsInv'
<1> PICK ms : ms = <<r>>
  OBVIOUS
<1>1. ms \in Seq(CallMessage) /\ Len(ms) = 1 /\ ms[1] = r
  OBVIOUS
<1>2. \A k \in 1 .. Len(ms) : ms[k] = r
  BY <1>1
<1>3. c \notin performed
  BY DEF CallsInv, Unanswered
<1>4. Progress
  BY <1>3 DEF Progress, CallsInv, Unanswered
<1>5. \A d \in Call : Answers(ms, d) <=> d = c
  BY <1>1, <1>2 DEF Answers, IsReply
<1>6. Honest(ms)
  <2>1. \A k \in 1 .. Len(ms) : ms[k].type # "Updated"
    BY <1>2
  <2>2. \A d \in Call : \A k \in 1 .. Len(ms) : ms[k].call = d => d = c
    BY <1>2
  <2> QED
    BY <1>2, <1>3, <1>5, <2>1, <2>2 DEF Honest
<1>7. settings' \in Text
  BY DEF CallsInv, CallsType
<1> QED
  BY <1>1, <1>4, <1>6, <1>7, DaemonAnswers

LEMMA AnswerSignalled ==
    ASSUME CallsInv, UNCHANGED Calls!clientVars, OneLine',
           requests' \in Seq(Call), waiting' \subseteq Call, IsFiniteSet(waiting'),
           NEW c \in Call, Pending(c), \A d \in Call : Pending(d)' <=> Pending(d) /\ d # c,
           NEW s \in CallMessage, NEW r \in CallMessage, s.call = c, r.call = c,
           r.type = "done", Calls!Send(<<s, r>>), performed' = performed \union {c},
           \/ calls[c].op = "Update" /\ s.type = "Updated" /\ s.value = settings'
           \/ calls[c].op = "Delete" /\ s.type = "Removed" /\ settings' = settings
    PROVE  CallsInv'
<1> PICK ms : ms = <<s, r>>
  OBVIOUS
<1>1. ms \in Seq(CallMessage) /\ Len(ms) = 2 /\ ms[1] = s /\ ms[2] = r
  OBVIOUS
<1>2. \A k \in 1 .. Len(ms) : (k = 1 /\ ms[k] = s) \/ (k = 2 /\ ms[k] = r)
  BY <1>1
<1>3. c \notin performed
  BY DEF CallsInv, Unanswered
<1>4. Progress
  BY <1>3 DEF Progress, CallsInv, Unanswered
<1>5. \A d \in Call : Answers(ms, d) <=> d = c
  BY <1>1, <1>2 DEF Answers, IsReply
<1>6. Honest(ms)
  <2>1. \A k \in 1 .. Len(ms) : ms[k].call = c
    BY <1>2
  <2>2. \A k \in 1 .. Len(ms) : IsReply(ms[k]) => k = 2 /\ ms[k].type = "done"
    BY <1>2 DEF IsReply
  <2>3. \/ /\ settings' = settings
           /\ \A k \in 1 .. Len(ms) : ms[k].type # "Updated"
        \/ \E k \in 1 .. Len(ms) :
              /\ ms[k].type = "Updated" /\ ms[k].value = settings'
              /\ \A j \in 1 .. Len(ms) : j > k => ms[j].type # "Updated"
    <3>1. CASE s.type = "Updated" /\ s.value = settings'
      <4>1. \A j \in 1 .. Len(ms) : j > 1 => ms[j].type # "Updated"
        BY <1>2
      <4> QED
        BY <1>1, <3>1, <4>1
    <3>2. CASE s.type = "Removed" /\ settings' = settings
      BY <1>2, <3>2
    <3> QED
      BY <3>1, <3>2
  <2>4. \A k \in 1 .. Len(ms) : ms[k].type = "done" =>
           /\ calls[c].op = "Update" => \E j \in 1 .. Len(ms) :
                 j < k /\ ms[j].type = "Updated" /\ ms[j].call = c
           /\ calls[c].op = "Delete" => \E j \in 1 .. Len(ms) :
                 j < k /\ ms[j].type = "Removed" /\ ms[j].call = c
    <3> TAKE k \in 1 .. Len(ms)
    <3>1. ms[k].type = "done" => 1 \in 1 .. Len(ms) /\ 1 < k
      BY <1>1, <1>2
    <3> QED
      BY <1>1, <3>1
  <2> QED
    BY <1>3, <1>5, <2>1, <2>2, <2>3, <2>4 DEF Honest
<1>7. settings' \in Text
  BY DEF CallsInv, CallsType, CallMessage
<1> QED
  BY <1>1, <1>4, <1>6, <1>7, DaemonAnswers

(* A signal that answers nothing. *)
LEMMA SignalAlone ==
    ASSUME CallsInv, UNCHANGED Calls!clientVars, UNCHANGED <<waiting, requests, performed>>,
           NEW s \in CallMessage, ~IsReply(s), Calls!Send(<<s>>),
           IF s.type = "Updated" THEN s.value = settings' ELSE settings' = settings
    PROVE  CallsInv'
<1> PICK ms : ms = <<s>>
  OBVIOUS
<1>1. ms \in Seq(CallMessage) /\ Len(ms) = 1 /\ ms[1] = s
  OBVIOUS
<1>2. \A k \in 1 .. Len(ms) : k = 1 /\ ms[k] = s
  BY <1>1
<1>3. \A c : Pending(c)' <=> Pending(c)
  BY DEF Pending
<1>4. Progress
  BY <1>3 DEF Progress, CallsInv, Unanswered
<1>5. Honest(ms)
  BY <1>1, <1>2, <1>3 DEF Honest, IsReply
<1>6. OneLine' /\ requests' \in Seq(Call) /\ waiting' \subseteq Call /\ IsFiniteSet(waiting')
  BY DEF CallsInv, CallsType, OneLine
<1>7. settings' \in Text
  BY DEF CallsInv, CallsType, CallMessage
<1> QED
  BY <1>1, <1>4, <1>5, <1>6, <1>7, DaemonAnswers

LEMMA FinitePending ==
    ASSUME IsFiniteSet(waiting), requests \in Seq(Call)
    PROVE  IsFiniteSet(waiting \union Calls!ToSet(requests))
<1>1. Len(requests) \in Nat /\ DOMAIN requests = 1 .. Len(requests)
  OBVIOUS
<1>2. requests \in Surjection(1 .. Len(requests), Calls!ToSet(requests))
  BY <1>1 DEF Surjection, Calls!ToSet
<1>3. IsFiniteSet(1 .. Len(requests))
  BY <1>1, FS_Interval
<1>4. IsFiniteSet(Calls!ToSet(requests))
  BY <1>2, <1>3, FS_Surjection
<1> QED
  BY <1>4, FS_Union

(* A sequence without repetition as long as a finite set has all of it. *)
LEMMA AllInSequence ==
    ASSUME NEW S, IsFiniteSet(S), NEW q \in Calls!SetToSeqs(S)
    PROVE  /\ q \in Seq(S)
           /\ \A x \in S : \E i \in 1 .. Len(q) : q[i] = x
<1> PICK n : n = Cardinality(S)
  OBVIOUS
<1>0. Calls!Cardinality(S) = n
  BY DEF Calls!Cardinality, Cardinality
<1>1. n \in Nat
  BY FS_CardinalityType
<1>2. q \in [1 .. n -> S] /\ \A i, j \in 1 .. n : i # j => q[i] # q[j]
  BY <1>0 DEF Calls!SetToSeqs
<1>3. Len(q) = n /\ q \in Seq(S)
  BY <1>1, <1>2
<1>4. q \in Injection(1 .. n, S)
  BY <1>2 DEF Injection, IsInjective
<1>5. Cardinality(1 .. n) = n
  BY <1>1, FS_Interval
<1>6. q \in Surjection(1 .. n, S)
  BY <1>4, <1>5, FS_Injection
<1> QED
  BY <1>3, <1>6 DEF Surjection

(* The daemon takes the first request off its line. *)
LEMMA NextRequest ==
    ASSUME CallsInv, requests # <<>>
    PROVE  /\ Head(requests) \in Call
           /\ Tail(requests) \in Seq(Call)
           /\ requests' = Tail(requests) =>
                 /\ \A i, j \in 1 .. Len(requests') : requests'[i] = requests'[j] => i = j
                 /\ \A d : (\E i \in 1 .. Len(requests) : requests[i] = d) <=>
                        d = Head(requests) \/ \E i \in 1 .. Len(requests') : requests'[i] = d
                 /\ \A i \in 1 .. Len(requests') : requests'[i] # Head(requests)
<1> PICK q : q = requests
  OBVIOUS
<1>1. q \in Seq(Call) /\ q # <<>> /\ \A i, j \in 1 .. Len(q) : q[i] = q[j] => i = j
  BY DEF CallsInv, CallsType, OneLine
<1>2. /\ Len(q) \in Nat \ {0} /\ Head(q) = q[1] /\ Tail(q) \in Seq(Call)
      /\ Len(Tail(q)) = Len(q) - 1
      /\ \A i \in 1 .. Len(Tail(q)) : Tail(q)[i] = q[i + 1]
  BY <1>1
<1> PICK r : r = Tail(q)
  OBVIOUS
<1>3. \A i \in 1 .. Len(r) : i + 1 \in 1 .. Len(q) /\ r[i] = q[i + 1]
  BY <1>2
<1>4. \A i, j \in 1 .. Len(r) : r[i] = r[j] => i = j
  BY <1>1, <1>2, <1>3
<1>5. \A i \in 1 .. Len(r) : r[i] # q[1]
  BY <1>1, <1>2, <1>3
<1>6. ASSUME NEW i \in 1 .. Len(q), i # 1 PROVE \E j \in 1 .. Len(r) : r[j] = q[i]
  <2>1. i - 1 \in 1 .. Len(r) /\ (i - 1) + 1 = i
    BY <1>2, <1>6
  <2> QED
    BY <1>3, <2>1
<1>7. \A d : (\E i \in 1 .. Len(q) : q[i] = d) <=> d = q[1] \/ \E i \in 1 .. Len(r) : r[i] = d
  BY <1>2, <1>3, <1>6
<1>8. Head(requests) = q[1] /\ Head(requests) \in Call /\ Tail(requests) = r
  BY <1>1, <1>2
<1>9. ASSUME requests' = Tail(requests)
      PROVE  /\ \A i, j \in 1 .. Len(requests') : requests'[i] = requests'[j] => i = j
             /\ \A d : (\E i \in 1 .. Len(requests) : requests[i] = d) <=>
                    d = Head(requests) \/ \E i \in 1 .. Len(requests') : requests'[i] = d
             /\ \A i \in 1 .. Len(requests') : requests'[i] # Head(requests)
  <2>1. requests' = r
    BY <1>8, <1>9
  <2> QED
    BY <2>1, <1>4, <1>5, <1>7, <1>8
<1> QED
  BY <1>2, <1>8, <1>9

LEMMA ServeKeepsCalls ==
    ASSUME CallsInv, Calls!Serve
    PROVE  CallsInv'
<1> PICK c : c = Head(requests)
  OBVIOUS
<1>1. /\ requests # <<>> /\ requests' = Tail(requests) /\ UNCHANGED Calls!clientVars
      /\ UNCHANGED <<settings, performed>>
  BY DEF Calls!Serve
<1>2. /\ c \in Call /\ requests' \in Seq(Call)
      /\ \A i, j \in 1 .. Len(requests') : requests'[i] = requests'[j] => i = j
      /\ \A d : (\E i \in 1 .. Len(requests) : requests[i] = d) <=>
                  d = c \/ \E i \in 1 .. Len(requests') : requests'[i] = d
      /\ \A i \in 1 .. Len(requests') : requests'[i] # c
  BY <1>1, NextRequest
<1>3. Pending(c) /\ c \notin waiting
  BY <1>2 DEF Pending, CallsInv, OneLine
<1>4. \A i \in 1 .. Len(requests') : requests'[i] \notin waiting
  BY <1>2 DEF CallsInv, OneLine
<1>5. CASE waiting' = waiting \union {c} /\ UNCHANGED replies
  <2>1. \A d : Pending(d)' <=> Pending(d)
    BY <1>2, <1>5 DEF Pending
  <2>2. OneLine'
    BY <1>2, <1>4, <1>5 DEF OneLine
  <2>3. waiting' \subseteq Call /\ IsFiniteSet(waiting')
    BY <1>2, <1>5, FS_AddElement DEF CallsInv, CallsType
  <2> PICK ms : ms = << >>
    OBVIOUS
  <2>4. ms \in Seq(CallMessage) /\ Len(ms) = 0
    OBVIOUS
  <2>5. Calls!Send(ms)
    <3>1. replies = replies \o << >>
      BY DEF CallsInv, CallsType
    <3> QED
      BY <1>5, <3>1 DEF Calls!Send
  <2>6. Progress
    BY <1>1, <2>1 DEF Progress, CallsInv, Unanswered
  <2>7. Honest(ms)
    <3>1. \A k : k \notin 1 .. Len(ms)
      BY <2>4
    <3> QED
      BY <1>1, <2>1, <3>1 DEF Honest
  <2>8. settings' \in Text
    BY <1>1 DEF CallsInv, CallsType
  <2> QED
    BY <1>1, <1>2, <2>2, <2>3, <2>4, <2>5, <2>6, <2>7, <2>8, DaemonAnswers
<1>6. CASE Calls!Send(<<Calls!Reply("error", c)>>) /\ UNCHANGED waiting
  <2>1. \A d \in Call : Pending(d)' <=> Pending(d) /\ d # c
    BY <1>2, <1>3, <1>6 DEF Pending
  <2>2. OneLine'
    BY <1>2, <1>4, <1>6 DEF OneLine
  <2>3. waiting' \subseteq Call /\ IsFiniteSet(waiting')
    BY <1>6 DEF CallsInv, CallsType
  <2> PICK r : r = Calls!Reply("error", c)
    OBVIOUS
  <2>4. r \in CallMessage /\ r.type = "error" /\ r.call = c
    BY <1>2 DEF Calls!Reply, CallMessage, Text
  <2> QED
    BY <1>1, <1>2, <1>3, <1>6, <2>1, <2>2, <2>3, <2>4, AnswerAlone
<1>7. \/ waiting' = waiting \union {c} /\ UNCHANGED replies
      \/ Calls!Send(<<Calls!Reply("error", c)>>) /\ UNCHANGED waiting
  BY DEF Calls!Serve
<1> QED
  BY <1>5, <1>6, <1>7

LEMMA AnswerKeepsCalls ==
    ASSUME CallsInv, NEW c \in waiting,
           Calls!Refuse(c) \/ Calls!Update(c) \/ Calls!Delete(c) \/ Calls!GetSecrets(c)
              \/ Calls!AddConnection(c)
    PROVE  CallsInv'
<1> PICK v : v = calls[c].value
  OBVIOUS
<1>0. c \in Call /\ v \in Text
  BY DEF CallsInv, CallsType, CallRecord
<1>1. /\ waiting' = waiting \ {c} /\ UNCHANGED requests /\ UNCHANGED Calls!clientVars
      /\ UNCHANGED <<held, used>>
  BY DEF Calls!Refuse, Calls!Update, Calls!Delete, Calls!GetSecrets, Calls!AddConnection,
     Calls!Perform, Calls!clientVars
<1>2. Pending(c) /\ \A d \in Call : Pending(d)' <=> Pending(d) /\ d # c
  BY <1>1 DEF Pending, CallsInv, OneLine
<1>3. OneLine' /\ requests' \in Seq(Call) /\ waiting' \subseteq Call
  BY <1>1 DEF OneLine, CallsInv, CallsType
<1>4. IsFiniteSet(waiting')
  BY <1>1, FS_RemoveElement DEF CallsInv, CallsType
<1>5. CASE Calls!Refuse(c)
  <2> PICK r : r = Calls!Reply("error", c)
    OBVIOUS
  <2>1. r \in CallMessage /\ r.type = "error" /\ r.call = c
    BY <1>0 DEF Calls!Reply, CallMessage, Text
  <2>2. Calls!Send(<<r>>) /\ UNCHANGED <<settings, performed>>
    BY <1>5 DEF Calls!Refuse
  <2> QED
    BY <1>0, <1>1, <1>2, <1>3, <1>4, <2>1, <2>2, AnswerAlone
<1> PICK r : r = Calls!Reply("done", c)
  OBVIOUS
<1>6. r \in CallMessage /\ r.type = "done" /\ r.call = c
  BY <1>0 DEF Calls!Reply, CallMessage, Text
<1>7. CASE Calls!GetSecrets(c) \/ Calls!AddConnection(c)
  <2>1. Calls!Send(<<r>>) /\ UNCHANGED settings
    BY <1>7 DEF Calls!GetSecrets, Calls!AddConnection
  <2>2. performed' = performed \union {c} /\ calls[c].op \notin {"Update", "Delete"}
    BY <1>7 DEF Calls!GetSecrets, Calls!AddConnection, Calls!Perform
  <2> QED
    BY <1>0, <1>1, <1>2, <1>3, <1>4, <1>6, <2>1, <2>2, AnswerAlone
<1>8. CASE Calls!Update(c)
  <2> PICK s : s = Calls!Signal("Updated", v, c)
    OBVIOUS
  <2>1. s \in CallMessage /\ s.type = "Updated" /\ s.call = c /\ s.value = v
    BY <1>0 DEF Calls!Signal, CallMessage
  <2>2. Calls!Send(<<s, r>>) /\ settings' = v
    BY <1>8 DEF Calls!Update
  <2>3. performed' = performed \union {c} /\ calls[c].op = "Update"
    BY <1>8 DEF Calls!Update, Calls!Perform
  <2> QED
    BY <1>0, <1>1, <1>2, <1>3, <1>4, <1>6, <2>1, <2>2, <2>3, AnswerSignalled
<1>9. CASE Calls!Delete(c)
  <2> PICK s : s = Calls!Signal("Removed", "none", c)
    OBVIOUS
  <2>1. s \in CallMessage /\ s.type = "Removed" /\ s.call = c
    BY <1>0 DEF Calls!Signal, CallMessage, Text
  <2>2. Calls!Send(<<s, r>>) /\ UNCHANGED settings
    BY <1>9 DEF Calls!Delete
  <2>3. performed' = performed \union {c} /\ calls[c].op = "Delete"
    BY <1>9 DEF Calls!Delete, Calls!Perform
  <2> QED
    BY <1>0, <1>1, <1>2, <1>3, <1>4, <1>6, <2>1, <2>2, <2>3, AnswerSignalled
<1> QED
  BY <1>5, <1>7, <1>8, <1>9

(* The daemon goes, and the bus answers each call that it had. *)
LEMMA ExitKeepsCalls ==
    ASSUME CallsInv, Calls!DaemonExits
    PROVE  CallsInv'
<1>a. PICK S : S = waiting \union Calls!ToSet(requests)
  OBVIOUS
<1>1. \A c : c \in S <=> Pending(c)
  BY <1>a DEF Pending, Calls!ToSet, CallsInv, CallsType
<1>2. IsFiniteSet(S) /\ S \subseteq Call
  BY <1>a, <1>1, FinitePending DEF CallsInv, CallsType, Calls!ToSet
<1>3. PICK q \in Calls!SetToSeqs(S) :
         Calls!Send(<<Calls!Signal("NameLost", "none", Calls!Nobody)>> \o
                    [i \in DOMAIN q |-> Calls!Reply("error", q[i])])
  BY <1>a DEF Calls!DaemonExits
<1>4. q \in Seq(S) /\ \A c \in S : \E i \in 1 .. Len(q) : q[i] = c
  BY <1>2, AllInSequence
<1>b. PICK s : s = Calls!Signal("NameLost", "none", Calls!Nobody)
  OBVIOUS
<1>5. s \in CallMessage /\ s.type = "NameLost"
  BY <1>b DEF Calls!Signal, CallMessage, Text
<1>6. \A c \in Call : /\ Calls!Reply("error", c) \in CallMessage
                      /\ Calls!Reply("error", c).type = "error"
                      /\ Calls!Reply("error", c).call = c
  BY DEF Calls!Reply, CallMessage, Text
<1>c. PICK rs : rs = [i \in DOMAIN q |-> Calls!Reply("error", q[i])]
  OBVIOUS
<1>7. /\ rs \in Seq(CallMessage) /\ Len(rs) = Len(q) /\ Len(q) \in Nat
      /\ \A i \in 1 .. Len(q) : q[i] \in Call /\ rs[i].type = "error" /\ rs[i].call = q[i]
  <2>1. Len(q) \in Nat /\ DOMAIN q = 1 .. Len(q) /\ \A i \in 1 .. Len(q) : q[i] \in Call
    BY <1>2, <1>4
  <2>2. rs \in [1 .. Len(q) -> CallMessage]
    BY <1>c, <2>1, <1>6
  <2> QED
    BY <1>c, <2>1, <2>2, <1>6
<1>d. PICK ms : ms = <<s>> \o rs
  OBVIOUS
<1>8. /\ ms \in Seq(CallMessage) /\ Len(ms) = Len(q) + 1
      /\ \A k \in 1 .. Len(ms) :
            (k = 1 /\ ms[k] = s) \/ (\E i \in 1 .. Len(q) : k = i + 1 /\ ms[k] = rs[i])
      /\ \A i \in 1 .. Len(q) : \E k \in 1 .. Len(ms) : ms[k] = rs[i]
  <2>1. ms \in Seq(CallMessage) /\ Len(ms) = Len(q) + 1 /\ ms[1] = s
    BY <1>d, <1>5, <1>7
  <2>2. \A i \in 1 .. Len(q) : i + 1 \in 1 .. Len(ms) /\ ms[i + 1] = rs[i]
    BY <1>d, <1>5, <1>7
  <2>3. ASSUME NEW k \in 1 .. Len(ms), k # 1
        PROVE  \E i \in 1 .. Len(q) : k = i + 1 /\ ms[k] = rs[i]
    <3>1. k - 1 \in 1 .. Len(q) /\ k = (k - 1) + 1
      BY <1>7, <2>1, <2>3
    <3> QED
      BY <2>2, <3>1
  <2>4. \A i \in 1 .. Len(q) : \E k \in 1 .. Len(ms) : ms[k] = rs[i]
    BY <2>2
  <2> QED
    BY <2>1, <2>3, <2>4
<1>9. Calls!Send(ms) /\ waiting' = {} /\ requests' = << >> /\ UNCHANGED <<settings, performed>>
      /\ UNCHANGED Calls!clientVars
  BY <1>b, <1>c, <1>d, <1>3 DEF Calls!DaemonExits
<1>10. \A c : ~Pending(c)'
  BY <1>9 DEF Pending
<1>11. \A c \in Call : Answers(ms, c) <=> Pending(c)
  <2> TAKE c \in Call
  <2>1. ASSUME Pending(c) PROVE Answers(ms, c)
    <3>1. PICK i \in 1 .. Len(q) : q[i] = c
      BY <1>1, <1>4, <2>1
    <3>2. rs[i].type = "error" /\ rs[i].call = c
      BY <1>7, <3>1
    <3> QED
      BY <1>8, <3>2 DEF Answers, IsReply
  <2>2. ASSUME Answers(ms, c) PROVE Pending(c)
    <3>1. PICK k \in 1 .. Len(ms) : IsReply(ms[k]) /\ ms[k].call = c
      BY <2>2 DEF Answers
    <3>2. ms[k] # s
      BY <1>5, <3>1 DEF IsReply
    <3>3. PICK i \in 1 .. Len(q) : ms[k] = rs[i]
      BY <1>8, <3>2
    <3>4. q[i] = c /\ q[i] \in S
      BY <1>4, <1>7, <3>1, <3>3
    <3> QED
      BY <1>1, <3>4
  <2> QED
    BY <2>1, <2>2
<1>12. \A k \in 1 .. Len(ms) : ms[k].type \in {"NameLost", "error"}
                                 /\ (IsReply(ms[k]) => ms[k].call \in Call)
  BY <1>5, <1>7, <1>8 DEF IsReply
<1>13. Progress
  BY <1>9, <1>10 DEF Progress
<1>14. Honest(ms)
  <2>1. \A c \in Call : \A k \in 1 .. Len(ms) : IsReply(ms[k]) /\ ms[k].call = c =>
           Pending(c) /\ ~Pending(c)' /\ c \notin performed'
    BY <1>9, <1>10, <1>11 DEF Answers, CallsInv, Unanswered
  <2>2. \A k \in 1 .. Len(ms) : ms[k].type \notin {"done", "Updated"}
    BY <1>12
  <2> QED
    BY <1>9, <1>11, <1>12, <2>1, <2>2 DEF Honest
<1>15. OneLine' /\ requests' \in Seq(Call) /\ waiting' \subseteq Call /\ IsFiniteSet(waiting')
  BY <1>9, FS_EmptySet DEF OneLine
<1>16. settings' \in Text
  BY <1>9 DEF CallsInv, CallsType
<1> QED
  BY <1>8, <1>9, <1>13, <1>14, <1>15, <1>16, DaemonAnswers

LEMMA DaemonKeepsCalls ==
    ASSUME CallsInv, Calls!Daemon
    PROVE  CallsInv'
<1>1. ASSUME NEW v \in Value, Calls!OthersChange(v) PROVE CallsInv'
  <2> PICK s : s = Calls!Signal("Updated", v, Calls!Nobody)
    OBVIOUS
  <2>1. s \in CallMessage /\ s.type = "Updated" /\ s.value = v
    BY DEF Calls!Signal, CallMessage, Text
  <2>2. Calls!Send(<<s>>) /\ settings' = v
        /\ UNCHANGED <<waiting, requests, performed>> /\ UNCHANGED Calls!clientVars
    BY <1>1 DEF Calls!OthersChange
  <2> QED
    BY <2>1, <2>2, SignalAlone DEF IsReply
<1>2. CASE Calls!OthersRemove
  <2> PICK s : s = Calls!Signal("Removed", "none", Calls!Nobody)
    OBVIOUS
  <2>1. s \in CallMessage /\ s.type = "Removed"
    BY DEF Calls!Signal, CallMessage, Text
  <2>2. Calls!Send(<<s>>) /\ UNCHANGED settings
        /\ UNCHANGED <<waiting, requests, performed>> /\ UNCHANGED Calls!clientVars
    BY <1>2 DEF Calls!OthersRemove
  <2> QED
    BY <2>1, <2>2, SignalAlone DEF IsReply
<1>3. CASE Calls!Answer
  BY <1>3, ServeKeepsCalls, AnswerKeepsCalls DEF Calls!Answer
<1>4. CASE Calls!DaemonExits
  BY <1>4, ExitKeepsCalls
<1> QED
  BY <1>1, <1>2, <1>3, <1>4 DEF Calls!Daemon

(* The program lets go of references, and with them of calls; the object is   *)
(* not got back.                                                              *)
Forgotten(c) ==
    /\ calls'[c].op = calls[c].op
    /\ \/ calls'[c].state = calls[c].state
       \/ calls'[c].state = "dropped" /\ calls[c].state = "out"

LetGo ==
    /\ calls' \in [Call -> CallRecord]
    /\ \A c \in Call : Forgotten(c)
    /\ \A c \in Call : calls'[c].state = "out" /\ calls[c].op \in Calls!OfObject => held' \/ used'
    /\ {held', used'} \subseteq BOOLEAN
    /\ held' => held
    /\ held' \/ used' => held \/ used

LEMMA LetGoKeeps ==
    ASSUME CallsInv, LetGo,
           UNCHANGED <<waiting, requests, replies, settings, performed, content, edited, applied>>
    PROVE  CallsInv'
<1>1. CallsType'
  BY DEF CallsInv, CallsType, LetGo
<1>2. \A c : (Pending(c)' <=> Pending(c)) /\ (Replied(c)' <=> Replied(c))
  BY DEF Pending, Replied
<1>3. Made' /\ Unanswered' /\ OneLine' /\ RepliesTrue'
  <2>1. Made' /\ Unanswered'
    BY <1>2 DEF CallsInv, Made, Unanswered, LetGo, Forgotten
  <2>2. OneLine' /\ RepliesTrue'
    BY DEF CallsInv, OneLine, RepliesTrue
  <2> QED
    BY <2>1, <2>2
<1>4. SignalFirst'
  <2>1. \A type, c, i : SignalAhead(type, c, i)' <=> SignalAhead(type, c, i)
    BY DEF SignalAhead
  <2>2. \A c \in Call : calls'[c].state = "out" => calls[c].state = "out" /\ calls'[c].op = calls[c].op
    BY DEF LetGo, Forgotten
  <2> QED
    BY <2>1, <2>2 DEF CallsInv, SignalFirst, LetGo
<1>5. CallerTold'
  <2> SUFFICES ASSUME NEW c \in Call
               PROVE  /\ calls'[c].state = "done" => c \in performed
                      /\ calls'[c].state = "error" => c \notin performed
                      /\ calls'[c].state = "done" /\ calls'[c].op = "Update" => c \in applied
                      /\ calls'[c].state = "done" /\ calls'[c].op = "Delete" => ~held'
                      /\ calls'[c].state = "out" => Pending(c) \/ Replied(c)
                      /\ calls'[c].state = "out" /\ calls'[c].op \in Calls!OfObject => held' \/ used'
    BY <1>2 DEF CallerTold
  <2>1. Forgotten(c)
    BY DEF LetGo
  <2> QED
    BY <2>1 DEF CallsInv, CallerTold, Forgotten, LetGo
<1>6. Current'
  BY DEF CallsInv, Current, LastUpdate, LetGo
<1> QED
  BY <1>1, <1>3, <1>4, <1>5, <1>6 DEF CallsInv

(* What is forgotten with the last reference, and with the list. *)
LEMMA DropForgets ==
    ASSUME CallsType, NEW kinds, calls' = Calls!Drop(kinds)
    PROVE  /\ calls' \in [Call -> CallRecord]
           /\ \A c \in Call : Forgotten(c)
           /\ \A c \in Call : calls'[c].state = "out" => calls'[c].op \notin kinds
<1>1. \A c \in Call : calls[c] \in CallRecord
  BY DEF CallsType
<1>2. \A c \in Call : calls'[c] = IF calls[c].state = "out" /\ calls[c].op \in kinds
                                  THEN [calls[c] EXCEPT !.state = "dropped"]
                                  ELSE calls[c]
  BY DEF Calls!Drop
<1>3. \A r \in CallRecord : /\ [r EXCEPT !.state = "dropped"] \in CallRecord
                            /\ [r EXCEPT !.state = "dropped"].op = r.op
                            /\ [r EXCEPT !.state = "dropped"].state = "dropped"
  BY DEF CallRecord
<1>4. \A c \in Call : calls'[c] \in CallRecord /\ Forgotten(c)
  BY <1>1, <1>2, <1>3 DEF Forgotten
<1>5. \A c \in Call : calls'[c].state = "out" => calls'[c].op \notin kinds
  BY <1>1, <1>2, <1>3
<1>6. calls' = [c \in Call |-> calls'[c]]
  BY DEF Calls!Drop
<1> QED
  BY <1>4, <1>5, <1>6

LEMMA KeepsAll ==
    ASSUME CallsType, calls' = calls
    PROVE  calls' \in [Call -> CallRecord] /\ \A c \in Call : Forgotten(c)
  BY DEF CallsType, Forgotten

(* connection_removed_cb and the idle function take the object off the list. *)
LEMMA RemovedLetsGo ==
    ASSUME CallsInv, Calls!Removed, UNCHANGED used
    PROVE  LetGo
<1>0. CallsType /\ held' = FALSE /\ {held, used} \subseteq BOOLEAN
  BY DEF CallsInv, CallsType, Calls!Removed
<1>1. CASE calls' = calls /\ (held => used)
  <2>1. \A c \in Call : calls[c].state = "out" /\ calls[c].op \in Calls!OfObject => held \/ used
    BY DEF CallsInv, CallerTold
  <2> QED
    BY <1>0, <1>1, <2>1, KeepsAll DEF LetGo
<1>2. CASE calls' = Calls!Drop(Calls!OfObject) /\ held
  <2>1. /\ calls' \in [Call -> CallRecord]
        /\ \A c \in Call : Forgotten(c)
        /\ \A c \in Call : calls'[c].state = "out" => calls'[c].op \notin Calls!OfObject
    BY <1>0, <1>2, DropForgets
  <2> QED
    BY <1>0, <1>2, <2>1 DEF LetGo, Forgotten
<1>3. (calls' = calls /\ (held => used)) \/ (calls' = Calls!Drop(Calls!OfObject) /\ held)
  BY <1>0 DEF Calls!Removed, Calls!CallsWithout
<1> QED
  BY <1>1, <1>2, <1>3

-----------------------------------------------------------------------------
(* The program receives a message. *)

Received(m) ==
    /\ \E i \in 1 .. Len(replies) : i = 1 /\ replies[i] = m
    /\ \A i \in 1 .. Len(replies') : \E n \in 1 .. Len(replies) :
          n = i + 1 /\ replies[n] = replies'[i]
    /\ \A n \in 1 .. Len(replies) :
          \/ n = 1 /\ replies[n] = m
          \/ \E i \in 1 .. Len(replies') : n = i + 1 /\ replies'[i] = replies[n]

LEMMA ReceiveNext ==
    ASSUME CallsType, replies # <<>>, replies' = Tail(replies), NEW m, m = Head(replies)
    PROVE  m \in CallMessage /\ replies' \in Seq(CallMessage) /\ Received(m)
<1>a. PICK q : q = replies
  OBVIOUS
<1>b. PICK r : r = Tail(q)
  OBVIOUS
<1>1. q \in Seq(CallMessage) /\ q # <<>>
  BY <1>a DEF CallsType
<1>2. /\ Len(q) \in Nat \ {0} /\ m = q[1] /\ m \in CallMessage /\ r \in Seq(CallMessage)
      /\ Len(r) = Len(q) - 1
      /\ \A i \in 1 .. Len(r) : r[i] = q[i + 1]
  BY <1>a, <1>b, <1>1
<1>3. \A i \in 1 .. Len(r) : i + 1 \in 1 .. Len(q) /\ r[i] = q[i + 1]
  BY <1>2
<1>4. ASSUME NEW n \in 1 .. Len(q), n # 1
      PROVE  \E i \in 1 .. Len(r) : n = i + 1 /\ r[i] = q[n]
  <2>1. n - 1 \in 1 .. Len(r) /\ n = (n - 1) + 1
    BY <1>2, <1>4
  <2> QED
    BY <1>3, <2>1
<1>5. 1 \in 1 .. Len(q)
  BY <1>2
<1>6. replies' = r
  BY <1>a, <1>b
<1>7. \E i \in 1 .. Len(q) : i = 1 /\ q[i] = m
  BY <1>2, <1>5
<1>8. \A i \in 1 .. Len(r) : \E n \in 1 .. Len(q) : n = i + 1 /\ q[n] = r[i]
  BY <1>3
<1>9. \A n \in 1 .. Len(q) :
         \/ n = 1 /\ q[n] = m
         \/ \E i \in 1 .. Len(r) : n = i + 1 /\ r[i] = q[n]
  BY <1>2, <1>4
<1>10. Received(m)
  BY <1>a, <1>6, <1>7, <1>8, <1>9 DEF Received
<1> QED
  BY <1>2, <1>6, <1>10

(* A call that is out becomes what its reply says, or is forgotten. *)
Hears(m, c) ==
    /\ calls'[c].op = calls[c].op
    /\ \/ calls'[c].state = calls[c].state
       \/ /\ calls[c].state = "out"
          /\ \/ calls'[c].state = "dropped"
             \/ IsReply(m) /\ m.call = c /\ calls'[c].state = m.type
    /\ IsReply(m) /\ m.call = c => calls'[c].state # "out"

HearsObject(m) ==
    /\ applied \subseteq applied'
    /\ {held', used', edited'} \subseteq BOOLEAN /\ content' \in Text
    /\ held' => held
    /\ held' \/ used' => held \/ used
    /\ m.type = "Removed" => ~held'
    /\ m.type = "Updated" /\ (held \/ used) => content' = m.value /\ m.call \in applied'
    /\ m.type # "Updated" => UNCHANGED <<content, edited>>

LEMMA RepliedReceived ==
    ASSUME NEW m, Received(m), NEW c
    PROVE  Replied(c) <=> Replied(c)' \/ (IsReply(m) /\ m.call = c)
<1>1. Replied(c) => Replied(c)' \/ (IsReply(m) /\ m.call = c)
  BY DEF Replied, Received
<1>2. Replied(c)' => Replied(c)
  BY DEF Replied, Received
<1>3. IsReply(m) /\ m.call = c => Replied(c)
  BY DEF Replied, Received
<1> QED
  BY <1>1, <1>2, <1>3

LEMMA AheadReceived ==
    ASSUME NEW m, Received(m), NEW type, NEW c, NEW i \in 1 .. Len(replies'),
           SignalAhead(type, c, i + 1)
    PROVE  SignalAhead(type, c, i)' \/ (m.type = type /\ m.call = c)
<1>1. PICK j \in 1 .. Len(replies) : j < i + 1 /\ replies[j].type = type /\ replies[j].call = c
  BY DEF SignalAhead
<1>2. ASSUME NEW n \in 1 .. Len(replies'), j = n + 1, replies'[n] = replies[j]
      PROVE  SignalAhead(type, c, i)'
  <2>1. n < i
    BY <1>1, <1>2
  <2> QED
    BY <1>1, <1>2, <2>1 DEF SignalAhead
<1> QED
  BY <1>1, <1>2 DEF Received

LEMMA CurrentReceived ==
    ASSUME Current, NEW m, Received(m), UNCHANGED settings, HearsObject(m),
           Len(replies) \in Nat, Len(replies') \in Nat
    PROVE  Current'
<1>1. ASSUME \A i \in 1 .. Len(replies) : replies[i].type # "Updated",
             (held \/ used) /\ ~edited => content = settings
      PROVE  Current'
  <2>1. m.type # "Updated" /\ \A i \in 1 .. Len(replies') : replies'[i].type # "Updated"
    BY <1>1 DEF Received
  <2>2. (held' \/ used') /\ ~edited' => content' = settings'
    BY <1>1, <2>1 DEF HearsObject
  <2> QED
    BY <2>1, <2>2 DEF Current
<1>2. ASSUME NEW n \in 1 .. Len(replies), replies[n].type = "Updated",
             replies[n].value = settings,
             \A j \in 1 .. Len(replies) : j > n => replies[j].type # "Updated"
      PROVE  Current'
  <2>1. ASSUME n = 1, replies[n] = m PROVE Current'
    <3>1. \A i \in 1 .. Len(replies') : replies'[i].type # "Updated"
      <4> TAKE i \in 1 .. Len(replies')
      <4>1. PICK k \in 1 .. Len(replies) : k = i + 1 /\ replies[k] = replies'[i]
        BY DEF Received
      <4>2. k > n
        BY <2>1, <4>1
      <4> QED
        BY <1>2, <4>1, <4>2
    <3>2. (held' \/ used') => content' = settings'
      BY <1>2, <2>1 DEF HearsObject
    <3> QED
      BY <3>1, <3>2 DEF Current
  <2>2. ASSUME NEW i \in 1 .. Len(replies'), n = i + 1, replies'[i] = replies[n]
        PROVE  Current'
    <3>1. ASSUME NEW j \in 1 .. Len(replies'), j > i PROVE replies'[j].type # "Updated"
      <4>1. PICK k \in 1 .. Len(replies) : k = j + 1 /\ replies[k] = replies'[j]
        BY DEF Received
      <4>2. k > n
        BY <2>2, <3>1, <4>1
      <4> QED
        BY <1>2, <4>1, <4>2
    <3>2. replies'[i].type = "Updated" /\ replies'[i].value = settings'
      BY <1>2, <2>2
    <3>3. LastUpdate(settings)'
      BY <3>1, <3>2 DEF LastUpdate
    <3> QED
      BY <3>3 DEF Current
  <2> QED
    BY <2>1, <2>2 DEF Received
<1> QED
  BY <1>1, <1>2 DEF Current, LastUpdate

LEMMA ReceiveKeeps ==
    ASSUME CallsInv, NEW m \in CallMessage, Received(m), replies' \in Seq(CallMessage),
           UNCHANGED <<waiting, requests, settings, performed>>,
           calls' \in [Call -> CallRecord], \A c \in Call : Hears(m, c), HearsObject(m),
           \A c \in Call : calls'[c].state = "out" /\ calls[c].op \in Calls!OfObject => held' \/ used'
    PROVE  CallsInv'
<1>1. \A i \in 1 .. Len(replies') : \E n \in 1 .. Len(replies) :
         n = i + 1 /\ replies[n] = replies'[i]
  BY DEF Received
<1>2. CallsType'
  <2>1. \A i \in 1 .. Len(replies') : IsReply(replies'[i]) => replies'[i].call \in Call
    BY <1>1 DEF CallsInv, CallsType
  <2> QED
    BY <2>1 DEF CallsInv, CallsType, HearsObject
<1>3. \A c : /\ Pending(c)' <=> Pending(c)
             /\ Replied(c) <=> Replied(c)' \/ (IsReply(m) /\ m.call = c)
  BY RepliedReceived DEF Pending
<1>4. Made'
  <2>1. IsReply(m) => m.type # "none"
    BY DEF IsReply
  <2>2. \A c \in Call : calls[c].state # "none" => calls'[c].state # "none"
    BY <2>1 DEF Hears
  <2> QED
    BY <1>3, <2>2 DEF CallsInv, Made
<1>5. Unanswered'
  BY <1>3 DEF CallsInv, Unanswered, Hears
<1>6. OneLine'
  BY DEF CallsInv, OneLine
<1>7. RepliesTrue'
  BY <1>1 DEF CallsInv, RepliesTrue
<1>8. SignalFirst'
  <2> SUFFICES ASSUME NEW c \in Call, NEW i \in 1 .. Len(replies'),
                      replies'[i].type = "done", replies'[i].call = c, calls'[c].state = "out"
               PROVE  /\ calls'[c].op = "Update" => c \in applied' \/ SignalAhead("Updated", c, i)'
                      /\ calls'[c].op = "Delete" => ~held' \/ SignalAhead("Removed", c, i)'
    BY DEF SignalFirst
  <2>1. calls[c].state = "out" /\ calls'[c].op = calls[c].op
    <3>1. Hears(m, c)
      OBVIOUS
    <3> QED
      BY <3>1 DEF Hears, IsReply
  <2>2. PICK n \in 1 .. Len(replies) : n = i + 1 /\ replies[n] = replies'[i]
    BY <1>1
  <2>3. /\ calls[c].op = "Update" => c \in applied \/ SignalAhead("Updated", c, n)
        /\ calls[c].op = "Delete" => ~held \/ SignalAhead("Removed", c, n)
    BY <2>1, <2>2 DEF CallsInv, SignalFirst
  <2>4. \A type : SignalAhead(type, c, n) => SignalAhead(type, c, i)' \/ (m.type = type /\ m.call = c)
    BY <2>2, AheadReceived
  <2>5. calls[c].op = "Update" => held \/ used
    BY <2>1 DEF CallsInv, CallerTold, Calls!OfObject
  <2> QED
    BY <2>1, <2>3, <2>4, <2>5 DEF HearsObject
<1>9. CallerTold'
  <2> SUFFICES ASSUME NEW c \in Call
               PROVE  /\ calls'[c].state = "done" => c \in performed
                      /\ calls'[c].state = "error" => c \notin performed
                      /\ calls'[c].state = "done" /\ calls'[c].op = "Update" => c \in applied'
                      /\ calls'[c].state = "done" /\ calls'[c].op = "Delete" => ~held'
                      /\ calls'[c].state = "out" => Pending(c) \/ Replied(c)'
                      /\ calls'[c].state = "out" /\ calls'[c].op \in Calls!OfObject => held' \/ used'
    BY <1>3 DEF CallerTold
  <2>1. Hears(m, c)
    OBVIOUS
  <2>2. CASE IsReply(m) /\ m.call = c /\ calls[c].state = "out" /\ calls'[c].state = m.type
    <3>1. /\ m.type = "done" => c \in performed
          /\ m.type = "error" => c \notin performed
      BY <2>2 DEF CallsInv, RepliesTrue, Received
    <3>2. PICK n \in 1 .. Len(replies) : n = 1 /\ replies[n] = m
      BY DEF Received
    <3>3. \A type : ~SignalAhead(type, c, n)
      BY <3>2 DEF SignalAhead
    <3>4. m.type = "done" =>
             /\ calls[c].op = "Update" => c \in applied
             /\ calls[c].op = "Delete" => ~held
      BY <2>2, <3>2, <3>3 DEF CallsInv, SignalFirst
    <3>5. m.type # "out"
      BY <2>2 DEF IsReply
    <3> QED
      BY <2>1, <2>2, <3>1, <3>4, <3>5 DEF Hears, HearsObject
  <2>3. CASE calls'[c].state = calls[c].state \/ calls'[c].state = "dropped"
    BY <1>3, <2>1, <2>3 DEF CallsInv, CallerTold, Hears, HearsObject
  <2> QED
    BY <2>1, <2>2, <2>3 DEF Hears
<1>10. Current'
  <2>1. Len(replies) \in Nat /\ Len(replies') \in Nat
    BY DEF CallsInv, CallsType
  <2> QED
    BY <2>1, CurrentReceived DEF CallsInv
<1> QED
  BY <1>2, <1>4, <1>5, <1>6, <1>7, <1>8, <1>9, <1>10 DEF CallsInv

LEMMA LoopKeepsCalls ==
    ASSUME CallsInv, Calls!MainLoop
    PROVE  CallsInv'
<1>0. CallsType /\ {held, used, edited} \subseteq BOOLEAN /\ content \in Text
  BY DEF CallsInv, CallsType
<1>1. CASE Calls!RemoveConnections
  <2>1. LetGo
    BY <1>1, RemovedLetsGo DEF Calls!RemoveConnections
  <2> QED
    BY <1>1, <2>1, LetGoKeeps DEF Calls!RemoveConnections, Calls!daemonVars
<1>2. CASE Calls!Receive
  <2>a. PICK m : m = Head(replies)
    OBVIOUS
  <2>1. /\ replies # <<>> /\ replies' = Tail(replies)
        /\ UNCHANGED <<waiting, requests, settings, performed>>
        /\ Calls!HandleUpdated(m) \/ Calls!HandleRemoved(m) \/ Calls!HandleNameLost(m)
              \/ Calls!HandleReply(m)
    BY <1>2, <2>a DEF Calls!Receive, Calls!daemonVars
  <2>2. m \in CallMessage /\ replies' \in Seq(CallMessage) /\ Received(m)
    BY <1>0, <2>a, <2>1, ReceiveNext
  <2>3. \A c \in Call : calls[c].state = "out" /\ calls[c].op \in Calls!OfObject => held \/ used
    BY DEF CallsInv, CallerTold
  <2>4. ASSUME ~IsReply(m), calls' = calls PROVE \A c \in Call : Hears(m, c)
    BY <2>4 DEF Hears
  <2>5. CASE Calls!HandleUpdated(m)
    <3>1. m.type = "Updated" /\ UNCHANGED <<held, used, calls>> /\ m.value \in Text
      BY <2>2, <2>5 DEF Calls!HandleUpdated, CallMessage
    <3>2. HearsObject(m)
      <4>1. CASE held \/ used
        <5>1. content' = m.value /\ edited' = FALSE /\ applied' = applied \union {m.call}
          BY <2>5, <4>1 DEF Calls!HandleUpdated, Calls!Alive
        <5> QED
          BY <1>0, <3>1, <5>1 DEF HearsObject
      <4>2. CASE ~(held \/ used)
        <5>1. UNCHANGED <<content, edited, applied>>
          BY <2>5, <4>2 DEF Calls!HandleUpdated, Calls!Alive
        <5> QED
          BY <1>0, <3>1, <4>2, <5>1 DEF HearsObject
      <4> QED
        BY <4>1, <4>2
    <3>3. \A c \in Call : Hears(m, c)
      BY <2>4, <3>1 DEF IsReply
    <3>4. calls' \in [Call -> CallRecord]
      BY <1>0, <3>1 DEF CallsType
    <3> QED
      BY <2>1, <2>2, <2>3, <3>1, <3>2, <3>3, <3>4, ReceiveKeeps
  <2>6. CASE Calls!HandleRemoved(m)
    <3>1. m.type = "Removed" /\ UNCHANGED <<used, content, edited, applied>> /\ held' = FALSE
      BY <2>6 DEF Calls!HandleRemoved, Calls!Removed
    <3>2. LetGo
      BY <2>6, <3>1, RemovedLetsGo DEF Calls!HandleRemoved
    <3>3. HearsObject(m)
      BY <1>0, <3>1 DEF HearsObject
    <3>4. \A c \in Call : Hears(m, c)
      BY <3>1, <3>2 DEF IsReply, LetGo, Forgotten, Hears
    <3> QED
      BY <2>1, <2>2, <3>2, <3>3, <3>4, ReceiveKeeps DEF LetGo
  <2>7. CASE Calls!HandleNameLost(m)
    <3>1. m.type = "NameLost" /\ UNCHANGED <<held, used, calls, content, edited, applied>>
      BY <2>7 DEF Calls!HandleNameLost
    <3>2. HearsObject(m)
      BY <1>0, <3>1 DEF HearsObject
    <3>3. \A c \in Call : Hears(m, c)
      BY <2>4, <3>1 DEF IsReply
    <3>4. calls' \in [Call -> CallRecord]
      BY <1>0, <3>1 DEF CallsType
    <3> QED
      BY <2>1, <2>2, <2>3, <3>1, <3>2, <3>3, <3>4, ReceiveKeeps
  <2>8. CASE Calls!HandleReply(m)
    <3>1. /\ m.type \in {"done", "error"} /\ UNCHANGED <<held, used, content, edited, applied>>
          /\ calls' = IF calls[m.call].state = "out"
                      THEN [calls EXCEPT ![m.call].state = m.type] ELSE calls
      BY <2>8 DEF Calls!HandleReply
    <3>2. HearsObject(m)
      BY <1>0, <3>1 DEF HearsObject
    <3>3. m.call \in Call
      BY <1>0, <2>2, <3>1 DEF CallsType, Received, IsReply
    <3>4. \A c \in Call : calls[c] \in CallRecord
      BY <1>0 DEF CallsType
    <3>5. \A c \in Call : calls'[c] = IF c = m.call /\ calls[c].state = "out"
                                      THEN [calls[c] EXCEPT !.state = m.type] ELSE calls[c]
      BY <1>0, <3>1, <3>3 DEF CallsType
    <3>6. \A r \in CallRecord : /\ [r EXCEPT !.state = m.type] \in CallRecord
                                /\ [r EXCEPT !.state = m.type].op = r.op
                                /\ [r EXCEPT !.state = m.type].state = m.type
      BY <3>1 DEF CallRecord
    <3>7. calls' \in [Call -> CallRecord]
      <4>1. \A c \in Call : calls'[c] \in CallRecord
        BY <3>4, <3>5, <3>6
      <4>2. calls' = [c \in Call |-> calls'[c]]
        BY <1>0, <3>1 DEF CallsType
      <4> QED
        BY <4>1, <4>2
    <3>8. \A c \in Call : Hears(m, c)
      <4> TAKE c \in Call
      <4>1. CASE c = m.call /\ calls[c].state = "out"
        <5>a. calls[c] \in CallRecord /\ calls'[c] = [calls[c] EXCEPT !.state = m.type]
          BY <3>4, <3>5, <4>1
        <5>1. calls'[c].op = calls[c].op /\ calls'[c].state = m.type
          BY <3>6, <5>a
        <5> QED
          BY <3>1, <4>1, <5>1 DEF Hears, IsReply
      <4>2. CASE ~(c = m.call /\ calls[c].state = "out")
        <5>1. calls'[c] = calls[c]
          BY <3>5, <4>2
        <5> QED
          BY <3>1, <4>2, <5>1 DEF Hears
      <4> QED
        BY <4>1, <4>2
    <3>9. \A c \in Call : calls'[c].state = "out" /\ calls[c].op \in Calls!OfObject => held' \/ used'
      BY <2>3, <3>1, <3>8 DEF Hears, IsReply
    <3> QED
      BY <2>1, <2>2, <3>2, <3>7, <3>8, <3>9, ReceiveKeeps
  <2> QED
    BY <2>1, <2>5, <2>6, <2>7, <2>8
<1> QED
  BY <1>1, <1>2 DEF Calls!MainLoop

-----------------------------------------------------------------------------
(* The program's own steps *)

LEMMA EditKeepsCalls ==
    ASSUME CallsInv, NEW v \in Value \union Invalid, Calls!Edit(v)
    PROVE  CallsInv'
<1>1. /\ UNCHANGED <<waiting, requests, replies, settings, performed, held, used, calls, applied>>
      /\ content' = v /\ edited' = TRUE
  BY DEF Calls!Edit, Calls!daemonVars
<1>2. CallsType'
  BY <1>1 DEF CallsInv, CallsType, Text
<1>3. \A c : (Pending(c)' <=> Pending(c)) /\ (Replied(c)' <=> Replied(c))
  BY <1>1 DEF Pending, Replied
<1>4. Made' /\ Unanswered' /\ CallerTold'
  BY <1>1, <1>3 DEF CallsInv, Made, Unanswered, CallerTold
<1>5. OneLine' /\ RepliesTrue' /\ SignalFirst'
  BY <1>1 DEF CallsInv, OneLine, RepliesTrue, SignalFirst, SignalAhead
<1>6. Current'
  BY <1>1 DEF CallsInv, Current, LastUpdate
<1> QED
  BY <1>2, <1>4, <1>5, <1>6 DEF CallsInv

(* A call is made: it is on its way, or without a daemon the bus answers it. *)
LEMMA MakeKeepsCalls ==
    ASSUME CallsInv, NEW c \in Call, NEW op \in Calls!OfObject \union {"Add"}, Calls!Make(c, op)
    PROVE  CallsInv'
<1>1. /\ UNCHANGED <<waiting, settings, performed, held, used, content, edited, applied>>
      /\ calls[c].state = "none"
      /\ op \in Calls!OfObject => held \/ used
      /\ calls' = [calls EXCEPT ![c] = [op |-> op, value |-> content, state |-> "out"]]
  BY DEF Calls!Make, Calls!daemonVars, Calls!CanMake, Calls!CanAdd, Calls!Alive, Calls!Out,
     Calls!OfObject
<1>0. CallsType
  BY DEF CallsInv
<1>2. /\ calls'[c].op = op /\ calls'[c].state = "out"
      /\ \A d \in Call : d # c => calls'[d] = calls[d]
      /\ calls' \in [Call -> CallRecord]
  <2>1. [op |-> op, value |-> content, state |-> "out"] \in CallRecord
    BY <1>0 DEF CallsType, CallRecord
  <2> QED
    BY <1>0, <1>1, <2>1 DEF CallsType
<1>3. ~Pending(c) /\ c \notin performed /\ ~Replied(c)
  BY <1>1 DEF CallsInv, Made
<1>4. CASE requests' = Append(requests, c) /\ UNCHANGED replies
  <2>1. /\ Len(requests) \in Nat /\ Len(requests') = Len(requests) + 1
        /\ requests' \in Seq(Call)
        /\ \A i \in 1 .. Len(requests) : i \in 1 .. Len(requests') /\ requests'[i] = requests[i]
        /\ \A i \in 1 .. Len(requests') : i \in 1 .. Len(requests) \/ (i = Len(requests'))
        /\ Len(requests') \in 1 .. Len(requests') /\ requests'[Len(requests')] = c
    BY <1>0, <1>4 DEF CallsType
  <2>2. \A d : Pending(d)' <=> Pending(d) \/ d = c
    <3> TAKE d
    <3>1. Pending(d) => Pending(d)'
      BY <1>1, <2>1 DEF Pending
    <3>2. d = c => Pending(d)'
      BY <2>1 DEF Pending
    <3>3. Pending(d)' => Pending(d) \/ d = c
      BY <1>1, <2>1 DEF Pending
    <3> QED
      BY <3>1, <3>2, <3>3
  <2>3. \A d : Replied(d)' <=> Replied(d)
    BY <1>4 DEF Replied
  <2>4. CallsType'
    BY <1>0, <1>1, <1>2, <1>4, <2>1 DEF CallsType
  <2>5. Made' /\ Unanswered'
    BY <1>1, <1>2, <1>3, <2>2, <2>3 DEF CallsInv, Made, Unanswered
  <2>6. OneLine'
    <3>1. \A i \in 1 .. Len(requests) : requests[i] # c
      BY <1>3 DEF Pending
    <3>2. c \notin waiting
      BY <1>3 DEF Pending
    <3>3. \A i, j \in 1 .. Len(requests') : requests'[i] = requests'[j] => i = j
      BY <2>1, <3>1 DEF CallsInv, OneLine
    <3>4. \A i \in 1 .. Len(requests') : requests'[i] \notin waiting'
      BY <1>1, <2>1, <3>2 DEF CallsInv, OneLine
    <3> QED
      BY <3>3, <3>4 DEF OneLine
  <2>7. RepliesTrue' /\ Current'
    BY <1>1, <1>4 DEF CallsInv, RepliesTrue, Current, LastUpdate
  <2>8. SignalFirst'
    <3>1. \A type, d, i : SignalAhead(type, d, i)' <=> SignalAhead(type, d, i)
      BY <1>4 DEF SignalAhead
    <3>2. \A i \in 1 .. Len(replies) : replies[i].type = "done" => replies[i].call # c
      BY <1>3 DEF Replied, IsReply
    <3> QED
      BY <1>1, <1>2, <1>4, <3>1, <3>2 DEF CallsInv, SignalFirst
  <2>9. CallerTold'
    BY <1>1, <1>2, <2>2, <2>3 DEF CallsInv, CallerTold
  <2> QED
    BY <2>4, <2>5, <2>6, <2>7, <2>8, <2>9 DEF CallsInv
<1>5. CASE Calls!Send(<<Calls!Reply("error", c)>>) /\ UNCHANGED requests
  <2>a. PICK r : r = Calls!Reply("error", c)
    OBVIOUS
  <2>b. PICK ms : ms = <<r>>
    OBVIOUS
  <2>1. r \in CallMessage /\ r.type = "error" /\ r.call = c
    BY <2>a DEF Calls!Reply, CallMessage, Text
  <2>2. ms \in Seq(CallMessage) /\ Len(ms) = 1 /\ ms[1] = r
    BY <2>b, <2>1
  <2>3. \A k \in 1 .. Len(ms) : ms[k] = r
    BY <2>2
  <2>4. replies' \in Seq(CallMessage) /\ Queued(ms) /\ Len(replies) \in Nat /\ Len(ms) \in Nat
    <3>1. Calls!Send(ms)
      BY <1>5, <2>a, <2>b
    <3>2. replies \in Seq(CallMessage)
      BY <1>0 DEF CallsType
    <3> QED
      BY <2>2, <3>1, <3>2, SentQueued
  <2>5. \A d : (Pending(d)' <=> Pending(d)) /\ (Replied(d)' <=> Replied(d) \/ d = c)
    <3>1. \A d : Answers(ms, d) <=> d = c
      BY <2>1, <2>2, <2>3 DEF Answers, IsReply
    <3> QED
      BY <1>1, <1>5, <2>4, <3>1, RepliedQueued DEF Pending
  <2>6. \A i \in 1 .. Len(replies') :
           (i \in 1 .. Len(replies) /\ replies'[i] = replies[i]) \/ replies'[i] = r
    BY <2>3, <2>4 DEF Queued
  <2>7. CallsType'
    <3>1. \A i \in 1 .. Len(replies') : IsReply(replies'[i]) => replies'[i].call \in Call
      BY <1>0, <2>1, <2>6 DEF CallsType
    <3> QED
      BY <1>0, <1>1, <1>2, <1>5, <2>4, <3>1 DEF CallsType
  <2>8. Made' /\ Unanswered'
    BY <1>1, <1>2, <1>3, <2>5 DEF CallsInv, Made, Unanswered
  <2>9. OneLine'
    BY <1>1, <1>5 DEF CallsInv, OneLine
  <2>10. RepliesTrue'
    BY <1>1, <1>3, <2>1, <2>6 DEF CallsInv, RepliesTrue
  <2>11. SignalFirst'
    <3> SUFFICES ASSUME NEW d \in Call, NEW i \in 1 .. Len(replies'),
                        replies'[i].type = "done", replies'[i].call = d, calls'[d].state = "out"
                 PROVE  /\ calls'[d].op = "Update" => d \in applied \/ SignalAhead("Updated", d, i)'
                        /\ calls'[d].op = "Delete" => ~held \/ SignalAhead("Removed", d, i)'
      BY <1>1 DEF SignalFirst
    <3>1. i \in 1 .. Len(replies) /\ replies'[i] = replies[i]
      BY <2>1, <2>6
    <3>2. d # c
      BY <1>3, <3>1 DEF Replied, IsReply
    <3>3. ASSUME NEW type, SignalAhead(type, d, i) PROVE SignalAhead(type, d, i)'
      BY <2>4, <3>3 DEF SignalAhead, Queued
    <3> QED
      BY <1>2, <3>1, <3>2, <3>3 DEF CallsInv, SignalFirst
  <2>12. CallerTold'
    BY <1>1, <1>2, <2>5 DEF CallsInv, CallerTold
  <2>13. Current'
    <3>1. settings' = settings /\ \A k \in 1 .. Len(ms) : ms[k].type # "Updated"
      BY <1>1, <2>1, <2>3
    <3> QED
      BY <1>1, <2>4, <3>1, CurrentQueued DEF CallsInv
  <2> QED
    BY <2>7, <2>8, <2>9, <2>10, <2>11, <2>12, <2>13 DEF CallsInv
<1> QED
  BY <1>4, <1>5 DEF Calls!Make

LEMMA ProgramKeepsCalls ==
    ASSUME CallsInv, Calls!Program
    PROVE  CallsInv'
<1>0. CallsType /\ {held, used} \subseteq BOOLEAN
  BY DEF CallsInv, CallsType
<1>1. \A c \in Call : calls[c].state = "out" /\ calls[c].op \in Calls!OfObject => held \/ used
  BY DEF CallsInv, CallerTold
<1>2. CASE Calls!Ref
  <2>1. /\ UNCHANGED <<waiting, requests, replies, settings, performed, content, edited, applied>>
        /\ UNCHANGED <<held, calls>> /\ held /\ used' = TRUE
    BY <1>2 DEF Calls!Ref, Calls!daemonVars
  <2>2. LetGo
    BY <1>0, <2>1, KeepsAll DEF LetGo
  <2> QED
    BY <2>1, <2>2, LetGoKeeps
<1>3. CASE Calls!Unref
  <2>1. /\ UNCHANGED <<waiting, requests, replies, settings, performed, content, edited, applied>>
        /\ UNCHANGED held /\ used /\ used' = FALSE
        /\ calls' = IF held THEN calls ELSE Calls!Drop(Calls!OfObject)
    BY <1>3 DEF Calls!Unref, Calls!daemonVars, Calls!CallsWithout
  <2>2. LetGo
    <3>1. CASE held
      BY <1>0, <2>1, <3>1, KeepsAll DEF LetGo
    <3>2. CASE ~held
      <4>1. /\ calls' \in [Call -> CallRecord]
            /\ \A c \in Call : Forgotten(c)
            /\ \A c \in Call : calls'[c].state = "out" => calls'[c].op \notin Calls!OfObject
        BY <1>0, <2>1, <3>2, DropForgets
      <4> QED
        BY <1>0, <2>1, <4>1 DEF LetGo, Forgotten
    <3> QED
      BY <3>1, <3>2
  <2> QED
    BY <2>1, <2>2, LetGoKeeps
<1>4. CASE Calls!DisposeList
  <2>1. /\ UNCHANGED <<waiting, requests, replies, settings, performed, content, edited, applied>>
        /\ UNCHANGED used /\ held' = FALSE
        /\ calls' = Calls!Drop(Calls!OfObject \union {"Add"})
    BY <1>4 DEF Calls!DisposeList, Calls!daemonVars
  <2>2. /\ calls' \in [Call -> CallRecord]
        /\ \A c \in Call : Forgotten(c)
        /\ \A c \in Call : calls'[c].state = "out" => calls'[c].op \notin Calls!OfObject \union {"Add"}
    BY <1>0, <2>1, DropForgets
  <2>3. LetGo
    BY <1>0, <2>1, <2>2 DEF LetGo, Forgotten
  <2> QED
    BY <2>1, <2>3, LetGoKeeps
<1> QED
  BY <1>2, <1>3, <1>4, EditKeepsCalls, MakeKeepsCalls DEF Calls!Program

LEMMA CallsInvHolds == Calls!Spec => []CallsInv
<1>1. Calls!Init => CallsInv
  <2> SUFFICES ASSUME Calls!Init PROVE CallsInv
    OBVIOUS
  <2>1. waiting = {} /\ requests = << >> /\ replies = << >> /\ performed = {}
    BY DEF Calls!Init
  <2>2. \A c \in Call : calls[c].state = "none" /\ calls[c].op = "none"
    BY DEF Calls!Init, Calls!NoCall
  <2>3. CallsType
    <3>1. calls \in [Call -> CallRecord]
      BY DEF Calls!Init, Calls!NoCall, CallRecord, Text
    <3>2. {held, used, edited} \subseteq BOOLEAN /\ settings \in Text /\ content \in Text
      BY DEF Calls!Init, Text
    <3> QED
      BY <2>1, <3>1, <3>2, FS_EmptySet DEF CallsType
  <2>4. \A c : ~Pending(c) /\ ~Replied(c)
    BY <2>1 DEF Pending, Replied
  <2>5. Made /\ Unanswered /\ CallerTold
    BY <2>1, <2>2, <2>4 DEF Made, Unanswered, CallerTold
  <2>6. OneLine /\ RepliesTrue /\ SignalFirst
    BY <2>1 DEF OneLine, RepliesTrue, SignalFirst
  <2>7. Current
    BY <2>1 DEF Calls!Init, Current
  <2> QED
    BY <2>3, <2>5, <2>6, <2>7 DEF CallsInv
<1>2. CallsInv /\ [Calls!Next]_(Calls!vars) => CallsInv'
  <2> SUFFICES ASSUME CallsInv, [Calls!Next]_(Calls!vars) PROVE CallsInv'
    OBVIOUS
  <2>1. CASE UNCHANGED Calls!vars
    <3>1. UNCHANGED callVars
      BY <2>1 DEF Calls!vars, callVars
    <3> QED
      BY <3>1 DEF callVars, CallsInv, CallsType, Made, Unanswered, OneLine, RepliesTrue,
         SignalFirst, SignalAhead, CallerTold, Current, LastUpdate, Pending, Replied
  <2> QED
    BY <2>1, DaemonKeepsCalls, LoopKeepsCalls, ProgramKeepsCalls DEF Calls!Next
<1> QED
  BY <1>1, <1>2, PTL DEF Calls!Spec

(* Whatever others do to the connection, whenever the daemon exits and         *)
(* whenever the program lets go of the object: what a callback tells is so,    *)
(* and in the object before it is told; no call that is out is forgotten by    *)
(* the daemon or left to an object that is gone; and at rest the object has    *)
(* the daemon's settings.                                                      *)
THEOREM CallsAlwaysSeen == Calls!Spec => []CallsSeen
<1>1. CallsInv => CallsSeen
  <2> SUFFICES ASSUME CallsInv PROVE CallsSeen
    OBVIOUS
  <2>1. \A c \in Call : (Pending(c) => c \in waiting \union Calls!ToSet(requests))
    BY DEF Pending, Calls!ToSet, CallsInv, CallsType
  <2>2. \A c : Replied(c) => \E i \in DOMAIN replies : replies[i].type \in {"done", "error"} /\ replies[i].call = c
    BY DEF Replied, IsReply, CallsInv, CallsType
  <2>3. \A c \in Call : Pending(c) \/ Replied(c) => Calls!Expected(c)
    BY <2>1, <2>2 DEF Calls!Expected
  <2>4. Calls!Quiet /\ (held \/ used) /\ ~edited => content = settings
    BY DEF Calls!Quiet, CallsInv, Current, LastUpdate
  <2> QED
    BY <2>3, <2>4 DEF CallsInv, CallerTold, CallsSeen, Calls!CallsSeen, Calls!Alive
<1> QED
  BY <1>1, CallsInvHolds, PTL
=============================================================================
