---------------------------- MODULE ManagerProofs ----------------------------
(***************************************************************************)
(* Proofs about Manager and the components beside it in ManagerMC, for any *)
(* nodes, callers, plugins, paths and bounds: Manager's types, and that    *)
(* the device list follows the kernel; that InotifyHelper keeps a watch    *)
(* for all who hold it; and that the daemon starts and logs as it was      *)
(* asked to (Startup).                                                     *)
(***************************************************************************)
EXTENDS ManagerMC, SequenceTheorems, FiniteSetTheorems, TLAPS

-----------------------------------------------------------------------------
(* Sequences *)

LEMMA RemoveAtFacts ==
    ASSUME NEW S, NEW s \in Seq(S), NEW n \in 1 .. Len(s)
    PROVE  /\ RemoveAt(s, n) \in Seq(S)
           /\ Len(RemoveAt(s, n)) = Len(s) - 1
           /\ \A m \in 1 .. n - 1 : RemoveAt(s, n)[m] = s[m]
           /\ \A m \in n .. Len(s) - 1 : RemoveAt(s, n)[m] = s[m + 1]
<1> DEFINE front == SubSeq(s, 1, n - 1)
           back == SubSeq(s, n + 1, Len(s))
<1>0. Len(s) \in Nat /\ n \in Nat
  OBVIOUS
<1>1. front \in Seq(S) /\ Len(front) = n - 1 /\ \A m \in 1 .. n - 1 : front[m] = s[m]
  OBVIOUS
<1>2. /\ back \in Seq(S)
      /\ Len(back) = Len(s) - n
      /\ \A m \in 1 .. Len(s) - n : back[m] = s[n + m]
  OBVIOUS
<1>3. RemoveAt(s, n) = front \o back
  BY DEF RemoveAt
<1> HIDE DEF front, back
<1>4. front \o back \in Seq(S) /\ Len(front \o back) = Len(s) - 1
  <2>1. Len(front \o back) = Len(front) + Len(back) /\ front \o back \in Seq(S)
    BY <1>1, <1>2, ConcatProperties
  <2> QED
    BY <1>0, <1>1, <1>2, <2>1
<1>5. \A m \in 1 .. n - 1 : (front \o back)[m] = s[m]
  BY <1>0, <1>1, <1>2, ConcatProperties
<1>6. ASSUME NEW m \in n .. Len(s) - 1
      PROVE  (front \o back)[m] = s[m + 1]
  <2>1. (front \o back)[m] = back[m - (n - 1)]
    BY <1>0, <1>1, <1>2, ConcatProperties
  <2>2. m - (n - 1) \in 1 .. Len(s) - n
    BY <1>0
  <2> QED
    BY <1>0, <1>2, <2>1, <2>2
<1> QED
  BY <1>3, <1>4, <1>5, <1>6
-----------------------------------------------------------------------------
(* Types *)

CallRecord ==
    [caller: Caller, want: BOOLEAN, reply: {"already", "denied", "done", "pending", "lost"}]

ChainRecord == [call: Nat, chain: ChainOf(Caller, {Permission})]

Uevents == [action: {"add", "remove"}, iface: Iface]

LEMMA NotifyType ==
    ASSUME TypeOK, NEW i \in Iface, NEW action \in {"add", "remove"}, Notify(action, i)
    PROVE  uevents' \in Seq(Uevents)
<1>1. [action |-> action, iface |-> i] \in Uevents
  BY DEF Uevents
<1>2. uevents \in Seq(Uevents)
  BY DEF TypeOK, Uevents
<1> QED
  BY <1>1, <1>2 DEF Notify

LEMMA AddDeviceType ==
    ASSUME TypeOK, NEW i \in Iface, AddDevice(i)
    PROVE  devices' \in Seq(Devices) /\ devcount' \in Nat
<1>1. NewDevice(i) \in Devices
  BY DEF TypeOK, NewDevice, Devices
<1>2. devices \in Seq(Devices) /\ devcount \in Nat
  BY DEF TypeOK
<1> QED
  BY <1>1, <1>2 DEF AddDevice

LEMMA RemoveDeviceType ==
    ASSUME TypeOK, NEW i \in Iface, RemoveDevice(i)
    PROVE  devices' \in Seq(Devices)
<1>1. ASSUME NEW n \in DOMAIN devices PROVE RemoveAt(devices, n) \in Seq(Devices)
  <2>1. n \in 1 .. Len(devices)
    BY DEF TypeOK
  <2> QED
    BY <2>1, RemoveAtFacts DEF TypeOK
<1> QED
  BY <1>1 DEF TypeOK, RemoveDevice

LEMMA ChainType ==
    /\ \A c \in Caller : NewChain(c, {Permission}) \in ChainOf(Caller, {Permission})
  BY DEF NewChain, EmptyChain, AddCalls, ChainOf, Results

LEMMA EnableType ==
    ASSUME TypeOK, NEW c \in Caller, NEW enable \in BOOLEAN, Enable(c, enable)
    PROVE  /\ calls' \in Seq(CallRecord)
           /\ DOMAIN calls \subseteq DOMAIN calls'
           /\ chains' \in Seq(ChainRecord)
<1>1. ASSUME NEW reply \in {"already", "denied", "done", "pending", "lost"},
             Reply(c, enable, reply)
      PROVE  calls' \in Seq(CallRecord) /\ DOMAIN calls \subseteq DOMAIN calls'
  BY <1>1 DEF TypeOK, Reply, CallRecord
<1>2. calls' \in Seq(CallRecord) /\ DOMAIN calls \subseteq DOMAIN calls'
  BY <1>1 DEF Enable
<1>3. [call |-> Len(calls) + 1, chain |-> NewChain(c, {Permission})] \in ChainRecord
  <2>1. Len(calls) + 1 \in Nat
    BY DEF TypeOK
  <2>2. NewChain(c, {Permission}) \in ChainOf(Caller, {Permission})
    BY ChainType
  <2> QED
    BY <2>1, <2>2 DEF ChainRecord
<1>4. chains \in Seq(ChainRecord)
  BY DEF TypeOK, ChainRecord
<1>5. chains' \in Seq(ChainRecord)
  BY <1>3, <1>4 DEF Enable
<1> QED
  BY <1>2, <1>5

LEMMA SettingType ==
    ASSUME TypeOK, NEW enable \in BOOLEAN, InternalEnable(enable)
    PROVE  /\ netEnabled' \in BOOLEAN
           /\ state' \in {"DISCONNECTED", "ASLEEP"}
           /\ stateFile' \in {"none", "empty", "true", "false"}
  BY DEF TypeOK, InternalEnable, WriteStateFile, StateFor

LEMMA EnableNetDoneType ==
    ASSUME TypeOK, NEW k \in DOMAIN chains, NEW answer \in Answers, EnableNetDone(k, answer),
           chains[k].call \in DOMAIN calls
    PROVE  /\ calls' \in Seq(CallRecord)
           /\ DOMAIN calls' = DOMAIN calls
           /\ chains' \in Seq(ChainRecord)
           /\ granted' \subseteq DOMAIN calls'
           /\ netEnabled' \in BOOLEAN
           /\ state' \in {"DISCONNECTED", "ASLEEP"}
           /\ stateFile' \in {"none", "empty", "true", "false"}
<1> DEFINE n == chains[k].call
<1>0. calls \in Seq(CallRecord) /\ n \in 1 .. Len(calls)
  BY DEF TypeOK, CallRecord
<1>1. \/ calls' = [calls EXCEPT ![n].reply = "done"] /\ InternalEnable(calls[n].want)
      \/ calls' = [calls EXCEPT ![n].reply = "denied"] /\ KeepSetting
  BY DEF EnableNetDone
<1>2. ASSUME NEW reply \in {"denied", "done"}
      PROVE  /\ [calls EXCEPT ![n].reply = reply] \in Seq(CallRecord)
             /\ DOMAIN [calls EXCEPT ![n].reply = reply] = DOMAIN calls
  <2>0. calls[n] \in CallRecord
    BY <1>0
  <2>1. [calls[n] EXCEPT !.reply = reply] \in CallRecord
    BY <2>0 DEF CallRecord
  <2> QED
    BY <1>0, <2>1
<1>3. calls' \in Seq(CallRecord) /\ DOMAIN calls' = DOMAIN calls
  BY <1>1, <1>2
<1>4. chains' \in Seq(ChainRecord)
  <2>1. chains \in Seq(ChainRecord)
    BY DEF TypeOK, ChainRecord
  <2>2. k \in 1 .. Len(chains)
    BY <2>1
  <2>3. chains' = RemoveAt(chains, k)
    BY DEF EnableNetDone
  <2> QED
    BY <2>1, <2>2, <2>3, RemoveAtFacts
<1>5. granted' \subseteq DOMAIN calls'
  BY <1>0, <1>3 DEF EnableNetDone, TypeOK
<1>6. calls[n].want \in BOOLEAN
  <2>1. calls[n] \in CallRecord
    BY <1>0
  <2> QED
    BY <2>1 DEF CallRecord
<1>7. /\ netEnabled' \in BOOLEAN
      /\ state' \in {"DISCONNECTED", "ASLEEP"}
      /\ stateFile' \in {"none", "empty", "true", "false"}
  BY <1>1, <1>6, SettingType DEF KeepSetting, TypeOK
<1> QED
  BY <1>3, <1>4, <1>5, <1>7
-----------------------------------------------------------------------------
(* Calls and chains *)

(* A chain stands for a call that waits for its answer, one for each. *)
ChainsInv ==
    /\ phase # "running" => chains = <<>>
    /\ \A k \in DOMAIN chains :
          /\ chains[k].call \in DOMAIN calls
          /\ calls[chains[k].call].reply = "pending"
    /\ \A k, m \in DOMAIN chains : chains[k].call = chains[m].call => k = m

LEMMA EnableChains ==
    ASSUME TypeOK, ChainsInv, NEW c \in Caller, NEW enable \in BOOLEAN, Enable(c, enable)
    PROVE  ChainsInv'
<1>0. calls \in Seq(CallRecord) /\ chains \in Seq(ChainRecord)
  BY DEF TypeOK, CallRecord, ChainRecord
<1>1. /\ Len(calls') = Len(calls) + 1
      /\ calls' \in Seq(CallRecord)
      /\ \A n \in 1 .. Len(calls) : calls'[n] = calls[n]
  <2>1. \E reply : calls' = Append(calls, [caller |-> c, want |-> enable, reply |-> reply])
    BY DEF Enable, Reply
  <2>2. calls' \in Seq(CallRecord)
    BY EnableType
  <2> QED
    BY <1>0, <2>1, <2>2
<1>2. CASE UNCHANGED chains
  <2>1. \A k \in DOMAIN chains' :
           /\ chains'[k].call \in 1 .. Len(calls)
           /\ calls[chains'[k].call].reply = "pending"
    BY <1>0, <1>2 DEF ChainsInv
  <2>2. phase' = phase
    BY DEF Enable
  <2>3. \A k \in DOMAIN chains' :
           /\ chains'[k].call \in DOMAIN calls'
           /\ calls'[chains'[k].call].reply = "pending"
    BY <1>0, <1>1, <2>1
  <2> QED
    BY <1>2, <2>2, <2>3 DEF ChainsInv
<1>3. CASE /\ chains' = Append(chains, [call  |-> Len(calls) + 1,
                                        chain |-> NewChain(c, {Permission})])
           /\ Reply(c, enable, "pending")
  <2>1. calls'[Len(calls) + 1].reply = "pending"
    BY <1>0, <1>3 DEF Reply
  <2>2. /\ Len(chains') = Len(chains) + 1
        /\ \A k \in 1 .. Len(chains) : chains'[k] = chains[k]
        /\ chains'[Len(chains) + 1].call = Len(calls) + 1
        /\ DOMAIN chains' = 1 .. Len(chains) + 1
    BY <1>0, <1>3
  <2>3. \A k \in 1 .. Len(chains) :
           /\ chains[k].call \in 1 .. Len(calls)
           /\ calls[chains[k].call].reply = "pending"
    BY <1>0 DEF ChainsInv
  <2>4. DOMAIN calls' = 1 .. Len(calls) + 1
    BY <1>0, <1>1
  <2>5. \A k, m \in 1 .. Len(chains) : chains[k].call = chains[m].call => k = m
    BY <1>0 DEF ChainsInv
  <2>6. Len(chains) \in Nat /\ Len(calls) \in Nat
    BY <1>0
  <2>7. ASSUME NEW k \in DOMAIN chains'
        PROVE  chains'[k].call \in DOMAIN calls' /\ calls'[chains'[k].call].reply = "pending"
    BY <1>1, <2>1, <2>2, <2>3, <2>4, <2>6
  <2>8. ASSUME NEW k \in DOMAIN chains', NEW m \in DOMAIN chains',
               chains'[k].call = chains'[m].call
        PROVE  k = m
    BY <2>2, <2>3, <2>5, <2>6, <2>8
  <2>9. phase' = "running"
    BY DEF Enable
  <2> QED
    BY <2>7, <2>8, <2>9 DEF ChainsInv
<1> QED
  BY <1>2, <1>3 DEF Enable

LEMMA EnableNetDoneChains ==
    ASSUME TypeOK, ChainsInv, NEW k \in DOMAIN chains, NEW answer \in Answers,
           EnableNetDone(k, answer)
    PROVE  ChainsInv'
<1> DEFINE n == chains[k].call
<1>0. /\ calls \in Seq(CallRecord) /\ chains \in Seq(ChainRecord)
      /\ k \in 1 .. Len(chains) /\ Len(chains) \in Nat
      /\ n \in DOMAIN calls
  BY DEF TypeOK, CallRecord, ChainRecord, ChainsInv
<1>1. chains' = RemoveAt(chains, k)
  BY DEF EnableNetDone
<1>2. /\ Len(chains') = Len(chains) - 1
      /\ chains' \in Seq(ChainRecord)
      /\ \A m \in 1 .. k - 1 : chains'[m] = chains[m]
      /\ \A m \in k .. Len(chains) - 1 : chains'[m] = chains[m + 1]
  BY <1>0, <1>1, RemoveAtFacts
<1>3. /\ DOMAIN calls' = DOMAIN calls
      /\ \A m \in DOMAIN calls : m # n => calls'[m] = calls[m]
  BY <1>0 DEF EnableNetDone
<1>4. DOMAIN chains' = 1 .. Len(chains) - 1
  BY <1>0, <1>2
<1>9. /\ \A a \in DOMAIN chains : /\ chains[a].call \in DOMAIN calls
                                    /\ calls[chains[a].call].reply = "pending"
      /\ \A a, b \in DOMAIN chains : chains[a].call = chains[b].call => a = b
  BY DEF ChainsInv
<1>5. ASSUME NEW m \in DOMAIN chains'
      PROVE  \E j \in DOMAIN chains :
                /\ chains'[m] = chains[j]
                /\ j = (IF m < k THEN m ELSE m + 1)
  <2>1. CASE m < k
    <3>1. m \in 1 .. k - 1 /\ m \in DOMAIN chains
      BY <1>0, <1>4, <2>1
    <3>2. chains'[m] = chains[m]
      BY <1>2, <3>1
    <3> QED
      BY <2>1, <3>1, <3>2
  <2>2. CASE m >= k
    BY <1>0, <1>2, <1>4, <2>2
  <2> QED
    BY <1>0, <1>4, <2>1, <2>2
<1>6. ASSUME NEW m \in DOMAIN chains'
      PROVE  chains'[m].call \in DOMAIN calls' /\ calls'[chains'[m].call].reply = "pending"
  <2>1. PICK a \in DOMAIN chains : /\ chains'[m] = chains[a]
                                    /\ a = (IF m < k THEN m ELSE m + 1)
    BY <1>5
  <2>2. a # k
    BY <1>0, <1>4, <2>1
  <2>3. chains[a].call # n /\ chains[a].call \in DOMAIN calls
    BY <1>9, <2>2
  <2> QED
    BY <1>3, <1>9, <2>1, <2>3
<1>7. ASSUME NEW m \in DOMAIN chains', NEW j \in DOMAIN chains',
             chains'[m].call = chains'[j].call
      PROVE  m = j
  <2>1. PICK a \in DOMAIN chains : /\ chains'[m] = chains[a]
                                    /\ a = (IF m < k THEN m ELSE m + 1)
    BY <1>5
  <2>2. PICK b \in DOMAIN chains : /\ chains'[j] = chains[b]
                                    /\ b = (IF j < k THEN j ELSE j + 1)
    BY <1>5
  <2>3. a = b
    BY <1>7, <1>9, <2>1, <2>2
  <2> QED
    BY <1>0, <1>4, <2>1, <2>2, <2>3
<1>8. phase' = "running"
  BY DEF EnableNetDone
<1> QED
  BY <1>6, <1>7, <1>8 DEF ChainsInv

LEMMA CrashChains ==
    ASSUME TypeOK, Crash
    PROVE  /\ ChainsInv'
           /\ calls' \in Seq(CallRecord)
           /\ DOMAIN calls' = DOMAIN calls
<1>1. chains' = <<>>
  BY DEF Crash
<1>2. calls \in Seq(CallRecord)
  BY DEF TypeOK, CallRecord
<1>3. ASSUME NEW n \in DOMAIN calls
      PROVE  (IF calls[n].reply = "pending" THEN [calls[n] EXCEPT !.reply = "lost"] ELSE calls[n])
               \in CallRecord
  <2>1. calls[n] \in CallRecord
    BY <1>2
  <2> QED
    BY <2>1 DEF CallRecord
<1>4. calls' \in Seq(CallRecord) /\ DOMAIN calls' = DOMAIN calls
  BY <1>2, <1>3 DEF Crash
<1> QED
  BY <1>1, <1>4 DEF ChainsInv

LEMMA InitType == Init => TypeOK /\ ChainsInv
BY ManagerAssumption DEF Init, TypeOK, ChainsInv

(* The variables of devices keep their types in the steps of Enable and back. *)
DeviceTypeOK ==
    /\ uevents \in Seq(Uevents)
    /\ queried \subseteq Iface
    /\ twice \subseteq Iface
    /\ devices \in Seq(Devices)
    /\ devcount \in Nat

EnableTypeOK ==
    /\ netEnabled \in BOOLEAN
    /\ state \in {"DISCONNECTED", "ASLEEP"}
    /\ stateFile \in {"none", "empty", "true", "false"}
    /\ calls \in Seq(CallRecord)
    /\ chains \in Seq(ChainRecord)
    /\ granted \subseteq DOMAIN calls

ProcessTypeOK ==
    /\ present \subseteq Iface
    /\ plugs \in 0 .. MaxPlugs
    /\ phase \in {"off", "built", "starting", "running"}
    /\ starts \in 0 .. MaxStarts

LEMMA TypeParts == TypeOK <=> DeviceTypeOK /\ EnableTypeOK /\ ProcessTypeOK
BY DEF TypeOK, DeviceTypeOK, EnableTypeOK, ProcessTypeOK, Uevents, CallRecord, ChainRecord

LEMMA ProcessTypeStep == TypeOK /\ [Next]_vars => ProcessTypeOK'
<1> SUFFICES ASSUME TypeOK, [Next]_vars PROVE ProcessTypeOK'
  OBVIOUS
<1>1. ProcessTypeOK /\ Len(calls) \in Nat
  BY TypeParts DEF EnableTypeOK
<1>2. ASSUME NEW i \in Iface, Plug(i) \/ Unplug(i) \/ AddQueried(i) PROVE ProcessTypeOK'
  BY <1>1, <1>2, ManagerAssumption DEF ProcessTypeOK, Plug, Unplug, AddQueried, kernelVars
<1>3. CASE QueryDevices \/ RunLoop \/ HandleUevent \/ BuildManager \/ Crash
  BY <1>1, <1>3, ManagerAssumption
     DEF ProcessTypeOK, QueryDevices, RunLoop, HandleUevent, BuildManager, Crash, kernelVars
<1>4. ASSUME NEW c \in Caller, NEW enable \in BOOLEAN, Enable(c, enable) PROVE ProcessTypeOK'
  BY <1>1, <1>4 DEF ProcessTypeOK, Enable, kernelVars
<1>5. ASSUME NEW k \in DOMAIN chains, NEW answer \in Answers, EnableNetDone(k, answer)
      PROVE  ProcessTypeOK'
  BY <1>1, <1>5 DEF ProcessTypeOK, EnableNetDone, kernelVars
<1>6. CASE UNCHANGED vars
  BY <1>1, <1>6 DEF ProcessTypeOK, vars
<1> QED
  BY <1>2, <1>3, <1>4, <1>5, <1>6 DEF Next

LEMMA DeviceTypeStep == TypeOK /\ [Next]_vars => DeviceTypeOK'
<1> SUFFICES ASSUME TypeOK, [Next]_vars PROVE DeviceTypeOK'
  OBVIOUS
<1>1. DeviceTypeOK /\ ProcessTypeOK
  BY TypeParts
<1>2. ASSUME NEW i \in Iface, Plug(i) PROVE DeviceTypeOK'
  BY <1>1, <1>2, NotifyType DEF DeviceTypeOK, Plug
<1>3. ASSUME NEW i \in Iface, Unplug(i) PROVE DeviceTypeOK'
  BY <1>1, <1>3, NotifyType DEF DeviceTypeOK, Unplug
<1>4. ASSUME NEW i \in Iface, AddQueried(i) PROVE DeviceTypeOK'
  BY <1>1, <1>4, AddDeviceType DEF DeviceTypeOK, AddQueried
<1>5. CASE QueryDevices
  <2>1. queried' \subseteq Iface /\ twice' \subseteq Iface
    BY <1>1, <1>5 DEF ProcessTypeOK, QueryDevices
  <2> QED
    BY <1>1, <1>5, <2>1 DEF DeviceTypeOK, QueryDevices
<1>10. CASE RunLoop \/ BuildManager
  BY <1>1, <1>10 DEF DeviceTypeOK, RunLoop, BuildManager, deviceVars
<1>11. CASE Crash
  BY <1>1, <1>11 DEF DeviceTypeOK, Crash
<1>6. CASE HandleUevent
  <2>1. Head(uevents) \in Uevents /\ Tail(uevents) \in Seq(Uevents)
    BY <1>1, <1>6 DEF DeviceTypeOK, HandleUevent
  <2>2. Head(uevents).iface \in Iface
    BY <2>1 DEF Uevents
  <2> QED
    BY <1>1, <1>6, <2>1, <2>2, AddDeviceType, RemoveDeviceType DEF DeviceTypeOK, HandleUevent
<1>7. ASSUME NEW c \in Caller, NEW enable \in BOOLEAN, Enable(c, enable) PROVE DeviceTypeOK'
  BY <1>1, <1>7 DEF DeviceTypeOK, Enable, deviceVars
<1>8. ASSUME NEW k \in DOMAIN chains, NEW answer \in Answers, EnableNetDone(k, answer)
      PROVE  DeviceTypeOK'
  BY <1>1, <1>8 DEF DeviceTypeOK, EnableNetDone, deviceVars
<1>9. CASE UNCHANGED vars
  BY <1>1, <1>9 DEF DeviceTypeOK, vars
<1> QED
  BY <1>2, <1>3, <1>4, <1>5, <1>6, <1>7, <1>8, <1>9, <1>10, <1>11 DEF Next

LEMMA EnableTypeStep == TypeOK /\ ChainsInv /\ [Next]_vars => EnableTypeOK' /\ ChainsInv'
<1> SUFFICES ASSUME TypeOK, ChainsInv, [Next]_vars PROVE EnableTypeOK' /\ ChainsInv'
  OBVIOUS
<1>1. EnableTypeOK /\ ProcessTypeOK
  BY TypeParts
<1>2. ASSUME UNCHANGED enableVars, UNCHANGED phase \/ phase # "running"
      PROVE  EnableTypeOK'
  BY <1>1, <1>2 DEF EnableTypeOK, enableVars
<1>3. ASSUME UNCHANGED enableVars, phase' = phase \/ chains = <<>>
      PROVE  ChainsInv'
  BY <1>3 DEF ChainsInv, enableVars
<1>4. ASSUME NEW i \in Iface, Plug(i) \/ Unplug(i) \/ AddQueried(i)
      PROVE  EnableTypeOK' /\ ChainsInv'
  BY <1>2, <1>3, <1>4 DEF Plug, Unplug, AddQueried
<1>5. CASE QueryDevices \/ RunLoop \/ HandleUevent
  BY <1>2, <1>3, <1>5 DEF QueryDevices, RunLoop, HandleUevent, ChainsInv
<1>6. CASE BuildManager
  BY <1>1, <1>6 DEF BuildManager, ParseStateFile, EnableTypeOK, ChainsInv
<1>7. CASE Crash
  <2>1. EnableTypeOK'
    BY <1>1, <1>7, CrashChains DEF Crash, EnableTypeOK
  <2> QED
    BY <1>7, <2>1, CrashChains
<1>8. ASSUME NEW c \in Caller, NEW enable \in BOOLEAN, Enable(c, enable)
      PROVE  EnableTypeOK' /\ ChainsInv'
  <2>1. /\ netEnabled' \in BOOLEAN
        /\ state' \in {"DISCONNECTED", "ASLEEP"}
        /\ stateFile' \in {"none", "empty", "true", "false"}
    <3>1. InternalEnable(enable) \/ KeepSetting
      BY <1>8 DEF Enable
    <3> QED
      BY <1>1, <3>1, SettingType DEF KeepSetting, EnableTypeOK
  <2>2. granted' \subseteq DOMAIN calls'
    BY <1>1, <1>8, EnableType DEF Enable, EnableTypeOK
  <2> QED
    BY <1>8, <2>1, <2>2, EnableType, EnableChains DEF EnableTypeOK
<1>9. ASSUME NEW k \in DOMAIN chains, NEW answer \in Answers, EnableNetDone(k, answer)
      PROVE  EnableTypeOK' /\ ChainsInv'
  <2>1. chains[k].call \in DOMAIN calls
    BY DEF ChainsInv
  <2> QED
    BY <1>9, <2>1, EnableNetDoneType, EnableNetDoneChains DEF EnableTypeOK
<1>10. CASE UNCHANGED vars
  BY <1>2, <1>3, <1>10 DEF vars, enableVars
<1> QED
  BY <1>4, <1>5, <1>6, <1>7, <1>8, <1>9, <1>10 DEF Next

(* Every variable of the manager keeps its type, and each chain in flight     *)
(* belongs to one call that waits for it.                                     *)
THEOREM TypeCorrect == Spec => [](TypeOK /\ ChainsInv)
<1>1. Init => TypeOK /\ ChainsInv
  BY InitType
<1>2. TypeOK /\ ChainsInv /\ [Next]_vars => (TypeOK /\ ChainsInv)'
  <2> SUFFICES ASSUME TypeOK, ChainsInv, [Next]_vars PROVE TypeOK' /\ ChainsInv'
    OBVIOUS
  <2>1. ProcessTypeOK' /\ DeviceTypeOK' /\ EnableTypeOK' /\ ChainsInv'
    BY ProcessTypeStep, DeviceTypeStep, EnableTypeStep
  <2> QED
    BY <2>1
       DEF TypeOK, DeviceTypeOK, EnableTypeOK, ProcessTypeOK, Uevents, CallRecord, ChainRecord
<1> QED
  BY <1>1, <1>2, PTL DEF Spec
-----------------------------------------------------------------------------
(* The inductive invariant *)

IsEvent(k, action, i) ==
    k \in DOMAIN uevents /\ uevents[k].action = action /\ uevents[k].iface = i

(* The queued uevents of a node alternate and end with its presence. *)
QueueInv ==
    \A i \in Iface :
        /\ i \in present =>
              \A k \in DOMAIN uevents : IsEvent(k, "remove", i) =>
                  \E m \in DOMAIN uevents : m > k /\ IsEvent(m, "add", i)
        /\ i \notin present =>
              \A k \in DOMAIN uevents : IsEvent(k, "add", i) =>
                  \E m \in DOMAIN uevents : m > k /\ IsEvent(m, "remove", i)
        /\ \A k, m \in DOMAIN uevents :
              k < m /\ IsEvent(k, "add", i) /\ IsEvent(m, "add", i) =>
                  \E j \in DOMAIN uevents : k < j /\ j < m /\ uevents[j].iface = i

(* No events reach a daemon that is not there, it has no devices before it    *)
(* asks for them, and nothing is left to add once it is in its loop.          *)
PhaseInv ==
    /\ phase = "off" => uevents = <<>>
    /\ phase \in {"off", "built"} => devices = <<>>
    /\ phase # "starting" => queried = {}

Asked == phase \in {"starting", "running"}

(* A present node is listed or about to be. *)
CoveredInv ==
    Asked => \A i \in present \ Driverless :
                 \/ IsListed(i)
                 \/ i \in queried
                 \/ \E k \in DOMAIN uevents : IsEvent(k, "add", i)

(* As far as the events handled so far tell, the node is there. *)
Expected(i) ==
    /\ \A k \in DOMAIN uevents : IsEvent(k, "add", i) =>
           \E j \in DOMAIN uevents : j < k /\ uevents[j].iface = i
    /\ (\A k \in DOMAIN uevents : uevents[k].iface # i) => i \in present

Unique(i) ==
    \A m, n \in DOMAIN devices : devices[m].iface = i /\ devices[n].iface = i => m = n

(* Only an expected node is listed, once, or waiting to be. *)
ListedInv ==
    Asked => \A i \in Iface \ twice :
                 /\ Unique(i)
                 /\ IsListed(i) \/ i \in queried => Expected(i)
                 /\ i \in queried => ~IsListed(i)

DeviceInv == QueueInv /\ PhaseInv /\ CoveredInv /\ ListedInv

LEMMA QueueAppended ==
    ASSUME TypeOK, NEW action \in {"add", "remove"}, NEW i \in Iface,
           uevents' = Append(uevents, [action |-> action, iface |-> i])
    PROVE  /\ Len(uevents) \in Nat
           /\ DOMAIN uevents = 1 .. Len(uevents)
           /\ DOMAIN uevents' = 1 .. Len(uevents) + 1
           /\ \A k \in 1 .. Len(uevents) : uevents'[k] = uevents[k]
           /\ uevents'[Len(uevents) + 1].action = action
           /\ uevents'[Len(uevents) + 1].iface = i
<1>1. uevents \in Seq(Uevents)
  BY DEF TypeOK, Uevents
<1> QED
  BY <1>1

LEMMA QueueAdvanced ==
    ASSUME TypeOK, uevents # <<>>, uevents' = Tail(uevents)
    PROVE  /\ Len(uevents) \in Nat \ {0}
           /\ DOMAIN uevents = 1 .. Len(uevents)
           /\ DOMAIN uevents' = 1 .. Len(uevents) - 1
           /\ \A k \in 1 .. Len(uevents) - 1 : uevents'[k] = uevents[k + 1]
           /\ Head(uevents) = uevents[1]
           /\ uevents[1].action \in {"add", "remove"}
           /\ uevents[1].iface \in Iface
<1>1. uevents \in Seq(Uevents)
  BY DEF TypeOK, Uevents
<1>2. Head(uevents) \in Uevents
  BY <1>1
<1> QED
  BY <1>1, <1>2 DEF Uevents

(* What AddDevice and RemoveDevice do to the list. *)
LEMMA DeviceAdded ==
    ASSUME TypeOK, NEW i \in Iface, AddDevice(i)
    PROVE  /\ \A j \in Iface : j # i => /\ IsListed(j)' <=> IsListed(j)
                                        /\ Unique(j) => Unique(j)'
           /\ IsListed(i) => IsListed(i)'
           /\ i \in present \ Driverless => IsListed(i)'
           /\ ~IsListed(i) => Unique(i)'
<1>1. devices \in Seq(Devices) /\ Len(devices) \in Nat /\ DOMAIN devices = 1 .. Len(devices)
  BY DEF TypeOK
<1>2. CASE UNCHANGED devices
  BY <1>2 DEF AddDevice, IsListed, Unique
<1>3. CASE devices' = Append(devices, NewDevice(i))
  <2>1. NewDevice(i) \in Devices /\ NewDevice(i).iface = i
    BY DEF NewDevice, TypeOK, Devices
  <2>2. /\ DOMAIN devices' = 1 .. Len(devices) + 1
        /\ \A n \in 1 .. Len(devices) : devices'[n] = devices[n]
        /\ devices'[Len(devices) + 1].iface = i
    BY <1>1, <1>3, <2>1
  <2> QED
    BY <1>1, <2>2 DEF IsListed, Unique
<1> QED
  BY <1>2, <1>3 DEF AddDevice

LEMMA DeviceRemoved ==
    ASSUME TypeOK, NEW i \in Iface, RemoveDevice(i)
    PROVE  /\ \A j \in Iface : j # i => /\ IsListed(j)' <=> IsListed(j)
                                        /\ Unique(j) => Unique(j)'
           /\ Unique(i) => ~IsListed(i)'
<1>1. devices \in Seq(Devices) /\ Len(devices) \in Nat /\ DOMAIN devices = 1 .. Len(devices)
  BY DEF TypeOK
<1>2. CASE ~IsListed(i) /\ UNCHANGED devices
  BY <1>2 DEF IsListed, Unique
<1>3. CASE \E n \in DOMAIN devices : FoundAt(n, i) /\ devices' = RemoveAt(devices, n)
  <2>1. PICK n \in DOMAIN devices : FoundAt(n, i) /\ devices' = RemoveAt(devices, n)
    BY <1>3
  <2>2. /\ Len(devices') = Len(devices) - 1
        /\ devices' \in Seq(Devices)
        /\ \A m \in 1 .. n - 1 : devices'[m] = devices[m]
        /\ \A m \in n .. Len(devices) - 1 : devices'[m] = devices[m + 1]
    <3>1. n \in 1 .. Len(devices) /\ devices' = RemoveAt(devices, n)
      BY <1>1, <2>1
    <3> QED
      BY <1>1, <3>1, RemoveAtFacts
  <2>3. DOMAIN devices' = 1 .. Len(devices) - 1
    BY <1>1, <2>2
  <2>4. devices[n].iface = i
    BY <2>1 DEF FoundAt
  <2>5. ASSUME NEW m \in DOMAIN devices'
        PROVE  \E a \in DOMAIN devices :
                  a # n /\ devices'[m] = devices[a] /\ a = (IF m < n THEN m ELSE m + 1)
    <3>1. CASE m < n
      BY <1>1, <2>1, <2>2, <2>3, <3>1
    <3>2. CASE m >= n
      BY <1>1, <2>1, <2>2, <2>3, <3>2
    <3> QED
      BY <1>1, <2>3, <3>1, <3>2
  <2>6. ASSUME NEW a \in DOMAIN devices, a # n
        PROVE  \E m \in DOMAIN devices' : devices'[m] = devices[a]
    <3>1. CASE a < n
      <4>1. a \in 1 .. n - 1 /\ a \in DOMAIN devices'
        BY <1>1, <2>1, <2>3, <3>1
      <4> QED
        BY <2>2, <4>1
    <3>2. CASE a > n
      <4>1. a - 1 \in n .. Len(devices) - 1 /\ a - 1 \in DOMAIN devices' /\ (a - 1) + 1 = a
        BY <1>1, <2>1, <2>3, <3>2
      <4>2. devices'[a - 1] = devices[a]
        BY <2>2, <4>1
      <4> QED
        BY <4>1, <4>2
    <3> QED
      BY <1>1, <2>1, <2>6, <3>1, <3>2
  <2>7. ASSUME NEW j \in Iface, Unique(j), NEW m \in DOMAIN devices', NEW l \in DOMAIN devices',
               devices'[m].iface = j, devices'[l].iface = j
        PROVE  m = l
    <3>1. PICK a \in DOMAIN devices :
             a # n /\ devices'[m] = devices[a] /\ a = (IF m < n THEN m ELSE m + 1)
      BY <2>5
    <3>2. PICK b \in DOMAIN devices :
             b # n /\ devices'[l] = devices[b] /\ b = (IF l < n THEN l ELSE l + 1)
      BY <2>5
    <3>3. a = b
      BY <2>7, <3>1, <3>2 DEF Unique
    <3> QED
      BY <1>1, <2>1, <2>3, <3>1, <3>2, <3>3
  <2>8. ASSUME NEW j \in Iface, j # i
        PROVE  (IsListed(j)' <=> IsListed(j)) /\ (Unique(j) => Unique(j)')
    BY <2>4, <2>5, <2>6, <2>7, <2>8 DEF IsListed, Unique
  <2>9. Unique(i) => ~IsListed(i)'
    BY <2>1, <2>4, <2>5 DEF IsListed, Unique
  <2> QED
    BY <2>8, <2>9
<1> QED
  BY <1>2, <1>3 DEF RemoveDevice

-----------------------------------------------------------------------------
(* The kernel's steps *)

LEMMA QueueOfOthers ==
    ASSUME TypeOK, QueueInv, NEW action \in {"add", "remove"}, NEW i \in Iface,
           uevents' = Append(uevents, [action |-> action, iface |-> i]),
           NEW j \in Iface, j # i, j \in present' <=> j \in present
    PROVE  /\ j \in present' =>
                 \A k \in DOMAIN uevents' : IsEvent(k, "remove", j)' =>
                     \E m \in DOMAIN uevents' : m > k /\ IsEvent(m, "add", j)'
           /\ j \notin present' =>
                 \A k \in DOMAIN uevents' : IsEvent(k, "add", j)' =>
                     \E m \in DOMAIN uevents' : m > k /\ IsEvent(m, "remove", j)'
           /\ \A k, m \in DOMAIN uevents' :
                 k < m /\ IsEvent(k, "add", j)' /\ IsEvent(m, "add", j)' =>
                     \E l \in DOMAIN uevents' : k < l /\ l < m /\ uevents'[l].iface = j
<1>1. \A k \in DOMAIN uevents' : uevents'[k].iface = j => k \in DOMAIN uevents
  BY QueueAppended
<1>2. \A k \in DOMAIN uevents : k \in DOMAIN uevents' /\ uevents'[k] = uevents[k]
  BY QueueAppended
<1>3. /\ j \in present =>
           \A k \in DOMAIN uevents : IsEvent(k, "remove", j) =>
               \E m \in DOMAIN uevents : m > k /\ IsEvent(m, "add", j)
      /\ j \notin present =>
           \A k \in DOMAIN uevents : IsEvent(k, "add", j) =>
               \E m \in DOMAIN uevents : m > k /\ IsEvent(m, "remove", j)
      /\ \A k, m \in DOMAIN uevents :
           k < m /\ IsEvent(k, "add", j) /\ IsEvent(m, "add", j) =>
               \E l \in DOMAIN uevents : k < l /\ l < m /\ uevents[l].iface = j
  BY DEF QueueInv
<1> QED
  BY <1>1, <1>2, <1>3 DEF IsEvent

LEMMA PlugQueue ==
    ASSUME TypeOK, QueueInv, NEW i \in Iface, i \notin present,
           present' = present \union {i},
           uevents' = Append(uevents, [action |-> "add", iface |-> i])
    PROVE  QueueInv'
<1> DEFINE L == Len(uevents)
<1>1. /\ L \in Nat /\ DOMAIN uevents = 1 .. L /\ DOMAIN uevents' = 1 .. L + 1
      /\ \A k \in 1 .. L : uevents'[k] = uevents[k]
      /\ uevents'[L + 1].action = "add" /\ uevents'[L + 1].iface = i
  BY QueueAppended
<1> HIDE DEF L
<1>2. \A k \in DOMAIN uevents' : IsEvent(k, "remove", i)' =>
          \E m \in DOMAIN uevents' : m > k /\ IsEvent(m, "add", i)'
  BY <1>1 DEF IsEvent
<1>3. ASSUME NEW k \in DOMAIN uevents', NEW m \in DOMAIN uevents', k < m,
             IsEvent(k, "add", i)', IsEvent(m, "add", i)'
      PROVE  \E l \in DOMAIN uevents' : k < l /\ l < m /\ uevents'[l].iface = i
  <2>1. k \in 1 .. L /\ IsEvent(k, "add", i)
    BY <1>1, <1>3 DEF IsEvent
  <2>2. CASE m = L + 1
    <3>1. PICK l \in DOMAIN uevents : l > k /\ IsEvent(l, "remove", i)
      BY <2>1, <1>1 DEF QueueInv
    <3> QED
      BY <1>1, <2>1, <2>2, <3>1 DEF IsEvent
  <2>3. CASE m \in 1 .. L
    <3>1. IsEvent(m, "add", i)
      BY <1>1, <1>3, <2>3 DEF IsEvent
    <3>2. PICK l \in DOMAIN uevents : k < l /\ l < m /\ uevents[l].iface = i
      BY <1>1, <1>3, <2>1, <2>3, <3>1 DEF QueueInv
    <3> QED
      BY <1>1, <3>2
  <2> QED
    BY <1>1, <2>2, <2>3
<1>4. i \in present'
  OBVIOUS
<1>5. \A j \in Iface : j # i => (j \in present' <=> j \in present)
  OBVIOUS
<1> QED
  BY <1>2, <1>3, <1>4, <1>5, QueueOfOthers DEF QueueInv

LEMMA UnplugQueue ==
    ASSUME TypeOK, QueueInv, NEW i \in Iface, i \in present,
           present' = present \ {i},
           uevents' = Append(uevents, [action |-> "remove", iface |-> i])
    PROVE  QueueInv'
<1> DEFINE L == Len(uevents)
<1>1. /\ L \in Nat /\ DOMAIN uevents = 1 .. L /\ DOMAIN uevents' = 1 .. L + 1
      /\ \A k \in 1 .. L : uevents'[k] = uevents[k]
      /\ uevents'[L + 1].action = "remove" /\ uevents'[L + 1].iface = i
  BY QueueAppended
<1> HIDE DEF L
<1>2. \A k \in DOMAIN uevents' : IsEvent(k, "add", i)' =>
          \E m \in DOMAIN uevents' : m > k /\ IsEvent(m, "remove", i)'
  BY <1>1 DEF IsEvent
<1>3. ASSUME NEW k \in DOMAIN uevents', NEW m \in DOMAIN uevents', k < m,
             IsEvent(k, "add", i)', IsEvent(m, "add", i)'
      PROVE  \E l \in DOMAIN uevents' : k < l /\ l < m /\ uevents'[l].iface = i
  <2>1. k \in 1 .. L /\ IsEvent(k, "add", i) /\ m \in 1 .. L /\ IsEvent(m, "add", i)
    BY <1>1, <1>3 DEF IsEvent
  <2>2. PICK l \in DOMAIN uevents : k < l /\ l < m /\ uevents[l].iface = i
    BY <1>1, <1>3, <2>1 DEF QueueInv
  <2> QED
    BY <1>1, <2>2
<1>4. i \notin present'
  OBVIOUS
<1>5. \A j \in Iface : j # i => (j \in present' <=> j \in present)
  OBVIOUS
<1> QED
  BY <1>2, <1>3, <1>4, <1>5, QueueOfOthers DEF QueueInv

(* A uevent of another node changes nothing that is expected of j. *)
LEMMA ExpectedOthers ==
    ASSUME TypeOK, NEW action \in {"add", "remove"}, NEW i \in Iface,
           uevents' = Append(uevents, [action |-> action, iface |-> i]),
           NEW j \in Iface, j # i, j \in present' <=> j \in present, Expected(j)
    PROVE  Expected(j)'
<1>1. \A k \in DOMAIN uevents' : uevents'[k].iface = j => k \in DOMAIN uevents
  BY QueueAppended
<1>2. \A k \in DOMAIN uevents : k \in DOMAIN uevents' /\ uevents'[k] = uevents[k]
  BY QueueAppended
<1> QED
  BY <1>1, <1>2 DEF Expected, IsEvent

LEMMA ExpectedPlugged ==
    ASSUME TypeOK, NEW i \in Iface, i \notin present,
           uevents' = Append(uevents, [action |-> "add", iface |-> i]), Expected(i)
    PROVE  Expected(i)'
<1> DEFINE L == Len(uevents)
<1>1. /\ L \in Nat /\ DOMAIN uevents = 1 .. L /\ DOMAIN uevents' = 1 .. L + 1
      /\ \A k \in 1 .. L : uevents'[k] = uevents[k]
      /\ uevents'[L + 1].action = "add" /\ uevents'[L + 1].iface = i
  BY QueueAppended
<1> HIDE DEF L
<1>2. PICK l \in DOMAIN uevents : uevents[l].iface = i
  BY DEF Expected
<1>3. \A k \in 1 .. L : IsEvent(k, "add", i) =>
          \E j \in DOMAIN uevents : j < k /\ uevents[j].iface = i
  BY <1>1 DEF Expected
<1>4. ASSUME NEW k \in DOMAIN uevents', IsEvent(k, "add", i)'
      PROVE  \E j \in DOMAIN uevents' : j < k /\ uevents'[j].iface = i
  <2>1. CASE k = L + 1
    BY <1>1, <1>2, <2>1
  <2>2. CASE k \in 1 .. L
    <3>1. IsEvent(k, "add", i)
      BY <1>1, <1>4, <2>2 DEF IsEvent
    <3>2. PICK j \in DOMAIN uevents : j < k /\ uevents[j].iface = i
      BY <1>3, <2>2, <3>1
    <3> QED
      BY <1>1, <3>2
  <2> QED
    BY <1>1, <2>1, <2>2
<1>5. ~(\A k \in DOMAIN uevents' : uevents'[k].iface # i)
  BY <1>1
<1> QED
  BY <1>4, <1>5 DEF Expected

LEMMA ExpectedUnplugged ==
    ASSUME TypeOK, NEW i \in Iface,
           uevents' = Append(uevents, [action |-> "remove", iface |-> i]), Expected(i)
    PROVE  Expected(i)'
<1> DEFINE L == Len(uevents)
<1>1. /\ L \in Nat /\ DOMAIN uevents = 1 .. L /\ DOMAIN uevents' = 1 .. L + 1
      /\ \A k \in 1 .. L : uevents'[k] = uevents[k]
      /\ uevents'[L + 1].action = "remove" /\ uevents'[L + 1].iface = i
  BY QueueAppended
<1> HIDE DEF L
<1>2. \A k \in 1 .. L : IsEvent(k, "add", i) =>
          \E j \in DOMAIN uevents : j < k /\ uevents[j].iface = i
  BY <1>1 DEF Expected
<1>3. \A k \in DOMAIN uevents' : IsEvent(k, "add", i)' => k \in 1 .. L /\ IsEvent(k, "add", i)
  BY <1>1 DEF IsEvent
<1>4. \A k \in DOMAIN uevents' : IsEvent(k, "add", i)' =>
          \E j \in DOMAIN uevents' : j < k /\ uevents'[j].iface = i
  BY <1>1, <1>2, <1>3
<1>5. ~(\A k \in DOMAIN uevents' : uevents'[k].iface # i)
  BY <1>1
<1> QED
  BY <1>4, <1>5 DEF Expected

LEMMA PlugDevices ==
    ASSUME TypeOK, DeviceInv, NEW i \in Iface, Plug(i)
    PROVE  DeviceInv'
<1>1. /\ present' = present \union {i} /\ i \notin present
      /\ UNCHANGED <<phase, queried, twice, devices>>
      /\ QueueInv /\ PhaseInv /\ CoveredInv /\ ListedInv
  BY DEF Plug, DeviceInv
<1>2. CASE phase = "off"
  <2>1. uevents' = uevents /\ uevents = <<>>
    BY <1>1, <1>2 DEF Plug, Notify, Subscribed, PhaseInv
  <2> QED
    BY <1>1, <1>2, <2>1
       DEF DeviceInv, QueueInv, IsEvent, PhaseInv, CoveredInv, ListedInv, Asked
<1>3. CASE phase # "off"
  <2>1. uevents' = Append(uevents, [action |-> "add", iface |-> i])
    BY <1>3 DEF Plug, Notify, Subscribed
  <2>2. QueueInv'
    BY <1>1, <2>1, PlugQueue
  <2>3. PhaseInv'
    BY <1>1, <1>3 DEF PhaseInv
  <2>4. CoveredInv'
    <3>1. /\ DOMAIN uevents \subseteq DOMAIN uevents'
          /\ \A k \in DOMAIN uevents : uevents'[k] = uevents[k]
          /\ \E k \in DOMAIN uevents' : IsEvent(k, "add", i)'
      BY <2>1, QueueAppended DEF IsEvent
    <3> QED
      BY <1>1, <3>1 DEF CoveredInv, Asked, IsListed, IsEvent
  <2>5. \A j \in Iface : Expected(j) => Expected(j)'
    BY <1>1, <2>1, ExpectedOthers, ExpectedPlugged
  <2>6. ListedInv'
    BY <1>1, <2>5 DEF ListedInv, Asked, IsListed, Unique
  <2> QED
    BY <2>2, <2>3, <2>4, <2>6 DEF DeviceInv
<1> QED
  BY <1>2, <1>3

LEMMA UnplugDevices ==
    ASSUME TypeOK, DeviceInv, NEW i \in Iface, Unplug(i)
    PROVE  DeviceInv'
<1>1. /\ present' = present \ {i} /\ i \in present
      /\ UNCHANGED <<phase, queried, twice, devices>>
      /\ QueueInv /\ PhaseInv /\ CoveredInv /\ ListedInv
  BY DEF Unplug, DeviceInv
<1>2. CASE phase = "off"
  <2>1. uevents' = uevents /\ uevents = <<>>
    BY <1>1, <1>2 DEF Unplug, Notify, Subscribed, PhaseInv
  <2> QED
    BY <1>1, <1>2, <2>1
       DEF DeviceInv, QueueInv, IsEvent, PhaseInv, CoveredInv, ListedInv, Asked
<1>3. CASE phase # "off"
  <2>1. uevents' = Append(uevents, [action |-> "remove", iface |-> i])
    BY <1>3 DEF Unplug, Notify, Subscribed
  <2>2. QueueInv'
    BY <1>1, <2>1, UnplugQueue
  <2>3. PhaseInv'
    BY <1>1, <1>3 DEF PhaseInv
  <2>4. CoveredInv'
    <3>1. /\ DOMAIN uevents \subseteq DOMAIN uevents'
          /\ \A k \in DOMAIN uevents : uevents'[k] = uevents[k]
      BY <2>1, QueueAppended
    <3> QED
      BY <1>1, <3>1 DEF CoveredInv, Asked, IsListed, IsEvent
  <2>5. \A j \in Iface : Expected(j) => Expected(j)'
    BY <1>1, <2>1, ExpectedOthers, ExpectedUnplugged
  <2>6. ListedInv'
    BY <1>1, <2>5 DEF ListedInv, Asked, IsListed, Unique
  <2> QED
    BY <2>2, <2>3, <2>4, <2>6 DEF DeviceInv
<1> QED
  BY <1>2, <1>3

-----------------------------------------------------------------------------
(* The manager's steps *)

LEMMA QueryDevicesDevices ==
    ASSUME TypeOK, DeviceInv, QueryDevices
    PROVE  DeviceInv'
<1>1. /\ phase = "built" /\ phase' = "starting" /\ queried' = present
      /\ UNCHANGED <<present, uevents, devices>>
      /\ devices = <<>>
      /\ QueueInv
  BY DEF QueryDevices, kernelVars, DeviceInv, PhaseInv
<1>2. QueueInv'
  BY <1>1 DEF QueueInv, IsEvent
<1>3. CoveredInv'
  BY <1>1 DEF CoveredInv
<1>4. ASSUME NEW i \in Iface \ twice', i \in present, NEW k \in DOMAIN uevents
      PROVE  ~IsEvent(k, "add", i)
  <2>1. uevents \in Seq(Uevents)
    BY DEF TypeOK, Uevents
  <2>2. uevents[k] = [action |-> uevents[k].action, iface |-> uevents[k].iface]
    <3>1. uevents[k] \in Uevents
      BY <2>1
    <3> QED
      BY <3>1 DEF Uevents
  <2>3. uevents[k] \in ToSet(uevents)
    BY DEF ToSet
  <2> QED
    BY <1>4, <2>2, <2>3 DEF QueryDevices, IsEvent
<1>5. \A i \in Iface : ~IsListed(i)' /\ Unique(i)'
  BY <1>1 DEF IsListed, Unique
<1>6. ListedInv'
  BY <1>1, <1>4, <1>5 DEF ListedInv, Expected, IsEvent
<1> QED
  BY <1>1, <1>2, <1>3, <1>6 DEF DeviceInv, PhaseInv

LEMMA AddQueriedDevices ==
    ASSUME TypeOK, DeviceInv, NEW i \in Iface, AddQueried(i)
    PROVE  DeviceInv'
<1>1. /\ phase = "starting" /\ i \in queried /\ queried' = queried \ {i} /\ AddDevice(i)
      /\ UNCHANGED <<present, phase, uevents, twice>>
      /\ QueueInv /\ CoveredInv /\ ListedInv
  BY DEF AddQueried, kernelVars, DeviceInv
<1>2. /\ \A j \in Iface : j # i => /\ IsListed(j)' <=> IsListed(j)
                                   /\ Unique(j) => Unique(j)'
      /\ i \in present \ Driverless => IsListed(i)'
      /\ ~IsListed(i) => Unique(i)'
  BY <1>1, DeviceAdded
<1>3. QueueInv'
  BY <1>1 DEF QueueInv, IsEvent
<1>4. PhaseInv'
  BY <1>1 DEF PhaseInv
<1>5. present \subseteq Iface
  BY DEF TypeOK
<1>6. CoveredInv'
  BY <1>1, <1>2, <1>5 DEF CoveredInv, Asked, IsEvent
<1>7. \A j \in Iface : Expected(j)' <=> Expected(j)
  BY <1>1 DEF Expected, IsEvent
<1>8. ListedInv'
  <2> SUFFICES ASSUME NEW j \in Iface \ twice
               PROVE  /\ Unique(j)'
                      /\ IsListed(j)' \/ j \in queried' => Expected(j)'
                      /\ j \in queried' => ~IsListed(j)'
    BY <1>1 DEF ListedInv
  <2>1. /\ Unique(j)
        /\ IsListed(j) \/ j \in queried => Expected(j)
        /\ j \in queried => ~IsListed(j)
    BY <1>1 DEF ListedInv, Asked
  <2>2. CASE j = i
    BY <1>1, <1>2, <1>7, <2>1, <2>2
  <2>3. CASE j # i
    BY <1>1, <1>2, <1>7, <2>1, <2>3
  <2> QED
    BY <2>2, <2>3
<1> QED
  BY <1>3, <1>4, <1>6, <1>8 DEF DeviceInv

(* The queue without its first event. *)
LEMMA QueueAdvancedInv ==
    ASSUME TypeOK, QueueInv, uevents # <<>>, uevents' = Tail(uevents), UNCHANGED present
    PROVE  QueueInv'
<1> DEFINE L == Len(uevents)
<1>1. /\ L \in Nat \ {0} /\ DOMAIN uevents = 1 .. L /\ DOMAIN uevents' = 1 .. L - 1
      /\ \A k \in 1 .. L - 1 : uevents'[k] = uevents[k + 1]
  BY QueueAdvanced
<1> HIDE DEF L
<1>2. ASSUME NEW i \in Iface, NEW a, NEW k \in DOMAIN uevents', IsEvent(k, a, i)'
      PROVE  IsEvent(k + 1, a, i)
  BY <1>1, <1>2 DEF IsEvent
<1>3. ASSUME NEW i \in Iface, NEW a, NEW k \in DOMAIN uevents, k > 1, IsEvent(k, a, i)
      PROVE  k - 1 \in DOMAIN uevents' /\ IsEvent(k - 1, a, i)'
  <2>1. k - 1 \in 1 .. L - 1 /\ (k - 1) + 1 = k
    BY <1>1, <1>3
  <2> QED
    BY <1>1, <1>3, <2>1 DEF IsEvent
<1>4. ASSUME NEW i \in Iface, NEW a, NEW b, NEW k \in DOMAIN uevents', IsEvent(k, a, i)',
             \A l \in DOMAIN uevents : IsEvent(l, a, i) =>
                 \E m \in DOMAIN uevents : m > l /\ IsEvent(m, b, i)
      PROVE  \E m \in DOMAIN uevents' : m > k /\ IsEvent(m, b, i)'
  <2>1. k + 1 \in DOMAIN uevents /\ IsEvent(k + 1, a, i)
    BY <1>1, <1>2, <1>4
  <2>2. PICK m \in DOMAIN uevents : m > k + 1 /\ IsEvent(m, b, i)
    BY <1>4, <2>1
  <2>3. m - 1 \in DOMAIN uevents' /\ IsEvent(m - 1, b, i)' /\ m - 1 > k
    BY <1>1, <1>3, <2>2
  <2> QED
    BY <2>3
<1>5. ASSUME NEW i \in Iface, NEW k \in DOMAIN uevents', NEW m \in DOMAIN uevents', k < m,
             IsEvent(k, "add", i)', IsEvent(m, "add", i)'
      PROVE  \E l \in DOMAIN uevents' : k < l /\ l < m /\ uevents'[l].iface = i
  <2>1. /\ k + 1 \in DOMAIN uevents /\ m + 1 \in DOMAIN uevents /\ k + 1 < m + 1
        /\ IsEvent(k + 1, "add", i) /\ IsEvent(m + 1, "add", i)
    BY <1>1, <1>2, <1>5
  <2>2. PICK l \in DOMAIN uevents : k + 1 < l /\ l < m + 1 /\ uevents[l].iface = i
    BY <2>1 DEF QueueInv
  <2>3. l - 1 \in 1 .. L - 1 /\ (l - 1) + 1 = l /\ k < l - 1 /\ l - 1 < m
    BY <1>1, <2>2
  <2>4. uevents'[l - 1].iface = i
    BY <1>1, <2>2, <2>3
  <2> QED
    BY <1>1, <2>3, <2>4
<1>6. ASSUME NEW i \in Iface
      PROVE  /\ i \in present => \A l \in DOMAIN uevents : IsEvent(l, "remove", i) =>
                   \E m \in DOMAIN uevents : m > l /\ IsEvent(m, "add", i)
             /\ i \notin present => \A l \in DOMAIN uevents : IsEvent(l, "add", i) =>
                   \E m \in DOMAIN uevents : m > l /\ IsEvent(m, "remove", i)
  BY DEF QueueInv
<1> QED
  BY <1>4, <1>5, <1>6 DEF QueueInv

(* Events of other nodes go on to be expected or not. *)
LEMMA ExpectedAdvancedOther ==
    ASSUME TypeOK, uevents # <<>>, uevents' = Tail(uevents), UNCHANGED present,
           NEW j \in Iface, uevents[1].iface # j, Expected(j)
    PROVE  Expected(j)'
<1> DEFINE L == Len(uevents)
<1>1. /\ L \in Nat \ {0} /\ DOMAIN uevents = 1 .. L /\ DOMAIN uevents' = 1 .. L - 1
      /\ \A k \in 1 .. L - 1 : uevents'[k] = uevents[k + 1]
  BY QueueAdvanced
<1> HIDE DEF L
<1>2. ASSUME NEW l \in DOMAIN uevents, uevents[l].iface = j
      PROVE  l - 1 \in DOMAIN uevents' /\ uevents'[l - 1].iface = j
  <2>1. l # 1
    BY <1>2
  <2>2. l - 1 \in 1 .. L - 1 /\ (l - 1) + 1 = l
    BY <1>1, <2>1
  <2> QED
    BY <1>1, <1>2, <2>2
<1>3. ASSUME NEW k \in DOMAIN uevents', IsEvent(k, "add", j)'
      PROVE  \E l \in DOMAIN uevents' : l < k /\ uevents'[l].iface = j
  <2>1. k + 1 \in DOMAIN uevents /\ IsEvent(k + 1, "add", j)
    BY <1>1, <1>3 DEF IsEvent
  <2>2. PICK l \in DOMAIN uevents : l < k + 1 /\ uevents[l].iface = j
    BY <2>1 DEF Expected
  <2>3. l - 1 \in DOMAIN uevents' /\ uevents'[l - 1].iface = j
    BY <1>2, <2>2
  <2>4. l - 1 < k
    BY <1>1, <2>2
  <2> QED
    BY <2>3, <2>4
<1>4. (\A k \in DOMAIN uevents' : uevents'[k].iface # j) => j \in present'
  BY <1>2 DEF Expected
<1> QED
  BY <1>3, <1>4 DEF Expected

(* Once its "add" is handled, a node is expected. *)
LEMMA ExpectedAdded ==
    ASSUME TypeOK, QueueInv, uevents # <<>>, uevents' = Tail(uevents), UNCHANGED present,
           NEW i \in Iface, IsEvent(1, "add", i)
    PROVE  Expected(i)' /\ ~Expected(i)
<1> DEFINE L == Len(uevents)
<1>1. /\ L \in Nat \ {0} /\ DOMAIN uevents = 1 .. L /\ DOMAIN uevents' = 1 .. L - 1
      /\ \A k \in 1 .. L - 1 : uevents'[k] = uevents[k + 1]
  BY QueueAdvanced
<1> HIDE DEF L
<1>2. ASSUME NEW k \in DOMAIN uevents', IsEvent(k, "add", i)'
      PROVE  \E l \in DOMAIN uevents' : l < k /\ uevents'[l].iface = i
  <2>1. k + 1 \in DOMAIN uevents /\ IsEvent(k + 1, "add", i) /\ 1 < k + 1
    BY <1>1, <1>2 DEF IsEvent
  <2>2. PICK l \in DOMAIN uevents : 1 < l /\ l < k + 1 /\ uevents[l].iface = i
    BY <1>1, <2>1 DEF QueueInv
  <2>3. l - 1 \in 1 .. L - 1 /\ (l - 1) + 1 = l /\ l - 1 < k
    BY <1>1, <2>2
  <2> QED
    BY <1>1, <2>2, <2>3
<1>3. ASSUME i \notin present
      PROVE  \E k \in DOMAIN uevents' : uevents'[k].iface = i
  <2>1. PICK m \in DOMAIN uevents : m > 1 /\ IsEvent(m, "remove", i)
    BY <1>1, <1>3 DEF QueueInv
  <2>2. m - 1 \in 1 .. L - 1 /\ (m - 1) + 1 = m
    BY <1>1, <2>1
  <2> QED
    BY <1>1, <2>1, <2>2 DEF IsEvent
<1>4. ~Expected(i)
  BY <1>1 DEF Expected
<1> QED
  BY <1>2, <1>3, <1>4 DEF Expected

LEMMA HandleUeventDevices ==
    ASSUME TypeOK, DeviceInv, HandleUevent
    PROVE  DeviceInv'
<1> DEFINE L == Len(uevents)
<1>1. /\ phase = "running" /\ uevents # <<>> /\ uevents' = Tail(uevents)
      /\ UNCHANGED <<present, phase, queried, twice>>
      /\ QueueInv /\ PhaseInv /\ CoveredInv /\ ListedInv /\ queried = {}
  BY DEF HandleUevent, kernelVars, DeviceInv, PhaseInv
<1>2. /\ L \in Nat \ {0} /\ DOMAIN uevents = 1 .. L /\ DOMAIN uevents' = 1 .. L - 1
      /\ \A k \in 1 .. L - 1 : uevents'[k] = uevents[k + 1]
      /\ Head(uevents) = uevents[1]
      /\ uevents[1].iface \in Iface
  BY <1>1, QueueAdvanced
<1>0. PICK i \in Iface : i = uevents[1].iface
  BY <1>2
<1>3. \/ IsEvent(1, "add", i) /\ AddDevice(i)
      \/ IsEvent(1, "remove", i) /\ RemoveDevice(i)
  BY <1>0, <1>2 DEF HandleUevent, IsEvent
<1> HIDE DEF L
<1>4. \A j \in Iface : j # i => (IsListed(j)' <=> IsListed(j)) /\ (Unique(j) => Unique(j)')
  BY <1>2, <1>3, DeviceAdded, DeviceRemoved
<1>5. QueueInv' /\ PhaseInv'
  BY <1>1, QueueAdvancedInv DEF PhaseInv
<1>6. ASSUME NEW j \in Iface, NEW k \in DOMAIN uevents, k > 1, IsEvent(k, "add", j)
      PROVE  \E m \in DOMAIN uevents' : IsEvent(m, "add", j)'
  <2>1. k - 1 \in 1 .. L - 1 /\ (k - 1) + 1 = k
    BY <1>2, <1>6
  <2> QED
    BY <1>2, <1>6, <2>1 DEF IsEvent
<1>7. CoveredInv'
  <2> SUFFICES ASSUME NEW j \in present \ Driverless
               PROVE  IsListed(j)' \/ \E k \in DOMAIN uevents' : IsEvent(k, "add", j)'
    BY <1>1 DEF CoveredInv
  <2>0. j \in Iface
    BY DEF TypeOK
  <2>1. CASE j # i
    <3>1. IsListed(j) \/ \E k \in DOMAIN uevents : IsEvent(k, "add", j)
      BY <1>1 DEF CoveredInv, Asked
    <3>2. ASSUME NEW k \in DOMAIN uevents, IsEvent(k, "add", j) PROVE k > 1
      <4>1. k # 1
        BY <1>0, <2>1, <3>2 DEF IsEvent
      <4> QED
        BY <1>2, <4>1
    <3> QED
      BY <1>4, <1>6, <2>0, <2>1, <3>1, <3>2
  <2>2. CASE j = i /\ AddDevice(i)
    BY <1>2, <2>2, DeviceAdded
  <2>3. CASE j = i /\ IsEvent(1, "remove", i)
    <3>1. PICK m \in DOMAIN uevents : m > 1 /\ IsEvent(m, "add", i)
      BY <1>1, <1>2, <2>3 DEF QueueInv
    <3> QED
      BY <1>6, <2>0, <2>3, <3>1
  <2> QED
    BY <1>3, <2>1, <2>2, <2>3
<1>8. ListedInv'
  <2> SUFFICES ASSUME NEW j \in Iface \ twice
               PROVE  Unique(j)' /\ (IsListed(j)' => Expected(j)')
    BY <1>1 DEF ListedInv
  <2>1. Unique(j) /\ (IsListed(j) => Expected(j))
    BY <1>1 DEF ListedInv, Asked
  <2>2. CASE j # i
    <3>1. uevents[1].iface # j
      BY <1>0, <2>2
    <3>2. Expected(j) => Expected(j)'
      BY <1>1, <3>1, ExpectedAdvancedOther
    <3> QED
      BY <1>4, <2>1, <2>2, <3>2
  <2>3. CASE j = i /\ IsEvent(1, "add", i) /\ AddDevice(i)
    <3>1. Expected(i)' /\ ~Expected(i)
      BY <1>1, <1>2, <2>3, ExpectedAdded
    <3>2. Unique(i)'
      BY <1>2, <2>1, <2>3, <3>1, DeviceAdded
    <3> QED
      BY <2>3, <3>1, <3>2
  <2>4. CASE j = i /\ RemoveDevice(i)
    <3>1. ~IsListed(i)'
      BY <1>2, <2>1, <2>4, DeviceRemoved
    <3> QED
      BY <2>4, <3>1 DEF Unique, IsListed
  <2> QED
    BY <1>3, <2>2, <2>3, <2>4
<1> QED
  BY <1>5, <1>7, <1>8 DEF DeviceInv

LEMMA DeviceStep == TypeOK /\ DeviceInv /\ [Next]_vars => DeviceInv'
<1> SUFFICES ASSUME TypeOK, DeviceInv, [Next]_vars PROVE DeviceInv'
  OBVIOUS
<1>1. QueueInv /\ PhaseInv /\ CoveredInv /\ ListedInv
  BY DEF DeviceInv
<1>2. ASSUME NEW i \in Iface, Plug(i) \/ Unplug(i) \/ AddQueried(i) PROVE DeviceInv'
  BY <1>2, PlugDevices, UnplugDevices, AddQueriedDevices
<1>3. CASE QueryDevices \/ HandleUevent
  BY <1>3, QueryDevicesDevices, HandleUeventDevices
<1>4. ASSUME UNCHANGED <<present, uevents, queried, twice, devices>>,
             UNCHANGED phase \/ RunLoop
      PROVE  DeviceInv'
  <2>1. /\ QueueInv'
        /\ \A j \in Iface : /\ Expected(j)' <=> Expected(j)
                            /\ IsListed(j)' <=> IsListed(j)
                            /\ Unique(j)' <=> Unique(j)
    BY <1>1, <1>4 DEF QueueInv, Expected, IsEvent, IsListed, Unique
  <2>2. PhaseInv' /\ (Asked' <=> Asked)
    BY <1>1, <1>4 DEF PhaseInv, RunLoop, Asked
  <2>3. present \subseteq Iface
    BY DEF TypeOK
  <2>4. CoveredInv'
    BY <1>1, <1>4, <2>1, <2>2, <2>3 DEF CoveredInv, IsEvent
  <2>5. ListedInv'
    BY <1>1, <1>4, <2>1, <2>2 DEF ListedInv
  <2> QED
    BY <2>1, <2>2, <2>4, <2>5 DEF DeviceInv
<1>5. CASE RunLoop
  BY <1>4, <1>5 DEF RunLoop, kernelVars, deviceVars
<1>6. ASSUME NEW c \in Caller, NEW enable \in BOOLEAN, Enable(c, enable) PROVE DeviceInv'
  BY <1>4, <1>6 DEF Enable, kernelVars, deviceVars
<1>7. ASSUME NEW k \in DOMAIN chains, NEW answer \in Answers, EnableNetDone(k, answer)
      PROVE  DeviceInv'
  BY <1>4, <1>7 DEF EnableNetDone, kernelVars, deviceVars
<1>8. CASE BuildManager
  BY <1>1, <1>8
     DEF BuildManager, kernelVars, DeviceInv, QueueInv, IsEvent, PhaseInv, CoveredInv,
         ListedInv, Asked
<1>9. CASE Crash
  BY <1>9 DEF Crash, DeviceInv, QueueInv, PhaseInv, CoveredInv, ListedInv, Asked
<1>10. CASE UNCHANGED vars
  BY <1>4, <1>10 DEF vars
<1> QED
  BY <1>2, <1>3, <1>5, <1>6, <1>7, <1>8, <1>9, <1>10 DEF Next

LEMMA InitDevices == Init => DeviceInv
BY DEF Init, DeviceInv, QueueInv, PhaseInv, CoveredInv, ListedInv, Asked

LEMMA DevicesFollow == Spec => [](TypeOK /\ ChainsInv /\ DeviceInv)
<1>1. Init /\ TypeOK => DeviceInv
  BY InitDevices
<1>2. TypeOK /\ DeviceInv /\ [Next]_vars => DeviceInv'
  BY DeviceStep
<1> QED
  BY <1>1, <1>2, TypeCorrect, PTL DEF Spec

(* No node is missed: for any nodes and any interleaving of their coming and  *)
(* going with bm_manager_get, the query and the loop.                         *)
THEOREM NothingMissedAlways == Spec => []NothingMissed
<1>1. TypeOK /\ DeviceInv => NothingMissed
  <2> SUFFICES ASSUME TypeOK, DeviceInv, Settled, NEW i \in present \ Driverless
               PROVE  IsListed(i)
    BY DEF NothingMissed
  <2>1. queried = {} /\ DOMAIN uevents = {} /\ Asked
    BY DEF Settled, DeviceInv, PhaseInv, Asked
  <2> QED
    BY <2>1 DEF DeviceInv, CoveredInv
<1> QED
  BY <1>1, DevicesFollow, PTL

(* A node that the query did not find with its "add" still queued has at most *)
(* one object, and none once the daemon knows that it is gone.                *)
THEOREM NoGhostsAlways == Spec => []NoGhosts
<1>1. TypeOK /\ DeviceInv => NoGhosts
  <2> SUFFICES ASSUME TypeOK, DeviceInv, NEW i \in Iface \ twice
               PROVE  /\ \A m, n \in DOMAIN devices :
                            devices[m].iface = i /\ devices[n].iface = i => m = n
                      /\ Settled /\ i \notin present => ~IsListed(i)
    BY DEF NoGhosts
  <2>1. CASE Asked
    <3>1. Unique(i) /\ (IsListed(i) => Expected(i))
      BY <2>1 DEF DeviceInv, ListedInv
    <3>2. Settled => DOMAIN uevents = {}
      BY DEF Settled
    <3> QED
      BY <3>1, <3>2 DEF Unique, Expected
  <2>2. CASE ~Asked
    <3>1. devices = <<>>
      BY <2>2 DEF TypeOK, Asked, DeviceInv, PhaseInv
    <3> QED
      BY <3>1 DEF IsListed
  <2> QED
    BY <2>1, <2>2
<1> QED
  BY <1>1, DevicesFollow, PTL

-----------------------------------------------------------------------------
(* Enable *)

(* What the daemon says of its state follows the setting, in a daemon that    *)
(* was just started as well.                                                  *)
THEOREM AsleepFollows == Spec => []AsleepIffDisabled
<1>1. Init => AsleepIffDisabled
  BY DEF Init, AsleepIffDisabled, StateFor
<1>2. AsleepIffDisabled /\ [Next]_vars => AsleepIffDisabled'
  <2> SUFFICES ASSUME AsleepIffDisabled, [Next]_vars PROVE AsleepIffDisabled'
    OBVIOUS
  <2>1. ASSUME UNCHANGED <<netEnabled, state>> PROVE AsleepIffDisabled'
    BY <2>1 DEF AsleepIffDisabled
  <2>2. ASSUME NEW b, InternalEnable(b) PROVE AsleepIffDisabled'
    BY <2>2 DEF InternalEnable, AsleepIffDisabled
  <2>3. ASSUME NEW i \in Iface, Plug(i) \/ Unplug(i) \/ AddQueried(i) PROVE AsleepIffDisabled'
    BY <2>1, <2>3 DEF Plug, Unplug, AddQueried, enableVars
  <2>4. CASE QueryDevices \/ RunLoop \/ HandleUevent \/ Crash
    BY <2>1, <2>4 DEF QueryDevices, RunLoop, HandleUevent, Crash, enableVars
  <2>5. ASSUME NEW c \in Caller, NEW enable \in BOOLEAN, Enable(c, enable) PROVE AsleepIffDisabled'
    BY <2>1, <2>2, <2>5 DEF Enable, KeepSetting
  <2>6. ASSUME NEW k \in DOMAIN chains, NEW answer \in Answers, EnableNetDone(k, answer)
        PROVE  AsleepIffDisabled'
    BY <2>1, <2>2, <2>6 DEF EnableNetDone, KeepSetting
  <2>7. CASE BuildManager
    BY <2>7 DEF BuildManager, AsleepIffDisabled, StateFor
  <2>8. CASE UNCHANGED vars
    BY <2>1, <2>8 DEF vars
  <2> QED
    BY <2>3, <2>4, <2>5, <2>6, <2>7, <2>8 DEF Next
<1> QED
  BY <1>1, <1>2, PTL DEF Spec

(* A chain's answer counts as authorized only if PolicyKit said yes. *)
LEMMA AuthorizedIsYes ==
    ASSUME NEW chain \in ChainOf(Caller, {Permission}), NEW answer \in Answers,
           Authorized(CallAnswered(chain, Permission, answer))
    PROVE  answer = "YES"
<1>1. answer # "ERROR"
  BY DEF Authorized, CallAnswered, SetData, ChainOf
<1>2. [chain.data EXCEPT ![Permission] = answer][Permission] = answer
  BY DEF ChainOf
<1> QED
  BY <1>1, <1>2 DEF Authorized, CallAnswered, SetData, ChainOf

GrantedCall ==
    \E n \in DOMAIN calls' :
        /\ calls'[n].reply = "done"
        /\ n \in DOMAIN calls => calls[n].reply = "pending"
        /\ calls'[n].want = netEnabled'
        /\ calls'[n].caller = Root \/ n \in granted'

LEMMA EnableGranted ==
    ASSUME TypeOK, NEW c \in Caller, NEW enable \in BOOLEAN, Enable(c, enable),
           netEnabled' # netEnabled
    PROVE  GrantedCall
<1>1. c = Root /\ netEnabled' = enable
      /\ calls' = Append(calls, [caller |-> c, want |-> enable, reply |-> "done"])
  BY DEF Enable, CallerUids, KeepSetting, InternalEnable, Reply
<1>2. calls \in Seq(CallRecord) /\ Len(calls) \in Nat /\ DOMAIN calls = 1 .. Len(calls)
  BY DEF TypeOK, CallRecord
<1>3. /\ Len(calls) + 1 \in DOMAIN calls'
      /\ calls'[Len(calls) + 1] = [caller |-> c, want |-> enable, reply |-> "done"]
      /\ Len(calls) + 1 \notin DOMAIN calls
  BY <1>1, <1>2 DEF CallRecord
<1> QED
  BY <1>1, <1>3 DEF GrantedCall

LEMMA EnableNetDoneGranted ==
    ASSUME TypeOK, ChainsInv, NEW k \in DOMAIN chains, NEW answer \in Answers,
           EnableNetDone(k, answer), netEnabled' # netEnabled
    PROVE  GrantedCall
<1> DEFINE n == chains[k].call
<1>1. n \in DOMAIN calls /\ calls[n].reply = "pending"
  BY DEF ChainsInv
<1>2. chains[k].chain \in ChainOf(Caller, {Permission})
  <2>1. chains \in Seq(ChainRecord) /\ k \in 1 .. Len(chains)
    BY DEF TypeOK, ChainRecord
  <2>2. chains[k] \in ChainRecord
    BY <2>1
  <2> QED
    BY <2>2 DEF ChainRecord
<1>3. calls \in Seq(CallRecord) /\ calls[n] \in CallRecord
  <2>1. calls \in Seq(CallRecord)
    BY DEF TypeOK, CallRecord
  <2> QED
    BY <1>1, <2>1
<1>4. /\ Authorized(CallAnswered(chains[k].chain, Permission, answer))
      /\ netEnabled' = calls[n].want
      /\ calls' = [calls EXCEPT ![n].reply = "done"]
      /\ granted' = IF answer = "YES" THEN granted \union {n} ELSE granted
  BY DEF EnableNetDone, KeepSetting, InternalEnable
<1>5. n \in granted'
  BY <1>2, <1>4, AuthorizedIsYes
<1>6. n \in DOMAIN calls' /\ calls'[n] = [calls[n] EXCEPT !.reply = "done"]
  BY <1>1, <1>3, <1>4
<1>7. calls'[n].reply = "done" /\ calls'[n].want = calls[n].want
  BY <1>3, <1>6 DEF CallRecord
<1> QED
  BY <1>1, <1>4, <1>5, <1>6, <1>7 DEF GrantedCall

(* The setting of a running daemon changes only by a call that is answered    *)
(* then, asked for this value and was root's or was granted.                  *)
THEOREM OnlyGrantedCalls == Spec => OnlyGrantedCallsRule
<1> DEFINE Rule == phase = "running" /\ netEnabled' # netEnabled => GrantedCall
<1>1. ASSUME TypeOK, ChainsInv, [Next]_vars PROVE [Rule]_vars
  <2>1. ASSUME NEW i \in Iface, Plug(i) \/ Unplug(i) \/ AddQueried(i) PROVE Rule
    BY <2>1 DEF Plug, Unplug, AddQueried, enableVars
  <2>2. CASE QueryDevices \/ RunLoop \/ HandleUevent \/ BuildManager \/ Crash
    BY <2>2 DEF QueryDevices, RunLoop, HandleUevent, BuildManager, Crash, enableVars
  <2>3. ASSUME NEW c \in Caller, NEW enable \in BOOLEAN, Enable(c, enable) PROVE Rule
    BY <1>1, <2>3, EnableGranted
  <2>4. ASSUME NEW k \in DOMAIN chains, NEW answer \in Answers, EnableNetDone(k, answer)
        PROVE  Rule
    BY <1>1, <2>4, EnableNetDoneGranted
  <2> QED
    BY <1>1, <2>1, <2>2, <2>3, <2>4 DEF Next
<1> QED
  BY <1>1, TypeCorrect, PTL DEF Spec, OnlyGrantedCallsRule, GrantedCall

-----------------------------------------------------------------------------
(* InotifyHelper: the files that plugins watch *)

LEMMA SameCardinality == \A S : Watch!Cardinality(S) = Cardinality(S)
BY DEF Watch!Cardinality, Cardinality

(* What is appended to the queue: nothing or one event *)
LEMMA QueuedNone == Watch!SetToSeq({}) = <<>>
<1>1. Cardinality({}) = 0 BY FS_EmptySet
<1>2. [1 .. 0 -> {}] = {<<>>}
  <2>1. <<>> \in [1 .. 0 -> {}] OBVIOUS
  <2>2. ASSUME NEW f \in [1 .. 0 -> {}] PROVE f = <<>>
    <3>1. f \in Seq({}) /\ Len(f) = 0 BY SMT
    <3> QED BY <3>1
  <2> QED BY <2>1, <2>2
<1>3. Watch!IsInjective(<<>>) BY DEF Watch!IsInjective
<1> QED BY <1>1, <1>2, <1>3, SameCardinality DEF Watch!SetToSeq

LEMMA QueuedOne == ASSUME NEW e PROVE Watch!SetToSeq({e}) = <<e>>
<1>1. Cardinality({e}) = 1 BY FS_Singleton
<1>2. \A f : f \in [1 .. 1 -> {e}] <=> f = <<e>>
  OBVIOUS
<1>3. Watch!IsInjective(<<e>>) BY DEF Watch!IsInjective
<1> QED BY <1>1, <1>2, <1>3, SameCardinality DEF Watch!SetToSeq

WatchTypes ==
    /\ made \in Nat /\ inodes \in [Path -> 0 .. made]
    /\ watches \in Seq(1 .. made) /\ Len(watches) <= MaxWatches
    /\ live \subseteq DOMAIN watches
    /\ refs \in [1 .. MaxWatches -> Nat]
    /\ held \in [Plugin -> [Path -> 0 .. Len(watches)]]
    /\ queue \in Seq([wd : Nat, ignored : BOOLEAN])
    /\ unheard \subseteq Plugin \X Path

(* The kernel has one watch on a file at most. *)
OneWatch == \A v, w \in live : watches[v] = watches[w] => v = w

(* Who holds a watch holds the helper. *)
UsersHold == \A u \in Plugin, p \in Path : held[u][p] # 0 => u \in users

(* A watch that is held is alive while a path leads to its file. *)
HeldLives ==
    \A u \in Plugin, p, q \in Path :
        held[u][p] # 0 /\ inodes[q] = watches[held[u][p]] => held[u][p] \in live

(* Every holder of a watch is counted, and without a count it is not alive. *)
Counted ==
    /\ \A w \in 1 .. MaxWatches : Cardinality(Watch!Holders(w)) <= refs[w]
    /\ \A w \in live : refs[w] > 0

(* Who has not been told of a write holds a watch with an event in the queue. *)
WillHear ==
    \A u \in Plugin, p \in Path :
        <<u, p>> \in unheard =>
            held[u][p] # 0 /\ Watch!Event(held[u][p]) \in Watch!ToSet(queue)

WatchInv == WatchTypes /\ OneWatch /\ UsersHold /\ HeldLives /\ Counted /\ WillHear

LEMMA HoldersFinite ==
    \A w : IsFiniteSet(Watch!Holders(w)) /\ Cardinality(Watch!Holders(w)) \in Nat
<1>1. IsFiniteSet(Plugin \X Path) BY FS_Product, WatchAssumption
<1> QED BY <1>1, FS_Subset, FS_CardinalityType DEF Watch!Holders

LEMMA WatchInit == Watch!Init => WatchInv
<1> SUFFICES ASSUME Watch!Init PROVE WatchInv OBVIOUS
<1> USE DEF Watch!Init
<1>1. WatchTypes BY WatchAssumption DEF WatchTypes
<1>2. OneWatch /\ UsersHold /\ HeldLives /\ WillHear
  BY DEF OneWatch, UsersHold, HeldLives, WillHear
<1>3. Counted
  <2>1. \A w \in 1 .. MaxWatches : Watch!Holders(w) = {}
    BY WatchAssumption DEF Watch!Holders
  <2> QED BY <2>1, FS_EmptySet DEF Counted
<1> QED BY <1>1, <1>2, <1>3 DEF WatchInv

(* What keeps the plugins' part and the kernel's, but for files *)
LEMMA SameHeld ==
    ASSUME held' = held PROVE \A w : Watch!Holders(w)' = Watch!Holders(w)
BY DEF Watch!Holders

LEMMA WatchCreate == ASSUME WatchInv, NEW p \in Path, Watch!Create(p) PROVE WatchInv'
<1> USE DEF WatchInv
<1>1. /\ UNCHANGED <<opened, users, left, watches, live, queue, refs, held, unheard>>
      /\ made' = made + 1 /\ inodes' = [inodes EXCEPT ![p] = made']
  BY DEF Watch!Create, Watch!kernelVars, Watch!helperVars, Watch!plugVars
<1>2. WatchTypes'
  <2>1. made' \in Nat /\ inodes' \in [Path -> 0 .. made'] BY <1>1 DEF WatchTypes
  <2>2. watches' \in Seq(1 .. made')
    <3>1. \A i \in 1 .. Len(watches) : watches[i] \in 1 .. made + 1 BY DEF WatchTypes
    <3> QED BY <1>1, <3>1 DEF WatchTypes
  <2> QED BY <1>1, <2>1, <2>2 DEF WatchTypes
<1>3. HeldLives'
  <2> SUFFICES ASSUME NEW u \in Plugin, NEW q \in Path, NEW r \in Path,
                      held[u][q] # 0, inodes'[r] = watches[held[u][q]]
               PROVE  held[u][q] \in live
    BY <1>1 DEF HeldLives
  <2>1. held[u][q] \in DOMAIN watches BY DEF WatchTypes
  <2>2. watches[held[u][q]] # made + 1 BY <2>1 DEF WatchTypes
  <2>3. inodes[r] = watches[held[u][q]] BY <1>1, <2>2 DEF WatchTypes
  <2> QED BY <2>3 DEF HeldLives
<1> QED
  BY <1>1, <1>2, <1>3, SameHeld DEF OneWatch, UsersHold, Counted, WillHear, Watch!Event

LEMMA WatchLink ==
    ASSUME WatchInv, NEW p \in Path, NEW q \in Path, Watch!Link(p, q) PROVE WatchInv'
<1> USE DEF WatchInv
<1>1. /\ UNCHANGED <<made, opened, users, left, watches, live, queue, refs, held, unheard>>
      /\ inodes' = [inodes EXCEPT ![q] = inodes[p]]
  BY DEF Watch!Link, Watch!kernelVars, Watch!helperVars, Watch!plugVars
<1>2. WatchTypes' BY <1>1 DEF WatchTypes
<1>3. HeldLives'
  <2>1. \A r \in Path : \E s \in Path : inodes'[r] = inodes[s] BY <1>1 DEF WatchTypes
  <2> QED BY <1>1, <2>1 DEF HeldLives
<1> QED
  BY <1>1, <1>2, <1>3, SameHeld DEF OneWatch, UsersHold, Counted, WillHear, Watch!Event

WatchEvent == [wd : Nat, ignored : BOOLEAN]

LEMMA QueueGrows ==
    ASSUME NEW q \in Seq(WatchEvent), NEW S, \A e \in S : e \in WatchEvent /\ S = {e}
    PROVE  /\ q \o Watch!SetToSeq(S) \in Seq(WatchEvent)
           /\ Watch!ToSet(q \o Watch!SetToSeq(S)) = Watch!ToSet(q) \union S
<1>1. CASE S = {}
  <2>1. q \o Watch!SetToSeq(S) = q BY <1>1, QueuedNone
  <2> QED BY <1>1, <2>1
<1>2. CASE S # {}
  <2>1. PICK e \in S : S = {e} BY <1>2
  <2>2. Watch!SetToSeq(S) = <<e>> BY <2>1, QueuedOne
  <2>3. e \in WatchEvent BY <2>1
  <2>4. q \o <<e>> \in Seq(WatchEvent) BY <2>3
  <2>5. /\ DOMAIN (q \o <<e>>) = 1 .. Len(q) + 1 /\ DOMAIN q = 1 .. Len(q) /\ Len(q) \in Nat
        /\ \A i \in 1 .. Len(q) : (q \o <<e>>)[i] = q[i]
        /\ (q \o <<e>>)[Len(q) + 1] = e
    BY <2>3
  <2>6. Watch!ToSet(q \o <<e>>) = Watch!ToSet(q) \union {e}
    BY <2>5 DEF Watch!ToSet
  <2> QED BY <2>1, <2>2, <2>4, <2>6
<1> QED BY <1>1, <1>2

LEMMA QueueTypes ==
    ASSUME WatchTypes
    PROVE  /\ queue \in Seq(WatchEvent)
           /\ \A w \in Nat : Watch!Event(w) \in WatchEvent /\ Watch!Ignored(w) \in WatchEvent
           /\ \A w \in live : w \in Nat
           /\ \A w \in 1 .. MaxWatches : w \in Nat
BY DEF WatchTypes, WatchEvent, Watch!Event, Watch!Ignored

LEMMA WatchUnlink == ASSUME WatchInv, NEW p \in Path, Watch!Unlink(p) PROVE WatchInv'
<1> USE DEF WatchInv
<1> DEFINE gone == IF \E q \in Path \ {p} : inodes[q] = inodes[p] THEN {}
                   ELSE Watch!WatchOn(inodes[p])
           lost == {Watch!Ignored(w) : w \in gone}
<1>1. /\ UNCHANGED <<made, opened, users, left, watches, refs, held, unheard>>
      /\ inodes' = [inodes EXCEPT ![p] = 0]
      /\ live' = live \ gone
      /\ queue' = queue \o Watch!SetToSeq(lost)
  BY DEF Watch!Unlink, Watch!helperVars, Watch!plugVars
<1>2. \A e \in lost : e \in WatchEvent /\ lost = {e}
  <2>1. gone \subseteq live /\ \A v, w \in gone : v = w BY DEF OneWatch, Watch!WatchOn
  <2> QED BY <2>1, QueueTypes
<1> HIDE DEF lost
<1>3. queue' \in Seq(WatchEvent) /\ Watch!ToSet(queue) \subseteq Watch!ToSet(queue')
  BY <1>1, <1>2, QueueGrows, QueueTypes
<1>4. WatchTypes' BY <1>1, <1>3 DEF WatchTypes, WatchEvent
<1>5. HeldLives'
  <2> SUFFICES ASSUME NEW u \in Plugin, NEW q \in Path, NEW r \in Path,
                      held[u][q] # 0, inodes'[r] = watches[held[u][q]]
               PROVE  held[u][q] \in live'
    BY <1>1 DEF HeldLives
  <2>1. held[u][q] \in DOMAIN watches /\ watches[held[u][q]] # 0 BY DEF WatchTypes
  <2>2. r # p /\ inodes[r] = watches[held[u][q]] BY <1>1, <2>1 DEF WatchTypes
  <2>3. held[u][q] \in live BY <2>2 DEF HeldLives
  <2>4. held[u][q] \notin gone BY <2>2 DEF Watch!WatchOn
  <2> QED BY <1>1, <2>3, <2>4
<1>6. OneWatch' /\ UsersHold' /\ Counted'
  BY <1>1, SameHeld DEF OneWatch, UsersHold, Counted
<1>7. WillHear' BY <1>1, <1>3 DEF WillHear, Watch!Event
<1> QED BY <1>4, <1>5, <1>6, <1>7

LEMMA WatchWrite == ASSUME WatchInv, NEW p \in Path, Watch!Write(p) PROVE WatchInv'
<1> USE DEF WatchInv
<1> DEFINE new == {Watch!Event(w) : w \in Watch!WatchOn(inodes[p])}
           told0 == UNION {Watch!Holders(w) : w \in {v \in DOMAIN watches : watches[v] = inodes[p]}}
<1>1. /\ UNCHANGED <<inodes, made, opened, users, left, watches, live, refs, held>>
      /\ queue' = IF queue # <<>> /\ Watch!Last(queue) \in new THEN queue
                  ELSE queue \o Watch!SetToSeq(new)
      /\ unheard' = unheard \union told0
  BY DEF Watch!Write, Watch!helperVars
<1>2. \A e \in new : e \in WatchEvent /\ new = {e}
  <2>1. /\ Watch!WatchOn(inodes[p]) \subseteq live
        /\ \A v, w \in Watch!WatchOn(inodes[p]) : v = w
    BY DEF OneWatch, Watch!WatchOn
  <2> QED BY <2>1, QueueTypes
<1> HIDE DEF new
<1>3. queue' \in Seq(WatchEvent) /\ Watch!ToSet(queue) \union new \subseteq Watch!ToSet(queue')
  <2>1. CASE queue # <<>> /\ Watch!Last(queue) \in new
    <3>1. queue \in Seq(WatchEvent) BY QueueTypes
    <3>2. Len(queue) \in DOMAIN queue BY <2>1, <3>1
    <3>3. Watch!Last(queue) \in Watch!ToSet(queue) BY <3>2 DEF Watch!ToSet, Watch!Last
    <3> QED BY <1>1, <1>2, <2>1, <3>1, <3>3 DEF Watch!ToSet
  <2>2. CASE ~(queue # <<>> /\ Watch!Last(queue) \in new)
    BY <1>1, <1>2, <2>2, QueueGrows, QueueTypes
  <2> QED BY <2>1, <2>2
<1>4. WatchTypes'
  <2>1. told0 \subseteq Plugin \X Path BY DEF Watch!Holders
  <2> QED BY <1>1, <1>3, <2>1 DEF WatchTypes, WatchEvent
<1>5. OneWatch' /\ UsersHold' /\ HeldLives' /\ Counted'
  BY <1>1, SameHeld DEF OneWatch, UsersHold, HeldLives, Counted
<1>6. WillHear'
  <2> SUFFICES ASSUME NEW u \in Plugin, NEW q \in Path, <<u, q>> \in unheard'
               PROVE  held[u][q] # 0 /\ Watch!Event(held[u][q]) \in Watch!ToSet(queue')
    BY <1>1 DEF WillHear, Watch!Event
  <2>1. CASE <<u, q>> \in unheard BY <1>3, <2>1 DEF WillHear
  <2>2. CASE <<u, q>> \in told0
    <3>1. PICK w \in DOMAIN watches : watches[w] = inodes[p] /\ held[u][q] = w
      BY <2>2 DEF Watch!Holders
    <3>2. w # 0 BY <3>1 DEF WatchTypes
    <3>3. w \in live BY <3>1, <3>2 DEF HeldLives
    <3>4. Watch!Event(w) \in new BY <3>1, <3>3 DEF new, Watch!WatchOn
    <3> QED BY <1>3, <3>1, <3>2, <3>4
  <2> QED BY <1>1, <2>1, <2>2
<1> QED BY <1>4, <1>5, <1>6

LEMMA WatchGet == ASSUME WatchInv, NEW u \in Plugin, Watch!Get(u) PROVE WatchInv'
<1>1. /\ UNCHANGED <<inodes, made, watches, live, queue, refs, held, unheard>>
      /\ users' = users \union {u}
  BY DEF Watch!Get, Watch!diskVars, Watch!kernelVars, Watch!plugVars
<1> QED
  BY <1>1, SameHeld
  DEF WatchInv, WatchTypes, OneWatch, UsersHold, HeldLives, Counted, WillHear, Watch!Event

LEMMA WatchHandle == ASSUME WatchInv, Watch!HandleEvent PROVE WatchInv'
<1> USE DEF WatchInv
<1>1. /\ UNCHANGED <<inodes, made, users, watches, live, refs, held>>
      /\ queue # <<>> /\ queue' = Tail(queue)
      /\ unheard' = IF Head(queue).ignored THEN unheard
                    ELSE unheard \ Watch!Holders(Head(queue).wd)
  BY DEF Watch!HandleEvent, Watch!diskVars, Watch!helperVars
<1>2. queue \in Seq(WatchEvent) BY QueueTypes
<1>3. queue' \in Seq(WatchEvent) BY <1>1, <1>2
<1>4. WatchTypes' BY <1>1, <1>3 DEF WatchTypes, WatchEvent
<1>5. OneWatch' /\ UsersHold' /\ HeldLives' /\ Counted'
  BY <1>1, SameHeld DEF OneWatch, UsersHold, HeldLives, Counted
<1>6. Watch!ToSet(queue) \subseteq {Head(queue)} \union Watch!ToSet(queue')
  <2> SUFFICES ASSUME NEW i \in 1 .. Len(queue)
               PROVE  queue[i] = Head(queue) \/ queue[i] \in Watch!ToSet(queue')
    BY <1>2 DEF Watch!ToSet
  <2>1. i = 1 \/ (i - 1 \in DOMAIN queue' /\ queue'[i - 1] = queue[i]) BY <1>1, <1>2
  <2> QED BY <1>2, <2>1 DEF Watch!ToSet
<1>7. WillHear'
  <2> SUFFICES ASSUME NEW u \in Plugin, NEW q \in Path, <<u, q>> \in unheard'
               PROVE  held[u][q] # 0 /\ Watch!Event(held[u][q]) \in Watch!ToSet(queue')
    BY <1>1 DEF WillHear, Watch!Event
  <2>1. held[u][q] # 0 /\ Watch!Event(held[u][q]) \in Watch!ToSet(queue)
    BY <1>1 DEF WillHear
  <2>2. Watch!Event(held[u][q]) # Head(queue)
    BY <1>1 DEF Watch!Event, Watch!Holders
  <2> QED BY <1>6, <2>1, <2>2
<1> QED BY <1>4, <1>5, <1>7

LEMMA WatchUnref == ASSUME WatchInv, NEW u \in Plugin, Watch!Unref(u) PROVE WatchInv'
<1> USE DEF WatchInv
<1>1. /\ UNCHANGED <<inodes, made, watches>>
      /\ users' = users \ {u}
      /\ held' = [held EXCEPT ![u] = [p \in Path |-> 0]]
      /\ unheard' = {h \in unheard : h[1] # u}
      /\ \/ /\ users' = {} /\ live' = {} /\ queue' = <<>>
            /\ refs' = [w \in DOMAIN refs |-> 0]
         \/ users' # {} /\ UNCHANGED <<live, queue, refs>>
  BY DEF Watch!Unref, Watch!diskVars
<1>2. WatchTypes'
  <2>1. held' \in [Plugin -> [Path -> 0 .. Len(watches)]] /\ unheard' \subseteq Plugin \X Path
    <3>1. held \in [Plugin -> [Path -> 0 .. Len(watches)]] /\ Len(watches) \in Nat
      BY DEF WatchTypes
    <3>2. [p \in Path |-> 0] \in [Path -> 0 .. Len(watches)] BY <3>1
    <3>3. unheard \subseteq Plugin \X Path BY DEF WatchTypes
    <3> QED BY <1>1, <3>1, <3>2, <3>3
  <2>2. /\ live' \subseteq DOMAIN watches
        /\ queue' \in Seq([wd : Nat, ignored : BOOLEAN])
        /\ refs' \in [1 .. MaxWatches -> Nat]
    <3>1. /\ live \subseteq DOMAIN watches
          /\ queue \in Seq([wd : Nat, ignored : BOOLEAN])
          /\ refs \in [1 .. MaxWatches -> Nat]
      BY DEF WatchTypes
    <3>2. <<>> \in Seq([wd : Nat, ignored : BOOLEAN]) OBVIOUS
    <3>3. [w \in DOMAIN refs |-> 0] \in [1 .. MaxWatches -> Nat] BY <3>1
    <3> QED BY <1>1, <3>1, <3>2, <3>3
  <2> QED BY <1>1, <2>1, <2>2 DEF WatchTypes
<1>3. \A v \in Plugin, p \in Path : held'[v][p] = IF v = u THEN 0 ELSE held[v][p]
  BY <1>1 DEF WatchTypes
<1>4. OneWatch' /\ UsersHold' /\ HeldLives'
  BY <1>1, <1>3 DEF OneWatch, UsersHold, HeldLives
<1>5. Counted'
  <2>1. CASE users' = {}
    <3>1. \A v \in Plugin, p \in Path : held'[v][p] = 0 BY <1>4, <2>1 DEF UsersHold
    <3>2. \A w \in 1 .. MaxWatches : Watch!Holders(w)' = {}
      BY <3>1, WatchAssumption DEF Watch!Holders
    <3>3. \A w \in 1 .. MaxWatches : refs'[w] = 0 BY <1>1, <2>1 DEF WatchTypes
    <3>4. live' = {} BY <1>1, <2>1
    <3>5. Cardinality({}) = 0 BY FS_EmptySet
    <3>6. \A w \in 1 .. MaxWatches : Cardinality(Watch!Holders(w))' <= refs'[w]
      BY <3>2, <3>3, <3>5
    <3> QED BY <3>4, <3>6 DEF Counted
  <2>2. CASE users' # {}
    <3>1. \A w \in 1 .. MaxWatches : Watch!Holders(w)' \in SUBSET Watch!Holders(w)
      BY <1>3, WatchAssumption DEF Watch!Holders
    <3>2. \A w \in 1 .. MaxWatches :
             /\ Cardinality(Watch!Holders(w)') \in Nat
             /\ Cardinality(Watch!Holders(w)') <= Cardinality(Watch!Holders(w))
      BY <3>1, HoldersFinite, FS_Subset, FS_CardinalityType
    <3>3. \A w \in 1 .. MaxWatches :
             refs[w] \in Nat /\ Cardinality(Watch!Holders(w)) \in Nat
      BY HoldersFinite DEF WatchTypes
    <3> HIDE DEF WatchInv
    <3>4. \A w \in 1 .. MaxWatches : Cardinality(Watch!Holders(w)) <= refs[w]
      BY DEF WatchInv, Counted
    <3> QED BY <1>1, <2>2, <3>2, <3>3, <3>4 DEF Counted, WatchInv
  <2> QED BY <2>1, <2>2
<1>6. WillHear'
  <2> SUFFICES ASSUME NEW v \in Plugin, NEW q \in Path, <<v, q>> \in unheard'
               PROVE  held'[v][q] # 0 /\ Watch!Event(held'[v][q]) \in Watch!ToSet(queue')
    BY DEF WillHear, Watch!Event
  <2>1. v # u /\ <<v, q>> \in unheard BY <1>1
  <2>2. held'[v][q] = held[v][q] /\ held[v][q] # 0 BY <1>3, <2>1 DEF WillHear
  <2>3. v \in users' BY <1>1, <2>1, <2>2 DEF UsersHold
  <2>4. queue' = queue BY <1>1, <2>3
  <2> QED BY <2>1, <2>2, <2>4 DEF WillHear
<1> QED BY <1>2, <1>4, <1>5, <1>6

(* AddWatch: the new holder is counted, on a watch that was there or a new one. *)
LEMMA WatchAdd ==
    ASSUME WatchInv, NEW u \in Plugin, NEW p \in Path, Watch!AddWatch(u, p) PROVE WatchInv'
<1> USE DEF WatchInv
<1>1. /\ UNCHANGED <<inodes, made, queue, users, unheard>>
      /\ u \in users /\ held[u][p] = 0 /\ inodes[p] # 0
  BY DEF Watch!AddWatch, Watch!diskVars
<1>2. PICK w :
         /\ held' = [held EXCEPT ![u][p] = w]
         /\ refs' = [refs EXCEPT ![w] = @ + 1]
         /\ live' = live \union {w}
         /\ \/ w \in Watch!WatchOn(inodes[p]) /\ watches' = watches
            \/ /\ Watch!WatchOn(inodes[p]) = {} /\ Len(watches) < MaxWatches
               /\ watches' = Append(watches, inodes[p]) /\ w = Len(watches')
  <2>1. CASE \E w \in Watch!WatchOn(inodes[p]) :
                /\ Watch!Referenced(w)
                /\ held' = [held EXCEPT ![u][p] = w]
                /\ UNCHANGED <<watches, live>>
    BY <2>1 DEF Watch!WatchOn, Watch!Referenced
  <2>2. CASE /\ Watch!WatchOn(inodes[p]) = {} /\ Len(watches) < MaxWatches
             /\ watches' = Append(watches, inodes[p])
             /\ live' = live \union {Len(watches')}
             /\ Watch!Referenced(Len(watches'))
             /\ held' = [held EXCEPT ![u][p] = Len(watches')]
    BY <2>2 DEF Watch!Referenced
  <2> QED BY <2>1, <2>2 DEF Watch!AddWatch
<1>3. /\ watches' \in Seq(1 .. made) /\ Len(watches') <= MaxWatches
      /\ Len(watches) <= Len(watches') /\ w \in 1 .. Len(watches')
      /\ \A v \in 1 .. Len(watches) : watches'[v] = watches[v]
      /\ watches'[w] = inodes[p]
      /\ w \notin live => w = Len(watches) + 1
      /\ w \in live \/ Watch!WatchOn(inodes[p]) = {}
  <2>1. watches \in Seq(1 .. made) /\ Len(watches) <= MaxWatches /\ Len(watches) \in Nat
        /\ inodes[p] \in 1 .. made /\ live \subseteq 1 .. Len(watches)
    BY <1>1 DEF WatchTypes
  <2>2. CASE w \in Watch!WatchOn(inodes[p]) /\ watches' = watches
    BY <2>1, <2>2 DEF Watch!WatchOn
  <2>3. CASE /\ Watch!WatchOn(inodes[p]) = {} /\ Len(watches) < MaxWatches
             /\ watches' = Append(watches, inodes[p]) /\ w = Len(watches')
    BY <2>1, <2>3, WatchAssumption
  <2> QED BY <1>2, <2>2, <2>3
<1>4. \A v \in Plugin, q \in Path :
          held'[v][q] = IF v = u /\ q = p THEN w ELSE held[v][q]
  BY <1>2 DEF WatchTypes
<1>5. w \in 1 .. MaxWatches BY <1>3, WatchAssumption
<1>6. WatchTypes'
  <2>1. refs' \in [1 .. MaxWatches -> Nat]
    <3>1. refs \in [1 .. MaxWatches -> Nat] BY DEF WatchTypes
    <3>2. refs[w] + 1 \in Nat BY <1>5, <3>1
    <3>3. refs' = [refs EXCEPT ![w] = refs[w] + 1] BY <1>2
    <3> HIDE DEF WatchInv
    <3> QED BY <3>1, <3>2, <3>3
  <2>2. held' \in [Plugin -> [Path -> 0 .. Len(watches')]]
    <3>1. \A v \in Plugin : held[v] \in [Path -> 0 .. Len(watches')]
      BY <1>3 DEF WatchTypes
    <3> QED BY <1>2, <1>3, <3>1 DEF WatchTypes
  <2>3. live' \subseteq DOMAIN watches' BY <1>2, <1>3 DEF WatchTypes
  <2> QED BY <1>1, <1>3, <2>1, <2>2, <2>3 DEF WatchTypes
<1>7. OneWatch'
  <2> SUFFICES ASSUME NEW v \in live', NEW x \in live', watches'[v] = watches'[x] PROVE v = x
    BY DEF OneWatch
  <2>1. \A y \in live : watches'[y] = watches[y]
    <3>1. live \subseteq 1 .. Len(watches) BY DEF WatchTypes
    <3> QED BY <1>3, <3>1
  <2>2. CASE w \in live BY <1>2, <2>1, <2>2 DEF OneWatch
  <2>3. CASE w \notin live
    <3>1. \A y \in live : watches'[y] # watches'[w] BY <1>3, <2>1, <2>3 DEF Watch!WatchOn
    <3> QED BY <1>2, <2>1, <3>1 DEF OneWatch
  <2> QED BY <2>2, <2>3
<1>8. UsersHold' BY <1>1, <1>4 DEF UsersHold
<1>9. HeldLives'
  <2> SUFFICES ASSUME NEW v \in Plugin, NEW q \in Path, NEW r \in Path,
                      held'[v][q] # 0, inodes[r] = watches'[held'[v][q]]
               PROVE  held'[v][q] \in live'
    BY <1>1 DEF HeldLives
  <2>1. CASE held'[v][q] = w BY <1>2, <2>1
  <2>2. CASE held'[v][q] # w
    <3>1. held'[v][q] = held[v][q] /\ held[v][q] \in 1 .. Len(watches)
      BY <1>4, <2>2 DEF WatchTypes
    <3>2. watches'[held[v][q]] = watches[held[v][q]] BY <1>3, <3>1
    <3> QED BY <1>2, <3>1, <3>2 DEF HeldLives
  <2> QED BY <2>1, <2>2
<1>10. Counted'
  <2>1. \A v \in 1 .. MaxWatches :
           Watch!Holders(v)' = IF v = w THEN Watch!Holders(v) \union {<<u, p>>} ELSE Watch!Holders(v)
    <3> SUFFICES ASSUME NEW v \in 1 .. MaxWatches
                 PROVE  Watch!Holders(v)' = IF v = w THEN Watch!Holders(v) \union {<<u, p>>}
                                            ELSE Watch!Holders(v)
      OBVIOUS
    <3>1. v # 0 BY WatchAssumption
    <3>2. \A h \in Plugin \X Path : h = <<h[1], h[2]>> /\ h[1] \in Plugin /\ h[2] \in Path OBVIOUS
    <3>3. \A h \in Plugin \X Path :
             held'[h[1]][h[2]] = IF h = <<u, p>> THEN w ELSE held[h[1]][h[2]]
      BY <1>4, <3>2
    <3>4. <<u, p>> \notin Watch!Holders(v) BY <1>1, <3>1 DEF Watch!Holders
    <3> QED BY <3>3, <3>4 DEF Watch!Holders
  <2>2. \A v \in 1 .. MaxWatches :
           /\ Cardinality(Watch!Holders(v)) \in Nat /\ refs[v] \in Nat
           /\ Cardinality(Watch!Holders(v)) <= refs[v]
           /\ Cardinality(Watch!Holders(v) \union {<<u, p>>}) \in
                 {Cardinality(Watch!Holders(v)), Cardinality(Watch!Holders(v)) + 1}
    BY HoldersFinite, FS_AddElement DEF WatchTypes, Counted
  <2>3. \A v \in 1 .. MaxWatches : refs'[v] = IF v = w THEN refs[v] + 1 ELSE refs[v]
    BY <1>2, <1>5 DEF WatchTypes
  <2>4. \A v \in 1 .. MaxWatches : Cardinality(Watch!Holders(v)') <= refs'[v]
    <3> SUFFICES ASSUME NEW v \in 1 .. MaxWatches PROVE Cardinality(Watch!Holders(v)') <= refs'[v]
      OBVIOUS
    <3>1. CASE v = w BY <2>1, <2>2, <2>3, <3>1
    <3>2. CASE v # w BY <2>1, <2>2, <2>3, <3>2
    <3> QED BY <3>1, <3>2
  <2>5. \A v \in live' : refs'[v] > 0
    <3>1. live \subseteq 1 .. MaxWatches BY WatchAssumption DEF WatchTypes
    <3>2. \A v \in live : refs[v] > 0 BY DEF Counted
    <3> SUFFICES ASSUME NEW v \in live' PROVE refs'[v] > 0 OBVIOUS
    <3>3. v = w \/ v \in live BY <1>2
    <3>4. v \in 1 .. MaxWatches BY <1>5, <3>1, <3>3
    <3>5. refs[v] \in Nat BY <2>2, <3>4
    <3>6. refs'[v] = IF v = w THEN refs[v] + 1 ELSE refs[v] BY <2>3, <3>4
    <3> QED BY <3>2, <3>3, <3>5, <3>6
  <2> QED BY <2>4, <2>5 DEF Counted
<1>11. WillHear'
  <2> SUFFICES ASSUME NEW v \in Plugin, NEW q \in Path, <<v, q>> \in unheard
               PROVE  held'[v][q] # 0 /\ Watch!Event(held'[v][q]) \in Watch!ToSet(queue)
    BY <1>1 DEF WillHear, Watch!Event
  <2>1. held'[v][q] = held[v][q] BY <1>1, <1>4 DEF WillHear
  <2> QED BY <2>1 DEF WillHear
<1> QED BY <1>6, <1>7, <1>8, <1>9, <1>10, <1>11

(* RemoveWatch: with the last count the kernel's watch goes, when nobody else *)
(* holds it.                                                                *)
LEMMA WatchRemove ==
    ASSUME WatchInv, NEW u \in Plugin, NEW p \in Path, Watch!RemoveWatch(u, p) PROVE WatchInv'
<1> USE DEF WatchInv
<1>0. PICK w : w = held[u][p] OBVIOUS
<1> DEFINE last == IF refs[w] = 1 THEN {w} \intersect live ELSE {}
           lost == {Watch!Ignored(v) : v \in last}
<1>1. /\ UNCHANGED <<inodes, made, watches, users>>
      /\ w # 0
      /\ refs' = [refs EXCEPT ![w] = IF @ = 0 THEN 0 ELSE @ - 1]
      /\ live' = live \ last
      /\ queue' = queue \o Watch!SetToSeq(lost)
      /\ held' = [held EXCEPT ![u][p] = 0]
      /\ unheard' = unheard \ {<<u, p>>}
  BY <1>0 DEF Watch!RemoveWatch, Watch!diskVars
<1>2. \A e \in lost : e \in WatchEvent /\ lost = {e}
  <2>1. last \subseteq live /\ \A v, x \in last : v = x OBVIOUS
  <2> QED BY <2>1, QueueTypes
<1> HIDE DEF lost
<1>3. queue' \in Seq(WatchEvent) /\ Watch!ToSet(queue) \subseteq Watch!ToSet(queue')
  BY <1>1, <1>2, QueueGrows, QueueTypes
<1>4. \A v \in Plugin, q \in Path :
          held'[v][q] = IF v = u /\ q = p THEN 0 ELSE held[v][q]
  BY <1>1 DEF WatchTypes
<1>5. w \in 1 .. Len(watches) /\ w \in 1 .. MaxWatches
  <2>1. w \in 0 .. Len(watches) /\ Len(watches) <= MaxWatches /\ Len(watches) \in Nat
    BY <1>0 DEF WatchTypes
  <2> QED BY <1>1, <2>1, WatchAssumption
<1>6. /\ refs \in [1 .. MaxWatches -> Nat] /\ refs' \in [1 .. MaxWatches -> Nat]
      /\ \A v \in 1 .. MaxWatches :
            refs'[v] = IF v = w /\ refs[v] # 0 THEN refs[v] - 1 ELSE refs[v]
  <2>1. refs \in [1 .. MaxWatches -> Nat] BY DEF WatchTypes
  <2>2. refs' = [refs EXCEPT ![w] = IF refs[w] = 0 THEN 0 ELSE refs[w] - 1] BY <1>1
  <2>3. (IF refs[w] = 0 THEN 0 ELSE refs[w] - 1) \in Nat BY <1>5, <2>1
  <2> HIDE DEF WatchInv
  <2> QED BY <1>5, <2>1, <2>2, <2>3
<1>7. WatchTypes'
  <2>1. held' \in [Plugin -> [Path -> 0 .. Len(watches)]]
    <3>1. held \in [Plugin -> [Path -> 0 .. Len(watches)]] /\ Len(watches) \in Nat
      BY DEF WatchTypes
    <3> HIDE DEF WatchInv
    <3> QED BY <1>1, <3>1
  <2> QED BY <1>1, <1>3, <1>6, <2>1 DEF WatchTypes, WatchEvent
<1>8. OneWatch' /\ UsersHold' BY <1>1, <1>4 DEF OneWatch, UsersHold
<1>9. \A v \in 1 .. MaxWatches :
         Watch!Holders(v)' = IF v = w THEN Watch!Holders(v) \ {<<u, p>>} ELSE Watch!Holders(v)
  <2> SUFFICES ASSUME NEW v \in 1 .. MaxWatches
               PROVE  Watch!Holders(v)' = IF v = w THEN Watch!Holders(v) \ {<<u, p>>}
                                          ELSE Watch!Holders(v)
    OBVIOUS
  <2>1. v # 0 BY WatchAssumption
  <2>2. \A h \in Plugin \X Path : h = <<h[1], h[2]>> /\ h[1] \in Plugin /\ h[2] \in Path OBVIOUS
  <2>3. \A h \in Plugin \X Path :
           held'[h[1]][h[2]] = IF h = <<u, p>> THEN 0 ELSE held[h[1]][h[2]]
    BY <1>4, <2>2
  <2>4. <<u, p>> \in Watch!Holders(v) <=> v = w BY <1>0 DEF Watch!Holders
  <2> QED BY <2>1, <2>3, <2>4 DEF Watch!Holders
<1>10. \A v \in 1 .. MaxWatches :
         /\ Cardinality(Watch!Holders(v)) \in Nat
         /\ Cardinality(Watch!Holders(v)) <= refs[v]
  BY HoldersFinite DEF Counted
<1>11. /\ <<u, p>> \in Watch!Holders(w)
       /\ Cardinality(Watch!Holders(w) \ {<<u, p>>}) = Cardinality(Watch!Holders(w)) - 1
       /\ Cardinality(Watch!Holders(w)) # 0
  <2>1. <<u, p>> \in Watch!Holders(w) BY <1>0 DEF Watch!Holders
  <2>2. Cardinality(Watch!Holders(w) \ {<<u, p>>}) \in Nat
    BY HoldersFinite, FS_RemoveElement, FS_CardinalityType
  <2>3. IsFiniteSet(Watch!Holders(w)) /\ Cardinality(Watch!Holders(w)) \in Nat BY HoldersFinite
  <2>4. Cardinality(Watch!Holders(w) \ {<<u, p>>}) = Cardinality(Watch!Holders(w)) - 1
    BY <2>1, <2>3, FS_RemoveElement
  <2> QED BY <2>1, <2>2, <2>3, <2>4
<1>12. Counted'
  <2>1. \A v \in 1 .. MaxWatches : Cardinality(Watch!Holders(v)') <= refs'[v]
    <3> SUFFICES ASSUME NEW v \in 1 .. MaxWatches PROVE Cardinality(Watch!Holders(v)') <= refs'[v]
      OBVIOUS
    <3>1. CASE v = w
      <4>1. refs[w] \in Nat /\ refs'[w] = IF refs[w] # 0 THEN refs[w] - 1 ELSE refs[w]
        BY <1>5, <1>6
      <4>2. Watch!Holders(w)' = Watch!Holders(w) \ {<<u, p>>} BY <1>5, <1>9
      <4>3. Cardinality(Watch!Holders(w)) <= refs[w] /\ Cardinality(Watch!Holders(w)) \in Nat
        BY <1>5, <1>10
      <4> QED BY <1>11, <3>1, <4>1, <4>2, <4>3
    <3>2. CASE v # w BY <1>6, <1>9, <1>10, <3>2
    <3> QED BY <3>1, <3>2
  <2>2. \A v \in live' : refs'[v] > 0
    <3> SUFFICES ASSUME NEW v \in live' PROVE refs'[v] > 0 OBVIOUS
    <3>1. v \in live /\ v \notin last BY <1>1
    <3>2. v \in 1 .. MaxWatches /\ refs[v] > 0 /\ refs[v] \in Nat
      <4>1. v \in 1 .. Len(watches) /\ Len(watches) <= MaxWatches /\ Len(watches) \in Nat
        BY <3>1 DEF WatchTypes
      <4>2. v \in 1 .. MaxWatches BY <4>1, WatchAssumption
      <4>3. refs[v] > 0 BY <3>1 DEF Counted
      <4> QED BY <1>6, <4>2, <4>3
    <3>3. v = w => refs[v] # 1 BY <3>1
    <3>4. refs'[v] = IF v = w /\ refs[v] # 0 THEN refs[v] - 1 ELSE refs[v] BY <1>6, <3>2
    <3> QED BY <3>2, <3>3, <3>4
  <2> QED BY <2>1, <2>2 DEF Counted
<1>13. HeldLives'
  <2> SUFFICES ASSUME NEW v \in Plugin, NEW q \in Path, NEW r \in Path,
                      held'[v][q] # 0, inodes[r] = watches[held'[v][q]]
               PROVE  held'[v][q] \in live'
    BY <1>1 DEF HeldLives
  <2>1. held'[v][q] = held[v][q] /\ <<v, q>> # <<u, p>> BY <1>4
  <2>2. held[v][q] \in live BY <2>1 DEF HeldLives
  <2>3. held[v][q] \notin last
    <3> SUFFICES ASSUME held[v][q] = w, refs[w] = 1 PROVE FALSE OBVIOUS
    <3>1. <<v, q>> \in Watch!Holders(w) \ {<<u, p>>} BY <2>1 DEF Watch!Holders
    <3>2. IsFiniteSet(Watch!Holders(w) \ {<<u, p>>}) BY HoldersFinite, FS_RemoveElement
    <3>3. Cardinality(Watch!Holders(w) \ {<<u, p>>}) # 0 BY <3>1, <3>2, FS_EmptySet
    <3>4. Cardinality(Watch!Holders(w)) <= 1 /\ Cardinality(Watch!Holders(w)) \in Nat
      BY <1>5, <1>10
    <3> QED BY <1>11, <3>3, <3>4
  <2> QED BY <1>1, <2>1, <2>2, <2>3
<1>14. WillHear'
  <2> SUFFICES ASSUME NEW v \in Plugin, NEW q \in Path, <<v, q>> \in unheard'
               PROVE  held'[v][q] # 0 /\ Watch!Event(held'[v][q]) \in Watch!ToSet(queue')
    BY DEF WillHear, Watch!Event
  <2>1. <<v, q>> \in unheard /\ held'[v][q] = held[v][q] BY <1>1, <1>4
  <2> QED BY <1>3, <2>1 DEF WillHear
<1> QED BY <1>7, <1>8, <1>12, <1>13, <1>14

LEMMA WatchNext == ASSUME WatchInv, [Watch!Next]_(Watch!watchVars) PROVE WatchInv'
<1>1. CASE UNCHANGED Watch!watchVars
  BY <1>1, SameHeld
  DEF Watch!watchVars, WatchInv, WatchTypes, OneWatch, UsersHold, HeldLives, Counted, WillHear,
      Watch!Event
<1> QED
  BY <1>1, WatchCreate, WatchUnlink, WatchWrite, WatchLink, WatchGet, WatchUnref, WatchAdd,
     WatchRemove, WatchHandle
  DEF Watch!Next

(* InotifyHelper: a plugin that added a watch hears of every write to the    *)
(* file, whoever else holds a watch on it or gives one back.                *)
THEOREM FilesAlwaysWatched == Watch!Spec => []FilesWatched
<1>1. WatchInv => FilesWatched
  <2> SUFFICES ASSUME WatchInv PROVE FilesWatched OBVIOUS
  <2>1. \A u \in Plugin, p \in Path :
           held[u][p] # 0 => held[u][p] \in 1 .. MaxWatches
    BY WatchAssumption DEF WatchInv, WatchTypes
  <2>2. \A w \in 1 .. MaxWatches : refs[w] >= Watch!Cardinality(Watch!Holders(w))
    BY SameCardinality, HoldersFinite DEF WatchInv, WatchTypes, Counted
  <2> QED
    BY <2>1, <2>2
    DEF FilesWatched, Watch!FilesWatched, WatchInv, HeldLives, Counted, WillHear
<1> QED BY WatchInit, WatchNext, <1>1, PTL DEF Watch!Spec

-----------------------------------------------------------------------------
(* Startup.  What main() has read so far is from one file or from none, and *)
(* what was asked of bm_logging_setup() determines what is in force.        *)

AtMostOne(S) == \A x, y \in S : x = y

IsSequence(s) == s \in Seq({s[i] : i \in DOMAIN s})

Said == IF parsed = {} THEN Begin!NoConfig ELSE CHOOSE f \in parsed : TRUE

StartTypes ==
    /\ files \in [{"old", "new", "given"} -> SUBSET File]
    /\ \A which \in {"old", "new", "given"} : AtMostOne(files[which])
    /\ stage \in {"off", "given", "old", "new", "logging", "runs"}
    /\ AtMostOne(options.level) /\ AtMostOne(config.level)
    /\ IsSequence(setups)
    /\ level \in Begin!ToSet(Begin!Levels)
    /\ domains \subseteq Begin!ToSet(Domains)

(* What is known when main() has come so far *)
ReadFromOne ==
    /\ stage # "off" => /\ config.plugins = Said.plugins
                        /\ config.level = Said.level
                        /\ config.domains = Said.domains
    /\ stage \in {"given", "old", "new"} => parsed = {}
    /\ stage \in {"old", "new"} => ~options.config
    /\ stage \in {"logging", "runs"} /\ options.config => parsed # {}
    /\ stage \notin {"off", "runs"} => setups = <<>>
    /\ stage = "runs" => 1 \in DOMAIN setups

StartInv == StartTypes /\ ReadFromOne /\ Begin!OneSource /\ Begin!LastInForce

LEMMA SetupsAppended ==
    ASSUME NEW s, NEW e, IsSequence(s)
    PROVE  /\ IsSequence(Append(s, e))
           /\ Len(s) \in Nat
           /\ DOMAIN s = 1 .. Len(s)
           /\ DOMAIN Append(s, e) = 1 .. Len(s) + 1
           /\ \A i \in DOMAIN s : Append(s, e)[i] = s[i]
           /\ Append(s, e)[Len(s) + 1] = e
<1> DEFINE T == {s[i] : i \in DOMAIN s} \union {e}
<1>1. s \in Seq(T)
  <2>1. s \in [1 .. Len(s) -> {s[i] : i \in DOMAIN s}] /\ Len(s) \in Nat
    BY LenProperties DEF IsSequence
  <2>2. s \in [1 .. Len(s) -> T]
    BY <2>1
  <2> QED
    BY <2>1, <2>2, SeqDef
<1> HIDE DEF T
<1>2. e \in T
  BY DEF T
<1>p. PICK q : q = Append(s, e)
  OBVIOUS
<1>3. /\ q \in Seq(T)
      /\ Len(q) = Len(s) + 1
      /\ \A i \in 1 .. Len(s) : q[i] = s[i]
      /\ q[Len(s) + 1] = e
  BY <1>1, <1>2, <1>p, AppendProperties
<1>4. Len(s) \in Nat /\ DOMAIN s = 1 .. Len(s) /\ Len(q) \in Nat /\ DOMAIN q = 1 .. Len(q)
  BY <1>1, <1>3, LenProperties
<1>5. IsSequence(q)
  <2>1. q \in [1 .. Len(q) -> {q[i] : i \in DOMAIN q}]
    <3>1. q \in [1 .. Len(q) -> T]
      BY <1>3, LenProperties
    <3> QED
      BY <3>1, <1>4
  <2> QED
    BY <1>4, <2>1, SeqDef DEF IsSequence
<1> QED
  BY <1>3, <1>4, <1>5, <1>p

LEMMA StartInvInit == ASSUME Begin!Init PROVE StartInv
<1>1. /\ stage = "off" /\ options = Begin!NoOptions /\ config = Begin!NoConfig
      /\ level = "INFO" /\ domains = DefaultDomains /\ parsed = {} /\ setups = <<>>
  BY DEF Begin!Init, Begin!DefaultLevel
<1>2. files \in [{"old", "new", "given"} -> SUBSET File]
      /\ \A which \in {"old", "new", "given"} : AtMostOne(files[which])
  <2>1. files \in [{"old", "new", "given"} -> {{}} \union {{f} : f \in File}]
    BY DEF Begin!Init
  <2>2. \A c \in {{}} \union {{f} : f \in File} : c \in SUBSET File /\ AtMostOne(c)
    BY DEF AtMostOne
  <2> QED
    BY <2>1, <2>2
<1>3. AtMostOne(options.level) /\ AtMostOne(config.level)
  BY <1>1 DEF Begin!NoOptions, Begin!NoConfig, AtMostOne
<1>4. IsSequence(setups)
  BY <1>1 DEF IsSequence
<1>5. level \in Begin!ToSet(Begin!Levels)
  BY <1>1 DEF Begin!ToSet, Begin!Levels
<1>6. domains \subseteq Begin!ToSet(Domains)
  BY <1>1, DomainsAssumption DEF Begin!ToSet, ToSet
<1>7. DOMAIN setups = {}
  BY <1>1
<1>8. Begin!LastInForce
  BY <1>1, <1>7 DEF Begin!LastInForce, Begin!Named, Begin!Leveled, Begin!LastOf, Begin!DefaultLevel
<1> QED
  BY <1>1, <1>2, <1>3, <1>4, <1>5, <1>6, <1>8 DEF StartInv, StartTypes, ReadFromOne, Begin!OneSource

(* A call of bm_logging_setup() *)
LEMMA StartLoggingSetup ==
    ASSUME StartInv, NEW l, NEW d, Begin!LoggingSetup(l, d), AtMostOne(l)
    PROVE  /\ IsSequence(setups')
           /\ level' \in Begin!ToSet(Begin!Levels)
           /\ domains' \subseteq Begin!ToSet(Domains)
           /\ Begin!LastInForce'
           /\ Len(setups) \in Nat /\ DOMAIN setups = 1 .. Len(setups)
           /\ DOMAIN setups' = 1 .. Len(setups) + 1
           /\ \A i \in DOMAIN setups : setups'[i] = setups[i]
           /\ setups'[Len(setups) + 1].level = l /\ setups'[Len(setups) + 1].domains = d
<1> USE DEF StartInv
<1>a. PICK a : a = [level |-> l, domains |-> d]
  OBVIOUS
<1>n. PICK n : n = Len(setups) + 1
  OBVIOUS
<1>1. /\ level' = IF Begin!LevelKnown(l) THEN Begin!LevelOf(l, level) ELSE level
      /\ domains' = IF Begin!Accepts(l, d) THEN Begin!DomainsOf(d, domains) ELSE domains
      /\ setups' = Append(setups, a)
      /\ a.level = l /\ a.domains = d
  BY <1>a DEF Begin!LoggingSetup
<1>2. /\ IsSequence(setups')
      /\ Len(setups) \in Nat
      /\ DOMAIN setups = 1 .. Len(setups)
      /\ DOMAIN setups' = 1 .. n
      /\ \A i \in DOMAIN setups : setups'[i] = setups[i]
      /\ setups'[n] = a
  BY <1>1, <1>n, SetupsAppended DEF StartTypes
<1>3. n \in Nat /\ n \in DOMAIN setups' /\ \A i \in DOMAIN setups : i < n /\ i \in DOMAIN setups' /\ i \in Nat
  BY <1>2, <1>n
<1>4. \A i \in DOMAIN setups' : i = n \/ i \in DOMAIN setups
  BY <1>2, <1>n
<1>5. Begin!LevelKnown(l) /\ ~(l \subseteq {""}) =>
         /\ \E name \in l : name \in Begin!ToSet(Begin!Levels)
         /\ level' = (CHOOSE name \in l : TRUE)
         /\ level' \in l
  BY <1>1 DEF Begin!LevelKnown, Begin!LevelOf
<1>6. level' \in Begin!ToSet(Begin!Levels)
  <2>1. CASE Begin!LevelKnown(l) /\ ~(l \subseteq {""})
    BY <1>5, <2>1 DEF AtMostOne
  <2>2. CASE ~(Begin!LevelKnown(l) /\ ~(l \subseteq {""}))
    <3>1. level' = level
      BY <1>1, <2>2 DEF Begin!LevelOf
    <3> QED
      BY <3>1 DEF StartTypes
  <2> QED
    BY <2>1, <2>2
<1>7. domains' \subseteq Begin!ToSet(Domains)
  <2>1. CASE Begin!Accepts(l, d) /\ ~(d \subseteq {<<>>})
    <3>1. domains' = (UNION {Begin!ToSet(names) : names \in d}) \ {"NONE", ""}
      BY <1>1, <2>1 DEF Begin!DomainsOf
    <3>2. \A names \in d : Begin!ToSet(names) \subseteq Begin!ToSet(Domains) \union {"NONE", ""}
      BY <2>1 DEF Begin!Accepts, Begin!DomainsKnown
    <3> QED
      BY <3>1, <3>2
  <2>2. CASE ~(Begin!Accepts(l, d) /\ ~(d \subseteq {<<>>}))
    <3>1. domains' = domains
      BY <1>1, <2>2 DEF Begin!DomainsOf
    <3> QED
      BY <3>1 DEF StartTypes
  <2> QED
    BY <2>1, <2>2
<1>8. /\ \A i \in DOMAIN setups : (i \in Begin!Named' <=> i \in Begin!Named)
                               /\ (i \in Begin!Leveled' <=> i \in Begin!Leveled)
      /\ n \in Begin!Named' <=> Begin!Accepts(l, d) /\ ~(d \subseteq {<<>>})
      /\ n \in Begin!Leveled' <=> Begin!LevelKnown(l) /\ ~(l \subseteq {""})
      /\ Begin!Named \subseteq DOMAIN setups /\ Begin!Leveled \subseteq DOMAIN setups
      /\ Begin!Named' \subseteq DOMAIN setups' /\ Begin!Leveled' \subseteq DOMAIN setups'
  BY <1>1, <1>2, <1>3 DEF Begin!Named, Begin!Leveled
<1>9. /\ Begin!Named' = {} => domains' = DefaultDomains
      /\ \A i \in Begin!LastOf(Begin!Named') : domains' = Begin!DomainsOf(setups'[i].domains, {})
  <2>1. CASE n \in Begin!Named'
    <3>1. domains' = Begin!DomainsOf(d, {})
      BY <1>1, <1>8, <2>1 DEF Begin!DomainsOf
    <3>2. ASSUME NEW i \in Begin!LastOf(Begin!Named') PROVE i = n
      <4>1. n <= i /\ i \in DOMAIN setups'
        BY <1>8, <2>1 DEF Begin!LastOf
      <4> QED
        BY <1>3, <1>4, <4>1
    <3> QED
      BY <1>1, <1>2, <2>1, <3>1, <3>2
  <2>2. CASE n \notin Begin!Named'
    <3>1. domains' = domains
      BY <1>1, <1>8, <2>2 DEF Begin!DomainsOf
    <3>2. Begin!Named' = Begin!Named
      BY <1>3, <1>4, <1>8, <2>2
    <3>3. \A i \in Begin!LastOf(Begin!Named) : i \in DOMAIN setups
      BY <1>8 DEF Begin!LastOf
    <3> QED
      BY <1>2, <3>1, <3>2, <3>3 DEF Begin!LastInForce
  <2> QED
    BY <2>1, <2>2
<1>10. /\ Begin!Leveled' = {} => level' = Begin!DefaultLevel
       /\ \A i \in Begin!LastOf(Begin!Leveled') : level' = Begin!LevelOf(setups'[i].level, "")
  <2>1. CASE n \in Begin!Leveled'
    <3>1. level' = Begin!LevelOf(l, "")
      BY <1>5, <1>8, <2>1 DEF Begin!LevelOf
    <3>2. ASSUME NEW i \in Begin!LastOf(Begin!Leveled') PROVE i = n
      <4>1. n <= i /\ i \in DOMAIN setups'
        BY <1>8, <2>1 DEF Begin!LastOf
      <4> QED
        BY <1>3, <1>4, <4>1
    <3> QED
      BY <1>1, <1>2, <2>1, <3>1, <3>2
  <2>2. CASE n \notin Begin!Leveled'
    <3>1. level' = level
      BY <1>1, <1>8, <2>2 DEF Begin!LevelOf
    <3>2. Begin!Leveled' = Begin!Leveled
      BY <1>3, <1>4, <1>8, <2>2
    <3>3. \A i \in Begin!LastOf(Begin!Leveled) : i \in DOMAIN setups
      BY <1>8 DEF Begin!LastOf
    <3> QED
      BY <1>2, <3>1, <3>2, <3>3 DEF Begin!LastInForce
  <2> QED
    BY <2>1, <2>2
<1>11. Begin!LastInForce'
  BY <1>9, <1>10 DEF Begin!LastInForce, Begin!LastOf, Begin!DefaultLevel, Begin!DomainsOf, Begin!LevelOf
<1> QED
  BY <1>1, <1>2, <1>6, <1>7, <1>11, <1>n

LEMMA StartStarts == ASSUME StartInv, Begin!Start PROVE StartInv'
<1> USE DEF StartInv
<1>1. /\ parsed' = {} /\ config' = Begin!NoConfig /\ setups' = <<>>
      /\ level' = "INFO" /\ domains' = DefaultDomains
      /\ UNCHANGED <<files, writes>>
      /\ stage' = IF options'.config THEN "given" ELSE "old"
  BY DEF Begin!Start, Begin!fileVars, Begin!DefaultLevel
<1>2. AtMostOne(options'.level)
  <2>1. PICK c \in BOOLEAN, p \in Begin!Option({"optioned"}), l \in Begin!Option(LevelArg),
             d \in Begin!Option(DomainsArg) :
                options' = [config |-> c, plugins |-> p, level |-> l, domains |-> d]
    BY DEF Begin!Start
  <2>2. options'.level = l
    BY <2>1
  <2> QED
    BY <2>2 DEF Begin!Option, AtMostOne
<1>3. StartTypes'
  <2>1. AtMostOne(config'.level) /\ IsSequence(setups')
    BY <1>1 DEF AtMostOne, IsSequence, Begin!NoConfig
  <2>2. level' \in Begin!ToSet(Begin!Levels)
    BY <1>1 DEF Begin!ToSet, Begin!Levels
  <2>3. domains' \subseteq Begin!ToSet(Domains)
    BY <1>1, DomainsAssumption DEF Begin!ToSet, ToSet
  <2> QED
    BY <1>1, <1>2, <2>1, <2>2, <2>3 DEF StartTypes, AtMostOne, IsSequence, Begin!ToSet, Begin!Levels, Domains
<1>4. ReadFromOne'
  <2>1. Said' = Begin!NoConfig
    BY <1>1 DEF Said, Begin!NoConfig
  <2> QED
    BY <1>1, <2>1 DEF ReadFromOne
<1>5. Begin!OneSource'
  BY <1>1 DEF Begin!OneSource
<1>6. Begin!LastInForce'
  <2>1. Begin!Named' = {} /\ Begin!Leveled' = {}
    BY <1>1 DEF Begin!Named, Begin!Leveled
  <2> QED
    BY <1>1, <2>1 DEF Begin!LastInForce, Begin!LastOf, Begin!DefaultLevel
<1> QED
  BY <1>3, <1>4, <1>5, <1>6

LEMMA StartForced ==
    ASSUME StartInv, UNCHANGED <<level, domains, setups>>
    PROVE  Begin!LastInForce'
BY DEF StartInv, Begin!LastInForce, Begin!Named, Begin!Leveled, Begin!LastOf, Begin!DefaultLevel,
       Begin!DomainsOf, Begin!LevelOf

LEMMA StartReads == ASSUME StartInv, Begin!ReadConfig PROVE StartInv'
<1> USE DEF StartInv
<1>1. /\ stage \in {"given", "old", "new"}
      /\ UNCHANGED <<files, writes, options, plugins, level, domains, setups>>
  BY DEF Begin!ReadConfig, Begin!fileVars, Begin!logVars
<1>c. PICK content : content = files[stage]
  OBVIOUS
<1>2. AtMostOne(content) /\ content \subseteq File /\ parsed = {}
  BY <1>1, <1>c DEF StartTypes, ReadFromOne
<1>3. \A f \in File : AtMostOne(f.level)
  <2>1. NotValid.level = {} /\ NoPlugins.level = {"DEBUG"} /\ Good.level = {"WARN"} /\ NoLevel.level = {}
    BY DEF NotValid, NoPlugins, Good, NoLevel, Content
  <2> QED
    BY <2>1 DEF File, AtMostOne
<1>4. CASE \E f \in content : f.valid /\ f.plugins # {}
  <2>1. PICK f \in content : f.valid /\ f.plugins # {}
    BY <1>4
  <2>2. content = {f}
    BY <1>2 DEF AtMostOne
  <2>3. (CHOOSE g \in content : TRUE) = f
    BY <2>2
  <2>4. /\ config' = [plugins |-> f.plugins, level |-> f.level, domains |-> f.domains]
        /\ parsed' = content
        /\ stage' = "logging"
    <3>1. config' = Begin!ReadAs(CHOOSE g \in content : TRUE) /\ parsed' = content
      BY <1>c, <2>1 DEF Begin!ReadConfig, Begin!ParseConfigFile
    <3>2. stage' = "logging"
      BY <1>4, <1>c DEF Begin!ReadConfig, Begin!ParseConfigFile
    <3>3. config' = Begin!ReadAs(f)
      BY <2>3, <3>1
    <3> QED
      BY <2>1, <3>1, <3>2, <3>3 DEF Begin!ReadAs
  <2>5. config'.plugins = f.plugins /\ config'.level = f.level /\ config'.domains = f.domains
    BY <2>4
  <2>6. Said' = f
    BY <2>1, <2>3, <2>4 DEF Said
  <2>7. ReadFromOne'
    BY <1>1, <2>1, <2>4, <2>5, <2>6 DEF ReadFromOne
  <2>8. StartTypes'
    <3>1. AtMostOne(config'.level)
      BY <1>2, <1>3, <2>5
    <3> QED
      BY <1>1, <2>4, <3>1 DEF StartTypes, AtMostOne, IsSequence, Begin!ToSet, Begin!Levels
  <2>9. Begin!OneSource'
    BY <2>4 DEF Begin!OneSource
  <2> QED
    BY <1>1, <2>7, <2>8, <2>9, StartForced
<1>5. CASE ~\E f \in content : f.valid /\ f.plugins # {}
  <2>1. /\ config' = config
        /\ parsed' = {}
        /\ stage' = IF stage = "given" THEN "off" ELSE IF stage = "old" THEN "new" ELSE "logging"
    <3>1. parsed' = parsed
      BY <1>c, <1>5 DEF Begin!ReadConfig, Begin!ParseConfigFile
    <3>2. stage' = IF stage = "given" THEN "off" ELSE IF stage = "old" THEN "new" ELSE "logging"
      BY <1>1, <1>c, <1>5 DEF Begin!ReadConfig, Begin!ParseConfigFile
    <3>3. config' = IF \E f \in content : f.valid
                    THEN Begin!ReadAs(CHOOSE f \in content : TRUE) ELSE config
      BY <1>c DEF Begin!ReadConfig, Begin!ParseConfigFile
    <3>4. ASSUME NEW f \in content, f.valid PROVE Begin!ReadAs(CHOOSE g \in content : TRUE) = config
      <4>1. content = {f}
        BY <1>2 DEF AtMostOne
      <4>2. (CHOOSE g \in content : TRUE) = f
        BY <4>1
      <4>3. f.plugins = {}
        BY <1>5, <3>4
      <4> QED
        BY <4>2, <4>3 DEF Begin!ReadAs
    <3> QED
      BY <1>2, <3>1, <3>2, <3>3, <3>4
  <2>2. Said' = Said
    BY <1>2, <2>1 DEF Said
  <2>3. ReadFromOne'
    BY <1>1, <2>1, <2>2 DEF ReadFromOne
  <2>4. StartTypes'
    BY <1>1, <2>1 DEF StartTypes, AtMostOne, IsSequence, Begin!ToSet, Begin!Levels
  <2>5. Begin!OneSource'
    BY <1>1, <2>1 DEF Begin!OneSource
  <2> QED
    BY <1>1, <2>3, <2>4, <2>5, StartForced
<1> QED
  BY <1>4, <1>5

(* "Logging setup" takes both from where OneSource wants them. *)
LEMMA StartSetsUp == ASSUME StartInv, Begin!SetUp PROVE StartInv'
<1> USE DEF StartInv
<1>l. PICK l : l = IF options.level # {} THEN options.level ELSE config.level
  OBVIOUS
<1>d. PICK d : d = IF options.domains # {} THEN options.domains ELSE config.domains
  OBVIOUS
<1>1. /\ stage = "logging"
      /\ UNCHANGED <<files, writes, options, config, parsed>>
      /\ Begin!LoggingSetup(l, d)
      /\ stage' \in {"runs", "off"}
      /\ plugins' = IF options.plugins # {} THEN options.plugins ELSE config.plugins
  BY <1>l, <1>d DEF Begin!SetUp, Begin!fileVars
<1>2. setups = <<>> /\ config.plugins = Said.plugins /\ config.level = Said.level
      /\ config.domains = Said.domains /\ (options.config => parsed # {})
  BY <1>1 DEF ReadFromOne
<1>3. AtMostOne(l)
  BY <1>l DEF StartTypes
<1>4. /\ IsSequence(setups')
      /\ level' \in Begin!ToSet(Begin!Levels)
      /\ domains' \subseteq Begin!ToSet(Domains)
      /\ Begin!LastInForce'
      /\ DOMAIN setups' = 1 .. Len(setups) + 1
      /\ setups'[Len(setups) + 1].level = l /\ setups'[Len(setups) + 1].domains = d
  BY <1>1, <1>3, StartLoggingSetup
<1>5. 1 \in DOMAIN setups' /\ setups'[1].level = l /\ setups'[1].domains = d
  <2>1. Len(setups) = 0
    BY <1>2
  <2> QED
    BY <1>4, <2>1
<1>6. Said' = Said
  BY <1>1 DEF Said
<1>7. StartTypes'
  BY <1>1, <1>4 DEF StartTypes, AtMostOne, IsSequence, Begin!ToSet, Begin!Levels
<1>8. ReadFromOne'
  BY <1>1, <1>2, <1>5, <1>6 DEF ReadFromOne
<1>9. Begin!OneSource'
  BY <1>1, <1>2, <1>5, <1>l, <1>d DEF Begin!OneSource, Said
<1> QED
  BY <1>4, <1>7, <1>8, <1>9

LEMMA StartSetLogging ==
    ASSUME StartInv, NEW l, NEW d, Begin!SetLogging(l, d)
    PROVE  StartInv'
<1> USE DEF StartInv
<1>1. /\ stage = "runs"
      /\ UNCHANGED <<files, writes, stage, options, config, plugins, parsed>>
      /\ Begin!LoggingSetup({l}, {d})
  BY DEF Begin!SetLogging, Begin!fileVars
<1>2. AtMostOne({l})
  BY DEF AtMostOne
<1>3. /\ IsSequence(setups')
      /\ level' \in Begin!ToSet(Begin!Levels)
      /\ domains' \subseteq Begin!ToSet(Domains)
      /\ Begin!LastInForce'
      /\ Len(setups) \in Nat /\ DOMAIN setups = 1 .. Len(setups)
      /\ DOMAIN setups' = 1 .. Len(setups) + 1
      /\ \A i \in DOMAIN setups : setups'[i] = setups[i]
  BY <1>1, <1>2, StartLoggingSetup
<1>4. 1 \in DOMAIN setups' /\ setups'[1] = setups[1]
  BY <1>1, <1>3 DEF ReadFromOne
<1>5. Said' = Said
  BY <1>1 DEF Said
<1>6. StartTypes'
  BY <1>1, <1>3 DEF StartTypes, AtMostOne, IsSequence, Begin!ToSet, Begin!Levels
<1>7. ReadFromOne'
  BY <1>1, <1>4, <1>5 DEF ReadFromOne
<1>8. Begin!OneSource'
  BY <1>1, <1>4 DEF Begin!OneSource
<1> QED
  BY <1>3, <1>6, <1>7, <1>8

LEMMA StartOthers ==
    ASSUME StartInv,
           \/ \E which \in {"old", "new", "given"} : Begin!WriteFile(which)
           \/ Begin!Exit
           \/ UNCHANGED startVars
    PROVE  StartInv'
<1> USE DEF StartInv
<1>1. /\ UNCHANGED <<options, config, plugins, parsed, level, domains, setups>>
      /\ stage' = stage \/ stage' = "off"
  BY DEF Begin!WriteFile, Begin!Exit, Begin!logVars, Begin!fileVars, startVars
<1>2. /\ files' \in [{"old", "new", "given"} -> SUBSET File]
      /\ \A which \in {"old", "new", "given"} : AtMostOne(files'[which])
  <2>1. CASE files' = files
    BY <2>1 DEF StartTypes
  <2>2. ASSUME NEW which \in {"old", "new", "given"}, NEW f \in {{}} \union {{g} : g \in File},
               files' = [files EXCEPT ![which] = f]
        PROVE  /\ files' \in [{"old", "new", "given"} -> SUBSET File]
               /\ \A w \in {"old", "new", "given"} : AtMostOne(files'[w])
    <3>1. f \in SUBSET File /\ AtMostOne(f)
      BY DEF AtMostOne
    <3> QED
      BY <2>2, <3>1 DEF StartTypes
  <2> QED
    BY <2>1, <2>2 DEF Begin!WriteFile, Begin!Exit, Begin!fileVars, startVars
<1>3. StartTypes'
  BY <1>1, <1>2 DEF StartTypes, AtMostOne, IsSequence, Begin!ToSet, Begin!Levels
<1>4. ReadFromOne'
  BY <1>1 DEF ReadFromOne, Said
<1>5. Begin!OneSource'
  BY <1>1 DEF Begin!OneSource
<1> QED
  BY <1>1, <1>3, <1>4, <1>5, StartForced

LEMMA StartInvStep == ASSUME StartInv, [Begin!Next]_(Begin!vars) PROVE StartInv'
<1>1. Begin!Next \/ UNCHANGED startVars
  BY DEF Begin!vars, startVars
<1> QED
  BY <1>1, StartStarts, StartReads, StartSetsUp, StartSetLogging, StartOthers DEF Begin!Next

(* The k-th of a set of numbers, for k up to their number, is each of them. *)
LEMMA NthIsEach ==
    ASSUME NEW S, S \subseteq Nat, IsFiniteSet(S)
    PROVE  {Begin!Nth(S, k) : k \in 1 .. Cardinality(S)} = S
<1> DEFINE Upto(i) == {j \in S : j <= i}
           T == 1 .. Cardinality(S)
           f == [i \in S |-> Cardinality(Upto(i))]
<1>0. \A U : Begin!Cardinality(U) = Cardinality(U)
  BY DEF Begin!Cardinality, Cardinality
<1>1. Cardinality(S) \in Nat
  BY FS_CardinalityType
<1>2. ASSUME NEW i \in S
      PROVE  /\ IsFiniteSet(Upto(i)) /\ Cardinality(Upto(i)) \in Nat
             /\ Cardinality(Upto(i)) <= Cardinality(S) /\ i \in Upto(i)
  <2>1. Upto(i) \in SUBSET S /\ i \in Upto(i)
    OBVIOUS
  <2> HIDE DEF Upto
  <2> QED
    BY <2>1, FS_Subset, FS_CardinalityType
<1>3. ASSUME NEW i \in S PROVE Cardinality(Upto(i)) \in T
  <2> HIDE DEF Upto
  <2>1. Cardinality(Upto(i)) # 0
    BY <1>2, FS_EmptySet
  <2> QED
    BY <1>1, <1>2, <2>1
<1>4. ASSUME NEW i \in S, NEW j \in S, i < j
      PROVE  Cardinality(Upto(i)) # Cardinality(Upto(j))
  <2>1. i \in Nat /\ j \in Nat
    OBVIOUS
  <2>2. ASSUME NEW k \in Upto(i) PROVE k \in Upto(j)
    <3>1. k \in Nat /\ k \in S /\ k <= i
      OBVIOUS
    <3> QED
      BY <1>4, <2>1, <3>1
  <2>3. j \in Upto(j) /\ j \notin Upto(i)
    BY <1>4, <2>1
  <2> HIDE DEF Upto
  <2> QED
    BY <1>2, <2>2, <2>3, FS_Subset
<1>5. \A i, j \in S : Cardinality(Upto(i)) = Cardinality(Upto(j)) => i = j
  <2> TAKE i, j \in S
  <2> HIDE DEF Upto
  <2>1. i < j \/ j < i \/ i = j
    OBVIOUS
  <2> QED
    BY <1>4, <2>1
<1>6. \A k \in T : \E i \in S : Cardinality(Upto(i)) = k
  <2> HIDE DEF Upto
  <2>1. f \in [S -> T] /\ \A i \in S : f[i] = Cardinality(Upto(i))
    BY <1>3
  <2>2. \A i, j \in S : f[i] = f[j] => i = j
    BY <1>5, <2>1
  <2> HIDE DEF f
  <2>3. f \in Injection(S, T)
    BY <2>1, <2>2 DEF Injection, IsInjective
  <2>4. IsFiniteSet(T) /\ Cardinality(T) = Cardinality(S)
    BY <1>1, FS_Interval
  <2> HIDE DEF T
  <2>5. f \in Surjection(S, T)
    BY <2>3, <2>4, FS_Injection
  <2> QED
    BY <2>1, <2>5 DEF Surjection
<1>7. ASSUME NEW k \in T PROVE Begin!Nth(S, k) \in S /\ Cardinality(Upto(Begin!Nth(S, k))) = k
  <2>1. Begin!Nth(S, k) = CHOOSE i \in S : Cardinality(Upto(i)) = k
    BY <1>0 DEF Begin!Nth
  <2> HIDE DEF Upto
  <2> QED
    BY <1>6, <2>1
<1>8. ASSUME NEW i \in S PROVE \E k \in T : Begin!Nth(S, k) = i
  <2> HIDE DEF Upto
  <2>1. Cardinality(Upto(i)) \in T
    BY <1>3
  <2> QED
    BY <1>5, <1>7, <2>1
<1> QED
  BY <1>7, <1>8

(* What is printed are the names of the domains in force. *)
LEMMA NamesPrinted ==
    ASSUME domains \subseteq Begin!ToSet(Domains)
    PROVE  Begin!ToSet(Begin!DomainsToString) = domains
<1>o. PICK on : on = {i \in DOMAIN Domains : Domains[i] \in domains}
  OBVIOUS
<1>s. PICK str : str = Begin!DomainsToString
  OBVIOUS
<1>1. DOMAIN Domains = 1 .. 3
  BY DEF Domains
<1>2. on \subseteq Nat /\ IsFiniteSet(on)
  <2>n. PICK n : n = 3
    OBVIOUS
  <2>1. n \in Int /\ 1 \in Int
    BY <2>n
  <2>2. IsFiniteSet(1 .. n)
    BY <2>1, FS_Interval
  <2>3. on \in SUBSET (1 .. n)
    BY <1>1, <1>o, <2>n
  <2>4. IsFiniteSet(on)
    BY <2>2, <2>3, FS_Subset
  <2> QED
    BY <2>1, <2>3, <2>4
<1>3. str = [k \in 1 .. Cardinality(on) |-> Domains[Begin!Nth(on, k)]]
  BY <1>o, <1>s DEF Begin!DomainsToString, Begin!Cardinality, Cardinality
<1>4. {Begin!Nth(on, k) : k \in 1 .. Cardinality(on)} = on
  BY <1>2, NthIsEach
<1>5. Begin!ToSet(str) = {Domains[i] : i \in on}
  <2>1. DOMAIN str = 1 .. Cardinality(on) /\ \A k \in DOMAIN str : str[k] = Domains[Begin!Nth(on, k)]
    BY <1>3
  <2>2. \A k \in DOMAIN str : Begin!Nth(on, k) \in on
    BY <1>4, <2>1
  <2>3. \A i \in on : \E k \in DOMAIN str : Begin!Nth(on, k) = i
    BY <1>4, <2>1
  <2> QED
    BY <2>1, <2>2, <2>3 DEF Begin!ToSet
<1>6. {Domains[i] : i \in on} = domains
  BY <1>o DEF Begin!ToSet
<1> QED
  BY <1>5, <1>6, <1>s

(* A daemon that runs has its plugins and its logging from one of the files *)
(* or from its options, whatever was written meanwhile, and what it logs is *)
(* what was asked for last, by its options, its file or SetLogging (main.c, *)
(* bm-logging.c): with any levels, numbers of writes and of calls.          *)
THEOREM StartsAlwaysAsAsked == Begin!Spec => []StartsAsAsked
<1>1. StartInv => StartsAsAsked
  <2> SUFFICES ASSUME StartInv PROVE StartsAsAsked
    OBVIOUS
  <2> USE DEF StartInv
  <2>1. ASSUME domains # {} PROVE Begin!DomainsOf({Begin!DomainsToString}, {}) = domains
    <3>s. PICK str : str = Begin!DomainsToString
      OBVIOUS
    <3>1. Begin!ToSet(str) = domains
      BY <3>s, NamesPrinted DEF StartTypes
    <3>2. str # <<>>
      BY <2>1, <3>1 DEF Begin!ToSet
    <3>3. (UNION {Begin!ToSet(names) : names \in {str}}) = domains
      BY <3>1
    <3>4. "NONE" \notin domains /\ "" \notin domains
      <4>1. Begin!ToSet(Domains) = {"HW", "BT", "CORE"}
        BY DEF Begin!ToSet, Domains
      <4> QED
        BY <4>1 DEF StartTypes
    <3>5. ~({str} \subseteq {<<>>})
      BY <3>2
    <3>6. Begin!DomainsOf({str}, {}) = (UNION {Begin!ToSet(names) : names \in {str}}) \ {"NONE", ""}
      BY <3>5 DEF Begin!DomainsOf
    <3>7. Begin!DomainsOf({str}, {}) = domains
      BY <3>3, <3>4, <3>6
    <3> QED
      BY <3>7, <3>s
  <2>2. ASSUME NEW i \in DOMAIN Begin!Levels, NEW domain \in domains, Begin!Levels[i] = level,
               NEW j \in DOMAIN Begin!Levels
        PROVE  Begin!Logs(domain, Begin!Levels[j]) <=> j <= i
    <3>1. DOMAIN Begin!Levels = 1 .. 4
          /\ \A a, b \in 1 .. 4 : Begin!Levels[a] = Begin!Levels[b] => a = b
      BY DEF Begin!Levels
    <3>2. Begin!Logs(domain, Begin!Levels[j]) <=>
             \E a, b \in 1 .. 4 : /\ Begin!Levels[a] = Begin!Levels[j]
                                  /\ Begin!Levels[b] = Begin!Levels[i] /\ a <= b
      BY <2>2, <3>1 DEF Begin!Logs
    <3> QED
      BY <3>1, <3>2
  <2> QED
    BY <2>1, <2>2 DEF StartsAsAsked, Begin!LoggingAsAsked
<1> QED
  BY <1>1, StartInvInit, StartInvStep, PTL DEF Begin!Spec

-----------------------------------------------------------------------------
(* A behaviour of them together is one of each by itself, so that what      *)
(* InotifyHelper and Startup keep holds wherever a run looks: whoever holds *)
(* a watch hears of its file, and a daemon that runs does as it was asked.  *)
THEOREM AllKeptTogether == MCSpec => [](FilesWatched /\ StartsAsAsked)
<1>1. MCInit => Watch!Init /\ Begin!Init BY DEF MCInit
<1> DEFINE all == <<part, vars, startVars, watchVars>>
<1>2. [MCNext]_all => [Watch!Next]_(Watch!watchVars)
  <2> SUFFICES ASSUME [MCNext]_all PROVE Watch!Next \/ UNCHANGED watchVars
    BY DEF watchVars, Watch!watchVars
  <2> QED BY DEF MCNext, ManagerDoes, StartupDoes, FilesDo
<1>3. [MCNext]_all => [Begin!Next]_(Begin!vars)
  <2> SUFFICES ASSUME [MCNext]_all PROVE Begin!Next \/ UNCHANGED startVars
    BY DEF startVars, Begin!vars
  <2> QED BY DEF MCNext, ManagerDoes, StartupDoes, FilesDo
<1>4. MCSpec => Watch!Spec /\ Begin!Spec
  <2> HIDE DEF all
  <2>1. MCSpec <=> MCInit /\ [][MCNext]_all BY DEF MCSpec, all
  <2> QED BY <1>1, <1>2, <1>3, <2>1, PTL DEF Watch!Spec, Begin!Spec
<1> QED BY <1>4, FilesAlwaysWatched, StartsAlwaysAsAsked, PTL
=============================================================================
