---------------------------- MODULE DaemonProofs ----------------------------
(* Proofs about Daemon, for any processes, pids and number of outages; and  *)
(* about copies that must follow: Hostname, GConfSettings and Permissions,  *)
(* as MirrorsMC composes them.                                              *)
EXTENDS Daemon, MirrorsMC, FiniteSetTheorems, SequenceTheorems, WellFoundedInduction, TLAPS

LEMMA TypeInit == Init => TypeOK
BY DaemonAssumption DEF Init, TypeOK, Stages, Preparing, Handling

LEMMA TypeStep == TypeOK /\ [Next]_vars => TypeOK'
<1> SUFFICES ASSUME TypeOK, [Next]_vars PROVE TypeOK'
  OBVIOUS
<1> USE DaemonAssumption DEF TypeOK, busVars, mainVars, dbusVars, GoTo, Stages, Preparing, Handling
<1>1. CASE BusStops
  <2>1. outages' \in 0 .. MaxOutages
    BY <1>1 DEF BusStops
  <2>2. names' \in [Names -> Process \union {Nobody, Foreigner}]
    BY <1>1 DEF BusStops
  <2>3. /\ link' \in [Process -> BOOLEAN]
        /\ exported' \in [Process -> BOOLEAN]
    BY <1>1 DEF BusStops
  <2> QED
    BY <1>1, <2>1, <2>2, <2>3 DEF BusStops
<1>2. CASE BusStarts
  BY <1>2 DEF BusStarts
<1>3. CASE ForeignerClaims
  BY <1>3 DEF ForeignerClaims
<1>4. CASE ForeignerLeaves
  BY <1>4 DEF ForeignerLeaves
<1>5. ASSUME NEW p \in Process, CheckPidfile(p) PROVE TypeOK'
  BY <1>5 DEF CheckPidfile
<1>6. ASSUME NEW p \in Process, Terminate(p) PROVE TypeOK'
  BY <1>6 DEF Terminate
<1>7. ASSUME NEW p \in Process, Crash(p) PROVE TypeOK'
  BY <1>7 DEF Crash, Gone
<1>8. ASSUME NEW p \in Process, Daemonize(p) PROVE TypeOK'
  <2>1. CASE UNCHANGED <<pidfile, wrote>>
    BY <1>8, <2>1 DEF Daemonize, WritePidfile
  <2>2. CASE pidfile' = p /\ wrote' = [wrote EXCEPT ![p] = TRUE]
    BY <1>8, <2>2 DEF Daemonize, WritePidfile
  <2>3. CASE pidfile' = Nobody /\ UNCHANGED wrote
    BY <1>8, <2>3 DEF Daemonize, WritePidfile
  <2> QED
    BY <1>8, <2>1, <2>2, <2>3 DEF Daemonize, WritePidfile
<1>9. ASSUME NEW p \in Process, ConnectBus(p) PROVE TypeOK'
  BY <1>9 DEF ConnectBus
<1>10. ASSUME NEW p \in Process, AbortWithoutBus(p) PROVE TypeOK'
  BY <1>10 DEF AbortWithoutBus, Gone
<1>11. ASSUME NEW p \in Process, GetManager(p) PROVE TypeOK'
  BY <1>11 DEF GetManager
<1>12. ASSUME NEW p \in Process, StartService(p) PROVE TypeOK'
  BY <1>12 DEF StartService, TakeNames, StartedWith
<1>13. ASSUME NEW p \in Process, CheckQuitEarly(p) PROVE TypeOK'
  BY <1>13 DEF CheckQuitEarly
<1>14. ASSUME NEW p \in Process, EnterLoop(p) PROVE TypeOK'
  BY <1>14 DEF EnterLoop
<1>15. ASSUME NEW p \in Process, Finish(p) PROVE TypeOK'
  BY <1>15 DEF Finish, Gone
<1>16. ASSUME NEW p \in Process, ProxyDestroyed(p) PROVE TypeOK'
  BY <1>16 DEF ProxyDestroyed
<1>17. ASSUME NEW p \in Process, Reconnect(p) PROVE TypeOK'
  BY <1>17 DEF Reconnect, TakeNames, StartedWith
<1>18. CASE UNCHANGED vars
  BY <1>18 DEF vars
<1> QED
  BY <1>1, <1>2, <1>3, <1>4, <1>5, <1>6, <1>7, <1>8, <1>9, <1>10, <1>11, <1>12, <1>13,
     <1>14, <1>15, <1>16, <1>17, <1>18 DEF Next, Environment, Advance

(* Every variable of the daemon's life keeps its type. *)
THEOREM TypeCorrect == Spec => []TypeOK
<1>1. Init => TypeOK
  BY TypeInit
<1>2. TypeOK /\ [Next]_vars => TypeOK'
  BY TypeStep
<1> QED
  BY <1>1, <1>2, PTL DEF Spec

-----------------------------------------------------------------------------

(* What a stage of main() implies about BMDBusManager: it is not started     *)
(* before main() asked for that, it holds a connection from its creation to  *)
(* the loop, and no timeout is pending outside the loop.                      *)
StageInv ==
    \A p \in Process :
        /\ pc[p] \in {"off", "checked", "daemonized", "connected", "built"} => ~started[p]
        /\ pc[p] \in {"off", "checked", "daemonized"} => ~timer[p]
        /\ pc[p] \in {"connected", "built", "serving", "entering"} => conn[p] /\ ~timer[p]

(* The pid file holds the pid of a process that wrote it. *)
PidfileInv ==
    \A p \in Process :
        /\ pidfile = p => wrote[p]
        /\ wrote[p] => pc[p] \notin {"off", "checked"}

DaemonInv ==
    /\ StageInv
    /\ PidfileInv
    /\ ServingOwnsNames
    /\ RetryPending
    /\ PidfileOfTheLiving

LEMMA DaemonInvInit == Init => DaemonInv
BY DaemonAssumption
   DEF Init, DaemonInv, StageInv, PidfileInv, ServingOwnsNames, RetryPending, PidfileOfTheLiving

(* Names acquired were free, so nobody's service loses one. *)
LEMMA AcquiredWereFree ==
    ASSUME NEW p \in Process
    PROVE  NamesAcquired(p) \subseteq {n \in Names : names[n] = Nobody}
BY DEF NamesAcquired

LEMMA DaemonInvStep == TypeOK /\ DaemonInv /\ [Next]_vars => DaemonInv'
<1> SUFFICES ASSUME TypeOK, DaemonInv, [Next]_vars PROVE DaemonInv'
  OBVIOUS
<1> USE DaemonAssumption
    DEF TypeOK, DaemonInv, StageInv, PidfileInv, ServingOwnsNames, RetryPending,
        PidfileOfTheLiving, busVars, mainVars, dbusVars, GoTo, Stages, Preparing, Handling
<1>1. CASE BusStops
  BY <1>1 DEF BusStops
<1>2. CASE BusStarts
  BY <1>2 DEF BusStarts
<1>3. CASE ForeignerClaims
  BY <1>3 DEF ForeignerClaims, Names
<1>4. CASE ForeignerLeaves
  BY <1>4 DEF ForeignerLeaves, Names
<1>5. ASSUME NEW p \in Process, CheckPidfile(p) PROVE DaemonInv'
  BY <1>5 DEF CheckPidfile
<1>6. ASSUME NEW p \in Process, Terminate(p) PROVE DaemonInv'
  BY <1>6 DEF Terminate
<1>7. ASSUME NEW p \in Process, Crash(p) PROVE DaemonInv'
  BY <1>7 DEF Crash, Gone, Alive
<1>8. ASSUME NEW p \in Process, Daemonize(p) PROVE DaemonInv'
  BY <1>8 DEF Daemonize, WritePidfile
<1>9. ASSUME NEW p \in Process, ConnectBus(p) PROVE DaemonInv'
  BY <1>9 DEF ConnectBus
<1>10. ASSUME NEW p \in Process, AbortWithoutBus(p) PROVE DaemonInv'
  BY <1>10 DEF AbortWithoutBus, Gone
<1>11. ASSUME NEW p \in Process, GetManager(p) PROVE DaemonInv'
  BY <1>11 DEF GetManager
<1>12. ASSUME NEW p \in Process, StartService(p) PROVE DaemonInv'
  BY <1>12, AcquiredWereFree DEF StartService, TakeNames, StartedWith, Names
<1>13. ASSUME NEW p \in Process, CheckQuitEarly(p) PROVE DaemonInv'
  BY <1>13 DEF CheckQuitEarly
<1>14. ASSUME NEW p \in Process, EnterLoop(p) PROVE DaemonInv'
  BY <1>14 DEF EnterLoop
<1>15. ASSUME NEW p \in Process, Finish(p) PROVE DaemonInv'
  BY <1>15 DEF Finish, Gone
<1>16. ASSUME NEW p \in Process, ProxyDestroyed(p) PROVE DaemonInv'
  BY <1>16 DEF ProxyDestroyed
<1>17. ASSUME NEW p \in Process, Reconnect(p) PROVE DaemonInv'
  BY <1>17, AcquiredWereFree DEF Reconnect, TakeNames, StartedWith, Names
<1>18. CASE UNCHANGED vars
  BY <1>18 DEF vars
<1> QED
  BY <1>1, <1>2, <1>3, <1>4, <1>5, <1>6, <1>7, <1>8, <1>9, <1>10, <1>11, <1>12, <1>13,
     <1>14, <1>15, <1>16, <1>17, <1>18 DEF Next, Environment, Advance

LEMMA DaemonInvHolds == Spec => []DaemonInv
<1>1. Init => DaemonInv
  BY DaemonInvInit
<1>2. TypeOK /\ DaemonInv /\ [Next]_vars => DaemonInv'
  BY DaemonInvStep
<1> QED
  BY <1>1, <1>2, TypeCorrect, PTL DEF Spec

(* A process that believes its service started, over a connection that is    *)
(* up, owns both bus names (bm_dbus_manager_start_service and _reconnect).    *)
THEOREM ServiceExclusive == Spec => []ServingOwnsNames
<1>1. DaemonInv => ServingOwnsNames
  BY DEF DaemonInv
<1> QED
  BY <1>1, DaemonInvHolds, PTL

(* In the main loop a reconnection is scheduled exactly while the daemon has  *)
(* no connection (destroy_cb, start_reconnection_timeout).                    *)
THEOREM RetryNeverLost == Spec => []RetryPending
<1>1. DaemonInv => RetryPending
  BY DEF DaemonInv
<1> QED
  BY <1>1, DaemonInvHolds, PTL

(* The pid file of a process that came to its proper end is gone (main). *)
THEOREM NoStalePidfile == Spec => []PidfileOfTheLiving
<1>1. DaemonInv => PidfileOfTheLiving
  BY DEF DaemonInv
<1> QED
  BY <1>1, DaemonInvHolds, PTL

-----------------------------------------------------------------------------
(* Hostname: the last message in the client's queue that tells a hostname   *)
(* tells the present one; if there is none, the client shows it already.    *)

IsSequence(s) == s \in Seq({s[i] : i \in DOMAIN s})

Tells(m) == m.type \in {"properties-changed", "get-all"}

Silent(box) == \A i \in DOMAIN box : ~Tells(box[i])

(* box ends with now, or the client, when it was told one, holds it. *)
Carried(box, shown, told_, now) ==
    /\ \A i \in DOMAIN box :
          Tells(box[i]) /\ (\A j \in DOMAIN box : Tells(box[j]) => j <= i)
              => box[i].hostname = now
    /\ Silent(box) /\ told_ => shown = now

LEMMA EmptyIsSequence == IsSequence(<<>>)
BY DEF IsSequence

LEMMA SequenceDomain ==
    ASSUME NEW s, IsSequence(s)
    PROVE  Len(s) \in Nat /\ DOMAIN s = 1 .. Len(s)
BY LenProperties DEF IsSequence

LEMMA InSeqIsSequence ==
    ASSUME NEW S, NEW s \in Seq(S)
    PROVE  IsSequence(s)
<1>1. s \in [1 .. Len(s) -> S] /\ Len(s) \in Nat
  BY LenProperties
<1>2. s \in [1 .. Len(s) -> {s[i] : i \in DOMAIN s}]
  BY <1>1
<1> QED
  BY <1>1, <1>2, SeqDef DEF IsSequence

LEMMA AppendIsSequence ==
    ASSUME NEW s, NEW e, IsSequence(s)
    PROVE  /\ IsSequence(Append(s, e))
           /\ Len(Append(s, e)) = Len(s) + 1
           /\ \A i \in 1 .. Len(s) : Append(s, e)[i] = s[i]
           /\ Append(s, e)[Len(s) + 1] = e
<1> DEFINE T == {s[i] : i \in DOMAIN s} \union {e}
<1>1. s \in Seq(T)
  <2>1. s \in [1 .. Len(s) -> {s[i] : i \in DOMAIN s}] /\ Len(s) \in Nat
    BY LenProperties DEF IsSequence
  <2>2. s \in [1 .. Len(s) -> T]
    BY <2>1
  <2> QED
    BY <2>1, <2>2, SeqDef
<1> HIDE DEF T
<1>2. e \in T
  BY DEF T
<1>3. Append(s, e) \in Seq(T)
  BY <1>1, <1>2, AppendProperties
<1>4. IsSequence(Append(s, e))
  BY <1>3, InSeqIsSequence
<1> QED
  BY <1>1, <1>2, <1>4, AppendProperties

LEMMA ConcatIsSequence ==
    ASSUME NEW s, NEW t, IsSequence(s), IsSequence(t)
    PROVE  /\ IsSequence(s \o t)
           /\ Len(s \o t) = Len(s) + Len(t)
           /\ \A i \in 1 .. Len(s) + Len(t) :
                 (s \o t)[i] = IF i <= Len(s) THEN s[i] ELSE t[i - Len(s)]
<1> DEFINE S == {s[i] : i \in DOMAIN s}
           T == {t[i] : i \in DOMAIN t}
<1>1. s \in Seq(S \union T)
  <2>1. s \in [1 .. Len(s) -> S] /\ Len(s) \in Nat
    BY LenProperties DEF IsSequence
  <2>2. s \in [1 .. Len(s) -> S \union T]
    BY <2>1
  <2> QED
    BY <2>1, <2>2, SeqDef
<1>2. t \in Seq(S \union T)
  <2>1. t \in [1 .. Len(t) -> T] /\ Len(t) \in Nat
    BY LenProperties DEF IsSequence
  <2>2. t \in [1 .. Len(t) -> S \union T]
    BY <2>1
  <2> QED
    BY <2>1, <2>2, SeqDef
<1> HIDE DEF S, T
<1>3. s \o t \in Seq(S \union T)
  BY <1>1, <1>2, ConcatProperties
<1>4. IsSequence(s \o t)
  BY <1>3, InSeqIsSequence
<1> QED
  BY <1>1, <1>2, <1>4, ConcatProperties

LEMMA Appended == ASSUME NEW s, NEW e, IsSequence(s) PROVE IsSequence(Append(s, e))
BY AppendIsSequence

LEMMA Concatenated ==
    ASSUME NEW s, NEW t, IsSequence(s), IsSequence(t)
    PROVE  IsSequence(s \o t)
BY ConcatIsSequence

LEMMA SingleIsSequence ==
    ASSUME NEW m
    PROVE  IsSequence(<<m>>) /\ Len(<<m>>) = 1 /\ <<m>>[1] = m
<1>1. <<m>> \in Seq({m}) /\ Len(<<m>>) = 1 /\ <<m>>[1] = m
  OBVIOUS
<1> QED
  BY <1>1, InSeqIsSequence

LEMMA TailIsSequence ==
    ASSUME NEW s, IsSequence(s), s # <<>>
    PROVE  /\ IsSequence(Tail(s))
           /\ Len(s) \in Nat \ {0}
           /\ Len(Tail(s)) = Len(s) - 1
           /\ \A i \in 1 .. Len(s) - 1 : Tail(s)[i] = s[i + 1]
           /\ Head(s) = s[1]
<1> DEFINE S == {s[i] : i \in DOMAIN s}
<1>1. s \in Seq(S)
  BY DEF IsSequence
<1> HIDE DEF S
<1>2. Tail(s) \in Seq(S)
  BY <1>1, HeadTailProperties
<1>3. IsSequence(Tail(s))
  BY <1>2, InSeqIsSequence
<1>4. /\ Len(s) \in Nat \ {0}
      /\ Len(Tail(s)) = Len(s) - 1
      /\ \A i \in 1 .. Len(s) - 1 : Tail(s)[i] = s[i + 1]
      /\ Head(s) = s[1]
  <2>1. Len(s) \in Nat /\ Len(s) # 0
    BY <1>1, LenProperties, EmptySeq
  <2>2. Len(Tail(s)) = Len(s) - 1
    BY <1>1, HeadTailProperties
  <2>3. \A i \in 1 .. Len(s) - 1 : Tail(s)[i] = s[i + 1]
    BY <1>1, <2>1, <2>2, HeadTailProperties
  <2>4. Head(s) = s[1]
    BY <1>1
  <2> QED
    BY <2>1, <2>2, <2>3, <2>4
<1> QED
  BY <1>3, <1>4

LEMMA SilentConcat ==
    ASSUME NEW box, NEW more, IsSequence(box), IsSequence(more), Silent(box), Silent(more)
    PROVE  Silent(box \o more)
<1> PICK line : line = box \o more
  OBVIOUS
<1>1. /\ Len(box) \in Nat /\ DOMAIN box = 1 .. Len(box)
      /\ Len(more) \in Nat /\ DOMAIN more = 1 .. Len(more)
      /\ DOMAIN line = 1 .. Len(box) + Len(more)
      /\ \A i \in 1 .. Len(box) + Len(more) :
            line[i] = IF i <= Len(box) THEN box[i] ELSE more[i - Len(box)]
  BY SequenceDomain, ConcatIsSequence
<1>2. ASSUME NEW i \in DOMAIN line
      PROVE  ~Tells(line[i])
  BY <1>1 DEF Silent
<1> QED
  BY <1>2 DEF Silent

LEMMA SilentAppend ==
    ASSUME NEW box, NEW m, IsSequence(box), Silent(box), ~Tells(m)
    PROVE  Silent(Append(box, m))
<1> PICK line : line = Append(box, m)
  OBVIOUS
<1>1. /\ Len(box) \in Nat /\ DOMAIN box = 1 .. Len(box)
      /\ DOMAIN line = 1 .. Len(box) + 1
      /\ \A i \in 1 .. Len(box) : line[i] = box[i]
      /\ line[Len(box) + 1] = m
  BY SequenceDomain, AppendIsSequence
<1> QED
  BY <1>1 DEF Silent

LEMMA SilentMore ==
    ASSUME NEW box, NEW more, NEW shown, NEW told_, NEW now,
           IsSequence(box), IsSequence(more), Silent(more), Carried(box, shown, told_, now)
    PROVE  Carried(box \o more, shown, told_, now)
<1> PICK line : line = box \o more
  OBVIOUS
<1>1. /\ Len(box) \in Nat /\ DOMAIN box = 1 .. Len(box)
      /\ Len(more) \in Nat /\ DOMAIN more = 1 .. Len(more)
      /\ DOMAIN line = 1 .. Len(box) + Len(more)
      /\ \A i \in 1 .. Len(box) + Len(more) :
            line[i] = IF i <= Len(box) THEN box[i] ELSE more[i - Len(box)]
  BY SequenceDomain, ConcatIsSequence
<1>2. \A i \in DOMAIN line : Tells(line[i]) => i \in DOMAIN box
  BY <1>1 DEF Silent
<1>3. \A i \in DOMAIN box : i \in DOMAIN line /\ line[i] = box[i]
  BY <1>1
<1>4. Silent(line) => Silent(box)
  BY <1>3 DEF Silent
<1>5. ASSUME NEW i \in DOMAIN line, Tells(line[i]),
             \A j \in DOMAIN line : Tells(line[j]) => j <= i
      PROVE  line[i].hostname = now
  BY <1>2, <1>3, <1>5 DEF Carried
<1> QED
  BY <1>4, <1>5 DEF Carried

LEMMA ToldMore ==
    ASSUME NEW box, NEW more, NEW shown, NEW told_, NEW now,
           IsSequence(box), IsSequence(more), Len(more) # 0,
           Tells(more[Len(more)]), more[Len(more)].hostname = now
    PROVE  Carried(box \o more, shown, told_, now)
<1> PICK line : line = box \o more
  OBVIOUS
<1>1. /\ Len(box) \in Nat /\ Len(more) \in Nat
      /\ DOMAIN line = 1 .. Len(box) + Len(more)
      /\ \A i \in 1 .. Len(box) + Len(more) :
            line[i] = IF i <= Len(box) THEN box[i] ELSE more[i - Len(box)]
  BY SequenceDomain, ConcatIsSequence
<1> PICK last : last = Len(box) + Len(more)
  OBVIOUS
<1>2. last \in DOMAIN line /\ line[last] = more[Len(more)]
  BY <1>1
<1>3. ASSUME NEW i \in DOMAIN line, last <= i
      PROVE  i = last
  BY <1>1, <1>3
<1> QED
  BY <1>2, <1>3 DEF Carried, Silent

LEMMA ToldOnce ==
    ASSUME NEW box, NEW more, NEW m, NEW shown, NEW told_, NEW now,
           IsSequence(box), IsSequence(more), Len(more) = 1, more[1] = m,
           Tells(m), m.hostname = now
    PROVE  Carried(box \o more, shown, told_, now)
<1>1. Len(more) # 0 /\ more[Len(more)] = m
  OBVIOUS
<1> QED
  BY <1>1, ToldMore

LEMMA OneMore ==
    ASSUME NEW box, NEW m, NEW shown, NEW told_, NEW now, IsSequence(box),
           IF Tells(m) THEN m.hostname = now ELSE Carried(box, shown, told_, now)
    PROVE  Carried(Append(box, m), shown, told_, now)
<1> PICK line : line = Append(box, m)
  OBVIOUS
<1>1. /\ Len(box) \in Nat /\ DOMAIN box = 1 .. Len(box)
      /\ DOMAIN line = 1 .. Len(box) + 1
      /\ \A i \in 1 .. Len(box) : line[i] = box[i]
      /\ line[Len(box) + 1] = m
  BY SequenceDomain, AppendIsSequence
<1>2. CASE Tells(m)
  <2>1. ASSUME NEW i \in DOMAIN line, Len(box) + 1 <= i
        PROVE  i = Len(box) + 1
    BY <1>1, <2>1
  <2>2. Len(box) + 1 \in DOMAIN line
    BY <1>1
  <2> QED
    BY <1>1, <1>2, <2>1, <2>2 DEF Carried, Silent
<1>3. CASE ~Tells(m)
  <2>1. \A i \in DOMAIN line : Tells(line[i]) => i \in DOMAIN box
    BY <1>1, <1>3
  <2>2. \A i \in DOMAIN box : i \in DOMAIN line /\ line[i] = box[i]
    BY <1>1
  <2>3. ASSUME NEW i \in DOMAIN line, Tells(line[i]),
               \A j \in DOMAIN line : Tells(line[j]) => j <= i
        PROVE  line[i].hostname = now
    BY <1>3, <2>1, <2>2, <2>3 DEF Carried
  <2> QED
    BY <1>3, <2>2, <2>3 DEF Carried, Silent
<1> QED
  BY <1>2, <1>3

LEMMA OneTaken ==
    ASSUME NEW box, NEW shown, NEW told_, NEW now, IsSequence(box), box # <<>>,
           Carried(box, shown, told_, now)
    PROVE  IF Tells(Head(box))
           THEN Carried(Tail(box), Head(box).hostname, TRUE, now)
           ELSE Carried(Tail(box), shown, told_, now)
<1> PICK line : line = Tail(box)
  OBVIOUS
<1> PICK first : first = Head(box)
  OBVIOUS
<1>1. /\ Len(box) \in Nat \ {0} /\ DOMAIN box = 1 .. Len(box)
      /\ DOMAIN line = 1 .. Len(box) - 1
      /\ \A i \in 1 .. Len(box) - 1 : line[i] = box[i + 1]
      /\ first = box[1]
  BY SequenceDomain, TailIsSequence
<1>2. \A i \in DOMAIN line : i \in Nat /\ i + 1 \in DOMAIN box /\ line[i] = box[i + 1]
  BY <1>1
<1>3. \A j \in DOMAIN box : j = 1 \/ (j \in Nat /\ j - 1 \in DOMAIN line /\ line[j - 1] = box[j])
  BY <1>1
<1>4. ASSUME NEW i \in DOMAIN line, Tells(line[i]),
             \A j \in DOMAIN line : Tells(line[j]) => j <= i
      PROVE  line[i].hostname = now
  <2>1. i \in Nat /\ i + 1 \in DOMAIN box /\ Tells(box[i + 1]) /\ box[i + 1] = line[i]
    BY <1>2, <1>4
  <2>2. ASSUME NEW j \in DOMAIN box, Tells(box[j])
        PROVE  j <= i + 1
    <3>1. CASE j = 1
      BY <2>1, <3>1
    <3>2. CASE j # 1
      <4>1. j \in Nat /\ j - 1 \in DOMAIN line /\ Tells(line[j - 1])
        BY <1>3, <2>2, <3>2
      <4>2. j - 1 <= i
        BY <1>4, <4>1
      <4> QED
        BY <2>1, <4>1, <4>2
    <3> QED
      BY <3>1, <3>2
  <2> QED
    BY <2>1, <2>2 DEF Carried
<1>5. CASE Tells(first)
  <2>1. ASSUME Silent(line)
        PROVE  first.hostname = now
    <3>1. 1 \in DOMAIN box
      BY <1>1
    <3>2. ASSUME NEW j \in DOMAIN box, Tells(box[j])
          PROVE  j <= 1
      <4>1. j = 1
        BY <1>3, <2>1, <3>2 DEF Silent
      <4> QED
        BY <4>1
    <3> QED
      BY <1>1, <1>5, <3>1, <3>2 DEF Carried
  <2> QED
    BY <1>4, <1>5, <2>1 DEF Carried
<1>6. CASE ~Tells(first)
  <2>1. Silent(line) => Silent(box)
    BY <1>1, <1>3, <1>6 DEF Silent
  <2> QED
    BY <1>4, <1>6, <2>1 DEF Carried
<1> QED
  BY <1>5, <1>6

-----------------------------------------------------------------------------
(* The hostname the daemon has once its plugins are loaded *)

LEMMA SameCardinality == \A S : Host!Cardinality(S) = Cardinality(S)
BY DEF Host!Cardinality, Cardinality

ConfigSet ==
    {<<"keyfile">>, <<"keyfile", "ifcfg-rh">>, <<"ifcfg-fedora", "keyfile", "ifcfg-rh">>}

LEMMA NthOfOne == ASSUME NEW x \in Nat PROVE Host!Nth({x}, 1) = x
<1>1. {j \in {x} : j <= x} = {x}
  OBVIOUS
<1>2. Host!Cardinality({x}) = 1
  BY FS_Singleton, SameCardinality
<1>3. \A i \in {x} : Host!Cardinality({j \in {x} : j <= i}) = 1 <=> i = x
  BY <1>1, <1>2
<1> QED
  BY <1>3 DEF Host!Nth

LEMMA PairCounts == Host!Cardinality({1, 2}) = 2
<1>1. {1, 2} = {1} \union {2}
  OBVIOUS
<1>2. IsFiniteSet({1}) /\ Cardinality({1}) = 1
  BY FS_Singleton
<1>3. Cardinality({1} \union {2}) = 2
  BY <1>2, FS_AddElement
<1> QED
  BY <1>1, <1>3, SameCardinality

LEMMA NthOfTwo == Host!Nth({1, 2}, 1) = 1 /\ Host!Nth({1, 2}, 2) = 2
<1>1. {j \in {1, 2} : j <= 1} = {1} /\ {j \in {1, 2} : j <= 2} = {1, 2}
  OBVIOUS
<1>2. Host!Cardinality({1}) = 1 /\ Host!Cardinality({1, 2}) = 2
  BY FS_Singleton, PairCounts, SameCardinality
<1>3. \A i \in {1, 2} : Host!Cardinality({j \in {1, 2} : j <= i}) = 1 <=> i = 1
  BY <1>1, <1>2
<1>4. \A i \in {1, 2} : Host!Cardinality({j \in {1, 2} : j <= i}) = 2 <=> i = 2
  BY <1>1, <1>2
<1> QED
  BY <1>3, <1>4 DEF Host!Nth

LEMMA FirstIsIn ==
    ASSUME NEW S, S \subseteq {1, 2}, S # {}
    PROVE  Host!Nth(S, 1) \in S
<1>1. S = {1} \/ S = {2} \/ S = {1, 2}
  OBVIOUS
<1> QED
  BY <1>1, NthOfOne, NthOfTwo

LEMMA FreshIs ==
    ASSUME config \in ConfigSet
    PROVE  /\ Host!Fresh \in {{1}, {1, 2}}
           /\ \A i \in Host!Fresh : Host!Named(i) \in Host!Plugin
<1>1. CASE config = <<"keyfile">>
  <2>1. DOMAIN config = {1} /\ Host!Named(1) = "keyfile"
    BY <1>1 DEF Host!Named
  <2>2. Host!Fresh = {1}
    BY <2>1 DEF Host!Fresh
  <2> QED
    BY <2>1, <2>2 DEF Host!Plugin
<1>2. CASE config = <<"keyfile", "ifcfg-rh">>
  <2>1. DOMAIN config = {1, 2} /\ Host!Named(1) = "keyfile" /\ Host!Named(2) = "ifcfg-rh"
    BY <1>2 DEF Host!Named
  <2>2. Host!Fresh = {1, 2}
    BY <2>1 DEF Host!Fresh
  <2> QED
    BY <2>1, <2>2 DEF Host!Plugin
<1>3. CASE config = <<"ifcfg-fedora", "keyfile", "ifcfg-rh">>
  <2>1. /\ DOMAIN config = {1, 2, 3}
        /\ Host!Named(1) = "ifcfg-rh" /\ Host!Named(2) = "keyfile" /\ Host!Named(3) = "ifcfg-rh"
    BY <1>3 DEF Host!Named
  <2>2. Host!Fresh = {1, 2}
    <3>1. 1 \in Host!Fresh /\ 2 \in Host!Fresh
      BY <2>1 DEF Host!Fresh
    <3>2. 3 \notin Host!Fresh
      BY <2>1 DEF Host!Fresh
    <3> QED
      BY <2>1, <3>1, <3>2 DEF Host!Fresh
  <2> QED
    BY <2>1, <2>2 DEF Host!Plugin
<1> QED
  BY <1>1, <1>2, <1>3 DEF ConfigSet

LEMMA LoadedIs ==
    ASSUME config \in ConfigSet
    PROVE  /\ DOMAIN Host!Loaded \subseteq {1, 2}
           /\ \A k \in DOMAIN Host!Loaded : Host!Loaded[k] \in Host!Plugin
<1>1. CASE Host!Fresh = {1}
  <2>1. Host!Cardinality(Host!Fresh) = 1 /\ Host!Nth(Host!Fresh, 1) = 1
    BY <1>1, FS_Singleton, SameCardinality, NthOfOne
  <2>2. DOMAIN Host!Loaded = {1} /\ Host!Loaded[1] = Host!Named(1)
    BY <2>1 DEF Host!Loaded
  <2> QED
    BY <1>1, <2>2, FreshIs
<1>2. CASE Host!Fresh = {1, 2}
  <2>1. /\ Host!Cardinality(Host!Fresh) = 2
        /\ Host!Nth(Host!Fresh, 1) = 1 /\ Host!Nth(Host!Fresh, 2) = 2
    BY <1>2, PairCounts, NthOfTwo
  <2>2. /\ DOMAIN Host!Loaded = {1, 2}
        /\ Host!Loaded[1] = Host!Named(1) /\ Host!Loaded[2] = Host!Named(2)
    BY <2>1 DEF Host!Loaded
  <2> QED
    BY <1>2, <2>2, FreshIs
<1> QED
  BY <1>1, <1>2, FreshIs

(* The plugins that tell a hostname, and the one the daemon then has *)
Having(hs) == {i \in DOMAIN Host!Loaded :
                  Host!Loaded[i] \in canHost /\ hs[Host!Loaded[i]] # ""}

NowOf(hs) == IF Having(hs) = {} THEN "" ELSE hs[Host!Loaded[Host!Nth(Having(hs), 1)]]

LEMMA NowIsHostnameOf ==
    ASSUME plugins = Host!Loaded
    PROVE  \A hs : Host!HostnameOf(hs) = NowOf(hs)
<1> HIDE DEF Host!Loaded, Host!Nth
<1>1. ASSUME NEW hs
      PROVE  {i \in Host!Keepers : hs[plugins[i]] # ""} = Having(hs)
  BY DEF Having, Host!Keepers
<1> QED
  BY <1>1 DEF Host!HostnameOf, NowOf

LEMMA SameNow ==
    ASSUME NEW hs, NEW other, config \in ConfigSet,
           \A i \in DOMAIN Host!Loaded :
              Host!Loaded[i] \in canHost => hs[Host!Loaded[i]] = other[Host!Loaded[i]]
    PROVE  NowOf(hs) = NowOf(other)
<1> HIDE DEF Host!Loaded, Host!Nth
<1>1. Having(hs) = Having(other)
  BY DEF Having
<1>2. CASE Having(hs) = {}
  BY <1>1, <1>2 DEF NowOf
<1>3. CASE Having(hs) # {}
  <2> PICK i : i = Host!Nth(Having(hs), 1)
    OBVIOUS
  <2>1. Having(hs) \subseteq {1, 2}
    BY LoadedIs DEF Having
  <2>2. i \in Having(hs)
    BY <1>3, <2>1, FirstIsIn
  <2>3. i \in DOMAIN Host!Loaded /\ Host!Loaded[i] \in canHost
    BY <2>2 DEF Having
  <2> QED
    BY <1>1, <1>3, <2>3 DEF NowOf
<1> QED
  BY <1>2, <1>3

LEMMA NowUntouched ==
    ASSUME config' = config, canHost' = canHost
    PROVE  Host!Loaded' = Host!Loaded /\ NowOf(hosts)' = NowOf(hosts')
<1>1. Host!Loaded' = Host!Loaded
  <2>1. ASSUME NEW i PROVE Host!Named(i)' = Host!Named(i)
    BY DEF Host!Named
  <2>2. Host!Fresh' = Host!Fresh
    BY <2>1 DEF Host!Fresh, Host!Named
  <2> QED
    BY <2>1, <2>2 DEF Host!Loaded, Host!Named
<1> HIDE DEF Host!Loaded, Host!Nth
<1>2. Having(hosts)' = Having(hosts')
  BY <1>1 DEF Having
<1> QED
  BY <1>1, <1>2 DEF NowOf

LEMMA FunctionIsSequence ==
    ASSUME NEW f, NEW n \in Nat, DOMAIN f = 1 .. n, f = [k \in 1 .. n |-> f[k]]
    PROVE  IsSequence(f) /\ Len(f) = n
<1>1. f \in [1 .. n -> {f[k] : k \in DOMAIN f}]
  OBVIOUS
<1>2. f \in Seq({f[k] : k \in DOMAIN f})
  BY <1>1, SeqDef
<1> QED
  BY <1>2, LenProperties DEF IsSequence

LEMMA ErrorsAreSilent ==
    ASSUME NEW cs, IsFiniteSet(cs)
    PROVE  IsSequence(Host!Errors(cs)) /\ Silent(Host!Errors(cs))
<1> PICK n : n = Host!Cardinality(cs)
  OBVIOUS
<1>1. n \in Nat
  BY FS_CardinalityType, SameCardinality
<1> PICK f : f = Host!Errors(cs)
  OBVIOUS
<1>2. f = [k \in 1 .. n |-> IF Host!Nth(cs, k) = Host!GetAll THEN Host!AllFailed
                            ELSE Host!Reply(Host!Nth(cs, k), FALSE)]
  BY DEF Host!Errors
<1>3. DOMAIN f = 1 .. n /\ f = [k \in 1 .. n |-> f[k]]
  BY <1>2
<1>4. ASSUME NEW k \in DOMAIN f
      PROVE  ~Tells(f[k])
  BY <1>2, <1>3 DEF Tells, Host!AllFailed, Host!Reply
<1> QED
  BY <1>1, <1>3, <1>4, FunctionIsSequence DEF Silent

-----------------------------------------------------------------------------
(* The invariant *)

HostNames == HostName \union {"", Host!NULL}

CallState == [name: HostNames, state: {"none", "sent", "done"}]

HostTypes ==
    /\ config \in ConfigSet
    /\ hosts \in [Host!Plugin -> HostNames]
    /\ runs \in BOOLEAN
    /\ checks \subseteq Host!Call
    /\ toDaemon \in Seq({Host!GetAll} \union Host!Call)
    /\ IsSequence(toClient)
    /\ calls \in [{Host!GetAll} \union Host!Call -> CallState]

(* A daemon that runs has the plugins of the configuration; one that does   *)
(* not has nothing to do.                                                   *)
PluginsLoaded ==
    IF runs THEN plugins = Host!Loaded ELSE plugins = <<>> /\ checks = {} /\ toDaemon = <<>>

(* Before the client called GetAll, nobody told it anything. *)
NotYetTold ==
    calls[Host!GetAll].state = "none" =>
        /\ ~known
        /\ Silent(toClient)
        /\ \A i \in DOMAIN toDaemon : toDaemon[i] # Host!GetAll

(* The client is told, last, what the daemon has. *)
LastToldIsNow == ~unheard => Carried(toClient, hostname, known, NowOf(hosts))

HostInv == HostTypes /\ PluginsLoaded /\ NotYetTold /\ LastToldIsNow

LEMMA HostInvInit == Host!Init => HostInv
<1> SUFFICES ASSUME Host!Init PROVE HostInv
  OBVIOUS
<1>1. HostTypes
  <2>1. calls \in [{Host!GetAll} \union Host!Call -> CallState]
    BY DEF Host!Init, CallState, HostNames
  <2>2. IsSequence(toClient)
    BY EmptyIsSequence DEF Host!Init
  <2>3. toDaemon \in Seq({Host!GetAll} \union Host!Call)
    BY EmptySeq DEF Host!Init
  <2> QED
    BY <2>1, <2>2, <2>3 DEF Host!Init, HostTypes, ConfigSet, HostNames
<1>2. Silent(toClient) /\ DOMAIN toDaemon = {}
  <2>1. DOMAIN <<>> = {}
    OBVIOUS
  <2>2. toClient = <<>> /\ toDaemon = <<>>
    BY DEF Host!Init
  <2> QED
    BY <2>1, <2>2 DEF Silent
<1> QED
  BY <1>1, <1>2 DEF Host!Init, HostInv, PluginsLoaded, NotYetTold, LastToldIsNow, Carried

(* What the daemon sends *)
LEMMA ChangesTell ==
    \A v : Tells(Host!PropertiesChanged(v)) /\ Host!PropertiesChanged(v).hostname = v
BY DEF Tells, Host!PropertiesChanged

LEMMA PropertiesTell ==
    \A v, m : Tells(Host!Properties(v, m)) /\ Host!Properties(v, m).hostname = v
BY DEF Tells, Host!Properties

LEMMA RepliesAreSilent == \A c, ok : ~Tells(Host!Reply(c, ok))
BY DEF Tells, Host!Reply

(* One lemma for each action *)

LEMMA HostStarts == HostInv /\ Host!DaemonStarts => HostInv'
<1> SUFFICES ASSUME HostInv, Host!DaemonStarts PROVE HostInv'
  OBVIOUS
<1> HIDE DEF Host!Loaded
<1>1. Host!Loaded' = Host!Loaded /\ NowOf(hosts)' = NowOf(hosts)
  BY NowUntouched DEF Host!DaemonStarts, Host!pluginVars
<1>2. HostTypes'
  BY DEF HostInv, HostTypes, Host!DaemonStarts, Host!pluginVars, Host!clientVars
<1>3. PluginsLoaded'
  BY <1>1 DEF PluginsLoaded, Host!DaemonStarts
<1>4. NotYetTold'
  BY DEF HostInv, NotYetTold, Silent, Host!DaemonStarts, Host!clientVars
<1>5. LastToldIsNow'
  BY <1>1 DEF HostInv, LastToldIsNow, Carried, Silent, Host!DaemonStarts, Host!clientVars
<1> QED
  BY <1>2, <1>3, <1>4, <1>5 DEF HostInv

LEMMA HostExits == HostInv /\ Host!DaemonExits => HostInv'
<1> SUFFICES ASSUME HostInv, Host!DaemonExits PROVE HostInv'
  OBVIOUS
<1> HIDE DEF Host!Loaded
<1>1. NowOf(hosts)' = NowOf(hosts)
  BY NowUntouched DEF Host!DaemonExits, Host!pluginVars
<1> PICK errors : errors = Host!Errors(Host!Unanswered)
  OBVIOUS
<1>2. IsSequence(errors) /\ Silent(errors)
  <2>1. IsFiniteSet({Host!GetAll} \union Host!Call)
    <3>1. IsFiniteSet(Host!Call)
      BY MirrorsAssumption, FS_Interval DEF Host!Call
    <3>2. IsFiniteSet(Host!Call \union {Host!GetAll})
      BY <3>1, FS_AddElement
    <3>3. Host!Call \union {Host!GetAll} = {Host!GetAll} \union Host!Call
      OBVIOUS
    <3> QED
      BY <3>2, <3>3
  <2>2. Host!Unanswered \subseteq {Host!GetAll} \union Host!Call
    BY DEF HostInv, HostTypes, Host!Unanswered
  <2> QED
    BY <2>1, <2>2, FS_Subset, ErrorsAreSilent
<1>3. toClient' = toClient \o errors
  BY DEF Host!DaemonExits
<1>4. IsSequence(toClient)
  BY DEF HostInv, HostTypes
<1>5. IsSequence(toClient')
  BY <1>2, <1>3, <1>4, ConcatIsSequence
<1>6. HostTypes'
  <2>1. toDaemon' \in Seq({Host!GetAll} \union Host!Call)
    BY EmptySeq DEF Host!DaemonExits
  <2> QED
    BY <1>5, <2>1 DEF HostInv, HostTypes, Host!DaemonExits, Host!pluginVars, Host!clientVars
<1>7. PluginsLoaded'
  BY DEF PluginsLoaded, Host!DaemonExits
<1>8. NotYetTold'
  <2>1. Silent(toClient) => Silent(toClient')
    BY <1>2, <1>3, <1>4, SilentConcat
  <2>2. DOMAIN toDaemon' = {}
    BY DEF Host!DaemonExits
  <2> QED
    BY <2>1, <2>2 DEF HostInv, NotYetTold, Host!DaemonExits, Host!clientVars
<1>9. LastToldIsNow'
  <2>1. ASSUME ~unheard
        PROVE  Carried(toClient', hostname, known, NowOf(hosts))
    BY <1>2, <1>3, <1>4, <2>1, SilentMore DEF HostInv, LastToldIsNow
  <2> QED
    BY <1>1, <2>1 DEF LastToldIsNow, Host!DaemonExits, Host!clientVars
<1> QED
  BY <1>6, <1>7, <1>8, <1>9 DEF HostInv

LEMMA HostEdited ==
    ASSUME HostInv, NEW p \in Host!Plugin, NEW name \in HostName \union {""},
           Host!PluginHostname(p, name)
    PROVE  HostInv'
<1> HIDE DEF Host!Loaded
<1>1. Host!Loaded' = Host!Loaded /\ NowOf(hosts)' = NowOf(hosts')
  BY NowUntouched DEF Host!PluginHostname
<1> PICK m : m = Host!HostnameChanged(hosts', p)
  OBVIOUS
<1>2. m = Host!PropertiesChanged(Host!HostnameOf(hosts'))
  BY DEF Host!HostnameChanged
<1>3. Tells(m) /\ m.hostname = Host!HostnameOf(hosts')
  BY <1>2, ChangesTell
<1> PICK one : one = <<m>>
  OBVIOUS
<1>4. IsSequence(one) /\ Len(one) = 1 /\ one[1] = m
  BY SingleIsSequence
<1>5. hosts' = [hosts EXCEPT ![p] = name] /\ hosts' \in [Host!Plugin -> HostNames]
  BY DEF HostInv, HostTypes, HostNames, Host!PluginHostname, Host!Set
<1>6. \/ toClient' = toClient
      \/ calls[Host!GetAll].state # "none" /\ toClient' = toClient \o one
  BY DEF Host!PluginHostname, Host!Signaled
<1>7. HostTypes'
  <2>1. IsSequence(toClient')
    BY <1>4, <1>6, ConcatIsSequence DEF HostInv, HostTypes
  <2> QED
    BY <1>5, <2>1 DEF HostInv, HostTypes, Host!PluginHostname, Host!daemonVars, Host!clientVars
<1>8. PluginsLoaded'
  BY <1>1 DEF HostInv, PluginsLoaded, Host!PluginHostname, Host!daemonVars
<1>9. NotYetTold'
  BY <1>6 DEF HostInv, NotYetTold, Silent, Host!PluginHostname, Host!clientVars
<1>10. ASSUME runs, ~unheard
       PROVE  Carried(toClient', hostname, known, NowOf(hosts'))
  <2>1. plugins = Host!Loaded
    BY <1>10 DEF HostInv, PluginsLoaded
  <2>2. CASE toClient' = toClient /\ calls[Host!GetAll].state = "none"
    BY <2>2 DEF HostInv, NotYetTold, Silent, Carried
  <2>3. CASE toClient' = toClient /\ ~\E i \in DOMAIN plugins : plugins[i] = p
    <3>1. NowOf(hosts') = NowOf(hosts)
      <4>1. config \in ConfigSet
        BY DEF HostInv, HostTypes
      <4>2. \A i \in DOMAIN Host!Loaded : hosts'[Host!Loaded[i]] = hosts[Host!Loaded[i]]
        BY <1>5, <2>1, <2>3, <4>1, LoadedIs DEF HostInv, HostTypes
      <4> QED
        BY <4>1, <4>2, SameNow
    <3> QED
      BY <1>10, <2>3, <3>1 DEF HostInv, LastToldIsNow
  <2>4. CASE toClient' = toClient \o one
    <3> PICK now : now = NowOf(hosts')
      OBVIOUS
    <3>1. m.hostname = now
      BY <1>3, <2>1, NowIsHostnameOf
    <3>2. IsSequence(toClient)
      BY DEF HostInv, HostTypes
    <3>3. Carried(toClient \o one, hostname, known, now)
      BY <1>3, <1>4, <3>1, <3>2, ToldOnce
    <3> QED
      BY <2>4, <3>3
  <2>5. \/ toClient' = toClient /\ calls[Host!GetAll].state = "none"
        \/ toClient' = toClient /\ ~\E i \in DOMAIN plugins : plugins[i] = p
        \/ toClient' = toClient \o one
    BY DEF Host!PluginHostname, Host!Signaled
  <2> QED
    BY <2>2, <2>3, <2>4, <2>5
<1>11. LastToldIsNow'
  <2>1. unheard' = (unheard \/ ~runs) /\ unheard' \in BOOLEAN
    BY DEF Host!PluginHostname
  <2> QED
    BY <1>1, <1>10, <2>1 DEF LastToldIsNow, Host!PluginHostname, Host!clientVars
<1> QED
  BY <1>7, <1>8, <1>9, <1>11 DEF HostInv

LEMMA HostHandlesRequest == HostInv /\ Host!HandleRequest => HostInv'
<1> SUFFICES ASSUME HostInv, Host!HandleRequest PROVE HostInv'
  OBVIOUS
<1> HIDE DEF Host!Loaded
<1>1. Host!Loaded' = Host!Loaded /\ NowOf(hosts)' = NowOf(hosts)
  BY NowUntouched DEF Host!HandleRequest, Host!pluginVars
<1> PICK c : c = Head(toDaemon)
  OBVIOUS
<1>2. /\ c \in {Host!GetAll} \union Host!Call
      /\ toDaemon' \in Seq({Host!GetAll} \union Host!Call)
      /\ c = toDaemon[1] /\ 1 \in DOMAIN toDaemon
      /\ \A i \in DOMAIN toDaemon' : i + 1 \in DOMAIN toDaemon /\ toDaemon'[i] = toDaemon[i + 1]
  <2> PICK queue : queue = toDaemon
    OBVIOUS
  <2>1. queue \in Seq({Host!GetAll} \union Host!Call) /\ queue # <<>>
    BY DEF HostInv, HostTypes, Host!HandleRequest
  <2>2. IsSequence(queue)
    BY <2>1, InSeqIsSequence
  <2>3. /\ Head(queue) \in {Host!GetAll} \union Host!Call
        /\ Tail(queue) \in Seq({Host!GetAll} \union Host!Call)
    BY <2>1, HeadTailProperties
  <2>4. Head(queue) = queue[1] /\ 1 \in DOMAIN queue
    BY <2>1, <2>2, TailIsSequence, SequenceDomain
  <2>5. \A i \in DOMAIN Tail(queue) : i + 1 \in DOMAIN queue /\ Tail(queue)[i] = queue[i + 1]
    BY <2>1, <2>2, TailIsSequence, SequenceDomain
  <2> QED
    BY <2>3, <2>4, <2>5 DEF Host!HandleRequest
<1>3. plugins = Host!Loaded
  BY DEF HostInv, PluginsLoaded, Host!HandleRequest
<1>4. \/ /\ c = Host!GetAll
         /\ toClient' = Append(toClient, Host!Properties(Host!HostnameOf(hosts),
                                                         Host!SomePlugin(Modifiers)))
         /\ checks' = checks
      \/ toClient' = Append(toClient, Host!Reply(c, FALSE)) /\ checks' = checks
      \/ toClient' = toClient /\ c # Host!GetAll /\ checks' = checks \union {c}
  BY DEF Host!HandleRequest
<1>5. IsSequence(toClient)
  BY DEF HostInv, HostTypes
<1>6. HostTypes'
  <2>1. IsSequence(toClient')
    BY <1>4, <1>5, Appended
  <2>2. checks' \subseteq Host!Call
    BY <1>2, <1>4 DEF HostInv, HostTypes
  <2> QED
    BY <1>2, <2>1, <2>2 DEF HostInv, HostTypes, Host!HandleRequest, Host!pluginVars, Host!clientVars
<1>7. PluginsLoaded'
  BY <1>1 DEF HostInv, PluginsLoaded, Host!HandleRequest
<1>8. NotYetTold'
  <2> SUFFICES ASSUME calls[Host!GetAll].state = "none"
               PROVE  /\ ~known
                      /\ Silent(toClient')
                      /\ \A i \in DOMAIN toDaemon' : toDaemon'[i] # Host!GetAll
    BY DEF NotYetTold, Silent, Host!HandleRequest, Host!clientVars
  <2>1. /\ ~known /\ Silent(toClient)
        /\ \A i \in DOMAIN toDaemon : toDaemon[i] # Host!GetAll
    BY DEF HostInv, NotYetTold
  <2>2. c # Host!GetAll
    BY <1>2, <2>1
  <2>3. Silent(toClient')
    BY <1>4, <1>5, <2>1, <2>2, SilentAppend, RepliesAreSilent
  <2> QED
    BY <1>2, <2>1, <2>3
<1>9. ASSUME ~unheard
      PROVE  Carried(toClient', hostname, known, NowOf(hosts))
  <2> PICK now : now = NowOf(hosts)
    OBVIOUS
  <2>1. Carried(toClient, hostname, known, now)
    BY <1>9 DEF HostInv, LastToldIsNow
  <2>2. Host!HostnameOf(hosts) = now
    BY <1>3, NowIsHostnameOf
  <2>3. CASE toClient' = Append(toClient, Host!Properties(Host!HostnameOf(hosts),
                                                          Host!SomePlugin(Modifiers)))
    <3> PICK m : m = Host!Properties(now, Host!SomePlugin(Modifiers))
      OBVIOUS
    <3>1. Tells(m) /\ m.hostname = now
      BY PropertiesTell
    <3>2. Carried(Append(toClient, m), hostname, known, now)
      BY <1>5, <3>1, OneMore
    <3> QED
      BY <2>2, <2>3, <3>2
  <2>4. CASE toClient' = Append(toClient, Host!Reply(c, FALSE))
    <3> PICK m : m = Host!Reply(c, FALSE)
      OBVIOUS
    <3>1. ~Tells(m)
      BY RepliesAreSilent
    <3>2. Carried(Append(toClient, m), hostname, known, now)
      BY <1>5, <2>1, <3>1, OneMore
    <3> QED
      BY <2>4, <3>2
  <2> QED
    BY <1>4, <2>1, <2>3, <2>4
<1>10. LastToldIsNow'
  BY <1>1, <1>9 DEF LastToldIsNow, Host!HandleRequest, Host!clientVars
<1> QED
  BY <1>6, <1>7, <1>8, <1>10 DEF HostInv

(* The signals of SaveHostname: the last of them tells what is now. *)
LEMMA EverywhereTold ==
    ASSUME HostInv, plugins = Host!Loaded, NEW name \in HostNames, NEW hs, NEW box,
           hs = Host!SetEverywhere(name).hosts, box = Host!SetEverywhere(name).inbox
    PROVE  /\ hs \in [Host!Plugin -> HostNames]
           /\ IsSequence(box)
           /\ calls[Host!GetAll].state = "none" => box = toClient
           /\ ~unheard => Carried(box, hostname, known, NowOf(hs))
<1> HIDE DEF Host!Loaded
<1>1. config \in ConfigSet
  BY DEF HostInv, HostTypes
<1> PICK n : n = Host!Cardinality(Host!Keepers)
  OBVIOUS
<1> DEFINE signal(k) == Host!HostnameChanged(Host!SetBefore(name, k),
                                             plugins[Host!Nth(Host!Keepers, k)])
<1> PICK signals : signals = [k \in 1 .. n |-> signal(k)]
  OBVIOUS
<1>2. n \in Nat /\ (n = 0 => Host!Keepers = {})
  <2>1. Host!Keepers \subseteq {1, 2}
    BY <1>1, LoadedIs DEF Host!Keepers
  <2>2. IsFiniteSet({1, 2})
    <3>1. IsFiniteSet({1} \union {2})
      BY FS_Singleton, FS_AddElement
    <3>2. {1} \union {2} = {1, 2}
      OBVIOUS
    <3> QED
      BY <3>1, <3>2
  <2>3. IsFiniteSet(Host!Keepers)
    BY <2>1, <2>2, FS_Subset
  <2> QED
    BY <2>3, FS_CardinalityType, FS_EmptySet, SameCardinality
<1>3. IsSequence(signals) /\ Len(signals) = n
  <2> HIDE DEF signal
  <2>1. DOMAIN signals = 1 .. n /\ signals = [k \in 1 .. n |-> signals[k]]
    OBVIOUS
  <2> QED
    BY <1>2, <2>1, FunctionIsSequence
<1>4. hs = Host!SetBefore(name, n) /\ box = Host!Signaled(signals)
  BY DEF Host!SetEverywhere
<1>5. hs \in [Host!Plugin -> HostNames]
  BY <1>4 DEF HostInv, HostTypes, Host!SetBefore
<1>6. IsSequence(toClient)
  BY DEF HostInv, HostTypes
<1>7. \/ calls[Host!GetAll].state = "none" /\ box = toClient
      \/ calls[Host!GetAll].state # "none" /\ box = toClient \o signals
  BY <1>4 DEF Host!Signaled
<1>8. IsSequence(box)
  <2> HIDE DEF signal
  <2> QED
    BY <1>3, <1>6, <1>7, Concatenated
<1>9. ASSUME ~unheard
      PROVE  Carried(box, hostname, known, NowOf(hs))
  <2> PICK now : now = NowOf(hs)
    OBVIOUS
  <2>1. CASE calls[Host!GetAll].state = "none"
    BY <1>7, <2>1 DEF HostInv, NotYetTold, Silent, Carried
  <2>2. CASE box = toClient \o signals /\ n = 0
    <3>1. NowOf(hosts) = NowOf(hs)
      <4>1. \A i \in DOMAIN Host!Loaded : Host!Loaded[i] \notin canHost
        BY <1>2, <2>2 DEF Host!Keepers
      <4> QED
        BY <1>1, <4>1, SameNow
    <3>2. Silent(signals)
      BY <1>3, <2>2, SequenceDomain DEF Silent
    <3>3. Carried(toClient, hostname, known, now)
      BY <1>9, <3>1 DEF HostInv, LastToldIsNow
    <3>4. Carried(toClient \o signals, hostname, known, now)
      BY <1>3, <1>6, <3>2, <3>3, SilentMore
    <3> QED
      BY <2>2, <3>4
  <2>3. CASE box = toClient \o signals /\ n # 0
    <3>1. signals[n] = Host!PropertiesChanged(Host!HostnameOf(hs))
      <4>1. signals[n] = signal(n)
        BY <1>2, <2>3
      <4> QED
        BY <1>4, <4>1 DEF Host!HostnameChanged
    <3>2. Tells(signals[n]) /\ signals[n].hostname = now
      BY <3>1, ChangesTell, NowIsHostnameOf
    <3>3. Carried(toClient \o signals, hostname, known, now)
      <4> HIDE DEF signal
      <4> QED
        BY <1>3, <1>6, <2>3, <3>2, ToldMore
    <3> QED
      BY <2>3, <3>3
  <2> QED
    BY <1>2, <1>7, <2>1, <2>2, <2>3
<1> QED
  BY <1>5, <1>7, <1>8, <1>9

LEMMA HostAnswered ==
    ASSUME HostInv, NEW c \in Host!Call, NEW says \in {"yes", "no", "error"},
           Host!PkHostname(c, says)
    PROVE  HostInv'
<1> HIDE DEF Host!Loaded
<1>1. Host!Loaded' = Host!Loaded /\ NowOf(hosts)' = NowOf(hosts')
  BY NowUntouched DEF Host!PkHostname
<1>2. runs /\ plugins = Host!Loaded
  BY DEF HostInv, PluginsLoaded, Host!PkHostname
<1> PICK box : box = IF says # "yes" THEN toClient ELSE Host!SetEverywhere(calls[c].name).inbox
  OBVIOUS
<1> PICK hs : hs = IF says # "yes" THEN hosts ELSE Host!SetEverywhere(calls[c].name).hosts
  OBVIOUS
<1>3. /\ hosts' = hs
      /\ \E ok : toClient' = Append(box, Host!Reply(c, ok))
  BY DEF Host!PkHostname
<1>4. /\ hs \in [Host!Plugin -> HostNames]
      /\ IsSequence(box)
      /\ calls[Host!GetAll].state = "none" => box = toClient
      /\ ~unheard => Carried(box, hostname, known, NowOf(hs))
  <2>1. CASE says = "yes"
    <3> PICK name : name = calls[c].name
      OBVIOUS
    <3>1. name \in HostNames
      BY DEF HostInv, HostTypes, CallState
    <3>2. hs = Host!SetEverywhere(name).hosts /\ box = Host!SetEverywhere(name).inbox
      BY <2>1
    <3> QED
      BY <1>2, <3>1, <3>2, EverywhereTold
  <2>2. CASE says # "yes"
    BY <2>2 DEF HostInv, HostTypes, LastToldIsNow
  <2> QED
    BY <2>1, <2>2
<1> PICK reply : toClient' = Append(box, reply) /\ ~Tells(reply)
  BY <1>3, RepliesAreSilent
<1>5. HostTypes'
  <2>1. IsSequence(toClient')
    BY <1>4, Appended
  <2> QED
    BY <1>3, <1>4, <2>1 DEF HostInv, HostTypes, Host!PkHostname, Host!clientVars
<1>6. PluginsLoaded'
  BY <1>1 DEF HostInv, PluginsLoaded, Host!PkHostname
<1>7. NotYetTold'
  <2>1. ASSUME calls[Host!GetAll].state = "none"
        PROVE  Silent(toClient')
    BY <1>4, <2>1, SilentAppend DEF HostInv, NotYetTold
  <2> QED
    BY <2>1 DEF HostInv, NotYetTold, Host!PkHostname, Host!clientVars
<1>8. LastToldIsNow'
  <2>1. ASSUME ~unheard
        PROVE  Carried(toClient', hostname, known, NowOf(hs))
    BY <1>4, <2>1, OneMore
  <2> QED
    BY <1>1, <1>3, <2>1 DEF LastToldIsNow, Host!PkHostname, Host!clientVars
<1> QED
  BY <1>5, <1>6, <1>7, <1>8 DEF HostInv

(* A call of the client: the daemon gets it, or the bus answers. *)
LEMMA HostCalled ==
    ASSUME HostInv, NEW c \in {Host!GetAll} \union Host!Call, NEW name \in HostNames,
           Host!Send(c, name),
           c # Host!GetAll => calls[Host!GetAll].state # "none",
           UNCHANGED <<Host!pluginVars, Host!daemonVars, hostname, canModify, edits, exits,
                       known, unheard>>
    PROVE  HostInv'
<1> HIDE DEF Host!Loaded
<1>1. Host!Loaded' = Host!Loaded /\ NowOf(hosts)' = NowOf(hosts)
  BY NowUntouched DEF Host!pluginVars
<1>2. /\ calls' \in [{Host!GetAll} \union Host!Call -> CallState]
      /\ calls'[Host!GetAll].state # "none"
  <2>1. calls' = [calls EXCEPT ![c] = [name |-> name, state |-> "sent"]]
    BY DEF Host!Send
  <2>2. [name |-> name, state |-> "sent"] \in CallState
    BY DEF CallState
  <2>3. calls \in [{Host!GetAll} \union Host!Call -> CallState]
    BY DEF HostInv, HostTypes
  <2>4. calls' \in [{Host!GetAll} \union Host!Call -> CallState]
    BY <2>1, <2>2, <2>3
  <2>5. CASE c = Host!GetAll
    BY <2>1, <2>3, <2>4, <2>5
  <2>6. CASE c # Host!GetAll
    BY <2>1, <2>3, <2>4, <2>6
  <2> QED
    BY <2>4, <2>5, <2>6
<1> PICK errors : errors = Host!Errors({c})
  OBVIOUS
<1>3. IsSequence(errors) /\ Silent(errors)
  BY FS_Singleton, ErrorsAreSilent
<1>4. \/ toClient' = toClient /\ runs /\ toDaemon' = Append(toDaemon, c)
      \/ toClient' = toClient \o errors /\ ~runs /\ toDaemon' = toDaemon
  BY DEF HostInv, HostTypes, Host!Send
<1>5. toDaemon' \in Seq({Host!GetAll} \union Host!Call)
  BY <1>4, AppendProperties DEF HostInv, HostTypes
<1>6. HostTypes'
  <2>1. IsSequence(toClient')
    BY <1>3, <1>4, Concatenated DEF HostInv, HostTypes
  <2> QED
    BY <1>2, <1>5, <2>1 DEF HostInv, HostTypes, Host!pluginVars, Host!daemonVars
<1>7. PluginsLoaded'
  BY <1>1, <1>4 DEF HostInv, PluginsLoaded, Host!daemonVars
<1>8. NotYetTold'
  BY <1>2 DEF NotYetTold
<1>9. LastToldIsNow'
  <2>1. ASSUME ~unheard
        PROVE  Carried(toClient', hostname, known, NowOf(hosts))
    BY <1>3, <1>4, <2>1, SilentMore DEF HostInv, HostTypes, LastToldIsNow
  <2> QED
    BY <1>1, <2>1 DEF LastToldIsNow
<1> QED
  BY <1>6, <1>7, <1>8, <1>9 DEF HostInv

(* A message that the client takes *)
LEMMA HostTold ==
    ASSUME HostInv, Host!Dispatch
    PROVE  HostInv'
<1> HIDE DEF Host!Loaded
<1>1. Host!Loaded' = Host!Loaded /\ NowOf(hosts)' = NowOf(hosts)
  BY NowUntouched
  DEF Host!Dispatch, Host!HandlePropertiesChanged, Host!HandleGetAll, Host!HandleReply,
      Host!pluginVars
<1> PICK box : box = toClient
  OBVIOUS
<1> PICK m : m = Head(box)
  OBVIOUS
<1>2. IsSequence(box) /\ box # <<>> /\ toClient' = Tail(box)
  BY DEF HostInv, HostTypes, Host!Dispatch, Host!HandlePropertiesChanged, Host!HandleGetAll,
         Host!HandleReply, Host!Receive
<1>3. UNCHANGED <<config, canHost, hosts, runs, plugins, checks, toDaemon, unheard>>
  BY DEF Host!Dispatch, Host!HandlePropertiesChanged, Host!HandleGetAll, Host!HandleReply,
         Host!pluginVars, Host!daemonVars
<1>4. IF Tells(m) THEN hostname' = m.hostname /\ known' = TRUE
      ELSE hostname' = hostname /\ known' = known
  BY DEF Host!Dispatch, Host!HandlePropertiesChanged, Host!HandleGetAll, Host!HandleReply,
         Host!Receive, Tells
<1>5. \/ calls' = calls
      \/ \E c : calls' = [calls EXCEPT ![c].state = "done"]
  BY DEF Host!Dispatch, Host!HandlePropertiesChanged, Host!HandleGetAll, Host!HandleReply,
         Host!Done
<1>6. /\ calls' \in [{Host!GetAll} \union Host!Call -> CallState]
      /\ calls'[Host!GetAll].state = "none" => calls[Host!GetAll].state = "none"
  <2>1. calls \in [{Host!GetAll} \union Host!Call -> CallState]
    BY DEF HostInv, HostTypes
  <2>2. ASSUME NEW c, calls' = [calls EXCEPT ![c].state = "done"]
        PROVE  /\ calls' \in [{Host!GetAll} \union Host!Call -> CallState]
               /\ calls'[Host!GetAll].state = "none" => calls[Host!GetAll].state = "none"
    <3>1. CASE c \in {Host!GetAll} \union Host!Call
      BY <2>1, <2>2, <3>1 DEF CallState
    <3>2. CASE c \notin {Host!GetAll} \union Host!Call
      BY <2>1, <2>2, <3>2
    <3> QED
      BY <3>1, <3>2
  <2> QED
    BY <1>5, <2>1, <2>2
<1>7. HostTypes'
  <2>1. IsSequence(toClient')
    BY <1>2, TailIsSequence
  <2> QED
    BY <1>3, <1>6, <2>1 DEF HostInv, HostTypes
<1>8. PluginsLoaded'
  BY <1>1, <1>3 DEF HostInv, PluginsLoaded
<1>9. NotYetTold'
  <2> SUFFICES ASSUME calls[Host!GetAll].state = "none"
               PROVE  /\ ~known'
                      /\ Silent(toClient')
                      /\ \A i \in DOMAIN toDaemon : toDaemon[i] # Host!GetAll
    BY <1>3, <1>6 DEF NotYetTold
  <2>1. /\ ~known /\ Silent(box)
        /\ \A i \in DOMAIN toDaemon : toDaemon[i] # Host!GetAll
    BY DEF HostInv, NotYetTold
  <2>2. ~Tells(m) /\ Silent(Tail(box))
    <3> PICK line : line = Tail(box)
      OBVIOUS
    <3>1. /\ 1 \in DOMAIN box /\ m = box[1]
          /\ \A i \in DOMAIN line : i + 1 \in DOMAIN box /\ line[i] = box[i + 1]
      BY <1>2, TailIsSequence, SequenceDomain
    <3> QED
      BY <2>1, <3>1 DEF Silent
  <2> QED
    BY <1>2, <1>4, <2>1, <2>2
<1>10. LastToldIsNow'
  <2>1. ASSUME ~unheard
        PROVE  Carried(toClient', hostname', known', NowOf(hosts))
    <3>1. Carried(box, hostname, known, NowOf(hosts))
      BY <2>1 DEF HostInv, LastToldIsNow
    <3>2. IF Tells(m) THEN Carried(Tail(box), m.hostname, TRUE, NowOf(hosts))
          ELSE Carried(Tail(box), hostname, known, NowOf(hosts))
      BY <1>2, <3>1, OneTaken
    <3> QED
      BY <1>2, <1>4, <3>2
  <2> QED
    BY <1>1, <1>3, <2>1 DEF LastToldIsNow
<1> QED
  BY <1>7, <1>8, <1>9, <1>10 DEF HostInv

LEMMA HostInvStep == HostInv /\ [MCNext]_mirrorVars => HostInv'
<1> SUFFICES ASSUME HostInv, [MCNext]_mirrorVars PROVE HostInv'
  OBVIOUS
<1> USE DEF HostNames
<1>1. CASE UNCHANGED hostVars
  <2>1. /\ config' = config /\ canHost' = canHost /\ hosts' = hosts /\ runs' = runs
        /\ plugins' = plugins /\ checks' = checks /\ toDaemon' = toDaemon
        /\ toClient' = toClient /\ hostname' = hostname /\ calls' = calls
        /\ known' = known /\ unheard' = unheard
    BY <1>1 DEF hostVars
  <2> HIDE DEF Host!Loaded
  <2>2. Host!Loaded' = Host!Loaded /\ NowOf(hosts)' = NowOf(hosts)
    BY <2>1, NowUntouched
  <2>3. HostTypes' /\ NotYetTold'
    BY <2>1 DEF HostInv, HostTypes, NotYetTold, Silent
  <2>4. PluginsLoaded'
    BY <2>1, <2>2 DEF HostInv, PluginsLoaded
  <2>5. LastToldIsNow'
    BY <2>1, <2>2 DEF HostInv, LastToldIsNow
  <2> QED
    BY <2>3, <2>4, <2>5 DEF HostInv
<1>2. ASSUME NEW p \in Host!Plugin, NEW name \in HostName \union {""}, Host!PluginHostname(p, name)
      PROVE  HostInv'
  BY <1>2, HostEdited
<1>3. ASSUME NEW c \in Host!Call, NEW says \in {"yes", "no", "error"}, Host!PkHostname(c, says)
      PROVE  HostInv'
  BY <1>3, HostAnswered
<1>4. CASE Host!ClientStarts
  <2>1. /\ Host!Send(Host!GetAll, Host!NULL)
        /\ UNCHANGED <<Host!pluginVars, Host!daemonVars, hostname, canModify, edits, exits,
                       known, unheard>>
    BY <1>4 DEF Host!ClientStarts
  <2> QED
    BY <2>1, HostCalled
<1>5. ASSUME NEW c \in Host!Call, NEW name \in HostName \union {""}, Host!SaveHostname(c, name)
      PROVE  HostInv'
  <2>1. /\ Host!Send(c, name)
        /\ calls[Host!GetAll].state # "none"
        /\ UNCHANGED <<Host!pluginVars, Host!daemonVars, hostname, canModify, edits, exits,
                       known, unheard>>
    BY <1>5 DEF Host!SaveHostname
  <2> QED
    BY <2>1, HostCalled
<1>6. CASE Host!Dispatch
  BY <1>6, HostTold
<1>7. Host!Next \/ UNCHANGED hostVars
  BY DEF MCNext, ButtonsDo, HostDoes, AppletDoes, mirrorVars
<1> QED
  BY <1>1, <1>2, <1>3, <1>4, <1>5, <1>6, <1>7, HostStarts, HostExits, HostHandlesRequest
  DEF Host!Next, Host!Administrator, Host!Daemon, Host!PolkitAnswers, Host!Client

(* The hostname that a client shows is the one of the daemon's plugins once *)
(* nothing is on its way, whatever order changes of several plugins,        *)
(* SaveHostname, the first GetAll and restarts of the daemon came in        *)
(* (bm-sysconfig-settings.c, bm-remote-settings-system.c).                  *)
THEOREM HostnameAlwaysFollows == MCSpec => []HostnameFollows
<1>1. HostInv => HostnameFollows
  <2> SUFFICES ASSUME HostInv, toClient = <<>>, runs, known, ~unheard
               PROVE  hostname = Host!HostnameOf(hosts)
    BY DEF HostnameFollows, Host!HostnameFollows, Host!Quiet
  <2> HIDE DEF Host!Loaded
  <2>1. Host!HostnameOf(hosts) = NowOf(hosts)
    BY NowIsHostnameOf DEF HostInv, PluginsLoaded
  <2>2. Silent(toClient)
    <3>1. DOMAIN <<>> = {}
      OBVIOUS
    <3> QED
      BY <3>1 DEF Silent
  <2> QED
    BY <2>1, <2>2 DEF HostInv, LastToldIsNow, Carried
<1>2. MCInit => HostInv
  BY HostInvInit DEF MCInit
<1> QED
  BY <1>1, <1>2, HostInvStep, PTL DEF MCSpec

-----------------------------------------------------------------------------
(* GConfSettings: the list of the applet.  What the notifications on their  *)
(* way tell of a directory leads from what is cached to what GConf has.     *)

ToldOf(line, d, held, now) ==
    /\ (\A i \in DOMAIN line : line[i].dir # d) => held = now
    /\ \A i \in DOMAIN line :
          line[i].dir = d /\ (\A j \in DOMAIN line : line[j].dir = d => j <= i)
              => line[i].content = now

(* The list has one connection of the directory at most. *)
Single(l, d) == \A i, j \in DOMAIN l : l[i].dir = d /\ l[j].dir = d => i = j

(* What the list has of the directory is in step with its content. *)
Agrees(l, d, now, gone_) ==
    /\ now > 0 => (\E i \in DOMAIN l : l[i].dir = d) \/ d \in gone_
    /\ \A i \in DOMAIN l : l[i].dir = d => l[i].apart \/ l[i].content = now

LEMMA NoteSent ==
    ASSUME NEW line \in Seq(Applet!NoteSet), NEW m \in Applet!NoteSet, NEW d, NEW held, NEW now,
           IF m.dir = d THEN m.content = now ELSE ToldOf(line, d, held, now)
    PROVE  ToldOf(Append(line, m), d, held, now)
<1> PICK more : more = Append(line, m)
  OBVIOUS
<1>1. /\ Len(line) \in Nat /\ DOMAIN line = 1 .. Len(line)
      /\ DOMAIN more = 1 .. Len(line) + 1
      /\ \A i \in 1 .. Len(line) : more[i] = line[i]
      /\ more[Len(line) + 1] = m
  BY LenProperties, AppendProperties
<1>2. CASE m.dir = d
  <2>1. ASSUME NEW i \in DOMAIN more, Len(line) + 1 <= i
        PROVE  i = Len(line) + 1
    BY <1>1, <2>1
  <2>2. Len(line) + 1 \in DOMAIN more
    BY <1>1
  <2> QED
    BY <1>1, <1>2, <2>1, <2>2 DEF ToldOf
<1>3. CASE m.dir # d
  <2>1. \A i \in DOMAIN more : more[i].dir = d => i \in DOMAIN line
    BY <1>1, <1>3
  <2>2. \A i \in DOMAIN line : i \in DOMAIN more /\ more[i] = line[i]
    BY <1>1
  <2>3. ASSUME NEW i \in DOMAIN more, more[i].dir = d,
               \A j \in DOMAIN more : more[j].dir = d => j <= i
        PROVE  more[i].content = now
    BY <1>3, <2>1, <2>2, <2>3 DEF ToldOf
  <2> QED
    BY <1>3, <2>2, <2>3 DEF ToldOf
<1> QED
  BY <1>2, <1>3

LEMMA NoteTaken ==
    ASSUME NEW line \in Seq(Applet!NoteSet), line # <<>>, NEW d, NEW held, NEW now,
           ToldOf(line, d, held, now)
    PROVE  /\ Tail(line) \in Seq(Applet!NoteSet) /\ Head(line) \in Applet!NoteSet
           /\ ToldOf(Tail(line), d, IF Head(line).dir = d THEN Head(line).content ELSE held, now)
           /\ (\A i \in DOMAIN Tail(line) : Tail(line)[i].dir # d) /\ Head(line).dir # d
                 => \A i \in DOMAIN line : line[i].dir # d
<1> PICK rest : rest = Tail(line)
  OBVIOUS
<1> PICK first : first = Head(line)
  OBVIOUS
<1>1. /\ Len(line) \in Nat \ {0} /\ DOMAIN line = 1 .. Len(line)
      /\ DOMAIN rest = 1 .. Len(line) - 1
      /\ \A i \in 1 .. Len(line) - 1 : rest[i] = line[i + 1]
      /\ first = line[1]
  <2>1. IsSequence(line)
    BY InSeqIsSequence
  <2> QED
    BY <2>1, SequenceDomain, TailIsSequence
<1>2. rest \in Seq(Applet!NoteSet) /\ first \in Applet!NoteSet
  BY HeadTailProperties
<1>3. \A i \in DOMAIN rest : i \in Nat /\ i + 1 \in DOMAIN line /\ rest[i] = line[i + 1]
  BY <1>1
<1>4. \A j \in DOMAIN line : j = 1 \/ (j \in Nat /\ j - 1 \in DOMAIN rest /\ rest[j - 1] = line[j])
  BY <1>1
<1>5. ASSUME NEW i \in DOMAIN rest, rest[i].dir = d,
             \A j \in DOMAIN rest : rest[j].dir = d => j <= i
      PROVE  rest[i].content = now
  <2>1. i \in Nat /\ i + 1 \in DOMAIN line /\ line[i + 1].dir = d /\ line[i + 1] = rest[i]
    BY <1>3, <1>5
  <2>2. ASSUME NEW j \in DOMAIN line, line[j].dir = d
        PROVE  j <= i + 1
    <3>1. CASE j = 1
      BY <2>1, <3>1
    <3>2. CASE j # 1
      <4>1. j \in Nat /\ j - 1 \in DOMAIN rest /\ rest[j - 1].dir = d
        BY <1>4, <2>2, <3>2
      <4>2. j - 1 <= i
        BY <1>5, <4>1
      <4> QED
        BY <2>1, <4>1, <4>2
    <3> QED
      BY <3>1, <3>2
  <2> QED
    BY <2>1, <2>2 DEF ToldOf
<1>6. (\A i \in DOMAIN rest : rest[i].dir # d) /\ first.dir # d
          => \A i \in DOMAIN line : line[i].dir # d
  BY <1>1, <1>4
<1>7. ASSUME \A i \in DOMAIN rest : rest[i].dir # d, first.dir = d
      PROVE  first.content = now
  <2>1. ASSUME NEW j \in DOMAIN line, line[j].dir = d
        PROVE  j <= 1
    <3>1. j = 1
      BY <1>4, <1>7, <2>1
    <3> QED
      BY <3>1
  <2>2. 1 \in DOMAIN line
    BY <1>1
  <2> QED
    BY <1>1, <1>7, <2>1, <2>2 DEF ToldOf
<1>8. ToldOf(rest, d, IF first.dir = d THEN first.content ELSE held, now)
  BY <1>5, <1>6, <1>7 DEF ToldOf
<1> QED
  BY <1>2, <1>6, <1>8

LEMMA Joined ==
    ASSUME NEW S, NEW front \in Seq(S), NEW back \in Seq(S), NEW r, r = front \o back
    PROVE  /\ r \in Seq(S)
           /\ Len(r) = Len(front) + Len(back)
           /\ \A i \in 1 .. Len(front) + Len(back) :
                 r[i] = IF i <= Len(front) THEN front[i] ELSE back[i - Len(front)]
BY ConcatProperties

LEMMA ListWithout ==
    ASSUME NEW S, NEW l \in Seq(S), NEW k \in DOMAIN l, NEW r, r = Applet!RemoveAt(l, k)
    PROVE  /\ r \in Seq(S)
           /\ DOMAIN l = 1 .. Len(l) /\ Len(l) \in Nat
           /\ DOMAIN r = 1 .. Len(l) - 1
           /\ \A i \in DOMAIN r : r[i] = IF i < k THEN l[i] ELSE l[i + 1]
<1> DEFINE front == SubSeq(l, 1, k - 1)
           back == SubSeq(l, k + 1, Len(l))
<1>0. Len(l) \in Nat /\ k \in 1 .. Len(l) /\ DOMAIN l = 1 .. Len(l)
  BY LenProperties
<1>1. front \in Seq(S) /\ Len(front) = k - 1 /\ \A i \in 1 .. k - 1 : front[i] = l[i]
  BY <1>0
<1>2. /\ back \in Seq(S)
      /\ Len(back) = Len(l) - k
      /\ \A i \in 1 .. Len(l) - k : back[i] = l[k + i]
  BY <1>0
<1>3. r = front \o back
  BY DEF Applet!RemoveAt
<1> HIDE DEF front, back
<1>4. /\ r \in Seq(S)
      /\ Len(r) = Len(front) + Len(back)
      /\ \A j \in 1 .. Len(front) + Len(back) :
            r[j] = IF j <= Len(front) THEN front[j] ELSE back[j - Len(front)]
  <2>1. front \in Seq(S) /\ back \in Seq(S)
    BY <1>1, <1>2
  <2> QED
    BY <1>3, <2>1, Joined
<1>5. DOMAIN r = 1 .. Len(l) - 1
  BY <1>0, <1>1, <1>2, <1>4, LenProperties
<1>6. ASSUME NEW i \in 1 .. Len(l) - 1
      PROVE  r[i] = IF i < k THEN l[i] ELSE l[i + 1]
  <2>1. r[i] = IF i <= k - 1 THEN front[i] ELSE back[i - (k - 1)]
    BY <1>0, <1>1, <1>2, <1>4
  <2>2. CASE i < k
    BY <1>0, <1>1, <2>1, <2>2
  <2>3. CASE ~(i < k)
    <3>1. i - (k - 1) \in 1 .. Len(l) - k /\ k + (i - (k - 1)) = i + 1 /\ ~(i <= k - 1)
      BY <1>0, <2>3
    <3> QED
      BY <1>2, <2>1, <2>3, <3>1
  <2> QED
    BY <2>2, <2>3
<1> QED
  BY <1>0, <1>4, <1>5, <1>6

(* A connection is taken out of the list. *)
LEMMA ListRemoved ==
    ASSUME NEW l \in Seq(Applet!Connection), NEW k \in DOMAIN l, NEW r,
           r = Applet!RemoveAt(l, k)
    PROVE  /\ r \in Seq(Applet!Connection)
           /\ \A d : Single(l, d) => Single(r, d)
           /\ \A d, now, gone_ :
                 l[k].dir # d /\ Agrees(l, d, now, gone_) => Agrees(r, d, now, gone_)
           /\ \A d, now, gone_ :
                 Agrees(l, d, now, gone_) => Agrees(r, d, now, gone_ \union {l[k].dir})
           /\ \A d : Single(l, d) /\ l[k].dir = d => \A i \in DOMAIN r : r[i].dir # d
<1>1. /\ r \in Seq(Applet!Connection)
      /\ DOMAIN l = 1 .. Len(l) /\ Len(l) \in Nat
      /\ DOMAIN r = 1 .. Len(l) - 1
      /\ \A i \in DOMAIN r : r[i] = IF i < k THEN l[i] ELSE l[i + 1]
  BY ListWithout
<1> DEFINE from(i) == IF i < k THEN i ELSE i + 1
<1>2. \A i \in DOMAIN r : from(i) \in DOMAIN l /\ from(i) # k /\ r[i] = l[from(i)]
  BY <1>1
<1>3. \A i, j \in DOMAIN r : from(i) = from(j) => i = j
  BY <1>1
<1>4. ASSUME NEW j \in DOMAIN l, j # k
      PROVE  \E i \in DOMAIN r : r[i] = l[j]
  <2>1. CASE j < k
    <3>1. j \in DOMAIN r /\ r[j] = l[j]
      BY <1>1, <2>1
    <3> QED
      BY <3>1
  <2>2. CASE ~(j < k)
    <3>1. j - 1 \in DOMAIN r /\ ~(j - 1 < k) /\ j - 1 + 1 = j
      BY <1>1, <1>4, <2>2
    <3>2. r[j - 1] = l[j]
      BY <1>1, <3>1
    <3> QED
      BY <3>1, <3>2
  <2> QED
    BY <2>1, <2>2
<1> HIDE DEF from
<1>5. ASSUME NEW d, Single(l, d) PROVE Single(r, d)
  BY <1>2, <1>3, <1>5 DEF Single
<1>6. ASSUME NEW d, NEW now, NEW gone_, l[k].dir # d, Agrees(l, d, now, gone_)
      PROVE  Agrees(r, d, now, gone_)
  <2>1. (\E i \in DOMAIN l : l[i].dir = d) => \E i \in DOMAIN r : r[i].dir = d
    BY <1>4, <1>6
  <2>2. \A i \in DOMAIN r : r[i].dir = d => r[i].apart \/ r[i].content = now
    BY <1>2, <1>6 DEF Agrees
  <2> QED
    BY <1>6, <2>1, <2>2 DEF Agrees
<1>7. ASSUME NEW d, NEW now, NEW gone_, Agrees(l, d, now, gone_)
      PROVE  Agrees(r, d, now, gone_ \union {l[k].dir})
  <2>1. \A i \in DOMAIN r : r[i].dir = d => r[i].apart \/ r[i].content = now
    BY <1>2, <1>7 DEF Agrees
  <2>2. CASE l[k].dir = d
    BY <2>1, <2>2 DEF Agrees
  <2>3. CASE l[k].dir # d
    BY <1>6, <1>7, <2>3 DEF Agrees
  <2> QED
    BY <2>2, <2>3
<1>8. ASSUME NEW d, Single(l, d), l[k].dir = d, NEW i \in DOMAIN r
      PROVE  r[i].dir # d
  BY <1>2, <1>8 DEF Single
<1> QED
  BY <1>1, <1>5, <1>6, <1>7, <1>8

(* A connection is put in front of the list. *)
LEMMA ListPrepended ==
    ASSUME NEW l \in Seq(Applet!Connection), NEW x \in Applet!Connection, NEW r,
           r = Applet!Prepend(x, l)
    PROVE  /\ r \in Seq(Applet!Connection)
           /\ \A d : Single(l, d) /\ (x.dir = d => \A i \in DOMAIN l : l[i].dir # d)
                        => Single(r, d)
           /\ \A d, now, gone_ :
                 x.dir # d /\ Agrees(l, d, now, gone_) => Agrees(r, d, now, gone_)
           /\ \A d, now, gone_ :
                 /\ x.dir = d /\ (x.apart \/ x.content = now)
                 /\ \A i \in DOMAIN l : l[i].dir = d => l[i].apart \/ l[i].content = now
                 => Agrees(r, d, now, gone_)
<1> PICK one : one = <<x>>
  OBVIOUS
<1>1. one \in Seq(Applet!Connection) /\ Len(one) = 1 /\ one[1] = x
  OBVIOUS
<1>2. /\ r \in Seq(Applet!Connection)
      /\ DOMAIN l = 1 .. Len(l) /\ Len(l) \in Nat
      /\ DOMAIN r = 1 .. Len(l) + 1
      /\ r[1] = x
      /\ \A i \in 1 .. Len(l) : r[i + 1] = l[i]
  <2>1. r = one \o l
    BY DEF Applet!Prepend
  <2>2. /\ r \in Seq(Applet!Connection)
        /\ Len(r) = Len(one) + Len(l)
        /\ \A i \in 1 .. Len(one) + Len(l) :
              r[i] = IF i <= Len(one) THEN one[i] ELSE l[i - Len(one)]
    BY <1>1, <2>1, Joined
  <2>3. DOMAIN l = 1 .. Len(l) /\ Len(l) \in Nat
    BY LenProperties
  <2>4. DOMAIN r = 1 .. Len(l) + 1
    BY <1>1, <2>2, <2>3, LenProperties
  <2>5. \A i \in 1 .. Len(l) + 1 : r[i] = IF i <= 1 THEN one[i] ELSE l[i - 1]
    BY <1>1, <2>2, <2>3
  <2>6. r[1] = x
    BY <1>1, <2>3, <2>5
  <2>7. ASSUME NEW i \in 1 .. Len(l) PROVE r[i + 1] = l[i]
    <3>1. i + 1 \in 1 .. Len(l) + 1 /\ ~(i + 1 <= 1) /\ i + 1 - 1 = i
      BY <2>3
    <3> QED
      BY <2>5, <3>1
  <2> QED
    BY <2>2, <2>3, <2>4, <2>6, <2>7
<1>3. \A i \in DOMAIN r : i = 1 \/ (i - 1 \in DOMAIN l /\ r[i] = l[i - 1])
  <2>1. ASSUME NEW i \in DOMAIN r, i # 1
        PROVE  i - 1 \in DOMAIN l /\ r[i] = l[i - 1]
    <3>1. i - 1 \in 1 .. Len(l) /\ i - 1 + 1 = i
      BY <1>2, <2>1
    <3> QED
      BY <1>2, <3>1
  <2> QED
    BY <2>1
<1>4. \A i \in DOMAIN l : i + 1 \in DOMAIN r /\ r[i + 1] = l[i]
  BY <1>2
<1>5. ASSUME NEW d, Single(l, d), x.dir = d => \A i \in DOMAIN l : l[i].dir # d
      PROVE  Single(r, d)
  <2> SUFFICES ASSUME NEW i \in DOMAIN r, NEW j \in DOMAIN r, r[i].dir = d, r[j].dir = d
               PROVE  i = j
    BY DEF Single
  <2>1. CASE x.dir = d
    BY <1>3, <1>5, <2>1
  <2>2. CASE x.dir # d
    <3>1. i - 1 \in DOMAIN l /\ j - 1 \in DOMAIN l /\ l[i - 1].dir = d /\ l[j - 1].dir = d
      BY <1>2, <1>3, <2>2
    <3>2. i - 1 = j - 1
      BY <1>5, <3>1 DEF Single
    <3> QED
      BY <1>2, <3>2
  <2> QED
    BY <2>1, <2>2
<1>6. ASSUME NEW d, NEW now, NEW gone_, x.dir # d, Agrees(l, d, now, gone_)
      PROVE  Agrees(r, d, now, gone_)
  <2>1. (\E i \in DOMAIN l : l[i].dir = d) => \E i \in DOMAIN r : r[i].dir = d
    BY <1>4
  <2>2. \A i \in DOMAIN r : r[i].dir = d => r[i].apart \/ r[i].content = now
    BY <1>2, <1>3, <1>6 DEF Agrees
  <2> QED
    BY <1>6, <2>1, <2>2 DEF Agrees
<1>7. ASSUME NEW d, NEW now, NEW gone_, x.dir = d, x.apart \/ x.content = now,
             \A i \in DOMAIN l : l[i].dir = d => l[i].apart \/ l[i].content = now
      PROVE  Agrees(r, d, now, gone_)
  <2>1. 1 \in DOMAIN r /\ r[1].dir = d
    BY <1>2, <1>7
  <2>2. \A i \in DOMAIN r : r[i].dir = d => r[i].apart \/ r[i].content = now
    BY <1>2, <1>3, <1>7
  <2> QED
    BY <2>1, <2>2 DEF Agrees
<1> QED
  BY <1>2, <1>5, <1>6, <1>7

(* A connection of the list changes. *)
LEMMA ListReplaced ==
    ASSUME NEW l \in Seq(Applet!Connection), NEW k \in DOMAIN l, NEW x \in Applet!Connection,
           x.dir = l[k].dir, NEW r, r = [l EXCEPT ![k] = x]
    PROVE  /\ r \in Seq(Applet!Connection)
           /\ \A d : Single(l, d) => Single(r, d)
           /\ \A d, now, gone_ :
                 x.dir # d /\ Agrees(l, d, now, gone_) => Agrees(r, d, now, gone_)
           /\ \A d, now, gone_ :
                 x.apart /\ Agrees(l, d, now, gone_) => Agrees(r, d, now, gone_)
           /\ \A d, now, gone_ :
                 Single(l, d) /\ x.dir = d /\ x.content = now => Agrees(r, d, now, gone_)
<1>1. r \in Seq(Applet!Connection)
  BY ExceptSeq
<1>2. /\ DOMAIN r = DOMAIN l
      /\ r[k] = x
      /\ \A i \in DOMAIN l : i # k => r[i] = l[i]
  OBVIOUS
<1>3. \A i \in DOMAIN l : r[i].dir = l[i].dir
  BY <1>2
<1>4. ASSUME NEW d, Single(l, d) PROVE Single(r, d)
  BY <1>2, <1>3, <1>4 DEF Single
<1>5. ASSUME NEW d, NEW now, NEW gone_, x.dir # d, Agrees(l, d, now, gone_)
      PROVE  Agrees(r, d, now, gone_)
  BY <1>2, <1>3, <1>5 DEF Agrees
<1>6. ASSUME NEW d, NEW now, NEW gone_, x.apart, Agrees(l, d, now, gone_)
      PROVE  Agrees(r, d, now, gone_)
  BY <1>2, <1>3, <1>6 DEF Agrees
<1>7. ASSUME NEW d, NEW now, NEW gone_, Single(l, d), x.dir = d, x.content = now
      PROVE  Agrees(r, d, now, gone_)
  BY <1>2, <1>3, <1>7 DEF Agrees, Single
<1> QED
  BY <1>1, <1>4, <1>5, <1>6, <1>7

LEMMA FirstIsThere ==
    ASSUME NEW d, list \in Seq(Applet!Connection), Applet!At(d) # {}
    PROVE  Applet!First(d) \in DOMAIN list /\ list[Applet!First(d)].dir = d
<1> PICK S : S = Applet!At(d)
  OBVIOUS
<1>1. S \subseteq Nat /\ S # {}
  <2>1. DOMAIN list = 1 .. Len(list)
    BY LenProperties
  <2> QED
    BY <2>1 DEF Applet!At
<1>2. PICK m \in S : \A k \in S : ~(<<k, m>> \in OpToRel(<, Nat))
  BY <1>1, WFMin, NatLessThanWellFounded
<1>3. ASSUME NEW k \in S PROVE m <= k
  <2>1. k \in Nat /\ m \in Nat
    BY <1>1
  <2>2. ~(k < m)
    BY <1>2, <2>1 DEF OpToRel
  <2> QED
    BY <2>1, <2>2
<1>4. Applet!First(d) \in S
  BY <1>3 DEF Applet!First
<1> QED
  BY <1>4 DEF Applet!At

(* The list that read_connections makes of the directories D *)
Valids(D, read) == {Applet!Loaded(d, read[d]) : d \in D}

IsRead(r, D, read) ==
    \E l \in Applet!SetToSeqs(Valids(D, read)) : r = Applet!Reverse(Applet!Reverse(l) \o <<>>)

LEMMA ListRead ==
    ASSUME NEW r, NEW D, NEW read, IsRead(r, D, read), D \subseteq Applet!Dir,
           \A d \in D : read[d] \in 1 .. MaxVersion
    PROVE  /\ r \in Seq(Applet!Connection)
           /\ \A d \in Applet!Dir : Single(r, d)
           /\ \A d \in D : \E i \in DOMAIN r : r[i].dir = d
           /\ \A i \in DOMAIN r : r[i].dir \in D /\ r[i].content = read[r[i].dir]
<1>S. PICK S : S = Valids(D, read)
  OBVIOUS
<1> USE <1>S
<1>r. PICK l \in Applet!SetToSeqs(S) : r = Applet!Reverse(Applet!Reverse(l) \o <<>>)
  BY DEF IsRead
<1> USE <1>r
<1>1. IsFiniteSet(S)
  <2> DEFINE f == [d \in D |-> Applet!Loaded(d, read[d])]
  <2>1. f \in Surjection(D, S)
    BY DEF Surjection, Valids
  <2>2. IsFiniteSet(D)
    <3>1. IsFiniteSet(Applet!Dir)
      BY MirrorsAssumption, FS_Interval DEF Applet!Dir
    <3> QED
      BY <3>1, FS_Subset
  <2> QED
    BY <2>1, <2>2, FS_Surjection
<1>2. \A d \in D : /\ Applet!Loaded(d, read[d]).dir = d
                   /\ Applet!Loaded(d, read[d]).content = read[d]
                   /\ Applet!Loaded(d, read[d]) \in Applet!Connection
  BY DEF Applet!Loaded, Applet!Connection
<1>3. \A x \in S : x \in Applet!Connection /\ x.dir \in D /\ x.content = read[x.dir]
  BY <1>2 DEF Valids
<1>4. \A x, y \in S : x.dir = y.dir => x = y
  BY <1>2 DEF Valids
<1>5. \A d \in D : \E x \in S : x.dir = d
  BY <1>2 DEF Valids
<1>6. l \in Applet!SetToSeqs(S)
  OBVIOUS
<1> HIDE <1>S
<1> PICK n : n = Cardinality(S)
  OBVIOUS
<1>7. n \in Nat /\ Applet!Cardinality(S) = n
  BY <1>1, FS_CardinalityType DEF Applet!Cardinality, Cardinality
<1>8. l \in [1 .. n -> S] /\ \A i, j \in 1 .. n : i # j => l[i] # l[j]
  BY <1>6, <1>7 DEF Applet!SetToSeqs
<1>9. \A x \in S : \E i \in 1 .. n : l[i] = x
  <2>1. l \in Injection(1 .. n, S)
    BY <1>8 DEF Injection, IsInjective
  <2>2. Cardinality(1 .. n) = n
    BY <1>7, FS_Interval
  <2>3. l \in Surjection(1 .. n, S)
    BY <1>1, <2>1, <2>2, FS_Injection
  <2> QED
    BY <2>3 DEF Surjection
<1>10. l \in Seq(S) /\ Len(l) = n /\ DOMAIN l = 1 .. n
  <2>1. l \in Seq(S)
    BY <1>7, <1>8, SeqDef
  <2> QED
    BY <1>7, <1>8, <2>1, LenProperties
<1>11. r = l
  <2> PICK back : back = Applet!Reverse(l)
    OBVIOUS
  <2>1. back = [i \in 1 .. n |-> l[n - i + 1]]
    BY <1>10 DEF Applet!Reverse
  <2>2. back \in [1 .. n -> S]
    <3>1. \A i \in 1 .. n : n - i + 1 \in 1 .. n
      BY <1>7
    <3> QED
      BY <1>8, <2>1, <3>1
  <2>3. back \in Seq(S)
    BY <1>7, <2>2, SeqDef
  <2>4. Len(back) = n
    BY <1>7, <2>2, <2>3, LenProperties
  <2>5. back \o <<>> = back
    BY <2>3, ConcatEmptySeq
  <2>6. r = [i \in 1 .. n |-> back[n - i + 1]]
    BY <2>4, <2>5 DEF Applet!Reverse
  <2>7. ASSUME NEW i \in 1 .. n PROVE r[i] = l[i]
    <3>1. n - i + 1 \in 1 .. n /\ n - (n - i + 1) + 1 = i
      BY <1>7
    <3>2. r[i] = back[n - i + 1]
      BY <2>6
    <3>3. back[n - i + 1] = l[n - (n - i + 1) + 1]
      BY <2>1, <3>1
    <3> QED
      BY <3>1, <3>2, <3>3
  <2>8. DOMAIN r = 1 .. n /\ r = [i \in 1 .. n |-> r[i]]
    BY <2>6
  <2>9. l = [i \in 1 .. n |-> l[i]]
    BY <1>8
  <2>10. [i \in 1 .. n |-> r[i]] = [i \in 1 .. n |-> l[i]]
    BY <2>7
  <2> QED
    BY <2>8, <2>9, <2>10
<1> HIDE <1>r
<1>12. r \in Seq(Applet!Connection)
  <2>1. l \in [1 .. n -> Applet!Connection]
    BY <1>3, <1>8
  <2> QED
    BY <1>7, <1>11, <2>1, SeqDef
<1>13. ASSUME NEW d \in Applet!Dir PROVE Single(r, d)
  BY <1>4, <1>8, <1>10, <1>11 DEF Single
<1>14. ASSUME NEW d \in D PROVE \E i \in DOMAIN r : r[i].dir = d
  BY <1>5, <1>9, <1>10, <1>11
<1>15. ASSUME NEW i \in DOMAIN r PROVE r[i].dir \in D /\ r[i].content = read[r[i].dir]
  BY <1>3, <1>8, <1>10, <1>11
<1> QED
  BY <1>12, <1>13, <1>14, <1>15

-----------------------------------------------------------------------------
(* The invariant *)

(* The notifications on their way lead from the cache to the database. *)
NotesTell == \A d \in Applet!Dir : ToldOf(notes, d, cache[d], gconf[d])

NothingBeforeRead == reading => list = <<>> /\ deleted = {} /\ crowded = {}

OneEach == \A d \in Applet!Dir \ crowded : Single(list, d)

SettledAgrees ==
    \A d \in Applet!Dir \ crowded : Applet!Settled(d) => Agrees(list, d, gconf[d], deleted)

AppletInv ==
    Applet!TypeOK /\ NotesTell /\ NothingBeforeRead /\ OneEach /\ SettledAgrees

LEMMA AppletInvInit == Applet!Init => AppletInv
<1> SUFFICES ASSUME Applet!Init PROVE AppletInv
  OBVIOUS
<1> USE DEF Applet!Init
<1>1. Applet!TypeOK
  <2>1. gconf \in [Applet!Dir -> Applet!Content]
    BY MirrorsAssumption DEF Applet!Content
  <2>2. notes \in Seq(Applet!NoteSet) /\ list \in Seq(Applet!Connection)
    BY EmptySeq
  <2> QED
    BY <2>1, <2>2, MirrorsAssumption DEF Applet!TypeOK
<1>2. NotesTell
  <2>1. DOMAIN <<>> = {}
    OBVIOUS
  <2>2. notes = <<>> /\ cache = gconf
    OBVIOUS
  <2> QED
    BY <2>1, <2>2 DEF NotesTell, ToldOf
<1>3. OneEach
  <2>1. DOMAIN <<>> = {}
    OBVIOUS
  <2>2. list = <<>>
    OBVIOUS
  <2> QED
    BY <2>1, <2>2 DEF OneEach, Single
<1> QED
  BY <1>1, <1>2, <1>3 DEF AppletInv, NothingBeforeRead, SettledAgrees, Applet!Settled

(* One lemma for each action *)

LEMMA AppletOtherWrites ==
    ASSUME AppletInv, NEW e \in Applet!Dir, Applet!OtherWrites(e)
    PROVE  AppletInv'
<1> PICK now : now = gconf'[e]
  OBVIOUS
<1>1. /\ gconf' \in [Applet!Dir -> Applet!Content] /\ version' \in 1 .. MaxVersion
      /\ \A d \in Applet!Dir : d # e => gconf'[d] = gconf[d]
  <2>1. PICK c \in Applet!Content : gconf' = [gconf EXCEPT ![e] = c] /\ version' \in 1 .. MaxVersion
    BY MirrorsAssumption
    DEF AppletInv, Applet!TypeOK, Applet!OtherWrites, Applet!NewVersion, Applet!Content
  <2> QED
    BY <2>1 DEF AppletInv, Applet!TypeOK
<1> PICK m : m = Applet!Note(e, now)
  OBVIOUS
<1>2. m \in Applet!NoteSet /\ m.dir = e /\ m.content = now
  <2>1. now \in Applet!Content
    BY <1>1
  <2> QED
    BY <2>1 DEF Applet!Note, Applet!NoteSet
<1>3. /\ notes' = Append(notes, m)
      /\ UNCHANGED <<cache, starts, reading, list, pending, deleted, crowded>>
  BY DEF Applet!OtherWrites
<1>4. notes \in Seq(Applet!NoteSet)
  BY DEF AppletInv, Applet!TypeOK
<1>5. Applet!TypeOK'
  <2>1. notes' \in Seq(Applet!NoteSet)
    BY <1>2, <1>3, <1>4, AppendProperties
  <2> QED
    BY <1>1, <1>3, <2>1 DEF AppletInv, Applet!TypeOK
<1>6. NotesTell'
  <2> SUFFICES ASSUME NEW d \in Applet!Dir
               PROVE  ToldOf(notes', d, cache[d], gconf'[d])
    BY <1>3 DEF NotesTell
  <2>1. ToldOf(notes, d, cache[d], gconf[d])
    BY DEF AppletInv, NotesTell
  <2>2. IF m.dir = d THEN m.content = gconf'[d] ELSE ToldOf(notes, d, cache[d], gconf'[d])
    BY <1>1, <1>2, <2>1
  <2> QED
    BY <1>2, <1>3, <1>4, <2>2, NoteSent
<1>7. NothingBeforeRead' /\ OneEach'
  BY <1>3 DEF AppletInv, NothingBeforeRead, OneEach, Single
<1>8. SettledAgrees'
  <2> SUFFICES ASSUME NEW d \in Applet!Dir \ crowded, Applet!Settled(d)'
               PROVE  Agrees(list, d, gconf'[d], deleted)
    BY <1>3 DEF SettledAgrees, Agrees
  <2> PICK more : more = notes'
    OBVIOUS
  <2>1. /\ Len(notes) \in Nat /\ DOMAIN notes = 1 .. Len(notes)
        /\ DOMAIN more = 1 .. Len(notes) + 1
        /\ \A i \in 1 .. Len(notes) : more[i] = notes[i]
        /\ more[Len(notes) + 1] = m
    BY <1>2, <1>3, <1>4, LenProperties, AppendProperties
  <2>2. \A i \in DOMAIN more : more[i].dir # d
    BY DEF Applet!Settled
  <2>3. d # e
    BY <1>2, <2>1, <2>2
  <2>4. \A i \in DOMAIN notes : notes[i].dir # d
    BY <2>1, <2>2
  <2>5. Applet!Settled(d)
    BY <1>3, <2>4 DEF Applet!Settled
  <2> QED
    BY <1>1, <2>3, <2>5 DEF AppletInv, SettledAgrees
<1> QED
  BY <1>5, <1>6, <1>7, <1>8 DEF AppletInv

LEMMA AppletReads ==
    ASSUME AppletInv, Applet!ReadConnections
    PROVE  AppletInv'
<1>1. /\ reading /\ reading' = FALSE
      /\ list = <<>> /\ deleted = {} /\ crowded = {}
      /\ UNCHANGED <<gconf, notes, cache, version, starts, pending, deleted, crowded>>
  BY DEF AppletInv, NothingBeforeRead, Applet!ReadConnections
<1>2. PICK read \in [Applet!Dir -> Applet!Content] :
          /\ \A d \in Applet!Dir : read[d] \in Applet!Reads(d)
          /\ \E l \in Applet!SetToSeqs({Applet!Loaded(d, read[d]) :
                           d \in {e \in Applet!AllDirs : Applet!Valid(read[e])}}) :
                list' = Applet!Reverse(Applet!Reverse(l) \o list)
  BY DEF Applet!ReadConnections
<1> PICK D : D = {e \in Applet!AllDirs : Applet!Valid(read[e])}
  OBVIOUS
<1>3. D \subseteq Applet!Dir /\ \A d \in D : read[d] \in 1 .. MaxVersion
  BY <1>2 DEF Applet!AllDirs, Applet!Valid, Applet!Content, Applet!None, Applet!Broken
<1> PICK r : r = list'
  OBVIOUS
<1>4. IsRead(r, D, read)
  BY <1>1, <1>2 DEF IsRead, Valids
<1>5. /\ r \in Seq(Applet!Connection)
      /\ \A d \in Applet!Dir : Single(r, d)
      /\ \A d \in D : \E i \in DOMAIN r : r[i].dir = d
      /\ \A i \in DOMAIN r : r[i].dir \in D /\ r[i].content = read[r[i].dir]
  BY <1>3, <1>4, ListRead
<1>6. Applet!TypeOK' /\ NotesTell' /\ NothingBeforeRead' /\ OneEach'
  BY <1>1, <1>5 DEF AppletInv, Applet!TypeOK, NotesTell, NothingBeforeRead, OneEach
<1>7. SettledAgrees'
  <2> SUFFICES ASSUME NEW d \in Applet!Dir, \A i \in DOMAIN notes : notes[i].dir # d
               PROVE  Agrees(r, d, gconf[d], {})
    BY <1>1 DEF SettledAgrees, Applet!Settled
  <2>1. read[d] = gconf[d]
    <3>1. cache[d] = gconf[d]
      BY DEF AppletInv, NotesTell, ToldOf
    <3> QED
      BY <1>2, <3>1 DEF Applet!Reads
  <2>2. gconf[d] > 0 => d \in D
    BY <2>1 DEF Applet!AllDirs, Applet!Valid, Applet!None
  <2> QED
    BY <1>5, <2>1, <2>2 DEF Agrees
<1> QED
  BY <1>6, <1>7 DEF AppletInv

LEMMA AppletHearsNote ==
    ASSUME AppletInv, Applet!HandleNote
    PROVE  AppletInv'
<1> PICK m : m = Head(notes)
  OBVIOUS
<1> PICK rest : rest = Tail(notes)
  OBVIOUS
<1>1. notes \in Seq(Applet!NoteSet) /\ notes # <<>>
  BY DEF AppletInv, Applet!TypeOK, Applet!HandleNote
<1>2. /\ notes' = rest
      /\ cache' = [cache EXCEPT ![m.dir] = m.content]
      /\ pending' = pending \union {m.dir}
      /\ UNCHANGED <<gconf, version, starts, reading, list, deleted, crowded>>
  BY DEF Applet!HandleNote
<1>3. m \in Applet!NoteSet /\ rest \in Seq(Applet!NoteSet)
  BY <1>1, HeadTailProperties
<1>4. m.dir \in Applet!Dir /\ m.content \in Applet!Content
  BY <1>3 DEF Applet!NoteSet
<1>5. \A d \in Applet!Dir : cache'[d] = IF m.dir = d THEN m.content ELSE cache[d]
  BY <1>2, <1>4 DEF AppletInv, Applet!TypeOK
<1>6. Applet!TypeOK'
  BY <1>2, <1>3, <1>4 DEF AppletInv, Applet!TypeOK
<1>7. NotesTell'
  <2> SUFFICES ASSUME NEW d \in Applet!Dir
               PROVE  ToldOf(rest, d, cache'[d], gconf[d])
    BY <1>2 DEF NotesTell
  <2>1. ToldOf(notes, d, cache[d], gconf[d])
    BY DEF AppletInv, NotesTell
  <2>2. ToldOf(rest, d, IF m.dir = d THEN m.content ELSE cache[d], gconf[d])
    BY <1>1, <2>1, NoteTaken
  <2> QED
    BY <1>5, <2>2
<1>8. NothingBeforeRead' /\ OneEach'
  BY <1>2 DEF AppletInv, NothingBeforeRead, OneEach, Single
<1>9. SettledAgrees'
  <2> SUFFICES ASSUME NEW d \in Applet!Dir \ crowded, Applet!Settled(d)'
               PROVE  Agrees(list, d, gconf[d], deleted)
    BY <1>2 DEF SettledAgrees, Agrees
  <2>1. ~reading /\ d \notin pending /\ m.dir # d /\ \A i \in DOMAIN rest : rest[i].dir # d
    BY <1>2 DEF Applet!Settled
  <2>2. ToldOf(notes, d, cache[d], gconf[d])
    BY DEF AppletInv, NotesTell
  <2>3. \A i \in DOMAIN notes : notes[i].dir # d
    BY <1>1, <2>1, <2>2, NoteTaken
  <2>4. Applet!Settled(d)
    BY <2>1, <2>3 DEF Applet!Settled
  <2> QED
    BY <2>4 DEF AppletInv, SettledAgrees
<1> QED
  BY <1>6, <1>7, <1>8, <1>9 DEF AppletInv

(* An action that changes what the applet has in memory *)
LEMMA ListChanged ==
    ASSUME AppletInv, ~reading, ~reading', reading' \in BOOLEAN,
           UNCHANGED <<gconf, notes, cache, starts>>, version' \in 1 .. MaxVersion,
           list' \in Seq(Applet!Connection), pending' \subseteq Applet!Dir,
           deleted' \subseteq Applet!Dir, crowded' \subseteq Applet!Dir,
           \A d \in Applet!Dir \ crowded' : Single(list', d),
           \A d \in Applet!Dir \ crowded' :
              d \notin pending' /\ (\A i \in DOMAIN notes : notes[i].dir # d)
                  => Agrees(list', d, gconf[d], deleted')
    PROVE  AppletInv'
<1>1. Applet!TypeOK'
  BY DEF AppletInv, Applet!TypeOK
<1>2. NotesTell' /\ NothingBeforeRead' /\ OneEach'
  BY DEF AppletInv, NotesTell, NothingBeforeRead, OneEach
<1>3. SettledAgrees'
  <2> SUFFICES ASSUME NEW d \in Applet!Dir \ crowded', Applet!Settled(d)'
               PROVE  Agrees(list', d, gconf'[d], deleted')
    BY DEF SettledAgrees
  <2>1. d \notin pending' /\ \A i \in DOMAIN notes : notes[i].dir # d
    BY DEF Applet!Settled
  <2> QED
    BY <2>1
<1> QED
  BY <1>1, <1>2, <1>3 DEF AppletInv

(* What the invariant says of a directory that is not pending *)
LEMMA AgreesBefore ==
    ASSUME AppletInv, ~reading, NEW d \in Applet!Dir \ crowded, d \notin pending,
           \A i \in DOMAIN notes : notes[i].dir # d
    PROVE  Agrees(list, d, gconf[d], deleted)
BY DEF AppletInv, SettledAgrees, Applet!Settled

LEMMA AppletChanges ==
    ASSUME AppletInv, NEW e \in Applet!Dir, Applet!ChangesDone(e)
    PROVE  AppletInv'
<1>r. PICK r : r = list'
  OBVIOUS
<1> USE <1>r
<1>1. /\ ~reading /\ e \in pending
      /\ pending' = pending \ {e} /\ deleted' = deleted \ {e}
      /\ UNCHANGED <<gconf, notes, cache, version, starts, reading, crowded>>
  BY DEF Applet!ChangesDone
<1>2. PICK c \in Applet!Reads(e) :
         Applet!ChangeAdds(e, c) \/ Applet!ChangeRemoves(e, c) \/ Applet!ChangeUpdates(e, c)
  BY DEF Applet!ChangesDone
<1>3. /\ list \in Seq(Applet!Connection)
      /\ c \in Applet!Content
      /\ gconf \in [Applet!Dir -> Applet!Content]
      /\ version \in 1 .. MaxVersion /\ reading \in BOOLEAN
      /\ pending \subseteq Applet!Dir /\ deleted \subseteq Applet!Dir /\ crowded \subseteq Applet!Dir
  BY <1>2 DEF AppletInv, Applet!TypeOK, Applet!Reads, Applet!Content, Applet!Broken
<1>4. Applet!Valid(c) => Applet!Loaded(e, c) \in Applet!Connection
  BY <1>3 DEF Applet!Valid, Applet!Loaded, Applet!Connection, Applet!Content, Applet!None,
              Applet!Broken
<1>5. \A x : Applet!Loaded(e, x).dir = e /\ Applet!Loaded(e, x).content = x
  BY DEF Applet!Loaded
<1>6. (\A i \in DOMAIN notes : notes[i].dir # e) => c = gconf[e]
  BY <1>2 DEF AppletInv, NotesTell, ToldOf, Applet!Reads
(* What each of the three does to the list *)
<1>7. /\ r \in Seq(Applet!Connection)
      /\ \A d \in Applet!Dir : Single(list, d) => Single(r, d)
      /\ \A d \in Applet!Dir : d # e /\ Agrees(list, d, gconf[d], deleted)
             => Agrees(r, d, gconf[d], deleted)
      /\ Single(list, e) => Agrees(r, e, c, {})
  <2>1. CASE Applet!ChangeAdds(e, c) /\ Applet!Valid(c)
    <3>x. PICK x : x = Applet!Loaded(e, c)
      OBVIOUS
    <3> USE <3>x
    <3>1. r = Applet!Prepend(x, list) /\ \A i \in DOMAIN list : list[i].dir # e
      BY <2>1 DEF Applet!ChangeAdds, Applet!At
    <3>2. x \in Applet!Connection /\ x.dir = e /\ x.content = c
      BY <1>4, <1>5, <2>1
    <3> HIDE <3>x
    <3> HIDE <1>r
    <3>3. r \in Seq(Applet!Connection)
      BY <1>3, <3>1, <3>2, ListPrepended
    <3>4. ASSUME NEW d \in Applet!Dir, Single(list, d) PROVE Single(r, d)
      BY <1>3, <3>1, <3>2, <3>4, ListPrepended
    <3>5. ASSUME NEW d \in Applet!Dir, d # e, Agrees(list, d, gconf[d], deleted)
          PROVE  Agrees(r, d, gconf[d], deleted)
      BY <1>3, <3>1, <3>2, <3>5, ListPrepended
    <3>6. Agrees(r, e, c, {})
      BY <1>3, <3>1, <3>2, ListPrepended
    <3> QED
      BY <3>3, <3>4, <3>5, <3>6
  <2>2. CASE Applet!ChangeAdds(e, c) /\ ~Applet!Valid(c)
    <3>1. r = list /\ \A i \in DOMAIN list : list[i].dir # e
      BY <2>2 DEF Applet!ChangeAdds, Applet!At
    <3>2. Agrees(r, e, c, {})
      BY <2>2, <3>1 DEF Agrees, Applet!Valid
    <3> QED
      BY <1>3, <3>1, <3>2
  <2>3. CASE Applet!ChangeRemoves(e, c)
    <3>k. PICK k : k = Applet!First(e)
      OBVIOUS
    <3> USE <3>k
    <3>1. r = Applet!RemoveAt(list, k) /\ ~Applet!Valid(c)
      BY <2>3 DEF Applet!ChangeRemoves
    <3>2. k \in DOMAIN list /\ list[k].dir = e
      BY <1>3, <2>3, FirstIsThere DEF Applet!ChangeRemoves
    <3> HIDE <3>k
    <3> HIDE <1>r
    <3>3. r \in Seq(Applet!Connection)
      BY <1>3, <3>1, <3>2, ListRemoved
    <3>4. ASSUME NEW d \in Applet!Dir, Single(list, d) PROVE Single(r, d)
      BY <1>3, <3>1, <3>2, <3>4, ListRemoved
    <3>5. ASSUME NEW d \in Applet!Dir, d # e, Agrees(list, d, gconf[d], deleted)
          PROVE  Agrees(r, d, gconf[d], deleted)
      BY <1>3, <3>1, <3>2, <3>5, ListRemoved
    <3>6. ASSUME Single(list, e) PROVE Agrees(r, e, c, {})
      <4>1. \A i \in DOMAIN r : r[i].dir # e
        BY <1>3, <3>1, <3>2, <3>6, ListRemoved
      <4> QED
        BY <3>1, <4>1 DEF Agrees, Applet!Valid
    <3> QED
      BY <3>3, <3>4, <3>5, <3>6
  <2>4. CASE Applet!ChangeUpdates(e, c)
    <3>k. PICK k : k = Applet!First(e)
      OBVIOUS
    <3> USE <3>k
    <3>x. PICK x : x = Applet!Loaded(e, c)
      OBVIOUS
    <3> USE <3>x
    <3>1. r = [list EXCEPT ![k] = x] /\ Applet!Valid(c)
      BY <2>4 DEF Applet!ChangeUpdates
    <3>2. k \in DOMAIN list /\ list[k].dir = e
      BY <1>3, <2>4, FirstIsThere DEF Applet!ChangeUpdates
    <3>3. x \in Applet!Connection /\ x.dir = e /\ x.content = c /\ x.dir = list[k].dir
      BY <1>4, <1>5, <3>1, <3>2
    <3> HIDE <3>k
    <3> HIDE <3>x
    <3> HIDE <1>r
    <3>4. r \in Seq(Applet!Connection)
      BY <1>3, <3>1, <3>2, <3>3, ListReplaced
    <3>5. ASSUME NEW d \in Applet!Dir, Single(list, d) PROVE Single(r, d)
      BY <1>3, <3>1, <3>2, <3>3, <3>5, ListReplaced
    <3>6. ASSUME NEW d \in Applet!Dir, d # e, Agrees(list, d, gconf[d], deleted)
          PROVE  Agrees(r, d, gconf[d], deleted)
      BY <1>3, <3>1, <3>2, <3>3, <3>6, ListReplaced
    <3>7. ASSUME Single(list, e) PROVE Agrees(r, e, c, {})
      BY <1>3, <3>1, <3>2, <3>3, <3>7, ListReplaced
    <3> QED
      BY <3>4, <3>5, <3>6, <3>7
  <2> QED
    BY <1>2, <2>1, <2>2, <2>3, <2>4
<1>8. \A d \in Applet!Dir \ crowded : Single(r, d)
  BY <1>7 DEF AppletInv, OneEach
<1>9. ASSUME NEW d \in Applet!Dir \ crowded, d \notin pending \ {e},
             \A i \in DOMAIN notes : notes[i].dir # d
      PROVE  Agrees(r, d, gconf[d], deleted \ {e})
  <2>1. CASE d = e
    <3>1. Agrees(r, e, gconf[e], {})
      <4>1. Single(list, e)
        BY <2>1 DEF AppletInv, OneEach
      <4> QED
        BY <1>6, <1>7, <1>9, <2>1, <4>1
    <3> QED
      BY <2>1, <3>1 DEF Agrees
  <2>2. CASE d # e
    <3>1. Agrees(list, d, gconf[d], deleted)
      BY <1>1, <1>9, <2>2, AgreesBefore
    <3>2. Agrees(r, d, gconf[d], deleted)
      BY <1>7, <2>2, <3>1
    <3> QED
      BY <2>2, <3>2 DEF Agrees
  <2> QED
    BY <2>1, <2>2
<1>10. /\ list' \in Seq(Applet!Connection)
       /\ \A d \in Applet!Dir \ crowded' : Single(list', d)
       /\ \A d \in Applet!Dir \ crowded' :
             d \notin pending' /\ (\A i \in DOMAIN notes : notes[i].dir # d)
                 => Agrees(list', d, gconf[d], deleted')
  BY <1>1, <1>7, <1>8, <1>9
<1> QED
  BY <1>1, <1>3, <1>10, ListChanged

LEMMA AppletAdds ==
    ASSUME AppletInv, Applet!AddConnection
    PROVE  AppletInv'
<1>0. PICK r : r = list'
  OBVIOUS
<1>1. /\ ~reading /\ version < MaxVersion /\ version' = version + 1
      /\ UNCHANGED <<gconf, notes, cache, starts, reading, pending, deleted>>
  BY DEF Applet!AddConnection, Applet!NewVersion
<1>2. PICK e \in Applet!Dir :
         /\ e \notin Applet!AllDirs
         /\ list' = Applet!Prepend([dir |-> e, content |-> version', apart |-> TRUE], list)
         /\ crowded' = crowded \union {d \in {e} : Applet!At(d) # {}}
  BY DEF Applet!AddConnection
<1>3. /\ list \in Seq(Applet!Connection)
      /\ gconf \in [Applet!Dir -> Applet!Content]
      /\ version \in 1 .. MaxVersion /\ reading \in BOOLEAN
      /\ pending \subseteq Applet!Dir /\ deleted \subseteq Applet!Dir /\ crowded \subseteq Applet!Dir
  BY DEF AppletInv, Applet!TypeOK
<1>4. version' \in 1 .. MaxVersion
  BY <1>1, <1>3, MirrorsAssumption
<1>x. PICK x : x = [dir |-> e, content |-> version', apart |-> TRUE]
  OBVIOUS
<1> USE <1>x
<1>5. x \in Applet!Connection /\ x.dir = e /\ x.apart
  BY <1>4 DEF Applet!Connection
<1>6. r = Applet!Prepend(x, list)
  BY <1>0, <1>2
<1>7. /\ crowded \subseteq crowded' /\ crowded' \subseteq Applet!Dir
      /\ e \notin crowded' => \A i \in DOMAIN list : list[i].dir # e
  BY <1>2, <1>3 DEF Applet!At
<1> HIDE <1>x
<1>8. r \in Seq(Applet!Connection)
  BY <1>3, <1>5, <1>6, ListPrepended
<1>9. ASSUME NEW d \in Applet!Dir \ crowded' PROVE Single(r, d)
  <2>1. Single(list, d)
    BY <1>7 DEF AppletInv, OneEach
  <2> QED
    BY <1>3, <1>5, <1>6, <1>7, <2>1, ListPrepended
<1>10. ASSUME NEW d \in Applet!Dir \ crowded', d \notin pending,
              \A i \in DOMAIN notes : notes[i].dir # d
       PROVE  Agrees(r, d, gconf[d], deleted)
  <2>1. CASE d = e
    <3>1. \A i \in DOMAIN list : list[i].dir # e
      BY <1>7, <2>1
    <3> QED
      BY <1>3, <1>5, <1>6, <2>1, <3>1, ListPrepended
  <2>2. CASE d # e
    <3>1. Agrees(list, d, gconf[d], deleted)
      BY <1>1, <1>7, <1>10, AgreesBefore
    <3> QED
      BY <1>3, <1>5, <1>6, <2>2, <3>1, ListPrepended
  <2> QED
    BY <2>1, <2>2
<1>11. /\ list' \in Seq(Applet!Connection)
       /\ \A d \in Applet!Dir \ crowded' : Single(list', d)
       /\ \A d \in Applet!Dir \ crowded' :
             d \notin pending' /\ (\A i \in DOMAIN notes : notes[i].dir # d)
                 => Agrees(list', d, gconf[d], deleted')
  <2>1. r = list'
    BY <1>0
  <2> QED
    BY <1>1, <1>8, <1>9, <1>10, <2>1
<1> QED
  BY <1>1, <1>3, <1>4, <1>7, <1>11, ListChanged

LEMMA AppletUpdated ==
    ASSUME AppletInv, NEW k \in DOMAIN list, Applet!DBusUpdate(k)
    PROVE  AppletInv'
<1>0. PICK r : r = list'
  OBVIOUS
<1>1. /\ ~reading /\ version < MaxVersion /\ version' = version + 1
      /\ UNCHANGED <<gconf, notes, cache, starts, reading, pending, deleted, crowded>>
  BY DEF Applet!DBusUpdate, Applet!NewVersion
<1>2. /\ list \in Seq(Applet!Connection)
      /\ version \in 1 .. MaxVersion /\ reading \in BOOLEAN
      /\ pending \subseteq Applet!Dir /\ deleted \subseteq Applet!Dir /\ crowded \subseteq Applet!Dir
  BY DEF AppletInv, Applet!TypeOK
<1>3. version' \in 1 .. MaxVersion
  BY <1>1, <1>2, MirrorsAssumption
<1>x. PICK x : x = [list[k] EXCEPT !.content = version', !.apart = TRUE]
  OBVIOUS
<1> USE <1>x
<1>4. list[k] \in Applet!Connection
  BY <1>2, ElementOfSeq, LenProperties
<1>5. x \in Applet!Connection /\ x.dir = list[k].dir /\ x.apart
  BY <1>3, <1>4 DEF Applet!Connection
<1>6. r = [list EXCEPT ![k] = x]
  BY <1>0 DEF Applet!DBusUpdate
<1> HIDE <1>x
<1>7. r \in Seq(Applet!Connection)
  BY <1>2, <1>5, <1>6, ListReplaced
<1>8. ASSUME NEW d \in Applet!Dir \ crowded PROVE Single(r, d)
  <2>1. Single(list, d)
    BY DEF AppletInv, OneEach
  <2> QED
    BY <1>2, <1>5, <1>6, <2>1, ListReplaced
<1>9. ASSUME NEW d \in Applet!Dir \ crowded, d \notin pending,
             \A i \in DOMAIN notes : notes[i].dir # d
      PROVE  Agrees(r, d, gconf[d], deleted)
  <2>1. Agrees(list, d, gconf[d], deleted)
    BY <1>1, <1>9, AgreesBefore
  <2> QED
    BY <1>2, <1>5, <1>6, <2>1, ListReplaced
<1>10. /\ list' \in Seq(Applet!Connection)
       /\ \A d \in Applet!Dir \ crowded' : Single(list', d)
       /\ \A d \in Applet!Dir \ crowded' :
             d \notin pending' /\ (\A i \in DOMAIN notes : notes[i].dir # d)
                 => Agrees(list', d, gconf[d], deleted')
  <2>1. r = list'
    BY <1>0
  <2> QED
    BY <1>1, <1>7, <1>8, <1>9, <2>1
<1> QED
  BY <1>1, <1>2, <1>3, <1>10, ListChanged

LEMMA AppletDeleted ==
    ASSUME AppletInv, NEW k \in DOMAIN list, Applet!DBusDelete(k)
    PROVE  AppletInv'
<1>0. PICK r : r = list'
  OBVIOUS
<1> PICK e : e = list[k].dir
  OBVIOUS
<1>1. /\ ~reading /\ deleted' = deleted \union {e}
      /\ UNCHANGED <<gconf, notes, cache, version, starts, reading, pending, crowded>>
  BY <1>0 DEF Applet!DBusDelete
<1>2. /\ list \in Seq(Applet!Connection)
      /\ version \in 1 .. MaxVersion /\ reading \in BOOLEAN
      /\ pending \subseteq Applet!Dir /\ deleted \subseteq Applet!Dir /\ crowded \subseteq Applet!Dir
  BY DEF AppletInv, Applet!TypeOK
<1>3. e \in Applet!Dir
  <2>1. list[k] \in Applet!Connection
    BY <1>2, ElementOfSeq, LenProperties
  <2> QED
    BY <2>1 DEF Applet!Connection
<1>4. r = Applet!RemoveAt(list, k)
  BY <1>0 DEF Applet!DBusDelete
<1>5. r \in Seq(Applet!Connection)
  BY <1>2, <1>4, ListRemoved
<1>6. ASSUME NEW d \in Applet!Dir \ crowded PROVE Single(r, d)
  <2>1. Single(list, d)
    BY DEF AppletInv, OneEach
  <2> QED
    BY <1>2, <1>4, <2>1, ListRemoved
<1>7. ASSUME NEW d \in Applet!Dir \ crowded, d \notin pending,
             \A i \in DOMAIN notes : notes[i].dir # d
      PROVE  Agrees(r, d, gconf[d], deleted \union {e})
  <2>1. Agrees(list, d, gconf[d], deleted)
    BY <1>1, <1>7, AgreesBefore
  <2> QED
    BY <1>2, <1>4, <2>1, ListRemoved
<1>8. /\ list' \in Seq(Applet!Connection)
      /\ \A d \in Applet!Dir \ crowded' : Single(list', d)
      /\ \A d \in Applet!Dir \ crowded' :
            d \notin pending' /\ (\A i \in DOMAIN notes : notes[i].dir # d)
                => Agrees(list', d, gconf[d], deleted')
  <2>1. r = list'
    BY <1>0
  <2> QED
    BY <1>1, <1>5, <1>6, <1>7, <2>1
<1>9. deleted' \subseteq Applet!Dir
  BY <1>1, <1>2, <1>3
<1> QED
  BY <1>1, <1>2, <1>8, <1>9, ListChanged

LEMMA AppletSaves ==
    ASSUME AppletInv, NEW k \in DOMAIN list, Applet!SaveTimestamp(k)
    PROVE  AppletInv'
<1>0. PICK r : r = list'
  OBVIOUS
<1> PICK e : e = list[k].dir
  OBVIOUS
<1> PICK now : now = version'
  OBVIOUS
<1>1. /\ ~reading /\ version < MaxVersion /\ now = version + 1
      /\ gconf' = [gconf EXCEPT ![e] = now]
      /\ cache' = [cache EXCEPT ![e] = now]
      /\ UNCHANGED <<starts, reading, pending, deleted, crowded>>
  BY DEF Applet!SaveTimestamp, Applet!NewVersion
<1>2. /\ list \in Seq(Applet!Connection) /\ notes \in Seq(Applet!NoteSet)
      /\ gconf \in [Applet!Dir -> Applet!Content] /\ cache \in [Applet!Dir -> Applet!Content]
      /\ version \in 1 .. MaxVersion /\ reading \in BOOLEAN
  BY DEF AppletInv, Applet!TypeOK
<1>3. now \in 1 .. MaxVersion /\ now \in Applet!Content
  BY <1>1, <1>2, MirrorsAssumption DEF Applet!Content
<1>4. e \in Applet!Dir
  <2>1. list[k] \in Applet!Connection
    BY <1>2, ElementOfSeq, LenProperties
  <2> QED
    BY <2>1 DEF Applet!Connection
<1>x. PICK x : x = Applet!Loaded(e, now)
  OBVIOUS
<1> USE <1>x
<1>5. x \in Applet!Connection /\ x.dir = list[k].dir /\ x.dir = e
  BY <1>3, <1>4 DEF Applet!Loaded, Applet!Connection
<1>m. PICK m : m = Applet!Note(e, now)
  OBVIOUS
<1> USE <1>m
<1>6. m \in Applet!NoteSet /\ m.dir = e /\ m.content = now
  BY <1>3, <1>4 DEF Applet!Note, Applet!NoteSet
<1>7. r = [list EXCEPT ![k] = x] /\ notes' = Append(notes, m)
  BY <1>0 DEF Applet!SaveTimestamp
<1> HIDE <1>x
<1> HIDE <1>m
<1>8. r \in Seq(Applet!Connection)
  BY <1>2, <1>5, <1>7, ListReplaced
<1>9. Applet!TypeOK'
  <2>1. notes' \in Seq(Applet!NoteSet)
    BY <1>2, <1>6, <1>7, AppendProperties
  <2>2. list' \in Seq(Applet!Connection)
    <3>1. r = list' BY <1>0
    <3> QED BY <1>8, <3>1
  <2>3. version' \in 1 .. MaxVersion
    BY <1>3
  <2> QED
    BY <1>1, <1>2, <1>3, <1>4, <2>1, <2>2, <2>3 DEF AppletInv, Applet!TypeOK
<1>10. NotesTell'
  <2> SUFFICES ASSUME NEW d \in Applet!Dir
               PROVE  ToldOf(notes', d, cache'[d], gconf'[d])
    BY DEF NotesTell
  <2>1. ToldOf(notes, d, cache[d], gconf[d])
    BY DEF AppletInv, NotesTell
  <2>2. CASE d = e
    BY <1>1, <1>2, <1>4, <1>6, <1>7, <2>2, NoteSent
  <2>3. CASE d # e
    <3>1. gconf'[d] = gconf[d] /\ cache'[d] = cache[d]
      BY <1>1, <1>2, <2>3
    <3>2. ToldOf(Append(notes, m), d, cache[d], gconf[d])
      BY <1>2, <1>6, <2>1, <2>3, NoteSent
    <3> QED
      BY <1>7, <3>1, <3>2
  <2> QED
    BY <2>2, <2>3
<1>11. OneEach'
  <2>1. ASSUME NEW d \in Applet!Dir \ crowded PROVE Single(r, d)
    <3>1. Single(list, d)
      BY DEF AppletInv, OneEach
    <3> QED
      BY <1>2, <1>5, <1>7, <3>1, ListReplaced
  <2>2. r = list'
    BY <1>0
  <2> QED
    BY <1>1, <2>1, <2>2 DEF OneEach
<1>12. SettledAgrees'
  <2> SUFFICES ASSUME NEW d \in Applet!Dir \ crowded, Applet!Settled(d)'
               PROVE  Agrees(r, d, gconf'[d], deleted)
    <3>1. r = list'
      BY <1>0
    <3> QED
      BY <1>1, <3>1 DEF SettledAgrees
  <2> PICK more : more = notes'
    OBVIOUS
  <2>1. /\ Len(notes) \in Nat /\ DOMAIN notes = 1 .. Len(notes)
        /\ DOMAIN more = 1 .. Len(notes) + 1
        /\ \A i \in 1 .. Len(notes) : more[i] = notes[i]
        /\ more[Len(notes) + 1] = m
    BY <1>2, <1>6, <1>7, LenProperties, AppendProperties
  <2>2. d \notin pending /\ \A i \in DOMAIN more : more[i].dir # d
    BY <1>1 DEF Applet!Settled
  <2>3. d # e /\ \A i \in DOMAIN notes : notes[i].dir # d
    BY <1>6, <2>1, <2>2
  <2>4. Agrees(list, d, gconf[d], deleted)
    BY <1>1, <2>2, <2>3, AgreesBefore
  <2>5. gconf'[d] = gconf[d]
    BY <1>1, <1>2, <2>3
  <2>6. Agrees(r, d, gconf[d], deleted)
    BY <1>2, <1>5, <1>7, <2>3, <2>4, ListReplaced
  <2> QED
    BY <2>5, <2>6
<1> QED
  BY <1>1, <1>9, <1>10, <1>11, <1>12 DEF AppletInv, NothingBeforeRead

LEMMA AppletRestarts ==
    ASSUME AppletInv, Applet!Restart
    PROVE  AppletInv'
<1>1. /\ starts' = starts + 1 /\ starts < MaxStart
      /\ notes' = <<>> /\ cache' = gconf /\ reading' = TRUE /\ list' = <<>> /\ pending' = {}
      /\ deleted' = {} /\ crowded' = {} /\ UNCHANGED <<gconf, version>>
  BY DEF Applet!Restart
<1>2. DOMAIN <<>> = {}
  OBVIOUS
<1>3. Applet!TypeOK'
  <2>1. notes' \in Seq(Applet!NoteSet) /\ list' \in Seq(Applet!Connection)
    BY <1>1, EmptySeq
  <2>2. starts' \in 1 .. MaxStart
    BY <1>1, MirrorsAssumption DEF AppletInv, Applet!TypeOK
  <2> QED
    BY <1>1, <2>1, <2>2 DEF AppletInv, Applet!TypeOK
<1>4. NotesTell'
  BY <1>1, <1>2 DEF NotesTell, ToldOf
<1>5. OneEach'
  BY <1>1, <1>2 DEF OneEach, Single
<1>6. NothingBeforeRead' /\ SettledAgrees'
  BY <1>1 DEF NothingBeforeRead, SettledAgrees, Applet!Settled
<1> QED
  BY <1>3, <1>4, <1>5, <1>6 DEF AppletInv

LEMMA AppletInvStep == AppletInv /\ [MCNext]_mirrorVars => AppletInv'
<1> SUFFICES ASSUME AppletInv, [MCNext]_mirrorVars PROVE AppletInv'
  OBVIOUS
<1>1. CASE UNCHANGED appletVars
  <2>1. UNCHANGED <<gconf, notes, cache, version, starts, reading, list, pending, deleted, crowded>>
    BY <1>1 DEF appletVars
  <2>2. Applet!TypeOK' /\ NotesTell' /\ NothingBeforeRead' /\ OneEach'
    BY <2>1 DEF AppletInv, Applet!TypeOK, NotesTell, ToldOf, NothingBeforeRead, OneEach, Single
  <2>3. SettledAgrees'
    BY <2>1 DEF AppletInv, SettledAgrees, Agrees, Applet!Settled
  <2> QED
    BY <2>2, <2>3 DEF AppletInv
<1>2. Applet!Next \/ UNCHANGED appletVars
  BY DEF MCNext, ButtonsDo, HostDoes, AppletDoes, mirrorVars
<1> QED
  BY <1>1, <1>2, AppletOtherWrites, AppletReads, AppletHearsNote, AppletChanges, AppletAdds,
     AppletUpdated, AppletDeleted, AppletSaves, AppletRestarts
  DEF Applet!Next, Applet!Applet

(* What the applet exports is in step with GConf once it dealt with what it *)
(* was notified of, whatever other programs, users and clients on D-Bus did *)
(* meanwhile (bma-gconf-settings.c, bma-gconf-connection.c).                *)
THEOREM InStepAlways == MCSpec => []InStep
<1>1. AppletInv => InStep
  <2> SUFFICES ASSUME AppletInv, NEW d \in Applet!Dir \ crowded, Applet!Settled(d)
               PROVE  /\ Applet!Valid(gconf[d]) => Applet!At(d) # {} \/ d \in deleted
                      /\ \A i \in Applet!At(d) : list[i].apart \/ list[i].content = gconf[d]
    BY DEF AppletInv, InStep, Applet!InStep
  <2>1. Agrees(list, d, gconf[d], deleted)
    BY DEF AppletInv, SettledAgrees
  <2> QED
    BY <2>1 DEF Agrees, Applet!At, Applet!Valid
<1>2. MCInit => AppletInv
  BY AppletInvInit DEF MCInit
<1> QED
  BY <1>1, <1>2, AppletInvStep, PTL DEF MCSpec

-----------------------------------------------------------------------------
(* Permissions.  Two lines lead from the policy to a button: the checks and *)
(* answers between PolicyKit and the daemon, the calls and replies between  *)
(* the daemon and the editor.  Each keeps the order in which calls were made.*)

Says(a) == a.type # "changed"

Answers(m) == m.type # "check-permissions"

ModifyAllowed == Buttons!ConnectionModify \in policy \intersect capable

ButtonTypes ==
    /\ IsSequence(polled) /\ IsSequence(answers) /\ IsSequence(waited)
    /\ IsSequence(told) /\ IsSequence(owner) /\ IsSequence(buttons)
    /\ \A i \in DOMAIN told : told[i].type \in {"reply", "error", "check-permissions"}
    /\ made \in Nat
    /\ capable \subseteq Buttons!Permission
    /\ \A i \in DOMAIN answers : Says(answers[i]) => answers[i].says \in {"yes", "no", "error"}
    /\ waiting \subseteq DOMAIN owner
    /\ DOMAIN found = DOMAIN left

(* A call under way is with the daemon, with PolicyKit, or answered. *)
CallsOpen ==
    /\ DOMAIN left \subseteq waiting
    /\ \A i \in DOMAIN waited : waited[i] \in waiting
    /\ \A i \in DOMAIN told : Answers(told[i]) => told[i].call \in waiting
    /\ \A c \in waiting :
          \/ c \in DOMAIN left
          \/ \E i \in DOMAIN waited : waited[i] = c
          \/ \E i \in DOMAIN told : Answers(told[i]) /\ told[i].call = c
    /\ ~serving => polled = <<>> /\ answers = <<>> /\ waited = <<>> /\ DOMAIN left = {}

(* The place of a check, or of its answer, in the order they were made *)
Rank(x) == 2 * x.call + (IF x.of = Buttons!ConnectionModify THEN 0 ELSE 1)

ChecksInTurn ==
    /\ \A i, j \in DOMAIN polled : i < j => Rank(polled[i]) < Rank(polled[j])
    /\ \A i, j \in DOMAIN answers :
          i < j /\ Says(answers[i]) /\ Says(answers[j]) => Rank(answers[i]) < Rank(answers[j])
    /\ \A i \in DOMAIN answers, j \in DOMAIN polled :
          Says(answers[i]) => Rank(answers[i]) < Rank(polled[j])

CallsInTurn ==
    /\ \A i, j \in DOMAIN waited : i < j => waited[i] < waited[j]
    /\ \A c \in DOMAIN left, i \in DOMAIN waited : c < waited[i]
    /\ \A i, j \in DOMAIN told :
          i < j /\ Answers(told[i]) /\ Answers(told[j]) => told[i].call < told[j].call
    /\ \A i \in DOMAIN told : Answers(told[i]) =>
          /\ \A c \in DOMAIN left : told[i].call < c
          /\ \A j \in DOMAIN waited : told[i].call < waited[j]
    /\ \A c \in DOMAIN owner \ waiting, d \in waiting : c < d

(* permissions_calls counts the checks that are under way. *)
OnWay(c, p) ==
    \/ \E i \in DOMAIN polled : polled[i].call = c /\ polled[i].of = p
    \/ \E i \in DOMAIN answers : Says(answers[i]) /\ answers[i].call = c /\ answers[i].of = p

One(b) == IF b THEN 1 ELSE 0

ChecksCounted ==
    /\ \A i \in DOMAIN polled : polled[i].call \in DOMAIN left /\ polled[i].of \in capable
    /\ \A i \in DOMAIN answers :
          Says(answers[i]) => answers[i].call \in DOMAIN left /\ answers[i].of \in capable
    /\ \A c \in DOMAIN left :
          /\ left[c] = One(OnWay(c, Buttons!ConnectionModify)) + One(OnWay(c, Buttons!HostnameModify))
          /\ capable # {} => left[c] >= 1

(* What is found comes of what plugins are capable of. *)
NothingElseFound ==
    Buttons!ConnectionModify \notin capable =>
        /\ authorized = {}
        /\ Buttons!ConnectionModify \notin permissions
        /\ \A c \in DOMAIN found : Buttons!ConnectionModify \notin found[c]
        /\ \A i \in DOMAIN told :
              told[i].type = "reply" => Buttons!ConnectionModify \notin told[i].permissions

Asked(b) == \E c \in DOMAIN owner : owner[c] = b

ButtonsKnown ==
    /\ \A i, j \in DOMAIN buttons : i # j => buttons[i] # buttons[j]
    /\ \A i \in DOMAIN buttons : buttons[i] \in 1 .. made
    /\ \A c \in DOMAIN owner : owner[c] \in 1 .. made
    /\ \A i \in DOMAIN buttons : buttons[i] \in cached \/ Asked(buttons[i])

(* No word of a change is under way, and none was lost. *)
Calm ==
    /\ ~unaware
    /\ \A i \in DOMAIN answers : Says(answers[i])
    /\ \A i \in DOMAIN told : Answers(told[i])

(* The last call of a button that is there *)
Counts(c) ==
    /\ \A d \in DOMAIN owner : owner[d] = owner[c] => d <= c
    /\ \E i \in DOMAIN buttons : buttons[i] = owner[c]

(* What is under way for it is by the policy of now. *)
LastCallsRight ==
    Calm => \A c \in DOMAIN owner : Counts(c) =>
        /\ \A i \in DOMAIN answers :
              answers[i].call = c /\ answers[i].of = Buttons!ConnectionModify =>
                  /\ answers[i].says = "yes" => Buttons!ConnectionModify \in policy
                  /\ answers[i].says = "no" => Buttons!ConnectionModify \notin policy
        /\ c \in DOMAIN left =>
              /\ Buttons!ConnectionModify \in found[c] => ModifyAllowed
              /\ ModifyAllowed /\ ~OnWay(c, Buttons!ConnectionModify) =>
                    Buttons!ConnectionModify \in found[c] \/ c \in faulty
        /\ \A i \in DOMAIN told :
              told[i].type = "reply" /\ told[i].call = c =>
                  /\ Buttons!ConnectionModify \in told[i].permissions => ModifyAllowed
                  /\ ModifyAllowed => Buttons!ConnectionModify \in told[i].permissions \/ c \in faulty

Answered(b) == Asked(b) /\ \A c \in DOMAIN owner : owner[c] = b => c \notin waiting

ShownRight ==
    Calm => \A i \in DOMAIN buttons : Answered(buttons[i]) =>
        /\ buttons[i] \in authorized => ModifyAllowed
        /\ ModifyAllowed => buttons[i] \in authorized \union failed

ButtonInv ==
    /\ ButtonTypes /\ CallsOpen /\ ChecksInTurn /\ CallsInTurn /\ ChecksCounted
    /\ NothingElseFound /\ ButtonsKnown /\ LastCallsRight /\ ShownRight

LEMMA ButtonInvInit == Buttons!Init => ButtonInv
<1> SUFFICES ASSUME Buttons!Init PROVE ButtonInv
  OBVIOUS
<1>1. /\ polled = <<>> /\ answers = <<>> /\ waited = <<>> /\ told = <<>> /\ owner = <<>>
      /\ buttons = <<>> /\ left = <<>> /\ found = <<>> /\ waiting = {} /\ made = 0
      /\ capable \subseteq Buttons!Permission /\ authorized = {} /\ permissions = {} /\ serving
  BY DEF Buttons!Init
<1>2. DOMAIN polled = {} /\ DOMAIN answers = {} /\ DOMAIN waited = {} /\ DOMAIN told = {}
      /\ DOMAIN owner = {} /\ DOMAIN buttons = {} /\ DOMAIN left = {} /\ DOMAIN found = {}
  BY <1>1
<1>3. ButtonTypes
  BY <1>1, <1>2, EmptyIsSequence DEF ButtonTypes
<1>4. CallsOpen
  BY <1>1, <1>2 DEF CallsOpen
<1>5. ChecksInTurn /\ CallsInTurn
  BY <1>1, <1>2 DEF ChecksInTurn, CallsInTurn
<1>6. ChecksCounted /\ NothingElseFound
  BY <1>1, <1>2 DEF ChecksCounted, NothingElseFound
<1>7. ButtonsKnown /\ LastCallsRight /\ ShownRight
  BY <1>1, <1>2 DEF ButtonsKnown, LastCallsRight, ShownRight
<1> QED
  BY <1>3, <1>4, <1>5, <1>6, <1>7 DEF ButtonInv

(* What ButtonInv says of where things are *)
LEMMA CallNumbers ==
    ASSUME ButtonInv
    PROVE  /\ Len(polled) \in Nat /\ DOMAIN polled = 1 .. Len(polled)
           /\ Len(answers) \in Nat /\ DOMAIN answers = 1 .. Len(answers)
           /\ Len(waited) \in Nat /\ DOMAIN waited = 1 .. Len(waited)
           /\ Len(told) \in Nat /\ DOMAIN told = 1 .. Len(told)
           /\ Len(owner) \in Nat /\ DOMAIN owner = 1 .. Len(owner)
           /\ Len(buttons) \in Nat /\ DOMAIN buttons = 1 .. Len(buttons)
           /\ waiting \subseteq 1 .. Len(owner)
           /\ DOMAIN left \subseteq 1 .. Len(owner)
           /\ \A i \in DOMAIN waited : waited[i] \in 1 .. Len(owner)
           /\ \A i \in DOMAIN told : Answers(told[i]) => told[i].call \in 1 .. Len(owner)
           /\ \A i \in DOMAIN polled : polled[i].call \in 1 .. Len(owner)
           /\ \A i \in DOMAIN answers : Says(answers[i]) => answers[i].call \in 1 .. Len(owner)
<1> USE DEF ButtonInv
<1>1. /\ Len(polled) \in Nat /\ DOMAIN polled = 1 .. Len(polled)
      /\ Len(answers) \in Nat /\ DOMAIN answers = 1 .. Len(answers)
      /\ Len(waited) \in Nat /\ DOMAIN waited = 1 .. Len(waited)
      /\ Len(told) \in Nat /\ DOMAIN told = 1 .. Len(told)
      /\ Len(owner) \in Nat /\ DOMAIN owner = 1 .. Len(owner)
      /\ Len(buttons) \in Nat /\ DOMAIN buttons = 1 .. Len(buttons)
  BY SequenceDomain DEF ButtonTypes
<1>2. waiting \subseteq 1 .. Len(owner)
  BY <1>1 DEF ButtonTypes
<1>3. /\ DOMAIN left \subseteq 1 .. Len(owner)
      /\ \A i \in DOMAIN waited : waited[i] \in 1 .. Len(owner)
      /\ \A i \in DOMAIN told : Answers(told[i]) => told[i].call \in 1 .. Len(owner)
  BY <1>2 DEF CallsOpen
<1>4. /\ \A i \in DOMAIN polled : polled[i].call \in 1 .. Len(owner)
      /\ \A i \in DOMAIN answers : Says(answers[i]) => answers[i].call \in 1 .. Len(owner)
  BY <1>3 DEF ChecksCounted
<1> QED
  BY <1>1, <1>2, <1>3, <1>4

LEMMA ButtonsPolicyChanges ==
    ASSUME ButtonInv, NEW to, Buttons!PolicyChanges(to)
    PROVE  ButtonInv'
<1> USE DEF ButtonInv
<1>1. UNCHANGED <<capable, polled, serving, left, found, waited, told, owner, waiting, have,
                  permissions, buttons, made, authorized, cached, failed, faulty>>
  BY DEF Buttons!PolicyChanges, Buttons!daemonVars, Buttons!editorVars
<1>2. CASE ~serving
  <2>1. answers' = answers /\ unaware'
    BY <1>2 DEF Buttons!PolicyChanges
  <2>2. ~Calm'
    BY <2>1 DEF Calm
  <2>3. ButtonTypes' /\ CallsOpen' /\ ChecksInTurn' /\ CallsInTurn'
    BY <1>1, <2>1 DEF ButtonTypes, CallsOpen, ChecksInTurn, CallsInTurn, Answers, Says, Rank
  <2>4. ChecksCounted' /\ NothingElseFound' /\ ButtonsKnown'
    BY <1>1, <2>1 DEF ChecksCounted, OnWay, One, Says, NothingElseFound, ButtonsKnown, Asked
  <2> QED
    BY <2>2, <2>3, <2>4 DEF LastCallsRight, ShownRight
<1>3. CASE serving
  <2>1. answers' = Append(answers, Buttons!Changed)
    BY <1>3 DEF Buttons!PolicyChanges
  <2>2. IsSequence(answers) /\ Len(answers) \in Nat /\ DOMAIN answers = 1 .. Len(answers)
    BY CallNumbers DEF ButtonTypes
  <2>3. /\ IsSequence(answers')
        /\ Len(answers') = Len(answers) + 1
        /\ \A i \in 1 .. Len(answers) : answers'[i] = answers[i]
        /\ answers'[Len(answers) + 1] = Buttons!Changed
    BY <2>1, <2>2, AppendIsSequence
  <2>4. DOMAIN answers' = 1 .. Len(answers) + 1
    BY <2>3, SequenceDomain
  <2>5. ~Says(Buttons!Changed)
    BY DEF Says, Buttons!Changed
  <2>6. ~Calm'
    <3>1. Len(answers) + 1 \in DOMAIN answers'
      BY <2>2, <2>4
    <3> QED
      BY <2>3, <2>5, <3>1 DEF Calm
  <2>7. \A i \in DOMAIN answers' : Says(answers'[i]) => i \in DOMAIN answers /\ answers'[i] = answers[i]
    BY <2>2, <2>3, <2>4, <2>5
  <2>8. \A i \in DOMAIN answers : i \in DOMAIN answers' /\ answers'[i] = answers[i]
    BY <2>2, <2>3, <2>4
  <2>9. ButtonTypes' /\ CallsOpen'
    BY <1>1, <1>3, <2>3, <2>7 DEF ButtonTypes, CallsOpen, Answers, Says
  <2>10. ChecksInTurn'
    BY <1>1, <2>2, <2>4, <2>7 DEF ChecksInTurn, Rank
  <2>11. CallsInTurn' /\ NothingElseFound' /\ ButtonsKnown'
    BY <1>1 DEF CallsInTurn, Answers, NothingElseFound, ButtonsKnown, Asked
  <2>12. ASSUME NEW c, NEW p PROVE OnWay(c, p)' <=> OnWay(c, p)
    BY <1>1, <2>7, <2>8 DEF OnWay
  <2>13. ChecksCounted'
    BY <1>1, <2>7, <2>12 DEF ChecksCounted, One
  <2> QED
    BY <2>6, <2>9, <2>10, <2>11, <2>13 DEF LastCallsRight, ShownRight
<1> QED
  BY <1>2, <1>3

LEMMA ButtonsPolkitAnswers ==
    ASSUME ButtonInv, NEW says \in {"yes", "no", "error"}, Buttons!PolkitAnswers(says)
    PROVE  ButtonInv'
<1> USE DEF ButtonInv
<1>1. /\ UNCHANGED <<capable, policy, serving, left, found, waited, told, owner, waiting, have,
                     permissions, buttons, made, authorized, cached, failed, faulty, unaware>>
      /\ polled # <<>>
      /\ polled' = Tail(polled)
  BY DEF Buttons!PolkitAnswers, Buttons!daemonVars, Buttons!editorVars
<1>a. PICK a : a = Buttons!Answer(Head(polled), says)
  OBVIOUS
<1>2. /\ answers' = Append(answers, a)
      /\ says # "error" => says = IF Head(polled).of \in policy THEN "yes" ELSE "no"
  BY <1>a DEF Buttons!PolkitAnswers
<1>3. /\ Len(polled) \in Nat \ {0} /\ DOMAIN polled = 1 .. Len(polled)
      /\ Len(answers) \in Nat /\ DOMAIN answers = 1 .. Len(answers)
  <2>1. IsSequence(polled)
    BY DEF ButtonTypes
  <2> QED
    BY <1>1, <2>1, CallNumbers, TailIsSequence
<1>4. /\ IsSequence(polled')
      /\ DOMAIN polled' = 1 .. Len(polled) - 1
      /\ \A i \in 1 .. Len(polled) - 1 : polled'[i] = polled[i + 1]
      /\ Head(polled) = polled[1]
  <2>1. IsSequence(polled)
    BY DEF ButtonTypes
  <2>2. /\ IsSequence(polled')
        /\ Len(polled') = Len(polled) - 1
        /\ \A i \in 1 .. Len(polled) - 1 : polled'[i] = polled[i + 1]
        /\ Head(polled) = polled[1]
    BY <1>1, <2>1, TailIsSequence
  <2> QED
    BY <2>2, SequenceDomain
<1>5. /\ IsSequence(answers')
      /\ DOMAIN answers' = 1 .. Len(answers) + 1
      /\ \A i \in 1 .. Len(answers) : answers'[i] = answers[i]
      /\ answers'[Len(answers) + 1] = a
  <2>1. IsSequence(answers)
    BY DEF ButtonTypes
  <2>2. /\ IsSequence(answers')
        /\ Len(answers') = Len(answers) + 1
        /\ \A i \in 1 .. Len(answers) : answers'[i] = answers[i]
        /\ answers'[Len(answers) + 1] = a
    BY <1>2, <2>1, AppendIsSequence
  <2> QED
    BY <2>2, SequenceDomain
<1>6. /\ Says(a) /\ a.call = polled[1].call /\ a.of = polled[1].of /\ a.says = says
      /\ Rank(a) = Rank(polled[1])
  BY <1>a, <1>4 DEF Buttons!Answer, Says, Rank
<1>7. \A i \in DOMAIN polled' : i \in Nat /\ i + 1 \in DOMAIN polled /\ polled'[i] = polled[i + 1]
  BY <1>3, <1>4
<1>8. \A i \in DOMAIN answers' : \/ i \in DOMAIN answers /\ answers'[i] = answers[i]
                                 \/ i = Len(answers) + 1 /\ answers'[i] = a
  BY <1>3, <1>5
<1>9. ButtonTypes' /\ CallsInTurn' /\ NothingElseFound' /\ ButtonsKnown'
  <2>1. \A i \in DOMAIN answers' : Says(answers'[i]) => answers'[i].says \in {"yes", "no", "error"}
    BY <1>6, <1>8 DEF ButtonTypes
  <2> QED
    BY <1>1, <1>4, <1>5, <2>1
    DEF ButtonTypes, CallsInTurn, Answers, Says, NothingElseFound, ButtonsKnown, Asked
<1>10. CallsOpen'
  BY <1>1 DEF CallsOpen, Answers
<1>11. \A i \in DOMAIN polled : i # 1 => i - 1 \in DOMAIN polled' /\ polled'[i - 1] = polled[i]
  BY <1>3, <1>4
<1>12. \A i \in DOMAIN answers : i \in DOMAIN answers' /\ answers'[i] = answers[i]
  BY <1>3, <1>5
<1>13. 1 \in DOMAIN polled /\ Len(answers) + 1 \in DOMAIN answers'
  BY <1>3, <1>5
<1>14. ChecksInTurn'
  <2>1. \A i, j \in DOMAIN polled' : i < j => Rank(polled'[i]) < Rank(polled'[j])
    BY <1>7 DEF ChecksInTurn
  <2>2. ASSUME NEW i \in DOMAIN answers', NEW j \in DOMAIN answers', i < j,
               Says(answers'[i]), Says(answers'[j])
        PROVE  Rank(answers'[i]) < Rank(answers'[j])
    <3>1. i \in DOMAIN answers /\ answers'[i] = answers[i]
      BY <1>3, <1>5, <2>2
    <3>2. CASE j \in DOMAIN answers /\ answers'[j] = answers[j]
      BY <2>2, <3>1, <3>2 DEF ChecksInTurn
    <3>3. CASE answers'[j] = a
      BY <1>6, <1>13, <2>2, <3>1, <3>3 DEF ChecksInTurn
    <3> QED
      BY <1>8, <3>2, <3>3
  <2>3. ASSUME NEW i \in DOMAIN answers', NEW j \in DOMAIN polled', Says(answers'[i])
        PROVE  Rank(answers'[i]) < Rank(polled'[j])
    <3>1. CASE i \in DOMAIN answers /\ answers'[i] = answers[i]
      BY <1>7, <2>3, <3>1 DEF ChecksInTurn
    <3>2. CASE answers'[i] = a
      <4>1. Rank(polled[1]) < Rank(polled[j + 1])
        <5>1. 1 < j + 1 /\ j + 1 \in DOMAIN polled
          BY <1>3, <1>4
        <5> QED
          BY <1>13, <5>1 DEF ChecksInTurn
      <4> QED
        BY <1>6, <1>7, <3>2, <4>1
    <3> QED
      BY <1>8, <3>1, <3>2
  <2>4. ASSUME NEW x PROVE Rank(x)' = Rank(x)
    BY DEF Rank
  <2>5. ASSUME NEW x PROVE Says(x)' = Says(x)
    BY DEF Says
  <2> QED
    BY <2>1, <2>2, <2>3 DEF ChecksInTurn, Rank, Says
<1>15. ASSUME NEW c, NEW p PROVE OnWay(c, p)' <=> OnWay(c, p)
  <2>1. OnWay(c, p) => OnWay(c, p)'
    <3>1. ASSUME NEW i \in DOMAIN polled, polled[i].call = c, polled[i].of = p PROVE OnWay(c, p)'
      <4>1. CASE i = 1
        BY <1>5, <1>6, <1>13, <3>1, <4>1 DEF OnWay, Says
      <4>2. CASE i # 1
        BY <1>11, <3>1, <4>2 DEF OnWay
      <4> QED
        BY <4>1, <4>2
    <3>2. ASSUME NEW i \in DOMAIN answers, Says(answers[i]), answers[i].call = c, answers[i].of = p
          PROVE  OnWay(c, p)'
      BY <1>12, <3>2 DEF OnWay, Says
    <3> QED
      BY <3>1, <3>2 DEF OnWay
  <2>2. OnWay(c, p)' => OnWay(c, p)
    <3>1. ASSUME NEW i \in DOMAIN polled', polled'[i].call = c, polled'[i].of = p PROVE OnWay(c, p)
      BY <1>7, <3>1 DEF OnWay
    <3>2. ASSUME NEW i \in DOMAIN answers', Says(answers'[i]), answers'[i].call = c, answers'[i].of = p
          PROVE  OnWay(c, p)
      BY <1>6, <1>8, <1>13, <3>2 DEF OnWay
    <3> QED
      BY <3>1, <3>2 DEF OnWay, Says
  <2> QED
    BY <2>1, <2>2
<1>16. ChecksCounted'
  <2>1. \A i \in DOMAIN polled' : polled'[i].call \in DOMAIN left /\ polled'[i].of \in capable
    BY <1>7 DEF ChecksCounted
  <2>2. \A i \in DOMAIN answers' :
           Says(answers'[i]) => answers'[i].call \in DOMAIN left /\ answers'[i].of \in capable
    BY <1>6, <1>8, <1>13 DEF ChecksCounted
  <2> QED
    BY <1>1, <1>15, <2>1, <2>2 DEF ChecksCounted, One, Says
<1>17. Calm' => Calm
  <2>1. ASSUME \A i \in DOMAIN answers' : Says(answers'[i]), NEW i \in DOMAIN answers PROVE Says(answers[i])
    BY <1>12, <2>1
  <2> QED
    BY <1>1, <2>1 DEF Calm, Says, Answers
<1>18. LastCallsRight'
  <2> SUFFICES ASSUME Calm', NEW c \in DOMAIN owner, Counts(c)
               PROVE  /\ \A i \in DOMAIN answers' :
                            answers'[i].call = c /\ answers'[i].of = Buttons!ConnectionModify =>
                                /\ answers'[i].says = "yes" => Buttons!ConnectionModify \in policy
                                /\ answers'[i].says = "no" => Buttons!ConnectionModify \notin policy
                      /\ c \in DOMAIN left =>
                            /\ Buttons!ConnectionModify \in found[c] => ModifyAllowed
                            /\ ModifyAllowed /\ ~OnWay(c, Buttons!ConnectionModify)' =>
                                  Buttons!ConnectionModify \in found[c] \/ c \in faulty
                      /\ \A i \in DOMAIN told :
                            told[i].type = "reply" /\ told[i].call = c =>
                              /\ Buttons!ConnectionModify \in told[i].permissions => ModifyAllowed
                              /\ ModifyAllowed => Buttons!ConnectionModify \in told[i].permissions
                                                  \/ c \in faulty
    BY <1>1 DEF LastCallsRight, Counts, ModifyAllowed
  <2>1. ASSUME NEW i \in DOMAIN answers', answers'[i].of = Buttons!ConnectionModify, answers'[i] = a
        PROVE  /\ answers'[i].says = "yes" => Buttons!ConnectionModify \in policy
               /\ answers'[i].says = "no" => Buttons!ConnectionModify \notin policy
    BY <1>2, <1>4, <1>6, <2>1
  <2> QED
    BY <1>8, <1>15, <1>17, <2>1 DEF LastCallsRight
<1>19. ShownRight'
  BY <1>1, <1>17 DEF ShownRight, Answered, Asked, ModifyAllowed
<1> QED
  BY <1>9, <1>10, <1>14, <1>16, <1>18, <1>19

LEMMA ButtonsCardinality == \A S : Buttons!Cardinality(S) = Cardinality(S)
BY DEF Buttons!Cardinality, Cardinality

LEMMA PermissionsCounted ==
    ASSUME NEW S \in SUBSET Buttons!Permission
    PROVE  Buttons!Cardinality(S) = One(Buttons!ConnectionModify \in S)
                                    + One(Buttons!HostnameModify \in S)
<1> USE DEF Buttons!Permission, Buttons!ConnectionModify, Buttons!HostnameModify, One
<1>1. Cardinality({}) = 0 /\ IsFiniteSet({})
  BY FS_EmptySet
<1>2. \A x \in Buttons!Permission : IsFiniteSet({x}) /\ Cardinality({x}) = 1
  BY FS_Singleton
<1>3. Cardinality({"connection-modify"} \union {"hostname-modify"}) = 1 + 1
  BY <1>2, FS_AddElement
<1>4. \/ S = {}
      \/ S = {"connection-modify"}
      \/ S = {"hostname-modify"}
      \/ S = {"connection-modify"} \union {"hostname-modify"}
  OBVIOUS
<1>5. CASE S = {}
  BY <1>1, <1>5, ButtonsCardinality
<1>6. CASE S = {"connection-modify"}
  BY <1>2, <1>6, ButtonsCardinality
<1>7. CASE S = {"hostname-modify"}
  BY <1>2, <1>7, ButtonsCardinality
<1>8. CASE S = {"connection-modify"} \union {"hostname-modify"}
  BY <1>3, <1>8, ButtonsCardinality
<1> QED
  BY <1>4, <1>5, <1>6, <1>7, <1>8

Perhaps(s, p, S, x) == s \o (IF p \in S THEN <<x>> ELSE <<>>)

LEMMA PerhapsAppended ==
    ASSUME NEW s, NEW p, NEW S, NEW x, NEW r, IsSequence(s),
           r = Perhaps(s, p, S, x)
    PROVE  /\ IsSequence(r)
           /\ Len(r) = Len(s) + (IF p \in S THEN 1 ELSE 0)
           /\ \A i \in DOMAIN s : i \in DOMAIN r /\ r[i] = s[i]
           /\ \A i \in DOMAIN r : \/ i \in DOMAIN s /\ r[i] = s[i]
                                  \/ p \in S /\ i = Len(s) + 1 /\ r[i] = x
           /\ p \in S => Len(s) + 1 \in DOMAIN r /\ r[Len(s) + 1] = x
<1>1. Len(s) \in Nat /\ DOMAIN s = 1 .. Len(s)
  BY SequenceDomain
<1>2. CASE p \in S
  <2>1. r = s \o <<x>>
    BY <1>2 DEF Perhaps
  <2>2. IsSequence(<<x>>) /\ Len(<<x>>) = 1 /\ <<x>>[1] = x
    BY SingleIsSequence
  <2>3. /\ IsSequence(r)
        /\ Len(r) = Len(s) + 1
        /\ \A i \in 1 .. Len(s) + 1 : r[i] = IF i <= Len(s) THEN s[i] ELSE <<x>>[i - Len(s)]
    BY <2>1, <2>2, ConcatIsSequence
  <2>4. DOMAIN r = 1 .. Len(s) + 1
    BY <2>3, SequenceDomain
  <2>5. r[Len(s) + 1] = x
    <3>1. Len(s) + 1 \in 1 .. Len(s) + 1 /\ ~(Len(s) + 1 <= Len(s)) /\ Len(s) + 1 - Len(s) = 1
      BY <1>1
    <3> QED
      BY <2>2, <2>3, <3>1
  <2> QED
    BY <1>1, <1>2, <2>3, <2>4, <2>5
<1>3. CASE p \notin S
  <2>1. r = s \o <<>>
    BY <1>3 DEF Perhaps
  <2>2. r = s
    BY <2>1, ConcatEmptySeq DEF IsSequence
  <2> QED
    BY <1>1, <1>3, <2>2
<1> QED
  BY <1>2, <1>3

LEMMA ButtonsGetPermissions ==
    ASSUME ButtonInv, Buttons!GetPermissions
    PROVE  ButtonInv'
<1> USE DEF ButtonInv
<1> DEFINE CM == Buttons!ConnectionModify
           HM == Buttons!HostnameModify
<1>1. /\ UNCHANGED <<capable, policy, answers, serving, told, owner, waiting, have, permissions,
                     buttons, made, authorized, cached, failed, faulty, unaware>>
      /\ waited # <<>>
      /\ waited' = Tail(waited)
  BY DEF Buttons!GetPermissions, Buttons!polkitVars, Buttons!editorVars
<1>c. PICK c : c = Head(waited)
  OBVIOUS
<1>x. PICK x : x = Buttons!Check(c, CM)
  OBVIOUS
<1>y. PICK y : y = Buttons!Check(c, HM)
  OBVIOUS
<1>m. PICK mid : mid = Perhaps(polled, CM, capable, x)
  OBVIOUS
<1>2. /\ polled' = Perhaps(mid, HM, capable, y)
      /\ left' = [k \in DOMAIN left \union {c} |->
                     IF k = c THEN Buttons!Cardinality(capable) ELSE left[k]]
      /\ found' = [k \in DOMAIN found \union {c} |-> IF k = c THEN {} ELSE found[k]]
  BY <1>c, <1>x, <1>y, <1>m DEF Buttons!GetPermissions, Buttons!StartChecks, Perhaps
<1>3. x.call = c /\ x.of = CM /\ y.call = c /\ y.of = HM
  BY <1>x, <1>y DEF Buttons!Check
<1>4. /\ IsSequence(waited')
      /\ Len(waited) \in Nat \ {0} /\ DOMAIN waited = 1 .. Len(waited)
      /\ DOMAIN waited' = 1 .. Len(waited) - 1
      /\ \A i \in 1 .. Len(waited) - 1 : waited'[i] = waited[i + 1]
      /\ c = waited[1]
  <2>1. IsSequence(waited)
    BY DEF ButtonTypes
  <2>2. /\ IsSequence(waited')
        /\ Len(waited) \in Nat \ {0}
        /\ Len(waited') = Len(waited) - 1
        /\ \A i \in 1 .. Len(waited) - 1 : waited'[i] = waited[i + 1]
        /\ Head(waited) = waited[1]
    BY <1>1, <2>1, TailIsSequence
  <2> QED
    BY <1>c, <2>1, <2>2, SequenceDomain
<1>5. \A i \in DOMAIN waited' : i \in Nat /\ i + 1 \in DOMAIN waited /\ waited'[i] = waited[i + 1]
  BY <1>4
<1>6. \A i \in DOMAIN waited : i # 1 => i - 1 \in DOMAIN waited' /\ waited'[i - 1] = waited[i]
  BY <1>4
<1>7. /\ 1 \in DOMAIN waited
      /\ c \in waiting /\ c \in 1 .. Len(owner) /\ c \notin DOMAIN left
      /\ \A d \in DOMAIN left : d < c
  <2>1. 1 \in DOMAIN waited
    BY <1>4
  <2>2. c \in waiting /\ \A d \in DOMAIN left : d < c
    BY <1>4, <2>1 DEF CallsOpen, CallsInTurn
  <2>3. c \in 1 .. Len(owner)
    BY <2>2, CallNumbers
  <2> QED
    BY <2>1, <2>2, <2>3
<1>8. /\ Len(owner) \in Nat
      /\ DOMAIN left \subseteq 1 .. Len(owner)
      /\ Len(polled) \in Nat /\ DOMAIN polled = 1 .. Len(polled)
      /\ IsSequence(polled) /\ capable \in SUBSET Buttons!Permission
  BY CallNumbers DEF ButtonTypes
<1>9. /\ IsSequence(mid)
      /\ Len(mid) = Len(polled) + (IF CM \in capable THEN 1 ELSE 0)
      /\ \A i \in DOMAIN polled : i \in DOMAIN mid /\ mid[i] = polled[i]
      /\ \A i \in DOMAIN mid : \/ i \in DOMAIN polled /\ mid[i] = polled[i]
                               \/ CM \in capable /\ i = Len(polled) + 1 /\ mid[i] = x
      /\ CM \in capable => Len(polled) + 1 \in DOMAIN mid /\ mid[Len(polled) + 1] = x
  <2> HIDE DEF CM
  <2> QED
    BY <1>m, <1>8, PerhapsAppended
<1>10. /\ IsSequence(polled')
       /\ \A i \in DOMAIN mid : i \in DOMAIN polled' /\ polled'[i] = mid[i]
       /\ \A i \in DOMAIN polled' : \/ i \in DOMAIN mid /\ polled'[i] = mid[i]
                                    \/ HM \in capable /\ i = Len(mid) + 1 /\ polled'[i] = y
       /\ HM \in capable => Len(mid) + 1 \in DOMAIN polled' /\ polled'[Len(mid) + 1] = y
  <2> PICK r : r = polled'
    OBVIOUS
  <2> HIDE DEF HM
  <2>2. r = Perhaps(mid, HM, capable, y)
    BY <1>2
  <2>3. /\ IsSequence(r)
        /\ \A i \in DOMAIN mid : i \in DOMAIN r /\ r[i] = mid[i]
        /\ \A i \in DOMAIN r : \/ i \in DOMAIN mid /\ r[i] = mid[i]
                               \/ HM \in capable /\ i = Len(mid) + 1 /\ r[i] = y
        /\ HM \in capable => Len(mid) + 1 \in DOMAIN r /\ r[Len(mid) + 1] = y
    BY <1>9, <2>2, PerhapsAppended
  <2> QED
    BY <2>3
<1>11. \A i \in DOMAIN polled : i \in DOMAIN polled' /\ polled'[i] = polled[i]
  BY <1>9, <1>10
<1>12. \A i \in DOMAIN polled' :
          \/ i \in DOMAIN polled /\ polled'[i] = polled[i]
          \/ CM \in capable /\ i = Len(polled) + 1 /\ polled'[i] = x
          \/ HM \in capable /\ i = Len(mid) + 1 /\ polled'[i] = y
  BY <1>9, <1>10
<1>13. CM \in capable => \E i \in DOMAIN polled' : polled'[i] = x
  BY <1>9, <1>10
<1>14. HM \in capable => \E i \in DOMAIN polled' : polled'[i] = y
  BY <1>10
<1>15. CM # HM
  BY DEF Buttons!ConnectionModify, Buttons!HostnameModify
<1>16. ButtonTypes'
  BY <1>1, <1>2, <1>4, <1>10 DEF ButtonTypes, Says
<1>17. CallsOpen'
  <2>1. DOMAIN left' = DOMAIN left \union {c}
    BY <1>2
  <2>2. DOMAIN left' \subseteq waiting
    BY <1>7, <2>1 DEF CallsOpen
  <2>3. \A i \in DOMAIN waited' : waited'[i] \in waiting
    BY <1>5 DEF CallsOpen
  <2>4. ASSUME NEW d \in waiting
        PROVE  \/ d \in DOMAIN left'
               \/ \E i \in DOMAIN waited' : waited'[i] = d
               \/ \E i \in DOMAIN told : Answers(told[i]) /\ told[i].call = d
    <3>1. ASSUME NEW i \in DOMAIN waited, waited[i] = d
          PROVE  d \in DOMAIN left' \/ \E j \in DOMAIN waited' : waited'[j] = d
      BY <1>4, <1>6, <2>1, <3>1
    <3> QED
      BY <2>1, <3>1 DEF CallsOpen
  <2>5. serving'
    BY <1>1 DEF CallsOpen
  <2> QED
    BY <1>1, <2>2, <2>3, <2>4, <2>5 DEF CallsOpen, Answers
<1>18. ASSUME NEW i \in DOMAIN polled PROVE Rank(polled[i]) < 2 * c
  <2>1. polled[i].call \in DOMAIN left
    BY DEF ChecksCounted
  <2>2. polled[i].call < c /\ polled[i].call \in Nat /\ c \in Nat
    BY <1>7, <1>8, <2>1
  <2> QED
    BY <2>2 DEF Rank
<1>19. ASSUME NEW i \in DOMAIN answers, Says(answers[i]) PROVE Rank(answers[i]) < 2 * c
  <2>1. answers[i].call \in DOMAIN left
    BY <1>19 DEF ChecksCounted
  <2>2. answers[i].call < c /\ answers[i].call \in Nat /\ c \in Nat
    BY <1>7, <1>8, <2>1
  <2> QED
    BY <2>2 DEF Rank
<1>20. Rank(x) = 2 * c /\ Rank(y) = 2 * c + 1
  BY <1>3, <1>7, <1>8, <1>15 DEF Rank
<1>21. c \in Nat
  BY <1>7, <1>8
<1>22. ASSUME NEW i \in DOMAIN polled PROVE Rank(polled[i]) \in Nat
  <2>1. polled[i].call \in Nat
    BY <1>8 DEF ChecksCounted
  <2> QED
    BY <2>1 DEF Rank
<1>23. ASSUME NEW i \in DOMAIN answers, Says(answers[i]) PROVE Rank(answers[i]) \in Nat
  <2>1. answers[i].call \in Nat
    BY <1>8, <1>23 DEF ChecksCounted
  <2> QED
    BY <2>1 DEF Rank
<1>24. ChecksInTurn'
  <2>1. ASSUME NEW i \in DOMAIN polled', NEW j \in DOMAIN polled', i < j
        PROVE  Rank(polled'[i]) < Rank(polled'[j])
    <3>1. CASE j \in DOMAIN polled /\ polled'[j] = polled[j]
      <4>1. i \in DOMAIN polled
        <5>1. i \in Nat /\ i # 0
          BY <1>10, SequenceDomain
        <5> QED
          BY <1>8, <2>1, <3>1, <5>1
      <4> QED
        BY <1>11, <2>1, <3>1, <4>1 DEF ChecksInTurn
    <3>2. CASE polled'[j] = x /\ j = Len(polled) + 1
      <4>1. i \in DOMAIN polled
        <5>1. i \in Nat /\ i # 0
          BY <1>10, SequenceDomain
        <5> QED
          BY <1>8, <2>1, <3>2, <5>1
      <4> QED
        BY <1>11, <1>18, <1>20, <3>2, <4>1
    <3>3. CASE polled'[j] = y /\ j = Len(mid) + 1
      <4>1. (polled'[i] = polled[i] /\ i \in DOMAIN polled) \/ polled'[i] = x
        BY <1>12, <2>1, <3>3
      <4> QED
        BY <1>18, <1>20, <1>21, <1>22, <3>3, <4>1
    <3> QED
      BY <1>12, <3>1, <3>2, <3>3
  <2>2. ASSUME NEW i \in DOMAIN answers, NEW j \in DOMAIN polled', Says(answers[i])
        PROVE  Rank(answers[i]) < Rank(polled'[j])
    <3>1. CASE j \in DOMAIN polled /\ polled'[j] = polled[j]
      BY <2>2, <3>1 DEF ChecksInTurn
    <3>2. CASE polled'[j] = x \/ polled'[j] = y
      BY <1>19, <1>20, <1>21, <1>23, <2>2, <3>2
    <3> QED
      BY <1>12, <3>1, <3>2
  <2> QED
    BY <1>1, <2>1, <2>2 DEF ChecksInTurn, Rank, Says
<1>25. CallsInTurn'
  <2>1. \A i, j \in DOMAIN waited' : i < j => waited'[i] < waited'[j]
    BY <1>5 DEF CallsInTurn
  <2>2. ASSUME NEW d \in DOMAIN left', NEW i \in DOMAIN waited' PROVE d < waited'[i]
    <3>1. c < waited[i + 1]
      <4>1. 1 < i + 1 /\ i + 1 \in DOMAIN waited
        BY <1>4, <1>5
      <4> QED
        BY <1>4, <1>7, <4>1 DEF CallsInTurn
    <3>2. d = c \/ d \in DOMAIN left
      BY <1>2
    <3> QED
      BY <1>5, <3>1, <3>2 DEF CallsInTurn
  <2>3. ASSUME NEW i \in DOMAIN told, Answers(told[i])
        PROVE  /\ \A d \in DOMAIN left' : told[i].call < d
               /\ \A j \in DOMAIN waited' : told[i].call < waited'[j]
    <3>1. told[i].call < c
      BY <1>4, <1>7, <2>3 DEF CallsInTurn
    <3>2. \A d \in DOMAIN left' : d = c \/ d \in DOMAIN left
      BY <1>2
    <3> QED
      BY <1>5, <2>3, <3>1, <3>2 DEF CallsInTurn
  <2> QED
    BY <1>1, <2>1, <2>2, <2>3 DEF CallsInTurn, Answers
<1>26. ASSUME NEW d, NEW p, d # c PROVE OnWay(d, p)' <=> OnWay(d, p)
  <2>1. ASSUME NEW i \in DOMAIN polled', polled'[i].call = d
        PROVE  i \in DOMAIN polled /\ polled'[i] = polled[i]
    BY <1>3, <1>12, <1>26, <2>1
  <2> QED
    BY <1>1, <1>11, <2>1 DEF OnWay, Says
<1>27. /\ OnWay(c, CM)' <=> CM \in capable
       /\ OnWay(c, HM)' <=> HM \in capable
  <2>1. \A i \in DOMAIN polled : polled[i].call # c
    BY <1>7 DEF ChecksCounted
  <2>2. \A i \in DOMAIN answers : Says(answers[i]) => answers[i].call # c
    BY <1>7 DEF ChecksCounted
  <2>3. \A i \in DOMAIN polled' : polled'[i].call = c =>
           \/ CM \in capable /\ polled'[i] = x
           \/ HM \in capable /\ polled'[i] = y
    BY <1>12, <2>1
  <2> QED
    BY <1>1, <1>3, <1>13, <1>14, <1>15, <2>2, <2>3 DEF OnWay, Says
<1>28. ChecksCounted'
  <2>1. \A i \in DOMAIN polled' : polled'[i].call \in DOMAIN left' /\ polled'[i].of \in capable
    BY <1>2, <1>3, <1>12 DEF ChecksCounted
  <2>2. \A i \in DOMAIN answers :
           Says(answers[i]) => answers[i].call \in DOMAIN left' /\ answers[i].of \in capable
    BY <1>2 DEF ChecksCounted
  <2>3. ASSUME NEW d \in DOMAIN left'
        PROVE  /\ left'[d] = One(OnWay(d, CM)') + One(OnWay(d, HM)')
               /\ capable # {} => left'[d] >= 1
    <3>1. CASE d = c
      <4>1. left'[c] = One(CM \in capable) + One(HM \in capable)
        BY <1>2, <1>8, PermissionsCounted
      <4>2. capable # {} => CM \in capable \/ HM \in capable
        BY <1>8 DEF Buttons!Permission
      <4> QED
        BY <1>27, <3>1, <4>1, <4>2 DEF One
    <3>2. CASE d # c
      <4>1. d \in DOMAIN left /\ left'[d] = left[d]
        BY <1>2, <3>2
      <4> QED
        BY <1>26, <3>2, <4>1 DEF ChecksCounted, One
    <3> QED
      BY <3>1, <3>2
  <2> QED
    BY <1>1, <2>1, <2>2, <2>3 DEF ChecksCounted, One, Says
<1>29. NothingElseFound'
  <2>1. ASSUME CM \notin capable, NEW d \in DOMAIN found' PROVE CM \notin found'[d]
    BY <1>2, <2>1 DEF NothingElseFound
  <2> QED
    BY <1>1, <2>1 DEF NothingElseFound
<1>30. ButtonsKnown'
  BY <1>1 DEF ButtonsKnown, Asked
<1>31. Calm' => Calm
  BY <1>1 DEF Calm, Says, Answers
<1>32. LastCallsRight'
  <2> SUFFICES ASSUME Calm, NEW d \in DOMAIN owner, Counts(d), d \in DOMAIN left'
               PROVE  /\ CM \in found'[d] => ModifyAllowed
                      /\ ModifyAllowed /\ ~OnWay(d, CM)' => CM \in found'[d] \/ d \in faulty
    BY <1>1, <1>31 DEF LastCallsRight, Counts, ModifyAllowed
  <2>1. CASE d = c
    BY <1>2, <1>27, <2>1 DEF ModifyAllowed
  <2>2. CASE d # c
    <3>1. d \in DOMAIN left /\ found'[d] = found[d]
      BY <1>2, <2>2 DEF ButtonTypes
    <3> QED
      BY <1>26, <2>2, <3>1 DEF LastCallsRight
  <2> QED
    BY <2>1, <2>2
<1>33. ShownRight'
  BY <1>1, <1>31 DEF ShownRight, Answered, Asked, ModifyAllowed
<1> QED
  BY <1>16, <1>17, <1>24, <1>25, <1>28, <1>29, <1>30, <1>32, <1>33

(* What PolicyKit's next answer, or Changed, was for *)
LEMMA AnswerTaken ==
    ASSUME ButtonInv, answers # <<>>, answers' = Tail(answers), polled' = polled
    PROVE  /\ Len(answers) \in Nat \ {0}
           /\ IsSequence(answers')
           /\ Head(answers) = answers[1] /\ 1 \in DOMAIN answers
           /\ \A i \in DOMAIN answers' :
                 i \in Nat /\ i + 1 \in DOMAIN answers /\ answers'[i] = answers[i + 1]
           /\ \A i \in DOMAIN answers : i # 1 => i - 1 \in DOMAIN answers' /\ answers'[i - 1] = answers[i]
           /\ ChecksInTurn'
           /\ \A c, p : OnWay(c, p)' <=>
                 /\ OnWay(c, p)
                 /\ ~(Says(answers[1]) /\ answers[1].call = c /\ answers[1].of = p)
<1> USE DEF ButtonInv
<1>1. /\ IsSequence(answers')
      /\ Len(answers) \in Nat \ {0} /\ DOMAIN answers = 1 .. Len(answers)
      /\ DOMAIN answers' = 1 .. Len(answers) - 1
      /\ \A i \in 1 .. Len(answers) - 1 : answers'[i] = answers[i + 1]
      /\ Head(answers) = answers[1]
  <2>1. IsSequence(answers)
    BY DEF ButtonTypes
  <2>2. /\ IsSequence(answers')
        /\ Len(answers) \in Nat \ {0}
        /\ Len(answers') = Len(answers) - 1
        /\ \A i \in 1 .. Len(answers) - 1 : answers'[i] = answers[i + 1]
        /\ Head(answers) = answers[1]
    BY <2>1, TailIsSequence
  <2> QED
    BY <2>1, <2>2, SequenceDomain
<1>2. \A i \in DOMAIN answers' : i \in Nat /\ i + 1 \in DOMAIN answers /\ answers'[i] = answers[i + 1]
  BY <1>1
<1>3. \A i \in DOMAIN answers : i # 1 => i - 1 \in DOMAIN answers' /\ answers'[i - 1] = answers[i]
  BY <1>1
<1>4. 1 \in DOMAIN answers
  BY <1>1
<1>5. ChecksInTurn'
  <2>1. \A i, j \in DOMAIN answers' :
           i < j /\ Says(answers'[i]) /\ Says(answers'[j]) => Rank(answers'[i]) < Rank(answers'[j])
    BY <1>2 DEF ChecksInTurn
  <2>2. \A i \in DOMAIN answers', j \in DOMAIN polled :
           Says(answers'[i]) => Rank(answers'[i]) < Rank(polled[j])
    BY <1>2 DEF ChecksInTurn
  <2> QED
    BY <2>1, <2>2 DEF ChecksInTurn, Rank, Says
<1>6. \A x : Rank(x) \in Nat => ~(Rank(x) < Rank(x))
  BY DEF Rank
<1>7. /\ \A i \in DOMAIN polled : Rank(polled[i]) \in Nat
      /\ \A i \in DOMAIN answers : Says(answers[i]) => Rank(answers[i]) \in Nat
  <2>1. /\ \A i \in DOMAIN polled : polled[i].call \in 1 .. Len(owner)
        /\ \A i \in DOMAIN answers : Says(answers[i]) => answers[i].call \in 1 .. Len(owner)
        /\ Len(owner) \in Nat
    BY CallNumbers
  <2> QED
    BY <2>1 DEF Rank
<1>8. ASSUME NEW c, NEW p
      PROVE  OnWay(c, p)' <=>
                 /\ OnWay(c, p)
                 /\ ~(Says(answers[1]) /\ answers[1].call = c /\ answers[1].of = p)
  <2> DEFINE Mine(x) == x.call = c /\ x.of = p
  <2>1. \A x, y : Mine(x) /\ Mine(y) => Rank(x) = Rank(y)
    BY DEF Rank
  <2>2. ASSUME Says(answers[1]), Mine(answers[1])
        PROVE  /\ \A i \in DOMAIN polled : ~Mine(polled[i])
               /\ \A i \in DOMAIN answers' : Says(answers'[i]) => ~Mine(answers'[i])
    <3>1. ASSUME NEW i \in DOMAIN polled PROVE ~Mine(polled[i])
      <4>1. Rank(answers[1]) < Rank(polled[i])
        BY <1>4, <2>2 DEF ChecksInTurn
      <4>2. Rank(answers[1]) # Rank(polled[i])
        BY <1>4, <1>7, <2>2, <4>1
      <4> QED
        BY <2>1, <2>2, <4>2
    <3>2. ASSUME NEW i \in DOMAIN answers', Says(answers'[i]) PROVE ~Mine(answers'[i])
      <4>1. 1 < i + 1
        BY <1>1
      <4>2. Rank(answers[1]) < Rank(answers'[i])
        BY <1>2, <1>4, <2>2, <3>2, <4>1 DEF ChecksInTurn
      <4>3. Rank(answers[1]) # Rank(answers'[i])
        BY <1>4, <1>7, <2>2, <4>2
      <4> QED
        BY <2>1, <2>2, <4>3
    <3> QED
      BY <3>1, <3>2
  <2>3. OnWay(c, p)' => OnWay(c, p)
    BY <1>2 DEF OnWay, Says
  <2>4. OnWay(c, p)' => ~(Says(answers[1]) /\ Mine(answers[1]))
    BY <2>2 DEF OnWay, Says
  <2>5. OnWay(c, p) /\ ~(Says(answers[1]) /\ Mine(answers[1])) => OnWay(c, p)'
    <3>1. ASSUME NEW i \in DOMAIN answers, Says(answers[i]), Mine(answers[i]), i # 1
          PROVE  OnWay(c, p)'
      BY <1>3, <3>1 DEF OnWay, Says
    <3> QED
      BY <3>1 DEF OnWay
  <2> QED
    BY <2>3, <2>4, <2>5
<1> QED
  BY <1>1, <1>2, <1>3, <1>4, <1>5, <1>8

LEMMA ButtonsHearChange ==
    ASSUME ButtonInv, Buttons!HandlePolkit, Head(answers).type = "changed"
    PROVE  ButtonInv'
<1> USE DEF ButtonInv
<1>1. /\ UNCHANGED <<capable, policy, polled, serving, left, found, waited, owner, waiting, have,
                     permissions, buttons, made, authorized, cached, failed, faulty, unaware>>
      /\ answers # <<>>
      /\ answers' = Tail(answers)
      /\ told' = Append(told, Buttons!CheckPermissions)
  BY DEF Buttons!HandlePolkit, Buttons!polkitVars, Buttons!daemonVars, Buttons!editorVars
<1>2. /\ IsSequence(answers')
      /\ Head(answers) = answers[1] /\ 1 \in DOMAIN answers
      /\ \A i \in DOMAIN answers' :
            i \in Nat /\ i + 1 \in DOMAIN answers /\ answers'[i] = answers[i + 1]
      /\ ChecksInTurn'
      /\ \A c, p : OnWay(c, p)' <=>
            OnWay(c, p) /\ ~(Says(answers[1]) /\ answers[1].call = c /\ answers[1].of = p)
  BY <1>1, AnswerTaken
<1>3. ~Says(answers[1])
  BY <1>2 DEF Says
<1>4. \A c, p : OnWay(c, p)' <=> OnWay(c, p)
  BY <1>2, <1>3
<1>5. /\ IsSequence(told')
      /\ Len(told) \in Nat /\ DOMAIN told = 1 .. Len(told)
      /\ DOMAIN told' = 1 .. Len(told) + 1
      /\ \A i \in 1 .. Len(told) : told'[i] = told[i]
      /\ told'[Len(told) + 1] = Buttons!CheckPermissions
  <2>1. IsSequence(told) /\ Len(told) \in Nat /\ DOMAIN told = 1 .. Len(told)
    BY CallNumbers DEF ButtonTypes
  <2>2. /\ IsSequence(told')
        /\ Len(told') = Len(told) + 1
        /\ \A i \in 1 .. Len(told) : told'[i] = told[i]
        /\ told'[Len(told) + 1] = Buttons!CheckPermissions
    BY <1>1, <2>1, AppendIsSequence
  <2> QED
    BY <2>1, <2>2, SequenceDomain
<1>6. Buttons!CheckPermissions.type = "check-permissions"
  BY DEF Buttons!CheckPermissions
<1>7. ~Calm'
  <2>1. Len(told) + 1 \in DOMAIN told'
    BY <1>5
  <2> QED
    BY <1>5, <1>6, <2>1 DEF Calm, Answers
<1>8. \A i \in DOMAIN told : i \in DOMAIN told' /\ told'[i] = told[i]
  BY <1>5
<1>9. \A i \in DOMAIN told' : \/ i \in DOMAIN told /\ told'[i] = told[i]
                              \/ told'[i].type = "check-permissions"
  BY <1>5, <1>6
<1>10. ButtonTypes'
  <2>1. \A i \in DOMAIN told' : told'[i].type \in {"reply", "error", "check-permissions"}
    BY <1>9 DEF ButtonTypes
  <2>2. \A i \in DOMAIN answers' : Says(answers'[i]) => answers'[i].says \in {"yes", "no", "error"}
    BY <1>2 DEF ButtonTypes
  <2> QED
    BY <1>1, <1>2, <1>5, <2>1, <2>2 DEF ButtonTypes, Says
<1>11. CallsOpen'
  <2>1. \A i \in DOMAIN told' : Answers(told'[i]) => told'[i].call \in waiting
    BY <1>9 DEF CallsOpen, Answers
  <2>2. \A c \in waiting : (\E i \in DOMAIN told : Answers(told[i]) /\ told[i].call = c)
                           => \E i \in DOMAIN told' : Answers(told'[i]) /\ told'[i].call = c
    BY <1>8
  <2>3. serving'
    BY <1>1 DEF CallsOpen
  <2> QED
    BY <1>1, <2>1, <2>2, <2>3 DEF CallsOpen, Answers
<1>12. CallsInTurn'
  BY <1>1, <1>9 DEF CallsInTurn, Answers
<1>13. ChecksCounted'
  BY <1>1, <1>2, <1>4 DEF ChecksCounted, Says, One
<1>14. NothingElseFound'
  BY <1>1, <1>9 DEF NothingElseFound
<1>15. ButtonsKnown'
  BY <1>1 DEF ButtonsKnown, Asked
<1> QED
  BY <1>2, <1>7, <1>10, <1>11, <1>12, <1>13, <1>14, <1>15 DEF LastCallsRight, ShownRight

(* Checks are answered in the order of the calls, so the calls left have    *)
(* their next answer, or check, behind the one at hand.                     *)
LEMMA CallsLeftAreLater ==
    ASSUME ButtonInv, 1 \in DOMAIN answers, Says(answers[1]),
           NEW d \in DOMAIN left, d # answers[1].call
    PROVE  answers[1].call < d
<1> USE DEF ButtonInv
<1> DEFINE c == answers[1].call
<1>1. c \in Nat /\ d \in Nat
  BY CallNumbers
<1>2. capable # {} /\ c \in DOMAIN left
  BY DEF ChecksCounted
<1>3. OnWay(d, Buttons!ConnectionModify) \/ OnWay(d, Buttons!HostnameModify)
  BY <1>2 DEF ChecksCounted, One
<1>4. \A x : x.call \in Nat => Rank(x) \in {2 * x.call, 2 * x.call + 1}
  BY DEF Rank
<1>5. ASSUME NEW x, x.call = d, Rank(answers[1]) < Rank(x)
      PROVE  c < d
  <2>1. 2 * c <= Rank(answers[1]) /\ Rank(x) <= 2 * d + 1 /\ Rank(answers[1]) \in Nat /\ Rank(x) \in Nat
    BY <1>1, <1>4, <1>5
  <2>2. 2 * c < 2 * d + 1
    BY <1>1, <1>5, <2>1
  <2> QED
    BY <1>1, <2>2
<1>6. ASSUME NEW i \in DOMAIN polled, polled[i].call = d PROVE c < d
  <2>1. Rank(answers[1]) < Rank(polled[i])
    BY DEF ChecksInTurn
  <2> QED
    BY <1>5, <1>6, <2>1
<1>7. ASSUME NEW i \in DOMAIN answers, Says(answers[i]), answers[i].call = d PROVE c < d
  <2>1. 1 < i
    <3>1. i # 1
      BY <1>7
    <3>2. i \in Nat /\ i # 0
      BY CallNumbers
    <3> QED
      BY <3>1, <3>2
  <2>2. Rank(answers[1]) < Rank(answers[i])
    BY <1>7, <2>1 DEF ChecksInTurn
  <2> QED
    BY <1>5, <1>7, <2>2
<1> QED
  BY <1>3, <1>6, <1>7 DEF OnWay

(* What one of the checks of a call adds to what was found for it *)
FoundBy(a) ==
    found[a.call] \union (IF a.says = "yes" THEN {a.of} ELSE {})

LEMMA FoundIsRight ==
    ASSUME ButtonInv, 1 \in DOMAIN answers, Says(answers[1]),
           faulty' = IF answers[1].says = "error" THEN faulty \union {answers[1].call} ELSE faulty
    PROVE  /\ Buttons!ConnectionModify \in FoundBy(answers[1]) => Buttons!ConnectionModify \in capable
           /\ Calm /\ answers[1].call \in DOMAIN owner /\ Counts(answers[1].call) =>
                 /\ Buttons!ConnectionModify \in FoundBy(answers[1]) => ModifyAllowed
                 /\ ModifyAllowed /\ (OnWay(answers[1].call, Buttons!ConnectionModify) =>
                                         answers[1].of = Buttons!ConnectionModify) =>
                       \/ Buttons!ConnectionModify \in FoundBy(answers[1])
                       \/ answers[1].call \in faulty'
<1> USE DEF ButtonInv
<1> DEFINE a == answers[1]
           c == answers[1].call
           CM == Buttons!ConnectionModify
<1>1. /\ c \in DOMAIN left /\ c \in DOMAIN found /\ a.of \in capable
      /\ a.says \in {"yes", "no", "error"}
  BY DEF ChecksCounted, ButtonTypes
<1>2. CM \in FoundBy(a) => CM \in found[c] \/ (a.says = "yes" /\ a.of = CM)
  BY DEF FoundBy
<1>3. CM \in FoundBy(a) => CM \in capable
  BY <1>1, <1>2 DEF NothingElseFound
<1>4. ASSUME Calm, c \in DOMAIN owner, Counts(c)
      PROVE  /\ CM \in FoundBy(a) => ModifyAllowed
             /\ ModifyAllowed /\ (OnWay(c, CM) => a.of = CM) => CM \in FoundBy(a) \/ c \in faulty'
  <2>1. a.of = CM => /\ a.says = "yes" => CM \in policy
                     /\ a.says = "no" => CM \notin policy
    BY <1>4 DEF LastCallsRight
  <2>2. /\ CM \in found[c] => ModifyAllowed
        /\ ModifyAllowed /\ ~OnWay(c, CM) => CM \in found[c] \/ c \in faulty
    BY <1>1, <1>4 DEF LastCallsRight
  <2>3. CM \in FoundBy(a) => ModifyAllowed
    BY <1>1, <1>2, <2>1, <2>2 DEF ModifyAllowed
  <2>4. ASSUME ModifyAllowed, OnWay(c, CM) => a.of = CM PROVE CM \in FoundBy(a) \/ c \in faulty'
    <3>1. CASE OnWay(c, CM)
      <4>1. a.says # "no"
        BY <2>1, <2>4, <3>1 DEF ModifyAllowed
      <4>2. CASE a.says = "yes"
        BY <2>4, <3>1, <4>2 DEF FoundBy
      <4>3. CASE a.says = "error"
        BY <4>3
      <4> QED
        BY <1>1, <4>1, <4>2, <4>3
    <3>2. CASE ~OnWay(c, CM)
      BY <2>2, <2>4, <3>2 DEF FoundBy
    <3> QED
      BY <3>1, <3>2
  <2> QED
    BY <2>3, <2>4
<1> QED
  BY <1>3, <1>4

LEMMA ButtonsHearAnswer ==
    ASSUME ButtonInv, Buttons!HandlePolkit, Head(answers).type # "changed"
    PROVE  ButtonInv'
<1> USE DEF ButtonInv
<1> DEFINE CM == Buttons!ConnectionModify
           HM == Buttons!HostnameModify
<1>0. PICK a : a = Head(answers)
  OBVIOUS
<1>1. /\ UNCHANGED <<capable, policy, polled, serving, waited, owner, waiting, have,
                     permissions, buttons, made, authorized, cached, failed, unaware>>
      /\ answers # <<>>
      /\ answers' = Tail(answers)
      /\ Buttons!PermissionCallDone(a)
  BY <1>0 DEF Buttons!HandlePolkit, Buttons!polkitVars, Buttons!daemonVars, Buttons!editorVars
<1>2. /\ IsSequence(answers')
      /\ Head(answers) = answers[1] /\ 1 \in DOMAIN answers
      /\ \A i \in DOMAIN answers' :
            i \in Nat /\ i + 1 \in DOMAIN answers /\ answers'[i] = answers[i + 1]
      /\ ChecksInTurn'
      /\ \A d, p : OnWay(d, p)' <=>
            OnWay(d, p) /\ ~(Says(answers[1]) /\ answers[1].call = d /\ answers[1].of = p)
  BY <1>1, AnswerTaken
<1>3. a = answers[1] /\ Says(answers[1]) /\ Says(a)
  BY <1>0, <1>2 DEF Says
<1>c. PICK c : c = a.call
  OBVIOUS
<1>f. PICK perms : perms = FoundBy(a)
  OBVIOUS
<1>4. /\ faulty' = IF a.says = "error" THEN faulty \union {c} ELSE faulty
      /\ left[c] = 1 =>
            /\ told' = Append(told, Buttons!Reply(c, perms))
            /\ left' = [k \in DOMAIN left \ {c} |-> left[k]]
            /\ found' = [k \in DOMAIN found \ {c} |-> found[k]]
      /\ left[c] # 1 =>
            /\ told' = told
            /\ left' = [left EXCEPT ![c] = @ - 1]
            /\ found' = [found EXCEPT ![c] = perms]
  BY <1>1, <1>c, <1>f DEF Buttons!PermissionCallDone, Buttons!Without, FoundBy
<1>5. /\ c \in DOMAIN left /\ DOMAIN found = DOMAIN left /\ c \in waiting /\ c \in DOMAIN owner
      /\ a.of \in capable /\ a.of \in {CM, HM} /\ CM # HM /\ capable # {}
  BY <1>2, <1>3, <1>c
  DEF ChecksCounted, ButtonTypes, CallsOpen, Buttons!Permission, Buttons!ConnectionModify,
      Buttons!HostnameModify
<1>6. \A d, p : OnWay(d, p)' <=> OnWay(d, p) /\ ~(c = d /\ a.of = p)
  BY <1>2, <1>3, <1>c
<1>7. OnWay(c, a.of)
  BY <1>2, <1>3, <1>c DEF OnWay
<1>8. /\ left[c] = One(OnWay(c, CM)) + One(OnWay(c, HM))
      /\ left[c] >= 1
  BY <1>5 DEF ChecksCounted
<1>9. /\ CM \in perms => CM \in capable
      /\ Calm /\ Counts(c) =>
            /\ CM \in perms => ModifyAllowed
            /\ ModifyAllowed /\ (OnWay(c, CM) => a.of = CM) => CM \in perms \/ c \in faulty'
  BY <1>2, <1>3, <1>4, <1>5, <1>c, <1>f, FoundIsRight
<1>10. ASSUME NEW d \in DOMAIN left, d # c PROVE c < d
  BY <1>2, <1>3, <1>10, <1>c, CallsLeftAreLater
<1>11. \A i \in DOMAIN answers' : Says(answers'[i]) => answers'[i].says \in {"yes", "no", "error"}
  BY <1>2 DEF ButtonTypes
<1>12. ButtonsKnown'
  BY <1>1 DEF ButtonsKnown, Asked
<1>13. \A d \in faulty : d \in faulty'
  BY <1>4
<1>14. ASSUME \A i \in DOMAIN answers' : Says(answers'[i]), NEW i \in DOMAIN answers PROVE Says(answers[i])
  <2>1. CASE i = 1
    BY <1>3, <2>1
  <2>2. CASE i # 1
    <3>1. i - 1 \in DOMAIN answers' /\ answers'[i - 1] = answers[i]
      BY <1>1, <2>2, AnswerTaken
    <3> QED
      BY <1>14, <3>1
  <2> QED
    BY <2>1, <2>2
<1>15. CASE left[c] # 1
  <2>1. /\ told' = told
        /\ DOMAIN left' = DOMAIN left /\ DOMAIN found' = DOMAIN left
        /\ left'[c] = left[c] - 1 /\ found'[c] = perms
        /\ \A d \in DOMAIN left : d # c => left'[d] = left[d] /\ found'[d] = found[d]
    BY <1>4, <1>5, <1>15
  <2>2. ButtonTypes' /\ CallsOpen' /\ CallsInTurn'
    BY <1>1, <1>2, <1>11, <2>1 DEF ButtonTypes, CallsOpen, CallsInTurn, Answers, Says
  <2>3. ChecksCounted'
    <3>1. ASSUME NEW d \in DOMAIN left
          PROVE  /\ left'[d] = One(OnWay(d, CM)') + One(OnWay(d, HM)')
                 /\ left'[d] >= 1
      <4>1. CASE d = c
        BY <1>5, <1>6, <1>7, <1>8, <1>15, <2>1, <4>1 DEF One
      <4>2. CASE d # c
        BY <1>5, <1>6, <2>1, <4>2 DEF ChecksCounted, One
      <4> QED
        BY <4>1, <4>2
    <3>2. \A i \in DOMAIN answers' :
             Says(answers'[i]) => answers'[i].call \in DOMAIN left /\ answers'[i].of \in capable
      BY <1>2 DEF ChecksCounted
    <3> QED
      BY <1>1, <2>1, <3>1, <3>2 DEF ChecksCounted, One, Says
  <2>4. NothingElseFound'
    BY <1>1, <1>9, <2>1 DEF NothingElseFound, ButtonTypes
  <2>5. Calm' => Calm
    BY <1>1, <1>14, <2>1 DEF Calm, Says, Answers
  <2>6. LastCallsRight'
    <3> SUFFICES ASSUME Calm, NEW d \in DOMAIN owner, Counts(d)
                 PROVE  /\ \A i \in DOMAIN answers' :
                              answers'[i].call = d /\ answers'[i].of = CM =>
                                  /\ answers'[i].says = "yes" => CM \in policy
                                  /\ answers'[i].says = "no" => CM \notin policy
                        /\ d \in DOMAIN left =>
                              /\ CM \in found'[d] => ModifyAllowed
                              /\ ModifyAllowed /\ ~OnWay(d, CM)' => CM \in found'[d] \/ d \in faulty'
                        /\ \A i \in DOMAIN told :
                              told[i].type = "reply" /\ told[i].call = d =>
                                /\ CM \in told[i].permissions => ModifyAllowed
                                /\ ModifyAllowed => CM \in told[i].permissions \/ d \in faulty'
      BY <1>1, <2>1, <2>5 DEF LastCallsRight, Counts, ModifyAllowed
    <3>1. \A i \in DOMAIN answers' :
             answers'[i].call = d /\ answers'[i].of = CM =>
                 /\ answers'[i].says = "yes" => CM \in policy
                 /\ answers'[i].says = "no" => CM \notin policy
      BY <1>2 DEF LastCallsRight
    <3>2. \A i \in DOMAIN told :
             told[i].type = "reply" /\ told[i].call = d =>
                 /\ CM \in told[i].permissions => ModifyAllowed
                 /\ ModifyAllowed => CM \in told[i].permissions \/ d \in faulty'
      BY <1>13 DEF LastCallsRight
    <3>3. ASSUME d \in DOMAIN left
          PROVE  /\ CM \in found'[d] => ModifyAllowed
                 /\ ModifyAllowed /\ ~OnWay(d, CM)' => CM \in found'[d] \/ d \in faulty'
      <4>1. CASE d = c
        <5>1. ~OnWay(c, CM)' => (OnWay(c, CM) => a.of = CM)
          BY <1>6
        <5> QED
          BY <1>9, <2>1, <4>1, <5>1
      <4>2. CASE d # c
        BY <1>6, <1>13, <2>1, <3>3, <4>2 DEF LastCallsRight
      <4> QED
        BY <4>1, <4>2
    <3> QED
      BY <3>1, <3>2, <3>3
  <2>7. ShownRight'
    BY <1>1, <2>5 DEF ShownRight, Answered, Asked, ModifyAllowed
  <2> QED
    BY <1>2, <1>12, <2>2, <2>3, <2>4, <2>6, <2>7
<1>16. CASE left[c] = 1
  <2>m. PICK m : m = Buttons!Reply(c, perms)
    OBVIOUS
  <2>1. /\ told' = Append(told, m)
        /\ DOMAIN left' = DOMAIN left \ {c} /\ DOMAIN found' = DOMAIN left \ {c}
        /\ \A d \in DOMAIN left' : left'[d] = left[d] /\ found'[d] = found[d]
    BY <1>4, <1>5, <1>16, <2>m
  <2>2. m.type = "reply" /\ m.call = c /\ m.permissions = perms /\ Answers(m)
    BY <2>m DEF Buttons!Reply, Answers
  <2>3. /\ IsSequence(told')
        /\ Len(told) \in Nat /\ DOMAIN told = 1 .. Len(told)
        /\ DOMAIN told' = 1 .. Len(told) + 1
        /\ \A i \in 1 .. Len(told) : told'[i] = told[i]
        /\ told'[Len(told) + 1] = m
    <3>1. IsSequence(told) /\ Len(told) \in Nat /\ DOMAIN told = 1 .. Len(told)
      BY CallNumbers DEF ButtonTypes
    <3>2. /\ IsSequence(told')
          /\ Len(told') = Len(told) + 1
          /\ \A i \in 1 .. Len(told) : told'[i] = told[i]
          /\ told'[Len(told) + 1] = m
      BY <2>1, <3>1, AppendIsSequence
    <3> QED
      BY <3>1, <3>2, SequenceDomain
  <2>4. \A i \in DOMAIN told : i \in DOMAIN told' /\ told'[i] = told[i]
    BY <2>3
  <2>5. \A i \in DOMAIN told' : \/ i \in DOMAIN told /\ told'[i] = told[i]
                                \/ i = Len(told) + 1 /\ told'[i] = m
    BY <2>3
  <2>6. ~OnWay(c, CM)' /\ ~OnWay(c, HM)' /\ (OnWay(c, CM) => a.of = CM)
    BY <1>5, <1>6, <1>7, <1>8, <1>16 DEF One
  <2>7. ButtonTypes'
    <3>1. \A i \in DOMAIN told' : told'[i].type \in {"reply", "error", "check-permissions"}
      BY <2>2, <2>5 DEF ButtonTypes
    <3> QED
      BY <1>1, <1>2, <1>11, <2>1, <2>3, <3>1 DEF ButtonTypes, Says
  <2>8. CallsOpen'
    <3>1. \A i \in DOMAIN told' : Answers(told'[i]) => told'[i].call \in waiting
      BY <1>5, <2>2, <2>5 DEF CallsOpen
    <3>2. ASSUME NEW d \in waiting
          PROVE  \/ d \in DOMAIN left'
                 \/ \E i \in DOMAIN waited : waited[i] = d
                 \/ \E i \in DOMAIN told' : Answers(told'[i]) /\ told'[i].call = d
      <4>1. CASE d = c
        <5>1. Len(told) + 1 \in DOMAIN told'
          BY <2>3
        <5> QED
          BY <2>2, <2>3, <4>1, <5>1
      <4>2. CASE d # c
        BY <2>1, <2>4, <4>2 DEF CallsOpen
      <4> QED
        BY <4>1, <4>2
    <3>3. serving'
      BY <1>1 DEF CallsOpen
    <3> QED
      BY <1>1, <2>1, <3>1, <3>2, <3>3 DEF CallsOpen, Answers
  <2>9. CallsInTurn'
    <3>1. ASSUME NEW i \in DOMAIN told', NEW j \in DOMAIN told', i < j,
                 Answers(told'[i]), Answers(told'[j])
          PROVE  told'[i].call < told'[j].call
      <4>1. i \in DOMAIN told /\ told'[i] = told[i]
        BY <2>3, <3>1
      <4>2. CASE j \in DOMAIN told /\ told'[j] = told[j]
        BY <3>1, <4>1, <4>2 DEF CallsInTurn
      <4>3. CASE told'[j] = m
        BY <1>5, <2>2, <3>1, <4>1, <4>3 DEF CallsInTurn
      <4> QED
        BY <2>5, <4>2, <4>3
    <3>2. ASSUME NEW i \in DOMAIN told', Answers(told'[i])
          PROVE  /\ \A d \in DOMAIN left' : told'[i].call < d
                 /\ \A j \in DOMAIN waited : told'[i].call < waited[j]
      <4>1. CASE i \in DOMAIN told /\ told'[i] = told[i]
        BY <2>1, <3>2, <4>1 DEF CallsInTurn
      <4>2. CASE told'[i] = m
        BY <1>5, <1>10, <2>1, <2>2, <4>2 DEF CallsInTurn
      <4> QED
        BY <2>5, <4>1, <4>2
    <3> QED
      BY <1>1, <2>1, <3>1, <3>2 DEF CallsInTurn, Answers
  <2>10. ChecksCounted'
    <3>1. ASSUME NEW i \in DOMAIN polled
          PROVE  polled[i].call \in DOMAIN left' /\ polled[i].of \in capable
      <4>1. polled[i].of \in {CM, HM} /\ polled[i].call \in DOMAIN left /\ polled[i].of \in capable
        BY DEF ChecksCounted, ButtonTypes, Buttons!Permission
      <4>2. polled[i].call = c /\ polled[i].of = CM => OnWay(c, CM)'
        BY <1>1 DEF OnWay
      <4>3. polled[i].call = c /\ polled[i].of = HM => OnWay(c, HM)'
        BY <1>1 DEF OnWay
      <4> QED
        BY <2>1, <2>6, <4>1, <4>2, <4>3
    <3>2. \A i \in DOMAIN polled : polled[i].call \in DOMAIN left' /\ polled[i].of \in capable
      BY <3>1
    <3>3. ASSUME NEW i \in DOMAIN answers', Says(answers'[i])
          PROVE  answers'[i].call \in DOMAIN left' /\ answers'[i].of \in capable
      <4>1. answers'[i].call \in DOMAIN left /\ answers'[i].of \in capable
        BY <1>2, <3>3 DEF ChecksCounted
      <4>2. answers'[i].of \in {CM, HM}
        BY <4>1 DEF ButtonTypes, Buttons!Permission
      <4>3. answers'[i].call = c /\ answers'[i].of = CM => OnWay(c, CM)'
        BY <3>3 DEF OnWay, Says
      <4>4. answers'[i].call = c /\ answers'[i].of = HM => OnWay(c, HM)'
        BY <3>3 DEF OnWay, Says
      <4> QED
        BY <2>1, <2>6, <4>1, <4>2, <4>3, <4>4
    <3>4. ASSUME NEW d \in DOMAIN left'
          PROVE  /\ left'[d] = One(OnWay(d, CM)') + One(OnWay(d, HM)')
                 /\ left'[d] >= 1
      BY <1>5, <1>6, <2>1 DEF ChecksCounted, One
    <3> QED
      BY <1>1, <3>2, <3>3, <3>4 DEF ChecksCounted, One, Says
  <2>11. NothingElseFound'
    BY <1>1, <1>9, <2>1, <2>2, <2>5 DEF NothingElseFound, ButtonTypes
  <2>12. Calm' => Calm
    BY <1>1, <1>14, <2>4 DEF Calm, Says, Answers
  <2>13. LastCallsRight'
    <3> SUFFICES ASSUME Calm, NEW d \in DOMAIN owner, Counts(d)
                 PROVE  /\ \A i \in DOMAIN answers' :
                              answers'[i].call = d /\ answers'[i].of = CM =>
                                  /\ answers'[i].says = "yes" => CM \in policy
                                  /\ answers'[i].says = "no" => CM \notin policy
                        /\ d \in DOMAIN left' =>
                              /\ CM \in found'[d] => ModifyAllowed
                              /\ ModifyAllowed /\ ~OnWay(d, CM)' => CM \in found'[d] \/ d \in faulty'
                        /\ \A i \in DOMAIN told' :
                              told'[i].type = "reply" /\ told'[i].call = d =>
                                /\ CM \in told'[i].permissions => ModifyAllowed
                                /\ ModifyAllowed => CM \in told'[i].permissions \/ d \in faulty'
      BY <1>1, <2>12 DEF LastCallsRight, Counts, ModifyAllowed
    <3>1. \A i \in DOMAIN answers' :
             answers'[i].call = d /\ answers'[i].of = CM =>
                 /\ answers'[i].says = "yes" => CM \in policy
                 /\ answers'[i].says = "no" => CM \notin policy
      BY <1>2 DEF LastCallsRight
    <3>2. ASSUME d \in DOMAIN left'
          PROVE  /\ CM \in found'[d] => ModifyAllowed
                 /\ ModifyAllowed /\ ~OnWay(d, CM)' => CM \in found'[d] \/ d \in faulty'
      <4>1. d # c /\ d \in DOMAIN left /\ found'[d] = found[d]
        BY <2>1, <3>2
      <4> QED
        BY <1>6, <1>13, <4>1 DEF LastCallsRight
    <3>3. ASSUME NEW i \in DOMAIN told', told'[i].type = "reply", told'[i].call = d
          PROVE  /\ CM \in told'[i].permissions => ModifyAllowed
                 /\ ModifyAllowed => CM \in told'[i].permissions \/ d \in faulty'
      <4>1. CASE i \in DOMAIN told /\ told'[i] = told[i]
        BY <1>13, <3>3, <4>1 DEF LastCallsRight
      <4>2. CASE told'[i] = m
        BY <1>9, <2>2, <2>6, <3>3, <4>2
      <4> QED
        BY <2>5, <4>1, <4>2
    <3> QED
      BY <3>1, <3>2, <3>3
  <2>14. ShownRight'
    BY <1>1, <2>12 DEF ShownRight, Answered, Asked, ModifyAllowed
  <2> QED
    BY <1>2, <1>12, <2>7, <2>8, <2>9, <2>10, <2>11, <2>13, <2>14
<1> QED
  BY <1>15, <1>16

LEMMA UpperPart ==
    ASSUME NEW n \in Nat, NEW U \in SUBSET (1 .. n),
           \A d \in U, e \in 1 .. n : d < e => e \in U
    PROVE  \E m \in 0 .. n : U = m + 1 .. n
<1>1. CASE U = {}
  <2>1. U = n + 1 .. n
    BY <1>1
  <2> QED
    BY <2>1
<1>2. CASE U # {}
  <2>1. U \subseteq Nat
    OBVIOUS
  <2>2. PICK d \in U : \A k \in U : ~(<<k, d>> \in OpToRel(<, Nat))
    BY <1>2, <2>1, WFMin, NatLessThanWellFounded
  <2>3. ASSUME NEW k \in U PROVE d <= k
    <3>1. k \in Nat /\ d \in Nat
      BY <2>1
    <3>2. ~(k < d)
      BY <2>2, <3>1 DEF OpToRel
    <3> QED
      BY <3>1, <3>2
  <2>4. d - 1 \in 0 .. n /\ d - 1 + 1 = d /\ d \in 1 .. n
    OBVIOUS
  <2>5. U = d - 1 + 1 .. n
    <3>1. ASSUME NEW k \in U PROVE k \in d .. n
      BY <2>3, <2>4
    <3>2. ASSUME NEW k \in d .. n PROVE k \in U
      <4>1. k = d \/ (d < k /\ k \in 1 .. n)
        BY <2>4
      <4> QED
        BY <4>1
    <3> QED
      BY <2>4, <3>1, <3>2
  <2> QED
    BY <2>4, <2>5
<1> QED
  BY <1>1, <1>2

LEMMA NthOfInterval ==
    ASSUME NEW n \in Nat, NEW m \in 0 .. n
    PROVE  /\ Buttons!Cardinality(m + 1 .. n) = n - m
           /\ \A k \in 1 .. n - m : Buttons!Nth(m + 1 .. n, k) = m + k
<1>1. \A j \in m .. n : Cardinality(m + 1 .. j) = j - m
  <2> TAKE j \in m .. n
  <2>1. m + 1 \in Int /\ j \in Int
    OBVIOUS
  <2>2. Cardinality(m + 1 .. j) = IF m + 1 > j THEN 0 ELSE j - (m + 1) + 1
    BY <2>1, FS_Interval
  <2> QED
    BY <2>2
<1>2. ASSUME NEW k \in 1 .. n - m PROVE Buttons!Nth(m + 1 .. n, k) = m + k
  <2>1. ASSUME NEW i \in m + 1 .. n
        PROVE  Buttons!Cardinality({j \in m + 1 .. n : j <= i}) = i - m
    <3>1. {j \in m + 1 .. n : j <= i} = m + 1 .. i
      OBVIOUS
    <3>2. i \in m .. n
      OBVIOUS
    <3> QED
      BY <1>1, <3>1, <3>2, ButtonsCardinality
  <2>2. m + k \in m + 1 .. n
    OBVIOUS
  <2>3. \A i \in m + 1 .. n : Buttons!Cardinality({j \in m + 1 .. n : j <= i}) = k <=> i = m + k
    BY <2>1
  <2> QED
    BY <2>2, <2>3 DEF Buttons!Nth
<1>3. Buttons!Cardinality(m + 1 .. n) = n - m
  <2>1. n \in m .. n
    OBVIOUS
  <2> QED
    BY <1>1, <2>1, ButtonsCardinality
<1> QED
  BY <1>2, <1>3

LEMMA ButtonsDaemonStarts ==
    ASSUME ButtonInv, Buttons!DaemonStarts
    PROVE  ButtonInv'
<1> USE DEF ButtonInv
<1>1. /\ UNCHANGED <<capable, policy, polled, answers, left, found, waited, told, owner, waiting,
                     have, permissions, buttons, made, authorized, cached, failed, faulty, unaware>>
      /\ serving'
  BY DEF Buttons!DaemonStarts, Buttons!polkitVars, Buttons!daemonVars, Buttons!editorVars
<1>2. ButtonTypes' /\ CallsOpen' /\ ChecksInTurn' /\ CallsInTurn'
  BY <1>1 DEF ButtonTypes, CallsOpen, ChecksInTurn, CallsInTurn, Answers, Says, Rank
<1>3. ChecksCounted' /\ NothingElseFound' /\ ButtonsKnown'
  BY <1>1 DEF ChecksCounted, OnWay, One, Says, NothingElseFound, ButtonsKnown, Asked
<1>4. LastCallsRight' /\ ShownRight'
  BY <1>1 DEF LastCallsRight, ShownRight, Calm, Counts, Answered, Asked, OnWay, ModifyAllowed, Says,
              Answers
<1> QED
  BY <1>2, <1>3, <1>4

LEMMA ButtonsDaemonExits ==
    ASSUME ButtonInv, Buttons!DaemonExits
    PROVE  ButtonInv'
<1> USE DEF ButtonInv
<1>u. PICK U : U = Buttons!Unanswered
  OBVIOUS
<1>e. PICK errors : errors = [k \in 1 .. Buttons!Cardinality(U) |-> Buttons!ErrorReply(Buttons!Nth(U, k))]
  OBVIOUS
<1>1. /\ UNCHANGED <<capable, policy, owner, waiting, have, permissions, buttons, made, authorized,
                     cached, failed, faulty>>
      /\ told' = told \o errors
      /\ polled' = <<>> /\ answers' = <<>> /\ waited' = <<>> /\ left' = <<>> /\ found' = <<>>
      /\ unaware' = (unaware \/ \E i \in DOMAIN answers : answers[i].type = "changed")
  BY <1>u, <1>e DEF Buttons!DaemonExits, Buttons!polkitVars, Buttons!editorVars
<1>2. /\ DOMAIN polled' = {} /\ DOMAIN answers' = {} /\ DOMAIN waited' = {} /\ DOMAIN left' = {}
      /\ DOMAIN found' = {}
  BY <1>1
<1>3. U = {c \in waiting : \A i \in DOMAIN told : Answers(told[i]) => told[i].call # c}
  BY <1>u DEF Buttons!Unanswered, Answers
<1>4. /\ Len(owner) \in Nat /\ DOMAIN owner = 1 .. Len(owner) /\ waiting \subseteq 1 .. Len(owner)
      /\ Len(told) \in Nat /\ DOMAIN told = 1 .. Len(told) /\ IsSequence(told)
  BY CallNumbers DEF ButtonTypes
<1>5. ASSUME NEW c \in U
      PROVE  /\ c \in DOMAIN left \/ \E i \in DOMAIN waited : waited[i] = c
             /\ \A i \in DOMAIN told : Answers(told[i]) => told[i].call < c
  BY <1>3 DEF CallsOpen, CallsInTurn
<1>6. ASSUME NEW d \in U, NEW e \in 1 .. Len(owner), d < e PROVE e \in U
  <2>1. d \in waiting /\ d \in Nat
    BY <1>3, <1>4
  <2>2. e \in waiting
    <3>1. e \in DOMAIN owner \ waiting => e < d
      BY <2>1 DEF CallsInTurn
    <3> QED
      BY <1>4, <1>6, <2>1, <3>1
  <2>3. ASSUME NEW i \in DOMAIN told, Answers(told[i]) PROVE told[i].call # e
    <3>1. told[i].call < d
      BY <1>5, <2>3
    <3>2. told[i].call \in 1 .. Len(owner)
      BY <2>3, CallNumbers
    <3> QED
      BY <1>4, <1>6, <2>1, <3>1, <3>2
  <2> QED
    BY <1>3, <2>2, <2>3
<1>7. PICK m \in 0 .. Len(owner) : U = m + 1 .. Len(owner)
  <2>1. U \in SUBSET (1 .. Len(owner))
    BY <1>3, <1>4
  <2> QED
    BY <1>4, <1>6, <2>1, UpperPart
<1>n. PICK n : n = Len(owner) - m
  OBVIOUS
<1>8. n \in Nat /\ m \in Nat /\ U = m + 1 .. m + n
  BY <1>4, <1>7, <1>n
<1>9. errors = [k \in 1 .. n |-> Buttons!ErrorReply(m + k)]
  <2>1. /\ Buttons!Cardinality(U) = n
        /\ \A k \in 1 .. n : Buttons!Nth(U, k) = m + k
    BY <1>4, <1>7, <1>n, NthOfInterval
  <2> QED
    BY <1>e, <2>1
<1>10. \A k \in 1 .. n : errors[k].type = "error" /\ errors[k].call = m + k
  BY <1>9 DEF Buttons!ErrorReply
<1>11. IsSequence(errors) /\ Len(errors) = n
  <2>1. DOMAIN errors = 1 .. n /\ errors = [k \in 1 .. n |-> errors[k]]
    BY <1>9
  <2> QED
    BY <1>8, <2>1, FunctionIsSequence
<1>12. /\ IsSequence(told')
       /\ DOMAIN told' = 1 .. Len(told) + n
       /\ \A i \in 1 .. Len(told) + n :
             told'[i] = IF i <= Len(told) THEN told[i] ELSE errors[i - Len(told)]
  <2>1. /\ IsSequence(told')
        /\ Len(told') = Len(told) + n
        /\ \A i \in 1 .. Len(told) + n :
              told'[i] = IF i <= Len(told) THEN told[i] ELSE errors[i - Len(told)]
    BY <1>1, <1>4, <1>11, ConcatIsSequence
  <2> QED
    BY <2>1, SequenceDomain
<1>13. \A i \in DOMAIN told : i \in DOMAIN told' /\ told'[i] = told[i]
  BY <1>4, <1>8, <1>12
<1>14. ASSUME NEW i \in DOMAIN told'
       PROVE  \/ i \in DOMAIN told /\ told'[i] = told[i]
              \/ /\ i > Len(told) /\ i - Len(told) \in 1 .. n
                 /\ told'[i].type = "error" /\ told'[i].call = m + (i - Len(told))
  <2>1. CASE i <= Len(told)
    BY <1>4, <1>8, <1>12, <2>1
  <2>2. CASE i > Len(told)
    <3>1. i - Len(told) \in 1 .. n /\ told'[i] = errors[i - Len(told)]
      BY <1>4, <1>8, <1>12, <2>2
    <3> QED
      BY <1>10, <2>2, <3>1
  <2> QED
    BY <1>4, <1>12, <2>1, <2>2
<1>15. ButtonTypes'
  <2>1. \A i \in DOMAIN told' : told'[i].type \in {"reply", "error", "check-permissions"}
    BY <1>14 DEF ButtonTypes
  <2> QED
    BY <1>1, <1>2, <1>12, <2>1, EmptyIsSequence DEF ButtonTypes
<1>16. ASSUME NEW i \in DOMAIN told', Answers(told'[i]), i \notin DOMAIN told
       PROVE  told'[i].call \in U
  BY <1>8, <1>14, <1>16
<1>17. CallsOpen'
  <2>1. \A i \in DOMAIN told' : Answers(told'[i]) => told'[i].call \in waiting
    BY <1>3, <1>13, <1>16 DEF CallsOpen
  <2>2. ASSUME NEW c \in waiting PROVE \E i \in DOMAIN told' : Answers(told'[i]) /\ told'[i].call = c
    <3>1. CASE c \in U
      <4>1. c - m \in 1 .. n /\ Len(told) + (c - m) \in DOMAIN told'
            /\ ~(Len(told) + (c - m) <= Len(told)) /\ Len(told) + (c - m) - Len(told) = c - m
        BY <1>4, <1>8, <1>12, <3>1
      <4>2. told'[Len(told) + (c - m)] = errors[c - m]
        BY <1>12, <4>1
      <4>3. errors[c - m].type = "error" /\ errors[c - m].call = c
        BY <1>8, <1>10, <3>1, <4>1
      <4> QED
        BY <4>1, <4>2, <4>3 DEF Answers
    <3>2. CASE c \notin U
      BY <1>3, <1>13, <3>2
    <3> QED
      BY <3>1, <3>2
  <2> QED
    BY <1>1, <1>2, <2>1, <2>2 DEF CallsOpen, Answers
<1>18. CallsInTurn'
  <2>1. ASSUME NEW i \in DOMAIN told', NEW j \in DOMAIN told', i < j,
               Answers(told'[i]), Answers(told'[j])
        PROVE  told'[i].call < told'[j].call
    <3>1. CASE j \in DOMAIN told
      <4>1. i \in DOMAIN told
        BY <1>4, <1>12, <2>1, <3>1
      <4> QED
        BY <1>13, <2>1, <3>1, <4>1 DEF CallsInTurn
    <3>2. CASE i \in DOMAIN told /\ j \notin DOMAIN told
      BY <1>5, <1>13, <1>16, <2>1, <3>2
    <3>3. CASE i \notin DOMAIN told /\ j \notin DOMAIN told
      <4>1. /\ told'[i].call = m + (i - Len(told)) /\ told'[j].call = m + (j - Len(told))
            /\ i \in Nat /\ j \in Nat
        BY <1>8, <1>12, <1>14, <3>3
      <4> QED
        BY <1>4, <1>8, <2>1, <4>1
    <3> QED
      BY <3>1, <3>2, <3>3
  <2> QED
    BY <1>1, <1>2, <2>1 DEF CallsInTurn, Answers
<1>19. ChecksInTurn' /\ ChecksCounted'
  BY <1>2 DEF ChecksInTurn, ChecksCounted
<1>20. NothingElseFound'
  <2>1. \A i \in DOMAIN told' : told'[i].type = "reply" => i \in DOMAIN told /\ told'[i] = told[i]
    BY <1>14
  <2> QED
    BY <1>1, <1>2, <2>1 DEF NothingElseFound
<1>21. ButtonsKnown'
  BY <1>1 DEF ButtonsKnown, Asked
<1>22. Calm' => Calm
  BY <1>1, <1>13 DEF Calm, Says, Answers
<1>23. LastCallsRight'
  <2>1. \A i \in DOMAIN told' : told'[i].type = "reply" => i \in DOMAIN told /\ told'[i] = told[i]
    BY <1>14
  <2> QED
    BY <1>1, <1>2, <1>22, <2>1 DEF LastCallsRight, Counts, ModifyAllowed
<1>24. ShownRight'
  BY <1>1, <1>22 DEF ShownRight, Answered, Asked, ModifyAllowed
<1> QED
  BY <1>15, <1>17, <1>18, <1>19, <1>20, <1>21, <1>23, <1>24

(* Calls that buttons make: what is told meanwhile is the rest of what was  *)
(* told, all of it or all but a CheckPermissions.                           *)
Rests(rest, s) ==
    /\ s \in {0, 1}
    /\ IsSequence(rest)
    /\ Len(rest) + s = Len(told)
    /\ \A i \in DOMAIN rest : rest[i] = told[i + s]
    /\ \A i \in DOMAIN told : i <= s => ~Answers(told[i])

LEMMA RestOfTold ==
    ASSUME ButtonInv, NEW rest, NEW s, Rests(rest, s)
    PROVE  /\ \A i \in DOMAIN rest : i \in Nat /\ i + s \in DOMAIN told /\ rest[i] = told[i + s]
           /\ \A i \in DOMAIN told :
                 Answers(told[i]) => \E j \in DOMAIN rest : rest[j] = told[i]
<1>1. /\ Len(rest) \in Nat /\ DOMAIN rest = 1 .. Len(rest)
      /\ Len(told) \in Nat /\ DOMAIN told = 1 .. Len(told)
      /\ s \in {0, 1} /\ Len(rest) + s = Len(told)
  BY CallNumbers, SequenceDomain DEF Rests
<1>2. ASSUME NEW i \in DOMAIN told, Answers(told[i])
      PROVE  \E j \in DOMAIN rest : rest[j] = told[i]
  <2>1. ~(i <= s)
    BY <1>2 DEF Rests
  <2>2. i - s \in DOMAIN rest /\ i - s + s = i
    BY <1>1, <2>1
  <2>3. rest[i - s] = told[i]
    BY <2>2 DEF Rests
  <2> QED
    BY <2>2, <2>3
<1>3. ASSUME NEW i \in DOMAIN rest
      PROVE  i \in Nat /\ i + s \in DOMAIN told /\ rest[i] = told[i + s]
  BY <1>1 DEF Rests
<1> QED
  BY <1>2, <1>3

LEMMA ButtonsAsk ==
    ASSUME ButtonInv, NEW bs, IsSequence(bs), NEW rest, NEW s, Rests(rest, s), Buttons!Ask(bs, rest),
           UNCHANGED <<capable, policy, polled, answers, serving, left, found, faulty>>,
           IsSequence(buttons'), made' \in Nat, \A i \in DOMAIN bs : bs[i] \in 1 .. made',
           \A b \in 1 .. made : b \in 1 .. made'
    PROVE  /\ ButtonTypes' /\ CallsOpen' /\ ChecksInTurn' /\ CallsInTurn' /\ ChecksCounted'
           /\ \A i \in DOMAIN told' : told'[i].type = "reply" =>
                 \E j \in DOMAIN told : told[j] = told'[i]
           /\ \A i \in DOMAIN rest : i \in DOMAIN told' /\ told'[i] = rest[i]
           /\ DOMAIN owner' = 1 .. Len(owner) + Len(bs)
           /\ \A c \in DOMAIN owner : c \in DOMAIN owner' /\ owner'[c] = owner[c]
           /\ \A c \in DOMAIN owner' : c \notin DOMAIN owner => c \in waiting'
           /\ \A i \in DOMAIN bs : Len(owner) + i \in DOMAIN owner' /\ owner'[Len(owner) + i] = bs[i]
           /\ \A c \in DOMAIN owner' : owner'[c] \in 1 .. made'
           /\ \A c \in waiting : c \in waiting'
<1> USE DEF ButtonInv
<1>i. PICK ids : ids = [i \in DOMAIN bs |-> Len(owner) + i]
  OBVIOUS
<1>e. PICK errors : errors = [i \in DOMAIN ids |-> Buttons!ErrorReply(ids[i])]
  OBVIOUS
<1>1. /\ owner' = owner \o bs
      /\ waiting' = waiting \union {ids[i] : i \in DOMAIN ids}
      /\ serving => waited' = waited \o ids /\ told' = rest
      /\ ~serving => waited' = waited /\ told' = rest \o errors
  BY <1>i, <1>e DEF Buttons!Ask, Buttons!ToSet
<1>n. PICK n : n = Len(owner)
  OBVIOUS
<1>2. /\ n \in Nat /\ DOMAIN owner = 1 .. n /\ waiting \subseteq 1 .. n /\ IsSequence(owner)
      /\ Len(waited) \in Nat /\ DOMAIN waited = 1 .. Len(waited) /\ IsSequence(waited)
      /\ DOMAIN left \subseteq 1 .. n
      /\ \A i \in DOMAIN waited : waited[i] \in 1 .. n
      /\ \A i \in DOMAIN told : Answers(told[i]) => told[i].call \in 1 .. n
      /\ Len(rest) \in Nat /\ DOMAIN rest = 1 .. Len(rest) /\ IsSequence(rest)
      /\ Len(bs) \in Nat /\ DOMAIN bs = 1 .. Len(bs)
  <2>1. IsSequence(owner) /\ IsSequence(waited) /\ IsSequence(rest)
    BY DEF ButtonTypes, Rests
  <2> QED
    BY <1>n, <2>1, CallNumbers, SequenceDomain
<1>3. /\ \A i \in DOMAIN rest : i \in Nat /\ i + s \in DOMAIN told /\ rest[i] = told[i + s]
      /\ \A i \in DOMAIN told : Answers(told[i]) => \E j \in DOMAIN rest : rest[j] = told[i]
      /\ s \in Nat
  <2>1. s \in Nat
    BY DEF Rests
  <2> QED
    BY <2>1, RestOfTold
<1>k. PICK k : k = Len(bs)
  OBVIOUS
<1>4. /\ k \in Nat
      /\ ids = [i \in 1 .. k |-> n + i] /\ DOMAIN ids = 1 .. k
      /\ IsSequence(ids) /\ Len(ids) = k
      /\ \A i \in 1 .. k : ids[i] = n + i
  <2>1. k \in Nat /\ ids = [i \in 1 .. k |-> n + i]
    BY <1>2, <1>i, <1>n, <1>k
  <2>2. DOMAIN ids = 1 .. k /\ ids = [i \in 1 .. k |-> ids[i]]
    BY <2>1
  <2> QED
    BY <2>1, <2>2, FunctionIsSequence
<1>5. /\ IsSequence(errors) /\ Len(errors) = k
      /\ \A i \in 1 .. k : errors[i].type = "error" /\ errors[i].call = n + i
  <2>1. DOMAIN errors = 1 .. k /\ errors = [i \in 1 .. k |-> errors[i]]
    BY <1>4, <1>e
  <2>2. IsSequence(errors) /\ Len(errors) = k
    BY <1>4, <2>1, FunctionIsSequence
  <2>3. \A i \in 1 .. k : errors[i].type = "error" /\ errors[i].call = n + i
    BY <1>4, <1>e DEF Buttons!ErrorReply
  <2> QED
    BY <2>2, <2>3
<1>6. /\ IsSequence(owner')
      /\ DOMAIN owner' = 1 .. n + k
      /\ \A c \in 1 .. n + k : owner'[c] = IF c <= n THEN owner[c] ELSE bs[c - n]
  <2>1. /\ IsSequence(owner')
        /\ Len(owner') = n + k
        /\ \A c \in 1 .. n + k : owner'[c] = IF c <= n THEN owner[c] ELSE bs[c - n]
    BY <1>1, <1>2, <1>n, <1>k, ConcatIsSequence
  <2> QED
    BY <2>1, SequenceDomain
<1>7. /\ \A c \in DOMAIN owner : c \in DOMAIN owner' /\ owner'[c] = owner[c]
      /\ \A i \in DOMAIN bs : n + i \in DOMAIN owner' /\ owner'[n + i] = bs[i]
  <2>1. \A c \in DOMAIN owner : c \in DOMAIN owner' /\ owner'[c] = owner[c]
    BY <1>2, <1>4, <1>6
  <2>2. ASSUME NEW i \in DOMAIN bs PROVE n + i \in DOMAIN owner' /\ owner'[n + i] = bs[i]
    <3>1. n + i \in 1 .. n + k /\ ~(n + i <= n) /\ n + i - n = i
      BY <1>2, <1>4, <1>k
    <3>2. owner'[n + i] = bs[n + i - n]
      BY <1>2, <1>6, <3>1
    <3> QED
      BY <1>6, <3>1, <3>2
  <2> QED
    BY <2>1, <2>2
<1>8. waiting' = waiting \union (n + 1 .. n + k)
  <2>1. {ids[i] : i \in DOMAIN ids} = n + 1 .. n + k
    <3>1. ASSUME NEW c \in n + 1 .. n + k PROVE \E i \in DOMAIN ids : ids[i] = c
      <4>1. c - n \in 1 .. k /\ n + (c - n) = c
        BY <1>2, <1>4
      <4> QED
        BY <1>4, <4>1
    <3>2. ASSUME NEW i \in DOMAIN ids PROVE ids[i] \in n + 1 .. n + k
      BY <1>2, <1>4
    <3> QED
      BY <3>1, <3>2
  <2> QED
    BY <1>1, <2>1
<1>9. ASSUME NEW c \in DOMAIN owner' PROVE owner'[c] \in 1 .. made'
  <2>1. CASE c <= n
    <3>1. c \in DOMAIN owner
      BY <1>2, <1>4, <1>6, <2>1
    <3> QED
      BY <1>7, <3>1 DEF ButtonsKnown
  <2>2. CASE c > n
    <3>1. c - n \in DOMAIN bs /\ owner'[c] = bs[c - n]
      BY <1>2, <1>4, <1>6, <1>k, <2>2
    <3> QED
      BY <3>1
  <2> QED
    BY <1>2, <1>4, <1>6, <2>1, <2>2
<1>10. ASSUME NEW c \in DOMAIN owner', c \notin DOMAIN owner PROVE c \in waiting'
  BY <1>2, <1>4, <1>6, <1>8, <1>10
<1>11. ASSUME NEW c, NEW p PROVE OnWay(c, p)' <=> OnWay(c, p)
  BY DEF OnWay, Says
<1>12. ChecksInTurn' /\ ChecksCounted'
  BY <1>11 DEF ChecksInTurn, ChecksCounted, Rank, Says, One
<1>13. CASE serving
  <2>1. waited' = waited \o ids /\ told' = rest
    BY <1>1, <1>13
  <2>2. /\ IsSequence(waited')
        /\ DOMAIN waited' = 1 .. Len(waited) + k
        /\ \A i \in 1 .. Len(waited) + k :
              waited'[i] = IF i <= Len(waited) THEN waited[i] ELSE ids[i - Len(waited)]
    <3>1. /\ IsSequence(waited')
          /\ Len(waited') = Len(waited) + k
          /\ \A i \in 1 .. Len(waited) + k :
                waited'[i] = IF i <= Len(waited) THEN waited[i] ELSE ids[i - Len(waited)]
      BY <1>2, <1>4, <2>1, ConcatIsSequence
    <3> QED
      BY <3>1, SequenceDomain
  <2>3. ASSUME NEW i \in DOMAIN waited'
        PROVE  \/ i \in DOMAIN waited /\ waited'[i] = waited[i]
               \/ i > Len(waited) /\ i \in Nat /\ waited'[i] = n + (i - Len(waited))
                  /\ waited'[i] \in n + 1 .. n + k
    <3>1. CASE i <= Len(waited)
      BY <1>2, <1>4, <2>2, <3>1
    <3>2. CASE i > Len(waited)
      <4>1. i - Len(waited) \in 1 .. k /\ waited'[i] = ids[i - Len(waited)]
        BY <1>2, <1>4, <2>2, <3>2
      <4> QED
        BY <1>2, <1>4, <2>2, <3>2, <4>1
    <3> QED
      BY <1>2, <1>4, <2>2, <3>1, <3>2
  <2>4. /\ \A i \in DOMAIN waited : i \in DOMAIN waited' /\ waited'[i] = waited[i]
        /\ \A c \in n + 1 .. n + k : \E i \in DOMAIN waited' : waited'[i] = c
    <3>1. \A i \in DOMAIN waited : i \in DOMAIN waited' /\ waited'[i] = waited[i]
      BY <1>2, <1>4, <2>2
    <3>2. ASSUME NEW c \in n + 1 .. n + k PROVE \E i \in DOMAIN waited' : waited'[i] = c
      <4>1. /\ c - n \in 1 .. k /\ n + (c - n) = c
            /\ Len(waited) + (c - n) \in 1 .. Len(waited) + k
            /\ ~(Len(waited) + (c - n) <= Len(waited))
            /\ Len(waited) + (c - n) - Len(waited) = c - n
        BY <1>2, <1>4
      <4>2. waited'[Len(waited) + (c - n)] = c
        BY <1>4, <2>2, <4>1
      <4> QED
        BY <2>2, <4>1, <4>2
    <3> QED
      BY <3>1, <3>2
  <2>5. ButtonTypes'
    <3>1. \A i \in DOMAIN told' : told'[i].type \in {"reply", "error", "check-permissions"}
      BY <1>3, <2>1 DEF ButtonTypes
    <3>2. waiting' \subseteq DOMAIN owner'
      BY <1>2, <1>4, <1>6, <1>8
    <3> QED
      BY <1>2, <1>6, <2>1, <2>2, <3>1, <3>2 DEF ButtonTypes, Says
  <2>6. CallsOpen'
    <3>1. \A i \in DOMAIN waited' : waited'[i] \in waiting'
      BY <1>8, <2>3 DEF CallsOpen
    <3>2. \A i \in DOMAIN told' : Answers(told'[i]) => told'[i].call \in waiting'
      BY <1>3, <1>8, <2>1 DEF CallsOpen
    <3>3. ASSUME NEW c \in waiting'
          PROVE  \/ c \in DOMAIN left
                 \/ \E i \in DOMAIN waited' : waited'[i] = c
                 \/ \E i \in DOMAIN told' : Answers(told'[i]) /\ told'[i].call = c
      <4>1. CASE c \in n + 1 .. n + k
        BY <2>4, <4>1
      <4>2. CASE c \in waiting
        BY <1>3, <2>1, <2>4, <4>2 DEF CallsOpen
      <4> QED
        BY <1>8, <4>1, <4>2
    <3>4. DOMAIN left \subseteq waiting'
      BY <1>8 DEF CallsOpen
    <3> QED
      BY <1>13, <3>1, <3>2, <3>3, <3>4 DEF CallsOpen, Answers
  <2>7. CallsInTurn'
    <3>1. ASSUME NEW i \in DOMAIN waited', NEW j \in DOMAIN waited', i < j
          PROVE  waited'[i] < waited'[j]
      <4>1. CASE j \in DOMAIN waited
        <5>1. i \in DOMAIN waited
          BY <1>2, <1>4, <2>2, <3>1, <4>1
        <5> QED
          BY <2>4, <3>1, <4>1, <5>1 DEF CallsInTurn
      <4>2. CASE i \in DOMAIN waited /\ j \notin DOMAIN waited
        BY <1>2, <1>4, <2>3, <2>4, <4>2
      <4>3. CASE i \notin DOMAIN waited /\ j \notin DOMAIN waited
        BY <1>2, <1>4, <2>3, <3>1, <4>3
      <4> QED
        BY <4>1, <4>2, <4>3
    <3>2. ASSUME NEW c \in DOMAIN left, NEW i \in DOMAIN waited' PROVE c < waited'[i]
      BY <1>2, <1>4, <2>3 DEF CallsInTurn
    <3>3. ASSUME NEW i \in DOMAIN told', Answers(told'[i])
          PROVE  /\ \A c \in DOMAIN left : told'[i].call < c
                 /\ \A j \in DOMAIN waited' : told'[i].call < waited'[j]
      <4>1. i + s \in DOMAIN told /\ told'[i] = told[i + s]
        BY <1>3, <2>1
      <4>2. told'[i].call \in 1 .. n
        BY <1>2, <3>3, <4>1
      <4>3. \A c \in DOMAIN left : told'[i].call < c
        BY <3>3, <4>1 DEF CallsInTurn
      <4>4. ASSUME NEW j \in DOMAIN waited' PROVE told'[i].call < waited'[j]
        <5>1. CASE j \in DOMAIN waited /\ waited'[j] = waited[j]
          BY <3>3, <4>1, <5>1 DEF CallsInTurn
        <5>2. CASE waited'[j] \in n + 1 .. n + k
          BY <1>2, <1>4, <4>2, <5>2
        <5> QED
          BY <2>3, <5>1, <5>2
      <4> QED
        BY <4>3, <4>4
    <3>4. ASSUME NEW i \in DOMAIN told', NEW j \in DOMAIN told', i < j,
                 Answers(told'[i]), Answers(told'[j])
          PROVE  told'[i].call < told'[j].call
      <4>1. i + s < j + s
        BY <1>3, <2>1, <3>4
      <4> QED
        BY <1>3, <2>1, <3>4, <4>1 DEF CallsInTurn
    <3>5. ASSUME NEW c \in DOMAIN owner' \ waiting', NEW d \in waiting' PROVE c < d
      <4>1. c \in DOMAIN owner \ waiting /\ c \in 1 .. n
        BY <1>2, <1>8, <1>10, <3>5
      <4> QED
        BY <1>2, <1>4, <1>8, <4>1 DEF CallsInTurn
    <3> QED
      BY <3>1, <3>2, <3>3, <3>4, <3>5 DEF CallsInTurn, Answers
  <2>8. \A i \in DOMAIN told' : told'[i].type = "reply" => \E j \in DOMAIN told : told[j] = told'[i]
    BY <1>3, <2>1
  <2>9. \A i \in DOMAIN rest : i \in DOMAIN told' /\ told'[i] = rest[i]
    BY <2>1
  <2> QED
    BY <1>6, <1>7, <1>8, <1>9, <1>10, <1>12, <1>n, <1>k, <2>5, <2>6, <2>7, <2>8, <2>9
<1>14. CASE ~serving
  <2>1. /\ waited' = waited /\ told' = rest \o errors
        /\ polled = <<>> /\ answers = <<>> /\ waited = <<>> /\ DOMAIN left = {}
    BY <1>1, <1>14 DEF CallsOpen
  <2>2. /\ IsSequence(told')
        /\ DOMAIN told' = 1 .. Len(rest) + k
        /\ \A i \in 1 .. Len(rest) + k :
              told'[i] = IF i <= Len(rest) THEN rest[i] ELSE errors[i - Len(rest)]
    <3>1. /\ IsSequence(told')
          /\ Len(told') = Len(rest) + k
          /\ \A i \in 1 .. Len(rest) + k :
                told'[i] = IF i <= Len(rest) THEN rest[i] ELSE errors[i - Len(rest)]
      BY <1>2, <1>5, <2>1, ConcatIsSequence
    <3> QED
      BY <3>1, SequenceDomain
  <2>3. ASSUME NEW i \in DOMAIN told'
        PROVE  \/ i \in DOMAIN rest /\ told'[i] = rest[i]
               \/ /\ i > Len(rest) /\ i \in Nat /\ told'[i].type = "error"
                  /\ told'[i].call = n + (i - Len(rest)) /\ told'[i].call \in n + 1 .. n + k
    <3>1. CASE i <= Len(rest)
      BY <1>2, <1>4, <2>2, <3>1
    <3>2. CASE i > Len(rest)
      <4>1. i - Len(rest) \in 1 .. k /\ told'[i] = errors[i - Len(rest)]
        BY <1>2, <1>4, <2>2, <3>2
      <4>2. told'[i].type = "error" /\ told'[i].call = n + (i - Len(rest))
        BY <1>5, <4>1
      <4> QED
        BY <1>2, <1>4, <2>2, <3>2, <4>1, <4>2
    <3> QED
      BY <1>2, <1>4, <2>2, <3>1, <3>2
  <2>4. /\ \A i \in DOMAIN rest : i \in DOMAIN told' /\ told'[i] = rest[i]
        /\ \A c \in n + 1 .. n + k : \E i \in DOMAIN told' : Answers(told'[i]) /\ told'[i].call = c
    <3>1. \A i \in DOMAIN rest : i \in DOMAIN told' /\ told'[i] = rest[i]
      BY <1>2, <1>4, <2>2
    <3>2. ASSUME NEW c \in n + 1 .. n + k
          PROVE  \E i \in DOMAIN told' : Answers(told'[i]) /\ told'[i].call = c
      <4>1. /\ c - n \in 1 .. k /\ n + (c - n) = c
            /\ Len(rest) + (c - n) \in 1 .. Len(rest) + k
            /\ ~(Len(rest) + (c - n) <= Len(rest))
            /\ Len(rest) + (c - n) - Len(rest) = c - n
        BY <1>2, <1>4
      <4>2. told'[Len(rest) + (c - n)] = errors[c - n]
        BY <2>2, <4>1
      <4>3. errors[c - n].type = "error" /\ errors[c - n].call = c
        BY <1>5, <4>1
      <4> QED
        BY <2>2, <4>1, <4>2, <4>3 DEF Answers
    <3> QED
      BY <3>1, <3>2
  <2>5. \A i \in DOMAIN rest : i + s \in DOMAIN told /\ told'[i] = told[i + s]
    BY <1>3, <2>4
  <2>6. ButtonTypes'
    <3>1. \A i \in DOMAIN told' : told'[i].type \in {"reply", "error", "check-permissions"}
      BY <2>3, <2>5 DEF ButtonTypes
    <3>2. waiting' \subseteq DOMAIN owner'
      BY <1>2, <1>4, <1>6, <1>8
    <3> QED
      BY <1>2, <1>6, <2>1, <2>2, <3>1, <3>2 DEF ButtonTypes, Says
  <2>7. CallsOpen'
    <3>1. \A i \in DOMAIN told' : Answers(told'[i]) => told'[i].call \in waiting'
      BY <1>8, <2>3, <2>5 DEF CallsOpen
    <3>2. ASSUME NEW c \in waiting'
          PROVE  \/ c \in DOMAIN left
                 \/ \E i \in DOMAIN waited' : waited'[i] = c
                 \/ \E i \in DOMAIN told' : Answers(told'[i]) /\ told'[i].call = c
      <4>1. CASE c \in n + 1 .. n + k
        BY <2>4, <4>1
      <4>2. CASE c \in waiting
        BY <1>3, <2>1, <2>4, <4>2 DEF CallsOpen
      <4> QED
        BY <1>8, <4>1, <4>2
    <3> QED
      BY <2>1, <3>1, <3>2 DEF CallsOpen, Answers
  <2>8. CallsInTurn'
    <3>1. ASSUME NEW i \in DOMAIN told', NEW j \in DOMAIN told', i < j,
                 Answers(told'[i]), Answers(told'[j])
          PROVE  told'[i].call < told'[j].call
      <4>1. CASE j \in DOMAIN rest
        <5>1. i \in DOMAIN rest /\ i + s < j + s
          BY <1>2, <1>3, <1>4, <2>2, <3>1, <4>1
        <5> QED
          BY <2>5, <3>1, <4>1, <5>1 DEF CallsInTurn
      <4>2. CASE i \in DOMAIN rest /\ j \notin DOMAIN rest
        <5>1. told'[i].call \in 1 .. n
          BY <1>2, <2>5, <3>1, <4>2
        <5> QED
          BY <1>2, <1>4, <2>3, <4>2, <5>1
      <4>3. CASE i \notin DOMAIN rest /\ j \notin DOMAIN rest
        BY <1>2, <1>4, <2>3, <3>1, <4>3
      <4> QED
        BY <4>1, <4>2, <4>3
    <3>2. ASSUME NEW c \in DOMAIN owner' \ waiting', NEW d \in waiting' PROVE c < d
      <4>1. c \in DOMAIN owner \ waiting /\ c \in 1 .. n
        BY <1>2, <1>8, <1>10, <3>2
      <4> QED
        BY <1>2, <1>4, <1>8, <4>1 DEF CallsInTurn
    <3> QED
      BY <2>1, <3>1, <3>2 DEF CallsInTurn, Answers
  <2>9. \A i \in DOMAIN told' : told'[i].type = "reply" => \E j \in DOMAIN told : told[j] = told'[i]
    BY <2>3, <2>5
  <2> QED
    BY <1>6, <1>7, <1>8, <1>9, <1>10, <1>12, <1>n, <1>k, <2>4, <2>6, <2>7, <2>8, <2>9
<1> QED
  BY <1>13, <1>14

(* A call made just now knows nothing yet; one made before is still the     *)
(* last of its button only if that made no other.                           *)
LEMMA NewCallsKnowNothing ==
    ASSUME ButtonInv,
           UNCHANGED <<capable, policy, polled, answers, left, found, faulty>>,
           \A i \in DOMAIN told' : told'[i].type = "reply" =>
                \E j \in DOMAIN told : told[j] = told'[i],
           Calm' => \A c \in DOMAIN owner' :
                       c \in DOMAIN owner /\ Counts(c)' => Calm /\ Counts(c)
    PROVE  LastCallsRight'
<1> USE DEF ButtonInv
<1> DEFINE CM == Buttons!ConnectionModify
<1>0. ASSUME NEW c PROVE OnWay(c, CM)' <=> OnWay(c, CM)
  BY DEF OnWay, Says
<1> SUFFICES ASSUME Calm', NEW c \in DOMAIN owner', Counts(c)'
             PROVE  /\ \A i \in DOMAIN answers :
                          answers[i].call = c /\ answers[i].of = CM =>
                              /\ answers[i].says = "yes" => CM \in policy
                              /\ answers[i].says = "no" => CM \notin policy
                    /\ c \in DOMAIN left =>
                          /\ CM \in found[c] => ModifyAllowed
                          /\ ModifyAllowed /\ ~OnWay(c, CM) => CM \in found[c] \/ c \in faulty
                    /\ \A i \in DOMAIN told' :
                          told'[i].type = "reply" /\ told'[i].call = c =>
                            /\ CM \in told'[i].permissions => ModifyAllowed
                            /\ ModifyAllowed => CM \in told'[i].permissions \/ c \in faulty
  BY <1>0 DEF LastCallsRight, ModifyAllowed
<1>1. CASE c \in DOMAIN owner
  <2>1. Calm /\ Counts(c)
    BY <1>1
  <2>2. \A i \in DOMAIN told' :
              told'[i].type = "reply" /\ told'[i].call = c =>
                /\ CM \in told'[i].permissions => ModifyAllowed
                /\ ModifyAllowed => CM \in told'[i].permissions \/ c \in faulty
    BY <1>1, <2>1 DEF LastCallsRight
  <2> QED
    BY <1>1, <2>1, <2>2 DEF LastCallsRight
<1>2. CASE c \notin DOMAIN owner
  <2>1. c \notin DOMAIN left
    BY <1>2, CallNumbers
  <2>2. \A i \in DOMAIN told : told[i].type = "reply" => told[i].call \in DOMAIN owner
    BY CallNumbers DEF Answers
  <2>3. \A i \in DOMAIN answers : Says(answers[i])
    BY DEF Calm, Says
  <2>4. \A i \in DOMAIN answers : answers[i].call # c
    BY <2>1, <2>3 DEF ChecksCounted
  <2> QED
    BY <1>2, <2>1, <2>2, <2>4
<1> QED
  BY <1>1, <1>2

LEMMA ToldRests == ButtonInv => Rests(told, 0)
<1> SUFFICES ASSUME ButtonInv PROVE Rests(told, 0)
  OBVIOUS
<1>1. IsSequence(told) /\ Len(told) \in Nat /\ DOMAIN told = 1 .. Len(told)
  BY CallNumbers DEF ButtonInv, ButtonTypes
<1> QED
  BY <1>1 DEF Rests

LEMMA TailRests ==
    ASSUME ButtonInv, told # <<>>, Head(told).type = "check-permissions"
    PROVE  Rests(Tail(told), 1)
<1>1. IsSequence(told) /\ Len(told) \in Nat /\ DOMAIN told = 1 .. Len(told)
  BY CallNumbers DEF ButtonInv, ButtonTypes
<1>2. /\ IsSequence(Tail(told))
      /\ Len(told) \in Nat \ {0}
      /\ Len(Tail(told)) = Len(told) - 1
      /\ \A i \in 1 .. Len(told) - 1 : Tail(told)[i] = told[i + 1]
      /\ Head(told) = told[1]
  BY <1>1, TailIsSequence
<1>3. DOMAIN Tail(told) = 1 .. Len(told) - 1
  BY <1>2, SequenceDomain
<1>4. ~Answers(told[1])
  BY <1>2 DEF Answers
<1>5. \A i \in DOMAIN told : i <= 1 => ~Answers(told[i])
  BY <1>1, <1>4
<1> QED
  BY <1>2, <1>3, <1>5 DEF Rests

LEMMA ButtonsNewButton ==
    ASSUME ButtonInv, NEW b, Buttons!NewButton(b)
    PROVE  ButtonInv'
<1> USE DEF ButtonInv
<1>1. /\ UNCHANGED <<capable, policy, polled, answers, serving, left, found, have, permissions,
                     faulty, failed, unaware>>
      /\ b = made + 1 /\ made' = b
      /\ buttons' = Append(buttons, b)
  BY DEF Buttons!NewButton, Buttons!polkitVars, Buttons!daemonVars
<1>2. /\ IsSequence(buttons')
      /\ Len(buttons) \in Nat /\ DOMAIN buttons = 1 .. Len(buttons)
      /\ DOMAIN buttons' = 1 .. Len(buttons) + 1
      /\ \A i \in 1 .. Len(buttons) : buttons'[i] = buttons[i]
      /\ buttons'[Len(buttons) + 1] = b
  <2>1. IsSequence(buttons) /\ Len(buttons) \in Nat /\ DOMAIN buttons = 1 .. Len(buttons)
    BY CallNumbers DEF ButtonTypes
  <2>2. /\ IsSequence(buttons')
        /\ Len(buttons') = Len(buttons) + 1
        /\ \A i \in 1 .. Len(buttons) : buttons'[i] = buttons[i]
        /\ buttons'[Len(buttons) + 1] = b
    BY <1>1, <2>1, AppendIsSequence
  <2> QED
    BY <2>1, <2>2, SequenceDomain
<1>3. \A i \in DOMAIN buttons' : \/ i \in DOMAIN buttons /\ buttons'[i] = buttons[i]
                                 \/ i = Len(buttons) + 1 /\ buttons'[i] = b
  BY <1>2
<1>4. made \in Nat /\ made' \in Nat /\ b \in 1 .. made' /\ \A x \in 1 .. made : x \in 1 .. made' /\ x # b
  BY <1>1 DEF ButtonTypes
<1>5. /\ \A i, j \in DOMAIN buttons' : i # j => buttons'[i] # buttons'[j]
      /\ \A i \in DOMAIN buttons' : buttons'[i] \in 1 .. made'
  BY <1>3, <1>4 DEF ButtonsKnown
<1>6. \A c \in DOMAIN owner : owner[c] # b
  BY <1>4 DEF ButtonsKnown
<1>7. CASE have
  <2>1. /\ UNCHANGED <<waited, told, owner, waiting>>
        /\ authorized' = IF Buttons!ConnectionModify \in permissions
                         THEN authorized \union {b} ELSE authorized \ {b}
        /\ cached' = cached \union {b}
    BY <1>7 DEF Buttons!NewButton, Buttons!Tell
  <2>2. ButtonTypes' /\ CallsOpen' /\ ChecksInTurn' /\ CallsInTurn'
    BY <1>1, <1>2, <1>4, <2>1
    DEF ButtonTypes, CallsOpen, ChecksInTurn, CallsInTurn, Answers, Says, Rank
  <2>3. ChecksCounted'
    BY <1>1, <2>1 DEF ChecksCounted, OnWay, One, Says
  <2>4. NothingElseFound'
    BY <1>1, <2>1 DEF NothingElseFound
  <2>5. ButtonsKnown'
    <3>1. \A c \in DOMAIN owner : owner[c] \in 1 .. made'
      BY <1>4 DEF ButtonsKnown
    <3>2. \A i \in DOMAIN buttons' : buttons'[i] \in cached' \/ Asked(buttons'[i])
      BY <1>3, <2>1 DEF ButtonsKnown
    <3> QED
      BY <1>5, <2>1, <3>1, <3>2 DEF ButtonsKnown, Asked
  <2>6. Calm' <=> Calm
    BY <1>1, <2>1 DEF Calm, Says, Answers
  <2>7. ASSUME NEW c \in DOMAIN owner, Counts(c)' PROVE Counts(c)
    BY <1>3, <1>6, <2>1, <2>7 DEF Counts
  <2>8. LastCallsRight'
    BY <1>1, <2>1, <2>6, <2>7, NewCallsKnowNothing
  <2>9. ShownRight'
    <3> SUFFICES ASSUME Calm, NEW i \in DOMAIN buttons', Answered(buttons'[i])
                 PROVE  /\ buttons'[i] \in authorized' => ModifyAllowed
                        /\ ModifyAllowed => buttons'[i] \in authorized' \union failed
      BY <1>1, <2>1, <2>6 DEF ShownRight, Answered, Asked, ModifyAllowed
    <3>1. buttons'[i] # b
      BY <1>6 DEF Answered, Asked
    <3>2. i \in DOMAIN buttons /\ buttons'[i] = buttons[i]
      BY <1>3, <3>1
    <3> QED
      BY <2>1, <3>1, <3>2 DEF ShownRight
  <2> QED
    BY <2>2, <2>3, <2>4, <2>5, <2>8, <2>9
<1>8. CASE ~have
  <2>1. UNCHANGED <<authorized, cached>> /\ Buttons!Ask(<<b>>, told)
    BY <1>8 DEF Buttons!NewButton
  <2>o. PICK one : one = <<b>>
    OBVIOUS
  <2>2. IsSequence(one) /\ Len(one) = 1 /\ one[1] = b /\ DOMAIN one = 1 .. 1
    BY <2>o, SingleIsSequence, SequenceDomain
  <2>3. /\ ButtonTypes' /\ CallsOpen' /\ ChecksInTurn' /\ CallsInTurn' /\ ChecksCounted'
        /\ \A i \in DOMAIN told' : told'[i].type = "reply" =>
              \E j \in DOMAIN told : told[j] = told'[i]
        /\ \A c \in DOMAIN owner : c \in DOMAIN owner' /\ owner'[c] = owner[c]
        /\ \A c \in DOMAIN owner' : c \notin DOMAIN owner => c \in waiting'
        /\ \A i \in DOMAIN one : Len(owner) + i \in DOMAIN owner' /\ owner'[Len(owner) + i] = one[i]
        /\ \A c \in DOMAIN owner' : owner'[c] \in 1 .. made'
        /\ \A c \in waiting : c \in waiting'
        /\ \A i \in DOMAIN told : i \in DOMAIN told' /\ told'[i] = told[i]
    <3>1. Buttons!Ask(one, told)
      BY <2>1, <2>o
    <3>2. Rests(told, 0)
      BY ToldRests
    <3>3. \A i \in DOMAIN one : one[i] \in 1 .. made'
      BY <1>4, <2>2
    <3>4. UNCHANGED <<capable, policy, polled, answers, serving, left, found, faulty>>
      BY <1>1
    <3>5. \A x \in 1 .. made : x \in 1 .. made'
      BY <1>4
    <3> QED
      BY <1>2, <1>4, <2>2, <3>1, <3>2, <3>3, <3>4, <3>5, ButtonsAsk
  <2>4. NothingElseFound'
    BY <1>1, <2>1, <2>3 DEF NothingElseFound
  <2>5. Len(owner) + 1 \in DOMAIN owner' /\ owner'[Len(owner) + 1] = b
        /\ Len(owner) + 1 \notin DOMAIN owner
    <3>1. Len(owner) \in Nat /\ DOMAIN owner = 1 .. Len(owner)
      BY CallNumbers
    <3> QED
      BY <2>2, <2>3, <3>1
  <2>6. ButtonsKnown'
    <3>1. ASSUME NEW i \in DOMAIN buttons'
          PROVE  buttons'[i] \in cached \/ \E c \in DOMAIN owner' : owner'[c] = buttons'[i]
      <4>1. CASE i \in DOMAIN buttons /\ buttons'[i] = buttons[i]
        BY <2>3, <4>1 DEF ButtonsKnown, Asked
      <4>2. CASE buttons'[i] = b
        BY <2>5, <4>2
      <4> QED
        BY <1>3, <4>1, <4>2
    <3> QED
      BY <1>5, <2>1, <2>3, <3>1 DEF ButtonsKnown, Asked
  <2>7. Calm' => Calm
    <3>1. \A i \in DOMAIN told : i \in DOMAIN told' /\ told'[i] = told[i]
      BY <2>3
    <3> QED
      BY <1>1, <3>1 DEF Calm, Says, Answers
  <2>8. ASSUME NEW c \in DOMAIN owner', Counts(c)' PROVE c \in DOMAIN owner => Counts(c)
    <3> SUFFICES ASSUME c \in DOMAIN owner PROVE Counts(c)
      OBVIOUS
    <3>1. owner'[c] = owner[c] /\ owner[c] # b
      BY <1>6, <2>3
    <3>2. \E i \in DOMAIN buttons : buttons[i] = owner[c]
      BY <1>3, <2>8, <3>1 DEF Counts
    <3>3. ASSUME NEW d \in DOMAIN owner, owner[d] = owner[c] PROVE d <= c
      BY <2>3, <2>8, <3>1, <3>3 DEF Counts
    <3> QED
      BY <3>2, <3>3 DEF Counts
  <2>9. ASSUME Calm', NEW c \in DOMAIN owner', c \in DOMAIN owner, Counts(c)' PROVE Calm /\ Counts(c)
    BY <2>7, <2>8, <2>9
  <2>10. LastCallsRight'
    BY <1>1, <2>3, <2>9, NewCallsKnowNothing
  <2>11. ShownRight'
    <3> SUFFICES ASSUME Calm, NEW i \in DOMAIN buttons',
                        \E c \in DOMAIN owner' : owner'[c] = buttons'[i],
                        \A c \in DOMAIN owner' : owner'[c] = buttons'[i] => c \notin waiting'
                 PROVE  /\ buttons'[i] \in authorized => ModifyAllowed
                        /\ ModifyAllowed => buttons'[i] \in authorized \union failed
      BY <1>1, <2>1, <2>7 DEF ShownRight, Answered, Asked, ModifyAllowed
    <3>1. buttons'[i] # b
      BY <2>3, <2>5
    <3>2. i \in DOMAIN buttons /\ buttons'[i] = buttons[i]
      BY <1>3, <3>1
    <3>3. Answered(buttons[i])
      <4>1. \A c \in DOMAIN owner : owner[c] = buttons[i] => c \notin waiting
        BY <2>3, <3>2
      <4>2. PICK c \in DOMAIN owner' : owner'[c] = buttons[i]
        BY <3>2
      <4>3. c \in DOMAIN owner
        BY <2>3, <3>2, <4>2
      <4> QED
        BY <2>3, <4>1, <4>2, <4>3 DEF Answered, Asked
    <3> QED
      BY <3>2, <3>3 DEF ShownRight
  <2> QED
    BY <2>3, <2>4, <2>6, <2>10, <2>11
<1> QED
  BY <1>7, <1>8

(* After CheckPermissions no button is left with its last call answered. *)
LEMMA ButtonsHandleCheck ==
    ASSUME ButtonInv, Buttons!HandleCheckPermissions
    PROVE  ButtonInv'
<1> USE DEF ButtonInv
<1>1. /\ UNCHANGED <<capable, policy, polled, answers, serving, left, found, permissions, buttons,
                     made, authorized, cached, faulty, failed, unaware>>
      /\ told # <<>> /\ Head(told).type = "check-permissions"
      /\ Buttons!Ask(buttons, Tail(told))
  BY DEF Buttons!HandleCheckPermissions, Buttons!Receive, Buttons!polkitVars, Buttons!daemonVars
<1>2. /\ ButtonTypes' /\ CallsOpen' /\ ChecksInTurn' /\ CallsInTurn' /\ ChecksCounted'
      /\ \A i \in DOMAIN told' : told'[i].type = "reply" =>
            \E j \in DOMAIN told : told[j] = told'[i]
      /\ \A c \in DOMAIN owner : c \in DOMAIN owner' /\ owner'[c] = owner[c]
      /\ \A c \in DOMAIN owner' : c \notin DOMAIN owner => c \in waiting'
      /\ \A i \in DOMAIN buttons :
            Len(owner) + i \in DOMAIN owner' /\ owner'[Len(owner) + i] = buttons[i]
      /\ \A c \in DOMAIN owner' : owner'[c] \in 1 .. made'
  <2>1. Rests(Tail(told), 1)
    BY <1>1, TailRests
  <2>2. IsSequence(buttons) /\ IsSequence(buttons') /\ made' \in Nat
    BY <1>1 DEF ButtonTypes
  <2>3. (\A i \in DOMAIN buttons : buttons[i] \in 1 .. made') /\ \A x \in 1 .. made : x \in 1 .. made'
    BY <1>1 DEF ButtonsKnown
  <2>4. UNCHANGED <<capable, policy, polled, answers, serving, left, found, faulty>>
    BY <1>1
  <2> QED
    BY <1>1, <2>1, <2>2, <2>3, <2>4, ButtonsAsk
<1>3. \A i \in DOMAIN buttons : \E c \in DOMAIN owner' :
         c \notin DOMAIN owner /\ c \in waiting' /\ owner'[c] = buttons[i] /\ \A d \in DOMAIN owner : d < c
  <2>1. Len(owner) \in Nat /\ DOMAIN owner = 1 .. Len(owner)
        /\ Len(buttons) \in Nat /\ DOMAIN buttons = 1 .. Len(buttons)
    BY CallNumbers
  <2>2. ASSUME NEW i \in DOMAIN buttons
        PROVE  Len(owner) + i \notin DOMAIN owner /\ \A d \in DOMAIN owner : d < Len(owner) + i
    BY <2>1
  <2> QED
    BY <1>2, <2>2
<1>4. NothingElseFound'
  BY <1>1, <1>2 DEF NothingElseFound
<1>5. ButtonsKnown'
  BY <1>1, <1>2 DEF ButtonsKnown, Asked
<1>6. ASSUME Calm', NEW c \in DOMAIN owner', c \in DOMAIN owner, Counts(c)' PROVE Calm /\ Counts(c)
  <2>1. PICK i \in DOMAIN buttons : buttons[i] = owner'[c]
    BY <1>1, <1>6 DEF Counts
  <2>2. PICK d \in DOMAIN owner' : owner'[d] = buttons[i] /\ c < d
    BY <1>3, <1>6
  <2>3. d <= c
    BY <1>6, <2>1, <2>2 DEF Counts
  <2>4. c \in Nat /\ d \in Nat
    <3>1. DOMAIN owner' = 1 .. Len(owner')  /\ Len(owner') \in Nat
      BY <1>2, SequenceDomain DEF ButtonTypes
    <3> QED
      BY <3>1
  <2> QED
    BY <2>2, <2>3, <2>4
<1>7. LastCallsRight'
  BY <1>1, <1>2, <1>6, NewCallsKnowNothing
<1>8. ShownRight'
  <2>1. \A i \in DOMAIN buttons : ~\A c \in DOMAIN owner' : owner'[c] = buttons[i] => c \notin waiting'
    BY <1>3
  <2> QED
    BY <1>1, <2>1 DEF ShownRight, Answered
<1> QED
  BY <1>2, <1>4, <1>5, <1>7, <1>8

(* The calls of a disposed button go on, for nobody. *)
LEMMA ButtonsDispose ==
    ASSUME ButtonInv, NEW b, Buttons!DisposeButton(b)
    PROVE  ButtonInv'
<1> USE DEF ButtonInv
<1>1. /\ UNCHANGED <<capable, policy, polled, answers, serving, left, found, waited, told, owner,
                     waiting, have, permissions, made, faulty, unaware>>
      /\ authorized' = authorized \ {b}
      /\ cached' = cached \ {b}
      /\ failed' = failed \ {b}
  BY DEF Buttons!DisposeButton, Buttons!polkitVars, Buttons!daemonVars
<1>2. PICK k \in DOMAIN buttons :
         /\ buttons[k] = b
         /\ buttons' = [i \in 1 .. Len(buttons) - 1 |-> buttons[IF i < k THEN i ELSE i + 1]]
  BY DEF Buttons!DisposeButton
<1>3. Len(buttons) \in Nat /\ DOMAIN buttons = 1 .. Len(buttons)
  BY CallNumbers
<1>4. IsSequence(buttons')
  <2>1. PICK n : n = Len(buttons) - 1
    OBVIOUS
  <2>2. n \in Nat
    BY <1>3, <2>1
  <2>3. DOMAIN buttons' = 1 .. n /\ buttons' = [i \in 1 .. n |-> buttons'[i]]
    BY <1>2, <2>1
  <2> QED
    BY <2>2, <2>3, FunctionIsSequence
<1>5. DOMAIN buttons' = 1 .. Len(buttons) - 1
      /\ \A i \in 1 .. Len(buttons) - 1 : buttons'[i] = buttons[IF i < k THEN i ELSE i + 1]
  BY <1>2
<1>6. ASSUME NEW i \in DOMAIN buttons'
      PROVE  /\ (IF i < k THEN i ELSE i + 1) \in DOMAIN buttons
             /\ (IF i < k THEN i ELSE i + 1) # k
             /\ \A j \in DOMAIN buttons' : i # j =>
                   (IF i < k THEN i ELSE i + 1) # (IF j < k THEN j ELSE j + 1)
  BY <1>3, <1>5
<1>7. \A i \in DOMAIN buttons' :
         buttons'[i] # b /\ \E j \in DOMAIN buttons : buttons[j] = buttons'[i]
  BY <1>2, <1>5, <1>6 DEF ButtonsKnown
<1>8. \A i, j \in DOMAIN buttons' : i # j => buttons'[i] # buttons'[j]
  BY <1>5, <1>6 DEF ButtonsKnown
<1>9. ButtonTypes' /\ CallsOpen' /\ ChecksInTurn' /\ CallsInTurn'
  BY <1>1, <1>4 DEF ButtonTypes, CallsOpen, ChecksInTurn, CallsInTurn, Answers, Says, Rank
<1>10. ChecksCounted'
  BY <1>1 DEF ChecksCounted, OnWay, One, Says
<1>11. NothingElseFound'
  BY <1>1 DEF NothingElseFound
<1>12. ButtonsKnown'
  BY <1>1, <1>7, <1>8 DEF ButtonsKnown, Asked
<1>13. Calm' <=> Calm
  BY <1>1 DEF Calm, Says, Answers
<1>14. ASSUME NEW c \in DOMAIN owner, Counts(c)' PROVE Counts(c)
  BY <1>1, <1>7, <1>14 DEF Counts
<1>15. LastCallsRight'
  BY <1>1, <1>13, <1>14, NewCallsKnowNothing
<1>16. ShownRight'
  <2> SUFFICES ASSUME Calm, NEW i \in DOMAIN buttons',
                      \E c \in DOMAIN owner : owner[c] = buttons'[i],
                      \A c \in DOMAIN owner : owner[c] = buttons'[i] => c \notin waiting
               PROVE  /\ buttons'[i] \in authorized' => ModifyAllowed
                      /\ ModifyAllowed => buttons'[i] \in authorized' \union failed'
    BY <1>1, <1>13 DEF ShownRight, Answered, Asked, ModifyAllowed
  <2>1. PICK j \in DOMAIN buttons : buttons[j] = buttons'[i] /\ buttons[j] # b
    BY <1>7
  <2>2. Answered(buttons[j])
    BY <2>1 DEF Answered, Asked
  <2> QED
    BY <1>1, <2>1, <2>2 DEF ShownRight
<1> QED
  BY <1>9, <1>10, <1>11, <1>12, <1>15, <1>16

(* The answer at hand is that of the first of the calls under way, so of    *)
(* the last call of its button if that is left with none.                   *)
LEMMA ButtonsHandleAnswer ==
    ASSUME ButtonInv, Buttons!HandleReply \/ Buttons!HandleError
    PROVE  ButtonInv'
<1> USE DEF ButtonInv
<1> DEFINE CM == Buttons!ConnectionModify
<1>c. PICK c : c = Head(told).call
  OBVIOUS
<1>b. PICK b : b = owner[c]
  OBVIOUS
<1>1. /\ UNCHANGED <<capable, policy, polled, answers, serving, left, found, waited, owner,
                     buttons, made, faulty, unaware>>
      /\ told # <<>>
      /\ Head(told).type \in {"reply", "error"}
      /\ waiting' = waiting \ {c}
      /\ permissions' = IF Head(told).type = "reply" THEN Head(told).permissions ELSE {}
      /\ told' = Tail(told)
      /\ b \in {buttons[i] : i \in DOMAIN buttons} =>
            /\ authorized' = IF CM \in permissions' THEN authorized \union {b} ELSE authorized \ {b}
            /\ cached' = cached \ {b}
            /\ failed' = IF Head(told).type = "error" \/ c \in faulty
                         THEN failed \union {b} ELSE failed \ {b}
      /\ b \notin {buttons[i] : i \in DOMAIN buttons} => UNCHANGED <<authorized, cached, failed>>
  <2>1. CASE Buttons!HandleReply
    BY <1>c, <1>b, <2>1
    DEF Buttons!HandleReply, Buttons!Receive, Buttons!GetPermissionsDone, Buttons!Tell,
        Buttons!ToSet, Buttons!polkitVars, Buttons!daemonVars
  <2>2. CASE Buttons!HandleError
    BY <1>c, <1>b, <2>2
    DEF Buttons!HandleError, Buttons!Receive, Buttons!GetPermissionsDone, Buttons!Tell,
        Buttons!ToSet, Buttons!polkitVars, Buttons!daemonVars
  <2> QED
    BY <2>1, <2>2
<1>2. /\ IsSequence(told')
      /\ Head(told) = told[1] /\ 1 \in DOMAIN told
      /\ \A i \in DOMAIN told' : i \in Nat /\ i + 1 \in DOMAIN told /\ told'[i] = told[i + 1] /\ 1 < i + 1
      /\ \A i \in DOMAIN told : i # 1 => i - 1 \in DOMAIN told' /\ told'[i - 1] = told[i]
      /\ \A i, j \in DOMAIN told' : i < j => i + 1 < j + 1
  <2>1. IsSequence(told)
    BY DEF ButtonTypes
  <2>2. /\ IsSequence(told')
        /\ Len(told) \in Nat \ {0}
        /\ Len(told') = Len(told) - 1
        /\ \A i \in 1 .. Len(told) - 1 : told'[i] = told[i + 1]
        /\ Head(told) = told[1]
    BY <1>1, <2>1, TailIsSequence
  <2>3. DOMAIN told = 1 .. Len(told) /\ DOMAIN told' = 1 .. Len(told) - 1
    BY <2>1, <2>2, SequenceDomain
  <2> QED
    BY <2>2, <2>3
<1>3. /\ told[1].type \in {"reply", "error"} /\ Answers(told[1]) /\ told[1].call = c
      /\ permissions' = IF told[1].type = "reply" THEN told[1].permissions ELSE {}
      /\ c \in waiting /\ c \in DOMAIN owner
  <2>1. told[1].type \in {"reply", "error"} /\ Answers(told[1]) /\ told[1].call = c
    BY <1>1, <1>2, <1>c DEF Answers
  <2>2. c \in waiting
    BY <1>2, <2>1 DEF CallsOpen
  <2> QED
    BY <1>1, <1>2, <2>1, <2>2 DEF ButtonTypes
<1>4. /\ c \in Nat /\ DOMAIN owner \subseteq Nat /\ waiting \subseteq Nat
      /\ DOMAIN left \subseteq Nat
      /\ \A i \in DOMAIN waited : waited[i] \in Nat
      /\ \A i \in DOMAIN told : Answers(told[i]) => told[i].call \in Nat
  BY <1>3, CallNumbers
<1>5. /\ \A d \in DOMAIN left : c < d
      /\ \A i \in DOMAIN waited : c < waited[i]
      /\ \A i \in DOMAIN told' : Answers(told'[i]) => c < told'[i].call
  <2>1. /\ \A d \in DOMAIN left : c < d
        /\ \A i \in DOMAIN waited : c < waited[i]
    BY <1>2, <1>3 DEF CallsInTurn
  <2>2. ASSUME NEW i \in DOMAIN told', Answers(told'[i]) PROVE c < told'[i].call
    BY <1>2, <1>3, <2>2 DEF CallsInTurn
  <2> QED
    BY <2>1, <2>2
<1>6. ASSUME NEW d \in waiting, d # c
      PROVE  /\ c < d
             /\ \/ d \in DOMAIN left
                \/ \E i \in DOMAIN waited : waited[i] = d
                \/ \E i \in DOMAIN told' : Answers(told'[i]) /\ told'[i].call = d
  <2>1. CASE d \in DOMAIN left
    BY <1>5, <2>1
  <2>2. CASE \E i \in DOMAIN waited : waited[i] = d
    BY <1>5, <2>2
  <2>3. ASSUME NEW i \in DOMAIN told, Answers(told[i]), told[i].call = d
        PROVE  c < d /\ \E j \in DOMAIN told' : Answers(told'[j]) /\ told'[j].call = d
    <3>1. i # 1
      BY <1>3, <1>6, <2>3
    <3>2. i - 1 \in DOMAIN told' /\ told'[i - 1] = told[i]
      BY <1>2, <3>1
    <3> QED
      BY <1>5, <2>3, <3>2
  <2> QED
    BY <2>1, <2>2, <2>3 DEF CallsOpen
<1>7. ButtonTypes'
  <2>1. \A i \in DOMAIN told' : told'[i].type \in {"reply", "error", "check-permissions"}
    BY <1>2 DEF ButtonTypes
  <2> QED
    BY <1>1, <1>2, <2>1 DEF ButtonTypes, Says
<1>8. CallsOpen'
  <2>1. DOMAIN left \subseteq waiting'
    BY <1>1, <1>4, <1>5 DEF CallsOpen
  <2>2. \A i \in DOMAIN waited : waited[i] \in waiting'
    BY <1>1, <1>4, <1>5 DEF CallsOpen
  <2>3. ASSUME NEW i \in DOMAIN told', Answers(told'[i]) PROVE told'[i].call \in waiting'
    <3>1. told'[i].call \in waiting
      BY <1>2, <2>3 DEF CallsOpen
    <3>2. c < told'[i].call
      BY <1>5, <2>3
    <3>3. told'[i].call # c
      BY <1>4, <3>1, <3>2
    <3> QED
      BY <1>1, <3>1, <3>3
  <2>4. \A d \in waiting' :
          \/ d \in DOMAIN left
          \/ \E i \in DOMAIN waited : waited[i] = d
          \/ \E i \in DOMAIN told' : Answers(told'[i]) /\ told'[i].call = d
    BY <1>1, <1>6
  <2> QED
    BY <1>1, <2>1, <2>2, <2>3, <2>4 DEF CallsOpen, Answers
<1>9. CallsInTurn'
  <2>1. \A i, j \in DOMAIN told' :
          i < j /\ Answers(told'[i]) /\ Answers(told'[j]) => told'[i].call < told'[j].call
    BY <1>2 DEF CallsInTurn
  <2>2. \A i \in DOMAIN told' : Answers(told'[i]) =>
          /\ \A d \in DOMAIN left : told'[i].call < d
          /\ \A j \in DOMAIN waited : told'[i].call < waited[j]
    BY <1>2 DEF CallsInTurn
  <2>3. ASSUME NEW e \in DOMAIN owner \ waiting', NEW d \in waiting' PROVE e < d
    <3>1. CASE e = c
      BY <1>1, <1>6, <3>1
    <3>2. CASE e # c
      BY <1>1, <3>2 DEF CallsInTurn
    <3> QED
      BY <3>1, <3>2
  <2> QED
    BY <1>1, <2>1, <2>2, <2>3 DEF CallsInTurn, Answers
<1>10. ChecksInTurn' /\ ChecksCounted'
  BY <1>1 DEF ChecksInTurn, ChecksCounted, OnWay, One, Says, Rank
<1>11. NothingElseFound'
  <2> SUFFICES ASSUME CM \notin capable
               PROVE  /\ authorized' = {}
                      /\ CM \notin permissions'
                      /\ \A i \in DOMAIN told' : told'[i].type = "reply" => CM \notin told'[i].permissions
    BY <1>1 DEF NothingElseFound
  <2>1. CM \notin permissions'
    BY <1>2, <1>3 DEF NothingElseFound
  <2>2. authorized' = {}
    BY <1>1, <2>1 DEF NothingElseFound
  <2>3. \A i \in DOMAIN told' : told'[i].type = "reply" => CM \notin told'[i].permissions
    BY <1>2 DEF NothingElseFound
  <2> QED
    BY <2>1, <2>2, <2>3
<1>12. ButtonsKnown'
  <2>1. \A i \in DOMAIN buttons : buttons[i] \in cached' \/ \E d \in DOMAIN owner : owner[d] = buttons[i]
    BY <1>1, <1>3, <1>b DEF ButtonsKnown, Asked
  <2> QED
    BY <1>1, <2>1 DEF ButtonsKnown, Asked
<1>13. Calm' => Calm
  <2>1. ASSUME Calm', NEW i \in DOMAIN told PROVE Answers(told[i])
    <3>1. \A j \in DOMAIN told' : Answers(told'[j])
      BY <2>1 DEF Calm, Answers
    <3> QED
      BY <1>2, <1>3, <3>1
  <2> QED
    BY <1>1, <2>1 DEF Calm, Says
<1>14. ASSUME NEW d \in DOMAIN owner, Counts(d)' PROVE Counts(d)
  BY <1>1, <1>14 DEF Counts
<1>15. LastCallsRight'
  <2>1. \A i \in DOMAIN told' : told'[i].type = "reply" => \E j \in DOMAIN told : told[j] = told'[i]
    BY <1>2
  <2> QED
    BY <1>1, <1>13, <1>14, <2>1, NewCallsKnowNothing
<1>16. ShownRight'
  <2> SUFFICES ASSUME Calm, NEW i \in DOMAIN buttons,
                      \E d \in DOMAIN owner : owner[d] = buttons[i],
                      \A d \in DOMAIN owner : owner[d] = buttons[i] => d \notin waiting'
               PROVE  /\ buttons[i] \in authorized' => ModifyAllowed
                      /\ ModifyAllowed => buttons[i] \in authorized' \union failed'
    BY <1>1, <1>13 DEF ShownRight, Answered, Asked, ModifyAllowed
  <2>1. CASE buttons[i] # b
    <3>1. \A d \in DOMAIN owner : owner[d] = buttons[i] => d \notin waiting
      BY <1>1, <1>b, <2>1
    <3>2. Answered(buttons[i])
      BY <3>1 DEF Answered, Asked
    <3>3. (buttons[i] \in authorized' <=> buttons[i] \in authorized)
          /\ (buttons[i] \in failed' <=> buttons[i] \in failed)
      BY <1>1, <2>1
    <3> QED
      BY <3>2, <3>3 DEF ShownRight
  <2>2. CASE buttons[i] = b
    <3>1. ASSUME NEW d \in DOMAIN owner, owner[d] = owner[c] PROVE d <= c
      <4>1. d = c \/ d \notin waiting
        BY <1>1, <1>b, <2>2, <3>1
      <4>2. d = c \/ d < c
        BY <1>3, <4>1 DEF CallsInTurn
      <4> QED
        BY <1>4, <4>2
    <3>2. Counts(c)
      BY <1>b, <2>2, <3>1 DEF Counts
    <3>3. /\ authorized' = IF CM \in permissions' THEN authorized \union {b} ELSE authorized \ {b}
          /\ failed' = IF told[1].type = "error" \/ c \in faulty THEN failed \union {b} ELSE failed \ {b}
      BY <1>1, <1>2, <2>2
    <3>4. CASE told[1].type = "reply"
      <4>1. /\ CM \in permissions' => ModifyAllowed
            /\ ModifyAllowed => CM \in permissions' \/ c \in faulty
        BY <1>2, <1>3, <3>2, <3>4 DEF LastCallsRight
      <4> QED
        BY <2>2, <3>3, <4>1
    <3>5. CASE told[1].type = "error"
      <4>1. CM \notin permissions'
        BY <1>3, <3>5
      <4> QED
        BY <2>2, <3>3, <3>5, <4>1
    <3> QED
      BY <1>3, <3>4, <3>5
  <2> QED
    BY <2>1, <2>2
<1> QED
  BY <1>7, <1>8, <1>9, <1>10, <1>11, <1>12, <1>15, <1>16

LEMMA ButtonInvStep == ButtonInv /\ [MCNext]_mirrorVars => ButtonInv'
<1> SUFFICES ASSUME ButtonInv, [MCNext]_mirrorVars PROVE ButtonInv'
  OBVIOUS
<1>1. CASE UNCHANGED buttonVars
  <2>1. UNCHANGED <<capable, policy, polled, answers, serving, left, found, waited, told, owner,
                    waiting, permissions, buttons, made, authorized, cached, faulty, failed, unaware>>
    BY <1>1 DEF buttonVars
  <2>2. ButtonTypes' /\ CallsOpen' /\ ChecksInTurn' /\ CallsInTurn'
    BY <2>1 DEF ButtonInv, ButtonTypes, CallsOpen, ChecksInTurn, CallsInTurn, Says, Answers, Rank
  <2>3. ChecksCounted' /\ NothingElseFound' /\ ButtonsKnown'
    BY <2>1 DEF ButtonInv, ChecksCounted, OnWay, One, Says, NothingElseFound, ButtonsKnown, Asked
  <2>4. LastCallsRight'
    BY <2>1 DEF ButtonInv, LastCallsRight, Calm, Counts, ModifyAllowed, OnWay, Says, Answers
  <2>5. ShownRight'
    BY <2>1 DEF ButtonInv, ShownRight, Calm, Answered, Asked, ModifyAllowed, Says, Answers
  <2> QED
    BY <2>2, <2>3, <2>4, <2>5 DEF ButtonInv
<1>2. Buttons!Next \/ UNCHANGED buttonVars
  BY DEF MCNext, ButtonsDo, HostDoes, AppletDoes, mirrorVars
<1>3. ASSUME Buttons!Polkit PROVE ButtonInv'
  BY <1>3, ButtonsPolicyChanges, ButtonsPolkitAnswers DEF Buttons!Polkit
<1>4. ASSUME Buttons!Daemon PROVE ButtonInv'
  BY <1>4, ButtonsGetPermissions, ButtonsHearChange, ButtonsHearAnswer, ButtonsDaemonExits,
     ButtonsDaemonStarts DEF Buttons!Daemon
<1>5. ASSUME Buttons!Dispatch PROVE ButtonInv'
  BY <1>5, ButtonsHandleAnswer, ButtonsHandleCheck DEF Buttons!Dispatch
<1>6. ASSUME NEW b, Buttons!NewButton(b) \/ Buttons!DisposeButton(b) PROVE ButtonInv'
  BY <1>6, ButtonsNewButton, ButtonsDispose
<1> QED
  BY <1>1, <1>2, <1>3, <1>4, <1>5, <1>6 DEF Buttons!Next

(* Once all is answered a button of the connection editor is sensitive      *)
(* exactly when PolicyKit allows what it does, for any number of buttons,   *)
(* calls, changes of the policy and exits of the daemon (ce-polkit-button.c,*)
(* bm-remote-settings-system.c, bm-sysconfig-settings.c).                   *)
THEOREM ButtonsAlwaysRight == MCSpec => []ButtonsRight
<1>1. ButtonInv => ButtonsRight
  <2> SUFFICES ASSUME ButtonInv, Buttons!Quiet, ~unaware,
                      NEW i \in DOMAIN buttons, buttons[i] \notin cached
               PROVE  /\ buttons[i] \in authorized => ModifyAllowed
                      /\ ModifyAllowed => buttons[i] \in authorized \union failed
    BY DEF ButtonsRight, Buttons!ButtonsRight, Buttons!ToSet, Buttons!Allowed, ModifyAllowed
  <2>1. Calm
    BY DEF Buttons!Quiet, Calm
  <2>2. CASE capable = {}
    <3>1. authorized = {} /\ ~ModifyAllowed
      BY <2>2 DEF ButtonInv, NothingElseFound, ModifyAllowed
    <3> QED
      BY <3>1
  <2>3. CASE waiting = {}
    <3>1. Answered(buttons[i])
      BY <2>3 DEF ButtonInv, ButtonsKnown, Answered
    <3> QED
      BY <2>1, <3>1 DEF ButtonInv, ShownRight
  <2> QED
    BY <2>2, <2>3 DEF Buttons!Quiet
<1>2. MCInit => ButtonInv
  BY ButtonInvInit DEF MCInit
<1> QED
  BY <1>1, <1>2, ButtonInvStep, PTL DEF MCSpec
=============================================================================
