------------------------ MODULE RemoteSettingsProofs ------------------------
(***************************************************************************)
(* Proofs about RemoteSettings, for any set of paths and any number of     *)
(* restarts, changes and messages under way: type correctness, that the    *)
(* client implements Follower, and that it has followed when nothing is    *)
(* under way.                                                              *)
(***************************************************************************)
EXTENDS RemoteSettings, SequenceTheorems, TLAPS

-----------------------------------------------------------------------------
(* Type correctness *)

LEMMA MessageParts ==
    ASSUME NEW m \in Message
    PROVE  /\ m.type = "NameOwnerChanged" => m.there \in BOOLEAN
           /\ m.type \in {"NewConnection", "Removed", "Updated", "SettingsReply", "SettingsError"}
                 => m.path \in Path
           /\ m.type \in {"Updated", "SettingsReply"} => m.version \in 1 .. MaxVersion
           /\ m.type = "ListReply" => m.paths \in SUBSET Path
  BY DEF Message

LEMMA HeardIsMessage ==
    ASSUME inbox \in Seq(Message), NEW type, Hears(type)
    PROVE  /\ Head(inbox) \in Message
           /\ Head(inbox).type = type
           /\ Tail(inbox) \in Seq(Message)
  BY DEF Hears

LEMMA SentIsMessage ==
    ASSUME inbox \in Seq(Message), NEW m \in Message, Send(m)
    PROVE  inbox' \in Seq(Message)
  BY DEF Send

LEMMA MutedType ==
    ASSUME NEW q \in Seq(Message), NEW P
    PROVE  Muted(q, P) \in Seq(Message)
<1>1. Muted(q, P) \in [1 .. Len(q) -> Message] /\ Len(q) \in Nat
  BY DEF Muted, Message, CanceledReply
<1> QED
  BY <1>1, SeqDef

LEMMA CallType ==
    /\ running \in 0 .. MaxStart => \A n \in {1, 2} : ListCall(running, n) \in CallSet
    /\ running \in 0 .. MaxStart => \A p \in Path : GetCall(running, p) \in CallSet
  BY DEF ListCall, GetCall, CallSet

LEMMA InitType == Init => TypeOK
<1> SUFFICES ASSUME Init PROVE TypeOK
  OBVIOUS
<1> USE RemoteSettingsAssumption
<1>1. running \in {0, 1} /\ version = running /\ starts = running
  BY DEF Init
<1>2. used \subseteq Path /\ (version = 0 => used = {})
  BY DEF Init, Numbered
<1>3. published \subseteq Path \X (1 .. MaxVersion)
  <2>1. \A p \in used : <<p, version>> \in Path \X (1 .. MaxVersion)
    BY <1>1, <1>2
  <2> QED
    BY <2>1 DEF Init
<1>4. store \in [Path -> 0 .. MaxVersion]
  BY <1>1 DEF Init, None
<1>5. view \in [Path -> 0 .. MaxVersion] /\ top \in [Path -> 0 .. MaxVersion]
  BY DEF Init, None
<1>6. {read, lost, kept} \subseteq BOOLEAN
  BY DEF Init
<1>7. inbox \in Seq(Message) /\ calls \subseteq CallSet /\ pending \subseteq Path
  BY DEF Init
<1>8. /\ running \in 0 .. MaxStart /\ starts \in 0 .. MaxStart /\ version \in 0 .. MaxVersion
  BY <1>1
<1> QED
  BY <1>2, <1>3, <1>4, <1>5, <1>6, <1>7, <1>8 DEF Init, TypeOK

LEMMA ServiceType ==
    ASSUME TypeOK, Service
    PROVE  TypeOK'
<1> USE RemoteSettingsAssumption
<1>1. /\ \A b \in BOOLEAN : NameOwnerChanged(b) \in Message
      /\ \A p \in Path : NewConnection(p) \in Message /\ Removed(p) \in Message
      /\ \A p \in Path, v \in 1 .. MaxVersion : Updated(p, v) \in Message
  BY DEF Message, NameOwnerChanged, NewConnection, Removed, Updated
<1>2. CASE ServiceStarts
  <2>1. /\ version' \in 1 .. MaxVersion /\ starts' \in 0 .. MaxStart /\ running' = starts'
        /\ used' \subseteq Path
    BY <1>2 DEF TypeOK, ServiceStarts, Room, Numbered
  <2>2. store' \in [Path -> 0 .. MaxVersion]
    BY <1>2, <2>1 DEF ServiceStarts, None
  <2>3. published' \subseteq Path \X (1 .. MaxVersion)
    <3>1. \A p \in used' : <<p, version'>> \in Path \X (1 .. MaxVersion)
      BY <2>1
    <3> QED
      BY <1>2, <3>1 DEF TypeOK, ServiceStarts
  <2>4. inbox' \in Seq(Message)
    <3>1. Send(NameOwnerChanged(TRUE)) /\ NameOwnerChanged(TRUE) \in Message
      BY <1>1, <1>2 DEF ServiceStarts
    <3> QED
      BY <3>1, SentIsMessage, Zenon DEF TypeOK
  <2> QED
    BY <1>2, <2>1, <2>2, <2>3, <2>4 DEF TypeOK, ServiceStarts, clientVars
<1>3. CASE ServiceExits
  <2>1. inbox' \in Seq(Message)
    <3>1. Send(NameOwnerChanged(FALSE)) /\ NameOwnerChanged(FALSE) \in Message
      BY <1>1, <1>3 DEF ServiceExits
    <3> QED
      BY <3>1, SentIsMessage, Zenon DEF TypeOK
  <2>2. store' \in [Path -> 0 .. MaxVersion]
    BY <1>3 DEF ServiceExits, None
  <2> QED
    BY <1>3, <2>1, <2>2 DEF TypeOK, ServiceExits, clientVars
<1>4. ASSUME NEW p \in Path, Export(p) PROVE TypeOK'
  <2>1. version' \in 1 .. MaxVersion
    BY <1>4 DEF TypeOK, Export, Room
  <2>2. store' \in [Path -> 0 .. MaxVersion] /\ published' \subseteq Path \X (1 .. MaxVersion)
    BY <1>4, <2>1 DEF TypeOK, Export
  <2>3. inbox' \in Seq(Message)
    BY <1>1, <1>4 DEF TypeOK, Export, Send
  <2> QED
    BY <1>4, <2>1, <2>2, <2>3 DEF TypeOK, Export, busVars, clientVars
<1>5. ASSUME NEW p \in Path, Update(p) PROVE TypeOK'
  <2>1. version' \in 1 .. MaxVersion
    BY <1>5 DEF TypeOK, Update, Room
  <2>2. store' \in [Path -> 0 .. MaxVersion] /\ published' \subseteq Path \X (1 .. MaxVersion)
    BY <1>5, <2>1 DEF TypeOK, Update
  <2>3. inbox' \in Seq(Message)
    BY <1>1, <1>5, <2>1 DEF TypeOK, Update, Send
  <2> QED
    BY <1>5, <2>1, <2>2, <2>3 DEF TypeOK, Update, busVars, clientVars
<1>6. ASSUME NEW p \in Path, Delete(p) PROVE TypeOK'
  <2>1. store' = [store EXCEPT ![p] = 0] /\ Send(Removed(p))
    BY <1>6, Zenon DEF Delete, None
  <2>2. store' \in [Path -> 0 .. MaxVersion]
    BY <2>1 DEF TypeOK
  <2>3. inbox' \in Seq(Message)
    BY <1>1, <2>1, SentIsMessage, Zenon DEF TypeOK
  <2> QED
    BY <1>6, <2>2, <2>3 DEF TypeOK, Delete, busVars, clientVars
<1> QED
  BY <1>2, <1>3, <1>4, <1>5, <1>6 DEF Service

LEMMA AnswerMessage ==
    ASSUME TypeOK, NEW c \in calls, AnswerList(c) \/ AnswerGetSettings(c) \/ FailCall(c)
    PROVE  \E m \in Message :
              /\ Send(m)
              /\ m.type \in {"ListReply", "ListError", "SettingsReply", "SettingsError"}
              /\ m.type = "SettingsReply" =>
                    running # 0 /\ m.path \in Exported /\ m.version = store[m.path]
<1> USE RemoteSettingsAssumption
<1>1. c \in CallSet /\ (c.kind # "list" => c.of \in Path)
  BY DEF TypeOK, CallSet
<1>2. CASE AnswerList(c)
  <2>1. ListReply(Exported) \in Message
    BY DEF Message, ListReply, Exported
  <2> QED
    BY <1>2, <2>1 DEF AnswerList, ListReply
<1>3. CASE AnswerGetSettings(c) /\ c.of \in Exported
  <2>1. c.of \in Path /\ store[c.of] # None
    BY <1>3 DEF Exported
  <2>2. store[c.of] \in 1 .. MaxVersion
    <3>1. store \in [Path -> 0 .. MaxVersion] /\ MaxVersion \in Nat
      BY DEF TypeOK
    <3>2. store[c.of] \in 0 .. MaxVersion
      BY <2>1, <3>1
    <3> QED
      BY <2>1, <3>1, <3>2 DEF None
  <2>3. SettingsReply(c.of, store[c.of]) \in Message
    BY <2>1, <2>2 DEF Message, SettingsReply
  <2> QED
    BY <1>3, <2>3 DEF AnswerGetSettings, SettingsReply
<1>4. CASE AnswerGetSettings(c) /\ c.of \notin Exported
  <2>1. SettingsError(c.of) \in Message
    BY <1>1, <1>4 DEF Message, SettingsError, AnswerGetSettings
  <2> QED
    BY <1>4, <2>1 DEF AnswerGetSettings, SettingsError
<1>5. CASE FailCall(c)
  <2>1. ListError \in Message /\ (c.kind # "list" => SettingsError(c.of) \in Message)
    BY <1>1 DEF Message, SettingsError, ListError
  <2> QED
    BY <1>5, <2>1 DEF FailCall, SettingsError, ListError
<1> QED
  BY <1>2, <1>3, <1>4, <1>5

LEMMA ReplyType ==
    ASSUME TypeOK, Reply
    PROVE  TypeOK'
<1> PICK c \in calls : Answer(c)
  BY DEF Reply
<1>1. PICK m \in Message : Send(m)
  BY AnswerMessage DEF Answer
<1> QED
  BY <1>1 DEF TypeOK, Answer, Send, busVars, serviceVars, clientVars

LEMMA IdleType ==
    ASSUME TypeOK, Idle
    PROVE  TypeOK'
<1>1. CASE FetchConnections
  BY <1>1, CallType DEF TypeOK, FetchConnections, busVars, serviceVars, historyVars
<1>2. CASE RemoveConnections
  <2>1. PICK P \in SUBSET Path : Forget(P) /\ calls' = Canceled(P) /\ inbox' = Muted(inbox, P)
    BY <1>2 DEF RemoveConnections
  <2>2. inbox' \in Seq(Message)
    BY <2>1, MutedType DEF TypeOK
  <2>3. view' \in [Path -> 0 .. MaxVersion] /\ pending' \subseteq Path /\ lost' \in BOOLEAN
    BY <2>1, RemoteSettingsAssumption DEF TypeOK, Forget, None
  <2>4. calls' \subseteq CallSet
    BY <2>1 DEF TypeOK, Canceled
  <2> QED
    BY <1>2, <2>2, <2>3, <2>4 DEF TypeOK, RemoveConnections, busVars, serviceVars
<1> QED
  BY <1>1, <1>2 DEF Idle

LEMMA NewConnectionsType ==
    ASSUME TypeOK, inbox # <<>>, NEW P \in SUBSET Path, NewConnections(P)
    PROVE  pending' \subseteq Path /\ calls' \subseteq CallSet /\ inbox' \in Seq(Message)
<1>1. Tail(inbox) \in Seq(Message)
  BY DEF TypeOK
<1> QED
  BY <1>1, MutedType, CallType DEF TypeOK, NewConnections, Canceled

LEMMA HandleType ==
    ASSUME TypeOK, Handle
    PROVE  TypeOK'
<1> USE RemoteSettingsAssumption
<1> DEFINE m == Head(inbox)
<1>1. CASE HandleNameOwnerChanged
  <2>1. inbox' \in Seq(Message)
    BY <1>1, HeardIsMessage DEF TypeOK, HandleNameOwnerChanged, Receive
  <2>2. idle' \in {"fetch", "remove"} /\ kept' \in BOOLEAN /\ lost' \in BOOLEAN
    BY <1>1, Zenon DEF HandleNameOwnerChanged
  <2> QED
    BY <1>1, <2>1, <2>2 DEF TypeOK, HandleNameOwnerChanged, busVars, serviceVars
<1>2. CASE HandleNewConnection
  <2>1. Hears("NewConnection") /\ NewConnections({m.path})
    BY <1>2 DEF HandleNewConnection
  <2>2. {m.path} \in SUBSET Path /\ inbox # <<>>
    BY <2>1, HeardIsMessage, MessageParts DEF TypeOK, Hears
  <2>3. pending' \subseteq Path /\ calls' \subseteq CallSet /\ inbox' \in Seq(Message)
    BY <2>1, <2>2, NewConnectionsType
  <2> QED
    BY <1>2, <2>3 DEF TypeOK, HandleNewConnection, busVars, serviceVars
<1>3. CASE HandleListReply
  <2>1. Hears("ListReply") /\ NewConnections(m.paths)
    BY <1>3 DEF HandleListReply
  <2>2. m.paths \in SUBSET Path /\ inbox # <<>>
    BY <2>1, HeardIsMessage, MessageParts DEF TypeOK, Hears
  <2>3. pending' \subseteq Path /\ calls' \subseteq CallSet /\ inbox' \in Seq(Message)
    BY <2>1, <2>2, NewConnectionsType
  <2>4. read' \in BOOLEAN
    BY <1>3, Zenon DEF HandleListReply
  <2> QED
    BY <1>3, <2>3, <2>4 DEF TypeOK, HandleListReply, busVars, serviceVars
<1>4. CASE HandleListError
  <2>1. inbox' \in Seq(Message)
    BY <1>4, HeardIsMessage DEF TypeOK, HandleListError, Receive
  <2> QED
    BY <1>4, <2>1 DEF TypeOK, HandleListError, busVars, serviceVars, historyVars
<1>5. CASE HandleSettingsReply
  <2>1. inbox' \in Seq(Message) /\ m.path \in Path /\ m.version \in 1 .. MaxVersion
    BY <1>5, HeardIsMessage, MessageParts DEF TypeOK, HandleSettingsReply, Receive
  <2>2. read' \in BOOLEAN /\ pending' = pending \ {m.path}
    BY <1>5, Zenon DEF HandleSettingsReply, Settled
  <2>3. view' \in [Path -> 0 .. MaxVersion] /\ top' \in [Path -> 0 .. MaxVersion]
    BY <1>5, <2>1 DEF TypeOK, HandleSettingsReply, Shown
  <2> QED
    BY <1>5, <2>1, <2>2, <2>3 DEF TypeOK, HandleSettingsReply, busVars, serviceVars, historyVars
<1>6. CASE HandleSettingsError
  <2>1. inbox' \in Seq(Message)
    BY <1>6, HeardIsMessage DEF TypeOK, HandleSettingsError, Receive
  <2>2. read' \in BOOLEAN /\ pending' = pending \ {m.path}
    BY <1>6, Zenon DEF HandleSettingsError, Settled
  <2> QED
    BY <1>6, <2>1, <2>2 DEF TypeOK, HandleSettingsError, busVars, serviceVars, historyVars
<1>7. CASE HandleCanceledReply
  <2>1. inbox' \in Seq(Message)
    BY <1>7, HeardIsMessage DEF TypeOK, HandleCanceledReply, Receive
  <2> QED
    BY <1>7, <2>1 DEF TypeOK, HandleCanceledReply, busVars, serviceVars, clientVars
<1>8. CASE HandleUpdated
  <2>1. inbox' \in Seq(Message) /\ m.path \in Path /\ m.version \in 1 .. MaxVersion
    BY <1>8, HeardIsMessage, MessageParts DEF TypeOK, HandleUpdated, Receive
  <2>2. /\ view' = view \/ view' = [view EXCEPT ![m.path] = m.version]
        /\ top' = top \/ top' = [top EXCEPT ![m.path] = m.version]
    BY <1>8, Zenon DEF HandleUpdated
  <2>3. view' \in [Path -> 0 .. MaxVersion]
    BY <2>1, <2>2 DEF TypeOK
  <2>4. top' \in [Path -> 0 .. MaxVersion]
    BY <2>1, <2>2 DEF TypeOK
  <2>5. UNCHANGED <<busVars, serviceVars, calls, idle, pending, read, historyVars>>
    BY <1>8 DEF HandleUpdated
  <2> QED
    BY <2>1, <2>3, <2>4, <2>5 DEF TypeOK, busVars, serviceVars, historyVars
<1>9. CASE HandleRemoved
  <2>1. Hears("Removed") /\ inbox # <<>>
    BY <1>9 DEF HandleRemoved, Hears
  <2>2. PICK P \in SUBSET Path :
            Forget(P) /\ calls' = Canceled(P) /\ inbox' = Muted(Tail(inbox), P)
    BY <1>9, <2>1, HeardIsMessage, MessageParts DEF HandleRemoved, TypeOK
  <2>3. inbox' \in Seq(Message)
    BY <2>1, <2>2, HeardIsMessage, MutedType DEF TypeOK
  <2>4. view' \in [Path -> 0 .. MaxVersion] /\ pending' \subseteq Path /\ lost' \in BOOLEAN
    BY <2>2 DEF TypeOK, Forget, None
  <2>5. calls' \subseteq CallSet
    BY <2>2 DEF TypeOK, Canceled
  <2> QED
    BY <1>9, <2>3, <2>4, <2>5 DEF TypeOK, HandleRemoved, busVars, serviceVars
<1> QED
  BY <1>1, <1>2, <1>3, <1>4, <1>5, <1>6, <1>7, <1>8, <1>9 DEF Handle

(* Every variable has its type: versions and starts never pass the bounds.  *)
THEOREM TypeCorrect == Spec => []TypeOK
<1>1. TypeOK /\ [Next]_vars => TypeOK'
  <2> SUFFICES ASSUME TypeOK, [Next]_vars PROVE TypeOK'
    OBVIOUS
  <2>1. CASE UNCHANGED vars
    BY <2>1 DEF TypeOK, vars
  <2> QED
    BY <2>1, ServiceType, ReplyType, HandleType, IdleType DEF Next
<1> QED
  BY <1>1, InitType, PTL DEF Spec

-----------------------------------------------------------------------------
(* What is under way comes in the order of the versions.                   *)
(*                                                                         *)
(* For each path there is a line: what the client has shown (top), what    *)
(* the queue carries from its head to its end, and what the service        *)
(* exports now.  Versions never fall along that line, and rise wherever a  *)
(* fence stands between two of them: a Removed of the path, the service's  *)
(* end, or, in front of the queue, that the client hides the connection.   *)

Carries(m, p) == m.type \in {"Updated", "SettingsReply"} /\ m.path = p

Gone(m) == m.type = "NameOwnerChanged" /\ ~m.there

Came(m) == m.type = "NameOwnerChanged" /\ m.there

Fence(m, p) == Gone(m) \/ (m.type = "Removed" /\ m.path = p)

Fenced(q, p, i, j) == \E k \in i .. j : Fence(q[k], p)

Follows(v, w, fenced) == v <= w /\ (fenced => v < w)

QueueInOrder(q, p) ==
    \A i, j \in 1 .. Len(q) :
        i < j /\ Carries(q[i], p) /\ Carries(q[j], p) =>
            Follows(q[i].version, q[j].version, Fenced(q, p, i, j))

ShownFirst(q, p, shown, hidden) ==
    \A j \in 1 .. Len(q) :
        Carries(q[j], p) => Follows(shown, q[j].version, hidden \/ Fenced(q, p, 1, j))

StoredLast(q, p, stored) ==
    stored # None =>
        \A i \in 1 .. Len(q) :
            Carries(q[i], p) => Follows(q[i].version, stored, Fenced(q, p, i, Len(q)))

ShownThenStored(q, p, shown, hidden, stored) ==
    stored # None => Follows(shown, stored, hidden \/ Fenced(q, p, 1, Len(q)))

Line(q, p, shown, hidden, stored) ==
    /\ QueueInOrder(q, p)
    /\ ShownFirst(q, p, shown, hidden)
    /\ StoredLast(q, p, stored)
    /\ ShownThenStored(q, p, shown, hidden, stored)

(* The client hides a connection, or is about to forget all it shows. *)
Hidden(p) == view[p] = None \/ idle = "remove"

InOrder == \A p \in Path : Line(inbox, p, top[p], Hidden(p), store[p])

(* Between a service's end, heard or not, and the settings of the next comes *)
(* the bus's word of the next: forgetting hits none of its connections.     *)
CameIn(q, i, j) == \E k \in i .. j : Came(q[k])

Back(q, forgetting, alive) ==
    \A k \in 0 .. Len(q) :
        (IF k = 0 THEN forgetting ELSE Gone(q[k])) =>
            /\ alive => CameIn(q, k + 1, Len(q))
            /\ \A j \in (k + 1) .. Len(q) :
                  q[j].type \in {"Updated", "SettingsReply"} => CameIn(q, k + 1, j)

BackFirst == Back(inbox, idle = "remove", running # 0)

(* Every version that is stored, under way or shown was published; a service *)
(* that does not run stores none.                                           *)
AllPublished ==
    /\ running = 0 => Exported = {}
    /\ \A e \in published : e[2] <= version
    /\ \A p \in Path :
          /\ store[p] # None => <<p, store[p]>> \in published
          /\ top[p] # None => <<p, top[p]>> \in published
          /\ view[p] \in {None, top[p]}
    /\ \A i \in 1 .. Len(inbox), p \in Path :
          Carries(inbox[i], p) => <<p, inbox[i].version>> \in published

IInv == InOrder /\ BackFirst /\ AllPublished

-----------------------------------------------------------------------------
(* How a line changes, for one path                                        *)

LEMMA CarriedVersion ==
    ASSUME NEW m \in Message, NEW p, Carries(m, p)
    PROVE  m.version \in Nat \ {0} /\ m.version \in 1 .. MaxVersion /\ p = m.path /\ p \in Path
  BY MessageParts, RemoteSettingsAssumption DEF Carries

(* The head of the queue goes.  Either the client goes on showing what it    *)
(* showed, and hides it only if it did or the head is a fence, or it shows   *)
(* what the head carried.                                                    *)
LEMMA LineReceived ==
    ASSUME NEW q \in Seq(Message), q # <<>>, NEW p,
           NEW shown \in Nat, NEW shown2 \in Nat, NEW stored \in Nat,
           NEW hidden, NEW hidden2, Line(q, p, shown, hidden, stored),
           \/ shown2 = shown /\ (hidden2 => hidden \/ Fence(Head(q), p))
           \/ Carries(Head(q), p) /\ shown2 = Head(q).version /\ ~hidden2
    PROVE  Line(Tail(q), p, shown2, hidden2, stored)
<1> DEFINE r == Tail(q)
<1>1. /\ Len(q) \in Nat \ {0} /\ r \in Seq(Message) /\ Len(r) = Len(q) - 1
      /\ Head(q) = q[1] /\ q[1] \in Message
      /\ \A i \in 1 .. Len(r) : r[i] = q[i + 1] /\ i + 1 \in 1 .. Len(q) /\ r[i] \in Message
  OBVIOUS
<1>2. \A i, j \in 1 .. Len(r) : Fenced(r, p, i, j) => Fenced(q, p, i + 1, j + 1)
  BY <1>1 DEF Fenced
<1>3. \A j \in 1 .. Len(r) : Fenced(q, p, 2, j + 1) \/ Fence(q[1], p) => Fenced(q, p, 1, j + 1)
  BY <1>1 DEF Fenced
<1>4. Fenced(q, p, 2, Len(q)) \/ Fence(q[1], p) => Fenced(q, p, 1, Len(q))
  BY <1>1 DEF Fenced
<1>5. Fenced(r, p, 1, Len(r)) => Fenced(q, p, 2, Len(q))
  BY <1>1 DEF Fenced
<1> HIDE DEF r
<1>6. QueueInOrder(r, p)
  <2> SUFFICES ASSUME NEW i \in 1 .. Len(r), NEW j \in 1 .. Len(r), i < j,
                      Carries(r[i], p), Carries(r[j], p)
               PROVE  Follows(r[i].version, r[j].version, Fenced(r, p, i, j))
    BY DEF QueueInOrder
  <2>1. /\ i + 1 \in 1 .. Len(q) /\ j + 1 \in 1 .. Len(q) /\ i + 1 < j + 1
        /\ r[i] = q[i + 1] /\ r[j] = q[j + 1]
    BY <1>1
  <2>2. Follows(q[i + 1].version, q[j + 1].version, Fenced(q, p, i + 1, j + 1))
    BY <2>1 DEF Line, QueueInOrder
  <2> QED
    BY <1>2, <2>1, <2>2 DEF Follows
<1>7. ShownFirst(r, p, shown2, hidden2)
  <2> SUFFICES ASSUME NEW j \in 1 .. Len(r), Carries(r[j], p)
               PROVE  Follows(shown2, r[j].version, hidden2 \/ Fenced(r, p, 1, j))
    BY DEF ShownFirst
  <2>1. r[j] = q[j + 1] /\ j + 1 \in 1 .. Len(q) /\ 1 < j + 1 /\ 1 \in 1 .. Len(q) /\ 1 \in 1 .. Len(r)
    BY <1>1
  <2>2. Fenced(r, p, 1, j) => Fenced(q, p, 2, j + 1)
    BY <1>2, <2>1
  <2>3. CASE shown2 = shown /\ (hidden2 => hidden \/ Fence(Head(q), p))
    <3>1. Follows(shown, q[j + 1].version, hidden \/ Fenced(q, p, 1, j + 1))
      BY <2>1 DEF Line, ShownFirst
    <3> QED
      BY <1>1, <1>3, <2>1, <2>2, <2>3, <3>1 DEF Follows
  <2>4. CASE Carries(Head(q), p) /\ shown2 = Head(q).version /\ ~hidden2
    <3>1. Follows(q[1].version, q[j + 1].version, Fenced(q, p, 1, j + 1))
      BY <1>1, <2>1, <2>4 DEF Line, QueueInOrder
    <3> QED
      BY <1>1, <1>3, <2>1, <2>2, <2>4, <3>1 DEF Follows
  <2> QED
    BY <2>3, <2>4
<1>8. StoredLast(r, p, stored)
  <2> SUFFICES ASSUME stored # None, NEW i \in 1 .. Len(r), Carries(r[i], p)
               PROVE  Follows(r[i].version, stored, Fenced(r, p, i, Len(r)))
    BY DEF StoredLast
  <2>1. Follows(q[i + 1].version, stored, Fenced(q, p, i + 1, Len(q)))
    BY <1>1 DEF Line, StoredLast
  <2>2. Fenced(r, p, i, Len(r)) => Fenced(q, p, i + 1, Len(q))
    <3>1. Len(r) \in 1 .. Len(r) /\ Len(r) + 1 = Len(q)
      BY <1>1
    <3> QED
      BY <1>2, <3>1
  <2> QED
    BY <1>1, <2>1, <2>2 DEF Follows
<1>9. ShownThenStored(r, p, shown2, hidden2, stored)
  <2> SUFFICES ASSUME stored # None
               PROVE  Follows(shown2, stored, hidden2 \/ Fenced(r, p, 1, Len(r)))
    BY DEF ShownThenStored
  <2>1. CASE shown2 = shown /\ (hidden2 => hidden \/ Fence(Head(q), p))
    <3>1. Follows(shown, stored, hidden \/ Fenced(q, p, 1, Len(q)))
      BY DEF Line, ShownThenStored
    <3> QED
      BY <1>1, <1>4, <1>5, <2>1, <3>1 DEF Follows
  <2>2. CASE Carries(Head(q), p) /\ shown2 = Head(q).version /\ ~hidden2
    <3>1. Follows(q[1].version, stored, Fenced(q, p, 1, Len(q)))
      BY <1>1, <2>2 DEF Line, StoredLast
    <3> QED
      BY <1>1, <1>4, <1>5, <2>2, <3>1 DEF Follows
  <2> QED
    BY <2>1, <2>2
<1> QED
  BY <1>6, <1>7, <1>8, <1>9 DEF Line, r

(* Replies in the queue are canceled. *)
LEMMA LineMuted ==
    ASSUME NEW q \in Seq(Message), NEW P, NEW p, NEW shown, NEW stored, NEW hidden,
           Line(q, p, shown, hidden, stored)
    PROVE  Line(Muted(q, P), p, shown, hidden, stored)
<1> DEFINE r == Muted(q, P)
<1>1. /\ Len(r) = Len(q)
      /\ \A i \in 1 .. Len(q) : r[i] = q[i] \/ r[i] = CanceledReply
  BY DEF Muted
<1>2. /\ \A i \in 1 .. Len(q) : Carries(r[i], p) => Carries(q[i], p) /\ r[i].version = q[i].version
      /\ \A i \in 1 .. Len(q) : Fence(r[i], p) => Fence(q[i], p)
  BY <1>1 DEF Carries, Fence, Gone, CanceledReply
<1> HIDE DEF r
<1>3. \A i, j \in 1 .. Len(q) : Fenced(r, p, i, j) => Fenced(q, p, i, j)
  BY <1>2 DEF Fenced
<1>4. Fenced(r, p, 1, Len(q)) => Fenced(q, p, 1, Len(q))
  BY <1>2 DEF Fenced
<1>5. \A i \in 1 .. Len(q) : Fenced(r, p, i, Len(q)) => Fenced(q, p, i, Len(q))
  BY <1>2 DEF Fenced
<1>6. \A j \in 1 .. Len(q) : Fenced(r, p, 1, j) => Fenced(q, p, 1, j)
  BY <1>2 DEF Fenced
<1>7. QueueInOrder(r, p)
  BY <1>1, <1>2, <1>3 DEF Line, QueueInOrder, Follows
<1>8. ShownFirst(r, p, shown, hidden)
  BY <1>1, <1>2, <1>6 DEF Line, ShownFirst, Follows
<1>9. StoredLast(r, p, stored)
  BY <1>1, <1>2, <1>5 DEF Line, StoredLast, Follows
<1>10. ShownThenStored(r, p, shown, hidden, stored)
  BY <1>1, <1>4 DEF Line, ShownThenStored, Follows
<1> QED
  BY <1>7, <1>8, <1>9, <1>10 DEF Line, r

(* A message is sent that carries the present version, or a newer one that   *)
(* the service stores now, or none; a fence only as the version goes.        *)
LEMMA LineSent ==
    ASSUME NEW q \in Seq(Message), NEW m \in Message, NEW p \in Path,
           NEW shown \in Nat, NEW stored \in Nat, NEW stored2 \in Nat, NEW hidden,
           Line(q, p, shown, hidden, stored),
           Carries(m, p) => m.version = stored2,
           \/ stored2 = None
           \/ stored2 = stored /\ ~Fence(m, p)
           \/ /\ shown < stored2
              /\ \A i \in 1 .. Len(q) : Carries(q[i], p) => q[i].version < stored2
    PROVE  Line(Append(q, m), p, shown, hidden, stored2)
<1> DEFINE r == Append(q, m)
<1>1. /\ Len(q) \in Nat /\ r \in Seq(Message) /\ Len(r) = Len(q) + 1
      /\ r[Len(r)] = m
      /\ \A i \in 1 .. Len(q) : r[i] = q[i] /\ q[i] \in Message /\ i \in 1 .. Len(r)
      /\ \A i \in 1 .. Len(r) : i = Len(r) \/ i \in 1 .. Len(q)
  OBVIOUS
<1> HIDE DEF r
<1>2. \A i \in 1 .. Len(r), j \in 1 .. Len(q) : Fenced(r, p, i, j) => Fenced(q, p, i, j)
  BY <1>1 DEF Fenced
<1>3. \A i \in 1 .. Len(r) : Fenced(r, p, i, Len(r)) => Fenced(q, p, i, Len(q)) \/ Fence(m, p)
  BY <1>1 DEF Fenced
<1>4. ~(Carries(m, p) /\ Fence(m, p))
  BY DEF Carries, Fence, Gone
<1>5. \A i \in 1 .. Len(q) : Carries(q[i], p) => q[i].version \in Nat \ {0}
  BY <1>1, CarriedVersion
<1>6. StoredLast(r, p, stored2)
  <2> SUFFICES ASSUME stored2 # None, NEW i \in 1 .. Len(r), Carries(r[i], p)
               PROVE  Follows(r[i].version, stored2, Fenced(r, p, i, Len(r)))
    BY DEF StoredLast
  <2>1. CASE i = Len(r)
    <3>1. ~Fenced(r, p, i, Len(r))
      BY <1>1, <1>4, <2>1 DEF Fenced
    <3> QED
      BY <1>1, <2>1, <3>1 DEF Follows
  <2>2. CASE i \in 1 .. Len(q) /\ stored2 = stored /\ ~Fence(m, p)
    <3>1. Follows(q[i].version, stored, Fenced(q, p, i, Len(q)))
      BY <1>1, <2>2 DEF Line, StoredLast
    <3> QED
      BY <1>1, <1>3, <2>2, <3>1 DEF Follows
  <2>3. CASE i \in 1 .. Len(q) /\ \A k \in 1 .. Len(q) : Carries(q[k], p) => q[k].version < stored2
    BY <1>1, <1>5, <2>3 DEF Follows
  <2> QED
    BY <1>1, <2>1, <2>2, <2>3
<1>7. ShownThenStored(r, p, shown, hidden, stored2)
  <2> SUFFICES ASSUME stored2 # None
               PROVE  Follows(shown, stored2, hidden \/ Fenced(r, p, 1, Len(r)))
    BY DEF ShownThenStored
  <2>1. CASE stored2 = stored /\ ~Fence(m, p)
    <3>1. Follows(shown, stored, hidden \/ Fenced(q, p, 1, Len(q)))
      BY <2>1 DEF Line, ShownThenStored
    <3>2. 1 \in 1 .. Len(r)
      BY <1>1
    <3> QED
      BY <1>3, <2>1, <3>1, <3>2 DEF Follows
  <2>2. CASE shown < stored2
    BY <2>2 DEF Follows
  <2> QED
    BY <2>1, <2>2
<1>8. QueueInOrder(r, p)
  <2> SUFFICES ASSUME NEW i \in 1 .. Len(r), NEW j \in 1 .. Len(r), i < j,
                      Carries(r[i], p), Carries(r[j], p)
               PROVE  Follows(r[i].version, r[j].version, Fenced(r, p, i, j))
    BY DEF QueueInOrder
  <2>1. i \in 1 .. Len(q)
    BY <1>1
  <2>2. CASE j \in 1 .. Len(q)
    <3>1. Follows(q[i].version, q[j].version, Fenced(q, p, i, j))
      BY <1>1, <2>1, <2>2 DEF Line, QueueInOrder
    <3> QED
      BY <1>1, <1>2, <2>1, <2>2, <3>1 DEF Follows
  <2>3. CASE j = Len(r)
    <3>1. r[j].version = stored2 /\ stored2 # None
      BY <1>1, <2>3, CarriedVersion DEF None
    <3>2. Follows(r[i].version, stored2, Fenced(r, p, i, Len(r)))
      BY <1>6, <3>1 DEF StoredLast
    <3> QED
      BY <2>3, <3>1, <3>2
  <2> QED
    BY <1>1, <2>2, <2>3
<1>9. ShownFirst(r, p, shown, hidden)
  <2> SUFFICES ASSUME NEW j \in 1 .. Len(r), Carries(r[j], p)
               PROVE  Follows(shown, r[j].version, hidden \/ Fenced(r, p, 1, j))
    BY DEF ShownFirst
  <2>1. CASE j \in 1 .. Len(q)
    <3>1. Follows(shown, q[j].version, hidden \/ Fenced(q, p, 1, j))
      BY <1>1, <2>1 DEF Line, ShownFirst
    <3>2. 1 \in 1 .. Len(r)
      BY <1>1
    <3> QED
      BY <1>1, <1>2, <2>1, <3>1, <3>2 DEF Follows
  <2>2. CASE j = Len(r)
    <3>1. r[j].version = stored2 /\ stored2 # None
      BY <1>1, <2>2, CarriedVersion DEF None
    <3>2. Follows(shown, stored2, hidden \/ Fenced(r, p, 1, Len(r)))
      BY <1>7, <3>1 DEF ShownThenStored
    <3> QED
      BY <2>2, <3>1, <3>2
  <2> QED
    BY <1>1, <2>1, <2>2
<1> QED
  BY <1>6, <1>7, <1>8, <1>9 DEF Line, r
-----------------------------------------------------------------------------
(* How the order of ends and beginnings changes                            *)

LEMMA BackReceived ==
    ASSUME NEW q \in Seq(Message), q # <<>>, NEW f, NEW f2, NEW alive, Back(q, f, alive),
           f2 => Gone(Head(q)) \/ (f /\ ~Came(Head(q)))
    PROVE  Back(Tail(q), f2, alive)
<1> DEFINE r == Tail(q)
<1>1. /\ Len(q) \in Nat \ {0} /\ Len(r) = Len(q) - 1 /\ Head(q) = q[1]
      /\ \A i \in 1 .. Len(r) : r[i] = q[i + 1] /\ i + 1 \in 1 .. Len(q)
  OBVIOUS
<1>2. \A i, j \in 1 .. Len(q) : 1 < i /\ CameIn(q, i, j) => CameIn(r, i - 1, j - 1)
  <2> SUFFICES ASSUME NEW i \in 1 .. Len(q), NEW j \in 1 .. Len(q), 1 < i, CameIn(q, i, j)
               PROVE  CameIn(r, i - 1, j - 1)
    OBVIOUS
  <2>1. PICK k \in i .. j : Came(q[k])
    BY DEF CameIn
  <2>2. k - 1 \in (i - 1) .. (j - 1) /\ k - 1 \in 1 .. Len(r) /\ r[k - 1] = q[k]
    BY <1>1
  <2> QED
    BY <2>1, <2>2 DEF CameIn
<1>3. \A j \in 1 .. Len(q) : ~Came(q[1]) /\ CameIn(q, 1, j) => CameIn(r, 1, j - 1)
  <2> SUFFICES ASSUME NEW j \in 1 .. Len(q), ~Came(q[1]), CameIn(q, 1, j)
               PROVE  CameIn(r, 1, j - 1)
    OBVIOUS
  <2>1. PICK k \in 1 .. j : Came(q[k])
    BY DEF CameIn
  <2>2. k # 1
    BY <2>1
  <2>3. k - 1 \in 1 .. (j - 1) /\ k - 1 \in 1 .. Len(r) /\ r[k - 1] = q[k]
    BY <1>1, <2>2
  <2> QED
    BY <2>1, <2>3 DEF CameIn
<1> HIDE DEF r
<1> SUFFICES ASSUME NEW k \in 0 .. Len(r), IF k = 0 THEN f2 ELSE Gone(r[k])
             PROVE  /\ alive => CameIn(r, k + 1, Len(r))
                    /\ \A j \in (k + 1) .. Len(r) :
                          r[j].type \in {"Updated", "SettingsReply"} => CameIn(r, k + 1, j)
  BY DEF Back, r
<1>4. CASE k # 0 \/ Gone(Head(q))
  <2>1. k + 1 \in 1 .. Len(q) /\ Gone(q[k + 1])
    BY <1>1, <1>4
  <2>2. /\ alive => CameIn(q, k + 2, Len(q))
        /\ \A j \in (k + 2) .. Len(q) :
              q[j].type \in {"Updated", "SettingsReply"} => CameIn(q, k + 2, j)
    BY <1>1, <2>1 DEF Back
  <2>3. alive => CameIn(r, k + 1, Len(r))
    <3>1. CameIn(q, k + 2, Len(q)) => k + 2 \in 1 .. Len(q)
      BY <1>1 DEF CameIn
    <3> QED
      BY <1>1, <1>2, <2>2, <3>1
  <2>4. ASSUME NEW j \in (k + 1) .. Len(r), r[j].type \in {"Updated", "SettingsReply"}
        PROVE  CameIn(r, k + 1, j)
    <3>1. j + 1 \in (k + 2) .. Len(q) /\ r[j] = q[j + 1] /\ k + 2 \in 1 .. Len(q) /\ j + 1 \in 1 .. Len(q)
      BY <1>1
    <3>2. CameIn(q, k + 2, j + 1)
      BY <2>2, <2>4, <3>1
    <3>3. CameIn(r, (k + 2) - 1, (j + 1) - 1)
      BY <1>2, <3>1, <3>2
    <3> QED
      BY <3>3
  <2> QED
    BY <2>3, <2>4
<1>5. CASE k = 0 /\ f /\ ~Came(Head(q))
  <2>1. /\ alive => CameIn(q, 1, Len(q))
        /\ \A j \in 1 .. Len(q) :
              q[j].type \in {"Updated", "SettingsReply"} => CameIn(q, 1, j)
    BY <1>1, <1>5 DEF Back
  <2>2. alive => CameIn(r, 1, Len(r))
    BY <1>1, <1>3, <1>5, <2>1
  <2>3. ASSUME NEW j \in 1 .. Len(r), r[j].type \in {"Updated", "SettingsReply"}
        PROVE  CameIn(r, 1, j)
    <3>1. CameIn(q, 1, j + 1) /\ j + 1 \in 1 .. Len(q)
      BY <1>1, <2>1, <2>3
    <3>2. CameIn(r, 1, (j + 1) - 1)
      BY <1>1, <1>3, <1>5, <3>1
    <3> QED
      BY <3>2
  <2> QED
    BY <1>5, <2>2, <2>3
<1> QED
  BY <1>4, <1>5

LEMMA BackMuted ==
    ASSUME NEW q \in Seq(Message), NEW P, NEW f, NEW alive, Back(q, f, alive)
    PROVE  Back(Muted(q, P), f, alive)
<1> DEFINE r == Muted(q, P)
<1>1. /\ Len(r) = Len(q)
      /\ \A i \in 1 .. Len(q) :
            \/ r[i] = q[i]
            \/ r[i] = CanceledReply /\ q[i].type \in {"SettingsReply", "SettingsError"}
  BY DEF Muted
<1>2. \A i \in 1 .. Len(q) :
         /\ Came(r[i]) <=> Came(q[i])
         /\ Gone(r[i]) <=> Gone(q[i])
         /\ r[i].type \in {"Updated", "SettingsReply"} => r[i].type = q[i].type
  BY <1>1 DEF Came, Gone, CanceledReply
<1> HIDE DEF r
<1>3. \A k \in 0 .. Len(q), j \in 1 .. Len(q) : CameIn(q, k + 1, j) => CameIn(r, k + 1, j)
  BY <1>2 DEF CameIn
<1>4. \A k \in 0 .. Len(q) : CameIn(q, k + 1, Len(q)) => CameIn(r, k + 1, Len(q))
  BY <1>2 DEF CameIn
<1>5. Back(r, f, alive)
  BY <1>1, <1>2, <1>3, <1>4 DEF Back
<1> QED
  BY <1>5 DEF r

LEMMA BackSent ==
    ASSUME NEW q \in Seq(Message), NEW m \in Message, NEW f, NEW alive, NEW alive2,
           Back(q, f, alive), Gone(m) => ~alive2, alive2 => alive \/ Came(m),
           m.type \in {"Updated", "SettingsReply"} => alive
    PROVE  Back(Append(q, m), f, alive2)
<1> DEFINE r == Append(q, m)
<1>1. /\ Len(q) \in Nat /\ Len(r) = Len(q) + 1 /\ r[Len(r)] = m
      /\ \A i \in 1 .. Len(q) : r[i] = q[i]
  OBVIOUS
<1> HIDE DEF r
<1>2. \A i \in 1 .. Len(r), j \in 1 .. Len(q) : CameIn(q, i, j) => CameIn(r, i, j)
  BY <1>1 DEF CameIn
<1>3. \A i \in 1 .. Len(r) : CameIn(q, i, Len(q)) \/ Came(m) => CameIn(r, i, Len(r))
  BY <1>1 DEF CameIn
<1> SUFFICES ASSUME NEW k \in 0 .. Len(r), IF k = 0 THEN f ELSE Gone(r[k])
             PROVE  /\ alive2 => CameIn(r, k + 1, Len(r))
                    /\ \A j \in (k + 1) .. Len(r) :
                          r[j].type \in {"Updated", "SettingsReply"} => CameIn(r, k + 1, j)
  BY DEF Back, r
<1>4. CASE k = Len(r)
  BY <1>1, <1>4
<1>5. CASE k # Len(r)
  <2>1. k \in 0 .. Len(q) /\ k + 1 \in 1 .. Len(r) /\ (IF k = 0 THEN f ELSE Gone(q[k]))
    BY <1>1, <1>5
  <2>2. /\ alive => CameIn(q, k + 1, Len(q))
        /\ \A j \in (k + 1) .. Len(q) :
              q[j].type \in {"Updated", "SettingsReply"} => CameIn(q, k + 1, j)
    BY <2>1 DEF Back
  <2>3. alive2 => CameIn(r, k + 1, Len(r))
    BY <1>3, <2>1, <2>2
  <2>4. ASSUME NEW j \in (k + 1) .. Len(r), r[j].type \in {"Updated", "SettingsReply"}
        PROVE  CameIn(r, k + 1, j)
    <3>1. CASE j = Len(r)
      BY <1>1, <1>3, <2>1, <2>2, <2>4, <3>1
    <3>2. CASE j # Len(r)
      <4>1. j \in (k + 1) .. Len(q) /\ j \in 1 .. Len(q) /\ r[j] = q[j]
        BY <1>1, <3>2
      <4> QED
        BY <1>2, <2>1, <2>2, <2>4, <4>1
    <3> QED
      BY <3>1, <3>2
  <2> QED
    BY <2>3, <2>4
<1> QED
  BY <1>4, <1>5
-----------------------------------------------------------------------------
(* The invariant *)

LEMMA Versions ==
    ASSUME TypeOK, IInv
    PROVE  /\ version \in Nat
           /\ \A p \in Path :
                 /\ store[p] \in Nat /\ store[p] <= version
                 /\ top[p] \in Nat /\ top[p] <= version
           /\ \A i \in 1 .. Len(inbox), p \in Path :
                 Carries(inbox[i], p) => inbox[i].version \in Nat /\ inbox[i].version <= version
<1> USE RemoteSettingsAssumption
<1>1. version \in Nat /\ \A p \in Path : store[p] \in Nat /\ top[p] \in Nat
  BY DEF TypeOK
<1>2. \A p \in Path, v \in Nat : <<p, v>> \in published => v <= version
  BY DEF IInv, AllPublished
<1>3. ASSUME NEW p \in Path PROVE store[p] <= version /\ top[p] <= version
  <2>1. /\ store[p] # None => <<p, store[p]>> \in published
        /\ top[p] # None => <<p, top[p]>> \in published
    BY DEF IInv, AllPublished
  <2> QED
    BY <1>1, <1>2, <2>1 DEF None
<1>4. ASSUME NEW i \in 1 .. Len(inbox), NEW p \in Path, Carries(inbox[i], p)
      PROVE  inbox[i].version \in Nat /\ inbox[i].version <= version
  <2>1. inbox[i] \in Message
    BY DEF TypeOK
  <2>2. inbox[i].version \in Nat
    BY <1>4, <2>1, CarriedVersion
  <2> QED
    BY <1>2, <1>4, <2>2 DEF IInv, AllPublished
<1> QED
  BY <1>1, <1>3, <1>4

LEMMA InitIInv == Init => IInv
<1> SUFFICES ASSUME Init PROVE IInv
  OBVIOUS
<1>1. InOrder
  <2> SUFFICES ASSUME NEW p \in Path PROVE Line(inbox, p, top[p], Hidden(p), store[p])
    BY DEF InOrder
  <2>1. /\ Len(inbox) = 0 /\ top[p] = None
        /\ store[p] \in {None, version} /\ version \in {0, 1}
    BY DEF Init
  <2>2. QueueInOrder(inbox, p) /\ ShownFirst(inbox, p, top[p], Hidden(p)) /\ StoredLast(inbox, p, store[p])
    BY <2>1 DEF QueueInOrder, ShownFirst, StoredLast
  <2>3. ShownThenStored(inbox, p, top[p], Hidden(p), store[p])
    BY <2>1 DEF ShownThenStored, Follows, None
  <2> QED
    BY <2>2, <2>3 DEF Line
<1>2. BackFirst
  BY DEF Init, BackFirst, Back
<1>3. AllPublished
  <2>1. version \in {0, 1} /\ \A p \in Path : store[p] # None => p \in used /\ store[p] = version
    BY DEF Init, None
  <2>2. published = used \X {version} /\ top = [p \in Path |-> None] /\ view = top /\ inbox = <<>>
    BY DEF Init
  <2>3. running = 0 => Exported = {}
    BY DEF Init, Exported, None
  <2>4. \A e \in published : e[2] <= version
    BY <2>1, <2>2
  <2>5. ASSUME NEW p \in Path
        PROVE  /\ store[p] # None => <<p, store[p]>> \in published
               /\ top[p] # None => <<p, top[p]>> \in published
               /\ view[p] \in {None, top[p]}
    BY <2>1, <2>2
  <2>6. \A i \in 1 .. Len(inbox), p \in Path :
            Carries(inbox[i], p) => <<p, inbox[i].version>> \in published
    BY <2>2
  <2> QED
    BY <2>3, <2>4, <2>5, <2>6 DEF AllPublished
<1> QED
  BY <1>1, <1>2, <1>3 DEF IInv

(* The service's own step: a message goes out, and what it stores at some    *)
(* paths is the next version, at some nothing.                               *)
LEMMA StoredAndSent ==
    ASSUME TypeOK, TypeOK', IInv, NEW m \in Message, Send(m),
           UNCHANGED <<view, top, idle>>,
           version' \in {version, version + 1},
           published \subseteq published',
           \A e \in published' \ published : e[2] = version',
           \A p \in Path : Carries(m, p) => m.version = store'[p],
           \A p \in Path :
              \/ store'[p] = None
              \/ store'[p] = store[p] /\ ~Fence(m, p)
              \/ store'[p] = version + 1 /\ <<p, store'[p]>> \in published',
           running' = 0 => Exported' = {},
           Gone(m) => running' = 0,
           running' # 0 => running # 0 \/ Came(m),
           m.type \in {"Updated", "SettingsReply"} => running # 0
    PROVE  IInv'
<1> USE RemoteSettingsAssumption
<1>1. /\ Len(inbox) \in Nat /\ inbox' = Append(inbox, m)
      /\ Len(inbox') = Len(inbox) + 1
      /\ inbox'[Len(inbox')] = m
      /\ \A i \in 1 .. Len(inbox) : inbox'[i] = inbox[i]
  BY DEF TypeOK, Send
<1>2. ASSUME NEW p \in Path PROVE Line(inbox', p, top[p], Hidden(p), store'[p])
  <2>1. /\ store[p] \in Nat /\ top[p] \in Nat /\ store'[p] \in Nat
        /\ Line(inbox, p, top[p], Hidden(p), store[p])
        /\ inbox \in Seq(Message)
    BY DEF TypeOK, IInv, InOrder
  <2>2. CASE store'[p] = version + 1
    <3>1. top[p] < store'[p] /\ \A i \in 1 .. Len(inbox) : Carries(inbox[i], p) => inbox[i].version < store'[p]
      BY <2>2, Versions
    <3> QED
      BY <1>1, <2>1, <3>1, LineSent
  <2>3. CASE store'[p] = None \/ (store'[p] = store[p] /\ ~Fence(m, p))
    BY <1>1, <2>1, <2>3, LineSent
  <2> QED
    BY <2>2, <2>3
<1>3. InOrder'
  BY <1>2 DEF InOrder, Hidden
<1>4. BackFirst'
  <2>1. Back(inbox, idle = "remove", running # 0) /\ inbox \in Seq(Message)
    BY DEF IInv, BackFirst, TypeOK
  <2>2. Back(Append(inbox, m), idle = "remove", running' # 0)
    BY <2>1, BackSent
  <2> QED
    BY <1>1, <2>2 DEF BackFirst
<1>5. AllPublished'
  <2>1. ASSUME NEW e \in published' PROVE e[2] <= version'
    <3>1. version \in Nat /\ (e \in published => e[2] <= version)
      BY Versions DEF IInv, AllPublished
    <3>2. e[2] \in Nat
      BY DEF TypeOK
    <3> QED
      BY <3>1, <3>2
  <2>2. ASSUME NEW p \in Path
        PROVE  /\ store'[p] # None => <<p, store'[p]>> \in published'
               /\ top'[p] # None => <<p, top'[p]>> \in published'
               /\ view'[p] \in {None, top'[p]}
    BY DEF IInv, AllPublished
  <2>3. ASSUME NEW i \in 1 .. Len(inbox'), NEW p \in Path, Carries(inbox'[i], p)
        PROVE  <<p, inbox'[i].version>> \in published'
    <3>1. CASE i = Len(inbox')
      <4>1. m.version = store'[p] /\ m.version # None
        BY <1>1, <2>3, <3>1, CarriedVersion DEF None
      <4> QED
        BY <1>1, <2>2, <3>1, <4>1
    <3>2. CASE i # Len(inbox')
      BY <1>1, <2>3, <3>2 DEF IInv, AllPublished
    <3> QED
      BY <3>1, <3>2
  <2> QED
    BY <2>1, <2>2, <2>3 DEF AllPublished
<1> QED
  BY <1>3, <1>4, <1>5 DEF IInv

LEMMA ServiceKeepsIInv ==
    ASSUME TypeOK, IInv, Service
    PROVE  IInv'
<1> USE RemoteSettingsAssumption
<1>1. TypeOK'
  BY ServiceType
<1>2. CASE ServiceStarts
  <2> DEFINE m == NameOwnerChanged(TRUE)
  <2>1. m \in Message /\ Came(m) /\ ~Gone(m) /\ m.type = "NameOwnerChanged"
    BY DEF Message, NameOwnerChanged, Came, Gone
  <2>2. \A p \in Path : ~Carries(m, p)
    BY <2>1 DEF Carries
  <2>3. /\ Send(m) /\ UNCHANGED <<view, top, idle>> /\ version' = version + 1
        /\ published' = published \union (used' \X {version'})
        /\ store' = [p \in Path |-> IF p \in used' THEN version' ELSE None]
    BY <1>2 DEF ServiceStarts, clientVars
  <2>4. \A p \in Path : store'[p] = None \/ (store'[p] = version + 1 /\ <<p, store'[p]>> \in published')
    BY <2>3
  <2>5. \A e \in published' \ published : e[2] = version'
    BY <2>3
  <2>6. running' # 0
    BY <1>2 DEF ServiceStarts, TypeOK
  <2> HIDE DEF m
  <2> QED
    BY <1>1, <2>1, <2>2, <2>3, <2>4, <2>5, <2>6, StoredAndSent
<1>3. CASE ServiceExits
  <2> DEFINE m == NameOwnerChanged(FALSE)
  <2>1. m \in Message /\ Gone(m) /\ m.type = "NameOwnerChanged"
    BY DEF Message, NameOwnerChanged, Gone
  <2>2. \A p \in Path : ~Carries(m, p)
    BY <2>1 DEF Carries
  <2>3. /\ Send(m) /\ UNCHANGED <<view, top, idle, version, published>> /\ running' = 0
        /\ Exported' = {} /\ \A p \in Path : store'[p] = None
    BY <1>3 DEF ServiceExits, clientVars, Exported
  <2> HIDE DEF m
  <2> QED
    BY <1>1, <2>1, <2>2, <2>3, StoredAndSent
<1>4. ASSUME NEW p \in Path, Export(p) PROVE IInv'
  <2> DEFINE m == NewConnection(p)
  <2>1. m \in Message /\ m.type = "NewConnection"
    BY DEF Message, NewConnection
  <2>2. ~Gone(m) /\ ~Came(m) /\ \A q \in Path : ~Carries(m, q) /\ ~Fence(m, q)
    BY <2>1 DEF Carries, Fence, Gone, Came
  <2>3. /\ Send(m) /\ UNCHANGED <<view, top, idle, running>> /\ version' = version + 1
        /\ published' = published \union {<<p, version'>>}
        /\ store' = [store EXCEPT ![p] = version']
    BY <1>4 DEF Export, busVars, clientVars
  <2>5. running # 0
    BY <1>4 DEF Export
  <2>4. \A q \in Path :
            \/ store'[q] = store[q]
            \/ store'[q] = version + 1 /\ <<q, store'[q]>> \in published'
    BY <2>3 DEF TypeOK
  <2> HIDE DEF m
  <2> QED
    BY <1>1, <2>1, <2>2, <2>3, <2>4, <2>5, StoredAndSent
<1>5. ASSUME NEW p \in Path, Update(p) PROVE IInv'
  <2> DEFINE m == Updated(p, version')
  <2>1. version' \in 1 .. MaxVersion
    BY <1>5 DEF TypeOK, Update, Room
  <2>2. m \in Message /\ m.type = "Updated" /\ m.path = p /\ m.version = version'
    BY <2>1 DEF Message, Updated
  <2>3. ~Gone(m) /\ ~Came(m) /\ \A q \in Path : ~Fence(m, q) /\ (Carries(m, q) => q = p)
    BY <2>2 DEF Carries, Fence, Gone, Came
  <2>4. /\ Send(m) /\ UNCHANGED <<view, top, idle, running>> /\ version' = version + 1
        /\ published' = published \union {<<p, version'>>}
        /\ store' = [store EXCEPT ![p] = version']
    BY <1>5 DEF Update, busVars, clientVars
  <2>5. \A q \in Path :
            \/ store'[q] = store[q]
            \/ store'[q] = version + 1 /\ <<q, store'[q]>> \in published'
    BY <2>4 DEF TypeOK
  <2>6. store'[p] = version'
    BY <2>4 DEF TypeOK
  <2>7. running # 0
    BY <1>5 DEF Update, IInv, AllPublished
  <2> HIDE DEF m
  <2> QED
    BY <1>1, <2>2, <2>3, <2>4, <2>5, <2>6, <2>7, StoredAndSent
<1>6. ASSUME NEW p \in Path, Delete(p) PROVE IInv'
  <2> DEFINE m == Removed(p)
  <2>1. m \in Message /\ m.type = "Removed" /\ m.path = p
    BY DEF Message, Removed
  <2>2. ~Gone(m) /\ ~Came(m) /\ \A q \in Path : ~Carries(m, q) /\ (Fence(m, q) => q = p)
    BY <2>1 DEF Carries, Fence, Gone, Came
  <2>3. /\ Send(m) /\ UNCHANGED <<view, top, idle, running, version, published>>
        /\ store' = [store EXCEPT ![p] = None]
    BY <1>6 DEF Delete, busVars, clientVars
  <2>4. \A q \in Path : store'[q] = None \/ (store'[q] = store[q] /\ q # p)
    BY <2>3 DEF TypeOK
  <2>5. running # 0
    BY <1>6 DEF Delete, IInv, AllPublished
  <2> HIDE DEF m
  <2> QED
    BY <1>1, <2>1, <2>2, <2>3, <2>4, <2>5, StoredAndSent
<1> QED
  BY <1>2, <1>3, <1>4, <1>5, <1>6 DEF Service

LEMMA ReplyKeepsIInv ==
    ASSUME TypeOK, IInv, Reply
    PROVE  IInv'
<1> PICK c \in calls : Answer(c)
  BY DEF Reply
<1>1. PICK m \in Message :
         /\ Send(m)
         /\ m.type \in {"ListReply", "ListError", "SettingsReply", "SettingsError"}
         /\ m.type = "SettingsReply" =>
               running # 0 /\ m.path \in Exported /\ m.version = store[m.path]
  BY AnswerMessage DEF Answer
<1>2. UNCHANGED <<view, top, idle, version, published, store, running>>
  BY DEF Answer, busVars, serviceVars, clientVars
<1>3. TypeOK'
  BY ReplyType
<1>4. ~Gone(m) /\ \A p \in Path : ~Fence(m, p) /\ (Carries(m, p) => m.version = store'[p])
  BY <1>1, <1>2 DEF Gone, Fence, Carries
<1>5. running' = 0 => Exported' = {}
  BY <1>2 DEF IInv, AllPublished, Exported
<1>6. m.type \in {"Updated", "SettingsReply"} => running # 0
  BY <1>1
<1> QED
  BY <1>1, <1>2, <1>3, <1>4, <1>5, <1>6, StoredAndSent

LEMMA LineWeaker ==
    ASSUME NEW q, NEW p, NEW shown, NEW stored, NEW hidden, NEW hidden2,
           Line(q, p, shown, hidden, stored), hidden2 => hidden
    PROVE  Line(q, p, shown, hidden2, stored)
  BY DEF Line, ShownFirst, ShownThenStored, Follows

LEMMA BackWeaker ==
    ASSUME NEW q, NEW f, NEW f2, NEW alive, Back(q, f, alive), f2 => f
    PROVE  Back(q, f2, alive)
  BY DEF Back

(* What the client does with replies that are canceled. *)
LEMMA MutedCarries ==
    ASSUME NEW q \in Seq(Message), NEW P
    PROVE  /\ Len(Muted(q, P)) = Len(q)
           /\ \A i \in 1 .. Len(q), p \in Path :
                 Carries(Muted(q, P)[i], p) => Muted(q, P)[i] = q[i]
<1>1. /\ Len(Muted(q, P)) = Len(q)
      /\ \A i \in 1 .. Len(q) : Muted(q, P)[i] = q[i] \/ Muted(q, P)[i] = CanceledReply
  BY DEF Muted
<1> QED
  BY <1>1 DEF Carries, CanceledReply

LEMMA IdleKeepsIInv ==
    ASSUME TypeOK, IInv, Idle
    PROVE  IInv'
<1> USE RemoteSettingsAssumption
<1>1. inbox \in Seq(Message) /\ Back(inbox, idle = "remove", running # 0)
  BY DEF TypeOK, IInv, BackFirst
<1>2. CASE FetchConnections
  <2>1. UNCHANGED <<running, version, store, inbox, published, view, top>> /\ idle' = "none"
    BY <1>2 DEF FetchConnections, busVars, serviceVars
  <2>2. ASSUME NEW p \in Path PROVE Line(inbox, p, top[p], Hidden(p)', store[p])
    <3>1. Line(inbox, p, top[p], Hidden(p), store[p]) /\ (Hidden(p)' => Hidden(p))
      BY <2>1 DEF IInv, InOrder, Hidden
    <3> QED
      BY <3>1, LineWeaker
  <2>3. InOrder'
    BY <2>1, <2>2 DEF InOrder
  <2>4. Back(inbox, FALSE, running # 0)
    BY <1>1, BackWeaker
  <2>5. BackFirst'
    BY <2>1, <2>4 DEF BackFirst, Back
  <2>6. AllPublished'
    BY <2>1 DEF IInv, AllPublished, Exported
  <2> QED
    BY <2>3, <2>5, <2>6 DEF IInv
<1>3. CASE RemoveConnections
  <2>1. /\ UNCHANGED <<running, version, store, published, top>>
        /\ idle = "remove" /\ idle' = "none"
        /\ \A p \in Path : view'[p] = None
    BY <1>3 DEF RemoveConnections, Forget, busVars, serviceVars
  <2>2. PICK P : inbox' = Muted(inbox, P)
    BY <1>3 DEF RemoveConnections
  <2>3. ASSUME NEW p \in Path PROVE Line(inbox', p, top[p], Hidden(p)', store[p])
    <3>1. Line(inbox, p, top[p], Hidden(p), store[p]) /\ Hidden(p)
      BY <2>1 DEF IInv, InOrder, Hidden
    <3>2. Line(inbox, p, top[p], Hidden(p)', store[p])
      BY <3>1, LineWeaker
    <3> QED
      BY <1>1, <2>2, <3>2, LineMuted
  <2>4. InOrder'
    BY <2>1, <2>3 DEF InOrder
  <2>5. Back(inbox', idle = "remove", running # 0)
    BY <1>1, <2>2, BackMuted
  <2>6. BackFirst'
    BY <2>1, <2>5 DEF BackFirst, Back
  <2>7. AllPublished'
    BY <1>1, <2>1, <2>2, MutedCarries DEF IInv, AllPublished, Exported
  <2> QED
    BY <2>4, <2>6, <2>7 DEF IInv
<1> QED
  BY <1>2, <1>3 DEF Idle

(* The client takes the head of the queue, and cancels the calls of objects  *)
(* that go: what it shows is what it showed or what the head carried.        *)
LEMMA HeardKeepsIInv ==
    ASSUME TypeOK, TypeOK', IInv, inbox # <<>>,
           UNCHANGED <<running, version, store, published>>,
           inbox' = Tail(inbox) \/ \E P : inbox' = Muted(Tail(inbox), P),
           \A p \in Path :
              \/ top'[p] = top[p] /\ (Hidden(p)' => Hidden(p) \/ Fence(Head(inbox), p))
              \/ Carries(Head(inbox), p) /\ top'[p] = Head(inbox).version /\ ~Hidden(p)',
           \A p \in Path : view'[p] \in {None, top'[p]},
           idle' = "remove" => Gone(Head(inbox)) \/ (idle = "remove" /\ ~Came(Head(inbox)))
    PROVE  IInv'
<1> USE RemoteSettingsAssumption
<1>1. /\ inbox \in Seq(Message) /\ Tail(inbox) \in Seq(Message)
      /\ Back(inbox, idle = "remove", running # 0)
  BY DEF TypeOK, IInv, BackFirst
<1>2. ASSUME NEW p \in Path PROVE Line(inbox', p, top'[p], Hidden(p)', store'[p])
  <2>1. /\ top[p] \in Nat /\ top'[p] \in Nat /\ store[p] \in Nat /\ store' = store
        /\ Line(inbox, p, top[p], Hidden(p), store[p])
    BY DEF TypeOK, IInv, InOrder
  <2>2. Line(Tail(inbox), p, top'[p], Hidden(p)', store[p])
    BY <1>1, <2>1, LineReceived
  <2>3. CASE inbox' = Tail(inbox)
    BY <2>1, <2>2, <2>3
  <2>4. ASSUME NEW P, inbox' = Muted(Tail(inbox), P)
        PROVE  Line(inbox', p, top'[p], Hidden(p)', store[p])
    BY <1>1, <2>2, <2>4, LineMuted
  <2> QED
    BY <2>1, <2>3, <2>4
<1>3. InOrder'
  BY <1>2 DEF InOrder
<1>4. BackFirst'
  <2>1. Back(Tail(inbox), idle' = "remove", running # 0)
    BY <1>1, BackReceived
  <2>2. CASE inbox' = Tail(inbox)
    BY <2>1, <2>2 DEF BackFirst
  <2>3. ASSUME NEW P, inbox' = Muted(Tail(inbox), P) PROVE BackFirst'
    <3>1. Back(Muted(Tail(inbox), P), idle' = "remove", running # 0)
      BY <1>1, <2>1, BackMuted
    <3> QED
      BY <2>3, <3>1 DEF BackFirst
  <2> QED
    BY <2>2, <2>3
<1>5. AllPublished'
  <2>1. /\ Len(inbox) \in Nat \ {0} /\ Len(Tail(inbox)) = Len(inbox) - 1
        /\ Head(inbox) = inbox[1]
        /\ \A i \in 1 .. Len(Tail(inbox)) : Tail(inbox)[i] = inbox[i + 1] /\ i + 1 \in 1 .. Len(inbox)
    BY <1>1
  <2>2. \A i \in 1 .. Len(Tail(inbox)), p \in Path :
           Carries(Tail(inbox)[i], p) => <<p, Tail(inbox)[i].version>> \in published
    BY <2>1 DEF IInv, AllPublished
  <2>3. \A i \in 1 .. Len(inbox'), p \in Path :
           Carries(inbox'[i], p) => <<p, inbox'[i].version>> \in published
    <3>1. CASE inbox' = Tail(inbox)
      BY <2>2, <3>1
    <3>2. ASSUME NEW P, inbox' = Muted(Tail(inbox), P),
                 NEW i \in 1 .. Len(inbox'), NEW p \in Path, Carries(inbox'[i], p)
          PROVE  <<p, inbox'[i].version>> \in published
      <4>1. i \in 1 .. Len(Tail(inbox))
        BY <1>1, <3>2, MutedCarries
      <4>2. Carries(Muted(Tail(inbox), P)[i], p)
        BY <3>2
      <4>3. Muted(Tail(inbox), P)[i] = Tail(inbox)[i]
        BY <1>1, <4>1, <4>2 DEF Muted, Carries, CanceledReply
      <4> QED
        BY <2>2, <3>2, <4>1, <4>2, <4>3
    <3> QED
      BY <3>1, <3>2
  <2>4. ASSUME NEW p \in Path
        PROVE  /\ store[p] # None => <<p, store[p]>> \in published
               /\ top'[p] # None => <<p, top'[p]>> \in published
    <3>1. 1 \in 1 .. Len(inbox)
      BY <2>1
    <3> QED
      BY <2>1, <3>1 DEF IInv, AllPublished
  <2>5. (running = 0 => Exported = {}) /\ \A e \in published : e[2] <= version
    BY DEF IInv, AllPublished
  <2> QED
    BY <2>3, <2>4, <2>5 DEF AllPublished, Exported
<1> QED
  BY <1>3, <1>4, <1>5 DEF IInv

(* Settings are at the head only if no service's end waits to be dealt with. *)
LEMMA HeadNotForgotten ==
    ASSUME TypeOK, IInv, inbox # <<>>, Head(inbox).type \in {"Updated", "SettingsReply"}
    PROVE  idle # "remove"
<1>1. Head(inbox) = inbox[1] /\ Len(inbox) \in Nat \ {0} /\ 0 \in 0 .. Len(inbox) /\ 1 \in 1 .. Len(inbox)
  BY DEF TypeOK
<1>2. ~CameIn(inbox, 1, 1)
  BY <1>1 DEF CameIn, Came
<1> QED
  BY <1>1, <1>2 DEF IInv, BackFirst, Back

LEMMA HandleKeepsIInv ==
    ASSUME TypeOK, IInv, Handle
    PROVE  IInv'
<1> USE RemoteSettingsAssumption
<1> DEFINE m == Head(inbox)
<1>1. TypeOK'
  BY HandleType
<1>2. \A p \in Path : view[p] \in {None, top[p]}
  BY DEF IInv, AllPublished
<1>3. CASE HandleNameOwnerChanged
  <2>1. /\ Receive("NameOwnerChanged") /\ idle' = IF m.there THEN "fetch" ELSE "remove"
        /\ UNCHANGED <<running, version, store, published, view, top>>
    BY <1>3 DEF HandleNameOwnerChanged, busVars, serviceVars
  <2>2. inbox # <<>> /\ inbox' = Tail(inbox) /\ m.type = "NameOwnerChanged"
    BY <2>1 DEF Receive, Hears
  <2>3. idle' = "remove" => Gone(m)
    BY <2>1, <2>2 DEF Gone
  <2>4. \A p \in Path : Hidden(p)' => Hidden(p) \/ Fence(m, p)
    BY <2>1, <2>3 DEF Hidden, Fence
  <2> QED
    BY <1>1, <1>2, <2>1, <2>2, <2>3, <2>4, HeardKeepsIInv
<1>4. CASE \/ HandleNewConnection \/ HandleListReply \/ HandleListError
           \/ HandleSettingsError \/ HandleCanceledReply
  <2>1. /\ UNCHANGED <<running, version, store, published, view, top, idle>>
        /\ inbox # <<>>
        /\ inbox' = Tail(inbox) \/ \E P : inbox' = Muted(Tail(inbox), P)
        /\ m.type # "NameOwnerChanged"
    BY <1>4 DEF HandleNewConnection, HandleListReply, HandleListError, HandleSettingsError,
       HandleCanceledReply, Receive, Hears, NewConnections, busVars, serviceVars, historyVars,
       clientVars
  <2>2. \A p \in Path : Hidden(p)' => Hidden(p)
    BY <2>1 DEF Hidden
  <2>3. ~Came(m)
    BY <2>1 DEF Came
  <2> QED
    BY <1>1, <1>2, <2>1, <2>2, <2>3, HeardKeepsIInv
<1>5. CASE HandleSettingsReply \/ HandleUpdated
  <2>1. /\ inbox # <<>> /\ inbox' = Tail(inbox)
        /\ UNCHANGED <<running, version, store, published, idle>>
        /\ m.type \in {"Updated", "SettingsReply"}
        /\ Shown(m.path, m.version) \/ UNCHANGED <<view, top>>
    BY <1>5 DEF HandleSettingsReply, HandleUpdated, Receive, Hears, Shown, busVars, serviceVars,
       historyVars
  <2>2. m \in Message /\ ~Came(m) /\ ~Gone(m)
    BY <2>1 DEF TypeOK, Came, Gone
  <2>3. m.version \in Nat \ {0} /\ m.path \in Path /\ Carries(m, m.path)
    BY <2>1, <2>2, MessageParts DEF Carries
  <2>4. idle # "remove"
    BY <2>1, <2>2, HeadNotForgotten
  <2>5. CASE UNCHANGED <<view, top>>
    BY <1>1, <1>2, <2>1, <2>2, <2>4, <2>5, HeardKeepsIInv DEF Hidden
  <2>6. CASE Shown(m.path, m.version)
    <3>1. /\ view' = [view EXCEPT ![m.path] = m.version]
          /\ top' = [top EXCEPT ![m.path] = m.version]
      BY <2>6 DEF Shown
    <3> HIDE DEF m
    <3>2. \A p \in Path : view'[p] \in {None, top'[p]}
      BY <1>2, <2>3, <3>1 DEF TypeOK
    <3>3. PICK shown \in Path : shown = m.path
      BY <2>3
    <3>4. top'[shown] = m.version /\ view'[shown] = m.version
      BY <2>3, <3>1, <3>3 DEF TypeOK
    <3>5. ~Hidden(shown)' /\ Carries(m, shown)
      BY <2>1, <2>3, <2>4, <3>3, <3>4 DEF Hidden, None
    <3>6. ASSUME NEW p \in Path
          PROVE  \/ top'[p] = top[p] /\ (Hidden(p)' => Hidden(p) \/ Fence(m, p))
                 \/ Carries(m, p) /\ top'[p] = m.version /\ ~Hidden(p)'
      <4>1. CASE p = shown
        BY <3>4, <3>5, <4>1
      <4>2. CASE p # shown
        BY <2>1, <3>1, <3>3, <4>2 DEF TypeOK, Hidden
      <4> QED
        BY <4>1, <4>2
    <3> QED
      BY <1>1, <2>1, <2>4, <3>2, <3>6, HeardKeepsIInv DEF m
  <2> QED
    BY <2>1, <2>5, <2>6
<1>6. CASE HandleRemoved
  <2>1. /\ inbox # <<>> /\ m.type = "Removed"
        /\ UNCHANGED <<running, version, store, published, idle, top>>
        /\ inbox' = Muted(Tail(inbox), {m.path})
        /\ \A p \in Path : view'[p] = IF p = m.path THEN None ELSE view[p]
    BY <1>6 DEF HandleRemoved, Hears, Forget, busVars, serviceVars
  <2>2. ~Came(m) /\ Fence(m, m.path)
    BY <2>1 DEF Came, Fence
  <2>3. \A p \in Path : Hidden(p)' => Hidden(p) \/ Fence(m, p)
    BY <2>1, <2>2 DEF Hidden
  <2>4. \A p \in Path : view'[p] \in {None, top'[p]}
    BY <1>2, <2>1
  <2> QED
    BY <1>1, <2>1, <2>2, <2>3, <2>4, HeardKeepsIInv
<1> QED
  BY <1>3, <1>4, <1>5, <1>6 DEF Handle

-----------------------------------------------------------------------------
(* RemoteSettings implements Follower                                      *)

LEMMA InvariantHolds == Spec => []IInv
<1>1. TypeOK /\ IInv /\ [Next]_vars => IInv'
  <2> SUFFICES ASSUME TypeOK, IInv, [Next]_vars PROVE IInv'
    OBVIOUS
  <2>1. CASE UNCHANGED vars
    BY <2>1 DEF vars, IInv, InOrder, Line, QueueInOrder, ShownFirst, StoredLast, ShownThenStored,
       Hidden, BackFirst, Back, AllPublished, Exported
  <2> QED
    BY <2>1, ServiceKeepsIInv, ReplyKeepsIInv, HandleKeepsIInv, IdleKeepsIInv DEF Next
<1> QED
  BY <1>1, InitIInv, TypeCorrect, PTL DEF Spec

LEMMA FollowInit == Init => Followed!Init
<1> SUFFICES ASSUME Init PROVE Followed!Init
  OBVIOUS
<1>1. published \subseteq Path \X Nat
  BY InitType, RemoteSettingsAssumption DEF TypeOK
<1> QED
  BY <1>1 DEF Init, Followed!Init

(* Settings that reach the view are newer than any before, or are what is    *)
(* shown already.                                                            *)
LEMMA ShownFollows ==
    ASSUME TypeOK, IInv, inbox # <<>>, Head(inbox).type \in {"Updated", "SettingsReply"},
           Shown(Head(inbox).path, Head(inbox).version), UNCHANGED published
    PROVE  Followed!Follow
<1> USE RemoteSettingsAssumption
<1> DEFINE m == Head(inbox)
<1>1. m \in Message /\ m = inbox[1] /\ 1 \in 1 .. Len(inbox)
  BY DEF TypeOK
<1>2. Carries(m, m.path) /\ m.path \in Path /\ m.version \in Nat \ {0}
  BY <1>1, MessageParts DEF Carries
<1> HIDE DEF m
<1> DEFINE p == m.path
<1>3. <<p, m.version>> \in published
  BY <1>1, <1>2 DEF IInv, AllPublished
<1>4. Follows(top[p], m.version, Hidden(p) \/ Fenced(inbox, p, 1, 1))
  BY <1>1, <1>2 DEF IInv, InOrder, Line, ShownFirst
<1>5. top[p] \in Nat /\ view[p] \in {None, top[p]}
  <2>1. top[p] \in Nat
    BY <1>2 DEF TypeOK
  <2>2. view[p] \in {None, top[p]}
    BY <1>2 DEF IInv, AllPublished
  <2> QED
    BY <2>1, <2>2
<1>6. m.version > top[p] \/ (m.version = top[p] /\ view[p] = top[p])
  BY <1>2, <1>4, <1>5 DEF Follows, Hidden
<1>7. view' = [view EXCEPT ![p] = m.version] /\ top' = [top EXCEPT ![p] = m.version]
  BY DEF Shown, m
<1>8. view'[p] = m.version /\ top'[p] = m.version
  BY <1>2, <1>7 DEF TypeOK
<1>9. \A r \in Path : r # p => view'[r] = view[r] /\ top'[r] = top[r]
  BY <1>7 DEF TypeOK
<1> HIDE DEF p
<1>10. ASSUME NEW r \in Path
       PROVE  \/ view'[r] \in {view[r], None} /\ top'[r] = top[r]
              \/ <<r, view'[r]>> \in published /\ view'[r] > top[r] /\ top'[r] = view'[r]
  <2>1. CASE r = p
    BY <1>3, <1>6, <1>8, <2>1
  <2>2. CASE r # p
    BY <1>9, <2>2
  <2> QED
    BY <2>1, <2>2
<1> QED
  BY <1>10 DEF Followed!Follow

LEMMA FollowStep ==
    ASSUME TypeOK, IInv, [Next]_vars
    PROVE  [Followed!Next]_(Followed!vars)
<1>1. CASE Service
  <2>1. UNCHANGED <<view, top>> /\ published \subseteq published'
    BY <1>1 DEF Service, ServiceStarts, ServiceExits, Export, Update, Delete, clientVars
  <2> QED
    BY <2>1 DEF Followed!Next, Followed!Publish
<1>2. CASE \/ Reply \/ FetchConnections \/ UNCHANGED vars
           \/ HandleNameOwnerChanged \/ HandleNewConnection \/ HandleListReply \/ HandleListError
           \/ HandleSettingsError \/ HandleCanceledReply
  <2>1. UNCHANGED <<published, view, top>>
    BY <1>2 DEF Reply, Answer, FetchConnections, vars, HandleNameOwnerChanged,
       HandleNewConnection, HandleListReply, HandleListError, HandleSettingsError,
       HandleCanceledReply, serviceVars, clientVars
  <2> QED
    BY <2>1 DEF Followed!vars
<1>3. CASE RemoveConnections \/ HandleRemoved
  <2>1. /\ UNCHANGED <<published, top>>
        /\ \A p \in Path : view'[p] \in {view[p], None}
    BY <1>3 DEF RemoveConnections, HandleRemoved, Forget, serviceVars
  <2> QED
    BY <2>1 DEF Followed!Next, Followed!Follow
<1>4. CASE HandleSettingsReply \/ HandleUpdated
  <2>1. /\ inbox # <<>> /\ Head(inbox).type \in {"Updated", "SettingsReply"} /\ UNCHANGED published
        /\ Shown(Head(inbox).path, Head(inbox).version) \/ UNCHANGED <<view, top>>
    BY <1>4 DEF HandleSettingsReply, HandleUpdated, Receive, Hears, Shown, serviceVars
  <2>2. CASE Shown(Head(inbox).path, Head(inbox).version)
    BY <2>1, <2>2, ShownFollows DEF Followed!Next
  <2>3. CASE UNCHANGED <<view, top>>
    BY <2>1, <2>3 DEF Followed!vars
  <2> QED
    BY <2>1, <2>2, <2>3
<1> QED
  BY <1>1, <1>2, <1>3, <1>4 DEF Next, Handle, Idle

(* The client's view is a Follower of what services publish: it may lag, but *)
(* never shows what was not exported at a path and never goes back, however  *)
(* signals, replies, idle functions and restarts of the service interleave.  *)
THEOREM Implementation == Spec => FollowerSpec
<1>1. TypeOK /\ IInv /\ [Next]_vars => [Followed!Next]_(Followed!vars)
  BY FollowStep
<1> QED
  BY <1>1, FollowInit, InvariantHolds, TypeCorrect, PTL DEF Spec, FollowerSpec, Followed!Spec

-----------------------------------------------------------------------------
(* Nothing is missed: for each connection that is exported in a version the *)
(* client does not show, something is under way that brings it.             *)

Replies(m, p) == m.type = "SettingsReply" /\ m.path = p

Asks(m, p) ==
    \/ m.type = "NewConnection" /\ m.path = p
    \/ m.type = "ListReply" /\ p \in m.paths

Asked(q, p) == \E i \in 1 .. Len(q) : Asks(q[i], p)

(* A signal is heard by an object that is shown by then. *)
Delivers(q, p, shown, v) ==
    \E j \in 1 .. Len(q) :
        /\ Carries(q[j], p) /\ q[j].version = v
        /\ shown \/ \E i \in 1 .. j : Replies(q[i], p)

Listing ==
    \/ CameIn(inbox, 1, Len(inbox))
    \/ idle = "fetch"
    \/ \E c \in calls : c.kind = "list" /\ c.to = running

GetOut(p) == \E c \in calls : c.kind = "get" /\ c.to = running /\ c.of = p

Coming(p) ==
    \/ Listing
    \/ Asked(inbox, p)
    \/ GetOut(p)
    \/ Delivers(inbox, p, view[p] # None, store[p])
    \/ view[p] = store[p]

NoneMissed == \A p \in Exported : Coming(p)

(* A pending object waits for a call's end. *)
Waited(p) ==
    \/ \E c \in calls : c.kind = "get" /\ c.of = p
    \/ \E i \in 1 .. Len(inbox) :
          inbox[i].type \in {"SettingsReply", "SettingsError"} /\ inbox[i].path = p

PendingWaits == \A p \in pending : Waited(p)

(* What is exported was not removed since the service came: a path is not    *)
(* given twice.                                                             *)
RemovedBefore(q, p) ==
    \A i \in 1 .. Len(q) : q[i].type = "Removed" /\ q[i].path = p => CameIn(q, i + 1, Len(q))

OldRemovals ==
    /\ Exported \subseteq used
    /\ running # 0 =>
          \A p \in Path : p \in Exported \/ p \notin used => RemovedBefore(inbox, p)

(* What is not exported any more goes from the view, or does not get there.  *)
Leaves(q, p, shown) ==
    /\ shown => Fenced(q, p, 1, Len(q))
    /\ \A i \in 1 .. Len(q) : Replies(q[i], p) => Fenced(q, p, i + 1, Len(q))

NoneLeft ==
    ~kept => \A p \in Path \ Exported : Leaves(inbox, p, view[p] # None /\ idle # "remove")

FInv == NoneMissed /\ PendingWaits /\ OldRemovals /\ NoneLeft

LEMMA QueueSent ==
    ASSUME NEW q \in Seq(Message), NEW m \in Message, NEW p, NEW shown, NEW v
    PROVE  /\ CameIn(q, 1, Len(q)) \/ Came(m) => CameIn(Append(q, m), 1, Len(Append(q, m)))
           /\ Asked(q, p) \/ Asks(m, p) => Asked(Append(q, m), p)
           /\ Delivers(q, p, shown, v) => Delivers(Append(q, m), p, shown, v)
           /\ (RemovedBefore(q, p) /\ ~(m.type = "Removed" /\ m.path = p)) \/ Came(m) =>
                 RemovedBefore(Append(q, m), p)
           /\ (Leaves(q, p, shown) /\ ~Replies(m, p)) \/ Fence(m, p) =>
                 Leaves(Append(q, m), p, shown)
<1> DEFINE r == Append(q, m)
<1>1. /\ Len(q) \in Nat /\ Len(r) = Len(q) + 1 /\ r[Len(q) + 1] = m
      /\ \A i \in 1 .. Len(q) : r[i] = q[i]
  OBVIOUS
<1> HIDE DEF r
<1>2. CameIn(q, 1, Len(q)) \/ Came(m) => CameIn(r, 1, Len(r))
  BY <1>1 DEF CameIn
<1>3. Asked(q, p) \/ Asks(m, p) => Asked(r, p)
  BY <1>1 DEF Asked
<1>4. Delivers(q, p, shown, v) => Delivers(r, p, shown, v)
  <2> SUFFICES ASSUME Delivers(q, p, shown, v) PROVE Delivers(r, p, shown, v)
    OBVIOUS
  <2>1. PICK j \in 1 .. Len(q) : /\ Carries(q[j], p) /\ q[j].version = v
                                 /\ shown \/ \E i \in 1 .. j : Replies(q[i], p)
    BY DEF Delivers
  <2>2. j \in 1 .. Len(r) /\ r[j] = q[j] /\ \A i \in 1 .. j : r[i] = q[i]
    BY <1>1
  <2> QED
    BY <2>1, <2>2 DEF Delivers
<1>5. (RemovedBefore(q, p) /\ ~(m.type = "Removed" /\ m.path = p)) \/ Came(m) => RemovedBefore(r, p)
  <2> SUFFICES ASSUME (RemovedBefore(q, p) /\ ~(m.type = "Removed" /\ m.path = p)) \/ Came(m),
                      NEW i \in 1 .. Len(r), r[i].type = "Removed", r[i].path = p
               PROVE  CameIn(r, i + 1, Len(r))
    BY DEF RemovedBefore
  <2>1. i \in 1 .. Len(q) /\ r[i] = q[i]
    BY <1>1 DEF Came
  <2>2. CameIn(q, i + 1, Len(q)) \/ Came(m)
    BY <2>1 DEF RemovedBefore
  <2> QED
    BY <1>1, <2>1, <2>2 DEF CameIn
<1>6. (Leaves(q, p, shown) /\ ~Replies(m, p)) \/ Fence(m, p) => Leaves(r, p, shown)
  <2> SUFFICES ASSUME (Leaves(q, p, shown) /\ ~Replies(m, p)) \/ Fence(m, p)
               PROVE  Leaves(r, p, shown)
    OBVIOUS
  <2>1. ~Replies(m, p)
    BY DEF Replies, Fence, Gone
  <2>2. \A i \in 1 .. Len(q) + 1 : Fenced(q, p, i, Len(q)) \/ Fence(m, p) => Fenced(r, p, i, Len(r))
    BY <1>1 DEF Fenced
  <2>3. shown => Fenced(r, p, 1, Len(r))
    BY <1>1, <2>2 DEF Leaves
  <2>4. ASSUME NEW i \in 1 .. Len(r), Replies(r[i], p) PROVE Fenced(r, p, i + 1, Len(r))
    <3>1. i \in 1 .. Len(q) /\ r[i] = q[i]
      BY <1>1, <2>1, <2>4
    <3> QED
      BY <1>1, <2>2, <2>4, <3>1 DEF Leaves
  <2> QED
    BY <2>3, <2>4 DEF Leaves
<1> QED
  BY <1>2, <1>3, <1>4, <1>5, <1>6 DEF r

LEMMA QueueReceived ==
    ASSUME NEW q \in Seq(Message), q # <<>>, NEW p, NEW shown, NEW v
    PROVE  /\ CameIn(q, 1, Len(q)) /\ ~Came(Head(q)) => CameIn(Tail(q), 1, Len(Tail(q)))
           /\ CameIn(q, 2, Len(q)) => CameIn(Tail(q), 1, Len(Tail(q)))
           /\ Asked(q, p) => Asks(Head(q), p) \/ Asked(Tail(q), p)
           /\ Delivers(q, p, shown, v) =>
                 \/ Carries(Head(q), p) /\ Head(q).version = v
                 \/ Delivers(Tail(q), p, shown \/ Replies(Head(q), p), v)
           /\ RemovedBefore(q, p) => RemovedBefore(Tail(q), p)
           /\ Leaves(q, p, shown) =>
                 Leaves(Tail(q), p, (shown /\ ~Fence(Head(q), p)) \/ Replies(Head(q), p))
<1> DEFINE r == Tail(q)
<1>1. /\ Len(q) \in Nat \ {0} /\ Len(r) = Len(q) - 1 /\ Head(q) = q[1]
      /\ \A i \in 1 .. Len(r) : r[i] = q[i + 1]
  OBVIOUS
<1>2. \A i \in 2 .. Len(q) : i - 1 \in 1 .. Len(r) /\ r[i - 1] = q[i]
  BY <1>1
<1> HIDE DEF r
<1>3. \A i \in 1 .. Len(q) : CameIn(q, i + 1, Len(q)) => CameIn(r, i, Len(r))
  BY <1>1, <1>2 DEF CameIn
<1>4. CameIn(q, 1, Len(q)) /\ ~Came(Head(q)) => CameIn(r, 1, Len(r))
  BY <1>1, <1>3 DEF CameIn
<1>5. Asked(q, p) => Asks(Head(q), p) \/ Asked(r, p)
  BY <1>1, <1>2 DEF Asked
<1>6. Delivers(q, p, shown, v) =>
         \/ Carries(Head(q), p) /\ Head(q).version = v
         \/ Delivers(r, p, shown \/ Replies(Head(q), p), v)
  <2> SUFFICES ASSUME Delivers(q, p, shown, v), ~(Carries(Head(q), p) /\ Head(q).version = v)
               PROVE  Delivers(r, p, shown \/ Replies(Head(q), p), v)
    OBVIOUS
  <2>1. PICK j \in 1 .. Len(q) : /\ Carries(q[j], p) /\ q[j].version = v
                                 /\ shown \/ \E i \in 1 .. j : Replies(q[i], p)
    BY DEF Delivers
  <2>2. j \in 2 .. Len(q)
    BY <1>1, <2>1
  <2>3. j - 1 \in 1 .. Len(r) /\ Carries(r[j - 1], p) /\ r[j - 1].version = v
    BY <1>2, <2>1, <2>2
  <2>4. shown \/ Replies(Head(q), p) \/ \E i \in 1 .. j - 1 : Replies(r[i], p)
    <3>1. ASSUME NEW i \in 1 .. j, Replies(q[i], p), i # 1
          PROVE  i - 1 \in 1 .. j - 1 /\ Replies(r[i - 1], p)
      BY <1>2, <2>2, <3>1
    <3> QED
      BY <1>1, <2>1, <3>1
  <2> QED
    BY <2>3, <2>4 DEF Delivers
<1>7. RemovedBefore(q, p) => RemovedBefore(r, p)
  <2> SUFFICES ASSUME RemovedBefore(q, p), NEW i \in 1 .. Len(r), r[i].type = "Removed",
                      r[i].path = p
               PROVE  CameIn(r, i + 1, Len(r))
    BY DEF RemovedBefore
  <2>1. i + 1 \in 1 .. Len(q) /\ r[i] = q[i + 1]
    BY <1>1
  <2>2. CameIn(q, (i + 1) + 1, Len(q))
    BY <2>1 DEF RemovedBefore
  <2> QED
    BY <1>3, <2>1, <2>2
<1>8. Leaves(q, p, shown) => Leaves(r, p, (shown /\ ~Fence(Head(q), p)) \/ Replies(Head(q), p))
  <2> SUFFICES ASSUME Leaves(q, p, shown)
               PROVE  Leaves(r, p, (shown /\ ~Fence(Head(q), p)) \/ Replies(Head(q), p))
    OBVIOUS
  <2>1. \A i \in 1 .. Len(q) : Fenced(q, p, i + 1, Len(q)) => Fenced(r, p, i, Len(r))
    BY <1>1, <1>2 DEF Fenced
  <2>2. (shown /\ ~Fence(Head(q), p)) \/ Replies(Head(q), p) => Fenced(q, p, 2, Len(q))
    <3>1. CASE shown /\ ~Fence(Head(q), p)
      BY <1>1, <3>1 DEF Leaves, Fenced
    <3>2. CASE Replies(Head(q), p)
      BY <1>1, <3>2 DEF Leaves
    <3> QED
      BY <3>1, <3>2
  <2>3. ASSUME NEW i \in 1 .. Len(r), Replies(r[i], p) PROVE Fenced(r, p, i + 1, Len(r))
    <3>1. i + 1 \in 1 .. Len(q) /\ Replies(q[i + 1], p)
      BY <1>1, <2>3
    <3>2. Fenced(q, p, (i + 1) + 1, Len(q))
      BY <3>1 DEF Leaves
    <3> QED
      BY <2>1, <3>1, <3>2
  <2>4. (shown /\ ~Fence(Head(q), p)) \/ Replies(Head(q), p) => Fenced(r, p, 1, Len(r))
    BY <1>1, <2>1, <2>2
  <2> QED
    BY <2>3, <2>4 DEF Leaves
<1> QED
  BY <1>1, <1>3, <1>4, <1>5, <1>6, <1>7, <1>8 DEF r

(* Canceling the calls of P changes no signal, and no reply for another path. *)
LEMMA QueueMuted ==
    ASSUME NEW q \in Seq(Message), NEW P, NEW p, NEW shown, NEW v
    PROVE  /\ CameIn(q, 1, Len(q)) => CameIn(Muted(q, P), 1, Len(Muted(q, P)))
           /\ Asked(q, p) => Asked(Muted(q, P), p)
           /\ p \notin P /\ Delivers(q, p, shown, v) => Delivers(Muted(q, P), p, shown, v)
           /\ RemovedBefore(q, p) => RemovedBefore(Muted(q, P), p)
           /\ Leaves(q, p, shown) => Leaves(Muted(q, P), p, shown)
<1> DEFINE r == Muted(q, P)
<1>1. /\ Len(r) = Len(q) /\ Len(q) \in Nat
      /\ \A i \in 1 .. Len(q) :
            IF q[i].type \in {"SettingsReply", "SettingsError"} /\ q[i].path \in P
            THEN r[i] = CanceledReply
            ELSE r[i] = q[i]
  BY DEF Muted
<1> HIDE DEF r
<1>2. \A i \in 1 .. Len(q) :
         /\ q[i].type \notin {"SettingsReply", "SettingsError"} => r[i] = q[i]
         /\ q[i].path \notin P => r[i] = q[i]
         /\ r[i].type # "CanceledReply" => r[i] = q[i]
  BY <1>1 DEF CanceledReply
<1>3. \A i \in 1 .. Len(q) + 1 : CameIn(q, i, Len(q)) => CameIn(r, i, Len(r))
  BY <1>1, <1>2 DEF CameIn, Came
<1>4. Asked(q, p) => Asked(r, p)
  BY <1>1, <1>2 DEF Asked, Asks
<1>5. p \notin P /\ Delivers(q, p, shown, v) => Delivers(r, p, shown, v)
  <2> SUFFICES ASSUME p \notin P, Delivers(q, p, shown, v) PROVE Delivers(r, p, shown, v)
    OBVIOUS
  <2>1. PICK j \in 1 .. Len(q) : /\ Carries(q[j], p) /\ q[j].version = v
                                 /\ shown \/ \E i \in 1 .. j : Replies(q[i], p)
    BY DEF Delivers
  <2>2. j \in 1 .. Len(r) /\ r[j] = q[j] /\ \A i \in 1 .. j : Replies(q[i], p) => r[i] = q[i]
    BY <1>1, <1>2, <2>1 DEF Carries, Replies
  <2> QED
    BY <2>1, <2>2 DEF Delivers
<1>6. RemovedBefore(q, p) => RemovedBefore(r, p)
  <2> SUFFICES ASSUME RemovedBefore(q, p), NEW i \in 1 .. Len(r), r[i].type = "Removed",
                      r[i].path = p
               PROVE  CameIn(r, i + 1, Len(r))
    BY DEF RemovedBefore
  <2>1. i \in 1 .. Len(q) /\ r[i] = q[i]
    BY <1>1, <1>2
  <2> QED
    BY <1>1, <1>3, <2>1 DEF RemovedBefore
<1>7. Leaves(q, p, shown) => Leaves(r, p, shown)
  <2>1. \A i \in 1 .. Len(q) + 1 : Fenced(q, p, i, Len(q)) => Fenced(r, p, i, Len(r))
    BY <1>1, <1>2 DEF Fenced, Fence, Gone
  <2>2. \A i \in 1 .. Len(q) : Replies(r[i], p) => Replies(q[i], p)
    BY <1>2 DEF Replies
  <2> QED
    BY <1>1, <2>1, <2>2 DEF Leaves
<1> QED
  BY <1>1, <1>3, <1>4, <1>5, <1>6, <1>7 DEF r

LEMMA InitFInv == Init => FInv
<1> SUFFICES ASSUME Init PROVE FInv
  OBVIOUS
<1>1. inbox = <<>> /\ idle = "fetch" /\ pending = {} /\ view = [p \in Path |-> None]
  BY DEF Init
<1>2. Exported \subseteq used
  BY DEF Init, Exported
<1>3. \A p \in Path : RemovedBefore(inbox, p) /\ Leaves(inbox, p, FALSE)
  <2>1. 1 .. Len(inbox) = {}
    BY <1>1
  <2> QED
    BY <2>1 DEF RemovedBefore, Leaves
<1>4. NoneLeft
  BY <1>1, <1>3 DEF NoneLeft
<1> QED
  BY <1>1, <1>2, <1>3, <1>4 DEF FInv, NoneMissed, Coming, Listing, PendingWaits, OldRemovals

(* A message more takes nothing away; nor does a call's end, if the call was *)
(* of another object or to a service that is gone.                          *)
LEMMA ComingSent ==
    ASSUME TypeOK, NEW m \in Message, Send(m), UNCHANGED <<running, idle, view>>,
           NEW p, store'[p] = store[p], Coming(p),
           \A c \in calls : c \in calls' \/ c.to # running \/ (c.kind = "get" /\ c.of # p)
    PROVE  Coming(p)'
<1>1. inbox \in Seq(Message) /\ inbox' = Append(inbox, m)
  BY DEF TypeOK, Send
<1>2. CASE Listing
  <2>1. CameIn(inbox, 1, Len(inbox)) => CameIn(inbox', 1, Len(inbox'))
    BY <1>1, QueueSent
  <2> QED
    BY <1>2, <2>1 DEF Listing, Coming
<1>3. CASE Asked(inbox, p)
  BY <1>1, <1>3, QueueSent DEF Coming
<1>4. CASE GetOut(p)
  BY <1>4 DEF GetOut, Coming
<1>5. CASE Delivers(inbox, p, view[p] # None, store[p])
  BY <1>1, <1>5, QueueSent DEF Coming
<1>6. CASE view[p] = store[p]
  BY <1>6 DEF Coming
<1> QED
  BY <1>2, <1>3, <1>4, <1>5, <1>6 DEF Coming

LEMMA WaitedSent ==
    ASSUME TypeOK, NEW m \in Message, Send(m), NEW p, Waited(p),
           \A c \in calls : \/ c \in calls' \/ c.kind # "get"
                            \/ m.type \in {"SettingsReply", "SettingsError"} /\ m.path = c.of
    PROVE  Waited(p)'
<1>1. /\ Len(inbox) \in Nat /\ Len(inbox') = Len(inbox) + 1 /\ inbox'[Len(inbox) + 1] = m
      /\ \A i \in 1 .. Len(inbox) : inbox'[i] = inbox[i]
  BY DEF TypeOK, Send
<1>2. ASSUME NEW i \in 1 .. Len(inbox),
             inbox[i].type \in {"SettingsReply", "SettingsError"}, inbox[i].path = p
      PROVE  Waited(p)'
  <2>1. i \in 1 .. Len(inbox') /\ inbox'[i] = inbox[i]
    BY <1>1
  <2> QED
    BY <1>2, <2>1 DEF Waited
<1>3. ASSUME NEW c \in calls, c.kind = "get", c.of = p
      PROVE  Waited(p)'
  <2>1. CASE c \in calls'
    BY <1>3, <2>1 DEF Waited
  <2>2. CASE m.type \in {"SettingsReply", "SettingsError"} /\ m.path = p
    <3>1. Len(inbox) + 1 \in 1 .. Len(inbox')
      BY <1>1
    <3> QED
      BY <1>1, <2>2, <3>1 DEF Waited
  <2> QED
    BY <1>3, <2>1, <2>2
<1> QED
  BY <1>2, <1>3 DEF Waited

LEMMA ServiceKeepsFInv ==
    ASSUME TypeOK, AllPublished, FInv, Service
    PROVE  FInv'
<1> USE RemoteSettingsAssumption
<1>1. /\ \A b \in BOOLEAN : NameOwnerChanged(b) \in Message
      /\ \A p \in Path : NewConnection(p) \in Message /\ Removed(p) \in Message
      /\ \A p \in Path, v \in 1 .. MaxVersion : Updated(p, v) \in Message
  BY DEF Message, NameOwnerChanged, NewConnection, Removed, Updated
<1>2. inbox \in Seq(Message) /\ pending \subseteq Path /\ running \in Nat
  BY DEF TypeOK
<1>3. ASSUME NEW m \in Message, Send(m), UNCHANGED <<calls, clientVars>> PROVE PendingWaits'
  BY <1>3, WaitedSent DEF FInv, PendingWaits, clientVars
<1>4. CASE ServiceStarts
  <2> DEFINE m == NameOwnerChanged(TRUE)
  <2>1. /\ m \in Message /\ inbox' = Append(inbox, m) /\ Came(m) /\ Send(m)
        /\ UNCHANGED <<calls, clientVars, idle, view, kept>> /\ running = 0
    BY <1>1, <1>4 DEF ServiceStarts, Send, NameOwnerChanged, Came, clientVars
  <2> HIDE DEF m
  <2>2. NoneMissed'
    <3>1. CameIn(inbox', 1, Len(inbox'))
      BY <1>2, <2>1, QueueSent
    <3> QED
      BY <3>1 DEF NoneMissed, Coming, Listing
  <2>3. OldRemovals'
    <3>1. \A p \in Path : RemovedBefore(inbox', p)
      BY <1>2, <2>1, QueueSent
    <3> QED
      BY <1>4, <3>1 DEF ServiceStarts, OldRemovals, Exported
  <2>4. NoneLeft'
    <3>1. Exported = {} /\ \A p \in Path : ~Replies(m, p)
      BY <2>1 DEF AllPublished, Came, Replies
    <3>2. \A p, shown : Leaves(inbox, p, shown) /\ ~Replies(m, p) => Leaves(inbox', p, shown)
      BY <1>2, <2>1, QueueSent
    <3> QED
      BY <2>1, <3>1, <3>2 DEF FInv, NoneLeft
  <2> QED
    BY <1>3, <2>1, <2>2, <2>3, <2>4 DEF FInv
<1>5. CASE ServiceExits
  <2> DEFINE m == NameOwnerChanged(FALSE)
  <2>1. /\ m \in Message /\ inbox' = Append(inbox, m) /\ Gone(m) /\ Send(m)
        /\ UNCHANGED <<calls, clientVars>> /\ running' = 0 /\ \A p \in Path : store'[p] = None
    BY <1>1, <1>5 DEF ServiceExits, Send, NameOwnerChanged, Gone
  <2> HIDE DEF m
  <2>2. Exported' = {}
    BY <2>1 DEF Exported
  <2>3. NoneLeft'
    <3>1. \A p, shown : Leaves(inbox', p, shown)
      BY <1>2, <2>1, QueueSent DEF Fence
    <3> QED
      BY <3>1 DEF NoneLeft
  <2> QED
    BY <1>3, <2>1, <2>2, <2>3 DEF FInv, NoneMissed, OldRemovals
<1>6. ASSUME NEW p \in Path, Export(p) PROVE FInv'
  <2> DEFINE m == NewConnection(p)
  <2>1. /\ m \in Message /\ inbox' = Append(inbox, m) /\ Send(m)
        /\ m.type = "NewConnection" /\ m.path = p
        /\ UNCHANGED <<calls, clientVars, idle, view, kept, running>>
        /\ p \notin used /\ used' = used \union {p} /\ store' = [store EXCEPT ![p] = version']
    BY <1>1, <1>6 DEF Export, Send, NewConnection, clientVars, busVars
  <2> HIDE DEF m
  <2>2. Exported' \subseteq Exported \union {p} /\ Exported \subseteq Exported'
        /\ \A r \in Path : r # p => store'[r] = store[r]
    <3>1. /\ \A r \in Path : r # p => store'[r] = store[r]
          /\ store'[p] = version'
      BY <2>1 DEF TypeOK
    <3>2. version' # None
      BY <1>6 DEF TypeOK, Export, None
    <3> QED
      BY <3>1, <3>2 DEF Exported
  <2>3. NoneMissed'
    <3>1. ASSUME NEW r \in Exported, r # p PROVE Coming(r)'
      BY <2>1, <2>2, <3>1, ComingSent DEF FInv, NoneMissed, Exported
    <3>2. Coming(p)'
      <4>1. Asked(inbox', p)
        BY <1>2, <2>1, QueueSent DEF Asks
      <4> QED
        BY <4>1 DEF Coming
    <3> QED
      BY <2>2, <3>1, <3>2 DEF NoneMissed
  <2>4. OldRemovals'
    <3>1. \A r : RemovedBefore(inbox, r) => RemovedBefore(inbox', r)
      BY <1>2, <2>1, QueueSent
    <3> QED
      BY <2>1, <2>2, <3>1 DEF FInv, OldRemovals
  <2>5. NoneLeft'
    <3>1. \A r, shown : Leaves(inbox, r, shown) => Leaves(inbox', r, shown)
      BY <1>2, <2>1, QueueSent DEF Replies
    <3> QED
      BY <2>1, <2>2, <3>1 DEF FInv, NoneLeft
  <2> QED
    BY <1>3, <2>1, <2>3, <2>4, <2>5 DEF FInv
<1>7. ASSUME NEW p \in Path, Update(p) PROVE FInv'
  <2> DEFINE m == Updated(p, version')
  <2>1. /\ Room /\ p \in Exported /\ inbox' = Append(inbox, m) /\ Send(m)
        /\ UNCHANGED <<calls, clientVars, idle, view, kept, running, used>>
        /\ version' = version + 1 /\ store' = [store EXCEPT ![p] = version']
    BY <1>7 DEF Update, Send, clientVars, busVars
  <2>2. version' \in 1 .. MaxVersion
    BY <2>1 DEF TypeOK, Room
  <2>3. m \in Message /\ m.type = "Updated" /\ m.path = p /\ m.version = version'
    BY <1>1, <2>2 DEF Updated
  <2> HIDE DEF m
  <2>4. store'[p] = version' /\ \A r \in Path : r # p => store'[r] = store[r]
    BY <2>1 DEF TypeOK
  <2>5. Exported' = Exported
    BY <2>1, <2>2, <2>4 DEF Exported, None
  <2>6. NoneMissed'
    <3>1. ASSUME NEW r \in Exported, r # p PROVE Coming(r)'
      <4>1. store'[r] = store[r]
        BY <2>4, <3>1 DEF Exported
      <4> QED
        BY <2>1, <2>3, <3>1, <4>1, ComingSent DEF FInv, NoneMissed
    <3>2. Coming(p)'
      <4>1. Coming(p)
        BY <2>1 DEF FInv, NoneMissed
      <4>2. CASE Listing
        <5>1. CameIn(inbox, 1, Len(inbox)) => CameIn(inbox', 1, Len(inbox'))
          BY <1>2, <2>1, <2>3, QueueSent
        <5> QED
          BY <2>1, <4>2, <5>1 DEF Coming, Listing
      <4>3. CASE Asked(inbox, p)
        BY <1>2, <2>1, <2>3, <4>3, QueueSent DEF Coming
      <4>4. CASE GetOut(p)
        BY <2>1, <4>4 DEF Coming, GetOut
      <4>5. CASE view[p] = store[p] \/ Delivers(inbox, p, view[p] # None, store[p])
        <5>1. /\ Len(inbox) \in Nat /\ Len(inbox') = Len(inbox) + 1
              /\ inbox'[Len(inbox) + 1] = m /\ \A i \in 1 .. Len(inbox) : inbox'[i] = inbox[i]
          BY <1>2, <2>1
        <5>2. Carries(m, p) /\ m.version = store'[p]
          BY <2>3, <2>4 DEF Carries
        <5>3. view[p] # None \/ \E i \in 1 .. Len(inbox) + 1 : Replies(inbox'[i], p)
          <6>1. view[p] = store[p] => view[p] # None
            BY <2>1 DEF Exported
          <6>2. Delivers(inbox, p, view[p] # None, store[p]) =>
                   view[p] # None \/ \E i \in 1 .. Len(inbox) : Replies(inbox[i], p)
            BY <5>1 DEF Delivers
          <6> QED
            BY <4>5, <5>1, <6>1, <6>2
        <5>4. Delivers(inbox', p, view'[p] # None, store'[p])
          BY <2>1, <5>1, <5>2, <5>3 DEF Delivers
        <5> QED
          BY <5>4 DEF Coming
      <4> QED
        BY <4>1, <4>2, <4>3, <4>4, <4>5 DEF Coming
    <3> QED
      BY <2>5, <3>1, <3>2 DEF NoneMissed
  <2>7. OldRemovals'
    <3>1. \A r : RemovedBefore(inbox, r) => RemovedBefore(inbox', r)
      BY <1>2, <2>1, <2>3, QueueSent
    <3> QED
      BY <2>1, <2>5, <3>1 DEF FInv, OldRemovals
  <2>8. NoneLeft'
    <3>1. \A r, shown : Leaves(inbox, r, shown) => Leaves(inbox', r, shown)
      BY <1>2, <2>1, <2>3, QueueSent DEF Replies
    <3> QED
      BY <2>1, <2>5, <3>1 DEF FInv, NoneLeft
  <2> QED
    BY <1>3, <2>1, <2>3, <2>6, <2>7, <2>8 DEF FInv
<1>8. ASSUME NEW p \in Path, Delete(p) PROVE FInv'
  <2> DEFINE m == Removed(p)
  <2>1. /\ m \in Message /\ inbox' = Append(inbox, m) /\ Send(m)
        /\ m.type = "Removed" /\ m.path = p /\ p \in Exported
        /\ UNCHANGED <<calls, clientVars, idle, view, kept, running, used>>
        /\ store' = [store EXCEPT ![p] = None]
    BY <1>1, <1>8 DEF Delete, Send, Removed, clientVars, busVars
  <2> HIDE DEF m
  <2>2. Exported' = Exported \ {p} /\ \A r \in Path : r # p => store'[r] = store[r]
    <3>1. store'[p] = None /\ \A r \in Path : r # p => store'[r] = store[r]
      BY <2>1 DEF TypeOK
    <3> QED
      BY <3>1 DEF Exported
  <2>3. NoneMissed'
    <3>1. ASSUME NEW r \in Exported, r # p PROVE Coming(r)'
      <4>1. store'[r] = store[r]
        BY <2>2, <3>1 DEF Exported
      <4> QED
        BY <2>1, <3>1, <4>1, ComingSent DEF FInv, NoneMissed
    <3> QED
      BY <2>2, <3>1 DEF NoneMissed
  <2>4. OldRemovals'
    <3>1. \A r : r # p /\ RemovedBefore(inbox, r) => RemovedBefore(inbox', r)
      BY <1>2, <2>1, QueueSent
    <3> QED
      BY <2>1, <2>2, <3>1 DEF FInv, OldRemovals
  <2>5. NoneLeft'
    <3>1. \A r, shown : Leaves(inbox, r, shown) \/ r = p => Leaves(inbox', r, shown)
      BY <1>2, <2>1, QueueSent DEF Replies, Fence
    <3> QED
      BY <2>1, <2>2, <3>1 DEF FInv, NoneLeft
  <2> QED
    BY <1>3, <2>1, <2>3, <2>4, <2>5 DEF FInv
<1> QED
  BY <1>4, <1>5, <1>6, <1>7, <1>8 DEF Service

LEMMA ReplyKeepsFInv ==
    ASSUME TypeOK, AllPublished, FInv, Reply
    PROVE  FInv'
<1> USE RemoteSettingsAssumption
<1> PICK c \in calls : Answer(c)
  BY DEF Reply
<1>1. PICK m \in Message :
         /\ Send(m)
         /\ m.type \in {"ListReply", "ListError", "SettingsReply", "SettingsError"}
         /\ m.type = "SettingsReply" =>
               running # 0 /\ m.path \in Exported /\ m.version = store[m.path]
  BY AnswerMessage DEF Answer
<1>2. /\ inbox \in Seq(Message) /\ inbox' = Append(inbox, m) /\ calls' = calls \ {c}
      /\ UNCHANGED <<running, used, store, idle, pending, view, kept>> /\ Exported' = Exported
  BY <1>1 DEF TypeOK, Answer, Send, busVars, serviceVars, clientVars, Exported
<1>3. c \in CallSet /\ c.kind \in {"list", "get"}
  BY DEF TypeOK, CallSet
<1>4. \A n : Send(n) => n = m
  <2>1. inbox' = Append(inbox, m) /\ inbox'[Len(inbox) + 1] = m /\ Len(inbox) \in Nat
    BY <1>2
  <2> QED
    BY <1>2, <2>1 DEF Send
<1>5. /\ c.kind = "get" => m.type \in {"SettingsReply", "SettingsError"} /\ m.path = c.of
      /\ c.kind = "list" /\ c.to = running /\ running # 0 => m = ListReply(Exported)
  <2>1. CASE AnswerList(c)
    BY <1>4, <2>1 DEF AnswerList
  <2>2. CASE AnswerGetSettings(c)
    <3>1. /\ Send(SettingsReply(c.of, store[c.of])) \/ Send(SettingsError(c.of))
          /\ c.kind = "get"
      BY <2>2 DEF AnswerGetSettings
    <3> QED
      BY <1>4, <3>1 DEF SettingsReply, SettingsError
  <2>3. CASE FailCall(c)
    BY <1>4, <2>3 DEF FailCall, SettingsError
  <2> QED
    BY <2>1, <2>2, <2>3 DEF Answer
<1>6. NoneMissed'
  <2> SUFFICES ASSUME NEW p \in Exported PROVE Coming(p)'
    BY <1>2 DEF NoneMissed
  <2>1. running # 0 /\ Coming(p) /\ store'[p] = store[p]
    BY <1>2 DEF AllPublished, FInv, NoneMissed
  <2>2. CASE c.to = running /\ c.kind = "list"
    <3>1. m.type = "ListReply" /\ m.paths = Exported
      BY <1>5, <2>1, <2>2 DEF ListReply
    <3>2. Asked(inbox', p)
      BY <1>2, <3>1, QueueSent DEF Asks
    <3> QED
      BY <3>2 DEF Coming
  <2>3. CASE c.to = running /\ c.kind = "get" /\ c.of = p
    <3>1. m = SettingsReply(p, store[p])
      <4>1. AnswerGetSettings(c) /\ Send(SettingsReply(p, store[p]))
        BY <2>1, <2>3 DEF Answer, AnswerList, AnswerGetSettings, FailCall
      <4> QED
        BY <1>4, <4>1
    <3>2. Replies(m, p) /\ Carries(m, p) /\ m.version = store'[p]
      BY <2>1, <3>1 DEF Replies, Carries, SettingsReply
    <3>3. /\ Len(inbox) + 1 \in 1 .. Len(inbox') /\ inbox'[Len(inbox) + 1] = m
          /\ Len(inbox) + 1 \in 1 .. Len(inbox) + 1
      BY <1>2
    <3>4. Delivers(inbox', p, view'[p] # None, store'[p])
      BY <3>2, <3>3 DEF Delivers
    <3> QED
      BY <3>4 DEF Coming
  <2>4. CASE c.to # running \/ (c.kind = "get" /\ c.of # p)
    BY <1>1, <1>2, <2>1, <2>4, ComingSent
  <2> QED
    BY <1>3, <2>2, <2>3, <2>4
<1>7. PendingWaits'
  BY <1>1, <1>2, <1>5, WaitedSent DEF FInv, PendingWaits
<1>8. OldRemovals'
  <2>1. \A r : RemovedBefore(inbox, r) => RemovedBefore(inbox', r)
    BY <1>1, <1>2, QueueSent
  <2> QED
    BY <1>2, <2>1 DEF FInv, OldRemovals
<1>9. NoneLeft'
  <2>1. \A p \in Path \ Exported : ~Replies(m, p)
    BY <1>1 DEF Replies
  <2>2. \A p, shown : Leaves(inbox, p, shown) /\ ~Replies(m, p) => Leaves(inbox', p, shown)
    BY <1>2, QueueSent
  <2> QED
    BY <1>2, <2>1, <2>2 DEF FInv, NoneLeft
<1> QED
  BY <1>6, <1>7, <1>8, <1>9 DEF FInv

(* Where calls of P are canceled, no other path's call or reply is.         *)
LEMMA WaitedMuted ==
    ASSUME inbox \in Seq(Message), NEW P, NEW p, p \notin P, Waited(p),
           Canceled(P) \subseteq calls', inbox' = Muted(inbox, P)
    PROVE  Waited(p)'
<1>1. CASE \E c \in calls : c.kind = "get" /\ c.of = p
  BY <1>1 DEF Waited, Canceled
<1>2. ASSUME NEW i \in 1 .. Len(inbox),
             inbox[i].type \in {"SettingsReply", "SettingsError"}, inbox[i].path = p
      PROVE  Waited(p)'
  <2>1. i \in 1 .. Len(inbox') /\ inbox'[i] = inbox[i]
    BY <1>2 DEF Muted
  <2> QED
    BY <1>2, <2>1 DEF Waited
<1> QED
  BY <1>1, <1>2 DEF Waited

LEMMA IdleKeepsFInv ==
    ASSUME TypeOK, IInv, FInv, Idle
    PROVE  FInv'
<1>1. inbox \in Seq(Message) /\ Len(inbox) \in Nat
  BY DEF TypeOK
<1>2. CASE FetchConnections
  <2>1. /\ UNCHANGED <<running, used, store, inbox, pending, view, kept>> /\ Exported' = Exported
        /\ idle = "fetch" /\ idle' = "none"
    BY <1>2 DEF FetchConnections, busVars, serviceVars, historyVars, Exported
  <2>2. PICK n \in {1, 2} : calls' = calls \union {ListCall(running, n)}
    BY <1>2 DEF FetchConnections
  <2>3. Listing'
    <3>1. ListCall(running, n) \in calls'
      BY <2>2
    <3>2. ListCall(running, n).kind = "list" /\ ListCall(running, n).to = running'
      BY <2>1 DEF ListCall
    <3> QED
      BY <3>1, <3>2 DEF Listing
  <2>4. NoneMissed'
    BY <2>3 DEF NoneMissed, Coming
  <2>5. PendingWaits'
    BY <2>1, <2>2 DEF FInv, PendingWaits, Waited
  <2>6. OldRemovals' /\ NoneLeft'
    BY <2>1 DEF FInv, OldRemovals, NoneLeft
  <2> QED
    BY <2>4, <2>5, <2>6 DEF FInv
<1>3. CASE RemoveConnections
  <2> DEFINE P == {p \in Path : view[p] # None}
  <2>1. /\ UNCHANGED <<running, used, store, kept>> /\ Exported' = Exported
        /\ idle = "remove" /\ idle' = "none"
        /\ inbox' = Muted(inbox, P) /\ calls' = Canceled(P) /\ pending' = pending \ P
        /\ \A p \in Path : view'[p] = None
    BY <1>3 DEF RemoveConnections, Forget, busVars, serviceVars, Exported
  <2> HIDE DEF P
  <2>2. NoneMissed'
    <3> SUFFICES ASSUME NEW p \in Exported PROVE Listing'
      BY <2>1 DEF NoneMissed, Coming
    <3>1. running # 0
      BY DEF IInv, AllPublished
    <3>2. CameIn(inbox, 1, Len(inbox))
      BY <1>1, <2>1, <3>1 DEF IInv, BackFirst, Back
    <3>3. CameIn(inbox', 1, Len(inbox'))
      BY <1>1, <2>1, <3>2, QueueMuted
    <3> QED
      BY <3>3 DEF Listing
  <2>3. PendingWaits'
    BY <1>1, <2>1, WaitedMuted DEF FInv, PendingWaits
  <2>4. OldRemovals'
    <3>1. \A p : RemovedBefore(inbox, p) => RemovedBefore(inbox', p)
      BY <1>1, <2>1, QueueMuted
    <3> QED
      BY <2>1, <3>1 DEF FInv, OldRemovals
  <2>5. NoneLeft'
    <3>1. \A p, shown : Leaves(inbox, p, shown) => Leaves(inbox', p, shown)
      BY <1>1, <2>1, QueueMuted
    <3> QED
      BY <2>1, <3>1 DEF FInv, NoneLeft
  <2> QED
    BY <2>2, <2>3, <2>4, <2>5 DEF FInv
<1> QED
  BY <1>2, <1>3 DEF Idle

(* The client takes the head of the queue: what was coming by other ways     *)
(* still is.                                                                *)
LEMMA ComingReceived ==
    ASSUME TypeOK, inbox # <<>>, UNCHANGED <<running, store>>,
           NEW P, NEW p, p \notin P, Coming(p),
           inbox' = Tail(inbox) \/ inbox' = Muted(Tail(inbox), P),
           Canceled(P) \subseteq calls', idle' = idle, ~Came(Head(inbox)),
           ~Asks(Head(inbox), p),
           Carries(Head(inbox), p) /\ Head(inbox).version = store[p] => view'[p] = store[p],
           Replies(Head(inbox), p) => view'[p] # None,
           view[p] # None => view'[p] # None,
           view[p] = store[p] => view'[p] = store[p]
    PROVE  Coming(p)'
<1>1. inbox \in Seq(Message) /\ Tail(inbox) \in Seq(Message)
  BY DEF TypeOK
<1>2. CASE Listing
  <2>1. CASE CameIn(inbox, 1, Len(inbox))
    <3>1. CameIn(Tail(inbox), 1, Len(Tail(inbox)))
      BY <1>1, <2>1, QueueReceived
    <3>2. CameIn(inbox', 1, Len(inbox'))
      BY <1>1, <3>1, QueueMuted
    <3> QED
      BY <3>2 DEF Coming, Listing
  <2>2. CASE idle = "fetch" \/ \E c \in calls : c.kind = "list" /\ c.to = running
    BY <2>2 DEF Coming, Listing, Canceled
  <2> QED
    BY <1>2, <2>1, <2>2 DEF Listing
<1>3. CASE Asked(inbox, p)
  <2>1. Asked(Tail(inbox), p)
    BY <1>1, <1>3, QueueReceived
  <2>2. Asked(inbox', p)
    BY <1>1, <2>1, QueueMuted
  <2> QED
    BY <2>2 DEF Coming
<1>4. CASE GetOut(p)
  BY <1>4 DEF Coming, GetOut, Canceled
<1>5. CASE Delivers(inbox, p, view[p] # None, store[p])
  <2>1. CASE Carries(Head(inbox), p) /\ Head(inbox).version = store[p]
    BY <2>1 DEF Coming
  <2>2. CASE Delivers(Tail(inbox), p, view[p] # None \/ Replies(Head(inbox), p), store[p])
    <3>1. Delivers(Tail(inbox), p, view'[p] # None, store[p])
      BY <2>2 DEF Delivers
    <3>2. Delivers(inbox', p, view'[p] # None, store'[p])
      BY <1>1, <3>1, QueueMuted
    <3> QED
      BY <3>2 DEF Coming
  <2> QED
    BY <1>1, <1>5, <2>1, <2>2, QueueReceived
<1>6. CASE view[p] = store[p]
  BY <1>6 DEF Coming
<1> QED
  BY <1>2, <1>3, <1>4, <1>5, <1>6 DEF Coming

LEMMA WaitedReceived ==
    ASSUME inbox \in Seq(Message), inbox # <<>>, NEW P, NEW p, p \notin P, Waited(p),
           Canceled(P) \subseteq calls',
           inbox' = Tail(inbox) \/ inbox' = Muted(Tail(inbox), P),
           ~(Head(inbox).type \in {"SettingsReply", "SettingsError"} /\ Head(inbox).path = p)
    PROVE  Waited(p)'
<1>1. CASE \E c \in calls : c.kind = "get" /\ c.of = p
  BY <1>1 DEF Waited, Canceled
<1>2. ASSUME NEW i \in 1 .. Len(inbox),
             inbox[i].type \in {"SettingsReply", "SettingsError"}, inbox[i].path = p
      PROVE  Waited(p)'
  <2> DEFINE r == Tail(inbox)
  <2>1. /\ i - 1 \in 1 .. Len(r) /\ r[i - 1] = inbox[i]
    BY <1>2
  <2> HIDE DEF r
  <2>2. i - 1 \in 1 .. Len(inbox') /\ inbox'[i - 1] = inbox[i]
    <3>1. CASE inbox' = r
      BY <2>1, <3>1
    <3>2. CASE inbox' = Muted(r, P)
      <4>1. Len(Muted(r, P)) = Len(r) /\ DOMAIN r = 1 .. Len(r)
        BY DEF Muted, r
      <4> QED
        BY <1>2, <2>1, <3>2, <4>1 DEF Muted
    <3> QED
      BY <3>1, <3>2 DEF r
  <2> QED
    BY <1>2, <2>2 DEF Waited
<1> QED
  BY <1>1, <1>2 DEF Waited

(* What holds however the head is dealt with, if only what it fences goes    *)
(* from the view, and only what it replies gets there.                      *)
LEMMA HeardKeepsRest ==
    ASSUME TypeOK, FInv, inbox # <<>>, UNCHANGED <<running, used, store>>,
           NEW P, inbox' = Tail(inbox) \/ inbox' = Muted(Tail(inbox), P),
           kept => kept',
           ~kept' => \A p \in Path \ Exported :
              view'[p] # None /\ idle' # "remove" =>
                 \/ view[p] # None /\ idle # "remove" /\ ~Fence(Head(inbox), p)
                 \/ Replies(Head(inbox), p)
    PROVE  OldRemovals' /\ NoneLeft'
<1>1. inbox \in Seq(Message) /\ Tail(inbox) \in Seq(Message) /\ Exported' = Exported
  BY DEF TypeOK, Exported
<1>2. \A p : RemovedBefore(inbox, p) => RemovedBefore(inbox', p)
  <2>1. \A p : RemovedBefore(inbox, p) => RemovedBefore(Tail(inbox), p)
    BY <1>1, QueueReceived
  <2>2. \A p : RemovedBefore(Tail(inbox), p) => RemovedBefore(Muted(Tail(inbox), P), p)
    BY <1>1, QueueMuted
  <2> QED
    BY <2>1, <2>2
<1>3. OldRemovals'
  BY <1>1, <1>2 DEF FInv, OldRemovals
<1>4. ASSUME ~kept', NEW p \in Path \ Exported
      PROVE  Leaves(inbox', p, view'[p] # None /\ idle' # "remove")
  <2> DEFINE shown  == view[p] # None /\ idle # "remove"
             shown2 == view'[p] # None /\ idle' # "remove"
  <2>1. Leaves(inbox, p, shown)
    BY <1>4 DEF FInv, NoneLeft
  <2>2. shown2 => (shown /\ ~Fence(Head(inbox), p)) \/ Replies(Head(inbox), p)
    BY <1>4
  <2> HIDE DEF shown, shown2
  <2>3. Leaves(Tail(inbox), p, (shown /\ ~Fence(Head(inbox), p)) \/ Replies(Head(inbox), p))
    BY <1>1, <2>1, QueueReceived
  <2>4. Leaves(Tail(inbox), p, shown2)
    BY <2>2, <2>3 DEF Leaves
  <2>5. Leaves(inbox', p, shown2)
    BY <1>1, <2>4, QueueMuted
  <2> QED
    BY <2>5 DEF shown2
<1> QED
  BY <1>1, <1>3, <1>4 DEF NoneLeft

LEMMA HandleKeepsFInv ==
    ASSUME TypeOK, IInv, FInv, Handle
    PROVE  FInv'
<1> USE RemoteSettingsAssumption
<1> DEFINE m == Head(inbox)
<1>1. inbox \in Seq(Message) /\ \A p \in Exported : running # 0
  BY DEF TypeOK, IInv, AllPublished
<1>2. /\ UNCHANGED <<running, used, store>> /\ Exported' = Exported
      /\ inbox # <<>> /\ m \in Message /\ m = inbox[1] /\ 1 \in 1 .. Len(inbox)
      /\ Canceled({}) = calls
  <2>1. UNCHANGED serviceVars /\ UNCHANGED busVars /\ inbox # <<>>
    BY DEF Handle, HandleNameOwnerChanged, HandleNewConnection, HandleListReply,
       HandleListError, HandleSettingsReply, HandleSettingsError, HandleCanceledReply,
       HandleUpdated, HandleRemoved, Receive, Hears
  <2>2. Canceled({}) = calls
    BY DEF Canceled
  <2> QED
    BY <1>1, <2>1, <2>2 DEF serviceVars, busVars, Exported
<1>3. CASE HandleNameOwnerChanged
  <2>1. /\ m.type = "NameOwnerChanged" /\ inbox' = Tail(inbox)
        /\ UNCHANGED <<calls, pending, view>>
        /\ idle' = IF m.there THEN "fetch" ELSE "remove"
        /\ kept' = (kept \/ (idle = "remove" /\ m.there))
    BY <1>3 DEF HandleNameOwnerChanged, Receive, Hears
  <2>2. NoneMissed'
    <3> SUFFICES ASSUME NEW p \in Exported PROVE Listing'
      BY <1>2 DEF NoneMissed, Coming
    <3>1. CASE m.there
      BY <2>1, <3>1 DEF Listing
    <3>2. CASE ~m.there
      <4>1. CameIn(inbox, 2, Len(inbox))
        BY <1>1, <1>2, <2>1, <3>2 DEF IInv, BackFirst, Back, Gone
      <4>2. CameIn(inbox', 1, Len(inbox'))
        BY <1>1, <1>2, <2>1, <4>1, QueueReceived
      <4> QED
        BY <4>2 DEF Listing
    <3> QED
      BY <3>1, <3>2
  <2>3. PendingWaits'
    BY <1>1, <1>2, <2>1, WaitedReceived DEF FInv, PendingWaits
  <2>4. OldRemovals' /\ NoneLeft'
    <3>1. kept => kept'
      BY <2>1
    <3>2. ASSUME ~kept', NEW p \in Path, view'[p] # None, idle' # "remove"
          PROVE  view[p] # None /\ idle # "remove" /\ ~Fence(m, p)
      BY <2>1, <3>2 DEF Fence, Gone
    <3> QED
      BY <1>2, <2>1, <3>1, <3>2, HeardKeepsRest
  <2> QED
    BY <2>2, <2>3, <2>4 DEF FInv
<1>4. ASSUME NEW P \in SUBSET Path, NewConnections(P), UNCHANGED <<idle, view, kept>>,
             m.type \in {"NewConnection", "ListReply"},
             \A p \in Path : Asks(m, p) => p \in P
      PROVE  FInv'
  <2>1. /\ inbox' = Muted(Tail(inbox), P) /\ pending' = pending \union P
        /\ calls' = Canceled(P) \union {GetCall(running, p) : p \in P}
        /\ Canceled(P) \subseteq calls'
    BY <1>4 DEF NewConnections
  <2>2. \A p \in P : /\ GetCall(running, p) \in calls' /\ GetCall(running, p).kind = "get"
                     /\ GetCall(running, p).to = running /\ GetCall(running, p).of = p
    BY <2>1 DEF GetCall
  <2>3. NoneMissed'
    <3> SUFFICES ASSUME NEW p \in Exported PROVE Coming(p)'
      BY <1>2 DEF NoneMissed
    <3>1. CASE p \in P
      <4>1. GetOut(p)'
        BY <1>2, <2>2, <3>1 DEF GetOut
      <4> QED
        BY <4>1 DEF Coming
    <3>2. CASE p \notin P
      <4>1. p \in Path /\ Coming(p) /\ ~Asks(m, p) /\ ~Came(m) /\ ~Carries(m, p) /\ ~Replies(m, p)
        BY <1>4, <3>2 DEF Exported, FInv, NoneMissed, Came, Carries, Replies
      <4> QED
        BY <1>2, <1>4, <2>1, <3>2, <4>1, ComingReceived
    <3> QED
      BY <3>1, <3>2
  <2>4. PendingWaits'
    <3> SUFFICES ASSUME NEW p \in pending' PROVE Waited(p)'
      BY DEF PendingWaits
    <3>1. CASE p \in P
      BY <2>2, <3>1 DEF Waited
    <3>2. CASE p \notin P
      <4>1. Waited(p) /\ m.type \notin {"SettingsReply", "SettingsError"}
        BY <1>4, <2>1, <3>2 DEF FInv, PendingWaits
      <4> QED
        BY <1>1, <1>2, <2>1, <3>2, <4>1, WaitedReceived
    <3> QED
      BY <3>1, <3>2
  <2>5. OldRemovals' /\ NoneLeft'
    <3>1. \A p : ~Fence(m, p)
      BY <1>4 DEF Fence, Gone
    <3> QED
      BY <1>2, <1>4, <2>1, <3>1, HeardKeepsRest
  <2> QED
    BY <2>3, <2>4, <2>5 DEF FInv
<1>5. CASE HandleNewConnection
  <2>1. /\ m.type = "NewConnection" /\ NewConnections({m.path}) /\ UNCHANGED <<idle, view, kept>>
    BY <1>5 DEF HandleNewConnection, Hears
  <2>2. {m.path} \in SUBSET Path /\ \A p \in Path : Asks(m, p) => p \in {m.path}
    BY <1>2, <2>1, MessageParts DEF Asks
  <2> QED
    BY <1>4, <2>1, <2>2
<1>6. CASE HandleListReply
  <2>1. /\ m.type = "ListReply" /\ NewConnections(m.paths) /\ UNCHANGED <<idle, view, kept>>
    BY <1>6 DEF HandleListReply, Hears
  <2>2. m.paths \in SUBSET Path /\ \A p \in Path : Asks(m, p) => p \in m.paths
    BY <1>2, <2>1, MessageParts DEF Asks
  <2> QED
    BY <1>4, <2>1, <2>2
<1>7. CASE HandleListError \/ HandleSettingsError \/ HandleCanceledReply
  <2>1. /\ m.type \in {"ListError", "SettingsError", "CanceledReply"} /\ inbox' = Tail(inbox)
        /\ UNCHANGED <<calls, idle, view, kept>> /\ pending' \subseteq pending
        /\ m.type = "SettingsError" => pending' = pending \ {m.path}
    BY <1>7 DEF HandleListError, HandleSettingsError, HandleCanceledReply, Receive, Hears, Settled,
       historyVars, clientVars
  <2>2. \A p : ~Fence(m, p) /\ ~Came(m) /\ ~Asks(m, p) /\ ~Carries(m, p) /\ ~Replies(m, p)
    BY <2>1 DEF Fence, Gone, Came, Asks, Carries, Replies
  <2>3. NoneMissed'
    BY <1>2, <2>1, <2>2, ComingReceived DEF FInv, NoneMissed
  <2>4. PendingWaits'
    BY <1>1, <1>2, <2>1, WaitedReceived DEF FInv, PendingWaits
  <2>5. OldRemovals' /\ NoneLeft'
    BY <1>2, <2>1, <2>2, HeardKeepsRest
  <2> QED
    BY <2>3, <2>4, <2>5 DEF FInv
<1>8. CASE HandleSettingsReply \/ HandleUpdated
  <2>1. /\ m.type \in {"Updated", "SettingsReply"} /\ inbox' = Tail(inbox)
        /\ UNCHANGED <<calls, idle, kept>>
        /\ m.type = "Updated" => pending' = pending
        /\ m.type = "SettingsReply" => pending' = pending \ {m.path}
        /\ \/ view' = [view EXCEPT ![m.path] = m.version]
           \/ m.type = "Updated" /\ view[m.path] = None /\ view' = view
        /\ view[m.path] = None => m.type = "SettingsReply" \/ view' = view
    BY <1>8 DEF HandleSettingsReply, HandleUpdated, Receive, Hears, Settled, Shown, historyVars
  <2>2. m.path \in Path /\ m.version \in Nat \ {0} /\ \A p : Carries(m, p) <=> p = m.path
    BY <1>2, <2>1, MessageParts DEF Carries
  <2>3. \A p : ~Fence(m, p) /\ ~Came(m) /\ ~Asks(m, p) /\ (Replies(m, p) => p = m.path)
    BY <2>1 DEF Fence, Gone, Came, Asks, Replies
  <2>4. /\ \A p \in Path : p # m.path => view'[p] = view[p]
        /\ \/ view'[m.path] = m.version /\ (view[m.path] = None => m.type = "SettingsReply")
           \/ view' = view /\ m.type = "Updated" /\ view[m.path] = None
    <3>1. view \in [Path -> 0 .. MaxVersion]
      BY DEF TypeOK
    <3> HIDE DEF m
    <3> QED
      BY <2>1, <2>2, <3>1
  <2>5. NoneMissed'
    <3> SUFFICES ASSUME NEW p \in Exported PROVE Coming(p)'
      BY <1>2 DEF NoneMissed
    <3>1. p \in Path /\ Coming(p) /\ store[p] # None
      BY DEF FInv, NoneMissed, Exported
    <3>2. CASE view'[p] = store[p]
      BY <1>2, <3>2 DEF Coming
    <3>3. CASE view'[p] # store[p]
      <4>1. p = m.path /\ view[p] = store[p] => view'[p] = store[p]
        <5> SUFFICES ASSUME p = m.path, view[p] = store[p] PROVE m.version = store[p]
          BY <2>4, <3>1
        <5>1. top[p] = store[p] /\ top[p] \in Nat
          <6>1. view[p] \in {None, top[p]}
            BY <3>1 DEF IInv, AllPublished
          <6>2. top[p] \in 0 .. MaxVersion
            BY <3>1 DEF TypeOK
          <6> QED
            BY <3>1, <6>1, <6>2
        <5>2. Line(inbox, p, top[p], Hidden(p), store[p])
          BY <3>1 DEF IInv, InOrder
        <5>3. top[p] <= m.version /\ m.version <= store[p]
          BY <1>2, <2>2, <3>1, <5>2 DEF Line, ShownFirst, StoredLast, Follows
        <5> QED
          BY <2>2, <5>1, <5>3
      <4>2. ~(Carries(m, p) /\ m.version = store[p]) \/ view[p] = None
        BY <2>2, <2>4, <3>3
      <4>3. p # m.path => view'[p] = view[p]
        BY <2>4, <3>1
      <4>4. view[p] # None => view'[p] # None
        BY <2>2, <2>4, <4>3 DEF None
      <4>5. Replies(m, p) => view'[p] # None
        BY <2>2, <2>3, <2>4 DEF None, Replies
      <4>6. CASE ~(Carries(m, p) /\ m.version = store[p])
        BY <1>2, <2>1, <2>3, <3>1, <4>1, <4>3, <4>4, <4>5, <4>6, ComingReceived
      <4>7. CASE Carries(m, p) /\ m.version = store[p]
        <5>1. p = m.path /\ view' = view /\ m.type = "Updated" /\ view[p] = None
          BY <2>2, <2>4, <3>3, <4>7
        <5>2. ~Replies(m, p)
          BY <5>1 DEF Replies
        <5>3. CASE Delivers(inbox, p, view[p] # None, store[p])
          <6>1. PICK j \in 1 .. Len(inbox) :
                    /\ Carries(inbox[j], p) /\ inbox[j].version = store[p]
                    /\ \E i \in 1 .. j : Replies(inbox[i], p)
            BY <5>1, <5>3 DEF Delivers
          <6>2. PICK i \in 1 .. j : Replies(inbox[i], p)
            BY <6>1
          <6>3. i # 1 /\ Len(inbox) \in Nat
            BY <1>1, <1>2, <5>2, <6>2
          <6> DEFINE r == Tail(inbox)
          <6>4. /\ j - 1 \in 1 .. Len(r) /\ r[j - 1] = inbox[j]
                /\ i - 1 \in 1 .. j - 1 /\ r[i - 1] = inbox[i]
            BY <1>1, <6>3
          <6> HIDE DEF r
          <6>5. Delivers(r, p, view'[p] # None, store[p])
            BY <6>1, <6>2, <6>4 DEF Delivers
          <6>6. inbox' = r /\ store' = store
            BY <1>2, <2>1 DEF r
          <6> QED
            BY <6>5, <6>6 DEF Coming
        <5>4. CASE Listing
          <6>1. CameIn(inbox, 1, Len(inbox)) => CameIn(inbox', 1, Len(inbox'))
            BY <1>1, <1>2, <2>1, <2>3, QueueReceived
          <6> QED
            BY <1>2, <2>1, <5>4, <6>1 DEF Coming, Listing
        <5>5. CASE Asked(inbox, p)
          BY <1>1, <1>2, <2>1, <2>3, <5>5, QueueReceived DEF Coming
        <5>6. CASE GetOut(p)
          BY <1>2, <2>1, <5>6 DEF Coming, GetOut
        <5> QED
          BY <3>1, <5>1, <5>3, <5>4, <5>5, <5>6 DEF Coming
      <4> QED
        BY <4>6, <4>7
    <3> QED
      BY <3>2, <3>3
  <2>6. PendingWaits'
    <3> SUFFICES ASSUME NEW p \in pending' PROVE Waited(p)'
      BY DEF PendingWaits
    <3>1. Waited(p) /\ ~(m.type \in {"SettingsReply", "SettingsError"} /\ m.path = p)
      BY <2>1 DEF FInv, PendingWaits
    <3> QED
      BY <1>1, <1>2, <2>1, <3>1, WaitedReceived
  <2>7. OldRemovals' /\ NoneLeft'
    <3>1. ASSUME NEW p \in Path, view'[p] # None
          PROVE  view[p] # None \/ Replies(m, p)
      BY <2>2, <2>4, <3>1 DEF Replies
    <3> QED
      BY <1>2, <2>1, <2>3, <3>1, HeardKeepsRest
  <2> QED
    BY <2>5, <2>6, <2>7 DEF FInv
<1>9. CASE HandleRemoved
  <2>1. /\ m.type = "Removed" /\ inbox' = Muted(Tail(inbox), {m.path})
        /\ UNCHANGED <<idle, kept>>
        /\ calls' = Canceled({m.path}) /\ pending' = pending \ {m.path}
        /\ \A p \in Path : view'[p] = IF p = m.path THEN None ELSE view[p]
    BY <1>9 DEF HandleRemoved, Hears, Forget
  <2>2. \A p : ~Came(m) /\ ~Asks(m, p) /\ ~Carries(m, p) /\ ~Replies(m, p)
    BY <2>1 DEF Came, Asks, Carries, Replies
  <2>3. NoneMissed'
    <3> SUFFICES ASSUME NEW p \in Exported PROVE Coming(p)'
      BY <1>2 DEF NoneMissed
    <3>1. p \in Path /\ Coming(p) /\ running # 0
      BY <1>1 DEF Exported, FInv, NoneMissed
    <3>2. CASE p = m.path
      <4>1. RemovedBefore(inbox, p)
        BY <3>1 DEF FInv, OldRemovals
      <4>2. CameIn(inbox, 2, Len(inbox))
        <5>1. CameIn(inbox, 1 + 1, Len(inbox))
          BY <1>2, <2>1, <3>2, <4>1 DEF RemovedBefore
        <5> QED
          BY <5>1
      <4>3. CameIn(Tail(inbox), 1, Len(Tail(inbox))) /\ Tail(inbox) \in Seq(Message)
        BY <1>1, <1>2, <4>2, QueueReceived
      <4>4. CameIn(inbox', 1, Len(inbox'))
        BY <2>1, <4>3, QueueMuted, Zenon
      <4> QED
        BY <4>4 DEF Coming, Listing
    <3>3. CASE p # m.path
      <4>1. view'[p] = view[p] /\ p \notin {m.path}
        BY <2>1, <3>1, <3>3
      <4> QED
        BY <1>2, <2>1, <2>2, <3>1, <4>1, ComingReceived
    <3> QED
      BY <3>2, <3>3
  <2>4. PendingWaits'
    BY <1>1, <1>2, <2>1, WaitedReceived DEF FInv, PendingWaits
  <2>5. OldRemovals' /\ NoneLeft'
    <3>1. ASSUME NEW p \in Path, view'[p] # None
          PROVE  view[p] # None /\ ~Fence(m, p)
      BY <2>1, <3>1 DEF Fence, Gone
    <3> QED
      BY <1>2, <2>1, <3>1, HeardKeepsRest
  <2> QED
    BY <2>3, <2>4, <2>5 DEF FInv
<1> QED
  BY <1>3, <1>5, <1>6, <1>7, <1>8, <1>9 DEF Handle

(* When nothing is under way the client has followed: it waits for nothing,  *)
(* shows each exported connection in its present version, and no other that *)
(* it was to forget.                                                        *)
THEOREM FollowsAlways == Spec => []FollowsWhenQuiet
<1>1. TypeOK /\ IInv /\ FInv /\ [Next]_vars => FInv'
  <2> SUFFICES ASSUME TypeOK, IInv, FInv, [Next]_vars PROVE FInv'
    OBVIOUS
  <2>1. CASE UNCHANGED vars
    BY <2>1 DEF vars, FInv, NoneMissed, Coming, Listing, GetOut, PendingWaits, Waited,
       OldRemovals, NoneLeft, Exported
  <2> QED
    BY <2>1, ServiceKeepsFInv, ReplyKeepsFInv, HandleKeepsFInv, IdleKeepsFInv DEF Next, IInv
<1>2. TypeOK /\ IInv /\ FInv => FollowsWhenQuiet
  <2> SUFFICES ASSUME TypeOK, IInv, FInv, Quiet
               PROVE  /\ pending = {}
                      /\ \A p \in Exported : view[p] = store[p]
                      /\ \A p \in Path \ Exported : view[p] = None \/ kept
    BY DEF FollowsWhenQuiet
  <2>1. calls = {} /\ idle = "none" /\ 1 .. Len(inbox) = {}
    BY DEF Quiet
  <2>2. pending = {}
    BY <2>1 DEF FInv, PendingWaits, Waited
  <2>3. \A p \in Exported : view[p] = store[p]
    BY <2>1 DEF FInv, NoneMissed, Coming, Listing, CameIn, Asked, GetOut, Delivers
  <2>4. \A p \in Path \ Exported : view[p] = None \/ kept
    BY <2>1 DEF FInv, NoneLeft, Leaves, Fenced
  <2> QED
    BY <2>2, <2>3, <2>4
<1> QED
  BY <1>1, <1>2, InitFInv, InvariantHolds, TypeCorrect, PTL DEF Spec
=============================================================================
