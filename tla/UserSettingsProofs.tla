------------------------- MODULE UserSettingsProofs -------------------------
(***************************************************************************)
(* Proofs about UserSettings, for any sets of service instances, paths and *)
(* settings and any bounds: type correctness, that a service that is gone  *)
(* leaves no user connection behind, that what was announced is still held *)
(* and that the counter of a listing is exact; that what is held at rest   *)
(* is not stale, and that nothing an authorized service exports is missed. *)
(***************************************************************************)
EXTENDS UserSettings, FiniteSetTheorems, TLAPS

-----------------------------------------------------------------------------
(* Type correctness *)

LEMMA CallType ==
    ASSUME NEW t \in Token, NEW to \in Owners, NEW p \in Path, NEW b \in BOOLEAN
    PROVE  /\ Call(t, to, "get", p, b) \in CallSet
           /\ Call(t, to, "list", NoConnection, FALSE) \in CallSet
  BY DEF Call, CallSet, GetCalls, ListCalls

(* Calls made for a set of paths, or once per fresh token, are calls. *)
LEMMA BatchCallsType ==
    ASSUME NEW to \in Owners, NEW t \in Token, NEW P \in SUBSET Path
    PROVE  {Call(t, to, "get", q, TRUE) : q \in P} \subseteq CallSet
<1>1. ASSUME NEW q \in P PROVE Call(t, to, "get", q, TRUE) \in CallSet
  BY CallType
<1> QED
  BY <1>1

LEMMA SingleCallsType ==
    ASSUME NEW to \in Owners, NEW T \in SUBSET Token, NEW p \in Path
    PROVE  {Call(u, to, "get", p, FALSE) : u \in T} \subseteq CallSet
<1>1. ASSUME NEW u \in T PROVE Call(u, to, "get", p, FALSE) \in CallSet
  BY CallType
<1> QED
  BY <1>1

LEMMA NewListCallsType ==
    ASSUME NEW to \in Owners, NEW T \in SUBSET Token
    PROVE  {Call(u, to, "list", NoConnection, FALSE) : u \in T} \subseteq CallSet
<1>1. ASSUME NEW u \in T PROVE Call(u, to, "list", NoConnection, FALSE) \in CallSet
  BY <1>1 DEF Call, CallSet, ListCalls
<1> QED
  BY <1>1

LEMMA ReceivedIsMessage ==
    ASSUME inbox \in Seq(Message), NEW type, Receive(type)
    PROVE  /\ Head(inbox) \in Message
           /\ Head(inbox).type = type
           /\ inbox' \in Seq(Message)
  BY DEF Receive

LEMMA SentIsMessage ==
    ASSUME inbox \in Seq(Message), NEW m \in Message, Send(m)
    PROVE  inbox' \in Seq(Message)
  BY DEF Send

LEMMA SentIfIsMessage ==
    ASSUME inbox \in Seq(Message), NEW m \in Message, NEW cond, SendIf(cond, m)
    PROVE  inbox' \in Seq(Message)
<1>1. inbox' = Append(inbox, m) \/ inbox' = inbox
  BY Zenon DEF SendIf, Send
<1> QED
  BY <1>1

LEMMA ChainType ==
    /\ \A s \in Service : NewChain(s, Permissions) \in ChainOf(Service, Permissions)
    /\ \A ch \in ChainOf(Service, Permissions), p \in Permissions, a \in Answers :
          CallAnswered(ch, p, a) \in ChainOf(Service, Permissions)
<1>1. \A s \in Service : NewChain(s, Permissions) \in ChainOf(Service, Permissions)
  BY DEF NewChain, EmptyChain, AddCalls, ChainOf, Results
<1>2. ASSUME NEW ch \in ChainOf(Service, Permissions), NEW p \in Permissions,
             NEW a \in Answers
      PROVE  CallAnswered(ch, p, a) \in ChainOf(Service, Permissions)
  <2>1. /\ ch.owner \in Service
        /\ ch.calls \subseteq Permissions
        /\ ch.error \in BOOLEAN
        /\ ch.data \in [Permissions -> Results]
    BY DEF ChainOf
  <2>2. ch.calls \ {p} \subseteq Permissions
    BY <2>1
  <2>3. CASE a = "ERROR"
    BY <2>1, <2>2, <2>3 DEF ChainOf, CallAnswered
  <2>4. CASE a # "ERROR"
    <3>1. [ch.data EXCEPT ![p] = a] \in [Permissions -> Results]
      BY <2>1, <2>4 DEF Answers, Results
    <3> QED
      BY <2>1, <2>2, <2>4, <3>1 DEF ChainOf, CallAnswered, SetData
  <2> QED
    BY <2>3, <2>4
<1> QED
  BY <1>1, <1>2

LEMMA CleanupType ==
    ASSUME TypeOK, UserProxyCleanup
    PROVE  /\ announced' \subseteq Path
           /\ known' \in [Path -> Valid \union {NoConnection}]
           /\ rejected' \subseteq Path
           /\ proxy' \in [service: Owners, wired: Nat]
           /\ calls' \subseteq CallSet
  BY DEF TypeOK, UserProxyCleanup, NoProxy, Owners

LEMMA ProxyInitType ==
    ASSUME TypeOK, UserProxyInit
    PROVE  /\ proxy' \in [service: Owners, wired: Nat]
           /\ chains' \subseteq [id: ChainId, chain: ChainOf(Service, Permissions)]
  BY ChainType DEF TypeOK, UserProxyInit, NameHasOwner, ChainStarted, Owners

LEMMA FreeGetSettingsInfoType ==
    ASSUME TypeOK, known' \in [Path -> Valid \union {NoConnection}],
           NEW c \in CallSet, NEW single \in SUBSET Path,
           FreeGetSettingsInfo(c, single)
    PROVE  /\ calls' \subseteq CallSet
           /\ counter' \in [Token -> Int]
           /\ announced' \subseteq Path
<1>1. c.token \in Token
  BY DEF CallSet, GetCalls, ListCalls
<1> QED
  BY <1>1 DEF TypeOK, FreeGetSettingsInfo

LEMMA InitType == Init => TypeOK
<1> SUFFICES ASSUME Init PROVE TypeOK
  OBVIOUS
<1>1. inbox \in Seq(Message) /\ proxy \in [service: Owners, wired: Nat]
  BY DEF Init, NoProxy, Owners
<1>2. perms \in [Permissions -> Results] /\ counter \in [Token -> Int]
  BY DEF Init, Results
<1> QED
  BY <1>1, <1>2 DEF Init, TypeOK, Owners

LEMMA ServiceType ==
    ASSUME TypeOK, ServiceActs
    PROVE  TypeOK'
<1> USE UserSettingsAssumption
<1> PICK s \in Service :
      \/ ServiceStarts(s)
      \/ ServiceExits(s)
      \/ \E p \in Path :
            \/ DeleteConnection(s, p)
            \/ \E c \in Content : ExportConnection(s, p, c) \/ UpdateConnection(s, p, c)
  BY DEF ServiceActs
<1>1. /\ NameOwnerChanged(NoService, s) \in Message
      /\ NameOwnerChanged(s, NoService) \in Message
      /\ \A p \in Path : NewConnection(s, p) \in Message /\ Removed(s, p) \in Message
      /\ \A p \in Path, c \in Content : Updated(s, p, c) \in Message
  BY DEF Message, NameOwnerChanged, NewConnection, Removed, Updated, Owners
<1>2. CASE ServiceStarts(s)
  BY <1>1, <1>2 DEF TypeOK, ServiceStarts, Send, managerVars, Owners
<1>3. CASE ServiceExits(s)
  BY <1>1, <1>3 DEF TypeOK, ServiceExits, Send, managerVars, Owners
<1>4. ASSUME NEW p \in Path, DeleteConnection(s, p) PROVE TypeOK'
  <2>1. inbox' \in Seq(Message)
    <3>1. inbox \in Seq(Message) /\ Removed(s, p) \in Message
      BY <1>1 DEF TypeOK
    <3> QED
      BY <1>4, <3>1, SentIfIsMessage DEF DeleteConnection
  <2>2. exported' \in [Path -> Content \union {NoConnection, Deleted}]
    BY <1>4 DEF TypeOK, DeleteConnection
  <2> QED
    BY <1>4, <2>1, <2>2 DEF TypeOK, DeleteConnection, managerVars
<1>5. ASSUME NEW p \in Path, NEW c \in Content, ExportConnection(s, p, c) PROVE TypeOK'
  <2>1. inbox' \in Seq(Message)
    <3>1. inbox \in Seq(Message) /\ NewConnection(s, p) \in Message
      BY <1>1 DEF TypeOK
    <3> QED
      BY <1>5, <3>1, SentIfIsMessage DEF ExportConnection
  <2>2. exported' \in [Path -> Content \union {NoConnection, Deleted}]
    BY <1>5 DEF TypeOK, ExportConnection
  <2> QED
    BY <1>5, <2>1, <2>2 DEF TypeOK, ExportConnection, managerVars
<1>6. ASSUME NEW p \in Path, NEW c \in Content, UpdateConnection(s, p, c) PROVE TypeOK'
  <2>1. inbox' \in Seq(Message)
    <3>1. inbox \in Seq(Message) /\ Updated(s, p, c) \in Message
      BY <1>1 DEF TypeOK
    <3> QED
      BY <1>6, <3>1, SentIfIsMessage DEF UpdateConnection
  <2>2. exported' \in [Path -> Content \union {NoConnection, Deleted}]
    BY <1>6 DEF TypeOK, UpdateConnection
  <2> QED
    BY <1>6, <2>1, <2>2 DEF TypeOK, UpdateConnection, managerVars
<1> QED
  BY <1>2, <1>3, <1>4, <1>5, <1>6

LEMMA AnswerType ==
    ASSUME TypeOK, Answer
    PROVE  TypeOK'
<1> PICK c \in calls : AnswerList(c) \/ AnswerGetSettings(c) \/ FailCall(c)
  BY DEF Answer
<1>1. /\ c \in CallSet
      /\ c.kind = "get" => c \in GetCalls /\ c.path \in Path
      /\ c.kind = "list" => c \in ListCalls
  BY DEF TypeOK, CallSet, GetCalls, ListCalls
<1>2. ErrorReply(c) \in Message
  BY <1>1 DEF Message, ErrorReply
<1>3. c.kind = "list" /\ c.to \in Service => ListReply(c.to, c, Exported) \in Message
  BY <1>1 DEF Message, ListReply, Exported
<1>4. \A v \in Content : c.kind = "get" /\ c.to \in Service => SettingsReply(c.to, c, v) \in Message
  BY <1>1 DEF Message, SettingsReply
<1>5. CASE AnswerList(c)
  BY <1>3, <1>5 DEF TypeOK, AnswerList, Send, busVars, managerVars
<1>6. CASE AnswerGetSettings(c)
  BY <1>1, <1>2, <1>4, <1>6 DEF TypeOK, AnswerGetSettings, Exported, Send, busVars, managerVars
<1>7. CASE FailCall(c)
  BY <1>2, <1>7 DEF TypeOK, FailCall, Send, busVars, managerVars
<1> QED
  BY <1>5, <1>6, <1>7

LEMMA MessageParts ==
    ASSUME NEW m \in Message
    PROVE  /\ m.type = "ListReply" => m.from \in Service /\ m.call \in ListCalls /\ m.paths \in SUBSET Path
           /\ m.type = "SettingsReply" => m.from \in Service /\ m.call \in GetCalls /\ m.settings \in Content
           /\ m.type = "ErrorReply" => m.call \in CallSet
           /\ m.type \in {"NewConnection", "Removed", "Updated"} => m.from \in Service /\ m.path \in Path
           /\ m.type = "Updated" => m.settings \in Content
  BY DEF Message

LEMMA StartType ==
    ASSUME TypeOK, Start
    PROVE  TypeOK'
<1>1. UserProxyInit /\ started' = TRUE
  BY DEF Start
<1> QED
  BY <1>1, ProxyInitType DEF TypeOK, Start, busVars

LEMMA AuthDoneType ==
    ASSUME TypeOK, NEW chain \in ChainOf(Service, Permissions), UserProxyAuthDone(chain)
    PROVE  /\ perms' \in [Permissions -> Results]
           /\ granted' \subseteq Service
           /\ proxy' \in [service: Owners, wired: Nat]
           /\ calls' \subseteq CallSet
           /\ known' \in [Path -> Valid \union {NoConnection}]
           /\ announced' \subseteq Path
           /\ rejected' \subseteq Path
<1> DEFINE authorized == ~chain.error /\ UserSettingsAuthorized(chain)
<1>1. perms' \in [Permissions -> Results]
  BY DEF TypeOK, UserProxyAuthDone, ChainOf
<1>2. granted' \subseteq Service
  BY DEF TypeOK, UserProxyAuthDone, ChainOf
<1>3. CASE authorized /\ proxy # NoProxy
  <2>1. PICK T \in FreshTokens(1) : calls' = calls \union
                {Call(t, proxy.service, "list", NoConnection, FALSE) : t \in T}
    BY <1>3 DEF UserProxyAuthDone
  <2>2. T \subseteq Token
    BY DEF FreshTokens
  <2>3. calls' \subseteq CallSet
    BY <2>1, <2>2, NewListCallsType DEF TypeOK
  <2>4. proxy' = [proxy EXCEPT !.wired = @ + 1] /\ UNCHANGED <<known, announced, rejected>>
    BY <1>3 DEF UserProxyAuthDone
  <2> QED
    BY <1>1, <1>2, <2>3, <2>4 DEF TypeOK
<1>4. CASE authorized /\ proxy = NoProxy
  BY <1>1, <1>2, <1>4 DEF TypeOK, UserProxyAuthDone
<1>5. CASE ~authorized
  <2>1. UserProxyCleanup
    BY <1>5 DEF UserProxyAuthDone
  <2> QED
    BY <1>1, <1>2, <2>1, CleanupType
<1> QED
  BY <1>3, <1>4, <1>5

LEMMA PolkitType ==
    ASSUME TypeOK, Polkit
    PROVE  TypeOK'
<1> PICK ch \in chains, p \in Permissions, a \in Answers : PolkitAnswers(ch, p, a)
  BY DEF Polkit
<1> DEFINE chain == CallAnswered(ch.chain, p, a)
<1>1. /\ ch.id \in ChainId
      /\ ch.chain \in ChainOf(Service, Permissions)
      /\ ch \in [id: ChainId, chain: ChainOf(Service, Permissions)]
  BY DEF TypeOK
<1>2. chain \in ChainOf(Service, Permissions)
  BY <1>1, ChainType
<1>3. UNCHANGED <<owner, exited, exported, inbox, started, counter>>
  BY DEF PolkitAnswers, busVars
<1>4. CASE ~ChainDone(chain)
  <2>1. chains' = (chains \ {ch}) \union {[ch EXCEPT !.chain = chain]}
    BY <1>4 DEF PolkitAnswers
  <2>2. [ch EXCEPT !.chain = chain] \in [id: ChainId, chain: ChainOf(Service, Permissions)]
    BY <1>1, <1>2
  <2>3. UNCHANGED <<perms, granted, proxy, calls, known, announced, rejected>>
    BY <1>4 DEF PolkitAnswers
  <2> QED
    BY <1>3, <2>1, <2>2, <2>3 DEF TypeOK
<1>5. CASE ChainDone(chain)
  <2>1. UserProxyAuthDone(chain) /\ chains' = chains \ {ch}
    BY <1>5 DEF PolkitAnswers
  <2> QED
    BY <1>2, <1>3, <2>1, AuthDoneType DEF TypeOK
<1> QED
  BY <1>4, <1>5

LEMMA HandleType ==
    ASSUME TypeOK, Handle
    PROVE  TypeOK'
<1> USE UserSettingsAssumption
<1> DEFINE m == Head(inbox)
<1>1. CASE HandleNameOwnerChanged
  <2>1. Receive("NameOwnerChanged") /\ UNCHANGED <<owner, exited, exported, started, perms, counter, granted>>
    BY <1>1 DEF HandleNameOwnerChanged, busVars
  <2>2. \/ UserProxyInit /\ UNCHANGED <<known, calls, announced, rejected>>
        \/ UserProxyCleanup /\ UNCHANGED chains
    BY <1>1 DEF HandleNameOwnerChanged
  <2>3. inbox' \in Seq(Message)
    BY <2>1, ReceivedIsMessage DEF TypeOK
  <2>4. CASE UserProxyInit /\ UNCHANGED <<known, calls, announced, rejected>>
    BY <2>1, <2>3, <2>4, ProxyInitType DEF TypeOK
  <2>5. CASE UserProxyCleanup /\ UNCHANGED chains
    BY <2>1, <2>3, <2>5, CleanupType DEF TypeOK
  <2> QED
    BY <2>2, <2>4, <2>5
<1>2. CASE HandleListReply
  <2>1. /\ Receive("ListReply")
        /\ UNCHANGED <<owner, exited, exported, started, proxy, chains, perms, known, announced, granted, rejected>>
    BY <1>2 DEF HandleListReply, busVars
  <2>2. inbox' \in Seq(Message) /\ m.paths \in SUBSET Path
    BY <2>1, ReceivedIsMessage, MessageParts DEF TypeOK
  <2>3. CASE m.call \in calls
    <3>1. PICK T \in FreshTokens(1) : \E t \in T :
                    /\ calls' = (calls \ {m.call}) \union
                                {Call(t, owner, "get", p, TRUE) : p \in m.paths}
                    /\ counter' = [counter EXCEPT ![t] = Cardinality(m.paths)]
      BY <1>2, <2>3 DEF HandleListReply
    <3>2. PICK t \in T :
                    /\ calls' = (calls \ {m.call}) \union
                                {Call(t, owner, "get", p, TRUE) : p \in m.paths}
                    /\ counter' = [counter EXCEPT ![t] = Cardinality(m.paths)]
      BY <3>1
    <3>3. t \in Token
      BY DEF FreshTokens
    <3>4. calls' \subseteq CallSet
      <4>1. {Call(t, owner, "get", p, TRUE) : p \in m.paths} \subseteq CallSet
        BY <2>2, <3>3, BatchCallsType DEF TypeOK
      <4> QED
        BY <3>2, <4>1 DEF TypeOK
    <3>5. Cardinality(m.paths) \in Int
      BY <2>2, FS_Subset, FS_CardinalityType
    <3>6. counter' \in [Token -> Int]
      BY <3>2, <3>3, <3>5 DEF TypeOK
    <3> QED
      BY <2>1, <2>2, <3>4, <3>6 DEF TypeOK
  <2>4. CASE m.call \notin calls
    <3>1. UNCHANGED <<calls, counter>>
      BY <1>2, <2>4 DEF HandleListReply
    <3> QED
      BY <2>1, <2>2, <3>1 DEF TypeOK
  <2> QED
    BY <2>3, <2>4
<1>3. CASE HandleNewConnection
  <2>1. /\ Receive("NewConnection")
        /\ UNCHANGED <<owner, exited, exported, started, proxy, chains, perms, known, counter, announced, granted, rejected>>
    BY <1>3 DEF HandleNewConnection, busVars
  <2>2. inbox' \in Seq(Message) /\ m.path \in Path
    BY <2>1, ReceivedIsMessage, MessageParts DEF TypeOK
  <2>3. PICK n : \E T \in FreshTokens(n) :
              calls' = calls \union {Call(t, owner, "get", m.path, FALSE) : t \in T}
    BY <1>3 DEF HandleNewConnection
  <2>4. PICK T \in FreshTokens(n) :
              calls' = calls \union {Call(t, owner, "get", m.path, FALSE) : t \in T}
    BY <2>3
  <2>5. T \subseteq Token
    BY DEF FreshTokens
  <2>6. calls' \subseteq CallSet
    <3>1. {Call(t, owner, "get", m.path, FALSE) : t \in T} \subseteq CallSet
      <4>1. owner \in Owners /\ T \in SUBSET Token /\ m.path \in Path
        BY <2>2, <2>5 DEF TypeOK
      <4> HIDE DEF m
      <4> QED
        BY <4>1, SingleCallsType
    <3> QED
      BY <2>4, <3>1 DEF TypeOK
  <2> QED
    BY <2>1, <2>2, <2>6 DEF TypeOK
<1>4. CASE HandleSettingsReply
  <2> DEFINE added == m.settings \in Valid /\ known[m.call.path] # m.settings
  <2>1. /\ Receive("SettingsReply")
        /\ UNCHANGED <<owner, exited, exported, started, proxy, chains, perms, granted>>
    BY <1>4 DEF HandleSettingsReply, busVars
  <2>2. inbox' \in Seq(Message) /\ m.call \in GetCalls
    BY <2>1, ReceivedIsMessage, MessageParts DEF TypeOK
  <2>3. m.call \in CallSet /\ m.call.path \in Path
    BY <2>2 DEF CallSet, GetCalls
  <2>4. known' \in [Path -> Valid \union {NoConnection}]
    BY <1>4 DEF HandleSettingsReply, TypeOK
  <2>5. FreeGetSettingsInfo(m.call, IF added THEN {m.call.path} ELSE {})
    BY <1>4 DEF HandleSettingsReply
  <2>6. /\ calls' \subseteq CallSet
        /\ counter' \in [Token -> Int]
        /\ announced' \subseteq Path
    BY <2>3, <2>4, <2>5, FreeGetSettingsInfoType
  <2>7. rejected' \subseteq Path
    BY <1>4, <2>3 DEF HandleSettingsReply, TypeOK
  <2> QED
    BY <2>1, <2>2, <2>4, <2>6, <2>7 DEF TypeOK
<1>5. CASE HandleErrorReply
  <2>1. /\ Receive("ErrorReply")
        /\ UNCHANGED <<owner, exited, exported, started, proxy, chains, perms, granted, rejected>>
    BY <1>5 DEF HandleErrorReply, busVars
  <2>2. inbox' \in Seq(Message) /\ m.call \in CallSet
    BY <2>1, ReceivedIsMessage, MessageParts DEF TypeOK
  <2>3. CASE UNCHANGED known /\ FreeGetSettingsInfo(m.call, {})
    BY <2>1, <2>2, <2>3, FreeGetSettingsInfoType DEF TypeOK
  <2>4. CASE calls' = calls \ {m.call} /\ UNCHANGED <<known, counter, announced>>
    BY <2>1, <2>2, <2>4 DEF TypeOK
  <2> QED
    BY <1>5, <2>3, <2>4 DEF HandleErrorReply
<1>6. CASE HandleRemoved
  <2>1. /\ Receive("Removed")
        /\ UNCHANGED <<owner, exited, exported, started, proxy, chains, perms, calls, counter, granted, rejected>>
    BY <1>6 DEF HandleRemoved, busVars
  <2>2. inbox' \in Seq(Message) /\ m.path \in Path
    BY <2>1, ReceivedIsMessage, MessageParts DEF TypeOK
  <2> QED
    BY <1>6, <2>1, <2>2 DEF TypeOK, HandleRemoved, RemoveConnection
<1>7. CASE HandleUpdated
  <2>1. /\ Receive("Updated")
        /\ UNCHANGED <<owner, exited, exported, started, proxy, chains, perms, calls, counter, granted>>
    BY <1>7 DEF HandleUpdated, busVars
  <2>2. inbox' \in Seq(Message) /\ m.path \in Path
    BY <2>1, ReceivedIsMessage, MessageParts DEF TypeOK
  <2> QED
    BY <1>7, <2>1, <2>2 DEF TypeOK, HandleUpdated, RemoveConnection
<1> QED
  BY <1>1, <1>2, <1>3, <1>4, <1>5, <1>6, <1>7 DEF Handle

(* Every reachable state is well typed. *)
THEOREM TypeCorrect == Spec => []TypeOK
<1>1. TypeOK /\ [Next]_vars => TypeOK'
  <2> SUFFICES ASSUME TypeOK, [Next]_vars PROVE TypeOK'
    OBVIOUS
  <2>1. CASE UNCHANGED vars
    BY <2>1 DEF TypeOK, vars
  <2> QED
    BY <2>1, StartType, HandleType, PolkitType, AnswerType, ServiceType DEF Next
<1> QED
  BY <1>1, InitType, PTL DEF Spec

-----------------------------------------------------------------------------
(* A gone service leaves nothing behind.                                   *)
(*                                                                         *)
(* A GetSettings reply with settings in the queue either comes from the    *)
(* present owner or is followed by the bus's word that its sender is gone; *)
(* that word makes the manager drop everything.  So whatever is known is   *)
(* known under an owner, or its end is already on the way.                 *)

Goodbye(m) == m.type = "NameOwnerChanged" /\ ~(m.old = NoService /\ m.new # NoService)

RepliesBeforeGoodbye ==
    \A i \in 1 .. Len(inbox) :
        inbox[i].type = "SettingsReply" =>
            \/ inbox[i].from = owner
            \/ \E j \in (i + 1) .. Len(inbox) : Goodbye(inbox[j])

KnownUnderOwner ==
    Known # {} => \/ owner # NoService
                  \/ \E j \in 1 .. Len(inbox) : Goodbye(inbox[j])

ExitInv == RepliesBeforeGoodbye /\ KnownUnderOwner

(* A message sent while the owner stays keeps the invariant, unless it is a *)
(* reply of somebody else.                                                  *)
LEMMA SendKeepsExitInv ==
    ASSUME TypeOK, ExitInv, NEW m \in Message, Send(m), owner' = owner, known' = known,
           m.type = "SettingsReply" => m.from = owner
    PROVE  ExitInv'
<1>1. /\ inbox' \in Seq(Message)
      /\ Len(inbox') = Len(inbox) + 1
      /\ inbox'[Len(inbox) + 1] = m
      /\ \A i \in 1 .. Len(inbox) : inbox'[i] = inbox[i]
  BY DEF TypeOK, Send
<1>2. Len(inbox) \in Nat
  BY DEF TypeOK
<1>3. RepliesBeforeGoodbye'
  BY <1>1, <1>2 DEF ExitInv, RepliesBeforeGoodbye, Goodbye
<1>4. KnownUnderOwner'
  BY <1>1, <1>2 DEF ExitInv, KnownUnderOwner, Known, Goodbye
<1> QED
  BY <1>3, <1>4 DEF ExitInv

LEMMA ServiceExitsExitInv ==
    ASSUME TypeOK, ExitInv, NEW s \in Service, ServiceExits(s)
    PROVE  ExitInv'
<1> DEFINE bye == NameOwnerChanged(s, NoService)
<1>1. bye \in Message /\ Goodbye(bye)
  BY UserSettingsAssumption DEF Message, NameOwnerChanged, Owners, Goodbye
<1>2. inbox' = Append(inbox, bye) /\ known' = known
  BY DEF ServiceExits, Send, managerVars
<1> HIDE DEF bye
<1>3. /\ Len(inbox) \in Nat
      /\ Len(inbox') = Len(inbox) + 1
      /\ inbox'[Len(inbox) + 1] = bye
      /\ \A i \in 1 .. Len(inbox) : inbox'[i] = inbox[i]
  BY <1>1, <1>2 DEF TypeOK
<1>4. Goodbye(inbox'[Len(inbox')]) /\ Len(inbox') > 0
  BY <1>1, <1>3
<1>5. ASSUME NEW i \in 1 .. Len(inbox'), inbox'[i].type = "SettingsReply"
      PROVE  \E j \in (i + 1) .. Len(inbox') : Goodbye(inbox'[j])
  <2>1. i # Len(inbox')
    BY <1>4, <1>5 DEF Goodbye
  <2> QED
    BY <1>3, <1>4, <1>5, <2>1
<1>6. RepliesBeforeGoodbye' /\ KnownUnderOwner'
  BY <1>3, <1>4, <1>5 DEF RepliesBeforeGoodbye, KnownUnderOwner, Goodbye
<1> QED
  BY <1>6 DEF ExitInv

(* Taking the head message keeps the order of the rest. *)
LEMMA ReceiveKeepsOrder ==
    ASSUME TypeOK, ExitInv, NEW type, Receive(type), owner' = owner
    PROVE  /\ RepliesBeforeGoodbye'
           /\ ~Goodbye(Head(inbox)) =>
                 ((\E j \in 1 .. Len(inbox) : Goodbye(inbox[j])) =>
                     \E j \in 1 .. Len(inbox') : Goodbye(inbox'[j]))
           /\ type = "SettingsReply" =>
                 owner # NoService \/ \E j \in 1 .. Len(inbox') : Goodbye(inbox'[j])
<1>1. /\ inbox # <<>>
      /\ inbox' = Tail(inbox)
      /\ Head(inbox).type = type
      /\ Head(inbox) \in Message
  BY ReceivedIsMessage DEF Receive, TypeOK
<1>2. /\ Len(inbox) \in Nat \ {0}
      /\ Len(inbox') = Len(inbox) - 1
      /\ Head(inbox) = inbox[1]
      /\ \A i \in 1 .. Len(inbox') : inbox'[i] = inbox[i + 1]
  BY <1>1 DEF TypeOK
<1>3. RepliesBeforeGoodbye'
  <2> SUFFICES ASSUME NEW i \in 1 .. Len(inbox'), inbox'[i].type = "SettingsReply",
                      inbox'[i].from # owner
               PROVE  \E j \in (i + 1) .. Len(inbox') : Goodbye(inbox'[j])
    BY DEF RepliesBeforeGoodbye, Goodbye
  <2>1. PICK j \in (i + 1 + 1) .. Len(inbox) : Goodbye(inbox[j])
    BY <1>2 DEF ExitInv, RepliesBeforeGoodbye
  <2>2. inbox'[j - 1] = inbox[j] /\ j - 1 \in (i + 1) .. Len(inbox')
    BY <1>2, <2>1
  <2> QED
    BY <2>1, <2>2
<1>4. ASSUME ~Goodbye(Head(inbox)), NEW j \in 1 .. Len(inbox), Goodbye(inbox[j])
      PROVE  \E k \in 1 .. Len(inbox') : Goodbye(inbox'[k])
  <2>1. j # 1
    BY <1>2, <1>4
  <2>2. inbox'[j - 1] = inbox[j] /\ j - 1 \in 1 .. Len(inbox')
    BY <1>2, <2>1
  <2> QED
    BY <1>4, <2>2
<1>5. ASSUME type = "SettingsReply", owner = NoService
      PROVE  \E k \in 1 .. Len(inbox') : Goodbye(inbox'[k])
  <2>1. inbox[1].type = "SettingsReply" /\ inbox[1].from # owner
    BY <1>1, <1>2, <1>5, MessageParts, UserSettingsAssumption
  <2>2. PICK j \in 2 .. Len(inbox) : Goodbye(inbox[j])
    BY <1>2, <2>1 DEF ExitInv, RepliesBeforeGoodbye
  <2>3. inbox'[j - 1] = inbox[j] /\ j - 1 \in 1 .. Len(inbox')
    BY <1>2, <2>2
  <2> QED
    BY <2>2, <2>3
<1> QED
  BY <1>3, <1>4, <1>5

(* A handler other than NameOwnerChanged's that keeps owner and either drops *)
(* connections or handles a GetSettings reply keeps the invariant.           *)
LEMMA HandlerKeepsExitInv ==
    ASSUME TypeOK, ExitInv, NEW type, Receive(type), owner' = owner,
           type # "NameOwnerChanged",
           Known' # {} => Known # {} \/ type = "SettingsReply"
    PROVE  ExitInv'
<1>1. ~Goodbye(Head(inbox))
  BY DEF Receive, Goodbye
<1> QED
  BY <1>1, ReceiveKeepsOrder DEF ExitInv, KnownUnderOwner, Goodbye

LEMMA StutterKeepsExitInv ==
    ASSUME ExitInv, UNCHANGED <<owner, inbox>>, Known' # {} => Known # {}
    PROVE  ExitInv'
  BY DEF ExitInv, RepliesBeforeGoodbye, KnownUnderOwner, Goodbye

LEMMA HandleKeepsExitInv ==
    ASSUME TypeOK, ExitInv, Handle
    PROVE  ExitInv'
<1>1. CASE HandleNameOwnerChanged
  <2>1. Receive("NameOwnerChanged") /\ owner' = owner
    BY <1>1 DEF HandleNameOwnerChanged, busVars
  <2>2. CASE Goodbye(Head(inbox))
    <3>1. Known' = {}
      BY <1>1, <2>2 DEF HandleNameOwnerChanged, Goodbye, UserProxyCleanup, Known
    <3> QED
      BY <2>1, <3>1, ReceiveKeepsOrder DEF ExitInv, KnownUnderOwner
  <2>3. CASE ~Goodbye(Head(inbox))
    <3>1. known' = known
      BY <1>1, <2>1, <2>3 DEF HandleNameOwnerChanged, Goodbye, Receive
    <3> QED
      BY <2>1, <2>3, <3>1, ReceiveKeepsOrder DEF ExitInv, KnownUnderOwner, Known, Goodbye
  <2> QED
    BY <2>2, <2>3
<1>2. CASE HandleListReply
  <2>1. Receive("ListReply") /\ UNCHANGED <<owner, known>>
    BY <1>2 DEF HandleListReply, busVars
  <2> QED
    BY <2>1, HandlerKeepsExitInv DEF Known
<1>3. CASE HandleNewConnection
  <2>1. Receive("NewConnection") /\ UNCHANGED <<owner, known>>
    BY <1>3 DEF HandleNewConnection, busVars
  <2> QED
    BY <2>1, HandlerKeepsExitInv DEF Known
<1>4. CASE HandleSettingsReply
  <2>1. Receive("SettingsReply") /\ UNCHANGED owner
    BY <1>4 DEF HandleSettingsReply, busVars
  <2> QED
    BY <2>1, HandlerKeepsExitInv
<1>5. CASE HandleErrorReply
  <2>1. Receive("ErrorReply") /\ UNCHANGED <<owner, known>>
    BY <1>5 DEF HandleErrorReply, busVars
  <2> QED
    BY <2>1, HandlerKeepsExitInv DEF Known
<1>6. CASE HandleRemoved
  <2>1. Receive("Removed") /\ UNCHANGED owner
    BY <1>6 DEF HandleRemoved, busVars
  <2>2. Known' # {} => Known # {}
    BY <1>6 DEF HandleRemoved, RemoveConnection, Known, TypeOK
  <2> QED
    BY <2>1, <2>2, HandlerKeepsExitInv
<1>7. CASE HandleUpdated
  <2>1. Receive("Updated") /\ UNCHANGED owner
    BY <1>7 DEF HandleUpdated, busVars
  <2>2. Known' # {} => Known # {}
    BY <1>7 DEF HandleUpdated, RemoveConnection, Known, TypeOK
  <2> QED
    BY <2>1, <2>2, HandlerKeepsExitInv
<1> QED
  BY <1>1, <1>2, <1>3, <1>4, <1>5, <1>6, <1>7 DEF Handle

LEMMA ServiceKeepsExitInv ==
    ASSUME TypeOK, ExitInv, ServiceActs
    PROVE  ExitInv'
<1> PICK s \in Service :
      \/ ServiceStarts(s)
      \/ ServiceExits(s)
      \/ \E p \in Path :
            \/ DeleteConnection(s, p)
            \/ \E c \in Content : ExportConnection(s, p, c) \/ UpdateConnection(s, p, c)
  BY DEF ServiceActs
<1>1. CASE ServiceExits(s)
  BY <1>1, ServiceExitsExitInv
<1>2. CASE ServiceStarts(s)
  <2>1. owner = NoService /\ owner' = s /\ s # NoService /\ known' = known
    BY <1>2, UserSettingsAssumption DEF ServiceStarts, managerVars
  <2>2. inbox' = Append(inbox, NameOwnerChanged(NoService, s))
    BY <1>2 DEF ServiceStarts, Send
  <2>3. NameOwnerChanged(NoService, s) \in Message
    BY DEF Message, NameOwnerChanged, Owners
  <2>4. /\ Len(inbox) \in Nat
        /\ Len(inbox') = Len(inbox) + 1
        /\ inbox'[Len(inbox) + 1] = NameOwnerChanged(NoService, s)
        /\ \A i \in 1 .. Len(inbox) : inbox'[i] = inbox[i] /\ inbox[i] \in Message
    BY <2>2, <2>3 DEF TypeOK
  <2>5. inbox'[Len(inbox) + 1].type # "SettingsReply"
    BY <2>4 DEF NameOwnerChanged
  <2>6. RepliesBeforeGoodbye'
    <3> SUFFICES ASSUME NEW i \in 1 .. Len(inbox'), inbox'[i].type = "SettingsReply"
                 PROVE  \E j \in (i + 1) .. Len(inbox') : Goodbye(inbox'[j])
      BY DEF RepliesBeforeGoodbye, Goodbye
    <3>1. i \in 1 .. Len(inbox) /\ inbox[i].type = "SettingsReply"
      BY <2>4, <2>5
    <3>2. inbox[i].from # owner
      BY <2>1, <2>4, <3>1, MessageParts, UserSettingsAssumption
    <3>3. PICK j \in (i + 1) .. Len(inbox) : Goodbye(inbox[j])
      BY <3>1, <3>2 DEF ExitInv, RepliesBeforeGoodbye
    <3> QED
      BY <2>4, <3>1, <3>3
  <2>7. KnownUnderOwner'
    BY <2>1 DEF KnownUnderOwner
  <2> QED
    BY <2>6, <2>7 DEF ExitInv
<1>3. ASSUME NEW p \in Path, NEW c \in Content,
             DeleteConnection(s, p) \/ ExportConnection(s, p, c) \/ UpdateConnection(s, p, c)
      PROVE  ExitInv'
  <2>1. UNCHANGED <<owner, known>>
    BY <1>3 DEF DeleteConnection, ExportConnection, UpdateConnection, managerVars
  <2>2. PICK m \in Message : (Send(m) \/ UNCHANGED inbox) /\ m.type # "SettingsReply"
    <3>1. /\ NewConnection(s, p) \in Message /\ Removed(s, p) \in Message
          /\ Updated(s, p, c) \in Message
          /\ NewConnection(s, p).type # "SettingsReply"
          /\ Removed(s, p).type # "SettingsReply"
          /\ Updated(s, p, c).type # "SettingsReply"
      BY DEF Message, NewConnection, Removed, Updated
    <3>2. CASE DeleteConnection(s, p)
      BY <3>1, <3>2, Zenon DEF DeleteConnection, SendIf
    <3>3. CASE ExportConnection(s, p, c)
      BY <3>1, <3>3, Zenon DEF ExportConnection, SendIf
    <3>4. CASE UpdateConnection(s, p, c)
      BY <3>1, <3>4, Zenon DEF UpdateConnection, SendIf
    <3> QED
      BY <1>3, <3>2, <3>3, <3>4
  <2>3. CASE Send(m)
    BY <2>1, <2>2, <2>3, SendKeepsExitInv
  <2>4. CASE UNCHANGED inbox
    BY <2>1, <2>4, StutterKeepsExitInv DEF Known
  <2> QED
    BY <2>2, <2>3, <2>4
<1>4. ASSUME NEW p \in Path, DeleteConnection(s, p), Content = {} PROVE ExitInv'
  BY <1>4 DEF DeleteConnection
<1> QED
  BY <1>1, <1>2, <1>3, <1>4

LEMMA AnswerKeepsExitInv ==
    ASSUME TypeOK, ExitInv, Answer
    PROVE  ExitInv'
<1> PICK c \in calls : AnswerList(c) \/ AnswerGetSettings(c) \/ FailCall(c)
  BY DEF Answer
<1>1. UNCHANGED <<owner, known>>
  BY DEF AnswerList, AnswerGetSettings, FailCall, busVars, managerVars
<1>2. PICK m : Send(m) /\ (m.type = "SettingsReply" => m.from = owner)
  BY DEF AnswerList, AnswerGetSettings, FailCall, ListReply, SettingsReply, ErrorReply
<1>3. TypeOK'
  BY AnswerType
<1>4. m \in Message
  <2>1. inbox' = Append(inbox, m) /\ inbox' \in Seq(Message) /\ inbox \in Seq(Message)
    BY <1>2, <1>3 DEF TypeOK, Send
  <2>2. inbox'[Len(inbox')] = m /\ Len(inbox') \in 1 .. Len(inbox')
    BY <2>1
  <2> QED
    BY <2>1, <2>2
<1> QED
  BY <1>1, <1>2, <1>4, SendKeepsExitInv

LEMMA PolkitKeepsExitInv ==
    ASSUME TypeOK, ExitInv, Polkit
    PROVE  ExitInv'
<1> PICK ch \in chains, p \in Permissions, a \in Answers : PolkitAnswers(ch, p, a)
  BY DEF Polkit
<1>1. UNCHANGED <<owner, inbox>>
  BY DEF PolkitAnswers, busVars
<1>2. known' = known \/ known' = [q \in Path |-> NoConnection]
  BY DEF PolkitAnswers, UserProxyAuthDone, UserProxyCleanup
<1>3. Known' # {} => Known # {}
  BY <1>2 DEF Known
<1> QED
  BY <1>1, <1>3, StutterKeepsExitInv

LEMMA ExitInvHolds == Spec => []ExitInv
<1>1. Init => ExitInv
  BY DEF Init, ExitInv, RepliesBeforeGoodbye, KnownUnderOwner, Known
<1>2. TypeOK /\ ExitInv /\ [Next]_vars => ExitInv'
  <2> SUFFICES ASSUME TypeOK, ExitInv, [Next]_vars PROVE ExitInv'
    OBVIOUS
  <2>1. CASE UNCHANGED vars
    BY <2>1, StutterKeepsExitInv DEF vars, Known
  <2>2. CASE Start
    BY <2>2, StutterKeepsExitInv DEF Start, busVars, Known
  <2> QED
    BY <2>1, <2>2, HandleKeepsExitInv, PolkitKeepsExitInv, AnswerKeepsExitInv,
       ServiceKeepsExitInv DEF Next
<1> QED
  BY <1>1, <1>2, TypeCorrect, PTL DEF Spec

(* With nobody owning the user settings name and no message queued, the      *)
(* manager holds no user connection: none outlives the service it is from.   *)
THEOREM NothingOutlivesService == Spec => []NothingFromExited
<1>1. TypeOK /\ ExitInv => NothingFromExited
  BY DEF TypeOK, ExitInv, KnownUnderOwner, NothingFromExited
<1> QED
  BY <1>1, ExitInvHolds, TypeCorrect, PTL

-----------------------------------------------------------------------------
(* What the emitted signals left announced is still held.                  *)

LEMMA FreeKeepsAnnounced ==
    ASSUME NEW c, NEW single, FreeGetSettingsInfo(c, single), announced \subseteq Known',
           single \subseteq Known'
    PROVE  AnnouncedIsKnown'
<1>1. {p \in Path : known'[p] # NoConnection} = Known'
  BY DEF Known
<1> QED
  BY <1>1 DEF FreeGetSettingsInfo, AnnouncedIsKnown

LEMMA HandleKeepsAnnounced ==
    ASSUME TypeOK, AnnouncedIsKnown, Handle
    PROVE  AnnouncedIsKnown'
<1> USE DEF AnnouncedIsKnown
<1>1. CASE HandleNameOwnerChanged
  BY <1>1 DEF HandleNameOwnerChanged, UserProxyCleanup, Known
<1>2. CASE HandleListReply \/ HandleNewConnection
  BY <1>2 DEF HandleListReply, HandleNewConnection, Known
<1>3. CASE HandleSettingsReply
  <2> DEFINE m == Head(inbox)
             added == m.settings \in Valid /\ known[m.call.path] # m.settings
             single == IF added THEN {m.call.path} ELSE {}
  <2>1. m.call \in GetCalls /\ m.call.path \in Path
    <3>1. m \in Message /\ m.type = "SettingsReply"
      BY <1>3, ReceivedIsMessage DEF HandleSettingsReply, TypeOK
    <3> HIDE DEF m
    <3> QED
      BY <3>1, MessageParts DEF GetCalls
  <2>2. /\ FreeGetSettingsInfo(m.call, single)
        /\ known' = IF added THEN [known EXCEPT ![m.call.path] = m.settings] ELSE known
    BY <1>3 DEF HandleSettingsReply
  <2>3. NoConnection \notin Valid
    BY UserSettingsAssumption
  <2>4. announced \subseteq Known' /\ single \subseteq Known'
    BY <2>1, <2>2, <2>3 DEF Known, TypeOK
  <2> HIDE DEF single, m
  <2> QED
    BY <2>2, <2>4, FreeKeepsAnnounced
<1>4. CASE HandleErrorReply
  <2> DEFINE c == Head(inbox).call
  <2>1. known' = known
    BY <1>4 DEF HandleErrorReply
  <2>2. announced' = announced \/ FreeGetSettingsInfo(c, {})
    BY <1>4 DEF HandleErrorReply
  <2> HIDE DEF c
  <2> QED
    BY <2>1, <2>2, FreeKeepsAnnounced DEF Known
<1>5. CASE HandleRemoved
  BY <1>5 DEF HandleRemoved, RemoveConnection, Known, TypeOK
<1>6. CASE HandleUpdated
  BY <1>6, UserSettingsAssumption DEF HandleUpdated, RemoveConnection, Known, TypeOK
<1> QED
  BY <1>1, <1>2, <1>3, <1>4, <1>5, <1>6 DEF Handle

LEMMA PolkitKeepsAnnounced ==
    ASSUME AnnouncedIsKnown, Polkit
    PROVE  AnnouncedIsKnown'
<1> PICK ch \in chains, p \in Permissions, a \in Answers : PolkitAnswers(ch, p, a)
  BY DEF Polkit
<1>1. UNCHANGED <<known, announced>> \/ UserProxyCleanup
  BY DEF PolkitAnswers, UserProxyAuthDone
<1> QED
  BY <1>1 DEF UserProxyCleanup, AnnouncedIsKnown, Known

(* connection-removed is emitted for every announced connection that goes,  *)
(* however it goes: what is announced is held (user_proxy_cleanup).         *)
THEOREM AnnouncedStaysKnown == Spec => []AnnouncedIsKnown
<1>1. Init => AnnouncedIsKnown
  BY DEF Init, AnnouncedIsKnown
<1>2. TypeOK /\ AnnouncedIsKnown /\ [Next]_vars => AnnouncedIsKnown'
  <2> SUFFICES ASSUME TypeOK, AnnouncedIsKnown, [Next]_vars PROVE AnnouncedIsKnown'
    OBVIOUS
  <2>1. CASE UNCHANGED vars
    BY <2>1 DEF vars, AnnouncedIsKnown, Known
  <2>2. CASE Start
    BY <2>2 DEF Start, AnnouncedIsKnown, Known
  <2>3. CASE Answer \/ ServiceActs
    <3>1. UNCHANGED <<known, announced>>
      BY <2>3 DEF Answer, AnswerList, AnswerGetSettings, FailCall, ServiceActs, ServiceStarts,
         ServiceExits, DeleteConnection, ExportConnection, UpdateConnection, managerVars
    <3> QED
      BY <3>1 DEF AnnouncedIsKnown, Known
  <2> QED
    BY <2>1, <2>2, <2>3, HandleKeepsAnnounced, PolkitKeepsAnnounced DEF Next
<1> QED
  BY <1>1, <1>2, TypeCorrect, PTL DEF Spec

-----------------------------------------------------------------------------
(* The shared counter of a listing is exact.                               *)
(*                                                                         *)
(* A queued reply takes the call it answers out of the count, once: so the *)
(* invariant says that the call of every queued GetSettings reply is still *)
(* out, and that no two replies in the queue answer the same call.         *)

IsReplyTo(m, c) == m.type \in Replies /\ m.call = c

RepliesOutstanding ==
    \A i \in 1 .. Len(inbox) :
        inbox[i].type \in Replies /\ inbox[i].call.kind = "get" => inbox[i].call \in calls

AnsweredOnce ==
    \A i, j \in 1 .. Len(inbox) :
        inbox[i].type \in Replies /\ IsReplyTo(inbox[j], inbox[i].call) => i = j

CountsExact ==
    \A t \in Token : IsFiniteSet(BatchCalls(t)) /\ counter[t] = Cardinality(BatchCalls(t))

CounterInv == RepliesOutstanding /\ AnsweredOnce /\ CountsExact

(* A step that leaves the GetSettings calls and the counters alone. *)
LEMMA SameGetsKeepCounts ==
    ASSUME CountsExact, counter' = counter,
           \A c : c.kind = "get" /\ c.batched => (c \in calls' <=> c \in calls)
    PROVE  CountsExact'
<1>1. \A t \in Token : BatchCalls(t)' = BatchCalls(t)
  BY DEF BatchCalls
<1> QED
  BY <1>1 DEF CountsExact

(* Sending what is no reply, or the first reply to an outstanding call. *)
LEMMA SendKeepsReplies ==
    ASSUME TypeOK, RepliesOutstanding, AnsweredOnce, NEW m \in Message, Send(m), calls' = calls,
           m.type \in Replies => m.call \in calls /\ ~Answered(m.call)
    PROVE  RepliesOutstanding' /\ AnsweredOnce'
<1>1. /\ Len(inbox) \in Nat
      /\ Len(inbox') = Len(inbox) + 1
      /\ inbox'[Len(inbox) + 1] = m
      /\ \A i \in 1 .. Len(inbox) : inbox'[i] = inbox[i]
  BY DEF TypeOK, Send
<1>2. RepliesOutstanding'
  BY <1>1 DEF RepliesOutstanding
<1>3. m.type \in Replies => \A i \in 1 .. Len(inbox) : ~IsReplyTo(inbox[i], m.call)
  <2>1. DOMAIN inbox = 1 .. Len(inbox)
    BY DEF TypeOK
  <2> QED
    BY <2>1 DEF IsReplyTo, Answered, QueuedReplies, Queued
<1>4. AnsweredOnce'
  <2> SUFFICES ASSUME NEW i \in 1 .. Len(inbox'), NEW j \in 1 .. Len(inbox'),
                      inbox'[i].type \in Replies, IsReplyTo(inbox'[j], inbox'[i].call)
               PROVE  i = j
    BY DEF AnsweredOnce, IsReplyTo
  <2>1. CASE i = Len(inbox')
    BY <1>1, <1>3, <2>1 DEF IsReplyTo
  <2>2. CASE j = Len(inbox')
    BY <1>1, <1>3, <2>2 DEF IsReplyTo
  <2>3. CASE i # Len(inbox') /\ j # Len(inbox')
    BY <1>1, <2>3 DEF AnsweredOnce
  <2> QED
    BY <2>1, <2>2, <2>3
<1> QED
  BY <1>2, <1>4

(* Taking the head message, when at most its own GetSettings call goes. *)
LEMMA ReceiveKeepsReplies ==
    ASSUME TypeOK, RepliesOutstanding, AnsweredOnce, NEW type, Receive(type),
           \A c \in calls : c.kind = "get" /\ ~IsReplyTo(Head(inbox), c) => c \in calls'
    PROVE  /\ RepliesOutstanding' /\ AnsweredOnce'
           /\ type \in Replies /\ Head(inbox).call.kind = "get" => Head(inbox).call \in calls
<1>1. /\ Len(inbox) \in Nat \ {0}
      /\ Len(inbox') = Len(inbox) - 1
      /\ Head(inbox) = inbox[1]
      /\ \A i \in 1 .. Len(inbox') : i + 1 \in 2 .. Len(inbox) /\ inbox'[i] = inbox[i + 1]
  BY DEF TypeOK, Receive
<1>2. RepliesOutstanding'
  <2> SUFFICES ASSUME NEW i \in 1 .. Len(inbox'), inbox'[i].type \in Replies,
                      inbox'[i].call.kind = "get"
               PROVE  inbox'[i].call \in calls'
    BY DEF RepliesOutstanding
  <2>1. inbox'[i] = inbox[i + 1] /\ i + 1 \in 2 .. Len(inbox) /\ 1 \in 1 .. Len(inbox)
    BY <1>1
  <2>2. inbox'[i].call \in calls
    BY <2>1 DEF RepliesOutstanding
  <2>3. ~IsReplyTo(inbox[1], inbox'[i].call)
    BY <2>1 DEF AnsweredOnce
  <2> QED
    BY <1>1, <2>2, <2>3
<1>3. AnsweredOnce'
  <2> SUFFICES ASSUME NEW i \in 1 .. Len(inbox'), NEW j \in 1 .. Len(inbox'),
                      inbox'[i].type \in Replies, IsReplyTo(inbox'[j], inbox'[i].call)
               PROVE  i = j
    BY DEF AnsweredOnce, IsReplyTo
  <2>1. i + 1 = j + 1
    BY <1>1 DEF AnsweredOnce
  <2> QED
    BY <2>1
<1>4. type \in Replies /\ Head(inbox).call.kind = "get" => Head(inbox).call \in calls
  BY <1>1 DEF Receive, RepliesOutstanding
<1> QED
  BY <1>2, <1>3, <1>4

(* free_get_settings_info takes one outstanding call out of its count. *)
LEMMA FreeKeepsCounts ==
    ASSUME TypeOK, CountsExact, NEW c \in calls, c \in GetCalls, NEW single,
           FreeGetSettingsInfo(c, single)
    PROVE  CountsExact'
<1>1. calls' = calls \ {c} /\ c.token \in Token /\ c.kind = "get"
  BY DEF FreeGetSettingsInfo, GetCalls
<1>2. CASE ~c.batched
  BY <1>1, <1>2, SameGetsKeepCounts DEF FreeGetSettingsInfo
<1>3. CASE c.batched
  <2> SUFFICES ASSUME NEW t \in Token
               PROVE  (IsFiniteSet(BatchCalls(t)) /\ counter[t] = Cardinality(BatchCalls(t)))'
    BY DEF CountsExact
  <2>1. counter' = [counter EXCEPT ![c.token] = @ - 1] /\ counter \in [Token -> Int]
    BY <1>3 DEF FreeGetSettingsInfo, TypeOK
  <2>2. BatchCalls(t)' = BatchCalls(t) \ {c}
    BY <1>1 DEF BatchCalls
  <2>3. IsFiniteSet(BatchCalls(t)) /\ counter[t] = Cardinality(BatchCalls(t))
    BY DEF CountsExact
  <2>4. c \in BatchCalls(t) <=> t = c.token
    BY <1>1, <1>3 DEF BatchCalls
  <2>5. /\ IsFiniteSet(BatchCalls(t) \ {c})
        /\ Cardinality(BatchCalls(t) \ {c}) =
              IF c \in BatchCalls(t) THEN Cardinality(BatchCalls(t)) - 1
                                     ELSE Cardinality(BatchCalls(t))
    BY <2>3, FS_RemoveElement
  <2>6. counter'[t] = IF t = c.token THEN counter[t] - 1 ELSE counter[t]
    BY <1>1, <2>1
  <2> QED
    BY <2>2, <2>3, <2>4, <2>5, <2>6
<1> QED
  BY <1>2, <1>3

LEMMA HandleListReplyCounts ==
    ASSUME TypeOK, CounterInv, HandleListReply
    PROVE  CounterInv'
<1> DEFINE m == Head(inbox)
<1>1. Receive("ListReply") /\ m.call \in ListCalls /\ m.paths \in SUBSET Path
  BY ReceivedIsMessage, MessageParts DEF HandleListReply, TypeOK
<1>2. m.call.kind = "list"
  BY <1>1 DEF ListCalls
<1>3. CASE m.call \in calls
  <2>1. PICK T \in FreshTokens(1) : \E t \in T :
                    /\ calls' = (calls \ {m.call}) \union
                                {Call(t, owner, "get", p, TRUE) : p \in m.paths}
                    /\ counter' = [counter EXCEPT ![t] = Cardinality(m.paths)]
    BY <1>3 DEF HandleListReply
  <2>2. PICK t \in T :
                    /\ calls' = (calls \ {m.call}) \union
                                {Call(t, owner, "get", p, TRUE) : p \in m.paths}
                    /\ counter' = [counter EXCEPT ![t] = Cardinality(m.paths)]
    BY <2>1
  <2> DEFINE B == {Call(t, owner, "get", p, TRUE) : p \in m.paths}
  <2>3. t \in Token /\ t \notin UsedTokens
    BY DEF FreshTokens
  <2>4. BatchCalls(t) = {}
    BY <2>3 DEF UsedTokens, BatchCalls
  <2>5. \A c \in B : c.kind = "get" /\ c.batched /\ c.token = t
    BY DEF Call
  \* one GetSettings call for each path: as many calls as paths
  <2>6. IsFiniteSet(B) /\ Cardinality(B) = Cardinality(m.paths)
    <3> DEFINE f == [p \in m.paths |-> Call(t, owner, "get", p, TRUE)]
    <3>1. IsFiniteSet(m.paths)
      BY <1>1, FS_Subset, UserSettingsAssumption
    <3>2. f \in [m.paths -> B] /\ \A c \in B : \E p \in m.paths : f[p] = c
      OBVIOUS
    <3>3. \A p \in m.paths : f[p].path = p
      BY DEF Call
    <3> HIDE DEF f, B, m
    <3>4. \A p, q \in m.paths : f[p] = f[q] => p = q
      BY <3>3
    <3>5. ExistsBijection(m.paths, B)
      BY <3>2, <3>4 DEF ExistsBijection, Bijection, Injection, Surjection, IsInjective
    <3> QED
      BY <3>1, <3>5, FS_Bijection
  <2>7. calls' = (calls \ {m.call}) \union B /\ counter \in [Token -> Int]
    BY <2>2 DEF TypeOK
  <2>8. counter' = [counter EXCEPT ![t] = Cardinality(m.paths)]
    BY <2>2
  <2> HIDE DEF B, m
  <2>9. BatchCalls(t)' = B
    BY <1>2, <2>4, <2>5, <2>7 DEF BatchCalls
  <2>10. \A u \in Token : u # t => BatchCalls(u)' = BatchCalls(u) /\ counter'[u] = counter[u]
    BY <1>2, <2>5, <2>7, <2>8 DEF BatchCalls
  <2>11. counter'[t] = Cardinality(m.paths)
    BY <2>3, <2>7, <2>8
  <2>12. CountsExact'
    <3> SUFFICES ASSUME NEW u \in Token
                 PROVE  (IsFiniteSet(BatchCalls(u)) /\ counter[u] = Cardinality(BatchCalls(u)))'
      BY DEF CountsExact
    <3>1. CASE u = t
      BY <2>6, <2>9, <2>11, <3>1
    <3>2. CASE u # t
      BY <2>10, <3>2 DEF CounterInv, CountsExact
    <3> QED
      BY <3>1, <3>2
  <2>13. \A c \in calls : c.kind = "get" => c \in calls'
    BY <1>2, <2>7
  <2> QED
    BY <1>1, <2>12, <2>13, ReceiveKeepsReplies DEF CounterInv
<1>4. CASE m.call \notin calls
  <2>1. UNCHANGED <<calls, counter>>
    BY <1>4 DEF HandleListReply
  <2> QED
    BY <1>1, <2>1, ReceiveKeepsReplies, SameGetsKeepCounts DEF CounterInv
<1> QED
  BY <1>3, <1>4

(* Handlers that neither end a GetSettings call nor start a counted one. *)
LEMMA UncountedHandlerKeepsCounts ==
    ASSUME TypeOK, CounterInv, NEW type, Receive(type), counter' = counter,
           \A c : c.kind = "get" /\ c.batched => (c \in calls' <=> c \in calls),
           \A c \in calls : c.kind = "get" => c \in calls'
    PROVE  CounterInv'
  BY ReceiveKeepsReplies, SameGetsKeepCounts DEF CounterInv

(* Either callback of a GetSettings call, with settings or an error. *)
LEMMA ReplyKeepsCounts ==
    ASSUME TypeOK, CounterInv, NEW type \in Replies, Receive(type), NEW single,
           Head(inbox).call \in GetCalls, FreeGetSettingsInfo(Head(inbox).call, single)
    PROVE  CounterInv'
<1> DEFINE c == Head(inbox).call
<1>1. c.kind = "get" /\ Head(inbox).type = type
  BY DEF GetCalls, Receive
<1>2. calls' = calls \ {c}
  BY DEF FreeGetSettingsInfo
<1>3. \A d \in calls : d.kind = "get" /\ ~IsReplyTo(Head(inbox), d) => d \in calls'
  BY <1>1, <1>2 DEF IsReplyTo
<1>4. RepliesOutstanding' /\ AnsweredOnce' /\ c \in calls
  BY <1>1, <1>3, ReceiveKeepsReplies DEF CounterInv
<1> HIDE DEF c
<1>5. CountsExact'
  BY <1>4, FreeKeepsCounts DEF CounterInv, c
<1> QED
  BY <1>4, <1>5 DEF CounterInv

LEMMA HandleKeepsCounts ==
    ASSUME TypeOK, CounterInv, Handle
    PROVE  CounterInv'
<1> DEFINE m == Head(inbox)
<1>1. CASE HandleNameOwnerChanged
  <2>1. Receive("NameOwnerChanged") /\ counter' = counter
    BY <1>1 DEF HandleNameOwnerChanged
  <2>2. calls' = calls \/ calls' = {c \in calls : c.kind = "get"}
    BY <1>1 DEF HandleNameOwnerChanged, UserProxyCleanup
  <2> QED
    BY <2>1, <2>2, UncountedHandlerKeepsCounts
<1>2. CASE HandleListReply
  BY <1>2, HandleListReplyCounts
<1>3. CASE HandleNewConnection
  <2>1. Receive("NewConnection") /\ counter' = counter
    BY <1>3 DEF HandleNewConnection
  <2>2. PICK T : calls' = calls \union {Call(t, owner, "get", m.path, FALSE) : t \in T}
    BY <1>3 DEF HandleNewConnection
  <2>3. \A c : c.kind = "get" /\ c.batched => (c \in calls' <=> c \in calls)
    BY <2>2 DEF Call
  <2> QED
    BY <2>1, <2>2, <2>3, UncountedHandlerKeepsCounts
<1>4. CASE HandleSettingsReply
  <2>1. Receive("SettingsReply") /\ m.call \in GetCalls
    BY <1>4, ReceivedIsMessage, MessageParts DEF HandleSettingsReply, TypeOK
  <2>2. PICK single : FreeGetSettingsInfo(m.call, single)
    BY <1>4 DEF HandleSettingsReply
  <2> QED
    BY <2>1, <2>2, ReplyKeepsCounts DEF Replies
<1>5. CASE HandleErrorReply
  <2>1. Receive("ErrorReply") /\ m.call \in CallSet
    BY <1>5, ReceivedIsMessage, MessageParts DEF HandleErrorReply, TypeOK
  <2>2. CASE m.call.kind = "get" /\ FreeGetSettingsInfo(m.call, {})
    <3>1. m.call \in GetCalls
      BY <2>1, <2>2 DEF CallSet, ListCalls
    <3> QED
      BY <2>1, <2>2, <3>1, ReplyKeepsCounts DEF Replies
  <2>3. CASE m.call.kind = "list" /\ calls' = calls \ {m.call} /\ UNCHANGED counter
    BY <2>1, <2>3, UncountedHandlerKeepsCounts
  <2> QED
    BY <1>5, <2>2, <2>3 DEF HandleErrorReply
<1>6. CASE HandleRemoved
  BY <1>6, UncountedHandlerKeepsCounts DEF HandleRemoved
<1>7. CASE HandleUpdated
  BY <1>7, UncountedHandlerKeepsCounts DEF HandleUpdated
<1> QED
  BY <1>1, <1>2, <1>3, <1>4, <1>5, <1>6, <1>7 DEF Handle

(* A step that receives and sends nothing and leaves the counted calls. *)
LEMMA SilentKeepsCounts ==
    ASSUME CounterInv, UNCHANGED <<inbox, counter>>,
           \A c : c.kind = "get" => (c \in calls' <=> c \in calls)
    PROVE  CounterInv'
<1>1. RepliesOutstanding' /\ AnsweredOnce'
  BY DEF CounterInv, RepliesOutstanding, AnsweredOnce, IsReplyTo
<1> QED
  BY <1>1, SameGetsKeepCounts DEF CounterInv

LEMMA PolkitKeepsCounts ==
    ASSUME CounterInv, Polkit
    PROVE  CounterInv'
<1> PICK ch \in chains, p \in Permissions, a \in Answers : PolkitAnswers(ch, p, a)
  BY DEF Polkit
<1>1. UNCHANGED <<inbox, counter>>
  BY DEF PolkitAnswers
<1>2. \/ calls' = calls
      \/ calls' = {c \in calls : c.kind = "get"}
      \/ \E T : calls' = calls \union
                {Call(t, proxy.service, "list", NoConnection, FALSE) : t \in T}
  BY DEF PolkitAnswers, UserProxyAuthDone, UserProxyCleanup
<1>3. \A c : c.kind = "get" => (c \in calls' <=> c \in calls)
  BY <1>2 DEF Call
<1> QED
  BY <1>1, <1>3, SilentKeepsCounts

LEMMA AnswerKeepsCounts ==
    ASSUME TypeOK, CounterInv, Answer
    PROVE  CounterInv'
<1> PICK c \in calls : AnswerList(c) \/ AnswerGetSettings(c) \/ FailCall(c)
  BY DEF Answer
<1>1. UNCHANGED <<calls, counter>> /\ ~Answered(c)
  BY DEF AnswerList, AnswerGetSettings, FailCall, managerVars
<1>2. PICK m : Send(m) /\ m.call = c
  BY DEF AnswerList, AnswerGetSettings, FailCall, ListReply, SettingsReply, ErrorReply
<1>3. m \in Message
  <2>1. inbox' = Append(inbox, m) /\ inbox' \in Seq(Message) /\ inbox \in Seq(Message)
    BY <1>2, AnswerType DEF TypeOK, Send
  <2>2. inbox'[Len(inbox')] = m /\ Len(inbox') \in 1 .. Len(inbox')
    BY <2>1
  <2> QED
    BY <2>1, <2>2
<1> QED
  BY <1>1, <1>2, <1>3, SendKeepsReplies, SameGetsKeepCounts DEF CounterInv

LEMMA ServiceKeepsCounts ==
    ASSUME TypeOK, CounterInv, ServiceActs
    PROVE  CounterInv'
<1> PICK s \in Service :
      \/ ServiceStarts(s)
      \/ ServiceExits(s)
      \/ \E p \in Path :
            \/ DeleteConnection(s, p)
            \/ \E c \in Content : ExportConnection(s, p, c) \/ UpdateConnection(s, p, c)
  BY DEF ServiceActs
<1>1. UNCHANGED <<calls, counter>>
  BY DEF ServiceStarts, ServiceExits, DeleteConnection, ExportConnection, UpdateConnection,
     managerVars
<1>2. \E m \in Message : (Send(m) \/ UNCHANGED inbox) /\ m.type \notin Replies
  <2>1. /\ \A t \in {NoService, s}, u \in {NoService, s} :
              NameOwnerChanged(t, u) \in Message /\ NameOwnerChanged(t, u).type \notin Replies
        /\ \A p \in Path :
              /\ NewConnection(s, p) \in Message /\ NewConnection(s, p).type \notin Replies
              /\ Removed(s, p) \in Message /\ Removed(s, p).type \notin Replies
        /\ \A p \in Path, c \in Content :
              Updated(s, p, c) \in Message /\ Updated(s, p, c).type \notin Replies
    BY DEF Message, NameOwnerChanged, NewConnection, Removed, Updated, Owners, Replies
  <2>2. CASE ServiceStarts(s)
    BY <2>1, <2>2, Zenon DEF ServiceStarts
  <2>3. CASE ServiceExits(s)
    BY <2>1, <2>3, Zenon DEF ServiceExits
  <2>4. ASSUME NEW p \in Path, DeleteConnection(s, p)
        PROVE  \E m \in Message : (Send(m) \/ UNCHANGED inbox) /\ m.type \notin Replies
    BY <2>1, <2>4, Zenon DEF DeleteConnection, SendIf
  <2>5. ASSUME NEW p \in Path, NEW c \in Content, ExportConnection(s, p, c)
        PROVE  \E m \in Message : (Send(m) \/ UNCHANGED inbox) /\ m.type \notin Replies
    BY <2>1, <2>5, Zenon DEF ExportConnection, SendIf
  <2>6. ASSUME NEW p \in Path, NEW c \in Content, UpdateConnection(s, p, c)
        PROVE  \E m \in Message : (Send(m) \/ UNCHANGED inbox) /\ m.type \notin Replies
    BY <2>1, <2>6, Zenon DEF UpdateConnection, SendIf
  <2> QED
    BY <2>2, <2>3, <2>4, <2>5, <2>6
<1>3. PICK m \in Message : (Send(m) \/ UNCHANGED inbox) /\ m.type \notin Replies
  BY <1>2
<1>4. CASE Send(m)
  BY <1>1, <1>3, <1>4, SendKeepsReplies, SameGetsKeepCounts DEF CounterInv
<1>5. CASE UNCHANGED inbox
  BY <1>1, <1>5, SilentKeepsCounts
<1> QED
  BY <1>3, <1>4, <1>5

LEMMA CounterInvHolds == Spec => []CounterInv
<1>1. Init => CounterInv
  <2> SUFFICES ASSUME Init PROVE CounterInv
    OBVIOUS
  <2>1. \A t \in Token : BatchCalls(t) = {} /\ counter[t] = 0
    BY DEF Init, BatchCalls
  <2>2. CountsExact
    BY <2>1, FS_EmptySet DEF CountsExact
  <2> QED
    BY <2>2 DEF Init, CounterInv, RepliesOutstanding, AnsweredOnce
<1>2. TypeOK /\ CounterInv /\ [Next]_vars => CounterInv'
  <2> SUFFICES ASSUME TypeOK, CounterInv, [Next]_vars PROVE CounterInv'
    OBVIOUS
  <2>1. CASE UNCHANGED vars
    BY <2>1, SilentKeepsCounts DEF vars
  <2>2. CASE Start
    BY <2>2, SilentKeepsCounts DEF Start
  <2> QED
    BY <2>1, <2>2, HandleKeepsCounts, PolkitKeepsCounts, AnswerKeepsCounts,
       ServiceKeepsCounts DEF Next
<1> QED
  BY <1>1, <1>2, TypeCorrect, PTL DEF Spec

(* Whatever restarts, refusals and signals come in between, the counter a    *)
(* listing's GetSettings calls share is the number of them still out: the    *)
(* last one, and no other, announces the connections and frees the counter.  *)
THEOREM CounterStaysExact == Spec => []BatchCounterExact
<1>1. CounterInv => BatchCounterExact
  BY DEF CounterInv, CountsExact, BatchCounterExact
<1> QED
  BY <1>1, CounterInvHolds, PTL

-----------------------------------------------------------------------------
(* What the manager holds is not stale.                                    *)
(*                                                                         *)
(* For each path there is a line: what is known (k), what the queue says   *)
(* of the path in Updated, Removed and replies, and what is exported now   *)
(* (x).  Where what is said will be heeded, because a connection is known  *)
(* by then, each reply repeats what was said last before it, and what was  *)
(* said last of all is what is exported.                                   *)

Ended(q, i, j) == \E n \in i .. j : Goodbye(q[n])

Replied(m, p) == m.type = "SettingsReply" /\ m.call.path = p

About(m, p) == Replied(m, p) \/ (m.type \in {"Updated", "Removed"} /\ m.path = p)

Says(m) == IF m.type = "Removed" THEN Deleted ELSE m.settings

Heeded(q, p, k, i) ==
    \/ k # NoConnection /\ ~Ended(q, 1, i)
    \/ \E n \in 1 .. i : Replied(q[n], p) /\ ~Ended(q, n, i)

Said(q, p, k, i, v) ==
    \/ \E n \in 1 .. i :
          About(q[n], p) /\ Says(q[n]) = v /\ \A l \in (n + 1) .. i : ~About(q[l], p)
    \/ k = v /\ \A l \in 1 .. i : ~About(q[l], p)

Line(q, p, k, x) ==
    /\ \A i \in 1 .. Len(q) :
          Replied(q[i], p) /\ Heeded(q, p, k, i - 1) => Said(q, p, k, i - 1, Says(q[i]))
    /\ Heeded(q, p, k, Len(q)) => Said(q, p, k, Len(q), x)

Told == \A p \in Path : Line(inbox, p, known[p], exported[p])

(* A message is sent: it says what is exported from now on, or nothing of   *)
(* the path, or that the service is gone.                                   *)
LEMMA LineSent ==
    ASSUME NEW q \in Seq(Message), NEW m \in Message, NEW p, NEW k, NEW x, NEW y,
           Line(q, p, k, x),
           \/ ~About(m, p) /\ y = x
           \/ About(m, p) /\ Says(m) = y /\ (Replied(m, p) => y = x)
           \/ Goodbye(m)
           \/ ~Replied(m, p) /\ ~Heeded(q, p, k, Len(q))
    PROVE  Line(Append(q, m), p, k, y)
<1> DEFINE r == Append(q, m)
<1>1. /\ Len(q) \in Nat /\ Len(r) = Len(q) + 1 /\ r[Len(q) + 1] = m
      /\ \A i \in 1 .. Len(q) : r[i] = q[i]
  OBVIOUS
<1> HIDE DEF r
<1>2. \A i \in 0 .. Len(q) : Heeded(r, p, k, i) <=> Heeded(q, p, k, i)
  BY <1>1 DEF Heeded, Ended
<1>3. ASSUME NEW i \in 0 .. Len(q), NEW v, Said(q, p, k, i, v) PROVE Said(r, p, k, i, v)
  <2>1. \A n \in 1 .. i : r[n] = q[n]
    BY <1>1
  <2> QED
    BY <1>3, <2>1 DEF Said
<1>4. ASSUME NEW i \in 1 .. Len(r), Replied(r[i], p), Heeded(r, p, k, i - 1)
      PROVE  Said(r, p, k, i - 1, Says(r[i]))
  <2>1. CASE i \in 1 .. Len(q)
    <3>1. i - 1 \in 0 .. Len(q) /\ r[i] = q[i]
      BY <1>1, <2>1
    <3>2. Said(q, p, k, i - 1, Says(q[i]))
      BY <1>2, <1>4, <2>1, <3>1 DEF Line
    <3> QED
      BY <1>3, <3>1, <3>2
  <2>2. CASE i = Len(q) + 1
    <3>1. Replied(m, p) /\ Heeded(q, p, k, Len(q)) /\ i - 1 = Len(q) /\ r[i] = m
      BY <1>1, <1>2, <1>4, <2>2
    <3>2. Says(m) = x
      BY <3>1 DEF Goodbye, Replied, About
    <3>3. Said(q, p, k, Len(q), x)
      BY <3>1 DEF Line
    <3>4. Said(r, p, k, Len(q), x)
      BY <1>1, <1>3, <3>3
    <3> QED
      BY <3>1, <3>2, <3>4
  <2> QED
    BY <1>1, <2>1, <2>2
<1>5. ASSUME Heeded(r, p, k, Len(r)) PROVE Said(r, p, k, Len(r), y)
  <2>1. ~Goodbye(m)
    BY <1>1, <1>5 DEF Heeded, Ended
  <2>2. CASE About(m, p) /\ Says(m) = y
    <3>1. Len(r) \in 1 .. Len(r) /\ r[Len(r)] = m /\ (Len(r) + 1) .. Len(r) = {}
      BY <1>1
    <3> QED
      BY <2>2, <3>1 DEF Said
  <2>3. CASE ~Replied(m, p)
    <3>1. Heeded(q, p, k, Len(q))
      BY <1>1, <1>5, <2>3 DEF Heeded, Ended
    <3>2. CASE ~About(m, p) /\ y = x
      <4>1. Said(q, p, k, Len(q), x)
        BY <3>1 DEF Line
      <4>2. CASE k = x /\ \A l \in 1 .. Len(q) : ~About(q[l], p)
        BY <1>1, <3>2, <4>2 DEF Said
      <4>3. ASSUME NEW n \in 1 .. Len(q), About(q[n], p), Says(q[n]) = x,
                   \A l \in (n + 1) .. Len(q) : ~About(q[l], p)
            PROVE  Said(r, p, k, Len(r), y)
        <5>1. n \in 1 .. Len(r) /\ r[n] = q[n]
          BY <1>1
        <5>2. \A l \in (n + 1) .. Len(r) : ~About(r[l], p)
          BY <1>1, <3>2, <4>3
        <5> QED
          BY <3>2, <4>3, <5>1, <5>2 DEF Said
      <4> QED
        BY <4>1, <4>2, <4>3 DEF Said
    <3> QED
      BY <2>1, <2>2, <3>1, <3>2
  <2> QED
    BY <2>1, <2>2, <2>3 DEF About
<1> QED
  BY <1>4, <1>5 DEF Line, r

(* The head is dealt with: what is known from now on is what it said, if a  *)
(* connection is there to heed it, or nothing, or what was known.           *)
LEMMA LineReceived ==
    ASSUME NEW q \in Seq(Message), q # <<>>, NEW p, NEW k, NEW k2, NEW x,
           Line(q, p, k, x),
           \/ k2 = NoConnection
           \/ k2 = k /\ ~About(Head(q), p) /\ ~Goodbye(Head(q))
           \/ /\ k2 = Says(Head(q)) /\ About(Head(q), p)
              /\ k # NoConnection \/ Replied(Head(q), p)
    PROVE  Line(Tail(q), p, k2, x)
<1> DEFINE r == Tail(q)
           m == Head(q)
<1>1. /\ Len(q) \in Nat \ {0} /\ Len(r) = Len(q) - 1 /\ m = q[1]
      /\ \A i \in 1 .. Len(r) : r[i] = q[i + 1] /\ i + 1 \in 2 .. Len(q)
  OBVIOUS
<1>2. \A i \in 2 .. Len(q) : i - 1 \in 1 .. Len(r) /\ r[i - 1] = q[i]
  BY <1>1
<1> HIDE DEF r, m
<1>3. ASSUME NEW i \in 0 .. Len(r), Heeded(r, p, k2, i)
      PROVE  /\ Heeded(q, p, k, i + 1)
             /\ \A v : Said(q, p, k, i + 1, v) => Said(r, p, k2, i, v)
  <2>1. \A n \in 1 .. i : ~Ended(r, n, i) => ~Ended(q, n + 1, i + 1)
    BY <1>1, <1>2 DEF Ended
  <2>2. ~Ended(r, 1, i) /\ ~Goodbye(m) => ~Ended(q, 1, i + 1)
    BY <1>1, <1>2 DEF Ended
  <2>3. CASE \E n \in 1 .. i : Replied(r[n], p) /\ ~Ended(r, n, i)
    <3>1. PICK n \in 1 .. i : Replied(r[n], p) /\ ~Ended(r, n, i)
      BY <2>3
    <3>2. n + 1 \in 1 .. i + 1 /\ Replied(q[n + 1], p) /\ ~Ended(q, n + 1, i + 1)
      BY <1>1, <2>1, <3>1
    <3>3. ASSUME NEW v, Said(q, p, k, i + 1, v) PROVE Said(r, p, k2, i, v)
      <4>1. PICK l \in 1 .. i + 1 : About(q[l], p) /\ Says(q[l]) = v
                                    /\ \A j \in (l + 1) .. (i + 1) : ~About(q[j], p)
        BY <3>2, <3>3 DEF Said, About
      <4>2. l # 1
        BY <3>1, <3>2, <4>1 DEF About
      <4>3. l - 1 \in 1 .. i /\ r[l - 1] = q[l]
        BY <1>1, <1>2, <4>2
      <4>4. \A j \in l .. i : ~About(r[j], p)
        BY <1>1, <4>1
      <4> QED
        BY <4>1, <4>3, <4>4 DEF Said
    <3> QED
      BY <3>2, <3>3 DEF Heeded
  <2>4. CASE ~\E n \in 1 .. i : Replied(r[n], p) /\ ~Ended(r, n, i)
    <3>1. k2 # NoConnection /\ ~Ended(r, 1, i) /\ ~Goodbye(m)
      BY <1>3, <2>4 DEF Heeded, m, Goodbye, About, Replied
    <3>2. Heeded(q, p, k, i + 1)
      <4>1. CASE k # NoConnection
        BY <2>2, <3>1, <4>1 DEF Heeded
      <4>2. CASE Replied(m, p)
        BY <1>1, <2>2, <3>1, <4>2 DEF Heeded
      <4> QED
        BY <3>1, <4>1, <4>2 DEF m
    <3>3. ASSUME NEW v, Said(q, p, k, i + 1, v) PROVE Said(r, p, k2, i, v)
      <4>1. CASE \A l \in 1 .. i + 1 : ~About(q[l], p)
        <5>1. k = v /\ ~About(m, p)
          BY <1>1, <3>3, <4>1 DEF Said
        <5>2. k2 = v /\ \A l \in 1 .. i : ~About(r[l], p)
          BY <1>1, <3>1, <4>1, <5>1 DEF m
        <5> QED
          BY <5>2 DEF Said
      <4>2. CASE ~\A l \in 1 .. i + 1 : ~About(q[l], p)
        <5>1. PICK l \in 1 .. i + 1 : About(q[l], p) /\ Says(q[l]) = v
                                      /\ \A j \in (l + 1) .. (i + 1) : ~About(q[j], p)
          BY <3>3, <4>2 DEF Said
        <5>2. CASE l = 1
          <6>1. k2 = v
            BY <1>1, <3>1, <5>1, <5>2 DEF m
          <6>2. \A j \in 1 .. i : ~About(r[j], p)
            BY <1>1, <5>1, <5>2
          <6> QED
            BY <6>1, <6>2 DEF Said
        <5>3. CASE l # 1
          <6>1. l - 1 \in 1 .. i /\ r[l - 1] = q[l]
            BY <1>1, <1>2, <5>3
          <6>2. \A j \in l .. i : ~About(r[j], p)
            BY <1>1, <5>1
          <6> QED
            BY <5>1, <6>1, <6>2 DEF Said
        <5> QED
          BY <5>2, <5>3
      <4> QED
        BY <4>1, <4>2
    <3> QED
      BY <3>2, <3>3
  <2> QED
    BY <2>3, <2>4
<1>4. ASSUME NEW i \in 1 .. Len(r), Replied(r[i], p), Heeded(r, p, k2, i - 1)
      PROVE  Said(r, p, k2, i - 1, Says(r[i]))
  <2>1. i - 1 \in 0 .. Len(r) /\ (i - 1) + 1 = i /\ i + 1 \in 1 .. Len(q) /\ (i + 1) - 1 = i
        /\ q[i + 1] = r[i]
    BY <1>1
  <2>2. Heeded(q, p, k, i)
    BY <1>3, <1>4, <2>1
  <2>3. Said(q, p, k, i, Says(q[i + 1]))
    BY <1>4, <2>1, <2>2 DEF Line
  <2> QED
    BY <1>3, <1>4, <2>1, <2>3
<1>5. ASSUME Heeded(r, p, k2, Len(r)) PROVE Said(r, p, k2, Len(r), x)
  <2>1. Len(r) \in 0 .. Len(r) /\ Len(r) + 1 = Len(q)
    BY <1>1
  <2>2. Said(q, p, k, Len(q), x)
    BY <1>3, <1>5, <2>1 DEF Line
  <2> QED
    BY <1>3, <1>5, <2>1, <2>2
<1> QED
  BY <1>4, <1>5 DEF Line, r

(* Everything known is dropped. *)
LEMMA LineDropped ==
    ASSUME NEW q \in Seq(Message), NEW p, NEW k, NEW x, Line(q, p, k, x)
    PROVE  Line(q, p, NoConnection, x)
<1>1. ASSUME NEW i, Heeded(q, p, NoConnection, i)
      PROVE  /\ Heeded(q, p, k, i)
             /\ \A v : Said(q, p, k, i, v) => Said(q, p, NoConnection, i, v)
  <2>1. \E n \in 1 .. i : Replied(q[n], p) /\ ~Ended(q, n, i)
    BY <1>1 DEF Heeded
  <2> QED
    BY <2>1 DEF Heeded, Said, About
<1> QED
  BY <1>1 DEF Line

(* A reply finds the connection it repeats, or none: invalid settings none. *)
LEMMA ReplyRepeats ==
    ASSUME NEW q \in Seq(Message), q # <<>>, NEW p, NEW k, NEW x, Line(q, p, k, x),
           Replied(Head(q), p)
    PROVE  k \in {NoConnection, Head(q).settings}
<1>1. 1 \in 1 .. Len(q) /\ Head(q) = q[1] /\ 1 .. (1 - 1) = {}
  OBVIOUS
<1>2. ~Ended(q, 1, 1 - 1)
  BY <1>1 DEF Ended
<1>3. Says(q[1]) = q[1].settings
  BY <1>1 DEF Says, Replied
<1> QED
  BY <1>1, <1>2, <1>3 DEF Line, Heeded, Said

(* Nobody heeds what a service that is gone has said. *)
LEMMA NobodyHeeds ==
    ASSUME TypeOK, ExitInv, owner = NoService, NEW p \in Path
    PROVE  ~Heeded(inbox, p, known[p], Len(inbox))
<1>1. known[p] # NoConnection => Ended(inbox, 1, Len(inbox))
  BY DEF ExitInv, KnownUnderOwner, Known, Ended
<1>2. ASSUME NEW n \in 1 .. Len(inbox), Replied(inbox[n], p)
      PROVE  Ended(inbox, n, Len(inbox))
  <2>1. inbox[n] \in Message
    BY DEF TypeOK
  <2>2. inbox[n].from # owner
    BY <1>2, <2>1, MessageParts, UserSettingsAssumption DEF Replied
  <2>3. PICK j \in (n + 1) .. Len(inbox) : Goodbye(inbox[j])
    BY <1>2, <2>2 DEF ExitInv, RepliesBeforeGoodbye, Replied
  <2>4. j \in n .. Len(inbox)
    BY <2>3
  <2> QED
    BY <2>3, <2>4 DEF Ended
<1> QED
  BY <1>1, <1>2 DEF Heeded

(* Nor does anybody heed what is said of a path without an object. *)
LEMMA NoObjectHeeds ==
    ASSUME TypeOK, RepliesOutstanding, NEW p \in Path, ~HasConnectionProxy(p)
    PROVE  ~Heeded(inbox, p, known[p], Len(inbox))
<1>1. known[p] = NoConnection
  BY DEF HasConnectionProxy, Known
<1>2. ASSUME NEW n \in 1 .. Len(inbox), Replied(inbox[n], p)
      PROVE  FALSE
  <2>1. inbox[n] \in Message /\ inbox[n].type = "SettingsReply" /\ inbox[n].call.path = p
    BY <1>2 DEF TypeOK, Replied
  <2>2. inbox[n].call.kind = "get"
    BY <2>1, MessageParts DEF GetCalls
  <2>3. inbox[n].call \in calls
    BY <2>1, <2>2 DEF RepliesOutstanding, Replies
  <2> QED
    BY <2>1, <2>2, <2>3 DEF HasConnectionProxy, PendingGets
<1> QED
  BY <1>1, <1>2 DEF Heeded

LEMMA ServiceKeepsTold ==
    ASSUME TypeOK, ExitInv, RepliesOutstanding, Told, ServiceActs
    PROVE  Told'
<1> USE UserSettingsAssumption
<1>1. inbox \in Seq(Message) /\ \A p \in Path : Line(inbox, p, known[p], exported[p])
  BY DEF TypeOK, Told
<1> PICK s \in Service :
      \/ ServiceStarts(s)
      \/ ServiceExits(s)
      \/ \E p \in Path :
            \/ DeleteConnection(s, p)
            \/ \E c \in Content : ExportConnection(s, p, c) \/ UpdateConnection(s, p, c)
  BY DEF ServiceActs
<1>2. known' = known
  BY DEF ServiceStarts, ServiceExits, DeleteConnection, ExportConnection, UpdateConnection,
     managerVars
<1>3. CASE ServiceStarts(s)
  <2> DEFINE m == NameOwnerChanged(NoService, s)
  <2>1. m \in Message /\ ~(\E p : Replied(m, p))
    BY DEF Message, NameOwnerChanged, Owners, Replied
  <2>2. inbox' = Append(inbox, m) /\ owner = NoService
    BY <1>3 DEF ServiceStarts, Send
  <2> HIDE DEF m
  <2>3. ASSUME NEW p \in Path PROVE Line(inbox', p, known[p], exported'[p])
    <3>1. ~Heeded(inbox, p, known[p], Len(inbox))
      BY <2>2, NobodyHeeds
    <3> QED
      BY <1>1, <2>1, <2>2, <3>1, LineSent
  <2> QED
    BY <1>2, <2>3 DEF Told
<1>4. CASE ServiceExits(s)
  <2> DEFINE m == NameOwnerChanged(s, NoService)
  <2>1. m \in Message /\ Goodbye(m)
    BY DEF Message, NameOwnerChanged, Owners, Goodbye
  <2>2. inbox' = Append(inbox, m)
    BY <1>4 DEF ServiceExits, Send
  <2> HIDE DEF m
  <2> QED
    BY <1>1, <1>2, <2>1, <2>2, LineSent DEF Told
<1>5. ASSUME NEW p \in Path, NEW m \in Message, ~Replied(m, p),
             \A r \in Path : r # p => ~About(m, r) /\ exported'[r] = exported[r],
             \/ inbox' = Append(inbox, m)
             \/ inbox' = inbox,
             \/ ~Heeded(inbox, p, known[p], Len(inbox))
             \/ inbox' = Append(inbox, m) /\ About(m, p) /\ Says(m) = exported'[p]
      PROVE  Told'
  <2>1. ASSUME NEW r \in Path, r # p PROVE Line(inbox', r, known[r], exported'[r])
    <3>1. ~About(m, r) /\ exported'[r] = exported[r] /\ Line(inbox, r, known[r], exported[r])
      BY <1>1, <1>5, <2>1
    <3>2. CASE inbox' = Append(inbox, m)
      BY <1>1, <3>1, <3>2, LineSent
    <3> QED
      BY <1>5, <3>1, <3>2
  <2>2. Line(inbox', p, known[p], exported'[p])
    <3>1. CASE inbox' = Append(inbox, m)
      BY <1>1, <1>5, <3>1, LineSent
    <3>2. CASE inbox' = inbox /\ ~Heeded(inbox, p, known[p], Len(inbox))
      BY <1>1, <3>2 DEF Line
    <3> QED
      BY <1>5, <3>1, <3>2
  <2> QED
    BY <1>2, <2>1, <2>2 DEF Told
<1>6. ASSUME NEW p \in Path, NEW c \in Content, ExportConnection(s, p, c) PROVE Told'
  <2>1. /\ exported[p] = NoConnection /\ exported' = [exported EXCEPT ![p] = c]
        /\ SendIf(proxy.service = s, NewConnection(s, p))
    BY <1>6 DEF ExportConnection
  <2>2. ~Heeded(inbox, p, known[p], Len(inbox))
    <3> SUFFICES ASSUME Heeded(inbox, p, known[p], Len(inbox)) PROVE FALSE
      OBVIOUS
    <3>1. Said(inbox, p, known[p], Len(inbox), NoConnection)
      BY <1>1, <2>1 DEF Line
    <3>2. ASSUME NEW n \in 1 .. Len(inbox), About(inbox[n], p) PROVE Says(inbox[n]) # NoConnection
      <4>1. inbox[n] \in Message
        BY <1>1
      <4> QED
        BY <3>2, <4>1, MessageParts DEF About, Replied, Says
    <3>3. known[p] = NoConnection /\ \A l \in 1 .. Len(inbox) : ~About(inbox[l], p)
      BY <3>1, <3>2 DEF Said
    <3> QED
      BY <3>3 DEF Heeded, About
  <2> DEFINE m == NewConnection(s, p)
  <2>3. m \in Message /\ \A r : ~About(m, r) /\ ~Replied(m, r)
    BY DEF Message, NewConnection, About, Replied
  <2>4. inbox' = Append(inbox, m) \/ inbox' = inbox
    BY <2>1 DEF SendIf, Send
  <2> HIDE DEF m
  <2>5. \A r \in Path : r # p => exported'[r] = exported[r]
    BY <2>1 DEF TypeOK
  <2> QED
    BY <1>5, <2>2, <2>3, <2>4, <2>5
<1>7. ASSUME NEW p \in Path, NEW m \in Message, m.type \in {"Updated", "Removed"},
             m.path = p, exported' = [exported EXCEPT ![p] = Says(m)],
             inbox' = Append(inbox, m) \/ (inbox' = inbox /\ ~HasConnectionProxy(p))
      PROVE  Told'
  <2>1. exported'[p] = Says(m) /\ \A r \in Path : r # p => exported'[r] = exported[r]
    BY <1>7 DEF TypeOK
  <2>2. \A r : ~Replied(m, r) /\ (About(m, r) <=> r = p)
    BY <1>7 DEF About, Replied
  <2>3. ~HasConnectionProxy(p) => ~Heeded(inbox, p, known[p], Len(inbox))
    BY NoObjectHeeds
  <2> QED
    BY <1>5, <1>7, <2>1, <2>2, <2>3
<1>8. ASSUME NEW p \in Path, NEW c \in Content, UpdateConnection(s, p, c) PROVE Told'
  <2> DEFINE m == Updated(s, p, c)
  <2>1. m \in Message /\ m.type = "Updated" /\ m.path = p /\ Says(m) = c
    BY DEF Message, Updated, Says
  <2>2. /\ exported' = [exported EXCEPT ![p] = Says(m)]
        /\ inbox' = Append(inbox, m) \/ (inbox' = inbox /\ ~HasConnectionProxy(p))
    BY <1>8, <2>1 DEF UpdateConnection, SendIf, Send
  <2> HIDE DEF m
  <2> QED
    BY <1>7, <2>1, <2>2
<1>9. ASSUME NEW p \in Path, DeleteConnection(s, p) PROVE Told'
  <2> DEFINE m == Removed(s, p)
  <2>1. m \in Message /\ m.type = "Removed" /\ m.path = p /\ Says(m) = Deleted
    BY DEF Message, Removed, Says
  <2>2. /\ exported' = [exported EXCEPT ![p] = Says(m)]
        /\ inbox' = Append(inbox, m) \/ (inbox' = inbox /\ ~HasConnectionProxy(p))
    BY <1>9, <2>1 DEF DeleteConnection, SendIf, Send
  <2> HIDE DEF m
  <2> QED
    BY <1>7, <2>1, <2>2
<1> QED
  BY <1>3, <1>4, <1>6, <1>8, <1>9

LEMMA AnswerKeepsTold ==
    ASSUME TypeOK, Told, Answer
    PROVE  Told'
<1> PICK c \in calls : AnswerList(c) \/ AnswerGetSettings(c) \/ FailCall(c)
  BY DEF Answer
<1>1. /\ inbox \in Seq(Message) /\ \A p \in Path : Line(inbox, p, known[p], exported[p])
      /\ known' = known /\ exported' = exported
  BY DEF TypeOK, Told, AnswerList, AnswerGetSettings, FailCall, busVars, managerVars
<1>2. PICK m : /\ Send(m)
               /\ \A p \in Path : About(m, p) => Replied(m, p) /\ Says(m) = exported[p]
  <2>1. CASE AnswerList(c)
    BY <2>1 DEF AnswerList, ListReply, About, Replied
  <2>2. CASE FailCall(c)
    BY <2>2 DEF FailCall, ErrorReply, About, Replied
  <2>3. CASE AnswerGetSettings(c)
    <3>1. /\ Send(SettingsReply(c.to, c, exported[c.path])) \/ Send(ErrorReply(c))
      BY <2>3 DEF AnswerGetSettings
    <3>2. \A p : ~About(ErrorReply(c), p)
      BY DEF ErrorReply, About, Replied
    <3>3. ASSUME NEW p, About(SettingsReply(c.to, c, exported[c.path]), p)
          PROVE  /\ Replied(SettingsReply(c.to, c, exported[c.path]), p)
                 /\ Says(SettingsReply(c.to, c, exported[c.path])) = exported[p]
      BY <3>3 DEF SettingsReply, About, Replied, Says
    <3> QED
      BY <3>1, <3>2, <3>3
  <2> QED
    BY <2>1, <2>2, <2>3
<1>3. m \in Message /\ inbox' = Append(inbox, m)
  <2>1. inbox' = Append(inbox, m) /\ inbox' \in Seq(Message) /\ inbox \in Seq(Message)
    BY <1>2, AnswerType DEF TypeOK, Send
  <2>2. inbox'[Len(inbox')] = m /\ Len(inbox') \in 1 .. Len(inbox')
    BY <2>1
  <2> QED
    BY <2>1, <2>2
<1> QED
  BY <1>1, <1>2, <1>3, LineSent DEF Told

LEMMA HandleKeepsTold ==
    ASSUME TypeOK, Told, Handle
    PROVE  Told'
<1> USE UserSettingsAssumption
<1> DEFINE m == Head(inbox)
<1>1. /\ inbox \in Seq(Message) /\ \A p \in Path : Line(inbox, p, known[p], exported[p])
      /\ inbox # <<>> /\ inbox' = Tail(inbox) /\ exported' = exported /\ m \in Message
  <2>1. inbox # <<>> /\ inbox' = Tail(inbox) /\ exported' = exported
    BY DEF Handle, HandleNameOwnerChanged, HandleListReply, HandleNewConnection,
       HandleSettingsReply, HandleErrorReply, HandleRemoved, HandleUpdated, Receive, busVars
  <2> QED
    BY <2>1 DEF TypeOK, Told
<1>2. CASE known' = [p \in Path |-> NoConnection]
  BY <1>1, <1>2, LineReceived DEF Told
<1>3. CASE known' = known /\ m.type \notin {"Updated", "Removed", "SettingsReply"} /\ ~Goodbye(m)
  <2>1. \A p : ~About(m, p)
    BY <1>3 DEF About, Replied
  <2> QED
    BY <1>1, <1>3, <2>1, LineReceived DEF Told
<1>4. CASE HandleNameOwnerChanged
  <2>1. \/ known' = [p \in Path |-> NoConnection]
        \/ known' = known /\ m.type = "NameOwnerChanged" /\ ~Goodbye(m)
    BY <1>4 DEF HandleNameOwnerChanged, Receive, UserProxyCleanup, Goodbye
  <2> QED
    BY <1>2, <1>3, <2>1
<1>5. CASE HandleListReply \/ HandleNewConnection \/ HandleErrorReply
  <2>1. known' = known /\ m.type \in {"ListReply", "NewConnection", "ErrorReply"}
    BY <1>5 DEF HandleListReply, HandleNewConnection, HandleErrorReply, Receive
  <2> QED
    BY <1>3, <2>1 DEF Goodbye
<1>6. ASSUME NEW p \in Path,
             \A r \in Path : r # p => known'[r] = known[r] /\ ~About(m, r),
             ~Goodbye(m),
             \/ known'[p] = NoConnection
             \/ /\ known'[p] = Says(m) /\ About(m, p)
                /\ known[p] # NoConnection \/ Replied(m, p)
      PROVE  Told'
  <2>1. ASSUME NEW r \in Path PROVE Line(Tail(inbox), r, known'[r], exported[r])
    <3>1. CASE r = p
      BY <1>1, <1>6, <3>1, LineReceived
    <3>2. CASE r # p
      BY <1>1, <1>6, <3>2, LineReceived
    <3> QED
      BY <3>1, <3>2
  <2> QED
    BY <1>1, <2>1 DEF Told
<1>7. CASE HandleSettingsReply
  <2> DEFINE p == m.call.path
  <2>1. m.type = "SettingsReply"
    BY <1>7 DEF HandleSettingsReply, Receive
  <2>2. p \in Path /\ m.settings \in Content
    BY <1>1, <2>1, MessageParts DEF GetCalls
  <2>3. /\ Replied(m, p) /\ About(m, p) /\ Says(m) = m.settings /\ ~Goodbye(m)
        /\ \A r \in Path : r # p => ~About(m, r)
    BY <2>1 DEF Replied, About, Says, Goodbye
  <2>4. known[p] \in {NoConnection, m.settings}
    BY <1>1, <2>2, <2>3, ReplyRepeats
  <2>5. known' = IF m.settings \in Valid /\ known[p] # m.settings
                 THEN [known EXCEPT ![p] = m.settings] ELSE known
    BY <1>7 DEF HandleSettingsReply
  <2> HIDE DEF p, m
  <2>6. \A r \in Path : r # p => known'[r] = known[r]
    BY <2>2, <2>5 DEF TypeOK
  <2>7. known'[p] \in {NoConnection, m.settings}
    BY <2>2, <2>4, <2>5 DEF TypeOK
  <2> QED
    BY <1>6, <2>2, <2>3, <2>6, <2>7
<1>8. CASE HandleRemoved \/ HandleUpdated
  <2> DEFINE p == m.path
  <2>1. m.type \in {"Updated", "Removed"}
    BY <1>8 DEF HandleRemoved, HandleUpdated, Receive
  <2>2. p \in Path
    BY <1>1, <2>1, MessageParts
  <2>3. /\ About(m, p) /\ ~Goodbye(m) /\ \A r \in Path : r # p => ~About(m, r)
        /\ m.type = "Updated" => Says(m) = m.settings
    BY <2>1 DEF Replied, About, Says, Goodbye
  <2>4. \/ known' = [known EXCEPT ![p] = NoConnection]
        \/ known' = known /\ p \notin Known
        \/ m.type = "Updated" /\ known' = [known EXCEPT ![p] = m.settings] /\ p \in Known
    <3>1. CASE HandleRemoved
      BY <3>1 DEF HandleRemoved, RemoveConnection
    <3>2. CASE HandleUpdated
      BY <3>2 DEF HandleUpdated, RemoveConnection, Receive
    <3> QED
      BY <1>8, <3>1, <3>2
  <2> HIDE DEF p, m
  <2>5. \A r \in Path : r # p => known'[r] = known[r]
    BY <2>2, <2>4 DEF TypeOK
  <2>6. known'[p] = NoConnection \/ (known'[p] = Says(m) /\ known[p] # NoConnection)
    BY <2>2, <2>3, <2>4 DEF TypeOK, Known
  <2> QED
    BY <1>6, <2>2, <2>3, <2>5, <2>6
<1> QED
  BY <1>4, <1>5, <1>7, <1>8 DEF Handle

LEMMA PolkitKeepsTold ==
    ASSUME TypeOK, Told, Polkit
    PROVE  Told'
<1> PICK ch \in chains, p \in Permissions, a \in Answers : PolkitAnswers(ch, p, a)
  BY DEF Polkit
<1>1. UNCHANGED <<inbox, exported>> /\ inbox \in Seq(Message)
  BY DEF TypeOK, PolkitAnswers, busVars
<1>2. known' = known \/ known' = [q \in Path |-> NoConnection]
  BY DEF PolkitAnswers, UserProxyAuthDone, UserProxyCleanup
<1> QED
  BY <1>1, <1>2, LineDropped DEF Told

FreshWhenQuiet == inbox = <<>> => \A p \in Known : known[p] = exported[p]

LEMMA ToldHolds == Spec => [](ExitInv /\ CounterInv /\ Told)
<1>1. Init => Told
  BY DEF Init, Told, Line, Heeded
<1>2. TypeOK /\ ExitInv /\ CounterInv /\ Told /\ [Next]_vars => Told'
  <2> SUFFICES ASSUME TypeOK, ExitInv, CounterInv, Told, [Next]_vars PROVE Told'
    OBVIOUS
  <2>1. CASE UNCHANGED vars \/ Start
    BY <2>1 DEF vars, Start, busVars, Told
  <2> QED
    BY <2>1, ServiceKeepsTold, AnswerKeepsTold, HandleKeepsTold, PolkitKeepsTold
       DEF Next, CounterInv
<1> QED
  BY <1>1, <1>2, ExitInvHolds, CounterInvHolds, TypeCorrect, PTL DEF Spec

LEMMA FreshWhenTold == Told => FreshWhenQuiet
<1> SUFFICES ASSUME Told, inbox = <<>>, NEW p \in Known PROVE known[p] = exported[p]
  BY DEF FreshWhenQuiet
<1>1. p \in Path /\ known[p] # NoConnection /\ Len(inbox) = 0
  BY DEF Known
<1>2. Heeded(inbox, p, known[p], Len(inbox))
  BY <1>1 DEF Heeded, Ended
<1>3. Said(inbox, p, known[p], Len(inbox), exported[p])
  BY <1>1, <1>2 DEF Told, Line
<1> QED
  BY <1>1, <1>3 DEF Said

(* What the manager holds when no message is left, it holds in its present  *)
(* settings, however often services restarted, were refused or failed to    *)
(* answer: no Updated or Removed signal was overtaken by an older reply.    *)
THEOREM NothingStale == Spec => []FreshWhenQuiet
  BY FreshWhenTold, ToldHolds, PTL

-----------------------------------------------------------------------------
(* The manager holds everything it should.                                 *)
(*                                                                         *)
(* With a live owner whose chain said yes there is a proxy of that owner,  *)
(* and each connection exported is known, was found invalid, or something  *)
(* in flight will bring it: an unanswered call, a reply or a signal.       *)

Hello(m) == m.type = "NameOwnerChanged" /\ ~Goodbye(m)

Gone == Ended(inbox, 1, Len(inbox))

(* The word of an end comes before the word of the next beginning. *)
HelloAfter ==
    owner # NoService =>
        \A i \in 1 .. Len(inbox) :
            Goodbye(inbox[i]) => \E j \in (i + 1) .. Len(inbox) : Hello(inbox[j])

NothingExported == owner = NoService => \A p \in Path : exported[p] = NoConnection

(* A path said to be removed is used up, or belongs to a service that ended. *)
RemovedDeleted ==
    \A i \in 1 .. Len(inbox) :
        inbox[i].type = "Removed" =>
            exported[inbox[i].path] = Deleted \/ Ended(inbox, i, Len(inbox))

BusInv == HelloAfter /\ NothingExported /\ RemovedDeleted

(* The queue after a message is sent, and after one is received. *)
LEMMA Appended ==
    ASSUME NEW m \in Message, inbox \in Seq(Message), inbox' = Append(inbox, m)
    PROVE  /\ Len(inbox) \in Nat /\ Len(inbox') = Len(inbox) + 1 /\ inbox'[Len(inbox) + 1] = m
           /\ \A i \in 1 .. Len(inbox) : inbox'[i] = inbox[i]
           /\ \A i \in 1 .. Len(inbox') : i \in 1 .. Len(inbox) \/ i = Len(inbox) + 1
  OBVIOUS

LEMMA Taken ==
    ASSUME inbox \in Seq(Message), inbox # <<>>, inbox' = Tail(inbox)
    PROVE  /\ Len(inbox) \in Nat \ {0} /\ Len(inbox') = Len(inbox) - 1 /\ Head(inbox) = inbox[1]
           /\ \A i \in 1 .. Len(inbox') : inbox'[i] = inbox[i + 1] /\ i + 1 \in 2 .. Len(inbox)
           /\ \A i \in 2 .. Len(inbox) : i - 1 \in 1 .. Len(inbox') /\ inbox'[i - 1] = inbox[i]
           /\ \A i \in 1 .. Len(inbox) : i = 1 \/ i \in 2 .. Len(inbox)
  OBVIOUS

LEMMA GoneSent ==
    ASSUME NEW m \in Message, inbox \in Seq(Message), inbox' = Append(inbox, m)
    PROVE  Gone' <=> Gone \/ Goodbye(m)
<1>1. (Gone \/ Goodbye(m)) => Gone'
  BY Appended DEF Gone, Ended, Goodbye
<1>2. Gone' => Gone \/ Goodbye(m)
  BY Appended DEF Gone, Ended, Goodbye
<1> QED
  BY <1>1, <1>2

LEMMA GoneTaken ==
    ASSUME inbox \in Seq(Message), inbox # <<>>, inbox' = Tail(inbox)
    PROVE  Gone <=> Gone' \/ Goodbye(Head(inbox))
<1>1. Gone' \/ Goodbye(Head(inbox)) => Gone
  <2>1. CASE Goodbye(Head(inbox))
    <3>1. 1 \in 1 .. Len(inbox) /\ Goodbye(inbox[1])
      BY <2>1, Taken
    <3> QED
      BY <3>1 DEF Gone, Ended
  <2>2. ASSUME NEW i \in 1 .. Len(inbox'), Goodbye(inbox'[i]) PROVE Gone
    <3>1. i + 1 \in 1 .. Len(inbox) /\ Goodbye(inbox[i + 1])
      BY <2>2, Taken DEF Goodbye
    <3> QED
      BY <3>1 DEF Gone, Ended
  <2>3. Gone' => \E i \in 1 .. Len(inbox') : Goodbye(inbox'[i])
    BY DEF Gone, Ended, Goodbye
  <2> QED
    BY <2>1, <2>2, <2>3
<1>2. ASSUME NEW i \in 1 .. Len(inbox), Goodbye(inbox[i]), ~Goodbye(Head(inbox)) PROVE Gone'
  <2>1. i - 1 \in 1 .. Len(inbox') /\ Goodbye(inbox'[i - 1])
    BY <1>2, Taken DEF Goodbye
  <2> QED
    BY <2>1 DEF Gone, Ended, Goodbye
<1> QED
  BY <1>1, <1>2 DEF Gone, Ended

(* What a step of a service or of a peer sends. *)
LEMMA Sent ==
    ASSUME TypeOK, ServiceActs \/ Answer
    PROVE  /\ UNCHANGED managerVars
           /\ \/ \E s \in Service : ServiceStarts(s)
              \/ \E s \in Service : ServiceExits(s)
              \/ /\ UNCHANGED <<owner, exited>>
                 /\ owner # NoService \/ exported' = exported
                 /\ \E m \in Message : /\ m.type # "NameOwnerChanged"
                                       /\ inbox' = Append(inbox, m) \/ inbox' = inbox
<1>1. CASE Answer
  <2> PICK c \in calls : AnswerList(c) \/ AnswerGetSettings(c) \/ FailCall(c)
    BY <1>1 DEF Answer
  <2>1. UNCHANGED busVars /\ UNCHANGED managerVars
    BY DEF AnswerList, AnswerGetSettings, FailCall
  <2>2. PICK m : Send(m) /\ m.type # "NameOwnerChanged"
    BY DEF AnswerList, AnswerGetSettings, FailCall, ListReply, SettingsReply, ErrorReply
  <2>3. inbox' = Append(inbox, m) /\ inbox' \in Seq(Message) /\ inbox \in Seq(Message)
    BY <1>1, <2>2, AnswerType DEF TypeOK, Send
  <2>4. inbox'[Len(inbox')] = m /\ Len(inbox') \in 1 .. Len(inbox')
    BY <2>3
  <2> QED
    BY <2>1, <2>2, <2>3, <2>4 DEF busVars
<1>2. CASE ServiceActs
  <2> PICK s \in Service :
      \/ ServiceStarts(s)
      \/ ServiceExits(s)
      \/ \E p \in Path :
            \/ DeleteConnection(s, p)
            \/ \E c \in Content : ExportConnection(s, p, c) \/ UpdateConnection(s, p, c)
    BY <1>2 DEF ServiceActs
  <2>1. UNCHANGED managerVars
    BY DEF ServiceStarts, ServiceExits, DeleteConnection, ExportConnection, UpdateConnection
  <2>2. /\ \A p \in Path : Removed(s, p) \in Message /\ Removed(s, p).type # "NameOwnerChanged"
        /\ \A p \in Path :
              NewConnection(s, p) \in Message /\ NewConnection(s, p).type # "NameOwnerChanged"
        /\ \A p \in Path, c \in Content :
              Updated(s, p, c) \in Message /\ Updated(s, p, c).type # "NameOwnerChanged"
    BY DEF Message, NewConnection, Removed, Updated
  <2>3. s # NoService
    BY UserSettingsAssumption
  <2>4. ASSUME NEW p \in Path, DeleteConnection(s, p)
        PROVE  /\ UNCHANGED <<owner, exited>> /\ owner = s
               /\ inbox' = Append(inbox, Removed(s, p)) \/ inbox' = inbox
    BY <2>4, Zenon DEF DeleteConnection, SendIf, Send
  <2>5. ASSUME NEW p \in Path, NEW c \in Content, ExportConnection(s, p, c)
        PROVE  /\ UNCHANGED <<owner, exited>> /\ owner = s
               /\ inbox' = Append(inbox, NewConnection(s, p)) \/ inbox' = inbox
    BY <2>5, Zenon DEF ExportConnection, SendIf, Send
  <2>6. ASSUME NEW p \in Path, NEW c \in Content, UpdateConnection(s, p, c)
        PROVE  /\ UNCHANGED <<owner, exited>> /\ owner = s
               /\ inbox' = Append(inbox, Updated(s, p, c)) \/ inbox' = inbox
    BY <2>6, Zenon DEF UpdateConnection, SendIf, Send
  <2> QED
    BY <2>1, <2>2, <2>3, <2>4, <2>5, <2>6, Zenon
<1> QED
  BY <1>1, <1>2

(* Handlers take the head and leave the bus; the rest leaves both alone. *)
LEMMA HandleTakes ==
    ASSUME TypeOK, Handle
    PROVE  /\ inbox \in Seq(Message) /\ inbox # <<>> /\ inbox' = Tail(inbox)
           /\ Head(inbox) \in Message
           /\ UNCHANGED <<owner, exited, exported, started>>
<1>1. inbox # <<>> /\ inbox' = Tail(inbox) /\ UNCHANGED <<owner, exited, exported, started>>
  BY DEF Handle, HandleNameOwnerChanged, HandleListReply, HandleNewConnection,
     HandleSettingsReply, HandleErrorReply, HandleRemoved, HandleUpdated, Receive, busVars
<1> QED
  BY <1>1 DEF TypeOK

LEMMA SendKeepsBus ==
    ASSUME TypeOK, BusInv, ServiceActs \/ Answer
    PROVE  HelloAfter' /\ NothingExported'
<1>1. inbox \in Seq(Message)
  BY DEF TypeOK
<1>2. ASSUME NEW s \in Service, ServiceStarts(s) PROVE HelloAfter' /\ NothingExported'
  <2> DEFINE m == NameOwnerChanged(NoService, s)
  <2>1. m \in Message /\ Hello(m)
    BY UserSettingsAssumption DEF Message, NameOwnerChanged, Owners, Hello, Goodbye
  <2>2. inbox' = Append(inbox, m) /\ owner' # NoService
    BY <1>2, UserSettingsAssumption DEF ServiceStarts, Send
  <2> HIDE DEF m
  <2>3. HelloAfter'
    <3>1. ASSUME NEW i \in 1 .. Len(inbox'), Goodbye(inbox'[i])
          PROVE  \E j \in (i + 1) .. Len(inbox') : Hello(inbox'[j])
      <4>1. i \in 1 .. Len(inbox)
        BY <1>1, <2>1, <2>2, <3>1, Appended DEF Hello
      <4>2. Len(inbox') \in (i + 1) .. Len(inbox') /\ Hello(inbox'[Len(inbox')])
        BY <1>1, <2>1, <2>2, <4>1, Appended
      <4> QED
        BY <4>2
    <3> QED
      BY <3>1 DEF HelloAfter, Hello, Goodbye
  <2> QED
    BY <2>2, <2>3 DEF NothingExported
<1>3. ASSUME NEW s \in Service, ServiceExits(s) PROVE HelloAfter' /\ NothingExported'
  BY <1>3 DEF ServiceExits, HelloAfter, NothingExported
<1>4. ASSUME owner' = owner, owner # NoService \/ exported' = exported,
             NEW m \in Message, m.type # "NameOwnerChanged",
             inbox' = Append(inbox, m) \/ inbox' = inbox
      PROVE  HelloAfter' /\ NothingExported'
  <2>1. CASE inbox' = inbox
    BY <1>4, <2>1 DEF BusInv, HelloAfter, NothingExported, Hello, Goodbye
  <2>2. CASE inbox' = Append(inbox, m)
    <3>1. ASSUME NEW i \in 1 .. Len(inbox'), Goodbye(inbox'[i]), owner # NoService
          PROVE  \E j \in (i + 1) .. Len(inbox') : Hello(inbox'[j])
      <4>1. i \in 1 .. Len(inbox) /\ Goodbye(inbox[i])
        BY <1>1, <1>4, <2>2, <3>1, Appended DEF Goodbye
      <4>2. PICK j \in (i + 1) .. Len(inbox) : Hello(inbox[j])
        BY <3>1, <4>1 DEF BusInv, HelloAfter
      <4>3. j \in (i + 1) .. Len(inbox') /\ j \in 1 .. Len(inbox)
        BY <1>1, <2>2, <4>1, Appended
      <4> QED
        BY <1>1, <2>2, <4>2, <4>3, Appended DEF Hello
    <3> QED
      BY <1>4, <3>1 DEF BusInv, HelloAfter, NothingExported, Hello, Goodbye
  <2> QED
    BY <1>4, <2>1, <2>2
<1> QED
  BY <1>2, <1>3, <1>4, Sent

(* RemovedDeleted when a message is appended, sent or not. *)
LEMMA SendKeepsRemoved ==
    ASSUME TypeOK, NothingExported, RemovedDeleted, ServiceActs \/ Answer
    PROVE  RemovedDeleted'
<1> USE UserSettingsAssumption
<1>1. inbox \in Seq(Message)
  BY DEF TypeOK
<1>2. ASSUME NEW m \in Message, inbox' = Append(inbox, m),
             m.type = "Removed" => exported'[m.path] = Deleted,
             \A p \in Path : exported[p] = Deleted => Goodbye(m) \/ exported'[p] = Deleted
      PROVE  RemovedDeleted'
  <2>1. ASSUME NEW i \in 1 .. Len(inbox'), inbox'[i].type = "Removed"
        PROVE  exported'[inbox'[i].path] = Deleted \/ Ended(inbox', i, Len(inbox'))
    <3>1. CASE i = Len(inbox) + 1
      BY <1>1, <1>2, <2>1, <3>1, Appended
    <3>2. CASE i \in 1 .. Len(inbox)
      <4>1. inbox'[i] = inbox[i] /\ inbox[i].path \in Path
        BY <1>1, <1>2, <2>1, <3>2, Appended, MessageParts
      <4>2. Ended(inbox, i, Len(inbox)) => Ended(inbox', i, Len(inbox'))
        BY <1>1, <1>2, <3>2, Appended DEF Ended
      <4>3. Goodbye(m) => Ended(inbox', i, Len(inbox'))
        <5>1. Len(inbox') \in i .. Len(inbox') /\ inbox'[Len(inbox')] = m
          BY <1>1, <1>2, <3>2, Appended
        <5> QED
          BY <5>1 DEF Ended
      <4> QED
        BY <1>2, <2>1, <3>2, <4>1, <4>2, <4>3 DEF RemovedDeleted
    <3> QED
      BY <1>1, <1>2, <2>1, <3>1, <3>2, Appended
  <2> QED
    BY <2>1 DEF RemovedDeleted, Ended, Goodbye
<1>3. ASSUME inbox' = inbox, \A p \in Path : exported[p] = Deleted => exported'[p] = Deleted
      PROVE  RemovedDeleted'
  <2>1. \A i \in 1 .. Len(inbox) : inbox[i].type = "Removed" => inbox[i].path \in Path
    BY <1>1, MessageParts
  <2> QED
    BY <1>3, <2>1 DEF RemovedDeleted, Ended, Goodbye
<1>4. CASE Answer
  <2> PICK c \in calls : AnswerList(c) \/ AnswerGetSettings(c) \/ FailCall(c)
    BY <1>4 DEF Answer
  <2>1. exported' = exported
    BY DEF AnswerList, AnswerGetSettings, FailCall, busVars
  <2>2. PICK m : Send(m) /\ m.type # "Removed"
    BY DEF AnswerList, AnswerGetSettings, FailCall, ListReply, SettingsReply, ErrorReply
  <2>3. inbox' = Append(inbox, m) /\ inbox' \in Seq(Message) /\ inbox \in Seq(Message)
    BY <1>4, <2>2, AnswerType DEF TypeOK, Send
  <2>4. inbox'[Len(inbox')] = m /\ Len(inbox') \in 1 .. Len(inbox')
    BY <2>3
  <2> QED
    BY <1>2, <2>1, <2>2, <2>3, <2>4
<1>5. CASE ServiceActs
  <2> PICK s \in Service :
      \/ ServiceStarts(s)
      \/ ServiceExits(s)
      \/ \E p \in Path :
            \/ DeleteConnection(s, p)
            \/ \E c \in Content : ExportConnection(s, p, c) \/ UpdateConnection(s, p, c)
    BY <1>5 DEF ServiceActs
  <2>1. CASE ServiceStarts(s)
    <3> DEFINE m == NameOwnerChanged(NoService, s)
    <3>1. m \in Message /\ m.type # "Removed"
      BY DEF Message, NameOwnerChanged, Owners
    <3>2. inbox' = Append(inbox, m) /\ owner = NoService
      BY <2>1 DEF ServiceStarts, Send
    <3> HIDE DEF m
    <3> QED
      BY <1>2, <3>1, <3>2 DEF NothingExported
  <2>2. CASE ServiceExits(s)
    <3> DEFINE m == NameOwnerChanged(s, NoService)
    <3>1. m \in Message /\ m.type # "Removed" /\ Goodbye(m)
      BY DEF Message, NameOwnerChanged, Owners, Goodbye
    <3>2. inbox' = Append(inbox, m)
      BY <2>2 DEF ServiceExits, Send
    <3> HIDE DEF m
    <3> QED
      BY <1>2, <3>1, <3>2
  <2>3. ASSUME NEW p \in Path, DeleteConnection(s, p) PROVE RemovedDeleted'
    <3> DEFINE m == Removed(s, p)
    <3>1. m \in Message /\ m.path = p
      BY DEF Message, Removed
    <3>2. inbox' = Append(inbox, m) \/ inbox' = inbox
      BY <2>3 DEF DeleteConnection, SendIf, Send
    <3> HIDE DEF m
    <3>3. exported'[p] = Deleted /\ \A r \in Path : exported[r] = Deleted => exported'[r] = Deleted
      BY <2>3 DEF TypeOK, DeleteConnection
    <3> QED
      BY <1>2, <1>3, <3>1, <3>2, <3>3
  <2>4. ASSUME NEW p \in Path, NEW c \in Content,
               ExportConnection(s, p, c) \/ UpdateConnection(s, p, c)
        PROVE  RemovedDeleted'
    <3>1. PICK m \in Message : m.type # "Removed" /\ (inbox' = Append(inbox, m) \/ inbox' = inbox)
      <4>1. /\ NewConnection(s, p) \in Message /\ NewConnection(s, p).type # "Removed"
            /\ Updated(s, p, c) \in Message /\ Updated(s, p, c).type # "Removed"
        BY DEF Message, NewConnection, Updated
      <4> QED
        BY <2>4, <4>1, Zenon DEF ExportConnection, UpdateConnection, SendIf, Send
    <3>2. exported[p] # Deleted /\ exported' = [exported EXCEPT ![p] = c]
      BY <2>4 DEF ExportConnection, UpdateConnection
    <3>3. \A r \in Path : exported[r] = Deleted => exported'[r] = Deleted
      BY <3>2 DEF TypeOK
    <3> QED
      BY <1>2, <1>3, <3>1, <3>3
  <2> QED
    BY <2>1, <2>2, <2>3, <2>4
<1> QED
  BY <1>4, <1>5

LEMMA HandleKeepsBus ==
    ASSUME TypeOK, BusInv, Handle
    PROVE  BusInv'
<1>1. /\ inbox \in Seq(Message) /\ inbox # <<>> /\ inbox' = Tail(inbox)
      /\ UNCHANGED <<owner, exported>>
  BY HandleTakes
<1>2. ASSUME NEW i \in 1 .. Len(inbox'), Goodbye(inbox'[i]), owner # NoService
      PROVE  \E j \in (i + 1) .. Len(inbox') : Hello(inbox'[j])
  <2>1. i + 1 \in 1 .. Len(inbox) /\ Goodbye(inbox[i + 1])
    BY <1>1, <1>2, Taken
  <2>2. PICK j \in (i + 1 + 1) .. Len(inbox) : Hello(inbox[j])
    BY <1>2, <2>1 DEF BusInv, HelloAfter
  <2>3. j - 1 \in (i + 1) .. Len(inbox') /\ inbox'[j - 1] = inbox[j]
    BY <1>1, <2>1, <2>2, Taken
  <2> QED
    BY <2>2, <2>3
<1>3. ASSUME NEW i \in 1 .. Len(inbox'), inbox'[i].type = "Removed"
      PROVE  exported[inbox'[i].path] = Deleted \/ Ended(inbox', i, Len(inbox'))
  <2>1. i + 1 \in 1 .. Len(inbox) /\ inbox'[i] = inbox[i + 1]
    BY <1>1, <1>3, Taken
  <2>2. CASE Ended(inbox, i + 1, Len(inbox))
    <3>1. PICK j \in (i + 1) .. Len(inbox) : Goodbye(inbox[j])
      BY <2>2 DEF Ended
    <3>2. j - 1 \in i .. Len(inbox') /\ inbox'[j - 1] = inbox[j]
      BY <1>1, <2>1, <3>1, Taken
    <3> QED
      BY <3>1, <3>2 DEF Ended
  <2> QED
    BY <1>3, <2>1, <2>2 DEF BusInv, RemovedDeleted
<1> QED
  BY <1>1, <1>2, <1>3 DEF BusInv, HelloAfter, NothingExported, RemovedDeleted, Hello, Goodbye, Ended

LEMMA BusInvHolds == Spec => []BusInv
<1>1. Init => BusInv
  BY DEF Init, BusInv, HelloAfter, NothingExported, RemovedDeleted
<1>2. TypeOK /\ BusInv /\ [Next]_vars => BusInv'
  <2> SUFFICES ASSUME TypeOK, BusInv, [Next]_vars PROVE BusInv'
    OBVIOUS
  <2>1. CASE UNCHANGED <<owner, exported, inbox>>
    BY <2>1 DEF BusInv, HelloAfter, NothingExported, RemovedDeleted, Hello, Goodbye, Ended
  <2>2. CASE ServiceActs \/ Answer
    BY <2>2, SendKeepsBus, SendKeepsRemoved DEF BusInv
  <2>3. Polkit \/ Start \/ UNCHANGED vars => UNCHANGED <<owner, exported, inbox>>
    BY DEF Polkit, PolkitAnswers, Start, busVars, vars
  <2> QED
    BY <2>1, <2>2, <2>3, HandleKeepsBus DEF Next
<1> QED
  BY <1>1, <1>2, TypeCorrect, PTL DEF Spec

(* The proxy is one of the present owner, unless word of an end is queued,  *)
(* and one that is not wired yet has a chain to wire it.                    *)
ProxyOfOwner ==
    /\ proxy # NoProxy => /\ started /\ proxy.service # NoService
                          /\ proxy.service = owner \/ Gone
    /\ proxy # NoProxy /\ proxy.wired = 0 => \E ch \in chains : ch.chain.owner = proxy.service

(* A new chain asks about the owner. *)
LEMMA NewChainOwner ==
    ASSUME ChainStarted
    PROVE  /\ chains \subseteq chains'
           /\ \E ch \in chains' : ch.chain.owner = owner
           /\ \A ch \in chains' : ch \in chains \/ ch.chain.owner = owner
<1>1. NewChain(owner, Permissions).owner = owner
  BY DEF NewChain, EmptyChain, AddCalls
<1>2. PICK id : chains' = chains \union {[id |-> id, chain |-> NewChain(owner, Permissions)]}
  BY DEF ChainStarted
<1> DEFINE new == [id |-> id, chain |-> NewChain(owner, Permissions)]
<1>3. chains' = chains \union {new} /\ new.chain.owner = owner
  BY <1>1, <1>2
<1> HIDE DEF new
<1> QED
  BY <1>3

LEMMA ProxyInitKeepsProxy ==
    ASSUME ProxyOfOwner, UserProxyInit, started', owner' = owner, Gone => Gone'
    PROVE  ProxyOfOwner'
<1>1. CASE UNCHANGED <<proxy, chains>>
  BY <1>1 DEF ProxyOfOwner, Gone, Ended
<1>2. CASE owner # NoService /\ proxy' = [service |-> owner, wired |-> 0] /\ ChainStarted
  BY <1>2, NewChainOwner DEF ProxyOfOwner, Gone, Ended
<1> QED
  BY <1>1, <1>2 DEF UserProxyInit, NameHasOwner

LEMMA HandleKeepsProxy ==
    ASSUME TypeOK, ProxyOfOwner, Handle
    PROVE  ProxyOfOwner'
<1>1. UNCHANGED <<owner, started>> /\ (Gone <=> Gone' \/ Goodbye(Head(inbox)))
  BY HandleTakes, GoneTaken
<1>2. CASE HandleNameOwnerChanged
  <2>1. Head(inbox).type = "NameOwnerChanged" /\ started
    BY <1>2 DEF HandleNameOwnerChanged, Receive
  <2>2. CASE UserProxyCleanup
    BY <2>2 DEF UserProxyCleanup, ProxyOfOwner
  <2>3. CASE UserProxyInit /\ ~Goodbye(Head(inbox))
    BY <1>1, <2>1, <2>3, ProxyInitKeepsProxy
  <2> QED
    BY <1>2, <2>2, <2>3 DEF HandleNameOwnerChanged, Goodbye
<1>3. CASE UNCHANGED <<proxy, chains>> /\ ~Goodbye(Head(inbox))
  BY <1>1, <1>3 DEF ProxyOfOwner, Gone, Ended
<1>4. Handle /\ ~HandleNameOwnerChanged =>
          UNCHANGED <<proxy, chains>> /\ ~Goodbye(Head(inbox))
  BY DEF Handle, HandleListReply, HandleNewConnection, HandleSettingsReply, HandleErrorReply,
     HandleRemoved, HandleUpdated, Receive, Goodbye
<1> QED
  BY <1>2, <1>3, <1>4

(* An answer of PolicyKit keeps a chain's owner. *)
LEMMA AnsweredOwner ==
    ASSUME NEW ch \in ChainOf(Service, Permissions), NEW p \in Permissions, NEW a \in Answers
    PROVE  CallAnswered(ch, p, a).owner = ch.owner
  BY DEF ChainOf, CallAnswered, SetData

(* What an answer of PolicyKit does to proxy and chains: it leaves the      *)
(* chain's end open, or the chain ends and wires the proxy, finds no proxy  *)
(* or takes it away.                                                        *)
LEMMA PolkitOutcome ==
    ASSUME TypeOK, Polkit
    PROVE  /\ UNCHANGED <<owner, exited, exported, inbox, started>>
           /\ \A ch \in chains' : \E old \in chains : ch.chain.owner = old.chain.owner
           /\ \/ /\ \A ch \in chains : \E new \in chains' : new.chain.owner = ch.chain.owner
                 /\ UNCHANGED <<proxy, calls, known, granted, rejected>>
              \/ \E ch \in chains :
                    /\ chains' = chains \ {ch}
                    /\ \/ /\ proxy # NoProxy /\ proxy' = [proxy EXCEPT !.wired = @ + 1]
                          /\ granted' = granted \union {ch.chain.owner}
                          /\ \E T \in FreshTokens(1) : calls' = calls \union
                                {Call(t, proxy.service, "list", NoConnection, FALSE) : t \in T}
                          /\ UNCHANGED <<known, rejected>>
                       \/ /\ proxy = NoProxy /\ granted' = granted \union {ch.chain.owner}
                          /\ UNCHANGED <<proxy, calls, known, rejected>>
                       \/ granted' = granted /\ proxy' = NoProxy
<1> PICK ch \in chains, p \in Permissions, a \in Answers : PolkitAnswers(ch, p, a)
  BY DEF Polkit
<1> DEFINE chain == CallAnswered(ch.chain, p, a)
<1>1. UNCHANGED <<owner, exited, exported, inbox, started>>
  BY DEF PolkitAnswers, busVars
<1>2. chain.owner = ch.chain.owner /\ ch \in [id: ChainId, chain: ChainOf(Service, Permissions)]
  BY AnsweredOwner DEF TypeOK
<1>3. CASE ~ChainDone(chain)
  <2> DEFINE new == [ch EXCEPT !.chain = chain]
  <2>1. chains' = (chains \ {ch}) \union {new} /\ UNCHANGED <<proxy, calls, known, granted, rejected>>
    BY <1>3 DEF PolkitAnswers
  <2>2. new.chain.owner = ch.chain.owner
    BY <1>2
  <2> HIDE DEF new
  <2> QED
    BY <1>1, <2>1, <2>2
<1>4. CASE ChainDone(chain)
  <2>1. chains' = chains \ {ch} /\ UserProxyAuthDone(chain)
    BY <1>4 DEF PolkitAnswers
  <2> HIDE DEF chain
  <2>2. \/ /\ proxy # NoProxy /\ proxy' = [proxy EXCEPT !.wired = @ + 1]
           /\ granted' = granted \union {chain.owner}
           /\ \E T \in FreshTokens(1) : calls' = calls \union
                 {Call(t, proxy.service, "list", NoConnection, FALSE) : t \in T}
           /\ UNCHANGED <<known, rejected>>
        \/ /\ proxy = NoProxy /\ granted' = granted \union {chain.owner}
           /\ UNCHANGED <<proxy, calls, known, rejected>>
        \/ granted' = granted /\ proxy' = NoProxy
    BY <2>1 DEF UserProxyAuthDone, UserProxyCleanup
  <2> QED
    BY <1>1, <1>2, <2>1, <2>2
<1> QED
  BY <1>3, <1>4

LEMMA PolkitKeepsProxy ==
    ASSUME TypeOK, ProxyOfOwner, Polkit
    PROVE  ProxyOfOwner'
<1>1. UNCHANGED <<owner, inbox, started>> /\ (Gone' <=> Gone)
  BY PolkitOutcome DEF Gone, Ended, Goodbye
<1>2. proxy \in [service: Owners, wired: Nat]
  BY DEF TypeOK
<1>3. CASE UNCHANGED proxy /\ \A ch \in chains : \E new \in chains' : new.chain.owner = ch.chain.owner
  BY <1>1, <1>3 DEF ProxyOfOwner
<1>4. CASE proxy # NoProxy /\ proxy' = [proxy EXCEPT !.wired = @ + 1]
  <2>1. proxy'.service = proxy.service /\ proxy'.wired # 0
    BY <1>2, <1>4
  <2> QED
    BY <1>1, <1>4, <2>1 DEF ProxyOfOwner
<1>5. CASE proxy' = NoProxy
  BY <1>5 DEF ProxyOfOwner
<1> QED
  BY <1>3, <1>4, <1>5, PolkitOutcome

LEMMA ProxyOfOwnerHolds == Spec => []ProxyOfOwner
<1>1. Init => ProxyOfOwner
  BY DEF Init, ProxyOfOwner
<1>2. TypeOK /\ ProxyOfOwner /\ [Next]_vars => ProxyOfOwner'
  <2> SUFFICES ASSUME TypeOK, ProxyOfOwner, [Next]_vars PROVE ProxyOfOwner'
    OBVIOUS
  <2> USE UserSettingsAssumption
  <2>1. CASE UNCHANGED vars
    BY <2>1 DEF vars, ProxyOfOwner, Gone, Ended, Goodbye
  <2>2. CASE Start
    <3>1. UserProxyInit /\ started' /\ owner' = owner /\ (Gone => Gone')
      BY <2>2 DEF Start, busVars, Gone, Ended, Goodbye
    <3> QED
      BY <3>1, ProxyInitKeepsProxy
  <2>3. CASE ServiceActs \/ Answer
    <3>1. inbox \in Seq(Message) /\ UNCHANGED <<started, proxy, chains>>
      BY <2>3, Sent DEF TypeOK, managerVars
    <3>2. ASSUME NEW s \in Service, ServiceStarts(s) PROVE owner = NoService /\ (Gone => Gone')
      <4>1. NameOwnerChanged(NoService, s) \in Message
        BY DEF Message, NameOwnerChanged, Owners
      <4> QED
        BY <3>1, <3>2, <4>1, GoneSent DEF ServiceStarts, Send
    <3>3. ASSUME NEW s \in Service, ServiceExits(s) PROVE Gone'
      <4>1. NameOwnerChanged(s, NoService) \in Message /\ Goodbye(NameOwnerChanged(s, NoService))
        BY DEF Message, NameOwnerChanged, Owners, Goodbye
      <4> QED
        BY <3>1, <3>3, <4>1, GoneSent DEF ServiceExits, Send
    <3>4. ASSUME NEW m \in Message, inbox' = Append(inbox, m) \/ inbox' = inbox
          PROVE  Gone => Gone'
      <4>1. CASE inbox' = inbox
        BY <4>1 DEF Gone, Ended, Goodbye
      <4> QED
        BY <3>1, <3>4, <4>1, GoneSent
    <3>5. \/ owner = NoService /\ (Gone => Gone')
          \/ Gone'
          \/ owner' = owner /\ (Gone => Gone')
      BY <2>3, <3>2, <3>3, <3>4, Sent
    <3> QED
      BY <3>1, <3>5 DEF ProxyOfOwner
  <2> QED
    BY <2>1, <2>2, <2>3, HandleKeepsProxy, PolkitKeepsProxy DEF Next
<1> QED
  BY <1>1, <1>2, TypeCorrect, PTL DEF Spec

(* A chain that fails takes away no proxy of an owner already granted, or   *)
(* still being asked about by another chain.                                *)
Undisputed ==
    proxy # NoProxy /\ proxy' = NoProxy /\ inbox' = inbox =>
        owner \notin granted' /\ \A ch \in chains' : ch.chain.owner # owner

(* An owner granted, or asked about, is without a proxy only as long as the *)
(* word of its start is queued.                                             *)
Standing ==
    /\ started /\ owner # NoService /\ ~Gone /\ proxy = NoProxy
    /\ owner \in granted \/ \E ch \in chains : ch.chain.owner = owner
    => \E i \in 1 .. Len(inbox) : Hello(inbox[i])

LEMMA ProxyInitKeepsStanding ==
    ASSUME UserProxyInit, owner' = owner
    PROVE  Standing'
<1>1. ~(owner # NoService /\ proxy' = NoProxy)
  <2>1. CASE proxy # NoProxy /\ proxy' = proxy
    BY <2>1
  <2>2. CASE owner # NoService /\ proxy' = [service |-> owner, wired |-> 0]
    <3>1. proxy'.service = owner
      BY <2>2
    <3>2. NoProxy.service = NoService
      BY DEF NoProxy
    <3> QED
      BY <2>2, <3>1, <3>2
  <2> QED
    BY <2>1, <2>2 DEF UserProxyInit, NameHasOwner
<1> QED
  BY <1>1 DEF Standing

LEMMA SendKeepsStanding ==
    ASSUME TypeOK, Standing, ServiceActs \/ Answer
    PROVE  Standing'
<1> USE UserSettingsAssumption
<1>1. inbox \in Seq(Message) /\ UNCHANGED <<started, proxy, chains, granted>>
  BY Sent DEF TypeOK, managerVars
<1>2. ASSUME NEW s \in Service, ServiceStarts(s) PROVE Standing'
  <2> DEFINE m == NameOwnerChanged(NoService, s)
  <2>1. m \in Message /\ Hello(m)
    BY DEF Message, NameOwnerChanged, Owners, Hello, Goodbye
  <2>2. inbox' = Append(inbox, m)
    BY <1>2 DEF ServiceStarts, Send
  <2> HIDE DEF m
  <2>3. Len(inbox') \in 1 .. Len(inbox') /\ Hello(inbox'[Len(inbox')])
    BY <1>1, <2>1, <2>2, Appended
  <2> QED
    BY <2>3 DEF Standing, Hello, Goodbye
<1>3. ASSUME NEW s \in Service, ServiceExits(s) PROVE Standing'
  BY <1>3 DEF ServiceExits, Standing
<1>4. ASSUME owner' = owner, NEW m \in Message, inbox' = Append(inbox, m) \/ inbox' = inbox
      PROVE  Standing'
  <2>1. Gone => Gone'
    <3>1. CASE inbox' = inbox
      BY <3>1 DEF Gone, Ended, Goodbye
    <3> QED
      BY <1>1, <1>4, <3>1, GoneSent
  <2>2. ASSUME NEW i \in 1 .. Len(inbox), Hello(inbox[i])
        PROVE  \E j \in 1 .. Len(inbox') : Hello(inbox'[j])
    <3>1. CASE inbox' = inbox
      BY <2>2, <3>1
    <3>2. CASE inbox' = Append(inbox, m)
      <4>1. i \in 1 .. Len(inbox') /\ inbox'[i] = inbox[i]
        BY <1>1, <2>2, <3>2, Appended
      <4> QED
        BY <2>2, <4>1
    <3> QED
      BY <1>4, <3>1, <3>2
  <2> QED
    BY <1>1, <1>4, <2>1, <2>2 DEF Standing, Hello, Goodbye
<1> QED
  BY <1>2, <1>3, <1>4, Sent

LEMMA HandleKeepsStanding ==
    ASSUME TypeOK, BusInv, Standing, Handle
    PROVE  Standing'
<1>1. /\ inbox \in Seq(Message) /\ inbox # <<>> /\ inbox' = Tail(inbox)
      /\ UNCHANGED <<owner, started>> /\ (Gone <=> Gone' \/ Goodbye(Head(inbox)))
  BY HandleTakes, GoneTaken
<1>2. ASSUME NEW i \in 2 .. Len(inbox), Hello(inbox[i])
      PROVE  \E j \in 1 .. Len(inbox') : Hello(inbox'[j])
  BY <1>1, <1>2, Taken
<1>3. CASE HandleNameOwnerChanged
  <2>1. CASE UserProxyInit
    BY <1>1, <2>1, ProxyInitKeepsStanding
  <2>2. CASE Goodbye(Head(inbox))
    <3>1. 1 \in 1 .. Len(inbox) /\ Goodbye(inbox[1])
      BY <1>1, <2>2, Taken
    <3>2. owner # NoService => \E j \in 2 .. Len(inbox) : Hello(inbox[j])
      BY <3>1 DEF BusInv, HelloAfter
    <3> QED
      BY <1>1, <1>2, <3>2 DEF Standing, Hello, Goodbye
  <2> QED
    BY <1>3, <2>1, <2>2 DEF HandleNameOwnerChanged, Receive, Goodbye
<1>4. CASE UNCHANGED <<proxy, chains, granted>> /\ Head(inbox).type # "NameOwnerChanged"
  <2>1. ~Goodbye(Head(inbox)) /\ ~Hello(inbox[1])
    BY <1>1, <1>4, Taken DEF Goodbye, Hello
  <2>2. ASSUME NEW i \in 1 .. Len(inbox), Hello(inbox[i]) PROVE i \in 2 .. Len(inbox)
    BY <1>1, <2>1, <2>2, Taken
  <2> QED
    BY <1>1, <1>2, <1>4, <2>1, <2>2 DEF Standing, Hello, Goodbye
<1>5. Handle /\ ~HandleNameOwnerChanged =>
          UNCHANGED <<proxy, chains, granted>> /\ Head(inbox).type # "NameOwnerChanged"
  BY DEF Handle, HandleListReply, HandleNewConnection, HandleSettingsReply, HandleErrorReply,
     HandleRemoved, HandleUpdated, Receive
<1> QED
  BY <1>3, <1>4, <1>5

LEMMA PolkitKeepsStanding ==
    ASSUME TypeOK, Standing, Undisputed, Polkit
    PROVE  Standing'
<1>1. /\ UNCHANGED <<owner, inbox, started>> /\ (Gone' <=> Gone)
      /\ \A ch \in chains' : \E old \in chains : ch.chain.owner = old.chain.owner
  BY PolkitOutcome DEF Gone, Ended, Goodbye
<1>2. proxy \in [service: Owners, wired: Nat]
  BY DEF TypeOK
<1>3. CASE UNCHANGED <<proxy, granted>>
  BY <1>1, <1>3 DEF Standing, Hello, Goodbye
<1>4. CASE proxy # NoProxy /\ proxy' = [proxy EXCEPT !.wired = @ + 1]
  <2>1. proxy'.wired # 0 /\ NoProxy.wired = 0
    BY <1>2, <1>4 DEF NoProxy
  <2> QED
    BY <2>1 DEF Standing
<1>5. CASE \E ch \in chains : proxy' = proxy /\ granted' = granted \union {ch.chain.owner}
  BY <1>1, <1>5 DEF Standing, Hello, Goodbye
<1>6. CASE granted' = granted /\ proxy' = NoProxy /\ proxy # NoProxy
  BY <1>1, <1>6 DEF Standing, Undisputed
<1> QED
  BY <1>3, <1>4, <1>5, <1>6, PolkitOutcome

LEMMA StandingHolds == Spec /\ [][Undisputed]_vars => []Standing
<1>1. Init => Standing
  BY DEF Init, Standing
<1>2. TypeOK /\ BusInv /\ Standing /\ [Next]_vars /\ [Undisputed]_vars => Standing'
  <2> SUFFICES ASSUME TypeOK, BusInv, Standing, [Next]_vars, [Undisputed]_vars
               PROVE  Standing'
    OBVIOUS
  <2>1. CASE UNCHANGED vars
    BY <2>1 DEF vars, Standing, Gone, Ended, Goodbye, Hello
  <2>2. CASE Start
    BY <2>2, ProxyInitKeepsStanding DEF Start, busVars
  <2>3. CASE Undisputed /\ Next
    BY <2>2, <2>3, SendKeepsStanding, HandleKeepsStanding, PolkitKeepsStanding DEF Next
  <2> QED
    BY <2>1, <2>3
<1> QED
  BY <1>1, <1>2, BusInvHolds, TypeCorrect, PTL DEF Spec

(* What will bring the connection exported at a path.  An unanswered call   *)
(* counts only where it goes to the present owner.                          *)
AsksFor(c, p) == c.to = owner /\ (c.kind = "list" \/ (c.kind = "get" /\ c.path = p))

Brings(m, p) ==
    \/ m.type = "ListReply" /\ m.call \in calls /\ p \in m.paths
    \/ m.type = "NewConnection" /\ m.from = owner /\ m.path = p
    \/ Replied(m, p)

Coming(p) ==
    \/ p \in Known \union rejected
    \/ \E c \in calls : AsksFor(c, p) /\ ~Answered(c)
    \/ \E i \in 1 .. Len(inbox) : Brings(inbox[i], p)

Connected == owner # NoService /\ proxy.service = owner /\ proxy.wired > 0 /\ ~Gone

NoneMissed == Connected => \A p \in Exported : Coming(p)

LEMMA AnsweredSent ==
    ASSUME inbox \in Seq(Message), NEW m \in Message, inbox' = Append(inbox, m), NEW c,
           Answered(c)'
    PROVE  Answered(c) \/ IsReplyTo(m, c)
<1>1. PICK i \in DOMAIN inbox' : inbox'[i].type \in Replies /\ inbox'[i].call = c
  BY DEF Answered, QueuedReplies, Queued
<1>2. i \in 1 .. Len(inbox) \/ i = Len(inbox) + 1
  BY <1>1
<1>3. CASE i \in 1 .. Len(inbox)
  <2>1. i \in DOMAIN inbox /\ inbox'[i] = inbox[i]
    BY <1>3
  <2> QED
    BY <1>1, <2>1 DEF Answered, QueuedReplies, Queued
<1>4. CASE i = Len(inbox) + 1
  BY <1>1, <1>4 DEF IsReplyTo
<1> QED
  BY <1>2, <1>3, <1>4

LEMMA AnsweredTaken ==
    ASSUME inbox \in Seq(Message), inbox # <<>>, inbox' = Tail(inbox), NEW c, Answered(c)'
    PROVE  Answered(c)
<1>1. PICK i \in DOMAIN inbox' : inbox'[i].type \in Replies /\ inbox'[i].call = c
  BY DEF Answered, QueuedReplies, Queued
<1>2. i + 1 \in DOMAIN inbox /\ inbox'[i] = inbox[i + 1]
  BY <1>1
<1> QED
  BY <1>1, <1>2 DEF Answered, QueuedReplies, Queued

LEMMA HeadAnswers ==
    ASSUME inbox \in Seq(Message), inbox # <<>>, NEW c, IsReplyTo(Head(inbox), c)
    PROVE  Answered(c)
<1>1. 1 \in DOMAIN inbox /\ inbox[1] = Head(inbox)
  OBVIOUS
<1> QED
  BY <1>1 DEF IsReplyTo, Answered, QueuedReplies, Queued

(* A call with a fresh token is not answered yet. *)
LEMMA FreshUnanswered ==
    ASSUME NEW n, NEW T \in FreshTokens(n), NEW t \in T, NEW c, c.token = t
    PROVE  ~Answered(c)
  BY DEF FreshTokens, UsedTokens, Answered

LEMMA FreshSome ==
    ASSUME NEW n, n # 0, NEW T \in FreshTokens(n)
    PROVE  \E t \in T : TRUE
<1>1. Cardinality(T) = n
  BY DEF FreshTokens
<1> QED
  BY <1>1, FS_EmptySet

LEMMA ComingSent ==
    ASSUME inbox \in Seq(Message), NEW m \in Message, inbox' = Append(inbox, m), owner' = owner,
           UNCHANGED <<calls, known, rejected>>, NEW p,
           Brings(m, p) \/ (Coming(p) /\ \A c \in calls : ~(IsReplyTo(m, c) /\ AsksFor(c, p)))
    PROVE  Coming(p)'
<1>1. CASE Brings(m, p)
  <2>1. Len(inbox') \in 1 .. Len(inbox') /\ inbox'[Len(inbox')] = m
    BY Appended
  <2> QED
    BY <1>1, <2>1 DEF Coming, Brings, Replied
<1>2. CASE p \in Known \union rejected
  BY <1>2 DEF Coming, Known
<1>3. CASE \E c \in calls : AsksFor(c, p) /\ ~Answered(c) /\ ~IsReplyTo(m, c)
  BY <1>3, AnsweredSent DEF Coming, AsksFor
<1>4. CASE \E i \in 1 .. Len(inbox) : Brings(inbox[i], p)
  <2>1. PICK i \in 1 .. Len(inbox) : Brings(inbox[i], p)
    BY <1>4
  <2>2. i \in 1 .. Len(inbox') /\ inbox'[i] = inbox[i]
    BY Appended
  <2> QED
    BY <2>1, <2>2 DEF Coming, Brings, Replied
<1> QED
  BY <1>1, <1>2, <1>3, <1>4 DEF Coming

LEMMA ComingTaken ==
    ASSUME inbox \in Seq(Message), inbox # <<>>, inbox' = Tail(inbox), owner' = owner,
           AnsweredOnce, NEW p, Coming(p),
           p \in Known \union rejected => (p \in Known \union rejected)',
           \A c \in calls : c \in calls' \/ IsReplyTo(Head(inbox), c),
           Brings(Head(inbox), p) => Coming(p)'
    PROVE  Coming(p)'
<1>1. CASE p \in Known \union rejected
  BY <1>1 DEF Coming
<1>2. CASE \E c \in calls : AsksFor(c, p) /\ ~Answered(c)
  <2>1. PICK c \in calls : AsksFor(c, p) /\ ~Answered(c)
    BY <1>2
  <2>2. c \in calls' /\ ~Answered(c)'
    BY <2>1, HeadAnswers, AnsweredTaken
  <2>3. AsksFor(c, p)'
    BY <2>1 DEF AsksFor
  <2> QED
    BY <2>2, <2>3 DEF Coming
<1>3. CASE \E i \in 1 .. Len(inbox) : Brings(inbox[i], p)
  <2>1. PICK i \in 1 .. Len(inbox) : Brings(inbox[i], p)
    BY <1>3
  <2>2. CASE i = 1
    BY <2>1, <2>2, Taken
  <2>3. CASE i # 1
    <3>1. /\ i - 1 \in 1 .. Len(inbox') /\ inbox'[i - 1] = inbox[i]
          /\ 1 \in 1 .. Len(inbox) /\ inbox[1] = Head(inbox)
      BY <2>3, Taken
    <3>2. inbox[i].type = "ListReply" /\ inbox[i].call \in calls => inbox[i].call \in calls'
      BY <2>3, <3>1 DEF AnsweredOnce, Replies
    <3>3. PICK m, j : m = inbox[i] /\ j = i - 1
      OBVIOUS
    <3>4. Brings(m, p)' /\ j \in 1 .. Len(inbox') /\ inbox'[j] = m
      BY <2>1, <3>1, <3>2, <3>3 DEF Brings, Replied
    <3> QED
      BY <3>4 DEF Coming
  <2> QED
    BY <2>2, <2>3
<1> QED
  BY <1>1, <1>2, <1>3 DEF Coming

(* A call made with a fresh token to the owner brings what it asks for. *)
LEMMA ComingAsked ==
    ASSUME NEW c \in calls', NEW p, AsksFor(c, p), owner' = owner, ~Answered(c)'
    PROVE  Coming(p)'
  BY DEF Coming, AsksFor

LEMMA ServiceKeepsMissed ==
    ASSUME TypeOK, ProxyOfOwner, NoneMissed, ServiceActs
    PROVE  NoneMissed'
<1> USE UserSettingsAssumption
<1> SUFFICES ASSUME Connected', NEW p \in Path, p \in Exported' PROVE Coming(p)'
  BY DEF NoneMissed, Exported
<1>1. /\ inbox \in Seq(Message) /\ UNCHANGED <<proxy, calls, known, rejected>>
      /\ owner' # NoService /\ proxy.service = owner' /\ proxy.wired > 0 /\ ~Gone'
  BY Sent DEF TypeOK, managerVars, Connected
<1> PICK s \in Service :
    \/ ServiceStarts(s)
    \/ ServiceExits(s)
    \/ \E r \in Path :
          \/ DeleteConnection(s, r)
          \/ \E c \in Content : ExportConnection(s, r, c) \/ UpdateConnection(s, r, c)
  BY DEF ServiceActs
<1>2. ~ServiceStarts(s) /\ ~ServiceExits(s)
  <2>1. ASSUME ServiceStarts(s) PROVE FALSE
    <3>1. NameOwnerChanged(NoService, s) \in Message
      BY DEF Message, NameOwnerChanged, Owners
    <3>2. Gone => Gone'
      BY <1>1, <2>1, <3>1, GoneSent DEF ServiceStarts, Send
    <3>3. owner = NoService /\ proxy.service = s
      BY <1>1, <2>1 DEF ServiceStarts
    <3>4. proxy # NoProxy
      BY <3>3 DEF NoProxy
    <3> QED
      BY <1>1, <3>2, <3>3, <3>4 DEF ProxyOfOwner
  <2> QED
    BY <1>1, <2>1 DEF ServiceExits
<1>3. ASSUME owner' = owner, NEW m \in Message, m.type \notin Replies,
             inbox' = Append(inbox, m) \/ inbox' = inbox,
             p \in Exported \/ (Brings(m, p) /\ inbox' = Append(inbox, m))
      PROVE  Coming(p)'
  <2>1. CASE inbox' = inbox
    <3>1. Connected
      BY <1>1, <1>3, <2>1 DEF Connected, Gone, Ended, Goodbye
    <3>2. Len(inbox') # Len(inbox) + 1
      BY <1>1, <2>1
    <3>3. Coming(p)
      BY <1>1, <1>3, <3>1, <3>2 DEF NoneMissed
    <3> QED
      BY <1>1, <1>3, <2>1, <3>3
         DEF Coming, Known, AsksFor, Answered, QueuedReplies, Queued, Brings, Replied
  <2>2. CASE inbox' = Append(inbox, m)
    <3>1. Connected
      BY <1>1, <1>3, <2>2, GoneSent DEF Connected
    <3>2. Brings(m, p) \/ Coming(p)
      BY <1>3, <3>1 DEF NoneMissed
    <3>3. \A c : ~IsReplyTo(m, c)
      BY <1>3 DEF IsReplyTo
    <3> QED
      BY <1>1, <1>3, <2>2, <3>2, <3>3, ComingSent
  <2> QED
    BY <1>3, <2>1, <2>2
<1>4. ASSUME NEW r \in Path, DeleteConnection(s, r) PROVE Coming(p)'
  <2> DEFINE m == Removed(s, r)
  <2>1. m \in Message /\ m.type \notin Replies
    BY DEF Message, Removed, Replies
  <2>2. owner' = owner /\ (inbox' = Append(inbox, m) \/ inbox' = inbox)
    BY <1>4, Zenon DEF DeleteConnection, SendIf, Send
  <2> HIDE DEF m
  <2>3. p \in Exported
    BY <1>4 DEF TypeOK, DeleteConnection, Exported
  <2> QED
    BY <1>3, <2>1, <2>2, <2>3
<1>5. ASSUME NEW r \in Path, NEW c \in Content, UpdateConnection(s, r, c) PROVE Coming(p)'
  <2> DEFINE m == Updated(s, r, c)
  <2>1. m \in Message /\ m.type \notin Replies
    BY DEF Message, Updated, Replies
  <2>2. owner' = owner /\ (inbox' = Append(inbox, m) \/ inbox' = inbox)
    BY <1>5, Zenon DEF UpdateConnection, SendIf, Send
  <2> HIDE DEF m
  <2>3. p \in Exported
    BY <1>5 DEF TypeOK, UpdateConnection, Exported
  <2> QED
    BY <1>3, <2>1, <2>2, <2>3
<1>6. ASSUME NEW r \in Path, NEW c \in Content, ExportConnection(s, r, c) PROVE Coming(p)'
  <2> DEFINE m == NewConnection(s, r)
  <2>1. m \in Message /\ m.type \notin Replies /\ m.type = "NewConnection" /\ m.from = s /\ m.path = r
    BY DEF Message, NewConnection, Replies
  <2>2. owner' = owner /\ owner = s
    BY <1>6 DEF ExportConnection
  <2>3. inbox' = Append(inbox, m)
    BY <1>1, <1>6, <2>2, Zenon DEF ExportConnection, SendIf, Send
  <2> HIDE DEF m
  <2>4. p = r \/ p \in Exported
    BY <1>6 DEF TypeOK, ExportConnection, Exported
  <2>5. p = r => Brings(m, p)
    BY <2>1, <2>2 DEF Brings
  <2> QED
    BY <1>3, <2>1, <2>2, <2>3, <2>4, <2>5
<1> QED
  BY <1>2, <1>4, <1>5, <1>6

(* Without a timeout only a peer that is gone leaves a call unanswered. *)
LEMMA AnswerKeepsMissed ==
    ASSUME ~SlowService, TypeOK, NoneMissed, Answer
    PROVE  NoneMissed'
<1> PICK c \in calls : AnswerList(c) \/ AnswerGetSettings(c) \/ FailCall(c)
  BY DEF Answer
<1>1. UNCHANGED <<owner, exported, proxy, calls, known, rejected>> /\ inbox \in Seq(Message)
  BY DEF TypeOK, AnswerList, AnswerGetSettings, FailCall, busVars, managerVars
<1> SUFFICES ASSUME Connected', NEW p \in Exported PROVE Coming(p)'
  BY <1>1 DEF NoneMissed, Exported
<1>2. ASSUME NEW m, Send(m), m.call = c, m.type # "NameOwnerChanged",
             AsksFor(c, p) => Brings(m, p)
      PROVE  Coming(p)'
  <2>1. inbox' = Append(inbox, m) /\ inbox' \in Seq(Message)
    BY <1>2, AnswerType DEF TypeOK, Send
  <2>2. inbox'[Len(inbox')] = m /\ Len(inbox') \in 1 .. Len(inbox')
    BY <1>1, <2>1
  <2>3. m \in Message
    BY <2>1, <2>2
  <2>4. ~Gone
    BY <1>1, <2>1, <2>3, GoneSent DEF Connected
  <2>5. Coming(p)
    BY <1>1, <2>4 DEF Connected, NoneMissed
  <2>6. Brings(m, p) \/ \A d \in calls : ~(IsReplyTo(m, d) /\ AsksFor(d, p))
    BY <1>2 DEF IsReplyTo
  <2> QED
    BY <1>1, <2>1, <2>3, <2>5, <2>6, ComingSent
<1>3. CASE AnswerList(c)
  <2> DEFINE m == ListReply(c.to, c, Exported)
  <2>1. m.type = "ListReply" /\ m.call = c /\ m.paths = Exported
    BY DEF ListReply
  <2>2. Send(m)
    BY <1>3 DEF AnswerList
  <2> HIDE DEF m
  <2> QED
    BY <1>2, <2>1, <2>2 DEF Brings
<1>4. CASE AnswerGetSettings(c)
  <2>1. CASE c.path \in Exported
    <3> DEFINE m == SettingsReply(c.to, c, exported[c.path])
    <3>1. m.type = "SettingsReply" /\ m.call = c
      BY DEF SettingsReply
    <3>2. Send(m) /\ c.kind = "get"
      BY <1>4, <2>1 DEF AnswerGetSettings
    <3> HIDE DEF m
    <3> QED
      BY <1>2, <3>1, <3>2 DEF Brings, Replied, AsksFor
  <2>2. CASE c.path \notin Exported
    <3> DEFINE m == ErrorReply(c)
    <3>1. m.type = "ErrorReply" /\ m.call = c
      BY DEF ErrorReply
    <3>2. Send(m) /\ c.kind = "get"
      BY <1>4, <2>2 DEF AnswerGetSettings
    <3> HIDE DEF m
    <3> QED
      BY <1>2, <2>2, <3>1, <3>2 DEF AsksFor
  <2> QED
    BY <2>1, <2>2
<1>5. CASE FailCall(c)
  <2> DEFINE m == ErrorReply(c)
  <2>1. m.type = "ErrorReply" /\ m.call = c
    BY DEF ErrorReply
  <2>2. Send(m) /\ (c.to # owner \/ c.to = NoService)
    BY <1>5 DEF FailCall
  <2> HIDE DEF m
  <2>3. ~AsksFor(c, p)
    BY <1>1, <2>2 DEF AsksFor, Connected
  <2> QED
    BY <1>2, <2>1, <2>2, <2>3
<1> QED
  BY <1>3, <1>4, <1>5

LEMMA PolkitKeepsMissed ==
    ASSUME TypeOK, NoneMissed, Polkit
    PROVE  NoneMissed'
<1>1. /\ UNCHANGED <<owner, exported, inbox>> /\ (Gone' <=> Gone)
      /\ \A c : Answered(c)' <=> Answered(c)
  BY PolkitOutcome DEF Gone, Ended, Goodbye, Answered, QueuedReplies, Queued
<1>2. CASE UNCHANGED <<proxy, calls, known, rejected>>
  BY <1>1, <1>2 DEF NoneMissed, Connected, Exported, Coming, Known, AsksFor, Brings, Replied
<1>3. ASSUME NEW T \in FreshTokens(1), proxy' = [proxy EXCEPT !.wired = @ + 1],
             calls' = calls \union {Call(t, proxy.service, "list", NoConnection, FALSE) : t \in T}
      PROVE  NoneMissed'
  <2> SUFFICES ASSUME proxy'.service = owner', NEW p \in Exported' PROVE Coming(p)'
    BY DEF NoneMissed, Connected
  <2>1. PICK t \in T : TRUE
    BY FreshSome
  <2>2. proxy.service = owner
    BY <1>1, <1>3 DEF TypeOK
  <2> PICK c : c = Call(t, proxy.service, "list", NoConnection, FALSE)
    OBVIOUS
  <2>3. c.token = t /\ AsksFor(c, p)
    BY <2>2 DEF Call, AsksFor
  <2>4. c \in calls'
    BY <1>3, <2>1
  <2>5. ~Answered(c)'
    BY <1>1, <2>1, <2>3, FreshUnanswered
  <2> QED
    BY <1>1, <2>3, <2>4, <2>5, ComingAsked
<1>4. CASE proxy' = NoProxy
  BY <1>1, <1>4 DEF NoneMissed, Connected, NoProxy
<1> QED
  BY <1>2, <1>3, <1>4, PolkitOutcome

LEMMA HandleKeepsMissed ==
    ASSUME TypeOK, CounterInv, BusInv, NoneMissed, Handle
    PROVE  NoneMissed'
<1> USE UserSettingsAssumption
<1> SUFFICES ASSUME Connected', NEW p \in Path, p \in Exported' PROVE Coming(p)'
  BY DEF NoneMissed, Exported
<1> PICK m : m = Head(inbox)
  OBVIOUS
<1>1. /\ inbox \in Seq(Message) /\ inbox # <<>> /\ inbox' = Tail(inbox) /\ m \in Message
      /\ UNCHANGED <<owner, exported>> /\ p \in Exported /\ AnsweredOnce
      /\ Gone <=> Gone' \/ Goodbye(m)
  BY HandleTakes, GoneTaken DEF Exported, CounterInv
<1>2. proxy' = proxy /\ ~Goodbye(m) => Coming(p)
  BY <1>1 DEF Connected, NoneMissed
(* What is taken brings nothing, or has been made good for. *)
<1>3. ASSUME proxy' = proxy, ~Goodbye(m),
             p \in Known \union rejected => (p \in Known \union rejected)',
             \A c \in calls : c \in calls' \/ IsReplyTo(m, c),
             Brings(m, p) => Coming(p)'
      PROVE  Coming(p)'
  BY <1>1, <1>2, <1>3, ComingTaken
<1>4. CASE HandleNameOwnerChanged
  <2>1. ~(UserProxyCleanup)
    BY <1>1 DEF UserProxyCleanup, Connected, NoProxy
  <2>2. ~Goodbye(m) /\ UserProxyInit /\ UNCHANGED <<known, calls, rejected>>
    BY <1>4, <2>1 DEF HandleNameOwnerChanged, Goodbye
  <2>3. proxy' = proxy
    <3>1. ~(proxy' = [service |-> owner, wired |-> 0])
      BY DEF Connected
    <3> QED
      BY <2>2, <3>1 DEF UserProxyInit
  <2>4. m.type = "NameOwnerChanged"
    BY <1>4 DEF HandleNameOwnerChanged, Receive
  <2> QED
    BY <1>3, <2>2, <2>3, <2>4 DEF Known, Brings, Replied
<1>5. CASE HandleListReply
  <2>1. /\ m.type = "ListReply" /\ m.call \in ListCalls /\ m.paths \in SUBSET Path
        /\ UNCHANGED <<proxy, known, rejected>> /\ ~Goodbye(m)
    BY <1>1, <1>5, MessageParts DEF HandleListReply, Receive, Goodbye
  <2>2. CASE m.call \notin calls /\ calls' = calls
    BY <1>3, <2>1, <2>2 DEF Known, Brings, Replied
  <2>3. ASSUME NEW T \in FreshTokens(1), NEW t \in T,
               calls' = (calls \ {m.call}) \union {Call(t, owner, "get", r, TRUE) : r \in m.paths}
        PROVE  Coming(p)'
    <3>1. \A c \in calls : c \in calls' \/ IsReplyTo(m, c)
      BY <2>1, <2>3 DEF IsReplyTo, Replies
    <3>2. ASSUME Brings(m, p) PROVE Coming(p)'
      <4>1. p \in m.paths
        BY <2>1, <3>2 DEF Brings, Replied
      <4> PICK c : c = Call(t, owner, "get", p, TRUE)
        OBVIOUS
      <4>2. c \in calls'
        BY <2>3, <4>1
      <4>3. AsksFor(c, p) /\ c.token = t
        BY DEF AsksFor, Call
      <4>4. ~Answered(c)'
        BY <1>1, <4>3, FreshUnanswered, AnsweredTaken
      <4> QED
        BY <1>1, <4>2, <4>3, <4>4, ComingAsked
    <3> QED
      BY <1>3, <2>1, <3>1, <3>2 DEF Known
  <2> QED
    BY <1>5, <2>2, <2>3 DEF HandleListReply
<1>6. CASE HandleNewConnection
  <2>1. /\ m.type = "NewConnection" /\ UNCHANGED <<proxy, known, rejected>> /\ ~Goodbye(m)
    BY <1>6 DEF HandleNewConnection, Receive, Goodbye
  <2> DEFINE news == Head(inbox)
             n == IF proxy.service = news.from THEN proxy.wired ELSE 0
  <2>2. PICK T \in FreshTokens(n) :
            calls' = calls \union {Call(t, owner, "get", news.path, FALSE) : t \in T}
    BY <1>6 DEF HandleNewConnection
  <2>3. ASSUME Brings(m, p) PROVE Coming(p)'
    <3>1. m.from = owner /\ m.path = p
      BY <2>1, <2>3 DEF Brings, Replied
    <3>2. n # 0
      BY <1>1, <2>1, <2>2, <3>1 DEF TypeOK, Connected
    <3>3. PICK t \in T : TRUE
      BY <2>2, <3>2, FreshSome
    <3> PICK c : c = Call(t, owner, "get", p, FALSE)
      OBVIOUS
    <3>4. c \in calls'
      BY <2>2, <3>1
    <3>5. AsksFor(c, p) /\ c.token = t
      BY DEF AsksFor, Call
    <3>6. ~Answered(c)'
      BY <1>1, <2>2, <3>5, FreshUnanswered, AnsweredTaken
    <3> QED
      BY <1>1, <3>4, <3>5, <3>6, ComingAsked
  <2>4. \A c \in calls : c \in calls'
    BY <2>2
  <2> QED
    BY <1>3, <2>1, <2>3, <2>4 DEF Known
<1>7. CASE HandleSettingsReply
  <2>1. m.type = "SettingsReply" /\ UNCHANGED proxy /\ ~Goodbye(m) /\ IsReplyTo(m, m.call)
    BY <1>7 DEF HandleSettingsReply, Receive, Goodbye, IsReplyTo, Replies
  <2>2. calls' = calls \ {m.call}
    BY <1>7 DEF HandleSettingsReply, FreeGetSettingsInfo
  <2>3. m.call.path \in Path /\ m.settings \in Content
    BY <1>1, <2>1, MessageParts DEF GetCalls
  <2>4. /\ known' = IF m.settings \in Valid /\ known[m.call.path] # m.settings
                    THEN [known EXCEPT ![m.call.path] = m.settings] ELSE known
        /\ rejected' = IF m.settings \in Valid THEN rejected ELSE rejected \union {m.call.path}
    BY <1>7 DEF HandleSettingsReply
  <2>5. known \in [Path -> Valid \union {NoConnection}] /\ m.settings # NoConnection
    BY <2>3 DEF TypeOK
  <2>6. p \in Known \union rejected => (p \in Known \union rejected)'
    BY <2>3, <2>4, <2>5 DEF Known
  <2>7. Brings(m, p) => Coming(p)'
    <3>1. ASSUME m.call.path = p PROVE (p \in Known \union rejected)'
      BY <2>4, <2>5, <3>1 DEF Known
    <3> QED
      BY <2>1, <3>1 DEF Brings, Replied, Coming
  <2> QED
    BY <1>3, <2>1, <2>2, <2>6, <2>7 DEF IsReplyTo
<1>8. CASE HandleErrorReply
  <2>1. m.type = "ErrorReply" /\ UNCHANGED <<proxy, known, rejected>> /\ ~Goodbye(m)
    BY <1>8 DEF HandleErrorReply, Receive, Goodbye
  <2>2. calls' = calls \ {m.call}
    BY <1>8 DEF HandleErrorReply, FreeGetSettingsInfo
  <2>3. \A c \in calls : c \in calls' \/ IsReplyTo(m, c)
    BY <2>1, <2>2 DEF IsReplyTo, Replies
  <2> QED
    BY <1>3, <2>1, <2>3 DEF Known, Brings, Replied
<1>9. CASE HandleRemoved
  <2>1. m.type = "Removed" /\ UNCHANGED <<proxy, calls, rejected>> /\ ~Goodbye(m)
    BY <1>9 DEF HandleRemoved, Receive, Goodbye
  <2>2. m.path # p
    <3>1. 1 \in 1 .. Len(inbox) /\ inbox[1] = m
      BY <1>1, Taken
    <3>2. exported[m.path] = Deleted \/ Gone
      BY <2>1, <3>1 DEF BusInv, RemovedDeleted, Gone
    <3> QED
      BY <1>1, <2>1, <3>2 DEF Exported, Connected
  <2>3. p \in Known => p \in Known'
    BY <1>9, <2>2 DEF TypeOK, HandleRemoved, RemoveConnection, Known
  <2> QED
    BY <1>3, <2>1, <2>3 DEF Brings, Replied
<1>10. CASE HandleUpdated
  <2>1. m.type = "Updated" /\ UNCHANGED <<proxy, calls>> /\ ~Goodbye(m)
    BY <1>10 DEF HandleUpdated, Receive, Goodbye
  <2>2. m.settings # NoConnection
    BY <1>1, <2>1, MessageParts
  <2>3. p \in Known \union rejected => (p \in Known \union rejected)'
    <3>1. CASE m.path \in Known /\ m.settings \in Valid
      <4>1. known' = [known EXCEPT ![m.path] = m.settings] /\ rejected' = rejected
        BY <1>10, <3>1 DEF HandleUpdated
      <4> QED
        BY <2>2, <4>1 DEF TypeOK, Known
    <3>2. CASE m.path \in Known /\ m.settings \notin Valid
      <4>1. /\ known' = [known EXCEPT ![m.path] = NoConnection]
            /\ rejected' = rejected \union {m.path}
        BY <1>10, <3>2 DEF HandleUpdated, RemoveConnection
      <4> QED
        BY <4>1 DEF TypeOK, Known
    <3>3. CASE m.path \notin Known
      BY <1>10, <3>3 DEF HandleUpdated, Known
    <3> QED
      BY <3>1, <3>2, <3>3
  <2> QED
    BY <1>3, <2>1, <2>3 DEF Brings, Replied
<1> QED
  BY <1>4, <1>5, <1>6, <1>7, <1>8, <1>9, <1>10 DEF Handle

LEMMA NoneMissedHolds ==
    ASSUME ~SlowService
    PROVE  Spec => []NoneMissed
<1>1. Init => NoneMissed
  BY DEF Init, NoneMissed, Connected
<1>2. TypeOK /\ CounterInv /\ BusInv /\ ProxyOfOwner /\ NoneMissed /\ [Next]_vars => NoneMissed'
  <2> SUFFICES ASSUME TypeOK, CounterInv, BusInv, ProxyOfOwner, NoneMissed, [Next]_vars
               PROVE  NoneMissed'
    OBVIOUS
  <2>1. CASE UNCHANGED <<owner, exported, inbox, proxy, calls, known, rejected>>
    BY <2>1 DEF NoneMissed, Connected, Gone, Ended, Goodbye, Exported, Coming, Known, AsksFor,
       Brings, Replied, Answered, QueuedReplies, Queued
  <2>2. CASE Start
    <3>1. UNCHANGED <<owner, exported, inbox, calls, known, rejected>>
      BY <2>2 DEF Start, busVars
    <3>2. CASE proxy' = proxy
      BY <2>1, <3>1, <3>2
    <3>3. CASE proxy' = [service |-> owner, wired |-> 0]
      BY <3>3 DEF NoneMissed, Connected
    <3> QED
      BY <2>2, <3>2, <3>3 DEF Start, UserProxyInit
  <2>3. CASE UNCHANGED vars
    BY <2>1, <2>3 DEF vars
  <2> QED
    BY <2>2, <2>3, HandleKeepsMissed, PolkitKeepsMissed, AnswerKeepsMissed, ServiceKeepsMissed
       DEF Next
<1> QED
  BY <1>1, <1>2, CounterInvHolds, BusInvHolds, ProxyOfOwnerHolds, TypeCorrect, PTL DEF Spec

(* Where no timeout fails a call (~SlowService) and no failing chain takes  *)
(* away the proxy of an owner granted or being asked about (Undisputed),    *)
(* the manager that is at rest holds exactly what an authorized service     *)
(* exports, whatever restarted, was refused or raced.                       *)
THEOREM SyncedAlways ==
    ASSUME ~SlowService
    PROVE  Spec /\ [][Undisputed]_vars => []SyncedWhenQuiet
<1>1. TypeOK /\ Told /\ ProxyOfOwner /\ Standing /\ NoneMissed => SyncedWhenQuiet
  <2> SUFFICES ASSUME TypeOK, Told, ProxyOfOwner, Standing, NoneMissed, Quiet, owner \in granted,
                      NEW p \in Path
               PROVE  \/ known[p] = exported[p]
                      \/ known[p] = NoConnection /\ (p \in rejected \/ exported[p] = Deleted)
    BY DEF SyncedWhenQuiet
  <2>1. Len(inbox) = 0 /\ owner # NoService /\ ~Gone
    BY UserSettingsAssumption DEF Quiet, TypeOK, Gone, Ended
  <2>2. Connected
    <3>1. proxy # NoProxy
      BY <2>1 DEF Standing, Quiet
    <3>2. proxy.service = owner /\ proxy.wired # 0 /\ proxy.wired \in Nat
      BY <2>1, <3>1 DEF ProxyOfOwner, Quiet, TypeOK
    <3> QED
      BY <2>1, <3>2 DEF Connected
  <2>3. p \in Exported => p \in Known \union rejected
    BY <2>1, <2>2 DEF NoneMissed, Coming, Quiet
  <2>4. p \in Known => known[p] = exported[p]
    BY FreshWhenTold DEF Quiet, FreshWhenQuiet
  <2>5. exported[p] \in Content \union {NoConnection, Deleted}
    BY DEF TypeOK
  <2> QED
    BY <2>3, <2>4, <2>5 DEF Known, Exported
<1> QED
  BY <1>1, ToldHolds, ProxyOfOwnerHolds, StandingHolds, NoneMissedHolds, TypeCorrect, PTL

(* With one instance, however the daemon finds it, a chain is started only  *)
(* where none runs and none was granted, as long as the instance is there.  *)
Sole ==
    /\ owner \notin exited
    /\ exited = {} =>
          /\ \A i \in 1 .. Len(inbox) : ~Goodbye(inbox[i])
          /\ \A ch, d \in chains : ch = d
          /\ chains # {} => granted = {} /\ proxy # NoProxy
          /\ proxy = NoProxy => granted = {}

LEMMA ProxyInitKeepsSole ==
    ASSUME Sole, UserProxyInit, UNCHANGED <<owner, exited, granted>>,
           \A i \in 1 .. Len(inbox') : Goodbye(inbox'[i]) => exited # {}
    PROVE  Sole'
<1>1. CASE UNCHANGED <<proxy, chains>>
  BY <1>1 DEF Sole, Goodbye
<1>2. CASE proxy = NoProxy /\ owner # NoService /\ proxy' = [service |-> owner, wired |-> 0]
           /\ ChainStarted
  <2>1. proxy' # NoProxy
    <3>1. proxy'.service # NoProxy.service
      BY <1>2 DEF NoProxy
    <3> QED
      BY <3>1
  <2>2. PICK new : chains' = chains \union {new}
    BY <1>2 DEF ChainStarted
  <2> QED
    BY <1>2, <2>1, <2>2 DEF Sole, Goodbye
<1> QED
  BY <1>1, <1>2 DEF UserProxyInit, NameHasOwner

LEMMA SoleHolds ==
    ASSUME NEW s, Service = {s}
    PROVE  Spec => []Sole
<1> USE UserSettingsAssumption
<1>1. Init => Sole
  BY DEF Init, Sole
<1>2. TypeOK /\ Sole /\ [Next]_vars => Sole'
  <2> SUFFICES ASSUME TypeOK, Sole, [Next]_vars PROVE Sole'
    OBVIOUS
  <2>1. CASE UNCHANGED vars
    BY <2>1 DEF vars, Sole, Goodbye
  <2>2. CASE Start
    BY <2>2, ProxyInitKeepsSole DEF Start, busVars, Sole, Goodbye
  <2>3. CASE ServiceActs \/ Answer
    <3>1. inbox \in Seq(Message) /\ UNCHANGED <<proxy, chains, granted>>
      BY <2>3, Sent DEF TypeOK, managerVars
    <3>2. ASSUME NEW m \in Message, ~Goodbye(m), inbox' = Append(inbox, m) \/ inbox' = inbox,
                 exited' = exited, owner' \notin exited
          PROVE  Sole'
      <4>1. ASSUME exited = {}, NEW i \in 1 .. Len(inbox') PROVE ~Goodbye(inbox'[i])
        <5>1. CASE inbox' = inbox
          BY <4>1, <5>1 DEF Sole, Goodbye
        <5>2. CASE inbox' = Append(inbox, m)
          BY <3>1, <3>2, <4>1, <5>2, Appended DEF Sole, Goodbye
        <5> QED
          BY <3>2, <5>1, <5>2
      <4> QED
        BY <3>1, <3>2, <4>1 DEF Sole, Goodbye
    <3>3. ASSUME NEW t \in Service, ServiceStarts(t) PROVE Sole'
      <4> DEFINE m == NameOwnerChanged(NoService, t)
      <4>1. m \in Message /\ ~Goodbye(m)
        BY DEF Message, NameOwnerChanged, Owners, Goodbye
      <4>2. inbox' = Append(inbox, m) /\ exited' = exited /\ owner' \notin exited
        BY <3>3 DEF ServiceStarts, Send
      <4> HIDE DEF m
      <4> QED
        BY <3>2, <4>1, <4>2
    <3>4. ASSUME NEW t \in Service, ServiceExits(t) PROVE Sole'
      BY <3>4 DEF TypeOK, ServiceExits, Sole
    <3> QED
      BY <2>3, <3>2, <3>3, <3>4, Sent DEF Goodbye, Sole
  <2>4. CASE Handle
    <3>1. /\ inbox \in Seq(Message) /\ inbox # <<>> /\ inbox' = Tail(inbox)
          /\ UNCHANGED <<owner, exited>>
      BY <2>4, HandleTakes
    <3>2. \A i \in 1 .. Len(inbox') : Goodbye(inbox'[i]) => exited # {}
      BY <3>1, Taken DEF Sole
    <3>3. Goodbye(Head(inbox)) => exited # {}
      BY <3>1, Taken DEF Sole
    <3>4. CASE UNCHANGED <<proxy, chains, granted>>
      BY <3>1, <3>2, <3>4 DEF Sole, Goodbye
    <3>5. CASE HandleNameOwnerChanged
      <4>1. granted' = granted /\ Head(inbox).type = "NameOwnerChanged"
        BY <3>5 DEF HandleNameOwnerChanged, Receive
      <4>2. UserProxyInit \/ Goodbye(Head(inbox))
        BY <3>5, <4>1 DEF HandleNameOwnerChanged, Goodbye
      <4>3. CASE exited # {}
        BY <3>1, <4>3 DEF Sole
      <4> QED
        BY <3>1, <3>2, <3>3, <4>1, <4>2, <4>3, ProxyInitKeepsSole
    <3> QED
      BY <2>4, <3>4, <3>5 DEF Handle, HandleListReply, HandleNewConnection, HandleSettingsReply,
         HandleErrorReply, HandleRemoved, HandleUpdated
  <2>5. CASE Polkit
    <3>1. UNCHANGED <<owner, exited, inbox>>
      BY <2>5, PolkitOutcome
    <3>2. CASE exited # {}
      BY <3>1, <3>2 DEF Sole
    <3>3. ASSUME exited = {}, NEW ch \in chains, chains' = chains \ {ch},
                 granted' = granted \/ proxy' # NoProxy
          PROVE  Sole'
      <4>1. chains' = {} /\ granted = {}
        BY <3>3 DEF Sole
      <4> QED
        BY <3>1, <3>3, <4>1 DEF Sole, Goodbye
    <3>4. ASSUME exited = {}, NEW ch \in chains, NEW new, chains' = (chains \ {ch}) \union {new},
                 UNCHANGED <<proxy, granted>>
          PROVE  Sole'
      <4>1. chains' = {new} /\ chains # {}
        BY <3>4 DEF Sole
      <4> QED
        BY <3>1, <3>4, <4>1 DEF Sole, Goodbye
    <3>5. PICK ch \in chains, p \in Permissions, a \in Answers : PolkitAnswers(ch, p, a)
      BY <2>5 DEF Polkit
    <3>6. CASE ~ChainDone(CallAnswered(ch.chain, p, a))
      BY <3>2, <3>4, <3>5, <3>6 DEF PolkitAnswers
    <3>7. CASE ChainDone(CallAnswered(ch.chain, p, a))
      <4>1. chains' = chains \ {ch}
        BY <3>5, <3>7 DEF PolkitAnswers
      <4>2. UserProxyAuthDone(CallAnswered(ch.chain, p, a))
        BY <3>5, <3>7 DEF PolkitAnswers
      <4>3. granted' = granted \/ proxy' # NoProxy \/ proxy = NoProxy
        <5>1. proxy' = [proxy EXCEPT !.wired = @ + 1] => proxy' # NoProxy
          BY DEF TypeOK, NoProxy
        <5> QED
          BY <4>2, <5>1 DEF UserProxyAuthDone
      <4>4. exited = {} => proxy # NoProxy
        BY <3>5 DEF Sole
      <4> QED
        BY <3>2, <3>3, <3>5, <4>1, <4>3, <4>4
    <3> QED
      BY <3>6, <3>7
  <2> QED
    BY <2>1, <2>2, <2>3, <2>4, <2>5 DEF Next
<1> QED
  BY <1>1, <1>2, TypeCorrect, PTL DEF Spec

(* With a single instance, which may be there before the daemon, come late, *)
(* end at any time and meet any answer of PolicyKit, no chain ever disputes *)
(* another's proxy: at rest the manager holds what the instance exports.    *)
THEOREM SyncedAlone ==
    ASSUME NEW s, Service = {s}, ~SlowService
    PROVE  Spec => []SyncedWhenQuiet
<1>1. TypeOK /\ Sole /\ [Next]_vars => [Undisputed]_vars
  <2> SUFFICES ASSUME TypeOK, Sole, Next, proxy # NoProxy, proxy' = NoProxy, inbox' = inbox
               PROVE  owner \notin granted' /\ \A ch \in chains' : ch.chain.owner # owner
    BY DEF Undisputed
  <2> USE UserSettingsAssumption
  <2>1. Polkit
    <3>1. ~(ServiceActs \/ Answer)
      BY Sent DEF managerVars
    <3>2. ~Handle
      <4>1. inbox \in Seq(Message) /\ inbox # <<>> => Tail(inbox) # inbox
        OBVIOUS
      <4> QED
        BY <4>1, HandleTakes
    <3>3. ~Start
      BY DEF Start, UserProxyInit
    <3> QED
      BY <3>1, <3>2, <3>3 DEF Next
  <2>2. PICK ch \in chains, p \in Permissions, a \in Answers : PolkitAnswers(ch, p, a)
    BY <2>1 DEF Polkit
  <2>3. ChainDone(CallAnswered(ch.chain, p, a)) /\ chains' = chains \ {ch}
    BY <2>2 DEF PolkitAnswers
  <2>4. \A d \in chains' : d \in [id: ChainId, chain: ChainOf(Service, Permissions)]
    BY <2>3 DEF TypeOK
  <2>5. \A d \in chains' : d.chain.owner \in Service
    BY <2>4 DEF ChainOf
  <2>6. granted' \subseteq Service
    BY <2>1, PolkitType DEF TypeOK
  <2>7. CASE owner = NoService
    BY <2>5, <2>6, <2>7
  <2>8. CASE owner # NoService
    <3>1. exited = {}
      BY <2>8 DEF TypeOK, Sole, Owners
    <3>2. granted = {} /\ chains' = {}
      BY <2>3, <3>1 DEF Sole
    <3>3. granted' = granted
      <4>1. proxy' = [proxy EXCEPT !.wired = @ + 1] => proxy' # NoProxy
        BY DEF TypeOK, NoProxy
      <4>2. UserProxyAuthDone(CallAnswered(ch.chain, p, a))
        BY <2>2, <2>3 DEF PolkitAnswers
      <4> QED
        BY <4>1, <4>2 DEF UserProxyAuthDone
    <3> QED
      BY <3>2, <3>3
  <2> QED
    BY <2>7, <2>8
<1>2. Spec => [][Undisputed]_vars
  BY <1>1, SoleHolds, TypeCorrect, PTL DEF Spec
<1> QED
  BY <1>2, SyncedAlways, PTL
=============================================================================
