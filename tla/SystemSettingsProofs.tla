------------------------ MODULE SystemSettingsProofs ------------------------
(***************************************************************************)
(* Proofs about SystemSettings, for any files, settings, paths and calls:  *)
(* its types, that the signals match the list, that the copies of a        *)
(* connection agree, and that it implements SettingsStore.                 *)
(***************************************************************************)
EXTENDS SystemSettings, SequenceTheorems, TLAPS

-----------------------------------------------------------------------------
(* Facts about the data *)

LEMMA SignalFacts ==
    /\ <<New>> # <<>> /\ <<New, Gone>> # <<>> /\ <<New>> # <<New, Gone>>
    /\ Append(<<>>, New) = <<New>>
    /\ Append(<<New>>, Gone) = <<New, Gone>>
    /\ {<<>>, <<New>>, <<New, Gone>>} \subseteq Seq({New, Gone})
<1>1. Len(<<>>) = 0 /\ Len(<<New>>) = 1 /\ Len(<<New, Gone>>) = 2
  OBVIOUS
<1>3. <<>> \in Seq({New, Gone}) /\ <<New>> \in Seq({New, Gone})
  OBVIOUS
<1>4. <<New, Gone>> \in Seq({New, Gone})
  OBVIOUS
<1>5. Append(<<>>, New) = <<New>>
  <2> DEFINE s == Append(<<>>, New)
  <2>1. s \in Seq({New, Gone}) /\ Len(s) = 1 /\ s[1] = New
    BY <1>3, AppendProperties
  <2> HIDE DEF s
  <2>2. s = <<New>>
    BY <2>1, <1>3, SeqEqual
  <2> QED
    BY <2>2 DEF s
<1>6. Append(<<New>>, Gone) = <<New, Gone>>
  <2> DEFINE s == Append(<<New>>, Gone)
             t == <<New, Gone>>
  <2>1. s \in Seq({New, Gone}) /\ Len(s) = 2 /\ s[1] = New /\ s[2] = Gone
    BY <1>1, <1>3, AppendProperties
  <2>2. t \in Seq({New, Gone}) /\ Len(t) = 2 /\ t[1] = New /\ t[2] = Gone
    BY <1>4
  <2> HIDE DEF s, t
  <2>3. s = t
    BY <2>1, <2>2, SeqEqual
  <2> QED
    BY <2>3 DEF s, t
<1> QED
  BY <1>1, <1>3, <1>4, <1>5, <1>6

(* A call keeps its type when its reply or its cancellation is set. *)
LEMMA CallFacts ==
    ASSUME NEW c \in MethodCalls, NEW reply \in Replies
    PROVE  /\ [c EXCEPT !.reply = reply] \in MethodCalls
           /\ c.op # "Add" => [c EXCEPT !.canceled = TRUE] \in MethodCalls
  BY DEF MethodCalls

LEMMA NoCallWaits == NoCall.reply # "waiting"
  BY DEF NoCall

LEMMA WaitingCall ==
    ASSUME TypeOK, NEW n \in Call, calls[n].reply = "waiting"
    PROVE  /\ calls[n] \in MethodCalls
           /\ calls[n].op \in {"Update", "Delete", "GetSecrets", "Add"}
           /\ calls[n].op # "Add" => calls[n].on \in Object
           /\ calls[n].op = "Add" => calls[n].on = NoObject
           /\ calls[n].op \in {"Update", "Add"} => calls[n].settings \in Settings
  BY NoCallWaits DEF TypeOK, MethodCalls

LEMMA RepliedType ==
    ASSUME TypeOK, NEW n \in Call, calls[n].reply = "waiting", NEW reply \in Replies
    PROVE  Replied(n, reply) \in [Call -> MethodCalls \union {NoCall}]
  BY WaitingCall, CallFacts DEF TypeOK, Replied

LEMMA CanceledType ==
    ASSUME NEW cs \in [Call -> MethodCalls \union {NoCall}], NEW i \in Object
    PROVE  Canceled(cs, i) \in [Call -> MethodCalls \union {NoCall}]
<1>1. ASSUME NEW n \in Call, cs[n].on = i, cs[n].reply = "waiting"
      PROVE  [cs[n] EXCEPT !.canceled = TRUE] \in MethodCalls
  <2>1. cs[n] \in MethodCalls
    BY <1>1, NoCallWaits
  <2>2. cs[n].op # "Add"
    BY <1>1, <2>1, SystemSettingsAssumption DEF MethodCalls
  <2> QED
    BY <2>1, <2>2, CallFacts DEF Replies
<1> QED
  BY <1>1 DEF Canceled

-----------------------------------------------------------------------------
(* Types *)

LEMMA ClaimType ==
    ASSUME TypeOK, NEW I \in SUBSET Object, Claim(I),
           memory' \in [Object -> Settings \union {NoSettings}]
    PROVE  /\ listed' \subseteq Object
           /\ told' \in [Object -> Seq({New, Gone})]
           /\ seen' \in [Object -> Settings \union {NoSettings}]
<1>1. ASSUME NEW i \in Object PROVE Append(told[i], New) \in Seq({New, Gone})
  BY DEF TypeOK
<1> QED
  BY <1>1 DEF TypeOK, Claim

LEMMA ReadType ==
    ASSUME TypeOK, NEW f \in File, NEW i \in Object, Read(f, i)
    PROVE  /\ at' \in [Object -> File \union {NoFile}]
           /\ memory' \in [Object -> Settings \union {NoSettings}]
  BY DEF TypeOK, Read

LEMMA RemoveType ==
    ASSUME TypeOK, NEW i \in Object, Remove(i)
    PROVE  /\ at' \in [Object -> File \union {NoFile}]
           /\ listed' \subseteq Object
           /\ memory' \in [Object -> Settings \union {NoSettings}]
           /\ failed' \subseteq Object
           /\ told' \in [Object -> Seq({New, Gone})]
           /\ seen' \in [Object -> Settings \union {NoSettings}]
<1>1. Append(told[i], Gone) \in Seq({New, Gone})
  BY DEF TypeOK
<1> QED
  BY <1>1 DEF TypeOK, Remove

LEMMA SavedType ==
    ASSUME TypeOK, NEW i \in Object, Saved(i) \/ NotSaved(i),
           memory' \in [Object -> Settings \union {NoSettings}]
    PROVE  /\ failed' \subseteq Object
           /\ seen' \in [Object -> Settings \union {NoSettings}]
  BY DEF TypeOK, Saved, NotSaved

LEMMA LoadType ==
    ASSUME TypeOK, Load
    PROVE  /\ at' \in [Object -> File \union {NoFile}]
           /\ memory' \in [Object -> Settings \union {NoSettings}]
<1>1. PICK new \in [{f \in File : files[f] # NoSettings /\ Kept(f) = {}} -> FreshObjects] :
          /\ at' = [i \in Object |-> IF \E f \in DOMAIN new : new[f] = i
                                     THEN CHOOSE f \in DOMAIN new : new[f] = i
                                     ELSE at[i]]
          /\ memory' = [i \in Object |-> IF at'[i] # at[i] THEN files[at'[i]] ELSE memory[i]]
  BY DEF Load
<1>2. at' \in [Object -> File \union {NoFile}]
  BY <1>1 DEF TypeOK
<1>3. ASSUME NEW i \in Object, at'[i] # at[i] PROVE files[at'[i]] \in Settings \union {NoSettings}
  <2>1. at'[i] \in File
    BY <1>1, <1>3
  <2> QED
    BY <2>1 DEF TypeOK
<1> QED
  BY <1>1, <1>2, <1>3 DEF TypeOK

THEOREM TypeInit == Init => TypeOK
<1> SUFFICES ASSUME Init PROVE TypeOK
  OBVIOUS
<1>1. told \in [Object -> Seq({New, Gone})]
  BY SignalFacts DEF Init
<1>2. edits \in 0 .. MaxEdit
  BY SystemSettingsAssumption DEF Init
<1> QED
  BY <1>1, <1>2 DEF Init, TypeOK

LEMMA AskType ==
    ASSUME TypeOK, NEW op \in {"Update", "Delete", "GetSecrets", "Add"},
           NEW i \in Object \union {NoObject}, NEW s \in Settings \union {NoSettings},
           NEW reply \in Replies,
           op \in {"Update", "Delete", "GetSecrets"} <=> i \in Object,
           op \in {"Update", "Add"} <=> s \in Settings,
           Ask(op, i, s, reply)
    PROVE  TypeOK'
<1> DEFINE c == [op |-> op, on |-> i, settings |-> s, canceled |-> FALSE, reply |-> reply]
<1>1. c \in MethodCalls
  BY NoSettingsAssumption, SystemSettingsAssumption DEF MethodCalls
<1>2. PICK n \in Call : calls' = [calls EXCEPT ![n] = c]
  BY DEF Ask
<1>3. calls' \in [Call -> MethodCalls \union {NoCall}]
  BY <1>1, <1>2 DEF TypeOK
<1> QED
  BY <1>3 DEF TypeOK, Ask, objectVars

LEMMA NoticeType ==
    ASSUME TypeOK, NEW f \in File, Notice(f)
    PROVE  TypeOK'
<1>1. /\ files' = files /\ edits' = edits /\ loaded' = loaded /\ granted' = granted
      /\ dirty' \subseteq File
  BY DEF Notice, TypeOK
<1>2. CASE (\E i \in Object : Read(f, i) /\ Claim({i})) /\ UNCHANGED <<failed, calls>>
  <2>1. PICK i \in Object : Read(f, i) /\ Claim({i})
    BY <1>2
  <2>2. {i} \in SUBSET Object
    OBVIOUS
  <2> QED
    BY <1>1, <1>2, <2>1, <2>2, ReadType, ClaimType DEF TypeOK
<1>3. CASE \E i \in Kept(f) : Remove(i) /\ calls' = Canceled(calls, i)
  <2>1. PICK i \in Object : Remove(i) /\ calls' = Canceled(calls, i)
    BY <1>3 DEF Kept
  <2>2. calls' \in [Call -> MethodCalls \union {NoCall}]
    BY <2>1, CanceledType DEF TypeOK
  <2> QED
    BY <1>1, <2>1, <2>2, RemoveType DEF TypeOK
<1>4. CASE \E i \in Kept(f) : Reread(i) /\ UNCHANGED calls
  <2>1. PICK i \in Object : at[i] = f /\ Reread(i) /\ calls' = calls
    BY <1>4 DEF Kept
  <2>2. memory' \in [Object -> Settings \union {NoSettings}]
    BY <2>1 DEF TypeOK, Reread
  <2>3. CASE UNCHANGED <<memory, failed, seen>>
    BY <1>1, <2>1, <2>3 DEF TypeOK, Reread
  <2>4. CASE Saved(i) \/ NotSaved(i)
    BY <1>1, <2>1, <2>2, <2>4, SavedType DEF TypeOK, Reread
  <2> QED
    BY <2>1, <2>3, <2>4 DEF Reread
<1>5. CASE UNCHANGED <<objectVars, calls>>
  BY <1>1, <1>5 DEF TypeOK, objectVars
<1> QED
  BY <1>2, <1>3, <1>4, <1>5 DEF Notice

(* A call that PolicyKit answers acts on an object that is still kept. *)
LEMMA AnswerType ==
    ASSUME TypeOK, NEW n \in Call, NEW answer \in Answers, PolkitAnswers(n, answer),
           calls[n].op # "Add" /\ ~calls[n].canceled => at[calls[n].on] \in File
    PROVE  TypeOK'
<1>1. calls[n].reply = "waiting" /\ edits' = edits /\ loaded' = loaded /\ granted' \subseteq Call
  BY DEF PolkitAnswers, TypeOK
<1>2. \A reply \in {"done", "canceled", "denied", "error"} :
         Replied(n, reply) \in [Call -> MethodCalls \union {NoCall}]
  BY <1>1, RepliedType DEF Replies
<1>3. CASE AnswerCanceled(n) \/ AnswerRefused(n, answer)
  BY <1>1, <1>2, <1>3 DEF AnswerCanceled, AnswerRefused, TypeOK, objectVars
<1>4. CASE calls[n].op = "Update" /\ AnswerUpdate(n) /\ ~calls[n].canceled
  <2>1. calls[n].on \in Object /\ calls[n].settings \in Settings /\ at[calls[n].on] \in File
    BY <1>1, <1>4, WaitingCall
  <2>2. memory' \in [Object -> Settings \union {NoSettings}]
    BY <1>4, <2>1 DEF AnswerUpdate, TypeOK
  <2>3. /\ files' \in [File -> Settings \union {NoSettings}]
        /\ calls' \in [Call -> MethodCalls \union {NoCall}]
        /\ dirty' \subseteq File
        /\ Saved(calls[n].on) \/ NotSaved(calls[n].on)
        /\ UNCHANGED <<at, listed, told>>
    BY <1>2, <1>4, <2>1 DEF AnswerUpdate, TypeOK
  <2> QED
    BY <1>1, <2>1, <2>2, <2>3, SavedType DEF TypeOK
<1>5. CASE calls[n].op = "Delete" /\ AnswerDelete(n) /\ ~calls[n].canceled
  <2>1. calls[n].on \in Object /\ at[calls[n].on] \in File
    BY <1>1, <1>5, WaitingCall
  <2>2. CASE UNCHANGED <<files, dirty, objectVars>> /\ calls' = Replied(n, "error")
    BY <1>1, <1>2, <2>2 DEF TypeOK, objectVars
  <2>3. CASE /\ files' = [files EXCEPT ![at[calls[n].on]] = NoSettings]
             /\ dirty' = dirty \union {at[calls[n].on]}
             /\ Remove(calls[n].on)
             /\ calls' = Canceled(Replied(n, "done"), calls[n].on)
    <3>1. calls' \in [Call -> MethodCalls \union {NoCall}]
      BY <1>2, <2>1, <2>3, CanceledType
    <3> QED
      BY <1>1, <2>1, <2>3, <3>1, RemoveType DEF TypeOK
  <2> QED
    BY <1>5, <2>2, <2>3 DEF AnswerDelete
<1>6. CASE AnswerGetSecrets(n)
  BY <1>1, <1>2, <1>6 DEF AnswerGetSecrets, TypeOK, objectVars
<1>7. CASE calls[n].op = "Add" /\ AnswerAdd(n)
  <2>1. calls[n].settings \in Settings
    BY <1>1, <1>7, WaitingCall
  <2> QED
    BY <1>1, <1>2, <1>7, <2>1 DEF AnswerAdd, TypeOK, objectVars
<1> QED
  BY <1>3, <1>4, <1>5, <1>6, <1>7 DEF PolkitAnswers, AnswerGranted

-----------------------------------------------------------------------------
(* The inductive invariant *)

(* The plugin's objects are what the service lists, from the callback that  *)
(* reads a file to the one that drops its object.                           *)
KeptIsListed == \A i \in Object : at[i] # NoFile <=> i \in listed

(* A plugin keeps one object for a file. *)
OneEach == \A i, j \in listed : at[i] = at[j] => i = j

(* A call that waits, and was not canceled, waits for a listed object. *)
WaitingIsListed ==
    \A n \in Call :
        calls[n].reply = "waiting" /\ ~calls[n].canceled /\ calls[n].op # "Add"
            => calls[n].on \in listed

(* Clients were sent what the object holds, unless saving it failed. *)
SeenIsHeld == \A i \in listed \ failed : seen[i] = memory[i]

IInv ==
    /\ TypeOK
    /\ ToldAsListed
    /\ KeptIsListed
    /\ OneEach
    /\ WaitingIsListed
    /\ SeenIsHeld
    /\ CopiesAgree

LEMMA ListedIsAt ==
    ASSUME IInv, NEW i \in listed
    PROVE  i \in Object /\ at[i] \in File /\ told[i] = <<New>>
  BY DEF IInv, TypeOK, KeptIsListed, ToldAsListed

LEMMA AnsweredIsKept ==
    ASSUME IInv, NEW n \in Call, calls[n].reply = "waiting"
    PROVE  calls[n].op # "Add" /\ ~calls[n].canceled => calls[n].on \in listed /\ at[calls[n].on] \in File
  BY ListedIsAt DEF IInv, WaitingIsListed

LEMMA InvInit == Init => IInv
<1> SUFFICES ASSUME Init PROVE IInv
  OBVIOUS
<1>1. ToldAsListed /\ KeptIsListed
  BY SignalFacts DEF Init, ToldAsListed, KeptIsListed
<1> QED
  BY <1>1, TypeInit, NoCallWaits DEF Init, IInv, OneEach, WaitingIsListed, SeenIsHeld, CopiesAgree

(* A file read into a new object, and the object claimed. *)
LEMMA PublishFacts ==
    ASSUME IInv, NEW f \in File, NEW i \in Object, Read(f, i), Claim({i}),
           failed' = failed, files' = files
    PROVE  /\ i \notin listed /\ listed' = listed \union {i}
           /\ told[i] = <<>> /\ at[i] = NoFile /\ at'[i] = f
           /\ \A j \in Object \ {i} : at'[j] = at[j] /\ told'[j] = told[j]
           /\ \A j \in listed : memory'[j] = memory[j] /\ seen'[j] = seen[j]
           /\ seen'[i] = memory'[i] /\ memory'[i] = files'[f]
           /\ ToldAsListed' /\ KeptIsListed' /\ OneEach' /\ SeenIsHeld'
<1>1. told[i] = <<>> /\ at[i] = NoFile /\ i \notin listed
  BY SignalFacts DEF Read, Fresh, FreshObjects, Unused, IInv, ToldAsListed
<1>2. /\ at' = [at EXCEPT ![i] = f]
      /\ memory' = [memory EXCEPT ![i] = files[f]]
      /\ \A j \in listed : at[j] # f
  BY DEF Read, Kept, IInv, TypeOK
<1>3. /\ listed' = listed \union {i}
      /\ told' = [told EXCEPT ![i] = <<New>>]
      /\ seen' = [seen EXCEPT ![i] = memory'[i]]
  <2>1. listed' = listed \union {i} /\ {i} \ listed = {i}
    BY <1>1 DEF Claim
  <2>2. told' = [told EXCEPT ![i] = <<New>>]
    BY <1>1, <2>1, SignalFacts DEF Claim, IInv, TypeOK
  <2>3. seen' = [seen EXCEPT ![i] = memory'[i]]
    BY <1>1, <2>1 DEF Claim, IInv, TypeOK
  <2> QED
    BY <2>1, <2>2, <2>3
<1>4. ToldAsListed'
  BY <1>1, <1>3, SignalFacts DEF IInv, ToldAsListed, TypeOK
<1>5. KeptIsListed' /\ OneEach'
  BY <1>1, <1>2, <1>3, SystemSettingsAssumption DEF IInv, TypeOK, KeptIsListed, OneEach
<1>6. SeenIsHeld'
  BY <1>1, <1>2, <1>3 DEF IInv, TypeOK, SeenIsHeld
<1> QED
  BY <1>1, <1>2, <1>3, <1>4, <1>5, <1>6 DEF IInv, TypeOK

(* An object removed. *)
LEMMA RemoveFacts ==
    ASSUME IInv, NEW i \in listed, Remove(i)
    PROVE  /\ listed' = listed \ {i}
           /\ at' = [at EXCEPT ![i] = NoFile]
           /\ told' = [told EXCEPT ![i] = <<New, Gone>>]
           /\ failed' = failed \ {i} /\ memory' = memory /\ seen' = seen
           /\ ToldAsListed' /\ KeptIsListed' /\ OneEach' /\ SeenIsHeld'
<1>1. told[i] = <<New>> /\ i \in Object
  BY ListedIsAt
<1>2. /\ listed' = listed \ {i}
      /\ at' = [at EXCEPT ![i] = NoFile]
      /\ told' = [told EXCEPT ![i] = <<New, Gone>>]
      /\ failed' = failed \ {i} /\ memory' = memory /\ seen' = seen
  BY <1>1, SignalFacts DEF Remove
<1>3. ToldAsListed'
  BY <1>1, <1>2, SignalFacts DEF IInv, ToldAsListed, TypeOK
<1>4. KeptIsListed' /\ OneEach'
  BY <1>1, <1>2 DEF IInv, TypeOK, KeptIsListed, OneEach
<1>5. SeenIsHeld'
  BY <1>2 DEF IInv, SeenIsHeld
<1> QED
  BY <1>2, <1>3, <1>4, <1>5

LEMMA RemovedOthers ==
    ASSUME IInv, NEW i \in listed, Remove(i), NEW j \in listed' \ failed'
    PROVE  /\ j \in listed \ failed /\ j # i
           /\ at'[j] = at[j] /\ memory'[j] = memory[j] /\ seen'[j] = seen[j]
<1>1. listed' = listed \ {i} /\ failed' = failed \ {i}
  BY RemoveFacts
<1>2. j \in listed \ failed /\ j # i /\ j \in Object
  BY <1>1, ListedIsAt
<1>3. at' = [at EXCEPT ![i] = NoFile] /\ memory' = memory /\ seen' = seen
  BY RemoveFacts
<1> QED
  BY <1>2, <1>3 DEF IInv, TypeOK

(* Disposing of an object leaves no call waiting for it. *)
LEMMA CanceledFacts ==
    ASSUME IInv, NEW i \in listed, listed' = listed \ {i},
           NEW cs \in [Call -> MethodCalls \union {NoCall}], calls' = Canceled(cs, i),
           \A n \in Call : cs[n].reply = "waiting" => cs[n] = calls[n]
    PROVE  WaitingIsListed'
<1> SUFFICES ASSUME NEW n \in Call, calls'[n].reply = "waiting", ~calls'[n].canceled,
                    calls'[n].op # "Add"
             PROVE  calls'[n].on \in listed'
  BY DEF WaitingIsListed
<1>1. cs[n] \in MethodCalls \union {NoCall}
  OBVIOUS
<1>2. calls'[n] = IF cs[n].on = i /\ cs[n].reply = "waiting"
                  THEN [cs[n] EXCEPT !.canceled = TRUE] ELSE cs[n]
  BY DEF Canceled
<1>3. CASE cs[n].on = i /\ cs[n].reply = "waiting"
  BY <1>1, <1>2, <1>3 DEF MethodCalls, NoCall
<1>4. CASE ~(cs[n].on = i /\ cs[n].reply = "waiting")
  BY <1>2, <1>4 DEF IInv, WaitingIsListed
<1> QED
  BY <1>3, <1>4

(* Answering a call without disposing of anything. *)
LEMMA RepliedFacts ==
    ASSUME IInv, NEW n \in Call, NEW reply \in Replies \ {"waiting"}, calls[n].reply = "waiting",
           calls' = Replied(n, reply), listed' = listed
    PROVE  WaitingIsListed'
<1>1. calls[n] \in MethodCalls
  BY WaitingCall DEF IInv
<1>2. calls'[n].reply = reply /\ \A m \in Call \ {n} : calls'[m] = calls[m]
  BY <1>1 DEF Replied, MethodCalls, IInv, TypeOK
<1> QED
  BY <1>2 DEF IInv, WaitingIsListed

(* All connections loaded: the old objects stay, each new one has a file of its own. *)
LEMMA LoadFacts ==
    ASSUME IInv, Load
    PROVE  /\ \A i \in Object : \/ at'[i] = at[i] /\ memory'[i] = memory[i]
                                \/ /\ i \notin listed /\ told[i] = <<>> /\ at[i] = NoFile
                                   /\ at'[i] \in File /\ files[at'[i]] # NoSettings
                                   /\ memory'[i] = files[at'[i]]
                                   /\ \A j \in Object \ {i} : at'[j] # at'[i]
           /\ \A i \in listed : at'[i] = at[i] /\ memory'[i] = memory[i]
<1> DEFINE D == {f \in File : files[f] # NoSettings /\ Kept(f) = {}}
<1>1. PICK new \in [D -> FreshObjects] :
          /\ \A f, g \in DOMAIN new : new[f] = new[g] => f = g
          /\ at' = [i \in Object |-> IF \E f \in DOMAIN new : new[f] = i
                                     THEN CHOOSE f \in DOMAIN new : new[f] = i
                                     ELSE at[i]]
          /\ memory' = [i \in Object |-> IF at'[i] # at[i] THEN files[at'[i]] ELSE memory[i]]
  BY DEF Load
<1>2. \A i \in FreshObjects : told[i] = <<>> /\ at[i] = NoFile /\ i \notin listed
  BY SignalFacts DEF FreshObjects, Unused, IInv, ToldAsListed
<1>3. ASSUME NEW i \in Object, \E f \in DOMAIN new : new[f] = i
      PROVE  at'[i] \in D /\ new[at'[i]] = i /\ i \in FreshObjects
  BY <1>1, <1>3
<1>4. ASSUME NEW i \in Object, ~ \E f \in DOMAIN new : new[f] = i
      PROVE  at'[i] = at[i] /\ memory'[i] = memory[i]
  BY <1>1, <1>4
<1>5. ASSUME NEW i \in Object, NEW j \in Object \ {i}, \E f \in DOMAIN new : new[f] = i
      PROVE  at'[j] # at'[i]
  <2>1. CASE \E f \in DOMAIN new : new[f] = j
    BY <1>1, <1>3, <1>5, <2>1
  <2>2. CASE ~ \E f \in DOMAIN new : new[f] = j
    <3>1. at'[j] = at[j] /\ Kept(at'[i]) = {}
      BY <1>3, <1>4, <1>5, <2>2
    <3> QED
      BY <3>1 DEF Kept
  <2> QED
    BY <2>1, <2>2
<1>6. ASSUME NEW i \in Object, \E f \in DOMAIN new : new[f] = i
      PROVE  /\ i \notin listed /\ told[i] = <<>> /\ at[i] = NoFile
             /\ at'[i] \in File /\ files[at'[i]] # NoSettings
             /\ memory'[i] = files[at'[i]]
             /\ \A j \in Object \ {i} : at'[j] # at'[i]
  <2>1. at'[i] \in File /\ files[at'[i]] # NoSettings /\ at[i] = NoFile
    BY <1>2, <1>3, <1>6
  <2>2. memory'[i] = files[at'[i]]
    BY <1>1, <2>1, SystemSettingsAssumption
  <2> QED
    BY <1>2, <1>3, <1>5, <1>6, <2>1, <2>2
<1> QED
  BY <1>4, <1>6 DEF IInv, TypeOK

LEMMA PublishedAgree ==
    ASSUME IInv, NEW f \in File, NEW i \in Object, Read(f, i), Claim({i}),
           failed' = failed, files' = files, dirty' \in {dirty, dirty \ {f}}
    PROVE  CopiesAgree'
<1> SUFFICES ASSUME NEW j \in listed' \ failed', at'[j] \notin dirty'
             PROVE  memory'[j] = files'[at'[j]] /\ seen'[j] = memory'[j]
  BY DEF CopiesAgree
<1>1. CASE j = i
  BY <1>1, PublishFacts
<1>2. CASE j # i
  <2>1. j \in listed /\ at'[j] = at[j] /\ memory'[j] = memory[j] /\ seen'[j] = seen[j]
    BY <1>2, PublishFacts, ListedIsAt
  <2>2. at[j] # f
    BY <2>1, ListedIsAt DEF Read, Kept
  <2> QED
    BY <2>1, <2>2 DEF IInv, CopiesAgree
<1> QED
  BY <1>1, <1>2

LEMMA LoadInv ==
    ASSUME IInv, Load
    PROVE  IInv'
<1> DEFINE I == {i \in Object : at'[i] # NoFile}
<1>1. /\ Claim(I) /\ failed' = failed /\ files' = files /\ calls' = calls /\ dirty' = dirty
      /\ edits' = edits /\ granted' = granted /\ loaded' = TRUE
  BY DEF Load
<1>2. TypeOK'
  BY <1>1, LoadType, ClaimType DEF IInv, TypeOK
<1>3. listed' = I /\ listed \subseteq I
  BY <1>1, LoadFacts DEF Claim, IInv, KeptIsListed, TypeOK
<1>4. ASSUME NEW i \in I \ listed
      PROVE  told'[i] = <<New>> /\ seen'[i] = memory'[i] /\ memory'[i] = files[at'[i]]
             /\ at'[i] \in File /\ \A j \in Object \ {i} : at'[j] # at'[i]
  <2>1. at[i] = NoFile
    BY <1>4 DEF IInv, KeptIsListed
  <2>2. /\ told[i] = <<>> /\ memory'[i] = files[at'[i]] /\ at'[i] \in File
        /\ \A j \in Object \ {i} : at'[j] # at'[i]
    BY <1>4, <2>1, LoadFacts
  <2> QED
    BY <1>1, <2>2, SignalFacts DEF Claim
<1>5. ASSUME NEW i \in Object, i \notin I \ listed
      PROVE  told'[i] = told[i] /\ seen'[i] = seen[i]
  BY <1>1, <1>5 DEF Claim
<1>6. ToldAsListed'
  BY <1>3, <1>4, <1>5, SignalFacts DEF IInv, ToldAsListed
<1>7. KeptIsListed'
  BY <1>3 DEF KeptIsListed
<1>8. OneEach'
  <2> SUFFICES ASSUME NEW i \in listed', NEW j \in listed', i # j PROVE at'[i] # at'[j]
    BY DEF OneEach
  <2>1. CASE i \in listed /\ j \in listed
    BY <2>1, LoadFacts DEF IInv, OneEach
  <2>2. CASE i \notin listed \/ j \notin listed
    BY <1>3, <1>4, <2>2
  <2> QED
    BY <2>1, <2>2
<1>9. WaitingIsListed'
  BY <1>1, <1>3 DEF IInv, WaitingIsListed
<1>10. SeenIsHeld' /\ CopiesAgree'
  <2> SUFFICES ASSUME NEW i \in listed' \ failed'
               PROVE  /\ seen'[i] = memory'[i]
                      /\ at'[i] \notin dirty' => memory'[i] = files'[at'[i]]
    BY DEF SeenIsHeld, CopiesAgree
  <2>1. CASE i \in listed
    BY <1>1, <1>5, <2>1, LoadFacts DEF IInv, SeenIsHeld, CopiesAgree, TypeOK
  <2>2. CASE i \notin listed
    BY <1>1, <1>3, <1>4, <2>2
  <2> QED
    BY <2>1, <2>2
<1> QED
  BY <1>2, <1>6, <1>7, <1>8, <1>9, <1>10 DEF IInv

LEMMA EditInv ==
    ASSUME IInv, NEW f \in File, NEW s \in Settings \union {NoSettings}, EditFile(f, s)
    PROVE  IInv'
<1>1. TypeOK'
  BY SystemSettingsAssumption DEF IInv, TypeOK, EditFile, objectVars
<1>2. CopiesAgree'
  BY DEF IInv, TypeOK, EditFile, objectVars, CopiesAgree
<1> QED
  BY <1>1, <1>2 DEF IInv, EditFile, objectVars, ToldAsListed, KeptIsListed, OneEach,
     WaitingIsListed, SeenIsHeld

LEMMA AnnounceInv ==
    ASSUME IInv, NEW f \in File, AnnounceEarly(f)
    PROVE  IInv'
<1>1. PICK i \in Object : Read(f, i) /\ Claim({i})
  BY DEF AnnounceEarly
<1>2. /\ files' = files /\ edits' = edits /\ dirty' = dirty /\ loaded' = loaded
      /\ failed' = failed /\ calls' = calls /\ granted' = granted
  BY DEF AnnounceEarly
<1>3. TypeOK'
  <2>1. {i} \in SUBSET Object
    OBVIOUS
  <2> QED
    BY <1>1, <1>2, <2>1, ReadType, ClaimType DEF IInv, TypeOK
<1>4. WaitingIsListed'
  BY <1>1, <1>2, PublishFacts DEF IInv, WaitingIsListed
<1>5. CopiesAgree'
  BY <1>1, <1>2, PublishedAgree
<1> QED
  BY <1>1, <1>2, <1>3, <1>4, <1>5, PublishFacts DEF IInv

LEMMA AskInv ==
    ASSUME IInv, Clients
    PROVE  IInv'
<1>1. PICK op \in {"Update", "Delete", "GetSecrets", "Add"}, i \in Object \union {NoObject},
           s \in Settings \union {NoSettings}, reply \in Replies :
          /\ op \in {"Update", "Delete", "GetSecrets"} <=> i \in Object
          /\ op \in {"Update", "Add"} <=> s \in Settings
          /\ op # "Add" => i \in listed
          /\ Ask(op, i, s, reply)
  BY NoSettingsAssumption, SystemSettingsAssumption
     DEF Clients, CallUpdate, CallDelete, CallGetSecrets, CallAdd, WritableReply, Replies
<1>2. TypeOK'
  BY <1>1, AskType DEF IInv
<1>3. WaitingIsListed'
  <2>1. PICK n \in Call : calls' = [calls EXCEPT ![n] =
              [op |-> op, on |-> i, settings |-> s, canceled |-> FALSE, reply |-> reply]]
    BY <1>1 DEF Ask
  <2>2. listed' = listed
    BY <1>1 DEF Ask, objectVars
  <2> QED
    BY <1>1, <2>1, <2>2 DEF IInv, TypeOK, WaitingIsListed
<1> QED
  BY <1>1, <1>2, <1>3 DEF IInv, Ask, objectVars, ToldAsListed, KeptIsListed, OneEach,
     SeenIsHeld, CopiesAgree

(* What a successful or failed saving leaves of the copies of object i. *)
LEMMA SavingFacts ==
    ASSUME IInv, NEW i \in listed, UNCHANGED <<at, listed, told>>,
           \A j \in listed \ {i} : memory'[j] = memory[j],
           \A j \in listed \ {i} : at'[j] \notin dirty' => at[j] \notin dirty /\ files'[at[j]] = files[at[j]],
           \/ Saved(i) /\ (at[i] \notin dirty' => memory'[i] = files'[at[i]])
           \/ NotSaved(i)
    PROVE  SeenIsHeld' /\ CopiesAgree'
<1> SUFFICES ASSUME NEW j \in listed' \ failed'
             PROVE  /\ seen'[j] = memory'[j]
                    /\ at'[j] \notin dirty' => memory'[j] = files'[at'[j]]
  BY DEF SeenIsHeld, CopiesAgree
<1>1. j \in listed /\ j \in Object /\ i \in Object
  BY ListedIsAt
<1>2. CASE j = i
  BY <1>1, <1>2 DEF Saved, NotSaved, IInv, TypeOK
<1>3. CASE j # i
  <2>1. j \notin failed /\ seen'[j] = seen[j]
    BY <1>1, <1>3 DEF Saved, NotSaved, IInv, TypeOK
  <2> QED
    BY <1>1, <1>3, <2>1 DEF IInv, SeenIsHeld, CopiesAgree
<1> QED
  BY <1>2, <1>3

LEMMA NoticeInv ==
    ASSUME IInv, NEW f \in File, Notice(f)
    PROVE  IInv'
<1>1. TypeOK'
  BY NoticeType DEF IInv
<1>2. /\ dirty' = dirty \ {f} /\ files' = files
  BY DEF Notice
<1>3. CASE (\E i \in Object : Read(f, i) /\ Claim({i})) /\ UNCHANGED <<failed, calls>>
  <2>1. PICK i \in Object : Read(f, i) /\ Claim({i})
    BY <1>3
  <2>2. CopiesAgree'
    BY <1>2, <1>3, <2>1, PublishedAgree
  <2>3. WaitingIsListed'
    BY <1>2, <1>3, <2>1, PublishFacts DEF IInv, WaitingIsListed
  <2> QED
    BY <1>1, <1>2, <1>3, <2>1, <2>2, <2>3, PublishFacts DEF IInv
<1>4. CASE \E i \in Kept(f) : files[f] = NoSettings /\ Remove(i) /\ calls' = Canceled(calls, i)
  <2>1. PICK i \in Object : at[i] = f /\ Remove(i) /\ calls' = Canceled(calls, i)
    BY <1>4 DEF Kept
  <2>2. i \in listed
    BY <2>1, SystemSettingsAssumption DEF IInv, KeptIsListed
  <2>3. WaitingIsListed'
    BY <2>1, <2>2, RemoveFacts, CanceledFacts DEF IInv, TypeOK
  <2>4. CopiesAgree'
    <3> SUFFICES ASSUME NEW j \in listed' \ failed', at'[j] \notin dirty'
                 PROVE  memory'[j] = files'[at'[j]] /\ seen'[j] = memory'[j]
      BY DEF CopiesAgree
    <3>1. j \in listed \ failed /\ j # i /\ at'[j] = at[j] /\ memory'[j] = memory[j] /\ seen'[j] = seen[j]
      BY <2>1, <2>2, RemovedOthers
    <3>2. at[j] # f
      BY <2>1, <2>2, <3>1 DEF IInv, OneEach
    <3> QED
      BY <1>2, <3>1, <3>2 DEF IInv, CopiesAgree
  <2> QED
    BY <1>1, <2>1, <2>2, <2>3, <2>4, RemoveFacts DEF IInv
<1>5. CASE \E i \in Kept(f) : files[f] # NoSettings /\ Reread(i) /\ UNCHANGED calls
  <2>1. PICK i \in Object : at[i] = f /\ Reread(i) /\ calls' = calls
    BY <1>5 DEF Kept
  <2>2. i \in listed
    BY <2>1, SystemSettingsAssumption DEF IInv, KeptIsListed
  <2>3. \A j \in listed \ {i} : at[j] # f
    BY <2>1, <2>2 DEF IInv, OneEach
  <2>4. UNCHANGED <<at, listed, told>>
    BY <2>1 DEF Reread
  <2>5. SeenIsHeld' /\ CopiesAgree'
    <3>1. CASE memory[i] = files[at[i]] /\ UNCHANGED <<memory, failed, seen>>
      BY <1>2, <2>1, <2>3, <2>4, <3>1 DEF IInv, SeenIsHeld, CopiesAgree
    <3>2. CASE memory' = [memory EXCEPT ![i] = files[at[i]]] /\ (Saved(i) \/ NotSaved(i))
      <4>1. memory'[i] = files'[at[i]]
        BY <1>2, <2>2, <3>2, ListedIsAt DEF IInv, TypeOK
      <4>2. \A j \in listed \ {i} : memory'[j] = memory[j]
        BY <3>2, ListedIsAt DEF IInv, TypeOK
      <4> QED
        BY <1>2, <2>1, <2>2, <2>3, <2>4, <3>2, <4>1, <4>2, SavingFacts
    <3> QED
      BY <2>1, <3>1, <3>2 DEF Reread
  <2> QED
    BY <1>1, <2>1, <2>4, <2>5 DEF IInv, ToldAsListed, KeptIsListed, OneEach, WaitingIsListed
<1>6. CASE files[f] = NoSettings /\ Kept(f) = {} /\ UNCHANGED <<objectVars, calls>>
  <2>1. \A i \in listed : at[i] # f
    BY <1>6, ListedIsAt DEF Kept
  <2>2. CopiesAgree'
    BY <1>2, <1>6, <2>1 DEF IInv, CopiesAgree, objectVars
  <2> QED
    BY <1>1, <1>6, <2>2 DEF IInv, objectVars, ToldAsListed, KeptIsListed, OneEach,
       WaitingIsListed, SeenIsHeld
<1> QED
  BY <1>3, <1>4, <1>5, <1>6 DEF Notice

LEMMA AnswerInv ==
    ASSUME IInv, NEW n \in Call, NEW answer \in Answers, PolkitAnswers(n, answer)
    PROVE  IInv'
<1>1. calls[n].reply = "waiting"
  BY DEF PolkitAnswers
<1>2. TypeOK'
  BY <1>1, AnswerType, AnsweredIsKept DEF IInv
<1> DEFINE i == calls[n].on
<1>3. \A reply \in {"done", "canceled", "denied", "error"} :
         calls' = Replied(n, reply) /\ listed' = listed => WaitingIsListed'
  BY <1>1, RepliedFacts DEF Replies
<1>4. ASSUME UNCHANGED <<files, dirty, objectVars>>,
             \E reply \in {"done", "canceled", "denied", "error"} : calls' = Replied(n, reply)
      PROVE  IInv'
  <2>1. WaitingIsListed'
    BY <1>3, <1>4 DEF objectVars
  <2> QED
    BY <1>2, <1>4, <2>1 DEF IInv, objectVars, ToldAsListed, KeptIsListed, OneEach, SeenIsHeld,
       CopiesAgree
<1>5. CASE AnswerCanceled(n) \/ AnswerRefused(n, answer) \/ AnswerGetSecrets(n)
  BY <1>4, <1>5 DEF AnswerCanceled, AnswerRefused, AnswerGetSecrets
<1>6. CASE calls[n].op = "Update" /\ AnswerUpdate(n) /\ ~calls[n].canceled
  <2>1. i \in listed /\ i \in Object /\ at[i] \in File
    BY <1>1, <1>6, AnsweredIsKept, ListedIsAt
  <2>2. UNCHANGED <<at, listed, told>>
    BY <1>6 DEF AnswerUpdate
  <2>3. WaitingIsListed'
    BY <1>3, <1>6, <2>2 DEF AnswerUpdate
  <2>4. /\ memory'[i] = calls[n].settings
        /\ \A j \in listed \ {i} : memory'[j] = memory[j] /\ at[j] # at[i]
    BY <1>6, <2>1, ListedIsAt DEF AnswerUpdate, IInv, TypeOK, OneEach
  <2>5. SeenIsHeld' /\ CopiesAgree'
    <3>1. CASE /\ files' = [files EXCEPT ![at[i]] = calls[n].settings]
               /\ dirty' = dirty \union {at[i]}
               /\ Saved(i)
      <4>1. files'[at[i]] = memory'[i]
        BY <2>1, <2>4, <3>1 DEF IInv, TypeOK
      <4>2. \A j \in listed \ {i} : files'[at[j]] = files[at[j]]
        BY <2>4, <3>1, ListedIsAt DEF IInv, TypeOK
      <4> QED
        BY <2>1, <2>2, <2>4, <3>1, <4>1, <4>2, SavingFacts
    <3>2. CASE NotSaved(i) /\ UNCHANGED <<files, dirty>>
      BY <2>1, <2>2, <2>4, <3>2, SavingFacts
    <3> QED
      BY <1>6, <3>1, <3>2 DEF AnswerUpdate
  <2> QED
    BY <1>2, <2>2, <2>3, <2>5 DEF IInv, ToldAsListed, KeptIsListed, OneEach
<1>7. CASE calls[n].op = "Delete" /\ AnswerDelete(n) /\ ~calls[n].canceled
  <2>1. i \in listed /\ i \in Object /\ at[i] \in File
    BY <1>1, <1>7, AnsweredIsKept, ListedIsAt
  <2>2. CASE calls' = Replied(n, "error") /\ UNCHANGED <<files, dirty, objectVars>>
    BY <1>4, <2>2
  <2>3. CASE /\ files' = [files EXCEPT ![at[i]] = NoSettings]
             /\ dirty' = dirty \union {at[i]}
             /\ Remove(i)
             /\ calls' = Canceled(Replied(n, "done"), i)
    <3>1. Replied(n, "done") \in [Call -> MethodCalls \union {NoCall}]
      BY <1>1, RepliedType DEF IInv, Replies
    <3>2. \A m \in Call : Replied(n, "done")[m].reply = "waiting" => Replied(n, "done")[m] = calls[m]
      <4>1. calls[n] \in MethodCalls
        BY <1>1, WaitingCall DEF IInv
      <4> QED
        BY <4>1 DEF Replied, MethodCalls, IInv, TypeOK
    <3>3. WaitingIsListed'
      BY <2>1, <2>3, <3>1, <3>2, RemoveFacts, CanceledFacts
    <3>4. CopiesAgree'
      <4> SUFFICES ASSUME NEW j \in listed' \ failed', at'[j] \notin dirty'
                   PROVE  memory'[j] = files'[at'[j]] /\ seen'[j] = memory'[j]
        BY DEF CopiesAgree
      <4>1. /\ j \in listed \ failed /\ j # i /\ at'[j] = at[j]
            /\ memory'[j] = memory[j] /\ seen'[j] = seen[j]
        BY <2>1, <2>3, RemovedOthers
      <4>2. at[j] # at[i] /\ at[j] \in File
        BY <2>1, <4>1, ListedIsAt DEF IInv, OneEach
      <4> QED
        BY <2>3, <4>1, <4>2 DEF IInv, TypeOK, CopiesAgree
    <3> QED
      BY <1>2, <2>1, <2>3, <3>3, <3>4, RemoveFacts DEF IInv
  <2> QED
    BY <1>7, <2>2, <2>3 DEF AnswerDelete
<1>8. CASE calls[n].op = "Add" /\ AnswerAdd(n)
  <2>1. UNCHANGED objectVars
    BY <1>8 DEF AnswerAdd
  <2>2. WaitingIsListed'
    BY <1>3, <1>8, <2>1 DEF AnswerAdd, objectVars
  <2>3. CopiesAgree'
    BY <1>8, <2>1, ListedIsAt DEF IInv, TypeOK, AnswerAdd, objectVars, CopiesAgree
  <2> QED
    BY <1>2, <2>1, <2>2, <2>3 DEF IInv, objectVars, ToldAsListed, KeptIsListed, OneEach, SeenIsHeld
<1> QED
  BY <1>5, <1>6, <1>7, <1>8 DEF PolkitAnswers, AnswerGranted

LEMMA StutterInv == ASSUME IInv, UNCHANGED vars PROVE IInv'
  BY DEF IInv, TypeOK, ToldAsListed, KeptIsListed, OneEach, WaitingIsListed, SeenIsHeld,
     CopiesAgree, vars

LEMMA InvStep == IInv /\ [Next]_vars => IInv'
<1> SUFFICES ASSUME IInv, [Next]_vars PROVE IInv'
  OBVIOUS
<1>1. CASE \E f \in File, s \in Settings \union {NoSettings} : EditFile(f, s)
  BY <1>1, EditInv
<1>2. CASE \E f \in File : AnnounceEarly(f)
  BY <1>2, AnnounceInv
<1>3. CASE \E f \in File : Notice(f)
  BY <1>3, NoticeInv
<1>4. CASE Load
  BY <1>4, LoadInv
<1>5. CASE Clients
  BY <1>5, AskInv
<1>6. CASE \E n \in Call, answer \in Answers : PolkitAnswers(n, answer)
  BY <1>6, AnswerInv
<1>7. CASE UNCHANGED vars
  BY <1>7, StutterInv
<1> QED
  BY <1>1, <1>2, <1>3, <1>4, <1>5, <1>6, <1>7 DEF Next

LEMMA Invariant == Spec => []IInv
  BY InvInit, InvStep, PTL DEF Spec

(* Every variable keeps its type (the tables of bm-sysconfig-settings.c and  *)
(* bm-sysconfig-connection.c), for any files, settings, paths and calls.    *)
THEOREM TypeCorrect == Spec => []TypeOK
<1>1. IInv => TypeOK
  BY DEF IInv
<1> QED
  BY <1>1, Invariant, PTL

(* The signals of claim_connection() and of removed objects tell exactly    *)
(* what ListConnections would.                                              *)
THEOREM SignalsTellTheList == Spec => []ToldAsListed
<1>1. IInv => ToldAsListed
  BY DEF IInv
<1> QED
  BY <1>1, Invariant, PTL

(* The copies of a connection in its file, in its object and with clients   *)
(* agree once the plugin has heard of all changes.                          *)
THEOREM CopiesAlwaysAgree == Spec => []CopiesAgree
<1>1. IInv => CopiesAgree
  BY DEF IInv
<1> QED
  BY <1>1, Invariant, PTL

-----------------------------------------------------------------------------
(* SystemSettings implements SettingsStore *)

LEMMA RefInit == Init => Store!Init
<1> SUFFICES ASSUME Init PROVE Store!Init
  OBVIOUS
<1>1. PublishedAt = [i \in Object |-> Store!Unpublished]
  BY DEF Init, PublishedAt, Store!Unpublished
<1>2. Requested = [n \in Call |-> Store!NoRequest]
  BY DEF Init, Requested, Outcome, NoCall, Store!NoRequest
<1> QED
  BY <1>1, <1>2 DEF Init, Store!Init

LEMMA PublishedOf ==
    ASSUME IInv, NEW i \in Object
    PROVE  /\ i \in listed => PublishedAt[i] = at[i]
           /\ i \in listed => PublishedAt[i] \in File
           /\ told[i] = <<>> /\ at[i] = NoFile => PublishedAt[i] = Store!Unpublished
  BY ListedIsAt, SystemSettingsAssumption DEF PublishedAt, Store!Unpublished

LEMMA RequestOf ==
    ASSUME NEW n \in Call
    PROVE  /\ Requested[n].op = calls[n].op /\ Requested[n].on = calls[n].on
           /\ Requested[n].settings = calls[n].settings
           /\ Requested[n].outcome = Outcome(calls[n].reply)
  BY DEF Requested

LEMMA RefEdit ==
    ASSUME IInv, NEW f \in File, NEW s \in Settings \union {NoSettings}, EditFile(f, s)
    PROVE  Store!Edit
<1>1. PublishedAt' = PublishedAt /\ Requested' = Requested
  BY DEF EditFile, objectVars, PublishedAt, Requested
<1> QED
  BY <1>1 DEF EditFile, Store!Edit

LEMMA RefPublish ==
    ASSUME IInv, NEW i \in Object, NEW f \in File, Read(f, i), Claim({i}),
           UNCHANGED <<files, failed, calls, granted>>
    PROVE  Store!Publish
<1>1. files[f] # NoSettings
  BY DEF Read
<1>2. PublishedAt[i] = Store!Unpublished
  BY PublishFacts, PublishedOf
<1> DEFINE P  == {i}
           where == [j \in Object |-> f]
<1>3. PublishedAt' = [j \in Object |-> IF j \in P THEN where[j] ELSE PublishedAt[j]]
  BY PublishFacts, SystemSettingsAssumption DEF PublishedAt
<1>4. Requested' = Requested
  BY DEF Requested
<1>5. P \in SUBSET Object /\ where \in [Object -> File]
  OBVIOUS
<1>6. \A j \in P : PublishedAt[j] = Store!Unpublished /\ files[where[j]] # NoSettings
  BY <1>1, <1>2
<1> QED
  BY <1>3, <1>4, <1>5, <1>6 DEF Store!Publish

LEMMA RefLoad ==
    ASSUME IInv, Load
    PROVE  Store!Publish \/ UNCHANGED Store!vars
<1>1. UNCHANGED <<files, calls, granted>>
  BY DEF Load
<1>2. Requested' = Requested
  BY <1>1 DEF Requested
<1> DEFINE P == {i \in Object : at'[i] # at[i]}
<1>3. \A i \in P : PublishedAt[i] = Store!Unpublished /\ at'[i] \in File /\ files[at'[i]] # NoSettings
  BY LoadFacts, PublishedOf
<1>4. \A i \in Object \ P : told'[i] = told[i] \/ at[i] # NoFile
  BY DEF Load, Claim
<1>5. \A i \in Object : PublishedAt'[i] = IF i \in P THEN at'[i] ELSE PublishedAt[i]
  BY <1>3, <1>4, SystemSettingsAssumption DEF PublishedAt
<1>6. CASE P = {}
  <2>1. PublishedAt' = PublishedAt
    BY <1>5, <1>6 DEF PublishedAt
  <2> QED
    BY <1>1, <1>2, <2>1 DEF Store!vars
<1>7. CASE P # {}
  <2>1. PICK g \in File : TRUE
    BY <1>3, <1>7
  <2> DEFINE where == [i \in Object |-> IF i \in P THEN at'[i] ELSE g]
  <2>2. P \in SUBSET Object /\ where \in [Object -> File]
    BY <1>3
  <2>3. \A i \in P : PublishedAt[i] = Store!Unpublished /\ files[where[i]] # NoSettings
    BY <1>3
  <2>4. PublishedAt' = [i \in Object |-> IF i \in P THEN where[i] ELSE PublishedAt[i]]
    BY <1>5 DEF PublishedAt
  <2> HIDE DEF P, where
  <2> QED
    BY <1>1, <1>2, <2>2, <2>3, <2>4 DEF Store!Publish
<1> QED
  BY <1>6, <1>7

(* A removed object is a retracted connection. *)
LEMMA RemovedIsRetracted ==
    ASSUME IInv, NEW i \in listed, Remove(i)
    PROVE  PublishedAt' = [PublishedAt EXCEPT ![i] = Store!Retracted]
<1>1. told' = [told EXCEPT ![i] = <<New, Gone>>] /\ at' = [at EXCEPT ![i] = NoFile]
  BY RemoveFacts
<1> QED
  BY <1>1, ListedIsAt, SignalFacts DEF PublishedAt, Store!Retracted, IInv, TypeOK

(* Canceling changes no outcome. *)
LEMMA CanceledOutcome ==
    ASSUME NEW cs \in [Call -> MethodCalls \union {NoCall}], NEW i \in Object, NEW n \in Call
    PROVE  /\ Canceled(cs, i)[n].op = cs[n].op /\ Canceled(cs, i)[n].on = cs[n].on
           /\ Canceled(cs, i)[n].settings = cs[n].settings
           /\ Canceled(cs, i)[n].reply = cs[n].reply
<1>1. cs[n] \in MethodCalls \union {NoCall}
  OBVIOUS
<1>2. [cs[n] EXCEPT !.canceled = TRUE].op = cs[n].op
  BY <1>1 DEF MethodCalls, NoCall
<1>3. [cs[n] EXCEPT !.canceled = TRUE].on = cs[n].on
  BY <1>1 DEF MethodCalls, NoCall
<1>4. [cs[n] EXCEPT !.canceled = TRUE].settings = cs[n].settings
  BY <1>1 DEF MethodCalls, NoCall
<1>5. [cs[n] EXCEPT !.canceled = TRUE].reply = cs[n].reply
  BY <1>1 DEF MethodCalls, NoCall
<1> QED
  BY <1>2, <1>3, <1>4, <1>5 DEF Canceled

LEMMA RefNotice ==
    ASSUME IInv, NEW f \in File, Notice(f)
    PROVE  Store!Publish \/ Store!Retract \/ UNCHANGED Store!vars
<1>1. UNCHANGED <<files, granted>>
  BY DEF Notice
<1>2. CASE (\E i \in Object : Read(f, i) /\ Claim({i})) /\ UNCHANGED <<failed, calls>>
  BY <1>1, <1>2, RefPublish
<1>3. CASE \E i \in Kept(f) : files[f] = NoSettings /\ Remove(i) /\ calls' = Canceled(calls, i)
  <2>1. PICK i \in Object : at[i] = f /\ files[f] = NoSettings /\ Remove(i) /\ calls' = Canceled(calls, i)
    BY <1>3 DEF Kept
  <2>2. i \in listed
    BY <2>1, SystemSettingsAssumption DEF IInv, KeptIsListed
  <2>3. PublishedAt' = [PublishedAt EXCEPT ![i] = Store!Retracted]
    BY <2>1, <2>2, RemovedIsRetracted
  <2>4. Requested' = Requested
    BY <2>1, CanceledOutcome DEF Requested, IInv, TypeOK
  <2>5. PublishedAt[i] = f
    BY <2>1, <2>2, PublishedOf
  <2> QED
    BY <1>1, <2>1, <2>3, <2>4, <2>5 DEF Store!Retract
<1>4. CASE \E i \in Kept(f) : files[f] # NoSettings /\ Reread(i) /\ UNCHANGED calls
  <2>1. UNCHANGED <<at, told, calls>>
    BY <1>4 DEF Reread
  <2> QED
    BY <1>1, <2>1 DEF PublishedAt, Requested, Store!vars
<1>5. CASE UNCHANGED <<objectVars, calls>>
  BY <1>1, <1>5 DEF objectVars, PublishedAt, Requested, Store!vars
<1> QED
  BY <1>2, <1>3, <1>4, <1>5 DEF Notice

LEMMA RefAsk ==
    ASSUME IInv, Clients
    PROVE  Store!Ask
<1>1. PICK op \in {"Update", "Delete", "GetSecrets", "Add"}, i \in Object \union {NoObject},
           s \in Settings \union {NoSettings}, reply \in {"waiting", "readOnly", "unsupported"} :
          /\ op \in {"Update", "Delete", "GetSecrets"} <=> i \in Object
          /\ op \in {"Update", "Add"} <=> s \in Settings
          /\ op # "Add" => i \in listed
          /\ Ask(op, i, s, reply)
  BY NoSettingsAssumption, SystemSettingsAssumption
     DEF Clients, CallUpdate, CallDelete, CallGetSecrets, CallAdd, WritableReply
<1> DEFINE c == [op |-> op, on |-> i, settings |-> s, canceled |-> FALSE, reply |-> reply]
           r == [op |-> op, on |-> i, settings |-> s, outcome |-> Outcome(reply)]
<1>2. UNCHANGED <<files, objectVars, granted>>
  BY <1>1 DEF Ask
<1>3. PublishedAt' = PublishedAt
  BY <1>2 DEF objectVars, PublishedAt
<1>4. PICK n \in Call : calls[n] = NoCall /\ calls' = [calls EXCEPT ![n] = c]
  BY <1>1 DEF Ask
<1>5. Outcome(reply) \in {"pending", "refused"}
  BY DEF Outcome
<1>6. r \in Store!Requests
  BY <1>1, <1>5, NoSettingsAssumption, SystemSettingsAssumption DEF Store!Requests
<1>7. Requested[n] = Store!NoRequest
  BY <1>4 DEF Requested, Outcome, NoCall, Store!NoRequest
<1>8. Requested' = [Requested EXCEPT ![n] = r]
  BY <1>4 DEF Requested, IInv, TypeOK
<1>9. r.op # "Add" => PublishedAt[r.on] \in File
  BY <1>1, PublishedOf, ListedIsAt
<1>10. r.outcome \in {"pending", "refused"}
  BY <1>5
<1> HIDE DEF r
<1> QED
  BY <1>2, <1>3, <1>6, <1>7, <1>8, <1>9, <1>10 DEF Store!Ask

(* The outcome of the answered call, whatever else is canceled with it. *)
LEMMA RepliedOutcome ==
    ASSUME IInv, NEW n \in Call, calls[n].reply = "waiting",
           NEW reply \in {"done", "canceled", "denied", "error"}, calls' = Replied(n, reply)
    PROVE  Requested' = [Requested EXCEPT ![n].outcome = IF reply = "done" THEN "done" ELSE "refused"]
<1>1. calls[n] \in MethodCalls
  BY WaitingCall DEF IInv
<1>2. calls'[n] = [calls[n] EXCEPT !.reply = reply] /\ \A m \in Call \ {n} : calls'[m] = calls[m]
  BY DEF Replied, IInv, TypeOK
<1>3. /\ calls'[n].op = calls[n].op /\ calls'[n].on = calls[n].on
      /\ calls'[n].settings = calls[n].settings /\ calls'[n].reply = reply
  BY <1>1, <1>2 DEF MethodCalls
<1>4. Outcome(reply) = IF reply = "done" THEN "done" ELSE "refused"
  BY DEF Outcome
<1> DEFINE outcome == IF reply = "done" THEN "done" ELSE "refused"
<1>5. Requested'[n] = [op |-> calls[n].op, on |-> calls[n].on, settings |-> calls[n].settings,
                       outcome |-> outcome]
  BY <1>3, <1>4 DEF Requested
<1>6. [Requested[n] EXCEPT !.outcome = outcome] =
         [op |-> calls[n].op, on |-> calls[n].on, settings |-> calls[n].settings,
          outcome |-> outcome]
  BY DEF Requested
<1>7. \A m \in Call \ {n} : Requested'[m] = Requested[m]
  BY <1>2 DEF Requested
<1>8. Requested' = [m \in Call |-> Requested'[m]] /\ Requested = [m \in Call |-> Requested[m]]
  BY DEF Requested
<1> HIDE DEF outcome
<1>9. Requested' = [Requested EXCEPT ![n].outcome = outcome]
  BY <1>5, <1>6, <1>7, <1>8
<1> QED
  BY <1>9 DEF outcome

LEMMA RefAnswer ==
    ASSUME IInv, NEW n \in Call, NEW answer \in Answers, PolkitAnswers(n, answer)
    PROVE  Store!Perform(n) \/ Store!Refuse(n)
<1>1. calls[n].reply = "waiting" /\ granted' = IF answer = "yes" THEN granted \union {n} ELSE granted
  BY DEF PolkitAnswers
<1>2. Requested[n].outcome = "pending"
  BY <1>1 DEF Requested, Outcome
<1>3. granted' \in {granted, granted \union {n}}
  BY <1>1
<1>4. ASSUME UNCHANGED <<files, objectVars>>,
             \E reply \in {"canceled", "denied", "error"} : calls' = Replied(n, reply)
      PROVE  Store!Refuse(n)
  <2>1. PublishedAt' = PublishedAt
    BY <1>4 DEF objectVars, PublishedAt
  <2>2. Requested' = [Requested EXCEPT ![n].outcome = "refused"]
    BY <1>1, <1>4, RepliedOutcome
  <2> QED
    BY <1>2, <1>3, <1>4, <2>1, <2>2 DEF Store!Refuse
<1>5. CASE AnswerCanceled(n) \/ AnswerRefused(n, answer)
  BY <1>4, <1>5 DEF AnswerCanceled, AnswerRefused
<1>6. CASE ~calls[n].canceled /\ answer = "yes" /\ AnswerGranted(n, answer)
  <2>1. granted' = granted \union {n}
    BY <1>1, <1>6
  <2>2. ASSUME calls' = Replied(n, "done")
        PROVE  Requested' = [Requested EXCEPT ![n].outcome = "done"]
    BY <1>1, <2>2, RepliedOutcome
  <2>3. CASE calls[n].op = "Update" /\ AnswerUpdate(n)
    <3>1. PublishedAt' = PublishedAt
      BY <2>3 DEF AnswerUpdate, PublishedAt
    <3>2. PublishedAt[calls[n].on] = at[calls[n].on] /\ PublishedAt[calls[n].on] \in File
      BY <1>1, <1>6, <2>3, AnsweredIsKept, ListedIsAt, PublishedOf
    <3>3. CASE files' = [files EXCEPT ![at[calls[n].on]] = calls[n].settings] /\ calls' = Replied(n, "done")
      BY <1>2, <2>1, <2>2, <2>3, <3>1, <3>2, <3>3, RequestOf DEF Store!Perform, Store!Update
    <3>4. CASE UNCHANGED files /\ calls' = Replied(n, "error")
      <4>1. Requested' = [Requested EXCEPT ![n].outcome = "refused"]
        BY <1>1, <3>4, RepliedOutcome
      <4> QED
        BY <1>2, <1>3, <3>1, <3>4, <4>1 DEF Store!Refuse
    <3> QED
      BY <2>3, <3>3, <3>4 DEF AnswerUpdate
  <2>4. CASE calls[n].op = "Delete" /\ AnswerDelete(n)
    <3>1. /\ calls[n].on \in listed /\ calls[n].on \in Object
          /\ PublishedAt[calls[n].on] = at[calls[n].on] /\ PublishedAt[calls[n].on] \in File
      BY <1>1, <1>6, <2>4, AnsweredIsKept, ListedIsAt, PublishedOf
    <3>2. CASE UNCHANGED <<files, objectVars>> /\ calls' = Replied(n, "error")
      BY <1>4, <3>2
    <3>3. CASE /\ files' = [files EXCEPT ![at[calls[n].on]] = NoSettings]
               /\ Remove(calls[n].on)
               /\ calls' = Canceled(Replied(n, "done"), calls[n].on)
      <4>1. PublishedAt' = [PublishedAt EXCEPT ![calls[n].on] = Store!Retracted]
        BY <3>1, <3>3, RemovedIsRetracted
      <4>2. Requested' = [Requested EXCEPT ![n].outcome = "done"]
        <5> DEFINE cs == Replied(n, "done")
        <5>1. cs \in [Call -> MethodCalls \union {NoCall}]
          BY <1>1, RepliedType DEF IInv, Replies
        <5>2. /\ cs[n].op = calls[n].op /\ cs[n].on = calls[n].on
              /\ cs[n].settings = calls[n].settings /\ cs[n].reply = "done"
              /\ \A m \in Call \ {n} : cs[m] = calls[m]
          <6>1. calls[n] \in MethodCalls
            BY <1>1, WaitingCall DEF IInv
          <6> QED
            BY <6>1 DEF Replied, MethodCalls, IInv, TypeOK
        <5> HIDE DEF cs
        <5>3. calls' = Canceled(cs, calls[n].on)
          BY <3>3 DEF cs
        <5>4. \A m \in Call : /\ calls'[m].op = cs[m].op /\ calls'[m].on = cs[m].on
                              /\ calls'[m].settings = cs[m].settings /\ calls'[m].reply = cs[m].reply
          BY <3>1, <5>1, <5>3, CanceledOutcome
        <5>5. Outcome("done") = "done"
          BY DEF Outcome
        <5>6. ASSUME NEW m \in Call
              PROVE  Requested'[m] = [Requested EXCEPT ![n].outcome = "done"][m]
          <6>1. /\ Requested'[m].op = calls[m].op /\ Requested'[m].on = calls[m].on
                /\ Requested'[m].settings = calls[m].settings
                /\ Requested'[m].outcome = IF m = n THEN "done" ELSE Outcome(calls[m].reply)
            BY <5>2, <5>4, <5>5 DEF Requested
          <6> QED
            BY <6>1 DEF Requested
        <5> QED
          BY <5>6 DEF Requested
      <4> QED
        BY <1>2, <2>1, <2>4, <3>1, <3>3, <4>1, <4>2, RequestOf DEF Store!Perform, Store!Delete
    <3> QED
      BY <2>4, <3>2, <3>3 DEF AnswerDelete
  <2>5. CASE calls[n].op = "GetSecrets" /\ AnswerGetSecrets(n)
    <3>1. UNCHANGED <<files, objectVars>>
      BY <2>5 DEF AnswerGetSecrets
    <3>2. CASE calls' = Replied(n, "error")
      BY <1>4, <3>1, <3>2
    <3>3. CASE calls' = Replied(n, "done")
      <4>1. PublishedAt' = PublishedAt
        BY <3>1 DEF objectVars, PublishedAt
      <4>2. PublishedAt[calls[n].on] \in File
        BY <1>1, <1>6, <2>5, AnsweredIsKept, ListedIsAt, PublishedOf
      <4> QED
        BY <1>2, <2>1, <2>2, <2>5, <3>1, <3>3, <4>1, <4>2, RequestOf
           DEF Store!Perform, Store!GetSecrets
    <3> QED
      BY <2>5, <3>2, <3>3 DEF AnswerGetSecrets
  <2>6. CASE calls[n].op = "Add" /\ AnswerAdd(n)
    <3>1. UNCHANGED objectVars
      BY <2>6 DEF AnswerAdd
    <3>2. PublishedAt' = PublishedAt
      BY <3>1 DEF objectVars, PublishedAt
    <3>3. CASE calls' = Replied(n, "error") /\ UNCHANGED files
      BY <1>4, <3>1, <3>3
    <3>4. CASE /\ calls' = Replied(n, "done")
               /\ \E f \in File : /\ files[f] = NoSettings
                                  /\ files' = [files EXCEPT ![f] = calls[n].settings]
      BY <1>2, <2>1, <2>2, <2>6, <3>2, <3>4, RequestOf DEF Store!Perform, Store!Add
    <3> QED
      BY <2>6, <3>3, <3>4 DEF AnswerAdd
  <2> QED
    BY <1>6, <2>3, <2>4, <2>5, <2>6 DEF AnswerGranted
<1> QED
  BY <1>5, <1>6 DEF PolkitAnswers, AnswerGranted, Authorized

LEMMA RefStep ==
    ASSUME IInv, [Next]_vars
    PROVE  [Store!Next]_(Store!vars)
<1>1. CASE \E f \in File, s \in Settings \union {NoSettings} : EditFile(f, s)
  BY <1>1, RefEdit DEF Store!Next
<1>2. CASE \E f \in File : AnnounceEarly(f)
  <2>1. PICK f \in File, i \in Object : Read(f, i) /\ Claim({i}) /\ UNCHANGED <<files, failed, calls, granted>>
    BY <1>2 DEF AnnounceEarly
  <2> QED
    BY <2>1, RefPublish DEF Store!Next
<1>3. CASE \E f \in File : Notice(f)
  BY <1>3, RefNotice DEF Store!Next
<1>4. CASE Load
  BY <1>4, RefLoad DEF Store!Next
<1>5. CASE Clients
  BY <1>5, RefAsk DEF Store!Next
<1>6. CASE \E n \in Call, answer \in Answers : PolkitAnswers(n, answer)
  BY <1>6, RefAnswer DEF Store!Next
<1>7. CASE UNCHANGED vars
  BY <1>7 DEF vars, PublishedAt, Requested, Store!vars
<1> QED
  BY <1>1, <1>2, <1>3, <1>4, <1>5, <1>6, <1>7 DEF Next

(* The service implements SettingsStore: what pk_update_cb(), pk_delete_cb(), *)
(* pk_secrets_cb() and pk_add_cb() do is one granted request performed on a   *)
(* published connection, or a refusal that saves nothing.                     *)
THEOREM Implementation == Spec => StoreSpec
<1>1. Init => Store!Init
  BY RefInit
<1>2. IInv /\ [Next]_vars => [Store!Next]_(Store!vars)
  BY RefStep
<1> QED
  BY <1>1, <1>2, Invariant, PTL DEF Spec, StoreSpec, Store!Spec
=============================================================================
