-------------------------- MODULE ClientObjectsMC ---------------------------
(* What a program does with libbm-glib's objects, each by itself: it follows *)
(* the daemon's devices and properties (ClientObjects), and it edits and     *)
(* deletes a system connection (RemoteCalls).                                *)
EXTENDS ClientObjects

CONSTANTS Call, Value, ReadOnly, Invalid, MaxOther

VARIABLES
    part,  \* which of the two a behaviour is about
    up, registered, settings, waiting, requests, replies, edits, listing, held, used, content,
    removing, calls, edited, performed, applied

Calls == INSTANCE RemoteCalls
         WITH exported <- registered, inbox <- replies, changes <- edits, MaxChange <- MaxOther

callVars == <<up, registered, settings, waiting, requests, replies, edits, listing, held, used,
              content, removing, calls, edited, performed, applied>>
allVars == <<part, vars, callVars>>

MCInit ==
    /\ part \in {"objects", "calls"}
    /\ Init /\ Calls!Init
    /\ part = "calls" => running = 0
    /\ part = "objects" => settings \in ReadOnly /\ ~used

ObjectsDo(A) == part = "objects" /\ A /\ UNCHANGED <<part, callVars>>
CallsDo(A) == part = "calls" /\ A /\ UNCHANGED <<part, vars>>

MCNext == ObjectsDo(Next) \/ CallsDo(Calls!Next)

(* The fairness of ClientObjects; nothing in RemoteCalls needs any. *)
MCSpec ==
    /\ MCInit /\ [][MCNext]_allVars
    /\ WF_allVars(ObjectsDo(EmitPropertiesChanged))
    /\ WF_allVars(ObjectsDo(Blocked))
    /\ WF_allVars(ObjectsDo(Handle))
    /\ WF_allVars(ObjectsDo(ReadProperties))

-----------------------------------------------------------------------------
(* Properties of RemoteCalls *)

(* What a callback tells is so, and in the object before it is told. *)
CallsSeen == Calls!CallsSeen
=============================================================================
