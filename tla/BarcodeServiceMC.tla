-------------------------- MODULE BarcodeServiceMC --------------------------
(* The two small services of the repository, each by itself: the barcode    *)
(* service with a scanner and a mouse, and the dispatcher (Dispatcher).     *)
EXTENDS BarcodeService

CONSTANTS s1, mouse, QuitAfter, MaxFile, MaxAction, MaxEdits

VARIABLES
    part,  \* which of the two a behaviour is about
    name, calls, stage, persist, quit, lost, timers, idle, cutShort, scripts, unread, listing, edits

Dispatch == INSTANCE Dispatcher
            WITH owner <- name, pc <- stage, files <- scripts, scripts <- listing

dispatcherVars ==
    <<name, calls, stage, persist, quit, lost, timers, idle, cutShort, scripts, unread, listing,
      edits>>
allVars == <<part, vars, dispatcherVars>>

MCInit ==
    /\ part \in {"barcode", "dispatcher"}
    /\ Init /\ Dispatch!Init
    /\ part = "barcode" => \A f \in 1 .. MaxFile : scripts[f] = "none"

BarcodeDoes(A) == part = "barcode" /\ A /\ UNCHANGED <<part, dispatcherVars>>
DispatcherDoes(A) == part = "dispatcher" /\ A /\ UNCHANGED <<part, vars>>

MCNext == BarcodeDoes(Next) \/ DispatcherDoes(Dispatch!Next)

(* The fairness of both modules, each where it is the part that moves. *)
MCSpec ==
    /\ MCInit /\ [][MCNext]_allVars
    /\ WF_allVars(BarcodeDoes(Advance))
    /\ WF_allVars(BarcodeDoes(Receive))
    /\ WF_allVars(DispatcherDoes(Dispatch!Advance))
    /\ WF_allVars(DispatcherDoes(Dispatch!Activate(FALSE)))
    /\ WF_allVars(DispatcherDoes(Dispatch!Second))

-----------------------------------------------------------------------------
(* Properties of Dispatcher *)

(* Neither an action nor the wait for one is cut short by an older timeout;  *)
(* the safe scripts are listed, no others, in the order of their names; and  *)
(* every call of Action is answered in the end.                             *)
DispatcherServes ==
    /\ [](Dispatch!BackedOff /\ Dispatch!ScriptsListed)
    /\ Dispatch!ActionsAnswered
=============================================================================
