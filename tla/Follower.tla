------------------------------ MODULE Follower ------------------------------
(***************************************************************************)
(* What a client library promises about somebody else's list: there is a   *)
(* list of published items, each at a path and each change of it with a    *)
(* version of its own, and a view that follows it.  The view may lag, and  *)
(* may skip versions, but it never shows what was not published at that    *)
(* path and never goes back: once a version was shown or taken away, only  *)
(* newer ones are shown at its path.                                       *)
(*                                                                         *)
(* RemoteSettings implements this specification.                           *)
(***************************************************************************)
EXTENDS Naturals

CONSTANTS
    Path,
    Nothing     \* no item at a path; a version lower than all others

VARIABLES
    published,  \* every <<path, version>> the service ever published
    view,       \* the version shown at each path
    top         \* the newest version ever shown at each path

vars == <<published, view, top>>

Init ==
    /\ published \subseteq Path \X Nat
    /\ view = [p \in Path |-> Nothing]
    /\ top = [p \in Path |-> Nothing]

Publish ==
    /\ published \subseteq published'
    /\ UNCHANGED <<view, top>>

(* At some paths the view catches up with a newer version, at others what   *)
(* was shown is taken away.                                                 *)
Follow ==
    /\ \A p \in Path :
          \/ view'[p] \in {view[p], Nothing} /\ top'[p] = top[p]
          \/ <<p, view'[p]>> \in published /\ view'[p] > top[p] /\ top'[p] = view'[p]
    /\ UNCHANGED published

Next == Publish \/ Follow

Spec == Init /\ [][Next]_vars
=============================================================================
