------------------------------ MODULE AuthChain ------------------------------
(***************************************************************************)
(* The authorization chain of bm-manager-auth.c: a list of outstanding     *)
(* PolicyKit calls made on behalf of one bus name, the first error any of  *)
(* them met and the result of each permission.  The chain's owner is told  *)
(* once, when the last outstanding call has answered.                      *)
(*                                                                         *)
(* These are operators on a chain, a record; the components that start     *)
(* chains (UserSettings, Manager) keep the set of chains in flight.  *)
(***************************************************************************)
EXTENDS Naturals

(* BMAuthCallResult *)
Results == {"UNKNOWN", "YES", "AUTH", "NO"}

(* What PolicyKit may answer to one CheckAuthorization call. *)
Answers == (Results \ {"UNKNOWN"}) \union {"ERROR"}

(* The results under which a permission may still be obtained. *)
Obtainable == {"YES", "AUTH"}

(* _auth_chain_new: nothing asked yet.  A permission that no call answered  *)
(* reads as UNKNOWN (a missing key of the data hash).                       *)
EmptyChain(owner, permissions) ==
    [owner |-> owner,
     calls |-> {},
     error |-> FALSE,
     data  |-> [p \in permissions |-> "UNKNOWN"]]

(* bm_auth_chain_add_call, once for each permission: PolicyKit is asked     *)
(* about the owner and the call is outstanding.                             *)
AddCalls(chain, permissions) ==
    [chain EXCEPT !.calls = @ \union permissions]

(* A chain with one outstanding call for each permission. *)
NewChain(owner, permissions) ==
    AddCalls(EmptyChain(owner, permissions), permissions)

ChainOf(Owners, permissions) ==
    [owner: Owners,
     calls: SUBSET permissions,
     error: BOOLEAN,
     data:  [permissions -> Results]]

(* bm_auth_chain_set_data, which the default call_func uses for a result. *)
SetData(chain, p, result) ==
    [chain EXCEPT !.data[p] = result]

(* pk_call_cb: the call leaves the list; an error is kept on the chain and  *)
(* leaves the permission unanswered, a result is stored under it.           *)
CallAnswered(chain, p, answer) ==
    LET left == [chain EXCEPT !.calls = @ \ {p}]
    IN  IF answer = "ERROR" THEN [left EXCEPT !.error = TRUE]
                            ELSE SetData(left, p, answer)

(* bm_auth_chain_check_done: the chain's callback runs once nothing is outstanding. *)
ChainDone(chain) == chain.calls = {}

=============================================================================
