---------------------------- MODULE Permissions ----------------------------
(***************************************************************************)
(* What a user may change of the system's connections: GetPermissions and  *)
(* CheckPermissions of the daemon's BMSysconfigSettings, the cache of      *)
(* libbm-glib's BMRemoteSettingsSystem, and the buttons of the connection  *)
(* editor that are sensitive only while PolicyKit allows the change.       *)
(*                                                                         *)
(* Three processes, each one main loop: polkitd, the daemon, the editor.   *)
(* PolicyKit's answers and its Changed come to the daemon in one order,    *)
(* the daemon's replies and its CheckPermissions to the editor in another. *)
(* Permission checks allow no interaction, so polkitd answers them one     *)
(* after the other, by what the policy is at that time.                    *)
(***************************************************************************)
EXTENDS Naturals, Sequences, FiniteSets

CONSTANTS
    MaxButton,  \* bound: buttons the editor ever makes
    MaxChange,  \* bound: changes of the policy
    MaxFault    \* bound: checks PolicyKit fails to answer, and exits of the daemon

VARIABLES
    capable,     \* the permissions some plugin of the daemon has a use for
    policy,      \* polkitd: what the user is, or could be, authorized to do
    changes,     \* polkitd: changes of the policy so far
    faults,      \* checks that failed and exits of the daemon so far
    asked,       \* checks on their way to polkitd
    answers,     \* answers and Changed on their way to the daemon
    up,          \* the daemon runs
    left,        \* daemon: PolkitCall.permissions_calls of the PolkitCalls there are
    found,       \* daemon: PolkitCall.permissions of the same
    requests,    \* GetPermissions on their way to the daemon
    inbox,       \* replies and CheckPermissions on their way to the editor
    owner,       \* editor: the button that made each call, in order
    waiting,     \* editor: calls with no reply yet
    have,        \* BMRemoteSettingsSystem: have_permissions
    permissions, \* BMRemoteSettingsSystem: permissions
    buttons,     \* editor: the buttons that live, in the order they connected
    made,        \* editor: buttons made so far, the disposed ones with them
    authorized,  \* editor: the buttons with priv->authorized
    cached,      \* history: the buttons told last from the cache
    faulty,      \* history: the calls with a check that failed
    failed,      \* history: the buttons last told by a call that met an error
    blind        \* history: no daemon was there to tell of a change

polkitVars == <<policy, changes>>
daemonVars == <<left, found>>
editorVars == <<owner, waiting, have, permissions, buttons, made, authorized, cached, failed>>
vars == <<capable, polkitVars, faults, asked, answers, up, daemonVars, requests, inbox,
          editorVars, faulty, blind>>

-----------------------------------------------------------------------------
(* Data *)

ConnectionModify == "connection-modify"
HostnameModify   == "hostname-modify"
Permission       == {ConnectionModify, HostnameModify}

(* The buttons, in the order they are made. *)
Button == 1 .. MaxButton

(* Every button calls when it is made and once for each CheckPermissions,   *)
(* and calls are numbered as they are made.                                 *)
Call == 1 .. MaxButton * (1 + MaxChange)

Check(c, p)     == [type |-> "check", call |-> c, of |-> p]
Answer(k, says) == [type |-> "answer", call |-> k.call, of |-> k.of, says |-> says]
Changed         == [type |-> "changed"]

CheckPermissions == [type |-> "check-permissions"]
Reply(c, perms)  == [type |-> "reply", call |-> c, permissions |-> perms]
ErrorReply(c)    == [type |-> "error", call |-> c]

ToSet(s) == {s[i] : i \in DOMAIN s}

(* The k-th of a set of numbers *)
Nth(S, k) == CHOOSE i \in S : Cardinality({j \in S : j <= i}) = k

(* A function without the value for c *)
Without(f, c) == [k \in DOMAIN f \ {c} |-> f[k]]

Init ==
    /\ capable \in SUBSET Permission
    /\ policy \in SUBSET Permission
    /\ changes = 0
    /\ faults = 0
    /\ asked = <<>>
    /\ answers = <<>>
    /\ up = TRUE
    /\ left = <<>>
    /\ found = <<>>
    /\ requests = <<>>
    /\ inbox = <<>>
    /\ owner = <<>>
    /\ waiting = {}
    /\ have = FALSE
    /\ permissions = {}
    /\ buttons = <<>>
    /\ made = 0
    /\ authorized = {}
    /\ cached = {}
    /\ faulty = {}
    /\ failed = {}
    /\ blind = FALSE

-----------------------------------------------------------------------------
(* polkitd *)

(* An administrator edits the policy, or the user's session changes. *)
PolicyChanges(to) ==
    /\ changes < MaxChange
    /\ to # policy
    /\ policy' = to
    /\ changes' = changes + 1
    /\ answers' = IF up THEN Append(answers, Changed) ELSE answers
    /\ blind' = (blind \/ ~up)
    /\ UNCHANGED <<capable, faults, asked, up, daemonVars, requests, inbox, editorVars,
                   faulty>>

PolkitAnswers(says) ==
    /\ asked # <<>>
    /\ asked' = Tail(asked)
    /\ says # "error" => says = IF Head(asked).of \in policy THEN "yes" ELSE "no"
    /\ says = "error" => faults < MaxFault
    /\ faults' = IF says = "error" THEN faults + 1 ELSE faults
    /\ answers' = Append(answers, Answer(Head(asked), says))
    /\ UNCHANGED <<capable, policy, changes, up, daemonVars, requests, inbox, editorVars,
                   faulty, blind>>

-----------------------------------------------------------------------------
(* The daemon *)

(* polkit_call_new, and start_permission_check for each permission: it is   *)
(* counted, then asked.                                                     *)
StartChecks(c, perms) ==
    LET one(p) == IF p \in perms THEN <<Check(c, p)>> ELSE <<>>
    IN  /\ asked' = asked \o one(ConnectionModify) \o one(HostnameModify)
        /\ left' = [k \in DOMAIN left \union {c} |-> IF k = c THEN Cardinality(perms) ELSE left[k]]
        /\ found' = [k \in DOMAIN found \union {c} |-> IF k = c THEN {} ELSE found[k]]

(* With no plugin for any permission nothing is asked, and nothing ever     *)
(* answers the call.                                                        *)
GetPermissions ==
    /\ requests # <<>>
    /\ requests' = Tail(requests)
    /\ StartChecks(Head(requests), capable)
    /\ UNCHANGED <<capable, polkitVars, faults, answers, up, inbox, editorVars, faulty, blind>>

(* Mutant of PermissionCallDone: an error returns before the counter. *)
PermissionCallDoneErrorReturns(a) ==
    LET c     == a.call
        perms == found[c] \union (IF a.says = "yes" THEN {a.of} ELSE {})
    IN  IF a.says = "error"
        THEN faulty' = faulty \union {c} /\ UNCHANGED <<left, found, inbox>>
        ELSE /\ IF left[c] = 1
                THEN /\ inbox' = Append(inbox, Reply(c, perms))
                     /\ left' = Without(left, c)
                     /\ found' = Without(found, c)
                ELSE /\ left' = [left EXCEPT ![c] = @ - 1]
                     /\ found' = [found EXCEPT ![c] = perms]
                     /\ UNCHANGED inbox
             /\ UNCHANGED faulty

(* permission_call_done: a failed check leaves its bit clear; the last of   *)
(* the call's checks answers it and frees the PolkitCall.                   *)
PermissionCallDone(a) ==
    LET c     == a.call
        perms == found[c] \union (IF a.says = "yes" THEN {a.of} ELSE {})
    IN  /\ IF left[c] = 1
           THEN /\ inbox' = Append(inbox, Reply(c, perms))
                /\ left' = Without(left, c)
                /\ found' = Without(found, c)
           ELSE /\ left' = [left EXCEPT ![c] = @ - 1]
                /\ found' = [found EXCEPT ![c] = perms]
                /\ UNCHANGED inbox
        /\ faulty' = IF a.says = "error" THEN faulty \union {c} ELSE faulty

HandlePolkit ==
    /\ answers # <<>>
    /\ answers' = Tail(answers)
    /\ IF Head(answers).type = "changed"
       THEN /\ inbox' = Append(inbox, CheckPermissions)
            /\ UNCHANGED <<daemonVars, faulty>>
       ELSE PermissionCallDone(Head(answers))
    /\ UNCHANGED <<capable, polkitVars, faults, asked, up, requests, editorVars, blind>>

(* Calls with no answer on its way *)
Unanswered ==
    waiting \ {inbox[i].call : i \in {j \in DOMAIN inbox : inbox[j].type # "check-permissions"}}

(* The bus answers what the daemon did not, in the order of the calls; the  *)
(* daemon's main loop runs no callback any more.                            *)
DaemonExits ==
    /\ up
    /\ faults < MaxFault
    /\ faults' = faults + 1
    /\ up' = FALSE
    /\ inbox' = inbox \o [k \in 1 .. Cardinality(Unanswered) |-> ErrorReply(Nth(Unanswered, k))]
    /\ asked' = <<>>
    /\ answers' = <<>>
    /\ requests' = <<>>
    /\ left' = <<>>
    /\ found' = <<>>
    /\ blind' = (blind \/ \E i \in DOMAIN answers : answers[i].type = "changed")
    /\ UNCHANGED <<capable, polkitVars, editorVars, faulty>>

DaemonStarts ==
    /\ ~up
    /\ up' = TRUE
    /\ UNCHANGED <<capable, polkitVars, faults, asked, answers, daemonVars, requests, inbox,
                   editorVars, faulty, blind>>

-----------------------------------------------------------------------------
(* The editor: BMRemoteSettingsSystem and the buttons *)

(* Buttons ask by calls of their own; the rest of the inbox follows. *)
Ask(bs, rest) ==
    LET ids == [i \in DOMAIN bs |-> Len(owner) + i]
    IN  /\ owner' = owner \o bs
        /\ waiting' = waiting \union ToSet(ids)
        /\ requests' = IF up THEN requests \o ids ELSE requests
        /\ inbox' = IF up THEN rest ELSE rest \o [i \in DOMAIN ids |-> ErrorReply(ids[i])]

(* get_permissions_cb of a button. *)
Tell(b, perms) ==
    authorized' = IF ConnectionModify \in perms THEN authorized \union {b} ELSE authorized \ {b}

(* ce_polkit_button_new: what is cached is taken at once. *)
NewButton(b) ==
    /\ b = made + 1
    /\ made' = b
    /\ buttons' = Append(buttons, b)
    /\ IF have
       THEN /\ Tell(b, permissions)
            /\ cached' = cached \union {b}
            /\ UNCHANGED <<requests, inbox, owner, waiting>>
       ELSE /\ Ask(<<b>>, inbox)
            /\ UNCHANGED <<authorized, cached>>
    /\ UNCHANGED <<capable, polkitVars, faults, asked, answers, up, daemonVars, have, permissions,
                   faulty, failed, blind>>

(* The calls of a disposed button go on, for nobody. *)
DisposeButton(b) ==
    /\ \E k \in DOMAIN buttons :
        /\ buttons[k] = b
        /\ buttons' = [i \in 1 .. Len(buttons) - 1 |-> buttons[IF i < k THEN i ELSE i + 1]]
    /\ authorized' = authorized \ {b}
    /\ cached' = cached \ {b}
    /\ failed' = failed \ {b}
    /\ UNCHANGED <<capable, polkitVars, faults, asked, answers, up, daemonVars, requests, inbox,
                   owner, waiting, have, permissions, made, faulty, blind>>

Receive(type) == inbox # <<>> /\ Head(inbox).type = type

(* get_permissions_cb of the settings, then that of the button. *)
GetPermissionsDone(c, perms, error) ==
    /\ waiting' = waiting \ {c}
    /\ permissions' = perms
    /\ have' = ~error
    /\ IF owner[c] \in ToSet(buttons)
       THEN /\ Tell(owner[c], perms)
            /\ cached' = cached \ {owner[c]}
            /\ failed' = IF error \/ c \in faulty THEN failed \union {owner[c]}
                                                  ELSE failed \ {owner[c]}
       ELSE UNCHANGED <<authorized, cached, failed>>
    /\ inbox' = Tail(inbox)
    /\ UNCHANGED <<capable, polkitVars, faults, asked, answers, up, daemonVars, requests, owner,
                   buttons, made, faulty, blind>>

HandleReply == Receive("reply") /\ GetPermissionsDone(Head(inbox).call, Head(inbox).permissions, FALSE)

HandleError == Receive("error") /\ GetPermissionsDone(Head(inbox).call, {}, TRUE)

(* Mutant of HandleCheckPermissions: a button with a call under way waits   *)
(* for that one.                                                            *)
HandleCheckPermissionsOnce ==
    /\ Receive("check-permissions")
    /\ have' = FALSE
    /\ Ask(SelectSeq(buttons, LAMBDA b : b \notin {owner[c] : c \in waiting}), Tail(inbox))
    /\ UNCHANGED <<capable, polkitVars, faults, asked, answers, up, daemonVars, permissions,
                   buttons, made, authorized, cached, faulty, failed, blind>>

(* check_permissions_cb of the settings: the cache is void, and every       *)
(* button asks anew in its own.                                             *)
HandleCheckPermissions ==
    /\ Receive("check-permissions")
    /\ have' = FALSE
    /\ Ask(buttons, Tail(inbox))
    /\ UNCHANGED <<capable, polkitVars, faults, asked, answers, up, daemonVars, permissions,
                   buttons, made, authorized, cached, faulty, failed, blind>>

-----------------------------------------------------------------------------
(* Specification *)

Polkit == \/ \E to \in SUBSET Permission : PolicyChanges(to)
          \/ \E says \in {"yes", "no", "error"} : PolkitAnswers(says)

Daemon == GetPermissions \/ HandlePolkit \/ DaemonExits \/ DaemonStarts

Dispatch == HandleReply \/ HandleError \/ HandleCheckPermissions

Next ==
    \/ Polkit
    \/ Daemon
    \/ \E b \in Button : NewButton(b) \/ DisposeButton(b)
    \/ Dispatch

Spec == Init /\ [][Next]_vars

(* polkitd answers what it is asked; the daemon and the editor run their    *)
(* main loops.  Nothing makes the daemon start again.                       *)
FairSpec ==
    /\ Spec
    /\ WF_vars(\E says \in {"yes", "no", "error"} : PolkitAnswers(says))
    /\ WF_vars(GetPermissions)
    /\ WF_vars(HandlePolkit)
    /\ WF_vars(Dispatch)

-----------------------------------------------------------------------------
(* Properties *)

Allowed == ConnectionModify \in policy \intersect capable

Quiet == /\ asked = <<>> /\ answers = <<>> /\ requests = <<>> /\ inbox = <<>>
         /\ waiting = {} \/ capable = {}

(* "If polkit is in-use, the button is only actionable if the operation is  *)
(* authorized or able to be authorized via user authentication"             *)
(* (ce-polkit-button.c:135): once all is answered a button is sensitive     *)
(* exactly when PolicyKit allows it, however changes of the policy, checks, *)
(* replies, disposals and restarts of the daemon crossed.  It is insensitive*)
(* without reason only if its last call failed.  Left out: a button told    *)
(* from the cache, and policies that changed while no daemon listened.      *)
ButtonsRight ==
    Quiet /\ ~blind =>
        \A b \in ToSet(buttons) \ cached :
            /\ b \in authorized => Allowed
            /\ Allowed => b \in authorized \union failed

(* A GetPermissions is answered, whatever PolicyKit answers, if some plugin *)
(* has a use for a permission (permissions_calls of PolkitCall reaches 0).  *)
Answered ==
    \A c \in Call : (c \in waiting /\ capable # {}) ~> (c \notin waiting)
=============================================================================
