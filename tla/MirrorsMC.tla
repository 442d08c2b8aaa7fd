------------------------------ MODULE MirrorsMC ------------------------------
(* Three copies that must follow what they are copies of, each by itself:   *)
(* the permissions that two buttons of the editor show (Permissions), the   *)
(* hostname that a client shows (Hostname), and the list of connections     *)
(* that the applet keeps of GConf's (GConfSettings).                        *)
EXTENDS Naturals

CONSTANTS
    MaxButton, MaxChange, MaxFault,
    HostName, Modifiers, MaxEdit, MaxCall, MaxExit,
    MaxDir, MaxVersion, MaxList, MaxNotes, MaxStart

ASSUME MirrorsAssumption ==
    /\ {MaxButton, MaxChange, MaxFault} \subseteq Nat
    /\ MaxCall \in Nat
    /\ {MaxDir, MaxList, MaxNotes} \subseteq Nat
    /\ {MaxVersion, MaxStart} \subseteq Nat \ {0}

VARIABLES
    part,  \* which of the three a behaviour is about
    capable, policy, changes, faults, polled, answers, serving, left, found, waited, told, owner,
    waiting, have, permissions, buttons, made, authorized, cached, faulty, failed, unaware,
    config, broken, canHost, hosts, runs, plugins, checks, toDaemon, toClient, hostname, canModify,
    calls, edits, exits, known, unheard,
    gconf, notes, cache, version, starts, reading, list, pending, deleted, crowded

Buttons == INSTANCE Permissions
           WITH asked <- polled, up <- serving, requests <- waited, inbox <- told, blind <- unaware

Host == INSTANCE Hostname
        WITH capable <- canHost, up <- runs, asked <- checks, requests <- toDaemon,
             inbox <- toClient, blind <- unheard

Applet == INSTANCE GConfSettings

buttonVars ==
    <<capable, policy, changes, faults, polled, answers, serving, left, found, waited, told, owner,
      waiting, have, permissions, buttons, made, authorized, cached, faulty, failed, unaware>>
hostVars ==
    <<config, broken, canHost, hosts, runs, plugins, checks, toDaemon, toClient,
      hostname, canModify, calls, edits, exits, known, unheard>>
appletVars == <<gconf, notes, cache, version, starts, reading, list, pending, deleted, crowded>>
mirrorVars == <<part, buttonVars, hostVars, appletVars>>

MCInit ==
    /\ part \in {"permissions", "hostname", "connections"}
    /\ Buttons!Init /\ Host!Init /\ Applet!Init
    /\ part # "permissions" => capable = {} /\ policy = {}
    /\ part # "hostname" => config = <<"keyfile">> /\ broken = {} /\ canHost = {}
    /\ part # "connections" => \A d \in Applet!Dir : gconf[d] = Applet!None

ButtonsDo(A) == part = "permissions" /\ A /\ UNCHANGED <<part, hostVars, appletVars>>
HostDoes(A) == part = "hostname" /\ A /\ UNCHANGED <<part, buttonVars, appletVars>>
AppletDoes(A) == part = "connections" /\ A /\ UNCHANGED <<part, buttonVars, hostVars>>

MCNext == ButtonsDo(Buttons!Next) \/ HostDoes(Host!Next) \/ AppletDoes(Applet!Next)

MCSpec == MCInit /\ [][MCNext]_mirrorVars

(* polkitd answers what it is asked; the daemon and the clients run their   *)
(* main loops.  Nothing makes the daemon start again.                       *)
MCFairSpec ==
    /\ MCSpec
    /\ WF_mirrorVars(ButtonsDo(\E says \in {"yes", "no", "error"} : Buttons!PolkitAnswers(says)))
    /\ WF_mirrorVars(ButtonsDo(Buttons!GetPermissions))
    /\ WF_mirrorVars(ButtonsDo(Buttons!HandlePolkit))
    /\ WF_mirrorVars(ButtonsDo(Buttons!Dispatch))
    /\ WF_mirrorVars(HostDoes(Host!HandleRequest))
    /\ WF_mirrorVars(HostDoes(Host!PolkitAnswers))
    /\ WF_mirrorVars(HostDoes(Host!Dispatch))

-----------------------------------------------------------------------------
(* Properties of Permissions *)

(* A button ends up sensitive exactly when PolicyKit allows the change. *)
ButtonsRight == Buttons!ButtonsRight

-----------------------------------------------------------------------------
(* Properties of Hostname *)

(* The hostname a client shows follows the daemon's plugins. *)
HostnameFollows == Host!HostnameFollows

(* Every caller is answered: of GetPermissions while a plugin is capable of   *)
(* anything, and of SaveHostname.                                           *)
CallersAnswered == Buttons!Answered /\ Host!SavesAnswered

-----------------------------------------------------------------------------
(* Properties of GConfSettings *)

(* What the applet exports is in step with GConf. *)
InStep == Applet!InStep
=============================================================================
