-------------------------- MODULE RemoteSettingsMC --------------------------
(* The two client libraries, each by itself: RemoteSettings on two paths,    *)
(* where either the service restarts or there is a third version of a       *)
(* connection; and the library of the old interface (OldApi), once there is *)
(* no service and the first has said connections-read.                      *)
EXTENDS RemoteSettings

CONSTANTS
    MaxSpent,  \* bound: starts and versions together
    Callback, MaxEvents, MaxDowns

VARIABLES
    part,  \* which of the two a behaviour is about
    up, daemon, queued, asked, events, downs, worker, con, watcher, bmState, looping, program,
    registered, sources, told, online

Old == INSTANCE OldApi WITH inbox <- queued, calls <- asked, running <- looping, pending <- sources

oldVars ==
    <<up, daemon, queued, asked, events, downs, worker, con, watcher, bmState, looping, program,
      registered, sources, told, online>>
allVars == <<part, vars, oldVars>>

Paths2 == 1 .. 2

MCInit ==
    /\ part \in {"settings", "old"}
    /\ Init /\ Old!Init
    /\ IF part = "settings" THEN ~up ELSE starts = 0

SettingsDo(A) ==
    /\ part = "old" => ~read /\ starts' = 0
    /\ A /\ UNCHANGED <<part, oldVars>>
OldDoes(A) == part = "old" /\ read /\ A /\ UNCHANGED <<part, vars>>

MCNext ==
    \/ SettingsDo(Next /\ starts' + version' <= MaxSpent)
    \/ OldDoes(Old!Next)

MCSpec == MCInit /\ [][MCNext]_allVars

(* What must happen starts no service and makes no version.  Of the old      *)
(* interface: the worker's main loop runs; the program's thread waits in a  *)
(* loop of its own in libbm_glib_init() and libbm_glib_shutdown(); the      *)
(* manager answers every call, were it with an error; and timers expire.    *)
(* Neither the bus nor the manager need ever start, nobody need call.       *)
MCFairSpec ==
    /\ MCSpec
    /\ WF_allVars(SettingsDo(Reply)) /\ WF_allVars(SettingsDo(Handle)) /\ WF_allVars(SettingsDo(Idle))
    /\ WF_allVars(OldDoes(Old!Worker)) /\ WF_allVars(OldDoes(Old!DaemonAnswers))
    /\ WF_allVars(OldDoes(Old!InitReturns)) /\ WF_allVars(OldDoes(Old!ShutdownReturns))
    /\ WF_allVars(OldDoes(Old!OnlineAsks \/ Old!OnlineChecked))
    /\ WF_allVars(OldDoes(Old!OnlineTimeout))

-----------------------------------------------------------------------------
(* Properties of OldApi *)

(* The library of the old interface finds the bus again, with messages of    *)
(* the one it lost unread and a call out, and is answered.                  *)
Reattaches == Old!Reattaches

(* Who waits is released: libbm_glib_shutdown() returns if the worker was in *)
(* its loop, and bm-online ends within its timeout, whatever the bus and the *)
(* manager do meanwhile.                                                    *)
OldApiReturns == Old!ShutdownEnds /\ Old!OnlineEnds
=============================================================================
