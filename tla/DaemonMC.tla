------------------------------ MODULE DaemonMC ------------------------------
(* The two programs that hold names on the system bus, each by itself: the  *)
(* daemon (Daemon) and the applet (AppletBus).  d1 has a pid check_pidfile() *)
(* accepts, d2 one above its limit; neither is symmetric to the other.      *)
EXTENDS Daemon

CONSTANTS d1, d2, Applet, Other, NoOwner, MaxDowns, MaxStarts

VARIABLES
    program,  \* which of the two a behaviour is about
    up, owner, downs, appletConn, appletStarted, source, reconId, at, late, starts

Bus == INSTANCE AppletBus WITH conn <- appletConn, started <- appletStarted

SmallPid == {d1}

appletVars == <<up, owner, downs, appletConn, appletStarted, source, reconId, at, late, starts>>
allVars == <<program, vars, appletVars>>

MCInit ==
    /\ program \in {"daemon", "applet"}
    /\ Init /\ Bus!Init
    /\ program = "daemon" => up = {}

DaemonDoes(A) == program = "daemon" /\ A /\ UNCHANGED <<program, appletVars>>
AppletDoes(A) == program = "applet" /\ A /\ UNCHANGED <<program, vars>>

MCNext == DaemonDoes(Next) \/ AppletDoes(Bus!Next)

(* The fairness of Daemon and of AppletBus, each where it is the program. *)
MCSpec ==
    /\ MCInit /\ [][MCNext]_allVars
    /\ \A p \in Process : WF_allVars(DaemonDoes(Advance(p)))
    /\ \A a \in Applet :
          /\ WF_allVars(AppletDoes(Bus!Step(a)))
          /\ SF_allVars(AppletDoes(Bus!SystemBusDestroyed(a)))
          /\ SF_allVars(AppletDoes(Bus!SessionBusDestroyed(a)))

-----------------------------------------------------------------------------
(* Properties of AppletBus *)

(* Of the applets of a session one at most serves: a live connection in the  *)
(* main loop comes with the name; and a bus that an applet lost is joined   *)
(* again unless the timer met it away.                                      *)
ComesBack == []Bus!LiveOwnsName /\ Bus!ComesBack
=============================================================================
