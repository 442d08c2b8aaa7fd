------------------------------ MODULE ManagerMC ------------------------------
(* Each by itself: the manager, on a node with a driver and a node without; *)
(* how its process came by its options and its logging (Startup); and the   *)
(* files its plugins watch (InotifyHelper).                                 *)
EXTENDS Manager, FiniteSets

CONSTANTS
    h0, h1, root, user,
    DefaultDomains, LevelArg, MaxWrites, MaxSets,
    Plugin, Path, MaxInodes, MaxEdits, MaxWatches

VARIABLES
    part,  \* which of the three a behaviour is about
    files, writes, stage, options, config, plugins, level, domains, parsed, setups,
    inodes, made, written, opened, users, left, watches, live, queue, refs, held, unheard

Domains == <<"HW", "BT", "CORE">>

(* Nothing, one name, several with an empty one, an unknown one, and NONE. *)
DomainsArg == {<<>>, <<"HW">>, <<"CORE", "", "HW">>, <<"HW", "X">>, <<"NONE">>}

Content(ok, readers, l, d) == [valid |-> ok, plugins |-> readers, level |-> l, domains |-> d]
NotValid == Content(FALSE, {}, {}, {})
NoPlugins == Content(TRUE, {}, {"DEBUG"}, {<<"HW">>})
Good == Content(TRUE, {"keyfile"}, {"WARN"}, {<<"CORE", "", "HW">>})
NoLevel == Content(TRUE, {"ifnet"}, {}, {<<"HW">>})
File == {NotValid, NoPlugins, Good, NoLevel}

(* log_domains starts with some of domain_descs. *)
ASSUME DomainsAssumption == DefaultDomains \subseteq ToSet(Domains)

Begin == INSTANCE Startup WITH source <- parsed, asked <- setups

startVars == <<files, writes, stage, options, config, plugins, level, domains, parsed, setups>>

(* Those who watch, and what they watch, are finitely many. *)
ASSUME WatchAssumption ==
    /\ IsFiniteSet(Plugin) /\ IsFiniteSet(Path)
    /\ MaxWatches \in Nat

Watch == INSTANCE InotifyHelper

watchVars == <<inodes, made, written, opened, users, left, watches, live, queue, refs, held, unheard>>

FilesAtFirst == [old |-> {NoPlugins}, new |-> {Good}, given |-> {}]

MCInit ==
    /\ part \in {"manager", "startup", "files"}
    /\ Init /\ Begin!Init /\ Watch!Init
    /\ files = FilesAtFirst

ManagerDoes(A) == part = "manager" /\ A /\ UNCHANGED <<part, startVars, watchVars>>
StartupDoes(A) == part = "startup" /\ A /\ UNCHANGED <<part, vars, watchVars>>
FilesDo(A) == part = "files" /\ A /\ UNCHANGED <<part, vars, startVars>>

MCNext ==
    \/ ManagerDoes(Next)
    \/ StartupDoes(Begin!Next)
    \/ FilesDo(Watch!Next)

MCSpec == MCInit /\ [][MCNext]_<<part, vars, startVars, watchVars>>

-----------------------------------------------------------------------------
(* Properties of Startup *)

(* A daemon that runs has its plugins and its logging from one of the two    *)
(* files or from its options, never a part from a file that was given up;   *)
(* and it logs what was asked for last, by SetLogging too.                  *)
StartsAsAsked == Begin!OneSource /\ Begin!LoggingAsAsked

-----------------------------------------------------------------------------
(* Properties of InotifyHelper *)

(* A plugin that added a watch and has not removed it is told of every write *)
(* to the file, whoever else added and removed the same, or another link.   *)
FilesWatched == Watch!FilesWatched
=============================================================================
