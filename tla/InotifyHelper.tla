---------------------------- MODULE InotifyHelper ----------------------------
(***************************************************************************)
(* The helper by which the plugins of the settings service watch files     *)
(* (bm-inotify-helper.c): one inotify descriptor for all, and a count of   *)
(* references for each watch, since the paths of hard links share one.     *)
(*                                                                         *)
(* A plugin holds a reference to the helper while it runs and may go away  *)
(* without taking its watches back.  The queue of the kernel is not bounded *)
(* here; descriptors of watches are never given twice.                     *)
(***************************************************************************)
EXTENDS Naturals, FiniteSets, Sequences, SequencesExt

CONSTANTS
    Plugin,     \* those who watch files
    Path,       \* names of files
    MaxInodes,  \* bound: files made in all
    MaxEdits,   \* bound: times a file is written
    MaxWatches  \* bound: watch descriptors given

VARIABLES
    inodes,   \* the file each path is a link to, 0 for none
    made,     \* how many files there have been
    written,  \* how often one was written
    opened,   \* ifd >= 0: "never", "open", "closed"
    users,    \* the plugins with a reference to the helper
    left,     \* those that had one
    watches,  \* the file each watch descriptor was given for
    live,     \* the descriptors the kernel still watches with
    queue,    \* events to be read from ifd
    refs,     \* wd_refs, 0 for a descriptor that is not in it
    held,     \* what each plugin got for each path and has not given back, or 0
    unheard   \* history: who has not been told since the file was written

diskVars == <<inodes, made, written>>
kernelVars == <<watches, live, queue>>
helperVars == <<opened, users, left, refs>>
plugVars == <<held, unheard>>
watchVars == <<inodes, made, written, opened, users, left, watches, live, queue, refs, held, unheard>>

Init ==
    /\ inodes = [p \in Path |-> 0] /\ made = 0 /\ written = 0
    /\ opened = "never" /\ users = {} /\ left = {}
    /\ watches = <<>> /\ live = {} /\ queue = <<>>
    /\ refs = [w \in 1 .. MaxWatches |-> 0]
    /\ held = [u \in Plugin |-> [p \in Path |-> 0]]
    /\ unheard = {}

Holders(w) == {h \in Plugin \X Path : held[h[1]][h[2]] = w}

(* The watch on a file, as a set of at most one *)
WatchOn(i) == {w \in live : watches[w] = i}

Event(w) == [wd |-> w, ignored |-> FALSE]
Ignored(w) == [wd |-> w, ignored |-> TRUE]

-----------------------------------------------------------------------------
(* The disk and the kernel *)

Create(p) ==
    /\ inodes[p] = 0 /\ made < MaxInodes
    /\ made' = made + 1
    /\ inodes' = [inodes EXCEPT ![p] = made']
    /\ UNCHANGED <<written, kernelVars, helperVars, plugVars>>

Link(p, q) ==
    /\ inodes[p] # 0 /\ inodes[q] = 0
    /\ inodes' = [inodes EXCEPT ![q] = inodes[p]]
    /\ UNCHANGED <<made, written, kernelVars, helperVars, plugVars>>

(* With its last link a file goes, and with it the watch. *)
Unlink(p) ==
    /\ inodes[p] # 0
    /\ inodes' = [inodes EXCEPT ![p] = 0]
    /\ LET gone == IF \E q \in Path \ {p} : inodes[q] = inodes[p] THEN {} ELSE WatchOn(inodes[p])
       IN  /\ live' = live \ gone
           /\ queue' = queue \o SetToSeq({Ignored(w) : w \in gone})
    /\ UNCHANGED <<made, written, watches, helperVars, plugVars>>

(* An event like the one before it is not queued. *)
Write(p) ==
    /\ inodes[p] # 0 /\ written < MaxEdits
    /\ written' = written + 1
    /\ LET events == {Event(w) : w \in WatchOn(inodes[p])}
       IN  queue' = IF queue # <<>> /\ Last(queue) \in events THEN queue
                    ELSE queue \o SetToSeq(events)
    /\ unheard' = unheard \union
           UNION {Holders(w) : w \in {v \in DOMAIN watches : watches[v] = inodes[p]}}
    /\ UNCHANGED <<inodes, made, watches, live, helperVars, held>>

-----------------------------------------------------------------------------
(* The helper *)

(* bm_inotify_helper_get, init_inotify *)
Get(u) ==
    /\ u \notin users \union left /\ opened # "closed"
    /\ users' = users \union {u}
    /\ opened' = "open"
    /\ UNCHANGED <<diskVars, kernelVars, left, refs, plugVars>>

(* g_object_unref; finalize with the last reference, and nobody gets it anew. *)
Unref(u) ==
    /\ u \in users
    /\ users' = users \ {u} /\ left' = left \union {u}
    /\ held' = [held EXCEPT ![u] = [p \in Path |-> 0]]
    /\ unheard' = {h \in unheard : h[1] # u}
    /\ IF users' = {}
       THEN /\ opened' = "closed"
            /\ live' = {} /\ queue' = <<>>
            /\ refs' = [w \in DOMAIN refs |-> 0]
       ELSE UNCHANGED <<opened, live, queue, refs>>
    /\ UNCHANGED <<diskVars, watches>>

(* Mutant of Referenced: a watch that is there already is not counted again. *)
ReferencedOnce(w) == refs' = [refs EXCEPT ![w] = 1]

Referenced(w) == refs' = [refs EXCEPT ![w] = @ + 1]

(* bm_inotify_helper_add_watch; inotify_add_watch *)
AddWatch(u, p) ==
    /\ u \in users /\ held[u][p] = 0 /\ inodes[p] # 0
    /\ \/ \E w \in WatchOn(inodes[p]) :
             /\ Referenced(w)
             /\ held' = [held EXCEPT ![u][p] = w]
             /\ UNCHANGED <<watches, live>>
       \/ /\ WatchOn(inodes[p]) = {} /\ Len(watches) < MaxWatches
          /\ watches' = Append(watches, inodes[p])
          /\ live' = live \union {Len(watches')}
          /\ Referenced(Len(watches'))
          /\ held' = [held EXCEPT ![u][p] = Len(watches')]
    /\ UNCHANGED <<diskVars, queue, opened, users, left, unheard>>

(* bm_inotify_helper_remove_watch; inotify_rm_watch *)
RemoveWatch(u, p) ==
    LET w == held[u][p]
        last == IF refs[w] = 1 THEN {w} \intersect live ELSE {}
    IN  /\ u \in users /\ w # 0
        /\ refs' = [refs EXCEPT ![w] = IF @ = 0 THEN 0 ELSE @ - 1]
        /\ live' = live \ last
        /\ queue' = queue \o SetToSeq({Ignored(v) : v \in last})
        /\ held' = [held EXCEPT ![u][p] = 0]
        /\ unheard' = unheard \ {<<u, p>>}
        /\ UNCHANGED <<diskVars, watches, opened, users, left>>

(* inotify_event_handler: one event, and the handlers of the "event" signal *)
HandleEvent ==
    /\ queue # <<>>
    /\ queue' = Tail(queue)
    /\ unheard' = IF Head(queue).ignored THEN unheard ELSE unheard \ Holders(Head(queue).wd)
    /\ UNCHANGED <<diskVars, watches, live, helperVars, held>>

Next ==
    \/ \E p \in Path : Create(p) \/ Unlink(p) \/ Write(p)
    \/ \E p, q \in Path : Link(p, q)
    \/ \E u \in Plugin : Get(u) \/ Unref(u)
    \/ \E u \in Plugin, p \in Path : AddWatch(u, p) \/ RemoveWatch(u, p)
    \/ HandleEvent

Spec == Init /\ [][Next]_watchVars

-----------------------------------------------------------------------------
(* Properties *)

(* A plugin that added a watch and has not removed it hears of the file: as  *)
(* long as a path leads to it the kernel watches it, whoever else came and   *)
(* went, and a write it was not told of is in the queue.  Nothing is watched *)
(* without a reference.                                                      *)
FilesWatched ==
    /\ \A u \in Plugin, p \in Path :
          LET w == held[u][p]
          IN  w # 0 =>
                 /\ refs[w] >= Cardinality(Holders(w))
                 /\ (\E q \in Path : inodes[q] = watches[w]) => w \in live
                 /\ <<u, p>> \in unheard => Event(w) \in ToSet(queue)
    /\ \A w \in live : refs[w] > 0
=============================================================================
