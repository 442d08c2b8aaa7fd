----------------------------- MODULE GConfSettings -----------------------------
(***************************************************************************)
(* The applet's list of the user's connections (bma-gconf-settings.c,      *)
(* bma-gconf-connection.c) and the GConf database it mirrors.              *)
(*                                                                         *)
(* The applet caches what GConf notified it of; what it does not find in   *)
(* the cache it asks the server for, key by key.  A notification makes it  *)
(* wait for an idle function, one for each directory, that reads the       *)
(* directory again.  Connections are exported on D-Bus, where clients      *)
(* update and delete them; the applet adds some, and saves a connection    *)
(* with a new timestamp when it was used.                                  *)
(*                                                                         *)
(* The content of a directory is None, Broken when bm_connection_verify    *)
(* refuses it, or the number of a version that is valid.                   *)
(***************************************************************************)
EXTENDS Integers, SequencesExt

CONSTANTS
    MaxDir,     \* bound: the directories, 1 .. MaxDir
    MaxVersion, \* bound: valid contents that are made
    MaxList,    \* bound: connections of the list when one is added
    MaxNotes,   \* bound: notifications under way when others write
    MaxStart    \* bound: how often the applet starts

Dir == 1 .. MaxDir
None == 0
Broken == -1
Valid(c) == c > 0
Content == {None, Broken} \union 1 .. MaxVersion

VARIABLES
    gconf,      \* the database's content of each directory
    notes,      \* notifications under way to the applet
    cache,      \* applet: the content GConf last notified it of
    version,    \* valid contents made so far
    starts,     \* how often the applet started
    reading,    \* priv->read_connections_id: the idle function waits
    list,       \* priv->connections
    pending,    \* priv->pending_changes
    deleted,    \* history: directories whose connection a client deleted
    crowded     \* history: directories that were given a second connection

vars == <<gconf, notes, cache, version, starts, reading, list, pending, deleted,
          crowded>>

(* A connection of the list; history: apart, it was changed in memory only. *)
Connection == [dir: Dir, content: 1 .. MaxVersion, apart: BOOLEAN]

Note(d, c) == [dir |-> d, content |-> c]
NoteSet == [dir: Dir, content: Content]

Init ==
    /\ gconf \in [Dir -> {None, Broken, 1}]
    /\ notes = <<>>
    /\ cache = gconf
    /\ version = 1
    /\ starts = 1
    /\ reading = TRUE
    /\ list = <<>>
    /\ pending = {}
    /\ deleted = {}
    /\ crowded = {}

NewVersion == version < MaxVersion /\ version' = version + 1

-----------------------------------------------------------------------------
(* GConf *)

(* Another program writes keys of a directory or unsets them all. *)
OtherWrites(d) ==
    /\ Len(notes) < MaxNotes
    /\ \/ gconf[d] # None /\ gconf' = [gconf EXCEPT ![d] = None] /\ UNCHANGED version
       \/ gconf[d] # Broken /\ gconf' = [gconf EXCEPT ![d] = Broken] /\ UNCHANGED version
       \/ NewVersion /\ gconf' = [gconf EXCEPT ![d] = version']
    /\ notes' = Append(notes, Note(d, gconf'[d]))
    /\ UNCHANGED <<cache, starts, reading, list, pending, deleted, crowded>>

(* What a read of a directory finds: what is cached, what the server has, or  *)
(* keys of both.                                                            *)
Reads(d) == {cache[d], gconf[d]} \union {c \in {Broken} : cache[d] # gconf[d]}

-----------------------------------------------------------------------------
(* The list *)

(* bm_gconf_get_all_connections *)
AllDirs == {d \in Dir : gconf[d] # None}

At(d) == {i \in DOMAIN list : list[i].dir = d}

(* get_connection_by_gconf_path *)
First(d) == CHOOSE i \in At(d) : \A j \in At(d) : i <= j

(* bma_gconf_connection_new and internal_add_connection *)
Loaded(d, c) == [dir |-> d, content |-> c, apart |-> FALSE]

Prepend(connection, l) == <<connection>> \o l

(* read_connections: the directories GConf has, in the order it lists them;  *)
(* the whole list is turned round at the end.                               *)
ReadConnections ==
    /\ reading
    /\ reading' = FALSE
    /\ \E read \in [Dir -> Content] :
          /\ \A d \in Dir : read[d] \in Reads(d)
          /\ \E l \in SetToSeqs({Loaded(d, read[d]) :
                           d \in {e \in AllDirs : Valid(read[e])}}) :
                list' = Reverse(Reverse(l) \o list)
    /\ UNCHANGED <<gconf, notes, cache, version, starts, pending, deleted, crowded>>

(* Mutant of HandleNote: a directory that has its connection is not read again. *)
HandleNoteOfNew ==
    /\ notes # <<>>
    /\ notes' = Tail(notes)
    /\ cache' = [cache EXCEPT ![Head(notes).dir] = Head(notes).content]
    /\ pending' = IF At(Head(notes).dir) # {} THEN pending ELSE pending \union {Head(notes).dir}
    /\ UNCHANGED <<gconf, version, starts, reading, list, deleted, crowded>>

(* connections_changed_cb *)
HandleNote ==
    /\ notes # <<>>
    /\ notes' = Tail(notes)
    /\ cache' = [cache EXCEPT ![Head(notes).dir] = Head(notes).content]
    /\ pending' = pending \union {Head(notes).dir}
    /\ UNCHANGED <<gconf, version, starts, reading, list, deleted, crowded>>

(* New connection *)
ChangeAdds(d, c) ==
    /\ At(d) = {}
    /\ list' = IF Valid(c) THEN Prepend(Loaded(d, c), list) ELSE list

(* bma_gconf_connection_gconf_changed: "removed" is emitted, or the settings  *)
(* are replaced unless they are the same.                                   *)
ChangeRemoves(d, c) ==
    /\ At(d) # {}
    /\ ~Valid(c)
    /\ list' = RemoveAt(list, First(d))

ChangeUpdates(d, c) ==
    /\ At(d) # {}
    /\ Valid(c)
    /\ list' = [list EXCEPT ![First(d)] = Loaded(d, c)]

(* connection_changes_done.  The idle function of read_connections was there  *)
(* first.                                                                   *)
ChangesDone(d) ==
    /\ ~reading
    /\ d \in pending
    /\ \E c \in Reads(d) : ChangeAdds(d, c) \/ ChangeRemoves(d, c) \/ ChangeUpdates(d, c)
    /\ pending' = pending \ {d}
    /\ deleted' = deleted \ {d}
    /\ UNCHANGED <<gconf, notes, cache, version, starts, reading, crowded>>

(* bma_gconf_settings_add_connection: in the first directory that GConf does  *)
(* not have; the update that is to save it emits a signal and no more.  The *)
(* menu the user chose from has listed the connections before.              *)
AddConnection ==
    /\ ~reading
    /\ Len(list) < MaxList
    /\ NewVersion
    /\ \E d \in Dir :
          /\ d \notin AllDirs
          /\ 1 .. d - 1 \subseteq AllDirs
          /\ list' = Prepend([dir |-> d, content |-> version', apart |-> TRUE], list)
          /\ crowded' = crowded \union {e \in {d} : At(e) # {}}
    /\ UNCHANGED <<gconf, notes, cache, starts, reading, pending, deleted>>

(* dbus_update: the object's settings are replaced, GConf's are not.  The    *)
(* client has listed the connections, which reads them if nothing has yet.  *)
DBusUpdate(i) ==
    /\ ~reading
    /\ NewVersion
    /\ list' = [list EXCEPT ![i] = [@ EXCEPT !.content = version', !.apart = TRUE]]
    /\ UNCHANGED <<gconf, notes, cache, starts, reading, pending, deleted, crowded>>

(* dbus_delete and connection_removed: GConf keeps its directory. *)
DBusDelete(i) ==
    /\ ~reading
    /\ list' = RemoveAt(list, i)
    /\ deleted' = deleted \union {list[i].dir}
    /\ UNCHANGED <<gconf, notes, cache, version, starts, reading, pending, crowded>>

(* update_connection_timestamp and bma_gconf_connection_update: all of the   *)
(* connection is written, with the new timestamp.                           *)
SaveTimestamp(i) ==
    /\ ~reading
    /\ NewVersion
    /\ LET d == list[i].dir
       IN  /\ list' = [list EXCEPT ![i] = Loaded(d, version')]
           /\ gconf' = [gconf EXCEPT ![d] = version']
           /\ cache' = [cache EXCEPT ![d] = version']
           /\ notes' = Append(notes, Note(d, version'))
    /\ UNCHANGED <<starts, reading, pending, deleted, crowded>>

(* The applet ends and is started again. *)
Restart ==
    /\ starts < MaxStart
    /\ starts' = starts + 1
    /\ notes' = <<>>
    /\ cache' = gconf
    /\ reading' = TRUE
    /\ list' = <<>>
    /\ pending' = {}
    /\ deleted' = {}
    /\ crowded' = {}
    /\ UNCHANGED <<gconf, version>>

-----------------------------------------------------------------------------

Applet ==
    \/ ReadConnections
    \/ HandleNote
    \/ \E d \in Dir : ChangesDone(d)
    \/ AddConnection
    \/ \E i \in DOMAIN list : DBusUpdate(i) \/ DBusDelete(i) \/ SaveTimestamp(i)
    \/ Restart

Next == (\E d \in Dir : OtherWrites(d)) \/ Applet

Spec == Init /\ [][Next]_vars

-----------------------------------------------------------------------------
(* Properties *)

(* Every variable has its type. *)
TypeOK ==
    /\ gconf \in [Dir -> Content]
    /\ cache \in [Dir -> Content]
    /\ notes \in Seq(NoteSet)
    /\ version \in 1 .. MaxVersion
    /\ starts \in 1 .. MaxStart
    /\ reading \in BOOLEAN
    /\ list \in Seq(Connection)
    /\ pending \subseteq Dir
    /\ deleted \subseteq Dir
    /\ crowded \subseteq Dir

Settled(d) ==
    /\ ~reading
    /\ d \notin pending
    /\ \A i \in DOMAIN notes : notes[i].dir # d

(* "to avoid races with GConf notifications": once the notifications of a    *)
(* directory are dealt with, the applet exports what GConf has there: a     *)
(* connection if it is valid, with its content, and none if it is not.      *)
(* Only what a client deleted or changed over D-Bus, and what the applet    *)
(* added and never saved, differs; and a directory that an added connection *)
(* was given while another still had it.                                    *)
InStep ==
    /\ TypeOK
    /\ \A d \in Dir \ crowded : Settled(d) =>
           /\ Valid(gconf[d]) => At(d) # {} \/ d \in deleted
           /\ \A i \in At(d) : list[i].apart \/ list[i].content = gconf[d]
=============================================================================
