----------------------------- MODULE RedfishStore -----------------------------
(***************************************************************************)
(* The record store of the Redfish server: g_record in memory, one .json   *)
(* file per record, and what a start makes of the files another run left.  *)
(* init_resource loads them (record_load_json), completes the tree (the    *)
(* constructor of ServiceRoot), and writes every record back               *)
(* (record_save_json); a request writes the records it changed.            *)
(*                                                                         *)
(* g_record is an unordered_map, so the order in which records are loaded  *)
(* and saved is any.  A file is opened with truncation and then written: a *)
(* kill in between leaves a file no JSON parser accepts ("torn").          *)
(***************************************************************************)
EXTENDS RedfishTree, RedfishBounds

VARIABLES
    pc,     \* "down", "saving" (record_save_json), "up", or "failed": a
            \* start that ended in a segmentation fault
    mem,    \* uris of g_record whose object lives
    freed,  \* uris of g_record whose object clear_gc has deleted
    links,  \* <<member of the parent object, uri>>
    saved,  \* uris with a whole file
    torn,   \* uris with a torn file
    loaded, \* TRUE if this start found the service root's file
    gone,   \* history: uris a kill tore or kept from being written
    removed, \* history: uris a request removed
    kills   \* kills so far

vars == <<pc, mem, freed, links, saved, torn, loaded, gone, removed, kills>>

-----------------------------------------------------------------------------
(* init_resource                                                           *)

\* Variant with a bug: the scan leaves out files without a directory beside.
ScannedTopOnly == {u \in saved \cup torn : Len(u) # 2}

\* record_init_load: a record for every .json file below /redfish.
Scanned == saved \cup torn

\* Records dependency_injection reads through a parent that g_record lacks
\* (operator[] makes a null entry).
Orphans(uris, known) == {u \in uris : u # <<>> /\ Parent(u) \notin known}

\* record_load_json.  A file that does not parse leaves an object of no type,
\* which "default:" hands to clear_gc while g_record keeps pointing to it.
\* The constructor of ServiceRoot adds what is missing while the loop over
\* g_record goes on; an object the loop still meets ("met") is made a second
\* time and the first one's destructor takes the uri out of g_record.
LoadJson ==
    LET files == Scanned
        rooted == <<>> \in saved
        made == IF rooted
                THEN {r \in ServiceRoot(files) : r.uri \notin files} ELSE {}
        read == {u \in files : u \in saved}
    IN \E met \in {{}, made} :
       LET injected == read \cup Uris(met)
           known == files \cup Uris(made)
       IN IF Orphans(injected, known) # {}
          THEN /\ pc' = "failed"
               /\ UNCHANGED <<mem, freed, links>>
          ELSE /\ \/ pc' = "saving"
                  \/ files # read /\ pc' = "failed"   \* a freed object is used
               /\ mem' = (read \cup Uris(made)) \ Uris(met)
               /\ freed' = files \ read
               /\ links' = {l \in Links(made) : l[2] \notin injected}
                           \cup {l \in {<<InjectedField(Kind[u], Kind[Parent(u)]), u>> :
                                            u \in injected} :
                                    l[1] # "none" /\ Parent(l[2]) \notin files \ read}

\* No file at all: the constructor makes the whole tree.
FirstTree ==
    /\ mem' = Uris(ServiceRoot({}))
    /\ links' = Links(ServiceRoot({}))
    /\ freed' = {}
    /\ pc' = "saving"

\* init_message_registry comes last and replaces what the load made of the
\* registry's file (a Radius: its case has no break).
Start ==
    /\ pc = "down"
    /\ loaded' = (<<>> \in Scanned)
    /\ IF Scanned = {} THEN FirstTree ELSE LoadJson
    /\ UNCHANGED <<saved, torn, gone, removed, kills>>

\* Variant with a bug: record_save_json leaves out the members of collections.
WrittenNoMembers == {u \in mem : <<"members", u>> \notin links} \cup {RegistryUri}

\* What record_save_json writes: every live record, the registry included.
Written == mem \cup {RegistryUri}

\* record_save_json to its end; files of records g_record lacks are deleted.
SaveJson ==
    /\ pc = "saving"
    /\ pc' = "up"
    /\ mem' = Written /\ freed' = freed \ {RegistryUri}
    /\ saved' = Written
    /\ torn' = torn \cap freed'
    /\ UNCHANGED <<links, loaded, gone, removed, kills>>

-----------------------------------------------------------------------------
(* Kills and requests.                                                     *)

\* Bound: a kill in the save leaves unwritten nothing, or one record, or one
\* with all that is below it; that record's own file may be torn.
Cuts == {[cut |-> {}, half |-> {}]}
        \cup UNION {{[cut |-> c, half |-> h] : c \in {{u}, Below(Written, u)}, h \in {{}, {u}}} :
                        u \in Written}

KillInSave ==
    /\ pc = "saving" /\ kills < MaxKills
    /\ \E c \in Cuts :
       /\ saved' = (saved \cup (Written \ c.cut)) \ c.half
       /\ torn' = (torn \ (Written \ c.cut)) \cup c.half
       /\ gone' = gone \cup (c.cut \ saved) \cup c.half
    /\ pc' = "down" /\ mem' = {} /\ freed' = {} /\ links' = {}
    /\ kills' = kills + 1
    /\ UNCHANGED <<loaded, removed>>

\* Kinds of record some request writes: treat_patch, treat_post, treat_delete.
SavedByRequests ==
    {"AccountService", "Account", "Role", "SessionService", "Manager",
     "NetworkProtocol", "EthernetInterfaces", "Systems", "Chassis", "Fan",
     "PowerControl", "EventService", "EventDestination", "AccountCollection",
     "SessionCollection", "TaskCollection", "EventDestinationCollection",
     "VirtualMediaCollection", "LogEntryCollection"}

\* A kill between requests, or while one writes its record.
KillUp ==
    /\ pc = "up" /\ kills < MaxKills
    /\ \E half \in {{}} \cup {{u} : u \in {v \in mem : Kind[v] \in SavedByRequests}} :
       /\ saved' = saved \ half
       /\ torn' = torn \cup half
       /\ gone' = gone \cup half
    /\ pc' = "down" /\ mem' = {} /\ freed' = {} /\ links' = {}
    /\ kills' = kills + 1
    /\ UNCHANGED <<loaded, removed>>

\* Uris leave g_record and their parents' members; of their files those in
\* "files" are deleted.
Dropped(uris, files) ==
    /\ mem' = mem \ uris
    /\ links' = {l \in links : l[2] \notin uris}
    /\ saved' = saved \ files /\ torn' = torn \ files
    /\ removed' = removed \cup uris
    /\ UNCHANGED <<pc, freed, loaded, gone, kills>>

\* remove_account: the account goes, the collection of its certificates stays.
RemoveAccount ==
    /\ pc = "up"
    /\ \E u \in {v \in mem : Kind[v] = "Account"} : Dropped({u}, {u})

RemoveSubscription ==
    /\ pc = "up"
    /\ \E u \in {v \in mem : Kind[v] = "EventDestination"} : Dropped({u}, {u})

\* A log service whose member entry is set, and what ClearLog takes from it.
Cleared(u) == Below(mem, Append(u, "Entries"))
Clearable == {u \in mem : Kind[u] = "LogService" /\ <<"entry", Append(u, "Entries")>> \in links}

\* Variant with a bug: the directory goes, the collection's file beside it stays.
ClearedFilesBelow(u) == {v \in Cleared(u) : v # Append(u, "Entries")}

\* ClearLog empties the service's directory.
ClearedFiles(u) == Cleared(u)

\* ClearLog: the collection and its entries go, and entry stays nullptr.
ClearLog ==
    /\ pc = "up"
    /\ \E u \in Clearable : Dropped(Cleared(u), ClearedFiles(u))

\* A kill while remove_all goes through the directory.
KillInClear ==
    /\ pc = "up" /\ kills < MaxKills
    /\ \E u \in Clearable : \E some \in SUBSET ClearedFiles(u) :
       /\ saved' = saved \ some /\ torn' = torn \ some
       /\ gone' = gone \cup some
    /\ pc' = "down" /\ mem' = {} /\ freed' = {} /\ links' = {}
    /\ kills' = kills + 1
    /\ UNCHANGED <<loaded, removed>>

Init ==
    /\ pc = "down" /\ mem = {} /\ freed = {} /\ links = {}
    /\ saved = {} /\ torn = {} /\ loaded = FALSE /\ gone = {} /\ removed = {} /\ kills = 0

Next ==
    \/ Start \/ SaveJson \/ KillInSave \/ KillUp
    \/ RemoveAccount \/ RemoveSubscription \/ ClearLog \/ KillInClear

Spec == Init /\ [][Next]_vars

-----------------------------------------------------------------------------
(* Properties.                                                             *)

\* A start fails only on files that a kill tore or kept from being written, or
\* after an account was removed whose certificates' file is still there; a
\* removed subscription and a cleared log leave files a start can take.
StartFailsOnlyOnDamage ==
    pc = "failed" => gone # {} \/ \E u \in removed : Kind[u] = "Account"

\* Whatever a sequence of starts and kills does, a running server lacks only
\* records a kill hit on their way to the file, and those a request removed:
\* nothing that was written is lost.
OnlyUnwrittenIsLost == pc = "up" => AllUris \ mem \subseteq gone \cup removed

\* What a request removed does not come back with a restart that finds every
\* other file: neither a cleared log nor a subscription of the first tree.
RemovedStaysRemoved == pc = "up" /\ gone = {} => removed \cap mem = {}

\* The members UpdateService's two inventories are put in after a restart.
Exchanged(l) ==
    CASE l[1] = "firmware_inventory" -> <<"software_inventory", l[2]>>
      [] l[1] = "software_inventory" -> <<"firmware_inventory", l[2]>>
      [] OTHER -> l

\* A restart that found every file connects the objects as the first start
\* did, except that dependency_injection exchanges the two inventories.
LinksAreRestored ==
    pc = "up" /\ gone = {} =>
        links = {l \in (IF loaded THEN {Exchanged(k) : k \in Links(FullTree)}
                        ELSE Links(FullTree)) : l[2] \notin removed}
=============================================================================
