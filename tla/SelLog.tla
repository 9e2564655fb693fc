------------------------------- MODULE SelLog -------------------------------
(***************************************************************************)
(* The System Event Log of KETI-Edge: libs/sel/sel.cpp, the entry counter  *)
(* in libs/ipmi/ipmi.cpp and the storage commands libs/apps/apps.cpp       *)
(* dispatches to them.                                                     *)
(*                                                                         *)
(* The log lives twice: in memory (g_sel_hdr, g_sel_data) and in the file  *)
(* sel.bin (a header and a table of records).  A command changes memory    *)
(* and then writes the file in two separate fopen/fwrite/fclose rounds,    *)
(* the header first, so the process can be killed between the two; the     *)
(* next start loads whatever the file then holds.                          *)
(*                                                                         *)
(* One command runs at a time here (the lanplus thread).  A record is its  *)
(* id field and an event; time stamps and message bytes are left out.      *)
(***************************************************************************)
EXTENDS Integers

CONSTANTS
    SEL_INDEX_MAX,  \* 255: last index of g_sel_data, also SEL_RECORDS_MAX
    SEL_RSVID_MAX,  \* 0xFFFE: the last reservation id before the wrap to 1
    MaxUnderflow,   \* bound: deletes are offered while hdr.end > -MaxUnderflow
    MaxRestarts,    \* bound: how often the process is killed
    Events,         \* the events clients and the firmware add
    LogFull,        \* the "log full" event add_to_sel_full builds
    LogCleared,     \* the "log cleared" event plat_sel_erase builds
    NoEvent         \* a record that was never written

AllEvents == Events \cup {LogFull, LogCleared, NoEvent}

\* Sixteen-byte records start 0x100 bytes into sel.bin and the header takes
\* 24 bytes, so 14 records fit before the header is reached.
ASSUME SelAssumption ==
    /\ SEL_INDEX_MAX \in Nat /\ SEL_INDEX_MAX >= 3
    /\ SEL_RSVID_MAX \in Nat /\ SEL_RSVID_MAX >= 1
    /\ MaxUnderflow \in 0 .. 14
    /\ MaxRestarts \in Nat

EndFloor        == -MaxUnderflow
SEL_RECORDS_MAX == SEL_INDEX_MAX
SEL_INDEX_MIN   == 0
SEL_RECID_LAST  == 65535

\* Record ids a request can carry: one byte, which covers the whole array.
RecordIds == 0 .. SEL_INDEX_MAX
\* Array cells a store can reach; the negative ones lie before g_sel_data[0].
Slots     == EndFloor .. SEL_INDEX_MAX
Records   == [id : Slots, ev : AllEvents]

VARIABLES
    hdr,       \* g_sel_hdr: [begin, end]
    data,      \* g_sel_data
    file,      \* sel.bin: [hdr, data]
    g_rsv_id,  \* the reservation id that is valid now
    enabled,   \* bit 3 of KETI_define::global_enabler
    pc,        \* what the running command does next
    full_msg,  \* plat_sel_add_entry's local of that name
    restarts   \* how often the process was killed so far

vars == <<hdr, data, file, g_rsv_id, enabled, pc, full_msg, restarts>>

EmptyHdr    == [begin |-> SEL_INDEX_MIN, end |-> SEL_INDEX_MIN]
BlankData   == [i \in Slots |-> [id |-> 0, ev |-> NoEvent]]

-----------------------------------------------------------------------------
(* The counters every command consults.                                    *)

plat_sel_num_entries ==
    IF hdr.begin <= hdr.end THEN hdr.end - hdr.begin
                            ELSE hdr.end + (SEL_INDEX_MAX - hdr.begin + 1)

\* Variant with a bug: the upper bound is not excluded.
ReadablePastEnd(id) ==
    /\ plat_sel_num_entries # 0
    /\ hdr.begin < hdr.end => id >= hdr.begin /\ id <= hdr.end
    /\ hdr.begin > hdr.end => ~(id >= hdr.end /\ id < hdr.begin)

\* plat_sel_get_entry: the ids it answers, and the id it says comes next.
Readable(id) ==
    /\ plat_sel_num_entries # 0
    /\ hdr.begin < hdr.end => id >= hdr.begin /\ id < hdr.end
    /\ hdr.begin > hdr.end => ~(id >= hdr.end /\ id < hdr.begin)

NextRecord(id) ==
    LET next == IF id + 1 > SEL_INDEX_MAX THEN SEL_INDEX_MIN ELSE id + 1
    IN  IF next = hdr.end THEN SEL_RECID_LAST ELSE next

-----------------------------------------------------------------------------
(* Adding a record.                                                        *)

\* Variant with a bug: the last place counts as free.
CanAddOnePast == plat_sel_num_entries # SEL_RECORDS_MAX + 1

CanAdd == plat_sel_num_entries # SEL_RECORDS_MAX

\* Variant with a bug: the notice comes when its place is already taken.
NoticeDueLate == plat_sel_num_entries = SEL_RECORDS_MAX - 1

\* full_msg: the record about to be added fills the last but one place.
NoticeDue == plat_sel_num_entries = SEL_RECORDS_MAX - 2

\* plat_sel_add_entry up to and including file_store_sel_hdr: the record is
\* stamped with its id, copied to g_sel_data[end], and the header is saved.
AppendAndSaveHdr(ev) ==
    /\ CanAdd
    /\ full_msg' = NoticeDue
    /\ data' = [data EXCEPT ![hdr.end] = [id |-> hdr.end, ev |-> ev]]
    /\ hdr' = [hdr EXCEPT !.end = @ + 1]
    /\ file' = [file EXCEPT !.hdr = hdr']
    /\ pc' = "data"

\* storage_add_sel, which apps.cpp dispatches only while SEL is enabled.
StorageAddSel(ev) ==
    /\ pc = "idle" /\ enabled
    /\ AppendAndSaveHdr(ev)
    /\ UNCHANGED <<g_rsv_id, enabled, restarts>>

\* sensor_event_get_num (Platform Event) and the events the firmware logs of
\* itself: power limit, power reset, start-up.  The enable bit is not asked.
LogEvent(ev) ==
    /\ pc = "idle"
    /\ AppendAndSaveHdr(ev)
    /\ UNCHANGED <<g_rsv_id, enabled, restarts>>

\* file_store_sel_data; then, if this was the last but one free place,
\* add_to_sel_full is next.
StoreRecord ==
    /\ pc = "data"
    /\ LET rec_id == hdr.end - 1 IN
       file' = [file EXCEPT !.data[rec_id] = data[rec_id]]
    /\ pc' = IF full_msg THEN "full" ELSE "idle"
    /\ full_msg' = FALSE
    /\ UNCHANGED <<hdr, data, g_rsv_id, enabled, restarts>>

AddToSelFull ==
    /\ pc = "full"
    /\ AppendAndSaveHdr(LogFull)
    /\ UNCHANGED <<g_rsv_id, enabled, restarts>>

-----------------------------------------------------------------------------
(* Deleting a record.                                                      *)

\* Variant with a bug: the loop stops one record early.
ShiftedShort(id) ==
    [i \in Slots |-> IF id <= i /\ i < hdr.end - 2 THEN data[i + 1] ELSE data[i]]

\* The array after the loop of delete_sel_entry: records above id move down.
\* The tail needs no move, and the loop is empty for an id past it.
ShiftedDown(id) ==
    [i \in Slots |-> IF id <= i /\ i < hdr.end - 1 THEN data[i + 1] ELSE data[i]]

\* delete_sel_entry up to file_store_sel_hdr.  The id is not looked up: every
\* id shortens the log by one, an empty log included.
DeleteEntry(id) ==
    /\ pc = "idle" /\ enabled
    /\ hdr.end > EndFloor
    /\ data' = ShiftedDown(id)
    /\ hdr' = [hdr EXCEPT !.end = @ - 1]
    /\ file' = [file EXCEPT !.hdr = hdr']
    /\ pc' = "all"
    /\ UNCHANGED <<g_rsv_id, enabled, full_msg, restarts>>

\* Variant with a bug: the loop stops one record early.
RenumberedShort ==
    [i \in Slots |-> IF 0 <= i /\ i < hdr.end - 1 THEN [data[i] EXCEPT !.id = i] ELSE data[i]]

\* The records 0..end once file_store_all_sel_data numbered them anew.
Renumbered ==
    [i \in Slots |-> IF 0 <= i /\ i <= hdr.end THEN [data[i] EXCEPT !.id = i] ELSE data[i]]

\* Variant with a bug: the loop starts at record 1, at the same file offset.
TableFromOne ==
    [i \in Slots |-> IF 0 <= i /\ i < SEL_INDEX_MAX THEN data[i + 1] ELSE file.data[i]]

\* What the file's table holds after file_store_all_sel_data.  Pass i numbers
\* record i and writes sizeof(g_sel_data) bytes from there: the first pass
\* writes the whole table with only record 0 numbered anew, the others write
\* behind the table.  Without a pass nothing is written.
TableWritten ==
    [i \in Slots |-> IF i < 0 \/ hdr.end < 0 THEN file.data[i]
                     ELSE IF i = 0 THEN Renumbered[0] ELSE data[i]]

StoreAllRecords ==
    /\ pc = "all"
    /\ data' = Renumbered
    /\ file' = [file EXCEPT !.data = TableWritten]
    /\ pc' = "idle"
    /\ UNCHANGED <<hdr, g_rsv_id, enabled, full_msg, restarts>>

-----------------------------------------------------------------------------
(* Reserving and clearing.                                                 *)

\* Variant with a bug: the id is compared after it was incremented past the end.
NextRsvIdUnwrapped == IF g_rsv_id = SEL_RSVID_MAX + 1 THEN 1 ELSE g_rsv_id + 1

\* plat_sel_rsv_id.
NextRsvId == IF g_rsv_id = SEL_RSVID_MAX THEN 1 ELSE g_rsv_id + 1

\* storage_rsv_sel.
Reserve ==
    /\ pc = "idle" /\ enabled
    /\ g_rsv_id' = NextRsvId
    /\ UNCHANGED <<hdr, data, file, enabled, pc, full_msg, restarts>>

\* storage_clr_sel with IPMI_SEL_INIT_ERASE: plat_sel_erase empties the log by
\* its header only and saves it; the "log cleared" event is added next.
ClearLog(rsv_id) ==
    /\ pc = "idle" /\ enabled
    /\ rsv_id = g_rsv_id
    /\ hdr' = EmptyHdr
    /\ file' = [file EXCEPT !.hdr = hdr']
    /\ pc' = "cleared"
    /\ UNCHANGED <<data, g_rsv_id, enabled, full_msg, restarts>>

AddLogCleared ==
    /\ pc = "cleared"
    /\ AppendAndSaveHdr(LogCleared)
    /\ UNCHANGED <<g_rsv_id, enabled, restarts>>

-----------------------------------------------------------------------------
(* Global enables, the end of the process and its next start.              *)

\* app_set_bmc_global_enables: bit 3 switches the SEL commands on and off.
SetGlobalEnables(on) ==
    /\ pc = "idle"
    /\ enabled' = on
    /\ UNCHANGED <<hdr, data, file, g_rsv_id, pc, full_msg, restarts>>

\* The process is killed (power loss, watchdog, a fault) between two writes.
Kill ==
    /\ pc # "down"
    /\ restarts < MaxRestarts
    /\ restarts' = restarts + 1
    /\ pc' = "down"
    /\ UNCHANGED <<hdr, data, file, g_rsv_id, enabled, full_msg>>

\* plat_ipmi_init and plat_sel_init when sel.bin exists: file_get_sel_hdr,
\* file_get_sel_data.  Cells before the array are not part of the file image.
\* The saved enable byte is not read back (Manager::load_json stops before it).
Start ==
    /\ pc = "down"
    /\ hdr' = file.hdr
    /\ data' = [i \in Slots |-> IF i < 0 THEN BlankData[i] ELSE file.data[i]]
    /\ g_rsv_id' = 1
    /\ enabled' = TRUE
    /\ full_msg' = FALSE
    /\ pc' = "idle"
    /\ UNCHANGED <<file, restarts>>

-----------------------------------------------------------------------------

\* plat_sel_init on a board without sel.bin, after plat_ipmi_init.
Init ==
    /\ hdr = EmptyHdr
    /\ data = BlankData
    /\ file = [hdr |-> EmptyHdr, data |-> BlankData]
    /\ g_rsv_id = 1
    /\ enabled = TRUE
    /\ pc = "idle"
    /\ full_msg = FALSE
    /\ restarts = 0

Next ==
    \/ \E ev \in Events : StorageAddSel(ev)
    \/ \E ev \in Events : LogEvent(ev)
    \/ StoreRecord
    \/ AddToSelFull
    \/ \E id \in RecordIds : DeleteEntry(id)
    \/ StoreAllRecords
    \/ Reserve
    \/ \E rsv_id \in 1 .. SEL_RSVID_MAX : ClearLog(rsv_id)
    \/ AddLogCleared
    \/ \E on \in BOOLEAN : SetGlobalEnables(on)
    \/ Kill
    \/ Start

Spec == Init /\ [][Next]_vars

-----------------------------------------------------------------------------
(* Properties.                                                             *)

TypeOK ==
    /\ hdr \in [begin : Int, end : Int]
    /\ data \in [Slots -> Records]
    /\ file \in [hdr : [begin : Int, end : Int], data : [Slots -> Records]]
    /\ g_rsv_id \in 1 .. SEL_RSVID_MAX
    /\ enabled \in BOOLEAN
    /\ pc \in {"idle", "data", "full", "all", "cleared", "down"}
    /\ full_msg \in BOOLEAN
    /\ restarts \in 0 .. MaxRestarts

\* Whatever ids clients delete and wherever the process is killed, the log in
\* memory and the one the next start loads never roll over and never extend
\* past the array: plat_sel_add_entry never stores behind g_sel_data[254].
EndInArray ==
    \A h \in {hdr, file.hdr} : h.begin = SEL_INDEX_MIN /\ h.end <= SEL_INDEX_MAX

\* The events the firmware adds on its own find room: "log full" after the
\* record that fills the last but one place, "log cleared" after a clear.
RoomForAnnouncement == pc \in {"full", "cleared"} => CanAdd

\* Between commands sel.bin holds the header and the events memory holds,
\* after any number of restarts and torn writes.
FileMirrorsMemory ==
    pc = "idle" =>
        /\ file.hdr = hdr
        /\ \A i \in 0 .. hdr.end - 1 : file.data[i].ev = data[i].ev

\* Until the first restart every record carries its own position as its id,
\* deletes in between included (delete_sel_entry numbers the rest anew).
IdsMatchPositions ==
    (pc = "idle" /\ restarts = 0) => \A i \in 0 .. hdr.end - 1 : data[i].id = i

\* A client that starts at record 0 and asks for the "next" id it is given
\* reads every entry once, in order, and is then told 0xFFFF; ids past the
\* log are refused (storage_get_sel, plat_sel_get_entry).
ListingCoversLog ==
    hdr.end >= 0 =>
        \A id \in RecordIds :
            /\ Readable(id) <=> id < hdr.end
            /\ Readable(id) => NextRecord(id) = IF id = hdr.end - 1 THEN SEL_RECID_LAST ELSE id + 1

\* The log as its reader sees it implements SelContents; a log whose end was
\* deleted past the start has no entry to read.
Contents == [i \in 1 .. hdr.end |-> data[i - 1].ev]
C == INSTANCE SelContents WITH log <- Contents, MaxEntries <- SEL_RECORDS_MAX, Entries <- AllEvents
ImplementsContents == C!Spec

\* libs/ipmi/ipmi.cpp:273 says the number of entries is always end - begin.
EntriesAreEndMinusBegin == plat_sel_num_entries = hdr.end - hdr.begin

\* libs/sel/sel.cpp:87 and :147 say a delete puts the ids in order and then saves
\* g_sel_data: the ids a restart would load match the positions.
SavedIdsMatchPositions ==
    pc = "idle" => \A i \in 0 .. file.hdr.end - 1 : file.data[i].id = i

=============================================================================
