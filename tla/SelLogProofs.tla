---------------------------- MODULE SelLogProofs ----------------------------
(***************************************************************************)
(* Proofs about SelLog, for every array size, every bound on deletes past  *)
(* the start and every number of kills. IInv relates the log to its file;  *)
(* from it follow the invariants, the ids of the records, what a client    *)
(* that lists the log is told, and, with Torn, that the log implements     *)
(* SelContents.                                                            *)
(***************************************************************************)
EXTENDS SelLog, SequenceTheorems, TLAPS

\* A header that begins at 0 and ends inside the array, or below by deletes.
HdrOK(h) == h.begin = SEL_INDEX_MIN /\ h.end \in EndFloor .. SEL_INDEX_MAX

\* How the file relates to memory while the process runs: the header is never
\* behind, and the events agree but for the record that is being stored.
Saved ==
    pc # "down" =>
        /\ file.hdr = hdr
        /\ pc \in {"idle", "full", "cleared"} =>
               \A i \in 0 .. hdr.end - 1 : file.data[i].ev = data[i].ev
        /\ pc = "data" =>
               \A i \in 0 .. hdr.end - 2 : file.data[i].ev = data[i].ev

\* The inductive invariant: types, headers inside the array, one free place
\* when a notice is due, and Saved.
IInv ==
    /\ TypeOK
    /\ HdrOK(hdr) /\ HdrOK(file.hdr)
    /\ (pc = "data" /\ full_msg) \/ pc = "full" => plat_sel_num_entries = SEL_RECORDS_MAX - 1
    /\ pc = "cleared" => hdr.end = 0
    /\ Saved

USE SelAssumption DEF SelAssumption, SEL_RECORDS_MAX, SEL_INDEX_MIN, EndFloor

\* A record that is appended goes into the array, and what was there stays.
LEMMA AppendKeepsIInv ==
    ASSUME IInv, NEW ev \in AllEvents, AppendAndSaveHdr(ev),
           pc \in {"idle", "full", "cleared"},
           UNCHANGED <<g_rsv_id, enabled, restarts>>
    PROVE  IInv'
<1>1. /\ hdr \in [begin : Int, end : Int] /\ hdr.begin = 0
      /\ hdr.end \in -MaxUnderflow .. SEL_INDEX_MAX
      /\ plat_sel_num_entries # SEL_INDEX_MAX
  BY DEF IInv, TypeOK, HdrOK, AppendAndSaveHdr, CanAdd
<1>2. hdr.end # SEL_INDEX_MAX /\ hdr.end \in Slots
  BY <1>1 DEF plat_sel_num_entries, Slots
<1>3. hdr' = [begin |-> 0, end |-> hdr.end + 1]
  BY <1>1 DEF AppendAndSaveHdr
<1>4. file'.hdr = hdr' /\ file'.data = file.data
  BY DEF IInv, TypeOK, AppendAndSaveHdr
<1>5. data' = [data EXCEPT ![hdr.end] = [id |-> hdr.end, ev |-> ev]]
  BY DEF AppendAndSaveHdr
<1>6. TypeOK'
  <2>1. hdr' \in [begin : Int, end : Int]
    BY <1>1, <1>3
  <2>2. data' \in [Slots -> Records]
    BY <1>2, <1>5 DEF IInv, TypeOK, Records
  <2>3. file' \in [hdr : [begin : Int, end : Int], data : [Slots -> Records]]
    BY <2>1 DEF IInv, TypeOK, AppendAndSaveHdr
  <2>4. full_msg' \in BOOLEAN /\ pc' = "data"
    BY DEF AppendAndSaveHdr, NoticeDue
  <2> QED BY <2>1, <2>2, <2>3, <2>4 DEF IInv, TypeOK
<1>7. HdrOK(hdr)' /\ HdrOK(file.hdr)'
  BY <1>1, <1>2, <1>3, <1>4 DEF HdrOK
<1>8. ((pc = "data" /\ full_msg) \/ pc = "full" => plat_sel_num_entries = SEL_RECORDS_MAX - 1)'
  <2>1. plat_sel_num_entries = IF 0 <= hdr.end THEN hdr.end ELSE hdr.end + SEL_INDEX_MAX + 1
    BY <1>1 DEF plat_sel_num_entries
  <2>2. plat_sel_num_entries' = IF 0 <= hdr.end + 1 THEN hdr.end + 1
                                                     ELSE hdr.end + SEL_INDEX_MAX + 2
    BY <1>1, <1>3 DEF plat_sel_num_entries
  <2>3. pc' = "data" /\ (full_msg' => plat_sel_num_entries = SEL_INDEX_MAX - 2)
    BY DEF AppendAndSaveHdr, NoticeDue
  <2>4. plat_sel_num_entries = SEL_INDEX_MAX - 2 => plat_sel_num_entries' = SEL_INDEX_MAX - 1
    BY <1>1, <2>1, <2>2
  <2> QED BY <2>3, <2>4
<1>9. Saved'
  <2>1. \A i \in 0 .. hdr.end - 1 : file.data[i].ev = data[i].ev
    BY DEF IInv, Saved
  <2>2. \A i \in 0 .. hdr'.end - 2 : file'.data[i].ev = data'[i].ev
    BY <2>1, <1>1, <1>3, <1>4, <1>5 DEF IInv, TypeOK, Slots
  <2> QED BY <2>2, <1>4 DEF Saved, AppendAndSaveHdr
<1> QED BY <1>6, <1>7, <1>8, <1>9 DEF IInv, AppendAndSaveHdr

\* The two stores that end a command bring the file up to date.
LEMMA StoreRecordKeepsIInv == IInv /\ StoreRecord => IInv'
<1> SUFFICES ASSUME IInv, StoreRecord PROVE IInv'
  OBVIOUS
<1>1. /\ hdr.end \in -MaxUnderflow .. SEL_INDEX_MAX /\ hdr' = hdr /\ data' = data
      /\ data \in [Slots -> Records]
      /\ file \in [hdr : [begin : Int, end : Int], data : [Slots -> Records]]
      /\ pc' \in {"full", "idle"} /\ full_msg' = FALSE
      /\ pc = "data" /\ (pc' = "full" => full_msg)
      /\ file' = [file EXCEPT !.data[hdr.end - 1] = data[hdr.end - 1]]
  BY DEF IInv, TypeOK, HdrOK, StoreRecord
<1>2. file'.hdr = file.hdr /\ file'.data = [file.data EXCEPT ![hdr.end - 1] = data[hdr.end - 1]]
  BY <1>1
<1>3. file'.data \in [Slots -> Records]
  <2>1. CASE hdr.end - 1 \in Slots
    BY <2>1, <1>1, <1>2
  <2>2. CASE hdr.end - 1 \notin Slots
    BY <2>2, <1>1, <1>2
  <2> QED BY <2>1, <2>2
<1>4. TypeOK'
  BY <1>1, <1>3 DEF IInv, TypeOK, StoreRecord
<1>5. Saved'
  <2>1. \A i \in 0 .. hdr.end - 2 : file.data[i].ev = data[i].ev
    BY <1>1 DEF IInv, Saved
  <2>2. \A i \in 0 .. hdr.end - 1 : file'.data[i].ev = data[i].ev
    <3> SUFFICES ASSUME NEW i \in 0 .. hdr.end - 1 PROVE file'.data[i].ev = data[i].ev
      OBVIOUS
    <3>1. i \in Slots /\ (i # hdr.end - 1 => i \in 0 .. hdr.end - 2)
      <4>1. hdr.end \in -MaxUnderflow .. SEL_INDEX_MAX
        BY <1>1
      <4> QED BY <4>1 DEF Slots
    <3>2. CASE i = hdr.end - 1
      BY <3>1, <3>2, <1>1, <1>2
    <3>3. CASE i # hdr.end - 1
      BY <3>1, <3>3, <2>1, <1>1, <1>2
    <3> QED BY <3>2, <3>3
  <2> QED BY <2>2, <1>1, <1>2 DEF IInv, Saved
<1>6. (pc = "full" => plat_sel_num_entries = SEL_RECORDS_MAX - 1)'
  BY <1>1 DEF IInv, plat_sel_num_entries
<1> QED BY <1>1, <1>2, <1>4, <1>5, <1>6 DEF IInv, HdrOK

\* The table rewrite after a delete leaves every event of the log in the file.
LEMMA StoreAllRecordsKeepsIInv == IInv /\ StoreAllRecords => IInv'
<1> SUFFICES ASSUME IInv, StoreAllRecords PROVE IInv'
  OBVIOUS
<1>1. /\ hdr.end \in -MaxUnderflow .. SEL_INDEX_MAX /\ hdr' = hdr
      /\ data \in [Slots -> Records]
      /\ file \in [hdr : [begin : Int, end : Int], data : [Slots -> Records]]
      /\ pc = "all" /\ pc' = "idle" /\ data' = Renumbered
      /\ file' = [file EXCEPT !.data = TableWritten]
      /\ UNCHANGED <<hdr, g_rsv_id, enabled, full_msg, restarts>>
  BY DEF IInv, TypeOK, HdrOK, StoreAllRecords
<1>2. file'.hdr = file.hdr /\ file'.data = TableWritten
  BY <1>1
<1>3. /\ Renumbered \in [Slots -> Records]
      /\ \A i \in Slots : Renumbered[i].ev = data[i].ev
  BY <1>1 DEF Renumbered, Records
<1>4. /\ TableWritten \in [Slots -> Records]
      /\ \A i \in Slots : 0 <= i /\ 0 <= hdr.end => TableWritten[i].ev = data[i].ev
  <2>1. 0 \in Slots
    BY DEF Slots
  <2>2. \A i \in Slots : i \in Int
    BY DEF Slots
  <2> QED BY <1>1, <1>3, <2>1, <2>2 DEF TableWritten
<1>5. TypeOK'
  BY <1>1, <1>2, <1>3, <1>4 DEF IInv, TypeOK
<1>6. Saved'
  <2>1. ASSUME NEW i \in 0 .. hdr.end - 1 PROVE file'.data[i].ev = data'[i].ev
    <3>1. i \in Slots /\ 0 <= i /\ 0 <= hdr.end
      BY <1>1 DEF Slots
    <3>2. TableWritten[i].ev = data[i].ev /\ Renumbered[i].ev = data[i].ev
      BY <1>3, <1>4, <3>1
    <3> QED BY <1>1, <1>2, <3>2
  <2> QED BY <2>1, <1>1, <1>2 DEF IInv, Saved
<1> QED BY <1>1, <1>2, <1>5, <1>6 DEF IInv, HdrOK

\* A delete changes only memory and the header, whatever id it is given.
LEMMA DeleteKeepsIInv == ASSUME IInv, NEW id \in RecordIds, DeleteEntry(id) PROVE IInv'
<1>1. /\ hdr \in [begin : Int, end : Int] /\ hdr.begin = 0
      /\ hdr.end \in -MaxUnderflow .. SEL_INDEX_MAX /\ hdr.end > -MaxUnderflow
      /\ data \in [Slots -> Records]
      /\ file \in [hdr : [begin : Int, end : Int], data : [Slots -> Records]]
      /\ pc' = "all" /\ data' = ShiftedDown(id)
      /\ hdr' = [hdr EXCEPT !.end = hdr.end - 1]
      /\ file' = [file EXCEPT !.hdr = hdr']
  BY DEF IInv, TypeOK, HdrOK, DeleteEntry
<1>2. hdr' = [begin |-> 0, end |-> hdr.end - 1] /\ file'.hdr = hdr' /\ file'.data = file.data
  BY <1>1
<1>3. data' \in [Slots -> Records]
  <2>1. \A i \in Slots : id <= i /\ i < hdr.end - 1 => i + 1 \in Slots
    <3>1. hdr.end \in -MaxUnderflow .. SEL_INDEX_MAX
      BY <1>1
    <3> QED BY <3>1 DEF Slots, RecordIds
  <2> QED BY <1>1, <2>1 DEF ShiftedDown
<1>4. TypeOK'
  BY <1>1, <1>2, <1>3 DEF IInv, TypeOK, DeleteEntry
<1> QED BY <1>1, <1>2, <1>4 DEF IInv, HdrOK, Saved

\* A start loads whatever the file holds, and memory then agrees with it.
LEMMA StartKeepsIInv == IInv /\ Start => IInv'
<1> SUFFICES ASSUME IInv, Start PROVE IInv'
  OBVIOUS
<1>1. /\ file \in [hdr : [begin : Int, end : Int], data : [Slots -> Records]]
      /\ data' = [i \in Slots |-> IF i < 0 THEN BlankData[i] ELSE file.data[i]]
      /\ hdr' = file.hdr /\ file' = file /\ pc' = "idle" /\ full_msg' = FALSE
  BY DEF IInv, TypeOK, Start
<1>2. BlankData \in [Slots -> Records]
  BY DEF BlankData, Records, Slots, AllEvents
<1>3. data' \in [Slots -> Records]
  BY <1>1, <1>2
<1>4. TypeOK'
  <2>1. g_rsv_id' \in 1 .. SEL_RSVID_MAX /\ enabled' \in BOOLEAN /\ restarts' \in 0 .. MaxRestarts
    BY DEF IInv, TypeOK, Start
  <2> QED BY <1>1, <1>3, <2>1 DEF TypeOK
<1>5. Saved'
  BY <1>1 DEF IInv, HdrOK, Saved, Slots
<1> QED BY <1>1, <1>4, <1>5 DEF IInv, HdrOK

-----------------------------------------------------------------------------

\* An empty log with its empty file satisfies the invariant.
THEOREM InitEstablishes == Init => IInv
<1> SUFFICES ASSUME Init PROVE IInv
  OBVIOUS
<1>1. BlankData \in [Slots -> Records]
  BY DEF BlankData, Records, Slots, AllEvents
<1>2. TypeOK
  <2>1. EmptyHdr \in [begin : Int, end : Int]
    BY DEF EmptyHdr
  <2>2. g_rsv_id \in 1 .. SEL_RSVID_MAX /\ restarts \in 0 .. MaxRestarts
    BY DEF Init
  <2> QED BY <1>1, <2>1, <2>2 DEF Init, TypeOK
<1> QED BY <1>2 DEF Init, EmptyHdr, IInv, HdrOK, Saved

\* Every command, store, kill and start keeps the invariant.
THEOREM StepsKeepIInv == IInv /\ [Next]_vars => IInv'
<1> SUFFICES ASSUME IInv, [Next]_vars PROVE IInv'
  OBVIOUS
<1>1. ASSUME NEW ev \in Events, StorageAddSel(ev) PROVE IInv'
  BY <1>1, AppendKeepsIInv DEF StorageAddSel, AllEvents
<1>2. ASSUME NEW ev \in Events, LogEvent(ev) PROVE IInv'
  BY <1>2, AppendKeepsIInv DEF LogEvent, AllEvents
<1>3. CASE StoreRecord
  BY <1>3, StoreRecordKeepsIInv
<1>4. CASE AddToSelFull
  BY <1>4, AppendKeepsIInv DEF AddToSelFull, AllEvents
<1>5. ASSUME NEW id \in RecordIds, DeleteEntry(id) PROVE IInv'
  BY <1>5, DeleteKeepsIInv
<1>6. CASE StoreAllRecords
  BY <1>6, StoreAllRecordsKeepsIInv
<1>7. CASE Reserve
  BY <1>7 DEF Reserve, NextRsvId, IInv, TypeOK, HdrOK, Saved, plat_sel_num_entries
<1>8. ASSUME NEW rsv_id \in 1 .. SEL_RSVID_MAX, ClearLog(rsv_id) PROVE IInv'
  <2>1. /\ hdr' = EmptyHdr /\ file'.hdr = EmptyHdr /\ file'.data = file.data
        /\ file' \in [hdr : [begin : Int, end : Int], data : [Slots -> Records]]
    BY <1>8 DEF ClearLog, IInv, TypeOK, EmptyHdr
  <2>2. TypeOK'
    BY <1>8, <2>1 DEF ClearLog, IInv, TypeOK, EmptyHdr
  <2> QED BY <1>8, <2>1, <2>2 DEF ClearLog, EmptyHdr, IInv, HdrOK, Saved
<1>9. CASE AddLogCleared
  BY <1>9, AppendKeepsIInv DEF AddLogCleared, AllEvents
<1>10. ASSUME NEW on \in BOOLEAN, SetGlobalEnables(on) PROVE IInv'
  BY <1>10 DEF SetGlobalEnables, IInv, TypeOK, HdrOK, Saved, plat_sel_num_entries
<1>11. CASE Kill
  BY <1>11 DEF Kill, IInv, TypeOK, HdrOK, Saved
<1>12. CASE Start
  BY <1>12, StartKeepsIInv
<1>13. CASE UNCHANGED vars
  BY <1>13 DEF vars, IInv, TypeOK, HdrOK, Saved, plat_sel_num_entries
<1> QED BY <1>1, <1>2, <1>3, <1>4, <1>5, <1>6, <1>7, <1>8, <1>9, <1>10, <1>11, <1>12, <1>13 DEF Next

\* IInv holds in every reachable state.
THEOREM Invariance == Spec => []IInv
  BY InitEstablishes, StepsKeepIInv, PTL DEF Spec

\* The variables keep their types.
THEOREM Typing == Spec => []TypeOK
<1>1. IInv => TypeOK
  BY DEF IInv
<1> QED BY <1>1, Invariance, PTL

\* However many ids are deleted and whenever the process is killed, neither
\* the log in memory nor the saved one reaches past the array.
THEOREM LogStaysInArray == Spec => []EndInArray
<1>1. IInv => EndInArray
  BY DEF IInv, HdrOK, EndInArray
<1> QED BY <1>1, Invariance, PTL

\* "Log full" and "log cleared" always find a free place.
THEOREM AnnouncementsFit == Spec => []RoomForAnnouncement
<1>1. IInv => RoomForAnnouncement
  BY DEF IInv, TypeOK, HdrOK, RoomForAnnouncement, CanAdd, plat_sel_num_entries
<1> QED BY <1>1, Invariance, PTL

\* Between commands the file holds the header and the events of memory.
THEOREM FileIsCurrent == Spec => []FileMirrorsMemory
<1>1. IInv => FileMirrorsMemory
  BY DEF IInv, Saved, FileMirrorsMemory
<1> QED BY <1>1, Invariance, PTL

-----------------------------------------------------------------------------
(* The ids of the records, and what a client that lists the log is told.   *)

\* Until the first kill a record has its position as its id, except between a
\* delete and the rewrite of the table.
Numbered ==
    restarts = 0 =>
        /\ pc # "down"
        /\ pc # "all" => \A i \in 0 .. hdr.end - 1 : data[i].id = i

\* Every step keeps the records numbered: an append stamps the one place it
\* fills, and the rewrite numbers all of them.
LEMMA StepsKeepNumbered == IInv /\ Numbered /\ [Next]_vars => Numbered'
<1> SUFFICES ASSUME IInv, Numbered, [Next]_vars PROVE Numbered'
  OBVIOUS
<1>1. /\ hdr \in [begin : Int, end : Int] /\ hdr.begin = 0
      /\ hdr.end \in -MaxUnderflow .. SEL_INDEX_MAX
      /\ data \in [Slots -> Records] /\ restarts \in Nat
  BY DEF IInv, TypeOK, HdrOK
<1>2. ASSUME NEW ev, AppendAndSaveHdr(ev), pc \in {"idle", "full", "cleared"},
             UNCHANGED restarts
      PROVE  Numbered'
  <2>1. hdr.end # SEL_INDEX_MAX
    BY <1>1, <1>2 DEF AppendAndSaveHdr, CanAdd, plat_sel_num_entries
  <2>2. hdr'.end = hdr.end + 1 /\ hdr.end \in Slots
    BY <1>1, <1>2, <2>1 DEF AppendAndSaveHdr, Slots
  <2>3. data' = [data EXCEPT ![hdr.end] = [id |-> hdr.end, ev |-> ev]]
    BY <1>2 DEF AppendAndSaveHdr
  <2>4. SUFFICES ASSUME restarts = 0, NEW i \in 0 .. hdr.end PROVE data'[i].id = i
    BY <1>1, <1>2, <2>2 DEF Numbered, AppendAndSaveHdr
  <2>5. CASE i = hdr.end
    BY <1>1, <2>2, <2>3, <2>5
  <2>6. CASE i # hdr.end
    <3>1. i \in 0 .. hdr.end - 1
      BY <1>1, <2>6
    <3>2. data[i].id = i
      BY <1>2, <2>4, <3>1 DEF Numbered
    <3> QED BY <1>1, <2>3, <2>6, <3>1, <3>2 DEF Slots
  <2> QED BY <2>5, <2>6
<1>3. ASSUME NEW ev \in Events, StorageAddSel(ev) \/ LogEvent(ev) PROVE Numbered'
  BY <1>2, <1>3 DEF StorageAddSel, LogEvent
<1>4. CASE AddToSelFull \/ AddLogCleared
  BY <1>2, <1>4 DEF AddToSelFull, AddLogCleared
<1>5. CASE StoreRecord
  BY <1>5 DEF StoreRecord, Numbered
<1>6. ASSUME NEW id \in RecordIds, DeleteEntry(id) PROVE Numbered'
  BY <1>6 DEF DeleteEntry, Numbered
<1>7. CASE StoreAllRecords
  <2>1. \A i \in 0 .. hdr.end - 1 : i \in Slots /\ i <= hdr.end /\ 0 <= i
    BY <1>1 DEF Slots
  <2>2. \A i \in 0 .. hdr.end - 1 : Renumbered[i].id = i
    BY <1>1, <2>1 DEF Renumbered, Records
  <2> QED BY <1>7, <2>2 DEF StoreAllRecords, Numbered
<1>8. CASE Reserve
  BY <1>8 DEF Reserve, Numbered
<1>9. ASSUME NEW rsv_id \in 1 .. SEL_RSVID_MAX, ClearLog(rsv_id) PROVE Numbered'
  BY <1>9 DEF ClearLog, EmptyHdr, Numbered
<1>10. ASSUME NEW on \in BOOLEAN, SetGlobalEnables(on) PROVE Numbered'
  BY <1>10 DEF SetGlobalEnables, Numbered
<1>11. CASE Kill
  BY <1>1, <1>11 DEF Kill, Numbered
<1>12. CASE Start
  BY <1>12 DEF Start, Numbered
<1>13. CASE UNCHANGED vars
  BY <1>13 DEF vars, Numbered
<1> QED BY <1>3, <1>4, <1>5, <1>6, <1>7, <1>8, <1>9, <1>10, <1>11, <1>12, <1>13 DEF Next

\* Until the first restart every record carries its position as its id,
\* whatever is deleted in between, past the start of the log included.
THEOREM RecordsAreNumbered == Spec => []IdsMatchPositions
<1>1. Init => Numbered
  BY DEF Init, EmptyHdr, Numbered
<1>2. Numbered => IdsMatchPositions
  BY DEF Numbered, IdsMatchPositions
<1> QED BY <1>1, <1>2, Invariance, StepsKeepNumbered, PTL DEF Spec

\* A client that follows the "next" ids from record 0 reads every entry once
\* and is then told 0xFFFF; ids past the log are refused.
THEOREM ListingsAreComplete == Spec => []ListingCoversLog
<1>1. IInv => ListingCoversLog
  <2> SUFFICES ASSUME IInv, hdr.end >= 0, NEW id \in RecordIds
               PROVE  /\ Readable(id) <=> id < hdr.end
                      /\ Readable(id) => NextRecord(id) = IF id = hdr.end - 1 THEN SEL_RECID_LAST
                                                                             ELSE id + 1
    BY DEF ListingCoversLog
  <2>1. hdr.begin = 0 /\ hdr.end \in 0 .. SEL_INDEX_MAX /\ id \in 0 .. SEL_INDEX_MAX
    BY DEF IInv, HdrOK, RecordIds
  <2>2. Readable(id) <=> id < hdr.end
    BY <2>1 DEF Readable, plat_sel_num_entries
  <2>3. ASSUME id < hdr.end
        PROVE  NextRecord(id) = IF id = hdr.end - 1 THEN SEL_RECID_LAST ELSE id + 1
    BY <2>1, <2>3 DEF NextRecord
  <2> QED BY <2>2, <2>3
<1> QED BY <1>1, Invariance, PTL

-----------------------------------------------------------------------------
(* The log as its reader sees it implements SelContents.  A log whose end   *)
(* was deleted past the start has no entry to read.                         *)

\* The saved header is never behind, not even while the process is down; what
\* is saved has the events of memory, or those of before a delete: behind one
\* place k every event is the one memory has a place further down.
Torn ==
    /\ file.hdr = hdr
    /\ pc \in {"all", "down"} =>
           \E k \in Nat :
               \A i \in 0 .. hdr.end - 1 :
                   /\ i < k => file.data[i].ev = data[i].ev
                   /\ i > k => file.data[i].ev = data[i - 1].ev

\* What IInv says of the variables the reader's view depends on.
LEMMA LogTyping ==
    ASSUME IInv
    PROVE  /\ hdr.end \in EndFloor .. SEL_INDEX_MAX /\ hdr.end \in Int
           /\ hdr \in [begin : Int, end : Int]
           /\ Slots \subseteq Int /\ \A i \in Nat : i < hdr.end => i \in Slots
           /\ data \in [Slots -> Records]
           /\ file \in [hdr : [begin : Int, end : Int], data : [Slots -> Records]]
           /\ hdr.begin = 0
  BY DEF IInv, TypeOK, HdrOK, Slots

\* A delete leaves the saved table as it was: it is torn at the id deleted.
LEMMA DeleteTears ==
    ASSUME IInv, NEW id \in RecordIds, DeleteEntry(id)
    PROVE  Torn'
<1>1. /\ hdr'.end = hdr.end - 1 /\ hdr.end \in Int /\ data' = ShiftedDown(id)
      /\ file'.hdr = hdr' /\ file'.data = file.data
  BY LogTyping DEF DeleteEntry
<1>2. \A i \in 0 .. hdr.end - 1 : file.data[i].ev = data[i].ev
  BY DEF IInv, Saved, DeleteEntry
<1>3. id \in Nat
  BY DEF RecordIds
<1>4. ASSUME NEW i \in 0 .. hdr.end - 2
      PROVE  /\ i < id => file.data[i].ev = data'[i].ev
             /\ i > id => file.data[i].ev = data'[i - 1].ev
  <2>1. i \in Slots /\ i \in Nat /\ i <= hdr.end - 2
    BY LogTyping, <1>1
  <2>2. ASSUME i < id PROVE file.data[i].ev = data'[i].ev
    <3>1. data'[i] = data[i]
      BY <2>1, <2>2, <1>1, <1>3 DEF ShiftedDown
    <3> QED BY <3>1, <1>1, <1>2, <2>1
  <2>3. ASSUME i > id PROVE file.data[i].ev = data'[i - 1].ev
    <3>1. i - 1 \in Slots /\ i - 1 \in Nat
      BY <2>1, <2>3, <1>1, <1>3, LogTyping
    <3>2. id <= i - 1 /\ i - 1 < hdr.end - 1
      BY <2>1, <2>3, <1>1, <1>3
    <3>3. data'[i - 1] = data[(i - 1) + 1]
      BY <3>1, <3>2, <1>1 DEF ShiftedDown
    <3> QED BY <3>3, <1>1, <1>2, <2>1
  <2> QED BY <2>2, <2>3
<1>5. hdr'.end - 1 = hdr.end - 2
  BY <1>1
<1> QED BY <1>1, <1>3, <1>4, <1>5 DEF Torn

\* A kill finds the file current, torn by a delete, or without the last record.
LEMMA KillTears == ASSUME IInv, Torn, Kill PROVE Torn'
<1>1. /\ hdr' = hdr /\ data' = data /\ file' = file /\ pc' = "down"
      /\ pc \in {"idle", "data", "full", "all", "cleared"}
  BY DEF Kill, IInv, TypeOK
<1>2. CASE pc = "all"
  BY <1>1, <1>2 DEF Torn
<1>3. CASE pc = "data"
  <2>1. \A i \in 0 .. hdr.end - 2 : file.data[i].ev = data[i].ev
    BY <1>3 DEF IInv, Saved
  <2>2. PICK k \in Nat : k = IF hdr.end > 0 THEN hdr.end - 1 ELSE 0
    BY LogTyping
  <2>3. \A i \in 0 .. hdr.end - 1 : (i < k => file.data[i].ev = data[i].ev) /\ ~(i > k)
    BY <2>1, <2>2, LogTyping
  <2> QED BY <1>1, <2>3 DEF Torn
<1>4. CASE pc \in {"idle", "full", "cleared"}
  <2>1. \A i \in 0 .. hdr.end - 1 : file.data[i].ev = data[i].ev
    BY <1>4 DEF IInv, Saved
  <2>2. PICK k \in Nat : \A i \in 0 .. hdr.end - 1 : ~(i > k)
    <3>1. SEL_INDEX_MAX \in Nat /\ \A i \in 0 .. hdr.end - 1 : ~(i > SEL_INDEX_MAX)
      BY LogTyping
    <3> QED BY <3>1
  <2> QED BY <1>1, <2>1, <2>2 DEF Torn
<1> QED BY <1>1, <1>2, <1>3, <1>4

\* Every step keeps the file current or torn.
LEMMA StepsKeepTorn ==
    ASSUME IInv, IInv', Torn, [Next]_vars
    PROVE  Torn'
<1>1. (pc' # "down" => file'.hdr = hdr')
  BY DEF IInv, Saved
<1>2. ASSUME NEW ev, AppendAndSaveHdr(ev) PROVE Torn'
  BY <1>1, <1>2 DEF AppendAndSaveHdr, Torn
<1>3. ASSUME NEW ev \in Events, StorageAddSel(ev) \/ LogEvent(ev) PROVE Torn'
  BY <1>2, <1>3 DEF StorageAddSel, LogEvent
<1>4. CASE AddToSelFull \/ AddLogCleared
  BY <1>2, <1>4 DEF AddToSelFull, AddLogCleared
<1>5. CASE StoreRecord \/ StoreAllRecords \/ Reserve \/ Start
  BY <1>1, <1>5 DEF StoreRecord, StoreAllRecords, Reserve, Start, Torn
<1>6. ASSUME NEW id \in RecordIds, DeleteEntry(id) PROVE Torn'
  BY <1>6, DeleteTears
<1>7. ASSUME NEW rsv_id \in 1 .. SEL_RSVID_MAX, ClearLog(rsv_id) PROVE Torn'
  BY <1>1, <1>7 DEF ClearLog, Torn
<1>8. ASSUME NEW on \in BOOLEAN, SetGlobalEnables(on) PROVE Torn'
  BY <1>1, <1>8 DEF SetGlobalEnables, Torn
<1>9. CASE Kill
  BY <1>9, KillTears
<1>10. CASE UNCHANGED vars
  BY <1>10 DEF vars, Torn
<1> QED BY <1>3, <1>4, <1>5, <1>6, <1>7, <1>8, <1>9, <1>10 DEF Next

\* The log that header end n and records d make: a sequence of n events, or
\* the empty one.
LogOf(n, d) == [i \in 1 .. n |-> d[i - 1].ev]

LEMMA LogOfProps ==
    ASSUME NEW n \in EndFloor .. SEL_INDEX_MAX, NEW d \in [Slots -> Records]
    PROVE  /\ LogOf(n, d) \in Seq(AllEvents)
           /\ n <= 0 => LogOf(n, d) = <<>>
           /\ n >= 0 => Len(LogOf(n, d)) = n /\ \A i \in 1 .. n : LogOf(n, d)[i] = d[i - 1].ev
<1> PICK s : s = LogOf(n, d)
  OBVIOUS
<1>0. s = [i \in 1 .. n |-> d[i - 1].ev]
  BY DEF LogOf
<1>1. CASE n <= 0
  <2>1. s = <<>>
    <3>1. 1 .. n = 1 .. 0
      BY <1>1
    <3>2. s = [i \in 1 .. 0 |-> d[i - 1].ev]
      BY <1>0, <3>1
    <3> QED BY <3>2
  <2> QED BY <1>1, <2>1, EmptySeq
<1>2. CASE n > 0
  <2>1. \A i \in 1 .. n : i - 1 \in Slots
    BY DEF Slots
  <2>2. \A i \in 1 .. n : d[i - 1].ev \in AllEvents
    BY <2>1 DEF Records
  <2>3. s \in [1 .. n -> AllEvents] /\ n \in Nat
    BY <1>0, <2>2, <1>2
  <2>4. s \in Seq(AllEvents)
    BY <2>3, SeqDef
  <2> QED BY <1>0, <1>2, <2>3, <2>4, LenProperties
<1> QED BY <1>1, <1>2

\* What a client reads before and after a step.
LEMMA ContentsProps ==
    ASSUME IInv, IInv'
    PROVE  /\ Contents \in Seq(AllEvents)
           /\ hdr.end <= 0 => Contents = <<>>
           /\ hdr.end >= 0 =>
                  Len(Contents) = hdr.end /\ \A i \in 1 .. hdr.end : Contents[i] = data[i - 1].ev
           /\ Contents' \in Seq(AllEvents)
           /\ hdr'.end <= 0 => Contents' = <<>>
           /\ hdr'.end >= 0 =>
                  Len(Contents') = hdr'.end /\ \A i \in 1 .. hdr'.end : Contents'[i] = data'[i - 1].ev
<1>1. /\ hdr.end \in EndFloor .. SEL_INDEX_MAX /\ hdr'.end \in EndFloor .. SEL_INDEX_MAX
      /\ data \in [Slots -> Records] /\ data' \in [Slots -> Records]
  BY DEF IInv, TypeOK, HdrOK
<1>2. Contents = LogOf(hdr.end, data) /\ Contents' = LogOf(hdr'.end, data')
  BY DEF Contents, LogOf
<1>3. /\ Contents \in Seq(AllEvents)
      /\ hdr.end <= 0 => Contents = <<>>
      /\ hdr.end >= 0 =>
             Len(Contents) = hdr.end /\ \A i \in 1 .. hdr.end : Contents[i] = data[i - 1].ev
  BY <1>1, <1>2, LogOfProps
<1>4. /\ Contents' \in Seq(AllEvents)
      /\ hdr'.end <= 0 => Contents' = <<>>
      /\ hdr'.end >= 0 =>
             Len(Contents') = hdr'.end /\ \A i \in 1 .. hdr'.end : Contents'[i] = data'[i - 1].ev
  BY <1>1, <1>2, LogOfProps
<1> QED BY <1>3, <1>4

\* A record that is appended is an entry added at the end; before the start
\* of the array nobody sees it.
LEMMA AppendAdds ==
    ASSUME IInv, IInv', NEW ev \in AllEvents, AppendAndSaveHdr(ev)
    PROVE  C!Add \/ Contents' = Contents
<1>1. /\ hdr.end \in Int /\ hdr.end <= SEL_INDEX_MAX - 1 /\ hdr'.end = hdr.end + 1
      /\ data' = [data EXCEPT ![hdr.end] = [id |-> hdr.end, ev |-> ev]]
  BY LogTyping DEF AppendAndSaveHdr, CanAdd, plat_sel_num_entries
<1>2. CASE hdr.end < 0
  BY <1>1, <1>2, ContentsProps
<1>3. CASE hdr.end >= 0
  <2>1. \A i \in 1 .. hdr.end + 1 :
            data'[i - 1].ev = IF i = hdr.end + 1 THEN ev ELSE data[i - 1].ev
    <3>1. \A i \in 1 .. hdr.end + 1 : i - 1 \in Slots /\ (i - 1 = hdr.end <=> i = hdr.end + 1)
      BY <1>1, <1>3 DEF Slots
    <3> QED BY <1>1, <3>1, LogTyping
  <2>2. /\ Append(Contents, ev) \in Seq(AllEvents) /\ Len(Append(Contents, ev)) = hdr.end + 1
        /\ \A i \in 1 .. hdr.end + 1 :
               Append(Contents, ev)[i] = IF i = hdr.end + 1 THEN ev ELSE data[i - 1].ev
    BY ContentsProps, AppendProperties, <1>1, <1>3
  <2>3. \A i \in 1 .. hdr.end + 1 : Contents'[i] = Append(Contents, ev)[i]
    BY ContentsProps, <1>1, <1>3, <2>1, <2>2
  <2>4. Contents' = Append(Contents, ev)
    <3>1. /\ Contents' \in Seq(AllEvents) /\ Len(Contents') = Len(Append(Contents, ev))
          /\ Len(Contents') = hdr.end + 1
      BY ContentsProps, <1>1, <1>3, <2>2
    <3>2. \A i \in 1 .. Len(Contents') : Contents'[i] = Append(Contents, ev)[i]
      BY <3>1, <2>3
    <3> QED BY <3>1, <3>2, <2>2, SeqEqual
  <2> QED BY <1>1, <1>3, <2>4, ContentsProps DEF C!Add
<1> QED BY <1>1, <1>2, <1>3

\* A delete takes one entry out: the one at the id, or the last one when the
\* id lies past the log; an empty log stays
\* empty for its reader.
LEMMA DeleteDeletes ==
    ASSUME IInv, IInv', NEW id \in RecordIds, DeleteEntry(id)
    PROVE  C!Delete \/ Contents' = Contents
<1>0. hdr'.end = hdr.end - 1 /\ hdr.end \in Int /\ data' = ShiftedDown(id)
  BY LogTyping DEF DeleteEntry
<1>. SUFFICES ASSUME hdr.end > 0 PROVE C!Delete
  BY <1>0, ContentsProps
<1>1. /\ hdr'.end = hdr.end - 1 /\ hdr.end > 0 /\ hdr.end \in Nat /\ data' = ShiftedDown(id)
  BY <1>0
<1>2. id \in Nat
  BY DEF RecordIds
<1>3. PICK k \in 1 .. hdr.end : k = IF id < hdr.end THEN id + 1 ELSE hdr.end
  BY <1>1, <1>2
<1>4. ASSUME NEW i \in 1 .. hdr.end - 1
      PROVE  Contents'[i] = IF i < k THEN Contents[i] ELSE Contents[i + 1]
  <2>1. i - 1 \in Slots /\ i \in Nat /\ i <= hdr.end - 1 /\ i >= 1
    BY LogTyping, <1>1
  <2>2. data'[i - 1] = IF i < k THEN data[i - 1] ELSE data[i]
    BY <2>1, <1>1, <1>2, <1>3 DEF ShiftedDown
  <2>3. Contents[i] = data[i - 1].ev /\ Contents[i + 1] = data[i].ev
    <3>1. i + 1 \in 1 .. hdr.end /\ i \in 1 .. hdr.end /\ (i + 1) - 1 = i
      BY <2>1, <1>1
    <3> QED BY <3>1, <1>1, ContentsProps
  <2>4. Contents'[i] = data'[i - 1].ev
    BY ContentsProps, <1>1, <2>1
  <2> QED BY <2>2, <2>3, <2>4
<1>5. Contents' = C!WithoutAt(Contents, k)
  <2>1. Len(Contents) - 1 = hdr.end - 1
    BY <1>1, ContentsProps
  <2>2. C!WithoutAt(Contents, k) = [i \in 1 .. hdr.end - 1 |-> IF i < k THEN Contents[i] ELSE Contents[i + 1]]
    BY <2>1 DEF C!WithoutAt
  <2>3. Contents' = [i \in 1 .. hdr.end - 1 |-> data'[i - 1].ev]
    BY <1>1 DEF Contents
  <2>4. \A i \in 1 .. hdr.end - 1 : Contents'[i] = data'[i - 1].ev
    BY <2>3
  <2> QED BY <1>4, <2>2, <2>3, <2>4
<1> QED BY <1>1, <1>3, <1>5, ContentsProps DEF C!Delete

\* A step that leaves the length and the events alone leaves what is read.
LEMMA SameEvents ==
    ASSUME IInv, IInv', hdr'.end = hdr.end,
           \A i \in 0 .. hdr.end - 1 : data'[i].ev = data[i].ev
    PROVE  Contents' = Contents
<1>1. hdr.end \in Int
  BY LogTyping
<1>2. \A i \in 1 .. hdr.end : data'[i - 1].ev = data[i - 1].ev
  BY <1>1
<1>3. Contents' = [i \in 1 .. hdr.end |-> data'[i - 1].ev]
  BY DEF Contents
<1> QED BY <1>2, <1>3 DEF Contents

\* A start that finds a torn table brings one old record back and pushes the
\* last one out; after any other kill it finds the log that was read before.
LEMMA StartRestarts ==
    ASSUME IInv, IInv', Torn, Start
    PROVE  C!Restart \/ Contents' = Contents
<1>1. /\ hdr' = hdr /\ hdr.end \in Int
      /\ \A i \in 0 .. hdr.end - 1 : data'[i] = file.data[i] /\ file.data[i] \in Records
  <2>1. /\ hdr' = hdr /\ hdr.end \in Int
        /\ data' = [i \in Slots |-> IF i < 0 THEN BlankData[i] ELSE file.data[i]]
    BY LogTyping DEF Start, Torn
  <2>2. file.data \in [Slots -> Records]
    BY LogTyping
  <2>3. \A i \in 0 .. hdr.end - 1 : i \in Slots /\ ~(i < 0)
    BY <2>1, LogTyping
  <2> QED BY <2>1, <2>2, <2>3
<1>2. PICK k \in Nat :
          \A i \in 0 .. hdr.end - 1 :
              /\ i < k => file.data[i].ev = data[i].ev
              /\ i > k => file.data[i].ev = data[i - 1].ev
  BY DEF Torn, Start
<1>3. CASE k >= hdr.end
  <2>1. \A i \in 0 .. hdr.end - 1 : data'[i].ev = data[i].ev
    BY <1>1, <1>2, <1>3
  <2> QED BY <1>1, <2>1, SameEvents
<1>4. CASE k < hdr.end
  <2>1. k \in 0 .. hdr.end - 1 /\ k + 1 \in 1 .. hdr.end /\ hdr.end > 0
    BY <1>1, <1>2, <1>4
  <2>2. PICK e \in AllEvents : e = file.data[k].ev
    BY <2>1, <1>1 DEF Records
  <2>3. ASSUME NEW i \in 1 .. hdr.end
        PROVE  data'[i - 1].ev = IF i < k + 1 THEN Contents[i]
                                 ELSE IF i = k + 1 THEN e ELSE Contents[i - 1]
    <3>1. /\ i - 1 \in 0 .. hdr.end - 1 /\ i \in Nat
          /\ data'[i - 1].ev = file.data[i - 1].ev /\ Contents[i] = data[i - 1].ev
      BY <1>1, <2>1, ContentsProps
    <3>2. CASE i < k + 1
      BY <3>1, <3>2, <1>2
    <3>3. CASE i = k + 1
      BY <3>1, <3>3, <2>2, <1>2
    <3>4. CASE i > k + 1
      <4>1. i - 1 > k /\ i - 1 \in 1 .. hdr.end
        BY <3>1, <3>4, <2>1, <1>1
      <4>2. file.data[i - 1].ev = data[(i - 1) - 1].ev
        BY <3>1, <4>1, <1>2
      <4>3. Contents[i - 1] = data[(i - 1) - 1].ev
        BY <4>1, <1>1, <2>1, ContentsProps
      <4> QED BY <3>1, <3>4, <4>2, <4>3, <1>2
    <3> QED BY <3>1, <3>2, <3>3, <3>4, <1>2
  <2>4. Contents' = [i \in 1 .. hdr.end |-> data'[i - 1].ev]
    BY <1>1 DEF Contents
  <2>5. C!Squeezed(Contents, k + 1, e) =
            [i \in 1 .. hdr.end |-> IF i < k + 1 THEN Contents[i]
                                    ELSE IF i = k + 1 THEN e ELSE Contents[i - 1]]
    BY <1>1, <2>1, ContentsProps DEF C!Squeezed
  <2>6. Contents' = C!Squeezed(Contents, k + 1, e)
    BY <2>3, <2>4, <2>5
  <2> QED BY <1>1, <2>1, <2>6, ContentsProps DEF C!Restart
<1> QED BY <1>1, <1>2, <1>3, <1>4

\* Every step of the log is a step of its contents, or one its reader does not
\* notice.
LEMMA StepsImplement ==
    ASSUME IInv, IInv', Torn, [Next]_vars
    PROVE  [C!Next]_Contents
<1>1. ASSUME NEW ev \in Events, StorageAddSel(ev) \/ LogEvent(ev) PROVE [C!Next]_Contents
  BY <1>1, AppendAdds DEF StorageAddSel, LogEvent, AllEvents, C!Next
<1>2. CASE AddToSelFull \/ AddLogCleared
  BY <1>2, AppendAdds DEF AddToSelFull, AddLogCleared, AllEvents, C!Next
<1>3. ASSUME NEW id \in RecordIds, DeleteEntry(id) PROVE [C!Next]_Contents
  BY <1>3, DeleteDeletes DEF C!Next
<1>4. ASSUME NEW rsv_id \in 1 .. SEL_RSVID_MAX, ClearLog(rsv_id) PROVE C!Next
  <2>1. hdr'.end = 0
    BY <1>4 DEF ClearLog, EmptyHdr
  <2>2. Len(Contents') = 0 /\ Contents' \in Seq(AllEvents)
    BY <2>1, ContentsProps
  <2>3. Contents' = <<>>
    BY <2>2, EmptySeq
  <2> QED BY <2>3 DEF C!Clear, C!Next
<1>5. CASE StoreAllRecords
  <2>1. hdr' = hdr /\ data' = Renumbered
    BY <1>5 DEF StoreAllRecords
  <2>2. \A i \in 0 .. hdr.end - 1 : Renumbered[i].ev = data[i].ev
    BY LogTyping DEF Renumbered, Records
  <2> QED BY <2>1, <2>2, SameEvents
<1>6. CASE StoreRecord \/ Reserve \/ (\E on \in BOOLEAN : SetGlobalEnables(on)) \/ Kill \/ UNCHANGED vars
  BY <1>6 DEF StoreRecord, Reserve, SetGlobalEnables, Kill, vars, Contents
<1>7. CASE Start
  BY <1>7, StartRestarts DEF C!Next
<1> QED BY <1>1, <1>2, <1>3, <1>4, <1>5, <1>6, <1>7 DEF Next

\* What a client reads is a bounded sequence of events that grows at its end,
\* loses one entry per delete and everything on a clear; a kill at any moment
\* changes at most one place of it.
THEOREM LogImplementsContents == Spec => ImplementsContents
<1>1. Init => C!Init /\ Torn
  <2> SUFFICES ASSUME Init PROVE C!Init /\ Torn
    OBVIOUS
  <2>1. hdr.end = 0
    BY DEF Init, EmptyHdr
  <2>2. Contents = [i \in 1 .. 0 |-> data[i - 1].ev]
    BY <2>1 DEF Contents
  <2>3. Contents = <<>>
    BY <2>2
  <2> QED BY <2>3 DEF C!Init, Init, Torn
<1>2. IInv /\ IInv' /\ Torn /\ [Next]_vars => Torn' /\ [C!Next]_Contents
  BY StepsKeepTorn, StepsImplement
<1> QED BY <1>1, <1>2, Invariance, PTL DEF Spec, C!Spec, ImplementsContents
=============================================================================
