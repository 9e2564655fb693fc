------------------------------- MODULE PowerUsage -------------------------------
(***************************************************************************)
(* The history of the power readings: the thread psu_handler of KETI-Edge  *)
(* writes a row into a table of power.db at every round, and the power page*)
(* reads the tables and draws their graphs.  A table is filled by INSERT up*)
(* to its limit and then rewritten by UPDATE, row after row, at a cursor   *)
(* that only memory has: a start takes it from the rows.                   *)
(*                                                                         *)
(* One of the tables is followed, of any period; two supplies have one of  *)
(* each.  A row is the number of the round that wrote it, which is also the*)
(* order of its time (dt).  The web server waits for the answer of one     *)
(* request before it sends the next, so one is under way at a time, in a   *)
(* thread of its own beside the writer's.  (Two are when the web server was*)
(* restarted meanwhile; they then mix in the globals.  Left out.)          *)
(***************************************************************************)
EXTENDS PowerBounds, Sequences, Functions, FiniteSets

VARIABLES
    name,     \* the table
    edge,     \* TRUE while KETI-Edge runs
    db,       \* power.db: "none", "empty" (no tables), "tables"
    rows,     \* the table: row ID is rows[ID]
    cursor,   \* min_cursor, hour_cursor or day_cursor
    sample,   \* rounds so far
    count,    \* rm_count, rh_count or rd_count
    full,     \* fh_count or fd_count
    graph,    \* g_min_power, g_hour_power or g_day_power; 0: nothing
    request,  \* the request under way, at a step, with the rows it read
    restarts, \* deaths of KETI-Edge so far
    turns,    \* history: rows rewritten one after the other, up to all of them
    answer    \* history: what the last step answered

vars == <<name, edge, db, rows, cursor, sample, count, full, graph, request, restarts, turns,
          answer>>

\* day_2 shows as many as an hour does, past the end of its array.
Tables ==
    [min   |-> [limit |-> MinRows,  shown |-> MinRows,   drawn |-> MinRows,   step |-> 1],
     hour  |-> [limit |-> HourRows, shown |-> HourShown, drawn |-> HourShown, step |-> HourStep],
     day_1 |-> [limit |-> DayRows,  shown |-> DayShown,  drawn |-> DayShown,  step |-> DayStep],
     day_2 |-> [limit |-> DayRows,  shown |-> DayShown,  drawn |-> HourShown, step |-> DayStep]]

Table == Tables[name]

\* What malloc, or the memory behind an array, holds.
Junk == MaxSamples + 1

Cleared == [i \in 1 .. Table.shown |-> 0]

NoAnswer == [graph |-> <<>>, count |-> 0, newest |-> 0]

NoRequest == [at |-> "none", buf |-> <<>>, newest |-> 0]

-----------------------------------------------------------------------------
(* The writer.                                                             *)

\* find_first_index looks for the newest row, whose ID the cursor then is; but
\* it stores the rows from an index on that it did not set, so that any of them
\* may come out.  For last_day_2 it counts the rows of last_day_1.
Cursors ==
    IF rows = <<>> THEN {1}
    ELSE {c \in 1 .. Len(rows) + (IF name = "day_2" THEN 1 ELSE 0) : c <= Table.limit}

\* check_db makes the tables of a file that is there; sqlite3_open makes the file.
check_db == IF db = "none" THEN "empty" ELSE "tables"

\* psu_handler
EdgeStart ==
    /\ ~edge /\ edge' = TRUE
    /\ db' = check_db
    /\ cursor' \in Cursors
    /\ turns' = IF rows = <<>> THEN Table.limit ELSE 0
    /\ count' = 0 /\ full' = 0 /\ graph' = Cleared
    /\ answer' = NoAnswer
    /\ UNCHANGED <<name, rows, sample, request, restarts>>

EdgeDie ==
    /\ edge /\ restarts < MaxRestarts
    /\ restarts' = restarts + 1
    /\ edge' = FALSE /\ request' = NoRequest /\ answer' = NoAnswer
    /\ UNCHANGED <<name, db, rows, cursor, sample, count, full, graph, turns>>

\* Variant with a bug: the cursor leaves the table before it returns.
NextCursorLate == IF cursor <= Table.limit THEN cursor + 1 ELSE 1

NextCursor == IF cursor < Table.limit THEN cursor + 1 ELSE 1

\* UPDATE of an ID that no row has changes nothing.
Rewritten == [i \in DOMAIN rows |-> IF i = cursor THEN sample + 1 ELSE rows[i]]

\* DoStuff, when it is the table's turn.  The statement fails, unnoticed, while
\* a request reads (SQLITE_BUSY); the cursor goes on.
DoStuff ==
    /\ edge /\ db = "tables" /\ sample < MaxSamples
    /\ sample' = sample + 1
    /\ LET inserts == Len(rows) < Table.limit
       IN /\ cursor' = IF inserts THEN cursor ELSE NextCursor
          /\ \/ /\ rows' = IF inserts THEN Append(rows, sample + 1) ELSE Rewritten
                /\ turns' = IF inserts \/ turns = Table.limit THEN turns ELSE turns + 1
             \/ /\ request # NoRequest /\ rows' = rows /\ turns' = 0
    /\ request' = [request EXCEPT !.newest = IF request.at = "select" THEN 0 ELSE @]
    /\ answer' = NoAnswer
    /\ UNCHANGED <<name, edge, db, count, full, graph, restarts>>

-----------------------------------------------------------------------------
(* The power page: CMD_GET_POWER_USAGE, whatever menu was asked for.       *)

\* get_min_power_usage clears all graphs before it reads.
ClearGraph ==
    /\ edge /\ request = NoRequest
    /\ request' = [NoRequest EXCEPT !.at = "count"]
    /\ graph' = Cleared
    /\ answer' = NoAnswer
    /\ UNCHANGED <<name, edge, db, rows, cursor, sample, count, full, restarts, turns>>

\* SELECT count(*).  How many are drawn is set only when there are more rows.
CountRows ==
    /\ request.at = "count"
    /\ request' = [request EXCEPT !.at = "select",
                                  !.newest = IF turns = Table.limit THEN sample ELSE 0]
    /\ count' = Len(rows)
    /\ full' = IF Len(rows) > Table.drawn THEN Table.drawn ELSE full
    /\ answer' = NoAnswer
    /\ UNCHANGED <<name, edge, db, rows, cursor, sample, graph, restarts, turns>>

\* The row in place i is the one with i - 1 earlier rows; no round wrote two.
InOrderOfTime ==
    LET Earlier(v) == {w \in Range(rows) : w < v}
    IN [i \in DOMAIN rows |-> CHOOSE v \in Range(rows) : Cardinality(Earlier(v)) = i - 1]

\* SELECT * ORDER BY dt: into the graph of the quarter, or into a buffer.
SelectRows ==
    /\ request.at = "select"
    /\ request' = [request EXCEPT !.at = IF name = "min" THEN "draw" ELSE "convert",
                                  !.buf = IF name = "min" THEN <<>> ELSE InOrderOfTime]
    /\ graph' = IF name = "min"
                THEN [i \in DOMAIN graph |-> IF i <= Len(rows) THEN InOrderOfTime[i] ELSE graph[i]]
                ELSE graph
    /\ answer' = NoAnswer
    /\ UNCHANGED <<name, edge, db, rows, cursor, sample, count, full, restarts, turns>>

Lesser(a, b) == IF a < b THEN a ELSE b

\* Place i of the array from the end takes the row i steps before the last
\* counted one.
Converted(buf) ==
    LET last == Lesser(count, Table.shown)
        Row(i) == count - (last - i) * Table.step
    IN [i \in DOMAIN graph |->
           IF i > last \/ count < (last - i) * Table.step + 1 THEN graph[i]
           ELSE IF Row(i) > Len(buf) THEN Junk ELSE buf[Row(i)]]

\* convert_power_to_g_power
Convert ==
    /\ request.at = "convert"
    /\ request' = [request EXCEPT !.at = "draw", !.buf = <<>>]
    /\ graph' = Converted(request.buf)
    /\ answer' = NoAnswer
    /\ UNCHANGED <<name, edge, db, rows, cursor, sample, count, full, restarts, turns>>

get_min_power_graph == [i \in 1 .. count |-> graph[i]]

\* Up to as many rows as are shown, full was never set.
get_hour_power_graph ==
    [i \in 1 .. (IF count = 0 THEN 0 ELSE full) |-> graph[i]]

get_day_power_graph ==
    [i \in 1 .. (IF count = 0 THEN 0 ELSE full) |-> IF i <= Table.shown THEN graph[i] ELSE Junk]

\* get_power_response
Draw ==
    /\ request.at = "draw" /\ request' = NoRequest
    /\ answer' = [graph |-> CASE name = "min"  -> get_min_power_graph
                               [] name = "hour" -> get_hour_power_graph
                               [] OTHER         -> get_day_power_graph,
                  count |-> count, newest |-> request.newest]
    /\ UNCHANGED <<name, edge, db, rows, cursor, sample, count, full, graph, restarts, turns>>

Init ==
    /\ name \in DOMAIN Tables
    /\ edge = FALSE /\ db \in {"none", "empty"} /\ rows = <<>> /\ cursor = 0 /\ sample = 0
    /\ count = 0 /\ full = 0 /\ graph = Cleared /\ request = NoRequest /\ restarts = 0
    /\ turns = 0 /\ answer = NoAnswer

Next ==
    \/ EdgeStart \/ EdgeDie \/ DoStuff
    \/ ClearGraph \/ CountRows \/ SelectRows \/ Convert \/ Draw

Spec == Init /\ [][Next]_vars

-----------------------------------------------------------------------------
(* Properties.                                                             *)

\* The graphs show rows in the order of their time; and when, since the start,
\* each row was written once without a loss, they show the newest, step by step
\* to the last: neither a restart nor a table that turns over leaves a hole.
\* (But for last_day_2, which is drawn past the end of its array.)
NewestAreShown ==
    name # "day_2" =>
        LET g == answer.graph
            back(i) == (Len(g) - i) * Table.step
        IN /\ \A i, j \in DOMAIN g : i < j /\ g[i] # 0 => g[i] < g[j] /\ g[j] # Junk
           /\ answer.newest # 0 => \A i \in DOMAIN g :
                  g[i] = IF back(i) < answer.count THEN answer.newest - back(i) ELSE 0
=============================================================================
