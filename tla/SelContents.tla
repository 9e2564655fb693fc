----------------------------- MODULE SelContents -----------------------------
(***************************************************************************)
(* What the System Event Log promises whoever reads it, without header,    *)
(* indices or file: a bounded sequence of events that grows at its end,    *)
(* loses one entry per delete and everything on a clear.  A restart keeps  *)
(* it, except that one record that was there before may turn up again at   *)
(* some place and push the last one out.                                   *)
(***************************************************************************)
EXTENDS Sequences, Naturals

CONSTANTS MaxEntries, Entries

VARIABLE log

TypeOK == log \in Seq(Entries) /\ Len(log) <= MaxEntries

Init == log = <<>>

Add == Len(log) < MaxEntries /\ \E e \in Entries : log' = Append(log, e)

WithoutAt(s, k) ==
    [i \in 1 .. Len(s) - 1 |-> IF i < k THEN s[i] ELSE s[i + 1]]

Delete == \E k \in 1 .. Len(log) : log' = WithoutAt(log, k)

Clear == log' = <<>>

\* s with e put at place k and its last entry pushed out.
Squeezed(s, k, e) ==
    [i \in 1 .. Len(s) |-> IF i < k THEN s[i] ELSE IF i = k THEN e ELSE s[i - 1]]

Restart == \E k \in 1 .. Len(log), e \in Entries : log' = Squeezed(log, k, e)

Next == Add \/ Delete \/ Clear \/ Restart

Spec == Init /\ [][Next]_log

=============================================================================
