------------------------------ MODULE PowerBounds ------------------------------
(***************************************************************************)
(* The sizes of the power history and how far its model counts.  The code  *)
(* has 30 rows for a quarter of an hour, 600 of which 60 are shown for the *)
(* hour, and 1440 of which 24 are shown for the day.                       *)
(***************************************************************************)
EXTENDS Naturals

CONSTANTS
    MinRows,    \* LAST_MIN_COUNT_DB, MAX_LAST_MIN_COUNT
    HourShown,  \* MAX_LAST_HOUR_COUNT
    HourStep,   \* an hour's graph shows every HourStep-th row
    DayShown,   \* MAX_LAST_DAY_COUNT
    DayStep,    \* a day's graph shows every DayStep-th row
    MaxSamples, \* bound: rounds of the writer
    MaxRestarts \* bound: deaths of KETI-Edge

\* LAST_HOUR_COUNT_DB and LAST_DAY_COUNT_DB
HourRows == HourShown * HourStep
DayRows  == DayShown * DayStep

ASSUME PowerAssumption ==
    /\ MinRows \in Nat \ {0}
    /\ HourShown \in Nat \ {0} /\ HourStep \in Nat \ {0}
    /\ DayShown \in Nat \ {0} /\ DayStep \in Nat \ {0}
    /\ MaxSamples \in Nat /\ MaxRestarts \in Nat
=============================================================================
