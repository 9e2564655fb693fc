---------------------------- MODULE RedfishNumbers ----------------------------
(***************************************************************************)
(* The numbers records get as names (libs/redfish/util.cpp): numset holds  *)
(* those in use of every kind, numset_num the one given last.              *)
(***************************************************************************)
EXTENDS Naturals, FiniteSetsExt

CONSTANT MaxNum  \* numbers are 0 .. MaxNum (in the code 0 .. UINT_MAX - 1)

ASSUME NumbersAssumption == MaxNum \in Nat \ {0}

Numbers == 0 .. MaxNum

\* init_numset: accounts are counted from 0.
FirstNumber(kind) == IF kind = "account" THEN 0 ELSE 1

\* The numbers the loop looks at: from the last one on, then again from 1.
Candidates(used, from) == {n \in Numbers \ used : n >= from \/ n >= 1}

\* Otherwise allocate_numset_num does not return.
Allocatable(used, from) == Candidates(used, from) # {}

\* allocate_numset_num
Allocated(used, from) ==
    LET above == {n \in Candidates(used, from) : n >= from}
    IN IF above # {} THEN Min(above) ELSE Min(Candidates(used, from))
=============================================================================
