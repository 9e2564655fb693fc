------------------------------ MODULE MCSelLog ------------------------------
(* SelLog with an array of five cells instead of 256 and two events.        *)
EXTENDS SelLog, TLC

\* No definition tells one event of Events from another.
EventSymmetry == Permutations(Events)

=============================================================================
