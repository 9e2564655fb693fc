----------------------------- MODULE ServiceBounds -----------------------------
(***************************************************************************)
(* How far the models of KETI-Edge's settings count.                       *)
(***************************************************************************)
EXTENDS Naturals

CONSTANTS
    MaxSaves,   \* settings pages posted
    MaxDeaths,  \* deaths of the web server, and of KETI-Edge
    MaxSets,    \* changes of FRU data and services
    MaxUserOps, \* changes of the user table
    MaxUser     \* slots of the user table (10 in the code)

ASSUME ServiceBoundsAssumption ==
    /\ MaxSaves \in Nat /\ MaxDeaths \in Nat /\ MaxSets \in Nat
    /\ MaxUserOps \in Nat /\ MaxUser \in Nat \ {0, 1, 2}
=============================================================================
