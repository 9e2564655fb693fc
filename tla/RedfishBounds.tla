----------------------------- MODULE RedfishBounds -----------------------------
(***************************************************************************)
(* How far the models of the Redfish server count.                         *)
(***************************************************************************)
EXTENDS Naturals

CONSTANTS
    MaxKills,    \* kills of the server
    MaxStarts,   \* starts after the first
    MaxPatches,  \* PATCH requests
    MaxRequests  \* requests that get a task

ASSUME BoundsAssumption ==
    /\ MaxKills \in Nat /\ MaxStarts \in Nat
    /\ MaxPatches \in Nat /\ MaxRequests \in Nat
=============================================================================
