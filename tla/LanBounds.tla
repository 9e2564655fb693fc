------------------------------- MODULE LanBounds -------------------------------
(***************************************************************************)
(* How far the model of the LAN parameters counts.                         *)
(***************************************************************************)
EXTENDS Naturals

CONSTANT MaxLan  \* bound: changes of a LAN parameter, of IPMI and of pages

ASSUME LanBoundsAssumption == MaxLan \in Nat
=============================================================================
