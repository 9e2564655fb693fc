---------------------------- MODULE MCRmcpSession ----------------------------
(* RmcpSession with a table of two entries.  c1 and c2 use the same console *)
(* id and algorithm (as ipmitool always does), so they are interchangeable; *)
(* c3 has its own of both and hears no answer addressed to the others.      *)
EXTENDS RmcpSession, TLC

CONSTANTS c1, c2, c3, k, l

MCConsoleId == [c \in Clients |-> IF c = c3 THEN l ELSE k]
MCSuite     == [c \in Clients |-> IF c = c3 THEN 3 ELSE 1]
MCPriv      == [c \in Clients |-> 4]
MCUserIndex == [c \in Clients |-> 2]

ConsoleAndIdSymmetry ==
    Permutations({c1, c2}) \cup Permutations(Sids) \cup Permutations(Nonces)
=============================================================================
