-------------------------------- MODULE MCTimers --------------------------------
(***************************************************************************)
(* The components that must get on by themselves, for TLC: the timers of   *)
(* the Redfish sessions and the LAN monitor.  They share no variable, so a *)
(* behaviour is of one of them ("focus"); the variables of the other keep  *)
(* their initial values.                                                   *)
(***************************************************************************)
EXTENDS RedfishSessions, LanBounds, TLC

VARIABLES
    focus,
    l_memory, l_flags, l_lock, l_monitor, l_iface, l_ipmi, l_rest, l_page, l_changes, l_late,
    l_dropped, l_missed

Lan == INSTANCE LanMonitor WITH
    memory <- l_memory, flags <- l_flags, lock <- l_lock, monitor <- l_monitor,
    iface <- l_iface, ipmi <- l_ipmi, rest <- l_rest, page <- l_page, changes <- l_changes,
    late <- l_late, dropped <- l_dropped, missed <- l_missed

lanVars == <<l_memory, l_flags, l_lock, l_monitor, l_iface, l_ipmi, l_rest, l_page, l_changes,
             l_late, l_dropped, l_missed>>

MCInit == focus \in {"sessions", "lan"} /\ Init /\ Lan!Init

MCNext ==
    \/ focus = "sessions" /\ Next /\ UNCHANGED <<focus, lanVars>>
    \/ focus = "lan" /\ Lan!Next /\ UNCHANGED <<focus, vars>>

\* The fairness of the components, when the behaviour is theirs.
MCFairness ==
    /\ Fairness
    /\ WF_lanVars(focus = "lan" /\ Lan!Monitoring)
    /\ WF_lanVars(focus = "lan" /\ Lan!IpmiStep)

MCSpec == MCInit /\ [][MCNext]_<<focus, vars, lanVars>> /\ MCFairness
-----------------------------------------------------------------------------
(* What the LAN monitor promises, stated in its module (what the sessions  *)
(* promise keeps its names).                                               *)

\* The interface has what the memory has, or the loss is a known one.
NothingElseIsLost == Lan!NothingElseIsLost

\* A pass of the monitor follows every change by IPMI.
PassFollowsChange == Lan!PassFollowsChange
=============================================================================
