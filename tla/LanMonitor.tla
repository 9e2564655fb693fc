------------------------------ MODULE LanMonitor ------------------------------
(***************************************************************************)
(* The network parameters of one LAN channel: Set LAN Configuration of IPMI*)
(* and the commands of the network page change Ipminetwork, and the thread *)
(* of the channel, lanMonitorHandler, gives them to the interface.         *)
(*                                                                         *)
(* Writers and monitor share the values, one changed flag per value and    *)
(* lockFlag, without a lock: the mutex of the monitor is its own, so a     *)
(* notification between its test of lockFlag and its wait wakes nobody.    *)
(* The monitor sleeps five seconds, reads flags and values, runs its       *)
(* commands and then clears all flags.                                     *)
(***************************************************************************)
EXTENDS LanBounds, Sequences, SequencesExt

VARIABLES
    memory,  \* ip_src, ip_addr, net_mask, df_gw_ip_addr, mac_addr
    flags,   \* lanConfigChanged: the values changed
    lock,    \* lockFlag
    monitor, \* the monitor: where it is, mode and addresses it has read
    iface,   \* what the interface has
    ipmi,    \* Set LAN Configuration under way: parameter, value, steps left
    rest,    \* command of the page under way
    page,    \* commands of the page to come
    changes, \* changes so far
    late,    \* history: values written since the monitor read the flags
    dropped, \* history: values the interface may lack
    missed   \* history: a notification came between test and wait

vars == <<memory, flags, lock, monitor, iface, ipmi, rest, page, changes, late, dropped, missed>>

Addresses == {"ip", "mask", "gw"}
Params    == Addresses \cup {"src", "mac"}

\* Values are numbers of changes.  ip_src: 1 static, 2 DHCP.
Lease  == MaxLan + 1
Static == 1
Dhcp   == 2

None == [params |-> {}, value |-> 0, todo |-> <<>>]

-----------------------------------------------------------------------------
(* Set LAN Configuration.                                                  *)

\* The writes of a handler, in order; plat_network_save, which every call ends
\* with, sets lockFlag and notifies once more.
Steps(p) ==
    CASE p = "ip"    -> <<"flag", "lock", "notify", "assign", "lock", "notify">>
      [] p = "other" -> <<"lock", "notify">>
      [] OTHER       -> <<"flag", "lock", "assign", "notify", "lock", "notify">>

\* "other": a parameter the monitor does not use, or a value that is refused.
set_lan_config ==
    /\ ipmi = None /\ changes < MaxLan /\ changes' = changes + 1
    /\ \E p \in Params \cup {"other"} :
       \E v \in IF p = "src" THEN {0, Static, Dhcp} ELSE {changes + 1} :
          ipmi' = [params |-> {p} \ {"other"}, value |-> v, todo |-> Steps(p)]
    /\ UNCHANGED <<memory, flags, lock, monitor, iface, rest, page, late, dropped, missed>>

Assigned(w) == [p \in Params |-> IF p \in w.params THEN w.value ELSE memory[p]]

InPass == monitor.at \in {"set", "mac", "clear"}
Written(w) == IF InPass THEN late \cup w.params ELSE late

\* Variant with a bug: nobody is woken.
WokenNobody == monitor

Woken == IF monitor.at = "parked" THEN [monitor EXCEPT !.at = "test"] ELSE monitor

IpmiStep ==
    /\ ipmi.todo # <<>>
    /\ LET step == Head(ipmi.todo)
       IN /\ ipmi' = IF Len(ipmi.todo) = 1 THEN None ELSE [ipmi EXCEPT !.todo = Tail(@)]
          /\ flags'   = IF step = "flag" THEN flags \cup ipmi.params ELSE flags
          /\ memory'  = IF step = "assign" THEN Assigned(ipmi) ELSE memory
          /\ lock'    = (lock \/ step = "lock")
          /\ monitor' = IF step = "notify" THEN Woken ELSE monitor
          /\ missed'  = (missed \/ (step = "notify" /\ monitor.at = "park"))
          /\ late'    = IF step \in {"flag", "assign"} THEN Written(ipmi) ELSE late
          /\ dropped' = IF step = "assign" THEN dropped \cup (ipmi.params \ flags) ELSE dropped
    /\ UNCHANGED <<iface, rest, page, changes>>

\* cv is one for all channels: another channel's commands wake this monitor.
NotifyOther ==
    /\ monitor' = Woken
    /\ UNCHANGED <<memory, flags, lock, iface, ipmi, rest, page, changes, late, dropped, missed>>

-----------------------------------------------------------------------------
(* The network page.  Its commands run in threads of their own, one after  *)
(* the other; they set no lockFlag and notify nobody.                      *)

\* set_network_mac, set_network_ipv4_dhcp, set_network_ipv4_ip and
\* set_network_gateway each send one command, with these values.
Command == [mac |-> {"mac"}, dhcp |-> {"src"}, ip |-> {"ip", "mask"}, gateway |-> {"gw"}]

\* handle_network_call sends what changed, in this order: the MAC, the source of
\* the address (of which it passes a byte of a pointer), addresses and gateway.
\* (Of the pages that change several, the one with a new static address.)
PostPage ==
    /\ page = <<>> /\ rest = None /\ changes < MaxLan /\ changes' = changes + 1
    /\ page' \in {<<Command.mac>>, <<Command.dhcp>>, <<Command.ip, Command.gateway>>,
                 <<Command.dhcp, Command.ip, Command.gateway>>}
    /\ UNCHANGED <<memory, flags, lock, monitor, iface, ipmi, rest, late, dropped, missed>>

\* A thread takes the command and writes the values ...
RestAssign ==
    /\ rest = None /\ page # <<>>
    /\ \E v \in IF Head(page) = {"src"} THEN {0, Static, Dhcp} ELSE {changes} :
       LET w == [params |-> Head(page), value |-> v, todo |-> <<"flag">>]
       IN /\ rest' = w /\ memory' = Assigned(w) /\ late' = Written(w)
    /\ page' = Tail(page)
    /\ UNCHANGED <<flags, lock, monitor, iface, ipmi, changes, dropped, missed>>

\* ... then their flags.
RestFlag ==
    /\ rest # None
    /\ flags' = flags \cup rest.params
    /\ late' = Written(rest)
    /\ rest' = None
    /\ UNCHANGED <<memory, lock, monitor, iface, ipmi, page, changes, dropped, missed>>

-----------------------------------------------------------------------------
(* lanMonitorHandler.                                                      *)

\* The predicate of cv.wait.
Test ==
    /\ monitor.at = "test"
    /\ monitor' = [monitor EXCEPT !.at = IF lock THEN "sleep" ELSE "park"]
    /\ missed' = FALSE
    /\ UNCHANGED <<memory, flags, lock, iface, ipmi, rest, page, changes, late, dropped>>

Park ==
    /\ monitor.at = "park"
    /\ monitor' = [monitor EXCEPT !.at = "parked"]
    /\ UNCHANGED <<memory, flags, lock, iface, ipmi, rest, page, changes, late, dropped, missed>>

\* Five seconds are over: only a change of the source makes it do anything.
Choose ==
    /\ monitor.at = "sleep"
    /\ monitor' = [monitor EXCEPT !.at = "compose",
                                  !.mode = IF "src" \in flags THEN memory.src ELSE 0]
    /\ late' = {}
    /\ UNCHANGED <<memory, flags, lock, iface, ipmi, rest, page, changes, dropped, missed>>

\* Variant with a bug: the gateway is left as the interface has it.
ComposedNoGateway ==
    [p \in Addresses |-> IF p \in flags \ {"gw"} THEN memory[p] ELSE iface[p]]

\* Addresses changed come from the memory, the others from the interface.
Composed == [p \in Addresses |-> IF p \in flags THEN memory[p] ELSE iface[p]]

Compose ==
    /\ monitor.at = "compose"
    /\ monitor' = [monitor EXCEPT !.at = IF monitor.mode = Static THEN "set" ELSE "mac", !.temp = Composed]
    /\ dropped' = IF monitor.mode = Static THEN dropped \ flags ELSE dropped
    /\ late' = {}
    /\ UNCHANGED <<memory, flags, lock, iface, ipmi, rest, page, changes, missed>>

\* set_ip
SetIp ==
    /\ monitor.at = "set"
    /\ iface' = [p \in Params |-> IF p \in Addresses THEN monitor.temp[p]
                                  ELSE IF p = "src" THEN Static ELSE iface[p]]
    /\ monitor' = [monitor EXCEPT !.at = "mac"]
    /\ UNCHANGED <<memory, flags, lock, ipmi, rest, page, changes, late, dropped, missed>>

\* ifconfig hw ether, and the route over the gateway of the memory; with DHCP
\* then udhcpc.
SetMac ==
    /\ monitor.at = "mac"
    /\ LET mac == "mac" \in flags /\ monitor.mode \in {Static, Dhcp}
           withMac == IF mac THEN [iface EXCEPT !.mac = memory.mac, !.gw = memory.gw] ELSE iface
       IN /\ iface' = IF monitor.mode = Dhcp
                      THEN [withMac EXCEPT !.src = Dhcp, !.ip = Lease, !.mask = Lease, !.gw = Lease]
                      ELSE withMac
          /\ dropped' = (IF mac THEN dropped \ {"mac"} ELSE dropped)
                        \cup (IF monitor.mode = Dhcp THEN Addresses ELSE {})
          /\ late' = IF mac THEN late \ {"mac", "gw"} ELSE late
    /\ monitor' = [monitor EXCEPT !.at = "clear"]
    /\ UNCHANGED <<memory, flags, lock, ipmi, rest, page, changes, missed>>

\* What the pass did not give to the interface is lost.
Clear ==
    /\ monitor.at = "clear"
    /\ flags' = {}
    /\ dropped' = dropped \cup (flags \cap (late \cup IF monitor.mode = Static THEN {}
                                                     ELSE IF monitor.mode = Dhcp THEN Addresses
                                                     ELSE Params))
    /\ monitor' = [monitor EXCEPT !.at = "unlock"]
    /\ UNCHANGED <<memory, lock, iface, ipmi, rest, page, changes, late, missed>>

Unlock ==
    /\ monitor.at = "unlock"
    /\ lock' = FALSE /\ late' = {}
    /\ monitor' = [monitor EXCEPT !.at = "test"]
    /\ UNCHANGED <<memory, flags, iface, ipmi, rest, page, changes, dropped, missed>>

\* The constructor reads the interface; ip_src is 0, unspecified.
Init ==
    /\ memory = [p \in Params |-> 0] /\ iface = [p \in Params |-> 0]
    /\ flags = {} /\ lock = FALSE
    /\ monitor = [at |-> "test", mode |-> 0, temp |-> [p \in Addresses |-> 0]]
    /\ ipmi = None /\ rest = None /\ page = <<>> /\ changes = 0
    /\ late = {} /\ dropped = {} /\ missed = FALSE

Monitoring == Test \/ Park \/ Choose \/ Compose \/ SetIp \/ SetMac \/ Clear \/ Unlock

Next ==
    \/ set_lan_config \/ IpmiStep \/ NotifyOther
    \/ PostPage \/ RestAssign \/ RestFlag
    \/ Test \/ Park \/ Choose \/ Compose \/ SetIp \/ SetMac \/ Clear \/ Unlock

\* The threads run: no step of theirs waits for another.
Fairness == WF_vars(Monitoring) /\ WF_vars(IpmiStep)

Spec == Init /\ [][Next]_vars /\ Fairness

-----------------------------------------------------------------------------
(* Properties.                                                             *)

\* What the memory has and no flag marks is what the interface has, unless it
\* is being written, or its change was lost in one of three ways: it came while
\* the monitor was at work, the source of the address was not changed with it,
\* or DHCP gave another address.
NothingElseIsLost ==
    \A p \in (Addresses \cup {"mac"}) \ (flags \cup ipmi.params \cup rest.params) :
        monitor.at \in {"test", "park", "parked"} => memory[p] = iface[p] \/ p \in dropped

\* Every command of IPMI that changes a parameter is followed by a pass of the
\* monitor, unless the notification fell between its test and its wait.
PassFollowsChange == [](lock => <>(~lock \/ missed))
=============================================================================
