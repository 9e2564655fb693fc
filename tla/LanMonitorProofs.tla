--------------------------- MODULE LanMonitorProofs ---------------------------
(***************************************************************************)
(* Proofs about LanMonitor as MCTimers runs it, for any number of changes. *)
(* What the interface may lack is followed through the pass of the monitor:*)
(* for every place of the monitor, LanInv says which changes are still     *)
(* going to be given to the interface and which are known to be lost.      *)
(***************************************************************************)
EXTENDS MCTimers, SequenceTheorems, TLAPS

-----------------------------------------------------------------------------
(* The inductive invariant.                                                *)

Watched == Lan!Addresses \cup {"mac"}
Ats == {"test", "park", "parked", "sleep", "compose", "set", "mac", "clear", "unlock"}
Words == {"flag", "lock", "notify", "assign"}
Writes == [params : SUBSET Lan!Params, value : Nat, todo : Seq(Words)]

\* What the variables hold.
LanTypes ==
    /\ l_memory \in [Lan!Params -> Nat] /\ l_iface \in [Lan!Params -> Nat]
    /\ l_flags \subseteq Lan!Params
    /\ l_monitor \in [at : Ats, mode : Nat, temp : [Lan!Addresses -> Nat]]
    /\ l_ipmi \in Writes /\ l_rest \in Writes
    /\ l_page \in Seq(SUBSET Lan!Params)
    /\ l_changes \in Nat
    /\ l_late \subseteq Lan!Params /\ l_dropped \subseteq Lan!Params

\* The value of Set LAN Configuration is still to be written.
ToAssign == \E i \in DOMAIN l_ipmi.todo : l_ipmi.todo[i] = "assign"

\* Set LAN Configuration ends with a notification, after it wrote the value; the
\* page has a command under way or none.
WritersInOrder ==
    /\ l_ipmi.todo = <<>> => l_ipmi.params = {}
    /\ l_ipmi.todo # <<>> => l_ipmi.todo[Len(l_ipmi.todo)] = "notify"
    /\ l_rest # Lan!None => l_rest.todo # <<>>

\* The interface may lack p: that is known, or p is being written.
Excused(p) == \/ p \in l_dropped
              \/ p \in l_ipmi.params /\ ToAssign
              \/ p \in l_rest.params

Kept(p) == l_memory[p] = l_iface[p] \/ Excused(p)

\* What was written behind the monitor's back has its flag, or is excused.
LateIsFlagged ==
    l_monitor.at \in {"set", "mac", "clear"} =>
        l_late \subseteq l_flags \cup l_dropped \cup l_rest.params

\* Outside the pass a value has its flag or is kept.
KeptOutside ==
    l_monitor.at \in {"test", "park", "parked", "sleep", "compose", "unlock"} =>
        \A p \in Watched : Kept(p) \/ p \in l_flags

\* The addresses set_ip is about to set are those of the memory.
KeptInSet ==
    l_monitor.at = "set" =>
        /\ l_monitor.mode = Lan!Static
        /\ \A p \in Lan!Addresses :
              l_monitor.temp[p] = l_memory[p] \/ Excused(p) \/ p \in l_late
        /\ Kept("mac") \/ "mac" \in l_flags

\* Then they are set, if the mode is static ...
KeptAfterSet ==
    l_monitor.at \in {"mac", "clear"} =>
        \A p \in Lan!Addresses :
            Kept(p) \/ p \in l_late \/ (l_monitor.mode # Lan!Static /\ p \in l_flags)

\* ... and the MAC is, in either mode, before the flags are cleared.
KeptMac ==
    /\ l_monitor.at = "mac" => Kept("mac") \/ "mac" \in l_flags
    /\ l_monitor.at = "clear" =>
          \/ Kept("mac") \/ "mac" \in l_late
          \/ l_monitor.mode \notin {Lan!Static, Lan!Dhcp} /\ "mac" \in l_flags

LanInv == /\ LanTypes /\ WritersInOrder /\ LateIsFlagged
          /\ KeptOutside /\ KeptInSet /\ KeptAfterSet /\ KeptMac

-----------------------------------------------------------------------------
(* The steps.                                                              *)

\* The interface has what the memory has at the start.
LEMMA LanInitInv == Lan!Init => LanInv
<1> SUFFICES ASSUME Lan!Init PROVE LanInv
  OBVIOUS
<1>1. LanTypes
  BY DEF Lan!Init, LanTypes, Ats, Writes, Words, Lan!None
<1>2. WritersInOrder /\ LateIsFlagged /\ KeptInSet /\ KeptAfterSet /\ KeptMac
  BY DEF Lan!Init, Lan!None, WritersInOrder, LateIsFlagged, KeptInSet, KeptAfterSet, KeptMac
<1>3. KeptOutside
  BY DEF Lan!Init, KeptOutside, Kept, Watched, Lan!Addresses, Lan!Params
<1> QED
  BY <1>1, <1>2, <1>3 DEF LanInv

\* What Set LAN Configuration does ends with a notification.
LEMMA StepsEnd ==
    ASSUME NEW p PROVE Lan!Steps(p) \in Seq(Words) /\ Lan!Steps(p) # <<>>
                       /\ Lan!Steps(p)[Len(Lan!Steps(p))] = "notify"
<1>1. \/ Lan!Steps(p) = <<"flag", "lock", "notify", "assign", "lock", "notify">>
      \/ Lan!Steps(p) = <<"flag", "lock", "assign", "notify", "lock", "notify">>
      \/ Lan!Steps(p) = <<"lock", "notify">>
  BY DEF Lan!Steps
<1>2. ASSUME NEW s, s = <<"flag", "lock", "notify", "assign", "lock", "notify">>
      PROVE  s \in Seq(Words) /\ Len(s) = 6 /\ s # <<>> /\ s[6] = "notify"
  BY <1>2 DEF Words
<1>3. ASSUME NEW s, s = <<"flag", "lock", "assign", "notify", "lock", "notify">>
      PROVE  s \in Seq(Words) /\ Len(s) = 6 /\ s # <<>> /\ s[6] = "notify"
  BY <1>3 DEF Words
<1>4. ASSUME NEW s, s = <<"lock", "notify">>
      PROVE  s \in Seq(Words) /\ Len(s) = 2 /\ s # <<>> /\ s[2] = "notify"
  BY <1>4 DEF Words
<1> QED
  BY <1>1, <1>2, <1>3, <1>4

\* A call that begins has written nothing.
LEMMA SetLanStep == LanInv /\ Lan!set_lan_config => LanInv'
<1> SUFFICES ASSUME LanInv, Lan!set_lan_config PROVE LanInv'
  OBVIOUS
<1> USE DEF LanInv
<1>1. PICK p \in Lan!Params \cup {"other"}, v \in Nat :
         l_ipmi' = [params |-> {p} \ {"other"}, value |-> v, todo |-> Lan!Steps(p)]
  <2>1. PICK p \in Lan!Params \cup {"other"} :
           \E v \in IF p = "src" THEN {0, Lan!Static, Lan!Dhcp} ELSE {l_changes + 1} :
              l_ipmi' = [params |-> {p} \ {"other"}, value |-> v, todo |-> Lan!Steps(p)]
    BY DEF Lan!set_lan_config
  <2>2. (IF p = "src" THEN {0, Lan!Static, Lan!Dhcp} ELSE {l_changes + 1}) \subseteq Nat
    BY DEF LanTypes, Lan!Static, Lan!Dhcp
  <2> QED
    BY <2>1, <2>2
<1>2. /\ l_ipmi = Lan!None /\ l_changes' = l_changes + 1
      /\ UNCHANGED <<l_memory, l_flags, l_lock, l_monitor, l_iface, l_rest, l_page, l_late, l_dropped, l_missed>>
  BY DEF Lan!set_lan_config
<1>3. l_ipmi' \in Writes /\ l_ipmi'.todo # <<>> /\ l_ipmi'.todo[Len(l_ipmi'.todo)] = "notify"
  BY <1>1, StepsEnd DEF Writes, Lan!Params, Lan!Addresses
<1>4. LanTypes' /\ WritersInOrder'
  BY <1>2, <1>3 DEF LanTypes, WritersInOrder
<1>5. \A p1 \in Lan!Params : (Excused(p1) => Excused(p1)') /\ (Kept(p1) => Kept(p1)')
  BY <1>2 DEF Excused, Kept, Lan!None
<1> QED
  BY <1>2, <1>4, <1>5 DEF LateIsFlagged, KeptOutside, KeptInSet, KeptAfterSet, KeptMac, Watched,
     Lan!Params, Lan!Addresses

\* A notification wakes a parked monitor, which is outside its pass before and
\* after.
LEMMA WokenProps ==
    ASSUME LanTypes
    PROVE  /\ Lan!Woken \in [at : Ats, mode : Nat, temp : [Lan!Addresses -> Nat]]
           /\ Lan!Woken.mode = l_monitor.mode /\ Lan!Woken.temp = l_monitor.temp
           /\ IF l_monitor.at = "parked" THEN Lan!Woken.at = "test" ELSE Lan!Woken.at = l_monitor.at
  BY DEF LanTypes, Lan!Woken, Ats

\* One write of Set LAN Configuration: the flag, the value, the lock flag or a
\* notification.
LEMMA IpmiStepStep == LanInv /\ Lan!IpmiStep => LanInv'
<1> SUFFICES ASSUME LanInv, Lan!IpmiStep PROVE LanInv'
  OBVIOUS
<1> USE DEF LanInv
<1> DEFINE todo   == l_ipmi.todo
           step   == Head(todo)
           params == l_ipmi.params
<1>1. /\ todo # <<>> /\ todo \in Seq(Words) /\ params \subseteq Lan!Params /\ l_ipmi \in Writes
      /\ todo[Len(todo)] = "notify"
  BY DEF LanTypes, Writes, WritersInOrder, Lan!IpmiStep
<1>2. /\ l_ipmi' = IF Len(todo) = 1 THEN Lan!None ELSE [l_ipmi EXCEPT !.todo = Tail(@)]
      /\ l_flags' = IF step = "flag" THEN l_flags \cup params ELSE l_flags
      /\ l_memory' = IF step = "assign" THEN Lan!Assigned(l_ipmi) ELSE l_memory
      /\ l_monitor' = IF step = "notify" THEN Lan!Woken ELSE l_monitor
      /\ l_late' = IF step \in {"flag", "assign"} THEN Lan!Written(l_ipmi) ELSE l_late
      /\ l_dropped' = IF step = "assign" THEN l_dropped \cup (params \ l_flags) ELSE l_dropped
      /\ UNCHANGED <<l_iface, l_rest, l_page, l_changes>>
  BY DEF Lan!IpmiStep
<1>3. step = todo[1] /\ Len(todo) \in Nat \ {0}
  BY <1>1
<1>4. CASE Len(todo) = 1
  <2>1. step = "notify" /\ ~ToAssign
    BY <1>1, <1>3, <1>4 DEF ToAssign
  <2>2. /\ l_ipmi' = Lan!None /\ l_monitor' = Lan!Woken
        /\ UNCHANGED <<l_memory, l_flags, l_iface, l_rest, l_page, l_changes, l_late, l_dropped>>
    BY <1>2, <1>4, <2>1
  <2>3. Lan!None \in Writes /\ Lan!None.params = {} /\ Lan!None.todo = <<>>
    BY DEF Writes, Lan!None
  <2>4. LanTypes'
    BY <2>2, <2>3, WokenProps DEF LanTypes
  <2>5. \A p \in Lan!Params : (Excused(p) => Excused(p)') /\ (Kept(p) => Kept(p)')
    BY <2>1, <2>2 DEF Excused, Kept
  <2> QED
    BY <2>2, <2>3, <2>4, <2>5, WokenProps DEF WritersInOrder, LateIsFlagged, KeptOutside, KeptInSet,
       KeptAfterSet, KeptMac, Watched, Lan!Params, Lan!Addresses
<1>5. CASE Len(todo) # 1
  <2>1. l_ipmi' = [params |-> params, value |-> l_ipmi.value, todo |-> Tail(todo)]
    BY <1>1, <1>2, <1>5 DEF Writes
  <2>2. /\ Tail(todo) \in Seq(Words) /\ Len(Tail(todo)) = Len(todo) - 1
        /\ \A i \in 1 .. Len(todo) - 1 : Tail(todo)[i] = todo[i + 1]
    BY <1>1, HeadTailProperties
  <2>3. /\ l_ipmi' \in Writes
        /\ l_ipmi'.todo # <<>> /\ l_ipmi'.todo[Len(l_ipmi'.todo)] = "notify"
    <3>1. PICK n \in Nat : n = Len(todo) - 1 /\ n + 1 = Len(todo) /\ n \in 1 .. n
      <4>1. ASSUME NEW m \in Nat \ {0}, m # 1
            PROVE  m - 1 \in Nat /\ m - 1 \in 1 .. (m - 1) /\ (m - 1) + 1 = m
        BY <4>1
      <4> QED
        BY <1>3, <1>5, <4>1
    <3>2. Len(Tail(todo)) = n /\ Tail(todo)[n] = todo[n + 1]
      BY <2>2, <3>1
    <3>5. Tail(todo) # <<>> /\ Tail(todo)[Len(Tail(todo))] = "notify"
      BY <1>1, <2>2, <3>1, <3>2
    <3>3. l_ipmi'.todo = Tail(todo)
      BY <2>1
    <3>4. l_ipmi' \in Writes
      BY <1>1, <2>1, <2>2 DEF Writes
    <3> QED
      BY <3>3, <3>4, <3>5
  <2>4. ToAssign /\ step # "assign" => ToAssign'
    <3>1. ASSUME NEW i \in 1 .. Len(todo), todo[i] = "assign", step # "assign"
          PROVE  i - 1 \in 1 .. Len(todo) - 1 /\ Tail(todo)[i - 1] = "assign"
      BY <1>3, <2>2, <3>1
    <3>2. DOMAIN todo = 1 .. Len(todo) /\ DOMAIN Tail(todo) = 1 .. Len(todo) - 1
      BY <1>1, <2>2
    <3> QED
      BY <2>1, <3>1, <3>2 DEF ToAssign
  <2>5. WritersInOrder'
    BY <1>2, <2>3 DEF WritersInOrder
  <2>6. LanTypes'
    <3>1. Lan!Assigned(l_ipmi) \in [Lan!Params -> Nat]
      BY DEF Lan!Assigned, LanTypes, Writes
    <3>2. Lan!Written(l_ipmi) \subseteq Lan!Params
      BY <1>1 DEF Lan!Written, LanTypes
    <3> QED
      BY <1>1, <1>2, <2>3, <3>1, <3>2, WokenProps DEF LanTypes
  <2>7. CASE step # "assign"
    <3>1. /\ l_memory' = l_memory /\ l_dropped' = l_dropped /\ l_flags \subseteq l_flags'
          /\ l_late \subseteq l_late' /\ l_late' \subseteq l_late \cup l_flags'
      BY <1>2, <2>7 DEF Lan!Written
    <3>2. \A p \in Lan!Params : (Excused(p) => Excused(p)') /\ (Kept(p) => Kept(p)')
      BY <1>2, <2>1, <2>4, <2>7, <3>1 DEF Excused, Kept
    <3>3. /\ l_monitor'.mode = l_monitor.mode /\ l_monitor'.temp = l_monitor.temp
          /\ \/ l_monitor.at = "parked" /\ l_monitor'.at = "test"
             \/ l_monitor'.at = l_monitor.at
      BY <1>2, WokenProps
    <3>4. step = "flag" => l_late' \subseteq l_late \cup params /\ params \subseteq l_flags'
      BY <1>2 DEF Lan!Written
    <3>5. step # "flag" => l_flags' = l_flags
      BY <1>2
    <3> QED
      BY <1>2, <2>5, <2>6, <3>1, <3>2, <3>3, <3>5 DEF LateIsFlagged, KeptOutside, KeptInSet, KeptAfterSet,
         KeptMac, Watched, Lan!Params, Lan!Addresses
  <2>8. CASE step = "assign"
    <3>1. /\ l_monitor' = l_monitor /\ l_flags' = l_flags /\ l_iface' = l_iface /\ l_rest' = l_rest
          /\ l_dropped' = l_dropped \cup (params \ l_flags)
          /\ l_memory' = Lan!Assigned(l_ipmi) /\ l_late' = Lan!Written(l_ipmi)
      BY <1>2, <2>8
    <3>2. \A p \in Lan!Params \ params : /\ l_memory'[p] = l_memory[p]
                                         /\ (Excused(p) => Excused(p)') /\ (Kept(p) => Kept(p)')
      BY <3>1 DEF Excused, Kept, Lan!Assigned
    <3>3. \A p \in params : p \in l_flags \/ Excused(p)'
      BY <3>1 DEF Excused
    <3>4. l_monitor.at \in {"set", "mac", "clear"} => l_late' = l_late \cup params
      BY <3>1 DEF Lan!Written, Lan!InPass
    <3>5. LateIsFlagged'
      BY <3>1, <3>4 DEF LateIsFlagged
    <3>6. KeptOutside' /\ KeptMac'
      BY <3>1, <3>2, <3>3, <3>4 DEF KeptOutside, KeptMac, Kept, Watched, Lan!Params, Lan!Addresses
    <3>7. KeptInSet' /\ KeptAfterSet'
      BY <3>1, <3>2, <3>3, <3>4 DEF KeptInSet, KeptAfterSet, Kept, Lan!Params, Lan!Addresses
    <3> QED
      BY <2>5, <2>6, <3>5, <3>6, <3>7
  <2> QED
    BY <2>7, <2>8
<1> QED
  BY <1>4, <1>5

\* Another channel's command wakes the monitor and does no more.
LEMMA NotifyOtherStep == LanInv /\ Lan!NotifyOther => LanInv'
<1> SUFFICES ASSUME LanInv, Lan!NotifyOther PROVE LanInv'
  OBVIOUS
<1> USE DEF LanInv
<1>1. /\ l_monitor' = Lan!Woken
      /\ UNCHANGED <<l_memory, l_flags, l_lock, l_iface, l_ipmi, l_rest, l_page, l_changes, l_late,
                     l_dropped, l_missed>>
  BY DEF Lan!NotifyOther
<1>2. LanTypes'
  BY <1>1, WokenProps DEF LanTypes
<1> QED
  BY <1>1, <1>2, WokenProps DEF WritersInOrder, LateIsFlagged, KeptOutside, KeptInSet, KeptAfterSet,
     KeptMac, Kept, Excused, ToAssign

\* A page is commands that begin later.
LEMMA PostPageStep == LanInv /\ Lan!PostPage => LanInv'
<1> SUFFICES ASSUME LanInv, Lan!PostPage PROVE LanInv'
  OBVIOUS
<1> USE DEF LanInv
<1>1. UNCHANGED <<l_memory, l_flags, l_lock, l_monitor, l_iface, l_ipmi, l_rest, l_late, l_dropped, l_missed>>
  BY DEF Lan!PostPage
<1>2. l_changes' = l_changes + 1
      /\ l_page' \in {<<Lan!Command.mac>>, <<Lan!Command.dhcp>>, <<Lan!Command.ip, Lan!Command.gateway>>,
                      <<Lan!Command.dhcp, Lan!Command.ip, Lan!Command.gateway>>}
  BY DEF Lan!PostPage
<1>3. /\ Lan!Command.mac \in SUBSET Lan!Params /\ Lan!Command.dhcp \in SUBSET Lan!Params
      /\ Lan!Command.ip \in SUBSET Lan!Params /\ Lan!Command.gateway \in SUBSET Lan!Params
  BY DEF Lan!Command, Lan!Params, Lan!Addresses
<1>4. l_page' \in Seq(SUBSET Lan!Params)
  <2>1. ASSUME NEW S, NEW a \in S, NEW b \in S, NEW c \in S
        PROVE  <<a>> \in Seq(S) /\ <<a, b>> \in Seq(S) /\ <<a, b, c>> \in Seq(S)
    OBVIOUS
  <2> DEFINE Commands == SUBSET Lan!Params
  <2>2. /\ Lan!Command.mac \in Commands /\ Lan!Command.dhcp \in Commands
        /\ Lan!Command.ip \in Commands /\ Lan!Command.gateway \in Commands
    BY <1>3
  <2> HIDE DEF Commands
  <2>3. l_page' \in Seq(Commands)
    BY <1>2, <2>1, <2>2
  <2> QED
    BY <2>3 DEF Commands
<1>5. LanTypes'
  BY <1>1, <1>2, <1>4 DEF LanTypes
<1> QED
  BY <1>1, <1>5 DEF WritersInOrder, LateIsFlagged, KeptOutside, KeptInSet, KeptAfterSet,
     KeptMac, Kept, Excused, ToAssign

\* A command of the page writes values before their flags.
LEMMA RestAssignStep == LanInv /\ Lan!RestAssign => LanInv'
<1> SUFFICES ASSUME LanInv, Lan!RestAssign PROVE LanInv'
  OBVIOUS
<1> USE DEF LanInv
<1> DEFINE params == Head(l_page)
<1>1. PICK v \in Nat :
         LET w == [params |-> params, value |-> v, todo |-> <<"flag">>]
         IN l_rest' = w /\ l_memory' = Lan!Assigned(w) /\ l_late' = Lan!Written(w)
  <2>1. (IF params = {"src"} THEN {0, Lan!Static, Lan!Dhcp} ELSE {l_changes}) \subseteq Nat
    BY DEF LanTypes, Lan!Static, Lan!Dhcp
  <2> QED
    BY <2>1 DEF Lan!RestAssign
<1>2. /\ l_rest = Lan!None /\ l_page # <<>> /\ l_page' = Tail(l_page)
      /\ UNCHANGED <<l_flags, l_lock, l_monitor, l_iface, l_ipmi, l_changes, l_dropped, l_missed>>
  BY DEF Lan!RestAssign
<1>3. params \subseteq Lan!Params /\ l_page' \in Seq(SUBSET Lan!Params)
  BY <1>2, HeadTailProperties DEF LanTypes
<1> DEFINE w == [params |-> params, value |-> v, todo |-> <<"flag">>]
<1> HIDE DEF params
<1>4. w \in Writes /\ w.todo # <<>> /\ w.params = params /\ w.value = v
  BY <1>3 DEF Writes, Words
<1> HIDE DEF w
<1>5. /\ l_rest' = w
      /\ l_memory' = [p \in Lan!Params |-> IF p \in params THEN v ELSE l_memory[p]]
      /\ l_late' = IF l_monitor.at \in {"set", "mac", "clear"} THEN l_late \cup params ELSE l_late
  BY <1>1, <1>4 DEF w, params, Lan!Assigned, Lan!Written, Lan!InPass
<1>6. LanTypes'
  BY <1>2, <1>3, <1>4, <1>5 DEF LanTypes
<1>7. l_rest.params = {}
  BY <1>2 DEF Lan!None
<1>8. \A p \in Lan!Params \ params : /\ l_memory'[p] = l_memory[p]
                                     /\ (Excused(p) => Excused(p)') /\ (Kept(p) => Kept(p)')
  BY <1>2, <1>5, <1>7 DEF Excused, Kept, ToAssign
<1>9. \A p \in params : Excused(p)' /\ Kept(p)'
  BY <1>4, <1>5 DEF Excused, Kept
<1>10. WritersInOrder' /\ LateIsFlagged'
  BY <1>2, <1>4, <1>5, <1>7 DEF WritersInOrder, LateIsFlagged
<1>11. KeptOutside' /\ KeptMac'
  BY <1>2, <1>5, <1>8, <1>9 DEF KeptOutside, KeptMac, Watched, Lan!Params, Lan!Addresses
<1>12. KeptInSet' /\ KeptAfterSet'
  BY <1>2, <1>5, <1>8, <1>9 DEF KeptInSet, KeptAfterSet, Lan!Params, Lan!Addresses
<1> QED
  BY <1>6, <1>10, <1>11, <1>12

\* Then the flags.
LEMMA RestFlagStep == LanInv /\ Lan!RestFlag => LanInv'
<1> SUFFICES ASSUME LanInv, Lan!RestFlag PROVE LanInv'
  OBVIOUS
<1> USE DEF LanInv
<1> DEFINE params == l_rest.params
<1>1. /\ l_flags' = l_flags \cup params /\ l_rest' = Lan!None
      /\ l_late' = IF l_monitor.at \in {"set", "mac", "clear"} THEN l_late \cup params ELSE l_late
      /\ UNCHANGED <<l_memory, l_lock, l_monitor, l_iface, l_ipmi, l_page, l_changes, l_dropped, l_missed>>
  BY DEF Lan!RestFlag, Lan!Written, Lan!InPass
<1>2. params \subseteq Lan!Params /\ Lan!None \in Writes /\ Lan!None.params = {}
  BY DEF LanTypes, Writes, Lan!None
<1>3. LanTypes'
  BY <1>1, <1>2 DEF LanTypes
<1>4. \A p \in Lan!Params \ params : (Excused(p) => Excused(p)') /\ (Kept(p) => Kept(p)')
  BY <1>1 DEF Excused, Kept, ToAssign
<1>5. \A p \in params : p \in l_flags'
  BY <1>1
<1>6. WritersInOrder' /\ LateIsFlagged'
  BY <1>1, <1>2 DEF WritersInOrder, LateIsFlagged
<1>7. KeptOutside' /\ KeptMac'
  BY <1>1, <1>4, <1>5 DEF KeptOutside, KeptMac, Watched, Lan!Params, Lan!Addresses
<1>8. KeptInSet' /\ KeptAfterSet'
  BY <1>1, <1>4, <1>5 DEF KeptInSet, KeptAfterSet, Lan!Params, Lan!Addresses
<1> QED
  BY <1>3, <1>6, <1>7, <1>8

\* The monitor's steps outside its pass give nothing to the interface and read
\* nothing but the lock flag.
LEMMA WaitingSteps ==
    ASSUME LanInv, NEW at \in {"park", "parked", "sleep"},
           l_monitor.at \in {"test", "park"},
           l_monitor' = [l_monitor EXCEPT !.at = at],
           UNCHANGED <<l_memory, l_flags, l_iface, l_ipmi, l_rest, l_page, l_changes, l_late, l_dropped>>
    PROVE  LanInv'
<1> USE DEF LanInv
<1>1. LanTypes' /\ l_monitor'.at = at
  BY DEF LanTypes, Ats
<1> QED
  BY <1>1 DEF WritersInOrder, LateIsFlagged, KeptOutside, KeptInSet, KeptAfterSet, KeptMac, Kept,
     Excused, ToAssign

\* The choice of the mode.
LEMMA ChooseStep == LanInv /\ Lan!Choose => LanInv'
<1> SUFFICES ASSUME LanInv, Lan!Choose PROVE LanInv'
  OBVIOUS
<1> USE DEF LanInv
<1>1. /\ l_monitor.at = "sleep" /\ l_late' = {}
      /\ UNCHANGED <<l_memory, l_flags, l_lock, l_iface, l_ipmi, l_rest, l_page, l_changes, l_dropped, l_missed>>
  BY DEF Lan!Choose
<1>2. l_monitor'.at = "compose" /\ LanTypes'
  <2> DEFINE mode == IF "src" \in l_flags THEN l_memory.src ELSE 0
  <2>1. mode \in Nat
    BY DEF LanTypes, Lan!Params
  <2>2. l_monitor' = [at |-> "compose", mode |-> mode, temp |-> l_monitor.temp]
    BY DEF Lan!Choose, LanTypes
  <2> HIDE DEF mode
  <2> QED
    BY <1>1, <2>1, <2>2 DEF LanTypes, Ats
<1> QED
  BY <1>1, <1>2 DEF WritersInOrder, LateIsFlagged, KeptOutside, KeptInSet, KeptAfterSet, KeptMac,
     Kept, Excused, ToAssign

\* The addresses of the pass: those flagged are the memory's, the others are kept.
LEMMA ComposeStep == LanInv /\ Lan!Compose => LanInv'
<1> SUFFICES ASSUME LanInv, Lan!Compose PROVE LanInv'
  OBVIOUS
<1> USE DEF LanInv
<1> DEFINE at == IF l_monitor.mode = Lan!Static THEN "set" ELSE "mac"
<1>1. /\ l_monitor.at = "compose" /\ l_late' = {}
      /\ l_dropped' = IF l_monitor.mode = Lan!Static THEN l_dropped \ l_flags ELSE l_dropped
      /\ UNCHANGED <<l_memory, l_flags, l_lock, l_iface, l_ipmi, l_rest, l_page, l_changes, l_missed>>
  BY DEF Lan!Compose
<1>2. Lan!Composed \in [Lan!Addresses -> Nat]
  BY DEF Lan!Composed, LanTypes, Lan!Params
<1>3. l_monitor' = [at |-> at, mode |-> l_monitor.mode, temp |-> Lan!Composed]
  BY DEF Lan!Compose, LanTypes
<1>4. LanTypes'
  BY <1>1, <1>2, <1>3 DEF LanTypes, Ats
<1>5. \A p \in Watched : p \in l_flags \/ Kept(p)'
  BY <1>1 DEF KeptOutside, Kept, Excused, ToAssign
<1>6. \A p \in Lan!Addresses : l_monitor'.temp[p] = IF p \in l_flags THEN l_memory[p] ELSE l_iface[p]
  BY <1>3 DEF Lan!Composed
<1>7. WritersInOrder' /\ LateIsFlagged' /\ KeptOutside'
  BY <1>1, <1>3 DEF WritersInOrder, LateIsFlagged, KeptOutside
<1>8. CASE l_monitor.mode = Lan!Static
  <2>1. l_monitor'.at = "set" /\ l_monitor'.mode = Lan!Static
    BY <1>3, <1>8
  <2>2. KeptInSet'
    BY <1>1, <1>5, <1>6, <2>1 DEF KeptInSet, Kept, Watched
  <2> QED
    BY <1>4, <1>7, <2>1, <2>2 DEF KeptAfterSet, KeptMac
<1>9. CASE l_monitor.mode # Lan!Static
  <2>1. l_monitor'.at = "mac" /\ l_monitor'.mode # Lan!Static
    BY <1>3, <1>9
  <2>2. KeptAfterSet' /\ KeptMac'
    BY <1>1, <1>5, <2>1 DEF KeptAfterSet, KeptMac, Watched
  <2> QED
    BY <1>4, <1>7, <2>1, <2>2 DEF KeptInSet
<1> QED
  BY <1>8, <1>9

\* set_ip gives the composed addresses to the interface.
LEMMA SetIpStep == LanInv /\ Lan!SetIp => LanInv'
<1> SUFFICES ASSUME LanInv, Lan!SetIp PROVE LanInv'
  OBVIOUS
<1> USE DEF LanInv
<1>1. /\ l_monitor.at = "set"
      /\ l_iface' = [p \in Lan!Params |-> IF p \in Lan!Addresses THEN l_monitor.temp[p]
                                          ELSE IF p = "src" THEN Lan!Static ELSE l_iface[p]]
      /\ UNCHANGED <<l_memory, l_flags, l_lock, l_ipmi, l_rest, l_page, l_changes, l_late, l_dropped, l_missed>>
  BY DEF Lan!SetIp
<1>2. l_monitor' = [at |-> "mac", mode |-> l_monitor.mode, temp |-> l_monitor.temp]
  BY DEF Lan!SetIp, LanTypes
<1>3. l_iface' \in [Lan!Params -> Nat]
  BY <1>1 DEF LanTypes, Lan!Static
<1>4. LanTypes'
  BY <1>1, <1>2, <1>3 DEF LanTypes, Ats
<1>5. /\ \A p \in Lan!Addresses : l_iface'[p] = l_monitor.temp[p]
      /\ l_iface'["mac"] = l_iface["mac"]
  BY <1>1 DEF Lan!Params, Lan!Addresses
<1>6. \A p : Excused(p) => Excused(p)'
  BY <1>1 DEF Excused, ToAssign
<1>7. KeptAfterSet' /\ KeptMac'
  BY <1>1, <1>2, <1>5, <1>6 DEF KeptInSet, KeptAfterSet, KeptMac, Kept
<1> QED
  BY <1>1, <1>2, <1>4, <1>7 DEF WritersInOrder, LateIsFlagged, KeptOutside, KeptInSet

\* The MAC is set, with the route over the memory's gateway; DHCP replaces the
\* addresses.
LEMMA SetMacStep == LanInv /\ Lan!SetMac => LanInv'
<1> SUFFICES ASSUME LanInv, Lan!SetMac PROVE LanInv'
  OBVIOUS
<1> USE DEF LanInv
<1> DEFINE mac  == "mac" \in l_flags /\ l_monitor.mode \in {Lan!Static, Lan!Dhcp}
           dhcp == l_monitor.mode = Lan!Dhcp
           withMac == IF mac THEN [l_iface EXCEPT !.mac = l_memory.mac, !.gw = l_memory.gw] ELSE l_iface
<1>1. /\ l_monitor.at = "mac"
      /\ l_iface' = IF dhcp
                    THEN [withMac EXCEPT !.src = Lan!Dhcp, !.ip = Lan!Lease, !.mask = Lan!Lease,
                                         !.gw = Lan!Lease]
                    ELSE withMac
      /\ l_dropped' = (IF mac THEN l_dropped \ {"mac"} ELSE l_dropped)
                      \cup (IF dhcp THEN Lan!Addresses ELSE {})
      /\ l_late' = IF mac THEN l_late \ {"mac", "gw"} ELSE l_late
      /\ UNCHANGED <<l_memory, l_flags, l_lock, l_ipmi, l_rest, l_page, l_changes, l_missed>>
  BY DEF Lan!SetMac
<1>2. l_monitor' = [at |-> "clear", mode |-> l_monitor.mode, temp |-> l_monitor.temp]
  BY DEF Lan!SetMac, LanTypes
<1>3. /\ withMac \in [Lan!Params -> Nat]
      /\ withMac["mac"] = IF mac THEN l_memory["mac"] ELSE l_iface["mac"]
      /\ withMac["gw"] = IF mac THEN l_memory["gw"] ELSE l_iface["gw"]
      /\ withMac["ip"] = l_iface["ip"] /\ withMac["mask"] = l_iface["mask"]
  BY DEF LanTypes, Lan!Params, Lan!Addresses
<1> HIDE DEF withMac
<1>4. /\ l_iface' \in [Lan!Params -> Nat]
      /\ l_iface'["mac"] = withMac["mac"]
      /\ ~dhcp => l_iface' = withMac
  <2>1. Lan!Lease \in Nat /\ Lan!Dhcp \in Nat
    BY LanBoundsAssumption DEF LanBoundsAssumption, Lan!Dhcp, Lan!Lease
  <2>3. dhcp => l_iface' = [withMac EXCEPT !.src = Lan!Dhcp, !.ip = Lan!Lease, !.mask = Lan!Lease,
                                           !.gw = Lan!Lease]
    BY <1>1
  <2>4. ~dhcp => l_iface' = withMac
    BY <1>1
  <2>5. withMac \in [Lan!Params -> Nat]
    BY <1>3
  <2> HIDE DEF dhcp, mac
  <2>6. CASE dhcp
    <3>1. l_iface' \in [Lan!Params -> Nat] /\ l_iface'["mac"] = withMac["mac"]
      BY <2>1, <2>3, <2>5, <2>6 DEF Lan!Params, Lan!Addresses
    <3> QED
      BY <2>6, <3>1
  <2>7. CASE ~dhcp
    BY <2>4, <2>5, <2>7
  <2> QED
    BY <2>6, <2>7
<1>5. LanTypes'
  <2>1. l_dropped' \subseteq Lan!Params /\ l_late' \subseteq Lan!Params
    BY <1>1 DEF LanTypes, Lan!Params
  <2> QED
    BY <1>1, <1>2, <1>4, <2>1 DEF LanTypes, Ats
<1>6. \A p \in Lan!Addresses : Excused(p) => Excused(p)'
  BY <1>1 DEF Excused, ToAssign, Lan!Addresses
<1>7. LateIsFlagged'
  BY <1>1, <1>2 DEF LateIsFlagged
<1>8. KeptAfterSet'
  <2>1. CASE dhcp
    BY <1>1, <2>1 DEF KeptAfterSet, Kept, Excused
  <2>2. CASE ~dhcp
    BY <1>1, <1>2, <1>3, <1>4, <1>6, <2>2 DEF KeptAfterSet, Kept, Lan!Addresses
  <2> QED
    BY <2>1, <2>2
<1>9. KeptMac'
  <2>1. CASE mac
    BY <1>1, <1>2, <1>3, <1>4, <2>1 DEF KeptMac, Kept
  <2>2. CASE ~mac
    BY <1>1, <1>2, <1>3, <1>4, <2>2 DEF KeptMac, Kept, Excused, ToAssign
  <2> QED
    BY <2>1, <2>2
<1> QED
  BY <1>1, <1>2, <1>5, <1>7, <1>8, <1>9 DEF WritersInOrder, KeptOutside, KeptInSet

\* All flags are cleared: what was not given to the interface is lost, and known
\* to be.
LEMMA ClearStep == LanInv /\ Lan!Clear => LanInv'
<1> SUFFICES ASSUME LanInv, Lan!Clear PROVE LanInv'
  OBVIOUS
<1> USE DEF LanInv
<1> DEFINE rest == IF l_monitor.mode = Lan!Static THEN {}
                   ELSE IF l_monitor.mode = Lan!Dhcp THEN Lan!Addresses ELSE Lan!Params
<1>1. /\ l_monitor.at = "clear" /\ l_flags' = {}
      /\ l_dropped' = l_dropped \cup (l_flags \cap (l_late \cup rest))
      /\ UNCHANGED <<l_memory, l_lock, l_iface, l_ipmi, l_rest, l_page, l_changes, l_late, l_missed>>
  BY DEF Lan!Clear
<1>2. l_monitor' = [at |-> "unlock", mode |-> l_monitor.mode, temp |-> l_monitor.temp]
  BY DEF Lan!Clear, LanTypes
<1>3. LanTypes'
  BY <1>1, <1>2 DEF LanTypes, Ats
<1>4. \A p : (Excused(p) => Excused(p)') /\ (p \in l_late => Excused(p)')
  BY <1>1 DEF Excused, ToAssign, LateIsFlagged
<1>5. \A p \in Lan!Addresses : Kept(p)'
  BY <1>1, <1>4 DEF KeptAfterSet, Kept, Excused, Lan!Params
<1>6. Kept("mac")'
  BY <1>1, <1>4 DEF KeptMac, Kept, Excused, Lan!Params
<1> QED
  BY <1>1, <1>2, <1>3, <1>5, <1>6 DEF WritersInOrder, LateIsFlagged, KeptOutside, KeptInSet,
     KeptAfterSet, KeptMac, Watched

\* The pass is over.
LEMMA UnlockStep == LanInv /\ Lan!Unlock => LanInv'
<1> SUFFICES ASSUME LanInv, Lan!Unlock PROVE LanInv'
  OBVIOUS
<1> USE DEF LanInv
<1>1. /\ l_monitor.at = "unlock" /\ l_late' = {}
      /\ UNCHANGED <<l_memory, l_flags, l_iface, l_ipmi, l_rest, l_page, l_changes, l_dropped, l_missed>>
  BY DEF Lan!Unlock
<1>2. l_monitor' = [at |-> "test", mode |-> l_monitor.mode, temp |-> l_monitor.temp]
  BY DEF Lan!Unlock, LanTypes
<1>3. LanTypes'
  BY <1>1, <1>2 DEF LanTypes, Ats
<1> QED
  BY <1>1, <1>2, <1>3 DEF WritersInOrder, LateIsFlagged, KeptOutside, KeptInSet, KeptAfterSet, KeptMac,
     Kept, Excused, ToAssign

\* LanInv is inductive.
LEMMA LanStepsKeepInv == LanInv /\ [MCNext]_<<focus, vars, lanVars>> => LanInv'
<1>1. LanInv /\ Lan!Test => LanInv'
  <2> SUFFICES ASSUME LanInv, Lan!Test PROVE LanInv'
    OBVIOUS
  <2>1. l_monitor' = [l_monitor EXCEPT !.at = "sleep"] \/ l_monitor' = [l_monitor EXCEPT !.at = "park"]
    BY DEF Lan!Test
  <2> QED
    BY <2>1, WaitingSteps DEF Lan!Test
<1>2. LanInv /\ Lan!Park => LanInv'
  BY WaitingSteps DEF Lan!Park
<1>3. LanInv /\ UNCHANGED lanVars => LanInv'
  BY DEF lanVars, LanInv, LanTypes, WritersInOrder, LateIsFlagged, KeptOutside, KeptInSet,
     KeptAfterSet, KeptMac, Kept, Excused, ToAssign
<1>4. LanInv /\ Lan!Next => LanInv'
  BY <1>1, <1>2, SetLanStep, IpmiStepStep, NotifyOtherStep, PostPageStep, RestAssignStep, RestFlagStep,
     ChooseStep, ComposeStep, SetIpStep, SetMacStep, ClearStep, UnlockStep DEF Lan!Next
<1> QED
  BY <1>3, <1>4 DEF MCNext

\* LanInv holds in every state.
THEOREM LanInvariance == MCSpec => []LanInv
  BY LanInitInv, LanStepsKeepInv, PTL DEF MCSpec, MCInit

\* Between its passes the monitor has given every change to the interface that
\* is not flagged, under way, or lost in one of the three known ways: whatever
\* the interleaving of the monitor, Set LAN Configuration and the pages.
THEOREM OnlyKnownLosses == MCSpec => []NothingElseIsLost
<1>1. LanInv => NothingElseIsLost
  BY DEF LanInv, KeptOutside, Kept, Excused, Watched, NothingElseIsLost, Lan!NothingElseIsLost
<1> QED
  BY <1>1, LanInvariance, PTL
=============================================================================
