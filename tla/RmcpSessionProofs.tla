-------------------------- MODULE RmcpSessionProofs --------------------------
(***************************************************************************)
(* Proofs about RmcpSession, for any number of consoles and entries. IInv  *)
(* gives the types; OneEntryPerSession is inductive and                    *)
(* ActiveEntryKeepsOwner holds of every step, given those, whether or not  *)
(* rand() repeats itself. That an open session is kept needs numbers that  *)
(* are fresh: Distinct says what freshness gives, that an id and a random  *)
(* number lead to one console.                                             *)
(***************************************************************************)
EXTENDS RmcpSession, TLAPS

\* Only RAKP message 1 decides whose an entry is and which session it has.
SameNames == \A i \in Slots : /\ session'[i].ip = session[i].ip
                              /\ session'[i].sid = session[i].sid

\* An entry with an address went through RAKP message 1, and a console past
\* Open Session finds an algorithm set: what RAKP message 3 makes keys of is
\* there, which is what the type of the keys needs.
Seeded == /\ \A i \in Slots : session[i].ip # None => session[i].rc # None
          /\ \A c \in Clients : client[c].phase # "idle" => rmcp.suite # None

IInv == TypeOK /\ Seeded

\* Initially nothing is open.
LEMMA InitEstablishes == Init => IInv
  BY RmcpAssumption DEF RmcpAssumption, Init, IInv, TypeOK, Seeded, NoSession, Idle, Slots,
     Entry, ConsoleState, ConsoleIds

\* What RAKP message 1 puts into an entry is of its type.
LEMMA ClaimedTyping ==
    ASSUME TypeOK, NEW s \in Entry, NEW c \in Clients, NEW rc \in Nonces
    PROVE  Claimed(s, c, rc) \in Entry /\ Claimed(s, c, rc).rc = rc
<1>1. UserIndex[c] \in 0 .. 9 /\ Priv[c] \in RoleIds
  BY RmcpAssumption DEF RmcpAssumption, RoleIds
<1>2. rmcp.sid \in Sids \cup {None} /\ rmcp.cid \in ConsoleIds
  BY DEF TypeOK
<1> QED
  BY <1>1, <1>2 DEF Claimed, Entry

\* RAKP message 3 leaves an entry of its type if there is a random number and an
\* algorithm to make the keys of.
LEMMA ActivatedTyping ==
    ASSUME TypeOK, NEW s \in Entry, s.rc # None, rmcp.suite # None
    PROVE  Activated(s) \in Entry /\ Activated(s).rc = s.rc /\ Activated(s).ip = s.ip
<1>1. [rc |-> s.rc, rolem |-> s.rolem, suite |-> rmcp.suite] \in Keys
  BY DEF TypeOK, Entry, Keys
<1> QED
  BY <1>1 DEF Activated, Entry

\* The handlers keep IInv: one step per handler.
LEMMA StepsKeepIInv == IInv /\ [Next]_vars => IInv'
<1> SUFFICES ASSUME IInv, [Next]_vars PROVE IInv'
  OBVIOUS
<1> USE DEF IInv, TypeOK, Seeded
<1>1. ASSUME NEW c \in Clients, NEW sid \in Sids, NEW lost \in BOOLEAN,
             OpenSession(c, sid, lost)
      PROVE  IInv'
  <2>1. rmcp'.suite # None
    BY <1>1, RmcpAssumption DEF RmcpAssumption, OpenSession, Opened, SuiteIds
  <2> QED
    BY <1>1, <2>1 DEF OpenSession, Opened, SuiteIds, ConsoleIds, ConsoleState
<1>2. ASSUME NEW c \in Clients, NEW rc \in Nonces, NEW lost \in BOOLEAN, Rakp1(c, rc, lost)
      PROVE  IInv'
  <2>1. PICK i \in First(RakpSlots(c)) : session' = [session EXCEPT ![i] = Claimed(@, c, rc)]
    BY <1>2 DEF Rakp1
  <2>2. i \in Slots
    BY <2>1 DEF First, RakpSlots, Found, FreeSlots
  <2>3. Claimed(session[i], c, rc) \in Entry /\ Claimed(session[i], c, rc).rc # None
    BY <2>2, ClaimedTyping, RmcpAssumption DEF RmcpAssumption
  <2>4. session' \in [Slots -> Entry] /\ \A j \in Slots : session'[j].ip # None => session'[j].rc # None
    BY <2>1, <2>2, <2>3
  <2>5. /\ client' \in [Clients -> ConsoleState]
        /\ \A d \in Clients : client'[d].phase # "idle" => client[d].phase # "idle"
    <3>1. client[c].phase = "opened" /\ client[c] \in ConsoleState
      BY <1>2 DEF Rakp1
    <3>2. PICK k \in ConsoleState :
             k = [client[c] EXCEPT !.phase = "keyed", !.rc = rc]
      BY <3>1 DEF ConsoleState
    <3>3. client' = client \/ client' = [client EXCEPT ![c] = k]
      BY <1>2, <3>2 DEF Rakp1
    <3> QED
      BY <3>1, <3>3
  <2>6. rmcp' = rmcp /\ up' = up
    BY <1>2 DEF Rakp1
  <2> QED
    BY <2>4, <2>5, <2>6
<1>3. ASSUME NEW c \in Clients, Rakp1NoSlot(c) PROVE IInv'
  BY <1>3 DEF Rakp1NoSlot
<1>4. ASSUME NEW c \in Clients, NEW lost \in BOOLEAN, Rakp3(c, lost) PROVE IInv'
  <2>1. PICK i \in First(Found(c, rmcp.sid)) :
           /\ session' = [session EXCEPT ![i] = Activated(@)]
           /\ client' = client \/ client' = [client EXCEPT ![c].phase = "open"]
    BY <1>4 DEF Rakp3
  <2>2. i \in Slots /\ session[i].ip # None /\ rmcp.suite # None
    BY <1>4, <2>1, RmcpAssumption DEF RmcpAssumption, Rakp3, First, Found, Matches
  <2>3. /\ Activated(session[i]) \in Entry
        /\ Activated(session[i]).rc # None
    BY <2>2, ActivatedTyping
  <2>4. session' \in [Slots -> Entry] /\ \A j \in Slots : session'[j].ip # None => session'[j].rc # None
    BY <2>1, <2>2, <2>3
  <2>5. client' \in [Clients -> ConsoleState]
    BY <2>1 DEF ConsoleState
  <2> QED
    BY <1>4, <2>2, <2>4, <2>5 DEF Rakp3
<1>5. ASSUME NEW c \in Clients, NEW priv \in Privs, SetSessionPriv(c, priv) PROVE IInv'
  <2>1. PICK i \in Slots : session' = [session EXCEPT ![i].rolem = priv]
    BY <1>5 DEF SetSessionPriv, Last, ActiveSlots
  <2>2. [session[i] EXCEPT !.rolem = priv] \in Entry
    BY DEF Entry, RoleIds
  <2>3. session' \in [Slots -> Entry] /\ \A j \in Slots : session'[j].ip = session[j].ip /\ session'[j].rc = session[j].rc
    BY <2>1, <2>2 DEF Entry
  <2> QED
    BY <1>5, <2>3 DEF SetSessionPriv
<1>6. ASSUME NEW c \in Clients, NEW lost \in BOOLEAN, CloseSession(c, lost) PROVE IInv'
  <2>1. PICK i \in CloseSlot(client[c].sid) : session' = [session EXCEPT ![i].active = FALSE]
    BY <1>6 DEF CloseSession
  <2>2. i \in Slots
    BY <2>1, RmcpAssumption DEF RmcpAssumption, CloseSlot, Last, Slots
  <2>3. session' \in [Slots -> Entry] /\ \A j \in Slots : session'[j].ip = session[j].ip /\ session'[j].rc = session[j].rc
    <3>1. session[i] \in Entry
      BY <2>2
    <3>2. [session[i] EXCEPT !.active = FALSE] \in Entry
      BY <3>1 DEF Entry
    <3>3. session' = [session EXCEPT ![i] = [session[i] EXCEPT !.active = FALSE]]
      BY <2>1
    <3>4. session' \in [Slots -> Entry]
      BY <2>2, <3>2, <3>3
    <3>5. ASSUME NEW j \in Slots PROVE session'[j].ip = session[j].ip /\ session'[j].rc = session[j].rc
      BY <3>1, <3>3 DEF Entry
    <3> QED
      BY <3>4, <3>5
  <2>4. /\ client' \in [Clients -> ConsoleState]
        /\ \A d \in Clients : client'[d].phase # "idle" => client[d].phase # "idle"
    BY <1>6 DEF CloseSession, ConsoleState, Idle
  <2>5. rmcp' = rmcp /\ up' = up
    BY <1>6 DEF CloseSession
  <2> QED
    BY <2>3, <2>4, <2>5
<1>7. ASSUME NEW c \in Clients, Leave(c) PROVE IInv'
  BY <1>7 DEF Leave, Idle, ConsoleState
<1>8. CASE UNCHANGED vars
  BY <1>8 DEF vars
<1> QED
  BY <1>1, <1>2, <1>3, <1>4, <1>5, <1>6, <1>7, <1>8 DEF Next

\* IInv is inductive: it holds in every reachable state.
THEOREM Invariance == Spec => []IInv
  BY InitEstablishes, StepsKeepIInv, PTL DEF Spec

\* Every entry, the global handshake and every console keep their types.
THEOREM Typing == Spec => []TypeOK
<1>1. IInv => TypeOK
  BY DEF IInv
<1> QED
  BY <1>1, Invariance, PTL

\* No handler but that of RAKP message 1 renames an entry.
LEMMA OthersKeepNames ==
    ASSUME TypeOK, [Next]_vars,
           ~ \E c \in Clients, rc \in Nonces, lost \in BOOLEAN : Rakp1(c, rc, lost)
    PROVE  SameNames
<1>1. ASSUME NEW c \in Clients, NEW lost \in BOOLEAN, Rakp3(c, lost) PROVE SameNames
  BY <1>1 DEF TypeOK, Rakp3, Activated, SameNames
<1>2. ASSUME NEW c \in Clients, NEW priv \in Privs, SetSessionPriv(c, priv) PROVE SameNames
  BY <1>2 DEF TypeOK, SetSessionPriv, SameNames
<1>3. ASSUME NEW c \in Clients, NEW lost \in BOOLEAN, CloseSession(c, lost) PROVE SameNames
  BY <1>3 DEF TypeOK, CloseSession, SameNames
<1>4. CASE UNCHANGED session
  BY <1>4 DEF SameNames
<1> QED
  BY <1>1, <1>2, <1>3, <1>4 DEF Next, OpenSession, Rakp1NoSlot, Leave, vars

\* RAKP message 1 gives the console an entry it has already, or one that is not
\* in use when it has none, and changes no other.
LEMMA Rakp1Renames ==
    ASSUME TypeOK, NEW c \in Clients, NEW rc \in Nonces, NEW lost \in BOOLEAN,
           Rakp1(c, rc, lost)
    PROVE  \E i \in Slots :
              /\ IF Found(c, rmcp.sid) = {} THEN ~session[i].active ELSE Matches(i, c, rmcp.sid)
              /\ session'[i].ip = c /\ session'[i].sid = rmcp.sid
              /\ \A j \in Slots \ {i} : session'[j] = session[j]
<1>1. PICK i \in First(RakpSlots(c)) : session' = [session EXCEPT ![i] = Claimed(@, c, rc)]
  BY DEF Rakp1
<1>2. /\ i \in Slots
      /\ IF Found(c, rmcp.sid) = {} THEN ~session[i].active ELSE Matches(i, c, rmcp.sid)
  BY <1>1 DEF First, RakpSlots, Found, FreeSlots
<1>3. session'[i] = Claimed(session[i], c, rc) /\ \A j \in Slots \ {i} : session'[j] = session[j]
  BY <1>1, <1>2 DEF TypeOK
<1>4. Claimed(session[i], c, rc).ip = c /\ Claimed(session[i], c, rc).sid = rmcp.sid
  BY <1>2 DEF TypeOK, Claimed
<1> QED
  BY <1>2, <1>3, <1>4

\* The table stays free of double entries: an entry gets an address and an id
\* only if it, or none, has them.
LEMMA UniqueStep == TypeOK /\ OneEntryPerSession /\ [Next]_vars => OneEntryPerSession'
<1> SUFFICES ASSUME TypeOK, OneEntryPerSession, [Next]_vars PROVE OneEntryPerSession'
  OBVIOUS
<1>1. ASSUME NEW c \in Clients, NEW rc \in Nonces, NEW lost \in BOOLEAN, Rakp1(c, rc, lost)
      PROVE  OneEntryPerSession'
  <2>1. PICK i \in Slots :
           /\ IF Found(c, rmcp.sid) = {} THEN ~session[i].active ELSE Matches(i, c, rmcp.sid)
           /\ session'[i].ip = c /\ session'[i].sid = rmcp.sid
           /\ \A j \in Slots \ {i} : session'[j] = session[j]
    BY <1>1, Rakp1Renames
  <2>2. c # None
    BY RmcpAssumption DEF RmcpAssumption
  <2>3. \A j \in Slots \ {i} : ~(session[j].ip = c /\ session[j].sid = rmcp.sid)
    BY <2>1, <2>2 DEF OneEntryPerSession, Matches, Found
  <2> QED
    BY <2>1, <2>3 DEF OneEntryPerSession, Matches
<1>2. CASE ~ \E c \in Clients, rc \in Nonces, lost \in BOOLEAN : Rakp1(c, rc, lost)
  BY <1>2, OthersKeepNames DEF SameNames, OneEntryPerSession, Matches
<1> QED
  BY <1>1, <1>2

\* A look-up by address and session id has at most one result, through repeated
\* and interleaved handshakes, even if two sessions are given the same id.
THEOREM LookupsAreUnique == Spec => []OneEntryPerSession
<1>1. Init => OneEntryPerSession
  BY DEF Init, OneEntryPerSession, NoSession
<1> QED
  BY <1>1, UniqueStep, Typing, PTL DEF Spec

\* No handshake takes an entry in use from the console it belongs to.
THEOREM OwnersAreKept == Spec => ActiveEntryKeepsOwner
<1> DEFINE Kept == \A i \in Slots : session[i].active => session'[i].ip = session[i].ip
<1>1. TypeOK /\ [Next]_vars => [Kept]_vars
  <2> SUFFICES ASSUME TypeOK, [Next]_vars PROVE Kept
    OBVIOUS
  <2>1. ASSUME NEW c \in Clients, NEW rc \in Nonces, NEW lost \in BOOLEAN, Rakp1(c, rc, lost)
        PROVE  Kept
    BY <2>1, Rakp1Renames DEF Matches
  <2>2. CASE ~ \E c \in Clients, rc \in Nonces, lost \in BOOLEAN : Rakp1(c, rc, lost)
    BY <2>2, OthersKeepNames DEF SameNames
  <2> QED
    BY <2>1, <2>2
<1> QED
  BY <1>1, Typing, PTL DEF Spec, ActiveEntryKeepsOwner

-----------------------------------------------------------------------------
(* An open session is kept, if rand() does not repeat itself.              *)

\* Two consoles never have the same session id, and an entry made with the
\* random number a console was told has the id of that console.
Distinct ==
    /\ \A c \in Clients : client[c].phase # "idle" => client[c].sid # None
    /\ \A c, d \in Clients : client[c].sid # None /\ client[c].sid = client[d].sid => c = d
    /\ \A c \in Clients, i \in Slots :
          client[c].rc # None /\ session[i].rc = client[c].rc => session[i].sid = client[c].sid

\* The entry of an open session: what OpenSessionIsKept says there is.
EntryOf(c, i) == /\ session[i].active
                 /\ Matches(i, c, client[c].sid)
                 /\ session[i].k1 = ClientKey(c)

\* Initially no console has a session id or a random number.
LEMMA InitDistinct == Init => Distinct /\ OpenSessionIsKept
  BY DEF Init, Distinct, OpenSessionIsKept, Idle

\* Open Session gives a console an id nobody has.
LEMMA OpenKeepsDistinct ==
    ASSUME FreshIds, IInv, Distinct,
           NEW c \in Clients, NEW sid \in Sids, NEW lost \in BOOLEAN, OpenSession(c, sid, lost)
    PROVE  Distinct'
<1>1. client' = client \/ client' = [client EXCEPT ![c] = [phase |-> "opened", sid |-> sid, rc |-> None]]
  BY DEF OpenSession
<1>2. session' = session /\ sid # None /\ \A d \in Clients : client[d].sid # sid
  BY RmcpAssumption DEF RmcpAssumption, OpenSession, SidsInUse
<1>3. client \in [Clients -> ConsoleState]
  BY DEF IInv, TypeOK
<1>4. CASE client' = client
  BY <1>2, <1>4 DEF Distinct
<1>5. CASE client' = [client EXCEPT ![c] = [phase |-> "opened", sid |-> sid, rc |-> None]]
  <2>1. client'[c].sid = sid /\ client'[c].rc = None /\ \A d \in Clients \ {c} : client'[d] = client[d]
    BY <1>3, <1>5
  <2> QED
    BY <1>2, <2>1 DEF Distinct
<1> QED
  BY <1>1, <1>4, <1>5

\* RAKP message 1 makes a random number nobody has, and tells it to the console
\* whose id the entry gets.
LEMMA Rakp1KeepsDistinct ==
    ASSUME FreshIds, IInv, Distinct,
           NEW c \in Clients, NEW rc \in Nonces, NEW lost \in BOOLEAN, Rakp1(c, rc, lost)
    PROVE  Distinct'
<1>1. PICK i \in First(RakpSlots(c)) : session' = [session EXCEPT ![i] = Claimed(@, c, rc)]
  BY DEF Rakp1
<1>2. i \in Slots
  BY <1>1 DEF First, RakpSlots, Found, FreeSlots
<1>3. session[i] \in Entry
  BY <1>2 DEF IInv, TypeOK
<1>4. Claimed(session[i], c, rc).rc = rc /\ Claimed(session[i], c, rc).sid = rmcp.sid
  BY <1>3 DEF Claimed, Entry
<1>5. /\ session'[i].rc = rc /\ session'[i].sid = rmcp.sid
      /\ \A j \in Slots \ {i} : session'[j] = session[j]
  BY <1>1, <1>2, <1>4 DEF IInv, TypeOK
<1>6. /\ \A d \in Clients : client[d].rc # rc
      /\ \A j \in Slots : session[j].rc # rc
      /\ rc # None
  BY RmcpAssumption DEF RmcpAssumption, Rakp1, NoncesInUse
<1>7. client \in [Clients -> ConsoleState]
  BY DEF IInv, TypeOK
<1>8. CASE client' = client
  BY <1>5, <1>6, <1>8 DEF Distinct
<1>9. CASE /\ client' = [client EXCEPT ![c].phase = "keyed", ![c].rc = rc]
           /\ rmcp.sid = client[c].sid /\ client[c].phase = "opened"
  <2>1. /\ client'[c].sid = client[c].sid /\ client'[c].rc = rc
        /\ \A d \in Clients \ {c} : client'[d] = client[d]
    BY <1>7, <1>9 DEF ConsoleState
  <2>2. client[c].sid # None
    BY <1>9 DEF Distinct
  <2>3. \A d, e \in Clients : client'[d].sid # None /\ client'[d].sid = client'[e].sid => d = e
    BY <2>1 DEF Distinct
  <2>4. \A d \in Clients : client'[d].phase # "idle" => client'[d].sid # None
    BY <2>1, <2>2 DEF Distinct
  <2>5. ASSUME NEW d \in Clients, NEW j \in Slots,
               client'[d].rc # None, session'[j].rc = client'[d].rc
        PROVE  session'[j].sid = client'[d].sid
    <3>1. CASE d = c
      BY <1>5, <1>6, <1>9, <2>1, <2>5, <3>1
    <3>2. CASE d # c
      BY <1>5, <1>6, <2>1, <2>5, <3>2 DEF Distinct
    <3> QED
      BY <3>1, <3>2
  <2> QED
    BY <2>3, <2>4, <2>5 DEF Distinct
<1> QED
  BY <1>8, <1>9 DEF Rakp1, Rakp2Accepted

\* An open session keeps its entry where the handler leaves entry and console.
LEMMA EntryStays ==
    ASSUME NEW c \in Clients, NEW i \in Slots, EntryOf(c, i), client'[c] = client[c],
           session'[i].active, session'[i].ip = session[i].ip, session'[i].sid = session[i].sid,
           session'[i].k1 = session[i].k1
    PROVE  EntryOf(c, i)'
  BY DEF EntryOf, Matches, ClientKey

\* No step takes the entry of an open session away: one step per handler.
LEMMA StepsKeepOpen ==
    ASSUME FreshIds
    PROVE  IInv /\ Distinct /\ OpenSessionIsKept /\ [Next]_vars => Distinct' /\ OpenSessionIsKept'
<1> SUFFICES ASSUME IInv, Distinct, OpenSessionIsKept, [Next]_vars
             PROVE  Distinct' /\ OpenSessionIsKept'
  OBVIOUS
<1>0. /\ client \in [Clients -> ConsoleState] /\ session \in [Slots -> Entry] /\ IInv
      /\ \A c \in Clients : client[c].phase = "open" => \E i \in Slots : EntryOf(c, i)
  BY DEF IInv, TypeOK, OpenSessionIsKept, EntryOf
<1>1. ASSUME NEW c \in Clients, NEW sid \in Sids, NEW lost \in BOOLEAN, OpenSession(c, sid, lost)
      PROVE  Distinct' /\ OpenSessionIsKept'
  <2>1. \A d \in Clients : client'[d].phase = "open" => client'[d] = client[d]
    BY <1>0, <1>1 DEF OpenSession
  <2>2. session' = session
    BY <1>1 DEF OpenSession
  <2> QED
    BY <1>0, <1>1, <2>1, <2>2, OpenKeepsDistinct DEF OpenSessionIsKept, EntryOf, Matches, ClientKey
<1>2. ASSUME NEW c \in Clients, NEW rc \in Nonces, NEW lost \in BOOLEAN, Rakp1(c, rc, lost)
      PROVE  Distinct' /\ OpenSessionIsKept'
  <2>1. ASSUME NEW d \in Clients, client'[d].phase = "open"
        PROVE  \E i \in Slots : EntryOf(d, i)'
    <3>1. d # c /\ client'[d] = client[d]
      BY <1>0, <1>2, <2>1 DEF Rakp1
    <3>2. PICK i \in Slots : EntryOf(d, i)
      BY <1>0, <2>1, <3>1
    <3>3. PICK j \in Slots :
             /\ IF Found(c, rmcp.sid) = {} THEN ~session[j].active ELSE Matches(j, c, rmcp.sid)
             /\ \A k \in Slots \ {j} : session'[k] = session[k]
      BY <1>0, <1>2, Rakp1Renames DEF IInv
    <3>4. i # j
      BY <3>1, <3>2, <3>3 DEF EntryOf, Matches
    <3> QED
      BY <3>1, <3>2, <3>3, <3>4, EntryStays DEF EntryOf
  <2> QED
    BY <1>2, <2>1, Rakp1KeepsDistinct DEF OpenSessionIsKept, EntryOf
<1>3. ASSUME NEW c \in Clients, Rakp1NoSlot(c) PROVE Distinct' /\ OpenSessionIsKept'
  <2>1. session' = session /\ client' = client
    BY <1>3 DEF Rakp1NoSlot
  <2> QED
    BY <2>1 DEF Distinct, OpenSessionIsKept, Matches, ClientKey
<1>4. ASSUME NEW c \in Clients, NEW lost \in BOOLEAN, Rakp3(c, lost)
      PROVE  Distinct' /\ OpenSessionIsKept'
  <2>1. PICK i \in First(Found(c, rmcp.sid)) :
           /\ session' = [session EXCEPT ![i] = Activated(@)]
           /\ client' = IF ~lost /\ Rakp3Verified(c, session[i]) /\ Addressed(c)
                        THEN [client EXCEPT ![c].phase = "open"] ELSE client
    BY <1>4 DEF Rakp3
  <2>2. i \in Slots /\ Matches(i, c, rmcp.sid) /\ client[c].phase = "keyed"
    BY <1>4, <2>1 DEF Rakp3, First, Found
  <2>3. /\ session'[i].active /\ session'[i].ip = c /\ session'[i].sid = rmcp.sid
        /\ session'[i].rc = session[i].rc
        /\ session'[i].k1 = [rc |-> session[i].rc, rolem |-> session[i].rolem, suite |-> rmcp.suite]
        /\ \A j \in Slots \ {i} : session'[j] = session[j]
    <3>1. session[i] \in Entry
      BY <1>0, <2>2
    <3>2. session'[i] = Activated(session[i]) /\ \A j \in Slots \ {i} : session'[j] = session[j]
      BY <1>0, <2>1, <2>2
    <3> QED
      BY <2>2, <3>1, <3>2 DEF Activated, Entry, Matches
  <2>4. /\ \A d \in Clients : client'[d].sid = client[d].sid /\ client'[d].rc = client[d].rc
        /\ \A d \in Clients \ {c} : client'[d] = client[d]
        /\ client'[c].phase \in {"keyed", "open"}
    BY <1>0, <2>1, <2>2 DEF ConsoleState
  <2>5. Distinct'
    <3>1. SameNames /\ \A j \in Slots : session'[j].rc = session[j].rc
      BY <2>2, <2>3 DEF SameNames, Matches
    <3> QED
      BY <2>2, <2>4, <3>1 DEF Distinct, SameNames
  <2>6. ASSUME client'[c].phase = "open" PROVE EntryOf(c, i)'
    <3>1. Rakp3Verified(c, session[i])
      BY <2>1, <2>2, <2>6
    <3>2. client[c].rc # None /\ session[i].sid = client[c].sid
      <4>1. session[i].rc # None
        BY <2>2, RmcpAssumption DEF RmcpAssumption, IInv, Seeded, Matches
      <4> QED
        BY <2>2, <3>1, <4>1 DEF Rakp3Verified, Distinct
    <3> QED
      BY <2>2, <2>3, <2>4, <3>1, <3>2 DEF EntryOf, Matches, ClientKey, Rakp3Verified
  <2>7. ASSUME NEW d \in Clients \ {c}, client'[d].phase = "open"
        PROVE  \E j \in Slots : EntryOf(d, j)'
    <3>1. PICK j \in Slots : EntryOf(d, j)
      BY <1>0, <2>4, <2>7
    <3>2. i # j
      BY <2>2, <3>1 DEF EntryOf, Matches
    <3> QED
      BY <2>3, <2>4, <3>1, <3>2, EntryStays DEF EntryOf
  <2> QED
    BY <2>2, <2>5, <2>6, <2>7 DEF OpenSessionIsKept, EntryOf
<1>5. ASSUME NEW c \in Clients, NEW priv \in Privs, SetSessionPriv(c, priv)
      PROVE  Distinct' /\ OpenSessionIsKept'
  <2>1. PICK i \in Slots : session' = [session EXCEPT ![i].rolem = priv]
    BY <1>5 DEF SetSessionPriv, Last, ActiveSlots
  <2>2. \A j \in Slots : /\ session'[j].ip = session[j].ip /\ session'[j].sid = session[j].sid
                         /\ session'[j].rc = session[j].rc /\ session'[j].k1 = session[j].k1
                         /\ session'[j].active = session[j].active
    BY <1>0, <2>1 DEF Entry
  <2>3. client' = client
    BY <1>5 DEF SetSessionPriv
  <2> QED
    BY <2>2, <2>3 DEF Distinct, OpenSessionIsKept, Matches, ClientKey
<1>6. ASSUME NEW c \in Clients, NEW lost \in BOOLEAN, CloseSession(c, lost)
      PROVE  Distinct' /\ OpenSessionIsKept'
  <2>1. PICK i \in CloseSlot(client[c].sid) : session' = [session EXCEPT ![i].active = FALSE]
    BY <1>6 DEF CloseSession
  <2>2. i \in Slots /\ session[i].sid = client[c].sid /\ client[c].sid # None
    BY <1>6, <2>1 DEF CloseSession, Served, Found, First, Matches, CloseSlot, Last, Distinct
  <2>3. \A j \in Slots : /\ session'[j].ip = session[j].ip /\ session'[j].sid = session[j].sid
                         /\ session'[j].rc = session[j].rc /\ session'[j].k1 = session[j].k1
                         /\ j # i => session'[j].active = session[j].active
    BY <1>0, <2>1, <2>2 DEF Entry
  <2>4. /\ \A d \in Clients \ {c} : client'[d] = client[d]
        /\ client'[c] = Idle \/ /\ client'[c].sid = client[c].sid /\ client'[c].rc = client[c].rc
                                /\ client'[c].phase = "closing"
    BY <1>0, <1>6 DEF CloseSession, ConsoleState
  <2>5. Distinct'
    <3>1. client'[c].phase # "idle" => client'[c].sid = client[c].sid
      BY <2>4 DEF Idle
    <3>2. \/ client'[c].sid = client[c].sid /\ client'[c].rc = client[c].rc
          \/ client'[c].sid = None /\ client'[c].rc = None
      BY <2>4 DEF Idle
    <3> QED
      BY <2>2, <2>3, <2>4, <3>1, <3>2 DEF Distinct
  <2>6. ASSUME NEW d \in Clients, client'[d].phase = "open"
        PROVE  \E j \in Slots : EntryOf(d, j)'
    <3>1. d # c /\ client'[d] = client[d]
      BY <2>4, <2>6 DEF Idle
    <3>2. PICK j \in Slots : EntryOf(d, j)
      BY <1>0, <2>6, <3>1
    <3>3. i # j
      BY <2>2, <3>1, <3>2 DEF EntryOf, Matches, Distinct
    <3> QED
      BY <2>3, <3>1, <3>2, <3>3, EntryStays DEF EntryOf
  <2> QED
    BY <2>5, <2>6 DEF OpenSessionIsKept, EntryOf
<1>7. ASSUME NEW c \in Clients, Leave(c) PROVE Distinct' /\ OpenSessionIsKept'
  <2>1. session' = session /\ client'[c] = Idle /\ \A d \in Clients \ {c} : client'[d] = client[d]
    BY <1>0, <1>7 DEF Leave
  <2>2. Distinct'
    BY <2>1 DEF Distinct, Idle
  <2>3. OpenSessionIsKept'
    BY <2>1 DEF OpenSessionIsKept, Idle, Matches, ClientKey
  <2> QED
    BY <2>2, <2>3
<1>8. CASE UNCHANGED vars
  BY <1>8 DEF vars, Distinct, OpenSessionIsKept, Matches, ClientKey
<1> QED
  BY <1>1, <1>2, <1>3, <1>4, <1>5, <1>6, <1>7, <1>8 DEF Next

\* A console that was told its session is open keeps it until it closes it, for
\* any number of consoles and entries, as long as rand() gives new numbers.
THEOREM OpenSessionsAreKept == ASSUME FreshIds PROVE Spec => []OpenSessionIsKept
<1>1. IInv /\ Distinct /\ OpenSessionIsKept /\ [Next]_vars => Distinct' /\ OpenSessionIsKept'
  BY StepsKeepOpen
<1> QED
  BY <1>1, InitDistinct, Invariance, PTL DEF Spec
=============================================================================
