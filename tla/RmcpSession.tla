----------------------------- MODULE RmcpSession -----------------------------
(***************************************************************************)
(* RMCP+ sessions of KETI-Edge: Rmcppacket::rmcp_process_packet in         *)
(* KETI-Edge/rmcp.cpp, the session table in libs/session/session.cpp and   *)
(* the session commands of libs/apps/apps.cpp, together with the remote    *)
(* consoles that open, use and close sessions over UDP.                    *)
(*                                                                         *)
(* The lanplus thread answers one packet at a time, so a packet is one     *)
(* action.  All packets are handled by the one object rmcpInPacket, whose  *)
(* session ids and cipher suite are those of the LAST Open Session request *)
(* from whatever console; the ids a RAKP message carries are not read.     *)
(*                                                                         *)
(* A console has one request outstanding and repeats it only after the     *)
(* request or its answer got lost, which "lost" stands for: the server     *)
(* acted, the console did not hear.  (A lost request changes nothing.)     *)
(***************************************************************************)
EXTENDS Integers

CONSTANTS
    Clients,        \* remote consoles, each with an IP address of its own
    NSlots,         \* MAX_SESSION: 5 entries in ipmiSession
    Sids,           \* managed system session ids rand() can yield
    Nonces,         \* managed system random numbers (rc)
    ConsoleId,      \* the console session id each client sends
    Suite,          \* the authentication algorithm each client asks for
    Priv,           \* the privilege (rolem) each client asks for, not 0
    UserIndex,      \* the index of the user each client logs in as
    Privs,          \* privileges Set Session Privilege is called with
    FreshIds,       \* FALSE: rand() may repeat itself (see SidsInUse)
    None

Slots    == 0 .. NSlots - 1
SuiteIds == {Suite[c] : c \in Clients}
RoleIds  == {Priv[c] : c \in Clients} \cup Privs
Keys     == [rc : Nonces, rolem : RoleIds \cup {0}, suite : SuiteIds]

ASSUME RmcpAssumption ==
    /\ NSlots \in Nat \ {0}
    /\ FreshIds \in BOOLEAN
    /\ None \notin Clients \cup Sids \cup Nonces \cup SuiteIds \cup Keys
    /\ DOMAIN Priv = Clients /\ DOMAIN Suite = Clients
    /\ Privs \subseteq 0 .. 4
    /\ \A c \in Clients : Priv[c] \in 1 .. 4 /\ UserIndex[c] \in 0 .. 9

VARIABLES
    rmcp,     \* rmcpInPacket: sessionIdServer, sessionIdClient, auth_type
    session,  \* ipmiSession
    client,   \* what each console knows of its session
    up        \* FALSE once the process died

vars == <<rmcp, session, client, up>>

NoSession == [active |-> FALSE, ip |-> None, sid |-> None, cid |-> None,
              rc |-> None, rolem |-> 0, userPriv |-> 0, k1 |-> None]
Idle == [phase |-> "idle", sid |-> None, rc |-> None]

-----------------------------------------------------------------------------
(* Looking sessions up.                                                    *)

\* Ipmisession::getSessionId; whether the session is active is not asked.
Matches(i, ip, sid) == session[i].ip = ip /\ session[i].sid = sid

\* The entry an ascending, or descending, search of S stops at (a singleton).
First(S) == {i \in S : \A j \in S : i <= j}
Last(S)  == {i \in S : \A j \in S : i >= j}

Found(ip, sid) == {i \in Slots : Matches(i, ip, sid)}
FreeSlots      == {i \in Slots : ~session[i].active}
ActiveSlots    == {i \in Slots : session[i].active}

\* Variant with a bug: only the first entry is searched for the session.
RakpSlotsFirstOnly(c) ==
    LET found == Found(c, rmcp.sid) \cap {0} IN IF found # {} THEN found ELSE FreeSlots

\* Variant with a bug: active entries are handed out as well.
RakpSlotsAny(c) ==
    LET found == Found(c, rmcp.sid) IN IF found # {} THEN found ELSE Slots

\* The entries RAKP message 1 may take, the first of which it does: the one
\* that has the session, or one with session_handle 0.
RakpSlots(c) ==
    LET found == Found(c, rmcp.sid) IN IF found # {} THEN found ELSE FreeSlots

-----------------------------------------------------------------------------
(* The handshake.                                                          *)

\* The ids and random numbers still known to somebody.  RAKP message 1 seeds
\* rand() with the second, so two handshakes in one second get the same
\* numbers; FreshIds says that this does not happen.
SidsInUse == {session[i].sid : i \in Slots} \cup {client[c].sid : c \in Clients} \cup {rmcp.sid}
NoncesInUse == {session[i].rc : i \in Slots} \cup {client[c].rc : c \in Clients}
               \cup {session[i].k1.rc : i \in {j \in Slots : session[j].k1 # None}}

\* setRmcpAuthentication and setRmcpSessionId.
Opened(c, sid) == [sid |-> sid, cid |-> ConsoleId[c], suite |-> Suite[c]]

\* RMCP_OPENSESSION_REQUEST.
OpenSession(c, sid, lost) ==
    /\ up /\ client[c].phase = "idle"
    /\ FreshIds => sid \notin SidsInUse
    /\ rmcp' = Opened(c, sid)
    /\ client' = IF lost THEN client
                 ELSE [client EXCEPT ![c] = [phase |-> "opened", sid |-> sid, rc |-> None]]
    /\ UNCHANGED <<session, up>>

\* Variant with a bug: the result -1 of a failed look-up of the user is kept.
ClaimedUnchecked(s, c, rc) ==
    [s EXCEPT !.ip = c, !.sid = rmcp.sid, !.cid = rmcp.cid, !.rc = rc,
              !.rolem = Priv[c], !.userPriv = 255]

\* setRmcpData and setRmcpLanData: handle and keys keep their values.
Claimed(s, c, rc) ==
    [s EXCEPT !.ip = c, !.sid = rmcp.sid, !.cid = rmcp.cid, !.rc = rc,
              !.rolem = Priv[c], !.userPriv = UserIndex[c]]

\* The console takes an answer if it is addressed to it, names its session and
\* carries a code made with its algorithm.
Addressed(c) == rmcp.cid = ConsoleId[c]
Rakp2Accepted(c) == Addressed(c) /\ rmcp.sid = client[c].sid /\ rmcp.suite = Suite[c]

\* RAKP1_RMCP_PLUS.
Rakp1(c, rc, lost) ==
    /\ up /\ client[c].phase = "opened"
    /\ FreshIds => rc \notin NoncesInUse
    /\ \E i \in First(RakpSlots(c)) : session' = [session EXCEPT ![i] = Claimed(@, c, rc)]
    /\ client' = IF lost \/ ~Rakp2Accepted(c) THEN client
                 ELSE [client EXCEPT ![c].phase = "keyed", ![c].rc = rc]
    /\ UNCHANGED <<rmcp, up>>

\* With every entry active index_session stays -1 and the code of RAKP 2 is
\* computed from memory before the table: no console can verify the answer, or
\* the process dies.
Rakp1NoSlot(c) ==
    /\ up /\ client[c].phase = "opened"
    /\ RakpSlots(c) = {}
    /\ up' \in BOOLEAN
    /\ UNCHANGED <<rmcp, session, client>>

\* setSessionActive and setSessionAesKey, before the code is compared.
Activated(s) == [s EXCEPT !.active = TRUE,
                          !.k1 = [rc |-> s.rc, rolem |-> s.rolem, suite |-> rmcp.suite]]

\* The code of RAKP 3 as the console computes it against the session's data.
Rakp3Verified(c, s) ==
    s.rc = client[c].rc /\ s.cid = ConsoleId[c] /\ s.rolem = Priv[c] /\ rmcp.suite = Suite[c]

\* RAKP3_RMCP_PLUS; no answer if the session is not found.
Rakp3(c, lost) ==
    /\ up /\ client[c].phase = "keyed"
    /\ \E i \in First(Found(c, rmcp.sid)) :
       /\ session' = [session EXCEPT ![i] = Activated(@)]
       /\ client' = IF ~lost /\ Rakp3Verified(c, session[i]) /\ Addressed(c)
                    THEN [client EXCEPT ![c].phase = "open"] ELSE client
    /\ UNCHANGED <<rmcp, up>>

-----------------------------------------------------------------------------
(* Using a session.                                                        *)

\* The keys the console derived.
ClientKey(c) == [rc |-> client[c].rc, rolem |-> Priv[c], suite |-> Suite[c]]

\* IPMI_RMCP_PLUS: the session is found and the integrity code agrees.
Served(c) ==
    /\ \E i \in First(Found(c, client[c].sid)) : session[i].k1 = ClientKey(c)
    /\ rmcp.suite = Suite[c]

\* app_set_session_priv and setSessionPriv: the active session with the
\* highest index is changed, whoever asked.
SetSessionPriv(c, priv) ==
    /\ up /\ client[c].phase = "open"
    /\ Served(c)
    /\ \E i \in Last(ActiveSlots) :
       /\ session[i].userPriv < priv
       /\ session' = [session EXCEPT ![i].rolem = priv]
    /\ UNCHANGED <<rmcp, client, up>>

\* Variant with a bug: the session is chosen as Set Session Privilege does.
CloseSlotHighest(sid) == IF ActiveSlots # {} THEN Last(ActiveSlots) ELSE {0}

\* app_close_session: the entry with the highest index that has the id, else
\* the first one.
CloseSlot(sid) ==
    LET found == {i \in Slots : session[i].sid = sid}
    IN  IF found # {} THEN Last(found) ELSE {0}

\* A console that misses the answer asks again.
CloseSession(c, lost) ==
    /\ up /\ client[c].phase \in {"open", "closing"}
    /\ Served(c)
    /\ \E i \in CloseSlot(client[c].sid) : session' = [session EXCEPT ![i].active = FALSE]
    /\ client' = [client EXCEPT ![c] = IF lost \/ ~Addressed(c)
                                       THEN [@ EXCEPT !.phase = "closing"] ELSE Idle]
    /\ UNCHANGED <<rmcp, up>>

\* The console gives up, ends, or loses the network; the server never knows.
Leave(c) ==
    /\ client[c].phase # "idle"
    /\ client' = [client EXCEPT ![c] = Idle]
    /\ UNCHANGED <<rmcp, session, up>>

-----------------------------------------------------------------------------

Init ==
    /\ rmcp = [sid |-> None, cid |-> None, suite |-> None]
    /\ session = [i \in Slots |-> NoSession]
    /\ client = [c \in Clients |-> Idle]
    /\ up = TRUE

Next ==
    \E c \in Clients :
        \/ \E sid \in Sids, lost \in BOOLEAN : OpenSession(c, sid, lost)
        \/ \E rc \in Nonces, lost \in BOOLEAN : Rakp1(c, rc, lost)
        \/ Rakp1NoSlot(c)
        \/ \E lost \in BOOLEAN : Rakp3(c, lost)
        \/ \E priv \in Privs : SetSessionPriv(c, priv)
        \/ \E lost \in BOOLEAN : CloseSession(c, lost)
        \/ Leave(c)

Spec == Init /\ [][Next]_vars

-----------------------------------------------------------------------------
(* Properties.                                                             *)

ConsoleIds == {ConsoleId[c] : c \in Clients} \cup {None}
Entry == [active : BOOLEAN, ip : Clients \cup {None}, sid : Sids \cup {None},
          cid : ConsoleIds, rc : Nonces \cup {None}, rolem : RoleIds \cup {0},
          userPriv : 0 .. 9, k1 : Keys \cup {None}]
ConsoleState == [phase : {"idle", "opened", "keyed", "open", "closing"},
                 sid : Sids \cup {None}, rc : Nonces \cup {None}]

\* Entries hold what the handshake puts there; a privilege or user number is
\* never the 255 a failed look-up leaves in an uint8_t.
TypeOK ==
    /\ rmcp \in [sid : Sids \cup {None}, cid : ConsoleIds, suite : SuiteIds \cup {None}]
    /\ session \in [Slots -> Entry]
    /\ client \in [Clients -> ConsoleState]
    /\ up \in BOOLEAN

\* No two entries of the table answer to the same address and session id, so
\* every lookup has one result, through repeated and interleaved handshakes.
OneEntryPerSession ==
    \A i, j \in Slots :
        (session[i].ip # None /\ Matches(j, session[i].ip, session[i].sid)) => i = j

\* A console that was told its session is open has an active entry with its
\* address, its id and the keys it derived, until it closes the session itself:
\* no handshake, close or privilege change of another console takes it away.
OpenSessionIsKept ==
    \A c \in Clients :
        client[c].phase = "open" =>
            \E i \in Slots : /\ session[i].active
                             /\ Matches(i, c, client[c].sid)
                             /\ session[i].k1 = ClientKey(c)

\* An entry in use is not handed to another console: RAKP message 1 takes free
\* entries, or the console's own.
ActiveEntryKeepsOwner ==
    [][\A i \in Slots : session[i].active => session'[i].ip = session[i].ip]_vars

=============================================================================
