--------------------------- MODULE RedfishSessions ---------------------------
(***************************************************************************)
(* Accounts and sessions of the Redfish server: POST and DELETE of both,   *)
(* requests that need a session's token, the timer every session runs      *)
(* (Session::start, one thread each), PATCH of SessionTimeout, and what a  *)
(* restart makes of the saved sessions.                                    *)
(*                                                                         *)
(* Handlers run on the threads of the HTTP listener and no lock guards     *)
(* sessions: a handler that has found a token valid looks the session up   *)
(* again, and the timer may have removed it in between.  The timer reads   *)
(* _remain_expires_time, compares it with 0, and decrements it later.      *)
(***************************************************************************)
EXTENDS RedfishNumbers, FiniteSets

CONSTANTS
    MaxLogins,   \* bound: logins; each gets a token of its own
    MaxAccounts, \* bound: accounts ever made
    MaxTimeout,  \* bound: session_timeout, in ticks
    MaxRemain,   \* the largest unsigned int
    MaxChanges,  \* bound: PATCHes of SessionTimeout, DELETEs of sessions
    MaxKills     \* bound: kills

ASSUME SessionsAssumption ==
    /\ MaxLogins \in Nat /\ MaxAccounts \in Nat \ {0}
    /\ MaxTimeout \in Nat /\ MaxRemain \in Nat /\ MaxTimeout < MaxRemain
    /\ MaxChanges \in Nat /\ MaxKills \in Nat

VARIABLES
    pc,        \* "up", "down", or "failed": a null or freed object was used
    accounts,  \* [number -> identity of the account's object] in memory and files
    made,      \* accounts made so far: the next identity
    numset,    \* numset of accounts and of sessions
    last,      \* numset_num: where the next allocation starts
    sessions,  \* [token -> session] in the collection
    saved,     \* [token -> number, account number] in the sessions' files
    timer,     \* [token -> "wait", "read" (> 0 was seen) or "over"]
    timeout,   \* session_timeout of the SessionService
    request,   \* the request between its check of a token and its use of it
    logins,    \* tokens given so far
    changes,   \* those requests so far
    kills,     \* kills so far
    owner,     \* history: identity of the account each token was given to
    out,       \* history: tokens a DELETE was answered for
    wrapped    \* history: tokens whose remaining time went below 0

vars == <<pc, accounts, made, numset, last, sessions, saved, timer, timeout, request,
          logins, changes, kills, owner, out, wrapped>>

Tokens == 1 .. MaxLogins
Kinds == {"account", "session"}

None == [op |-> "none", token |-> 0]

\* The account pointer of a session whose account is deleted.
Freed == 0

Without(f, x) == [y \in DOMAIN f \ {x} |-> f[y]]
With(f, x, v) == [y \in DOMAIN f \cup {x} |-> IF y = x THEN v ELSE f[y]]

-----------------------------------------------------------------------------
(* Accounts.                                                               *)

make_account ==
    /\ pc = "up" /\ made < MaxAccounts /\ Allocatable(numset.account, last.account)
    /\ LET n == Allocated(numset.account, last.account)
       IN /\ accounts' = With(accounts, n, made + 1)
          /\ numset' = [numset EXCEPT !.account = @ \cup {n}]
          /\ last' = [last EXCEPT !.account = n]
    /\ made' = made + 1
    /\ UNCHANGED <<pc, sessions, saved, timer, timeout, request, logins, changes, kills, owner, out, wrapped>>

\* The sessions of the account keep a pointer to the deleted object.
remove_account ==
    /\ pc = "up"
    /\ \E n \in DOMAIN accounts :
       /\ accounts' = Without(accounts, n)
       /\ numset' = [numset EXCEPT !.account = @ \ {n}]
       /\ sessions' = [t \in DOMAIN sessions |->
                          IF sessions[t].account = accounts[n]
                          THEN [sessions[t] EXCEPT !.account = Freed] ELSE sessions[t]]
    /\ UNCHANGED <<pc, made, last, saved, timer, timeout, request, logins, changes, kills, owner,
                   out, wrapped>>

-----------------------------------------------------------------------------
(* Sessions.                                                               *)

\* Variant with a bug: the file names the session's number as the account.
make_sessionWrongAccount ==
    /\ pc = "up" /\ logins < MaxLogins /\ Allocatable(numset.session, last.session)
    /\ \E a \in DOMAIN accounts :
       LET n == Allocated(numset.session, last.session)
           t == logins + 1
       IN /\ numset' = [numset EXCEPT !.session = @ \cup {n}]
          /\ last' = [last EXCEPT !.session = n]
          /\ sessions' = With(sessions, t, [num |-> n, account |-> accounts[a], remain |-> timeout])
          /\ saved' = With(saved, t, [num |-> n, account |-> n])
          /\ timer' = With(timer, t, "wait")
          /\ owner' = With(owner, t, accounts[a])
    /\ logins' = logins + 1
    /\ UNCHANGED <<pc, accounts, made, timeout, request, changes, kills, out, wrapped>>

make_session ==
    /\ pc = "up" /\ logins < MaxLogins /\ Allocatable(numset.session, last.session)
    /\ \E a \in DOMAIN accounts :
       LET n == Allocated(numset.session, last.session)
           t == logins + 1
       IN /\ numset' = [numset EXCEPT !.session = @ \cup {n}]
          /\ last' = [last EXCEPT !.session = n]
          /\ sessions' = With(sessions, t, [num |-> n, account |-> accounts[a], remain |-> timeout])
          /\ saved' = With(saved, t, [num |-> n, account |-> a])
          /\ timer' = With(timer, t, "wait")
          /\ owner' = With(owner, t, accounts[a])
    /\ logins' = logins + 1
    /\ UNCHANGED <<pc, accounts, made, timeout, request, changes, kills, out, wrapped>>

\* is_session_valid
is_session_valid(t) == t \in DOMAIN sessions /\ sessions[t].remain > 0

\* First half of remove_session, modify_account and modify_role.
CheckToken ==
    /\ pc = "up" /\ request = None
    /\ \E t \in Tokens, op \in {"remove_session", "modify"} :
       /\ is_session_valid(t)
       /\ op = "remove_session" => changes < MaxChanges
       /\ request' = [op |-> op, token |-> t]
    /\ UNCHANGED <<pc, accounts, made, numset, last, sessions, saved, timer, timeout, logins, changes,
                   kills, owner, out, wrapped>>

\* get_session_odata_id_by_token finds no uri when the session is gone:
\* g_record[""] is then a null pointer.
UseOfRemovedSession ==
    /\ request # None /\ request.token \notin DOMAIN sessions
    /\ pc' = "failed" /\ request' = None
    /\ UNCHANGED <<accounts, made, numset, last, sessions, saved, timer, timeout, logins, changes, kills,
                   owner, out, wrapped>>

\* Variant with a bug: the time that remains is halved instead of cleared.
remove_sessionHalved ==
    /\ pc = "up" /\ request.op = "remove_session" /\ request.token \in DOMAIN sessions
    /\ sessions' = [sessions EXCEPT ![request.token].remain = (@ + 1) \div 2]
    /\ out' = out \cup {request.token}
    /\ request' = None /\ changes' = changes + 1
    /\ UNCHANGED <<pc, accounts, made, numset, last, saved, timer, timeout, logins, kills, owner, wrapped>>

\* DELETE only clears the time that remains: the timer removes the session.
remove_session ==
    /\ pc = "up" /\ request.op = "remove_session" /\ request.token \in DOMAIN sessions
    /\ sessions' = [sessions EXCEPT ![request.token].remain = 0]
    /\ out' = out \cup {request.token}
    /\ request' = None /\ changes' = changes + 1
    /\ UNCHANGED <<pc, accounts, made, numset, last, saved, timer, timeout, logins, kills, owner, wrapped>>

\* session->account->role: after the account was deleted anything may be there.
UseOfAccount ==
    /\ pc = "up" /\ request.op = "modify"
    /\ request.token \in DOMAIN sessions
    /\ pc' \in IF sessions[request.token].account = Freed THEN {"up", "failed"} ELSE {"up"}
    /\ request' = None
    /\ UNCHANGED <<accounts, made, numset, last, sessions, saved, timer, timeout, logins, changes, kills,
                   owner, out, wrapped>>

\* patch_session_service: sessions with more time left are shortened too.
patch_session_service ==
    /\ pc = "up" /\ changes < MaxChanges /\ changes' = changes + 1
    /\ \E seconds \in 0 .. MaxTimeout :
       /\ timeout' = seconds
       /\ sessions' = [t \in DOMAIN sessions |-> [sessions[t] EXCEPT !.remain = Min({@, seconds})]]
    /\ UNCHANGED <<pc, accounts, made, numset, last, saved, timer, request, logins, kills, owner,
                   out, wrapped>>

-----------------------------------------------------------------------------
(* The timer of a session: one step a second.                              *)

\* Variant with a bug: a timer at 0 is set again.
timerReadAgain(t) ==
    /\ pc = "up" /\ t \in DOMAIN sessions /\ timer[t] = "wait"
    /\ timer' = [timer EXCEPT ![t] = IF sessions[t].remain > 0 THEN "read" ELSE "wait"]
    /\ UNCHANGED <<pc, accounts, made, numset, last, sessions, saved, timeout, request, logins, changes,
                   kills, owner, out, wrapped>>

timerRead(t) ==
    /\ pc = "up" /\ t \in DOMAIN sessions /\ timer[t] = "wait"
    /\ timer' = [timer EXCEPT ![t] = IF sessions[t].remain > 0 THEN "read" ELSE "over"]
    /\ UNCHANGED <<pc, accounts, made, numset, last, sessions, saved, timeout, request, logins, changes,
                   kills, owner, out, wrapped>>

timerDecrement(t) ==
    /\ pc = "up" /\ t \in DOMAIN sessions /\ timer[t] = "read"
    /\ sessions' = [sessions EXCEPT ![t].remain = (@ + MaxRemain) % (MaxRemain + 1)]
    /\ wrapped' = IF sessions[t].remain = 0 THEN wrapped \cup {t} ELSE wrapped
    /\ timer' = [timer EXCEPT ![t] = "wait"]
    /\ UNCHANGED <<pc, accounts, made, numset, last, saved, timeout, request, logins, changes, kills,
                   owner, out>>

\* The continuation of Session::start.
Expire(t) ==
    /\ pc = "up" /\ t \in DOMAIN sessions /\ timer[t] = "over"
    /\ numset' = [numset EXCEPT !.session = @ \ {sessions[t].num}]
    /\ sessions' = Without(sessions, t)
    /\ saved' = Without(saved, t)
    /\ timer' = Without(timer, t)
    /\ UNCHANGED <<pc, accounts, made, last, timeout, request, logins, changes, kills, owner, out, wrapped>>

-----------------------------------------------------------------------------
(* Kill and restart.                                                       *)

Kill ==
    /\ pc = "up" /\ kills < MaxKills
    /\ pc' = "down" /\ kills' = kills + 1
    /\ request' = None
    /\ sessions' = [t \in {} |-> 0] /\ timer' = [t \in {} |-> ""]
    /\ UNCHANGED <<accounts, made, numset, last, saved, timeout, logins, changes, owner, out, wrapped>>

\* Variant with a bug: the numbers of the saved sessions are not taken again.
RestartNumsetEmpty == [account |-> DOMAIN accounts, session |-> {}]

\* dependency_injection, ACCOUNT_TYPE and SESSION_TYPE: the numbers of the
\* records are taken, a session gets the account its file names and the whole
\* timeout.  The file of an account that is gone leaves a null record, which
\* synchronize_dir_list uses.
RestartNumset ==
    [account |-> DOMAIN accounts, session |-> {saved[t].num : t \in DOMAIN saved}]

Restart ==
    /\ pc = "down"
    /\ numset' = RestartNumset
    /\ last' = [k \in Kinds |-> FirstNumber(k)]
    /\ IF \E t \in DOMAIN saved : saved[t].account \notin DOMAIN accounts
       THEN pc' = "failed" /\ UNCHANGED <<sessions, timer>>
       ELSE /\ pc' = "up"
            /\ sessions' = [t \in DOMAIN saved |->
                               [num |-> saved[t].num, account |-> accounts[saved[t].account],
                                remain |-> timeout]]
            /\ timer' = [t \in DOMAIN saved |-> "wait"]
    /\ UNCHANGED <<accounts, made, saved, timeout, request, logins, changes, kills, owner, out, wrapped>>

\* init_account_service makes account 0, init_session_service no session.
Init ==
    /\ pc = "up"
    /\ accounts = [n \in {0} |-> 1] /\ made = 1
    /\ numset = [account |-> {0}, session |-> {}]
    /\ last = [k \in Kinds |-> FirstNumber(k)]
    /\ sessions = [t \in {} |-> 0] /\ saved = [t \in {} |-> 0] /\ timer = [t \in {} |-> ""]
    /\ timeout = MaxTimeout
    /\ request = None /\ logins = 0 /\ changes = 0 /\ kills = 0
    /\ owner = [t \in {} |-> 0] /\ out = {} /\ wrapped = {}

Next ==
    \/ make_account \/ remove_account \/ make_session
    \/ CheckToken \/ UseOfRemovedSession \/ remove_session \/ UseOfAccount
    \/ patch_session_service
    \/ \E t \in Tokens : timerRead(t) \/ timerDecrement(t) \/ Expire(t)
    \/ Kill \/ Restart

\* The timers of boost fire, and a stopped server is started again.
Fairness ==
    /\ \A t \in Tokens : WF_vars(timerRead(t) \/ timerDecrement(t) \/ Expire(t))
    /\ WF_vars(Restart)

Spec == Init /\ [][Next]_vars /\ Fairness

-----------------------------------------------------------------------------
(* Properties.                                                             *)

\* Between requests, through expiries and restarts, the numbers taken are
\* those of the accounts and sessions there are, and no two sessions share
\* one: the uri of a new record is never that of another.
NumbersAreTheRecords ==
    pc = "up" =>
        /\ numset.account = DOMAIN accounts
        /\ numset.session = {sessions[t].num : t \in DOMAIN sessions}
        /\ \A t, u \in DOMAIN sessions : sessions[t].num = sessions[u].num => t = u

\* A token a DELETE was answered for is valid again only if its timer took one
\* from 0, or a kill came before the timer removed the session.
LoggedOutStaysOut ==
    \A t \in out : is_session_valid(t) => t \in wrapped \/ kills > 0

\* The server fails only when a timer took the session away under a request,
\* or after the account of a session was removed.
FailsOnlyByOverlap ==
    pc = "failed" =>
        \/ \E t \in 1 .. logins : t \notin DOMAIN saved
        \/ \E t \in DOMAIN saved : owner[t] \notin {accounts[n] : n \in DOMAIN accounts}

\* A session belongs to the account it was opened for, through restarts, as
\* long as that account is there.
SessionKeepsItsAccount ==
    pc = "up" =>
        \A t \in DOMAIN sessions :
            owner[t] \in {accounts[n] : n \in DOMAIN accounts} => sessions[t].account = owner[t]

\* No session stays for ever, used or not, unless the server has failed.
SessionsEnd ==
    \A t \in Tokens : [](t \in DOMAIN saved => <>(t \notin DOMAIN saved \/ pc = "failed"))
=============================================================================
