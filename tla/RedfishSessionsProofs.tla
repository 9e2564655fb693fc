------------------------ MODULE RedfishSessionsProofs ------------------------
(***************************************************************************)
(* Proofs about RedfishSessions, for any number of accounts, logins, kills *)
(* and changes, and numbers of any range.  The inductive invariant says    *)
(* how the records, the sessions' files and the accounts' objects belong   *)
(* together; the four properties are proved with it, in one induction.     *)
(***************************************************************************)
EXTENDS RedfishSessions, WellFoundedInduction, TLAPS

-----------------------------------------------------------------------------
(* The inductive invariant.                                                *)

SessionRecords == [num : Numbers, account : Nat, remain : 0 .. MaxRemain]
SavedRecords   == [num : Numbers, account : Numbers]

\* What the variables hold; tokens are those of the logins so far.
TypeOK ==
    /\ pc \in {"up", "down", "failed"}
    /\ made \in Nat /\ logins \in Nat /\ kills \in Nat /\ timeout \in 0 .. MaxRemain
    /\ accounts \in [DOMAIN accounts -> 1 .. made] /\ DOMAIN accounts \subseteq Numbers
    /\ numset \in [account : SUBSET Numbers, session : SUBSET Numbers]
    /\ sessions \in [DOMAIN sessions -> SessionRecords] /\ DOMAIN sessions \subseteq 1 .. logins
    /\ saved \in [DOMAIN saved -> SavedRecords] /\ DOMAIN saved \subseteq 1 .. logins
    /\ owner \in [1 .. logins -> 1 .. made]
    /\ out \subseteq 1 .. logins

\* A request is under way in a running server only, and a server goes down only
\* by a kill.
Running ==
    /\ request # None => pc = "up" /\ request.token \in 1 .. logins
    /\ pc = "down" => kills > 0

\* Every session has its file, with its number, and no two files share one: a
\* restart finds the numbers as they were.
FilesAreSessions ==
    /\ pc = "up" => /\ DOMAIN saved = DOMAIN sessions
                    /\ \A t \in DOMAIN saved : saved[t].num = sessions[t].num
    /\ \A t, u \in DOMAIN saved : saved[t].num = saved[u].num => t = u

\* No two accounts are one object; the numbers of the accounts are taken also
\* while the server is down; and as long as the account of a session is there,
\* its number in the session's file is that account's and no other's.
FilesNameOwner ==
    /\ \A m, n \in DOMAIN accounts : accounts[m] = accounts[n] => m = n
    /\ \A t \in DOMAIN saved :
          owner[t] \in {accounts[n] : n \in DOMAIN accounts} =>
              saved[t].account \in DOMAIN accounts /\ accounts[saved[t].account] = owner[t]

IInv == TypeOK /\ Running /\ FilesAreSessions /\ FilesNameOwner
Promises == NumbersAreTheRecords /\ LoggedOutStaysOut /\ FailsOnlyByOverlap /\ SessionKeepsItsAccount

-----------------------------------------------------------------------------
(* The allocation of numbers and the tables.                               *)

\* A set of numbers that is not empty has a least one.
LEMMA MinProps ==
    ASSUME NEW S, S \subseteq Nat, S # {}
    PROVE  Min(S) \in S /\ \A y \in S : Min(S) <= y
<1> DEFINE Less == {p \in Nat \X Nat : p[1] < p[2]}
<1>1. IsWellFoundedOn(Less, Nat)
  BY NatLessThanWellFounded, Zenon DEF OpToRel
<1>2. PICK x \in S : \A y \in S : <<y, x>> \notin Less
  <2> HIDE DEF Less
  <2> QED
    BY <1>1, WFMin
<1>3. ASSUME NEW y \in S PROVE x <= y
  <2>1. x \in Nat /\ y \in Nat /\ <<y, x>> \notin Less
    BY <1>2
  <2>2. y < x => <<y, x>> \in Less
    <3>1. <<y, x>> \in Nat \X Nat /\ <<y, x>>[1] = y /\ <<y, x>>[2] = x
      BY <2>1
    <3> QED
      BY <3>1
  <2> HIDE DEF Less
  <2> QED
    BY <2>1, <2>2
<1> QED
  BY <1>3 DEF Min

\* allocate_numset_num gives a number that is not in use, if it returns.
LEMMA AllocatedIsFree ==
    ASSUME NEW used, NEW from, Allocatable(used, from)
    PROVE  Allocated(used, from) \in Numbers \ used
<1> DEFINE all   == Candidates(used, from)
           above == {n \in all : n >= from}
<1>1. all \subseteq Numbers \ used /\ Numbers \subseteq Nat /\ all # {} /\ above \subseteq all
  BY NumbersAssumption DEF NumbersAssumption, Candidates, Numbers, Allocatable
<1>2. Allocated(used, from) = IF above # {} THEN Min(above) ELSE Min(all)
  BY DEF Allocated
<1> HIDE DEF all, above
<1>3. above # {} => Min(above) \in above
  BY <1>1, MinProps
<1>4. Min(all) \in all
  BY <1>1, MinProps
<1> QED
  BY <1>1, <1>2, <1>3, <1>4

\* The time that remains after a PATCH of SessionTimeout: not more than before.
LEMMA MinOfTwo ==
    ASSUME NEW a \in Nat, NEW b \in Nat
    PROVE  Min({a, b}) = IF a <= b THEN a ELSE b
  BY MinProps, {a, b} \subseteq Nat, {a, b} # {}

\* The timer's decrement stays an unsigned int.
LEMMA DecrementTyping ==
    ASSUME NEW r \in 0 .. MaxRemain
    PROVE  (r + MaxRemain) % (MaxRemain + 1) \in 0 .. MaxRemain
  BY SessionsAssumption DEF SessionsAssumption

\* A change of the time that remains is a change of nothing else.
LEMMA RemainProps ==
    ASSUME NEW f, f \in [DOMAIN f -> SessionRecords], NEW t \in DOMAIN f, NEW r \in 0 .. MaxRemain,
           NEW g, g = [f EXCEPT ![t].remain = r]
    PROVE  /\ DOMAIN g = DOMAIN f /\ g \in [DOMAIN f -> SessionRecords]
           /\ \A u \in DOMAIN f : /\ g[u].num = f[u].num /\ g[u].account = f[u].account
                                  /\ g[u].remain = IF u = t THEN r ELSE f[u].remain
<1>1. f[t] \in SessionRecords
  OBVIOUS
<1> DEFINE v == [f[t] EXCEPT !.remain = r]
<1>2. v \in SessionRecords /\ v.num = f[t].num /\ v.account = f[t].account /\ v.remain = r
  BY <1>1 DEF SessionRecords
<1>3. g = [f EXCEPT ![t] = v]
  OBVIOUS
<1> HIDE DEF v
<1>4. DOMAIN g = DOMAIN f /\ g[t] = v /\ \A u \in DOMAIN f \ {t} : g[u] = f[u]
  BY <1>3
<1>5. g \in [DOMAIN f -> SessionRecords]
  BY <1>2, <1>3
<1> QED
  BY <1>2, <1>4, <1>5

-----------------------------------------------------------------------------
(* The steps.                                                              *)

Inv == IInv /\ Promises

\* Initially there is one account without a session, and nothing is under way.
LEMMA InitInv == Init => Inv
  BY SessionsAssumption, NumbersAssumption
     DEF SessionsAssumption, NumbersAssumption, Init, Inv, IInv, Promises, TypeOK, Running,
         FilesAreSessions, FilesNameOwner, NumbersAreTheRecords, LoggedOutStaysOut,
         FailsOnlyByOverlap, SessionKeepsItsAccount, is_session_valid, Numbers, None

\* An account gets a number no account has, and is a new object.
LEMMA MakeAccountStep == Inv /\ make_account => Inv'
<1> SUFFICES ASSUME Inv, make_account PROVE Inv'
  OBVIOUS
<1> USE DEF Inv, IInv, Promises
<1> DEFINE n == Allocated(numset.account, last.account)
<1>1. /\ accounts' = With(accounts, n, made + 1)
      /\ numset' = [numset EXCEPT !.account = @ \cup {n}]
      /\ made' = made + 1 /\ pc = "up"
      /\ UNCHANGED <<pc, sessions, saved, timer, timeout, request, logins, kills, owner, out, wrapped>>
  BY DEF make_account
<1>2. n \in Numbers \ numset.account
  BY AllocatedIsFree DEF make_account
<1> HIDE DEF n
<1>3. /\ DOMAIN accounts' = DOMAIN accounts \cup {n} /\ n \notin DOMAIN accounts
      /\ accounts'[n] = made + 1 /\ \A m \in DOMAIN accounts : accounts'[m] = accounts[m]
      /\ accounts' \in [DOMAIN accounts' -> 1 .. made']
  BY <1>1, <1>2 DEF With, NumbersAreTheRecords, TypeOK
<1>4. numset' = [account |-> numset.account \cup {n}, session |-> numset.session]
  BY <1>1 DEF TypeOK
<1>5. TypeOK'
  <2>1. owner \in [1 .. logins -> 1 .. made + 1] /\ made' \in Nat
    BY <1>1 DEF TypeOK
  <2> QED
    BY <1>1, <1>2, <1>3, <1>4, <2>1 DEF TypeOK
<1>6. \A t \in 1 .. logins :
         owner[t] \in {accounts'[m] : m \in DOMAIN accounts'} =>
             owner[t] \in {accounts[m] : m \in DOMAIN accounts}
  <2>1. \A t \in 1 .. logins : owner[t] # made + 1
    BY DEF TypeOK
  <2> QED
    BY <1>3, <2>1
<1>7. FilesNameOwner'
  <2>1. \A m \in DOMAIN accounts : accounts[m] # made + 1
    BY DEF TypeOK
  <2>2. \A k, m \in DOMAIN accounts' : accounts'[k] = accounts'[m] => k = m
    BY <1>3, <2>1 DEF FilesNameOwner
  <2>3. DOMAIN saved \subseteq 1 .. logins /\ saved' = saved /\ owner' = owner
    BY <1>1 DEF TypeOK
  <2> QED
    BY <1>3, <1>6, <2>2, <2>3 DEF FilesNameOwner
<1>8. NumbersAreTheRecords'
  <2>1. numset'.account = DOMAIN accounts' /\ numset'.session = numset.session
    BY <1>1, <1>3, <1>4 DEF NumbersAreTheRecords
  <2>2. sessions' = sessions /\ pc' = pc
    BY <1>1
  <2> QED
    BY <2>1, <2>2 DEF NumbersAreTheRecords
<1>9. SessionKeepsItsAccount'
  <2>1. DOMAIN sessions \subseteq 1 .. logins
    BY DEF TypeOK
  <2>2. sessions' = sessions /\ owner' = owner
    BY <1>1
  <2> QED
    BY <1>1, <1>6, <2>1, <2>2 DEF SessionKeepsItsAccount
<1> QED
  BY <1>1, <1>5, <1>7, <1>8, <1>9 DEF Running, FilesAreSessions, LoggedOutStaysOut, is_session_valid,
     FailsOnlyByOverlap

\* The sessions of a removed account lose its object, the other accounts' do not.
LEMMA RemoveAccountStep == Inv /\ remove_account => Inv'
<1> SUFFICES ASSUME Inv, remove_account PROVE Inv'
  OBVIOUS
<1> USE DEF Inv, IInv, Promises
<1>1. PICK n \in DOMAIN accounts :
         /\ accounts' = Without(accounts, n)
         /\ numset' = [numset EXCEPT !.account = @ \ {n}]
         /\ sessions' = [t \in DOMAIN sessions |->
                            IF sessions[t].account = accounts[n]
                            THEN [sessions[t] EXCEPT !.account = Freed] ELSE sessions[t]]
  BY DEF remove_account
<1>2. pc = "up" /\ UNCHANGED <<pc, made, saved, timer, timeout, request, logins, kills, owner, out, wrapped>>
  BY DEF remove_account
<1>3. /\ DOMAIN accounts' = DOMAIN accounts \ {n}
      /\ \A m \in DOMAIN accounts' : accounts'[m] = accounts[m]
      /\ accounts' \in [DOMAIN accounts' -> 1 .. made]
      /\ numset' = [account |-> numset.account \ {n}, session |-> numset.session]
  BY <1>1 DEF Without, TypeOK
<1>4. \A t \in DOMAIN sessions :
         /\ sessions'[t] \in SessionRecords
         /\ sessions'[t].num = sessions[t].num /\ sessions'[t].remain = sessions[t].remain
         /\ sessions'[t].account = IF sessions[t].account = accounts[n] THEN Freed ELSE sessions[t].account
  BY <1>1 DEF TypeOK, SessionRecords, Freed
<1>5. DOMAIN sessions' = DOMAIN sessions /\ sessions' \in [DOMAIN sessions -> SessionRecords]
  BY <1>1, <1>4
<1>6. TypeOK'
  BY <1>2, <1>3, <1>5 DEF TypeOK
<1>7. \A t \in DOMAIN saved :
         owner[t] \in {accounts'[m] : m \in DOMAIN accounts'} =>
             owner[t] \in {accounts[m] : m \in DOMAIN accounts} /\ owner[t] # accounts[n]
  BY <1>1, <1>3 DEF FilesNameOwner
<1>8. FilesNameOwner'
  BY <1>2, <1>3, <1>7 DEF FilesNameOwner
<1>9. SessionKeepsItsAccount'
  BY <1>2, <1>4, <1>5, <1>7 DEF SessionKeepsItsAccount, FilesAreSessions
<1>10. NumbersAreTheRecords' /\ LoggedOutStaysOut' /\ FilesAreSessions'
  BY <1>2, <1>3, <1>4, <1>5 DEF NumbersAreTheRecords, LoggedOutStaysOut, is_session_valid, FilesAreSessions
<1> QED
  BY <1>2, <1>6, <1>8, <1>9, <1>10 DEF Running, FailsOnlyByOverlap

\* A session gets a number no session has, and a token nobody had.
LEMMA MakeSessionStep == Inv /\ make_session => Inv'
<1> SUFFICES ASSUME Inv, make_session PROVE Inv'
  OBVIOUS
<1> USE DEF Inv, IInv, Promises
<1> DEFINE n == Allocated(numset.session, last.session)
           t == logins + 1
<1>1. PICK a \in DOMAIN accounts :
         /\ numset' = [numset EXCEPT !.session = @ \cup {n}]
         /\ sessions' = With(sessions, t, [num |-> n, account |-> accounts[a], remain |-> timeout])
         /\ saved' = With(saved, t, [num |-> n, account |-> a])
         /\ owner' = With(owner, t, accounts[a])
  BY DEF make_session
<1>2. /\ pc = "up" /\ logins' = t
      /\ UNCHANGED <<pc, accounts, made, timeout, request, kills, out, wrapped>>
  BY DEF make_session
<1>3. n \in Numbers \ numset.session
  BY AllocatedIsFree DEF make_session
<1>4. /\ t \in Nat /\ t \notin 1 .. logins /\ 1 .. t = (1 .. logins) \cup {t}
      /\ DOMAIN saved \subseteq 1 .. logins /\ DOMAIN sessions \subseteq 1 .. logins
      /\ DOMAIN owner = 1 .. logins
  BY DEF TypeOK
<1> HIDE DEF n, t
<1>5. /\ DOMAIN sessions' = DOMAIN sessions \cup {t} /\ t \notin DOMAIN sessions
      /\ sessions'[t] = [num |-> n, account |-> accounts[a], remain |-> timeout]
      /\ \A u \in DOMAIN sessions : sessions'[u] = sessions[u]
      /\ DOMAIN saved' = DOMAIN saved \cup {t} /\ t \notin DOMAIN saved
      /\ saved'[t] = [num |-> n, account |-> a]
      /\ \A u \in DOMAIN saved : saved'[u] = saved[u]
      /\ DOMAIN owner' = 1 .. t /\ owner'[t] = accounts[a]
      /\ \A u \in 1 .. logins : owner'[u] = owner[u]
  BY <1>1, <1>4 DEF With
<1>6. numset' = [account |-> numset.account, session |-> numset.session \cup {n}]
  BY <1>1 DEF TypeOK
<1>7. TypeOK'
  <2>1. sessions'[t] \in SessionRecords /\ saved'[t] \in SavedRecords /\ owner'[t] \in 1 .. made
    BY <1>3, <1>5 DEF TypeOK, SessionRecords, SavedRecords
  <2>2. /\ sessions' \in [DOMAIN sessions' -> SessionRecords]
        /\ saved' \in [DOMAIN saved' -> SavedRecords]
        /\ owner' \in [1 .. t -> 1 .. made]
    BY <1>1, <1>4, <1>5, <2>1 DEF TypeOK, With
  <2> QED
    BY <1>2, <1>3, <1>4, <1>5, <1>6, <2>2 DEF TypeOK
<1>8. NumbersAreTheRecords'
  BY <1>2, <1>3, <1>5, <1>6 DEF NumbersAreTheRecords
<1>9. FilesAreSessions'
  BY <1>2, <1>3, <1>5 DEF FilesAreSessions, NumbersAreTheRecords
<1>10. FilesNameOwner'
  BY <1>1, <1>2, <1>4, <1>5 DEF FilesNameOwner
<1>11. SessionKeepsItsAccount'
  <2>1. sessions'[t].account = owner'[t]
    BY <1>5
  <2>2. accounts' = accounts /\ pc = "up"
    BY <1>2
  <2>3. ASSUME NEW u \in DOMAIN sessions, owner'[u] \in {accounts[m] : m \in DOMAIN accounts}
        PROVE  sessions'[u].account = owner'[u]
    <3>1. sessions'[u] = sessions[u] /\ owner'[u] = owner[u]
      BY <1>4, <1>5
    <3> QED
      BY <2>2, <2>3, <3>1 DEF SessionKeepsItsAccount
  <2> QED
    BY <1>5, <2>1, <2>2, <2>3 DEF SessionKeepsItsAccount
<1>12. LoggedOutStaysOut'
  BY <1>2, <1>4, <1>5 DEF LoggedOutStaysOut, is_session_valid, TypeOK
<1>13. Running'
  BY <1>2, <1>4 DEF Running
<1> QED
  BY <1>2, <1>7, <1>8, <1>9, <1>10, <1>11, <1>12, <1>13 DEF FailsOnlyByOverlap

\* A request is accepted with the token of a session there is.
LEMMA CheckTokenStep == Inv /\ CheckToken => Inv'
<1> SUFFICES ASSUME Inv, CheckToken PROVE Inv'
  OBVIOUS
<1> USE DEF Inv, IInv, Promises
<1>1. PICK t \in DOMAIN sessions, op \in {"remove_session", "modify"} : request' = [op |-> op, token |-> t]
  BY DEF CheckToken, is_session_valid
<1>2. request'.token \in 1 .. logins
  BY <1>1 DEF TypeOK
<1>3. /\ pc = "up"
      /\ UNCHANGED <<pc, accounts, made, numset, last, sessions, saved, timer, timeout, logins, changes,
                     kills, owner, out, wrapped>>
  BY DEF CheckToken
<1> QED
  BY <1>2, <1>3, SMTT(30) DEF TypeOK, Running, FilesAreSessions, FilesNameOwner, NumbersAreTheRecords,
     LoggedOutStaysOut, is_session_valid, FailsOnlyByOverlap, SessionKeepsItsAccount

\* The failure of a request whose session its timer removed: there is a login
\* without a file.
LEMMA UseOfRemovedSessionStep == Inv /\ UseOfRemovedSession => Inv'
<1> SUFFICES ASSUME Inv, UseOfRemovedSession PROVE Inv'
  OBVIOUS
<1> USE DEF Inv, IInv, Promises
<1>1. /\ request.token \in 1 .. logins /\ request.token \notin DOMAIN saved
      /\ pc' = "failed" /\ request' = None
      /\ UNCHANGED <<accounts, made, numset, last, sessions, saved, timer, timeout, logins, changes,
                     kills, owner, out, wrapped>>
  BY DEF UseOfRemovedSession, Running, FilesAreSessions
<1> QED
  BY <1>1 DEF TypeOK, Running, FilesAreSessions, FilesNameOwner, NumbersAreTheRecords,
     LoggedOutStaysOut, is_session_valid, FailsOnlyByOverlap, SessionKeepsItsAccount

\* A DELETE leaves the session with no time.
LEMMA RemoveSessionStep == Inv /\ remove_session => Inv'
<1> SUFFICES ASSUME Inv, remove_session PROVE Inv'
  OBVIOUS
<1> USE DEF Inv, IInv, Promises
<1> DEFINE t == request.token
<1>1. /\ pc = "up" /\ t \in DOMAIN sessions /\ request' = None
      /\ sessions' = [sessions EXCEPT ![t].remain = 0]
      /\ out' = out \cup {t}
      /\ UNCHANGED <<pc, accounts, made, numset, last, saved, timer, timeout, logins, kills, owner, wrapped>>
  BY DEF remove_session
<1> HIDE DEF t
<1>2. /\ DOMAIN sessions' = DOMAIN sessions
      /\ sessions' \in [DOMAIN sessions -> SessionRecords]
      /\ \A u \in DOMAIN sessions : /\ sessions'[u].num = sessions[u].num
                                    /\ sessions'[u].account = sessions[u].account
                                    /\ sessions'[u].remain = IF u = t THEN 0 ELSE sessions[u].remain
  <2>1. 0 \in 0 .. MaxRemain /\ sessions \in [DOMAIN sessions -> SessionRecords]
    BY SessionsAssumption DEF SessionsAssumption, TypeOK
  <2> QED
    BY <1>1, <2>1, RemainProps
<1>3. TypeOK'
  BY <1>1, <1>2 DEF TypeOK
<1>4. LoggedOutStaysOut'
  BY <1>1, <1>2 DEF LoggedOutStaysOut, is_session_valid
<1>5. NumbersAreTheRecords' /\ FilesAreSessions' /\ SessionKeepsItsAccount'
  BY <1>1, <1>2 DEF NumbersAreTheRecords, FilesAreSessions, SessionKeepsItsAccount
<1> QED
  BY <1>1, <1>3, <1>4, <1>5 DEF Running, FilesNameOwner, FailsOnlyByOverlap

\* The failure of a request that used a deleted account: a session's account is
\* gone.
LEMMA UseOfAccountStep == Inv /\ UseOfAccount => Inv'
<1> SUFFICES ASSUME Inv, UseOfAccount PROVE Inv'
  OBVIOUS
<1> USE DEF Inv, IInv, Promises
<1> DEFINE t == request.token
<1>1. /\ pc = "up" /\ t \in DOMAIN sessions /\ request' = None
      /\ pc' \in {"up", "failed"}
      /\ pc' = "failed" => sessions[t].account = Freed
      /\ UNCHANGED <<accounts, made, numset, last, sessions, saved, timer, timeout, logins, changes, kills,
                     owner, out, wrapped>>
  BY DEF UseOfAccount
<1> HIDE DEF t
<1>2. pc' = "failed" => t \in DOMAIN saved /\ owner[t] \notin {accounts[n] : n \in DOMAIN accounts}
  BY <1>1, SMTT(30) DEF SessionKeepsItsAccount, FilesAreSessions, TypeOK, Freed
<1>3. FailsOnlyByOverlap'
  BY <1>1, <1>2 DEF FailsOnlyByOverlap
<1> QED
  BY <1>1, <1>3 DEF TypeOK, Running, FilesAreSessions, FilesNameOwner, NumbersAreTheRecords,
     LoggedOutStaysOut, is_session_valid, SessionKeepsItsAccount

\* A PATCH of SessionTimeout gives no session more time.
LEMMA PatchStep == Inv /\ patch_session_service => Inv'
<1> SUFFICES ASSUME Inv, patch_session_service PROVE Inv'
  OBVIOUS
<1> USE DEF Inv, IInv, Promises
<1>1. PICK seconds \in 0 .. MaxTimeout :
         /\ timeout' = seconds
         /\ sessions' = [t \in DOMAIN sessions |-> [sessions[t] EXCEPT !.remain = Min({@, seconds})]]
  BY DEF patch_session_service
<1>2. /\ pc = "up"
      /\ UNCHANGED <<pc, accounts, made, numset, last, saved, timer, request, logins, kills, owner,
                     out, wrapped>>
  BY DEF patch_session_service
<1>3. seconds \in 0 .. MaxRemain
  BY SessionsAssumption DEF SessionsAssumption
<1>4. ASSUME NEW t \in DOMAIN sessions
      PROVE  /\ sessions'[t] \in SessionRecords
             /\ sessions'[t].num = sessions[t].num /\ sessions'[t].account = sessions[t].account
             /\ sessions'[t].remain <= sessions[t].remain
  <2>1. sessions[t] \in SessionRecords
    BY DEF TypeOK
  <2> DEFINE r == sessions[t].remain
             m == Min({r, seconds})
  <2>2. r \in 0 .. MaxRemain
    BY <2>1 DEF SessionRecords
  <2>3. m = IF r <= seconds THEN r ELSE seconds
    BY <1>3, <2>2, MinOfTwo
  <2>4. m \in 0 .. MaxRemain /\ m <= r
    BY <1>3, <2>2, <2>3, SessionsAssumption DEF SessionsAssumption
  <2>5. sessions'[t] = [sessions[t] EXCEPT !.remain = m]
    BY <1>1
  <2> HIDE DEF m
  <2> QED
    BY <2>1, <2>4, <2>5 DEF SessionRecords
<1>5. DOMAIN sessions' = DOMAIN sessions /\ sessions' \in [DOMAIN sessions -> SessionRecords]
  BY <1>1, <1>4
<1>6. TypeOK'
  BY <1>1, <1>2, <1>3, <1>5 DEF TypeOK
<1>7. LoggedOutStaysOut'
  <2>1. \A t \in DOMAIN sessions : sessions[t].remain \in Nat /\ sessions'[t].remain \in Nat
    BY <1>4 DEF TypeOK, SessionRecords
  <2> QED
    BY <1>2, <1>4, <1>5, <2>1 DEF LoggedOutStaysOut, is_session_valid
<1>8. NumbersAreTheRecords' /\ FilesAreSessions' /\ SessionKeepsItsAccount'
  BY <1>2, <1>4, <1>5 DEF NumbersAreTheRecords, FilesAreSessions, SessionKeepsItsAccount
<1> QED
  BY <1>2, <1>6, <1>7, <1>8 DEF Running, FilesNameOwner, FailsOnlyByOverlap

\* The timer's test changes nothing else.
LEMMA TimerReadStep == ASSUME NEW t \in Tokens PROVE Inv /\ timerRead(t) => Inv'
  BY DEF Inv, IInv, Promises, timerRead, TypeOK, Running, FilesAreSessions, FilesNameOwner,
     NumbersAreTheRecords, LoggedOutStaysOut, is_session_valid, FailsOnlyByOverlap, SessionKeepsItsAccount

\* A decrement gives a session more time only if it takes one from 0.
LEMMA TimerDecrementStep == ASSUME NEW t \in Tokens PROVE Inv /\ timerDecrement(t) => Inv'
<1> SUFFICES ASSUME Inv, timerDecrement(t) PROVE Inv'
  OBVIOUS
<1> USE DEF Inv, IInv, Promises
<1>1. /\ pc = "up" /\ t \in DOMAIN sessions
      /\ sessions' = [sessions EXCEPT ![t].remain = (@ + MaxRemain) % (MaxRemain + 1)]
      /\ wrapped' = IF sessions[t].remain = 0 THEN wrapped \cup {t} ELSE wrapped
      /\ UNCHANGED <<pc, accounts, made, numset, last, saved, timeout, request, logins, changes, kills,
                     owner, out>>
  BY DEF timerDecrement
<1>2. sessions[t] \in SessionRecords /\ sessions[t].remain \in 0 .. MaxRemain
  BY <1>1 DEF TypeOK, SessionRecords
<1> DEFINE r == (sessions[t].remain + MaxRemain) % (MaxRemain + 1)
<1>3. r \in 0 .. MaxRemain
  BY <1>2, DecrementTyping
<1>4. sessions' = [sessions EXCEPT ![t].remain = r]
  BY <1>1
<1> HIDE DEF r
<1>5. /\ DOMAIN sessions' = DOMAIN sessions
      /\ sessions' \in [DOMAIN sessions -> SessionRecords]
      /\ \A u \in DOMAIN sessions : /\ sessions'[u].num = sessions[u].num
                                    /\ sessions'[u].account = sessions[u].account
                                    /\ u # t => sessions'[u].remain = sessions[u].remain
  BY <1>1, <1>3, <1>4, RemainProps, SMTT(30) DEF TypeOK
<1>6. TypeOK'
  BY <1>1, <1>5 DEF TypeOK
<1>7. LoggedOutStaysOut'
  <2>1. sessions[t].remain = 0 \/ is_session_valid(t)
    BY <1>1, <1>2 DEF is_session_valid
  <2> QED
    BY <1>1, <1>5, <2>1 DEF LoggedOutStaysOut, is_session_valid
<1>8. NumbersAreTheRecords' /\ FilesAreSessions' /\ SessionKeepsItsAccount'
  BY <1>1, <1>5 DEF NumbersAreTheRecords, FilesAreSessions, SessionKeepsItsAccount
<1> QED
  BY <1>1, <1>6, <1>7, <1>8 DEF Running, FilesNameOwner, FailsOnlyByOverlap

\* A session that ends takes its number and its file with it.
LEMMA ExpireStep == ASSUME NEW t \in Tokens PROVE Inv /\ Expire(t) => Inv'
<1> SUFFICES ASSUME Inv, Expire(t) PROVE Inv'
  OBVIOUS
<1> USE DEF Inv, IInv, Promises
<1>1. /\ pc = "up" /\ t \in DOMAIN sessions
      /\ numset' = [numset EXCEPT !.session = @ \ {sessions[t].num}]
      /\ sessions' = Without(sessions, t)
      /\ saved' = Without(saved, t)
      /\ UNCHANGED <<pc, accounts, made, last, timeout, request, logins, changes, kills, owner, out, wrapped>>
  BY DEF Expire
<1>2. /\ DOMAIN sessions' = DOMAIN sessions \ {t}
      /\ \A u \in DOMAIN sessions' : sessions'[u] = sessions[u]
      /\ sessions' \in [DOMAIN sessions' -> SessionRecords]
      /\ DOMAIN saved' = DOMAIN saved \ {t}
      /\ \A u \in DOMAIN saved' : saved'[u] = saved[u]
      /\ saved' \in [DOMAIN saved' -> SavedRecords]
  BY <1>1 DEF Without, TypeOK
<1>3. numset' = [account |-> numset.account, session |-> numset.session \ {sessions[t].num}]
  BY <1>1 DEF TypeOK
<1>4. TypeOK'
  BY <1>1, <1>2, <1>3 DEF TypeOK
<1>5. NumbersAreTheRecords'
  BY <1>1, <1>2, <1>3 DEF NumbersAreTheRecords
<1>6. FilesAreSessions' /\ FilesNameOwner' /\ SessionKeepsItsAccount'
  BY <1>1, <1>2 DEF FilesAreSessions, FilesNameOwner, SessionKeepsItsAccount
<1>7. LoggedOutStaysOut'
  BY <1>1, <1>2 DEF LoggedOutStaysOut, is_session_valid
<1> QED
  BY <1>1, <1>4, <1>5, <1>6, <1>7 DEF Running, FailsOnlyByOverlap

\* A kill leaves the files and the accounts.
LEMMA KillStep == Inv /\ Kill => Inv'
<1> SUFFICES ASSUME Inv, Kill PROVE Inv'
  OBVIOUS
<1> USE DEF Inv, IInv, Promises
<1>1. /\ pc' = "down" /\ kills' = kills + 1 /\ request' = None
      /\ sessions' = [t \in {} |-> 0]
      /\ UNCHANGED <<accounts, made, numset, last, saved, timeout, logins, changes, owner, out, wrapped>>
  BY DEF Kill
<1>2. DOMAIN sessions' = {} /\ sessions' \in [DOMAIN sessions' -> SessionRecords]
  BY <1>1
<1> QED
  BY <1>1, <1>2 DEF TypeOK, Running, FilesAreSessions, FilesNameOwner, NumbersAreTheRecords,
     LoggedOutStaysOut, is_session_valid, FailsOnlyByOverlap, SessionKeepsItsAccount

\* A restart makes of the files the sessions there were, or fails over a file
\* whose account is gone.
LEMMA RestartStep == Inv /\ Restart => Inv'
<1> SUFFICES ASSUME Inv, Restart PROVE Inv'
  OBVIOUS
<1> USE DEF Inv, IInv, Promises
<1>1. /\ numset' = [account |-> DOMAIN accounts, session |-> {saved[t].num : t \in DOMAIN saved}]
      /\ kills > 0
      /\ UNCHANGED <<accounts, made, saved, timeout, request, logins, changes, kills, owner, out, wrapped>>
      /\ request = None
  BY DEF Restart, RestartNumset, Running
<1>2. numset' \in [account : SUBSET Numbers, session : SUBSET Numbers]
  BY <1>1 DEF TypeOK, SavedRecords
<1>3. LoggedOutStaysOut'
  BY <1>1 DEF LoggedOutStaysOut
<1>4. CASE \E t \in DOMAIN saved : saved[t].account \notin DOMAIN accounts
  <2>1. pc' = "failed" /\ sessions' = sessions
    BY <1>4 DEF Restart
  <2>2. FailsOnlyByOverlap'
    BY <1>1, <1>4, <2>1 DEF FailsOnlyByOverlap, FilesNameOwner
  <2>3. TypeOK'
    BY <1>1, <1>2, <2>1 DEF TypeOK
  <2> QED
    BY <1>1, <1>3, <2>1, <2>2, <2>3 DEF Running, FilesAreSessions, FilesNameOwner,
       NumbersAreTheRecords, SessionKeepsItsAccount
<1>5. CASE \A t \in DOMAIN saved : saved[t].account \in DOMAIN accounts
  <2>1. /\ pc' = "up"
        /\ sessions' = [t \in DOMAIN saved |->
                           [num |-> saved[t].num, account |-> accounts[saved[t].account],
                            remain |-> timeout]]
    BY <1>5 DEF Restart
  <2>2. /\ DOMAIN sessions' = DOMAIN saved
        /\ \A t \in DOMAIN saved : /\ sessions'[t].num = saved[t].num
                                   /\ sessions'[t].account = accounts[saved[t].account]
        /\ sessions' \in [DOMAIN saved -> SessionRecords]
    BY <1>5, <2>1 DEF TypeOK, SavedRecords, SessionRecords
  <2>3. TypeOK'
    BY <1>1, <1>2, <2>1, <2>2 DEF TypeOK
  <2>4. NumbersAreTheRecords' /\ FilesAreSessions'
    BY <1>1, <2>1, <2>2 DEF NumbersAreTheRecords, FilesAreSessions
  <2>5. FilesNameOwner' /\ SessionKeepsItsAccount'
    BY <1>1, <2>1, <2>2 DEF FilesNameOwner, SessionKeepsItsAccount
  <2> QED
    BY <1>1, <1>3, <2>1, <2>3, <2>4, <2>5 DEF Running, FailsOnlyByOverlap
<1> QED
  BY <1>4, <1>5

\* Every step keeps the invariant: the lemmas above, one per action.
LEMMA StepsKeepInv == Inv /\ [Next]_vars => Inv'
<1>1. Inv /\ UNCHANGED vars => Inv'
  BY DEF vars, Inv, IInv, Promises, TypeOK, Running, FilesAreSessions, FilesNameOwner,
     NumbersAreTheRecords, LoggedOutStaysOut, is_session_valid, FailsOnlyByOverlap, SessionKeepsItsAccount
<1> QED
  BY <1>1, MakeAccountStep, RemoveAccountStep, MakeSessionStep, CheckTokenStep,
     UseOfRemovedSessionStep, RemoveSessionStep, UseOfAccountStep, PatchStep, TimerReadStep,
     TimerDecrementStep, ExpireStep, KillStep, RestartStep DEF Next

\* The invariant and the four properties hold in every reachable state.
THEOREM Invariance == Spec => []Inv
  BY InitInv, StepsKeepInv, PTL DEF Spec

\* The uri of a new record is never that of another, through expiries and
\* restarts.
THEOREM NumbersAreRecords == Spec => []NumbersAreTheRecords
<1>1. Inv => NumbersAreTheRecords
  BY DEF Inv, Promises
<1> QED
  BY <1>1, Invariance, PTL

\* A token a DELETE was answered for stays invalid, but for the two known ways.
THEOREM LoggedOutTokensStayOut == Spec => []LoggedOutStaysOut
<1>1. Inv => LoggedOutStaysOut
  BY DEF Inv, Promises
<1> QED
  BY <1>1, Invariance, PTL

\* The server fails in no other way than the two overlaps.
THEOREM OnlyOverlapsFail == Spec => []FailsOnlyByOverlap
<1>1. Inv => FailsOnlyByOverlap
  BY DEF Inv, Promises
<1> QED
  BY <1>1, Invariance, PTL

\* A session never becomes another account's, although numbers are used again.
THEOREM SessionsKeepTheirAccounts == Spec => []SessionKeepsItsAccount
<1>1. Inv => SessionKeepsItsAccount
  BY DEF Inv, Promises
<1> QED
  BY <1>1, Invariance, PTL
=============================================================================
