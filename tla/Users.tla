--------------------------------- MODULE Users ---------------------------------
(***************************************************************************)
(* The user table of KETI-Edge, ipmiUser, and the Account records of the   *)
(* Redfish server: the users page, Set User Name, Password and Access of   *)
(* IPMI, POST and PATCH of accounts, and what a restart makes of them.     *)
(*                                                                         *)
(* Slot i of the table belongs to account i.  Every change of the table    *)
(* ends with plat_user_save, once or several times: a loop over the slots  *)
(* before the first empty name copies each to its account and saves it.    *)
(* Commands run in three threads and no lock guards table and accounts.    *)
(* A restart fills the slots of root and admin with defaults, and then the *)
(* Redfish thread all slots that have accounts.  (Removed accounts, torn   *)
(* files and starts that fail are in RedfishStore and RedfishSessions.)    *)
(***************************************************************************)
EXTENDS ServiceBounds, FiniteSetsExt

VARIABLES
    pc,       \* "boot" until the Redfish server has its records, "up", "down"
    users,    \* ipmiUser: name and password (for all that is saved) of the slots
    accounts, \* [number -> account] in memory
    files,    \* [number -> account] in the files
    saver,    \* [thread -> slot and passes of the plat_user_save it runs]
    patch,    \* modify_account under way
    ops,      \* changes but deletions so far: the value they write
    loose     \* history: slots that differ from their account until saved

vars == <<pc, users, accounts, files, saver, patch, ops, loose>>

Slots   == 0 .. MaxUser - 1
Writers == {"rest", "ipmi", "redfish"}

\* 0 is the empty string, Default the name and password of root and of admin.
Default == MaxUserOps + 1
NoUser  == [name |-> 0, password |-> 0]
Builtin == [name |-> Default, password |-> Default]

NoPatch == [account |-> 0, slot |-> 0, password |-> 0, stage |-> "none"]
Resting == [next |-> 0, passes |-> 0]

\* get_user_cnt: slot 0 always counts.
UserCnt == Min({i \in Slots \ {0} : users[i].name = 0} \cup {MaxUser})

Free(t) == saver[t] = Resting

-----------------------------------------------------------------------------
(* plat_user_save.                                                         *)

\* Variant with a bug: the last user is left out.
CoveredButLast(i) == i < UserCnt - 1

\* The condition of its loop, which counts the users again every time.
Covered(i) == i < UserCnt

Saves(t, passes) == [saver EXCEPT ![t] = [next |-> 0, passes |-> passes]]

SaveSlot(t) ==
    LET i == saver[t].next
    IN /\ ~Free(t) /\ i < MaxUser /\ Covered(i)
       /\ IF i \in DOMAIN accounts
          THEN /\ accounts' = [accounts EXCEPT ![i] = users[i]]
               /\ files' = [files EXCEPT ![i] = users[i]]
          ELSE UNCHANGED <<accounts, files>>
       /\ saver' = [saver EXCEPT ![t].next = i + 1]
       /\ loose' = loose \ {i}
       /\ UNCHANGED <<pc, users, patch, ops>>

SaveEnds(t) ==
    /\ ~Free(t)
    /\ saver[t].next = MaxUser \/ ~Covered(saver[t].next)
    /\ saver' = [saver EXCEPT ![t] = IF @.passes = 1 THEN Resting ELSE [next |-> 0, passes |-> @.passes - 1]]
    /\ UNCHANGED <<pc, users, accounts, files, patch, ops, loose>>

-----------------------------------------------------------------------------
(* The table.                                                              *)

Change(t) ==
    /\ pc # "down" /\ Free(t) /\ (t = "redfish" => patch = NoPatch)
    /\ ops < MaxUserOps /\ ops' = ops + 1

\* setUserName, setUserPasswd, setUserAccess save once; the commands of the page
\* save once or twice more: app_set_user_... and the case of ipmi_handle_rest.
\* IPMI refuses a name that is taken.  (enable is neither saved nor read here.)
SetUser(t) ==
    /\ Change(t)
    /\ \E i \in Slots, field \in {"name", "password"} :
          users' = [users EXCEPT ![i][field] = ops + 1]
    /\ saver' = Saves(t, IF t = "ipmi" THEN 1 ELSE 2)
    /\ UNCHANGED <<pc, accounts, files, patch, loose>>

RestSetUser == SetUser("rest")
IpmiSetUser == SetUser("ipmi")

\* app_del_user: users behind the deleted one move up.  With a full table it
\* reads a slot behind the last one, which may end the process.
app_del_user ==
    /\ pc # "down" /\ Free("rest")
    /\ \E i \in Slots :
       LET n == UserCnt
       IN \/ /\ users' = CASE i < 2     -> users
                           [] i < n - 1 -> [j \in Slots |-> IF j < i THEN users[j]
                                                            ELSE IF j < n - 1 THEN users[j + 1]
                                                            ELSE IF j = n - 1 THEN NoUser ELSE users[j]]
                           [] OTHER     -> [users EXCEPT ![i] = NoUser]
             /\ saver' = Saves("rest", 2) /\ pc' = pc
          \/ /\ i \in 2 .. n - 2 /\ n = MaxUser
             /\ pc' = "down" /\ users' = users /\ saver' = [t \in Writers |-> Resting]
    /\ patch' = IF pc' = "down" THEN NoPatch ELSE patch
    /\ UNCHANGED <<accounts, files, ops, loose>>

\* rest_make_user_json lists the users after user_loading, which puts root and
\* admin back in the table and saves nothing.
rest_make_user_json ==
    /\ pc # "down" /\ Free("rest")
    /\ users' = [users EXCEPT ![0] = Builtin, ![1] = Builtin]
    /\ loose' = loose \cup {i \in Slots : i < 2 \/ i >= UserCnt}
    /\ UNCHANGED <<pc, accounts, files, saver, patch, ops>>

-----------------------------------------------------------------------------
(* Accounts.                                                               *)

\* make_account: the slot of its number keeps what it has.
make_account ==
    /\ pc = "up" /\ Change("redfish")
    /\ LET number == Cardinality(DOMAIN accounts)
           account == [name |-> ops + 1, password |-> ops + 1]
           With(f) == [n \in DOMAIN f \cup {number} |-> IF n = number THEN account ELSE f[n]]
       IN /\ number \in Slots
          /\ accounts' = With(accounts) /\ files' = With(files)
          /\ loose' = loose \cup {number}
    /\ UNCHANGED <<pc, users, saver, patch>>

\* modify_account takes the slot whose name is the one of the session's account,
\* or the last it looked at.
SlotOf(session) ==
    LET found == {i \in Slots : i < UserCnt /\ users[i].name = accounts[session].name}
    IN IF found # {} THEN Min(found) ELSE UserCnt - 1

\* The name is given to the account and to that slot, and the table saved.
ModifyName ==
    /\ pc = "up" /\ Change("redfish")
    /\ \E session, a \in DOMAIN accounts, password \in {0, ops + 1} :
          /\ session \in {0, 1, a}
          /\ accounts' = [accounts EXCEPT ![a].name = ops + 1]
          /\ users' = [users EXCEPT ![SlotOf(session)].name = ops + 1]
          /\ patch' = [account |-> a, slot |-> SlotOf(session), password |-> password, stage |-> "password"]
    /\ saver' = Saves("redfish", 1)
    /\ UNCHANGED <<pc, files, loose>>

\* Without a name in the request: it begins with the password, or has a role only.
ModifyOther ==
    /\ pc = "up" /\ Change("redfish")
    /\ \E session, a \in DOMAIN accounts, password \in {0, ops + 1} :
          /\ session \in {0, 1, a}
          /\ patch' = [account |-> a, slot |-> SlotOf(session), password |-> password, stage |-> "password"]
    /\ UNCHANGED <<pc, users, accounts, files, saver, loose>>

\* Then the password; the slot's name is set to it, or to the empty string when
\* the request has none.
ModifyPassword ==
    /\ patch.stage = "password" /\ Free("redfish")
    /\ accounts' = IF patch.password = 0 THEN accounts
                   ELSE [accounts EXCEPT ![patch.account].password = patch.password]
    /\ users' = [users EXCEPT ![patch.slot].name = patch.password]
    /\ saver' = Saves("redfish", 1)
    /\ patch' = [patch EXCEPT !.stage = "save"]
    /\ UNCHANGED <<pc, files, ops, loose>>

ModifySave ==
    /\ patch.stage = "save" /\ Free("redfish")
    /\ files' = [files EXCEPT ![patch.account] = accounts[patch.account]]
    /\ patch' = NoPatch
    /\ UNCHANGED <<pc, users, accounts, saver, ops, loose>>

-----------------------------------------------------------------------------
(* Restart.                                                                *)

Kill ==
    /\ pc # "down" /\ pc' = "down"
    /\ saver' = [t \in Writers |-> Resting] /\ patch' = NoPatch
    /\ UNCHANGED <<users, accounts, files, ops, loose>>

BootUsers == [i \in Slots |-> IF i < 2 THEN Builtin ELSE NoUser]

\* plat_ipmi_init
Start ==
    /\ pc = "down" /\ pc' = "boot"
    /\ users' = BootUsers /\ accounts' = [n \in {} |-> NoUser]
    /\ loose' = {}
    /\ UNCHANGED <<files, saver, patch, ops>>

\* init_account_service makes the accounts at the first start, record_load_json
\* fills the slots from them later.
Load ==
    /\ pc = "boot" /\ pc' = "up"
    /\ IF files = [n \in {} |-> NoUser]
       THEN /\ files' = [n \in {i \in Slots : i < UserCnt} |-> users[n]] /\ users' = users
            /\ accounts' = files'
       ELSE /\ accounts' = files /\ files' = files
            /\ users' = [i \in Slots |-> IF i \in DOMAIN files THEN files[i] ELSE users[i]]
    /\ UNCHANGED <<saver, patch, ops, loose>>

Init ==
    /\ pc = "boot" /\ users = BootUsers
    /\ accounts = [n \in {} |-> NoUser] /\ files = [n \in {} |-> NoUser]
    /\ saver = [t \in Writers |-> Resting] /\ patch = NoPatch
    /\ ops = 0 /\ loose = {}

Next ==
    \/ \E t \in Writers : SaveSlot(t) \/ SaveEnds(t)
    \/ RestSetUser \/ IpmiSetUser \/ app_del_user \/ rest_make_user_json
    \/ make_account \/ ModifyName \/ ModifyOther \/ ModifyPassword \/ ModifySave
    \/ Kill \/ Start \/ Load

Spec == Init /\ [][Next]_vars

-----------------------------------------------------------------------------
(* Properties.                                                             *)

\* When no command is under way a user that is listed and has an account is the
\* one the account has and the one a restart brings back, unless it was
\* listed or its account made since its slot was saved last.
ListedUserIsSaved ==
    pc = "up" /\ patch = NoPatch /\ (\A t \in Writers : Free(t)) =>
        \A i \in DOMAIN accounts \ loose :
            i < UserCnt => accounts[i] = users[i] /\ files[i] = users[i]
=============================================================================
