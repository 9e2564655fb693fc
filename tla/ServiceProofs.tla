---------------------------- MODULE ServiceProofs ----------------------------
(***************************************************************************)
(* Proofs about the services of KETI-Edge as MCComponents runs them, for   *)
(* any number of changes. First the user table, its accounts and their     *)
(* files, which three threads save at once; then the FRU and services      *)
(* pages, whose files one thread writes after the other. Then the requests *)
(* of the Redfish server, for any number of threads and requests: while no *)
(* two threads hold one number, a number is whole or absent, or on its way *)
(* between the two, at a stage one thread is at.  Last the power history,  *)
(* for tables of any size: the rows behind the cursor are those of the last*)
(* rounds, and sorted by time they are the end of the rows' interval.      *)
(***************************************************************************)
EXTENDS MCComponents, FiniteSetTheorems, SequenceTheorems, WellFoundedInduction, TLAPS

serviceVars ==
    <<focus, storeVars, fieldsVars, requestsVars, pagesVars, devicesVars, usersVars, powerVars>>

-----------------------------------------------------------------------------
(* The user table: the inductive invariant.                                *)

\* Slots and numbers the variables hold.
TableTypes ==
    /\ u_pc \in {"boot", "up", "down"}
    /\ DOMAIN u_users = Table!Slots
    /\ DOMAIN u_accounts \subseteq Table!Slots /\ DOMAIN u_files \subseteq Table!Slots
    /\ u_pc = "boot" => u_accounts = [n \in {} |-> Table!NoUser]
    /\ u_pc = "up" => DOMAIN u_files = DOMAIN u_accounts
    /\ u_saver \in [Table!Writers -> [next : Nat, passes : Nat]]
    /\ \A t \in Table!Writers : Table!Free(t) \/ u_saver[t].passes > 0
    /\ u_patch # Table!NoPatch => u_pc = "up"

\* The account of slot i, and its file, have what the slot has.
Matches(i) == u_accounts[i] = u_users[i] /\ u_files[i] = u_users[i]

\* A save that is under way still comes to slot i.
ComesTo(t, i) == ~Table!Free(t) /\ (u_saver[t].next <= i \/ u_saver[t].passes > 1)

\* A listed slot that is not loose matches its account, or is going to be saved.
SavedOrPending ==
    u_pc = "up" =>
        \A i \in DOMAIN u_accounts \ u_loose :
            i < Table!UserCnt => \/ Matches(i)
                                 \/ \E t \in Table!Writers : ComesTo(t, i)
                                 \/ u_patch.stage = "password"

TableInv == TableTypes /\ SavedOrPending

-----------------------------------------------------------------------------
(* The steps of the user table.                                            *)

\* A set of numbers that is not empty has a least one.
LEMMA LeastOf ==
    ASSUME NEW S, S \subseteq Nat, S # {}
    PROVE  Table!Min(S) \in S /\ \A y \in S : Table!Min(S) <= y
<1> DEFINE Less == {p \in Nat \X Nat : p[1] < p[2]}
<1>1. IsWellFoundedOn(Less, Nat)
  BY NatLessThanWellFounded, Zenon DEF OpToRel
<1>2. PICK x \in S : \A y \in S : <<y, x>> \notin Less
  <2> HIDE DEF Less
  <2> QED
    BY <1>1, WFMin
<1>3. ASSUME NEW y \in S PROVE x <= y
  <2>1. x \in Nat /\ y \in Nat /\ <<y, x>> \notin Less
    BY <1>2
  <2>2. y < x => <<y, x>> \in Less
    <3>1. <<y, x>> \in Nat \X Nat /\ <<y, x>>[1] = y /\ <<y, x>>[2] = x
      BY <2>1
    <3> QED
      BY <3>1
  <2> HIDE DEF Less
  <2> QED
    BY <2>1, <2>2
<1> QED
  BY <1>3 DEF Table!Min

\* The number of users is a number of slots.
LEMMA UserCntBound == Table!UserCnt \in Nat /\ Table!UserCnt <= MaxUser
<1> DEFINE S == {i \in Table!Slots \ {0} : u_users[i].name = 0} \cup {MaxUser}
<1>1. S \subseteq Nat /\ MaxUser \in S
  BY ServiceBoundsAssumption DEF Table!Slots
<1> HIDE DEF S
<1>2. Table!Min(S) \in S /\ Table!Min(S) <= MaxUser
  BY <1>1, LeastOf
<1> QED
  BY <1>1, <1>2 DEF S, Table!UserCnt

\* A save from the start comes to every slot.
LEMMA NewSaveComesToAll ==
    ASSUME NEW t \in Table!Writers, NEW passes \in 1 .. 2, TableTypes,
           u_saver' = [u_saver EXCEPT ![t] = [next |-> 0, passes |-> passes]]
    PROVE  /\ u_saver' \in [Table!Writers -> [next : Nat, passes : Nat]]
           /\ \A s \in Table!Writers : Table!Free(s)' \/ u_saver'[s].passes > 0
           /\ \A i \in Nat : ComesTo(t, i)'
  BY DEF TableTypes, ComesTo, Table!Free, Table!Resting

\* A save copies one slot to its account, or skips it.
LEMMA SaveSlotStep ==
    ASSUME TableInv, NEW t \in Table!Writers, Table!SaveSlot(t)
    PROVE  TableInv'
<1> USE DEF TableInv
<1>0. PICK i : i = u_saver[t].next
  OBVIOUS
<1>1. /\ ~Table!Free(t) /\ i < MaxUser /\ i \in Nat
      /\ u_saver' = [u_saver EXCEPT ![t].next = i + 1] /\ u_loose' = u_loose \ {i}
      /\ UNCHANGED <<u_pc, u_users, u_patch>>
  BY <1>0 DEF Table!SaveSlot, TableTypes
<1>2. /\ DOMAIN u_accounts' = DOMAIN u_accounts /\ DOMAIN u_files' = DOMAIN u_files
      /\ \A j \in DOMAIN u_accounts \ {i} : u_accounts'[j] = u_accounts[j] /\ u_files'[j] = u_files[j]
      /\ i \in DOMAIN u_accounts /\ u_pc = "up" => Matches(i)'
      /\ u_pc = "boot" => u_accounts' = u_accounts
  <2>1. CASE i \in DOMAIN u_accounts
    <3>1. u_accounts' = [u_accounts EXCEPT ![i] = u_users[i]] /\ u_files' = [u_files EXCEPT ![i] = u_users[i]]
      BY <1>0, <2>1 DEF Table!SaveSlot
    <3> QED
      BY <1>1, <2>1, <3>1 DEF TableTypes, Matches
  <2>2. CASE i \notin DOMAIN u_accounts
    BY <1>0, <2>2 DEF Table!SaveSlot
  <2> QED
    BY <2>1, <2>2
<1>3. /\ u_saver'[t] = [next |-> i + 1, passes |-> u_saver[t].passes]
      /\ u_saver' \in [Table!Writers -> [next : Nat, passes : Nat]]
      /\ \A s \in Table!Writers \ {t} : u_saver'[s] = u_saver[s]
  BY <1>0, <1>1 DEF TableTypes
<1>4. \A s \in Table!Writers : (Table!Free(s) => Table!Free(s)') /\ (Table!Free(s)' \/ u_saver'[s].passes > 0)
  BY <1>1, <1>3 DEF TableTypes, Table!Free, Table!Resting
<1>5. TableTypes'
  BY <1>1, <1>2, <1>3, <1>4 DEF TableTypes
<1>6. \A s \in Table!Writers, j \in Nat \ {i} : ComesTo(s, j) => ComesTo(s, j)'
  BY <1>0, <1>1, <1>3 DEF ComesTo, Table!Free, Table!Resting, TableTypes
<1>7. Table!UserCnt' = Table!UserCnt
  BY <1>1 DEF Table!UserCnt
<1>8. DOMAIN u_accounts \subseteq Nat
  BY DEF TableTypes, Table!Slots
<1>9. \A j \in DOMAIN u_accounts \ {i} : Matches(j) => Matches(j)'
  BY <1>1, <1>2 DEF Matches
<1> QED
  BY <1>1, <1>2, <1>5, <1>6, <1>7, <1>8, <1>9 DEF SavedOrPending

\* A pass that ends has come to every listed slot.
LEMMA SaveEndsStep ==
    ASSUME TableInv, NEW t \in Table!Writers, Table!SaveEnds(t)
    PROVE  TableInv'
<1> USE DEF TableInv
<1>1. /\ ~Table!Free(t)
      /\ u_saver[t].next = MaxUser \/ ~(u_saver[t].next < Table!UserCnt)
      /\ UNCHANGED <<u_pc, u_users, u_accounts, u_files, u_patch, u_loose>>
  BY DEF Table!SaveEnds, Table!Covered
<1>2. u_saver[t].next \in Nat /\ u_saver[t].passes \in Nat /\ u_saver[t].passes > 0
  BY <1>1 DEF TableTypes
<1>3. /\ u_saver'[t] = IF u_saver[t].passes = 1 THEN [next |-> 0, passes |-> 0]
                       ELSE [next |-> 0, passes |-> u_saver[t].passes - 1]
      /\ u_saver' = [u_saver EXCEPT ![t] = u_saver'[t]]
  BY DEF Table!SaveEnds, Table!Resting, TableTypes
<1>4. u_saver'[t] \in [next : Nat, passes : Nat]
  BY <1>2, <1>3
<1>5. /\ u_saver' \in [Table!Writers -> [next : Nat, passes : Nat]]
      /\ \A s \in Table!Writers \ {t} : u_saver'[s] = u_saver[s]
  BY <1>3, <1>4 DEF TableTypes
<1>6. \A s \in Table!Writers : Table!Free(s)' \/ u_saver'[s].passes > 0
  BY <1>2, <1>3, <1>5 DEF TableTypes, Table!Free, Table!Resting
<1>7. TableTypes'
  BY <1>1, <1>5, <1>6 DEF TableTypes
<1>8. ASSUME NEW j \in Nat, j < Table!UserCnt, ComesTo(t, j)
      PROVE  ComesTo(t, j)'
  <2>1. u_saver[t].passes > 1
    BY <1>1, <1>2, <1>8, UserCntBound DEF ComesTo, Table!Slots, ServiceBoundsAssumption
  <2> QED
    BY <2>1, <1>2, <1>3 DEF ComesTo, Table!Free, Table!Resting
<1>9. \A s \in Table!Writers \ {t}, j \in Nat : ComesTo(s, j) => ComesTo(s, j)'
  BY <1>5 DEF ComesTo, Table!Free
<1>10. Table!UserCnt' = Table!UserCnt /\ \A j : Matches(j)' = Matches(j)
  BY <1>1 DEF Table!UserCnt, Matches
<1>11. DOMAIN u_accounts \subseteq Nat
  BY DEF TableTypes, Table!Slots
<1> QED
  BY <1>1, <1>7, <1>8, <1>9, <1>10, <1>11 DEF SavedOrPending

\* Whatever a command has changed in the table, the save it starts makes good.
LEMMA SavedAgain ==
    ASSUME TableInv, NEW t \in Table!Writers, NEW passes \in 1 .. 2,
           u_saver' = [u_saver EXCEPT ![t] = [next |-> 0, passes |-> passes]],
           u_pc' = u_pc, u_files' = u_files, u_loose' = u_loose,
           DOMAIN u_users' = DOMAIN u_users,
           u_patch' = u_patch \/ u_pc = "up",
           u_accounts' = u_accounts \/ (u_pc = "up" /\ DOMAIN u_accounts' = DOMAIN u_accounts)
    PROVE  TableInv'
<1> USE DEF TableInv
<1>1. TableTypes'
  BY NewSaveComesToAll DEF TableTypes
<1>2. \A i \in Nat : ComesTo(t, i)'
  BY NewSaveComesToAll
<1>3. DOMAIN u_accounts' \subseteq Nat
  BY <1>1 DEF TableTypes, Table!Slots
<1> QED
  BY <1>1, <1>2, <1>3 DEF SavedOrPending

\* The commands of the page, and of IPMI, on one user.
LEMMA SetUserStep ==
    ASSUME TableInv, NEW t \in Table!Writers, Table!SetUser(t)
    PROVE  TableInv'
<1>1. DOMAIN u_users' = DOMAIN u_users
  BY DEF Table!SetUser
<1>2. PICK passes : passes = IF t = "ipmi" THEN 1 ELSE 2
  OBVIOUS
<1>3. passes \in 1 .. 2 /\ u_saver' = [u_saver EXCEPT ![t] = [next |-> 0, passes |-> passes]]
  BY <1>2 DEF Table!SetUser, Table!Saves
<1> QED
  BY <1>1, <1>3, SavedAgain DEF Table!SetUser

\* The deletion of a user, which may end the process.
LEMMA DelUserStep == TableInv /\ Table!app_del_user => TableInv'
<1> SUFFICES ASSUME TableInv, Table!app_del_user PROVE TableInv'
  OBVIOUS
<1>1. CASE u_pc' = "down" /\ u_users' = u_users /\ u_saver' = [t \in Table!Writers |-> Table!Resting]
  BY <1>1 DEF Table!app_del_user, TableInv, TableTypes, SavedOrPending, Table!Free, Table!Resting
<1>2. CASE ~(u_pc' = "down" /\ u_users' = u_users /\ u_saver' = [t \in Table!Writers |-> Table!Resting])
  <2>1. /\ DOMAIN u_users' = DOMAIN u_users
        /\ u_saver' = [u_saver EXCEPT !["rest"] = [next |-> 0, passes |-> 2]] /\ u_pc' = u_pc
    BY <1>2 DEF Table!app_del_user, Table!Saves, TableInv, TableTypes
  <2>2. "rest" \in Table!Writers /\ 2 \in 1 .. 2
    BY DEF Table!Writers
  <2> QED
    BY <2>1, <2>2, SavedAgain DEF Table!app_del_user
<1> QED
  BY <1>1, <1>2

\* The list puts root and admin back; what it lists anew is loose.
LEMMA ListStep == TableInv /\ Table!rest_make_user_json => TableInv'
<1> SUFFICES ASSUME TableInv, Table!rest_make_user_json PROVE TableInv'
  OBVIOUS
<1> USE DEF TableInv
<1>1. /\ DOMAIN u_users' = DOMAIN u_users /\ \A i \in Table!Slots : i >= 2 => u_users'[i] = u_users[i]
      /\ u_loose' = u_loose \cup {i \in Table!Slots : i < 2 \/ i >= Table!UserCnt}
      /\ UNCHANGED <<u_pc, u_accounts, u_files, u_saver, u_patch>>
  BY DEF Table!rest_make_user_json, TableTypes, Table!Slots
<1>2. TableTypes'
  BY <1>1 DEF TableTypes, Table!Free
<1>3. ASSUME NEW i \in DOMAIN u_accounts \ u_loose'
      PROVE  i \in DOMAIN u_accounts \ u_loose /\ i < Table!UserCnt /\ u_users'[i] = u_users[i]
  <2>1. i \in Table!Slots /\ i \in Nat
    BY DEF TableTypes, Table!Slots
  <2> QED
    BY <1>1, <1>3, <2>1, UserCntBound
<1> QED
  BY <1>1, <1>2, <1>3 DEF SavedOrPending, Matches, ComesTo, Table!Free

\* A new account is loose.
LEMMA MakeAccountStep == TableInv /\ Table!make_account => TableInv'
<1> SUFFICES ASSUME TableInv, Table!make_account PROVE TableInv'
  OBVIOUS
<1> USE DEF TableInv
<1> DEFINE With(f, n, v) == [x \in DOMAIN f \cup {n} |-> IF x = n THEN v ELSE f[x]]
<1>1. PICK number, account :
         /\ number \in Table!Slots /\ u_loose' = u_loose \cup {number}
         /\ u_accounts' = With(u_accounts, number, account) /\ u_files' = With(u_files, number, account)
  BY DEF Table!make_account
<1>2. /\ u_pc = "up"
      /\ DOMAIN u_accounts' = DOMAIN u_accounts \cup {number}
      /\ DOMAIN u_files' = DOMAIN u_files \cup {number}
      /\ \A n \in DOMAIN u_accounts \ {number} : u_accounts'[n] = u_accounts[n]
      /\ \A n \in DOMAIN u_files \ {number} : u_files'[n] = u_files[n]
      /\ UNCHANGED <<u_pc, u_users, u_saver, u_patch>>
  BY <1>1 DEF Table!make_account
<1>3. TableTypes'
  BY <1>1, <1>2 DEF TableTypes, Table!Free
<1>4. Table!UserCnt' = Table!UserCnt
  BY <1>2 DEF Table!UserCnt
<1> QED
  BY <1>1, <1>2, <1>3, <1>4 DEF TableTypes, SavedOrPending, Matches, ComesTo, Table!Free

\* A PATCH of an account: the name and the password each start a save, and
\* until the password is looked at nothing is promised.
LEMMA ModifySteps ==
    TableInv /\ (Table!ModifyName \/ Table!ModifyOther \/ Table!ModifyPassword \/ Table!ModifySave)
        => TableInv'
<1> SUFFICES ASSUME TableInv,
                    Table!ModifyName \/ Table!ModifyOther \/ Table!ModifyPassword \/ Table!ModifySave
             PROVE  TableInv'
  OBVIOUS
<1>1. "redfish" \in Table!Writers /\ 1 \in 1 .. 2
  BY DEF Table!Writers
<1>2. CASE Table!ModifyName
  <2>1. /\ u_pc = "up" /\ DOMAIN u_accounts' = DOMAIN u_accounts /\ DOMAIN u_users' = DOMAIN u_users
        /\ u_saver' = [u_saver EXCEPT !["redfish"] = [next |-> 0, passes |-> 1]]
        /\ UNCHANGED <<u_pc, u_files, u_loose>>
    BY <1>2 DEF Table!ModifyName, Table!Saves
  <2> QED
    BY <1>1, <2>1, SavedAgain
<1>3. CASE Table!ModifyOther
  BY <1>3 DEF Table!ModifyOther, TableInv, TableTypes, SavedOrPending, Table!Free
<1>4. CASE Table!ModifyPassword
  <2>1. /\ DOMAIN u_accounts' = DOMAIN u_accounts /\ DOMAIN u_users' = DOMAIN u_users
        /\ u_saver' = [u_saver EXCEPT !["redfish"] = [next |-> 0, passes |-> 1]]
        /\ UNCHANGED <<u_pc, u_files, u_loose>>
    BY <1>4 DEF Table!ModifyPassword, Table!Saves
  <2>2. u_pc = "up"
    BY <1>4 DEF Table!ModifyPassword, Table!NoPatch, TableInv, TableTypes
  <2> QED
    BY <1>1, <2>1, <2>2, SavedAgain
<1>5. CASE Table!ModifySave
  <2> USE DEF TableInv
  <2>1. PICK a : a = u_patch.account
    OBVIOUS
  <2>2. /\ u_patch.stage = "save" /\ u_files' = [u_files EXCEPT ![a] = u_accounts[a]]
           /\ u_patch' = Table!NoPatch
        /\ UNCHANGED <<u_pc, u_users, u_accounts, u_saver, u_loose>>
    BY <1>5, <2>1 DEF Table!ModifySave
  <2>3. TableTypes'
    BY <2>2 DEF TableTypes, Table!Free
  <2>4. u_pc = "up" => \A i \in DOMAIN u_accounts : Matches(i) => Matches(i)'
    BY <2>2 DEF TableTypes, Matches
  <2>5. Table!UserCnt' = Table!UserCnt /\ \A t, i : ComesTo(t, i)' = ComesTo(t, i)
    BY <2>2 DEF Table!UserCnt, ComesTo, Table!Free
  <2> QED
    BY <2>2, <2>3, <2>4, <2>5 DEF SavedOrPending
<1> QED
  BY <1>2, <1>3, <1>4, <1>5

\* The process ends.
LEMMA KillStep == TableInv /\ Table!Kill => TableInv'
  BY DEF Table!Kill, TableInv, TableTypes, SavedOrPending, Table!Free, Table!Resting

\* It starts with the two builtin users and no account in memory.
LEMMA StartStep == TableInv /\ Table!Start => TableInv'
<1> SUFFICES ASSUME TableInv, Table!Start PROVE TableInv'
  OBVIOUS
<1>1. /\ u_pc = "down" /\ u_pc' = "boot" /\ u_accounts' = [n \in {} |-> Table!NoUser]
      /\ DOMAIN u_users' = Table!Slots /\ UNCHANGED <<u_files, u_saver, u_patch>>
  BY DEF Table!Start, Table!BootUsers
<1> QED
  BY <1>1 DEF TableInv, TableTypes, SavedOrPending, Table!Free

\* The accounts are made of the table, or the table of the accounts.
LEMMA LoadStep == TableInv /\ Table!Load => TableInv'
<1> SUFFICES ASSUME TableInv, Table!Load PROVE TableInv'
  OBVIOUS
<1>1. u_pc = "boot" /\ u_pc' = "up" /\ UNCHANGED <<u_saver, u_patch, u_loose>>
  BY DEF Table!Load
<1>2. DOMAIN u_users' = Table!Slots /\ DOMAIN u_files' \subseteq Table!Slots /\ u_accounts' = u_files'
  BY DEF Table!Load, TableInv, TableTypes
<1>3. \A i \in DOMAIN u_accounts' : u_accounts'[i] = u_users'[i]
  <2>1. CASE u_files = [n \in {} |-> Table!NoUser]
    <3>1. /\ u_files' = [n \in {i \in Table!Slots : i < Table!UserCnt} |-> u_users[n]]
          /\ u_users' = u_users /\ u_accounts' = u_files'
      BY <2>1 DEF Table!Load
    <3> QED
      BY <3>1
  <2>2. CASE u_files # [n \in {} |-> Table!NoUser]
    <3>1. /\ u_accounts' = u_files
          /\ u_users' = [i \in Table!Slots |-> IF i \in DOMAIN u_files THEN u_files[i] ELSE u_users[i]]
      BY <2>2 DEF Table!Load
    <3> QED
      BY <3>1 DEF TableInv, TableTypes
  <2> QED
    BY <2>1, <2>2
<1> QED
  BY <1>1, <1>2, <1>3 DEF TableInv, TableTypes, SavedOrPending, Matches, Table!Free

\* Every step of the table keeps the invariant.
LEMMA TableStepsKeepInv == TableInv /\ Table!Next => TableInv'
<1> SUFFICES ASSUME TableInv, Table!Next PROVE TableInv'
  OBVIOUS
<1>1. "rest" \in Table!Writers /\ "ipmi" \in Table!Writers
  BY DEF Table!Writers
<1> QED
  BY <1>1, SaveSlotStep, SaveEndsStep, SetUserStep, DelUserStep, ListStep, MakeAccountStep,
     ModifySteps, KillStep, StartStep, LoadStep DEF Table!Next, Table!RestSetUser, Table!IpmiSetUser

\* TableInv holds in every state of the component.
THEOREM TableInvariance == Spec => [](focus = "users" => TableInv)
<1>1. Init => (focus = "users" => TableInv)
  BY DEF Init, Table!Init, Table!BootUsers, TableInv, TableTypes, SavedOrPending, Table!Free,
     Table!Resting
<1>2. (focus = "users" => TableInv) /\ [Next]_serviceVars => (focus = "users" => TableInv)'
  <2>1. UNCHANGED <<focus, usersVars>> /\ TableInv => TableInv'
    BY DEF usersVars, TableInv, TableTypes, SavedOrPending, Matches, ComesTo, Table!Free,
       Table!UserCnt
  <2> QED
    BY <2>1, TableStepsKeepInv DEF Next, serviceVars
<1> QED
  BY <1>1, <1>2, PTL DEF Spec, serviceVars

\* However the commands of the page, of IPMI and of the Redfish server and
\* their saves interleave, with no lock around the table: when all have ended,
\* a listed user that is not loose is the one of its account and of its file.
THEOREM UsersAreSaved == Spec => []ListedUserIsSaved
<1>1. TableInv => Table!ListedUserIsSaved
  BY DEF TableInv, SavedOrPending, Matches, ComesTo, Table!NoPatch, Table!ListedUserIsSaved
<1> QED
  BY <1>1, TableInvariance, PTL DEF ListedUserIsSaved

-----------------------------------------------------------------------------
(* The FRU and services pages: the inductive invariant.                    *)

DeviceCommands ==
    {"header", "board", "product", "chassis", "get", "web", "ssh", "alert", "kvm", "proxy", "both"}
DeviceFiles == {"header", "board", "product", "chassis", "web", "ssh", "alert", "kvm"}
CommandSet == [cmd : DeviceCommands, value : Nat]
Buffers == {Devices!Empty} \cup UNION {[Devices!FieldsOf(f) -> Nat] : f \in DeviceFiles}
Jobs == [own : BOOLEAN, todo : Seq(DeviceFiles), buf : Buffers]

\* What the variables hold.
DevicesTypes ==
    /\ d_edge \in BOOLEAN /\ d_busy \in BOOLEAN /\ d_crossed \in BOOLEAN
    /\ d_page \in Seq(CommandSet)
    /\ d_jobs \subseteq Jobs
    /\ d_setting \in [Devices!SettingFields -> Nat]
    /\ d_mem \in [Devices!FruFields \cup Devices!SettingFields -> Nat]
    /\ DOMAIN d_files = DeviceFiles
    /\ d_sets \in Nat

\* The files a thread still has to write.
Todo(s) == {s[i] : i \in DOMAIN s}
Pending(f) == \E j \in d_jobs : f \in Todo(j.todo)

\* One thread at most has a command of the page that waits.
OneOwn ==
    /\ \A j \in d_jobs : j.own => d_busy /\ d_page # <<>>
    /\ \A j, k \in d_jobs : j.own /\ k.own => j = k

\* No two commands have overlapped since KETI-Edge started.
Alone == d_edge /\ ~d_crossed

\* Then one thread is about, and what it has copied is still in memory.
OneJob ==
    /\ \A j, k \in d_jobs : j = k
    /\ \A j \in d_jobs :
          \/ j.buf = Devices!Empty
          \/ j.todo # <<>> /\ j.buf = [x \in Devices!FieldsOf(Head(j.todo)) |-> d_mem[x]]

Displayed == {"web", "sshOn", "ssh", "kvm", "proxy"}

\* The structures have what is displayed, but for what a display put back.
MemoryIsDisplayed ==
    /\ \A x \in Displayed \ d_forgotten : d_mem[x] = d_setting[x]
    /\ \A j \in d_jobs : \A f \in {"web", "ssh"} \cap Todo(j.todo) :
          Devices!FieldsOf(f) \cap d_forgotten = {}

\* A file that was written has what it should have, or is written again.
FruIsWritten ==
    \A f \in {"board", "product", "chassis"} \cap d_written : d_files[f][f] = d_mem[f] \/ Pending(f)

SettingsAreWritten ==
    /\ \A f \in {"web", "ssh"} \cap d_written :
          (\A x \in Devices!FieldsOf(f) : d_files[f][x] = d_setting[x]) \/ Pending(f)
    /\ "kvm" \in d_written =>
          (\A x \in {"kvm", "proxy"} \ d_forgotten : d_files.kvm[x] = d_setting[x]) \/ Pending("kvm")

DevicesInv ==
    /\ DevicesTypes /\ OneOwn
    /\ ~d_edge => d_jobs = {}
    /\ Alone => OneJob /\ MemoryIsDisplayed /\ FruIsWritten /\ SettingsAreWritten

-----------------------------------------------------------------------------
(* The steps of the FRU and services pages.                                *)

\* The pages send commands that KETI-Edge knows.
LEMMA PagesAreTyped ==
    ASSUME DevicesTypes, NEW v \in Nat
    PROVE  Devices!FruPages(v) \cup Devices!SettingPages(v) \cup {<<Devices!Command("get", 0)>>}
               \subseteq Seq(CommandSet)
<1>1. Devices!Disabled \in Nat
  BY ServiceBoundsAssumption DEF Devices!Disabled
<1>2. \A c \in DeviceCommands, n \in Nat : Devices!Command(c, n) \in CommandSet
  BY DEF Devices!Command, CommandSet
<1>3. ASSUME NEW page \in Devices!FruPages(v) PROVE page \in Seq(CommandSet)
  <2>1. PICK changed :
           page = [i \in 1 .. 4 |-> Devices!Command(Devices!FruFiles[i],
                       IF Devices!FruFiles[i] \in changed THEN v ELSE d_mem[Devices!FruFiles[i]])]
    BY <1>3 DEF Devices!FruPages
  <2>2. \A i \in 1 .. 4 : /\ Devices!FruFiles[i] \in DeviceCommands
                          /\ d_mem[Devices!FruFiles[i]] \in Nat
    BY DEF DevicesTypes, Devices!FruFiles, Devices!FruFields, DeviceCommands
  <2>3. \A i \in 1 .. 4 : page[i] \in CommandSet
    BY <1>2, <2>1, <2>2
  <2>4. page \in [1 .. 4 -> CommandSet]
    BY <2>1, <2>3
  <2>5. 4 \in Nat
    OBVIOUS
  <2>6. page \in UNION {[1 .. n -> CommandSet] : n \in Nat}
    BY <2>4, <2>5, Zenon
  <2> QED
    BY <2>6, SeqDef
<1>4. ASSUME NEW change \in Devices!SettingFields \cup {"both"}
      PROVE  Devices!SettingPage(change, v) \in Seq(CommandSet)
  <2> DEFINE New(x, switch) == IF change = x THEN v ELSE IF change = switch THEN Devices!Disabled
                               ELSE Devices!Shown(switch, x)
             one   == <<Devices!Command("get", 0)>>
             two   == IF change = "web" THEN <<Devices!Command("web", v)>> ELSE <<>>
             three == <<Devices!Command("ssh", New("ssh", "sshOn"))>>
             alert == <<Devices!Command("alert", New("alert", "alertOn"))>>
             four  == IF change = "alert" THEN alert \o alert ELSE alert
             five  == IF change \in {"kvm", "proxy", "both"} THEN <<Devices!Command(change, v)>> ELSE <<>>
  <2>1. New("ssh", "sshOn") \in Nat /\ New("alert", "alertOn") \in Nat
    BY <1>1 DEF Devices!Shown, DevicesTypes, Devices!SettingFields
  <2>2. one \in Seq(CommandSet) /\ two \in Seq(CommandSet) /\ five \in Seq(CommandSet)
    BY <1>2 DEF DeviceCommands
  <2>3. three \in Seq(CommandSet) /\ alert \in Seq(CommandSet)
    BY <1>2, <2>1 DEF DeviceCommands
  <2>4. four \in Seq(CommandSet)
    BY <2>3, ConcatProperties
  <2>5. Devices!SettingPage(change, v) = one \o two \o three \o four \o five
    BY DEF Devices!SettingPage
  <2> HIDE DEF one, two, three, four, five
  <2> QED
    BY <2>2, <2>3, <2>4, <2>5, ConcatProperties
<1>5. <<Devices!Command("get", 0)>> \in Seq(CommandSet)
  BY <1>2 DEF DeviceCommands
<1>6. Devices!SettingPages(v) \subseteq Seq(CommandSet)
  BY <1>4 DEF Devices!SettingPages
<1> QED
  BY <1>3, <1>5, <1>6

\* What is still to be written is the next file and those after it.
LEMMA TodoTail ==
    ASSUME NEW s \in Seq(DeviceFiles), s # <<>>
    PROVE  /\ Head(s) \in DeviceFiles /\ Tail(s) \in Seq(DeviceFiles)
           /\ Todo(s) = {Head(s)} \cup Todo(Tail(s))
<1>1. /\ Head(s) \in DeviceFiles /\ Tail(s) \in Seq(DeviceFiles) /\ Len(Tail(s)) = Len(s) - 1
      /\ \A i \in 1 .. Len(Tail(s)) : Tail(s)[i] = s[i + 1]
  BY HeadTailProperties
<1>2. Len(s) \in Nat \ {0} /\ DOMAIN s = 1 .. Len(s) /\ DOMAIN Tail(s) = 1 .. Len(s) - 1
  BY <1>1, EmptySeq, LenProperties
<1>0. Head(s) = s[1]
  OBVIOUS
<1>3. \A i \in DOMAIN s : i = 1 \/ (i - 1 \in DOMAIN Tail(s) /\ Tail(s)[i - 1] = s[i])
  BY <1>1, <1>2
<1>4. \A i \in DOMAIN Tail(s) : i + 1 \in DOMAIN s /\ Tail(s)[i] = s[i + 1]
  BY <1>1, <1>2
<1>5. 1 \in DOMAIN s
  BY <1>1, <1>2
<1> QED
  BY <1>0, <1>1, <1>3, <1>4, <1>5 DEF Todo

\* Nothing is to be written when the list is empty.
LEMMA TodoNothing == Todo(<<>>) = {}
  BY DEF Todo

\* The commands write files KETI-Edge knows.
LEMMA FilesAreKnown ==
    ASSUME NEW c \in DeviceCommands, NEW v
    PROVE  Devices!FilesOf(c, v) \in Seq(DeviceFiles)
<1>1. <<>> \in Seq(DeviceFiles) /\ <<"kvm">> \in Seq(DeviceFiles) /\ Devices!FruFiles \in Seq(DeviceFiles)
  BY DEF DeviceFiles, Devices!FruFiles
<1>2. CASE c \in {"web", "ssh", "alert"}
  <2>1. <<c>> \in Seq(DeviceFiles)
    BY <1>2 DEF DeviceFiles
  <2> QED
    BY <1>2, <2>1 DEF Devices!FilesOf, Devices!FruFields
<1>3. CASE c \in {"kvm", "proxy", "both"}
  BY <1>1, <1>3 DEF Devices!FilesOf, Devices!FruFields
<1>4. CASE c \in {"header", "get"}
  BY <1>1, <1>4 DEF Devices!FilesOf, Devices!FruFields
<1>5. CASE c \in {"board", "product", "chassis"}
  BY <1>1, <1>5 DEF Devices!FilesOf, Devices!FruFields
<1> QED
  BY <1>2, <1>3, <1>4, <1>5 DEF DeviceCommands

\* A new page.
LEMMA StartPageStep == DevicesInv /\ Devices!StartPage => DevicesInv'
<1> SUFFICES ASSUME DevicesInv, Devices!StartPage PROVE DevicesInv'
  OBVIOUS
<1>1. d_page' \in Seq(CommandSet) /\ d_sets' = d_sets + 1 /\ d_sets \in Nat
      /\ UNCHANGED <<d_edge, d_busy, d_jobs, d_setting, d_mem, d_files, d_written, d_crossed, d_forgotten>>
  BY PagesAreTyped DEF Devices!StartPage, DevicesInv, DevicesTypes
<1>2. DevicesTypes' /\ OneOwn'
  <2>1. d_page = <<>>
    BY DEF Devices!StartPage
  <2> QED
    BY <1>1, <2>1 DEF DevicesInv, DevicesTypes, OneOwn
<1>3. Alone' = Alone /\ \A f : Pending(f)' = Pending(f)
  BY <1>1 DEF Alone, Pending
<1>4. Alone => OneJob' /\ MemoryIsDisplayed'
  BY <1>1 DEF DevicesInv, OneJob, MemoryIsDisplayed
<1>5. Alone => FruIsWritten' /\ SettingsAreWritten'
  BY <1>1, <1>3 DEF DevicesInv, FruIsWritten, SettingsAreWritten
<1> QED
  BY <1>1, <1>2, <1>3, <1>4, <1>5 DEF DevicesInv

\* A thread is what it has to write and to whom it answers.
LEMMA JobParts ==
    ASSUME NEW j \in Jobs
    PROVE  /\ j = [own |-> j.own, todo |-> j.todo, buf |-> j.buf]
           /\ j.own \in BOOLEAN /\ j.todo \in Seq(DeviceFiles) /\ j.buf \in Buffers
           /\ \A own \in BOOLEAN, todo \in Seq(DeviceFiles), buf \in Buffers :
                 [own |-> own, todo |-> todo, buf |-> buf] \in Jobs
           /\ \A own : [j EXCEPT !.own = own] = [own |-> own, todo |-> j.todo, buf |-> j.buf]
           /\ \A todo, buf, k :
                 k = [j EXCEPT !.todo = todo, !.buf = buf] => k = [own |-> j.own, todo |-> todo, buf |-> buf]
<1>1. /\ j = [own |-> j.own, todo |-> j.todo, buf |-> j.buf]
      /\ j.own \in BOOLEAN /\ j.todo \in Seq(DeviceFiles) /\ j.buf \in Buffers
  BY DEF Jobs
<1>2. \A own \in BOOLEAN, todo \in Seq(DeviceFiles), buf \in Buffers :
         [own |-> own, todo |-> todo, buf |-> buf] \in Jobs
  BY DEF Jobs
<1>3. ASSUME NEW own
      PROVE  [j EXCEPT !.own = own] = [own |-> own, todo |-> j.todo, buf |-> j.buf]
  BY DEF Jobs
<1>4. ASSUME NEW todo, NEW buf, NEW k, k = [j EXCEPT !.todo = todo, !.buf = buf]
      PROVE  k = [own |-> j.own, todo |-> todo, buf |-> buf]
  BY <1>4 DEF Jobs
<1> QED
  BY <1>1, <1>2, <1>3, <1>4

\* The web server ends: the thread goes on as if nothing had happened.
LEMMA WebDieStep == DevicesInv /\ Devices!WebDie => DevicesInv'
<1> SUFFICES ASSUME DevicesInv, Devices!WebDie PROVE DevicesInv'
  OBVIOUS
<1>1. /\ d_page' = <<>> /\ d_busy' = FALSE /\ d_jobs' = {[j EXCEPT !.own = FALSE] : j \in d_jobs}
      /\ UNCHANGED <<d_edge, d_setting, d_mem, d_files, d_sets, d_written, d_crossed, d_forgotten>>
  BY DEF Devices!WebDie
<1>2. ASSUME NEW j \in d_jobs
      PROVE  [j EXCEPT !.own = FALSE] = [own |-> FALSE, todo |-> j.todo, buf |-> j.buf]
  <2>1. j \in Jobs
    BY DEF DevicesInv, DevicesTypes
  <2> QED
    BY <2>1, JobParts DEF Jobs
<1>3. \A k \in d_jobs' : \E j \in d_jobs : k = [own |-> FALSE, todo |-> j.todo, buf |-> j.buf]
  BY <1>1, <1>2
<1>4. \A j \in d_jobs : [own |-> FALSE, todo |-> j.todo, buf |-> j.buf] \in d_jobs'
  BY <1>1, <1>2
<1>5. DevicesTypes'
  <2>1. d_jobs' \subseteq Jobs
    <3> SUFFICES ASSUME NEW k \in d_jobs' PROVE k \in Jobs
      OBVIOUS
    <3>1. PICK j \in d_jobs : k = [own |-> FALSE, todo |-> j.todo, buf |-> j.buf]
      BY <1>3
    <3>2. j \in Jobs
      BY DEF DevicesInv, DevicesTypes
    <3> QED
      BY <3>1, <3>2, JobParts
  <2>2. <<>> \in Seq(CommandSet)
    BY EmptySeq
  <2> QED
    BY <1>1, <2>1, <2>2 DEF DevicesInv, DevicesTypes
<1>6. \A f : Pending(f) => Pending(f)'
  BY <1>4 DEF Pending
<1>7. (~d_edge => d_jobs = {})' /\ OneOwn'
  <2>1. \A k \in d_jobs' : k.own = FALSE
    BY <1>3
  <2> QED
    BY <1>1, <2>1 DEF DevicesInv, OneOwn
<1>8. Alone' => Alone
  BY <1>1 DEF Alone
<1>9. Alone => OneJob'
  <2>1. \A k \in d_jobs' : \E j \in d_jobs :
           /\ k = [own |-> FALSE, todo |-> j.todo, buf |-> j.buf]
           /\ k.todo = j.todo /\ k.buf = j.buf
    BY <1>3
  <2>2. Alone => \A k, l \in d_jobs' : k = l
    BY <1>3 DEF DevicesInv, OneJob
  <2>3. Alone => \A k \in d_jobs' :
           \/ k.buf = Devices!Empty
           \/ k.todo # <<>> /\ k.buf = [x \in Devices!FieldsOf(Head(k.todo)) |-> d_mem[x]]
    BY <2>1 DEF DevicesInv, OneJob
  <2> QED
    BY <1>1, <2>2, <2>3 DEF OneJob
<1>10. Alone => MemoryIsDisplayed'
  BY <1>1, <1>3 DEF DevicesInv, MemoryIsDisplayed
<1>11. Alone => FruIsWritten' /\ SettingsAreWritten'
  BY <1>1, <1>6 DEF DevicesInv, FruIsWritten, SettingsAreWritten
<1> QED
  BY <1>5, <1>7, <1>8, <1>9, <1>10, <1>11 DEF DevicesInv

\* What a command makes of the memory, when no thread is about.
LEMMA CommandEffects ==
    ASSUME DevicesTypes, NEW c \in DeviceCommands, NEW v \in Nat, NEW msmtprc \in BOOLEAN,
           d_setting' = Devices!Settings(c, v, msmtprc), d_mem' = Devices!Memory(c, v, d_setting'),
           d_forgotten' = IF Devices!Reloads(c) THEN Devices!SettingFields
                          ELSE d_forgotten \ Devices!Copied(c)
    PROVE  /\ d_setting' \in [Devices!SettingFields -> Nat]
           /\ d_mem' \in [Devices!FruFields \cup Devices!SettingFields -> Nat]
           /\ \A x \in Devices!SettingFields \ Devices!Copied(c) : d_setting'[x] = d_setting[x]
           /\ \A x \in Devices!SettingFields \ d_forgotten' :
                 \/ d_mem'[x] = d_setting'[x]
                 \/ x \notin d_forgotten /\ d_mem'[x] = d_mem[x] /\ d_setting'[x] = d_setting[x]
           /\ \A x \in {"board", "product", "chassis"} : d_mem'[x] = IF x = c THEN v ELSE d_mem[x]
<1> USE DEF Devices!SettingFields, Devices!FruFields
<1>1. Devices!Disabled \in Nat
  BY ServiceBoundsAssumption DEF Devices!Disabled
<1>2. /\ d_setting' \in [Devices!SettingFields -> Nat]
      /\ \A x \in Devices!SettingFields \ Devices!Copied(c) : d_setting'[x] = d_setting[x]
  <2>1. CASE c \in {"header", "board", "product", "chassis", "get"}
    BY <2>1 DEF DevicesTypes, Devices!Settings
  <2>2. CASE c = "web"
    BY <2>2 DEF DevicesTypes, Devices!Settings, Devices!Set, Devices!Copied
  <2>3. CASE c = "ssh"
    BY <1>1, <2>3 DEF DevicesTypes, Devices!Settings, Devices!Set, Devices!Copied
  <2>4. CASE c = "alert"
    BY <1>1, <2>4 DEF DevicesTypes, Devices!Settings, Devices!Set, Devices!Copied
  <2>5. CASE c \in {"kvm", "proxy"}
    BY <2>5 DEF DevicesTypes, Devices!Settings, Devices!Set, Devices!Copied
  <2>6. CASE c = "both"
    BY <2>6 DEF DevicesTypes, Devices!Settings, Devices!Set, Devices!Copied
  <2> QED
    BY <2>1, <2>2, <2>3, <2>4, <2>5, <2>6 DEF DeviceCommands
<1>3. \A x \in DOMAIN d_mem :
         d_mem'[x] = IF x \in Devices!SettingFields /\ Devices!Reloads(c) THEN 0
                     ELSE IF x \in Devices!Copied(c) THEN d_setting'[x]
                     ELSE IF x = c THEN v
                     ELSE IF c = "board" /\ x = "date" THEN d_sets
                     ELSE d_mem[x]
  BY DEF Devices!Memory
<1>4. DOMAIN d_mem' = DOMAIN d_mem /\ DOMAIN d_mem = Devices!FruFields \cup Devices!SettingFields
  BY DEF Devices!Memory, DevicesTypes
<1>5. Devices!Copied(c) \subseteq Devices!SettingFields
          /\ (c \in Devices!SettingFields => c \in Devices!Copied(c))
  BY DEF Devices!Copied, DeviceCommands
<1>6. \A x \in DOMAIN d_mem : d_mem'[x] \in Nat
  <2> SUFFICES ASSUME NEW x \in DOMAIN d_mem PROVE d_mem'[x] \in Nat
    OBVIOUS
  <2>1. d_mem[x] \in Nat /\ d_sets \in Nat /\ (x \in Devices!Copied(c) => d_setting'[x] \in Nat)
    BY <1>2, <1>4, <1>5 DEF DevicesTypes
  <2> QED
    BY <1>3, <2>1
<1>7. d_mem' \in [Devices!FruFields \cup Devices!SettingFields -> Nat]
  <2>1. d_mem' = [x \in DOMAIN d_mem |-> d_mem'[x]]
    BY DEF Devices!Memory
  <2> QED
    BY <1>4, <1>6, <2>1
<1>8. \A x \in Devices!SettingFields \ d_forgotten' :
         \/ d_mem'[x] = d_setting'[x]
         \/ x \notin d_forgotten /\ d_mem'[x] = d_mem[x] /\ d_setting'[x] = d_setting[x]
  <2> SUFFICES ASSUME NEW x \in Devices!SettingFields, x \notin d_forgotten'
               PROVE  \/ d_mem'[x] = d_setting'[x]
                      \/ x \notin d_forgotten /\ d_mem'[x] = d_mem[x] /\ d_setting'[x] = d_setting[x]
    OBVIOUS
  <2>1. x \in DOMAIN d_mem /\ x # "date"
    BY <1>4
  <2>2. ~Devices!Reloads(c) /\ d_forgotten' = d_forgotten \ Devices!Copied(c)
    OBVIOUS
  <2> QED
    BY <1>2, <1>3, <1>5, <2>1, <2>2
<1>9. ASSUME NEW x \in {"board", "product", "chassis"}
      PROVE  d_mem'[x] = IF x = c THEN v ELSE d_mem[x]
  <2>1. x \in DOMAIN d_mem /\ x \notin Devices!SettingFields /\ x # "date"
    BY <1>4
  <2> QED
    BY <1>3, <1>5, <2>1
<1> QED
  BY <1>2, <1>7, <1>8, <1>9

\* What each command has to write.
LEMMA TodoOfCommand ==
    ASSUME NEW c \in DeviceCommands, NEW v
    PROVE  /\ c \in {"web", "ssh"} => Todo(Devices!FilesOf(c, v)) = {c}
           /\ \A f \in {"web", "ssh"} : f \in Todo(Devices!FilesOf(c, v)) => f = c
           /\ c \in {"kvm", "proxy", "both"} => "kvm" \in Todo(Devices!FilesOf(c, v))
           /\ c \in {"board", "product", "chassis"} /\ d_mem[c] # v => c \in Todo(Devices!FilesOf(c, v))
<1> USE DEF Devices!FilesOf, Devices!FruFields, Devices!FruFiles, Todo
<1>1. CASE c \in {"web", "ssh", "alert"}
  BY <1>1
<1>2. CASE c \in {"kvm", "proxy", "both"}
  BY <1>2
<1>3. CASE c \in {"header", "get"}
  BY <1>3
<1>4. CASE c \in {"board", "product", "chassis"}
  <2>1. CASE d_mem[c] = v
    BY <1>4, <2>1
  <2>2. CASE d_mem[c] # v
    <3>1. Devices!FilesOf(c, v) = <<"header", "board", "product", "chassis">>
      BY <1>4, <2>2
    <3>2. Todo(<<"header", "board", "product", "chassis">>) = {"header", "board", "product", "chassis"}
      OBVIOUS
    <3> QED
      BY <1>4, <3>1, <3>2
  <2> QED
    BY <2>1, <2>2
<1> QED
  BY <1>1, <1>2, <1>3, <1>4 DEF DeviceCommands

\* A command: what it changes in memory it is going to write.
LEMMA TakeStep == DevicesInv /\ Devices!Take => DevicesInv'
<1> SUFFICES ASSUME DevicesInv, Devices!Take PROVE DevicesInv'
  OBVIOUS
<1>1. PICK c, v : c = Head(d_page).cmd /\ v = Head(d_page).value
  OBVIOUS
<1>2. c \in DeviceCommands /\ v \in Nat
  <2>1. Head(d_page) \in CommandSet
    BY HeadTailProperties DEF Devices!Take, DevicesInv, DevicesTypes
  <2> QED
    BY <1>1, <2>1 DEF CommandSet
<1>3. PICK msmtprc \in BOOLEAN : /\ d_setting' = Devices!Settings(c, v, msmtprc)
                                 /\ d_mem' = Devices!Memory(c, v, d_setting')
  BY <1>1 DEF Devices!Take
<1>4. PICK n : n = [own |-> TRUE, todo |-> Devices!FilesOf(c, v), buf |-> Devices!Empty]
  OBVIOUS
<1>5. /\ d_edge /\ d_busy' = TRUE /\ d_jobs' = d_jobs \cup {n}
      /\ d_forgotten' = IF Devices!Reloads(c) THEN Devices!SettingFields
                        ELSE d_forgotten \ Devices!Copied(c)
      /\ d_crossed' = (d_crossed \/ d_jobs # {})
      /\ UNCHANGED <<d_edge, d_page, d_files, d_sets, d_written>>
  BY <1>1, <1>4 DEF Devices!Take
<1>6. /\ d_setting' \in [Devices!SettingFields -> Nat]
      /\ d_mem' \in [Devices!FruFields \cup Devices!SettingFields -> Nat]
      /\ \A x \in Devices!SettingFields \ Devices!Copied(c) : d_setting'[x] = d_setting[x]
      /\ \A x \in Devices!SettingFields \ d_forgotten' :
            \/ d_mem'[x] = d_setting'[x]
            \/ x \notin d_forgotten /\ d_mem'[x] = d_mem[x] /\ d_setting'[x] = d_setting[x]
      /\ \A x \in {"board", "product", "chassis"} : d_mem'[x] = IF x = c THEN v ELSE d_mem[x]
  BY <1>2, <1>3, <1>5, CommandEffects DEF DevicesInv
<1>7. n \in Jobs
  <2>1. Devices!Empty \in Buffers /\ TRUE \in BOOLEAN
    BY DEF Buffers
  <2> QED
    BY <1>2, <1>4, <2>1, FilesAreKnown DEF Jobs
<1>8. DevicesTypes' /\ OneOwn'
  <2>1. d_page # <<>> /\ ~d_busy
    BY DEF Devices!Take
  <2> QED
    BY <1>5, <1>6, <1>7, <2>1 DEF DevicesInv, DevicesTypes, OneOwn
<1>9. Alone' => Alone /\ d_jobs = {} /\ d_jobs' = {n} /\ ~d_crossed'
  BY <1>5 DEF Alone
<1> SUFFICES ASSUME Alone' PROVE OneJob' /\ MemoryIsDisplayed' /\ FruIsWritten' /\ SettingsAreWritten'
  BY <1>5, <1>8 DEF DevicesInv
<1>10. OneJob /\ MemoryIsDisplayed /\ FruIsWritten /\ SettingsAreWritten /\ \A f : ~Pending(f)
  BY <1>9 DEF DevicesInv, Pending
<1>11. \A f : Pending(f)' <=> f \in Todo(Devices!FilesOf(c, v))
  BY <1>4, <1>9 DEF Pending
<1>12. OneJob'
  <2>1. n.buf = Devices!Empty
    BY <1>4
  <2>2. \A j \in d_jobs' : j = n
    BY <1>9
  <2> QED
    BY <2>1, <2>2 DEF OneJob
<1>13. MemoryIsDisplayed'
  <2>1. \A x \in Displayed \ d_forgotten' : d_mem'[x] = d_setting'[x]
    BY <1>6, <1>10 DEF MemoryIsDisplayed, Displayed, Devices!SettingFields
  <2>2. ASSUME NEW f \in {"web", "ssh"}, f \in Todo(Devices!FilesOf(c, v))
        PROVE  Devices!FieldsOf(f) \cap d_forgotten' = {}
    <3>1. f = c
      BY <1>2, <2>2, TodoOfCommand
    <3>2. d_forgotten' = d_forgotten \ Devices!Copied(c)
      BY <1>5, <3>1 DEF Devices!Reloads
    <3>3. Devices!FieldsOf(f) \subseteq Devices!Copied(c)
      BY <3>1 DEF Devices!FieldsOf, Devices!Copied
    <3> QED
      BY <3>2, <3>3
  <2> QED
    BY <1>4, <1>9, <2>1, <2>2 DEF MemoryIsDisplayed
<1>14. FruIsWritten'
  <2> SUFFICES ASSUME NEW f \in {"board", "product", "chassis"}, f \in d_written
               PROVE  d_files[f][f] = d_mem'[f] \/ Pending(f)'
    BY <1>5 DEF FruIsWritten
  <2>1. d_files[f][f] = d_mem[f]
    BY <1>10 DEF FruIsWritten
  <2> QED
    BY <1>2, <1>6, <1>11, <2>1, TodoOfCommand
<1>15. SettingsAreWritten'
  <2>1. ASSUME NEW f \in {"web", "ssh"}, f \in d_written
        PROVE  (\A x \in Devices!FieldsOf(f) : d_files[f][x] = d_setting'[x]) \/ Pending(f)'
    <3>1. CASE f = c
      BY <1>2, <1>11, <3>1, TodoOfCommand
    <3>2. CASE f # c
      <4>1. /\ Devices!FieldsOf(f) \cap Devices!Copied(c) = {}
            /\ Devices!FieldsOf(f) \subseteq Devices!SettingFields
        BY <1>2, <3>2 DEF Devices!FieldsOf, Devices!Copied, Devices!SettingFields, DeviceCommands
      <4>2. \A x \in Devices!FieldsOf(f) : d_files[f][x] = d_setting[x]
        BY <1>10, <2>1 DEF SettingsAreWritten
      <4> QED
        BY <1>6, <4>1, <4>2
    <3> QED
      BY <3>1, <3>2
  <2>2. ASSUME "kvm" \in d_written
        PROVE  (\A x \in {"kvm", "proxy"} \ d_forgotten' : d_files.kvm[x] = d_setting'[x]) \/ Pending("kvm")'
    <3>1. CASE c \in {"kvm", "proxy", "both"}
      BY <1>2, <1>11, <3>1, TodoOfCommand
    <3>2. CASE c \notin {"kvm", "proxy", "both"}
      <4>1. {"kvm", "proxy"} \cap Devices!Copied(c) = {} /\ {"kvm", "proxy"} \subseteq Devices!SettingFields
        BY <1>2, <3>2 DEF Devices!Copied, Devices!SettingFields, DeviceCommands
      <4>2. \A x \in {"kvm", "proxy"} \ d_forgotten : d_files.kvm[x] = d_setting[x]
        BY <1>10, <2>2 DEF SettingsAreWritten
      <4>3. {"kvm", "proxy"} \ d_forgotten' \subseteq {"kvm", "proxy"} \ d_forgotten
        BY <1>5, <4>1
      <4> QED
        BY <1>6, <4>1, <4>2, <4>3
    <3> QED
      BY <3>1, <3>2
  <2> QED
    BY <1>5, <2>1, <2>2 DEF SettingsAreWritten
<1> QED
  BY <1>12, <1>13, <1>14, <1>15

\* What a step of the one thread there is makes of the list of threads.
LEMMA MovedJob ==
    ASSUME DevicesTypes, NEW j \in d_jobs, NEW todo \in Seq(DeviceFiles), NEW buf \in Buffers,
           d_jobs' = Devices!Moved(j, todo, buf)
    PROVE  /\ d_jobs' \subseteq Jobs
           /\ OneOwn /\ UNCHANGED <<d_page, d_busy>> => OneOwn'
           /\ OneJob => \E k : /\ d_jobs' = {k} /\ d_jobs = {j}
                               /\ k = [own |-> j.own, todo |-> todo, buf |-> buf]
<1>1. j \in Jobs
  BY DEF DevicesTypes
<1>2. PICK k : k = [j EXCEPT !.todo = todo, !.buf = buf]
  OBVIOUS
<1>3. k = [own |-> j.own, todo |-> todo, buf |-> buf] /\ k \in Jobs
  <2>1. /\ j.own \in BOOLEAN
        /\ \A own \in BOOLEAN : [own |-> own, todo |-> todo, buf |-> buf] \in Jobs
        /\ k = [j EXCEPT !.todo = todo, !.buf = buf] => k = [own |-> j.own, todo |-> todo, buf |-> buf]
    BY <1>1, JobParts
  <2> QED
    BY <1>2, <2>1
<1>4. d_jobs' = (d_jobs \ {j}) \cup {k}
  BY <1>2 DEF Devices!Moved
<1>5. OneJob => d_jobs = {j}
  BY DEF OneJob
<1>6. OneOwn /\ UNCHANGED <<d_page, d_busy>> => OneOwn'
  <2>1. k.own = j.own
    BY <1>3
  <2> QED
    BY <1>4, <2>1 DEF OneOwn
<1> QED
  BY <1>3, <1>4, <1>5, <1>6 DEF DevicesTypes

\* A structure that is copied from memory is one of the buffers.
LEMMA CopiesAreBuffers ==
    ASSUME DevicesTypes, NEW f \in DeviceFiles
    PROVE  [x \in Devices!FieldsOf(f) |-> d_mem[x]] \in Buffers
<1>1. Devices!FieldsOf(f) \subseteq Devices!FruFields \cup Devices!SettingFields
  BY DEF Devices!FieldsOf, DeviceFiles, Devices!FruFields, Devices!SettingFields
<1>2. [x \in Devices!FieldsOf(f) |-> d_mem[x]] \in [Devices!FieldsOf(f) -> Nat]
  BY <1>1 DEF DevicesTypes
<1> QED
  BY <1>2 DEF Buffers

\* A file is opened: it is empty, and no longer counted as written.
LEMMA OpenFileStep ==
    ASSUME DevicesInv, NEW j \in d_jobs, Devices!OpenFile(j)
    PROVE  DevicesInv'
<1>1. PICK f, todo : f = Head(j.todo) /\ todo = j.todo
  OBVIOUS
<1>2. todo \in Seq(DeviceFiles) /\ todo # <<>> /\ f \in DeviceFiles /\ f = Head(todo)
  <2>1. j \in Jobs /\ j.todo # <<>>
    BY DEF Devices!OpenFile, DevicesInv, DevicesTypes
  <2> QED
    BY <1>1, <2>1, JobParts, TodoTail
<1>3. PICK buf : buf = [x \in Devices!FieldsOf(f) |-> d_mem[x]]
  OBVIOUS
<1>4. /\ d_files' = [d_files EXCEPT ![f] = Devices!Empty]
      /\ d_jobs' = Devices!Moved(j, todo, buf) /\ d_written' = d_written \ {f}
      /\ UNCHANGED <<d_edge, d_page, d_busy, d_setting, d_mem, d_sets, d_crossed, d_forgotten>>
  BY <1>1, <1>3 DEF Devices!OpenFile
<1>5. buf \in Buffers
  BY <1>2, <1>3, CopiesAreBuffers DEF DevicesInv
<1>6. DevicesTypes' /\ OneOwn'
  BY <1>2, <1>4, <1>5, MovedJob DEF DevicesInv, DevicesTypes
<1>7. Alone' = Alone /\ d_edge
  BY <1>4 DEF Alone, DevicesInv
<1> SUFFICES ASSUME Alone PROVE OneJob' /\ MemoryIsDisplayed' /\ FruIsWritten' /\ SettingsAreWritten'
  BY <1>4, <1>6, <1>7 DEF DevicesInv
<1>8. OneJob /\ MemoryIsDisplayed /\ FruIsWritten /\ SettingsAreWritten
  BY DEF DevicesInv
<1>9. PICK k : d_jobs' = {k} /\ d_jobs = {j} /\ k = [own |-> j.own, todo |-> todo, buf |-> buf]
  BY <1>2, <1>4, <1>5, <1>8, MovedJob DEF DevicesInv
<1>10. k.todo = j.todo /\ k.buf = buf /\ k.todo # <<>> /\ f = Head(k.todo)
  BY <1>1, <1>2, <1>9
<1>11. \A g : Pending(g)' = Pending(g)
  BY <1>9, <1>10 DEF Pending
<1>12. OneJob'
  BY <1>3, <1>4, <1>9, <1>10 DEF OneJob
<1>13. MemoryIsDisplayed'
  BY <1>4, <1>8, <1>9, <1>10 DEF MemoryIsDisplayed
<1>14. \A g \in d_written' : g \in d_written /\ (g \in DeviceFiles => d_files'[g] = d_files[g])
  BY <1>4 DEF DevicesInv, DevicesTypes
<1>15. FruIsWritten'
  BY <1>4, <1>8, <1>11, <1>14 DEF FruIsWritten, DeviceFiles
<1>16. SettingsAreWritten'
  BY <1>4, <1>8, <1>11, <1>14 DEF SettingsAreWritten, DeviceFiles
<1> QED
  BY <1>12, <1>13, <1>15, <1>16

\* A file is closed: it has what the memory has.
LEMMA CloseFileStep ==
    ASSUME DevicesInv, NEW j \in d_jobs, Devices!CloseFile(j)
    PROVE  DevicesInv'
<1>1. PICK f, todo, buf : f = Head(j.todo) /\ todo = Tail(j.todo) /\ buf = j.buf
  OBVIOUS
<1>2. /\ todo \in Seq(DeviceFiles) /\ f \in DeviceFiles /\ Todo(j.todo) = {f} \cup Todo(todo)
      /\ Devices!Empty \in Buffers
  <2>1. j \in Jobs /\ j.todo # <<>>
    BY DEF Devices!CloseFile, DevicesInv, DevicesTypes
  <2> QED
    BY <1>1, <2>1, JobParts, TodoTail DEF Buffers
<1>3. /\ buf # Devices!Empty /\ d_files' = [d_files EXCEPT ![f] = buf]
      /\ d_jobs' = Devices!Moved(j, todo, Devices!Empty) /\ d_written' = d_written \cup {f}
      /\ UNCHANGED <<d_edge, d_page, d_busy, d_setting, d_mem, d_sets, d_crossed, d_forgotten>>
  BY <1>1 DEF Devices!CloseFile
<1>4. DevicesTypes' /\ OneOwn'
  BY <1>2, <1>3, MovedJob DEF DevicesInv, DevicesTypes
<1>5. Alone' = Alone /\ d_edge
  BY <1>3 DEF Alone, DevicesInv
<1> SUFFICES ASSUME Alone PROVE OneJob' /\ MemoryIsDisplayed' /\ FruIsWritten' /\ SettingsAreWritten'
  BY <1>3, <1>4, <1>5 DEF DevicesInv
<1>6. OneJob /\ MemoryIsDisplayed /\ FruIsWritten /\ SettingsAreWritten
  BY DEF DevicesInv
<1>7. PICK k : d_jobs' = {k} /\ d_jobs = {j} /\ k = [own |-> j.own, todo |-> todo, buf |-> Devices!Empty]
  BY <1>2, <1>3, <1>6, MovedJob DEF DevicesInv
<1>8. k.todo = todo /\ k.buf = Devices!Empty
  BY <1>7
<1>9. buf = [x \in Devices!FieldsOf(f) |-> d_mem[x]]
  BY <1>1, <1>3, <1>6 DEF OneJob
<1>10. \A g : (Pending(g) => g = f \/ Pending(g)') /\ (Pending(g)' => Pending(g))
  BY <1>2, <1>7, <1>8 DEF Pending
<1>11. OneJob'
  BY <1>7, <1>8 DEF OneJob
<1>12. MemoryIsDisplayed'
  BY <1>2, <1>3, <1>6, <1>7, <1>8 DEF MemoryIsDisplayed
<1>13. /\ d_files'[f] = [x \in Devices!FieldsOf(f) |-> d_mem[x]]
       /\ \A g \in DeviceFiles \ {f} : d_files'[g] = d_files[g]
  BY <1>2, <1>3, <1>9 DEF DevicesInv, DevicesTypes
<1>14. FruIsWritten'
  <2> SUFFICES ASSUME NEW g \in {"board", "product", "chassis"}, g \in d_written \cup {f}
               PROVE  d_files'[g][g] = d_mem[g] \/ Pending(g)'
    BY <1>3 DEF FruIsWritten
  <2>1. CASE g = f
    BY <1>13, <2>1 DEF Devices!FieldsOf
  <2>2. CASE g # f
    BY <1>6, <1>10, <1>13, <2>2 DEF FruIsWritten, DeviceFiles
  <2> QED
    BY <2>1, <2>2
<1>15. SettingsAreWritten'
  <2>1. ASSUME NEW g \in {"web", "ssh"}, g \in d_written \cup {f}
        PROVE  (\A x \in Devices!FieldsOf(g) : d_files'[g][x] = d_setting[x]) \/ Pending(g)'
    <3>1. CASE g = f
      <4>1. Devices!FieldsOf(g) \cap d_forgotten = {} /\ Devices!FieldsOf(g) \subseteq Displayed
        BY <1>2, <1>6, <3>1 DEF MemoryIsDisplayed, Devices!FieldsOf, Displayed
      <4>2. \A x \in Devices!FieldsOf(g) : d_mem[x] = d_setting[x]
        BY <1>6, <4>1 DEF MemoryIsDisplayed
      <4> QED
        BY <1>13, <3>1, <4>2
    <3>2. CASE g # f
      BY <1>6, <1>10, <1>13, <2>1, <3>2 DEF SettingsAreWritten, DeviceFiles
    <3> QED
      BY <3>1, <3>2
  <2>2. ASSUME "kvm" \in d_written \cup {f}
        PROVE  (\A x \in {"kvm", "proxy"} \ d_forgotten : d_files'.kvm[x] = d_setting[x]) \/ Pending("kvm")'
    <3>1. CASE "kvm" = f
      <4>1. Devices!FieldsOf("kvm") = {"kvm", "proxy"}
        BY DEF Devices!FieldsOf
      <4>2. \A x \in {"kvm", "proxy"} \ d_forgotten : d_mem[x] = d_setting[x]
        BY <1>6 DEF MemoryIsDisplayed, Displayed
      <4> QED
        BY <1>13, <3>1, <4>1, <4>2
    <3>2. CASE "kvm" # f
      BY <1>6, <1>10, <1>13, <2>2, <3>2 DEF SettingsAreWritten, DeviceFiles
    <3> QED
      BY <3>1, <3>2
  <2> QED
    BY <1>3, <2>1, <2>2 DEF SettingsAreWritten
<1> QED
  BY <1>11, <1>12, <1>14, <1>15

\* A thread that has nothing left to write ends.
LEMMA AnswerStep ==
    ASSUME DevicesInv, NEW j \in d_jobs, Devices!Answer(j)
    PROVE  DevicesInv'
<1>1. /\ j.todo = <<>> /\ d_jobs' = d_jobs \ {j}
      /\ d_page' = IF j.own THEN Tail(d_page) ELSE d_page
      /\ d_busy' = (d_busy /\ ~j.own)
      /\ UNCHANGED <<d_edge, d_setting, d_mem, d_files, d_sets, d_written, d_crossed, d_forgotten>>
  BY DEF Devices!Answer
<1>2. DevicesTypes' /\ OneOwn'
  <2>1. j.own => d_page # <<>> /\ Tail(d_page) \in Seq(CommandSet)
    BY HeadTailProperties DEF DevicesInv, DevicesTypes, OneOwn
  <2>2. j.own \in BOOLEAN
    BY JobParts DEF DevicesInv, DevicesTypes
  <2> QED
    BY <1>1, <2>1, <2>2 DEF DevicesInv, DevicesTypes, OneOwn
<1>3. Alone' = Alone /\ \A f : Pending(f) => Pending(f)'
  BY <1>1, TodoNothing DEF Alone, Pending
<1>4. Alone => OneJob'
  BY <1>1 DEF DevicesInv, OneJob
<1>5. Alone => MemoryIsDisplayed'
  BY <1>1 DEF DevicesInv, MemoryIsDisplayed
<1>6. Alone => FruIsWritten' /\ SettingsAreWritten'
  BY <1>1, <1>3 DEF DevicesInv, FruIsWritten, SettingsAreWritten
<1> QED
  BY <1>1, <1>2, <1>3, <1>4, <1>5, <1>6 DEF DevicesInv

\* KETI-Edge ends, and starts with the defaults and nothing written.
LEMMA EdgeSteps == DevicesInv /\ (Devices!EdgeDie \/ Devices!EdgeStart) => DevicesInv'
<1> SUFFICES ASSUME DevicesInv, Devices!EdgeDie \/ Devices!EdgeStart PROVE DevicesInv'
  OBVIOUS
<1>1. CASE Devices!EdgeDie
  BY <1>1 DEF Devices!EdgeDie, DevicesInv, DevicesTypes, OneOwn, Alone
<1>2. CASE Devices!EdgeStart
  <2>1. /\ d_edge' = TRUE /\ d_jobs' = {} /\ d_written' = {} /\ d_forgotten' = {} /\ d_crossed' = FALSE
        /\ UNCHANGED <<d_page, d_busy, d_files, d_sets>>
    BY <1>2 DEF Devices!EdgeStart, DevicesInv
  <2>2. /\ d_setting' = [x \in Devices!SettingFields |-> 0]
        /\ d_mem' = [x \in Devices!FruFields \cup Devices!SettingFields |-> 0]
    BY <1>2 DEF Devices!EdgeStart, Devices!Defaults
  <2>3. DevicesTypes'
    BY <2>1, <2>2 DEF DevicesInv, DevicesTypes
  <2>4. OneOwn' /\ OneJob' /\ FruIsWritten' /\ SettingsAreWritten'
    BY <2>1 DEF OneOwn, OneJob, FruIsWritten, SettingsAreWritten
  <2>5. MemoryIsDisplayed'
    BY <2>1, <2>2 DEF MemoryIsDisplayed, Displayed, Devices!SettingFields
  <2> QED
    BY <2>1, <2>3, <2>4, <2>5 DEF DevicesInv
<1> QED
  BY <1>1, <1>2

\* KETI-Edge runs and nothing was written.
LEMMA DevicesInitInv == Devices!Init => DevicesInv
<1> SUFFICES ASSUME Devices!Init PROVE DevicesInv
  OBVIOUS
<1>1. /\ d_edge = TRUE /\ d_page = <<>> /\ d_busy = FALSE /\ d_jobs = {} /\ d_sets = 0
      /\ d_setting = [x \in Devices!SettingFields |-> 0]
      /\ d_mem = [x \in Devices!FruFields \cup Devices!SettingFields |-> 0]
      /\ d_written = {} /\ d_crossed = FALSE /\ d_forgotten = {}
  BY DEF Devices!Init, Devices!Defaults
<1>2. DOMAIN d_files = DeviceFiles
  BY DEF Devices!Init, Devices!SettingFiles, Devices!FruFiles, DeviceFiles
<1>3. DevicesTypes
  BY <1>1, <1>2, EmptySeq DEF DevicesTypes
<1>4. OneOwn /\ OneJob /\ FruIsWritten /\ SettingsAreWritten
  BY <1>1 DEF OneOwn, OneJob, FruIsWritten, SettingsAreWritten
<1>5. MemoryIsDisplayed
  BY <1>1 DEF MemoryIsDisplayed, Displayed, Devices!SettingFields
<1> QED
  BY <1>1, <1>3, <1>4, <1>5 DEF DevicesInv

\* DevicesInv holds in every state of the component.
THEOREM DevicesInvariance == Spec => [](focus = "devices" => DevicesInv)
<1>1. Init => (focus = "devices" => DevicesInv)
  BY DevicesInitInv DEF Init
<1>2. (focus = "devices" => DevicesInv) /\ [Next]_serviceVars => (focus = "devices" => DevicesInv)'
  <2>1. UNCHANGED <<focus, devicesVars>> /\ DevicesInv => DevicesInv'
    BY DEF devicesVars, DevicesInv, DevicesTypes, OneOwn, Alone, OneJob, MemoryIsDisplayed, FruIsWritten,
       SettingsAreWritten, Pending
  <2>2. DevicesInv /\ Devices!Next => DevicesInv'
    BY StartPageStep, WebDieStep, TakeStep, OpenFileStep, CloseFileStep, AnswerStep, EdgeSteps
       DEF Devices!Next
  <2> QED
    BY <2>1, <2>2 DEF Next, serviceVars
<1> QED
  BY <1>1, <1>2, PTL DEF Spec, serviceVars

\* When no two commands have overlapped since the start, each file that was
\* written and should have what the FRU page set in memory has it.
THEOREM FruFilesAreRight == Spec => []FruFilesFollowMemory
<1>1. DevicesInv => Devices!FruFilesFollowMemory
  BY DEF DevicesInv, Alone, FruIsWritten, Pending, Devices!FruFilesFollowMemory, Devices!Quiet
<1> QED
  BY <1>1, DevicesInvariance, PTL DEF FruFilesFollowMemory

\* So has each file of a service what the services page displays, but for
\* alerts and for what a display has forgotten.
THEOREM SettingFilesAreRight == Spec => []SettingFilesFollowDisplay
<1>1. DevicesInv => Devices!SettingFilesFollowDisplay
  BY DEF DevicesInv, Alone, SettingsAreWritten, Pending, Devices!SettingFilesFollowDisplay, Devices!Quiet
<1> QED
  BY <1>1, DevicesInvariance, PTL DEF SettingFilesFollowDisplay

-----------------------------------------------------------------------------
(* Requests: the inductive invariant.                                      *)

Ops == {"none", "make", "remove", "insert", "eject"} \cup DOMAIN Requests!Handled
Building == {"made", "unmounted", "mounted", "refused"}
Places == {"idle", "task", "treat", "allocated", "found", "released", "deleted", "complete", "reply"}
          \cup Building
Work == [at : Places, op : Ops, kind : Requests!Kinds, n : Requests!Numbers, task : Requests!Numbers]

\* What the variables hold.
RequestsTypes ==
    /\ r_pc \in {"up", "down", "failed"}
    /\ r_thread \in [Threads -> Work]
    /\ r_taken \in [Requests!Kinds -> SUBSET Requests!Numbers]
    /\ r_rec \in [Requests!Kinds -> SUBSET Requests!Numbers]
    /\ r_files \in [Requests!Kinds -> SUBSET Requests!Numbers]
    /\ r_listed \in [Requests!Kinds -> [Requests!Numbers -> Nat]]
    /\ DOMAIN r_last = Requests!Kinds
    /\ r_mount \in Seq(Requests!Media \X Requests!Numbers)
    /\ r_stacked \in BOOLEAN

\* Which requests come to which place.
ThreadsInOrder ==
    /\ r_pc = "down" => \A t \in Threads : r_thread[t].at = "idle"
    /\ \A t \in Threads :
          /\ r_thread[t].op = "make" => r_thread[t].kind = "sub"
          /\ r_thread[t].op = "remove" => r_thread[t].kind = "sub"
          /\ r_thread[t].op \in {"insert", "eject"} => r_thread[t].kind \in Requests!Media
          /\ r_thread[t].at = "allocated" => r_thread[t].op \in {"make", "insert"}
          /\ r_thread[t].at \in Building => r_thread[t].op = "insert"
          /\ r_thread[t].at \in {"found", "released", "deleted"} => r_thread[t].op \in {"remove", "eject"}

\* What thread t is doing with number n of kind k.
Stage(t, k, n) ==
    IF r_thread[t].kind # k \/ r_thread[t].n # n THEN "none"
    ELSE IF r_thread[t].at \in Building THEN "building"
    ELSE IF r_thread[t].at \in {"found", "released", "deleted"} THEN r_thread[t].at
    ELSE "none"

\* Where number n is then: in the set of the numbers taken, in g_record, in the
\* files and in the list of the collection.
Whole(k, n) == n \in r_taken[k] /\ n \in r_rec[k] /\ n \in r_files[k] /\ r_listed[k][n] = 1
Absent(k, n) == n \notin r_taken[k] /\ n \notin r_rec[k] /\ n \notin r_files[k] /\ r_listed[k][n] = 0
Begun(k, n) == n \in r_taken[k] /\ n \in r_rec[k] /\ n \notin r_files[k] /\ r_listed[k][n] = 0
Given(k, n) == n \notin r_taken[k] /\ n \in r_rec[k] /\ n \in r_files[k] /\ r_listed[k][n] = 1
Unfiled(k, n) == n \notin r_taken[k] /\ n \notin r_rec[k] /\ n \in r_files[k] /\ r_listed[k][n] = 0

OthersAt(t, k, n, stages) == \A u \in Threads \ {t} : Stage(u, k, n) \in stages

\* A number is all there or not at all, or one thread makes or removes its
\* record; others that have found it may come too late.
RecordState(k, n) ==
    /\ \A t \in Threads :
          /\ Stage(t, k, n) = "building" => Begun(k, n) /\ OthersAt(t, k, n, {"none"})
          /\ Stage(t, k, n) = "released" => Given(k, n) /\ OthersAt(t, k, n, {"none", "found"})
          /\ Stage(t, k, n) = "deleted" => Unfiled(k, n) /\ OthersAt(t, k, n, {"none", "found"})
    /\ (\A t \in Threads : Stage(t, k, n) \in {"none", "found"}) => Whole(k, n) \/ Absent(k, n)

RecordsAgree ==
    r_pc = "up" =>
        \A k \in Requests!Kinds \ r_crossed : \A n \in Requests!Numbers : RecordState(k, n)

\* The number of a task is not given again.
TasksAreKept ==
    "task" \notin r_crossed =>
        /\ r_finished \subseteq r_files["task"] /\ r_finished \subseteq r_doneFile
        /\ r_pc = "up" =>
               /\ r_finished \subseteq r_done
               /\ \A t \in Threads :
                     /\ r_thread[t].at \notin {"idle", "task"} => r_thread[t].task \in r_taken["task"]
                     /\ r_thread[t].at = "reply" => r_thread[t].task \in r_done \cap r_doneFile

\* A medium that is mounted is about to be listed, or listed and not on its way
\* out of the list.
MediumIsKept(m) ==
    \/ m \in r_cut
    \/ /\ r_pc = "up"
       /\ \/ \E t \in Threads : Stage(t, m[1], m[2]) = "building" /\ r_thread[t].at = "mounted"
          \/ r_listed[m[1]][m[2]] > 0 /\ \A t \in Threads : Stage(t, m[1], m[2]) = "none"
    \/ r_pc = "down" /\ m[2] \in r_files[m[1]]

MountsAreKept ==
    ~r_stacked =>
        /\ Len(r_mount) <= 1
        /\ r_crossed = {} /\ r_pc # "failed" => \A i \in 1 .. Len(r_mount) : MediumIsKept(r_mount[i])

RequestsInv ==
    /\ RequestsTypes /\ ThreadsInOrder /\ RecordsAgree /\ TasksAreKept /\ MountsAreKept
    /\ Requests!FailsOnlyByOverlap

-----------------------------------------------------------------------------
(* Requests: numbers, threads and what a step leaves alone.                *)

\* The least number of a set that is not empty is in it.
LEMMA MinIsLeast ==
    ASSUME NEW S, S \subseteq Nat, S # {}
    PROVE  Requests!Min(S) \in S
<1>1. \E x \in S : \A y \in S : x <= y
  BY LeastOf
<1> QED
  BY <1>1 DEF Requests!Min

\* allocate_numset_num gives a number that is not in use, if it returns.
LEMMA AllocatedIsNumber ==
    ASSUME NEW used, NEW from, Requests!Allocatable(used, from)
    PROVE  Requests!Allocated(used, from) \in Requests!Numbers
<1> DEFINE all   == Requests!Candidates(used, from)
           above == {n \in all : n >= from}
<1>1. all \subseteq Requests!Numbers /\ Requests!Numbers \subseteq Nat /\ all # {} /\ above \subseteq all
  BY NumbersAssumption DEF NumbersAssumption, Requests!Candidates, Requests!Numbers, Requests!Allocatable
<1>2. Requests!Allocated(used, from) = IF above # {} THEN Requests!Min(above) ELSE Requests!Min(all)
  BY DEF Requests!Allocated
<1> HIDE DEF all, above
<1>3. above # {} => Requests!Min(above) \in above
  BY <1>1, MinIsLeast
<1>4. Requests!Min(all) \in all
  BY <1>1, MinIsLeast
<1> QED
  BY <1>1, <1>2, <1>3, <1>4

\* What a request asks for.
LEMMA ReceivedAre ==
    ASSUME NEW r \in Requests!Received
    PROVE  /\ r.op \in Ops \ {"none"} /\ r.kind \in Requests!Kinds
           /\ r.op \in {"make", "remove"} => r.kind = "sub"
           /\ r.op \in {"insert", "eject"} => r.kind \in Requests!Media
  BY DEF Requests!Received, Requests!Numbered, Ops, Requests!Handled, Requests!Kinds, Requests!Media

\* A thread that is idle, or whose answer is ready, does nothing with a number.
LEMMA IdleIsWork == Requests!Idle \in Work /\ Requests!Idle.at = "idle" /\ Requests!Idle.op = "none"
  BY NumbersAssumption DEF NumbersAssumption, Requests!Idle, Work, Places, Ops, Requests!Kinds,
     Requests!Numbers

\* A thread takes one stage of four with a number.
LEMMA StagesAre ==
    ASSUME NEW t, NEW k, NEW n
    PROVE  /\ Stage(t, k, n) \in {"none", "building", "found", "released", "deleted"}
           /\ Stage(t, k, n) # "none" => r_thread[t].kind = k /\ r_thread[t].n = n
  BY DEF Stage

\* A step that leaves the sets at a number alone, and what each thread is doing
\* with it, leaves its state alone.
LEMMA RecordFrame ==
    ASSUME NEW k, NEW n, RecordState(k, n),
           \A u \in Threads : Stage(u, k, n)' = Stage(u, k, n),
           n \in r_taken'[k] <=> n \in r_taken[k], n \in r_rec'[k] <=> n \in r_rec[k],
           n \in r_files'[k] <=> n \in r_files[k], r_listed'[k][n] = r_listed[k][n]
    PROVE  RecordState(k, n)'
<1>1. /\ Whole(k, n)' <=> Whole(k, n)
      /\ Absent(k, n)' <=> Absent(k, n)
      /\ Begun(k, n)' <=> Begun(k, n)
      /\ Given(k, n)' <=> Given(k, n)
      /\ Unfiled(k, n)' <=> Unfiled(k, n)
  BY DEF Whole, Absent, Begun, Given, Unfiled
<1>2. ASSUME NEW t, NEW s PROVE OthersAt(t, k, n, s)' <=> OthersAt(t, k, n, s)
  BY DEF OthersAt
<1> QED
  BY <1>1, <1>2 DEF RecordState

-----------------------------------------------------------------------------
(* Requests: the moves of a thread.                                        *)

Stays(u) == r_thread'[u] = r_thread[u]

\* The answer is ready: the thread keeps its task and nothing else.
LEMMA AnswersProps ==
    ASSUME RequestsTypes, NEW t \in Threads, Requests!Answers(t)
    PROVE  /\ r_thread' \in [Threads -> Work] /\ \A u \in Threads \ {t} : Stays(u)
           /\ r_thread'[t].at = "complete" /\ r_thread'[t].op = "none"
           /\ r_thread'[t].kind = "task" /\ r_thread'[t].task = r_thread[t].task
<1> DEFINE w == [Requests!Idle EXCEPT !.at = "complete", !.task = r_thread[t].task]
<1>1. r_thread \in [Threads -> Work] /\ r_thread' = [r_thread EXCEPT ![t] = w]
  BY DEF RequestsTypes, Requests!Answers
<1>2. r_thread[t].task \in Requests!Numbers /\ 0 \in Requests!Numbers
  BY <1>1, NumbersAssumption DEF NumbersAssumption, Work, Requests!Numbers
<1>3. w \in Work /\ w.at = "complete" /\ w.op = "none" /\ w.kind = "task" /\ w.task = r_thread[t].task
  BY <1>2 DEF Requests!Idle, Work, Places, Ops, Requests!Kinds
<1> HIDE DEF w
<1> QED
  BY <1>1, <1>3 DEF Stays

\* A thread comes to a place of its handler.
LEMMA GoesProps ==
    ASSUME RequestsTypes, NEW t \in Threads, NEW place \in Places, Requests!Goes(t, place)
    PROVE  /\ r_thread' \in [Threads -> Work] /\ \A u \in Threads \ {t} : Stays(u)
           /\ r_thread'[t].at = place /\ r_thread'[t].op = r_thread[t].op
           /\ r_thread'[t].kind = r_thread[t].kind /\ r_thread'[t].n = r_thread[t].n
           /\ r_thread'[t].task = r_thread[t].task
  BY DEF RequestsTypes, Requests!Goes, Work, Stays

\* A thread comes to a place with a number.
LEMMA FindsProps ==
    ASSUME RequestsTypes, NEW t \in Threads, NEW place \in Places, NEW n \in Requests!Numbers,
           Requests!Finds(t, place, n)
    PROVE  /\ r_thread' \in [Threads -> Work] /\ \A u \in Threads \ {t} : Stays(u)
           /\ r_thread'[t].at = place /\ r_thread'[t].op = r_thread[t].op
           /\ r_thread'[t].kind = r_thread[t].kind /\ r_thread'[t].n = n
           /\ r_thread'[t].task = r_thread[t].task
  BY ZenonT(60) DEF RequestsTypes, Requests!Finds, Work, Stays

\* A thread that stays is at the same stage.
LEMMA StageStays ==
    ASSUME NEW u, Stays(u), NEW k, NEW n
    PROVE  Stage(u, k, n)' = Stage(u, k, n)
  BY DEF Stays, Stage

\* One more member of a collection.
LEMMA ListsProps ==
    ASSUME RequestsTypes, NEW k \in Requests!Kinds, NEW n \in Requests!Numbers, Requests!Lists(k, n)
    PROVE  /\ r_listed' \in [Requests!Kinds -> [Requests!Numbers -> Nat]]
           /\ r_listed'[k][n] = r_listed[k][n] + 1
           /\ \A j \in Requests!Kinds, m \in Requests!Numbers :
                 j # k \/ m # n => r_listed'[j][m] = r_listed[j][m]
<1>1. r_listed[k] \in [Requests!Numbers -> Nat] /\ r_listed[k][n] \in Nat
  BY DEF RequestsTypes
<1>2. r_listed' = [r_listed EXCEPT ![k] = [r_listed[k] EXCEPT ![n] = r_listed[k][n] + 1]]
  BY DEF Requests!Lists
<1>3. r_listed'[k] = [r_listed[k] EXCEPT ![n] = r_listed[k][n] + 1]
      /\ \A j \in Requests!Kinds \ {k} : r_listed'[j] = r_listed[j]
  BY <1>2 DEF RequestsTypes
<1> QED
  BY <1>1, <1>2, <1>3 DEF RequestsTypes

\* Every thread but t stays, and t is not at the place its answer is given from
\* afterwards: no task is disturbed.
LEMMA TasksFrame ==
    ASSUME RequestsInv, NEW t \in Threads, \A u \in Threads \ {t} : Stays(u),
           r_thread[t].at \notin {"idle", "task"}, r_thread'[t].at # "reply",
           r_thread'[t].task = r_thread[t].task \/ r_thread'[t].at = "idle",
           r_taken'["task"] = r_taken["task"], r_files'["task"] = r_files["task"],
           r_done' = r_done, r_doneFile' = r_doneFile, r_finished' = r_finished,
           r_crossed \subseteq r_crossed', r_pc' = r_pc \/ r_pc' = "failed"
    PROVE  TasksAreKept'
<1> SUFFICES ASSUME "task" \notin r_crossed' PROVE TasksAreKept'
  BY DEF TasksAreKept
<1>1. "task" \notin r_crossed /\ TasksAreKept
  BY DEF RequestsInv
<1> QED
  BY <1>1 DEF TasksAreKept, Stays

\* What is mounted stays as it is if no stage and no list of a medium changes.
LEMMA MountsFrame ==
    ASSUME RequestsInv, r_pc = "up", r_pc' = "up", r_mount' = r_mount, r_stacked' = r_stacked,
           r_cut' = r_cut, r_crossed \subseteq r_crossed',
           \A k \in Requests!Media, n \in Requests!Numbers, u \in Threads :
              r_crossed' = {} /\ <<k, n>> \notin r_cut =>
              /\ Stage(u, k, n) = "building" /\ r_thread[u].at = "mounted" =>
                    Stage(u, k, n)' = "building" /\ r_thread'[u].at = "mounted"
              /\ MediumIsKept(<<k, n>>) /\ Stage(u, k, n) = "none" => Stage(u, k, n)' = "none",
           \A k \in Requests!Media, n \in Requests!Numbers :
              r_listed[k][n] > 0 => r_listed'[k][n] > 0
    PROVE  MountsAreKept'
<1> SUFFICES ASSUME ~r_stacked PROVE MountsAreKept'
  BY DEF MountsAreKept
<1>1. Len(r_mount') <= 1 /\ r_mount \in Seq(Requests!Media \X Requests!Numbers)
  BY DEF RequestsInv, MountsAreKept, RequestsTypes
<1>2. ASSUME r_crossed' = {}, NEW i \in 1 .. Len(r_mount) PROVE MediumIsKept(r_mount[i])'
  <2>1. r_mount[i] \in Requests!Media \X Requests!Numbers
    BY <1>1, <1>2, ElementOfSeq
  <2>2. PICK k \in Requests!Media, n \in Requests!Numbers : r_mount[i] = <<k, n>>
    BY <2>1
  <2>3. r_crossed = {} /\ MediumIsKept(<<k, n>>)
    BY <1>2, <2>2 DEF RequestsInv, MountsAreKept
  <2>4. MediumIsKept(<<k, n>>)'
    BY <1>2, <2>3 DEF MediumIsKept
  <2> QED
    BY <2>2, <2>4
<1> QED
  BY <1>1, <1>2 DEF MountsAreKept

-----------------------------------------------------------------------------
(* Requests: the steps from the request to the answer.                     *)

\* A step of a thread that has no number before and after, and changes no set
\* of a kind but that of the tasks.
LEMMA RecordsFrame ==
    ASSUME RequestsInv, r_pc = "up", NEW t \in Threads, \A u \in Threads \ {t} : Stays(u),
           r_crossed \subseteq r_crossed',
           NEW ks \in SUBSET Requests!Kinds,
           \A k \in ks : /\ r_taken'[k] = r_taken[k] /\ r_rec'[k] = r_rec[k]
                         /\ r_files'[k] = r_files[k] /\ r_listed'[k] = r_listed[k],
           \A k \in ks, n \in Requests!Numbers : Stage(t, k, n)' = Stage(t, k, n)
    PROVE  \A k \in ks \ r_crossed', n \in Requests!Numbers : RecordState(k, n)'
<1> SUFFICES ASSUME NEW k \in ks \ r_crossed', NEW n \in Requests!Numbers PROVE RecordState(k, n)'
  OBVIOUS
<1>1. RecordState(k, n)
  BY DEF RequestsInv, RecordsAgree
<1>2. \A u \in Threads : Stage(u, k, n)' = Stage(u, k, n)
  BY StageStays
<1> QED
  BY <1>1, <1>2, RecordFrame

\* A number for a task is found.
LEMMA ReceiveStep == ASSUME NEW t \in Threads PROVE RequestsInv /\ Requests!Receive(t) => RequestsInv'
<1> SUFFICES ASSUME RequestsInv, Requests!Receive(t) PROVE RequestsInv'
  OBVIOUS
<1> DEFINE m == Requests!Allocated(r_taken["task"], r_last["task"])
<1>1. PICK r \in Requests!Received :
         r_thread' = [r_thread EXCEPT ![t] = [Requests!Idle EXCEPT !.at = "task", !.op = r.op,
                                                                   !.kind = r.kind, !.task = m]]
  BY Zenon DEF Requests!Receive
<1>2. m \in Requests!Numbers
  BY AllocatedIsNumber DEF Requests!Receive
<1> HIDE DEF m
<1>3. /\ r_pc = "up" /\ r_pc' = "up" /\ r_thread[t].at = "idle" /\ r_taken' = r_taken
      /\ r_rec' = r_rec /\ r_listed' = r_listed /\ r_files' = r_files /\ r_done' = r_done
      /\ r_doneFile' = r_doneFile /\ r_mount' = r_mount /\ r_crossed' = r_crossed
      /\ r_stacked' = r_stacked /\ r_cut' = r_cut /\ r_finished' = r_finished /\ r_last' = r_last
  BY DEF Requests!Receive, Requests!At
<1>4. RequestsTypes /\ r_thread \in [Threads -> Work]
  BY DEF RequestsInv, RequestsTypes
<1> DEFINE w == [Requests!Idle EXCEPT !.at = "task", !.op = r.op, !.kind = r.kind, !.task = m]
<1>5. w \in Work /\ w.at = "task" /\ w.op = r.op /\ w.kind = r.kind
  <2>1. r.op \in Ops /\ r.kind \in Requests!Kinds /\ 0 \in Requests!Numbers /\ "task" \in Places
    BY ReceivedAre, NumbersAssumption DEF NumbersAssumption, Places, Requests!Numbers
  <2> QED
    BY <1>2, <2>1 DEF Requests!Idle, Work
<1>6. r_thread' \in [Threads -> Work] /\ r_thread'[t] = w /\ \A u \in Threads \ {t} : Stays(u)
  BY <1>1, <1>4, <1>5 DEF Stays
<1> HIDE DEF w
<1>7. RequestsTypes'
  BY <1>3, <1>4, <1>6 DEF RequestsTypes
<1>8. ThreadsInOrder'
  BY <1>3, <1>5, <1>6, ReceivedAre DEF RequestsInv, ThreadsInOrder, Stays, Building, Requests!Received
<1>9. \A k, n : Stage(t, k, n)' = "none" /\ Stage(t, k, n) = "none"
  BY <1>3, <1>5, <1>6 DEF Stage, Building
<1>10. RecordsAgree'
  BY <1>3, <1>6, <1>9, RecordsFrame DEF RecordsAgree
<1>11. TasksAreKept'
  BY <1>3, <1>5, <1>6 DEF RequestsInv, TasksAreKept, Stays
<1>12. MountsAreKept'
  BY <1>3, <1>6, <1>9, StageStays, MountsFrame DEF Stays
<1> QED
  BY <1>3, <1>7, <1>8, <1>10, <1>11, <1>12 DEF RequestsInv, Requests!FailsOnlyByOverlap

\* The task is made under its number.
LEMMA GenerateStep ==
    ASSUME NEW t \in Threads
    PROVE  RequestsInv /\ Requests!generate_task_resource(t) => RequestsInv'
<1> SUFFICES ASSUME RequestsInv, Requests!generate_task_resource(t) PROVE RequestsInv'
  OBVIOUS
<1>0. PICK n \in Requests!Numbers : n = r_thread[t].task
  BY DEF RequestsInv, RequestsTypes, Work
<1>1. /\ r_pc = "up" /\ r_pc' = "up" /\ r_thread[t].at = "task" /\ Requests!Lists("task", n)
      /\ r_taken' = [r_taken EXCEPT !["task"] = @ \cup {n}]
      /\ r_last' = [r_last EXCEPT !["task"] = n]
      /\ r_rec' = [r_rec EXCEPT !["task"] = @ \cup {n}]
      /\ r_files' = [r_files EXCEPT !["task"] = @ \cup {n}]
      /\ r_done' = r_done \ {n} /\ r_doneFile' = r_doneFile \ {n}
      /\ r_crossed' = IF n \in r_taken["task"] THEN r_crossed \cup {"task"} ELSE r_crossed
      /\ Requests!Goes(t, "treat") /\ r_mount' = r_mount /\ r_stacked' = r_stacked
      /\ r_cut' = r_cut /\ r_finished' = r_finished
  BY <1>0 DEF Requests!generate_task_resource, Requests!At, Requests!Takes
<1>2. RequestsTypes /\ r_thread \in [Threads -> Work] /\ "task" \in Requests!Kinds
  BY DEF RequestsInv, RequestsTypes, Requests!Kinds
<1>3. /\ r_listed' \in [Requests!Kinds -> [Requests!Numbers -> Nat]]
      /\ r_listed'["task"][n] = r_listed["task"][n] + 1
      /\ \A j \in Requests!Kinds, m \in Requests!Numbers :
            j # "task" \/ m # n => r_listed'[j][m] = r_listed[j][m]
  BY <1>1, <1>2, ListsProps
<1>4. /\ r_thread' \in [Threads -> Work] /\ \A u \in Threads \ {t} : Stays(u)
      /\ r_thread'[t].at = "treat" /\ r_thread'[t].op = r_thread[t].op
      /\ r_thread'[t].kind = r_thread[t].kind /\ r_thread'[t].task = n
  BY <1>0, <1>1, <1>2, GoesProps DEF Places
<1>5. RequestsTypes'
  BY <1>1, <1>2, <1>3, <1>4 DEF RequestsTypes
<1>6. ThreadsInOrder'
  BY <1>1, <1>4 DEF RequestsInv, ThreadsInOrder, Stays, Building
<1>7. \A k, m : Stage(t, k, m)' = "none" /\ Stage(t, k, m) = "none"
  BY <1>1, <1>4 DEF Stage, Building
<1>8. /\ \A k \in Requests!Kinds \ {"task"} : /\ r_taken'[k] = r_taken[k] /\ r_rec'[k] = r_rec[k]
                                               /\ r_files'[k] = r_files[k]
      /\ r_taken'["task"] = r_taken["task"] \cup {n} /\ r_rec'["task"] = r_rec["task"] \cup {n}
      /\ r_files'["task"] = r_files["task"] \cup {n}
  BY <1>1, <1>2 DEF RequestsTypes
<1>9. \A u \in Threads : \A m : Stage(u, "task", m) = "none" /\ Stage(u, "task", m)' = "none"
  <2>1. ASSUME NEW u \in Threads, NEW m PROVE Stage(u, "task", m) = "none"
    BY DEF Stage, RequestsInv, ThreadsInOrder, Requests!Media
  <2>2. ASSUME NEW u \in Threads, NEW m PROVE Stage(u, "task", m)' = "none"
    BY <2>1, <1>4, <1>7, StageStays
  <2> QED
    BY <2>1, <2>2
<1>10. ASSUME NEW k \in Requests!Kinds \ r_crossed', NEW m \in Requests!Numbers
       PROVE  RecordState(k, m)'
  <2>1. RecordState(k, m)
    BY <1>1 DEF RequestsInv, RecordsAgree
  <2>2. CASE k # "task" \/ m # n
    <3>1. \A u \in Threads : Stage(u, k, m)' = Stage(u, k, m)
      BY <1>4, <1>7, StageStays
    <3> QED
      BY <2>1, <2>2, <3>1, <1>3, <1>8, RecordFrame
  <2>3. CASE k = "task" /\ m = n
    <3>1. n \notin r_taken["task"]
      BY <1>1, <1>10, <2>3
    <3>2. Absent("task", n)
      BY <2>1, <2>3, <3>1, <1>9 DEF RecordState, Whole
    <3>3. Whole("task", n)'
      BY <3>2, <1>3, <1>8 DEF Absent, Whole
    <3> QED
      BY <2>3, <3>3, <1>9 DEF RecordState
  <2> QED
    BY <2>2, <2>3
<1>11. TasksAreKept'
  <2> SUFFICES ASSUME "task" \notin r_crossed' PROVE TasksAreKept'
    BY DEF TasksAreKept
  <2>1. n \notin r_taken["task"] /\ "task" \notin r_crossed
    BY <1>1
  <2>2. Absent("task", n)
    BY <1>1, <1>2, <1>9, <2>1 DEF RequestsInv, RecordsAgree, RecordState, Whole
  <2>3. n \notin r_files["task"]
    BY <2>2 DEF Absent
  <2> QED
    BY <1>1, <1>4, <1>8, <2>1, <2>3 DEF RequestsInv, TasksAreKept, Stays
<1>12. MountsAreKept'
  BY <1>1, <1>3, <1>4, <1>7, StageStays, MountsFrame DEF Stays, Requests!Media, Requests!Kinds
<1>13. RecordsAgree'
  BY <1>10 DEF RecordsAgree
<1> QED
  BY <1>1, <1>5, <1>6, <1>11, <1>12, <1>13 DEF RequestsInv, Requests!FailsOnlyByOverlap

\* No request removes a task or makes one by itself.
LEMMA TasksHaveNoStage ==
    ASSUME RequestsInv, NEW u \in Threads, NEW m
    PROVE  Stage(u, "task", m) = "none"
  BY DEF Stage, RequestsInv, ThreadsInOrder, Requests!Media

\* A step of a thread that does nothing with a number before and after, and
\* changes nothing but tasks that are done.
LEMMA QuietStep ==
    ASSUME RequestsInv, NEW t \in Threads, r_pc = "up", r_pc' = "up",
           r_thread' \in [Threads -> Work], \A u \in Threads \ {t} : Stays(u),
           UNCHANGED <<r_taken, r_last, r_rec, r_listed, r_files, r_mount, r_crossed, r_stacked, r_cut>>,
           \A k, n : Stage(t, k, n) = "none" /\ Stage(t, k, n)' = "none"
    PROVE  RequestsTypes' /\ RecordsAgree' /\ MountsAreKept' /\ Requests!FailsOnlyByOverlap'
<1>1. RequestsTypes'
  BY DEF RequestsInv, RequestsTypes
<1>2. RecordsAgree'
  BY RecordsFrame DEF RecordsAgree
<1>3. MountsAreKept'
  BY StageStays, MountsFrame DEF Stays
<1> QED
  BY <1>1, <1>2, <1>3 DEF Requests!FailsOnlyByOverlap

\* A request that touches no numbered record is carried out, or ends by an
\* exception.
LEMMA TreatStep == ASSUME NEW t \in Threads PROVE RequestsInv /\ Requests!Treat(t) => RequestsInv'
<1> SUFFICES ASSUME RequestsInv, Requests!Treat(t) PROVE RequestsInv'
  OBVIOUS
<1>1. /\ r_pc = "up" /\ r_thread[t].at = "treat"
      /\ r_thread' = [r_thread EXCEPT ![t] = Requests!Idle] \/ Requests!Answers(t)
      /\ UNCHANGED <<r_pc, r_taken, r_last, r_rec, r_listed, r_files, r_done, r_doneFile, r_mount,
                     r_crossed, r_stacked, r_cut, r_finished>>
  BY DEF Requests!Treat, Requests!At
<1>2. RequestsTypes /\ r_thread \in [Threads -> Work]
  BY DEF RequestsInv, RequestsTypes
<1>3. /\ r_thread' \in [Threads -> Work] /\ \A u \in Threads \ {t} : Stays(u)
      /\ r_thread'[t].at = "idle" \/ (r_thread'[t].at = "complete" /\ r_thread'[t].task = r_thread[t].task)
      /\ r_thread'[t].op = "none"
  BY <1>1, <1>2, AnswersProps, IdleIsWork DEF Stays
<1>4. ThreadsInOrder'
  BY <1>1, <1>3 DEF RequestsInv, ThreadsInOrder, Stays, Building
<1>5. \A k, n : Stage(t, k, n) = "none" /\ Stage(t, k, n)' = "none"
  BY <1>1, <1>3 DEF Stage, Building
<1>6. TasksAreKept'
  BY <1>1, <1>3, TasksFrame
<1> QED
  BY <1>1, <1>3, <1>4, <1>5, <1>6, QuietStep DEF RequestsInv

\* The task becomes Completed, in its file too.
LEMMA CompleteStep ==
    ASSUME NEW t \in Threads
    PROVE  RequestsInv /\ Requests!complete_task_resource(t) => RequestsInv'
<1> SUFFICES ASSUME RequestsInv, Requests!complete_task_resource(t) PROVE RequestsInv'
  OBVIOUS
<1>1. /\ r_pc = "up" /\ r_thread[t].at = "complete" /\ Requests!Goes(t, "reply")
      /\ r_done' = r_done \cup {r_thread[t].task} /\ r_doneFile' = r_doneFile \cup {r_thread[t].task}
      /\ UNCHANGED <<r_pc, r_taken, r_last, r_rec, r_listed, r_files, r_mount,
                     r_crossed, r_stacked, r_cut, r_finished>>
  BY DEF Requests!complete_task_resource, Requests!At
<1>2. /\ r_thread' \in [Threads -> Work] /\ \A u \in Threads \ {t} : Stays(u)
      /\ r_thread'[t].at = "reply" /\ r_thread'[t].op = r_thread[t].op
      /\ r_thread'[t].kind = r_thread[t].kind /\ r_thread'[t].task = r_thread[t].task
  BY <1>1, GoesProps DEF RequestsInv, Places
<1>3. ThreadsInOrder'
  BY <1>1, <1>2 DEF RequestsInv, ThreadsInOrder, Stays, Building
<1>4. \A k, n : Stage(t, k, n) = "none" /\ Stage(t, k, n)' = "none"
  BY <1>1, <1>2 DEF Stage, Building
<1>5. TasksAreKept'
  BY <1>1, <1>2 DEF RequestsInv, TasksAreKept, Stays
<1> QED
  BY <1>1, <1>2, <1>3, <1>4, <1>5, QuietStep DEF RequestsInv

\* The answer is sent: the task is that of a finished request from now on.
LEMMA ReplyStep == ASSUME NEW t \in Threads PROVE RequestsInv /\ Requests!Reply(t) => RequestsInv'
<1> SUFFICES ASSUME RequestsInv, Requests!Reply(t) PROVE RequestsInv'
  OBVIOUS
<1>1. /\ r_pc = "up" /\ r_thread[t].at = "reply"
      /\ r_thread' = [r_thread EXCEPT ![t] = Requests!Idle]
      /\ r_finished' = r_finished \cup {r_thread[t].task}
      /\ UNCHANGED <<r_pc, r_taken, r_last, r_rec, r_listed, r_files, r_done, r_doneFile, r_mount,
                     r_crossed, r_stacked, r_cut>>
  BY DEF Requests!Reply, Requests!At
<1>2. r_thread \in [Threads -> Work] /\ r_thread[t].task \in Requests!Numbers
  BY DEF RequestsInv, RequestsTypes, Work
<1>3. /\ r_thread' \in [Threads -> Work] /\ \A u \in Threads \ {t} : Stays(u)
      /\ r_thread'[t].at = "idle" /\ r_thread'[t].op = "none"
  BY <1>1, <1>2, IdleIsWork DEF Stays
<1>4. ThreadsInOrder'
  BY <1>1, <1>3 DEF RequestsInv, ThreadsInOrder, Stays, Building
<1>5. \A k, n : Stage(t, k, n) = "none" /\ Stage(t, k, n)' = "none"
  BY <1>1, <1>3 DEF Stage, Building
<1>6. TasksAreKept'
  <2> SUFFICES ASSUME "task" \notin r_crossed PROVE TasksAreKept'
    BY <1>1 DEF TasksAreKept
  <2>1. r_thread[t].task \in r_taken["task"]
    BY <1>1 DEF RequestsInv, TasksAreKept
  <2>2. RecordState("task", r_thread[t].task)
    BY <1>1, <1>2 DEF RequestsInv, RecordsAgree, Requests!Kinds
  <2>3. r_thread[t].task \in r_files["task"]
    BY <2>1, <2>2, TasksHaveNoStage DEF RecordState, Whole, Absent
  <2> QED
    BY <1>1, <1>3, <2>3 DEF RequestsInv, TasksAreKept, Stays
<1> QED
  BY <1>1, <1>3, <1>4, <1>5, <1>6, QuietStep DEF RequestsInv

-----------------------------------------------------------------------------
(* Requests: new records.                                                  *)

\* A number is found, or the subscription is refused.
LEMMA FindNumberStep == ASSUME NEW t \in Threads PROVE RequestsInv /\ Requests!FindNumber(t) => RequestsInv'
<1> SUFFICES ASSUME RequestsInv, Requests!FindNumber(t) PROVE RequestsInv'
  OBVIOUS
<1>1. /\ r_pc = "up" /\ r_thread[t].at = "treat" /\ r_thread[t].op \in {"make", "insert"}
      /\ (\E n \in Requests!Numbers : Requests!Finds(t, "allocated", n)) \/ Requests!Answers(t)
      /\ UNCHANGED <<r_pc, r_taken, r_last, r_rec, r_listed, r_files, r_done, r_doneFile, r_mount,
                     r_crossed, r_stacked, r_cut, r_finished>>
  BY AllocatedIsNumber DEF Requests!FindNumber, Requests!At
<1>2. RequestsTypes
  BY DEF RequestsInv
<1>3. /\ r_thread' \in [Threads -> Work] /\ \A u \in Threads \ {t} : Stays(u)
      /\ r_thread'[t].task = r_thread[t].task
      /\ \/ /\ r_thread'[t].at = "allocated" /\ r_thread'[t].op = r_thread[t].op
            /\ r_thread'[t].kind = r_thread[t].kind
         \/ r_thread'[t].at = "complete" /\ r_thread'[t].op = "none"
  <2>1. CASE \E n \in Requests!Numbers : Requests!Finds(t, "allocated", n)
    <3>1. PICK n \in Requests!Numbers : Requests!Finds(t, "allocated", n)
      BY <2>1
    <3>2. "allocated" \in Places
      BY DEF Places
    <3> QED
      BY <1>2, <3>1, <3>2, FindsProps
  <2>2. CASE Requests!Answers(t)
    BY <1>2, <2>2, AnswersProps
  <2> QED
    BY <1>1, <2>1, <2>2
<1>4. ThreadsInOrder'
  BY <1>1, <1>3 DEF RequestsInv, ThreadsInOrder, Stays, Building
<1>5. \A k, n : Stage(t, k, n) = "none" /\ Stage(t, k, n)' = "none"
  BY <1>1, <1>3 DEF Stage, Building
<1>6. TasksAreKept'
  BY <1>1, <1>3, TasksFrame
<1> QED
  BY <1>1, <1>3, <1>4, <1>5, <1>6, QuietStep DEF RequestsInv

\* A step that changes what is known of one number.
LEMMA OneRecordFrame ==
    ASSUME RequestsInv, r_pc = "up", NEW t \in Threads, \A u \in Threads \ {t} : Stays(u),
           r_crossed \subseteq r_crossed', NEW k \in Requests!Kinds, NEW n \in Requests!Numbers,
           \A j \in Requests!Kinds, m \in Requests!Numbers :
              j # k \/ m # n =>
              /\ m \in r_taken'[j] <=> m \in r_taken[j]
              /\ m \in r_rec'[j] <=> m \in r_rec[j]
              /\ m \in r_files'[j] <=> m \in r_files[j]
              /\ r_listed'[j][m] = r_listed[j][m]
              /\ Stage(t, j, m)' = Stage(t, j, m),
           k \notin r_crossed' => RecordState(k, n)'
    PROVE  RecordsAgree'
<1> SUFFICES ASSUME NEW j \in Requests!Kinds \ r_crossed', NEW m \in Requests!Numbers
             PROVE  RecordState(j, m)'
  BY DEF RecordsAgree
<1>1. CASE j # k \/ m # n
  <2>1. RecordState(j, m)
    BY DEF RequestsInv, RecordsAgree
  <2>2. \A u \in Threads : Stage(u, j, m)' = Stage(u, j, m)
    BY <1>1, StageStays
  <2> QED
    BY <1>1, <2>1, <2>2, RecordFrame
<1> QED
  BY <1>1

\* A new record is in g_record, a subscription also in its file and in the list.
LEMMA MakeRecordStep == ASSUME NEW t \in Threads PROVE RequestsInv /\ Requests!MakeRecord(t) => RequestsInv'
<1> SUFFICES ASSUME RequestsInv, Requests!MakeRecord(t) PROVE RequestsInv'
  OBVIOUS
<1>0. PICK k \in Requests!Kinds, n \in Requests!Numbers : k = r_thread[t].kind /\ n = r_thread[t].n
  BY DEF RequestsInv, RequestsTypes, Work
<1>1. /\ r_pc = "up" /\ r_pc' = "up" /\ r_thread[t].at = "allocated"
      /\ r_taken' = [r_taken EXCEPT ![k] = @ \cup {n}]
      /\ r_last' = [r_last EXCEPT ![k] = n]
      /\ r_rec' = [r_rec EXCEPT ![k] = @ \cup {n}]
      /\ r_crossed' = IF n \in r_taken[k] \/ Requests!Removing(k, n) \/ Requests!FoundBefore(k, n)
                      THEN r_crossed \cup {k} ELSE r_crossed
      /\ UNCHANGED <<r_done, r_doneFile, r_mount, r_stacked, r_cut, r_finished>>
  BY <1>0 DEF Requests!MakeRecord, Requests!At, Requests!Takes
<1>2. \/ /\ k = "sub" /\ Requests!Lists(k, n) /\ Requests!Answers(t)
         /\ r_files' = [r_files EXCEPT ![k] = @ \cup {n}]
      \/ k # "sub" /\ Requests!Goes(t, "made") /\ UNCHANGED <<r_listed, r_files>>
  BY <1>0 DEF Requests!MakeRecord
<1>3. /\ RequestsTypes /\ ThreadsInOrder
      /\ (k = "sub" /\ k \notin Requests!Media) \/ (k \in Requests!Media /\ r_thread[t].op = "insert")
  BY <1>0, <1>1 DEF RequestsInv, ThreadsInOrder, Requests!Media
<1>4. /\ r_thread' \in [Threads -> Work] /\ \A u \in Threads \ {t} : Stays(u)
      /\ r_thread'[t].task = r_thread[t].task
      /\ \/ k = "sub" /\ r_thread'[t].at = "complete" /\ r_thread'[t].op = "none"
         \/ /\ k # "sub" /\ r_thread'[t].at = "made" /\ r_thread'[t].op = r_thread[t].op
            /\ r_thread'[t].kind = k /\ r_thread'[t].n = n
  BY <1>0, <1>2, <1>3, AnswersProps, GoesProps DEF Places, Building
<1>5. /\ r_listed' \in [Requests!Kinds -> [Requests!Numbers -> Nat]]
      /\ r_listed'[k][n] = IF k = "sub" THEN r_listed[k][n] + 1 ELSE r_listed[k][n]
      /\ \A j \in Requests!Kinds, m \in Requests!Numbers :
            j # k \/ m # n => r_listed'[j][m] = r_listed[j][m]
  BY <1>2, <1>3, ListsProps DEF RequestsTypes
<1>6. /\ r_taken \in [Requests!Kinds -> SUBSET Requests!Numbers]
      /\ r_rec \in [Requests!Kinds -> SUBSET Requests!Numbers]
      /\ r_files \in [Requests!Kinds -> SUBSET Requests!Numbers]
  BY <1>3 DEF RequestsTypes
<1>7. /\ r_files' = IF k = "sub" THEN [r_files EXCEPT ![k] = @ \cup {n}] ELSE r_files
      /\ r_files' \in [Requests!Kinds -> SUBSET Requests!Numbers]
      /\ r_taken' \in [Requests!Kinds -> SUBSET Requests!Numbers]
      /\ r_rec' \in [Requests!Kinds -> SUBSET Requests!Numbers]
  BY <1>1, <1>2, <1>6
<1>8. RequestsTypes'
  BY <1>1, <1>3, <1>4, <1>5, <1>7 DEF RequestsTypes
<1>9. ThreadsInOrder'
  <2>1. ASSUME NEW u \in Threads \ {t} PROVE r_thread'[u] = r_thread[u]
    BY <1>4 DEF Stays
  <2> QED
    BY <1>0, <1>1, <1>3, <1>4, <2>1 DEF ThreadsInOrder, Building
<1>10. /\ \A j, m : Stage(t, j, m) = "none"
       /\ \A j, m : j # k \/ m # n => Stage(t, j, m)' = "none"
       /\ k = "sub" => Stage(t, k, n)' = "none"
       /\ k # "sub" => Stage(t, k, n)' = "building"
  BY <1>1, <1>4 DEF Stage, Building
<1>11. ASSUME k \notin r_crossed'
       PROVE  Absent(k, n) /\ \A u \in Threads : Stage(u, k, n) = "none"
  <2>1. n \notin r_taken[k] /\ ~Requests!Removing(k, n) /\ ~Requests!FoundBefore(k, n) /\ k \notin r_crossed
    BY <1>1, <1>11
  <2>2. RecordState(k, n)
    BY <1>1, <2>1 DEF RequestsInv, RecordsAgree
  <2>3. ASSUME NEW u \in Threads PROVE Stage(u, k, n) \notin {"found", "released", "deleted"}
    BY <2>1 DEF Stage, Requests!Removing, Requests!FoundBefore, Requests!Holds
  <2>4. ASSUME NEW u \in Threads PROVE Stage(u, k, n) # "building"
    BY <2>1, <2>2 DEF RecordState, Begun
  <2>5. \A u \in Threads : Stage(u, k, n) = "none"
    BY <2>3, <2>4, StagesAre
  <2> QED
    BY <2>1, <2>2, <2>5 DEF RecordState, Whole
<1>12. ASSUME k \notin r_crossed' PROVE RecordState(k, n)'
  <2>1. Absent(k, n) /\ \A u \in Threads \ {t} : Stage(u, k, n)' = "none"
    BY <1>4, <1>11, <1>12, StageStays
  <2>2. CASE k = "sub"
    <3>1. Whole(k, n)'
      BY <1>1, <1>5, <1>6, <1>7, <2>1, <2>2 DEF Absent, Whole
    <3> QED
      BY <1>10, <2>1, <2>2, <3>1 DEF RecordState
  <2>3. CASE k # "sub"
    <3>1. Begun(k, n)'
      BY <1>1, <1>5, <1>6, <1>7, <2>1, <2>3 DEF Absent, Begun
    <3>2. OthersAt(t, k, n, {"none"})'
      BY <2>1 DEF OthersAt
    <3> QED
      BY <1>10, <2>1, <2>3, <3>1, <3>2 DEF RecordState
  <2> QED
    BY <2>2, <2>3
<1>13. RecordsAgree'
  <2>1. \A j \in Requests!Kinds, m \in Requests!Numbers :
           j # k \/ m # n => /\ m \in r_taken'[j] <=> m \in r_taken[j]
                             /\ m \in r_rec'[j] <=> m \in r_rec[j]
                             /\ m \in r_files'[j] <=> m \in r_files[j]
    BY <1>1, <1>6, <1>7
  <2>2. r_crossed \subseteq r_crossed'
    BY <1>1
  <2>3. \A j \in Requests!Kinds, m \in Requests!Numbers :
           j # k \/ m # n => /\ r_listed'[j][m] = r_listed[j][m]
                             /\ Stage(t, j, m)' = Stage(t, j, m)
    BY <1>5, <1>10
  <2>4. r_pc = "up" /\ (k \notin r_crossed' => RecordState(k, n)') /\ \A u \in Threads \ {t} : Stays(u)
    BY <1>1, <1>4, <1>12
  <2> QED
    BY <2>1, <2>2, <2>3, <2>4, OneRecordFrame
<1>14. TasksAreKept'
  <2>1. r_taken'["task"] = r_taken["task"] /\ r_files'["task"] = r_files["task"]
    BY <1>1, <1>3, <1>6, <1>7 DEF Requests!Kinds, Requests!Media
  <2> QED
    BY <1>1, <1>4, <2>1, TasksFrame
<1>15. MountsAreKept'
  <2>1. ASSUME r_crossed' = {} PROVE ~MediumIsKept(<<k, n>>) \/ <<k, n>> \in r_cut
    BY <1>1, <1>11, <2>1 DEF MediumIsKept, Absent
  <2>2. ASSUME NEW j \in Requests!Media, NEW m \in Requests!Numbers, NEW u \in Threads,
               r_crossed' = {}, <<j, m>> \notin r_cut
        PROVE  /\ Stage(u, j, m) = "building" /\ r_thread[u].at = "mounted" =>
                    Stage(u, j, m)' = "building" /\ r_thread'[u].at = "mounted"
               /\ MediumIsKept(<<j, m>>) /\ Stage(u, j, m) = "none" => Stage(u, j, m)' = "none"
    <3>1. CASE u # t
      BY <1>4, <3>1, StageStays DEF Stays
    <3>2. CASE u = t /\ (j # k \/ m # n)
      BY <1>10, <3>2
    <3>3. CASE u = t /\ j = k /\ m = n
      BY <1>10, <2>1, <2>2, <3>3
    <3> QED
      BY <3>1, <3>2, <3>3
  <2>3. ASSUME NEW j \in Requests!Media, NEW m \in Requests!Numbers, r_listed[j][m] > 0
        PROVE  r_listed'[j][m] > 0
    BY <1>3, <1>5, <2>3 DEF RequestsTypes, Requests!Kinds, Requests!Media
  <2> QED
    BY <1>1, <2>2, <2>3, MountsFrame
<1> QED
  BY <1>1, <1>8, <1>9, <1>13, <1>14, <1>15 DEF RequestsInv, Requests!FailsOnlyByOverlap

\* What is mounted stays as it is if each medium stays kept.
LEMMA MountsStay ==
    ASSUME RequestsInv, r_pc = "up", r_mount' = r_mount, r_stacked' = r_stacked,
           r_crossed \subseteq r_crossed',
           \A k \in Requests!Media, n \in Requests!Numbers :
              r_crossed' = {} /\ r_pc' # "failed" /\ MediumIsKept(<<k, n>>) => MediumIsKept(<<k, n>>)'
    PROVE  MountsAreKept'
<1> SUFFICES ASSUME ~r_stacked PROVE MountsAreKept'
  BY DEF MountsAreKept
<1>1. Len(r_mount') <= 1 /\ r_mount \in Seq(Requests!Media \X Requests!Numbers)
  BY DEF RequestsInv, MountsAreKept, RequestsTypes
<1>2. ASSUME r_crossed' = {}, r_pc' # "failed", NEW i \in 1 .. Len(r_mount)
      PROVE  MediumIsKept(r_mount[i])'
  <2>1. r_mount[i] \in Requests!Media \X Requests!Numbers
    BY <1>1, <1>2, ElementOfSeq
  <2>2. PICK k \in Requests!Media, n \in Requests!Numbers : r_mount[i] = <<k, n>>
    BY <2>1
  <2>3. MediumIsKept(<<k, n>>)
    BY <1>2, <2>2 DEF RequestsInv, MountsAreKept
  <2>4. MediumIsKept(<<k, n>>)'
    BY <1>2, <2>3
  <2> QED
    BY <2>2, <2>4
<1> QED
  BY <1>1, <1>2 DEF MountsAreKept

\* umount takes the medium that is visible.
LEMMA UnmountedIs ==
    ASSUME RequestsInv
    PROVE  /\ Requests!Unmounted \in Seq(Requests!Media \X Requests!Numbers)
           /\ ~r_stacked => Len(Requests!Unmounted) = 0
<1>1. r_mount \in Seq(Requests!Media \X Requests!Numbers) /\ (~r_stacked => Len(r_mount) <= 1)
  BY DEF RequestsInv, RequestsTypes, MountsAreKept
<1>2. CASE r_mount = <<>>
  BY <1>1, <1>2 DEF Requests!Unmounted
<1>3. CASE r_mount # <<>>
  <2>1. Len(r_mount) \in Nat \ {0} /\ Requests!Unmounted = SubSeq(r_mount, 1, Len(r_mount) - 1)
    BY <1>1, <1>3, EmptySeq DEF Requests!Unmounted
  <2>2. \A i \in 1 .. Len(r_mount) - 1 : r_mount[i] \in Requests!Media \X Requests!Numbers
    BY <1>1, <2>1, ElementOfSeq
  <2> QED
    BY <1>1, <2>1, <2>2, SubSeqProperties
<1> QED
  BY <1>2, <1>3

\* A thread goes on with the medium it inserts.
LEMMA BuildingGoes ==
    ASSUME RequestsInv, NEW t \in Threads, r_pc = "up", r_thread[t].at \in Building,
           NEW place \in Building, Requests!Goes(t, place),
           UNCHANGED <<r_pc, r_taken, r_last, r_rec, r_listed, r_files, r_done, r_doneFile,
                       r_crossed, r_cut, r_finished>>
    PROVE  /\ \A u \in Threads \ {t} : Stays(u)
           /\ r_thread'[t].at = place /\ r_thread'[t].kind = r_thread[t].kind
           /\ r_thread'[t].n = r_thread[t].n
           /\ \A u \in Threads : \A k, n : Stage(u, k, n)' = Stage(u, k, n)
           /\ ThreadsInOrder' /\ RecordsAgree' /\ TasksAreKept' /\ Requests!FailsOnlyByOverlap'
           /\ r_mount' \in Seq(Requests!Media \X Requests!Numbers) /\ r_stacked' \in BOOLEAN
                 => RequestsTypes'
<1>1. RequestsTypes /\ place \in Places
  BY DEF RequestsInv, Places
<1>2. /\ r_thread' \in [Threads -> Work] /\ \A u \in Threads \ {t} : Stays(u)
      /\ r_thread'[t].at = place /\ r_thread'[t].op = r_thread[t].op
      /\ r_thread'[t].kind = r_thread[t].kind /\ r_thread'[t].n = r_thread[t].n
      /\ r_thread'[t].task = r_thread[t].task
  BY <1>1, GoesProps
<1>3. ASSUME NEW k, NEW n PROVE Stage(t, k, n)' = Stage(t, k, n)
  BY <1>2 DEF Stage
<1>4. ASSUME NEW u \in Threads, NEW k, NEW n PROVE Stage(u, k, n)' = Stage(u, k, n)
  BY <1>2, <1>3, StageStays
<1>5. ThreadsInOrder'
  BY <1>2 DEF RequestsInv, ThreadsInOrder, Stays, Building
<1>6. RecordsAgree'
  BY <1>2, <1>3, RecordsFrame DEF RecordsAgree
<1>7. TasksAreKept'
  BY <1>2, TasksFrame DEF Building
<1>8. r_mount' \in Seq(Requests!Media \X Requests!Numbers) /\ r_stacked' \in BOOLEAN => RequestsTypes'
  BY <1>1, <1>2 DEF RequestsTypes
<1> QED
  BY <1>2, <1>4, <1>5, <1>6, <1>7, <1>8 DEF Requests!FailsOnlyByOverlap

\* Old media are unmounted, or InsertMedia gives up.
LEMMA UnmountOldStep == ASSUME NEW t \in Threads PROVE RequestsInv /\ Requests!UnmountOld(t) => RequestsInv'
<1> SUFFICES ASSUME RequestsInv, Requests!UnmountOld(t) PROVE RequestsInv'
  OBVIOUS
<1>1. /\ r_pc = "up" /\ r_thread[t].at = "made"
      /\ \/ r_mount' = Requests!Unmounted /\ Requests!Goes(t, "unmounted")
         \/ r_mount' = r_mount /\ Requests!Goes(t, "refused")
      /\ UNCHANGED <<r_pc, r_taken, r_last, r_rec, r_listed, r_files, r_done, r_doneFile,
                     r_crossed, r_stacked, r_cut, r_finished>>
  BY DEF Requests!UnmountOld, Requests!At
<1>2. PICK place \in {"unmounted", "refused"} : Requests!Goes(t, place)
  BY <1>1
<1>3. "made" \in Building /\ place \in Building /\ place # "mounted"
  BY DEF Building
<1>4. /\ \A u \in Threads \ {t} : Stays(u)
      /\ \A u \in Threads : \A k, n : Stage(u, k, n)' = Stage(u, k, n)
      /\ ThreadsInOrder' /\ RecordsAgree' /\ TasksAreKept' /\ Requests!FailsOnlyByOverlap'
      /\ r_mount' \in Seq(Requests!Media \X Requests!Numbers) /\ r_stacked' \in BOOLEAN => RequestsTypes'
  BY <1>1, <1>2, <1>3, BuildingGoes
<1>5. RequestsTypes'
  BY <1>1, <1>4, UnmountedIs DEF RequestsInv, RequestsTypes
<1>6. MountsAreKept'
  <2>1. CASE r_mount' = r_mount
    <3>1. ASSUME NEW k \in Requests!Media, NEW n \in Requests!Numbers, NEW u \in Threads
          PROVE  /\ Stage(u, k, n) = "building" /\ r_thread[u].at = "mounted" =>
                      Stage(u, k, n)' = "building" /\ r_thread'[u].at = "mounted"
                 /\ Stage(u, k, n) = "none" => Stage(u, k, n)' = "none"
      BY <1>1, <1>4 DEF Stays
    <3> QED
      BY <1>1, <2>1, <3>1, MountsFrame
  <2>2. CASE r_mount' = Requests!Unmounted
    BY <1>1, <2>2, UnmountedIs DEF MountsAreKept
  <2> QED
    BY <1>1, <2>1, <2>2
<1> QED
  BY <1>4, <1>5, <1>6 DEF RequestsInv

\* The new medium is mounted.
LEMMA MountStep == ASSUME NEW t \in Threads PROVE RequestsInv /\ Requests!Mount(t) => RequestsInv'
<1> SUFFICES ASSUME RequestsInv, Requests!Mount(t) PROVE RequestsInv'
  OBVIOUS
<1>0. PICK k \in Requests!Kinds, n \in Requests!Numbers : k = r_thread[t].kind /\ n = r_thread[t].n
  BY DEF RequestsInv, RequestsTypes, Work
<1>1. /\ r_pc = "up" /\ r_thread[t].at = "unmounted"
      /\ \/ /\ r_mount' = Append(r_mount, <<k, n>>) /\ Requests!Goes(t, "mounted")
            /\ r_stacked' = (r_stacked \/ r_mount # <<>>)
         \/ /\ r_mount' = r_mount /\ r_stacked' = r_stacked
            /\ Requests!Goes(t, "mounted") \/ Requests!Goes(t, "refused")
      /\ UNCHANGED <<r_pc, r_taken, r_last, r_rec, r_listed, r_files, r_done, r_doneFile,
                     r_crossed, r_cut, r_finished>>
  BY <1>0 DEF Requests!Mount, Requests!At
<1>2. PICK place \in {"mounted", "refused"} : Requests!Goes(t, place)
  BY <1>1
<1>3. /\ "unmounted" \in Building /\ place \in Building
      /\ r_mount \in Seq(Requests!Media \X Requests!Numbers) /\ r_stacked \in BOOLEAN
  BY DEF Building, RequestsInv, RequestsTypes
<1>4. /\ \A u \in Threads \ {t} : Stays(u)
      /\ r_thread'[t].at = place
      /\ \A u \in Threads : \A j, m : Stage(u, j, m)' = Stage(u, j, m)
      /\ ThreadsInOrder' /\ RecordsAgree' /\ TasksAreKept' /\ Requests!FailsOnlyByOverlap'
      /\ r_mount' \in Seq(Requests!Media \X Requests!Numbers) /\ r_stacked' \in BOOLEAN => RequestsTypes'
  BY <1>1, <1>2, <1>3, BuildingGoes
<1>5. CASE r_mount' = r_mount /\ r_stacked' = r_stacked
  <2>1. MountsAreKept'
    BY <1>1, <1>4, <1>5, MountsFrame DEF Stays
  <2> QED
    BY <1>3, <1>4, <1>5, <2>1 DEF RequestsInv
<1>6. CASE /\ r_mount' = Append(r_mount, <<k, n>>) /\ Requests!Goes(t, "mounted")
           /\ r_stacked' = (r_stacked \/ r_mount # <<>>)
  <2>1. k \in Requests!Media /\ Stage(t, k, n) = "building"
    BY <1>0, <1>1, <1>3 DEF RequestsInv, ThreadsInOrder, Stage
  <2>2. RequestsTypes'
    BY <1>3, <1>4, <1>6, <2>1
  <2>3. r_thread'[t].at = "mounted"
    BY <1>6, GoesProps DEF RequestsInv, Places, Building
  <2>4. MediumIsKept(<<k, n>>)'
    BY <1>1, <1>4, <2>1, <2>3 DEF MediumIsKept
  <2>5. ASSUME ~r_stacked' PROVE Len(r_mount') = 1 /\ r_mount'[1] = <<k, n>>
    <3>1. <<k, n>> \in Requests!Media \X Requests!Numbers /\ r_mount = <<>>
      BY <1>6, <2>1, <2>5
    <3> QED
      BY <1>6, <3>1, SMT
  <2>6. MountsAreKept'
    <3> SUFFICES ASSUME ~r_stacked' PROVE MountsAreKept'
      BY DEF MountsAreKept
    <3>1. Len(r_mount') = 1 /\ r_mount'[1] = <<k, n>>
      BY <2>5
    <3>2. 1 .. Len(r_mount') = {1}
      BY <3>1
    <3>3. \A i \in 1 .. Len(r_mount') : MediumIsKept(r_mount[i])'
      BY <2>4, <3>1, <3>2 DEF MediumIsKept
    <3> QED
      BY <3>1, <3>3 DEF MountsAreKept
  <2> QED
    BY <1>4, <2>2, <2>6 DEF RequestsInv
<1> QED
  BY <1>1, <1>5, <1>6

\* The record under which a thread inserts a medium, removes a record or has
\* found one.
LEMMA ThreadHolds ==
    ASSUME RequestsInv, NEW t \in Threads, r_thread[t].at \in Places \ {"idle", "task", "treat",
           "allocated", "complete", "reply"}
    PROVE  /\ \E k \in Requests!Kinds, n \in Requests!Numbers :
                /\ k = r_thread[t].kind /\ n = r_thread[t].n
                /\ k # "task"
                /\ Stage(t, k, n) = IF r_thread[t].at \in Building THEN "building" ELSE r_thread[t].at
                /\ \A j \in Requests!Kinds, m \in Requests!Numbers : j # k \/ m # n => Stage(t, j, m) = "none"
           /\ r_thread[t].at \in Building => r_thread[t].kind \in Requests!Media
<1>1. r_thread[t].kind \in Requests!Kinds /\ r_thread[t].n \in Requests!Numbers
  BY DEF RequestsInv, RequestsTypes, Work
<1>2. /\ r_thread[t].at \in Building => r_thread[t].op = "insert"
      /\ r_thread[t].at \notin Building => r_thread[t].op \in {"remove", "eject"}
  BY DEF RequestsInv, ThreadsInOrder, Places
<1>3. /\ r_thread[t].at \in Building => r_thread[t].kind \in Requests!Media
      /\ r_thread[t].kind # "task"
  BY <1>2 DEF RequestsInv, ThreadsInOrder, Requests!Media
<1>4. Stage(t, r_thread[t].kind, r_thread[t].n) =
          IF r_thread[t].at \in Building THEN "building" ELSE r_thread[t].at
  BY DEF Stage, Places
<1>5. \A j \in Requests!Kinds, m \in Requests!Numbers :
         j # r_thread[t].kind \/ m # r_thread[t].n => Stage(t, j, m) = "none"
  BY DEF Stage
<1> QED
  BY <1>1, <1>3, <1>4, <1>5

\* The medium becomes a member, and what g_record has is saved.
LEMMA AddMediumStep == ASSUME NEW t \in Threads PROVE RequestsInv /\ Requests!AddMedium(t) => RequestsInv'
<1> SUFFICES ASSUME RequestsInv, Requests!AddMedium(t) PROVE RequestsInv'
  OBVIOUS
<1>a. r_thread[t].at = "mounted" /\ r_thread[t].at \in Building /\ r_thread[t].at \in Places
  BY DEF Requests!AddMedium, Requests!At, Building, Places
<1>0. PICK k \in Requests!Kinds, n \in Requests!Numbers :
         /\ k = r_thread[t].kind /\ n = r_thread[t].n /\ k # "task" /\ Stage(t, k, n) = "building"
         /\ \A j \in Requests!Kinds, m \in Requests!Numbers : j # k \/ m # n => Stage(t, j, m) = "none"
  BY <1>a, ThreadHolds
<1>1. /\ r_pc = "up" /\ r_pc' = "up" /\ Requests!Lists(k, n) /\ Requests!Answers(t)
      /\ r_files' = [r_files EXCEPT ![k] = @ \cup ({n} \cap r_rec[k])]
      /\ UNCHANGED <<r_taken, r_last, r_rec, r_done, r_doneFile, r_mount,
                     r_crossed, r_stacked, r_cut, r_finished>>
  BY <1>0 DEF Requests!AddMedium, Requests!At
<1>2. RequestsTypes /\ r_files \in [Requests!Kinds -> SUBSET Requests!Numbers]
  BY DEF RequestsInv, RequestsTypes
<1>3. /\ r_listed' \in [Requests!Kinds -> [Requests!Numbers -> Nat]]
      /\ r_listed'[k][n] = r_listed[k][n] + 1
      /\ \A j \in Requests!Kinds, m \in Requests!Numbers :
            j # k \/ m # n => r_listed'[j][m] = r_listed[j][m]
  BY <1>1, <1>2, ListsProps
<1>4. /\ r_thread' \in [Threads -> Work] /\ \A u \in Threads \ {t} : Stays(u)
      /\ r_thread'[t].at = "complete" /\ r_thread'[t].op = "none" /\ r_thread'[t].task = r_thread[t].task
  BY <1>1, <1>2, AnswersProps
<1>5. RequestsTypes'
  BY <1>1, <1>2, <1>3, <1>4 DEF RequestsTypes
<1>6. ThreadsInOrder'
  BY <1>1, <1>4 DEF RequestsInv, ThreadsInOrder, Stays, Building
<1>7. \A j, m : Stage(t, j, m)' = "none"
  BY <1>4 DEF Stage, Building
<1>8. ASSUME k \notin r_crossed PROVE /\ Begun(k, n)
                                      /\ \A u \in Threads : Stage(u, k, n)' = "none"
  <2>1. RecordState(k, n)
    BY <1>1, <1>8 DEF RequestsInv, RecordsAgree
  <2>2. Begun(k, n) /\ OthersAt(t, k, n, {"none"})
    BY <1>0, <2>1 DEF RecordState
  <2>3. ASSUME NEW u \in Threads \ {t} PROVE Stage(u, k, n)' = "none"
    BY <1>4, <2>2, StageStays DEF OthersAt
  <2> QED
    BY <1>7, <2>2, <2>3
<1>9. ASSUME k \notin r_crossed PROVE RecordState(k, n)'
  <2>1. Begun(k, n) /\ \A u \in Threads : Stage(u, k, n)' = "none"
    BY <1>8, <1>9
  <2>2. Whole(k, n)'
    BY <1>1, <1>2, <1>3, <2>1 DEF Begun, Whole
  <2> QED
    BY <2>1, <2>2 DEF RecordState
<1>10. RecordsAgree'
  <2>1. \A j \in Requests!Kinds, m \in Requests!Numbers :
           j # k \/ m # n => /\ m \in r_taken'[j] <=> m \in r_taken[j]
                             /\ m \in r_rec'[j] <=> m \in r_rec[j]
                             /\ m \in r_files'[j] <=> m \in r_files[j]
    BY <1>1, <1>2
  <2>2. \A j \in Requests!Kinds, m \in Requests!Numbers :
           j # k \/ m # n => /\ r_listed'[j][m] = r_listed[j][m]
                             /\ Stage(t, j, m)' = Stage(t, j, m)
    BY <1>0, <1>3, <1>7
  <2>3. /\ r_pc = "up" /\ (k \notin r_crossed' => RecordState(k, n)')
        /\ r_crossed \subseteq r_crossed' /\ \A u \in Threads \ {t} : Stays(u)
    BY <1>1, <1>4, <1>9
  <2> QED
    BY <2>1, <2>2, <2>3, OneRecordFrame
<1>11. TasksAreKept'
  <2>1. r_files'["task"] = r_files["task"]
    BY <1>0, <1>1, <1>2 DEF Requests!Kinds
  <2> QED
    BY <1>a, <1>1, <1>4, <2>1, TasksFrame
<1>12. MountsAreKept'
  <2>1. ASSUME NEW j \in Requests!Media, NEW m \in Requests!Numbers, r_crossed = {},
               MediumIsKept(<<j, m>>)
        PROVE  MediumIsKept(<<j, m>>)'
    <3>1. j \in Requests!Kinds /\ r_listed[j][m] \in Nat
      BY <1>2 DEF Requests!Media, Requests!Kinds, RequestsTypes
    <3>2. CASE <<j, m>> \in r_cut
      BY <1>1, <3>2 DEF MediumIsKept
    <3>3. CASE j = k /\ m = n
      <4>1. r_listed'[j][m] > 0 /\ \A u \in Threads : Stage(u, j, m)' = "none"
        BY <1>3, <1>8, <2>1, <3>1, <3>3
      <4> QED
        BY <1>1, <4>1 DEF MediumIsKept
    <3>4. CASE <<j, m>> \notin r_cut /\ (j # k \/ m # n)
      <4>1. /\ r_listed'[j][m] = r_listed[j][m] /\ Stage(t, j, m) = "none"
            /\ \A u \in Threads : Stage(u, j, m)' = Stage(u, j, m)
        BY <1>0, <1>3, <1>4, <1>7, <3>1, <3>4, StageStays
      <4>2. CASE \E u \in Threads : Stage(u, j, m) = "building" /\ r_thread[u].at = "mounted"
        <5>1. PICK u \in Threads \ {t} : Stage(u, j, m) = "building" /\ r_thread[u].at = "mounted"
          BY <4>1, <4>2
        <5>2. Stage(u, j, m)' = "building" /\ r_thread'[u].at = "mounted"
          BY <1>4, <4>1, <5>1 DEF Stays
        <5> QED
          BY <1>1, <5>2 DEF MediumIsKept
      <4>3. CASE r_listed[j][m] > 0 /\ \A u \in Threads : Stage(u, j, m) = "none"
        BY <1>1, <4>1, <4>3 DEF MediumIsKept
      <4> QED
        BY <1>1, <2>1, <3>4, <4>2, <4>3 DEF MediumIsKept
    <3> QED
      BY <3>2, <3>3, <3>4
  <2> QED
    BY <1>1, <2>1, MountsStay
<1> QED
  BY <1>1, <1>5, <1>6, <1>10, <1>11, <1>12 DEF RequestsInv, Requests!FailsOnlyByOverlap

\* A refused medium leaves nothing behind.
LEMMA UndoInsertStep == ASSUME NEW t \in Threads PROVE RequestsInv /\ Requests!UndoInsert(t) => RequestsInv'
<1> SUFFICES ASSUME RequestsInv, Requests!UndoInsert(t) PROVE RequestsInv'
  OBVIOUS
<1>a. r_thread[t].at = "refused" /\ r_thread[t].at \in Building /\ r_thread[t].at \in Places
  BY DEF Requests!UndoInsert, Requests!At, Building, Places
<1>0. PICK k \in Requests!Kinds, n \in Requests!Numbers :
         /\ k = r_thread[t].kind /\ n = r_thread[t].n /\ k # "task" /\ Stage(t, k, n) = "building"
         /\ \A j \in Requests!Kinds, m \in Requests!Numbers : j # k \/ m # n => Stage(t, j, m) = "none"
  BY <1>a, ThreadHolds
<1>1. /\ r_pc = "up" /\ r_pc' = "up" /\ Requests!Answers(t)
      /\ r_rec' = [r_rec EXCEPT ![k] = @ \ {n}]
      /\ r_taken' = [r_taken EXCEPT ![k] = @ \ {n}]
      /\ UNCHANGED <<r_last, r_listed, r_files, r_done, r_doneFile, r_mount,
                     r_crossed, r_stacked, r_cut, r_finished>>
  BY <1>0 DEF Requests!UndoInsert, Requests!At
<1>2. /\ RequestsTypes /\ r_taken \in [Requests!Kinds -> SUBSET Requests!Numbers]
      /\ r_rec \in [Requests!Kinds -> SUBSET Requests!Numbers]
  BY DEF RequestsInv, RequestsTypes
<1>3. /\ r_thread' \in [Threads -> Work] /\ \A u \in Threads \ {t} : Stays(u)
      /\ r_thread'[t].at = "complete" /\ r_thread'[t].op = "none" /\ r_thread'[t].task = r_thread[t].task
  BY <1>1, <1>2, AnswersProps
<1>4. RequestsTypes'
  BY <1>1, <1>2, <1>3 DEF RequestsTypes
<1>5. ThreadsInOrder'
  BY <1>1, <1>3 DEF RequestsInv, ThreadsInOrder, Stays, Building
<1>6. \A j, m : Stage(t, j, m)' = "none"
  BY <1>3 DEF Stage, Building
<1>7. ASSUME k \notin r_crossed PROVE RecordState(k, n)'
  <2>1. RecordState(k, n)
    BY <1>1, <1>7 DEF RequestsInv, RecordsAgree
  <2>2. Begun(k, n) /\ OthersAt(t, k, n, {"none"})
    BY <1>0, <2>1 DEF RecordState
  <2>3. ASSUME NEW u \in Threads PROVE Stage(u, k, n)' = "none"
    BY <1>3, <1>6, <2>2, StageStays DEF OthersAt
  <2>4. Absent(k, n)'
    BY <1>1, <1>2, <2>2 DEF Begun, Absent
  <2> QED
    BY <2>3, <2>4 DEF RecordState
<1>8. RecordsAgree'
  <2>1. \A j \in Requests!Kinds, m \in Requests!Numbers :
           j # k \/ m # n => /\ m \in r_taken'[j] <=> m \in r_taken[j]
                             /\ m \in r_rec'[j] <=> m \in r_rec[j]
                             /\ m \in r_files'[j] <=> m \in r_files[j]
    BY <1>1, <1>2
  <2>2. \A j \in Requests!Kinds, m \in Requests!Numbers :
           j # k \/ m # n => /\ r_listed'[j][m] = r_listed[j][m]
                             /\ Stage(t, j, m)' = Stage(t, j, m)
    BY <1>0, <1>1, <1>6
  <2>3. /\ r_pc = "up" /\ (k \notin r_crossed' => RecordState(k, n)')
        /\ r_crossed \subseteq r_crossed' /\ \A u \in Threads \ {t} : Stays(u)
    BY <1>1, <1>3, <1>7
  <2> QED
    BY <2>1, <2>2, <2>3, OneRecordFrame
<1>9. TasksAreKept'
  <2>1. r_taken'["task"] = r_taken["task"]
    BY <1>0, <1>1, <1>2 DEF Requests!Kinds
  <2> QED
    BY <1>a, <1>1, <1>3, <2>1, TasksFrame
<1>10. MountsAreKept'
  <2>1. ASSUME NEW j \in Requests!Media, NEW m \in Requests!Numbers, NEW u \in Threads
        PROVE  /\ Stage(u, j, m) = "building" /\ r_thread[u].at = "mounted" =>
                    Stage(u, j, m)' = "building" /\ r_thread'[u].at = "mounted"
               /\ Stage(u, j, m) = "none" => Stage(u, j, m)' = "none"
    BY <1>a, <1>3, <1>6, StageStays DEF Stays
  <2> QED
    BY <1>1, <2>1, MountsFrame
<1> QED
  BY <1>1, <1>4, <1>5, <1>8, <1>9, <1>10 DEF RequestsInv, Requests!FailsOnlyByOverlap

-----------------------------------------------------------------------------
(* Requests: removal.                                                      *)

\* A record of g_record is found and a medium unmounted, or the request is
\* refused.
LEMMA FindRecordStep == ASSUME NEW t \in Threads PROVE RequestsInv /\ Requests!FindRecord(t) => RequestsInv'
<1> SUFFICES ASSUME RequestsInv, Requests!FindRecord(t) PROVE RequestsInv'
  OBVIOUS
<1>1. /\ r_pc = "up" /\ r_thread[t].at = "treat" /\ r_thread[t].op \in {"remove", "eject"}
      /\ UNCHANGED <<r_pc, r_taken, r_last, r_rec, r_listed, r_files, r_done, r_doneFile,
                     r_stacked, r_cut, r_finished>>
  BY DEF Requests!FindRecord, Requests!At
<1>2. RequestsTypes /\ ThreadsInOrder /\ {"found", "complete"} \subseteq Places
  BY DEF RequestsInv, Places
<1>3. \A j, m : Stage(t, j, m) = "none"
  BY <1>1 DEF Stage, Building
<1>4. CASE Requests!Answers(t) /\ UNCHANGED <<r_mount, r_crossed>>
  <2>1. /\ r_thread' \in [Threads -> Work] /\ \A u \in Threads \ {t} : Stays(u)
        /\ r_thread'[t].at = "complete" /\ r_thread'[t].op = "none" /\ r_thread'[t].task = r_thread[t].task
    BY <1>2, <1>4, AnswersProps
  <2>2. ThreadsInOrder'
    BY <1>1, <1>2, <2>1 DEF ThreadsInOrder, Stays, Building
  <2>3. \A j, m : Stage(t, j, m) = "none" /\ Stage(t, j, m)' = "none"
    BY <1>3, <2>1 DEF Stage, Building
  <2>4. TasksAreKept'
    BY <1>1, <1>4, <2>1, TasksFrame
  <2> QED
    BY <1>1, <1>4, <2>1, <2>2, <2>3, <2>4, QuietStep DEF RequestsInv
<1>5. ASSUME NEW n \in r_rec[r_thread[t].kind], Requests!Finds(t, "found", n),
             r_mount' = IF r_thread[t].op = "eject" THEN Requests!Unmounted ELSE r_mount,
             r_crossed' = IF Requests!BeingInserted(r_thread[t].kind, n)
                          THEN r_crossed \cup {r_thread[t].kind} ELSE r_crossed
      PROVE  RequestsInv'
  <2>0. PICK k \in Requests!Kinds : k = r_thread[t].kind
    BY <1>2 DEF RequestsTypes, Work
  <2>1. n \in Requests!Numbers /\ r_listed[k][n] \in Nat /\ k # "task"
    BY <1>1, <1>2, <1>5, <2>0 DEF RequestsTypes, ThreadsInOrder, Requests!Media
  <2>2. r_crossed' = IF Requests!BeingInserted(k, n) THEN r_crossed \cup {k} ELSE r_crossed
    BY <1>5, <2>0
  <2>3. /\ r_thread' \in [Threads -> Work] /\ \A u \in Threads \ {t} : Stays(u)
        /\ r_thread'[t].at = "found" /\ r_thread'[t].op = r_thread[t].op
        /\ r_thread'[t].kind = k /\ r_thread'[t].n = n /\ r_thread'[t].task = r_thread[t].task
    BY <1>2, <1>5, <2>0, <2>1, FindsProps
  <2>4. RequestsTypes'
    BY <1>1, <1>2, <1>5, <2>3, UnmountedIs DEF RequestsTypes
  <2>5. ThreadsInOrder'
    BY <1>1, <1>2, <2>0, <2>3 DEF ThreadsInOrder, Stays, Building
  <2>6. Stage(t, k, n)' = "found" /\ \A j, m : j # k \/ m # n => Stage(t, j, m)' = "none"
    BY <2>3 DEF Stage, Building
  <2>7. ASSUME k \notin r_crossed' PROVE RecordState(k, n)'
    <3>1. RecordState(k, n) /\ ~Requests!BeingInserted(k, n)
      BY <1>1, <2>1, <2>2, <2>7 DEF RequestsInv, RecordsAgree
    <3>2. /\ Whole(k, n)' <=> Whole(k, n)
          /\ Absent(k, n)' <=> Absent(k, n)
          /\ Given(k, n)' <=> Given(k, n)
      BY <1>1 DEF Whole, Absent, Given
    <3>3. ASSUME NEW u \in Threads \ {t} PROVE Stage(u, k, n)' = Stage(u, k, n)
      BY <2>3, StageStays
    <3>4. ASSUME NEW u \in Threads PROVE Stage(u, k, n) \in {"none", "found", "released"}
      <4>1. Stage(u, k, n) # "building"
        BY <3>1 DEF Stage, Building, Requests!BeingInserted, Requests!Holds
      <4>2. Stage(u, k, n) # "deleted"
        BY <1>5, <2>0, <3>1 DEF RecordState, Unfiled
      <4> QED
        BY <4>1, <4>2, StagesAre
    <3>5. ASSUME NEW u \in Threads PROVE Stage(u, k, n)' \in {"none", "found", "released"}
      BY <2>6, <3>3, <3>4
    <3>6. ASSUME NEW u \in Threads, Stage(u, k, n)' = "released"
          PROVE  Given(k, n)' /\ OthersAt(u, k, n, {"none", "found"})'
      <4>1. u # t /\ Stage(u, k, n) = "released"
        BY <2>6, <3>3, <3>6
      <4>2. Given(k, n) /\ OthersAt(u, k, n, {"none", "found"})
        BY <3>1, <4>1 DEF RecordState
      <4> QED
        BY <2>6, <3>2, <3>3, <4>2 DEF OthersAt
    <3>7. ASSUME \A u \in Threads : Stage(u, k, n)' \in {"none", "found"}
          PROVE  Whole(k, n)' \/ Absent(k, n)'
      <4>1. \A u \in Threads : Stage(u, k, n) \in {"none", "found"}
        BY <1>3, <3>3, <3>7
      <4> QED
        BY <3>1, <3>2, <4>1 DEF RecordState
    <3> QED
      BY <3>5, <3>6, <3>7 DEF RecordState
  <2>8. RecordsAgree'
    <3>1. \A j \in Requests!Kinds, m \in Requests!Numbers :
             j # k \/ m # n => Stage(t, j, m)' = Stage(t, j, m)
      BY <1>3, <2>6
    <3>2. r_crossed \subseteq r_crossed'
      BY <2>2
    <3> QED
      BY <1>1, <2>1, <2>3, <2>7, <3>1, <3>2, OneRecordFrame
  <2>9. TasksAreKept'
    <3>1. r_crossed \subseteq r_crossed'
      BY <2>2
    <3> QED
      BY <1>1, <2>3, <3>1, TasksFrame
  <2>10. MountsAreKept'
    <3>1. CASE r_thread[t].op = "eject"
      BY <1>1, <1>5, <3>1, UnmountedIs DEF MountsAreKept
    <3>2. CASE r_thread[t].op = "remove"
      <4>1. r_mount' = r_mount /\ k \notin Requests!Media
        BY <1>2, <1>5, <2>0, <3>2 DEF ThreadsInOrder, Requests!Media
      <4>2. ASSUME NEW j \in Requests!Media, NEW m \in Requests!Numbers, NEW u \in Threads
            PROVE  Stage(u, j, m)' = Stage(u, j, m)
                /\ (r_thread[u].at = "mounted" => r_thread'[u].at = "mounted")
        <5>1. CASE u = t
          BY <1>1, <1>3, <2>6, <4>1, <5>1
        <5>2. CASE u # t
          BY <2>3, <5>2, StageStays DEF Stays
        <5> QED
          BY <5>1, <5>2
      <4>3. r_crossed \subseteq r_crossed'
        BY <2>2
      <4> QED
        BY <1>1, <4>1, <4>2, <4>3, MountsFrame
    <3> QED
      BY <1>1, <3>1, <3>2
  <2> QED
    BY <1>1, <2>4, <2>5, <2>8, <2>9, <2>10 DEF RequestsInv, Requests!FailsOnlyByOverlap
<1> QED
  BY <1>4, <1>5 DEF Requests!FindRecord

\* The number is given back before the record goes.
LEMMA ReleaseStep == ASSUME NEW t \in Threads PROVE RequestsInv /\ Requests!Release(t) => RequestsInv'
<1> SUFFICES ASSUME RequestsInv, Requests!Release(t) PROVE RequestsInv'
  OBVIOUS
<1>a. r_thread[t].at = "found" /\ r_thread[t].at \notin Building /\ {"found", "released"} \subseteq Places
  BY DEF Requests!Release, Requests!At, Building, Places
<1>0. PICK k \in Requests!Kinds, n \in Requests!Numbers :
         /\ k = r_thread[t].kind /\ n = r_thread[t].n /\ k # "task" /\ Stage(t, k, n) = "found"
         /\ \A j \in Requests!Kinds, m \in Requests!Numbers : j # k \/ m # n => Stage(t, j, m) = "none"
  BY <1>a, ThreadHolds
<1>1. /\ r_pc = "up" /\ r_pc' = "up" /\ Requests!Goes(t, "released")
      /\ r_taken' = [r_taken EXCEPT ![k] = @ \ {n}]
      /\ r_crossed' = IF n \notin r_taken[k] \/ Requests!Removing(k, n)
                      THEN r_crossed \cup {k} ELSE r_crossed
      /\ UNCHANGED <<r_last, r_rec, r_listed, r_files, r_done, r_doneFile, r_mount,
                     r_stacked, r_cut, r_finished>>
  BY <1>0 DEF Requests!Release, Requests!At
<1>2. RequestsTypes /\ r_taken \in [Requests!Kinds -> SUBSET Requests!Numbers]
          /\ r_crossed \subseteq r_crossed'
  BY <1>1 DEF RequestsInv, RequestsTypes
<1>3. /\ r_thread' \in [Threads -> Work] /\ \A u \in Threads \ {t} : Stays(u)
      /\ r_thread'[t].at = "released" /\ r_thread'[t].op = r_thread[t].op
      /\ r_thread'[t].kind = k /\ r_thread'[t].n = n /\ r_thread'[t].task = r_thread[t].task
  BY <1>a, <1>0, <1>1, <1>2, GoesProps
<1>4. RequestsTypes'
  BY <1>1, <1>2, <1>3 DEF RequestsTypes
<1>5. ThreadsInOrder'
  BY <1>a, <1>0, <1>1, <1>3 DEF RequestsInv, ThreadsInOrder, Stays, Building
<1>6. Stage(t, k, n)' = "released" /\ \A j, m : j # k \/ m # n => Stage(t, j, m)' = "none"
  BY <1>3 DEF Stage, Building
<1>7. ASSUME k \notin r_crossed' PROVE RecordState(k, n)'
  <2>1. RecordState(k, n) /\ n \in r_taken[k] /\ ~Requests!Removing(k, n)
    BY <1>1, <1>7 DEF RequestsInv, RecordsAgree
  <2>2. ASSUME NEW u \in Threads PROVE Stage(u, k, n) \in {"none", "found"}
    <3>1. Stage(u, k, n) \notin {"released", "deleted"}
      BY <2>1 DEF Stage, Requests!Removing, Requests!Holds
    <3>2. Stage(u, k, n) # "building"
      <4>1. u # t /\ Stage(u, k, n) = "building" => Stage(t, k, n) = "none"
        BY <2>1 DEF RecordState, OthersAt
      <4> QED
        BY <1>0, <4>1
    <3> QED
      BY <3>1, <3>2, StagesAre
  <2>3. Whole(k, n)
    BY <2>1, <2>2 DEF RecordState, Absent
  <2>4. Given(k, n)'
    BY <1>1, <1>2, <2>3 DEF Whole, Given
  <2>5. ASSUME NEW u \in Threads \ {t} PROVE Stage(u, k, n)' \in {"none", "found"}
    BY <1>3, <2>2, StageStays
  <2>6. OthersAt(t, k, n, {"none", "found"})'
    BY <2>5 DEF OthersAt
  <2> QED
    BY <1>6, <2>4, <2>5, <2>6 DEF RecordState
<1>8. RecordsAgree'
  <2>1. \A j \in Requests!Kinds, m \in Requests!Numbers :
           j # k \/ m # n => (m \in r_taken'[j] <=> m \in r_taken[j])
    BY <1>1, <1>2
  <2>2. \A j \in Requests!Kinds, m \in Requests!Numbers :
           j # k \/ m # n => Stage(t, j, m)' = Stage(t, j, m)
    BY <1>0, <1>6
  <2> QED
    BY <1>1, <1>2, <1>3, <1>7, <2>1, <2>2, OneRecordFrame
<1>9. TasksAreKept'
  <2>1. r_taken'["task"] = r_taken["task"]
    BY <1>0, <1>1, <1>2 DEF Requests!Kinds
  <2> QED
    BY <1>a, <1>1, <1>2, <1>3, <2>1, TasksFrame
<1>10. MountsAreKept'
  <2>1. ASSUME NEW j \in Requests!Media, NEW m \in Requests!Numbers, NEW u \in Threads
        PROVE  /\ Stage(u, j, m) = "building" /\ r_thread[u].at = "mounted" =>
                    Stage(u, j, m)' = "building" /\ r_thread'[u].at = "mounted"
               /\ Stage(u, j, m) = "none" => Stage(u, j, m)' = "none"
    <3>1. CASE u # t
      BY <1>3, <3>1, StageStays DEF Stays
    <3>2. CASE u = t
      BY <1>a, <1>0, <1>6, <3>2
    <3> QED
      BY <3>1, <3>2
  <2> QED
    BY <1>1, <1>2, <2>1, MountsFrame
<1> QED
  BY <1>1, <1>4, <1>5, <1>8, <1>9, <1>10 DEF RequestsInv, Requests!FailsOnlyByOverlap

\* The record goes, and the member of the list, if it still is one.
LEMMA DeleteStep == ASSUME NEW t \in Threads PROVE RequestsInv /\ Requests!Delete(t) => RequestsInv'
<1> SUFFICES ASSUME RequestsInv, Requests!Delete(t) PROVE RequestsInv'
  OBVIOUS
<1>a. r_thread[t].at = "released" /\ r_thread[t].at \notin Building
          /\ {"deleted", "released"} \subseteq Places
  BY DEF Requests!Delete, Requests!At, Building, Places
<1>0. PICK k \in Requests!Kinds, n \in Requests!Numbers :
         /\ k = r_thread[t].kind /\ n = r_thread[t].n /\ k # "task" /\ Stage(t, k, n) = "released"
         /\ \A j \in Requests!Kinds, m \in Requests!Numbers : j # k \/ m # n => Stage(t, j, m) = "none"
  BY <1>a, ThreadHolds
<1>1. /\ r_pc = "up"
      /\ UNCHANGED <<r_taken, r_last, r_files, r_done, r_doneFile, r_mount, r_crossed,
                     r_stacked, r_cut, r_finished>>
  BY <1>0 DEF Requests!Delete, Requests!At
<1>2. /\ RequestsTypes /\ ThreadsInOrder /\ r_listed[k][n] \in Nat
      /\ r_rec \in [Requests!Kinds -> SUBSET Requests!Numbers]
      /\ r_listed \in [Requests!Kinds -> [Requests!Numbers -> Nat]]
  BY DEF RequestsInv, RequestsTypes
<1>3. ASSUME k \notin r_crossed PROVE Given(k, n) /\ OthersAt(t, k, n, {"none", "found"})
  <2>1. RecordState(k, n)
    BY <1>1, <1>3 DEF RequestsInv, RecordsAgree
  <2> QED
    BY <1>0, <2>1 DEF RecordState
<1>4. CASE r_listed[k][n] = 0
  <2>1. r_pc' = "failed" /\ UNCHANGED <<r_rec, r_listed, r_thread>>
    BY <1>0, <1>4 DEF Requests!Delete
  <2>2. RequestsTypes' /\ ThreadsInOrder'
    BY <1>1, <1>2, <2>1 DEF RequestsTypes, ThreadsInOrder
  <2>3. RecordsAgree'
    BY <2>1 DEF RecordsAgree
  <2>4. TasksAreKept'
    BY <1>1, <2>1 DEF RequestsInv, TasksAreKept
  <2>5. MountsAreKept'
    BY <1>1, <2>1 DEF RequestsInv, MountsAreKept
  <2>6. Requests!FailsOnlyByOverlap'
    BY <1>1, <1>3, <1>4 DEF Given, Requests!FailsOnlyByOverlap
  <2> QED
    BY <2>2, <2>3, <2>4, <2>5, <2>6 DEF RequestsInv
<1>5. CASE r_listed[k][n] # 0
  <2>1. /\ r_pc' = "up" /\ Requests!Goes(t, "deleted")
        /\ r_rec' = [r_rec EXCEPT ![k] = @ \ {n}]
        /\ r_listed' = [r_listed EXCEPT ![k][n] = @ - 1]
    BY <1>0, <1>1, <1>5 DEF Requests!Delete
  <2>2. /\ r_listed' = [r_listed EXCEPT ![k] = [r_listed[k] EXCEPT ![n] = r_listed[k][n] - 1]]
        /\ r_listed[k][n] - 1 \in Nat
    <3>1. r_listed[k][n] - 1 \in Nat
      BY <1>2, <1>5
    <3> QED
      BY <2>1, <3>1
  <2>3. /\ r_listed'[k] = [r_listed[k] EXCEPT ![n] = r_listed[k][n] - 1]
        /\ \A j \in Requests!Kinds \ {k} : r_listed'[j] = r_listed[j]
        /\ r_listed' \in [Requests!Kinds -> [Requests!Numbers -> Nat]]
    BY <1>2, <2>2
  <2>4. /\ r_listed'[k][n] = r_listed[k][n] - 1
        /\ \A j \in Requests!Kinds, m \in Requests!Numbers :
              j # k \/ m # n => r_listed'[j][m] = r_listed[j][m]
    BY <1>2, <2>3
  <2>5. /\ r_thread' \in [Threads -> Work] /\ \A u \in Threads \ {t} : Stays(u)
        /\ r_thread'[t].at = "deleted" /\ r_thread'[t].op = r_thread[t].op
        /\ r_thread'[t].kind = k /\ r_thread'[t].n = n /\ r_thread'[t].task = r_thread[t].task
    BY <1>a, <1>0, <1>2, <2>1, GoesProps
  <2>6. RequestsTypes'
    BY <1>1, <1>2, <2>1, <2>3, <2>5 DEF RequestsTypes
  <2>7. ThreadsInOrder'
    BY <1>a, <1>0, <1>2, <2>1, <2>5 DEF ThreadsInOrder, Stays, Building
  <2>8. Stage(t, k, n)' = "deleted" /\ \A j, m : j # k \/ m # n => Stage(t, j, m)' = "none"
    BY <2>5 DEF Stage, Building
  <2>9. ASSUME k \notin r_crossed PROVE RecordState(k, n)'
    <3>1. Unfiled(k, n)'
      BY <1>1, <1>2, <1>3, <2>1, <2>4, <2>9 DEF Given, Unfiled
    <3>2. ASSUME NEW u \in Threads \ {t} PROVE Stage(u, k, n)' \in {"none", "found"}
      BY <1>3, <2>5, <2>9, StageStays DEF OthersAt
    <3>3. OthersAt(t, k, n, {"none", "found"})'
      BY <3>2 DEF OthersAt
    <3> QED
      BY <2>8, <3>1, <3>2, <3>3 DEF RecordState
  <2>10. RecordsAgree'
    <3>1. \A j \in Requests!Kinds, m \in Requests!Numbers :
             j # k \/ m # n => (m \in r_rec'[j] <=> m \in r_rec[j])
      BY <1>2, <2>1
    <3>2. \A j \in Requests!Kinds, m \in Requests!Numbers :
             j # k \/ m # n => Stage(t, j, m)' = Stage(t, j, m)
      BY <1>0, <2>8
    <3> QED
      BY <1>1, <2>4, <2>5, <2>9, <3>1, <3>2, OneRecordFrame
  <2>11. TasksAreKept'
    BY <1>a, <1>1, <2>1, <2>5, TasksFrame
  <2>12. MountsAreKept'
    <3>1. ASSUME NEW j \in Requests!Media, NEW m \in Requests!Numbers, r_crossed = {},
                 MediumIsKept(<<j, m>>), <<j, m>> \notin r_cut
          PROVE  MediumIsKept(<<j, m>>)'
      <4>1. j \in Requests!Kinds
        BY DEF Requests!Media, Requests!Kinds
      <4>2. j # k \/ m # n
        <5>1. Stage(t, k, n) # "none" /\ \A u \in Threads : Stage(u, k, n) # "building"
          BY <1>0, <1>3, <3>1 DEF OthersAt
        <5> QED
          BY <1>1, <3>1, <5>1 DEF MediumIsKept
      <4>3. /\ r_listed'[j][m] = r_listed[j][m] /\ Stage(t, j, m) = "none"
            /\ \A u \in Threads : Stage(u, j, m)' = Stage(u, j, m)
        BY <1>0, <2>4, <2>5, <2>8, <4>1, <4>2, StageStays
      <4>4. CASE \E u \in Threads : Stage(u, j, m) = "building" /\ r_thread[u].at = "mounted"
        <5>1. PICK u \in Threads \ {t} : Stage(u, j, m) = "building" /\ r_thread[u].at = "mounted"
          BY <4>3, <4>4
        <5>2. Stage(u, j, m)' = "building" /\ r_thread'[u].at = "mounted"
          BY <2>5, <4>3, <5>1 DEF Stays
        <5> QED
          BY <2>1, <5>2 DEF MediumIsKept
      <4>5. CASE r_listed[j][m] > 0 /\ \A u \in Threads : Stage(u, j, m) = "none"
        BY <2>1, <4>3, <4>5 DEF MediumIsKept
      <4> QED
        BY <1>1, <3>1, <4>4, <4>5 DEF MediumIsKept
    <3>2. ASSUME NEW j \in Requests!Media, NEW m \in Requests!Numbers, <<j, m>> \in r_cut
          PROVE  MediumIsKept(<<j, m>>)'
      BY <1>1, <3>2 DEF MediumIsKept
    <3> QED
      BY <1>1, <3>1, <3>2, MountsStay
  <2> QED
    BY <2>1, <2>6, <2>7, <2>10, <2>11, <2>12 DEF RequestsInv, Requests!FailsOnlyByOverlap
<1> QED
  BY <1>4, <1>5

\* The file goes unless the uri is in g_record again.
LEMMA RemoveFileStep == ASSUME NEW t \in Threads PROVE RequestsInv /\ Requests!RemoveFile(t) => RequestsInv'
<1> SUFFICES ASSUME RequestsInv, Requests!RemoveFile(t) PROVE RequestsInv'
  OBVIOUS
<1>a. r_thread[t].at = "deleted" /\ r_thread[t].at \notin Building /\ r_thread[t].at \in Places
  BY DEF Requests!RemoveFile, Requests!At, Building, Places
<1>0. PICK k \in Requests!Kinds, n \in Requests!Numbers :
         /\ k = r_thread[t].kind /\ n = r_thread[t].n /\ k # "task" /\ Stage(t, k, n) = "deleted"
         /\ \A j \in Requests!Kinds, m \in Requests!Numbers : j # k \/ m # n => Stage(t, j, m) = "none"
  BY <1>a, ThreadHolds
<1>1. /\ r_pc = "up" /\ r_pc' = "up" /\ Requests!Answers(t)
      /\ r_files' = [r_files EXCEPT ![k] = @ \ ({n} \ r_rec[k])]
      /\ UNCHANGED <<r_taken, r_last, r_rec, r_listed, r_done, r_doneFile, r_mount,
                     r_crossed, r_stacked, r_cut, r_finished>>
  BY <1>0 DEF Requests!RemoveFile, Requests!At
<1>2. RequestsTypes /\ r_files \in [Requests!Kinds -> SUBSET Requests!Numbers]
  BY DEF RequestsInv, RequestsTypes
<1>3. /\ r_thread' \in [Threads -> Work] /\ \A u \in Threads \ {t} : Stays(u)
      /\ r_thread'[t].at = "complete" /\ r_thread'[t].op = "none" /\ r_thread'[t].task = r_thread[t].task
  BY <1>1, <1>2, AnswersProps
<1>4. RequestsTypes'
  BY <1>1, <1>2, <1>3 DEF RequestsTypes
<1>5. ThreadsInOrder'
  BY <1>1, <1>3 DEF RequestsInv, ThreadsInOrder, Stays, Building
<1>6. \A j, m : Stage(t, j, m)' = "none"
  BY <1>3 DEF Stage, Building
<1>7. ASSUME k \notin r_crossed PROVE RecordState(k, n)'
  <2>1. RecordState(k, n)
    BY <1>1, <1>7 DEF RequestsInv, RecordsAgree
  <2>2. Unfiled(k, n) /\ OthersAt(t, k, n, {"none", "found"})
    BY <1>0, <2>1 DEF RecordState
  <2>3. ASSUME NEW u \in Threads PROVE Stage(u, k, n)' \in {"none", "found"}
    BY <1>3, <1>6, <2>2, StageStays DEF OthersAt
  <2>4. Absent(k, n)'
    BY <1>1, <1>2, <2>2 DEF Unfiled, Absent
  <2> QED
    BY <2>3, <2>4 DEF RecordState
<1>8. RecordsAgree'
  <2>1. \A j \in Requests!Kinds, m \in Requests!Numbers :
           j # k \/ m # n => (m \in r_files'[j] <=> m \in r_files[j])
    BY <1>1, <1>2
  <2>2. \A j \in Requests!Kinds, m \in Requests!Numbers :
           j # k \/ m # n => Stage(t, j, m)' = Stage(t, j, m)
    BY <1>0, <1>6
  <2> QED
    BY <1>1, <1>3, <1>7, <2>1, <2>2, OneRecordFrame
<1>9. TasksAreKept'
  <2>1. r_files'["task"] = r_files["task"]
    BY <1>0, <1>1, <1>2 DEF Requests!Kinds
  <2> QED
    BY <1>a, <1>1, <1>3, <2>1, TasksFrame
<1>10. MountsAreKept'
  <2>1. ASSUME NEW j \in Requests!Media, NEW m \in Requests!Numbers, NEW u \in Threads
        PROVE  /\ Stage(u, j, m) = "building" /\ r_thread[u].at = "mounted" =>
                    Stage(u, j, m)' = "building" /\ r_thread'[u].at = "mounted"
               /\ Stage(u, j, m) = "none" => Stage(u, j, m)' = "none"
    BY <1>a, <1>3, <1>6, StageStays DEF Stays
  <2> QED
    BY <1>1, <2>1, MountsFrame
<1> QED
  BY <1>1, <1>4, <1>5, <1>8, <1>9, <1>10 DEF RequestsInv, Requests!FailsOnlyByOverlap

-----------------------------------------------------------------------------
(* Requests: kill, restart, and the four properties.                       *)

\* A kill stops every request where it is. A medium between mount and list is
\* caught, the others are in their files.
LEMMA RequestsKillStep == RequestsInv /\ Requests!Kill => RequestsInv'
<1> SUFFICES ASSUME RequestsInv, Requests!Kill PROVE RequestsInv'
  OBVIOUS
<1>1. /\ r_pc = "up" /\ r_pc' = "down" /\ r_cut' = r_cut \cup Requests!Inserting
      /\ r_thread' = [t \in Threads |-> Requests!Idle]
      /\ UNCHANGED <<r_taken, r_last, r_rec, r_listed, r_files, r_done, r_doneFile, r_mount,
                     r_crossed, r_stacked, r_finished>>
  BY DEF Requests!Kill
<1>2. /\ r_thread' \in [Threads -> Work]
      /\ \A t \in Threads : r_thread'[t].at = "idle" /\ r_thread'[t].op = "none"
  BY <1>1, IdleIsWork
<1>3. RequestsTypes'
  BY <1>1, <1>2 DEF RequestsInv, RequestsTypes
<1>4. ThreadsInOrder'
  BY <1>2 DEF ThreadsInOrder, Building
<1>5. RecordsAgree' /\ TasksAreKept' /\ Requests!FailsOnlyByOverlap'
  BY <1>1 DEF RequestsInv, RecordsAgree, TasksAreKept, Requests!FailsOnlyByOverlap
<1>6. ASSUME NEW k \in Requests!Media, NEW n \in Requests!Numbers, r_crossed = {},
             MediumIsKept(<<k, n>>)
      PROVE  MediumIsKept(<<k, n>>)'
  <2>1. CASE <<k, n>> \in r_cut
    BY <1>1, <2>1 DEF MediumIsKept
  <2>2. CASE \E t \in Threads : Stage(t, k, n) = "building" /\ r_thread[t].at = "mounted"
    <3>1. PICK t \in Threads : Stage(t, k, n) = "building" /\ r_thread[t].at = "mounted"
      BY <2>2
    <3>2. r_thread[t].kind = k /\ r_thread[t].n = n /\ r_thread[t].op = "insert"
      BY <3>1 DEF RequestsInv, ThreadsInOrder, Stage, Building
    <3>3. <<k, n>> \in Requests!Inserting
      BY <3>1, <3>2 DEF Requests!Inserting
    <3> QED
      BY <1>1, <3>3 DEF MediumIsKept
  <2>3. CASE r_listed[k][n] > 0 /\ \A t \in Threads : Stage(t, k, n) = "none"
    <3>1. RecordState(k, n)
      BY <1>1, <1>6 DEF RequestsInv, RecordsAgree, Requests!Media, Requests!Kinds
    <3>2. n \in r_files[k]
      BY <2>3, <3>1 DEF RecordState, Whole, Absent
    <3> QED
      BY <1>1, <3>2 DEF MediumIsKept
  <2> QED
    BY <1>1, <1>6, <2>1, <2>2, <2>3 DEF MediumIsKept
<1>7. MountsAreKept'
  BY <1>1, <1>6, MountsStay
<1> QED
  BY <1>3, <1>4, <1>5, <1>7 DEF RequestsInv

\* A start makes every number of a file whole again.
LEMMA RequestsRestartStep == RequestsInv /\ Requests!Restart => RequestsInv'
<1> SUFFICES ASSUME RequestsInv, Requests!Restart PROVE RequestsInv'
  OBVIOUS
<1>1. /\ r_pc = "down" /\ r_pc' = "up" /\ r_taken' = r_files /\ r_rec' = r_files
      /\ r_last' = [k \in Requests!Kinds |-> Requests!FirstNumber(k)]
      /\ r_listed' = [k \in Requests!Kinds |->
                         [n \in Requests!Numbers |-> IF n \in r_files[k] THEN 1 ELSE 0]]
      /\ r_done' = r_doneFile
      /\ UNCHANGED <<r_thread, r_files, r_doneFile, r_mount, r_crossed, r_stacked, r_cut, r_finished>>
  BY DEF Requests!Restart, Requests!RestartTaken
<1>2. \A t \in Threads : r_thread[t].at = "idle"
  BY <1>1 DEF RequestsInv, ThreadsInOrder
<1>3. RequestsTypes'
  BY <1>1 DEF RequestsInv, RequestsTypes
<1>4. ThreadsInOrder'
  BY <1>1 DEF RequestsInv, ThreadsInOrder
<1>5. \A t \in Threads : \A k, n : Stage(t, k, n)' = "none"
  BY <1>1, <1>2 DEF Stage, Building
<1>6. ASSUME NEW k \in Requests!Kinds, NEW n \in Requests!Numbers PROVE RecordState(k, n)'
  <2>1. Whole(k, n)' \/ Absent(k, n)'
    BY <1>1 DEF Whole, Absent
  <2> QED
    BY <1>5, <2>1 DEF RecordState
<1>7. RecordsAgree'
  BY <1>6 DEF RecordsAgree
<1>8. TasksAreKept'
  BY <1>1, <1>2 DEF RequestsInv, TasksAreKept
<1>9. MountsAreKept'
  <2> SUFFICES ASSUME ~r_stacked PROVE MountsAreKept'
    BY <1>1 DEF MountsAreKept
  <2>1. Len(r_mount) <= 1 /\ r_mount \in Seq(Requests!Media \X Requests!Numbers)
    BY DEF RequestsInv, MountsAreKept, RequestsTypes
  <2>2. ASSUME r_crossed = {}, NEW i \in 1 .. Len(r_mount) PROVE MediumIsKept(r_mount[i])'
    <3>1. PICK k \in Requests!Kinds, n \in Requests!Numbers : r_mount[i] = <<k, n>>
      <4>1. r_mount[i] \in Requests!Media \X Requests!Numbers
        BY <2>1, <2>2, ElementOfSeq
      <4> QED
        BY <4>1 DEF Requests!Media, Requests!Kinds
    <3>2. MediumIsKept(<<k, n>>)
      BY <1>1, <2>2, <3>1 DEF RequestsInv, MountsAreKept
    <3>3. <<k, n>> \in r_cut \/ r_listed'[k][n] > 0
      BY <1>1, <3>2 DEF MediumIsKept
    <3>4. MediumIsKept(<<k, n>>)'
      BY <1>1, <1>5, <3>3 DEF MediumIsKept
    <3> QED
      BY <1>1, <3>1, <3>4
  <2> QED
    BY <1>1, <2>1, <2>2 DEF MountsAreKept
<1> QED
  BY <1>1, <1>3, <1>4, <1>7, <1>8, <1>9 DEF RequestsInv, Requests!FailsOnlyByOverlap

\* The server starts with subscription 1.
LEMMA RequestsInitInv == Requests!Init => RequestsInv
<1> SUFFICES ASSUME Requests!Init PROVE RequestsInv
  OBVIOUS
<1>1. /\ r_pc = "up" /\ r_thread = [t \in Threads |-> Requests!Idle]
      /\ r_taken = [k \in Requests!Kinds |-> Requests!Made(k)] /\ r_rec = r_taken /\ r_files = r_taken
      /\ r_last = [k \in Requests!Kinds |-> Requests!FirstNumber(k)]
      /\ r_listed = [k \in Requests!Kinds |->
                        [n \in Requests!Numbers |-> IF n \in Requests!Made(k) THEN 1 ELSE 0]]
      /\ r_mount = <<>> /\ r_stacked = FALSE /\ r_finished = {} /\ r_crossed = {}
  BY DEF Requests!Init
<1>2. \A k \in Requests!Kinds : Requests!Made(k) \in SUBSET Requests!Numbers
  BY NumbersAssumption DEF NumbersAssumption, Requests!Made, Requests!Numbers
<1>3. r_thread \in [Threads -> Work] /\ \A t \in Threads : r_thread[t] = Requests!Idle
  BY <1>1, IdleIsWork
<1>4. RequestsTypes
  <2>1. /\ r_taken \in [Requests!Kinds -> SUBSET Requests!Numbers]
        /\ r_rec = r_taken /\ r_files = r_taken
    BY <1>1, <1>2
  <2>2. r_listed \in [Requests!Kinds -> [Requests!Numbers -> Nat]]
    BY <1>1
  <2>3. r_mount \in Seq(Requests!Media \X Requests!Numbers) /\ r_stacked \in BOOLEAN
    BY <1>1, EmptySeq
  <2>4. DOMAIN r_last = Requests!Kinds
    BY <1>1
  <2> QED
    BY <1>1, <1>3, <2>1, <2>2, <2>3, <2>4 DEF RequestsTypes
<1>5. ThreadsInOrder
  BY <1>1, <1>3, IdleIsWork DEF ThreadsInOrder, Building
<1>6. ASSUME NEW k \in Requests!Kinds, NEW n \in Requests!Numbers PROVE RecordState(k, n)
  <2>1. Whole(k, n) \/ Absent(k, n)
    BY <1>1 DEF Whole, Absent
  <2>2. \A t \in Threads : Stage(t, k, n) = "none"
    BY <1>3, IdleIsWork DEF Stage, Building
  <2> QED
    BY <2>1, <2>2 DEF RecordState
<1>7. RecordsAgree
  BY <1>6 DEF RecordsAgree
<1>8. TasksAreKept
  BY <1>1, <1>3, IdleIsWork DEF TasksAreKept
<1>9. MountsAreKept
  BY <1>1 DEF MountsAreKept
<1> QED
  BY <1>1, <1>4, <1>5, <1>7, <1>8, <1>9 DEF RequestsInv, Requests!FailsOnlyByOverlap

\* Every step of the component keeps the invariant.
LEMMA RequestsStepsKeepInv == RequestsInv /\ Requests!Next => RequestsInv'
<1> SUFFICES ASSUME RequestsInv, Requests!Next PROVE RequestsInv'
  OBVIOUS
<1>1. ASSUME NEW t \in Threads,
             \/ Requests!Receive(t) \/ Requests!generate_task_resource(t) \/ Requests!Treat(t)
             \/ Requests!complete_task_resource(t) \/ Requests!Reply(t)
      PROVE  RequestsInv'
  BY <1>1, ReceiveStep, GenerateStep, TreatStep, CompleteStep, ReplyStep
<1>2. ASSUME NEW t \in Threads,
             \/ Requests!FindNumber(t) \/ Requests!MakeRecord(t) \/ Requests!UnmountOld(t)
             \/ Requests!Mount(t) \/ Requests!AddMedium(t) \/ Requests!UndoInsert(t)
      PROVE  RequestsInv'
  BY <1>2, FindNumberStep, MakeRecordStep, UnmountOldStep, MountStep, AddMediumStep, UndoInsertStep
<1>3. ASSUME NEW t \in Threads,
             \/ Requests!FindRecord(t) \/ Requests!Release(t) \/ Requests!Delete(t)
             \/ Requests!RemoveFile(t)
      PROVE  RequestsInv'
  BY <1>3, FindRecordStep, ReleaseStep, DeleteStep, RemoveFileStep
<1> QED
  BY <1>1, <1>2, <1>3, RequestsKillStep, RequestsRestartStep DEF Requests!Next

\* RequestsInv holds in every state of the component.
THEOREM RequestsInvariance == Spec => [](focus = "requests" => RequestsInv)
<1>1. Init => (focus = "requests" => RequestsInv)
  BY RequestsInitInv DEF Init
<1>2. (focus = "requests" => RequestsInv) /\ [Next]_serviceVars => (focus = "requests" => RequestsInv)'
  <2>1. UNCHANGED <<focus, requestsVars>> /\ RequestsInv => RequestsInv'
    BY DEF requestsVars, RequestsInv, RequestsTypes, ThreadsInOrder, RecordsAgree, RecordState,
           OthersAt, Stage, Whole, Absent, Begun, Given, Unfiled, TasksAreKept, MountsAreKept,
           MediumIsKept, Requests!FailsOnlyByOverlap
  <2> QED
    BY <2>1, RequestsStepsKeepInv DEF Next, serviceVars
<1> QED
  BY <1>1, <1>2, PTL DEF Spec, serviceVars

\* When no request works on records of a kind, its numbers, records, members and
\* files agree, whatever the threads did in which order: unless two of them held
\* one number.
THEOREM RequestNumbersAgree == Spec => []NumbersAgree
<1>1. RequestsInv => Requests!NumbersAgree
  <2> SUFFICES ASSUME RequestsInv, r_pc = "up", NEW k \in Requests!Kinds \ r_crossed,
                      ~Requests!Working(k)
               PROVE  /\ r_taken[k] = r_rec[k] /\ r_rec[k] = r_files[k]
                      /\ \A n \in Requests!Numbers : r_listed[k][n] = IF n \in r_rec[k] THEN 1 ELSE 0
    BY DEF Requests!NumbersAgree
  <2>1. ASSUME NEW t \in Threads, NEW n PROVE Stage(t, k, n) = "none"
    BY DEF Stage, Requests!Working, Building
  <2>2. \A n \in Requests!Numbers : Whole(k, n) \/ Absent(k, n)
    BY <2>1 DEF RequestsInv, RecordsAgree, RecordState
  <2>3. /\ r_taken[k] \subseteq Requests!Numbers /\ r_rec[k] \subseteq Requests!Numbers
        /\ r_files[k] \subseteq Requests!Numbers
    BY DEF RequestsInv, RequestsTypes
  <2> QED
    BY <2>2, <2>3 DEF Whole, Absent
<1> QED
  BY <1>1, RequestsInvariance, PTL DEF NumbersAgree

\* A removal uses memory that is not its record's only after two threads held
\* one number.
THEOREM RemovalsFailOnlyByOverlap == Spec => []FailsOnlyByOverlap
<1>1. RequestsInv => Requests!FailsOnlyByOverlap
  BY DEF RequestsInv
<1> QED
  BY <1>1, RequestsInvariance, PTL DEF FailsOnlyByOverlap

\* The task of an answered request stays Completed, in memory and in its file,
\* through kills and restarts.
THEOREM AnsweredTasksAreCompleted == Spec => []AnsweredTaskIsCompleted
<1>1. RequestsInv => Requests!AnsweredTaskIsCompleted
  BY DEF RequestsInv, TasksAreKept, Requests!AnsweredTaskIsCompleted
<1> QED
  BY <1>1, RequestsInvariance, PTL DEF AnsweredTaskIsCompleted

\* Nothing stays mounted that no request can eject.
THEOREM MountedMediaAreListed == Spec => []MountedIsListed
<1>1. RequestsInv => Requests!MountedIsListed
  <2> SUFFICES ASSUME RequestsInv, ~r_stacked, r_crossed = {}, r_pc = "up",
                      NEW i \in 1 .. Len(r_mount)
               PROVE  \/ r_listed[r_mount[i][1]][r_mount[i][2]] > 0
                      \/ r_mount[i] \in Requests!Inserting \cup r_cut
    BY DEF Requests!MountedIsListed
  <2>1. MediumIsKept(r_mount[i])
    BY DEF RequestsInv, MountsAreKept
  <2>2. PICK k \in Requests!Media, n \in Requests!Numbers : r_mount[i] = <<k, n>>
    <3>1. r_mount[i] \in Requests!Media \X Requests!Numbers
      BY ElementOfSeq DEF RequestsInv, RequestsTypes
    <3> QED
      BY <3>1
  <2>3. CASE \E t \in Threads : Stage(t, k, n) = "building" /\ r_thread[t].at = "mounted"
    <3>1. PICK t \in Threads : Stage(t, k, n) = "building" /\ r_thread[t].at = "mounted"
      BY <2>3
    <3>2. r_thread[t].kind = k /\ r_thread[t].n = n /\ r_thread[t].op = "insert"
      BY <3>1 DEF RequestsInv, ThreadsInOrder, Stage, Building
    <3>3. <<k, n>> \in Requests!Inserting
      BY <3>1, <3>2 DEF Requests!Inserting
    <3> QED
      BY <2>2, <3>3
  <2> QED
    BY <2>1, <2>2, <2>3 DEF MediumIsKept
<1> QED
  BY <1>1, RequestsInvariance, PTL DEF MountedIsListed
-----------------------------------------------------------------------------
(* Power: the inductive invariant.                                         *)

\* Greater from place to place.
InTime(g) == \A i, j \in DOMAIN g : i < j => g[i] < g[j]

\* Types; no round wrote two rows.
PowerTypes ==
    /\ w_name \in {"min", "hour", "day_1", "day_2"} /\ w_edge \in BOOLEAN
    /\ w_sample \in 0 .. MaxSamples
    /\ w_rows \in Seq(1 .. w_sample) /\ Len(w_rows) <= Power!Table.limit
    /\ \A i, j \in DOMAIN w_rows : w_rows[i] = w_rows[j] => i = j
    /\ w_edge => w_cursor \in 1 .. Power!Table.limit
    /\ w_turns \in 0 .. Power!Table.limit
    /\ w_count \in Nat /\ w_full \in {0, Power!Table.drawn}
    /\ w_graph \in [1 .. Power!Table.shown -> Nat]
    /\ w_request \in [at : {"none", "count", "select", "convert", "draw"}, buf : Seq(Nat),
                      newest : Nat]

\* How many rounds back the row in place i was written, once the cursor went
\* round without a loss.
Back(i) == w_cursor - 1 - i + IF i < w_cursor THEN 0 ELSE Power!Table.limit

\* The rows written one after the other since a start or a loss.  While the
\* table fills that is all of them or none is known of; then it is the rows
\* behind the cursor.
RowsOfTurns ==
    IF Len(w_rows) < Power!Table.limit
    THEN /\ w_turns \in {0, Power!Table.limit}
         /\ w_turns = Power!Table.limit =>
                w_cursor = 1 /\ \A i \in 1 .. Len(w_rows) : w_rows[i] = w_sample - Len(w_rows) + i
    ELSE \A i \in 1 .. Power!Table.limit : Back(i) < w_turns => w_rows[i] = w_sample - Back(i)

TurnsAreWritten == w_edge => RowsOfTurns

\* full is set by a count of more rows than are drawn, and rows are not removed.
FullIsCounted ==
    w_full # 0 => /\ Len(w_rows) > Power!Table.drawn
                  /\ w_request.at \in {"select", "convert", "draw"} => w_count > Power!Table.drawn

\* What the page must show as graph g of c rows up to round n (0: any rows in
\* order).
Wanted(g, c, n) ==
    LET back(i) == (Len(g) - i) * Power!Table.step
    IN /\ \A i, j \in DOMAIN g : i < j /\ g[i] # 0 => g[i] < g[j] /\ g[j] # Power!Junk
       /\ n # 0 => \A i \in DOMAIN g : g[i] = IF back(i) < c THEN n - back(i) ELSE 0

\* The graph the page answers with (last_day_2 apart).
Shown == IF w_name = "min" THEN Power!get_min_power_graph ELSE Power!get_hour_power_graph

\* What SELECT put into the buffer of an hour or a day.
BufferIsRead ==
    /\ w_name # "min"
    /\ w_request.buf \in Seq(1 .. MaxSamples) /\ InTime(w_request.buf)
    /\ w_count <= Len(w_request.buf)
    /\ w_request.newest # 0 =>
           \A i \in 1 .. w_count : w_request.buf[i] = w_request.newest - w_count + i

\* What the graph then holds.
GraphIsRead ==
    /\ w_name = "min" => w_count <= Power!Table.shown
    /\ w_name # "day_2" => Wanted(Shown, w_count, w_request.newest)

\* What the request under way has read at each step of the page.
RequestReads ==
    /\ w_request = Power!NoRequest \/ w_edge
    /\ w_request.at = "none" => w_request = Power!NoRequest
    /\ w_request.at \in {"count", "select", "convert"} => w_graph = Power!Cleared
    /\ w_request.at = "select" =>
           /\ w_count <= Len(w_rows)
           /\ w_request.newest # 0 =>
                  /\ w_turns = Power!Table.limit
                  /\ w_request.newest = w_sample /\ w_count = Len(w_rows)
    /\ w_request.at = "convert" => BufferIsRead
    /\ w_request.at = "draw" => GraphIsRead

\* The last answer.
AnswerIsWanted ==
    w_name # "day_2" => Wanted(w_answer.graph, w_answer.count, w_answer.newest)

PowerInv == PowerTypes /\ TurnsAreWritten /\ FullIsCounted /\ RequestReads /\ AnswerIsWanted

-----------------------------------------------------------------------------
(* Power: the rows in the order of their time.                             *)

\* How many members of S are below v: the place of v in S, from 0.
Rank(S, v) == Power!Cardinality({w \in S : w < v})

\* The sizes the model counts are those of the library's theorems.
LEMMA SizeIsCardinality == ASSUME NEW S PROVE Power!Cardinality(S) = Cardinality(S)
  BY DEF Power!Cardinality, Cardinality

LEMMA RankIsSize ==
    ASSUME NEW S, NEW v PROVE Rank(S, v) = Cardinality({w \in S : w < v})
  BY SizeIsCardinality DEF Rank

\* A finite set of numbers has a member of every rank below its size.
LEMMA RankIsTaken ==
    ASSUME NEW S \in SUBSET Nat, IsFiniteSet(S), NEW k \in Nat, k < Cardinality(S)
    PROVE  \E v \in S : Rank(S, v) = k
<1> DEFINE Free == {r \in Nat : r < Cardinality(S) /\ \A v \in S : Rank(S, v) # r}
<1>1. Cardinality(S) \in Nat
  BY FS_CardinalityType
<1>2. SUFFICES ASSUME Free # {} PROVE FALSE
  BY <1>2
<1>3. PICK r \in Free : \A y \in Free : r <= y
  <2>1. Free \subseteq Nat
    OBVIOUS
  <2> HIDE DEF Free
  <2> QED
    BY <1>2, <2>1, LeastOf
\* Any set R of fewer than S has elements is left by a least member.
<1>4. ASSUME NEW R \in SUBSET S, Cardinality(R) < Cardinality(S)
      PROVE  \E w \in S \ R : \A y \in S \ R : w <= y
  <2>1. S \ R # {}
    <3>1. SUFFICES ASSUME S \ R = {} PROVE FALSE
      BY <3>1
    <3>2. R = S
      BY <3>1
    <3> QED
      BY <1>1, <1>4, <3>2
  <2> QED
    BY <2>1, LeastOf
<1>5. r # 0
  <2>1. SUFFICES ASSUME r = 0 PROVE FALSE
    BY <2>1
  <2>2. {} \in SUBSET S /\ Cardinality({}) < Cardinality(S)
    BY <1>1, <1>3, <2>1, FS_EmptySet
  <2>3. PICK w \in S \ {} : \A y \in S \ {} : w <= y
    BY <1>4, <2>2
  <2>4. {x \in S : x < w} = {}
    <3>1. ASSUME NEW x \in S PROVE ~(x < w)
      <4>1. x \in Nat /\ w \in Nat /\ w <= x
        BY <2>3
      <4> QED
        BY <4>1
    <3> QED
      BY <3>1
  <2> QED
    BY <1>3, <2>1, <2>3, <2>4, FS_EmptySet, RankIsSize
<1>6. PICK v \in S : Rank(S, v) = r - 1
  <2>1. r \in Nat /\ r < Cardinality(S) /\ r - 1 \in Nat /\ ~(r <= r - 1)
    BY <1>3, <1>5
  <2>2. r - 1 \notin Free
    BY <1>3, <2>1
  <2> QED
    BY <1>1, <2>1, <2>2
<1> DEFINE R == {x \in S : x <= v}
<1>7. R \in SUBSET S /\ Cardinality(R) = r
  <2> DEFINE Low == {x \in S : x < v}
  <2>1. R = Low \cup {v} /\ v \notin Low /\ Low \in SUBSET S
    <3>1. ASSUME NEW x \in S PROVE (x <= v <=> x < v \/ x = v) /\ ~(v < v)
      <4>1. x \in Nat /\ v \in Nat
        OBVIOUS
      <4> QED
        BY <4>1
    <3> QED
      BY <3>1
  <2>2. IsFiniteSet(Low)
    BY <2>1, FS_Subset
  <2>3. Cardinality(Low) = r - 1
    BY <1>6, RankIsSize
  <2> HIDE DEF Low, R
  <2>4. Cardinality(R) = (r - 1) + 1
    BY <2>1, <2>2, <2>3, FS_AddElement
  <2>5. R \subseteq S
    BY <2>1
  <2> QED
    BY <1>3, <2>4, <2>5
<1>8. PICK w \in S \ R : \A y \in S \ R : w <= y
  <2> HIDE DEF R
  <2> QED
    BY <1>3, <1>4, <1>7
<1>9. {x \in S : x < w} = R
  <2>1. v \in Nat /\ w \in Nat /\ v < w
    BY <1>8
  <2>2. ASSUME NEW x \in S PROVE x < w <=> x <= v
    BY <1>8, <2>1
  <2> QED
    BY <2>2
<1> QED
  BY <1>3, <1>7, <1>8, <1>9, RankIsSize

\* A member of higher rank is greater.
LEMMA RankOrders ==
    ASSUME NEW S \in SUBSET Nat, IsFiniteSet(S), NEW v \in S, NEW w \in S,
           Rank(S, v) < Rank(S, w)
    PROVE  v < w
<1> DEFINE Low(x) == {y \in S : y < x}
<1>1. SUFFICES ASSUME w <= v PROVE FALSE
  <2>1. v \in Nat /\ w \in Nat
    OBVIOUS
  <2> QED
    BY <1>1, <2>1
<1>2. Low(w) \in SUBSET Low(v) /\ Low(v) \in SUBSET S
  <2>1. ASSUME NEW y \in S, y < w PROVE y < v
    <3>1. y \in Nat /\ v \in Nat /\ w \in Nat
      OBVIOUS
    <3> QED
      BY <1>1, <2>1, <3>1
  <2> QED
    BY <2>1
<1>3. IsFiniteSet(Low(v))
  BY <1>2, FS_Subset
<1> HIDE DEF Low
<1>4. Cardinality(Low(w)) <= Cardinality(Low(v))
  BY <1>2, <1>3, FS_Subset
<1>5. IsFiniteSet(Low(w))
  BY <1>2, <1>3, FS_Subset
<1>6. Cardinality(Low(w)) \in Nat /\ Cardinality(Low(v)) \in Nat
  BY <1>3, <1>5, FS_CardinalityType
<1> QED
  BY <1>4, <1>6, RankIsSize DEF Low

\* In an interval the rank is the distance from its start.
LEMMA RankInInterval ==
    ASSUME NEW a \in Nat, NEW b \in Nat, NEW v \in a + 1 .. b
    PROVE  Rank(a + 1 .. b, v) = v - a - 1
<1>1. Rank(a + 1 .. b, v) = Cardinality(a + 1 .. v - 1)
  <2>1. {w \in a + 1 .. b : w < v} = a + 1 .. v - 1
    OBVIOUS
  <2> QED
    BY <2>1, RankIsSize
<1>2. Cardinality(a + 1 .. v - 1) = (v - 1) - (a + 1) + 1
  <2>1. a + 1 \in Int /\ v - 1 \in Int /\ (a + 1 > v - 1 => v - 1 = a)
    OBVIOUS
  <2> HIDE DEF Rank
  <2> QED
    BY <2>1, FS_Interval
<1> QED
  BY <1>1, <1>2

\* The domain and the members of a sequence.
LEMMA SequenceShape ==
    ASSUME NEW S, NEW s \in Seq(S)
    PROVE  Len(s) \in Nat /\ DOMAIN s = 1 .. Len(s) /\ \A i \in 1 .. Len(s) : s[i] \in S
BY LenProperties, ElementOfSeq

\* A function on the numbers up to n is a sequence of n elements.
LEMMA FunctionIsSeq ==
    ASSUME NEW S, NEW n \in Nat, NEW f \in [1 .. n -> S]
    PROVE  f \in Seq(S) /\ Len(f) = n
OBVIOUS

\* The sizes of the four tables.
LEMMA TableShape ==
    ASSUME w_name \in {"min", "hour", "day_1", "day_2"}
    PROVE  /\ Power!Table.limit \in Nat \ {0} /\ Power!Table.shown \in Nat \ {0}
           /\ Power!Table.drawn \in Nat \ {0} /\ Power!Table.step \in Nat \ {0}
           /\ w_name = "min" => Power!Table.shown = Power!Table.limit /\ Power!Table.step = 1
           /\ w_name \in {"min", "hour", "day_1"} => Power!Table.drawn = Power!Table.shown
<1>1. /\ MinRows \in Nat \ {0} /\ HourShown \in Nat \ {0} /\ HourStep \in Nat \ {0}
      /\ DayShown \in Nat \ {0} /\ DayStep \in Nat \ {0}
  BY PowerAssumption DEF PowerAssumption
<1>2. HourShown * HourStep \in Nat \ {0} /\ DayShown * DayStep \in Nat \ {0}
  BY <1>1
<1>3. /\ Power!HourRows = HourShown * HourStep /\ Power!DayRows = DayShown * DayStep
  BY DEF Power!HourRows, Power!DayRows
<1> QED
  BY <1>1, <1>2, <1>3 DEF Power!Table, Power!Tables

\* The sorted rows are as many as the rows, and in the order of their time.
LEMMA OrderIsSorted ==
    ASSUME PowerTypes
    PROVE  /\ Power!InOrderOfTime \in Seq(1 .. w_sample)
           /\ Len(Power!InOrderOfTime) = Len(w_rows)
           /\ InTime(Power!InOrderOfTime)
           /\ \A i \in 1 .. Len(w_rows) :
                  /\ Power!InOrderOfTime[i] \in Power!Range(w_rows)
                  /\ Rank(Power!Range(w_rows), Power!InOrderOfTime[i]) = i - 1
<1> DEFINE S == Power!Range(w_rows)
           o == Power!InOrderOfTime
<1>1. /\ w_rows \in Seq(1 .. w_sample) /\ w_sample \in Nat
      /\ DOMAIN w_rows = 1 .. Len(w_rows) /\ Len(w_rows) \in Nat
      /\ \A i, j \in DOMAIN w_rows : w_rows[i] = w_rows[j] => i = j
  BY PowerAssumption DEF PowerTypes, PowerAssumption
<1>2. S \subseteq 1 .. w_sample /\ \A i \in 1 .. Len(w_rows) : w_rows[i] \in S
  BY <1>1 DEF Power!Range
<1>3. IsFiniteSet(S) /\ Cardinality(S) = Len(w_rows)
  <2>1. w_rows \in Bijection(1 .. Len(w_rows), S)
    <3>1. w_rows \in [1 .. Len(w_rows) -> S]
      BY <1>1, <1>2
    <3>2. \A y \in S : \E i \in 1 .. Len(w_rows) : w_rows[i] = y
      BY <1>1 DEF Power!Range
    <3> HIDE DEF S
    <3> QED
      BY <1>1, <3>1, <3>2 DEF Bijection, Injection, Surjection, IsInjective
  <2>2. IsFiniteSet(1 .. Len(w_rows)) /\ Cardinality(1 .. Len(w_rows)) = Len(w_rows)
    <3>1. 1 \in Int /\ Len(w_rows) \in Int /\ Len(w_rows) \in Nat
      BY <1>1
    <3>2. Len(w_rows) - 1 + 1 = Len(w_rows) /\ (1 > Len(w_rows) => Len(w_rows) = 0)
      BY <3>1
    <3> HIDE DEF S, o
    <3> QED
      BY <3>1, <3>2, FS_Interval
  <2>3. ExistsBijection(1 .. Len(w_rows), S)
    BY <2>1 DEF ExistsBijection
  <2> HIDE DEF S
  <2> QED
    BY <2>2, <2>3, FS_Bijection
<1>4. o = [i \in 1 .. Len(w_rows) |-> CHOOSE v \in S : Rank(S, v) = i - 1]
  <2>1. o = [i \in DOMAIN w_rows |-> CHOOSE v \in S : Rank(S, v) = i - 1]
    BY DEF Power!InOrderOfTime, Rank
  <2> HIDE DEF S, o
  <2> QED
    BY <1>1, <2>1, Zenon
<1>5. S \in SUBSET Nat
  BY <1>1, <1>2
<1> HIDE DEF S, o
<1>6. ASSUME NEW i \in 1 .. Len(w_rows) PROVE o[i] \in S /\ Rank(S, o[i]) = i - 1
  <2>1. i - 1 \in Nat /\ i - 1 < Cardinality(S)
    BY <1>1, <1>3
  <2>2. \E v \in S : Rank(S, v) = i - 1
    BY <1>3, <1>5, <2>1, RankIsTaken
  <2>3. o[i] = CHOOSE v \in S : Rank(S, v) = i - 1
    BY <1>4
  <2> QED
    BY <2>2, <2>3
<1>7. o \in Seq(1 .. w_sample) /\ Len(o) = Len(w_rows)
  <2>1. o \in [1 .. Len(w_rows) -> 1 .. w_sample]
    <3>1. \A i \in 1 .. Len(w_rows) : o[i] \in 1 .. w_sample
      BY <1>2, <1>6
    <3>2. o = [i \in 1 .. Len(w_rows) |-> o[i]]
      BY <1>4
    <3> QED
      BY <3>1, <3>2
  <2>2. Len(w_rows) \in Nat
    BY <1>1
  <2> QED
    BY <2>1, <2>2, FunctionIsSeq
<1>8. InTime(o)
  <2>1. SUFFICES ASSUME NEW i \in 1 .. Len(w_rows), NEW j \in 1 .. Len(w_rows), i < j
                 PROVE  o[i] < o[j]
    <3>1. DOMAIN o = 1 .. Len(w_rows)
      BY <1>4
    <3> QED
      BY <2>1, <3>1 DEF InTime
  <2>2. Rank(S, o[i]) < Rank(S, o[j])
    BY <1>1, <1>6, <2>1
  <2> QED
    BY <1>3, <1>5, <1>6, <2>2, RankOrders
<1> QED
  BY <1>6, <1>7, <1>8 DEF S, o

\* Once a turn of the cursor is written, the rows are the last rounds' in order.
LEMMA OrderOfATurn ==
    ASSUME PowerTypes, RowsOfTurns, w_cursor \in 1 .. Power!Table.limit,
           w_turns = Power!Table.limit
    PROVE  \A i \in 1 .. Len(w_rows) : Power!InOrderOfTime[i] = w_sample - Len(w_rows) + i
<1> DEFINE S == Power!Range(w_rows)
           n == Len(w_rows)
           a == w_sample - n
<1>1. /\ w_rows \in Seq(1 .. w_sample) /\ w_sample \in Nat
      /\ DOMAIN w_rows = 1 .. n /\ n \in Nat /\ n <= Power!Table.limit
      /\ \A i \in 1 .. n : w_rows[i] \in 1 .. w_sample
      /\ w_cursor \in 1 .. Power!Table.limit /\ Power!Table.limit \in Nat \ {0}
  <2>1. w_sample \in Nat
    BY PowerAssumption DEF PowerTypes, PowerAssumption
  <2> QED
    BY <2>1, TableShape DEF PowerTypes
<1>2. SUFFICES ASSUME NEW k \in 1 .. n PROVE Power!InOrderOfTime[k] = a + k
  OBVIOUS
<1>3. S = a + 1 .. w_sample
  <2>1. CASE n < Power!Table.limit
    <3>1. \A i \in 1 .. n : w_rows[i] = w_sample - n + i
      BY <1>1, <2>1 DEF RowsOfTurns
    <3>2. ASSUME NEW v \in a + 1 .. w_sample PROVE \E i \in 1 .. n : w_rows[i] = v
      <4>1. v - a \in 1 .. n /\ w_sample - n + (v - a) = v
        BY <1>1
      <4> QED
        BY <3>1, <4>1
    <3>3. ASSUME NEW i \in 1 .. n PROVE w_rows[i] \in a + 1 .. w_sample
      BY <1>1, <3>1
    <3> HIDE DEF a, n
    <3> QED
      BY <1>1, <3>2, <3>3 DEF Power!Range
  <2>2. CASE n = Power!Table.limit
    <3>1. ASSUME NEW i \in 1 .. n
          PROVE  Back(i) \in 0 .. n - 1 /\ w_rows[i] = w_sample - Back(i)
      <4>1. Back(i) \in 0 .. n - 1
        <5>1. n \in Nat /\ w_cursor \in 1 .. n /\ Power!Table.limit = n
          BY <1>1, <2>2
        <5> HIDE DEF n
        <5> QED
          BY <5>1 DEF Back
      <4> QED
        <5>1. \A j \in 1 .. Power!Table.limit : Back(j) < w_turns => w_rows[j] = w_sample - Back(j)
          BY <1>1, <2>2 DEF RowsOfTurns
        <5>2. i \in 1 .. Power!Table.limit /\ Back(i) < w_turns
          BY <1>1, <2>2, <4>1
        <5> QED
          BY <4>1, <5>1, <5>2
    <3>2. ASSUME NEW v \in a + 1 .. w_sample PROVE \E i \in 1 .. n : w_rows[i] = v
      <4> DEFINE d == w_sample - v
                 i == IF d < w_cursor - 1 THEN w_cursor - 1 - d ELSE w_cursor - 1 - d + n
      <4>1. d \in 0 .. n - 1 /\ w_sample - d = v /\ w_cursor \in 1 .. n
        BY <1>1, <2>2
      <4>2. i \in 1 .. n /\ Back(i) = d
        <5> HIDE DEF d
        <5>0. n \in Nat /\ Power!Table.limit = n
          BY <1>1, <2>2
        <5> HIDE DEF n
        <5>1. CASE d < w_cursor - 1
          <6>1. i = w_cursor - 1 - d /\ i \in 1 .. n /\ i < w_cursor
            BY <4>1, <5>0, <5>1
          <6>2. Back(i) = w_cursor - 1 - i
            <7> HIDE DEF i
            <7> QED
              BY <4>1, <6>1 DEF Back
          <6> HIDE DEF i
          <6> QED
            BY <4>1, <5>0, <6>1, <6>2
        <5>2. CASE ~(d < w_cursor - 1)
          <6>1. i = w_cursor - 1 - d + n /\ i \in 1 .. n /\ ~(i < w_cursor)
            BY <4>1, <5>0, <5>2
          <6>2. Back(i) = w_cursor - 1 - i + n
            <7> HIDE DEF i
            <7> QED
              BY <4>1, <5>0, <6>1 DEF Back
          <6> HIDE DEF i
          <6> QED
            BY <4>1, <5>0, <6>1, <6>2
        <5> QED
          BY <5>1, <5>2
      <4> HIDE DEF d, i
      <4> QED
        BY <3>1, <4>1, <4>2
    <3>3. ASSUME NEW i \in 1 .. n PROVE w_rows[i] \in a + 1 .. w_sample
      BY <1>1, <3>1
    <3> HIDE DEF a, n
    <3> QED
      BY <1>1, <3>2, <3>3 DEF Power!Range
  <2> QED
    BY <1>1, <2>1, <2>2
<1>4. a \in Nat
  <2>1. a + 1 \in S
    BY <1>1, <1>3
  <2>2. S \subseteq 1 .. w_sample
    BY <1>1 DEF Power!Range
  <2> QED
    BY <1>1, <2>1, <2>2
<1>5. Power!InOrderOfTime[k] \in S /\ Rank(S, Power!InOrderOfTime[k]) = k - 1
  BY OrderIsSorted
<1> HIDE DEF S, a
<1>6. Rank(S, Power!InOrderOfTime[k]) = Power!InOrderOfTime[k] - a - 1
  BY <1>1, <1>3, <1>4, <1>5, RankInInterval
<1>7. Power!InOrderOfTime[k] \in Int
  BY <1>1, <1>3, <1>4, <1>5
<1> QED
  BY <1>4, <1>5, <1>6, <1>7

-----------------------------------------------------------------------------
(* Power: start, death and the writer.                                     *)

\* The name of the table does not change, nor do its sizes.
LEMMA TableIsKept ==
    ASSUME w_name' = w_name
    PROVE  Power!Table' = Power!Table /\ Power!Cleared' = Power!Cleared
BY DEF Power!Table, Power!Tables, Power!Cleared

\* An answer without a graph shows nothing wrong.
LEMMA NothingIsWanted == ASSUME w_answer' = Power!NoAnswer PROVE AnswerIsWanted'
<1>1. \A i : i \notin DOMAIN <<>>
  OBVIOUS
<1> QED
  BY <1>1 DEF AnswerIsWanted, Wanted, Power!NoAnswer

\* The graph to be drawn is the same while nothing that it shows changes.
LEMMA GraphIsKept ==
    ASSUME UNCHANGED <<w_name, w_count, w_graph, w_full>>,
           w_request'.newest = w_request.newest, GraphIsRead
    PROVE  GraphIsRead'
<1>1. Shown' = Shown
  BY DEF Shown, Power!get_min_power_graph, Power!get_hour_power_graph
<1>2. Power!Table' = Power!Table
  BY TableIsKept
<1> QED
  BY <1>1, <1>2 DEF GraphIsRead, Wanted, Power!Junk

\* Nothing was written or read.
LEMMA PowerInitInv == Power!Init => PowerInv
<1> SUFFICES ASSUME Power!Init PROVE PowerInv
  OBVIOUS
<1>1. w_name \in {"min", "hour", "day_1", "day_2"}
  BY DEF Power!Init, Power!Tables
<1>2. /\ w_edge = FALSE /\ w_rows = <<>> /\ w_sample = 0 /\ w_turns = 0 /\ w_count = 0
      /\ w_full = 0 /\ w_request = Power!NoRequest /\ w_answer = Power!NoAnswer
      /\ w_graph = Power!Cleared
  BY DEF Power!Init
<1>3. MaxSamples \in Nat /\ Power!Table.limit \in Nat \ {0} /\ Power!Table.shown \in Nat \ {0}
  BY <1>1, PowerAssumption, TableShape DEF PowerAssumption
<1>4. PowerTypes
  <2>1. w_rows \in Seq(1 .. w_sample) /\ Len(w_rows) = 0 /\ DOMAIN w_rows = {}
    BY <1>2
  <2>2. w_request \in [at : {"none", "count", "select", "convert", "draw"},
                       buf : Seq(Nat), newest : Nat]
    BY <1>2 DEF Power!NoRequest
  <2>3. w_graph \in [1 .. Power!Table.shown -> Nat]
    BY <1>2, <1>3 DEF Power!Cleared
  <2>4. /\ w_sample \in 0 .. MaxSamples /\ w_turns \in 0 .. Power!Table.limit
        /\ Len(w_rows) <= Power!Table.limit /\ w_count \in Nat
        /\ w_full \in {0, Power!Table.drawn}
    <3>1. 0 \in 0 .. MaxSamples /\ 0 \in 0 .. Power!Table.limit /\ 0 <= Power!Table.limit
      BY <1>3
    <3> QED
      BY <1>2, <2>1, <3>1
  <2>6. w_edge \in BOOLEAN /\ ~w_edge
    BY <1>2, Zenon
  <2>5. \A i, j \in DOMAIN w_rows : w_rows[i] = w_rows[j] => i = j
    BY <2>1
  <2> QED
    BY <1>1, <2>1, <2>2, <2>3, <2>4, <2>5, <2>6 DEF PowerTypes
<1>5. TurnsAreWritten /\ FullIsCounted
  BY <1>2 DEF TurnsAreWritten, FullIsCounted
<1>6. RequestReads
  BY <1>2 DEF RequestReads, Power!NoRequest
<1>7. AnswerIsWanted
  <2>1. \A i : i \notin DOMAIN <<>>
    OBVIOUS
  <2> QED
    BY <1>2, <2>1 DEF AnswerIsWanted, Wanted, Power!NoAnswer
<1> QED
  BY <1>4, <1>5, <1>6, <1>7 DEF PowerInv

\* A start takes the cursor from the rows: their order is known only when there
\* are none.
LEMMA EdgeStartStep == PowerInv /\ Power!EdgeStart => PowerInv'
<1> SUFFICES ASSUME PowerInv, Power!EdgeStart PROVE PowerInv'
  OBVIOUS
<1> USE DEF PowerInv
<1>1. /\ w_edge = FALSE /\ w_edge' = TRUE /\ w_cursor' \in Power!Cursors
      /\ w_turns' = IF w_rows = <<>> THEN Power!Table.limit ELSE 0
      /\ w_count' = 0 /\ w_full' = 0 /\ w_graph' = Power!Cleared /\ w_answer' = Power!NoAnswer
      /\ UNCHANGED <<w_name, w_rows, w_sample, w_request>>
  BY DEF PowerTypes, Power!EdgeStart
<1>2. w_request = Power!NoRequest
  BY <1>1 DEF RequestReads
<1>3. /\ Power!Table' = Power!Table /\ Power!Cleared' = Power!Cleared
      /\ Power!Table.limit \in Nat \ {0} /\ Power!Table.shown \in Nat \ {0}
      /\ Len(w_rows) \in Nat /\ w_sample \in Nat /\ Len(w_rows) <= Power!Table.limit
  BY <1>1, TableIsKept, TableShape, PowerAssumption DEF PowerTypes, PowerAssumption
<1>4. w_cursor' \in 1 .. Power!Table.limit /\ (w_rows = <<>> => w_cursor' = 1)
  BY <1>1, <1>3 DEF Power!Cursors
<1>5. w_turns' \in 0 .. Power!Table.limit
  BY <1>1, <1>3
<1>6. PowerTypes'
  <2>1. Power!Cleared \in [1 .. Power!Table.shown -> Nat]
    BY <1>3 DEF Power!Cleared
  <2> QED
    BY <1>1, <1>3, <1>4, <1>5, <2>1 DEF PowerTypes
<1>7. RowsOfTurns'
  <2>1. CASE w_rows = <<>>
    <3>1. Len(w_rows) = 0
      BY <2>1
    <3> QED
      BY <1>1, <1>3, <1>4, <2>1, <3>1 DEF RowsOfTurns
  <2>2. CASE w_rows # <<>>
    <3>1. w_turns' = 0
      BY <1>1, <2>2
    <3>2. ASSUME NEW i \in 1 .. Power!Table.limit PROVE ~(Back(i)' < 0)
      BY <1>3, <1>4 DEF Back
    <3> QED
      BY <1>1, <1>3, <3>1, <3>2 DEF RowsOfTurns
  <2> QED
    BY <2>1, <2>2
<1>8. FullIsCounted' /\ TurnsAreWritten'
  BY <1>1, <1>7 DEF FullIsCounted, TurnsAreWritten
<1>9. RequestReads'
  BY <1>1, <1>2 DEF RequestReads, Power!NoRequest
<1> QED
  BY <1>1, <1>6, <1>8, <1>9, NothingIsWanted

\* A death ends the request.
LEMMA EdgeDieStep == PowerInv /\ Power!EdgeDie => PowerInv'
<1> SUFFICES ASSUME PowerInv, Power!EdgeDie PROVE PowerInv'
  OBVIOUS
<1> USE DEF PowerInv
<1>1. /\ w_edge' = FALSE /\ w_request' = Power!NoRequest /\ w_answer' = Power!NoAnswer
      /\ UNCHANGED <<w_name, w_rows, w_cursor, w_sample, w_count, w_full, w_graph, w_turns>>
  BY DEF Power!EdgeDie
<1>2. Power!Table' = Power!Table
  BY <1>1, TableIsKept
<1>3. PowerTypes'
  <2>1. Power!NoRequest \in [at : {"none", "count", "select", "convert", "draw"},
                             buf : Seq(Nat), newest : Nat]
    BY DEF Power!NoRequest
  <2> QED
    BY <1>1, <1>2, <2>1 DEF PowerTypes
<1>4. TurnsAreWritten'
  BY <1>1 DEF TurnsAreWritten
<1>5. FullIsCounted' /\ RequestReads'
  BY <1>1, <1>2 DEF FullIsCounted, RequestReads, Power!NoRequest
<1> QED
  BY <1>1, <1>3, <1>4, <1>5, NothingIsWanted

\* A step that leaves the power history alone.
LEMMA PowerKept == PowerInv /\ UNCHANGED powerVars => PowerInv'
<1> SUFFICES ASSUME PowerInv, UNCHANGED powerVars PROVE PowerInv'
  OBVIOUS
<1> USE DEF PowerInv
<1>1. UNCHANGED <<w_name, w_edge, w_rows, w_cursor, w_sample, w_count, w_full, w_graph,
                  w_request, w_turns, w_answer>>
  BY DEF powerVars
<1>2. Power!Table' = Power!Table /\ Power!Cleared' = Power!Cleared
  BY <1>1, TableIsKept
<1>3. PowerTypes' /\ TurnsAreWritten' /\ FullIsCounted'
  BY <1>1, <1>2 DEF PowerTypes, TurnsAreWritten, RowsOfTurns, Back, FullIsCounted
<1>4. RequestReads'
  <2>1. BufferIsRead => BufferIsRead'
    BY <1>1 DEF BufferIsRead
  <2>2. GraphIsRead => GraphIsRead'
    BY <1>1, GraphIsKept
  <2> QED
    BY <1>1, <1>2, <2>1, <2>2 DEF RequestReads
<1>5. AnswerIsWanted'
  BY <1>1, <1>2 DEF AnswerIsWanted, Wanted, Power!Junk
<1> QED
  BY <1>3, <1>4, <1>5

\* A round: a row more, a row rewritten at the cursor, or a row lost to a reader.
LEMMA DoStuffStep == PowerInv /\ Power!DoStuff => PowerInv'
<1> SUFFICES ASSUME PowerInv, Power!DoStuff PROVE PowerInv'
  OBVIOUS
<1> USE DEF PowerInv
<1> DEFINE limit == Power!Table.limit
           n == Len(w_rows)
<1>1. /\ w_edge = TRUE /\ w_edge' = TRUE /\ w_sample < MaxSamples /\ w_sample' = w_sample + 1
      /\ w_cursor' = IF n < limit THEN w_cursor ELSE Power!NextCursor
      /\ \/ /\ w_rows' = IF n < limit THEN Append(w_rows, w_sample + 1) ELSE Power!Rewritten
            /\ w_turns' = IF n < limit \/ w_turns = limit THEN w_turns ELSE w_turns + 1
         \/ w_rows' = w_rows /\ w_turns' = 0
      /\ w_request' = [w_request EXCEPT
                           !.newest = IF w_request.at = "select" THEN 0 ELSE @]
      /\ w_answer' = Power!NoAnswer
      /\ UNCHANGED <<w_name, w_count, w_full, w_graph>>
  BY DEF PowerTypes, Power!DoStuff
<1>2. /\ Power!Table' = Power!Table /\ Power!Cleared' = Power!Cleared
      /\ limit \in Nat \ {0} /\ n \in Nat /\ n <= limit /\ w_sample \in Nat
      /\ MaxSamples \in Nat /\ w_cursor \in 1 .. limit /\ w_turns \in 0 .. limit
      /\ w_rows \in Seq(1 .. w_sample) /\ DOMAIN w_rows = 1 .. n
      /\ \A i \in 1 .. n : w_rows[i] \in 1 .. w_sample
      /\ \A i, j \in DOMAIN w_rows : w_rows[i] = w_rows[j] => i = j
  <2>1. w_sample \in Nat /\ MaxSamples \in Nat
    BY PowerAssumption DEF PowerTypes, PowerAssumption
  <2>2. w_cursor \in 1 .. limit
    BY <1>1 DEF PowerTypes
  <2> QED
    <3>1. Power!Table' = Power!Table /\ Power!Cleared' = Power!Cleared
      BY <1>1, TableIsKept
    <3>2. limit \in Nat \ {0} /\ n <= limit /\ w_turns \in 0 .. limit
      BY TableShape DEF PowerTypes
    <3>3. w_rows \in Seq(1 .. w_sample)
      BY DEF PowerTypes
    <3>4. \A i, j \in DOMAIN w_rows : w_rows[i] = w_rows[j] => i = j
      BY DEF PowerTypes
    <3>5. n \in Nat /\ DOMAIN w_rows = 1 .. n /\ \A i \in 1 .. n : w_rows[i] \in 1 .. w_sample
      BY <3>3, LenProperties
    <3> HIDE DEF limit, n
    <3> QED
      BY <2>1, <2>2, <3>1, <3>2, <3>3, <3>4, <3>5
<1>3. RowsOfTurns
  BY <1>1 DEF TurnsAreWritten
<1>4. w_rows \in Seq(1 .. w_sample')
  BY <1>1, <1>2, SeqMonotonic
\* What the statement makes of the rows: one more, one rewritten, or neither.
<1>5. /\ w_rows' \in Seq(1 .. w_sample') /\ n <= Len(w_rows') /\ Len(w_rows') <= limit
      /\ \A i, j \in DOMAIN w_rows' : w_rows'[i] = w_rows'[j] => i = j
      /\ w_turns' \in 0 .. limit /\ w_cursor' \in 1 .. limit
      /\ RowsOfTurns'
  <2>1. CASE w_rows' = w_rows /\ w_turns' = 0
    <3>1. w_cursor' \in 1 .. limit
      BY <1>1, <1>2 DEF Power!NextCursor
    <3>2. RowsOfTurns'
      <4>1. ASSUME NEW i \in 1 .. limit PROVE ~(Back(i)' < 0)
        BY <1>2, <3>1 DEF Back
      <4> QED
        BY <1>1, <1>2, <2>1, <4>1 DEF RowsOfTurns
    <3> QED
      BY <1>2, <1>4, <2>1, <3>1, <3>2
  <2>2. CASE /\ n < limit /\ w_rows' = Append(w_rows, w_sample + 1)
             /\ w_turns' = w_turns /\ w_cursor' = w_cursor
    <3>1. /\ w_rows' \in Seq(1 .. w_sample') /\ Len(w_rows') = n + 1
          /\ DOMAIN w_rows' = 1 .. n + 1
          /\ \A i \in 1 .. n : w_rows'[i] = w_rows[i]
          /\ w_rows'[n + 1] = w_sample + 1
      <4>1. w_sample + 1 \in 1 .. w_sample'
        BY <1>1, <1>2
      <4> QED
        BY <1>2, <1>4, <2>2, <4>1, AppendProperties
    <3>2. \A i, j \in DOMAIN w_rows' : w_rows'[i] = w_rows'[j] => i = j
      BY <1>2, <3>1
    <3>3. w_turns \in {0, limit} /\ (w_turns = limit => w_cursor = 1)
      BY <2>2, <1>3 DEF RowsOfTurns
    <3>4. ASSUME w_turns = limit, NEW i \in 1 .. n + 1
          PROVE  w_rows'[i] = w_sample' - (n + 1) + i
      <4>1. \A j \in 1 .. n : w_rows[j] = w_sample - n + j
        BY <1>3, <2>2, <3>4 DEF RowsOfTurns
      <4>2. CASE i \in 1 .. n
        BY <1>1, <1>2, <3>1, <4>1, <4>2
      <4>3. CASE i = n + 1
        BY <1>1, <1>2, <3>1, <4>3
      <4> QED
        BY <1>2, <4>2, <4>3
    <3>5. RowsOfTurns'
      <4>1. CASE n + 1 < limit
        BY <1>2, <2>2, <3>1, <3>3, <3>4, <4>1 DEF RowsOfTurns
      <4>2. CASE n + 1 = limit
        <5>1. ASSUME NEW i \in 1 .. limit, Back(i)' < w_turns'
              PROVE  w_rows'[i] = w_sample' - Back(i)'
          <6>1. Back(i)' = w_cursor' - 1 - i + IF i < w_cursor' THEN 0 ELSE limit
            BY <1>2 DEF Back
          <6>2. w_turns = limit /\ w_cursor' = 1
            BY <1>2, <2>2, <3>3, <5>1, <6>1
          <6>3. Back(i)' = limit - i
            BY <1>2, <6>1, <6>2
          <6> QED
            BY <1>1, <1>2, <3>4, <4>2, <6>2, <6>3
        <5>2. ~(Len(w_rows') < Power!Table'.limit)
          BY <1>2, <3>1, <4>2
        <5> QED
          BY <1>2, <5>1, <5>2 DEF RowsOfTurns
      <4> QED
        BY <1>2, <2>2, <4>1, <4>2
    <3> QED
      BY <1>2, <2>2, <3>1, <3>2, <3>5
  <2>3. CASE /\ ~(n < limit) /\ w_rows' = Power!Rewritten /\ w_cursor' = Power!NextCursor
             /\ w_turns' = IF w_turns = limit THEN w_turns ELSE w_turns + 1
    <3>1. n = limit
      BY <1>2, <2>3
    <3>2. /\ w_rows' = [i \in 1 .. n |-> IF i = w_cursor THEN w_sample + 1 ELSE w_rows[i]]
          /\ w_cursor' = IF w_cursor < limit THEN w_cursor + 1 ELSE 1
      BY <1>2, <2>3 DEF Power!Rewritten, Power!NextCursor
    <3>3. w_rows' \in Seq(1 .. w_sample') /\ Len(w_rows') = n /\ DOMAIN w_rows' = 1 .. n
      <4>1. w_rows' = [w_rows EXCEPT ![w_cursor] = w_sample + 1]
        BY <1>2, <3>1, <3>2
      <4>2. w_sample + 1 \in 1 .. w_sample' /\ w_cursor \in 1 .. n
        BY <1>1, <1>2, <3>1
      <4> QED
        BY <1>4, <4>1, <4>2, ExceptSeq
    <3>4. \A i, j \in DOMAIN w_rows' : w_rows'[i] = w_rows'[j] => i = j
      <4>1. ASSUME NEW i \in 1 .. n
            PROVE  w_rows[i] < w_sample + 1 /\ w_rows[i] # w_sample + 1
        BY <1>2
      <4> QED
        BY <1>2, <3>2, <3>3, <4>1
    <3>5. w_cursor' \in 1 .. limit /\ w_turns' \in 0 .. limit
      BY <1>2, <2>3, <3>2
    <3>6. ASSUME NEW i \in 1 .. limit, Back(i)' < w_turns'
          PROVE  w_rows'[i] = w_sample' - Back(i)'
      <4>1. /\ Back(i)' = w_cursor' - 1 - i + IF i < w_cursor' THEN 0 ELSE limit
            /\ Back(i) = w_cursor - 1 - i + IF i < w_cursor THEN 0 ELSE limit
        BY <1>2 DEF Back
      <4>2. CASE i = w_cursor
        <5>1. Back(i)' = 0
          BY <1>2, <3>2, <4>1, <4>2
        <5> QED
          BY <1>1, <1>2, <3>1, <3>2, <4>2, <5>1
      <4>3. CASE i # w_cursor
        <5>1. Back(i)' = Back(i) + 1 /\ Back(i) \in Int /\ Back(i) < limit
          <6>1. i \in 1 .. limit /\ w_cursor \in 1 .. limit /\ limit \in Nat \ {0}
            BY <1>2
          <6> HIDE DEF limit
          <6>2. CASE i < w_cursor
            BY <3>2, <4>1, <4>3, <6>1, <6>2
          <6>3. CASE ~(i < w_cursor)
            BY <3>2, <4>1, <4>3, <6>1, <6>3
          <6> QED
            BY <6>2, <6>3
        <5>2. Back(i) < w_turns
          BY <1>2, <2>3, <3>6, <5>1
        <5>3. w_rows[i] = w_sample - Back(i)
          BY <1>3, <2>3, <5>2 DEF RowsOfTurns
        <5>4. w_rows'[i] = w_rows[i]
          BY <3>1, <3>2, <4>3
        <5> QED
          BY <1>1, <1>2, <5>1, <5>3, <5>4
      <4> QED
        BY <4>2, <4>3
    <3>7. RowsOfTurns'
      <4>1. ~(Len(w_rows') < Power!Table'.limit)
        BY <1>2, <3>1, <3>3
      <4> QED
        BY <1>2, <3>6, <4>1 DEF RowsOfTurns
    <3> QED
      BY <1>2, <3>1, <3>3, <3>4, <3>5, <3>7
  <2> QED
    BY <1>1, <2>1, <2>2, <2>3
<1> HIDE DEF limit, n
<1>6. /\ w_request'.at = w_request.at /\ w_request'.buf = w_request.buf
      /\ w_request'.newest = (IF w_request.at = "select" THEN 0 ELSE w_request.newest)
      /\ w_request' \in [at : {"none", "count", "select", "convert", "draw"}, buf : Seq(Nat),
                         newest : Nat]
  BY <1>1 DEF PowerTypes
<1>7. PowerTypes'
  BY <1>1, <1>2, <1>5, <1>6 DEF PowerTypes, limit
<1>8. TurnsAreWritten'
  BY <1>5 DEF TurnsAreWritten
<1>9. Len(w_rows) \in Nat /\ Len(w_rows') \in Nat /\ Len(w_rows) <= Len(w_rows')
  BY <1>2, <1>5 DEF n
<1>10. FullIsCounted'
  <2>1. Power!Table.drawn \in Nat
    BY TableShape DEF PowerTypes
  <2> QED
    BY <1>1, <1>2, <1>6, <1>9, <2>1 DEF FullIsCounted
<1>11. RequestReads'
  <2>1. w_request'.at = "none" => w_request' = Power!NoRequest
    <3>1. w_request.at = "none" => w_request = Power!NoRequest
      BY DEF RequestReads
    <3> QED
      BY <1>1, <1>6, <3>1 DEF Power!NoRequest
  <2>2. w_request'.at \in {"count", "select", "convert"} => w_graph' = Power!Cleared'
    BY <1>1, <1>2, <1>6 DEF RequestReads
  <2>3. w_request'.at = "select" => w_count' <= Len(w_rows') /\ w_request'.newest = 0
    BY <1>1, <1>6, <1>9 DEF RequestReads, PowerTypes
  <2>4. w_request'.at = "convert" => BufferIsRead'
    BY <1>1, <1>6 DEF RequestReads, BufferIsRead
  <2>5. w_request'.at = "draw" => GraphIsRead'
    BY <1>1, <1>6, GraphIsKept DEF RequestReads
  <2> QED
    BY <1>1, <2>1, <2>2, <2>3, <2>4, <2>5 DEF RequestReads
<1> QED
  BY <1>1, <1>7, <1>8, <1>10, <1>11, NothingIsWanted

-----------------------------------------------------------------------------
(* Power: the page.                                                        *)

\* A request begins with empty graphs.
LEMMA ClearGraphStep == PowerInv /\ Power!ClearGraph => PowerInv'
<1> SUFFICES ASSUME PowerInv, Power!ClearGraph PROVE PowerInv'
  OBVIOUS
<1> USE DEF PowerInv
<1>1. /\ w_edge /\ w_request' = [Power!NoRequest EXCEPT !.at = "count"]
      /\ w_graph' = Power!Cleared /\ w_answer' = Power!NoAnswer
      /\ UNCHANGED <<w_name, w_edge, w_rows, w_cursor, w_sample, w_count, w_full, w_turns>>
  BY DEF Power!ClearGraph
<1>2. Power!Table' = Power!Table /\ Power!Cleared' = Power!Cleared
  BY <1>1, TableIsKept
<1>3. w_request' = [at |-> "count", buf |-> <<>>, newest |-> 0]
  BY <1>1 DEF Power!NoRequest
<1>4. PowerTypes'
  <2>1. Power!Cleared \in [1 .. Power!Table.shown -> Nat]
    BY DEF Power!Cleared
  <2>2. w_request' \in [at : {"none", "count", "select", "convert", "draw"}, buf : Seq(Nat),
                        newest : Nat]
    BY <1>3
  <2> QED
    BY <1>1, <1>2, <2>1, <2>2 DEF PowerTypes
<1>5. TurnsAreWritten'
  BY <1>1, <1>2 DEF TurnsAreWritten, RowsOfTurns, Back
<1>6. FullIsCounted' /\ RequestReads'
  BY <1>1, <1>2, <1>3 DEF FullIsCounted, RequestReads
<1> QED
  BY <1>1, <1>4, <1>5, <1>6, NothingIsWanted

\* The count tells whether the rows are a turn's.
LEMMA CountRowsStep == PowerInv /\ Power!CountRows => PowerInv'
<1> SUFFICES ASSUME PowerInv, Power!CountRows PROVE PowerInv'
  OBVIOUS
<1> USE DEF PowerInv
<1>1. /\ w_request.at = "count"
      /\ w_request' = [w_request EXCEPT
             !.at = "select", !.newest = IF w_turns = Power!Table.limit THEN w_sample ELSE 0]
      /\ w_count' = Len(w_rows) /\ w_answer' = Power!NoAnswer
      /\ w_full' = IF Len(w_rows) > Power!Table.drawn THEN Power!Table.drawn ELSE w_full
      /\ UNCHANGED <<w_name, w_edge, w_rows, w_cursor, w_sample, w_graph, w_turns>>
  BY DEF Power!CountRows
<1>2. Power!Table' = Power!Table /\ Power!Cleared' = Power!Cleared
  BY <1>1, TableIsKept
<1>3. w_sample \in Nat /\ Len(w_rows) \in Nat
  BY PowerAssumption DEF PowerTypes, PowerAssumption
<1>4. /\ w_request' \in [at : {"none", "count", "select", "convert", "draw"}, buf : Seq(Nat),
                         newest : Nat]
      /\ w_request'.at = "select"
      /\ w_request'.newest = IF w_turns = Power!Table.limit THEN w_sample ELSE 0
  BY <1>1, <1>3 DEF PowerTypes
<1>5. PowerTypes'
  BY <1>1, <1>2, <1>3, <1>4 DEF PowerTypes
<1>6. TurnsAreWritten'
  BY <1>1, <1>2 DEF TurnsAreWritten, RowsOfTurns, Back
<1>7. FullIsCounted'
  BY <1>1, <1>2, <1>4 DEF FullIsCounted
<1>8. RequestReads'
  <2>1. w_edge /\ w_graph = Power!Cleared
    BY <1>1 DEF RequestReads, Power!NoRequest
  <2> QED
    BY <1>1, <1>2, <1>3, <1>4, <2>1 DEF RequestReads
<1> QED
  BY <1>1, <1>5, <1>6, <1>7, <1>8, NothingIsWanted

\* The quarter's graph takes the sorted rows as they are.
LEMMA SelectRowsStep == PowerInv /\ Power!SelectRows => PowerInv'
<1> SUFFICES ASSUME PowerInv, Power!SelectRows PROVE PowerInv'
  OBVIOUS
<1> USE DEF PowerInv
<1> DEFINE o == Power!InOrderOfTime
           n == Len(w_rows)
<1>1. /\ w_request.at = "select"
      /\ w_request' = [w_request EXCEPT !.at = IF w_name = "min" THEN "draw" ELSE "convert",
                                        !.buf = IF w_name = "min" THEN <<>> ELSE o]
      /\ w_graph' = IF w_name = "min"
                    THEN [i \in DOMAIN w_graph |-> IF i <= n THEN o[i] ELSE w_graph[i]]
                    ELSE w_graph
      /\ w_answer' = Power!NoAnswer
      /\ UNCHANGED <<w_name, w_edge, w_rows, w_cursor, w_sample, w_count, w_full, w_turns>>
  BY DEF Power!SelectRows
<1>2. Power!Table' = Power!Table /\ Power!Cleared' = Power!Cleared
  BY <1>1, TableIsKept
<1>3. /\ w_sample \in Nat /\ MaxSamples \in Nat /\ w_sample <= MaxSamples
      /\ n \in Nat /\ n <= Power!Table.limit /\ Power!Table.limit \in Nat
      /\ Power!Table.shown \in Nat /\ w_count \in Nat
      /\ w_graph \in [1 .. Power!Table.shown -> Nat]
  <2>1. w_sample \in Nat /\ MaxSamples \in Nat /\ w_sample <= MaxSamples
    BY PowerAssumption DEF PowerTypes, PowerAssumption
  <2> QED
    BY <2>1, TableShape DEF PowerTypes
<1>4. /\ o \in Seq(1 .. w_sample) /\ Len(o) = n /\ InTime(o)
      /\ DOMAIN o = 1 .. n /\ \A i \in 1 .. n : o[i] \in 1 .. w_sample
  <2>1. o \in Seq(1 .. w_sample) /\ Len(o) = n /\ InTime(o)
    BY OrderIsSorted
  <2> HIDE DEF o, n
  <2> QED
    BY <2>1, SequenceShape
<1>5. o \in Seq(1 .. MaxSamples) /\ o \in Seq(Nat)
  <2>1. 1 .. w_sample \subseteq 1 .. MaxSamples /\ 1 .. w_sample \subseteq Nat
    BY <1>3
  <2> QED
    BY <1>4, <2>1, SeqMonotonic
<1>6. w_count <= n /\ w_edge /\ w_graph = Power!Cleared
  BY <1>1 DEF RequestReads, Power!NoRequest
<1>7. w_request.newest # 0 =>
          w_request.newest = w_sample /\ w_count = n /\ \A i \in 1 .. n : o[i] = w_sample - n + i
  <2>1. RowsOfTurns /\ w_cursor \in 1 .. Power!Table.limit
    BY <1>6, Zenon DEF TurnsAreWritten, PowerTypes
  <2>2. w_request.newest # 0 =>
          w_turns = Power!Table.limit /\ w_request.newest = w_sample /\ w_count = n
    BY <1>1 DEF RequestReads
  <2> QED
    BY <2>1, <2>2, OrderOfATurn
<1> HIDE DEF o, n
<1>8. /\ w_request'.at = (IF w_name = "min" THEN "draw" ELSE "convert")
      /\ w_name # "min" => w_request'.buf = o
      /\ w_request'.newest = w_request.newest
      /\ w_request' \in [at : {"none", "count", "select", "convert", "draw"}, buf : Seq(Nat),
                         newest : Nat]
  <2>1. /\ w_request \in [at : {"none", "count", "select", "convert", "draw"}, buf : Seq(Nat),
                           newest : Nat]
        /\ <<>> \in Seq(Nat)
    BY DEF PowerTypes
  <2>2. CASE w_name = "min"
    BY <1>1, <2>1, <2>2
  <2>3. CASE w_name # "min"
    <3>1. w_request' = [w_request EXCEPT !.at = "convert", !.buf = o]
      BY <1>1, <2>3
    <3> QED
      BY <1>5, <2>1, <2>3, <3>1
  <2> QED
    BY <2>2, <2>3
<1>9. w_graph' \in [1 .. Power!Table.shown -> Nat]
  BY <1>1, <1>3, <1>4
<1>10. PowerTypes'
  BY <1>1, <1>2, <1>8, <1>9 DEF PowerTypes
<1>11. TurnsAreWritten'
  BY <1>1, <1>2 DEF TurnsAreWritten, RowsOfTurns, Back
<1>12. FullIsCounted'
  BY <1>1, <1>2, <1>8 DEF FullIsCounted
<1>13. w_name # "min" => BufferIsRead' /\ w_graph' = Power!Cleared'
  BY <1>1, <1>2, <1>3, <1>4, <1>5, <1>6, <1>7, <1>8 DEF BufferIsRead
<1>14. w_name = "min" => GraphIsRead'
  <2>1. SUFFICES ASSUME w_name = "min" PROVE GraphIsRead'
    BY <2>1
  <2>2. Power!Table.shown = Power!Table.limit /\ Power!Table.step = 1
    BY <2>1, TableShape DEF PowerTypes
  <2> DEFINE g == Shown'
  <2>3. /\ DOMAIN g = 1 .. w_count /\ Len(g) = w_count
        /\ \A i \in 1 .. w_count : g[i] = o[i]
    <3>1. g = [i \in 1 .. w_count |-> w_graph'[i]]
      BY <1>1, <2>1 DEF Shown, Power!get_min_power_graph
    <3>2. \A i \in 1 .. w_count : w_graph'[i] = o[i]
      BY <1>1, <1>3, <1>6, <2>1, <2>2
    <3> QED
      BY <1>3, <3>1, <3>2
  <2> HIDE DEF g
  <2>4. \A i \in 1 .. w_count : i \in 1 .. n /\ o[i] \in Nat /\ o[i] # Power!Junk
    BY <1>3, <1>4, <1>6 DEF Power!Junk
  <2>5. \A i, j \in 1 .. w_count : i < j => g[i] < g[j] /\ g[j] # Power!Junk
    BY <1>4, <2>3, <2>4 DEF InTime
  <2>6. ASSUME w_request.newest # 0, NEW i \in 1 .. w_count
        PROVE  g[i] = IF (w_count - i) * 1 < w_count
                      THEN w_request.newest - (w_count - i) * 1 ELSE 0
    BY <1>3, <1>7, <2>3, <2>6
  <2>7. Wanted(Shown, w_count, w_request.newest)'
    BY <1>1, <1>2, <1>8, <2>2, <2>3, <2>5, <2>6 DEF Wanted, Power!Junk, g
  <2> QED
    BY <1>1, <1>2, <1>3, <1>6, <2>2, <2>7 DEF GraphIsRead
<1>15. RequestReads'
  BY <1>1, <1>6, <1>8, <1>13, <1>14 DEF RequestReads
<1> QED
  BY <1>1, <1>10, <1>11, <1>12, <1>15, NothingIsWanted

\* The farther from the end of a graph, the more rows back.
LEMMA StepsAreOrdered ==
    ASSUME NEW a \in Nat, NEW b \in Nat, NEW s \in Nat \ {0}
    PROVE  /\ a * s \in Nat
           /\ a < b => a * s < b * s
<1>1. a * s \in Nat
  OBVIOUS
<1>2. ASSUME a < b PROVE a * s < b * s
  <2>1. b - a \in Nat \ {0} /\ b = a + (b - a)
    BY <1>2
  <2>2. (b - a) * s \in Nat \ {0}
    BY <2>1
  <2>3. b * s = a * s + (b - a) * s
    BY <2>1
  <2> QED
    BY <1>1, <2>2, <2>3
<1> QED
  BY <1>1, <1>2

\* What convert_power_to_g_power leaves in place i, when more rows were counted
\* than are shown.
LEMMA PlaceConverted ==
    ASSUME PowerTypes, BufferIsRead, w_graph = Power!Cleared, w_count > Power!Table.shown,
           NEW i \in 1 .. Power!Table.shown
    PROVE  LET back == (Power!Table.shown - i) * Power!Table.step IN
           /\ back \in Nat
           /\ Power!Converted(w_request.buf)[i] =
                  IF back < w_count THEN w_request.buf[w_count - back] ELSE 0
<1> DEFINE shown == Power!Table.shown
           back == (shown - i) * Power!Table.step
<1>1. shown \in Nat /\ w_count \in Nat /\ Power!Table.step \in Nat \ {0}
  BY TableShape DEF PowerTypes
<1>2. back \in Nat
  BY <1>1, StepsAreOrdered
<1>3. /\ w_graph = [j \in 1 .. shown |-> 0] /\ Power!Lesser(w_count, shown) = shown
      /\ w_count <= Len(w_request.buf) /\ Len(w_request.buf) \in Nat
  BY <1>1 DEF Power!Cleared, Power!Lesser, BufferIsRead
<1>4. Power!Converted(w_request.buf)[i] =
          IF i > shown \/ w_count < back + 1 THEN w_graph[i]
          ELSE IF w_count - back > Len(w_request.buf) THEN Power!Junk
          ELSE w_request.buf[w_count - back]
  BY <1>3 DEF Power!Converted
<1>5. w_graph[i] = 0 /\ ~(i > shown)
  BY <1>1, <1>3
<1> HIDE DEF shown, back
<1>6. Power!Converted(w_request.buf)[i] =
          IF back < w_count THEN w_request.buf[w_count - back] ELSE 0
  <2>1. CASE back < w_count
    BY <1>1, <1>2, <1>3, <1>4, <1>5, <2>1
  <2>2. CASE ~(back < w_count)
    BY <1>1, <1>2, <1>3, <1>4, <1>5, <2>2
  <2> QED
    BY <2>1, <2>2
<1> QED
  BY <1>2, <1>6 DEF shown, back

\* Every place of the converted graph holds a number.
LEMMA ConvertedIsTyped ==
    ASSUME PowerTypes, BufferIsRead
    PROVE  Power!Converted(w_request.buf) \in [1 .. Power!Table.shown -> Nat]
<1> DEFINE buf == w_request.buf
           last == Power!Lesser(w_count, Power!Table.shown)
<1>1. /\ w_graph \in [1 .. Power!Table.shown -> Nat] /\ w_count \in Nat
      /\ Power!Table.shown \in Nat /\ Power!Table.step \in Nat \ {0}
      /\ Power!Junk \in Nat /\ buf \in Seq(Nat)
  <2>1. Power!Junk \in Nat
    BY PowerAssumption DEF PowerAssumption, Power!Junk
  <2> QED
    BY <2>1, TableShape DEF PowerTypes
<1>2. last \in Nat
  BY <1>1 DEF Power!Lesser
<1>3. ASSUME NEW i \in 1 .. Power!Table.shown
      PROVE  Power!Converted(buf)[i] \in Nat
  <2> DEFINE back == (last - i) * Power!Table.step
  <2>1. Power!Converted(buf)[i] =
            IF i > last \/ w_count < back + 1 THEN w_graph[i]
            ELSE IF w_count - back > Len(buf) THEN Power!Junk
            ELSE buf[w_count - back]
    BY <1>1 DEF Power!Converted
  <2>2. w_graph[i] \in Nat
    BY <1>1
  <2>3. CASE i > last \/ w_count < back + 1
    BY <2>1, <2>2, <2>3
  <2>4. CASE ~(i > last \/ w_count < back + 1)
    <3>1. last - i \in Nat
      BY <1>2, <2>4
    <3>2. back \in Nat
      BY <1>1, <3>1, StepsAreOrdered
    <3> HIDE DEF back, last, buf
    <3>3. w_count - back \in Nat \ {0}
      BY <1>1, <2>4, <3>2
    <3>4. w_count - back > Len(buf) \/ buf[w_count - back] \in Nat
      BY <1>1, <3>3
    <3> QED
      BY <1>1, <2>1, <2>4, <3>4
  <2> QED
    BY <2>3, <2>4
<1>4. DOMAIN w_graph = 1 .. Power!Table.shown
  BY <1>1
<1>5. Power!Converted(buf) = [i \in 1 .. Power!Table.shown |-> Power!Converted(buf)[i]]
  BY <1>4 DEF Power!Converted
<1> HIDE DEF buf
<1> QED
  BY <1>3, <1>5 DEF buf

\* The graph of an hour or a day is every step-th row, back from the last.
LEMMA ConvertStep == PowerInv /\ Power!Convert => PowerInv'
<1> SUFFICES ASSUME PowerInv, Power!Convert PROVE PowerInv'
  OBVIOUS
<1> USE DEF PowerInv
<1> DEFINE buf == w_request.buf
           step == Power!Table.step
           shown == Power!Table.shown
           back(i) == (shown - i) * step
<1>1. /\ w_request.at = "convert"
      /\ w_request' = [w_request EXCEPT !.at = "draw", !.buf = <<>>]
      /\ w_graph' = Power!Converted(buf) /\ w_answer' = Power!NoAnswer
      /\ UNCHANGED <<w_name, w_edge, w_rows, w_cursor, w_sample, w_count, w_full, w_turns>>
  BY DEF Power!Convert
<1>2. Power!Table' = Power!Table
  BY <1>1, TableIsKept
<1>3. /\ w_request'.at = "draw" /\ w_request'.newest = w_request.newest
      /\ w_request' \in [at : {"none", "count", "select", "convert", "draw"}, buf : Seq(Nat),
                         newest : Nat]
  <2>1. /\ w_request \in [at : {"none", "count", "select", "convert", "draw"}, buf : Seq(Nat),
                           newest : Nat]
        /\ <<>> \in Seq(Nat)
    BY DEF PowerTypes
  <2> QED
    BY <1>1, <2>1
<1>4. BufferIsRead /\ w_graph = Power!Cleared /\ w_edge
  BY <1>1 DEF RequestReads, Power!NoRequest
<1>5. PowerTypes'
  BY <1>1, <1>2, <1>3, <1>4, ConvertedIsTyped DEF PowerTypes
<1>6. TurnsAreWritten'
  BY <1>1, <1>2 DEF TurnsAreWritten, RowsOfTurns, Back
<1>7. FullIsCounted'
  BY <1>1, <1>2, <1>3 DEF FullIsCounted
<1>8. w_name # "day_2" => Wanted(Shown, w_count, w_request.newest)'
  <2>1. SUFFICES ASSUME w_name # "day_2"
                 PROVE  Wanted(Shown, w_count, w_request.newest)'
    BY <2>1
  <2>2. /\ w_name # "min" /\ Power!Table.drawn = shown /\ shown \in Nat \ {0}
        /\ step \in Nat \ {0} /\ w_count \in Nat /\ w_request.newest \in Nat
        /\ w_full \in {0, shown}
    BY <1>4, <2>1, TableShape DEF PowerTypes, BufferIsRead
  <2> DEFINE g == Shown'
  <2>3. g = [i \in 1 .. (IF w_count = 0 THEN 0 ELSE w_full) |-> w_graph'[i]]
    BY <1>1, <2>2 DEF Shown, Power!get_hour_power_graph
  <2>4. CASE w_count = 0 \/ w_full = 0
    <3>1. \A i : i \notin DOMAIN g
      BY <2>2, <2>3, <2>4
    <3> HIDE DEF g
    <3> QED
      BY <3>1 DEF Wanted, g
  <2>5. CASE ~(w_count = 0 \/ w_full = 0)
    <3>1. w_full = shown /\ w_count > shown
      BY <1>1, <2>2, <2>5 DEF FullIsCounted
    <3>2. /\ DOMAIN g = 1 .. shown /\ Len(g) = shown
          /\ \A i \in 1 .. shown : g[i] = Power!Converted(buf)[i]
      BY <1>1, <2>2, <2>3, <2>5, <3>1
    <3>3. ASSUME NEW i \in 1 .. shown
          PROVE  back(i) \in Nat /\ g[i] = IF back(i) < w_count THEN buf[w_count - back(i)] ELSE 0
      BY <1>4, <3>1, <3>2, PlaceConverted
    <3>4. ASSUME NEW i \in 1 .. shown, NEW j \in 1 .. shown, i < j PROVE back(j) < back(i)
      <4>1. shown - i \in Nat /\ shown - j \in Nat /\ shown - j < shown - i
        BY <2>2, <3>4
      <4> QED
        BY <2>2, <4>1, StepsAreOrdered
    <3>5. /\ \A k \in 1 .. w_count : k \in 1 .. Len(buf) /\ buf[k] \in 1 .. MaxSamples
          /\ \A k, l \in 1 .. w_count : k < l => buf[k] < buf[l]
          /\ w_request.newest # 0 =>
                 \A k \in 1 .. w_count : buf[k] = w_request.newest - w_count + k
      <4>1. /\ buf \in Seq(1 .. MaxSamples) /\ w_count <= Len(buf) /\ InTime(buf)
            /\ w_request.newest # 0 =>
                   \A k \in 1 .. w_count : buf[k] = w_request.newest - w_count + k
        BY <1>4 DEF BufferIsRead
      <4> HIDE DEF buf
      <4>2. /\ DOMAIN buf = 1 .. Len(buf) /\ Len(buf) \in Nat
            /\ \A k \in 1 .. Len(buf) : buf[k] \in 1 .. MaxSamples
        BY <4>1, SequenceShape
      <4>3. \A k \in 1 .. w_count : k \in 1 .. Len(buf)
        BY <2>2, <4>1, <4>2
      <4> QED
        BY <4>1, <4>2, <4>3 DEF InTime
    <3> HIDE DEF g, back, shown, buf, step
    <3>6. ASSUME NEW i \in 1 .. shown, NEW j \in 1 .. shown, i < j, g[i] # 0
          PROVE  g[i] < g[j] /\ g[j] # Power!Junk
      <4>1. /\ back(i) \in Nat /\ back(j) \in Nat /\ back(j) < back(i) /\ back(i) < w_count
            /\ g[i] = buf[w_count - back(i)] /\ g[j] = buf[w_count - back(j)]
        BY <2>2, <3>3, <3>4, <3>6
      <4>2. /\ w_count - back(i) \in 1 .. w_count /\ w_count - back(j) \in 1 .. w_count
            /\ w_count - back(i) < w_count - back(j)
        BY <2>2, <4>1
      <4>3. buf[w_count - back(j)] # Power!Junk
        BY <3>5, <4>2, PowerAssumption DEF PowerAssumption, Power!Junk
      <4> QED
        BY <3>5, <4>1, <4>2, <4>3
    <3>7. ASSUME w_request.newest # 0, NEW i \in 1 .. shown
          PROVE  g[i] = IF back(i) < w_count THEN w_request.newest - back(i) ELSE 0
      <4>1. CASE back(i) < w_count
        <5>1. w_count - back(i) \in 1 .. w_count /\ back(i) \in Nat
          BY <2>2, <3>3, <4>1
        <5>2. buf[w_count - back(i)] = w_request.newest - w_count + (w_count - back(i))
          BY <3>5, <3>7, <5>1
        <5> QED
          BY <2>2, <3>3, <4>1, <5>1, <5>2
      <4>2. CASE ~(back(i) < w_count)
        BY <3>3, <4>2
      <4> QED
        BY <4>1, <4>2
    <3>8. \A i : back(i) = (Len(g) - i) * Power!Table.step
      BY <3>2 DEF back, step
    <3>9. Wanted(g, w_count, w_request.newest)
      BY <3>2, <3>6, <3>7, <3>8 DEF Wanted
    <3> QED
      BY <1>1, <1>2, <1>3, <3>9 DEF Wanted, g, Power!Junk
  <2> QED
    BY <2>4, <2>5
<1> HIDE DEF buf, step, shown, back
<1>9. RequestReads'
  <2>1. w_name # "min"
    BY <1>4 DEF BufferIsRead
  <2>2. GraphIsRead'
    BY <1>1, <1>8, <2>1 DEF GraphIsRead
  <2> QED
    BY <1>1, <1>3, <1>4, <2>2 DEF RequestReads
<1> QED
  BY <1>1, <1>5, <1>6, <1>7, <1>9, NothingIsWanted

\* The answer is the graph as it then is.
LEMMA DrawStep == PowerInv /\ Power!Draw => PowerInv'
<1> SUFFICES ASSUME PowerInv, Power!Draw PROVE PowerInv'
  OBVIOUS
<1> USE DEF PowerInv
<1>1. /\ w_request.at = "draw" /\ w_request' = Power!NoRequest
      /\ w_answer' = [graph |-> CASE w_name = "min"  -> Power!get_min_power_graph
                                  [] w_name = "hour" -> Power!get_hour_power_graph
                                  [] OTHER           -> Power!get_day_power_graph,
                      count |-> w_count, newest |-> w_request.newest]
      /\ UNCHANGED <<w_name, w_edge, w_rows, w_cursor, w_sample, w_count, w_full, w_graph,
                     w_turns>>
  BY DEF Power!Draw
<1>2. Power!Table' = Power!Table
  BY <1>1, TableIsKept
<1>3. PowerTypes'
  <2>1. Power!NoRequest \in [at : {"none", "count", "select", "convert", "draw"},
                             buf : Seq(Nat), newest : Nat]
    BY DEF Power!NoRequest
  <2> QED
    BY <1>1, <1>2, <2>1 DEF PowerTypes
<1>4. TurnsAreWritten'
  BY <1>1, <1>2 DEF TurnsAreWritten, RowsOfTurns, Back
<1>5. FullIsCounted' /\ RequestReads'
  BY <1>1, <1>2 DEF FullIsCounted, RequestReads, Power!NoRequest
<1>6. AnswerIsWanted'
  <2>1. SUFFICES ASSUME w_name # "day_2"
                 PROVE  Wanted(w_answer.graph, w_answer.count, w_answer.newest)'
    BY <1>1, <2>1 DEF AnswerIsWanted
  <2>2. w_answer'.graph = Shown
    <3>1. CASE w_name = "min"
      BY <1>1, <3>1 DEF Shown
    <3>2. CASE w_name = "hour"
      BY <1>1, <3>2 DEF Shown
    <3>3. CASE w_name = "day_1"
      <4>1. w_full \in {0, Power!Table.shown} /\ Power!Table.shown \in Nat
        BY <3>3, TableShape DEF PowerTypes
      <4>2. Power!get_day_power_graph = Power!get_hour_power_graph
        BY <4>1 DEF Power!get_day_power_graph, Power!get_hour_power_graph
      <4> QED
        BY <1>1, <3>3, <4>2 DEF Shown
    <3> QED
      BY <2>1, <3>1, <3>2, <3>3 DEF PowerTypes
  <2>3. Wanted(Shown, w_count, w_request.newest)
    BY <1>1, <2>1 DEF RequestReads, GraphIsRead
  <2>4. w_answer'.count = w_count /\ w_answer'.newest = w_request.newest
    BY <1>1
  <2> HIDE DEF Shown
  <2> QED
    BY <1>2, <2>2, <2>3, <2>4 DEF Wanted, Power!Junk
<1> QED
  BY <1>3, <1>4, <1>5, <1>6

\* The invariant of the power history holds throughout, for tables of any size.
THEOREM PowerInvariance == Spec => [](focus = "power" => PowerInv)
<1>1. Init => (focus = "power" => PowerInv)
  BY PowerInitInv DEF Init
<1>2. (focus = "power" => PowerInv) /\ [Next]_serviceVars => (focus = "power" => PowerInv)'
  <2> SUFFICES ASSUME focus = "power" => PowerInv, [Next]_serviceVars, focus' = "power"
               PROVE  PowerInv'
    OBVIOUS
  <2>1. CASE UNCHANGED serviceVars
    <3>1. focus = "power" /\ UNCHANGED powerVars
      BY <2>1 DEF serviceVars
    <3> QED
      BY <3>1, PowerKept
  <2>2. CASE Next
    <3>1. focus = "power" /\ Power!Next
      BY <2>2 DEF Next
    <3> QED
      BY <3>1, EdgeStartStep, EdgeDieStep, DoStuffStep, ClearGraphStep, CountRowsStep,
         SelectRowsStep, ConvertStep, DrawStep DEF Power!Next
  <2> QED
    BY <2>1, <2>2
<1> QED
  BY <1>1, <1>2, PTL DEF Spec, serviceVars

\* The graphs of the power page are in the order of their rows' time and, when
\* nothing was lost since the last turn of the table, show the newest rows.
THEOREM GraphsShowTheNewest == Spec => []NewestAreShown
<1>1. (focus = "power" => PowerInv) => NewestAreShown
  BY DEF NewestAreShown, Power!NewestAreShown, PowerInv, AnswerIsWanted, Wanted
<1> QED
  BY <1>1, PowerInvariance, PTL
=============================================================================
