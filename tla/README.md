# Formal models of the BMC management software (KETI-Edge, KETI-REST)

The repository is the firmware of a baseboard management controller (AST2600).
This directory holds TLA+ models of it, the TLC configurations that check them on
small instances, and theorems checked by TLAPS. Every definition is translated
from the source; `PROJECT.json` names the lines each one stands for. Paths below
are relative to `src/`.

## 1. Inventory

### Processes

| Process | What it is | Talks to |
|---|---|---|
| KETI-Edge (`KETI-Edge/keti-edge.cpp`) | the controller: nine threads over shared globals (`g_sel_hdr`, `ipmiSession`, `ipmiUser`, `ipmiNetwork`, `g_record`, ...) | UDP 623 (IPMI), HTTP (Redfish), System V queues, I2C, serial port |
| KETI-REST (`KETI-REST/`) | the web server, one mongoose loop, at most one call under way | queues 1234/5678 to KETI-Edge, 1111/2222 to the KVM process |
| KETI-WDT (`WDTBK/`) | watchdog helper | queues 1038/5037 |
| KETI-Serial, KETI-KVM | serial console and video capture | device drivers |

KETI-Edge starts the threads `lanplus_handler` (RMCP packets), `dcmi_power_handler`,
`redfish_handler` (cpprest and its thread pool), `rest_handler` (and one thread per
request), `ssdp_handler`, `psu_handler`, `ipmb_handler`, `timer_handler`,
`sel_generater`, and four LAN monitors. Only the mutexes `m_app` and `m_i2c` are ever
locked; `m_storage`, `m_chassis`, `m_transport` and `m_oem` are initialised and
never used.

### Components: state, operations, interactions, what makes them correct

* **System Event Log** (`libs/sel/sel.cpp`, counter in `libs/ipmi/ipmi.cpp`).
  State: header (begin, end), 256 records, reservation id, and the file `sel.bin`.
  Operations: add, delete, clear, reserve, get, start. Callers: IPMI storage and
  sensor commands, the timer (power limit), start-up. Hard: two separate file writes
  per command, deletes that are not looked up, a full log that must leave room for
  its own announcement, callers on several threads without a lock. Correct when the
  log never leaves its array, file and memory agree between commands, every entry
  can be read exactly once, and a restart loses no more than one entry.
* **RMCP+ sessions** (`KETI-Edge/rmcp.cpp`, `libs/session/session.cpp`, session
  commands of `libs/apps/apps.cpp`). State: `rmcpInPacket` (one for all consoles) and
  `ipmiSession[5]`. Operations: Open Session, RAKP 1 and 3, payload, Close Session, Set
  Session Privilege. Hard: handshakes of several consoles interleave over one object,
  UDP loses packets and consoles repeat them, the table fills, ids repeat. Correct when
  a look-up is unique, an entry in use keeps its owner, and an open session stays.
* **REST calls** (`KETI-REST/helper.cpp`, `KETI-Edge/rest_handler.cpp`). State: two
  kernel queues that outlive both processes, one thread per request. Hard: deaths on
  either side, answers nobody receives, bounded queues that block. Correct when a call
  gets its own answer, is carried out once, and returns.
* **Settings pages of mail, certificate, directories, RADIUS and time** (`KETI-REST/rhandler.cpp`,
  `req.cpp`, `ipmi_handle_rest` and the setters of `libs/apps/apps.cpp`). State: one file per
  page and the files made from it for the mail client, `nslcd` and RADIUS. Operations: one to
  eight commands per page, each of which rewrites a whole file; the display of the time page.
  Hard: pages broken off between two commands, commands of a dead web server beside those of the
  next, KETI-Edge ending inside a command. Correct when an answered page is in its file and in the
  file made from it, complete, and at most one directory is enabled.
* **FRU and services pages** (`libs/fru/fru.cpp`, `libs/apps/setting_service.cpp`). State: structures in
  memory, a file for each, the copy `g_setting` that is displayed. Hard: threads that
  change a structure while another writes it, a display that sets defaults. Correct when the files
  hold what was set and what is displayed.
* **LAN configuration and monitor** (`libs/network/network.cpp`). State: parameters, change
  flags, `lockFlag` per channel; a monitor thread per channel waits, sleeps five
  seconds, applies, clears the flags. Hard: flags set and cleared without a lock, a
  lost wake-up. Correct when every acknowledged change is applied in the end.
* **Users** (`libs/user/user.cpp`, `new_ipmi_user`, the Redfish accounts). State: ten users, a
  count that is computed from the first empty name, an account for a slot, a file for an account.
  Written by the users page, IPMI and PATCH. Correct when a listed user, its account and its file
  agree.
* **Redfish server** (`KETI-Edge/handler.cpp`, `init.cpp`, `libs/redfish/*`), four parts:
  *records and their files* (`g_record`, one `.json` per record, the tree a start
  builds or loads; correct when a restart finds what was written and connects it as before);
  *members and PATCH* (what each class serves, saves and restores, what a request changes;
  correct when an answered PATCH is served and restored and a refused one leaves nothing);
  *sessions* (tokens, a timer per session, accounts, numbers; correct when sessions end, stay
  ended and keep their account); *requests, tasks and virtual media* (a task per request,
  subscriptions, mounts; correct when numbers, records, members and files agree, tasks of answered
  requests are Completed and what is mounted can be ejected). Hard: a thread pool without
  locks, expiry deleting objects in use, files written and removed in several steps.
* **Power history** (`KETI-Edge/psu_server.cpp`, the power page of `apps.cpp`). State: six tables of
  `power.db`, cursors in memory only, the arrays of the graphs. Hard: a table that turns over,
  a cursor guessed by a start, a reader beside the writer. Correct when a graph shows the newest rows in
  their order.
* **Watchdog, chassis, DCMI power limit, SDR and thresholds, PEF and alerts,
  IPMB, SOL, SSDP, channel access**: command handlers over tables of their own,
  listed with their sources and the reason they are left out in `PROJECT.json`.
* **Drivers** (GPIO, I2C, PMBus, lightning sensor), **KVM video**: register, bus and file
  I/O without logic that several steps could break. `rmcp.cpp` at the top and
  `libs/util/updatevoltage.cpp` are in no build target.

How they interact: pages and commands reach KETI-Edge through the queues of `RestQueue`; the user table
and the accounts write each other (`Users`); the Redfish parts share `g_record`, the number sets
(`RedfishNumbers`) and the files; the settings pages need the record of the EventService.

Everything in this code that is hard to test is listed with its line in
`PROJECT.json` under `hazards`, with the properties that cover it or the reason
that none does.

## 2. Plan

Order: the behaviour other components rely on, and lose data by, comes first.

| Step | Module | Status | Abstract specification, runs, theorems |
|---|---|---|---|
| 1 | `SelLog`, `SelContents` | done | six invariants and the refinement checked and proved |
| 2 | `RmcpSession` | done | three table properties proved; `OpenSessionIsKept` proved for fresh ids |
| 3 | `RestQueue` | done | `OnePending` proved, `AnswerIsOwn` for fresh pids; liveness checked |
| 4 | `RedfishTree`, `RedfishStore` | done | four invariants proved, for any tree of interfaces, disks and users |
| 5 | `RedfishFields` | done | checked for every class and PATCH handler; its three invariants proved |
| 6 | `RedfishNumbers`, `RedfishSessions` | done | four invariants proved; liveness of the timers checked |
| 7 | `RedfishRequests` | done | four invariants proved; any number of threads, kills |
| 8 | `RestPages`, `RestDevices` | done | five invariants proved; deaths of both processes |
| 9 | `Users` | done | its invariant proved; three writers of one table |
| 10 | `LanMonitor` | done | its invariant proved; liveness of the monitor checked |
| 11 | `PowerUsage` | done | its invariant proved, for tables of any size; restarts |

A variant of `SelLog` with its adds split into reads and writes of two threads was considered
and is not built: no promise of the log survives it (section 6).

Modules for proofs contain no RECURSIVE operator and take their parameters as CONSTANTS
with a named assumption.

## 3. Modules and how they correspond to the code

### SelLog, SelContents, MCSelLog, SelLogProofs

`hdr` is `g_sel_hdr`, `data` is `g_sel_data`, `file` is `sel.bin`, `g_rsv_id` and `enabled`
(bit 3 of `global_enabler`) are the globals of that name. A command is several actions,
one per write of the file, because the process can be killed between them; `pc` says
what the running command does next.

| Code | Actions |
|---|---|
| `plat_sel_add_entry` | `StorageAddSel` or `LogEvent` (up to the header write), `StoreRecord`, and `AddToSelFull` if the last but one place was taken |
| `delete_sel_entry` | `DeleteEntry` (move, header write), `StoreAllRecords` (numbering, table write) |
| `plat_sel_erase` | `ClearLog` (header write), `AddLogCleared`, `StoreRecord` |
| `plat_sel_rsv_id`, `app_set_global_enables` | `Reserve`, `SetGlobalEnables` |
| `plat_sel_get_entry` | the operators `Readable` and `NextRecord`, which `ListingCoversLog` is about |
| `plat_sel_init` | `Init` (no file) and `Start` (file present) |

Left out: time stamps, message bytes, log output, I/O errors of a single write (their
codes are dropped by the callers), a kill during the very first creation of the file, and
commands of two threads at once (section 6). `DeleteEntry` takes any
id a request byte can carry. The multi-pass table write of `file_store_all_sel_data`
is modelled by what reaches the table (`TableWritten`): its first pass writes all of it
before records 1.. are numbered anew.

`SelContents` is the promise to readers: a bounded sequence of events that grows at
the end, loses one per delete, empties, and over a restart keeps its entries except
that one older record may reappear at some place and push the last one out (a kill
between header and record, or between header and table).

### RmcpSession, MCRmcpSession, RmcpSessionProofs

`rmcp` is the global `rmcpInPacket` (managed and console session id, algorithm),
`session` is `ipmiSession`, `client` is what each remote console knows. A packet is one
action, because one thread answers one packet at a time: `OpenSession`, `Rakp1`, `Rakp1NoSlot`
(every entry active: `index_session` stays -1 and RAKP 2 is computed from memory before
the table), `Rakp3`, `SetSessionPriv`, `CloseSession`. Keys are the triple they are
derived from. The console side is external: it has one request outstanding, repeats
it when it or the answer got lost (`lost`), accepts only answers that carry its
id and verify, and may leave at any time without the server hearing of it.

Left out: the user id an entry keeps, sequence numbers (the check rejects only
0xFFFFFFFF after itself), SOL and pre-session packets, requests with bad user names
(answered by silence, no state changes).

### RestQueue, MCRestQueue, RestQueueProofs

`reqQ` and `rspQ` are the two queues, `web` is the web server and its one call,
`taken` and `workers` are `rest_handler` and its threads. A message is its type (the pid) and
a tag that stands for what was asked, which the code cannot see. Both processes may
die at any step (`EdgeMayFail` for KETI-Edge and for a failing `pthread_create`) and start
again; the queues stay. Blocking `msgsnd` and `msgrcv` are guards. An answer is
35000 bytes, so the model presupposes kernel limits (`msgmax`, `msgmnb`) that let at
least one answer into the queue; the defaults of Linux do not, and the repository does
not set them.

### RedfishTree, RedfishStore (proofs in RedfishProofs)

`RedfishTree` has no state: it says which records the `init_*` functions make under which uri and
in which member of the parent, and where `dependency_injection` puts a loaded one. `RedfishStore`
is `g_record` (`mem`, `freed` for objects `clear_gc` has deleted), the members that refer to
records (`links`) and the files (`saved`, `torn`).

| Code | Actions |
|---|---|
| `init_resource` (`record_load_json`, `ServiceRoot`, message registry) | `Start`, which may end in `pc = "failed"` |
| `record_save_json` | `SaveJson`; `KillInSave` stops it after any of its files, one of them torn |
| `remove_account`, `remove_subscription`, `LogService::ClearLog` | `RemoveAccount`, `RemoveSubscription`, `ClearLog`, and `KillInClear` inside `remove_all` |
| end of the process at another moment | `KillUp`, which may tear a file a PATCH writes |

Records made by requests have no place in the tree; `RedfishRequests` and `RedfishSessions` follow
those. `g_record` is unordered, so the order of loads and saves is any.

### RedfishFields (proofs in RedfishProofs)

One record of any of the 40 classes. For each class three sets: its members, those `get_json`
writes and those `load_json` reads; for each PATCH handler the keys in the order it takes them and
which of them it can refuse, and how far it has come by then. `Patch` and `RefusedPatch` are a
request up to its answer, `Save` the write after it, `Kill` and `Start` a restart. The value of a
member is where it comes from (`first`, `new`, `refused`, `default`), which is all that is asked.

### RedfishNumbers, RedfishSessions, RedfishSessionsProofs

`RedfishNumbers` is `allocate_numset_num`. In `RedfishSessions` `accounts`, `sessions`, `saved`,
`timer` and `timeout` are what their names say; an account has an identity, because a session
points at the object and a number can be given again.

| Code | Actions |
|---|---|
| `make_account`, `remove_account`, `make_session`, `patch_session_service` | actions of these names |
| `is_session_valid`, then the use of the session | `CheckToken`, then `remove_session`, `UseOfAccount` or `UseOfRemovedSession` |
| `timer` (one tick) | `timerRead`, `timerDecrement` |
| the end of `Session::start` | `Expire` |
| restart | `Kill`, `Restart` |

### RedfishRequests (proofs in ServiceProofs)

`thread` holds, for each thread of the listener, its request and where it is; `taken` and `last`
are the number sets, `rec`, `listed` and `files` the records, members and files, `mount` the stack
on `/etc/nfs`. A request is `Receive`, `generate_task_resource`, `Treat` (dispatch), the steps of
its handler (`FindNumber`, `MakeRecord`, `UnmountOld`, `Mount`, `AddMedium`, `UndoInsert`,
`FindRecord`, `Release`, `Delete`, `RemoveFile`), `complete_task_resource` and `Reply`. Requests
that touch none of this state are one step of `Treat` with the outcomes they can have, exceptions
among them. `Kill` and `Restart` keep files and mounts. `crossed` names the kinds of which two
threads held one number: both found it free, one got it while another removed its record, or
got it after a removal had found the record that was gone by then (`FoundBefore`).

### RestPages, PagesProofs

`web` is the web server (page, next command, the number of the save), `queue` the requests
KETI-Edge has not taken, `workers` its threads, `files` and `published` what is on the card.
`StartPage`, `SendCommand` and `FinishPage` are the handlers of `rhandler.cpp`; `Take` is the
dispatch; a setter runs as `ReadFile`, `OpenFile`, `WriteFile` (and `PublishRead`, `PublishClear`,
`PublishWrite`), because another command can come between them; `Answer` ends it. `NtpManual`,
`ShowNtp` are the time page, `SetTimelimitFails` a request that stores through a pointer which is
not set, `WebDie`, `WebStart`, `EdgeDie`, `EdgeStart` deaths and starts, `RedfishReady` the
EventService coming up after the queues. A field holds the number of the save that set it, 0, or
what the stack held (`Junk`), because some setters start from uninitialised memory.

### RestDevices (proofs in ServiceProofs)

`mem` is the FRU device and the structures of the services, `setting` the copy `g_setting`, `jobs`
the threads of commands, `page` what the web server has still to send. `Take` is a command up to
its first file (the assignment to memory is part of it), `OpenFile` and `CloseFile` each file,
`Answer` its end; `EdgeStart` sets the defaults, since no file is read back.

### Users (proofs in ServiceProofs)

`users` is `ipmiUser` (name, and one value for all else that is saved), `accounts` and `files` the
accounts and their files. `plat_user_save` is a loop, `SaveSlot`, that each of three threads
(`rest`, `ipmi`, `redfish`) can be inside of (`saver`); `RestSetUser`, `IpmiSetUser`,
`app_del_user`, `rest_make_user_json` start one or change the table beside it. `modify_account` is
`ModifyName` or `ModifyOther`, `ModifyPassword`, `ModifySave`. `Start` is `plat_ipmi_init` and
`Load` the Redfish thread reaching the accounts, with commands possible in between.

### LanMonitor, LanMonitorProofs

One channel: `memory`, `flags`, `lock` are its members of `Ipminetwork`, `iface` what `ifconfig`
would show. `set_lan_config` assigns and `IpmiStep` goes through the rest of the command (flag,
`lockFlag`, notification); `RestAssign` and `RestFlag` are a command of the network page, which
sets the flags and wakes nobody. The monitor is `Test`, `Park`, `Choose`, `Compose`, `SetIp`,
`SetMac`, `Clear`, `Unlock`. `NotifyOther` is a notification for another channel: all four wait on
one condition variable.

### PowerUsage (proofs in ServiceProofs)

One table of any period: `rows` in the order of their ID, `cursor`, `sample` (the round, which is
also the time of a row). `DoStuff` is a round of the writer, `EdgeStart` is `psu_handler` up to
its loop (`check_db`, `find_first_index`); the page is `ClearGraph`, `CountRows`, `SelectRows`,
`Convert`, `Draw`. `InOrderOfTime` is the `ORDER BY dt` of the `SELECT`, stated by rank: the row in place
i is the one with i - 1 earlier ones.

### MCComponents, MCTimers, RedfishBounds, ServiceBounds, LanBounds, PowerBounds

`RedfishStore`, `RedfishFields`, `RedfishRequests`, `RestPages`, `RestDevices`, `Users` and
`PowerUsage` share no variable in the models (what they share in the code is modelled in one of
them: the accounts in `Users`, the records under numbers in `RedfishRequests`). `MCComponents`
therefore checks them in one run, a behaviour being of one component, its `focus`: the state space
is the sum of theirs, not the product, and nothing is lost, since a product would only interleave
steps that do not see each other. `MCTimers` does the same for the two components with liveness.
The modules of bounds hold the constants and their assumptions.

## 4. What each run checks

| Run | Expected | Shows |
|---|---|---|
| `sel_any_delete` | pass | with any deletes, clears and one kill between any two writes: `EndInArray`, `RoomForAnnouncement`, `FileMirrorsMemory`, `IdsMatchPositions` (before a restart), `ListingCoversLog` |
| `sel_refines` | pass | `ImplementsContents`: SelLog implements SelContents over two kills, with a delete of an empty log |
| `sel_entry_count` | violation | the counter is not `end - begin` once a delete hit the empty log (comment at `libs/ipmi/ipmi.cpp:274`) |
| `sel_saved_ids` | violation | after a delete the file keeps old record ids (comments at `libs/sel/sel.cpp:87` and `:147`) |
| `rmcp_table` | pass | `OneEntryPerSession`, `ActiveEntryKeepsOwner` with repeating ids and random numbers |
| `rmcp_sessions` | pass | `OpenSessionIsKept` when ids are fresh |
| `rest_calls` | pass | liveness `EveryCallReturns` without failures of KETI-Edge |
| `rest_faults` | pass | `AnswerIsOwn`, `OnePending` with failures on both sides |
| `rest_wait` | violation | a dropped request leaves the web server waiting for ever (comment at `KETI-REST/helper.cpp:60`) |
| `rest_pid` | violation | a reused pid receives a dead server's answer (comment at `KETI-Edge/rest_handler.cpp:138`) |
| `bmc_components` | pass | seven components, one per behaviour; the 18 invariants of the table below |
| `bmc_timers` | pass | the Redfish sessions and the LAN monitor: five invariants, `SessionsEnd` and `PassFollowsChange` |

The properties of the two composed runs:

| Component | Property | Says |
|---|---|---|
| records | `StartFailsOnlyOnDamage` | a start fails only on a file a kill tore or kept from being written, or after an account was removed (its certificates' file stays) |
| | `OnlyUnwrittenIsLost` | a running server lacks only what a kill hit and what a request removed |
| | `RemovedStaysRemoved` | a cleared log and a removed subscription do not come back |
| | `LinksAreRestored` | a restart connects the objects as the first start did, but for the two inventories of the update service, which it exchanges |
| members | `AnsweredPatchIsKept` | what an answered PATCH set is served and survives starts, but for SSH and NTPPort |
| | `RefusedPatchLeavesNothing` | holds for all handlers but those of the Ethernet interface and the network protocol |
| | `OnlyForgottenIsLost` | `load_json` reads what `get_json` wrote, for every class, but for the members listed in `Forgotten` |
| requests | `NumbersAgree` | numbers, records, members and files agree between requests |
| | `FailsOnlyByOverlap` | a removal uses a deleted object only if two threads held one number |
| | `AnsweredTaskIsCompleted` | the task of an answered request is Completed, in its file too, and stays it |
| | `MountedIsListed` | what is mounted can be ejected |
| settings pages | `SavedPageIsWhole` | an answered page left all its fields in its file |
| | `PublishedIsSaved` | so did it in the file made from it |
| | `OneDirectory` | Active Directory and LDAP are not enabled both, but during a page or after one broken off |
| FRU, services | `FruFilesFollowMemory`, `SettingFilesFollowDisplay` | files that were written hold what was set, what is displayed |
| users | `ListedUserIsSaved` | a listed user with an account is the one its account and file have |
| power | `NewestAreShown` | a graph shows the newest rows, in order, through turns and restarts |
| sessions | `NumbersAreTheRecords` | the numbers taken are those of the records, each given once |
| | `LoggedOutStaysOut` | a token logged out is valid again only after a race with its timer or a kill |
| | `FailsOnlyByOverlap` | a null or freed object is used only if a timer came between, or an account was removed |
| | `SessionKeepsItsAccount` | a session belongs to the account it was opened for, through restarts |
| | `SessionsEnd` | no session stays for ever |
| LAN | `NothingElseIsLost` | the interface has what the memory has, but for changes lost in the three ways named |
| | `PassFollowsChange` | a pass of the monitor follows every change by IPMI, unless its notification fell between test and wait |

Where a property names exceptions ("but for", "only if"), the exceptions are behaviour of the code
that the model shows to happen; the property says that nothing else goes wrong. The history variables of
the modules (`gone`, `crossed`, `late`, `loose`, ...) exist to name them; no guard
depends on them.

Each property of a passing run has a mutant in `PROJECT.json`: a plausible bug in one
mapped definition that makes TLC report that property. The mutated forms stand in
the modules before the definitions they alter, as "Variant with a bug".

### Bounds

* SelLog: five cells (`SEL_INDEX_MAX = 4`) hold every boundary the code knows: empty, one,
  the last but one place, the announcement, full. Three reservation ids let the counter wrap.
  `MaxUnderflow = 3` takes `end` three below `begin`; lower values repeat the pattern, and 14
  is where a store would reach the header in the file. One kill is enough for a torn write
  and what follows it, `sel_refines` has two, for torn writes after torn writes, and takes `end`
  one below `begin`. Events
  are interchangeable (symmetry); two tell records apart.
* RmcpSession: two entries and three consoles, so the table fills while a third console
  tries, and two of them share console id and algorithm, as ipmitool does. `rmcp_table`
  has fewer ids than sessions on purpose; `rmcp_sessions` has enough for ids to stay fresh.
  Consoles of equal parameters, ids and nonces are symmetric.
* RestQueue: five calls, two deaths of the web server, queues of two requests and two
  answers: full queues, stale answers and blocked threads all occur. In `rest_calls`
  two deaths can fill the answer queue of two; the property speaks of the states before that.
* Redfish records: one interface, one disk, one user, because the tree treats all of a kind alike;
  one kill (`MaxKills`) at any file of any save or removal, with any number of starts: what a kill
  left is what every later start finds.
* Redfish members: one record of every class, two PATCH requests, two starts, so that a refused
  request follows an answered one and the second start reads what the first wrote.
* Redfish requests: two threads (alike, hence symmetric), three requests, numbers 0 to 3, one
  kill: two requests under way and one that meets what they left. A removal that finds a
  record, waits, and removes the next one of that number (`FoundBefore`) takes four requests; the
  proof covers it, and the model checked with four and media of one kind agreed. Numbers run out in no behaviour
  of this length, and they wrap in `RedfishSessions` (`MaxNum = 2`).
* Pages: two saves, one death of each process: the second page is the one that meets the command
  a dead web server left. FRU and services: two changes, the same deaths.
* Users: four slots, two of which a start fills, and two changes with any number of listings,
  deletions and restarts.
* Power: tables of three and four rows, graphs of every second and third row, eight rounds: every
  table is turned over, and a restart falls at any place. The sizes of the code are multiples of
  the same form.
* Timers: two log-ins, two accounts ever made, a time-out of one tick, one PATCH or DELETE, one kill;
  the counter wraps at 2 instead of 2^32 - 1. LAN: two changes, so that one comes while the other is
  applied.
* `CHECK_DEADLOCK FALSE` stands where the system may stop: a console need not act, the
  process may die in `Rakp1NoSlot`, a start of the Redfish server may fail, and the bounds on requests,
  deaths and kills run out. SelLog is checked for deadlock; the violating runs of it too.

### Fairness

Three modules state liveness.

* RestQueue: weak fairness of each step a running thread
  takes by itself: send, receive, take, make the thread, return from the handler,
  reply, and the restart of KETI-Edge by init. The kernel's scheduler justifies it: a thread
  that can run does run, and a queue lets a blocked sender go on once there is room. That a
  handler returns is an assumption: `ipmi_handle_rest` may wait for `m_app`, which its holders
  release on every path, and otherwise computes an answer. Nothing is assumed about web
  requests, deaths or failures.
* RedfishSessions: weak fairness of the timer of each session, one thread each, whose waits end by the
  clock, and of the restart of a server that was killed. Requests, PATCHes and kills may
  stay out.
* LanMonitor: weak fairness of the monitor thread and of a Set LAN Configuration that has begun. Neither
  waits for the other: the only wait is for the notification, and while the monitor is parked
  `Monitoring` is disabled until one comes.

`EveryCallReturns` has a limit that belongs to the code: an answer to a dead web server
is never removed, so it holds only while fewer web servers have died than
answers fit into the queue. The property says so. `SessionsEnd` holds unless the server has failed;
`PassFollowsChange` names the notification that comes too early.

## 5. Proofs

Eight modules hold theorems, all checked by TLAPS for every value of the constants that the named
assumptions admit. `PROJECT.json` lists the results under `theorems`; each states an invariant,
an action property or a refinement that a run checks on a small instance. The assumptions say what
a bound or a size is (a natural number, not 0 where the code cannot have 0) and that `None` is no
id; what goes beyond that is named below. The arguments have one form: an inductive invariant, one lemma or step per action of
the model, one theorem per property. What follows says which invariant, and why the property alone
does not do.

### System Event Log: `SelLogProofs`

Assumption `SelAssumption`: at least four cells, at least one reservation id, at most 14 deletes
past the start (the fifteenth would make a store reach the header in the file).

* `Typing`, `LogStaysInArray`, `AnnouncementsFit`, `FileIsCurrent` are `TypeOK`, `EndInArray`,
  `RoomForAnnouncement`, `FileMirrorsMemory`. `IInv` adds that both headers begin at 0 and
  end inside the array (a start loads the saved one), that an add which owes a notice has
  left exactly one place, that a cleared log is empty until its announcement, and `Saved`:
  while the process runs the saved header is current, and the saved events agree up to the
  record being stored.
* `RecordsAreNumbered` (`IdsMatchPositions`) needs `Numbered`: between a delete and the rewrite of
  the table the ids are off by one, and at no other time before a kill.
* `ListingsAreComplete` (`ListingCoversLog`) follows from `IInv` for every fill of the log.
* `LogImplementsContents`: every step of `SelLog` is a step of `SelContents` or a stutter, and
  so are the initial states. The difficulty is a start after a kill. `Torn` says what the file may
  look like while the process is down: the header is that of memory, and there is one place k such
  that below it the saved events are those of memory and above it those one place further up, which
  is a table not yet rewritten after a delete. From that `StartRestarts` finds the one place where
  an older record reappears. A log whose end was deleted past its start reads as empty, and a delete
  there as a stutter.

### RMCP+ sessions: `RmcpSessionProofs`

Assumption `RmcpAssumption`: at least one entry, privileges and user numbers in range.

* `Typing`: `TypeOK`, from `IInv = TypeOK /\ Seeded` (an entry with an address has a random
  number, a console past Open Session finds an algorithm set; the type of the keys needs both).
* `LookupsAreUnique`: `OneEntryPerSession` is inductive given the types, because RAKP 1
  takes the entry that already answers to the console's address and id, if any.
* `OwnersAreKept`: the action property `ActiveEntryKeepsOwner`.
* `OpenSessionsAreKept`: `OpenSessionIsKept`, under `FreshIds` (`rand()` does not give a number that
  somebody still knows; the code seeds it with the time, so two handshakes in a second break this,
  and `rmcp_table` runs without it). `Distinct` says what freshness is for: two consoles have not one id, and
  the random number a console was told stands only in an entry with that console's id. So RAKP 3
  of a console finds the entry RAKP 1 of the same console made.

### REST calls: `RestQueueProofs`

Assumption `QueueAssumption`: each queue holds at least one message.

* `Typing`, and `CallIsPendingOnce` (`OnePending`), whatever pids the kernel gives and whatever fails. `Sole` follows
  the last call by its tag: it is in the request queue, the hands of `rest_handler`, a thread or the
  answer queue, in one of these and once, and while the web server waits not nowhere, unless
  KETI-Edge may fail.
* `AnswersAreOwn` (`AnswerIsOwn`), under `FreshPids`: the kernel gives no pid a second time. The
  code looks at the pid only, and `rest_pid` shows what a pid that comes again does. `Own` relates
  the two: whatever is under way for the pid of the running web server is of the call it waits for.

### Redfish sessions: `RedfishSessionsProofs`

Assumptions `SessionsAssumption`, `NumbersAssumption`. `NumbersAreRecords`, `LoggedOutTokensStayOut`,
`OnlyOverlapsFail`, `SessionsKeepTheirAccounts` are proved in one induction, because each step that
one of them is about (a kill, an expiry, a removal) needs the others: `Promises` is the four of
them and `IInv` what lies under them. `FilesAreSessions`: every session has its file with its number,
and no two share a number, so that a restart finds the numbers as they were. `FilesNameOwner`: as long
as the account of a session is there, the number in the session's file is its, so that a restart finds the same
account. The lemmas about `allocate_numset_num` (`AllocatedIsFree`, `RemainProps`) say that the number given is free and
that the counter wraps.

### Redfish records and members: `RedfishProofs`

* Members (`FieldsInv`, any number of requests and starts): `AnsweredPatchesAreKept`,
  `RefusedPatchesLeaveNothing`, `RestartsRestoreMembers`. The work is in the lemmas about the 40 classes: `OthersAreWhole`, `LossyForget`
  (what a class does not save or read is in `Forgotten`), `PatchesOwnMembers`, `BodiesArePatched`, and `OnlyLateKeep`
  (only two handlers test a value after they changed another member).
* Record store (`StoreInv`, any number of starts and kills, any tree): `WrittenRecordsAreKept`
  (`OnlyUnwrittenIsLost`). The files are complete but for what is recorded as gone or removed, also
  while memory is not, since a start makes one from the other.
* Record store without damage (`StoreWhole`, stated for behaviours in which no kill hit a file):
  `StartsFailOnlyOnDamage`, `RemovedRecordsStayRemoved`, `RestartsRestoreLinks`. Memory and files are
  then the tree without what was removed, and what lies below a removed record was removed with it,
  except below an account, whose certificates are left; so a start finds the parent of every file
  but those. The three rest on facts about the tree that the `init_*` functions make, for
  any sets of interfaces, disks and users (`RedfishTree` builds it from them). `Children` tabulates which kinds hang from which and in which
  member; `Grows` says of an `init_*` function that every record it makes hangs from the one it was called
  for or from another it makes, and is proved function by function up to `ServiceRoot`. `OneRecord`: no two records
  have one uri, since of two that do the parents would too, and a shortest such uri has none (so no
  induction over the tree is needed). `FieldIsRestored` compares the member the first start uses
  with the one `dependency_injection` finds by kind, for each pair of kinds: they differ in the
  two inventories only. TLC checked `StoreWhole` before it was proved.

### Users, FRU, services, requests and power: `ServiceProofs`

* `UsersAreSaved` (`ListedUserIsSaved`): `SavedOrPending` says that a listed slot matches its account and file
  or some save under way still comes to it, in this pass or the next one; three threads save at once, so the
  table and the files agree only when all are done. `u_loose` names the slots no save is owed to.
* `FruFilesAreRight`, `SettingFilesAreRight`: `DevicesInv` says that with no two commands
  overlapping there is one thread, that the copy it writes from is still what memory has, and that
  each written file is right or among those this thread has still to write.
* Requests (`RequestsInv`, any number of threads, requests and kills; assumption
  `NumbersAssumption`: there is a number besides 0): `RequestNumbersAgree`,
  `RemovalsFailOnlyByOverlap`, `AnsweredTasksAreCompleted`, `MountedMediaAreListed`. `Stage` is what a
  thread is doing with a number: building its record, having found it, released, or deleted.
  `RecordState` says that a number that was not crossed is whole (taken, recorded, listed, in its
  file) or absent, except while exactly one thread is at one of the stages between, each of which
  has its own form (`Begun`, `Given`, `Unfiled`); others may only have found it. `TasksAreKept` and
  `MountsAreKept` rest on it: the number of a finished task stays taken because it stays whole, and a
  mounted medium is being inserted, or whole and found by nobody, for who finds it unmounts it.
  The first attempt failed in `MakeRecordStep` and was right to: the history did not name the case
  `FoundBefore`, and without it two properties are false with four requests, where a
  removal takes away the record a later request made.
* Power (`PowerInv`, tables and graphs of any size; assumption `PowerAssumption`: no size is 0):
  `GraphsShowTheNewest` (`NewestAreShown`). `RowsOfTurns` counts places back from the cursor (`Back`): the last
  `turns` of them hold the last rounds in order, wherever the cursor stands, which a round keeps at the place
  it rewrites and shifts by one elsewhere. Once `turns` has reached the size of the table the
  values are an interval ending at the last round, and the sorted rows are that interval
  (`OrderOfATurn`). Sorting is by rank: `RankIsTaken` (a set of n numbers has one of every rank
  below n, by the least rank that is free) and `RankOrders` give the order of the graph
  also when rows were lost. `RequestReads` carries the count, the buffer and the graph through the
  steps of the page while the writer goes on; a round between count and `SELECT` is why it speaks of
  `newest` only where none came. TLC checked `PowerInv` before it was proved.

### LAN: `LanMonitorProofs`

`OnlyKnownLosses` (`NothingElseIsLost`), from `LanInv`: for each place of the monitor which changes
it is still going to apply, by flag, by the addresses it has copied (`KeptInSet`) or by what it has
already set (`KeptAfterSet`, `KeptMac`), and which are excused: known as dropped, or being
written by a command that will set the flag. The property speaks of the moments at which nothing
is under way and would not survive a single step of a pass.

### Settings pages: `PagesProofs`

`SavedPagesAreWhole`, `PublishedPagesAreSaved`, `DirectoriesExclude`, for any number of saves and deaths, from
`PagesInv`, in four layers. Each step keeps a layer if it and those it rests on hold.

1. `PagesControl`: types; a request or thread of the running web server is the one it waits for,
   and the only one (`OwnIsCurrent`); in a page that began with nothing of a dead server about, a quiet one, there
   is no other command (`QuietIsAlone`); and no command under way touches a file recorded as saved
   (`SavedIsLeftAlone`).
2. `PagesFiles`: in a quiet page the file holds what the commands so far have set, and the thread
   of the current one carries it from `ReadFile` to `WriteFile` (`WorkerHolds`).
3. `PagesPublished`: from the command that makes it on, the file made from the settings holds all of
   them; this command comes before the last one of each page and after all that set fields.
4. `PagesDirectories`: commands left over from an earlier page only disable a directory as long
   as no page was broken off (`LeftOversDisable`), and the last command of a directory page has disabled the
   other one before it is answered (`OtherIsDisabled`).

The lemmas before them (`CommandsAre` to `CommandFacts`, `PlaceFacts`, `PublisherFacts`, `DirectoryFacts`) state what the
tables of pages and commands say: which command writes which file, what it fills the other fields
from, and in which order a page sends them. The first two layers were checked by TLC before they
were proved, as the other invariants were where TLC can enumerate them.

### Only model-checked

Every invariant, the action property and the refinement of the passing runs are theorems. What stays
with TLC:

* Liveness (`EveryCallReturns`, `SessionsEnd`, `PassFollowsChange`), which rests on fairness and ENABLED:
  out of the prover's reach.
* The four violations: a counterexample needs no proof.

## 6. Not modelled

Components (with sources in `PROJECT.json`):

* DCMI power limit: it compares a reading that is always 0. Watchdog: nothing that is built
  reads what its commands set. Chassis: GPIO pulses. SDR and thresholds: data of the chips;
  thresholds are stored at index 0 and compared with nothing. PEF: `set_eft_init` and
  `init_policy_table` are never called. IPMB, SOL, SSDP, channel access, drivers, KVM: bytes to
  and from a device, without state several steps could break.
* Pages that pass on one command or run a program: sensors, event log, reset, upload, USB, KVM,
  DDNS and the hosts file. The third queue pair, to the KVM process.

Within the modelled parts:

* SEL commands of two threads at once. `plat_sel_add_entry` reads and writes `g_sel_hdr` and
  `g_sel_data` without a lock; two adds can pass the full test together, after which the log-full
  event never comes or a later add stores behind the array. Every promise of `SelLog` is broken by
  that, so there is no property to check; it is listed as a hazard.
* Data races inside one operation on a container (`std::vector`, `unordered_map`) in
  `RedfishRequests` and `RedfishSessions`: an operation is one step there. Requests of the Redfish
  server beyond tasks, subscriptions, media, accounts and sessions are single steps: simple
  update, log services other than `ClearLog`, power control, events to subscribers. Certificates
  cannot be made by any request (the result of `GenerateCSR` is dropped).
* In `RedfishRequests` and `Users` a file is written whole or not at all; torn files are in
  `RedfishStore`. Removed accounts are in `RedfishSessions` and `RedfishStore`, not in `Users`,
  where the load of the records is one step.
* The enable flag of a user, access levels per channel, and log-in against the directory servers.
* LAN: IPv6, VLAN, destinations, and the files of the network page.
* `RestPages`: the key and request files `openssl` makes, and the backups by `cp` that nothing
  reads (the one of the time page, which is read, is modelled). `set_radius_config` lacks a return
  statement; KETI-Edge is built without optimisation, where it just returns.
* Power: peaks and consumption (every watt is 0), and two requests at once, which need a web
  server restarted in between.
* File I/O errors other than a kill, time stamps and text, the contents of
  messages, cryptography (codes verify exactly if made from the same data), and
  memory corruption beyond naming that it happens (`Rakp1NoSlot`).

### What the code does that a reader may not expect

Met while modelling; the models follow the code. Where a property names exceptions, these are
they.

* Redfish records: `remove_account` leaves the file of the account's certificates, after which a
  start fails; a file whose parent has none fails it too. `ClearLog` removes the collection of
  entries for good, and a second one fails. The inventories of the update service change places
  with each start from files.
* Redfish members: for an account with a slot, `modify_account` sets the user name inside the
  branch of the password (missing braces). `Manager::load_json` reads `GlobaleEnable` from a value
  that is not set and stops. A refused PATCH of an Ethernet interface or of the NTP servers leaves
  what it set before.
* Redfish sessions: DELETE sets the remaining time to 0, and a timer between its test and its
  decrement takes it to 2^32 - 1; a kill before the timer's next tick brings the session back. A
  session of a removed account keeps a pointer to it, and after a restart belongs to the account
  that has the number then.
* Redfish requests: numbers are found and taken in two steps, and released before the object is
  gone; a failing `mount` counts as success; an exception leaves its task New. After a wrap the
  search for a number begins at 1, and does not return when none is free.
* Users: listing them sets root and admin to their defaults; a deleted user has its account
  still and is back after a restart; a name set to empty hides the users after it.
* Pages: the display of the time page moves the old backup over the newly saved servers; the
  services page writes the structure of SSH into the file of the alert port; no settings file and
  no FRU file is read back by a start; disabling LDAP leaves the file of `nslcd`.
* LAN: a change by the network page is applied only with the next change by IPMI; an address that is set
  without its source is never applied; all channels share one condition variable.
* Power: the tables are made by the second start; the graphs of the hour and of the day show
  nothing before their table has more rows than the graph; the second one of the day is drawn past
  the end of its array.
