------------------------------ MODULE MCComponents ------------------------------
(***************************************************************************)
(* Seven components for TLC: the record store of the Redfish server, the   *)
(* members of one record, its requests; the settings pages, the FRU and    *)
(* services pages, the users, the power history.  They share no variable,  *)
(* so a behaviour is of one of them ("focus"), and the variables of the    *)
(* others are not used.                                                    *)
(***************************************************************************)
EXTENDS RedfishTree, RedfishBounds, RedfishNumbers, ServiceBounds, PowerBounds, TLC

CONSTANT Threads

\* The threads of the listener are alike.
Symmetry == Permutations(Threads)

VARIABLES
    focus,
    s_pc, s_mem, s_freed, s_links, s_saved, s_torn, s_loaded, s_gone, s_removed, s_kills,
    f_kind, f_pc, f_mem, f_file, f_asked, f_patches, f_starts,
    r_pc, r_thread, r_taken, r_last, r_rec, r_listed, r_files, r_done, r_doneFile, r_mount,
    r_requests, r_kills, r_crossed, r_stacked, r_cut, r_finished,
    p_web, p_edge, p_redfish, p_queue, p_workers, p_files, p_published, p_saves,
    p_deaths, p_saved, p_broken,
    d_edge, d_page, d_busy, d_jobs, d_setting, d_mem, d_files, d_sets, d_deaths,
    d_written, d_crossed, d_forgotten,
    u_pc, u_users, u_accounts, u_files, u_saver, u_patch, u_ops, u_loose,
    w_name, w_edge, w_db, w_rows, w_cursor, w_sample, w_count, w_full, w_graph, w_request,
    w_restarts, w_turns, w_answer

Store == INSTANCE RedfishStore WITH
    pc <- s_pc, mem <- s_mem, freed <- s_freed, links <- s_links, saved <- s_saved,
    torn <- s_torn, loaded <- s_loaded, gone <- s_gone, removed <- s_removed, kills <- s_kills

Fields == INSTANCE RedfishFields WITH
    kind <- f_kind, pc <- f_pc, mem <- f_mem, file <- f_file, asked <- f_asked,
    patches <- f_patches, starts <- f_starts

Requests == INSTANCE RedfishRequests WITH
    pc <- r_pc, thread <- r_thread, taken <- r_taken, last <- r_last, rec <- r_rec,
    listed <- r_listed, files <- r_files, done <- r_done, doneFile <- r_doneFile,
    mount <- r_mount, requests <- r_requests, kills <- r_kills,
    crossed <- r_crossed, stacked <- r_stacked, cut <- r_cut, finished <- r_finished

Pages == INSTANCE RestPages WITH
    web <- p_web, edge <- p_edge, redfish <- p_redfish, queue <- p_queue,
    workers <- p_workers, files <- p_files, published <- p_published, saves <- p_saves,
    deaths <- p_deaths, saved <- p_saved, broken <- p_broken

Devices == INSTANCE RestDevices WITH
    edge <- d_edge, page <- d_page, busy <- d_busy, jobs <- d_jobs, setting <- d_setting,
    mem <- d_mem, files <- d_files, sets <- d_sets, deaths <- d_deaths, written <- d_written,
    crossed <- d_crossed, forgotten <- d_forgotten

Table == INSTANCE Users WITH
    pc <- u_pc, users <- u_users, accounts <- u_accounts, files <- u_files, saver <- u_saver,
    patch <- u_patch, ops <- u_ops, loose <- u_loose

Power == INSTANCE PowerUsage WITH
    name <- w_name, edge <- w_edge, db <- w_db, rows <- w_rows, cursor <- w_cursor,
    sample <- w_sample, count <- w_count, full <- w_full, graph <- w_graph,
    request <- w_request, restarts <- w_restarts, turns <- w_turns, answer <- w_answer

storeVars == <<s_pc, s_mem, s_freed, s_links, s_saved, s_torn, s_loaded, s_gone, s_removed,
               s_kills>>
fieldsVars == <<f_kind, f_pc, f_mem, f_file, f_asked, f_patches, f_starts>>
requestsVars == <<r_pc, r_thread, r_taken, r_last, r_rec, r_listed, r_files, r_done,
                  r_doneFile, r_mount, r_requests, r_kills, r_crossed, r_stacked,
                  r_cut, r_finished>>

pagesVars == <<p_web, p_edge, p_redfish, p_queue, p_workers, p_files, p_published, p_saves,
               p_deaths, p_saved, p_broken>>
devicesVars == <<d_edge, d_page, d_busy, d_jobs, d_setting, d_mem, d_files, d_sets, d_deaths,
                 d_written, d_crossed, d_forgotten>>
usersVars == <<u_pc, u_users, u_accounts, u_files, u_saver, u_patch, u_ops, u_loose>>
powerVars == <<w_name, w_edge, w_db, w_rows, w_cursor, w_sample, w_count, w_full, w_graph,
               w_request, w_restarts, w_turns, w_answer>>

StoreUnused ==
    /\ s_pc = "unused" /\ s_mem = "unused" /\ s_freed = "unused" /\ s_links = "unused"
    /\ s_saved = "unused" /\ s_torn = "unused" /\ s_loaded = "unused" /\ s_gone = "unused"
    /\ s_removed = "unused" /\ s_kills = "unused"

FieldsUnused ==
    /\ f_kind = "unused" /\ f_pc = "unused" /\ f_mem = "unused" /\ f_file = "unused"
    /\ f_asked = "unused" /\ f_patches = "unused" /\ f_starts = "unused"

RequestsUnused ==
    /\ r_pc = "unused" /\ r_thread = "unused" /\ r_taken = "unused" /\ r_last = "unused"
    /\ r_rec = "unused" /\ r_listed = "unused" /\ r_files = "unused" /\ r_done = "unused"
    /\ r_doneFile = "unused" /\ r_mount = "unused"
    /\ r_requests = "unused" /\ r_kills = "unused" /\ r_crossed = "unused"
    /\ r_stacked = "unused" /\ r_cut = "unused" /\ r_finished = "unused"

PagesUnused ==
    /\ p_web = "unused" /\ p_edge = "unused" /\ p_redfish = "unused" /\ p_queue = "unused"
    /\ p_workers = "unused" /\ p_files = "unused" /\ p_published = "unused" /\ p_saves = "unused"
    /\ p_deaths = "unused" /\ p_saved = "unused" /\ p_broken = "unused"

DevicesUnused ==
    /\ d_edge = "unused" /\ d_page = "unused" /\ d_busy = "unused" /\ d_jobs = "unused"
    /\ d_setting = "unused" /\ d_mem = "unused" /\ d_files = "unused" /\ d_sets = "unused"
    /\ d_deaths = "unused" /\ d_written = "unused" /\ d_crossed = "unused" /\ d_forgotten = "unused"

UsersUnused ==
    /\ u_pc = "unused" /\ u_users = "unused" /\ u_accounts = "unused" /\ u_files = "unused"
    /\ u_saver = "unused" /\ u_patch = "unused" /\ u_ops = "unused" /\ u_loose = "unused"

PowerUnused ==
    /\ w_name = "unused" /\ w_edge = "unused" /\ w_db = "unused" /\ w_rows = "unused"
    /\ w_cursor = "unused" /\ w_sample = "unused" /\ w_count = "unused" /\ w_full = "unused"
    /\ w_graph = "unused" /\ w_request = "unused" /\ w_restarts = "unused"
    /\ w_turns = "unused" /\ w_answer = "unused"

Init ==
    \/ /\ focus = "store" /\ Store!Init
       /\ FieldsUnused /\ RequestsUnused /\ PagesUnused /\ DevicesUnused /\ UsersUnused
       /\ PowerUnused
    \/ /\ focus = "fields" /\ Fields!Init
       /\ StoreUnused /\ RequestsUnused /\ PagesUnused /\ DevicesUnused /\ UsersUnused
       /\ PowerUnused
    \/ /\ focus = "requests" /\ Requests!Init
       /\ StoreUnused /\ FieldsUnused /\ PagesUnused /\ DevicesUnused /\ UsersUnused
       /\ PowerUnused
    \/ /\ focus = "pages" /\ Pages!Init
       /\ StoreUnused /\ FieldsUnused /\ RequestsUnused /\ DevicesUnused /\ UsersUnused
       /\ PowerUnused
    \/ /\ focus = "devices" /\ Devices!Init
       /\ StoreUnused /\ FieldsUnused /\ RequestsUnused /\ PagesUnused /\ UsersUnused
       /\ PowerUnused
    \/ /\ focus = "users" /\ Table!Init
       /\ StoreUnused /\ FieldsUnused /\ RequestsUnused /\ PagesUnused /\ DevicesUnused
       /\ PowerUnused
    \/ /\ focus = "power" /\ Power!Init
       /\ StoreUnused /\ FieldsUnused /\ RequestsUnused /\ PagesUnused /\ DevicesUnused
       /\ UsersUnused

Next ==
    /\ UNCHANGED focus
    /\ \/ /\ focus = "store" /\ Store!Next
          /\ UNCHANGED <<fieldsVars, requestsVars, pagesVars, devicesVars, usersVars, powerVars>>
       \/ /\ focus = "fields" /\ Fields!Next
          /\ UNCHANGED <<storeVars, requestsVars, pagesVars, devicesVars, usersVars, powerVars>>
       \/ /\ focus = "requests" /\ Requests!Next
          /\ UNCHANGED <<storeVars, fieldsVars, pagesVars, devicesVars, usersVars, powerVars>>
       \/ /\ focus = "pages" /\ Pages!Next
          /\ UNCHANGED <<storeVars, fieldsVars, requestsVars, devicesVars, usersVars, powerVars>>
       \/ /\ focus = "devices" /\ Devices!Next
          /\ UNCHANGED <<storeVars, fieldsVars, requestsVars, pagesVars, usersVars, powerVars>>
       \/ /\ focus = "users" /\ Table!Next
          /\ UNCHANGED <<storeVars, fieldsVars, requestsVars, pagesVars, devicesVars, powerVars>>
       \/ /\ focus = "power" /\ Power!Next
          /\ UNCHANGED <<storeVars, fieldsVars, requestsVars, pagesVars, devicesVars, usersVars>>

Spec == Init /\ [][Next]_<<focus, storeVars, fieldsVars, requestsVars, pagesVars, devicesVars,
                          usersVars, powerVars>>
-----------------------------------------------------------------------------
(* What the components promise, stated in their modules.                   *)

\* A start of the record store fails only on damage.
StartFailsOnlyOnDamage == focus = "store" => Store!StartFailsOnlyOnDamage

\* The record store loses only what was not written or was removed.
OnlyUnwrittenIsLost == focus = "store" => Store!OnlyUnwrittenIsLost

\* Removed records do not come back.
RemovedStaysRemoved == focus = "store" => Store!RemovedStaysRemoved

\* A restart connects the objects as the first start did.
LinksAreRestored == focus = "store" => Store!LinksAreRestored

\* What an answered PATCH set is what the server serves.
AnsweredPatchIsKept == focus = "fields" => Fields!AnsweredPatchIsKept

\* A refused PATCH leaves nothing behind, but for two handlers.
RefusedPatchLeavesNothing == focus = "fields" => Fields!RefusedPatchLeavesNothing

\* A start restores every member but those listed.
OnlyForgottenIsLost == focus = "fields" => Fields!OnlyForgottenIsLost

\* Numbers, records, members and files agree between requests.
NumbersAgree == focus = "requests" => Requests!NumbersAgree

\* A removal fails only when another request held its number.
FailsOnlyByOverlap == focus = "requests" => Requests!FailsOnlyByOverlap

\* The task of an answered request is Completed and stays it.
AnsweredTaskIsCompleted == focus = "requests" => Requests!AnsweredTaskIsCompleted

\* What is mounted can be ejected.
MountedIsListed == focus = "requests" => Requests!MountedIsListed

\* A page answered undisturbed left all its fields in its file.
SavedPageIsWhole == focus = "pages" => Pages!SavedPageIsWhole

\* The files other programs read have all the fields of the page.
PublishedIsSaved == focus = "pages" => Pages!PublishedIsSaved

\* Active Directory and LDAP are not enabled both.
OneDirectory == focus = "pages" => Pages!OneDirectory

\* The FRU files have what the page set.
FruFilesFollowMemory == focus = "devices" => Devices!FruFilesFollowMemory

\* The files of the services have what the services page displays.
SettingFilesFollowDisplay == focus = "devices" => Devices!SettingFilesFollowDisplay

\* A listed user with an account is what a restart brings back.
ListedUserIsSaved == focus = "users" => Table!ListedUserIsSaved

\* The power graphs show the newest rows, in order.
NewestAreShown == focus = "power" => Power!NewestAreShown
=============================================================================
