---------------------------- MODULE RedfishRequests ----------------------------
(***************************************************************************)
(* A request of the Redfish server from its reception to its answer        *)
(* (KETI-Edge/handler.cpp): the task every request gets, the dispatch of   *)
(* POST and DELETE, and the handlers that make and remove records under    *)
(* numbers: subscriptions and virtual media, which are also mounted.       *)
(*                                                                         *)
(* The listener calls the handlers on several threads and nothing is       *)
(* locked: what a handler found may have changed when it goes on.  A call  *)
(* that saves a record is one step, and so is one change of a container.   *)
(***************************************************************************)
EXTENDS RedfishBounds, RedfishNumbers, Sequences

CONSTANT Threads  \* threads of the listener

Kinds == {"task", "sub", "cd", "usb"}
Media == {"cd", "usb"}

VARIABLES
    pc,       \* "up", "down" or "failed": a deleted object was used
    thread,   \* [thread -> its request and where it is]
    taken,    \* numset: [kind -> numbers]
    last,     \* numset_num: [kind -> number]
    rec,      \* [kind -> numbers whose uri is in g_record]
    listed,   \* [kind -> [number -> how many members of the collection]]
    files,    \* [kind -> numbers with a file]
    done,     \* tasks that are Completed in memory
    doneFile, \* tasks that are Completed in their file
    mount,    \* what is mounted on /etc/nfs, the visible one last
    requests, kills,
    crossed,  \* history: kinds of which two threads held one number
    stacked,  \* history: two media were mounted at once
    cut,      \* history: media a kill caught between mount and list
    finished  \* history: tasks of requests that were answered normally

vars == <<pc, thread, taken, last, rec, listed, files, done, doneFile, mount,
          requests, kills, crossed, stacked, cut, finished>>

Idle == [at |-> "idle", op |-> "none", kind |-> "task", n |-> 0, task |-> 0]

At(t, place) == pc = "up" /\ thread[t].at = place

Goes(t, place) == thread' = [thread EXCEPT ![t].at = place]

\* The answer is ready, whatever its status; complete_task_resource comes next.
Answers(t) ==
    thread' = [thread EXCEPT ![t] = [Idle EXCEPT !.at = "complete", !.task = thread[t].task]]

Finds(t, place, n) == thread' = [thread EXCEPT ![t].at = place, ![t].n = n]

-----------------------------------------------------------------------------
(* Handlers that neither make nor remove numbered records, by whether a    *)
(* json_exception can end them.                                            *)

\* handle_get, treat_patch, do_actions and the act_ functions, the ends of
\* treat_post and treat_delete.
Handled ==
    [get |-> {FALSE}, patch |-> BOOLEAN, Reset |-> {FALSE}, SubmitTestEvent |-> BOOLEAN,
     ClearLog |-> {FALSE}, GenerateCSR |-> BOOLEAN, otherAction |-> {FALSE},
     otherPost |-> {FALSE}, otherDelete |-> {FALSE}]

Numbered == {[op |-> "make", kind |-> "sub"], [op |-> "remove", kind |-> "sub"]}
            \cup [op : {"insert", "eject"}, kind : Media]

Received == Numbered \cup [op : DOMAIN Handled, kind : {"task"}]

-----------------------------------------------------------------------------
(* From the request to the answer.                                         *)

\* Begin of generate_task_resource: a free number is found.
Receive(t) ==
    /\ At(t, "idle") /\ requests < MaxRequests
    /\ Allocatable(taken["task"], last["task"])
    /\ \E r \in Received :
       thread' = [thread EXCEPT ![t] =
                     [Idle EXCEPT !.at = "task", !.op = r.op, !.kind = r.kind,
                                  !.task = Allocated(taken["task"], last["task"])]]
    /\ requests' = requests + 1
    /\ UNCHANGED <<pc, taken, last, rec, listed, files, done, doneFile, mount,
                   kills, crossed, stacked, cut, finished>>

\* The number is taken and the new record is in g_record.
Takes(k, n) ==
    /\ taken' = [taken EXCEPT ![k] = @ \cup {n}]
    /\ last' = [last EXCEPT ![k] = n]
    /\ rec' = [rec EXCEPT ![k] = @ \cup {n}]

Lists(k, n) == listed' = [listed EXCEPT ![k][n] = @ + 1]

generate_task_resource(t) ==
    LET n == thread[t].task
    IN /\ At(t, "task")
       /\ Takes("task", n) /\ Lists("task", n)
       /\ files' = [files EXCEPT !["task"] = @ \cup {n}]
       /\ done' = done \ {n} /\ doneFile' = doneFile \ {n}
       /\ crossed' = IF n \in taken["task"] THEN crossed \cup {"task"} ELSE crossed
       /\ Goes(t, "treat")
       /\ UNCHANGED <<pc, mount, requests, kills, stacked, cut, finished>>

\* After an exception the answer is BadRequest and the task stays as it is.
Treat(t) ==
    /\ At(t, "treat") /\ thread[t].op \in DOMAIN Handled
    /\ \E throws \in Handled[thread[t].op] :
       IF throws THEN thread' = [thread EXCEPT ![t] = Idle] ELSE Answers(t)
    /\ UNCHANGED <<pc, taken, last, rec, listed, files, done, doneFile, mount,
                   requests, kills, crossed, stacked, cut, finished>>

complete_task_resource(t) ==
    /\ At(t, "complete")
    /\ done' = done \cup {thread[t].task}
    /\ doneFile' = doneFile \cup {thread[t].task}
    /\ Goes(t, "reply")
    /\ UNCHANGED <<pc, taken, last, rec, listed, files, mount,
                   requests, kills, crossed, stacked, cut, finished>>

Reply(t) ==
    /\ At(t, "reply")
    /\ finished' = finished \cup {thread[t].task}
    /\ thread' = [thread EXCEPT ![t] = Idle]
    /\ UNCHANGED <<pc, taken, last, rec, listed, files, done, doneFile, mount,
                   requests, kills, crossed, stacked, cut>>

-----------------------------------------------------------------------------
(* New records: make_subscription, act_virtualmedia with InsertMedia.      *)

\* A subscription is refused before it has a number, a medium after.
FindNumber(t) ==
    /\ At(t, "treat") /\ thread[t].op \in {"make", "insert"}
    /\ LET k == thread[t].kind
       IN \/ /\ Allocatable(taken[k], last[k])
             /\ Finds(t, "allocated", Allocated(taken[k], last[k]))
          \/ k = "sub" /\ Answers(t)
    /\ UNCHANGED <<pc, taken, last, rec, listed, files, done, doneFile, mount,
                   requests, kills, crossed, stacked, cut, finished>>

\* A thread is at one of the places with number n.
Holds(t, k, n, places) == thread[t].kind = k /\ thread[t].n = n /\ thread[t].at \in places

Removing(k, n) == \E u \in Threads : Holds(u, k, n, {"released", "deleted"})

\* What a removal has found is gone, and its number is given again.
FoundBefore(k, n) == \E u \in Threads : Holds(u, k, n, {"found"})

BeingInserted(k, n) ==
    \E u \in Threads : Holds(u, k, n, {"made", "unmounted", "mounted", "refused"})

MakeRecord(t) ==
    LET k == thread[t].kind
        n == thread[t].n
    IN /\ At(t, "allocated")
       /\ Takes(k, n)
       /\ IF k = "sub"
          THEN /\ Lists(k, n)
               /\ files' = [files EXCEPT ![k] = @ \cup {n}]
               /\ Answers(t)
          ELSE Goes(t, "made") /\ UNCHANGED <<listed, files>>
       /\ crossed' = IF n \in taken[k] \/ Removing(k, n) \/ FoundBefore(k, n) THEN crossed \cup {k} ELSE crossed
       /\ UNCHANGED <<pc, done, doneFile, mount, requests, kills, stacked, cut, finished>>

Unmounted == IF mount = <<>> THEN mount ELSE SubSeq(mount, 1, Len(mount) - 1)

\* No Image in the body or no umount: InsertMedia returns null.
UnmountOld(t) ==
    /\ At(t, "made")
    /\ \/ mount' = Unmounted /\ Goes(t, "unmounted")
       \/ UNCHANGED mount /\ Goes(t, "refused")
    /\ UNCHANGED <<pc, taken, last, rec, listed, files, done, doneFile,
                   requests, kills, crossed, stacked, cut, finished>>

\* Only a shell that cannot be started (-1) is a failure: a mount that ends
\* with another status counts as done.
Mount(t) ==
    /\ At(t, "unmounted")
    /\ \/ /\ mount' = Append(mount, <<thread[t].kind, thread[t].n>>)
          /\ stacked' = (stacked \/ mount # <<>>)
          /\ Goes(t, "mounted")
       \/ UNCHANGED <<mount, stacked>> /\ Goes(t, "mounted")
       \/ UNCHANGED <<mount, stacked>> /\ Goes(t, "refused")
    /\ UNCHANGED <<pc, taken, last, rec, listed, files, done, doneFile,
                   requests, kills, crossed, cut, finished>>

\* Variant with a bug: the medium does not become a member of the collection.
AddMediumUnlisted(t) ==
    LET k == thread[t].kind
        n == thread[t].n
    IN /\ At(t, "mounted")
       /\ files' = [files EXCEPT ![k] = @ \cup ({n} \cap rec[k])]
       /\ Answers(t)
       /\ UNCHANGED <<pc, taken, last, rec, listed, done, doneFile, mount,
                      requests, kills, crossed, stacked, cut, finished>>

\* resource_save_json saves what g_record still has.
AddMedium(t) ==
    LET k == thread[t].kind
        n == thread[t].n
    IN /\ At(t, "mounted")
       /\ Lists(k, n)
       /\ files' = [files EXCEPT ![k] = @ \cup ({n} \cap rec[k])]
       /\ Answers(t)
       /\ UNCHANGED <<pc, taken, last, rec, done, doneFile, mount,
                      requests, kills, crossed, stacked, cut, finished>>

\* Variant with a bug: the number of a medium that was refused stays taken.
UndoInsertKept(t) ==
    /\ At(t, "refused")
    /\ rec' = [rec EXCEPT ![thread[t].kind] = @ \ {thread[t].n}]
    /\ Answers(t)
    /\ UNCHANGED <<pc, taken, last, listed, files, done, doneFile, mount,
                   requests, kills, crossed, stacked, cut, finished>>

UndoInsert(t) ==
    /\ At(t, "refused")
    /\ rec' = [rec EXCEPT ![thread[t].kind] = @ \ {thread[t].n}]
    /\ taken' = [taken EXCEPT ![thread[t].kind] = @ \ {thread[t].n}]
    /\ Answers(t)
    /\ UNCHANGED <<pc, last, listed, files, done, doneFile, mount,
                   requests, kills, crossed, stacked, cut, finished>>

-----------------------------------------------------------------------------
(* Removal: remove_subscription, EjectMedia.                               *)

\* Variant with a bug: the medium is not unmounted.
FindRecordMounted(t) ==
    /\ At(t, "treat") /\ thread[t].op \in {"remove", "eject"}
    /\ \/ \E n \in rec[thread[t].kind] :
          /\ Finds(t, "found", n)
          /\ UNCHANGED mount
          /\ crossed' = IF BeingInserted(thread[t].kind, n)
                        THEN crossed \cup {thread[t].kind} ELSE crossed
       \/ Answers(t) /\ UNCHANGED <<mount, crossed>>
    /\ UNCHANGED <<pc, taken, last, rec, listed, files, done, doneFile,
                   requests, kills, stacked, cut, finished>>

\* The record must exist, a medium that is still being inserted too; EjectMedia unmounts whatever is mounted.
FindRecord(t) ==
    /\ At(t, "treat") /\ thread[t].op \in {"remove", "eject"}
    /\ \/ \E n \in rec[thread[t].kind] :
          /\ Finds(t, "found", n)
          /\ mount' = IF thread[t].op = "eject" THEN Unmounted ELSE mount
          /\ crossed' = IF BeingInserted(thread[t].kind, n)
                        THEN crossed \cup {thread[t].kind} ELSE crossed
       \/ Answers(t) /\ UNCHANGED <<mount, crossed>>
    /\ UNCHANGED <<pc, taken, last, rec, listed, files, done, doneFile,
                   requests, kills, stacked, cut, finished>>

\* delete_numset_num comes first: the number can be given again at once.
Release(t) ==
    LET k == thread[t].kind
    IN /\ At(t, "found")
       /\ taken' = [taken EXCEPT ![k] = @ \ {thread[t].n}]
       /\ crossed' = IF thread[t].n \notin taken[k] \/ Removing(k, thread[t].n)
                     THEN crossed \cup {k} ELSE crossed
       /\ Goes(t, "released")
       /\ UNCHANGED <<pc, last, rec, listed, files, done, doneFile, mount,
                      requests, kills, stacked, cut, finished>>

\* The destructor takes the uri out of g_record, whose ever record it is now.
\* A record that is not (or no more) a member makes *iter any memory.
Delete(t) ==
    LET k == thread[t].kind
        n == thread[t].n
    IN /\ At(t, "released")
       /\ IF listed[k][n] = 0
          THEN pc' = "failed" /\ UNCHANGED <<rec, listed, thread, crossed>>
          ELSE /\ rec' = [rec EXCEPT ![k] = @ \ {n}]
               /\ listed' = [listed EXCEPT ![k][n] = @ - 1]
               /\ Goes(t, "deleted")
               /\ UNCHANGED <<pc, crossed>>
       /\ UNCHANGED <<taken, last, files, done, doneFile, mount,
                      requests, kills, stacked, cut, finished>>

\* delete_resource leaves the file of a uri that is in g_record.
RemoveFile(t) ==
    LET k == thread[t].kind
    IN /\ At(t, "deleted")
       /\ files' = [files EXCEPT ![k] = @ \ ({thread[t].n} \ rec[k])]
       /\ Answers(t)
       /\ UNCHANGED <<pc, taken, last, rec, listed, done, doneFile, mount,
                      requests, kills, crossed, stacked, cut, finished>>

-----------------------------------------------------------------------------
(* Kill and restart.                                                       *)

Inserting == {<<thread[t].kind, thread[t].n>> :
                  t \in {u \in Threads : thread[u].op = "insert" /\ thread[u].at = "mounted"}}

Kill ==
    /\ pc = "up" /\ kills < MaxKills
    /\ pc' = "down" /\ kills' = kills + 1
    /\ cut' = cut \cup Inserting
    /\ thread' = [t \in Threads |-> Idle]
    /\ UNCHANGED <<taken, last, rec, listed, files, done, doneFile, mount,
                   requests, crossed, stacked, finished>>

\* Variant with a bug: the numbers of the tasks are not taken again.
RestartTakenNoTasks == [files EXCEPT !["task"] = {}]

\* dependency_injection, TASK_TYPE, EVENT_DESTINATION_TYPE, VIRTUAL_MEDIA_TYPE.
RestartTaken == files

Restart ==
    /\ pc = "down" /\ pc' = "up"
    /\ taken' = RestartTaken
    /\ last' = [k \in Kinds |-> FirstNumber(k)]
    /\ rec' = files
    /\ listed' = [k \in Kinds |-> [n \in Numbers |-> IF n \in files[k] THEN 1 ELSE 0]]
    /\ done' = doneFile
    /\ UNCHANGED <<thread, files, doneFile, mount, requests, kills, crossed, stacked, cut, finished>>

\* init_event_service makes subscription 1.
Made(k) == IF k = "sub" THEN {1} ELSE {}

Init ==
    /\ pc = "up" /\ thread = [t \in Threads |-> Idle]
    /\ taken = [k \in Kinds |-> Made(k)] /\ rec = taken /\ files = taken
    /\ last = [k \in Kinds |-> FirstNumber(k)]
    /\ listed = [k \in Kinds |-> [n \in Numbers |-> IF n \in Made(k) THEN 1 ELSE 0]]
    /\ done = {} /\ doneFile = {} /\ mount = <<>>
    /\ requests = 0 /\ kills = 0
    /\ crossed = {} /\ stacked = FALSE /\ cut = {} /\ finished = {}

Next ==
    \/ \E t \in Threads :
        \/ Receive(t) \/ generate_task_resource(t) \/ Treat(t)
        \/ FindNumber(t) \/ MakeRecord(t) \/ UnmountOld(t) \/ Mount(t) \/ AddMedium(t)
        \/ UndoInsert(t) \/ FindRecord(t) \/ Release(t) \/ Delete(t) \/ RemoveFile(t)
        \/ complete_task_resource(t) \/ Reply(t)
    \/ Kill \/ Restart

Spec == Init /\ [][Next]_vars

-----------------------------------------------------------------------------
(* Properties.                                                             *)

Working(k) == \E t \in Threads :
    thread[t].at \notin {"idle", "complete", "reply"} /\ (k = "task" \/ thread[t].kind = k)

\* When no request works on records of a kind, the numbers taken, the uris in
\* g_record, the members of the collection and the files are the same, through
\* refused insertions, removals and restarts; unless two threads have held one
\* number, which the unlocked allocation and a number released too early allow.
NumbersAgree ==
    pc = "up" => \A k \in Kinds \ crossed :
        Working(k) \/ /\ taken[k] = rec[k] /\ rec[k] = files[k]
                      /\ \A n \in Numbers : listed[k][n] = IF n \in rec[k] THEN 1 ELSE 0

\* A removal uses memory that is not its record's only when another request held
\* the same number at that time.
FailsOnlyByOverlap == pc = "failed" => crossed # {}

\* The task of a request that was answered (but for an exception) is Completed,
\* in memory and in its file, and stays it through restarts: its number is
\* never given to another request, unless two threads have found the same.
AnsweredTaskIsCompleted ==
    "task" \in crossed \/ (finished \subseteq doneFile /\ (pc = "up" => finished \subseteq done))

\* What is mounted is a medium of the list or one being inserted: nothing stays
\* mounted that no request can eject.  Two insertions at once can leave one
\* under the other, and a kill one that is not saved.
MountedIsListed ==
    ~stacked /\ crossed = {} /\ pc = "up" =>
        \A i \in 1 .. Len(mount) :
            \/ listed[mount[i][1]][mount[i][2]] > 0
            \/ mount[i] \in Inserting \cup cut
=============================================================================
