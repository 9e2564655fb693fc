------------------------------ MODULE RestQueue ------------------------------
(***************************************************************************)
(* The calls of the web server KETI-REST into KETI-Edge: sendrecv and      *)
(* test_sendrecv of KETI-REST/helper.cpp, rest_handler and                 *)
(* run_ipmi_handle_rest of KETI-Edge/rest_handler.cpp, over the two        *)
(* System V message queues with the keys 1234 (requests) and 5678          *)
(* (answers).  The queues belong to the kernel and outlive both processes. *)
(*                                                                         *)
(* KETI-REST is one mongoose loop and binds a port, so there is one web    *)
(* process at a time and it has one call under way.  A request and its     *)
(* answer carry the pid as message type and nothing that names the call;   *)
(* "tag" is what the request asked, which the code cannot see.             *)
(***************************************************************************)
EXTENDS Integers, Sequences, FiniteSets, SequencesExt

CONSTANTS
    Pids,        \* process ids the kernel gives the web server
    ReqCap,      \* requests and ...
    RspCap,      \* ... answers that fit into their queue (msg_qbytes)
    MaxCalls,    \* bound: calls made
    MaxDeaths,   \* bound: deaths of the web server
    FreshPids,   \* FALSE: a pid may be used again
    EdgeMayFail, \* TRUE: KETI-Edge may die, or lack the memory for a thread
    None

Tags     == 1 .. MaxCalls
Messages == [type : Pids, tag : Tags]

ASSUME QueueAssumption ==
    /\ ReqCap \in Nat \ {0} /\ RspCap \in Nat \ {0}
    /\ MaxCalls \in Nat /\ MaxDeaths \in Nat
    /\ FreshPids \in BOOLEAN /\ EdgeMayFail \in BOOLEAN
    /\ None \notin Pids \cup Messages

VARIABLES
    web,     \* the web server: pid (None while it is down), pc and its call
    answer,  \* the call whose answer the last call returned with, 0 if none
    reqQ,    \* the request queue
    rspQ,    \* the answer queue
    taken,   \* what rest_handler received and has no thread for yet
    workers, \* threads run_ipmi_handle_rest: request and where they are
    edge,    \* TRUE while KETI-Edge runs
    calls,   \* calls made so far
    deaths,  \* deaths of the web server so far
    used     \* pids the web server had so far

vars == <<web, answer, reqQ, rspQ, taken, workers, edge, calls, deaths, used>>

Down == [pid |-> None, pc |-> "down", tag |-> 0]

-----------------------------------------------------------------------------
(* KETI-REST.                                                              *)

WebStart(p) ==
    /\ web.pc = "down"
    /\ FreshPids => p \notin used
    /\ web' = [pid |-> p, pc |-> "idle", tag |-> 0]
    /\ used' = used \cup {p}
    /\ UNCHANGED <<answer, reqQ, rspQ, taken, workers, edge, calls, deaths>>

\* A web request makes the loop call into the BMC.
Call ==
    /\ web.pc = "idle" /\ calls < MaxCalls
    /\ calls' = calls + 1
    /\ web' = [web EXCEPT !.pc = "sending", !.tag = calls + 1]
    /\ answer' = 0
    /\ UNCHANGED <<reqQ, rspQ, taken, workers, edge, deaths, used>>

\* msgsnd, which blocks while the queue is full.
Send ==
    /\ web.pc = "sending" /\ Len(reqQ) < ReqCap
    /\ reqQ' = Append(reqQ, [type |-> web.pid, tag |-> web.tag])
    /\ web' = [web EXCEPT !.pc = "waiting"]
    /\ UNCHANGED <<answer, rspQ, taken, workers, edge, calls, deaths, used>>

\* Variant with a bug: msgrcv with the type 0, as WDTBK calls it.
FirstForAny(p) == {i \in DOMAIN rspQ : i = 1}

\* What msgrcv with the type pid takes: the first message of that type.
FirstFor(p) == {i \in DOMAIN rspQ : /\ rspQ[i].type = p
                                    /\ \A j \in 1 .. i - 1 : rspQ[j].type # p}

\* msgrcv without IPC_NOWAIT: it blocks, and WAITSECONDS counts nothing.
Receive ==
    /\ web.pc = "waiting"
    /\ \E i \in FirstFor(web.pid) :
       /\ answer' = rspQ[i].tag
       /\ rspQ' = RemoveAt(rspQ, i)
    /\ web' = [web EXCEPT !.pc = "idle"]
    /\ UNCHANGED <<reqQ, taken, workers, edge, calls, deaths, used>>

\* SIGINT, a crash, or an update: nothing is taken back from the queues.
WebDie ==
    /\ web.pc # "down" /\ deaths < MaxDeaths
    /\ deaths' = deaths + 1
    /\ web' = Down /\ answer' = 0
    /\ UNCHANGED <<reqQ, rspQ, taken, workers, edge, calls, used>>

-----------------------------------------------------------------------------
(* KETI-Edge.                                                              *)

\* rest_handler: msgrcv.
Take ==
    /\ edge /\ taken = None /\ reqQ # <<>>
    /\ taken' = Head(reqQ) /\ reqQ' = Tail(reqQ)
    /\ UNCHANGED <<web, answer, rspQ, workers, edge, calls, deaths, used>>

Thread(m, at) == [type |-> m.type, tag |-> m.tag, at |-> at]

\* Variant with a bug: the loop keeps the request it made a thread for.
SpawnKept ==
    /\ taken # None
    /\ workers' = workers \cup {Thread(taken, "handling")}
    /\ UNCHANGED <<web, answer, reqQ, rspQ, taken, edge, calls, deaths, used>>

\* rest_handler: pthread_create.
Spawn ==
    /\ taken # None
    /\ workers' = workers \cup {Thread(taken, "handling")}
    /\ taken' = None
    /\ UNCHANGED <<web, answer, reqQ, rspQ, edge, calls, deaths, used>>

\* rest_handler: pthread_create fails, the request is freed, no answer is sent.
SpawnFails ==
    /\ taken # None /\ EdgeMayFail
    /\ taken' = None
    /\ UNCHANGED <<web, answer, reqQ, rspQ, workers, edge, calls, deaths, used>>

\* run_ipmi_handle_rest: ipmi_handle_rest returns.
Handled(w) ==
    /\ w \in workers /\ w.at = "handling"
    /\ workers' = (workers \ {w}) \cup {Thread(w, "replying")}
    /\ UNCHANGED <<web, answer, reqQ, rspQ, taken, edge, calls, deaths, used>>

\* Variant with a bug: the type 1 of every message of WDTBK.
ReplyToFirst(w) == [type |-> CHOOSE p \in Pids : TRUE, tag |-> w.tag]

ReplyTo(w) == [type |-> w.type, tag |-> w.tag]

\* Variant with a bug: the queue is not looked at, as with IPC_NOWAIT unchecked.
CanReplyAlways == TRUE

CanReply == Len(rspQ) < RspCap

\* run_ipmi_handle_rest: msgsnd, which blocks while the queue is full; the
\* thread ends.
Reply(w) ==
    /\ w \in workers /\ w.at = "replying" /\ CanReply
    /\ rspQ' = Append(rspQ, ReplyTo(w))
    /\ workers' = workers \ {w}
    /\ UNCHANGED <<web, answer, reqQ, taken, edge, calls, deaths, used>>

EdgeDie ==
    /\ edge /\ EdgeMayFail
    /\ edge' = FALSE /\ taken' = None /\ workers' = {}
    /\ UNCHANGED <<web, answer, reqQ, rspQ, calls, deaths, used>>

EdgeStart ==
    /\ ~edge /\ edge' = TRUE
    /\ UNCHANGED <<web, answer, reqQ, rspQ, taken, workers, calls, deaths, used>>

-----------------------------------------------------------------------------

Threads == [type : Pids, tag : Tags, at : {"handling", "replying"}]

Init ==
    /\ web = Down /\ answer = 0
    /\ reqQ = <<>> /\ rspQ = <<>> /\ taken = None /\ workers = {}
    /\ edge = TRUE /\ calls = 0 /\ deaths = 0 /\ used = {}

Next ==
    \/ \E p \in Pids : WebStart(p)
    \/ Call \/ Send \/ Receive \/ WebDie
    \/ Take \/ Spawn \/ SpawnFails \/ EdgeDie \/ EdgeStart
    \/ \E w \in workers : Handled(w) \/ Reply(w)

\* The kernel runs every thread that can run, handlers return, and init starts
\* KETI-Edge again.  Web requests, deaths and failures may but need not occur.
Fairness ==
    /\ WF_vars(Send) /\ WF_vars(Receive)
    /\ WF_vars(Take) /\ WF_vars(Spawn) /\ WF_vars(EdgeStart)
    /\ \A w \in Threads : WF_vars(Handled(w)) /\ WF_vars(Reply(w))

Spec     == Init /\ [][Next]_vars
FairSpec == Spec /\ Fairness

-----------------------------------------------------------------------------
(* Properties.                                                             *)

\* Messages are of the calls made; a queue never holds more than its limit.
TypeOK ==
    /\ web \in [pid : Pids \cup {None}, pc : {"down", "idle", "sending", "waiting"},
                tag : 0 .. MaxCalls]
    /\ answer \in 0 .. MaxCalls
    /\ reqQ \in Seq(Messages) /\ Len(reqQ) <= ReqCap
    /\ rspQ \in Seq(Messages) /\ Len(rspQ) <= RspCap
    /\ taken \in Messages \cup {None}
    /\ workers \subseteq Threads
    /\ edge \in BOOLEAN
    /\ calls \in 0 .. MaxCalls /\ deaths \in 0 .. MaxDeaths /\ used \subseteq Pids

\* Where a call's request or its answer is.
InReqQ(t)    == {i \in DOMAIN reqQ : reqQ[i].tag = t}
InRspQ(t)    == {i \in DOMAIN rspQ : rspQ[i].tag = t}
InTaken(t)   == {m \in {taken} \ {None} : m.tag = t}
InWorkers(t) == {w \in workers : w.tag = t}

\* A call returns with the answer to its own request, although answers to calls
\* of web servers that died are still made and queued.
AnswerIsOwn == answer # 0 => answer = web.tag

\* While a call waits, one request, thread or answer of it is under way: it is
\* never doubled, and not lost either unless KETI-Edge fails.
OnePending ==
    web.pc = "waiting" =>
        LET pending == Cardinality(InReqQ(web.tag)) + Cardinality(InRspQ(web.tag)) +
                       Cardinality(InWorkers(web.tag)) + Cardinality(InTaken(web.tag))
        IN  pending <= 1 /\ (EdgeMayFail \/ pending = 1)

\* Every call returns, or the web server dies, as long as fewer web servers died
\* than answers fit into their queue: the answers nobody will receive any more
\* stay there for good, and msgsnd of KETI-Edge blocks once they fill it.
EveryCallReturns ==
    (web.pc \in {"sending", "waiting"} /\ deaths < RspCap) ~> web.pc \in {"idle", "down"}

=============================================================================
