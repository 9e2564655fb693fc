--------------------------- MODULE RestQueueProofs ---------------------------
(***************************************************************************)
(* Proofs about RestQueue, for queues of any size and any number of calls  *)
(* and deaths.  Sole follows the last call by its tag from queue to thread *)
(* to queue; Own, for a kernel that gives no pid twice, relates the pid,   *)
(* which is all the code looks at, to that call.                           *)
(***************************************************************************)
EXTENDS RestQueue, FiniteSetTheorems, SequenceTheorems, TLAPS

\* A web server that makes a call has a pid, and the call is the last one made.
Calling ==
    /\ IF web.pc = "down" THEN web.tag = 0 ELSE web.pid \in Pids
    /\ web.pc \in {"sending", "waiting"} => web.tag = calls /\ calls > 0

Typed == TypeOK /\ Calling

\* Nothing is under way of call t.
Nowhere(t) == InReqQ(t) = {} /\ InRspQ(t) = {} /\ InTaken(t) = {} /\ InWorkers(t) = {}

\* A call's request, thread or answer is in one place at most, and there once.
AtOnePlace(t) ==
    /\ InReqQ(t) # {} => InRspQ(t) = {} /\ InTaken(t) = {} /\ InWorkers(t) = {}
    /\ InRspQ(t) # {} => InTaken(t) = {} /\ InWorkers(t) = {}
    /\ InTaken(t) # {} => InWorkers(t) = {}
    /\ \A i, j \in InReqQ(t) : i = j
    /\ \A i, j \in InRspQ(t) : i = j
    /\ \A v, w \in InWorkers(t) : v = w

\* Nothing is under way of a call not made yet, or made but not sent yet; the
\* last call is in one place, and not lost while the web server waits.
Sole ==
    /\ \A t \in Tags : t > calls => Nowhere(t)
    /\ web.pc = "sending" => Nowhere(calls)
    /\ AtOnePlace(calls)
    /\ web.pc = "waiting" /\ ~EdgeMayFail => ~Nowhere(calls)

\* What is under way for a pid is for one the web server had, and if it is the
\* one it has, for the call it waits for.
OwnMessage(m) == m.type \in used /\ (m.type = web.pid => web.pc = "waiting" /\ m.tag = web.tag)

Own ==
    /\ web.pc # "down" => web.pid \in used
    /\ \A i \in DOMAIN reqQ : OwnMessage(reqQ[i])
    /\ \A i \in DOMAIN rspQ : OwnMessage(rspQ[i])
    /\ taken # None => OwnMessage(taken)
    /\ \A w \in workers : OwnMessage(w)

IInv    == Typed /\ Sole
IInvPid == IInv /\ Own /\ AnswerIsOwn

-----------------------------------------------------------------------------
(* The type invariant.                                                     *)

\* RemoveAt closes the gap: what was behind the place moves up by one.
LEMMA RemoveAtProps ==
    ASSUME NEW S, NEW s \in Seq(S), NEW i \in DOMAIN s
    PROVE  /\ RemoveAt(s, i) \in Seq(S)
           /\ Len(RemoveAt(s, i)) = Len(s) - 1
           /\ \A j \in 1 .. Len(s) - 1 : RemoveAt(s, i)[j] = IF j < i THEN s[j] ELSE s[j + 1]
<1> DEFINE front == SubSeq(s, 1, i - 1)
           back  == SubSeq(s, i + 1, Len(s))
<1>1. i \in 1 .. Len(s) /\ Len(s) \in Nat /\ \A j \in 1 .. Len(s) : s[j] \in S
  OBVIOUS
<1>2. /\ front \in Seq(S) /\ Len(front) = i - 1
      /\ \A j \in 1 .. i - 1 : front[j] = s[j]
  BY <1>1
<1>3. /\ back \in Seq(S) /\ Len(back) = Len(s) - i
      /\ \A j \in 1 .. Len(s) - i : back[j] = s[j + i]
  BY <1>1
<1>4. RemoveAt(s, i) = front \o back
  BY DEF RemoveAt
<1> HIDE DEF front, back
<1>5. /\ front \o back \in Seq(S) /\ Len(front \o back) = Len(s) - 1
      /\ \A j \in 1 .. Len(s) - 1 :
            (front \o back)[j] = IF j <= i - 1 THEN front[j] ELSE back[j - (i - 1)]
  BY <1>1, <1>2, <1>3, ConcatProperties, SMTT(30)
<1>6. ASSUME NEW j \in 1 .. Len(s) - 1
      PROVE  (front \o back)[j] = IF j < i THEN s[j] ELSE s[j + 1]
  <2>1. CASE j < i
    <3>1. j \in 1 .. i - 1
      BY <1>1, <2>1
    <3> QED
      BY <1>2, <1>5, <2>1, <3>1
  <2>2. CASE ~ (j < i)
    <3> DEFINE k == j - (i - 1)
    <3>1. k \in 1 .. Len(s) - i /\ k + i = j + 1 /\ ~ (j <= i - 1)
      BY <1>1, <2>2
    <3>2. (front \o back)[j] = back[k]
      BY <1>5, <3>1
    <3>3. back[k] = s[k + i]
      BY <1>3, <3>1
    <3> QED
      BY <2>2, <3>1, <3>2, <3>3
  <2> QED
    BY <2>1, <2>2
<1> QED
  BY <1>4, <1>5, <1>6

\* Initially the web server is down and the queues are empty.
LEMMA InitTyped == Init => Typed
  BY QueueAssumption DEF QueueAssumption, Init, Typed, TypeOK, Calling, Down

\* Every step keeps the types: one step per action.
LEMMA StepsKeepTypes == Typed /\ [Next]_vars => Typed'
<1> SUFFICES ASSUME Typed, [Next]_vars PROVE Typed'
  OBVIOUS
<1> USE QueueAssumption DEF QueueAssumption, Typed, TypeOK, Calling
<1>1. ASSUME NEW p \in Pids, WebStart(p) PROVE Typed'
  BY <1>1 DEF WebStart
<1>2. CASE Call
  <2>1. calls' \in 0 .. MaxCalls /\ calls' = calls + 1 /\ calls' > 0
    BY <1>2 DEF Call
  <2>2. web' = [pid |-> web.pid, pc |-> "sending", tag |-> calls']
    BY <1>2, <2>1 DEF Call
  <2> QED
    BY <1>2, <2>1, <2>2 DEF Call
<1>3. CASE Send
  <2>1. [type |-> web.pid, tag |-> web.tag] \in Messages
    BY <1>3 DEF Send, Messages, Tags
  <2>2. reqQ' \in Seq(Messages) /\ Len(reqQ') <= ReqCap
    BY <1>3, <2>1 DEF Send
  <2>3. web' = [pid |-> web.pid, pc |-> "waiting", tag |-> web.tag]
    BY <1>3 DEF Send
  <2> QED
    BY <1>3, <2>2, <2>3 DEF Send
<1>4. CASE Receive
  <2>1. PICK i \in DOMAIN rspQ : answer' = rspQ[i].tag /\ rspQ' = RemoveAt(rspQ, i)
    BY <1>4 DEF Receive, FirstFor
  <2>2. rspQ[i] \in Messages
    BY <2>1
  <2>3. rspQ' \in Seq(Messages) /\ Len(rspQ') <= RspCap
    BY <2>1, RemoveAtProps
  <2>4. web' = [pid |-> web.pid, pc |-> "idle", tag |-> web.tag]
    BY <1>4 DEF Receive
  <2> QED
    BY <1>4, <2>1, <2>2, <2>3, <2>4, SMTT(30) DEF Receive, Messages, Tags
<1>5. CASE WebDie
  BY <1>5 DEF WebDie, Down
<1>6. CASE Take
  BY <1>6 DEF Take
<1>7. CASE Spawn
  BY <1>7 DEF Spawn, Thread, Threads, Messages
<1>8. CASE SpawnFails
  BY <1>8 DEF SpawnFails
<1>9. CASE EdgeDie
  BY <1>9 DEF EdgeDie
<1>10. CASE EdgeStart
  BY <1>10 DEF EdgeStart
<1>11. ASSUME NEW w \in workers, Handled(w) PROVE Typed'
  BY <1>11 DEF Handled, Thread, Threads
<1>12. ASSUME NEW w \in workers, Reply(w) PROVE Typed'
  <2>1. ReplyTo(w) \in Messages
    BY DEF ReplyTo, Threads, Messages
  <2>2. rspQ' \in Seq(Messages) /\ Len(rspQ') <= RspCap
    BY <1>12, <2>1 DEF Reply, CanReply
  <2> QED
    BY <1>12, <2>2 DEF Reply
<1>13. CASE UNCHANGED vars
  BY <1>13 DEF vars
<1> QED
  BY <1>1, <1>2, <1>3, <1>4, <1>5, <1>6, <1>7, <1>8, <1>9, <1>10, <1>11, <1>12, <1>13 DEF Next

\* The types hold in every state, and with them: a call under way is the last.
THEOREM TypesAndCall == Spec => []Typed
  BY InitTyped, StepsKeepTypes, PTL DEF Spec

\* Messages are of calls made, and no queue grows past its limit.
THEOREM Typing == Spec => []TypeOK
<1>1. Typed => TypeOK
  BY DEF Typed
<1> QED
  BY <1>1, TypesAndCall, PTL

-----------------------------------------------------------------------------
(* Where the messages of a call go: one lemma per action that moves them.  *)

\* msgsnd of the web server adds its call's request and nothing else.
LEMMA SendPlaces ==
    ASSUME Typed, Send, NEW t
    PROVE  /\ InReqQ(t)' = InReqQ(t) \cup (IF t = web.tag THEN {Len(reqQ) + 1} ELSE {})
           /\ InRspQ(t)' = InRspQ(t) /\ InTaken(t)' = InTaken(t)
           /\ InWorkers(t)' = InWorkers(t)
<1>1. [type |-> web.pid, tag |-> web.tag] \in Messages
  BY QueueAssumption DEF QueueAssumption, Typed, TypeOK, Calling, Send, Messages, Tags
<1>2. reqQ \in Seq(Messages)
  BY DEF Typed, TypeOK
<1>3. /\ DOMAIN reqQ = 1 .. Len(reqQ) /\ DOMAIN reqQ' = 1 .. Len(reqQ) + 1
      /\ \A i \in 1 .. Len(reqQ) : reqQ'[i] = reqQ[i]
      /\ reqQ'[Len(reqQ) + 1].tag = web.tag
  BY <1>1, <1>2, AppendProperties DEF Send
<1>4. InReqQ(t)' = InReqQ(t) \cup (IF t = web.tag THEN {Len(reqQ) + 1} ELSE {})
  BY <1>2, <1>3 DEF InReqQ
<1> QED
  BY <1>4 DEF Send, InRspQ, InTaken, InWorkers

\* msgrcv of the web server takes one answer out of its queue.
LEMMA ReceivePlaces ==
    ASSUME Typed, NEW i \in DOMAIN rspQ, rspQ' = RemoveAt(rspQ, i), NEW t
    PROVE  \A j \in InRspQ(t)' : \E k \in InRspQ(t) \ {i} :
              rspQ'[j] = rspQ[k] /\ k = IF j < i THEN j ELSE j + 1
<1>1. rspQ \in Seq(Messages)
  BY DEF Typed, TypeOK
<1>2. DOMAIN rspQ = 1 .. Len(rspQ) /\ Len(rspQ) \in Nat /\ i \in 1 .. Len(rspQ)
  BY <1>1
<1>3. rspQ' \in Seq(Messages) /\ Len(rspQ') = Len(rspQ) - 1
  BY <1>1, RemoveAtProps
<1>4. DOMAIN rspQ' = 1 .. Len(rspQ) - 1
  BY <1>3
<1>5. \A j \in 1 .. Len(rspQ) - 1 : rspQ'[j] = IF j < i THEN rspQ[j] ELSE rspQ[j + 1]
  BY <1>1, RemoveAtProps
<1> QED
  BY <1>2, <1>4, <1>5 DEF InRspQ

\* msgrcv of rest_handler moves the first request.
LEMMA TakePlaces ==
    ASSUME Typed, Take, NEW t
    PROVE  /\ \A j : j \in InReqQ(t)' <=> j \in Nat \ {0} /\ j + 1 \in InReqQ(t)
           /\ InTaken(t)' = IF 1 \in InReqQ(t) THEN {reqQ[1]} ELSE {}
           /\ InTaken(t) = {} /\ taken' # None
           /\ InRspQ(t)' = InRspQ(t) /\ InWorkers(t)' = InWorkers(t)
<1>1. reqQ \in Seq(Messages) /\ reqQ # <<>>
  BY DEF Typed, TypeOK, Take
<1>2. /\ DOMAIN reqQ = 1 .. Len(reqQ) /\ Len(reqQ) \in Nat \ {0}
      /\ DOMAIN reqQ' = 1 .. Len(reqQ) - 1
      /\ \A j \in 1 .. Len(reqQ) - 1 : reqQ'[j] = reqQ[j + 1]
      /\ taken' = reqQ[1] /\ reqQ[1] \in Messages
  BY <1>1, HeadTailProperties DEF Take
<1>3. \A j : j \in InReqQ(t)' <=> j \in Nat \ {0} /\ j + 1 \in InReqQ(t)
  BY <1>2 DEF InReqQ
<1>4. InTaken(t)' = (IF 1 \in InReqQ(t) THEN {reqQ[1]} ELSE {}) /\ taken' # None
  BY <1>2, QueueAssumption DEF QueueAssumption, InReqQ, InTaken
<1> QED
  BY <1>3, <1>4 DEF Take, InRspQ, InTaken, InWorkers

\* The thread rest_handler makes has the request it took.
LEMMA SpawnPlaces ==
    ASSUME Typed, Spawn, NEW t
    PROVE  /\ InTaken(t)' = {}
           /\ InWorkers(t)' = InWorkers(t) \cup
                 (IF InTaken(t) # {} THEN {Thread(taken, "handling")} ELSE {})
           /\ InReqQ(t)' = InReqQ(t) /\ InRspQ(t)' = InRspQ(t)
  BY DEF Spawn, InTaken, InWorkers, InReqQ, InRspQ, Thread

\* A thread keeps its request when the handler returns.
LEMMA HandledPlaces ==
    ASSUME Typed, NEW w \in workers, Handled(w), NEW t
    PROVE  /\ InWorkers(t)' = (InWorkers(t) \ {w}) \cup
                 (IF w \in InWorkers(t) THEN {Thread(w, "replying")} ELSE {})
           /\ InReqQ(t)' = InReqQ(t) /\ InRspQ(t)' = InRspQ(t) /\ InTaken(t)' = InTaken(t)
  BY DEF Handled, InTaken, InWorkers, InReqQ, InRspQ, Thread

\* The thread's answer has its tag.
LEMMA ReplyPlaces ==
    ASSUME Typed, NEW w \in workers, Reply(w), NEW t
    PROVE  /\ InRspQ(t)' = InRspQ(t) \cup (IF w \in InWorkers(t) THEN {Len(rspQ) + 1} ELSE {})
           /\ InWorkers(t)' = InWorkers(t) \ {w}
           /\ InReqQ(t)' = InReqQ(t) /\ InTaken(t)' = InTaken(t)
<1>1. ReplyTo(w) \in Messages /\ ReplyTo(w).tag = w.tag
  BY DEF Typed, TypeOK, Threads, ReplyTo, Messages
<1>2. rspQ \in Seq(Messages)
  BY DEF Typed, TypeOK
<1>3. /\ DOMAIN rspQ = 1 .. Len(rspQ) /\ DOMAIN rspQ' = 1 .. Len(rspQ) + 1
      /\ \A i \in 1 .. Len(rspQ) : rspQ'[i] = rspQ[i]
      /\ rspQ'[Len(rspQ) + 1].tag = w.tag
  BY <1>1, <1>2, AppendProperties DEF Reply
<1>4. InRspQ(t)' = InRspQ(t) \cup (IF w \in InWorkers(t) THEN {Len(rspQ) + 1} ELSE {})
  BY <1>2, <1>3 DEF InRspQ, InWorkers
<1> QED
  BY <1>4 DEF Reply, InReqQ, InTaken, InWorkers

-----------------------------------------------------------------------------
(* A call is pending once.                                                 *)

\* Initially nothing is pending.
LEMMA InitSole == Init => Sole
  BY DEF Init, Down, Sole, Nowhere, AtOnePlace, InReqQ, InRspQ, InTaken, InWorkers

\* Every step keeps the last call in one place: one step per action.
LEMMA StepsKeepSole == Typed /\ Typed' /\ Sole /\ [Next]_vars => Sole'
<1> SUFFICES ASSUME Typed, Typed', Sole, [Next]_vars PROVE Sole'
  OBVIOUS
<1> USE DEF Sole
<1>0. calls \in Nat /\ calls' \in Nat
  BY QueueAssumption DEF QueueAssumption, Typed, TypeOK
<1>1. CASE \E p \in Pids : WebStart(p)
  BY <1>1 DEF WebStart, AtOnePlace, Nowhere, InReqQ, InRspQ, InTaken, InWorkers
<1>2. CASE Call
  <2>1. /\ calls' = calls + 1 /\ calls' \in Tags /\ web'.pc = "sending"
        /\ \A t : Nowhere(t)' = Nowhere(t)
    BY <1>2, QueueAssumption DEF QueueAssumption, Call, Typed, TypeOK, Tags, Nowhere,
       InReqQ, InRspQ, InTaken, InWorkers
  <2>2. \A t \in Tags : t > calls' => Nowhere(t)'
    BY <1>0, <2>1 DEF Tags
  <2>3. Nowhere(calls')
    BY <1>0, <2>1
  <2>4. Nowhere(calls)'
    BY <1>2, <2>3 DEF Call, Nowhere, InReqQ, InRspQ, InTaken, InWorkers
  <2> QED
    BY <2>1, <2>2, <2>4 DEF AtOnePlace, Nowhere
<1>3. CASE Send
  <2>1. /\ web.tag = calls /\ calls' = calls /\ web'.pc = "waiting"
        /\ Nowhere(calls)
    BY <1>3 DEF Send, Typed, TypeOK, Calling
  <2>2. \A t \in Tags : t > calls' => Nowhere(t)'
    BY <1>0, <1>3, <2>1, SendPlaces DEF Nowhere, Tags
  <2>3. PICK n : n = calls
    OBVIOUS
  <2>4. /\ InReqQ(n)' = {Len(reqQ) + 1} /\ InRspQ(n)' = {}
        /\ InTaken(n)' = {} /\ InWorkers(n)' = {}
    BY <1>3, <2>1, <2>3, SendPlaces DEF Nowhere
  <2>5. /\ InReqQ(calls)' = {Len(reqQ) + 1} /\ InRspQ(calls)' = {}
        /\ InTaken(calls)' = {} /\ InWorkers(calls)' = {}
    BY <2>1, <2>3, <2>4
  <2> QED
    BY <2>1, <2>2, <2>5 DEF AtOnePlace, Nowhere
<1>4. CASE Receive
  <2>1. PICK i \in DOMAIN rspQ : rspQ' = RemoveAt(rspQ, i)
    BY <1>4 DEF Receive, FirstFor
  <2>2. /\ calls' = calls /\ web'.pc = "idle"
        /\ \A t : /\ InReqQ(t)' = InReqQ(t) /\ InTaken(t)' = InTaken(t)
                  /\ InWorkers(t)' = InWorkers(t)
    BY <1>4 DEF Receive, Typed, TypeOK, InReqQ, InTaken, InWorkers
  <2>3. \A t : \A j \in InRspQ(t)' : \E k \in InRspQ(t) \ {i} : k = IF j < i THEN j ELSE j + 1
    BY <2>1, ReceivePlaces
  <2>4. \A t : InRspQ(t)' # {} => InRspQ(t) # {}
    BY <2>3
  <2>5. \A j, k \in InRspQ(calls)' : j = k
    <3>1. PICK n : n = calls
      OBVIOUS
    <3>2. InRspQ(n)' \subseteq Int /\ i \in Int
      BY <2>1 DEF InRspQ, Typed, TypeOK
    <3>3. \A j, k \in InRspQ(n)' : j = k
      BY <2>3, <3>1, <3>2 DEF AtOnePlace
    <3> QED
      BY <2>2, <3>1, <3>3
  <2> QED
    BY <2>2, <2>4, <2>5 DEF AtOnePlace, Nowhere
<1>5. CASE WebDie
  BY <1>5 DEF WebDie, Down, AtOnePlace, Nowhere, InReqQ, InRspQ, InTaken, InWorkers
<1>6. CASE Take
  <2>1. calls' = calls /\ web' = web
    BY <1>6 DEF Take
  <2>2. \A t \in Tags : t > calls => Nowhere(t)'
    BY <1>6, TakePlaces DEF Nowhere
  <2>3. PICK n : n = calls
    OBVIOUS
  <2>4. AtOnePlace(n)'
    <3>1. \A j \in InReqQ(n)' : j \in Nat \ {0} /\ j + 1 \in InReqQ(n)
      BY <1>6, TakePlaces
    <3>2. \A j, k \in InReqQ(n)' : j = k
      BY <2>3, <3>1 DEF AtOnePlace
    <3>3. 1 \in InReqQ(n) => InReqQ(n)' = {}
      BY <2>3, <3>1 DEF AtOnePlace
    <3> QED
      BY <1>6, <2>3, <3>1, <3>2, <3>3, TakePlaces DEF AtOnePlace
  <2>5. Nowhere(n)' = Nowhere(n)
    <3>1. ASSUME NEW j \in InReqQ(n), j # 1 PROVE j - 1 \in InReqQ(n)'
      <4>1. j \in 1 .. Len(reqQ) /\ Len(reqQ) \in Nat
        BY DEF InReqQ, Typed, TypeOK
      <4>2. j - 1 \in Nat \ {0} /\ (j - 1) + 1 = j
        BY <3>1, <4>1
      <4> QED
        BY <1>6, <4>2, TakePlaces
    <3> QED
      BY <1>6, <3>1, TakePlaces DEF Nowhere
  <2> QED
    BY <2>1, <2>2, <2>3, <2>4, <2>5 DEF AtOnePlace, Nowhere
<1>7. CASE Spawn
  <2>1. /\ calls' = calls /\ web' = web
    BY <1>7 DEF Spawn
  <2> QED
    BY <1>7, <2>1, SpawnPlaces DEF AtOnePlace, Nowhere
<1>8. CASE SpawnFails
  BY <1>8 DEF SpawnFails, AtOnePlace, Nowhere, InReqQ, InRspQ, InTaken, InWorkers
<1>9. CASE EdgeDie
  BY <1>9 DEF EdgeDie, AtOnePlace, Nowhere, InReqQ, InRspQ, InTaken, InWorkers
<1>10. CASE EdgeStart
  BY <1>10 DEF EdgeStart, AtOnePlace, Nowhere, InReqQ, InRspQ, InTaken, InWorkers
<1>11. ASSUME NEW w \in workers, Handled(w) PROVE Sole'
  <2>1. /\ calls' = calls /\ web' = web
    BY <1>11 DEF Handled
  <2> QED
    BY <1>11, <2>1, HandledPlaces DEF AtOnePlace, Nowhere
<1>12. ASSUME NEW w \in workers, Reply(w) PROVE Sole'
  <2>1. /\ calls' = calls /\ web' = web
    BY <1>12 DEF Reply
  <2> QED
    BY <1>12, <2>1, ReplyPlaces DEF AtOnePlace, Nowhere
<1>13. CASE UNCHANGED vars
  BY <1>13 DEF vars, AtOnePlace, Nowhere, InReqQ, InRspQ, InTaken, InWorkers
<1> QED
  BY <1>1, <1>2, <1>3, <1>4, <1>5, <1>6, <1>7, <1>8, <1>9, <1>10, <1>11, <1>12, <1>13 DEF Next

\* IInv is inductive: it holds in every reachable state.
THEOREM Invariance == Spec => []IInv
<1>1. Typed /\ Typed' /\ Sole /\ [Next]_vars => Sole'
  BY StepsKeepSole
<1> QED
  BY <1>1, InitSole, TypesAndCall, PTL DEF Spec, IInv

\* In an IInv state the four places of a waiting call hold one element at most.
LEMMA SoleIsOnePending == IInv => OnePending
<1> SUFFICES ASSUME IInv, web.pc = "waiting" PROVE OnePending
  BY DEF OnePending
<1> DEFINE t == web.tag
<1>1. AtOnePlace(t) /\ (EdgeMayFail \/ ~Nowhere(t))
  BY DEF IInv, Typed, TypeOK, Calling, Sole
<1>2. ASSUME NEW S, \A x, y \in S : x = y
      PROVE  Cardinality(S) = IF S = {} THEN 0 ELSE 1
  <2>1. CASE S = {}
    BY <2>1, FS_EmptySet
  <2>2. CASE S # {}
    <3>1. PICK x \in S : TRUE
      BY <2>2
    <3>2. S = {x}
      BY <1>2
    <3> QED
      BY <2>2, <3>2, FS_Singleton
  <2> QED
    BY <2>1, <2>2
<1>3. \A x, y \in InTaken(t) : x = y
  BY DEF InTaken
<1>4. /\ Cardinality(InReqQ(t)) = IF InReqQ(t) = {} THEN 0 ELSE 1
      /\ Cardinality(InRspQ(t)) = IF InRspQ(t) = {} THEN 0 ELSE 1
      /\ Cardinality(InWorkers(t)) = IF InWorkers(t) = {} THEN 0 ELSE 1
      /\ Cardinality(InTaken(t)) = IF InTaken(t) = {} THEN 0 ELSE 1
  BY <1>1, <1>2, <1>3 DEF AtOnePlace
<1> QED
  BY <1>1, <1>4, QueueAssumption DEF QueueAssumption, OnePending, AtOnePlace, Nowhere

\* A waiting call is never doubled, and lost only if KETI-Edge fails: for any
\* sizes of the queues, and whatever pids the kernel gives.
THEOREM CallIsPendingOnce == Spec => []OnePending
  BY Invariance, SoleIsOnePending, PTL

-----------------------------------------------------------------------------
(* The answer is the call's own, if no pid is given twice.                 *)

\* Initially nothing is under way.
LEMMA InitOwn == Init => Own /\ AnswerIsOwn
  BY DEF Init, Down, Own, AnswerIsOwn

\* Every step keeps the pids apart: one step per action that sends, moves or
\* takes a message or changes the web server.
LEMMA StepsKeepOwn ==
    ASSUME FreshPids
    PROVE  IInv /\ IInv' /\ Own /\ AnswerIsOwn /\ [Next]_vars => Own' /\ AnswerIsOwn'
<1> SUFFICES ASSUME IInv, IInv', Own, AnswerIsOwn, [Next]_vars PROVE Own' /\ AnswerIsOwn'
  OBVIOUS
<1> USE DEF Own, OwnMessage, AnswerIsOwn
<1>0. /\ reqQ \in Seq(Messages) /\ rspQ \in Seq(Messages) /\ workers \subseteq Threads
      /\ taken \in Messages \cup {None} /\ Messages = [type : Pids, tag : Tags]
      /\ None \notin Pids /\ None \notin Messages
  BY QueueAssumption DEF QueueAssumption, IInv, Typed, TypeOK, Messages
<1>1. ASSUME NEW p \in Pids, WebStart(p) PROVE Own' /\ AnswerIsOwn'
  <2>1. p \notin used /\ web'.pid = p /\ used' = used \cup {p} /\ answer' = 0
    BY <1>1 DEF WebStart, IInv, Typed, TypeOK, Calling
  <2> QED
    BY <1>0, <1>1, <2>1 DEF WebStart
<1>2. CASE Call
  BY <1>2 DEF Call, IInv, Typed, TypeOK
<1>3. CASE Send
  <2>1. [type |-> web.pid, tag |-> web.tag] \in Messages
    BY <1>3, QueueAssumption DEF QueueAssumption, IInv, Typed, TypeOK, Calling, Send, Messages, Tags
  <2>2. /\ DOMAIN reqQ = 1 .. Len(reqQ) /\ DOMAIN reqQ' = 1 .. Len(reqQ) + 1 /\ Len(reqQ) \in Nat
        /\ \A i \in 1 .. Len(reqQ) : reqQ'[i] = reqQ[i]
        /\ reqQ'[Len(reqQ) + 1] = [type |-> web.pid, tag |-> web.tag]
    BY <1>0, <1>3, <2>1, AppendProperties DEF Send
  <2>3. web'.pid = web.pid /\ web'.tag = web.tag /\ web'.pc = "waiting" /\ web.pid \in used
    BY <1>3 DEF Send, IInv, Typed, TypeOK
  <2>4. ASSUME NEW i \in DOMAIN reqQ' PROVE OwnMessage(reqQ[i])'
    <3>1. used' = used /\ web.pc = "sending"
      BY <1>3 DEF Send
    <3>2. CASE i \in DOMAIN reqQ
      BY <2>2, <2>3, <3>1, <3>2
    <3>3. CASE i = Len(reqQ) + 1
      BY <2>2, <2>3, <3>1, <3>3
    <3> QED
      BY <2>2, <3>2, <3>3
  <2> QED
    BY <1>3, <2>3, <2>4 DEF Send
<1>4. CASE Receive
  <2>1. PICK i \in DOMAIN rspQ : /\ rspQ[i].type = web.pid /\ answer' = rspQ[i].tag
                                 /\ rspQ' = RemoveAt(rspQ, i)
    BY <1>4 DEF Receive, FirstFor
  <2>2. PICK n : n = web.tag
    OBVIOUS
  <2>3. n = calls /\ i \in InRspQ(n)
    BY <1>4, <2>1, <2>2 DEF Receive, InRspQ, IInv, Typed, Calling
  <2>4. /\ InReqQ(n) = {} /\ InTaken(n) = {} /\ InWorkers(n) = {} /\ InRspQ(n) = {i}
    BY <2>3 DEF IInv, Sole, AtOnePlace
  <2>5. \A j \in DOMAIN rspQ' : \E k \in DOMAIN rspQ \ {i} : rspQ'[j] = rspQ[k]
    <3>1. /\ DOMAIN rspQ = 1 .. Len(rspQ) /\ Len(rspQ) \in Nat /\ i \in 1 .. Len(rspQ)
          /\ DOMAIN rspQ' = 1 .. Len(rspQ) - 1
          /\ \A j \in 1 .. Len(rspQ) - 1 : rspQ'[j] = IF j < i THEN rspQ[j] ELSE rspQ[j + 1]
      BY <1>0, <2>1, RemoveAtProps
    <3> QED
      BY <3>1
  <2>6. /\ \A j \in DOMAIN reqQ : reqQ[j].type # web.pid
        /\ \A j \in DOMAIN rspQ \ {i} : rspQ[j].type # web.pid
        /\ taken # None => taken.type # web.pid
        /\ \A w \in workers : w.type # web.pid
    BY <2>2, <2>4 DEF InReqQ, InRspQ, InTaken, InWorkers
  <2>7. web'.pid = web.pid /\ web'.tag = web.tag /\ web'.pc = "idle"
    BY <1>4 DEF Receive, IInv, Typed, TypeOK
  <2> QED
    BY <1>4, <2>1, <2>2, <2>3, <2>5, <2>6, <2>7 DEF Receive, InRspQ
<1>5. CASE WebDie
  <2>1. /\ \A i \in DOMAIN reqQ : reqQ[i].type # None
        /\ \A i \in DOMAIN rspQ : rspQ[i].type # None
        /\ taken # None => taken.type # None
        /\ \A w \in workers : w.type # None
    <3>1. \A m \in Messages : m.type # None
      BY <1>0
    <3>2. \A w \in Threads : w.type # None
      BY <1>0 DEF Threads
    <3>3. /\ \A i \in DOMAIN reqQ : reqQ[i] \in Messages
          /\ \A i \in DOMAIN rspQ : rspQ[i] \in Messages
      BY DEF IInv, Typed, TypeOK
    <3> QED
      BY <1>0, <3>1, <3>2, <3>3
  <2>2. web' = Down /\ answer' = 0
    BY <1>5 DEF WebDie
  <2> QED
    BY <1>5, <2>1, <2>2 DEF WebDie, Down
<1>6. CASE Take
  <2>1. /\ DOMAIN reqQ = 1 .. Len(reqQ) /\ Len(reqQ) \in Nat \ {0}
        /\ DOMAIN reqQ' = 1 .. Len(reqQ) - 1
        /\ \A j \in 1 .. Len(reqQ) - 1 : reqQ'[j] = reqQ[j + 1]
        /\ taken' = reqQ[1]
    BY <1>0, <1>6, HeadTailProperties DEF Take
  <2>2. \A j \in DOMAIN reqQ' : j + 1 \in DOMAIN reqQ /\ reqQ'[j] = reqQ[j + 1]
    BY <2>1
  <2> QED
    BY <1>6, <2>1, <2>2 DEF Take
<1>7. CASE Spawn
  BY <1>7 DEF Spawn, Thread
<1>8. CASE SpawnFails
  BY <1>8 DEF SpawnFails
<1>9. CASE EdgeDie
  BY <1>9 DEF EdgeDie
<1>10. CASE EdgeStart
  BY <1>10 DEF EdgeStart
<1>11. ASSUME NEW w \in workers, Handled(w) PROVE Own' /\ AnswerIsOwn'
  BY <1>11 DEF Handled, Thread
<1>12. ASSUME NEW w \in workers, Reply(w) PROVE Own' /\ AnswerIsOwn'
  <2>1. ReplyTo(w) \in Messages /\ ReplyTo(w).tag = w.tag /\ ReplyTo(w).type = w.type
    BY <1>0 DEF Threads, ReplyTo
  <2>2. /\ DOMAIN rspQ = 1 .. Len(rspQ) /\ DOMAIN rspQ' = 1 .. Len(rspQ) + 1 /\ Len(rspQ) \in Nat
        /\ \A i \in 1 .. Len(rspQ) : rspQ'[i] = rspQ[i]
        /\ rspQ'[Len(rspQ) + 1] = ReplyTo(w)
    BY <1>0, <1>12, <2>1, AppendProperties DEF Reply
  <2>3. ASSUME NEW i \in DOMAIN rspQ' PROVE OwnMessage(rspQ[i])'
    <3>1. used' = used /\ web' = web
      BY <1>12 DEF Reply
    <3>2. CASE i \in DOMAIN rspQ
      BY <2>2, <3>1, <3>2
    <3>3. CASE i = Len(rspQ) + 1
      BY <2>1, <2>2, <3>1, <3>3
    <3> QED
      BY <2>2, <3>2, <3>3
  <2> QED
    BY <1>12, <2>3 DEF Reply
<1>13. CASE UNCHANGED vars
  BY <1>13 DEF vars
<1> QED
  BY <1>1, <1>2, <1>3, <1>4, <1>5, <1>6, <1>7, <1>8, <1>9, <1>10, <1>11, <1>12, <1>13 DEF Next

\* If the kernel gives no pid twice, a call returns with its own answer, however
\* many web servers died while KETI-Edge worked for them.  (rest_pid shows that
\* it may not be so otherwise.)
THEOREM AnswersAreOwn == ASSUME FreshPids PROVE Spec => []AnswerIsOwn
<1>1. IInv /\ IInv' /\ Own /\ AnswerIsOwn /\ [Next]_vars => Own' /\ AnswerIsOwn'
  BY StepsKeepOwn
<1> QED
  BY <1>1, InitOwn, Invariance, PTL DEF Spec
=============================================================================
