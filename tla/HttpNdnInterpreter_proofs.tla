--------------------- MODULE HttpNdnInterpreter_proofs --------------------
(***************************************************************************)
(* Proofs about HttpNdnInterpreter, for any number of requests, keys,      *)
(* fetches and threads.                                                    *)
(***************************************************************************)
EXTENDS HttpNdnInterpreter, TLAPS

---------------------------------------------------------------------------
(***************************************************************************)
(* The inductive invariant.  What a thread works on is owned by it alone;  *)
(* the keys of _pending_requests are exactly the keys of the live fetches, *)
(* one each; a thread that delivers holds requests with its fetch's key,   *)
(* and what it hands out is the response of a collected fetch.             *)
(***************************************************************************)
ThreadOwnsJob ==
    /\ \A t \in Thread :
         /\ pc[t] = "lookup" => job[t] \in Request /\ task[job[t]] = "running"
         /\ pc[t] = "forward" => job[t] \in Fetch /\ fetch[job[t]].phase = "naming"
         /\ pc[t] \in HeaderPcs => job[t] \in Fetch /\ fetch[job[t]].phase = "running"
         /\ pc[t] = "deliver" => job[t] \in Fetch /\ fetch[job[t]].phase = "collected"
         /\ pc[t] # "deliver" => set[t] = {}
    /\ \A t, u \in Thread : t # u =>
         /\ pc[t] = "lookup" /\ pc[u] = "lookup" => job[t] # job[u]
         /\ pc[t] = "forward" /\ pc[u] = "forward" => job[t] # job[u]
         /\ pc[t] \in HeaderPcs /\ pc[u] \in HeaderPcs => job[t] # job[u]

EntriesAreLive ==
    /\ \A k \in DOMAIN pending : \E f \in Fetch : Live(f) /\ fetch[f].key = k
    /\ \A f \in Fetch : Live(f) => fetch[f].key \in DOMAIN pending

RightKeys ==
    /\ \A t \in Thread : \A r \in set[t] : fetch[job[t]].key = Sha1[r]
    /\ \A r \in Request : \A i \in DOMAIN delivered[r] :
         fetch[delivered[r][i]].phase = "collected"
    /\ RightResponse

IInv ==
    /\ TypeOK
    /\ ThreadOwnsJob
    /\ EntriesAreLive
    /\ OneFetchPerKey
    /\ NoUncaughtException
    /\ EachRequestOnce
    /\ RightKeys

---------------------------------------------------------------------------
\* A part of the invariant is kept by a step that leaves its variables alone.
LEMMA Frame ==
    /\ ThreadOwnsJob /\ UNCHANGED <<pc, job, set, task, fetch>> => ThreadOwnsJob'
    /\ EntriesAreLive /\ UNCHANGED <<pending, fetch>> => EntriesAreLive'
    /\ OneFetchPerKey /\ UNCHANGED fetch => OneFetchPerKey'
    /\ NoUncaughtException /\ UNCHANGED terminated => NoUncaughtException'
    /\ EachRequestOnce /\ UNCHANGED <<task, pending, set, delivered>> => EachRequestOnce'
    /\ RightKeys /\ UNCHANGED <<set, job, fetch, delivered>> => RightKeys'
<1>1. ThreadOwnsJob /\ UNCHANGED <<pc, job, set, task, fetch>> => ThreadOwnsJob'
    BY DEF ThreadOwnsJob
<1>2. EntriesAreLive /\ UNCHANGED <<pending, fetch>> => EntriesAreLive'
    BY DEF EntriesAreLive, Live
<1>3. OneFetchPerKey /\ UNCHANGED fetch => OneFetchPerKey'
    BY DEF OneFetchPerKey, Live
<1>4. NoUncaughtException /\ UNCHANGED terminated => NoUncaughtException'
    BY DEF NoUncaughtException
<1>5. EachRequestOnce /\ UNCHANGED <<task, pending, set, delivered>> => EachRequestOnce'
    BY DEF EachRequestOnce, OnlyOnce, InEntry, InSet
<1>6. RightKeys /\ UNCHANGED <<set, job, fetch, delivered>> => RightKeys'
    BY DEF RightKeys, RightResponse
<1> QED  BY <1>1, <1>2, <1>3, <1>4, <1>5, <1>6

\* A fetch changes phase and keeps its key.
LEMMA PhaseChange ==
    ASSUME fetch \in [Fetch -> FetchRecord], NEW f \in Fetch,
           NEW p \in LivePhases \cup {"collected"}
    PROVE  [fetch EXCEPT ![f].phase = p] \in [Fetch -> FetchRecord]
    BY DEF FetchRecord

---------------------------------------------------------------------------
(***************************************************************************)
(* Where the requests are after each step that moves them.                 *)
(***************************************************************************)
LEMMA DiscardMoves ==
    ASSUME IInv, NEW t \in Thread, NEW r \in Request, DiscardAborted(t, r)
    PROVE  /\ ~InEntry(r) /\ ~InSet(r) /\ delivered[r] = <<>> /\ task[r] = "queued"
           /\ \A q \in Request : task'[q] = IF q = r THEN "discarded" ELSE task[q]
    BY DEF IInv, TypeOK, EachRequestOnce, OnlyOnce, DiscardAborted

\* The request that opens an entry is the one that waits in it.
LEMMA OpenMoves ==
    ASSUME IInv, NEW t \in Thread, OpenEntry(t)
    PROVE  /\ job[t] \in Request /\ task[job[t]] = "running"
           /\ Sha1[job[t]] \in Key /\ Sha1[job[t]] \notin DOMAIN pending
           /\ ~InEntry(job[t]) /\ ~InSet(job[t]) /\ delivered[job[t]] = <<>>
           /\ DOMAIN pending' = DOMAIN pending \cup {Sha1[job[t]]}
           /\ pending'[Sha1[job[t]]] = {job[t]}
           /\ \A x \in DOMAIN pending : pending'[x] = pending[x]
           /\ \A q \in Request : InEntry(q)' <=> (InEntry(q) \/ q = job[t])
           /\ \A q \in Request : InSet(q)' <=> InSet(q)
           /\ \A q \in Request : task'[q] = IF q = job[t] THEN "pending" ELSE task[q]
<1> DEFINE r == job[t]
           k == Sha1[r]
<1>1. /\ r \in Request /\ task[r] = "running"
      /\ k \in Key /\ k \notin DOMAIN pending
    BY Sha1Assumption DEF IInv, ThreadOwnsJob, OpenEntry, Known
<1>2. /\ pending' = [x \in DOMAIN pending \cup {k} |-> IF x = k THEN {r} ELSE pending[x]]
      /\ task' = [task EXCEPT ![r] = "pending"]
      /\ UNCHANGED set
    BY DEF OpenEntry
<1> HIDE DEF k
<1>3. /\ DOMAIN pending' = DOMAIN pending \cup {k}
      /\ pending'[k] = {r}
      /\ \A x \in DOMAIN pending : pending'[x] = pending[x]
    BY <1>1, <1>2
<1>4. \A q \in Request : InEntry(q)' <=> (InEntry(q) \/ q = r)
    BY <1>3, <1>1 DEF InEntry
<1>5. ~InEntry(r) /\ ~InSet(r) /\ delivered[r] = <<>>
    BY <1>1 DEF IInv, EachRequestOnce, OnlyOnce
<1>6. \A q \in Request : InSet(q)' <=> InSet(q)
    BY <1>2 DEF InSet
<1>7. \A q \in Request : task'[q] = IF q = r THEN "pending" ELSE task[q]
    BY <1>1, <1>2 DEF IInv, TypeOK
<1> QED  BY <1>1, <1>3, <1>4, <1>5, <1>6, <1>7 DEF k

\* A request that joins waits in the entry of its key, with those already there.
LEMMA JoinMoves ==
    ASSUME IInv, NEW t \in Thread, JoinEntry(t)
    PROVE  /\ job[t] \in Request /\ task[job[t]] = "running"
           /\ Sha1[job[t]] \in DOMAIN pending
           /\ ~InEntry(job[t]) /\ ~InSet(job[t]) /\ delivered[job[t]] = <<>>
           /\ DOMAIN pending' = DOMAIN pending
           /\ pending'[Sha1[job[t]]] = pending[Sha1[job[t]]] \cup {job[t]}
           /\ \A x \in DOMAIN pending : x # Sha1[job[t]] => pending'[x] = pending[x]
           /\ \A q \in Request : InEntry(q)' <=> (InEntry(q) \/ q = job[t])
           /\ \A q \in Request : InSet(q)' <=> InSet(q)
           /\ \A q \in Request : task'[q] = IF q = job[t] THEN "pending" ELSE task[q]
<1> DEFINE r == job[t]
           k == Sha1[r]
<1>1. /\ r \in Request /\ task[r] = "running" /\ k \in DOMAIN pending
      /\ pending' = [pending EXCEPT ![k] = @ \cup {r}]
      /\ task' = [task EXCEPT ![r] = "pending"]
      /\ UNCHANGED set
    BY DEF IInv, ThreadOwnsJob, JoinEntry, Known, Inserted
<1> HIDE DEF k
<1>2. /\ DOMAIN pending' = DOMAIN pending
      /\ pending'[k] = pending[k] \cup {r}
      /\ \A x \in DOMAIN pending : x # k => pending'[x] = pending[x]
    BY <1>1 DEF IInv, TypeOK
<1>3. \A q \in Request : InEntry(q)' <=> (InEntry(q) \/ q = r)
    BY <1>1, <1>2 DEF InEntry
<1>4. ~InEntry(r) /\ ~InSet(r) /\ delivered[r] = <<>>
    BY <1>1 DEF IInv, EachRequestOnce, OnlyOnce
<1>5. \A q \in Request : InSet(q)' <=> InSet(q)
    BY <1>1 DEF InSet
<1>6. \A q \in Request : task'[q] = IF q = r THEN "pending" ELSE task[q]
    BY <1>1 DEF IInv, TypeOK
<1> QED  BY <1>1, <1>2, <1>3, <1>4, <1>5, <1>6 DEF k

\* Collecting moves the waiting requests of one key to the thread's set.
LEMMA CollectMoves ==
    ASSUME IInv, NEW t \in Thread, CollectWaiting(t)
    PROVE  /\ fetch[job[t]].key \in DOMAIN pending /\ set[t] = {}
           /\ DOMAIN pending' = DOMAIN pending \ {fetch[job[t]].key}
           /\ \A x \in DOMAIN pending \ {fetch[job[t]].key} : pending'[x] = pending[x]
           /\ \A u \in Thread : set'[u] = IF u = t THEN pending[fetch[job[t]].key] ELSE set[u]
           /\ \A q \in Request : q \in pending[fetch[job[t]].key] <=> InEntry(q) /\ fetch[job[t]].key = Sha1[q]
           /\ \A q \in Request : InEntry(q)' <=> (InEntry(q) /\ q \notin pending[fetch[job[t]].key])
           /\ \A q \in Request : InSet(q)' <=> (InSet(q) \/ q \in pending[fetch[job[t]].key])
           /\ UNCHANGED <<task, delivered>>
<1> DEFINE k == fetch[job[t]].key
<1>1. /\ k \in DOMAIN pending /\ set[t] = {}
      /\ set' = [set EXCEPT ![t] = pending[k]]
      /\ pending' = [x \in DOMAIN pending \ {k} |-> pending[x]]
      /\ UNCHANGED <<task, delivered>>
    BY DEF IInv, ThreadOwnsJob, CollectWaiting, WaitingAt, Erased, reqVars
<1> HIDE DEF k
<1>2. /\ DOMAIN pending' = DOMAIN pending \ {k}
      /\ \A x \in DOMAIN pending \ {k} : pending'[x] = pending[x]
    BY <1>1
<1>3. \A u \in Thread : set'[u] = IF u = t THEN pending[k] ELSE set[u]
    BY <1>1 DEF IInv, TypeOK
<1>4. \A q \in Request : q \in pending[k] <=> InEntry(q) /\ k = Sha1[q]
    BY <1>1 DEF IInv, EachRequestOnce, OnlyOnce, InEntry
<1>5. \A q \in Request : \A x \in DOMAIN pending : q \in pending[x] => x = Sha1[q]
    BY DEF IInv, EachRequestOnce, OnlyOnce
<1>6. \A q \in Request : InEntry(q)' <=> (InEntry(q) /\ q \notin pending[k])
    BY <1>1, <1>2, <1>4, <1>5 DEF InEntry
<1>7. \A q \in Request : InSet(q)' <=> (InSet(q) \/ q \in pending[k])
    BY <1>1, <1>3 DEF InSet
<1> QED  BY <1>1, <1>2, <1>3, <1>4, <1>6, <1>7 DEF k

\* Delivering moves one request from the set of the thread to the answered ones.
LEMMA DeliverMoves ==
    ASSUME IInv, NEW t \in Thread, fromHttpSink(t)
    PROVE  \E r \in Request :
             /\ r \in set[t] /\ InSet(r) /\ ~InEntry(r) /\ delivered[r] = <<>>
             /\ delivered'[r] = <<job[t]>> /\ Len(delivered'[r]) = 1
             /\ \A q \in Request : q # r => delivered'[q] = delivered[q]
             /\ \A u \in Thread : set'[u] = IF u = t THEN set[t] \ {r} ELSE set[u]
             /\ \A q \in Request : InSet(q)' <=> (InSet(q) /\ q # r)
             /\ \A q \in Request : InEntry(q)' <=> InEntry(q)
             /\ UNCHANGED <<task, pending>>
<1>1. PICK r \in set[t] : /\ delivered' = [delivered EXCEPT ![r] = Append(@, job[t])]
                          /\ set' = [set EXCEPT ![t] = @ \ {r}]
    BY DEF fromHttpSink
<1>2. /\ r \in Request /\ job[t] \in Fetch /\ UNCHANGED <<task, pending>>
    BY DEF IInv, TypeOK, ThreadOwnsJob, fromHttpSink, reqVars
<1>3. InSet(r) /\ ~InEntry(r) /\ delivered[r] = <<>>
    BY <1>2 DEF IInv, EachRequestOnce, OnlyOnce, InSet
<1>4. delivered'[r] = <<job[t]>> /\ Len(delivered'[r]) = 1
    BY <1>1, <1>2, <1>3 DEF IInv, TypeOK
<1>5. \A q \in Request : q # r => delivered'[q] = delivered[q]
    BY <1>1, <1>2 DEF IInv, TypeOK
<1>6. \A u \in Thread : set'[u] = IF u = t THEN set[t] \ {r} ELSE set[u]
    BY <1>1 DEF IInv, TypeOK
<1>7. \A q \in Request : InSet(q)' <=> (InSet(q) /\ q # r)
    BY <1>2, <1>6 DEF IInv, EachRequestOnce, OnlyOnce, InSet
<1>8. \A q \in Request : InEntry(q)' <=> InEntry(q)
    BY <1>2 DEF InEntry
<1> QED  BY <1>2, <1>3, <1>4, <1>5, <1>6, <1>7, <1>8

---------------------------------------------------------------------------
(***************************************************************************)
(* One lemma for each action.                                              *)
(***************************************************************************)
\* fromHttpSource keeps the invariant.
LEMMA fromHttpSourceStep ==
    ASSUME IInv, ~terminated, NEW r \in Request, fromHttpSource(r)
    PROVE  IInv'
<1>1. TypeOK'
    BY Sha1Assumption DEF IInv, fromHttpSource, netVars, threadVars,
       TypeOK, ThreadOwnsJob, HeaderPcs, LivePhases
<1>2. ThreadOwnsJob'
    BY Sha1Assumption DEF IInv, fromHttpSource, netVars, threadVars,
       ThreadOwnsJob, HeaderPcs, TypeOK
<1>3. EachRequestOnce'
    <2>1. \A q \in Request : (task'[q] = "pending") <=> (task[q] = "pending")
        BY DEF IInv, TypeOK, fromHttpSource
    <2> QED  BY <2>1 DEF IInv, fromHttpSource, netVars, threadVars, EachRequestOnce, OnlyOnce, InEntry, InSet
<1>4. EntriesAreLive' /\ OneFetchPerKey' /\ NoUncaughtException' /\
       RightKeys'
    BY Frame DEF IInv, fromHttpSource, netVars, threadVars
<1> QED  BY <1>1, <1>2, <1>3, <1>4 DEF IInv

\* BodyArrives keeps the invariant.
LEMMA BodyArrivesStep ==
    ASSUME IInv, ~terminated, NEW r \in Request, BodyArrives(r)
    PROVE  IInv'
<1>1. TypeOK'
    BY Sha1Assumption DEF IInv, BodyArrives, netVars, threadVars,
       TypeOK, ThreadOwnsJob, HeaderPcs, LivePhases
<1>2. ThreadOwnsJob' /\ EntriesAreLive' /\ OneFetchPerKey' /\
       NoUncaughtException' /\ EachRequestOnce' /\ RightKeys'
    BY Frame DEF IInv, BodyArrives, netVars, threadVars
<1> QED  BY <1>1, <1>2 DEF IInv

\* RequestAborts keeps the invariant.
LEMMA RequestAbortsStep ==
    ASSUME IInv, ~terminated, NEW r \in Request, RequestAborts(r)
    PROVE  IInv'
<1>1. TypeOK'
    BY Sha1Assumption DEF IInv, RequestAborts, netVars, threadVars,
       TypeOK, ThreadOwnsJob, HeaderPcs, LivePhases
<1>2. ThreadOwnsJob' /\ EntriesAreLive' /\ OneFetchPerKey' /\
       NoUncaughtException' /\ EachRequestOnce' /\ RightKeys'
    BY Frame DEF IInv, RequestAborts, netVars, threadVars
<1> QED  BY <1>1, <1>2 DEF IInv

\* HeaderArrives keeps the invariant.
LEMMA HeaderArrivesStep ==
    ASSUME IInv, ~terminated, NEW f \in Fetch, HeaderArrives(f)
    PROVE  IInv'
<1>1. TypeOK'
    <2>1. PICK h \in {"good", "bad"} : response' = [response EXCEPT ![f].header = h]
        BY DEF HeaderArrives
    <2>2. response' \in [Fetch -> ResponseRecord]
        BY <2>1, ZenonT(40) DEF IInv, TypeOK, ResponseRecord, Header
    <2> QED  BY <2>2 DEF IInv, HeaderArrives, reqVars, threadVars, TypeOK
<1>2. ThreadOwnsJob' /\ EntriesAreLive' /\ OneFetchPerKey' /\
       NoUncaughtException' /\ EachRequestOnce' /\ RightKeys'
    BY Frame DEF IInv, HeaderArrives, reqVars, threadVars
<1> QED  BY <1>1, <1>2 DEF IInv

\* RetrievalCompletes keeps the invariant.
LEMMA RetrievalCompletesStep ==
    ASSUME IInv, ~terminated, NEW f \in Fetch, RetrievalCompletes(f)
    PROVE  IInv'
<1>1. TypeOK'
    <2>1. response' \in [Fetch -> ResponseRecord]
        BY ZenonT(40) DEF IInv, TypeOK, LivePhases, RetrievalCompletes, ResponseRecord
    <2> QED  BY <2>1 DEF IInv, RetrievalCompletes, reqVars, threadVars, TypeOK, ThreadOwnsJob, HeaderPcs
<1>2. ThreadOwnsJob' /\ EntriesAreLive' /\ OneFetchPerKey' /\
       NoUncaughtException' /\ EachRequestOnce' /\ RightKeys'
    BY Frame DEF IInv, RetrievalCompletes, reqVars, threadVars
<1> QED  BY <1>1, <1>2 DEF IInv

\* RetrievalAborts keeps the invariant.
LEMMA RetrievalAbortsStep ==
    ASSUME IInv, ~terminated, NEW f \in Fetch, RetrievalAborts(f)
    PROVE  IInv'
<1>1. TypeOK'
    <2>1. response' \in [Fetch -> ResponseRecord]
        BY ZenonT(40) DEF IInv, TypeOK, LivePhases, RetrievalAborts, ResponseRecord
    <2> QED  BY <2>1 DEF IInv, RetrievalAborts, reqVars, threadVars, TypeOK, ThreadOwnsJob, HeaderPcs
<1>2. ThreadOwnsJob' /\ EntriesAreLive' /\ OneFetchPerKey' /\
       NoUncaughtException' /\ EachRequestOnce' /\ RightKeys'
    BY Frame DEF IInv, RetrievalAborts, reqVars, threadVars
<1> QED  BY <1>1, <1>2 DEF IInv

\* fromNdnSink keeps the invariant.
LEMMA fromNdnSinkStep ==
    ASSUME IInv, ~terminated, NEW f \in Fetch, fromNdnSink(f)
    PROVE  IInv'
<1>1. TypeOK'
    <2>1. fetch' \in [Fetch -> FetchRecord]
        BY PhaseChange DEF IInv, TypeOK, LivePhases, fromNdnSink
    <2> QED  BY <2>1 DEF IInv, fromNdnSink, reqVars, netVars, threadVars, TypeOK, ThreadOwnsJob, HeaderPcs
<1>2. ThreadOwnsJob'
    BY Sha1Assumption DEF IInv, fromNdnSink, reqVars, netVars,
       threadVars, ThreadOwnsJob, HeaderPcs, TypeOK
<1>3. EntriesAreLive'
    BY Sha1Assumption DEF IInv, fromNdnSink, reqVars, netVars,
       threadVars, EntriesAreLive, Live, LivePhases, TypeOK,
       ThreadOwnsJob, HeaderPcs, OneFetchPerKey
<1>4. OneFetchPerKey'
    BY Sha1Assumption DEF IInv, fromNdnSink, reqVars, netVars,
       threadVars, OneFetchPerKey, Live, LivePhases, TypeOK,
       EntriesAreLive, ThreadOwnsJob, HeaderPcs
<1>5. RightKeys'
    BY Sha1Assumption DEF IInv, fromNdnSink, reqVars, netVars,
       threadVars, RightKeys, RightResponse, TypeOK, ThreadOwnsJob,
       HeaderPcs, EachRequestOnce
<1>6. NoUncaughtException' /\ EachRequestOnce'
    BY Frame DEF IInv, fromNdnSink, reqVars, netVars, threadVars
<1> QED  BY <1>1, <1>2, <1>3, <1>4, <1>5, <1>6 DEF IInv

\* DiscardAborted keeps the invariant.
LEMMA DiscardAbortedStep ==
    ASSUME IInv, ~terminated, NEW t \in Thread, NEW r \in Request, DiscardAborted(t, r)
    PROVE  IInv'
<1>1. TypeOK'
    BY Sha1Assumption DEF IInv, DiscardAborted, netVars, threadVars,
       TypeOK, ThreadOwnsJob, HeaderPcs, LivePhases
<1>2. ThreadOwnsJob'
    BY Sha1Assumption DEF IInv, DiscardAborted, netVars, threadVars,
       ThreadOwnsJob, HeaderPcs, TypeOK
<1>3. EachRequestOnce'
    BY Sha1Assumption DEF IInv, DiscardAborted, netVars, threadVars,
       EachRequestOnce, OnlyOnce, InEntry, InSet, TypeOK, ThreadOwnsJob,
       HeaderPcs
<1>4. EntriesAreLive' /\ OneFetchPerKey' /\ NoUncaughtException' /\
       RightKeys'
    BY Frame DEF IInv, DiscardAborted, netVars, threadVars
<1> QED  BY <1>1, <1>2, <1>3, <1>4 DEF IInv

\* NameRequest keeps the invariant.
LEMMA NameRequestStep ==
    ASSUME IInv, ~terminated, NEW t \in Thread, NEW r \in Request, NameRequest(t, r)
    PROVE  IInv'
<1>1. TypeOK'
    BY Sha1Assumption DEF IInv, NameRequest, netVars, TypeOK,
       ThreadOwnsJob, HeaderPcs, LivePhases
<1>2. ThreadOwnsJob'
    BY Sha1Assumption DEF IInv, NameRequest, netVars, ThreadOwnsJob,
       HeaderPcs, TypeOK
<1>3. EachRequestOnce'
    BY Sha1Assumption DEF IInv, NameRequest, netVars, EachRequestOnce,
       OnlyOnce, InEntry, InSet, TypeOK, ThreadOwnsJob, HeaderPcs
<1>4. RightKeys'
    BY Sha1Assumption DEF IInv, NameRequest, netVars, RightKeys,
       RightResponse, TypeOK, ThreadOwnsJob, HeaderPcs, EachRequestOnce
<1>5. EntriesAreLive' /\ OneFetchPerKey' /\ NoUncaughtException'
    BY Frame DEF IInv, NameRequest, netVars
<1> QED  BY <1>1, <1>2, <1>3, <1>4, <1>5 DEF IInv

\* OpenEntry keeps the invariant.
LEMMA OpenEntryStep ==
    ASSUME IInv, ~terminated, NEW t \in Thread, OpenEntry(t)
    PROVE  IInv'
<1> DEFINE r == job[t]
           k == Sha1[r]
<1>1. /\ pc[t] = "lookup" /\ r \in Request /\ task[r] = "running"
      /\ k \in Key /\ k \notin DOMAIN pending
    BY Sha1Assumption DEF IInv, ThreadOwnsJob, OpenEntry, Known
<1>2. /\ pending' = [x \in DOMAIN pending \cup {k} |-> IF x = k THEN {r} ELSE pending[x]]
      /\ task' = [task EXCEPT ![r] = "pending"]
      /\ pc' = [pc EXCEPT ![t] = "forward"]
      /\ UNCHANGED <<request, netVars, complete, raw_data, set, delivered, terminated>>
    BY DEF OpenEntry
<1>3. PICK f \in Fetch :
        /\ fetch[f].phase = "unused"
        /\ fetch' = [fetch EXCEPT ![f] = [phase |-> "naming", key |-> k]]
        /\ job' = [job EXCEPT ![t] = f]
    BY DEF OpenEntry
<1>4. \A g \in Fetch : g # f => fetch'[g] = fetch[g]
    BY <1>3 DEF IInv, TypeOK
<1>5. fetch'[f].phase = "naming" /\ fetch'[f].key = k
    BY <1>3 DEF IInv, TypeOK
<1>6. /\ DOMAIN pending' = DOMAIN pending \cup {k}
      /\ pending'[k] = {r}
      /\ \A x \in DOMAIN pending : pending'[x] = pending[x]
    BY OpenMoves
<1> HIDE DEF r, k
<1>7. TypeOK'
    <2>1. fetch' \in [Fetch -> FetchRecord]
        BY <1>1, <1>3 DEF IInv, TypeOK, FetchRecord, LivePhases
    <2>2. /\ DOMAIN pending' \subseteq Key
          /\ pending' \in [DOMAIN pending' -> SUBSET Request]
        BY <1>1, <1>2 DEF IInv, TypeOK
    <2> QED  BY <2>1, <2>2, <1>1, <1>2, <1>3 DEF IInv, TypeOK, netVars
<1>8. ThreadOwnsJob'
    BY <1>1, <1>2, <1>3, <1>4, <1>5 DEF IInv, TypeOK, ThreadOwnsJob, HeaderPcs, r
<1>9. EntriesAreLive'
    BY <1>3, <1>4, <1>5, <1>6 DEF IInv, EntriesAreLive, Live, LivePhases
<1>10. OneFetchPerKey'
    BY <1>1, <1>4, <1>5 DEF IInv, EntriesAreLive, OneFetchPerKey, Live
<1>11. NoUncaughtException'
    BY <1>2 DEF IInv, NoUncaughtException
<1>12. EachRequestOnce'
    BY <1>2, OpenMoves DEF IInv, EachRequestOnce, OnlyOnce
<1>13. RightKeys'
    <2>1. \A u \in Thread : set[u] # {} => u # t /\ job[u] \in Fetch /\ job[u] # f
        BY <1>1, <1>3 DEF IInv, ThreadOwnsJob, HeaderPcs
    <2>2. \A q \in Request : \A i \in DOMAIN delivered[q] : delivered[q][i] # f
        BY <1>3 DEF IInv, RightKeys
    <2> QED  BY <2>1, <2>2, <1>2, <1>3, <1>4 DEF IInv, TypeOK, RightKeys, RightResponse
<1> QED  BY <1>7, <1>8, <1>9, <1>10, <1>11, <1>12, <1>13 DEF IInv

\* JoinEntry keeps the invariant.
LEMMA JoinEntryStep ==
    ASSUME IInv, ~terminated, NEW t \in Thread, JoinEntry(t)
    PROVE  IInv'
<1>1. TypeOK'
    BY Sha1Assumption DEF IInv, JoinEntry, netVars, Known, Inserted,
       TypeOK, ThreadOwnsJob, HeaderPcs, LivePhases
<1>2. ThreadOwnsJob'
    BY Sha1Assumption DEF IInv, JoinEntry, netVars, Known, Inserted,
       ThreadOwnsJob, HeaderPcs, TypeOK
<1>3. EntriesAreLive'
    BY Sha1Assumption DEF IInv, JoinEntry, netVars, Known, Inserted,
       EntriesAreLive, Live, LivePhases, TypeOK, ThreadOwnsJob,
       HeaderPcs, OneFetchPerKey
<1>4. EachRequestOnce'
    <2>1. UNCHANGED <<set, delivered>>
        BY DEF JoinEntry
    <2> QED  BY <2>1, JoinMoves DEF IInv, EachRequestOnce, OnlyOnce
<1>5. RightKeys'
    BY Sha1Assumption DEF IInv, JoinEntry, netVars, Known, Inserted,
       RightKeys, RightResponse, TypeOK, ThreadOwnsJob, HeaderPcs,
       EachRequestOnce
<1>6. OneFetchPerKey' /\ NoUncaughtException'
    BY Frame DEF IInv, JoinEntry, netVars
<1> QED  BY <1>1, <1>2, <1>3, <1>4, <1>5, <1>6 DEF IInv

\* fromNdnSource keeps the invariant.
LEMMA fromNdnSourceStep ==
    ASSUME IInv, ~terminated, NEW t \in Thread, fromNdnSource(t)
    PROVE  IInv'
<1>1. TypeOK'
    <2>1. job[t] \in Fetch
        BY DEF IInv, ThreadOwnsJob, HeaderPcs, fromNdnSource
    <2>2. fetch' \in [Fetch -> FetchRecord]
        BY <2>1, PhaseChange DEF IInv, TypeOK, LivePhases, fromNdnSource
    <2> QED  BY <2>1, <2>2 DEF IInv, fromNdnSource, reqVars, TypeOK, ThreadOwnsJob, HeaderPcs
<1>2. ThreadOwnsJob'
    BY Sha1Assumption DEF IInv, fromNdnSource, reqVars, ThreadOwnsJob,
       HeaderPcs, TypeOK
<1>3. EntriesAreLive'
    BY Sha1Assumption DEF IInv, fromNdnSource, reqVars, EntriesAreLive,
       Live, LivePhases, TypeOK, ThreadOwnsJob, HeaderPcs,
       OneFetchPerKey
<1>4. OneFetchPerKey'
    BY Sha1Assumption DEF IInv, fromNdnSource, reqVars, OneFetchPerKey,
       Live, LivePhases, TypeOK, EntriesAreLive, ThreadOwnsJob,
       HeaderPcs
<1>5. RightKeys'
    BY Sha1Assumption DEF IInv, fromNdnSource, reqVars, RightKeys,
       RightResponse, TypeOK, ThreadOwnsJob, HeaderPcs, EachRequestOnce
<1>6. NoUncaughtException' /\ EachRequestOnce'
    BY Frame DEF IInv, fromNdnSource, reqVars
<1> QED  BY <1>1, <1>2, <1>3, <1>4, <1>5, <1>6 DEF IInv

\* StartHeader keeps the invariant.
LEMMA StartHeaderStep ==
    ASSUME IInv, ~terminated, NEW t \in Thread, NEW f \in Fetch, StartHeader(t, f)
    PROVE  IInv'
<1>1. TypeOK'
    <2>1. fetch' \in [Fetch -> FetchRecord]
        BY PhaseChange DEF IInv, TypeOK, LivePhases, StartHeader
    <2> QED  BY <2>1 DEF IInv, StartHeader, reqVars, netVars, TypeOK, ThreadOwnsJob, HeaderPcs
<1>2. ThreadOwnsJob'
    BY Sha1Assumption DEF IInv, StartHeader, reqVars, netVars,
       ThreadOwnsJob, HeaderPcs, TypeOK
<1>3. EntriesAreLive'
    BY Sha1Assumption DEF IInv, StartHeader, reqVars, netVars,
       EntriesAreLive, Live, LivePhases, TypeOK, ThreadOwnsJob,
       HeaderPcs, OneFetchPerKey
<1>4. OneFetchPerKey'
    BY Sha1Assumption DEF IInv, StartHeader, reqVars, netVars,
       OneFetchPerKey, Live, LivePhases, TypeOK, EntriesAreLive,
       ThreadOwnsJob, HeaderPcs
<1>5. RightKeys'
    <2>1. \A g \in Fetch : fetch'[g].key = fetch[g].key
        BY DEF IInv, TypeOK, FetchRecord, StartHeader
    <2>2. \A u \in Thread : set[u] # {} => job'[u] = job[u] /\ job[u] \in Fetch
        BY DEF IInv, TypeOK, ThreadOwnsJob, HeaderPcs, StartHeader
    <2> QED  BY <2>1, <2>2 DEF IInv, StartHeader, reqVars, netVars, TypeOK, ThreadOwnsJob, HeaderPcs, RightKeys,
                RightResponse
<1>6. NoUncaughtException' /\ EachRequestOnce'
    BY Frame DEF IInv, StartHeader, reqVars, netVars
<1> QED  BY <1>1, <1>2, <1>3, <1>4, <1>5, <1>6 DEF IInv

\* CheckFlags keeps the invariant.
LEMMA CheckFlagsStep ==
    ASSUME IInv, ~terminated, NEW t \in Thread, CheckFlags(t)
    PROVE  IInv'
<1>1. TypeOK'
    <2>1. response[job[t]].completed \in BOOLEAN
        BY DEF IInv, ThreadOwnsJob, HeaderPcs, CheckFlags, TypeOK, ResponseRecord
    <2> QED  BY <2>1 DEF IInv, CheckFlags, reqVars, netVars, TypeOK, HeaderPcs
<1>2. ThreadOwnsJob'
    BY Sha1Assumption DEF IInv, CheckFlags, reqVars, netVars,
       ThreadOwnsJob, HeaderPcs, TypeOK
<1>3. EntriesAreLive' /\ OneFetchPerKey' /\ NoUncaughtException' /\
       EachRequestOnce' /\ RightKeys'
    BY Frame DEF IInv, CheckFlags, reqVars, netVars
<1> QED  BY <1>1, <1>2, <1>3 DEF IInv

\* ReadData keeps the invariant.
LEMMA ReadDataStep ==
    ASSUME IInv, ~terminated, NEW t \in Thread, ReadData(t)
    PROVE  IInv'
<1>1. TypeOK'
    <2>1. response[job[t]].header \in Header
        BY DEF IInv, ThreadOwnsJob, HeaderPcs, ReadData, TypeOK, ResponseRecord
    <2> QED  BY <2>1 DEF IInv, ReadData, reqVars, netVars, TypeOK, HeaderPcs
<1>2. ThreadOwnsJob'
    BY DEF IInv, ReadData, reqVars, netVars, ThreadOwnsJob, HeaderPcs, TypeOK
<1>3. EntriesAreLive' /\ OneFetchPerKey' /\ NoUncaughtException' /\
       EachRequestOnce' /\ RightKeys'
    BY Frame DEF IInv, ReadData, reqVars, netVars
<1> QED  BY <1>1, <1>2, <1>3 DEF IInv

\* ParseHeader keeps the invariant.
LEMMA ParseHeaderStep ==
    ASSUME IInv, ~terminated, NEW t \in Thread, ParseHeader(t)
    PROVE  IInv'
<1>1. TypeOK'
    <2>1. job[t] \in Fetch
        BY DEF IInv, ThreadOwnsJob, HeaderPcs, ParseHeader
    <2>2. /\ [response EXCEPT ![job[t]].parsed = TRUE] \in [Fetch -> ResponseRecord]
          /\ [response EXCEPT ![job[t]].aborted = TRUE] \in [Fetch -> ResponseRecord]
        BY <2>1 DEF IInv, TypeOK, ResponseRecord
    <2>3. response' \in [Fetch -> ResponseRecord]
        BY <2>2 DEF ParseHeader
    <2> QED  BY <2>3 DEF IInv, ParseHeader, reqVars, TypeOK, HeaderPcs
<1>2. ThreadOwnsJob'
    BY Sha1Assumption DEF IInv, ParseHeader, reqVars, ThreadOwnsJob,
       HeaderPcs, TypeOK
<1>3. EntriesAreLive' /\ OneFetchPerKey' /\ NoUncaughtException' /\
       EachRequestOnce' /\ RightKeys'
    BY Frame DEF IInv, ParseHeader, reqVars
<1> QED  BY <1>1, <1>2, <1>3 DEF IInv

\* RetryHeader keeps the invariant.
LEMMA RetryHeaderStep ==
    ASSUME IInv, ~terminated, NEW t \in Thread, RetryHeader(t)
    PROVE  IInv'
<1>1. TypeOK'
    <2>1. job[t] \in Fetch
        BY DEF IInv, ThreadOwnsJob, HeaderPcs, RetryHeader
    <2>2. fetch' \in [Fetch -> FetchRecord]
        BY <2>1, PhaseChange DEF IInv, TypeOK, LivePhases, RetryHeader
    <2> QED  BY <2>1, <2>2 DEF IInv, RetryHeader, reqVars, netVars, TypeOK, ThreadOwnsJob, HeaderPcs
<1>2. ThreadOwnsJob'
    BY Sha1Assumption DEF IInv, RetryHeader, reqVars, netVars,
       ThreadOwnsJob, HeaderPcs, TypeOK
<1>3. EntriesAreLive'
    BY Sha1Assumption DEF IInv, RetryHeader, reqVars, netVars,
       EntriesAreLive, Live, LivePhases, TypeOK, ThreadOwnsJob,
       HeaderPcs, OneFetchPerKey
<1>4. OneFetchPerKey'
    BY Sha1Assumption DEF IInv, RetryHeader, reqVars, netVars,
       OneFetchPerKey, Live, LivePhases, TypeOK, EntriesAreLive,
       ThreadOwnsJob, HeaderPcs
<1>5. RightKeys'
    <2>1. \A g \in Fetch : fetch'[g].key = fetch[g].key
        BY DEF IInv, TypeOK, FetchRecord, RetryHeader
    <2>2. \A u \in Thread : set[u] # {} => job'[u] = job[u] /\ job[u] \in Fetch
        BY DEF IInv, TypeOK, ThreadOwnsJob, HeaderPcs, RetryHeader
    <2> QED  BY <2>1, <2>2 DEF IInv, RetryHeader, reqVars, netVars, TypeOK, ThreadOwnsJob, HeaderPcs, RightKeys,
                RightResponse
<1>6. NoUncaughtException' /\ EachRequestOnce'
    BY Frame DEF IInv, RetryHeader, reqVars, netVars
<1> QED  BY <1>1, <1>2, <1>3, <1>4, <1>5, <1>6 DEF IInv

\* GiveUpOnHeader keeps the invariant.
LEMMA GiveUpOnHeaderStep ==
    ASSUME IInv, ~terminated, NEW t \in Thread, GiveUpOnHeader(t)
    PROVE  IInv'
<1>1. TypeOK'
    BY Sha1Assumption DEF IInv, GiveUpOnHeader, reqVars, netVars,
       TypeOK, ThreadOwnsJob, HeaderPcs, LivePhases
<1>2. ThreadOwnsJob'
    BY Sha1Assumption DEF IInv, GiveUpOnHeader, reqVars, netVars,
       ThreadOwnsJob, HeaderPcs, TypeOK
<1>3. EntriesAreLive' /\ OneFetchPerKey' /\ NoUncaughtException' /\
       EachRequestOnce' /\ RightKeys'
    BY Frame DEF IInv, GiveUpOnHeader, reqVars, netVars
<1> QED  BY <1>1, <1>2, <1>3 DEF IInv

\* CollectWaiting keeps the invariant.
LEMMA CollectWaitingStep ==
    ASSUME IInv, ~terminated, NEW t \in Thread, CollectWaiting(t)
    PROVE  IInv'
<1>1. TypeOK'
    <2>1. job[t] \in Fetch
        BY DEF IInv, ThreadOwnsJob, HeaderPcs, CollectWaiting
    <2>2. fetch' \in [Fetch -> FetchRecord]
        BY <2>1, PhaseChange DEF IInv, TypeOK, LivePhases, CollectWaiting
    <2> QED  BY <2>1, <2>2 DEF IInv, CollectWaiting, reqVars, netVars, WaitingAt, Erased, TypeOK, ThreadOwnsJob, HeaderPcs
<1>2. ThreadOwnsJob'
    BY Sha1Assumption DEF IInv, CollectWaiting, reqVars, netVars,
       WaitingAt, Erased, ThreadOwnsJob, HeaderPcs, TypeOK
<1>3. EntriesAreLive'
    BY Sha1Assumption DEF IInv, CollectWaiting, reqVars, netVars,
       WaitingAt, Erased, EntriesAreLive, Live, LivePhases, TypeOK,
       ThreadOwnsJob, HeaderPcs, OneFetchPerKey
<1>4. OneFetchPerKey'
    BY Sha1Assumption DEF IInv, CollectWaiting, reqVars, netVars,
       WaitingAt, Erased, OneFetchPerKey, Live, LivePhases, TypeOK,
       EntriesAreLive, ThreadOwnsJob, HeaderPcs
<1>5. EachRequestOnce'
    <2> DEFINE k == fetch[job[t]].key
    <2>1. /\ DOMAIN pending' = DOMAIN pending \ {k}
          /\ \A x \in DOMAIN pending \ {k} : pending'[x] = pending[x]
          /\ \A u \in Thread : set'[u] = IF u = t THEN pending[k] ELSE set[u]
          /\ \A q \in Request : q \in pending[k] => InEntry(q)
          /\ \A q \in Request : InEntry(q)' <=> (InEntry(q) /\ q \notin pending[k])
          /\ \A q \in Request : InSet(q)' <=> (InSet(q) \/ q \in pending[k])
          /\ UNCHANGED <<task, delivered>>
        BY CollectMoves
    <2> HIDE DEF k
    <2>2. ASSUME NEW q \in Request
          PROVE  \A u, v \in Thread : q \in set'[u] /\ q \in set'[v] => u = v
        BY <2>1 DEF IInv, EachRequestOnce, OnlyOnce, InSet
    <2> QED  BY <2>1, <2>2 DEF IInv, EachRequestOnce, OnlyOnce
<1>6. RightKeys'
    <2> DEFINE k == fetch[job[t]].key
    <2>1. /\ pc[t] = "collect" /\ job[t] \in Fetch /\ k \in DOMAIN pending
          /\ set' = [set EXCEPT ![t] = pending[k]]
          /\ UNCHANGED <<job, delivered>>
        BY DEF IInv, ThreadOwnsJob, HeaderPcs, CollectWaiting, WaitingAt
    <2>2. \A g \in Fetch : fetch'[g].key = fetch[g].key
        BY DEF IInv, TypeOK, FetchRecord, CollectWaiting
    <2>3. \A q \in pending[k] : Sha1[q] = k
        BY <2>1 DEF IInv, TypeOK, EachRequestOnce, OnlyOnce
    <2>4. \A u \in Thread : \A q \in set'[u] : fetch'[job'[u]].key = Sha1[q]
        <3>1. \A q \in set'[t] : fetch'[job'[t]].key = Sha1[q]
            BY <2>1, <2>2, <2>3 DEF IInv, TypeOK
        <3>2. ASSUME NEW u \in Thread, u # t, NEW q \in set[u]
              PROVE  fetch'[job'[u]].key = Sha1[q]
            BY <3>2, <2>1, <2>2 DEF IInv, TypeOK, ThreadOwnsJob, HeaderPcs, RightKeys
        <3> QED  BY <3>1, <3>2, <2>1 DEF IInv, TypeOK
    <2>5. \A q \in Request : \A i \in DOMAIN delivered[q] :
            /\ fetch'[delivered[q][i]].phase = "collected"
            /\ fetch'[delivered[q][i]].key = Sha1[q]
        BY <2>2 DEF IInv, TypeOK, RightKeys, RightResponse, CollectWaiting, FetchRecord
    <2> QED  BY <2>1, <2>4, <2>5 DEF RightKeys, RightResponse
<1>7. NoUncaughtException'
    BY Frame DEF IInv, CollectWaiting, reqVars, netVars
<1> QED  BY <1>1, <1>2, <1>3, <1>4, <1>5, <1>6, <1>7 DEF IInv

\* CollectThrows keeps the invariant.
LEMMA CollectThrowsStep ==
    ASSUME IInv, ~terminated, NEW t \in Thread, CollectThrows(t)
    PROVE  IInv'
<1>1. TypeOK'
    BY Sha1Assumption DEF IInv, CollectThrows, reqVars, netVars,
       threadVars, TypeOK, ThreadOwnsJob, HeaderPcs, LivePhases
<1>2. NoUncaughtException'
    BY Sha1Assumption DEF IInv, CollectThrows, reqVars, netVars,
       threadVars, NoUncaughtException, TypeOK, ThreadOwnsJob,
       EntriesAreLive, Live, LivePhases, HeaderPcs
<1>3. ThreadOwnsJob' /\ EntriesAreLive' /\ OneFetchPerKey' /\
       EachRequestOnce' /\ RightKeys'
    BY Frame DEF IInv, CollectThrows, reqVars, netVars, threadVars
<1> QED  BY <1>1, <1>2, <1>3 DEF IInv

\* fromHttpSink keeps the invariant.
LEMMA fromHttpSinkStep ==
    ASSUME IInv, ~terminated, NEW t \in Thread, fromHttpSink(t)
    PROVE  IInv'
<1>1. TypeOK'
    BY Sha1Assumption DEF IInv, fromHttpSink, reqVars, netVars, TypeOK,
       ThreadOwnsJob, HeaderPcs, LivePhases
<1>2. ThreadOwnsJob'
    BY Sha1Assumption DEF IInv, fromHttpSink, reqVars, netVars,
       ThreadOwnsJob, HeaderPcs, TypeOK
<1>3. EachRequestOnce'
    <2>1. PICK r \in Request :
            /\ r \in set[t] /\ InSet(r) /\ ~InEntry(r) /\ delivered[r] = <<>>
            /\ delivered'[r] = <<job[t]>> /\ Len(delivered'[r]) = 1
            /\ \A q \in Request : q # r => delivered'[q] = delivered[q]
            /\ \A u \in Thread : set'[u] = IF u = t THEN set[t] \ {r} ELSE set[u]
            /\ \A q \in Request : InSet(q)' <=> (InSet(q) /\ q # r)
            /\ \A q \in Request : InEntry(q)' <=> InEntry(q)
            /\ UNCHANGED <<task, pending>>
        BY DeliverMoves
    <2>2. OnlyOnce(r)'
        BY <2>1 DEF IInv, EachRequestOnce, OnlyOnce, InSet
    <2>3. ASSUME NEW q \in Request, q # r
          PROVE  OnlyOnce(q)'
        BY <2>1, <2>3 DEF IInv, EachRequestOnce, OnlyOnce
    <2> QED  BY <2>2, <2>3 DEF EachRequestOnce
<1>4. RightKeys'
    BY Sha1Assumption DEF IInv, fromHttpSink, reqVars, netVars,
       RightKeys, RightResponse, TypeOK, ThreadOwnsJob, HeaderPcs,
       EachRequestOnce
<1>5. EntriesAreLive' /\ OneFetchPerKey' /\ NoUncaughtException'
    BY Frame DEF IInv, fromHttpSink, reqVars, netVars
<1> QED  BY <1>1, <1>2, <1>3, <1>4, <1>5 DEF IInv

\* EndDelivery keeps the invariant.
LEMMA EndDeliveryStep ==
    ASSUME IInv, ~terminated, NEW t \in Thread, EndDelivery(t)
    PROVE  IInv'
<1>1. TypeOK'
    BY Sha1Assumption DEF IInv, EndDelivery, reqVars, netVars, TypeOK,
       ThreadOwnsJob, HeaderPcs, LivePhases
<1>2. ThreadOwnsJob'
    BY Sha1Assumption DEF IInv, EndDelivery, reqVars, netVars,
       ThreadOwnsJob, HeaderPcs, TypeOK
<1>3. RightKeys'
    BY Sha1Assumption DEF IInv, EndDelivery, reqVars, netVars,
       RightKeys, RightResponse, TypeOK, ThreadOwnsJob, HeaderPcs,
       EachRequestOnce
<1>4. EntriesAreLive' /\ OneFetchPerKey' /\ NoUncaughtException' /\
       EachRequestOnce'
    BY Frame DEF IInv, EndDelivery, reqVars, netVars
<1> QED  BY <1>1, <1>2, <1>3, <1>4 DEF IInv

---------------------------------------------------------------------------
\* The invariant holds initially.
LEMMA InitIInv == Init => IInv
<1> SUFFICES ASSUME Init PROVE IInv
    OBVIOUS
<1>1. TypeOK
    <2>1. fetch \in [Fetch -> FetchRecord] /\ response \in [Fetch -> ResponseRecord]
        BY DEF Init, FetchRecord, ResponseRecord, Header
    <2>2. DOMAIN pending = {} /\ delivered \in [Request -> Seq(Fetch)]
        BY DEF Init
    <2> QED  BY <2>1, <2>2 DEF Init, TypeOK, Header
<1>2. ThreadOwnsJob /\ EntriesAreLive /\ OneFetchPerKey /\ NoUncaughtException
    BY DEF Init, ThreadOwnsJob, HeaderPcs, EntriesAreLive, OneFetchPerKey, Live, LivePhases,
           NoUncaughtException
<1>3. EachRequestOnce
    BY DEF Init, EachRequestOnce, OnlyOnce, InEntry, InSet
<1>4. RightKeys
    BY DEF Init, RightKeys, RightResponse
<1> QED  BY <1>1, <1>2, <1>3, <1>4 DEF IInv

\* Every step keeps the invariant.
LEMMA NextIInv == IInv /\ [Next]_vars => IInv'
<1> SUFFICES ASSUME IInv, [Next]_vars PROVE IInv'
    OBVIOUS
<1>1. ASSUME UNCHANGED vars PROVE IInv'
    <2>1. TypeOK'
        BY <1>1 DEF IInv, TypeOK, vars
    <2> QED  BY <1>1, <2>1, Frame DEF IInv, vars
<1>2. ASSUME ~terminated, NEW r \in Request, Server(r) PROVE IInv'
    BY <1>2, fromHttpSourceStep, BodyArrivesStep, RequestAbortsStep DEF Server
<1>3. ASSUME ~terminated, NEW f \in Fetch, Network(f) PROVE IInv'
    BY <1>3, HeaderArrivesStep, RetrievalCompletesStep, RetrievalAbortsStep, fromNdnSinkStep
       DEF Network
<1>4. ASSUME ~terminated, NEW t \in Thread, StartTask(t) PROVE IInv'
    BY <1>4, <1>1, DiscardAbortedStep, NameRequestStep, StartHeaderStep
       DEF StartTask, WaitForBody
<1>5. ASSUME ~terminated, NEW t \in Thread, ContinueTask(t) PROVE IInv'
    BY <1>5, OpenEntryStep, JoinEntryStep, fromNdnSourceStep, CheckFlagsStep, ReadDataStep,
       ParseHeaderStep, RetryHeaderStep, GiveUpOnHeaderStep, CollectWaitingStep, CollectThrowsStep,
       fromHttpSinkStep, EndDeliveryStep DEF ContinueTask, Collect
<1> QED  BY <1>1, <1>2, <1>3, <1>4, <1>5 DEF Next, AllServed

\* IInv holds in every reachable state: the five properties that are among its
\* parts follow from it.
THEOREM Invariance == Spec => []IInv
    BY InitIInv, NextIInv, PTL DEF Spec

\* Every variable keeps its type, however many requests, fetches and threads.
THEOREM TypeCorrect == Spec => []TypeOK
<1>1. IInv => TypeOK
    BY DEF IInv
<1> QED  BY <1>1, Invariance, PTL

\* _pending_requests.at(sha1) never throws: the key whose answer a thread
\* processes is in the map, whatever the other threads do.
THEOREM NeverThrows == Spec => []NoUncaughtException
<1>1. IInv => NoUncaughtException
    BY DEF IInv
<1> QED  BY <1>1, Invariance, PTL

\* A key of _pending_requests has a single fetch at any time.
THEOREM Mandatory == Spec => []OneFetchPerKey
<1>1. IInv => OneFetchPerKey
    BY DEF IInv
<1> QED  BY <1>1, Invariance, PTL

\* No request is lost or answered twice on its way from computeNames through
\* the map and the local set to fromHttpSink.
THEOREM NoRequestLost == Spec => []EachRequestOnce
<1>1. IInv => EachRequestOnce
    BY DEF IInv
<1> QED  BY <1>1, Invariance, PTL

\* A request only receives the response of a fetch for its own digest.
THEOREM NoForeignResponse == Spec => []RightResponse
<1>1. IInv => RightResponse
    BY DEF IInv, RightKeys
<1> QED  BY <1>1, Invariance, PTL

---------------------------------------------------------------------------
(***************************************************************************)
(* Why the completion flag is read before the data.  Once the flag is set  *)
(* the consumer appends nothing more, so when a copy of the stream made    *)
(* after the flag was seen set holds no header, there is none for good.    *)
(***************************************************************************)
Settled(f) ==
    \/ response[f].parsed \/ response[f].aborted
    \/ response[f].completed /\ response[f].header = "absent"

HeaderInv ==
    /\ \A f \in Fetch : response[f].completed => ~retrieving[f]
    /\ \A f \in Fetch : fetch[f].phase \in {"unused", "naming"} =>
                           ~retrieving[f] /\ ~response[f].completed
    /\ \A t \in Thread :
         /\ pc[t] \in {"read", "find"} /\ complete[t] => response[job[t]].completed
         /\ pc[t] = "find" /\ complete[t] /\ raw_data[t] = "absent" =>
                response[job[t]].header = "absent"
    /\ \A t \in Thread : pc[t] \in {"collect", "deliver"} => Settled(job[t])
    /\ \A r \in Request : \A i \in DOMAIN delivered[r] : Settled(delivered[r][i])

\* Nothing is retrieved initially.
LEMMA HeaderInvInit == Init => HeaderInv
    BY DEF Init, HeaderInv

\* HeaderInv is kept by a step that leaves its variables alone.
LEMMA HeaderFrame ==
    ASSUME HeaderInv, UNCHANGED <<fetch, response, retrieving, pc, job, complete, raw_data, delivered>>
    PROVE  HeaderInv'
    BY DEF HeaderInv, Settled

\* Every step keeps HeaderInv.
LEMMA HeaderInvNext == IInv /\ HeaderInv /\ [Next]_vars => HeaderInv'
<1> SUFFICES ASSUME IInv, HeaderInv, [Next]_vars PROVE HeaderInv'
    OBVIOUS
<1>1. ASSUME NEW f \in Fetch, HeaderArrives(f) PROVE HeaderInv'
    BY <1>1 DEF IInv, TypeOK, FetchRecord, ResponseRecord, Live, LivePhases,
           ThreadOwnsJob, HeaderPcs, RightKeys, HeaderInv, Settled,
           HeaderArrives, reqVars, threadVars
<1>2. ASSUME NEW f \in Fetch, RetrievalCompletes(f) PROVE HeaderInv'
    BY <1>2 DEF IInv, TypeOK, FetchRecord, ResponseRecord, Live, LivePhases,
           ThreadOwnsJob, HeaderPcs, RightKeys, HeaderInv, Settled,
           RetrievalCompletes, reqVars, threadVars
<1>3. ASSUME NEW f \in Fetch, RetrievalAborts(f) PROVE HeaderInv'
    BY <1>3 DEF IInv, TypeOK, FetchRecord, ResponseRecord, Live, LivePhases,
           ThreadOwnsJob, HeaderPcs, RightKeys, HeaderInv, Settled,
           RetrievalAborts, reqVars, threadVars
<1>4. ASSUME NEW f \in Fetch, fromNdnSink(f) PROVE HeaderInv'
    BY <1>4 DEF IInv, TypeOK, FetchRecord, ResponseRecord, Live, LivePhases,
           ThreadOwnsJob, HeaderPcs, RightKeys, HeaderInv, Settled, fromNdnSink,
           reqVars, netVars, threadVars
<1>5. ASSUME NEW t \in Thread, NEW r \in Request, NameRequest(t, r) PROVE HeaderInv'
    BY <1>5 DEF IInv, TypeOK, FetchRecord, ResponseRecord, Live, LivePhases,
           ThreadOwnsJob, HeaderPcs, RightKeys, HeaderInv, Settled, NameRequest,
           netVars
<1>6. ASSUME NEW t \in Thread, OpenEntry(t) PROVE HeaderInv'
    BY <1>6 DEF IInv, TypeOK, FetchRecord, ResponseRecord, Live, LivePhases,
           ThreadOwnsJob, HeaderPcs, RightKeys, HeaderInv, Settled, OpenEntry,
           netVars, Known
<1>7. ASSUME NEW t \in Thread, JoinEntry(t) PROVE HeaderInv'
    BY <1>7 DEF IInv, TypeOK, FetchRecord, ResponseRecord, Live, LivePhases,
           ThreadOwnsJob, HeaderPcs, RightKeys, HeaderInv, Settled, JoinEntry,
           netVars
<1>8. ASSUME NEW t \in Thread, fromNdnSource(t) PROVE HeaderInv'
    BY <1>8 DEF IInv, TypeOK, FetchRecord, ResponseRecord, Live, LivePhases,
           ThreadOwnsJob, HeaderPcs, RightKeys, HeaderInv, Settled,
           fromNdnSource, reqVars
<1>9. ASSUME NEW t \in Thread, NEW f \in Fetch, StartHeader(t, f) PROVE HeaderInv'
    BY <1>9 DEF IInv, TypeOK, FetchRecord, ResponseRecord, Live, LivePhases,
           ThreadOwnsJob, HeaderPcs, RightKeys, HeaderInv, Settled, StartHeader,
           reqVars, netVars
<1>10. ASSUME NEW t \in Thread, CheckFlags(t) PROVE HeaderInv'
    BY <1>10 DEF IInv, TypeOK, FetchRecord, ResponseRecord, Live, LivePhases,
           ThreadOwnsJob, HeaderPcs, RightKeys, HeaderInv, Settled, CheckFlags,
           reqVars, netVars
<1>11. ASSUME NEW t \in Thread, ParseHeader(t) PROVE HeaderInv'
    <2>1. job[t] \in Fetch /\ fetch[job[t]].phase = "running"
        BY <1>11 DEF IInv, ThreadOwnsJob, HeaderPcs, ParseHeader
    <2>2. /\ pc' = [pc EXCEPT ![t] = "collect"]
          /\ UNCHANGED <<fetch, retrieving, job, complete, raw_data, delivered>>
        BY <1>11 DEF ParseHeader
    <2>3. CASE response' = [response EXCEPT ![job[t]].parsed = TRUE]
        BY <2>1, <2>2, <2>3 DEF IInv, TypeOK, ResponseRecord, ThreadOwnsJob, HeaderPcs,
                                HeaderInv, Settled
    <2>4. CASE response' = [response EXCEPT ![job[t]].aborted = TRUE]
        BY <2>1, <2>2, <2>4 DEF IInv, TypeOK, ResponseRecord, ThreadOwnsJob, HeaderPcs,
                                HeaderInv, Settled
    <2> QED  BY <1>11, <2>3, <2>4 DEF ParseHeader
<1>12. ASSUME NEW t \in Thread, RetryHeader(t) PROVE HeaderInv'
    BY <1>12 DEF IInv, TypeOK, FetchRecord, ResponseRecord, Live, LivePhases,
           ThreadOwnsJob, HeaderPcs, RightKeys, HeaderInv, Settled, RetryHeader,
           reqVars, netVars
<1>13. ASSUME NEW t \in Thread, GiveUpOnHeader(t) PROVE HeaderInv'
    BY <1>13 DEF IInv, TypeOK, FetchRecord, ResponseRecord, Live, LivePhases,
           ThreadOwnsJob, HeaderPcs, RightKeys, HeaderInv, Settled,
           GiveUpOnHeader, reqVars, netVars, SeenComplete
<1>14. ASSUME NEW t \in Thread, CollectWaiting(t) PROVE HeaderInv'
    BY <1>14 DEF IInv, TypeOK, FetchRecord, ResponseRecord, Live, LivePhases,
           ThreadOwnsJob, HeaderPcs, RightKeys, HeaderInv, Settled,
           CollectWaiting, reqVars, netVars
<1>15. ASSUME NEW t \in Thread, fromHttpSink(t) PROVE HeaderInv'
    BY <1>15 DEF IInv, TypeOK, FetchRecord, ResponseRecord, Live, LivePhases,
           ThreadOwnsJob, HeaderPcs, RightKeys, HeaderInv, Settled,
           fromHttpSink, reqVars, netVars
<1>16. ASSUME NEW t \in Thread, EndDelivery(t) PROVE HeaderInv'
    BY <1>16 DEF IInv, TypeOK, FetchRecord, ResponseRecord, Live, LivePhases,
           ThreadOwnsJob, HeaderPcs, RightKeys, HeaderInv, Settled, EndDelivery,
           reqVars, netVars
<1>17. ASSUME NEW r \in Request, Server(r) PROVE HeaderInv'
    BY <1>17, HeaderFrame
       DEF Server, fromHttpSource, BodyArrives, RequestAborts, netVars, threadVars
<1>18. ASSUME NEW t \in Thread, NEW r \in Request, DiscardAborted(t, r) PROVE HeaderInv'
    BY <1>18, HeaderFrame DEF DiscardAborted, netVars, threadVars
<1>19. ASSUME NEW t \in Thread, CollectThrows(t) PROVE HeaderInv'
    BY <1>19, HeaderFrame DEF CollectThrows, netVars, threadVars
<1>20. ASSUME NEW t \in Thread, ReadData(t) PROVE HeaderInv'
    BY <1>20 DEF IInv, TypeOK, FetchRecord, ResponseRecord, Live, LivePhases,
           ThreadOwnsJob, HeaderPcs, RightKeys, HeaderInv, Settled, ReadData,
           reqVars, netVars
<1>21. ASSUME UNCHANGED vars PROVE HeaderInv'
    BY <1>21, HeaderFrame DEF vars
<1> QED  BY <1>1, <1>2, <1>3, <1>4, <1>5, <1>6, <1>7, <1>8, <1>9, <1>10, <1>11,
         <1>12, <1>13, <1>14, <1>15, <1>16, <1>17, <1>18, <1>19, <1>20, <1>21 DEF Next,
         Server, Network, StartTask, ContinueTask, Collect, WaitForBody, AllServed

\* A response handed out unparsed, and not aborted, had no header when its
\* stream ended: a header that arrives together with the end is never missed.
THEOREM HeaderNeverMissed == Spec => []UnparsedOnlyIfHeaderless
<1>2. Spec => [](IInv /\ HeaderInv)
    BY HeaderInvInit, InitIInv, NextIInv, HeaderInvNext, PTL DEF Spec
<1>3. HeaderInv => UnparsedOnlyIfHeaderless
    BY DEF HeaderInv, Settled, UnparsedOnlyIfHeaderless
<1> QED  BY <1>2, <1>3, PTL

---------------------------------------------------------------------------
(***************************************************************************)
(* What the modules around this one rely on: a fetch whose waiting         *)
(* requests were collected is over, and an entry always has somebody       *)
(* waiting in it.                                                          *)
(***************************************************************************)
\* No step takes up a collected fetch again.
LEMMA CollectedKept ==
    ASSUME IInv, [Next]_vars, NEW f \in Fetch, fetch[f].phase = "collected"
    PROVE  fetch'[f] = fetch[f]
<1>1. fetch \in [Fetch -> FetchRecord]
    BY DEF IInv, TypeOK
<1>2. ASSUME NEW g \in Fetch, fetch[g].phase # "collected",
             NEW r, fetch' = [fetch EXCEPT ![g] = r]
      PROVE  fetch'[f] = fetch[f]
    BY <1>1, <1>2
<1>3. ASSUME NEW g \in Fetch, fetch[g].phase # "collected",
             NEW p, fetch' = [fetch EXCEPT ![g].phase = p]
      PROVE  fetch'[f] = fetch[f]
    BY <1>1, <1>3
<1>4. ASSUME NEW r \in Request, Server(r) PROVE fetch' = fetch
    BY <1>4 DEF Server, fromHttpSource, BodyArrives, RequestAborts
<1>5. ASSUME NEW g \in Fetch, Network(g) PROVE fetch'[f] = fetch[f]
    BY <1>3, <1>5
       DEF Network, HeaderArrives, RetrievalCompletes, RetrievalAborts, fromNdnSink
<1>6. ASSUME NEW t \in Thread, StartTask(t) PROVE fetch'[f] = fetch[f]
    BY <1>3, <1>6 DEF StartTask, DiscardAborted, WaitForBody, NameRequest, StartHeader, vars
<1>7. ASSUME NEW t \in Thread, ContinueTask(t) PROVE fetch'[f] = fetch[f]
    <2>1. CASE OpenEntry(t)
        BY <1>2, <2>1 DEF OpenEntry
    <2>2. CASE fromNdnSource(t)
        <3>1. job[t] \in Fetch /\ fetch[job[t]].phase = "naming"
            BY <2>2 DEF fromNdnSource, IInv, ThreadOwnsJob
        <3> QED  BY <1>3, <2>2, <3>1 DEF fromNdnSource
    <2>3. CASE RetryHeader(t) \/ CollectWaiting(t)
        <3>1. job[t] \in Fetch /\ fetch[job[t]].phase = "running"
            BY <2>3 DEF RetryHeader, CollectWaiting, IInv, ThreadOwnsJob, HeaderPcs
        <3> QED  BY <1>3, <2>3, <3>1 DEF RetryHeader, CollectWaiting
    <2>4. CASE \/ JoinEntry(t) \/ CheckFlags(t) \/ ReadData(t) \/ ParseHeader(t)
               \/ GiveUpOnHeader(t) \/ CollectThrows(t) \/ fromHttpSink(t) \/ EndDelivery(t)
        BY <2>4 DEF JoinEntry, CheckFlags, ReadData, ParseHeader, GiveUpOnHeader, CollectThrows,
                    fromHttpSink, EndDelivery
    <2> QED  BY <1>7, <2>1, <2>2, <2>3, <2>4 DEF ContinueTask, Collect
<1> QED  BY <1>4, <1>5, <1>6, <1>7 DEF Next, AllServed, vars

\* The steps that leave _pending_requests alone, and those that change it.
LEMMA PendingChanges ==
    ASSUME [Next]_vars
    PROVE  \/ pending' = pending
           \/ \E t \in Thread : OpenEntry(t) \/ JoinEntry(t) \/ CollectWaiting(t)
<1>1. ASSUME NEW r \in Request, Server(r) PROVE pending' = pending
    BY <1>1 DEF Server, fromHttpSource, BodyArrives, RequestAborts
<1>2. ASSUME NEW f \in Fetch, Network(f) PROVE pending' = pending
    BY <1>2 DEF Network, HeaderArrives, RetrievalCompletes, RetrievalAborts, fromNdnSink
<1>3. ASSUME NEW t \in Thread, StartTask(t) PROVE pending' = pending
    BY <1>3 DEF StartTask, DiscardAborted, WaitForBody, NameRequest, StartHeader, vars
<1>4. ASSUME NEW t \in Thread, ContinueTask(t)
      PROVE  pending' = pending \/ OpenEntry(t) \/ JoinEntry(t) \/ CollectWaiting(t)
    BY <1>4 DEF ContinueTask, Collect, fromNdnSource, CheckFlags, ReadData, ParseHeader,
       RetryHeader, GiveUpOnHeader, CollectThrows, fromHttpSink, EndDelivery
<1> QED  BY <1>1, <1>2, <1>3, <1>4 DEF Next, AllServed, vars

EntriesUsed == \A k \in DOMAIN pending : pending[k] # {}

LEMMA EntriesUsedInit == Init => EntriesUsed
    BY DEF Init, EntriesUsed

LEMMA EntriesUsedNext ==
    ASSUME IInv, EntriesUsed, [Next]_vars
    PROVE  EntriesUsed'
<1>1. ASSUME NEW t \in Thread, OpenEntry(t) PROVE EntriesUsed'
    <2>1. PICK k \in Key : /\ DOMAIN pending' = DOMAIN pending \cup {k}
                           /\ pending'[k] = {job[t]}
                           /\ \A x \in DOMAIN pending : pending'[x] = pending[x]
        BY <1>1, OpenMoves, Zenon
    <2> QED  BY <2>1 DEF EntriesUsed
<1>2. ASSUME NEW t \in Thread, JoinEntry(t) PROVE EntriesUsed'
    BY <1>2, JoinMoves DEF EntriesUsed
<1>3. ASSUME NEW t \in Thread, CollectWaiting(t) PROVE EntriesUsed'
    BY <1>3, CollectMoves DEF EntriesUsed
<1> QED  BY <1>1, <1>2, <1>3, PendingChanges DEF EntriesUsed

\* A request that was taken out of its entry has been given the response, or a thread
\* is about to give it.
Due(r, f) ==
    \/ \E i \in DOMAIN delivered[r] : delivered[r][i] = f
    \/ \E t \in Thread : pc[t] = "deliver" /\ job[t] = f /\ r \in set[t]

\* The requests of an entry that is taken out are due the response.
LEMMA CollectedDue ==
    ASSUME IInv, NEW t \in Thread, CollectWaiting(t), NEW f, f = job[t],
           NEW r \in pending[fetch[f].key]
    PROVE  Due(r, f)'
<1>1. pc'[t] = "deliver" /\ job'[t] = job[t]
    BY DEF IInv, TypeOK, CollectWaiting
<1>2. r \in set'[t]
    BY CollectMoves
<1> QED  BY <1>1, <1>2 DEF Due

\* No step forgets a request that is due a response.
LEMMA DueKept ==
    ASSUME IInv, [Next]_vars, NEW r \in Request, NEW f \in Fetch, Due(r, f)
    PROVE  Due(r, f)'
<1>1. CASE /\ delivered' = delivered
           /\ \A t \in Thread : pc[t] = "deliver" =>
                 pc'[t] = "deliver" /\ job'[t] = job[t] /\ set'[t] = set[t]
    BY <1>1 DEF Due
<1>2. ASSUME NEW t \in Thread, fromHttpSink(t) PROVE Due(r, f)'
    <2>1. pc[t] = "deliver" /\ UNCHANGED <<pc, job>>
        BY <1>2 DEF fromHttpSink
    <2>2. PICK q \in Request :
            /\ delivered[q] = <<>> /\ delivered'[q] = <<job[t]>>
            /\ \A p \in Request : p # q => delivered'[p] = delivered[p]
            /\ \A u \in Thread : set'[u] = IF u = t THEN set[t] \ {q} ELSE set[u]
            /\ \A p \in Request : InSet(p)' <=> (InSet(p) /\ p # q)
        BY <1>2, DeliverMoves
    <2>3. CASE \E i \in DOMAIN delivered[r] : delivered[r][i] = f
        <3>1. delivered[r] # <<>>
            BY <2>3
        <3> QED  BY <2>2, <2>3, <3>1 DEF Due
    <2>4. ASSUME NEW u \in Thread, pc[u] = "deliver", job[u] = f, r \in set[u]
          PROVE  Due(r, f)'
        <3>1. CASE r \in set'[u]
            BY <2>1, <2>4, <3>1 DEF Due
        <3>2. CASE r \notin set'[u]
            <4>1. u = t /\ r = q
                BY <2>2, <2>4, <3>2
            <4>2. 1 \in DOMAIN delivered'[r] /\ delivered'[r][1] = f
                BY <2>2, <2>4, <4>1
            <4> QED  BY <4>2 DEF Due
        <3> QED  BY <3>1, <3>2
    <2> QED  BY <2>3, <2>4 DEF Due
<1>3. ASSUME NEW t \in Thread, EndDelivery(t) PROVE Due(r, f)'
    <2>1. /\ set[t] = {} /\ UNCHANGED <<set, delivered>>
          /\ \A u \in Thread : u # t => pc'[u] = pc[u] /\ job'[u] = job[u]
        BY <1>3 DEF EndDelivery, IInv, TypeOK
    <2>2. ASSUME NEW u \in Thread, pc[u] = "deliver", job[u] = f, r \in set[u]
          PROVE  Due(r, f)'
        BY <2>1, <2>2 DEF Due
    <2> QED  BY <2>1, <2>2 DEF Due
<1>4. ASSUME NEW t \in Thread, pc[t] # "deliver", delivered' = delivered,
             \A u \in Thread : u # t =>
                pc'[u] = pc[u] /\ job'[u] = job[u] /\ set'[u] = set[u]
      PROVE  Due(r, f)'
    BY <1>1, <1>4
<1>5. ASSUME NEW t \in Thread, ContinueTask(t) PROVE Due(r, f)'
    <2>1. CASE \/ OpenEntry(t) \/ JoinEntry(t) \/ fromNdnSource(t)
               \/ CheckFlags(t) \/ ReadData(t) \/ ParseHeader(t) \/ RetryHeader(t)
               \/ GiveUpOnHeader(t) \/ CollectWaiting(t) \/ CollectThrows(t)
        <3>1. /\ pc[t] # "deliver" /\ delivered' = delivered
              /\ \E p : pc' = [pc EXCEPT ![t] = p]
              /\ \E j : job' = [job EXCEPT ![t] = j]
              /\ \E Q : set' = [set EXCEPT ![t] = Q]
            <4>1. /\ pc = [pc EXCEPT ![t] = pc[t]] /\ job = [job EXCEPT ![t] = job[t]]
                  /\ set = [set EXCEPT ![t] = set[t]]
                BY DEF IInv, TypeOK
            <4>2. CASE OpenEntry(t)
                BY <4>1, <4>2 DEF OpenEntry
            <4>3. CASE JoinEntry(t)
                BY <4>1, <4>3 DEF JoinEntry
            <4>4. CASE fromNdnSource(t)
                BY <4>1, <4>4 DEF fromNdnSource
            <4>5. CASE CheckFlags(t)
                BY <4>1, <4>5 DEF CheckFlags
            <4>6. CASE ReadData(t) \/ ParseHeader(t)
                BY <4>1, <4>6 DEF ReadData, ParseHeader
            <4>7. CASE RetryHeader(t) \/ GiveUpOnHeader(t)
                BY <4>1, <4>7 DEF RetryHeader, GiveUpOnHeader
            <4>8. CASE CollectWaiting(t)
                BY <4>1, <4>8 DEF CollectWaiting
            <4>9. CASE CollectThrows(t)
                BY <4>1, <4>9 DEF CollectThrows, threadVars
            <4> QED  BY <2>1, <4>2, <4>3, <4>4, <4>5, <4>6, <4>7, <4>8, <4>9
        <3>2. \A u \in Thread : u # t =>
                 pc'[u] = pc[u] /\ job'[u] = job[u] /\ set'[u] = set[u]
            BY <3>1 DEF IInv, TypeOK
        <3> QED  BY <1>4, <3>1, <3>2
    <2> QED  BY <1>2, <1>3, <1>5, <2>1 DEF ContinueTask, Collect
<1>6. ASSUME NEW t \in Thread, StartTask(t) PROVE Due(r, f)'
    <2>1. CASE UNCHANGED <<pc, job, set, delivered>>
        BY <1>1, <2>1
    <2>2. ASSUME pc[t] = "idle", UNCHANGED <<set, delivered>>,
                 NEW p, pc' = [pc EXCEPT ![t] = p], NEW j, job' = [job EXCEPT ![t] = j]
          PROVE  Due(r, f)'
        BY <1>4, <2>2 DEF IInv, TypeOK
    <2> QED  BY <1>6, <2>1, <2>2
                DEF StartTask, DiscardAborted, WaitForBody, NameRequest, StartHeader,
                    threadVars, vars
<1>7. CASE UNCHANGED <<pc, job, set, delivered>>
    BY <1>1, <1>7
<1>8. ASSUME NEW q \in Request, Server(q) PROVE UNCHANGED <<pc, job, set, delivered>>
    BY <1>8 DEF Server, fromHttpSource, BodyArrives, RequestAborts, threadVars
<1>9. ASSUME NEW g \in Fetch, Network(g) PROVE UNCHANGED <<pc, job, set, delivered>>
    BY <1>9 DEF Network, HeaderArrives, RetrievalCompletes, RetrievalAborts, fromNdnSink,
                threadVars
<1> QED  BY <1>5, <1>6, <1>7, <1>8, <1>9 DEF Next, AllServed, vars, threadVars

---------------------------------------------------------------------------
(***************************************************************************)
(* The module implements RequestCollapsing: every step is a step of the    *)
(* abstract specification, or leaves its state alone.  (Its liveness is    *)
(* left to TLC.)                                                           *)
(***************************************************************************)
\* No exchange is in flight initially.
LEMMA RefinesInit == Init => Collapsing!Init
    BY DEF Init, Collapsing!Init, Status, InSet, InEntry

\* Discarding an aborted request is Discard.
LEMMA DiscardRefines ==
    ASSUME IInv, NEW t \in Thread, NEW r \in Request, DiscardAborted(t, r)
    PROVE  Collapsing!Discard(r)
<1>1. UNCHANGED <<pending, set, delivered>>
    BY DEF DiscardAborted, threadVars
<1>2. \A q \in Request : (InEntry(q)' <=> InEntry(q)) /\ (InSet(q)' <=> InSet(q))
    BY <1>1 DEF InEntry, InSet
<1> QED  BY <1>1, <1>2, DiscardMoves DEF Collapsing!Discard, Status

\* Creating an entry opens an exchange.
LEMMA OpenRefines ==
    ASSUME IInv, NEW t \in Thread, OpenEntry(t)
    PROVE  Collapsing!Open(job[t])
<1>1. UNCHANGED delivered
    BY DEF OpenEntry
<1>2. \A q \in Request : Status(q)' = IF q = job[t] THEN "waiting" ELSE Status(q)
    BY <1>1, OpenMoves, ZenonT(40) DEF Status
<1>3. Status(job[t]) = "idle"
    BY OpenMoves DEF Status
<1> QED  BY <1>2, <1>3, OpenMoves DEF Collapsing!Open

\* Joining an entry joins the exchange in flight.
LEMMA JoinRefines ==
    ASSUME IInv, NEW t \in Thread, JoinEntry(t)
    PROVE  Collapsing!Join(job[t])
<1>1. UNCHANGED delivered
    BY DEF JoinEntry
<1>2. \A q \in Request : Status(q)' = IF q = job[t] THEN "waiting" ELSE Status(q)
    BY <1>1, JoinMoves DEF Status
<1>3. Status(job[t]) = "idle"
    BY JoinMoves DEF Status
<1> QED  BY <1>2, <1>3, JoinMoves DEF Collapsing!Join

\* Moving the waiting requests out of the map settles them together.
LEMMA CollectRefines ==
    ASSUME IInv, NEW t \in Thread, CollectWaiting(t)
    PROVE  Collapsing!Settle(fetch[job[t]].key)
<1> DEFINE k == fetch[job[t]].key
<1>1. \A q \in Request : delivered[q] # <<>> => ~InEntry(q) /\ ~InSet(q)
    BY DEF IInv, EachRequestOnce, OnlyOnce
<1>2. \A q \in Request : ~(InEntry(q) /\ InSet(q))
    BY DEF IInv, EachRequestOnce, OnlyOnce
<1>3. \A q \in Request :
        Status(q)' = IF Status(q) = "waiting" /\ Sha1[q] = k THEN "due" ELSE Status(q)
    <2> SUFFICES ASSUME NEW q \in Request
                 PROVE  Status(q)' = IF Status(q) = "waiting" /\ Sha1[q] = k
                                       THEN "due" ELSE Status(q)
        OBVIOUS
    <2>1. /\ InEntry(q)' <=> (InEntry(q) /\ Sha1[q] # k)
          /\ InSet(q)' <=> (InSet(q) \/ (InEntry(q) /\ Sha1[q] = k))
          /\ delivered'[q] = delivered[q] /\ task'[q] = task[q]
        BY CollectMoves
    <2> QED  BY <1>1, <1>2, <2>1 DEF Status
<1>4. k \in DOMAIN pending /\ DOMAIN pending' = DOMAIN pending \ {k}
    BY CollectMoves
<1> QED  BY <1>3, <1>4 DEF Collapsing!Settle

\* A call of fromHttpSink answers a settled request.
LEMMA DeliverRefines ==
    ASSUME IInv, NEW t \in Thread, fromHttpSink(t)
    PROVE  \E r \in Request : Collapsing!Answer(r)
<1>1. PICK r \in Request :
        /\ InSet(r) /\ ~InEntry(r) /\ delivered[r] = <<>> /\ delivered'[r] = <<job[t]>>
        /\ \A q \in Request : q # r => delivered'[q] = delivered[q]
        /\ \A q \in Request : InSet(q)' <=> (InSet(q) /\ q # r)
        /\ \A q \in Request : InEntry(q)' <=> InEntry(q)
        /\ UNCHANGED <<task, pending>>
    BY DeliverMoves
<1>2. Status(r) = "due" /\ Status(r)' = "answered"
    BY <1>1 DEF Status
<1>3. \A q \in Request : q # r => Status(q)' = Status(q)
    BY <1>1 DEF Status
<1> QED  BY <1>1, <1>2, <1>3 DEF Collapsing!Answer

\* The other steps are not seen.
LEMMA StutterRefines ==
    ASSUME UNCHANGED <<pending, set, delivered>>,
           \A r \in Request : task'[r] = "discarded" <=> task[r] = "discarded"
    PROVE  UNCHANGED Collapsing!vars
<1>1. \A q \in Request : (InEntry(q)' <=> InEntry(q)) /\ (InSet(q)' <=> InSet(q))
    BY DEF InEntry, InSet
<1> QED  BY <1>1 DEF Collapsing!vars, Status

\* Every step is a step of RequestCollapsing or not seen.
LEMMA StepRefines == IInv /\ [Next]_vars => [Collapsing!Next]_(Collapsing!vars)
<1> SUFFICES ASSUME IInv, [Next]_vars PROVE Collapsing!Next \/ UNCHANGED Collapsing!vars
    BY DEF Collapsing!vars
<1>1. ASSUME NEW t \in Thread, NEW r \in Request, DiscardAborted(t, r)
      PROVE  Collapsing!Next
    BY <1>1, DiscardRefines DEF Collapsing!Next
<1>2. ASSUME NEW t \in Thread, OpenEntry(t) PROVE Collapsing!Next
    BY <1>2, OpenRefines, OpenMoves DEF Collapsing!Next
<1>3. ASSUME NEW t \in Thread, JoinEntry(t) PROVE Collapsing!Next
    BY <1>3, JoinRefines, JoinMoves DEF Collapsing!Next
<1>4. ASSUME NEW t \in Thread, CollectWaiting(t) PROVE Collapsing!Next
    <2>1. fetch[job[t]].key \in DOMAIN pending
        BY <1>4, CollectMoves
    <2>2. fetch[job[t]].key \in Key
        BY <2>1 DEF IInv, TypeOK
    <2> QED  BY <1>4, <2>2, CollectRefines DEF Collapsing!Next
<1>5. ASSUME NEW t \in Thread, fromHttpSink(t) PROVE Collapsing!Next
    BY <1>5, DeliverRefines DEF Collapsing!Next
<1>6. ASSUME NEW r \in Request, Server(r) PROVE UNCHANGED Collapsing!vars
    BY <1>6, StutterRefines
       DEF IInv, TypeOK, Server, fromHttpSource, BodyArrives, RequestAborts, threadVars
<1>7. ASSUME NEW f \in Fetch, Network(f) PROVE UNCHANGED Collapsing!vars
    BY <1>7, StutterRefines
       DEF Network, HeaderArrives, RetrievalCompletes, RetrievalAborts, fromNdnSink,
           reqVars, threadVars
<1>8. ASSUME NEW t \in Thread, NEW r \in Request, NameRequest(t, r)
      PROVE  UNCHANGED Collapsing!vars
    BY <1>8, StutterRefines DEF IInv, TypeOK, NameRequest
<1>9. ASSUME NEW t \in Thread,
             \/ fromNdnSource(t) \/ CheckFlags(t) \/ ReadData(t) \/ ParseHeader(t)
             \/ RetryHeader(t) \/ GiveUpOnHeader(t) \/ CollectThrows(t) \/ EndDelivery(t)
      PROVE  UNCHANGED Collapsing!vars
    BY <1>9, StutterRefines
       DEF fromNdnSource, CheckFlags, ReadData, ParseHeader, RetryHeader, GiveUpOnHeader,
           CollectThrows, EndDelivery, reqVars, threadVars
<1>10. ASSUME NEW t \in Thread, NEW f \in Fetch, StartHeader(t, f)
       PROVE  UNCHANGED Collapsing!vars
    BY <1>10, StutterRefines DEF StartHeader, reqVars
<1>11. ASSUME UNCHANGED vars PROVE UNCHANGED Collapsing!vars
    BY <1>11, StutterRefines DEF vars
<1>12. ASSUME NEW t \in Thread, Collect(t)
       PROVE  Collapsing!Next \/ UNCHANGED Collapsing!vars
    BY <1>12, <1>4, <1>9 DEF Collect
<1>13. ASSUME NEW t \in Thread, ContinueTask(t)
       PROVE  Collapsing!Next \/ UNCHANGED Collapsing!vars
    BY <1>13, <1>2, <1>3, <1>5, <1>9, <1>12 DEF ContinueTask
<1>14. ASSUME NEW t \in Thread, StartTask(t)
       PROVE  Collapsing!Next \/ UNCHANGED Collapsing!vars
    BY <1>14, <1>1, <1>8, <1>10, <1>11 DEF StartTask, WaitForBody
<1> QED
    BY <1>6, <1>7, <1>11, <1>13, <1>14 DEF Next, AllServed

\* Requests collapse as RequestCollapsing says: whatever the threads interleave,
\* what is seen of the module is a sequence of opening, joining, settling and
\* answering of exchanges, one per key at a time.
THEOREM Refinement == Spec => Collapsing!Init /\ [][Collapsing!Next]_(Collapsing!vars)
    BY RefinesInit, StepRefines, Invariance, PTL DEF Spec

---------------------------------------------------------------------------
(***************************************************************************)
(* What NdnExchange takes for granted of this module: for every key, its   *)
(* fetches are begun, answered and settled one after the other.            *)
(***************************************************************************)
Stages(k) == [f \in Fetch |-> StageFor(k, f)]

\* A step that changes one fetch changes its stage only.
LEMMA StageOfOne ==
    ASSUME NEW k \in Key, NEW g \in Fetch, \A f \in Fetch : f # g => fetch'[f] = fetch[f]
    PROVE  Stages(k)' = [Stages(k) EXCEPT ![g] = StageFor(k, g)']
<1>1. \A f \in Fetch : f # g => StageFor(k, f)' = StageFor(k, f)
    BY DEF StageFor
<1> QED  BY <1>1 DEF Stages

\* A step that keeps keys, and phases up to naming and ndn, or queued and running.
LEMMA StagesKept ==
    ASSUME NEW k \in Key, NEW g \in Fetch, \A f \in Fetch : f # g => fetch'[f] = fetch[f],
           fetch'[g].key = fetch[g].key,
           \/ fetch[g].phase \in {"naming", "ndn"} /\ fetch'[g].phase \in {"naming", "ndn"}
           \/ fetch[g].phase \in {"queued", "running"} /\ fetch'[g].phase \in {"queued", "running"}
    PROVE  UNCHANGED Stages(k)
<1>1. StageFor(k, g)' = StageFor(k, g)
    BY DEF StageFor
<1>2. \A f \in Fetch : f # g => StageFor(k, f)' = StageFor(k, f)
    BY DEF StageFor
<1> QED  BY <1>1, <1>2 DEF Stages

\* Before the first request, no fetch of any key is begun.
LEMMA FetchesFollowInit == Init => \A k \in Key : OfKey(k)!Init
<1> SUFFICES ASSUME Init, NEW k \in Key PROVE OfKey(k)!Init
    OBVIOUS
<1>1. \A f \in Fetch : StageFor(k, f) = "new"
    BY DEF Init, StageFor
<1> QED  BY <1>1 DEF OfKey!Init

\* The entry that is created begins a fetch of its key, when the others are settled.
LEMMA OpenBegins ==
    ASSUME IInv, NEW t \in Thread, OpenEntry(t), NEW k \in Key
    PROVE  OfKey(k)!Next \/ UNCHANGED Stages(k)
<1>1. PICK g \in Fetch :
         /\ fetch[g].phase = "unused"
         /\ fetch' = [fetch EXCEPT ![g] = [phase |-> "naming", key |-> Sha1[job[t]]]]
    BY DEF OpenEntry
<1>2. /\ fetch'[g] = [phase |-> "naming", key |-> Sha1[job[t]]]
      /\ \A f \in Fetch : f # g => fetch'[f] = fetch[f]
    BY <1>1 DEF IInv, TypeOK
<1>3. Stages(k)' = [Stages(k) EXCEPT ![g] = StageFor(k, g)']
    BY <1>2, StageOfOne
<1>4. StageFor(k, g) = "new"
    BY <1>1 DEF StageFor
<1>5. CASE Sha1[job[t]] # k
    <2>1. StageFor(k, g)' = "new"
        BY <1>2, <1>5 DEF StageFor
    <2> QED  BY <1>3, <1>4, <2>1 DEF Stages
<1>6. CASE Sha1[job[t]] = k
    <2>1. StageFor(k, g)' = "begun"
        BY <1>2, <1>6 DEF StageFor
    <2>2. k \notin DOMAIN pending
        BY <1>6 DEF OpenEntry, Known
    <2>3. \A f \in Fetch : StageFor(k, f) \in {"new", "settled"}
        BY <2>2 DEF StageFor, IInv, EntriesAreLive, Live, LivePhases, TypeOK, FetchRecord
    <2>4. OfKey(k)!Begin(g)
        BY <1>3, <1>4, <2>1, <2>3 DEF OfKey!Begin, Stages
    <2> QED  BY <2>4 DEF OfKey!Next
<1> QED  BY <1>5, <1>6

\* The call of fromNdnSink answers its fetch.
LEMMA SinkAnswers ==
    ASSUME IInv, NEW g \in Fetch, fromNdnSink(g), NEW k \in Key
    PROVE  OfKey(k)!Next \/ UNCHANGED Stages(k)
<1>1. /\ fetch[g].phase = "ndn"
      /\ fetch'[g].phase = "queued" /\ fetch'[g].key = fetch[g].key
      /\ \A f \in Fetch : f # g => fetch'[f] = fetch[f]
    BY DEF fromNdnSink, IInv, TypeOK, FetchRecord
<1>2. Stages(k)' = [Stages(k) EXCEPT ![g] = StageFor(k, g)']
    BY <1>1, StageOfOne
<1>3. CASE fetch[g].key # k
    <2>1. StageFor(k, g) = "new" /\ StageFor(k, g)' = "new"
        BY <1>1, <1>3 DEF StageFor
    <2> QED  BY <1>2, <2>1 DEF Stages
<1>4. CASE fetch[g].key = k
    <2>1. StageFor(k, g) = "begun" /\ StageFor(k, g)' = "answered"
        BY <1>1, <1>4 DEF StageFor
    <2>2. OfKey(k)!Answer(g)
        BY <1>2, <2>1 DEF OfKey!Answer, Stages
    <2> QED  BY <2>2 DEF OfKey!Next
<1> QED  BY <1>3, <1>4

\* Taking the requests out of the map settles the fetch, which was answered.
LEMMA CollectSettles ==
    ASSUME IInv, NEW t \in Thread, CollectWaiting(t), NEW k \in Key
    PROVE  OfKey(k)!Next \/ UNCHANGED Stages(k)
<1>1. PICK g \in Fetch : g = job[t] /\ fetch[g].phase = "running"
    BY DEF CollectWaiting, IInv, ThreadOwnsJob, HeaderPcs
<1>2. /\ fetch'[g].phase = "collected" /\ fetch'[g].key = fetch[g].key
      /\ \A f \in Fetch : f # g => fetch'[f] = fetch[f]
    BY <1>1 DEF CollectWaiting, IInv, TypeOK, FetchRecord
<1>3. Stages(k)' = [Stages(k) EXCEPT ![g] = StageFor(k, g)']
    BY <1>1, <1>2, StageOfOne
<1>4. CASE fetch[g].key # k
    <2>1. StageFor(k, g) = "new" /\ StageFor(k, g)' = "new"
        BY <1>2, <1>4 DEF StageFor
    <2> QED  BY <1>1, <1>3, <2>1 DEF Stages
<1>5. CASE fetch[g].key = k
    <2>1. StageFor(k, g) = "answered" /\ StageFor(k, g)' = "settled"
        BY <1>1, <1>2, <1>5 DEF StageFor
    <2>2. OfKey(k)!Settle(g)
        BY <1>1, <1>3, <2>1 DEF OfKey!Settle, Stages
    <2> QED  BY <1>1, <2>2 DEF OfKey!Next
<1> QED  BY <1>4, <1>5

\* The other changes of a fetch keep its stage: the call of fromNdnSource, and the
\* handler that looks for the header, which begins and is posted again.
LEMMA FetchGoesOn ==
    ASSUME IInv, NEW k \in Key,
           \/ \E t \in Thread : fromNdnSource(t) \/ RetryHeader(t)
           \/ \E t \in Thread, f \in Fetch : StartHeader(t, f)
    PROVE  UNCHANGED Stages(k)
<1>1. ASSUME NEW t \in Thread, fromNdnSource(t) PROVE UNCHANGED Stages(k)
    <2>1. job[t] \in Fetch /\ fetch[job[t]].phase = "naming"
        BY <1>1 DEF fromNdnSource, IInv, ThreadOwnsJob
    <2>2. /\ fetch'[job[t]].phase = "ndn" /\ fetch'[job[t]].key = fetch[job[t]].key
          /\ \A f \in Fetch : f # job[t] => fetch'[f] = fetch[f]
        BY <1>1, <2>1 DEF fromNdnSource, IInv, TypeOK, FetchRecord
    <2> QED  BY <2>1, <2>2, StagesKept
<1>2. ASSUME NEW t \in Thread, RetryHeader(t) PROVE UNCHANGED Stages(k)
    <2>1. job[t] \in Fetch /\ fetch[job[t]].phase = "running"
        BY <1>2 DEF RetryHeader, IInv, ThreadOwnsJob, HeaderPcs
    <2>2. /\ fetch'[job[t]].phase = "queued" /\ fetch'[job[t]].key = fetch[job[t]].key
          /\ \A f \in Fetch : f # job[t] => fetch'[f] = fetch[f]
        BY <1>2, <2>1 DEF RetryHeader, IInv, TypeOK, FetchRecord
    <2> QED  BY <2>1, <2>2, StagesKept
<1>3. ASSUME NEW t \in Thread, NEW g \in Fetch, StartHeader(t, g) PROVE UNCHANGED Stages(k)
    <2>1. /\ fetch[g].phase = "queued"
          /\ fetch'[g].phase = "running" /\ fetch'[g].key = fetch[g].key
          /\ \A f \in Fetch : f # g => fetch'[f] = fetch[f]
        BY <1>3 DEF StartHeader, IInv, TypeOK, FetchRecord
    <2> QED  BY <2>1, StagesKept
<1> QED  BY <1>1, <1>2, <1>3

\* A step that leaves the fetches alone.
LEMMA NoFetchMoves ==
    ASSUME UNCHANGED fetch, NEW k \in Key PROVE UNCHANGED Stages(k)
    BY DEF Stages, StageFor

LEMMA FetchesFollowNext ==
    ASSUME IInv, [Next]_vars, NEW k \in Key PROVE OfKey(k)!Next \/ UNCHANGED Stages(k)
<1>1. ASSUME NEW r \in Request, Server(r) PROVE UNCHANGED fetch
    BY <1>1 DEF Server, fromHttpSource, BodyArrives, RequestAborts
<1>2. ASSUME NEW f \in Fetch, Network(f) PROVE UNCHANGED fetch \/ fromNdnSink(f)
    BY <1>2 DEF Network, HeaderArrives, RetrievalCompletes, RetrievalAborts
<1>3. ASSUME NEW t \in Thread, StartTask(t)
      PROVE  UNCHANGED fetch \/ \E f \in Fetch : StartHeader(t, f)
    BY <1>3 DEF StartTask, DiscardAborted, WaitForBody, NameRequest, vars
<1>4. ASSUME NEW t \in Thread, ContinueTask(t)
      PROVE  \/ UNCHANGED fetch
             \/ OpenEntry(t) \/ fromNdnSource(t) \/ RetryHeader(t) \/ CollectWaiting(t)
    BY <1>4 DEF ContinueTask, JoinEntry, CheckFlags, ReadData, ParseHeader, GiveUpOnHeader,
                Collect, CollectThrows, fromHttpSink, EndDelivery
<1>5. AllServed \/ UNCHANGED vars => UNCHANGED fetch
    BY DEF AllServed, vars
<1> QED
    BY <1>1, <1>2, <1>3, <1>4, <1>5, OpenBegins, SinkAnswers, CollectSettles, FetchGoesOn,
       NoFetchMoves DEF Next

\* For each key the resolver is given one fetch at a time, and a fetch is settled
\* after its answer, which comes once: whatever the threads interleave, the life of
\* the fetches of a key is that of NdnExchange.
THEOREM FetchesInTurn == Spec => FetchesFollow
<1>1. IInv /\ [Next]_vars =>
        \A k \in Key : [OfKey(k)!Next]_[f \in Fetch |-> StageFor(k, f)]
    BY FetchesFollowNext DEF Stages
<1> QED  BY <1>1, FetchesFollowInit, Invariance, PTL DEF Spec, FetchesFollow
===========================================================================
