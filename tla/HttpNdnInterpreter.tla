------------------------ MODULE HttpNdnInterpreter ------------------------
(***************************************************************************)
(* The ingress gateway's HttpNdnInterpreter (igw/http_ndn_interpreter.cpp):*)
(* it turns HTTP requests into NDN fetches, collapses concurrent identical *)
(* requests into one fetch through _pending_requests, and hands the        *)
(* response of a fetch to every request collapsed into it.                 *)
(*                                                                         *)
(* The module's handlers run on a pool of Thread threads that serve one    *)
(* io_service.  A handler is cut at every access to state that another     *)
(* thread writes: the streams' flags, and _pending_requests under its      *)
(* mutex.  Between two cuts a handler touches only its own locals.         *)
(*                                                                         *)
(* Around it: an HttpServer submits requests whose bodies are still being  *)
(* read; an NdnSink (the NdnResolver) answers every fetch exactly once and *)
(* goes on filling the response stream after it has answered.              *)
(***************************************************************************)
EXTENDS Naturals, Sequences, FiniteSets

CONSTANTS
    Request,    \* the HttpRequest objects the server creates
    Key,        \* the SHA1 digests of request header and first body bytes
    Sha1,       \* the digest of every request
    Fetch,      \* the NdnContent objects given to the NdnSink
    Thread      \* the threads of the module's io_service

ASSUME Sha1Assumption == Sha1 \in [Request -> Key]

VARIABLES
    request,    \* the request streams, as far as this module looks at them
    task,       \* where the computeNames chain of a request stands
    pending,    \* _pending_requests: the requests waiting for each key
    fetch,      \* the NDN fetches: how far they are, and their key
    response,   \* the HttpResponse of a fetch and its raw stream
    retrieving, \* whether the NDN consumer still feeds the response stream
    pc,         \* where each thread stands in its handler
    job,        \* the request or the fetch a thread's handler is about
    complete,   \* the local is_complete of getHttpResponseHeader
    raw_data,   \* its local raw_data: the header that the copy of the stream holds
    set,        \* the local set of getHttpResponseHeader
    delivered,  \* the responses given to HttpSource::fromHttpSink, in order
    terminated  \* an exception left a thread: std::terminate

reqVars == <<request, task>>
netVars == <<response, retrieving>>
threadVars == <<pc, job, complete, raw_data, set>>
vars == <<request, task, pending, fetch, response, retrieving,
          pc, job, complete, raw_data, set, delivered, terminated>>

\* A fetch is live from the moment its key is entered in _pending_requests until
\* getHttpResponseHeader takes the waiting requests out again.
LivePhases == {"naming", "ndn", "queued", "running"}
Live(f) == fetch[f].phase \in LivePhases
HeaderPcs == {"check", "read", "find", "collect"}

FetchRecord == [phase : {"unused", "collected"} \cup LivePhases, key : Key \cup {"none"}]
Header == {"absent", "good", "bad"}
ResponseRecord == [header : Header, parsed : BOOLEAN,
                   completed : BOOLEAN, aborted : BOOLEAN]

TypeOK ==
    /\ request \in [Request -> {"short", "nameable", "aborted"}]
    /\ task \in [Request -> {"new", "queued", "running", "discarded", "pending"}]
    /\ DOMAIN pending \subseteq Key
    /\ pending \in [DOMAIN pending -> SUBSET Request]
    /\ fetch \in [Fetch -> FetchRecord]
    /\ response \in [Fetch -> ResponseRecord]
    /\ retrieving \in [Fetch -> BOOLEAN]
    /\ pc \in [Thread -> {"idle", "lookup", "forward", "deliver"} \cup HeaderPcs]
    /\ job \in [Thread -> Request \cup Fetch \cup {"none"}]
    /\ complete \in [Thread -> BOOLEAN]
    /\ raw_data \in [Thread -> Header]
    /\ set \in [Thread -> SUBSET Request]
    /\ delivered \in [Request -> Seq(Fetch)]
    /\ terminated \in BOOLEAN

Init ==
    /\ request = [r \in Request |-> "short"]
    /\ task = [r \in Request |-> "new"]
    /\ pending = [k \in {} |-> {}]
    /\ fetch = [f \in Fetch |-> [phase |-> "unused", key |-> "none"]]
    /\ response = [f \in Fetch |-> [header |-> "absent", parsed |-> FALSE,
                                    completed |-> FALSE, aborted |-> FALSE]]
    /\ retrieving = [f \in Fetch |-> FALSE]
    /\ pc = [t \in Thread |-> "idle"]
    /\ job = [t \in Thread |-> "none"]
    /\ complete = [t \in Thread |-> FALSE]
    /\ raw_data = [t \in Thread |-> "absent"]
    /\ set = [t \in Thread |-> {}]
    /\ delivered = [r \in Request |-> <<>>]
    /\ terminated = FALSE

---------------------------------------------------------------------------
(***************************************************************************)
(* The HTTP server: it submits a request once its header is parsed, goes   *)
(* on reading the body, and may abort the request at any time (its timers, *)
(* a connection error).  What happens to the request stream once the       *)
(* request is named is not looked at by this module, and left out.         *)
(***************************************************************************)
\* The first bytes of the body may have come with the header.
fromHttpSource(r) ==
    /\ task[r] = "new"
    /\ task' = [task EXCEPT ![r] = "queued"]
    /\ request' \in {request, [request EXCEPT ![r] = "nameable"]}
    /\ UNCHANGED <<pending, fetch, netVars, threadVars, delivered, terminated>>

\* The stream is completed, or holds 1024 bytes of body: enough to name it.
BodyArrives(r) ==
    /\ task[r] = "queued" /\ request[r] = "short"
    /\ request' = [request EXCEPT ![r] = "nameable"]
    /\ UNCHANGED <<task, pending, fetch, netVars, threadVars, delivered, terminated>>

RequestAborts(r) ==
    /\ task[r] = "queued" /\ request[r] # "aborted"
    /\ request' = [request EXCEPT ![r] = "aborted"]
    /\ UNCHANGED <<task, pending, fetch, netVars, threadVars, delivered, terminated>>

---------------------------------------------------------------------------
(***************************************************************************)
(* The NdnSink.  Its single answer comes with the first segment, or with   *)
(* the abort that ends the attempt; either way the consumer has written to *)
(* the response stream before, and may go on writing to it afterwards.     *)
(* What it writes once the waiting requests are collected is read by the   *)
(* HttpServer only, and left out.                                          *)
(***************************************************************************)
HeaderArrives(f) ==
    /\ Live(f) /\ retrieving[f] /\ response[f].header = "absent"
    /\ \E h \in {"good", "bad"} : response' = [response EXCEPT ![f].header = h]
    /\ UNCHANGED <<reqVars, pending, fetch, retrieving, threadVars, delivered, terminated>>

RetrievalCompletes(f) ==
    /\ Live(f) /\ retrieving[f]
    /\ response' = [response EXCEPT ![f].completed = TRUE]
    /\ retrieving' = [retrieving EXCEPT ![f] = FALSE]
    /\ UNCHANGED <<reqVars, pending, fetch, threadVars, delivered, terminated>>

RetrievalAborts(f) ==
    /\ Live(f) /\ retrieving[f]
    /\ response' = [response EXCEPT ![f].aborted = TRUE]
    /\ retrieving' = [retrieving EXCEPT ![f] = FALSE]
    /\ UNCHANGED <<reqVars, pending, fetch, threadVars, delivered, terminated>>

fromNdnSink(f) ==
    /\ fetch[f].phase = "ndn"
    /\ fetch' = [fetch EXCEPT ![f].phase = "queued"]
    /\ UNCHANGED <<reqVars, pending, netVars, threadVars, delivered, terminated>>

---------------------------------------------------------------------------
(***************************************************************************)
(* computeNames, up to the critical section.  A request that is neither    *)
(* aborted nor long enough to be named is tried again 5 ms later: it goes  *)
(* back among the queued handlers.                                         *)
(***************************************************************************)
CanBeNamed(r) == request[r] = "nameable"

DiscardAborted(t, r) ==
    /\ pc[t] = "idle" /\ task[r] = "queued" /\ request[r] = "aborted"
    /\ task' = [task EXCEPT ![r] = "discarded"]
    /\ UNCHANGED <<request, pending, fetch, netVars, threadVars, delivered, terminated>>

WaitForBody(t, r) ==
    /\ pc[t] = "idle" /\ task[r] = "queued" /\ request[r] # "aborted" /\ ~CanBeNamed(r)
    /\ UNCHANGED vars

NameRequest(t, r) ==
    /\ pc[t] = "idle" /\ task[r] = "queued" /\ request[r] # "aborted" /\ CanBeNamed(r)
    /\ task' = [task EXCEPT ![r] = "running"]
    /\ pc' = [pc EXCEPT ![t] = "lookup"]
    /\ job' = [job EXCEPT ![t] = r]
    /\ UNCHANGED <<request, pending, fetch, netVars, complete, raw_data, set, delivered, terminated>>

\* Mutants of the lookup: requests never collapse; a request replaces the ones
\* that waited.
NeverKnown(k) == FALSE
LastOneWaits(k, r) == [pending EXCEPT ![k] = {r}]

Known(k) == k \in DOMAIN pending
Inserted(k, r) == [pending EXCEPT ![k] = @ \cup {r}]

\* The critical section, when the key is absent: the entry is created, and the
\* rest of the handler will build the NDN name and start the fetch.
OpenEntry(t) ==
    LET r == job[t]  k == Sha1[r] IN
    /\ pc[t] = "lookup" /\ ~Known(k)
    /\ pending' = [x \in DOMAIN pending \cup {k} |-> IF x = k THEN {r} ELSE pending[x]]
    /\ \E f \in Fetch :
          /\ fetch[f].phase = "unused"
          /\ fetch' = [fetch EXCEPT ![f] = [phase |-> "naming", key |-> k]]
          /\ job' = [job EXCEPT ![t] = f]
    /\ task' = [task EXCEPT ![r] = "pending"]
    /\ pc' = [pc EXCEPT ![t] = "forward"]
    /\ UNCHANGED <<request, netVars, complete, raw_data, set, delivered, terminated>>

\* The critical section, when the key is present: the request joins the entry.
JoinEntry(t) ==
    LET r == job[t]  k == Sha1[r] IN
    /\ pc[t] = "lookup" /\ Known(k)
    /\ pending' = Inserted(k, r)
    /\ task' = [task EXCEPT ![r] = "pending"]
    /\ pc' = [pc EXCEPT ![t] = "idle"]
    /\ job' = [job EXCEPT ![t] = "none"]
    /\ UNCHANGED <<request, fetch, netVars, complete, raw_data, set, delivered, terminated>>

fromNdnSource(t) ==
    LET f == job[t] IN
    /\ pc[t] = "forward"
    /\ fetch' = [fetch EXCEPT ![f].phase = "ndn"]
    /\ retrieving' = [retrieving EXCEPT ![f] = TRUE]
    /\ pc' = [pc EXCEPT ![t] = "idle"]
    /\ job' = [job EXCEPT ![t] = "none"]
    /\ UNCHANGED <<reqVars, pending, response, complete, raw_data, set, delivered, terminated>>

---------------------------------------------------------------------------
(***************************************************************************)
(* getHttpResponseHeader.  The completion flag is read before the data, so *)
(* that a stream seen complete and without a header can have none.         *)
(***************************************************************************)
StartHeader(t, f) ==
    /\ pc[t] = "idle" /\ fetch[f].phase = "queued"
    /\ fetch' = [fetch EXCEPT ![f].phase = "running"]
    /\ pc' = [pc EXCEPT ![t] = "check"]
    /\ job' = [job EXCEPT ![t] = f]
    /\ UNCHANGED <<reqVars, pending, netVars, complete, raw_data, set, delivered, terminated>>

CheckFlags(t) ==
    LET f == job[t] IN
    /\ pc[t] = "check"
    /\ pc' = [pc EXCEPT ![t] = IF response[f].aborted THEN "collect" ELSE "read"]
    /\ complete' = [complete EXCEPT ![t] = response[f].completed]
    /\ UNCHANGED <<reqVars, pending, fetch, netVars, job, raw_data, set, delivered, terminated>>

ReadData(t) ==
    /\ pc[t] = "read"
    /\ raw_data' = [raw_data EXCEPT ![t] = response[job[t]].header]
    /\ pc' = [pc EXCEPT ![t] = "find"]
    /\ UNCHANGED <<reqVars, pending, fetch, netVars, job, complete, set, delivered, terminated>>

\* The blank line is there: parse the header, or abort a stream whose header
\* lacks the version, the status code or the reason.
ParseHeader(t) ==
    LET f == job[t] IN
    /\ pc[t] = "find"
    /\ \/ /\ raw_data[t] = "good"
          /\ response' = [response EXCEPT ![f].parsed = TRUE]
       \/ /\ raw_data[t] = "bad"
          /\ response' = [response EXCEPT ![f].aborted = TRUE]
    /\ pc' = [pc EXCEPT ![t] = "collect"]
    /\ UNCHANGED <<reqVars, pending, fetch, retrieving, job, complete, raw_data, set, delivered,
                   terminated>>

\* Mutants: the flag is read after the data; a header that is not there yet is not
\* looked for again.
CompleteByNow(t) == response[job[t]].completed
GiveUpAtOnce(t) == TRUE

SeenComplete(t) == complete[t]

RetryHeader(t) ==
    LET f == job[t] IN
    /\ pc[t] = "find" /\ raw_data[t] = "absent" /\ ~SeenComplete(t)
    /\ fetch' = [fetch EXCEPT ![f].phase = "queued"]
    /\ pc' = [pc EXCEPT ![t] = "idle"]
    /\ job' = [job EXCEPT ![t] = "none"]
    /\ UNCHANGED <<reqVars, pending, netVars, complete, raw_data, set, delivered, terminated>>

GiveUpOnHeader(t) ==
    /\ pc[t] = "find" /\ raw_data[t] = "absent" /\ SeenComplete(t)
    /\ pc' = [pc EXCEPT ![t] = "collect"]
    /\ UNCHANGED <<reqVars, pending, fetch, netVars, job, complete, raw_data, set, delivered,
                   terminated>>

\* Mutants of the collection: the emptied entry stays in the map; every waiting
\* request is taken, whatever its key.
EntryKept(k) == [pending EXCEPT ![k] = {}]
AllWaiting(k) == UNION {pending[x] : x \in DOMAIN pending}

WaitingAt(k) == pending[k]
Erased(k) == [x \in DOMAIN pending \ {k} |-> pending[x]]

\* set = std::move(_pending_requests.at(sha1)); _pending_requests.erase(sha1)
CollectWaiting(t) ==
    LET f == job[t]  k == fetch[f].key IN
    /\ pc[t] = "collect" /\ k \in DOMAIN pending
    /\ set' = [set EXCEPT ![t] = WaitingAt(k)]
    /\ pending' = Erased(k)
    /\ fetch' = [fetch EXCEPT ![f].phase = "collected"]
    /\ pc' = [pc EXCEPT ![t] = "deliver"]
    /\ UNCHANGED <<reqVars, netVars, job, complete, raw_data, delivered, terminated>>

\* std::map::at throws for a key that is absent, and nothing catches it.
CollectThrows(t) ==
    /\ pc[t] = "collect" /\ fetch[job[t]].key \notin DOMAIN pending
    /\ terminated' = TRUE
    /\ UNCHANGED <<reqVars, pending, fetch, netVars, threadVars, delivered>>

Collect(t) ==
    /\ pc[t] = "collect"
    /\ IF fetch[job[t]].key \in DOMAIN pending THEN CollectWaiting(t) ELSE CollectThrows(t)

fromHttpSink(t) ==
    /\ pc[t] = "deliver"
    /\ \E r \in set[t] :
          /\ delivered' = [delivered EXCEPT ![r] = Append(@, job[t])]
          /\ set' = [set EXCEPT ![t] = @ \ {r}]
    /\ UNCHANGED <<reqVars, pending, fetch, netVars, pc, job, complete, raw_data, terminated>>

EndDelivery(t) ==
    /\ pc[t] = "deliver" /\ set[t] = {}
    /\ pc' = [pc EXCEPT ![t] = "idle"]
    /\ job' = [job EXCEPT ![t] = "none"]
    /\ UNCHANGED <<reqVars, pending, fetch, netVars, complete, raw_data, set, delivered, terminated>>

---------------------------------------------------------------------------
StartTask(t) ==
    \/ \E r \in Request : DiscardAborted(t, r) \/ WaitForBody(t, r) \/ NameRequest(t, r)
    \/ \E f \in Fetch : StartHeader(t, f)

ContinueTask(t) ==
    \/ OpenEntry(t) \/ JoinEntry(t) \/ fromNdnSource(t)
    \/ CheckFlags(t) \/ ReadData(t) \/ ParseHeader(t) \/ RetryHeader(t) \/ GiveUpOnHeader(t)
    \/ Collect(t) \/ fromHttpSink(t) \/ EndDelivery(t)

Server(r) ==
    fromHttpSource(r) \/ BodyArrives(r) \/ RequestAborts(r)

Network(f) ==
    HeaderArrives(f) \/ RetrievalCompletes(f) \/ RetrievalAborts(f) \/ fromNdnSink(f)

\* Every request is dealt with and nothing is left to do: the module is idle.
AllServed ==
    /\ \A r \in Request : task[r] \in {"pending", "discarded"}
    /\ \A t \in Thread : pc[t] = "idle"
    /\ \A f \in Fetch : fetch[f].phase \in {"unused", "collected"}
    /\ UNCHANGED vars

Next ==
    \/ /\ ~terminated
       /\ \/ \E r \in Request : Server(r)
          \/ \E f \in Fetch : Network(f)
          \/ \E t \in Thread : StartTask(t) \/ ContinueTask(t)
    \/ AllServed

Spec == Init /\ [][Next]_vars

(***************************************************************************)
(* A handler that runs goes on running, and the io_service serves its      *)
(* handlers in the order they were posted, so each is served although the  *)
(* threads are busy time and again.  The session timers of the server end  *)
(* every request that neither grows nor completes.  The NDN consumer       *)
(* retries an Interest twice and then aborts, so it ends and answers.      *)
(***************************************************************************)
Fairness ==
    /\ \A t \in Thread : WF_vars(~terminated /\ ContinueTask(t))
    /\ \A r \in Request :
         /\ SF_vars(~terminated /\ \E t \in Thread : DiscardAborted(t, r) \/ NameRequest(t, r))
         /\ WF_vars(~terminated /\ (BodyArrives(r) \/ RequestAborts(r)))
    /\ \A f \in Fetch :
         /\ SF_vars(~terminated /\ \E t \in Thread : StartHeader(t, f))
         /\ WF_vars(~terminated /\ fromNdnSink(f))
         /\ WF_vars(~terminated /\ (RetrievalCompletes(f) \/ RetrievalAborts(f)))

FairSpec == Spec /\ Fairness

---------------------------------------------------------------------------
\* The places a named request can be in before it is answered.
InEntry(r) == \E k \in DOMAIN pending : r \in pending[k]
InSet(r) == \E t \in Thread : r \in set[t]

OnlyOnce(r) ==
    /\ (task[r] = "pending") <=> (InEntry(r) \/ InSet(r) \/ delivered[r] # <<>>)
    /\ ~(InEntry(r) /\ InSet(r))
    /\ delivered[r] # <<>> => ~InEntry(r) /\ ~InSet(r)
    /\ \A k \in DOMAIN pending : r \in pending[k] => k = Sha1[r]
    /\ \A t, u \in Thread : r \in set[t] /\ r \in set[u] => t = u
    /\ Len(delivered[r]) <= 1

\* No exception leaves a thread: whenever the answer of a fetch is processed,
\* _pending_requests.at(sha1) (lines 229, 242, 253) finds its key, whichever
\* thread inserted or erased entries meanwhile.  A throw there ends the gateway.
NoUncaughtException == ~terminated

\* From the entry in _pending_requests to its erasure, a key has one fetch:
\* the collapsing that http_ndn_interpreter.h:36 calls mandatory.
OneFetchPerKey ==
    \A f, g \in Fetch : Live(f) /\ Live(g) /\ fetch[f].key = fetch[g].key => f = g

\* A request that was named is in exactly one place until it is answered, and
\* is answered once: no interleaving of insert (135), move (229) and delivery
\* (232) loses a request or hands it two responses.
EachRequestOnce == \A r \in Request : OnlyOnce(r)

\* A request only ever receives the response of a fetch for its own digest:
\* header and first body bytes equal to its own.
RightResponse ==
    \A r \in Request : \A i \in DOMAIN delivered[r] : fetch[delivered[r][i]].key = Sha1[r]

\* A response is handed out unparsed only when its stream ended without a
\* header: the reason why the flag is read before the data (line 186).
UnparsedOnlyIfHeaderless ==
    \A r \in Request : \A i \in DOMAIN delivered[r] :
      LET f == delivered[r][i] IN
      ~response[f].parsed /\ ~response[f].aborted =>
          response[f].completed /\ response[f].header = "absent"

\* Every request whose body can be named, or that is aborted, is answered or
\* dropped: none waits for ever behind another request's entry.
EveryRequestServed ==
    \A r \in Request :
      task[r] = "queued" ~> (task[r] = "discarded" \/ delivered[r] # <<>>)

\* The module implements request collapsing: an entry is an open exchange for a
\* key, the waiting requests are settled together when it closes.
Status(r) ==
    IF delivered[r] # <<>> THEN "answered"
    ELSE IF InSet(r) THEN "due"
    ELSE IF InEntry(r) THEN "waiting"
    ELSE IF task[r] = "discarded" THEN "discarded" ELSE "idle"

Collapsing == INSTANCE RequestCollapsing
    WITH inflight <- DOMAIN pending, status <- [r \in Request |-> Status(r)]
ImplementsCollapsing == Collapsing!Spec

\* For each key, its fetches follow each other as NdnExchange has them follow: it is
\* never given two fetches of a key at once, nor is one settled before its answer.
StageFor(k, f) ==
    IF fetch[f].phase = "unused" \/ fetch[f].key # k THEN "new"
    ELSE IF fetch[f].phase \in {"naming", "ndn"} THEN "begun"
    ELSE IF fetch[f].phase \in {"queued", "running"} THEN "answered" ELSE "settled"

OfKey(k) == INSTANCE FetchesOfKey WITH stage <- [f \in Fetch |-> StageFor(k, f)]
FetchesFollow ==
    /\ \A k \in Key : OfKey(k)!Init
    /\ [][\A k \in Key : [OfKey(k)!Next]_[f \in Fetch |-> StageFor(k, f)]]_vars
===========================================================================
