-------------------------- MODULE IngressGateway --------------------------
(***************************************************************************)
(* The ingress gateway from its clients to its NDN side: the sessions of   *)
(* HttpServer with the interpreter of HttpNdnInterpreter in the place of   *)
(* the one that HttpServer assumes.  Each module posts handlers on the     *)
(* other's io_service; besides, they share the request streams, which the  *)
(* sessions write and the interpreter reads, and the response streams,     *)
(* which the interpreter reads until it hands them over.                   *)
(*                                                                         *)
(* The fetches of the interpreter are the Upstream responses of HttpServer.*)
(***************************************************************************)
EXTENDS HttpServer

CONSTANTS
    Key,        \* the SHA1 digests
    Sha1,       \* the digest of every request
    Thread      \* the threads of the interpreter's io_service

ASSUME DigestsAssumption == Sha1 \in [Request -> Key]

VARIABLES
    task, pending, fetch, retrieving, pc, job, complete, raw_data, set, delivered, terminated,
    retrieved   \* the responses, up to their handing over

interpreterVars == <<task, pending, fetch, retrieved, retrieving,
                     pc, job, complete, raw_data, set, delivered, terminated>>
gatewayVars == <<vars, interpreterVars>>

\* What computeNames sees of a request; it does not look at it again afterwards.
Seen(q) ==
    CASE task[q] = "new" -> "short"
      [] task[q] \in {"running", "pending"} -> "nameable"
      [] task[q] \in {"queued", "discarded"} ->
            IF request[q].aborted THEN "aborted"
            ELSE IF Nameable(q) THEN "nameable" ELSE "short"

Interpreting == INSTANCE HttpNdnInterpreter
    WITH request <- [q \in Request |-> Seen(q)], response <- retrieved, Fetch <- Upstream

GatewayInit ==
    /\ Init
    /\ task = [q \in Request |-> "new"]
    /\ Interpreting!Init

---------------------------------------------------------------------------
\* A session's step; when it submits a request, the interpreter's handler is posted.
SessionStep(s) ==
    /\ Handler(s) \/ Client(s) \/ Timer(s)
    /\ task' = [q \in Request |->
                   IF task[q] = "new" /\ request'[q].submitted THEN "queued" ELSE task[q]]
    /\ UNCHANGED <<pending, fetch, retrieved, retrieving,
                   pc, job, complete, raw_data, set, delivered, terminated>>

\* The handler of an answer runs once the interpreter has posted it.
Answering(q, u) ==
    /\ \E i \in DOMAIN delivered[q] : delivered[q][i] = u
    /\ fromHttpSinkHandler(q, u)
    /\ UNCHANGED interpreterVars

\* The stream of a response goes on after it was handed over.
Streaming(u) ==
    /\ UpstreamGrows(u) \/ UpstreamCompletes(u) \/ UpstreamAborts(u)
    /\ UNCHANGED interpreterVars

NdnStep(u) ==
    /\ UNCHANGED <<vars, task>>
    /\ Interpreting!Network(u)

---------------------------------------------------------------------------
Discarding(t, q) ==
    /\ request' = [request EXCEPT ![q].settled = TRUE]
    /\ Interpreting!DiscardAborted(t, q)
    /\ UNCHANGED <<session, response, waiting, posted, heads, dropped>>

\* Naming and collapsing.
Naming(t) ==
    /\ UNCHANGED vars
    /\ \/ \E q \in Request : Interpreting!NameRequest(t, q)
       \/ Interpreting!OpenEntry(t) \/ Interpreting!JoinEntry(t)

\* Everything else a thread does without giving anything to the server.  (A request
\* that cannot be named yet is left as it is.)
Working(t) ==
    /\ UNCHANGED <<vars, task>>
    /\ \/ Interpreting!fromNdnSource(t)
       \/ \E u \in Upstream : Interpreting!StartHeader(t, u)
       \/ Interpreting!CheckFlags(t) \/ Interpreting!ReadData(t) \/ Interpreting!ParseHeader(t)
       \/ Interpreting!RetryHeader(t) \/ Interpreting!GiveUpOnHeader(t)
       \/ Interpreting!CollectThrows(t)
       \/ Interpreting!fromHttpSink(t) \/ Interpreting!EndDelivery(t)

\* The waiting requests are taken out: from here on they have the response as it is
\* now, whenever each of them is told.  posted holds the calls to come.
HandOver(t) ==
    LET u == job[t]
        Q == Interpreting!WaitingAt(fetch[u].key) IN
    /\ pc[t] = "collect" /\ fetch[u].key \in DOMAIN pending
    /\ \E o \in Retrieved(u, retrieved[u].parsed, retrieved[u].completed, retrieved[u].aborted) :
          response' = [response EXCEPT ![u] = o]
    /\ request' = Settled(Q, u)
    /\ posted' = posted \cup (Q \X {u})
    /\ UNCHANGED <<session, waiting, heads, dropped, task>>
    /\ Interpreting!CollectWaiting(t)

ThreadStep(t) ==
    \/ \E q \in Request : Discarding(t, q)
    \/ Naming(t) \/ Working(t) \/ HandOver(t)

GatewayNext ==
    \/ /\ ~terminated /\ ~Uncaught
       /\ \/ \E s \in Session : SessionStep(s)
          \/ \E q \in Request, u \in Upstream : Answering(q, u)
          \/ \E u \in Upstream : Streaming(u) \/ NdnStep(u)
          \/ \E t \in Thread : ThreadStep(t)
    \/ Finished /\ UNCHANGED interpreterVars

GatewaySpec == GatewayInit /\ [][GatewayNext]_gatewayVars

---------------------------------------------------------------------------
\* What a client is sent is the error of its own request, or the response of a
\* fetch that was made for the digest of a request of the same connection: no path
\* through both modules gives it a response fetched for something it did not ask for.
RightAnswer ==
    \A q \in Request : \A i \in DOMAIN heads[q] :
        LET o == heads[q][i] IN
        \/ o = q
        \/ o \in Upstream /\ \E m \in 1 .. q[2] : fetch[o].key = Sha1[<<q[1], m>>]

\* Each part does what it was modelled to do alone: HttpServer's assumptions about
\* the interpreter hold of this one, and the interpreter's about the server.
ImplementsParts == Spec /\ Interpreting!Spec
===========================================================================
