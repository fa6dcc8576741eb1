---------------------------- MODULE HttpServer ----------------------------
(***************************************************************************)
(* The ingress gateway's HttpServer (igw/http_server.cpp).                 *)
(*                                                                         *)
(* A session serves one client connection: it reads a request, hands it to *)
(* the HttpNdnInterpreter, enters itself in _waiting_sessions, waits for   *)
(* the response or for 15 seconds, writes what it has, and on a keep-alive *)
(* response starts over.  Its own handlers run one at a time, on a strand; *)
(* fromHttpSinkHandler runs on any other thread of the pool and assigns    *)
(* the session's _http_response while a handler of the session runs.  A    *)
(* handler is therefore cut where it uses _http_response or the map.       *)
(*                                                                         *)
(* A stream's data are counted in write buffers: an element of data stands *)
(* for what one readRawData copies, and names the response it belongs to.  *)
(*                                                                         *)
(* The interpreter is the one RequestCollapsing specifies: requests it can *)
(* name are settled in batches, each batch with one response object.       *)
(***************************************************************************)
EXTENDS SeekableRawStream, FiniteSets

CONSTANTS
    Session,     \* the connections accepted
    Upstream,    \* the response objects the interpreter makes
    MaxRequests, \* bound: the requests of one connection
    MaxBlocks    \* bound: the body blocks of an upstream response

ASSUME BoundsAssumption == MaxRequests \in Nat \ {0} /\ MaxBlocks \in Nat

Request == Session \X (1 .. MaxRequests)
Response == Upstream \cup Request    \* a request names the error made for it
None == <<>>

ASSUME UpstreamAssumption == Upstream \cap Request = {} /\ None \notin Upstream

VARIABLES
    session,    \* the members of each HttpSession, and where its handler stands
    request,    \* the request streams, and what the interpreter made of them
    response,   \* the response objects
    waiting,    \* _waiting_sessions: requests, each with its own session
    posted,     \* fromHttpSink calls not yet run: <<request, response>>
    heads,      \* the response headers written for each request, by response
    dropped     \* requests whose response came before their session waited

vars == <<session, request, response, waiting, posted, heads, dropped>>

\* pc: the handler that runs next, or the operation the session waits for; "thrown"
\* when an exception has left the handler.
MidHandler == {"enter", "arm", "finish", "respond", "fill", "fillBad", "fillRefused",
               "erase", "head", "read"}
Waiting == {"header", "body", "waiting", "writeHeader", "writeBody", "poll"}

TypeOK ==
    /\ session \in [Session -> [pc : {"new", "gone", "thrown"} \cup MidHandler \cup Waiting,
                                n : 0 .. MaxRequests,
                                response : Response \cup {None},
                                pos : Nat, open : BOOLEAN,
                                readTimer : BOOLEAN, readDue : BOOLEAN,
                                writeTimer : {"off", "armed", "due"}]]
    /\ request \in [Request -> [submitted : BOOLEAN, long : BOOLEAN, completed : BOOLEAN,
                                aborted : BOOLEAN, settled : BOOLEAN,
                                answer : Upstream \cup {None}]]
    /\ response \in [Response -> [made : BOOLEAN, parsed : BOOLEAN, keepAlive : BOOLEAN,
                                  stream : StreamOf(Response)]]
    /\ waiting \subseteq Request
    /\ posted \subseteq Request \X Upstream
    /\ heads \in [Request -> Seq(Response)]
    /\ dropped \subseteq Request

Init ==
    /\ session = [s \in Session |-> [pc |-> "new", n |-> 0, response |-> None, pos |-> 0,
                                     open |-> TRUE, readTimer |-> FALSE, readDue |-> FALSE,
                                     writeTimer |-> "off"]]
    /\ request = [q \in Request |-> [submitted |-> FALSE, long |-> FALSE, completed |-> FALSE,
                                     aborted |-> FALSE, settled |-> FALSE, answer |-> None]]
    /\ response = [o \in Response |-> [made |-> FALSE, parsed |-> FALSE, keepAlive |-> FALSE,
                                       stream |-> NewStream]]
    /\ waiting = {} /\ posted = {} /\ dropped = {}
    /\ heads = [q \in Request |-> <<>>]

---------------------------------------------------------------------------
Current(s) == <<s, session[s].n>>
Goto(s, pc) == session' = [session EXCEPT ![s].pc = pc]
AbortResponse(o) == [response EXCEPT ![o].stream.aborted = TRUE]

\* An error response: a new object is assigned to _http_response, to be filled next.
MakeError(s, next) ==
    /\ response' = [response EXCEPT ![Current(s)].made = TRUE]
    /\ session' = [session EXCEPT ![s].pc = next, ![s].readTimer = FALSE,
                                  ![s].response = Current(s)]

\* It is filled through _http_response, whatever that is by then.
AfterFill == [fill |-> "erase", fillBad |-> "head", fillRefused |-> "respond"]
FillError(s) ==
    LET o == session[s].response IN
    /\ session[s].pc \in DOMAIN AfterFill
    /\ response' = [response EXCEPT
          ![o].parsed = TRUE, ![o].keepAlive = FALSE,
          ![o].stream = [append_raw_data(@, <<Current(s)>>) EXCEPT !.completed = TRUE]]
    /\ Goto(s, AfterFill[session[s].pc])
    /\ UNCHANGED <<request, waiting, posted, heads, dropped>>

(***************************************************************************)
(* Reading a request.  The read timer is armed with every read and         *)
(* cancelled by its handler; once expired its handler is queued behind the *)
(* handler that is running, and the cancellation comes too late.           *)
(***************************************************************************)
\* start(): a new request object; the previous response stays in _http_response.
Started(member) ==
    [member EXCEPT !.pc = "header", !.n = @ + 1, !.readTimer = TRUE]

accept_handler(s) ==
    /\ session[s].pc = "new"
    /\ session' = [session EXCEPT ![s] = Started(@)]
    /\ UNCHANGED <<request, response, waiting, posted, heads, dropped>>

\* The header is there, and with it nothing more to read (a method without a
\* body, or the body came along), or a body to wait for.  The request is
\* submitted before the session is entered in _waiting_sessions.
ReadRequest(s) ==
    /\ session[s].pc = "header" /\ session[s].open
    /\ \E long \in BOOLEAN :
          request' = [request EXCEPT ![Current(s)].submitted = TRUE,
                                     ![Current(s)].long = long]
    /\ \/ session' = [session EXCEPT ![s].pc = "enter", ![s].readTimer = FALSE]
       \/ session' = [session EXCEPT ![s].pc = "body", ![s].readTimer = TRUE]
    /\ UNCHANGED <<response, waiting, posted, heads, dropped>>

\* A malformed header (400) or an unknown method (501).
RefuseRequest(s) ==
    /\ session[s].pc = "header" /\ session[s].open
    /\ MakeError(s, "fillRefused")
    /\ UNCHANGED <<request, waiting, posted, heads, dropped>>

\* Part of the body; some of it, or all that was missing.  A body that overruns
\* its content-length makes the remaining count wrap: it never ends.
ReadBody(s) ==
    /\ session[s].pc = "body" /\ session[s].open
    /\ \E long \in {request[Current(s)].long, TRUE} :
          request' = [request EXCEPT ![Current(s)].long = long]
    /\ \/ session' = [session EXCEPT ![s].readTimer = TRUE]
       \/ session' = [session EXCEPT ![s].pc = "enter", ![s].readTimer = FALSE]
    /\ UNCHANGED <<response, waiting, posted, heads, dropped>>

\* The content-length (154) or the size of a chunk (262) is no number: stoul and stol
\* throw, nothing catches it (see Module::run in module.h), and the gateway ends.
BodyThrows(s) ==
    /\ session[s].pc = "body" /\ session[s].open
    /\ session' = [session EXCEPT ![s].pc = "thrown", ![s].readTimer = FALSE]
    /\ UNCHANGED <<request, response, waiting, posted, heads, dropped>>

Uncaught == \E s \in Session : session[s].pc = "thrown"

\* The client closed the connection, or a timer did.  Without a body to read
\* nothing happens: no handler is left, and the session is destroyed.
ReadFails(s) ==
    /\ session[s].pc \in {"header", "body"}
    /\ request' = IF session[s].pc = "body"
                    THEN [request EXCEPT ![Current(s)].aborted = TRUE] ELSE request
    /\ session' = [session EXCEPT ![s].pc = "gone", ![s].readTimer = FALSE]
    /\ UNCHANGED <<response, waiting, posted, heads, dropped>>

ReadTimerExpires(s) ==
    /\ session[s].readTimer
    /\ session' = [session EXCEPT ![s].readTimer = FALSE, ![s].readDue = TRUE]
    /\ UNCHANGED <<request, response, waiting, posted, heads, dropped>>

timer_handler(s) ==
    /\ session[s].readDue /\ session[s].pc \notin MidHandler
    /\ request' = [request EXCEPT ![Current(s)].aborted = TRUE]
    /\ response' = IF session[s].response = None THEN response
                   ELSE AbortResponse(session[s].response)
    /\ session' = [session EXCEPT ![s].readDue = FALSE, ![s].open = FALSE]
    /\ UNCHANGED <<waiting, posted, heads, dropped>>

---------------------------------------------------------------------------
(***************************************************************************)
(* The request is read: enter the map, arm the timer, complete the stream. *)
(* A request that is not long cannot be named, hence not answered, before  *)
(* the last of these steps.                                                *)
(***************************************************************************)
\* Mutant: the stream is completed before the session can be found.
EnteredLate(s) ==
    /\ session[s].pc = "enter"
    /\ request' = [request EXCEPT ![Current(s)].completed = TRUE]
    /\ IF request[Current(s)].completed
         THEN waiting' = waiting \cup {Current(s)} /\ Goto(s, "arm")
         ELSE UNCHANGED <<waiting, session>>
    /\ UNCHANGED <<response, posted, heads, dropped>>

EnterWaiting(s) ==
    /\ session[s].pc = "enter"
    /\ waiting' = waiting \cup {Current(s)}
    /\ Goto(s, "arm")
    /\ UNCHANGED <<request, response, posted, heads, dropped>>

\* Mutant: the stream is completed before the timer that the answer cancels is armed.
ArmedLate(s) ==
    /\ session[s].pc = "arm"
    /\ request' = [request EXCEPT ![Current(s)].completed = TRUE]
    /\ session' = IF request[Current(s)].completed
                    THEN [session EXCEPT ![s].pc = "finish", ![s].writeTimer = "armed"]
                    ELSE session
    /\ UNCHANGED <<response, waiting, posted, heads, dropped>>

ArmWriteTimer(s) ==
    /\ session[s].pc = "arm"
    /\ session' = [session EXCEPT ![s].pc = "finish", ![s].writeTimer = "armed"]
    /\ UNCHANGED <<request, response, waiting, posted, heads, dropped>>

CompleteRequest(s) ==
    /\ session[s].pc = "finish"
    /\ request' = [request EXCEPT ![Current(s)].completed = TRUE]
    /\ Goto(s, "waiting")
    /\ UNCHANGED <<response, waiting, posted, heads, dropped>>

WriteTimerExpires(s) ==
    /\ session[s].writeTimer = "armed"
    /\ session' = [session EXCEPT ![s].writeTimer = "due"]
    /\ UNCHANGED <<request, response, waiting, posted, heads, dropped>>

---------------------------------------------------------------------------
(***************************************************************************)
(* write_response: called when the write timer expires or is cancelled,    *)
(* with whatever is in _http_response.                                     *)
(***************************************************************************)
\* Mutant: without a response the timer is armed again.
WaitAgain(s) ==
    /\ session[s].pc = "waiting" /\ session[s].writeTimer = "due"
    /\ session' = IF session[s].response = None
                    THEN [session EXCEPT ![s].writeTimer = "armed"]
                    ELSE [session EXCEPT ![s].pc = "respond", ![s].writeTimer = "off"]
    /\ UNCHANGED <<request, response, waiting, posted, heads, dropped>>

write_response(s) ==
    /\ session[s].pc = "waiting" /\ session[s].writeTimer = "due"
    /\ session' = [session EXCEPT ![s].pc = "respond", ![s].writeTimer = "off"]
    /\ UNCHANGED <<request, response, waiting, posted, heads, dropped>>

Unusable(s) ==
    IF session[s].response = None THEN TRUE
    ELSE response[session[s].response].stream.aborted

\* 504.
MakeTimeout(s) ==
    /\ session[s].pc = "respond" /\ Unusable(s)
    /\ MakeError(s, "fill")
    /\ UNCHANGED <<request, waiting, posted, heads, dropped>>

\* Mutant: the session that gave up is left in the map.
StillWaiting(s) ==
    /\ session[s].pc = "erase"
    /\ Goto(s, "head")
    /\ UNCHANGED <<request, response, waiting, posted, heads, dropped>>

\* Once the 504 is filled, the session no longer waits.
EraseWaiting(s) ==
    /\ session[s].pc = "erase"
    /\ waiting' = waiting \ {Current(s)}
    /\ Goto(s, "head")
    /\ UNCHANGED <<request, response, posted, heads, dropped>>

\* 502: the response has no header that could be parsed.
MakeBadGateway(s) ==
    /\ session[s].pc = "respond" /\ ~Unusable(s)
    /\ ~response[session[s].response].parsed
    /\ MakeError(s, "fillBad")
    /\ UNCHANGED <<request, waiting, posted, heads, dropped>>

UseResponse(s) ==
    /\ session[s].pc = "respond" /\ ~Unusable(s)
    /\ response[session[s].response].parsed
    /\ Goto(s, "head")
    /\ UNCHANGED <<request, response, waiting, posted, heads, dropped>>

---------------------------------------------------------------------------
(***************************************************************************)
(* Writing the header, then the body block by block as it comes in.        *)
(***************************************************************************)
write_response_header(s) ==
    /\ session[s].pc = "head"
    /\ heads' = [heads EXCEPT ![Current(s)] = Append(@, session[s].response)]
    /\ Goto(s, "writeHeader")
    /\ UNCHANGED <<request, response, waiting, posted, dropped>>

HeaderWritten(s) ==
    /\ session[s].pc = "writeHeader" /\ session[s].open
    /\ session' = [session EXCEPT ![s].pc = "read", ![s].pos = 0]
    /\ UNCHANGED <<request, response, waiting, posted, heads, dropped>>

\* write_response_body: a block to write, or the wait for one, or the end.
Available(s) == readRawData(response[session[s].response].stream, session[s].pos, 1)

ReadResponse(s) ==
    /\ session[s].pc = "read" /\ Available(s) # 0
    /\ Goto(s, IF Available(s) > 0 THEN "writeBody" ELSE "poll")
    /\ UNCHANGED <<request, response, waiting, posted, heads, dropped>>

BodyWritten(s) ==
    /\ session[s].pc = "writeBody" /\ session[s].open
    /\ session' = [session EXCEPT ![s].pc = "read", ![s].pos = @ + 1]
    /\ UNCHANGED <<request, response, waiting, posted, heads, dropped>>

\* Mutant: the write timer always calls write_response.
RespondAgain(s) ==
    /\ session[s].pc = "poll"
    /\ Goto(s, "respond")
    /\ UNCHANGED <<request, response, waiting, posted, heads, dropped>>

PollResponse(s) ==
    /\ session[s].pc = "poll"
    /\ Goto(s, "read")
    /\ UNCHANGED <<request, response, waiting, posted, heads, dropped>>

\* A write error aborts the response, which other sessions may be writing too.
WriteFails(s) ==
    /\ session[s].pc \in {"writeHeader", "writeBody"}
    /\ response' = AbortResponse(session[s].response)
    /\ Goto(s, "gone")
    /\ UNCHANGED <<request, waiting, posted, heads, dropped>>

\* Nothing left to write: start over on a keep-alive connection.  After
\* MaxRequests requests the client closes it.
EndResponse(s) ==
    /\ session[s].pc = "read" /\ Available(s) = 0
    /\ IF response[session[s].response].keepAlive /\ session[s].n < MaxRequests
         THEN session' = [session EXCEPT ![s] = Started(@)]
         ELSE Goto(s, "gone")
    /\ UNCHANGED <<request, response, waiting, posted, heads, dropped>>

---------------------------------------------------------------------------
(***************************************************************************)
(* fromHttpSinkHandler, on any thread.  _waiting_sessions holds a weak     *)
(* pointer: a session is alive while one of its handlers is to come.       *)
(***************************************************************************)
Alive(s) == session[s].pc # "gone" \/ session[s].readDue

\* Mutant: the entry is erased only when its session could be notified.
ErasedIfAlive(q) == IF Alive(q[1]) THEN {q} ELSE {}

EntryErased(q) == {q}

fromHttpSinkHandler(q, u) ==
    LET s == q[1] IN
    /\ <<q, u>> \in posted
    /\ posted' = posted \ {<<q, u>>}
    /\ session' = IF q \in waiting /\ Alive(s)
                    THEN [session EXCEPT ![s].response = u,
                             ![s].writeTimer = IF @ = "armed" THEN "due" ELSE @]
                    ELSE session
    /\ waiting' = waiting \ EntryErased(q)
    /\ dropped' = IF q \notin waiting /\ Current(s) = q
                        /\ session[s].pc \in {"header", "body", "enter"}
                    THEN dropped \cup {q} ELSE dropped
    /\ UNCHANGED <<request, response, heads>>

---------------------------------------------------------------------------
(***************************************************************************)
(* The interpreter and what is behind it.  A request can be named, so      *)
(* settled, once it is long or complete; an aborted one is discarded.      *)
(***************************************************************************)
Nameable(q) == request[q].submitted /\ (request[q].completed \/ request[q].long)

\* A response comes with its header parsed, or aborted, or at its end unparsed;
\* some or all of its body can be there.
Retrieved(u, parsed, completed, aborted) ==
    [made : {TRUE}, parsed : {parsed}, keepAlive : IF parsed THEN BOOLEAN ELSE {FALSE},
     stream : [data : {[i \in 1 .. n |-> u] : n \in 0 .. MaxBlocks},
               completed : {completed}, aborted : {aborted}]]

Settled(Q, u) ==
    [q \in Request |-> IF q \in Q THEN [request[q] EXCEPT !.settled = TRUE, !.answer = u]
                       ELSE request[q]]

Settle(u, Q) ==
    /\ ~response[u].made /\ Q # {}
    /\ \A q \in Q : Nameable(q) /\ ~request[q].settled
    /\ \E parsed, completed, aborted \in BOOLEAN :
          /\ parsed \/ completed \/ aborted
          /\ \E o \in Retrieved(u, parsed, completed, aborted) :
                response' = [response EXCEPT ![u] = o]
    /\ request' = Settled(Q, u)
    /\ posted' = posted \cup (Q \X {u})
    /\ UNCHANGED <<session, waiting, heads, dropped>>

Discard(q) ==
    /\ request[q].submitted /\ request[q].aborted /\ ~request[q].settled
    /\ request' = [request EXCEPT ![q].settled = TRUE]
    /\ UNCHANGED <<session, response, waiting, posted, heads, dropped>>

\* The response is still being retrieved, whatever the sessions do with it.
UpstreamGrows(u) ==
    /\ response[u].made /\ ~response[u].stream.completed
    /\ Len(response[u].stream.data) < MaxBlocks
    /\ response' = [response EXCEPT ![u].stream = append_raw_data(@, <<u>>)]
    /\ UNCHANGED <<session, request, waiting, posted, heads, dropped>>

UpstreamCompletes(u) ==
    /\ response[u].made /\ ~response[u].stream.completed
    /\ response' = [response EXCEPT ![u].stream.completed = TRUE]
    /\ UNCHANGED <<session, request, waiting, posted, heads, dropped>>

UpstreamAborts(u) ==
    /\ response[u].made /\ ~Ended(response[u].stream)
    /\ response' = AbortResponse(u)
    /\ UNCHANGED <<session, request, waiting, posted, heads, dropped>>

---------------------------------------------------------------------------
Handler(s) ==
    \/ EnterWaiting(s) \/ ArmWriteTimer(s) \/ CompleteRequest(s)
    \/ write_response(s) \/ MakeTimeout(s) \/ FillError(s) \/ EraseWaiting(s)
    \/ MakeBadGateway(s) \/ UseResponse(s) \/ write_response_header(s)
    \/ ReadResponse(s) \/ EndResponse(s)

Client(s) ==
    \/ accept_handler(s) \/ ReadRequest(s) \/ RefuseRequest(s) \/ ReadBody(s) \/ BodyThrows(s)
    \/ ReadFails(s) \/ HeaderWritten(s) \/ BodyWritten(s) \/ WriteFails(s)

Timer(s) == ReadTimerExpires(s) \/ timer_handler(s) \/ WriteTimerExpires(s) \/ PollResponse(s)

Interpreter ==
    \/ \E u \in Upstream : \E Q \in SUBSET Request : Settle(u, Q)
    \/ \E q \in Request : Discard(q)
    \/ \E u \in Upstream : UpstreamGrows(u) \/ UpstreamCompletes(u) \/ UpstreamAborts(u)

Finished ==
    /\ Uncaught \/ \A s \in Session : session[s].pc = "gone"
    /\ UNCHANGED vars

Next ==
    \/ /\ ~Uncaught
       /\ \/ \E s \in Session : Handler(s) \/ Client(s) \/ Timer(s)
          \/ \E q \in Request, u \in Upstream : fromHttpSinkHandler(q, u)
          \/ Interpreter
    \/ Finished

Spec == Init /\ [][Next]_vars

(***************************************************************************)
(* A handler that can run runs, the 15-second timer expires, and the       *)
(* interpreter settles or discards every request it was given (what        *)
(* RequestCollapsing promises).  Nothing is assumed of the client: a       *)
(* write may block for ever, there is no timer for it.                     *)
(***************************************************************************)
SettleOne(q) ==
    \/ \E u \in Upstream : \E Q \in SUBSET Request : q \in Q /\ Settle(u, Q)
    \/ Discard(q)

FairSpec ==
    /\ Spec
    /\ \A s \in Session :
          WF_vars(~Uncaught /\ Handler(s)) /\ WF_vars(~Uncaught /\ WriteTimerExpires(s))
    /\ \A q \in Request :
          /\ WF_vars(~Uncaught /\ \E u \in Upstream : fromHttpSinkHandler(q, u))
          /\ WF_vars(~Uncaught /\ SettleOne(q))

---------------------------------------------------------------------------
\* A response is handed over before the session can be found, and lost, only for
\* a request whose long body let the interpreter name it early: a GET always
\* enters _waiting_sessions (138-141) before its stream is completed (144).
DroppedOnlyLong == \A q \in dropped : request[q].long

\* An answer that has come is not left lying until the 15 seconds are over: the
\* session is woken at once, unless the request was long and its answer came
\* between the emplace and the arming of the timer that notify() cancels, or a
\* read timer that fired too late has aborted the response.
AnswerWakesSession ==
    \A s \in Session :
        LET q == Current(s) IN
        /\ session[s].pc = "waiting" /\ session[s].writeTimer = "armed"
        /\ session[s].response # None /\ session[s].response = request[q].answer
        => request[q].long

\* A request gets at most one header, and it is that of the response made for it
\* by the interpreter, of its own error, or, on a connection kept alive, of an
\* earlier request of the same connection: start() does not reset _http_response.
\* A response meant for another client is never sent.
OwnAnswer ==
    \A q \in Request :
        /\ Len(heads[q]) <= 1
        /\ \A o \in {heads[q][i] : i \in DOMAIN heads[q]} :
              \/ o = q
              \/ \E m \in 1 .. q[2] : o = request[<<q[1], m>>].answer

\* Once its header is being written, the response of the first request of a
\* connection is not replaced by another one, so header and body belong
\* together: on a timeout the session leaves the map before it writes (294-295).
Responding(s) == session[s].pc \in {"writeHeader", "writeBody", "read", "poll"}
HeadFixesResponse ==
    [][\A s \in Session :
          Responding(s) /\ Responding(s)' /\ session[s].n = 1 /\ session'[s].n = 1
             => session'[s].response = session[s].response]_vars

\* A session that waits stops waiting: with an answer or after 15 seconds, unless an
\* exception in another session ends the gateway.
EveryWaitEnds ==
    \A s \in Session : session[s].pc = "waiting" ~> session[s].pc # "waiting" \/ Uncaught

\* _waiting_sessions keeps no entry for ever, even when the session is destroyed
\* before the response comes.  On a kept-alive connection the stale response may
\* be sent in place of the 504 that would have erased the entry (281-295); then
\* the entry is left to the answer, and stays if that was dropped before the
\* emplace or will not come because a late read timer aborted the request.
EveryEntryErased ==
    \A q \in Request :
        q \in waiting /\ q \notin dropped ~>
            q \notin waiting \/ request[q].aborted \/ Uncaught

\* "response completed" (334): when a session finds nothing left to write, the
\* response it wrote was complete.
ResponseCompleted ==
    \A s \in Session :
        session[s].pc = "read" /\ Available(s) = 0
            => response[session[s].response].stream.completed
===========================================================================
