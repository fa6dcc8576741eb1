----------------------------- MODULE HttpClient ----------------------------
(***************************************************************************)
(* A session of the egress gateway's HttpClient (egw/http_client.cpp): it  *)
(* sends one request to its HTTP server while the request's body is still  *)
(* arriving over NDN, answers the NdnHttpInterpreter as soon as the header *)
(* of the response is there, and goes on filling the response stream.      *)
(* Sessions share nothing but the name resolver.                           *)
(*                                                                         *)
(* The handlers of a session run one after the other.  Two things happen   *)
(* between any two steps of a handler: the request stream is written by    *)
(* the NDN consumer, and a timer that expired has its handler queued,      *)
(* where cancelling the timer no longer reaches it.                        *)
(*                                                                         *)
(* The bytes of a body are tokens: a number n is a line announcing a chunk *)
(* of n bytes, Octet is any other byte (of data, a line end, a trailer).   *)
(* An exception that leaves a handler leaves the thread, and the program   *)
(* ends: nothing catches it in module.h.                                   *)
(***************************************************************************)
EXTENDS SeekableRawStream

CONSTANTS
    Endpoints,   \* how many addresses the server's name resolves to
    MaxBlocks,   \* bound: the blocks of a request body
    MaxLong,     \* the greatest number of a long
    Octet,
    Bodies       \* the response bodies: [framing, length, wire]

Framing == {"length", "chunked", "close", "none"}

\* A content-length that stoul throws for.
NoNumber == -1

\* Of the bytes that the server sends nothing is assumed: they can be fewer or more
\* than it announced, and no chunks at all.
ASSUME ConstantsAssumption ==
    /\ Endpoints \in Nat \ {0} /\ MaxBlocks \in Nat /\ MaxLong \in Nat
    /\ Octet \notin Int
    /\ Bodies \subseteq [framing : Framing, length : NoNumber .. 2 * MaxLong + 1,
                         wire : Seq(Int \cup {Octet})]

NoBody == [framing |-> "none", length |-> NoNumber, wire |-> <<>>]

VARIABLES
    pc,         \* the operation the session waits for, or its next step
    endpoint,   \* the address being connected to
    open,       \* the socket is open
    timer,      \* _timer is running
    due,        \* _timer expired, and timer_handler is queued
    request,    \* the raw stream of the request
    written,    \* the blocks of it written to the server
    body,       \* the response body the server is sending
    arrived,    \* how many of its bytes have reached _read_buffer so far
    chunk_size, \* the argument of read_response_body_chunk
    response,   \* the raw stream of the response
    answers     \* the calls of fromHttpSink for this request

socketVars == <<endpoint, open, timer, due>>
requestVars == <<request, written>>
responseVars == <<body, arrived, chunk_size, response, answers>>
vars == <<pc, endpoint, open, timer, due, request, written,
          body, arrived, chunk_size, response, answers>>

ReadingBody == {"body", "read_size", "chunk", "old"}

TypeOK ==
    /\ pc \in {"start", "resolve", "connect", "write_header", "header", "check", "read",
               "write_body", "poll", "response", "gone", "thrown"} \cup ReadingBody
    /\ endpoint \in 1 .. Endpoints + 1
    /\ open \in BOOLEAN /\ timer \in BOOLEAN /\ due \in BOOLEAN
    /\ request \in StreamOf(1 .. MaxBlocks) /\ written \in 0 .. MaxBlocks
    /\ body \in Bodies \cup {NoBody}
    /\ arrived \in 0 .. Len(body.wire)
    /\ chunk_size \in Int
    /\ response \in StreamOf(Int \cup {Octet})
    /\ answers \in Nat

Init ==
    /\ pc = "start"
    /\ endpoint = 1 /\ open = FALSE /\ timer = FALSE /\ due = FALSE
    /\ request = NewStream /\ written = 0
    /\ body = NoBody /\ arrived = 0 /\ chunk_size = -1
    /\ response = NewStream
    /\ answers = 0

---------------------------------------------------------------------------
\* Every failure before the response header: the response is aborted and given
\* to the interpreter.
AnswerAborted ==
    /\ response' = [response EXCEPT !.aborted = TRUE]
    /\ answers' = answers + 1
    /\ pc' = "gone"
    /\ UNCHANGED <<body, arrived, chunk_size, requestVars>>

(***************************************************************************)
(* Connecting.  The connect operation tries the addresses one by one; the  *)
(* timer closes the socket under it, and the session goes on with the next *)
(* address, or fails when there is none.                                   *)
(***************************************************************************)
Connect(e) ==
    /\ pc' = "connect"
    /\ endpoint' = e
    /\ open' = TRUE /\ timer' = TRUE

resolve_domain ==
    /\ pc = "start"
    /\ \/ pc' = "resolve" /\ UNCHANGED <<requestVars, responseVars>>
       \/ AnswerAborted
    /\ UNCHANGED socketVars

resolve_domain_handler ==
    /\ pc = "resolve"
    /\ \/ Connect(1) /\ UNCHANGED <<due, requestVars, responseVars>>
       \/ AnswerAborted /\ UNCHANGED socketVars

Connected ==
    /\ pc = "connect" /\ open /\ endpoint <= Endpoints
    /\ pc' = "header"
    /\ timer' = FALSE
    /\ UNCHANGED <<endpoint, open, due, requestVars, responseVars>>

\* The operation itself goes on to the next address.
ConnectRefused ==
    /\ pc = "connect" /\ open /\ endpoint <= Endpoints
    /\ endpoint' = endpoint + 1
    /\ UNCHANGED <<pc, open, timer, due, requestVars, responseVars>>

ConnectTimesOut ==
    /\ pc = "connect" /\ ~open /\ endpoint <= Endpoints
    /\ Connect(endpoint + 1)
    /\ UNCHANGED <<due, requestVars, responseVars>>

ConnectFails ==
    /\ pc = "connect" /\ endpoint > Endpoints
    /\ AnswerAborted
    /\ timer' = FALSE
    /\ UNCHANGED <<endpoint, open, due>>

---------------------------------------------------------------------------
(***************************************************************************)
(* Writing the request.  write_request_body asks whether the request is    *)
(* aborted, then reads from it: two steps.                                 *)
(***************************************************************************)
write_request_header ==
    /\ pc = "header"
    /\ \/ request.aborted /\ AnswerAborted
       \/ ~request.aborted /\ pc' = "write_header" /\ UNCHANGED <<requestVars, responseVars>>
    /\ UNCHANGED socketVars

HeaderWritten ==
    /\ pc = "write_header" /\ open
    /\ pc' = "check"
    /\ UNCHANGED <<socketVars, requestVars, responseVars>>

CheckRequest ==
    /\ pc = "check"
    /\ \/ request.aborted /\ AnswerAborted
       \/ ~request.aborted /\ pc' = "read" /\ UNCHANGED <<requestVars, responseVars>>
    /\ UNCHANGED socketVars

\* Mutant: the end of the data that is there is taken for the end of the body.
AvailableNow == IF written < Len(request.data) THEN 1 ELSE 0

Available == readRawData(request, written, 1)

WriteBlock ==
    /\ pc = "read" /\ Available > 0
    /\ pc' = "write_body"
    /\ UNCHANGED <<socketVars, requestVars, responseVars>>

BodyWritten ==
    /\ pc = "write_body" /\ open
    /\ written' = written + 1
    /\ pc' = "check"
    /\ UNCHANGED <<socketVars, request, responseVars>>

\* Nothing to write yet: the same timer brings the session back in 5 ms.
WaitForBlock ==
    /\ pc = "read" /\ Available < 0
    /\ pc' = "poll"
    /\ UNCHANGED <<socketVars, requestVars, responseVars>>

PollRequest ==
    /\ pc = "poll"
    /\ pc' = "check"
    /\ UNCHANGED <<socketVars, requestVars, responseVars>>

WriteFails ==
    /\ pc \in {"write_header", "write_body"}
    /\ AnswerAborted
    /\ UNCHANGED socketVars

---------------------------------------------------------------------------
\* Mutant: a read without a timer.
Awaiting(step) == pc' = step /\ UNCHANGED timer

\* Waiting for the next bytes, at most 5 seconds for a header and 2 for a body.
Await(step) == pc' = step /\ timer' = TRUE

read_response_header ==
    /\ pc = "read" /\ Available = 0
    /\ Await("response")
    /\ UNCHANGED <<endpoint, open, due, requestVars, responseVars>>

\* The bytes of the body that are in _read_buffer and not in the stream.
Buffered(n) == SubSeq(body.wire, Len(response.data) + 1, n)

\* The bytes left to read: an unsigned difference that becomes a long.
Remaining(length, n) ==
    IF length - n > MaxLong THEN length - n - 2 * (MaxLong + 1) ELSE length - n

\* An exception leaves the handler, which has cancelled the timer.
Throw == pc' = "thrown" /\ timer' = FALSE

\* The stream with everything received, completed when nothing is left to read: also
\* when more was received than was announced.
read_response_body(s, left) ==
    IF left > 0 THEN response' = s /\ Await("body")
    ELSE response' = [s EXCEPT !.completed = TRUE] /\ pc' = "gone" /\ timer' = FALSE

\* The response header, with the first bytes of the body.  The interpreter is
\* given the response before the body is read.
read_response_header_handler ==
    /\ pc = "response" /\ open
    /\ \E b \in Bodies :
       \E n \in 0 .. Len(b.wire) :
          LET filled == append_raw_data(response, SubSeq(b.wire, 1, n)) IN
          /\ body' = b /\ arrived' = n
          /\ CASE b.framing = "length"  ->
                    IF b.length = NoNumber THEN response' = filled /\ Throw
                    ELSE read_response_body(filled, Remaining(b.length, n))
               [] b.framing = "chunked" -> UNCHANGED response /\ Await("read_size")
               [] b.framing = "close"   -> response' = filled /\ Await("old")
               [] b.framing = "none"    -> read_response_body(response, 0)
    /\ answers' = answers + 1
    /\ UNCHANGED <<endpoint, open, due, requestVars, chunk_size>>

IllFormedHeader ==
    /\ pc = "response" /\ open
    /\ AnswerAborted
    /\ timer' = FALSE
    /\ UNCHANGED <<endpoint, open, due>>

\* At least one more byte.
MoreBytes == arrived + 1 .. Len(body.wire)

read_response_body_handler ==
    /\ pc = "body" /\ open
    /\ \E n \in MoreBytes :
          /\ arrived' = n
          /\ read_response_body(append_raw_data(response, Buffered(n)), Remaining(body.length, n))
    /\ UNCHANGED <<endpoint, open, due, requestVars, body, chunk_size, answers>>

\* What is done with a chunk of size bytes once taken bytes of the body are in the
\* stream and n have arrived: it is moved with its line end if both are there, and
\* the next size is read; else more is read.  The chunk of size 0 ends the body either
\* way, and its line end is whatever comes after it.  Below -2, size + 2 is a huge
\* unsigned number.
Chunk(size, taken, n) ==
    LET end == taken + size + 2
        whole == size >= -2 /\ n >= end
        next == IF whole THEN -size ELSE size IN
    /\ response' = [response EXCEPT
          !.data = SubSeq(body.wire, 1, IF whole THEN end ELSE taken), !.completed = next = 0]
    /\ IF next = 0 THEN pc' = "gone" /\ timer' = FALSE
       ELSE Await(IF next < 0 THEN "read_size" ELSE "chunk")
    /\ chunk_size' = next

\* The line with a chunk's size; it may be in the buffer already.  stol throws for one
\* that is no number.
ReadChunkSize ==
    LET taken == Len(response.data) IN
    /\ pc = "read_size" /\ open
    /\ \E n \in IF arrived > taken THEN {arrived} ELSE MoreBytes :
          /\ arrived' = n
          /\ IF body.wire[taken + 1] = Octet THEN Throw /\ UNCHANGED <<response, chunk_size>>
             ELSE Chunk(body.wire[taken + 1], taken + 1, n)
    /\ UNCHANGED <<endpoint, open, due, requestVars, body, answers>>

ReadChunk ==
    /\ pc = "chunk" /\ open
    /\ \E n \in MoreBytes :
          /\ arrived' = n
          /\ Chunk(chunk_size, Len(response.data), n)
    /\ UNCHANGED <<endpoint, open, due, requestVars, body, answers>>

\* Neither a length nor chunks: the end of the connection ends the body.
read_response_body_old_handler ==
    /\ pc = "old" /\ open
    /\ \/ \E n \in MoreBytes :
             /\ arrived' = n
             /\ response' = append_raw_data(response, Buffered(n))
             /\ Await("old")
       \/ /\ response' = [response EXCEPT !.completed = TRUE]
          /\ pc' = "gone" /\ timer' = FALSE
          /\ UNCHANGED arrived
    /\ UNCHANGED <<endpoint, open, due, requestVars, body, chunk_size, answers>>

ResponseFails ==
    /\ pc = "response"
    /\ AnswerAborted
    /\ timer' = FALSE
    /\ UNCHANGED <<endpoint, open, due>>

\* Mutants: a body that fails completes the response; it is answered again.
BodyEndsEarly ==
    /\ pc \in ReadingBody
    /\ response' = [response EXCEPT !.completed = TRUE]
    /\ pc' = "gone" /\ timer' = FALSE
    /\ UNCHANGED <<endpoint, open, due, requestVars, body, arrived, chunk_size, answers>>

BodyFailsAnswered ==
    /\ pc \in ReadingBody
    /\ AnswerAborted
    /\ timer' = FALSE
    /\ UNCHANGED <<endpoint, open, due>>

\* The connection is lost or was closed by timer_handler.
BodyFails ==
    /\ pc \in ReadingBody
    /\ response' = [response EXCEPT !.aborted = TRUE]
    /\ pc' = "gone" /\ timer' = FALSE
    /\ UNCHANGED <<endpoint, open, due, requestVars, body, arrived, chunk_size, answers>>

---------------------------------------------------------------------------
TimerExpires ==
    /\ timer  \* of which there is none when the program has ended
    /\ timer' = FALSE /\ due' = TRUE
    /\ UNCHANGED <<pc, endpoint, open, requestVars, responseVars>>

timer_handler ==
    /\ due /\ pc # "thrown"
    /\ due' = FALSE /\ open' = FALSE
    /\ UNCHANGED <<pc, endpoint, timer, requestVars, responseVars>>

\* The NDN consumer writes the request stream, and ends it.
RequestGrows ==
    /\ ~Ended(request) /\ Len(request.data) < MaxBlocks /\ pc # "thrown"
    /\ request' = append_raw_data(request, <<Len(request.data) + 1>>)
    /\ UNCHANGED <<pc, socketVars, written, responseVars>>

RequestEnds ==
    /\ ~Ended(request) /\ pc # "thrown"
    /\ request' \in {[request EXCEPT !.completed = TRUE], [request EXCEPT !.aborted = TRUE]}
    /\ UNCHANGED <<pc, socketVars, written, responseVars>>

---------------------------------------------------------------------------
Connecting ==
    \/ resolve_domain \/ resolve_domain_handler \/ Connected \/ ConnectRefused
    \/ ConnectTimesOut \/ ConnectFails

Writing ==
    \/ write_request_header \/ HeaderWritten \/ CheckRequest \/ WriteBlock \/ BodyWritten
    \/ WaitForBlock \/ PollRequest \/ WriteFails

Reading ==
    \/ read_response_header \/ read_response_header_handler \/ IllFormedHeader
    \/ read_response_body_handler \/ ReadChunkSize \/ ReadChunk
    \/ read_response_body_old_handler \/ ResponseFails \/ BodyFails

Finished == pc \in {"gone", "thrown"} /\ UNCHANGED vars

Next ==
    \/ Connecting \/ Writing \/ Reading
    \/ TimerExpires \/ timer_handler
    \/ RequestGrows \/ RequestEnds
    \/ Finished

Spec == Init /\ [][Next]_vars

(***************************************************************************)
(* The timer runs, its handler runs, and a read on a closed socket fails.  *)
(* Nothing is assumed of the server.                                       *)
(***************************************************************************)
FairSpec ==
    /\ Spec
    /\ WF_vars(TimerExpires) /\ WF_vars(timer_handler)
    /\ WF_vars(~open /\ (ResponseFails \/ BodyFails))

---------------------------------------------------------------------------
\* The interpreter is answered once for every request, by whichever of the dozen
\* failures or by the header; and a session that is gone leaves an answered
\* request and a response stream that has ended, so nobody polls it for ever.
AnsweredOnce ==
    /\ answers <= 1
    /\ Ended(response) => answers = 1
    /\ pc = "gone" => Ended(response)

\* A response is completed only when its body is whole, however its bytes were
\* split into reads: all of content-length (and what came after that in the same
\* reads), or every chunk up to the one of size 0, whose line end may be missing, or be
\* two bytes of the trailers.  (From a length that is no long, none is waited for.)
CompleteIsWhole ==
    response.completed =>
        /\ body.framing = "length" /\ body.length <= MaxLong =>
              Len(response.data) >= body.length
        /\ body.framing = "chunked" =>
              \E i \in 1 .. Len(response.data) : body.wire[i] = 0
        /\ body.framing \in {"length", "chunked"} =>
              response.data = SubSeq(body.wire, 1, Len(response.data))

\* A response that is being read ends, and its stream with it: a silent server is
\* given up on, so nobody polls the stream for ever.  Else the program has ended: a
\* content-length or a chunk size was no number (203, 280).
EveryReadEnds ==
    pc \in {"response"} \cup ReadingBody ~>
       (pc = "gone" /\ Ended(response)) \/ pc = "thrown"

\* When the session turns to the response, the request stream has ended and all of
\* it was sent, however the blocks arrived: the server never waits for the rest of a
\* request.  The stream can have been aborted between the question for that (120)
\* and the read (121): a request cut short is then sent as if it were whole.
RequestSentWhole ==
    pc \in {"response"} \cup ReadingBody => Ended(request) /\ written = Len(request.data)

\* A session is what the interpreter relies on: one answer, nothing in the stream
\* before it, and a stream that only grows and ends once.
Side == INSTANCE HttpSide
    WITH data <- response.data, completed <- response.completed, aborted <- response.aborted
ImplementsHttpSide == Side!Spec
===========================================================================
