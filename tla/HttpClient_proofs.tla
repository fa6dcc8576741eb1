-------------------------- MODULE HttpClient_proofs ------------------------
(***************************************************************************)
(* The invariants of a session of the HttpClient, for any number of        *)
(* addresses, any length of the request, and any response bodies.          *)
(***************************************************************************)
EXTENDS HttpClient, SequenceTheorems, TLAPS

---------------------------------------------------------------------------
(***************************************************************************)
(* The inductive invariant.                                                *)
(***************************************************************************)
Byte == Int \cup {Octet}

BeforeHeader == {"start", "resolve", "connect", "write_header", "header", "check", "read",
                 "write_body", "poll", "response"}

\* When the interpreter has been answered, and the stream has ended.
AnsweredSoFar ==
    /\ pc \in BeforeHeader => answers = 0 /\ ~Ended(response) /\ response.data = <<>>
    /\ pc \in ReadingBody \cup {"thrown"} => answers = 1 /\ ~Ended(response)
    /\ pc = "gone" => answers = 1 /\ Ended(response)

\* What is in the stream is the beginning of the body, and has arrived.
BodySoFar ==
    /\ Len(response.data) <= arrived
    /\ response.data = SubSeq(body.wire, 1, Len(response.data))
    /\ pc = "body" => body.framing = "length"
    /\ pc \in {"read_size", "chunk"} => body.framing = "chunked" /\ body \in Bodies
    /\ pc = "chunk" => chunk_size > 0
    /\ pc = "old" => body.framing = "close"

\* What was written is the beginning of the request.
RequestSoFar ==
    /\ Len(request.data) <= MaxBlocks
    /\ written <= Len(request.data)
    /\ pc = "write_body" => written < Len(request.data)

IInv ==
    TypeOK /\ AnsweredSoFar /\ BodySoFar /\ RequestSoFar /\ RequestSentWhole /\ CompleteIsWhole

---------------------------------------------------------------------------
LEMMA Constants == MaxBlocks \in Nat /\ Endpoints \in Nat \ {0}
BY ConstantsAssumption

LEMMA WireTyped ==
    ASSUME NEW b \in Bodies \cup {NoBody}
    PROVE  /\ b.wire \in Seq(Byte) /\ b.framing \in Framing /\ Len(b.wire) \in Nat
           /\ b.length \in Int
<1>1. CASE b \in Bodies
  <2>1. b \in [framing : Framing, length : NoNumber .. 2 * MaxLong + 1, wire : Seq(Byte)]
    BY <1>1, ConstantsAssumption DEF Byte
  <2>. QED
    BY <2>1
<1>2. CASE b = NoBody
  BY <1>2 DEF NoBody, NoNumber, Framing
<1>. QED
  BY <1>1, <1>2

\* The streams and their lengths.
LEMMA StreamsTyped ==
    ASSUME TypeOK
    PROVE  /\ request.data \in Seq(1 .. MaxBlocks) /\ Len(request.data) \in Nat
           /\ response.data \in Seq(Byte) /\ Len(response.data) \in Nat
           /\ written \in 0 .. MaxBlocks /\ written \in Nat
           /\ arrived \in 0 .. Len(body.wire) /\ body.wire \in Seq(Byte)
           /\ Len(body.wire) \in Nat
<1>1. /\ request \in StreamOf(1 .. MaxBlocks) /\ response \in StreamOf(Byte)
      /\ written \in 0 .. MaxBlocks /\ arrived \in 0 .. Len(body.wire)
      /\ body \in Bodies \cup {NoBody}
  BY DEF TypeOK, Byte
<1>2. body.wire \in Seq(Byte) /\ Len(body.wire) \in Nat
  BY <1>1, WireTyped
<1>3. request.data \in Seq(1 .. MaxBlocks) /\ response.data \in Seq(Byte)
  BY <1>1 DEF StreamOf
<1>. QED
  BY <1>1, <1>2, <1>3, Constants

LEMMA InitIInv == Init => IInv
<1> SUFFICES ASSUME Init PROVE IInv
  OBVIOUS
<1> USE Constants DEF Init, NewStream
<1>1. TypeOK
  <2>1. request \in StreamOf(1 .. MaxBlocks) /\ response \in StreamOf(Int \cup {Octet})
    BY DEF StreamOf
  <2>2. /\ endpoint \in 1 .. Endpoints + 1 /\ written \in 0 .. MaxBlocks
        /\ arrived \in 0 .. Len(body.wire)
    BY DEF NoBody
  <2>3. body \in Bodies \cup {NoBody}
    OBVIOUS
  <2>4. chunk_size \in Int /\ answers \in Nat
    OBVIOUS
  <2>6. open \in BOOLEAN /\ timer \in BOOLEAN /\ due \in BOOLEAN
    OBVIOUS
  <2>5. pc = "start"
    OBVIOUS
  <2> HIDE DEF Init
  <2>. QED
    BY <2>1, <2>2, <2>3, <2>4, <2>5, <2>6 DEF TypeOK
<1>2. AnsweredSoFar
  BY DEF AnsweredSoFar, BeforeHeader, ReadingBody, Ended
<1>3. BodySoFar
  BY DEF BodySoFar, NoBody
<1>4. RequestSoFar /\ RequestSentWhole
  BY DEF RequestSoFar, RequestSentWhole, ReadingBody
<1>5. CompleteIsWhole
  BY DEF CompleteIsWhole
<1>. QED
  BY <1>1, <1>2, <1>3, <1>4, <1>5 DEF IInv

---------------------------------------------------------------------------
(***************************************************************************)
(* Steps of one form.                                                      *)
(***************************************************************************)
SocketTyped ==
    endpoint \in 1 .. Endpoints + 1 /\ open \in BOOLEAN /\ timer \in BOOLEAN /\ due \in BOOLEAN

\* Only the socket, and the place of a session that was not answered yet.
LEMMA PlaceKept ==
    ASSUME IInv, pc \in BeforeHeader, pc' \in BeforeHeader,
           pc' \in {"write_body", "response"} => FALSE,
           SocketTyped', UNCHANGED <<requestVars, responseVars>>
    PROVE  IInv'
<1> USE DEF IInv, requestVars, responseVars
<1>1. TypeOK'
  BY DEF TypeOK, SocketTyped, BeforeHeader
<1>2. AnsweredSoFar'
  BY DEF AnsweredSoFar, BeforeHeader, ReadingBody
<1>3. BodySoFar'
  BY DEF BodySoFar, BeforeHeader
<1>4. RequestSoFar' /\ RequestSentWhole'
  BY DEF RequestSoFar, RequestSentWhole, BeforeHeader, ReadingBody
<1>5. CompleteIsWhole'
  BY DEF CompleteIsWhole
<1>. QED
  BY <1>1, <1>2, <1>3, <1>4, <1>5

\* A failure before the header.
LEMMA AbortedInv ==
    ASSUME IInv, pc \in BeforeHeader, AnswerAborted, SocketTyped'
    PROVE  IInv'
<1> USE DEF IInv
<1>0. /\ pc' = "gone" /\ answers' = 1
      /\ UNCHANGED <<body, arrived, chunk_size, request, written>>
  BY DEF AnswerAborted, AnsweredSoFar, requestVars
<1>1. response' \in StreamOf(Byte) /\ response'.data = response.data
      /\ response'.completed = response.completed /\ response'.aborted
  BY DEF AnswerAborted, TypeOK, StreamOf, Byte
<1>2. TypeOK'
  <2>1. response' \in StreamOf(Int \cup {Octet})
    BY <1>1 DEF Byte
  <2>. QED
    BY <2>1, <1>0 DEF TypeOK, SocketTyped
<1>3. AnsweredSoFar'
  BY <1>0, <1>1 DEF AnsweredSoFar, BeforeHeader, ReadingBody, Ended
<1>4. BodySoFar'
  BY <1>0, <1>1 DEF BodySoFar
<1>5. RequestSoFar' /\ RequestSentWhole'
  BY <1>0 DEF RequestSoFar, RequestSentWhole, ReadingBody
<1>6. CompleteIsWhole'
  BY <1>0, <1>1 DEF CompleteIsWhole, AnsweredSoFar, Ended
<1>. QED
  BY <1>2, <1>3, <1>4, <1>5, <1>6

\* Nothing but the timer, the socket and the handler of the timer.
LEMMA SocketKept ==
    ASSUME IInv, SocketTyped', UNCHANGED <<pc, requestVars, responseVars>>
    PROVE  IInv'
<1> USE DEF IInv, requestVars, responseVars
<1>1. TypeOK'
  BY DEF TypeOK, SocketTyped
<1>2. AnsweredSoFar' /\ BodySoFar'
  BY DEF AnsweredSoFar, BodySoFar
<1>3. RequestSoFar' /\ RequestSentWhole' /\ CompleteIsWhole'
  BY DEF RequestSoFar, RequestSentWhole, CompleteIsWhole
<1>. QED
  BY <1>1, <1>2, <1>3

\* The request of a session that reads its response.
LEMMA RequestKept ==
    ASSUME IInv, pc \in {"response"} \cup ReadingBody, pc' \in {"gone", "thrown"} \cup ReadingBody,
           UNCHANGED requestVars
    PROVE  RequestSoFar' /\ RequestSentWhole'
BY DEF IInv, requestVars, RequestSoFar, RequestSentWhole, ReadingBody

---------------------------------------------------------------------------
LEMMA ConnectingInv == ASSUME IInv, Connecting PROVE IInv'
<1> USE Constants
<1>0. SocketTyped
  BY DEF IInv, TypeOK, SocketTyped
<1>1. CASE resolve_domain
  BY <1>0, <1>1, PlaceKept, AbortedInv
     DEF resolve_domain, SocketTyped, BeforeHeader, socketVars
<1>2. CASE resolve_domain_handler
  <2>1. CASE Connect(1) /\ UNCHANGED <<due, requestVars, responseVars>>
    BY <1>0, <1>2, <2>1, PlaceKept
       DEF resolve_domain_handler, Connect, SocketTyped, BeforeHeader
  <2>2. CASE AnswerAborted /\ UNCHANGED socketVars
    BY <1>0, <1>2, <2>2, AbortedInv
       DEF resolve_domain_handler, SocketTyped, BeforeHeader, socketVars
  <2>. QED
    BY <1>2, <2>1, <2>2 DEF resolve_domain_handler
<1>3. CASE Connected
  BY <1>0, <1>3, PlaceKept DEF Connected, SocketTyped, BeforeHeader
<1>4. CASE ConnectRefused
  BY <1>0, <1>4, PlaceKept DEF ConnectRefused, SocketTyped, BeforeHeader
<1>5. CASE ConnectTimesOut
  BY <1>0, <1>5, PlaceKept DEF ConnectTimesOut, Connect, SocketTyped, BeforeHeader
<1>6. CASE ConnectFails
  BY <1>0, <1>6, AbortedInv DEF ConnectFails, SocketTyped, BeforeHeader
<1>. QED
  BY <1>1, <1>2, <1>3, <1>4, <1>5, <1>6 DEF Connecting

---------------------------------------------------------------------------
\* A block that can be read is in the stream; there is none only at its end.
LEMMA AvailableIsThere ==
    ASSUME TypeOK, RequestSoFar
    PROVE  /\ Available > 0 => written < Len(request.data)
           /\ Available = 0 => Ended(request) /\ written = Len(request.data)
<1>1. Len(request.data) \in Nat /\ written \in Nat /\ written <= Len(request.data)
  BY StreamsTyped DEF RequestSoFar
<1>. QED
  BY <1>1 DEF Available, readRawData

LEMMA WriteBlockInv == ASSUME IInv, WriteBlock PROVE IInv'
<1> USE DEF WriteBlock, socketVars, requestVars, responseVars
<1>1. TypeOK'
  BY DEF IInv, TypeOK
<1>2. AnsweredSoFar' /\ BodySoFar'
  BY DEF IInv, AnsweredSoFar, BodySoFar, BeforeHeader, ReadingBody
<1>3. RequestSoFar' /\ RequestSentWhole'
  BY AvailableIsThere DEF IInv, RequestSoFar, RequestSentWhole, ReadingBody
<1>4. CompleteIsWhole'
  BY DEF IInv, CompleteIsWhole
<1>. QED
  BY <1>1, <1>2, <1>3, <1>4 DEF IInv

LEMMA BodyWrittenInv == ASSUME IInv, BodyWritten PROVE IInv'
<1>1. /\ pc = "write_body" /\ pc' = "check" /\ written' = written + 1
      /\ UNCHANGED <<endpoint, open, timer, due, request,
                     body, arrived, chunk_size, response, answers>>
  BY DEF BodyWritten, socketVars, responseVars
<1>2. Len(request.data) \in Nat /\ written \in Nat
  BY StreamsTyped DEF IInv
<1>3. written < Len(request.data) /\ Len(request.data) <= MaxBlocks
  BY <1>1 DEF IInv, RequestSoFar
<1>4. written' <= Len(request.data) /\ written' \in 0 .. MaxBlocks
  BY <1>1, <1>2, <1>3, Constants
<1>5. TypeOK'
  BY <1>1, <1>4 DEF IInv, TypeOK
<1>6. AnsweredSoFar' /\ BodySoFar'
  BY <1>1 DEF IInv, AnsweredSoFar, BodySoFar, BeforeHeader, ReadingBody
<1>7. RequestSoFar' /\ RequestSentWhole'
  BY <1>1, <1>3, <1>4 DEF RequestSoFar, RequestSentWhole, ReadingBody
<1>8. CompleteIsWhole'
  BY <1>1 DEF IInv, CompleteIsWhole
<1>. QED
  BY <1>5, <1>6, <1>7, <1>8 DEF IInv

LEMMA WritingInv == ASSUME IInv, Writing PROVE IInv'
<1>0. SocketTyped
  BY DEF IInv, TypeOK, SocketTyped
<1>1. CASE write_request_header
  BY <1>0, <1>1, PlaceKept, AbortedInv
     DEF write_request_header, SocketTyped, BeforeHeader, socketVars
<1>2. CASE HeaderWritten
  BY <1>0, <1>2, PlaceKept DEF HeaderWritten, SocketTyped, BeforeHeader, socketVars
<1>3. CASE CheckRequest
  BY <1>0, <1>3, PlaceKept, AbortedInv
     DEF CheckRequest, SocketTyped, BeforeHeader, socketVars
<1>4. CASE WaitForBlock
  BY <1>0, <1>4, PlaceKept DEF WaitForBlock, SocketTyped, BeforeHeader, socketVars
<1>5. CASE PollRequest
  BY <1>0, <1>5, PlaceKept DEF PollRequest, SocketTyped, BeforeHeader, socketVars
<1>6. CASE WriteFails
  BY <1>0, <1>6, AbortedInv DEF WriteFails, SocketTyped, BeforeHeader, socketVars
<1>. QED
  BY <1>1, <1>2, <1>3, <1>4, <1>5, <1>6, WriteBlockInv, BodyWrittenInv DEF Writing

---------------------------------------------------------------------------
(***************************************************************************)
(* Reading the response.                                                   *)
(***************************************************************************)
LEMMA ReadResponseHeaderInv == ASSUME IInv, read_response_header PROVE IInv'
<1> USE DEF read_response_header, Await, requestVars, responseVars
<1>1. TypeOK'
  BY DEF IInv, TypeOK
<1>2. AnsweredSoFar' /\ BodySoFar'
  BY DEF IInv, AnsweredSoFar, BodySoFar, BeforeHeader, ReadingBody
<1>3. RequestSoFar' /\ RequestSentWhole'
  BY AvailableIsThere DEF IInv, RequestSoFar, RequestSentWhole, Ended
<1>4. CompleteIsWhole'
  BY DEF IInv, CompleteIsWhole
<1>. QED
  BY <1>1, <1>2, <1>3, <1>4 DEF IInv

LEMMA EmptyFirst == ASSUME NEW w \in Seq(Byte) PROVE <<>> \o w = w
OBVIOUS

LEMMA EmptyTyped == <<>> \in Seq(Byte)
OBVIOUS

\* The first n bytes of a body, and some more.
LEMMA Beginning ==
    ASSUME NEW w \in Seq(Byte), NEW n \in 0 .. Len(w)
    PROVE  /\ SubSeq(w, 1, n) \in Seq(Byte) /\ Len(SubSeq(w, 1, n)) = n
           /\ n = Len(w) => SubSeq(w, 1, n) = w
           /\ \A k \in 0 .. n : SubSeq(w, 1, k) \o SubSeq(w, k + 1, n) = SubSeq(w, 1, n)
<1>1. SubSeq(w, 1, n) \in Seq(Byte) /\ Len(SubSeq(w, 1, n)) = n
  BY SubSeqProperties
<1>2. n = Len(w) => SubSeq(w, 1, n) = w
  BY SubSeqFull
<1>3. ASSUME NEW k \in 0 .. n
      PROVE  SubSeq(w, 1, k) \o SubSeq(w, k + 1, n) = SubSeq(w, 1, n)
  BY ConcatAdjacentSubSeq
<1>. QED
  BY <1>1, <1>2, <1>3

\* A stream with these data, that is completed or has not ended.
Holding(s, data, complete) ==
    s \in StreamOf(Byte) /\ s.data = data /\ s.completed = complete /\ ~s.aborted

LEMMA StreamGrows ==
    ASSUME NEW s, NEW d, Holding(s, d, FALSE), NEW x \in Seq(Byte)
    PROVE  /\ Holding(append_raw_data(s, x), d \o x, FALSE)
           /\ Holding([s EXCEPT !.completed = TRUE], d, TRUE)
<1>1. s.data \in Seq(Byte) /\ s.data \o x \in Seq(Byte)
  BY DEF Holding, StreamOf
<1>. QED
  BY <1>1 DEF Holding, StreamOf, append_raw_data

\* A step that has the first n bytes of the body in the stream, and completes it or not.
Filled(n, complete) ==
    /\ n \in 0 .. arrived' /\ arrived' \in 0 .. Len(body'.wire)
    /\ body' \in Bodies /\ chunk_size' \in Int
    /\ Holding(response', SubSeq(body'.wire, 1, n), complete)
    /\ answers' = 1
    /\ pc' = "gone" <=> complete
    /\ pc' = "body" => body'.framing = "length"
    /\ pc' \in {"read_size", "chunk"} => body'.framing = "chunked"
    /\ pc' = "chunk" => chunk_size' > 0
    /\ pc' = "old" => body'.framing = "close"
    /\ complete /\ body'.framing = "length" /\ body'.length <= MaxLong => n >= body'.length
    /\ complete /\ body'.framing = "chunked" => \E i \in 1 .. n : body'.wire[i] = 0

LEMMA FilledInv ==
    ASSUME IInv, pc \in {"response"} \cup ReadingBody,
           pc' \in {"gone", "thrown"} \cup ReadingBody, NEW n, NEW complete \in BOOLEAN, Filled(n, complete),
           SocketTyped', UNCHANGED requestVars
    PROVE  IInv'
<1>0. /\ body'.wire \in Seq(Byte) /\ n \in 0 .. Len(body'.wire)
      /\ response'.data = SubSeq(body'.wire, 1, n)
      /\ response'.completed = complete /\ response'.aborted = FALSE
  <2>1. /\ body' \in Bodies /\ n \in 0 .. arrived' /\ arrived' \in 0 .. Len(body'.wire)
        /\ Holding(response', SubSeq(body'.wire, 1, n), complete)
    BY DEF Filled
  <2>2. body'.wire \in Seq(Byte) /\ Len(body'.wire) \in Nat
    BY <2>1, WireTyped
  <2>. QED
    BY <2>1, <2>2 DEF Holding
<1>1. response'.data \in Seq(Byte) /\ Len(response'.data) = n
  BY <1>0, Beginning
<1>2. TypeOK'
  <2>1. response' \in StreamOf(Byte)
    BY DEF Filled, Holding
  <2>2. pc' \in {"gone", "thrown"} \cup ReadingBody /\ SocketTyped' /\ answers' \in Nat
    BY DEF Filled
  <2>3. arrived' \in 0 .. Len(body'.wire) /\ body' \in Bodies /\ chunk_size' \in Int
    BY DEF Filled
  <2>4. request' \in StreamOf(1 .. MaxBlocks) /\ written' \in 0 .. MaxBlocks
    BY DEF IInv, TypeOK, requestVars
  <2>. QED
    BY <2>1, <2>2, <2>3, <2>4 DEF TypeOK, SocketTyped, Byte
<1>3. AnsweredSoFar'
  BY <1>0 DEF AnsweredSoFar, Filled, BeforeHeader, ReadingBody, Ended
<1>4. BodySoFar'
  <2>1. /\ n \in 0 .. arrived' /\ body' \in Bodies
        /\ pc' = "body" => body'.framing = "length"
        /\ pc' \in {"read_size", "chunk"} => body'.framing = "chunked"
        /\ pc' = "chunk" => chunk_size' > 0
        /\ pc' = "old" => body'.framing = "close"
    BY DEF Filled
  <2>2. Len(response'.data) <= arrived'
    <3>1. arrived' \in 0 .. Len(body'.wire)
      BY DEF Filled
    <3>2. Len(body'.wire) \in Nat
      BY <1>0
    <3>. QED
      BY <1>1, <2>1, <3>1, <3>2
  <2>3. response'.data = SubSeq(body'.wire, 1, Len(response'.data))
    BY <1>0, <1>1
  <2>. QED
    BY <2>1, <2>2, <2>3 DEF BodySoFar
<1>5. RequestSoFar' /\ RequestSentWhole'
  BY RequestKept
<1>6. CompleteIsWhole'
  BY <1>0, <1>1 DEF CompleteIsWhole, Filled
<1>. QED
  BY <1>2, <1>3, <1>4, <1>5, <1>6 DEF IInv

\* The stream of a session that reads its response.
LEMMA UnendedStream ==
    ASSUME IInv, pc \in {"response"} \cup ReadingBody
    PROVE  /\ Holding(response, SubSeq(body.wire, 1, Len(response.data)), FALSE)
           /\ Holding(response, response.data, FALSE)
           /\ Len(response.data) \in 0 .. arrived
           /\ arrived \in 0 .. Len(body.wire)
           /\ body.wire \in Seq(Byte) /\ Len(body.wire) \in Nat
           /\ pc \in ReadingBody => answers = 1
<1>1. response \in StreamOf(Byte) /\ arrived \in 0 .. Len(body.wire)
  BY DEF IInv, TypeOK, Byte
<1>2. ~response.completed /\ ~response.aborted
  BY <1>1 DEF IInv, AnsweredSoFar, BeforeHeader, Ended
<1>3. response.data = SubSeq(body.wire, 1, Len(response.data)) /\ Len(response.data) <= arrived
  BY DEF IInv, BodySoFar
<1>4. Len(response.data) \in Nat /\ body.wire \in Seq(Byte) /\ Len(body.wire) \in Nat
  BY StreamsTyped DEF IInv
<1>5. /\ Holding(response, response.data, FALSE)
      /\ Holding(response, SubSeq(body.wire, 1, Len(response.data)), FALSE)
  BY <1>1, <1>2, <1>3 DEF Holding, StreamOf
<1>6. pc \in ReadingBody => answers = 1
  BY DEF IInv, AnsweredSoFar
<1>7. Len(response.data) \in 0 .. arrived
  BY <1>1, <1>3, <1>4
<1>. QED
  BY <1>1, <1>4, <1>5, <1>6, <1>7, Zenon

\* When nothing is left to read, all that was announced has arrived.
LEMMA NothingLeft ==
    ASSUME NEW length \in Int, NEW n \in Nat, ~(Remaining(length, n) > 0), length <= MaxLong
    PROVE  n >= length
BY ConstantsAssumption DEF Remaining

LEMMA HeaderStep ==
    ASSUME IInv, pc = "response", pc' \in {"gone", "thrown"} \cup ReadingBody,
           timer' \in BOOLEAN,
           UNCHANGED <<endpoint, open, due, chunk_size, request, written>>,
           NEW n, NEW complete \in BOOLEAN, Filled(n, complete)
    PROVE  IInv'
<1>1. SocketTyped'
  BY DEF IInv, TypeOK, SocketTyped
<1>. QED
  BY <1>1, FilledInv DEF requestVars

LEMMA ReadResponseHeaderHandlerInv == ASSUME IInv, read_response_header_handler PROVE IInv'
<1> DEFINE Read(b, n) ==
         /\ body' = b /\ arrived' = n
         /\ b.framing = "length" =>
              IF b.length = NoNumber
              THEN response' = append_raw_data(response, SubSeq(b.wire, 1, n)) /\ Throw
              ELSE read_response_body(append_raw_data(response, SubSeq(b.wire, 1, n)),
                                      Remaining(b.length, n))
         /\ b.framing = "chunked" => response' = response /\ Await("read_size")
         /\ b.framing = "close" =>
              response' = append_raw_data(response, SubSeq(b.wire, 1, n)) /\ Await("old")
         /\ b.framing = "none" => read_response_body(response, 0)
<1>0. PICK b \in Bodies : \E n \in 0 .. Len(b.wire) : Read(b, n)
  BY DEF read_response_header_handler
<1>1. PICK n \in 0 .. Len(b.wire) : Read(b, n)
  BY <1>0
<1>2. /\ pc = "response" /\ answers' = answers + 1
      /\ UNCHANGED <<endpoint, open, due, chunk_size, request, written>>
  BY DEF read_response_header_handler, requestVars
<1>3. /\ b.wire \in Seq(Byte) /\ b.framing \in Framing /\ Len(b.wire) \in Nat
      /\ SubSeq(b.wire, 1, n) \in Seq(Byte) /\ b.length \in Int
  <2>1. /\ b.wire \in Seq(Byte) /\ b.framing \in Framing /\ Len(b.wire) \in Nat
        /\ b.length \in Int
    BY WireTyped
  <2>. QED
    BY <2>1, Beginning
<1>4. SubSeq(b.wire, 1, 0) = <<>>
  <2>1. 1 \in Int /\ 0 \in Int /\ 0 < 1
    OBVIOUS
  <2>. QED
    BY <2>1, SubSeqEmpty
<1>5. answers' = 1
  <2>1. answers = 0
    BY <1>2 DEF IInv, AnsweredSoFar, BeforeHeader
  <2>. QED
    BY <2>1, <1>2
<1>6. Holding(response, <<>>, FALSE)
  <2>1. response.data = <<>>
    BY <1>2 DEF IInv, AnsweredSoFar, BeforeHeader
  <2>. QED
    BY <1>2, <2>1, UnendedStream
<1>7. Holding(append_raw_data(response, SubSeq(b.wire, 1, n)), SubSeq(b.wire, 1, n), FALSE)
  <2>1. <<>> \o SubSeq(b.wire, 1, n) = SubSeq(b.wire, 1, n)
    BY <1>3, EmptyFirst
  <2>2. Holding(append_raw_data(response, SubSeq(b.wire, 1, n)),
                <<>> \o SubSeq(b.wire, 1, n), FALSE)
    BY <1>3, <1>6, StreamGrows
  <2>. QED
    BY <2>1, <2>2
<1>8. Holding([append_raw_data(response, SubSeq(b.wire, 1, n)) EXCEPT !.completed = TRUE],
              SubSeq(b.wire, 1, n), TRUE)
      /\ Holding([response EXCEPT !.completed = TRUE], <<>>, TRUE)
  BY <1>3, <1>6, <1>7, StreamGrows
<1>9. chunk_size' \in Int
  BY <1>2 DEF IInv, TypeOK
<1>. HIDE DEF Read
<1>10. CASE b.framing = "length" /\ b.length = NoNumber
  <2>1. /\ body' = b /\ arrived' = n
        /\ response' = append_raw_data(response, SubSeq(b.wire, 1, n))
        /\ pc' = "thrown" /\ timer' = FALSE
    BY <1>1, <1>10 DEF Read, Throw
  <2>2. Filled(n, FALSE)
    BY <1>3, <1>5, <1>7, <1>9, <1>10, <2>1 DEF Filled, Holding
  <2>. QED
    BY <1>2, <2>1, <2>2, HeaderStep
<1>14. CASE b.framing = "length" /\ b.length # NoNumber
  <2>1. /\ body' = b /\ arrived' = n
        /\ read_response_body(append_raw_data(response, SubSeq(b.wire, 1, n)),
                              Remaining(b.length, n))
    BY <1>1, <1>14 DEF Read
  <2>2. CASE Remaining(b.length, n) > 0
    <3>1. /\ response' = append_raw_data(response, SubSeq(b.wire, 1, n))
          /\ pc' = "body" /\ timer' = TRUE
      BY <2>1, <2>2 DEF read_response_body, Await
    <3>2. Filled(n, FALSE)
      BY <1>3, <1>5, <1>7, <1>9, <1>14, <2>1, <3>1 DEF Filled, Holding
    <3>. QED
      BY <1>2, <3>1, <3>2, HeaderStep DEF ReadingBody
  <2>3. CASE ~(Remaining(b.length, n) > 0)
    <3>1. /\ response' = [append_raw_data(response, SubSeq(b.wire, 1, n)) EXCEPT
                            !.completed = TRUE]
          /\ pc' = "gone" /\ timer' = FALSE
      BY <2>1, <2>3 DEF read_response_body
    <3>2. b.length <= MaxLong => n >= b.length
      <4>1. n \in Nat
        BY <1>3
      <4>. QED
        BY <1>3, <2>3, <4>1, NothingLeft
    <3>3. Filled(n, TRUE)
      BY <1>3, <1>5, <1>8, <1>9, <1>14, <2>1, <3>1, <3>2 DEF Filled, Holding
    <3>. QED
      BY <1>2, <3>1, <3>3, HeaderStep
  <2>. QED
    BY <2>2, <2>3
<1>11. CASE b.framing = "chunked"
  <2>1. /\ body' = b /\ arrived' = n /\ response' = response
        /\ pc' = "read_size" /\ timer' = TRUE
    BY <1>1, <1>11 DEF Read, Await
  <2>2. Filled(0, FALSE)
    <3>1. 0 \in 0 .. n
      BY <1>3
    <3>2. SubSeq(body'.wire, 1, 0) = <<>>
      BY <1>4, <2>1
    <3>3. Holding(response', <<>>, FALSE)
      BY <1>6, <2>1
    <3>. QED
      BY <3>2, <3>3, <1>5, <1>9, <1>11, <2>1, <3>1 DEF Filled
  <2>. QED
    BY <1>2, <2>1, <2>2, HeaderStep DEF ReadingBody
<1>12. CASE b.framing = "close"
  <2>1. /\ body' = b /\ arrived' = n
        /\ response' = append_raw_data(response, SubSeq(b.wire, 1, n))
        /\ pc' = "old" /\ timer' = TRUE
    BY <1>1, <1>12 DEF Read, Await
  <2>2. Filled(n, FALSE)
    BY <1>3, <1>5, <1>7, <1>9, <1>12, <2>1 DEF Filled, Holding
  <2>. QED
    BY <1>2, <2>1, <2>2, HeaderStep DEF ReadingBody
<1>13. CASE b.framing = "none"
  <2>1. /\ body' = b /\ arrived' = n /\ response' = [response EXCEPT !.completed = TRUE]
        /\ pc' = "gone" /\ timer' = FALSE
    BY <1>1, <1>13 DEF Read, read_response_body
  <2>2. Filled(0, TRUE)
    <3>1. 0 \in 0 .. n
      BY <1>3
    <3>2. SubSeq(body'.wire, 1, 0) = <<>>
      BY <1>4, <2>1
    <3>3. Holding(response', <<>>, TRUE)
      BY <1>8, <2>1
    <3>. QED
      BY <3>2, <3>3, <1>5, <1>9, <1>13, <2>1, <3>1 DEF Filled
  <2>. QED
    BY <1>2, <2>1, <2>2, HeaderStep
<1>. QED
  BY <1>3, <1>10, <1>11, <1>12, <1>13, <1>14 DEF Framing

\* The bytes that come in are appended to those that are there.
LEMMA Continued ==
    ASSUME IInv, pc \in ReadingBody, NEW n \in MoreBytes
    PROVE  /\ Holding(append_raw_data(response, Buffered(n)), SubSeq(body.wire, 1, n), FALSE)
           /\ Holding([append_raw_data(response, Buffered(n)) EXCEPT !.completed = TRUE],
                      SubSeq(body.wire, 1, n), TRUE)
           /\ n \in 0 .. Len(body.wire)
<1> DEFINE d == SubSeq(body.wire, 1, Len(response.data))
<1>1. /\ Holding(response, d, FALSE) /\ Len(response.data) \in 0 .. n
      /\ n \in 0 .. Len(body.wire) /\ body.wire \in Seq(Byte)
  <2>1. Holding(response, d, FALSE) /\ body.wire \in Seq(Byte)
    BY UnendedStream
  <2>2. /\ Len(response.data) \in 0 .. arrived /\ arrived \in 0 .. Len(body.wire)
        /\ Len(body.wire) \in Nat
    BY UnendedStream
  <2>3. arrived \in Nat
    BY <2>2
  <2>4. n \in Nat /\ arrived + 1 <= n /\ n <= Len(body.wire)
    BY <2>2, <2>3 DEF MoreBytes
  <2>5. Len(response.data) \in 0 .. n
    BY <2>2, <2>3, <2>4
  <2>6. n \in 0 .. Len(body.wire)
    BY <2>2, <2>4
  <2>. QED
    BY <2>1, <2>5, <2>6
<1>2. d \o Buffered(n) = SubSeq(body.wire, 1, n)
  BY <1>1, Beginning DEF Buffered
<1>3. Buffered(n) \in Seq(Byte)
  <2>1. \A i \in Len(response.data) + 1 .. n : body.wire[i] \in Byte
    BY <1>1
  <2>. QED
    BY <1>1, <2>1, SubSeqProperties DEF Buffered
<1>4. Holding(append_raw_data(response, Buffered(n)), d \o Buffered(n), FALSE)
  BY <1>1, <1>3, StreamGrows
<1>5. Holding([append_raw_data(response, Buffered(n)) EXCEPT !.completed = TRUE],
              d \o Buffered(n), TRUE)
  BY <1>3, <1>4, StreamGrows
<1>. QED
  BY <1>1, <1>2, <1>4, <1>5

LEMMA ReadResponseBodyHandlerInv == ASSUME IInv, read_response_body_handler PROVE IInv'
<1>1. PICK n \in MoreBytes :
         /\ arrived' = n
         /\ read_response_body(append_raw_data(response, Buffered(n)), Remaining(body.length, n))
  BY DEF read_response_body_handler
<1>2. /\ pc = "body" /\ pc \in ReadingBody
      /\ UNCHANGED <<endpoint, open, due, requestVars, body, chunk_size, answers>>
  BY DEF read_response_body_handler, ReadingBody
<1>3. n \in 0 .. Len(body.wire) /\ Len(body.wire) \in Nat
  BY <1>2, Continued, UnendedStream
<1>4. /\ body' \in Bodies /\ body'.framing = "length" /\ chunk_size' \in Int
      /\ answers' = 1
  <2>1. body' = body /\ chunk_size' = chunk_size /\ answers' = answers /\ answers = 1
    BY <1>2, UnendedStream
  <2>2. body.framing = "length" /\ chunk_size \in Int
    BY <1>2 DEF IInv, TypeOK, BodySoFar
  <2>3. body \in Bodies
    BY <2>2 DEF IInv, TypeOK, NoBody
  <2>. QED
    BY <2>1, <2>2, <2>3
<1>5. CASE Remaining(body.length, n) > 0
  <2>1. response' = append_raw_data(response, Buffered(n)) /\ pc' = "body" /\ timer' = TRUE
    BY <1>1, <1>5 DEF read_response_body, Await
  <2>2. Holding(response', SubSeq(body'.wire, 1, n), FALSE) /\ n \in 0 .. Len(body'.wire)
    BY <1>2, <2>1, Continued
  <2>3. n \in 0 .. n
    BY <1>3
  <2>4. Filled(n, FALSE)
    BY <1>1, <1>4, <2>1, <2>2, <2>3 DEF Filled
  <2>5. SocketTyped'
    BY <1>2, <2>1 DEF IInv, TypeOK, SocketTyped
  <2>. QED
    BY <1>2, <2>1, <2>4, <2>5, FilledInv
<1>6. CASE ~(Remaining(body.length, n) > 0)
  <2>1. /\ response' = [append_raw_data(response, Buffered(n)) EXCEPT !.completed = TRUE]
        /\ pc' = "gone" /\ timer' = FALSE
    BY <1>1, <1>6 DEF read_response_body
  <2>2. body'.length <= MaxLong => n >= body'.length
    <3>1. body' = body /\ body.length \in Int /\ n \in Nat
      BY <1>2, <1>3, <1>4, WireTyped
    <3>. QED
      BY <1>6, <3>1, NothingLeft
  <2>3. Filled(n, TRUE)
    <3>1. Holding(response', SubSeq(body'.wire, 1, n), TRUE) /\ n \in 0 .. Len(body'.wire)
      BY <1>2, <2>1, Continued
    <3>2. n \in 0 .. n
      BY <1>3
    <3>. QED
      BY <1>1, <1>4, <2>1, <2>2, <3>1, <3>2 DEF Filled
  <2>4. SocketTyped'
    BY <1>2, <2>1 DEF IInv, TypeOK, SocketTyped
  <2>. QED
    BY <1>2, <2>1, <2>3, <2>4, FilledInv
<1>. QED
  BY <1>5, <1>6

LEMMA ReadResponseBodyOldHandlerInv == ASSUME IInv, read_response_body_old_handler PROVE IInv'
<1>1. /\ pc = "old" /\ pc \in ReadingBody
      /\ UNCHANGED <<endpoint, open, due, requestVars, body, chunk_size, answers>>
  BY DEF read_response_body_old_handler, ReadingBody
<1>2. /\ Holding(response, SubSeq(body.wire, 1, Len(response.data)), FALSE)
      /\ Len(response.data) \in 0 .. arrived /\ arrived \in 0 .. Len(body.wire)
      /\ answers' = 1
  BY <1>1, UnendedStream
<1>3. /\ body' \in Bodies /\ body'.framing = "close" /\ chunk_size' \in Int
  BY <1>1 DEF IInv, TypeOK, BodySoFar, NoBody
<1>4. CASE \E n \in MoreBytes :
             /\ arrived' = n
             /\ response' = append_raw_data(response, Buffered(n))
             /\ Await("old")
  <2>1. PICK n \in MoreBytes :
             /\ arrived' = n
             /\ response' = append_raw_data(response, Buffered(n))
             /\ Await("old")
    BY <1>4
  <2>2. pc' = "old" /\ timer' = TRUE
    BY <2>1 DEF Await
  <2>3. Holding(response', SubSeq(body'.wire, 1, n), FALSE) /\ n \in 0 .. Len(body'.wire)
    BY <1>1, <2>1, Continued
  <2>4. n \in 0 .. n
    BY <2>3
  <2>5. Filled(n, FALSE)
    BY <1>2, <1>3, <2>1, <2>2, <2>3, <2>4 DEF Filled
  <2>6. SocketTyped'
    BY <1>1, <2>2 DEF IInv, TypeOK, SocketTyped
  <2>. QED
    BY <1>1, <2>2, <2>5, <2>6, FilledInv
<1>5. CASE /\ response' = [response EXCEPT !.completed = TRUE]
           /\ pc' = "gone" /\ timer' = FALSE
           /\ UNCHANGED arrived
  <2>1. Holding(response', SubSeq(body'.wire, 1, Len(response.data)), TRUE)
    BY <1>1, <1>2, <1>5, StreamGrows, EmptyTyped
  <2>2. Filled(Len(response.data), TRUE)
    BY <2>1, <1>1, <1>2, <1>3, <1>5 DEF Filled, Holding
  <2>3. SocketTyped'
    BY <1>1, <1>5 DEF IInv, TypeOK, SocketTyped
  <2>. QED
    BY <1>1, <1>5, <2>2, <2>3, FilledInv
<1>. QED
  BY <1>4, <1>5 DEF read_response_body_old_handler

\* A chunk is moved with its line end or not at all, and only the chunk of size 0,
\* which ends the body, completes the stream.
LEMMA ChunkFilled ==
    ASSUME IInv, pc \in {"read_size", "chunk"},
           NEW size \in Int, NEW taken \in Nat, NEW n \in Nat,
           taken <= n, n <= Len(body.wire),
           size = 0 => \E i \in 1 .. taken : body.wire[i] = 0,
           arrived' = n, Chunk(size, taken, n), UNCHANGED <<body, answers>>
    PROVE  /\ \E k \in Nat : Filled(k, size = 0)
           /\ pc' \in {"gone"} \cup ReadingBody
<1> DEFINE end == taken + size + 2
           whole == size >= -2 /\ n >= end
           k == IF whole THEN end ELSE taken
           next == IF whole THEN -size ELSE size
<1>1. /\ end \in Int /\ k \in 0 .. n /\ next \in Int
      /\ (next = 0 <=> size = 0) /\ (size = 0 => taken <= k)
  OBVIOUS
<1>2. Holding(response', SubSeq(body'.wire, 1, k), size = 0)
  <2>1. /\ response' = [response EXCEPT !.data = SubSeq(body.wire, 1, k), !.completed = next = 0]
        /\ body' = body
    BY DEF Chunk
  <2>2. Holding(response, response.data, FALSE) /\ body.wire \in Seq(Byte)
    BY UnendedStream DEF ReadingBody
  <2>3. SubSeq(body.wire, 1, k) \in Seq(Byte)
    <3>1. k \in 0 .. Len(body.wire)
      BY <1>1, <2>2
    <3>. QED
      BY <2>2, <3>1, Beginning
  <2>4. (next = 0) = (size = 0)
    BY <1>1
  <2> HIDE DEF next, k
  <2>. QED
    BY <2>1, <2>2, <2>3, <2>4 DEF Holding, StreamOf
<1>3. body' \in Bodies /\ body'.framing = "chunked"
  BY DEF IInv, BodySoFar
<1>4. answers' = 1
  BY UnendedStream DEF ReadingBody
<1>5. /\ pc' = IF next = 0 THEN "gone" ELSE IF next < 0 THEN "read_size" ELSE "chunk"
      /\ chunk_size' = next
  BY DEF Chunk, Await
<1>6. size = 0 => \E i \in 1 .. k : body'.wire[i] = 0
  BY <1>1
<1>7. k \in 0 .. arrived' /\ arrived' \in 0 .. Len(body'.wire)
  <2>1. Len(body.wire) \in Nat
    BY UnendedStream DEF ReadingBody
  <2>. QED
    BY <1>1, <2>1
<1>8. Filled(k, size = 0)
  <2> HIDE DEF next, k
  <2>. QED
    BY <1>1, <1>2, <1>3, <1>4, <1>5, <1>6, <1>7 DEF Filled
<1>9. pc' \in {"gone"} \cup ReadingBody
  BY <1>5 DEF ReadingBody
<1>. QED
  BY <1>1, <1>8, <1>9

LEMMA ReadChunkSizeInv == ASSUME IInv, ReadChunkSize PROVE IInv'
<1> DEFINE taken == Len(response.data)
           size == body.wire[taken + 1]
<1>1. PICK n \in IF arrived > taken THEN {arrived} ELSE MoreBytes :
         /\ arrived' = n
         /\ IF size = Octet THEN Throw /\ UNCHANGED <<response, chunk_size>>
            ELSE Chunk(size, taken + 1, n)
  BY DEF ReadChunkSize
<1>2. pc = "read_size" /\ UNCHANGED <<endpoint, open, due, requestVars, body, answers>>
  BY DEF ReadChunkSize
<1>3. /\ taken \in 0 .. arrived /\ arrived \in 0 .. Len(body.wire) /\ body.wire \in Seq(Byte)
  BY <1>2, UnendedStream DEF ReadingBody
<1>4. taken + 1 \in 1 .. Len(body.wire) /\ n \in Nat /\ taken + 1 <= n /\ n <= Len(body.wire)
  BY <1>1, <1>3 DEF MoreBytes
<1>5. CASE size = Octet
  <2>1. pc' = "thrown" /\ timer' = FALSE /\ UNCHANGED <<response, chunk_size>> /\ arrived' = n
    BY <1>1, <1>5 DEF Throw
  <2>2. Filled(taken, FALSE)
    <3>1. Holding(response, SubSeq(body.wire, 1, taken), FALSE) /\ answers = 1
      BY <1>2, UnendedStream DEF ReadingBody
    <3>2. body \in Bodies /\ chunk_size \in Int
      BY <1>2 DEF IInv, TypeOK, BodySoFar
    <3>3. taken \in 0 .. n /\ n \in 0 .. Len(body.wire)
      BY <1>3, <1>4
    <3>. QED
      BY <1>2, <2>1, <3>1, <3>2, <3>3 DEF Filled, Holding
  <2>3. SocketTyped'
    BY <1>2, <2>1 DEF IInv, TypeOK, SocketTyped
  <2>. QED
    BY <1>2, <2>1, <2>2, <2>3, FilledInv DEF ReadingBody
<1>6. CASE size # Octet
  <2>1. size \in Int /\ taken + 1 \in Nat
    BY <1>3, <1>4, <1>6 DEF Byte
  <2>2. size = 0 => \E i \in 1 .. taken + 1 : body.wire[i] = 0
    BY <1>4
  <2>3. Chunk(size, taken + 1, n) /\ arrived' = n
    BY <1>1, <1>6
  <2>4. /\ \E k \in Nat : Filled(k, size = 0)
        /\ pc' \in {"gone"} \cup ReadingBody
    BY <1>2, <1>4, <2>1, <2>2, <2>3, ChunkFilled
  <2>5. SocketTyped'
    BY <1>2, <2>3 DEF IInv, TypeOK, SocketTyped, Chunk, Await
  <2>. QED
    BY <1>2, <2>4, <2>5, FilledInv DEF ReadingBody
<1>. QED
  BY <1>5, <1>6

LEMMA ReadChunkInv == ASSUME IInv, ReadChunk PROVE IInv'
<1> DEFINE taken == Len(response.data)
<1>1. PICK n \in MoreBytes : arrived' = n /\ Chunk(chunk_size, taken, n)
  BY DEF ReadChunk
<1>2. pc = "chunk" /\ UNCHANGED <<endpoint, open, due, requestVars, body, answers>>
  BY DEF ReadChunk
<1>3. /\ taken \in 0 .. arrived /\ arrived \in 0 .. Len(body.wire)
      /\ body.wire \in Seq(Byte)
  BY <1>2, UnendedStream DEF ReadingBody
<1>4. taken \in Nat /\ n \in Nat /\ taken <= n /\ n <= Len(body.wire)
  BY <1>3 DEF MoreBytes
<1>5. chunk_size \in Int /\ chunk_size # 0
  BY <1>2 DEF IInv, TypeOK, BodySoFar
<1>6. /\ \E k \in Nat : Filled(k, chunk_size = 0)
      /\ pc' \in {"gone"} \cup ReadingBody
  BY <1>1, <1>2, <1>4, <1>5, ChunkFilled
<1>7. SocketTyped'
  BY <1>1, <1>2 DEF IInv, TypeOK, SocketTyped, Chunk, Await
<1>. QED
  BY <1>2, <1>6, <1>7, FilledInv DEF ReadingBody

\* The connection is lost: the answer was given, and the stream is aborted.
LEMMA BodyFailsInv == ASSUME IInv, BodyFails PROVE IInv'
<1> USE DEF BodyFails
<1>1. response' \in StreamOf(Byte) /\ response'.data = response.data
      /\ response'.completed = response.completed /\ response'.aborted
  BY DEF IInv, TypeOK, StreamOf, Byte
<1>2. TypeOK'
  BY <1>1 DEF IInv, TypeOK, Byte, requestVars
<1>3. AnsweredSoFar'
  BY <1>1 DEF IInv, AnsweredSoFar, BeforeHeader, ReadingBody, Ended
<1>4. BodySoFar'
  BY <1>1 DEF IInv, BodySoFar
<1>5. RequestSoFar' /\ RequestSentWhole'
  BY RequestKept
<1>6. CompleteIsWhole'
  BY <1>1 DEF IInv, CompleteIsWhole
<1>. QED
  BY <1>2, <1>3, <1>4, <1>5, <1>6 DEF IInv

LEMMA ReadingInv == ASSUME IInv, Reading PROVE IInv'
<1>0. SocketTyped
  BY DEF IInv, TypeOK, SocketTyped
<1>1. CASE IllFormedHeader
  BY <1>0, <1>1, AbortedInv DEF IllFormedHeader, SocketTyped, BeforeHeader
<1>2. CASE ResponseFails
  BY <1>0, <1>2, AbortedInv DEF ResponseFails, SocketTyped, BeforeHeader
<1>. QED
  BY <1>1, <1>2, ReadResponseHeaderInv, ReadResponseHeaderHandlerInv,
     ReadResponseBodyHandlerInv, ReadChunkSizeInv, ReadChunkInv,
     ReadResponseBodyOldHandlerInv, BodyFailsInv
     DEF Reading

---------------------------------------------------------------------------
(***************************************************************************)
(* The timer, and the consumer that writes the request.                    *)
(***************************************************************************)
LEMMA TimerInv == ASSUME IInv, TimerExpires \/ timer_handler PROVE IInv'
<1>0. SocketTyped
  BY DEF IInv, TypeOK, SocketTyped
<1>1. SocketTyped' /\ UNCHANGED <<pc, requestVars, responseVars>>
  BY <1>0 DEF TimerExpires, timer_handler, SocketTyped
<1>. QED
  BY <1>1, SocketKept

LEMMA RequestGrowsInv == ASSUME IInv, RequestGrows PROVE IInv'
<1> USE DEF RequestGrows, socketVars, responseVars
<1>0. request \in StreamOf(1 .. MaxBlocks)
  BY DEF IInv, TypeOK
<1>1. /\ Len(request.data) \in Nat /\ request.data \in Seq(1 .. MaxBlocks)
      /\ written \in Nat
  BY StreamsTyped DEF IInv
<1>2. /\ request'.data = request.data \o <<Len(request.data) + 1>>
      /\ request' \in StreamOf(1 .. MaxBlocks)
  <2>1. <<Len(request.data) + 1>> \in Seq(1 .. MaxBlocks)
    BY <1>1, Constants
  <2>2. request.data \o <<Len(request.data) + 1>> \in Seq(1 .. MaxBlocks)
    BY <1>1, <2>1
  <2>. QED
    BY <1>0, <2>2 DEF StreamOf, append_raw_data
<1>3. Len(request'.data) = Len(request.data) + 1
  BY <1>1, <1>2
<1>4. TypeOK'
  BY <1>2 DEF IInv, TypeOK
<1>5. AnsweredSoFar' /\ BodySoFar'
  BY DEF IInv, AnsweredSoFar, BodySoFar
<1>6. RequestSoFar' /\ RequestSentWhole'
  BY <1>1, <1>3, Constants DEF IInv, RequestSoFar, RequestSentWhole
<1>7. CompleteIsWhole'
  BY DEF IInv, CompleteIsWhole
<1>. QED
  BY <1>4, <1>5, <1>6, <1>7 DEF IInv

LEMMA RequestEndsInv == ASSUME IInv, RequestEnds PROVE IInv'
<1> USE DEF RequestEnds, socketVars, responseVars
<1>1. request'.data = request.data /\ request' \in StreamOf(1 .. MaxBlocks)
  BY DEF IInv, TypeOK, StreamOf
<1>2. TypeOK'
  BY <1>1 DEF IInv, TypeOK
<1>3. AnsweredSoFar' /\ BodySoFar'
  BY DEF IInv, AnsweredSoFar, BodySoFar
<1>4. RequestSoFar' /\ RequestSentWhole'
  BY <1>1 DEF IInv, RequestSoFar, RequestSentWhole
<1>5. CompleteIsWhole'
  BY DEF IInv, CompleteIsWhole
<1>. QED
  BY <1>2, <1>3, <1>4, <1>5 DEF IInv

---------------------------------------------------------------------------
LEMMA NextIInv == IInv /\ [Next]_vars => IInv'
<1>1. ASSUME IInv, UNCHANGED vars PROVE IInv'
  BY <1>1 DEF vars, IInv, TypeOK, AnsweredSoFar, BodySoFar, RequestSoFar, RequestSentWhole,
              CompleteIsWhole
<1>. QED
  BY <1>1, ConnectingInv, WritingInv, ReadingInv, TimerInv, RequestGrowsInv, RequestEndsInv
     DEF Next, Finished

---------------------------------------------------------------------------
\* IInv is an invariant of a session of the HttpClient.
THEOREM Invariance == Spec => []IInv
<1>. QED
  BY InitIInv, NextIInv, PTL DEF Spec

\* Every variable of a session keeps its type: no chunk is looked for beyond the bytes
\* that arrived, and no block is written that is not there.
THEOREM TypeCorrect == Spec => []TypeOK
<1>1. IInv => TypeOK
  BY DEF IInv
<1>. QED
  BY Invariance, <1>1, PTL

\* Whichever of its operations fails, a session answers the interpreter once, and
\* leaves an ended stream (the calls of fromHttpSink in http_client.cpp).
THEOREM EachAnswered == Spec => []AnsweredOnce
<1>1. IInv => AnsweredOnce
  <2> SUFFICES ASSUME IInv PROVE AnsweredOnce
    OBVIOUS
  <2>1. pc \in BeforeHeader \/ pc \in ReadingBody \/ pc \in {"gone", "thrown"}
    BY DEF IInv, TypeOK, BeforeHeader
  <2>. QED
    BY <2>1 DEF IInv, AnsweredSoFar, AnsweredOnce, BeforeHeader, ReadingBody
<1>. QED
  BY Invariance, <1>1, PTL

\* A response of any length and any number of chunks, split into reads anywhere, is
\* completed only when it is whole (read_response_body_chunk_handler and its siblings).
THEOREM WholeBody == Spec => []CompleteIsWhole
<1>1. IInv => CompleteIsWhole
  BY DEF IInv
<1>. QED
  BY Invariance, <1>1, PTL

\* The server is sent all that arrived of a request before its answer is awaited
\* (write_request_body).
THEOREM WholeRequest == Spec => []RequestSentWhole
<1>1. IInv => RequestSentWhole
  BY DEF IInv
<1>. QED
  BY Invariance, <1>1, PTL

---------------------------------------------------------------------------
(***************************************************************************)
(* The promise of the HTTP side, step by step.                             *)
(***************************************************************************)
LEMMA BeginningOfBeginning ==
    ASSUME NEW w \in Seq(Byte), NEW n \in 0 .. Len(w), NEW m \in 0 .. n
    PROVE  SubSeq(SubSeq(w, 1, n), 1, m) = SubSeq(w, 1, m)
<1>1. m \in 0 .. Len(w) /\ n \in Nat /\ m \in Nat
  OBVIOUS
<1>2. /\ SubSeq(w, 1, n) \in Seq(Byte) /\ Len(SubSeq(w, 1, n)) = n
      /\ SubSeq(w, 1, m) \in Seq(Byte) /\ Len(SubSeq(w, 1, m)) = m
  BY <1>1, Beginning
<1>. QED
  BY <1>1, <1>2

\* Both streams are beginnings of the same body, so the longer one continues the other.
LEMMA Grown ==
    ASSUME IInv, IInv', body' = body \/ response.data = <<>>,
           Len(response.data) <= Len(response'.data)
    PROVE  Side!Grows
<1>1. /\ response.data \in Seq(Byte) /\ response'.data \in Seq(Byte)
      /\ Len(response.data) \in Nat /\ Len(response'.data) \in Nat
      /\ body'.wire \in Seq(Byte) /\ Len(body'.wire) \in Nat /\ arrived' \in 0 .. Len(body'.wire)
  <2>1. response.data \in Seq(Byte) /\ Len(response.data) \in Nat
    BY StreamsTyped DEF IInv
  <2>2. /\ response' \in StreamOf(Byte) /\ body' \in Bodies \cup {NoBody}
        /\ arrived' \in 0 .. Len(body'.wire)
    BY DEF IInv, TypeOK, Byte
  <2>3. response'.data \in Seq(Byte) /\ Len(response'.data) \in Nat
    BY <2>2 DEF StreamOf
  <2>. QED
    BY <2>1, <2>2, <2>3, WireTyped
<1>2. CASE response.data = <<>>
  BY <1>1, <1>2 DEF Side!Grows
<1>3. CASE body' = body
  <2>1. /\ response.data = SubSeq(body.wire, 1, Len(response.data))
        /\ response'.data = SubSeq(body'.wire, 1, Len(response'.data))
        /\ Len(response'.data) <= arrived'
    BY DEF IInv, BodySoFar
  <2>2. /\ Len(response'.data) \in 0 .. Len(body'.wire)
        /\ Len(response.data) \in 0 .. Len(response'.data)
    BY <1>1, <2>1
  <2>. QED
    BY <1>1, <1>3, <2>1, <2>2, BeginningOfBeginning DEF Side!Grows
<1>. QED
  BY <1>2, <1>3

\* A step that reads more of the body, or nothing, and perhaps completes the stream.
LEMMA ReadOn ==
    ASSUME IInv, IInv', pc \in ReadingBody, UNCHANGED <<body, answers>>,
           ~response'.aborted, Len(response.data) <= Len(response'.data)
    PROVE  Side!Continue
<1>1. answers = 1 /\ ~response.completed /\ ~response.aborted
  BY UnendedStream DEF Holding
<1>2. response'.completed \in BOOLEAN /\ response'.aborted = response.aborted
  <2>1. /\ response \in StreamOf(Int \cup {Octet})
        /\ response' \in StreamOf(Int \cup {Octet})
    BY DEF IInv, TypeOK
  <2>. QED
    BY <1>1, <2>1 DEF StreamOf
<1>3. Side!Grows
  BY Grown
<1>. QED
  BY <1>1, <1>2, <1>3 DEF Side!Continue

\* A failure before the header is the answer.
LEMMA AbortedAnswer == ASSUME IInv, pc \in BeforeHeader, AnswerAborted PROVE Side!Answer
<1>1. response \in StreamOf(Int \cup {Octet}) /\ answers = 0
  BY DEF IInv, TypeOK, AnsweredSoFar
<1>. QED
  BY <1>1 DEF AnswerAborted, StreamOf, Side!Answer, Side!Fails

\* The header is the answer, with the part of the body that came with it.
LEMMA HeaderAnswer ==
    ASSUME IInv, IInv', read_response_header_handler PROVE Side!Answer
<1>1. pc = "response" /\ answers' = answers + 1
  BY DEF read_response_header_handler
<1>2. answers = 0 /\ response.data = <<>> /\ ~response.aborted
  BY <1>1 DEF IInv, AnsweredSoFar, BeforeHeader, Ended
<1>3. response \in StreamOf(Int \cup {Octet}) /\ response' \in StreamOf(Int \cup {Octet})
  BY DEF IInv, TypeOK
<1>4. response'.aborted = response.aborted
  <2> DEFINE Case(b, n) ==
           \/ read_response_body(append_raw_data(response, SubSeq(b.wire, 1, n)),
                                 Remaining(b.length, n))
           \/ response' = response
           \/ response' = append_raw_data(response, SubSeq(b.wire, 1, n))
           \/ read_response_body(response, 0)
  <2>0. \A b \in Bodies : b.framing \in Framing
    BY WireTyped
  <2>1. PICK b \in Bodies : \E n \in 0 .. Len(b.wire) : Case(b, n)
    BY <2>0 DEF read_response_header_handler, Framing
  <2>2. PICK n \in 0 .. Len(b.wire) : Case(b, n)
    BY <2>1
  <2>3. \A s : response' = [s EXCEPT !.completed = TRUE] /\ s \in StreamOf(Byte)
                => response'.aborted = s.aborted
    BY DEF StreamOf
  <2>4. Holding(append_raw_data(response, SubSeq(b.wire, 1, n)),
                response.data \o SubSeq(b.wire, 1, n), FALSE)
    <3>1. b.wire \in Seq(Byte)
      BY WireTyped
    <3>2. SubSeq(b.wire, 1, n) \in Seq(Byte)
      BY <3>1, Beginning
    <3>3. Holding(response, response.data, FALSE)
      BY <1>1, UnendedStream
    <3>. QED
      BY <3>2, <3>3, StreamGrows
  <2>5. PICK s \in {response, append_raw_data(response, SubSeq(b.wire, 1, n))} :
           response' = s \/ response' = [s EXCEPT !.completed = TRUE]
    BY <2>2 DEF read_response_body
  <2>6. s \in StreamOf(Byte) /\ ~s.aborted
    BY <1>2, <1>3, <2>4 DEF Holding, Byte
  <2>7. ~response'.aborted
    BY <2>3, <2>5, <2>6
  <2>8. response'.aborted \in BOOLEAN /\ response.aborted \in BOOLEAN
    BY <1>3 DEF StreamOf
  <2>. QED
    BY <1>2, <2>7, <2>8
<1>5. Side!Grows
  <2>1. Len(response.data) <= Len(response'.data)
    BY <1>2, <1>3 DEF StreamOf
  <2>. QED
    BY <1>2, <2>1, Grown
<1>. QED
  BY <1>1, <1>2, <1>3, <1>4, <1>5 DEF Side!Answer, StreamOf

\* The handlers that read the body.
LEMMA BodyHandlerContinues ==
    ASSUME IInv, IInv', read_response_body_handler PROVE Side!Continue
<1>1. PICK n \in MoreBytes :
         read_response_body(append_raw_data(response, Buffered(n)), Remaining(body.length, n))
  BY DEF read_response_body_handler
<1>2. pc \in ReadingBody /\ UNCHANGED <<body, answers>>
  BY DEF read_response_body_handler, ReadingBody
<1>3. ~response'.aborted /\ response'.data = SubSeq(body.wire, 1, n) /\ n \in 0 .. Len(body.wire)
  BY <1>1, <1>2, Continued DEF read_response_body, Holding
<1>4. Len(response.data) <= Len(response'.data)
  <2>1. /\ Len(response.data) \in 0 .. arrived /\ arrived \in 0 .. Len(body.wire)
        /\ body.wire \in Seq(Byte) /\ Len(body.wire) \in Nat
    BY <1>2, UnendedStream
  <2>2. Len(response'.data) = n
    BY <1>3, <2>1, Beginning
  <2>. QED
    BY <2>1, <2>2 DEF MoreBytes
<1>. QED
  BY <1>2, <1>3, <1>4, ReadOn

LEMMA OldHandlerContinues ==
    ASSUME IInv, IInv', read_response_body_old_handler PROVE Side!Continue
<1>1. pc \in ReadingBody /\ UNCHANGED <<body, answers>>
  BY DEF read_response_body_old_handler, ReadingBody
<1>2. /\ Len(response.data) \in 0 .. arrived /\ arrived \in 0 .. Len(body.wire)
      /\ body.wire \in Seq(Byte) /\ Len(body.wire) \in Nat
      /\ Holding(response, response.data, FALSE)
  BY <1>1, UnendedStream
<1>3. CASE \E n \in MoreBytes : response' = append_raw_data(response, Buffered(n))
  <2>1. PICK n \in MoreBytes : response' = append_raw_data(response, Buffered(n))
    BY <1>3
  <2>2. /\ ~response'.aborted /\ response'.data = SubSeq(body.wire, 1, n)
        /\ n \in 0 .. Len(body.wire)
    BY <1>1, <2>1, Continued DEF Holding
  <2>3. Len(response'.data) = n
    BY <1>2, <2>2, Beginning
  <2>4. Len(response.data) <= Len(response'.data)
    BY <1>2, <2>3 DEF MoreBytes
  <2>. QED
    BY <1>1, <2>2, <2>4, ReadOn
<1>4. CASE response' = [response EXCEPT !.completed = TRUE]
  <2>1. Holding(response', response.data, TRUE)
    BY <1>2, <1>4, StreamGrows, EmptyTyped
  <2>. QED
    BY <1>1, <1>2, <2>1, ReadOn DEF Holding
<1>. QED
  BY <1>3, <1>4 DEF read_response_body_old_handler

LEMMA ChunkContinues ==
    ASSUME IInv, IInv', pc \in {"read_size", "chunk"}, UNCHANGED <<body, answers>>,
           NEW size \in Int, NEW taken \in Nat, NEW n \in Nat,
           Len(response.data) <= taken, taken <= n, n <= Len(body.wire), Chunk(size, taken, n)
    PROVE  Side!Continue
<1> DEFINE end == taken + size + 2
           whole == size >= -2 /\ n >= end
           k == IF whole THEN end ELSE taken
           next == IF whole THEN -size ELSE size
<1>1. /\ Len(response.data) \in Nat /\ body.wire \in Seq(Byte) /\ Len(body.wire) \in Nat
      /\ Holding(response, response.data, FALSE)
  <2>1. pc \in {"response"} \cup ReadingBody
    BY DEF ReadingBody
  <2>2. TypeOK
    BY DEF IInv
  <2>. QED
    BY <2>1, <2>2, UnendedStream, StreamsTyped
<1>2. k \in 0 .. Len(body.wire) /\ Len(response.data) <= k
  BY <1>1
<1>3. response'.data = SubSeq(body.wire, 1, k) /\ ~response'.aborted
  <2>1. response' = [response EXCEPT !.data = SubSeq(body.wire, 1, k), !.completed = next = 0]
    BY DEF Chunk
  <2>. QED
    BY <1>1, <2>1 DEF Holding, StreamOf
<1>4. Len(response'.data) = k
  BY <1>1, <1>2, <1>3, Beginning
<1>. QED
  BY <1>2, <1>3, <1>4, ReadOn DEF ReadingBody

LEMMA ChunksContinue ==
    ASSUME IInv, IInv', ReadChunkSize \/ ReadChunk
    PROVE  Side!Continue \/ UNCHANGED <<response, answers>>
<1>1. pc \in {"read_size", "chunk"} /\ UNCHANGED <<body, answers>>
  BY DEF ReadChunkSize, ReadChunk
<1>2. /\ Len(response.data) \in 0 .. arrived /\ arrived \in 0 .. Len(body.wire)
      /\ body.wire \in Seq(Byte) /\ Len(body.wire) \in Nat
  BY <1>1, UnendedStream DEF ReadingBody
<1>3. CASE ReadChunkSize
  <2> DEFINE taken == Len(response.data)
  <2>1. PICK n \in IF arrived > taken THEN {arrived} ELSE MoreBytes :
           IF body.wire[taken + 1] = Octet THEN UNCHANGED response
           ELSE Chunk(body.wire[taken + 1], taken + 1, n)
    BY <1>3 DEF ReadChunkSize
  <2>2. taken + 1 \in 1 .. Len(body.wire) /\ n \in Nat /\ taken + 1 <= n /\ n <= Len(body.wire)
    BY <1>2, <2>1 DEF MoreBytes
  <2>3. body.wire[taken + 1] \in Byte
    BY <1>2, <2>2
  <2>4. taken + 1 \in Nat /\ taken <= taken + 1
    BY <1>2
  <2>5. CASE body.wire[taken + 1] = Octet
    BY <1>1, <2>1, <2>5
  <2>6. CASE body.wire[taken + 1] \in Int
    <3>1. Chunk(body.wire[taken + 1], taken + 1, n)
      BY <2>1, <2>6, ConstantsAssumption
    <3>. QED
      BY <1>1, <2>2, <2>4, <2>6, <3>1, ChunkContinues
  <2>. QED
    BY <2>3, <2>5, <2>6 DEF Byte
<1>4. CASE ReadChunk
  <2>1. PICK n \in MoreBytes : Chunk(chunk_size, Len(response.data), n)
    BY <1>4 DEF ReadChunk
  <2>2. /\ Len(response.data) \in Nat /\ n \in Nat
        /\ Len(response.data) <= n /\ n <= Len(body.wire)
    BY <1>2 DEF MoreBytes
  <2>3. chunk_size \in Int
    BY DEF IInv, TypeOK
  <2>. QED
    BY <1>1, <2>1, <2>2, <2>3, ChunkContinues
<1>. QED
  BY <1>3, <1>4

LEMMA FailureContinues == ASSUME IInv, BodyFails PROVE Side!Continue
<1>1. pc \in ReadingBody /\ answers' = answers
      /\ response' = [response EXCEPT !.aborted = TRUE]
  BY DEF BodyFails
<1>2. answers = 1 /\ Holding(response, response.data, FALSE)
  BY <1>1, UnendedStream
<1>. QED
  BY <1>1, <1>2 DEF Holding, StreamOf, Side!Continue, Side!Fails

\* Every other step leaves the answer and the response stream alone.
LEMMA SideStep == IInv /\ IInv' /\ [Next]_vars => [Side!Next]_(Side!vars)
<1> SUFFICES ASSUME IInv, IInv', [Next]_vars PROVE [Side!Next]_(Side!vars)
  OBVIOUS
<1>1. CASE UNCHANGED <<response, answers>>
  BY <1>1 DEF Side!vars
<1>2. CASE Connecting
  <2>1. (AnswerAborted /\ pc \in BeforeHeader) \/ UNCHANGED <<response, answers>>
    BY <1>2 DEF Connecting, resolve_domain, resolve_domain_handler, Connected, ConnectRefused,
       ConnectTimesOut, ConnectFails, BeforeHeader, responseVars
  <2>. QED
    BY <1>1, <2>1, AbortedAnswer DEF Side!Next
<1>3. CASE Writing
  <2>1. (AnswerAborted /\ pc \in BeforeHeader) \/ UNCHANGED <<response, answers>>
    BY <1>3 DEF Writing, write_request_header, HeaderWritten, CheckRequest, WriteBlock,
       BodyWritten, WaitForBlock, PollRequest, WriteFails, BeforeHeader, responseVars
  <2>. QED
    BY <1>1, <2>1, AbortedAnswer DEF Side!Next
<1>4. CASE Reading
  <2>1. CASE read_response_header
    BY <1>1, <2>1 DEF read_response_header, responseVars
  <2>2. CASE IllFormedHeader \/ ResponseFails
    BY <2>2, AbortedAnswer DEF IllFormedHeader, ResponseFails, BeforeHeader, Side!Next
  <2>. QED
    BY <1>1, <1>4, <2>1, <2>2, HeaderAnswer, BodyHandlerContinues, OldHandlerContinues,
       ChunksContinue, FailureContinues DEF Reading, Side!Next
<1>5. CASE \/ TimerExpires \/ timer_handler \/ RequestGrows \/ RequestEnds \/ Finished
           \/ UNCHANGED vars
  BY <1>1, <1>5 DEF TimerExpires, timer_handler, RequestGrows, RequestEnds, Finished,
     responseVars, vars
<1>. QED
  BY <1>2, <1>3, <1>4, <1>5 DEF Next

LEMMA SideInit == Init => Side!Init
BY DEF Init, NewStream, Side!Init

\* A session is what the interpreter relies on: it gives one answer, before which the
\* stream is empty, and a response that has been given away only grows at its end,
\* until it is completed or aborted, once (http_client.cpp).
THEOREM SideImplemented == Spec => ImplementsHttpSide
<1>1. Spec => []IInv
  BY Invariance
<1>2. Spec => Side!Spec
  BY <1>1, SideInit, SideStep, PTL DEF Spec, Side!Spec
<1>. QED
  BY <1>2 DEF ImplementsHttpSide
===========================================================================
