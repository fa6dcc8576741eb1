-------------------------- MODULE HttpSides_proofs -------------------------
(***************************************************************************)
(* The invariants of the interpreter in both programs, for any number of   *)
(* requests and any length of the bodies.                                  *)
(***************************************************************************)
EXTENDS HttpSides, TLAPS

---------------------------------------------------------------------------
(***************************************************************************)
(* The inductive invariant.                                                *)
(***************************************************************************)
SidesTypeOK ==
    /\ TypeOK
    /\ program \in {"egw", "ndn_server"}
    /\ side \in [Request -> Session \cup Lookup \cup NotServed \cup {"exception"}]

\* The entry of a request is there from its first handler to its naming.
Remembered ==
    \A r \in Request :
       phase[r] \in Searching \cup AtServer \cup {"answered", "naming"} => r \in pending

NamedSinceThen ==
    \A r \in Request : phase[r] \in {"heading", "publish", "published"} => named[r]

\* The completion seen is true, and the copy made after it is all there is.
SeenIsSo ==
    \A r \in Request :
       /\ phase[r] \in {"read", "find"} /\ is_complete[r] => request[r].completed
       /\ phase[r] = "find" /\ is_complete[r] => raw_data[r] = request[r].header
       /\ phase[r] = "headerless" => request[r].completed /\ request[r].header = "absent"

Headed == {"publish", "published"}

\* The body in a stream before and after the header is put in front of it.
BodyInOrder ==
    \A r \in Request : \E n \in 0 .. MaxBlocks :
       /\ response[r].data = IF phase[r] \in Headed THEN <<Header>> \o Blocks(n) ELSE Blocks(n)
       /\ phase[r] \in {"new"} \cup Searching \cup AtServer => n = 0

IInv == SidesTypeOK /\ Remembered /\ NamedSinceThen /\ SeenIsSo /\ BodyInOrder

---------------------------------------------------------------------------
(***************************************************************************)
(* The stream of a response.                                               *)
(***************************************************************************)
\* One more block at the end continues the body, with and without the header.
LEMMA BlockAppended ==
    ASSUME NEW n \in Nat
    PROVE  /\ Blocks(n) \o <<n + 1>> = Blocks(n + 1)
           /\ (<<Header>> \o Blocks(n)) \o <<n + 1>> = <<Header>> \o Blocks(n + 1)
BY DEF Blocks, Header

LEMMA NoBlocks == Blocks(0) = <<>>
BY DEF Blocks

\* The number of blocks is read off the stream, with and without the header.
LEMMA BlocksCounted ==
    ASSUME NEW n \in Nat
    PROVE  /\ BlocksIn(Blocks(n)) = n
           /\ BlocksIn(<<Header>> \o Blocks(n)) = n
BY DEF Blocks, Header, BlocksIn

LEMMA BlocksType ==
    ASSUME NEW n \in 0 .. MaxBlocks
    PROVE  /\ Blocks(n) \in Seq(0 .. MaxBlocks)
           /\ <<Header>> \o Blocks(n) \in Seq(0 .. MaxBlocks)
BY BlocksAssumption DEF Blocks, Header

\* A step that only sets flags, and does not leave the phases that stand for the
\* same form of the stream, keeps it.
Early == {"new"} \cup Searching \cup AtServer

LEMMA BodyKept ==
    ASSUME BodyInOrder,
           \A q \in Request : /\ response'[q].data = response[q].data
                              /\ phase'[q] \in Headed <=> phase[q] \in Headed
                              /\ phase'[q] \in Early => phase[q] \in Early
    PROVE  BodyInOrder'
BY DEF BodyInOrder, Early

---------------------------------------------------------------------------
LEMMA InitIInv == SidesInit => IInv
<1> SUFFICES ASSUME SidesInit PROVE IInv
  OBVIOUS
<1> USE DEF SidesInit, Init
<1>1. SidesTypeOK
  BY DEF SidesTypeOK, TypeOK, StreamOf, NewStream, HeaderOf, Session
<1>2. Remembered /\ NamedSinceThen /\ SeenIsSo
  BY DEF Remembered, NamedSinceThen, SeenIsSo, Searching, AtServer
<1>3. BodyInOrder
  <2>1. 0 \in 0 .. MaxBlocks /\ Blocks(0) = <<>>
    BY NoBlocks, BlocksAssumption
  <2>. QED
    BY <2>1 DEF BodyInOrder, NewStream, Headed
<1>. QED
  BY <1>1, <1>2, <1>3 DEF IInv

---------------------------------------------------------------------------
\* The steps of the consumer and of the interpreter.
LEMMA HeaderArrivesInv ==
    ASSUME IInv, NEW r \in Request, HeaderArrives(r), UNCHANGED <<program, side>>
    PROVE  IInv'
<1> USE DEF HeaderArrives, Goto
<1>1. SidesTypeOK'
  BY DEF IInv, SidesTypeOK, TypeOK, HeaderOf, Searching, AtServer, Publishing, Outcome
<1>2. Remembered'
  BY DEF IInv, SidesTypeOK, TypeOK, Remembered, Searching, AtServer, Publishing, Outcome
<1>3. NamedSinceThen'
  BY DEF IInv, SidesTypeOK, TypeOK, NamedSinceThen, Searching, AtServer, Publishing, Outcome
<1>4. SeenIsSo'
  BY DEF IInv, SidesTypeOK, TypeOK, SeenIsSo, Searching, AtServer, Publishing, Outcome
<1>5. BodyInOrder'
  BY BodyKept DEF IInv, SidesTypeOK, TypeOK, Headed, Early, Searching, AtServer, Publishing, Outcome
<1>. QED
  BY <1>1, <1>2, <1>3, <1>4, <1>5 DEF IInv

LEMMA RetrievalEndsInv ==
    ASSUME IInv, NEW r \in Request, RetrievalEnds(r), UNCHANGED <<program, side>>
    PROVE  IInv'
<1> USE DEF RetrievalEnds, Goto
<1>1. SidesTypeOK'
  <2> DEFINE T == [header : HeaderOf, parsed : BOOLEAN, completed : BOOLEAN, aborted : BOOLEAN]
  <2>1. request \in [Request -> T]
    BY DEF IInv, SidesTypeOK, TypeOK
  <2>2. request' \in [Request -> T]
    <3>1. CASE request' = [request EXCEPT ![r].completed = TRUE]
      BY <2>1, <3>1
    <3>2. CASE request' = [request EXCEPT ![r].aborted = TRUE]
      BY <2>1, <3>2
    <3>. QED
      BY <3>1, <3>2
  <2>. QED
    BY <2>2 DEF IInv, SidesTypeOK, TypeOK
<1>2. Remembered'
  BY DEF IInv, SidesTypeOK, TypeOK, Remembered, Searching, AtServer, Publishing, Outcome
<1>3. NamedSinceThen'
  BY DEF IInv, SidesTypeOK, TypeOK, NamedSinceThen, Searching, AtServer, Publishing, Outcome
<1>4. SeenIsSo'
  BY DEF IInv, SidesTypeOK, TypeOK, SeenIsSo, Searching, AtServer, Publishing, Outcome
<1>5. BodyInOrder'
  BY BodyKept DEF IInv, SidesTypeOK, TypeOK, Headed, Early, Searching, AtServer, Publishing, Outcome
<1>. QED
  BY <1>1, <1>2, <1>3, <1>4, <1>5 DEF IInv

LEMMA FromNdnSourceHandlerInv ==
    ASSUME IInv, NEW r \in Request, fromNdnSourceHandler(r), UNCHANGED <<program, side>>
    PROVE  IInv'
<1> USE DEF fromNdnSourceHandler, Goto
<1>1. SidesTypeOK'
  BY DEF IInv, SidesTypeOK, TypeOK, Searching, AtServer, Publishing, Outcome
<1>2. Remembered'
  BY DEF IInv, SidesTypeOK, TypeOK, Remembered, Searching, AtServer, Publishing, Outcome
<1>3. NamedSinceThen'
  BY DEF IInv, SidesTypeOK, TypeOK, NamedSinceThen, Searching, AtServer, Publishing, Outcome
<1>4. SeenIsSo'
  BY DEF IInv, SidesTypeOK, TypeOK, SeenIsSo, Searching, AtServer, Publishing, Outcome
<1>5. BodyInOrder'
  BY BodyKept DEF IInv, SidesTypeOK, TypeOK, Headed, Early, Searching, AtServer, Publishing, Outcome
<1>. QED
  BY <1>1, <1>2, <1>3, <1>4, <1>5 DEF IInv

LEMMA CheckFlagsInv ==
    ASSUME IInv, NEW r \in Request, CheckFlags(r), UNCHANGED <<program, side>>
    PROVE  IInv'
<1> USE DEF CheckFlags, Goto
<1>1. SidesTypeOK'
  BY DEF IInv, SidesTypeOK, TypeOK, Searching, AtServer, Publishing, Outcome
<1>2. Remembered'
  BY DEF IInv, SidesTypeOK, TypeOK, Remembered, Searching, AtServer, Publishing, Outcome
<1>3. NamedSinceThen'
  BY DEF IInv, SidesTypeOK, TypeOK, NamedSinceThen, Searching, AtServer, Publishing, Outcome
<1>4. SeenIsSo'
  BY DEF IInv, SidesTypeOK, TypeOK, SeenIsSo, Searching, AtServer, Publishing, Outcome
<1>5. BodyInOrder'
  BY BodyKept DEF IInv, SidesTypeOK, TypeOK, Headed, Early, Searching, AtServer, Publishing, Outcome
<1>. QED
  BY <1>1, <1>2, <1>3, <1>4, <1>5 DEF IInv

LEMMA DropAbortedInv ==
    ASSUME IInv, NEW r \in Request, DropAborted(r), UNCHANGED <<program, side>>
    PROVE  IInv'
<1> USE DEF DropAborted, Goto
<1>1. SidesTypeOK'
  BY DEF IInv, SidesTypeOK, TypeOK, Searching, AtServer, Publishing, Outcome
<1>2. Remembered'
  BY DEF IInv, SidesTypeOK, TypeOK, Remembered, Searching, AtServer, Publishing, Outcome
<1>3. NamedSinceThen'
  BY DEF IInv, SidesTypeOK, TypeOK, NamedSinceThen, Searching, AtServer, Publishing, Outcome
<1>4. SeenIsSo'
  BY DEF IInv, SidesTypeOK, TypeOK, SeenIsSo, Searching, AtServer, Publishing, Outcome
<1>5. BodyInOrder'
  BY BodyKept DEF IInv, SidesTypeOK, TypeOK, Headed, Early, Searching, AtServer, Publishing, Outcome
<1>. QED
  BY <1>1, <1>2, <1>3, <1>4, <1>5 DEF IInv

LEMMA ReadDataInv ==
    ASSUME IInv, NEW r \in Request, ReadData(r), UNCHANGED <<program, side>>
    PROVE  IInv'
<1> USE DEF ReadData, Goto
<1>1. SidesTypeOK'
  BY DEF IInv, SidesTypeOK, TypeOK, Searching, AtServer, Publishing, Outcome
<1>2. Remembered'
  BY DEF IInv, SidesTypeOK, TypeOK, Remembered, Searching, AtServer, Publishing, Outcome
<1>3. NamedSinceThen'
  BY DEF IInv, SidesTypeOK, TypeOK, NamedSinceThen, Searching, AtServer, Publishing, Outcome
<1>4. SeenIsSo'
  BY DEF IInv, SidesTypeOK, TypeOK, SeenIsSo, Searching, AtServer, Publishing, Outcome
<1>5. BodyInOrder'
  BY BodyKept DEF IInv, SidesTypeOK, TypeOK, Headed, Early, Searching, AtServer, Publishing, Outcome
<1>. QED
  BY <1>1, <1>2, <1>3, <1>4, <1>5 DEF IInv

LEMMA FromHttpSourceInv ==
    ASSUME IInv, NEW r \in Request, fromHttpSource(r), UNCHANGED <<program, side>>
    PROVE  IInv'
<1> USE DEF fromHttpSource, RememberedAtServer, Goto
<1>1. SidesTypeOK'
  BY DEF IInv, SidesTypeOK, TypeOK, Searching, AtServer, Publishing, Outcome
<1>2. Remembered'
  BY DEF IInv, SidesTypeOK, TypeOK, Remembered, Searching, AtServer, Publishing, Outcome
<1>3. NamedSinceThen'
  BY DEF IInv, SidesTypeOK, TypeOK, NamedSinceThen, Searching, AtServer, Publishing, Outcome
<1>4. SeenIsSo'
  BY DEF IInv, SidesTypeOK, TypeOK, SeenIsSo, Searching, AtServer, Publishing, Outcome
<1>5. BodyInOrder'
  BY BodyKept DEF IInv, SidesTypeOK, TypeOK, Headed, Early, Searching, AtServer, Publishing, Outcome
<1>. QED
  BY <1>1, <1>2, <1>3, <1>4, <1>5 DEF IInv

LEMMA DropIllFormedInv ==
    ASSUME IInv, NEW r \in Request, DropIllFormed(r), UNCHANGED <<program, side>>
    PROVE  IInv'
<1> USE DEF DropIllFormed, Goto
<1>1. SidesTypeOK'
  BY DEF IInv, SidesTypeOK, TypeOK, Searching, AtServer, Publishing, Outcome
<1>2. Remembered'
  BY DEF IInv, SidesTypeOK, TypeOK, Remembered, Searching, AtServer, Publishing, Outcome
<1>3. NamedSinceThen'
  BY DEF IInv, SidesTypeOK, TypeOK, NamedSinceThen, Searching, AtServer, Publishing, Outcome
<1>4. SeenIsSo'
  BY DEF IInv, SidesTypeOK, TypeOK, SeenIsSo, Searching, AtServer, Publishing, Outcome
<1>5. BodyInOrder'
  BY BodyKept DEF IInv, SidesTypeOK, TypeOK, Headed, Early, Searching, AtServer, Publishing, Outcome
<1>. QED
  BY <1>1, <1>2, <1>3, <1>4, <1>5 DEF IInv

LEMMA RetryHeaderInv ==
    ASSUME IInv, NEW r \in Request, RetryHeader(r), UNCHANGED <<program, side>>
    PROVE  IInv'
<1> USE DEF RetryHeader, SeenComplete, Goto
<1>1. SidesTypeOK'
  BY DEF IInv, SidesTypeOK, TypeOK, Searching, AtServer, Publishing, Outcome
<1>2. Remembered'
  BY DEF IInv, SidesTypeOK, TypeOK, Remembered, Searching, AtServer, Publishing, Outcome
<1>3. NamedSinceThen'
  BY DEF IInv, SidesTypeOK, TypeOK, NamedSinceThen, Searching, AtServer, Publishing, Outcome
<1>4. SeenIsSo'
  BY DEF IInv, SidesTypeOK, TypeOK, SeenIsSo, Searching, AtServer, Publishing, Outcome
<1>5. BodyInOrder'
  BY BodyKept DEF IInv, SidesTypeOK, TypeOK, Headed, Early, Searching, AtServer, Publishing, Outcome
<1>. QED
  BY <1>1, <1>2, <1>3, <1>4, <1>5 DEF IInv

LEMMA GiveUpOnHeaderInv ==
    ASSUME IInv, NEW r \in Request, GiveUpOnHeader(r), UNCHANGED <<program, side>>
    PROVE  IInv'
<1> USE DEF GiveUpOnHeader, SeenComplete, Goto
<1>1. SidesTypeOK'
  BY DEF IInv, SidesTypeOK, TypeOK, Searching, AtServer, Publishing, Outcome
<1>2. Remembered'
  BY DEF IInv, SidesTypeOK, TypeOK, Remembered, Searching, AtServer, Publishing, Outcome
<1>3. NamedSinceThen'
  BY DEF IInv, SidesTypeOK, TypeOK, NamedSinceThen, Searching, AtServer, Publishing, Outcome
<1>4. SeenIsSo'
  BY DEF IInv, SidesTypeOK, TypeOK, SeenIsSo, Searching, AtServer, Publishing, Outcome
<1>5. BodyInOrder'
  BY BodyKept DEF IInv, SidesTypeOK, TypeOK, Headed, Early, Searching, AtServer, Publishing, Outcome
<1>. QED
  BY <1>1, <1>2, <1>3, <1>4, <1>5 DEF IInv

LEMMA CheckResponseInv ==
    ASSUME IInv, NEW r \in Request, CheckResponse(r), UNCHANGED <<program, side>>
    PROVE  IInv'
<1> USE DEF CheckResponse, Goto
<1>1. SidesTypeOK'
  BY DEF IInv, SidesTypeOK, TypeOK, Searching, AtServer, Publishing, Outcome
<1>2. Remembered'
  BY DEF IInv, SidesTypeOK, TypeOK, Remembered, Searching, AtServer, Publishing, Outcome
<1>3. NamedSinceThen'
  BY DEF IInv, SidesTypeOK, TypeOK, NamedSinceThen, Searching, AtServer, Publishing, Outcome
<1>4. SeenIsSo'
  BY DEF IInv, SidesTypeOK, TypeOK, SeenIsSo, Searching, AtServer, Publishing, Outcome
<1>5. BodyInOrder'
  BY BodyKept DEF IInv, SidesTypeOK, TypeOK, Headed, Early, Searching, AtServer, Publishing, Outcome
<1>. QED
  BY <1>1, <1>2, <1>3, <1>4, <1>5 DEF IInv

LEMMA DropResponseInv ==
    ASSUME IInv, NEW r \in Request, DropResponse(r), UNCHANGED <<program, side>>
    PROVE  IInv'
<1> USE DEF DropResponse, Goto
<1>1. SidesTypeOK'
  BY DEF IInv, SidesTypeOK, TypeOK, Searching, AtServer, Publishing, Outcome
<1>2. Remembered'
  BY DEF IInv, SidesTypeOK, TypeOK, Remembered, Searching, AtServer, Publishing, Outcome
<1>3. NamedSinceThen'
  BY DEF IInv, SidesTypeOK, TypeOK, NamedSinceThen, Searching, AtServer, Publishing, Outcome
<1>4. SeenIsSo'
  BY DEF IInv, SidesTypeOK, TypeOK, SeenIsSo, Searching, AtServer, Publishing, Outcome
<1>5. BodyInOrder'
  BY BodyKept DEF IInv, SidesTypeOK, TypeOK, Headed, Early, Searching, AtServer, Publishing, Outcome
<1>. QED
  BY <1>1, <1>2, <1>3, <1>4, <1>5 DEF IInv

LEMMA NameResponseInv ==
    ASSUME IInv, NEW r \in Request, NameResponse(r), UNCHANGED <<program, side>>
    PROVE  IInv'
<1> USE DEF NameResponse, DigestTaken, AfterNaming, Goto
<1>1. SidesTypeOK'
  BY DEF IInv, SidesTypeOK, TypeOK, Searching, AtServer, Publishing, Outcome
<1>2. Remembered'
  BY DEF IInv, SidesTypeOK, TypeOK, Remembered, Searching, AtServer, Publishing, Outcome
<1>3. NamedSinceThen'
  BY DEF IInv, SidesTypeOK, TypeOK, NamedSinceThen, Remembered
<1>4. SeenIsSo'
  BY DEF IInv, SidesTypeOK, TypeOK, SeenIsSo, Searching, AtServer, Publishing, Outcome
<1>5. BodyInOrder'
  BY BodyKept DEF IInv, SidesTypeOK, TypeOK, Headed, Early, Searching, AtServer, Publishing, Outcome
<1>. QED
  BY <1>1, <1>2, <1>3, <1>4, <1>5 DEF IInv

LEMMA FromNdnSinkInv ==
    ASSUME IInv, NEW r \in Request, fromNdnSink(r), UNCHANGED <<program, side>>
    PROVE  IInv'
<1> USE DEF fromNdnSink, Goto
<1>1. SidesTypeOK'
  BY DEF IInv, SidesTypeOK, TypeOK, Searching, AtServer, Publishing, Outcome
<1>2. Remembered'
  BY DEF IInv, SidesTypeOK, TypeOK, Remembered, Searching, AtServer, Publishing, Outcome
<1>3. NamedSinceThen'
  BY DEF IInv, SidesTypeOK, TypeOK, NamedSinceThen, Searching, AtServer, Publishing, Outcome
<1>4. SeenIsSo'
  BY DEF IInv, SidesTypeOK, TypeOK, SeenIsSo, Searching, AtServer, Publishing, Outcome
<1>5. BodyInOrder'
  BY BodyKept DEF IInv, SidesTypeOK, TypeOK, Headed, Early, Searching, AtServer, Publishing, Outcome
<1>. QED
  BY <1>1, <1>2, <1>3, <1>4, <1>5 DEF IInv

\* The steps of the HTTP side.
LEMMA FromHttpSinkInv ==
    ASSUME IInv, NEW r \in Request, fromHttpSink(r), UNCHANGED <<program, side>>
    PROVE  IInv'
<1> USE DEF fromHttpSink, Goto
<1>1. SidesTypeOK'
  <2> DEFINE T == StreamOf(0 .. MaxBlocks)
  <2>1. response \in [Request -> T]
    BY DEF IInv, SidesTypeOK, TypeOK
  <2>2. response' \in [Request -> T]
    <3>1. [response[r] EXCEPT !.aborted = TRUE] \in T
      BY <2>1 DEF StreamOf
    <3>. QED
      BY <2>1, <3>1
  <2>. QED
    BY <2>2 DEF IInv, SidesTypeOK, TypeOK, Searching, AtServer, Publishing, Outcome
<1>2. Remembered'
  BY DEF IInv, SidesTypeOK, TypeOK, Remembered, Searching, AtServer, Publishing, Outcome
<1>3. NamedSinceThen'
  BY DEF IInv, SidesTypeOK, TypeOK, NamedSinceThen, Searching, AtServer, Publishing, Outcome
<1>4. SeenIsSo'
  BY DEF IInv, SidesTypeOK, TypeOK, SeenIsSo, Searching, AtServer, Publishing, Outcome
<1>5. BodyInOrder'
  BY BodyKept DEF IInv, SidesTypeOK, TypeOK, StreamOf, Headed, Early, Searching, AtServer, Publishing, Outcome
<1>. QED
  BY <1>1, <1>2, <1>3, <1>4, <1>5 DEF IInv

LEMMA ServerEndsInv ==
    ASSUME IInv, NEW r \in Request, ServerEnds(r), UNCHANGED <<program, side>>
    PROVE  IInv'
<1> USE DEF ServerEnds, Ended, Goto
<1>1. SidesTypeOK'
  <2> DEFINE T == StreamOf(0 .. MaxBlocks)
  <2>1. response \in [Request -> T]
    BY DEF IInv, SidesTypeOK, TypeOK
  <2>2. response' \in [Request -> T]
    <3>1. /\ [response[r] EXCEPT !.aborted = TRUE] \in T
          /\ [response[r] EXCEPT !.completed = TRUE] \in T
      BY <2>1 DEF StreamOf
    <3>. QED
      BY <2>1, <3>1
  <2>. QED
    BY <2>2 DEF IInv, SidesTypeOK, TypeOK, Searching, AtServer, Publishing, Outcome
<1>2. Remembered'
  BY DEF IInv, SidesTypeOK, TypeOK, Remembered, Searching, AtServer, Publishing, Outcome
<1>3. NamedSinceThen'
  BY DEF IInv, SidesTypeOK, TypeOK, NamedSinceThen, Searching, AtServer, Publishing, Outcome
<1>4. SeenIsSo'
  BY DEF IInv, SidesTypeOK, TypeOK, SeenIsSo, Searching, AtServer, Publishing, Outcome
<1>5. BodyInOrder'
  <2>1. \A q \in Request : response'[q].data = response[q].data
    <3>1. CASE response' = [response EXCEPT ![r].completed = TRUE]
      BY <3>1 DEF IInv, SidesTypeOK, TypeOK, StreamOf
    <3>2. CASE response' = [response EXCEPT ![r].aborted = TRUE]
      BY <3>2 DEF IInv, SidesTypeOK, TypeOK, StreamOf
    <3>. QED
      BY <3>1, <3>2
  <2>. QED
    BY <2>1, BodyKept DEF IInv
<1>. QED
  BY <1>1, <1>2, <1>3, <1>4, <1>5 DEF IInv

LEMMA Add_header_to_raw_streamInv ==
    ASSUME IInv, NEW r \in Request, add_header_to_raw_stream(r), UNCHANGED <<program, side>>
    PROVE  IInv'
<1> USE DEF add_header_to_raw_stream, append_raw_data_at_first, Goto
<1> PICK n \in 0 .. MaxBlocks :
       /\ response[r].data = IF phase[r] \in Headed THEN <<Header>> \o Blocks(n) ELSE Blocks(n)
       /\ phase[r] \in {"new"} \cup Searching \cup AtServer => n = 0
  BY DEF IInv, BodyInOrder
<1> n \in Nat
  BY BlocksAssumption
<1>0. response' = [response EXCEPT ![r] = [@ EXCEPT !.data = <<Header>> \o Blocks(n)]]
  BY DEF IInv, SidesTypeOK, TypeOK, Headed
<1>1. SidesTypeOK'
  <2> DEFINE T == StreamOf(0 .. MaxBlocks)
  <2>1. response \in [Request -> T]
    BY DEF IInv, SidesTypeOK, TypeOK
  <2>2. response' \in [Request -> T]
    <3>1. [response[r] EXCEPT !.data = <<Header>> \o Blocks(n)] \in T
      BY <2>1, BlocksType DEF StreamOf
    <3>. QED
      BY <1>0, <2>1, <3>1
  <2>. QED
    BY <2>2 DEF IInv, SidesTypeOK, TypeOK, Searching, AtServer, Publishing, Outcome
<1>2. Remembered'
  BY DEF IInv, SidesTypeOK, TypeOK, Remembered, Searching, AtServer, Publishing, Outcome
<1>3. NamedSinceThen'
  BY DEF IInv, SidesTypeOK, TypeOK, NamedSinceThen, Searching, AtServer, Publishing, Outcome
<1>4. SeenIsSo'
  BY DEF IInv, SidesTypeOK, TypeOK, SeenIsSo, Searching, AtServer, Publishing, Outcome
<1>5. BodyInOrder'
  <2> SUFFICES ASSUME NEW q \in Request
               PROVE  \E k \in 0 .. MaxBlocks :
                         /\ response'[q].data = IF phase'[q] \in Headed THEN <<Header>> \o Blocks(k)
                                                ELSE Blocks(k)
                         /\ phase'[q] \in {"new"} \cup Searching \cup AtServer => k = 0
    BY DEF BodyInOrder
  <2>1. CASE q # r
    BY <2>1 DEF IInv, SidesTypeOK, TypeOK, BodyInOrder
  <2>2. CASE q = r
    <3>1. phase'[r] = "publish"
      BY DEF IInv, SidesTypeOK, TypeOK
    <3>2. response'[r].data = <<Header>> \o Blocks(n)
      BY <1>0 DEF IInv, SidesTypeOK, TypeOK, StreamOf
    <3>. QED
      BY <2>2, <3>1, <3>2 DEF Headed, Searching, AtServer
  <2>. QED
    BY <2>1, <2>2
<1>. QED
  BY <1>1, <1>2, <1>3, <1>4, <1>5 DEF IInv

LEMMA ServerGrowsInv ==
    ASSUME IInv, NEW r \in Request, ServerGrows(r), UNCHANGED <<program, side>>
    PROVE  IInv'
<1> USE DEF ServerGrows, append_raw_data, Goto
<1> PICK n \in 0 .. MaxBlocks :
       /\ response[r].data = IF phase[r] \in Headed THEN <<Header>> \o Blocks(n) ELSE Blocks(n)
       /\ phase[r] \in {"new"} \cup Searching \cup AtServer => n = 0
  BY DEF IInv, BodyInOrder
<1> n \in Nat
  BY BlocksAssumption
<1>0. /\ n + 1 \in 0 .. MaxBlocks
      /\ response' = [response EXCEPT ![r] = [@ EXCEPT !.data =
                        IF phase[r] \in Headed THEN <<Header>> \o Blocks(n + 1) ELSE Blocks(n + 1)]]
  <2>1. BlocksIn(response[r].data) = n
    BY BlocksCounted
  <2>2. response[r].data \o <<n + 1>> =
          IF phase[r] \in Headed THEN <<Header>> \o Blocks(n + 1) ELSE Blocks(n + 1)
    <3>1. CASE phase[r] \in Headed
      BY <3>1, BlockAppended
    <3>2. CASE phase[r] \notin Headed
      BY <3>2, BlockAppended
    <3>. QED
      BY <3>1, <3>2
  <2>3. n + 1 \in 0 .. MaxBlocks
    BY <2>1, BlocksAssumption
  <2>. QED
    BY <2>1, <2>2, <2>3
<1>1. SidesTypeOK'
  <2> DEFINE T == StreamOf(0 .. MaxBlocks)
  <2>1. response \in [Request -> T]
    BY DEF IInv, SidesTypeOK, TypeOK
  <2>2. response' \in [Request -> T]
    <3>1. [response[r] EXCEPT !.data =
            IF phase[r] \in Headed THEN <<Header>> \o Blocks(n + 1) ELSE Blocks(n + 1)] \in T
      BY <1>0, <2>1, BlocksType, ZenonT(40) DEF StreamOf
    <3>. QED
      BY <1>0, <2>1, <3>1
  <2>. QED
    BY <2>2 DEF IInv, SidesTypeOK, TypeOK, Searching, AtServer, Publishing, Outcome
<1>2. Remembered'
  BY DEF IInv, SidesTypeOK, TypeOK, Remembered, Searching, AtServer, Publishing, Outcome
<1>3. NamedSinceThen'
  BY DEF IInv, SidesTypeOK, TypeOK, NamedSinceThen, Searching, AtServer, Publishing, Outcome
<1>4. SeenIsSo'
  BY DEF IInv, SidesTypeOK, TypeOK, SeenIsSo, Searching, AtServer, Publishing, Outcome
<1>5. BodyInOrder'
  <2> SUFFICES ASSUME NEW q \in Request
               PROVE  \E k \in 0 .. MaxBlocks :
                         /\ response'[q].data = IF phase'[q] \in Headed THEN <<Header>> \o Blocks(k)
                                                ELSE Blocks(k)
                         /\ phase'[q] \in {"new"} \cup Searching \cup AtServer => k = 0
    BY DEF BodyInOrder
  <2>1. CASE q # r
    BY <2>1 DEF IInv, SidesTypeOK, TypeOK, BodyInOrder
  <2>2. CASE q = r
    <3>1. phase'[r] = phase[r] /\ phase[r] \notin {"new"} \cup Searching \cup AtServer
      BY DEF Searching, AtServer, Publishing
    <3>2. response'[r].data =
            IF phase[r] \in Headed THEN <<Header>> \o Blocks(n + 1) ELSE Blocks(n + 1)
      <4>1. r \in DOMAIN response /\ response[r] \in StreamOf(0 .. MaxBlocks)
        BY DEF IInv, SidesTypeOK, TypeOK
      <4>. QED
        BY <1>0, <4>1 DEF StreamOf
    <3>. QED
      BY <1>0, <2>2, <3>1, <3>2
  <2>. QED
    BY <2>1, <2>2
<1>. QED
  BY <1>1, <1>2, <1>3, <1>4, <1>5 DEF IInv

LEMMA ResolveInv ==
    ASSUME IInv, NEW r \in Request, resolve(r)
    PROVE  IInv'
<1> USE DEF resolve, Goto, SideGoto
<1> PICK n \in 0 .. MaxBlocks :
       /\ response[r].data = IF phase[r] \in Headed THEN <<Header>> \o Blocks(n) ELSE Blocks(n)
       /\ phase[r] \in {"new"} \cup Searching \cup AtServer => n = 0
  BY DEF IInv, BodyInOrder
<1> n \in Nat
  BY BlocksAssumption
<1>0. PICK m \in 0 .. MaxBlocks, c \in BOOLEAN :
         response' = [response EXCEPT ![r] = [@ EXCEPT !.data = Blocks(m), !.completed = c]]
  <2>1. response[r].data = Blocks(0) /\ Blocks(0) = <<>>
    BY NoBlocks DEF Headed, Searching, AtServer
  <2>2. CASE response' = response
    <3>1. response[r] = [response[r] EXCEPT !.data = Blocks(0), !.completed = response[r].completed]
      BY <2>1 DEF IInv, SidesTypeOK, TypeOK, StreamOf
    <3>2. 0 \in 0 .. MaxBlocks /\ response[r].completed \in BOOLEAN
      BY BlocksAssumption DEF IInv, SidesTypeOK, TypeOK, StreamOf
    <3>3. response' = [response EXCEPT ![r] = response[r]]
      BY <2>2 DEF IInv, SidesTypeOK, TypeOK
    <3>. QED
      BY <3>1, <3>2, <3>3
  <2>3. ASSUME NEW what, response' = [response EXCEPT ![r] = Filled(r, what)]
        PROVE  \E m \in 0 .. MaxBlocks :
                  response' = [response EXCEPT ![r] = [@ EXCEPT !.data = Blocks(m), !.completed = TRUE]]
    <3> DEFINE m == IF what = "directory" THEN 0 ELSE MaxBlocks
    <3>1. m \in 0 .. MaxBlocks
      BY BlocksAssumption
    <3>2. Filled(r, what) = [response[r] EXCEPT !.data = Blocks(m), !.completed = TRUE]
      <4>1. <<>> \o Blocks(MaxBlocks) = Blocks(MaxBlocks) /\ <<>> \o <<>> = <<>>
        BY BlocksAssumption DEF Blocks
      <4>2. append_raw_data(response[r], <<>>) = [response[r] EXCEPT !.data = Blocks(0)]
        BY <2>1, <4>1 DEF append_raw_data
      <4>3. append_raw_data(response[r], Blocks(MaxBlocks)) =
              [response[r] EXCEPT !.data = Blocks(MaxBlocks)]
        BY <2>1, <4>1 DEF append_raw_data
      <4>. QED
        BY <4>2, <4>3 DEF Filled, IInv, SidesTypeOK, TypeOK, StreamOf
    <3>. QED
      BY <2>3, <3>1, <3>2 DEF IInv, SidesTypeOK, TypeOK
  <2>. QED
    BY <2>2, <2>3 DEF get
<1>1. SidesTypeOK'
  <2> DEFINE T == StreamOf(0 .. MaxBlocks)
  <2>1. response \in [Request -> T]
    BY DEF IInv, SidesTypeOK, TypeOK
  <2>2. response' \in [Request -> T]
    <3>1. [response[r] EXCEPT !.data = Blocks(m), !.completed = c] \in T
      BY <1>0, <2>1, BlocksType DEF StreamOf
    <3>. QED
      BY <1>0, <2>1, <3>1
  <2>. QED
    BY <2>2, ZenonT(40) DEF IInv, SidesTypeOK, TypeOK, Searching, AtServer, Publishing, Outcome
<1>2. Remembered'
  BY DEF IInv, SidesTypeOK, TypeOK, Remembered, Searching, AtServer, Publishing, Outcome
<1>3. NamedSinceThen'
  BY DEF IInv, SidesTypeOK, TypeOK, NamedSinceThen, Searching, AtServer, Publishing, Outcome
<1>4. SeenIsSo'
  BY DEF IInv, SidesTypeOK, TypeOK, SeenIsSo, Searching, AtServer, Publishing, Outcome
<1>5. BodyInOrder'
  <2> SUFFICES ASSUME NEW q \in Request
               PROVE  \E k \in 0 .. MaxBlocks :
                         /\ response'[q].data = IF phase'[q] \in Headed THEN <<Header>> \o Blocks(k)
                                                ELSE Blocks(k)
                         /\ phase'[q] \in {"new"} \cup Searching \cup AtServer => k = 0
    BY DEF BodyInOrder
  <2>1. CASE q # r
    BY <1>0, <2>1 DEF IInv, SidesTypeOK, TypeOK, BodyInOrder
  <2>2. CASE q = r
    BY <1>0, <2>2 DEF IInv, SidesTypeOK, TypeOK, StreamOf, Headed, Searching, AtServer, Publishing, Outcome
  <2>. QED
    BY <2>1, <2>2
<1>. QED
  BY <1>1, <1>2, <1>3, <1>4, <1>5 DEF IInv

---------------------------------------------------------------------------
LEMMA StutterInv ==
    ASSUME IInv, UNCHANGED sideVars
    PROVE  IInv'
<1> USE DEF sideVars, vars
<1>1. SidesTypeOK'
  BY DEF IInv, SidesTypeOK, TypeOK
<1>2. Remembered' /\ NamedSinceThen' /\ SeenIsSo' /\ BodyInOrder'
  BY DEF IInv, Remembered, NamedSinceThen, SeenIsSo, BodyInOrder
<1>. QED
  BY <1>1, <1>2 DEF IInv

\* A session goes on, or an exception leaves it: the interpreter sees nothing of it.
SideStage(r) ==
    /\ \E stage \in Session \cup {"exception"} : SideGoto(r, stage)
    /\ UNCHANGED <<vars, program>>

LEMMA SideStageInv ==
    ASSUME IInv, NEW r \in Request, SideStage(r) PROVE IInv'
<1> USE DEF vars
<1>1. SidesTypeOK'
  <2>1. side' \in [Request -> Session \cup Lookup \cup NotServed \cup {"exception"}]
    BY DEF SideStage, SideGoto, IInv, SidesTypeOK
  <2>. QED
    BY <2>1 DEF SideStage, IInv, SidesTypeOK, TypeOK
<1>2. Remembered' /\ NamedSinceThen' /\ SeenIsSo' /\ BodyInOrder'
  BY DEF SideStage, IInv, Remembered, NamedSinceThen, SeenIsSo, BodyInOrder
<1>. QED
  BY <1>1, <1>2 DEF IInv

LEMMA StageSteps ==
    ASSUME NEW r \in Request,
           \/ Connected(r) \/ Written(r) \/ Throws(r)
           \/ FilesystemError(r)
    PROVE  SideStage(r)
BY DEF Connected, Written, Throws, FilesystemError, SideStage, Session

LEMMA NextIInv == IInv /\ [Next]_sideVars => IInv'
<1> SUFFICES ASSUME IInv, [Next]_sideVars PROVE IInv'
  OBVIOUS
<1>1. ASSUME NEW r \in Request, InterpreterStep(r), UNCHANGED <<program, side>> PROVE IInv'
  <2>1. CASE Consumer(r)
    BY <1>1, <2>1, HeaderArrivesInv, RetrievalEndsInv DEF Consumer
  <2>2. CASE Search(r)
    BY <1>1, <2>2, FromNdnSourceHandlerInv, CheckFlagsInv, DropAbortedInv, ReadDataInv,
       FromHttpSourceInv, DropIllFormedInv, RetryHeaderInv, GiveUpOnHeaderInv DEF Search
  <2>3. CASE Publish(r)
    BY <1>1, <2>3, CheckResponseInv, DropResponseInv, NameResponseInv,
       Add_header_to_raw_streamInv, FromNdnSinkInv DEF Publish
  <2>. QED
    BY <1>1, <2>1, <2>2, <2>3 DEF InterpreterStep
<1>2. ASSUME NEW r \in Request, Server(r), UNCHANGED <<program, side>> PROVE IInv'
  BY <1>2, ServerGrowsInv, ServerEndsInv DEF Server
<1>3. ASSUME NEW r \in Request, HttpClientStep(r) \/ HttpEngineStep(r) PROVE IInv'
  <2>1. CASE Answers(r)
    BY <2>1, FromHttpSinkInv DEF Answers
  <2>2. CASE resolve(r)
    BY <2>2, ResolveInv
  <2>3. CASE Connected(r) \/ Written(r) \/ Throws(r) \/ FilesystemError(r)
    BY <2>3, StageSteps, SideStageInv
  <2>. QED
    BY <1>3, <2>1, <2>2, <2>3 DEF HttpClientStep, HttpEngineStep
<1>4. CASE AllDone /\ UNCHANGED <<program, side>>
  BY <1>4, StutterInv DEF AllDone, sideVars
<1>5. CASE UNCHANGED sideVars
  BY <1>5, StutterInv
<1>. QED
  BY <1>1, <1>2, <1>3, <1>4, <1>5 DEF Next

\* The invariant holds in every state of both programs.
THEOREM Invariance == FairSpec => []IInv
<1>. QED
  BY InitIInv, NextIInv, PTL DEF FairSpec

---------------------------------------------------------------------------
(***************************************************************************)
(* The properties.                                                         *)
(***************************************************************************)
\* Every variable keeps its type.
THEOREM TypeCorrect == FairSpec => []SidesTypeOK
<1>1. IInv => SidesTypeOK
  BY DEF IInv
<1>. QED
  BY Invariance, <1>1, PTL

\* A response is published under the digest of its request.
THEOREM DigestInName == FairSpec => []NamedByDigest
<1>1. IInv => NamedByDigest
  BY DEF IInv, NamedSinceThen, NamedByDigest
<1>. QED
  BY Invariance, <1>1, PTL

\* What is published is the header, and then the body in its order.
THEOREM HeaderBeforeBody == FairSpec => []HeaderFirst
<1>1. IInv => HeaderFirst
  <2> SUFFICES ASSUME IInv, NEW r \in Request, phase[r] = "published"
               PROVE  response[r].data = <<Header>> \o Blocks(Len(response[r].data) - 1)
    BY DEF HeaderFirst
  <2>1. PICK n \in 0 .. MaxBlocks : response[r].data = <<Header>> \o Blocks(n)
    BY DEF IInv, BodyInOrder, Headed
  <2>2. Len(<<Header>> \o Blocks(n)) - 1 = n
    BY DEF Blocks, Header
  <2>. QED
    BY <2>1, <2>2
<1>. QED
  BY Invariance, <1>1, PTL

\* A request is only given up when it is complete and has no header.
THEOREM HeaderNeverMissed == FairSpec => []GivenUpOnlyIfHeaderless
<1>1. IInv => GivenUpOnlyIfHeaderless
  BY DEF IInv, SeenIsSo, GivenUpOnlyIfHeaderless
<1>. QED
  BY Invariance, <1>1, PTL

---------------------------------------------------------------------------
(***************************************************************************)
(* The promise of the HTTP side, step by step.                             *)
(***************************************************************************)
\* The stream of a request that was not answered yet is not aborted.
Untouched == \A r \in Request : phase[r] \in Early => ~response[r].aborted

\* A step that leaves the answers and the streams alone.
Quiet == UNCHANGED response /\ \A r \in Request : Answered(r)' = Answered(r)

\* A step of one request, in its phase and its response stream.
Only(r) ==
    \A q \in Request \ {r} : phase'[q] = phase[q] /\ response'[q] = response[q]

LEMMA BlocksOf ==
    ASSUME NEW n \in Nat
    PROVE  /\ BodyIn(Blocks(n)) = Blocks(n) /\ BodyIn(<<Header>> \o Blocks(n)) = Blocks(n)
           /\ Len(Blocks(n)) = n
<1>1. Blocks(n) \in Seq(Nat) /\ Len(Blocks(n)) = n /\ (n > 0 => Blocks(n)[1] = 1)
  BY DEF Blocks
<1>2. BodyIn(Blocks(n)) = Blocks(n)
  BY <1>1 DEF BodyIn, Header
<1>3. BodyIn(<<Header>> \o Blocks(n)) = Blocks(n)
  BY <1>1 DEF BodyIn, Header
<1>. QED
  BY <1>1, <1>2, <1>3

LEMMA BlocksBeginning ==
    ASSUME NEW n \in Nat, NEW m \in 0 .. n
    PROVE  SubSeq(Blocks(n), 1, m) = Blocks(m)
BY DEF Blocks

LEMMA BodyIs ==
    ASSUME IInv, NEW r \in Request
    PROVE  \E n \in Nat : BodyIn(response[r].data) = Blocks(n) /\ BlocksIn(response[r].data) = n
<1>1. PICK n \in 0 .. MaxBlocks :
         response[r].data = IF phase[r] \in Headed THEN <<Header>> \o Blocks(n) ELSE Blocks(n)
  BY DEF IInv, BodyInOrder
<1>2. n \in Nat
  BY BlocksAssumption
<1>. QED
  BY <1>1, <1>2, BlocksOf, BlocksCounted

LEMMA BodyWillBe ==
    ASSUME IInv', NEW r \in Request
    PROVE  \E n \in Nat : BodyIn(response'[r].data) = Blocks(n) /\ BlocksIn(response'[r].data) = n
<1>1. PICK n \in 0 .. MaxBlocks :
         response'[r].data = IF phase'[r] \in Headed THEN <<Header>> \o Blocks(n) ELSE Blocks(n)
  BY DEF IInv, BodyInOrder
<1>2. n \in Nat
  BY BlocksAssumption
<1>. QED
  BY <1>1, <1>2, BlocksOf, BlocksCounted

LEMMA GrowsAtEnd ==
    ASSUME IInv, IInv', NEW r \in Request,
           BlocksIn(response[r].data) <= BlocksIn(response'[r].data)
    PROVE  Side(r)!Grows
<1>1. PICK n \in Nat : BodyIn(response[r].data) = Blocks(n) /\ BlocksIn(response[r].data) = n
  BY BodyIs
<1>2. PICK k \in Nat : BodyIn(response'[r].data) = Blocks(k) /\ BlocksIn(response'[r].data) = k
  BY BodyWillBe
<1>3. n \in 0 .. k
  BY <1>1, <1>2
<1>. QED
  BY <1>1, <1>2, <1>3, BlocksOf, BlocksBeginning DEF Side!Grows

LEMMA QuietStep ==
    ASSUME Quiet, NEW r \in Request PROVE [Side(r)!Next]_(Side(r)!vars)
BY DEF Quiet, Side!vars

LEMMA OtherRequest ==
    ASSUME NEW r \in Request, Only(r), NEW q \in Request \ {r}
    PROVE  [Side(q)!Next]_(Side(q)!vars)
BY DEF Only, Side!vars, Answered

\* The steps of the consumer and of the interpreter, but the one with the header.
LEMMA ConsumerQuiet ==
    ASSUME IInv, NEW r \in Request, Consumer(r) PROVE Quiet
BY DEF Consumer, HeaderArrives, RetrievalEnds, Quiet, Answered

LEMMA SearchQuiet ==
    ASSUME IInv, Untouched, NEW r \in Request, Search(r) PROVE Quiet
<1>1. phase \in [Request -> {"new"} \cup Searching \cup AtServer \cup Publishing \cup Outcome]
  BY DEF IInv, SidesTypeOK, TypeOK
<1>2. phase[r] \in {"new"} \cup Searching /\ ~response[r].aborted /\ UNCHANGED response
  BY DEF Search, fromNdnSourceHandler, CheckFlags, DropAborted, ReadData, fromHttpSource,
     DropIllFormed, RetryHeader, GiveUpOnHeader, Searching, Untouched, Early
<1>3. \E step \in Searching \cup AtServer \cup {"dropped", "headerless"} : Goto(r, step)
  BY DEF Search, fromNdnSourceHandler, CheckFlags, DropAborted, ReadData, fromHttpSource,
     DropIllFormed, RetryHeader, GiveUpOnHeader, Searching, AtServer
<1>. QED
  BY <1>1, <1>2, <1>3 DEF Goto, Quiet, Answered, Searching, AtServer, Publishing

LEMMA PublishQuiet ==
    ASSUME IInv, NEW r \in Request, Publish(r), ~add_header_to_raw_stream(r) PROVE Quiet
<1>1. phase \in [Request -> {"new"} \cup Searching \cup AtServer \cup Publishing \cup Outcome]
  BY DEF IInv, SidesTypeOK, TypeOK
<1>2. phase[r] \in Publishing /\ UNCHANGED response
  BY DEF Publish, CheckResponse, DropResponse, NameResponse, fromNdnSink, Publishing
<1>3. CASE DropResponse(r)
  BY <1>1, <1>2, <1>3 DEF DropResponse, Goto, Quiet, Answered, Publishing
<1>4. CASE CheckResponse(r) \/ NameResponse(r) \/ fromNdnSink(r)
  <2>1. \E step \in Publishing \cup {"published"} : Goto(r, step)
    BY <1>4 DEF CheckResponse, NameResponse, AfterNaming, fromNdnSink, Publishing
  <2>. QED
    BY <1>1, <1>2, <2>1 DEF Goto, Quiet, Answered, Publishing
<1>. QED
  BY <1>3, <1>4 DEF Publish

LEMMA HeadingStep ==
    ASSUME IInv, IInv', NEW r \in Request, add_header_to_raw_stream(r)
    PROVE  Only(r) /\ [Side(r)!Next]_(Side(r)!vars)
<1>0. /\ phase \in [Request -> {"new"} \cup Searching \cup AtServer \cup Publishing \cup Outcome]
      /\ response \in [Request -> StreamOf(0 .. MaxBlocks)]
  BY DEF IInv, SidesTypeOK, TypeOK
<1>1. /\ response'[r] = [response[r] EXCEPT !.data = <<Header>> \o @]
      /\ Answered(r)' = Answered(r) /\ phase[r] = "heading"
  BY <1>0 DEF add_header_to_raw_stream, append_raw_data_at_first, Goto, Answered, Publishing
<1>2. /\ response'[r].data = <<Header>> \o response[r].data
      /\ response'[r].completed = response[r].completed
      /\ response'[r].aborted = response[r].aborted
  BY <1>0, <1>1 DEF StreamOf
<1>3. BodyIn(response'[r].data) = BodyIn(response[r].data)
  <2>1. PICK n \in 0 .. MaxBlocks : response[r].data = Blocks(n)
    BY <1>1 DEF IInv, BodyInOrder, Headed
  <2>2. n \in Nat
    BY BlocksAssumption
  <2>. QED
    BY <1>2, <2>1, <2>2, BlocksOf
<1>4. Only(r)
  BY <1>0 DEF add_header_to_raw_stream, Goto, Only
<1>. QED
  BY <1>1, <1>2, <1>3, <1>4 DEF Side!vars

\* The steps of the HTTP side.
LEMMA SinkStep ==
    ASSUME IInv, IInv', NEW r \in Request, fromHttpSink(r)
    PROVE  Only(r) /\ Side(r)!Next
<1>0. /\ phase \in [Request -> {"new"} \cup Searching \cup AtServer \cup Publishing \cup Outcome]
      /\ response \in [Request -> StreamOf(0 .. MaxBlocks)]
  BY DEF IInv, SidesTypeOK, TypeOK
<1>1. Only(r)
  BY <1>0 DEF fromHttpSink, Goto, Only
<1>2. ~Answered(r) /\ Answered(r)'
  BY <1>0 DEF fromHttpSink, Goto, Answered, Publishing
<1>3. CASE response' = response
  <2>1. PICK n \in Nat : BlocksIn(response[r].data) = n
    BY BodyIs
  <2>2. Side(r)!Grows
    BY <1>3, <2>1, GrowsAtEnd
  <2>. QED
    BY <1>0, <1>1, <1>2, <1>3, <2>2 DEF Side!Next, Side!Answer, StreamOf
<1>4. CASE response' = [response EXCEPT ![r].aborted = TRUE]
  <2>1. /\ response'[r].data = response[r].data /\ response'[r].aborted = TRUE
        /\ response'[r].completed = response[r].completed
    BY <1>0, <1>4 DEF StreamOf
  <2>. QED
    BY <1>1, <1>2, <2>1 DEF Side!Next, Side!Answer, Side!Fails
<1>. QED
  BY <1>3, <1>4 DEF fromHttpSink

LEMMA GrowsStep ==
    ASSUME IInv, IInv', NEW r \in Request, ServerGrows(r)
    PROVE  Only(r) /\ Side(r)!Next
<1>0. response \in [Request -> StreamOf(0 .. MaxBlocks)]
  BY DEF IInv, SidesTypeOK, TypeOK
<1>1. Only(r)
  BY <1>0 DEF ServerGrows, Only
<1>2. Answered(r) /\ Answered(r)' /\ ~response[r].completed /\ ~response[r].aborted
  BY DEF ServerGrows, Answered, Ended
<1>3. PICK n \in 0 .. MaxBlocks :
         response[r].data = IF phase[r] \in Headed THEN <<Header>> \o Blocks(n) ELSE Blocks(n)
  BY DEF IInv, BodyInOrder
<1>4. n \in Nat /\ n + 1 \in Nat /\ BlocksIn(response[r].data) = n
  BY <1>3, BlocksAssumption, BlocksCounted
<1>5. /\ response'[r].data = response[r].data \o <<n + 1>>
      /\ response'[r].completed = response[r].completed
      /\ response'[r].aborted = response[r].aborted
  BY <1>0, <1>4 DEF ServerGrows, append_raw_data, StreamOf
<1>6. BlocksIn(response'[r].data) = n + 1
  BY <1>3, <1>4, <1>5, BlockAppended, BlocksCounted
<1>7. Side(r)!Grows
  BY <1>4, <1>6, GrowsAtEnd
<1>8. response'[r].completed \in BOOLEAN
  BY <1>0, <1>5 DEF StreamOf
<1>. QED
  BY <1>1, <1>2, <1>5, <1>7, <1>8 DEF Side!Next, Side!Continue

LEMMA EndsStep ==
    ASSUME IInv, IInv', NEW r \in Request, ServerEnds(r)
    PROVE  Only(r) /\ Side(r)!Next
<1>0. response \in [Request -> StreamOf(0 .. MaxBlocks)]
  BY DEF IInv, SidesTypeOK, TypeOK
<1>2. Answered(r) /\ Answered(r)' /\ ~response[r].completed /\ ~response[r].aborted
  BY DEF ServerEnds, Answered, Ended
<1>3. CASE response' = [response EXCEPT ![r].completed = TRUE]
  <2>1. /\ response'[r].data = response[r].data /\ response'[r].completed = TRUE
        /\ response'[r].aborted = response[r].aborted
    BY <1>0, <1>3 DEF StreamOf
  <2>2. PICK n \in Nat : BlocksIn(response[r].data) = n
    BY BodyIs
  <2>3. Side(r)!Grows
    BY <2>1, <2>2, GrowsAtEnd
  <2>4. Only(r)
    BY <1>0, <1>3 DEF ServerEnds, Only
  <2>. QED
    BY <1>2, <2>1, <2>3, <2>4 DEF Side!Next, Side!Continue
<1>4. CASE response' = [response EXCEPT ![r].aborted = TRUE]
  <2>1. /\ response'[r].data = response[r].data /\ response'[r].aborted = TRUE
        /\ response'[r].completed = response[r].completed
    BY <1>0, <1>4 DEF StreamOf
  <2>2. Only(r)
    BY <1>0, <1>4 DEF ServerEnds, Only
  <2>. QED
    BY <1>2, <2>1, <2>2 DEF Side!Next, Side!Continue, Side!Fails
<1>. QED
  BY <1>3, <1>4 DEF ServerEnds

\* The engine answers with the whole body at once.
LEMMA ResolveStep ==
    ASSUME IInv, IInv', NEW r \in Request, resolve(r)
    PROVE  Only(r) /\ Side(r)!Next
<1>0. /\ phase \in [Request -> {"new"} \cup Searching \cup AtServer \cup Publishing \cup Outcome]
      /\ response \in [Request -> StreamOf(0 .. MaxBlocks)]
      /\ response' \in [Request -> StreamOf(0 .. MaxBlocks)]
  BY DEF IInv, SidesTypeOK, TypeOK
<1>1. PICK what : response' = response \/ response' = [response EXCEPT ![r] = Filled(r, what)]
  BY DEF resolve, get
<1>2. Only(r)
  BY <1>0, <1>1 DEF resolve, Goto, Only
<1>3. ~Answered(r) /\ Answered(r)'
  BY <1>0 DEF resolve, Goto, Answered, Publishing
<1>4. BlocksIn(response[r].data) = 0
  <2>1. response[r].data = Blocks(0)
    BY DEF resolve, IInv, BodyInOrder, Headed, AtServer
  <2>. QED
    BY <2>1, BlocksCounted
<1>5. Side(r)!Grows
  <2>1. \E k \in Nat : BlocksIn(response'[r].data) = k
    BY BodyWillBe
  <2>. QED
    BY <1>4, <2>1, GrowsAtEnd
<1>6. response'[r].aborted = response[r].aborted /\ response'[r].completed \in BOOLEAN
  <2>1. Filled(r, what).aborted = response[r].aborted
    BY <1>0 DEF Filled, append_raw_data, StreamOf
  <2>. QED
    BY <1>0, <1>1, <2>1 DEF StreamOf
<1>. QED
  BY <1>2, <1>3, <1>5, <1>6 DEF Side!Next, Side!Answer

---------------------------------------------------------------------------
LEMMA UntouchedNext == IInv /\ Untouched /\ [Next]_sideVars => Untouched'
<1> SUFFICES ASSUME IInv, Untouched, [Next]_sideVars, NEW q \in Request, phase'[q] \in Early
             PROVE  ~response'[q].aborted
  BY DEF Untouched
<1>0. /\ phase \in [Request -> {"new"} \cup Searching \cup AtServer \cup Publishing \cup Outcome]
      /\ response \in [Request -> StreamOf(0 .. MaxBlocks)]
  BY DEF IInv, SidesTypeOK, TypeOK
<1> SUFFICES phase[q] \in Early /\ response'[q] = response[q]
  BY DEF Untouched
<1>1. ASSUME NEW r \in Request, Consumer(r) \/ Search(r)
      PROVE  phase[q] \in Early /\ response'[q] = response[q]
  BY <1>0, <1>1 DEF Consumer, HeaderArrives, RetrievalEnds, Search, fromNdnSourceHandler,
     CheckFlags, DropAborted, ReadData, fromHttpSource, DropIllFormed, RetryHeader, GiveUpOnHeader,
     Goto, Early, Searching
<1>2. ASSUME NEW r \in Request, Publish(r)
      PROVE  phase[q] \in Early /\ response'[q] = response[q]
  BY <1>0, <1>2 DEF Publish, CheckResponse, DropResponse, NameResponse, AfterNaming,
     add_header_to_raw_stream, fromNdnSink, Goto, Early, Searching, AtServer
<1>3. ASSUME NEW r \in Request, fromHttpSink(r) \/ Server(r)
      PROVE  phase[q] \in Early /\ response'[q] = response[q]
  BY <1>0, <1>3 DEF Server, fromHttpSink, ServerGrows, ServerEnds, Goto, Early, Searching,
     AtServer, Publishing
<1>4. ASSUME NEW r \in Request, resolve(r)
      PROVE  phase[q] \in Early /\ response'[q] = response[q]
  BY <1>0, <1>4 DEF resolve, get, Goto, Early, Searching, AtServer
<1>5. CASE AllDone \/ UNCHANGED sideVars \/ \E r \in Request : SideStage(r)
  BY <1>5 DEF AllDone, SideStage, sideVars, vars
<1>. QED
  BY <1>1, <1>2, <1>3, <1>4, <1>5, StageSteps
     DEF Next, InterpreterStep, HttpClientStep, Answers, HttpEngineStep

LEMMA SideStep ==
    IInv /\ IInv' /\ Untouched /\ [Next]_sideVars
      => \A r \in Request : [Side(r)!Next]_(Side(r)!vars)
<1> SUFFICES ASSUME IInv, IInv', Untouched, [Next]_sideVars, NEW q \in Request
             PROVE  [Side(q)!Next]_(Side(q)!vars)
  OBVIOUS
<1>1. ASSUME NEW r \in Request, InterpreterStep(r) PROVE [Side(q)!Next]_(Side(q)!vars)
  BY <1>1, ConsumerQuiet, SearchQuiet, PublishQuiet, QuietStep, HeadingStep, OtherRequest
     DEF InterpreterStep
<1>2. ASSUME NEW r \in Request, fromHttpSink(r) \/ Server(r)
      PROVE  [Side(q)!Next]_(Side(q)!vars)
  BY <1>2, SinkStep, GrowsStep, EndsStep, OtherRequest DEF Server
<1>3. ASSUME NEW r \in Request, resolve(r) PROVE [Side(q)!Next]_(Side(q)!vars)
  BY <1>3, ResolveStep, OtherRequest
<1>4. CASE AllDone \/ UNCHANGED sideVars \/ \E r \in Request : SideStage(r)
  BY <1>4, QuietStep DEF AllDone, SideStage, sideVars, vars, Quiet, Answered
<1>. QED
  BY <1>1, <1>2, <1>3, <1>4, StageSteps DEF Next, HttpClientStep, Answers, HttpEngineStep

LEMMA SideInit == SidesInit => Untouched /\ \A r \in Request : Side(r)!Init
BY DEF SidesInit, Init, NewStream, Untouched, Side!Init, Answered, BodyIn, Publishing

\* In both programs the HTTP side keeps, for every request, the promise that the session
\* of HttpClient keeps, while the interpreter puts the header in front of the same stream.
THEOREM SidesImplemented == FairSpec => ImplementsHttpSide
<1>1. FairSpec => [](IInv /\ Untouched)
  BY InitIInv, NextIInv, SideInit, UntouchedNext, PTL DEF FairSpec
<1>2. FairSpec => [][\A r \in Request : [Side(r)!Next]_(Side(r)!vars)]_sideVars
  BY <1>1, SideStep, PTL DEF FairSpec
<1>3. FairSpec => \A r \in Request : Side(r)!Init
  BY SideInit, PTL DEF FairSpec
<1>. QED
  BY <1>2, <1>3 DEF ImplementsHttpSide
============================================================================
