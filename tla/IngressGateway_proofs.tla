----------------------- MODULE IngressGateway_proofs -----------------------
(***************************************************************************)
(* The invariants of the HttpServer, for any number of connections,        *)
(* requests on each, and responses.                                        *)
(***************************************************************************)
EXTENDS IngressGateway, TLAPS

---------------------------------------------------------------------------
(***************************************************************************)
(* The inductive invariant.                                                *)
(***************************************************************************)
\* The session has no request before it is accepted, and one from then on.
Numbered ==
    \A s \in Session :
       /\ session[s].pc = "new" => /\ session[s].n = 0 /\ session[s].response = None
                                   /\ ~session[s].readTimer /\ ~session[s].readDue
                                   /\ session[s].writeTimer = "off"
       /\ session[s].pc # "new" => session[s].n >= 1

\* From the 504 on, a session has a response.
Responded == {"fill", "fillBad", "fillRefused", "erase", "head", "writeHeader",
              "read", "writeBody", "poll"}
HasResponse == \A s \in Session : session[s].pc \in Responded => session[s].response # None

\* After an error the connection is closed.
ErrorsClose == \A q \in Request : ~response[q].keepAlive

\* What a session has in _http_response was made for it: the error of its request, or
\* the answer to a request of its connection.
Origin ==
    \A s \in Session :
       \/ session[s].response \in {None, Current(s)}
       \/ \E m \in 1 .. session[s].n : session[s].response = request[<<s, m>>].answer

\* The requests that a connection is yet to bring.
Future ==
    \A s \in Session : \A m \in 1 .. MaxRequests :
       m > session[s].n =>
          ~request[<<s, m>>].submitted /\ ~request[<<s, m>>].completed /\ heads[<<s, m>>] = <<>>

\* The request of a session whose stream is not complete, or not even submitted.
Unfinished ==
    \A s \in Session :
       /\ session[s].pc \in {"header", "body", "enter", "arm", "finish"} =>
             ~request[Current(s)].completed
       /\ session[s].pc = "header" => ~request[Current(s)].submitted

BeforeHead == {"header", "body", "enter", "arm", "finish", "waiting", "respond", "fill",
               "fillBad", "fillRefused", "erase", "head"}
HeadToCome == \A s \in Session : session[s].pc \in BeforeHead => heads[Current(s)] = <<>>

\* An answer is made for a request that could be named, and posted to it.
Answered ==
    /\ \A q \in Request :
          request[q].answer # None =>
             /\ request[q].settled /\ request[q].submitted
             /\ request[q].completed \/ request[q].long
             /\ response[request[q].answer].made
    /\ \A p \in posted : request[p[1]].answer = p[2]

Made == \A s \in Session : session[s].response # None => response[session[s].response].made

DroppedEarly == \A q \in dropped : q \in Request /\ request[q].submitted /\ request[q].long

\* The first request of a connection is in the map only until it is responded to.
FirstEntry ==
    \A s \in Session :
       session[s].n <= 1 /\ <<s, 1>> \in waiting =>
          /\ session[s].pc \in {"arm", "finish", "waiting", "respond", "fill", "erase"}
          /\ session[s].pc \in {"arm", "finish", "waiting", "respond"} =>
                session[s].response = None

\* It has no response before its session is in the map.
FirstUnanswered ==
    \A s \in Session :
       session[s].n <= 1 /\ session[s].pc \in {"header", "body", "enter"} =>
          session[s].response = None

IInv ==
    /\ TypeOK
    /\ Numbered /\ HasResponse /\ ErrorsClose /\ Origin /\ Future /\ Unfinished
    /\ HeadToCome /\ Answered /\ Made /\ DroppedEarly /\ FirstEntry /\ FirstUnanswered
    /\ AnswerWakesSession /\ OwnAnswer

---------------------------------------------------------------------------
(***************************************************************************)
(* What a step keeps.                                                      *)
(***************************************************************************)
SessionRecord == [pc : {"new", "gone", "thrown"} \cup MidHandler \cup Waiting, n : 0 .. MaxRequests,
                  response : Response \cup {None}, pos : Nat, open : BOOLEAN,
                  readTimer : BOOLEAN, readDue : BOOLEAN,
                  writeTimer : {"off", "armed", "due"}]

LEMMA OriginKept ==
    ASSUME Origin,
           \A s \in Session : /\ session'[s].n = session[s].n
                              /\ session'[s].response = session[s].response
                                 \/ session'[s].response \in {None, Current(s)},
           \A q \in Request :
              request[q].answer # None => request'[q].answer = request[q].answer,
           TypeOK
    PROVE  Origin'
<1> SUFFICES ASSUME NEW s \in Session
             PROVE  \/ session'[s].response \in {None, Current(s)'}
                    \/ \E m \in 1 .. session'[s].n :
                          session'[s].response = request'[<<s, m>>].answer
  BY DEF Origin
<1>1. Current(s)' = Current(s)
  BY DEF Current
<1>2. CASE session'[s].response \in {None, Current(s)}
  BY <1>1, <1>2
<1>3. CASE session'[s].response = session[s].response /\ session[s].response \notin {None, Current(s)}
  <2>1. PICK m \in 1 .. session[s].n : session[s].response = request[<<s, m>>].answer
    BY <1>3 DEF Origin
  <2>2. <<s, m>> \in Request
    BY BoundsAssumption DEF TypeOK, Request
  <2>. QED
    BY <1>3, <2>1, <2>2
<1>. QED
  BY <1>2, <1>3

LEMMA OwnAnswerKept ==
    ASSUME OwnAnswer, heads' = heads,
           \A q \in Request : request[q].answer # None => request'[q].answer = request[q].answer,
           TypeOK
    PROVE  OwnAnswer'
<1> SUFFICES ASSUME NEW q \in Request, NEW i \in DOMAIN heads[q], heads[q][i] # q
             PROVE  \E m \in 1 .. q[2] : heads[q][i] = request'[<<q[1], m>>].answer
  BY DEF OwnAnswer
<1>1. PICK m \in 1 .. q[2] : heads[q][i] = request[<<q[1], m>>].answer
  <2>1. \A o \in {heads[q][j] : j \in DOMAIN heads[q]} :
           \/ o = q
           \/ \E k \in 1 .. q[2] : o = request[<<q[1], k>>].answer
    BY Zenon DEF OwnAnswer
  <2>. QED
    BY <2>1
<1>2. heads[q][i] \in Response /\ heads[q][i] # None
  <2>1. heads[q] \in Seq(Response)
    BY DEF TypeOK
  <2>2. heads[q][i] \in Response
    BY <2>1
  <2>. QED
    BY <2>2, UpstreamAssumption DEF Response, Request, None
<1>3. <<q[1], m>> \in Request
  BY BoundsAssumption DEF Request
<1>. QED
  BY <1>1, <1>2, <1>3

\* A step of one session that only changes its place, its timers and its socket.
Moves(s, r) ==
    /\ session' = [session EXCEPT ![s] = r] /\ r \in SessionRecord
    /\ r.n = session[s].n /\ r.response = session[s].response
    /\ session[s].pc # "new" /\ r.pc # "new"
    /\ r.pc \in Responded => r.response # None
    /\ r.pc \in {"header", "body", "enter", "arm", "finish"} =>
          session[s].pc \in {"header", "body", "enter", "arm", "finish"}
    /\ r.pc = "header" => session[s].pc = "header"
    /\ r.pc \in {"header", "body", "enter"} => session[s].pc \in {"header", "body", "enter"}
    /\ r.pc \in BeforeHead => session[s].pc \in BeforeHead
    /\ session[s].n <= 1 /\ <<s, 1>> \in waiting =>
          /\ r.pc \in {"arm", "finish", "waiting", "respond", "fill", "erase"}
          /\ r.pc \in {"arm", "finish", "waiting", "respond"} => r.response = None
    /\ r.pc = "waiting" /\ r.writeTimer = "armed" =>
          session[s].pc = "waiting" /\ session[s].writeTimer = "armed"

LEMMA MovesInv ==
    ASSUME IInv, NEW s \in Session, NEW r, Moves(s, r),
           UNCHANGED <<request, response, waiting, posted, heads, dropped>>
    PROVE  IInv'
<1>0. session \in [Session -> SessionRecord]
  BY DEF IInv, TypeOK, SessionRecord
<1>1. TypeOK'
  <2>1. session' \in [Session -> SessionRecord]
    BY <1>0 DEF Moves
  <2>. QED
    BY <2>1 DEF IInv, TypeOK, SessionRecord
<1>2. Numbered' /\ HasResponse'
  BY <1>0 DEF IInv, Moves, Numbered, HasResponse
<1>3. ErrorsClose' /\ Answered' /\ DroppedEarly'
  BY DEF IInv, ErrorsClose, Answered, DroppedEarly
<1>4. Origin'
  BY <1>0, OriginKept DEF IInv, Moves
<1>5. Future' /\ Unfinished' /\ HeadToCome'
  BY <1>0 DEF IInv, Moves, Future, Unfinished, HeadToCome, Current
<1>6. Made' /\ FirstEntry' /\ FirstUnanswered'
  BY <1>0 DEF IInv, Moves, Made, FirstEntry, FirstUnanswered
<1>7. AnswerWakesSession'
  BY <1>0 DEF IInv, Moves, AnswerWakesSession, Current
<1>8. OwnAnswer'
  BY OwnAnswerKept DEF IInv
<1>. QED
  BY <1>1, <1>2, <1>3, <1>4, <1>5, <1>6, <1>7, <1>8 DEF IInv


LEMMA AnsweredKept ==
    ASSUME Answered, TypeOK, posted' = posted,
           \A q \in Request :
              /\ request'[q].answer = request[q].answer
              /\ request[q].settled => request'[q].settled
              /\ request[q].submitted => request'[q].submitted
              /\ request[q].answer # None /\ (request[q].completed \/ request[q].long) =>
                    request'[q].completed \/ request'[q].long,
           \A o \in Response : response[o].made => response'[o].made
    PROVE  Answered'
<1>1. \A q \in Request : request[q].answer # None => request[q].answer \in Response
  BY DEF TypeOK, Response
<1>2. \A p \in posted : p[1] \in Request
  BY DEF TypeOK
<1>. QED
  BY <1>1, <1>2 DEF Answered

\* The steps that only move the session.
LEMMA SessionTyped ==
    ASSUME IInv, NEW s \in Session
    PROVE  session[s] \in SessionRecord /\ session \in [Session -> SessionRecord]
BY DEF IInv, TypeOK, SessionRecord

LEMMA CurrentIsRequest ==
    ASSUME IInv, NEW s \in Session, session[s].pc # "new"
    PROVE  Current(s) \in Request /\ session[s].n \in 1 .. MaxRequests
<1>1. session[s].n \in 0 .. MaxRequests /\ session[s].n >= 1
  BY DEF IInv, TypeOK, Numbered
<1>. QED
  BY <1>1, BoundsAssumption DEF Current, Request

LEMMA ArmWriteTimerInv == ASSUME IInv, NEW s \in Session, ArmWriteTimer(s) PROVE IInv'
<1> DEFINE r == [session[s] EXCEPT !.pc = "finish", !.writeTimer = "armed"]
<1>1. session[s].pc # "new" /\ session' = [session EXCEPT ![s] = r]
  BY SessionTyped DEF ArmWriteTimer, IInv, Numbered
<1>2. session[s] \in SessionRecord /\ r \in SessionRecord
  <2>1. "finish" \in MidHandler
    BY DEF MidHandler
  <2>2. session[s] \in SessionRecord
    BY SessionTyped
  <2>. QED
    BY <2>1, <2>2 DEF SessionRecord
<1>3. Moves(s, r)
  BY <1>1, <1>2 DEF ArmWriteTimer, IInv, HasResponse, FirstEntry,
     Moves, SessionRecord, Responded, BeforeHead
<1>. QED
  BY <1>3, MovesInv DEF ArmWriteTimer

LEMMA WriteTimerExpiresInv == ASSUME IInv, NEW s \in Session, WriteTimerExpires(s) PROVE IInv'
<1> DEFINE r == [session[s] EXCEPT !.writeTimer = "due"]
<1>1. session[s].pc # "new" /\ session' = [session EXCEPT ![s] = r]
  BY SessionTyped DEF WriteTimerExpires, IInv, Numbered
<1>2. session[s] \in SessionRecord /\ r \in SessionRecord
  <2>2. session[s] \in SessionRecord
    BY SessionTyped
  <2>. QED
    BY <2>2 DEF SessionRecord
<1>3. Moves(s, r)
  BY <1>1, <1>2 DEF WriteTimerExpires, IInv, HasResponse, FirstEntry,
     Moves, SessionRecord, Responded, BeforeHead
<1>. QED
  BY <1>3, MovesInv DEF WriteTimerExpires

LEMMA ReadTimerExpiresInv == ASSUME IInv, NEW s \in Session, ReadTimerExpires(s) PROVE IInv'
<1> DEFINE r == [session[s] EXCEPT !.readTimer = FALSE, !.readDue = TRUE]
<1>1. session[s].pc # "new" /\ session' = [session EXCEPT ![s] = r]
  BY SessionTyped DEF ReadTimerExpires, IInv, Numbered
<1>2. session[s] \in SessionRecord /\ r \in SessionRecord
  <2>2. session[s] \in SessionRecord
    BY SessionTyped
  <2>. QED
    BY <2>2 DEF SessionRecord
<1>3. Moves(s, r)
  BY <1>1, <1>2 DEF ReadTimerExpires, IInv, HasResponse, FirstEntry,
     Moves, SessionRecord, Responded, BeforeHead
<1>. QED
  BY <1>3, MovesInv DEF ReadTimerExpires

LEMMA write_responseInv == ASSUME IInv, NEW s \in Session, write_response(s) PROVE IInv'
<1> DEFINE r == [session[s] EXCEPT !.pc = "respond", !.writeTimer = "off"]
<1>1. session[s].pc # "new" /\ session' = [session EXCEPT ![s] = r]
  BY SessionTyped DEF write_response, IInv, Numbered
<1>2. session[s] \in SessionRecord /\ r \in SessionRecord
  <2>1. "respond" \in MidHandler
    BY DEF MidHandler
  <2>2. session[s] \in SessionRecord
    BY SessionTyped
  <2>. QED
    BY <2>1, <2>2 DEF SessionRecord
<1>3. Moves(s, r)
  BY <1>1, <1>2 DEF write_response, IInv, HasResponse, FirstEntry,
     Moves, SessionRecord, Responded, BeforeHead
<1>. QED
  BY <1>3, MovesInv DEF write_response

LEMMA UseResponseInv == ASSUME IInv, NEW s \in Session, UseResponse(s) PROVE IInv'
<1> DEFINE r == [session[s] EXCEPT !.pc = "head"]
<1>1. session[s].pc # "new" /\ session' = [session EXCEPT ![s] = r]
  BY SessionTyped DEF UseResponse, Goto, IInv, Numbered
<1>2. session[s] \in SessionRecord /\ r \in SessionRecord
  <2>1. "head" \in MidHandler
    BY DEF MidHandler
  <2>2. session[s] \in SessionRecord
    BY SessionTyped
  <2>. QED
    BY <2>1, <2>2 DEF SessionRecord
<1>3. Moves(s, r)
  BY <1>1, <1>2 DEF UseResponse, Unusable, IInv, HasResponse, FirstEntry,
     Moves, SessionRecord, Responded, BeforeHead
<1>. QED
  BY <1>3, MovesInv DEF UseResponse

LEMMA HeaderWrittenInv == ASSUME IInv, NEW s \in Session, HeaderWritten(s) PROVE IInv'
<1> DEFINE r == [session[s] EXCEPT !.pc = "read", !.pos = 0]
<1>1. session[s].pc # "new" /\ session' = [session EXCEPT ![s] = r]
  BY SessionTyped DEF HeaderWritten, IInv, Numbered
<1>2. session[s] \in SessionRecord /\ r \in SessionRecord
  <2>1. "read" \in MidHandler
    BY DEF MidHandler
  <2>2. session[s] \in SessionRecord
    BY SessionTyped
  <2>. QED
    BY <2>1, <2>2 DEF SessionRecord
<1>3. Moves(s, r)
  BY <1>1, <1>2 DEF HeaderWritten, IInv, HasResponse, FirstEntry,
     Moves, SessionRecord, Responded, BeforeHead
<1>. QED
  BY <1>3, MovesInv DEF HeaderWritten

LEMMA ReadResponseInv == ASSUME IInv, NEW s \in Session, ReadResponse(s) PROVE IInv'
<1> DEFINE r == [session[s] EXCEPT !.pc = IF Available(s) > 0 THEN "writeBody" ELSE "poll"]
<1>1. session[s].pc # "new" /\ session' = [session EXCEPT ![s] = r]
  BY SessionTyped DEF ReadResponse, Goto, IInv, Numbered
<1>2. session[s] \in SessionRecord /\ r \in SessionRecord
  <2>1. {"writeBody", "poll"} \subseteq Waiting
    BY DEF Waiting
  <2>2. session[s] \in SessionRecord
    BY SessionTyped
  <2>. QED
    BY <2>1, <2>2 DEF SessionRecord
<1>3. Moves(s, r)
  BY <1>1, <1>2 DEF ReadResponse, IInv, HasResponse, FirstEntry,
     Moves, SessionRecord, Responded, BeforeHead
<1>. QED
  BY <1>3, MovesInv DEF ReadResponse

LEMMA BodyWrittenInv == ASSUME IInv, NEW s \in Session, BodyWritten(s) PROVE IInv'
<1> DEFINE r == [session[s] EXCEPT !.pc = "read", !.pos = @ + 1]
<1>1. session[s].pc # "new" /\ session' = [session EXCEPT ![s] = r]
  BY SessionTyped DEF BodyWritten, IInv, Numbered
<1>2. session[s] \in SessionRecord /\ r \in SessionRecord
  <2>1. "read" \in MidHandler
    BY DEF MidHandler
  <2>2. session[s] \in SessionRecord
    BY SessionTyped
  <2>3. session[s].pos + 1 \in Nat
    BY <2>2 DEF SessionRecord
  <2>. QED
    BY <2>1, <2>2, <2>3 DEF SessionRecord
<1>3. Moves(s, r)
  BY <1>1, <1>2 DEF BodyWritten, IInv, HasResponse, FirstEntry,
     Moves, SessionRecord, Responded, BeforeHead
<1>. QED
  BY <1>3, MovesInv DEF BodyWritten

LEMMA PollResponseInv == ASSUME IInv, NEW s \in Session, PollResponse(s) PROVE IInv'
<1> DEFINE r == [session[s] EXCEPT !.pc = "read"]
<1>1. session[s].pc # "new" /\ session' = [session EXCEPT ![s] = r]
  BY SessionTyped DEF PollResponse, Goto, IInv, Numbered
<1>2. session[s] \in SessionRecord /\ r \in SessionRecord
  <2>1. "read" \in MidHandler
    BY DEF MidHandler
  <2>2. session[s] \in SessionRecord
    BY SessionTyped
  <2>. QED
    BY <2>1, <2>2 DEF SessionRecord
<1>3. Moves(s, r)
  BY <1>1, <1>2 DEF PollResponse, IInv, HasResponse, FirstEntry,
     Moves, SessionRecord, Responded, BeforeHead
<1>. QED
  BY <1>3, MovesInv DEF PollResponse

---------------------------------------------------------------------------
(***************************************************************************)
(* The next request, or the end, of a connection.                          *)
(***************************************************************************)
LEMMA StartedInv ==
    ASSUME IInv, NEW s \in Session, session' = [session EXCEPT ![s] = Started(@)],
           session[s].n < MaxRequests,
           session[s].pc \in {"new", "read"},
           session[s].response # Current(s),
           UNCHANGED <<request, response, waiting, posted, heads, dropped>>
    PROVE  IInv'
<1> DEFINE r == Started(session[s])
<1>0. session \in [Session -> SessionRecord] /\ session[s].n \in 0 .. MaxRequests
      /\ MaxRequests \in Nat
  BY SessionTyped, BoundsAssumption DEF SessionRecord
<1>1. /\ session' = [session EXCEPT ![s] = r] /\ r \in SessionRecord
      /\ r.n = session[s].n + 1 /\ r.pc = "header" /\ r.response = session[s].response
      /\ r.n \in 1 .. MaxRequests
  <2>1. session[s].n + 1 \in 1 .. MaxRequests
    BY <1>0
  <2>2. r = [session[s] EXCEPT !.pc = "header", !.n = session[s].n + 1, !.readTimer = TRUE]
    BY DEF Started
  <2>3. r \in SessionRecord
    <3>1. session[s] \in SessionRecord /\ 1 .. MaxRequests \subseteq 0 .. MaxRequests
      BY <1>0
    <3>. QED
      BY <2>1, <2>2, <3>1 DEF SessionRecord, Waiting
  <2>. QED
    BY <1>0, <2>1, <2>2, <2>3 DEF SessionRecord
<1> HIDE DEF r
<1>2. TypeOK'
  <2>1. session' \in [Session -> SessionRecord]
    BY <1>0, <1>1
  <2>. QED
    BY <2>1 DEF IInv, TypeOK, SessionRecord
<1>3. Numbered' /\ HasResponse'
  BY <1>0, <1>1 DEF IInv, Numbered, HasResponse, Responded
<1>4. ErrorsClose' /\ Answered' /\ DroppedEarly'
  BY DEF IInv, ErrorsClose, Answered, DroppedEarly
<1>5. Origin'
  <2> SUFFICES ASSUME NEW t \in Session, session'[t].response # None
               PROVE  \/ session'[t].response = Current(t)'
                      \/ \E m \in 1 .. session'[t].n :
                            session'[t].response = request[<<t, m>>].answer
    BY DEF Origin
  <2>1. CASE t # s
    BY <1>0, <1>1, <2>1 DEF IInv, Origin, Current
  <2>2. CASE t = s
    <3>1. PICK m \in 1 .. session[s].n : session[s].response = request[<<s, m>>].answer
      BY <1>0, <1>1, <2>2 DEF IInv, Origin
    <3>2. m \in 1 .. session'[s].n
      BY <1>0, <1>1
    <3>. QED
      BY <1>0, <1>1, <2>2, <3>1, <3>2
  <2>. QED
    BY <2>1, <2>2
<1>6. Future'
  BY <1>0, <1>1 DEF IInv, Future
<1>7. Unfinished' /\ HeadToCome'
  <2>1. ~request[<<s, r.n>>].submitted /\ ~request[<<s, r.n>>].completed
        /\ heads[<<s, r.n>>] = <<>>
    BY <1>0, <1>1 DEF IInv, Future
  <2>. QED
    BY <1>0, <1>1, <2>1 DEF IInv, Unfinished, HeadToCome, Current
<1>8. Made'
  BY <1>0, <1>1 DEF IInv, Made
<1>9. FirstEntry'
  <2>1. session[s].n = 0 => session[s].pc = "new"
    BY <1>0 DEF IInv, Numbered
  <2>2. session[s].n = 0 => <<s, 1>> \notin waiting
    BY <1>0, <2>1 DEF IInv, FirstEntry
  <2>. QED
    BY <1>0, <1>1, <2>2 DEF IInv, FirstEntry
<1>10. AnswerWakesSession'
  BY <1>0, <1>1 DEF IInv, AnswerWakesSession, Current
<1>11. OwnAnswer'
  BY OwnAnswerKept DEF IInv
<1>12. FirstUnanswered'
  BY <1>0, <1>1 DEF IInv, Numbered, FirstUnanswered
<1>. QED
  BY <1>2, <1>3, <1>4, <1>5, <1>6, <1>7, <1>8, <1>9, <1>10, <1>11, <1>12 DEF IInv

LEMMA accept_handlerInv == ASSUME IInv, NEW s \in Session, accept_handler(s) PROVE IInv'
<1>1. session[s].n = 0 /\ session[s].response = None
  BY DEF accept_handler, IInv, Numbered
<1>2. Current(s) # None
  BY DEF Current, None
<1>3. session[s].n < MaxRequests
  BY <1>1, BoundsAssumption
<1>. QED
  BY <1>1, <1>2, <1>3, StartedInv DEF accept_handler

LEMMA EndResponseInv == ASSUME IInv, NEW s \in Session, EndResponse(s) PROVE IInv'
<1>1. CASE response[session[s].response].keepAlive /\ session[s].n < MaxRequests
  <2>1. Current(s) \in Request
    BY CurrentIsRequest DEF EndResponse
  <2>2. session[s].response # Current(s)
    BY <1>1, <2>1 DEF IInv, ErrorsClose
  <2>. QED
    BY <1>1, <2>2, StartedInv DEF EndResponse
<1>2. CASE ~(response[session[s].response].keepAlive /\ session[s].n < MaxRequests)
  <2> DEFINE r == [session[s] EXCEPT !.pc = "gone"]
  <2>1. session[s].pc = "read" /\ session' = [session EXCEPT ![s] = r]
    BY <1>2, SessionTyped DEF EndResponse, Goto
  <2>2. Moves(s, r)
    BY <2>1, SessionTyped DEF IInv, FirstEntry, Moves, SessionRecord,
       MidHandler, Waiting, Responded, BeforeHead
  <2>. QED
    BY <2>2, MovesInv DEF EndResponse
<1>. QED
  BY <1>1, <1>2

---------------------------------------------------------------------------
(***************************************************************************)
(* Reading a request.                                                      *)
(***************************************************************************)
\* A step of a session that is reading, which may change its request's flags.
RequestRecord == [submitted : BOOLEAN, long : BOOLEAN, completed : BOOLEAN,
                  aborted : BOOLEAN, settled : BOOLEAN, answer : Upstream \cup {None}]

\* A step of session s to r, and of its request to f.
Reads(s, r, f) ==
    /\ session[s].pc # "new" /\ r.pc # "new"
    /\ session' = [session EXCEPT ![s] = r] /\ r \in SessionRecord
    /\ r.n = session[s].n /\ r.response = session[s].response
    /\ request' = [request EXCEPT ![Current(s)] = f] /\ f \in RequestRecord
    /\ f.answer = request[Current(s)].answer
    /\ request[Current(s)].settled => f.settled
    /\ request[Current(s)].submitted => f.submitted
    /\ request[Current(s)].submitted /\ request[Current(s)].long => f.long
    /\ request[Current(s)].completed => f.completed
    /\ r.pc \in Responded => session[s].pc \in Responded
    /\ r.pc \in BeforeHead => session[s].pc \in BeforeHead
    /\ r.pc \in {"header", "body", "enter", "arm", "finish"} =>
          /\ session[s].pc \in {"header", "body", "enter", "arm", "finish"}
          /\ f.completed = request[Current(s)].completed
    /\ r.pc \in {"header", "body", "enter"} => session[s].pc \in {"header", "body", "enter"}
    /\ r.pc = "header" => session[s].pc = "header" /\ f.submitted = request[Current(s)].submitted
    /\ session[s].n <= 1 /\ <<s, 1>> \in waiting =>
          /\ r.pc \in {"arm", "finish", "waiting", "respond", "fill", "erase"}
          /\ r.pc \in {"arm", "finish", "waiting", "respond"} => r.response = None
    /\ r.pc = "waiting" /\ r.writeTimer = "armed" /\ r.response # None =>
          \/ r.response # f.answer
          \/ f.long

LEMMA ReadsInv ==
    ASSUME IInv, NEW s \in Session, NEW r, NEW f, Reads(s, r, f),
           UNCHANGED <<response, waiting, posted, heads, dropped>>
    PROVE  IInv'
<1>0. /\ session \in [Session -> SessionRecord] /\ request \in [Request -> RequestRecord]
      /\ Current(s) \in Request /\ session[s].n \in 1 .. MaxRequests
  BY SessionTyped, CurrentIsRequest DEF IInv, TypeOK, RequestRecord, Reads
<1>1. TypeOK'
  <2>1. session' \in [Session -> SessionRecord] /\ request' \in [Request -> RequestRecord]
    BY <1>0 DEF Reads
  <2>. QED
    BY <2>1 DEF IInv, TypeOK, SessionRecord, RequestRecord
<1>2. Numbered' /\ HasResponse'
  BY <1>0 DEF IInv, Reads, Numbered, HasResponse
<1>3. ErrorsClose' /\ Made' /\ FirstEntry' /\ FirstUnanswered'
  BY <1>0 DEF IInv, Reads, ErrorsClose, Made, FirstEntry, FirstUnanswered
<1>4. \A q \in Request :
         /\ request'[q].answer = request[q].answer
         /\ request[q].settled => request'[q].settled
         /\ request[q].submitted => request'[q].submitted
         /\ request[q].submitted /\ request[q].long => request'[q].long
         /\ request[q].completed => request'[q].completed
  BY <1>0 DEF Reads
<1>5. Origin'
  BY <1>0, <1>4, OriginKept DEF IInv, Reads
<1>6. Future'
  <2> SUFFICES ASSUME NEW t \in Session, NEW m \in 1 .. MaxRequests, m > session[t].n
               PROVE  /\ ~request'[<<t, m>>].submitted /\ ~request'[<<t, m>>].completed
                      /\ heads[<<t, m>>] = <<>>
    BY <1>0 DEF Reads, Future
  <2>1. <<t, m>> \in Request /\ <<t, m>> # Current(s)
    BY <1>0 DEF Request, Current
  <2>. QED
    BY <1>0, <2>1 DEF IInv, Reads, Future
<1>7. Unfinished' /\ HeadToCome'
  <2>1. \A t \in Session : Current(t)' = Current(t) /\ (t # s => Current(t) # Current(s))
    BY <1>0 DEF Reads, Current
  <2>2. \A t \in Session : session[t].pc # "new" => Current(t) \in Request
    BY CurrentIsRequest
  <2>. QED
    BY <1>0, <2>1, <2>2 DEF IInv, Reads, Unfinished, HeadToCome
<1>8. Answered'
  <2>1. \A q \in Request : request[q].answer # None => request[q].submitted
    BY DEF IInv, Answered
  <2>. QED
    BY <1>4, <2>1, AnsweredKept DEF IInv
<1>9. DroppedEarly'
  BY <1>4 DEF IInv, DroppedEarly
<1>10. AnswerWakesSession'
  <2> SUFFICES ASSUME NEW t \in Session, session'[t].pc = "waiting",
                      session'[t].writeTimer = "armed", session'[t].response # None,
                      session'[t].response = request'[Current(t)'].answer
               PROVE  request'[Current(t)'].long
    BY DEF AnswerWakesSession
  <2>1. CASE t = s
    BY <1>0, <2>1 DEF Reads, Current
  <2>2. CASE t # s
    <3>1. Current(t)' = Current(t) /\ Current(t) # Current(s) /\ session'[t] = session[t]
      BY <1>0, <2>2 DEF Reads, Current
    <3>2. Current(t) \in Request
      BY <3>1, CurrentIsRequest
    <3>3. request'[Current(t)] = request[Current(t)]
      BY <1>0, <3>1, <3>2 DEF Reads
    <3>. QED
      BY <3>1, <3>3 DEF IInv, AnswerWakesSession
  <2>. QED
    BY <2>1, <2>2
<1>11. OwnAnswer'
  BY <1>4, OwnAnswerKept DEF IInv
<1>. QED
  BY <1>1, <1>2, <1>3, <1>5, <1>6, <1>7, <1>8, <1>9, <1>10, <1>11 DEF IInv

LEMMA RequestTyped ==
    ASSUME IInv, NEW s \in Session, session[s].pc # "new"
    PROVE  request[Current(s)] \in RequestRecord /\ request \in [Request -> RequestRecord]
BY CurrentIsRequest DEF IInv, TypeOK, RequestRecord

LEMMA ReadRequestInv == ASSUME IInv, NEW s \in Session, ReadRequest(s) PROVE IInv'
<1>1. PICK long \in BOOLEAN :
         request' = [request EXCEPT ![Current(s)].submitted = TRUE, ![Current(s)].long = long]
  BY DEF ReadRequest
<1> DEFINE f == [request[Current(s)] EXCEPT !.submitted = TRUE, !.long = long]
<1>2. /\ session[s].pc = "header" /\ ~request[Current(s)].submitted
      /\ request[Current(s)] \in RequestRecord /\ Current(s) \in Request
      /\ <<s, 1>> \in waiting => ~(session[s].n <= 1)
  BY RequestTyped, CurrentIsRequest DEF ReadRequest, IInv, Unfinished, FirstEntry
<1>3. request' = [request EXCEPT ![Current(s)] = f] /\ f \in RequestRecord
  BY <1>1, <1>2, RequestTyped DEF RequestRecord
<1>4. CASE session' = [session EXCEPT ![s].pc = "enter", ![s].readTimer = FALSE]
  <2> DEFINE r == [session[s] EXCEPT !.pc = "enter", !.readTimer = FALSE]
  <2>1. /\ session' = [session EXCEPT ![s] = r] /\ r \in SessionRecord
        /\ r.pc = "enter" /\ r.n = session[s].n /\ r.response = session[s].response
    BY <1>4, SessionTyped DEF SessionRecord, MidHandler
  <2>2. /\ f.answer = request[Current(s)].answer /\ f.settled = request[Current(s)].settled
        /\ f.submitted /\ f.completed = request[Current(s)].completed
    BY <1>2 DEF RequestRecord
  <2> HIDE DEF r, f
  <2>3. Reads(s, r, f)
    BY <1>2, <1>3, <2>1, <2>2 DEF Reads, Responded, BeforeHead
  <2>. QED
    BY <2>3, ReadsInv DEF ReadRequest
<1>5. CASE session' = [session EXCEPT ![s].pc = "body", ![s].readTimer = TRUE]
  <2> DEFINE r == [session[s] EXCEPT !.pc = "body", !.readTimer = TRUE]
  <2>1. /\ session' = [session EXCEPT ![s] = r] /\ r \in SessionRecord
        /\ r.pc = "body" /\ r.n = session[s].n /\ r.response = session[s].response
    BY <1>5, SessionTyped DEF SessionRecord, Waiting
  <2>2. /\ f.answer = request[Current(s)].answer /\ f.settled = request[Current(s)].settled
        /\ f.submitted /\ f.completed = request[Current(s)].completed
    BY <1>2 DEF RequestRecord
  <2> HIDE DEF r, f
  <2>3. Reads(s, r, f)
    BY <1>2, <1>3, <2>1, <2>2 DEF Reads, Responded, BeforeHead
  <2>. QED
    BY <2>3, ReadsInv DEF ReadRequest
<1>. QED
  BY <1>4, <1>5 DEF ReadRequest

LEMMA ReadBodyInv == ASSUME IInv, NEW s \in Session, ReadBody(s) PROVE IInv'
<1>1. PICK long \in {request[Current(s)].long, TRUE} :
         request' = [request EXCEPT ![Current(s)].long = long]
  BY DEF ReadBody
<1> DEFINE f == [request[Current(s)] EXCEPT !.long = long]
<1>2. /\ session[s].pc = "body"
      /\ request[Current(s)] \in RequestRecord /\ Current(s) \in Request
      /\ <<s, 1>> \in waiting => ~(session[s].n <= 1)
  BY RequestTyped, CurrentIsRequest DEF ReadBody, IInv, FirstEntry
<1>3. request' = [request EXCEPT ![Current(s)] = f] /\ f \in RequestRecord
  BY <1>1, <1>2, RequestTyped DEF RequestRecord
<1>4. CASE session' = [session EXCEPT ![s].pc = "enter", ![s].readTimer = FALSE]
  <2> DEFINE r == [session[s] EXCEPT !.pc = "enter", !.readTimer = FALSE]
  <2>1. /\ session' = [session EXCEPT ![s] = r] /\ r \in SessionRecord
        /\ r.pc = "enter" /\ r.n = session[s].n /\ r.response = session[s].response
    BY <1>4, SessionTyped DEF SessionRecord, MidHandler
  <2>2. /\ f.answer = request[Current(s)].answer /\ f.settled = request[Current(s)].settled
        /\ f.submitted = request[Current(s)].submitted
        /\ f.completed = request[Current(s)].completed
        /\ request[Current(s)].long => f.long
    BY <1>1, <1>2 DEF RequestRecord
  <2> HIDE DEF r, f
  <2>3. Reads(s, r, f)
    BY <1>2, <1>3, <2>1, <2>2 DEF Reads, Responded, BeforeHead
  <2>. QED
    BY <2>3, ReadsInv DEF ReadBody
<1>5. CASE session' = [session EXCEPT ![s].readTimer = TRUE]
  <2> DEFINE r == [session[s] EXCEPT !.readTimer = TRUE]
  <2>1. /\ session' = [session EXCEPT ![s] = r] /\ r \in SessionRecord
        /\ r.pc = "body" /\ r.n = session[s].n /\ r.response = session[s].response
    BY <1>2, <1>5, SessionTyped DEF SessionRecord
  <2>2. /\ f.answer = request[Current(s)].answer /\ f.settled = request[Current(s)].settled
        /\ f.submitted = request[Current(s)].submitted
        /\ f.completed = request[Current(s)].completed
        /\ request[Current(s)].long => f.long
    BY <1>1, <1>2 DEF RequestRecord
  <2> HIDE DEF r, f
  <2>3. Reads(s, r, f)
    BY <1>2, <1>3, <2>1, <2>2 DEF Reads, Responded, BeforeHead
  <2>. QED
    BY <2>3, ReadsInv DEF ReadBody
<1>. QED
  BY <1>4, <1>5 DEF ReadBody

LEMMA ReadFailsInv == ASSUME IInv, NEW s \in Session, ReadFails(s) PROVE IInv'
<1> DEFINE r == [session[s] EXCEPT !.pc = "gone", !.readTimer = FALSE]
<1>1. /\ session[s].pc \in {"header", "body"} /\ session' = [session EXCEPT ![s] = r]
      /\ <<s, 1>> \in waiting => ~(session[s].n <= 1)
  BY SessionTyped DEF ReadFails, IInv, FirstEntry
<1>2. CASE session[s].pc = "body"
  <2> DEFINE f == [request[Current(s)] EXCEPT !.aborted = TRUE]
  <2>1. /\ request' = [request EXCEPT ![Current(s)] = f] /\ f \in RequestRecord
        /\ request[Current(s)] \in RequestRecord
    BY <1>2, RequestTyped, CurrentIsRequest DEF ReadFails, RequestRecord
  <2>3. /\ r \in SessionRecord /\ r.pc = "gone" /\ r.n = session[s].n
        /\ r.response = session[s].response
    BY SessionTyped DEF SessionRecord
  <2>4. /\ f.answer = request[Current(s)].answer /\ f.settled = request[Current(s)].settled
        /\ f.submitted = request[Current(s)].submitted
        /\ f.completed = request[Current(s)].completed
        /\ request[Current(s)].long => f.long
    BY <2>1 DEF RequestRecord
  <2> HIDE DEF r, f
  <2>5. Reads(s, r, f)
    BY <1>1, <2>1, <2>3, <2>4 DEF Reads, Responded, BeforeHead
  <2>. QED
    BY <2>5, ReadsInv DEF ReadFails
<1>3. CASE session[s].pc = "header"
  <2>1. Moves(s, r)
    BY <1>1, <1>3, SessionTyped DEF Moves, SessionRecord, Responded, BeforeHead
  <2>. QED
    BY <1>3, <2>1, MovesInv DEF ReadFails
<1>. QED
  BY <1>1, <1>2, <1>3

LEMMA BodyThrowsInv == ASSUME IInv, NEW s \in Session, BodyThrows(s) PROVE IInv'
<1> DEFINE r == [session[s] EXCEPT !.pc = "thrown", !.readTimer = FALSE]
<1>1. /\ session[s].pc = "body" /\ session' = [session EXCEPT ![s] = r]
      /\ <<s, 1>> \in waiting => ~(session[s].n <= 1)
  BY SessionTyped DEF BodyThrows, IInv, FirstEntry
<1>2. Moves(s, r)
  BY <1>1, SessionTyped DEF Moves, SessionRecord, Responded, BeforeHead
<1>. QED
  BY <1>2, MovesInv DEF BodyThrows

LEMMA CompleteRequestInv == ASSUME IInv, NEW s \in Session, CompleteRequest(s) PROVE IInv'
<1> DEFINE r == [session[s] EXCEPT !.pc = "waiting"]
           f == [request[Current(s)] EXCEPT !.completed = TRUE]
<1>1. session[s].pc = "finish" /\ session' = [session EXCEPT ![s] = r]
  BY SessionTyped DEF CompleteRequest, Goto
<1>2. /\ request' = [request EXCEPT ![Current(s)] = f] /\ f \in RequestRecord
      /\ request[Current(s)] \in RequestRecord /\ Current(s) \in Request
  BY <1>1, RequestTyped, CurrentIsRequest DEF CompleteRequest, RequestRecord
<1>3. /\ session[s].n <= 1 /\ <<s, 1>> \in waiting => session[s].response = None
      /\ request[Current(s)].answer # None => request[Current(s)].long
  BY <1>1, <1>2 DEF IInv, FirstEntry, Answered, Unfinished
<1>4. Reads(s, r, f)
  BY <1>1, <1>2, <1>3, SessionTyped
     DEF Reads, SessionRecord, RequestRecord, Waiting, Responded, BeforeHead
<1>. QED
  BY <1>4, ReadsInv DEF CompleteRequest

---------------------------------------------------------------------------
(***************************************************************************)
(* Responding.                                                             *)
(***************************************************************************)
ResponseRecord == [made : BOOLEAN, parsed : BOOLEAN, keepAlive : BOOLEAN,
                   stream : StreamOf(Response)]

\* A step that changes response objects takes none away, and keeps errors final.
MoreMade ==
    /\ response' \in [Response -> ResponseRecord]
    /\ \A q \in Request : ~response'[q].keepAlive
    /\ \A o \in Response : response[o].made => response'[o].made

\* A step of a session on its way to the response, which may change response objects
\* and the session's own entry of the map.
Responds(s, r) ==
    /\ session' = [session EXCEPT ![s] = r] /\ r \in SessionRecord
    /\ r.n = session[s].n /\ r.response \in {session[s].response, Current(s)}
    /\ session[s].pc # "new"
    /\ r.pc \notin {"new", "header", "body", "enter", "waiting"}
    /\ r.pc \in Responded => r.response # None
    /\ r.pc \in {"arm", "finish"} => session[s].pc = "enter"
    /\ r.pc \in BeforeHead => session[s].pc \in BeforeHead
    /\ MoreMade
    /\ r.response = Current(s) => response'[Current(s)].made
    /\ waiting' \subseteq Request
    /\ \A q \in waiting' : q \in waiting \/ q = Current(s)
    /\ session[s].n <= 1 /\ <<s, 1>> \in waiting' =>
          /\ r.pc \in {"arm", "finish", "waiting", "respond", "fill", "erase"}
          /\ r.pc \in {"arm", "finish", "waiting", "respond"} => r.response = None

LEMMA RespondsInv ==
    ASSUME IInv, NEW s \in Session, NEW r, Responds(s, r),
           UNCHANGED <<request, posted, heads, dropped>>
    PROVE  IInv'
<1>0. /\ session \in [Session -> SessionRecord]
      /\ Current(s) \in Request /\ session[s].n \in 1 .. MaxRequests
  BY SessionTyped, CurrentIsRequest DEF Responds
<1>1. TypeOK'
  <2>1. session' \in [Session -> SessionRecord]
    BY <1>0 DEF Responds
  <2>. QED
    BY <2>1 DEF IInv, TypeOK, SessionRecord, Responds, MoreMade, ResponseRecord
<1>2. Numbered' /\ HasResponse'
  BY <1>0 DEF IInv, Responds, Numbered, HasResponse
<1>3. ErrorsClose' /\ DroppedEarly'
  BY DEF IInv, Responds, MoreMade, ErrorsClose, DroppedEarly
<1>4. Answered'
  BY AnsweredKept DEF IInv, Responds, MoreMade
<1>5. Origin'
  BY <1>0, OriginKept DEF IInv, Responds
<1>6. Future' /\ Unfinished' /\ HeadToCome'
  BY <1>0 DEF IInv, Responds, Future, Unfinished, HeadToCome, Current
<1>7. Made'
  <2> SUFFICES ASSUME NEW t \in Session, session'[t].response # None
               PROVE  response'[session'[t].response].made
    BY DEF Made
  <2>1. CASE session'[t].response = session[t].response
    <3>1. session[t].response \in Response /\ response[session[t].response].made
      BY <1>0, <2>1 DEF IInv, Made, SessionRecord
    <3>. QED
      BY <2>1, <3>1 DEF Responds, MoreMade
  <2>2. CASE session'[t].response # session[t].response
    BY <1>0, <2>2 DEF Responds
  <2>. QED
    BY <2>1, <2>2
<1>8. FirstEntry' /\ FirstUnanswered'
  <2>1. \A t \in Session : t # s /\ <<t, 1>> \in waiting' => <<t, 1>> \in waiting
    BY DEF Responds, Current
  <2>. QED
    BY <1>0, <2>1 DEF IInv, Responds, FirstEntry, FirstUnanswered
<1>9. AnswerWakesSession'
  BY <1>0 DEF IInv, Responds, AnswerWakesSession, Current
<1>10. OwnAnswer'
  BY OwnAnswerKept DEF IInv
<1>. QED
  BY <1>1, <1>2, <1>3, <1>4, <1>5, <1>6, <1>7, <1>8, <1>9, <1>10 DEF IInv

LEMMA ResponsesTyped ==
    ASSUME IInv
    PROVE  /\ response \in [Response -> ResponseRecord]
           /\ response' = response => MoreMade
BY DEF IInv, TypeOK, ResponseRecord, MoreMade, ErrorsClose, Response

LEMMA AbortMade ==
    ASSUME IInv, NEW o \in Response, response' = AbortResponse(o)
    PROVE  MoreMade
<1>1. response[o] \in ResponseRecord /\ Request \subseteq Response
  BY ResponsesTyped DEF Response
<1> DEFINE a == [response[o] EXCEPT !.stream.aborted = TRUE]
<1>2. /\ a \in ResponseRecord /\ a.made = response[o].made
      /\ a.keepAlive = response[o].keepAlive
  BY <1>1 DEF ResponseRecord, StreamOf
<1>3. response' = [response EXCEPT ![o] = a]
  BY ResponsesTyped DEF AbortResponse
<1> HIDE DEF a
<1>. QED
  BY <1>1, <1>2, <1>3, ResponsesTyped DEF IInv, ErrorsClose, MoreMade

LEMMA EnterWaitingInv == ASSUME IInv, NEW s \in Session, EnterWaiting(s) PROVE IInv'
<1> DEFINE r == [session[s] EXCEPT !.pc = "arm"]
<1>1. session[s].pc = "enter" /\ session' = [session EXCEPT ![s] = r]
  BY SessionTyped DEF EnterWaiting, Goto
<1>2. r \in SessionRecord
  BY SessionTyped DEF SessionRecord, MidHandler
<1>3. waiting \subseteq Request /\ Current(s) \in Request
  BY <1>1, CurrentIsRequest DEF IInv, TypeOK
<1>4. /\ r.response = session[s].response
      /\ session[s].n <= 1 => r.response = None
  BY <1>1, SessionTyped DEF IInv, FirstUnanswered, SessionRecord
<1>5. r.response = Current(s) => response[Current(s)].made
  BY <1>3, <1>4 DEF IInv, Made, Request, None
<1>6. Responds(s, r)
  BY <1>1, <1>2, <1>3, <1>4, <1>5, ResponsesTyped, SessionTyped
     DEF EnterWaiting, Responds, SessionRecord, Responded, BeforeHead
<1>. QED
  BY <1>6, RespondsInv DEF EnterWaiting

LEMMA EraseWaitingInv == ASSUME IInv, NEW s \in Session, EraseWaiting(s) PROVE IInv'
<1> DEFINE r == [session[s] EXCEPT !.pc = "head"]
<1>1. session[s].pc = "erase" /\ session' = [session EXCEPT ![s] = r]
  BY SessionTyped DEF EraseWaiting, Goto
<1>2. r \in SessionRecord /\ r.response = session[s].response /\ r.response # None
  BY <1>1, SessionTyped DEF SessionRecord, MidHandler, IInv, HasResponse, Responded
<1>3. waiting \subseteq Request /\ session[s].n \in 1 .. MaxRequests
  BY <1>1, CurrentIsRequest DEF IInv, TypeOK
<1>4. session[s].n <= 1 => <<s, 1>> \notin waiting'
  BY <1>3 DEF EraseWaiting, Current
<1>5. r.response = Current(s) => response[Current(s)].made
  BY <1>2 DEF IInv, Made
<1>6. Responds(s, r)
  BY <1>1, <1>2, <1>3, <1>4, <1>5, ResponsesTyped, SessionTyped
     DEF EraseWaiting, Responds, SessionRecord, Responded, BeforeHead
<1>. QED
  BY <1>6, RespondsInv DEF EraseWaiting

LEMMA MakeErrorInv ==
    ASSUME IInv, NEW s \in Session, NEW next \in DOMAIN AfterFill, MakeError(s, next),
           session[s].pc \in {"header", "respond"},
           session[s].n <= 1 /\ <<s, 1>> \in waiting => next = "fill",
           UNCHANGED <<request, waiting, posted, heads, dropped>>
    PROVE  IInv'
<1> DEFINE r == [session[s] EXCEPT !.pc = next, !.readTimer = FALSE, !.response = Current(s)]
           a == [response[Current(s)] EXCEPT !.made = TRUE]
<1>0. next \in {"fill", "fillBad", "fillRefused"}
  BY DEF AfterFill
<1>1. session' = [session EXCEPT ![s] = r]
  BY SessionTyped DEF MakeError
<1>2. Current(s) \in Request /\ Current(s) # None
  BY <1>1, CurrentIsRequest DEF Current, None
<1>3. r \in SessionRecord /\ waiting \subseteq Request
  <2>1. next \in MidHandler /\ Current(s) \in Response
    BY <1>0, <1>2 DEF MidHandler, Response
  <2>2. session[s] \in SessionRecord
    BY SessionTyped
  <2>3. r \in SessionRecord
    BY <2>1, <2>2 DEF SessionRecord
  <2>. QED
    BY <2>3 DEF IInv, TypeOK
<1>4. MoreMade /\ response'[Current(s)].made
  <2>1. Current(s) \in Response /\ Request \subseteq Response
    BY <1>2 DEF Response
  <2>2. a \in ResponseRecord /\ a.made /\ a.keepAlive = response[Current(s)].keepAlive
    BY <2>1, ResponsesTyped DEF ResponseRecord
  <2>3. response' = [response EXCEPT ![Current(s)] = a]
    BY <2>1, ResponsesTyped DEF MakeError
  <2> HIDE DEF a
  <2>. QED
    BY <1>2, <2>1, <2>2, <2>3, ResponsesTyped DEF IInv, ErrorsClose, MoreMade
<1>5. r.pc = next /\ r.response = Current(s) /\ r.n = session[s].n
  BY SessionTyped DEF SessionRecord
<1> HIDE DEF r
<1>6. Responds(s, r)
  BY <1>0, <1>1, <1>2, <1>3, <1>4, <1>5 DEF Responds, Responded, BeforeHead
<1>. QED
  BY <1>6, RespondsInv

LEMMA RefuseRequestInv == ASSUME IInv, NEW s \in Session, RefuseRequest(s) PROVE IInv'
<1>1. "fillRefused" \in DOMAIN AfterFill /\ session[s].pc = "header"
  BY DEF RefuseRequest, AfterFill
<1>2. session[s].n <= 1 => <<s, 1>> \notin waiting
  BY <1>1 DEF IInv, FirstEntry
<1>. QED
  BY <1>1, <1>2, MakeErrorInv DEF RefuseRequest

LEMMA MakeTimeoutInv == ASSUME IInv, NEW s \in Session, MakeTimeout(s) PROVE IInv'
<1>1. "fill" \in DOMAIN AfterFill /\ session[s].pc = "respond"
  BY DEF MakeTimeout, AfterFill
<1>. QED
  BY <1>1, MakeErrorInv DEF MakeTimeout

LEMMA MakeBadGatewayInv == ASSUME IInv, NEW s \in Session, MakeBadGateway(s) PROVE IInv'
<1>1. "fillBad" \in DOMAIN AfterFill /\ session[s].pc = "respond"
  BY DEF MakeBadGateway, AfterFill
<1>2. session[s].n <= 1 => <<s, 1>> \notin waiting
  BY <1>1 DEF IInv, FirstEntry, MakeBadGateway, Unusable
<1>. QED
  BY <1>1, <1>2, MakeErrorInv DEF MakeBadGateway

LEMMA FillErrorInv == ASSUME IInv, NEW s \in Session, FillError(s) PROVE IInv'
<1> DEFINE next == AfterFill[session[s].pc]
           r == [session[s] EXCEPT !.pc = next]
           o == session[s].response
           b == [append_raw_data(response[o].stream, <<Current(s)>>) EXCEPT !.completed = TRUE]
           a == [response[o] EXCEPT !.parsed = TRUE, !.keepAlive = FALSE, !.stream = b]
<1>0. \/ session[s].pc = "fill" /\ next = "erase"
      \/ session[s].pc = "fillBad" /\ next = "head"
      \/ session[s].pc = "fillRefused" /\ next = "respond"
  BY DEF FillError, AfterFill
<1> HIDE DEF next
<1>1. session' = [session EXCEPT ![s] = r]
  BY SessionTyped DEF FillError, Goto, next
<1>2. /\ r \in SessionRecord /\ r.response = o /\ o # None /\ o \in Response
      /\ waiting \subseteq Request
  <2>1. session[s] \in SessionRecord
    BY SessionTyped
  <2>2. next \in MidHandler
    BY <1>0 DEF MidHandler
  <2>3. r \in SessionRecord /\ r.response = o /\ o \in Response \cup {None}
    BY <2>1, <2>2 DEF SessionRecord
  <2>4. o # None
    BY <1>0 DEF IInv, HasResponse, Responded
  <2>. QED
    BY <2>3, <2>4 DEF IInv, TypeOK
<1>3. Current(s) \in Response /\ Request \subseteq Response
  BY <1>0, CurrentIsRequest DEF Response
<1>4. MoreMade
  <2>1. response[o] \in ResponseRecord /\ response[o].stream \in StreamOf(Response)
    BY <1>2, ResponsesTyped DEF ResponseRecord
  <2>2. b \in StreamOf(Response)
    <3>1. response[o].stream.data \o <<Current(s)>> \in Seq(Response)
      BY <1>3, <2>1 DEF StreamOf
    <3>. QED
      BY <2>1, <3>1 DEF StreamOf, append_raw_data
  <2> HIDE DEF b
  <2>3. a \in ResponseRecord /\ a.made = response[o].made /\ ~a.keepAlive
    BY <2>1, <2>2 DEF ResponseRecord
  <2>4. response' = [response EXCEPT ![o] = a]
    BY <1>2, ResponsesTyped DEF FillError, b
  <2> HIDE DEF a
  <2>. QED
    BY <1>2, <1>3, <2>3, <2>4, ResponsesTyped DEF IInv, ErrorsClose, MoreMade
<1>5. o = Current(s) => response'[Current(s)].made
  BY <1>2, <1>4 DEF IInv, Made, MoreMade
<1>6. session[s].n <= 1 /\ <<s, 1>> \in waiting => session[s].pc = "fill"
  BY <1>0 DEF IInv, FirstEntry
<1>7. r.pc = next /\ r.n = session[s].n
  BY SessionTyped DEF SessionRecord
<1> HIDE DEF r
<1>8. waiting' = waiting
  BY DEF FillError
<1>9. Responds(s, r)
  BY <1>0, <1>1, <1>2, <1>4, <1>5, <1>6, <1>7, <1>8 DEF Responds, Responded, BeforeHead
<1>. QED
  BY <1>9, RespondsInv DEF FillError

LEMMA WriteFailsInv == ASSUME IInv, NEW s \in Session, WriteFails(s) PROVE IInv'
<1> DEFINE r == [session[s] EXCEPT !.pc = "gone"]
<1>1. session[s].pc \in {"writeHeader", "writeBody"} /\ session' = [session EXCEPT ![s] = r]
  BY SessionTyped DEF WriteFails, Goto
<1>2. /\ r \in SessionRecord /\ r.response = session[s].response
      /\ session[s].response \in Response /\ waiting \subseteq Request
  <2>1. session[s] \in SessionRecord
    BY SessionTyped
  <2>2. r \in SessionRecord /\ r.response = session[s].response
        /\ r.response \in Response \cup {None}
    BY <2>1 DEF SessionRecord
  <2>3. session[s].response # None
    BY <1>1 DEF IInv, HasResponse, Responded
  <2>. QED
    BY <2>2, <2>3 DEF IInv, TypeOK
<1>3. MoreMade
  BY <1>2, AbortMade DEF WriteFails
<1>4. /\ session[s].n <= 1 => <<s, 1>> \notin waiting
      /\ session[s].response = Current(s) => response'[Current(s)].made
  <2>1. session[s].response # None
    BY <1>1 DEF IInv, HasResponse, Responded
  <2>. QED
    BY <1>1, <1>2, <1>3, <2>1 DEF IInv, FirstEntry, Made, MoreMade
<1>5. Responds(s, r)
  BY <1>1, <1>2, <1>3, <1>4, SessionTyped
     DEF WriteFails, Responds, SessionRecord, Responded, BeforeHead
<1>. QED
  BY <1>5, RespondsInv DEF WriteFails

\* The header of a request that had none: what the session has is its own.
LEMMA write_response_headerInv ==
    ASSUME IInv, NEW s \in Session, write_response_header(s) PROVE IInv'
<1> DEFINE r == [session[s] EXCEPT !.pc = "writeHeader"]
<1>1. session[s].pc = "head" /\ session' = [session EXCEPT ![s] = r]
  BY SessionTyped DEF write_response_header, Goto
<1>2. /\ session \in [Session -> SessionRecord] /\ r \in SessionRecord
      /\ Current(s) \in Request /\ session[s].n \in 1 .. MaxRequests
      /\ session[s].response \in Response
  BY <1>1, SessionTyped, CurrentIsRequest
     DEF SessionRecord, Waiting, IInv, HasResponse, Responded
<1>3. heads \in [Request -> Seq(Response)] /\ heads[Current(s)] = <<>>
  BY <1>1 DEF IInv, TypeOK, HeadToCome, BeforeHead
<1>4. heads' = [heads EXCEPT ![Current(s)] = <<session[s].response>>]
  BY <1>2, <1>3 DEF write_response_header
<1>5. TypeOK'
  <2>1. session' \in [Session -> SessionRecord] /\ heads' \in [Request -> Seq(Response)]
    BY <1>1, <1>2, <1>3, <1>4
  <2>. QED
    BY <2>1 DEF write_response_header, IInv, TypeOK, SessionRecord
<1>6. Numbered' /\ HasResponse' /\ Made' /\ FirstEntry' /\ FirstUnanswered'
  <2>1. session[s].n <= 1 => <<s, 1>> \notin waiting
    BY <1>1 DEF IInv, FirstEntry
  <2>2. session[s].response # None
    BY <1>1 DEF IInv, HasResponse, Responded
  <2>. QED
    BY <1>1, <1>2, <2>1, <2>2
       DEF write_response_header, IInv, Numbered, HasResponse, Made, FirstEntry, FirstUnanswered
<1>7. ErrorsClose' /\ Answered' /\ DroppedEarly'
  BY DEF write_response_header, IInv, ErrorsClose, Answered, DroppedEarly
<1>8. Origin'
  BY <1>1, <1>2, OriginKept DEF write_response_header, IInv
<1>9. Future' /\ Unfinished' /\ HeadToCome'
  <2>1. \A t \in Session : \A m \in 1 .. MaxRequests : <<t, m>> \in Request
    BY DEF Request
  <2>2. \A q \in Request : q # Current(s) => heads'[q] = heads[q]
    BY <1>2, <1>3, <1>4
  <2>3. \A t \in Session : \A m \in 1 .. MaxRequests :
           m > session[t].n => <<t, m>> # Current(s)
    BY <1>2 DEF Current, SessionRecord
  <2>4. Future'
    BY <1>1, <1>2, <2>1, <2>2, <2>3 DEF write_response_header, IInv, Future
  <2>5. Unfinished'
    BY <1>1, <1>2 DEF write_response_header, IInv, Unfinished, Current
  <2>6. HeadToCome'
    <3> SUFFICES ASSUME NEW t \in Session, session'[t].pc \in BeforeHead
                 PROVE  heads'[Current(t)'] = <<>>
      BY DEF HeadToCome
    <3>1. t # s /\ session'[t] = session[t]
      BY <1>1, <1>2 DEF BeforeHead
    <3>2. Current(t)' = Current(t) /\ Current(t) # Current(s)
      BY <3>1 DEF Current
    <3>3. Current(t) \in Request
      BY <3>1, CurrentIsRequest DEF BeforeHead
    <3>. QED
      BY <2>2, <3>1, <3>2, <3>3 DEF IInv, HeadToCome
  <2>. QED
    BY <2>4, <2>5, <2>6
<1>10. AnswerWakesSession'
  BY <1>1, <1>2 DEF write_response_header, IInv, AnswerWakesSession, Current
<1>11. OwnAnswer'
  <2> SUFFICES ASSUME NEW q \in Request
               PROVE  /\ Len(heads'[q]) <= 1
                      /\ \A o \in {heads'[q][i] : i \in DOMAIN heads'[q]} :
                            \/ o = q
                            \/ \E m \in 1 .. q[2] : o = request[<<q[1], m>>].answer
    BY Zenon DEF write_response_header, OwnAnswer
  <2>1. CASE q = Current(s)
    <3>1. heads'[q] = <<session[s].response>> /\ q[1] = s /\ q[2] = session[s].n
      BY <1>2, <1>3, <1>4, <2>1 DEF Current
    <3>2. \/ session[s].response = q
          \/ \E m \in 1 .. session[s].n : session[s].response = request[<<s, m>>].answer
      BY <1>1, <2>1 DEF IInv, Origin, HasResponse, Responded
    <3>. QED
      BY <3>1, <3>2
  <2>2. CASE q # Current(s)
    <3>1. heads'[q] = heads[q]
      BY <1>2, <1>3, <1>4, <2>2
    <3>2. /\ Len(heads[q]) <= 1
          /\ \A i \in DOMAIN heads[q] :
                \/ heads[q][i] = q
                \/ \E m \in 1 .. q[2] : heads[q][i] = request[<<q[1], m>>].answer
      BY DEF IInv, OwnAnswer
    <3>. QED
      BY <3>1, <3>2
  <2>. QED
    BY <2>1, <2>2
<1>. QED
  BY <1>5, <1>6, <1>7, <1>8, <1>9, <1>10, <1>11 DEF IInv

---------------------------------------------------------------------------
(***************************************************************************)
(* Steps that leave the places of the sessions and the requests' numbers.  *)
(***************************************************************************)
\* The read timer's handler: it may abort the request, and a response.
LEMMA timer_handlerInv == ASSUME IInv, NEW s \in Session, timer_handler(s) PROVE IInv'
<1> DEFINE r == [session[s] EXCEPT !.readDue = FALSE, !.open = FALSE]
           f == [request[Current(s)] EXCEPT !.aborted = TRUE]
<1>1. session[s].pc # "new" /\ session' = [session EXCEPT ![s] = r]
  BY SessionTyped DEF timer_handler, IInv, Numbered
<1>2. /\ r \in SessionRecord /\ r.pc = session[s].pc /\ r.n = session[s].n
      /\ r.response = session[s].response /\ r.writeTimer = session[s].writeTimer
      /\ session \in [Session -> SessionRecord]
  BY SessionTyped DEF SessionRecord
<1>3. /\ request \in [Request -> RequestRecord] /\ request[Current(s)] \in RequestRecord
      /\ Current(s) \in Request
  BY <1>1, RequestTyped, CurrentIsRequest
<1>4. /\ f \in RequestRecord /\ f.submitted = request[Current(s)].submitted
      /\ f.long = request[Current(s)].long /\ f.completed = request[Current(s)].completed
      /\ f.settled = request[Current(s)].settled /\ f.answer = request[Current(s)].answer
  BY <1>3 DEF RequestRecord
<1>5. request' = [request EXCEPT ![Current(s)] = f]
  BY <1>3 DEF timer_handler
<1> HIDE DEF r, f
<1>6. /\ request' \in [Request -> RequestRecord]
      /\ \A q \in Request :
            /\ request'[q].submitted = request[q].submitted
            /\ request'[q].long = request[q].long
            /\ request'[q].completed = request[q].completed
            /\ request'[q].settled = request[q].settled
            /\ request'[q].answer = request[q].answer
  BY <1>3, <1>4, <1>5
<1>7. /\ session' \in [Session -> SessionRecord]
      /\ \A t \in Session :
            /\ session'[t].pc = session[t].pc /\ session'[t].n = session[t].n
            /\ session'[t].response = session[t].response
            /\ session'[t].writeTimer = session[t].writeTimer
            /\ Current(t)' = Current(t)
  BY <1>1, <1>2 DEF Current
<1>8. MoreMade
  <2>1. CASE session[s].response = None
    BY <2>1, ResponsesTyped DEF timer_handler
  <2>2. CASE session[s].response # None
    <3>1. session[s].response \in Response
      BY <1>2, <2>2 DEF SessionRecord
    <3>. QED
      BY <2>2, <3>1, AbortMade DEF timer_handler
  <2>. QED
    BY <2>1, <2>2
<1>9. TypeOK'
  BY <1>6, <1>7, <1>8
     DEF timer_handler, IInv, TypeOK, SessionRecord, RequestRecord, MoreMade, ResponseRecord
<1>10. Numbered'
  BY <1>1, <1>2, <1>7 DEF IInv, Numbered
<1>11. HasResponse' /\ FirstEntry' /\ FirstUnanswered'
  BY <1>7 DEF timer_handler, IInv, HasResponse, FirstEntry, FirstUnanswered
<1>12. ErrorsClose' /\ DroppedEarly'
  BY <1>6, <1>8 DEF timer_handler, IInv, ErrorsClose, MoreMade, DroppedEarly
<1>13. Answered'
  BY <1>6, <1>8, AnsweredKept DEF timer_handler, IInv, MoreMade
<1>14. Origin'
  BY <1>6, <1>7, OriginKept DEF IInv
<1>15. Future'
  <2>1. \A t \in Session : \A m \in 1 .. MaxRequests : <<t, m>> \in Request
    BY DEF Request
  <2>. QED
    BY <1>6, <1>7, <2>1 DEF timer_handler, IInv, Future
<1>16. Unfinished' /\ HeadToCome' /\ AnswerWakesSession'
  <2>1. \A t \in Session : session[t].pc # "new" => Current(t) \in Request
    BY CurrentIsRequest
  <2>. QED
    BY <1>6, <1>7, <2>1
       DEF timer_handler, IInv, Unfinished, HeadToCome, BeforeHead, AnswerWakesSession
<1>17. Made'
  <2> SUFFICES ASSUME NEW t \in Session, session'[t].response # None
               PROVE  response'[session'[t].response].made
    BY DEF Made
  <2>1. session[t].response \in Response /\ response[session[t].response].made
    BY <1>2, <1>7 DEF IInv, Made, SessionRecord
  <2>. QED
    BY <1>7, <1>8, <2>1 DEF MoreMade
<1>18. OwnAnswer'
  BY <1>6, OwnAnswerKept DEF timer_handler, IInv
<1>. QED
  BY <1>9, <1>10, <1>11, <1>12, <1>13, <1>14, <1>15, <1>16, <1>17, <1>18 DEF IInv

\* The answer reaches the session that waits for it, or is dropped.
LEMMA fromHttpSinkHandlerInv ==
    ASSUME IInv, NEW q \in Request, NEW u \in Upstream, fromHttpSinkHandler(q, u)
    PROVE  IInv'
<1> DEFINE s == q[1]
           w == IF session[s].writeTimer = "armed" THEN "due" ELSE session[s].writeTimer
           r == [session[s] EXCEPT !.response = u, !.writeTimer = w]
<1>1. /\ s \in Session /\ q[2] \in 1 .. MaxRequests /\ q = <<s, q[2]>>
      /\ u \in Response /\ u # None /\ MaxRequests \in Nat
  BY UpstreamAssumption, BoundsAssumption DEF Request, Response
<1>2. /\ request[q].answer = u /\ request[q].submitted
      /\ request[q].completed \/ request[q].long
      /\ response[u].made
  <2>1. \A p \in posted : request[p[1]].answer = p[2]
    BY DEF IInv, Answered
  <2>2. request[q].answer = u
    BY <2>1 DEF fromHttpSinkHandler
  <2>. QED
    BY <1>1, <2>2 DEF IInv, Answered
<1>3. session \in [Session -> SessionRecord] /\ session[s].n \in 0 .. MaxRequests
  BY <1>1, SessionTyped DEF SessionRecord
<1>4. q[2] <= session[s].n
  <2>1. ~(q[2] > session[s].n)
    BY <1>1, <1>2 DEF IInv, Future
  <2>. QED
    BY <1>1, <1>3, <2>1
<1>5. /\ r \in SessionRecord /\ r.pc = session[s].pc /\ r.n = session[s].n
      /\ r.response = u /\ r.writeTimer # "armed"
  <2>1. session[s] \in SessionRecord
    BY <1>1, <1>3
  <2>2. w \in {"off", "due"}
    BY <2>1 DEF SessionRecord
  <2> HIDE DEF w
  <2>. QED
    BY <1>1, <2>1, <2>2 DEF SessionRecord
<1>6. waiting' = waiting \ {q} /\ posted' \subseteq posted
  BY DEF fromHttpSinkHandler, EntryErased
<1>7. \/ session' = session
      \/ q \in waiting /\ session' = [session EXCEPT ![s] = r]
  BY <1>1, <1>3 DEF fromHttpSinkHandler
<1>8. dropped' \subseteq dropped \cup {q} /\ (q \in dropped' => q \in dropped \/ request[q].long)
  <2>1. session[s].pc \in {"header", "body", "enter"} /\ Current(s) = q => ~request[q].completed
    BY <1>1 DEF IInv, Unfinished
  <2>. QED
    BY <1>2, <2>1 DEF fromHttpSinkHandler
<1> HIDE DEF r
<1>9. TypeOK'
  <2>1. session' \in [Session -> SessionRecord]
    BY <1>1, <1>3, <1>5, <1>7
  <2>2. waiting' \subseteq Request /\ posted' \subseteq Request \X Upstream
        /\ dropped' \subseteq Request
    BY <1>6, <1>8 DEF IInv, TypeOK
  <2>. QED
    BY <2>1, <2>2 DEF fromHttpSinkHandler, IInv, TypeOK, SessionRecord
<1>10. Numbered' /\ HasResponse'
  <2>1. session[s].pc # "new"
    BY <1>1, <1>3, <1>4 DEF IInv, Numbered
  <2>. QED
    BY <1>1, <1>3, <1>5, <1>7, <2>1 DEF IInv, Numbered, HasResponse
<1>11. ErrorsClose' /\ DroppedEarly' /\ Answered'
  BY <1>2, <1>6, <1>8
     DEF fromHttpSinkHandler, IInv, ErrorsClose, DroppedEarly, Answered
<1>12. Origin'
  <2> SUFFICES ASSUME NEW t \in Session
               PROVE  \/ session'[t].response \in {None, Current(t)'}
                      \/ \E m \in 1 .. session'[t].n :
                            session'[t].response = request[<<t, m>>].answer
    BY DEF fromHttpSinkHandler, Origin
  <2>1. CASE session'[t] = session[t]
    BY <2>1 DEF IInv, Origin, Current
  <2>2. CASE session'[t] # session[t]
    <3>1. t = s /\ session'[t] = r
      BY <1>1, <1>3, <1>7, <2>2
    <3>2. q[2] \in 1 .. session'[t].n
      BY <1>1, <1>3, <1>4, <1>5, <3>1
    <3>. QED
      BY <1>1, <1>2, <1>5, <3>1, <3>2
  <2>. QED
    BY <2>1, <2>2
<1>13. Future' /\ Unfinished' /\ HeadToCome'
  <2>1. \A t \in Session : session'[t].pc = session[t].pc /\ session'[t].n = session[t].n
    BY <1>1, <1>3, <1>5, <1>7
  <2>2. Future'
    BY <2>1 DEF fromHttpSinkHandler, IInv, Future
  <2>3. Unfinished'
    BY <2>1 DEF fromHttpSinkHandler, IInv, Unfinished, Current
  <2>4. HeadToCome'
    BY <2>1 DEF fromHttpSinkHandler, IInv, HeadToCome, Current
  <2>. QED
    BY <2>2, <2>3, <2>4
<1>14. Made'
  BY <1>1, <1>2, <1>3, <1>5, <1>7 DEF fromHttpSinkHandler, IInv, Made
<1>15. FirstEntry' /\ FirstUnanswered'
  <2>1. session[s].n <= 1 => q = <<s, 1>>
    BY <1>1, <1>3, <1>4
  <2>2. session[s].n <= 1 /\ q \in waiting => session[s].pc \notin {"header", "body", "enter"}
    BY <1>1, <2>1 DEF IInv, FirstEntry
  <2>3. session[s].n <= 1 => <<s, 1>> \notin waiting'
    BY <1>6, <2>1
  <2>. QED
    BY <1>1, <1>3, <1>5, <1>6, <1>7, <2>2, <2>3 DEF IInv, FirstEntry, FirstUnanswered
<1>16. AnswerWakesSession'
  BY <1>1, <1>3, <1>5, <1>7 DEF fromHttpSinkHandler, IInv, AnswerWakesSession, Current
<1>17. OwnAnswer'
  BY OwnAnswerKept DEF fromHttpSinkHandler, IInv
<1>. QED
  BY <1>9, <1>10, <1>11, <1>12, <1>13, <1>14, <1>15, <1>16, <1>17 DEF IInv

---------------------------------------------------------------------------
(***************************************************************************)
(* The interpreter.                                                        *)
(***************************************************************************)
\* A step that only changes response objects.
LEMMA MoreMadeInv ==
    ASSUME IInv, MoreMade, UNCHANGED <<session, request, waiting, posted, heads, dropped>>
    PROVE  IInv'
<1>1. TypeOK'
  BY DEF IInv, TypeOK, MoreMade, ResponseRecord
<1>2. Numbered' /\ HasResponse' /\ Origin' /\ Future' /\ Unfinished' /\ HeadToCome'
  BY DEF IInv, Numbered, HasResponse, Origin, Future, Unfinished, HeadToCome, Current
<1>3. ErrorsClose' /\ DroppedEarly' /\ FirstEntry' /\ FirstUnanswered'
  BY DEF IInv, MoreMade, ErrorsClose, DroppedEarly, FirstEntry, FirstUnanswered
<1>4. Answered'
  BY AnsweredKept DEF IInv, MoreMade
<1>5. Made'
  <2> SUFFICES ASSUME NEW t \in Session, session[t].response # None
               PROVE  response'[session[t].response].made
    BY DEF Made
  <2>1. session[t].response \in Response
    BY SessionTyped DEF SessionRecord
  <2>. QED
    BY <2>1 DEF IInv, Made, MoreMade
<1>6. AnswerWakesSession'
  BY DEF IInv, AnswerWakesSession, Current
<1>7. OwnAnswer'
  BY OwnAnswerKept DEF IInv
<1>. QED
  BY <1>1, <1>2, <1>3, <1>4, <1>5, <1>6, <1>7 DEF IInv

\* A step that gives a response another stream.
LEMMA StreamMade ==
    ASSUME IInv, NEW u \in Response, NEW st \in StreamOf(Response),
           response' = [response EXCEPT ![u].stream = st]
    PROVE  MoreMade
<1>1. response[u] \in ResponseRecord /\ Request \subseteq Response
  BY ResponsesTyped DEF Response
<1> DEFINE a == [response[u] EXCEPT !.stream = st]
<1>2. /\ a \in ResponseRecord /\ a.made = response[u].made
      /\ a.keepAlive = response[u].keepAlive
  BY <1>1 DEF ResponseRecord
<1>3. response' = [response EXCEPT ![u] = a]
  BY ResponsesTyped
<1> HIDE DEF a
<1>. QED
  BY <1>1, <1>2, <1>3, ResponsesTyped DEF IInv, ErrorsClose, MoreMade

LEMMA UpstreamInv ==
    ASSUME IInv, NEW u \in Upstream,
           UpstreamGrows(u) \/ UpstreamCompletes(u) \/ UpstreamAborts(u)
    PROVE  IInv'
<1>1. u \in Response /\ response[u].stream \in StreamOf(Response)
  BY ResponsesTyped DEF Response, ResponseRecord
<1>2. CASE UpstreamGrows(u)
  <2> DEFINE st == append_raw_data(response[u].stream, <<u>>)
  <2>1. st \in StreamOf(Response)
    <3>1. response[u].stream.data \o <<u>> \in Seq(Response)
      BY <1>1 DEF StreamOf
    <3>. QED
      BY <1>1, <3>1 DEF StreamOf, append_raw_data
  <2>2. response' = [response EXCEPT ![u].stream = st]
    BY <1>1, <1>2, ResponsesTyped DEF UpstreamGrows
  <2> HIDE DEF st
  <2>. QED
    BY <1>1, <1>2, <2>1, <2>2, StreamMade, MoreMadeInv DEF UpstreamGrows
<1>3. CASE UpstreamCompletes(u)
  <2> DEFINE st == [response[u].stream EXCEPT !.completed = TRUE]
  <2>1. st \in StreamOf(Response)
    BY <1>1 DEF StreamOf
  <2>2. response' = [response EXCEPT ![u].stream = st]
    BY <1>1, <1>3, ResponsesTyped DEF UpstreamCompletes
  <2> HIDE DEF st
  <2>. QED
    BY <1>1, <1>3, <2>1, <2>2, StreamMade, MoreMadeInv DEF UpstreamCompletes
<1>4. CASE UpstreamAborts(u)
  BY <1>1, <1>4, AbortMade, MoreMadeInv DEF UpstreamAborts
<1>. QED
  BY <1>2, <1>3, <1>4

\* A step that settles requests, with an answer that no session can have yet.
LEMMA SettledInv ==
    ASSUME IInv, NEW Q \in SUBSET Request, NEW u \in Upstream \cup {None},
           \A q \in Q : request[q].submitted /\ ~request[q].settled,
           u # None => /\ ~response[u].made /\ response'[u].made
                       /\ \A q \in Q : request[q].completed \/ request[q].long,
           request' = [q \in Request |-> IF q \in Q
                         THEN [request[q] EXCEPT !.settled = TRUE, !.answer = u]
                         ELSE request[q]],
           posted' = IF u = None THEN posted ELSE posted \cup (Q \X {u}),
           MoreMade,
           UNCHANGED <<session, waiting, heads, dropped>>
    PROVE  IInv'
<1>1. request \in [Request -> RequestRecord]
  BY DEF IInv, TypeOK, RequestRecord
<1>2. \A q \in Q : request[q].answer = None
  BY DEF IInv, Answered
<1>3. \A q \in Request :
         /\ request'[q] \in RequestRecord
         /\ request'[q].submitted = request[q].submitted
         /\ request'[q].long = request[q].long
         /\ request'[q].completed = request[q].completed
         /\ request[q].settled => request'[q].settled
         /\ request'[q].answer = IF q \in Q THEN u ELSE request[q].answer
         /\ q \in Q => request'[q].settled
  <2> SUFFICES ASSUME NEW q \in Request
               PROVE  /\ request'[q] \in RequestRecord
                      /\ request'[q].submitted = request[q].submitted
                      /\ request'[q].long = request[q].long
                      /\ request'[q].completed = request[q].completed
                      /\ request[q].settled => request'[q].settled
                      /\ request'[q].answer = IF q \in Q THEN u ELSE request[q].answer
                      /\ q \in Q => request'[q].settled
    OBVIOUS
  <2>1. request[q] \in RequestRecord
    BY <1>1
  <2>2. request'[q] = IF q \in Q
                        THEN [request[q] EXCEPT !.settled = TRUE, !.answer = u]
                        ELSE request[q]
    OBVIOUS
  <2>. QED
    BY <2>1, <2>2 DEF RequestRecord
<1>4. \A q \in Request : request[q].answer # None => request'[q].answer = request[q].answer
  BY <1>2, <1>3
<1>5. TypeOK'
  <2>1. request' \in [Request -> RequestRecord]
    BY <1>3
  <2>2. posted' \subseteq Request \X Upstream
    BY DEF IInv, TypeOK
  <2>. QED
    BY <2>1, <2>2 DEF IInv, TypeOK, RequestRecord, MoreMade, ResponseRecord
<1>6. Numbered' /\ HasResponse' /\ FirstEntry' /\ FirstUnanswered'
  BY DEF IInv, Numbered, HasResponse, FirstEntry, FirstUnanswered
<1>7. ErrorsClose' /\ DroppedEarly'
  <2>1. \A q \in Request : /\ request'[q].submitted = request[q].submitted
                           /\ request'[q].long = request[q].long
    BY <1>3
  <2>. QED
    BY <2>1 DEF IInv, MoreMade, ErrorsClose, DroppedEarly
<1>8. Origin'
  BY <1>4, OriginKept DEF IInv
<1>9. Future' /\ Unfinished' /\ HeadToCome'
  <2>1. \A t \in Session : \A m \in 1 .. MaxRequests : <<t, m>> \in Request
    BY DEF Request
  <2>2. \A t \in Session : session[t].pc # "new" => Current(t) \in Request
    BY CurrentIsRequest
  <2>3. \A q \in Request : /\ request'[q].submitted = request[q].submitted
                           /\ request'[q].completed = request[q].completed
    BY <1>3
  <2>4. Future'
    BY <2>1, <2>3 DEF IInv, Future
  <2>5. Unfinished'
    BY <2>2, <2>3 DEF IInv, Unfinished, Current
  <2>6. HeadToCome'
    BY DEF IInv, HeadToCome, Current
  <2>. QED
    BY <2>4, <2>5, <2>6
<1>10. Answered'
  <2>1. ASSUME NEW q \in Request, request'[q].answer # None
        PROVE  /\ request'[q].settled /\ request'[q].submitted
               /\ request'[q].completed \/ request'[q].long
               /\ response'[request'[q].answer].made
    <3>1. CASE q \in Q
      <4>1. /\ request'[q].settled /\ request'[q].answer = u
            /\ request'[q].submitted = request[q].submitted
            /\ request'[q].long = request[q].long
            /\ request'[q].completed = request[q].completed
        BY <1>3, <3>1
      <4>2. u # None /\ response'[u].made /\ request[q].submitted
            /\ (request[q].completed \/ request[q].long)
        BY <2>1, <3>1, <4>1
      <4>. QED
        BY <4>1, <4>2
    <3>2. CASE q \notin Q
      <4>1. request[q].answer # None /\ request'[q].answer = request[q].answer
        BY <1>3, <2>1, <3>2
      <4>2. request[q].answer \in Response
        BY <1>1, <4>1 DEF RequestRecord, Response
      <4>3. /\ request[q].settled /\ request[q].submitted
            /\ request[q].completed \/ request[q].long
            /\ response[request[q].answer].made
        BY <4>1 DEF IInv, Answered
      <4>. QED
        BY <1>3, <4>1, <4>2, <4>3 DEF MoreMade
    <3>. QED
      BY <3>1, <3>2
  <2>2. ASSUME NEW p \in posted'
        PROVE  request'[p[1]].answer = p[2]
    <3>1. CASE p \in posted
      <4>1. p[1] \in Request /\ p[2] \in Upstream /\ request[p[1]].answer = p[2]
        BY <3>1 DEF IInv, TypeOK, Answered
      <4>. QED
        BY <1>4, <4>1, UpstreamAssumption
    <3>2. CASE p \notin posted
      <4>1. p[1] \in Q /\ p[2] = u
        BY <2>2, <3>2
      <4>. QED
        BY <1>3, <4>1
    <3>. QED
      BY <3>1, <3>2
  <2>. QED
    BY <2>1, <2>2 DEF Answered
<1>11. Made'
  <2> SUFFICES ASSUME NEW t \in Session, session[t].response # None
               PROVE  response'[session[t].response].made
    BY DEF Made
  <2>1. session[t].response \in Response
    BY SessionTyped DEF SessionRecord
  <2>. QED
    BY <2>1 DEF IInv, Made, MoreMade
<1>12. AnswerWakesSession'
  <2> SUFFICES ASSUME NEW t \in Session, session[t].pc = "waiting",
                      session[t].writeTimer = "armed", session[t].response # None,
                      session[t].response = request'[Current(t)].answer
               PROVE  request'[Current(t)].long
    BY DEF AnswerWakesSession, Current
  <2>1. Current(t) \in Request
    BY CurrentIsRequest
  <2>2. response[session[t].response].made
    BY DEF IInv, Made
  <2>3. Current(t) \notin Q
    <3>1. \A q \in Q : request'[q].answer = u
      BY <1>3
    <3>. QED
      BY <2>2, <3>1
  <2>. QED
    BY <1>3, <2>1, <2>3 DEF IInv, AnswerWakesSession
<1>13. OwnAnswer'
  BY <1>4, OwnAnswerKept DEF IInv
<1>. QED
  BY <1>5, <1>6, <1>7, <1>8, <1>9, <1>10, <1>11, <1>12, <1>13 DEF IInv

\* The response of a fetch is made when it is handed over.
LEMMA RetrievedTyped ==
    ASSUME NEW u \in Response, NEW parsed \in BOOLEAN, NEW completed \in BOOLEAN,
           NEW aborted \in BOOLEAN, NEW o \in Retrieved(u, parsed, completed, aborted)
    PROVE  o \in ResponseRecord /\ o.made
<1>1. PICK n \in 0 .. MaxBlocks : o.stream.data = [i \in 1 .. n |-> u]
  BY DEF Retrieved
<1>2. [i \in 1 .. n |-> u] \in Seq(Response)
  BY <1>1, BoundsAssumption
<1>3. o.stream \in StreamOf(Response)
  BY <1>1, <1>2 DEF Retrieved, StreamOf
<1>. QED
  BY <1>3 DEF Retrieved, ResponseRecord

LEMMA SettleInv ==
    ASSUME IInv, NEW u \in Upstream, NEW Q \in SUBSET Request, Settle(u, Q)
    PROVE  IInv'
<1>1. u \in Response /\ u # None /\ u \notin Request
  BY UpstreamAssumption DEF Response
<1>2. PICK a \in ResponseRecord : a.made /\ response' = [response EXCEPT ![u] = a]
  <2>1. PICK parsed, completed, aborted \in BOOLEAN :
           \E o \in Retrieved(u, parsed, completed, aborted) : response' = [response EXCEPT ![u] = o]
    BY DEF Settle
  <2>2. PICK o \in Retrieved(u, parsed, completed, aborted) : response' = [response EXCEPT ![u] = o]
    BY <2>1
  <2>. QED
    BY <1>1, <2>2, RetrievedTyped
<1>3. MoreMade /\ response'[u].made
  BY <1>1, <1>2, ResponsesTyped DEF IInv, ErrorsClose, MoreMade, Response
<1>. QED
  BY <1>1, <1>3, SettledInv DEF Settle, Settled, Nameable

LEMMA DiscardInv == ASSUME IInv, NEW q \in Request, Discard(q) PROVE IInv'
<1>1. request \in [Request -> RequestRecord] /\ request[q].answer \in Upstream \cup {None}
  BY DEF IInv, TypeOK, RequestRecord
<1>2. MoreMade /\ (request[q].answer # None => request[q].settled)
  BY ResponsesTyped DEF Discard, IInv, Answered
<1>3. request[q].answer = None
  BY <1>2 DEF Discard
<1>4. request' = [p \in Request |-> IF p \in {q}
                    THEN [request[p] EXCEPT !.settled = TRUE, !.answer = None]
                    ELSE request[p]]
  <2>1. [request[q] EXCEPT !.settled = TRUE, !.answer = None] = [request[q] EXCEPT !.settled = TRUE]
    BY <1>1, <1>3 DEF RequestRecord
  <2>. QED
    BY <1>1, <2>1 DEF Discard
<1>5. /\ {q} \in SUBSET Request
      /\ \A p \in {q} : request[p].submitted /\ ~request[p].settled
      /\ posted' = posted
      /\ UNCHANGED <<session, waiting, heads, dropped>>
  BY DEF Discard
<1>. QED
  BY <1>2, <1>4, <1>5, SettledInv

---------------------------------------------------------------------------
(***************************************************************************)
(* The invariant, and what follows from it.                                *)
(***************************************************************************)
LEMMA InitIInv == ASSUME Init PROVE IInv
<1>1. TypeOK
  BY BoundsAssumption DEF Init, TypeOK, NewStream, StreamOf
<1>2. Numbered /\ HasResponse /\ ErrorsClose /\ Origin /\ Future /\ Unfinished
  BY DEF Init, Numbered, HasResponse, Responded, ErrorsClose, Origin, Future, Unfinished,
         Response, Request
<1>3. HeadToCome /\ Answered /\ Made /\ DroppedEarly /\ FirstEntry /\ FirstUnanswered
  BY DEF Init, HeadToCome, BeforeHead, Answered, Made, DroppedEarly, FirstEntry,
         FirstUnanswered
<1>4. AnswerWakesSession /\ OwnAnswer
  BY DEF Init, AnswerWakesSession, OwnAnswer
<1>. QED
  BY <1>1, <1>2, <1>3, <1>4 DEF IInv

LEMMA StutterInv == ASSUME IInv, UNCHANGED vars PROVE IInv'
<1>1. MoreMade
  BY ResponsesTyped DEF vars
<1>. QED
  BY <1>1, MoreMadeInv DEF vars

LEMMA NextIInv == ASSUME IInv, [Next]_vars PROVE IInv'
<1>1. ASSUME NEW s \in Session, Handler(s) PROVE IInv'
  BY <1>1, EnterWaitingInv, ArmWriteTimerInv, CompleteRequestInv, write_responseInv,
     MakeTimeoutInv, FillErrorInv, EraseWaitingInv, MakeBadGatewayInv, UseResponseInv,
     write_response_headerInv, ReadResponseInv, EndResponseInv
     DEF Handler
<1>2. ASSUME NEW s \in Session, Client(s) PROVE IInv'
  BY <1>2, accept_handlerInv, ReadRequestInv, RefuseRequestInv, ReadBodyInv, BodyThrowsInv,
     ReadFailsInv, HeaderWrittenInv, BodyWrittenInv, WriteFailsInv
     DEF Client
<1>3. ASSUME NEW s \in Session, Timer(s) PROVE IInv'
  BY <1>3, ReadTimerExpiresInv, timer_handlerInv, WriteTimerExpiresInv, PollResponseInv
     DEF Timer
<1>4. ASSUME Interpreter PROVE IInv'
  BY <1>4, SettleInv, DiscardInv, UpstreamInv DEF Interpreter
<1>5. CASE Finished \/ UNCHANGED vars
  BY <1>5, StutterInv DEF Finished
<1>. QED
  BY <1>1, <1>2, <1>3, <1>4, <1>5, fromHttpSinkHandlerInv DEF Next

\* The invariant holds in every state of the server.
THEOREM Invariance == Spec => []IInv
<1>. QED
  BY InitIInv, NextIInv, PTL DEF Spec

\* Every variable of the server keeps its type.
THEOREM TypeCorrect == Spec => []TypeOK
<1>1. IInv => TypeOK
  BY DEF IInv
<1>. QED
  BY Invariance, <1>1, PTL

\* Only the answer to a long request can come before its session is in the map
\* (fromHttpSinkHandler finds no session).
THEOREM DroppedLong == Spec => []DroppedOnlyLong
<1>1. IInv => DroppedOnlyLong
  BY DEF IInv, DroppedEarly, DroppedOnlyLong
<1>. QED
  BY Invariance, <1>1, PTL

\* A session with its answer does not sleep, unless its request was long (notify).
THEOREM AnswerWakes == Spec => []AnswerWakesSession
<1>1. IInv => AnswerWakesSession
  BY DEF IInv
<1>. QED
  BY Invariance, <1>1, PTL

\* A client gets one header for a request, and none that was made for another
\* client (_waiting_sessions, start).
THEOREM NoForeignAnswer == Spec => []OwnAnswer
<1>1. IInv => OwnAnswer
  BY DEF IInv
<1>. QED
  BY Invariance, <1>1, PTL

\* The response to the first request of a connection is not replaced while it is
\* written (the erasure from _waiting_sessions before it).
LEMMA FirstKept ==
    ASSUME IInv, [Next]_vars
    PROVE  \A s \in Session :
              Responding(s) /\ Responding(s)' /\ session[s].n = 1 /\ session'[s].n = 1
                 => session'[s].response = session[s].response
<1> SUFFICES ASSUME NEW s \in Session, Responding(s), Responding(s)',
                    session[s].n = 1, session'[s].n = 1
             PROVE  session'[s].response = session[s].response
  OBVIOUS
<1>0. /\ session \in [Session -> SessionRecord] /\ MaxRequests \in Nat
      /\ session[s].pc \in {"writeHeader", "writeBody", "read", "poll"}
  BY SessionTyped, BoundsAssumption DEF Responding
<1>1. <<s, 1>> \notin waiting
  BY <1>0 DEF IInv, FirstEntry
<1>2. ASSUME NEW t \in Session, Handler(t)
      PROVE  session'[s].response = session[s].response
  <2>1. CASE t # s
    <3>1. CASE EnterWaiting(t) \/ ArmWriteTimer(t) \/ CompleteRequest(t) \/ write_response(t)
      BY <1>0, <2>1, <3>1
         DEF EnterWaiting, ArmWriteTimer, CompleteRequest, write_response, Goto
    <3>2. CASE MakeTimeout(t) \/ FillError(t) \/ EraseWaiting(t) \/ MakeBadGateway(t)
      BY <1>0, <2>1, <3>2
         DEF MakeTimeout, FillError, EraseWaiting, MakeBadGateway, MakeError, Goto
    <3>3. CASE UseResponse(t) \/ write_response_header(t) \/ ReadResponse(t) \/ EndResponse(t)
      BY <1>0, <2>1, <3>3
         DEF UseResponse, write_response_header, ReadResponse, EndResponse, Goto
    <3>. QED
      BY <1>2, <3>1, <3>2, <3>3 DEF Handler
  <2>2. CASE t = s
    <3>1. ReadResponse(s) \/ EndResponse(s)
      BY <1>0, <1>2, <2>2 DEF Handler, EnterWaiting, ArmWriteTimer, CompleteRequest,
         write_response, MakeTimeout, FillError, AfterFill, EraseWaiting, MakeBadGateway,
         UseResponse, write_response_header
    <3>2. CASE ReadResponse(s)
      BY <1>0, <3>2 DEF ReadResponse, Goto
    <3>3. CASE EndResponse(s)
      <4>1. \/ session'[s] = Started(session[s])
            \/ session'[s] = [session[s] EXCEPT !.pc = "gone"]
        BY <1>0, <3>3 DEF EndResponse, Goto
      <4>2. session'[s].pc \in {"header", "gone"}
        BY <4>1, SessionTyped DEF Started, SessionRecord
      <4>. QED
        BY <4>2 DEF Responding
    <3>. QED
      BY <3>1, <3>2, <3>3
  <2>. QED
    BY <2>1, <2>2
<1>3. ASSUME NEW t \in Session, Client(t)
      PROVE  session'[s].response = session[s].response
  <2>1. CASE t # s
    <3>1. CASE accept_handler(t) \/ ReadRequest(t) \/ RefuseRequest(t)
      BY <1>0, <2>1, <3>1 DEF accept_handler, ReadRequest, RefuseRequest, MakeError
    <3>2. CASE ReadBody(t) \/ BodyThrows(t) \/ ReadFails(t)
      BY <1>0, <2>1, <3>2 DEF ReadBody, BodyThrows, ReadFails
    <3>3. CASE HeaderWritten(t) \/ BodyWritten(t) \/ WriteFails(t)
      BY <1>0, <2>1, <3>3 DEF HeaderWritten, BodyWritten, WriteFails, Goto
    <3>. QED
      BY <1>3, <3>1, <3>2, <3>3 DEF Client
  <2>2. CASE t = s
    <3>1. HeaderWritten(s) \/ BodyWritten(s) \/ WriteFails(s)
      BY <1>0, <1>3, <2>2 DEF Client, accept_handler, ReadRequest, RefuseRequest, ReadBody,
         BodyThrows, ReadFails
    <3>. QED
      <4>1. \/ session'[s] = [session[s] EXCEPT !.pc = "read", !.pos = 0]
            \/ session'[s] = [session[s] EXCEPT !.pc = "read", !.pos = session[s].pos + 1]
            \/ session'[s] = [session[s] EXCEPT !.pc = "gone"]
        BY <1>0, <3>1 DEF HeaderWritten, BodyWritten, WriteFails, Goto
      <4>. QED
        BY <4>1, SessionTyped DEF SessionRecord
  <2>. QED
    BY <2>1, <2>2
<1>4. ASSUME NEW t \in Session, Timer(t)
      PROVE  session'[s].response = session[s].response
  <2>1. CASE t # s
    BY <1>0, <1>4, <2>1
       DEF Timer, ReadTimerExpires, timer_handler, WriteTimerExpires, PollResponse, Goto
  <2>2. CASE t = s
    <3>1. \/ session'[s] = [session[s] EXCEPT !.readTimer = FALSE, !.readDue = TRUE]
          \/ session'[s] = [session[s] EXCEPT !.readDue = FALSE, !.open = FALSE]
          \/ session'[s] = [session[s] EXCEPT !.writeTimer = "due"]
          \/ session'[s] = [session[s] EXCEPT !.pc = "read"]
      BY <1>0, <1>4, <2>2
         DEF Timer, ReadTimerExpires, timer_handler, WriteTimerExpires, PollResponse, Goto
    <3>. QED
      BY <3>1, SessionTyped DEF SessionRecord
  <2>. QED
    BY <2>1, <2>2
<1>5. ASSUME NEW q \in Request, NEW u \in Upstream, fromHttpSinkHandler(q, u)
      PROVE  session'[s].response = session[s].response
  <2>1. CASE q[1] = s
    <3>1. q[2] \in 1 .. MaxRequests /\ q = <<s, q[2]>>
      BY <2>1 DEF Request
    <3>2. request[q].submitted
      <4>1. request[q].answer = u
        BY <1>5 DEF fromHttpSinkHandler, IInv, Answered
      <4>. QED
        BY <4>1, UpstreamAssumption DEF IInv, Answered
    <3>3. ~(q[2] > session[s].n)
      BY <3>1, <3>2 DEF IInv, Future
    <3>4. q = <<s, 1>>
      BY <1>0, <3>1, <3>3
    <3>. QED
      BY <1>1, <1>5, <3>4 DEF fromHttpSinkHandler
  <2>2. CASE q[1] # s
    BY <1>0, <1>5, <2>2 DEF fromHttpSinkHandler
  <2>. QED
    BY <2>1, <2>2
<1>6. CASE Interpreter \/ Finished \/ UNCHANGED vars
  BY <1>6 DEF Interpreter, Settle, Discard, UpstreamGrows, UpstreamCompletes,
     UpstreamAborts, Finished, vars
<1>. QED
  BY <1>2, <1>3, <1>4, <1>5, <1>6 DEF Next

\* On the first request of a connection, header and body are those of one response
\* (write_response leaves the map before it writes).
THEOREM HeadFixed == Spec => HeadFixesResponse
<1>1. IInv /\ [Next]_vars =>
         [\A s \in Session :
             Responding(s) /\ Responding(s)' /\ session[s].n = 1 /\ session'[s].n = 1
                => session'[s].response = session[s].response]_vars
  BY FirstKept
<1>. QED
  BY Invariance, <1>1, PTL DEF Spec, HeadFixesResponse
---------------------------------------------------------------------------
(***************************************************************************)
(* The composition with HttpNdnInterpreter.  A step of the gateway is a    *)
(* step of each part, or leaves it as it is; both directions rest on what  *)
(* the parts know of each other, the invariant Joint.                      *)
(***************************************************************************)
IP == INSTANCE HttpNdnInterpreter_proofs
    WITH request <- [q \in Request |-> Seen(q)], response <- retrieved, Fetch <- Upstream

\* A request is new to the interpreter until the server submits it, and the server
\* does not submit a request that its timer has aborted.
Submissions ==
    /\ \A q \in Request : task[q] = "new" <=> ~request[q].submitted
    /\ \A s \in Session : session[s].pc = "header" /\ session[s].open =>
                             ~request[Current(s)].aborted
    /\ \A s \in Session : \A m \in 1 .. MaxRequests :
          m > session[s].n => ~request[<<s, m>>].aborted

\* What the interpreter found of a request when it took it up stays true.
Findings ==
    \A q \in Request :
       /\ task[q] \in {"running", "pending"} => Nameable(q)
       /\ task[q] = "discarded" => request[q].aborted

\* A request is settled when it is discarded, or taken out of the entry it waits in.
SettledOnce ==
    \A q \in Request :
       request[q].settled =>
          task[q] \in {"discarded", "pending"} /\ \A k \in DOMAIN pending : q \notin pending[k]

\* A response is made when its fetch is collected, for requests of the fetch's digest.
Answers ==
    /\ \A u \in Upstream : response[u].made => fetch[u].phase = "collected"
    /\ \A q \in Request :
          LET u == request[q].answer IN
          u # None => fetch[u].phase = "collected" /\ fetch[u].key = Sha1[q]

Joint == Submissions /\ Findings /\ SettledOnce /\ Answers

GatewayInv ==
    /\ IInv /\ Joint
    /\ IP!IInv /\ IP!HeaderInv /\ IP!EntriesUsed

\* The module that IP proves about is the one of the gateway.
LEMMA SameModule ==
    /\ Interpreting!Init => IP!Init
    /\ [Interpreting!Next]_(Interpreting!vars) => [IP!Next]_(IP!vars)
<1>1. Interpreting!Init => IP!Init
  BY Zenon DEF Interpreting!Init, IP!Init
<1>2. UNCHANGED Interpreting!vars => UNCHANGED IP!vars
  BY DEF Interpreting!vars, IP!vars
<1>3. Interpreting!Next => IP!Next
  BY Zenon
     DEF Interpreting!Next, IP!Next, Interpreting!vars, IP!vars,
         Interpreting!netVars, IP!netVars, Interpreting!reqVars, IP!reqVars,
         Interpreting!threadVars, IP!threadVars, Interpreting!Server, IP!Server,
         Interpreting!fromHttpSource, IP!fromHttpSource,
         Interpreting!BodyArrives, IP!BodyArrives,
         Interpreting!RequestAborts, IP!RequestAborts,
         Interpreting!Network, IP!Network, Interpreting!Live, IP!Live,
         Interpreting!LivePhases, IP!LivePhases,
         Interpreting!HeaderArrives, IP!HeaderArrives,
         Interpreting!RetrievalCompletes, IP!RetrievalCompletes,
         Interpreting!RetrievalAborts, IP!RetrievalAborts,
         Interpreting!fromNdnSink, IP!fromNdnSink,
         Interpreting!StartTask, IP!StartTask, Interpreting!CanBeNamed, IP!CanBeNamed,
         Interpreting!DiscardAborted, IP!DiscardAborted,
         Interpreting!WaitForBody, IP!WaitForBody,
         Interpreting!NameRequest, IP!NameRequest,
         Interpreting!StartHeader, IP!StartHeader,
         Interpreting!ContinueTask, IP!ContinueTask,
         Interpreting!Known, IP!Known, Interpreting!Inserted, IP!Inserted,
         Interpreting!OpenEntry, IP!OpenEntry, Interpreting!JoinEntry, IP!JoinEntry,
         Interpreting!fromNdnSource, IP!fromNdnSource,
         Interpreting!CheckFlags, IP!CheckFlags, Interpreting!ReadData, IP!ReadData,
         Interpreting!ParseHeader, IP!ParseHeader,
         Interpreting!RetryHeader, IP!RetryHeader,
         Interpreting!SeenComplete, IP!SeenComplete,
         Interpreting!GiveUpOnHeader, IP!GiveUpOnHeader,
         Interpreting!Collect, IP!Collect, Interpreting!WaitingAt, IP!WaitingAt,
         Interpreting!Erased, IP!Erased,
         Interpreting!CollectWaiting, IP!CollectWaiting,
         Interpreting!CollectThrows, IP!CollectThrows,
         Interpreting!fromHttpSink, IP!fromHttpSink,
         Interpreting!EndDelivery, IP!EndDelivery,
         Interpreting!AllServed, IP!AllServed
<1>. QED
  BY <1>1, <1>2, <1>3

---------------------------------------------------------------------------
(***************************************************************************)
(* What a step of a session does to the requests and to the responses.     *)
(***************************************************************************)
\* It changes its current request only, and takes nothing back.
LEMMA RequestsGrow ==
    ASSUME IInv, NEW s \in Session, Handler(s) \/ Client(s) \/ Timer(s), NEW q \in Request
    PROVE  /\ q # Current(s) => request'[q] = request[q]
           /\ request'[q].settled = request[q].settled
           /\ request'[q].answer = request[q].answer
           /\ request[q].submitted => request'[q].submitted
           /\ request[q].aborted => request'[q].aborted
           /\ Nameable(q) => Nameable(q)'
           /\ ~request[q].submitted /\ request'[q].submitted =>
                 /\ q = Current(s) /\ session[s].pc = "header" /\ session[s].open
                 /\ request'[q].aborted = request[q].aborted
           /\ ~request[q].aborted /\ request'[q].aborted =>
                 timer_handler(s) \/ session'[s].pc = "gone"
<1>0. /\ request \in [Request -> RequestRecord] /\ request[q] \in RequestRecord
  BY DEF IInv, TypeOK, RequestRecord
<1> DEFINE Flagged ==
       \/ /\ request' = [request EXCEPT ![Current(s)].aborted = TRUE]
          /\ timer_handler(s) \/ session'[s].pc = "gone"
       \/ request' = [request EXCEPT ![Current(s)].completed = TRUE]
       \/ request' = request
<1>1. CASE ReadRequest(s)
  <2>1. PICK long \in BOOLEAN :
           request' = [request EXCEPT ![Current(s)].submitted = TRUE, ![Current(s)].long = long]
    BY <1>1 DEF ReadRequest
  <2>2. session[s].pc = "header" /\ session[s].open /\ ~request[Current(s)].submitted
    BY <1>1 DEF ReadRequest, IInv, Unfinished
  <2>3. CASE q = Current(s)
    <3>1. request'[q] = [request[q] EXCEPT !.submitted = TRUE, !.long = long]
      BY <1>0, <2>1, <2>3
    <3>. QED
      BY <1>0, <2>2, <2>3, <3>1 DEF RequestRecord, Nameable
  <2>4. CASE q # Current(s)
    BY <1>0, <2>1, <2>4 DEF Nameable
  <2>. QED
    BY <2>3, <2>4
<1>2. CASE ReadBody(s)
  <2>1. PICK long \in {request[Current(s)].long, TRUE} :
           request' = [request EXCEPT ![Current(s)].long = long]
    BY <1>2 DEF ReadBody
  <2>3. CASE q = Current(s)
    <3>1. request'[q] = [request[q] EXCEPT !.long = long]
      BY <1>0, <2>1, <2>3
    <3>. QED
      BY <1>0, <2>1, <2>3, <3>1 DEF RequestRecord, Nameable
  <2>4. CASE q # Current(s)
    BY <1>0, <2>1, <2>4 DEF Nameable
  <2>. QED
    BY <2>3, <2>4
<1>3. CASE Flagged
  <2>3. CASE q = Current(s)
    <3>1. \/ /\ request'[q] = [request[q] EXCEPT !.aborted = TRUE]
             /\ timer_handler(s) \/ session'[s].pc = "gone"
          \/ request'[q] = [request[q] EXCEPT !.completed = TRUE]
          \/ request'[q] = request[q]
      BY <1>0, <1>3, <2>3
    <3>. QED
      BY <1>0, <2>3, <3>1 DEF RequestRecord, Nameable
  <2>4. CASE q # Current(s)
    <3>1. request'[q] = request[q]
      BY <1>0, <1>3, <2>4
    <3>. QED
      BY <3>1, <2>4 DEF Nameable
  <2>. QED
    BY <2>3, <2>4
<1>4. Handler(s) => Flagged
  BY DEF Handler, EnterWaiting, ArmWriteTimer, CompleteRequest, write_response, MakeTimeout,
     FillError, EraseWaiting, MakeBadGateway, UseResponse, write_response_header,
     ReadResponse, EndResponse
<1>5. Client(s) => ReadRequest(s) \/ ReadBody(s) \/ Flagged
  <2>1. ReadFails(s) => Flagged
    <3>1. ReadFails(s) => session'[s].pc = "gone"
      BY SessionTyped DEF ReadFails, SessionRecord
    <3>. QED
      BY <3>1 DEF ReadFails
  <2>. QED
    BY <2>1 DEF Client, accept_handler, RefuseRequest, BodyThrows, HeaderWritten, BodyWritten,
       WriteFails
<1>6. Timer(s) => Flagged
  BY DEF Timer, ReadTimerExpires, timer_handler, WriteTimerExpires, PollResponse
<1>. QED
  BY <1>1, <1>2, <1>3, <1>4, <1>5, <1>6

\* It makes no response of a fetch.
LEMMA UpstreamUnmade ==
    ASSUME IInv, NEW s \in Session, Handler(s) \/ Client(s) \/ Timer(s), NEW u \in Upstream
    PROVE  response'[u].made = response[u].made
<1>0. /\ response \in [Response -> ResponseRecord] /\ u \in Response
      /\ response[u] \in ResponseRecord /\ u \notin Request
  BY ResponsesTyped, UpstreamAssumption DEF Response
<1> DEFINE o == session[s].response
           q == Current(s)
           Filled(st) ==
              response' = [response EXCEPT ![o].parsed = TRUE, ![o].keepAlive = FALSE,
                                           ![o].stream = st]
<1>1. CASE response' = response
  BY <1>1
<1>2. CASE response' = [response EXCEPT ![o].stream.aborted = TRUE]
  <2>1. CASE u = o
    <3>1. response'[u] = [response[u] EXCEPT !.stream.aborted = TRUE]
      BY <1>0, <1>2, <2>1
    <3>. QED
      BY <1>0, <3>1 DEF ResponseRecord
  <2>2. CASE u # o
    BY <1>0, <1>2, <2>2
  <2>. QED
    BY <2>1, <2>2
<1>3. ASSUME NEW r, q \in Request, response' = [response EXCEPT ![q] = r]
      PROVE  response'[u].made = response[u].made
  BY <1>0, <1>3
<1>4. ASSUME NEW st, Filled(st)
      PROVE  response'[u].made = response[u].made
  <2>1. CASE u = o
    <3>1. response'[u] = [response[u] EXCEPT !.parsed = TRUE, !.keepAlive = FALSE, !.stream = st]
      BY <1>0, <1>4, <2>1
    <3>. QED
      BY <1>0, <3>1 DEF ResponseRecord
  <2>2. CASE u # o
    BY <1>0, <1>4, <2>2
  <2>. QED
    BY <2>1, <2>2
<1>5. CASE FillError(s)
  BY <1>4, <1>5 DEF FillError
<1>6. CASE MakeTimeout(s) \/ RefuseRequest(s) \/ MakeBadGateway(s)
  <2>1. q \in Request
    BY <1>6, CurrentIsRequest DEF MakeTimeout, RefuseRequest, MakeBadGateway
  <2>2. response' = [response EXCEPT ![q].made = TRUE]
    BY <1>6 DEF MakeTimeout, RefuseRequest, MakeBadGateway, MakeError
  <2>. QED
    BY <1>3, <2>1, <2>2
<1>7. Handler(s) =>
         \/ FillError(s) \/ MakeTimeout(s) \/ MakeBadGateway(s) \/ response' = response
  BY DEF Handler, EnterWaiting, ArmWriteTimer, CompleteRequest, write_response, EraseWaiting,
     UseResponse, write_response_header, ReadResponse, EndResponse
<1>8. Client(s) =>
         \/ RefuseRequest(s) \/ response' = [response EXCEPT ![o].stream.aborted = TRUE]
         \/ response' = response
  BY DEF Client, accept_handler, ReadRequest, ReadBody, BodyThrows, ReadFails, HeaderWritten,
     BodyWritten, WriteFails, AbortResponse
<1>9. Timer(s) =>
         \/ response' = [response EXCEPT ![o].stream.aborted = TRUE] \/ response' = response
  BY DEF Timer, ReadTimerExpires, timer_handler, WriteTimerExpires, PollResponse, AbortResponse
<1>. QED
  BY <1>1, <1>2, <1>5, <1>6, <1>7, <1>8, <1>9

\* A session starts with the next request, or stays with its own; its socket is not
\* opened again.
LEMMA NextRequest ==
    ASSUME IInv, NEW s \in Session, Handler(s) \/ Client(s) \/ Timer(s), NEW t \in Session
    PROVE  /\ t = s /\ timer_handler(s) => ~session'[t].open
           /\ \/ session'[t] = session[t]
              \/ /\ t = s /\ session'[t].n = session[t].n
                 /\ session'[t].pc = "header" => session[t].pc = "header"
                 /\ session'[t].open => session[t].open
              \/ /\ t = s /\ session'[t].n = session[t].n + 1 /\ request' = request
<1>0. session \in [Session -> SessionRecord] /\ session[s] \in SessionRecord
  BY SessionTyped
<1>1. CASE t # s
  <2>1. session'[t] = session[t]
    <3>1. Handler(s) => session'[t] = session[t]
      BY <1>0, <1>1 DEF Handler, EnterWaiting, ArmWriteTimer, CompleteRequest, write_response,
         MakeTimeout, FillError, EraseWaiting, MakeBadGateway, MakeError, UseResponse,
         write_response_header, ReadResponse, EndResponse, Goto
    <3>2. Client(s) => session'[t] = session[t]
      BY <1>0, <1>1 DEF Client, accept_handler, ReadRequest, RefuseRequest, MakeError, ReadBody,
         BodyThrows, ReadFails, HeaderWritten, BodyWritten, WriteFails, Goto
    <3>3. Timer(s) => session'[t] = session[t]
      BY <1>0, <1>1 DEF Timer, ReadTimerExpires, timer_handler, WriteTimerExpires, PollResponse,
         Goto
    <3>. QED
      BY <3>1, <3>2, <3>3
  <2>. QED
    BY <1>1, <2>1
<1>2. CASE t = s
  <2>1. ASSUME NEW r, session' = [session EXCEPT ![s] = r]
        PROVE  session'[s] = r
    BY <1>0, <2>1
  <2> DEFINE Same ==
         /\ session'[s].n = session[s].n
         /\ session'[s].pc = "header" => session[s].pc = "header"
         /\ session'[s].open => session[s].open
      Onward == session'[s].n = session[s].n + 1 /\ request' = request
  <2>2. ASSUME accept_handler(s) \/ EndResponse(s) PROVE Same \/ Onward
    <3>1. \/ session'[s] = Started(session[s])
          \/ session'[s] = [session[s] EXCEPT !.pc = "gone"]
      BY <1>0, <2>2 DEF accept_handler, EndResponse, Goto
    <3>. QED
      BY <1>0, <2>2, <3>1 DEF Started, SessionRecord, accept_handler, EndResponse
  <2>3. ASSUME timer_handler(s)
        PROVE  Same /\ ~session'[s].open
    <3>1. session'[s] = [session[s] EXCEPT !.readDue = FALSE, !.open = FALSE]
      BY <1>0, <2>3 DEF timer_handler
    <3>. QED
      BY <1>0, <3>1 DEF SessionRecord
  <2>4. ASSUME Handler(s) PROVE EndResponse(s) \/ Same
    <3>1. CASE EnterWaiting(s) \/ ArmWriteTimer(s) \/ CompleteRequest(s) \/ write_response(s)
      BY <1>0, <3>1 DEF EnterWaiting, ArmWriteTimer, CompleteRequest, write_response, Goto,
         SessionRecord
    <3>2. CASE MakeTimeout(s) \/ FillError(s) \/ EraseWaiting(s) \/ MakeBadGateway(s)
      BY <1>0, <3>2 DEF MakeTimeout, FillError, AfterFill, EraseWaiting, MakeBadGateway,
         MakeError, Goto, SessionRecord
    <3>3. CASE UseResponse(s) \/ write_response_header(s) \/ ReadResponse(s)
      BY <1>0, <3>3 DEF UseResponse, write_response_header, ReadResponse, Goto, SessionRecord
    <3>. QED
      BY <2>4, <3>1, <3>2, <3>3 DEF Handler
  <2>5. ASSUME Client(s) PROVE accept_handler(s) \/ Same
    <3>1. CASE ReadRequest(s) \/ RefuseRequest(s) \/ ReadBody(s) \/ BodyThrows(s) \/ ReadFails(s)
      BY <1>0, <3>1 DEF ReadRequest, RefuseRequest, MakeError, ReadBody, BodyThrows, ReadFails,
         SessionRecord
    <3>2. CASE HeaderWritten(s) \/ BodyWritten(s) \/ WriteFails(s)
      BY <1>0, <3>2 DEF HeaderWritten, BodyWritten, WriteFails, Goto, SessionRecord
    <3>. QED
      BY <2>5, <3>1, <3>2 DEF Client
  <2>6. ASSUME Timer(s) PROVE timer_handler(s) \/ Same
    BY <1>0, <2>6 DEF Timer, ReadTimerExpires, WriteTimerExpires, PollResponse, Goto,
       SessionRecord
  <2>. QED
    BY <1>2, <2>2, <2>3, <2>4, <2>5, <2>6
<1>. QED
  BY <1>1, <1>2

---------------------------------------------------------------------------
(***************************************************************************)
(* A step of a session, as the interpreter sees it: at most one request    *)
(* is new, or seen to have its name, or to be aborted.                     *)
(***************************************************************************)
LEMMA SessionRefines ==
    ASSUME GatewayInv, ~terminated, NEW s \in Session, SessionStep(s)
    PROVE  [Interpreting!Next]_(Interpreting!vars)
<1> DEFINE seen == [p \in Request |-> Seen(p)]
<1>0. PICK q : q = Current(s)
  OBVIOUS
<1>1. task \in [Request -> {"new", "queued", "running", "discarded", "pending"}]
  BY DEF GatewayInv, IP!IInv, IP!TypeOK
<1>2. IInv /\ (Handler(s) \/ Client(s) \/ Timer(s))
  BY DEF GatewayInv, SessionStep
<1>3. /\ task' = [p \in Request |->
                     IF task[p] = "new" /\ request'[p].submitted THEN "queued" ELSE task[p]]
      /\ UNCHANGED <<pending, fetch, retrieved, retrieving,
                     pc, job, complete, raw_data, set, delivered, terminated>>
  BY DEF SessionStep
<1>4. \A p \in Request : task[p] = "new" <=> ~request[p].submitted
  BY DEF GatewayInv, Joint, Submissions
<1>5. \A p \in Request : p # q => task'[p] = task[p] /\ Seen(p)' = Seen(p)
  <2> SUFFICES ASSUME NEW p \in Request, p # q
               PROVE  task'[p] = task[p] /\ Seen(p)' = Seen(p)
    OBVIOUS
  <2>1. request'[p] = request[p]
    BY <1>0, <1>2, RequestsGrow
  <2>2. task'[p] = task[p]
    BY <1>3, <1>4, <2>1
  <2>. QED
    BY <2>1, <2>2 DEF Seen, Nameable
<1>6. CASE q \notin Request
  <2>1. task' = task /\ seen' = seen
    BY <1>1, <1>3, <1>5, <1>6
  <2>. QED
    BY <1>3, <2>1 DEF Interpreting!vars
<1>7. CASE q \in Request
  <2>1. /\ request[q].aborted => request'[q].aborted
        /\ Nameable(q) => Nameable(q)'
        /\ ~request[q].submitted /\ request'[q].submitted => ~request'[q].aborted
    BY <1>0, <1>2, <1>7, RequestsGrow DEF GatewayInv, Joint, Submissions
  <2>2. seen' = [seen EXCEPT ![q] = Seen(q)']
    BY <1>5, <1>7
  <2>3. CASE task[q] = "new" /\ request'[q].submitted
    <3>1. task' = [task EXCEPT ![q] = "queued"]
      BY <1>1, <1>3, <1>5, <1>7, <2>3
    <3>2. Seen(q) = "short" /\ seen[q] = "short"
      BY <1>7, <2>3 DEF Seen
    <3>3. Seen(q)' \in {"short", "nameable"}
      BY <1>1, <1>4, <1>7, <2>1, <2>3, <3>1 DEF Seen
    <3>4. seen' \in {seen, [seen EXCEPT ![q] = "nameable"]}
      BY <1>7, <2>2, <3>2, <3>3
    <3>5. Interpreting!fromHttpSource(q)
      BY <1>3, <2>3, <3>1, <3>4
         DEF Interpreting!fromHttpSource, Interpreting!netVars, Interpreting!threadVars
    <3>. QED
      BY <1>7, <3>5 DEF Interpreting!Next, Interpreting!Server
  <2>4. CASE ~(task[q] = "new" /\ request'[q].submitted)
    <3>1. task' = task
      BY <1>1, <1>3, <1>5, <1>7, <2>4
    <3>2. CASE task[q] # "queued"
      <4>1. Seen(q)' = Seen(q)
        BY <1>1, <1>7, <2>1, <3>1, <3>2 DEF Seen, GatewayInv, Joint, Findings
      <4>2. seen' = seen
        BY <2>2, <4>1
      <4>. QED
        BY <1>3, <3>1, <4>2 DEF Interpreting!vars
    <3>3. CASE task[q] = "queued"
      <4>1. /\ Seen(q) = IF request[q].aborted THEN "aborted"
                         ELSE IF Nameable(q) THEN "nameable" ELSE "short"
            /\ Seen(q)' = IF request'[q].aborted THEN "aborted"
                          ELSE IF Nameable(q)' THEN "nameable" ELSE "short"
        BY <3>1, <3>3 DEF Seen
      <4>2. CASE Seen(q)' = Seen(q)
        <5>1. seen' = seen
          BY <2>2, <4>2
        <5>. QED
          BY <1>3, <3>1, <5>1 DEF Interpreting!vars
      <4>3. CASE Seen(q)' # Seen(q) /\ request'[q].aborted
        <5>1. Interpreting!RequestAborts(q)
          BY <1>3, <1>7, <2>2, <3>1, <3>3, <4>1, <4>3
             DEF Interpreting!RequestAborts, Interpreting!netVars, Interpreting!threadVars
        <5>. QED
          BY <1>7, <5>1 DEF Interpreting!Next, Interpreting!Server
      <4>4. CASE Seen(q)' # Seen(q) /\ ~request'[q].aborted
        <5>1. Seen(q) = "short" /\ Seen(q)' = "nameable"
          BY <2>1, <4>1, <4>4
        <5>2. Interpreting!BodyArrives(q)
          BY <1>3, <1>7, <2>2, <3>1, <3>3, <5>1
             DEF Interpreting!BodyArrives, Interpreting!netVars, Interpreting!threadVars
        <5>. QED
          BY <1>7, <5>2 DEF Interpreting!Next, Interpreting!Server
      <4>. QED
        BY <4>2, <4>3, <4>4
    <3>. QED
      BY <3>2, <3>3
  <2>. QED
    BY <2>3, <2>4
<1>. QED
  BY <1>6, <1>7

\* The two parts go on agreeing about the requests.
LEMMA SessionJoint ==
    ASSUME GatewayInv, ~Uncaught, NEW s \in Session, SessionStep(s)
    PROVE  Joint'
<1>1. task \in [Request -> {"new", "queued", "running", "discarded", "pending"}]
  BY DEF GatewayInv, IP!IInv, IP!TypeOK
<1>2. IInv /\ (Handler(s) \/ Client(s) \/ Timer(s))
  BY DEF GatewayInv, SessionStep
<1>3. /\ task' = [p \in Request |->
                     IF task[p] = "new" /\ request'[p].submitted THEN "queued" ELSE task[p]]
      /\ UNCHANGED <<pending, fetch>>
  BY DEF SessionStep
<1>4. Joint
  BY DEF GatewayInv
<1>5. \A q \in Request : task[q] # "new" => task'[q] = task[q]
  BY <1>3
<1>6. Submissions'
  <2>1. \A q \in Request : task'[q] = "new" <=> ~request'[q].submitted
    BY <1>2, <1>3, <1>4, RequestsGrow DEF Joint, Submissions
  <2>2. ASSUME NEW t \in Session, session'[t].pc = "header", session'[t].open
        PROVE  ~request'[Current(t)'].aborted
    <3>1. session[t].n \in 0 .. MaxRequests /\ session[t].n + 1 \in Nat
      BY <1>2, SessionTyped DEF SessionRecord
    <3>2. session'[t] \in SessionRecord /\ session'[t].n >= 1
      <4>1. IInv'
        BY <1>2, NextIInv DEF Next
      <4>. QED
        BY <2>2, <4>1 DEF IInv, TypeOK, SessionRecord, Numbered
    <3>3. session'[t].n \in 1 .. MaxRequests
      BY <3>2 DEF SessionRecord
    <3>4. <<t, session'[t].n>> \in Request /\ Current(t)' = <<t, session'[t].n>>
      BY <3>3 DEF Request, Current
    <3>5. CASE t # s
      <4>1. session'[t] = session[t] /\ Current(t)' = Current(t) /\ Current(t) # Current(s)
        BY <1>2, <3>5, NextRequest DEF Current
      <4>2. request'[Current(t)'] = request[Current(t)]
        BY <1>2, <3>4, <4>1, RequestsGrow
      <4>. QED
        BY <1>4, <2>2, <4>1, <4>2 DEF Joint, Submissions
    <3>6. CASE t = s /\ session'[t].n = session[t].n + 1 /\ request' = request
      BY <1>4, <3>1, <3>3, <3>4, <3>6 DEF Joint, Submissions
    <3>7. CASE t = s /\ session'[t].n = session[t].n
                /\ session[t].pc = "header" /\ session[t].open
      <4>1. ~timer_handler(s) /\ session'[s].pc # "gone"
        BY <1>2, <2>2, <3>7, NextRequest
      <4>2. Current(t)' = Current(t)
        BY <3>7 DEF Current
      <4>. QED
        BY <1>2, <1>4, <3>4, <3>7, <4>1, <4>2, RequestsGrow DEF Joint, Submissions
    <3>. QED
      BY <1>2, <2>2, <3>5, <3>6, <3>7, NextRequest
  <2>3. ASSUME NEW t \in Session, NEW m \in 1 .. MaxRequests, m > session'[t].n
        PROVE  ~request'[<<t, m>>].aborted
    <3>1. session[t].n \in 0 .. MaxRequests
      BY <1>2, SessionTyped DEF SessionRecord
    <3>2. m > session[t].n
      BY <1>2, <2>3, <3>1, NextRequest
    <3>3. <<t, m>> \in Request /\ <<t, m>> # Current(s)
      BY <3>1, <3>2 DEF Request, Current
    <3>. QED
      BY <1>2, <1>4, <3>2, <3>3, RequestsGrow DEF Joint, Submissions
  <2>. QED
    BY <2>1, <2>2, <2>3 DEF Submissions
<1>7. Findings'
  BY <1>1, <1>2, <1>3, <1>4, RequestsGrow DEF Joint, Findings
<1>8. SettledOnce'
  <2>1. \A q \in Request : request'[q].settled = request[q].settled
    BY <1>2, RequestsGrow
  <2>. QED
    BY <1>3, <1>4, <1>5, <2>1 DEF Joint, SettledOnce
<1>9. Answers'
  <2>1. \A q \in Request : request'[q].answer = request[q].answer
    BY <1>2, RequestsGrow
  <2>2. \A u \in Upstream : response'[u].made = response[u].made
    BY <1>2, UpstreamUnmade
  <2>. QED
    BY <1>3, <1>4, <2>1, <2>2 DEF Joint, Answers
<1>. QED
  BY <1>6, <1>7, <1>8, <1>9 DEF Joint

---------------------------------------------------------------------------
(***************************************************************************)
(* The handing over is what HttpServer assumes of its interpreter.         *)
(***************************************************************************)
\* What the requests of an entry, and the fetch of a thread that takes them out, are.
LEMMA HandOverFinds ==
    ASSUME GatewayInv, NEW t \in Thread, HandOver(t)
    PROVE  LET u == job[t]
               Q == pending[fetch[u].key] IN
           /\ u \in Upstream /\ fetch[u].phase = "running" /\ fetch[u].key \in DOMAIN pending
           /\ ~response[u].made
           /\ Q # {} /\ Q \subseteq Request
           /\ \A q \in Q : /\ Nameable(q) /\ ~request[q].settled /\ task[q] = "pending"
                           /\ fetch[u].key = Sha1[q]
           /\ retrieved[u].parsed \/ retrieved[u].completed \/ retrieved[u].aborted
<1> DEFINE u == job[t]
           Q == pending[fetch[u].key]
<1>1. pc[t] = "collect" /\ fetch[u].key \in DOMAIN pending
  BY DEF HandOver
<1>2. u \in Upstream /\ fetch[u].phase = "running"
  BY <1>1 DEF GatewayInv, IP!IInv, IP!ThreadOwnsJob, IP!HeaderPcs
<1>3. ~response[u].made
  BY <1>2 DEF GatewayInv, Joint, Answers
<1>4. Q # {} /\ Q \subseteq Request
  BY <1>1 DEF GatewayInv, IP!EntriesUsed, IP!IInv, IP!TypeOK
<1>5. \A q \in Q : task[q] = "pending" /\ fetch[u].key = Sha1[q]
  BY <1>1, <1>4 DEF GatewayInv, IP!IInv, IP!EachRequestOnce, IP!OnlyOnce, IP!InEntry
<1>6. \A q \in Q : Nameable(q) /\ ~request[q].settled
  BY <1>1, <1>4, <1>5 DEF GatewayInv, Joint, Findings, SettledOnce
<1>7. retrieved[u].parsed \/ retrieved[u].completed \/ retrieved[u].aborted
  BY <1>1 DEF GatewayInv, IP!HeaderInv, IP!Settled
<1>. QED
  BY <1>1, <1>2, <1>3, <1>4, <1>5, <1>6, <1>7

LEMMA HandOverSettles ==
    ASSUME GatewayInv, NEW t \in Thread, HandOver(t)
    PROVE  Settle(job[t], pending[fetch[job[t]].key])
<1> DEFINE u == job[t]
<1>1. retrieved[u] \in [header : {"absent", "good", "bad"}, parsed : BOOLEAN,
                        completed : BOOLEAN, aborted : BOOLEAN]
  BY HandOverFinds DEF GatewayInv, IP!IInv, IP!TypeOK, IP!ResponseRecord, IP!Header
<1>2. /\ \E o \in Retrieved(u, retrieved[u].parsed, retrieved[u].completed, retrieved[u].aborted) :
            response' = [response EXCEPT ![u] = o]
      /\ request' = Settled(pending[fetch[u].key], u)
      /\ posted' = posted \cup (pending[fetch[u].key] \X {u})
      /\ UNCHANGED <<session, waiting, heads, dropped>>
  BY DEF HandOver, Interpreting!WaitingAt
<1>3. \E parsed, completed, aborted \in BOOLEAN :
         /\ parsed \/ completed \/ aborted
         /\ \E o \in Retrieved(u, parsed, completed, aborted) :
               response' = [response EXCEPT ![u] = o]
  BY <1>1, <1>2, HandOverFinds
<1>. QED
  BY <1>2, <1>3, HandOverFinds DEF Settle

\* A request is discarded once, aborted by the server it came from.
LEMMA DiscardingDiscards ==
    ASSUME GatewayInv, NEW t \in Thread, NEW q \in Request, Discarding(t, q)
    PROVE  /\ Discard(q) /\ task[q] = "queued"
           /\ \A k \in DOMAIN pending : q \notin pending[k]
<1>1. task[q] = "queued" /\ Seen(q) = "aborted"
  BY DEF Discarding, Interpreting!DiscardAborted
<1>2. request[q].aborted
  BY <1>1 DEF Seen
<1>3. request[q].submitted /\ ~request[q].settled
  BY <1>1 DEF GatewayInv, Joint, Submissions, SettledOnce
<1>4. \A k \in DOMAIN pending : q \notin pending[k]
  BY <1>1 DEF GatewayInv, IP!IInv, IP!EachRequestOnce, IP!OnlyOnce, IP!InEntry
<1>. QED
  BY <1>1, <1>2, <1>3, <1>4 DEF Discarding, Discard

---------------------------------------------------------------------------
(***************************************************************************)
(* Every step of the gateway is a step of each part, or leaves it alone.   *)
(***************************************************************************)
LEMMA ServerRefines ==
    ASSUME GatewayInv, [GatewayNext]_gatewayVars
    PROVE  [Next]_vars
<1>1. ASSUME ~Uncaught, NEW s \in Session, SessionStep(s) PROVE Next
  BY <1>1 DEF SessionStep, Next
<1>2. ASSUME ~Uncaught, NEW q \in Request, NEW u \in Upstream, Answering(q, u) PROVE Next
  BY <1>2 DEF Answering, Next
<1>3. ASSUME ~Uncaught, NEW u \in Upstream, Streaming(u) \/ NdnStep(u) PROVE [Next]_vars
  BY <1>3 DEF Streaming, NdnStep, Next, Interpreter
<1>4. ASSUME ~Uncaught, NEW t \in Thread, ThreadStep(t) PROVE [Next]_vars
  <2>1. ASSUME NEW q \in Request, Discarding(t, q) PROVE Next
    BY <1>4, <2>1, DiscardingDiscards DEF Next, Interpreter
  <2>2. CASE Naming(t) \/ Working(t)
    BY <2>2 DEF Naming, Working
  <2>3. CASE HandOver(t)
    <3>1. job[t] \in Upstream /\ pending[fetch[job[t]].key] \in SUBSET Request
      BY <2>3, HandOverFinds
    <3>2. Settle(job[t], pending[fetch[job[t]].key])
      BY <2>3, HandOverSettles
    <3>. QED
      BY <1>4, <3>1, <3>2 DEF Next, Interpreter
  <2>. QED
    BY <1>4, <2>1, <2>2, <2>3 DEF ThreadStep
<1>5. Finished => Next
  BY DEF Next
<1>6. UNCHANGED gatewayVars => UNCHANGED vars
  BY DEF gatewayVars
<1>. QED
  BY <1>1, <1>2, <1>3, <1>4, <1>5, <1>6 DEF GatewayNext

LEMMA InterpreterRefines ==
    ASSUME GatewayInv, [GatewayNext]_gatewayVars
    PROVE  [Interpreting!Next]_(Interpreting!vars)
<1>1. CASE request' = request /\ UNCHANGED interpreterVars
  BY <1>1 DEF interpreterVars, Interpreting!vars, Seen, Nameable
<1>2. ASSUME NEW q \in Request, NEW u \in Upstream, Answering(q, u)
      PROVE  request' = request /\ UNCHANGED interpreterVars
  BY <1>2 DEF Answering, fromHttpSinkHandler
<1>3. ASSUME NEW u \in Upstream, Streaming(u)
      PROVE  request' = request /\ UNCHANGED interpreterVars
  BY <1>3 DEF Streaming, UpstreamGrows, UpstreamCompletes, UpstreamAborts
<1>4. ASSUME ~terminated, NEW u \in Upstream, NdnStep(u) PROVE Interpreting!Next
  BY <1>4 DEF NdnStep, Interpreting!Next
<1>5. ASSUME ~terminated, NEW t \in Thread, ThreadStep(t) PROVE Interpreting!Next
  <2>1. CASE \E q \in Request : Discarding(t, q)
    BY <1>5, <2>1 DEF Discarding, Interpreting!Next, Interpreting!StartTask
  <2>2. CASE Naming(t)
    BY <1>5, <2>2 DEF Naming, Interpreting!Next, Interpreting!StartTask, Interpreting!ContinueTask
  <2>3. CASE Working(t)
    <3>1. Interpreting!CollectThrows(t) => Interpreting!Collect(t)
      BY DEF Interpreting!CollectThrows, Interpreting!Collect
    <3>. QED
      BY <1>5, <2>3, <3>1
         DEF Working, Interpreting!Next, Interpreting!StartTask, Interpreting!ContinueTask
  <2>4. CASE HandOver(t)
    BY <1>5, <2>4
       DEF HandOver, Interpreting!CollectWaiting, Interpreting!Collect, Interpreting!Next,
           Interpreting!ContinueTask
  <2>. QED
    BY <1>5, <2>1, <2>2, <2>3, <2>4 DEF ThreadStep
<1>6. Finished \/ UNCHANGED gatewayVars => request' = request
  BY DEF Finished, gatewayVars, vars
<1>7. UNCHANGED gatewayVars => UNCHANGED interpreterVars
  BY DEF gatewayVars
<1>. QED
  BY <1>1, <1>2, <1>3, <1>4, <1>5, <1>6, <1>7, SessionRefines DEF GatewayNext

---------------------------------------------------------------------------
(***************************************************************************)
(* The parts go on agreeing in the steps that are not a session's.         *)
(***************************************************************************)
\* A collected fetch is over.
LEMMA FetchOver ==
    ASSUME GatewayInv, [GatewayNext]_gatewayVars, NEW u \in Upstream, fetch[u].phase = "collected"
    PROVE  fetch'[u] = fetch[u]
<1>1. [IP!Next]_(IP!vars)
  BY InterpreterRefines, SameModule
<1>. QED
  BY <1>1, IP!CollectedKept, DigestsAssumption DEF GatewayInv

\* What the parts know of each other outlives a step that changes none of it, except
\* that a request not yet settled may leave one place of the interpreter for another.
LEMMA JointKept ==
    ASSUME GatewayInv, [GatewayNext]_gatewayVars,
           request' = request,
           \A s \in Session : /\ session'[s].n = session[s].n /\ session'[s].pc = session[s].pc
                              /\ session'[s].open = session[s].open,
           \A u \in Upstream : response'[u].made = response[u].made,
           \A q \in Request :
              /\ task'[q] = "new" <=> task[q] = "new"
              /\ task'[q] # task[q] =>
                    /\ task'[q] \in {"running", "pending"} /\ Nameable(q)
                    /\ ~request[q].settled
              /\ request[q].settled => \A k \in DOMAIN pending' : q \notin pending'[k]
    PROVE  Joint'
<1>1. Submissions'
  BY DEF GatewayInv, Joint, Submissions, Current
<1>2. Findings'
  <2>1. \A q \in Request : Nameable(q)' = Nameable(q)
    BY DEF Nameable
  <2>. QED
    BY <2>1 DEF GatewayInv, Joint, Findings
<1>3. SettledOnce'
  BY DEF GatewayInv, Joint, SettledOnce
<1>4. Answers'
  <2>1. \A q \in Request : request[q].answer \in Upstream \cup {None}
    BY DEF GatewayInv, IInv, TypeOK
  <2>. QED
    BY <2>1, FetchOver DEF GatewayInv, Joint, Answers
<1>. QED
  BY <1>1, <1>2, <1>3, <1>4 DEF Joint

LEMMA AnsweringJoint ==
    ASSUME GatewayInv, ~terminated, ~Uncaught,
           NEW q \in Request, NEW u \in Upstream, Answering(q, u)
    PROVE  Joint'
<1>1. [GatewayNext]_gatewayVars
  BY DEF GatewayNext
<1>2. fromHttpSinkHandler(q, u) /\ UNCHANGED <<task, pending>>
  BY DEF Answering, interpreterVars
<1>3. UNCHANGED <<request, response>>
  BY <1>2 DEF fromHttpSinkHandler
<1>4. \A s \in Session : /\ session'[s].n = session[s].n /\ session'[s].pc = session[s].pc
                         /\ session'[s].open = session[s].open
  <2> SUFFICES ASSUME NEW s \in Session
               PROVE  /\ session'[s].n = session[s].n /\ session'[s].pc = session[s].pc
                      /\ session'[s].open = session[s].open
    OBVIOUS
  <2>1. session \in [Session -> SessionRecord] /\ session[s] \in SessionRecord
    BY SessionTyped DEF GatewayInv
  <2>2. \/ session'[s] = session[s]
        \/ \E w \in {"off", "armed", "due"} :
              session'[s] = [session[s] EXCEPT !.response = u, !.writeTimer = w]
    <3>1. session[s].writeTimer \in {"off", "armed", "due"}
      BY <2>1 DEF SessionRecord
    <3>. QED
      BY <1>2, <2>1, <3>1 DEF fromHttpSinkHandler
  <2>. QED
    BY <2>1, <2>2 DEF SessionRecord
<1>. QED
  BY <1>1, <1>2, <1>3, <1>4, JointKept DEF GatewayInv, Joint, SettledOnce

LEMMA StreamingJoint ==
    ASSUME GatewayInv, ~terminated, ~Uncaught, NEW u \in Upstream, Streaming(u)
    PROVE  Joint'
<1>1. [GatewayNext]_gatewayVars
  BY DEF GatewayNext
<1>2. UNCHANGED <<task, pending, session, request>>
  BY DEF Streaming, interpreterVars, UpstreamGrows, UpstreamCompletes, UpstreamAborts
<1>3. \A v \in Upstream : response'[v].made = response[v].made
  <2> SUFFICES ASSUME NEW v \in Upstream PROVE response'[v].made = response[v].made
    OBVIOUS
  <2>1. /\ response \in [Response -> ResponseRecord] /\ u \in Response /\ v \in Response
        /\ response[v] \in ResponseRecord
    BY ResponsesTyped DEF GatewayInv, Response
  <2>2. \/ response'[v] = response[v]
        \/ \E st : response'[v] = [response[v] EXCEPT !.stream = st]
        \/ response'[v] = [response[v] EXCEPT !.stream.completed = TRUE]
        \/ response'[v] = [response[v] EXCEPT !.stream.aborted = TRUE]
    BY <2>1 DEF Streaming, UpstreamGrows, UpstreamCompletes, UpstreamAborts, AbortResponse
  <2>. QED
    BY <2>1, <2>2 DEF ResponseRecord
<1>. QED
  BY <1>1, <1>2, <1>3, JointKept DEF GatewayInv, Joint, SettledOnce

LEMMA DiscardingJoint ==
    ASSUME GatewayInv, ~terminated, ~Uncaught, NEW t \in Thread, NEW q \in Request, Discarding(t, q)
    PROVE  Joint'
<1>1. /\ request \in [Request -> RequestRecord]
      /\ task \in [Request -> {"new", "queued", "running", "discarded", "pending"}]
  BY DEF GatewayInv, IInv, TypeOK, RequestRecord, IP!IInv, IP!TypeOK
<1>2. Discard(q) /\ task[q] = "queued" /\ \A k \in DOMAIN pending : q \notin pending[k]
  BY DiscardingDiscards
<1>3. /\ UNCHANGED <<session, response, pending, fetch>>
      /\ task' = [task EXCEPT ![q] = "discarded"]
  BY DEF Discarding, Interpreting!DiscardAborted
<1>4. \A p \in Request :
         /\ request'[p].submitted = request[p].submitted
         /\ request'[p].aborted = request[p].aborted
         /\ request'[p].answer = request[p].answer
         /\ Nameable(p)' = Nameable(p)
         /\ p # q => request'[p].settled = request[p].settled
  <2> SUFFICES ASSUME NEW p \in Request
               PROVE  /\ request'[p].submitted = request[p].submitted
                      /\ request'[p].aborted = request[p].aborted
                      /\ request'[p].answer = request[p].answer
                      /\ Nameable(p)' = Nameable(p)
                      /\ p # q => request'[p].settled = request[p].settled
    OBVIOUS
  <2>1. request[p] \in RequestRecord
    BY <1>1
  <2>2. request'[p] = IF p = q THEN [request[p] EXCEPT !.settled = TRUE] ELSE request[p]
    BY <1>1, <1>2 DEF Discard
  <2>. QED
    BY <2>1, <2>2 DEF RequestRecord, Nameable
<1>5. Submissions'
  <2>1. \A s \in Session : session[s].pc = "header" => Current(s) \in Request
    BY CurrentIsRequest DEF GatewayInv
  <2>2. \A s \in Session : \A m \in 1 .. MaxRequests : <<s, m>> \in Request
    BY DEF Request
  <2>. QED
    BY <1>1, <1>2, <1>3, <1>4, <2>1, <2>2 DEF GatewayInv, Joint, Submissions, Current
<1>6. Findings'
  BY <1>1, <1>2, <1>3, <1>4 DEF GatewayInv, Joint, Findings, Discard
<1>7. SettledOnce'
  BY <1>1, <1>2, <1>3, <1>4 DEF GatewayInv, Joint, SettledOnce
<1>8. Answers'
  BY <1>3, <1>4 DEF GatewayInv, Joint, Answers
<1>. QED
  BY <1>5, <1>6, <1>7, <1>8 DEF Joint

LEMMA NamingJoint ==
    ASSUME GatewayInv, ~terminated, ~Uncaught, NEW t \in Thread, Naming(t)
    PROVE  Joint'
<1>1. [GatewayNext]_gatewayVars
  BY DEF GatewayNext, ThreadStep
<1>2. /\ task \in [Request -> {"new", "queued", "running", "discarded", "pending"}]
      /\ UNCHANGED <<session, request, response>>
  BY DEF GatewayInv, IP!IInv, IP!TypeOK, Naming, vars
<1>3. ASSUME NEW q \in Request, Interpreting!NameRequest(t, q)
      PROVE  Joint'
  <2>1. /\ task[q] = "queued" /\ task' = [task EXCEPT ![q] = "running"]
        /\ Seen(q) = "nameable" /\ pending' = pending
    BY <1>3 DEF Interpreting!NameRequest, Interpreting!CanBeNamed
  <2>2. Nameable(q) /\ ~request[q].settled
    BY <2>1 DEF Seen, GatewayInv, Joint, SettledOnce
  <2>. QED
    BY <1>1, <1>2, <2>1, <2>2, JointKept DEF GatewayInv, Joint, SettledOnce
<1>4. ASSUME Interpreting!OpenEntry(t) \/ Interpreting!JoinEntry(t)
      PROVE  Joint'
  <2>1. /\ job[t] \in Request /\ task[job[t]] = "running"
        /\ task' = [task EXCEPT ![job[t]] = "pending"]
        /\ \A k \in DOMAIN pending' :
              pending'[k] \subseteq (IF k \in DOMAIN pending THEN pending[k] ELSE {}) \cup {job[t]}
    <3>1. pc[t] = "lookup" /\ task' = [task EXCEPT ![job[t]] = "pending"]
      BY <1>4 DEF Interpreting!OpenEntry, Interpreting!JoinEntry
    <3>2. job[t] \in Request /\ task[job[t]] = "running"
      BY <3>1 DEF GatewayInv, IP!IInv, IP!ThreadOwnsJob
    <3>3. \/ pending' = [x \in DOMAIN pending \cup {Sha1[job[t]]} |->
                            IF x = Sha1[job[t]] THEN {job[t]} ELSE pending[x]]
          \/ /\ Sha1[job[t]] \in DOMAIN pending
             /\ pending' = [pending EXCEPT ![Sha1[job[t]]] = @ \cup {job[t]}]
      BY <1>4 DEF Interpreting!OpenEntry, Interpreting!JoinEntry, Interpreting!Inserted,
         Interpreting!Known
    <3>4. \A k \in DOMAIN pending' :
             pending'[k] \subseteq (IF k \in DOMAIN pending THEN pending[k] ELSE {}) \cup {job[t]}
      BY <3>3
    <3>. QED
      BY <3>1, <3>2, <3>4
  <2>2. Nameable(job[t]) /\ ~request[job[t]].settled
    BY <2>1 DEF GatewayInv, Joint, Findings, SettledOnce
  <2>3. \A q \in Request : request[q].settled => \A k \in DOMAIN pending' : q \notin pending'[k]
    BY <2>1, <2>2 DEF GatewayInv, Joint, SettledOnce
  <2>. QED
    BY <1>1, <1>2, <2>1, <2>2, <2>3, JointKept
<1>. QED
  BY <1>3, <1>4 DEF Naming

LEMMA WorkingJoint ==
    ASSUME GatewayInv, [GatewayNext]_gatewayVars, UNCHANGED <<vars, task, pending>>
    PROVE  Joint'
<1>1. UNCHANGED <<session, request, response>>
  BY DEF vars
<1>. QED
  BY <1>1, JointKept DEF GatewayInv, Joint, SettledOnce

LEMMA HandOverJoint ==
    ASSUME GatewayInv, ~terminated, ~Uncaught, NEW t \in Thread, HandOver(t)
    PROVE  Joint'
<1>1. [GatewayNext]_gatewayVars
  BY DEF GatewayNext, ThreadStep
<1>2. PICK u \in Upstream, Q \in SUBSET Request, k \in DOMAIN pending :
         /\ u = job[t] /\ k = fetch[u].key /\ Q = pending[k]
         /\ \A q \in Q : /\ Nameable(q) /\ task[q] = "pending" /\ k = Sha1[q]
  BY HandOverFinds
<1>3. /\ request' = Settled(Q, u)
      /\ \E o : response' = [response EXCEPT ![u] = o]
      /\ UNCHANGED <<session, task>>
      /\ pending' = [x \in DOMAIN pending \ {k} |-> pending[x]]
      /\ fetch' = [fetch EXCEPT ![u].phase = "collected"]
  BY <1>2 DEF HandOver, Interpreting!CollectWaiting, Interpreting!WaitingAt, Interpreting!Erased
<1>4. \A q \in Request :
         /\ request'[q].submitted = request[q].submitted
         /\ request'[q].aborted = request[q].aborted
         /\ request'[q].answer = IF q \in Q THEN u ELSE request[q].answer
         /\ Nameable(q)' = Nameable(q)
         /\ q \notin Q => request'[q].settled = request[q].settled
  <2> SUFFICES ASSUME NEW q \in Request
               PROVE  /\ request'[q].submitted = request[q].submitted
                      /\ request'[q].aborted = request[q].aborted
                      /\ request'[q].answer = IF q \in Q THEN u ELSE request[q].answer
                      /\ Nameable(q)' = Nameable(q)
                      /\ q \notin Q => request'[q].settled = request[q].settled
    OBVIOUS
  <2>1. request[q] \in RequestRecord
    BY DEF GatewayInv, IInv, TypeOK, RequestRecord
  <2>2. request'[q] = IF q \in Q THEN [request[q] EXCEPT !.settled = TRUE, !.answer = u]
                      ELSE request[q]
    BY <1>3 DEF Settled
  <2>. QED
    BY <2>1, <2>2 DEF RequestRecord, Nameable
<1>5. Submissions'
  <2>1. \A s \in Session : session[s].pc = "header" => Current(s) \in Request
    BY CurrentIsRequest DEF GatewayInv
  <2>2. \A s \in Session : \A m \in 1 .. MaxRequests : <<s, m>> \in Request
    BY DEF Request
  <2>. QED
    BY <1>3, <1>4, <2>1, <2>2 DEF GatewayInv, Joint, Submissions, Current
<1>6. Findings'
  BY <1>3, <1>4 DEF GatewayInv, Joint, Findings
<1>7. SettledOnce'
  <2>1. \A q \in Q : \A x \in DOMAIN pending' : q \notin pending'[x]
    BY <1>2, <1>3 DEF GatewayInv, IP!IInv, IP!EachRequestOnce, IP!OnlyOnce
  <2>2. \A x \in DOMAIN pending' : x \in DOMAIN pending /\ pending'[x] = pending[x]
    BY <1>3
  <2>. QED
    BY <1>2, <1>3, <1>4, <2>1, <2>2 DEF GatewayInv, Joint, SettledOnce
<1>8. Answers'
  <2>1. fetch'[u].phase = "collected" /\ fetch'[u].key = k
    <3>1. fetch \in [Upstream -> IP!FetchRecord]
      BY DEF GatewayInv, IP!IInv, IP!TypeOK
    <3>2. fetch'[u] = [fetch[u] EXCEPT !.phase = "collected"] /\ fetch[u] \in IP!FetchRecord
      BY <1>3, <3>1
    <3>. QED
      BY <1>2, <3>2 DEF IP!FetchRecord
  <2>2. \A v \in Upstream : fetch[v].phase = "collected" => fetch'[v] = fetch[v]
    BY <1>1, FetchOver
  <2>3. \A v \in Upstream : v # u => response'[v] = response[v]
    BY <1>3, ResponsesTyped DEF GatewayInv, Response
  <2>4. \A q \in Request : request[q].answer \in Upstream \cup {None}
    BY DEF GatewayInv, IInv, TypeOK
  <2>5. ASSUME NEW v \in Upstream, response'[v].made
        PROVE  fetch'[v].phase = "collected"
    BY <2>1, <2>2, <2>3, <2>5 DEF GatewayInv, Joint, Answers
  <2>6. ASSUME NEW q \in Request, request'[q].answer # None
        PROVE  /\ fetch'[request'[q].answer].phase = "collected"
               /\ fetch'[request'[q].answer].key = Sha1[q]
    <3>1. CASE q \in Q
      BY <1>2, <1>4, <2>1, <3>1
    <3>2. CASE q \notin Q
      <4>1. request'[q].answer = request[q].answer /\ request[q].answer \in Upstream
        BY <1>4, <2>4, <2>6, <3>2
      <4>. QED
        BY <2>2, <2>6, <4>1 DEF GatewayInv, Joint, Answers
    <3>. QED
      BY <3>1, <3>2
  <2>. QED
    BY <2>5, <2>6 DEF Answers
<1>. QED
  BY <1>5, <1>6, <1>7, <1>8 DEF Joint

LEMMA JointNext ==
    ASSUME GatewayInv, [GatewayNext]_gatewayVars
    PROVE  Joint'
<1>1. CASE UNCHANGED <<vars, task, pending>>
  BY <1>1, WorkingJoint
<1>2. ASSUME NEW u \in Upstream, NdnStep(u) PROVE UNCHANGED <<vars, task, pending>>
  BY <1>2 DEF NdnStep, Interpreting!Network, Interpreting!HeaderArrives,
     Interpreting!RetrievalCompletes, Interpreting!RetrievalAborts, Interpreting!fromNdnSink
<1>3. ASSUME ~terminated, ~Uncaught, NEW t \in Thread, ThreadStep(t) PROVE Joint'
  <2>1. Working(t) => UNCHANGED <<vars, task, pending>>
    BY DEF Working, Interpreting!fromNdnSource, Interpreting!StartHeader,
       Interpreting!CheckFlags, Interpreting!ReadData, Interpreting!ParseHeader,
       Interpreting!RetryHeader, Interpreting!GiveUpOnHeader, Interpreting!CollectThrows,
       Interpreting!fromHttpSink, Interpreting!EndDelivery
  <2>. QED
    BY <1>1, <1>3, <2>1, DiscardingJoint, NamingJoint, HandOverJoint DEF ThreadStep
<1>4. Finished /\ UNCHANGED interpreterVars => UNCHANGED <<vars, task, pending>>
  BY DEF Finished, interpreterVars
<1>5. UNCHANGED gatewayVars => UNCHANGED <<vars, task, pending>>
  BY DEF gatewayVars, interpreterVars
<1>. QED
  BY <1>1, <1>2, <1>3, <1>4, <1>5, SessionJoint, AnsweringJoint, StreamingJoint DEF GatewayNext

---------------------------------------------------------------------------
(***************************************************************************)
(* The gateway, from its invariant.                                        *)
(***************************************************************************)
LEMMA GatewayInvInit == ASSUME GatewayInit PROVE GatewayInv
<1>1. Init /\ Interpreting!Init /\ task = [q \in Request |-> "new"]
  BY DEF GatewayInit
<1>2. IInv
  BY <1>1, InitIInv
<1>3. IP!Init
  BY <1>1, SameModule
<1>4. IP!IInv
  BY <1>3, IP!InitIInv, DigestsAssumption
<1>5. IP!HeaderInv /\ IP!EntriesUsed
  BY <1>3, IP!EntriesUsedInit, IP!HeaderInvInit, DigestsAssumption
<1>6. Submissions /\ Findings
  <2>1. \A s \in Session : \A m \in 1 .. MaxRequests : <<s, m>> \in Request
    BY DEF Request
  <2>. QED
    BY <1>1, <2>1 DEF Init, Submissions, Findings
<1>7. SettledOnce /\ Answers
  <2>1. Upstream \subseteq Response
    BY DEF Response
  <2>. QED
    BY <1>1, <2>1 DEF Init, SettledOnce, Answers
<1>. QED
  BY <1>2, <1>4, <1>5, <1>6, <1>7 DEF GatewayInv, Joint

LEMMA GatewayInvNext ==
    ASSUME GatewayInv, [GatewayNext]_gatewayVars
    PROVE  GatewayInv'
<1>1. IInv'
  BY ServerRefines, NextIInv DEF GatewayInv
<1>2. [IP!Next]_(IP!vars)
  BY InterpreterRefines, SameModule
<1>3. IP!IInv'
  BY <1>2, IP!NextIInv, DigestsAssumption DEF GatewayInv
<1>4. IP!HeaderInv'
  BY <1>2, IP!HeaderInvNext, DigestsAssumption DEF GatewayInv
<1>5. IP!EntriesUsed'
  BY <1>2, IP!EntriesUsedNext, DigestsAssumption DEF GatewayInv
<1>6. Joint'
  BY JointNext
<1>. QED
  BY <1>1, <1>3, <1>4, <1>5, <1>6 DEF GatewayInv

\* The invariants of both parts, and what the parts know of each other, hold in every
\* state of the gateway.
THEOREM GatewayInvariance == GatewaySpec => []GatewayInv
<1>. QED
  BY GatewayInvInit, GatewayInvNext, PTL DEF GatewaySpec

\* The sessions and the interpreter, put together, do what each of them was modelled
\* to do alone: the server only meets answers that it was modelled to be given (each
\* request settled once, the responses handed over with a header, an abort or an end),
\* and the interpreter only requests that grow, are completed or are aborted in ways
\* it was modelled to be given.
THEOREM PartsImplemented == GatewaySpec => ImplementsParts
<1>1. GatewayInit => Init /\ Interpreting!Init
  BY DEF GatewayInit
<1>2. GatewayInv /\ [GatewayNext]_gatewayVars =>
         [Next]_vars /\ [Interpreting!Next]_(Interpreting!vars)
  BY ServerRefines, InterpreterRefines
<1>. QED
  BY <1>1, <1>2, GatewayInvariance, PTL
     DEF GatewaySpec, ImplementsParts, Spec, Interpreting!Spec

\* A client is sent its own error, or what was fetched for the digest of a request of
\* its connection.
THEOREM NoForeignFetch == GatewaySpec => []RightAnswer
<1>1. GatewayInv => RightAnswer
  <2> SUFFICES ASSUME GatewayInv, NEW q \in Request, NEW i \in DOMAIN heads[q], heads[q][i] # q
               PROVE  LET o == heads[q][i] IN
                      o \in Upstream /\ \E m \in 1 .. q[2] : fetch[o].key = Sha1[<<q[1], m>>]
    BY DEF RightAnswer
  <2> DEFINE o == heads[q][i]
  <2>1. PICK m \in 1 .. q[2] : o = request[<<q[1], m>>].answer
    <3>1. o \in {heads[q][j] : j \in DOMAIN heads[q]}
      OBVIOUS
    <3>. QED
      BY <3>1 DEF GatewayInv, IInv, OwnAnswer
  <2>2. o \in Response
    <3>1. heads[q] \in Seq(Response)
      BY DEF GatewayInv, IInv, TypeOK
    <3>. QED
      BY <3>1
  <2>3. <<q[1], m>> \in Request
    BY BoundsAssumption DEF Request
  <2>4. o # None
    BY <2>2, UpstreamAssumption DEF Response, Request, None
  <2>5. o \in Upstream
    BY <2>1, <2>3, <2>4 DEF GatewayInv, IInv, TypeOK
  <2>. QED
    BY <2>1, <2>3, <2>4, <2>5 DEF GatewayInv, Joint, Answers
<1>. QED
  BY <1>1, GatewayInvariance, PTL

\* No exception leaves a thread of the interpreter while the sessions abort requests,
\* time out and go away around it.
THEOREM GatewayNeverThrows == GatewaySpec => []Interpreting!NoUncaughtException
<1>1. GatewayInv => Interpreting!NoUncaughtException
  BY DEF GatewayInv, IP!IInv, IP!NoUncaughtException, Interpreting!NoUncaughtException
<1>. QED
  BY <1>1, GatewayInvariance, PTL

---------------------------------------------------------------------------
(***************************************************************************)
(* What the server waits for is on its way: a call of fromHttpSink that it *)
(* still counts on was made, or a thread is about to make it.              *)
(***************************************************************************)
AnswersComing ==
    \A q \in Request, u \in Upstream :
       <<q, u>> \in posted =>
          \/ \E i \in DOMAIN delivered[q] : delivered[q][i] = u
          \/ \E t \in Thread : pc[t] = "deliver" /\ job[t] = u /\ q \in set[t]

\* Only a collection posts answers.
LEMMA PostedAtHandOver ==
    ASSUME [GatewayNext]_gatewayVars
    PROVE  posted' \subseteq posted \/ \E t \in Thread : HandOver(t)
<1>1. ASSUME NEW s \in Session, SessionStep(s) PROVE posted' = posted
  <2>1. CASE Handler(s)
    BY <2>1 DEF Handler, EnterWaiting, ArmWriteTimer, CompleteRequest, write_response,
       MakeTimeout, FillError, EraseWaiting, MakeBadGateway, UseResponse,
       write_response_header, ReadResponse, EndResponse
  <2>2. CASE Client(s)
    BY <2>2 DEF Client, accept_handler, ReadRequest, RefuseRequest, ReadBody, BodyThrows,
       ReadFails, HeaderWritten, BodyWritten, WriteFails
  <2>3. CASE Timer(s)
    BY <2>3 DEF Timer, ReadTimerExpires, timer_handler, WriteTimerExpires, PollResponse
  <2>. QED
    BY <1>1, <2>1, <2>2, <2>3 DEF SessionStep
<1>2. ASSUME NEW q \in Request, NEW u \in Upstream, Answering(q, u) PROVE posted' \subseteq posted
  BY <1>2 DEF Answering, fromHttpSinkHandler
<1>3. ASSUME NEW u \in Upstream, Streaming(u) \/ NdnStep(u) PROVE posted' = posted
  BY <1>3 DEF Streaming, NdnStep, UpstreamGrows, UpstreamCompletes, UpstreamAborts, vars
<1>4. ASSUME NEW t \in Thread, ThreadStep(t), ~HandOver(t) PROVE posted' = posted
  BY <1>4 DEF ThreadStep, Discarding, Naming, Working, vars
<1>. QED
  BY <1>1, <1>2, <1>3, <1>4 DEF GatewayNext, Finished, gatewayVars, vars

LEMMA AnswersComingNext ==
    ASSUME GatewayInv, AnswersComing, [GatewayNext]_gatewayVars
    PROVE  AnswersComing'
<1> SUFFICES ASSUME NEW q \in Request, NEW u \in Upstream, <<q, u>> \in posted'
             PROVE  IP!Due(q, u)'
  BY DEF AnswersComing, IP!Due
<1>1. IP!IInv /\ [IP!Next]_(IP!vars)
  BY InterpreterRefines, SameModule DEF GatewayInv
<1>2. CASE <<q, u>> \in posted
  <2>1. IP!Due(q, u)
    BY <1>2 DEF AnswersComing, IP!Due
  <2>. QED
    BY <1>1, <2>1, IP!DueKept, DigestsAssumption
<1>3. ASSUME <<q, u>> \notin posted PROVE IP!Due(q, u)'
  <2>1. PICK t \in Thread : HandOver(t)
    BY <1>3, PostedAtHandOver
  <2>2. IP!CollectWaiting(t)
    BY <2>1 DEF HandOver, Interpreting!CollectWaiting, IP!CollectWaiting,
       Interpreting!WaitingAt, IP!WaitingAt, Interpreting!Erased, IP!Erased,
       Interpreting!reqVars, IP!reqVars, Interpreting!netVars, IP!netVars
  <2>3. u = job[t] /\ q \in pending[fetch[job[t]].key]
    BY <1>3, <2>1 DEF HandOver, Interpreting!WaitingAt
  <2>. QED
    BY <1>1, <2>2, <2>3, IP!CollectedDue, DigestsAssumption
<1>. QED
  BY <1>2, <1>3

\* No answer is forgotten between the modules: every request that was taken out of its
\* entry is given the response by the call the server was promised, whatever the threads
\* do meanwhile.
THEOREM NoAnswerForgotten == GatewaySpec => []AnswersComing
<1>1. GatewayInit => AnswersComing
  BY DEF GatewayInit, Init, AnswersComing
<1>. QED
  BY <1>1, GatewayInvInit, GatewayInvNext, AnswersComingNext, PTL DEF GatewaySpec
=============================================================================
