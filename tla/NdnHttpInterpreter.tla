------------------------- MODULE NdnHttpInterpreter ------------------------
(***************************************************************************)
(* The interpreter of the egress gateway and of the NDN server             *)
(* (egw/ndn_http_interpreter.cpp, the same file in ndn_server).  It turns  *)
(* a request content into an HTTP request, remembers in _pending_requests  *)
(* the digest its name ends with, and turns the HTTP response into a       *)
(* content whose name ends with that digest.                               *)
(*                                                                         *)
(* The handlers of one request run one after the other, those of several   *)
(* requests on the threads of the pool at once: phase says for every       *)
(* request which step is next.  Meanwhile the NDN consumer writes the      *)
(* request stream, and the HTTP side the response stream.                  *)
(***************************************************************************)
EXTENDS SeekableRawStream, FiniteSets

CONSTANTS
    Request,     \* the request contents the NDN side delivers
    MaxBlocks    \* bound: the blocks of a response body

ASSUME BlocksAssumption == MaxBlocks \in Nat

VARIABLES
    phase,       \* the next step for each request, or its outcome
    request,     \* the request stream, as far as its header is concerned
    is_complete, \* the local of get_http_request_header
    raw_data,    \* its other local: the header that the copy of the stream holds
    pending,     \* the requests that are keys of _pending_requests
    named,       \* the response name got the digest of the request
    response     \* the raw stream of the response

vars == <<phase, request, is_complete, raw_data, pending, named, response>>

\* A response stream holds the blocks 1, 2, ... of the body, and the header.
Header == 0
Blocks(n) == [i \in 1 .. n |-> i]

HeaderOf == {"absent", "good", "bad"}
Searching == {"check", "read", "find"}
AtServer == {"sent"}
Publishing == {"answered", "naming", "heading", "publish"}
Outcome == {"headerless", "dropped", "published"}

TypeOK ==
    /\ phase \in [Request -> {"new"} \cup Searching \cup AtServer \cup Publishing \cup Outcome]
    /\ request \in [Request -> [header : HeaderOf, parsed : BOOLEAN,
                                completed : BOOLEAN, aborted : BOOLEAN]]
    /\ is_complete \in [Request -> BOOLEAN]
    /\ raw_data \in [Request -> HeaderOf]
    /\ pending \subseteq Request
    /\ named \in [Request -> BOOLEAN]
    /\ response \in [Request -> StreamOf(0 .. MaxBlocks)]

Init ==
    /\ phase = [r \in Request |-> "new"]
    /\ request = [r \in Request |-> [header |-> "absent", parsed |-> FALSE,
                                     completed |-> FALSE, aborted |-> FALSE]]
    /\ is_complete = [r \in Request |-> FALSE]
    /\ raw_data = [r \in Request |-> "absent"]
    /\ pending = {}
    /\ named = [r \in Request |-> FALSE]
    /\ response = [r \in Request |-> NewStream]

Goto(r, step) == phase' = [phase EXCEPT ![r] = step]

---------------------------------------------------------------------------
(***************************************************************************)
(* The NDN consumer: it delivers a content with its first segment, and     *)
(* goes on until the content is complete or given up.                      *)
(***************************************************************************)
HeaderArrives(r) ==
    /\ phase[r] \in {"new"} \cup Searching
    /\ request[r].header = "absent" /\ ~request[r].completed /\ ~request[r].aborted
    /\ \E h \in {"good", "bad"} : request' = [request EXCEPT ![r].header = h]
    /\ UNCHANGED <<phase, is_complete, raw_data, pending, named, response>>

RetrievalEnds(r) ==
    /\ phase[r] \in {"new"} \cup Searching
    /\ ~request[r].completed /\ ~request[r].aborted
    /\ request' \in {[request EXCEPT ![r].completed = TRUE],
                     [request EXCEPT ![r].aborted = TRUE]}
    /\ UNCHANGED <<phase, is_complete, raw_data, pending, named, response>>

---------------------------------------------------------------------------
fromNdnSourceHandler(r) ==
    /\ phase[r] = "new"
    /\ pending' = pending \cup {r}
    /\ Goto(r, "check")
    /\ UNCHANGED <<request, is_complete, raw_data, named, response>>

(***************************************************************************)
(* get_http_request_header.  The completion flag is read before the data.  *)
(***************************************************************************)
CheckFlags(r) ==
    /\ phase[r] = "check" /\ ~request[r].aborted
    /\ is_complete' = [is_complete EXCEPT ![r] = request[r].completed]
    /\ Goto(r, "read")
    /\ UNCHANGED <<request, raw_data, pending, named, response>>

ReadData(r) ==
    /\ phase[r] = "read"
    /\ raw_data' = [raw_data EXCEPT ![r] = request[r].header]
    /\ Goto(r, "find")
    /\ UNCHANGED <<request, is_complete, pending, named, response>>

DropAborted(r) ==
    /\ phase[r] = "check" /\ request[r].aborted
    /\ pending' = pending \ {r}
    /\ Goto(r, "dropped")
    /\ UNCHANGED <<request, is_complete, raw_data, named, response>>

\* Mutant: the entry is no longer needed once the request has been sent.
ForgottenOnceSent(r) == pending \ {r}

RememberedAtServer(r) == pending

fromHttpSource(r) ==
    /\ phase[r] = "find" /\ raw_data[r] = "good"
    /\ request' = [request EXCEPT ![r].parsed = TRUE]
    /\ pending' = RememberedAtServer(r)
    /\ Goto(r, "sent")
    /\ UNCHANGED <<is_complete, raw_data, named, response>>

\* No second or third word, no path, or no host.
DropIllFormed(r) ==
    /\ phase[r] = "find" /\ raw_data[r] = "bad"
    /\ request' = [request EXCEPT ![r].aborted = TRUE]
    /\ pending' = pending \ {r}
    /\ Goto(r, "dropped")
    /\ UNCHANGED <<is_complete, raw_data, named, response>>

\* Mutant: the flag is read after the data.
CompleteByNow(r) == request[r].completed

SeenComplete(r) == is_complete[r]

RetryHeader(r) ==
    /\ phase[r] = "find" /\ raw_data[r] = "absent" /\ ~SeenComplete(r)
    /\ Goto(r, "check")
    /\ UNCHANGED <<request, is_complete, raw_data, pending, named, response>>

\* The header will not come.  Nothing is done about the entry of the request.
GiveUpOnHeader(r) ==
    /\ phase[r] = "find" /\ raw_data[r] = "absent" /\ SeenComplete(r)
    /\ Goto(r, "headerless")
    /\ UNCHANGED <<request, is_complete, raw_data, pending, named, response>>

---------------------------------------------------------------------------
(***************************************************************************)
(* The HTTP side answers every request once, with a response whose body    *)
(* it is still reading, or with an aborted one (see HttpClient).           *)
(***************************************************************************)
fromHttpSink(r) ==
    /\ phase[r] = "sent"
    /\ response' \in {response, [response EXCEPT ![r].aborted = TRUE]}
    /\ Goto(r, "answered")
    /\ UNCHANGED <<request, is_complete, raw_data, pending, named>>

\* How much of the body is in the stream.
BlocksIn(data) == IF data # <<>> /\ data[1] = Header THEN Len(data) - 1 ELSE Len(data)

ServerGrows(r) ==
    LET n == BlocksIn(response[r].data) IN
    /\ phase[r] \in Publishing \cup {"published"}
    /\ ~Ended(response[r]) /\ n < MaxBlocks
    /\ response' = [response EXCEPT ![r] = append_raw_data(@, <<n + 1>>)]
    /\ UNCHANGED <<phase, request, is_complete, raw_data, pending, named>>

ServerEnds(r) ==
    /\ phase[r] \in Publishing \cup {"published"}
    /\ ~Ended(response[r])
    /\ response' \in {[response EXCEPT ![r].completed = TRUE],
                      [response EXCEPT ![r].aborted = TRUE]}
    /\ UNCHANGED <<phase, request, is_complete, raw_data, pending, named>>

---------------------------------------------------------------------------
(***************************************************************************)
(* fromHttpSinkHandler                                                     *)
(***************************************************************************)
CheckResponse(r) ==
    /\ phase[r] = "answered" /\ ~response[r].aborted
    /\ Goto(r, "naming")
    /\ UNCHANGED <<request, is_complete, raw_data, pending, named, response>>

DropResponse(r) ==
    /\ phase[r] = "answered" /\ response[r].aborted
    /\ pending' = pending \ {r}
    /\ Goto(r, "dropped")
    /\ UNCHANGED <<request, is_complete, raw_data, named, response>>

\* Mutants: the entry is left in the map; the content is published before the
\* header is put in front of the body.
DigestOnly(r) == pending
PublishedAfterNaming == "published"

DigestTaken(r) == pending \ {r}
AfterNaming == "heading"

\* The digest is appended to the name, if the request is still in the map.
NameResponse(r) ==
    /\ phase[r] = "naming"
    /\ named' = [named EXCEPT ![r] = r \in pending]
    /\ pending' = DigestTaken(r)
    /\ Goto(r, AfterNaming)
    /\ UNCHANGED <<request, is_complete, raw_data, response>>

add_header_to_raw_stream(r) ==
    /\ phase[r] = "heading"
    /\ response' = [response EXCEPT ![r] = append_raw_data_at_first(@, <<Header>>)]
    /\ Goto(r, "publish")
    /\ UNCHANGED <<request, is_complete, raw_data, pending, named>>

fromNdnSink(r) ==
    /\ phase[r] = "publish"
    /\ Goto(r, "published")
    /\ UNCHANGED <<request, is_complete, raw_data, pending, named, response>>

---------------------------------------------------------------------------
Consumer(r) == HeaderArrives(r) \/ RetrievalEnds(r)

Search(r) ==
    \/ fromNdnSourceHandler(r) \/ CheckFlags(r) \/ DropAborted(r) \/ ReadData(r)
    \/ fromHttpSource(r) \/ DropIllFormed(r) \/ RetryHeader(r) \/ GiveUpOnHeader(r)

Publish(r) ==
    \/ CheckResponse(r) \/ DropResponse(r) \/ NameResponse(r)
    \/ add_header_to_raw_stream(r) \/ fromNdnSink(r)

Server(r) == ServerGrows(r) \/ ServerEnds(r)

AllDone == (\A r \in Request : phase[r] \in Outcome) /\ UNCHANGED vars

---------------------------------------------------------------------------
\* A response is published under a name that ends with the digest of its request:
\* from the emplace (84) to the find (212), across the HTTP exchange, no path
\* removes the entry, so the gateway that waits for that name finds the content.
NamedByDigest == \A r \in Request : phase[r] = "published" => named[r]

\* What is published starts with the header, and the body follows in order,
\* although the HTTP side appends to the same stream while the header is put in
\* front of it.
HeaderFirst ==
    \A r \in Request :
        phase[r] = "published" =>
            response[r].data = <<Header>> \o Blocks(Len(response[r].data) - 1)

\* A request is only given up without a header when its content is complete and
\* has none: why the flag is read before the data (95).
GivenUpOnlyIfHeaderless ==
    \A r \in Request :
        phase[r] = "headerless" => request[r].completed /\ request[r].header = "absent"

===========================================================================
