----------------------------- MODULE HttpSides -----------------------------
(***************************************************************************)
(* The interpreter of NdnHttpInterpreter in the two programs that have it. *)
(* In the egress gateway HttpClient is its HTTP side, which goes on with   *)
(* the response stream for as long as the server sends.  In the NDN server *)
(* it is HttpEngine (ndn_server/http_engine.cpp), which answers from local *)
(* files in a single handler; nobody writes a response stream after that.  *)
(* An exception that leaves a handler ends the program.                    *)
(***************************************************************************)
EXTENDS NdnHttpInterpreter

VARIABLES
    program, \* the program that runs
    side     \* for each request, how far the HTTP session is, or what the engine found

\* GET and HEAD look for a path; the methods between POST and OPTIONS are known,
\* and not implemented; any other one is unknown.
Lookup == {"file", "unreadable file", "directory", "index", "listing", "missing"}
NotServed == {"other method", "unknown method"}
Session == {"unasked", "writing", "reading"}

sideVars == <<vars, program, side>>

\* module.h runs the io_service with no try around it.
Terminated == \E r \in Request : side[r] = "exception"

SidesInit ==
    /\ Init
    /\ program \in {"egw", "ndn_server"}
    /\ side = [r \in Request |-> "unasked"]

SideGoto(r, stage) == side' = [side EXCEPT ![r] = stage]

---------------------------------------------------------------------------
(***************************************************************************)
(* HttpClient, as far as the interpreter depends on it.  Its writes have   *)
(* no timer: a server that takes nothing keeps a session in them.          *)
(***************************************************************************)
Connected(r) ==
    /\ program = "egw" /\ phase[r] = "sent" /\ side[r] = "unasked"
    /\ SideGoto(r, "writing")
    /\ UNCHANGED <<vars, program>>

Written(r) ==
    /\ program = "egw" /\ phase[r] = "sent" /\ side[r] = "writing"
    /\ SideGoto(r, "reading")
    /\ UNCHANGED <<vars, program>>

\* Until the request is written there can only be the answer that says so.
Answers(r) ==
    /\ program = "egw"
    /\ fromHttpSink(r)
    /\ side[r] = "reading" \/ response'[r].aborted
    /\ UNCHANGED <<program, side>>

\* The length of a body (203) or of a chunk (280) is no number.
Throws(r) ==
    /\ program = "egw" /\ side[r] = "reading"
    /\ phase[r] \in Publishing \cup {"published"} /\ ~Ended(response[r])
    /\ SideGoto(r, "exception")
    /\ UNCHANGED <<vars, program>>

HttpClientStep(r) == Connected(r) \/ Written(r) \/ Answers(r) \/ Throws(r)

---------------------------------------------------------------------------
\* The response with its header fields; for a redirection there is no body.
\* HEAD and GET both pass skip_body as false, or leave it to its default.
Filled(r, what) ==
    LET body == IF what = "directory" THEN <<>> ELSE Blocks(MaxBlocks) IN
    [append_raw_data(response[r], body) EXCEPT !.completed = TRUE]

\* Mutant: a listing is not completed.
Uncompleted(what) == {"unreadable file", "listing"}

\* The path names a file that cannot be opened: the response stays as it is.
LeftAsIs(what) == {"unreadable file"}

get(r, what) ==
    response' = IF what \in LeftAsIs(what) THEN response
                ELSE [response EXCEPT ![r] = Filled(r, what)]

resolve(r) ==
    /\ program = "ndn_server"
    /\ phase[r] = "sent"
    /\ \E what \in Lookup \cup NotServed :
          /\ SideGoto(r, what)
          /\ IF what \in Lookup THEN get(r, what) ELSE UNCHANGED response
    /\ Goto(r, "answered")
    /\ UNCHANGED <<request, is_complete, raw_data, pending, named, program>>

\* The path cannot be examined, or the directory not read: is_regular_file,
\* is_directory and directory_iterator throw, as they are given no error code.
FilesystemError(r) ==
    /\ program = "ndn_server"
    /\ phase[r] = "sent"
    /\ SideGoto(r, "exception")
    /\ UNCHANGED <<vars, program>>

HttpEngineStep(r) == resolve(r) \/ FilesystemError(r)

---------------------------------------------------------------------------
InterpreterStep(r) == Consumer(r) \/ Search(r) \/ Publish(r)

Next ==
    \/ /\ ~Terminated
       /\ \/ \E r \in Request : InterpreterStep(r)
          \/ program = "egw" /\ \E r \in Request : Server(r)
          \/ AllDone
       /\ UNCHANGED <<program, side>>
    \/ ~Terminated /\ \E r \in Request : HttpClientStep(r) \/ HttpEngineStep(r)
    \/ Terminated /\ UNCHANGED sideVars

(***************************************************************************)
(* The io_service runs every handler; the consumer's retries end.  A       *)
(* session of HttpClient that is not writing goes on or answers: resolving *)
(* and connecting end, and the reading of a response header has a timer    *)
(* (see EveryReadEnds of HttpClient).  Nothing says that a write ends, nor *)
(* that the server sends what it promised.                                 *)
(***************************************************************************)
FairSpec ==
    /\ SidesInit /\ [][Next]_sideVars
    /\ \A r \in Request :
         LET Does(A) == ~Terminated /\ A /\ UNCHANGED <<program, side>> IN
         /\ WF_sideVars(Does(Search(r))) /\ WF_sideVars(Does(Publish(r)))
         /\ WF_sideVars(Does(RetrievalEnds(r)))
         /\ WF_sideVars(~Terminated /\ side[r] # "writing" /\ (Connected(r) \/ Answers(r)))
         /\ WF_sideVars(~Terminated /\ HttpEngineStep(r))

---------------------------------------------------------------------------
\* Every entry of _pending_requests is removed, whatever the request, the server and
\* the file system do, but: those of the requests given up without a header, as that
\* path (165-169) leaves the entry in the map for good; those of a request that
\* HttpClient never gets written; and those there when an exception ends the program.
EveryEntryErased ==
    \A r \in Request :
        []<>(side[r] # "writing") =>
            (r \in pending ~> r \notin pending \/ phase[r] = "headerless" \/ Terminated)

\* Unless the file system ends the program with an exception, every request with a
\* good header leads to a published content, as the engine never aborts a response;
\* and its packet generator ends, unless the method is not one of GET and HEAD or the
\* file cannot be opened: the streams of those have no end, and are polled for ever.
EveryRequestPublished ==
    \A r \in Request :
        program = "ndn_server" /\ phase[r] = "sent" ~>
            \/ Terminated
            \/ /\ phase[r] = "published"
               /\ response[r].completed \/ side[r] \in NotServed \cup {"unreadable file"}

\* The body in a response stream, without the header that is put in front of it.
BodyIn(data) == IF data # <<>> /\ data[1] = Header THEN SubSeq(data, 2, Len(data)) ELSE data

Answered(r) ==
    \/ phase[r] \in Publishing \cup {"published"}
    \/ phase[r] = "dropped" /\ response[r].aborted

\* For each request, in either program, the HTTP side keeps to what HttpClient is shown
\* to keep to, with the interpreter at work on the same stream.
Side(r) == INSTANCE HttpSide
    WITH answers <- IF Answered(r) THEN 1 ELSE 0, data <- BodyIn(response[r].data),
         completed <- response[r].completed, aborted <- response[r].aborted
ImplementsHttpSide ==
    /\ \A r \in Request : Side(r)!Init
    /\ [][\A r \in Request : [Side(r)!Next]_(Side(r)!vars)]_sideVars
===========================================================================
