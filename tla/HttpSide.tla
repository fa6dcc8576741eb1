------------------------------ MODULE HttpSide ------------------------------
(***************************************************************************)
(* What the interpreter of the egress gateway and of the NDN server relies *)
(* on in whatever answers a request, without connections or files: it is   *)
(* given one answer; before that nothing is in the response stream; after  *)
(* that the stream only grows at its end, until it ends, once.             *)
(***************************************************************************)
EXTENDS Integers, Sequences

VARIABLES
    answers,    \* the calls of fromHttpSink for a request
    data,       \* the body in the response stream
    completed,
    aborted

vars == <<answers, data, completed, aborted>>

Init ==
    /\ answers = 0 /\ data = <<>>
    /\ completed = FALSE /\ aborted = FALSE

\* What was in the stream stays there.
Grows == Len(data') >= Len(data) /\ SubSeq(data', 1, Len(data)) = data

Fails == aborted' = TRUE /\ UNCHANGED <<data, completed>>

\* The answer: an aborted response, or one with as much of its body as there is.
Answer ==
    /\ answers = 0 /\ answers' = 1
    /\ \/ Fails
       \/ Grows /\ completed' \in BOOLEAN /\ UNCHANGED aborted

Continue ==
    /\ answers = 1 /\ ~completed /\ ~aborted
    /\ \/ Fails
       \/ Grows /\ completed' \in BOOLEAN /\ UNCHANGED aborted
    /\ UNCHANGED answers

Next == Answer \/ Continue

Spec == Init /\ [][Next]_vars
=============================================================================
