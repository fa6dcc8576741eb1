------------------------ MODULE RequestCollapsing -------------------------
(***************************************************************************)
(* What the ingress interpreter promises about identical requests: while   *)
(* an exchange for a key is in flight, requests with that key join it;     *)
(* when it ends, all of them are settled with its result, each is answered *)
(* once, and the next request with the key starts a new exchange.          *)
(***************************************************************************)
CONSTANTS Request, Key, Sha1

VARIABLES
    inflight,   \* the keys with an exchange in flight
    status      \* where each request stands

vars == <<inflight, status>>

Init ==
    /\ inflight = {}
    /\ status = [r \in Request |-> "idle"]

Discard(r) ==
    /\ status[r] = "idle"
    /\ status' = [status EXCEPT ![r] = "discarded"]
    /\ UNCHANGED inflight

Open(r) ==
    /\ status[r] = "idle" /\ Sha1[r] \notin inflight
    /\ inflight' = inflight \cup {Sha1[r]}
    /\ status' = [status EXCEPT ![r] = "waiting"]

Join(r) ==
    /\ status[r] = "idle" /\ Sha1[r] \in inflight
    /\ status' = [status EXCEPT ![r] = "waiting"]
    /\ UNCHANGED inflight

Settle(k) ==
    /\ k \in inflight
    /\ inflight' = inflight \ {k}
    /\ status' = [r \in Request |->
                     IF status[r] = "waiting" /\ Sha1[r] = k THEN "due" ELSE status[r]]

Answer(r) ==
    /\ status[r] = "due"
    /\ status' = [status EXCEPT ![r] = "answered"]
    /\ UNCHANGED inflight

Next ==
    \/ \E r \in Request : Discard(r) \/ Open(r) \/ Join(r) \/ Answer(r)
    \/ \E k \in Key : Settle(k)

Spec ==
    /\ Init /\ [][Next]_vars
    /\ \A k \in Key : WF_vars(Settle(k))
    /\ \A r \in Request : WF_vars(Answer(r))
===========================================================================
