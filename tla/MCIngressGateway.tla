------------------------- MODULE MCIngressGateway -------------------------
(***************************************************************************)
(* Two connections that each bring one request, of different digests.      *)
(*                                                                         *)
(* The bounds leave out what the runs of HttpServer have and the modules   *)
(* do not share: the sessions are in the middle of a handler, or read a    *)
(* body, one at a time; one of the two requests can be long; none goes on  *)
(* to a second request; no read timer expires, and no write timer of a     *)
(* session that has no response yet; a response does not change after it   *)
(* was handed over, but for its end.                                       *)
(***************************************************************************)
EXTENDS IngressGateway, TLC

CONSTANTS s1, s2, k1, k2

Digests == [q \in Request |-> IF q[1] = s1 THEN k1 ELSE k2]

Busy == {s \in Session : session[s].pc \in MidHandler \cup {"body"}}

Bounds ==
    /\ \A s, t \in Busy : s = t
    /\ \A q, r \in Request : request[q].long /\ request[r].long => q = r
    /\ \A s \in Session :
          /\ session[s].pc # "read" /\ ~session[s].readDue
          /\ session[s].writeTimer = "due" => session[s].response # None
    /\ \A u \in Upstream :
          response[u].made =>
             ~response[u].keepAlive /\ response[u].stream.aborted = retrieved[u].aborted

Swapped == [x \in {s1, s2, k1, k2} |->
               CASE x = s1 -> s2 [] x = s2 -> s1 [] x = k1 -> k2 [] x = k2 -> k1]
Symmetry == Permutations(Upstream) \cup {Swapped}
===========================================================================
