---------------------------- MODULE FetchesOfKey ---------------------------
(***************************************************************************)
(* The life of the fetches of one key, as the ingress interpreter and the  *)
(* NdnResolver have agreed on it: the interpreter begins a fetch when the  *)
(* one before is settled; the resolver answers it, once; the interpreter   *)
(* settles it after the answer.                                            *)
(***************************************************************************)
CONSTANT Fetch

VARIABLE stage    \* of each fetch

Init == stage = [n \in Fetch |-> "new"]

Begin(n) ==
    /\ stage[n] = "new"
    /\ \A m \in Fetch : stage[m] \in {"new", "settled"}
    /\ stage' = [stage EXCEPT ![n] = "begun"]

Answer(n) == stage[n] = "begun" /\ stage' = [stage EXCEPT ![n] = "answered"]

Settle(n) == stage[n] = "answered" /\ stage' = [stage EXCEPT ![n] = "settled"]

Next == \E n \in Fetch : Begin(n) \/ Answer(n) \/ Settle(n)

Spec == Init /\ [][Next]_stage
===========================================================================
