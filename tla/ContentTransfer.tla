-------------------------- MODULE ContentTransfer -------------------------
(***************************************************************************)
(* What moving a content between two gateways promises, with no packets,   *)
(* Interests, timers or caches: the receiver sees a growing prefix of what *)
(* is being sent.  It takes the content for complete only when the sender  *)
(* has ended and nothing is missing; otherwise it gives up.                *)
(***************************************************************************)
EXTENDS SeekableRawStream

VARIABLES
    sent,   \* the stream at the sender, still growing
    got     \* the stream rebuilt by the receiver

vars == <<sent, got>>

Init == sent = NewStream /\ got = NewStream

PrefixOf(s, t) == Len(s) <= Len(t) /\ s = SubSeq(t, 1, Len(s))

Send ==
    /\ ~Ended(sent)
    /\ PrefixOf(sent.data, sent'.data)
    /\ UNCHANGED got

Receive ==
    /\ ~Ended(got) /\ ~got'.aborted
    /\ PrefixOf(got.data, got'.data) /\ Len(got.data) < Len(got'.data)
    /\ PrefixOf(got'.data, sent.data)
    /\ got'.completed => Ended(sent) /\ got'.data = sent.data
    /\ UNCHANGED sent

GiveUp ==
    /\ ~Ended(got)
    /\ got' = [got EXCEPT !.aborted = TRUE]
    /\ UNCHANGED sent

Next == Send \/ Receive \/ GiveUp

Spec == Init /\ [][Next]_vars
===========================================================================
