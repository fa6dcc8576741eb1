---------------------------- MODULE NdnExchange ----------------------------
(***************************************************************************)
(* The exchanges of one key between the two NdnResolvers: the ingress one  *)
(* stores the request and notifies the producing program, which retrieves  *)
(* the request, has it answered over HTTP and stores the response under    *)
(* the same key; the ingress one then retrieves the response.              *)
(*                                                                         *)
(* The key stays the same from one fetch to the next: identical requests   *)
(* have the same name, and so have the responses to them.  Both _contents  *)
(* are maps by name whose emplace does not replace, and whose erase removes *)
(* whatever is stored under the name.                                      *)
(*                                                                         *)
(* Contents are moved as a whole here: NdnTransfer has their packets, and  *)
(* that a retrieval is told of once is its property ToldOnce.  The         *)
(* timestamp in a response's name, which its later packets are asked for   *)
(* with, is left out: it plays no part in who is asked and what is stored. *)
(* Lines of the producing side are those of ndn_server/ndn_resolver.cpp,   *)
(* the same file as egw/ndn_resolver.cpp.                                  *)
(***************************************************************************)
EXTENDS Naturals

CONSTANTS
    MaxFetch,     \* bound: how often the key is fetched
    MaxExchange,  \* bound: the HTTP exchanges the producing side may start
    Retries       \* how often the consumer expresses an Interest again

ASSUME BoundsAssumption ==
    MaxFetch \in Nat \ {0} /\ MaxExchange \in Nat \ {0} /\ Retries \in Nat \ {0}

Fetch == 1 .. MaxFetch
Exchange == 1 .. MaxExchange
None == 0

VARIABLES
    \* the ingress gateway
    entry,      \* the fetch whose entry is in the interpreter's _pending_requests
    fetch,      \* each fetch: where it is, the tries its notification has left, whether
                \* that was refused, the exchange whose response it got, and whether
                \* only a cache had the response
    requests,   \* _contents holds a request under the key
    \* the network between them
    notices,    \* the fetches that have a notification on its way
    cached,     \* the exchanges whose response a cache still holds fresh
    \* the producing program
    exchange,   \* each exchange: where it is, and the stream of its response
    responses   \* the exchange whose response _contents holds under the key

ingressVars == <<entry, fetch, requests>>
networkVars == <<notices, cached>>
producerVars == <<exchange, responses>>
vars == <<ingressVars, networkVars, producerVars>>

Stream == {"open", "complete", "aborted"}

TypeOK ==
    /\ entry \in Fetch \cup {None}
    /\ fetch \in [Fetch ->
          [pc : {"new", "posted", "notify", "fetch", "answered"},
           tries : 0 .. Retries, refused : BOOLEAN, from : Exchange \cup {None},
           old : BOOLEAN]]
    /\ requests \in BOOLEAN
    /\ notices \subseteq Fetch
    /\ cached \subseteq Exchange
    /\ exchange \in [Exchange ->
          [pc : {"new", "retrieving", "asked", "publishing", "over"}, stream : Stream]]
    /\ responses \in Exchange \cup {None}

Init ==
    /\ entry = None
    /\ fetch = [n \in Fetch |-> [pc |-> "new", tries |-> Retries, refused |-> FALSE,
                                 from |-> None, old |-> FALSE]]
    /\ requests = FALSE
    /\ notices = {} /\ cached = {}
    /\ exchange = [x \in Exchange |-> [pc |-> "new", stream |-> "open"]]
    /\ responses = None

---------------------------------------------------------------------------
(***************************************************************************)
(* The ingress interpreter, as HttpNdnInterpreter has it: it opens an      *)
(* entry for the key when there is none, and takes it out some time after  *)
(* the first bytes of the response, when the header is there.  It reads    *)
(* requests[at(sha1)], so the answer must find the entry.                  *)
(***************************************************************************)
OpenEntry(n) ==
    /\ entry = None /\ fetch[n].pc = "new"
    /\ \A m \in Fetch : m < n => fetch[m].pc # "new"
    /\ entry' = n
    /\ fetch' = [fetch EXCEPT ![n].pc = "posted"]
    /\ UNCHANGED <<requests, networkVars, producerVars>>

\* Mutant: the entry is taken out when the response is asked for.
Settled(n) == fetch[n].pc \in {"fetch", "answered"}

Answered(n) == fetch[n].pc = "answered"

Settle(n) ==
    /\ entry = n /\ Answered(n)
    /\ entry' = None
    /\ UNCHANGED <<fetch, requests, networkVars, producerVars>>

---------------------------------------------------------------------------
(***************************************************************************)
(* The ingress NdnResolver and its consumer.                               *)
(***************************************************************************)
\* The request is stored, the notification expressed, and packets are made.
fromNdnSourceHandler(n) ==
    /\ fetch[n].pc = "posted"
    /\ requests' = TRUE
    /\ fetch' = [fetch EXCEPT ![n].pc = "notify"]
    /\ notices' = notices \cup {n}
    /\ UNCHANGED <<entry, cached, producerVars>>

NotifyAgain(n) ==
    /\ fetch[n].pc = "notify" /\ fetch[n].tries > 0
    /\ fetch' = [fetch EXCEPT ![n].tries = @ - 1]
    /\ notices' = notices \cup {n}
    /\ UNCHANGED <<entry, requests, cached, producerVars>>

\* Whatever the notification brought, OK, SKIP or nothing, the response is asked
\* for; what that brings is for the source, as its name has no prefix in it.  (The
\* wait for a long request, lines 62-67, is never entered: line 57 looks for the
\* last component of a name, and line 85 stores by the whole name.)
fromNdnConsumerHandler(n) == IF fetch[n].pc = "notify" THEN "fetch" ELSE "answered"

\* Mutant: the parent is not told of a notification that nobody answered.
UntoldOfSilence(n) ==
    /\ fetch[n].pc = "fetch"
    /\ fetch' = [fetch EXCEPT ![n].pc = fromNdnConsumerHandler(n)]
    /\ UNCHANGED <<entry, requests, networkVars, producerVars>>

\* All tries of the notification timed out, or the Interest for the response failed:
\* the parent is told of an aborted content.
Unanswered(n) ==
    /\ fetch[n].pc = "fetch" \/ (fetch[n].pc = "notify" /\ fetch[n].tries = 0)
    /\ fetch' = [fetch EXCEPT ![n].pc = fromNdnConsumerHandler(n)]
    /\ UNCHANGED <<entry, requests, networkVars, producerVars>>

\* The network refuses the notification: that is not tried again, and the parent is
\* told at once.  On another way the notification may still arrive.
Refused(n) ==
    /\ fetch[n].pc = "notify"
    /\ fetch' = [fetch EXCEPT ![n].pc = fromNdnConsumerHandler(n), ![n].refused = TRUE]
    /\ UNCHANGED <<entry, requests, networkVars, producerVars>>

\* The response's first packet arrives, from the producing side or from a cache.
FirstPacket(n, x) ==
    /\ fetch[n].pc = "fetch" /\ x \in {responses} \cup cached
    /\ x # None
    /\ fetch' = [fetch EXCEPT ![n].pc = fromNdnConsumerHandler(n),
                              ![n].from = x, ![n].old = x # responses]
    /\ cached' \in {cached, cached \cup {x}}  \* its freshness may be 0
    /\ UNCHANGED <<entry, requests, notices, producerVars>>

---------------------------------------------------------------------------
(***************************************************************************)
(* The caches of the network forget.  What the network loses just never    *)
(* arrives.  (The answer to a notification is never taken from a cache:    *)
(* its freshness is 0.)                                                    *)
(***************************************************************************)
Expire(x) ==
    /\ x \in cached /\ cached' = cached \ {x}
    /\ UNCHANGED <<ingressVars, notices, producerVars>>

---------------------------------------------------------------------------
(***************************************************************************)
(* The producing NdnResolver, its consumer, and what it hands the request  *)
(* to: an interpreter with an HTTP client or a file server.                *)
(***************************************************************************)
\* Mutant: the content is looked up by the last component of its name.
NeverStored == FALSE

IsStored == responses # None

\* The next exchange that has not begun.
NextExchange(x) ==
    /\ exchange[x].pc = "new"
    /\ \A y \in Exchange : y < x => exchange[y].pc # "new"

\* A notification: "OK", and the request is retrieved, or "SKIP".  The answer
\* reaches the fetch when it still waits for it, or is lost.
fromNdnProducerHandler(n) ==
    /\ n \in notices
    /\ notices' = notices \ {n}
    /\ \/ IsStored /\ UNCHANGED exchange
       \/ /\ ~IsStored
          /\ \E x \in Exchange :
                /\ NextExchange(x)
                /\ exchange' = [exchange EXCEPT ![x].pc = "retrieving"]
    /\ \/ UNCHANGED fetch
       \/ /\ fetch[n].pc = "notify"
          /\ fetch' = [fetch EXCEPT ![n].pc = fromNdnConsumerHandler(n)]
    /\ UNCHANGED <<entry, requests, cached, responses>>

\* fromNdnConsumerHandler: the first packet of the request is there, which goes
\* to the sink, and on to the server when its header is read.
RequestRetrieved(x) ==
    /\ exchange[x].pc = "retrieving" /\ requests
    /\ exchange' = [exchange EXCEPT ![x].pc = "asked"]
    /\ UNCHANGED <<ingressVars, networkVars, responses>>

\* An aborted request is dropped, and so is one that the sink cannot read.
RequestDropped(x) ==
    /\ exchange[x].pc \in {"retrieving", "asked"}
    /\ exchange' = [exchange EXCEPT ![x].pc = "over"]
    /\ UNCHANGED <<ingressVars, networkVars, responses>>

\* The sink has named the response.
fromNdnSinkHandler(x) ==
    /\ exchange[x].pc = "asked"
    /\ responses' = IF responses = None THEN x ELSE responses
    /\ exchange' = [exchange EXCEPT ![x].pc = "publishing"]
    /\ UNCHANGED <<ingressVars, networkVars>>

ResponseEnds(x) ==
    /\ exchange[x].pc = "publishing" /\ exchange[x].stream = "open"
    /\ \E s \in {"complete", "aborted"} : exchange' = [exchange EXCEPT ![x].stream = s]
    /\ UNCHANGED <<ingressVars, networkVars, responses>>

\* Mutant: what was made of an aborted content is kept.
Kept(x) == responses

\* "remove uncompleted content": whatever is stored under its name is removed.
AfterErase(x) == IF exchange[x].stream = "aborted" THEN None ELSE responses

\* generate_data has made all packets.
generate_data(x) ==
    /\ exchange[x].pc = "publishing" /\ exchange[x].stream # "open"
    /\ exchange' = [exchange EXCEPT ![x].pc = "over"]
    /\ responses' = AfterErase(x)
    /\ UNCHANGED <<ingressVars, networkVars>>

---------------------------------------------------------------------------
(***************************************************************************)
(* The purges, at any time: a content is removed that was not accessed for *)
(* 15 seconds at the ingress gateway, for 30 on the producing side.        *)
(* NdnTransfer has the accesses.                                           *)
(***************************************************************************)
\* Also when the generator ends on an aborted request: any of this name.
purgeOldContents ==
    /\ requests
    /\ requests' = FALSE
    /\ UNCHANGED <<entry, fetch, networkVars, producerVars>>

purge_old_data ==
    /\ responses # None
    /\ responses' = None
    /\ UNCHANGED <<ingressVars, networkVars, exchange>>

---------------------------------------------------------------------------
IngressFetch(n) ==
    \/ OpenEntry(n) \/ Settle(n)
    \/ fromNdnSourceHandler(n) \/ NotifyAgain(n) \/ Unanswered(n) \/ Refused(n)
    \/ \E x \in Exchange : FirstPacket(n, x)

Producer(x) ==
    \/ RequestRetrieved(x) \/ RequestDropped(x)
    \/ fromNdnSinkHandler(x) \/ ResponseEnds(x) \/ generate_data(x)

Purge == purgeOldContents \/ purge_old_data

\* The bounds are used up, or everything is done.
Finished ==
    /\ \A n \in Fetch : fetch[n].pc \in {"new", "answered"}
    /\ UNCHANGED vars

Next ==
    \/ \E n \in Fetch : IngressFetch(n) \/ fromNdnProducerHandler(n)
    \/ \E x \in Exchange : Expire(x) \/ Producer(x)
    \/ Purge \/ Finished

Spec == Init /\ [][Next]_vars

(***************************************************************************)
(* The handlers run, and the face reports an Interest without an answer as *)
(* timed out.  Streams end by the timers of their writers.  Of the network *)
(* and of the purges nothing is assumed.                                   *)
(***************************************************************************)
FairSpec ==
    /\ Spec
    /\ \A n \in Fetch :
          WF_vars(fromNdnSourceHandler(n) \/ NotifyAgain(n) \/ Unanswered(n) \/ Settle(n))
    /\ \A x \in Exchange : WF_vars(RequestDropped(x) \/ ResponseEnds(x) \/ generate_data(x))

---------------------------------------------------------------------------
Underway(n) == fetch[n].pc \in {"posted", "notify", "fetch"}

\* The notifications of the key, and the unnumbered Interests for its responses,
\* are those of one fetch at a time: the entry in the interpreter's map outlives
\* them both, wherever the handlers of the two resolvers stand.
FirstInterestAlone ==
    \A m, n \in Fetch : Underway(m) /\ Underway(n) => m = n

\* The ingress side repeated a notification, or asked for the response though the
\* network had refused its notification, or gave up on a response, or did not wait
\* for a new one as it found an old one in a cache.
Impatient ==
    \E n \in Fetch : \/ fetch[n].tries < Retries
                     \/ fetch[n].refused
                     \/ fetch[n].pc = "answered" /\ fetch[n].from = None
                     \/ fetch[n].old

\* The exchanges whose server is going to answer, or has answered.
Asking(x) == exchange[x].pc \in {"retrieving", "asked"}

\* The server is asked a second time while a first exchange is on its way, or its
\* response is stored, only when the ingress side was impatient.
AskedTwiceOnlyIfImpatient ==
    \A x, y \in Exchange :
       (Asking(x) /\ (Asking(y) \/ responses = y) => x = y) \/ Impatient

\* "remove uncompleted content": what the map holds when no generator works on it
\* was not aborted.
UncompletedRemoved ==
    \A x \in Exchange : responses = x /\ exchange[x].pc = "over" =>
       exchange[x].stream = "complete"

\* The removal is by name, and so can take a complete response of an earlier
\* exchange: that too only when the ingress side was impatient.  (A response purged
\* while it is written, at less than a packet in 30 seconds, can be aborted later
\* and then takes that of the next exchange with it.)
CompletedKept ==
    [][\A x \in Exchange :
          generate_data(x) /\ responses' # responses /\ responses < x
             /\ exchange[responses].stream = "complete" => Impatient]_vars

\* The fetches of the key follow each other as those that HttpNdnInterpreter starts,
\* and the resolver answers each of them once.
StageOf(n) ==
    IF fetch[n].pc = "new" THEN "new"
    ELSE IF Underway(n) THEN "begun"
    ELSE IF entry = n THEN "answered" ELSE "settled"

OfKey == INSTANCE FetchesOfKey WITH stage <- [n \in Fetch |-> StageOf(n)]
FetchesFollow == OfKey!Spec

\* A fetch is answered, with or without a response, whatever the network loses.
EveryFetchAnswered == \A n \in Fetch : fetch[n].pc = "posted" ~> fetch[n].pc = "answered"
===========================================================================
