------------------------- MODULE NdnExchange_proofs ------------------------
(***************************************************************************)
(* The safety properties of NdnExchange, for every number of fetches and   *)
(* exchanges, and of tries.                                                *)
(*                                                                         *)
(* Patience is the heart of the invariant: it says what keeps a second     *)
(* exchange from being started as long as the ingress side waits for the   *)
(* first.  A fetch has one notification on its way, and has not had its    *)
(* answer; so an exchange that goes on belongs to the fetch that waits.    *)
(***************************************************************************)
EXTENDS NdnExchange, TLAPS

---------------------------------------------------------------------------
(***************************************************************************)
(* The inductive invariant.                                                *)
(***************************************************************************)
\* The entry of the key is that of the fetch that is under way.
EntryOfFetch == \A n \in Fetch : Underway(n) => entry = n

\* What a fetch got is not there before its answer.
FromLater ==
    \A n \in Fetch : fetch[n].pc # "answered" => fetch[n].from = None /\ ~fetch[n].old

\* What is stored is being made, or was made to its end.
StoredWasPublished ==
    \A x \in Exchange : responses = x =>
       /\ exchange[x].pc \in {"publishing", "over"}
       /\ exchange[x].pc = "over" => exchange[x].stream = "complete"

\* The exchanges begin in the order of their numbers.
InOrder ==
    \A x, y \in Exchange : y < x /\ exchange[x].pc # "new" => exchange[y].pc # "new"

\* The notification of the fetch has been taken.
Waits(n) == fetch[n].pc = "fetch" \/ (fetch[n].pc = "notify" /\ n \notin notices)

NoticesAwaited == \A n \in notices : fetch[n].pc = "notify"

\* An exchange whose server has not answered is the only one, the last one, and
\* somebody waits for it; nothing is stored.
AskingAlone ==
    \A x \in Exchange : Asking(x) =>
       /\ responses = None
       /\ \A y \in Exchange : Asking(y) => y = x
       /\ \A y \in Exchange : x < y => exchange[y].pc = "new"
       /\ \E n \in Fetch : Waits(n)

\* No exchange was begun after the one whose response is stored.
StoredIsLast ==
    \A x \in Exchange : responses # None /\ responses < x => exchange[x].pc = "new"

Patience == ~Impatient => NoticesAwaited /\ AskingAlone /\ StoredIsLast

IInv ==
    /\ TypeOK /\ EntryOfFetch /\ FromLater
    /\ StoredWasPublished /\ InOrder /\ Patience

---------------------------------------------------------------------------
LEMMA NumbersPositive == Fetch \subseteq Nat \ {0} /\ Exchange \subseteq Nat \ {0}
BY BoundsAssumption DEF Fetch, Exchange

\* The initial states satisfy it.
LEMMA InitIInv == Init => IInv
<1> SUFFICES ASSUME Init PROVE IInv
  OBVIOUS
<1> USE BoundsAssumption, NumbersPositive DEF Init
<1>1. TypeOK
  <2>1. exchange \in [Exchange -> [pc : {"new", "retrieving", "asked", "publishing", "over"},
                                   stream : Stream]]
    BY DEF Stream
  <2>2. Retries \in 0 .. Retries
    OBVIOUS
  <2>3. fetch \in [Fetch ->
          [pc : {"new", "posted", "notify", "fetch", "answered"},
           tries : 0 .. Retries, refused : BOOLEAN, from : Exchange \cup {None},
           old : BOOLEAN]]
    BY <2>2
  <2>4. entry \in Fetch \cup {None} /\ requests \in BOOLEAN /\ notices \subseteq Fetch
        /\ cached \subseteq Exchange /\ responses \in Exchange \cup {None}
    OBVIOUS
  <2>. QED
    BY <2>1, <2>3, <2>4 DEF TypeOK
<1>2. EntryOfFetch /\ FromLater
  BY DEF EntryOfFetch, Underway, FromLater
<1>3. StoredWasPublished /\ InOrder
  BY DEF StoredWasPublished, InOrder, None
<1>4. Patience
  BY DEF Patience, NoticesAwaited, AskingAlone, Asking, StoredIsLast
<1>. QED
  BY <1>1, <1>2, <1>3, <1>4 DEF IInv

---------------------------------------------------------------------------
\* The steps of the ingress gateway: the entry and the fetch change.
LEMMA OpenEntryInv ==
    ASSUME IInv, NEW n \in Fetch, OpenEntry(n)
    PROVE  IInv'
<1> USE BoundsAssumption, NumbersPositive DEF OpenEntry, ingressVars, networkVars, producerVars
<1>1. TypeOK'
  BY DEF IInv, TypeOK
<1>2. EntryOfFetch'
  BY DEF IInv, TypeOK, EntryOfFetch, Underway, None
<1>3. FromLater'
  BY DEF IInv, TypeOK, FromLater
<1>4. StoredWasPublished' /\ InOrder'
  BY DEF IInv, StoredWasPublished, InOrder
<1>5. ~Impatient' => ~Impatient
  BY DEF IInv, TypeOK, Impatient, FromLater
<1>6. Patience'
  <2> SUFFICES ASSUME ~Impatient' PROVE NoticesAwaited' /\ AskingAlone' /\ StoredIsLast'
    BY DEF Patience
  <2>1. NoticesAwaited /\ AskingAlone /\ StoredIsLast
    BY <1>5 DEF IInv, Patience
  <2>2. NoticesAwaited'
    BY <2>1 DEF IInv, TypeOK, NoticesAwaited
  <2>3. AskingAlone'
    BY <2>1 DEF IInv, TypeOK, AskingAlone, Asking, Waits, None
  <2>4. StoredIsLast'
    BY <2>1 DEF IInv, TypeOK, StoredIsLast, None
  <2>. QED
    BY <2>2, <2>3, <2>4
<1>. QED
  BY <1>1, <1>2, <1>3, <1>4, <1>6 DEF IInv

LEMMA SettleInv ==
    ASSUME IInv, NEW n \in Fetch, Settle(n)
    PROVE  IInv'
<1> USE BoundsAssumption, NumbersPositive DEF Settle, Answered, ingressVars, networkVars, producerVars
<1>1. TypeOK'
  BY DEF IInv, TypeOK
<1>2. EntryOfFetch'
  BY DEF IInv, TypeOK, EntryOfFetch, Underway, None
<1>3. FromLater'
  BY DEF IInv, TypeOK, FromLater
<1>4. StoredWasPublished' /\ InOrder'
  BY DEF IInv, StoredWasPublished, InOrder
<1>5. ~Impatient' => ~Impatient
  BY DEF IInv, TypeOK, Impatient, FromLater
<1>6. Patience'
  <2> SUFFICES ASSUME ~Impatient' PROVE NoticesAwaited' /\ AskingAlone' /\ StoredIsLast'
    BY DEF Patience
  <2>1. NoticesAwaited /\ AskingAlone /\ StoredIsLast
    BY <1>5 DEF IInv, Patience
  <2>2. NoticesAwaited'
    BY <2>1 DEF IInv, TypeOK, NoticesAwaited
  <2>3. AskingAlone'
    BY <2>1 DEF IInv, TypeOK, AskingAlone, Asking, Waits, None
  <2>4. StoredIsLast'
    BY <2>1 DEF IInv, TypeOK, StoredIsLast, None
  <2>. QED
    BY <2>2, <2>3, <2>4
<1>. QED
  BY <1>1, <1>2, <1>3, <1>4, <1>6 DEF IInv

LEMMA FromNdnSourceHandlerInv ==
    ASSUME IInv, NEW n \in Fetch, fromNdnSourceHandler(n)
    PROVE  IInv'
<1> USE BoundsAssumption, NumbersPositive DEF fromNdnSourceHandler, ingressVars, networkVars, producerVars
<1>1. TypeOK'
  <2> DEFINE T == [pc : {"new", "posted", "notify", "fetch", "answered"},
                   tries : 0 .. Retries, refused : BOOLEAN, from : Exchange \cup {None},
                   old : BOOLEAN]
  <2>1. fetch \in [Fetch -> T]
    BY DEF IInv, TypeOK
  <2>2. fetch' \in [Fetch -> T]
    BY <2>1
  <2>. QED
    BY <2>2 DEF IInv, TypeOK
<1>2. EntryOfFetch'
  BY DEF IInv, TypeOK, EntryOfFetch, Underway, None
<1>3. FromLater'
  BY DEF IInv, TypeOK, FromLater
<1>4. StoredWasPublished' /\ InOrder'
  BY DEF IInv, StoredWasPublished, InOrder
<1>5. ~Impatient' => ~Impatient
  BY DEF IInv, TypeOK, Impatient, FromLater
<1>6. Patience'
  <2> SUFFICES ASSUME ~Impatient' PROVE NoticesAwaited' /\ AskingAlone' /\ StoredIsLast'
    BY DEF Patience
  <2>1. NoticesAwaited /\ AskingAlone /\ StoredIsLast
    BY <1>5 DEF IInv, Patience
  <2>2. NoticesAwaited'
    BY <2>1 DEF IInv, TypeOK, NoticesAwaited
  <2>3. AskingAlone'
    BY <2>1 DEF IInv, TypeOK, AskingAlone, Asking, Waits, None
  <2>4. StoredIsLast'
    BY <2>1 DEF IInv, TypeOK, StoredIsLast, None
  <2>. QED
    BY <2>2, <2>3, <2>4
<1>. QED
  BY <1>1, <1>2, <1>3, <1>4, <1>6 DEF IInv

LEMMA NotifyAgainInv ==
    ASSUME IInv, NEW n \in Fetch, NotifyAgain(n)
    PROVE  IInv'
<1> USE BoundsAssumption, NumbersPositive DEF NotifyAgain, ingressVars, networkVars, producerVars
<1>1. TypeOK'
  BY DEF IInv, TypeOK
<1>2. EntryOfFetch'
  BY DEF IInv, TypeOK, EntryOfFetch, Underway, None
<1>3. FromLater'
  BY DEF IInv, TypeOK, FromLater
<1>4. StoredWasPublished' /\ InOrder'
  BY DEF IInv, StoredWasPublished, InOrder
<1>5. Impatient'
  BY DEF IInv, TypeOK, Impatient
<1>6. Patience'
  BY <1>5 DEF Patience
<1>. QED
  BY <1>1, <1>2, <1>3, <1>4, <1>6 DEF IInv

LEMMA UnansweredInv ==
    ASSUME IInv, NEW n \in Fetch, Unanswered(n)
    PROVE  IInv'
<1> USE BoundsAssumption, NumbersPositive DEF Unanswered, fromNdnConsumerHandler, ingressVars, networkVars, producerVars
<1>1. TypeOK'
  <2> DEFINE T == [pc : {"new", "posted", "notify", "fetch", "answered"},
                   tries : 0 .. Retries, refused : BOOLEAN, from : Exchange \cup {None},
                   old : BOOLEAN]
  <2>1. fetch \in [Fetch -> T]
    BY DEF IInv, TypeOK
  <2>2. fetch' \in [Fetch -> T]
    BY <2>1
  <2>. QED
    BY <2>2 DEF IInv, TypeOK
<1>2. EntryOfFetch'
  BY DEF IInv, TypeOK, EntryOfFetch, Underway, None
<1>3. FromLater'
  BY DEF IInv, TypeOK, FromLater
<1>4. StoredWasPublished' /\ InOrder'
  BY DEF IInv, StoredWasPublished, InOrder
<1>5. Impatient'
  <2>1. CASE fetch[n].pc = "fetch"
    BY <2>1 DEF IInv, TypeOK, FromLater, Impatient
  <2>2. CASE fetch[n].tries = 0
    BY <2>2 DEF IInv, TypeOK, Impatient
  <2>. QED
    BY <2>1, <2>2
<1>6. Patience'
  BY <1>5 DEF Patience
<1>. QED
  BY <1>1, <1>2, <1>3, <1>4, <1>6 DEF IInv

LEMMA RefusedInv ==
    ASSUME IInv, NEW n \in Fetch, Refused(n)
    PROVE  IInv'
<1> USE BoundsAssumption, NumbersPositive DEF Refused, fromNdnConsumerHandler, ingressVars, networkVars, producerVars
<1>1. TypeOK'
  <2> DEFINE T == [pc : {"new", "posted", "notify", "fetch", "answered"},
                   tries : 0 .. Retries, refused : BOOLEAN, from : Exchange \cup {None},
                   old : BOOLEAN]
  <2>1. fetch \in [Fetch -> T]
    BY DEF IInv, TypeOK
  <2>2. fetch' \in [Fetch -> T]
    <3>1. [fetch[n] EXCEPT !.pc = fromNdnConsumerHandler(n), !.refused = TRUE] \in T
      BY <2>1
    <3>. QED
      BY <2>1, <3>1
  <2>. QED
    BY <2>2 DEF IInv, TypeOK
<1>2. EntryOfFetch'
  BY DEF IInv, TypeOK, EntryOfFetch, Underway, None
<1>3. FromLater'
  BY DEF IInv, TypeOK, FromLater
<1>4. StoredWasPublished' /\ InOrder'
  BY DEF IInv, StoredWasPublished, InOrder
<1>5. Impatient'
  BY DEF IInv, TypeOK, Impatient
<1>6. Patience'
  BY <1>5 DEF Patience
<1>. QED
  BY <1>1, <1>2, <1>3, <1>4, <1>6 DEF IInv

LEMMA FirstPacketInv ==
    ASSUME IInv, NEW n \in Fetch, NEW x \in Exchange, FirstPacket(n, x)
    PROVE  IInv'
<1> USE BoundsAssumption, NumbersPositive DEF FirstPacket, fromNdnConsumerHandler, ingressVars, networkVars, producerVars
<1>1. TypeOK'
  <2> DEFINE T == [pc : {"new", "posted", "notify", "fetch", "answered"},
                   tries : 0 .. Retries, refused : BOOLEAN, from : Exchange \cup {None},
                   old : BOOLEAN]
  <2>1. fetch \in [Fetch -> T]
    BY DEF IInv, TypeOK
  <2>2. fetch' \in [Fetch -> T]
    <3>1. x \in Exchange /\ (x # responses) \in BOOLEAN
      OBVIOUS
    <3>2. [fetch[n] EXCEPT !.pc = fromNdnConsumerHandler(n), !.from = x,
                           !.old = x # responses] \in T
      BY <2>1, <3>1
    <3>. QED
      BY <2>1, <3>2
  <2>. QED
    BY <2>2 DEF IInv, TypeOK
<1>2. EntryOfFetch'
  BY DEF IInv, TypeOK, EntryOfFetch, Underway, None
<1>3. FromLater'
  BY DEF IInv, TypeOK, FromLater
<1>4. StoredWasPublished' /\ InOrder'
  BY DEF IInv, StoredWasPublished, InOrder
<1>5. ~Impatient' => ~Impatient
  BY DEF IInv, TypeOK, Impatient, FromLater
<1>6. Patience'
  <2> SUFFICES ASSUME ~Impatient' PROVE NoticesAwaited' /\ AskingAlone' /\ StoredIsLast'
    BY DEF Patience
  <2>1. NoticesAwaited /\ AskingAlone /\ StoredIsLast
    BY <1>5 DEF IInv, Patience
  <2>2. NoticesAwaited'
    BY <2>1 DEF IInv, TypeOK, NoticesAwaited
  <2>3. AskingAlone'
    <3>1. ASSUME NEW y \in Exchange, Asking(y) PROVE FALSE
      <4>1. responses = None /\ \E m \in Fetch : Waits(m)
        BY <2>1, <3>1 DEF AskingAlone
      <4>2. x # responses
        BY <4>1
      <4>3. fetch'[n].old
        BY <4>2 DEF IInv, TypeOK
      <4>. QED
        BY <4>3 DEF Impatient
    <3>. QED
      BY <3>1 DEF AskingAlone, Asking
  <2>4. StoredIsLast'
    BY <2>1 DEF IInv, TypeOK, StoredIsLast, None
  <2>. QED
    BY <2>2, <2>3, <2>4
<1>. QED
  BY <1>1, <1>2, <1>3, <1>4, <1>6 DEF IInv

---------------------------------------------------------------------------
\* A notification arrives: a fetch and an exchange change.
LEMMA FromNdnProducerHandlerInv ==
    ASSUME IInv, NEW n \in Fetch, fromNdnProducerHandler(n)
    PROVE  IInv'
<1> USE BoundsAssumption, NumbersPositive DEF fromNdnProducerHandler, fromNdnConsumerHandler, NextExchange, IsStored, ingressVars, networkVars, producerVars
<1>1. TypeOK'
  <2> DEFINE T == [pc : {"new", "posted", "notify", "fetch", "answered"},
                   tries : 0 .. Retries, refused : BOOLEAN, from : Exchange \cup {None},
                   old : BOOLEAN]
             X == [pc : {"new", "retrieving", "asked", "publishing", "over"},
                   stream : Stream]
  <2>1. fetch \in [Fetch -> T] /\ exchange \in [Exchange -> X]
    BY DEF IInv, TypeOK
  <2>2. fetch' \in [Fetch -> T]
    <3>1. ASSUME NEW f \in T, NEW c \in {"fetch", "answered"}
          PROVE  [f EXCEPT !.pc = c] \in T
      OBVIOUS
    <3>2. \/ fetch' = fetch
          \/ \E c \in {"fetch", "answered"} :
                fetch' = [fetch EXCEPT ![n] = [fetch[n] EXCEPT !.pc = c]]
      BY <2>1
    <3>3. CASE fetch' = fetch
      BY <2>1, <3>3
    <3>4. ASSUME NEW c \in {"fetch", "answered"},
                 fetch' = [fetch EXCEPT ![n] = [fetch[n] EXCEPT !.pc = c]]
          PROVE  fetch' \in [Fetch -> T]
      <4>1. fetch[n] \in T
        BY <2>1
      <4>2. [fetch[n] EXCEPT !.pc = c] \in T
        BY <3>1, <4>1
      <4> HIDE DEF T
      <4>. QED
        BY <2>1, <3>4, <4>2
    <3>. QED
      BY <3>2, <3>3, <3>4
  <2>3. exchange' \in [Exchange -> X]
    <3>1. ASSUME NEW e \in X
          PROVE  [e EXCEPT !.pc = "retrieving"] \in X
      OBVIOUS
    <3>2. \/ exchange' = exchange
          \/ \E x \in Exchange :
                exchange' = [exchange EXCEPT ![x] = [exchange[x] EXCEPT !.pc = "retrieving"]]
      BY <2>1
    <3>. QED
      BY <2>1, <3>1, <3>2
  <2>. QED
    BY <2>2, <2>3 DEF IInv, TypeOK
<1>2. EntryOfFetch'
  BY DEF IInv, TypeOK, EntryOfFetch, Underway, None
<1>3. FromLater'
  BY DEF IInv, TypeOK, FromLater
<1>4. StoredWasPublished' /\ InOrder'
  <2>1. StoredWasPublished'
    BY DEF IInv, TypeOK, StoredWasPublished, Stream, None
  <2>2. InOrder'
    <3> SUFFICES ASSUME NEW x \in Exchange, NEW y \in Exchange, y < x,
                        exchange'[x].pc # "new"
                 PROVE  exchange'[y].pc # "new"
      BY DEF InOrder
    <3>1. CASE exchange' = exchange
      BY <3>1 DEF IInv, InOrder
    <3>2. ASSUME NEW z \in Exchange, NextExchange(z),
                 exchange' = [exchange EXCEPT ![z].pc = "retrieving"]
          PROVE  exchange'[y].pc # "new"
      <4>1. \A w \in Exchange :
               exchange'[w].pc = IF w = z THEN "retrieving" ELSE exchange[w].pc
        BY <3>2 DEF IInv, TypeOK
      <4>2. CASE x = z
        BY <3>2, <4>1, <4>2
      <4>3. CASE x # z
        BY <4>1, <4>3 DEF IInv, InOrder
      <4>. QED
        BY <4>2, <4>3
    <3>. QED
      BY <3>1, <3>2
  <2>. QED
    BY <2>1, <2>2
<1>5. ~Impatient' => ~Impatient
  BY DEF IInv, TypeOK, Impatient, FromLater
<1>6. Patience'
  <2> SUFFICES ASSUME ~Impatient' PROVE NoticesAwaited' /\ AskingAlone' /\ StoredIsLast'
    BY DEF Patience
  <2>1. NoticesAwaited /\ AskingAlone /\ StoredIsLast
    BY <1>5 DEF IInv, Patience
  <2>2. NoticesAwaited'
    BY <2>1 DEF IInv, TypeOK, NoticesAwaited
  <2>3. AskingAlone'
    <3>1. ASSUME NEW y \in Exchange, Asking(y) PROVE FALSE
      <4>1. PICK m \in Fetch : Waits(m)
        BY <2>1, <3>1 DEF AskingAlone
      <4>2. Underway(m) /\ Underway(n)
        BY <2>1, <4>1 DEF Waits, Underway, NoticesAwaited
      <4>3. m = n
        BY <4>2 DEF IInv, EntryOfFetch
      <4>. QED
        BY <2>1, <4>1, <4>3 DEF Waits, NoticesAwaited
    <3>2. CASE exchange' = exchange
      BY <3>1, <3>2 DEF AskingAlone, Asking
    <3>3. CASE ~IsStored
      <4>1. PICK x \in Exchange : /\ NextExchange(x)
                                 /\ exchange' = [exchange EXCEPT ![x].pc = "retrieving"]
        BY <3>3
      <4>2. \A y \in Exchange : Asking(y)' => y = x
        BY <3>1, <4>1 DEF IInv, TypeOK, Asking
      <4>3. \A y \in Exchange : x < y => exchange'[y].pc = "new"
        BY <4>1 DEF IInv, TypeOK, InOrder
      <4>4. Waits(n)'
        BY <2>1 DEF IInv, TypeOK, Waits, NoticesAwaited
      <4>5. responses' = None
        BY <3>3
      <4>. QED
        BY <4>2, <4>3, <4>4, <4>5 DEF AskingAlone
    <3>. QED
      BY <3>2, <3>3
  <2>4. StoredIsLast'
    BY <2>1 DEF IInv, TypeOK, StoredIsLast, None
  <2>. QED
    BY <2>2, <2>3, <2>4
<1>. QED
  BY <1>1, <1>2, <1>3, <1>4, <1>6 DEF IInv

---------------------------------------------------------------------------
\* The steps of the caches and of the producing program.
LEMMA ExpireInv ==
    ASSUME IInv, NEW x \in Exchange, Expire(x)
    PROVE  IInv'
<1> USE BoundsAssumption, NumbersPositive DEF Expire, ingressVars, networkVars, producerVars
<1>1. TypeOK'
  BY DEF IInv, TypeOK
<1>2. EntryOfFetch'
  BY DEF IInv, EntryOfFetch, Underway
<1>3. FromLater'
  BY DEF IInv, FromLater
<1>4. StoredWasPublished' /\ InOrder'
  BY DEF IInv, StoredWasPublished, InOrder
<1>5. ~Impatient' => ~Impatient
  BY DEF IInv, TypeOK, Impatient, FromLater
<1>6. Patience'
  <2> SUFFICES ASSUME ~Impatient' PROVE NoticesAwaited' /\ AskingAlone' /\ StoredIsLast'
    BY DEF Patience
  <2>1. NoticesAwaited /\ AskingAlone /\ StoredIsLast
    BY <1>5 DEF IInv, Patience
  <2>2. NoticesAwaited'
    BY <2>1 DEF IInv, TypeOK, NoticesAwaited
  <2>3. AskingAlone'
    BY <2>1 DEF IInv, TypeOK, AskingAlone, Asking, Waits, None
  <2>4. StoredIsLast'
    BY <2>1 DEF IInv, TypeOK, StoredIsLast, None
  <2>. QED
    BY <2>2, <2>3, <2>4
<1>. QED
  BY <1>1, <1>2, <1>3, <1>4, <1>6 DEF IInv

LEMMA RequestRetrievedInv ==
    ASSUME IInv, NEW x \in Exchange, RequestRetrieved(x)
    PROVE  IInv'
<1> USE BoundsAssumption, NumbersPositive DEF RequestRetrieved, ingressVars, networkVars, producerVars
<1>1. TypeOK'
  BY DEF IInv, TypeOK
<1>2. EntryOfFetch'
  BY DEF IInv, EntryOfFetch, Underway
<1>3. FromLater'
  BY DEF IInv, FromLater
<1>4. StoredWasPublished' /\ InOrder'
  <2>1. StoredWasPublished'
    BY DEF IInv, TypeOK, StoredWasPublished, Stream, None
  <2>2. InOrder'
    BY DEF IInv, TypeOK, InOrder
  <2>. QED
    BY <2>1, <2>2
<1>5. ~Impatient' => ~Impatient
  BY DEF IInv, TypeOK, Impatient, FromLater
<1>6. Patience'
  <2> SUFFICES ASSUME ~Impatient' PROVE NoticesAwaited' /\ AskingAlone' /\ StoredIsLast'
    BY DEF Patience
  <2>1. NoticesAwaited /\ AskingAlone /\ StoredIsLast
    BY <1>5 DEF IInv, Patience
  <2>2. NoticesAwaited'
    BY <2>1 DEF IInv, TypeOK, NoticesAwaited
  <2>3. AskingAlone'
    BY <2>1 DEF IInv, TypeOK, AskingAlone, Asking, Waits, None
  <2>4. StoredIsLast'
    BY <2>1 DEF IInv, TypeOK, StoredIsLast, None
  <2>. QED
    BY <2>2, <2>3, <2>4
<1>. QED
  BY <1>1, <1>2, <1>3, <1>4, <1>6 DEF IInv

LEMMA RequestDroppedInv ==
    ASSUME IInv, NEW x \in Exchange, RequestDropped(x)
    PROVE  IInv'
<1> USE BoundsAssumption, NumbersPositive DEF RequestDropped, ingressVars, networkVars, producerVars
<1>1. TypeOK'
  BY DEF IInv, TypeOK
<1>2. EntryOfFetch'
  BY DEF IInv, EntryOfFetch, Underway
<1>3. FromLater'
  BY DEF IInv, FromLater
<1>4. StoredWasPublished' /\ InOrder'
  <2>1. StoredWasPublished'
    BY DEF IInv, TypeOK, StoredWasPublished, Stream, None
  <2>2. InOrder'
    BY DEF IInv, TypeOK, InOrder
  <2>. QED
    BY <2>1, <2>2
<1>5. ~Impatient' => ~Impatient
  BY DEF IInv, TypeOK, Impatient, FromLater
<1>6. Patience'
  <2> SUFFICES ASSUME ~Impatient' PROVE NoticesAwaited' /\ AskingAlone' /\ StoredIsLast'
    BY DEF Patience
  <2>1. NoticesAwaited /\ AskingAlone /\ StoredIsLast
    BY <1>5 DEF IInv, Patience
  <2>2. NoticesAwaited'
    BY <2>1 DEF IInv, TypeOK, NoticesAwaited
  <2>3. AskingAlone'
    BY <2>1 DEF IInv, TypeOK, AskingAlone, Asking, Waits, None
  <2>4. StoredIsLast'
    BY <2>1 DEF IInv, TypeOK, StoredIsLast, None
  <2>. QED
    BY <2>2, <2>3, <2>4
<1>. QED
  BY <1>1, <1>2, <1>3, <1>4, <1>6 DEF IInv

LEMMA FromNdnSinkHandlerInv ==
    ASSUME IInv, NEW x \in Exchange, fromNdnSinkHandler(x)
    PROVE  IInv'
<1> USE BoundsAssumption, NumbersPositive DEF fromNdnSinkHandler, ingressVars, networkVars, producerVars
<1>1. TypeOK'
  BY DEF IInv, TypeOK
<1>2. EntryOfFetch'
  BY DEF IInv, EntryOfFetch, Underway
<1>3. FromLater'
  BY DEF IInv, FromLater
<1>4. StoredWasPublished' /\ InOrder'
  <2>1. StoredWasPublished'
    BY DEF IInv, TypeOK, StoredWasPublished, Stream, None
  <2>2. InOrder'
    BY DEF IInv, TypeOK, InOrder
  <2>. QED
    BY <2>1, <2>2
<1>5. ~Impatient' => ~Impatient
  BY DEF IInv, TypeOK, Impatient, FromLater
<1>6. Patience'
  <2> SUFFICES ASSUME ~Impatient' PROVE NoticesAwaited' /\ AskingAlone' /\ StoredIsLast'
    BY DEF Patience
  <2>1. NoticesAwaited /\ AskingAlone /\ StoredIsLast
    BY <1>5 DEF IInv, Patience
  <2>2. NoticesAwaited'
    BY <2>1 DEF IInv, TypeOK, NoticesAwaited
  <2>3. AskingAlone'
    BY <2>1 DEF IInv, TypeOK, AskingAlone, Asking, Waits, None
  <2>4. StoredIsLast'
    <3>1. responses = None /\ \A y \in Exchange : x < y => exchange[y].pc = "new"
      BY <2>1 DEF AskingAlone, Asking
    <3>. QED
      BY <3>1 DEF IInv, TypeOK, StoredIsLast
  <2>. QED
    BY <2>2, <2>3, <2>4
<1>. QED
  BY <1>1, <1>2, <1>3, <1>4, <1>6 DEF IInv

LEMMA ResponseEndsInv ==
    ASSUME IInv, NEW x \in Exchange, ResponseEnds(x)
    PROVE  IInv'
<1> USE BoundsAssumption, NumbersPositive DEF ResponseEnds, ingressVars, networkVars, producerVars
<1>1. TypeOK'
  BY DEF IInv, TypeOK, Stream
<1>2. EntryOfFetch'
  BY DEF IInv, EntryOfFetch, Underway
<1>3. FromLater'
  BY DEF IInv, FromLater
<1>4. StoredWasPublished' /\ InOrder'
  <2>1. StoredWasPublished'
    BY DEF IInv, TypeOK, StoredWasPublished, Stream, None
  <2>2. InOrder'
    BY DEF IInv, TypeOK, InOrder
  <2>. QED
    BY <2>1, <2>2
<1>5. ~Impatient' => ~Impatient
  BY DEF IInv, TypeOK, Impatient, FromLater
<1>6. Patience'
  <2> SUFFICES ASSUME ~Impatient' PROVE NoticesAwaited' /\ AskingAlone' /\ StoredIsLast'
    BY DEF Patience
  <2>1. NoticesAwaited /\ AskingAlone /\ StoredIsLast
    BY <1>5 DEF IInv, Patience
  <2>2. NoticesAwaited'
    BY <2>1 DEF IInv, TypeOK, NoticesAwaited
  <2>3. AskingAlone'
    BY <2>1 DEF IInv, TypeOK, AskingAlone, Asking, Waits, None
  <2>4. StoredIsLast'
    BY <2>1 DEF IInv, TypeOK, StoredIsLast, None
  <2>. QED
    BY <2>2, <2>3, <2>4
<1>. QED
  BY <1>1, <1>2, <1>3, <1>4, <1>6 DEF IInv

LEMMA Generate_dataInv ==
    ASSUME IInv, NEW x \in Exchange, generate_data(x)
    PROVE  IInv'
<1> USE BoundsAssumption, NumbersPositive DEF generate_data, AfterErase, ingressVars, networkVars, producerVars
<1>1. TypeOK'
  BY DEF IInv, TypeOK
<1>2. EntryOfFetch'
  BY DEF IInv, EntryOfFetch, Underway
<1>3. FromLater'
  BY DEF IInv, FromLater
<1>4. StoredWasPublished' /\ InOrder'
  <2>1. StoredWasPublished'
    BY DEF IInv, TypeOK, StoredWasPublished, Stream, None
  <2>2. InOrder'
    BY DEF IInv, TypeOK, InOrder
  <2>. QED
    BY <2>1, <2>2
<1>5. ~Impatient' => ~Impatient
  BY DEF IInv, TypeOK, Impatient, FromLater
<1>6. Patience'
  <2> SUFFICES ASSUME ~Impatient' PROVE NoticesAwaited' /\ AskingAlone' /\ StoredIsLast'
    BY DEF Patience
  <2>1. NoticesAwaited /\ AskingAlone /\ StoredIsLast
    BY <1>5 DEF IInv, Patience
  <2>2. NoticesAwaited'
    BY <2>1 DEF IInv, TypeOK, NoticesAwaited
  <2>3. AskingAlone'
    BY <2>1 DEF IInv, TypeOK, AskingAlone, Asking, Waits, None
  <2>4. StoredIsLast'
    BY <2>1 DEF IInv, TypeOK, StoredIsLast, None
  <2>. QED
    BY <2>2, <2>3, <2>4
<1>. QED
  BY <1>1, <1>2, <1>3, <1>4, <1>6 DEF IInv

LEMMA PurgeOldContentsInv ==
    ASSUME IInv, purgeOldContents
    PROVE  IInv'
<1> USE BoundsAssumption, NumbersPositive DEF purgeOldContents, ingressVars, networkVars, producerVars
<1>1. TypeOK'
  BY DEF IInv, TypeOK
<1>2. EntryOfFetch'
  BY DEF IInv, EntryOfFetch, Underway
<1>3. FromLater'
  BY DEF IInv, FromLater
<1>4. StoredWasPublished' /\ InOrder'
  BY DEF IInv, StoredWasPublished, InOrder
<1>5. ~Impatient' => ~Impatient
  BY DEF IInv, TypeOK, Impatient, FromLater
<1>6. Patience'
  <2> SUFFICES ASSUME ~Impatient' PROVE NoticesAwaited' /\ AskingAlone' /\ StoredIsLast'
    BY DEF Patience
  <2>1. NoticesAwaited /\ AskingAlone /\ StoredIsLast
    BY <1>5 DEF IInv, Patience
  <2>2. NoticesAwaited'
    BY <2>1 DEF IInv, TypeOK, NoticesAwaited
  <2>3. AskingAlone'
    BY <2>1 DEF IInv, TypeOK, AskingAlone, Asking, Waits, None
  <2>4. StoredIsLast'
    BY <2>1 DEF IInv, TypeOK, StoredIsLast, None
  <2>. QED
    BY <2>2, <2>3, <2>4
<1>. QED
  BY <1>1, <1>2, <1>3, <1>4, <1>6 DEF IInv

LEMMA Purge_old_dataInv ==
    ASSUME IInv, purge_old_data
    PROVE  IInv'
<1> USE BoundsAssumption, NumbersPositive DEF purge_old_data, ingressVars, networkVars, producerVars
<1>1. TypeOK'
  BY DEF IInv, TypeOK
<1>2. EntryOfFetch'
  BY DEF IInv, EntryOfFetch, Underway
<1>3. FromLater'
  BY DEF IInv, FromLater
<1>4. StoredWasPublished' /\ InOrder'
  <2>1. StoredWasPublished'
    BY DEF IInv, TypeOK, StoredWasPublished, Stream, None
  <2>2. InOrder'
    BY DEF IInv, TypeOK, InOrder
  <2>. QED
    BY <2>1, <2>2
<1>5. ~Impatient' => ~Impatient
  BY DEF IInv, TypeOK, Impatient, FromLater
<1>6. Patience'
  <2> SUFFICES ASSUME ~Impatient' PROVE NoticesAwaited' /\ AskingAlone' /\ StoredIsLast'
    BY DEF Patience
  <2>1. NoticesAwaited /\ AskingAlone /\ StoredIsLast
    BY <1>5 DEF IInv, Patience
  <2>2. NoticesAwaited'
    BY <2>1 DEF IInv, TypeOK, NoticesAwaited
  <2>3. AskingAlone'
    BY <2>1 DEF IInv, TypeOK, AskingAlone, Asking, Waits, None
  <2>4. StoredIsLast'
    BY <2>1 DEF IInv, TypeOK, StoredIsLast, None
  <2>. QED
    BY <2>2, <2>3, <2>4
<1>. QED
  BY <1>1, <1>2, <1>3, <1>4, <1>6 DEF IInv

---------------------------------------------------------------------------
LEMMA StutterInv ==
    ASSUME IInv, UNCHANGED vars
    PROVE  IInv'
<1> USE DEF vars, ingressVars, networkVars, producerVars
<1>1. TypeOK' /\ EntryOfFetch' /\ FromLater'
  BY DEF IInv, TypeOK, EntryOfFetch, Underway, FromLater
<1>2. StoredWasPublished' /\ InOrder'
  BY DEF IInv, StoredWasPublished, InOrder
<1>3. Patience'
  BY DEF IInv, Patience, Impatient, NoticesAwaited, AskingAlone, Asking, Waits, StoredIsLast
<1>. QED
  BY <1>1, <1>2, <1>3 DEF IInv

LEMMA NextIInv == IInv /\ [Next]_vars => IInv'
<1> SUFFICES ASSUME IInv, [Next]_vars PROVE IInv'
  OBVIOUS
<1>1. ASSUME NEW n \in Fetch, IngressFetch(n) PROVE IInv'
  BY <1>1, OpenEntryInv, SettleInv, FromNdnSourceHandlerInv, NotifyAgainInv, UnansweredInv,
     RefusedInv, FirstPacketInv DEF IngressFetch
<1>2. ASSUME NEW n \in Fetch, fromNdnProducerHandler(n) PROVE IInv'
  BY <1>2, FromNdnProducerHandlerInv
<1>3. ASSUME NEW x \in Exchange, Expire(x) \/ Producer(x) PROVE IInv'
  BY <1>3, ExpireInv, RequestRetrievedInv, RequestDroppedInv, FromNdnSinkHandlerInv,
     ResponseEndsInv, Generate_dataInv DEF Producer
<1>4. CASE Purge
  BY <1>4, PurgeOldContentsInv, Purge_old_dataInv DEF Purge
<1>5. CASE Finished
  BY <1>5, StutterInv DEF Finished
<1>6. CASE UNCHANGED vars
  BY <1>6, StutterInv
<1>. QED
  BY <1>1, <1>2, <1>3, <1>4, <1>5, <1>6 DEF Next

\* The invariant holds in every state, for any number of fetches and exchanges.
THEOREM Invariance == Spec => []IInv
<1>. QED
  BY InitIInv, NextIInv, PTL DEF Spec

---------------------------------------------------------------------------
(***************************************************************************)
(* The properties.                                                         *)
(***************************************************************************)
\* Every variable keeps its type.
THEOREM TypeCorrect == Spec => []TypeOK
<1>1. IInv => TypeOK
  BY DEF IInv
<1>. QED
  BY Invariance, <1>1, PTL

\* The key has one notification round and one unnumbered Interest at a time,
\* however many fetches of it there are.
THEOREM FetchesAlone == Spec => []FirstInterestAlone
<1>1. IInv => FirstInterestAlone
  BY DEF IInv, EntryOfFetch, FirstInterestAlone
<1>. QED
  BY Invariance, <1>1, PTL

\* The server is asked twice only when the ingress side was impatient.
THEOREM AskedOnce == Spec => []AskedTwiceOnlyIfImpatient
<1>1. IInv => AskedTwiceOnlyIfImpatient
  <2> SUFFICES ASSUME IInv, ~Impatient, NEW x \in Exchange, NEW y \in Exchange,
                      Asking(x), Asking(y) \/ responses = y
               PROVE  x = y
    BY DEF AskedTwiceOnlyIfImpatient
  <2>1. AskingAlone
    BY DEF IInv, Patience
  <2>2. responses # y
    BY <2>1, NumbersPositive DEF AskingAlone, None
  <2>. QED
    BY <2>1, <2>2 DEF AskingAlone
<1>. QED
  BY Invariance, <1>1, PTL

\* No aborted response stays in the map when its generator has ended.
THEOREM AbortedRemoved == Spec => []UncompletedRemoved
<1>1. IInv => UncompletedRemoved
  BY DEF IInv, StoredWasPublished, UncompletedRemoved
<1>. QED
  BY Invariance, <1>1, PTL

\* The erasure by name takes no complete response of an earlier exchange, unless the
\* ingress side was impatient.
THEOREM EarlierKept == Spec => CompletedKept
<1> DEFINE Kept_(x) == generate_data(x) /\ responses' # responses /\ responses < x
                         /\ exchange[responses].stream = "complete" => Impatient
<1>1. ASSUME IInv, NEW x \in Exchange PROVE Kept_(x)
  <2> SUFFICES ASSUME ~Impatient, generate_data(x), responses' # responses, responses < x
               PROVE  FALSE
    OBVIOUS
  <2>1. StoredIsLast
    BY <1>1 DEF IInv, Patience
  <2>2. responses # None /\ exchange[x].pc # "new"
    BY DEF generate_data, AfterErase
  <2>. QED
    BY <2>1, <2>2 DEF StoredIsLast
<1>2. IInv => \A x \in Exchange : Kept_(x)
  BY <1>1
<1>. QED
  BY Invariance, <1>2, PTL DEF CompletedKept

---------------------------------------------------------------------------
(***************************************************************************)
(* The seam with the ingress interpreter: the fetches that this module     *)
(* assumes are those HttpNdnInterpreter starts for a key, one after the    *)
(* other, each settled after its one answer.                               *)
(***************************************************************************)
Stages == [n \in Fetch |-> StageOf(n)]

\* No fetch has begun at first.
LEMMA StagesInit == Init => OfKey!Init
  BY DEF Init, OfKey!Init, StageOf

\* Opening an entry begins a fetch; the entry was free, so the others are settled.
LEMMA OpenEntryBegins ==
  ASSUME IInv, NEW n \in Fetch, OpenEntry(n) PROVE OfKey!Begin(n)
<1>1. /\ fetch[n].pc = "new" /\ fetch'[n].pc = "posted"
      /\ \A m \in Fetch : m # n => fetch'[m] = fetch[m]
      /\ entry = None /\ entry' = n
  BY DEF OpenEntry, IInv, TypeOK
<1>2. \A m \in Fetch : ~Underway(m) /\ entry # m
  BY <1>1, NumbersPositive DEF IInv, EntryOfFetch, None
<1>3. \A m \in Fetch : StageOf(m) \in {"new", "settled"}
  BY <1>2 DEF StageOf
<1>4. StageOf(n) = "new" /\ StageOf(n)' = "begun"
  BY <1>1 DEF StageOf, Underway
<1>5. \A m \in Fetch : m # n => StageOf(m)' = StageOf(m)
  BY <1>1, <1>2 DEF StageOf, Underway, Answered
<1>. QED
  BY <1>3, <1>4, <1>5 DEF OfKey!Begin

\* The entry is taken out when its fetch is answered.
LEMMA SettleSettles ==
  ASSUME IInv, NEW n \in Fetch, Settle(n) PROVE OfKey!Settle(n)
<1>1. fetch[n].pc = "answered" /\ UNCHANGED fetch /\ entry = n /\ entry' = None
  BY DEF Settle, Answered
<1>2. StageOf(n) = "answered" /\ StageOf(n)' = "settled"
  BY <1>1, NumbersPositive DEF StageOf, Underway, Answered, None
<1>3. \A m \in Fetch : m # n => StageOf(m)' = StageOf(m)
  BY <1>1, NumbersPositive DEF StageOf, Underway, Answered, None
<1>. QED
  BY <1>2, <1>3 DEF OfKey!Settle

\* A step of a fetch that is under way answers it, or is not seen.
LEMMA UnderwayStep ==
  ASSUME IInv, NEW n \in Fetch, UNCHANGED entry,
         Underway(n), \A m \in Fetch : m # n => fetch'[m] = fetch[m],
         Underway(n)' \/ Answered(n)'
  PROVE  OfKey!Next \/ UNCHANGED Stages
<1>1. \A m \in Fetch : m # n => StageOf(m)' = StageOf(m)
  BY DEF StageOf, Underway, Answered
<1>2. entry = n /\ StageOf(n) = "begun"
  BY DEF IInv, EntryOfFetch, StageOf, Underway
<1>3. CASE Underway(n)'
  <2>1. StageOf(n)' = "begun"
    BY <1>3 DEF StageOf, Underway
  <2>. QED
    BY <1>1, <1>2, <2>1 DEF Stages
<1>4. CASE Answered(n)'
  <2>1. StageOf(n)' = "answered"
    BY <1>2, <1>4 DEF StageOf, Underway, Answered
  <2>2. OfKey!Answer(n)
    BY <1>1, <1>2, <2>1 DEF OfKey!Answer
  <2>. QED
    BY <2>2 DEF OfKey!Next
<1>. QED
  BY <1>3, <1>4

\* A step that moves no fetch is not seen.
LEMMA FetchStays ==
  ASSUME UNCHANGED entry, \A m \in Fetch : fetch'[m].pc = fetch[m].pc
  PROVE  UNCHANGED Stages
  BY DEF Stages, StageOf, Underway, Answered

LEMMA IngressFollows ==
  ASSUME IInv, NEW n \in Fetch, IngressFetch(n)
  PROVE  OfKey!Next \/ UNCHANGED Stages
<1>1. CASE OpenEntry(n)
  BY <1>1, OpenEntryBegins DEF OfKey!Next
<1>2. CASE Settle(n)
  BY <1>2, SettleSettles DEF OfKey!Next
<1>3. CASE fromNdnSourceHandler(n) \/ NotifyAgain(n)
  <2>1. /\ Underway(n) /\ fetch'[n].pc = "notify" /\ UNCHANGED entry
        /\ \A m \in Fetch : m # n => fetch'[m] = fetch[m]
    BY <1>3 DEF fromNdnSourceHandler, NotifyAgain, Underway, IInv, TypeOK
  <2>2. Underway(n)'
    BY <2>1 DEF Underway
  <2>. QED
    BY <2>1, <2>2, UnderwayStep
<1>4. CASE Unanswered(n) \/ Refused(n) \/ \E x \in Exchange : FirstPacket(n, x)
  <2>1. /\ Underway(n) /\ fetch'[n].pc \in {"fetch", "answered"} /\ UNCHANGED entry
        /\ \A m \in Fetch : m # n => fetch'[m] = fetch[m]
    <3>1. fetch[n].pc \in {"notify", "fetch"} /\ UNCHANGED entry
      BY <1>4 DEF Unanswered, Refused, FirstPacket
    <3>2. fetch'[n].pc = fromNdnConsumerHandler(n) /\ \A m \in Fetch : m # n => fetch'[m] = fetch[m]
      <4>1. CASE Unanswered(n) \/ Refused(n)
        BY <4>1 DEF Unanswered, Refused, IInv, TypeOK
      <4>2. ASSUME NEW x \in Exchange, FirstPacket(n, x)
            PROVE  /\ fetch'[n].pc = fromNdnConsumerHandler(n)
                   /\ \A m \in Fetch : m # n => fetch'[m] = fetch[m]
        BY <4>2 DEF FirstPacket, IInv, TypeOK
      <4>. QED
        BY <1>4, <4>1, <4>2
    <3>. QED
      BY <3>1, <3>2 DEF fromNdnConsumerHandler, Underway
  <2>2. Underway(n)' \/ Answered(n)'
    BY <2>1 DEF Underway, Answered
  <2>. QED
    BY <2>1, <2>2, UnderwayStep
<1>. QED
  BY <1>1, <1>2, <1>3, <1>4 DEF IngressFetch

\* The answer to a notification moves its fetch, or nothing.
LEMMA ProducerHandlerFollows ==
  ASSUME IInv, NEW n \in Fetch, fromNdnProducerHandler(n)
  PROVE  OfKey!Next \/ UNCHANGED Stages
<1>1. CASE UNCHANGED fetch
  BY <1>1, FetchStays DEF fromNdnProducerHandler
<1>2. CASE fetch[n].pc = "notify" /\ fetch' = [fetch EXCEPT ![n].pc = fromNdnConsumerHandler(n)]
  <2>1. /\ Underway(n) /\ fetch'[n].pc = "fetch" /\ UNCHANGED entry
        /\ \A m \in Fetch : m # n => fetch'[m] = fetch[m]
    BY <1>2 DEF fromNdnProducerHandler, fromNdnConsumerHandler, Underway, IInv, TypeOK
  <2>2. Underway(n)'
    BY <2>1 DEF Underway
  <2>. QED
    BY <2>1, <2>2, UnderwayStep
<1>. QED
  BY <1>1, <1>2 DEF fromNdnProducerHandler

LEMMA NextFollows == IInv /\ [Next]_vars => [OfKey!Next]_Stages
<1> SUFFICES ASSUME IInv, [Next]_vars PROVE OfKey!Next \/ UNCHANGED Stages
  OBVIOUS
<1>1. ASSUME NEW x \in Exchange, Expire(x) \/ Producer(x) PROVE UNCHANGED <<entry, fetch>>
  BY <1>1 DEF Expire, Producer, RequestRetrieved, RequestDropped, fromNdnSinkHandler,
              ResponseEnds, generate_data, ingressVars
<1>2. Purge \/ Finished \/ UNCHANGED vars => UNCHANGED <<entry, fetch>>
  BY DEF Purge, purgeOldContents, purge_old_data, Finished, vars, ingressVars
<1>. QED
  BY <1>1, <1>2, IngressFollows, ProducerHandlerFollows, FetchStays DEF Next

\* The fetches of the key have the life that HttpNdnInterpreter gives them, and the
\* resolver answers each of them once.
THEOREM FetchesInTurn == Spec => FetchesFollow
<1>1. IInv /\ [Next]_vars => [OfKey!Next]_([n \in Fetch |-> StageOf(n)])
  BY NextFollows DEF Stages
<1>. QED
  BY StagesInit, <1>1, Invariance, PTL DEF Spec, FetchesFollow, OfKey!Spec
===========================================================================
