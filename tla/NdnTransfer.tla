---------------------------- MODULE NdnTransfer ---------------------------
(***************************************************************************)
(* One content on its way from one gateway to the other.                   *)
(*                                                                         *)
(* The producing NdnResolver cuts the content's raw stream into Data       *)
(* packets while the stream is still being written (generateDataPackets, in *)
(* runs of 16 packets 5 ms apart: the pauses are left out),                *)
(* and answers Interests from the packets made so far, trying again for a  *)
(* while when the packet is not there yet (checkForContent).  The network  *)
(* loses Interests and Data, and may answer from a cache.  The receiving   *)
(* NdnConsumerSubModule asks for one segment after the other, retries, and *)
(* rebuilds the stream; its parent hears of the content once.              *)
(*                                                                         *)
(* The same code runs in both directions: requests are produced by igw and *)
(* retrieved by egw, responses the other way round.                        *)
(***************************************************************************)
EXTENDS SeekableRawStream, FiniteSets

CONSTANTS
    BufferSize,  \* global::DEFAULT_BUFFER_SIZE: the bytes in a full packet
    MaxBytes,    \* bound: the length the writer lets the source stream reach
    Tries,       \* remaining_tries of an Interest whose packet is missing
    Retries      \* how often the consumer expresses an Interest again

ASSUME SizesAssumption ==
    /\ BufferSize \in Nat \ {0} /\ MaxBytes \in Nat
    /\ Tries \in Nat \ {0} /\ Retries \in Nat

VARIABLES
    source,     \* the raw stream of the content at the producer
    gen,        \* the generator: [pc, segment, bytes]
    datas,      \* the packets made so far, by segment (NdnContent::_datas)
    stored,     \* the content is in the producer's _contents
    idle,       \* the content was not accessed for the purge delay
    interests,  \* the Interests the producer is serving: [segment, tries]
    published,  \* the packets put on the network: in flight, or in its caches
    want,       \* the consumer: [pc, named, segment, retries]
    received,   \* the raw stream rebuilt by the consumer
    told        \* how often the consumer's parent was given the content

producerVars == <<source, gen, datas, stored, idle, interests, published>>
consumerVars == <<want, received, told>>
vars == <<source, gen, datas, stored, idle, interests, published, want, received, told>>

Byte == 1 .. MaxBytes
Segment == 0 .. MaxBytes
Packet == [segment : Segment, bytes : Seq(Byte), last : BOOLEAN]

TypeOK ==
    /\ source \in StreamOf(Byte)
    /\ gen \in [pc : {"ready", "mark", "stopped"}, segment : Segment, bytes : Seq(Byte)]
    /\ DOMAIN datas \subseteq Segment
    /\ \A s \in DOMAIN datas : datas[s] \in Packet
    /\ stored \in BOOLEAN /\ idle \in BOOLEAN
    /\ interests \subseteq [segment : Segment, tries : 0 .. Tries]
    /\ published \subseteq Packet
    /\ want \in [pc : {"new", "waiting", "done"}, named : BOOLEAN, segment : Segment,
                 retries : 0 .. Retries]
    /\ received \in StreamOf(Byte)
    /\ told \in Nat

Init ==
    /\ source = NewStream
    /\ gen = [pc |-> "ready", segment |-> 0, bytes |-> <<>>]
    /\ datas = [s \in {} |-> {}]
    /\ stored = TRUE /\ idle = FALSE
    /\ interests = {} /\ published = {}
    /\ want = [pc |-> "new", named |-> FALSE, segment |-> 0, retries |-> Retries]
    /\ received = NewStream
    /\ told = 0

---------------------------------------------------------------------------
(***************************************************************************)
(* The writer of the source stream: an HTTP connection on the other side   *)
(* of the gateway.  The bytes are numbered by their place in the stream.   *)
(***************************************************************************)
Write ==
    /\ ~Ended(source)
    /\ \E n \in Len(source.data) + 1 .. MaxBytes :
          source' = append_raw_data(source, [i \in 1 .. n - Len(source.data) |->
                                                Len(source.data) + i])
    /\ UNCHANGED <<gen, datas, stored, idle, interests, published, consumerVars>>

Complete ==
    /\ ~Ended(source)
    /\ source' = [source EXCEPT !.completed = TRUE]
    /\ UNCHANGED <<gen, datas, stored, idle, interests, published, consumerVars>>

Abort ==
    /\ ~Ended(source)
    /\ source' = [source EXCEPT !.aborted = TRUE]
    /\ UNCHANGED <<gen, datas, stored, idle, interests, published, consumerVars>>

---------------------------------------------------------------------------
(***************************************************************************)
(* generateDataPackets.  Reading the block and asking whether anything is  *)
(* left after it are two steps: the stream may end in between.             *)
(***************************************************************************)
Position == gen.segment * BufferSize

ReadBlock ==
    /\ gen.pc = "ready" /\ readRawData(source, Position, BufferSize) > 0
    /\ gen' = [gen EXCEPT !.pc = "mark", !.bytes = BytesRead(source, Position, BufferSize)]
    /\ UNCHANGED <<source, datas, stored, idle, interests, published, consumerVars>>

\* Not a full block yet: the generator runs again in 5 ms.
WaitForBlock ==
    /\ gen.pc = "ready" /\ readRawData(source, Position, BufferSize) = -1
    /\ UNCHANGED vars

\* Mutant: nothing left for the moment counts as nothing left.
LastSoFar == remainingBytes(source, Position + Len(gen.bytes)) <= 0

\* Mutant: the end is looked for one byte too far.
LastOffByOne == remainingBytes(source, Position + Len(gen.bytes) - 1) = 0

IsLast == remainingBytes(source, Position + Len(gen.bytes)) = 0

\* NdnContent keeps the time of its last access, whatever the access finds.
refresh == idle' = FALSE

\* A packet that is there is not replaced.
addData(p) ==
    /\ datas' = [s \in DOMAIN datas \cup {p.segment} |->
                   IF s \in DOMAIN datas THEN datas[s] ELSE p]
    /\ refresh

AddPacket ==
    /\ gen.pc = "mark"
    /\ addData([segment |-> gen.segment, bytes |-> gen.bytes, last |-> IsLast])
    /\ gen' = [pc |-> "ready", segment |-> gen.segment + 1, bytes |-> <<>>]
    /\ UNCHANGED <<source, stored, interests, published, consumerVars>>

\* Nothing left to read: the generator stops, and drops an aborted content.
StopGenerating ==
    /\ gen.pc = "ready" /\ readRawData(source, Position, BufferSize) = 0
    /\ gen' = [gen EXCEPT !.pc = "stopped"]
    /\ stored' = (stored /\ ~source.aborted)
    /\ UNCHANGED <<source, datas, idle, interests, published, consumerVars>>

\* purgeOldContents, and the 15 or 30 seconds without access that it waits for.
TimePasses ==
    /\ stored /\ ~idle
    /\ idle' = TRUE
    /\ UNCHANGED <<source, gen, datas, stored, interests, published, consumerVars>>

purgeOldContents ==
    /\ stored /\ idle
    /\ stored' = FALSE
    /\ UNCHANGED <<source, gen, datas, idle, interests, published, consumerVars>>

---------------------------------------------------------------------------
(***************************************************************************)
(* The producer serves Interests.  An Interest of the consumer may arrive  *)
(* or be lost; one that names no segment asks for segment 0.  It is tried  *)
(* Tries times at growing intervals, then dropped without an answer.       *)
(***************************************************************************)
fromNdnProducerHandler(segment) ==
    interests' = interests \cup {[segment |-> segment, tries |-> Tries]}

\* NdnProducerSubModule hands every Interest over, and puts every packet that it
\* is given on the face.
onInterest ==
    /\ want.pc = "waiting"
    /\ fromNdnProducerHandler(want.segment)
    /\ UNCHANGED <<source, gen, datas, stored, idle, published, consumerVars>>

publish(p) == published' = published \cup {p}

\* An access, if the content is there to be asked.
findData == IF stored THEN refresh ELSE UNCHANGED idle

Publish(i) ==
    /\ i.tries > 0 /\ stored /\ i.segment \in DOMAIN datas
    /\ findData /\ publish(datas[i.segment])
    /\ interests' = interests \ {i}
    /\ UNCHANGED <<source, gen, datas, stored, consumerVars>>

TryLater(i) ==
    /\ i.tries > 0 /\ ~(stored /\ i.segment \in DOMAIN datas)
    /\ interests' = (interests \ {i}) \cup {[i EXCEPT !.tries = @ - 1]}
    /\ findData
    /\ UNCHANGED <<source, gen, datas, stored, published, consumerVars>>

\* The packet goes to another consumer, and into the network's caches.
PublishToOther ==
    /\ stored
    /\ findData
    /\ \E s \in DOMAIN datas : publish(datas[s])
    /\ UNCHANGED <<source, gen, datas, stored, interests, consumerVars>>

Drop(i) ==
    /\ i.tries = 0
    /\ interests' = interests \ {i}
    /\ UNCHANGED <<source, gen, datas, stored, idle, published, consumerVars>>

---------------------------------------------------------------------------
(***************************************************************************)
(* NdnConsumerSubModule.  One Interest is outstanding at a time; the first *)
(* one carries no segment number, so the network may answer it with any    *)
(* packet of the content that it holds.                                    *)
(***************************************************************************)
\* Mutant: only an unnamed Interest can bring the first segment.
FirstUnlessNamed == ~want.named

IsFirst == ~want.named \/ want.segment = 0

retrieve ==
    /\ want.pc = "new"
    /\ want' = [want EXCEPT !.pc = "waiting"]
    /\ UNCHANGED <<producerVars, received, told>>

\* Another segment than the one wanted: ask for that one by its number.
OtherSegment(p) ==
    /\ want.pc = "waiting" /\ ~want.named /\ p.segment # want.segment
    /\ want' = [want EXCEPT !.named = TRUE, !.retries = Retries]
    /\ UNCHANGED <<producerVars, received, told>>

onData(p) ==
    /\ want.pc = "waiting" /\ p.segment = want.segment
    /\ IF p.last
         THEN /\ received' = [append_raw_data(received, p.bytes) EXCEPT !.completed = TRUE]
              /\ want' = [want EXCEPT !.pc = "done"]
         ELSE /\ received' = append_raw_data(received, p.bytes)
              /\ want' = [pc |-> "waiting", named |-> TRUE, segment |-> want.segment + 1,
                          retries |-> Retries]
    /\ told' = told + (IF IsFirst THEN 1 ELSE 0)
    /\ UNCHANGED producerVars

\* Mutant: a retry is not counted.
TryForEver ==
    /\ want.pc = "waiting" /\ want.retries > 0
    /\ UNCHANGED vars

TryAgain ==
    /\ want.pc = "waiting" /\ want.retries > 0
    /\ want' = [want EXCEPT !.retries = @ - 1]
    /\ UNCHANGED <<producerVars, received, told>>

\* The last retry timed out, or the network refused the Interest.
GiveUp ==
    /\ received' = [received EXCEPT !.aborted = TRUE]
    /\ want' = [want EXCEPT !.pc = "done"]
    /\ told' = told + (IF IsFirst THEN 1 ELSE 0)
    /\ UNCHANGED producerVars

onTimeout == TryAgain \/ (want.pc = "waiting" /\ want.retries = 0 /\ GiveUp)

onNack == want.pc = "waiting" /\ GiveUp

---------------------------------------------------------------------------
Writer == Write \/ Complete \/ Abort
Generator == ReadBlock \/ WaitForBlock \/ AddPacket \/ StopGenerating
Server ==
    \/ onInterest \/ PublishToOther
    \/ \E i \in interests : Publish(i) \/ TryLater(i) \/ Drop(i)
Consumer ==
    \/ retrieve \/ onTimeout \/ onNack
    \/ \E p \in published : onData(p) \/ OtherSegment(p)

Finished == want.pc = "done" /\ gen.pc = "stopped" /\ UNCHANGED vars

Next == Writer \/ Generator \/ TimePasses \/ purgeOldContents \/ Server \/ Consumer \/ Finished

Spec == Init /\ [][Next]_vars

(***************************************************************************)
(* The handlers run.  The writer's own timers end a stream that stalls.    *)
(* The face reports every Interest that gets no answer as timed out.       *)
(* Nothing is assumed of the network: it may lose every packet.            *)
(***************************************************************************)
FairSpec ==
    /\ Spec
    /\ WF_vars(Complete \/ Abort)
    /\ WF_vars(ReadBlock \/ AddPacket \/ StopGenerating)
    /\ WF_vars(retrieve) /\ WF_vars(onTimeout)

---------------------------------------------------------------------------
\* The transfer implements ContentTransfer: what the consumer holds is at any
\* moment a prefix of the source, in order, without gap or repetition, however
\* packets are lost, repeated, late or taken from a cache; it counts as complete
\* only when the source has ended and all of it has arrived.
Transfer == INSTANCE ContentTransfer WITH sent <- source, got <- received
ImplementsTransfer == Transfer!Spec

\* The consumer's parent is told of a content once, with its first segment or
\* with its abort, whichever Interest was answered, mismatched or timed out: this
\* is the single answer per fetch that HttpNdnInterpreter relies on.
ToldOnce ==
    /\ told <= 1
    /\ Ended(received) => told = 1
    /\ told = 1 => Ended(received) \/ received.data # <<>>

\* When the generator has stopped on a complete content, its last packet carries
\* the FinalBlockId, or the content fills its packets exactly: between reading
\* the last full block (155) and asking what is left (158) the stream was not
\* complete yet, and no later packet will say so.
UnendedOnlyAtBlockBoundary ==
    gen.pc = "stopped" /\ source.completed /\ source.data # <<>> =>
        \/ datas[gen.segment - 1].last
        \/ Len(source.data) % BufferSize = 0

\* A retrieval ends, complete or aborted, whatever the network and the writer do.
RetrievalEnds == <>(want.pc = "done")

\* "remove uncompleted content": a content whose source was aborted is never
\* given to the other gateway as a complete one.
UncompletedNeverComplete == received.completed => ~source.aborted
===========================================================================
