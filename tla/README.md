# NDN-HTTP gateway: specifications, model checking and proofs

Three programs share this code base. The **ingress gateway** (`igw`) is an HTTP
proxy that turns requests into NDN contents and fetches the responses over NDN.
The **egress gateway** (`egw`) retrieves those request contents, asks an HTTP
server, and publishes the responses. The **NDN server** (`ndn_server`) is an
egress gateway whose HTTP side is the local file system.

Line numbers in the modules' comments are those of the source file that the
module's header names.

## The system

| Part | State | Operations | Talks to |
|---|---|---|---|
| `SeekableRawStream` | bytes, `_completed`, `_aborted` | append, prepend, remove, read at a position | everything: a stream is read while it is written |
| igw `HttpServer` (4 threads) | `_waiting_sessions`; per session the request, `_http_response`, two timers, a socket | accept, read request, wait, write response, `fromHttpSink` | interpreter (posts) |
| igw `HttpNdnInterpreter` (2 threads) | `_pending_requests`: digest to waiting requests | `computeNames`, `getHttpResponseHeader` | server, resolver (posts) |
| igw `NdnResolver` (4 threads) | `_contents`, `_pendings` | generate packets, serve Interests, notify and fetch, purge | consumer, producer |
| `NdnConsumerSubModule` (1 thread) | one `NdnContent` per retrieval | `retrieve`, `onData`, `onTimeout`, `onNack` | the network, its parent |
| `NdnProducerSubModule` (1 thread) | the face | forward Interests, put Data | the network, its parent |
| egw `NdnResolver` (4 threads) | `_contents` | answer notifications with OK or SKIP, generate packets, serve Interests, purge | as above |
| egw `NdnHttpInterpreter` (2 threads) | `_pending_requests`: request to digest | `get_http_request_header`, `fromHttpSink` | resolver, HTTP side (posts) |
| egw `HttpClient` (4 threads) | per session a socket, a timer, request and response | resolve, connect, write request, read response | interpreter (posts) |
| ndn_server `HttpEngine` (1 thread) | none | `resolve`, `get` | interpreter (posts) |
| `HttpRequest`, `HttpResponse` | fields, parsed flag, a raw stream | read and written as text at five places | the modules that hold them |
| `NdnContent` | packets by segment, freshness, last access | add, find | resolvers, consumer |
| `SHA1` | the words hashed so far, a block's buffer | add bytes, take the digest | igw interpreter |

A request travels: client, `HttpServer` session, igw interpreter (collapsing), igw
resolver (notification, then packets), egw resolver and consumer, egw
interpreter, `HttpClient`; the response travels back the same way, and its
stream is written to the client while it is still being retrieved. Modules call
each other by posting handlers on the other's `io_service`. The streams are the
state they share without posting.

What is hard about it:

- handlers of one module run on several threads; `_pending_requests` and
  `_waiting_sessions` are emptied by whichever thread has the answer;
- a stream's flags and its data are read in separate steps, while a thread of
  another module writes them;
- a timer that expired has its handler queued, and cancelling it comes too late;
- NDN loses, repeats and caches packets; the first Interest carries no segment number;
- every stage can fail before and after its result was handed on.

What makes the parts right: no request is lost, answered twice or given another's
response; an answer finds the session that waits for it; what arrives is a
prefix of what was sent, and complete only when it is whole; every wait,
retrieval and session ends; the maps are emptied.

`PROJECT.json` lists the components, and the hazards at the lines where they bite.

## The modules

**`SeekableRawStream`** models the stream class as operators on a record. Each
is one atomic step of the program: it holds the stream's mutex or reads one
atomic flag. `readRawData` keeps the three outcomes the code depends on: bytes,
-1 for "not a full buffer yet", and 0 for the end, of a completed or of an
aborted stream alike.

**`HttpNdnInterpreter`** models the two handler chains of the ingress interpreter
on a pool of threads: `computeNames` up to the lookup in `_pending_requests`
(`NameRequest`, then `OpenEntry` or `JoinEntry`), `fromNdnSource`, and
`getHttpResponseHeader` cut into reading the flags, reading the data, parsing or
giving up, taking the waiting requests out, and delivering to each. A request is
its digest and whether its stream can be named yet; a response is whether a
header has arrived, and its flags. A missing key in `at()` is an action of its own
(`CollectThrows`), which ends the program. **`RequestCollapsing`** is what that
module promises: per key an exchange is opened, joined, settled for all who wait,
and answered once each. `ImplementsCollapsing` is the refinement, with the keys of
`_pending_requests` as the exchanges in flight. **`FetchesOfKey`** is what it has agreed on
with the resolver, key by key: a fetch begins when the one before is settled, is
answered once, and is settled after that. `FetchesFollow` is the mapping to it.

**`NdnExchange`** models the two resolvers and all the fetches of one key between
them: `fromNdnSourceHandler` with the request stored under its name, the
notification Interest with its retries, `fromNdnProducerHandler` with OK and SKIP,
the retrieval of the request, the HTTP exchange behind it, the response stored by
an `emplace` that does not replace, the erasure of an uncompleted content by its
name, the purge, and caches. Its interpreter is two steps, `OpenEntry` and `Settle`; that
they are those of `HttpNdnInterpreter` is what `FetchesOfKey` is for, which this module
implements too. Contents move as a whole, and without the timestamp that a response's
name carries. `Impatient` is the history of the one thing that lets exchanges meet: an
ingress side that gave up on a notification, or a fetch, that the other side still
worked on. It gives up on a notification by itself (`Unanswered`), or because a nack
told it to with tries left (`Refused`), while the Interest may arrive on another way.

**`NdnTransfer`** models the packets of one content, from its raw stream in one
gateway to the rebuilt stream in the other: `generateDataPackets` /
`generate_data` with the read of a block and the question what is left as two
steps, `checkForContent` with its tries, the purge, a network that may lose, repeat
and cache, and the consumer's `retrieve`, `onData`, `onTimeout` and `onNack`. The
same code runs in both directions. **`ContentTransfer`** is its promise, without
packets: a growing prefix, complete only when whole.

**`HttpServer`** models the sessions of the ingress server: one strand per session,
and `fromHttpSinkHandler` on any other thread. A handler is cut wherever it uses
`_http_response` or the map, so the answer can come between any two of those
places. All three error answers are made in one step (`MakeError`) and filled in the
next, through `_http_response`, whatever that is by then (`FillError`). A length that is
no number throws (`BodyThrows`), and the gateway ends (`Uncaught`). The interpreter is
its specification: it settles any set of nameable requests with one response object, or
discards an aborted one.

**`IngressGateway`** puts the real interpreter in that place: `HttpServer` and
`HttpNdnInterpreter` (as `Interpreting`) side by side, as `igw/main.cpp` attaches them.
What they share is one object in the program and two in the models, and the
composition says how they agree: a request of the server is to the interpreter what
`Seen` makes of its stream, and only until it is named; a response is the
interpreter's (`retrieved`) until its waiting requests are taken out, and the server's
from then on (`HandOver`). A session that reads a header posts the interpreter's handler
in the same step, and an answer is handled by the server once the interpreter has
posted it (`delivered`). `ImplementsParts` says that every behaviour of the composition
is one of each module: what each assumes of the other is so.

**`HttpClient`** models one session of the egress client: the request is read and
written while it arrives; response bodies (`Bodies`) are framed by content-length,
chunks, or the end of the connection, and arrive in pieces cut at any byte. A server can
send more or fewer bytes than it announced, trailers, sizes below 0 and lengths that are
no number; the latter throw out of the handler (`Throw`).
**`HttpSide`** is what an interpreter relies on in it: one answer, nothing in the
response stream before, and then a stream that grows at its end until it ends, once.

**`NdnHttpInterpreter`** models the egress interpreter for several requests at once.
**`HttpSides`** composes it with what answers in each program: `HttpClient` seen
from outside in the egress gateway, and the `HttpEngine` in the NDN server. It is the
same `HttpSide` for every request (`Side(r)`). A session connects, writes, for as long as
the server takes, and reads; the engine can meet an error of the file system, which
throws (`FilesystemError`); an exception in either ends the program. What the client does in one step, an answer
with bytes of the body or with the end in it, the composition does in several.

**`HttpMessages`** models what happens to the text of one request and its response
at the five places that parse or write it: `read_request_header_handler`,
`computeNames` with the digest, the two handlers of the egress interpreter with name
and freshness, and `write_request_header` / `write_response_header`. Text is a
sequence of tokens, each standing for any text without a character the code looks
for. The names of fields are values of a set, with what lower case and trimming make of
each (`LowerCase`, `TrimName`). Its constants are the messages to try. **`Sha1`** is the class that makes the
digests: the buffer, the padding and the block function, on words that are sets of
bits. Its reference is the definition of the padding in the standard, and three known
digests.

The modules `*_proofs` hold theorems. The `MC` modules give the constants that a
`.cfg` cannot write.

## What the runs show

| Run | Bounds | Shows |
|---|---|---|
| `collapsing` | 3 requests (two with one digest), 3 fetches, 2 threads | nothing throws (`NoUncaughtException`), one fetch per key, each request once, the right response, an unparsed response only if there is no header |
| `collapsing_live` | 2 requests of one digest, 2 fetches, 2 threads | every request is answered or discarded; the refinement with its liveness |
| `exchange` | 2 fetches of one key, 2 exchanges, 1 retry | one notification round and one unnumbered Interest at a time; the server is asked twice only if the ingress side was impatient; no aborted response stays stored, no complete one is erased for another; every fetch is answered, once, and the fetches follow one another as the interpreter's do |
| `transfer` | 5 bytes in blocks of 2, 1 retry, 1 try | the refinement of `ContentTransfer`; the parent is told once; the final mark is missing only when the stream ends on a block boundary; retrievals end |
| `gateway` | 2 connections of different digests, one request each, 2 fetches, 1 thread | a client is sent its own error or what was fetched for a request of its own; the composition implements both of its parts |
| `keepalive` | 1 connection, 2 requests, 2 responses, 1 block | dropped answers, lost wake-ups and stale answers happen only in the cases named; the first response is not exchanged while it is written; waits end; the map is emptied |
| `client` | 2 addresses, 2 request blocks, 12 bodies | the refinement of `HttpSide`, completed means all that was announced, the request is sent whole, a silent server is given up on |
| `egress` | 2 requests, 2 blocks, both programs | published names carry the digest, the header is first, requests are given up only without a header, entries are removed, but for requests that have no header or are never written, the file server publishes a response to every request, unless an exception ends it |
| `messages` | 15 first lines, 11 sets of request fields, 3 bodies, 3 status lines, 22 sets of response fields; texts up to 130 bytes for SHA-1 | nothing of a message is lost but what the code rewrites; equal digests mean equal requests, but for what the code leaves out; the names agree but for a query after a slash; the FreshnessPeriod put on packets is one the server allows; the digests are right |

Three runs show disagreements between the code and what its comments say
(`PROJECT.json`, findings):

- `transfer_aborted`: an aborted content ends with a packet that marks it complete;
- `truncated`: a session ends an aborted response as a completed one;
- `names`: of a URL with a query right after a slash the two gateways make different
  names, and the response is never found.

Some properties state the exception that the code makes necessary, and say so in
their comments:

- an answer can be dropped when a body of 1024 bytes or more let the interpreter
  name the request early (`DroppedOnlyLong`);
- a kept-alive connection can be sent the previous request's late answer
  (`OwnAnswer`);
- a request without a header stays in the egress map, and so does one whose session is
  still writing it, as no timer ends a write (`EveryEntryErased` of `HttpSides`);
- an exception that no handler catches ends the program, since `module.h` has no `try`
  around the `io_service`: `stoul` of a content-length (`igw/http_server.cpp:154`,
  `egw/http_client.cpp:203`), `stol` of a chunk size (262, 280), and the calls of
  boost::filesystem without an error code (`ndn_server/http_engine.cpp:107`, 132, 163,
  165). Whatever is promised to end is not promised then (`EveryWaitEnds`,
  `EveryEntryErased`, `EveryReadEnds`, `EveryRequestPublished`);
- a method that `HttpEngine` does not serve, or a file it cannot open, leaves a
  response without an end (`EveryRequestPublished`);
- a server can be asked twice for one request, POST included, when the ingress side
  gives up before the answer, or a nack refused its notification, which arrived all the
  same (`AskedTwiceOnlyIfImpatient`);
- a request aborted between lines 120 and 121 of `egw/http_client.cpp` is sent as if
  it were whole (`RequestSentWhole`);
- a chunked response is complete at its chunk of size 0, before its last line end, for
  which two bytes of a trailer can be taken; and one framed by its length has what came
  after that in the same reads (`CompleteIsWhole`);
- of a response's fields whose names differ only in the blanks around them, one is left
  (`ResponsePreserved`);
- an age so far below 0 that its milliseconds wrap counts as a positive one
  (`FreshnessAllowed`); and nothing is said of a stored response, which is served
  whatever its freshness (`egw/ndn_resolver.cpp:51-59`);
- the names differ for a URL whose first `?` comes right after a slash, when no slash
  comes before its next `?` or its end (`SlashQuery`, in `NamesAgreeButSlashQuery`).

### Why the bounds are enough

Two requests of one digest and a third of another are what it takes to have an
entry opened, joined, taken and opened again while a second key comes and goes.
Two threads are the number `igw/main.cpp` gives that module. Two fetches and two
exchanges let an exchange meet its predecessor's retrieval, response, purge and
erasure; a third fetch, which only a cache serves while the second runs, is beyond
the run and within the proof (`old` in `fetch` is there for it). Five bytes in blocks of two
give two full blocks and a partial one, and with four bytes the block boundary. One
retry and one try reach exhaustion as well as success; the counts in the code (2
and 7) only repeat that. In `gateway` two digests are what
it takes to fetch something foreign, and two connections to send it. `MCIngressGateway`
names what it leaves out: handlers of the two sessions that overlap each other (they
share nothing but the map, and overlap with the interpreter as they like), two bodies,
read timers and second requests, which concern one session and are in `keepalive`. So
no request joins another's entry in `gateway`, and no answer of an earlier request is
left on a connection: those are in `collapsing` and `keepalive`, and put together only
in the proof of `RightAnswer`. In
`truncated` two connections share a response, one writes while the other fails; two requests on a connection are what a stale response
needs. A session does not share anything with others in `HttpClient`, so one is
modelled. The client's bodies have a chunk of one byte, one of two and the last one,
so that a piece can end inside every element of the format; the others have each thing
that a server can get wrong, once. Requests in the egress
interpreter share only the map, so two suffice. The messages have each field that a
program treats by its name, absent, once, and twice, and a URL for each group of the
two regular expressions; 130 bytes are two blocks of SHA-1 and the boundaries of
both, 55, 56, 63 and 64 bytes.

`MaxFetch`, `MaxExchange`, `MaxRequests`, `MaxBlocks` and `MaxBytes` are bounds that
the program does not have. `LongBits` is 14 instead of 64, so that the products of
the freshness overflow with small numbers.

Symmetry is used in two runs without liveness: over threads and fetches in `collapsing`;
in `gateway` over the fetches, and over the two connections together with their digests.
No property names one of them.

### Fairness

- Handlers: weak fairness of each session's or request's next step; the
  `io_service` runs what was posted. In `HttpNdnInterpreter` the start of a handler
  has strong fairness: the threads are busy again and again, and handlers are
  served in the order they were posted.
- Timers that end something: the session's 15 seconds, the read timer of the
  client, the retries of the resolvers.
- NDN: the face reports every Interest as answered, refused or timed out. No
  packet is assumed to arrive.
- Nothing is assumed of HTTP clients and servers, but that a retrieval, or a
  response that is being read, ends: `EveryReadEnds` and `RetrievalEnds` show that it
  does. A write may block for ever: the code has no timer for it, and no property
  speaks of a write ending. So in `HttpSides` a session that is writing is not assumed to
  go on, and `EveryEntryErased` promises nothing of its request.
- In none of the programs anything goes on once an exception has ended it.

## What is proved

Each theorem holds for every value of the constants: any number of requests,
threads, connections, fetches, exchanges, tries, blocks.

| Module | Proves | From |
|---|---|---|
| `HttpNdnInterpreter_proofs` | the five invariants of `collapsing`; the initial states and steps of `RequestCollapsing`, and for every key those of `FetchesOfKey` | `Sha1Assumption` |
| `NdnExchange_proofs` | all safety properties of `exchange`, among them `FetchesFollow`: that it implements `FetchesOfKey` | `BoundsAssumption` |
| `IngressGateway_proofs` | of `HttpServer`: `DroppedOnlyLong`, `AnswerWakesSession`, `OwnAnswer`, `HeadFixesResponse`; of the composition: that it implements both parts (`ImplementsParts`), `RightAnswer`, `NoUncaughtException` with the real server, and that the call of `fromHttpSink` the server counts on is made (`NoAnswerForgotten`) | `BoundsAssumption`, `UpstreamAssumption` (responses and requests are different objects), `DigestsAssumption` |
| `HttpClient_proofs` | `CompleteIsWhole`, `RequestSentWhole`; that a session implements `HttpSide`; `AnsweredOnce`, which is in no run | `ConstantsAssumption` (what the tokens of a body are; nothing about their order) |
| `HttpSides_proofs` | `NamedByDigest`, `HeaderFirst`, `GivenUpOnlyIfHeaderless`; that the HTTP side of either program implements `HttpSide` | `BlocksAssumption` |
| `NdnTransfer_proofs` | all safety properties of `transfer`; that `NdnTransfer` implements `ContentTransfer` | `SizesAssumption` |
| `HttpMessages_proofs` | `RequestPreserved`, `ResponsePreserved`, `SameDigestSameRequest`, `FreshnessAllowed`, `NamesAgreeButSlashQuery` | `MessagesAssumption`, `TextAssumption`, `NumbersAssumption` (`uri_encode` is injective, a long has some width, lines are text; lower case and trimming can be done in either order) |
| `Sha1_proofs` | `StreamedAsWhole` (a part of `DigestsRight`) for every `MaxLength`, and `PiecesAsWhole`: the same for any two texts | `LengthAssumption` |

and each but the last two the type invariant (`TypeCorrect`), which is in no run. Each but the last has an inductive invariant `IInv`, one lemma per action,
one to put them together, and `Invariance`. None of the properties is inductive by
itself:

- **Collapsing.** `NoUncaughtException` needs to know that the key of a fetch is in the
  map as long as the fetch is live (`EntriesAreLive`); that this survives another
  thread's erasure needs `OneFetchPerKey`; and that no second thread works on the
  same fetch, and would erase for it, needs `ThreadOwnsJob`, which ties a thread's
  place in its handler to the phase of what it works on. `RightKeys` says that a
  thread delivers requests of its fetch's digest. `HeaderInv` is kept apart: a thread
  that saw the stream complete and copied it without a header knows that there is
  none, since a completed stream gets no more data.
- **Exchanges.** `Patience` says what keeps a second exchange from being started while
  the ingress side waits for the first: each notification on its way belongs to the
  fetch that waits (`NoticesAwaited`), an exchange that still asks its server is the
  only and the last one and has somebody waiting (`AskingAlone`), and nothing was begun
  after the one whose response is stored (`StoredIsLast`). It is what
  `AskedTwiceOnlyIfImpatient` and `CompletedKept` follow from. `EntryOfFetch` gives
  `FirstInterestAlone`.
- **Fetches of a key.** `NdnExchange` follows one key, with an interpreter that has one
  entry; `HttpNdnInterpreter` has many keys, and a resolver that answers each fetch once.
  `FetchesInTurn`, in both modules, says that the fetches of a key have the same life in
  either: the interpreter moves one to `begun` only if the others are `new` or
  `settled`, by `EntriesAreLive`, and to `settled` only from `answered`, by
  `ThreadOwnsJob`; the resolver answers none twice and none that has not begun, by
  `EntryOfFetch`. So what each takes for granted of the other is so, whatever the threads
  and the network do; `FetchesOfKey` has no fairness.
- **Sessions.** That no foreign answer is written rests on `Origin`: what a session has
  in `_http_response` is the error of its request or an answer to a request of its own
  connection. It survives an answer that comes late since answers are only posted
  for requests the connection has brought (`Answered`, `Future`). `DroppedOnlyLong` and
  `AnswerWakesSession` follow from what is known of a request whose stream is not
  complete (`Unfinished`): if it has an answer, it is long. `HeadFixesResponse` is an
  action property from `FirstEntry`: a first request is in the map only while its
  session has no response, or is about to leave the map; so no answer finds it once its
  header is written.
- **Gateway.** `GatewayInv` is the invariants of both parts and `Joint`, what they know
  of each other: a request is new to the interpreter exactly until it is submitted, and
  is not aborted by then (`Submissions`); a request that was named stays nameable, and a
  discarded one aborted (`Findings`); a settled request waits in no entry
  (`SettledOnce`); a response that the server has is of a collected fetch, and the
  answer of a request, of a fetch for its digest (`Answers`). From these each
  step of the gateway is a step of each part, or leaves it as it is (`ServerRefines`,
  `InterpreterRefines`). So what was proved of each part carries over without being proved
  again, and `RightAnswer` joins two of its ends: `OwnAnswer` leads from a session to a
  request of its connection, `Answers` from there to the fetch. `NoAnswerForgotten` is about
  a set that the program does not have, the answers the server was promised when a fetch
  was collected; it holds since the thread that collects keeps the requests it has to
  answer until each has been answered. The proof corrected both
  models: the interpreter can find the first bytes of a body there at once, and the
  server can be given a response that is parsed and already complete or aborted.
- **Client.** `BodySoFar` is about the place in the wire: what was appended is the
  beginning of the body and has arrived, whatever the reads were and whatever the server
  sends. `AnsweredSoFar` says for each place
  in the code whether the interpreter has been answered and the stream has ended. Two
  streams that are beginnings of one body continue each other (`Grown`), so every step is
  one of `HttpSide` or leaves it as it is; this is the whole refinement, since `HttpSide`
  has no fairness.
- **Egress.** `SeenIsSo` is the reading of the flag before the data; `Remembered`, that
  the entry outlives the HTTP exchange; `BodyInOrder`, that the stream is a beginning
  of the body, with the header in front of it from one step on, whatever the HTTP
  client appends around it. For the refinement of `HttpSide` it gives the body in the
  stream with the header taken away (`BodyIn`), and `Untouched` adds that a stream is not
  aborted before its request is answered.
- **Transfer.** The source's bytes are numbered, so a packet is right when it is the cut
  of the source at its segment (`PacketsCut`): full, or short and the last of a source
  that has ended. `PublishedMade` says that a cache has nothing else, however old, and
  `ReceivedSoFar` that the consumer holds exactly the segments before the one it
  waits for; so the next packet fits, and one that is marked last makes it whole.
  `UnendedOnlyAtBlockBoundary` comes from the two reads of the generator
  (`GeneratedSoFar`), `ToldOnce` from `ToldSoFar`. Every step of the transfer is then
  a step of `ContentTransfer` or a stutter; `ContentTransfer` has no fairness, so
  this is the whole refinement.
- **Messages.** `IInv` says what each text was made of, so that the properties are about
  operators. The prover has no induction over data: where one is needed, there is the
  least place that would break the claim, which exists by `MinOf`. `FieldsNamedAre` gives
  what the fold over header lines computes, the last value of each name before the
  line without a colon; `RoundTrip`, that fields written as lines and read again are
  the same fields (`WrittenLines` and `ReadAgain` are its two halves); and `TrimmedParsed`,
  which of the fields of a response come through the trimming of names. `EndsAgree` says for which URLs the two regular expressions end the
  path at one place: the attempt to prove it from an earlier, simpler exception found
  the URL `/?a?b/c`, which the list of messages has since. `SameDigest` rests on the
  lines of different fields being different. In `FreshnessIs` the wrapped product of
  an age is never more than the product, but for ages far below 0. `Half` stays a
  name for half the range of a long, since the prover does not know powers; that it
  is positive is assumed and evaluated by TLC.
- **SHA-1.** An object that holds a text (`Holding`) has hashed its first blocks, and
  has the rest in its buffer. `ResetHolds`, `AddHolds` and `DigestHolds` say so of
  the empty text, of a text after `add`, and after `getHash`; so any sequence of
  calls is covered, and `PiecesAsWhole` is the one with a digest in between. `AddHolds`
  goes by what fills the buffer (`Filled`), the blocks hashed where they are
  (`BlocksGathered`) and the rest (`KeepGathers`). `DigestHolds` compares the bytes that
  `processBuffer` writes with those of the padded text, place by place (`PaddedAt`).

What is only model-checked: everything under fairness (`EveryRequestServed`,
`EveryFetchAnswered`, `RetrievalEnds`, `EveryWaitEnds`, `EveryEntryErased`,
`EveryReadEnds`, `EveryRequestPublished`, and the liveness part of the refinement of
`RequestCollapsing`), since the prover does not do liveness under fairness; and `Sha1`
(the rest of `DigestsRight`): what its recursive functions over words compute is
checked on known digests only.

## What is not modelled

- Durations, except for which timers exist and what they end.
- That a stored response is too old when it is answered with SKIP: the code does not
  ask for its freshness (`egw/ndn_resolver.cpp:51-59`), and neither does the model. Of a
  date of expiry only that it gives no negative freshness is checked.
- The timestamp in a response's name: the packets after the first are asked for with it,
  so a body can be put together from two responses only if both have the same one.
- The branch of the ingress resolver with `_pendings` and `waitContentCompletion`
  (`igw/ndn_resolver.cpp:57`): nothing reaches it.
- MIME types, the text of listings and error pages, logs.
- The width of the ingress server's length counters (`size_t`); that a body can overrun
  its content-length and then never ends is an outcome of `ReadBody`. `HttpClient` has the
  width.
- Exceptions of sockets, timers and memory: only those of text and of the file system.
- Undefined behaviour: the unsynchronised `NdnContent::_datas`, the asynchronous
  write of a temporary string. The unsynchronised assignment of a session's
  `_http_response` is modelled as an atomic step at any point.
- An error of `accept()`, after which the server accepts no more: one branch, with
  nothing that could interleave with it.
- Registering the prefix at the local forwarder, whose failure is only logged.
- SHA-1 of messages of 2^31 bits and more.
- `main.cpp`, but for which HTTP side each program has, and the machinery of
  threads. The interfaces between the modules have no code.

## Plan

Done: the stream, both interpreters, both resolvers, the packets, both HTTP ends, the
ingress gateway as a whole, the file server, the messages and SHA-1; proofs of eight
modules. What is left:

1. The fetches of `IngressGateway` answered by `NdnExchange`, and their streams by
   `NdnTransfer`, as the composition of the two resolvers.
2. The freshness of stored responses.
