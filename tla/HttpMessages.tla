---------------------------- MODULE HttpMessages ---------------------------
(***************************************************************************)
(* One request and its response on their way through both programs, as     *)
(* text: what HttpServer reads from the client, what computeNames makes of *)
(* it, what the producing program reads from the NDN content and sends to  *)
(* the server, and the same for the response, with the name and freshness  *)
(* it is published under.                                                  *)
(*                                                                         *)
(* Text is a sequence of tokens.  A token without "/", "?", "." or ":" in  *)
(* it stands for any run of such characters, ".css" for an extension.      *)
(* Every message here arrives whole: the other modules have its pieces.    *)
(***************************************************************************)
EXTENDS Integers, Sequences, SequencesExt

CONSTANTS
    FirstLine,     \* the request lines of clients: method, url, version
    RequestLines,  \* the header lines of requests
    Body,          \* their bodies, in blocks of 1024 bytes
    StatusLine,    \* the status lines of servers: version, status_code, reason
    ResponseLines, \* the header lines of responses
    LowerCase,     \* tolower, for the names in use
    TrimName,      \* the same names without the blanks before and after them
    Escape,        \* uri_encode's escape of each token
    Stol,          \* the numbers among the tokens, as std::stol reads them
    Date,          \* the dates among the tokens, in ms
    Now,           \* the time of the response
    LongBits       \* the width of long

\* A long holds the numbers from -Half to Half - 1.
Half == 2 ^ (LongBits - 1)

HeaderLine == [name : STRING, value : Seq(STRING)]

\* The empty line that ends a header, or any line without a colon.
NoColon == [name |-> "", value |-> <<>>]

ASSUME MessagesAssumption ==
    /\ LongBits \in Nat \ {0} /\ Half \in Nat \ {0} /\ Now \in Nat
    /\ \A t, u \in DOMAIN Escape : Escape[t] = Escape[u] => t = u

ASSUME TextAssumption ==
    /\ FirstLine \subseteq [method : STRING, url : Seq(STRING), version : STRING]
    /\ StatusLine \subseteq [version : STRING, status_code : STRING, reason : STRING]
    /\ RequestLines \cup ResponseLines \subseteq Seq(HeaderLine)
    /\ \A lines \in RequestLines \cup ResponseLines : \A i \in DOMAIN lines :
          lines[i] = NoColon \/ lines[i].name \in DOMAIN LowerCase
    /\ LowerCase \in [DOMAIN LowerCase -> DOMAIN LowerCase]
    /\ TrimName \in [DOMAIN LowerCase -> DOMAIN LowerCase]
    /\ \A n \in DOMAIN LowerCase :
          /\ n \in STRING /\ LowerCase[LowerCase[n]] = LowerCase[n]
          /\ LowerCase[TrimName[n]] = TrimName[LowerCase[n]]
    /\ "connection" \in DOMAIN LowerCase /\ LowerCase["connection"] = "connection"

\* No directive is read as a number, and a date in ms fits into a long.
ASSUME NumbersAssumption ==
    /\ Stol \in [DOMAIN Stol -> Int] /\ {"s-maxage", "max-age"} \cap DOMAIN Stol = {}
    /\ Date \in [DOMAIN Date -> Int] /\ \A d \in DOMAIN Date : Date[d] < Half

VARIABLES
    stage,      \* how far the exchange is
    sent,       \* what the client sent
    request,    \* the HttpRequest of the ingress gateway
    asked,      \* the name under which it wants the response, with the digest
    content,    \* the header at the start of the NDN content on its way
    served,     \* the HttpRequest of the producing program
    received,   \* what the server sent
    response,   \* the HttpResponse of the producing program
    published,  \* the name and freshness of the response's content
    answer      \* the header that is written to the client

vars == <<stage, sent, request, asked, content, served, received, response,
          published, answer>>

---------------------------------------------------------------------------
(***************************************************************************)
(* HttpRequest and HttpResponse, and header lines.                         *)
(***************************************************************************)
NoFields == [n \in {} |-> <<>>]
NoRequest == [method |-> "", path |-> <<>>, query |-> <<>>, extension |-> "",
              version |-> "", fields |-> NoFields]
NoResponse == [version |-> "", status_code |-> "", reason |-> "", fields |-> NoFields]

get_field(fields, n) == IF n \in DOMAIN fields THEN fields[n] ELSE <<>>

\* Mutant: a field that is there is not set again.
insert_field(fields, n, v) == fields @@ (n :> v)

set_field(fields, n, v) ==
    [m \in {n} \cup DOMAIN fields |-> IF m = n THEN v ELSE fields[m]]

unset_field(fields, n) == [m \in DOMAIN fields \ {n} |-> fields[m]]

has_minimal_requirements(r) ==
    r.method # "" /\ r.path # <<>> /\ r.version # "" /\ "host" \in DOMAIN r.fields

CompleteResponse(r) == r.version # "" /\ r.status_code # ""

\* In the order of the std::map, which is left open.
FieldLines(fields) ==
    SetToSeq({[name |-> n, value |-> <<" ">> \o fields[n]] : n \in DOMAIN fields})

make_request_header(r) ==
    [first |-> [method |-> r.method, url |-> r.path \o r.query, version |-> r.version],
     lines |-> FieldLines(r.fields)]

make_response_header(r) ==
    [first |-> [version |-> r.version, status_code |-> r.status_code, reason |-> r.reason],
     lines |-> FieldLines(r.fields)]

IsText(t) == t # " "
LeftTrim(v) ==
    LET k == SelectInSeq(v, IsText) IN IF k = 0 THEN <<>> ELSE SubSeq(v, k, Len(v))
RightTrim(v) == SubSeq(v, 1, SelectLastInSeq(v, IsText))

\* The fields end with the first line that has no colon.
FieldsNamed(naming, lines) ==
    LET end == SelectInSeq(lines, LAMBDA l : l = NoColon)
        Set(fields, l) == set_field(fields, naming[l.name], LeftTrim(l.value))
    IN FoldLeft(Set, NoFields, IF end = 0 THEN lines ELSE SubSeq(lines, 1, end - 1))

FieldsOf(lines) == FieldsNamed(LowerCase, lines)

---------------------------------------------------------------------------
(***************************************************************************)
(* The two regular expressions for a URL.  A path ends where the URL does, *)
(* or before a "?".  The egress one takes the first such place.  In the    *)
(* ingress one an optional group, that eats at least one character up to   *)
(* the place but no "/", is tried before it is skipped.                    *)
(***************************************************************************)
First(s, t) == SelectInSeq(s, LAMBDA u : u = t)

From(s, k) == SubSeq(s, k, Len(s))

PathEnds(u) == {e \in DOMAIN u : e = Len(u) \/ u[e + 1] = "?"}

EgressPathEnd(u) == Min(PathEnds(u))

\* Mutant: the query stays with the path.
UrlEnd(u) == Len(u)

IngressPathEnd(u) ==
    LET Eaten(s) == {e \in PathEnds(u) : e > s /\ \A i \in s + 1 .. e : u[i] # "/"}
        s == Min({k \in DOMAIN u : Eaten(k) # {} \/ k \in PathEnds(u)})
    IN IF Eaten(s) # {} THEN Min(Eaten(s)) ELSE s

\* A scheme and an authority may come before the path, when a "/" follows them.
PathPart(url) ==
    LET afterScheme == IF Len(url) > 2 /\ SubSeq(url, 1, 3) = <<"http:", "/", "/">>
                       THEN From(url, 4) ELSE url
        part == IF First(afterScheme, "/") > 0 THEN afterScheme ELSE url
    IN IF First(part, "/") = 0 THEN <<>> ELSE From(part, First(part, "/"))

StaticExtensions == {".css"}

ExtensionOf(path) ==
    LET n == Len(path) IN
    IF n > 1 /\ path[n] \in StaticExtensions /\ path[n - 1] # "/" THEN path[n] ELSE ""

\* read_request_header_handler, of an ingress session.
ReadRequest(first, lines) ==
    LET part == PathPart(first.url)
        end == IF part = <<>> THEN 0 ELSE IngressPathEnd(part)
        path == SubSeq(part, 1, end)
    IN [method |-> first.method, path |-> path, query |-> From(part, end + 1),
        extension |-> ExtensionOf(path), version |-> first.version,
        fields |-> FieldsOf(lines)]

\* get_http_request_header, of the producing program, where nothing asks for the
\* extension.
ParseRequest(text) ==
    LET url == text.first.url
        end == EgressPathEnd(url)
    IN [method |-> text.first.method, path |-> SubSeq(url, 1, end),
        query |-> From(url, end + 1), extension |-> "",
        version |-> text.first.version, fields |-> FieldsOf(text.lines)]

---------------------------------------------------------------------------
(***************************************************************************)
(* Names.                                                                  *)
(***************************************************************************)
\* What std::getline(stream, piece, sep) yields: no empty piece at the end.
Pieces(s, sep) ==
    LET cuts == <<0>> \o SetToSortSeq({i \in DOMAIN s : s[i] = sep}, <) \o <<Len(s) + 1>>
        all == [i \in 1 .. Len(cuts) - 1 |-> SubSeq(s, cuts[i] + 1, cuts[i + 1] - 1)]
    IN IF Last(all) = <<>> THEN Front(all) ELSE all

DomainTokens(host) ==
    LET port == First(host, ":")
    IN Reverse(Pieces(IF port = 0 THEN host ELSE SubSeq(host, 1, port - 1), "."))

uri_encode(piece) == [i \in DOMAIN piece |-> Escape[piece[i]]]

PathTokens(path) ==
    LET pieces == SelectSeq(Pieces(path, "/"), LAMBDA p : p \notin {<<>>, <<".">>, <<"..">>})
    IN [i \in DOMAIN pieces |-> uri_encode(pieces[i])]

NameOf(r) == DomainTokens(get_field(r.fields, "host")) \o PathTokens(r.path)

---------------------------------------------------------------------------
(***************************************************************************)
(* computeNames.  SHA-1 is taken to tell texts apart.                      *)
(***************************************************************************)
OnlySdch(fields) ==
    IF ", sdch" \in Range(get_field(fields, "accept-encoding"))
    THEN set_field(fields, "accept-encoding", <<", sdch">>) ELSE fields

NoProxyConnection(fields) ==
    IF get_field(fields, "proxy-connection") # <<>>
    THEN unset_field(set_field(fields, "connection", fields["proxy-connection"]),
                     "proxy-connection")
    ELSE fields

Normalised(r) == [r EXCEPT !.fields = NoProxyConnection(OnlySdch(r.fields))]

ClientFields == {"user-agent", "accept", "accept-language", "cookie"}

\* Mutant: the fields are left out of every digest.
WithoutClientFields(r) ==
    [r EXCEPT !.fields = [n \in DOMAIN r.fields \ ClientFields |-> r.fields[n]]]

ForDigest(r) == IF r.extension \in StaticExtensions THEN WithoutClientFields(r) ELSE r

FirstBlock(body) == IF body = <<>> THEN <<>> ELSE <<Head(body)>>

Digest(r, body) == <<make_request_header(ForDigest(r)), FirstBlock(body)>>

---------------------------------------------------------------------------
(***************************************************************************)
(* setNdnMessageCachability.                                               *)
(***************************************************************************)
Long(n) == ((n + Half) % (2 * Half)) - Half

\* The number after the first "=" that follows the directive; none: 0.
AgeAfter(value, directive) ==
    LET sub == From(value, First(value, directive))
        age == LeftTrim(From(sub, First(sub, "=") + 1))
    IN IF age # <<>> /\ age[1] \in DOMAIN Stol THEN Long(1000 * Stol[age[1]]) ELSE 0

\* Mutant: the age for private caches goes first.
PrivateFirst == <<"max-age", "s-maxage">>

AgeDirectives == <<"s-maxage", "max-age">>

Uncacheable(fields) ==
    \/ get_field(fields, "pragma") = <<"no-cache">>
    \/ Range(get_field(fields, "cache-control")) \cap {"no-store", "no-cache", "private"} # {}

\* An expiry date can be past, and an age too large for milliseconds in a long.
Wish(fields) ==
    LET cache_control == get_field(fields, "cache-control")
        given == {i \in DOMAIN AgeDirectives : AgeDirectives[i] \in Range(cache_control)}
        expires == get_field(fields, "expires")
    IN IF Uncacheable(fields) THEN 0
       ELSE IF given # {} THEN AgeAfter(cache_control, AgeDirectives[Min(given)])
       ELSE IF Len(expires) = 1 /\ expires[1] \in DOMAIN Date THEN Date[expires[1]] - Now
       ELSE 0

Freshness(fields) == IF Wish(fields) < 0 THEN 0 ELSE Wish(fields)

---------------------------------------------------------------------------
Nothing == <<>>

Init ==
    /\ stage = "connected"
    /\ sent = Nothing /\ asked = Nothing /\ content = Nothing
    /\ request = NoRequest /\ served = NoRequest
    /\ received = Nothing /\ response = NoResponse
    /\ published = Nothing /\ answer = Nothing

AvailableMethods == {"DELETE", "HEAD", "GET", "OPTIONS", "PATCH", "POST", "PUT", "TRACE"}

\* An answer the gateway makes itself.
OwnAnswer(status) ==
    [first |-> [version |-> "HTTP/1.1", status_code |-> status, reason |-> ""],
     lines |-> <<[name |-> "connection", value |-> <<" ", "close">>]>>]

read_request_header_handler(first, lines, body) ==
    /\ stage = "connected"
    /\ sent' = [first |-> first, lines |-> lines, body |-> body]
    /\ request' = ReadRequest(first, lines)
    /\ \/ /\ ~has_minimal_requirements(request')
          /\ answer' = OwnAnswer("400") /\ stage' = "answered"
       \/ /\ has_minimal_requirements(request')
          /\ request'.method \notin AvailableMethods
          /\ answer' = OwnAnswer("501") /\ stage' = "answered"
       \/ /\ has_minimal_requirements(request')
          /\ request'.method \in AvailableMethods
          /\ stage' = "read"
          /\ UNCHANGED answer
    /\ UNCHANGED <<asked, content, served, received, response, published>>

\* The header goes into the stream before the fields are left out of the digest.
computeNames ==
    /\ stage = "read"
    /\ LET r == Normalised(request) IN
         /\ content' = make_request_header(r)
         /\ request' = ForDigest(r)
         /\ asked' = [name |-> NameOf(r), digest |-> Digest(r, sent.body)]
    /\ stage' = "named"
    /\ UNCHANGED <<sent, served, received, response, published, answer>>

\* The producing program reads the header, and HttpClient writes it again.
get_http_request_header ==
    /\ stage = "named"
    /\ served' = ParseRequest(content)
    /\ content' = Nothing
    /\ stage' = IF has_minimal_requirements(served') THEN "served" ELSE "lost"
    /\ UNCHANGED <<sent, request, asked, received, response, published, answer>>

\* A status line without a second blank (170), or with nothing between the two,
\* fails the exchange.
read_response_header_handler(first, lines) ==
    /\ stage = "served"
    /\ received' = [first |-> first, lines |-> lines]
    /\ response' = [version |-> first.version, status_code |-> first.status_code,
                    reason |-> first.reason, fields |-> FieldsOf(lines)]
    /\ stage' = IF CompleteResponse(response') THEN "responded" ELSE "lost"
    /\ UNCHANGED <<sent, request, asked, content, served, published, answer>>

\* The digest is the one that _pending_requests kept with the request.
fromHttpSinkHandler ==
    /\ stage = "responded"
    /\ published' = [name |-> NameOf(served), digest |-> asked.digest,
                     freshness |-> Freshness(response.fields)]
    /\ content' = make_response_header(response)
    /\ stage' = "published"
    /\ UNCHANGED <<sent, request, asked, served, received, response, answer>>

\* Of a response, blanks after the value go too, and those around the name.
TrimmedName == [n \in DOMAIN LowerCase |-> TrimName[LowerCase[n]]]

TrimmedFields(lines) ==
    LET fields == FieldsNamed(TrimmedName, lines)
    IN [n \in DOMAIN fields |-> RightTrim(fields[n])]

\* getHttpResponseHeader and write_response, when the response is published under
\* the name that was asked for.
getHttpResponseHeader ==
    /\ stage = "published"
    /\ published.name = asked.name /\ published.digest = asked.digest
    /\ answer' = [first |-> content.first, lines |-> FieldLines(TrimmedFields(content.lines))]
    /\ stage' = "answered"
    /\ UNCHANGED <<sent, request, asked, content, served, received, response, published>>

\* Otherwise the session waits for 15 seconds.
write_response ==
    /\ \/ stage = "lost"
       \/ stage = "published" /\ published.name # asked.name
    /\ answer' = OwnAnswer("504")
    /\ stage' = "answered"
    /\ UNCHANGED <<sent, request, asked, content, served, received, response, published>>

Next ==
    \/ \E first \in FirstLine, lines \in RequestLines, body \in Body :
          read_request_header_handler(first, lines, body)
    \/ computeNames \/ get_http_request_header
    \/ \E first \in StatusLine, lines \in ResponseLines :
          read_response_header_handler(first, lines)
    \/ fromHttpSinkHandler \/ getHttpResponseHeader \/ write_response
    \/ stage = "answered" /\ UNCHANGED vars

Spec == Init /\ [][Next]_vars

---------------------------------------------------------------------------
\* The last value of each field up to a line without a colon, blanks removed: what
\* a sequence of header lines means to this program.
Meaning(lines) ==
    LET upTo == {i \in DOMAIN lines : \A j \in 1 .. i : lines[j] # NoColon}
        Of(n) == {i \in upTo : LowerCase[lines[i].name] = n}
        names == {LowerCase[lines[i].name] : i \in upTo}
    IN [n \in names |-> LeftTrim(RightTrim(lines[Max(Of(n))].value))]

NoTrailing(fields) == [n \in DOMAIN fields |-> RightTrim(fields[n])]

\* What the server is asked is what the client asked: method, version, path and
\* query, and every field's last value, but for the two rewritten by computeNames.
RequestPreserved ==
    stage = "served" =>
       LET expected == Meaning(sent.lines) IN
       /\ served.method = sent.first.method /\ served.version = sent.first.version
       /\ served.path \o served.query = PathPart(sent.first.url)
       /\ NoTrailing(served.fields) = NoProxyConnection(OnlySdch(expected))

\* What the client gets is what the server sent, every field with its last value, but
\* that names lose the blanks around them: then of names that differ in nothing else
\* only one is left, with the value of one of them.
ResponsePreserved ==
    stage = "answered" /\ published # Nothing /\ published.name = asked.name =>
       LET got == Meaning(answer.lines)
           gave == Meaning(received.lines)
       IN /\ answer.first = received.first
          /\ DOMAIN got = {TrimName[n] : n \in DOMAIN gave}
          /\ \A n \in DOMAIN got : \E m \in DOMAIN gave : TrimName[m] = n /\ got[n] = gave[m]

\* Requests are answered with one response only when they agree in what the server
\* is sent of them, the four fields left out for static files and the body after
\* its first 1024 bytes excepted.
Sent == {<<Normalised(ReadRequest(f, l)), b>> : f \in FirstLine, l \in RequestLines, b \in Body}

SameDigestSameRequest ==
    stage = "named" =>
       LET r == Normalised(ReadRequest(sent.first, sent.lines)) IN
       \A other \in Sent :
          Digest(other[1], other[2]) = asked.digest =>
             /\ WithoutClientFields(other[1]) = WithoutClientFields(r)
             /\ r.extension \notin StaticExtensions => other[1] = r
             /\ FirstBlock(other[2]) = FirstBlock(sent.body)

\* The FreshnessPeriod put on a response's packets is never longer than the age the
\* server allows shared caches, and 0 when it forbids them to keep it: wrapped and
\* unreadable ages included, but for an age so far below 0 that its milliseconds wrap
\* to a positive number.  It is never negative, past dates of expiry included.  Of the
\* stored response, which is served whatever its freshness, this says nothing.
FreshnessAllowed ==
    published # Nothing =>
       LET fields == response.fields
           control == get_field(fields, "cache-control")
           Allows(d) == \E i, j \in DOMAIN control :
                          /\ i < j /\ control[i] = d /\ control[j] \in DOMAIN Stol
                          /\ \/ published.freshness <= 1000 * Stol[control[j]]
                             \/ 1000 * Stol[control[j]] < -Half
       IN /\ published.freshness \in 0 .. Half - 1
          /\ published.freshness > 0 =>
            /\ ~Uncacheable(fields)
            /\ "s-maxage" \in Range(control) => Allows("s-maxage")
            /\ control # <<>> /\ "s-maxage" \notin Range(control) /\ "max-age" \in Range(control)
                 => Allows("max-age")

\* The first "?" comes right after a "/", and no "/" before the next "?" or the end.
SlashQuery(u) ==
    \E i \in DOMAIN u, e \in PathEnds(u) :
        /\ i > 1 /\ u[i - 1] = "/" /\ i <= e
        /\ \A j \in 1 .. i - 1 : u[j] # "?"
        /\ u[i] = "?" /\ \A j \in i .. e : u[j] # "/"

\* The ingress gateway asks for a response under the name it is published under,
\* unless the URL has such a query.
NamesAgreeButSlashQuery ==
    published # Nothing /\ ~SlashQuery(PathPart(sent.first.url)) => published.name = asked.name

\* "only look for a path, it is not a proxy this time": but for the proxy's form
\* of a URL both gateways read a URL alike, so that the names agree.
NamesAgree == published # Nothing => published.name = asked.name
===========================================================================
