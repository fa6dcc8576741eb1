--------------------------- MODULE MCHttpMessages --------------------------
(* Requests in origin and proxy form, with duplicate, rewritten and broken *)
(* header lines, and responses with every kind of cache control.           *)
EXTENDS HttpMessages, Sha1

Url(path) == [method |-> "GET", url |-> path, version |-> "HTTP/1.1"]

FirstLines ==
    {Url(p) : p \in {<<"/">>, <<"/", "a", ".css">>, <<"/", "..", "/", "a", "/", "b", "?", "c", "/", ".css">>,
                     <<"/", "a", "?", "b">>, <<"/", "?", "a", "/", "b">>, <<"a">>, <<"/", "/", "a">>,
                     <<"http:", "/", "/", "h", ":", "80", "/", "a", "?", "b">>,
                     <<"http:", "/", "/", "h">>, <<"/", "?", "a">>, <<"/", "a", "/", "?", "b">>,
                     <<"/", "?", "a", "?", "b", "/", "c">>, <<"/", "a", "?", "/", "?", "b">>}}
    \cup {[method |-> "BREW", url |-> <<"/">>, version |-> "HTTP/1.1"],
          [method |-> "GET", url |-> <<"/">>, version |-> ""]}

L(n, v) == [name |-> n, value |-> v]
Host == L("Host", <<" ", "h", ".", "c", ":", "80">>)

RequestFields ==
    {<<Host>> \o l : l \in
       {<<>>, <<NoColon, L("cookie", <<" ", "a">>)>>,
        <<L("cookie", <<" ", "a">>), L("Cookie", <<" ", "b", " ">>)>>, <<L("cookie", <<"b">>)>>,
        <<L("accept-encoding", <<" ", "a", ", sdch">>)>>, <<L("accept-encoding", <<", sdch">>)>>,
        <<L("connection", <<"a">>), L("proxy-connection", <<" ", "b">>)>>, <<L("proxy-connection", <<" ">>)>>}}
    \cup {<<L("cookie", <<"a">>)>>, <<L("Host", <<"h", ".", ".", "c", ".">>)>>, <<>>}

Bodies == {<<>>, <<"a">>, <<"a", "b">>}

StatusLines ==
    {[version |-> "HTTP/1.1", status_code |-> "200", reason |-> r] : r \in {"OK", ""}}
    \cup {[version |-> "HTTP/1.1", status_code |-> "", reason |-> ""]}

Ages == ("0" :> 0 @@ "5" :> 5 @@ "9" :> 9 @@ "17" :> 17 @@ "-5" :> -5 @@ "-9" :> -9)
CacheControl ==
    {<<" ", "max-age", "=", n>> : n \in DOMAIN Ages \cup {"a"}}
    \cup {<<"max-age", "=", "5", "a", "s-maxage", "=", " ", "0">>, <<"max-age", "=", "0", "a", "s-maxage", "=", "5">>,
          <<"max-age", "=", "5", "a", "no-store">>, <<"private", "a", "max-age", "=", "5">>,
          <<"max-age">>, <<"a">>}
ResponseFields ==
    {<<L("Cache-Control", c)>> : c \in CacheControl}
    \cup {<<L("cookie", <<"a">>), L("cookie", <<" ", "b", " ">>)>>, <<L("expires", <<"past">>)>>,
          <<L("expires", <<" ", "soon">>)>>, <<L("expires", <<"a">>)>>,
          <<L("expires", <<"soon">>), L("pragma", <<"no-cache">>)>>,
          <<L("cookie", <<"a">>), NoColon, L("pragma", <<"a">>)>>,
          <<L("Cookie ", <<"a">>)>>, <<L("cookie ", <<"a">>), L("cookie", <<" ", "b", " ">>)>>,
          <<L(" cookie", <<"a">>), L("Cookie", <<"b">>), L("cookie ", <<"c">>)>>}

Names == {"host", "cookie", "accept-encoding", "connection", "proxy-connection", "cache-control",
          "expires", "pragma", "Host", "Cookie", "Cache-Control", "cookie ", " cookie", "Cookie "}
Capitals == ("Host" :> "host" @@ "Cookie" :> "cookie" @@ "Cache-Control" :> "cache-control"
             @@ "Cookie " :> "cookie ")
ToLower == Capitals @@ [n \in Names \ DOMAIN Capitals |-> n]
Blanked == ("cookie " :> "cookie" @@ " cookie" :> "cookie" @@ "Cookie " :> "Cookie")
Unblanked == Blanked @@ [n \in Names \ DOMAIN Blanked |-> n]

Escapes == ("?" :> "%3F" @@ ".css" :> "%2Ecss" @@ "." :> "%2E" @@ ".." :> "%2E%2E" @@ ":" :> "%3A")
Unescaped == {"a", "b", "c", "h", "80"}
EscapeTable == Escapes @@ [t \in Unescaped |-> t]

Dates == ("past" :> 3 @@ "soon" :> 12)

\* The class SHA1 that names the requests is SHA-1, however its texts are cut: checked
\* where it is about to be used.
DigestsRight == stage = "connected" => HashesAsSha1
===========================================================================
