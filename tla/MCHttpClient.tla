--------------------------- MODULE MCHttpClient ----------------------------
(***************************************************************************)
(* HttpClient for TLC: bodies for each way of framing them, long enough to *)
(* be split between the reads at every place, and what a server can do     *)
(* wrong in them.                                                          *)
(***************************************************************************)
EXTENDS HttpClient

Octets(n) == [i \in 1 .. n |-> Octet]

OfLength(length, n) == [framing |-> "length", length |-> length, wire |-> Octets(n)]
Unannounced(framing, wire) == [framing |-> framing, length |-> NoNumber, wire |-> wire]

SmallBodies ==
    { OfLength(3, 3), OfLength(0, 0),
      OfLength(1, 3),            \* more than was announced
      OfLength(3, 1),            \* less: then the connection is lost
      OfLength(NoNumber, 1),
      OfLength(MaxLong + 2, 3),  \* no long, until two bytes have arrived
      \* a chunk of one byte, one of two bytes, and the last one
      Unannounced("chunked", <<1>> \o Octets(3) \o <<2>> \o Octets(4) \o <<0>> \o Octets(2)),
      \* the last one with trailers
      Unannounced("chunked", <<1>> \o Octets(3) \o <<0>> \o Octets(4)),
      \* a chunk that is longer than its size, so that the next size is no number
      Unannounced("chunked", <<1>> \o Octets(4) \o <<0>> \o Octets(2)),
      \* sizes below 0
      Unannounced("chunked", <<-3, -2>> \o Octets(4) \o <<-1>> \o Octets(4) \o <<0>> \o Octets(2)),
      Unannounced("close", Octets(2)),
      Unannounced("none", <<>>) }
===========================================================================
