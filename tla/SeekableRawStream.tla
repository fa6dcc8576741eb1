------------------------- MODULE SeekableRawStream ------------------------
(***************************************************************************)
(* The byte stream that requests and responses are read from while they    *)
(* are still being written (seekable_raw_stream.cpp, the same file in igw, *)
(* egw and ndn_server).  A stream is a record; the operators give the new  *)
(* stream or the value returned.  Each of them is one atomic step of the   *)
(* program: it holds the stream's mutex, or reads one atomic flag.         *)
(***************************************************************************)
EXTENDS Integers, Sequences

NewStream == [data |-> <<>>, completed |-> FALSE, aborted |-> FALSE]

StreamOf(Byte) == [data : Seq(Byte), completed : BOOLEAN, aborted : BOOLEAN]

Ended(s) == s.completed \/ s.aborted

append_raw_data(s, bytes) == [s EXCEPT !.data = @ \o bytes]

append_raw_data_at_first(s, bytes) == [s EXCEPT !.data = bytes \o @]

removeFirstBytes(s, size) == [s EXCEPT !.data = SubSeq(@, size + 1, Len(@))]

\* The number of bytes that can be read at pos: 0 at the end or beyond it, -1
\* when a full buffer is not there yet and may still come.
readRawData(s, pos, size) ==
    LET remaining == Len(s.data) - pos IN
    IF remaining < 0 THEN 0
    ELSE IF size > remaining /\ ~Ended(s) THEN -1
    ELSE IF size < remaining THEN size ELSE remaining

\* The bytes a positive readRawData copies into the buffer.
BytesRead(s, pos, size) == SubSeq(s.data, pos + 1, pos + readRawData(s, pos, size))

\* What is left after pos once the stream has ended, -1 before.
remainingBytes(s, pos) ==
    IF ~Ended(s) THEN -1 ELSE IF Len(s.data) > pos THEN Len(s.data) - pos ELSE 0
===========================================================================
