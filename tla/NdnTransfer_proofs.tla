------------------------- MODULE NdnTransfer_proofs ------------------------
(***************************************************************************)
(* The invariants of the transfer of one content, for packets of any size, *)
(* contents of any length and any number of tries, and the proof that it   *)
(* implements ContentTransfer.                                             *)
(***************************************************************************)
EXTENDS NdnTransfer, SequenceTheorems, TLAPS

---------------------------------------------------------------------------
(***************************************************************************)
(* The inductive invariant.                                                *)
(***************************************************************************)
\* The n bytes of the source after the first ones, and where a segment begins.
Run(first, n) == [i \in 1 .. n |-> first + i]
At(segment) == segment * BufferSize

SourceNumbered ==
    Len(source.data) <= MaxBytes /\ source.data = Run(0, Len(source.data))

\* The bytes that the source has in a segment: a full packet of them, or what is
\* left of a source that has ended.
Cut(segment, bytes) ==
    /\ Len(bytes) \in 1 .. BufferSize
    /\ bytes = Run(At(segment), Len(bytes))
    /\ At(segment) + Len(bytes) <= Len(source.data)
    /\ Len(bytes) < BufferSize =>
          Ended(source) /\ At(segment) + Len(bytes) = Len(source.data)

\* Packets are made without gap.
GeneratedSoFar ==
    /\ DOMAIN datas = 0 .. gen.segment - 1
    /\ gen.pc = "mark" => Cut(gen.segment, gen.bytes)
    /\ gen.pc = "stopped" => Ended(source) /\ Len(source.data) <= At(gen.segment)

\* A packet is what its number says; a short one carries the FinalBlockId, and one
\* that does is the end.
PacketsCut ==
    \A s \in DOMAIN datas :
        /\ datas[s].segment = s /\ Cut(s, datas[s].bytes)
        /\ Len(datas[s].bytes) < BufferSize => datas[s].last
        /\ datas[s].last =>
              Ended(source) /\ At(s) + Len(datas[s].bytes) = Len(source.data)

\* Whatever a cache holds is a packet that was made, and has not changed.
PublishedMade == \A p \in published : p.segment \in DOMAIN datas /\ p = datas[p.segment]

\* The consumer holds the segments before the one it wants.
ReceivedSoFar ==
    /\ received.data = Run(0, Len(received.data))
    /\ Len(received.data) <= Len(source.data)
    /\ want.pc # "done" => ~Ended(received) /\ Len(received.data) = At(want.segment)
    /\ want.pc = "done" => Ended(received)
    /\ received.completed => Ended(source) /\ Len(received.data) = Len(source.data)

\* The parent has been told when the first segment is there, or nothing will come.
ToldSoFar ==
    /\ ~want.named => want.segment = 0
    /\ told = IF want.pc = "done" \/ want.segment > 0 THEN 1 ELSE 0

IInv ==
    /\ TypeOK /\ SourceNumbered /\ GeneratedSoFar /\ PacketsCut /\ PublishedMade
    /\ ReceivedSoFar /\ ToldSoFar

---------------------------------------------------------------------------
(***************************************************************************)
(* Places in the stream, and runs of its bytes.                            *)
(***************************************************************************)
LEMMA Sizes == BufferSize \in Nat /\ BufferSize >= 1 /\ MaxBytes \in Nat /\ Tries \in Nat
               /\ Tries >= 1 /\ Retries \in Nat
BY SizesAssumption

LEMMA Places ==
    ASSUME NEW k \in Nat
    PROVE  At(k) \in Nat /\ At(k + 1) = At(k) + BufferSize /\ k <= At(k) /\ At(0) = 0
BY Sizes DEF At

LEMMA PlacesGrow ==
    ASSUME NEW k \in Nat, NEW m \in Nat, k < m
    PROVE  At(k) + BufferSize <= At(m)
<1>1. k + 1 <= m
  OBVIOUS
<1>2. PICK c \in Nat : m = k + 1 + c
  BY <1>1
<1>3. m * BufferSize = (k + 1) * BufferSize + c * BufferSize
  BY <1>2, Sizes
<1>4. c * BufferSize >= 0
  BY Sizes
<1>. QED
  BY <1>3, <1>4, Sizes DEF At

LEMMA Division ==
    ASSUME NEW a \in Nat, NEW b \in Nat, b >= 1
    PROVE  /\ a % b \in Nat /\ a % b < b /\ a \div b \in Int
           /\ a = b * (a \div b) + (a % b)
OBVIOUS

LEMMA OnlyZeroBelow ==
    ASSUME NEW a \in Int, NEW b \in Nat, b >= 1, NEW r \in Nat, r < b, b * a = r
    PROVE  r = 0
<1>1. a >= 1 => b * a >= b
  OBVIOUS
<1>2. a <= -1 => b * a <= -b
  OBVIOUS
<1>. QED
  BY <1>1, <1>2

LEMMA MultipleDivides ==
    ASSUME NEW k \in Nat, NEW b \in Nat, b >= 1
    PROVE  (k * b) % b = 0
<1> DEFINE q == (k * b) \div b
           r == (k * b) % b
<1>1. r \in Nat /\ r < b /\ q \in Int /\ k * b = b * q + r
  <2>1. k * b \in Nat
    OBVIOUS
  <2>. QED
    BY <2>1, Division
<1> HIDE DEF q, r
<1>2. b * (k - q) = r /\ k - q \in Int
  BY <1>1
<1>3. r = 0
  BY <1>1, <1>2, OnlyZeroBelow
<1>. QED
  BY <1>3 DEF r

LEMMA RunTyped ==
    ASSUME NEW first \in Nat, NEW n \in Nat
    PROVE  /\ Run(first, n) \in Seq(Nat) /\ Len(Run(first, n)) = n
           /\ DOMAIN Run(first, n) = 1 .. n
           /\ \A i \in 1 .. n : Run(first, n)[i] = first + i
<1>1. Run(first, n) \in [1 .. n -> Nat]
  BY DEF Run
<1>2. Run(first, n) \in Seq(Nat)
  BY <1>1, SeqDef
<1>. QED
  BY <1>1, <1>2 DEF Run

\* The bytes up to MaxBytes are bytes of the model.
LEMMA RunOfBytes ==
    ASSUME NEW first \in Nat, NEW n \in Nat, first + n <= MaxBytes
    PROVE  Run(first, n) \in Seq(Byte)
<1>1. Run(first, n) \in [1 .. n -> Byte]
  BY Sizes DEF Run, Byte
<1>. QED
  BY <1>1, SeqDef

LEMMA RunEmpty == Run(0, 0) = <<>>
<1>1. Run(0, 0) \in Seq(Nat) /\ Len(Run(0, 0)) = 0
  BY RunTyped
<1>. QED
  BY <1>1, EmptySeq

\* Two adjacent runs are one.
LEMMA RunsJoin ==
    ASSUME NEW first \in Nat, NEW n \in Nat, NEW m \in Nat
    PROVE  Run(first, n) \o Run(first + n, m) = Run(first, n + m)
<1> DEFINE a == Run(first, n)
           b == Run(first + n, m)
           c == Run(first, n + m)
<1>1. a \in Seq(Nat) /\ Len(a) = n /\ \A i \in 1 .. n : a[i] = first + i
  BY RunTyped
<1>2. b \in Seq(Nat) /\ Len(b) = m /\ \A i \in 1 .. m : b[i] = (first + n) + i
  <2>1. first + n \in Nat
    OBVIOUS
  <2>. QED
    BY <2>1, RunTyped
<1>3. c \in Seq(Nat) /\ Len(c) = n + m /\ \A i \in 1 .. n + m : c[i] = first + i
  BY RunTyped
<1> HIDE DEF a, b, c
<1>4. a \o b \in Seq(Nat) /\ Len(a \o b) = n + m
      /\ \A i \in 1 .. n + m : (a \o b)[i] = IF i <= n THEN a[i] ELSE b[i - n]
  <2>1. Len(a) + Len(b) = n + m
    BY <1>1, <1>2
  <2>2. /\ a \o b \in Seq(Nat) /\ Len(a \o b) = Len(a) + Len(b)
        /\ \A i \in 1 .. Len(a) + Len(b) : (a \o b)[i] = IF i <= Len(a) THEN a[i] ELSE b[i - Len(a)]
    BY <1>1, <1>2, ConcatProperties, Zenon
  <2>. QED
    BY <1>1, <2>1, <2>2
<1>5. \A i \in 1 .. n + m : (a \o b)[i] = c[i]
  <2> TAKE i \in 1 .. n + m
  <2>1. CASE i <= n
    BY <2>1, <1>1, <1>3, <1>4
  <2>2. CASE ~(i <= n)
    <3>1. i - n \in 1 .. m
      BY <2>2
    <3>2. (a \o b)[i] = b[i - n] /\ c[i] = first + i
      BY <2>2, <1>3, <1>4
    <3>3. b[i - n] = (first + n) + (i - n)
      BY <3>1, <1>2
    <3>. QED
      BY <3>2, <3>3
  <2>. QED
    BY <2>1, <2>2
<1>6. a \o b = c
  BY <1>3, <1>4, <1>5, SeqEqual
<1>. QED
  BY <1>6 DEF a, b, c

\* A part of a run from the beginning is a run.
LEMMA RunPartOfAll ==
    ASSUME NEW n \in Nat, NEW p \in Nat, NEW k \in Nat, p + k <= n
    PROVE  SubSeq(Run(0, n), p + 1, p + k) = Run(p, k)
<1> DEFINE a == Run(0, n)
           b == Run(p, k)
           s == SubSeq(a, p + 1, p + k)
<1>1. a \in Seq(Nat) /\ Len(a) = n /\ \A i \in 1 .. n : a[i] = i
  <2>1. 0 \in Nat /\ \A i \in 1 .. n : 0 + i = i
    OBVIOUS
  <2>. QED
    BY <2>1, RunTyped
<1>2. b \in Seq(Nat) /\ Len(b) = k /\ \A i \in 1 .. k : b[i] = p + i
  BY RunTyped
<1> HIDE DEF a, b
<1>3. \A i \in p + 1 .. p + k : a[i] \in Nat
  BY <1>1
<1>4. s \in Seq(Nat) /\ Len(s) = k /\ \A i \in 1 .. k : s[i] = a[p + i]
  BY <1>3, SubSeqProperties
<1>5. \A i \in 1 .. k : s[i] = b[i]
  BY <1>1, <1>2, <1>4
<1>6. s = b
  BY <1>2, <1>4, <1>5, SeqEqual
<1>. QED
  BY <1>6 DEF a, b

---------------------------------------------------------------------------
(***************************************************************************)
(* The stream.                                                             *)
(***************************************************************************)
\* What a block read by the generator is: full, or the end of an ended stream;
\* and nothing is read only at the end, or beyond what is there.
LEMMA ReadIsBlock ==
    ASSUME NEW s, Len(s.data) \in Nat, NEW pos \in Nat, NEW size \in Nat, size >= 1
    PROVE  LET r == readRawData(s, pos, size) IN
           /\ r > 0 => /\ r \in 1 .. size /\ pos + r <= Len(s.data)
                       /\ r < size => Ended(s) /\ pos + r = Len(s.data)
           /\ r = 0 => /\ Len(s.data) <= pos
                       /\ Len(s.data) < pos \/ Ended(s)
BY DEF readRawData

\* Nothing remains only when the stream has ended at this place.
LEMMA NothingRemains ==
    ASSUME NEW s, Len(s.data) \in Nat, NEW pos \in Nat
    PROVE  /\ remainingBytes(s, pos) = 0 => Ended(s) /\ Len(s.data) <= pos
           /\ Ended(s) /\ Len(s.data) <= pos => remainingBytes(s, pos) = 0
BY DEF remainingBytes

\* The types of what the places are computed from.
LEMMA Typed ==
    ASSUME TypeOK
    PROVE  /\ source \in StreamOf(Byte) /\ source.data \in Seq(Byte) /\ Len(source.data) \in Nat
           /\ source.completed \in BOOLEAN /\ source.aborted \in BOOLEAN
           /\ gen.segment \in 0 .. MaxBytes /\ gen.segment \in Nat /\ gen.bytes \in Seq(Byte)
           /\ gen.pc \in {"ready", "mark", "stopped"}
           /\ want.segment \in 0 .. MaxBytes /\ want.segment \in Nat
           /\ received.data \in Seq(Byte) /\ Len(received.data) \in Nat
           /\ \A s \in DOMAIN datas : /\ s \in Nat /\ datas[s].bytes \in Seq(Byte)
                                      /\ Len(datas[s].bytes) \in Nat
<1>1. /\ source \in StreamOf(Byte) /\ received \in StreamOf(Byte)
      /\ gen \in [pc : {"ready", "mark", "stopped"}, segment : Segment, bytes : Seq(Byte)]
      /\ want.segment \in Segment
  BY DEF TypeOK
<1>2. source.data \in Seq(Byte) /\ received.data \in Seq(Byte)
      /\ source.completed \in BOOLEAN /\ source.aborted \in BOOLEAN
  BY <1>1 DEF StreamOf
<1>3. gen.segment \in 0 .. MaxBytes /\ gen.bytes \in Seq(Byte) /\ want.segment \in 0 .. MaxBytes
      /\ gen.pc \in {"ready", "mark", "stopped"}
  BY <1>1 DEF Segment
<1>4. ASSUME NEW s \in DOMAIN datas
      PROVE  s \in Nat /\ datas[s].bytes \in Seq(Byte)
  <2>1. s \in Segment /\ datas[s] \in Packet
    BY DEF TypeOK
  <2>. QED
    BY <2>1, Sizes DEF Packet, Segment
<1>. QED
  BY <1>1, <1>2, <1>3, <1>4, Sizes

LEMMA InitIInv == Init => IInv
<1> SUFFICES ASSUME Init PROVE IInv
  OBVIOUS
<1> USE DEF Init, NewStream
<1>1. TypeOK
  <2>1. 0 \in Segment /\ Retries \in 0 .. Retries /\ DOMAIN datas = {}
    BY Sizes DEF Segment
  <2>2. source \in StreamOf(Byte) /\ received \in StreamOf(Byte) /\ <<>> \in Seq(Byte)
    BY EmptySeq DEF StreamOf
  <2>3. gen \in [pc : {"ready", "mark", "stopped"}, segment : Segment, bytes : Seq(Byte)]
    BY <2>1, <2>2
  <2>4. want \in [pc : {"new", "waiting", "done"}, named : BOOLEAN, segment : Segment,
                  retries : 0 .. Retries]
    BY <2>1
  <2>. QED
    BY <2>1, <2>2, <2>3, <2>4 DEF TypeOK
<1>2. SourceNumbered
  BY RunEmpty, Sizes DEF SourceNumbered
<1>3. GeneratedSoFar /\ PacketsCut /\ PublishedMade
  BY DEF GeneratedSoFar, PacketsCut, PublishedMade
<1>4. ReceivedSoFar /\ ToldSoFar
  BY RunEmpty, Places DEF ReceivedSoFar, ToldSoFar, Ended
<1>. QED
  BY <1>1, <1>2, <1>3, <1>4 DEF IInv

---------------------------------------------------------------------------
(***************************************************************************)
(* The writer.  As long as the source has not ended, every packet is full  *)
(* and none is the last, so that what the packets say stays true.          *)
(***************************************************************************)
LEMMA SourceGrowsInv ==
    ASSUME IInv, ~Ended(source),
           source' \in StreamOf(Byte), Len(source'.data) \in Nat,
           Len(source.data) <= Len(source'.data), Len(source'.data) <= MaxBytes,
           source'.data = Run(0, Len(source'.data)),
           UNCHANGED <<gen, datas, stored, idle, interests, published, want, received, told>>
    PROVE  IInv'
<1>1. TypeOK'
  BY DEF IInv, TypeOK
<1>2. SourceNumbered'
  BY DEF SourceNumbered
<1>3. \A k \in Nat, bytes \in Seq(Byte) : Cut(k, bytes) =>
         /\ Len(bytes) = BufferSize
         /\ Len(bytes) \in 1 .. BufferSize
         /\ bytes = Run(At(k), Len(bytes))
         /\ At(k) + Len(bytes) <= Len(source'.data)
  <2> TAKE k \in Nat, bytes \in Seq(Byte)
  <2> HAVE Cut(k, bytes)
  <2>1. Len(bytes) \in Nat /\ At(k) \in Nat /\ Len(source.data) \in Nat
    BY Places, Typed DEF IInv
  <2>. QED
    BY <2>1, Sizes DEF Cut
<1>4. GeneratedSoFar'
  BY <1>3, Typed DEF IInv, GeneratedSoFar, Cut
<1>5. PacketsCut'
  <2> SUFFICES ASSUME NEW s \in DOMAIN datas
               PROVE  /\ datas[s].segment = s /\ Cut(s, datas[s].bytes)'
                      /\ Len(datas[s].bytes) = BufferSize /\ ~datas[s].last
    BY Sizes DEF PacketsCut
  <2>1. datas[s].segment = s /\ Cut(s, datas[s].bytes) /\ ~datas[s].last
    BY DEF IInv, PacketsCut
  <2>2. s \in Nat /\ datas[s].bytes \in Seq(Byte)
    BY Typed DEF IInv
  <2>. QED
    BY <1>3, <2>1, <2>2 DEF Cut
<1>6. PublishedMade'
  BY DEF IInv, PublishedMade
<1>7. ReceivedSoFar'
  <2>1. Len(source.data) \in Nat /\ Len(received.data) \in Nat
    BY Typed DEF IInv
  <2>. QED
    BY <2>1 DEF IInv, ReceivedSoFar
<1>8. ToldSoFar'
  BY DEF IInv, ToldSoFar
<1>. QED
  BY <1>1, <1>2, <1>4, <1>5, <1>6, <1>7, <1>8 DEF IInv

LEMMA WriteGrows ==
    ASSUME IInv, Write
    PROVE  /\ source' \in StreamOf(Byte) /\ Len(source'.data) \in Nat
           /\ Len(source.data) <= Len(source'.data) /\ Len(source'.data) <= MaxBytes
           /\ source'.data = Run(0, Len(source'.data))
<1>1. source \in StreamOf(Byte) /\ Len(source.data) \in Nat /\ source.data = Run(0, Len(source.data))
  BY Typed DEF IInv, SourceNumbered
<1>2. PICK n \in Len(source.data) + 1 .. MaxBytes :
         source' = append_raw_data(source, [i \in 1 .. n - Len(source.data) |->
                                               Len(source.data) + i])
  BY DEF Write
<1>3. n - Len(source.data) \in Nat /\ n \in Nat /\ n = Len(source.data) + (n - Len(source.data))
  BY <1>1, <1>2, Sizes
<1>4. source'.data = source.data \o Run(Len(source.data), n - Len(source.data))
  BY <1>1, <1>2 DEF append_raw_data, StreamOf, Run
<1>5. source'.data = Run(0, n)
  <2>1. Run(0, Len(source.data)) \o Run(0 + Len(source.data), n - Len(source.data))
        = Run(0, Len(source.data) + (n - Len(source.data)))
    BY <1>1, <1>3, RunsJoin
  <2>2. 0 + Len(source.data) = Len(source.data)
    BY <1>1
  <2>. QED
    BY <1>1, <1>3, <1>4, <2>1, <2>2
<1>6. Len(source'.data) = n /\ source'.data \in Seq(Byte)
  <2>1. 0 \in Nat /\ 0 + n <= MaxBytes
    BY <1>2, <1>3, Sizes
  <2>2. Run(0, n) \in Seq(Byte)
    BY <1>3, <2>1, RunOfBytes
  <2>3. Len(Run(0, n)) = n
    BY <1>3, <2>1, RunTyped
  <2>. QED
    BY <1>5, <2>2, <2>3
<1>7. source' \in StreamOf(Byte)
  BY <1>1, <1>2, <1>6 DEF append_raw_data, StreamOf
<1>. QED
  BY <1>1, <1>2, <1>3, <1>5, <1>6, <1>7

LEMMA WriteInv == ASSUME IInv, Write PROVE IInv'
BY WriteGrows, SourceGrowsInv DEF Write, consumerVars

LEMMA EndInv == ASSUME IInv, Complete \/ Abort PROVE IInv'
<1>1. /\ source' \in StreamOf(Byte) /\ source'.data = source.data /\ ~Ended(source)
      /\ UNCHANGED <<gen, datas, stored, idle, interests, published, want, received, told>>
  BY Typed DEF IInv, Complete, Abort, StreamOf, consumerVars
<1>2. Len(source.data) \in Nat /\ SourceNumbered
  BY Typed DEF IInv
<1>. QED
  BY <1>1, <1>2, SourceGrowsInv DEF SourceNumbered

---------------------------------------------------------------------------
(***************************************************************************)
(* The generator.                                                          *)
(***************************************************************************)
\* What it reads is what the source has at its place.
LEMMA BlockIsCut ==
    ASSUME IInv, gen.pc = "ready", readRawData(source, Position, BufferSize) > 0
    PROVE  LET bytes == BytesRead(source, Position, BufferSize) IN
           bytes \in Seq(Byte) /\ Cut(gen.segment, bytes)
<1> DEFINE r == readRawData(source, At(gen.segment), BufferSize)
           bytes == BytesRead(source, At(gen.segment), BufferSize)
<1>1. /\ gen.segment \in Nat /\ At(gen.segment) \in Nat /\ Len(source.data) \in Nat
      /\ source.data = Run(0, Len(source.data)) /\ Len(source.data) <= MaxBytes
  BY Typed, Places DEF IInv, SourceNumbered
<1>2. Position = At(gen.segment)
  BY DEF Position, At
<1>3. /\ r \in 1 .. BufferSize /\ At(gen.segment) + r <= Len(source.data)
      /\ r < BufferSize => Ended(source) /\ At(gen.segment) + r = Len(source.data)
  BY <1>1, <1>2, ReadIsBlock, Sizes
<1>4. r \in Nat
  BY <1>3, Sizes
<1>5. bytes = SubSeq(source.data, At(gen.segment) + 1, At(gen.segment) + r)
  BY DEF BytesRead
<1> HIDE DEF r
<1>6. bytes = Run(At(gen.segment), r)
  <2>1. SubSeq(Run(0, Len(source.data)), At(gen.segment) + 1, At(gen.segment) + r)
        = Run(At(gen.segment), r)
    BY <1>1, <1>3, <1>4, RunPartOfAll, Zenon
  <2>. QED
    BY <1>1, <1>5, <2>1
<1>7. Len(bytes) = r /\ bytes \in Seq(Byte)
  <2>1. At(gen.segment) + r <= MaxBytes
    BY <1>1, <1>3, <1>4, Sizes
  <2>. QED
    BY <1>1, <1>4, <1>6, <2>1, RunTyped, RunOfBytes
<1> HIDE DEF bytes
<1>8. Cut(gen.segment, bytes)
  BY <1>3, <1>6, <1>7 DEF Cut
<1>. QED
  BY <1>2, <1>7, <1>8 DEF bytes

LEMMA ReadBlockInv == ASSUME IInv, ReadBlock PROVE IInv'
<1> USE DEF ReadBlock, consumerVars
<1> DEFINE bytes == BytesRead(source, Position, BufferSize)
<1>1. bytes \in Seq(Byte) /\ Cut(gen.segment, bytes)
  BY BlockIsCut
<1>2. gen' = [gen EXCEPT !.pc = "mark", !.bytes = bytes]
  OBVIOUS
<1> HIDE DEF bytes
<1>3. /\ gen \in [pc : {"ready", "mark", "stopped"}, segment : Segment, bytes : Seq(Byte)]
      /\ gen' \in [pc : {"ready", "mark", "stopped"}, segment : Segment, bytes : Seq(Byte)]
      /\ gen'.pc = "mark" /\ gen'.segment = gen.segment /\ gen'.bytes = bytes
  BY <1>1, <1>2 DEF IInv, TypeOK
<1>4. TypeOK'
  BY <1>3 DEF IInv, TypeOK
<1>5. GeneratedSoFar'
  BY <1>1, <1>3 DEF IInv, GeneratedSoFar, Cut
<1>6. SourceNumbered' /\ PacketsCut' /\ PublishedMade'
  BY DEF IInv, SourceNumbered, PacketsCut, PublishedMade, Cut
<1>7. ReceivedSoFar' /\ ToldSoFar'
  BY DEF IInv, ReceivedSoFar, ToldSoFar
<1>. QED
  BY <1>4, <1>5, <1>6, <1>7 DEF IInv

\* A segment begins before the end of the source, so there are at most MaxBytes.
LEMMA CutFits ==
    ASSUME IInv, NEW k \in Nat, NEW bytes \in Seq(Byte), Cut(k, bytes)
    PROVE  k + 1 \in 0 .. MaxBytes
<1>1. Len(bytes) >= 1 /\ At(k) + Len(bytes) <= Len(source.data) /\ k <= At(k)
  BY Places, Sizes DEF Cut
<1>2. Len(source.data) <= MaxBytes /\ Len(source.data) \in Nat /\ At(k) \in Nat /\ Len(bytes) \in Nat
  BY Places, Typed, LenProperties DEF IInv, SourceNumbered
<1>. QED
  BY <1>1, <1>2, Sizes

LEMMA AddPacketInv == ASSUME IInv, AddPacket PROVE IInv'
<1> USE DEF AddPacket, addData, refresh, consumerVars
<1> DEFINE p == [segment |-> gen.segment, bytes |-> gen.bytes, last |-> IsLast]
           k == gen.segment
<1>1. /\ k \in Nat /\ k \in Segment /\ gen.bytes \in Seq(Byte) /\ Cut(k, gen.bytes)
      /\ DOMAIN datas = 0 .. k - 1 /\ Len(source.data) \in Nat /\ At(k) \in Nat
      /\ Len(gen.bytes) \in Nat
  <2>1. /\ k \in Nat /\ k \in Segment /\ gen.bytes \in Seq(Byte) /\ Len(source.data) \in Nat
    BY Typed DEF IInv, Segment
  <2>2. Cut(k, gen.bytes) /\ DOMAIN datas = 0 .. k - 1
    BY DEF IInv, GeneratedSoFar
  <2>3. At(k) \in Nat /\ Len(gen.bytes) \in Nat
    BY <2>1, Places, LenProperties
  <2>. QED
    BY <2>1, <2>2, <2>3
<1>2. IsLast <=> Ended(source) /\ Len(source.data) <= At(k) + Len(gen.bytes)
  <2>1. Position = At(k)
    BY DEF Position, At
  <2>2. At(k) + Len(gen.bytes) \in Nat
    BY <1>1
  <2>. QED
    BY <1>1, <2>1, <2>2, NothingRemains DEF IsLast
<1>3. IsLast \in BOOLEAN
  BY DEF IsLast
<1>4. k + 1 \in Segment
  BY <1>1, CutFits DEF Segment
<1>5. p \in Packet /\ p.segment = k /\ p.bytes = gen.bytes /\ p.last = IsLast
  BY <1>1, <1>3 DEF Packet
<1>6. /\ DOMAIN datas' = 0 .. (k + 1) - 1 /\ DOMAIN datas \subseteq DOMAIN datas'
      /\ datas'[k] = p /\ k \notin DOMAIN datas
      /\ \A s \in DOMAIN datas : datas'[s] = datas[s]
      /\ DOMAIN datas' = DOMAIN datas \cup {k}
  <2>1. datas' = [s \in DOMAIN datas \cup {k} |-> IF s \in DOMAIN datas THEN datas[s] ELSE p]
    OBVIOUS
  <2>2. k \notin DOMAIN datas /\ DOMAIN datas \cup {k} = 0 .. (k + 1) - 1
    BY <1>1
  <2> HIDE DEF p
  <2>. QED
    BY <2>1, <2>2
<1>7. gen' = [pc |-> "ready", segment |-> k + 1, bytes |-> <<>>]
  OBVIOUS
<1> HIDE DEF p, AddPacket, addData, IsLast
<1>8. UNCHANGED <<source, stored, interests, published, want, received, told>> /\ idle' = FALSE
  BY DEF AddPacket, addData
<1>9. TypeOK'
  <2>1. gen' \in [pc : {"ready", "mark", "stopped"}, segment : Segment, bytes : Seq(Byte)]
    BY <1>4, <1>7, EmptySeq
  <2>2. DOMAIN datas' \subseteq Segment /\ \A s \in DOMAIN datas' : datas'[s] \in Packet
    <3>1. DOMAIN datas \subseteq Segment /\ \A s \in DOMAIN datas : datas[s] \in Packet
      BY DEF IInv, TypeOK
    <3>. QED
      BY <3>1, <1>1, <1>5, <1>6
  <2>. QED
    BY <1>8, <2>1, <2>2 DEF IInv, TypeOK
<1>10. SourceNumbered'
  BY <1>8 DEF IInv, SourceNumbered
<1>11. GeneratedSoFar'
  BY <1>6, <1>7 DEF GeneratedSoFar
<1>12. PacketsCut'
  <2> SUFFICES ASSUME NEW s \in DOMAIN datas'
               PROVE  /\ datas'[s].segment = s /\ Cut(s, datas'[s].bytes)
                      /\ Len(datas'[s].bytes) < BufferSize => datas'[s].last
                      /\ datas'[s].last => /\ Ended(source)
                                           /\ At(s) + Len(datas'[s].bytes) = Len(source.data)
    BY <1>8 DEF PacketsCut, Cut
  <2>1. CASE s \in DOMAIN datas
    BY <2>1, <1>6 DEF IInv, PacketsCut
  <2>2. CASE s = k
    <3>1. datas'[s] = p
      BY <2>2, <1>6
    <3>2. /\ Len(gen.bytes) < BufferSize =>
                Ended(source) /\ At(k) + Len(gen.bytes) = Len(source.data)
          /\ At(k) + Len(gen.bytes) <= Len(source.data)
      BY <1>1 DEF Cut
    <3>. QED
      BY <2>2, <3>1, <3>2, <1>1, <1>2, <1>5
  <2>. QED
    BY <2>1, <2>2, <1>6
<1>13. PublishedMade'
  BY <1>6, <1>8 DEF IInv, PublishedMade
<1>14. ReceivedSoFar' /\ ToldSoFar'
  BY <1>8 DEF IInv, ReceivedSoFar, ToldSoFar
<1>. QED
  BY <1>9, <1>10, <1>11, <1>12, <1>13, <1>14 DEF IInv

\* The generator stops only at the end of an ended source: its place is beyond what
\* is there only after a short packet.
LEMMA StopAtEnd ==
    ASSUME IInv, StopGenerating
    PROVE  Ended(source) /\ Len(source.data) <= At(gen.segment)
<1> DEFINE k == gen.segment
<1>1. /\ k \in Nat /\ At(k) \in Nat /\ Len(source.data) \in Nat /\ Position = At(k)
      /\ DOMAIN datas = 0 .. k - 1
  BY Typed, Places DEF IInv, GeneratedSoFar, Position, At
<1>2. Len(source.data) <= At(k) /\ (Len(source.data) < At(k) \/ Ended(source))
  BY <1>1, ReadIsBlock, Sizes DEF StopGenerating
<1>3. CASE Len(source.data) < At(k)
  <2>1. k - 1 \in Nat /\ k - 1 \in DOMAIN datas
    <3>1. k # 0
      <4>1. At(0) = 0
        BY Places
      <4>. QED
        BY <4>1, <1>1, <1>3
    <3>. QED
      BY <3>1, <1>1
  <2>2. At(k) = At(k - 1) + BufferSize /\ At(k - 1) \in Nat
    <3>1. (k - 1) + 1 = k
      BY <1>1
    <3>. QED
      BY <3>1, <2>1, Places
  <2>3. Cut(k - 1, datas[k - 1].bytes) /\ Len(datas[k - 1].bytes) \in Nat
    BY <2>1, Typed DEF IInv, PacketsCut
  <2>4. Len(datas[k - 1].bytes) < BufferSize
    BY <1>1, <1>3, <2>2, <2>3, Sizes DEF Cut
  <2>. QED
    BY <1>2, <2>3, <2>4 DEF Cut
<1>. QED
  BY <1>2, <1>3

LEMMA StopGeneratingInv == ASSUME IInv, StopGenerating PROVE IInv'
<1> USE DEF StopGenerating, consumerVars
<1>1. /\ gen \in [pc : {"ready", "mark", "stopped"}, segment : Segment, bytes : Seq(Byte)]
      /\ gen' \in [pc : {"ready", "mark", "stopped"}, segment : Segment, bytes : Seq(Byte)]
      /\ gen'.pc = "stopped" /\ gen'.segment = gen.segment
  BY DEF IInv, TypeOK
<1>2. TypeOK'
  BY <1>1, Typed DEF IInv, TypeOK
<1>3. GeneratedSoFar'
  BY <1>1, StopAtEnd DEF IInv, GeneratedSoFar
<1>4. SourceNumbered' /\ PacketsCut' /\ PublishedMade'
  BY DEF IInv, SourceNumbered, PacketsCut, PublishedMade, Cut
<1>5. ReceivedSoFar' /\ ToldSoFar'
  BY DEF IInv, ReceivedSoFar, ToldSoFar
<1>. QED
  BY <1>2, <1>3, <1>4, <1>5 DEF IInv

---------------------------------------------------------------------------
(***************************************************************************)
(* Time, purges and the Interests served: nothing of the packets changes,  *)
(* and what is put on the network is one of them.                          *)
(***************************************************************************)
LEMMA ServingInv ==
    ASSUME IInv, TypeOK', UNCHANGED <<source, gen, datas, want, received, told>>,
           published' = published \/ \E s \in DOMAIN datas : published' = published \cup {datas[s]}
    PROVE  IInv'
<1>1. PublishedMade'
  <2>1. \A s \in DOMAIN datas : datas[s].segment = s
    BY DEF IInv, PacketsCut
  <2>. QED
    BY <2>1 DEF IInv, PublishedMade
<1>2. SourceNumbered' /\ GeneratedSoFar' /\ PacketsCut'
  BY DEF IInv, SourceNumbered, GeneratedSoFar, PacketsCut, Cut
<1>3. ReceivedSoFar' /\ ToldSoFar'
  BY DEF IInv, ReceivedSoFar, ToldSoFar
<1>. QED
  BY <1>1, <1>2, <1>3 DEF IInv

LEMMA PurgingInv == ASSUME IInv, TimePasses \/ purgeOldContents PROVE IInv'
<1>1. TypeOK'
  BY DEF IInv, TypeOK, TimePasses, purgeOldContents, consumerVars
<1>. QED
  BY <1>1, ServingInv DEF TimePasses, purgeOldContents, consumerVars

LEMMA InterestType ==
    ASSUME TypeOK, NEW i \in interests
    PROVE  /\ i \in [segment : Segment, tries : 0 .. Tries] /\ i.tries \in 0 .. Tries
           /\ i.tries > 0 =>
                 [i EXCEPT !.tries = @ - 1] \in [segment : Segment, tries : 0 .. Tries]
BY Sizes DEF TypeOK

LEMMA ServerInv == ASSUME IInv, Server PROVE IInv'
<1> DEFINE I == [segment : Segment, tries : 0 .. Tries]
<1>1. TypeOK /\ interests \subseteq I /\ published \subseteq Packet /\ idle \in BOOLEAN
      /\ \A s \in DOMAIN datas : datas[s] \in Packet
  BY DEF IInv, TypeOK
<1>2. ASSUME interests' \subseteq I, published' \subseteq Packet, idle' \in BOOLEAN,
             UNCHANGED <<source, gen, datas, stored, want, received, told>>
      PROVE  TypeOK'
  BY <1>1, <1>2 DEF TypeOK
<1>3. CASE onInterest
  <2>1. [segment |-> want.segment, tries |-> Tries] \in I
    BY <1>1, Sizes DEF TypeOK
  <2>2. TypeOK'
    BY <1>1, <1>2, <1>3, <2>1 DEF onInterest, fromNdnProducerHandler, consumerVars
  <2>. QED
    BY <1>3, <2>2, ServingInv DEF onInterest, consumerVars
<1>4. CASE PublishToOther
  <2>1. PICK s \in DOMAIN datas : published' = published \cup {datas[s]}
    BY <1>4 DEF PublishToOther, publish
  <2>2. TypeOK'
    BY <1>1, <1>2, <1>4, <2>1 DEF PublishToOther, findData, refresh, consumerVars
  <2>. QED
    BY <1>4, <2>1, <2>2, ServingInv DEF PublishToOther, consumerVars
<1>5. ASSUME NEW i \in interests, Publish(i) PROVE IInv'
  <2>1. i.segment \in DOMAIN datas /\ published' = published \cup {datas[i.segment]}
    BY <1>5 DEF Publish, publish
  <2>2. TypeOK'
    BY <1>1, <1>2, <1>5, <2>1 DEF Publish, findData, refresh, consumerVars
  <2>. QED
    BY <1>5, <2>1, <2>2, ServingInv DEF Publish, consumerVars
<1>6. ASSUME NEW i \in interests, TryLater(i) PROVE IInv'
  <2>1. [i EXCEPT !.tries = @ - 1] \in I
    BY <1>1, <1>6, InterestType DEF TryLater
  <2>2. TypeOK'
    BY <1>1, <1>2, <1>6, <2>1 DEF TryLater, findData, refresh, consumerVars
  <2>. QED
    BY <1>6, <2>2, ServingInv DEF TryLater, consumerVars
<1>7. ASSUME NEW i \in interests, Drop(i) PROVE IInv'
  <2>1. TypeOK'
    BY <1>1, <1>2, <1>7 DEF Drop, consumerVars
  <2>. QED
    BY <1>7, <2>1, ServingInv DEF Drop, consumerVars
<1>. QED
  BY <1>3, <1>4, <1>5, <1>6, <1>7 DEF Server

---------------------------------------------------------------------------
(***************************************************************************)
(* The consumer.                                                           *)
(***************************************************************************)
LEMMA WantType ==
    ASSUME TypeOK
    PROVE  want \in [pc : {"new", "waiting", "done"}, named : BOOLEAN, segment : Segment,
                     retries : 0 .. Retries]
BY DEF TypeOK

\* The consumer's own steps leave the packets alone.
LEMMA ConsumingInv ==
    ASSUME IInv, UNCHANGED producerVars, TypeOK', ReceivedSoFar', ToldSoFar'
    PROVE  IInv'
BY DEF IInv, producerVars, SourceNumbered, GeneratedSoFar, PacketsCut, PublishedMade, Cut

\* The consumer asks anew for the same segment.
LEMMA AskInv ==
    ASSUME IInv,
           \/ retrieve \/ TryAgain
           \/ \E p \in published : OtherSegment(p)
    PROVE  IInv'
<1> USE DEF retrieve, TryAgain, OtherSegment
<1>1. /\ want' \in [pc : {"new", "waiting", "done"}, named : BOOLEAN, segment : Segment,
                    retries : 0 .. Retries]
      /\ want.pc # "done" /\ want'.pc = "waiting" /\ want'.segment = want.segment
      /\ want.named => want'.named
      /\ UNCHANGED <<producerVars, received, told>>
  <2>1. Retries \in 0 .. Retries
    BY Sizes
  <2>2. CASE retrieve
    BY <2>2, WantType DEF IInv
  <2>3. CASE TryAgain
    BY <2>3, WantType, Sizes DEF IInv
  <2>4. CASE \E p \in published : OtherSegment(p)
    BY <2>1, <2>4, WantType DEF IInv
  <2>. QED
    BY <2>2, <2>3, <2>4
<1> HIDE DEF retrieve, TryAgain, OtherSegment
<1>2. TypeOK'
  BY <1>1 DEF IInv, TypeOK, producerVars
<1>3. ReceivedSoFar' /\ ToldSoFar'
  BY <1>1 DEF IInv, ReceivedSoFar, ToldSoFar, producerVars
<1>. QED
  BY <1>1, <1>2, <1>3, ConsumingInv

\* The first segment is the one for which the parent has not been told.
LEMMA FirstIsUntold ==
    ASSUME IInv, want.pc = "waiting"
    PROVE  (IsFirst => told = 0) /\ (~IsFirst => told = 1)
BY Typed DEF IInv, ToldSoFar, IsFirst

LEMMA GiveUpInv == ASSUME IInv, want.pc = "waiting", GiveUp PROVE IInv'
<1> USE DEF GiveUp
<1>1. /\ want' \in [pc : {"new", "waiting", "done"}, named : BOOLEAN, segment : Segment,
                    retries : 0 .. Retries]
      /\ want'.pc = "done" /\ want'.segment = want.segment /\ want'.named = want.named
  BY WantType DEF IInv
<1>2. /\ received' \in StreamOf(Byte) /\ received'.data = received.data /\ received'.aborted
      /\ received'.completed = received.completed
  BY DEF IInv, TypeOK, StreamOf
<1>3. told' = 1
  BY FirstIsUntold
<1>4. TypeOK'
  BY <1>1, <1>2, <1>3 DEF IInv, TypeOK, producerVars
<1>5. ReceivedSoFar' /\ ToldSoFar'
  BY <1>1, <1>2, <1>3 DEF IInv, ReceivedSoFar, ToldSoFar, producerVars, Ended
<1>. QED
  BY <1>4, <1>5, ConsumingInv

\* A packet of the wanted segment continues what was received; its last one completes it.
LEMMA DataContinues ==
    ASSUME IInv, NEW p \in published, want.pc = "waiting", p.segment = want.segment
    PROVE  LET data == received.data \o p.bytes IN
           /\ p.bytes \in Seq(Byte) /\ Len(p.bytes) \in 1 .. BufferSize
           /\ data \in Seq(Byte) /\ data = Run(0, Len(data))
           /\ Len(data) = Len(received.data) + Len(p.bytes)
           /\ Len(data) <= Len(source.data)
           /\ ~p.last => Len(data) = At(want.segment + 1) /\ want.segment + 1 \in Segment
           /\ p.last => Ended(source) /\ Len(data) = Len(source.data)
           /\ p.last \in BOOLEAN
<1> DEFINE k == want.segment
           n == Len(p.bytes)
<1>1. k \in DOMAIN datas /\ p = datas[k] /\ k \in Nat
  BY Typed DEF IInv, PublishedMade
<1>2. /\ Cut(k, p.bytes) /\ (Len(p.bytes) < BufferSize => p.last)
      /\ p.last => Ended(source) /\ At(k) + Len(p.bytes) = Len(source.data)
  BY <1>1 DEF IInv, PacketsCut
<1>3. /\ p.bytes \in Seq(Byte) /\ n \in Nat /\ p.bytes = Run(At(k), n)
      /\ n \in 1 .. BufferSize /\ At(k) + n <= Len(source.data)
  BY <1>1, <1>2, Typed DEF IInv, Cut
<1>4. /\ At(k) \in Nat /\ At(k + 1) = At(k) + BufferSize
      /\ received.data = Run(0, At(k)) /\ Len(received.data) = At(k)
      /\ Len(source.data) \in Nat /\ Len(source.data) <= MaxBytes
  BY <1>1, Places, Typed DEF IInv, ReceivedSoFar, SourceNumbered
<1>5. received.data \o p.bytes = Run(0, At(k) + n)
  <2>1. Run(0, At(k)) \o Run(0 + At(k), n) = Run(0, At(k) + n)
    BY <1>3, <1>4, RunsJoin
  <2>2. 0 + At(k) = At(k)
    BY <1>4
  <2>. QED
    BY <1>3, <1>4, <2>1, <2>2
<1>6. Len(received.data \o p.bytes) = At(k) + n /\ received.data \o p.bytes \in Seq(Byte)
  <2>1. 0 + (At(k) + n) <= MaxBytes /\ At(k) + n \in Nat /\ 0 \in Nat
    BY <1>3, <1>4, Sizes
  <2>. QED
    BY <1>5, <2>1, RunTyped, RunOfBytes
<1>7. ~p.last => n = BufferSize
  BY <1>2, <1>3, Sizes
<1>8. k + 1 \in Segment
  BY <1>1, <1>2, <1>3, CutFits DEF Segment
<1>9. p.last \in BOOLEAN
  BY DEF IInv, TypeOK, Packet
<1>. QED
  BY <1>2, <1>3, <1>4, <1>5, <1>6, <1>7, <1>8, <1>9

LEMMA onDataInv == ASSUME IInv, NEW p \in published, onData(p) PROVE IInv'
<1> DEFINE data == received.data \o p.bytes
<1>1. /\ data \in Seq(Byte) /\ data = Run(0, Len(data)) /\ Len(data) <= Len(source.data)
      /\ ~p.last => Len(data) = At(want.segment + 1) /\ want.segment + 1 \in Segment
      /\ p.last => Ended(source) /\ Len(data) = Len(source.data)
      /\ p.last \in BOOLEAN /\ want.pc = "waiting"
  BY DataContinues DEF onData
<1>2. /\ received \in StreamOf(Byte) /\ ~Ended(received) /\ ~received.completed /\ ~received.aborted
      /\ want.segment \in Nat
  BY <1>1, Typed DEF IInv, ReceivedSoFar, Ended, TypeOK
<1>3. /\ received' \in StreamOf(Byte) /\ received'.data = data
      /\ received'.completed = p.last /\ ~received'.aborted
  BY <1>1, <1>2 DEF onData, append_raw_data, StreamOf
<1>4. told' = 1
  BY <1>1, FirstIsUntold DEF onData
<1>5. UNCHANGED producerVars
  BY DEF onData
<1>6. /\ want' \in [pc : {"new", "waiting", "done"}, named : BOOLEAN, segment : Segment,
                    retries : 0 .. Retries]
      /\ p.last => want'.pc = "done" /\ want'.segment = want.segment /\ want'.named = want.named
      /\ ~p.last => want'.pc = "waiting" /\ want'.segment = want.segment + 1 /\ want'.named = TRUE
  <2>1. Retries \in 0 .. Retries /\ TypeOK
    BY Sizes DEF IInv
  <2>2. CASE p.last
    BY <2>1, <2>2, WantType DEF onData
  <2>3. CASE ~p.last
    <3>1. want' = [pc |-> "waiting", named |-> TRUE, segment |-> want.segment + 1,
                   retries |-> Retries]
      BY <2>3 DEF onData
    <3>. QED
      BY <1>1, <2>1, <2>3, <3>1
  <2>. QED
    BY <2>2, <2>3
<1> HIDE DEF data
<1>7. TypeOK'
  BY <1>3, <1>4, <1>5, <1>6 DEF IInv, TypeOK, producerVars
<1>8. ReceivedSoFar'
  <2>1. p.last => received'.completed /\ Ended(received')
    BY <1>3 DEF Ended
  <2>2. ~p.last => ~Ended(received') /\ ~received'.completed
    BY <1>3 DEF Ended
  <2>. QED
    BY <1>1, <1>3, <1>5, <1>6, <2>1, <2>2 DEF ReceivedSoFar, producerVars
<1>9. ToldSoFar'
  BY <1>2, <1>4, <1>6 DEF IInv, ToldSoFar
<1>. QED
  BY <1>5, <1>7, <1>8, <1>9, ConsumingInv

LEMMA ConsumerInv == ASSUME IInv, Consumer PROVE IInv'
BY AskInv, GiveUpInv, onDataInv DEF Consumer, onTimeout, onNack

---------------------------------------------------------------------------
LEMMA NextIInv == IInv /\ [Next]_vars => IInv'
<1> SUFFICES ASSUME IInv, [Next]_vars PROVE IInv'
  OBVIOUS
<1>1. CASE UNCHANGED vars
  BY <1>1 DEF vars, IInv, TypeOK, SourceNumbered, GeneratedSoFar, PacketsCut, PublishedMade,
              ReceivedSoFar, ToldSoFar, Cut
<1>2. CASE Writer
  BY <1>2, WriteInv, EndInv DEF Writer
<1>3. CASE Generator
  BY <1>1, <1>3, ReadBlockInv, AddPacketInv, StopGeneratingInv DEF Generator, WaitForBlock
<1>. QED
  BY <1>1, <1>2, <1>3, PurgingInv, ServerInv, ConsumerInv DEF Next, Finished

---------------------------------------------------------------------------
\* IInv is an invariant of the transfer.
THEOREM Invariance == Spec => []IInv
<1>. QED
  BY InitIInv, NextIInv, PTL DEF Spec

\* Every variable of the transfer keeps its type; of the numbers of the packets this
\* says that a content of MaxBytes bytes has at most so many.
THEOREM TypeCorrect == Spec => []TypeOK
<1>1. IInv => TypeOK
  BY DEF IInv
<1>. QED
  BY Invariance, <1>1, PTL

\* The parent of the consumer hears of a content once, whatever the network loses, repeats
\* or answers from a cache, and whenever the retries end (onData, onTimeout and onNack).
THEOREM ParentToldOnce == Spec => []ToldOnce
<1>1. IInv => ToldOnce
  <2> SUFFICES ASSUME IInv PROVE ToldOnce
    OBVIOUS
  <2>1. told = (IF want.pc = "done" \/ want.segment > 0 THEN 1 ELSE 0) /\ want.segment \in Nat
    BY Typed DEF IInv, ToldSoFar
  <2>2. want.pc # "done" => ~Ended(received) /\ Len(received.data) = At(want.segment)
    BY DEF IInv, ReceivedSoFar
  <2>3. want.segment > 0 => At(want.segment) > 0
    BY <2>1, Places
  <2>4. want.segment > 0 /\ want.pc # "done" => received.data # <<>>
    BY <2>2, <2>3, EmptySeq
  <2>5. want.pc = "done" => Ended(received)
    BY DEF IInv, ReceivedSoFar
  <2>. QED
    BY <2>1, <2>2, <2>4, <2>5 DEF ToldOnce
<1>. QED
  BY Invariance, <1>1, PTL

\* A content whose packets do not say where it ends has a length that is a multiple of the
\* packets' (the two reads of generateDataPackets).
THEOREM EndMarked == Spec => []UnendedOnlyAtBlockBoundary
<1>1. IInv => UnendedOnlyAtBlockBoundary
  <2> SUFFICES ASSUME IInv, gen.pc = "stopped", source.data # <<>>, ~datas[gen.segment - 1].last
               PROVE  Len(source.data) % BufferSize = 0
    BY DEF UnendedOnlyAtBlockBoundary
  <2> DEFINE k == gen.segment
  <2>1. /\ k \in Nat /\ Len(source.data) \in Nat /\ Len(source.data) # 0
        /\ Len(source.data) <= At(k) /\ DOMAIN datas = 0 .. k - 1
    BY Typed, EmptySeq DEF IInv, GeneratedSoFar
  <2>2. k # 0
    <3>1. At(0) = 0
      BY Places
    <3>. QED
      BY <2>1, <3>1
  <2>3. k - 1 \in Nat /\ k - 1 \in DOMAIN datas /\ (k - 1) + 1 = k
    BY <2>1, <2>2
  <2>4. Len(datas[k - 1].bytes) = BufferSize /\ At(k - 1) + BufferSize <= Len(source.data)
    <3>1. Cut(k - 1, datas[k - 1].bytes) /\ ~(Len(datas[k - 1].bytes) < BufferSize)
      BY <2>3 DEF IInv, PacketsCut
    <3>. QED
      BY <3>1, Sizes DEF Cut
  <2>5. At(k) = At(k - 1) + BufferSize /\ At(k) \in Nat
    <3>1. At((k - 1) + 1) = At(k - 1) + BufferSize
      BY <2>3, Places
    <3>. QED
      BY <2>1, <2>3, <3>1, Places
  <2>6. Len(source.data) = k * BufferSize
    BY <2>1, <2>4, <2>5 DEF At
  <2>7. (k * BufferSize) % BufferSize = 0
    BY <2>1, MultipleDivides, Sizes
  <2>. QED
    BY <2>6, <2>7
<1>. QED
  BY Invariance, <1>1, PTL

---------------------------------------------------------------------------
(***************************************************************************)
(* The transfer implements ContentTransfer: what was received is the       *)
(* beginning of what is sent, since both are runs of the source's bytes.   *)
(***************************************************************************)
LEMMA PrefixOfRuns ==
    ASSUME NEW n \in Nat, NEW m \in Nat, n <= m
    PROVE  Transfer!PrefixOf(Run(0, n), Run(0, m))
<1>1. SubSeq(Run(0, m), 0 + 1, 0 + n) = Run(0, n)
  <2>1. 0 \in Nat /\ 0 + n <= m
    OBVIOUS
  <2>. QED
    BY <2>1, RunPartOfAll, Zenon
<1>2. 0 + 1 = 1 /\ 0 + n = n
  OBVIOUS
<1>3. Len(Run(0, n)) = n /\ Len(Run(0, m)) = m
  <2>1. 0 \in Nat
    OBVIOUS
  <2>. QED
    BY <2>1, RunTyped
<1>. QED
  BY <1>1, <1>2, <1>3 DEF Transfer!PrefixOf

LEMMA Grows ==
    ASSUME IInv, IInv'
    PROVE  /\ Len(received.data) <= Len(received'.data) =>
                 Transfer!PrefixOf(received.data, received'.data)
           /\ Len(source.data) <= Len(source'.data) =>
                 Transfer!PrefixOf(source.data, source'.data)
           /\ Len(received'.data) <= Len(source.data) =>
                 Transfer!PrefixOf(received'.data, source.data)
<1>1. /\ received.data = Run(0, Len(received.data)) /\ Len(received.data) \in Nat
      /\ received'.data = Run(0, Len(received'.data)) /\ Len(received'.data) \in Nat
      /\ source.data = Run(0, Len(source.data)) /\ Len(source.data) \in Nat
      /\ source'.data = Run(0, Len(source'.data)) /\ Len(source'.data) \in Nat
  <2>1. TypeOK /\ TypeOK'
    BY DEF IInv
  <2>2. Len(received.data) \in Nat /\ Len(source.data) \in Nat
    BY <2>1, Typed
  <2>3. received'.data \in Seq(Byte) /\ source'.data \in Seq(Byte)
    BY <2>1 DEF TypeOK, StreamOf
  <2>. QED
    BY <2>2, <2>3, LenProperties DEF IInv, ReceivedSoFar, SourceNumbered
<1>. QED
  BY <1>1, PrefixOfRuns

LEMMA RefinesInit == Init => Transfer!Init
BY DEF Init, Transfer!Init, NewStream, Transfer!NewStream

LEMMA WriterRefines == ASSUME IInv, IInv', Writer PROVE Transfer!Next
<1>1. ~Ended(source) /\ UNCHANGED received
  BY DEF Writer, Write, Complete, Abort, consumerVars
<1>2. Len(source.data) <= Len(source'.data)
  <2>1. CASE Write
    BY <2>1, WriteGrows
  <2>2. CASE Complete \/ Abort
    <3>1. source'.data = source.data /\ Len(source.data) \in Nat
      BY <2>2, Typed DEF IInv, Complete, Abort, StreamOf
    <3>. QED
      BY <3>1
  <2>. QED
    BY <2>1, <2>2 DEF Writer
<1>. QED
  BY <1>1, <1>2, Grows DEF Transfer!Next, Transfer!Send, Transfer!Ended, Ended

LEMMA DataRefines ==
    ASSUME IInv, IInv', NEW p \in published, onData(p)
    PROVE  Transfer!Receive
<1> DEFINE data == received.data \o p.bytes
<1>1. /\ Len(p.bytes) \in 1 .. BufferSize /\ Len(data) = Len(received.data) + Len(p.bytes)
      /\ Len(data) <= Len(source.data) /\ data \in Seq(Byte) /\ data = Run(0, Len(data))
      /\ p.last => Ended(source) /\ Len(data) = Len(source.data)
      /\ p.last \in BOOLEAN
  BY DataContinues DEF onData
<1>2. /\ received \in StreamOf(Byte) /\ ~Ended(received) /\ Len(received.data) \in Nat
      /\ source.data = Run(0, Len(source.data)) /\ UNCHANGED source
  BY Typed DEF IInv, ReceivedSoFar, SourceNumbered, TypeOK, onData, producerVars
<1>3. /\ received'.data = data /\ ~received'.aborted
      /\ received'.completed <=> p.last
  BY <1>1, <1>2 DEF onData, append_raw_data, StreamOf, Ended
<1> HIDE DEF data
<1>4. /\ Len(received.data) < Len(received'.data) /\ Len(received.data) <= Len(received'.data)
      /\ Len(received'.data) <= Len(source.data)
  <2>1. Len(p.bytes) \in Nat /\ Len(p.bytes) >= 1
    BY <1>1, Sizes
  <2>2. Len(received'.data) = Len(received.data) + Len(p.bytes)
    BY <1>1, <1>3
  <2>3. Len(received.data) < Len(received'.data) /\ Len(received.data) <= Len(received'.data)
    <3>1. \A a, b \in Nat : b >= 1 => a < a + b /\ a <= a + b
      OBVIOUS
    <3>2. Len(received.data) \in Nat
      BY <1>2
    <3>. QED
      BY <2>1, <2>2, <3>1, <3>2, Zenon
  <2>. QED
    BY <1>1, <1>3, <2>3
<1>5. received'.completed => Ended(source) /\ received'.data = source.data
  BY <1>1, <1>2, <1>3
<1>6. /\ Transfer!PrefixOf(received.data, received'.data)
      /\ Transfer!PrefixOf(received'.data, source.data)
  BY <1>4, Grows
<1>. QED
  BY <1>2, <1>3, <1>4, <1>5, <1>6 DEF Transfer!Receive, Transfer!Ended, Ended

LEMMA GiveUpRefines == ASSUME IInv, want.pc = "waiting", GiveUp PROVE Transfer!GiveUp
BY DEF IInv, ReceivedSoFar, GiveUp, producerVars, Transfer!GiveUp, Transfer!Ended, Ended

\* Every step is a step of ContentTransfer or not seen.
LEMMA StepRefines ==
    IInv /\ IInv' /\ [Next]_vars => [Transfer!Next]_(Transfer!vars)
<1> SUFFICES ASSUME IInv, IInv', [Next]_vars
             PROVE  Transfer!Next \/ UNCHANGED <<source, received>>
  BY DEF Transfer!vars
<1>1. CASE UNCHANGED vars
  BY <1>1 DEF vars
<1>2. CASE Writer
  BY <1>2, WriterRefines
<1>3. CASE Generator \/ TimePasses \/ purgeOldContents \/ Server
  BY <1>1, <1>3 DEF Generator, ReadBlock, WaitForBlock, AddPacket, StopGenerating, TimePasses,
                    purgeOldContents, Server, onInterest, PublishToOther, Publish, TryLater,
                    Drop, consumerVars
<1>4. CASE Consumer
  <2>1. CASE retrieve \/ TryAgain \/ \E p \in published : OtherSegment(p)
    BY <2>1 DEF retrieve, TryAgain, OtherSegment, producerVars
  <2>2. CASE want.pc = "waiting" /\ GiveUp
    BY <2>2, GiveUpRefines DEF Transfer!Next
  <2>3. CASE \E p \in published : onData(p)
    BY <2>3, DataRefines DEF Transfer!Next
  <2>. QED
    BY <1>4, <2>1, <2>2, <2>3 DEF Consumer, onTimeout, onNack
<1>. QED
  BY <1>1, <1>2, <1>3, <1>4 DEF Next, Finished

\* Whatever is lost, repeated, late or cached, the consumer holds a prefix of the source,
\* and takes it for complete only when all of it has arrived (generateDataPackets on one
\* side, onData on the other).
THEOREM Refinement == Spec => ImplementsTransfer
<1>. QED
  BY RefinesInit, StepRefines, Invariance, PTL DEF Spec, ImplementsTransfer, Transfer!Spec
===========================================================================
