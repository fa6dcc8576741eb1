---------------------------- MODULE Sha1_proofs -----------------------------
(***************************************************************************)
(* What an object of the class SHA1 has hashed when its digest is taken:   *)
(* the blocks of the padded text, for texts of any length, added in any    *)
(* pieces.  What processBlock makes of the blocks is not proved about.     *)
(***************************************************************************)
EXTENDS Sha1, SequenceTheorems, TLAPS

---------------------------------------------------------------------------
(***************************************************************************)
(* Numbers and sequences.                                                  *)
(***************************************************************************)
LEMMA Within ==
    ASSUME NEW a \in Nat, NEW b \in Nat, NEW c \in Nat, a + b <= c
    PROVE  a + b \in 0 .. c
OBVIOUS

LEMMA Division ==
    ASSUME NEW n \in Nat, NEW d \in Nat, d > 0
    PROVE  /\ n \div d \in Nat /\ n % d \in 0 .. d - 1
           /\ n = d * (n \div d) + (n % d)
<1>1. /\ n % d \in Nat /\ n % d < d /\ n \div d \in Int
      /\ n = d * (n \div d) + (n % d)
  OBVIOUS
<1>2. n \div d >= 0
  <2>1. ASSUME NEW q \in Int, q <= -1
        PROVE  d * q <= -d
    BY <2>1
  <2>2. QED
    BY <1>1, <2>1
<1>3. \A r \in Nat : r < d => r \in 0 .. d - 1
  OBVIOUS
<1>4. n % d \in 0 .. d - 1
  BY <1>1, <1>3, Zenon
<1>5. \A q \in Int : q >= 0 => q \in Nat
  OBVIOUS
<1>6. n \div d \in Nat
  BY <1>1, <1>2, <1>5, Zenon
<1>7. QED
  BY <1>1, <1>4, <1>6, Zenon

LEMMA Blocks ==
    ASSUME NEW n \in Nat
    PROVE  /\ n \div BlockSize \in Nat /\ n % BlockSize \in 0 .. BlockSize - 1
           /\ n = BlockSize * (n \div BlockSize) + (n % BlockSize)
BY Division DEF BlockSize

LEMMA LesserOf ==
    ASSUME NEW a \in Nat, NEW b \in Nat
    PROVE  Min({a, b}) = IF a <= b THEN a ELSE b
BY DEF Min

LEMMA FunctionIsSeq ==
    ASSUME NEW n \in Nat, NEW S, NEW f \in [1 .. n -> S]
    PROVE  f \in Seq(S) /\ Len(f) = n
<1>1. f \in Seq(S)
  BY SeqDef, Zenon
<1>2. Len(f) \in Nat /\ DOMAIN f = 1 .. Len(f) /\ DOMAIN f = 1 .. n
  BY <1>1, LenProperties
<1>3. QED
  BY <1>1, <1>2

---------------------------------------------------------------------------
(***************************************************************************)
(* Bytes.                                                                  *)
(***************************************************************************)
\* The bytes of a text, a byte that was never written, and those of a length.
Bytes == Int \cup UNION {Range(LengthBytes(n)) : n \in Nat}

Block == [Offsets -> Bytes]

LEMMA LengthBytesAre ==
    ASSUME NEW n \in Nat
    PROVE  LengthBytes(n) \in Seq(Bytes) /\ Len(LengthBytes(n)) = 8
<1> DEFINE low == [i \in 1 .. 4 |-> (n \div 256 ^ (4 - i)) % 256]
           high == <<0, 0, 0, 0>>
           S == {0} \cup Range(low)
<1>1. low \in [1 .. 4 -> Range(low)]
  BY Zenon DEF Range
<1>2. LengthBytes(n) = high \o low
  BY Zenon DEF LengthBytes
<1>3. high \in Seq({0}) /\ Len(high) = 4
  OBVIOUS
<1> HIDE DEF low, high
<1>4. low \in Seq(Range(low)) /\ Len(low) = 4
  BY <1>1, FunctionIsSeq, 4 \in Nat
<1>5. high \in Seq(S) /\ low \in Seq(S)
  BY <1>3, <1>4, SeqMonotonic
<1> HIDE DEF S
<1>6. high \o low \in Seq(S) /\ Len(high \o low) = 8
  <2>1. high \o low \in Seq(S) /\ Len(high \o low) = Len(high) + Len(low)
    BY <1>5, ConcatProperties
  <2>2. QED
    BY <1>3, <1>4, <2>1
<1>7. LengthBytes(n) \in Seq(Range(LengthBytes(n)))
  BY <1>2, <1>6, SeqOfRange
<1>8. Range(LengthBytes(n)) \subseteq Bytes
  BY Zenon DEF Bytes
<1>9. QED
  BY <1>2, <1>6, <1>7, <1>8, SeqMonotonic

---------------------------------------------------------------------------
(***************************************************************************)
(* What is known of the hashed blocks and of the buffer.                   *)
(***************************************************************************)
\* The blocks are the first ones of m.
Hashed(blocks, m) ==
    \A b \in 1 .. Len(blocks), i \in Offsets : blocks[b][i] = m[BlockSize * (b - 1) + i + 1]

\* n bytes of the buffer are those of m after the first ones.
Buffered(buffer, n, m, first) == \A i \in 0 .. n - 1 : buffer[i] = m[first + i + 1]

\* With its hashed blocks and its buffer, an object has got the text m.
Object(numBytes, bufferSize, buffer, hash) ==
    [m_numBytes |-> numBytes, m_bufferSize |-> bufferSize, m_buffer |-> buffer, m_hash |-> hash]

Gathered(sha, m) ==
    \E bufferSize \in 0 .. BlockSize, buffer \in Block, hash \in Seq(Block) :
        /\ sha = Object(BlockSize * Len(hash), bufferSize, buffer, hash)
        /\ Len(m) = BlockSize * Len(hash) + bufferSize
        /\ Hashed(hash, m) /\ Buffered(buffer, bufferSize, m, BlockSize * Len(hash))

Holding(sha, m) == Gathered(sha, m) /\ sha.m_bufferSize < BlockSize

LEMMA ConcatAt ==
    ASSUME NEW m \in Seq(Bytes), NEW d \in Seq(Bytes)
    PROVE  /\ m \o d \in Seq(Bytes) /\ Len(m) \in Nat /\ Len(d) \in Nat
           /\ Len(m \o d) = Len(m) + Len(d)
           /\ \A i \in 1 .. Len(m) : (m \o d)[i] = m[i]
           /\ \A i \in 1 .. Len(d) : (m \o d)[Len(m) + i] = d[i]
<1>1. Len(m) \in Nat /\ Len(d) \in Nat
  OBVIOUS
<1>2. /\ m \o d \in Seq(Bytes) /\ Len(m \o d) = Len(m) + Len(d)
      /\ \A i \in 1 .. Len(m) + Len(d) :
            (m \o d)[i] = IF i <= Len(m) THEN m[i] ELSE d[i - Len(m)]
  BY ConcatProperties
<1>3. \A i \in 1 .. Len(m) : (m \o d)[i] = m[i]
  BY <1>1, <1>2
<1>4. ASSUME NEW i \in 1 .. Len(d)
      PROVE  (m \o d)[Len(m) + i] = d[i]
  <2>1. Len(m) + i \in 1 .. Len(m) + Len(d) /\ ~(Len(m) + i <= Len(m))
        /\ Len(m) + i - Len(m) = i
    BY <1>1
  <2>2. (m \o d)[Len(m) + i] = d[Len(m) + i - Len(m)]
    BY <1>2, <2>1
  <2>3. QED
    BY <2>1, <2>2
<1>5. QED
  BY <1>1, <1>2, <1>3, <1>4

LEMMA HashedStays ==
    ASSUME NEW hash \in Seq(Block), NEW m \in Seq(Bytes), NEW d \in Seq(Bytes),
           Hashed(hash, m), BlockSize * Len(hash) <= Len(m)
    PROVE  Hashed(hash, m \o d)
<1> SUFFICES ASSUME NEW b \in 1 .. Len(hash), NEW i \in Offsets
             PROVE  hash[b][i] = (m \o d)[BlockSize * (b - 1) + i + 1]
  BY DEF Hashed
<1>1. Len(hash) \in Nat /\ Len(m) \in Nat /\ i \in 0 .. 63 /\ 64 * Len(hash) <= Len(m)
  BY DEF Offsets, BlockSize
<1>2. BlockSize * (b - 1) + i + 1 \in 1 .. Len(m)
  <2>1. b \in Nat /\ b >= 1 /\ b <= Len(hash)
    BY <1>1
  <2>2. QED
    BY <1>1, <2>1 DEF BlockSize
<1>3. hash[b][i] = m[BlockSize * (b - 1) + i + 1]
  BY DEF Hashed
<1>4. QED
  BY <1>2, <1>3, ConcatAt

\* A block after the first ones of m.
LEMMA OneMoreHashed ==
    ASSUME NEW hash \in Seq(Block), NEW m, NEW block \in Block, Hashed(hash, m),
           Buffered(block, BlockSize, m, BlockSize * Len(hash))
    PROVE  /\ Append(hash, block) \in Seq(Block) /\ Len(Append(hash, block)) = Len(hash) + 1
           /\ Hashed(Append(hash, block), m)
<1> DEFINE h == Append(hash, block)
<1>1. /\ h \in Seq(Block) /\ Len(h) = Len(hash) + 1 /\ Len(hash) \in Nat
      /\ \A b \in 1 .. Len(hash) : h[b] = hash[b]
      /\ h[Len(hash) + 1] = block
  BY AppendProperties
<1> HIDE DEF h
<1>2. ASSUME NEW b \in 1 .. Len(h), NEW i \in Offsets
      PROVE  h[b][i] = m[BlockSize * (b - 1) + i + 1]
  <2>1. CASE b \in 1 .. Len(hash)
    BY <1>1, <2>1 DEF Hashed
  <2>2. CASE b = Len(hash) + 1
    <3>1. i \in 0 .. BlockSize - 1
      BY DEF Offsets
    <3>2. block[i] = m[BlockSize * Len(hash) + i + 1]
      BY <3>1 DEF Buffered
    <3>3. b - 1 = Len(hash)
      BY <1>1, <2>2
    <3>4. QED
      BY <1>1, <2>2, <3>2, <3>3
  <2>3. QED
    BY <1>1, <2>1, <2>2
<1>3. QED
  BY <1>1, <1>2 DEF Hashed, h

\* The bytes d after those in the buffer.
LEMMA MoreBuffered ==
    ASSUME NEW buffer \in Block, NEW n \in 0 .. BlockSize, NEW m \in Seq(Bytes),
           NEW first \in Nat, NEW d \in Seq(Bytes),
           Buffered(buffer, n, m, first), Len(m) = first + n, n + Len(d) <= BlockSize
    PROVE  LET after == [i \in Offsets |-> IF i \in n .. n + Len(d) - 1 THEN d[i - n + 1]
                                           ELSE buffer[i]]
           IN after \in Block /\ Buffered(after, n + Len(d), m \o d, first)
<1> DEFINE after == [i \in Offsets |-> IF i \in n .. n + Len(d) - 1 THEN d[i - n + 1]
                                       ELSE buffer[i]]
<1>1. n \in Nat /\ Len(d) \in Nat /\ n + Len(d) <= 64 /\ Offsets = 0 .. 63
  BY DEF BlockSize, Offsets
<1>2. \A i \in Offsets : i \in n .. n + Len(d) - 1 => i - n + 1 \in 1 .. Len(d)
  BY <1>1
<1>3. \A i \in Offsets : after[i] \in Bytes
  <2>1. ASSUME NEW i \in Offsets, i \in n .. n + Len(d) - 1
        PROVE  d[i - n + 1] \in Bytes
    BY <1>2, <2>1, ElementOfSeq
  <2>2. \A i \in Offsets : buffer[i] \in Bytes
    BY DEF Block
  <2>3. QED
    BY <2>1, <2>2
<1>4. after \in Block
  BY <1>3 DEF Block
<1>5. ASSUME NEW i \in 0 .. n + Len(d) - 1
      PROVE  after[i] = (m \o d)[first + i + 1]
  <2>1. i \in Offsets /\ i \in Nat
    BY <1>1
  <2>2. CASE i < n
    <3>1. after[i] = buffer[i]
      <4>1. ~(i \in n .. n + Len(d) - 1)
        BY <1>1, <2>1, <2>2
      <4>2. QED
        BY <2>1, <4>1
    <3> HIDE DEF after
    <3>2. i \in 0 .. n - 1
      BY <1>1, <2>1, <2>2
    <3>3. buffer[i] = m[first + i + 1]
      BY <3>2 DEF Buffered
    <3>4. first + i + 1 \in 1 .. Len(m)
      BY <1>1, <2>1, <2>2
    <3>5. QED
      BY <3>1, <3>3, <3>4, ConcatAt
  <2>3. CASE i >= n
    <3>1. after[i] = d[i - n + 1]
      <4>1. i \in n .. n + Len(d) - 1
        BY <1>1, <2>1, <2>3
      <4>2. QED
        BY <2>1, <4>1
    <3> HIDE DEF after
    <3>2. i - n + 1 \in 1 .. Len(d) /\ first + i + 1 = Len(m) + (i - n + 1)
      BY <1>1, <2>1, <2>3
    <3>3. (m \o d)[Len(m) + (i - n + 1)] = d[i - n + 1]
      BY <3>2, ConcatAt
    <3>4. QED
      BY <3>1, <3>2, <3>3
  <2>4. i < n \/ i >= n
    BY <1>1, <2>1
  <2>5. QED
    BY <2>2, <2>3, <2>4
<1>6. QED
  BY <1>4, <1>5 DEF Buffered

---------------------------------------------------------------------------
(***************************************************************************)
(* The operations of an object.                                            *)
(***************************************************************************)
LEMMA BufferSizeIs ==
    ASSUME NEW sha, NEW m, Gathered(sha, m)
    PROVE  sha.m_bufferSize \in Nat /\ sha.m_bufferSize <= 64
<1>1. PICK n \in 0 .. BlockSize, buffer \in Block, hash \in Seq(Block) :
         sha = Object(BlockSize * Len(hash), n, buffer, hash)
  BY Zenon DEF Gathered
<1>2. QED
  BY <1>1 DEF Object, BlockSize

LEMMA ResetHolds == Holding(reset, <<>>)
<1> DEFINE buffer == [i \in Offsets |-> Unset]
<1>1. buffer \in Block
  BY DEF Unset, Bytes, Block
<1>2. <<>> \in Seq(Block) /\ Len(<<>>) = 0 /\ 0 \in 0 .. BlockSize
  BY EmptySeq DEF BlockSize
<1>3. reset = Object(BlockSize * Len(<<>>), 0, buffer, <<>>)
  BY <1>2 DEF reset, Object, BlockSize
<1>4. Hashed(<<>>, <<>>) /\ Buffered(buffer, 0, <<>>, BlockSize * Len(<<>>))
  BY <1>2 DEF Hashed, Buffered
<1> HIDE DEF buffer
<1>5. Len(<<>>) = BlockSize * Len(<<>>) + 0
  BY <1>2 DEF BlockSize
<1>6. Gathered(reset, <<>>)
  BY <1>1, <1>2, <1>3, <1>4, <1>5, Zenon DEF Gathered
<1>7. QED
  BY <1>6 DEF Holding, reset, BlockSize

\* Bytes that find room in the buffer are gathered.
LEMMA KeepGathers ==
    ASSUME NEW sha, NEW m \in Seq(Bytes), Gathered(sha, m), NEW d \in Seq(Bytes),
           sha.m_bufferSize + Len(d) <= BlockSize
    PROVE  /\ Gathered(Keep(sha, d), m \o d)
           /\ Keep(sha, d).m_bufferSize = sha.m_bufferSize + Len(d)
<1>1. PICK n \in 0 .. BlockSize, buffer \in Block, hash \in Seq(Block) :
         /\ sha = Object(BlockSize * Len(hash), n, buffer, hash)
         /\ Len(m) = BlockSize * Len(hash) + n
         /\ Hashed(hash, m) /\ Buffered(buffer, n, m, BlockSize * Len(hash))
  BY Zenon DEF Gathered
<1> DEFINE after == [i \in Offsets |-> IF i \in n .. n + Len(d) - 1 THEN d[i - n + 1]
                                       ELSE buffer[i]]
           numBytes == BlockSize * Len(hash)
<1>2. /\ sha.m_bufferSize = n /\ sha.m_buffer = buffer /\ Len(hash) \in Nat
      /\ numBytes \in Nat /\ n \in Nat /\ Len(d) \in Nat
  BY <1>1 DEF Object, BlockSize
<1>3. Keep(sha, d) = [sha EXCEPT !.m_bufferSize = n + Len(d), !.m_buffer = after]
  BY <1>2, Zenon DEF Keep
<1>4. after \in Block /\ Buffered(after, n + Len(d), m \o d, numBytes)
  <2>1. n + Len(d) <= BlockSize
    BY <1>2
  <2> HIDE DEF numBytes
  <2>2. QED
    BY <1>1, <1>2, <2>1, MoreBuffered DEF numBytes
<1> HIDE DEF after, numBytes
<1>5. Keep(sha, d) = Object(numBytes, n + Len(d), after, hash)
  BY <1>1, <1>3 DEF Object, numBytes
<1>6. n + Len(d) \in 0 .. BlockSize
  <2>1. n + Len(d) <= BlockSize
    BY <1>2
  <2>2. QED
    BY <1>2, <2>1, 64 \in Nat, Within DEF BlockSize
<1>7. Len(m \o d) = numBytes + (n + Len(d))
  <2>1. Len(m \o d) = Len(m) + Len(d) /\ Len(m) = numBytes + n
    BY <1>1, ConcatAt DEF numBytes
  <2>2. QED
    BY <1>2, <2>1
<1>8. Hashed(hash, m \o d)
  BY <1>1, <1>2, HashedStays DEF numBytes
<1>9. Gathered(Keep(sha, d), m \o d)
  BY <1>4, <1>5, <1>6, <1>7, <1>8, Zenon DEF Gathered, numBytes
<1>10. QED
  BY <1>2, <1>5, <1>9 DEF Object

\* A full buffer is hashed as the next block.
LEMMA FullBufferHolds ==
    ASSUME NEW sha, NEW m, Gathered(sha, m)
    PROVE  /\ Holding(FullBuffer(sha), m)
           /\ FullBuffer(sha).m_bufferSize =
                 IF sha.m_bufferSize = BlockSize THEN 0 ELSE sha.m_bufferSize
<1>1. PICK n \in 0 .. BlockSize, buffer \in Block, hash \in Seq(Block) :
         /\ sha = Object(BlockSize * Len(hash), n, buffer, hash)
         /\ Len(m) = BlockSize * Len(hash) + n
         /\ Hashed(hash, m) /\ Buffered(buffer, n, m, BlockSize * Len(hash))
  BY Zenon DEF Gathered
<1>2. /\ sha.m_bufferSize = n /\ sha.m_buffer = buffer /\ sha.m_hash = hash
      /\ sha.m_numBytes = BlockSize * Len(hash) /\ Len(hash) \in Nat /\ n \in Nat
      /\ n <= BlockSize
  BY <1>1 DEF Object, BlockSize
<1>3. CASE n < BlockSize
  <2>1. FullBuffer(sha) = sha
    BY <1>2, <1>3 DEF FullBuffer
  <2>2. n # BlockSize
    BY <1>2, <1>3 DEF BlockSize
  <2>3. QED
    BY <1>2, <1>3, <2>1, <2>2 DEF Holding
<1>4. CASE n = BlockSize
  <2> DEFINE h == Append(hash, buffer)
             f == FullBuffer(sha)
  <2>1. ~(sha.m_bufferSize < BlockSize)
    BY <1>2, <1>4 DEF BlockSize
  <2>2. f = [sha EXCEPT !.m_hash = h, !.m_numBytes = BlockSize * Len(hash) + BlockSize,
                        !.m_bufferSize = 0]
    BY <1>2, <2>1 DEF FullBuffer
  <2>3. h \in Seq(Block) /\ Len(h) = Len(hash) + 1 /\ Hashed(h, m)
    BY <1>1, <1>4, OneMoreHashed
  <2> HIDE DEF h
  <2>4. BlockSize * Len(h) = BlockSize * Len(hash) + BlockSize
    BY <1>2, <2>3 DEF BlockSize
  <2>5. f = Object(BlockSize * Len(h), 0, buffer, h)
    BY <1>1, <2>2, <2>4 DEF Object
  <2>6. Len(m) = BlockSize * Len(h) + 0 /\ 0 \in 0 .. BlockSize
    BY <1>1, <1>2, <1>4, <2>4 DEF BlockSize
  <2>7. Buffered(buffer, 0, m, BlockSize * Len(h))
    BY DEF Buffered
  <2> HIDE DEF f
  <2>8. Gathered(f, m)
    BY <2>3, <2>5, <2>6, <2>7, Zenon DEF Gathered
  <2>9. f.m_bufferSize = 0
    BY <2>5 DEF Object
  <2>10. QED
    BY <1>2, <1>4, <2>8, <2>9 DEF Holding, f, BlockSize
<1>5. QED
  BY <1>2, <1>3, <1>4 DEF BlockSize

\* Blocks after the text that was hashed.
LEMMA HashedTogether ==
    ASSUME NEW hash \in Seq(Block), NEW m \in Seq(Bytes), NEW new \in Seq(Block),
           NEW d \in Seq(Bytes), Hashed(hash, m), Hashed(new, d),
           Len(m) = BlockSize * Len(hash), Len(d) = BlockSize * Len(new)
    PROVE  /\ hash \o new \in Seq(Block) /\ Len(hash \o new) = Len(hash) + Len(new)
           /\ Hashed(hash \o new, m \o d)
<1> DEFINE h == hash \o new
<1>1. /\ Len(hash) \in Nat /\ Len(new) \in Nat /\ Len(m) \in Nat
      /\ h \in Seq(Block) /\ Len(h) = Len(hash) + Len(new)
      /\ \A b \in 1 .. Len(hash) + Len(new) :
            h[b] = IF b <= Len(hash) THEN hash[b] ELSE new[b - Len(hash)]
  BY ConcatProperties
<1> HIDE DEF h
<1>2. Hashed(hash, m \o d)
  <2>1. BlockSize * Len(hash) <= Len(m)
    BY <1>1
  <2>2. QED
    BY <2>1, HashedStays
<1>3. ASSUME NEW b \in 1 .. Len(h), NEW i \in Offsets
      PROVE  h[b][i] = (m \o d)[BlockSize * (b - 1) + i + 1]
  <2>1. b \in 1 .. Len(hash) + Len(new) /\ b \in Nat
    BY <1>1
  <2>2. CASE b <= Len(hash)
    <3>1. b \in 1 .. Len(hash)
      BY <1>1, <2>1, <2>2
    <3>2. h[b] = hash[b]
      BY <1>1, <2>1, <2>2
    <3>3. QED
      BY <1>2, <3>1, <3>2 DEF Hashed
  <2>3. CASE ~(b <= Len(hash))
    <3> DEFINE c == b - Len(hash)
               j == BlockSize * (c - 1) + i + 1
    <3>1. c \in 1 .. Len(new) /\ h[b] = new[c]
      BY <1>1, <2>1, <2>3
    <3>2. new[c][i] = d[j]
      BY <3>1 DEF Hashed
    <3>3. c = b - Len(hash)
      OBVIOUS
    <3> HIDE DEF c
    <3>4. j \in 1 .. Len(d)
      <4>1. c \in Nat /\ c >= 1 /\ c <= Len(new) /\ i \in 0 .. 63
        BY <1>1, <3>1 DEF Offsets, BlockSize
      <4>2. QED
        BY <1>1, <4>1 DEF BlockSize
    <3>5. Len(m) + j = BlockSize * (b - 1) + i + 1
      <4>1. i \in 0 .. 63 /\ c \in Nat
        BY <1>1, <3>1 DEF Offsets, BlockSize
      <4>2. QED
        BY <1>1, <2>1, <3>3, <4>1 DEF BlockSize
    <3> HIDE DEF j
    <3>6. (m \o d)[Len(m) + j] = d[j]
      BY <3>4, ConcatAt
    <3>7. QED
      BY <3>1, <3>2, <3>5, <3>6
  <2>4. QED
    BY <2>2, <2>3
<1>4. QED
  BY <1>1, <1>3 DEF Hashed, h

\* Blocks of data are hashed where they are, unless a part of one is in the buffer.
LEMMA BlocksGathered ==
    ASSUME NEW sha, NEW m \in Seq(Bytes), Gathered(sha, m), NEW new \in Seq(Block),
           NEW d \in Seq(Bytes), Hashed(new, d), Len(d) = BlockSize * Len(new),
           sha.m_bufferSize = 0 \/ Len(new) = 0
    PROVE  LET hashed == [sha EXCEPT !.m_numBytes = @ + BlockSize * Len(new),
                                     !.m_hash = @ \o new]
           IN Gathered(hashed, m \o d) /\ hashed.m_bufferSize = sha.m_bufferSize
<1>1. PICK n \in 0 .. BlockSize, buffer \in Block, hash \in Seq(Block) :
         /\ sha = Object(BlockSize * Len(hash), n, buffer, hash)
         /\ Len(m) = BlockSize * Len(hash) + n
         /\ Hashed(hash, m) /\ Buffered(buffer, n, m, BlockSize * Len(hash))
  BY Zenon DEF Gathered
<1> DEFINE h == hash \o new
           numBytes == BlockSize * Len(hash) + BlockSize * Len(new)
           hashed == [sha EXCEPT !.m_numBytes = @ + BlockSize * Len(new), !.m_hash = @ \o new]
<1>2. hashed = Object(numBytes, n, buffer, h)
  <2>1. sha.m_numBytes = BlockSize * Len(hash) /\ sha.m_hash = hash
    BY <1>1 DEF Object
  <2>2. hashed = [sha EXCEPT !.m_numBytes = numBytes, !.m_hash = h]
    BY <2>1
  <2> HIDE DEF hashed, numBytes, h
  <2>3. QED
    BY <1>1, <2>2 DEF Object
<1>3. sha.m_bufferSize = n /\ hashed.m_bufferSize = n
  BY <1>1, <1>2 DEF Object
<1> HIDE DEF hashed
<1>4. /\ Len(hash) \in Nat /\ Len(new) \in Nat /\ Len(m) \in Nat /\ Len(d) \in Nat /\ n \in Nat
      /\ h \in Seq(Block) /\ Len(h) = Len(hash) + Len(new)
  BY ConcatProperties
<1>5. numBytes = BlockSize * Len(h)
  BY <1>4 DEF BlockSize
<1>6. Len(m \o d) = numBytes + n
  <2>1. Len(m \o d) = Len(m) + Len(d)
    BY ConcatAt
  <2>2. QED
    BY <1>1, <1>4, <2>1 DEF BlockSize
<1>7. Hashed(h, m \o d) /\ Buffered(buffer, n, m \o d, numBytes)
  <2>1. CASE n = 0
    <3>1. Len(m) = BlockSize * Len(hash)
      BY <1>1, <1>4, <2>1 DEF BlockSize
    <3>2. Hashed(h, m \o d)
      BY <1>1, <3>1, HashedTogether
    <3>3. QED
      BY <2>1, <3>2 DEF Buffered
  <2>2. CASE Len(new) = 0
    <3>1. Len(d) = 0
      BY <1>4, <2>2 DEF BlockSize
    <3>2. d = <<>> /\ new = <<>>
      BY <1>4, <2>2, <3>1, EmptySeq
    <3>3. m \o d = m /\ h = hash
      BY <3>2, ConcatEmptySeq
    <3>4. numBytes = BlockSize * Len(hash)
      BY <1>4, <2>2 DEF BlockSize
    <3>5. QED
      BY <1>1, <3>3, <3>4
  <2>3. QED
    BY <1>3, <2>1, <2>2
<1> HIDE DEF h, numBytes
<1>8. Gathered(hashed, m \o d)
  BY <1>2, <1>4, <1>5, <1>6, <1>7, Zenon DEF Gathered
<1>9. QED
  BY <1>3, <1>8 DEF hashed

LEMMA PartOf ==
    ASSUME NEW d \in Seq(Bytes), NEW i \in Nat, NEW j \in i .. Len(d)
    PROVE  /\ SubSeq(d, i + 1, j) \in Seq(Bytes) /\ Len(SubSeq(d, i + 1, j)) = j - i
           /\ \A k \in 1 .. j - i : SubSeq(d, i + 1, j)[k] = d[i + k]
<1>1. i + 1 \in Int /\ j \in Int /\ Len(d) \in Nat
  OBVIOUS
<1>2. \A k \in i + 1 .. j : d[k] \in Bytes
  <2>1. \A k \in i + 1 .. j : k \in 1 .. Len(d)
    BY <1>1
  <2>2. QED
    BY <2>1, ElementOfSeq
<1>3. /\ SubSeq(d, i + 1, j) \in Seq(Bytes)
      /\ Len(SubSeq(d, i + 1, j)) = IF i + 1 <= j THEN j - (i + 1) + 1 ELSE 0
      /\ \A k \in 1 .. j - (i + 1) + 1 : SubSeq(d, i + 1, j)[k] = d[i + 1 + k - 1]
  BY <1>1, <1>2, SubSeqProperties
<1>4. QED
  BY <1>1, <1>3

\* The buffer is filled up first, when there is something in it.
LEMMA Filled ==
    ASSUME NEW sha, NEW m \in Seq(Bytes), Holding(sha, m), NEW d \in Seq(Bytes)
    PROVE  LET fill == IF sha.m_bufferSize = 0 THEN 0
                       ELSE Min({BlockSize - sha.m_bufferSize, Len(d)})
               emptied == FullBuffer(Keep(sha, SubSeq(d, 1, fill)))
           IN /\ fill \in 0 .. Len(d)
              /\ Holding(emptied, m \o SubSeq(d, 1, fill))
              /\ emptied.m_bufferSize = 0 \/ fill = Len(d)
<1> DEFINE n == sha.m_bufferSize
           fill == IF n = 0 THEN 0 ELSE Min({BlockSize - n, Len(d)})
           kept == Keep(sha, SubSeq(d, 1, fill))
<1>1. Gathered(sha, m) /\ n \in Nat /\ n < 64 /\ Len(d) \in Nat
  <2>1. n \in Nat /\ n < BlockSize
    BY BufferSizeIs DEF Holding
  <2>2. QED
    BY <2>1 DEF Holding, BlockSize
<1> HIDE DEF n
<1>2. fill \in 0 .. Len(d) /\ n + fill <= 64 /\ (n = 0 => fill = 0)
      /\ (n > 0 => n + fill = 64 \/ fill = Len(d))
  <2>1. CASE n = 0
    BY <1>1, <2>1
  <2>2. CASE n # 0
    <3>1. 64 - n \in Nat
      BY <1>1
    <3>2. Min({64 - n, Len(d)}) = IF 64 - n <= Len(d) THEN 64 - n ELSE Len(d)
      BY <1>1, <3>1, LesserOf
    <3>3. fill = IF 64 - n <= Len(d) THEN 64 - n ELSE Len(d)
      BY <2>2, <3>2 DEF BlockSize
    <3> HIDE DEF fill
    <3>4. QED
      BY <1>1, <2>2, <3>1, <3>3
  <2>3. QED
    BY <2>1, <2>2
<1> HIDE DEF fill
<1>3. SubSeq(d, 1, fill) \in Seq(Bytes) /\ Len(SubSeq(d, 1, fill)) = fill
  <2>1. SubSeq(d, 0 + 1, fill) \in Seq(Bytes) /\ Len(SubSeq(d, 0 + 1, fill)) = fill - 0
    BY <1>2, PartOf, 0 \in Nat
  <2>2. 0 + 1 = 1 /\ fill - 0 = fill
    BY <1>2
  <2>3. QED
    BY <2>1, <2>2
<1>4. Gathered(kept, m \o SubSeq(d, 1, fill)) /\ kept.m_bufferSize = n + fill
  <2>1. n + Len(SubSeq(d, 1, fill)) <= BlockSize
    BY <1>2, <1>3 DEF BlockSize
  <2>2. QED
    BY <1>1, <1>3, <2>1, KeepGathers DEF n
<1> HIDE DEF kept
<1>5. /\ Holding(FullBuffer(kept), m \o SubSeq(d, 1, fill))
      /\ FullBuffer(kept).m_bufferSize = IF n + fill = 64 THEN 0 ELSE n + fill
  BY <1>4, FullBufferHolds DEF BlockSize
<1>6. FullBuffer(kept).m_bufferSize = 0 \/ fill = Len(d)
  BY <1>1, <1>2, <1>5
<1>7. QED
  BY <1>2, <1>5, <1>6 DEF kept, fill, n

\* A text and the three parts of what is added to it.
InParts(m, s, t, u) == ((m \o s) \o t) \o u = m \o ((s \o t) \o u)

LEMMA AddedInParts ==
    ASSUME NEW m \in Seq(Bytes), NEW s \in Seq(Bytes), NEW t \in Seq(Bytes), NEW u \in Seq(Bytes)
    PROVE  InParts(m, s, t, u)
<1>1. PICK v \in Seq(Bytes) : v = s \o t
  BY ConcatProperties
<1>2. (m \o v) \o u = m \o (v \o u)
  OBVIOUS
<1>3. (m \o s) \o t = m \o (s \o t)
  OBVIOUS
<1>4. ((m \o s) \o t) \o u = (m \o v) \o u
  BY <1>1, <1>3
<1>5. ((m \o s) \o t) \o u = m \o (v \o u)
  BY <1>2, <1>4
<1>6. QED
  BY <1>1, <1>5 DEF InParts

\* Whatever the object held, it holds the text with what is added at its end.
LEMMA AddHolds ==
    ASSUME NEW sha, NEW m \in Seq(Bytes), Holding(sha, m), NEW d \in Seq(Bytes)
    PROVE  Holding(add(sha, d), m \o d)
<1> DEFINE fill == IF sha.m_bufferSize = 0 THEN 0
                   ELSE Min({BlockSize - sha.m_bufferSize, Len(d)})
           emptied == FullBuffer(Keep(sha, SubSeq(d, 1, fill)))
           blocks == (Len(d) - fill) \div BlockSize
           new == [b \in 1 .. blocks |->
                     [i \in Offsets |-> d[fill + BlockSize * (b - 1) + i + 1]]]
           hashed == [emptied EXCEPT !.m_numBytes = @ + BlockSize * blocks,
                                     !.m_hash = @ \o new]
           end == fill + BlockSize * blocks
<1>1. /\ fill \in 0 .. Len(d) /\ Holding(emptied, m \o SubSeq(d, 1, fill))
      /\ emptied.m_bufferSize = 0 \/ fill = Len(d)
  BY Filled
<1>2. add(sha, d) = Keep(hashed, SubSeq(d, end + 1, Len(d)))
  BY Zenon DEF add
<1>3. fill = fill /\ emptied = emptied /\ Len(d) \in Nat
  OBVIOUS
<1> HIDE DEF fill, emptied
<1>4. /\ blocks \in Nat /\ end \in fill .. Len(d) /\ Len(d) - end < 64 /\ fill \in Nat
      /\ end - fill = BlockSize * blocks /\ (fill = Len(d) => blocks = 0)
  <2>1. Len(d) - fill \in Nat /\ fill \in Nat
    BY <1>1, <1>3
  <2>2. /\ blocks \in Nat /\ (Len(d) - fill) % BlockSize \in 0 .. BlockSize - 1
        /\ Len(d) - fill = BlockSize * blocks + ((Len(d) - fill) % BlockSize)
    BY <2>1, Blocks
  <2> DEFINE r == (Len(d) - fill) % BlockSize
  <2>3. r \in 0 .. BlockSize - 1 /\ Len(d) - fill = BlockSize * blocks + r
    BY <2>2
  <2> HIDE DEF r, blocks
  <2>4. r \in Nat /\ r < 64 /\ Len(d) - fill = 64 * blocks + r
    BY <2>3 DEF BlockSize
  <2>5. end = fill + 64 * blocks /\ end - fill = BlockSize * blocks
    BY <2>1, <2>2 DEF BlockSize
  <2> HIDE DEF end
  <2>6. QED
    BY <1>3, <2>1, <2>2, <2>4, <2>5
<1>5. /\ SubSeq(d, fill + 1, end) \in Seq(Bytes) /\ Len(SubSeq(d, fill + 1, end)) = end - fill
      /\ \A k \in 1 .. end - fill : SubSeq(d, fill + 1, end)[k] = d[fill + k]
  <2> HIDE DEF end
  <2>1. QED
    BY <1>4, PartOf
<1>6. /\ SubSeq(d, end + 1, Len(d)) \in Seq(Bytes)
      /\ Len(SubSeq(d, end + 1, Len(d))) = Len(d) - end
  <2> HIDE DEF end
  <2>1. end \in Nat /\ Len(d) \in end .. Len(d)
    BY <1>3, <1>4
  <2>2. QED
    BY <2>1, PartOf
<1>7. /\ SubSeq(d, 1, fill) \in Seq(Bytes)
      /\ SubSeq(d, 1, fill) \o SubSeq(d, fill + 1, end) \o SubSeq(d, end + 1, Len(d)) = d
  <2> HIDE DEF end
  <2>1. 1 \in 1 .. Len(d) + 1 /\ fill \in 1 - 1 .. Len(d) /\ end \in fill .. Len(d)
        /\ end \in 1 - 1 .. Len(d) /\ Len(d) \in end .. Len(d)
    BY <1>1, <1>3, <1>4
  <2>2. SubSeq(d, 1, fill) \in Seq(Bytes)
    <3>1. SubSeq(d, 0 + 1, fill) \in Seq(Bytes)
      BY <1>1, PartOf, 0 \in Nat
    <3>2. 0 + 1 = 1
      OBVIOUS
    <3>3. QED
      BY <3>1, <3>2
  <2>3. SubSeq(d, 1, fill) \o SubSeq(d, fill + 1, end) = SubSeq(d, 1, end)
    BY <2>1, ConcatAdjacentSubSeq
  <2>4. SubSeq(d, 1, end) \o SubSeq(d, end + 1, Len(d)) = SubSeq(d, 1, Len(d))
    BY <2>1, ConcatAdjacentSubSeq
  <2>5. SubSeq(d, 1, Len(d)) = d
    BY SubSeqFull
  <2>6. QED
    BY <2>2, <2>3, <2>4, <2>5
<1>8. /\ new \in Seq(Block) /\ Len(new) = blocks
      /\ Hashed(new, SubSeq(d, fill + 1, end))
  <2> HIDE DEF blocks, end
  <2>1. ASSUME NEW b \in 1 .. blocks, NEW i \in Offsets
        PROVE  /\ BlockSize * (b - 1) + i + 1 \in 1 .. end - fill
               /\ fill + BlockSize * (b - 1) + i + 1 = fill + (BlockSize * (b - 1) + i + 1)
               /\ fill + BlockSize * (b - 1) + i + 1 \in 1 .. Len(d)
    <3>1. b \in Nat /\ b >= 1 /\ b <= blocks /\ i \in Nat /\ i <= 63
      BY <1>4 DEF Offsets, BlockSize
    <3>2. end \in Nat /\ end <= Len(d) /\ end = fill + 64 * blocks
      BY <1>3, <1>4 DEF BlockSize
    <3>3. QED
      BY <1>3, <1>4, <3>1, <3>2 DEF BlockSize
  <2>2. \A b \in 1 .. blocks : new[b] \in Block
    <3>1. ASSUME NEW b \in 1 .. blocks, NEW i \in Offsets
          PROVE  d[fill + BlockSize * (b - 1) + i + 1] \in Bytes
      BY <2>1, ElementOfSeq
    <3>2. QED
      BY <3>1 DEF Block
  <2>3. new \in [1 .. blocks -> Block]
    BY <2>2
  <2>4. \A b \in 1 .. blocks, i \in Offsets :
           new[b][i] = d[fill + (BlockSize * (b - 1) + i + 1)]
    BY <2>1
  <2> HIDE DEF new
  <2>5. new \in Seq(Block) /\ Len(new) = blocks
    BY <1>4, <2>3, FunctionIsSeq
  <2>6. \A b \in 1 .. blocks, i \in Offsets :
           SubSeq(d, fill + 1, end)[BlockSize * (b - 1) + i + 1]
             = d[fill + (BlockSize * (b - 1) + i + 1)]
    BY <1>5, <2>1
  <2>7. QED
    BY <2>4, <2>5, <2>6 DEF Hashed
<1>9. /\ Gathered(hashed, (m \o SubSeq(d, 1, fill)) \o SubSeq(d, fill + 1, end))
      /\ hashed.m_bufferSize = emptied.m_bufferSize
  <2>1. m \o SubSeq(d, 1, fill) \in Seq(Bytes)
    BY <1>7, ConcatProperties
  <2>2. emptied.m_bufferSize = 0 \/ Len(new) = 0
    BY <1>1, <1>4, <1>8
  <2>3. Gathered(emptied, m \o SubSeq(d, 1, fill))
    BY <1>1 DEF Holding
  <2>4. Len(SubSeq(d, fill + 1, end)) = BlockSize * Len(new)
    BY <1>4, <1>5, <1>8
  <2>5. hashed = [emptied EXCEPT !.m_numBytes = @ + BlockSize * Len(new), !.m_hash = @ \o new]
    <3> HIDE DEF new, blocks
    <3>1. QED
      BY <1>8, Zenon
  <2> HIDE DEF new, hashed, end
  <2>6. QED
    BY <1>5, <1>8, <2>1, <2>2, <2>3, <2>4, <2>5, BlocksGathered
<1> HIDE DEF hashed, end
<1>10. hashed.m_bufferSize + (Len(d) - end) < 64
  <2>1. emptied.m_bufferSize \in Nat /\ emptied.m_bufferSize < 64
    <3>1. emptied.m_bufferSize \in Nat /\ emptied.m_bufferSize < BlockSize
      BY <1>1, BufferSizeIs DEF Holding
    <3>2. QED
      BY <3>1 DEF BlockSize
  <2>2. fill = Len(d) => Len(d) - end = 0
    BY <1>3, <1>4
  <2>3. Len(d) - end \in Nat
    BY <1>3, <1>4
  <2>4. QED
    BY <1>1, <1>4, <1>9, <2>1, <2>2, <2>3
<1>11. (m \o SubSeq(d, 1, fill)) \o SubSeq(d, fill + 1, end) \in Seq(Bytes)
  BY <1>5, <1>7, ConcatProperties
<1>12. /\ Gathered(add(sha, d), ((m \o SubSeq(d, 1, fill)) \o SubSeq(d, fill + 1, end))
                                  \o SubSeq(d, end + 1, Len(d)))
       /\ add(sha, d).m_bufferSize = hashed.m_bufferSize + (Len(d) - end)
  <2>1. hashed.m_bufferSize + Len(SubSeq(d, end + 1, Len(d))) <= BlockSize
    <3>1. hashed.m_bufferSize + (Len(d) - end) <= 64
      <4>1. hashed.m_bufferSize \in Nat
        BY <1>9, BufferSizeIs
      <4>2. QED
        BY <1>3, <1>4, <1>10, <4>1
    <3>2. QED
      BY <1>6, <3>1 DEF BlockSize
  <2>2. QED
    BY <1>2, <1>6, <1>9, <1>11, <2>1, KeepGathers
<1>13. ((m \o SubSeq(d, 1, fill)) \o SubSeq(d, fill + 1, end)) \o SubSeq(d, end + 1, Len(d))
         = m \o d
  <2> DEFINE s == SubSeq(d, 1, fill)
             t == SubSeq(d, fill + 1, end)
             u == SubSeq(d, end + 1, Len(d))
  <2>1. s \in Seq(Bytes) /\ t \in Seq(Bytes) /\ u \in Seq(Bytes) /\ (s \o t) \o u = d
    BY <1>5, <1>6, <1>7
  <2> HIDE DEF s, t, u
  <2>2. InParts(m, s, t, u)
    BY <2>1, AddedInParts
  <2>3. ((m \o s) \o t) \o u = m \o d
    BY <2>1, <2>2 DEF InParts
  <2>4. QED
    BY <2>3 DEF s, t, u
<1>14. QED
  BY <1>10, <1>12, <1>13 DEF Holding, BlockSize

---------------------------------------------------------------------------
(***************************************************************************)
(* The padding.                                                            *)
(***************************************************************************)
\* Where the length goes, after n bytes in the buffer.
LengthAt(n) == IF n <= 55 THEN 56 ELSE 120

LEMMA PaddedLengthIs ==
    ASSUME NEW n \in 0 .. BlockSize - 1
    PROVE  paddedLength(n) = LengthAt(n)
<1>1. n \in Nat /\ n <= 63 /\ (8 * n + 1) % 512 = 8 * n + 1
  BY DEF BlockSize
<1>2. CASE n <= 55
  <2>1. 8 * n + 1 <= 448 /\ 8 * n + 1 + 448 - (8 * n + 1) = 448 /\ 448 \div 8 = 56
    BY <1>1, <1>2
  <2>2. QED
    BY <1>1, <1>2, <2>1 DEF paddedLength, LengthAt
<1>3. CASE n > 55
  <2>1. ~(8 * n + 1 <= 448) /\ 8 * n + 1 + 960 - (8 * n + 1) = 960 /\ 960 \div 8 = 120
    BY <1>1, <1>3
  <2>2. QED
    BY <1>1, <1>3, <2>1 DEF paddedLength, LengthAt
<1>4. QED
  BY <1>1, <1>2, <1>3

\* The least number of zeros that fills the blocks is the only one below 64.
LEMMA ZerosAre ==
    ASSUME NEW q \in Nat, NEW n \in 0 .. BlockSize - 1
    PROVE  (CHOOSE k \in 0 .. BlockSize - 1 : (BlockSize * q + n + 1 + k + 8) % BlockSize = 0)
             = LengthAt(n) - n - 1
<1>1. n \in Nat /\ n <= 63 /\ LengthAt(n) - n - 1 \in 0 .. BlockSize - 1
  BY DEF BlockSize, LengthAt
<1>2. ASSUME NEW k \in 0 .. BlockSize - 1
      PROVE  (BlockSize * q + n + 1 + k + 8) % BlockSize = 0 <=> k = LengthAt(n) - n - 1
  <2> DEFINE x == BlockSize * q + n + 1 + k + 8
             e == x \div BlockSize
             r == x % BlockSize
  <2>1. k \in Nat /\ k <= 63 /\ x \in Nat /\ x = 64 * q + n + k + 9
    BY <1>1 DEF BlockSize
  <2>2. e \in Nat /\ r \in 0 .. BlockSize - 1 /\ x = BlockSize * e + r
    <3> HIDE DEF x
    <3>1. QED
      BY <2>1, Blocks
  <2> HIDE DEF x, e, r
  <2>3. e \in Nat /\ r \in Nat /\ r <= 63 /\ 64 * e + r = 64 * q + n + k + 9
    BY <2>1, <2>2 DEF BlockSize
  <2>4. r = 0 <=> k = 55 - n \/ k = 119 - n
    BY <1>1, <2>1, <2>3
  <2>5. r = 0 <=> k = LengthAt(n) - n - 1
    BY <1>1, <2>1, <2>4 DEF LengthAt
  <2>6. QED
    BY <2>5 DEF r, x
<1>3. QED
  BY <1>1, <1>2

\* Two texts, one after the other.
Joined(m, d) ==
    /\ m \o d \in Seq(Bytes) /\ Len(m \o d) = Len(m) + Len(d)
    /\ \A i \in 1 .. Len(m) : (m \o d)[i] = m[i]
    /\ \A i \in 1 .. Len(d) : (m \o d)[Len(m) + i] = d[i]

LEMMA TextsJoined == \A m, d \in Seq(Bytes) : Joined(m, d)
BY ConcatAt DEF Joined

\* The padded message, place by place.
Padded(m, q, n) ==
    LET p == PaddedMessage(m) IN
    /\ p \in Seq(Bytes) /\ Len(p) = BlockSize * q + LengthAt(n) + 8
    /\ \E d \in Seq(Bytes) : p = m \o d
    /\ p[BlockSize * q + n + 1] = 128
    /\ \A k \in n + 1 .. LengthAt(n) - 1 : p[BlockSize * q + k + 1] = 0
    /\ \A k \in 1 .. 8 : p[BlockSize * q + LengthAt(n) + k] = LengthBytes(8 * Len(m))[k]

LEMMA PaddedAt ==
    ASSUME NEW m \in Seq(Bytes), NEW q \in Nat, NEW n \in 0 .. BlockSize - 1,
           Len(m) = BlockSize * q + n
    PROVE  Padded(m, q, n)
<1> DEFINE zeros == CHOOSE k \in 0 .. BlockSize - 1 : (Len(m) + 1 + k + 8) % BlockSize = 0
           nulls == [i \in 1 .. zeros |-> 0]
           length == LengthBytes(8 * Len(m))
           one == <<128>>
           p1 == m \o one
           p2 == p1 \o nulls
           p == p2 \o length
<1>1. PaddedMessage(m) = p
  BY Zenon DEF PaddedMessage
<1>2. zeros = LengthAt(n) - n - 1 /\ zeros \in Nat /\ Len(m) \in Nat
  <2>1. zeros = LengthAt(n) - n - 1
    BY ZerosAre
  <2>2. n \in Nat /\ n <= 63
    BY DEF BlockSize
  <2> HIDE DEF zeros
  <2>3. QED
    BY <2>1, <2>2 DEF LengthAt
<1> HIDE DEF zeros
<1>3. one \in Seq(Bytes) /\ Len(one) = 1 /\ one[1] = 128
  BY DEF Bytes
<1>4. nulls \in Seq(Bytes) /\ Len(nulls) = zeros /\ \A i \in 1 .. zeros : nulls[i] = 0
  <2>1. nulls \in [1 .. zeros -> Bytes]
    BY DEF Bytes
  <2>2. \A i \in 1 .. zeros : nulls[i] = 0
    OBVIOUS
  <2> HIDE DEF nulls
  <2>3. QED
    BY <1>2, <2>1, <2>2, FunctionIsSeq
<1>5. length \in Seq(Bytes) /\ Len(length) = 8
  <2>1. 8 * Len(m) \in Nat
    BY <1>2
  <2>2. QED
    BY <2>1, LengthBytesAre
<1> HIDE DEF nulls, length, one
<1>6. p1 \in Seq(Bytes) /\ Len(p1) = Len(m) + 1 /\ p1[Len(m) + 1] = 128
  <2>1. /\ p1 \in Seq(Bytes) /\ Len(p1) = Len(m) + Len(one)
        /\ \A i \in 1 .. Len(one) : p1[Len(m) + i] = one[i]
    <3>1. Joined(m, one)
      BY <1>3, TextsJoined, Zenon
    <3>2. QED
      BY <3>1, Zenon DEF Joined, p1
  <2>2. 1 \in 1 .. Len(one)
    BY <1>3
  <2> HIDE DEF p1
  <2>3. QED
    BY <1>2, <1>3, <2>1, <2>2
<1> HIDE DEF p1
<1>7. /\ p2 \in Seq(Bytes) /\ Len(p2) = Len(m) + 1 + zeros
      /\ p2[Len(m) + 1] = 128 /\ \A i \in 1 .. zeros : p2[Len(m) + 1 + i] = 0
  <2>1. /\ p2 \in Seq(Bytes) /\ Len(p2) = Len(p1) + Len(nulls)
        /\ \A i \in 1 .. Len(p1) : p2[i] = p1[i]
        /\ \A i \in 1 .. Len(nulls) : p2[Len(p1) + i] = nulls[i]
    <3>1. Joined(p1, nulls)
      BY <1>4, <1>6, TextsJoined, Zenon
    <3>2. QED
      BY <3>1, Zenon DEF Joined, p2
  <2>2. Len(m) + 1 \in 1 .. Len(p1)
    BY <1>2, <1>6
  <2> HIDE DEF p2
  <2>3. QED
    BY <1>2, <1>4, <1>6, <2>1, <2>2
<1> HIDE DEF p2
<1>8. /\ p \in Seq(Bytes) /\ Len(p) = Len(m) + 1 + zeros + 8
      /\ p[Len(m) + 1] = 128 /\ \A i \in 1 .. zeros : p[Len(m) + 1 + i] = 0
      /\ \A k \in 1 .. 8 : p[Len(m) + 1 + zeros + k] = length[k]
  <2>1. /\ p \in Seq(Bytes) /\ Len(p) = Len(p2) + Len(length)
        /\ \A i \in 1 .. Len(p2) : p[i] = p2[i]
        /\ \A i \in 1 .. Len(length) : p[Len(p2) + i] = length[i]
    <3>1. Joined(p2, length)
      BY <1>5, <1>7, TextsJoined, Zenon
    <3>2. QED
      BY <3>1, Zenon DEF Joined, p
  <2>2. Len(m) + 1 \in 1 .. Len(p2) /\ \A i \in 1 .. zeros : Len(m) + 1 + i \in 1 .. Len(p2)
    BY <1>2, <1>7
  <2> HIDE DEF p
  <2>3. p[Len(m) + 1] = 128 /\ \A i \in 1 .. zeros : p[Len(m) + 1 + i] = 0
    BY <1>7, <2>1, <2>2
  <2>4. \A k \in 1 .. 8 : p[Len(m) + 1 + zeros + k] = length[k]
    <3>1. Len(length) = 8 /\ Len(p2) = Len(m) + 1 + zeros
      BY <1>5, <1>7
    <3>2. \A k \in 1 .. 8 : p[Len(p2) + k] = length[k]
      BY <2>1, <3>1
    <3>3. QED
      BY <3>1, <3>2
  <2>5. QED
    BY <1>5, <1>7, <2>1, <2>3, <2>4
<1>9. \E d \in Seq(Bytes) : p = m \o d
  <2>1. InParts(m, one, nulls, length)
    BY <1>3, <1>4, <1>5, AddedInParts
  <2>2. p = m \o ((one \o nulls) \o length)
    BY <2>1, Zenon DEF InParts, p, p1, p2
  <2>3. (one \o nulls) \o length \in Seq(Bytes)
    BY <1>3, <1>4, <1>5, ConcatProperties
  <2>4. QED
    BY <2>2, <2>3
<1> HIDE DEF p
<1>10. /\ Len(m) = BlockSize * q + n /\ BlockSize * q \in Nat
       /\ n \in Nat /\ n <= 63 /\ LengthAt(n) \in Nat
  BY DEF BlockSize, LengthAt
<1>11. \A k \in n + 1 .. LengthAt(n) - 1 : p[BlockSize * q + k + 1] = 0
  <2>1. TAKE k \in n + 1 .. LengthAt(n) - 1
  <2>2. k - n \in 1 .. zeros /\ Len(m) + 1 + (k - n) = BlockSize * q + k + 1
    BY <1>2, <1>10
  <2>3. p[Len(m) + 1 + (k - n)] = 0
    BY <1>8, <2>2
  <2>4. QED
    BY <2>2, <2>3
<1>12. \A k \in 1 .. 8 : p[BlockSize * q + LengthAt(n) + k] = length[k]
  <2>1. TAKE k \in 1 .. 8
  <2>2. Len(m) + 1 + zeros + k = BlockSize * q + LengthAt(n) + k
    BY <1>2, <1>10
  <2>3. p[Len(m) + 1 + zeros + k] = length[k]
    BY <1>8
  <2>4. QED
    BY <2>2, <2>3
<1>13. Len(p) = BlockSize * q + LengthAt(n) + 8
  <2> DEFINE a == BlockSize * q
             b == LengthAt(n)
  <2>1. /\ a \in Nat /\ b \in Nat /\ n \in Nat /\ Len(m) = a + n /\ zeros = b - n - 1
        /\ Len(p) = Len(m) + 1 + zeros + 8
    BY <1>2, <1>8, <1>10
  <2> HIDE DEF a, b
  <2>2. Len(p) = a + b + 8
    BY <2>1
  <2>3. QED
    BY <2>2 DEF a, b
<1>14. QED
  BY <1>1, <1>8, <1>9, <1>10, <1>11, <1>12, <1>13 DEF length, Padded

---------------------------------------------------------------------------
(***************************************************************************)
(* The digest.                                                             *)
(***************************************************************************)
\* What is hashed are the blocks of m, when they are all of it.
LEMMA AllHashed ==
    ASSUME NEW hash \in Seq(Block), NEW m, Hashed(hash, m), Len(m) = BlockSize * Len(hash)
    PROVE  hash = BlocksOf(m)
<1>1. Len(hash) \in Nat /\ Len(m) \div BlockSize = Len(hash)
  <2>1. Len(hash) \in Nat
    OBVIOUS
  <2>2. \A k \in Nat : (64 * k) \div 64 = k
    OBVIOUS
  <2>3. QED
    BY <2>1, <2>2 DEF BlockSize
<1>2. hash = [b \in 1 .. Len(hash) |-> hash[b]]
  OBVIOUS
<1>3. ASSUME NEW b \in 1 .. Len(hash)
      PROVE  hash[b] = [i \in Offsets |-> m[BlockSize * (b - 1) + i + 1]]
  <2>1. hash[b] \in [Offsets -> Bytes]
    BY <1>1, ElementOfSeq DEF Block
  <2>2. hash[b] = [i \in Offsets |-> hash[b][i]]
    BY <2>1
  <2>3. \A i \in Offsets : hash[b][i] = m[BlockSize * (b - 1) + i + 1]
    BY DEF Hashed
  <2>4. QED
    BY <2>2, <2>3, Zenon
<1>4. hash = [b \in 1 .. Len(hash) |-> [i \in Offsets |-> m[BlockSize * (b - 1) + i + 1]]]
  BY <1>2, <1>3, Zenon
<1>5. QED
  BY <1>1, <1>4, Zenon DEF BlocksOf

LEMMA OtherHash ==
    ASSUME NEW numBytes, NEW bufferSize, NEW buffer, NEW hash, NEW other
    PROVE  [Object(numBytes, bufferSize, buffer, hash) EXCEPT !.m_hash = other]
             = Object(numBytes, bufferSize, buffer, other)
BY DEF Object

\* A byte of the last blocks, as processBuffer has it.
PaddedByte(n, at, old, msgBits, i) ==
    CASE i < n -> old[i]
      [] i = n -> 128
      [] n < i /\ i < at -> 0
      [] at <= i /\ i < at + 8 -> msgBits[i - at + 1]
      [] OTHER -> Unset

LEMMA PaddedByteIs ==
    ASSUME NEW n \in Nat, NEW at \in Nat, n < at, NEW old, NEW msgBits, NEW i \in Nat
    PROVE  /\ i < n => PaddedByte(n, at, old, msgBits, i) = old[i]
           /\ i = n => PaddedByte(n, at, old, msgBits, i) = 128
           /\ n < i /\ i < at => PaddedByte(n, at, old, msgBits, i) = 0
           /\ at <= i /\ i < at + 8 => PaddedByte(n, at, old, msgBits, i) = msgBits[i - at + 1]
BY DEF PaddedByte

\* The digest is that of the padded text, and the object still holds the text.
LEMMA DigestHolds ==
    ASSUME NEW sha, NEW m \in Seq(Bytes), Holding(sha, m)
    PROVE  /\ getHash(sha).hash = BlocksOf(PaddedMessage(m))
           /\ Holding(getHash(sha).sha, m)
<1> DEFINE n == sha.m_bufferSize
           at == paddedLength(n)
           p == PaddedMessage(m)
           msgBits == LengthBytes(8 * (sha.m_numBytes + n))
           Byte(i) == PaddedByte(n, at, sha.m_buffer, msgBits, i)
           buffer == [i \in Offsets |-> Byte(i)]
           extra == [i \in Offsets |-> Byte(BlockSize + i)]
           blocks == IF at > BlockSize THEN <<buffer, extra>> ELSE <<buffer>>
<1>1. processBuffer(sha) = [sha EXCEPT !.m_buffer = buffer, !.m_hash = @ \o blocks]
  BY Zenon DEF processBuffer, PaddedByte
<1>2. PICK old \in Block, hash \in Seq(Block) :
         /\ sha = Object(BlockSize * Len(hash), n, old, hash)
         /\ Len(m) = BlockSize * Len(hash) + n
         /\ Hashed(hash, m) /\ Buffered(old, n, m, BlockSize * Len(hash))
  <2>1. PICK k \in 0 .. BlockSize, old \in Block, hash \in Seq(Block) :
           /\ sha = Object(BlockSize * Len(hash), k, old, hash)
           /\ Len(m) = BlockSize * Len(hash) + k
           /\ Hashed(hash, m) /\ Buffered(old, k, m, BlockSize * Len(hash))
    BY Zenon DEF Holding, Gathered
  <2>2. n = k
    BY <2>1 DEF Object
  <2>3. QED
    BY <2>1, <2>2, Zenon
<1> DEFINE q == Len(hash)
<1>3. /\ sha.m_bufferSize = n /\ sha.m_buffer = old /\ sha.m_hash = hash
      /\ sha.m_numBytes = BlockSize * q
  BY <1>2 DEF Object
<1>4. n \in 0 .. BlockSize - 1 /\ n \in Nat /\ n <= 63 /\ q \in Nat
  <2>1. n < BlockSize /\ q \in Nat /\ n \in Nat
    BY BufferSizeIs DEF Holding
  <2> HIDE DEF n
  <2>2. QED
    BY <2>1 DEF BlockSize
<1> HIDE DEF n
<1>5. at \in Nat /\ n < at /\ (at = 56 \/ at = 120) /\ BlockSize * q \in Nat
  <2>1. at = LengthAt(n)
    BY <1>4, PaddedLengthIs
  <2> HIDE DEF at
  <2>2. QED
    BY <1>4, <2>1 DEF LengthAt, BlockSize
<1>6. /\ p \in Seq(Bytes) /\ Len(p) = BlockSize * q + at + 8
      /\ \E d \in Seq(Bytes) : p = m \o d
      /\ p[BlockSize * q + n + 1] = 128
      /\ \A k \in n + 1 .. at - 1 : p[BlockSize * q + k + 1] = 0
      /\ \A k \in 1 .. 8 : p[BlockSize * q + at + k] = msgBits[k]
  <2>1. sha.m_numBytes + n = Len(m)
    BY <1>2, <1>3
  <2>2. Len(m) = BlockSize * q + n
    BY <1>2
  <2>3. at = LengthAt(n)
    BY <1>4, PaddedLengthIs
  <2>4. msgBits = LengthBytes(8 * Len(m))
    BY <2>1, Zenon
  <2> HIDE DEF q, at, msgBits
  <2>5. Padded(m, q, n)
    BY <1>4, <2>2, PaddedAt
  <2>6. /\ p \in Seq(Bytes) /\ Len(p) = BlockSize * q + LengthAt(n) + 8
        /\ \E d \in Seq(Bytes) : p = m \o d
        /\ p[BlockSize * q + n + 1] = 128
        /\ \A k \in n + 1 .. LengthAt(n) - 1 : p[BlockSize * q + k + 1] = 0
        /\ \A k \in 1 .. 8 : p[BlockSize * q + LengthAt(n) + k] = LengthBytes(8 * Len(m))[k]
    BY <2>5, Zenon DEF Padded
  <2> HIDE DEF p
  <2>7. QED
    BY <2>3, <2>4, <2>6, Zenon
<1>7. PICK d \in Seq(Bytes) : p = m \o d
  BY <1>6
<1>8. Hashed(hash, p)
  <2>1. BlockSize * Len(hash) <= Len(m)
    BY <1>2, <1>4, <1>5
  <2>2. QED
    BY <1>2, <1>7, <2>1, HashedStays
<1> HIDE DEF at, p, msgBits
<1>9. ASSUME NEW k \in 0 .. at + 7
      PROVE  Byte(k) = p[BlockSize * q + k + 1]
  <2>1. k \in Nat
    BY <1>5
  <2>2. CASE k < n
    <3>1. k \in 0 .. n - 1
      BY <1>4, <2>1, <2>2
    <3>2. old[k] = m[BlockSize * q + k + 1]
      BY <1>2, <3>1 DEF Buffered
    <3>3. BlockSize * q + k + 1 \in 1 .. Len(m)
      BY <1>2, <1>4, <1>5, <2>1, <2>2
    <3>4. p[BlockSize * q + k + 1] = m[BlockSize * q + k + 1]
      BY <1>7, <3>3, ConcatAt
    <3>5. Byte(k) = old[k]
      BY <1>3, <1>4, <1>5, <2>1, <2>2, PaddedByteIs
    <3> HIDE DEF Byte
    <3>6. QED
      BY <3>2, <3>4, <3>5
  <2>3. CASE k = n
    <3>1. ~(k < n)
      BY <1>4, <2>3
    <3>2. Byte(k) = 128
      BY <1>4, <1>5, <2>1, <2>3, PaddedByteIs
    <3> HIDE DEF Byte
    <3>3. p[BlockSize * q + n + 1] = 128
      BY <1>6
    <3>4. QED
      BY <2>3, <3>2, <3>3
  <2>4. CASE n < k /\ k < at
    <3>1. ~(k < n) /\ k # n /\ k \in n + 1 .. at - 1
      BY <1>4, <1>5, <2>1, <2>4
    <3>2. Byte(k) = 0
      BY <1>4, <1>5, <2>1, <2>4, PaddedByteIs
    <3> HIDE DEF Byte
    <3>3. p[BlockSize * q + k + 1] = 0
      BY <1>6, <3>1
    <3>4. QED
      BY <3>2, <3>3
  <2>5. CASE at <= k
    <3>1. ~(k < n) /\ k # n /\ ~(k < at) /\ k < at + 8 /\ k - at + 1 \in 1 .. 8
      BY <1>4, <1>5, <2>1, <2>5
    <3>2. Byte(k) = msgBits[k - at + 1]
      BY <1>4, <1>5, <2>1, <2>5, <3>1, PaddedByteIs
    <3>3. BlockSize * q + at + (k - at + 1) = BlockSize * q + k + 1
      BY <1>5, <2>1
    <3>4. p[BlockSize * q + at + (k - at + 1)] = msgBits[k - at + 1]
      BY <1>6, <3>1
    <3>5. QED
      BY <3>2, <3>3, <3>4
  <2>6. QED
    BY <1>4, <1>5, <2>1, <2>2, <2>3, <2>4, <2>5
<1> HIDE DEF Byte
<1>10. ASSUME NEW k \in 0 .. at + 7
       PROVE  Byte(k) \in Bytes
  <2> DEFINE first == BlockSize * q
  <2>1. p \in Seq(Bytes) /\ Len(p) = first + at + 8 /\ first \in Nat /\ at \in Nat /\ k \in Nat
    BY <1>5, <1>6
  <2> HIDE DEF first
  <2>2. first + k + 1 \in 1 .. Len(p)
    BY <2>1
  <2>3. p[first + k + 1] \in Bytes
    BY <2>1, <2>2, ElementOfSeq
  <2>4. QED
    BY <1>9, <2>3 DEF first
<1>11. \A i \in Offsets : i \in 0 .. at + 7 /\ i \in 0 .. BlockSize - 1
  BY <1>5 DEF Offsets, BlockSize
<1>12. buffer \in Block /\ \A i \in Offsets : buffer[i] = Byte(i)
  BY <1>10, <1>11 DEF Block
<1>13. Buffered(buffer, BlockSize, p, BlockSize * q)
  <2>1. \A i \in 0 .. BlockSize - 1 : i \in Offsets
    BY DEF Offsets
  <2> HIDE DEF buffer
  <2>2. QED
    BY <1>9, <1>11, <1>12, <2>1 DEF Buffered
<1>14. Buffered(buffer, n, m, BlockSize * q)
  <2>1. ASSUME NEW i \in 0 .. n - 1
        PROVE  i \in Offsets /\ i < n /\ i \in Nat
    BY <1>4 DEF Offsets, BlockSize
  <2>2. \A i \in 0 .. n - 1 : buffer[i] = old[i]
    <3>1. \A i \in 0 .. n - 1 : Byte(i) = old[i]
      BY <1>3, <1>4, <1>5, <2>1, PaddedByteIs DEF Byte
    <3> HIDE DEF buffer
    <3>2. QED
      BY <1>12, <2>1, <3>1
  <2> HIDE DEF buffer
  <2>3. QED
    BY <1>2, <2>2 DEF Buffered
<1> HIDE DEF buffer
<1>15. /\ hash \o <<buffer>> \in Seq(Block) /\ Len(hash \o <<buffer>>) = q + 1
       /\ Hashed(hash \o <<buffer>>, p)
  <2>1. Append(hash, buffer) = hash \o <<buffer>>
    BY <1>12, AppendIsConcat
  <2>2. QED
    BY <1>8, <1>12, <1>13, <2>1, OneMoreHashed
<1>16. /\ hash \o blocks \in Seq(Block) /\ Hashed(hash \o blocks, p)
       /\ Len(p) = BlockSize * Len(hash \o blocks)
  <2>1. CASE at = 56
    <3>1. blocks = <<buffer>>
      BY <2>1 DEF BlockSize
    <3>2. Len(p) = BlockSize * (q + 1)
      BY <1>4, <1>6, <2>1 DEF BlockSize
    <3> HIDE DEF blocks
    <3>3. QED
      BY <1>15, <3>1, <3>2
  <2>2. CASE at = 120
    <3> DEFINE h == hash \o <<buffer>>
    <3>1. blocks = <<buffer, extra>>
      BY <2>2 DEF BlockSize
    <3>2. \A i \in Offsets : BlockSize + i \in 0 .. at + 7
      BY <2>2 DEF Offsets, BlockSize
    <3>3. extra \in Block /\ \A i \in Offsets : extra[i] = Byte(BlockSize + i)
      BY <1>10, <3>2 DEF Block
    <3> HIDE DEF extra, blocks, h
    <3>4. Len(h) = q + 1 /\ h \in Seq(Block) /\ Hashed(h, p)
      BY <1>15 DEF h
    <3>5. Buffered(extra, BlockSize, p, BlockSize * Len(h))
      <4>1. ASSUME NEW i \in 0 .. BlockSize - 1
            PROVE  /\ i \in Offsets
                   /\ BlockSize * Len(h) + i + 1 = BlockSize * q + (BlockSize + i) + 1
        BY <1>4, <3>4 DEF Offsets, BlockSize
      <4>2. QED
        BY <1>9, <3>2, <3>3, <4>1 DEF Buffered
    <3>6. /\ Append(h, extra) \in Seq(Block) /\ Len(Append(h, extra)) = q + 2
          /\ Hashed(Append(h, extra), p)
      <4>1. Len(h) + 1 = q + 2
        BY <1>4, <3>4
      <4>2. QED
        BY <3>3, <3>4, <3>5, <4>1, OneMoreHashed
    <3>7. Append(h, extra) = hash \o blocks
      <4>1. Append(h, extra) = h \o <<extra>>
        BY <3>3, <3>4, AppendIsConcat
      <4>2. <<buffer>> \in Seq(Block) /\ <<extra>> \in Seq(Block)
        BY <1>12, <3>3
      <4>3. h \o <<extra>> = hash \o (<<buffer>> \o <<extra>>)
        BY <4>2, ConcatAssociative DEF h
      <4>4. <<buffer>> \o <<extra>> = <<buffer, extra>>
        <5>1. /\ <<buffer>> \o <<extra>> \in Seq(Block) /\ <<buffer, extra>> \in Seq(Block)
              /\ Len(<<buffer>> \o <<extra>>) = 2 /\ Len(<<buffer, extra>>) = 2
          BY <1>12, <3>3, <4>2
        <5>2. \A i \in 1 .. 2 : (<<buffer>> \o <<extra>>)[i] = <<buffer, extra>>[i]
          BY <4>2
        <5>3. QED
          BY <5>1, <5>2, SeqEqual
      <4>5. QED
        BY <3>1, <4>1, <4>3, <4>4
    <3>8. Len(p) = BlockSize * (q + 2)
      BY <1>4, <1>6, <2>2 DEF BlockSize
    <3>9. QED
      BY <3>6, <3>7, <3>8
  <2>3. QED
    BY <1>5, <2>1, <2>2
<1> HIDE DEF blocks, q
<1>17. hash \o blocks = BlocksOf(p)
  BY <1>16, AllHashed
<1>18. processBuffer(sha) = Object(sha.m_numBytes, n, buffer, hash \o blocks)
  <2>1. processBuffer(sha) = [sha EXCEPT !.m_buffer = buffer, !.m_hash = hash \o blocks]
    BY <1>3, <1>1
  <2>2. QED
    BY <1>2, <1>3, <2>1 DEF Object
<1>19. getHash(sha).hash = hash \o blocks
  BY <1>18 DEF getHash, Object
<1>20. getHash(sha).sha = Object(BlockSize * Len(hash), n, buffer, hash)
  <2> DEFINE numBytes == sha.m_numBytes
             hashed == hash \o blocks
  <2>1. getHash(sha).sha = [processBuffer(sha) EXCEPT !.m_hash = hash]
    BY <1>3 DEF getHash
  <2>2. processBuffer(sha) = Object(numBytes, n, buffer, hashed)
    BY <1>18
  <2> HIDE DEF numBytes, hashed
  <2>3. getHash(sha).sha = [Object(numBytes, n, buffer, hashed) EXCEPT !.m_hash = hash]
    BY <2>1, <2>2
  <2>4. getHash(sha).sha = Object(sha.m_numBytes, n, buffer, hash)
    BY <2>3, OtherHash DEF numBytes
  <2>5. QED
    BY <1>3, <2>4 DEF q
<1>21. Gathered(getHash(sha).sha, m)
  <2>1. n \in 0 .. BlockSize
    BY <1>4 DEF BlockSize
  <2>2. QED
    BY <1>2, <1>12, <1>14, <1>20, <2>1, Zenon DEF Gathered, q
<1>22. getHash(sha).sha.m_bufferSize < BlockSize
  BY <1>4, <1>20 DEF Object, BlockSize
<1>23. QED
  BY <1>17, <1>19, <1>21, <1>22 DEF Holding, p

---------------------------------------------------------------------------
\* Whatever a text is and wherever it is cut, when a digest is taken in between and at
\* the end, what is hashed at the end are the blocks of the padded whole (add,
\* processBuffer and getHash).
THEOREM PiecesAsWhole ==
    ASSUME NEW text \in Seq(Int), NEW more \in Seq(Int)
    PROVE  LET first == add(reset, text)
               second == add(getHash(first).sha, more)
           IN getHash(second).hash = BlocksOf(PaddedMessage(text \o more))
<1> DEFINE first == add(reset, text)
           second == add(getHash(first).sha, more)
<1>1. text \in Seq(Bytes) /\ more \in Seq(Bytes) /\ <<>> \in Seq(Bytes) /\ <<>> \o text = text
  <2>1. Int \subseteq Bytes
    BY Zenon DEF Bytes
  <2>2. text \in Seq(Bytes) /\ more \in Seq(Bytes) /\ <<>> \in Seq(Bytes)
    BY <2>1, SeqMonotonic, EmptySeq
  <2>3. QED
    BY <2>2, ConcatEmptySeq
<1>2. Holding(first, text)
  <2>1. Holding(first, <<>> \o text)
    BY <1>1, ResetHolds, AddHolds
  <2>2. QED
    BY <1>1, <2>1
<1>3. Holding(getHash(first).sha, text)
  <2> HIDE DEF first
  <2>1. QED
    BY <1>1, <1>2, DigestHolds
<1>4. Holding(second, text \o more)
  <2> HIDE DEF first
  <2>1. QED
    BY <1>1, <1>3, AddHolds
<1>5. text \o more \in Seq(Bytes)
  BY <1>1, ConcatProperties
<1> HIDE DEF second
<1>6. getHash(second).hash = BlocksOf(PaddedMessage(text \o more))
  BY <1>4, <1>5, DigestHolds
<1>7. QED
  BY <1>6 DEF second

\* So the texts of the run are hashed as they should be, and those of any length.
THEOREM AsWhole == StreamedAsWhole
<1> SUFFICES ASSUME NEW n \in 0 .. MaxLength, NEW cut \in 0 .. n
             PROVE  LET m == [i \in 1 .. n |-> i]
                        first == add(reset, SubSeq(m, 1, cut))
                        second == add(getHash(first).sha, SubSeq(m, cut + 1, n))
                    IN getHash(second).hash = BlocksOf(PaddedMessage(m))
  BY Zenon DEF StreamedAsWhole
<1> DEFINE m == [i \in 1 .. n |-> i]
<1>1. m \in Seq(Int) /\ Len(m) = n /\ n \in Nat
  <2>1. n \in Nat /\ m \in [1 .. n -> Int]
    BY LengthAssumption
  <2> HIDE DEF m
  <2>2. QED
    BY <2>1, FunctionIsSeq
<1> HIDE DEF m
<1>2. SubSeq(m, 1, cut) \in Seq(Int) /\ SubSeq(m, cut + 1, n) \in Seq(Int)
  <2>1. \A i \in 1 .. n : m[i] \in Int
    BY <1>1, ElementOfSeq
  <2>2. /\ \A i \in 1 .. cut : m[i] \in Int
        /\ \A i \in cut + 1 .. n : m[i] \in Int
        /\ cut \in Int /\ cut + 1 \in Int /\ n \in Int /\ 1 \in Int
    BY <1>1, <2>1
  <2>3. QED
    BY <2>2, SubSeqProperties
<1>3. SubSeq(m, 1, cut) \o SubSeq(m, cut + 1, n) = m
  <2>1. /\ 1 \in 1 .. Len(m) + 1 /\ cut \in 1 - 1 .. Len(m) /\ Len(m) \in cut .. Len(m)
    BY <1>1
  <2>2. SubSeq(m, 1, cut) \o SubSeq(m, cut + 1, Len(m)) = SubSeq(m, 1, Len(m))
    BY <1>1, <2>1, ConcatAdjacentSubSeq
  <2>3. SubSeq(m, 1, Len(m)) = m
    BY <1>1, SubSeqFull
  <2>4. QED
    BY <1>1, <2>2, <2>3
<1>4. QED
  BY <1>2, <1>3, PiecesAsWhole DEF m
=============================================================================
