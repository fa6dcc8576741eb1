-------------------------------- MODULE Sha1 -------------------------------
(***************************************************************************)
(* The class SHA1, which makes the digests in the names: how bytes gather  *)
(* in blocks, how the last block is padded, and how a block is hashed.     *)
(*                                                                         *)
(* A word of 32 bits is the set of the places of its ones, as TLC's        *)
(* integers are too narrow: & is \cap, | is \cup, ^ is Xor.  In an object,  *)
(* m_hash is the sequence of the blocks it has hashed, and HashOf(m_hash)  *)
(* the value of the five words.                                            *)
(***************************************************************************)
EXTENDS Integers, Sequences, SequencesExt

CONSTANT MaxLength  \* the longest message that is checked with every cut

ASSUME LengthAssumption == MaxLength \in Nat

BlockSize == 64
Offsets == 0 .. BlockSize - 1

---------------------------------------------------------------------------
(***************************************************************************)
(* Words.                                                                  *)
(***************************************************************************)
BitsOf(byte) == {i \in 0 .. 7 : (byte \div 2 ^ i) % 2 = 1}

\* Four bytes as the host reads them: the first one is the lowest.
LittleEndian(bytes) == UNION {{8 * (k - 1) + i : i \in BitsOf(bytes[k])} : k \in 1 .. 4}

swap(x) == {24 - 8 * (i \div 8) + (i % 8) : i \in x}

Word(b1, b2, b3, b4) == swap(LittleEndian(<<b1, b2, b3, b4>>))

\* Its bytes, from the highest to the lowest.
BytesOf(x) ==
    [k \in 1 .. 4 |-> FoldSet(+, 0, {2 ^ (i % 8) : i \in {j \in x : j \div 8 = 4 - k}})]

Xor(x, y) == (x \cup y) \ (x \cap y)

\* The sum, modulo 2 ^ 32: a carry comes up to a place from a lower one where both
\* have a one, over places where either has.
Plus(x, y) ==
    LET Carry(i) == \E j \in x \cap y : j < i /\ (j + 1) .. (i - 1) \subseteq x \cup y
    IN {i \in 0 .. 31 : (i \in x) # ((i \in y) # Carry(i))}

rotate(x, n) == {(i + n) % 32 : i \in x}

f1(b, c, d) == Xor(d, b \cap Xor(c, d))
f2(b, c, d) == Xor(Xor(b, c), d)
f3(b, c, d) == (b \cap c) \cup (b \cap d) \cup (c \cap d)

---------------------------------------------------------------------------
(***************************************************************************)
(* processBlock.                                                           *)
(***************************************************************************)
Mix(t, b, c, d) ==
    CASE t < 20 -> f1(b, c, d)
      [] t \in 40 .. 59 -> f3(b, c, d)
      [] OTHER -> f2(b, c, d)

RoundConstants == <<Word(\h5a, \h82, \h79, \h99), Word(\h6e, \hd9, \heb, \ha1),
                    Word(\h8f, \h1b, \hbc, \hdc), Word(\hca, \h62, \hc1, \hd6)>>

InitialHash == <<Word(\h67, \h45, \h23, \h01), Word(\hef, \hcd, \hab, \h89),
                 Word(\h98, \hba, \hdc, \hfe), Word(\h10, \h32, \h54, \h76),
                 Word(\hc3, \hd2, \he1, \hf0)>>

Words == SUBSET (0 .. 31)

\* words[0] to words[79] are at 1 to 80.
Extended[w \in Seq(Words)] ==
    LET Back(n) == w[Len(w) + 1 - n] IN
    IF Len(w) = 80 THEN w
    ELSE Extended[Append(w, rotate(f2(Back(3), Back(8), Xor(Back(14), Back(16))), 1))]

\* The five variables stay, and each line gives every one of them the part that
\* the one before it had: k is the place, from a to e, and t the line.
Line(h, t, word) ==
    LET At(k) == 1 + ((k - t) % 5)
        mixed == Mix(t, h[At(1)], h[At(2)], h[At(3)])
        sum == Plus(Plus(rotate(h[At(0)], 5), mixed), Plus(word, RoundConstants[t \div 20 + 1]))
    IN [h EXCEPT ![At(4)] = Plus(@, sum), ![At(1)] = rotate(@, 30)]

processBlock(hash, block) ==
    LET input == [i \in 1 .. 16 |-> LittleEndian([k \in 1 .. 4 |-> block[4 * (i - 1) + k - 1]])]
        words == Extended[[i \in 1 .. 16 |-> swap(input[i])]]
        lines[t \in 0 .. 80, h \in [1 .. 5 -> Words]] ==
            IF t = 80 THEN h ELSE lines[t + 1, Line(h, t, words[t + 1])]
        rounds == lines[0, hash]
    IN [i \in 1 .. 5 |-> Plus(hash[i], rounds[i])]

HashOf(blocks) == FoldLeft(processBlock, InitialHash, blocks)

---------------------------------------------------------------------------
(***************************************************************************)
(* An object: what it has hashed, and the bytes it has not.                *)
(***************************************************************************)
Unset == -1  \* a byte that was never written

reset == [m_numBytes |-> 0, m_bufferSize |-> 0,
          m_buffer |-> [i \in Offsets |-> Unset], m_hash |-> <<>>]

\* The bytes go into m_buffer after those that are there.
Keep(sha, bytes) ==
    LET n == sha.m_bufferSize IN
    [sha EXCEPT !.m_bufferSize = n + Len(bytes),
                !.m_buffer = [i \in Offsets |->
                    IF i \in n .. n + Len(bytes) - 1 THEN bytes[i - n + 1] ELSE @[i]]]

FullBuffer(sha) ==
    IF sha.m_bufferSize < BlockSize THEN sha
    ELSE [sha EXCEPT !.m_hash = Append(@, sha.m_buffer),
                     !.m_numBytes = @ + BlockSize, !.m_bufferSize = 0]

\* Blocks of data are hashed where they are, unless a part of one is in m_buffer.
add(sha, data) ==
    LET fill == IF sha.m_bufferSize = 0 THEN 0 ELSE Min({BlockSize - sha.m_bufferSize, Len(data)})
        emptied == FullBuffer(Keep(sha, SubSeq(data, 1, fill)))
        blocks == (Len(data) - fill) \div BlockSize
        Block(b) == [i \in Offsets |-> data[fill + BlockSize * (b - 1) + i + 1]]
        hashed == [emptied EXCEPT !.m_numBytes = @ + BlockSize * blocks,
                     !.m_hash = @ \o [b \in 1 .. blocks |-> Block(b)]]
    IN Keep(hashed, SubSeq(data, fill + BlockSize * blocks + 1, Len(data)))

\* Mutant: without the "plus one bit set to 1".
NoOneBit(bufferSize) ==
    LET lower11Bits == 8 * bufferSize
    IN (8 * bufferSize + (IF lower11Bits <= 448 THEN 448 ELSE 960) - lower11Bits) \div 8

paddedLength(bufferSize) ==
    LET bits == 8 * bufferSize + 1
        lower11Bits == bits % 512
    IN (bits + (IF lower11Bits <= 448 THEN 448 ELSE 960) - lower11Bits) \div 8

\* Eight bytes for the length in bits, the first four of which stay 0 here.
LengthBytes(n) == <<0, 0, 0, 0>> \o [i \in 1 .. 4 |-> (n \div 256 ^ (4 - i)) % 256]

\* m_buffer, and extra after it.
processBuffer(sha) ==
    LET n == sha.m_bufferSize
        padded == paddedLength(n)
        msgBits == LengthBytes(8 * (sha.m_numBytes + n))
        Byte(i) == CASE i < n -> sha.m_buffer[i]
                     [] i = n -> 128
                     [] n < i /\ i < padded -> 0
                     [] padded <= i /\ i < padded + 8 -> msgBits[i - padded + 1]
                     [] OTHER -> Unset
        buffer == [i \in Offsets |-> Byte(i)]
        extra == [i \in Offsets |-> Byte(BlockSize + i)]
    IN [sha EXCEPT !.m_buffer = buffer,
                   !.m_hash = @ \o (IF padded > BlockSize THEN <<buffer, extra>> ELSE <<buffer>>)]

\* The hash, and the object with its old hash restored.
getHash(sha) ==
    LET padded == processBuffer(sha)
    IN [hash |-> padded.m_hash, sha |-> [padded EXCEPT !.m_hash = sha.m_hash]]

\* operator(): the digest of a text, as the bytes getHash writes in hexadecimal.
Hash(text) ==
    LET hash == HashOf(getHash(add(reset, text)).hash)
    IN FlattenSeq([i \in 1 .. 5 |-> BytesOf(hash[i])])

---------------------------------------------------------------------------
(***************************************************************************)
(* Properties.                                                             *)
(***************************************************************************)
\* FIPS 180-4: a 1, the least number of zeros, and the length fill whole blocks.
PaddedMessage(m) ==
    LET zeros == CHOOSE k \in 0 .. BlockSize - 1 : (Len(m) + 1 + k + 8) % BlockSize = 0
    IN m \o <<128>> \o [i \in 1 .. zeros |-> 0] \o LengthBytes(8 * Len(m))

BlocksOf(s) ==
    [b \in 1 .. Len(s) \div BlockSize |-> [i \in Offsets |-> s[BlockSize * (b - 1) + i + 1]]]

\* A digest does not depend on the pieces a text is added in, nor on a digest that
\* was taken in between, at every boundary of the blocks and of the padding: what
\* is hashed are the blocks of the padded message, and no byte that was never set.
StreamedAsWhole ==
    \A n \in 0 .. MaxLength : \A cut \in 0 .. n :
       LET m == [i \in 1 .. n |-> i]
           first == add(reset, SubSeq(m, 1, cut))
           second == add(getHash(first).sha, SubSeq(m, cut + 1, n))
       IN getHash(second).hash = BlocksOf(PaddedMessage(m))

\* The digests of the examples of FIPS 180: of no text, of "abc", and of a text
\* whose length needs a second block.  The lines of processBlock hash as SHA-1.
KnownDigests ==
    LET Letters(s) == [i \in DOMAIN s |-> 96 + s[i]] IN
    /\ Hash(<<>>) = <<\hda, \h39, \ha3, \hee, \h5e, \h6b, \h4b, \h0d, \h32, \h55, \hbf, \hef,
                      \h95, \h60, \h18, \h90, \haf, \hd8, \h07, \h09>>
    /\ Hash(Letters(<<1, 2, 3>>)) =
         <<\ha9, \h99, \h3e, \h36, \h47, \h06, \h81, \h6a, \hba, \h3e, \h25, \h71, \h78, \h50,
           \hc2, \h6c, \h9c, \hd0, \hd8, \h9d>>
    /\ Hash(Letters([i \in 1 .. 56 |-> (i - 1) \div 4 + ((i - 1) % 4) + 1])) =
         <<\h84, \h98, \h3e, \h44, \h1c, \h3b, \hd2, \h6e, \hba, \hae, \h4a, \ha1, \hf9, \h51,
           \h29, \he5, \he5, \h46, \h70, \hf1>>

\* The class is SHA-1, however its texts are cut.
HashesAsSha1 == StreamedAsWhole /\ KnownDigests
===========================================================================
