------------------------ MODULE HttpMessages_proofs -------------------------
(***************************************************************************)
(* What the texts of requests and responses keep on their way, for any     *)
(* clients and servers: any URL, any header lines and any number of them.  *)
(* Lines and URLs are searched and folded, and no induction is needed for  *)
(* either: a set of natural numbers has a least one, and the fold of the   *)
(* lines is shown to be what it should by the least place where it is not. *)
(***************************************************************************)
EXTENDS HttpMessages, FiniteSets, SequenceTheorems, FiniteSetTheorems,
        WellFoundedInduction, TLAPS

---------------------------------------------------------------------------
(***************************************************************************)
(* The least and the greatest of some numbers, and searches in sequences.  *)
(***************************************************************************)
\* A set of natural numbers has a least one, and that is Min of it.
LEMMA MinOf ==
    ASSUME NEW S \in SUBSET Nat, S # {}
    PROVE  Min(S) \in S /\ \A y \in S : Min(S) <= y
<1>1. \E x \in S : \A y \in S : ~(<<y, x>> \in OpToRel(<, Nat))
  BY NatLessThanWellFounded, WFMin
<1>2. PICK x \in S : \A y \in S : ~(<<y, x>> \in OpToRel(<, Nat))
  BY <1>1
<1>3. \A y \in Nat : y < x => <<y, x>> \in OpToRel(<, Nat)
  BY <1>2, Zenon DEF OpToRel
<1>4. \A y \in S : ~(y < x)
  BY <1>2, <1>3, Zenon
<1>5. \A y \in S : x <= y
  BY <1>4
<1>6. QED
  BY <1>5 DEF Min

\* A set of numbers up to n has a greatest one, and that is Max of it.
LEMMA MaxOf ==
    ASSUME NEW n \in Nat, NEW S \in SUBSET (0 .. n), S # {}
    PROVE  Max(S) \in S /\ \A y \in S : y <= Max(S)
<1> DEFINE bounds == {b \in Nat : \A y \in S : y <= b}
<1>0. n \in bounds /\ bounds \in SUBSET Nat
  OBVIOUS
<1>1. Min(bounds) \in bounds /\ \A b \in bounds : Min(bounds) <= b
  BY <1>0, MinOf
<1>2. PICK m : m \in bounds /\ \A b \in bounds : m <= b
  BY <1>1
<1>3. m \in S
  <2>1. SUFFICES ASSUME m \notin S PROVE FALSE
    OBVIOUS
  <2>2. PICK y \in S : TRUE
    OBVIOUS
  <2>3. m > 0
    BY <1>2, <2>1, <2>2
  <2>4. m - 1 \in bounds
    BY <1>2, <2>1, <2>3
  <2>5. QED
    BY <1>2, <2>4
<1>4. \A y \in S : m >= y
  BY <1>2
<1>5. QED
  BY <1>3, <1>4 DEF Max

\* The first place of a token in a text.
LEMMA FirstOf ==
    ASSUME NEW s, NEW t, Len(s) \in Nat
    PROVE  /\ First(s, t) \in 0 .. Len(s)
           /\ First(s, t) > 0 => s[First(s, t)] = t /\ \A j \in 1 .. First(s, t) - 1 : s[j] # t
           /\ First(s, t) = 0 => \A j \in 1 .. Len(s) : s[j] # t
<1> DEFINE I == {i \in 1 .. Len(s) : s[i] = t}
<1>1. First(s, t) = IF I # {} THEN Min(I) ELSE 0
  BY DEF First, SelectInSeq
<1>2. I # {} => Min(I) \in I /\ \A y \in I : Min(I) <= y
  <2>1. I \in SUBSET Nat
    OBVIOUS
  <2>2. QED
    BY <2>1, MinOf
<1> HIDE DEF I
<1>0. \A i : i \in I <=> i \in 1 .. Len(s) /\ s[i] = t
  BY DEF I
<1>3. QED
  BY <1>0, <1>1, <1>2

\* What is after the blanks at the beginning of a text.
LEMMA LeftTrimOf ==
    ASSUME NEW v, Len(v) \in Nat
    PROVE  \E k \in 0 .. Len(v) :
              /\ \A j \in 1 .. k : ~IsText(v[j])
              /\ k < Len(v) => IsText(v[k + 1])
              /\ LeftTrim(v) = SubSeq(v, k + 1, Len(v))
<1> DEFINE I == {i \in 1 .. Len(v) : IsText(v[i])}
           k == IF I # {} THEN Min(I) ELSE 0
<1>1. LeftTrim(v) = IF k = 0 THEN <<>> ELSE SubSeq(v, k, Len(v))
  BY DEF LeftTrim, SelectInSeq
<1>2. I # {} => Min(I) \in I /\ \A y \in I : Min(I) <= y
  <2>1. I \in SUBSET Nat
    OBVIOUS
  <2>2. QED
    BY <2>1, MinOf
<1> HIDE DEF I
<1>0. \A i : i \in I <=> i \in 1 .. Len(v) /\ IsText(v[i])
  BY DEF I
<1>3. CASE I = {}
  <2>1. SubSeq(v, Len(v) + 1, Len(v)) = <<>>
    BY SubSeqEmpty
  <2>2. LeftTrim(v) = SubSeq(v, Len(v) + 1, Len(v))
    BY <1>1, <1>3, <2>1
  <2>3. \A j \in 1 .. Len(v) : ~IsText(v[j])
    BY <1>0, <1>3
  <2>4. QED
    BY <2>2, <2>3
<1>4. CASE I # {}
  <2>1. PICK m : m = Min(I) /\ m \in I /\ \A y \in I : m <= y
    BY <1>2, <1>4
  <2>0. m \in 1 .. Len(v) /\ IsText(v[m])
    BY <1>0, <2>1
  <2>2. LeftTrim(v) = SubSeq(v, m, Len(v))
    <3>1. k = m /\ m # 0
      BY <1>4, <2>0, <2>1
    <3>2. QED
      BY <1>1, <3>1, Zenon
  <2>3. \A j \in 1 .. m - 1 : ~IsText(v[j])
    BY <1>0, <2>0, <2>1
  <2>4. m - 1 \in 0 .. Len(v) /\ (m - 1) + 1 = m
    BY <2>0
  <2>5. QED
    BY <2>0, <2>2, <2>3, <2>4
<1>5. QED
  BY <1>3, <1>4

\* What is before the blanks at its end.
LEMMA RightTrimOf ==
    ASSUME NEW v, Len(v) \in Nat
    PROVE  \E k \in 0 .. Len(v) :
              /\ \A j \in k + 1 .. Len(v) : ~IsText(v[j])
              /\ k > 0 => IsText(v[k])
              /\ RightTrim(v) = SubSeq(v, 1, k)
<1> DEFINE I == {i \in 1 .. Len(v) : IsText(v[i])}
           k == IF I # {} THEN Max(I) ELSE 0
<1>1. RightTrim(v) = SubSeq(v, 1, k)
  BY DEF RightTrim, SelectLastInSeq
<1>2. I # {} => Max(I) \in I /\ \A y \in I : y <= Max(I)
  <2>1. I \in SUBSET (0 .. Len(v))
    OBVIOUS
  <2>2. QED
    BY <2>1, MaxOf
<1>7. \A i : i \in I <=> i \in 1 .. Len(v) /\ IsText(v[i])
  OBVIOUS
<1> HIDE DEF I
<1>3. k \in 0 .. Len(v)
  BY <1>2, <1>7
<1>4. \A j \in k + 1 .. Len(v) : ~IsText(v[j])
  BY <1>2, <1>7
<1>5. k > 0 => IsText(v[k])
  BY <1>2, <1>7
<1>6. QED
  BY <1>1, <1>3, <1>4, <1>5

---------------------------------------------------------------------------
(***************************************************************************)
(* Blanks at the beginning and at the end of a text.                       *)
(***************************************************************************)
\* The tokens of texts; the two that are named here are strings of course.
Token == STRING \cup {" ", ", sdch"}
Text == Seq(Token)
LeftTrimmed(v) == v = <<>> \/ IsText(v[1])

\* Whoever knows how many blanks there are knows what is left.
LEMMA LeftTrimIs ==
    ASSUME NEW v, Len(v) \in Nat, NEW k \in 0 .. Len(v),
           \A j \in 1 .. k : ~IsText(v[j]), k < Len(v) => IsText(v[k + 1])
    PROVE  LeftTrim(v) = SubSeq(v, k + 1, Len(v))
<1>1. PICK m \in 0 .. Len(v) :
         /\ \A j \in 1 .. m : ~IsText(v[j])
         /\ m < Len(v) => IsText(v[m + 1])
         /\ LeftTrim(v) = SubSeq(v, m + 1, Len(v))
  BY LeftTrimOf
<1>2. ~(m < k)
  <2>1. SUFFICES ASSUME m < k PROVE FALSE
    OBVIOUS
  <2>2. m + 1 \in 1 .. k /\ m < Len(v)
    BY <2>1
  <2>3. QED
    BY <1>1, <2>2
<1>3. ~(k < m)
  <2>1. SUFFICES ASSUME k < m PROVE FALSE
    OBVIOUS
  <2>2. k + 1 \in 1 .. m /\ k < Len(v)
    BY <2>1
  <2>3. QED
    BY <1>1, <2>2
<1>4. m = k
  BY <1>2, <1>3
<1>5. QED
  BY <1>1, <1>4

LEMMA RightTrimIs ==
    ASSUME NEW v, Len(v) \in Nat, NEW k \in 0 .. Len(v),
           \A j \in k + 1 .. Len(v) : ~IsText(v[j]), k > 0 => IsText(v[k])
    PROVE  RightTrim(v) = SubSeq(v, 1, k)
<1>1. PICK m \in 0 .. Len(v) :
         /\ \A j \in m + 1 .. Len(v) : ~IsText(v[j])
         /\ m > 0 => IsText(v[m])
         /\ RightTrim(v) = SubSeq(v, 1, m)
  BY RightTrimOf
<1>2. ~(m < k)
  <2>1. SUFFICES ASSUME m < k PROVE FALSE
    OBVIOUS
  <2>2. k \in m + 1 .. Len(v) /\ k > 0
    BY <2>1
  <2>3. QED
    BY <1>1, <2>2
<1>3. ~(k < m)
  <2>1. SUFFICES ASSUME k < m PROVE FALSE
    OBVIOUS
  <2>2. m \in k + 1 .. Len(v) /\ m > 0
    BY <2>1
  <2>3. QED
    BY <1>1, <2>2
<1>4. m = k
  BY <1>2, <1>3
<1>5. QED
  BY <1>1, <1>4

\* What LeftTrim leaves begins with no blank, and is a text.
LEMMA LeftTrimTrims ==
    ASSUME NEW v \in Text
    PROVE  LeftTrim(v) \in Text /\ LeftTrimmed(LeftTrim(v))
<1>1. PICK k \in 0 .. Len(v) :
         /\ k < Len(v) => IsText(v[k + 1])
         /\ LeftTrim(v) = SubSeq(v, k + 1, Len(v))
  BY LeftTrimOf DEF Text
<1>2. /\ SubSeq(v, k + 1, Len(v)) \in Text
      /\ Len(SubSeq(v, k + 1, Len(v))) = Len(v) - k
      /\ \A i \in 1 .. Len(v) - k : SubSeq(v, k + 1, Len(v))[i] = v[k + i]
  BY SubSeqProperties DEF Text
<1>3. CASE k = Len(v)
  BY <1>1, <1>3, SubSeqEmpty, <1>2 DEF LeftTrimmed
<1>4. CASE k < Len(v)
  BY <1>1, <1>2, <1>4 DEF LeftTrimmed
<1>5. QED
  BY <1>3, <1>4

\* It leaves a text that begins with no blank.
LEMMA LeftTrimStays ==
    ASSUME NEW v \in Text, LeftTrimmed(v)
    PROVE  LeftTrim(v) = v
<1>1. Len(v) \in Nat /\ (0 < Len(v) => IsText(v[0 + 1]))
  BY DEF Text, LeftTrimmed
<1>2. LeftTrim(v) = SubSeq(v, 0 + 1, Len(v))
  BY <1>1, LeftTrimIs
<1>3. QED
  BY <1>2, SubSeqFull DEF Text

\* A blank in front of it makes no difference.
Blanked(v) == <<" ">> \o v

LEMMA LeftTrimBlank ==
    ASSUME NEW v \in Text
    PROVE  /\ Blanked(v) \in Text /\ Blanked(v) # <<>>
           /\ LeftTrim(Blanked(v)) = LeftTrim(v)
<1> DEFINE b == " "
<1>0. b \in Token /\ ~IsText(b)
  BY Zenon DEF IsText, Token
<1> HIDE DEF b
<1> DEFINE w == <<b>> \o v
<1>1. /\ w \in Text /\ Len(w) = Len(v) + 1 /\ w[1] = b
      /\ \A i \in 1 .. Len(v) : w[i + 1] = v[i]
  <2>1. <<b>> \in Text /\ Len(<<b>>) = 1 /\ <<b>>[1] = b /\ Len(v) \in Nat
    BY <1>0 DEF Text
  <2>2. /\ w \in Text /\ Len(w) = 1 + Len(v)
        /\ \A i \in 1 .. 1 + Len(v) : w[i] = IF i <= 1 THEN <<b>>[i] ELSE v[i - 1]
    BY <2>1, ConcatProperties DEF Text
  <2>3. QED
    BY <2>1, <2>2
<1> HIDE DEF w
<1>2. PICK k \in 0 .. Len(v) :
         /\ \A j \in 1 .. k : ~IsText(v[j])
         /\ k < Len(v) => IsText(v[k + 1])
         /\ LeftTrim(v) = SubSeq(v, k + 1, Len(v))
  BY LeftTrimOf DEF Text
<1>3. \A j \in 1 .. k + 1 : ~IsText(w[j])
  <2>1. TAKE j \in 1 .. k + 1
  <2>2. CASE j = 1
    BY <1>0, <1>1, <2>2
  <2>3. CASE j # 1
    <3>1. j - 1 \in 1 .. k /\ j - 1 \in 1 .. Len(v) /\ (j - 1) + 1 = j
      BY <2>3
    <3>2. QED
      BY <1>1, <1>2, <3>1
  <2>4. QED
    BY <2>2, <2>3
<1>4. k + 1 < Len(w) => IsText(w[(k + 1) + 1])
  BY <1>1, <1>2
<1>5. k + 1 \in 0 .. Len(w) /\ Len(w) \in Nat
  BY <1>1 DEF Text
<1>6. LeftTrim(w) = SubSeq(w, (k + 1) + 1, Len(w))
  BY <1>3, <1>4, <1>5, LeftTrimIs
<1>7. SubSeq(w, (k + 1) + 1, Len(w)) = SubSeq(v, k + 1, Len(v))
  <2> DEFINE s == SubSeq(w, (k + 1) + 1, Len(w))
             t == SubSeq(v, k + 1, Len(v))
  <2>1. Len(v) \in Nat /\ Len(w) \in Int /\ (k + 1) + 1 \in Int /\ k + 1 \in Int
    BY <1>1 DEF Text
  <2>2. \A i \in (k + 1) + 1 .. Len(w) : w[i] \in Token
    BY <1>1, <2>1 DEF Text
  <2>3. \A i \in k + 1 .. Len(v) : v[i] \in Token
    BY <2>1 DEF Text
  <2>4. /\ s \in Seq(Token) /\ Len(s) = Len(v) - k
        /\ \A i \in 1 .. Len(v) - k : s[i] = w[(k + 1) + 1 + i - 1]
    BY <1>1, <2>1, <2>2, SubSeqProperties
  <2>5. /\ t \in Seq(Token) /\ Len(t) = Len(v) - k
        /\ \A i \in 1 .. Len(v) - k : t[i] = v[k + 1 + i - 1]
    BY <2>1, <2>3, SubSeqProperties
  <2> HIDE DEF s, t
  <2>6. \A i \in 1 .. Len(v) - k : s[i] = t[i]
    <3>1. TAKE i \in 1 .. Len(v) - k
    <3>2. k + i \in 1 .. Len(v) /\ (k + 1) + 1 + i - 1 = (k + i) + 1 /\ k + 1 + i - 1 = k + i
      BY <2>1
    <3>3. QED
      BY <1>1, <2>4, <2>5, <3>2
  <2>7. s = t
    BY <2>1, <2>4, <2>5, <2>6, SeqEqual
  <2>8. QED
    BY <2>7 DEF s, t
<1>8. w # <<>>
  BY <1>1, <1>5 DEF Text
<1>9. QED
  BY <1>1, <1>2, <1>6, <1>7, <1>8, Zenon DEF w, b, Blanked

\* Blanks may go from the end before they go from the beginning.
LEMMA TrimsCommute ==
    ASSUME NEW v \in Text
    PROVE  /\ RightTrim(v) \in Text
           /\ LeftTrim(RightTrim(v)) = RightTrim(LeftTrim(v))
           /\ RightTrim(RightTrim(v)) = RightTrim(v)
<1>0. Len(v) \in Nat
  BY DEF Text
<1>1. PICK a \in 0 .. Len(v) :
         /\ \A j \in 1 .. a : ~IsText(v[j])
         /\ a < Len(v) => IsText(v[a + 1])
         /\ LeftTrim(v) = SubSeq(v, a + 1, Len(v))
  BY <1>0, LeftTrimOf
<1>2. PICK b \in 0 .. Len(v) :
         /\ \A j \in b + 1 .. Len(v) : ~IsText(v[j])
         /\ b > 0 => IsText(v[b])
         /\ RightTrim(v) = SubSeq(v, 1, b)
  BY <1>0, RightTrimOf
<1> DEFINE l == SubSeq(v, a + 1, Len(v))
           r == SubSeq(v, 1, b)
<1>3. /\ r \in Text /\ Len(r) = b
      /\ \A i \in 1 .. b : r[i] = v[i]
  BY <1>0, SubSeqProperties DEF Text
<1>4. /\ l \in Text /\ Len(l) = Len(v) - a
      /\ \A i \in 1 .. Len(v) - a : l[i] = v[a + i]
  BY <1>0, SubSeqProperties DEF Text
<1>5. RightTrim(r) = r
  <2>1. b \in 0 .. Len(r) /\ Len(r) \in Nat
    BY <1>3
  <2>2. b > 0 => IsText(r[b])
    BY <1>2, <1>3
  <2>3. \A j \in b + 1 .. Len(r) : ~IsText(r[j])
    BY <1>3
  <2> HIDE DEF r
  <2>4. RightTrim(r) = SubSeq(r, 1, b)
    BY <2>1, <2>2, <2>3, RightTrimIs
  <2>5. QED
    BY <1>3, <2>4, SubSeqFull DEF Text
<1>6. CASE a < b
  <2> DEFINE c == SubSeq(v, a + 1, b)
  <2>1. LeftTrim(r) = c
    <3>1. a \in 0 .. Len(r) /\ Len(r) \in Nat
      BY <1>3, <1>6
    <3>2. \A j \in 1 .. a : ~IsText(r[j])
      BY <1>1, <1>3, <1>6
    <3>3. a < Len(r) => IsText(r[a + 1])
      BY <1>1, <1>3, <1>6
    <3>4. SubSeq(r, a + 1, Len(r)) = c
      BY <1>3, <1>6
    <3> HIDE DEF r, c
    <3>5. LeftTrim(r) = SubSeq(r, a + 1, Len(r))
      BY <3>1, <3>2, <3>3, LeftTrimIs
    <3>6. QED
      BY <3>4, <3>5
  <2>2. RightTrim(l) = c
    <3>1. b - a \in 0 .. Len(l) /\ Len(l) \in Nat
      BY <1>4, <1>6
    <3>2. \A j \in (b - a) + 1 .. Len(l) : ~IsText(l[j])
      <4>1. TAKE j \in (b - a) + 1 .. Len(l)
      <4>2. j \in 1 .. Len(v) - a /\ a + j \in b + 1 .. Len(v)
        BY <1>4, <1>6
      <4>3. QED
        BY <1>2, <1>4, <4>2
    <3>3. b - a > 0 => IsText(l[b - a])
      <4>1. b - a \in 1 .. Len(v) - a /\ a + (b - a) = b /\ b > 0
        BY <1>6
      <4>2. QED
        BY <1>2, <1>4, <4>1
    <3>4. SubSeq(l, 1, b - a) = c
      BY <1>4, <1>6
    <3> HIDE DEF l, c
    <3>5. RightTrim(l) = SubSeq(l, 1, b - a)
      BY <3>1, <3>2, <3>3, RightTrimIs
    <3>6. QED
      BY <3>4, <3>5
  <2>3. QED
    BY <1>1, <1>2, <1>3, <1>5, <2>1, <2>2
<1>7. CASE b <= a
  <2>1. b = 0
    <3>1. SUFFICES ASSUME b > 0 PROVE FALSE
      OBVIOUS
    <3>2. b \in 1 .. a
      BY <1>7, <3>1
    <3>3. QED
      BY <1>1, <1>2, <3>1, <3>2
  <2>2. a = Len(v)
    <3>1. SUFFICES ASSUME a < Len(v) PROVE FALSE
      OBVIOUS
    <3>2. a + 1 \in b + 1 .. Len(v)
      BY <1>7, <3>1
    <3>3. QED
      BY <1>1, <1>2, <3>1, <3>2
  <2>3. r = <<>> /\ l = <<>>
    BY <1>0, <2>1, <2>2, SubSeqEmpty
  <2>4. LeftTrim(<<>>) = <<>>
    <3>1. <<>> \in Text /\ LeftTrimmed(<<>>)
      BY DEF Text, LeftTrimmed
    <3>2. QED
      BY <3>1, LeftTrimStays
  <2>5. QED
    BY <1>1, <1>2, <1>3, <1>5, <2>3, <2>4, Zenon
<1>8. QED
  BY <1>6, <1>7

\* What is left of the rest of a text that begins with no blank still begins with none,
\* is empty only if all of it was, and has the same words.
LEMMA RightTrimKeeps ==
    ASSUME NEW v \in Text, LeftTrimmed(v)
    PROVE  /\ LeftTrimmed(RightTrim(v))
           /\ RightTrim(v) = <<>> <=> v = <<>>
           /\ \A t : IsText(t) => (t \in Range(RightTrim(v)) <=> t \in Range(v))
<1>0. Len(v) \in Nat
  BY DEF Text
<1>1. PICK b \in 0 .. Len(v) :
         /\ \A j \in b + 1 .. Len(v) : ~IsText(v[j])
         /\ RightTrim(v) = SubSeq(v, 1, b)
  BY <1>0, RightTrimOf
<1> DEFINE r == SubSeq(v, 1, b)
<1>2. /\ r \in Text /\ Len(r) = b
      /\ \A i \in 1 .. b : r[i] = v[i]
  BY <1>0, SubSeqProperties DEF Text
<1>3. v # <<>> => b > 0
  BY <1>1 DEF LeftTrimmed, Text
<1>4. b > 0 => r # <<>> /\ IsText(r[1]) /\ v # <<>>
  <2>1. SUFFICES ASSUME b > 0 PROVE r # <<>> /\ IsText(r[1]) /\ v # <<>>
    OBVIOUS
  <2>2. v # <<>> /\ 1 \in 1 .. b
    BY <2>1 DEF Text
  <2>3. QED
    BY <1>2, <2>1, <2>2 DEF LeftTrimmed, Text
<1>5. b = 0 => r = <<>>
  BY <1>2 DEF Text
<1>6. ASSUME NEW t, IsText(t)
      PROVE  t \in Range(r) <=> t \in Range(v)
  <2>1. Range(r) = {r[i] : i \in 1 .. b} /\ Range(v) = {v[i] : i \in 1 .. Len(v)}
    BY <1>2, RangeEquality DEF Text
  <2>2. \A i \in 1 .. Len(v) : v[i] = t => i \in 1 .. b
    <3>1. \A i \in 1 .. Len(v) : i \notin 1 .. b => i \in b + 1 .. Len(v)
      BY <1>0
    <3>2. QED
      BY <1>1, <1>6, <3>1, Zenon
  <2> HIDE DEF r
  <2>3. \A i \in 1 .. b : i \in 1 .. Len(v)
    BY <1>0
  <2>4. QED
    BY <1>2, <2>1, <2>2, <2>3
<1>7. LeftTrimmed(r) /\ (r = <<>> <=> v = <<>>)
  BY <1>3, <1>4, <1>5 DEF LeftTrimmed
<1>8. QED
  BY <1>1, <1>6, <1>7, Zenon

---------------------------------------------------------------------------
(***************************************************************************)
(* The fields of header lines.                                             *)
(***************************************************************************)
NameAt(naming, lines, i) == naming[lines[i].name]
NamesIn(naming, lines, S) == {NameAt(naming, lines, i) : i \in S}
LastOf(naming, lines, S, n) == Max({i \in S : NameAt(naming, lines, i) = n})

\* The fields after the lines at the places S: each with its last value.
After(naming, lines, S) == [n \in NamesIn(naming, lines, S) |-> LeftTrim(lines[LastOf(naming, lines, S, n)].value)]

\* The lines that count.
Counted(lines) ==
    LET end == SelectInSeq(lines, LAMBDA l : l = NoColon)
    IN IF end = 0 THEN lines ELSE SubSeq(lines, 1, end - 1)

\* FieldsNamed as the function its fold is.
Step(naming, lines, f) ==
    [S \in SUBSET DOMAIN lines |->
       IF S = {} THEN NoFields
       ELSE set_field(f[S \ {Max(S)}], NameAt(naming, lines, Max(S)), LeftTrim(lines[Max(S)].value))]

LEMMA FieldsNamedIsFold ==
    ASSUME NEW naming, NEW lines
    PROVE  FieldsNamed(naming, lines) =
              (CHOOSE f : f = Step(naming, Counted(lines), f))[DOMAIN Counted(lines)]
BY Zenon DEF FieldsNamed, FoldLeft, MapThenFoldSet, Step, Counted, NameAt

\* The fields after some lines are those before the last of them and that one.
LEMMA AfterLast ==
    ASSUME NEW naming, NEW lines, NEW k \in Nat, NEW S \in SUBSET (1 .. k), S # {}
    PROVE  After(naming, lines, S) =
              set_field(After(naming, lines, S \ {Max(S)}), NameAt(naming, lines, Max(S)),
                        LeftTrim(lines[Max(S)].value))
<1> DEFINE m == Max(S)
           R == S \ {m}
           a == NameAt(naming, lines, m)
           v == LeftTrim(lines[m].value)
<1>1. m \in S /\ \A y \in S : y <= m
  <2>1. S \in SUBSET (0 .. k)
    OBVIOUS
  <2>2. QED
    BY <2>1, MaxOf
<1>2. LastOf(naming, lines, S, a) = m
  <2> DEFINE T == {i \in S : NameAt(naming, lines, i) = a}
  <2>0. m \in S
    BY <1>1
  <2> HIDE DEF m
  <2>1. T \in SUBSET (0 .. k) /\ m \in T
    <3>1. m \in T
      BY <2>0, Zenon
    <3>2. T \subseteq S
      BY Zenon
    <3> HIDE DEF T
    <3>3. S \subseteq 0 .. k
      OBVIOUS
    <3>4. QED
      BY <3>1, <3>2, <3>3, Zenon
  <2> HIDE DEF T
  <2>2. Max(T) \in T /\ m <= Max(T)
    BY <2>1, MaxOf
  <2>3. Max(T) \in S
    BY <2>2 DEF T
  <2>4. Max(T) = m
    <3>1. Max(T) <= m
      BY <1>1, <2>3 DEF m
    <3>2. Max(T) \in 1 .. k /\ m \in 1 .. k
      BY <1>1, <2>3 DEF m
    <3>3. QED
      BY <2>2, <3>1, <3>2
  <2>5. QED
    BY <2>4 DEF LastOf, T
<1>3. \A n : n # a => {i \in S : NameAt(naming, lines, i) = n} = {i \in R : NameAt(naming, lines, i) = n}
  BY <1>1
<1>4. \A n : n # a => LastOf(naming, lines, S, n) = LastOf(naming, lines, R, n)
  BY <1>3, Zenon DEF LastOf
<1>5. NamesIn(naming, lines, S) = {a} \cup NamesIn(naming, lines, R)
  BY <1>1, Zenon DEF NamesIn
<1> DEFINE g == After(naming, lines, R)
           w == [n \in {a} \cup NamesIn(naming, lines, R) |-> IF n = a THEN v ELSE g[n]]
<1>6. set_field(g, a, v) = w
  <2>1. DOMAIN g = NamesIn(naming, lines, R)
    BY DEF After
  <2> HIDE DEF g, v, a
  <2>2. QED
    BY <2>1, Zenon DEF set_field
<1>7. \A n \in {a} \cup NamesIn(naming, lines, R) : LeftTrim(lines[LastOf(naming, lines, S, n)].value) = w[n]
  <2>1. TAKE n \in {a} \cup NamesIn(naming, lines, R)
  <2> HIDE DEF m, R, a, v
  <2>2. CASE n = a
    BY <1>2, <2>2 DEF v
  <2>3. CASE n # a
    BY <1>4, <2>1, <2>3 DEF After
  <2>4. QED
    BY <2>2, <2>3
<1>8. After(naming, lines, S) = w
  <2> HIDE DEF m, R, a, v, g, w
  <2>1. After(naming, lines, S) =
           [n \in {a} \cup NamesIn(naming, lines, R) |-> LeftTrim(lines[LastOf(naming, lines, S, n)].value)]
    BY <1>5 DEF After
  <2>2. w = [n \in {a} \cup NamesIn(naming, lines, R) |-> w[n]]
    BY DEF w
  <2>3. QED
    BY <1>7, <2>1, <2>2, Zenon
<1>9. QED
  BY <1>6, <1>8

\* Whatever the lines are and their names are read as, their fields are the last value of each name.
LEMMA FieldsNamedAre ==
    ASSUME NEW naming, NEW lines, NEW k \in Nat, DOMAIN Counted(lines) = 1 .. k
    PROVE  FieldsNamed(naming, lines) = After(naming, Counted(lines), 1 .. k)
<1> DEFINE c == Counted(lines)
           D == DOMAIN c
           closed == [S \in SUBSET D |-> After(naming, c, S)]
           it == CHOOSE f : f = Step(naming, c, f)
<1> HIDE DEF c
<1>0. D = 1 .. k
  BY DEF c
<1>1. closed = Step(naming, c, closed)
  <2>1. \A S \in SUBSET D : S \ {Max(S)} \in SUBSET D
    OBVIOUS
  <2>2. ASSUME NEW S \in SUBSET D
        PROVE  After(naming, c, S) =
                  IF S = {} THEN NoFields
                  ELSE set_field(closed[S \ {Max(S)}], NameAt(naming, c, Max(S)),
                                 LeftTrim(c[Max(S)].value))
    <3>1. CASE S = {}
      BY <3>1, Zenon DEF After, NamesIn, NoFields
    <3>2. CASE S # {}
      <4>1. closed[S \ {Max(S)}] = After(naming, c, S \ {Max(S)})
        BY <2>1
      <4>2. S \in SUBSET (1 .. k)
        BY <1>0
      <4> HIDE DEF closed
      <4>3. After(naming, c, S) =
              set_field(After(naming, c, S \ {Max(S)}), NameAt(naming, c, Max(S)), LeftTrim(c[Max(S)].value))
        BY <3>2, <4>2, AfterLast
      <4>4. QED
        BY <3>2, <4>1, <4>3, Zenon
    <3>3. QED
      BY <3>1, <3>2
  <2>3. QED
    BY <2>2, Zenon DEF Step
<1> HIDE DEF closed
<1>2. it = Step(naming, c, it)
  BY <1>1, Zenon
<1> HIDE DEF it
<1>3. \A S \in SUBSET D : it[S] = After(naming, c, S)
  <2> DEFINE bad == {b \in Nat : \E S \in SUBSET D : S \subseteq 1 .. b /\ it[S] # After(naming, c, S)}
  <2>1. SUFFICES ASSUME bad # {} PROVE FALSE
    <3>1. \A S \in SUBSET D : S \subseteq 1 .. k
      BY <1>0
    <3>2. k \notin bad => \A S \in SUBSET D : it[S] = After(naming, c, S)
      BY <3>1
    <3>3. QED
      BY <3>2
  <2>2. Min(bad) \in bad /\ \A b \in bad : Min(bad) <= b
    <3>1. bad \in SUBSET Nat
      OBVIOUS
    <3> HIDE DEF bad
    <3>2. QED
      BY <2>1, <3>1, MinOf
  <2>3. PICK b : b \in bad /\ \A d \in bad : b <= d
    BY <2>2
  <2>4. PICK S \in SUBSET D : S \subseteq 1 .. b /\ it[S] # After(naming, c, S)
    BY <2>3
  <2>5. b \in Nat
    BY <2>3
  <2>6. it[S] = IF S = {} THEN NoFields
                ELSE set_field(it[S \ {Max(S)}], NameAt(naming, c, Max(S)), LeftTrim(c[Max(S)].value))
    BY <1>2, Zenon DEF Step
  <2>7. S # {}
    <3>1. After(naming, c, {}) = NoFields
      BY Zenon DEF After, NamesIn, NoFields
    <3>2. QED
      BY <2>4, <2>6, <3>1, Zenon
  <2>8. Max(S) \in S /\ \A y \in S : y <= Max(S)
    <3>1. S \in SUBSET (0 .. b)
      BY <2>4, <2>5
    <3>2. QED
      BY <2>5, <2>7, <3>1, MaxOf
  <2> DEFINE m == Max(S)
             R == S \ {m}
  <2>9. it[R] = After(naming, c, R)
    <3>1. m \in 1 .. b
      BY <2>4, <2>8
    <3>2. R \in SUBSET D /\ R \subseteq 1 .. (m - 1)
      <4>1. \A y \in R : y \in 1 .. b /\ y <= m /\ y # m
        BY <2>4, <2>8
      <4> HIDE DEF m
      <4>2. \A y \in R : y \in 1 .. (m - 1)
        BY <2>5, <3>1, <4>1
      <4>3. QED
        BY <4>2
    <3> HIDE DEF m, R
    <3>3. m - 1 \notin bad
      <4>1. ~(b <= m - 1)
        BY <2>5, <3>1
      <4>2. QED
        BY <2>3, <4>1
    <3>4. m - 1 \in Nat
      BY <2>5, <3>1
    <3>5. QED
      BY <3>2, <3>3, <3>4
  <2>10. After(naming, c, S) = set_field(After(naming, c, R), NameAt(naming, c, m), LeftTrim(c[m].value))
    BY <2>4, <2>5, <2>7, AfterLast
  <2>11. QED
    BY <2>4, <2>6, <2>7, <2>9, <2>10, Zenon
<1>4. FieldsNamed(naming, lines) = it[D]
  BY FieldsNamedIsFold, Zenon DEF it, c
<1>5. QED
  BY <1>0, <1>3, <1>4 DEF c

---------------------------------------------------------------------------
(***************************************************************************)
(* Header lines as every program here reads them, and fields as it writes  *)
(* them.                                                                   *)
(***************************************************************************)
WellFormed(lines) ==
    /\ Len(lines) \in Nat /\ DOMAIN lines = 1 .. Len(lines)
    /\ \A i \in 1 .. Len(lines) :
          lines[i] = NoColon \/ (lines[i].name \in DOMAIN LowerCase /\ lines[i].value \in Text)

\* Fields of a request or response that was read.
Parsed(fields) ==
    /\ fields = [n \in DOMAIN fields |-> fields[n]] /\ IsFiniteSet(DOMAIN fields)
    /\ \A n \in DOMAIN fields :
          /\ n \in DOMAIN LowerCase /\ LowerCase[n] = n
          /\ fields[n] \in Text /\ LeftTrimmed(fields[n])

\* The lines that count are those before the first without a colon.
LEMMA CountedAre ==
    ASSUME NEW lines, WellFormed(lines)
    PROVE  \E k \in 0 .. Len(lines) :
              /\ DOMAIN Counted(lines) = 1 .. k
              /\ \A i \in 1 .. k : Counted(lines)[i] = lines[i] /\ lines[i] # NoColon
              /\ k < Len(lines) => lines[k + 1] = NoColon
              /\ k = Len(lines) => Counted(lines) = lines
<1> DEFINE I == {i \in 1 .. Len(lines) : lines[i] = NoColon}
           end == IF I # {} THEN Min(I) ELSE 0
<1>1. Counted(lines) = IF end = 0 THEN lines ELSE SubSeq(lines, 1, end - 1)
  BY DEF Counted, SelectInSeq
<1>2. I # {} => Min(I) \in I /\ \A y \in I : Min(I) <= y
  <2>1. I \in SUBSET Nat
    OBVIOUS
  <2>2. QED
    BY <2>1, MinOf
<1>3. \A i : i \in I <=> i \in 1 .. Len(lines) /\ lines[i] = NoColon
  OBVIOUS
<1> HIDE DEF I
<1>4. CASE I = {}
  <2>1. Counted(lines) = lines
    BY <1>1, <1>4
  <2>2. \A i \in 1 .. Len(lines) : lines[i] # NoColon
    BY <1>3, <1>4
  <2>3. Len(lines) \in 0 .. Len(lines) /\ DOMAIN Counted(lines) = 1 .. Len(lines)
    BY <2>1 DEF WellFormed
  <2>4. ~(Len(lines) < Len(lines))
    BY DEF WellFormed
  <2>5. QED
    BY <2>1, <2>2, <2>3, <2>4, Zenon
<1>5. CASE I # {}
  <2>1. PICK m : m = Min(I) /\ m \in I /\ \A y \in I : m <= y
    BY <1>2, <1>5
  <2>2. m \in 1 .. Len(lines) /\ lines[m] = NoColon
    BY <1>3, <2>1
  <2>3. \A i \in 1 .. m - 1 : lines[i] # NoColon
    BY <1>3, <2>1, <2>2
  <2>4. Counted(lines) = SubSeq(lines, 1, m - 1)
    <3>1. end = m /\ m # 0
      BY <1>5, <2>1, <2>2
    <3> HIDE DEF end
    <3>2. QED
      BY <1>1, <3>1, Zenon
  <2>5. /\ DOMAIN Counted(lines) = 1 .. m - 1
        /\ \A i \in 1 .. m - 1 : Counted(lines)[i] = lines[i]
    BY <2>2, <2>4 DEF WellFormed
  <2>6. m - 1 \in 0 .. Len(lines) /\ (m - 1) + 1 = m /\ m - 1 # Len(lines)
    BY <2>2 DEF WellFormed
  <2>7. QED
    BY <2>2, <2>3, <2>5, <2>6
<1>6. QED
  BY <1>4, <1>5

\* A name's last line is one of its lines.
LEMMA LastIsThere ==
    ASSUME NEW naming, NEW lines, NEW k \in Nat, NEW n \in NamesIn(naming, lines, 1 .. k)
    PROVE  /\ LastOf(naming, lines, 1 .. k, n) \in 1 .. k
           /\ NameAt(naming, lines, LastOf(naming, lines, 1 .. k, n)) = n
<1> DEFINE T == {i \in 1 .. k : NameAt(naming, lines, i) = n}
<1>1. T \in SUBSET (0 .. k)
  <2>1. T \subseteq 1 .. k
    BY Zenon
  <2> HIDE DEF T
  <2>2. QED
    BY <2>1
<1>2. T # {}
  BY Zenon DEF NamesIn
<1>3. Max(T) \in T
  <2> HIDE DEF T
  <2>1. QED
    BY <1>1, <1>2, MaxOf
<1>4. QED
  BY <1>3, Zenon DEF LastOf

\* What is read of header lines is Parsed.
LEMMA FieldsParsed ==
    ASSUME NEW lines, WellFormed(lines)
    PROVE  Parsed(FieldsOf(lines))
<1> DEFINE c == Counted(lines)
<1>1. PICK k \in 0 .. Len(lines) :
         /\ DOMAIN c = 1 .. k
         /\ \A i \in 1 .. k : c[i] = lines[i] /\ lines[i] # NoColon
  BY CountedAre
<1> HIDE DEF c
<1>2. k \in Nat
  BY DEF WellFormed
<1>3. FieldsOf(lines) = After(LowerCase, c, 1 .. k)
  BY <1>1, <1>2, FieldsNamedAre DEF c, FieldsOf
<1>4. \A i \in 1 .. k : c[i].name \in DOMAIN LowerCase /\ c[i].value \in Text
  BY <1>1, <1>2 DEF WellFormed
<1>5. DOMAIN After(LowerCase, c, 1 .. k) = NamesIn(LowerCase, c, 1 .. k)
  BY DEF After
<1>6. IsFiniteSet(NamesIn(LowerCase, c, 1 .. k))
  <2> DEFINE f == [i \in 1 .. k |-> NameAt(LowerCase, c, i)]
  <2>1. f \in Surjection(1 .. k, NamesIn(LowerCase, c, 1 .. k))
    BY Zenon DEF Surjection, NamesIn
  <2>2. IsFiniteSet(1 .. k)
    BY <1>2, FS_Interval
  <2> HIDE DEF f
  <2>3. QED
    BY <2>1, <2>2, FS_Surjection
<1>7. ASSUME NEW n \in NamesIn(LowerCase, c, 1 .. k)
      PROVE  /\ n \in DOMAIN LowerCase /\ LowerCase[n] = n
             /\ After(LowerCase, c, 1 .. k)[n] \in Text /\ LeftTrimmed(After(LowerCase, c, 1 .. k)[n])
  <2>1. PICK i \in 1 .. k : n = LowerCase[c[i].name]
    BY Zenon DEF NamesIn, NameAt
  <2>2. n \in DOMAIN LowerCase /\ LowerCase[n] = n
    BY <1>4, <2>1, TextAssumption
  <2>3. LastOf(LowerCase, c, 1 .. k, n) \in 1 .. k
    BY <1>2, LastIsThere
  <2>4. c[LastOf(LowerCase, c, 1 .. k, n)].value \in Text
    BY <1>4, <2>3
  <2>5. After(LowerCase, c, 1 .. k)[n] = LeftTrim(c[LastOf(LowerCase, c, 1 .. k, n)].value)
    BY DEF After
  <2>6. QED
    BY <2>2, <2>4, <2>5, LeftTrimTrims
<1>8. After(LowerCase, c, 1 .. k) = [n \in NamesIn(LowerCase, c, 1 .. k) |-> After(LowerCase, c, 1 .. k)[n]]
  BY DEF After
<1>9. QED
  BY <1>3, <1>5, <1>6, <1>7, <1>8, Zenon DEF Parsed

\* Their meaning is what is read, without the blanks after values.
LEMMA MeaningIs ==
    ASSUME NEW lines, WellFormed(lines)
    PROVE  Meaning(lines) = NoTrailing(FieldsOf(lines))
<1> DEFINE c == Counted(lines)
           upTo == {i \in DOMAIN lines : \A j \in 1 .. i : lines[j] # NoColon}
           Of(n) == {i \in upTo : LowerCase[lines[i].name] = n}
           names == {LowerCase[lines[i].name] : i \in upTo}
<1>1. PICK k \in 0 .. Len(lines) :
         /\ DOMAIN c = 1 .. k
         /\ \A i \in 1 .. k : c[i] = lines[i] /\ lines[i] # NoColon
         /\ k < Len(lines) => lines[k + 1] = NoColon
  BY CountedAre
<1> HIDE DEF c
<1>2. k \in Nat
  BY DEF WellFormed
<1>3. FieldsOf(lines) = After(LowerCase, c, 1 .. k)
  BY <1>1, <1>2, FieldsNamedAre DEF c, FieldsOf
<1>4. upTo = 1 .. k
  <2>1. \A i \in 1 .. k : i \in DOMAIN lines /\ \A j \in 1 .. i : lines[j] # NoColon
    BY <1>1, <1>2 DEF WellFormed
  <2>2. \A i \in DOMAIN lines : i \notin 1 .. k => k < Len(lines) /\ k + 1 \in 1 .. i
    BY <1>2 DEF WellFormed
  <2>3. \A i \in DOMAIN lines : (\A j \in 1 .. i : lines[j] # NoColon) => i \in 1 .. k
    BY <1>1, <2>2
  <2>4. QED
    BY <2>1, <2>3
<1> HIDE DEF upTo
<1>5. \A i \in 1 .. k : LowerCase[lines[i].name] = NameAt(LowerCase, c, i)
  BY <1>1 DEF NameAt
<1>6. names = NamesIn(LowerCase, c, 1 .. k)
  BY <1>4, <1>5, Zenon DEF NamesIn
<1>7. \A n : Of(n) = {i \in 1 .. k : NameAt(LowerCase, c, i) = n}
  BY <1>4, <1>5
<1>8. \A n : Max(Of(n)) = LastOf(LowerCase, c, 1 .. k, n)
  BY <1>7, Zenon DEF LastOf
<1> HIDE DEF Of, names
<1>9. ASSUME NEW n \in names
      PROVE  LeftTrim(RightTrim(lines[Max(Of(n))].value)) = RightTrim(After(LowerCase, c, 1 .. k)[n])
  <2>1. n \in NamesIn(LowerCase, c, 1 .. k)
    BY <1>6
  <2>2. LastOf(LowerCase, c, 1 .. k, n) \in 1 .. k
    BY <1>2, <2>1, LastIsThere
  <2>3. Max(Of(n)) \in 1 .. k /\ lines[Max(Of(n))] = c[LastOf(LowerCase, c, 1 .. k, n)]
    BY <1>1, <1>8, <2>2
  <2>4. lines[Max(Of(n))].value \in Text
    BY <1>1, <1>2, <2>3 DEF WellFormed
  <2>5. After(LowerCase, c, 1 .. k)[n] = LeftTrim(c[LastOf(LowerCase, c, 1 .. k, n)].value)
    BY <2>1 DEF After
  <2>6. QED
    BY <2>3, <2>4, <2>5, TrimsCommute
<1>10. Meaning(lines) = [n \in names |-> LeftTrim(RightTrim(lines[Max(Of(n))].value))]
  BY Zenon DEF Meaning, names, Of, upTo
<1>11. NoTrailing(FieldsOf(lines)) = [n \in names |-> RightTrim(After(LowerCase, c, 1 .. k)[n])]
  <2>1. DOMAIN After(LowerCase, c, 1 .. k) = names
    BY <1>6 DEF After
  <2>2. QED
    BY <1>3, <2>1, Zenon DEF NoTrailing
<1>12. QED
  BY <1>9, <1>10, <1>11, Zenon

\* A finite set as a sequence: every member once.
LEMMA SetToSeqIs ==
    ASSUME NEW S, IsFiniteSet(S)
    PROVE  /\ Cardinality(S) \in Nat
           /\ SetToSeq(S) \in [1 .. Cardinality(S) -> S]
           /\ \A x \in S : \E i \in 1 .. Cardinality(S) : SetToSeq(S)[i] = x
<1> DEFINE n == Cardinality(S)
           q == SetToSeq(S)
<1>1. n \in Nat /\ ExistsBijection(1 .. n, S)
  BY FS_CardinalityType
<1>2. \E f \in [1 .. n -> S] : IsInjective(f)
  BY <1>1, Zenon DEF ExistsBijection, Bijection, Injection
<1>3. q \in [1 .. n -> S] /\ IsInjective(q)
  BY <1>2, Zenon DEF SetToSeq
<1>4. q \in Injection(1 .. n, S)
  BY <1>3, Zenon DEF Injection
<1>5. IsFiniteSet(1 .. n) /\ Cardinality(1 .. n) = n
  BY <1>1, FS_Interval
<1> HIDE DEF q
<1>6. q \in Surjection(1 .. n, S)
  BY <1>4, <1>5, FS_Injection
<1>7. QED
  BY <1>1, <1>3, <1>6, Zenon DEF Surjection, q

LineOf(fields, n) == [name |-> n, value |-> Blanked(fields[n])]

\* The lines that are written of fields: each once.
LEMMA FieldLinesAre ==
    ASSUME NEW f, Parsed(f)
    PROVE  \E k \in Nat :
              /\ FieldLines(f) \in [1 .. k -> {LineOf(f, n) : n \in DOMAIN f}]
              /\ \A n \in DOMAIN f : \E i \in 1 .. k : FieldLines(f)[i] = LineOf(f, n)
<1> DEFINE S == {LineOf(f, n) : n \in DOMAIN f}
<1>1. IsFiniteSet(S)
  <2> DEFINE g == [n \in DOMAIN f |-> LineOf(f, n)]
  <2>1. g \in Surjection(DOMAIN f, S)
    BY Zenon DEF Surjection
  <2> HIDE DEF g, S
  <2>2. QED
    BY <2>1, FS_Surjection DEF Parsed
<1>2. FieldLines(f) = SetToSeq(S)
  BY Zenon DEF FieldLines, LineOf, Blanked
<1>3. \A n \in DOMAIN f : LineOf(f, n) \in S
  OBVIOUS
<1> HIDE DEF S
<1>4. /\ Cardinality(S) \in Nat /\ SetToSeq(S) \in [1 .. Cardinality(S) -> S]
      /\ \A x \in S : \E i \in 1 .. Cardinality(S) : SetToSeq(S)[i] = x
  BY <1>1, SetToSeqIs
<1>5. \A n \in DOMAIN f : \E i \in 1 .. Cardinality(S) : FieldLines(f)[i] = LineOf(f, n)
  BY <1>2, <1>3, <1>4
<1>6. QED
  BY <1>2, <1>4, <1>5, Zenon DEF S

\* Of fields lines are written that all count: one of each field, with its value.
LEMMA WrittenLines ==
    ASSUME NEW f, Parsed(f)
    PROVE  \E k \in Nat :
              /\ WellFormed(FieldLines(f))
              /\ DOMAIN FieldLines(f) = 1 .. k /\ Counted(FieldLines(f)) = FieldLines(f)
              /\ \A i \in 1 .. k : /\ FieldLines(f)[i].name \in DOMAIN f
                                   /\ LeftTrim(FieldLines(f)[i].value) = f[FieldLines(f)[i].name]
              /\ \A n \in DOMAIN f : \E i \in 1 .. k : FieldLines(f)[i].name = n
<1> DEFINE q == FieldLines(f)
<1>1. PICK k \in Nat :
         /\ q \in [1 .. k -> {LineOf(f, n) : n \in DOMAIN f}]
         /\ \A n \in DOMAIN f : \E i \in 1 .. k : q[i] = LineOf(f, n)
  BY FieldLinesAre
<1> HIDE DEF q
<1>2. \A i \in 1 .. k : \E n \in DOMAIN f : q[i] = LineOf(f, n)
  BY <1>1
<1>3. \A n \in DOMAIN f :
         /\ n \in DOMAIN LowerCase /\ LowerCase[n] = n
         /\ f[n] \in Text /\ LeftTrim(f[n]) = f[n]
  BY LeftTrimStays DEF Parsed
<1>4. ASSUME NEW n \in DOMAIN f
      PROVE  /\ LineOf(f, n).name = n /\ LineOf(f, n).value \in Text
             /\ LeftTrim(LineOf(f, n).value) = f[n]
             /\ LineOf(f, n) # NoColon
  <2>1. f[n] \in Text /\ LeftTrim(f[n]) = f[n]
    BY <1>3
  <2>2. LineOf(f, n).name = n /\ LineOf(f, n).value = Blanked(f[n])
    BY Zenon DEF LineOf
  <2>3. Blanked(f[n]) \in Text /\ Blanked(f[n]) # <<>> /\ LeftTrim(Blanked(f[n])) = LeftTrim(f[n])
    BY <2>1, LeftTrimBlank
  <2>4. NoColon.value = <<>>
    BY Zenon DEF NoColon
  <2>5. QED
    BY <2>1, <2>2, <2>3, <2>4, Zenon
<1>5. DOMAIN q = 1 .. k /\ Len(q) = k
  BY <1>1
<1>6. \A i \in 1 .. k : /\ q[i].name \in DOMAIN f /\ q[i].value \in Text
                        /\ LeftTrim(q[i].value) = f[q[i].name] /\ q[i] # NoColon
  <2>1. TAKE i \in 1 .. k
  <2>2. PICK n \in DOMAIN f : q[i] = LineOf(f, n)
    BY <1>2
  <2>3. q[i].name = n
    BY <1>4, <2>2
  <2>4. QED
    BY <1>4, <2>2, <2>3
<1>7. WellFormed(q)
  BY <1>3, <1>5, <1>6 DEF WellFormed
<1>8. Counted(q) = q
  <2>1. PICK m \in 0 .. Len(q) :
           /\ m < Len(q) => q[m + 1] = NoColon
           /\ m = Len(q) => Counted(q) = q
    BY <1>7, CountedAre
  <2>2. m < k => m + 1 \in 1 .. k
    BY <1>5, <2>1
  <2>3. QED
    BY <1>5, <1>6, <2>1, <2>2
<1>9. \A n \in DOMAIN f : \E i \in 1 .. k : q[i].name = n
  BY <1>1, <1>4
<1>10. /\ WellFormed(q) /\ DOMAIN q = 1 .. k /\ Counted(q) = q
       /\ \A i \in 1 .. k : q[i].name \in DOMAIN f /\ LeftTrim(q[i].value) = f[q[i].name]
  BY <1>5, <1>6, <1>7, <1>8
<1>11. QED
  BY <1>9, <1>10, Zenon DEF q

\* Read again with their names as they are or changed, each field found has the value
\* of one of that name.
LEMMA ReadAgain ==
    ASSUME NEW f, Parsed(f), NEW naming
    PROVE  /\ DOMAIN FieldsNamed(naming, FieldLines(f)) = {naming[n] : n \in DOMAIN f}
           /\ \A a \in DOMAIN FieldsNamed(naming, FieldLines(f)) :
                 \E n \in DOMAIN f : naming[n] = a /\ FieldsNamed(naming, FieldLines(f))[a] = f[n]
           /\ FieldsNamed(naming, FieldLines(f)) =
                 [a \in {naming[n] : n \in DOMAIN f} |-> FieldsNamed(naming, FieldLines(f))[a]]
<1> DEFINE q == FieldLines(f)
           g == FieldsNamed(naming, q)
<1>1. PICK k \in Nat :
         /\ DOMAIN q = 1 .. k /\ Counted(q) = q
         /\ \A i \in 1 .. k : q[i].name \in DOMAIN f /\ LeftTrim(q[i].value) = f[q[i].name]
         /\ \A n \in DOMAIN f : \E i \in 1 .. k : q[i].name = n
  BY WrittenLines, Zenon
<1> HIDE DEF q
<1>2. g = After(naming, q, 1 .. k)
  BY <1>1, FieldsNamedAre
<1>3. NamesIn(naming, q, 1 .. k) = {naming[n] : n \in DOMAIN f}
  <2>1. \A i \in 1 .. k : NameAt(naming, q, i) \in {naming[n] : n \in DOMAIN f}
    BY <1>1, Zenon DEF NameAt
  <2>2. \A n \in DOMAIN f : \E i \in 1 .. k : NameAt(naming, q, i) = naming[n]
    BY <1>1, Zenon DEF NameAt
  <2>3. QED
    BY <2>1, <2>2, Zenon DEF NamesIn
<1> HIDE DEF g
<1>4. g = [a \in NamesIn(naming, q, 1 .. k) |-> LeftTrim(q[LastOf(naming, q, 1 .. k, a)].value)]
  BY <1>2, Zenon DEF After
<1>5. ASSUME NEW a \in NamesIn(naming, q, 1 .. k)
      PROVE  \E n \in DOMAIN f : naming[n] = a /\ g[a] = f[n]
  <2>1. PICK i : i \in 1 .. k /\ NameAt(naming, q, i) = a /\ i = LastOf(naming, q, 1 .. k, a)
    <3>1. /\ LastOf(naming, q, 1 .. k, a) \in 1 .. k
          /\ NameAt(naming, q, LastOf(naming, q, 1 .. k, a)) = a
      BY LastIsThere
    <3>2. QED
      BY <3>1, Zenon
  <2>2. q[i].name \in DOMAIN f /\ LeftTrim(q[i].value) = f[q[i].name]
    BY <1>1, <2>1, Zenon
  <2>3. naming[q[i].name] = a
    BY <2>1 DEF NameAt
  <2>4. g[a] = LeftTrim(q[i].value)
    BY <1>4, <2>1
  <2>5. QED
    BY <2>2, <2>3, <2>4, Zenon
<1>6. QED
  BY <1>3, <1>4, <1>5, Zenon DEF g, q

\* What is written of fields is read as them.
LEMMA RoundTrip ==
    ASSUME NEW f, Parsed(f)
    PROVE  WellFormed(FieldLines(f)) /\ FieldsOf(FieldLines(f)) = f
<1> DEFINE g == FieldsNamed(LowerCase, FieldLines(f))
<1>1. /\ DOMAIN g = {LowerCase[n] : n \in DOMAIN f}
      /\ \A a \in DOMAIN g : \E n \in DOMAIN f : LowerCase[n] = a /\ g[a] = f[n]
      /\ g = [a \in {LowerCase[n] : n \in DOMAIN f} |-> g[a]]
  BY ReadAgain, Zenon
<1>2. \A n \in DOMAIN f : LowerCase[n] = n
  BY DEF Parsed
<1>3. {LowerCase[n] : n \in DOMAIN f} = DOMAIN f
  BY <1>2, Zenon
<1> HIDE DEF g
<1>4. \A a \in DOMAIN f : g[a] = f[a]
  <2>1. TAKE a \in DOMAIN f
  <2>2. PICK n \in DOMAIN f : LowerCase[n] = a /\ g[a] = f[n]
    BY <1>1, <1>3, Zenon
  <2>3. n = a
    BY <1>2, <2>2, Zenon
  <2>4. QED
    BY <2>2, <2>3, Zenon
<1>5. g = [a \in DOMAIN f |-> f[a]]
  BY <1>1, <1>3, <1>4, Zenon
<1>6. WellFormed(FieldLines(f))
  BY WrittenLines, Zenon
<1>7. QED
  BY <1>5, <1>6, Zenon DEF Parsed, FieldsOf, g

\* Fields of which the same lines are written are the same.
LEMMA SameLinesSameFields ==
    ASSUME NEW f, NEW g, Parsed(f), Parsed(g), FieldLines(f) = FieldLines(g)
    PROVE  f = g
<1>1. FieldsOf(FieldLines(f)) = f /\ FieldsOf(FieldLines(g)) = g
  BY RoundTrip
<1>2. QED
  BY <1>1, Zenon

---------------------------------------------------------------------------
(***************************************************************************)
(* Where the path of a URL ends.                                           *)
(***************************************************************************)
LEMMA TextIs ==
    ASSUME NEW u \in Text
    PROVE  Len(u) \in Nat /\ DOMAIN u = 1 .. Len(u) /\ (u # <<>> => Len(u) > 0)
BY DEF Text

\* A text is what is before a place in it and what is from there.
LEMMA SplitText ==
    ASSUME NEW u \in Text, NEW e \in 0 .. Len(u)
    PROVE  SubSeq(u, 1, e) \o From(u, e + 1) = u
<1>1. Len(u) \in Nat /\ 1 \in 1 .. Len(u) + 1 /\ e \in 1 - 1 .. Len(u) /\ Len(u) \in e .. Len(u)
  BY TextIs
<1>2. SubSeq(u, 1, e) \o SubSeq(u, e + 1, Len(u)) = SubSeq(u, 1, Len(u))
  BY <1>1, ConcatAdjacentSubSeq DEF Text
<1>3. QED
  BY <1>2, SubSeqFull DEF Text, From

LEMMA FromIsText ==
    ASSUME NEW u \in Text, NEW k \in 1 .. Len(u) + 1
    PROVE  /\ From(u, k) \in Text /\ Len(From(u, k)) = Len(u) - k + 1
           /\ \A i \in 1 .. Len(u) - k + 1 : From(u, k)[i] = u[k + i - 1]
<1>1. Len(u) \in Nat
  BY TextIs
<1>2. \A i \in k .. Len(u) : u[i] \in Token
  BY DEF Text
<1>3. k \in Int /\ Len(u) \in Int
  BY <1>1
<1>4. /\ SubSeq(u, k, Len(u)) \in Seq(Token)
      /\ Len(SubSeq(u, k, Len(u))) = IF k <= Len(u) THEN Len(u) - k + 1 ELSE 0
      /\ \A i \in 1 .. Len(u) - k + 1 : SubSeq(u, k, Len(u))[i] = u[k + i - 1]
  BY <1>2, <1>3, SubSeqProperties
<1>5. (IF k <= Len(u) THEN Len(u) - k + 1 ELSE 0) = Len(u) - k + 1
  BY <1>1
<1>6. QED
  BY <1>4, <1>5 DEF From, Text

\* The egress gateway takes the first place where a path can end.
LEMMA EgressEnd ==
    ASSUME NEW u \in Text, u # <<>>
    PROVE  /\ EgressPathEnd(u) \in PathEnds(u) /\ EgressPathEnd(u) \in 1 .. Len(u)
           /\ \A e \in PathEnds(u) : EgressPathEnd(u) <= e
<1>1. Len(u) \in PathEnds(u) /\ PathEnds(u) \in SUBSET (1 .. Len(u))
  BY TextIs DEF PathEnds
<1>2. PathEnds(u) \in SUBSET Nat
  BY <1>1
<1>3. Min(PathEnds(u)) \in PathEnds(u) /\ \A e \in PathEnds(u) : Min(PathEnds(u)) <= e
  BY <1>1, <1>2, MinOf
<1>4. QED
  BY <1>1, <1>3 DEF EgressPathEnd

Eaten(u, s) == {e \in PathEnds(u) : e > s /\ \A i \in s + 1 .. e : u[i] # "/"}
Starts(u) == {k \in DOMAIN u : Eaten(u, k) # {} \/ k \in PathEnds(u)}

\* The ingress gateway takes one too: the first that is reached from the first start.
LEMMA IngressEnd ==
    ASSUME NEW u \in Text, u # <<>>
    PROVE  \E s \in Starts(u) :
              /\ \A k \in Starts(u) : s <= k
              /\ IF Eaten(u, s) # {}
                 THEN /\ IngressPathEnd(u) \in Eaten(u, s)
                      /\ \A e \in Eaten(u, s) : IngressPathEnd(u) <= e
                 ELSE IngressPathEnd(u) = s /\ s \in PathEnds(u)
<1>1. Len(u) \in Starts(u) /\ Starts(u) \in SUBSET Nat
  BY TextIs DEF Starts, PathEnds
<1>2. PICK s : s = Min(Starts(u)) /\ s \in Starts(u) /\ \A k \in Starts(u) : s <= k
  BY <1>1, MinOf
<1>3. IngressPathEnd(u) = IF Eaten(u, s) # {} THEN Min(Eaten(u, s)) ELSE s
  BY <1>2, Zenon DEF IngressPathEnd, Starts, Eaten
<1>4. Eaten(u, s) \in SUBSET Nat
  BY TextIs DEF Eaten, PathEnds
<1>5. Eaten(u, s) # {} =>
         Min(Eaten(u, s)) \in Eaten(u, s) /\ \A e \in Eaten(u, s) : Min(Eaten(u, s)) <= e
  BY <1>4, MinOf
<1>6. Eaten(u, s) = {} => s \in PathEnds(u)
  BY <1>2 DEF Starts
<1>7. CASE Eaten(u, s) # {}
  BY <1>2, <1>3, <1>5, <1>7, Zenon
<1>8. CASE Eaten(u, s) = {}
  BY <1>2, <1>3, <1>6, <1>8, Zenon
<1>9. QED
  BY <1>7, <1>8

LEMMA IngressEndsInside ==
    ASSUME NEW u \in Text, u # <<>>
    PROVE  IngressPathEnd(u) \in PathEnds(u) /\ IngressPathEnd(u) \in 1 .. Len(u)
<1>1. IngressPathEnd(u) \in PathEnds(u)
  BY IngressEnd, Zenon DEF Eaten
<1>2. QED
  BY <1>1, TextIs DEF PathEnds

\* Both end it at the same place, but where a query follows a slash and another end
\* follows with no slash between them.
LEMMA EndsAgree ==
    ASSUME NEW u \in Text, u # <<>>, u[1] = "/", ~SlashQuery(u)
    PROVE  IngressPathEnd(u) = EgressPathEnd(u)
<1> DEFINE r == IngressPathEnd(u)
           first == EgressPathEnd(u)
<1>1. /\ first \in PathEnds(u) /\ first \in 1 .. Len(u)
      /\ \A e \in PathEnds(u) : first <= e
  BY EgressEnd
<1>2. Len(u) \in Nat /\ DOMAIN u = 1 .. Len(u)
  BY TextIs
<1>3. r \in PathEnds(u) /\ r \in 1 .. Len(u)
  BY IngressEndsInside
<1> HIDE DEF r, first
<1>4. PICK s \in Starts(u) :
         /\ \A k \in Starts(u) : s <= k
         /\ IF Eaten(u, s) # {}
            THEN r \in Eaten(u, s) /\ \A e \in Eaten(u, s) : r <= e
            ELSE r = s /\ s \in PathEnds(u)
  BY IngressEnd DEF r
<1>5. s \in 1 .. Len(u) /\ s <= first
  BY <1>1, <1>2, <1>4 DEF Starts
<1>6. SUFFICES ASSUME first < r PROVE FALSE
  <2>1. first <= r
    BY <1>1, <1>3
  <2>2. ~(first < r) => first = r
    BY <1>1, <1>3, <2>1
  <2>3. QED
    BY <1>6, <2>2 DEF first, r
<1>7. Eaten(u, s) # {}
  BY <1>1, <1>3, <1>4, <1>5, <1>6
<1>8. r > s /\ (\A i \in s + 1 .. r : u[i] # "/") /\ \A e \in Eaten(u, s) : r <= e
  BY <1>4, <1>7 DEF Eaten
<1>9. s = first
  <2>1. SUFFICES ASSUME s # first PROVE FALSE
    OBVIOUS
  <2>2. first > s /\ \A i \in s + 1 .. first : i \in s + 1 .. r
    BY <1>1, <1>3, <1>5, <1>6, <2>1
  <2>3. first \in Eaten(u, s)
    BY <1>1, <1>8, <2>2 DEF Eaten
  <2>4. QED
    BY <1>1, <1>3, <1>6, <1>8, <2>3
<1>10. u[first] = "/"
  <2>1. SUFFICES ASSUME u[first] # "/" PROVE FALSE
    OBVIOUS
  <2>2. first # 1
    BY <2>1
  <2>3. first - 1 \in 1 .. Len(u) /\ first - 1 < s
    BY <1>1, <1>2, <1>9, <2>2
  <2>4. \A i \in (first - 1) + 1 .. r : i = first \/ i \in s + 1 .. r
    BY <1>1, <1>3, <1>9
  <2>5. r > first - 1
    BY <1>1, <1>3, <1>6
  <2>6. r \in Eaten(u, first - 1)
    BY <1>3, <1>8, <2>1, <2>4, <2>5 DEF Eaten
  <2>7. first - 1 \in Starts(u)
    BY <1>2, <2>3, <2>6 DEF Starts
  <2>8. QED
    BY <1>4, <1>5, <2>3, <2>7
<1>11. u[first + 1] = "?" /\ first # Len(u)
  BY <1>1, <1>3, <1>6, <1>2 DEF PathEnds
<1>12. \A j \in 1 .. first : u[j] # "?"
  <2>1. TAKE j \in 1 .. first
  <2>2. CASE j = 1
    BY <2>2
  <2>3. CASE j # 1
    <3>1. j - 1 \in 1 .. Len(u) /\ j - 1 < first /\ (j - 1) + 1 = j
      BY <1>1, <1>2, <2>3
    <3>2. j - 1 \notin PathEnds(u)
      BY <1>1, <3>1
    <3>3. QED
      BY <1>2, <3>1, <3>2 DEF PathEnds
  <2>4. QED
    BY <2>2, <2>3
<1>13. SlashQuery(u)
  <2> DEFINE i == first + 1
  <2>1. i \in DOMAIN u /\ i > 1 /\ i - 1 = first /\ i <= r
    BY <1>1, <1>2, <1>3, <1>6
  <2>2. \A j \in i .. r : u[j] # "/"
    BY <1>8, <1>9
  <2>3. u[i] = "?" /\ u[i - 1] = "/" /\ \A j \in 1 .. i - 1 : u[j] # "?"
    BY <1>10, <1>11, <1>12, <2>1
  <2> HIDE DEF i
  <2>4. QED
    BY <1>3, <2>1, <2>2, <2>3, Zenon DEF SlashQuery
<1>14. QED
  BY <1>13

\* What is left of a URL without scheme and authority begins with a slash.
LEMMA PathPartIs ==
    ASSUME NEW url \in Text
    PROVE  PathPart(url) \in Text /\ (PathPart(url) # <<>> => PathPart(url)[1] = "/")
<1> DEFINE after == IF Len(url) > 2 /\ SubSeq(url, 1, 3) = <<"http:", "/", "/">>
                    THEN From(url, 4) ELSE url
           part == IF First(after, "/") > 0 THEN after ELSE url
<1>1. PathPart(url) = IF First(part, "/") = 0 THEN <<>> ELSE From(part, First(part, "/"))
  BY Zenon DEF PathPart
<1>2. after \in Text
  <2>1. Len(url) > 2 => 4 \in 1 .. Len(url) + 1
    BY TextIs
  <2>2. Len(url) > 2 => From(url, 4) \in Text
    BY <2>1, FromIsText
  <2>3. QED
    BY <2>2, Zenon
<1>3. part \in Text
  BY <1>2
<1> HIDE DEF part
<1>4. Len(part) \in Nat
  BY <1>3, TextIs
<1>5. /\ First(part, "/") \in 0 .. Len(part)
      /\ First(part, "/") > 0 => part[First(part, "/")] = "/"
  BY <1>4, FirstOf
<1> DEFINE k == First(part, "/")
<1> HIDE DEF k
<1>6. CASE k = 0
  BY <1>1, <1>6 DEF Text, k
<1>7. CASE k # 0
  <2>1. k \in 1 .. Len(part) /\ part[k] = "/"
    BY <1>4, <1>5, <1>7 DEF k
  <2>2. k \in 1 .. Len(part) + 1 /\ 1 \in 1 .. Len(part) - k + 1 /\ k + 1 - 1 = k
    BY <1>4, <2>1
  <2>3. From(part, k) \in Text /\ From(part, k)[1] = part[k + 1 - 1]
    BY <1>3, <2>2, FromIsText
  <2>4. PathPart(url) = From(part, k)
    BY <1>1, <1>7 DEF k
  <2>5. QED
    BY <2>1, <2>2, <2>3, <2>4
<1>8. QED
  BY <1>6, <1>7

---------------------------------------------------------------------------
(***************************************************************************)
(* The fields that computeNames rewrites.                                  *)
(***************************************************************************)
Sdch == <<", sdch">>

LEMMA SdchIs == Sdch \in Text /\ LeftTrimmed(Sdch) /\ RightTrim(Sdch) = Sdch
<1> DEFINE t == ", sdch"
<1>1. t \in Token /\ IsText(t)
  BY Zenon DEF Token, IsText
<1> HIDE DEF t
<1> DEFINE w == <<t>>
<1>2. w \in Text /\ Len(w) = 1 /\ w[1] = t
  BY <1>1 DEF Text
<1> HIDE DEF w
<1>3. LeftTrimmed(w)
  BY <1>1, <1>2 DEF LeftTrimmed
<1>4. RightTrim(w) = w
  <2>1. 1 \in 0 .. Len(w) /\ Len(w) \in Nat /\ \A j \in 1 + 1 .. Len(w) : ~IsText(w[j])
    BY <1>2
  <2>2. 1 > 0 => IsText(w[1])
    BY <1>1, <1>2
  <2>3. RightTrim(w) = SubSeq(w, 1, 1)
    BY <2>1, <2>2, RightTrimIs
  <2>4. SubSeq(w, 1, Len(w)) = w
    BY <1>2, SubSeqFull DEF Text
  <2>5. QED
    BY <1>2, <2>3, <2>4
<1>5. QED
  BY <1>2, <1>3, <1>4, Zenon DEF w, t, Sdch

LEMMA FieldIs ==
    ASSUME NEW f, Parsed(f), NEW n
    PROVE  /\ get_field(f, n) \in Text /\ LeftTrimmed(get_field(f, n))
           /\ get_field(f, n) # <<>> => n \in DOMAIN f /\ get_field(f, n) = f[n]
BY DEF Parsed, get_field, Text, LeftTrimmed

LEMMA SetFieldParsed ==
    ASSUME NEW f, Parsed(f), NEW n \in DOMAIN LowerCase, LowerCase[n] = n,
           NEW v \in Text, LeftTrimmed(v)
    PROVE  Parsed(set_field(f, n, v))
<1> DEFINE g == set_field(f, n, v)
<1>1. DOMAIN g = {n} \cup DOMAIN f
  BY DEF set_field
<1>2. \A m \in {n} \cup DOMAIN f : g[m] = IF m = n THEN v ELSE f[m]
  BY DEF set_field
<1>3. IsFiniteSet(DOMAIN f \cup {n})
  BY FS_AddElement DEF Parsed
<1>4. g = [m \in DOMAIN g |-> g[m]]
  BY DEF set_field
<1>5. DOMAIN g = DOMAIN f \cup {n}
  BY <1>1
<1>6. \A m \in DOMAIN g : /\ m \in DOMAIN LowerCase /\ LowerCase[m] = m
                          /\ g[m] \in Text /\ LeftTrimmed(g[m])
  <2> HIDE DEF g
  <2>1. QED
    BY <1>1, <1>2 DEF Parsed
<1>7. QED
  BY <1>3, <1>4, <1>5, <1>6, Zenon DEF Parsed

LEMMA PartParsed ==
    ASSUME NEW f, Parsed(f), NEW N \in SUBSET DOMAIN f
    PROVE  Parsed([m \in N |-> f[m]])
<1>1. IsFiniteSet(N)
  BY FS_Subset DEF Parsed
<1>2. QED
  BY <1>1 DEF Parsed

\* What computeNames makes of the fields.
Rewritten(f) == NoProxyConnection(OnlySdch(f))

LEMMA OnlySdchIs ==
    ASSUME NEW f, Parsed(f)
    PROVE  OnlySdch(f) = IF ", sdch" \in Range(get_field(f, "accept-encoding"))
                         THEN set_field(f, "accept-encoding", Sdch) ELSE f
BY Zenon DEF OnlySdch, Sdch

LEMMA OnlySdchParsed ==
    ASSUME NEW f, Parsed(f)
    PROVE  Parsed(OnlySdch(f))
<1> DEFINE n == "accept-encoding"
<1>1. ", sdch" \in Range(get_field(f, n)) => n \in DOMAIN f
  <2>1. n \notin DOMAIN f => get_field(f, n) = <<>>
    BY Zenon DEF get_field
  <2>2. Range(<<>>) = {}
    BY DEF Range
  <2>3. QED
    BY <2>1, <2>2, Zenon
<1>2. n \in DOMAIN f => n \in DOMAIN LowerCase /\ LowerCase[n] = n
  BY Zenon DEF Parsed
<1>3. n \in DOMAIN f => Parsed(set_field(f, n, Sdch))
  BY <1>2, SdchIs, SetFieldParsed
<1>4. QED
  BY <1>1, <1>3, OnlySdchIs, Zenon

LEMMA NoProxyConnectionIs ==
    ASSUME NEW f, Parsed(f)
    PROVE  /\ Parsed(NoProxyConnection(f))
           /\ NoProxyConnection(f) =
                 IF get_field(f, "proxy-connection") # <<>>
                 THEN unset_field(set_field(f, "connection", get_field(f, "proxy-connection")),
                                  "proxy-connection")
                 ELSE f
<1> DEFINE p == "proxy-connection"
           c == "connection"
           v == get_field(f, p)
           g == set_field(f, c, v)
<1>1. v # <<>> => v = f[p]
  BY FieldIs, Zenon
<1>2. NoProxyConnection(f) = IF v # <<>> THEN unset_field(g, p) ELSE f
  <2>1. CASE v # <<>>
    BY <1>1, <2>1, Zenon DEF NoProxyConnection
  <2>2. CASE v = <<>>
    BY <2>2, Zenon DEF NoProxyConnection
  <2>3. QED
    BY <2>1, <2>2
<1>3. Parsed(g)
  <2>1. c \in DOMAIN LowerCase /\ LowerCase[c] = c
    BY TextAssumption, Zenon DEF TextAssumption
  <2>2. v \in Text /\ LeftTrimmed(v)
    BY FieldIs
  <2> HIDE DEF c, v
  <2>3. QED
    BY <2>1, <2>2, SetFieldParsed
<1>4. Parsed(unset_field(g, p))
  <2>1. DOMAIN g \ {p} \in SUBSET DOMAIN g
    OBVIOUS
  <2> HIDE DEF g
  <2>2. Parsed([m \in DOMAIN g \ {p} |-> g[m]])
    BY <1>3, <2>1, PartParsed
  <2>3. QED
    BY <2>2, Zenon DEF unset_field
<1>5. QED
  BY <1>2, <1>4, Zenon

LEMMA RewrittenParsed ==
    ASSUME NEW f, Parsed(f)
    PROVE  Parsed(Rewritten(f))
BY OnlySdchParsed, NoProxyConnectionIs, Zenon DEF Rewritten

---------------------------------------------------------------------------
(***************************************************************************)
(* It makes no difference whether the blanks after values go before or     *)
(* after.                                                                  *)
(***************************************************************************)
LEMMA NoTrailingParsed ==
    ASSUME NEW f, Parsed(f)
    PROVE  Parsed(NoTrailing(f)) /\ NoTrailing(NoTrailing(f)) = NoTrailing(f)
<1> DEFINE g == NoTrailing(f)
<1>1. g = [n \in DOMAIN f |-> RightTrim(f[n])] /\ DOMAIN g = DOMAIN f
  BY Zenon DEF NoTrailing
<1> HIDE DEF g
<1>2. \A n \in DOMAIN f : /\ RightTrim(f[n]) \in Text /\ LeftTrimmed(RightTrim(f[n]))
                          /\ RightTrim(RightTrim(f[n])) = RightTrim(f[n])
  BY TrimsCommute, RightTrimKeeps DEF Parsed
<1>3. Parsed(g)
  BY <1>1, <1>2 DEF Parsed
<1>4. NoTrailing(g) = g
  BY <1>1, <1>2, Zenon DEF NoTrailing
<1>5. QED
  BY <1>3, <1>4 DEF g

\* Fields as getHttpResponseHeader reads them of what was written of others.
LEMMA TrimmedParsed ==
    ASSUME NEW f, Parsed(f)
    PROVE  LET g == TrimmedFields(FieldLines(f)) IN
           /\ Parsed(g) /\ NoTrailing(g) = g
           /\ DOMAIN g = {TrimName[n] : n \in DOMAIN f}
           /\ \A a \in DOMAIN g : \E n \in DOMAIN f : TrimName[n] = a /\ g[a] = NoTrailing(f)[n]
<1> DEFINE g == TrimmedFields(FieldLines(f))
           h == FieldsNamed(TrimmedName, FieldLines(f))
<1>1. \A n \in DOMAIN f :
         /\ n \in DOMAIN LowerCase /\ TrimmedName[n] = TrimName[n]
         /\ TrimName[n] \in DOMAIN LowerCase /\ LowerCase[TrimName[n]] = TrimName[n]
  <2>1. TAKE n \in DOMAIN f
  <2>2. n \in DOMAIN LowerCase /\ LowerCase[n] = n
    BY DEF Parsed
  <2>3. TrimmedName[n] = TrimName[LowerCase[n]]
    BY <2>2, Zenon DEF TrimmedName
  <2>4. TrimName[n] \in DOMAIN LowerCase /\ LowerCase[TrimName[n]] = TrimName[LowerCase[n]]
    BY <2>2, TextAssumption DEF TextAssumption
  <2>5. QED
    BY <2>2, <2>3, <2>4, Zenon
<1>2. {TrimmedName[n] : n \in DOMAIN f} = {TrimName[n] : n \in DOMAIN f}
  BY <1>1, Zenon
<1>3. /\ DOMAIN h = {TrimName[n] : n \in DOMAIN f}
      /\ \A a \in DOMAIN h : \E n \in DOMAIN f : TrimName[n] = a /\ h[a] = f[n]
  <2>1. /\ DOMAIN h = {TrimmedName[n] : n \in DOMAIN f}
        /\ \A a \in DOMAIN h : \E n \in DOMAIN f : TrimmedName[n] = a /\ h[a] = f[n]
        /\ h = [a \in {TrimmedName[n] : n \in DOMAIN f} |-> h[a]]
    BY ReadAgain, Zenon
  <2> HIDE DEF h
  <2>2. ASSUME NEW a \in DOMAIN h
        PROVE  \E n \in DOMAIN f : TrimName[n] = a /\ h[a] = f[n]
    <3>1. PICK n \in DOMAIN f : TrimmedName[n] = a /\ h[a] = f[n]
      BY <2>1, Zenon
    <3>2. TrimName[n] = a
      BY <1>1, <3>1, Zenon
    <3>3. QED
      BY <3>1, <3>2, Zenon
  <2>3. QED
    BY <1>2, <2>1, <2>2, Zenon
<1>4. g = [a \in DOMAIN h |-> RightTrim(h[a])]
  BY Zenon DEF TrimmedFields
<1> HIDE DEF g, h
<1>5. DOMAIN g = DOMAIN h /\ \A a \in DOMAIN g : g[a] = RightTrim(h[a])
  BY <1>4
<1>6. \A n \in DOMAIN f : /\ RightTrim(f[n]) \in Text /\ LeftTrimmed(RightTrim(f[n]))
                          /\ RightTrim(RightTrim(f[n])) = RightTrim(f[n])
                          /\ NoTrailing(f)[n] = RightTrim(f[n])
  BY TrimsCommute, RightTrimKeeps DEF Parsed, NoTrailing
<1>7. \A a \in DOMAIN g : \E n \in DOMAIN f : TrimName[n] = a /\ g[a] = RightTrim(f[n])
  BY <1>3, <1>5, Zenon
<1>8. IsFiniteSet(DOMAIN g)
  <2> DEFINE t == [n \in DOMAIN f |-> TrimName[n]]
  <2>1. t \in Surjection(DOMAIN f, {TrimName[n] : n \in DOMAIN f})
    BY Zenon DEF Surjection
  <2> HIDE DEF t
  <2>2. IsFiniteSet(DOMAIN f)
    BY DEF Parsed
  <2>3. QED
    BY <1>3, <1>5, <2>1, <2>2, FS_Surjection
<1>9. ASSUME NEW a \in DOMAIN g
      PROVE  /\ a \in DOMAIN LowerCase /\ LowerCase[a] = a
             /\ g[a] \in Text /\ LeftTrimmed(g[a]) /\ RightTrim(g[a]) = g[a]
  <2>1. PICK n \in DOMAIN f : TrimName[n] = a /\ g[a] = RightTrim(f[n])
    BY <1>7, Zenon
  <2>2. QED
    BY <1>1, <1>6, <2>1, Zenon
<1>10. g = [a \in DOMAIN g |-> g[a]]
  BY <1>4, Zenon
<1>11. Parsed(g)
  BY <1>8, <1>9, <1>10, Zenon DEF Parsed
<1>12. NoTrailing(g) = g
  BY <1>9, <1>10, Zenon DEF NoTrailing
<1>13. \A a \in DOMAIN g : \E n \in DOMAIN f : TrimName[n] = a /\ g[a] = NoTrailing(f)[n]
  <2>1. TAKE a \in DOMAIN g
  <2>2. PICK n \in DOMAIN f : TrimName[n] = a /\ g[a] = RightTrim(f[n])
    BY <1>7, Zenon
  <2>3. NoTrailing(f)[n] = RightTrim(f[n])
    BY <1>6, <2>2, Zenon
  <2>4. QED
    BY <2>2, <2>3, Zenon
<1>14. QED
  BY <1>3, <1>5, <1>11, <1>12, <1>13, Zenon DEF g

LEMMA FieldNoTrailing ==
    ASSUME NEW f, Parsed(f), NEW n
    PROVE  /\ get_field(NoTrailing(f), n) = RightTrim(get_field(f, n))
           /\ get_field(NoTrailing(f), n) = <<>> <=> get_field(f, n) = <<>>
           /\ \A t : IsText(t) =>
                 (t \in Range(get_field(NoTrailing(f), n)) <=> t \in Range(get_field(f, n)))
<1>1. get_field(f, n) \in Text /\ LeftTrimmed(get_field(f, n))
  BY FieldIs
<1>2. get_field(NoTrailing(f), n) = RightTrim(get_field(f, n))
  <2>1. DOMAIN NoTrailing(f) = DOMAIN f
    BY Zenon DEF NoTrailing
  <2>2. CASE n \in DOMAIN f
    BY <2>1, <2>2, Zenon DEF NoTrailing, get_field
  <2>3. CASE n \notin DOMAIN f
    <3>1. <<>> \in Text /\ LeftTrimmed(<<>>)
      BY DEF Text, LeftTrimmed
    <3>2. RightTrim(<<>>) = <<>>
      BY <3>1, RightTrimKeeps
    <3>3. QED
      BY <2>1, <2>3, <3>2, Zenon DEF get_field
  <2>4. QED
    BY <2>2, <2>3
<1>3. QED
  BY <1>1, <1>2, RightTrimKeeps

LEMMA NoTrailingSetField ==
    ASSUME NEW f, NEW n, NEW v
    PROVE  NoTrailing(set_field(f, n, v)) = set_field(NoTrailing(f), n, RightTrim(v))
<1> DEFINE D == {n} \cup DOMAIN f
<1>1. NoTrailing(set_field(f, n, v)) =
         [m \in D |-> RightTrim(IF m = n THEN v ELSE f[m])]
  <2> DEFINE s == set_field(f, n, v)
  <2>1. DOMAIN s = D /\ \A m \in D : s[m] = IF m = n THEN v ELSE f[m]
    BY DEF set_field
  <2> HIDE DEF s
  <2>2. NoTrailing(s) = [m \in D |-> RightTrim(s[m])]
    BY <2>1, Zenon DEF NoTrailing
  <2>3. QED
    BY <2>1, <2>2, Zenon DEF s
<1>2. set_field(NoTrailing(f), n, RightTrim(v)) =
         [m \in D |-> IF m = n THEN RightTrim(v) ELSE NoTrailing(f)[m]]
  BY Zenon DEF set_field, NoTrailing
<1>3. \A m \in D : RightTrim(IF m = n THEN v ELSE f[m]) =
                   IF m = n THEN RightTrim(v) ELSE NoTrailing(f)[m]
  <2>1. TAKE m \in D
  <2>2. CASE m = n
    BY <2>2, Zenon
  <2>3. CASE m # n
    <3>1. NoTrailing(f)[m] = RightTrim(f[m])
      BY <2>1, <2>3, Zenon DEF NoTrailing
    <3>2. QED
      BY <2>3, <3>1, Zenon
  <2>4. QED
    BY <2>2, <2>3
<1>4. QED
  BY <1>1, <1>2, <1>3, Zenon

LEMMA NoTrailingUnsetField ==
    ASSUME NEW f, NEW n
    PROVE  NoTrailing(unset_field(f, n)) = unset_field(NoTrailing(f), n)
<1> DEFINE D == DOMAIN f \ {n}
<1>1. NoTrailing(unset_field(f, n)) = [m \in D |-> RightTrim(f[m])]
  BY DEF NoTrailing, unset_field
<1>2. unset_field(NoTrailing(f), n) = [m \in D |-> RightTrim(f[m])]
  BY DEF NoTrailing, unset_field
<1>3. QED
  BY <1>1, <1>2

LEMMA RewrittenNoTrailing ==
    ASSUME NEW f, Parsed(f)
    PROVE  NoTrailing(Rewritten(f)) = Rewritten(NoTrailing(f))
<1> DEFINE t == ", sdch"
           a == "accept-encoding"
           p == "proxy-connection"
           c == "connection"
           o == OnlySdch(f)
<1>1. NoTrailing(OnlySdch(f)) = OnlySdch(NoTrailing(f))
  <2>1. t \in Range(get_field(NoTrailing(f), a)) <=> t \in Range(get_field(f, a))
    <3>1. IsText(t)
      BY Zenon DEF IsText
    <3>2. QED
      BY <3>1, FieldNoTrailing, Zenon
  <2>2. NoTrailing(set_field(f, a, Sdch)) = set_field(NoTrailing(f), a, Sdch)
    <3>1. NoTrailing(set_field(f, a, Sdch)) = set_field(NoTrailing(f), a, RightTrim(Sdch))
      BY NoTrailingSetField
    <3>2. QED
      BY <3>1, SdchIs, Zenon
  <2>3. CASE t \in Range(get_field(f, a))
    BY <2>1, <2>2, <2>3, OnlySdchIs, NoTrailingParsed, Zenon
  <2>4. CASE t \notin Range(get_field(f, a))
    BY <2>1, <2>4, OnlySdchIs, NoTrailingParsed, Zenon
  <2>5. QED
    BY <2>3, <2>4
<1>2. Parsed(o) /\ Parsed(NoTrailing(o))
  BY OnlySdchParsed, NoTrailingParsed
<1>3. NoTrailing(NoProxyConnection(o)) = NoProxyConnection(NoTrailing(o))
  <2> HIDE DEF o
  <2> DEFINE v == get_field(o, p)
             w == get_field(NoTrailing(o), p)
  <2>1. w = RightTrim(v) /\ (w = <<>> <=> v = <<>>)
    BY <1>2, FieldNoTrailing
  <2>2. NoProxyConnection(o) = IF v # <<>> THEN unset_field(set_field(o, c, v), p) ELSE o
    BY <1>2, NoProxyConnectionIs
  <2>3. NoProxyConnection(NoTrailing(o)) =
           IF w # <<>> THEN unset_field(set_field(NoTrailing(o), c, w), p) ELSE NoTrailing(o)
    BY <1>2, NoProxyConnectionIs
  <2> HIDE DEF v, w, c, p
  <2>4. NoTrailing(unset_field(set_field(o, c, v), p)) =
           unset_field(set_field(NoTrailing(o), c, RightTrim(v)), p)
    <3>1. NoTrailing(set_field(o, c, v)) = set_field(NoTrailing(o), c, RightTrim(v))
      BY NoTrailingSetField
    <3>2. NoTrailing(unset_field(set_field(o, c, v), p)) =
             unset_field(NoTrailing(set_field(o, c, v)), p)
      BY NoTrailingUnsetField
    <3>3. QED
      BY <3>1, <3>2, Zenon
  <2>5. CASE v = <<>>
    BY <2>1, <2>2, <2>3, <2>5, Zenon
  <2>6. CASE v # <<>>
    BY <2>1, <2>2, <2>3, <2>4, <2>6, Zenon
  <2>7. QED
    BY <2>5, <2>6
<1>4. QED
  BY <1>1, <1>3, Zenon DEF Rewritten

---------------------------------------------------------------------------
(***************************************************************************)
(* How long a response stays fresh.                                        *)
(***************************************************************************)
LEMMA Division ==
    ASSUME NEW n \in Int, NEW d \in Nat, d > 0
    PROVE  n % d \in 0 .. d - 1 /\ (n >= 0 => n % d <= n)
OBVIOUS

\* A number is cut to the width of long; none that is not too small gets larger.
LEMMA LongIs ==
    ASSUME NEW n \in Int
    PROVE  Long(n) \in -Half .. Half - 1 /\ (n >= -Half => Long(n) <= n)
<1>1. Half \in Nat /\ Half > 0
  BY MessagesAssumption
<1>2. n + Half \in Int /\ 2 * Half \in Nat /\ 2 * Half > 0 /\ (n >= -Half => n + Half >= 0)
  BY <1>1
<1>3. /\ (n + Half) % (2 * Half) \in 0 .. 2 * Half - 1
      /\ n + Half >= 0 => (n + Half) % (2 * Half) <= n + Half
  BY <1>2, Division
<1> DEFINE m == (n + Half) % (2 * Half)
<1>4. Long(n) = m - Half
  BY DEF Long
<1> HIDE DEF m
<1>5. m \in Int /\ 0 <= m /\ m <= 2 * Half - 1 /\ (n + Half >= 0 => m <= n + Half)
  BY <1>1, <1>3 DEF m
<1>6. QED
  BY <1>1, <1>2, <1>4, <1>5

\* The directive d of this value allows n ms.
Allowed(control, d, n) ==
    \E i, j \in DOMAIN control :
        /\ i < j /\ control[i] = d /\ control[j] \in DOMAIN Stol
        /\ n <= 1000 * Stol[control[j]] \/ 1000 * Stol[control[j]] < -Half

\* What is read as the age of a directive comes after it.
LEMMA AgeIsAllowed ==
    ASSUME NEW control \in Text, NEW d \in Range(control), d \in {"s-maxage", "max-age"}
    PROVE  /\ AgeAfter(control, d) \in -Half .. Half - 1
           /\ AgeAfter(control, d) > 0 => Allowed(control, d, AgeAfter(control, d))
<1> DEFINE sub == From(control, First(control, d))
           age == LeftTrim(From(sub, First(sub, "=") + 1))
           n == AgeAfter(control, d)
<1>1. n = IF age # <<>> /\ age[1] \in DOMAIN Stol THEN Long(1000 * Stol[age[1]]) ELSE 0
  BY Zenon DEF AgeAfter
<1>2. Len(control) \in Nat /\ DOMAIN control = 1 .. Len(control)
  BY TextIs
<1>3. PICK i : i = First(control, d) /\ i \in 1 .. Len(control) /\ control[i] = d
  <2>1. /\ First(control, d) \in 0 .. Len(control)
        /\ First(control, d) > 0 => control[First(control, d)] = d
        /\ First(control, d) = 0 => \A j \in 1 .. Len(control) : control[j] # d
    BY <1>2, FirstOf
  <2>2. \E j \in 1 .. Len(control) : control[j] = d
    BY <1>2 DEF Range
  <2>3. QED
    BY <1>2, <2>1, <2>2
<1>4. /\ sub \in Text /\ Len(sub) = Len(control) - i + 1
      /\ \A k \in 1 .. Len(control) - i + 1 : sub[k] = control[i + k - 1]
  <2>1. i \in 1 .. Len(control) + 1
    BY <1>2, <1>3
  <2>2. QED
    BY <1>3, <2>1, FromIsText
<1> HIDE DEF sub
<1>5. First(sub, "=") \in 0 .. Len(sub) /\ Len(sub) \in Nat
  <2>1. Len(sub) \in Nat
    BY <1>4, TextIs
  <2>2. QED
    BY <2>1, FirstOf
<1> DEFINE e == First(sub, "=") + 1
           rest == From(sub, e)
<1>6. e \in 1 .. Len(sub) + 1
  BY <1>5
<1> HIDE DEF e
<1>7. /\ rest \in Text /\ Len(rest) = Len(sub) - e + 1
      /\ \A k \in 1 .. Len(sub) - e + 1 : rest[k] = sub[e + k - 1]
  BY <1>4, <1>6, FromIsText
<1>8. age = LeftTrim(rest)
  BY DEF e
<1> HIDE DEF age, rest
<1>9. PICK k \in 0 .. Len(rest) : age = SubSeq(rest, k + 1, Len(rest))
  <2>1. Len(rest) \in Nat
    BY <1>7, TextIs
  <2>2. QED
    BY <1>8, <2>1, LeftTrimOf
<1>10. ASSUME age # <<>>
       PROVE  \E j \in i .. Len(control) : age[1] = control[j]
  <2>1. Len(rest) \in Nat
    BY <1>7, TextIs
  <2>2. k < Len(rest)
    <3>1. k = Len(rest) => age = <<>>
      BY <1>9, <2>1, SubSeqEmpty
    <3>2. QED
      BY <1>10, <2>1, <3>1
  <2>3. age[1] = rest[k + 1]
    <3>1. k + 1 \in 1 .. Len(rest) + 1 /\ 1 \in 1 .. Len(rest) - (k + 1) + 1
      BY <2>1, <2>2
    <3>2. From(rest, k + 1)[1] = rest[k + 1 + 1 - 1]
      BY <1>7, <3>1, FromIsText
    <3>3. k + 1 + 1 - 1 = k + 1
      BY <2>1
    <3>4. QED
      BY <1>9, <3>2, <3>3 DEF From
  <2>4. k + 1 \in 1 .. Len(sub) - e + 1 /\ rest[k + 1] = sub[e + (k + 1) - 1]
    BY <1>7, <2>1, <2>2
  <2> DEFINE m == e + (k + 1) - 1
  <2>5. m \in 1 .. Len(sub)
    BY <1>5, <1>6, <2>4
  <2> HIDE DEF m
  <2>6. m \in 1 .. Len(control) - i + 1 /\ sub[m] = control[i + m - 1]
    BY <1>4, <2>5
  <2>7. i + m - 1 \in i .. Len(control)
    BY <1>2, <1>3, <2>6
  <2>8. QED
    BY <2>3, <2>4, <2>6, <2>7 DEF m
<1>11. 0 \in -Half .. Half - 1
  BY MessagesAssumption
<1>12. CASE ~(age # <<>> /\ age[1] \in DOMAIN Stol)
  <2>1. n = 0
    BY <1>1, <1>12, Zenon
  <2> HIDE DEF n
  <2>2. QED
    BY <1>11, <2>1 DEF n
<1>13. CASE age # <<>> /\ age[1] \in DOMAIN Stol
  <2>1. PICK j \in i .. Len(control) : age[1] = control[j]
    BY <1>10, <1>13
  <2>2. control[j] \in DOMAIN Stol /\ n = Long(1000 * Stol[control[j]])
    <3>1. n = Long(1000 * Stol[age[1]])
      BY <1>1, <1>13, Zenon
    <3> HIDE DEF n
    <3>2. QED
      BY <1>13, <2>1, <3>1
  <2>3. j # i
    BY <1>3, <2>2, NumbersAssumption DEF NumbersAssumption
  <2>4. i < j /\ j \in DOMAIN control /\ i \in DOMAIN control
    BY <1>2, <1>3, <2>1, <2>3
  <2> DEFINE ms == 1000 * Stol[control[j]]
  <2>5. ms \in Int
    BY <2>2, NumbersAssumption DEF NumbersAssumption
  <2> HIDE DEF ms, n
  <2>6. n = Long(ms)
    BY <2>2 DEF ms
  <2>7. n \in -Half .. Half - 1 /\ (ms >= -Half => n <= ms)
    BY <2>5, <2>6, LongIs
  <2>8. n <= ms \/ ms < -Half
    BY <2>5, <2>7, MessagesAssumption
  <2>9. Allowed(control, d, n)
    BY <1>3, <2>2, <2>4, <2>8 DEF Allowed, ms
  <2>10. QED
    BY <2>7, <2>9, Zenon DEF n
<1>14. QED
  BY <1>12, <1>13

\* The freshness is what is wished, if that is not in the past.
LEMMA FreshnessIs ==
    ASSUME NEW f, Parsed(f)
    PROVE  LET control == get_field(f, "cache-control") IN
           /\ Freshness(f) \in 0 .. Half - 1
           /\ Freshness(f) > 0 =>
                 /\ ~Uncacheable(f)
                 /\ "s-maxage" \in Range(control) => Allowed(control, "s-maxage", Freshness(f))
                 /\ "s-maxage" \notin Range(control) /\ "max-age" \in Range(control)
                       => Allowed(control, "max-age", Freshness(f))
<1> DEFINE control == get_field(f, "cache-control")
           given == {i \in DOMAIN AgeDirectives : AgeDirectives[i] \in Range(control)}
           expires == get_field(f, "expires")
           w == Wish(f)
           aged == AgeAfter(control, AgeDirectives[Min(given)])
           until == IF Len(expires) = 1 /\ expires[1] \in DOMAIN Date
                    THEN Date[expires[1]] - Now ELSE 0
<1>0. Half \in Nat /\ Half > 0 /\ Now \in Nat
  BY MessagesAssumption
<1>1. w = IF Uncacheable(f) THEN 0 ELSE IF given # {} THEN aged ELSE until
  BY Zenon DEF Wish
<1>2. control \in Text
  BY FieldIs
<1>3. until \in Int /\ until < Half
  BY <1>0, NumbersAssumption
<1> HIDE DEF until, control
<1>4. "s-maxage" \in Range(control) => given # {} /\ AgeDirectives[Min(given)] = "s-maxage"
  <2>1. SUFFICES ASSUME "s-maxage" \in Range(control)
                 PROVE  given # {} /\ AgeDirectives[Min(given)] = "s-maxage"
    OBVIOUS
  <2>2. 1 \in given /\ given \in SUBSET Nat
    BY <2>1 DEF AgeDirectives
  <2>3. \A y \in given : y \in {1, 2}
    BY DEF AgeDirectives
  <2> HIDE DEF given
  <2>4. Min(given) \in given /\ Min(given) <= 1
    BY <2>2, MinOf
  <2>5. Min(given) = 1
    BY <2>3, <2>4
  <2>6. QED
    BY <2>2, <2>5 DEF AgeDirectives
<1>5. "s-maxage" \notin Range(control) /\ "max-age" \in Range(control) =>
         given # {} /\ AgeDirectives[Min(given)] = "max-age"
  <2>1. SUFFICES ASSUME "s-maxage" \notin Range(control), "max-age" \in Range(control)
                 PROVE  given # {} /\ AgeDirectives[Min(given)] = "max-age"
    OBVIOUS
  <2>2. 2 \in given /\ given \in SUBSET Nat /\ 1 \notin given
    BY <2>1 DEF AgeDirectives
  <2>3. \A y \in given : y \in {1, 2}
    BY DEF AgeDirectives
  <2> HIDE DEF given
  <2>4. Min(given) \in given
    BY <2>2, MinOf
  <2>5. Min(given) = 2
    BY <2>2, <2>3, <2>4
  <2>6. QED
    BY <2>2, <2>5 DEF AgeDirectives
<1>6. given # {} => \/ "s-maxage" \in Range(control)
                    \/ "s-maxage" \notin Range(control) /\ "max-age" \in Range(control)
  <2>1. \A i \in given : AgeDirectives[i] \in {"s-maxage", "max-age"}
    BY DEF AgeDirectives
  <2>2. \A i \in given : AgeDirectives[i] \in Range(control)
    OBVIOUS
  <2> HIDE DEF given
  <2>3. QED
    BY <2>1, <2>2
<1> HIDE DEF given
<1>7. \A d \in {"s-maxage", "max-age"} : d \in Range(control) =>
         /\ AgeAfter(control, d) \in -Half .. Half - 1
         /\ AgeAfter(control, d) > 0 => Allowed(control, d, AgeAfter(control, d))
  BY <1>2, AgeIsAllowed
<1>8. given # {} => aged \in -Half .. Half - 1
  BY <1>4, <1>5, <1>6, <1>7
<1>9. w \in Int /\ w < Half
  <2>1. given # {} => aged \in Int /\ aged < Half
    BY <1>0, <1>8
  <2> HIDE DEF aged
  <2>2. QED
    BY <1>0, <1>1, <1>3, <2>1
<1> HIDE DEF w, aged
<1>10. Freshness(f) = IF w < 0 THEN 0 ELSE w
  BY Zenon DEF Freshness, w
<1>11. Freshness(f) \in 0 .. Half - 1
  BY <1>0, <1>9, <1>10
<1>12. ASSUME Freshness(f) > 0
       PROVE  /\ ~Uncacheable(f)
              /\ "s-maxage" \in Range(control) => Allowed(control, "s-maxage", Freshness(f))
              /\ "s-maxage" \notin Range(control) /\ "max-age" \in Range(control)
                    => Allowed(control, "max-age", Freshness(f))
  <2>1. Freshness(f) = w /\ w > 0
    BY <1>0, <1>9, <1>10, <1>12
  <2>2. ~Uncacheable(f)
    <3>1. Uncacheable(f) => w = 0
      BY <1>1, Zenon
    <3>2. QED
      BY <2>1, <3>1
  <2>3. given # {} => w = aged
    BY <1>1, <2>2, Zenon
  <2>4. "s-maxage" \in Range(control) => aged = AgeAfter(control, "s-maxage")
    BY <1>4, Zenon DEF aged
  <2>5. "s-maxage" \notin Range(control) /\ "max-age" \in Range(control)
           => aged = AgeAfter(control, "max-age")
    BY <1>5, Zenon DEF aged
  <2>6. "s-maxage" \in Range(control) => Allowed(control, "s-maxage", w)
    BY <1>4, <1>7, <2>1, <2>3, <2>4
  <2>7. "s-maxage" \notin Range(control) /\ "max-age" \in Range(control)
           => Allowed(control, "max-age", w)
    BY <1>5, <1>7, <2>1, <2>3, <2>5
  <2>8. QED
    BY <2>1, <2>2, <2>6, <2>7, Zenon
<1>13. QED
  BY <1>11, <1>12, Zenon DEF control

---------------------------------------------------------------------------
(***************************************************************************)
(* A request on its way.                                                   *)
(***************************************************************************)
EndOf(part) == IF part = <<>> THEN 0 ELSE IngressPathEnd(part)
PathOf(url) == SubSeq(PathPart(url), 1, EndOf(PathPart(url)))
QueryOf(url) == From(PathPart(url), EndOf(PathPart(url)) + 1)

\* A request that an ingress session read, with these fields.
RequestWith(first, fields) ==
    [method |-> first.method, path |-> PathOf(first.url), query |-> QueryOf(first.url),
     extension |-> ExtensionOf(PathOf(first.url)), version |-> first.version,
     fields |-> fields]

\* What computeNames makes of it.
RequestOf(first, lines) == RequestWith(first, Rewritten(FieldsOf(lines)))

Fewer(fields) == [n \in DOMAIN fields \ ClientFields |-> fields[n]]

LEMMA LinesWellFormed ==
    ASSUME NEW lines \in RequestLines \cup ResponseLines
    PROVE  WellFormed(lines)
<1>1. lines \in Seq(HeaderLine)
  BY TextAssumption DEF TextAssumption
<1>2. \A i \in DOMAIN lines : lines[i] = NoColon \/ lines[i].name \in DOMAIN LowerCase
  BY TextAssumption, Zenon DEF TextAssumption
<1>3. Len(lines) \in Nat /\ DOMAIN lines = 1 .. Len(lines)
  BY <1>1
<1>4. \A i \in 1 .. Len(lines) : lines[i].value \in Text
  <2>1. TAKE i \in 1 .. Len(lines)
  <2>2. lines[i] \in HeaderLine
    BY <1>1
  <2>3. lines[i].value \in Seq(STRING)
    BY <2>2 DEF HeaderLine
  <2>4. STRING \subseteq Token
    BY Zenon DEF Token
  <2> HIDE DEF Token
  <2>5. lines[i].value \in Seq(Token)
    BY <2>3, <2>4, SeqMonotonic
  <2>6. QED
    BY <2>5 DEF Text
<1>5. QED
  BY <1>2, <1>3, <1>4, Zenon DEF WellFormed

LEMMA UrlIs ==
    ASSUME NEW first \in FirstLine
    PROVE  PathPart(first.url) \in Text /\
           (PathPart(first.url) # <<>> => PathPart(first.url)[1] = "/")
<1>1. first.url \in Seq(STRING)
  BY TextAssumption DEF TextAssumption
<1>2. STRING \subseteq Token
  BY Zenon DEF Token
<1>3. first.url \in Text
  BY <1>1, <1>2, SeqMonotonic DEF Text
<1>4. QED
  BY <1>3, PathPartIs

\* Path and query are the URL without scheme and authority, and a path is there
\* when that is.
LEMMA PathAndQuery ==
    ASSUME NEW first \in FirstLine
    PROVE  /\ PathOf(first.url) \o QueryOf(first.url) = PathPart(first.url)
           /\ PathOf(first.url) # <<>> => PathPart(first.url) # <<>>
<1> DEFINE part == PathPart(first.url)
<1>1. part \in Text
  BY UrlIs
<1> HIDE DEF part
<1>2. EndOf(part) \in 0 .. Len(part)
  <2>1. CASE part = <<>>
    BY <2>1 DEF EndOf
  <2>2. CASE part # <<>>
    <3>1. IngressPathEnd(part) \in 1 .. Len(part)
      BY <1>1, <2>2, IngressEndsInside
    <3>2. QED
      BY <2>2, <3>1 DEF EndOf
  <2>3. QED
    BY <2>1, <2>2
<1>3. SubSeq(part, 1, EndOf(part)) \o From(part, EndOf(part) + 1) = part
  BY <1>1, <1>2, SplitText
<1>4. part = <<>> => SubSeq(part, 1, EndOf(part)) = <<>>
  <2>1. SubSeq(part, 1, 0) = <<>>
    BY SubSeqEmpty
  <2>2. QED
    BY <2>1 DEF EndOf
<1>5. QED
  BY <1>3, <1>4, Zenon DEF PathOf, QueryOf, part

LEMMA ReadRequestIs ==
    ASSUME NEW first, NEW lines
    PROVE  /\ ReadRequest(first, lines) = RequestWith(first, FieldsOf(lines))
           /\ Normalised(ReadRequest(first, lines)) = RequestOf(first, lines)
<1>1. ReadRequest(first, lines) = RequestWith(first, FieldsOf(lines))
  BY Zenon DEF ReadRequest, RequestWith, PathOf, QueryOf, EndOf
<1>2. Normalised(RequestWith(first, FieldsOf(lines))) = RequestOf(first, lines)
  BY DEF Normalised, RequestOf, RequestWith, Rewritten
<1>3. QED
  BY <1>1, <1>2

\* The header that is made of a request has its URL again.
LEMMA HeaderIs ==
    ASSUME NEW first \in FirstLine, NEW fields
    PROVE  make_request_header(RequestWith(first, fields)) =
              [first |-> [method |-> first.method, url |-> PathPart(first.url),
                          version |-> first.version],
               lines |-> FieldLines(fields)]
<1> DEFINE r == RequestWith(first, fields)
<1>1. /\ r.method = first.method /\ r.version = first.version /\ r.fields = fields
      /\ r.path = PathOf(first.url) /\ r.query = QueryOf(first.url)
  BY Zenon DEF RequestWith
<1> HIDE DEF r
<1>2. r.path \o r.query = PathPart(first.url)
  BY <1>1, PathAndQuery
<1>3. QED
  BY <1>1, <1>2, Zenon DEF make_request_header, r

\* The producing program reads this header as the request it was made of, but for
\* the place where the path ends.
LEMMA ParseRequestIs ==
    ASSUME NEW first \in FirstLine, NEW fields, Parsed(fields)
    PROVE  LET s == ParseRequest(make_request_header(RequestWith(first, fields)))
               part == PathPart(first.url)
           IN /\ s.method = first.method /\ s.version = first.version /\ s.fields = fields
              /\ s.path = SubSeq(part, 1, EgressPathEnd(part))
              /\ part # <<>> => s.path \o s.query = part
<1> DEFINE h == make_request_header(RequestWith(first, fields))
           s == ParseRequest(h)
           part == PathPart(first.url)
           e == EgressPathEnd(part)
<1>1. /\ h.first.method = first.method /\ h.first.version = first.version
      /\ h.first.url = part /\ h.lines = FieldLines(fields)
  <2>1. h = [first |-> [method |-> first.method, url |-> part, version |-> first.version],
             lines |-> FieldLines(fields)]
    BY HeaderIs
  <2> HIDE DEF h, part
  <2>2. QED
    BY <2>1, Zenon
<1> HIDE DEF h
<1>2. /\ s.method = h.first.method /\ s.version = h.first.version
      /\ s.fields = FieldsOf(h.lines)
      /\ s.path = SubSeq(h.first.url, 1, EgressPathEnd(h.first.url))
      /\ s.query = From(h.first.url, EgressPathEnd(h.first.url) + 1)
  BY Zenon DEF ParseRequest
<1> HIDE DEF s
<1>3. /\ s.method = first.method /\ s.version = first.version
      /\ s.fields = FieldsOf(FieldLines(fields))
      /\ s.path = SubSeq(part, 1, e) /\ s.query = From(part, e + 1)
  <2> HIDE DEF part
  <2>1. QED
    BY <1>1, <1>2, Zenon
<1>4. s.fields = fields
  BY <1>3, RoundTrip
<1>5. part # <<>> => s.path \o s.query = part
  <2>1. part \in Text
    BY UrlIs
  <2>2. part # <<>> => e \in 0 .. Len(part)
    <3> HIDE DEF part
    <3>1. part # <<>> => e \in 1 .. Len(part)
      BY <2>1, EgressEnd
    <3>2. QED
      BY <3>1
  <2>3. part # <<>> => SubSeq(part, 1, e) \o From(part, e + 1) = part
    BY <2>1, <2>2, SplitText
  <2>4. QED
    BY <1>3, <2>3, Zenon
<1>6. QED
  BY <1>3, <1>4, <1>5, Zenon DEF s, h

\* Both gateways name a request alike, but for one with a query right after a slash.
LEMMA NamesMatch ==
    ASSUME NEW first \in FirstLine, NEW fields, Parsed(fields),
           PathOf(first.url) # <<>>, ~SlashQuery(PathPart(first.url))
    PROVE  NameOf(ParseRequest(make_request_header(RequestWith(first, fields)))) =
              NameOf(RequestWith(first, fields))
<1> DEFINE s == ParseRequest(make_request_header(RequestWith(first, fields)))
           r == RequestWith(first, fields)
           part == PathPart(first.url)
<1>1. s.fields = fields /\ s.path = SubSeq(part, 1, EgressPathEnd(part))
  BY ParseRequestIs
<1>2. part \in Text /\ part # <<>> /\ part[1] = "/"
  BY UrlIs, PathAndQuery
<1>3. r.fields = fields /\ r.path = SubSeq(part, 1, EndOf(part))
  BY Zenon DEF RequestWith, PathOf
<1> HIDE DEF s, r
<1>4. EndOf(part) = EgressPathEnd(part)
  <2>1. ~SlashQuery(part)
    OBVIOUS
  <2> HIDE DEF part
  <2>2. IngressPathEnd(part) = EgressPathEnd(part)
    BY <1>2, <2>1, EndsAgree
  <2>3. QED
    BY <1>2, <2>2 DEF EndOf
<1>5. s.fields = r.fields /\ s.path = r.path
  BY <1>1, <1>3, <1>4, Zenon
<1>6. NameOf(s) = NameOf(r)
  BY <1>5, Zenon DEF NameOf
<1>7. QED
  BY <1>6 DEF s, r

\* Requests of one digest differ in nothing but the fields left out for static files
\* and the rest of the body.
LEMMA SameDigest ==
    ASSUME NEW first \in FirstLine, NEW fields, Parsed(fields), NEW body,
           NEW first2 \in FirstLine, NEW fields2, Parsed(fields2), NEW body2,
           Digest(RequestWith(first2, fields2), body2) = Digest(RequestWith(first, fields), body)
    PROVE  LET r == RequestWith(first, fields)
               o == RequestWith(first2, fields2)
           IN /\ WithoutClientFields(o) = WithoutClientFields(r)
              /\ r.extension \notin StaticExtensions => o = r
              /\ FirstBlock(body2) = FirstBlock(body)
<1> DEFINE static(f) == ExtensionOf(PathOf(f.url)) \in StaticExtensions
           left(f, g) == IF static(f) THEN Fewer(g) ELSE g
<1>1. \A f, g : WithoutClientFields(RequestWith(f, g)) = RequestWith(f, Fewer(g))
  BY DEF WithoutClientFields, RequestWith, Fewer
<1>2. \A f, g : RequestWith(f, g).extension = ExtensionOf(PathOf(f.url))
  BY Zenon DEF RequestWith
<1>3. \A f, g : ForDigest(RequestWith(f, g)) = RequestWith(f, left(f, g))
  <2>1. TAKE f, g
  <2>2. CASE static(f)
    BY <1>1, <1>2, <2>2, Zenon DEF ForDigest
  <2>3. CASE ~static(f)
    BY <1>2, <2>3, Zenon DEF ForDigest
  <2>4. QED
    BY <2>2, <2>3
<1>4. Parsed(Fewer(fields)) /\ Parsed(Fewer(fields2))
  BY PartParsed DEF Fewer
<1>5. Parsed(left(first, fields)) /\ Parsed(left(first2, fields2))
  BY <1>4
<1> HIDE DEF left, static
<1> DEFINE h == make_request_header(RequestWith(first, left(first, fields)))
           h2 == make_request_header(RequestWith(first2, left(first2, fields2)))
<1>6. h2 = h /\ FirstBlock(body2) = FirstBlock(body)
  <2>1. /\ Digest(RequestWith(first, fields), body) = <<h, FirstBlock(body)>>
        /\ Digest(RequestWith(first2, fields2), body2) = <<h2, FirstBlock(body2)>>
    BY <1>3, Zenon DEF Digest
  <2> HIDE DEF h, h2
  <2>2. QED
    BY <2>1
<1>7. /\ h.first.method = first.method /\ h.first.version = first.version
      /\ h.first.url = PathPart(first.url) /\ h.lines = FieldLines(left(first, fields))
  <2>1. h = [first |-> [method |-> first.method, url |-> PathPart(first.url),
                    version |-> first.version],
         lines |-> FieldLines(left(first, fields))]
    BY HeaderIs
  <2> HIDE DEF h
  <2>2. QED
    BY <2>1, Zenon
<1>8. /\ h2.first.method = first2.method /\ h2.first.version = first2.version
      /\ h2.first.url = PathPart(first2.url) /\ h2.lines = FieldLines(left(first2, fields2))
  <2>1. h2 = [first |-> [method |-> first2.method, url |-> PathPart(first2.url),
                    version |-> first2.version],
         lines |-> FieldLines(left(first2, fields2))]
    BY HeaderIs
  <2> HIDE DEF h2
  <2>2. QED
    BY <2>1, Zenon
<1> HIDE DEF h, h2
<1>9. /\ first2.method = first.method /\ first2.version = first.version
      /\ PathPart(first2.url) = PathPart(first.url)
      /\ FieldLines(left(first2, fields2)) = FieldLines(left(first, fields))
  BY <1>6, <1>7, <1>8, Zenon
<1>10. left(first2, fields2) = left(first, fields)
  BY <1>5, <1>9, SameLinesSameFields
<1>11. PathOf(first2.url) = PathOf(first.url) /\ QueryOf(first2.url) = QueryOf(first.url)
  BY <1>9, Zenon DEF PathOf, QueryOf
<1>12. \A g : RequestWith(first2, g) = RequestWith(first, g)
  BY <1>9, <1>11, Zenon DEF RequestWith
<1>13. static(first2) <=> static(first)
  BY <1>11, Zenon DEF static
<1>14. CASE static(first)
  <2>1. Fewer(fields2) = Fewer(fields)
    BY <1>10, <1>13, <1>14, Zenon DEF left
  <2>2. RequestWith(first, fields).extension \in StaticExtensions
    BY <1>2, <1>14, Zenon DEF static
  <2>3. QED
    BY <1>1, <1>6, <1>12, <2>1, <2>2, Zenon
<1>15. CASE ~static(first)
  <2>1. fields2 = fields
    BY <1>10, <1>13, <1>15, Zenon DEF left
  <2>2. QED
    BY <1>6, <1>12, <2>1, Zenon
<1>16. QED
  BY <1>14, <1>15

---------------------------------------------------------------------------
(***************************************************************************)
(* The inductive invariant: what each text was made of.                    *)
(***************************************************************************)
Request == RequestOf(sent.first, sent.lines)
Header == make_request_header(Request)

\* The response on its way, once there is one.
Responding == stage \in {"responded", "published"} \/ (stage = "answered" /\ published # Nothing)

\* What was sent and received are messages of the clients and servers there are.
SentAndReceived ==
    /\ stage # "connected" =>
          sent.first \in FirstLine /\ sent.lines \in RequestLines /\ sent.body \in Body
    /\ Responding => received.lines \in ResponseLines
    /\ published # Nothing => stage \in {"published", "answered"}

\* The request has a path, is named as computeNames left it, and its header goes on.
RequestOnItsWay ==
    /\ stage = "read" => request = ReadRequest(sent.first, sent.lines)
    /\ stage \in {"read", "named", "served"} \/ Responding => PathOf(sent.first.url) # <<>>
    /\ stage \in {"named", "served"} \/ Responding =>
          asked = [name |-> NameOf(Request), digest |-> Digest(Request, sent.body)]
    /\ stage = "named" => content = Header
    /\ stage = "served" \/ Responding => served = ParseRequest(Header)

\* The response is published under the name of the request that was served, and what
\* is published is what the client gets.
ResponseOnItsWay ==
    /\ Responding =>
          /\ response.fields = FieldsOf(received.lines)
          /\ [version |-> response.version, status_code |-> response.status_code,
              reason |-> response.reason] = received.first
    /\ Responding /\ stage # "responded" =>
          published = [name |-> NameOf(served), digest |-> asked.digest,
                       freshness |-> Freshness(response.fields)]
    /\ stage = "published" => content = make_response_header(response)
    /\ stage = "answered" /\ published # Nothing /\ published.name = asked.name =>
          answer = [first |-> received.first,
                    lines |-> FieldLines(TrimmedFields(FieldLines(response.fields)))]

IInv == SentAndReceived /\ RequestOnItsWay /\ ResponseOnItsWay

LEMMA InitInvariant == Init => IInv
BY DEF Init, IInv, SentAndReceived, RequestOnItsWay, ResponseOnItsWay, Responding, Nothing

LEMMA ReadingKeeps ==
    ASSUME IInv, NEW first \in FirstLine, NEW lines \in RequestLines, NEW body \in Body,
           read_request_header_handler(first, lines, body)
    PROVE  IInv'
<1> USE DEF SentAndReceived, RequestOnItsWay, ResponseOnItsWay, IInv
<1>1. /\ stage = "connected" /\ stage' \in {"read", "answered"}
      /\ sent' = [first |-> first, lines |-> lines, body |-> body]
      /\ request' = ReadRequest(first, lines) /\ published' = published
  BY DEF read_request_header_handler
<1>2. sent'.first = first /\ sent'.lines = lines /\ sent'.body = body
  BY <1>1
<1>3. published = Nothing
  BY <1>1
<1>4. ~Responding'
  BY <1>1, <1>3 DEF Responding
<1>5. stage' = "read" => PathOf(first.url) # <<>>
  <2>1. stage' = "read" => has_minimal_requirements(request')
    BY DEF read_request_header_handler
  <2>2. stage' = "read" => request'.path # <<>>
    BY <2>1, Zenon DEF has_minimal_requirements
  <2>3. request'.path = PathOf(first.url)
    <3>1. request' = RequestWith(first, FieldsOf(lines))
      BY <1>1, ReadRequestIs
    <3>2. QED
      BY <3>1, Zenon DEF RequestWith
  <2>4. QED
    BY <2>2, <2>3
<1>6. SentAndReceived'
  BY <1>1, <1>2, <1>3, <1>4
<1>7. RequestOnItsWay'
  BY <1>1, <1>2, <1>4, <1>5
<1>8. ResponseOnItsWay'
  BY <1>1, <1>3, <1>4
<1>9. QED
  BY <1>6, <1>7, <1>8

LEMMA NamingKeeps ==
    ASSUME IInv, computeNames
    PROVE  IInv'
<1> USE DEF SentAndReceived, RequestOnItsWay, ResponseOnItsWay, IInv
<1>1. /\ stage = "read" /\ stage' = "named" /\ UNCHANGED <<sent, received, response, published>>
      /\ content' = make_request_header(Normalised(request))
      /\ asked' = [name |-> NameOf(Normalised(request)),
                   digest |-> Digest(Normalised(request), sent.body)]
  BY Zenon DEF computeNames
<1>2. Normalised(request) = Request
  BY <1>1, ReadRequestIs DEF Request
<1>3. Request' = Request
  BY <1>1 DEF Request
<1>4. published = Nothing /\ ~Responding'
  BY <1>1 DEF Responding
<1>5. SentAndReceived'
  BY <1>1, <1>4
<1>6. RequestOnItsWay'
  <2>1. content' = Header'
    BY <1>1, <1>2, <1>3 DEF Header
  <2>2. asked' = [name |-> NameOf(Request'), digest |-> Digest(Request', sent'.body)]
    BY <1>1, <1>2, <1>3
  <2>3. QED
    BY <1>1, <1>4, <2>1, <2>2
<1>7. ResponseOnItsWay'
  BY <1>1, <1>4
<1>8. QED
  BY <1>5, <1>6, <1>7

LEMMA ServingKeeps ==
    ASSUME IInv, get_http_request_header
    PROVE  IInv'
<1> USE DEF SentAndReceived, RequestOnItsWay, ResponseOnItsWay, IInv
<1>1. /\ stage = "named" /\ stage' \in {"served", "lost"} /\ served' = ParseRequest(content)
      /\ UNCHANGED <<sent, request, asked, received, response, published>>
  BY DEF get_http_request_header
<1>2. Request' = Request /\ Header' = Header
  BY <1>1 DEF Request, Header
<1>3. published = Nothing /\ ~Responding'
  BY <1>1 DEF Responding
<1>4. SentAndReceived'
  BY <1>1, <1>3
<1>5. RequestOnItsWay'
  BY <1>1, <1>2, <1>3
<1>6. ResponseOnItsWay'
  BY <1>1, <1>3
<1>7. QED
  BY <1>4, <1>5, <1>6

LEMMA ResponseReadKeeps ==
    ASSUME IInv, NEW first \in StatusLine, NEW lines \in ResponseLines,
           read_response_header_handler(first, lines)
    PROVE  IInv'
<1> USE DEF SentAndReceived, RequestOnItsWay, ResponseOnItsWay, IInv
<1>1. /\ stage = "served" /\ stage' \in {"responded", "lost"}
      /\ received' = [first |-> first, lines |-> lines]
      /\ response' = [version |-> first.version, status_code |-> first.status_code,
                      reason |-> first.reason, fields |-> FieldsOf(lines)]
      /\ UNCHANGED <<sent, request, asked, content, served, published>>
  BY DEF read_response_header_handler
<1>2. received'.first = first /\ received'.lines = lines
  BY <1>1
<1>3. /\ response'.fields = FieldsOf(lines) /\ response'.version = first.version
      /\ response'.status_code = first.status_code /\ response'.reason = first.reason
  BY <1>1
<1>4. [version |-> first.version, status_code |-> first.status_code,
       reason |-> first.reason] = first
  BY TextAssumption DEF TextAssumption
<1>5. Request' = Request /\ Header' = Header
  BY <1>1 DEF Request, Header
<1>6. published = Nothing /\ (Responding' => stage' = "responded")
  BY <1>1 DEF Responding
<1>7. SentAndReceived'
  BY <1>1, <1>2, <1>6
<1>8. RequestOnItsWay'
  BY <1>1, <1>5, <1>6
<1>9. ResponseOnItsWay'
  <2>1. [version |-> response'.version, status_code |-> response'.status_code,
         reason |-> response'.reason] = received'.first
    BY <1>2, <1>3, <1>4
  <2>2. QED
    BY <1>1, <1>2, <1>3, <1>6, <2>1
<1>10. QED
  BY <1>7, <1>8, <1>9

LEMMA PublishingKeeps ==
    ASSUME IInv, fromHttpSinkHandler
    PROVE  IInv'
<1> USE DEF SentAndReceived, RequestOnItsWay, ResponseOnItsWay, IInv
<1>1. /\ stage = "responded" /\ stage' = "published"
      /\ published' = [name |-> NameOf(served), digest |-> asked.digest,
                       freshness |-> Freshness(response.fields)]
      /\ content' = make_response_header(response)
      /\ UNCHANGED <<sent, request, asked, served, received, response, answer>>
  BY DEF fromHttpSinkHandler
<1>2. Request' = Request /\ Header' = Header
  BY <1>1 DEF Request, Header
<1>3. Responding /\ Responding'
  BY <1>1 DEF Responding
<1>4. SentAndReceived'
  BY <1>1, <1>3
<1>5. RequestOnItsWay'
  BY <1>1, <1>2, <1>3
<1>6. ResponseOnItsWay'
  BY <1>1, <1>3
<1>7. QED
  BY <1>4, <1>5, <1>6

LEMMA GettingKeeps ==
    ASSUME IInv, getHttpResponseHeader
    PROVE  IInv'
<1> USE DEF SentAndReceived, RequestOnItsWay, ResponseOnItsWay, IInv
<1>1. /\ stage = "published" /\ stage' = "answered"
      /\ answer' = [first |-> content.first,
                    lines |-> FieldLines(TrimmedFields(content.lines))]
      /\ UNCHANGED <<sent, request, asked, served, received, response, published>>
  BY DEF getHttpResponseHeader
<1>2. Request' = Request /\ Header' = Header
  BY <1>1 DEF Request, Header
<1>3. Responding
  BY <1>1 DEF Responding
<1>4. content.first = received.first /\ content.lines = FieldLines(response.fields)
  <2>1. content = make_response_header(response)
    BY <1>1
  <2>2. /\ content.lines = FieldLines(response.fields)
        /\ content.first = [version |-> response.version, status_code |-> response.status_code,
                            reason |-> response.reason]
    BY <2>1, Zenon DEF make_response_header
  <2>3. QED
    BY <1>3, <2>2
<1>5. SentAndReceived'
  BY <1>1, <1>3 DEF Responding
<1>6. RequestOnItsWay'
  BY <1>1, <1>2, <1>3
<1>7. ResponseOnItsWay'
  <2>1. answer' = [first |-> received'.first,
                   lines |-> FieldLines(TrimmedFields(FieldLines(response'.fields)))]
    BY <1>1, <1>4
  <2>2. QED
    BY <1>1, <1>3, <2>1
<1>8. QED
  BY <1>5, <1>6, <1>7

LEMMA GivingUpKeeps ==
    ASSUME IInv, write_response
    PROVE  IInv'
<1> USE DEF SentAndReceived, RequestOnItsWay, ResponseOnItsWay, IInv
<1>1. /\ stage = "lost" \/ (stage = "published" /\ published.name # asked.name)
      /\ stage' = "answered"
      /\ UNCHANGED <<sent, request, asked, content, served, received, response, published>>
  BY DEF write_response
<1>2. Request' = Request /\ Header' = Header
  BY <1>1 DEF Request, Header
<1>3. Responding' => stage = "published" /\ Responding
  BY <1>1 DEF Responding
<1>4. SentAndReceived'
  BY <1>1, <1>3
<1>5. RequestOnItsWay'
  BY <1>1, <1>2, <1>3
<1>6. ResponseOnItsWay'
  <2>1. published' # Nothing => stage = "published"
    BY <1>1
  <2>2. QED
    BY <1>1, <1>3, <2>1
<1>7. QED
  BY <1>4, <1>5, <1>6

LEMMA StutterKeeps ==
    ASSUME IInv, UNCHANGED vars
    PROVE  IInv'
BY DEF IInv, SentAndReceived, RequestOnItsWay, ResponseOnItsWay, Responding, Request, Header, vars

LEMMA NextInvariant == IInv /\ [Next]_vars => IInv'
<1> SUFFICES ASSUME IInv, [Next]_vars PROVE IInv'
  OBVIOUS
<1>1. CASE \E first \in FirstLine, lines \in RequestLines, body \in Body :
              read_request_header_handler(first, lines, body)
  BY <1>1, ReadingKeeps
<1>2. CASE computeNames
  BY <1>2, NamingKeeps
<1>3. CASE get_http_request_header
  BY <1>3, ServingKeeps
<1>4. CASE \E first \in StatusLine, lines \in ResponseLines :
              read_response_header_handler(first, lines)
  BY <1>4, ResponseReadKeeps
<1>5. CASE fromHttpSinkHandler
  BY <1>5, PublishingKeeps
<1>6. CASE getHttpResponseHeader
  BY <1>6, GettingKeeps
<1>7. CASE write_response
  BY <1>7, GivingUpKeeps
<1>8. CASE UNCHANGED vars
  BY <1>8, StutterKeeps
<1>9. QED
  BY <1>1, <1>2, <1>3, <1>4, <1>5, <1>6, <1>7, <1>8 DEF Next

\* What each text was made of, whatever was sent and answered.
THEOREM Invariance == Spec => []IInv
<1>1. Init => IInv
  BY InitInvariant
<1>2. IInv /\ [Next]_vars => IInv'
  BY NextInvariant
<1>3. QED
  BY <1>1, <1>2, PTL DEF Spec

---------------------------------------------------------------------------
(***************************************************************************)
(* The properties.                                                         *)
(***************************************************************************)
LEMMA RequestFields ==
    ASSUME IInv, stage # "connected"
    PROVE  /\ sent.first \in FirstLine /\ WellFormed(sent.lines)
           /\ Parsed(FieldsOf(sent.lines)) /\ Parsed(Rewritten(FieldsOf(sent.lines)))
           /\ Request = RequestWith(sent.first, Rewritten(FieldsOf(sent.lines)))
<1>1. sent.first \in FirstLine /\ sent.lines \in RequestLines
  BY DEF IInv, SentAndReceived
<1>2. WellFormed(sent.lines)
  BY <1>1, LinesWellFormed
<1>3. Parsed(FieldsOf(sent.lines))
  BY <1>2, FieldsParsed
<1>4. Parsed(Rewritten(FieldsOf(sent.lines)))
  BY <1>3, RewrittenParsed
<1>5. QED
  BY <1>1, <1>2, <1>3, <1>4 DEF Request, RequestOf

LEMMA ResponseFields ==
    ASSUME IInv, Responding
    PROVE  /\ WellFormed(received.lines) /\ response.fields = FieldsOf(received.lines)
           /\ Parsed(response.fields)
<1>1. WellFormed(received.lines)
  BY LinesWellFormed DEF IInv, SentAndReceived
<1>2. response.fields = FieldsOf(received.lines)
  BY DEF IInv, ResponseOnItsWay
<1>3. QED
  BY <1>1, <1>2, FieldsParsed

LEMMA RequestIsPreserved == IInv => RequestPreserved
<1> SUFFICES ASSUME IInv, stage = "served" PROVE RequestPreserved
  BY DEF RequestPreserved
<1> DEFINE f == FieldsOf(sent.lines)
           part == PathPart(sent.first.url)
<1>1. /\ sent.first \in FirstLine /\ WellFormed(sent.lines) /\ Parsed(f) /\ Parsed(Rewritten(f))
      /\ Request = RequestWith(sent.first, Rewritten(f))
  BY RequestFields
<1>2. served = ParseRequest(make_request_header(Request)) /\ PathOf(sent.first.url) # <<>>
  BY DEF IInv, RequestOnItsWay, Header
<1>3. part # <<>>
  BY <1>1, <1>2, PathAndQuery
<1> HIDE DEF f
<1>4. /\ served.method = sent.first.method /\ served.version = sent.first.version
      /\ served.fields = Rewritten(f) /\ served.path \o served.query = part
  <2>1. served = ParseRequest(make_request_header(RequestWith(sent.first, Rewritten(f))))
    BY <1>1, <1>2
  <2>2. QED
    BY <1>1, <1>3, <2>1, ParseRequestIs
<1>5. NoTrailing(served.fields) = Rewritten(Meaning(sent.lines))
  <2>1. NoTrailing(Rewritten(f)) = Rewritten(NoTrailing(f))
    BY <1>1, RewrittenNoTrailing
  <2>2. Meaning(sent.lines) = NoTrailing(f)
    BY <1>1, MeaningIs DEF f
  <2>3. QED
    BY <1>4, <2>1, <2>2
<1>6. QED
  BY <1>4, <1>5, Zenon DEF RequestPreserved, Rewritten

LEMMA ResponseIsPreserved == IInv => ResponsePreserved
<1> SUFFICES ASSUME IInv, stage = "answered", published # Nothing, published.name = asked.name
             PROVE  ResponsePreserved
  BY DEF ResponsePreserved
<1> DEFINE f == response.fields
           g == TrimmedFields(FieldLines(f))
           gave == NoTrailing(f)
<1>1. WellFormed(received.lines) /\ f = FieldsOf(received.lines) /\ Parsed(f)
  BY ResponseFields DEF Responding
<1>2. answer = [first |-> received.first, lines |-> FieldLines(g)]
  BY DEF IInv, ResponseOnItsWay
<1>3. /\ Parsed(g) /\ NoTrailing(g) = g
      /\ DOMAIN g = {TrimName[n] : n \in DOMAIN f}
      /\ \A a \in DOMAIN g : \E n \in DOMAIN f : TrimName[n] = a /\ g[a] = gave[n]
  BY <1>1, TrimmedParsed, Zenon
<1>4. answer.first = received.first /\ answer.lines = FieldLines(g)
  BY <1>2
<1> HIDE DEF g
<1>5. WellFormed(FieldLines(g)) /\ FieldsOf(FieldLines(g)) = g
  BY <1>3, RoundTrip
<1>6. Meaning(answer.lines) = g
  BY <1>3, <1>4, <1>5, MeaningIs
<1>7. Meaning(received.lines) = gave /\ DOMAIN gave = DOMAIN f
  <2>1. DOMAIN gave = DOMAIN f
    BY Zenon DEF NoTrailing
  <2>2. QED
    BY <1>1, <2>1, MeaningIs
<1> HIDE DEF f, gave
<1>8. QED
  BY <1>3, <1>4, <1>6, <1>7, Zenon DEF ResponsePreserved

LEMMA DigestsTellApart == IInv => SameDigestSameRequest
<1> SUFFICES ASSUME IInv, stage = "named" PROVE SameDigestSameRequest
  BY DEF SameDigestSameRequest
<1> DEFINE fields == Rewritten(FieldsOf(sent.lines))
<1>1. /\ sent.first \in FirstLine /\ Parsed(fields)
      /\ Request = RequestWith(sent.first, fields)
  BY RequestFields
<1> HIDE DEF fields
<1>2. Normalised(ReadRequest(sent.first, sent.lines)) = RequestWith(sent.first, fields)
  BY <1>1, ReadRequestIs DEF Request
<1>3. asked.digest = Digest(RequestWith(sent.first, fields), sent.body)
  BY <1>1 DEF IInv, RequestOnItsWay
<1> DEFINE r == RequestWith(sent.first, fields)
<1>4. ASSUME NEW other \in Sent, Digest(other[1], other[2]) = asked.digest
      PROVE  /\ WithoutClientFields(other[1]) = WithoutClientFields(r)
             /\ r.extension \notin StaticExtensions => other[1] = r
             /\ FirstBlock(other[2]) = FirstBlock(sent.body)
  <2>1. PICK first \in FirstLine, lines \in RequestLines, body \in Body :
           other = <<Normalised(ReadRequest(first, lines)), body>>
    BY <1>4 DEF Sent
  <2> DEFINE fields2 == Rewritten(FieldsOf(lines))
  <2>2. other[1] = RequestWith(first, fields2) /\ other[2] = body
    <3>1. other[1] = Normalised(ReadRequest(first, lines)) /\ other[2] = body
      BY <2>1
    <3>2. QED
      BY <3>1, ReadRequestIs DEF RequestOf
  <2>3. Parsed(fields2)
    <3>1. WellFormed(lines)
      BY LinesWellFormed
    <3>2. QED
      BY <3>1, FieldsParsed, RewrittenParsed
  <2> HIDE DEF fields2
  <2>4. Digest(RequestWith(first, fields2), body) =
           Digest(RequestWith(sent.first, fields), sent.body)
    BY <1>3, <1>4, <2>2
  <2>5. /\ WithoutClientFields(RequestWith(first, fields2)) = WithoutClientFields(r)
        /\ r.extension \notin StaticExtensions => RequestWith(first, fields2) = r
        /\ FirstBlock(body) = FirstBlock(sent.body)
    BY <1>1, <2>3, <2>4, SameDigest
  <2>6. QED
    BY <2>2, <2>5, Zenon
<1> HIDE DEF r
<1>5. QED
  BY <1>2, <1>4, Zenon DEF SameDigestSameRequest, r

LEMMA FreshnessIsAllowed == IInv => FreshnessAllowed
<1> SUFFICES ASSUME IInv, published # Nothing PROVE FreshnessAllowed
  BY DEF FreshnessAllowed
<1> DEFINE f == response.fields
           control == get_field(f, "cache-control")
<1>1. stage \in {"published", "answered"} /\ Responding /\ stage # "responded"
  BY DEF IInv, SentAndReceived, Responding
<1>2. Parsed(f)
  BY <1>1, ResponseFields
<1>3. published.freshness = Freshness(f)
  <2>1. published = [name |-> NameOf(served), digest |-> asked.digest, freshness |-> Freshness(f)]
    BY <1>1 DEF IInv, ResponseOnItsWay
  <2>2. QED
    BY <2>1, Zenon
<1>4. /\ Freshness(f) \in 0 .. Half - 1
      /\ Freshness(f) > 0 =>
            /\ ~Uncacheable(f)
            /\ "s-maxage" \in Range(control) => Allowed(control, "s-maxage", Freshness(f))
            /\ "s-maxage" \notin Range(control) /\ "max-age" \in Range(control)
                  => Allowed(control, "max-age", Freshness(f))
  BY <1>2, FreshnessIs
<1> DEFINE n == published.freshness
<1>5. /\ n \in 0 .. Half - 1
      /\ n > 0 =>
            /\ ~Uncacheable(f)
            /\ "s-maxage" \in Range(control) => Allowed(control, "s-maxage", n)
            /\ "s-maxage" \notin Range(control) /\ "max-age" \in Range(control)
                  => Allowed(control, "max-age", n)
  BY <1>3, <1>4, Zenon
<1>6. QED
  BY <1>5 DEF FreshnessAllowed, Allowed

LEMMA NamesAgreeMostly == IInv => NamesAgreeButSlashQuery
<1> SUFFICES ASSUME IInv, published # Nothing, ~SlashQuery(PathPart(sent.first.url))
             PROVE  published.name = asked.name
  BY DEF NamesAgreeButSlashQuery
<1> DEFINE fields == Rewritten(FieldsOf(sent.lines))
<1>1. stage \in {"published", "answered"} /\ Responding /\ stage # "responded"
  BY DEF IInv, SentAndReceived, Responding
<1>2. /\ sent.first \in FirstLine /\ Parsed(fields)
      /\ Request = RequestWith(sent.first, fields)
  BY <1>1, RequestFields
<1> HIDE DEF fields
<1>3. PathOf(sent.first.url) # <<>> /\ asked.name = NameOf(Request)
      /\ served = ParseRequest(make_request_header(Request))
  BY <1>1 DEF IInv, RequestOnItsWay, Header
<1>4. published.name = NameOf(served)
  BY <1>1 DEF IInv, ResponseOnItsWay
<1>5. NameOf(ParseRequest(make_request_header(RequestWith(sent.first, fields)))) =
         NameOf(RequestWith(sent.first, fields))
  BY <1>2, <1>3, NamesMatch
<1>6. QED
  BY <1>2, <1>3, <1>4, <1>5

\* What the server is asked is what the client asked, whatever the client sent and
\* however the two programs' parsers cut it: every request and header line, and any
\* number of each.
THEOREM RequestKept == Spec => []RequestPreserved
BY Invariance, RequestIsPreserved, PTL

\* What the client gets is what the server sent, but for blanks around the names of its
\* fields: for every status line and any number of header lines.
THEOREM ResponseKept == Spec => []ResponsePreserved
BY Invariance, ResponseIsPreserved, PTL

\* Whatever the requests that there can be, two of one digest agree in what the
\* server is sent of them, as SameDigestSameRequest has it.
THEOREM OneDigestOneRequest == Spec => []SameDigestSameRequest
BY Invariance, DigestsTellApart, PTL

\* Whatever headers a server sends and whatever the width of long, no packet of a
\* response is given a longer FreshnessPeriod than the server allows shared caches.
THEOREM NeverTooFresh == Spec => []FreshnessAllowed
BY Invariance, FreshnessIsAllowed, PTL

\* Whatever the URL, both gateways name the response alike, unless its query comes
\* right after a slash and another end of the path follows.
THEOREM OneName == Spec => []NamesAgreeButSlashQuery
BY Invariance, NamesAgreeMostly, PTL

=============================================================================
