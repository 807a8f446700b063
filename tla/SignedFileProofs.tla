-------------------------- MODULE SignedFileProofs --------------------------
(***************************************************************************)
(* What is attached to a file is read back, for files of every length.      *)
(***************************************************************************)
EXTENDS SignedFile, SequenceTheorems, FiniteSetTheorems, WellFoundedInduction, TLAPS

-----------------------------------------------------------------------------
(* Cutting at the first occurrence.                                         *)

\* A set of naturals that is not empty has a least element.
LEMMA LeastElement ==
    ASSUME NEW S \in SUBSET Nat, S # {}
    PROVE  \E x \in S : \A y \in S : x <= y
<1>1. \E x \in S : \A y \in S : ~ (<<y, x>> \in OpToRel(<, Nat))
  BY NatLessThanWellFounded, WFMin, Zenon
<1>2. PICK x \in S : \A y \in S : ~ (<<y, x>> \in OpToRel(<, Nat))
  BY <1>1
<1>3. \A y \in S : ~ (y < x)
  BY <1>2, Zenon DEF OpToRel
<1> QED
  BY <1>3

\* Where the first m is, is known from what lies before it and what lies there.
LEMMA LengthIs ==
    ASSUME NEW c \in Content, NEW m, NEW n \in 0 .. Len(c),
           \A i \in 1 .. n : c[i] # m, n < Len(c) => c[n + 1] = m
    PROVE  LengthBefore(m, c) = n
<1> DEFINE P(k) == /\ \A i \in 1 .. k : c[i] # m
                   /\ k < Len(c) => c[k + 1] = m
<1>1. Len(c) \in Nat
  BY LenProperties DEF Content
<1>2. ASSUME NEW k \in 0 .. Len(c), P(k) PROVE k = n
  <2>1. ~ (k < n)
    BY <1>1, <1>2
  <2>2. ~ (n < k)
    BY <1>1, <1>2
  <2> QED
    BY <1>1, <2>1, <2>2
<1>3. P(n)
  OBVIOUS
<1>4. LengthBefore(m, c) = CHOOSE k \in 0 .. Len(c) : P(k)
  BY DEF LengthBefore
<1> HIDE DEF P
<1> QED
  BY <1>2, <1>3, <1>4

\* There always is such a place.
LEMMA LengthBeforeOK ==
    ASSUME NEW c \in Content, NEW m
    PROVE  /\ LengthBefore(m, c) \in 0 .. Len(c)
           /\ \A i \in 1 .. LengthBefore(m, c) : c[i] # m
           /\ LengthBefore(m, c) < Len(c) => c[LengthBefore(m, c) + 1] = m
<1> DEFINE S == {k \in 0 .. Len(c) : k < Len(c) => c[k + 1] = m}
<1>1. Len(c) \in Nat
  BY LenProperties DEF Content
<1>2. Len(c) \in S /\ S \subseteq Nat
  BY <1>1
<1>3. PICK n \in S : \A y \in S : n <= y
  BY <1>2, LeastElement
<1>4. \A i \in 1 .. n : c[i] # m
  <2> SUFFICES ASSUME NEW i \in 1 .. n, c[i] = m PROVE FALSE
    OBVIOUS
  <2>1. n \in 0 .. Len(c)
    BY <1>3
  <2>2. i - 1 \in S
    BY <1>1, <2>1
  <2> QED
    BY <1>3, <2>1, <2>2
<1>5. LengthBefore(m, c) = n
  BY <1>3, <1>4, LengthIs
<1> QED
  BY <1>3, <1>4, <1>5

\* What lies before the cut, and what after it.
LEMMA BeforeOK ==
    ASSUME NEW c \in Content, NEW m
    PROVE  /\ Before(m, c) \in Content
           /\ Len(Before(m, c)) = LengthBefore(m, c)
           /\ \A i \in 1 .. LengthBefore(m, c) : Before(m, c)[i] = c[i]
<1> DEFINE n == LengthBefore(m, c)
<1>1. Len(c) \in Nat /\ n \in 0 .. Len(c)
  BY LengthBeforeOK, LenProperties DEF Content
<1> HIDE DEF n
<1>2. \A i \in 1 .. n : c[i] \in Chunk
  BY <1>1, ElementOfSeq DEF Content
<1>3. /\ SubSeq(c, 1, n) \in Seq(Chunk)
      /\ Len(SubSeq(c, 1, n)) = IF 1 <= n THEN n - 1 + 1 ELSE 0
      /\ \A i \in 1 .. n - 1 + 1 : SubSeq(c, 1, n)[i] = c[1 + i - 1]
  BY <1>1, <1>2, SubSeqProperties
<1>4. Before(m, c) = SubSeq(c, 1, n)
  BY DEF Before, n
<1>5. /\ Before(m, c) \in Content /\ Len(Before(m, c)) = n
      /\ \A i \in 1 .. n : Before(m, c)[i] = c[i]
  BY <1>1, <1>3, <1>4 DEF Content
<1> QED
  BY <1>5 DEF n

LEMMA AfterOK ==
    ASSUME NEW c \in Content, NEW m, LengthBefore(m, c) < Len(c)
    PROVE  /\ After(m, c) \in Content
           /\ Len(After(m, c)) = Len(c) - LengthBefore(m, c) - 1
           /\ \A i \in 1 .. Len(After(m, c)) : After(m, c)[i] = c[LengthBefore(m, c) + 1 + i]
<1> DEFINE n == LengthBefore(m, c)
           l == Len(c)
<1>1. l \in Nat /\ n \in 0 .. l /\ n < l
  BY LengthBeforeOK, LenProperties DEF Content
<1>2. \A i \in 1 .. l : c[i] \in Chunk
  BY ElementOfSeq DEF Content
<1>3. After(m, c) = SubSeq(c, n + 2, l)
  BY DEF After
<1> HIDE DEF n, l
<1>4. \A i \in n + 2 .. l : c[i] \in Chunk
  BY <1>1, <1>2
<1>5. n + 2 \in Int /\ l \in Int
  BY <1>1
<1>6. /\ SubSeq(c, n + 2, l) \in Seq(Chunk)
      /\ Len(SubSeq(c, n + 2, l)) = IF n + 2 <= l THEN l - (n + 2) + 1 ELSE 0
      /\ \A i \in 1 .. l - (n + 2) + 1 : SubSeq(c, n + 2, l)[i] = c[n + 2 + i - 1]
  BY <1>4, <1>5, SubSeqProperties
<1>7. Len(After(m, c)) = l - n - 1
  BY <1>1, <1>3, <1>6
<1>8. \A i \in 1 .. l - n - 1 : After(m, c)[i] = c[n + 1 + i]
  <2> SUFFICES ASSUME NEW i \in 1 .. l - n - 1 PROVE After(m, c)[i] = c[n + 1 + i]
    OBVIOUS
  <2>1. i \in 1 .. l - (n + 2) + 1 /\ n + 2 + i - 1 = n + 1 + i
    BY <1>1
  <2>2. SubSeq(c, n + 2, l)[i] = c[n + 2 + i - 1]
    BY <1>6, <2>1
  <2> QED
    BY <1>3, <2>1, <2>2
<1>9. After(m, c) \in Content
  BY <1>3, <1>6 DEF Content
<1> QED
  BY <1>7, <1>8, <1>9 DEF n, l

-----------------------------------------------------------------------------
(* A file with a block in it.                                               *)

\* One chunk that is no line feed is what is left of it between line feeds.
LEMMA OneChunk ==
    ASSUME NEW k \in Nat
    PROVE  WithoutNL(<<NL, k, NL>>) = <<k>>
<1> DEFINE s == <<NL, k, NL>>
<1>1. k # NL
  BY ChunksAssumption DEF Markers
<1>2. DOMAIN s = 1 .. 3 /\ s[1] = NL /\ s[2] = k /\ s[3] = NL
  OBVIOUS
<1> HIDE DEF s
<1>3. Kept(s) = {2}
  BY <1>1, <1>2 DEF Kept
<1>4. Cardinality({2}) = 1
  BY FS_Singleton
<1>5. {j \in {2} : j <= 2} = {2}
  OBVIOUS
<1>6. Nth({2}, 1) = 2
  BY <1>4, <1>5 DEF Nth
<1>7. WithoutNL(s) = [n \in 1 .. 1 |-> s[Nth({2}, n)]]
  BY <1>3, <1>4 DEF WithoutNL
<1>8. WithoutNL(s) = [n \in 1 .. 1 |-> k]
  BY <1>2, <1>6, <1>7
<1> QED
  BY <1>8 DEF s

\* The chunks of a file with a block in it, and of what lies behind the marker.
LEMMA BlockOK ==
    ASSUME NEW c \in Content, NEW k \in Nat, NEW tail \in Content
    PROVE  LET w == (c \o Block(k)) \o tail
               n == Len(c)
           IN  /\ w \in Content /\ n \in Nat
               /\ Len(w) \in Nat /\ Len(w) >= n + 6
               /\ \A i \in 1 .. n : w[i] = c[i]
               /\ w[n + 1] = BEGIN /\ w[n + 2] = NL /\ w[n + 3] = k
               /\ w[n + 4] = NL /\ w[n + 5] = END /\ w[n + 6] = NL
<1> DEFINE b == Block(k)
           v == c \o b
           w == v \o tail
           n == Len(c)
<1>1. /\ b \in Content /\ Len(b) = 6 /\ b[1] = BEGIN /\ b[2] = NL /\ b[3] = k
      /\ b[4] = NL /\ b[5] = END /\ b[6] = NL
  BY DEF Block, Content, Chunk, Markers
<1> HIDE DEF b
<1>2. n \in Nat /\ Len(tail) \in Nat
  BY LenProperties DEF Content
<1>3. /\ v \in Content /\ Len(v) = n + Len(b)
      /\ \A i \in 1 .. n + Len(b) : v[i] = IF i <= n THEN c[i] ELSE b[i - n]
  BY <1>1, ConcatProperties DEF Content
<1> HIDE DEF v
<1>4. /\ w \in Content /\ Len(w) = Len(v) + Len(tail)
      /\ \A i \in 1 .. Len(v) + Len(tail) :
            w[i] = IF i <= Len(v) THEN v[i] ELSE tail[i - Len(v)]
  <2>1. v \in Seq(Chunk) /\ tail \in Seq(Chunk)
    BY <1>3 DEF Content
  <2>2. /\ v \o tail \in Seq(Chunk) /\ Len(v \o tail) = Len(v) + Len(tail)
        /\ \A i \in 1 .. Len(v) + Len(tail) :
              (v \o tail)[i] = IF i <= Len(v) THEN v[i] ELSE tail[i - Len(v)]
    BY <2>1, ConcatProperties
  <2> QED
    BY <2>2 DEF Content
<1> HIDE DEF w, n
<1>5. \A i \in 1 .. n + 6 : w[i] = IF i <= n THEN c[i] ELSE b[i - n]
  BY <1>1, <1>2, <1>3, <1>4
<1>6. \A i \in 1 .. n : w[i] = c[i]
  BY <1>2, <1>5
<1>7. \A j \in 1 .. 6 : w[n + j] = b[j]
  <2> SUFFICES ASSUME NEW j \in 1 .. 6 PROVE w[n + j] = b[j]
    OBVIOUS
  <2>1. n + j \in 1 .. n + 6 /\ ~ (n + j <= n) /\ (n + j) - n = j
    BY <1>2
  <2> QED
    BY <1>5, <2>1
<1>8. Len(w) \in Nat /\ Len(w) >= n + 6
  BY <1>1, <1>2, <1>3, <1>4
<1>9. /\ w[n + 1] = BEGIN /\ w[n + 2] = NL /\ w[n + 3] = k
      /\ w[n + 4] = NL /\ w[n + 5] = END /\ w[n + 6] = NL
  BY <1>1, <1>7
<1> QED
  BY <1>2, <1>4, <1>6, <1>8, <1>9 DEF b, v, w, n

\* The block names its signature, whatever comes after it.
LEMMA BehindMarker ==
    ASSUME NEW rest \in Content, NEW k \in Nat, Len(rest) >= 5,
           rest[1] = NL, rest[2] = k, rest[3] = NL, rest[4] = END, rest[5] = NL
    PROVE  WithoutNL(Before(END, Before(BEGIN, rest))) = <<k>>
<1> DEFINE part == Before(BEGIN, rest)
           n == LengthBefore(BEGIN, rest)
           text == Before(END, part)
<1>1. /\ NL # BEGIN /\ NL # END /\ BEGIN # END /\ k # BEGIN /\ k # END
  BY ChunksAssumption DEF Markers
<1>2. /\ n \in 0 .. Len(rest) /\ (n < Len(rest) => rest[n + 1] = BEGIN)
      /\ Len(rest) \in Nat
  BY LengthBeforeOK, LenProperties DEF Content
<1>3. /\ part \in Content /\ Len(part) = n /\ \A i \in 1 .. n : part[i] = rest[i]
  BY BeforeOK
<1> HIDE DEF n, part
<1>4. n >= 5
  BY <1>1, <1>2
<1>5. part[1] = NL /\ part[2] = k /\ part[3] = NL /\ part[4] = END
  BY <1>2, <1>3, <1>4
<1>6. LengthBefore(END, part) = 3
  <2>1. 3 \in 0 .. Len(part) /\ part[3 + 1] = END
    BY <1>2, <1>3, <1>4, <1>5
  <2>2. \A i \in 1 .. 3 : part[i] # END
    BY <1>1, <1>5
  <2> QED
    BY <1>3, <2>1, <2>2, LengthIs
<1>7. /\ text \in Content /\ Len(text) = 3 /\ \A i \in 1 .. 3 : text[i] = part[i]
  <2>1. /\ text \in Content /\ Len(text) = LengthBefore(END, part)
        /\ \A i \in 1 .. LengthBefore(END, part) : text[i] = part[i]
    BY <1>3, BeforeOK
  <2> QED
    BY <1>6, <2>1
<1> HIDE DEF text
<1>8. <<NL, k, NL>> \in Content
  BY DEF Content, Chunk, Markers
<1>9. text = <<NL, k, NL>>
  BY <1>5, <1>7, <1>8, SeqEqual DEF Content
<1> QED
  BY <1>9, OneChunk DEF text, part

\* What is attached to a text without a begin marker is read back, and so is the
\* text, whatever is appended after the block.
LEMMA BlockComesBack ==
    ASSUME NEW c \in Content, ~Occurs(BEGIN, c), NEW k \in Nat, NEW tail \in Content
    PROVE  /\ Original((c \o Block(k)) \o tail) = c
           /\ Claim((c \o Block(k)) \o tail) = <<k>>
<1> DEFINE w == (c \o Block(k)) \o tail
           n == Len(c)
           rest == After(BEGIN, w)
<1>1. /\ w \in Content /\ n \in Nat
      /\ Len(w) \in Nat /\ Len(w) >= n + 6
      /\ \A i \in 1 .. n : w[i] = c[i]
      /\ w[n + 1] = BEGIN /\ w[n + 2] = NL /\ w[n + 3] = k
      /\ w[n + 4] = NL /\ w[n + 5] = END /\ w[n + 6] = NL
  BY BlockOK
<1>2. \A i \in 1 .. n : c[i] # BEGIN
  BY LenProperties DEF Occurs, Content
<1> HIDE DEF w
<1>3. LengthBefore(BEGIN, w) = n
  <2> HIDE DEF n
  <2>1. \A i \in 1 .. n : w[i] # BEGIN
    BY <1>1, <1>2
  <2>2. n \in 0 .. Len(w)
    BY <1>1
  <2> QED
    BY <1>1, <2>1, <2>2, LengthIs
<1>4. Original(w) = c
  <2>1. /\ Before(BEGIN, w) \in Content /\ Len(Before(BEGIN, w)) = n
        /\ \A i \in 1 .. n : Before(BEGIN, w)[i] = w[i]
    BY <1>1, <1>3, BeforeOK
  <2>2. \A i \in 1 .. n : Before(BEGIN, w)[i] = c[i]
    BY <1>1, <2>1
  <2>3. Before(BEGIN, w) = c
    BY <2>1, <2>2, SeqEqual DEF Content
  <2> QED
    BY <2>3 DEF Original
<1> HIDE DEF n
<1>5. /\ rest \in Content /\ Len(rest) = Len(w) - n - 1
      /\ \A i \in 1 .. Len(rest) : rest[i] = w[n + 1 + i]
  <2>1. LengthBefore(BEGIN, w) < Len(w)
    BY <1>1, <1>3
  <2>2. /\ rest \in Content
        /\ Len(rest) = Len(w) - LengthBefore(BEGIN, w) - 1
        /\ \A i \in 1 .. Len(rest) : rest[i] = w[LengthBefore(BEGIN, w) + 1 + i]
    BY <1>1, <2>1, AfterOK
  <2> QED
    BY <1>3, <2>2
<1> HIDE DEF rest
<1>6. Len(rest) >= 5 /\ 1 .. 5 \subseteq 1 .. Len(rest)
  BY <1>1, <1>5
<1>7. rest[1] = NL /\ rest[2] = k /\ rest[3] = NL /\ rest[4] = END /\ rest[5] = NL
  <2>1. \A i \in 1 .. 5 : rest[i] = w[n + 1 + i]
    BY <1>5, <1>6
  <2>2. n + 1 + 1 = n + 2 /\ n + 1 + 2 = n + 3 /\ n + 1 + 3 = n + 4
        /\ n + 1 + 4 = n + 5 /\ n + 1 + 5 = n + 6
    BY <1>1
  <2>3. /\ rest[1] = w[n + 1 + 1] /\ rest[2] = w[n + 1 + 2] /\ rest[3] = w[n + 1 + 3]
        /\ rest[4] = w[n + 1 + 4] /\ rest[5] = w[n + 1 + 5]
    BY <2>1
  <2> QED
    BY <1>1, <2>2, <2>3
<1>8. WithoutNL(Before(END, Before(BEGIN, rest))) = <<k>>
  BY <1>5, <1>6, <1>7, BehindMarker
<1>9. Claim(w) = <<k>>
  BY <1>8 DEF Claim, rest
<1> QED
  BY <1>4, <1>9 DEF w

\* A signed file is taken apart into what it was made of: the text, with a line
\* feed more if it ended in the middle of a line, and the signature, whatever was
\* appended after the block (CreateSignature against
\* UploadAndVerifyDocumentService).
THEOREM ComesBack ==
    ASSUME NEW c \in Content, ~Occurs(BEGIN, c), NEW k \in Nat, NEW tail \in Content
    PROVE  /\ Original(Attach(c, k) \o tail) = IF EndsLine(c) THEN c ELSE c \o <<NL>>
           /\ Claim(Attach(c, k) \o tail) = <<k>>
<1>1. CASE EndsLine(c)
  BY <1>1, BlockComesBack DEF Attach
<1>2. CASE ~EndsLine(c)
  <2> DEFINE l == c \o <<NL>>
  <2>1. <<NL>> \in Content /\ NL # BEGIN
    BY ChunksAssumption DEF Content, Chunk, Markers
  <2>2. /\ l \in Seq(Chunk) /\ Len(l) = Len(c) + 1 /\ Len(c) \in Nat
        /\ \A i \in 1 .. Len(c) + 1 : l[i] = IF i <= Len(c) THEN c[i] ELSE <<NL>>[i - Len(c)]
    BY <2>1, ConcatProperties, LenProperties DEF Content
  <2>3. DOMAIN l = 1 .. Len(c) + 1 /\ DOMAIN c = 1 .. Len(c)
    BY <2>2, LenProperties DEF Content
  <2>4. ~Occurs(BEGIN, l)
    <3> HIDE DEF l
    <3> SUFFICES ASSUME NEW i \in 1 .. Len(c) + 1 PROVE l[i] # BEGIN
      BY <2>3 DEF Occurs
    <3>1. CASE i <= Len(c)
      BY <2>2, <2>3, <3>1 DEF Occurs
    <3>2. CASE i = Len(c) + 1
      BY <2>1, <2>2, <3>2
    <3> QED
      BY <2>2, <3>1, <3>2
  <2>5. l \in Content
    BY <2>2 DEF Content
  <2>6. Attach(c, k) = l \o Block(k)
    BY <1>2 DEF Attach
  <2> HIDE DEF l
  <2>7. /\ Original((l \o Block(k)) \o tail) = l
        /\ Claim((l \o Block(k)) \o tail) = <<k>>
    BY <2>4, <2>5, BlockComesBack
  <2> QED
    BY <1>2, <2>6, <2>7 DEF l
<1> QED
  BY <1>1, <1>2

\* One chunk is left of a text between its line feeds only if it is in there and
\* nothing else is.
LEMMA OnlyChunk ==
    ASSUME NEW t \in Content, NEW k, WithoutNL(t) = <<k>>
    PROVE  \E x \in 1 .. Len(t) : t[x] = k /\ \A y \in 1 .. Len(t) : y # x => t[y] = NL
<1>1. Len(t) \in Nat /\ DOMAIN t = 1 .. Len(t)
  BY LenProperties DEF Content
<1>2. IsFiniteSet(Kept(t))
  <2>1. IsFiniteSet(1 .. Len(t))
    BY <1>1, FS_Interval
  <2>2. Kept(t) \in SUBSET (1 .. Len(t))
    BY <1>1 DEF Kept
  <2> QED
    BY <2>1, <2>2, FS_Subset
<1>3. Cardinality(Kept(t)) = 1
  <2>1. Cardinality(Kept(t)) \in Nat
    BY <1>2, FS_CardinalityType
  <2>2. DOMAIN WithoutNL(t) = 1 .. Cardinality(Kept(t))
    BY DEF WithoutNL
  <2>3. DOMAIN <<k>> = 1 .. 1
    OBVIOUS
  <2>4. 1 .. Cardinality(Kept(t)) = 1 .. 1
    BY <2>2, <2>3
  <2>5. 1 \in 1 .. Cardinality(Kept(t)) /\ Cardinality(Kept(t)) \in {0} \cup 1 .. Cardinality(Kept(t))
    BY <2>1, <2>4
  <2> QED
    BY <2>1, <2>4, <2>5
<1>4. PICK x : Kept(t) = {x}
  BY <1>2, <1>3, FS_Singleton
<1>5. x \in 1 .. Len(t) /\ \A y \in 1 .. Len(t) : y # x => t[y] = NL
  BY <1>1, <1>4 DEF Kept
<1>6. Nth({x}, 1) = x
  <2>1. {j \in {x} : j <= x} = {x}
    BY <1>1, <1>5
  <2>2. Cardinality({x}) = 1
    BY FS_Singleton
  <2> QED
    BY <2>1, <2>2 DEF Nth
<1>7. WithoutNL(t)[1] = t[Nth(Kept(t), 1)]
  BY <1>3 DEF WithoutNL
<1>8. t[x] = k
  BY <1>4, <1>6, <1>7
<1> QED
  BY <1>5, <1>8
=============================================================================
