------------------------- MODULE MCSignedFileProofs -------------------------
(***************************************************************************)
(* The properties of the enumerated files, for files of every length and    *)
(* every set of signatures.                                                 *)
(***************************************************************************)
EXTENDS MCSignedFile, SignedFileProofs

\* Whatever is written is a sequence of chunks.
FileOK == file \in Content

LEMMA FilesAreContents == Spec => []FileOK
<1>1. Init => FileOK
  BY DEF Init, FileOK, Content
<1>2. FileOK /\ [Next]_file => FileOK'
  <2>1. ASSUME FileOK, NEW x \in MCText \cup Markers \cup Keys, Write(x)
        PROVE  FileOK'
    <3>1. x \in Chunk
      BY FilesAssumption DEF MCText, Chunk
    <3> QED
      BY <2>1, <3>1, AppendProperties DEF Write, Content, FileOK
  <2> QED
    BY <2>1 DEF Next, FileOK
<1> QED
  BY <1>1, <1>2, PTL DEF Spec

\* RoundTrip holds of files of every length and for every set of signatures.
THEOREM AttachedComesBack == Spec => []RoundTrip
<1>1. FileOK => RoundTrip
  <2> SUFFICES ASSUME file \in Content, ~Occurs(BEGIN, file), NEW k \in Keys, NEW l \in Keys
               PROVE  /\ Original(Attach(file, k)) = Lines
                      /\ Claim(Attach(file, k)) = <<k>>
                      /\ \A tail \in {<<a>>, <<l>>, <<END, l, NL>>, Block(l)} :
                            /\ Original(Attach(file, k) \o tail) = Lines
                            /\ Claim(Attach(file, k) \o tail) = <<k>>
    BY DEF RoundTrip, FileOK
  <2>1. k \in Nat /\ l \in Nat
    BY FilesAssumption
  <2>2. \A tail \in Content : /\ Original(Attach(file, k) \o tail) = Lines
                              /\ Claim(Attach(file, k) \o tail) = <<k>>
    BY <2>1, ComesBack DEF Lines
  <2>3. /\ <<a>> \in Content /\ <<l>> \in Content /\ <<END, l, NL>> \in Content
        /\ Block(k) \in Content /\ Block(l) \in Content /\ <<>> \in Content
    BY <2>1, FilesAssumption DEF Content, Chunk, Markers, Block
  <2>4. Attach(file, k) \in Content
    <3>1. \A c, d \in Content : c \o d \in Content
      BY ConcatProperties DEF Content
    <3>2. <<NL>> \in Content
      BY DEF Content, Chunk, Markers
    <3>3. file \o <<NL>> \in Content
      BY <3>1, <3>2
    <3> QED
      BY <2>3, <3>1, <3>3 DEF Attach
  <2>5. Attach(file, k) \o <<>> = Attach(file, k)
    BY <2>4, ConcatEmptySeq DEF Content
  <2>6. Original(Attach(file, k)) = Lines /\ Claim(Attach(file, k)) = <<k>>
    BY <2>2, <2>3, <2>5
  <2> QED
    BY <2>2, <2>3, <2>6
<1> QED
  BY <1>1, FilesAreContents, PTL

\* ReadsWhatIsThere holds of files of every length and for every set of signatures.
THEOREM ReadIsThere == Spec => []ReadsWhatIsThere
<1>1. FileOK => ReadsWhatIsThere
  <2> SUFFICES ASSUME file \in Content, HasSignature(file), NEW k \in Keys, Claim(file) = <<k>>
               PROVE  \E i \in DOMAIN file :
                        /\ Original(file) = SubSeq(file, 1, i - 1) /\ file[i] = BEGIN
                        /\ \E j \in DOMAIN file :
                              /\ i < j /\ file[j] = k
                              /\ \A m \in i + 1 .. j - 1 : file[m] = NL
                              /\ \A m \in 1 .. i - 1 : file[m] # BEGIN
    BY DEF ReadsWhatIsThere, FileOK
  <2> DEFINE n == LengthBefore(BEGIN, file)
             rest == After(BEGIN, file)
             part == Before(BEGIN, rest)
             text == Before(END, part)
  <2>1. Len(file) \in Nat /\ DOMAIN file = 1 .. Len(file)
    BY LenProperties DEF Content
  <2>2. /\ n \in 0 .. Len(file) /\ \A i \in 1 .. n : file[i] # BEGIN
        /\ n < Len(file) => file[n + 1] = BEGIN
    BY LengthBeforeOK
  <2>3. Original(file) = SubSeq(file, 1, n)
    BY DEF Original, Before
  <2>4. /\ n < Len(file) => rest \in Content /\ Len(rest) = Len(file) - n - 1
        /\ n < Len(file) => \A i \in 1 .. Len(rest) : rest[i] = file[n + 1 + i]
    BY AfterOK
  <2> HIDE DEF n, rest
  <2>5. n < Len(file)
    BY <2>1, <2>2 DEF HasSignature, Occurs
  <2>6. /\ part \in Content /\ Len(part) = LengthBefore(BEGIN, rest)
        /\ LengthBefore(BEGIN, rest) \in 0 .. Len(rest)
        /\ \A i \in 1 .. LengthBefore(BEGIN, rest) : part[i] = rest[i]
    BY <2>4, <2>5, BeforeOK, LengthBeforeOK
  <2> HIDE DEF part
  <2>7. /\ text \in Content /\ Len(text) = LengthBefore(END, part)
        /\ LengthBefore(END, part) \in 0 .. Len(part)
        /\ \A i \in 1 .. LengthBefore(END, part) : text[i] = part[i]
    BY <2>6, BeforeOK, LengthBeforeOK
  <2>8. WithoutNL(text) = <<k>>
    BY DEF Claim, part, rest
  <2> HIDE DEF text
  <2>9. Len(text) \in 0 .. Len(rest) /\ \A i \in 1 .. Len(text) : text[i] = file[n + 1 + i]
    BY <2>1, <2>2, <2>4, <2>5, <2>6, <2>7
  <2>10. PICK x \in 1 .. Len(text) :
            text[x] = k /\ \A y \in 1 .. Len(text) : y # x => text[y] = NL
    BY <2>7, <2>8, OnlyChunk
  <2> DEFINE i == n + 1
             j == n + 1 + x
  <2>11. i \in 1 .. Len(file) /\ j \in 1 .. Len(file) /\ i < j /\ i - 1 = n
    BY <2>1, <2>2, <2>4, <2>5, <2>9, <2>10
  <2>12. file[j] = k
    BY <2>9, <2>10
  <2>13. \A m \in i + 1 .. j - 1 : file[m] = NL
    <3> SUFFICES ASSUME NEW m \in i + 1 .. j - 1 PROVE file[m] = NL
      OBVIOUS
    <3>1. /\ m - (n + 1) \in 1 .. Len(text) /\ m - (n + 1) # x
          /\ n + 1 + (m - (n + 1)) = m
      BY <2>1, <2>2, <2>4, <2>5, <2>9, <2>10
    <3> QED
      BY <2>9, <2>10, <3>1
  <2>14. file[i] = BEGIN /\ \A m \in 1 .. i - 1 : file[m] # BEGIN
    BY <2>2, <2>5, <2>11
  <2>15. Original(file) = SubSeq(file, 1, i - 1)
    BY <2>3, <2>11
  <2> HIDE DEF i, j
  <2> QED
    BY <2>1, <2>11, <2>12, <2>13, <2>14, <2>15
<1> QED
  BY <1>1, FilesAreContents, PTL
=============================================================================
