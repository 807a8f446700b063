---------------------------- MODULE MCSignedFile ----------------------------
(* Every file of at most MaxLength chunks, one chunk appended at a time, and *)
(* what writing and reading a signature does with it.                        *)
EXTENDS SignedFile

CONSTANTS a, MaxLength, Keys

ASSUME FilesAssumption == a \in Text /\ MaxLength \in Nat /\ Keys \subseteq Nat

VARIABLE file

MCText == {a}

Init == file = <<>>

Write(x) == Len(file) < MaxLength /\ file' = Append(file, x)

Next == \E x \in MCText \cup Markers \cup Keys : Write(x)

Spec == Init /\ [][Next]_file

-----------------------------------------------------------------------------
\* The file with its last line ended.
Lines == IF EndsLine(file) THEN file ELSE file \o <<NL>>

\* Content that holds no begin marker is returned whole with the signature that was
\* attached, a line feed longer if and only if its last line was not ended, the empty
\* file included; and text that was appended after the block, a second block included,
\* changes neither (CreateSignature against UploadAndVerifyDocumentService).
RoundTrip ==
    ~Occurs(BEGIN, file) =>
        \A k, l \in Keys :
            /\ Original(Attach(file, k)) = Lines
            /\ Claim(Attach(file, k)) = <<k>>
            /\ \A tail \in {<<a>>, <<l>>, <<END, l, NL>>, Block(l)} :
                  /\ Original(Attach(file, k) \o tail) = Lines
                  /\ Claim(Attach(file, k) \o tail) = <<k>>

\* Reading undoes no other file than writing made: whatever is read as content c
\* claiming k alone holds c, the begin marker and k in this order.
ReadsWhatIsThere ==
    HasSignature(file) =>
        \A k \in Keys : Claim(file) = <<k>> =>
            \E i \in DOMAIN file :
                /\ Original(file) = SubSeq(file, 1, i - 1) /\ file[i] = BEGIN
                /\ \E j \in DOMAIN file :
                      /\ i < j /\ file[j] = k
                      /\ \A m \in i + 1 .. j - 1 : file[m] = NL
                      /\ \A m \in 1 .. i - 1 : file[m] # BEGIN
=============================================================================
