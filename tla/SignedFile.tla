----------------------------- MODULE SignedFile -----------------------------
(***************************************************************************)
(* The text format of a signed file, as CreateSignature writes it and as   *)
(* UploadAndVerifyDocumentService takes it apart.                          *)
(*                                                                         *)
(* A file is a sequence of chunks: ordinary text, the line feed, the two   *)
(* marker strings, and signature texts.  The signature text k is the       *)
(* base64 form of what the k-th generated RSA key signed.                  *)
(***************************************************************************)
EXTENDS Naturals, Sequences, FiniteSets

CONSTANTS Text,     \* chunks of ordinary text, no one a marker or a signature
          NL,       \* "\n"
          BEGIN,    \* "---BEGIN SIGNATURE---"
          END       \* "---END SIGNATURE---"

Markers == {NL, BEGIN, END}
Chunk   == Text \cup Markers \cup Nat
Content == Seq(Chunk)

ASSUME ChunksAssumption ==
    /\ NL # BEGIN /\ NL # END /\ BEGIN # END
    /\ Text \cap Markers = {}
    /\ \A c \in Text \cup Markers : c \notin Nat

-----------------------------------------------------------------------------
(* Writing: the block goes on a line of its own, so a file that does not   *)
(* end with a line feed (the empty one too) is given one first.            *)

Block(k) == <<BEGIN, NL, k, NL, END, NL>>

EndsLine(c) == Len(c) > 0 /\ c[Len(c)] = NL

\* Mutation: the block always gets a line feed before it.
MutantBlankLine(c, k) == c \o <<NL>> \o Block(k)

Attach(c, k) == IF EndsLine(c) THEN c \o Block(k) ELSE c \o <<NL>> \o Block(k)

-----------------------------------------------------------------------------
(* Reading: strings.Split and strings.SplitN cut at the first occurrence.  *)

Occurs(m, c) == \E i \in DOMAIN c : c[i] = m

\* Mutation: the last occurrence is taken for the first.
MutantLast(m, c) ==
    CHOOSE k \in 0 .. Len(c) : IF Occurs(m, c)
                               THEN /\ k < Len(c) /\ c[k + 1] = m
                                    /\ \A i \in k + 2 .. Len(c) : c[i] # m
                               ELSE k = Len(c)

\* The number of chunks before the first m, all of them when there is none.
LengthBefore(m, c) ==
    CHOOSE k \in 0 .. Len(c) : /\ \A i \in 1 .. k : c[i] # m
                               /\ k < Len(c) => c[k + 1] = m

Before(m, c) == SubSeq(c, 1, LengthBefore(m, c))
After(m, c)  == SubSeq(c, LengthBefore(m, c) + 2, Len(c))

HasSignature(c) == Occurs(BEGIN, c)

\* parts[0]
Original(c) == Before(BEGIN, c)

\* parts[1] up to the end marker; TrimSpace and the base64 decoder skip "\n".
Kept(c) == {i \in DOMAIN c : c[i] # NL}

\* The n-th smallest member of a set of positions.
Nth(S, n) == CHOOSE i \in S : Cardinality({j \in S : j <= i}) = n

WithoutNL(c) == [n \in 1 .. Cardinality(Kept(c)) |-> c[Nth(Kept(c), n)]]

Claim(c) == WithoutNL(Before(END, Before(BEGIN, After(BEGIN, c))))
=============================================================================
