----------------------- MODULE DocumentSigningProofs ------------------------
(***************************************************************************)
(* Proofs about DocumentSigning, for any sets of requests, users, names,   *)
(* contents and events: type correctness, that stored signatures bind and  *)
(* verdicts are sound, and that it implements SignatureLedger.             *)
(***************************************************************************)
EXTENDS DocumentSigning, SequenceTheorems, TLAPS

-----------------------------------------------------------------------------
(* What the helpers do to the types.                                        *)

LEMMA ContentClosed ==
    /\ <<>> \in Content
    /\ \A c, d \in Content : c \o d \in Content
    /\ \A c \in Content : \A m, n \in Nat : m \in 1 .. Len(c) + 1 /\ n <= Len(c)
          => SubSeq(c, m, n) \in Content
BY DEF Content

LEMMA OverwriteType ==
    ASSUME NEW old \in Content, NEW new \in Content
    PROVE  Overwrite(old, new) \in Content
<1>1. SubSeq(old, Len(new) + 1, Len(old)) \in Content
  BY DEF Content
<1> QED  BY <1>1, ContentClosed DEF Overwrite

LEMMA AttachType ==
    ASSUME NEW c \in Content, NEW k \in Nat
    PROVE  Attach(c, k) \in Content
<1>1. Block(k) \in Content
  BY DEF Block, Content, Chunk, Markers
<1>2. <<NL>> \in Content
  BY DEF Content, Chunk, Markers
<1> QED  BY <1>1, <1>2, ContentClosed DEF Attach

LEMMA PathClosed ==
    ASSUME NEW p \in Path
    PROVE  TempPath(p) \in Path /\ SignedPath(p) \in Path
BY DEF Path, TempPath, SignedPath

LEMMA PutType ==
    ASSUME DiskOK, NEW p \in Path, NEW c \in Content, Put(p, c)
    PROVE  /\ files' \in [DOMAIN files' -> Content]
           /\ DOMAIN files' = DOMAIN files \cup {p}
           /\ DOMAIN files' \subseteq Path
BY DEF DiskOK, Put

LEMMA WriteToType ==
    ASSUME DiskOK, NEW r \in Requests, NEW p \in Path, NEW c \in Content,
           mem[r].open => Exists(p), WriteTo(r, p, c)
    PROVE  /\ files' \in [DOMAIN files' -> Content]
           /\ DOMAIN files' = DOMAIN files
<1>1. CASE mem[r].open
  <2>1. p \in DOMAIN files
    BY <1>1 DEF Exists
  <2>2. Overwrite(files[p], c) \in Content
    BY <2>1, OverwriteType DEF DiskOK
  <2>3. Put(p, Overwrite(files[p], c))
    BY <1>1 DEF WriteTo
  <2> QED  BY <2>1, <2>2, <2>3, PutType DEF DiskOK
<1>2. CASE ~mem[r].open
  BY <1>2 DEF WriteTo, DiskOK
<1> QED  BY <1>1, <1>2

LEMMA BeginType ==
    ASSUME LocalOK, NEW r \in Requests, NEW j \in JobType, NEW m \in MemType,
           NEW step \in Steps, Begin(r, j, m, step)
    PROVE  LocalOK'
BY DEF LocalOK, Begin, Replies

LEMMA GotoType ==
    ASSUME LocalOK, NEW r \in Requests, NEW m \in MemType, NEW step \in Steps,
           Goto(r, step, m)
    PROVE  LocalOK'
BY DEF LocalOK, Goto

LEMMA AnswerType ==
    ASSUME LocalOK, NEW r \in Requests, NEW answer \in Replies, Answer(r, answer)
    PROVE  LocalOK'
<1>1. NoMem \in MemType
  BY ContentClosed DEF NoMem, MemType
<1>2. "idle" \in Steps
  BY DEF Steps
<1> QED  BY <1>1, <1>2 DEF LocalOK, Answer
-----------------------------------------------------------------------------
(* Types and control: every handler keeps them, one lemma per request.      *)

Control == TypeOK /\ \A r \in Requests : HandlerOK(r)

\* No row and no file that a handler may rely on goes away.
Stays == /\ \A d \in DOMAIN docs : d \in DOMAIN docs' /\ docs'[d].path = docs[d].path
         /\ DOMAIN files \subseteq DOMAIN files'

LEMMA HandlerFrame ==
    ASSUME Control, Stays, NEW q \in Requests,
           pc'[q] = pc[q], mem'[q] = mem[q], job'[q] = job[q]
    PROVE  HandlerOK(q)'
<1>1. HandlerOK(q)
  BY DEF Control
<1>2. ASSUME mem[q].open
      PROVE  /\ pc[q] \in {"save_copy", "signed_write", "temp_copy"}
             /\ WritePath(q)' \in DOMAIN files'
  <2>1. pc[q] \in {"save_copy", "signed_write", "temp_copy"} /\ WritePath(q) \in DOMAIN files
    BY <1>1, <1>2 DEF HandlerOK, Exists
  <2>2. WritePath(q)' = WritePath(q)
    <3>1. pc[q] = "signed_write" => mem[q].doc \in DOMAIN docs
      BY <1>1 DEF HandlerOK, SignSteps
    <3> QED  BY <3>1 DEF WritePath, Stays
  <2> QED  BY <2>1, <2>2 DEF Stays
<1> QED  BY <1>1, <1>2 DEF HandlerOK, Stays, Exists

LEMMA GotoKeeps ==
    ASSUME Control, Stays, NEW r \in Requests, NEW step \in Steps, NEW m \in MemType,
           Goto(r, step, m), HandlerOK(r)'
    PROVE  LocalOK' /\ \A q \in Requests : HandlerOK(q)'
<1>1. LocalOK'
  BY GotoType DEF Control, TypeOK
<1>2. ASSUME NEW q \in Requests, q # r  PROVE HandlerOK(q)'
  BY <1>2, HandlerFrame DEF Goto, Control, TypeOK, LocalOK
<1> QED  BY <1>1, <1>2

LEMMA AnswerKeeps ==
    ASSUME Control, Stays, NEW r \in Requests, NEW answer \in Replies, Answer(r, answer)
    PROVE  LocalOK' /\ \A q \in Requests : HandlerOK(q)'
<1>1. LocalOK'
  BY AnswerType DEF Control, TypeOK
<1>2. ASSUME NEW q \in Requests, q # r  PROVE HandlerOK(q)'
  BY <1>2, HandlerFrame DEF Answer, Control, TypeOK, LocalOK
<1>3. HandlerOK(r)'
  BY DEF Answer, HandlerOK, Control, TypeOK, LocalOK, NoMem, UploadSteps,
         VerifySteps, SignSteps
<1> QED  BY <1>1, <1>2, <1>3

LEMMA BeginKeeps ==
    ASSUME Control, NEW r \in Requests, NEW j \in JobType, NEW m \in MemType,
           NEW step \in {"save_create", "find_doc", "temp_create"},
           Begin(r, j, m, step),
           j.user \in Users, step # "find_doc" => j.name \in Path, ~m.open,
           step = "temp_create" => j.op = "verify"
    PROVE  Control'
<1>1. LocalOK'
  BY BeginType DEF Control, TypeOK, Steps, UploadSteps, SignSteps, VerifySteps
<1>2. TablesOK' /\ DiskOK' /\ Stays
  BY DEF Begin, Control, TypeOK, TablesOK, DiskOK, tables, disk, Stays
<1>3. ASSUME NEW q \in Requests, q # r  PROVE HandlerOK(q)'
  BY <1>2, <1>3, HandlerFrame DEF Begin, Control, TypeOK, LocalOK
<1>4. HandlerOK(r)'
  BY DEF Begin, HandlerOK, Control, TypeOK, LocalOK, UploadSteps, VerifySteps,
         SignSteps
<1> QED  BY <1>1, <1>2, <1>3, <1>4 DEF Control, TypeOK

LEMMA MemFacts ==
    ASSUME Control, NEW r \in Requests
    PROVE  /\ mem[r] \in MemType /\ job[r] \in JobType /\ pc[r] \in Steps
           /\ HandlerOK(r)
           /\ \A c \in Content : [mem[r] EXCEPT !.seen = c] \in MemType
           /\ \A o \in BOOLEAN : [mem[r] EXCEPT !.open = o] \in MemType
           /\ \A d \in Nat : [mem[r] EXCEPT !.doc = d] \in MemType
           /\ \A v \in BOOLEAN : [mem[r] EXCEPT !.verdict = v] \in MemType
<1>1. mem[r] \in MemType /\ job[r] \in JobType /\ pc[r] \in Steps
  BY DEF Control, TypeOK, LocalOK
<1>2. HandlerOK(r)
  BY DEF Control
<1>3. \A c \in Content : [mem[r] EXCEPT !.seen = c] \in MemType
  BY <1>1 DEF MemType
<1>4. \A o \in BOOLEAN : [mem[r] EXCEPT !.open = o] \in MemType
  BY <1>1 DEF MemType
<1>5. \A d \in Nat : [mem[r] EXCEPT !.doc = d] \in MemType
  BY <1>1 DEF MemType
<1>6. \A v \in BOOLEAN : [mem[r] EXCEPT !.verdict = v] \in MemType
  BY <1>1 DEF MemType
<1> QED  BY <1>1, <1>2, <1>3, <1>4, <1>5, <1>6

LEMMA DocFacts ==
    ASSUME TablesOK, NEW d \in DOMAIN docs
    PROVE  d \in Nat /\ docs[d] \in DocType /\ docs[d].path \in Path
           /\ docs[d].digest \in DigestType /\ docs[d].user \in Users
<1>1. docs \in Seq(DocType)
  BY DEF TablesOK
<1>2. d \in 1 .. Len(docs)
  BY <1>1
<1>3. docs[d] \in DocType
  BY <1>1, <1>2, ElementOfSeq
<1> QED  BY <1>2, <1>3 DEF DocType

LEMMA SigFacts ==
    ASSUME TablesOK, NEW s \in DOMAIN sigs
    PROVE  s \in Nat /\ sigs[s] \in SigType /\ sigs[s].raw \in Nat /\ sigs[s].key \in Nat
<1>1. sigs \in Seq(SigType)
  BY DEF TablesOK
<1>2. s \in 1 .. Len(sigs)
  BY <1>1
<1>3. sigs[s] \in SigType
  BY <1>1, <1>2, ElementOfSeq
<1> QED  BY <1>2, <1>3 DEF SigType

LEMMA StayRefl ==
    ASSUME UNCHANGED docs, DOMAIN files \subseteq DOMAIN files'
    PROVE  Stays
BY DEF Stays

-----------------------------------------------------------------------------

LEMMA SendableType ==
    ASSUME Control
    PROVE  Sendable \subseteq Content
<1>1. Bodies \subseteq Content
  BY SigningAssumption
<1>2. \A p \in DOMAIN files : files[p] \in Content
  BY DEF Control, TypeOK, DiskOK
<1>3. \A c \in Bodies, s \in DOMAIN sigs : Attach(c, sigs[s].raw) \in Content
  <2>1. \A s \in DOMAIN sigs : sigs[s].raw \in Nat
    BY SigFacts DEF Control, TypeOK
  <2> QED  BY <1>1, <2>1, AttachType
<1> QED  BY <1>1, <1>2, <1>3 DEF Sendable

LEMMA RequestKeepsControl ==
    ASSUME Control, NEW r \in Requests, Request(r)
    PROVE  Control'
<1>1. CASE Upload(r)
  <2>1. PICK u \in Users, n \in UploadNames, b \in Bodies :
           Begin(r, [op |-> "upload", user |-> u, name |-> n, body |-> b], NoMem,
                 "save_create")
    BY <1>1 DEF Upload
  <2> DEFINE j == [op |-> "upload", user |-> u, name |-> n, body |-> b]
  <2>2. n \in Path /\ b \in Content
    BY SigningAssumption DEF Path
  <2>3. j \in JobType /\ j.user \in Users /\ j.name \in Path
    BY <2>2 DEF JobType
  <2>4. NoMem \in MemType /\ ~NoMem.open
    BY ContentClosed DEF NoMem, MemType
  <2> QED  BY <2>1, <2>3, <2>4, BeginKeeps
<1>2. CASE Sign(r)
  <2>1. PICK u \in Users, d \in 1 .. MaxDocs :
           Begin(r, [op |-> "sign", user |-> u, name |-> None, body |-> <<>>],
                 [NoMem EXCEPT !.doc = d], "find_doc")
    BY <1>2 DEF Sign
  <2> DEFINE j == [op |-> "sign", user |-> u, name |-> None, body |-> <<>>]
             m == [NoMem EXCEPT !.doc = d]
  <2>2. j \in JobType /\ j.user \in Users
    BY ContentClosed DEF JobType
  <2>3. m \in MemType /\ ~m.open
    <3>1. d \in Nat
      BY SigningAssumption
    <3>2. NoMem \in MemType /\ ~NoMem.open
      BY ContentClosed DEF NoMem, MemType
    <3> QED  BY <3>1, <3>2 DEF MemType
  <2>4. Begin(r, j, m, "find_doc")
    BY <2>1
  <2> HIDE DEF j, m
  <2> QED  BY <2>2, <2>3, <2>4, BeginKeeps
<1>3. CASE Verify(r)
  <2>1. PICK u \in Users, n \in VerifyNames, b \in Sendable :
           Begin(r, [op |-> "verify", user |-> u, name |-> n, body |-> b], NoMem,
                 "temp_create")
    BY <1>3 DEF Verify
  <2> DEFINE j == [op |-> "verify", user |-> u, name |-> n, body |-> b]
  <2>2. n \in Path
    BY SigningAssumption DEF Path
  <2>3. b \in Content
    BY SendableType
  <2>4. j \in JobType /\ j.user \in Users /\ j.name \in Path /\ j.op = "verify"
    BY <2>2, <2>3 DEF JobType
  <2>5. NoMem \in MemType /\ ~NoMem.open
    BY ContentClosed DEF NoMem, MemType
  <2> QED  BY <2>1, <2>4, <2>5, BeginKeeps
<1> QED  BY <1>1, <1>2, <1>3 DEF Request

LEMMA UploadKeepsControl ==
    ASSUME Control, NEW r \in Requests, UploadStep(r)
    PROVE  Control'
<1> USE DEF Control, TypeOK
<1>1. HandlerOK(r)
  OBVIOUS
<1>2. CASE SaveCreate(r)
  <2>1. job[r].name \in Path
    BY <1>1, <1>2 DEF SaveCreate, HandlerOK, UploadSteps
  <2>2. /\ files' \in [DOMAIN files' -> Content] /\ DOMAIN files' \subseteq Path
        /\ DOMAIN files' = DOMAIN files \cup {job[r].name}
    BY <1>2, <2>1, PutType, ContentClosed DEF SaveCreate
  <2>3. TablesOK' /\ DiskOK' /\ Stays
    BY <1>2, <2>2 DEF SaveCreate, TablesOK, DiskOK, tables, Stays
  <2>4. Goto(r, "save_copy", [mem[r] EXCEPT !.open = TRUE])
    BY <1>2 DEF SaveCreate
  <2>5. HandlerOK(r)'
    BY <1>1, <1>2, <2>2, <2>4 DEF SaveCreate, Goto, HandlerOK, Exists, WritePath, LocalOK,
       UploadSteps, VerifySteps, SignSteps
  <2> QED  BY <2>3, <2>4, <2>5, GotoKeeps, MemFacts DEF Steps, UploadSteps
<1>3. CASE SaveCopy(r)
  <2>1. /\ job[r].name \in Path /\ job[r].body \in Content
        /\ mem[r].open => Exists(job[r].name)
    BY <1>1, <1>3, MemFacts DEF SaveCopy, HandlerOK, UploadSteps, WritePath, JobType
  <2>2. files' \in [DOMAIN files' -> Content] /\ DOMAIN files' = DOMAIN files
    BY <1>3, <2>1, WriteToType DEF SaveCopy
  <2>3. TablesOK' /\ DiskOK' /\ Stays
    BY <1>3, <2>2 DEF SaveCopy, TablesOK, DiskOK, tables, Stays
  <2>4. Goto(r, "read_upload", [mem[r] EXCEPT !.open = FALSE])
    BY <1>3 DEF SaveCopy
  <2>5. HandlerOK(r)'
    BY <1>1, <1>3, <2>4, MemFacts DEF SaveCopy, Goto, HandlerOK, LocalOK, MemType,
       UploadSteps, VerifySteps, SignSteps
  <2> QED  BY <2>3, <2>4, <2>5, GotoKeeps, MemFacts DEF Steps, UploadSteps
<1>4. CASE ReadUpload(r)
  <2>1. TablesOK' /\ DiskOK' /\ Stays
    BY <1>4 DEF ReadUpload, TablesOK, DiskOK, tables, disk, Stays
  <2>2. CASE Exists(job[r].name)
    <3>1. files[job[r].name] \in Content
      BY <2>2 DEF Exists, DiskOK
    <3>2. Goto(r, "insert_doc", [mem[r] EXCEPT !.seen = files[job[r].name]])
      BY <1>4, <2>2 DEF ReadUpload
    <3>3. HandlerOK(r)'
      BY <1>1, <1>4, <3>2, MemFacts DEF ReadUpload, Goto, HandlerOK, LocalOK, MemType,
         UploadSteps, VerifySteps, SignSteps
    <3> QED  BY <2>1, <3>1, <3>2, <3>3, GotoKeeps, MemFacts DEF Steps, UploadSteps
  <2>3. CASE ~Exists(job[r].name)
    BY <1>4, <2>1, <2>3, AnswerKeeps DEF ReadUpload, Replies
  <2> QED  BY <2>2, <2>3
<1>5. CASE InsertDoc(r)
  <2> DEFINE row == [user |-> job[r].user, path |-> job[r].name,
                     digest |-> Digest(mem[r].seen), status |-> "uploaded", live |-> TRUE]
  <2>1. row \in DocType
    BY <1>1, <1>5, MemFacts DEF InsertDoc, HandlerOK, UploadSteps, DocType, DigestType,
       Digest, MemType
  <2>2. docs' = Append(docs, row)
    BY <1>5 DEF InsertDoc
  <2> HIDE DEF row
  <2>3. docs' \in Seq(DocType) /\ Stays
    BY <1>5, <2>1, <2>2 DEF InsertDoc, TablesOK, Stays, disk
  <2>4. TablesOK' /\ DiskOK'
    BY <1>5, <2>3 DEF InsertDoc, TablesOK, DiskOK, disk
  <2> QED  BY <1>5, <2>3, <2>4, AnswerKeeps DEF InsertDoc, Committed, Replies
<1> QED  BY <1>2, <1>3, <1>4, <1>5 DEF UploadStep
LEMMA SignKeepsControl ==
    ASSUME Control, NEW r \in Requests, SignStep(r)
    PROVE  Control'
<1> USE DEF Control, TypeOK
<1>1. HandlerOK(r) /\ mem[r] \in MemType /\ job[r] \in JobType
  BY MemFacts
<1>2. CASE FindDoc(r)
  <2>1. TablesOK' /\ DiskOK' /\ Stays
    BY <1>2 DEF FindDoc, TablesOK, DiskOK, tables, disk, Stays
  <2>2. CASE LiveDoc(mem[r].doc)
    <3>1. Goto(r, "find_signer", mem[r])
      BY <1>2, <2>2 DEF FindDoc
    <3>2. HandlerOK(r)'
      BY <1>1, <1>2, <2>1, <2>2, <3>1 DEF FindDoc, Goto, HandlerOK, LocalOK, LiveDoc, Stays,
         UploadSteps, VerifySteps, SignSteps
    <3> QED  BY <1>1, <2>1, <3>1, <3>2, GotoKeeps DEF Steps, SignSteps
  <2>3. CASE ~LiveDoc(mem[r].doc)
    BY <1>2, <2>1, <2>3, AnswerKeeps DEF FindDoc, Replies
  <2> QED  BY <2>2, <2>3
<1>3. CASE FindSigner(r)
  <2>1. TablesOK' /\ DiskOK' /\ Stays
    BY <1>3 DEF FindSigner, TablesOK, DiskOK, tables, disk, Stays
  <2>2. CASE users[job[r].user]
    <3>1. Goto(r, "seal", mem[r])
      BY <1>3, <2>2 DEF FindSigner
    <3>2. HandlerOK(r)'
      BY <1>1, <1>3, <2>1, <3>1 DEF FindSigner, Goto, HandlerOK, LocalOK, Stays,
         UploadSteps, VerifySteps, SignSteps
    <3> QED  BY <1>1, <2>1, <3>1, <3>2, GotoKeeps DEF Steps, SignSteps
  <2>3. CASE ~users[job[r].user]
    BY <1>3, <2>1, <2>3, AnswerKeeps DEF FindSigner, Replies
  <2> QED  BY <2>2, <2>3
<1>4. CASE Seal(r)
  <2> DEFINE doc == docs[mem[r].doc]
             k   == Len(signed) + 1
             m   == [mem[r] EXCEPT !.key = k, !.seen = Attach(files[doc.path], k)]
  <2>1. mem[r].doc \in DOMAIN docs /\ doc \in DocType /\ doc.digest \in DigestType
    BY <1>1, <1>4, DocFacts DEF Seal, HandlerOK, SignSteps
  <2>2. signed' \in Seq(DigestType) /\ k \in Nat
    BY <1>4, <2>1 DEF Seal, TablesOK
  <2>3. TablesOK' /\ DiskOK' /\ Stays
    BY <1>4, <2>2 DEF Seal, TablesOK, DiskOK, disk, Stays
  <2>4. CASE Exists(doc.path)
    <3>1. Attach(files[doc.path], k) \in Content
      BY <2>2, <2>4, AttachType DEF Exists, DiskOK
    <3>2. m \in MemType
      BY <1>1, <2>2, <3>1 DEF MemType
    <3>3. Goto(r, "signed_create", m)
      BY <1>4, <2>4 DEF Seal
    <3>4. ~mem[r].open /\ ~m.open /\ m.doc = mem[r].doc
      BY <1>1, <1>4 DEF Seal, HandlerOK, MemType
    <3> HIDE DEF m
    <3>5. HandlerOK(r)'
      BY <1>1, <1>4, <2>1, <2>3, <3>3, <3>4 DEF Seal, Goto, HandlerOK, LocalOK, Stays,
         UploadSteps, VerifySteps, SignSteps
    <3> QED  BY <2>3, <3>2, <3>3, <3>5, GotoKeeps DEF Steps, SignSteps
  <2>5. CASE ~Exists(doc.path)
    BY <1>4, <2>3, <2>5, AnswerKeeps DEF Seal, Replies
  <2> QED  BY <2>4, <2>5
<1>5. CASE SignedCreate(r)
  <2> DEFINE p == SignedPath(docs[mem[r].doc].path)
  <2>1. mem[r].doc \in DOMAIN docs /\ p \in Path
    BY <1>1, <1>5, DocFacts, PathClosed DEF SignedCreate, HandlerOK, SignSteps
  <2>2. /\ files' \in [DOMAIN files' -> Content] /\ DOMAIN files' \subseteq Path
        /\ DOMAIN files' = DOMAIN files \cup {p}
    BY <1>5, <2>1, PutType, ContentClosed DEF SignedCreate
  <2>3. TablesOK' /\ DiskOK' /\ Stays
    BY <1>5, <2>2 DEF SignedCreate, TablesOK, DiskOK, tables, Stays
  <2>4. Goto(r, "signed_write", [mem[r] EXCEPT !.open = TRUE])
    BY <1>5 DEF SignedCreate
  <2>5. mem'[r] = [mem[r] EXCEPT !.open = TRUE] /\ mem'[r].doc = mem[r].doc
    BY <1>1, <2>4 DEF Goto, LocalOK, MemType
  <2>6. WritePath(r)' = p
    BY <1>5, <2>4, <2>5 DEF SignedCreate, Goto, WritePath, LocalOK, tables
  <2> HIDE DEF p
  <2>7. HandlerOK(r)'
    BY <1>1, <1>5, <2>1, <2>2, <2>3, <2>4, <2>5, <2>6 DEF SignedCreate, Goto, HandlerOK,
       Exists, LocalOK, Stays, UploadSteps, VerifySteps, SignSteps
  <2> QED  BY <2>3, <2>4, <2>7, GotoKeeps, MemFacts DEF Steps, SignSteps
<1>6. CASE SignedWrite(r)
  <2> DEFINE p == SignedPath(docs[mem[r].doc].path)
  <2>1. mem[r].doc \in DOMAIN docs /\ p \in Path
    BY <1>1, <1>6, DocFacts, PathClosed DEF SignedWrite, HandlerOK, SignSteps
  <2>2. mem[r].open => Exists(p)
    BY <1>1, <1>6 DEF SignedWrite, HandlerOK, WritePath
  <2>3. files' \in [DOMAIN files' -> Content] /\ DOMAIN files' = DOMAIN files
    BY <1>1, <1>6, <2>1, <2>2, WriteToType DEF SignedWrite, MemType
  <2> HIDE DEF p
  <2>4. TablesOK' /\ DiskOK' /\ Stays
    BY <1>6, <2>3 DEF SignedWrite, TablesOK, DiskOK, tables, Stays
  <2>5. Goto(r, "insert_sig", [mem[r] EXCEPT !.open = FALSE])
    BY <1>6 DEF SignedWrite
  <2>6. mem'[r].doc = mem[r].doc /\ ~mem'[r].open
    BY <1>1, <2>5 DEF Goto, LocalOK, MemType
  <2>7. HandlerOK(r)'
    BY <1>1, <1>6, <2>1, <2>4, <2>5, <2>6 DEF SignedWrite, Goto, HandlerOK, LocalOK, Stays,
       UploadSteps, VerifySteps, SignSteps
  <2> QED  BY <2>4, <2>5, <2>7, GotoKeeps, MemFacts DEF Steps, SignSteps
<1>7. CASE InsertSig(r)
  <2> DEFINE row == [doc |-> mem[r].doc, signer |-> job[r].user, raw |-> mem[r].key,
                     key |-> mem[r].key, live |-> TRUE]
  <2>1. row \in SigType
    BY <1>1, <1>7 DEF InsertSig, HandlerOK, SignSteps, SigType, MemType
  <2>2. sigs' = Append(sigs, row)
    BY <1>7 DEF InsertSig
  <2> HIDE DEF row
  <2>3. TablesOK' /\ DiskOK' /\ Stays
    BY <1>7, <2>1, <2>2 DEF InsertSig, TablesOK, DiskOK, disk, Stays
  <2> QED  BY <1>7, <2>3, AnswerKeeps DEF InsertSig, Committed, Replies
<1> QED  BY <1>2, <1>3, <1>4, <1>5, <1>6, <1>7 DEF SignStep
LEMMA RemoveKeepsControl ==
    ASSUME Control, NEW r \in Requests, RemoveTemp(r)
    PROVE  Control'
<1> DEFINE p == TempPath(job[r].name)
           Orphaned(q) == q # r /\ mem[q].open /\ WritePath(q) = p
<1> USE DEF Control, TypeOK
<1>1. TablesOK' /\ job' = job /\ docs' = docs
  BY DEF RemoveTemp, TablesOK, tables
<1>2. files' = [q \in DOMAIN files \ {p} |-> files[q]]
  BY DEF RemoveTemp
<1>3. DOMAIN files' = DOMAIN files \ {p} /\ DiskOK'
  BY <1>2 DEF RemoveTemp, DiskOK
<1>4. pc' = [pc EXCEPT ![r] = "idle"]
  BY DEF RemoveTemp
<1>5. mem' = [q \in Requests |-> IF q = r THEN NoMem
                                 ELSE [mem[q] EXCEPT !.open = @ /\ ~Orphaned(q)]]
  BY DEF RemoveTemp
<1>6. NoMem \in MemType /\ ~NoMem.open /\ ~NoMem.verdict
  BY ContentClosed DEF NoMem, MemType
<1>7. ASSUME NEW q \in Requests, q # r
      PROVE  /\ mem'[q] \in MemType /\ pc'[q] = pc[q]
             /\ mem'[q].doc = mem[q].doc
             /\ mem'[q].open => mem[q].open /\ WritePath(q) # p
  <2> DEFINE o == mem[q].open /\ ~Orphaned(q)
  <2>1. mem[q] \in MemType
    BY MemFacts
  <2>2. mem'[q] = [mem[q] EXCEPT !.open = o]
    BY <1>5, <1>7
  <2>3. o \in BOOLEAN /\ (o => mem[q].open /\ WritePath(q) # p)
    BY <1>7
  <2> HIDE DEF o, Orphaned
  <2> QED  BY <1>4, <1>7, <2>1, <2>2, <2>3 DEF MemType, LocalOK
<1>8. LocalOK'
  <2>1. mem' \in [Requests -> MemType]
    <3>1. \A q \in Requests : mem'[q] \in MemType
      BY <1>5, <1>6, <1>7
    <3>2. mem' = [q \in Requests |-> mem'[q]]
      BY <1>5
    <3> QED  BY <3>1, <3>2
  <2>2. reply' \in [Requests -> Replies]
    BY DEF RemoveTemp, LocalOK, Replies
  <2> QED  BY <1>1, <1>4, <2>1, <2>2 DEF LocalOK, Steps
<1>9. ASSUME NEW q \in Requests  PROVE HandlerOK(q)'
  <2>1. CASE q = r
    BY <1>4, <1>5, <1>6, <2>1 DEF HandlerOK, LocalOK, UploadSteps, VerifySteps, SignSteps
  <2>2. CASE q # r
    <3>1. HandlerOK(q)
      OBVIOUS
    <3>2. WritePath(q)' = WritePath(q)
      BY <1>1, <1>7, <2>2 DEF WritePath
    <3>3. mem'[q].open => /\ pc'[q] \in {"save_copy", "signed_write", "temp_copy"}
                          /\ WritePath(q)' \in DOMAIN files'
      BY <1>3, <1>7, <2>2, <3>1, <3>2 DEF HandlerOK, Exists
    <3> QED  BY <1>1, <1>7, <2>2, <3>1, <3>3 DEF HandlerOK, Exists
  <2> QED  BY <2>1, <2>2
<1> QED  BY <1>1, <1>3, <1>8, <1>9

LEMMA VerifyKeepsControl ==
    ASSUME Control, NEW r \in Requests, VerifyStep(r)
    PROVE  Control'
<1> USE DEF Control, TypeOK
<1>1. HandlerOK(r) /\ mem[r] \in MemType /\ job[r] \in JobType
  BY MemFacts
<1>2. CASE TempCreate(r)
  <2> DEFINE p == TempPath(job[r].name)
  <2>1. job[r].name \in Path /\ p \in Path
    BY <1>1, <1>2, PathClosed DEF TempCreate, HandlerOK, VerifySteps
  <2>2. CASE dir
    <3>1. Put(p, <<>>) /\ Goto(r, "temp_copy", [mem[r] EXCEPT !.open = TRUE])
      BY <1>2, <2>2 DEF TempCreate
    <3>2. /\ files' \in [DOMAIN files' -> Content] /\ DOMAIN files' \subseteq Path
          /\ DOMAIN files' = DOMAIN files \cup {p}
      BY <2>1, <3>1, PutType, ContentClosed
    <3>3. TablesOK' /\ DiskOK' /\ Stays
      BY <1>2, <3>2 DEF TempCreate, TablesOK, DiskOK, tables, Stays
    <3>4. WritePath(r)' = p
      BY <1>2, <3>1 DEF TempCreate, Goto, WritePath, LocalOK
    <3> HIDE DEF p
    <3>5. HandlerOK(r)'
      BY <1>1, <1>2, <3>1, <3>2, <3>4 DEF TempCreate, Goto, HandlerOK, Exists, LocalOK,
         UploadSteps, VerifySteps, SignSteps
    <3> QED  BY <3>1, <3>3, <3>5, GotoKeeps, MemFacts DEF Steps, VerifySteps
  <2>3. CASE ~dir
    <3>1. Answer(r, "failed") /\ UNCHANGED <<users, docs, sigs, signed, dir, files, torn>>
      BY <1>2, <2>3 DEF TempCreate, tables
    <3>2. TablesOK' /\ DiskOK' /\ Stays
      BY <3>1 DEF TablesOK, DiskOK, Stays
    <3> QED  BY <3>1, <3>2, AnswerKeeps DEF Replies
  <2> QED  BY <2>2, <2>3
<1>3. CASE TempCopy(r)
  <2> DEFINE p == TempPath(job[r].name)
  <2>1. p \in Path /\ job[r].body \in Content
    BY <1>1, <1>3, PathClosed DEF TempCopy, HandlerOK, VerifySteps, JobType
  <2>2. mem[r].open => Exists(p)
    BY <1>1, <1>3 DEF TempCopy, HandlerOK, WritePath
  <2>3. files' \in [DOMAIN files' -> Content] /\ DOMAIN files' = DOMAIN files
    BY <1>3, <2>1, <2>2, WriteToType DEF TempCopy
  <2>4. TablesOK' /\ DiskOK' /\ Stays
    BY <1>3, <2>3 DEF TempCopy, TablesOK, DiskOK, tables, Stays
  <2>5. Goto(r, "temp_read", [mem[r] EXCEPT !.open = FALSE])
    BY <1>3 DEF TempCopy
  <2>6. HandlerOK(r)'
    BY <1>1, <1>3, <2>5 DEF TempCopy, Goto, HandlerOK, LocalOK, MemType, UploadSteps,
       VerifySteps, SignSteps
  <2> QED  BY <2>4, <2>5, <2>6, GotoKeeps, MemFacts DEF Steps, VerifySteps
<1>4. CASE TempRead(r)
  <2> DEFINE p == TempPath(job[r].name)
  <2>1. TablesOK' /\ DiskOK' /\ Stays
    BY <1>4 DEF TempRead, TablesOK, DiskOK, tables, disk, Stays
  <2>2. ~mem[r].open
    BY <1>1, <1>4 DEF TempRead, HandlerOK
  <2>3. CASE Exists(p) /\ HasSignature(files[p])
    <3>1. files[p] \in Content
      BY <2>3 DEF Exists, DiskOK
    <3>2. Goto(r, "find_by_digest", [mem[r] EXCEPT !.seen = files[p]])
      BY <1>4, <2>3 DEF TempRead
    <3> HIDE DEF p
    <3>3. HandlerOK(r)'
      BY <1>1, <1>4, <2>2, <3>2 DEF TempRead, Goto, HandlerOK, LocalOK, MemType,
         UploadSteps, VerifySteps, SignSteps
    <3> QED  BY <2>1, <3>1, <3>2, <3>3, GotoKeeps, MemFacts DEF Steps, VerifySteps
  <2>4. CASE ~(Exists(p) /\ HasSignature(files[p]))
    <3>1. Goto(r, "remove", mem[r])
      BY <1>4, <2>4 DEF TempRead
    <3> HIDE DEF p
    <3>2. HandlerOK(r)'
      BY <1>1, <1>4, <2>2, <3>1 DEF TempRead, Goto, HandlerOK, LocalOK,
         UploadSteps, VerifySteps, SignSteps
    <3> QED  BY <1>1, <2>1, <3>1, <3>2, GotoKeeps DEF Steps, VerifySteps
  <2> QED  BY <2>3, <2>4
<1>5. CASE FindByDigest(r)
  <2>1. TablesOK' /\ DiskOK' /\ Stays
    BY <1>5 DEF FindByDigest, TablesOK, DiskOK, tables, disk, Stays
  <2>2. ~mem[r].open /\ pc[r] = "find_by_digest"
    BY <1>1, <1>5 DEF FindByDigest, HandlerOK
  <2>3. CASE Goto(r, "remove", mem[r])
    <3>1. HandlerOK(r)'
      BY <1>1, <2>2, <2>3 DEF Goto, HandlerOK, LocalOK, UploadSteps, VerifySteps, SignSteps
    <3> QED  BY <1>1, <2>1, <2>3, <3>1, GotoKeeps DEF Steps, VerifySteps
  <2>4. ASSUME NEW d \in DOMAIN docs, Goto(r, "find_sigs", [mem[r] EXCEPT !.doc = d])
        PROVE  Control'
    <3>1. d \in Nat
      BY DocFacts
    <3>2. HandlerOK(r)'
      BY <1>1, <2>1, <2>2, <2>4 DEF Goto, HandlerOK, LocalOK, MemType, Stays, UploadSteps,
         VerifySteps, SignSteps
    <3> QED  BY <2>1, <2>4, <3>1, <3>2, GotoKeeps, MemFacts DEF Steps, VerifySteps
  <2> QED  BY <1>5, <2>3, <2>4 DEF FindByDigest, FirstOf
<1>6. CASE FindSigs(r)
  <2>1. TablesOK' /\ DiskOK' /\ Stays
    BY <1>6 DEF FindSigs, TablesOK, DiskOK, tables, disk, Stays
  <2>2. ~mem[r].open /\ pc[r] = "find_sigs"
    BY <1>1, <1>6 DEF FindSigs, HandlerOK
  <2>3. ASSUME NEW m \in MemType, ~m.open, Goto(r, "remove", m)
        PROVE  Control'
    <3>1. HandlerOK(r)'
      BY <1>1, <2>2, <2>3 DEF Goto, HandlerOK, LocalOK, UploadSteps, VerifySteps, SignSteps
    <3> QED  BY <2>1, <2>3, <3>1, GotoKeeps DEF Steps, VerifySteps
  <2>4. CASE SignaturesOf(mem[r].doc) = {}
    BY <1>1, <1>6, <2>2, <2>3, <2>4 DEF FindSigs
  <2>5. CASE SignaturesOf(mem[r].doc) # {}
    <3>1. PICK s \in SignaturesOf(mem[r].doc) :
             Goto(r, "remove", [mem[r] EXCEPT
                   !.verdict = VerifySignatureRaw(Claim(mem[r].seen),
                                   Original(mem[r].seen), sigs[s].key)])
      BY <1>6, <2>5 DEF FindSigs
    <3> DEFINE v == VerifySignatureRaw(Claim(mem[r].seen), Original(mem[r].seen), sigs[s].key)
    <3>2. v \in BOOLEAN
      BY DEF VerifySignatureRaw
    <3> HIDE DEF v
    <3>3. [mem[r] EXCEPT !.verdict = v] \in MemType /\ ~[mem[r] EXCEPT !.verdict = v].open
      BY <1>1, <2>2, <3>2 DEF MemType
    <3>4. Goto(r, "remove", [mem[r] EXCEPT !.verdict = v])
      BY <3>1 DEF v
    <3> QED  BY <2>3, <3>3, <3>4
  <2> QED  BY <2>4, <2>5
<1>7. CASE RemoveTemp(r)
  BY <1>7, RemoveKeepsControl
<1> QED  BY <1>2, <1>3, <1>4, <1>5, <1>6, <1>7 DEF VerifyStep
LEMMA CutShortType ==
    ASSUME DiskOK, NEW r \in Requests, NEW p \in Path, NEW c \in Content,
           mem[r].open => Exists(p), CutShort(r, p, c)
    PROVE  /\ files' \in [DOMAIN files' -> Content]
           /\ DOMAIN files' = DOMAIN files
<1>1. PICK k \in 0 .. Len(c) : WriteTo(r, p, SubSeq(c, 1, k))
  BY DEF CutShort
<1>2. SubSeq(c, 1, k) \in Content
  BY DEF Content
<1> QED  BY <1>1, <1>2, WriteToType

LEMMA FaultKeepsControl ==
    ASSUME Control, NEW r \in Requests, Fault(r)
    PROVE  Control'
<1> USE DEF Control, TypeOK
<1>1. HandlerOK(r) /\ mem[r] \in MemType /\ job[r] \in JobType
  BY MemFacts
<1>2. CASE DbFails(r)
  <2>1. TablesOK' /\ DiskOK' /\ Stays
    BY <1>2 DEF DbFails, TablesOK, DiskOK, tables, disk, Stays
  <2>2. CASE Answer(r, "failed")
    BY <2>1, <2>2, AnswerKeeps DEF Replies
  <2>3. CASE pc[r] \in {"find_by_digest", "find_sigs"} /\ Goto(r, "remove", mem[r])
    <3>1. HandlerOK(r)'
      BY <1>1, <2>3 DEF Goto, HandlerOK, LocalOK, UploadSteps, VerifySteps, SignSteps
    <3> QED  BY <1>1, <2>1, <2>3, <3>1, GotoKeeps DEF Steps, VerifySteps
  <2> QED  BY <1>2, <2>2, <2>3 DEF DbFails
<1>3. CASE WriteFails(r)
  <2> DEFINE Ends == /\ files' \in [DOMAIN files' -> Content]
                     /\ DOMAIN files' = DOMAIN files /\ torn' \subseteq Path
                     /\ \E answer \in Replies : Answer(r, answer)
  <2>1. Ends
    <3>1. ASSUME pc[r] = "save_copy", CutShort(r, job[r].name, job[r].body),
                 Answer(r, "failed"), UNCHANGED torn
          PROVE  Ends
      <4>1. job[r].name \in Path /\ (mem[r].open => Exists(job[r].name))
        BY <1>1, <3>1 DEF HandlerOK, WritePath, UploadSteps
      <4> QED  BY <1>1, <3>1, <4>1, CutShortType DEF JobType, Replies, DiskOK
    <3>2. ASSUME pc[r] = "signed_write", Answer(r, "failed"),
                 CutShort(r, SignedPath(docs[mem[r].doc].path), mem[r].seen),
                 torn' = torn \cup {SignedPath(docs[mem[r].doc].path)}
          PROVE  Ends
      <4>1. SignedPath(docs[mem[r].doc].path) \in Path
        BY <1>1, <3>2, DocFacts, PathClosed DEF HandlerOK, SignSteps
      <4>2. mem[r].open => Exists(SignedPath(docs[mem[r].doc].path))
        BY <1>1, <3>2 DEF HandlerOK, WritePath
      <4> QED  BY <1>1, <3>2, <4>1, <4>2, CutShortType DEF MemType, Replies, DiskOK
    <3>3. ASSUME pc[r] = "temp_copy", CutShort(r, TempPath(job[r].name), job[r].body),
                 Answer(r, "failed"), UNCHANGED torn
          PROVE  Ends
      <4>1. TempPath(job[r].name) \in Path
        BY <1>1, <3>3, PathClosed DEF HandlerOK, VerifySteps
      <4>2. mem[r].open => Exists(TempPath(job[r].name))
        BY <1>1, <3>3 DEF HandlerOK, WritePath
      <4> QED  BY <1>1, <3>3, <4>1, <4>2, CutShortType DEF JobType, Replies, DiskOK
    <3> QED  BY <1>3, <3>1, <3>2, <3>3 DEF WriteFails
  <2>2. TablesOK' /\ DiskOK' /\ Stays
    BY <1>3, <2>1 DEF WriteFails, TablesOK, DiskOK, tables, Stays
  <2> QED  BY <2>1, <2>2, AnswerKeeps
<1> QED  BY <1>2, <1>3 DEF Fault

LEMMA DeleteKeepsControl ==
    ASSUME Control, Delete
    PROVE  Control'
<1> USE DEF Control, TypeOK
<1> DEFINE RowsStay == \A d \in DOMAIN docs :
                          d \in DOMAIN docs' /\ docs'[d].path = docs[d].path
<1>1. TablesOK' /\ RowsStay
  <2>1. ASSUME NEW d \in DOMAIN docs, DeleteDocument(d)  PROVE TablesOK' /\ RowsStay
    <3> DEFINE row == [docs[d] EXCEPT !.live = FALSE]
    <3>1. row \in DocType /\ row.path = docs[d].path
      BY DocFacts DEF DocType
    <3>2. docs' = [docs EXCEPT ![d] = row]
      BY <2>1 DEF DeleteDocument
    <3> HIDE DEF row
    <3>3. docs' \in Seq(DocType)
      BY <3>1, <3>2, ExceptSeq DEF TablesOK
    <3>4. RowsStay
      BY <3>1, <3>2
    <3> QED  BY <2>1, <3>3, <3>4 DEF DeleteDocument, TablesOK
  <2>2. ASSUME NEW s \in DOMAIN sigs, DeleteSignature(s)  PROVE TablesOK' /\ RowsStay
    <3> DEFINE row == [sigs[s] EXCEPT !.live = FALSE]
    <3>1. row \in SigType
      BY SigFacts DEF SigType
    <3>2. sigs' = [sigs EXCEPT ![s] = row]
      BY <2>2 DEF DeleteSignature
    <3> HIDE DEF row
    <3>3. sigs' \in Seq(SigType)
      BY <3>1, <3>2, ExceptSeq DEF TablesOK
    <3> QED  BY <2>2, <3>3 DEF DeleteSignature, TablesOK
  <2>3. ASSUME NEW u \in Users, DeleteUser(u)  PROVE TablesOK' /\ RowsStay
    BY <2>3 DEF DeleteUser, TablesOK
  <2> QED  BY <2>1, <2>2, <2>3 DEF Delete
<1>2. UNCHANGED <<dir, files, torn, pc, job, mem, reply>>
  BY DEF Delete, DeleteDocument, DeleteSignature, DeleteUser, disk, local
<1>3. DiskOK' /\ LocalOK' /\ Stays
  BY <1>1, <1>2 DEF DiskOK, LocalOK, Stays
<1>4. ASSUME NEW q \in Requests  PROVE HandlerOK(q)'
  BY <1>2, <1>3, HandlerFrame
<1> QED  BY <1>1, <1>3, <1>4

LEMMA IdleOK ==
    ASSUME pc' = [r \in Requests |-> "idle"], job' = [r \in Requests |-> NoJob],
           mem' = [r \in Requests |-> NoMem], reply' = [r \in Requests |-> "none"]
    PROVE  LocalOK' /\ \A r \in Requests : HandlerOK(r)'
<1>1. NoMem \in MemType /\ NoJob \in JobType /\ ~NoMem.open
  BY ContentClosed DEF NoMem, MemType, NoJob, JobType
<1>2. LocalOK'
  BY <1>1 DEF LocalOK, Steps, Replies
<1>3. ASSUME NEW r \in Requests  PROVE HandlerOK(r)'
  BY <1>1, <1>3 DEF HandlerOK, UploadSteps, SignSteps, VerifySteps
<1> QED  BY <1>2, <1>3

LEMMA RestartKeepsControl ==
    ASSUME Control, Crash \/ Redeploy
    PROVE  Control'
<1>1. TablesOK' /\ DiskOK'
  BY DEF Control, TypeOK, TablesOK, DiskOK, Crash, Redeploy, ProcessEnds, tables, disk
<1>2. LocalOK' /\ \A r \in Requests : HandlerOK(r)'
  BY IdleOK DEF Crash, Redeploy, ProcessEnds
<1> QED  BY <1>1, <1>2 DEF Control, TypeOK

LEMMA InitControl == Init => Control
<1> SUFFICES ASSUME Init  PROVE Control
  OBVIOUS
<1>1. NoMem \in MemType /\ NoJob \in JobType /\ ~NoMem.open
  BY ContentClosed DEF NoMem, MemType, NoJob, JobType
<1>2. TablesOK
  BY DEF Init, TablesOK
<1>3. DiskOK
  BY DEF Init, DiskOK
<1>4. LocalOK
  BY <1>1 DEF Init, LocalOK, Steps, Replies
<1>5. ASSUME NEW r \in Requests  PROVE HandlerOK(r)
  BY <1>1, <1>5 DEF Init, HandlerOK, UploadSteps, SignSteps, VerifySteps
<1> QED  BY <1>2, <1>3, <1>4, <1>5 DEF Control, TypeOK

LEMMA NextControl == Control /\ [Next]_vars => Control'
<1> SUFFICES ASSUME Control, [Next]_vars  PROVE Control'
  OBVIOUS
<1>1. ASSUME NEW r \in Requests, Request(r)  PROVE Control'
  BY <1>1, RequestKeepsControl
<1>2. ASSUME NEW r \in Requests, Step(r)  PROVE Control'
  BY <1>2, UploadKeepsControl, SignKeepsControl, VerifyKeepsControl, FaultKeepsControl
     DEF Step
<1>3. CASE Delete
  BY <1>3, DeleteKeepsControl
<1>4. CASE Crash \/ Redeploy
  BY <1>4, RestartKeepsControl
<1>5. CASE UNCHANGED vars
  <2>1. TypeOK' /\ Stays
    BY <1>5 DEF vars, Control, TypeOK, TablesOK, DiskOK, LocalOK, Stays
  <2>2. \A q \in Requests : HandlerOK(q)'
    BY <1>5, <2>1, HandlerFrame DEF vars
  <2> QED  BY <2>1, <2>2 DEF Control
<1> QED  BY <1>1, <1>2, <1>3, <1>4, <1>5 DEF Next

\* The tables, the files and the handlers' locals always hold values of their
\* types, whatever interleaves, fails or restarts.
THEOREM TypeCorrect == Spec => []TypeOK
<1>1. Control => TypeOK
  BY DEF Control
<1> QED  BY <1>1, InitControl, NextControl, PTL DEF Spec
-----------------------------------------------------------------------------
(* The tables only grow, and a row that is there keeps all but its live mark. *)

RowsKeep ==
    /\ \A d \in DOMAIN docs : d \in DOMAIN docs' /\
          docs'[d] \in {docs[d], [docs[d] EXCEPT !.live = FALSE]}
    /\ \A s \in DOMAIN sigs : s \in DOMAIN sigs' /\
          sigs'[s] \in {sigs[s], [sigs[s] EXCEPT !.live = FALSE]}

KeysKeep == \A k \in DOMAIN signed : k \in DOMAIN signed' /\ signed'[k] = signed[k]

\* The steps that insert or delete no row and generate no key.
LEMMA QuietSteps ==
    ASSUME Next
    PROVE  \/ UNCHANGED <<docs, sigs, signed>>
           \/ \E r \in Requests : InsertDoc(r) \/ Seal(r) \/ InsertSig(r)
           \/ Delete
<1>1. ASSUME NEW r \in Requests, Request(r)  PROVE UNCHANGED tables
  BY <1>1 DEF Request, Upload, Sign, Verify, Begin, tables
<1>2. ASSUME NEW r \in Requests, UploadStep(r)
      PROVE  UNCHANGED tables \/ InsertDoc(r)
  BY <1>2 DEF UploadStep, SaveCreate, SaveCopy, ReadUpload
<1>3. ASSUME NEW r \in Requests, SignStep(r)
      PROVE  UNCHANGED tables \/ Seal(r) \/ InsertSig(r)
  BY <1>3 DEF SignStep, FindDoc, FindSigner, SignedCreate, SignedWrite
<1>4. ASSUME NEW r \in Requests, VerifyStep(r) \/ Fault(r)  PROVE UNCHANGED tables
  BY <1>4 DEF VerifyStep, TempCreate, TempCopy, TempRead, FindByDigest, FindSigs,
     RemoveTemp, Fault, DbFails, WriteFails
<1>5. ASSUME Crash \/ Redeploy  PROVE UNCHANGED tables
  BY <1>5 DEF Crash, Redeploy, ProcessEnds
<1> QED  BY <1>1, <1>2, <1>3, <1>4, <1>5 DEF Next, Step, tables

LEMMA RowsStep ==
    ASSUME Control, [Next]_vars
    PROVE  RowsKeep /\ KeysKeep
<1> USE DEF Control, TypeOK
<1>1. CASE UNCHANGED <<docs, sigs, signed>>
  BY <1>1 DEF RowsKeep, KeysKeep
<1>2. ASSUME NEW r \in Requests, InsertDoc(r)  PROVE RowsKeep /\ KeysKeep
  BY <1>2 DEF InsertDoc, RowsKeep, KeysKeep, TablesOK
<1>3. ASSUME NEW r \in Requests, Seal(r)  PROVE RowsKeep /\ KeysKeep
  BY <1>3 DEF Seal, RowsKeep, KeysKeep, TablesOK
<1>4. ASSUME NEW r \in Requests, InsertSig(r)  PROVE RowsKeep /\ KeysKeep
  BY <1>4 DEF InsertSig, RowsKeep, KeysKeep, TablesOK
<1>5. ASSUME NEW d \in DOMAIN docs, DeleteDocument(d)  PROVE RowsKeep /\ KeysKeep
  BY <1>5 DEF DeleteDocument, RowsKeep, KeysKeep, TablesOK
<1>6. ASSUME NEW s \in DOMAIN sigs, DeleteSignature(s)  PROVE RowsKeep /\ KeysKeep
  BY <1>6 DEF DeleteSignature, RowsKeep, KeysKeep, TablesOK
<1>7. ASSUME NEW u \in Users, DeleteUser(u)  PROVE RowsKeep /\ KeysKeep
  BY <1>7 DEF DeleteUser, RowsKeep, KeysKeep, TablesOK
<1> QED  BY <1>1, <1>2, <1>3, <1>4, <1>5, <1>6, <1>7, QuietSteps DEF Delete, vars

\* A document or signature row changes only by its soft delete and never comes
\* back.
THEOREM RowsAreKept == Spec => RowsKept
<1>1. Control /\ [Next]_vars => [RowsKeep]_vars
  BY RowsStep
<1> QED  BY <1>1, InitControl, NextControl, PTL DEF Spec, RowsKept, RowsKeep

LEMMA FieldsKeep ==
    ASSUME Control, RowsKeep
    PROVE  /\ \A d \in DOMAIN docs : /\ d \in DOMAIN docs'
                                     /\ docs'[d].user = docs[d].user
                                     /\ docs'[d].digest = docs[d].digest
           /\ \A s \in DOMAIN sigs : /\ s \in DOMAIN sigs'
                                     /\ sigs'[s].doc = sigs[s].doc
                                     /\ sigs'[s].raw = sigs[s].raw
                                     /\ sigs'[s].key = sigs[s].key
<1>1. ASSUME NEW d \in DOMAIN docs
      PROVE  /\ d \in DOMAIN docs'
             /\ docs'[d].user = docs[d].user /\ docs'[d].digest = docs[d].digest
  <2>1. docs[d] \in DocType
    BY DocFacts DEF Control, TypeOK
  <2> QED  BY <2>1 DEF RowsKeep, DocType
<1>2. ASSUME NEW s \in DOMAIN sigs
      PROVE  /\ s \in DOMAIN sigs' /\ sigs'[s].doc = sigs[s].doc
             /\ sigs'[s].raw = sigs[s].raw /\ sigs'[s].key = sigs[s].key
  <2>1. sigs[s] \in SigType
    BY SigFacts DEF Control, TypeOK
  <2> QED  BY <2>1 DEF RowsKeep, SigType
<1> QED  BY <1>1, <1>2
-----------------------------------------------------------------------------
(* Stored signatures bind.  In flight, a key belongs to the one request that *)
(* generated it; InsertSig hands it over to its row.                         *)

Bound == SignatureBinds /\ \A r \in Requests : SealOK(r)

\* No request seals, and those that have sealed keep their key and document.
Held == \A q \in Requests : Sealed(q)' => /\ Sealed(q)
                                          /\ mem'[q].key = mem[q].key
                                          /\ mem'[q].doc = mem[q].doc

LEMMA BoundFrame ==
    ASSUME Control, Bound, RowsKeep, KeysKeep, Held, DOMAIN sigs' = DOMAIN sigs
    PROVE  Bound'
<1>1. /\ \A d \in DOMAIN docs : d \in DOMAIN docs' /\ docs'[d].digest = docs[d].digest
      /\ \A s \in DOMAIN sigs : /\ sigs'[s].doc = sigs[s].doc
                                /\ sigs'[s].raw = sigs[s].raw
                                /\ sigs'[s].key = sigs[s].key
  BY FieldsKeep
<1>2. SignatureBinds'
  BY <1>1 DEF Bound, SignatureBinds, KeysKeep
<1>3. ASSUME NEW r \in Requests, Sealed(r)'
      PROVE  /\ mem'[r].key \in DOMAIN signed'
             /\ signed'[mem'[r].key] = docs'[mem'[r].doc].digest
             /\ \A s \in DOMAIN sigs' : sigs'[s].key # mem'[r].key
             /\ \A q \in Requests : Sealed(q)' /\ mem'[q].key = mem'[r].key => q = r
  <2>1. Sealed(r) /\ mem'[r].key = mem[r].key /\ mem'[r].doc = mem[r].doc
    BY <1>3 DEF Held
  <2>2. SealOK(r) /\ mem[r].doc \in DOMAIN docs
    BY <2>1 DEF Bound, Control, HandlerOK, Sealed, SignSteps
  <2> QED  BY <1>1, <2>1, <2>2 DEF SealOK, KeysKeep, Held
<1>4. ASSUME NEW r \in Requests  PROVE SealOK(r)'
  BY <1>3 DEF SealOK
<1> QED  BY <1>2, <1>4 DEF Bound

LEMMA GotoHolds ==
    ASSUME LocalOK, NEW r \in Requests, NEW m, NEW step, Goto(r, step, m),
           step \notin {"signed_create", "signed_write", "insert_sig"}
           \/ (Sealed(r) /\ m.key = mem[r].key /\ m.doc = mem[r].doc)
    PROVE  Held
BY DEF LocalOK, Goto, Held, Sealed

LEMMA AnswerHolds ==
    ASSUME LocalOK, NEW r \in Requests, NEW answer, Answer(r, answer)
    PROVE  Held
BY DEF LocalOK, Answer, Held, Sealed

LEMMA BeginHolds ==
    ASSUME LocalOK, NEW r \in Requests, NEW j, NEW m,
           NEW step \in {"save_create", "find_doc", "temp_create"}, Begin(r, j, m, step)
    PROVE  Held
BY DEF LocalOK, Begin, Held, Sealed

LEMMA OtherStepsHold ==
    ASSUME Control, Next, \A r \in Requests : ~Seal(r) /\ ~InsertSig(r)
    PROVE  Held /\ DOMAIN sigs' = DOMAIN sigs
<1> USE DEF Control, TypeOK
<1>0. DOMAIN sigs' = DOMAIN sigs
  <2>1. ASSUME NEW r \in Requests, InsertDoc(r)  PROVE sigs' = sigs
    BY <2>1 DEF InsertDoc
  <2>2. ASSUME Delete  PROVE DOMAIN sigs' = DOMAIN sigs
    BY <2>2 DEF Delete, DeleteDocument, DeleteSignature, DeleteUser
  <2> QED  BY <2>1, <2>2, QuietSteps
<1>1. ASSUME NEW r \in Requests, Request(r)  PROVE Held
  <2>1. CASE Upload(r)
    BY <2>1, BeginHolds DEF Upload
  <2>2. CASE Sign(r)
    BY <2>2, BeginHolds DEF Sign
  <2>3. CASE Verify(r)
    BY <2>3, BeginHolds DEF Verify
  <2> QED  BY <1>1, <2>1, <2>2, <2>3 DEF Request
<1>2. ASSUME NEW r \in Requests, UploadStep(r)  PROVE Held
  <2>1. CASE SaveCreate(r)
    BY <2>1, GotoHolds DEF SaveCreate
  <2>2. CASE SaveCopy(r)
    BY <2>2, GotoHolds DEF SaveCopy
  <2>3. CASE ReadUpload(r)
    BY <2>3, GotoHolds, AnswerHolds DEF ReadUpload
  <2>4. CASE InsertDoc(r)
    BY <2>4, AnswerHolds DEF InsertDoc, Committed
  <2> QED  BY <1>2, <2>1, <2>2, <2>3, <2>4 DEF UploadStep
<1>3. ASSUME NEW r \in Requests, SignStep(r)  PROVE Held
  <2>1. CASE FindDoc(r)
    BY <2>1, GotoHolds, AnswerHolds DEF FindDoc
  <2>2. CASE FindSigner(r)
    BY <2>2, GotoHolds, AnswerHolds DEF FindSigner
  <2>3. CASE SignedCreate(r)
    <3>1. [mem[r] EXCEPT !.open = TRUE].key = mem[r].key
          /\ [mem[r] EXCEPT !.open = TRUE].doc = mem[r].doc
      BY MemFacts DEF MemType
    <3> QED  BY <2>3, <3>1, GotoHolds DEF SignedCreate, Sealed
  <2>4. CASE SignedWrite(r)
    <3>1. [mem[r] EXCEPT !.open = FALSE].key = mem[r].key
          /\ [mem[r] EXCEPT !.open = FALSE].doc = mem[r].doc
      BY MemFacts DEF MemType
    <3> QED  BY <2>4, <3>1, GotoHolds DEF SignedWrite, Sealed
  <2> QED  BY <1>3, <2>1, <2>2, <2>3, <2>4 DEF SignStep
<1>4. ASSUME NEW r \in Requests, VerifyStep(r)  PROVE Held
  <2>1. CASE TempCreate(r)
    BY <2>1, GotoHolds, AnswerHolds DEF TempCreate
  <2>2. CASE TempCopy(r)
    BY <2>2, GotoHolds DEF TempCopy
  <2>3. CASE TempRead(r)
    BY <2>3, GotoHolds DEF TempRead
  <2>4. CASE FindByDigest(r)
    BY <2>4, GotoHolds DEF FindByDigest, FirstOf
  <2>5. CASE FindSigs(r)
    BY <2>5, GotoHolds DEF FindSigs
  <2>6. CASE RemoveTemp(r)
    <3>1. ASSUME NEW q \in Requests, q # r
          PROVE  /\ pc'[q] = pc[q]
                 /\ mem'[q].key = mem[q].key /\ mem'[q].doc = mem[q].doc
      BY <2>6, <3>1, MemFacts DEF RemoveTemp, LocalOK, MemType
    <3>2. pc'[r] = "idle"
      BY <2>6 DEF RemoveTemp, LocalOK
    <3> QED  BY <3>1, <3>2 DEF Held, Sealed
  <2> QED  BY <1>4, <2>1, <2>2, <2>3, <2>4, <2>5, <2>6 DEF VerifyStep
<1>5. ASSUME NEW r \in Requests, Fault(r)  PROVE Held
  BY <1>5, GotoHolds, AnswerHolds DEF Fault, DbFails, WriteFails
<1>6. ASSUME Delete  PROVE Held
  BY <1>6 DEF Delete, DeleteDocument, DeleteSignature, DeleteUser, local, Held, Sealed
<1>7. ASSUME Crash \/ Redeploy  PROVE Held
  BY <1>7 DEF Crash, Redeploy, ProcessEnds, Held, Sealed
<1> QED  BY <1>0, <1>1, <1>2, <1>3, <1>4, <1>5, <1>6, <1>7 DEF Next, Step

LEMMA SealKeepsBound ==
    ASSUME Control, Bound, NEW r \in Requests, Seal(r)
    PROVE  Bound'
<1> USE DEF Control, TypeOK
<1> DEFINE k == Len(signed) + 1
<1>1. /\ signed' = Append(signed, docs[mem[r].doc].digest)
      /\ docs' = docs /\ sigs' = sigs /\ pc[r] = "seal"
  BY DEF Seal
<1>2. mem[r].doc \in DOMAIN docs /\ docs[mem[r].doc].digest \in DigestType
  BY <1>1, DocFacts, MemFacts DEF HandlerOK, SignSteps
<1>3. /\ k \in DOMAIN signed' /\ k \notin DOMAIN signed
      /\ signed'[k] = docs[mem[r].doc].digest
      /\ KeysKeep
  BY <1>1, <1>2 DEF TablesOK, KeysKeep
<1>4. ASSUME NEW q \in Requests, q # r
      PROVE  pc'[q] = pc[q] /\ mem'[q] = mem[q]
  BY <1>4 DEF Seal, Goto, Answer, LocalOK
<1>5. Sealed(r)' => mem'[r].key = k /\ mem'[r].doc = mem[r].doc
  <2> DEFINE m == [mem[r] EXCEPT !.key = k,
                                 !.seen = Attach(files[docs[mem[r].doc].path], k)]
  <2>1. m.key = k /\ m.doc = mem[r].doc
    BY MemFacts DEF MemType
  <2>2. CASE Goto(r, "signed_create", m)
    <3> HIDE DEF m
    <3> QED  BY <2>1, <2>2 DEF Goto, LocalOK
  <2>3. CASE Answer(r, "failed")
    BY <2>3 DEF Answer, LocalOK, Sealed
  <2> QED  BY <2>2, <2>3 DEF Seal
<1> HIDE DEF k
<1>6. SignatureBinds'
  BY <1>1, <1>3 DEF Bound, SignatureBinds, KeysKeep
<1>7. ASSUME NEW q \in Requests, q # r, Sealed(q)'
      PROVE  /\ mem'[q].key \in DOMAIN signed
             /\ mem'[q].key \in DOMAIN signed'
             /\ signed'[mem'[q].key] = docs'[mem'[q].doc].digest
             /\ \A s \in DOMAIN sigs' : sigs'[s].key # mem'[q].key
             /\ \A p \in Requests : p # r /\ Sealed(p)' /\ mem'[p].key = mem'[q].key => p = q
  BY <1>1, <1>3, <1>4, <1>7 DEF Bound, SealOK, Sealed, KeysKeep
<1>8. \A s \in DOMAIN sigs : sigs[s].key \in DOMAIN signed
  BY DEF Bound, SignatureBinds
<1>9. ASSUME NEW q \in Requests  PROVE SealOK(q)'
  <2>1. CASE q = r
    BY <1>1, <1>3, <1>5, <1>7, <1>8, <2>1 DEF SealOK
  <2>2. CASE q # r
    BY <1>3, <1>5, <1>7, <2>2 DEF SealOK
  <2> QED  BY <2>1, <2>2
<1> QED  BY <1>6, <1>9 DEF Bound

LEMMA InsertKeepsBound ==
    ASSUME Control, Bound, NEW r \in Requests, InsertSig(r)
    PROVE  Bound'
<1> USE DEF Control, TypeOK
<1> DEFINE row == [doc |-> mem[r].doc, signer |-> job[r].user, raw |-> mem[r].key,
                   key |-> mem[r].key, live |-> TRUE]
           n   == Len(sigs) + 1
<1>1. sigs' = Append(sigs, row) /\ docs' = docs /\ signed' = signed /\ pc[r] = "insert_sig"
  BY DEF InsertSig
<1>2. /\ mem[r].doc \in DOMAIN docs /\ mem[r].key \in DOMAIN signed
      /\ signed[mem[r].key] = docs[mem[r].doc].digest
      /\ \A s \in DOMAIN sigs : sigs[s].key # mem[r].key
      /\ \A q \in Requests : Sealed(q) /\ mem[q].key = mem[r].key => q = r
  BY <1>1, MemFacts DEF HandlerOK, SignSteps, Bound, SealOK, Sealed
<1>3. /\ DOMAIN sigs' = DOMAIN sigs \cup {n} /\ n \notin DOMAIN sigs /\ sigs'[n] = row
      /\ \A s \in DOMAIN sigs : sigs'[s] = sigs[s]
  <2>1. sigs \in Seq(SigType)
    BY DEF TablesOK
  <2> HIDE DEF row
  <2> QED  BY <1>1, <2>1
<1>4. row.doc = mem[r].doc /\ row.raw = mem[r].key /\ row.key = mem[r].key
  OBVIOUS
<1>5. \A q \in Requests : q # r => pc'[q] = pc[q] /\ mem'[q] = mem[q]
  BY DEF InsertSig, Committed, Answer, LocalOK
<1>6. ~Sealed(r)'
  BY DEF InsertSig, Committed, Answer, LocalOK, Sealed
<1> HIDE DEF row, n
<1>7. SignatureBinds'
  <2>1. ASSUME NEW s \in DOMAIN sigs'
        PROVE  /\ sigs'[s].doc \in DOMAIN docs' /\ sigs'[s].key \in DOMAIN signed'
               /\ sigs'[s].raw = sigs'[s].key
               /\ signed'[sigs'[s].key] = docs'[sigs'[s].doc].digest
    <3>1. CASE s = n
      BY <1>1, <1>2, <1>3, <1>4, <3>1
    <3>2. CASE s \in DOMAIN sigs
      BY <1>1, <1>3, <3>2 DEF Bound, SignatureBinds
    <3> QED  BY <1>3, <3>1, <3>2
  <2>2. ASSUME NEW s \in DOMAIN sigs', NEW t \in DOMAIN sigs', sigs'[s].key = sigs'[t].key
        PROVE  s = t
    BY <1>2, <1>3, <1>4, <2>2 DEF Bound, SignatureBinds
  <2> QED  BY <2>1, <2>2 DEF SignatureBinds
<1>8. ASSUME NEW q \in Requests  PROVE SealOK(q)'
  <2>1. CASE q = r
    BY <1>6, <2>1 DEF SealOK
  <2>2. CASE q # r /\ Sealed(q)'
    <3>1. Sealed(q) /\ SealOK(q) /\ mem'[q] = mem[q] /\ mem[q].key # mem[r].key
      BY <1>2, <1>5, <2>2 DEF Bound, Sealed
    <3>2. \A s \in DOMAIN sigs' : sigs'[s].key # mem[q].key
      BY <1>3, <1>4, <3>1 DEF SealOK
    <3>3. \A p \in Requests : Sealed(p)' => Sealed(p) /\ mem'[p] = mem[p]
      BY <1>5, <1>6 DEF Sealed
    <3> QED  BY <1>1, <3>1, <3>2, <3>3 DEF SealOK
  <2> QED  BY <2>1, <2>2 DEF SealOK
<1> QED  BY <1>7, <1>8 DEF Bound

LEMMA InitBound == Init => Bound
<1> SUFFICES ASSUME Init  PROVE Bound
  OBVIOUS
<1>1. DOMAIN sigs = {}
  BY DEF Init
<1>2. \A r \in Requests : ~Sealed(r)
  BY DEF Init, Sealed
<1> QED  BY <1>1, <1>2 DEF Bound, SignatureBinds, SealOK

LEMMA NextBound == Control /\ Bound /\ [Next]_vars => Bound'
<1> SUFFICES ASSUME Control, Bound, [Next]_vars  PROVE Bound'
  OBVIOUS
<1>1. ASSUME NEW r \in Requests, Seal(r)  PROVE Bound'
  BY <1>1, SealKeepsBound
<1>2. ASSUME NEW r \in Requests, InsertSig(r)  PROVE Bound'
  BY <1>2, InsertKeepsBound
<1>3. CASE Next /\ \A r \in Requests : ~Seal(r) /\ ~InsertSig(r)
  BY <1>3, OtherStepsHold, RowsStep, BoundFrame
<1>4. CASE UNCHANGED vars
  BY <1>4, RowsStep, BoundFrame DEF vars, Held, Sealed
<1> QED  BY <1>1, <1>2, <1>3, <1>4

\* Every stored signature verifies under its stored key against the digest of
\* its document, and no two share a key, in every interleaving of requests.
THEOREM SignaturesBind == Spec => []SignatureBinds
<1>1. Init => Control /\ Bound
  BY InitControl, InitBound
<1>2. Control /\ Bound /\ [Next]_vars => (Control /\ Bound)'
  BY NextControl, NextBound
<1>3. Control /\ Bound => SignatureBinds
  BY DEF Bound
<1> QED  BY <1>1, <1>2, <1>3, PTL DEF Spec
-----------------------------------------------------------------------------
(* Verdicts are sound.  Rows are never changed under a verification, so what *)
(* it read of them holds when it decides and when it answers.                *)

\* A document of u is signed.
SignedOne(u) == \E d \in DOMAIN docs, s \in DOMAIN sigs :
                    docs[d].user = u /\ sigs[s].doc = d

JudgedAt(r) == /\ JudgeOK(r)
               /\ pc[r] = "remove" /\ mem[r].verdict => Carries(job[r].user, mem[r].seen)
               /\ reply[r] = "valid" => SignedOne(job[r].user)

Judged == \A r \in Requests : JudgedAt(r)

LEMMA CarriesMore ==
    ASSUME Control, RowsKeep, NEW u
    PROVE  /\ SignedOne(u) => SignedOne(u)'
           /\ \A c : Carries(u, c) => Carries(u, c)'
<1>1. SignedOne(u) => SignedOne(u)'
  BY FieldsKeep DEF SignedOne
<1>2. ASSUME NEW c, Carries(u, c)  PROVE Carries(u, c)'
  <2>1. PICK d \in DOMAIN docs, s \in DOMAIN sigs :
           /\ docs[d].user = u /\ docs[d].digest = Digest(Original(c))
           /\ sigs[s].doc = d /\ Claim(c) = <<sigs[s].raw>>
    BY <1>2 DEF Carries
  <2>2. /\ d \in DOMAIN docs' /\ s \in DOMAIN sigs'
        /\ docs'[d].user = u /\ docs'[d].digest = Digest(Original(c))
        /\ sigs'[s].doc = d /\ Claim(c) = <<sigs'[s].raw>>
    BY <2>1, FieldsKeep
  <2> QED  BY <2>2 DEF Carries
<1> QED  BY <1>1, <1>2

LEMMA JudgedFrame ==
    ASSUME Control, Judged, RowsKeep, NEW q \in Requests,
           pc'[q] = pc[q], job'[q] = job[q], reply'[q] = reply[q],
           mem'[q].seen = mem[q].seen, mem'[q].doc = mem[q].doc,
           mem'[q].verdict = mem[q].verdict
    PROVE  JudgedAt(q)'
<1>1. JudgedAt(q)
  BY DEF Judged
<1>2. pc[q] = "find_sigs" => mem[q].doc \in DOMAIN docs
  BY DEF Control, HandlerOK
<1>3. JudgeOK(q)'
  BY <1>1, <1>2, FieldsKeep DEF JudgedAt, JudgeOK
<1>4. PICK u, c : u = job[q].user /\ c = mem[q].seen
  OBVIOUS
<1>5. job'[q].user = u /\ mem'[q].seen = c
  BY <1>4
<1>6. /\ pc[q] = "remove" /\ mem[q].verdict => Carries(u, c)'
      /\ reply[q] = "valid" => SignedOne(u)'
  BY <1>1, <1>4, CarriesMore DEF JudgedAt
<1>7. pc'[q] = "remove" /\ mem'[q].verdict => Carries(job[q].user, mem[q].seen)'
  BY <1>5, <1>6 DEF Carries
<1>8. reply'[q] = "valid" => SignedOne(job[q].user)'
  BY <1>5, <1>6 DEF SignedOne
<1> QED  BY <1>3, <1>7, <1>8 DEF JudgedAt

\* Steps of a handler that decide nothing.
LEMMA GotoJudged ==
    ASSUME Control, Judged, RowsKeep, NEW r \in Requests, NEW step, NEW m,
           pc[r] # "idle", Goto(r, step, m), step # "find_sigs", ~m.verdict
    PROVE  Judged'
<1> USE DEF Control, TypeOK
<1>1. ASSUME NEW q \in Requests, q # r  PROVE JudgedAt(q)'
  BY <1>1, JudgedFrame DEF Goto, LocalOK
<1>2. pc'[r] = step /\ mem'[r] = m /\ job' = job /\ reply' = reply
  BY DEF Goto, LocalOK
<1>3. JudgedAt(r)'
  <2>1. PICK u : u = job[r].user
    OBVIOUS
  <2>2. reply[r] = "valid" => SignedOne(u)'
    BY <2>1, CarriesMore DEF Judged, JudgedAt
  <2>3. reply'[r] = "valid" => SignedOne(job[r].user)'
    BY <1>2, <2>1, <2>2 DEF SignedOne
  <2>4. reply[r] = "none"
    BY DEF Judged, JudgedAt, JudgeOK
  <2> QED  BY <1>2, <2>3, <2>4 DEF JudgedAt, JudgeOK
<1> QED  BY <1>1, <1>3 DEF Judged

LEMMA AnswerJudged ==
    ASSUME Control, Judged, RowsKeep, NEW r \in Requests, NEW answer,
           Answer(r, answer), answer # "valid"
    PROVE  Judged'
<1> USE DEF Control, TypeOK
<1>1. ASSUME NEW q \in Requests, q # r  PROVE JudgedAt(q)'
  BY <1>1, JudgedFrame DEF Answer, LocalOK
<1>2. JudgedAt(r)'
  BY DEF Answer, LocalOK, JudgedAt, JudgeOK, NoMem
<1> QED  BY <1>1, <1>2 DEF Judged

LEMMA BeginJudged ==
    ASSUME Control, Judged, RowsKeep, NEW r \in Requests, NEW j, NEW m,
           NEW step \in {"save_create", "find_doc", "temp_create"},
           Begin(r, j, m, step), ~m.verdict
    PROVE  Judged'
<1> USE DEF Control, TypeOK
<1>1. ASSUME NEW q \in Requests, q # r  PROVE JudgedAt(q)'
  BY <1>1, JudgedFrame DEF Begin, LocalOK
<1>2. JudgedAt(r)'
  BY DEF Begin, LocalOK, JudgedAt, JudgeOK
<1> QED  BY <1>1, <1>2 DEF Judged

LEMMA NoVerdict ==
    ASSUME Control, Judged, NEW r \in Requests, pc[r] # "remove"
    PROVE  /\ ~mem[r].verdict
           /\ \A o : ~[mem[r] EXCEPT !.open = o].verdict
           /\ \A c : ~[mem[r] EXCEPT !.seen = c].verdict
           /\ \A k, c : ~[mem[r] EXCEPT !.key = k, !.seen = c].verdict
<1>1. ~mem[r].verdict
  BY DEF Judged, JudgedAt, JudgeOK
<1>2. mem[r] \in MemType
  BY MemFacts
<1> QED  BY <1>1, <1>2 DEF MemType

LEMMA RequestJudged ==
    ASSUME Control, Judged, RowsKeep, NEW r \in Requests, Request(r)
    PROVE  Judged'
<1>1. ~NoMem.verdict /\ \A d : ~[NoMem EXCEPT !.doc = d].verdict
  BY DEF NoMem
<1>2. CASE Upload(r)
  BY <1>1, <1>2, BeginJudged DEF Upload
<1>3. CASE Sign(r)
  BY <1>1, <1>3, BeginJudged DEF Sign
<1>4. CASE Verify(r)
  BY <1>1, <1>4, BeginJudged DEF Verify
<1> QED  BY <1>2, <1>3, <1>4 DEF Request

LEMMA UploadJudged ==
    ASSUME Control, Judged, RowsKeep, NEW r \in Requests, UploadStep(r)
    PROVE  Judged'
<1>1. CASE SaveCreate(r)
  BY <1>1, NoVerdict, GotoJudged DEF SaveCreate
<1>2. CASE SaveCopy(r)
  BY <1>2, NoVerdict, GotoJudged DEF SaveCopy
<1>3. CASE ReadUpload(r)
  BY <1>3, NoVerdict, GotoJudged, AnswerJudged DEF ReadUpload
<1>4. CASE InsertDoc(r)
  BY <1>4, AnswerJudged DEF InsertDoc, Committed
<1> QED  BY <1>1, <1>2, <1>3, <1>4 DEF UploadStep

LEMMA SignJudged ==
    ASSUME Control, Judged, RowsKeep, NEW r \in Requests, SignStep(r)
    PROVE  Judged'
<1>1. CASE FindDoc(r)
  BY <1>1, NoVerdict, GotoJudged, AnswerJudged DEF FindDoc
<1>2. CASE FindSigner(r)
  BY <1>2, NoVerdict, GotoJudged, AnswerJudged DEF FindSigner
<1>3. CASE Seal(r)
  BY <1>3, NoVerdict, GotoJudged, AnswerJudged DEF Seal
<1>4. CASE SignedCreate(r)
  BY <1>4, NoVerdict, GotoJudged DEF SignedCreate
<1>5. CASE SignedWrite(r)
  BY <1>5, NoVerdict, GotoJudged DEF SignedWrite
<1>6. CASE InsertSig(r)
  BY <1>6, AnswerJudged DEF InsertSig, Committed
<1> QED  BY <1>1, <1>2, <1>3, <1>4, <1>5, <1>6 DEF SignStep

LEMMA FaultJudged ==
    ASSUME Control, Judged, RowsKeep, NEW r \in Requests, Fault(r)
    PROVE  Judged'
BY NoVerdict, GotoJudged, AnswerJudged DEF Fault, DbFails, WriteFails
LEMMA FindByDigestJudged ==
    ASSUME Control, Judged, RowsKeep, NEW r \in Requests, FindByDigest(r)
    PROVE  Judged'
<1> USE DEF Control, TypeOK
<1>1. CASE Goto(r, "remove", mem[r])
  BY <1>1, NoVerdict, GotoJudged DEF FindByDigest
<1>2. ASSUME NEW d \in DOMAIN docs, docs[d].user = job[r].user,
             docs[d].digest = Digest(Original(mem[r].seen)),
             Goto(r, "find_sigs", [mem[r] EXCEPT !.doc = d])
      PROVE  Judged'
  <2>1. ASSUME NEW q \in Requests, q # r  PROVE JudgedAt(q)'
    BY <1>2, <2>1, JudgedFrame DEF Goto, LocalOK
  <2>2. mem[r] \in MemType /\ ~mem[r].verdict
    BY MemFacts, NoVerdict DEF FindByDigest
  <2> DEFINE m == [mem[r] EXCEPT !.doc = d]
  <2>3. m.doc = d /\ m.seen = mem[r].seen /\ ~m.verdict
    BY <2>2 DEF MemType
  <2> HIDE DEF m
  <2>4. /\ pc'[r] = "find_sigs" /\ mem'[r] = m /\ job' = job /\ reply' = reply
        /\ docs' = docs /\ sigs' = sigs
    BY <1>2 DEF FindByDigest, Goto, LocalOK, tables, m
  <2>5. JudgeOK(r)'
    <3>1. reply[r] = "none"
      BY DEF FindByDigest, Judged, JudgedAt, JudgeOK
    <3> QED  BY <1>2, <2>3, <2>4, <3>1 DEF JudgeOK
  <2>6. reply'[r] = "valid" => SignedOne(job[r].user)'
    BY <2>4 DEF Judged, JudgedAt, SignedOne
  <2> QED  BY <2>1, <2>4, <2>5, <2>6 DEF Judged, JudgedAt
<1> QED  BY <1>1, <1>2 DEF FindByDigest, FirstOf

LEMMA FindSigsJudged ==
    ASSUME Control, Bound, Judged, RowsKeep, NEW r \in Requests, FindSigs(r)
    PROVE  Judged'
<1> USE DEF Control, TypeOK
<1>1. /\ pc[r] = "find_sigs" /\ docs' = docs /\ sigs' = sigs
      /\ mem[r] \in MemType /\ mem[r].doc \in DOMAIN docs
  BY MemFacts DEF FindSigs, HandlerOK, tables
<1>2. CASE Goto(r, "remove", mem[r])
  BY <1>1, <1>2, NoVerdict, GotoJudged
<1>3. ASSUME NEW s \in SignaturesOf(mem[r].doc),
             Goto(r, "remove", [mem[r] EXCEPT
                   !.verdict = VerifySignatureRaw(Claim(mem[r].seen),
                                   Original(mem[r].seen), sigs[s].key)])
      PROVE  Judged'
  <2> DEFINE v == VerifySignatureRaw(Claim(mem[r].seen), Original(mem[r].seen), sigs[s].key)
             m == [mem[r] EXCEPT !.verdict = v]
  <2>1. ASSUME NEW q \in Requests, q # r  PROVE JudgedAt(q)'
    BY <1>3, <2>1, JudgedFrame DEF Goto, LocalOK
  <2>2. v => Carries(job[r].user, mem[r].seen)
    <3>1. s \in DOMAIN sigs /\ sigs[s].doc = mem[r].doc /\ sigs[s].raw = sigs[s].key
      BY DEF SignaturesOf, Bound, SignatureBinds
    <3>2. /\ docs[mem[r].doc].user = job[r].user
          /\ docs[mem[r].doc].digest = Digest(Original(mem[r].seen))
      BY <1>1 DEF Judged, JudgedAt, JudgeOK
    <3> QED  BY <1>1, <3>1, <3>2 DEF VerifySignatureRaw, Carries
  <2>3. m.verdict = v /\ m.seen = mem[r].seen
    BY <1>1 DEF MemType
  <2> HIDE DEF v
  <2>4. mem'[r] = m /\ pc'[r] = "remove" /\ job' = job /\ reply' = reply
    BY <1>3 DEF Goto, LocalOK, v
  <2> HIDE DEF m
  <2>5. mem'[r].verdict => Carries(job[r].user, mem[r].seen)'
    BY <1>1, <2>2, <2>3, <2>4 DEF Carries
  <2>6. reply'[r] = "valid" => SignedOne(job[r].user)'
    BY <1>1, <2>4 DEF Judged, JudgedAt, SignedOne
  <2>7. reply[r] = "none"
    BY <1>1 DEF Judged, JudgedAt, JudgeOK
  <2> QED  BY <2>1, <2>4, <2>5, <2>6, <2>7 DEF Judged, JudgedAt, JudgeOK
<1> QED  BY <1>2, <1>3 DEF FindSigs

LEMMA RemoveJudged ==
    ASSUME Control, Judged, RowsKeep, NEW r \in Requests, RemoveTemp(r)
    PROVE  Judged'
<1> USE DEF Control, TypeOK
<1>1. ASSUME NEW q \in Requests, q # r  PROVE JudgedAt(q)'
  <2>1. mem[q] \in MemType
    BY MemFacts
  <2>2. /\ pc'[q] = pc[q] /\ job' = job /\ reply'[q] = reply[q]
        /\ mem'[q].seen = mem[q].seen /\ mem'[q].doc = mem[q].doc
        /\ mem'[q].verdict = mem[q].verdict
    BY <1>1, <2>1 DEF RemoveTemp, LocalOK, MemType
  <2> QED  BY <2>2, JudgedFrame
<1>2. /\ pc[r] = "remove" /\ pc'[r] = "idle" /\ mem'[r] = NoMem /\ job' = job
      /\ reply'[r] = "valid" => mem[r].verdict
      /\ docs' = docs /\ sigs' = sigs
  BY DEF RemoveTemp, LocalOK, tables
<1>3. mem[r].verdict => SignedOne(job[r].user)
  BY <1>2 DEF Judged, JudgedAt, Carries, SignedOne
<1>4. reply'[r] = "valid" => SignedOne(job[r].user)'
  BY <1>2, <1>3 DEF SignedOne
<1>5. JudgedAt(r)'
  BY <1>2, <1>4 DEF JudgedAt, JudgeOK, NoMem
<1> QED  BY <1>1, <1>5 DEF Judged

LEMMA VerifyJudged ==
    ASSUME Control, Bound, Judged, RowsKeep, NEW r \in Requests, VerifyStep(r)
    PROVE  Judged'
<1>1. CASE TempCreate(r)
  BY <1>1, NoVerdict, GotoJudged, AnswerJudged DEF TempCreate
<1>2. CASE TempCopy(r)
  BY <1>2, NoVerdict, GotoJudged DEF TempCopy
<1>3. CASE TempRead(r)
  BY <1>3, NoVerdict, GotoJudged DEF TempRead
<1> QED  BY <1>1, <1>2, <1>3, FindByDigestJudged, FindSigsJudged, RemoveJudged DEF VerifyStep

LEMMA InitJudged == Init => Judged
BY DEF Init, Judged, JudgedAt, JudgeOK, NoMem

LEMMA NextJudged == Control /\ Bound /\ Judged /\ [Next]_vars => Judged'
<1> SUFFICES ASSUME Control, Bound, Judged, [Next]_vars  PROVE Judged'
  OBVIOUS
<1>0. RowsKeep
  BY RowsStep
<1>1. ASSUME NEW r \in Requests, Request(r)  PROVE Judged'
  BY <1>0, <1>1, RequestJudged
<1>2. ASSUME NEW r \in Requests, Step(r)  PROVE Judged'
  BY <1>0, <1>2, UploadJudged, SignJudged, VerifyJudged, FaultJudged DEF Step
<1>3. CASE UNCHANGED local
  BY <1>0, <1>3, JudgedFrame DEF local, Judged
<1>4. CASE Delete
  BY <1>3, <1>4 DEF Delete, DeleteDocument, DeleteSignature, DeleteUser
<1>5. CASE Crash \/ Redeploy
  BY <1>5 DEF Crash, Redeploy, ProcessEnds, Judged, JudgedAt, JudgeOK, NoMem
<1> QED  BY <1>1, <1>2, <1>3, <1>4, <1>5 DEF Next, vars, local

\* A verification decides "valid" only for a content that a document of the
\* caller carries, whatever is uploaded, signed or deleted meanwhile.
THEOREM VerdictsSound == Spec => []VerdictSound
<1>1. Init => Control /\ Bound /\ Judged
  BY InitControl, InitBound, InitJudged
<1>2. Control /\ Bound /\ Judged /\ [Next]_vars => (Control /\ Bound /\ Judged)'
  BY NextControl, NextBound, NextJudged
<1>3. Judged => VerdictSound
  BY DEF Judged, JudgedAt, VerdictSound, SignedOne
<1> QED  BY <1>1, <1>2, <1>3, PTL DEF Spec

\* The whole inductive invariant, as TLC checks it on a small instance.
THEOREM Invariance == Spec => []IInv
<1>1. Init => Control /\ Bound /\ Judged
  BY InitControl, InitBound, InitJudged
<1>2. Control /\ Bound /\ Judged /\ [Next]_vars => (Control /\ Bound /\ Judged)'
  BY NextControl, NextBound, NextJudged
<1>3. Control /\ Bound /\ Judged => IInv
  <2>1. Judged => VerdictSound
    BY DEF Judged, JudgedAt, VerdictSound, SignedOne
  <2> QED  BY <2>1 DEF Control, Bound, Judged, JudgedAt, IInv
<1> QED  BY <1>1, <1>2, <1>3, PTL DEF Spec

-----------------------------------------------------------------------------
(* Every call writes to no file but its own.                                *)

Target(r) ==
    CASE pc[r] \in {"signed_create", "signed_write"} -> SignedPath(docs[mem[r].doc].path)
      [] pc[r] \in {"temp_create", "temp_copy"}      -> TempPath(job[r].name)
      [] OTHER                                       -> job[r].name

Writer(r) == \/ SaveCreate(r) \/ SaveCopy(r) \/ SignedCreate(r) \/ SignedWrite(r)
             \/ TempCreate(r) \/ TempCopy(r) \/ WriteFails(r)

LEMMA WriterFrame ==
    ASSUME NEW r \in Requests, Writer(r), NEW p, p # Target(r)
    PROVE  /\ p \in DOMAIN files' <=> p \in DOMAIN files
           /\ p \in DOMAIN files => files'[p] = files[p]
<1> DEFINE Same == /\ p \in DOMAIN files' <=> p \in DOMAIN files
                   /\ p \in DOMAIN files => files'[p] = files[p]
<1>1. ASSUME NEW q, NEW c, Put(q, c), p # q  PROVE Same
  BY <1>1 DEF Put
<1>2. ASSUME NEW q, NEW c, WriteTo(r, q, c), p # q  PROVE Same
  BY <1>1, <1>2 DEF WriteTo
<1>3. ASSUME UNCHANGED files  PROVE Same
  BY <1>3
<1> SUFFICES Same
  OBVIOUS
<1> HIDE DEF Same
<1>4. CASE SaveCreate(r)
  BY <1>1, <1>4 DEF SaveCreate, Target
<1>5. CASE SaveCopy(r)
  BY <1>2, <1>5 DEF SaveCopy, Target
<1>6. CASE SignedCreate(r)
  BY <1>1, <1>6 DEF SignedCreate, Target
<1>7. CASE SignedWrite(r)
  BY <1>2, <1>7 DEF SignedWrite, Target
<1>8. CASE TempCreate(r)
  BY <1>1, <1>3, <1>8 DEF TempCreate, Target
<1>9. CASE TempCopy(r)
  BY <1>2, <1>9 DEF TempCopy, Target
<1>10. CASE WriteFails(r)
  <2>1. \E c : WriteTo(r, Target(r), c)
    BY <1>10 DEF WriteFails, CutShort, Target
  <2> QED  BY <1>2, <2>1
<1> QED  BY <1>4, <1>5, <1>6, <1>7, <1>8, <1>9, <1>10 DEF Writer

LEMMA NoWriteStep ==
    ASSUME NEW r \in Requests, Request(r) \/ Step(r), ~Writer(r), ~RemoveTemp(r)
    PROVE  UNCHANGED files
<1>1. CASE Request(r)
  BY <1>1 DEF Request, Upload, Sign, Verify, Begin, disk
<1>2. CASE Step(r)
  BY <1>2 DEF Step, UploadStep, SignStep, VerifyStep, Fault, Writer, ReadUpload, InsertDoc,
     FindDoc, FindSigner, Seal, InsertSig, TempRead, FindByDigest, FindSigs, DbFails, disk
<1> QED  BY <1>1, <1>2

LEMMA OnlyTarget ==
    ASSUME Control, [Next]_vars, NEW p \in DOMAIN files'
    PROVE  \/ p \in DOMAIN files /\ files'[p] = files[p]
           \/ \E r \in Requests : Writer(r) /\ p = Target(r)
<1> DEFINE Same == p \in DOMAIN files /\ files'[p] = files[p]
<1>1. CASE UNCHANGED files
  BY <1>1
<1>2. ASSUME NEW r \in Requests, Writer(r), p # Target(r)  PROVE Same
  BY <1>2, WriterFrame
<1>3. ASSUME NEW r \in Requests, RemoveTemp(r)  PROVE Same
  BY <1>3 DEF RemoveTemp
<1>4. ASSUME NEW r \in Requests, Request(r) \/ Step(r), ~Writer(r), ~RemoveTemp(r)
      PROVE  UNCHANGED files
  BY <1>4, NoWriteStep
<1>5. ASSUME Delete \/ Crash \/ Redeploy  PROVE Same
  BY <1>5 DEF Delete, DeleteDocument, DeleteSignature, DeleteUser, Crash, Redeploy, disk
<1> HIDE DEF Same
<1> QED  BY <1>1, <1>2, <1>3, <1>4, <1>5 DEF Next, vars, Same

-----------------------------------------------------------------------------
(* Refinement: InsertDoc is the ledger's Register, InsertSig is Certify,    *)
(* the soft deletes are Withdraw and Revoke, the start of a request is Ask, *)
(* the look-up that decides "valid" is Accept, the end of the process is    *)
(* Forget, and every other step is invisible.                               *)

Core == Control /\ Bound /\ Judged

AcceptedAt(r) == reply[r] = "valid" \/ (pc[r] = "remove" /\ mem[r].verdict)

LEMMA LedgerInit == Init => Ledger!LInit
<1> SUFFICES ASSUME Init  PROVE Ledger!LInit
  OBVIOUS
<1>1. LedgerDocuments = <<>>
  BY DEF Init, LedgerDocuments
<1>2. LedgerSignatures = <<>>
  BY DEF Init, LedgerSignatures
<1>3. LedgerAsker = [r \in Requests |-> None]
  BY DEF Init, LedgerAsker, NoJob
<1>4. LedgerAccepted = [r \in Requests |-> FALSE]
  BY DEF Init, LedgerAccepted
<1> QED  BY <1>1, <1>2, <1>3, <1>4 DEF Ledger!LInit

-----------------------------------------------------------------------------
(* What leaves each of the four views of the state as it is.                *)

LEMMA DocumentsSame ==
    ASSUME docs' = docs
    PROVE  LedgerDocuments' = LedgerDocuments
BY DEF LedgerDocuments

LEMMA SignaturesSame ==
    ASSUME Core, sigs' = sigs, KeysKeep
    PROVE  LedgerSignatures' = LedgerSignatures
<1>1. \A s \in DOMAIN sigs : signed'[sigs[s].key] = signed[sigs[s].key]
  BY DEF Core, Bound, SignatureBinds, KeysKeep
<1> QED  BY <1>1 DEF LedgerSignatures

LEMMA AskerSame ==
    ASSUME job' = job
    PROVE  LedgerAsker' = LedgerAsker
BY DEF LedgerAsker

LEMMA AcceptedSame ==
    ASSUME \A r \in Requests : AcceptedAt(r)' = AcceptedAt(r)
    PROVE  LedgerAccepted' = LedgerAccepted
BY DEF LedgerAccepted, AcceptedAt

\* A handler that has not decided and does not now.
LEMMA GotoUnseen ==
    ASSUME Core, NEW r \in Requests, NEW step, NEW m, pc[r] \notin {"idle", "remove"},
           Goto(r, step, m), ~m.verdict
    PROVE  LedgerAsker' = LedgerAsker /\ LedgerAccepted' = LedgerAccepted
<1>1. reply[r] = "none"
  BY DEF Core, Judged, JudgedAt, JudgeOK
<1>2. \A q \in Requests : AcceptedAt(q)' = AcceptedAt(q)
  BY <1>1 DEF AcceptedAt, Goto, Core, Control, TypeOK, LocalOK
<1> QED  BY <1>2, AskerSame, AcceptedSame DEF Goto

LEMMA AnswerUnseen ==
    ASSUME Core, NEW r \in Requests, NEW answer, pc[r] \notin {"idle", "remove"},
           Answer(r, answer), answer # "valid"
    PROVE  LedgerAsker' = LedgerAsker /\ LedgerAccepted' = LedgerAccepted
<1>1. reply[r] = "none"
  BY DEF Core, Judged, JudgedAt, JudgeOK
<1>2. \A q \in Requests : AcceptedAt(q)' = AcceptedAt(q)
  BY <1>1 DEF AcceptedAt, Answer, Core, Control, TypeOK, LocalOK
<1> QED  BY <1>2, AskerSame, AcceptedSame DEF Answer

Unseen == UNCHANGED <<LedgerDocuments, LedgerSignatures, LedgerAsker, LedgerAccepted>>

LEMMA TablesUnseen ==
    ASSUME Core, UNCHANGED tables
    PROVE  LedgerDocuments' = LedgerDocuments /\ LedgerSignatures' = LedgerSignatures
<1>1. KeysKeep
  BY DEF tables, KeysKeep
<1> QED  BY <1>1, DocumentsSame, SignaturesSame DEF tables

-----------------------------------------------------------------------------
(* The steps the ledger sees.                                               *)

LEMMA RequestAsks ==
    ASSUME Core, NEW r \in Requests, Request(r)
    PROVE  Ledger!Ask(r)
<1> USE DEF Core, Control, TypeOK
<1>1. ASSUME NEW j \in JobType, NEW m, NEW step \in {"save_create", "find_doc", "temp_create"},
             Begin(r, j, m, step), j.user \in Users
      PROVE  Ledger!Ask(r)
  <2> DEFINE u == IF j.op = "verify" THEN j.user ELSE None
  <2>1. /\ job' = [job EXCEPT ![r] = j] /\ pc' = [pc EXCEPT ![r] = step]
        /\ mem' = [mem EXCEPT ![r] = m] /\ reply' = [reply EXCEPT ![r] = "none"]
        /\ UNCHANGED tables
    BY <1>1 DEF Begin
  <2>2. LedgerAsker' = [LedgerAsker EXCEPT ![r] = u]
    BY <2>1 DEF LedgerAsker, LocalOK
  <2>3. LedgerAccepted' = [LedgerAccepted EXCEPT ![r] = FALSE]
    BY <2>1 DEF LedgerAccepted, LocalOK
  <2>4. u \in Users \cup {None}
    BY <1>1
  <2> HIDE DEF u
  <2> QED  BY <2>1, <2>2, <2>3, <2>4, TablesUnseen DEF Ledger!Ask
<1>2. CASE Upload(r)
  <2>1. PICK u \in Users, n \in UploadNames, b \in Bodies :
           Begin(r, [op |-> "upload", user |-> u, name |-> n, body |-> b], NoMem,
                 "save_create")
    BY <1>2 DEF Upload
  <2> DEFINE j == [op |-> "upload", user |-> u, name |-> n, body |-> b]
  <2>2. j \in JobType /\ j.user \in Users
    BY SigningAssumption DEF JobType, Path
  <2> HIDE DEF j
  <2>3. Begin(r, j, NoMem, "save_create")
    BY <2>1 DEF j
  <2> QED  BY <1>1, <2>2, <2>3
<1>3. CASE Sign(r)
  <2>1. PICK u \in Users, d \in 1 .. MaxDocs :
           Begin(r, [op |-> "sign", user |-> u, name |-> None, body |-> <<>>],
                 [NoMem EXCEPT !.doc = d], "find_doc")
    BY <1>3 DEF Sign
  <2> DEFINE j == [op |-> "sign", user |-> u, name |-> None, body |-> <<>>]
  <2>2. j \in JobType /\ j.user \in Users
    BY ContentClosed DEF JobType
  <2> HIDE DEF j
  <2>3. Begin(r, j, [NoMem EXCEPT !.doc = d], "find_doc")
    BY <2>1 DEF j
  <2> QED  BY <1>1, <2>2, <2>3
<1>4. CASE Verify(r)
  <2>1. PICK u \in Users, n \in VerifyNames, b \in Sendable :
           Begin(r, [op |-> "verify", user |-> u, name |-> n, body |-> b], NoMem,
                 "temp_create")
    BY <1>4 DEF Verify
  <2> DEFINE j == [op |-> "verify", user |-> u, name |-> n, body |-> b]
  <2>2. b \in Content
    BY SendableType
  <2>3. j \in JobType /\ j.user \in Users
    BY <2>2, SigningAssumption DEF JobType, Path
  <2> HIDE DEF j
  <2>4. Begin(r, j, NoMem, "temp_create")
    BY <2>1 DEF j
  <2> QED  BY <1>1, <2>3, <2>4
<1> QED  BY <1>2, <1>3, <1>4 DEF Request

\* A function that adds one value to a sequence is the appended sequence.
LEMMA AppendedRow ==
    ASSUME NEW S, NEW s \in Seq(S), NEW e \in S, NEW t,
           DOMAIN t = 1 .. Len(s) + 1, t = [i \in DOMAIN t |-> t[i]],
           \A i \in DOMAIN s : t[i] = s[i], t[Len(s) + 1] = e
    PROVE  t = Append(s, e) /\ Len(t) = Len(s) + 1
<1>1. Len(s) \in Nat /\ DOMAIN s = 1 .. Len(s) /\ \A i \in DOMAIN s : s[i] \in S
  OBVIOUS
<1>2. \A i \in 1 .. Len(s) + 1 : t[i] \in S
  BY <1>1
<1>3. t \in [1 .. Len(s) + 1 -> S]
  BY <1>2
<1>4. t \in Seq(S) /\ Len(t) = Len(s) + 1
  BY <1>1, <1>3
<1>5. /\ Append(s, e) \in Seq(S) /\ Len(Append(s, e)) = Len(s) + 1
      /\ \A i \in 1 .. Len(s) : Append(s, e)[i] = s[i]
      /\ Append(s, e)[Len(s) + 1] = e
  BY AppendProperties
<1>6. \A i \in 1 .. Len(t) : t[i] = Append(s, e)[i]
  BY <1>1, <1>4, <1>5
<1> QED  BY <1>4, <1>5, <1>6, SeqEqual

LEMMA InsertDocRegisters ==
    ASSUME Core, NEW r \in Requests, InsertDoc(r)
    PROVE  Ledger!Register
<1> USE DEF Core, Control, TypeOK
<1> DEFINE row == [user |-> job[r].user, path |-> job[r].name,
                   digest |-> Digest(mem[r].seen), status |-> "uploaded", live |-> TRUE]
           n    == Len(docs) + 1
           view == [user |-> job[r].user, digest |-> Digest(mem[r].seen), live |-> TRUE]
<1>1. docs' = Append(docs, row) /\ sigs' = sigs /\ signed' = signed /\ pc[r] = "insert_doc"
  BY DEF InsertDoc
<1>2. job[r].user \in Users /\ Digest(mem[r].seen) \in DigestType
  BY <1>1, MemFacts DEF HandlerOK, MemType, Digest, DigestType
<1>3. docs \in Seq(DocType)
  BY DEF TablesOK
<1>4. row.user = view.user /\ row.digest = view.digest /\ row.live = view.live
  OBVIOUS
<1>5. view \in [user : Users, digest : DigestType, live : {TRUE}]
      /\ view = [user |-> view.user, digest |-> view.digest, live |-> view.live]
  BY <1>2
<1> HIDE DEF row, view
<1>6. /\ Len(docs) \in Nat /\ DOMAIN docs = 1 .. Len(docs)
      /\ DOMAIN docs' = 1 .. n /\ docs'[n] = row
      /\ \A d \in DOMAIN docs : docs'[d] = docs[d]
  BY <1>1, <1>3
<1>7. /\ LedgerDocuments \in Seq([user : Users, digest : DigestType, live : BOOLEAN])
      /\ Len(LedgerDocuments) = Len(docs)
  <2>1. \A d \in DOMAIN docs :
           [user |-> docs[d].user, digest |-> docs[d].digest, live |-> docs[d].live]
           \in [user : Users, digest : DigestType, live : BOOLEAN]
    BY DocFacts DEF DocType
  <2> QED  BY <1>3, <1>6, <2>1 DEF LedgerDocuments
<1>8. LedgerDocuments' = [d \in 1 .. n |-> IF d = n THEN view ELSE LedgerDocuments[d]]
  BY <1>4, <1>5, <1>6 DEF LedgerDocuments
<1>9. /\ DOMAIN LedgerDocuments' = 1 .. Len(LedgerDocuments) + 1
      /\ LedgerDocuments' = [d \in DOMAIN LedgerDocuments' |-> LedgerDocuments'[d]]
      /\ \A d \in DOMAIN LedgerDocuments : LedgerDocuments'[d] = LedgerDocuments[d]
      /\ LedgerDocuments'[Len(LedgerDocuments) + 1] = view
  BY <1>6, <1>7, <1>8
<1>10. /\ LedgerDocuments' = Append(LedgerDocuments, view)
       /\ Len(LedgerDocuments') = n /\ LedgerDocuments'[Len(LedgerDocuments')] = view
  BY <1>5, <1>6, <1>7, <1>9, AppendedRow
<1>11. KeysKeep
  BY <1>1 DEF KeysKeep
<1>12. LedgerAsker' = LedgerAsker /\ LedgerAccepted' = LedgerAccepted
  BY <1>1, AnswerUnseen DEF InsertDoc, Committed
<1>13. Len(LedgerDocuments') > Len(LedgerDocuments)
  BY <1>6, <1>7, <1>10
<1> QED  BY <1>1, <1>5, <1>10, <1>11, <1>12, <1>13, SignaturesSame DEF Ledger!Register

LEMMA InsertSigCertifies ==
    ASSUME Core, NEW r \in Requests, InsertSig(r)
    PROVE  mem[r].doc \in DOMAIN LedgerDocuments /\ Ledger!Certify(mem[r].doc)
<1> USE DEF Core, Control, TypeOK
<1> DEFINE row == [doc |-> mem[r].doc, signer |-> job[r].user, raw |-> mem[r].key,
                   key |-> mem[r].key, live |-> TRUE]
           n    == Len(sigs) + 1
           k    == mem[r].key
           view == [doc |-> mem[r].doc, over |-> docs[mem[r].doc].digest, live |-> TRUE]
           S    == [doc : Nat, over : DigestType, live : BOOLEAN]
<1>1. /\ sigs' = Append(sigs, row) /\ docs' = docs /\ signed' = signed
      /\ pc[r] = "insert_sig"
  BY DEF InsertSig
<1>2. /\ mem[r].doc \in DOMAIN docs /\ mem[r].doc \in Nat
      /\ docs[mem[r].doc].digest \in DigestType
  BY <1>1, MemFacts, DocFacts DEF HandlerOK, SignSteps
<1>3. signed'[k] = docs[mem[r].doc].digest
  BY <1>1 DEF Bound, SealOK, Sealed
<1>4. sigs \in Seq(SigType)
  BY DEF TablesOK
<1>5. view \in S
  BY <1>2
<1>6. row.doc = view.doc /\ row.key = k /\ row.live = view.live
      /\ view = [doc |-> row.doc, over |-> signed'[row.key], live |-> row.live]
  BY <1>3
<1> HIDE DEF row, view
<1>7. /\ Len(sigs) \in Nat /\ DOMAIN sigs = 1 .. Len(sigs)
      /\ DOMAIN sigs' = 1 .. n /\ sigs'[n] = row
      /\ \A s \in DOMAIN sigs : sigs'[s] = sigs[s]
  BY <1>1, <1>4
<1>8. LedgerSignatures \in Seq(S) /\ Len(LedgerSignatures) = Len(sigs)
  <2>1. ASSUME NEW s \in DOMAIN sigs
        PROVE  [doc |-> sigs[s].doc, over |-> signed[sigs[s].key], live |-> sigs[s].live] \in S
    <3>1. sigs[s].key \in DOMAIN signed /\ signed \in Seq(DigestType)
      BY DEF Bound, SignatureBinds, TablesOK
    <3>2. signed[sigs[s].key] \in DigestType
      BY <3>1
    <3> QED  BY <3>2, SigFacts DEF SigType
  <2> HIDE DEF S
  <2> QED  BY <1>7, <2>1 DEF LedgerSignatures
<1>9. /\ DOMAIN LedgerSignatures' = 1 .. Len(LedgerSignatures) + 1
      /\ LedgerSignatures' = [s \in DOMAIN LedgerSignatures' |-> LedgerSignatures'[s]]
      /\ LedgerSignatures'[Len(LedgerSignatures) + 1] = view
  BY <1>6, <1>7, <1>8 DEF LedgerSignatures
<1>10. \A s \in DOMAIN LedgerSignatures : LedgerSignatures'[s] = LedgerSignatures[s]
  BY <1>1, <1>7 DEF LedgerSignatures
<1> HIDE DEF S
<1>11. LedgerSignatures' = Append(LedgerSignatures, view)
  BY <1>5, <1>8, <1>9, <1>10, AppendedRow
<1>12. LedgerDocuments[mem[r].doc].digest = docs[mem[r].doc].digest
       /\ mem[r].doc \in DOMAIN LedgerDocuments
  BY <1>2 DEF LedgerDocuments
<1>13. LedgerAsker' = LedgerAsker /\ LedgerAccepted' = LedgerAccepted
  BY <1>1, AnswerUnseen DEF InsertSig, Committed
<1>14. LedgerSignatures' = Append(LedgerSignatures,
         [doc |-> mem[r].doc, over |-> LedgerDocuments[mem[r].doc].digest, live |-> TRUE])
  BY <1>11, <1>12 DEF view
<1> QED  BY <1>1, <1>12, <1>13, <1>14, DocumentsSame DEF Ledger!Certify

LEMMA FindSigsAccepts ==
    ASSUME Core, NEW r \in Requests, FindSigs(r)
    PROVE  Ledger!Accept(r) \/ Unseen
<1> USE DEF Core, Control, TypeOK
<1>1. pc[r] = "find_sigs" /\ UNCHANGED tables /\ mem[r] \in MemType
      /\ LedgerDocuments' = LedgerDocuments /\ LedgerSignatures' = LedgerSignatures
  BY MemFacts, TablesUnseen DEF FindSigs
<1>2. CASE Goto(r, "remove", mem[r])
  BY <1>1, <1>2, NoVerdict, GotoUnseen DEF Unseen
<1>3. ASSUME NEW s \in SignaturesOf(mem[r].doc), NEW v,
             Goto(r, "remove", [mem[r] EXCEPT !.verdict = v])
      PROVE  Ledger!Accept(r) \/ Unseen
  <2>1. [mem[r] EXCEPT !.verdict = v].verdict = v
    BY <1>1 DEF MemType
  <2>2. CASE ~v
    BY <1>1, <1>3, <2>1, <2>2, GotoUnseen DEF Unseen
  <2>3. CASE v
    <3>1. /\ mem[r].doc \in DOMAIN docs /\ docs[mem[r].doc].user = job[r].user
          /\ job[r].op = "verify"
      BY <1>1 DEF HandlerOK, VerifySteps, Judged, JudgedAt, JudgeOK
    <3>2. s \in DOMAIN sigs /\ sigs[s].doc = mem[r].doc /\ sigs[s].live
      BY DEF SignaturesOf
    <3>3. /\ mem[r].doc \in DOMAIN LedgerDocuments /\ s \in DOMAIN LedgerSignatures
          /\ LedgerDocuments[mem[r].doc].user = LedgerAsker[r]
          /\ LedgerSignatures[s].doc = mem[r].doc /\ LedgerSignatures[s].live
      BY <3>1, <3>2 DEF LedgerDocuments, LedgerSignatures, LedgerAsker
    <3>4. /\ pc' = [pc EXCEPT ![r] = "remove"] /\ reply' = reply /\ job' = job
          /\ mem' = [mem EXCEPT ![r] = [mem[r] EXCEPT !.verdict = v]]
      BY <1>3 DEF Goto
    <3>5. LedgerAccepted' = [LedgerAccepted EXCEPT ![r] = TRUE]
      BY <2>1, <2>3, <3>4 DEF LedgerAccepted, LocalOK
    <3> QED  BY <1>1, <3>3, <3>4, <3>5, AskerSame DEF Ledger!Accept
  <2> QED  BY <2>2, <2>3
<1> QED  BY <1>2, <1>3 DEF FindSigs

-----------------------------------------------------------------------------
(* The steps it does not see.                                               *)

LEMMA SealUnseen ==
    ASSUME Core, NEW r \in Requests, Seal(r)
    PROVE  Unseen
<1> USE DEF Core, Control, TypeOK
<1>1. pc[r] = "seal" /\ docs' = docs /\ sigs' = sigs /\ mem[r] \in MemType
  BY MemFacts DEF Seal
<1>2. KeysKeep
  BY DEF Seal, KeysKeep, TablesOK
<1>3. LedgerAsker' = LedgerAsker /\ LedgerAccepted' = LedgerAccepted
  BY <1>1, NoVerdict, GotoUnseen, AnswerUnseen DEF Seal
<1> QED  BY <1>1, <1>2, <1>3, DocumentsSame, SignaturesSame DEF Unseen

LEMMA RemoveUnseen ==
    ASSUME Core, NEW r \in Requests, RemoveTemp(r)
    PROVE  Unseen
<1> USE DEF Core, Control, TypeOK
<1>1. UNCHANGED tables /\ job' = job /\ pc[r] = "remove"
  BY DEF RemoveTemp
<1>2. ASSUME NEW q \in Requests, q # r  PROVE AcceptedAt(q)' = AcceptedAt(q)
  <2>1. mem[q] \in MemType
    BY MemFacts
  <2>2. pc'[q] = pc[q] /\ reply'[q] = reply[q] /\ mem'[q].verdict = mem[q].verdict
    BY <1>2, <2>1 DEF RemoveTemp, LocalOK, MemType
  <2> QED  BY <2>2 DEF AcceptedAt
<1>3. /\ reply[r] = "none" /\ pc'[r] = "idle" /\ mem[r] \in MemType
      /\ reply'[r] = IF mem[r].verdict THEN "valid" ELSE "rejected"
  BY <1>1, MemFacts DEF RemoveTemp, LocalOK, Judged, JudgedAt, JudgeOK
<1>4. AcceptedAt(r)' <=> AcceptedAt(r)
  BY <1>1, <1>3 DEF AcceptedAt
<1>5. LedgerAccepted' = LedgerAccepted
  <2>1. \A q \in Requests : AcceptedAt(q)' <=> AcceptedAt(q)
    BY <1>2, <1>4
  <2>2. \A q \in Requests : AcceptedAt(q)' = AcceptedAt(q)
    BY <2>1 DEF AcceptedAt
  <2> QED  BY <2>2, AcceptedSame
<1> QED  BY <1>1, <1>5, TablesUnseen, AskerSame DEF Unseen

LEMMA OtherStepsUnseen ==
    ASSUME Core, NEW r \in Requests, Step(r),
           ~InsertDoc(r), ~Seal(r), ~InsertSig(r), ~FindSigs(r), ~RemoveTemp(r)
    PROVE  Unseen
<1> USE DEF Core
<1>1. CASE UploadStep(r)
  BY <1>1, TablesUnseen, NoVerdict, GotoUnseen, AnswerUnseen
     DEF UploadStep, SaveCreate, SaveCopy, ReadUpload, Unseen
<1>2. CASE SignStep(r)
  BY <1>2, TablesUnseen, NoVerdict, GotoUnseen, AnswerUnseen
     DEF SignStep, FindDoc, FindSigner, SignedCreate, SignedWrite, Unseen
<1>3. CASE VerifyStep(r)
  <2>1. CASE TempCreate(r)
    BY <2>1, TablesUnseen, NoVerdict, GotoUnseen, AnswerUnseen DEF TempCreate, Unseen
  <2>2. CASE TempCopy(r)
    BY <2>2, TablesUnseen, NoVerdict, GotoUnseen DEF TempCopy, Unseen
  <2>3. CASE TempRead(r)
    BY <2>3, TablesUnseen, NoVerdict, GotoUnseen DEF TempRead, Unseen
  <2>4. CASE FindByDigest(r)
    <3>1. mem[r] \in MemType /\ ~mem[r].verdict
      BY <2>4, NoVerdict, MemFacts DEF FindByDigest
    <3>2. \A d : ~[mem[r] EXCEPT !.doc = d].verdict
      BY <3>1 DEF MemType
    <3> QED  BY <2>4, <3>1, <3>2, TablesUnseen, GotoUnseen
             DEF FindByDigest, FirstOf, Unseen
  <2> QED  BY <1>3, <2>1, <2>2, <2>3, <2>4 DEF VerifyStep
<1>4. CASE Fault(r)
  BY <1>4, TablesUnseen, NoVerdict, GotoUnseen, AnswerUnseen
     DEF Fault, DbFails, WriteFails, Unseen
<1> QED  BY <1>1, <1>2, <1>3, <1>4 DEF Step

LEMMA LocalUnseen ==
    ASSUME UNCHANGED local
    PROVE  LedgerAsker' = LedgerAsker /\ LedgerAccepted' = LedgerAccepted
BY DEF local, LedgerAsker, LedgerAccepted

LEMMA DeleteIsSeen ==
    ASSUME Core, Delete
    PROVE  \/ \E d \in DOMAIN LedgerDocuments : Ledger!Withdraw(d)
           \/ \E s \in DOMAIN LedgerSignatures : Ledger!Revoke(s)
           \/ Unseen
<1> USE DEF Core, Control, TypeOK
<1>1. ASSUME NEW d \in DOMAIN docs, DeleteDocument(d)
      PROVE  d \in DOMAIN LedgerDocuments /\ Ledger!Withdraw(d)
  <2>1. /\ docs' = [docs EXCEPT ![d].live = FALSE] /\ docs[d].live
        /\ sigs' = sigs /\ UNCHANGED local
    BY <1>1 DEF DeleteDocument, LiveDoc
  <2>2. KeysKeep
    BY <1>1 DEF DeleteDocument, KeysKeep
  <2>3. \A e \in DOMAIN docs : docs[e] \in DocType
    BY DocFacts
  <2>4. LedgerDocuments' = [LedgerDocuments EXCEPT ![d].live = FALSE]
    BY <2>1, <2>3 DEF LedgerDocuments, DocType
  <2>5. d \in DOMAIN LedgerDocuments /\ LedgerDocuments[d].live
    BY <2>1 DEF LedgerDocuments
  <2> QED  BY <2>1, <2>2, <2>4, <2>5, SignaturesSame, LocalUnseen DEF Ledger!Withdraw
<1>2. ASSUME NEW s \in DOMAIN sigs, DeleteSignature(s)
      PROVE  s \in DOMAIN LedgerSignatures /\ Ledger!Revoke(s)
  <2>1. /\ sigs' = [sigs EXCEPT ![s].live = FALSE] /\ sigs[s].live
        /\ docs' = docs /\ signed' = signed /\ UNCHANGED local
    BY <1>2 DEF DeleteSignature
  <2>2. \A t \in DOMAIN sigs : sigs[t] \in SigType
    BY SigFacts
  <2>3. LedgerSignatures' = [LedgerSignatures EXCEPT ![s].live = FALSE]
    BY <2>1, <2>2 DEF LedgerSignatures, SigType
  <2>4. s \in DOMAIN LedgerSignatures /\ LedgerSignatures[s].live
    BY <2>1 DEF LedgerSignatures
  <2> QED  BY <2>1, <2>3, <2>4, DocumentsSame, LocalUnseen DEF Ledger!Revoke
<1>3. ASSUME NEW u \in Users, DeleteUser(u)  PROVE Unseen
  <2>1. docs' = docs /\ sigs' = sigs /\ UNCHANGED local
    BY <1>3 DEF DeleteUser
  <2>2. KeysKeep
    BY <1>3 DEF DeleteUser, KeysKeep
  <2> QED  BY <2>1, <2>2, DocumentsSame, SignaturesSame, LocalUnseen DEF Unseen
<1> QED  BY <1>1, <1>2, <1>3 DEF Delete

LEMMA RestartForgets ==
    ASSUME Core, Crash \/ Redeploy
    PROVE  Ledger!Forget
<1>1. /\ UNCHANGED tables /\ job' = [r \in Requests |-> NoJob]
      /\ pc' = [r \in Requests |-> "idle"] /\ reply' = [r \in Requests |-> "none"]
  BY DEF Crash, Redeploy, ProcessEnds
<1>2. LedgerAsker' = [r \in Requests |-> None]
  BY <1>1 DEF LedgerAsker, NoJob
<1>3. LedgerAccepted' = [r \in Requests |-> FALSE]
  BY <1>1 DEF LedgerAccepted
<1> QED  BY <1>1, <1>2, <1>3, TablesUnseen DEF Ledger!Forget

LEMMA NextLedger == Core /\ [Next]_vars => [Ledger!LNext]_(Ledger!lvars)
<1> SUFFICES ASSUME Core, [Next]_vars  PROVE Ledger!LNext \/ Unseen
  BY DEF Unseen, Ledger!lvars
<1>1. ASSUME NEW r \in Requests, Request(r)  PROVE Ledger!LNext
  BY <1>1, RequestAsks DEF Ledger!LNext
<1>2. ASSUME NEW r \in Requests, Step(r)  PROVE Ledger!LNext \/ Unseen
  <2>1. CASE InsertDoc(r)
    BY <2>1, InsertDocRegisters DEF Ledger!LNext
  <2>2. CASE InsertSig(r)
    BY <2>2, InsertSigCertifies DEF Ledger!LNext
  <2>3. CASE FindSigs(r)
    BY <2>3, FindSigsAccepts DEF Ledger!LNext
  <2>4. CASE Seal(r) \/ RemoveTemp(r)
    BY <2>4, SealUnseen, RemoveUnseen
  <2> QED  BY <1>2, <2>1, <2>2, <2>3, <2>4, OtherStepsUnseen
<1>3. CASE Delete
  BY <1>3, DeleteIsSeen DEF Ledger!LNext
<1>4. CASE Crash \/ Redeploy
  BY <1>4, RestartForgets DEF Ledger!LNext
<1>5. CASE UNCHANGED vars
  <2>1. UNCHANGED tables /\ UNCHANGED local
    BY <1>5 DEF vars, tables, local
  <2> QED  BY <2>1, TablesUnseen, LocalUnseen DEF Unseen
<1> QED  BY <1>1, <1>2, <1>3, <1>4, <1>5 DEF Next

\* Every behaviour of the service is one of the ledger: a signature row is over
\* the digest its document was registered with, and "valid" is decided only by a
\* step at which a document of the asking user carries a live signature,
\* whatever the number of requests, users, documents and faults.
THEOREM Refinement == Spec => ImplementsLedger
<1>1. Init => Core
  BY InitControl, InitBound, InitJudged DEF Core
<1>2. Core /\ [Next]_vars => Core'
  BY NextControl, NextBound, NextJudged DEF Core
<1>3. Init => Ledger!LInit
  BY LedgerInit
<1>4. Core /\ [Next]_vars => [Ledger!LNext]_(Ledger!lvars)
  BY NextLedger
<1> QED  BY <1>1, <1>2, <1>3, <1>4, PTL DEF Spec, ImplementsLedger, Ledger!LSpec
=============================================================================
