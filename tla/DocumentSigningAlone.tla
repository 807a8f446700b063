------------------------ MODULE DocumentSigningAlone ------------------------
(***************************************************************************)
(* Proofs about DocumentSigning while requests keep to files of their own: *)
(* uploads register what was sent and verdicts are about what was sent;    *)
(* and while requests run one at a time: genuine signed files are accepted. *)
(***************************************************************************)
EXTENDS DocumentSigningProofs

OneAtATime == \A q, r \in Requests : q = r

\* Nothing comes between the statements of a request, and none fails.
Undivided == /\ OneAtATime
             /\ Events \cap {"db_fails", "delete_document", "delete_signature",
                             "delete_user"} = {}

Working == UploadSteps \cup VerifySteps \cup {"signed_create", "signed_write"}

\* The file a request works on.
Place(r) ==
    CASE pc[r] \in VerifySteps                       -> TempPath(job[r].name)
      [] pc[r] \in {"signed_create", "signed_write"} -> SignedPath(docs[mem[r].doc].path)
      [] OTHER                                       -> job[r].name

\* No other request works on the file of an upload or of a verification.
Apart ==
    \A q, r \in Requests :
        q # r /\ pc[q] \in Working /\ pc[r] \in UploadSteps \cup VerifySteps
            => Place(q) # Place(r)

Sent == \A r \in Requests : SentOK(r)

-----------------------------------------------------------------------------
(* What was sent is what is on disk and in memory.                          *)

LEMMA NothingBefore ==
    ASSUME NEW c \in Content
    PROVE  Overwrite(<<>>, c) = c
<1>1. Len(c) \in Nat /\ c \in Seq(Chunk)
  BY LenProperties DEF Content
<1>2. SubSeq(<<>>, Len(c) + 1, Len(<<>>)) = <<>>
  BY <1>1
<1>3. c \o <<>> = c
  BY <1>1, ConcatEmptySeq
<1> QED  BY <1>2, <1>3 DEF Overwrite

LEMMA WriteToStored ==
    ASSUME NEW r \in Requests, mem[r].open, NEW p, Stored(p, <<>>), NEW c \in Content,
           WriteTo(r, p, c)
    PROVE  p \in DOMAIN files' /\ files'[p] = c
BY NothingBefore DEF WriteTo, Stored, Exists, Put

LEMMA UploadSent ==
    ASSUME Control, Sent, NEW r \in Requests, UploadStep(r)
    PROVE  SentOK(r)'
<1> USE DEF Control, TypeOK, LocalOK
<1>1. /\ SentOK(r) /\ mem[r] \in MemType /\ job[r].body \in Content
      /\ job' = job
  BY MemFacts DEF Sent, JobType, UploadStep, SaveCreate, SaveCopy, ReadUpload, InsertDoc,
     Committed, Goto, Answer
<1>2. CASE pc'[r] = "idle"
  BY <1>2 DEF SentOK, UploadSteps, SignSteps
<1>3. CASE SaveCreate(r)
  <2>1. mem'[r].open /\ pc'[r] = "save_copy"
    BY <1>1, <1>3 DEF SaveCreate, Goto, MemType
  <2>2. Stored(job[r].name, <<>>)'
    BY <1>1, <1>3 DEF SaveCreate, Put, Stored, Exists
  <2> QED  BY <1>1, <1>3, <2>1, <2>2 DEF SaveCreate, SentOK, UploadSteps, SignSteps
<1>4. CASE SaveCopy(r)
  <2>1. mem[r].open /\ Stored(job[r].name, <<>>) /\ pc'[r] = "read_upload"
    BY <1>1, <1>4 DEF SaveCopy, Goto, SentOK
  <2>2. Stored(job[r].name, job[r].body)'
    BY <1>1, <1>4, <2>1, WriteToStored DEF SaveCopy, Stored, Exists
  <2> QED  BY <1>1, <1>4, <2>1, <2>2 DEF SaveCopy, SentOK, UploadSteps, SignSteps
<1>5. CASE ReadUpload(r)
  <2>1. CASE Exists(job[r].name)
    <3>1. mem'[r].seen = job[r].body /\ pc'[r] = "insert_doc"
      BY <1>1, <1>5, <2>1 DEF ReadUpload, Goto, MemType, SentOK, Stored
    <3> QED  BY <1>1, <1>5, <3>1 DEF ReadUpload, SentOK, UploadSteps, SignSteps
  <2>2. CASE ~Exists(job[r].name)
    BY <1>2, <1>5, <2>2 DEF ReadUpload, Answer
  <2> QED  BY <2>1, <2>2
<1>6. CASE InsertDoc(r)
  BY <1>2, <1>6 DEF InsertDoc, Committed, Answer
<1> QED  BY <1>3, <1>4, <1>5, <1>6 DEF UploadStep

LEMMA SignSent ==
    ASSUME Control, Sent, NEW r \in Requests, SignStep(r)
    PROVE  SentOK(r)'
<1> USE DEF Control, TypeOK, LocalOK
<1>1. pc'[r] \in SignSteps \cup {"idle"} /\ pc[r] \in SignSteps /\ job' = job
  BY DEF SignStep, FindDoc, FindSigner, Seal, SignedCreate, SignedWrite, InsertSig,
     Committed, Goto, Answer, SignSteps
<1> QED  BY <1>1 DEF Sent, SentOK, UploadSteps, SignSteps

LEMMA VerifySent ==
    ASSUME Control, Judged, Sent, NEW r \in Requests, VerifyStep(r)
    PROVE  SentOK(r)'
<1> USE DEF Control, TypeOK, LocalOK
<1>1. /\ SentOK(r) /\ mem[r] \in MemType /\ job[r].body \in Content
      /\ job' = job /\ JudgeOK(r)
  BY MemFacts DEF Sent, JobType, VerifyStep, TempCreate, TempCopy, TempRead, FindByDigest,
     FirstOf, FindSigs, RemoveTemp, Goto, Answer, Judged, JudgedAt
<1>2. CASE pc'[r] = "idle"
  BY <1>2 DEF SentOK, UploadSteps, SignSteps
<1>3. CASE TempCreate(r)
  <2>1. CASE dir
    <3>1. mem'[r].open /\ pc'[r] = "temp_copy"
      BY <1>1, <1>3, <2>1 DEF TempCreate, Goto, MemType
    <3>2. Stored(TempPath(job[r].name), <<>>)'
      BY <1>1, <1>3, <2>1 DEF TempCreate, Put, Stored, Exists
    <3> QED  BY <1>1, <3>1, <3>2 DEF SentOK, UploadSteps, SignSteps
  <2>2. CASE ~dir
    BY <1>2, <1>3, <2>2 DEF TempCreate, Answer
  <2> QED  BY <2>1, <2>2
<1>4. CASE TempCopy(r)
  <2>1. mem[r].open /\ Stored(TempPath(job[r].name), <<>>) /\ pc'[r] = "temp_read"
    BY <1>1, <1>4 DEF TempCopy, Goto, SentOK
  <2>2. Stored(TempPath(job[r].name), job[r].body)'
    BY <1>1, <1>4, <2>1, WriteToStored DEF TempCopy, Stored, Exists
  <2> QED  BY <1>1, <2>1, <2>2 DEF SentOK, UploadSteps, SignSteps
<1>5. CASE TempRead(r)
  <2> DEFINE p == TempPath(job[r].name)
  <2>1. CASE Exists(p) /\ HasSignature(files[p])
    <3>1. Goto(r, "find_by_digest", [mem[r] EXCEPT !.seen = files[p]])
      BY <1>5, <2>1 DEF TempRead
    <3>2. files[p] = job[r].body
      BY <1>1, <1>5 DEF TempRead, SentOK, Stored
    <3>3. mem'[r].seen = job[r].body /\ pc'[r] = "find_by_digest"
      BY <1>1, <3>1, <3>2 DEF Goto, MemType
    <3> QED  BY <1>1, <3>3 DEF SentOK, UploadSteps, SignSteps
  <2>2. CASE ~(Exists(p) /\ HasSignature(files[p]))
    <3>1. pc'[r] = "remove" /\ mem'[r] = mem[r] /\ pc[r] = "temp_read"
      BY <1>5, <2>2 DEF TempRead, Goto
    <3>2. ~mem'[r].verdict
      BY <1>1, <3>1 DEF JudgeOK
    <3> QED  BY <1>1, <3>1, <3>2 DEF SentOK, UploadSteps, SignSteps
  <2> QED  BY <2>1, <2>2
<1>6. CASE FindByDigest(r) \/ FindSigs(r)
  <2>1. mem'[r].seen = mem[r].seen
    BY <1>1, <1>6 DEF FindByDigest, FirstOf, FindSigs, Goto, MemType
  <2>2. pc'[r] \in {"find_sigs", "remove"} /\ mem[r].seen = job[r].body
    BY <1>1, <1>6 DEF FindByDigest, FirstOf, FindSigs, Goto, SentOK
  <2> QED  BY <1>1, <2>1, <2>2 DEF SentOK, UploadSteps, SignSteps
<1>7. CASE RemoveTemp(r)
  BY <1>2, <1>7 DEF RemoveTemp
<1> QED  BY <1>3, <1>4, <1>5, <1>6, <1>7 DEF VerifyStep

LEMMA FaultSent ==
    ASSUME Control, Judged, Sent, NEW r \in Requests, Fault(r)
    PROVE  SentOK(r)'
<1> USE DEF Control, TypeOK, LocalOK
<1>1. CASE pc'[r] = "idle"
  BY <1>1 DEF SentOK, UploadSteps, SignSteps
<1>2. CASE pc[r] \in {"find_by_digest", "find_sigs"} /\ Goto(r, "remove", mem[r])
  BY <1>2 DEF Goto, Sent, SentOK, UploadSteps, SignSteps
<1> QED  BY <1>1, <1>2 DEF Fault, DbFails, WriteFails, Answer

\* Another request leaves alone what this one works on.
LEMMA OthersAside ==
    ASSUME Control, Apart, NEW q \in Requests, NEW r \in Requests, q # r,
           Request(q) \/ Step(q), pc[r] \in UploadSteps \cup VerifySteps, Exists(Place(r))
    PROVE  Place(r) \in DOMAIN files' /\ files'[Place(r)] = files[Place(r)]
<1> DEFINE p == Place(r)
<1>1. pc[q] \in Working => Place(q) # p
  BY DEF Apart
<1>2. CASE Writer(q)
  <2>1. pc[q] \in Working /\ Target(q) = Place(q)
    BY <1>2 DEF Writer, SaveCreate, SaveCopy, SignedCreate, SignedWrite, TempCreate, TempCopy,
       WriteFails, Working, Target, Place, UploadSteps, VerifySteps
  <2> QED  BY <1>1, <1>2, <2>1, WriterFrame DEF Exists
<1>3. CASE RemoveTemp(q)
  <2>1. pc[q] \in Working /\ TempPath(job[q].name) = Place(q)
    BY <1>3 DEF RemoveTemp, Working, Place, VerifySteps
  <2> HIDE DEF p
  <2>2. p \in DOMAIN files' /\ files'[p] = files[p]
    BY <1>1, <1>3, <2>1 DEF RemoveTemp, Exists, p
  <2> QED  BY <2>2 DEF p
<1>4. CASE ~Writer(q) /\ ~RemoveTemp(q)
  BY <1>4, NoWriteStep DEF Exists
<1> QED  BY <1>2, <1>3, <1>4

LEMMA OthersLocals ==
    ASSUME Control, Apart, NEW q \in Requests, NEW r \in Requests, q # r,
           Request(q) \/ Step(q), pc[r] \in UploadSteps \cup VerifySteps
    PROVE  /\ mem'[r].open = mem[r].open /\ mem'[r].seen = mem[r].seen
           /\ mem'[r].verdict = mem[r].verdict
<1>1. mem[r] \in MemType /\ HandlerOK(r)
  BY MemFacts
<1>2. CASE RemoveTemp(q)
  <2>1. TempPath(job[q].name) # Place(r)
    BY <1>2 DEF RemoveTemp, Apart, Working, Place, VerifySteps
  <2>2. mem[r].open => WritePath(r) = Place(r)
    BY <1>1 DEF HandlerOK, WritePath, Place, UploadSteps, VerifySteps
  <2>3. mem'[r] = [mem[r] EXCEPT !.open = @ /\ ~(r # q /\ mem[r].open
                                                  /\ WritePath(r) = TempPath(job[q].name))]
    BY <1>2 DEF RemoveTemp
  <2> QED  BY <1>1, <2>1, <2>2, <2>3 DEF MemType
<1>3. CASE ~RemoveTemp(q)
  <2>1. mem'[r] = mem[r]
    BY <1>3 DEF Request, Upload, Sign, Verify, Begin, Step, UploadStep, SignStep, VerifyStep,
       Fault, SaveCreate, SaveCopy, ReadUpload, InsertDoc, Committed, FindDoc, FindSigner,
       Seal, SignedCreate, SignedWrite, InsertSig, TempCreate, TempCopy, TempRead,
       FindByDigest, FirstOf, FindSigs, DbFails, WriteFails, Goto, Answer, Control, TypeOK,
       LocalOK
  <2> QED  BY <2>1
<1> QED  BY <1>2, <1>3

LEMMA OthersControl ==
    ASSUME Control, NEW q \in Requests, NEW r \in Requests, q # r, Request(q) \/ Step(q)
    PROVE  pc'[r] = pc[r] /\ job'[r] = job[r]
<1> USE DEF Control, TypeOK, LocalOK
<1>1. CASE Request(q)
  BY <1>1 DEF Request, Upload, Sign, Verify, Begin
<1>2. CASE UploadStep(q)
  BY <1>2 DEF UploadStep, SaveCreate, SaveCopy, ReadUpload, InsertDoc, Committed, Goto, Answer
<1>3. CASE SignStep(q)
  BY <1>3 DEF SignStep, FindDoc, FindSigner, Seal, SignedCreate, SignedWrite, InsertSig,
     Committed, Goto, Answer
<1>4. CASE VerifyStep(q)
  BY <1>4 DEF VerifyStep, TempCreate, TempCopy, TempRead, FindByDigest, FirstOf, FindSigs,
     RemoveTemp, Goto, Answer
<1>5. CASE Fault(q)
  BY <1>5 DEF Fault, DbFails, WriteFails, Goto, Answer
<1> QED  BY <1>1, <1>2, <1>3, <1>4, <1>5 DEF Step

LEMMA OthersSent ==
    ASSUME Control, Apart, Sent, NEW q \in Requests, NEW r \in Requests, q # r,
           Request(q) \/ Step(q)
    PROVE  SentOK(r)'
<1>1. pc'[r] = pc[r] /\ job'[r] = job[r] /\ SentOK(r)
  BY OthersControl DEF Sent
<1>2. CASE pc[r] \in UploadSteps \cup VerifySteps
  <2>1. /\ mem'[r].open = mem[r].open /\ mem'[r].seen = mem[r].seen
        /\ mem'[r].verdict = mem[r].verdict
    BY <1>2, OthersLocals
  <2>2. Exists(Place(r)) => /\ Place(r) \in DOMAIN files'
                            /\ files'[Place(r)] = files[Place(r)]
    BY <1>2, OthersAside
  <2>3. pc[r] \in {"save_copy", "read_upload"} => Place(r) = job[r].name
    BY DEF Place, VerifySteps
  <2>4. pc[r] \in {"temp_copy", "temp_read"} => Place(r) = TempPath(job[r].name)
    BY DEF Place, VerifySteps
  <2>5. \A p, c : p = Place(r) /\ Stored(p, c) => Stored(p, c)'
    BY <2>2 DEF Stored, Exists
  <2> QED  BY <1>1, <1>2, <2>1, <2>3, <2>4, <2>5 DEF SentOK, UploadSteps, SignSteps, VerifySteps
<1>3. CASE pc[r] \notin UploadSteps \cup VerifySteps
  BY <1>1, <1>3 DEF SentOK, UploadSteps, SignSteps, VerifySteps
<1> QED  BY <1>2, <1>3

LEMMA NextSent == Control /\ Judged /\ Sent /\ Apart /\ [Next]_vars => Sent'
<1> SUFFICES ASSUME Control, Judged, Sent, Apart, [Next]_vars, NEW q \in Requests
             PROVE  SentOK(q)'
  BY DEF Sent
<1>1. ASSUME NEW r \in Requests, Request(r) \/ Step(r), r # q  PROVE SentOK(q)'
  BY <1>1, OthersSent
<1>2. CASE Request(q)
  BY <1>2 DEF Request, Upload, Sign, Verify, Begin, SentOK, UploadSteps, SignSteps,
     Control, TypeOK, LocalOK
<1>3. CASE Step(q)
  BY <1>3, UploadSent, SignSent, VerifySent, FaultSent DEF Step
<1>4. CASE UNCHANGED <<files, pc, job, mem>>
  BY <1>4 DEF Sent, SentOK, Stored, Exists
<1>5. CASE Delete
  BY <1>4, <1>5 DEF Delete, DeleteDocument, DeleteSignature, DeleteUser, disk, local
<1>6. CASE Crash \/ Redeploy
  BY <1>6 DEF Crash, Redeploy, ProcessEnds, SentOK, UploadSteps, SignSteps
<1> QED  BY <1>1, <1>2, <1>3, <1>4, <1>5, <1>6 DEF Next, vars

LEMMA InitSent == Init => Sent
BY DEF Init, Sent, SentOK, UploadSteps, SignSteps
-----------------------------------------------------------------------------
(* Answers: uploads are faithful, verdicts are the sender's own.             *)

LEMMA AnswersOfSteps ==
    ASSUME Control, Judged, NEW r \in Requests, Request(r) \/ Step(r)
    PROVE  /\ reply'[r] = "ok" => InsertDoc(r) \/ InsertSig(r)
           /\ reply'[r] \in {"valid", "rejected"} => RemoveTemp(r)
           /\ \A q \in Requests : q # r => reply'[q] = reply[q]
<1> USE DEF Control, TypeOK, LocalOK
<1>1. pc[r] # "idle" => reply[r] = "none"
  BY DEF Judged, JudgedAt, JudgeOK
<1>2. CASE Request(r)
  BY <1>2 DEF Request, Upload, Sign, Verify, Begin
<1>3. CASE UploadStep(r)
  BY <1>1, <1>3 DEF UploadStep, SaveCreate, SaveCopy, ReadUpload, InsertDoc, Committed, Goto,
     Answer
<1>4. CASE SignStep(r)
  BY <1>1, <1>4 DEF SignStep, FindDoc, FindSigner, Seal, SignedCreate, SignedWrite,
     InsertSig, Committed, Goto, Answer
<1>5. CASE VerifyStep(r)
  BY <1>1, <1>5 DEF VerifyStep, TempCreate, TempCopy, TempRead, FindByDigest, FirstOf,
     FindSigs, RemoveTemp, Goto, Answer
<1>6. CASE Fault(r)
  BY <1>1, <1>6 DEF Fault, DbFails, WriteFails, Goto, Answer
<1> QED  BY <1>2, <1>3, <1>4, <1>5, <1>6 DEF Step

Registered(u, p, c) == \E d \in DOMAIN docs : /\ docs[d].user = u /\ docs[d].path = p
                                              /\ docs[d].digest = Digest(c)

LEMMA RegisteredStays ==
    ASSUME Control, RowsKeep, NEW u, NEW p, NEW c, Registered(u, p, c)
    PROVE  Registered(u, p, c)'
<1>1. PICK d \in DOMAIN docs : /\ docs[d].user = u /\ docs[d].path = p
                               /\ docs[d].digest = Digest(c)
  BY DEF Registered
<1>2. docs[d] \in DocType
  BY DocFacts DEF Control, TypeOK
<1>3. d \in DOMAIN docs' /\ docs'[d].path = p
  BY <1>1, <1>2 DEF RowsKeep, DocType
<1>4. docs'[d].user = u /\ docs'[d].digest = Digest(c)
  BY <1>1, FieldsKeep
<1> QED  BY <1>3, <1>4 DEF Registered

LEMMA InsertRegisters ==
    ASSUME Control, Sent, NEW r \in Requests, InsertDoc(r), NEW u, NEW p, NEW c,
           u = job[r].user, p = job[r].name, c = job[r].body
    PROVE  Registered(u, p, c)'
<1> DEFINE row == [user |-> job[r].user, path |-> job[r].name,
                   digest |-> Digest(mem[r].seen), status |-> "uploaded", live |-> TRUE]
<1>1. docs' = Append(docs, row) /\ docs \in Seq(DocType)
  BY DEF InsertDoc, Control, TypeOK, TablesOK
<1>2. row.user = u /\ row.path = p /\ row.digest = Digest(c)
  BY DEF Sent, SentOK, InsertDoc
<1> HIDE DEF row
<1>3. Len(docs) + 1 \in DOMAIN docs' /\ docs'[Len(docs) + 1] = row
  BY <1>1
<1> QED  BY <1>2, <1>3 DEF Registered

FaithfulAt(r) == job[r].op = "upload" /\ reply[r] = "ok"
                   => Registered(job[r].user, job[r].name, job[r].body)

OwnAt(r) == reply[r] = "valid" => Carries(job[r].user, job[r].body)

Answers == \A r \in Requests : FaithfulAt(r) /\ OwnAt(r)

\* While tables only grow, an answer that was right stays right.
LEMMA AnswerStays ==
    ASSUME Control, RowsKeep, NEW q \in Requests, FaithfulAt(q), OwnAt(q),
           job'[q] = job[q], reply'[q] = reply[q]
    PROVE  FaithfulAt(q)' /\ OwnAt(q)'
<1>1. PICK u, p, c : u = job[q].user /\ p = job[q].name /\ c = job[q].body
  OBVIOUS
<1>2. /\ job[q].op = "upload" /\ reply[q] = "ok" => Registered(u, p, c)'
      /\ reply[q] = "valid" => Carries(u, c)'
  BY <1>1, RegisteredStays, CarriesMore DEF FaithfulAt, OwnAt
<1>3. u = job'[q].user /\ p = job'[q].name /\ c = job'[q].body
  BY <1>1
<1>4. FaithfulAt(q)'
  BY <1>2, <1>3 DEF FaithfulAt, Registered
<1>5. OwnAt(q)'
  BY <1>2, <1>3 DEF OwnAt, Carries
<1> QED  BY <1>4, <1>5

LEMMA NextAnswers == Control /\ Judged /\ Sent /\ Answers /\ [Next]_vars => Answers'
<1> SUFFICES ASSUME Control, Judged, Sent, Answers, [Next]_vars, NEW q \in Requests
             PROVE  FaithfulAt(q)' /\ OwnAt(q)'
  BY DEF Answers
<1>1. RowsKeep
  BY RowsStep
<1>2. CASE job'[q] = job[q] /\ reply'[q] = reply[q]
  BY <1>1, <1>2, AnswerStays DEF Answers
<1>3. CASE reply'[q] \notin {"ok", "valid"}
  BY <1>3 DEF FaithfulAt, OwnAt
<1>4. ASSUME InsertDoc(q)  PROVE FaithfulAt(q)' /\ OwnAt(q)'
  <2>1. PICK u, p, c : u = job[q].user /\ p = job[q].name /\ c = job[q].body
    OBVIOUS
  <2>2. Registered(u, p, c)'
    BY <1>4, <2>1, InsertRegisters
  <2>3. job' = job /\ reply'[q] # "valid"
    BY <1>4 DEF InsertDoc, Committed, Answer, Control, TypeOK, LocalOK
  <2> QED  BY <2>1, <2>2, <2>3 DEF FaithfulAt, OwnAt, Registered
<1>5. ASSUME InsertSig(q)  PROVE FaithfulAt(q)' /\ OwnAt(q)'
  <2>1. job'[q].op = "sign" /\ reply'[q] # "valid"
    BY <1>5 DEF InsertSig, Committed, Answer, Sent, SentOK, SignSteps, Control, TypeOK, LocalOK
  <2> QED  BY <2>1 DEF FaithfulAt, OwnAt
<1>6. ASSUME RemoveTemp(q)  PROVE FaithfulAt(q)' /\ OwnAt(q)'
  <2>1. /\ job' = job /\ docs' = docs /\ sigs' = sigs /\ pc[q] = "remove"
        /\ reply'[q] = IF mem[q].verdict THEN "valid" ELSE "rejected"
    BY <1>6 DEF RemoveTemp, tables, Control, TypeOK, LocalOK
  <2>2. mem[q].verdict => Carries(job[q].user, job[q].body)
    BY <2>1 DEF Judged, JudgedAt, Sent, SentOK
  <2> QED  BY <2>1, <2>2 DEF FaithfulAt, OwnAt, Carries
<1>7. CASE Request(q) \/ Step(q)
  BY <1>3, <1>4, <1>5, <1>6, <1>7, AnswersOfSteps
<1>8. CASE UNCHANGED local
  BY <1>2, <1>8 DEF local
<1>9. CASE Delete
  BY <1>8, <1>9 DEF Delete, DeleteDocument, DeleteSignature, DeleteUser
<1>10. CASE Crash \/ Redeploy
  BY <1>3, <1>10 DEF Crash, Redeploy, ProcessEnds
<1>11. ASSUME NEW r \in Requests, r # q, Request(r) \/ Step(r)
       PROVE  FaithfulAt(q)' /\ OwnAt(q)'
  BY <1>2, <1>11, AnswersOfSteps, OthersControl
<1> QED  BY <1>7, <1>8, <1>9, <1>10, <1>11 DEF Next, vars, local

LEMMA InitAnswers == Init => Answers
BY DEF Init, Answers, FaithfulAt, OwnAt

AnswersInv == Control /\ Bound /\ Judged /\ Sent /\ Answers

LEMMA AnswersInductive == /\ Init => AnswersInv
                          /\ AnswersInv /\ Apart /\ [Next]_vars => AnswersInv'
BY InitControl, InitBound, InitJudged, InitSent, InitAnswers, NextControl, NextBound,
   NextJudged, NextSent, NextAnswers DEF AnswersInv

\* While no other request works on its file, an upload answered "ok" registered the
\* digest of the content that was sent, whatever else runs meanwhile and whatever
\* files, full disks and dead processes were there before (UploadDocument saves, then
\* CreateDocument reads back what is on disk).
THEOREM UploadsFaithful == Spec /\ []Apart => []UploadFaithful
<1>1. Answers => UploadFaithful
  BY DEF Answers, FaithfulAt, Registered, UploadFaithful
<1>2. AnswersInv => UploadFaithful
  BY <1>1 DEF AnswersInv
<1> QED  BY <1>2, AnswersInductive, PTL DEF Spec

\* While no other request works on its temporary file, a verification answered
\* "valid" was sent a content that carries, whatever is uploaded, signed, verified or
\* deleted meanwhile (UploadAndVerifyDocumentService reads the file it wrote).
THEOREM VerdictsOwn == Spec /\ []Apart => []VerdictOwn
<1>1. Answers => VerdictOwn
  BY DEF Answers, OwnAt, VerdictOwn
<1>2. AnswersInv => VerdictOwn
  BY <1>1 DEF AnswersInv
<1> QED  BY <1>2, AnswersInductive, PTL DEF Spec
-----------------------------------------------------------------------------
(* Genuine files are accepted: the look-ups come to the first document with   *)
(* the text, and to its signature.                                           *)

\* What the look-ups say of a content is right.
LEMMA NoDocument ==
    ASSUME NEW u, NEW c, LiveDocuments(u, c) = {}
    PROVE  ~Genuine(u, c)
BY DEF Genuine, IsFirst

LEMMA OneIsFirst ==
    ASSUME TablesOK, NEW u, NEW c, NEW d, NEW e, IsFirst(d, u, c), IsFirst(e, u, c)
    PROVE  d = e
<1>1. DOMAIN docs = 1 .. Len(docs) /\ Len(docs) \in Nat
  BY LenProperties DEF TablesOK
<1>2. d \in Nat /\ e \in Nat /\ d <= e /\ e <= d
  BY <1>1 DEF IsFirst, LiveDocuments
<1> QED  BY <1>2

LEMMA NoSignature ==
    ASSUME TablesOK, NEW u, NEW c, NEW d, IsFirst(d, u, c), SignaturesOf(d) = {}
    PROVE  ~Genuine(u, c)
BY OneIsFirst DEF Genuine

LEMMA WrongSignature ==
    ASSUME TablesOK, SignatureBinds, NEW u, NEW c, NEW d, IsFirst(d, u, c),
           NEW s \in SignaturesOf(d),
           ~VerifySignatureRaw(Claim(c), Original(c), sigs[s].key)
    PROVE  ~Genuine(u, c)
<1> SUFFICES ASSUME Genuine(u, c)  PROVE FALSE
  OBVIOUS
<1>1. Claim(c) = <<sigs[s].raw>>
  BY OneIsFirst DEF Genuine
<1>2. s \in DOMAIN sigs /\ sigs[s].doc = d /\ docs[d].digest = Digest(Original(c))
  BY DEF IsFirst, LiveDocuments, SignaturesOf
<1> QED  BY <1>1, <1>2 DEF VerifySignatureRaw, SignatureBinds

FairAt(r) == job[r].op = "verify" /\ reply[r] = "rejected" => ~Genuine(job[r].user, job[r].body)

Just == \A r \in Requests : JustOK(r) /\ FairAt(r)

\* What is not genuine stays so while the tables stay.
LEMMA VerdictStays ==
    ASSUME UNCHANGED <<docs, sigs>>, NEW r, UNCHANGED job, ~Genuine(job[r].user, job[r].body)
    PROVE  ~Genuine(job[r].user, job[r].body)'
BY DEF Genuine, IsFirst, LiveDocuments, SignaturesOf

LEMMA OutOfCourt ==
    ASSUME NEW r, pc'[r] \notin {"find_sigs", "remove"}, reply'[r] # "rejected"
    PROVE  JustOK(r)' /\ FairAt(r)'
BY DEF JustOK, FairAt

LEMMA VerifyJust ==
    ASSUME Control, Bound, Judged, Sent, Just, NEW r \in Requests, VerifyStep(r)
    PROVE  JustOK(r)' /\ FairAt(r)'
<1> USE DEF Control, TypeOK, LocalOK
<1> DEFINE u == job[r].user
           c == job[r].body
<1>1. /\ SentOK(r) /\ JustOK(r) /\ JudgeOK(r) /\ HandlerOK(r) /\ mem[r] \in MemType
      /\ UNCHANGED <<docs, sigs>> /\ job' = job
  BY MemFacts DEF Sent, Just, Judged, JudgedAt, VerifyStep, TempCreate, TempCopy, TempRead,
     FindByDigest, FirstOf, FindSigs, RemoveTemp, Goto, Answer, tables
<1>2. pc[r] \in VerifySteps /\ reply[r] = "none"
  BY <1>1 DEF JudgeOK, VerifyStep, TempCreate, TempCopy, TempRead, FindByDigest, FindSigs,
     RemoveTemp, VerifySteps
<1>3. ASSUME ~Genuine(u, c), pc'[r] # "find_sigs"  PROVE JustOK(r)' /\ FairAt(r)'
  BY <1>1, <1>3, VerdictStays DEF JustOK, FairAt
<1>4. CASE TempCreate(r) \/ TempCopy(r)
  BY <1>2, <1>4, OutOfCourt DEF TempCreate, TempCopy, Goto, Answer
<1>5. CASE TempRead(r)
  <2>1. Stored(TempPath(job[r].name), c)
    BY <1>1, <1>5 DEF TempRead, SentOK
  <2>2. CASE HasSignature(c)
    BY <1>2, <1>5, <2>1, <2>2, OutOfCourt DEF TempRead, Goto, Stored
  <2>3. CASE ~HasSignature(c)
    <3>1. pc'[r] = "remove"
      BY <1>5, <2>1, <2>3 DEF TempRead, Goto, Stored
    <3> QED  BY <1>3, <2>3, <3>1 DEF Genuine
  <2> QED  BY <2>2, <2>3
<1>6. CASE FindByDigest(r)
  <2>1. mem[r].seen = c
    BY <1>1, <1>6 DEF FindByDigest, SentOK
  <2>2. FirstOf(LiveDocuments(u, c), r)
    BY <1>6, <2>1 DEF FindByDigest, LiveDocuments
  <2>3. CASE LiveDocuments(u, c) = {} /\ Goto(r, "remove", mem[r])
    <3>1. pc'[r] = "remove"
      BY <2>3 DEF Goto
    <3> QED  BY <1>3, <2>3, <3>1, NoDocument
  <2>4. ASSUME NEW d \in LiveDocuments(u, c), \A e \in LiveDocuments(u, c) : d <= e,
               Goto(r, "find_sigs", [mem[r] EXCEPT !.doc = d])
        PROVE  JustOK(r)' /\ FairAt(r)'
    <3>1. pc'[r] = "find_sigs" /\ mem'[r].doc = d /\ reply' = reply
      BY <1>1, <2>4 DEF Goto, MemType
    <3>2. IsFirst(d, u, c)'
      BY <1>1, <2>4 DEF IsFirst, LiveDocuments
    <3> QED  BY <1>1, <1>2, <3>1, <3>2 DEF JustOK, FairAt
  <2> QED  BY <2>2, <2>3, <2>4 DEF FirstOf
<1>7. CASE FindSigs(r)
  <2>1. mem[r].seen = c /\ IsFirst(mem[r].doc, u, c)
    BY <1>1, <1>7 DEF FindSigs, SentOK, JustOK
  <2>2. pc'[r] = "remove" /\ reply' = reply
    BY <1>7 DEF FindSigs, Goto
  <2>3. CASE SignaturesOf(mem[r].doc) = {}
    BY <1>3, <2>1, <2>2, <2>3, NoSignature
  <2>4. CASE SignaturesOf(mem[r].doc) # {}
    <3>1. PICK s \in SignaturesOf(mem[r].doc) :
             Goto(r, "remove", [mem[r] EXCEPT
                 !.verdict = VerifySignatureRaw(Claim(mem[r].seen),
                                 Original(mem[r].seen), sigs[s].key)])
      BY <1>7, <2>4 DEF FindSigs
    <3> DEFINE v == VerifySignatureRaw(Claim(mem[r].seen), Original(mem[r].seen), sigs[s].key)
    <3>2. v \in BOOLEAN
      BY DEF VerifySignatureRaw
    <3> HIDE DEF v
    <3>3. mem'[r] = [mem[r] EXCEPT !.verdict = v]
      BY <3>1 DEF Goto, v
    <3>4. mem'[r].verdict = v
      BY <1>1, <3>2, <3>3 DEF MemType
    <3>5. CASE v
      BY <1>2, <2>2, <3>4, <3>5 DEF JustOK, FairAt
    <3>6. CASE ~v
      BY <1>3, <2>1, <2>2, <3>6, WrongSignature DEF v, Bound
    <3> QED  BY <3>2, <3>5, <3>6
  <2> QED  BY <2>3, <2>4
<1>8. CASE RemoveTemp(r)
  <2>1. /\ pc[r] = "remove" /\ pc'[r] = "idle"
        /\ reply'[r] = IF mem[r].verdict THEN "valid" ELSE "rejected"
    BY <1>8 DEF RemoveTemp
  <2>2. CASE mem[r].verdict
    BY <2>1, <2>2, OutOfCourt
  <2>3. CASE ~mem[r].verdict
    <3>1. ~Genuine(u, c)
      BY <1>1, <2>1, <2>3 DEF JustOK
    <3> QED  BY <1>3, <2>1, <3>1
  <2> QED  BY <2>2, <2>3
<1> QED  BY <1>4, <1>5, <1>6, <1>7, <1>8 DEF VerifyStep

LEMMA NextJust ==
    ASSUME Undivided
    PROVE  Control /\ Bound /\ Judged /\ Sent /\ Just /\ [Next]_vars => Just'
<1> SUFFICES ASSUME Control, Bound, Judged, Sent, Just, [Next]_vars, NEW q \in Requests
             PROVE  JustOK(q)' /\ FairAt(q)'
  BY DEF Just
<1> USE DEF Control, TypeOK, LocalOK
<1>1. pc[q] # "idle" => reply[q] = "none"
  BY DEF Judged, JudgedAt, JudgeOK
<1>2. CASE Request(q)
  BY <1>2, OutOfCourt DEF Request, Upload, Sign, Verify, Begin
<1>3. CASE UploadStep(q)
  BY <1>1, <1>3, OutOfCourt DEF UploadStep, SaveCreate, SaveCopy, ReadUpload, InsertDoc,
     Committed, Goto, Answer
<1>4. CASE SignStep(q)
  BY <1>1, <1>4, OutOfCourt DEF SignStep, FindDoc, FindSigner, Seal, SignedCreate,
     SignedWrite, InsertSig, Committed, Goto, Answer
<1>5. CASE VerifyStep(q)
  BY <1>5, VerifyJust
<1>6. CASE Fault(q)
  BY <1>6, OutOfCourt DEF Fault, DbFails, WriteFails, Answer, Undivided
<1>7. CASE Crash \/ Redeploy
  BY <1>7, OutOfCourt DEF Crash, Redeploy, ProcessEnds
<1>8. ~Delete
  BY DEF Delete, DeleteDocument, DeleteSignature, DeleteUser, Undivided
<1>9. CASE UNCHANGED vars
  BY <1>9 DEF vars, Just, JustOK, FairAt, Genuine, IsFirst, LiveDocuments, SignaturesOf
<1> QED  BY <1>2, <1>3, <1>4, <1>5, <1>6, <1>7, <1>8, <1>9 DEF Next, Step, Undivided,
     OneAtATime

LEMMA InitJust == Init => Just
BY DEF Init, Just, JustOK, FairAt

JustInv == Control /\ Bound /\ Judged /\ Sent /\ Just

LEMMA JustInductive ==
    ASSUME Undivided
    PROVE  /\ Init => JustInv
           /\ JustInv /\ [Next]_vars => JustInv'
<1>1. Apart
  BY DEF Undivided, OneAtATime, Apart
<1> QED  BY <1>1, InitControl, InitBound, InitJudged, InitSent, InitJust, NextControl,
     NextBound, NextJudged, NextSent, NextJust DEF JustInv

\* What a handler holds of a request that runs alone is what was sent, and it decides
\* against a content only for a reason: AloneOK, that TLC checks on a small instance.
THEOREM AloneInvariance ==
    ASSUME Undivided
    PROVE  Spec => []AloneOK
<1>1. JustInv => AloneOK
  BY DEF JustInv, Sent, Just, AloneOK
<1> QED  BY <1>1, JustInductive, PTL DEF Spec

\* While requests run one at a time, no statement fails and nobody deletes, a genuine
\* signed file is not rejected: one that claims the only signature of its owner's first
\* document with that text; crashes, new containers and full disks are no exception.
THEOREM GenuineAccepted ==
    ASSUME Undivided
    PROVE  Spec => []OnlySignatureAccepted
<1>1. JustInv => OnlySignatureAccepted
  BY DEF JustInv, Just, FairAt, OnlySignatureAccepted
<1> QED  BY <1>1, JustInductive, PTL DEF Spec
=============================================================================
