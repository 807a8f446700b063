------------------------ MODULE DocumentSigningFiles ------------------------
(***************************************************************************)
(* Proofs about the files of DocumentSigning: originals and signed files   *)
(* stay, temporary files go.  The names of the uploads matter here: a file *)
(* that is called what the service calls a signed or a temporary one is in *)
(* its way, and NamesApart says that there is none.                        *)
(***************************************************************************)
EXTENDS DocumentSigningProofs, SignedFileProofs

-----------------------------------------------------------------------------
(* Names come from the requests: a handler stays in its family of steps.    *)

OnCourse(q) ==
    \/ pc'[q] = "idle"
    \/ /\ job'[q] = job[q]
       /\ \/ pc[q] \in UploadSteps /\ pc'[q] \in UploadSteps
          \/ pc[q] \in SignSteps /\ pc'[q] \in SignSteps
          \/ pc[q] \in VerifySteps /\ pc'[q] \in VerifySteps \ {"temp_create"}

NameOK(r) ==
    /\ pc[r] \in UploadSteps => job[r].name \in UploadNames /\ job[r].body \in Bodies
    /\ pc[r] \in VerifySteps => job[r].name \in VerifyNames

LEMMA StepOnCourse ==
    ASSUME Control, NEW r \in Requests, Step(r)
    PROVE  /\ OnCourse(r)
           /\ \A q \in Requests : q # r => pc'[q] = pc[q] /\ job'[q] = job[q]
<1> USE DEF Control, TypeOK, LocalOK
<1>1. CASE UploadStep(r)
  BY <1>1 DEF UploadStep, SaveCreate, SaveCopy, ReadUpload, InsertDoc, Committed, Goto,
     Answer, OnCourse, UploadSteps
<1>2. CASE SignStep(r)
  BY <1>2 DEF SignStep, FindDoc, FindSigner, Seal, SignedCreate, SignedWrite, InsertSig,
     Committed, Goto, Answer, OnCourse, SignSteps
<1>3. CASE VerifyStep(r)
  BY <1>3 DEF VerifyStep, TempCreate, TempCopy, TempRead, FindByDigest, FirstOf, FindSigs,
     RemoveTemp, Goto, Answer, OnCourse, VerifySteps
<1>4. CASE Fault(r)
  BY <1>4 DEF Fault, DbFails, WriteFails, Goto, Answer, OnCourse, VerifySteps
<1> QED  BY <1>1, <1>2, <1>3, <1>4 DEF Step

LEMMA RequestNames ==
    ASSUME Control, NEW r \in Requests, Request(r)
    PROVE  /\ NameOK(r)' /\ pc[r] = "idle"
           /\ \A q \in Requests : q # r => pc'[q] = pc[q] /\ job'[q] = job[q]
           /\ UNCHANGED <<tables, disk>>
<1> USE DEF Control, TypeOK, LocalOK
<1>1. CASE Upload(r)
  BY <1>1 DEF Upload, Begin, NameOK, UploadSteps, VerifySteps
<1>2. CASE Sign(r)
  BY <1>2 DEF Sign, Begin, NameOK, UploadSteps, VerifySteps
<1>3. CASE Verify(r)
  BY <1>3 DEF Verify, Begin, NameOK, UploadSteps, VerifySteps
<1> QED  BY <1>1, <1>2, <1>3 DEF Request

LEMMA CourseKeepsName ==
    ASSUME NEW q, NameOK(q), OnCourse(q) \/ (pc'[q] = pc[q] /\ job'[q] = job[q])
    PROVE  NameOK(q)'
<1>1. \A x : x \in UploadSteps => x \notin SignSteps \cup VerifySteps
  BY DEF UploadSteps, SignSteps, VerifySteps
<1>2. \A x : x \in SignSteps => x \notin UploadSteps \cup VerifySteps
  BY DEF UploadSteps, SignSteps, VerifySteps
<1>3. CASE OnCourse(q)
  BY <1>1, <1>2, <1>3 DEF NameOK, OnCourse, UploadSteps, VerifySteps
<1>4. CASE pc'[q] = pc[q] /\ job'[q] = job[q]
  BY <1>4 DEF NameOK
<1> QED  BY <1>3, <1>4

\* A row keeps its path, and a new row has the name of the upload that made it.
LEMMA PathsStep ==
    ASSUME Control, [Next]_vars
    PROVE  \A d \in DOMAIN docs' :
              \/ d \in DOMAIN docs /\ docs'[d].path = docs[d].path
              \/ \E r \in Requests : pc[r] = "insert_doc" /\ docs'[d].path = job[r].name
<1> USE DEF Control, TypeOK
<1>1. CASE docs' = docs
  BY <1>1
<1>2. ASSUME NEW r \in Requests, InsertDoc(r), NEW d \in DOMAIN docs'
      PROVE  \/ d \in DOMAIN docs /\ docs'[d].path = docs[d].path
             \/ pc[r] = "insert_doc" /\ docs'[d].path = job[r].name
  <2> DEFINE row == [user |-> job[r].user, path |-> job[r].name,
                     digest |-> Digest(mem[r].seen), status |-> "uploaded", live |-> TRUE]
  <2>1. docs' = Append(docs, row) /\ docs \in Seq(DocType) /\ row.path = job[r].name
    BY <1>2 DEF InsertDoc, TablesOK
  <2> HIDE DEF row
  <2>2. (d \in DOMAIN docs /\ docs'[d] = docs[d]) \/ docs'[d] = row
    BY <1>2, <2>1
  <2> QED  BY <1>2, <2>1, <2>2 DEF InsertDoc
<1>3. ASSUME NEW d \in DOMAIN docs, DeleteDocument(d), NEW e \in DOMAIN docs'
      PROVE  e \in DOMAIN docs /\ docs'[e].path = docs[e].path
  <2>1. docs' = [docs EXCEPT ![d].live = FALSE] /\ docs[d] \in DocType
    BY <1>3, DocFacts DEF DeleteDocument
  <2> QED  BY <1>3, <2>1 DEF DocType
<1>4. ASSUME NEW r \in Requests, Seal(r) \/ InsertSig(r)  PROVE docs' = docs
  BY <1>4 DEF Seal, InsertSig
<1>5. ASSUME Delete  PROVE docs' = docs \/ \E d \in DOMAIN docs : DeleteDocument(d)
  BY <1>5 DEF Delete, DeleteSignature, DeleteUser
<1> QED  BY <1>1, <1>2, <1>3, <1>4, <1>5, QuietSteps DEF vars

LEMMA NamesAre == NamesOK <=> /\ \A d \in DOMAIN docs : docs[d].path \in UploadNames
                              /\ \A r \in Requests : NameOK(r)
BY DEF NamesOK, NameOK

LEMMA InitNames == Init => NamesOK
BY DEF Init, NamesOK, UploadSteps, VerifySteps

LEMMA NextNames == Control /\ NamesOK /\ [Next]_vars => NamesOK'
<1> SUFFICES ASSUME Control, NamesOK, [Next]_vars  PROVE NamesOK'
  OBVIOUS
<1>1. \A r \in Requests : NameOK(r)
  BY NamesAre
<1>2. \A d \in DOMAIN docs' : docs'[d].path \in UploadNames
  BY PathsStep DEF NamesOK, UploadSteps
<1>3. ASSUME NEW q \in Requests  PROVE NameOK(q)'
  <2>1. ASSUME NEW r \in Requests, Request(r)  PROVE NameOK(q)'
    BY <1>1, <2>1, RequestNames, CourseKeepsName
  <2>2. ASSUME NEW r \in Requests, Step(r)  PROVE NameOK(q)'
    BY <1>1, <2>2, StepOnCourse, CourseKeepsName
  <2>3. CASE UNCHANGED local
    BY <1>1, <2>3, CourseKeepsName DEF local
  <2>4. CASE Crash \/ Redeploy
    BY <2>4 DEF Crash, Redeploy, ProcessEnds, NameOK, UploadSteps, VerifySteps
  <2>5. CASE Delete
    BY <2>3, <2>5 DEF Delete, DeleteDocument, DeleteSignature, DeleteUser
  <2> QED  BY <2>1, <2>2, <2>3, <2>4, <2>5 DEF Next, vars, local
<1>4. \A r \in Requests : NameOK(r)'
  BY <1>3
<1> QED  BY <1>2, <1>4 DEF NamesOK, NameOK
-----------------------------------------------------------------------------
(* The names on the disk: no call makes a file but the three that open one,  *)
(* and only the removal of a temporary file and a new container take one.    *)

LEMMA WriteToNames ==
    ASSUME Control, NEW r \in Requests, NEW p, NEW c, mem[r].open => Exists(p),
           WriteTo(r, p, c)
    PROVE  DOMAIN files' = DOMAIN files
BY DEF WriteTo, Put, Exists, Control, TypeOK, DiskOK

LEMMA NamesOnDisk ==
    ASSUME Control, [Next]_vars
    PROVE  \/ DOMAIN files' = DOMAIN files
           \/ \E r \in Requests :
                 \/ SaveCreate(r) /\ DOMAIN files' = DOMAIN files \cup {job[r].name}
                 \/ /\ SignedCreate(r)
                    /\ DOMAIN files' = DOMAIN files \cup {SignedPath(docs[mem[r].doc].path)}
                 \/ TempCreate(r) /\ DOMAIN files' = DOMAIN files \cup {TempPath(job[r].name)}
                 \/ RemoveTemp(r) /\ DOMAIN files' = DOMAIN files \ {TempPath(job[r].name)}
           \/ Redeploy
<1> DEFINE Known ==
              \/ DOMAIN files' = DOMAIN files
              \/ \E r \in Requests :
                    \/ SaveCreate(r) /\ DOMAIN files' = DOMAIN files \cup {job[r].name}
                    \/ /\ SignedCreate(r)
                       /\ DOMAIN files' = DOMAIN files \cup {SignedPath(docs[mem[r].doc].path)}
                    \/ TempCreate(r) /\ DOMAIN files' = DOMAIN files \cup {TempPath(job[r].name)}
                    \/ RemoveTemp(r) /\ DOMAIN files' = DOMAIN files \ {TempPath(job[r].name)}
              \/ Redeploy
<1>1. CASE UNCHANGED files
  BY <1>1
<1>2. ASSUME NEW r \in Requests, SaveCreate(r)  PROVE Known
  BY <1>2 DEF SaveCreate, Put
<1>3. ASSUME NEW r \in Requests, SignedCreate(r)  PROVE Known
  BY <1>3 DEF SignedCreate, Put
<1>4. ASSUME NEW r \in Requests, TempCreate(r)  PROVE Known
  <2>1. CASE dir
    BY <1>4, <2>1 DEF TempCreate, Put
  <2>2. CASE ~dir
    BY <1>4, <2>2 DEF TempCreate
  <2> QED  BY <2>1, <2>2
<1>5. ASSUME NEW r \in Requests, RemoveTemp(r)  PROVE Known
  BY <1>5 DEF RemoveTemp
<1>6. ASSUME NEW r \in Requests, SaveCopy(r) \/ SignedWrite(r) \/ TempCopy(r) \/ WriteFails(r)
      PROVE  DOMAIN files' = DOMAIN files
  <2>1. mem[r].open => Exists(WritePath(r))
    BY DEF Control, HandlerOK
  <2>2. \E c : WriteTo(r, WritePath(r), c)
    <3>1. CASE SaveCopy(r)
      BY <3>1 DEF SaveCopy, WritePath
    <3>2. CASE SignedWrite(r)
      BY <3>2 DEF SignedWrite, WritePath
    <3>3. CASE TempCopy(r)
      BY <3>3 DEF TempCopy, WritePath
    <3>4. CASE WriteFails(r)
      BY <3>4 DEF WriteFails, CutShort, WritePath
    <3> QED  BY <1>6, <3>1, <3>2, <3>3, <3>4
  <2> QED  BY <2>1, <2>2, WriteToNames
<1>7. ASSUME NEW r \in Requests, Request(r)  PROVE UNCHANGED files
  BY <1>7 DEF Request, Upload, Sign, Verify, Begin, disk
<1>8. ASSUME NEW r \in Requests,
             \/ ReadUpload(r) \/ InsertDoc(r) \/ FindDoc(r) \/ FindSigner(r) \/ Seal(r)
             \/ InsertSig(r) \/ TempRead(r) \/ FindByDigest(r) \/ FindSigs(r) \/ DbFails(r)
      PROVE  UNCHANGED files
  BY <1>8 DEF ReadUpload, InsertDoc, FindDoc, FindSigner, Seal, InsertSig, TempRead,
     FindByDigest, FindSigs, DbFails, disk
<1>9. ASSUME Delete \/ Crash  PROVE UNCHANGED files
  BY <1>9 DEF Delete, DeleteDocument, DeleteSignature, DeleteUser, Crash, disk
<1> HIDE DEF Known
<1>10. ASSUME NEW r \in Requests, Step(r)  PROVE Known
  <2>1. CASE UploadStep(r)
    BY <1>2, <1>6, <1>8, <2>1 DEF UploadStep, Known
  <2>2. CASE SignStep(r)
    BY <1>3, <1>6, <1>8, <2>2 DEF SignStep, Known
  <2>3. CASE VerifyStep(r)
    BY <1>4, <1>5, <1>6, <1>8, <2>3 DEF VerifyStep, Known
  <2>4. CASE Fault(r)
    BY <1>6, <1>8, <2>4 DEF Fault, Known
  <2> QED  BY <1>10, <2>1, <2>2, <2>3, <2>4 DEF Step
<1>11. Known
  BY <1>1, <1>7, <1>9, <1>10 DEF Next, vars, Known
<1> QED  BY <1>11 DEF Known
-----------------------------------------------------------------------------
(* Temporary files go.                                                      *)

UsesTemp(r, p) == pc[r] \in VerifySteps \ {"temp_create"} /\ p = TempPath(job[r].name)

\* A running verification keeps its claim on the file until it has removed it.
LEMMA TempClaim ==
    ASSUME Control, "disk_full" \notin Events, "crash" \notin Events, [Next]_vars, ~Redeploy,
           NEW r \in Requests, NEW p, UsesTemp(r, p)
    PROVE  UsesTemp(r, p)' \/ (RemoveTemp(r) /\ p = TempPath(job[r].name))
<1> USE DEF Control, TypeOK, LocalOK
<1>1. CASE pc'[r] = pc[r] /\ job'[r] = job[r]
  BY <1>1 DEF UsesTemp
<1>2. pc[r] \notin UploadSteps \cup SignSteps \cup {"idle"}
  BY DEF UsesTemp, UploadSteps, SignSteps, VerifySteps
<1>3. ASSUME NEW q \in Requests, Request(q)  PROVE pc'[r] = pc[r] /\ job'[r] = job[r]
  BY <1>2, <1>3, RequestNames
<1>4. ASSUME NEW q \in Requests, Step(q), q # r  PROVE pc'[r] = pc[r] /\ job'[r] = job[r]
  BY <1>4, StepOnCourse
<1>5. ASSUME Step(r), ~RemoveTemp(r)  PROVE UsesTemp(r, p)'
  <2>1. OnCourse(r)
    BY <1>5, StepOnCourse
  <2>2. pc'[r] # "idle"
    <3>1. VerifyStep(r) \/ Fault(r)
      BY <1>2, <1>5 DEF Step, UploadStep, SaveCreate, SaveCopy, ReadUpload, InsertDoc,
         SignStep, FindDoc, FindSigner, Seal, SignedCreate, SignedWrite, InsertSig,
         UploadSteps, SignSteps
    <3>2. CASE VerifyStep(r)
      BY <1>5, <3>2 DEF VerifyStep, TempCreate, TempCopy, TempRead, FindByDigest, FirstOf,
         FindSigs, Goto, UsesTemp
    <3>3. CASE Fault(r)
      BY <1>2, <3>3 DEF Fault, DbFails, WriteFails, Goto, UploadSteps, SignSteps
    <3> QED  BY <3>1, <3>2, <3>3
  <2> QED  BY <1>2, <2>1, <2>2 DEF OnCourse, UsesTemp
<1>6. CASE Delete \/ UNCHANGED vars
  BY <1>1, <1>6 DEF Delete, DeleteDocument, DeleteSignature, DeleteUser, local, vars
<1>7. CASE \E q \in Requests : Request(q) \/ Step(q)
  BY <1>1, <1>3, <1>4, <1>5, <1>7 DEF UsesTemp
<1>8. ~Crash
  BY DEF Crash
<1> QED  BY <1>6, <1>7, <1>8 DEF Next

LEMMA NextTemps ==
    ASSUME \A n \in UploadNames : n.verify = 0,
           "disk_full" \notin Events, "crash" \notin Events
    PROVE  Control /\ NamesOK /\ TempReclaimed /\ [Next]_vars => TempReclaimed'
<1> SUFFICES ASSUME Control, NamesOK, TempReclaimed, [Next]_vars,
                    NEW p \in DOMAIN files', p.verify > 0
             PROVE  \E r \in Requests : UsesTemp(r, p)'
  BY DEF TempReclaimed, UsesTemp
<1>1. \A n \in UploadNames : n \in Path /\ n.verify = 0 /\ SignedPath(n).verify = 0
  BY SigningAssumption DEF SignedPath, Path
<1>2. ASSUME p \in DOMAIN files,
             \A r \in Requests : RemoveTemp(r) => p # TempPath(job[r].name)
      PROVE  \E r \in Requests : UsesTemp(r, p)'
  <2>1. PICK r \in Requests : UsesTemp(r, p)
    BY <1>2 DEF TempReclaimed, UsesTemp
  <2>2. ~Redeploy
    BY DEF Redeploy
  <2> QED  BY <1>2, <2>1, <2>2, TempClaim
<1>3. ASSUME NEW r \in Requests, SaveCreate(r)  PROVE p # job[r].name
  BY <1>1, <1>3 DEF SaveCreate, NamesOK, UploadSteps
<1>4. ASSUME NEW r \in Requests, SignedCreate(r)
      PROVE  p # SignedPath(docs[mem[r].doc].path)
  BY <1>1, <1>4 DEF SignedCreate, NamesOK, Control, HandlerOK, SignSteps
<1>5. ASSUME NEW r \in Requests, TempCreate(r), p = TempPath(job[r].name),
             p \notin DOMAIN files
      PROVE  UsesTemp(r, p)'
  BY <1>5 DEF TempCreate, Goto, UsesTemp, VerifySteps, Control, TypeOK, LocalOK
<1>6. ASSUME NEW r \in Requests, RemoveTemp(r), NEW q \in Requests, RemoveTemp(q)
      PROVE  q = r
  BY <1>6 DEF RemoveTemp, Control, TypeOK, LocalOK
<1>7. CASE \E r \in Requests : RemoveTemp(r)
  <2>1. PICK r \in Requests : RemoveTemp(r)
    BY <1>7
  <2>2. DOMAIN files' = DOMAIN files \ {TempPath(job[r].name)}
    BY <2>1 DEF RemoveTemp
  <2> QED  BY <1>2, <1>6, <2>1, <2>2
<1>8. CASE ~\E r \in Requests : RemoveTemp(r)
  <2>1. CASE p \in DOMAIN files
    BY <1>2, <1>8, <2>1
  <2>2. CASE p \notin DOMAIN files
    BY <1>3, <1>4, <1>5, <1>8, <2>2, NamesOnDisk DEF Redeploy
  <2> QED  BY <2>1, <2>2
<1> QED  BY <1>7, <1>8

\* While no process dies and no disk fills, a verify_ file is there only as long
\* as a verification that made it runs, whatever the number of requests that
\* upload, sign and verify under one name (the deferred os.Remove); uploads
\* must not carry the prefix themselves.
THEOREM TempsReclaimed ==
    ASSUME \A n \in UploadNames : n.verify = 0,
           "disk_full" \notin Events, "crash" \notin Events
    PROVE  Spec => []TempReclaimed
<1>1. Init => Control /\ NamesOK /\ TempReclaimed
  BY InitControl, InitNames DEF Init, TempReclaimed
<1>2. Control /\ NamesOK /\ TempReclaimed /\ [Next]_vars
        => (Control /\ NamesOK /\ TempReclaimed)'
  BY NextControl, NextNames, NextTemps
<1> QED  BY <1>1, <1>2, PTL DEF Spec
-----------------------------------------------------------------------------
(* Originals and signed files stay: nobody unlinks a file of such a name.   *)

KeepsName(p) == p \in UploadNames \/ \E n \in UploadNames : p = SignedPath(n)

LEMMA NotTemporary ==
    ASSUME NamesApart, NEW n \in VerifyNames, NEW p, KeepsName(p)
    PROVE  p # TempPath(n)
BY DEF NamesApart, KeepsName

LEMMA KeptNames ==
    ASSUME NamesApart, "redeploy" \notin Events, Control, NamesOK, [Next]_vars,
           NEW p \in DOMAIN files, KeepsName(p)
    PROVE  p \in DOMAIN files'
<1>1. ASSUME NEW r \in Requests, RemoveTemp(r)  PROVE p # TempPath(job[r].name)
  BY <1>1, NotTemporary DEF RemoveTemp, NamesOK, VerifySteps
<1>2. ~Redeploy
  BY DEF Redeploy
<1> QED  BY <1>1, <1>2, NamesOnDisk

LEMMA PathsKeep ==
    ASSUME Control, RowsKeep
    PROVE  \A d \in DOMAIN docs : d \in DOMAIN docs' /\ docs'[d].path = docs[d].path
<1> SUFFICES ASSUME NEW d \in DOMAIN docs
             PROVE  d \in DOMAIN docs' /\ docs'[d].path = docs[d].path
  OBVIOUS
<1>1. docs[d] \in DocType
  BY DocFacts DEF Control, TypeOK
<1> QED  BY <1>1 DEF RowsKeep, DocType

\* Another request goes on: what this one holds is left to it, but for a handle of a
\* temporary file that was unlinked.
Undisturbed(q) ==
    /\ pc'[q] = pc[q] /\ job'[q] = job[q]
    /\ mem'[q].doc = mem[q].doc /\ mem'[q].key = mem[q].key /\ mem'[q].seen = mem[q].seen
    /\ pc[q] = "signed_write" /\ mem[q].open => mem'[q].open

LEMMA OthersGoOn ==
    ASSUME NamesApart, Control, NamesOK, NEW r \in Requests, Request(r) \/ Step(r),
           NEW q \in Requests, q # r
    PROVE  Undisturbed(q)
<1> USE DEF Control, TypeOK, LocalOK
<1>1. CASE mem'[q] = mem[q]
  BY <1>1, RequestNames, StepOnCourse DEF Undisturbed
<1>2. CASE Request(r)
  BY <1>1, <1>2 DEF Request, Upload, Sign, Verify, Begin
<1>3. CASE UploadStep(r)
  BY <1>1, <1>3 DEF UploadStep, SaveCreate, SaveCopy, ReadUpload, InsertDoc, Committed, Goto,
     Answer
<1>4. CASE SignStep(r)
  BY <1>1, <1>4 DEF SignStep, FindDoc, FindSigner, Seal, SignedCreate, SignedWrite, InsertSig,
     Committed, Goto, Answer
<1>5. CASE Fault(r)
  BY <1>1, <1>5 DEF Fault, DbFails, WriteFails, Goto, Answer
<1>6. CASE VerifyStep(r) /\ ~RemoveTemp(r)
  BY <1>1, <1>6 DEF VerifyStep, TempCreate, TempCopy, TempRead, FindByDigest, FirstOf,
     FindSigs, Goto, Answer
<1>7. CASE RemoveTemp(r)
  <2> DEFINE o == mem[q].open /\ ~(q # r /\ mem[q].open /\ WritePath(q) = TempPath(job[r].name))
  <2>1. mem'[q] = [mem[q] EXCEPT !.open = o]
    BY <1>7 DEF RemoveTemp
  <2>2. mem[q] \in MemType /\ pc'[q] = pc[q] /\ job'[q] = job[q]
    BY <1>7, MemFacts DEF RemoveTemp
  <2>3. pc[q] = "signed_write" /\ mem[q].open => o
    <3> SUFFICES ASSUME pc[q] = "signed_write"  PROVE WritePath(q) # TempPath(job[r].name)
      OBVIOUS
    <3>1. mem[q].doc \in DOMAIN docs
      BY DEF HandlerOK, SignSteps
    <3>2. KeepsName(WritePath(q))
      BY <3>1 DEF WritePath, KeepsName, NamesOK
    <3> QED  BY <1>7, <3>2, NotTemporary DEF RemoveTemp, NamesOK, VerifySteps
  <2> HIDE DEF o
  <2>4. /\ mem'[q].doc = mem[q].doc /\ mem'[q].key = mem[q].key
        /\ mem'[q].seen = mem[q].seen /\ (mem'[q].open <=> o)
    BY <2>1, <2>2 DEF MemType
  <2> QED  BY <2>2, <2>3, <2>4 DEF Undisturbed
<1> QED  BY <1>2, <1>3, <1>4, <1>5, <1>6, <1>7 DEF Step

PresentRows ==
    /\ OriginalKept
    /\ \A s \in DOMAIN sigs : Exists(SignedPath(docs[sigs[s].doc].path))

PresentAt(r) ==
    /\ pc[r] = "insert_doc" => Exists(job[r].name)
    /\ pc[r] = "signed_write" => mem[r].open
    /\ pc[r] = "insert_sig" => Exists(SignedPath(docs[mem[r].doc].path))

LEMMA PresentIs == PresentOK <=> PresentRows /\ \A r \in Requests : PresentAt(r)
BY DEF PresentOK, PresentRows, PresentAt

LEMMA RowsPresent ==
    ASSUME NamesApart, "redeploy" \notin Events, Control, Bound, NamesOK, PresentOK, [Next]_vars
    PROVE  PresentRows'
<1>1. RowsKeep
  BY RowsStep
<1>2. \A d \in DOMAIN docs : d \in DOMAIN docs' /\ docs'[d].path = docs[d].path
  BY <1>1, PathsKeep
<1>3. ASSUME NEW d \in DOMAIN docs'  PROVE docs'[d].path \in DOMAIN files'
  <2>1. docs'[d].path \in DOMAIN files /\ docs'[d].path \in UploadNames
    BY PathsStep DEF PresentOK, OriginalKept, Exists, NamesOK, UploadSteps
  <2> QED  BY <2>1, KeptNames DEF KeepsName
<1>4. ASSUME NEW s \in DOMAIN sigs', s \in DOMAIN sigs
      PROVE  SignedPath(docs'[sigs'[s].doc].path) \in DOMAIN files'
  <2>1. sigs[s].doc \in DOMAIN docs /\ sigs'[s].doc = sigs[s].doc
    BY <1>1, <1>4, FieldsKeep DEF Bound, SignatureBinds
  <2>2. docs[sigs[s].doc].path \in UploadNames
    BY <2>1 DEF NamesOK
  <2>3. SignedPath(docs[sigs[s].doc].path) \in DOMAIN files
    BY <1>4 DEF PresentOK, Exists
  <2> QED  BY <1>2, <2>1, <2>2, <2>3, KeptNames DEF KeepsName
<1>5. ASSUME NEW r \in Requests, InsertSig(r), NEW s \in DOMAIN sigs', s \notin DOMAIN sigs
      PROVE  SignedPath(docs'[sigs'[s].doc].path) \in DOMAIN files'
  <2> DEFINE row == [doc |-> mem[r].doc, signer |-> job[r].user, raw |-> mem[r].key,
                     key |-> mem[r].key, live |-> TRUE]
  <2>1. sigs' = Append(sigs, row) /\ sigs \in Seq(SigType) /\ row.doc = mem[r].doc
    BY <1>5 DEF InsertSig, Control, TypeOK, TablesOK
  <2> HIDE DEF row
  <2>2. sigs'[s].doc = mem[r].doc
    BY <1>5, <2>1
  <2>3. UNCHANGED <<docs, files>> /\ pc[r] = "insert_sig"
    BY <1>5 DEF InsertSig, disk
  <2> QED  BY <2>2, <2>3 DEF PresentOK, Exists
<1>6. ASSUME ~\E r \in Requests : InsertSig(r)  PROVE DOMAIN sigs' = DOMAIN sigs
  <2>1. CASE UNCHANGED <<docs, sigs, signed>>
    BY <2>1
  <2>2. ASSUME NEW r \in Requests, InsertDoc(r) \/ Seal(r)  PROVE sigs' = sigs
    BY <2>2 DEF InsertDoc, Seal
  <2>3. CASE Delete
    BY <2>3 DEF Delete, DeleteDocument, DeleteSignature, DeleteUser
  <2> QED  BY <1>6, <2>1, <2>2, <2>3, QuietSteps DEF vars
<1>7. \A s \in DOMAIN sigs' : SignedPath(docs'[sigs'[s].doc].path) \in DOMAIN files'
  BY <1>4, <1>5, <1>6
<1> QED  BY <1>3, <1>7 DEF PresentRows, OriginalKept, Exists

LEMMA PresentStays ==
    ASSUME NamesApart, "redeploy" \notin Events, Control, NamesOK, [Next]_vars,
           NEW q \in Requests, PresentAt(q), Undisturbed(q)
    PROVE  PresentAt(q)'
<1>1. \A d \in DOMAIN docs : d \in DOMAIN docs' /\ docs'[d].path = docs[d].path
  BY RowsStep, PathsKeep
<1>2. ASSUME pc[q] = "insert_doc"  PROVE job[q].name \in DOMAIN files'
  BY <1>2, KeptNames DEF PresentAt, Exists, KeepsName, NamesOK, UploadSteps
<1>3. ASSUME pc[q] = "insert_sig"
      PROVE  SignedPath(docs'[mem[q].doc].path) \in DOMAIN files'
  <2>1. mem[q].doc \in DOMAIN docs
    BY <1>3 DEF Control, HandlerOK, SignSteps
  <2> QED  BY <1>1, <1>3, <2>1, KeptNames DEF PresentAt, Exists, KeepsName, NamesOK
<1> QED  BY <1>2, <1>3 DEF PresentAt, Undisturbed, Exists

LEMMA OwnPresent ==
    ASSUME Control, NEW r \in Requests, Request(r) \/ Step(r), PresentAt(r)
    PROVE  PresentAt(r)'
<1> USE DEF Control, TypeOK, LocalOK
<1>1. CASE pc'[r] \notin {"insert_doc", "signed_write", "insert_sig"}
  BY <1>1 DEF PresentAt
<1>2. CASE Request(r)
  BY <1>1, <1>2 DEF Request, Upload, Sign, Verify, Begin
<1>3. CASE UploadStep(r)
  <2>1. CASE ReadUpload(r)
    BY <1>1, <2>1 DEF ReadUpload, Goto, Answer, PresentAt, Exists, disk
  <2>2. CASE SaveCreate(r) \/ SaveCopy(r) \/ InsertDoc(r)
    BY <1>1, <2>2 DEF SaveCreate, SaveCopy, InsertDoc, Committed, Goto, Answer
  <2> QED  BY <1>3, <2>1, <2>2 DEF UploadStep
<1>4. CASE SignStep(r)
  <2>1. CASE SignedCreate(r)
    BY <2>1, MemFacts DEF SignedCreate, Goto, PresentAt, MemType
  <2>2. CASE SignedWrite(r)
    <3>1. SignedPath(docs[mem[r].doc].path) \in DOMAIN files /\ mem[r].open
      BY <2>2, MemFacts DEF SignedWrite, PresentAt, HandlerOK, WritePath, Exists
    <3>2. DOMAIN files' = DOMAIN files
      BY <2>2, <3>1, WriteToNames DEF SignedWrite, Exists
    <3>3. mem'[r].doc = mem[r].doc /\ docs' = docs /\ pc'[r] = "insert_sig"
      BY <2>2, MemFacts DEF SignedWrite, Goto, MemType, tables
    <3> QED  BY <3>1, <3>2, <3>3 DEF PresentAt, Exists
  <2>3. CASE FindDoc(r) \/ FindSigner(r) \/ Seal(r) \/ InsertSig(r)
    BY <1>1, <2>3 DEF FindDoc, FindSigner, Seal, InsertSig, Committed, Goto, Answer
  <2> QED  BY <1>4, <2>1, <2>2, <2>3 DEF SignStep
<1>5. CASE VerifyStep(r) \/ Fault(r)
  BY <1>1, <1>5 DEF VerifyStep, TempCreate, TempCopy, TempRead, FindByDigest, FirstOf,
     FindSigs, RemoveTemp, Fault, DbFails, WriteFails, Goto, Answer
<1> QED  BY <1>2, <1>3, <1>4, <1>5 DEF Step

LEMMA NextPresent ==
    ASSUME NamesApart, "redeploy" \notin Events
    PROVE  Control /\ Bound /\ NamesOK /\ PresentOK /\ [Next]_vars => PresentOK'
<1> SUFFICES ASSUME Control, Bound, NamesOK, PresentOK, [Next]_vars  PROVE PresentOK'
  OBVIOUS
<1>1. PresentRows'
  BY RowsPresent
<1>2. ASSUME NEW q \in Requests  PROVE PresentAt(q)'
  <2>1. PresentAt(q)
    BY PresentIs
  <2>2. ASSUME NEW r \in Requests, Request(r) \/ Step(r)  PROVE PresentAt(q)'
    BY <2>1, <2>2, OthersGoOn, OwnPresent, PresentStays
  <2>3. CASE UNCHANGED local
    BY <2>1, <2>3, PresentStays DEF local, Undisturbed
  <2>4. CASE Crash \/ Redeploy
    BY <2>4 DEF Crash, Redeploy, ProcessEnds, PresentAt
  <2>5. CASE Delete
    BY <2>3, <2>5 DEF Delete, DeleteDocument, DeleteSignature, DeleteUser
  <2> QED  BY <2>2, <2>3, <2>4, <2>5 DEF Next, vars, local
<1>3. \A q \in Requests : PresentAt(q)'
  BY <1>2
<1> QED  BY <1>1, <1>3 DEF PresentOK, PresentRows, PresentAt

LEMMA InitPresent == Init => PresentOK
BY DEF Init, PresentOK, OriginalKept

\* As long as the container lives, a registered document has a file under its path,
\* whatever verifications of the same name run beside it and whatever is deleted.
THEOREM OriginalsStay ==
    ASSUME NamesApart, "redeploy" \notin Events
    PROVE  Spec => []OriginalKept
<1>1. Init => Control /\ Bound /\ NamesOK /\ PresentOK
  BY InitControl, InitBound, InitNames, InitPresent
<1>2. Control /\ Bound /\ NamesOK /\ PresentOK /\ [Next]_vars
        => (Control /\ Bound /\ NamesOK /\ PresentOK)'
  BY NextControl, NextBound, NextNames, NextPresent
<1>3. PresentOK => OriginalKept
  BY DEF PresentOK
<1> QED  BY <1>1, <1>2, <1>3, PTL DEF Spec
-----------------------------------------------------------------------------
(* What is written.  Uploads stay without a marker, so a file that was      *)
(* signed reads back the key it was signed with.                            *)

Plain(c) == c \in Content /\ ~Occurs(BEGIN, c)

LEMMA PlainParts ==
    ASSUME NEW c, Plain(c), NEW m \in Nat, m > 0, NEW n \in Nat, n <= Len(c)
    PROVE  Plain(SubSeq(c, m, n))
<1>1. c \in Seq(Chunk) /\ Len(c) \in Nat /\ DOMAIN c = 1 .. Len(c)
  BY LenProperties DEF Plain, Content
<1>2. \A i \in m .. n : c[i] \in Chunk /\ c[i] # BEGIN
  BY <1>1, ElementOfSeq DEF Plain, Occurs
<1> DEFINE d == SubSeq(c, m, n)
<1>3. /\ d \in Seq(Chunk) /\ Len(d) = (IF m <= n THEN n - m + 1 ELSE 0)
      /\ \A i \in 1 .. n - m + 1 : d[i] = c[m + i - 1]
  BY <1>2, SubSeqProperties
<1> HIDE DEF d
<1>4. DOMAIN d = 1 .. Len(d)
  BY <1>3, LenProperties
<1>5. ASSUME NEW i \in DOMAIN d  PROVE d[i] # BEGIN
  <2>1. i \in 1 .. n - m + 1 /\ m + i - 1 \in m .. n
    BY <1>3, <1>4
  <2>2. d[i] = c[m + i - 1]
    BY <1>3, <2>1
  <2> QED  BY <1>2, <2>1, <2>2
<1> QED  BY <1>3, <1>5 DEF Plain, Content, Occurs, d

LEMMA PlainJoined ==
    ASSUME NEW c, Plain(c), NEW d, Plain(d)
    PROVE  Plain(c \o d)
<1>1. c \in Seq(Chunk) /\ d \in Seq(Chunk) /\ Len(c) \in Nat /\ Len(d) \in Nat
      /\ DOMAIN c = 1 .. Len(c) /\ DOMAIN d = 1 .. Len(d)
  BY LenProperties DEF Plain, Content
<1> DEFINE e == c \o d
<1>2. /\ e \in Seq(Chunk) /\ Len(e) = Len(c) + Len(d)
      /\ \A i \in 1 .. Len(c) + Len(d) : e[i] = IF i <= Len(c) THEN c[i] ELSE d[i - Len(c)]
  BY <1>1, ConcatProperties
<1> HIDE DEF e
<1>3. DOMAIN e = 1 .. Len(e)
  BY <1>2, LenProperties
<1>4. \A i \in DOMAIN e : e[i] # BEGIN
  BY <1>1, <1>2, <1>3 DEF Plain, Occurs
<1> QED  BY <1>2, <1>4 DEF Plain, Content, Occurs, e

LEMMA PlainWritten ==
    ASSUME NEW old, Plain(old), NEW new, Plain(new)
    PROVE  Plain(Overwrite(old, new))
<1> DEFINE rest == SubSeq(old, Len(new) + 1, Len(old))
<1>1. Len(new) \in Nat /\ Len(old) \in Nat
  BY LenProperties DEF Plain, Content
<1>2. Plain(rest)
  BY <1>1, PlainParts
<1> HIDE DEF rest
<1>3. Plain(new \o rest)
  BY <1>2, PlainJoined
<1> QED  BY <1>3 DEF Overwrite, rest

\* The text before the block is the beginning of what is attached to it.
LEMMA TextInFront ==
    ASSUME NEW c \in Content, NEW k \in Nat
    PROVE  /\ Len(c) \in 0 .. Len(Attach(c, k))
           /\ SubSeq(Attach(c, k), 1, Len(c)) = c
<1>1. Block(k) \in Content /\ <<NL>> \in Content
  BY DEF Block, Content, Chunk, Markers
<1>2. ASSUME NEW d \in Content
      PROVE  Len(c) \in 0 .. Len(c \o d) /\ SubSeq(c \o d, 1, Len(c)) = c
  <2>1. c \in Seq(Chunk) /\ d \in Seq(Chunk) /\ Len(c) \in Nat /\ Len(d) \in Nat
    BY <1>2, LenProperties DEF Content
  <2>2. Len(c \o d) = Len(c) + Len(d)
    BY <2>1, ConcatProperties
  <2>3. SubSeq(c \o d, 1, Len(c)) = SubSeq(c, 1, Len(c))
    BY <2>1, SubSeqOfConcat1
  <2>4. SubSeq(c, 1, Len(c)) = c
    BY <2>1, SubSeqFull
  <2> QED  BY <2>1, <2>2, <2>3, <2>4
<1>3. <<NL>> \o Block(k) \in Content /\ (c \o <<NL>>) \o Block(k) = c \o (<<NL>> \o Block(k))
  BY <1>1, ConcatProperties, ConcatAssociative DEF Content
<1>4. Attach(c, k) = c \o Block(k) \/ Attach(c, k) = c \o (<<NL>> \o Block(k))
  BY <1>3 DEF Attach
<1> QED  BY <1>1, <1>2, <1>3, <1>4

LEMMA AttachHolds ==
    ASSUME NEW c, Plain(c), NEW k \in Nat, NEW tail \in Content
    PROVE  Occurs(BEGIN, Attach(c, k) \o tail)
<1>1. ASSUME NEW d, Plain(d)  PROVE Occurs(BEGIN, (d \o Block(k)) \o tail)
  <2> DEFINE w == (d \o Block(k)) \o tail
             n == Len(d)
  <2>0. d \in Content
    BY <1>1 DEF Plain
  <2>1. /\ w \in Content /\ n \in Nat
        /\ Len(w) \in Nat /\ Len(w) >= n + 6
        /\ \A i \in 1 .. n : w[i] = d[i]
        /\ w[n + 1] = BEGIN /\ w[n + 2] = NL /\ w[n + 3] = k
        /\ w[n + 4] = NL /\ w[n + 5] = END /\ w[n + 6] = NL
    BY <2>0, BlockOK
  <2>2. DOMAIN w = 1 .. Len(w) /\ Len(w) \in Nat
    BY <2>1, LenProperties DEF Content
  <2> HIDE DEF w, n
  <2>3. n + 1 \in DOMAIN w
    BY <2>1, <2>2
  <2>4. Occurs(BEGIN, w)
    BY <2>1, <2>3 DEF Occurs
  <2> QED  BY <2>4 DEF w
<1>2. Plain(<<NL>>)
  BY ChunksAssumption DEF Plain, Occurs, Content, Chunk, Markers
<1>3. Plain(c \o <<NL>>)
  BY <1>2, PlainJoined
<1> QED  BY <1>1, <1>3 DEF Attach

\* Over what was there before, a signed file reads back its key.
LEMMA SignedReads ==
    ASSUME NEW c, Plain(c), NEW k \in Nat, NEW old \in Content
    PROVE  /\ HasSignature(Overwrite(old, Attach(c, k)))
           /\ Claim(Overwrite(old, Attach(c, k))) = <<k>>
<1> DEFINE new == Attach(c, k)
           tail == SubSeq(old, Len(new) + 1, Len(old))
<1>1. new \in Content
  BY AttachType DEF Plain
<1>2. tail \in Content
  BY <1>1 DEF Content
<1>3. Claim(new \o tail) = <<k>>
  BY <1>2, ComesBack DEF Plain
<1>4. Occurs(BEGIN, new \o tail)
  BY <1>2, AttachHolds DEF Plain
<1> QED  BY <1>3, <1>4 DEF Overwrite, HasSignature
-----------------------------------------------------------------------------
(* Uploads stay plain.                                                     *)

UploadsPlain == \A n \in UploadNames : Exists(n) => ~Occurs(BEGIN, files[n])

LEMMA PlainFile ==
    ASSUME Control, UploadsPlain, NEW n \in UploadNames, n \in DOMAIN files
    PROVE  Plain(files[n])
BY DEF UploadsPlain, Exists, Plain, Control, TypeOK, DiskOK

LEMMA PlainBody ==
    ASSUME PlainBodies, Control, NamesOK, NEW r \in Requests, pc[r] \in UploadSteps
    PROVE  Plain(job[r].body)
BY SigningAssumption DEF PlainBodies, NamesOK, Plain

LEMMA WriteToPlain ==
    ASSUME Control, UploadsPlain, NEW r \in Requests, NEW n \in UploadNames,
           n \in DOMAIN files, NEW c, Plain(c), WriteTo(r, n, c)
    PROVE  n \in DOMAIN files' /\ Plain(files'[n])
<1>1. Plain(files[n]) /\ Plain(Overwrite(files[n], c))
  BY PlainFile, PlainWritten
<1> QED  BY <1>1 DEF WriteTo, Put

LEMMA NextPlain ==
    ASSUME NamesApart, PlainBodies, Control, NamesOK, UploadsPlain, [Next]_vars
    PROVE  UploadsPlain'
<1> SUFFICES ASSUME NEW n \in UploadNames, n \in DOMAIN files'
             PROVE  ~Occurs(BEGIN, files'[n])
  BY DEF UploadsPlain, Exists, Occurs
<1>1. CASE n \in DOMAIN files /\ files'[n] = files[n]
  BY <1>1 DEF UploadsPlain, Exists
<1>2. ASSUME NEW r \in Requests, Writer(r), n = Target(r)
      PROVE  ~Occurs(BEGIN, files'[n])
  <2>1. pc[r] \in {"save_create", "save_copy"} /\ n = job[r].name
    <3>1. pc[r] \in {"signed_create", "signed_write"}
             => docs[mem[r].doc].path \in UploadNames
      BY DEF NamesOK, Control, HandlerOK, SignSteps
    <3>2. pc[r] \in {"temp_create", "temp_copy"}
             => job[r].name \in VerifyNames
      BY DEF NamesOK, VerifySteps
    <3>3. pc[r] \in {"save_create", "save_copy", "signed_create", "signed_write",
                     "temp_create", "temp_copy"}
      BY <1>2 DEF Writer, SaveCreate, SaveCopy, SignedCreate, SignedWrite, TempCreate,
         TempCopy, WriteFails
    <3>4. pc[r] \notin {"signed_create", "signed_write"}
      BY <1>2, <3>1 DEF Target, NamesApart
    <3>5. pc[r] \notin {"temp_create", "temp_copy"}
      BY <1>2, <3>2 DEF Target, NamesApart
    <3> QED  BY <1>2, <3>3, <3>4, <3>5 DEF Target
  <2>2. CASE SaveCreate(r)
    BY <2>1, <2>2 DEF SaveCreate, Put, Occurs
  <2>3. CASE ~mem[r].open /\ pc[r] = "save_copy"
    <3>1. files' = files
      BY <1>2, <2>3 DEF Writer, SaveCreate, SaveCopy, SignedCreate, SignedWrite, TempCreate,
         TempCopy, WriteFails, CutShort, WriteTo
    <3> QED  BY <3>1 DEF UploadsPlain, Exists
  <2>4. CASE mem[r].open /\ pc[r] = "save_copy"
    <3>1. n \in DOMAIN files
      BY <2>1, <2>4 DEF Control, HandlerOK, WritePath, Exists
    <3>2. Plain(job[r].body)
      BY <2>4, PlainBody DEF UploadSteps
    <3>3. \A k \in 0 .. Len(job[r].body) : Plain(SubSeq(job[r].body, 1, k))
      <4>1. Len(job[r].body) \in Nat
        BY <3>2, LenProperties DEF Plain, Content
      <4> QED  BY <3>2, <4>1, PlainParts
    <3>4. \E c : Plain(c) /\ WriteTo(r, n, c)
      BY <1>2, <2>1, <2>4, <3>2, <3>3 DEF Writer, SaveCreate, SaveCopy, SignedCreate,
         SignedWrite, TempCreate, TempCopy, WriteFails, CutShort
    <3> QED  BY <3>1, <3>4, WriteToPlain DEF Plain
  <2>5. CASE pc[r] = "save_create"
    BY <1>2, <2>2, <2>5 DEF Writer, SaveCopy, SignedCreate, SignedWrite, TempCreate, TempCopy,
       WriteFails
  <2> QED  BY <2>1, <2>3, <2>4, <2>5
<1> QED  BY <1>1, <1>2, OnlyTarget
-----------------------------------------------------------------------------
(* A sealed request carries a plain text with its own block.                *)

TextsSealed ==
    \A r \in Requests : pc[r] \in {"signed_create", "signed_write"} => SealedText(r)

\* What a request that seals keeps.
LEMMA SealsNew ==
    ASSUME Control, NEW r \in Requests, Seal(r)
    PROVE  LET path == docs[mem[r].doc].path
               key  == Len(signed) + 1
           IN  Sealed(r)' => /\ path \in DOMAIN files
                             /\ mem'[r].key = key
                             /\ mem'[r].seen = Attach(files[path], key)
<1> DEFINE path == docs[mem[r].doc].path
           key  == Len(signed) + 1
           text == Attach(files[path], key)
           m    == [mem[r] EXCEPT !.key = key, !.seen = text]
<1>1. mem[r] \in MemType
  BY MemFacts
<1>2. m.key = key /\ m.seen = text
  <2> HIDE DEF text, key
  <2> QED  BY <1>1 DEF MemType
<1>3. CASE path \in DOMAIN files
  <2>1. Goto(r, "signed_create", m)
    BY <1>3 DEF Seal, Exists
  <2> HIDE DEF m, path, key, text
  <2>2. mem'[r] = m
    BY <2>1 DEF Goto, Control, TypeOK, LocalOK
  <2> QED  BY <1>2, <1>3, <2>2 DEF path, key, text
<1>4. CASE path \notin DOMAIN files
  BY <1>4 DEF Seal, Exists, Answer, Control, TypeOK, LocalOK, Sealed
<1> QED  BY <1>3, <1>4

LEMMA TextKept ==
    ASSUME NEW q \in Requests, SealedText(q), mem'[q].key = mem[q].key,
           mem'[q].seen = mem[q].seen
    PROVE  SealedText(q)'
BY DEF SealedText

LEMMA OwnText ==
    ASSUME Control, NamesOK, UploadsPlain, TextsSealed, NEW r \in Requests,
           Request(r) \/ Step(r), pc'[r] \in {"signed_create", "signed_write"}
    PROVE  SealedText(r)'
<1> USE DEF Control, TypeOK, LocalOK
<1>1. Seal(r) \/ SignedCreate(r)
  <2>1. ~Request(r)
    BY DEF Request, Upload, Sign, Verify, Begin
  <2>2. ~UploadStep(r)
    BY DEF UploadStep, SaveCreate, SaveCopy, ReadUpload, InsertDoc, Committed, Goto, Answer
  <2>3. ~(FindDoc(r) \/ FindSigner(r) \/ SignedWrite(r) \/ InsertSig(r))
    BY DEF FindDoc, FindSigner, SignedWrite, InsertSig, Committed, Goto, Answer
  <2>4. ~VerifyStep(r) /\ ~Fault(r)
    BY DEF VerifyStep, TempCreate, TempCopy, TempRead, FindByDigest, FirstOf, FindSigs,
       RemoveTemp, Fault, DbFails, WriteFails, Goto, Answer
  <2> QED  BY <2>1, <2>2, <2>3, <2>4 DEF Step, SignStep
<1>2. CASE Seal(r)
  <2> DEFINE text == files[docs[mem[r].doc].path]
             key  == Len(signed) + 1
  <2>1. /\ docs[mem[r].doc].path \in DOMAIN files
        /\ mem'[r].key = key /\ mem'[r].seen = Attach(text, key)
    BY <1>2, SealsNew DEF Sealed
  <2>2. Plain(text)
    <3>1. docs[mem[r].doc].path \in UploadNames
      BY <1>2 DEF Seal, NamesOK, HandlerOK, SignSteps
    <3> QED  BY <2>1, <3>1, PlainFile
  <2>3. key \in Nat
    BY LenProperties DEF TablesOK
  <2> HIDE DEF text, key
  <2>4. Len(text) \in 0 .. Len(Attach(text, key))
        /\ SubSeq(Attach(text, key), 1, Len(text)) = text
    BY <2>2, <2>3, TextInFront DEF Plain
  <2>5. ~Occurs(BEGIN, text)
    BY <2>2 DEF Plain
  <2> QED  BY <2>1, <2>4, <2>5 DEF SealedText, Occurs
<1>3. CASE SignedCreate(r)
  <2>1. mem'[r].key = mem[r].key /\ mem'[r].seen = mem[r].seen
    BY <1>3, MemFacts DEF SignedCreate, Goto, MemType
  <2> QED  BY <1>3, <2>1, TextKept DEF TextsSealed, SignedCreate
<1> QED  BY <1>1, <1>2, <1>3

LEMMA NextSealed ==
    ASSUME NamesApart, Control, NamesOK, UploadsPlain, TextsSealed, [Next]_vars
    PROVE  TextsSealed'
<1> SUFFICES ASSUME NEW q \in Requests, pc'[q] \in {"signed_create", "signed_write"}
             PROVE  SealedText(q)'
  BY DEF TextsSealed
<1>1. CASE Undisturbed(q)
  BY <1>1, TextKept DEF TextsSealed, Undisturbed
<1>2. ASSUME NEW r \in Requests, Request(r) \/ Step(r)  PROVE SealedText(q)'
  BY <1>1, <1>2, OthersGoOn, OwnText
<1>3. CASE UNCHANGED local
  BY <1>1, <1>3 DEF local, Undisturbed
<1>4. CASE Delete
  BY <1>3, <1>4 DEF Delete, DeleteDocument, DeleteSignature, DeleteUser
<1>5. ~Crash /\ ~Redeploy
  BY DEF Crash, Redeploy, ProcessEnds
<1> QED  BY <1>2, <1>3, <1>4, <1>5 DEF Next, vars, local
-----------------------------------------------------------------------------
(* Signed files.                                                            *)

FileOf(r) == SignedPath(docs[mem[r].doc].path)

SignedAt(p) == CarriesKey(files[p]) \/ p \in torn

SignedFiles == \A n \in UploadNames : Exists(SignedPath(n)) => SignedAt(SignedPath(n))

\* The parts of CarriesKey that a step can change.
LEMMA CarriesNext ==
    ASSUME NEW p
    PROVE  CarriesKey(files[p])' <=> /\ HasSignature(files'[p])
                                     /\ \E k \in DOMAIN signed' : Claim(files'[p]) = <<k>>
BY DEF CarriesKey, HasSignature, Occurs, Claim, WithoutNL, Kept, Before, After,
   LengthBefore, Nth

LEMMA WritesSigned ==
    ASSUME Control, Bound, TextsSealed, NEW r \in Requests, SignedWrite(r), PresentAt(r),
           NEW p, p = FileOf(r)
    PROVE  CarriesKey(files[p])'
<1> DEFINE k == mem[r].key
<1>1. /\ mem[r].open /\ p \in DOMAIN files /\ files[p] \in Content
      /\ WriteTo(r, p, mem[r].seen) /\ signed' = signed
  BY DEF SignedWrite, PresentAt, Control, TypeOK, DiskOK, HandlerOK, WritePath, Exists,
     FileOf, tables
<1>2. files'[p] = Overwrite(files[p], mem[r].seen)
  BY <1>1 DEF WriteTo, Put
<1>3. PICK n \in 0 .. Len(mem[r].seen) :
         LET text == SubSeq(mem[r].seen, 1, n)
         IN  ~Occurs(BEGIN, text) /\ mem[r].seen = Attach(text, k)
  BY DEF TextsSealed, SealedText, SignedWrite
<1> DEFINE text == SubSeq(mem[r].seen, 1, n)
<1>4. Plain(text)
  <2>1. mem[r].seen \in Seq(Chunk)
    BY MemFacts DEF MemType, Content
  <2> QED  BY <1>3, <2>1 DEF Plain, Content
<1>5. k \in DOMAIN signed /\ k \in Nat
  BY DEF Bound, SealOK, Sealed, SignedWrite, Control, TypeOK, TablesOK
<1>6. mem[r].seen = Attach(text, k)
  BY <1>3
<1> HIDE DEF k, text
<1>7. /\ HasSignature(Overwrite(files[p], Attach(text, k)))
      /\ Claim(Overwrite(files[p], Attach(text, k))) = <<k>>
  BY <1>1, <1>4, <1>5, SignedReads
<1> QED  BY <1>1, <1>2, <1>5, <1>6, <1>7, CarriesNext

\* A file stays torn until a signing has written it.
LEMMA TornStays ==
    ASSUME [Next]_vars, ~Redeploy, NEW p \in torn
    PROVE  p \in torn' \/ \E r \in Requests : SignedWrite(r) /\ p = FileOf(r)
<1>1. ASSUME NEW r \in Requests, Step(r), ~SignedWrite(r)  PROVE p \in torn'
  <2>1. CASE UploadStep(r)
    BY <2>1 DEF UploadStep, SaveCreate, SaveCopy, ReadUpload, InsertDoc, disk
  <2>2. CASE SignStep(r)
    BY <1>1, <2>2 DEF SignStep, FindDoc, FindSigner, Seal, SignedCreate, InsertSig, disk
  <2>3. CASE VerifyStep(r)
    BY <2>3 DEF VerifyStep, TempCreate, TempCopy, TempRead, FindByDigest, FindSigs,
       RemoveTemp, disk
  <2>4. CASE Fault(r)
    BY <2>4 DEF Fault, DbFails, WriteFails, disk
  <2> QED  BY <1>1, <2>1, <2>2, <2>3, <2>4 DEF Step
<1>2. ASSUME NEW r \in Requests, SignedWrite(r)  PROVE p \in torn' \/ p = FileOf(r)
  BY <1>2 DEF SignedWrite, FileOf
<1>3. ASSUME NEW r \in Requests, Request(r)  PROVE p \in torn'
  BY <1>3 DEF Request, Upload, Sign, Verify, Begin, disk
<1>4. ASSUME Delete \/ Crash \/ UNCHANGED vars  PROVE p \in torn'
  BY <1>4 DEF Delete, DeleteDocument, DeleteSignature, DeleteUser, Crash, disk, vars
<1> QED  BY <1>1, <1>2, <1>3, <1>4 DEF Next

LEMMA NextSigned ==
    ASSUME NamesApart, "redeploy" \notin Events, Control, Bound, NamesOK, PresentOK,
           TextsSealed, SignedFiles, [Next]_vars
    PROVE  SignedFiles'
<1> SUFFICES ASSUME NEW n \in UploadNames, NEW p, p = SignedPath(n), p \in DOMAIN files'
             PROVE  CarriesKey(files[p])' \/ p \in torn'
  BY DEF SignedFiles, SignedAt, Exists
<1>1. CASE p \in DOMAIN files /\ files'[p] = files[p]
  <2>1. CarriesKey(files[p]) \/ p \in torn
    BY <1>1 DEF SignedFiles, SignedAt, Exists
  <2>2. CASE CarriesKey(files[p])
    <3>1. KeysKeep
      BY RowsStep
    <3>2. HasSignature(files'[p]) /\ \E k \in DOMAIN signed : Claim(files'[p]) = <<k>>
      BY <1>1, <2>2 DEF CarriesKey
    <3> QED  BY <3>1, <3>2, CarriesNext DEF KeysKeep
  <2>3. CASE p \in torn
    <3>1. ~Redeploy
      BY DEF Redeploy
    <3> QED  BY <2>3, <3>1, TornStays, WritesSigned, PresentIs
  <2> QED  BY <2>1, <2>2, <2>3
<1>2. ASSUME NEW r \in Requests, Writer(r), p = Target(r)
      PROVE  CarriesKey(files[p])' \/ p \in torn'
  <2>1. pc[r] \in {"signed_create", "signed_write"} /\ p = FileOf(r)
    <3>1. pc[r] \in {"save_create", "save_copy"} => job[r].name \in UploadNames
      BY DEF NamesOK, UploadSteps
    <3>2. pc[r] \in {"temp_create", "temp_copy"}
             => job[r].name \in VerifyNames
      BY DEF NamesOK, VerifySteps
    <3>3. pc[r] \in {"save_create", "save_copy", "signed_create", "signed_write",
                     "temp_create", "temp_copy"}
      BY <1>2 DEF Writer, SaveCreate, SaveCopy, SignedCreate, SignedWrite, TempCreate,
         TempCopy, WriteFails
    <3>4. pc[r] \notin {"save_create", "save_copy"}
      BY <1>2, <3>1 DEF Target, NamesApart
    <3>5. pc[r] \notin {"temp_create", "temp_copy"}
      BY <1>2, <3>2 DEF Target, NamesApart
    <3> QED  BY <1>2, <3>3, <3>4, <3>5 DEF Target, FileOf
  <2>2. SignedCreate(r) \/ SignedWrite(r) \/ (WriteFails(r) /\ pc[r] = "signed_write")
    BY <1>2, <2>1 DEF Writer, SaveCreate, SaveCopy, TempCreate, TempCopy, WriteFails
  <2>3. SignedCreate(r) \/ (WriteFails(r) /\ pc[r] = "signed_write") => p \in torn'
    BY <2>1 DEF SignedCreate, WriteFails, FileOf
  <2> QED  BY <2>1, <2>2, <2>3, WritesSigned, PresentIs
<1> QED  BY <1>1, <1>2, OnlyTarget

LEMMA WrittenIs == WrittenOK <=> UploadsPlain /\ TextsSealed /\ SignedFiles
BY DEF WrittenOK, UploadsPlain, TextsSealed, SignedFiles, SignedAt

LEMMA InitFiles == Init => FilesOK
<1>1. Init => WrittenOK
  BY DEF Init, WrittenOK, Exists
<1> QED  BY <1>1, InitNames, InitPresent DEF FilesOK

LEMMA NextFiles ==
    ASSUME NamesApart, PlainBodies, "redeploy" \notin Events
    PROVE  Control /\ Bound /\ FilesOK /\ [Next]_vars => FilesOK'
<1> SUFFICES ASSUME Control, Bound, FilesOK, [Next]_vars  PROVE FilesOK'
  OBVIOUS
<1>1. NamesOK /\ PresentOK /\ UploadsPlain /\ TextsSealed /\ SignedFiles
  BY WrittenIs DEF FilesOK
<1>2. NamesOK' /\ PresentOK'
  BY <1>1, NextNames, NextPresent
<1>3. UploadsPlain' /\ TextsSealed' /\ SignedFiles'
  BY <1>1, NextPlain, NextSealed, NextSigned
<1>4. WrittenOK'
  BY <1>3 DEF WrittenOK, UploadsPlain, TextsSealed, SignedFiles, SignedAt
<1> QED  BY <1>2, <1>4 DEF FilesOK

LEMMA FilesKeepSignatures ==
    ASSUME Control, Bound, FilesOK
    PROVE  SignedFileKept
<1> SUFFICES ASSUME NEW s \in DOMAIN sigs, NEW p, p = SignedPath(docs[sigs[s].doc].path)
             PROVE  /\ Exists(p)
                    /\ CarriesKey(files[p]) \/ p \in torn
  BY DEF SignedFileKept
<1>1. sigs[s].doc \in DOMAIN docs /\ docs[sigs[s].doc].path \in UploadNames
  BY DEF Bound, SignatureBinds, FilesOK, NamesOK
<1>2. Exists(p)
  BY DEF FilesOK, PresentOK
<1> QED  BY <1>1, <1>2 DEF FilesOK, WrittenOK

\* As long as the container lives, names are apart and uploads hold no block, every
\* file is as its handlers left it: FilesOK, that TLC checks on small instances.
THEOREM FilesAreKept ==
    ASSUME NamesApart, PlainBodies, "redeploy" \notin Events
    PROVE  Spec => []FilesOK
<1>1. Init => Control /\ Bound /\ FilesOK
  BY InitControl, InitBound, InitFiles
<1>2. Control /\ Bound /\ FilesOK /\ [Next]_vars => (Control /\ Bound /\ FilesOK)'
  BY NextControl, NextBound, NextFiles
<1> QED  BY <1>1, <1>2, PTL DEF Spec

\* A signature row is never there without its .signed file, and the file carries a
\* signature that some key made, unless the last signing to write to it has not written
\* it to the end: crashes, full disks and failing statements included.
THEOREM SignedFilesStay ==
    ASSUME NamesApart, PlainBodies, "redeploy" \notin Events
    PROVE  Spec => []SignedFileKept
<1>1. Init => Control /\ Bound /\ FilesOK
  BY InitControl, InitBound, InitFiles
<1>2. Control /\ Bound /\ FilesOK /\ [Next]_vars => (Control /\ Bound /\ FilesOK)'
  BY NextControl, NextBound, NextFiles
<1>3. Control /\ Bound /\ FilesOK => SignedFileKept
  BY FilesKeepSignatures
<1> QED  BY <1>1, <1>2, <1>3, PTL DEF Spec
=============================================================================
