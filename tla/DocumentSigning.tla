-------------------------- MODULE DocumentSigning ---------------------------
(***************************************************************************)
(* Uploading, signing and verifying documents: the three authenticated     *)
(* endpoints that touch the uploads directory, each request a goroutine    *)
(* that takes one file-system call or one SQL statement at a time, and the *)
(* two DELETE endpoints beside them.  No handler holds a lock and none     *)
(* opens a transaction, so the steps of different requests interleave.     *)
(***************************************************************************)
EXTENDS SignedFile, FiniteSets

CONSTANTS Requests,      \* slots: how many requests run at a time
          Users,
          Stems,
          UploadNames, VerifyNames,   \* what users call the files they send
          Bodies,        \* the contents users upload
          Events,        \* which requests, deletions and faults happen
          MaxDocs,       \* bound: document rows ever created
          MaxKeys,       \* bound: RSA keys ever generated
          None

ASSUME SigningAssumption ==
    /\ UploadNames \cup VerifyNames \subseteq [verify : Nat, stem : Stems, signed : Nat]
    /\ Bodies \subseteq Content
    /\ None \notin [verify : Nat, stem : Stems, signed : Nat]
    /\ None \notin Users
    /\ MaxDocs \in Nat /\ MaxKeys \in Nat

VARIABLES
    users,    \* users[u]: the row of u is not soft-deleted
    docs,     \* table documents, in id order
    sigs,     \* table signatures, in id order
    signed,   \* signed[k]: the digest that RSA key k signed
    dir,      \* the uploads directory exists
    files,    \* its files: path |-> content
    torn,     \* the files a signing began to write that none has finished since (history)
    pc,       \* the call each request makes next, "idle" when it runs none
    job,      \* the request as received, kept after the answer
    mem,      \* the locals of its handler
    reply     \* its answer

tables == <<users, docs, sigs, signed>>
disk   == <<dir, files, torn>>
local  == <<pc, job, mem, reply>>
vars   == <<users, docs, sigs, signed, dir, files, torn, pc, job, mem, reply>>

-----------------------------------------------------------------------------
(* File names.  [verify |-> v, stem |-> x, signed |-> s] is the string      *)
(* "verify_" ^ v + x + ".signed" ^ s, x without that prefix and suffix.     *)

Path == [verify : Nat, stem : Stems, signed : Nat]

TempPath(p)   == [p EXCEPT !.verify = @ + 1]
SignedPath(p) == [p EXCEPT !.signed = @ + 1]

(* A digest is the content it was taken of, tagged: SHA-256 does not        *)
(* collide.  A key verifies exactly the one signature it made.              *)

Digest(c)  == [sha256 |-> c]
DigestType == [sha256 : Content]

VerifySignatureRaw(claim, content, key) ==
    claim = <<key>> /\ signed[key] = Digest(content)

-----------------------------------------------------------------------------
(* What a request is doing.                                                 *)

UploadSteps == {"save_create", "save_copy", "read_upload", "insert_doc"}
SignSteps   == {"find_doc", "find_signer", "seal", "signed_create",
                "signed_write", "insert_sig"}
VerifySteps == {"temp_create", "temp_copy", "temp_read", "find_by_digest",
                "find_sigs", "remove"}
Steps       == UploadSteps \cup SignSteps \cup VerifySteps \cup {"idle"}

DocType == [user : Users, path : Path, digest : DigestType,
            status : {"uploaded", "signed"}, live : BOOLEAN]
SigType == [doc : Nat, signer : Users, raw : Nat, key : Nat, live : BOOLEAN]
JobType == [op : {"none", "upload", "sign", "verify"}, user : Users \cup {None},
            name : Path \cup {None}, body : Content]
MemType == [open : BOOLEAN, seen : Content, doc : Nat, key : Nat,
            verdict : BOOLEAN]
\* "rejected" is the verdict of a verification that read its file, "failed" an error
\* before that.
Replies == {"none", "ok", "failed", "valid", "rejected"}

NoJob == [op |-> "none", user |-> None, name |-> None, body |-> <<>>]
NoMem == [open |-> FALSE, seen |-> <<>>, doc |-> 0, key |-> 0,
          verdict |-> FALSE]

Init ==
    /\ users = [u \in Users |-> TRUE]
    /\ docs = <<>> /\ sigs = <<>> /\ signed = <<>>
    /\ dir = FALSE
    /\ files = [p \in {} |-> <<>>] /\ torn = {}
    /\ pc = [r \in Requests |-> "idle"]
    /\ job = [r \in Requests |-> NoJob]
    /\ mem = [r \in Requests |-> NoMem]
    /\ reply = [r \in Requests |-> "none"]

-----------------------------------------------------------------------------
(* Control of a request and the file-system calls.                          *)

Begin(r, j, m, step) ==
    /\ pc[r] = "idle"
    /\ pc' = [pc EXCEPT ![r] = step]
    /\ job' = [job EXCEPT ![r] = j]
    /\ mem' = [mem EXCEPT ![r] = m]
    /\ reply' = [reply EXCEPT ![r] = "none"]
    /\ UNCHANGED <<tables, disk>>

Goto(r, step, m) ==
    /\ pc' = [pc EXCEPT ![r] = step]
    /\ mem' = [mem EXCEPT ![r] = m]
    /\ UNCHANGED <<job, reply>>

Answer(r, answer) ==
    /\ pc' = [pc EXCEPT ![r] = "idle"]
    /\ mem' = [mem EXCEPT ![r] = NoMem]
    /\ reply' = [reply EXCEPT ![r] = answer]
    /\ UNCHANGED job

\* The last statement of a handler took effect; when the connection is lost just
\* then, the error says it did not.
Committed(r) == \/ Answer(r, "ok")
                \/ "db_fails" \in Events /\ Answer(r, "failed")

Exists(p) == p \in DOMAIN files

Put(p, c) == files' = [q \in DOMAIN files \cup {p} |-> IF q = p THEN c ELSE files[q]]

\* One write at offset 0 of a handle that may have been truncated, or have
\* grown under another handle, since it was opened.
Overwrite(old, new) == new \o SubSeq(old, Len(new) + 1, Len(old))

\* The file a request holds open for writing.
WritePath(r) ==
    CASE pc[r] = "signed_write" -> SignedPath(docs[mem[r].doc].path)
      [] pc[r] = "temp_copy"    -> TempPath(job[r].name)
      [] OTHER                  -> job[r].name

\* io.Copy or (*os.File).Write.  The handle of an unlinked file still takes
\* the bytes, and nobody sees them.
WriteTo(r, p, c) ==
    IF mem[r].open THEN Put(p, Overwrite(files[p], c)) ELSE UNCHANGED files

-----------------------------------------------------------------------------
(* POST /api/documents/upload                                               *)

RoomForDoc == Len(docs) + Cardinality({q \in Requests : pc[q] \in UploadSteps}) < MaxDocs

Upload(r) ==
    /\ "upload" \in Events /\ RoomForDoc
    /\ \E u \in Users, n \in UploadNames, b \in Bodies :
          Begin(r, [op |-> "upload", user |-> u, name |-> n, body |-> b], NoMem,
                "save_create")

\* Mutation: the file is opened without O_TRUNC.
MutantNoTruncate(r) ==
    /\ pc[r] = "save_create"
    /\ dir' = TRUE
    /\ Put(job[r].name, IF Exists(job[r].name) THEN files[job[r].name] ELSE <<>>)
    /\ Goto(r, "save_copy", [mem[r] EXCEPT !.open = TRUE])
    /\ UNCHANGED <<tables, torn>>

\* SaveUploadedFile: MkdirAll, and os.Create truncates a file that is there.
SaveCreate(r) ==
    /\ pc[r] = "save_create"
    /\ dir' = TRUE
    /\ Put(job[r].name, <<>>)
    /\ Goto(r, "save_copy", [mem[r] EXCEPT !.open = TRUE])
    /\ UNCHANGED <<tables, torn>>

SaveCopy(r) ==
    /\ pc[r] = "save_copy"
    /\ WriteTo(r, job[r].name, job[r].body)
    /\ Goto(r, "read_upload", [mem[r] EXCEPT !.open = FALSE])
    /\ UNCHANGED <<tables, dir, torn>>

ReadUpload(r) ==
    /\ pc[r] = "read_upload"
    /\ IF Exists(job[r].name)
       THEN Goto(r, "insert_doc", [mem[r] EXCEPT !.seen = files[job[r].name]])
       ELSE Answer(r, "failed")
    /\ UNCHANGED <<tables, disk>>

\* Mutation: the status is left empty.
MutantNoStatus(r) ==
    /\ pc[r] = "insert_doc"
    /\ docs' = Append(docs, [user |-> job[r].user, path |-> job[r].name,
                             digest |-> Digest(mem[r].seen),
                             status |-> "", live |-> TRUE])
    /\ Committed(r)
    /\ UNCHANGED <<users, sigs, signed, disk>>

\* Mutation: a second upload of a path updates the row of the first.
MutantUpsert(r) ==
    /\ pc[r] = "insert_doc"
    /\ LET row == [user |-> job[r].user, path |-> job[r].name,
                   digest |-> Digest(mem[r].seen),
                   status |-> "uploaded", live |-> TRUE]
           old == {d \in DOMAIN docs : docs[d].path = job[r].name}
       IN  IF old = {} THEN docs' = Append(docs, row)
           ELSE \E d \in old : docs' = [docs EXCEPT ![d] = row]
    /\ Committed(r)
    /\ UNCHANGED <<users, sigs, signed, disk>>

InsertDoc(r) ==
    /\ pc[r] = "insert_doc"
    /\ docs' = Append(docs, [user |-> job[r].user, path |-> job[r].name,
                             digest |-> Digest(mem[r].seen),
                             status |-> "uploaded", live |-> TRUE])
    /\ Committed(r)
    /\ UNCHANGED <<users, sigs, signed, disk>>

-----------------------------------------------------------------------------
(* POST /api/signatures                                                     *)

RoomForKey == Len(signed) + Cardinality({q \in Requests :
                  pc[q] \in {"find_doc", "find_signer", "seal"}}) < MaxKeys

Sign(r) ==
    /\ "sign" \in Events /\ RoomForKey
    /\ \E u \in Users, d \in 1 .. MaxDocs :
          Begin(r, [op |-> "sign", user |-> u, name |-> None, body |-> <<>>],
                [NoMem EXCEPT !.doc = d], "find_doc")

LiveDoc(d) == d \in DOMAIN docs /\ docs[d].live

FindDoc(r) ==
    /\ pc[r] = "find_doc"
    /\ IF LiveDoc(mem[r].doc) THEN Goto(r, "find_signer", mem[r])
                              ELSE Answer(r, "failed")
    /\ UNCHANGED <<tables, disk>>

FindSigner(r) ==
    /\ pc[r] = "find_signer"
    /\ IF users[job[r].user] THEN Goto(r, "seal", mem[r]) ELSE Answer(r, "failed")
    /\ UNCHANGED <<tables, disk>>

\* Mutation: the key signs the digest of what the file holds now.
MutantSignsFile(r) ==
    LET doc == docs[mem[r].doc]
        key == Len(signed) + 1
    IN  /\ pc[r] = "seal"
        /\ IF Exists(doc.path)
           THEN /\ signed' = Append(signed, Digest(files[doc.path]))
                /\ Goto(r, "signed_create",
                     [mem[r] EXCEPT !.key = key, !.seen = Attach(files[doc.path], key)])
           ELSE UNCHANGED signed /\ Answer(r, "failed")
        /\ UNCHANGED <<users, docs, sigs, disk>>

\* Mutation: the row is inserted and the signed file never written.
MutantRowOnly(r) ==
    LET key == Len(signed) + 1
    IN  /\ pc[r] = "seal"
        /\ signed' = Append(signed, docs[mem[r].doc].digest)
        /\ Goto(r, "insert_sig", [mem[r] EXCEPT !.key = key])
        /\ UNCHANGED <<users, docs, sigs, disk>>

\* A fresh key signs the digest of the row; the block goes on what the file
\* holds now.
Seal(r) ==
    LET doc == docs[mem[r].doc]
        key == Len(signed) + 1
    IN  /\ pc[r] = "seal"
        /\ signed' = Append(signed, doc.digest)
        /\ IF Exists(doc.path)
           THEN Goto(r, "signed_create",
                     [mem[r] EXCEPT !.key = key, !.seen = Attach(files[doc.path], key)])
           ELSE Answer(r, "failed")
        /\ UNCHANGED <<users, docs, sigs, disk>>

\* os.WriteFile opens with O_TRUNC, then writes.
SignedCreate(r) ==
    /\ pc[r] = "signed_create"
    /\ Put(SignedPath(docs[mem[r].doc].path), <<>>)
    /\ torn' = torn \cup {SignedPath(docs[mem[r].doc].path)}
    /\ Goto(r, "signed_write", [mem[r] EXCEPT !.open = TRUE])
    /\ UNCHANGED <<tables, dir>>

SignedWrite(r) ==
    /\ pc[r] = "signed_write"
    /\ WriteTo(r, SignedPath(docs[mem[r].doc].path), mem[r].seen)
    /\ torn' = torn \ {SignedPath(docs[mem[r].doc].path)}
    /\ Goto(r, "insert_sig", [mem[r] EXCEPT !.open = FALSE])
    /\ UNCHANGED <<tables, dir>>

\* Mutation: the key is taken from a field all requests share.
MutantSharedKey(r) ==
    /\ pc[r] = "insert_sig"
    /\ sigs' = Append(sigs, [doc |-> mem[r].doc, signer |-> job[r].user,
                             raw |-> mem[r].key, key |-> Len(signed), live |-> TRUE])
    /\ Committed(r)
    /\ UNCHANGED <<users, docs, signed, disk>>

InsertSig(r) ==
    /\ pc[r] = "insert_sig"
    /\ sigs' = Append(sigs, [doc |-> mem[r].doc, signer |-> job[r].user,
                             raw |-> mem[r].key, key |-> mem[r].key, live |-> TRUE])
    /\ Committed(r)
    /\ UNCHANGED <<users, docs, signed, disk>>

-----------------------------------------------------------------------------
(* POST /api/documents/verify                                               *)

\* What a client may send: an upload, anything the server holds on disk, an
\* upload with a signature it was given.
Sendable == Bodies \cup {files[p] : p \in DOMAIN files}
                   \cup {Attach(b, sigs[s].raw) : b \in Bodies, s \in DOMAIN sigs}

Verify(r) ==
    \E u \in Users, n \in VerifyNames, b \in Sendable :
        Begin(r, [op |-> "verify", user |-> u, name |-> n, body |-> b], NoMem, "temp_create")

\* os.Create fails while nothing was ever uploaded: only uploads make the
\* directory.
TempCreate(r) ==
    /\ pc[r] = "temp_create"
    /\ IF dir THEN /\ Put(TempPath(job[r].name), <<>>)
                   /\ Goto(r, "temp_copy", [mem[r] EXCEPT !.open = TRUE])
              ELSE Answer(r, "failed") /\ UNCHANGED files
    /\ UNCHANGED <<tables, dir, torn>>

TempCopy(r) ==
    /\ pc[r] = "temp_copy"
    /\ WriteTo(r, TempPath(job[r].name), job[r].body)
    /\ Goto(r, "temp_read", [mem[r] EXCEPT !.open = FALSE])
    /\ UNCHANGED <<tables, dir, torn>>

\* Mutation: the removal is deferred only once a signature was found.
MutantEarlyReturn(r) ==
    LET p == TempPath(job[r].name)
    IN  /\ pc[r] = "temp_read"
        /\ IF Exists(p) /\ HasSignature(files[p])
           THEN Goto(r, "find_by_digest", [mem[r] EXCEPT !.seen = files[p]])
           ELSE Answer(r, "rejected")
        /\ UNCHANGED <<tables, disk>>

\* From here on the deferred os.Remove runs before the answer.
TempRead(r) ==
    LET p == TempPath(job[r].name)
    IN  /\ pc[r] = "temp_read"
        /\ IF Exists(p) /\ HasSignature(files[p])
           THEN Goto(r, "find_by_digest", [mem[r] EXCEPT !.seen = files[p]])
           ELSE Goto(r, "remove", mem[r])
        /\ UNCHANGED <<tables, disk>>

\* First orders by primary key, and an empty result is an error.
FirstOf(found, r) ==
    \/ found = {} /\ Goto(r, "remove", mem[r])
    \/ \E d \in found : /\ \A e \in found : d <= e
                        /\ Goto(r, "find_sigs", [mem[r] EXCEPT !.doc = d])

\* Mutation: the document of any user will do.
MutantAnyUser(r) ==
    LET found == {d \in DOMAIN docs : /\ docs[d].live
                                      /\ docs[d].digest = Digest(Original(mem[r].seen))}
    IN  /\ pc[r] = "find_by_digest"
        /\ FirstOf(found, r)
        /\ UNCHANGED <<tables, disk>>

\* Mutation: the oldest document of the user is taken, whatever its digest.
MutantOldest(r) ==
    LET found == {d \in DOMAIN docs : docs[d].live /\ docs[d].user = job[r].user}
    IN  /\ pc[r] = "find_by_digest"
        /\ FirstOf(found, r)
        /\ UNCHANGED <<tables, disk>>

FindByDigest(r) ==
    LET found == {d \in DOMAIN docs : /\ docs[d].live
                                      /\ docs[d].user = job[r].user
                                      /\ docs[d].digest = Digest(Original(mem[r].seen))}
    IN  /\ pc[r] = "find_by_digest"
        /\ FirstOf(found, r)
        /\ UNCHANGED <<tables, disk>>

\* Mutation: soft-deleted rows are found too.
MutantUnscoped(d) == {s \in DOMAIN sigs : sigs[s].doc = d}

SignaturesOf(d) == {s \in DOMAIN sigs : sigs[s].live /\ sigs[s].doc = d}

\* Find states no order: sigs[0] is one of the rows.  Only it is tried.
FindSigs(r) ==
    /\ pc[r] = "find_sigs"
    /\ IF SignaturesOf(mem[r].doc) = {} THEN Goto(r, "remove", mem[r])
       ELSE \E s \in SignaturesOf(mem[r].doc) :
               Goto(r, "remove", [mem[r] EXCEPT
                   !.verdict = VerifySignatureRaw(Claim(mem[r].seen),
                                   Original(mem[r].seen), sigs[s].key)])
    /\ UNCHANGED <<tables, disk>>

\* Mutation: the uploaded file is removed in place of the temporary one.
MutantRemovesUpload(r) ==
    LET p == job[r].name
        Orphaned(q) == q # r /\ mem[q].open /\ WritePath(q) = p
    IN  /\ pc[r] = "remove"
        /\ files' = [q \in DOMAIN files \ {p} |-> files[q]]
        /\ pc' = [pc EXCEPT ![r] = "idle"]
        /\ reply' = [reply EXCEPT ![r] = IF mem[r].verdict THEN "valid" ELSE "rejected"]
        /\ mem' = [q \in Requests |->
                      IF q = r THEN NoMem
                      ELSE [mem[q] EXCEPT !.open = @ /\ ~Orphaned(q)]]
        /\ UNCHANGED <<tables, dir, torn, job>>

\* os.Remove; other requests keep their handles on the file without a name.
RemoveTemp(r) ==
    LET p == TempPath(job[r].name)
        Orphaned(q) == q # r /\ mem[q].open /\ WritePath(q) = p
    IN  /\ pc[r] = "remove"
        /\ files' = [q \in DOMAIN files \ {p} |-> files[q]]
        /\ pc' = [pc EXCEPT ![r] = "idle"]
        /\ reply' = [reply EXCEPT ![r] = IF mem[r].verdict THEN "valid" ELSE "rejected"]
        /\ mem' = [q \in Requests |->
                      IF q = r THEN NoMem
                      ELSE [mem[q] EXCEPT !.open = @ /\ ~Orphaned(q)]]
        /\ UNCHANGED <<tables, dir, torn, job>>

-----------------------------------------------------------------------------
(* One call of several fails: a statement (the client went away and the     *)
(* request's context is cancelled, or the database is gone) or a file call. *)

\* Mutation: a failed look-up of signatures counts as a match.
MutantErrorAccepts(r) ==
    /\ "db_fails" \in Events
    /\ pc[r] = "find_sigs"
    /\ Goto(r, "remove", [mem[r] EXCEPT !.verdict = TRUE])
    /\ UNCHANGED <<tables, disk>>

DbFails(r) ==
    /\ "db_fails" \in Events
    /\ \/ /\ pc[r] \in {"insert_doc", "find_doc", "find_signer", "insert_sig"}
          /\ Answer(r, "failed")
       \/ /\ pc[r] \in {"find_by_digest", "find_sigs"}
          /\ Goto(r, "remove", mem[r])
    /\ UNCHANGED <<tables, disk>>

\* A write that fails may have stored a part.
CutShort(r, p, c) == \E k \in 0 .. Len(c) : WriteTo(r, p, SubSeq(c, 1, k))

\* Mutation: the error of writing the signed file is not looked at.
MutantErrorIgnored(r) ==
    /\ "disk_full" \in Events
    /\ pc[r] = "signed_write"
    /\ CutShort(r, SignedPath(docs[mem[r].doc].path), mem[r].seen)
    /\ torn' = torn \ {SignedPath(docs[mem[r].doc].path)}
    /\ Goto(r, "insert_sig", [mem[r] EXCEPT !.open = FALSE])
    /\ UNCHANGED <<tables, dir>>

\* When the copy of a verification fails, the os.Remove is not yet deferred.
WriteFails(r) ==
    /\ "disk_full" \in Events
    /\ \/ /\ pc[r] = "save_copy"
          /\ CutShort(r, job[r].name, job[r].body)
          /\ UNCHANGED torn
       \/ /\ pc[r] = "signed_write"
          /\ CutShort(r, SignedPath(docs[mem[r].doc].path), mem[r].seen)
          /\ torn' = torn \cup {SignedPath(docs[mem[r].doc].path)}
       \/ /\ pc[r] = "temp_copy"
          /\ CutShort(r, TempPath(job[r].name), job[r].body)
          /\ UNCHANGED torn
    /\ Answer(r, "failed")
    /\ UNCHANGED <<tables, dir>>

-----------------------------------------------------------------------------
(* The DELETE endpoints (one statement each, no authentication), and what   *)
(* happens to the process.                                                  *)

DeleteDocument(d) ==
    /\ "delete_document" \in Events
    /\ LiveDoc(d)
    /\ docs' = [docs EXCEPT ![d].live = FALSE]
    /\ UNCHANGED <<users, sigs, signed, disk, local>>

DeleteSignature(s) ==
    /\ "delete_signature" \in Events
    /\ sigs[s].live
    /\ sigs' = [sigs EXCEPT ![s].live = FALSE]
    /\ UNCHANGED <<users, docs, signed, disk, local>>

DeleteUser(u) ==
    /\ "delete_user" \in Events
    /\ users[u]
    /\ users' = [users EXCEPT ![u] = FALSE]
    /\ UNCHANGED <<docs, sigs, signed, disk, local>>

ProcessEnds ==
    /\ pc' = [r \in Requests |-> "idle"]
    /\ job' = [r \in Requests |-> NoJob]
    /\ mem' = [r \in Requests |-> NoMem]
    /\ reply' = [r \in Requests |-> "none"]
    /\ UNCHANGED tables

Crash == "crash" \in Events /\ ProcessEnds /\ UNCHANGED disk

\* A new container of the application: no volume holds uploads.
Redeploy ==
    /\ "redeploy" \in Events
    /\ ProcessEnds
    /\ dir' = FALSE
    /\ files' = [p \in {} |-> <<>>] /\ torn' = {}

-----------------------------------------------------------------------------
UploadStep(r) == SaveCreate(r) \/ SaveCopy(r) \/ ReadUpload(r) \/ InsertDoc(r)

SignStep(r) == \/ FindDoc(r) \/ FindSigner(r) \/ Seal(r)
               \/ SignedCreate(r) \/ SignedWrite(r) \/ InsertSig(r)

VerifyStep(r) == \/ TempCreate(r) \/ TempCopy(r) \/ TempRead(r)
                 \/ FindByDigest(r) \/ FindSigs(r) \/ RemoveTemp(r)

Fault(r) == DbFails(r) \/ WriteFails(r)

\* What the goroutine of a request does once it has begun.
Step(r) == UploadStep(r) \/ SignStep(r) \/ VerifyStep(r) \/ Fault(r)

Request(r) == Upload(r) \/ Sign(r) \/ Verify(r)

Delete == \/ \E d \in DOMAIN docs : DeleteDocument(d)
          \/ \E s \in DOMAIN sigs : DeleteSignature(s)
          \/ \E u \in Users : DeleteUser(u)

Next == \/ \E r \in Requests : Request(r) \/ Step(r)
        \/ Delete
        \/ Crash \/ Redeploy

Spec == Init /\ [][Next]_vars

-----------------------------------------------------------------------------
(* Properties.                                                              *)

TablesOK == /\ users \in [Users -> BOOLEAN]
            /\ docs \in Seq(DocType)
            /\ sigs \in Seq(SigType)
            /\ signed \in Seq(DigestType)

DiskOK == /\ dir \in BOOLEAN
          /\ files \in [DOMAIN files -> Content]
          /\ DOMAIN files \subseteq Path /\ torn \subseteq Path

LocalOK == /\ pc \in [Requests -> Steps]
           /\ job \in [Requests -> JobType]
           /\ mem \in [Requests -> MemType]
           /\ reply \in [Requests -> Replies]

\* The tables, the files and the locals of the handlers hold values of their
\* types (the entity structs, the locals of the three services).
TypeOK == TablesOK /\ DiskOK /\ LocalOK

\* Whatever was uploaded over, deleted or re-signed since, the signature of
\* every row verifies under the key stored beside it against the digest of its
\* document, and no two rows share a key (CreateSignature, sigRepo.Create).
SignatureBinds ==
    /\ \A s \in DOMAIN sigs :
          /\ sigs[s].doc \in DOMAIN docs
          /\ sigs[s].key \in DOMAIN signed
          /\ sigs[s].raw = sigs[s].key
          /\ signed[sigs[s].key] = docs[sigs[s].doc].digest
    /\ \A s, t \in DOMAIN sigs : sigs[s].key = sigs[t].key => s = t

\* A document of u, with the digest of this content, carries the signature the
\* content claims.
Carries(u, content) ==
    \E d \in DOMAIN docs, s \in DOMAIN sigs :
        /\ docs[d].user = u
        /\ docs[d].digest = Digest(Original(content))
        /\ sigs[s].doc = d
        /\ Claim(content) = <<sigs[s].raw>>

\* A verification decides "valid" only for a content read back from disk that a
\* document of the caller carries, and the caller who is told so has a signed
\* document (UploadAndVerifyDocumentService, from its read to its answer).
VerdictSound ==
    \A r \in Requests :
        /\ pc[r] = "remove" /\ mem[r].verdict => Carries(job[r].user, mem[r].seen)
        /\ reply[r] = "valid" =>
              \E d \in DOMAIN docs, s \in DOMAIN sigs :
                  docs[d].user = job[r].user /\ sigs[s].doc = d

\* The locals of a running handler fit the call it makes next: the rows it looked
\* up are there, and the file it holds open has not lost its name.
HandlerOK(r) ==
    /\ pc[r] # "idle" => job[r].user \in Users
    /\ pc[r] \in UploadSteps \cup VerifySteps => job[r].name \in Path
    /\ pc[r] \in VerifySteps => job[r].op = "verify"
    /\ pc[r] \in (SignSteps \ {"find_doc"}) \cup {"find_sigs"} => mem[r].doc \in DOMAIN docs
    /\ mem[r].open => /\ pc[r] \in {"save_copy", "signed_write", "temp_copy"}
                      /\ Exists(WritePath(r))

Sealed(r) == pc[r] \in {"signed_create", "signed_write", "insert_sig"}

\* A signing request that has sealed holds a key of its own, over the digest of
\* its document.
SealOK(r) ==
    Sealed(r) => /\ mem[r].key \in DOMAIN signed
                 /\ signed[mem[r].key] = docs[mem[r].doc].digest
                 /\ \A s \in DOMAIN sigs : sigs[s].key # mem[r].key
                 /\ \A q \in Requests : Sealed(q) /\ mem[q].key = mem[r].key => q = r

\* A verification looks for signatures of a document of its caller that has the
\* digest of what it read, decides when it has looked, and answers once, last.
JudgeOK(r) ==
    /\ pc[r] = "find_sigs" => /\ docs[mem[r].doc].user = job[r].user
                              /\ docs[mem[r].doc].digest = Digest(Original(mem[r].seen))
    /\ mem[r].verdict => pc[r] = "remove"
    /\ pc[r] # "idle" => reply[r] = "none"

\* The inductive invariant: the properties above and what every handler in
\* flight knows.
IInv == /\ TypeOK
        /\ \A r \in Requests : HandlerOK(r) /\ SealOK(r) /\ JudgeOK(r)
        /\ SignatureBinds
        /\ VerdictSound

\* While no process dies and no disk fills, a verify_ file is there only as long
\* as a verification that made it runs: the deferred os.Remove of overlapping
\* verifications of one name leaves none behind.
TempReclaimed ==
    \A p \in DOMAIN files :
        p.verify > 0 => \E r \in Requests :
            /\ pc[r] \in VerifySteps \ {"temp_create"}
            /\ p = TempPath(job[r].name)

\* The file carries a signature some key made.
CarriesKey(c) == HasSignature(c) /\ \E k \in DOMAIN signed : Claim(c) = <<k>>

\* A signature row is never there without its .signed file, and the file carries a
\* signature some key made, unless the last signing that wrote to it truncated it and
\* has not written it to the end: it runs, was killed or found the disk full
\* (CreateSignature writes the file before it inserts the row; os.WriteFile truncates
\* first).
SignedFileKept ==
    \A s \in DOMAIN sigs :
        LET p == SignedPath(docs[sigs[s].doc].path)
        IN  Exists(p) /\ (CarriesKey(files[p]) \/ p \in torn)

\* What a signed file claims is about its text: when the claim is the signature of
\* a row, the text before the block is what the row's document was registered with
\* (CreateSignature signs the digest of the row and copies the file at the path).
SignedTextKept ==
    \A s \in DOMAIN sigs :
        LET c == files[SignedPath(docs[sigs[s].doc].path)]
        IN  HasSignature(c) /\ Claim(c) = <<sigs[s].raw>> =>
                Digest(Original(c)) = docs[sigs[s].doc].digest

\* A registered document has a file under its path: neither an overlapping
\* verification nor a deletion takes it away.
OriginalKept == \A d \in DOMAIN docs : Exists(docs[d].path)

\* No upload is called what the service calls a signed or a temporary file, and no
\* verification's temporary file what it calls a signed one.
NamesApart ==
    \A m \in UploadNames :
        /\ \A n \in UploadNames : m # SignedPath(n)
        /\ \A n \in VerifyNames : m # TempPath(n) /\ SignedPath(m) # TempPath(n)

\* No upload holds a signature block already.
PlainBodies == \A b \in Bodies : ~Occurs(BEGIN, b)

\* Names and contents come from the requests.
NamesOK ==
    /\ \A d \in DOMAIN docs : docs[d].path \in UploadNames
    /\ \A r \in Requests :
          /\ pc[r] \in UploadSteps => job[r].name \in UploadNames /\ job[r].body \in Bodies
          /\ pc[r] \in VerifySteps => job[r].name \in VerifyNames

\* The files that rows will be about are there, and a signing writes to a file that
\* nobody unlinks.
PresentOK ==
    /\ OriginalKept
    /\ \A s \in DOMAIN sigs : Exists(SignedPath(docs[sigs[s].doc].path))
    /\ \A r \in Requests :
          /\ pc[r] = "insert_doc" => Exists(job[r].name)
          /\ pc[r] = "signed_write" => mem[r].open
          /\ pc[r] = "insert_sig" => Exists(SignedPath(docs[mem[r].doc].path))

\* What a sealed request is about to write is a text without a marker and its block.
SealedText(r) ==
    \E n \in 0 .. Len(mem[r].seen) :
        LET text == SubSeq(mem[r].seen, 1, n)
        IN  ~Occurs(BEGIN, text) /\ mem[r].seen = Attach(text, mem[r].key)

WrittenOK ==
    /\ \A n \in UploadNames : Exists(n) => ~Occurs(BEGIN, files[n])
    /\ \A r \in Requests : pc[r] \in {"signed_create", "signed_write"} => SealedText(r)
    /\ \A n \in UploadNames :
          LET p == SignedPath(n)
          IN  Exists(p) => CarriesKey(files[p]) \/ p \in torn

\* Why files stay: inductive together with IInv while names are apart, uploads hold no
\* signature block and the disk stays.
FilesOK == NamesOK /\ PresentOK /\ WrittenOK

\* A row is never changed but by its soft delete, and never comes back: digests
\* and keys that were read stay true (Append and DELETE are the only writes).
RowsKept ==
    [][ /\ \A d \in DOMAIN docs : d \in DOMAIN docs' /\
              docs'[d] \in {docs[d], [docs[d] EXCEPT !.live = FALSE]}
        /\ \A s \in DOMAIN sigs : s \in DOMAIN sigs' /\
              sigs'[s] \in {sigs[s], [sigs[s] EXCEPT !.live = FALSE]} ]_vars

\* An upload answered "ok" registered the digest of the content that was sent
\* (UploadDocument saves, then CreateDocument reads back what is on disk).
UploadFaithful ==
    \A r \in Requests : job[r].op = "upload" /\ reply[r] = "ok" =>
        \E d \in DOMAIN docs : /\ docs[d].user = job[r].user
                               /\ docs[d].path = job[r].name
                               /\ docs[d].digest = Digest(job[r].body)

\* A verification answered "valid" was sent a content that carries: the answer
\* is about the file in the request.
VerdictOwn ==
    \A r \in Requests : reply[r] = "valid" => Carries(job[r].user, job[r].body)

LiveDocuments(u, content) ==
    {d \in DOMAIN docs : /\ docs[d].live /\ docs[d].user = u
                         /\ docs[d].digest = Digest(Original(content))}

\* The first live document of u with this text.
IsFirst(d, u, content) == /\ d \in LiveDocuments(u, content)
                          /\ \A e \in LiveDocuments(u, content) : d <= e

\* The content claims the signature of that document, and it has no other.
Genuine(u, content) ==
    /\ HasSignature(content)
    /\ \E d \in DOMAIN docs :
          /\ IsFirst(d, u, content)
          /\ SignaturesOf(d) # {}
          /\ \A s \in SignaturesOf(d) : Claim(content) = <<sigs[s].raw>>

\* A genuine signed file is not rejected, whatever an earlier request or process left
\* on disk and however many documents and signatures with other texts there are; a
\* new container or a full disk fail the request and judge nothing.
OnlySignatureAccepted ==
    \A r \in Requests :
        job[r].op = "verify" /\ reply[r] = "rejected" => ~Genuine(job[r].user, job[r].body)

Stored(p, c) == Exists(p) /\ files[p] = c

\* What a handler holds of a request that runs alone is what the client sent.
SentOK(r) ==
    /\ pc[r] \in UploadSteps => job[r].op = "upload"
    /\ pc[r] \in SignSteps   => job[r].op = "sign"
    /\ pc[r] = "save_copy"   => mem[r].open /\ Stored(job[r].name, <<>>)
    /\ pc[r] = "read_upload" => Stored(job[r].name, job[r].body)
    /\ pc[r] = "insert_doc"  => mem[r].seen = job[r].body
    /\ pc[r] = "temp_copy"   => mem[r].open /\ Stored(TempPath(job[r].name), <<>>)
    /\ pc[r] = "temp_read"   => Stored(TempPath(job[r].name), job[r].body)
    /\ \/ pc[r] \in {"find_by_digest", "find_sigs"}
       \/ pc[r] = "remove" /\ mem[r].verdict
       => mem[r].seen = job[r].body

\* It has decided against the content only when there was a reason.
JustOK(r) ==
    /\ pc[r] = "find_sigs" => IsFirst(mem[r].doc, job[r].user, job[r].body)
    /\ pc[r] = "remove" /\ ~mem[r].verdict => ~Genuine(job[r].user, job[r].body)

\* Inductive together with IInv while requests run one at a time, no statement fails
\* and nobody deletes.
AloneOK == \A r \in Requests : SentOK(r) /\ JustOK(r)

-----------------------------------------------------------------------------
(* What a user of the ledger sees of the state.                             *)

LedgerDocuments ==
    [d \in DOMAIN docs |-> [user |-> docs[d].user, digest |-> docs[d].digest,
                            live |-> docs[d].live]]

LedgerSignatures ==
    [s \in DOMAIN sigs |-> [doc |-> sigs[s].doc, over |-> signed[sigs[s].key],
                            live |-> sigs[s].live]]

LedgerAsker ==
    [r \in Requests |-> IF job[r].op = "verify" THEN job[r].user ELSE None]

LedgerAccepted ==
    [r \in Requests |-> reply[r] = "valid" \/ (pc[r] = "remove" /\ mem[r].verdict)]

Ledger == INSTANCE SignatureLedger WITH
    Digests    <- DigestType,      Nobody     <- None,
    documents  <- LedgerDocuments, signatures <- LedgerSignatures,
    asker      <- LedgerAsker,     accepted   <- LedgerAccepted

\* The service keeps the promises of SignatureLedger: the files, the keys and the
\* interleaved steps of UploadDocument, CreateSignature and
\* UploadAndVerifyDocumentService add nothing a user of the ledger could see.
ImplementsLedger == Ledger!LSpec
=============================================================================
