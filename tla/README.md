# Verification of be-sign-file

TLA+ models of the be-sign-file server, a Go program (gin, gorm, PostgreSQL) in
which users register, upload documents, have the server sign them and later
upload a signed file to have it verified. TLC checks the models on small
instances; TLAPS proves the properties of signing, of the file format, of accounts
and sessions, of startup and of the list of users for every instance.

    cd tla
    tlc -workers 2 -config Signing.cfg MCDocumentSigning
    tlapm DocumentSigningProofs.tla

`PROJECT.json` lists runs, mutants, hazards, theorems and, for every definition,
the source lines it models.

## 1. The system

| Component | State it keeps | Operations | Talks to |
| --- | --- | --- | --- |
| Signed file format (`service/signature_service.go`, `document_service.go`) | none: a text with an appended block `---BEGIN SIGNATURE---`, the signature in base64, `---END SIGNATURE---` | attach, take apart | used by signing and verification |
| Document signing (`controller/`, `service/`, `repository/` `document_*`, `signature_*`) | tables `documents` and `signatures`; the directory `uploads/` | `POST /api/documents/upload`, `/api/signatures`, `/api/documents/verify`, a `DELETE` each for documents and signatures, GETs | users (the signer must exist), PostgreSQL, file system |
| Accounts and sessions (`user_*`, `refresh_token_*`) | tables `users` and `refresh_tokens`; open transactions | register, verification mail, login, refresh, me, update, delete, list | access tokens, mail server |
| Access tokens (`service/jwt_service.go`, `middleware/authentication.go`) | none on the server (a signed token of 15 minutes) | issue, check | every authenticated route |
| Startup, migration, seeding (`main.go`, `command/`, `migrations/`) | which tables there are, the seeded rows of `users` | `--migrate --seed --run` at each start of the container, `--migrate --seed` by hand beside it | all tables, the log, the port |
| Pagination (`dto/pagination.go`, `repository/common.go`) | none | page and limit arithmetic, count then find | list of users |
| Query log (`config/logger.go`, `routes/log_route.go`) | a log file per month | append, show a month | every SQL statement |
| Certificates, profile images, mail, CORS, wiring | - | - | - |

A request is a goroutine. No component has a lock, signing uses no transaction,
and all of the handlers share the tables and one flat directory whose file names
come from the clients. So what is hard here is:

- *overlapping requests*: two uploads of a name write one path; two
  verifications of a name write, read and unlink one temporary path; a document
  is deleted while it is being signed; two logins of one user end the same
  sessions; a registration passes a check that an overlapping one invalidates;
- *file names that clash*: a client may call its upload `verify_x` or `x.signed`;
- *read back after write*: digest and verdict are about what a path holds by
  then, not about what the request sent;
- *partial failure and restart*: a file is written before its row is inserted;
  a committed insert may be reported as failed; a new container has an empty
  disk beside a full database;
- *resources*: a transaction that is never ended keeps a connection;
- *starts*: the container migrates and seeds at every start, beside accounts that
  were renamed or deleted, beside another process that does the same, after one
  that was killed half way, and before the database is up;
- *lists*: the list of users is read page by page from a table that changes, is
  counted by a statement of its own, and no statement asks for an order;
- *protocol*: one content registered or signed several times, while verification
  looks at the first match only.

What makes each part correct:

- file format: the text and the signature that were attached come back, whatever
  is appended after them;
- signing: a stored signature is over the digest of its document under a key of
  its own; "valid" is only ever said of a content a document of the caller
  carries; no signature row without its file; originals and rows are not lost;
- accounts: no two rows with one email, sessions end only when a new one takes
  their place, connections come back, every request comes to an end;
- startup: nothing that killed migrations and seedings leave keeps the next start
  from serving, and a server that migrated and seeded begins to serve with its
  tables, the unique index of the emails and its seeds;
- list of users: an answer adds up, and the pages of a walk show as many rows as
  there are users, but for the writes in between. Which users they show is promised
  by nothing: without ORDER BY each statement meets the rows in an order of its own.

## 2. Modules

| Module | What it is |
| --- | --- |
| `SignedFile` | the file format: pure operators over files as sequences of chunks |
| `DocumentSigning` | the upload, sign, verify and DELETE handlers, one call at a time, on the tables and the disk |
| `SignatureLedger` | the abstract specification: documents are registered and withdrawn, certified and revoked; a user is told "valid" only with a live signature |
| `Accounts` | registration, login, refresh and the endpoints behind `Authenticate`, one SQL statement at a time |
| `SessionLedger` | the abstract specification: accounts join, are renamed and leave; a login replaces, in one step, the sessions it saw |
| `Startup` | the processes of the binary from their flags to the bound port, and the query log they write |
| `UserList` | the list of users: the arithmetic of pages, the two statements of a request, a client that walks the pages |
| `MCSignedFile`, `MCDocumentSigning`, `MCAccounts`, `MCStartup`, `MCUserList` | values for TLC; `MCSignedFile` also enumerates files and states the properties of the format |
| `DocumentSigningProofs` | signatures, verdicts and rows: the inductive invariant and its theorems; `DocumentSigning` implements `SignatureLedger` |
| `DocumentSigningFiles` | temporary files go, originals and signed files stay |
| `DocumentSigningAlone` | what is answered while requests keep to files of their own, or run one at a time |
| `SignedFileProofs`, `MCSignedFileProofs` | what is attached to a file comes back, for files of every length |
| `AccountsProofs` | connections, emails, sessions; `Accounts` implements `SessionLedger` |
| `StartupProofs` | what killed, repeated and concurrent starts leave behind |
| `UserListProofs` | how many rows the pages of a walk show, and that answers add up |

`DocumentSigning` extends `SignedFile` (it writes and reads such files) and
instantiates `SignatureLedger` under the refinement mapping `Ledger...`;
`Accounts` instantiates `SessionLedger` likewise. `Startup` and `UserList` each
take from the accounts what they need of them, single writes to `users`: what
leads to such a write is the matter of `Accounts`.
Definitions named `Mutant...` are plausible bugs; each property comes with one
that breaks it.

### SignedFile

A file is a sequence of chunks: text chunks, the line feed `NL`, the two markers
and signatures (numbers, the key that made them). `Attach` is
`CreateSignature`'s writing of the block (a line feed first when the text does
not end with one), `Original` and `Claim` are the index arithmetic of
`UploadAndVerifyDocumentService`: everything before the first begin marker, and
what is between it and the end marker without line feeds.

### DocumentSigning

| Variable | Code |
| --- | --- |
| `users`, `docs`, `sigs` | the tables, `live` being `deleted_at IS NULL`; rows are in id order |
| `signed[k]` | the digest RSA key `k` signed |
| `dir`, `files` | the directory `uploads` and what it holds |
| `torn` | the files that a signing has truncated and none has written to the end since (history) |
| `pc`, `job`, `mem`, `reply` | for each running handler: its next call, the request, its locals, its answer |

One action is one file-system call or one SQL statement together with the code up
to the next one:

- upload: `SaveCreate`, `SaveCopy` (gin's `SaveUploadedFile`), `ReadUpload`,
  `InsertDoc`;
- sign: `FindDoc`, `FindSigner`, `Seal` (generate the key, read the original,
  sign the digest), `SignedCreate`, `SignedWrite`, `InsertSig`;
- verify: `TempCreate`, `TempCopy`, `TempRead`, `FindByDigest`, `FindSigs`,
  `RemoveTemp` (the deferred `os.Remove`);
- `DeleteDocument`, `DeleteSignature`, `DeleteUser`;
- faults: `DbFails` (a statement fails; an insert may also be committed and
  reported as failed), `WriteFails` (a write stops part way), `Crash`,
  `Redeploy` (the database stays, `uploads` is gone: no volume holds it).

Files keep their content by name: a handle writes at offset 0 over what the path
holds, so two overlapping writers mix as they do on disk. Paths are `verify_`
and `.signed` counts around a stem, so that one upload may be called what
another one's temporary or signed file is. `UploadNames` are the names that files
are uploaded under, `VerifyNames` those they are sent under to be verified.

### Accounts

| Variable | Code |
| --- | --- |
| `users`, `tokens` | the tables; a token row holds the bcrypt form of its string, and in `found` the sessions its login saw (history, for the properties) |
| `secrets` | how many refresh tokens were generated |
| `access` | the users whose access token a client holds |
| `open`, `abandoned` | connections that hold a transaction, and those among them that no handler will end |
| `pc`, `job`, `mem`, `reply` | as above |

`Verify` and `RefreshToken` run in a transaction: `BeginTx`, `FindLogin` or
`FindToken`, `EndSessions` and `LockRows` (PostgreSQL's UPDATE at READ COMMITTED:
a snapshot when the statement starts, then a wait for the transactions that hold
its rows and a second look at them), `Commit` (the insert, which nobody else sees
before, and the commit). `Delete` opens a transaction, runs its two statements
outside of it and returns without ending it. `CheckEmail` and `SaveUser` are the
two statements of a registration; `FindUser`, `UpdateUser`, `DeleteUser` those
behind `Authenticate`, which reads no row. `KeyDecodes` is `FALSE`: the AES key
in `utils/aes.go` ends with `!` and `hex.DecodeString` refuses it, so that every
registration stores its row and then answers an error, and no email is ever
verified.

In `SessionLedger` a login is `Look` and `Replace`: the mapping takes a login
that has run `EndSessions` as looking, with the sessions that statement saw, and
its `Commit` as the replacement. The row locks, the second look at the rows, the
rollbacks and the requests around them have no counterpart there.

### Startup

| Variable | Code |
| --- | --- |
| `up`, `tables`, `users` | the database accepts connections; its tables; the rows of `users` |
| `indexed` | `users` has the unique index of `entity/user_entity.go:12` |
| `now`, `log` | the month; which months' statements each file `<month>_query.log` holds |
| `pc`, `mem` | for each process: its next statement, its flags, its log file, the table or seed it is at |
| `outcome`, `calm` | how its last run ended, and whether anybody else wrote or the database stopped since it began (history) |
| `careless` | a process that was started without `--migrate` wrote to `users` (history) |

`Start` and `Connect` are `main` up to the database connection: `SetupLogger`
chooses the file there, once, and a database that is not up is a panic.
`HasTable`, `CreateTable`, `CheckTable`, `HasIndex` and `CreateIndex` are what
gorm's Postgres migrator sends for a table, each statement committed by itself: a
missing table is created and then given its index; of a table that is there
`AutoMigrate` checks the columns and makes the index when it is missing, while the
seeder, which only looks for `users`, leaves it as it is. `FindSeed`, `CountSeed` (whose error nobody looks at) and
`CreateSeed` the three statements for each account of `users.json`; `Bind` is
`server.Run`. Beside them `Register`, `Update` and `Delete` are the requests of a
serving process that write `users`, and `Kill`, `DatabaseStarts`,
`DatabaseStops` and `MonthPasses` are the world. `Logger(m)` is the page of month
`m`.

### UserList

`rows` are the live users whose name matches the search, a set: no statement asks
for an order, and each `Find` chooses one of its own among `Scans`, also while nobody
writes (PostgreSQL starts a sequential scan where another one is, and parallel
workers finish as they do). A request is `GetAllUser` (with `Default`), `Count`,
`Find`, or `Fail` instead of one of the two statements; `Offset`, `TotalPage` and
`Selected` are `Paginate`, `TotalPage` and what gorm and PostgreSQL make of an
offset that is not positive and a limit that is negative. Products wrap at
`IntLimit` (2^63 in the code). `Register`, `Delete` and `Update` make a row come
into or leave the selection (`Comes`, `Leaves`). `split` counts the writes between
the two statements of a request and is handed on with its `reply`; `walk` is a
client that asks for page 1 and goes on until `max_page`, with who was there when
it began, whom it was shown, and how many writes came since (all history).

## 3. Runs

Two requests at a time are enough for every hazard above, which are all between
two handlers; slots are reused, so any number of requests follow each other.

| Run | Instance | Shows |
| --- | --- | --- |
| `Signing` | 2 requests, 1 user, 1 name, 1 content, 2 documents, 1 key; failing statements, all deletions | types; the inductive invariant; signatures bind; verdicts are sound; temporary, signed and original files are kept or reclaimed; rows are only soft-deleted; the ledger |
| `SigningFaults` | uploads and signings: 2 requests, 2 names, 1 content, 2 documents, 2 keys; failing statements and writes, crashes | overlapping and repeated signings keep their keys apart, and a row's signed file is there and signed unless the last signing that began to write it has not written it to the end, and why: `FilesOK` |
| `SigningAlone` | 1 request, 2 users, 2 contents (a lone line feed, and a line), uploads called `x` and `verify_x`, verifications of `x`, 2 documents, 1 key; full disk, crashes, new containers | with no overlap: the digest is of what was sent, "valid" is about the file sent, and a genuine file is accepted, whatever is left on disk, whichever upload has the name of a temporary file and whatever other document has the same text; and why: `AloneOK` |
| `SignedFile` | every file of at most 5 chunks: a text, the line feed, the two markers, two signatures | what is attached comes back whatever is appended; nothing is read that is not there |
| `Accounts` | 2 requests, 2 emails, 2 users, 3 tokens, 3 connections; failures, restarts | emails are unique, each session replaces those its login saw, none ends otherwise, only `Delete` leaks connections, an update never touches a deleted account, the session ledger is implemented; the inductive invariant |
| `AccountsLive` | 2 requests, 1 user, 3 tokens, 2 connections | every request comes to an end |
| `Startup` | 2 processes with the commands of the Dockerfile, the Makefile and `go run main.go`; 4 tables, 2 seeds, 3 emails, 3 rows | a start that nobody disturbs fails only when a seeded account was deleted or two rows have one email; a server that serves has its tables, index and seeds; no two rows have one email as long as only processes that migrated write; the inductive invariant |
| `UserList` | 4 users, pages -2 to 9, sizes -1 to 2 (0 is 10), ints from -16 to 15, 3 writes | counts, pages and numbers of rows add up, for one answer and for a walk; the inductive invariant |
| `FindReplacedOriginal` | 1 request, 2 contents, 2 documents | *violated*: a signed file holds the text its signature is about |
| `FindOverlappingVerifications` | 2 requests, 2 users | *violated*: a file without a signature may be answered "valid" while another verification of that name runs |
| `FindRefresh` | 1 request | *violated*: a refresh token that was just issued is not found |
| `FindLogMonth` | 1 process, 12 months | *violated*: the page of a month shows statements of the next one |

Bounds, all named in the modules: `MaxDocs`, `MaxKeys` (rows and keys ever
created), `MaxUsers`, `MaxTokens`, `MaxConnections`, `MaxLength`, `IntLimit`,
`MaxWrites` (writes during one walk, or within one request). Two
documents with one content tell "the first match" from "the match"; two keys are
what can be mixed up, and a second signing of one document; three refresh tokens
are an old session and two logins that race to end it; two or three connections
are used up by as many deletions; two seeds are what a process can be killed
between, and three emails let two rows have one of them beside the seeds; four users
make two full pages of two, or four of one, and a last page that is not full once
one has left; three writes are one between the statements of each page of a walk;
an int of 16 values to each side lets page 9 of size 2 overflow. The
run `Startup` keeps one month, since its properties do not look at the log.
Symmetry is over the request slots, processes, emails or users, and only in runs
without liveness.

`SignedFile` switches deadlock checking off: the enumeration stops at
`MaxLength`. No other run does.

*Fairness.* Only `AccountsLive` needs any: weak fairness of `Step(r)`, the next
call of a running handler. The Go scheduler runs every goroutine that can run and
PostgreSQL grants a row lock when it is free. Faults are not part of `Step`, so
that no failing statement helps a waiting login out.

*Findings.* The four violated runs quote what the repository says:
`summary_xu_ly_de_bai.md` for the signed text and the verification, the comment
at `service/user_service.go:427` for the refresh token, which is stored as a
bcrypt hash and looked up as it is, `README.md:64` for the log. Three more things
that the models show: of two overlapping uploads of one name, one may be registered
with the digest of the other, of a mixture or of nothing (`UploadFaithful` is
checked with one request at a time and proved while no other request works on that
file); of two signatures of one document only the one a scan meets first is
accepted (`OnlySignatureAccepted` is about a document with one); a text without a
final line feed comes back with one more (`RoundTrip` says so of every such file,
the empty one included, although `summary_xu_ly_de_bai.md:9` promises 100% of the
original there too; the digest was taken without it, so that such a file, once
signed, is not found).

## 4. Proofs

Assumed of the constants: `ChunksAssumption` (markers, line feed, text and
signatures are different things), `SigningAssumption`, `AccountsAssumption`,
`StartupAssumption`, `FilesAssumption` (names, contents and commands are of their
types, `None` is none of them, bounds are naturals, `users` is the table that is
migrated first), `UserListAssumption` (pages and sizes are integers, the default
size is positive, there are finitely many users and an int counts them). The theorems hold for any number of requests, users, contents,
names, rows, keys, processes, tables, seeds, pages and sizes and for every set of faults; where
one needs more, it is a hypothesis of that theorem and named here.

| Theorem | States | Provided |
| --- | --- | --- |
| *`DocumentSigningProofs`* | | |
| `Invariance`, `TypeCorrect` | `[]IInv`, `[]TypeOK` | |
| `RowsAreKept` | `RowsKept` | |
| `SignaturesBind`, `VerdictsSound` | `[]SignatureBinds`, `[]VerdictSound` | |
| `Refinement` | `ImplementsLedger` | |
| *`DocumentSigningFiles`* | | |
| `TempsReclaimed` | `[]TempReclaimed` | no upload is called `verify_...`, no crash, no full disk |
| `OriginalsStay` | `[]OriginalKept` | `NamesApart`, the container stays |
| `FilesAreKept`, `SignedFilesStay` | `[]FilesOK`, `[]SignedFileKept` | `NamesApart`, `PlainBodies`, the container stays |
| *`DocumentSigningAlone`* | | |
| `UploadsFaithful`, `VerdictsOwn` | `[]UploadFaithful`, `[]VerdictOwn` | `[]Apart` |
| `AloneInvariance`, `GenuineAccepted` | `[]AloneOK`, `[]OnlySignatureAccepted` | `Undivided` |
| *`SignedFileProofs`, `MCSignedFileProofs`* | | |
| `ComesBack` | original and claim of an attached block | the text holds no begin marker |
| `AttachedComesBack`, `ReadIsThere` | `[]RoundTrip`, `[]ReadsWhatIsThere` | |
| *`AccountsProofs`* | | |
| `Invariance`, `TypeCorrect` | `[]IInv`, `[]TypeOK` | |
| `ConnectionsReturned`, `EmailsStayUnique`, `LoginReplaces` | `[]OnlyDeleteLeaks`, `[]EmailsUnique`, `[]SessionsReplaced` | |
| `DeletedStay`, `SessionsEndByLogin` | `DeletedUserKept`, `SessionEndsByLogin` | |
| `SessionsRefined` | `ImplementsSessions` | |
| *`StartupProofs`* | | |
| `Invariance`, `TypeCorrect` | `[]IInv`, `[]TypeOK` | |
| `SeedersTwinNone`, `StartsResume`, `ServerIsPrepared` | `[]NoTwin`, `[]FailsForAReason`, `[]ServesPrepared` | |
| *`UserListProofs`* | | |
| `Invariance`, `TypeCorrect` | `[]IInv`, `[]TypeOK` | |
| `RepliesAddUp`, `WalksAddUp` | `[]ReplyAddsUp`, `[]WalkAddsUp` | |

*The conditions.* `NamesApart`: no upload is called what the signed file of an
upload or the temporary file of a verification is, and no signed file what a
temporary one is. `PlainBodies`: no upload holds a signature block already. TLC
evaluates both on the names and contents of the runs but `SigningAlone`, whose
names clash on purpose. A client that breaks them writes over files of the service, and a new
container has no files at all, so that the properties would be false.
`Apart`: as long as an upload or a verification runs, no other request that runs
works on its file: the one it was sent under, `verify_` and that name, or the signed
file being written. Any number of requests run at a time, on one document too; two
uploads of a name, or two verifications of a name, do not. Both are possible, and
`FindOverlappingVerifications` shows that `VerdictOwn` then fails: `Apart` is the
condition under which the handlers, which take no lock, answer about what they were
sent. One request at a time, as in the run `SigningAlone`, is a special case.
`Undivided`: requests run one at a time (`OneAtATime`), no statement fails, since a
failed look-up also answers "rejected", and nobody deletes, which could come between
the two look-ups of a verification. Crashes, full disks and new containers are not
excluded in either.

### Signatures and verdicts

`SignatureBinds` and `VerdictSound` are not inductive: when `InsertSig` runs, the
row is built from locals that `Seal` filled several steps before, and `FindSigs`
decides on a document that `FindByDigest` chose. `IInv` adds what a handler in
flight knows: `HandlerOK` (the rows it looked up exist, the file it holds open
has its name), `SealOK` (a sealed request has a key over its document's digest
that no row and no other request has) and `JudgeOK` (the document chosen is the
caller's and has the digest of what was read). The proof has three layers, each
using the ones before it:

1. `Control`: types and `HandlerOK`, one lemma for each group of steps
   (`UploadKeepsControl`, `SignKeepsControl`, ...);
2. `Bound`: `SealOK` and `SignatureBinds`; only `Seal` and `InsertSig` can
   disturb them, the other steps go through the frame lemma `BoundFrame`, which
   rests on `RowsStep` (rows only change by soft delete);
3. `Judged`: `JudgeOK` and `VerdictSound`; only verification can disturb them.

The refinement maps a table to its column of owners, digests and signatures, and
a verification that has decided "valid" to an accepted one. `InsertDoc` is
`Register`, `InsertSig` is `Certify` (this needs `SealOK`), `FindSigs` is `Accept`
(this needs `JudgeOK`), the deletions are `Withdraw` and `Revoke`, the start of a
request is `Ask`, the end of the process is `Forget`; every other step is a
stutter.

### Files

The names on the disk come first: `NamesOK` says that all of them come from the
requests, and `NamesOnDisk` that only the three calls that open a file add a name
and only `RemoveTemp` and a new container take one. `TempsReclaimed` follows by
following who may remove a temporary name: a verification never leaves its steps
but through `RemoveTemp`. For the others `FilesOK` adds, in this order,

- `PresentOK`: an upload that is about to insert its row has its file, and a
  signing that is about to insert its row has its signed file. No temporary file
  has such a name (`NotTemporary`), hence nobody unlinks it;
- `WrittenOK`: uploads stay free of markers, a sealed request holds such a text
  with its own block, and each signed file carries a signature or is `torn`. Every
  call writes to no file but its own (`OnlyTarget`); a signing that truncates a file
  makes it torn and nothing but a write to the end mends it (`TornStays`); such a
  write leaves a file that carries its key (`SignedReads`, from the file format),
  also over what another signing left.

`SignedFileKept` is not inductive: it speaks of the files of rows, and a row is
inserted last, so that `FilesOK` says the same of every signed file on the disk and
that a signing about to insert its row has one.

### Requests apart and alone

`SentOK` says what is on disk and in memory between the calls of a request: after
`SaveCopy` the path holds what was sent, since the file was truncated and nobody
else writes there; what `ReadUpload` and `TempRead` read is what was sent. What other
requests do leaves it so: a call writes to no file but its own (`WriterFrame`), and
only `RemoveTemp` takes a name away, or a handle's file its name, which `Apart`
says is another one (`OthersAside`, `OthersLocals`). An answer stays true because
rows stay (`AnswerStays`). For acceptance, `JustOK` says that a
verification that looks for signatures looks for those of the first live document of
the caller with that text, and that one which will reject had a reason: there is no
such document or it has no signature (`NoDocument`, `NoSignature`), or the one it met
is not claimed (`WrongSignature`); the first document is one only (`OneIsFirst`).

### File format

The first occurrence of a chunk is a least element (`LeastElement`), which is what
cutting at it needs. `BlockComesBack` computes a file of the form text, begin
marker, line feed, signature, line feed, end marker, anything; the claim is the
one chunk between the markers that is no line feed (`OnlyChunk`). The converse,
`ReadsWhatIsThere`, reads the position of the claim off the positions of the
markers.

### Accounts and sessions

`SessionsReplaced` speaks of a row that was stored; its reason lies in a statement
that ran long before. `IInv` says of a login in flight that the sessions it saw
when `EndSessions` began are rows of its user, that those it holds are among them,
and that when it is about to commit each of them is held by it or over already
(`HandlerOK`). The steps:

1. types and what handlers know (`Control`): each action is one of a few ways to
   go on, begin or end a transaction (`GotoKeeps`, `AnswerKeeps`, `ReturnKeeps`,
   `RollbackKeeps`);
2. connections by counting: the connections open are as many as the requests in a
   transaction (`Holders`) and those abandoned; `HoldersGain` and `HoldersLose`
   say what a step of one request does to that number;
3. `UsersStep` and `TokensStep`: the few ways in which a step may change a
   table. From them emails stay unique, deleted rows stay as they are, and
   sessions end in `Commit` only.

In the refinement `EndSessions` is `Look`, `Commit` is `Replace`, an answer
without a commit is `GiveUp`, the end of the process is `Forget`. That `Commit`
is a `Replace` needs `HandlerOK`: what is ended is what the login held, and that
is all that was live of what it saw.

### Startup

What a process knows depends on where it is: `LocalsOK` (its table or seed is one
there is), `MigratedSoFar` (the tables before its own are there; undisturbed, its
own is not if it is about to create it; past the first table the index is there) and
`SeededSoFar` (likewise for seeds; undisturbed, no live account has the email it is
about to insert). Each step is a process that goes on (`AfterMigrateOK`, `AfterTableOK`,
`AfterSeedOK`, `NextSeedOK` say what it knows there) and the others that stay
(`StaysOK`: what they know is of tables and rows that are not taken away, or they
are no longer calm). Twins: while the index is there nothing makes them, and
`CreateIndex` succeeds only without them; until then only a process that did not
migrate can write, since one that did has its index before it seeds or serves
(`MigratedSoFar`), and that write makes the database `careless`.

### List of users

`ReplyAddsUp` and `WalkAddsUp` compare what was counted with what was shown, which
other statements read. `IInv` bounds how far the two can be apart:

- `RequestOK`: what a request counted differs from the number of rows by no more than
  the writes since (`WriteKeeps`, for all writes alike), and its size is not zero;
- `Shown`: until a walk has been shown as many rows as there were, but for the writes,
  every page it was shown was full, so that `page * per` rows were. When page
  `max_page` was read, that is the count or more (`TotalPageOK`), hence the walk is
  near the number it began with;
- `WalkOK`: no page of a walk begins where an int ends, because the page before was
  not the last one of a number of users that an int counts (`NextPageIs`). So `Offset`
  does not wrap in a walk, while for other requests `ReplyAddsUp` has to ask for a
  first row that an int places.

`SelectedIs` says which part of a scan a page is, `ScanIs` that a scan holds each
row once. `WalkEnds` derives `WalkAddsUp`: with no writes the walk is shown as many
rows as there are users, all of them users, so that they are all shown just when
none is shown twice (`DistinctIs`: as many elements as places).

### What is only model-checked

`Answered`, since the prover does not reach liveness; and what the four `Find...`
runs refute.


## 5. Abstractions and limits

- A digest is the content it was taken of: SHA-256 does not collide. An RSA key
  verifies the one signature it made; keys are fresh.
- One SQL statement is atomic, except for the row locks of `Accounts`. All row
  locks of one statement are taken at once.
- A binding or authentication failure answers before anything is touched and is
  not a step. Names, titles, roles and error texts are left out.
- `Accounts` starts with empty tables; the accounts the seeder makes are others
  than those of `Emails`.
- An access token is held or no longer used; its signature and its clock are not
  modelled. Refresh tokens never expire in the model: none is ever found.
- `TempReclaimed` speaks of a disk that does not fill and a process that lives:
  otherwise the file stays until the next verification of that name, which
  truncates it (`VerdictOwn` says that it is not judged by the leftover).
  `SignedFileKept` and `OriginalKept` are checked and proved for names that do not
  clash and a disk that stays; `SignatureBinds`, `VerdictSound` and the ledger
  for all names and for new containers.
- An error before a verification has read its file is answered "failed" here; the
  code answers `verified: false` with another message.
- `Startup` has the one index that a program state can keep from being made, the
  unique one of the emails; the other indexes come with their tables, and the columns
  of a table that is there are those of its entity, so that `CheckTable` changes
  nothing. The port is free unless another process serves. The file of a month is not told
  from that of the same month a year later.
- In `UserList` any order may be met by any statement, whatever the size of the
  table; a smaller choice would have to rest on a plan of PostgreSQL.
- Not in the models: the GET endpoints beside the list of users (reads),
  `UpdateDocument`, `UpdateSignature`, `SignatureService.VerifySignature`,
  `RevokeRefreshToken`, `DeleteByToken`, `DeleteExpired` and certificates (nothing
  calls them), `SignString` (keeps no state), profile images (files with fresh
  names that nothing reads back), mail delivery, CORS, wiring and scripts (pure
  input and output).

## 6. Plan

Done: all components with state, model-checked; every invariant, action property
and refinement that a passing run checks is proved. What could follow:

1. `OnlySignatureAccepted` beside other requests: its statement would have to name
   the moment of the look-ups, since a registration that ends after them makes a
   content genuine that was rightly rejected.
2. `TempReclaimed` across crashes: what a killed verification leaves is gone
   after the next one of that name.
