--------------------------- MODULE AccountsProofs ---------------------------
(***************************************************************************)
(* Proofs about Accounts, for any sets of requests, emails and events and   *)
(* any bounds: types, connections, unique emails, deleted accounts, that    *)
(* sessions end when, and only when, another one takes their place, and     *)
(* that it implements SessionLedger.                                        *)
(***************************************************************************)
EXTENDS Accounts, SequenceTheorems, FiniteSetTheorems, TLAPS

-----------------------------------------------------------------------------
(* Connections, types and handlers.                                         *)

Handlers == /\ PoolOK /\ LocalOK
            /\ IsFiniteSet(Holders) /\ OnlyDeleteLeaks
            /\ \A r \in Requests : HandlerOK(r)

Control == TablesOK /\ Handlers

\* No row goes away, changes hands or comes back to life.
Grows == /\ DOMAIN users \subseteq DOMAIN users'
         /\ \A t \in DOMAIN tokens :
               /\ t \in DOMAIN tokens' /\ tokens'[t].user = tokens[t].user
               /\ tokens'[t].live => tokens[t].live

LEMMA GrowsSame == UNCHANGED tables => Grows
BY DEF tables, Grows

LEMMA Locals ==
    ASSUME Handlers, NEW r \in Requests
    PROVE  /\ mem[r] \in MemType /\ job[r] \in JobType /\ pc[r] \in Steps
           /\ HandlerOK(r)
           /\ NoMem \in MemType /\ NoJob \in JobType
BY DEF Handlers, LocalOK, NoMem, NoJob, MemType, JobType, Ops

LEMMA UserFacts ==
    ASSUME TablesOK
    PROVE  /\ Len(users) \in Nat /\ DOMAIN users = 1 .. Len(users)
           /\ users = [u \in DOMAIN users |-> users[u]]
           /\ \A u \in DOMAIN users : users[u] \in UserType
BY DEF TablesOK

LEMMA TokenFacts ==
    ASSUME TablesOK
    PROVE  /\ Len(tokens) \in Nat /\ DOMAIN tokens = 1 .. Len(tokens)
           /\ \A t \in DOMAIN tokens : tokens[t] \in TokenType
BY DEF TablesOK

LEMMA HandlerFrame ==
    ASSUME Grows, NEW q \in Requests, HandlerOK(q),
           pc'[q] = pc[q], job'[q] = job[q], mem'[q] = mem[q]
    PROVE  HandlerOK(q)'
BY DEF Grows, HandlerOK

-----------------------------------------------------------------------------
(* How a step of r changes who holds a transaction.                         *)

LEMMA HoldersSame ==
    ASSUME \A q \in Requests : mem'[q].tx = mem[q].tx
    PROVE  Holders' = Holders
BY DEF Holders

LEMMA HoldersGain ==
    ASSUME LocalOK, IsFiniteSet(Holders), NEW r \in Requests, NEW m \in MemType,
           mem' = [mem EXCEPT ![r] = m], ~mem[r].tx, m.tx
    PROVE  /\ Holders' = Holders \cup {r} /\ IsFiniteSet(Holders')
           /\ Cardinality(Holders') = Cardinality(Holders) + 1
<1>1. Holders' = Holders \cup {r}
  BY DEF Holders, LocalOK
<1>2. r \notin Holders
  BY DEF Holders
<1> QED  BY <1>1, <1>2, FS_AddElement

LEMMA HoldersLose ==
    ASSUME LocalOK, IsFiniteSet(Holders), NEW r \in Requests,
           mem' = [mem EXCEPT ![r] = NoMem]
    PROVE  /\ Holders' = Holders \ {r} /\ IsFiniteSet(Holders')
           /\ Cardinality(Holders) \in Nat /\ Cardinality(Holders') \in Nat
           /\ Cardinality(Holders) = Cardinality(Holders') + (IF mem[r].tx THEN 1 ELSE 0)
<1>1. Holders' = Holders \ {r}
  BY DEF Holders, LocalOK, NoMem
<1>2. IsFiniteSet(Holders')
      /\ Cardinality(Holders') = IF r \in Holders THEN Cardinality(Holders) - 1
                                 ELSE Cardinality(Holders)
  BY <1>1, FS_RemoveElement
<1>3. Cardinality(Holders) \in Nat /\ Cardinality(Holders') \in Nat
  BY <1>2, FS_CardinalityType
<1>4. r \in Holders <=> mem[r].tx
  BY DEF Holders
<1> QED  BY <1>1, <1>2, <1>3, <1>4

-----------------------------------------------------------------------------
(* What the control operators do to the handlers.                           *)

LEMMA StartKeeps ==
    ASSUME Control, NEW r \in Requests, NEW j \in JobType, 
           NEW step \in {"check_email", "find_email", "decrypt", "begin", "find_user"},
           Start(r, j, step),
           step = "begin" => j.op \in {"login", "refresh", "delete"},
           step = "check_email" => j.op = "register",
           j.op \in {"register", "update"} => j.email \in Emails
    PROVE  Control'
<1> USE DEF Control, Handlers
<1>1. ~mem[r].tx
  BY DEF Start, HandlerOK
<1>2. TablesOK' /\ PoolOK' /\ LocalOK'
  BY DEF Start, TablesOK, PoolOK, LocalOK, tables, pool, Replies, Steps
<1>3. Holders' = Holders
  BY HoldersSame DEF Start
<1>4. OnlyDeleteLeaks'
  <2>1. \A q \in Holders : q # r /\ q \in Requests
    BY <1>1 DEF Holders
  <2>2. \A q \in Holders : pc'[q] = pc[q] /\ job'[q] = job[q]
    BY <2>1 DEF Start, LocalOK
  <2> QED  BY <1>3, <2>2 DEF OnlyDeleteLeaks, Start, pool
<1>5. ASSUME NEW q \in Requests, q # r  PROVE HandlerOK(q)'
  BY <1>5, HandlerFrame, GrowsSame DEF Start, LocalOK
<1>6. HandlerOK(r)'
  <2>1. pc'[r] = step /\ job'[r] = j /\ mem'[r] = mem[r] /\ pc[r] = "idle"
    BY DEF Start, LocalOK
  <2>2. mem[r].found = {} /\ mem[r].ended = {}
    BY <2>1 DEF HandlerOK
  <2> QED  BY <1>1, <2>1, <2>2 DEF HandlerOK, Transaction
<1> QED  BY <1>2, <1>3, <1>4, <1>5, <1>6

LEMMA GotoKeeps ==
    ASSUME Control, Grows, NEW r \in Requests, NEW step \in Steps, NEW m \in MemType,
           Goto(r, step, m), HandlerOK(r)', UNCHANGED pool,
           m.tx = mem[r].tx, m.tx => step \in Transaction \/ job[r].op = "delete"
    PROVE  Handlers'
<1> USE DEF Control, Handlers
<1>1. PoolOK' /\ LocalOK'
  BY DEF Goto, PoolOK, LocalOK, pool
<1>2. Holders' = Holders
  BY HoldersSame DEF Goto, LocalOK
<1>3. OnlyDeleteLeaks'
  <2>1. \A q \in Holders : q \in Requests /\ (q # r => pc'[q] = pc[q]) /\ job'[q] = job[q]
    BY DEF Goto, LocalOK, Holders
  <2>2. r \in Holders => pc'[r] \in Transaction \/ job'[r].op = "delete"
    BY DEF Goto, LocalOK, Holders
  <2> QED  BY <1>2, <2>1, <2>2 DEF OnlyDeleteLeaks, pool
<1>4. ASSUME NEW q \in Requests, q # r  PROVE HandlerOK(q)'
  BY <1>4, HandlerFrame DEF Goto, LocalOK
<1> QED  BY <1>1, <1>2, <1>3, <1>4

\* The answer of a handler, whichever way its connection goes.
LEMMA AnswerKeeps ==
    ASSUME Control, Grows, NEW r \in Requests, NEW answer \in Replies, Answer(r, answer)
    PROVE  /\ LocalOK' /\ \A q \in Requests : HandlerOK(q)'
           /\ \A q \in Holders' : pc'[q] \in Transaction \/ job'[q].op = "delete"
<1> USE DEF Control, Handlers
<1>1. LocalOK'
  BY Locals DEF Answer, LocalOK, Steps
<1>2. ASSUME NEW q \in Requests, q # r  PROVE HandlerOK(q)'
  BY <1>2, HandlerFrame DEF Answer, LocalOK
<1>3. HandlerOK(r)'
  BY DEF Answer, LocalOK, HandlerOK, NoMem, NoJob, Transaction
<1>4. Holders' = Holders \ {r}
  BY HoldersLose DEF Answer
<1>5. \A q \in Holders \ {r} : pc'[q] = pc[q] /\ job'[q] = job[q]
  BY DEF Holders, Answer, LocalOK
<1> QED  BY <1>1, <1>2, <1>3, <1>4, <1>5 DEF OnlyDeleteLeaks

LEMMA ReturnKeeps ==
    ASSUME Control, Grows, NEW r \in Requests, NEW answer \in Replies, Return(r, answer)
    PROVE  Handlers'
<1> USE DEF Control, Handlers
<1>1. Answer(r, answer) /\ open' = open
      /\ abandoned' = IF mem[r].tx THEN abandoned + 1 ELSE abandoned
  BY DEF Return
<1>2. IsFiniteSet(Holders')
      /\ Cardinality(Holders) \in Nat /\ Cardinality(Holders') \in Nat
      /\ Cardinality(Holders) = Cardinality(Holders') + (IF mem[r].tx THEN 1 ELSE 0)
  BY <1>1, HoldersLose DEF Answer
<1>3. PoolOK' /\ open' = Cardinality(Holders') + abandoned'
  BY <1>1, <1>2 DEF PoolOK, OnlyDeleteLeaks
<1> QED  BY <1>1, <1>2, <1>3, AnswerKeeps DEF OnlyDeleteLeaks

LEMMA RollbackKeeps ==
    ASSUME Control, Grows, NEW r \in Requests, NEW answer \in Replies,
           pc[r] \in Transaction, Rollback(r, answer)
    PROVE  Handlers'
<1> USE DEF Control, Handlers
<1>1. Answer(r, answer) /\ open' = open - 1 /\ abandoned' = abandoned
  BY DEF Rollback
<1>2. mem[r].tx
  BY DEF HandlerOK
<1>3. IsFiniteSet(Holders')
      /\ Cardinality(Holders) \in Nat /\ Cardinality(Holders') \in Nat
      /\ Cardinality(Holders) = Cardinality(Holders') + 1
  BY <1>1, <1>2, HoldersLose DEF Answer
<1>4. PoolOK' /\ open' = Cardinality(Holders') + abandoned'
  BY <1>1, <1>3 DEF PoolOK, OnlyDeleteLeaks
<1> QED  BY <1>1, <1>3, <1>4, AnswerKeeps DEF OnlyDeleteLeaks
-----------------------------------------------------------------------------
(* Every step keeps the types, the connections and what handlers know.      *)

LEMMA TablesFrame ==
    ASSUME TablesOK, UNCHANGED <<tables, secrets, access>>
    PROVE  TablesOK'
BY DEF TablesOK, tables

LEMMA RequestKeepsControl ==
    ASSUME Control, NEW r \in Requests, Request(r)
    PROVE  Control'
<1> USE DEF Control
<1>0. NoJob \in JobType
  BY Locals
<1>1. CASE Register(r)
  <2>1. PICK e \in Emails :
           Start(r, [NoJob EXCEPT !.op = "register", !.email = e], "check_email")
    BY <1>1 DEF Register
  <2> QED  BY <2>1, StartKeeps DEF NoJob, JobType, Ops
<1>2. CASE SendVerificationEmail(r)
  <2>1. PICK e \in Emails :
           Start(r, [NoJob EXCEPT !.op = "send_mail", !.email = e], "find_email")
    BY <1>2 DEF SendVerificationEmail
  <2> QED  BY <2>1, StartKeeps DEF NoJob, JobType, Ops
<1>3. CASE VerifyEmail(r)
  BY <1>3, StartKeeps DEF VerifyEmail, NoJob, JobType, Ops
<1>4. CASE Login(r)
  <2>1. PICK e \in Emails, right \in BOOLEAN :
           Start(r, [NoJob EXCEPT !.op = "login", !.email = e, !.right = right], "begin")
    BY <1>4 DEF Login
  <2> QED  BY <2>1, StartKeeps DEF NoJob, JobType, Ops
<1>5. CASE Refresh(r)
  <2>1. PICK t \in DOMAIN tokens :
           Start(r, [NoJob EXCEPT !.op = "refresh", !.sent = tokens[t].stored.of], "begin")
    BY <1>5 DEF Refresh
  <2>2. tokens[t].stored.of \in Nat
    BY TokenFacts DEF TokenType
  <2> QED  BY <2>1, <2>2, StartKeeps DEF NoJob, JobType, Ops
<1>6. CASE Authenticated(r)
  <2>1. PICK u \in DOMAIN users :
           \/ Start(r, [NoJob EXCEPT !.op = "me", !.user = u], "find_user")
           \/ Start(r, [NoJob EXCEPT !.op = "delete", !.user = u], "begin")
           \/ \E e \in Emails :
                 Start(r, [NoJob EXCEPT !.op = "update", !.user = u, !.email = e], "find_user")
    BY <1>6 DEF Authenticated
  <2>2. u \in Nat
    BY UserFacts
  <2>3. CASE Start(r, [NoJob EXCEPT !.op = "me", !.user = u], "find_user")
    BY <2>2, <2>3, StartKeeps DEF NoJob, JobType, Ops
  <2>4. CASE Start(r, [NoJob EXCEPT !.op = "delete", !.user = u], "begin")
    BY <2>2, <2>4, StartKeeps DEF NoJob, JobType, Ops
  <2>5. ASSUME NEW e \in Emails,
               Start(r, [NoJob EXCEPT !.op = "update", !.user = u, !.email = e], "find_user")
        PROVE  Control'
    BY <2>2, <2>5, StartKeeps DEF NoJob, JobType, Ops
  <2> QED  BY <2>1, <2>3, <2>4, <2>5
<1> QED  BY <1>1, <1>2, <1>3, <1>4, <1>5, <1>6 DEF Request

\* A step that writes no row: it goes on, or its handler returns or rolls back.
LEMMA ReadKeepsControl ==
    ASSUME Control, UNCHANGED <<tables, secrets, access>>, NEW r \in Requests,
           NEW answer \in Replies,
           \/ Return(r, answer)
           \/ pc[r] \in Transaction /\ Rollback(r, answer)
           \/ \E step \in Steps, m \in MemType :
                 /\ Goto(r, step, m) /\ UNCHANGED pool
                 /\ m.tx = mem[r].tx
                 /\ m.tx => step \in Transaction \/ job[r].op = "delete"
                 /\ HandlerOK(r)'
    PROVE  Control'
<1>1. Grows
  BY GrowsSame
<1>2. TablesOK'
  BY TablesFrame DEF Control
<1> QED  BY <1>1, <1>2, GotoKeeps, ReturnKeeps, RollbackKeeps DEF Control

LEMMA CheckEmailKeepsControl ==
    ASSUME Control, NEW r \in Requests, CheckEmail(r)
    PROVE  Control'
<1> USE DEF Control, Handlers
<1>1. CASE Goto(r, "save_user", mem[r]) /\ UNCHANGED pool
  <2>1. HandlerOK(r)'
    BY <1>1, GrowsSame DEF CheckEmail, Goto, LocalOK, HandlerOK, Transaction, tables, Grows
  <2>2. ~mem[r].tx
    BY DEF CheckEmail, HandlerOK, OnlyDeleteLeaks, Holders, Transaction
  <2> QED  BY <1>1, <2>1, <2>2, Locals, ReadKeepsControl DEF CheckEmail, Steps, Replies
<1>2. CASE Return(r, "failed")
  BY <1>2, ReadKeepsControl DEF CheckEmail, Replies
<1> QED  BY <1>1, <1>2 DEF CheckEmail

LEMMA SaveUserKeepsControl ==
    ASSUME Control, NEW r \in Requests, SaveUser(r)
    PROVE  Control'
<1> USE DEF Control
<1>1. PICK answer \in Replies : Return(r, answer)
  BY DEF SaveUser, Replies, KeyDecodes
<1>2. CASE UNCHANGED users
  BY <1>1, <1>2, ReadKeepsControl DEF SaveUser, tables
<1>3. CASE users' = Append(users, [email |-> job[r].email, live |-> TRUE])
  <2>1. [email |-> job[r].email, live |-> TRUE] \in UserType
    BY DEF SaveUser, Handlers, HandlerOK, UserType
  <2>2. users' \in Seq(UserType) /\ DOMAIN users \subseteq DOMAIN users'
    BY <1>3, <2>1, UserFacts, AppendProperties DEF TablesOK
  <2>3. TablesOK' /\ Grows
    BY <2>2 DEF TablesOK, Grows, SaveUser
  <2> QED  BY <1>1, <2>3, ReturnKeeps
<1> QED  BY <1>2, <1>3 DEF SaveUser

LEMMA MailKeepsControl ==
    ASSUME Control, NEW r \in Requests, FindEmail(r) \/ Decrypt(r)
    PROVE  Control'
<1>1. PICK answer \in Replies : Return(r, answer)
  BY DEF FindEmail, Decrypt, Replies, KeyDecodes
<1> QED  BY <1>1, ReadKeepsControl DEF FindEmail, Decrypt

LEMMA BeginTxKeepsControl ==
    ASSUME Control, NEW r \in Requests, BeginTx(r)
    PROVE  Control'
<1> USE DEF Control, Handlers
<1>1. /\ pc[r] = "begin" /\ ~mem[r].tx /\ mem[r].found = {} /\ mem[r].ended = {}
      /\ job[r].op \in {"login", "refresh", "delete"}
      /\ UNCHANGED <<tables, secrets, access>>
  BY DEF BeginTx, HandlerOK
<1>2. CASE /\ open' = open + 1 /\ UNCHANGED abandoned
           /\ Goto(r, AfterBegin(r), [mem[r] EXCEPT !.tx = TRUE])
  <2> DEFINE m == [mem[r] EXCEPT !.tx = TRUE]
  <2>1. m \in MemType /\ m.tx /\ m.found = {} /\ m.ended = {}
    BY <1>1, Locals DEF MemType
  <2>2. /\ AfterBegin(r) \in Steps
        /\ AfterBegin(r) \in {"find_login", "find_token", "find_user"}
        /\ AfterBegin(r) \in Transaction \/ job[r].op = "delete"
    BY <1>1 DEF AfterBegin, Transaction, Steps
  <2> HIDE DEF m
  <2>3. /\ pc' = [pc EXCEPT ![r] = AfterBegin(r)] /\ mem' = [mem EXCEPT ![r] = m]
        /\ UNCHANGED <<job, reply>>
    BY <1>2 DEF Goto, m
  <2>4. LocalOK'
    BY <2>1, <2>2, <2>3 DEF LocalOK
  <2>5. /\ Holders' = Holders \cup {r} /\ IsFiniteSet(Holders')
        /\ Cardinality(Holders') = Cardinality(Holders) + 1
    BY <1>1, <2>1, <2>3, HoldersGain
  <2>6. Cardinality(Holders) \in Nat
    BY FS_CardinalityType
  <2>7. PoolOK' /\ open' = Cardinality(Holders') + abandoned'
    BY <1>2, <2>5, <2>6 DEF PoolOK, OnlyDeleteLeaks
  <2>8. ASSUME NEW q \in Requests, q # r
        PROVE  /\ HandlerOK(q)'
               /\ pc'[q] = pc[q] /\ job'[q] = job[q]
    BY <1>1, <2>3, <2>8, HandlerFrame, GrowsSame DEF LocalOK
  <2>9. HandlerOK(r)' /\ pc'[r] = AfterBegin(r) /\ job'[r] = job[r]
    BY <1>1, <2>1, <2>2, <2>3 DEF LocalOK, HandlerOK
  <2>10. \A q \in Holders' : pc'[q] \in Transaction \/ job'[q].op = "delete"
    BY <2>2, <2>5, <2>8, <2>9 DEF OnlyDeleteLeaks, Holders
  <2> QED  BY <1>1, <2>4, <2>5, <2>7, <2>8, <2>9, <2>10, TablesFrame DEF OnlyDeleteLeaks
<1>3. CASE Goto(r, "find_user", mem[r]) /\ UNCHANGED pool
  <2>1. HandlerOK(r)'
    BY <1>1, <1>3 DEF Goto, LocalOK, HandlerOK, Transaction
  <2> QED  BY <1>1, <1>3, <2>1, Locals, ReadKeepsControl DEF Steps, Replies
<1>4. CASE Return(r, "failed")
  BY <1>1, <1>4, ReadKeepsControl DEF Replies
<1> QED  BY <1>2, <1>3, <1>4 DEF BeginTx

LEMMA GenerateKeepsControl ==
    ASSUME Control, NEW r \in Requests, NEW u \in DOMAIN users,
           pc[r] \in {"find_login", "find_token"}, Generate(r, u),
           UNCHANGED <<tables, access>>
    PROVE  Control'
<1>0. mem[r] \in MemType /\ u \in Nat /\ secrets + 1 \in Nat
  BY Locals, UserFacts DEF Control, TablesOK
<1> USE DEF Control, Handlers
<1> DEFINE m == [mem[r] EXCEPT !.user = u, !.secret = secrets + 1]
<1>1. mem[r].tx /\ mem[r].found = {} /\ mem[r].ended = {}
  BY DEF HandlerOK, Transaction
<1>2. u \in Nat /\ secrets \in Nat
  BY UserFacts DEF TablesOK
<1>3. m \in MemType /\ m.tx /\ m.found = {} /\ m.ended = {} /\ m.user = u
  <2>1. [mem[r] EXCEPT !.user = u] \in MemType
    BY <1>0 DEF MemType
  <2>2. [[mem[r] EXCEPT !.user = u] EXCEPT !.secret = secrets + 1] \in MemType
    BY <1>0, <2>1 DEF MemType
  <2> QED  BY <1>0, <1>1, <2>1, <2>2 DEF MemType
<1> HIDE DEF m
<1>4. Goto(r, "end_sessions", m) /\ UNCHANGED pool
  BY DEF Generate, m
<1>5. HandlerOK(r)'
  BY <1>3, <1>4 DEF Goto, LocalOK, HandlerOK, Transaction, tables
<1>6. TablesOK' /\ Grows
  BY <1>2, GrowsSame DEF TablesOK, tables, Generate
<1> QED  BY <1>1, <1>3, <1>4, <1>5, <1>6, GotoKeeps DEF Steps, Transaction

LEMMA FindLoginKeepsControl ==
    ASSUME Control, NEW r \in Requests, FindLogin(r)
    PROVE  Control'
<1>1. CASE Rollback(r, "failed") /\ UNCHANGED secrets
  BY <1>1, ReadKeepsControl DEF FindLogin, Transaction, Replies
<1>2. ASSUME NEW u \in DOMAIN users, Generate(r, u)  PROVE Control'
  BY <1>2, GenerateKeepsControl DEF FindLogin
<1> QED  BY <1>1, <1>2 DEF FindLogin

LEMMA FindTokenKeepsControl ==
    ASSUME Control, NEW r \in Requests, FindToken(r)
    PROVE  Control'
<1>1. CASE Rollback(r, "invalid") /\ UNCHANGED secrets
  BY <1>1, ReadKeepsControl DEF FindToken, Transaction, Replies
<1>2. ASSUME NEW t \in DOMAIN tokens, Generate(r, tokens[t].user)  PROVE Control'
  BY <1>2, GenerateKeepsControl DEF FindToken, Control, TablesOK
<1> QED  BY <1>1, <1>2 DEF FindToken, Matches

LEMMA EndSessionsKeepsControl ==
    ASSUME Control, NEW r \in Requests, EndSessions(r)
    PROVE  Control'
<1> USE DEF Control, Handlers
<1> DEFINE m == [mem[r] EXCEPT !.found = LiveTokens(mem[r].user)]
<1>1. /\ pc[r] = "end_sessions" /\ mem[r].tx /\ mem[r].ended = {}
      /\ mem[r].user \in DOMAIN users
  BY DEF EndSessions, HandlerOK, Transaction
<1>2. LiveTokens(mem[r].user) \subseteq DOMAIN tokens /\ DOMAIN tokens \subseteq Nat
  BY TokenFacts DEF LiveTokens
<1>3. /\ m \in MemType /\ m.tx /\ m.ended = {} /\ m.user = mem[r].user
      /\ m.found = LiveTokens(m.user)
  BY <1>1, <1>2, Locals DEF MemType
<1> HIDE DEF m
<1>4. Goto(r, "lock_rows", m) /\ UNCHANGED <<pool, tables, secrets, access>>
  BY DEF EndSessions, m
<1>5. HandlerOK(r)'
  BY <1>1, <1>3, <1>4 DEF Goto, LocalOK, HandlerOK, Transaction, tables, LiveTokens
<1> QED  BY <1>1, <1>3, <1>4, <1>5, ReadKeepsControl DEF Steps, Transaction, Replies

LEMMA LockRowsKeepsControl ==
    ASSUME Control, NEW r \in Requests, LockRows(r)
    PROVE  Control'
<1> USE DEF Control, Handlers
<1> DEFINE m == [mem[r] EXCEPT !.ended = {t \in mem[r].found : tokens[t].live}]
<1>1. pc[r] = "lock_rows" /\ mem[r].tx /\ mem[r].user \in DOMAIN users
  BY DEF LockRows, HandlerOK, Transaction
<1>2. /\ m \in MemType /\ m.tx /\ m.user = mem[r].user /\ m.found = mem[r].found
      /\ m.ended = {t \in mem[r].found : tokens[t].live}
  BY <1>1, Locals DEF MemType
<1> HIDE DEF m
<1>3. Goto(r, "commit", m) /\ UNCHANGED <<pool, tables, secrets, access>>
  BY DEF LockRows, m
<1>4. HandlerOK(r)'
  BY <1>1, <1>2, <1>3 DEF Goto, LocalOK, HandlerOK, Transaction, tables
<1> QED  BY <1>1, <1>2, <1>3, <1>4, ReadKeepsControl DEF Steps, Transaction, Replies

\* What a commit makes of the table: the rows it held end, its own is new.
NewRow(r) == [user |-> mem[r].user, stored |-> HashPassword(RefreshString(mem[r].secret)),
              live |-> TRUE, found |-> mem[r].found]

LEMMA CommitTokens ==
    ASSUME Control, NEW r \in Requests, Commit(r)
    PROVE  /\ tokens' \in Seq(TokenType) /\ Len(tokens') = Len(tokens) + 1
           /\ DOMAIN tokens' = DOMAIN tokens \cup {Len(tokens) + 1}
           /\ Len(tokens) + 1 \notin DOMAIN tokens
           /\ \A t \in DOMAIN tokens :
                 tokens'[t] = [tokens[t] EXCEPT !.live = @ /\ t \notin mem[r].ended]
           /\ tokens'[Len(tokens) + 1] = NewRow(r)
<1> USE DEF Control, Handlers
<1> DEFINE rest == [t \in DOMAIN tokens |->
                       [tokens[t] EXCEPT !.live = @ /\ t \notin mem[r].ended]]
<1>1. tokens' = Append(rest, NewRow(r))
  BY DEF Commit, NewRow
<1>2. NewRow(r) \in TokenType
  BY Locals DEF NewRow, TokenType, MemType, HashPassword, RefreshString
<1>3. \A t \in DOMAIN tokens :
         [tokens[t] EXCEPT !.live = @ /\ t \notin mem[r].ended] \in TokenType
  BY TokenFacts DEF TokenType
<1>4. rest \in Seq(TokenType) /\ Len(rest) = Len(tokens)
  BY <1>3, TokenFacts
<1>5. \A t \in DOMAIN tokens :
         rest[t] = [tokens[t] EXCEPT !.live = @ /\ t \notin mem[r].ended]
  OBVIOUS
<1> HIDE DEF rest
<1> QED  BY <1>1, <1>2, <1>4, <1>5, TokenFacts, AppendProperties

LEMMA CommitKeepsControl ==
    ASSUME Control, NEW r \in Requests, Commit(r)
    PROVE  Control'
<1>1. pc[r] \in Transaction /\ mem[r].user \in DOMAIN users
  BY DEF Control, Handlers, Commit, HandlerOK, Transaction
<1>2. /\ tokens' \in Seq(TokenType)
      /\ DOMAIN tokens' = DOMAIN tokens \cup {Len(tokens) + 1}
      /\ \A t \in DOMAIN tokens :
            tokens'[t] = [tokens[t] EXCEPT !.live = @ /\ t \notin mem[r].ended]
      /\ tokens'[Len(tokens) + 1] = NewRow(r)
  BY CommitTokens
<1>3. \A t \in DOMAIN tokens : /\ tokens'[t].user = tokens[t].user
                               /\ tokens'[t].live => tokens[t].live
  BY <1>2, TokenFacts DEF Control, TokenType
<1>4. UNCHANGED <<users, secrets>>
  BY DEF Commit
<1>5. Grows
  BY <1>2, <1>3, <1>4 DEF Grows
<1>6. tokens'[Len(tokens) + 1].user \in DOMAIN users
  BY <1>1, <1>2 DEF NewRow
<1>7. access' \in {access, access \cup {mem[r].user}}
  BY DEF Commit, GenerateAccessToken
<1>8. TablesOK'
  BY <1>1, <1>2, <1>3, <1>4, <1>6, <1>7 DEF Control, TablesOK
<1> QED  BY <1>1, <1>5, <1>8, RollbackKeeps DEF Commit, Replies, Control

LEMMA FindUserKeepsControl ==
    ASSUME Control, NEW r \in Requests, FindUser(r)
    PROVE  Control'
<1> USE DEF Control, Handlers
<1>1. CASE \E answer \in Replies : Return(r, answer)
  BY <1>1, ReadKeepsControl DEF FindUser
<1>2. CASE Goto(r, AfterFind(r), mem[r]) /\ UNCHANGED pool
  <2>1. pc[r] = "find_user" /\ mem[r].found = {} /\ mem[r].ended = {}
    BY DEF FindUser, HandlerOK
  <2>2. mem[r].tx => job[r].op = "delete"
    BY <2>1 DEF OnlyDeleteLeaks, Holders, Transaction
  <2>3. AfterFind(r) \in Steps /\ AfterFind(r) \in {"update_user", "delete_user"}
        /\ (AfterFind(r) = "update_user" => job[r].op = "update")
    BY DEF AfterFind, Steps
  <2>4. HandlerOK(r)'
    BY <1>2, <2>1, <2>3 DEF Goto, LocalOK, HandlerOK, Transaction
  <2> QED  BY <1>2, <2>2, <2>3, <2>4, Locals, ReadKeepsControl DEF FindUser, Replies
<1> QED  BY <1>1, <1>2 DEF FindUser, Replies

LEMMA UpdateUserKeepsControl ==
    ASSUME Control, NEW r \in Requests, UpdateUser(r)
    PROVE  Control'
<1> USE DEF Control
<1>1. PICK answer \in Replies : Return(r, answer)
  BY DEF UpdateUser, Replies
<1>2. CASE UNCHANGED users
  BY <1>1, <1>2, ReadKeepsControl DEF UpdateUser, tables
<1>3. CASE users' = [u \in DOMAIN users |->
                  IF u = job[r].user /\ users[u].live
                  THEN [users[u] EXCEPT !.email = job[r].email] ELSE users[u]]
  <2>1. job[r].email \in Emails
    BY DEF UpdateUser, Handlers, HandlerOK
  <2>2. \A u \in DOMAIN users : users'[u] \in UserType
    BY <1>3, <2>1, UserFacts DEF UserType
  <2>3. users' \in Seq(UserType) /\ DOMAIN users' = DOMAIN users
    BY <1>3, <2>2, UserFacts
  <2>4. TablesOK' /\ Grows
    BY <2>3 DEF TablesOK, Grows, UpdateUser
  <2> QED  BY <1>1, <2>4, ReturnKeeps
<1> QED  BY <1>2, <1>3 DEF UpdateUser

LEMMA DeleteUserKeepsControl ==
    ASSUME Control, NEW r \in Requests, DeleteUser(r)
    PROVE  Control'
<1> USE DEF Control
<1>1. PICK answer \in Replies : Return(r, answer)
  BY DEF DeleteUser, Replies
<1>2. CASE UNCHANGED users
  BY <1>1, <1>2, ReadKeepsControl DEF DeleteUser, tables
<1>3. CASE users' = [users EXCEPT ![job[r].user].live = FALSE]
  <2>1. \A u \in DOMAIN users : users'[u] \in UserType
    BY <1>3, UserFacts DEF UserType
  <2>2. DOMAIN users' = DOMAIN users /\ users' = [u \in 1 .. Len(users) |-> users'[u]]
    BY <1>3, UserFacts
  <2>3. users' \in Seq(UserType)
    BY <2>1, <2>2, UserFacts
  <2>4. TablesOK' /\ Grows
    BY <2>2, <2>3 DEF TablesOK, Grows, DeleteUser
  <2> QED  BY <1>1, <2>4, ReturnKeeps
<1> QED  BY <1>2, <1>3 DEF DeleteUser

LEMMA DbFailsKeepsControl ==
    ASSUME Control, NEW r \in Requests, DbFails(r)
    PROVE  Control'
BY ReadKeepsControl DEF DbFails, Replies

LEMMA RestartKeepsControl == Control /\ Restart => Control'
<1> SUFFICES ASSUME Control, Restart  PROVE Control'
  OBVIOUS
<1>1. LocalOK' /\ PoolOK' /\ TablesOK'
  BY TablesFrame DEF Control, Restart, LocalOK, PoolOK, Steps, NoJob, NoMem, JobType,
     MemType, Ops, Replies
<1>2. Holders' = {}
  BY DEF Restart, Holders, NoMem
<1>3. IsFiniteSet(Holders') /\ OnlyDeleteLeaks'
  BY <1>2, FS_EmptySet DEF OnlyDeleteLeaks, Restart
<1>4. \A r \in Requests : HandlerOK(r)'
  BY DEF Restart, HandlerOK, NoMem, NoJob, Transaction
<1> QED  BY <1>1, <1>3, <1>4 DEF Control, Handlers

LEMMA InitControl == Init => Control
<1> SUFFICES ASSUME Init  PROVE Control
  OBVIOUS
<1>1. TablesOK /\ PoolOK /\ LocalOK
  BY DEF Init, TablesOK, LocalOK, PoolOK, Steps, NoJob, NoMem, JobType, MemType, Ops, Replies
<1>2. Holders = {}
  BY DEF Init, Holders, NoMem
<1>3. IsFiniteSet(Holders) /\ OnlyDeleteLeaks
  BY <1>2, FS_EmptySet DEF OnlyDeleteLeaks, Init
<1>4. \A r \in Requests : HandlerOK(r)
  BY DEF Init, HandlerOK, NoMem, NoJob, Transaction
<1> QED  BY <1>1, <1>3, <1>4 DEF Control, Handlers

LEMMA NextKeepsControl == Control /\ [Next]_vars => Control'
<1> SUFFICES ASSUME Control, [Next]_vars  PROVE Control'
  OBVIOUS
<1>1. ASSUME NEW r \in Requests, Step(r)  PROVE Control'
  BY <1>1, CheckEmailKeepsControl, SaveUserKeepsControl, MailKeepsControl,
     BeginTxKeepsControl, FindLoginKeepsControl, FindTokenKeepsControl,
     EndSessionsKeepsControl, LockRowsKeepsControl, CommitKeepsControl,
     FindUserKeepsControl, UpdateUserKeepsControl, DeleteUserKeepsControl DEF Step
<1>2. CASE UNCHANGED vars
  BY <1>2 DEF vars, Control, Handlers, TablesOK, PoolOK, LocalOK, Holders,
     OnlyDeleteLeaks, HandlerOK
<1> QED  BY <1>1, <1>2, RequestKeepsControl, DbFailsKeepsControl, RestartKeepsControl
         DEF Next
-----------------------------------------------------------------------------
(* What a step may do to the two tables.                                    *)

Joins  == \E e \in Emails : /\ \A u \in DOMAIN users : users[u].email # e
                            /\ users' = Append(users, [email |-> e, live |-> TRUE])

Renames == \E e \in Emails, v \in DOMAIN users :
              /\ users[v].live /\ \A u \in DOMAIN users : u # v => users[u].email # e
              /\ users' = [users EXCEPT ![v].email = e]

Leaves == \E v \in DOMAIN users : users' = [users EXCEPT ![v].live = FALSE]

LEMMA UsersStep ==
    ASSUME Control, [Next]_vars
    PROVE  UNCHANGED users \/ Joins \/ Renames \/ Leaves
<1>1. ASSUME NEW r \in Requests, SaveUser(r)  PROVE UNCHANGED users \/ Joins
  <2>1. job[r].email \in Emails
    BY <1>1 DEF SaveUser, Control, Handlers, HandlerOK
  <2>2. ~Taken(job[r].email, 0) => \A u \in DOMAIN users : users[u].email # job[r].email
    BY UserFacts DEF Taken, Control
  <2> QED  BY <1>1, <2>1, <2>2 DEF SaveUser, Joins
<1>2. ASSUME NEW r \in Requests, UpdateUser(r)  PROVE UNCHANGED users \/ Renames
  <2> DEFINE v == job[r].user
             e == job[r].email
  <2>1. e \in Emails
    BY <1>2 DEF UpdateUser, Control, Handlers, HandlerOK
  <2>2. CASE ~LiveUser(v) /\ ~UNCHANGED users
    <3>1. users' = [u \in DOMAIN users |-> users[u]]
      BY <1>2, <2>2 DEF UpdateUser, LiveUser
    <3> QED  BY <3>1, UserFacts DEF Control
  <2>3. CASE LiveUser(v) /\ ~UNCHANGED users
    <3>1. users' = [u \in DOMAIN users |->
                      IF u = v THEN [users[u] EXCEPT !.email = e] ELSE users[u]]
      BY <1>2, <2>3 DEF UpdateUser, LiveUser
    <3>2. users' = [users EXCEPT ![v].email = e]
      BY <2>3, <3>1 DEF LiveUser
    <3>3. \A u \in DOMAIN users : u # v => users[u].email # e
      BY <1>2, <2>3 DEF UpdateUser, Taken
    <3> QED  BY <2>1, <2>3, <3>2, <3>3 DEF Renames, LiveUser
  <2> QED  BY <2>2, <2>3
<1>3. ASSUME NEW r \in Requests, DeleteUser(r)  PROVE UNCHANGED users \/ Leaves
  <2>1. CASE job[r].user \in DOMAIN users
    BY <1>3, <2>1 DEF DeleteUser, Leaves
  <2>2. CASE job[r].user \notin DOMAIN users
    BY <1>3, <2>2, UserFacts DEF DeleteUser, Control
  <2> QED  BY <2>1, <2>2
<1>4. ASSUME NEW r \in Requests, Request(r) \/ DbFails(r)  PROVE UNCHANGED users
  BY <1>4 DEF Request, Register, SendVerificationEmail, VerifyEmail, Login, Refresh,
     Authenticated, Start, DbFails, tables
<1>5. ASSUME NEW r \in Requests, Step(r)  PROVE UNCHANGED users \/ Joins \/ Renames \/ Leaves
  BY <1>1, <1>2, <1>3, <1>5 DEF Step, CheckEmail, FindEmail, Decrypt, BeginTx, FindLogin,
     FindToken, EndSessions, LockRows, Commit, FindUser, tables
<1> QED  BY <1>4, <1>5 DEF Next, Restart, vars, tables

LEMMA TokensStep ==
    ASSUME [Next]_vars
    PROVE  UNCHANGED tokens \/ \E r \in Requests : Commit(r)
<1>1. ASSUME NEW r \in Requests, Request(r) \/ DbFails(r)  PROVE UNCHANGED tokens
  BY <1>1 DEF Request, Register, SendVerificationEmail, VerifyEmail, Login, Refresh,
     Authenticated, Start, DbFails, tables
<1>2. ASSUME NEW r \in Requests, Step(r)  PROVE UNCHANGED tokens \/ Commit(r)
  BY <1>2 DEF Step, CheckEmail, SaveUser, FindEmail, Decrypt, BeginTx, FindLogin,
     FindToken, EndSessions, LockRows, FindUser, UpdateUser, DeleteUser, tables
<1> QED  BY <1>1, <1>2 DEF Next, Restart, vars, tables

-----------------------------------------------------------------------------
(* The tables.                                                              *)

LEMMA StepKeepsEmails ==
    ASSUME Control, EmailsUnique, [Next]_vars
    PROVE  EmailsUnique'
<1>0. Len(users) \in Nat /\ DOMAIN users = 1 .. Len(users)
      /\ \A u \in DOMAIN users : users[u] \in UserType
  BY UserFacts DEF Control
<1>1. CASE UNCHANGED users
  BY <1>1 DEF EmailsUnique
<1>2. CASE Joins
  <2>1. PICK e \in Emails : /\ \A u \in DOMAIN users : users[u].email # e
                            /\ users' = Append(users, [email |-> e, live |-> TRUE])
    BY <1>2 DEF Joins
  <2>2. DOMAIN users' = DOMAIN users \cup {Len(users) + 1}
        /\ (\A u \in DOMAIN users : users'[u] = users[u])
        /\ users'[Len(users) + 1].email = e
    BY <1>0, <2>1
  <2> QED  BY <2>1, <2>2 DEF EmailsUnique
<1>3. CASE Renames
  <2>1. PICK e \in Emails, v \in DOMAIN users :
              /\ \A u \in DOMAIN users : u # v => users[u].email # e
              /\ users' = [users EXCEPT ![v].email = e]
    BY <1>3 DEF Renames
  <2>2. DOMAIN users' = DOMAIN users /\ users'[v].email = e
        /\ \A u \in DOMAIN users : u # v => users'[u] = users[u]
    BY <1>0, <2>1 DEF UserType
  <2> QED  BY <2>1, <2>2 DEF EmailsUnique
<1>4. CASE Leaves
  <2>1. DOMAIN users' = DOMAIN users
        /\ \A u \in DOMAIN users : users'[u].email = users[u].email
    BY <1>0, <1>4 DEF Leaves, UserType
  <2> QED  BY <2>1 DEF EmailsUnique
<1> QED  BY <1>1, <1>2, <1>3, <1>4, UsersStep

LEMMA StepKeepsDeleted ==
    ASSUME Control, [Next]_vars
    PROVE  \A u \in DOMAIN users : ~users[u].live => users'[u] = users[u]
<1>0. Len(users) \in Nat /\ DOMAIN users = 1 .. Len(users)
      /\ \A u \in DOMAIN users : users[u] \in UserType
  BY UserFacts DEF Control
<1>1. CASE Joins
  BY <1>0, <1>1 DEF Joins
<1>2. CASE Renames
  BY <1>0, <1>2 DEF Renames
<1>3. CASE Leaves
  <2>1. PICK v \in DOMAIN users : users' = [users EXCEPT ![v].live = FALSE]
    BY <1>3 DEF Leaves
  <2>2. ~users[v].live => users'[v] = users[v]
    BY <1>0, <2>1 DEF UserType
  <2> QED  BY <2>1, <2>2
<1> QED  BY <1>1, <1>2, <1>3, UsersStep

\* The sessions a login saw are rows, and over.
Seen == (\A t \in DOMAIN tokens : tokens[t].found \subseteq DOMAIN tokens) /\ SessionsReplaced

LEMMA CommitFacts ==
    ASSUME Control, NEW r \in Requests, Commit(r)
    PROVE  /\ DOMAIN tokens' = DOMAIN tokens \cup {Len(tokens) + 1}
           /\ Len(tokens') = Len(tokens) + 1 /\ Len(tokens) + 1 \notin DOMAIN tokens
           /\ \A t \in DOMAIN tokens :
                 /\ tokens'[t].user = tokens[t].user /\ tokens'[t].found = tokens[t].found
                 /\ tokens'[t].live = (tokens[t].live /\ t \notin mem[r].ended)
           /\ LET new == tokens'[Len(tokens) + 1]
              IN  new.user = mem[r].user /\ new.live = TRUE /\ new.found = mem[r].found
           /\ \A x \in mem[r].found : /\ x \in DOMAIN tokens
                                      /\ tokens[x].user = mem[r].user
                                      /\ x \in mem[r].ended \/ ~tokens[x].live
           /\ mem[r].ended \subseteq mem[r].found
<1>0. /\ DOMAIN tokens' = DOMAIN tokens \cup {Len(tokens) + 1}
      /\ Len(tokens') = Len(tokens) + 1 /\ Len(tokens) + 1 \notin DOMAIN tokens
      /\ \A t \in DOMAIN tokens :
            tokens'[t] = [tokens[t] EXCEPT !.live = @ /\ t \notin mem[r].ended]
      /\ tokens'[Len(tokens) + 1] = NewRow(r)
  BY CommitTokens
<1>1. \A t \in DOMAIN tokens :
         /\ tokens'[t].user = tokens[t].user /\ tokens'[t].found = tokens[t].found
         /\ tokens'[t].live = (tokens[t].live /\ t \notin mem[r].ended)
  BY <1>0, TokenFacts DEF Control, TokenType
<1>2. HandlerOK(r) /\ pc[r] = "commit"
  BY DEF Commit, Control, Handlers
<1>3. LET new == tokens'[Len(tokens) + 1]
      IN  new.user = mem[r].user /\ new.live = TRUE /\ new.found = mem[r].found
  BY <1>0 DEF NewRow
<1>4. /\ \A x \in mem[r].found : /\ x \in DOMAIN tokens
                                 /\ tokens[x].user = mem[r].user
                                 /\ x \in mem[r].ended \/ ~tokens[x].live
      /\ mem[r].ended \subseteq mem[r].found
  BY <1>2 DEF HandlerOK
<1> QED  BY <1>0, <1>1, <1>3, <1>4

LEMMA StepKeepsSeen ==
    ASSUME Control, Seen, [Next]_vars
    PROVE  Seen'
<1>1. CASE UNCHANGED tokens
  BY <1>1 DEF Seen, SessionsReplaced
<1>2. ASSUME NEW r \in Requests, Commit(r)  PROVE Seen'
  <2> DEFINE n == Len(tokens) + 1
  <2>0. /\ DOMAIN tokens' = DOMAIN tokens \cup {n}
        /\ \A t \in DOMAIN tokens :
              /\ tokens'[t].found = tokens[t].found
              /\ tokens'[t].live = (tokens[t].live /\ t \notin mem[r].ended)
        /\ tokens'[n].found = mem[r].found
        /\ \A x \in mem[r].found :
              x \in DOMAIN tokens /\ (x \in mem[r].ended \/ ~tokens[x].live)
    BY <1>2, CommitFacts
  <2> HIDE DEF n
  <2>1. ASSUME NEW t \in DOMAIN tokens', NEW x \in tokens'[t].found
        PROVE  x \in DOMAIN tokens' /\ ~tokens'[x].live
    <3>1. CASE t \in DOMAIN tokens
      BY <2>0, <2>1, <3>1 DEF Seen, SessionsReplaced
    <3>2. CASE t = n
      BY <2>0, <2>1, <3>2
    <3> QED  BY <2>0, <2>1, <3>1, <3>2
  <2> QED  BY <2>1 DEF Seen, SessionsReplaced
<1> QED  BY <1>1, <1>2, TokensStep

LEMMA StepEndsByLogin ==
    ASSUME Control, [Next]_vars
    PROVE  \A t \in DOMAIN tokens :
              tokens[t].live /\ ~tokens'[t].live =>
                  /\ Len(tokens') = Len(tokens) + 1
                  /\ tokens'[Len(tokens')].user = tokens[t].user
                  /\ tokens'[Len(tokens')].live
<1>1. ASSUME NEW r \in Requests, Commit(r), NEW t \in DOMAIN tokens,
             tokens[t].live, ~tokens'[t].live
      PROVE  /\ Len(tokens') = Len(tokens) + 1
             /\ tokens'[Len(tokens')].user = tokens[t].user
             /\ tokens'[Len(tokens')].live
  <2>1. t \in mem[r].found
    BY <1>1, CommitFacts
  <2> QED  BY <1>1, <2>1, CommitFacts
<1> QED  BY <1>1, TokensStep

-----------------------------------------------------------------------------
(* Theorems.                                                                *)

\* Types, connections, handlers and both tables, in every state.
THEOREM Invariance == Spec => []IInv
<1>1. Init => Control /\ EmailsUnique /\ Seen
  BY InitControl DEF Init, EmailsUnique, Seen, SessionsReplaced
<1>2. (Control /\ EmailsUnique /\ Seen) /\ [Next]_vars => (Control /\ EmailsUnique /\ Seen)'
  BY NextKeepsControl, StepKeepsEmails, StepKeepsSeen
<1>3. Control /\ EmailsUnique /\ Seen => IInv
  BY DEF Control, Handlers, Seen, IInv, TypeOK
<1> QED  BY <1>1, <1>2, <1>3, PTL DEF Spec

LEMMA IInvControl == IInv => Control
BY DEF IInv, Control, Handlers, TypeOK

\* Tables, connections and locals keep their types (entity.User,
\* entity.RefreshToken, the locals of the user service).
THEOREM TypeCorrect == Spec => []TypeOK
<1>1. IInv => TypeOK
  BY DEF IInv
<1> QED  BY <1>1, Invariance, PTL

\* No path of a login or a refresh keeps its connection, whatever fails on it and
\* however many run at a time (the rollbacks and commits of userService).
THEOREM ConnectionsReturned == Spec => []OnlyDeleteLeaks
<1>1. IInv => OnlyDeleteLeaks
  BY DEF IInv
<1> QED  BY <1>1, Invariance, PTL

\* No two accounts have one email, however registrations and updates overlap
\* (CheckEmail, RegisterUser, UpdateUser and the unique index).
THEOREM EmailsStayUnique == Spec => []EmailsUnique
<1>1. IInv => EmailsUnique
  BY DEF IInv
<1> QED  BY <1>1, Invariance, PTL

\* A login ends every session that was live when its DeleteByUserID began, however
\* many logins of that user overlap.
THEOREM LoginReplaces == Spec => []SessionsReplaced
<1>1. IInv => SessionsReplaced
  BY DEF IInv
<1> QED  BY <1>1, Invariance, PTL

\* No update or registration touches an account that was deleted.
THEOREM DeletedStay == Spec => DeletedUserKept
<1>1. IInv /\ [Next]_vars =>
         [\A u \in DOMAIN users : ~users[u].live => users'[u] = users[u]]_vars
  BY IInvControl, StepKeepsDeleted
<1> QED  BY <1>1, Invariance, PTL DEF Spec, DeletedUserKept

\* A session ends in no other step than the one that gives its user a new one.
THEOREM SessionsEndByLogin == Spec => SessionEndsByLogin
<1>1. IInv /\ [Next]_vars =>
         [\A t \in DOMAIN tokens :
             tokens[t].live /\ ~tokens'[t].live =>
                 /\ Len(tokens') = Len(tokens) + 1
                 /\ tokens'[Len(tokens')].user = tokens[t].user
                 /\ tokens'[Len(tokens')].live]_vars
  BY IInvControl, StepEndsByLogin
<1> QED  BY <1>1, Invariance, PTL DEF Spec, SessionEndsByLogin
-----------------------------------------------------------------------------
(* Accounts implements SessionLedger: EndSessions is Look, Commit is        *)
(* Replace, an answer without a commit is GiveUp, the writes to users are   *)
(* Join, Rename and Leave, the end of the process is Forget, and every      *)
(* other step is invisible.                                                 *)

Looks == {"lock_rows", "commit"}

LookAt(r) == IF pc[r] \in Looks THEN [user |-> mem[r].user, saw |-> mem[r].found] ELSE None

LEMMA LookingIs == LedgerLooking = [r \in Requests |-> LookAt(r)]
BY DEF LedgerLooking, LookAt, Looks

-----------------------------------------------------------------------------
(* What the control operators do to the logins the ledger sees.             *)

LEMMA StartLooks ==
    ASSUME Control, NEW r \in Requests, NEW j, NEW step, step \notin Looks, Start(r, j, step)
    PROVE  LedgerLooking' = LedgerLooking
<1>1. \A q \in Requests : LookAt(q)' = LookAt(q)
  BY DEF Start, LookAt, Looks, Control, Handlers, LocalOK
<1> QED  BY <1>1 DEF LedgerLooking, LookAt, Looks

LEMMA GotoLooks ==
    ASSUME Control, NEW r \in Requests, NEW step, NEW m, Goto(r, step, m)
    PROVE  LedgerLooking' = [LedgerLooking EXCEPT ![r] =
              IF step \in Looks THEN [user |-> m.user, saw |-> m.found] ELSE None]
BY DEF Goto, LedgerLooking, Looks, Control, Handlers, LocalOK

LEMMA AnswerLooks ==
    ASSUME Control, NEW r \in Requests, NEW answer, Answer(r, answer)
    PROVE  LedgerLooking' = [LedgerLooking EXCEPT ![r] = None]
BY DEF Answer, LedgerLooking, Looks, Control, Handlers, LocalOK

LEMMA NotLookingYet ==
    ASSUME Control, NEW r \in Requests, pc[r] \notin Looks
    PROVE  /\ LedgerLooking[r] = None
           /\ [LedgerLooking EXCEPT ![r] = None] = LedgerLooking
BY DEF LedgerLooking, Looks

LEMMA SessionsSame == UNCHANGED tokens => UNCHANGED LedgerSessions
BY DEF LedgerSessions

-----------------------------------------------------------------------------
(* Steps that leave the tables alone.                                       *)

\* What a ledger that looks on sees of a step that writes no row.
Unseen == UNCHANGED <<users, LedgerSessions, LedgerLooking, access>>

LEMMA RequestUnseen ==
    ASSUME Control, NEW r \in Requests, Request(r)
    PROVE  Unseen
<1>1. \E j, step : step \notin Looks /\ Start(r, j, step)
  BY DEF Request, Register, SendVerificationEmail, VerifyEmail, Login, Refresh,
     Authenticated, Looks
<1>2. PICK j, step : step \notin Looks /\ Start(r, j, step)
  BY <1>1
<1>3. UNCHANGED LedgerLooking
  BY <1>2, StartLooks
<1> QED  BY <1>2, <1>3, SessionsSame DEF Start, tables, Unseen

LEMMA AnswerGivesUp ==
    ASSUME Control, NEW r \in Requests, UNCHANGED <<tables, access>>,
           NEW answer, Return(r, answer) \/ Rollback(r, answer)
    PROVE  Sessions!GiveUp(r)
<1>1. Answer(r, answer)
  BY DEF Return, Rollback
<1> QED  BY <1>1, AnswerLooks, SessionsSame DEF Sessions!GiveUp, tables

\* Before EndSessions nobody sees where a handler goes on.
LEMMA GotoUnseen ==
    ASSUME Control, NEW r \in Requests, UNCHANGED <<tables, access>>,
           NEW step, NEW m, Goto(r, step, m), pc[r] \notin Looks, step \notin Looks
    PROVE  Unseen
<1>1. UNCHANGED LedgerLooking
  BY GotoLooks, NotLookingYet
<1> QED  BY <1>1, SessionsSame DEF tables, Unseen

LEMMA LockUnseen ==
    ASSUME Control, NEW r \in Requests, LockRows(r)
    PROVE  Unseen
<1> DEFINE m == [mem[r] EXCEPT !.ended = {t \in mem[r].found : tokens[t].live}]
<1>1. m.user = mem[r].user /\ m.found = mem[r].found
  BY Locals DEF Control, MemType
<1>2. Goto(r, "commit", m) /\ pc[r] = "lock_rows"
  BY DEF LockRows
<1> HIDE DEF m
<1>3. LedgerLooking' = [LedgerLooking EXCEPT ![r] = [user |-> mem[r].user, saw |-> mem[r].found]]
  BY <1>1, <1>2, GotoLooks DEF Looks
<1>4. LedgerLooking[r] = [user |-> mem[r].user, saw |-> mem[r].found]
  BY <1>2 DEF LedgerLooking
<1>5. UNCHANGED LedgerLooking
  BY <1>3, <1>4 DEF LedgerLooking
<1> QED  BY <1>5, SessionsSame DEF LockRows, tables, Unseen

Reads(r) == \/ CheckEmail(r) \/ FindEmail(r) \/ Decrypt(r) \/ BeginTx(r) \/ FindLogin(r)
            \/ FindToken(r) \/ FindUser(r) \/ DbFails(r)

LEMMA ReadMaps ==
    ASSUME Control, NEW r \in Requests, Reads(r)
    PROVE  Unseen \/ Sessions!GiveUp(r)
<1>1. UNCHANGED <<tables, access>>
  BY DEF Reads, CheckEmail, FindEmail, Decrypt, BeginTx, FindLogin, FindToken, FindUser,
     DbFails
<1>2. \/ \E answer : Return(r, answer) \/ Rollback(r, answer)
      \/ \E step, m : Goto(r, step, m) /\ pc[r] \notin Looks /\ step \notin Looks
  <2>1. CASE CheckEmail(r) \/ FindEmail(r) \/ Decrypt(r) \/ DbFails(r)
    BY <2>1 DEF CheckEmail, FindEmail, Decrypt, DbFails, Looks
  <2>2. CASE BeginTx(r)
    <3>1. AfterBegin(r) \notin Looks
      BY DEF AfterBegin, Looks
    <3> QED  BY <2>2, <3>1 DEF BeginTx, Looks
  <2>3. CASE FindLogin(r) \/ FindToken(r)
    <3>1. pc[r] \notin Looks
      BY <2>3 DEF FindLogin, FindToken, Looks
    <3>2. (\E answer : Rollback(r, answer)) \/ (\E u : Generate(r, u))
      BY <2>3 DEF FindLogin, FindToken
    <3>3. ASSUME NEW u, Generate(r, u)
          PROVE  \E step, m : Goto(r, step, m) /\ step \notin Looks
      BY <3>3 DEF Generate, Looks
    <3> QED  BY <3>1, <3>2, <3>3
  <2>4. CASE FindUser(r)
    <3>1. AfterFind(r) \notin Looks
      BY DEF AfterFind, Looks
    <3> QED  BY <2>4, <3>1 DEF FindUser, Looks
  <2> QED  BY <2>1, <2>2, <2>3, <2>4 DEF Reads
<1> QED  BY <1>1, <1>2, AnswerGivesUp, GotoUnseen
-----------------------------------------------------------------------------
(* Steps the ledger sees.                                                   *)

LEMMA WriteMaps ==
    ASSUME Control, NEW r \in Requests, [Next]_vars,
           SaveUser(r) \/ UpdateUser(r) \/ DeleteUser(r)
    PROVE  \/ Unseen \/ Sessions!Join
           \/ \E u \in DOMAIN users : Sessions!Rename(u) \/ Sessions!Leave(u)
<1>1. UNCHANGED <<tokens, access>> /\ pc[r] \notin Looks
  BY DEF SaveUser, UpdateUser, DeleteUser, Looks
<1>2. \E answer : Answer(r, answer)
  BY DEF SaveUser, UpdateUser, DeleteUser, Return
<1>3. UNCHANGED <<LedgerSessions, LedgerLooking, access>>
  BY <1>1, <1>2, AnswerLooks, NotLookingYet, SessionsSame
<1>4. /\ users = [u \in DOMAIN users |-> users[u]]
      /\ \A u \in DOMAIN users : users[u] \in UserType
  BY UserFacts DEF Control
<1>5. CASE Joins
  BY <1>3, <1>5 DEF Joins, Sessions!Join, Sessions!Free
<1>6. CASE Renames
  <2>1. PICK e \in Emails, v \in DOMAIN users :
              /\ users[v].live /\ \A u \in DOMAIN users : u # v => users[u].email # e
              /\ users' = [users EXCEPT ![v].email = e]
    BY <1>6 DEF Renames
  <2>2. CASE users[v].email = e
    <3>1. [users[v] EXCEPT !.email = e] = users[v]
      BY <1>4, <2>2 DEF UserType
    <3>2. UNCHANGED users
      BY <1>4, <2>1, <3>1
    <3> QED  BY <1>3, <3>2 DEF Unseen
  <2>3. CASE users[v].email # e
    BY <1>3, <2>1, <2>3 DEF Sessions!Rename, Sessions!Free
  <2> QED  BY <2>2, <2>3
<1>7. CASE Leaves
  <2>1. PICK v \in DOMAIN users : users' = [users EXCEPT ![v].live = FALSE]
    BY <1>7 DEF Leaves
  <2>2. CASE users[v].live
    BY <1>3, <2>1, <2>2 DEF Sessions!Leave
  <2>3. CASE ~users[v].live
    <3>1. [users[v] EXCEPT !.live = FALSE] = users[v]
      BY <1>4, <2>3 DEF UserType
    <3>2. UNCHANGED users
      BY <1>4, <2>1, <3>1
    <3> QED  BY <1>3, <3>2 DEF Unseen
  <2> QED  BY <2>2, <2>3
<1> QED  BY <1>3, <1>5, <1>6, <1>7, UsersStep DEF Unseen

LEMMA LookMaps ==
    ASSUME Control, NEW r \in Requests, EndSessions(r)
    PROVE  \E u \in DOMAIN users : Sessions!Look(r, u)
<1> DEFINE m == [mem[r] EXCEPT !.found = LiveTokens(mem[r].user)]
<1>1. /\ pc[r] = "end_sessions" /\ mem[r].user \in DOMAIN users
      /\ UNCHANGED <<users, tokens, access>>
  BY DEF EndSessions, Control, Handlers, HandlerOK, tables
<1>2. m.user = mem[r].user /\ m.found = LiveTokens(mem[r].user)
  BY Locals DEF Control, MemType
<1>3. Goto(r, "lock_rows", m)
  BY DEF EndSessions
<1> HIDE DEF m
<1>4. LedgerLooking' = [LedgerLooking EXCEPT ![r] =
                          [user |-> mem[r].user, saw |-> LiveTokens(mem[r].user)]]
  BY <1>2, <1>3, GotoLooks DEF Looks
<1>5. Sessions!LiveSessions(mem[r].user) = LiveTokens(mem[r].user)
  BY DEF Sessions!LiveSessions, LiveTokens, LedgerSessions
<1>6. LedgerLooking[r] = None
  BY <1>1, NotLookingYet DEF Looks
<1> QED  BY <1>1, <1>4, <1>5, <1>6, SessionsSame DEF Sessions!Look

SessionType == [user : Nat, live : BOOLEAN]

LEMMA ReplaceMaps ==
    ASSUME Control, NEW r \in Requests, Commit(r)
    PROVE  Sessions!Replace(r)
<1> DEFINE saw  == mem[r].found
           new  == [user |-> mem[r].user, live |-> TRUE]
           rest == [t \in DOMAIN LedgerSessions |->
                      [LedgerSessions[t] EXCEPT !.live = @ /\ t \notin saw]]
<1>1. LedgerLooking[r] = [user |-> mem[r].user, saw |-> saw] /\ pc[r] = "commit"
  BY DEF Commit, LedgerLooking
<1>2. LedgerLooking[r] # None
  BY <1>1, Locals, AccountsAssumption DEF Control, MemType
<1>3. /\ Len(tokens) \in Nat /\ DOMAIN tokens = 1 .. Len(tokens)
      /\ \A t \in DOMAIN tokens : tokens[t].user \in Nat /\ tokens[t].live \in BOOLEAN
  BY TokenFacts DEF Control, TokenType
<1>4. \A t \in DOMAIN tokens :
         rest[t] = [user |-> tokens[t].user, live |-> tokens[t].live /\ t \notin saw]
  BY DEF LedgerSessions
<1>5. \A t \in DOMAIN tokens : LedgerSessions'[t] = rest[t]
  <2>1. ASSUME NEW t \in DOMAIN tokens  PROVE LedgerSessions'[t] = rest[t]
    <3>1. /\ t \in DOMAIN tokens' /\ tokens'[t].user = tokens[t].user
          /\ tokens'[t].live = (tokens[t].live /\ t \notin mem[r].ended)
      BY CommitFacts
    <3>2. LedgerSessions'[t] = [user |-> tokens[t].user,
                                live |-> tokens[t].live /\ t \notin mem[r].ended]
      BY <3>1 DEF LedgerSessions
    <3>3. (tokens[t].live /\ t \notin mem[r].ended) <=> (tokens[t].live /\ t \notin saw)
      BY CommitFacts
    <3> QED  BY <1>4, <3>2, <3>3
  <2> QED  BY <2>1
<1>6. LedgerSessions'[Len(tokens) + 1] = new
  BY CommitFacts DEF LedgerSessions
<1>7. rest \in Seq(SessionType) /\ Len(rest) = Len(tokens) /\ new \in SessionType
  <2>1. DOMAIN rest = DOMAIN tokens /\ rest = [t \in DOMAIN rest |-> rest[t]]
    BY DEF LedgerSessions
  <2>2. new \in SessionType
    BY Locals DEF SessionType, Control, MemType
  <2> HIDE DEF rest, new
  <2>3. \A t \in DOMAIN tokens : rest[t] \in SessionType
    <3>1. \A t \in DOMAIN tokens : (tokens[t].live /\ t \notin saw) \in BOOLEAN
      BY <1>3
    <3>2. \A u \in Nat, b \in BOOLEAN : [user |-> u, live |-> b] \in SessionType
      BY DEF SessionType
    <3> QED  BY <1>3, <1>4, <3>1, <3>2, Zenon
  <2> QED  BY <1>3, <2>1, <2>2, <2>3
<1>8. LedgerSessions' = Append(rest, new)
  <2>1. DOMAIN LedgerSessions' = 1 .. Len(tokens) + 1
    <3>1. DOMAIN LedgerSessions' = DOMAIN tokens \cup {Len(tokens) + 1}
      BY CommitFacts DEF LedgerSessions
    <3> QED  BY <1>3, <3>1
  <2> HIDE DEF rest, new
  <2>2. /\ Append(rest, new) \in Seq(SessionType) /\ Len(Append(rest, new)) = Len(tokens) + 1
        /\ \A t \in 1 .. Len(tokens) : Append(rest, new)[t] = rest[t]
        /\ Append(rest, new)[Len(tokens) + 1] = new
    BY <1>7, AppendProperties
  <2>3. \A t \in 1 .. Len(tokens) + 1 : LedgerSessions'[t] = Append(rest, new)[t]
    BY <1>3, <1>5, <1>6, <2>2
  <2>4. LedgerSessions' = [t \in 1 .. Len(tokens) + 1 |-> LedgerSessions'[t]]
    BY <2>1 DEF LedgerSessions
  <2>5. Append(rest, new) = [t \in 1 .. Len(tokens) + 1 |-> Append(rest, new)[t]]
    BY <2>2, LenProperties
  <2> QED  BY <2>3, <2>4, <2>5
<1>9. LedgerLooking' = [LedgerLooking EXCEPT ![r] = None]
  BY AnswerLooks DEF Commit, Rollback
<1>10. access' \in {access, access \cup {mem[r].user}} /\ UNCHANGED users
  BY DEF Commit, GenerateAccessToken
<1> QED  BY <1>1, <1>2, <1>8, <1>9, <1>10 DEF Sessions!Replace

LEMMA RestartMaps ==
    ASSUME Restart
    PROVE  Sessions!Forget
<1>1. LedgerLooking' = [r \in Requests |-> None]
  BY DEF Restart, LedgerLooking
<1> QED  BY <1>1, SessionsSame DEF Restart, tables, Sessions!Forget

-----------------------------------------------------------------------------

LEMMA StepMaps == Control /\ [Next]_vars => [Sessions!SNext]_(Sessions!svars)
<1> SUFFICES ASSUME Control, [Next]_vars  PROVE [Sessions!SNext]_(Sessions!svars)
  OBVIOUS
<1>1. Unseen => UNCHANGED Sessions!svars
  BY DEF Unseen, Sessions!svars
<1>2. ASSUME NEW r \in Requests, Request(r)  PROVE Unseen
  BY <1>2, RequestUnseen
<1>3. ASSUME NEW r \in Requests, Step(r) \/ DbFails(r)  PROVE Unseen \/ Sessions!SNext
  <2>1. CASE Reads(r)
    BY <2>1, ReadMaps DEF Sessions!SNext
  <2>2. CASE SaveUser(r) \/ UpdateUser(r) \/ DeleteUser(r)
    BY <2>2, WriteMaps DEF Sessions!SNext
  <2>3. CASE EndSessions(r)
    BY <2>3, LookMaps DEF Sessions!SNext
  <2>4. CASE LockRows(r)
    BY <2>4, LockUnseen
  <2>5. CASE Commit(r)
    BY <2>5, ReplaceMaps DEF Sessions!SNext
  <2> QED  BY <1>3, <2>1, <2>2, <2>3, <2>4, <2>5 DEF Step, Reads
<1>4. CASE Restart
  BY <1>4, RestartMaps DEF Sessions!SNext
<1>5. CASE UNCHANGED vars
  <2>1. Unseen
    BY <1>5 DEF vars, Unseen, LedgerSessions, LedgerLooking
  <2> QED  BY <1>1, <2>1
<1> QED  BY <1>1, <1>2, <1>3, <1>4, <1>5 DEF Next

LEMMA InitMaps == Init => Sessions!SInit
BY DEF Init, Sessions!SInit, LedgerSessions, LedgerLooking

\* The service implements the ledger of sessions: with any number of logins,
\* registrations and deletions at a time, failures and restarts, its tables are
\* those of a service that replaces a user's sessions in one step.
THEOREM SessionsRefined == Spec => ImplementsSessions
<1>1. IInv /\ [Next]_vars => [Sessions!SNext]_(Sessions!svars)
  BY IInvControl, StepMaps
<1> QED  BY <1>1, InitMaps, Invariance, PTL DEF Spec, ImplementsSessions, Sessions!SSpec
=============================================================================
