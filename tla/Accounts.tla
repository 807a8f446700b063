------------------------------ MODULE Accounts ------------------------------
(***************************************************************************)
(* Users and their sessions: registration, verification mails, login,       *)
(* refresh and the three endpoints behind Authenticate, each request a      *)
(* goroutine that takes one SQL statement at a time.  Verify (the login)    *)
(* and RefreshToken run in a READ COMMITTED transaction on a connection of  *)
(* their own; Delete opens a transaction too, uses it for nothing and never *)
(* ends it.                                                                 *)
(***************************************************************************)
EXTENDS Naturals, Sequences, FiniteSets

CONSTANTS Requests,        \* slots: how many requests run at a time
          Emails,
          Events,          \* the faults that happen
          MaxUsers,        \* bound: rows ever created in users
          MaxTokens,       \* bound: refresh tokens ever generated
          MaxConnections,  \* what the database server accepts
          None

ASSUME AccountsAssumption ==
    /\ None \notin Emails /\ None \notin [user : Nat, saw : SUBSET Nat]
    /\ MaxUsers \in Nat /\ MaxTokens \in Nat /\ MaxConnections \in Nat

VARIABLES
    users,      \* table users; an index is the id and stands for the password
    tokens,     \* table refresh_tokens, the committed rows
    secrets,    \* how many refresh tokens were generated
    access,     \* the users to whom a login gave an access token
    open,       \* connections that hold a transaction
    abandoned,  \* those among them that no handler will ever end
    pc, job, mem, reply

tables == <<users, tokens>>
pool   == <<open, abandoned>>
local  == <<pc, job, mem, reply>>
vars   == <<users, tokens, secrets, access, open, abandoned, pc, job, mem, reply>>

-----------------------------------------------------------------------------
(* Strings: the k-th random token, and what bcrypt makes of a string.       *)

RefreshString(k) == [form |-> "plain", of |-> k]

HashPassword(s) == [s EXCEPT !.form = "bcrypt"]

\* hex.DecodeString(KEY) fails: the key in the code ends with "!".
KeyDecodes == FALSE

\* A signed token of fifteen minutes: whoever was given one holds it.
GenerateAccessToken(u) == access' = access \cup {u}
ValidateToken(u)       == u \in access

UserType  == [email : Emails, live : BOOLEAN]
\* found: the live sessions the login of this row saw (history).
TokenType == [user : Nat, stored : [form : {"plain", "bcrypt"}, of : Nat],
              live : BOOLEAN, found : SUBSET Nat]

Transaction == {"find_login", "find_token", "end_sessions", "lock_rows", "commit"}
Steps == Transaction \cup {"idle", "check_email", "save_user", "find_email", "decrypt",
                           "begin", "find_user", "update_user", "delete_user"}
Ops     == {"none", "register", "send_mail", "verify_email", "login", "refresh",
            "me", "update", "delete"}
JobType == [op : Ops, email : Emails \cup {None}, right : BOOLEAN, user : Nat, sent : Nat]
MemType == [tx : BOOLEAN, user : Nat, secret : Nat, found : SUBSET Nat, ended : SUBSET Nat]
Replies == {"none", "ok", "failed", "invalid"}

NoJob == [op |-> "none", email |-> None, right |-> FALSE, user |-> 0, sent |-> 0]
NoMem == [tx |-> FALSE, user |-> 0, secret |-> 0, found |-> {}, ended |-> {}]

Init ==
    /\ users = <<>> /\ tokens = <<>> /\ secrets = 0 /\ access = {}
    /\ open = 0 /\ abandoned = 0
    /\ pc = [r \in Requests |-> "idle"]
    /\ job = [r \in Requests |-> NoJob]
    /\ mem = [r \in Requests |-> NoMem]
    /\ reply = [r \in Requests |-> "none"]

-----------------------------------------------------------------------------
(* Control of a request, and its transaction.                               *)

Start(r, j, step) ==
    /\ pc[r] = "idle"
    /\ pc' = [pc EXCEPT ![r] = step]
    /\ job' = [job EXCEPT ![r] = j]
    /\ reply' = [reply EXCEPT ![r] = "none"]
    /\ UNCHANGED <<mem, tables, secrets, access, pool>>

Goto(r, step, m) ==
    /\ pc' = [pc EXCEPT ![r] = step]
    /\ mem' = [mem EXCEPT ![r] = m]
    /\ UNCHANGED <<job, reply>>

Answer(r, answer) ==
    /\ pc' = [pc EXCEPT ![r] = "idle"]
    /\ mem' = [mem EXCEPT ![r] = NoMem]
    /\ job' = [job EXCEPT ![r] = NoJob]
    /\ reply' = [reply EXCEPT ![r] = answer]

\* tx.Rollback() gives the connection back.
Rollback(r, answer) ==
    /\ open' = open - 1 /\ UNCHANGED abandoned
    /\ Answer(r, answer)

\* The handler returns; whatever transaction it had opened stays as it is.
Return(r, answer) ==
    /\ abandoned' = IF mem[r].tx THEN abandoned + 1 ELSE abandoned
    /\ UNCHANGED open
    /\ Answer(r, answer)

\* A statement outside a transaction needs a connection while it runs.
Connects == open < MaxConnections

LiveUser(u)   == u \in DOMAIN users /\ users[u].live
LiveTokens(u) == {t \in DOMAIN tokens : tokens[t].user = u /\ tokens[t].live}

-----------------------------------------------------------------------------
(* POST /api/user                                                           *)

RoomForUser == Len(users) + Cardinality({q \in Requests :
                   pc[q] \in {"check_email", "save_user"}}) < MaxUsers

Register(r) ==
    /\ RoomForUser
    /\ \E e \in Emails :
          Start(r, [NoJob EXCEPT !.op = "register", !.email = e], "check_email")

\* CheckEmail sees no soft-deleted row.
CheckEmail(r) ==
    /\ pc[r] = "check_email"
    /\ IF Connects /\ \A u \in DOMAIN users : ~(users[u].live /\ users[u].email = job[r].email)
       THEN Goto(r, "save_user", mem[r]) /\ UNCHANGED pool
       ELSE Return(r, "failed")
    /\ UNCHANGED <<tables, secrets, access>>

\* Mutation: the column has no unique index.
MutantNotUnique(e, self) == FALSE

\* The unique index sees soft-deleted rows too.
Taken(e, self) == \E u \in DOMAIN users : u # self /\ users[u].email = e

\* The row is there, then no verification mail can be made.
SaveUser(r) ==
    /\ pc[r] = "save_user"
    /\ IF Connects /\ ~Taken(job[r].email, 0)
       THEN /\ users' = Append(users, [email |-> job[r].email, live |-> TRUE])
            /\ Return(r, IF KeyDecodes THEN "ok" ELSE "failed")
       ELSE UNCHANGED users /\ Return(r, "failed")
    /\ UNCHANGED <<tokens, secrets, access>>

-----------------------------------------------------------------------------
(* POST /api/user/send_verification_email and /api/user/verify_email        *)

SendVerificationEmail(r) ==
    \E e \in Emails :
        Start(r, [NoJob EXCEPT !.op = "send_mail", !.email = e], "find_email")

FindEmail(r) ==
    /\ pc[r] = "find_email"
    /\ Return(r, IF /\ Connects /\ KeyDecodes
                    /\ \E u \in DOMAIN users : users[u].live /\ users[u].email = job[r].email
                 THEN "ok" ELSE "failed")
    /\ UNCHANGED <<tables, secrets, access>>

VerifyEmail(r) == Start(r, [NoJob EXCEPT !.op = "verify_email"], "decrypt")

\* With a key that does not decode no token is good, whatever it is.
Decrypt(r) ==
    /\ pc[r] = "decrypt" /\ ~KeyDecodes
    /\ Return(r, "failed")
    /\ UNCHANGED <<tables, secrets, access>>

-----------------------------------------------------------------------------
(* POST /api/user/login and POST /api/user/refresh                          *)

RoomForToken == secrets + Cardinality({q \in Requests :
                    \/ pc[q] \in {"find_login", "find_token"}
                    \/ pc[q] = "begin" /\ job[q].op # "delete"}) < MaxTokens

Login(r) ==
    \E e \in Emails, right \in BOOLEAN :
        /\ right => RoomForToken
        /\ Start(r, [NoJob EXCEPT !.op = "login", !.email = e, !.right = right], "begin")

\* A client sends back a token that a login stored.
Refresh(r) ==
    /\ RoomForToken
    /\ \E t \in DOMAIN tokens :
          Start(r, [NoJob EXCEPT !.op = "refresh", !.sent = tokens[t].stored.of], "begin")

AfterBegin(r) == CASE job[r].op = "login"   -> "find_login"
                   [] job[r].op = "refresh" -> "find_token"
                   [] OTHER                 -> "find_user"

\* Mutation: Begin waits for a connection to come back.
MutantWaits(r) ==
    /\ pc[r] = "begin"
    /\ Connects
    /\ open' = open + 1 /\ UNCHANGED abandoned
    /\ Goto(r, AfterBegin(r), [mem[r] EXCEPT !.tx = TRUE])
    /\ UNCHANGED <<tables, secrets, access>>

\* s.db.Begin(): when the server refuses, the first statement in the transaction
\* reports the error; Delete has no statement in it and does not notice.
BeginTx(r) ==
    /\ pc[r] = "begin"
    /\ \/ /\ Connects
          /\ open' = open + 1 /\ UNCHANGED abandoned
          /\ Goto(r, AfterBegin(r), [mem[r] EXCEPT !.tx = TRUE])
       \/ /\ ~Connects
          /\ IF job[r].op = "delete" THEN Goto(r, "find_user", mem[r]) /\ UNCHANGED pool
                                     ELSE Return(r, "failed")
    /\ UNCHANGED <<tables, secrets, access>>

\* The two tokens are generated for user u.
Generate(r, u) ==
    /\ secrets' = secrets + 1
    /\ Goto(r, "end_sessions", [mem[r] EXCEPT !.user = u, !.secret = secrets + 1])
    /\ UNCHANGED pool

\* Mutation: a wrong password returns without a rollback.
MutantNoRollback(r) ==
    LET found == {u \in DOMAIN users : users[u].live /\ users[u].email = job[r].email}
    IN  /\ pc[r] = "find_login"
        /\ \/ /\ found = {} \/ ~job[r].right
              /\ Answer(r, "failed") /\ UNCHANGED <<secrets, pool>>
           \/ job[r].right /\ \E u \in found : Generate(r, u)
        /\ UNCHANGED <<tables, access>>

\* Mutation: the error of the lookup is not looked at.
MutantNoSuchUser(r) ==
    /\ pc[r] = "find_login"
    /\ \/ ~job[r].right /\ Rollback(r, "failed") /\ UNCHANGED secrets
       \/ job[r].right /\ \E u \in 0 .. Len(users) :
             /\ u \in DOMAIN users => users[u].live /\ users[u].email = job[r].email
             /\ Generate(r, u)
    /\ UNCHANGED <<tables, access>>

FindLogin(r) ==
    LET found == {u \in DOMAIN users : users[u].live /\ users[u].email = job[r].email}
    IN  /\ pc[r] = "find_login"
        /\ \/ /\ found = {} \/ ~job[r].right
              /\ Rollback(r, "failed") /\ UNCHANGED secrets
           \/ job[r].right /\ \E u \in found : Generate(r, u)
        /\ UNCHANGED <<tables, access>>

\* The column holds the hash, the statement compares it with the token itself.
Matches(sent) == {t \in DOMAIN tokens : tokens[t].live /\ tokens[t].stored = RefreshString(sent)}

FindToken(r) ==
    LET found == {t \in Matches(job[r].sent) : LiveUser(tokens[t].user)}
    IN  /\ pc[r] = "find_token"
        /\ IF found = {} THEN Rollback(r, "invalid") /\ UNCHANGED secrets
                         ELSE \E t \in found : Generate(r, tokens[t].user)
        /\ UNCHANGED <<tables, access>>

\* Mutation: DeleteByUserID is given no transaction.
MutantOutside(r) ==
    /\ pc[r] = "end_sessions"
    /\ tokens' = [t \in DOMAIN tokens |->
                     [tokens[t] EXCEPT !.live = @ /\ t \notin LiveTokens(mem[r].user)]]
    /\ Goto(r, "commit", mem[r])
    /\ UNCHANGED <<users, secrets, access, pool>>

\* DeleteByUserID sees the rows that are committed when it starts.
EndSessions(r) ==
    /\ pc[r] = "end_sessions"
    /\ Goto(r, "lock_rows", [mem[r] EXCEPT !.found = LiveTokens(mem[r].user)])
    /\ UNCHANGED <<tables, secrets, access, pool>>

\* Mutation: rows another transaction is ending are left to it.
MutantSkipLocked(r) ==
    LET held == UNION {mem[q].ended : q \in Requests \ {r}}
    IN  /\ pc[r] = "lock_rows"
        /\ Goto(r, "commit", [mem[r] EXCEPT
              !.ended = {t \in mem[r].found : tokens[t].live} \ held])
        /\ UNCHANGED <<tables, secrets, access, pool>>

\* It waits for the transactions that are ending the same rows, and leaves the
\* rows that are no longer live then.
LockRows(r) ==
    LET held == UNION {mem[q].ended : q \in Requests \ {r}}
    IN  /\ pc[r] = "lock_rows"
        /\ mem[r].found \cap held = {}
        /\ Goto(r, "commit", [mem[r] EXCEPT
              !.ended = {t \in mem[r].found : tokens[t].live}])
        /\ UNCHANGED <<tables, secrets, access, pool>>

\* Mutation: the error of the commit is not looked at.
MutantCommitIgnored(r) ==
    LET row == [user |-> mem[r].user, stored |-> HashPassword(RefreshString(mem[r].secret)),
                live |-> TRUE, found |-> mem[r].found]
    IN  /\ pc[r] = "commit"
        /\ \/ tokens' = Append([t \in DOMAIN tokens |->
                                  [tokens[t] EXCEPT !.live = @ /\ t \notin mem[r].ended]], row)
           \/ "db_fails" \in Events /\ UNCHANGED tokens
        /\ Rollback(r, "ok") /\ GenerateAccessToken(mem[r].user)
        /\ UNCHANGED <<users, secrets>>

\* The new row is inserted and all of it committed; when the connection is lost
\* just then, the error says it was not.
Commit(r) ==
    LET row == [user |-> mem[r].user, stored |-> HashPassword(RefreshString(mem[r].secret)),
                live |-> TRUE, found |-> mem[r].found]
    IN  /\ pc[r] = "commit"
        /\ tokens' = Append([t \in DOMAIN tokens |->
                                [tokens[t] EXCEPT !.live = @ /\ t \notin mem[r].ended]], row)
        /\ \/ Rollback(r, "ok") /\ GenerateAccessToken(mem[r].user)
           \/ "db_fails" \in Events /\ Rollback(r, "failed") /\ UNCHANGED access
        /\ UNCHANGED <<users, secrets>>

-----------------------------------------------------------------------------
(* GET /api/user/me, PATCH and DELETE /api/user, behind Authenticate.       *)

\* The token names the user, no row is read.  It lasts fifteen minutes: when
\* a client stops using it is left open.
Authenticated(r) ==
    \E u \in {v \in DOMAIN users : ValidateToken(v)} :
        \/ Start(r, [NoJob EXCEPT !.op = "me", !.user = u], "find_user")
        \/ Start(r, [NoJob EXCEPT !.op = "delete", !.user = u], "begin")
        \/ \E e \in Emails :
              Start(r, [NoJob EXCEPT !.op = "update", !.user = u, !.email = e], "find_user")

AfterFind(r) == IF job[r].op = "update" THEN "update_user" ELSE "delete_user"

FindUser(r) ==
    /\ pc[r] = "find_user"
    /\ CASE ~Connects \/ ~LiveUser(job[r].user) -> Return(r, "failed")
         [] job[r].op = "me"                    -> Return(r, "ok")
         [] OTHER -> Goto(r, AfterFind(r), mem[r]) /\ UNCHANGED pool
    /\ UNCHANGED <<tables, secrets, access>>

\* Mutation: the row is written as it was found.
MutantStale(r) ==
    /\ pc[r] = "update_user"
    /\ IF Connects /\ ~Taken(job[r].email, job[r].user)
       THEN users' = [users EXCEPT ![job[r].user] = [email |-> job[r].email, live |-> TRUE]]
            /\ Return(r, "ok")
       ELSE UNCHANGED users /\ Return(r, "failed")
    /\ UNCHANGED <<tokens, secrets, access>>

\* Updates touches live rows only, and no row at all is not an error.
UpdateUser(r) ==
    /\ pc[r] = "update_user"
    /\ IF Connects /\ ~(LiveUser(job[r].user) /\ Taken(job[r].email, job[r].user))
       THEN /\ users' = [u \in DOMAIN users |->
                  IF u = job[r].user /\ users[u].live
                  THEN [users[u] EXCEPT !.email = job[r].email] ELSE users[u]]
            /\ Return(r, "ok")
       ELSE UNCHANGED users /\ Return(r, "failed")
    /\ UNCHANGED <<tokens, secrets, access>>

DeleteUser(r) ==
    /\ pc[r] = "delete_user"
    /\ IF Connects
       THEN users' = [users EXCEPT ![job[r].user].live = FALSE] /\ Return(r, "ok")
       ELSE UNCHANGED users /\ Return(r, "failed")
    /\ UNCHANGED <<tokens, secrets, access>>

-----------------------------------------------------------------------------
(* Faults.                                                                  *)

\* A statement fails: the request's context is cancelled or the server is gone.
DbFails(r) ==
    /\ "db_fails" \in Events
    /\ \/ pc[r] \in Transaction /\ Rollback(r, "failed")
       \/ /\ pc[r] \in {"check_email", "save_user", "find_email", "find_user",
                        "update_user", "delete_user"}
          /\ Return(r, "failed")
    /\ UNCHANGED <<tables, secrets, access>>

\* The process ends: the server rolls back what was open.
Restart ==
    /\ "crash" \in Events
    /\ open' = 0 /\ abandoned' = 0
    /\ pc' = [r \in Requests |-> "idle"]
    /\ job' = [r \in Requests |-> NoJob]
    /\ mem' = [r \in Requests |-> NoMem]
    /\ reply' = [r \in Requests |-> "none"]
    /\ UNCHANGED <<tables, secrets, access>>

-----------------------------------------------------------------------------
Request(r) == Register(r) \/ SendVerificationEmail(r) \/ VerifyEmail(r) \/ Login(r) \/ Refresh(r) \/ Authenticated(r)

Step(r) == \/ CheckEmail(r) \/ SaveUser(r) \/ FindEmail(r) \/ Decrypt(r)
           \/ BeginTx(r) \/ FindLogin(r) \/ FindToken(r)
           \/ EndSessions(r) \/ LockRows(r) \/ Commit(r)
           \/ FindUser(r) \/ UpdateUser(r) \/ DeleteUser(r)

Next == \/ \E r \in Requests : Request(r) \/ Step(r) \/ DbFails(r)
        \/ Restart

Spec == Init /\ [][Next]_vars

\* The Go scheduler and the database server run everything that can run; no
\* fault has to happen.
FairSpec == Spec /\ \A r \in Requests : WF_vars(Step(r))

-----------------------------------------------------------------------------
(* Properties.                                                              *)

TablesOK == /\ users \in Seq(UserType)
            /\ tokens \in Seq(TokenType)
            /\ \A t \in DOMAIN tokens : tokens[t].user \in DOMAIN users
            /\ secrets \in Nat /\ access \subseteq DOMAIN users

PoolOK == open \in Nat /\ abandoned \in Nat

LocalOK == /\ pc \in [Requests -> Steps]
           /\ job \in [Requests -> JobType]
           /\ mem \in [Requests -> MemType]
           /\ reply \in [Requests -> Replies]

\* The tables and the locals of the handlers hold values of their types
\* (entity.User, entity.RefreshToken, the locals of the user service).
TypeOK == TablesOK /\ PoolOK /\ LocalOK

\* Whatever registrations and updates overlap, no two rows have one email
\* (CheckEmail looks before it leaps; entity.User's unique index decides).
EmailsUnique ==
    \A u, v \in DOMAIN users : users[u].email = users[v].email => u = v

\* An account that was deleted stays as it was, also when an update had found it
\* live before (userService.Update looks and writes in two statements).
DeletedUserKept ==
    [][\A u \in DOMAIN users : ~users[u].live => users'[u] = users[u]]_vars

Holders == {r \in Requests : mem[r].tx}

\* Every path of Verify and RefreshToken gives its connection back: the open ones
\* are those of transactions in flight and those that were abandoned, and nobody
\* but Delete runs on with a transaction it does not use.
OnlyDeleteLeaks ==
    /\ open = Cardinality(Holders) + abandoned
    /\ \A r \in Holders : pc[r] \in Transaction \/ job[r].op = "delete"

\* A login ends every session that was live when its DeleteByUserID began, also
\* those that another login was ending at the time, whether that one committed
\* or rolled back.
SessionsReplaced == \A t \in DOMAIN tokens : \A x \in tokens[t].found : ~tokens[x].live

\* What a running handler knows: it is inside its transaction exactly between
\* Begin and the end, the user it found exists, and of the sessions it saw, all of
\* that user, each is held by it or over when it commits.
HandlerOK(r) ==
    /\ pc[r] \in Transaction => mem[r].tx
    /\ pc[r] \in {"idle", "begin"} => ~mem[r].tx
    /\ pc[r] = "begin" => job[r].op \in {"login", "refresh", "delete"}
    /\ pc[r] \in {"check_email", "save_user"} => job[r].op = "register"
    /\ pc[r] = "update_user" => job[r].op = "update"
    /\ job[r].op \in {"register", "update"} => job[r].email \in Emails
    /\ pc[r] \in {"end_sessions", "lock_rows", "commit"} => mem[r].user \in DOMAIN users
    /\ pc[r] \notin {"lock_rows", "commit"} => mem[r].found = {}
    /\ \A x \in mem[r].found : x \in DOMAIN tokens /\ tokens[x].user = mem[r].user
    /\ mem[r].ended \subseteq mem[r].found
    /\ pc[r] = "commit" => \A x \in mem[r].found : x \in mem[r].ended \/ ~tokens[x].live

\* The inductive invariant: the properties above, what every handler in flight
\* knows, and that the sessions a login saw are rows.
IInv == /\ TypeOK /\ IsFiniteSet(Holders) /\ OnlyDeleteLeaks
        /\ \A r \in Requests : HandlerOK(r)
        /\ EmailsUnique
        /\ \A t \in DOMAIN tokens : tokens[t].found \subseteq DOMAIN tokens
        /\ SessionsReplaced

\* A session ends only in the step that gives its user a new one: a login that
\* fails half way, or dies with the process, ends none (the transaction of
\* Verify).
SessionEndsByLogin ==
    [][\A t \in DOMAIN tokens :
          tokens[t].live /\ ~tokens'[t].live =>
              /\ Len(tokens') = Len(tokens) + 1
              /\ tokens'[Len(tokens')].user = tokens[t].user
              /\ tokens'[Len(tokens')].live]_vars

\* Every request is answered or dies with the process, also when logins wait for
\* each other's rows and when Delete has used up the connections.
Answered == \A r \in Requests : pc[r] # "idle" ~> pc[r] = "idle"

\* A refresh token that is in the table, live, of a live user, is found.
RefreshFound ==
    [][\A r \in Requests : pc[r] = "find_token" /\ reply'[r] = "invalid" =>
          ~\E t \in DOMAIN tokens : /\ tokens[t].stored.of = job[r].sent
                                    /\ tokens[t].live /\ LiveUser(tokens[t].user)]_vars

-----------------------------------------------------------------------------
(* What a user of the ledger sees of the state.                             *)

LedgerSessions == [t \in DOMAIN tokens |-> [user |-> tokens[t].user, live |-> tokens[t].live]]

LedgerLooking ==
    [r \in Requests |-> IF pc[r] \in {"lock_rows", "commit"}
                        THEN [user |-> mem[r].user, saw |-> mem[r].found] ELSE None]

Sessions == INSTANCE SessionLedger WITH
    Addresses <- Emails,        NotLooking <- None,
    accounts  <- users,         sessions   <- LedgerSessions,
    looking   <- LedgerLooking, admitted   <- access

\* The service keeps the promises of SessionLedger: overlapping logins that wait
\* for each other's rows, roll back or die with the process look like logins that
\* each replace, at once, the sessions they saw (Verify's transaction), and no
\* registration or update gives two accounts one email.
ImplementsSessions == Sessions!SSpec
=============================================================================
