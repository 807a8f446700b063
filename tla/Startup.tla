------------------------------ MODULE Startup -------------------------------
(***************************************************************************)
(* What the binary does before it serves: it opens the query log and the    *)
(* database, migrates and seeds as its flags say, and binds the port.  The  *)
(* container runs it with all flags at every start, an operator runs it     *)
(* beside the server to migrate and seed; each may be killed between any    *)
(* two statements, and none waits for another.                              *)
(***************************************************************************)
EXTENDS Naturals, Sequences, FiniteSets

CONSTANTS Processes,
          Commands,      \* the sets of flags the binary is started with
          Tables,        \* in the order of AutoMigrate, users first
          Emails,
          Seeds,         \* the emails of users.json, in order
          Months,        \* how many months a year has
          MaxUsers       \* bound: rows ever created in users

ASSUME StartupAssumption ==
    /\ Commands \subseteq SUBSET {"migrate", "seed", "run"}
    /\ Tables \in Seq(STRING) /\ Tables # <<>> /\ Tables[1] = "users"
    /\ Seeds \in Seq(Emails)
    /\ Months \in Nat \ {0} /\ MaxUsers \in Nat

VARIABLES
    up,        \* the database accepts connections
    tables,    \* the tables it has
    users,     \* table users, in the order of the inserts
    indexed,   \* users has the unique index of its emails
    now,       \* the month
    log,       \* log[m]: the months whose statements the file of month m holds
    pc, mem,   \* the next statement of each process, and its locals
    outcome,   \* how its last run ended
    calm,      \* since it began no other one wrote and the database stayed
    careless   \* a process that did not migrate wrote to users

database == <<up, tables, users, indexed, careless>>
vars     == <<up, tables, users, indexed, now, log, pc, mem, outcome, calm, careless>>

UserType == [email : Emails, live : BOOLEAN]
\* stage says which loop i counts in: the tables or the seeds.
MemType  == [flags : SUBSET {"migrate", "seed", "run"}, file : 0 .. Months,
             stage : {"migrate", "seed"}, i : Nat, found : Nat]
Steps    == {"down", "connect", "has_table", "check_table", "has_index", "create_table",
             "create_index", "find_seed", "count_seed", "create_seed", "bind", "serving"}
Outcomes == {"none", "done", "killed", "no_database", "port_taken", "failed"}

NoMem == [flags |-> {}, file |-> 0, stage |-> "migrate", i |-> 1, found |-> 0]

Init ==
    /\ up = FALSE /\ tables = {} /\ users = <<>> /\ indexed = FALSE /\ careless = FALSE
    /\ now = 1
    /\ log = [m \in 1 .. Months |-> {}]
    /\ pc = [p \in Processes |-> "down"]
    /\ mem = [p \in Processes |-> NoMem]
    /\ outcome = [p \in Processes |-> "none"]
    /\ calm = [p \in Processes |-> FALSE]

-----------------------------------------------------------------------------
(* Control of a process.                                                    *)

Running(p) == pc[p] # "down"

Goto(p, step, m) ==
    /\ pc' = [pc EXCEPT ![p] = step]
    /\ mem' = [mem EXCEPT ![p] = m]
    /\ UNCHANGED outcome

End(p, how) ==
    /\ pc' = [pc EXCEPT ![p] = "down"]
    /\ mem' = [mem EXCEPT ![p] = NoMem]
    /\ outcome' = [outcome EXCEPT ![p] = how]

\* Every statement goes to the file that was opened when the process started.
Logs(p, file) == log' = [log EXCEPT ![file] = @ \cup {now}]

Quiet     == UNCHANGED calm
\* Whatever the others read before may be stale now.
Disturbs(p) == calm' = [q \in Processes |-> calm[q] /\ q = p]

\* After migrating (or not), after seeding (or not).
AfterSeed(p, m) == IF "run" \in m.flags THEN Goto(p, "bind", m) ELSE End(p, "done")

AfterMigrate(p, m) ==
    IF "seed" \in m.flags
    THEN Goto(p, "has_table", [m EXCEPT !.stage = "seed", !.i = 1])
    ELSE AfterSeed(p, m)

AfterConnect(p, m) ==
    IF "migrate" \in m.flags THEN Goto(p, "has_table", m) ELSE AfterMigrate(p, m)

-----------------------------------------------------------------------------
(* Opening the log and the database.                                        *)

Start(p) ==
    /\ pc[p] = "down"
    /\ \E f \in Commands :
          /\ pc' = [pc EXCEPT ![p] = "connect"]
          /\ mem' = [mem EXCEPT ![p] = [NoMem EXCEPT !.flags = f]]
    /\ outcome' = [outcome EXCEPT ![p] = "none"]
    /\ calm' = [calm EXCEPT ![p] = TRUE]
    /\ UNCHANGED <<database, now, log>>

\* Mutation: the month is counted from zero and one is added twice.
MutantNextMonth(p) ==
    /\ pc[p] = "connect"
    /\ IF up THEN /\ Logs(p, now)
                  /\ AfterConnect(p, [mem[p] EXCEPT !.file = now + 1])
             ELSE End(p, "no_database") /\ UNCHANGED log
    /\ Quiet
    /\ UNCHANGED <<database, now>>

\* Nothing waits for the database: the process panics when it is not up yet.
Connect(p) ==
    /\ pc[p] = "connect"
    /\ IF up THEN /\ Logs(p, now)
                  /\ AfterConnect(p, [mem[p] EXCEPT !.file = now])
             ELSE End(p, "no_database") /\ UNCHANGED log
    /\ Quiet
    /\ UNCHANGED <<database, now>>

-----------------------------------------------------------------------------
(* --migrate, and the table the seeder makes sure of.                       *)

ToCreate(p) == IF mem[p].stage = "migrate" THEN Tables ELSE <<Tables[1]>>
Table(p)    == ToCreate(p)[mem[p].i]

AfterTable(p) ==
    CASE mem[p].i < Len(ToCreate(p)) -> Goto(p, "has_table", [mem[p] EXCEPT !.i = @ + 1])
      [] mem[p].stage = "migrate" /\ mem[p].i = Len(ToCreate(p)) -> AfterMigrate(p, mem[p])
      [] OTHER -> IF Seeds = <<>> THEN AfterSeed(p, mem[p])
                  ELSE Goto(p, "find_seed", [mem[p] EXCEPT !.i = 1])

\* Mutation: the tables are taken to be missing.
MutantCreateAlways(p) ==
    /\ pc[p] = "has_table"
    /\ Logs(p, mem[p].file)
    /\ Goto(p, "create_table", mem[p])
    /\ Quiet
    /\ UNCHANGED <<database, now>>

\* Mutation: migration leaves a table that is there as it is.
MutantSkipExisting(p) ==
    /\ pc[p] = "has_table"
    /\ Logs(p, mem[p].file)
    /\ IF up /\ Table(p) \in tables THEN AfterTable(p) ELSE Goto(p, "create_table", mem[p])
    /\ Quiet
    /\ UNCHANGED <<database, now>>

\* When the statement fails the answer is no.  The seeder leaves a table that is
\* there as it is; migration looks at its columns and indexes.
HasTable(p) ==
    /\ pc[p] = "has_table"
    /\ Logs(p, mem[p].file)
    /\ \/ ~(up /\ Table(p) \in tables) /\ Goto(p, "create_table", mem[p])
       \/ up /\ Table(p) \in tables /\ mem[p].stage = "seed" /\ AfterTable(p)
       \/ up /\ Table(p) \in tables /\ mem[p].stage = "migrate" /\ Goto(p, "check_table", mem[p])
    /\ Quiet
    /\ UNCHANGED <<database, now>>

\* The columns of an existing table are those of its entity.
CheckTable(p) ==
    /\ pc[p] = "check_table"
    /\ Logs(p, mem[p].file)
    /\ \/ ~up /\ End(p, "failed")
       \/ up /\ Table(p) = "users" /\ Goto(p, "has_index", mem[p])
       \/ up /\ Table(p) # "users" /\ AfterTable(p)
    /\ Quiet
    /\ UNCHANGED <<database, now>>

\* Here too a statement that fails answers no.
HasIndex(p) ==
    /\ pc[p] = "has_index"
    /\ Logs(p, mem[p].file)
    /\ IF up /\ indexed THEN AfterTable(p) ELSE Goto(p, "create_index", mem[p])
    /\ Quiet
    /\ UNCHANGED <<database, now>>

\* Mutation: migration stops after the first table it had to make.
MutantOneTable(p) ==
    /\ pc[p] = "create_table"
    /\ Logs(p, mem[p].file)
    /\ IF up /\ Table(p) \notin tables
       THEN tables' = tables \cup {Table(p)} /\ AfterMigrate(p, mem[p]) /\ Disturbs(p)
       ELSE End(p, "failed") /\ Quiet /\ UNCHANGED tables
    /\ UNCHANGED <<up, users, indexed, careless, now>>

\* CREATE TABLE is committed before the index is made.
CreateTable(p) ==
    /\ pc[p] = "create_table"
    /\ Logs(p, mem[p].file)
    /\ IF up /\ Table(p) \notin tables
       THEN /\ tables' = tables \cup {Table(p)} /\ Disturbs(p)
            /\ IF Table(p) = "users" THEN Goto(p, "create_index", mem[p]) ELSE AfterTable(p)
       ELSE End(p, "failed") /\ Quiet /\ UNCHANGED tables
    /\ UNCHANGED <<up, users, indexed, careless, now>>

Twins == \E u, v \in DOMAIN users : u # v /\ users[u].email = users[v].email

\* CREATE UNIQUE INDEX IF NOT EXISTS: rows of one email make it fail.
CreateIndex(p) ==
    /\ pc[p] = "create_index"
    /\ Logs(p, mem[p].file)
    /\ IF up /\ (indexed \/ ~Twins)
       THEN indexed' = TRUE /\ AfterTable(p) /\ Disturbs(p)
       ELSE End(p, "failed") /\ Quiet /\ UNCHANGED indexed
    /\ UNCHANGED <<up, tables, users, careless, now>>

-----------------------------------------------------------------------------
(* --seed.                                                                  *)

Seed(p) == Seeds[mem[p].i]

NextSeed(p) == IF mem[p].i < Len(Seeds)
               THEN Goto(p, "find_seed", [mem[p] EXCEPT !.i = @ + 1, !.found = 0])
               ELSE AfterSeed(p, mem[p])

Named(e) == {u \in DOMAIN users : users[u].live /\ users[u].email = e}

FindSeed(p) ==
    /\ pc[p] = "find_seed"
    /\ Logs(p, mem[p].file)
    /\ \/ ~up /\ End(p, "failed")
       \/ up /\ Named(Seed(p)) = {} /\ Goto(p, "count_seed", mem[p])
       \/ up /\ \E u \in Named(Seed(p)) : Goto(p, "count_seed", [mem[p] EXCEPT !.found = u])
    /\ Quiet
    /\ UNCHANGED <<database, now>>

\* Mutation: any account will do.
MutantAnyRow(p) ==
    /\ pc[p] = "count_seed"
    /\ Logs(p, mem[p].file)
    /\ IF up /\ users # <<>> THEN NextSeed(p) ELSE Goto(p, "create_seed", mem[p])
    /\ Quiet
    /\ UNCHANGED <<database, now>>

\* Find on the row that First filled also asks for its id; an error of Find is
\* not looked at.
CountSeed(p) ==
    /\ pc[p] = "count_seed"
    /\ Logs(p, mem[p].file)
    /\ IF up /\ \E u \in Named(Seed(p)) : mem[p].found \in {0, u}
       THEN NextSeed(p) ELSE Goto(p, "create_seed", mem[p])
    /\ Quiet
    /\ UNCHANGED <<database, now>>

\* The unique index on the email, when it is there, sees soft-deleted rows too.
Taken(e, self) == indexed /\ \E u \in DOMAIN users : u # self /\ users[u].email = e

Writes(p) == careless' = (careless \/ "migrate" \notin mem[p].flags)

CreateSeed(p) ==
    /\ pc[p] = "create_seed"
    /\ Logs(p, mem[p].file)
    /\ IF up /\ ~Taken(Seed(p), 0)
       THEN /\ Len(users) < MaxUsers
            /\ users' = Append(users, [email |-> Seed(p), live |-> TRUE])
            /\ NextSeed(p) /\ Disturbs(p) /\ Writes(p)
       ELSE End(p, "failed") /\ Quiet /\ UNCHANGED <<users, careless>>
    /\ UNCHANGED <<up, tables, indexed, now>>

-----------------------------------------------------------------------------
(* The server.                                                              *)

Bind(p) ==
    /\ pc[p] = "bind"
    /\ IF \E q \in Processes : pc[q] = "serving" THEN End(p, "port_taken")
                                                 ELSE Goto(p, "serving", mem[p])
    /\ Quiet
    /\ UNCHANGED <<database, now, log>>

\* The requests that write users: see Accounts.
Write(rows) ==
    \E p \in Processes :
        /\ pc[p] = "serving" /\ up /\ "users" \in tables
        /\ users' = rows /\ Writes(p)
        /\ Logs(p, mem[p].file)
        /\ calm' = [q \in Processes |-> FALSE]
        /\ UNCHANGED <<up, tables, indexed, now, pc, mem, outcome>>

Register(e) == /\ ~Taken(e, 0) /\ Len(users) < MaxUsers
               /\ Write(Append(users, [email |-> e, live |-> TRUE]))

Update(u, e) == /\ users[u].live /\ ~Taken(e, u)
                /\ Write([users EXCEPT ![u].email = e])

Delete(u) == users[u].live /\ Write([users EXCEPT ![u].live = FALSE])

\* GET /logs/:month: the statements of the file of that month, if there is one.
Logger(m) == log[m]

-----------------------------------------------------------------------------
(* The world.                                                               *)

Kill(p) ==
    /\ Running(p)
    /\ End(p, "killed")
    /\ Quiet
    /\ UNCHANGED <<database, now, log>>

DatabaseStarts ==
    /\ ~up /\ up' = TRUE
    /\ UNCHANGED <<tables, users, indexed, careless, now, log, pc, mem, outcome, calm>>

DatabaseStops == /\ up /\ up' = FALSE
                 /\ calm' = [p \in Processes |-> FALSE]
                 /\ UNCHANGED <<tables, users, indexed, careless, now, log, pc, mem, outcome>>

MonthPasses == /\ now' = (now % Months) + 1
               /\ UNCHANGED <<database, log, pc, mem, outcome, calm>>

-----------------------------------------------------------------------------
Step(p) == \/ Connect(p) \/ HasTable(p) \/ CheckTable(p) \/ HasIndex(p)
           \/ CreateTable(p) \/ CreateIndex(p)
           \/ FindSeed(p) \/ CountSeed(p) \/ CreateSeed(p) \/ Bind(p)

Next == \/ \E p \in Processes : Start(p) \/ Step(p) \/ Kill(p)
        \/ \E e \in Emails : Register(e) \/ \E u \in DOMAIN users : Update(u, e)
        \/ \E u \in DOMAIN users : Delete(u)
        \/ DatabaseStarts \/ DatabaseStops \/ MonthPasses

Spec == Init /\ [][Next]_vars

-----------------------------------------------------------------------------
(* Properties.                                                              *)

\* The tables and the locals of the processes hold values of their types
\* (entity.User, the locals of Commands, Migrate and ListUserSeeder).
TypeOK ==
    /\ up \in BOOLEAN /\ indexed \in BOOLEAN /\ careless \in BOOLEAN /\ now \in 1 .. Months
    /\ tables \subseteq {Tables[i] : i \in DOMAIN Tables}
    /\ users \in Seq(UserType)
    /\ log \in [1 .. Months -> SUBSET (1 .. Months)]
    /\ pc \in [Processes -> Steps] /\ mem \in [Processes -> MemType]
    /\ outcome \in [Processes -> Outcomes] /\ calm \in [Processes -> BOOLEAN]

\* As long as only processes that migrated wrote to users, no two rows have one
\* email: however seeders, registrations and renamings interleave, and also when an
\* earlier migration was killed between the table and its unique index (AutoMigrate
\* makes a missing index of a table that is there; ListUserSeeder looks twice and then
\* inserts).
NoTwin == ~careless => ~Twins

\* A start that nobody disturbs fails for one of two reasons: the account of a seeded
\* email was deleted, or two rows have one email, which a server that was started
\* without migrating can bring about.  In particular whatever a killed process left
\* half migrated or half seeded is finished by the next one (Migrate, ListUserSeeder,
\* log.Fatalf in Commands).
FailsForAReason ==
    \A p \in Processes : outcome[p] = "failed" /\ calm[p] =>
        \/ Twins
        \/ \E i \in DOMAIN Seeds, u \in DOMAIN users :
               users[u].email = Seeds[i] /\ ~users[u].live

AllTables == \A i \in DOMAIN Tables : Tables[i] \in tables
AllSeeds  == \A i \in DOMAIN Seeds : Named(Seeds[i]) # {}

\* A server that migrated has all tables and the index that keeps emails apart, and
\* one that seeded undisturbed begins to serve with a live account for every seed, also
\* when an earlier process was killed half way (Commands runs before the server is
\* made).
ServesPrepared ==
    \A p \in Processes : pc[p] \in {"bind", "serving"} =>
        /\ "migrate" \in mem[p].flags => AllTables /\ indexed
        /\ "seed" \in mem[p].flags /\ calm[p] => AllSeeds

TableSteps == {"has_table", "check_table", "has_index", "create_table", "create_index"}
SeedSteps  == {"find_seed", "count_seed", "create_seed"}
Served     == {"bind", "serving"}

\* What a process knows of its own locals and of the database.
LocalsOK(p) ==
    /\ pc[p] # "down" => outcome[p] = "none"
    /\ pc[p] = "connect" => mem[p].stage = "migrate" /\ mem[p].i = 1
    /\ pc[p] \notin {"down", "connect"} => mem[p].file \in 1 .. Months /\ (calm[p] => up)
    /\ pc[p] \in TableSteps => mem[p].i \in 1 .. Len(ToCreate(p)) /\ mem[p].stage \in mem[p].flags
    /\ pc[p] \in SeedSteps => mem[p].i \in 1 .. Len(Seeds) /\ mem[p].stage = "seed"

\* The tables before the one a process is at are there, and users, which is the first,
\* has its index.
MigratedSoFar(p) ==
    /\ pc[p] \in TableSteps /\ mem[p].stage = "migrate" =>
          /\ \A j \in 1 .. mem[p].i - 1 : Tables[j] \in tables
          /\ mem[p].i > 1 => indexed
    /\ "migrate" \in mem[p].flags /\ (pc[p] \in SeedSteps \cup Served \/ mem[p].stage = "seed") =>
          AllTables /\ indexed
    /\ pc[p] \in {"check_table", "has_index", "create_index"} => Table(p) \in tables
    /\ pc[p] = "create_table" /\ calm[p] => Table(p) \notin tables

\* So are, while nobody disturbs it, the accounts before the seed it is at.
SeededSoFar(p) ==
    calm[p] =>
        /\ pc[p] \in SeedSteps => \A j \in 1 .. mem[p].i - 1 : Named(Seeds[j]) # {}
        /\ pc[p] = "count_seed" => Named(Seed(p)) = {} \/ mem[p].found \in Named(Seed(p))
        /\ pc[p] = "create_seed" => Named(Seed(p)) = {}
        /\ pc[p] \in Served /\ "seed" \in mem[p].flags => AllSeeds

ProcessOK(p) == LocalsOK(p) /\ MigratedSoFar(p) /\ SeededSoFar(p)

\* The inductive invariant: what each process in flight knows.
IInv == /\ TypeOK /\ NoTwin /\ (indexed => ~Twins) /\ FailsForAReason
        /\ \A p \in Processes : ProcessOK(p)

\* The page of a month shows what was logged in that month (SetupLogger chooses
\* the file, Logger reads it).
LogMonth == \A m \in 1 .. Months : Logger(m) \subseteq {m}
=============================================================================
