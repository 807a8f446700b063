---------------------------- MODULE StartupProofs ----------------------------
(***************************************************************************)
(* What a killed, repeated or concurrent start can and cannot leave behind.  *)
(***************************************************************************)
EXTENDS Startup, SequenceTheorems, TLAPS

\* The state of one process and the tables, without what it knows of them.
LEMMA TableFacts ==
    /\ Len(Tables) \in Nat \ {0} /\ DOMAIN Tables = 1 .. Len(Tables)
    /\ Len(Seeds) \in Nat /\ DOMAIN Seeds = 1 .. Len(Seeds)
    /\ \A i \in 1 .. Len(Seeds) : Seeds[i] \in Emails
    /\ Len(<<Tables[1]>>) = 1 /\ DOMAIN <<Tables[1]>> = 1 .. 1
<1>1. Tables \in Seq(STRING) /\ Tables # <<>> /\ Seeds \in Seq(Emails)
  BY StartupAssumption
<1>2. Len(Tables) \in Nat /\ DOMAIN Tables = 1 .. Len(Tables)
  BY <1>1, LenProperties
<1>3. Len(Tables) # 0
  BY <1>1, EmptySeq
<1>4. Len(Seeds) \in Nat /\ DOMAIN Seeds = 1 .. Len(Seeds)
  BY <1>1, LenProperties
<1>5. \A i \in 1 .. Len(Seeds) : Seeds[i] \in Emails
  BY <1>1, ElementOfSeq
<1> QED
  BY <1>2, <1>3, <1>4, <1>5

-----------------------------------------------------------------------------
(* A process goes on.  Whoever it goes on with, the types of its control     *)
(* stay, and what it knows is asked of the place it arrives at.              *)

ControlOK == /\ pc \in [Processes -> Steps] /\ mem \in [Processes -> MemType]
             /\ outcome \in [Processes -> Outcomes]

\* The other processes stay where they are.
OthersStay(p) ==
    \A q \in Processes \ {p} : pc'[q] = pc[q] /\ mem'[q] = mem[q] /\ outcome'[q] = outcome[q]

LEMMA GotoOK ==
    ASSUME ControlOK, NEW p \in Processes, NEW step \in Steps, NEW m \in MemType, Goto(p, step, m)
    PROVE  /\ ControlOK' /\ OthersStay(p)
           /\ pc'[p] = step /\ mem'[p] = m /\ outcome'[p] = outcome[p]
  BY DEF ControlOK, OthersStay, Goto

LEMMA NoMemType == NoMem \in MemType
  BY StartupAssumption DEF NoMem, MemType

LEMMA EndOK ==
    ASSUME ControlOK, NEW p \in Processes, NEW how \in Outcomes, End(p, how)
    PROVE  /\ ControlOK' /\ OthersStay(p)
           /\ pc'[p] = "down" /\ mem'[p] = NoMem /\ outcome'[p] = how
<1>1. "down" \in Steps
  BY DEF Steps
<1> QED
  BY <1>1, NoMemType DEF ControlOK, OthersStay, End

\* A process that is down knows nothing.
LEMMA DownOK ==
    ASSUME NEW p \in Processes, pc'[p] = "down", mem'[p] = NoMem
    PROVE  ProcessOK(p)'
  BY DEF ProcessOK, LocalsOK, MigratedSoFar, SeededSoFar, TableSteps, SeedSteps, Served, NoMem

\* What a process needs when it leaves the seeds behind.
LEMMA AfterSeedOK ==
    ASSUME ControlOK, NEW p \in Processes, NEW m \in MemType, AfterSeed(p, m),
           m.file \in 1 .. Months, calm'[p] => up',
           "migrate" \in m.flags => AllTables' /\ indexed',
           "seed" \in m.flags /\ calm'[p] => AllSeeds', outcome[p] = "none"
    PROVE  /\ ControlOK' /\ OthersStay(p) /\ ProcessOK(p)' /\ outcome'[p] # "failed"
<1>1. CASE "run" \in m.flags
  <2>1. Goto(p, "bind", m) /\ "bind" \in Steps
    BY <1>1 DEF AfterSeed, Steps
  <2>2. /\ ControlOK' /\ OthersStay(p)
        /\ pc'[p] = "bind" /\ mem'[p] = m /\ outcome'[p] = outcome[p]
    BY <2>1, GotoOK
  <2>3. ProcessOK(p)'
    BY <2>2 DEF ProcessOK, LocalsOK, MigratedSoFar, SeededSoFar, TableSteps, SeedSteps, Served
  <2> QED
    BY <2>2, <2>3
<1>2. CASE "run" \notin m.flags
  <2>1. End(p, "done") /\ "done" \in Outcomes
    BY <1>2 DEF AfterSeed, Outcomes
  <2>2. /\ ControlOK' /\ OthersStay(p)
        /\ pc'[p] = "down" /\ mem'[p] = NoMem /\ outcome'[p] = "done"
    BY <2>1, EndOK
  <2> QED
    BY <2>2, DownOK
<1> QED
  BY <1>1, <1>2

\* What it needs when it leaves the tables behind.
LEMMA AfterMigrateOK ==
    ASSUME ControlOK, NEW p \in Processes, NEW m \in MemType, AfterMigrate(p, m),
           m.file \in 1 .. Months, calm'[p] => up', m.stage = "migrate",
           "migrate" \in m.flags => AllTables' /\ indexed', outcome[p] = "none"
    PROVE  /\ ControlOK' /\ OthersStay(p) /\ ProcessOK(p)' /\ outcome'[p] # "failed"
<1>1. CASE "seed" \in m.flags
  <2> DEFINE n == [m EXCEPT !.stage = "seed", !.i = 1]
  <2>1. /\ n \in MemType /\ n.stage = "seed" /\ n.i = 1
        /\ n.flags = m.flags /\ n.file = m.file
    BY DEF MemType
  <2>2. Goto(p, "has_table", n) /\ "has_table" \in Steps
    BY <1>1 DEF AfterMigrate, Steps
  <2> HIDE DEF n
  <2>3. /\ ControlOK' /\ OthersStay(p)
        /\ pc'[p] = "has_table" /\ mem'[p] = n /\ outcome'[p] = outcome[p]
    BY <2>1, <2>2, GotoOK
  <2>4. ProcessOK(p)'
    BY <1>1, <2>1, <2>3, TableFacts
       DEF ProcessOK, LocalsOK, MigratedSoFar, SeededSoFar, TableSteps, SeedSteps, Served, ToCreate
  <2> QED
    BY <2>3, <2>4
<1>2. CASE "seed" \notin m.flags
  <2>1. AfterSeed(p, m)
    BY <1>2 DEF AfterMigrate
  <2> QED
    BY <1>2, <2>1, AfterSeedOK
<1> QED
  BY <1>1, <1>2

\* What it needs when the table it is at is there.
LEMMA AfterTableOK ==
    ASSUME TypeOK, NEW p \in Processes, ProcessOK(p), pc[p] \in TableSteps, AfterTable(p),
           tables \subseteq tables', Table(p) \in tables',
           indexed => indexed',
           mem[p].stage = "migrate" /\ Table(p) = "users" => indexed',
           calm'[p] => calm[p] /\ up'
    PROVE  /\ ControlOK' /\ OthersStay(p) /\ ProcessOK(p)' /\ outcome'[p] # "failed"
<1> DEFINE m == mem[p]
<1>1. ControlOK /\ m \in MemType
  BY DEF TypeOK, ControlOK
<1>2. /\ m.file \in 1 .. Months /\ outcome[p] = "none" /\ m.stage \in m.flags
      /\ m.i \in 1 .. Len(ToCreate(p))
  BY DEF ProcessOK, LocalsOK, TableSteps
<1>3. ToCreate(p) = IF m.stage = "migrate" THEN Tables ELSE <<Tables[1]>>
  BY DEF ToCreate
<1>4. m.stage \in {"migrate", "seed"} /\ m.i \in Nat
  BY <1>1 DEF MemType
<1>5. m.stage = "migrate" => \A j \in 1 .. m.i : Tables[j] \in tables'
  <2> SUFFICES ASSUME m.stage = "migrate", NEW j \in 1 .. m.i PROVE Tables[j] \in tables'
    OBVIOUS
  <2>1. \A k \in 1 .. m.i - 1 : Tables[k] \in tables
    BY DEF ProcessOK, MigratedSoFar
  <2>2. j \in 1 .. m.i - 1 \/ j = m.i
    BY <1>4
  <2> QED
    BY <1>3, <2>1, <2>2 DEF Table
<1>6. m.stage = "seed" /\ "migrate" \in m.flags => AllTables' /\ indexed'
  BY DEF ProcessOK, MigratedSoFar, AllTables
<1>10. m.stage = "migrate" => indexed'
  <2>1. CASE m.i > 1
    BY <2>1 DEF ProcessOK, MigratedSoFar
  <2>2. CASE m.i = 1
    BY <1>3, <2>2, StartupAssumption DEF Table
  <2> QED
    BY <1>2, <1>3, <2>1, <2>2, TableFacts
<1>7. CASE m.i < Len(ToCreate(p))
  <2> DEFINE n == [m EXCEPT !.i = @ + 1]
  <2>1. /\ n \in MemType /\ n.stage = m.stage /\ n.i = m.i + 1
        /\ n.flags = m.flags /\ n.file = m.file
    BY <1>1 DEF MemType
  <2>2. Goto(p, "has_table", n) /\ "has_table" \in Steps
    BY <1>7 DEF AfterTable, Steps
  <2> HIDE DEF n
  <2>3. /\ ControlOK' /\ OthersStay(p)
        /\ pc'[p] = "has_table" /\ mem'[p] = n /\ outcome'[p] = outcome[p]
    BY <1>1, <2>1, <2>2, GotoOK
  <2>4. ToCreate(p)' = ToCreate(p)
    BY <1>3, <2>1, <2>3 DEF ToCreate
  <2>5. n.i \in 1 .. Len(ToCreate(p))
    BY <1>2, <1>3, <1>4, <1>7, <2>1, TableFacts
  <2>6. LocalsOK(p)'
    BY <1>2, <2>1, <2>3, <2>4, <2>5 DEF LocalsOK, TableSteps, SeedSteps
  <2>7. MigratedSoFar(p)'
    <3>1. n.stage = "migrate" => \A j \in 1 .. n.i - 1 : Tables[j] \in tables'
      BY <1>4, <1>5, <2>1
    <3> QED
      BY <1>6, <1>10, <2>1, <2>3, <3>1 DEF MigratedSoFar, TableSteps, SeedSteps, Served
  <2>8. SeededSoFar(p)'
    BY <2>3 DEF SeededSoFar, SeedSteps, Served
  <2> QED
    BY <1>2, <2>3, <2>6, <2>7, <2>8 DEF ProcessOK
<1>8. CASE m.i = Len(ToCreate(p)) /\ m.stage = "migrate"
  <2>1. AfterMigrate(p, m)
    BY <1>2, <1>3, <1>8, TableFacts DEF AfterTable
  <2>2. AllTables'
    BY <1>3, <1>5, <1>8, TableFacts DEF AllTables
  <2> QED
    BY <1>1, <1>2, <1>8, <1>10, <2>1, <2>2, AfterMigrateOK
<1>9. CASE m.i = Len(ToCreate(p)) /\ m.stage = "seed"
  <2>1. IF Seeds = <<>> THEN AfterSeed(p, m) ELSE Goto(p, "find_seed", [m EXCEPT !.i = 1])
    BY <1>3, <1>9, TableFacts DEF AfterTable
  <2>2. CASE Seeds = <<>>
    <3>1. AllSeeds'
      BY <2>2 DEF AllSeeds
    <3> QED
      BY <1>1, <1>2, <1>6, <1>9, <2>1, <2>2, <3>1, AfterSeedOK
  <2>3. CASE Seeds # <<>>
    <3> DEFINE n == [m EXCEPT !.i = 1]
    <3>1. /\ n \in MemType /\ n.stage = "seed" /\ n.i = 1
          /\ n.flags = m.flags /\ n.file = m.file
      BY <1>1, <1>9 DEF MemType
    <3>2. Goto(p, "find_seed", n) /\ "find_seed" \in Steps
      BY <2>1, <2>3 DEF Steps
    <3> HIDE DEF n
    <3>3. /\ ControlOK' /\ OthersStay(p)
          /\ pc'[p] = "find_seed" /\ mem'[p] = n /\ outcome'[p] = outcome[p]
      BY <1>1, <3>1, <3>2, GotoOK
    <3>4. 1 \in 1 .. Len(Seeds)
      BY <2>3, StartupAssumption, EmptySeq, TableFacts
    <3>5. ProcessOK(p)'
      BY <1>2, <1>6, <1>9, <3>1, <3>3, <3>4
         DEF ProcessOK, LocalsOK, MigratedSoFar, SeededSoFar, TableSteps, SeedSteps, Served
    <3> QED
      BY <1>2, <3>3, <3>5
  <2> QED
    BY <2>2, <2>3
<1> QED
  BY <1>2, <1>3, <1>4, <1>7, <1>8, <1>9, TableFacts

\* What it needs when the account of the seed it is at is there.
LEMMA NextSeedOK ==
    ASSUME TypeOK, NEW p \in Processes, ProcessOK(p), pc[p] \in SeedSteps, NextSeed(p),
           tables \subseteq tables', indexed => indexed', calm'[p] => calm[p] /\ up',
           calm'[p] => \A i \in DOMAIN Seeds :
               Named(Seeds[i]) # {} \/ i = mem[p].i => Named(Seeds[i])' # {}
    PROVE  /\ ControlOK' /\ OthersStay(p) /\ ProcessOK(p)' /\ outcome'[p] # "failed"
<1> DEFINE m == mem[p]
<1>1. ControlOK /\ m \in MemType
  BY DEF TypeOK, ControlOK
<1>2. /\ m.file \in 1 .. Months /\ outcome[p] = "none" /\ m.stage = "seed"
      /\ m.i \in 1 .. Len(Seeds)
  BY DEF ProcessOK, LocalsOK, SeedSteps
<1>3. "migrate" \in m.flags => AllTables' /\ indexed'
  BY DEF ProcessOK, MigratedSoFar, AllTables
<1>4. calm'[p] => \A j \in 1 .. m.i : Named(Seeds[j])' # {}
  <2> SUFFICES ASSUME calm'[p], NEW j \in 1 .. m.i PROVE Named(Seeds[j])' # {}
    OBVIOUS
  <2>1. j \in DOMAIN Seeds /\ m.i \in Nat
    BY <1>2, TableFacts
  <2>2. CASE j = m.i
    BY <2>1, <2>2
  <2>3. CASE j # m.i
    <3>1. j \in 1 .. m.i - 1
      BY <2>1, <2>3
    <3>2. Named(Seeds[j]) # {}
      BY <3>1 DEF ProcessOK, SeededSoFar
    <3> QED
      BY <2>1, <3>2
  <2> QED
    BY <2>2, <2>3
<1>5. CASE m.i < Len(Seeds)
  <2> DEFINE n == [m EXCEPT !.i = @ + 1, !.found = 0]
  <2>1. /\ n \in MemType /\ n.stage = "seed" /\ n.i = m.i + 1
        /\ n.flags = m.flags /\ n.file = m.file
    <3> DEFINE n1 == [m EXCEPT !.i = @ + 1]
    <3>1. /\ n1 \in MemType /\ n1.stage = m.stage /\ n1.i = m.i + 1
          /\ n1.flags = m.flags /\ n1.file = m.file
      BY <1>1 DEF MemType
    <3>2. n = [n1 EXCEPT !.found = 0]
      BY <1>1 DEF MemType
    <3> HIDE DEF n1, n
    <3>3. [n1 EXCEPT !.found = 0] \in MemType
      BY <3>1 DEF MemType
    <3>4. /\ [n1 EXCEPT !.found = 0].stage = n1.stage /\ [n1 EXCEPT !.found = 0].i = n1.i
          /\ [n1 EXCEPT !.found = 0].flags = n1.flags /\ [n1 EXCEPT !.found = 0].file = n1.file
      BY <3>1 DEF MemType
    <3> QED
      BY <1>2, <3>1, <3>2, <3>3, <3>4
  <2>2. Goto(p, "find_seed", n) /\ "find_seed" \in Steps
    BY <1>5 DEF NextSeed, Steps
  <2> HIDE DEF n
  <2>3. /\ ControlOK' /\ OthersStay(p)
        /\ pc'[p] = "find_seed" /\ mem'[p] = n /\ outcome'[p] = outcome[p]
    BY <1>1, <2>1, <2>2, GotoOK
  <2>4. LocalsOK(p)'
    <3>1. n.i \in 1 .. Len(Seeds)
      BY <1>2, <1>5, <2>1, TableFacts
    <3> QED
      BY <1>2, <2>1, <2>3, <3>1 DEF LocalsOK, TableSteps, SeedSteps
  <2>5. MigratedSoFar(p)'
    BY <1>3, <2>1, <2>3 DEF MigratedSoFar, TableSteps
  <2>6. SeededSoFar(p)'
    <3>1. n.i - 1 = m.i
      BY <1>2, <2>1, TableFacts
    <3>2. calm'[p] => \A j \in 1 .. n.i - 1 : Named(Seeds[j])' # {}
      BY <1>4, <3>1
    <3> QED
      BY <2>3, <3>2 DEF SeededSoFar, SeedSteps, Served
  <2> QED
    BY <1>2, <2>3, <2>4, <2>5, <2>6 DEF ProcessOK
<1>6. CASE m.i = Len(Seeds)
  <2>1. AfterSeed(p, m)
    BY <1>2, <1>6, TableFacts DEF NextSeed
  <2>2. calm'[p] => AllSeeds'
    BY <1>4, <1>6, TableFacts DEF AllSeeds
  <2> QED
    BY <1>1, <1>2, <1>3, <2>1, <2>2, AfterSeedOK
<1> QED
  BY <1>2, <1>5, <1>6, TableFacts

-----------------------------------------------------------------------------
(* A step of one process, and the others.                                   *)

\* Why a start that nobody disturbed failed.
Explained(p) ==
    outcome[p] = "failed" /\ calm[p] =>
        \/ Twins
        \/ \E i \in DOMAIN Seeds, u \in DOMAIN users :
               users[u].email = Seeds[i] /\ ~users[u].live

\* Nobody is calm any more whom a change of the tables could concern.
Undisturbed(q) ==
    calm'[q] => /\ calm[q] /\ users' = users /\ tables' = tables /\ indexed' = indexed
                /\ up => up'

\* A process that does nothing keeps what it knows.
LEMMA StaysOK ==
    ASSUME NEW q \in Processes, ProcessOK(q), Explained(q), Undisturbed(q),
           pc'[q] = pc[q], mem'[q] = mem[q], outcome'[q] = outcome[q],
           tables \subseteq tables', indexed => indexed'
    PROVE  ProcessOK(q)' /\ Explained(q)'
<1>1. ToCreate(q)' = ToCreate(q) /\ Table(q)' = Table(q)
  BY DEF ToCreate, Table
<1>2. Seed(q)' = Seed(q)
  BY DEF Seed
<1>3. LocalsOK(q)'
  BY <1>1 DEF ProcessOK, LocalsOK, Undisturbed
<1>4. MigratedSoFar(q)'
  BY <1>1 DEF ProcessOK, MigratedSoFar, AllTables, Undisturbed
<1>5. SeededSoFar(q)'
  BY <1>2 DEF ProcessOK, SeededSoFar, AllSeeds, Named, Undisturbed
<1>6. Explained(q)'
  BY DEF Explained, Twins, Undisturbed
<1> QED
  BY <1>3, <1>4, <1>5, <1>6 DEF ProcessOK

\* What the steps leave behind in the tables, the log and the rest.
DataOK ==
    /\ up \in BOOLEAN /\ indexed \in BOOLEAN /\ careless \in BOOLEAN /\ now \in 1 .. Months
    /\ tables \subseteq {Tables[i] : i \in DOMAIN Tables}
    /\ users \in Seq(UserType)
    /\ log \in [1 .. Months -> SUBSET (1 .. Months)]
    /\ calm \in [Processes -> BOOLEAN]

TwinsOK == NoTwin /\ (indexed => ~Twins)

\* A step of process p keeps the invariant when it does so for p and for the data.
LEMMA StepOK ==
    ASSUME IInv, NEW p \in Processes, OthersStay(p), ControlOK', DataOK', TwinsOK',
           ProcessOK(p)', Explained(p)', tables \subseteq tables', indexed => indexed',
           \A q \in Processes \ {p} : Undisturbed(q)
    PROVE  IInv'
<1>1. \A q \in Processes : ProcessOK(q)' /\ Explained(q)'
  <2> SUFFICES ASSUME NEW q \in Processes PROVE ProcessOK(q)' /\ Explained(q)'
    OBVIOUS
  <2>1. CASE q = p
    BY <2>1
  <2>2. CASE q # p
    <3>1. ProcessOK(q) /\ Explained(q)
      BY DEF IInv, FailsForAReason, Explained
    <3>2. Undisturbed(q) /\ pc'[q] = pc[q] /\ mem'[q] = mem[q] /\ outcome'[q] = outcome[q]
      BY <2>2 DEF OthersStay
    <3> QED
      BY <3>1, <3>2, StaysOK
  <2> QED
    BY <2>1, <2>2
<1>2. TypeOK'
  BY DEF TypeOK, ControlOK, DataOK
<1>3. FailsForAReason'
  BY <1>1 DEF FailsForAReason, Explained
<1> QED
  BY <1>1, <1>2, <1>3 DEF IInv, TwinsOK

-----------------------------------------------------------------------------
(* Each step keeps the invariant.                                           *)

LEMMA InvariantParts ==
    ASSUME IInv
    PROVE  /\ TypeOK /\ ControlOK /\ DataOK /\ TwinsOK
           /\ \A p \in Processes : ProcessOK(p) /\ Explained(p)
  BY DEF IInv, TypeOK, ControlOK, DataOK, FailsForAReason, Explained, TwinsOK

LEMMA LogsOK ==
    ASSUME DataOK, NEW p, NEW file \in 1 .. Months, Logs(p, file)
    PROVE  log' \in [1 .. Months -> SUBSET (1 .. Months)]
  BY DEF DataOK, Logs

\* Nothing that a process may know changes, or nobody is calm any more.
LEMMA NobodySteps ==
    ASSUME IInv, UNCHANGED <<pc, mem, outcome>>, DataOK', TwinsOK', tables \subseteq tables',
           indexed => indexed', \A q \in Processes : Undisturbed(q)
    PROVE  IInv'
<1>1. \A q \in Processes : ProcessOK(q)' /\ Explained(q)'
  BY InvariantParts, StaysOK
<1>2. TypeOK' /\ FailsForAReason'
  BY <1>1, InvariantParts DEF TypeOK, ControlOK, DataOK, FailsForAReason, Explained
<1> QED
  BY <1>1, <1>2 DEF IInv, TwinsOK

LEMMA StartKeeps ==
    ASSUME IInv, NEW p \in Processes, Start(p)
    PROVE  IInv'
<1>1. PICK f \in Commands : /\ pc' = [pc EXCEPT ![p] = "connect"]
                            /\ mem' = [mem EXCEPT ![p] = [NoMem EXCEPT !.flags = f]]
  BY DEF Start
<1> DEFINE n == [NoMem EXCEPT !.flags = f]
<1>2. n \in MemType /\ n.stage = "migrate" /\ n.i = 1
  BY StartupAssumption, NoMemType DEF MemType, NoMem
<1>3. mem' = [mem EXCEPT ![p] = n]
  BY <1>1
<1> HIDE DEF n
<1>4. "connect" \in Steps /\ "none" \in Outcomes
  BY DEF Steps, Outcomes
<1>5. /\ outcome' = [outcome EXCEPT ![p] = "none"] /\ calm' = [calm EXCEPT ![p] = TRUE]
      /\ UNCHANGED <<up, tables, users, indexed, careless, now, log>>
  BY DEF Start, database
<1>6. ControlOK' /\ OthersStay(p) /\ pc'[p] = "connect" /\ mem'[p] = n /\ outcome'[p] = "none"
  BY <1>1, <1>2, <1>3, <1>4, <1>5, InvariantParts DEF ControlOK, OthersStay
<1>7. DataOK' /\ TwinsOK'
  BY <1>5, InvariantParts DEF DataOK, TwinsOK, NoTwin, Twins
<1>8. ProcessOK(p)' /\ Explained(p)'
  BY <1>2, <1>6 DEF ProcessOK, LocalsOK, MigratedSoFar, SeededSoFar, Explained,
                    TableSteps, SeedSteps, Served
<1>9. \A q \in Processes \ {p} : Undisturbed(q)
  BY <1>5, InvariantParts DEF Undisturbed, DataOK
<1> QED
  BY <1>5, <1>6, <1>7, <1>8, <1>9, StepOK

LEMMA KillKeeps ==
    ASSUME IInv, NEW p \in Processes, Kill(p)
    PROVE  IInv'
<1>1. /\ End(p, "killed") /\ "killed" \in Outcomes
      /\ UNCHANGED <<up, tables, users, indexed, careless, now, log, calm>>
  BY DEF Kill, Quiet, database, Outcomes
<1>2. /\ ControlOK' /\ OthersStay(p)
      /\ pc'[p] = "down" /\ mem'[p] = NoMem /\ outcome'[p] = "killed"
  BY <1>1, InvariantParts, EndOK
<1>3. ProcessOK(p)' /\ Explained(p)'
  BY <1>2, DownOK DEF Explained
<1>4. DataOK' /\ TwinsOK' /\ \A q \in Processes \ {p} : Undisturbed(q)
  BY <1>1, InvariantParts DEF DataOK, TwinsOK, NoTwin, Twins, Undisturbed
<1> QED
  BY <1>1, <1>2, <1>3, <1>4, StepOK

LEMMA ConnectKeeps ==
    ASSUME IInv, NEW p \in Processes, Connect(p)
    PROVE  IInv'
<1> DEFINE m == mem[p]
<1>1. UNCHANGED <<up, tables, users, indexed, careless, now, calm>> /\ pc[p] = "connect"
  BY DEF Connect, Quiet, database
<1>2. /\ m \in MemType /\ m.stage = "migrate" /\ m.i = 1 /\ outcome[p] = "none"
      /\ now \in 1 .. Months /\ ControlOK /\ DataOK
  BY <1>1, InvariantParts DEF ControlOK, DataOK, ProcessOK, LocalsOK
<1>3. ControlOK' /\ OthersStay(p) /\ ProcessOK(p)' /\ outcome'[p] # "failed"
  <2>1. CASE ~up
    <3>1. End(p, "no_database") /\ "no_database" \in Outcomes
      BY <2>1 DEF Connect, Outcomes
    <3> QED
      BY <1>2, <3>1, EndOK, DownOK
  <2>2. CASE up
    <3> DEFINE n == [m EXCEPT !.file = now]
    <3>1. /\ n \in MemType /\ n.stage = "migrate" /\ n.i = 1
          /\ n.flags = m.flags /\ n.file = now
      BY <1>2 DEF MemType
    <3>2. AfterConnect(p, n)
      BY <2>2 DEF Connect
    <3> HIDE DEF n
    <3>3. CASE "migrate" \in n.flags
      <4>1. Goto(p, "has_table", n) /\ "has_table" \in Steps
        BY <3>2, <3>3 DEF AfterConnect, Steps
      <4>2. /\ ControlOK' /\ OthersStay(p)
            /\ pc'[p] = "has_table" /\ mem'[p] = n /\ outcome'[p] = outcome[p]
        BY <1>2, <3>1, <4>1, GotoOK
      <4>3. ToCreate(p)' = Tables
        BY <3>1, <4>2 DEF ToCreate
      <4>4. 1 \in 1 .. Len(Tables)
        BY TableFacts
      <4>5. ProcessOK(p)'
        BY <1>1, <1>2, <2>2, <3>1, <3>3, <4>2, <4>3, <4>4
           DEF ProcessOK, LocalsOK, MigratedSoFar, SeededSoFar, TableSteps, SeedSteps, Served
      <4> QED
        BY <1>2, <4>2, <4>5
    <3>4. CASE "migrate" \notin n.flags
      <4>1. AfterMigrate(p, n)
        BY <3>2, <3>4 DEF AfterConnect
      <4> QED
        BY <1>1, <1>2, <2>2, <3>1, <3>4, <4>1, AfterMigrateOK
    <3> QED
      BY <3>3, <3>4
  <2> QED
    BY <2>1, <2>2
<1>4. log' \in [1 .. Months -> SUBSET (1 .. Months)]
  BY <1>2, LogsOK DEF Connect, DataOK
<1>5. DataOK' /\ TwinsOK' /\ \A q \in Processes \ {p} : Undisturbed(q)
  BY <1>1, <1>4, InvariantParts DEF DataOK, TwinsOK, NoTwin, Twins, Undisturbed
<1>6. Explained(p)'
  BY <1>3 DEF Explained
<1> QED
  BY <1>1, <1>3, <1>5, <1>6, StepOK

\* What a running process knows besides.
LEMMA RunningFacts ==
    ASSUME IInv, NEW p \in Processes, pc[p] \notin {"down", "connect"}
    PROVE  /\ mem[p] \in MemType /\ mem[p].file \in 1 .. Months /\ outcome[p] = "none"
           /\ calm[p] => up
           /\ TypeOK /\ ControlOK /\ DataOK /\ TwinsOK /\ ProcessOK(p)
  BY InvariantParts DEF ControlOK, ProcessOK, LocalsOK

\* A statement that only reads keeps the invariant when it does so for its process.
LEMMA ReadOK ==
    ASSUME IInv, NEW p \in Processes, pc[p] \notin {"down", "connect"}, Logs(p, mem[p].file),
           UNCHANGED <<up, tables, users, indexed, careless, now, calm>>,
           ControlOK', OthersStay(p), ProcessOK(p)', Explained(p)'
    PROVE  IInv'
<1>1. DataOK /\ TwinsOK /\ mem[p].file \in 1 .. Months
  BY RunningFacts
<1>2. log' \in [1 .. Months -> SUBSET (1 .. Months)]
  BY <1>1, LogsOK
<1>3. DataOK'
  BY <1>1, <1>2 DEF DataOK
<1>4. TwinsOK'
  BY <1>1 DEF TwinsOK, NoTwin, Twins
<1>5. \A q \in Processes \ {p} : Undisturbed(q)
  BY DEF Undisturbed
<1> QED
  BY <1>3, <1>4, <1>5, StepOK

\* From one statement on a table to the next.
LEMMA SameTableOK ==
    ASSUME IInv, NEW p \in Processes, pc[p] \in TableSteps, NEW step \in TableSteps,
           Goto(p, step, mem[p]), tables \subseteq tables', indexed => indexed',
           calm'[p] => calm[p] /\ up',
           step \in {"check_table", "has_index", "create_index"} => Table(p) \in tables',
           step = "create_table" /\ calm'[p] => Table(p) \notin tables'
    PROVE  /\ ControlOK' /\ OthersStay(p) /\ ProcessOK(p)' /\ outcome'[p] # "failed"
<1>1. /\ mem[p] \in MemType /\ mem[p].file \in 1 .. Months /\ outcome[p] = "none"
      /\ ControlOK /\ ProcessOK(p)
  BY RunningFacts DEF TableSteps
<1>2. step \in Steps
  BY DEF TableSteps, Steps
<1>3. /\ ControlOK' /\ OthersStay(p)
      /\ pc'[p] = step /\ mem'[p] = mem[p] /\ outcome'[p] = outcome[p]
  BY <1>1, <1>2, GotoOK
<1>4. ToCreate(p)' = ToCreate(p) /\ Table(p)' = Table(p)
  BY <1>3 DEF ToCreate, Table
<1>5. step \notin SeedSteps \cup Served /\ step \notin {"down", "connect", "count_seed", "create_seed"}
  BY DEF TableSteps, SeedSteps, Served
<1>6. LocalsOK(p)' /\ SeededSoFar(p)'
  BY <1>1, <1>3, <1>4, <1>5 DEF ProcessOK, LocalsOK, SeededSoFar
<1>7. MigratedSoFar(p)'
  BY <1>1, <1>3, <1>4, <1>5 DEF ProcessOK, MigratedSoFar, AllTables
<1> QED
  BY <1>1, <1>3, <1>6, <1>7 DEF ProcessOK

\* A process that ends over a statement, for a reason.
LEMMA FailOK ==
    ASSUME ControlOK, NEW p \in Processes, End(p, "failed"),
           calm'[p] => Explained(p)'
    PROVE  ControlOK' /\ OthersStay(p) /\ ProcessOK(p)' /\ Explained(p)'
<1>1. "failed" \in Outcomes
  BY DEF Outcomes
<1>2. ControlOK' /\ OthersStay(p) /\ pc'[p] = "down" /\ mem'[p] = NoMem
  BY <1>1, EndOK
<1> QED
  BY <1>2, DownOK DEF Explained

LEMMA HasTableKeeps ==
    ASSUME IInv, NEW p \in Processes, HasTable(p)
    PROVE  IInv'
<1>1. /\ UNCHANGED <<up, tables, users, indexed, careless, now, calm>> /\ Logs(p, mem[p].file)
      /\ pc[p] = "has_table" /\ pc[p] \in TableSteps
  BY DEF HasTable, Quiet, database, TableSteps
<1>2. (calm[p] => up) /\ TypeOK /\ ProcessOK(p) /\ mem[p] \in MemType
  BY <1>1, RunningFacts
<1>3. CASE ~(up /\ Table(p) \in tables) /\ Goto(p, "create_table", mem[p])
  <2>1. "create_table" \in TableSteps
    BY DEF TableSteps
  <2>2. ControlOK' /\ OthersStay(p) /\ ProcessOK(p)' /\ outcome'[p] # "failed"
    BY <1>1, <1>2, <1>3, <2>1, SameTableOK
  <2> QED
    BY <1>1, <2>2, ReadOK DEF Explained
<1>4. CASE up /\ Table(p) \in tables /\ mem[p].stage = "seed" /\ AfterTable(p)
  <2>1. ControlOK' /\ OthersStay(p) /\ ProcessOK(p)' /\ outcome'[p] # "failed"
    BY <1>1, <1>2, <1>4, AfterTableOK
  <2> QED
    BY <1>1, <2>1, ReadOK DEF Explained
<1>5. CASE up /\ Table(p) \in tables /\ Goto(p, "check_table", mem[p])
  <2>1. "check_table" \in TableSteps
    BY DEF TableSteps
  <2>2. ControlOK' /\ OthersStay(p) /\ ProcessOK(p)' /\ outcome'[p] # "failed"
    BY <1>1, <1>2, <1>5, <2>1, SameTableOK
  <2> QED
    BY <1>1, <2>2, ReadOK DEF Explained
<1> QED
  BY <1>3, <1>4, <1>5 DEF HasTable

LEMMA CheckTableKeeps ==
    ASSUME IInv, NEW p \in Processes, CheckTable(p)
    PROVE  IInv'
<1>1. /\ UNCHANGED <<up, tables, users, indexed, careless, now, calm>> /\ Logs(p, mem[p].file)
      /\ pc[p] = "check_table" /\ pc[p] \in TableSteps
  BY DEF CheckTable, Quiet, database, TableSteps
<1>2. (calm[p] => up) /\ TypeOK /\ ControlOK /\ ProcessOK(p)
  BY <1>1, RunningFacts
<1>3. Table(p) \in tables
  BY <1>1, <1>2 DEF ProcessOK, MigratedSoFar
<1>4. CASE ~up /\ End(p, "failed")
  <2>1. ControlOK' /\ OthersStay(p) /\ ProcessOK(p)' /\ Explained(p)'
    BY <1>1, <1>2, <1>4, FailOK
  <2> QED
    BY <1>1, <2>1, ReadOK
<1>5. CASE up /\ Goto(p, "has_index", mem[p])
  <2>1. "has_index" \in TableSteps
    BY DEF TableSteps
  <2>2. ControlOK' /\ OthersStay(p) /\ ProcessOK(p)' /\ outcome'[p] # "failed"
    BY <1>1, <1>2, <1>3, <1>5, <2>1, SameTableOK
  <2> QED
    BY <1>1, <2>2, ReadOK DEF Explained
<1>6. CASE up /\ Table(p) # "users" /\ AfterTable(p)
  <2>1. ControlOK' /\ OthersStay(p) /\ ProcessOK(p)' /\ outcome'[p] # "failed"
    BY <1>1, <1>2, <1>3, <1>6, AfterTableOK
  <2> QED
    BY <1>1, <2>1, ReadOK DEF Explained
<1> QED
  BY <1>4, <1>5, <1>6 DEF CheckTable

LEMMA HasIndexKeeps ==
    ASSUME IInv, NEW p \in Processes, HasIndex(p)
    PROVE  IInv'
<1>1. /\ UNCHANGED <<up, tables, users, indexed, careless, now, calm>> /\ Logs(p, mem[p].file)
      /\ pc[p] = "has_index" /\ pc[p] \in TableSteps
  BY DEF HasIndex, Quiet, database, TableSteps
<1>2. (calm[p] => up) /\ TypeOK /\ ProcessOK(p)
  BY <1>1, RunningFacts
<1>3. Table(p) \in tables
  BY <1>1, <1>2 DEF ProcessOK, MigratedSoFar
<1>4. CASE up /\ indexed /\ AfterTable(p)
  <2>1. ControlOK' /\ OthersStay(p) /\ ProcessOK(p)' /\ outcome'[p] # "failed"
    BY <1>1, <1>2, <1>3, <1>4, AfterTableOK
  <2> QED
    BY <1>1, <2>1, ReadOK DEF Explained
<1>5. CASE Goto(p, "create_index", mem[p])
  <2>1. "create_index" \in TableSteps
    BY DEF TableSteps
  <2>2. ControlOK' /\ OthersStay(p) /\ ProcessOK(p)' /\ outcome'[p] # "failed"
    BY <1>1, <1>2, <1>3, <1>5, <2>1, SameTableOK
  <2> QED
    BY <1>1, <2>2, ReadOK DEF Explained
<1> QED
  BY <1>4, <1>5 DEF HasIndex

\* A statement that makes something disturbs the others.
LEMMA DisturbsOK ==
    ASSUME DataOK, NEW p \in Processes, Disturbs(p)
    PROVE  /\ calm' \in [Processes -> BOOLEAN] /\ calm'[p] = calm[p]
           /\ \A q \in Processes \ {p} : Undisturbed(q)
  BY DEF Disturbs, DataOK, Undisturbed

LEMMA CreateTableKeeps ==
    ASSUME IInv, NEW p \in Processes, CreateTable(p)
    PROVE  IInv'
<1> DEFINE t == Table(p)
<1>1. /\ UNCHANGED <<up, users, indexed, careless, now>> /\ Logs(p, mem[p].file)
      /\ pc[p] = "create_table" /\ pc[p] \in TableSteps
  BY DEF CreateTable, TableSteps
<1>2. /\ mem[p].file \in 1 .. Months /\ (calm[p] => up)
      /\ TypeOK /\ ControlOK /\ DataOK /\ TwinsOK /\ ProcessOK(p)
  BY <1>1, RunningFacts
<1>3. log' \in [1 .. Months -> SUBSET (1 .. Months)]
  BY <1>1, <1>2, LogsOK
<1>4. t \in {Tables[i] : i \in DOMAIN Tables}
  BY <1>1, <1>2, TableFacts DEF ProcessOK, LocalsOK, ToCreate, Table
<1>5. calm[p] => t \notin tables
  BY <1>1, <1>2 DEF ProcessOK, MigratedSoFar
<1>6. CASE up /\ t \notin tables
  <2>1. /\ tables' = tables \cup {t} /\ Disturbs(p)
        /\ IF t = "users" THEN Goto(p, "create_index", mem[p]) ELSE AfterTable(p)
    BY <1>6 DEF CreateTable
  <2>2. /\ calm' \in [Processes -> BOOLEAN] /\ calm'[p] = calm[p]
        /\ \A q \in Processes \ {p} : Undisturbed(q)
    BY <1>2, <2>1, DisturbsOK
  <2>3. ControlOK' /\ OthersStay(p) /\ ProcessOK(p)' /\ outcome'[p] # "failed"
    <3>1. CASE t = "users"
      <4>1. "create_index" \in TableSteps
        BY DEF TableSteps
      <4> QED
        BY <1>1, <1>2, <2>1, <2>2, <3>1, <4>1, SameTableOK
    <3>2. CASE t # "users"
      BY <1>1, <1>2, <2>1, <2>2, <3>2, AfterTableOK
    <3> QED
      BY <3>1, <3>2
  <2>4. DataOK' /\ TwinsOK'
    BY <1>1, <1>2, <1>3, <1>4, <2>1, <2>2 DEF DataOK, TwinsOK, NoTwin, Twins
  <2> QED
    BY <1>1, <2>1, <2>2, <2>3, <2>4, StepOK DEF Explained
<1>7. CASE ~(up /\ t \notin tables)
  <2>1. End(p, "failed") /\ UNCHANGED <<calm, tables>>
    BY <1>7 DEF CreateTable, Quiet
  <2>2. ControlOK' /\ OthersStay(p) /\ ProcessOK(p)' /\ Explained(p)'
    BY <1>2, <1>5, <1>7, <2>1, FailOK
  <2> QED
    BY <1>1, <2>1, <2>2, ReadOK
<1> QED
  BY <1>6, <1>7

LEMMA CreateIndexKeeps ==
    ASSUME IInv, NEW p \in Processes, CreateIndex(p)
    PROVE  IInv'
<1>1. /\ UNCHANGED <<up, tables, users, careless, now>> /\ Logs(p, mem[p].file)
      /\ pc[p] = "create_index" /\ pc[p] \in TableSteps
  BY DEF CreateIndex, TableSteps
<1>2. /\ mem[p].file \in 1 .. Months /\ (calm[p] => up)
      /\ TypeOK /\ ControlOK /\ DataOK /\ TwinsOK /\ ProcessOK(p)
  BY <1>1, RunningFacts
<1>3. log' \in [1 .. Months -> SUBSET (1 .. Months)]
  BY <1>1, <1>2, LogsOK
<1>4. Table(p) \in tables
  BY <1>1, <1>2 DEF ProcessOK, MigratedSoFar
<1>5. CASE up /\ (indexed \/ ~Twins)
  <2>1. indexed' = TRUE /\ AfterTable(p) /\ Disturbs(p)
    BY <1>5 DEF CreateIndex
  <2>2. /\ calm' \in [Processes -> BOOLEAN] /\ calm'[p] = calm[p]
        /\ \A q \in Processes \ {p} : Undisturbed(q)
    BY <1>2, <2>1, DisturbsOK
  <2>3. ControlOK' /\ OthersStay(p) /\ ProcessOK(p)' /\ outcome'[p] # "failed"
    BY <1>1, <1>2, <1>4, <2>1, <2>2, AfterTableOK
  <2>4. DataOK' /\ TwinsOK'
    BY <1>1, <1>2, <1>3, <1>5, <2>1, <2>2 DEF DataOK, TwinsOK, NoTwin, Twins
  <2> QED
    BY <1>1, <2>1, <2>2, <2>3, <2>4, StepOK DEF Explained
<1>6. CASE ~(up /\ (indexed \/ ~Twins))
  <2>1. End(p, "failed") /\ UNCHANGED <<calm, indexed>>
    BY <1>6 DEF CreateIndex, Quiet
  <2>2. calm'[p] => Twins'
    BY <1>1, <1>2, <1>6, <2>1 DEF Twins
  <2>3. ControlOK' /\ OthersStay(p) /\ ProcessOK(p)' /\ Explained(p)'
    BY <1>2, <2>1, <2>2, FailOK DEF Explained
  <2> QED
    BY <1>1, <2>1, <2>3, ReadOK
<1> QED
  BY <1>5, <1>6

LEMMA FindSeedKeeps ==
    ASSUME IInv, NEW p \in Processes, FindSeed(p)
    PROVE  IInv'
<1> DEFINE m == mem[p]
           e == Seed(p)
<1>1. UNCHANGED <<up, tables, users, indexed, careless, now, calm>> /\ pc[p] = "find_seed"
  BY DEF FindSeed, Quiet, database
<1>2. /\ m \in MemType /\ m.file \in 1 .. Months /\ outcome[p] = "none" /\ (calm[p] => up)
      /\ TypeOK /\ ControlOK /\ DataOK /\ TwinsOK /\ ProcessOK(p)
  BY <1>1, RunningFacts
<1>3. log' \in [1 .. Months -> SUBSET (1 .. Months)]
  BY <1>2, LogsOK DEF FindSeed
<1>4. DataOK' /\ TwinsOK' /\ \A q \in Processes \ {p} : Undisturbed(q)
  BY <1>1, <1>2, <1>3 DEF DataOK, TwinsOK, NoTwin, Twins, Undisturbed
<1>5. CASE ~up /\ End(p, "failed")
  <2>1. ControlOK' /\ OthersStay(p) /\ pc'[p] = "down" /\ mem'[p] = NoMem
    BY <1>2, <1>5, EndOK DEF Outcomes
  <2>2. ProcessOK(p)' /\ ~calm'[p]
    BY <1>1, <1>2, <1>5, <2>1, DownOK
  <2>3. Explained(p)'
    BY <2>2 DEF Explained
  <2> QED
    BY <1>1, <1>4, <2>1, <2>2, <2>3, StepOK
<1>6. ASSUME NEW n \in MemType, Goto(p, "count_seed", n),
             n.flags = m.flags, n.file = m.file, n.stage = m.stage, n.i = m.i,
             Named(e) = {} \/ n.found \in Named(e)
      PROVE  IInv'
  <2>1. "count_seed" \in Steps
    BY DEF Steps
  <2>2. /\ ControlOK' /\ OthersStay(p)
        /\ pc'[p] = "count_seed" /\ mem'[p] = n /\ outcome'[p] = outcome[p]
    BY <1>2, <1>6, <2>1, GotoOK
  <2>3. Seed(p)' = e
    BY <1>6, <2>2 DEF Seed
  <2>4. LocalsOK(p)'
    BY <1>1, <1>2, <1>6, <2>2 DEF ProcessOK, LocalsOK, TableSteps, SeedSteps
  <2>5. MigratedSoFar(p)'
    BY <1>1, <1>2, <1>6, <2>2 DEF ProcessOK, MigratedSoFar, AllTables, TableSteps, SeedSteps, Served
  <2>6. SeededSoFar(p)'
    BY <1>1, <1>2, <1>6, <2>2, <2>3 DEF ProcessOK, SeededSoFar, Named, SeedSteps, Served
  <2>7. Explained(p)'
    BY <1>2, <2>2 DEF Explained
  <2> QED
    BY <1>1, <1>4, <2>2, <2>4, <2>5, <2>6, <2>7, StepOK DEF ProcessOK
<1>7. CASE up /\ Named(e) = {} /\ Goto(p, "count_seed", m)
  BY <1>2, <1>6, <1>7
<1>8. CASE up /\ \E u \in Named(e) : Goto(p, "count_seed", [m EXCEPT !.found = u])
  <2> PICK u \in Named(e) : Goto(p, "count_seed", [m EXCEPT !.found = u])
    BY <1>8
  <2> DEFINE n == [m EXCEPT !.found = u]
  <2>1. u \in Nat
    BY <1>2, LenProperties DEF Named, DataOK
  <2>2. /\ n \in MemType /\ n.flags = m.flags /\ n.file = m.file /\ n.stage = m.stage
        /\ n.i = m.i /\ n.found = u
    BY <1>2, <2>1 DEF MemType
  <2> HIDE DEF n
  <2>3. Goto(p, "count_seed", n)
    BY DEF n
  <2> QED
    BY <1>6, <2>2, <2>3
<1> QED
  BY <1>5, <1>7, <1>8 DEF FindSeed

LEMMA CountSeedKeeps ==
    ASSUME IInv, NEW p \in Processes, CountSeed(p)
    PROVE  IInv'
<1> DEFINE m == mem[p]
           e == Seed(p)
<1>1. UNCHANGED <<up, tables, users, indexed, careless, now, calm>> /\ pc[p] = "count_seed"
  BY DEF CountSeed, Quiet, database
<1>2. /\ m \in MemType /\ m.file \in 1 .. Months /\ outcome[p] = "none" /\ (calm[p] => up)
      /\ TypeOK /\ ControlOK /\ DataOK /\ TwinsOK /\ ProcessOK(p)
  BY <1>1, RunningFacts
<1>3. log' \in [1 .. Months -> SUBSET (1 .. Months)]
  BY <1>2, LogsOK DEF CountSeed
<1>4. DataOK' /\ TwinsOK' /\ \A q \in Processes \ {p} : Undisturbed(q)
  BY <1>1, <1>2, <1>3 DEF DataOK, TwinsOK, NoTwin, Twins, Undisturbed
<1>5. ControlOK' /\ OthersStay(p) /\ ProcessOK(p)' /\ outcome'[p] # "failed"
  <2>1. CASE up /\ \E u \in Named(e) : m.found \in {0, u}
    <3>1. NextSeed(p) /\ pc[p] \in SeedSteps
      BY <1>1, <2>1 DEF CountSeed, SeedSteps
    <3>2. \A i \in DOMAIN Seeds :
             Named(Seeds[i]) # {} \/ i = m.i => Named(Seeds[i])' # {}
      BY <1>1, <2>1 DEF Named, Seed
    <3> QED
      BY <1>1, <1>2, <2>1, <3>1, <3>2, NextSeedOK
  <2>2. CASE ~(up /\ \E u \in Named(e) : m.found \in {0, u})
    <3>1. Goto(p, "create_seed", m) /\ "create_seed" \in Steps
      BY <2>2 DEF CountSeed, Steps
    <3>2. /\ ControlOK' /\ OthersStay(p)
          /\ pc'[p] = "create_seed" /\ mem'[p] = m /\ outcome'[p] = outcome[p]
      BY <1>2, <3>1, GotoOK
    <3>3. Seed(p)' = e
      BY <3>2 DEF Seed
    <3>4. calm[p] => Named(e) = {}
      BY <1>1, <1>2, <2>2 DEF ProcessOK, SeededSoFar
    <3>5. LocalsOK(p)'
      BY <1>1, <1>2, <3>2 DEF ProcessOK, LocalsOK, TableSteps, SeedSteps
    <3>6. MigratedSoFar(p)'
      BY <1>1, <1>2, <3>2 DEF ProcessOK, MigratedSoFar, AllTables, TableSteps, SeedSteps, Served
    <3>7. SeededSoFar(p)'
      BY <1>1, <1>2, <3>2, <3>3, <3>4 DEF ProcessOK, SeededSoFar, Named, SeedSteps, Served
    <3> QED
      BY <1>2, <3>2, <3>5, <3>6, <3>7 DEF ProcessOK
  <2> QED
    BY <2>1, <2>2
<1>6. Explained(p)'
  BY <1>5 DEF Explained
<1> QED
  BY <1>1, <1>4, <1>5, <1>6, StepOK

\* A row that is inserted twins none when the index is there, and hides none.
LEMMA InsertOK ==
    ASSUME DataOK, indexed => ~Twins, NEW e \in Emails, ~Taken(e, 0),
           users' = Append(users, [email |-> e, live |-> TRUE])
    PROVE  /\ users' \in Seq(UserType) /\ (indexed => ~Twins')
           /\ \A f : Named(f) # {} \/ f = e => Named(f)' # {}
<1> DEFINE row == [email |-> e, live |-> TRUE]
           n == Len(users)
           n1 == n + 1
<1>1. row \in UserType /\ row.email = e /\ row.live
  BY DEF UserType
<1>2. users \in Seq(UserType)
  BY DEF DataOK
<1>3. n \in Nat /\ DOMAIN users = 1 .. n
  BY <1>2, LenProperties
<1> HIDE DEF row
<1>4. users' = Append(users, row)
  BY DEF row
<1>5. /\ users' \in Seq(UserType) /\ Len(users') = n1
      /\ \A i \in 1 .. n : users'[i] = users[i]
      /\ users'[n1] = row
  BY <1>1, <1>2, <1>4, AppendProperties
<1>6. DOMAIN users' = 1 .. n1
  BY <1>5, LenProperties
<1>7. n1 \notin 1 .. n /\ n1 \in 1 .. n1 /\ (\A i \in 1 .. n1 : i \in 1 .. n \/ i = n1)
      /\ \A i \in 1 .. n : i \in 1 .. n1
  BY <1>3
<1> HIDE DEF n, n1
<1>8. indexed => \A u \in 1 .. n : users[u].email # e
  <2> SUFFICES ASSUME indexed, NEW u \in 1 .. n PROVE users[u].email # e
    OBVIOUS
  <2>1. u # 0 /\ u \in DOMAIN users
    BY <1>3
  <2> QED
    BY <2>1 DEF Taken
<1>9. indexed => ~Twins'
  BY <1>1, <1>3, <1>5, <1>6, <1>7, <1>8 DEF Twins
<1>10. \A f : Named(f) # {} \/ f = e => Named(f)' # {}
  <2> SUFFICES ASSUME NEW f, Named(f) # {} \/ f = e PROVE Named(f)' # {}
    OBVIOUS
  <2>1. CASE f = e
    <3>1. n1 \in Named(f)'
      BY <1>1, <1>5, <1>6, <1>7, <2>1 DEF Named
    <3> QED
      BY <3>1
  <2>2. CASE Named(f) # {}
    <3>1. PICK u \in DOMAIN users : users[u].live /\ users[u].email = f
      BY <2>2 DEF Named
    <3>2. u \in Named(f)'
      BY <1>3, <1>5, <1>6, <1>7, <3>1 DEF Named
    <3> QED
      BY <3>2
  <2> QED
    BY <2>1, <2>2
<1> QED
  BY <1>5, <1>9, <1>10

\* Who writes without having seen to the index is noted.
LEMMA WritesOK ==
    ASSUME DataOK, NEW p, Writes(p), "migrate" \in mem[p].flags => indexed, indexed' = indexed,
           indexed => ~Twins'
    PROVE  TwinsOK' /\ careless' \in BOOLEAN
  BY DEF DataOK, Writes, TwinsOK, NoTwin

LEMMA CreateSeedKeeps ==
    ASSUME IInv, NEW p \in Processes, CreateSeed(p)
    PROVE  IInv'
<1> DEFINE m == mem[p]
           e == Seed(p)
<1>1. UNCHANGED <<up, tables, indexed, now>> /\ pc[p] = "create_seed"
  BY DEF CreateSeed
<1>2. /\ m \in MemType /\ m.file \in 1 .. Months /\ outcome[p] = "none" /\ (calm[p] => up)
      /\ TypeOK /\ ControlOK /\ DataOK /\ TwinsOK /\ ProcessOK(p)
  BY <1>1, RunningFacts
<1>3. log' \in [1 .. Months -> SUBSET (1 .. Months)]
  BY <1>2, LogsOK DEF CreateSeed
<1>4. m.i \in 1 .. Len(Seeds) /\ e = Seeds[m.i] /\ e \in Emails
  BY <1>1, <1>2, TableFacts DEF ProcessOK, LocalsOK, SeedSteps, Seed
<1>5. calm[p] => Named(e) = {}
  BY <1>1, <1>2 DEF ProcessOK, SeededSoFar
<1>6. CASE up /\ ~Taken(e, 0)
  <2>1. /\ users' = Append(users, [email |-> e, live |-> TRUE])
        /\ NextSeed(p) /\ Disturbs(p) /\ Writes(p)
    BY <1>6 DEF CreateSeed
  <2>2. /\ calm' \in [Processes -> BOOLEAN] /\ calm'[p] = calm[p]
        /\ \A q \in Processes \ {p} : Undisturbed(q)
    BY <1>2, <2>1, DisturbsOK
  <2>3. /\ users' \in Seq(UserType) /\ TwinsOK' /\ careless' \in BOOLEAN
        /\ \A f : Named(f) # {} \/ f = e => Named(f)' # {}
    <3>1. /\ users' \in Seq(UserType) /\ (indexed => ~Twins')
          /\ \A f : Named(f) # {} \/ f = e => Named(f)' # {}
      BY <1>2, <1>4, <1>6, <2>1, InsertOK DEF TwinsOK
    <3>2. "migrate" \in mem[p].flags => indexed
      BY <1>1, <1>2 DEF ProcessOK, MigratedSoFar, SeedSteps
    <3> QED
      BY <1>1, <1>2, <2>1, <3>1, <3>2, WritesOK
  <2>4. \A i \in DOMAIN Seeds : Named(Seeds[i]) # {} \/ i = m.i => Named(Seeds[i])' # {}
    BY <1>4, <2>3
  <2>5. pc[p] \in SeedSteps
    BY <1>1 DEF SeedSteps
  <2>6. ControlOK' /\ OthersStay(p) /\ ProcessOK(p)' /\ outcome'[p] # "failed"
    BY <1>1, <1>2, <1>6, <2>1, <2>2, <2>4, <2>5, NextSeedOK
  <2>7. DataOK'
    BY <1>1, <1>2, <1>3, <2>2, <2>3 DEF DataOK
  <2>8. (\A q \in Processes \ {p} : Undisturbed(q)) /\ Explained(p)'
    BY <2>2, <2>6 DEF Undisturbed, Explained
  <2> QED
    BY <1>1, <2>3, <2>6, <2>7, <2>8, StepOK
<1>7. CASE ~(up /\ ~Taken(e, 0))
  <2>1. End(p, "failed") /\ UNCHANGED <<calm, users, careless>> /\ "failed" \in Outcomes
    BY <1>7 DEF CreateSeed, Quiet, Outcomes
  <2>2. ControlOK' /\ OthersStay(p) /\ pc'[p] = "down" /\ mem'[p] = NoMem
    BY <1>2, <2>1, EndOK
  <2>3. ProcessOK(p)'
    BY <2>2, DownOK
  <2>4. DataOK' /\ TwinsOK' /\ \A q \in Processes \ {p} : Undisturbed(q)
    BY <1>1, <1>2, <1>3, <2>1 DEF DataOK, TwinsOK, NoTwin, Twins, Undisturbed
  <2>5. Explained(p)'
    <3> SUFFICES ASSUME calm[p]
                 PROVE  \E i \in DOMAIN Seeds, u \in DOMAIN users :
                           users[u].email = Seeds[i] /\ ~users[u].live
      BY <2>1 DEF Explained
    <3>1. Taken(e, 0) /\ Named(e) = {}
      BY <1>2, <1>5, <1>7
    <3>2. PICK u \in DOMAIN users : users[u].email = e
      BY <3>1 DEF Taken
    <3>3. ~users[u].live
      BY <3>1, <3>2 DEF Named
    <3>4. m.i \in DOMAIN Seeds
      BY <1>4, TableFacts
    <3> QED
      BY <1>4, <3>2, <3>3, <3>4
  <2> QED
    BY <1>1, <2>2, <2>3, <2>4, <2>5, StepOK
<1> QED
  BY <1>6, <1>7

LEMMA BindKeeps ==
    ASSUME IInv, NEW p \in Processes, Bind(p)
    PROVE  IInv'
<1> DEFINE m == mem[p]
<1>1. UNCHANGED <<up, tables, users, indexed, careless, now, log, calm>> /\ pc[p] = "bind"
  BY DEF Bind, Quiet, database
<1>2. /\ m \in MemType /\ m.file \in 1 .. Months /\ outcome[p] = "none" /\ (calm[p] => up)
      /\ TypeOK /\ ControlOK /\ DataOK /\ TwinsOK /\ ProcessOK(p)
  BY <1>1, RunningFacts
<1>3. ControlOK' /\ OthersStay(p) /\ ProcessOK(p)' /\ outcome'[p] # "failed"
  <2>1. CASE End(p, "port_taken")
    BY <1>2, <2>1, EndOK, DownOK DEF Outcomes
  <2>2. CASE Goto(p, "serving", m)
    <3>1. "serving" \in Steps
      BY DEF Steps
    <3>2. /\ ControlOK' /\ OthersStay(p)
          /\ pc'[p] = "serving" /\ mem'[p] = m /\ outcome'[p] = outcome[p]
      BY <1>2, <2>2, <3>1, GotoOK
    <3>3. ProcessOK(p)'
      BY <1>1, <1>2, <3>2 DEF ProcessOK, LocalsOK, MigratedSoFar, SeededSoFar, AllTables, AllSeeds,
                              Named, TableSteps, SeedSteps, Served
    <3> QED
      BY <1>2, <3>2, <3>3
  <2> QED
    BY <2>1, <2>2 DEF Bind
<1>4. DataOK' /\ TwinsOK' /\ \A q \in Processes \ {p} : Undisturbed(q)
  BY <1>1, <1>2 DEF DataOK, TwinsOK, NoTwin, Twins, Undisturbed
<1>5. Explained(p)'
  BY <1>3 DEF Explained
<1> QED
  BY <1>1, <1>3, <1>4, <1>5, StepOK

-----------------------------------------------------------------------------
(* The requests and the world.                                              *)

\* A request that writes users disturbs every process.
LEMMA WriteOK ==
    ASSUME IInv, NEW rows, Write(rows), rows \in Seq(UserType), indexed => ~Twins'
    PROVE  IInv'
<1>1. PICK p \in Processes :
         /\ pc[p] = "serving" /\ users' = rows /\ Logs(p, mem[p].file) /\ Writes(p)
         /\ calm' = [q \in Processes |-> FALSE]
         /\ UNCHANGED <<up, tables, indexed, now, pc, mem, outcome>>
  BY DEF Write
<1>2. DataOK /\ mem[p].file \in 1 .. Months /\ ProcessOK(p)
  BY <1>1, RunningFacts
<1>3. log' \in [1 .. Months -> SUBSET (1 .. Months)]
  BY <1>1, <1>2, LogsOK
<1>4. "migrate" \in mem[p].flags => indexed
  BY <1>1, <1>2 DEF ProcessOK, MigratedSoFar, Served
<1>5. TwinsOK' /\ careless' \in BOOLEAN
  BY <1>1, <1>2, <1>4, WritesOK
<1>6. DataOK' /\ \A q \in Processes : Undisturbed(q)
  BY <1>1, <1>2, <1>3, <1>5 DEF DataOK, Undisturbed
<1> QED
  BY <1>1, <1>5, <1>6, NobodySteps

LEMMA RequestKeeps ==
    ASSUME IInv,
           \/ \E e \in Emails : Register(e) \/ \E u \in DOMAIN users : Update(u, e)
           \/ \E u \in DOMAIN users : Delete(u)
    PROVE  IInv'
<1>1. DataOK /\ TwinsOK
  BY InvariantParts
<1>2. /\ users \in Seq(UserType) /\ Len(users) \in Nat /\ DOMAIN users = 1 .. Len(users)
      /\ \A u \in DOMAIN users : users[u] \in UserType
  BY <1>1, LenProperties, ElementOfSeq DEF DataOK
<1>3. ASSUME NEW e \in Emails, Register(e) PROVE IInv'
  <2>1. /\ Write(Append(users, [email |-> e, live |-> TRUE])) /\ ~Taken(e, 0)
    BY <1>3 DEF Register
  <2>2. users' = Append(users, [email |-> e, live |-> TRUE])
    BY <2>1 DEF Write
  <2>3. users' \in Seq(UserType) /\ (indexed => ~Twins')
    BY <1>1, <2>1, <2>2, InsertOK DEF TwinsOK
  <2> QED
    BY <2>1, <2>2, <2>3, WriteOK
<1>4. ASSUME NEW e \in Emails, NEW u \in DOMAIN users, Update(u, e) PROVE IInv'
  <2> DEFINE row == [users[u] EXCEPT !.email = e]
             rows == [users EXCEPT ![u] = row]
  <2>1. Write(rows) /\ ~Taken(e, u)
    BY <1>4 DEF Update
  <2>2. row \in UserType /\ row.email = e
    BY <1>2 DEF UserType
  <2> HIDE DEF row
  <2>3. /\ rows \in Seq(UserType) /\ Len(rows) = Len(users)
        /\ \A v \in 1 .. Len(users) : rows[v] = IF v = u THEN row ELSE users[v]
    BY <1>2, <2>2, ExceptSeq
  <2>4. users' = rows /\ DOMAIN rows = DOMAIN users
    BY <1>2, <2>1, <2>3, LenProperties DEF Write
  <2>5. indexed => \A v \in DOMAIN users : v # u => users[v].email # e
    BY <2>1 DEF Taken
  <2> HIDE DEF rows
  <2>6. indexed => ~Twins'
    BY <1>1, <1>2, <2>2, <2>3, <2>4, <2>5 DEF TwinsOK, Twins
  <2> QED
    BY <2>1, <2>3, <2>6, WriteOK
<1>5. ASSUME NEW u \in DOMAIN users, Delete(u) PROVE IInv'
  <2> DEFINE row == [users[u] EXCEPT !.live = FALSE]
             rows == [users EXCEPT ![u] = row]
  <2>1. Write(rows)
    BY <1>5 DEF Delete
  <2>2. row \in UserType /\ row.email = users[u].email
    BY <1>2 DEF UserType
  <2> HIDE DEF row
  <2>3. /\ rows \in Seq(UserType) /\ Len(rows) = Len(users)
        /\ \A v \in 1 .. Len(users) : rows[v] = IF v = u THEN row ELSE users[v]
    BY <1>2, <2>2, ExceptSeq
  <2>4. users' = rows /\ DOMAIN rows = DOMAIN users
    BY <1>2, <2>1, <2>3, LenProperties DEF Write
  <2> HIDE DEF rows
  <2>5. indexed => ~Twins'
    BY <1>1, <1>2, <2>2, <2>3, <2>4 DEF TwinsOK, Twins
  <2> QED
    BY <2>1, <2>3, <2>5, WriteOK
<1> QED
  BY <1>3, <1>4, <1>5

\* The database starts and stops, a month passes, or nothing happens.
LEMMA WorldKeeps ==
    ASSUME IInv, DatabaseStarts \/ DatabaseStops \/ MonthPasses \/ UNCHANGED vars
    PROVE  IInv'
<1>1. DataOK /\ TwinsOK
  BY InvariantParts
<1>2. CASE DatabaseStarts
  BY <1>1, <1>2, NobodySteps DEF DatabaseStarts, DataOK, TwinsOK, NoTwin, Twins, Undisturbed
<1>3. CASE DatabaseStops
  BY <1>1, <1>3, NobodySteps DEF DatabaseStops, DataOK, TwinsOK, NoTwin, Twins, Undisturbed
<1>4. CASE MonthPasses
  <2>1. (now % Months) + 1 \in 1 .. Months
    BY <1>1, StartupAssumption DEF DataOK
  <2>2. /\ now' \in 1 .. Months
        /\ UNCHANGED <<up, tables, users, indexed, careless, log, pc, mem, outcome, calm>>
    BY <1>4, <2>1 DEF MonthPasses, database
  <2>3. DataOK' /\ TwinsOK' /\ \A q \in Processes : Undisturbed(q)
    BY <1>1, <2>2 DEF DataOK, TwinsOK, NoTwin, Twins, Undisturbed
  <2> QED
    BY <2>2, <2>3, NobodySteps
<1>5. CASE UNCHANGED vars
  <2>1. UNCHANGED <<up, tables, users, indexed, careless, now, log, pc, mem, outcome, calm>>
    BY <1>5 DEF vars
  <2>2. DataOK' /\ TwinsOK' /\ \A q \in Processes : Undisturbed(q)
    BY <1>1, <2>1 DEF DataOK, TwinsOK, NoTwin, Twins, Undisturbed
  <2> QED
    BY <2>1, <2>2, NobodySteps
<1> QED
  BY <1>2, <1>3, <1>4, <1>5

-----------------------------------------------------------------------------
(* The theorems.                                                            *)

LEMMA InitOK == Init => IInv
<1> SUFFICES ASSUME Init PROVE IInv
  OBVIOUS
<1>1. TypeOK
  <2>1. 1 \in 1 .. Months /\ users \in Seq(UserType)
    BY StartupAssumption DEF Init
  <2>2. /\ pc \in [Processes -> Steps] /\ mem \in [Processes -> MemType]
        /\ outcome \in [Processes -> Outcomes] /\ calm \in [Processes -> BOOLEAN]
    BY NoMemType DEF Init, Steps, Outcomes
  <2> QED
    BY <2>1, <2>2 DEF Init, TypeOK
<1>2. NoTwin /\ FailsForAReason
  BY DEF Init, NoTwin, Twins, FailsForAReason
<1>3. \A p \in Processes : ProcessOK(p)
  BY DEF Init, ProcessOK, LocalsOK, MigratedSoFar, SeededSoFar, TableSteps, SeedSteps, Served, NoMem
<1> QED
  BY <1>1, <1>2, <1>3 DEF IInv, Init

LEMMA NextKeeps == IInv /\ [Next]_vars => IInv'
<1> SUFFICES ASSUME IInv, [Next]_vars PROVE IInv'
  OBVIOUS
<1>1. ASSUME NEW p \in Processes, Start(p) \/ Step(p) \/ Kill(p) PROVE IInv'
  BY <1>1, StartKeeps, KillKeeps, ConnectKeeps, HasTableKeeps, CheckTableKeeps,
     HasIndexKeeps, CreateTableKeeps, CreateIndexKeeps, FindSeedKeeps,
     CountSeedKeeps, CreateSeedKeeps, BindKeeps DEF Step
<1> QED
  BY <1>1, RequestKeeps, WorldKeeps DEF Next

\* Whatever is killed, repeated or run at a time, every process in flight knows what
\* the next statement needs: it is at a table or seed there is, those before it are
\* done, and while nobody disturbed it no statement of it can find the work done by
\* another (Commands, Migrate, ListUserSeeder).
THEOREM Invariance == Spec => []IInv
  BY InitOK, NextKeeps, PTL DEF Spec

\* The tables, the log and the locals of the processes keep their types, and no
\* process logs before it has a file.
THEOREM TypeCorrect == Spec => []TypeOK
<1>1. IInv => TypeOK
  BY DEF IInv
<1> QED
  BY <1>1, Invariance, PTL

\* As long as only processes that migrated write, no interleaving of seeders and
\* registrations makes two rows of one email, whatever was killed between a table and
\* its index.
THEOREM SeedersTwinNone == Spec => []NoTwin
<1>1. IInv => NoTwin
  BY DEF IInv
<1> QED
  BY <1>1, Invariance, PTL

\* From whatever an earlier process left, a table without its index included, a start
\* that nobody disturbs fails only when the account of a seed was deleted or two rows
\* have one email.
THEOREM StartsResume == Spec => []FailsForAReason
<1>1. IInv => FailsForAReason
  BY DEF IInv
<1> QED
  BY <1>1, Invariance, PTL

\* A server that begins to serve has the tables and the index it migrated and,
\* undisturbed, a live account for each seed.
THEOREM ServerIsPrepared == Spec => []ServesPrepared
<1>1. IInv => ServesPrepared
  BY DEF IInv, ServesPrepared, ProcessOK, MigratedSoFar, SeededSoFar, Served
<1> QED
  BY <1>1, Invariance, PTL
=============================================================================
