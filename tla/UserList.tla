------------------------------ MODULE UserList ------------------------------
(***************************************************************************)
(* GET /api/user, the list of users page by page: each request counts in    *)
(* one statement and reads its page in another, without an order and        *)
(* without a transaction, while accounts are made, changed and deleted.     *)
(***************************************************************************)
EXTENDS Integers, SequencesExt

CONSTANTS Users,
          Pages, Sizes,   \* what a client may ask for, any integers
          DefaultSize,    \* 10 in the code
          IntLimit,       \* ints are -IntLimit .. IntLimit - 1, 2^63 in the code
          MaxWrites       \* bound: writes during one walk, or within one request

ASSUME UserListAssumption ==
    /\ Pages \subseteq Int /\ Sizes \subseteq Int
    /\ DefaultSize \in Nat \ {0} /\ IntLimit \in Nat /\ MaxWrites \in Nat
    /\ IsFiniteSet(Users) /\ Cardinality(Users) < IntLimit

VARIABLES
    rows,      \* the live users whose name matches the search
    pc, req,   \* the request, and whether it counts or finds next
    count,     \* its local
    split,     \* the writes since it counted (history)
    reply,     \* the last answer, with the writes between its statements
    walk       \* a client that asks for page after page (history)

vars == <<rows, pc, req, count, split, reply, walk>>

RequestType == [page : Int, per : Int]
ReplyType   == [page : Int, per : Int, count : Nat, max : Int, data : Seq(Users), split : Nat]
\* from: who was there when it began; saw: who was shown, page after page; noise:
\* the writes since.
WalkType == [on : BOOLEAN, from : SUBSET Users, saw : Seq(Users), noise : Nat]

NoReply == [page |-> 0, per |-> 0, count |-> 0, max |-> 0, data |-> <<>>, split |-> 0]
NoWalk  == [on |-> FALSE, from |-> {}, saw |-> <<>>, noise |-> 0]

Init ==
    /\ rows \in SUBSET Users
    /\ pc = "idle" /\ req = [page |-> 0, per |-> 0]
    /\ count = 0 /\ split = 0 /\ reply = NoReply /\ walk = NoWalk

-----------------------------------------------------------------------------
(* The arithmetic of a page.                                                *)

Wrap(n) == ((n + IntLimit) % (2 * IntLimit)) - IntLimit

Default(q) == [page |-> IF q.page = 0 THEN 1 ELSE q.page,
               per  |-> IF q.per = 0 THEN DefaultSize ELSE q.per]

\* Mutation: the last row of a page is shown again on the next one.
MutantOverlap(q) == Wrap((q.page - 1) * q.per) - 1

Offset(q) == Wrap((q.page - 1) * q.per)

\* Mutation: the last page is dropped when it is not full.
MutantFloor(n, per) == IF per > 0 THEN n \div per ELSE -(n \div (-per))

\* Mutation: one more page than needed when the last one is full.
MutantPlusOne(n, per) == IF per > 0 THEN n \div per + 1 ELSE -(n \div (-per))

\* math.Ceil of the quotient.
TotalPage(n, per) == IF per > 0 THEN (n + per - 1) \div per ELSE -(n \div (-per))

\* A negative limit is no limit, and an offset below one is none.
Selected(s, offset, limit) ==
    LET first == IF offset > 0 THEN offset + 1 ELSE 1
        last  == IF limit < 0 THEN Len(s) ELSE first + limit - 1
    IN  SubSeq(s, first, IF last < Len(s) THEN last ELSE Len(s))

-----------------------------------------------------------------------------
(* A request.                                                               *)

GetAllUser(q) ==
    /\ pc = "idle"
    /\ pc' = "count" /\ req' = Default(q)
    /\ reply' = NoReply
    /\ UNCHANGED <<rows, count, split>>

\* Somebody asks for any page.
Ask == /\ ~walk.on
       /\ \E p \in Pages, n \in Sizes : GetAllUser([page |-> p, per |-> n])
       /\ walk' = NoWalk

\* A client asks for all of them, from the first page on.
BeginWalk == /\ ~walk.on
             /\ \E n \in Sizes : GetAllUser([page |-> 1, per |-> n])
             /\ walk' = [NoWalk EXCEPT !.on = TRUE, !.from = rows]

NextPage == /\ walk.on /\ reply.page < reply.max
            /\ GetAllUser([page |-> reply.page + 1, per |-> reply.per])
            /\ UNCHANGED walk

EndWalk == /\ walk.on /\ pc = "idle" /\ reply.page >= reply.max
           /\ walk' = NoWalk /\ reply' = NoReply
           /\ UNCHANGED <<rows, pc, req, count, split>>

Count == /\ pc = "count"
         /\ pc' = "find" /\ count' = Cardinality(rows)
         /\ UNCHANGED <<rows, req, split, reply, walk>>

\* Mutation: the users come joined with another table, each as often as it has rows.
MutantJoined == {s \o s : s \in SetToSeqs(rows)}

\* No statement asks for an order: each meets the rows in any, another one every time.
Scans == SetToSeqs(rows)

Find == \E s \in Scans :
            LET data == Selected(s, Offset(req), req.per)
            IN  /\ pc = "find"
                /\ reply' = [page |-> req.page, per |-> req.per, count |-> count,
                             max |-> TotalPage(count, req.per), data |-> data, split |-> split]
                /\ walk' = IF walk.on THEN [walk EXCEPT !.saw = @ \o data] ELSE walk
                /\ pc' = "idle" /\ count' = 0 /\ split' = 0
                /\ UNCHANGED <<rows, req>>

\* A statement fails: there is no answer, and a client that walks gives up.
Fail == /\ pc \in {"count", "find"}
        /\ pc' = "idle" /\ count' = 0 /\ split' = 0 /\ walk' = NoWalk
        /\ UNCHANGED <<rows, req, reply>>

-----------------------------------------------------------------------------
(* What other requests do to the rows meanwhile.                            *)

Meanwhile ==
    /\ split' = IF pc = "find" THEN split + 1 ELSE split
    /\ walk' = IF walk.on THEN [walk EXCEPT !.noise = @ + 1] ELSE walk
    /\ split < MaxWrites /\ walk.noise < MaxWrites
    /\ UNCHANGED <<pc, req, count, reply>>

Comes(u)  == u \notin rows /\ rows' = rows \cup {u} /\ Meanwhile
Leaves(u) == u \in rows /\ rows' = rows \ {u} /\ Meanwhile

Register(u) == Comes(u)
\* The new name matches the search and the old one did not, or the other way round.
Update(u)   == Comes(u) \/ Leaves(u)
Delete(u)   == Leaves(u)

Next == \/ Ask \/ BeginWalk \/ NextPage \/ EndWalk \/ Count \/ Find \/ Fail
        \/ \E u \in Users : Register(u) \/ Update(u) \/ Delete(u)

Spec == Init /\ [][Next]_vars

-----------------------------------------------------------------------------
(* Properties.                                                              *)

\* The request, its locals and the answer hold values of their types, and no answer
\* names a user twice (dto.PaginationRequest, dto.PaginationResponse).
TypeOK ==
    /\ rows \subseteq Users
    /\ pc \in {"idle", "count", "find"}
    /\ req \in RequestType /\ count \in Nat /\ split \in Nat
    /\ reply \in ReplyType /\ IsInjective(reply.data)
    /\ walk \in WalkType

\* How many of n rows a page of a size has room for behind the first ones.
Room(n, first, per) == IF n <= first THEN 0
                       ELSE IF per < 0 \/ first + per > n THEN n - first ELSE per

Clip(n) == IF n > 0 THEN n ELSE 0

Near(n, m, d) == n <= m + d /\ m <= n + d

IsInt(n) == -IntLimit <= n /\ n < IntLimit

\* Whatever was asked for: max_page is the page that the last row counted is on, and
\* the answer has as many rows as there is room for on that page of a number of users
\* that differs from count by no more than the writes between its two statements.
\* Negative pages begin at the first row and negative sizes take all rows; only where
\* an int does not hold the first row's place nothing but the size is kept (Default,
\* Paginate, TotalPage, GetAllUserWithPagination).
ReplyAddsUp ==
    LET first == (reply.page - 1) * reply.per
    IN  reply # NoReply =>
        /\ IF reply.per > 0
           THEN (reply.max - 1) * reply.per < reply.count /\ reply.count <= reply.max * reply.per
           ELSE reply.max * reply.per <= reply.count /\ reply.count < (reply.max - 1) * reply.per
        /\ IsInt(first) =>
              \E n \in 0 .. reply.count + reply.split :
                  /\ Near(n, reply.count, reply.split)
                  /\ Len(reply.data) = Room(n, Clip(first), reply.per)
        /\ reply.per > 0 => Len(reply.data) <= reply.per

\* The client has seen the last page it was told of.
Walked == walk.on /\ pc = "idle" /\ reply.page >= reply.max

\* Who walks from page 1 to max_page is shown as many rows as there were users when
\* the walk began, give or take the writes since.  Without an order they may not be
\* all different; but while nobody writes none is a stranger, so that somebody is
\* missed just when somebody is shown twice, and on one page nobody is (Paginate
\* against TotalPage).
WalkAddsUp ==
    Walked =>
        /\ Near(Len(walk.saw), Cardinality(walk.from), walk.noise)
        /\ walk.noise = 0 =>
              /\ ToSet(walk.saw) \subseteq walk.from
              /\ ToSet(walk.saw) = walk.from <=> IsInjective(walk.saw)
              /\ reply.page = 1 => ToSet(walk.saw) = walk.from

\* What a request in flight knows: its size is no zero, and what it counted is there
\* but for the writes since.
RequestOK ==
    /\ pc # "idle" => req.per # 0
    /\ pc = "find" => Near(count, Cardinality(rows), split)
    /\ pc # "find" => split = 0
    /\ count <= Cardinality(Users) /\ reply.count <= Cardinality(Users)

\* What a walk knows.  Each page it asks for begins where the one before ended, no int
\* overflows on the way, and until it has been shown as many as there were it has been
\* shown full pages.
Shown(page, per) ==
    LET shown == Len(walk.saw)
    IN  /\ page >= 0
        /\ shown <= Cardinality(walk.from) + walk.noise
        /\ per > 0 => shown <= page * per
        /\ page = 0 => shown = 0
        /\ Cardinality(walk.from) <= shown + walk.noise \/ page = 0 \/ (per > 0 /\ shown = page * per)

WalkOK ==
    walk.on =>
        /\ Near(Cardinality(rows), Cardinality(walk.from), walk.noise)
        /\ walk.noise = 0 => rows = walk.from /\ ToSet(walk.saw) \subseteq walk.from
        /\ pc # "idle" => /\ Shown(req.page - 1, req.per) /\ (req.page - 1) * req.per < IntLimit
                          /\ req.per > 0 \/ req.page = 1
        /\ pc = "find" => Cardinality(walk.from) <= count + walk.noise
        /\ pc = "idle" => /\ reply # NoReply /\ Shown(reply.page, reply.per) /\ reply.page > 0
                          /\ Cardinality(walk.from) <= reply.count + walk.noise
                          /\ reply.page = 1 => walk.saw = reply.data

\* The inductive invariant: WalkAddsUp follows from it.
IInv == TypeOK /\ RequestOK /\ WalkOK /\ ReplyAddsUp
=============================================================================
