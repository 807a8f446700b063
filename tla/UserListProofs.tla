--------------------------- MODULE UserListProofs ---------------------------
(***************************************************************************)
(* Proofs about UserList: what an answer and a walk through all pages add   *)
(* up to, for any users, pages, sizes and writes, in whatever orders the    *)
(* statements meet the rows.                                                *)
(***************************************************************************)
EXTENDS UserList, SequenceTheorems, FiniteSetTheorems, TLAPS

-----------------------------------------------------------------------------
(* The arithmetic of pages.                                                 *)

LEMMA Limits == IntLimit \in Nat /\ IntLimit > 0 /\ Cardinality(Users) \in Nat
  BY FS_CardinalityType, UserListAssumption

LEMMA WrapIs ==
    ASSUME NEW n \in Int
    PROVE  Wrap(n) \in Int /\ (IsInt(n) => Wrap(n) = n)
<1>1. IntLimit \in Nat /\ IntLimit > 0
  BY Limits
<1>2. IsInt(n) => n + IntLimit \in 0 .. 2 * IntLimit - 1
  BY <1>1 DEF IsInt
<1>3. IsInt(n) => (n + IntLimit) % (2 * IntLimit) = n + IntLimit
  BY <1>1, <1>2
<1> QED
  BY <1>1, <1>3 DEF Wrap

\* The page that the last of n rows is on.
LastPage(max, n, per) ==
    IF per > 0 THEN (max - 1) * per < n /\ n <= max * per
    ELSE max * per <= n /\ n < (max - 1) * per

LEMMA TotalPageOK ==
    ASSUME NEW n \in Nat, NEW per \in Int, per # 0
    PROVE  TotalPage(n, per) \in Int /\ LastPage(TotalPage(n, per), n, per)
<1>1. CASE per > 0
  BY <1>1 DEF TotalPage, LastPage
<1>2. CASE per < 0
  <2>1. PICK d : d = -per
    OBVIOUS
  <2>2. d \in Nat /\ d > 0
    BY <1>2, <2>1
  <2>3. PICK k : k = n \div d
    OBVIOUS
  <2>4. k \in Nat /\ k * d <= n /\ n < (k + 1) * d
    BY <2>2, <2>3
  <2>5. TotalPage(n, per) = -k
    BY <1>2, <2>1, <2>3 DEF TotalPage
  <2>6. (-k) * per = k * d /\ ((-k) - 1) * per = (k + 1) * d
    BY <2>1, <2>2, <2>4
  <2> QED
    BY <1>2, <2>4, <2>5, <2>6 DEF LastPage
<1> QED
  BY <1>1, <1>2

LEMMA PagesGrow ==
    ASSUME NEW per \in Nat, NEW p \in Int, NEW q \in Int, p <= q
    PROVE  p * per <= q * per
OBVIOUS

LEMMA NextPageIs ==
    ASSUME NEW p \in Int, NEW per \in Int
    PROVE  /\ (p - 1) * per \in Int /\ p * per \in Int
           /\ p * per = (p - 1) * per + per
           /\ ((p + 1) - 1) * per = p * per
           /\ p > 0 /\ per > 0 => (p - 1) * per >= 0
           /\ p = 1 => (p - 1) * per = 0
OBVIOUS

\* A page whose size is no limit is the last one.
LEMMA NoSizeNoPages ==
    ASSUME NEW n \in Nat, NEW per \in Int, per < 0, NEW max \in Int, LastPage(max, n, per)
    PROVE  max <= 0
<1>1. (max - 1) * per > 0
  BY DEF LastPage
<1>2. max - 1 >= 0 => (max - 1) * per <= 0
  OBVIOUS
<1> QED
  BY <1>1, <1>2

LEMMA DefaultOK ==
    ASSUME NEW q \in RequestType
    PROVE  /\ Default(q) \in RequestType /\ Default(q).per # 0
           /\ q.per # 0 => Default(q).per = q.per
           /\ q.page # 0 => Default(q).page = q.page
BY UserListAssumption DEF Default, RequestType

-----------------------------------------------------------------------------
(* Sequences of users.                                                      *)

LEMMA SeqFacts ==
    ASSUME NEW S, NEW s \in Seq(S)
    PROVE  /\ Len(s) \in Nat /\ DOMAIN s = 1 .. Len(s)
           /\ \A i \in DOMAIN s : s[i] \in S
           /\ ToSet(s) \subseteq S
BY LenProperties DEF ToSet

\* A sequence is as long as its elements are many when no two places hold one.
LEMMA DistinctIs ==
    ASSUME NEW S, NEW s \in Seq(S)
    PROVE  IsInjective(s) <=> Cardinality(ToSet(s)) = Len(s)
<1>1. s \in Surjection(1 .. Len(s), ToSet(s))
  BY SeqFacts DEF Surjection, ToSet
<1>2. IsFiniteSet(1 .. Len(s)) /\ Cardinality(1 .. Len(s)) = Len(s)
  <2>1. Len(s) \in Nat /\ 1 \in Int
    BY SeqFacts
  <2>2. Cardinality(1 .. Len(s)) = IF 1 > Len(s) THEN 0 ELSE Len(s) - 1 + 1
    BY <2>1, FS_Interval
  <2> QED  BY <2>1, <2>2, FS_Interval
<1>3. Cardinality(ToSet(s)) = Len(s) <=> s \in Injection(1 .. Len(s), ToSet(s))
  BY <1>1, <1>2, FS_Surjection
<1>4. s \in Injection(1 .. Len(s), ToSet(s)) <=> IsInjective(s)
  BY SeqFacts DEF Injection, IsInjective, ToSet
<1> QED  BY <1>3, <1>4

\* Two sequences in a row, place by place.
LEMMA ConcatIs ==
    ASSUME NEW S, NEW a \in Seq(S), NEW b \in Seq(S), NEW l, l = Len(a) + Len(b)
    PROVE  /\ a \o b \in Seq(S) /\ Len(a \o b) = l
           /\ \A k \in 1 .. l : (a \o b)[k] = IF k <= Len(a) THEN a[k] ELSE b[k - Len(a)]
BY ConcatProperties

\* A stretch of a sequence that ends where the sequence does, or before.
LEMMA StretchIs ==
    ASSUME NEW S, NEW s \in Seq(S), NEW f \in Nat \ {0}, NEW u \in Int, u <= Len(s),
           NEW l, l = IF f <= u THEN u - f + 1 ELSE 0
    PROVE  /\ SubSeq(s, f, u) \in Seq(S) /\ Len(SubSeq(s, f, u)) = l
           /\ \A k \in 1 .. l : /\ f + k - 1 \in DOMAIN s
                                /\ SubSeq(s, f, u)[k] = s[f + k - 1]
<1>1. Len(s) \in Nat /\ DOMAIN s = 1 .. Len(s) /\ \A k \in 1 .. Len(s) : s[k] \in S
  BY SeqFacts
<1>2. f \in Int /\ \A k \in f .. u : s[k] \in S
  BY <1>1
<1>3. /\ SubSeq(s, f, u) \in Seq(S)
      /\ Len(SubSeq(s, f, u)) = IF f <= u THEN u - f + 1 ELSE 0
      /\ \A k \in 1 .. u - f + 1 : SubSeq(s, f, u)[k] = s[f + k - 1]
  BY <1>2, SubSeqProperties
<1>4. ASSUME NEW k \in 1 .. l  PROVE f + k - 1 \in 1 .. Len(s) /\ k \in 1 .. u - f + 1
  BY <1>1
<1> QED  BY <1>1, <1>3, <1>4

\* A page holds rows of the scan, as many as there is room for, each once.
LEMMA SelectedIs ==
    ASSUME NEW S, NEW s \in Seq(S), IsInjective(s), NEW o \in Int, NEW n \in Int, n # 0
    PROVE  LET t == Selected(s, o, n)
           IN  /\ t \in Seq(S) /\ Len(t) = Room(Len(s), Clip(o), n) /\ (n > 0 => Len(t) <= n)
               /\ IsInjective(t) /\ ToSet(t) \subseteq ToSet(s)
<1>1. Len(s) \in Nat
  BY SeqFacts
<1>2. PICK f, e, u, l : /\ f = IF o > 0 THEN o + 1 ELSE 1
                        /\ e = IF n < 0 THEN Len(s) ELSE f + n - 1
                        /\ u = IF e < Len(s) THEN e ELSE Len(s)
                        /\ l = Room(Len(s), Clip(o), n)
  OBVIOUS
<1>3. Selected(s, o, n) = SubSeq(s, f, u)
  BY <1>2 DEF Selected
<1>4. /\ f \in Nat \ {0} /\ u \in Int /\ u <= Len(s)
      /\ l = (IF f <= u THEN u - f + 1 ELSE 0)
  <2>1. PICK c : c = Clip(o)
    OBVIOUS
  <2>2. c \in Nat /\ f = c + 1
    BY <1>2, <2>1 DEF Clip
  <2>3. CASE n < 0
    BY <1>1, <1>2, <2>1, <2>2, <2>3 DEF Room
  <2>4. CASE n > 0
    <3>1. e = c + n /\ l = Room(Len(s), c, n)
      BY <1>2, <2>1, <2>2, <2>4
    <3>2. CASE c + n < Len(s)
      <4>1. u = c + n /\ f = c + 1
        BY <1>2, <2>2, <2>4, <3>1, <3>2
      <4>2. l = n
        BY <1>1, <2>2, <2>4, <3>1, <3>2 DEF Room
      <4> QED
        BY <1>1, <2>2, <2>4, <3>2, <4>1, <4>2
    <3>3. CASE c + n >= Len(s)
      <4>1. u = Len(s) /\ f = c + 1
        BY <1>1, <1>2, <2>2, <3>1, <3>3
      <4> QED
        BY <1>1, <2>2, <2>4, <3>1, <3>3, <4>1 DEF Room
    <3> QED
      BY <1>1, <2>2, <3>2, <3>3
  <2> QED
    BY <2>3, <2>4
<1>5. PICK t : t = SubSeq(s, f, u)
  OBVIOUS
<1>6. /\ t \in Seq(S) /\ Len(t) = l
      /\ \A k \in 1 .. l : f + k - 1 \in DOMAIN s /\ t[k] = s[f + k - 1]
  BY <1>4, <1>5, StretchIs
<1>7. l \in Nat /\ (n > 0 => l <= n)
  BY <1>1, <1>2 DEF Room, Clip
<1>8. DOMAIN t = 1 .. l
  BY <1>6, SeqFacts
<1>9. \A i, k \in 1 .. l : t[i] = t[k] => f + i - 1 = f + k - 1
  BY <1>6 DEF IsInjective
<1>10. \A i, k \in 1 .. l : f + i - 1 = f + k - 1 => i = k
  BY <1>4, <1>7
<1>11. IsInjective(t)
  BY <1>8, <1>9, <1>10 DEF IsInjective
<1>12. ToSet(t) \subseteq ToSet(s)
  BY <1>6, <1>8 DEF ToSet
<1> QED
  BY <1>2, <1>3, <1>5, <1>6, <1>7, <1>11, <1>12

\* A statement meets every row once.
LEMMA ScanIs ==
    ASSUME NEW S, IsFiniteSet(S), NEW s \in SetToSeqs(S)
    PROVE  /\ s \in Seq(S) /\ Len(s) = Cardinality(S)
           /\ IsInjective(s) /\ ToSet(s) \subseteq S
<1>1. Cardinality(S) \in Nat
  BY FS_CardinalityType
<1>2. s \in [1 .. Cardinality(S) -> S] /\ \A i, j \in 1 .. Cardinality(S) : i # j => s[i] # s[j]
  BY DEF SetToSeqs
<1>3. s \in Seq(S) /\ Len(s) = Cardinality(S) /\ DOMAIN s = 1 .. Cardinality(S)
  BY <1>1, <1>2
<1> QED
  BY <1>2, <1>3, SeqFacts DEF IsInjective

LEMMA ConcatSet ==
    ASSUME NEW S, NEW a \in Seq(S), NEW b \in Seq(S)
    PROVE  a \o b \in Seq(S) /\ ToSet(a \o b) = ToSet(a) \cup ToSet(b)
<1>1. PICK l : l = Len(a) + Len(b)
  OBVIOUS
<1>2. /\ a \o b \in Seq(S) /\ Len(a \o b) = l
      /\ \A k \in 1 .. l : (a \o b)[k] = IF k <= Len(a) THEN a[k] ELSE b[k - Len(a)]
  BY <1>1, ConcatIs
<1>3. /\ Len(a) \in Nat /\ DOMAIN a = 1 .. Len(a)
      /\ Len(b) \in Nat /\ DOMAIN b = 1 .. Len(b)
      /\ DOMAIN (a \o b) = 1 .. l
  BY <1>2, SeqFacts
<1>4. ASSUME NEW k \in 1 .. l  PROVE (a \o b)[k] \in ToSet(a) \cup ToSet(b)
  <2>1. CASE k <= Len(a)
    BY <1>1, <1>2, <1>3, <2>1 DEF ToSet
  <2>2. CASE k > Len(a)
    <3>1. k - Len(a) \in 1 .. Len(b) /\ ~(k <= Len(a))
      BY <1>1, <1>3, <2>2
    <3> QED  BY <1>2, <1>3, <3>1 DEF ToSet
  <2> QED  BY <1>1, <1>3, <2>1, <2>2
<1>5. ASSUME NEW k \in 1 .. Len(a)  PROVE a[k] \in ToSet(a \o b)
  <2>1. k \in 1 .. l /\ k <= Len(a)
    BY <1>1, <1>3
  <2> QED  BY <1>2, <1>3, <2>1 DEF ToSet
<1>6. ASSUME NEW k \in 1 .. Len(b)  PROVE b[k] \in ToSet(a \o b)
  <2>1. Len(a) + k \in 1 .. l /\ ~(Len(a) + k <= Len(a)) /\ (Len(a) + k) - Len(a) = k
    BY <1>1, <1>3
  <2>2. (a \o b)[Len(a) + k] = b[k]
    BY <1>2, <2>1
  <2> QED  BY <1>3, <2>1, <2>2 DEF ToSet
<1>7. ToSet(a \o b) \subseteq ToSet(a) \cup ToSet(b)
  BY <1>3, <1>4 DEF ToSet
<1>8. ToSet(a) \subseteq ToSet(a \o b) /\ ToSet(b) \subseteq ToSet(a \o b)
  <2>1. \A x \in ToSet(a) : \E k \in 1 .. Len(a) : x = a[k]
    BY <1>3 DEF ToSet
  <2>2. \A x \in ToSet(b) : \E k \in 1 .. Len(b) : x = b[k]
    BY <1>3 DEF ToSet
  <2> QED  BY <1>5, <1>6, <2>1, <2>2
<1> QED  BY <1>2, <1>7, <1>8

-----------------------------------------------------------------------------
(* The initial states, and what other requests write.                       *)

LEMMA CardFacts ==
    ASSUME NEW S \in SUBSET Users
    PROVE  IsFiniteSet(S) /\ Cardinality(S) \in Nat /\ Cardinality(S) <= Cardinality(Users)
  BY FS_Subset, FS_CardinalityType, UserListAssumption

LEMMA InitOK == Init => IInv
<1> SUFFICES ASSUME Init PROVE IInv
  OBVIOUS
<1>1. TypeOK
  <2>1. <<>> \in Seq(Users) /\ IsInjective(<<>>)
    BY DEF IsInjective
  <2> QED
    BY <2>1 DEF Init, TypeOK, RequestType, ReplyType, WalkType, NoReply, NoWalk
<1>2. RequestOK
  BY Limits DEF Init, RequestOK, NoReply
<1>3. WalkOK /\ ReplyAddsUp
  BY DEF Init, WalkOK, ReplyAddsUp, NoWalk
<1> QED
  BY <1>1, <1>2, <1>3 DEF IInv

\* One row more or less leaves numbers as near as one write more allows.
LEMMA WriteKeeps ==
    ASSUME IInv, Meanwhile, rows' \subseteq Users,
           Near(Cardinality(rows'), Cardinality(rows), 1)
    PROVE  IInv'
<1>1. /\ UNCHANGED <<pc, req, count, reply>>
      /\ split' = IF pc = "find" THEN split + 1 ELSE split
      /\ walk' = IF walk.on THEN [walk EXCEPT !.noise = @ + 1] ELSE walk
  BY DEF Meanwhile
<1>2. /\ rows \in SUBSET Users /\ count \in Nat /\ split \in Nat /\ walk \in WalkType
      /\ TypeOK /\ RequestOK /\ WalkOK /\ ReplyAddsUp
  BY DEF IInv, TypeOK
<1>3. /\ walk' \in WalkType /\ walk'.on = walk.on /\ walk'.from = walk.from
      /\ walk'.saw = walk.saw /\ walk.noise \in Nat
      /\ walk.on => walk'.noise = walk.noise + 1
  BY <1>1, <1>2 DEF WalkType
<1>4. Cardinality(rows) \in Nat /\ Cardinality(rows') \in Nat /\ Cardinality(walk.from) \in Nat
  BY <1>2, CardFacts DEF WalkType
<1>5. TypeOK'
  BY <1>1, <1>2, <1>3 DEF TypeOK
<1>6. RequestOK'
  BY <1>1, <1>2, <1>4 DEF RequestOK, Near
<1>7. ReplyAddsUp'
  BY <1>1, <1>2 DEF ReplyAddsUp
<1>8. WalkOK'
  <2> SUFFICES ASSUME walk.on PROVE WalkOK'
    BY <1>3 DEF WalkOK
  <2>1. walk'.noise = walk.noise + 1 /\ walk'.noise # 0
    BY <1>3
  <2>2. Near(Cardinality(rows'), Cardinality(walk.from), walk'.noise)
    BY <1>2, <1>4, <1>3, <2>1 DEF WalkOK, Near
  <2>3. Len(walk.saw) \in Nat
    BY <1>2, SeqFacts DEF WalkType
  <2>4. \A p, n : Shown(p, n) => Shown(p, n)'
    BY <1>3, <1>4, <2>1, <2>3 DEF Shown
  <2>5. /\ pc = "find" => Cardinality(walk.from) <= count + walk'.noise
        /\ pc = "idle" => Cardinality(walk.from) <= reply.count + walk'.noise
    <3>1. reply.count \in Nat
      BY <1>2 DEF TypeOK, ReplyType
    <3> QED
      BY <1>2, <1>3, <1>4, <2>1, <3>1 DEF WalkOK
  <2>6. /\ pc # "idle" => Shown(req.page - 1, req.per)'
        /\ pc = "idle" => Shown(reply.page, reply.per)'
    BY <1>1, <1>2, <2>4 DEF WalkOK
  <2> QED
    BY <1>1, <1>2, <1>3, <2>1, <2>2, <2>5, <2>6 DEF WalkOK
<1> QED
  BY <1>5, <1>6, <1>7, <1>8 DEF IInv

LEMMA UsersKeep ==
    ASSUME IInv, NEW u \in Users, Register(u) \/ Update(u) \/ Delete(u)
    PROVE  IInv'
<1>1. rows \in SUBSET Users
  BY DEF IInv, TypeOK
<1>2. IsFiniteSet(rows) /\ Cardinality(rows) \in Nat
  BY <1>1, CardFacts
<1>3. CASE Comes(u)
  <2>1. Cardinality(rows') = Cardinality(rows) + 1 /\ rows' \subseteq Users
    BY <1>1, <1>2, <1>3, FS_AddElement DEF Comes
  <2> QED
    BY <1>2, <1>3, <2>1, WriteKeeps DEF Comes, Near
<1>4. CASE Leaves(u)
  <2>1. Cardinality(rows') = Cardinality(rows) - 1 /\ rows' \subseteq Users
    BY <1>1, <1>2, <1>4, FS_RemoveElement DEF Leaves
  <2> QED
    BY <1>2, <1>4, <2>1, WriteKeeps DEF Leaves, Near
<1> QED
  BY <1>3, <1>4 DEF Register, Update, Delete

-----------------------------------------------------------------------------
(* The steps of a request.                                                  *)

LEMMA NoReplyOK == NoReply \in ReplyType /\ IsInjective(NoReply.data) /\ NoReply.count = 0
  BY DEF NoReply, ReplyType, IsInjective

LEMMA NoWalkOK == NoWalk \in WalkType /\ ~NoWalk.on
  BY DEF NoWalk, WalkType

\* A request that begins outside a walk, the end of a walk and a failure.
LEMMA NoWalkKeeps ==
    ASSUME IInv, walk' = NoWalk, reply' \in {reply, NoReply}, rows' = rows,
           pc' \in {"idle", "count"}, req' \in RequestType, pc' = "count" => req'.per # 0,
           count' \in {0, count}, split' = 0
    PROVE  IInv'
<1>1. TypeOK /\ RequestOK /\ ReplyAddsUp
  BY DEF IInv
<1>2. TypeOK'
  BY <1>1, NoReplyOK, NoWalkOK DEF TypeOK
<1>3. RequestOK'
  BY <1>1, NoReplyOK, Limits DEF RequestOK
<1>4. ReplyAddsUp'
  BY <1>1 DEF ReplyAddsUp
<1>5. WalkOK'
  BY NoWalkOK DEF WalkOK
<1> QED
  BY <1>2, <1>3, <1>4, <1>5 DEF IInv

LEMMA AskKeeps == ASSUME IInv, Ask PROVE IInv'
<1>1. PICK p \in Pages, n \in Sizes : GetAllUser([page |-> p, per |-> n])
  BY DEF Ask
<1>2. PICK q : q = [page |-> p, per |-> n]
  OBVIOUS
<1>3. q \in RequestType
  BY <1>2, UserListAssumption DEF RequestType
<1>4. /\ pc = "idle" /\ req' = Default(q) /\ pc' = "count" /\ reply' = NoReply /\ walk' = NoWalk
      /\ UNCHANGED <<rows, count, split>>
  BY <1>1, <1>2 DEF GetAllUser, Ask
<1>5. req' \in RequestType /\ req'.per # 0 /\ split' = 0
  BY <1>3, <1>4, DefaultOK DEF IInv, RequestOK
<1> QED
  BY <1>4, <1>5, NoWalkKeeps

LEMMA EndWalkKeeps == ASSUME IInv, EndWalk PROVE IInv'
<1>1. /\ walk' = NoWalk /\ reply' = NoReply /\ pc = "idle"
      /\ UNCHANGED <<rows, pc, req, count, split>>
  BY DEF EndWalk
<1>2. req' \in RequestType /\ split' = 0
  BY <1>1 DEF IInv, TypeOK, RequestOK
<1> QED
  BY <1>1, <1>2, NoWalkKeeps

LEMMA FailKeeps == ASSUME IInv, Fail PROVE IInv'
<1>1. /\ walk' = NoWalk /\ pc' = "idle" /\ count' = 0 /\ split' = 0
      /\ UNCHANGED <<rows, req, reply>>
  BY DEF Fail
<1>2. req' \in RequestType
  BY <1>1 DEF IInv, TypeOK
<1> QED
  BY <1>1, <1>2, NoWalkKeeps

LEMMA BeginWalkKeeps == ASSUME IInv, BeginWalk PROVE IInv'
<1>1. PICK n \in Sizes : GetAllUser([page |-> 1, per |-> n])
  BY DEF BeginWalk
<1>2. PICK q : q = [page |-> 1, per |-> n]
  OBVIOUS
<1>3. q \in RequestType /\ q.page = 1
  BY <1>2, UserListAssumption DEF RequestType
<1>4. /\ pc = "idle" /\ req' = Default(q) /\ pc' = "count" /\ reply' = NoReply
      /\ UNCHANGED <<rows, count, split>>
  BY <1>1, <1>2 DEF GetAllUser
<1>5. walk' = [on |-> TRUE, from |-> rows, saw |-> <<>>, noise |-> 0]
  BY DEF BeginWalk, NoWalk
<1>6. req' \in RequestType /\ req'.per # 0 /\ req'.page = 1
  BY <1>3, <1>4, DefaultOK
<1>7. TypeOK /\ RequestOK /\ rows \in SUBSET Users /\ Cardinality(rows) \in Nat
  BY CardFacts DEF IInv, TypeOK
<1>8. TypeOK'
  <2>1. walk' \in WalkType
    BY <1>5, <1>7 DEF WalkType
  <2> QED
    BY <1>4, <1>6, <1>7, <2>1, NoReplyOK DEF TypeOK
<1>9. RequestOK' /\ ReplyAddsUp'
  BY <1>4, <1>6, <1>7, NoReplyOK, Limits DEF RequestOK, ReplyAddsUp
<1>10. WalkOK'
  <2>1. req'.page - 1 = 0 /\ (req'.page - 1) * req'.per = 0 /\ req'.per \in Int
    BY <1>6 DEF RequestType
  <2>2. /\ walk'.from = rows /\ walk'.saw = <<>> /\ walk'.noise = 0 /\ walk'.on
        /\ Len(walk'.saw) = 0 /\ ToSet(walk'.saw) = {}
    BY <1>5 DEF ToSet
  <2>3. 0 * req'.per = 0
    BY <2>1
  <2>4. Shown(req.page - 1, req.per)'
    BY <1>7, <2>1, <2>2, <2>3 DEF Shown
  <2>5. Near(Cardinality(rows), Cardinality(rows), 0)
    BY <1>7 DEF Near
  <2> QED
    BY <1>4, <1>6, <2>1, <2>2, <2>4, <2>5, Limits DEF WalkOK
<1> QED
  BY <1>8, <1>9, <1>10 DEF IInv

\* What an answer says of its last page.
LEMMA AnswerOK ==
    ASSUME IInv, reply # NoReply
    PROVE  LastPage(reply.max, reply.count, reply.per)
  BY DEF IInv, ReplyAddsUp, LastPage

LEMMA NextPageKeeps == ASSUME IInv, NextPage PROVE IInv'
<1>1. PICK q : q = [page |-> reply.page + 1, per |-> reply.per]
  OBVIOUS
<1>2. /\ pc = "idle" /\ pc' = "count" /\ req' = Default(q) /\ reply' = NoReply
      /\ UNCHANGED <<rows, count, split, walk>> /\ walk.on /\ reply.page < reply.max
  BY <1>1 DEF NextPage, GetAllUser
<1>3. TypeOK /\ RequestOK /\ WalkOK /\ reply \in ReplyType
  BY DEF IInv, TypeOK
<1>4. reply # NoReply /\ reply.page > 0 /\ Shown(reply.page, reply.per)
  BY <1>2, <1>3 DEF WalkOK
<1>5. /\ reply.page \in Int /\ reply.per \in Int /\ reply.max \in Int /\ reply.count \in Nat
      /\ reply.count <= Cardinality(Users)
  BY <1>3 DEF ReplyType, RequestOK
<1>6. LastPage(reply.max, reply.count, reply.per)
  BY <1>4, AnswerOK
<1>7. reply.per > 0
  <2>1. reply.per < 0 => reply.max <= 0
    BY <1>5, <1>6, NoSizeNoPages
  <2>2. reply.per # 0
    BY <1>5, <1>6, NextPageIs DEF LastPage
  <2> QED
    BY <1>2, <1>4, <1>5, <2>1, <2>2
<1>8. reply.page * reply.per < IntLimit
  <2>1. reply.page * reply.per <= (reply.max - 1) * reply.per
    <3>1. reply.page <= reply.max - 1 /\ reply.max - 1 \in Int /\ reply.per \in Nat
      BY <1>2, <1>5, <1>7
    <3> QED
      BY <1>5, <3>1, PagesGrow
  <2>2. (reply.max - 1) * reply.per < reply.count
    BY <1>6, <1>7 DEF LastPage
  <2>3. reply.page * reply.per \in Int /\ (reply.max - 1) * reply.per \in Int
    BY <1>5, NextPageIs
  <2> QED
    BY <1>5, <2>1, <2>2, <2>3, Limits, UserListAssumption
<1>9. q \in RequestType /\ q.page = reply.page + 1 /\ q.per = reply.per
  BY <1>1, <1>5 DEF RequestType
<1>10. /\ req' \in RequestType /\ req'.per = reply.per /\ req'.page = reply.page + 1
       /\ req'.page - 1 = reply.page
  BY <1>2, <1>4, <1>5, <1>7, <1>9, DefaultOK
<1>11. TypeOK'
  BY <1>2, <1>3, <1>10, NoReplyOK DEF TypeOK
<1>12. RequestOK' /\ ReplyAddsUp'
  BY <1>2, <1>3, <1>7, <1>10, NoReplyOK, Limits DEF RequestOK, ReplyAddsUp
<1>13. WalkOK'
  <2>1. Shown(req.page - 1, req.per)'
    BY <1>2, <1>4, <1>10 DEF Shown
  <2> QED
    BY <1>2, <1>3, <1>7, <1>8, <1>10, <2>1 DEF WalkOK
<1> QED
  BY <1>11, <1>12, <1>13 DEF IInv

LEMMA CountKeeps == ASSUME IInv, Count PROVE IInv'
<1>1. /\ pc = "count" /\ pc' = "find" /\ count' = Cardinality(rows)
      /\ UNCHANGED <<rows, req, split, reply, walk>>
  BY DEF Count
<1>2. /\ TypeOK /\ RequestOK /\ WalkOK /\ ReplyAddsUp
      /\ Cardinality(rows) \in Nat /\ Cardinality(rows) <= Cardinality(Users)
  BY CardFacts DEF IInv, TypeOK
<1>3. TypeOK'
  BY <1>1, <1>2 DEF TypeOK
<1>4. RequestOK'
  BY <1>1, <1>2 DEF RequestOK, Near
<1>5. WalkOK'
  BY <1>1, <1>2 DEF WalkOK, Shown, Near
<1>6. ReplyAddsUp'
  BY <1>1, <1>2 DEF ReplyAddsUp
<1> QED
  BY <1>3, <1>4, <1>5, <1>6 DEF IInv

LEMMA FindKeeps == ASSUME IInv, Find PROVE IInv'
<1>1. PICK s \in Scans : LET data == Selected(s, Offset(req), req.per)
            IN  /\ pc = "find"
                /\ reply' = [page |-> req.page, per |-> req.per, count |-> count,
                             max |-> TotalPage(count, req.per), data |-> data, split |-> split]
                /\ walk' = IF walk.on THEN [walk EXCEPT !.saw = @ \o data] ELSE walk
                /\ pc' = "idle" /\ count' = 0 /\ split' = 0
                /\ UNCHANGED <<rows, req>>
  BY DEF Find
<1>2. PICK page, per, first, off, max, data, n :
          /\ page = req.page /\ per = req.per /\ first = (page - 1) * per /\ off = Offset(req)
          /\ max = TotalPage(count, per) /\ data = Selected(s, off, per) /\ n = Cardinality(rows)
  OBVIOUS
<1>3. /\ reply' = [page |-> page, per |-> per, count |-> count, max |-> max,
                   data |-> data, split |-> split]
      /\ walk' = (IF walk.on THEN [walk EXCEPT !.saw = @ \o data] ELSE walk)
      /\ pc = "find" /\ pc' = "idle" /\ count' = 0 /\ split' = 0 /\ UNCHANGED <<rows, req>>
  BY <1>1, <1>2
<1>4. /\ reply'.page = page /\ reply'.per = per /\ reply'.count = count /\ reply'.max = max
      /\ reply'.data = data /\ reply'.split = split
  BY <1>3
<1>5. /\ TypeOK /\ RequestOK /\ WalkOK /\ ReplyAddsUp
      /\ rows \in SUBSET Users /\ walk \in WalkType
      /\ req \in RequestType /\ count \in Nat /\ split \in Nat
  BY DEF IInv, TypeOK
<1>6. /\ page \in Int /\ per \in Int /\ per # 0 /\ n \in Nat /\ IsFiniteSet(rows)
      /\ Near(count, n, split) /\ count <= Cardinality(Users)
  BY <1>2, <1>3, <1>5, CardFacts DEF RequestType, RequestOK
<1>7. first \in Int /\ page * per = first + per /\ (page = 1 => first = 0)
      /\ (page > 0 /\ per > 0 => first >= 0)
  BY <1>2, <1>6, NextPageIs
<1>8. off \in Int /\ (IsInt(first) => off = first)
  <2>1. off = Wrap(first)
    BY <1>2 DEF Offset
  <2> QED
    BY <1>7, <2>1, WrapIs
<1>9. max \in Int /\ LastPage(max, count, per)
  <2> HIDE DEF IInv, Find
  <2> QED
    BY <1>2, <1>5, <1>6, TotalPageOK
<1>10. s \in Seq(rows) /\ s \in Seq(Users) /\ Len(s) = n /\ IsInjective(s) /\ ToSet(s) \subseteq rows
  <2>1. s \in SetToSeqs(rows)
    BY DEF Scans
  <2>2. s \in Seq(rows) /\ Len(s) = n /\ IsInjective(s) /\ ToSet(s) \subseteq rows
    BY <1>2, <1>6, <2>1, ScanIs
  <2> QED
    BY <1>5, <2>2
<1>11. /\ data \in Seq(Users) /\ Len(data) = Room(n, Clip(off), per)
       /\ per > 0 => Len(data) <= per
       /\ IsInjective(data) /\ ToSet(data) \subseteq rows
  <2>1. LET t == Selected(s, off, per)
        IN  /\ t \in Seq(Users) /\ Len(t) = Room(Len(s), Clip(off), per)
            /\ (per > 0 => Len(t) <= per)
            /\ IsInjective(t) /\ ToSet(t) \subseteq ToSet(s)
    BY <1>6, <1>8, <1>10, SelectedIs
  <2> QED
    BY <1>2, <1>10, <2>1
<1>12. /\ walk.saw \in Seq(Users) /\ Len(walk.saw) \in Nat /\ Len(data) \in Nat
       /\ walk.saw \o data \in Seq(Users) /\ Len(walk.saw \o data) = Len(walk.saw) + Len(data)
       /\ ToSet(walk.saw \o data) = ToSet(walk.saw) \cup ToSet(data)
  <2>1. walk.saw \in Seq(Users)
    BY <1>5 DEF WalkType
  <2>2. Len(walk.saw) \in Nat /\ Len(data) \in Nat
    BY <1>11, <2>1, SeqFacts
  <2>3. Len(walk.saw \o data) = Len(walk.saw) + Len(data)
    BY <1>11, <2>1, ConcatProperties
  <2> QED
    BY <1>11, <2>1, <2>2, <2>3, ConcatSet
<1>13. /\ walk'.on = walk.on /\ walk'.noise = walk.noise /\ walk'.from = walk.from
       /\ walk.on => walk'.saw = walk.saw \o data
       /\ walk' \in WalkType
  BY <1>3, <1>5, <1>12 DEF WalkType
<1>14. TypeOK'
  <2>1. reply' \in ReplyType
    BY <1>3, <1>5, <1>6, <1>9, <1>11 DEF ReplyType
  <2> QED
    BY <1>3, <1>4, <1>5, <1>11, <1>13, <2>1 DEF TypeOK
<1>15. RequestOK'
  BY <1>3, <1>4, <1>6, Limits DEF RequestOK
<1>16. ReplyAddsUp'
  <2>1. IsInt(first) => \E k \in 0 .. count + split :
                           Near(k, count, split) /\ Len(data) = Room(k, Clip(first), per)
    <3>1. n \in 0 .. count + split /\ Near(n, count, split)
      BY <1>5, <1>6 DEF Near
    <3> QED
      BY <1>8, <1>11, <3>1
  <2> QED
    BY <1>2, <1>4, <1>9, <1>11, <2>1 DEF ReplyAddsUp, LastPage
<1>17. WalkOK'
  <2> SUFFICES ASSUME walk.on PROVE WalkOK'
    BY <1>13 DEF WalkOK
  <2>1. PICK shown, from, noise, more : /\ shown = Len(walk.saw) /\ from = Cardinality(walk.from)
                                        /\ noise = walk.noise /\ more = Len(data)
    OBVIOUS
  <2>2. shown \in Nat /\ from \in Nat /\ noise \in Nat /\ more \in Nat
    BY <1>5, <1>12, <2>1, CardFacts DEF WalkType
  <2>3. /\ Near(n, from, noise) /\ from <= count + noise
        /\ noise = 0 => rows = walk.from /\ ToSet(walk.saw) \subseteq walk.from
        /\ Shown(page - 1, per) /\ first < IntLimit /\ (per > 0 \/ page = 1)
    BY <1>2, <1>3, <1>5, <2>1 DEF WalkOK
  <2>4. /\ page >= 1 /\ shown <= from + noise /\ (per > 0 => shown <= first)
        /\ page = 1 => shown = 0
        /\ from <= shown + noise \/ page = 1 \/ (per > 0 /\ shown = first)
    BY <1>2, <1>6, <2>1, <2>3 DEF Shown
  <2>5. first >= 0 /\ IsInt(first) /\ Clip(off) = first
    <3>1. first >= 0
      BY <1>6, <1>7, <2>3, <2>4
    <3>2. IsInt(first)
      BY <1>7, <2>3, <3>1, Limits DEF IsInt
    <3> QED
      BY <1>7, <1>8, <3>1, <3>2 DEF Clip
  <2>6. more = Room(n, first, per)
    BY <1>11, <2>1, <2>5
  <2>7. /\ shown + more <= from + noise
        /\ per > 0 => shown + more <= first + per
        /\ from <= (shown + more) + noise \/ (per > 0 /\ shown + more = first + per)
    <3>1. CASE per > 0
      <4>1. /\ shown \in Nat /\ from \in Nat /\ noise \in Nat /\ n \in Nat
            /\ first \in Nat /\ per \in Nat /\ per > 0
            /\ Near(n, from, noise) /\ shown <= from + noise /\ shown <= first
            /\ from <= shown + noise \/ shown = first
        <5>1. page = 1 => shown = first
          BY <1>7, <2>4
        <5> QED
          BY <1>6, <1>7, <2>2, <2>3, <2>4, <2>5, <3>1, <5>1
      <4>2. more = IF n <= first THEN 0 ELSE IF first + per > n THEN n - first ELSE per
        BY <2>6, <4>1 DEF Room
      <4>3. CASE n <= first
        BY <2>2, <4>1, <4>2, <4>3 DEF Near
      <4>4. CASE n > first /\ first + per > n
        <5>1. more = n - first
          BY <4>1, <4>2, <4>4
        <5> QED
          BY <2>2, <4>1, <4>4, <5>1 DEF Near
      <4>5. CASE n > first /\ first + per <= n
        <5>1. more = per
          BY <4>1, <4>2, <4>5
        <5> QED
          BY <2>2, <4>1, <4>5, <5>1 DEF Near
      <4> QED
        BY <4>1, <4>3, <4>4, <4>5
    <3>2. CASE per < 0
      <4>1. page = 1 /\ first = 0 /\ shown = 0
        BY <1>6, <1>7, <2>3, <2>4, <3>2
      <4>2. more = n
        BY <1>6, <2>6, <3>2, <4>1 DEF Room
      <4> QED
        BY <1>6, <2>2, <2>3, <3>2, <4>1, <4>2 DEF Near
    <3> QED
      BY <1>6, <3>1, <3>2
  <2>8. Shown(reply.page, reply.per)'
    <3>1. Len(walk'.saw) = shown + more
      BY <1>12, <1>13, <2>1
    <3>2. page >= 0 /\ page # 0
      BY <1>6, <2>4
    <3> QED
      BY <1>4, <1>7, <1>13, <2>1, <2>7, <3>1, <3>2 DEF Shown
  <2>9. walk'.noise = 0 => rows = walk.from /\ ToSet(walk'.saw) \subseteq walk.from
    BY <1>11, <1>12, <1>13, <2>1, <2>3
  <2>10. page = 1 => walk'.saw = data
    <3> SUFFICES ASSUME page = 1 PROVE walk'.saw = data
      OBVIOUS
    <3>1. walk.saw = <<>>
      BY <1>12, <2>1, <2>4, EmptySeq
    <3> QED
      BY <1>11, <1>13, <3>1, ConcatEmptySeq
  <2>11. reply' # NoReply /\ reply'.page > 0
    BY <1>4, <1>6, <2>4 DEF NoReply
  <2>12. Near(Cardinality(rows), Cardinality(walk.from), walk.noise)' /\ pc' = "idle"
    BY <1>2, <1>3, <1>13, <2>1, <2>3
  <2>13. /\ Cardinality(walk'.from) <= reply'.count + walk'.noise
         /\ reply'.page = 1 => walk'.saw = reply'.data
         /\ walk'.noise = 0 => rows' = walk'.from /\ ToSet(walk'.saw) \subseteq walk'.from
    BY <1>3, <1>4, <1>13, <2>1, <2>3, <2>9, <2>10
  <2> QED
    BY <2>8, <2>11, <2>12, <2>13 DEF WalkOK
<1> QED
  BY <1>14, <1>15, <1>16, <1>17 DEF IInv

LEMMA NextKeeps == IInv /\ [Next]_vars => IInv'
<1> SUFFICES ASSUME IInv, [Next]_vars PROVE IInv'
  OBVIOUS
<1>1. CASE UNCHANGED vars
  BY <1>1 DEF vars, IInv, TypeOK, RequestOK, WalkOK, Shown, ReplyAddsUp
<1> QED
  BY <1>1, UsersKeep, AskKeeps, BeginWalkKeeps, NextPageKeeps, EndWalkKeeps, CountKeeps,
     FindKeeps, FailKeeps DEF Next

\* A walk that has come to its end was shown what its last answer counted, or as many
\* as there were.
LEMMA WalkEnds == IInv => WalkAddsUp
<1> SUFFICES ASSUME IInv, Walked PROVE
          /\ Near(Len(walk.saw), Cardinality(walk.from), walk.noise)
          /\ walk.noise = 0 =>
                /\ ToSet(walk.saw) \subseteq walk.from
                /\ ToSet(walk.saw) = walk.from <=> IsInjective(walk.saw)
                /\ reply.page = 1 => ToSet(walk.saw) = walk.from
  BY DEF WalkAddsUp
<1>1. /\ walk.on /\ pc = "idle" /\ reply.page >= reply.max
      /\ TypeOK /\ WalkOK /\ reply \in ReplyType /\ walk \in WalkType
  BY DEF Walked, IInv, TypeOK
<1>2. PICK shown, from, noise : /\ shown = Len(walk.saw) /\ from = Cardinality(walk.from)
                                /\ noise = walk.noise
  OBVIOUS
<1>3. PICK page, per, max, n : /\ page = reply.page /\ per = reply.per /\ max = reply.max
                               /\ n = reply.count
  OBVIOUS
<1>4. /\ walk.saw \in Seq(Users) /\ walk.from \in SUBSET Users
      /\ shown \in Nat /\ from \in Nat /\ noise \in Nat
  BY <1>1, <1>2, CardFacts, SeqFacts DEF WalkType
<1>5. /\ page \in Int /\ per \in Int /\ max \in Int /\ n \in Nat /\ page > 0 /\ max <= page
      /\ reply # NoReply /\ from <= n + noise /\ Shown(page, per)
      /\ noise = 0 => ToSet(walk.saw) \subseteq walk.from
      /\ page = 1 => walk.saw = reply.data
  BY <1>1, <1>2, <1>3 DEF WalkOK, ReplyType
<1>6. /\ shown <= from + noise
      /\ from <= shown + noise \/ (per > 0 /\ shown = page * per)
  BY <1>2, <1>5 DEF Shown
<1>7. from <= shown + noise
  <2> SUFFICES ASSUME per > 0, shown = page * per PROVE from <= shown + noise
    BY <1>6
  <2>1. n <= max * per
    BY <1>3, <1>5, AnswerOK DEF LastPage
  <2>2. max * per <= page * per /\ max * per \in Int /\ page * per \in Int
    BY <1>5, PagesGrow, NextPageIs
  <2> QED
    BY <1>4, <1>5, <2>1, <2>2
<1>8. Near(Len(walk.saw), Cardinality(walk.from), walk.noise)
  BY <1>2, <1>6, <1>7 DEF Near
<1>9. ASSUME walk.noise = 0
      PROVE  /\ ToSet(walk.saw) = walk.from <=> IsInjective(walk.saw)
             /\ ToSet(walk.saw) \subseteq walk.from
  <2>1. Len(walk.saw) = Cardinality(walk.from)
    BY <1>2, <1>4, <1>6, <1>7, <1>9
  <2>2. ToSet(walk.saw) \subseteq walk.from /\ IsFiniteSet(walk.from)
    BY <1>2, <1>4, <1>5, <1>9, CardFacts
  <2>3. IsInjective(walk.saw) <=> Cardinality(ToSet(walk.saw)) = Cardinality(walk.from)
    BY <1>4, <2>1, DistinctIs
  <2>4. Cardinality(ToSet(walk.saw)) = Cardinality(walk.from) => ToSet(walk.saw) = walk.from
    BY <2>2, FS_Subset
  <2> QED
    BY <2>2, <2>3, <2>4
<1>10. reply.page = 1 => IsInjective(walk.saw)
  BY <1>1, <1>3, <1>5 DEF TypeOK
<1> QED
  BY <1>8, <1>9, <1>10

-----------------------------------------------------------------------------

\* Every request knows how far its count may be from the rows, and every walk that no
\* int overflows on its way and that it has been shown full pages until it has been
\* shown as many rows as there were, for any users, pages, sizes, writes and orders.
THEOREM Invariance == Spec => []IInv
  BY InitOK, NextKeeps, PTL DEF Spec

\* The request, its locals and the answer hold values of their types, and no answer
\* names a user twice.
THEOREM TypeCorrect == Spec => []TypeOK
<1>1. IInv => TypeOK
  BY DEF IInv
<1> QED
  BY <1>1, Invariance, PTL

\* count, max_page and the rows of an answer agree with each other but for the writes
\* between its two statements, for every page and size.
THEOREM RepliesAddUp == Spec => []ReplyAddsUp
<1>1. IInv => ReplyAddsUp
  BY DEF IInv
<1> QED
  BY <1>1, Invariance, PTL

\* A walk through all pages shows as many rows as there were users, but for the writes
\* on its way, and without any misses somebody just when it repeats somebody.
THEOREM WalksAddUp == Spec => []WalkAddsUp
  BY WalkEnds, Invariance, PTL
=============================================================================
