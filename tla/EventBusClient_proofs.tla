------------------------ MODULE EventBusClient_proofs ------------------------
(***************************************************************************)
(* For any groups, batches, connections, restarts, answers and errors, as  *)
(* long as no connection is made while an older one still loads (~Overlap):*)
(*   - no batch is lost silently, the cache marks only what it has, and    *)
(*     the client sees every log in order, without a gap other than those  *)
(*     that a failed load reports, that is, it implements EventLog         *)
(*     (LoadInv, LogInv);                                                  *)
(*   - no batch is processed again once it was, for a cache that is        *)
(*     filled, members of all groups for good and at most MaxEventIds      *)
(*     batches (OnceInv, Trapped).                                         *)
(*                                                                         *)
(* The sections: recursive functions and the binary search; the operators  *)
(* that add batches; each of the three invariants with one lemma per       *)
(* action, and after it the theorems that follow from it.                  *)
(***************************************************************************)
EXTENDS EventBusClient, FiniteSetTheorems, TLAPS
-----------------------------------------------------------------------------
(* Recursive functions over numbers.  An induction is the argument that a  *)
(* set of counterexamples has no least element.                            *)
LEMMA LeastNumber ==
    ASSUME NEW T \in SUBSET Nat, T # {}
    PROVE  \E b \in T : \A c \in T : b <= c
<1> DEFINE Below == {1..t : t \in T}
<1>1. Below \subseteq FiniteSubsetsOf(Nat)
  <2>1. \A t \in T : 1..t \in SUBSET Nat /\ IsFiniteSet(1..t)
    BY FS_Interval
  <2> QED  BY <2>1 DEF FiniteSubsetsOf
<1>2. Below # {}
  OBVIOUS
<1>3. PICK B \in Below : \A C \in Below : <<C, B>> \notin StrictSubsetOrdering(Nat)
  <2> HIDE DEF Below
  <2> QED  BY <1>1, <1>2, FS_StrictSubsetOrderingWellFounded, WFMin
<1>4. PICK b \in T : B = 1..b
  OBVIOUS
<1>5. ASSUME NEW c \in T, c < b PROVE FALSE
  <2>1. 1..c \subseteq 1..b /\ b \in 1..b /\ b \notin 1..c
    BY <1>5
  <2>2. <<1..c, B>> \in StrictSubsetOrdering(Nat)
    BY <2>1, <1>4 DEF StrictSubsetOrdering
  <2> QED  BY <2>2, <1>3
<1> QED  BY <1>5

(* binarySearch: the two windows that may be searched next.                *)
Windows(s) == (0..Len(s)) \X (-1..(Len(s) - 1))
Size(w) == w[2] - w[1] + 1
Mid(w) == (w[1] + w[2]) \div 2
Upper(w) == <<Mid(w) + 1, w[2]>>
Lower(w) == <<w[1], Mid(w) - 1>>
Body(s, x, f, w) ==
    IF w[1] > w[2] THEN -w[1] - 1
    ELSE IF x > s[Mid(w) + 1] THEN f[Upper(w)]
    ELSE IF x < s[Mid(w) + 1] THEN f[Lower(w)]
    ELSE Mid(w)
Searches(f, s, x) == f = [w \in Windows(s) |-> Body(s, x, f, w)]

LEMMA WindowsShrink ==
    ASSUME NEW s, Len(s) \in Nat, NEW w \in Windows(s), w[1] <= w[2]
    PROVE  /\ Upper(w) \in Windows(s) /\ Size(Upper(w)) < Size(w)
           /\ Lower(w) \in Windows(s) /\ Size(Lower(w)) < Size(w)
           /\ Mid(w) \in w[1]..w[2] /\ Mid(w) + 1 \in 1..Len(s)
<1>1. w[1] \in 0..Len(s) /\ w[2] \in -1..(Len(s) - 1)
  BY DEF Windows
<1>2. Mid(w) \in w[1]..w[2]
  BY <1>1 DEF Mid
<1> QED  BY <1>1, <1>2 DEF Windows, Size, Upper, Lower

LEMMA SearchExists ==
    ASSUME NEW s, Len(s) \in Nat, NEW x
    PROVE  \E f : Searches(f, s, x)
<1> DEFINE Solves(f, n) == \A w \in Windows(s) : Size(w) <= n => f[w] = Body(s, x, f, w)
           Bad == {n \in Nat : ~\E f : Solves(f, n)}
<1>1. \A w \in Windows(s) : Size(w) \in Int /\ Size(w) <= Len(s) /\ w[1] \in Int /\ w[2] \in Int
  BY DEF Windows, Size
<1>2. Bad = {}
  <2> SUFFICES ASSUME NEW n \in Bad, \A k \in Bad : n <= k PROVE FALSE
    BY LeastNumber
  <2>1. n # 0
    <3> DEFINE f == [w \in Windows(s) |-> -w[1] - 1]
    <3>1. ASSUME NEW w \in Windows(s), Size(w) <= 0 PROVE f[w] = Body(s, x, f, w)
      <4>1. w[1] > w[2] /\ f[w] = -w[1] - 1
        BY <1>1, <3>1 DEF Size
      <4> HIDE DEF f
      <4> QED  BY <4>1 DEF Body
    <3>2. Solves(f, 0)
      BY <3>1
    <3> QED  BY <3>2
  <2>2. PICK g : Solves(g, n - 1)
    BY <2>1
  <2> DEFINE f == [w \in Windows(s) |-> IF Size(w) <= n - 1 THEN g[w] ELSE Body(s, x, g, w)]
  <2>3. ASSUME NEW w \in Windows(s), Size(w) <= n PROVE f[w] = Body(s, x, f, w)
    <3>1. f[w] = Body(s, x, g, w)
      BY <2>2
    <3>2. ASSUME w[1] <= w[2] PROVE f[Upper(w)] = g[Upper(w)] /\ f[Lower(w)] = g[Lower(w)]
      <4>1. Upper(w) \in Windows(s) /\ Size(Upper(w)) < Size(w)
            /\ Lower(w) \in Windows(s) /\ Size(Lower(w)) < Size(w)
        BY <3>2, WindowsShrink
      <4>2. Size(Upper(w)) <= n - 1 /\ Size(Lower(w)) <= n - 1
        BY <1>1, <2>3, <4>1
      <4> QED  BY <4>1, <4>2
    <3>3. Body(s, x, g, w) = Body(s, x, f, w)
      <4>1. CASE w[1] > w[2]
        BY <4>1 DEF Body
      <4>2. CASE w[1] <= w[2]
        <5> HIDE DEF f
        <5> QED  BY <3>2, <4>2 DEF Body
      <4> QED  BY <1>1, <4>1, <4>2
    <3> QED  BY <3>1, <3>3
  <2>4. Solves(f, n)
    BY <2>3
  <2> QED  BY <2>4
<1>3. PICK g : Solves(g, Len(s))
  BY <1>2
<1> DEFINE f == [w \in Windows(s) |-> g[w]]
<1>4. ASSUME NEW w \in Windows(s) PROVE g[w] = Body(s, x, f, w)
  <2>1. g[w] = Body(s, x, g, w)
    BY <1>1, <1>3
  <2>2. ASSUME w[1] <= w[2] PROVE f[Upper(w)] = g[Upper(w)] /\ f[Lower(w)] = g[Lower(w)]
    BY <2>2, WindowsShrink
  <2>3. CASE w[1] > w[2]
    BY <2>1, <2>3 DEF Body
  <2>4. CASE w[1] <= w[2]
    <3> HIDE DEF f
    <3> QED  BY <2>1, <2>2, <2>4 DEF Body
  <2> QED  BY <1>1, <2>3, <2>4
<1>5. f = [w \in Windows(s) |-> Body(s, x, f, w)]
  BY <1>4
<1> HIDE DEF f
<1> QED  BY <1>5 DEF Searches

LEMMA BinarySearchUnfolds ==
    ASSUME NEW s, Len(s) \in Nat, NEW x
    PROVE  \E f : Searches(f, s, x) /\ BinarySearch(s, x) = f[<<0, Len(s) - 1>>]
<1> DEFINE F == CHOOSE f : Searches(f, s, x)
<1>1. Searches(F, s, x)
  BY SearchExists, Zenon
<1>2. BinarySearch(s, x) = F[<<0, Len(s) - 1>>]
  BY Zenon DEF BinarySearch, Searches, Windows, Body, Mid, Upper, Lower
<1> QED  BY <1>1, <1>2, Zenon

(* An id that binarySearch finds is in the array, whatever its order.      *)
LEMMA FoundIsThere ==
    ASSUME NEW s \in Seq(Nat), NEW x \in Nat
    PROVE  /\ BinarySearch(s, x) \in Int
           /\ BinarySearch(s, x) >= 0 => \E k \in 1..Len(s) : s[k] = x
<1> DEFINE Ok(v) == v \in Int /\ (v >= 0 => \E k \in 1..Len(s) : s[k] = x)
<1>0. Len(s) \in Nat /\ \A k \in 1..Len(s) : s[k] \in Nat
  OBVIOUS
<1>1. PICK f : Searches(f, s, x) /\ BinarySearch(s, x) = f[<<0, Len(s) - 1>>]
  BY <1>0, BinarySearchUnfolds
<1> DEFINE Bad == {n \in Nat : \E w \in Windows(s) : Size(w) <= n /\ ~Ok(f[w])}
<1>2. Bad = {}
  <2> SUFFICES ASSUME NEW n \in Bad, \A k \in Bad : n <= k PROVE FALSE
    BY LeastNumber
  <2>1. PICK w \in Windows(s) : Size(w) <= n /\ ~Ok(f[w])
    OBVIOUS
  <2>2. f[w] = Body(s, x, f, w) /\ w[1] \in Nat /\ w[2] \in Int
    BY <1>1 DEF Searches, Windows
  <2>3. w[1] <= w[2]
    BY <2>1, <2>2 DEF Body
  <2>4. /\ Upper(w) \in Windows(s) /\ Size(Upper(w)) < Size(w)
        /\ Lower(w) \in Windows(s) /\ Size(Lower(w)) < Size(w)
        /\ Mid(w) \in Int /\ Mid(w) + 1 \in 1..Len(s)
    BY <1>0, <2>2, <2>3, WindowsShrink
  <2>5. n - 1 \in Nat /\ n - 1 \notin Bad
    <3>1. Size(w) >= 1 /\ Size(w) \in Int
      BY <2>2, <2>3 DEF Size
    <3>2. n \in Nat /\ n >= 1 /\ \A k \in Bad : n <= k
      BY <2>1, <3>1
    <3> HIDE DEF Bad
    <3> QED  BY <3>2
  <2>6. ASSUME NEW v \in Windows(s), Size(v) < Size(w) PROVE Ok(f[v])
    <3>1. Size(v) \in Int /\ Size(w) \in Int
      BY DEF Size, Windows
    <3>2. Size(v) <= n - 1
      BY <2>1, <2>6, <3>1
    <3> QED  BY <2>5, <3>2
  <2>7. Ok(f[Upper(w)]) /\ Ok(f[Lower(w)])
    BY <2>4, <2>6
  <2>8. Ok(Mid(w)) \/ x > s[Mid(w) + 1] \/ x < s[Mid(w) + 1]
    BY <1>0, <2>4
  <2>9. Ok(Body(s, x, f, w))
    <3> HIDE DEF Ok
    <3> QED  BY <2>3, <2>2, <2>7, <2>8 DEF Body
  <2> QED  BY <2>1, <2>2, <2>9
<1>3. <<0, Len(s) - 1>> \in Windows(s) /\ Size(<<0, Len(s) - 1>>) <= Len(s)
  BY <1>0 DEF Windows, Size
<1>4. Ok(f[<<0, Len(s) - 1>>])
  BY <1>0, <1>2, <1>3
<1> QED  BY <1>1, <1>4
-----------------------------------------------------------------------------
(* What adding batches does with the ids and the queue.                    *)

(* The batches in the logs are numbered; those of a group are ordered.     *)
Newest == Cardinality(committed)
Older(b, c) == b.group = c.group /\ b.id < c.id

(* What the client need not process any more or will process.              *)
Covered == Settled \union Range(eventQueue)

Numbered ==
    /\ IsFiniteSet(committed)
    /\ committed \subseteq Batches
    /\ \A b \in committed : b.id <= Newest

(* A batch of the queue comes after the older ones of its group that are   *)
(* not in Base.                                                            *)
InQueueOrder(q, Base) ==
    \A k \in 1..Len(q), c \in committed :
        Older(c, q[k]) => c \in Base \/ \E j \in 1..(k - 1) : q[j] = c

(* Every batch up to the ids is in S.                                      *)
IdsCovered(ids, S) ==
    /\ ids \in [Group -> Seq(0..Newest)]
    /\ \A g \in Group : \A k \in 1..Len(ids[g]) : \A b \in InLog(g) : b.id <= ids[g][k] => b \in S

Extends(q, r) == Len(q) <= Len(r) /\ \A k \in 1..Len(q) : q[k] = r[k]

StateOK(st, Base) ==
    /\ st.queue \in Seq(committed)
    /\ InQueueOrder(st.queue, Base)
    /\ IdsCovered(st.ids, Base \union Range(st.queue))

LEMMA NumberedNat == Numbered => Newest \in Nat /\ \A b \in committed : b.id \in 1..Newest /\ b.group \in Group
  BY FS_CardinalityType DEF Numbered, Newest, Batches, Ids

LEMMA ExtendsRange ==
    ASSUME NEW q, NEW S, q \in Seq(S), NEW r \in Seq(S), Extends(q, r)
    PROVE  Range(q) \subseteq Range(r)
  BY DEF Extends, Range

LEMMA ExtendsAppend ==
    ASSUME NEW S, NEW q \in Seq(S), NEW b \in S
    PROVE  /\ Extends(q, Append(q, b)) /\ Append(q, b) \in Seq(S)
           /\ Range(Append(q, b)) = Range(q) \union {b}
<1>1. /\ Append(q, b) \in Seq(S) /\ Len(Append(q, b)) = Len(q) + 1 /\ Len(q) \in Nat
      /\ \A k \in 1..Len(q) : Append(q, b)[k] = q[k]
      /\ Append(q, b)[Len(q) + 1] = b
      /\ DOMAIN q = 1..Len(q) /\ DOMAIN Append(q, b) = 1..(Len(q) + 1)
  OBVIOUS
<1>2. Range(Append(q, b)) = Range(q) \union {b}
  <2>1. ASSUME NEW y \in Range(Append(q, b)) PROVE y \in Range(q) \union {b}
    <3>1. PICK k \in 1..(Len(q) + 1) : y = Append(q, b)[k]
      BY <1>1 DEF Range
    <3>2. CASE k = Len(q) + 1
      BY <1>1, <3>1, <3>2
    <3>3. CASE k # Len(q) + 1
      <4>1. k \in 1..Len(q)
        BY <1>1, <3>1, <3>3
      <4> QED  BY <1>1, <3>1, <4>1 DEF Range
    <3> QED  BY <3>2, <3>3
  <2>2. ASSUME NEW y \in Range(q) \union {b} PROVE y \in Range(Append(q, b))
    <3>1. CASE y = b
      <4>1. Len(q) + 1 \in 1..(Len(q) + 1)
        BY <1>1
      <4> QED  BY <1>1, <3>1, <4>1 DEF Range
    <3>2. CASE y \in Range(q)
      <4>1. PICK k \in 1..Len(q) : y = q[k]
        BY <1>1, <3>2 DEF Range
      <4>2. k \in 1..(Len(q) + 1)
        BY <1>1
      <4> QED  BY <1>1, <4>1, <4>2 DEF Range
    <3> QED  BY <3>1, <3>2, <2>2
  <2> QED  BY <2>1, <2>2
<1> QED  BY <1>1, <1>2 DEF Extends

(* What capping and inserting leave in the array of ids.                   *)
LEMMA CappedElements ==
    ASSUME NEW S, NEW s \in Seq(S)
    PROVE  /\ Capped(s) \in Seq(S)
           /\ \A k \in 1..Len(Capped(s)) : \E j \in 1..Len(s) : Capped(s)[k] = s[j]
<1>1. CASE Len(s) > MaxEventIds
  <2>1. s # << >> /\ Capped(s) = Tail(s)
    BY <1>1, ClientAssumption DEF Capped
  <2>2. Tail(s) \in Seq(S) /\ \A k \in 1..Len(Tail(s)) : k + 1 \in 1..Len(s) /\ Tail(s)[k] = s[k + 1]
    BY <2>1
  <2> QED  BY <2>1, <2>2
<1>2. CASE ~(Len(s) > MaxEventIds)
  BY <1>2 DEF Capped
<1> QED  BY <1>1, <1>2

LEMMA InsertElements ==
    ASSUME NEW S, NEW u \in Seq(S), NEW x \in S, NEW v \in Seq(S), NEW r, r = u \o <<x>> \o v
    PROVE  /\ r \in Seq(S) /\ Len(r) = Len(u) + 1 + Len(v)
           /\ \A k \in 1..Len(u) : r[k] = u[k]
           /\ r[Len(u) + 1] = x
           /\ \A k \in 1..Len(v) : r[Len(u) + 1 + k] = v[k]
<1>1. r = Append(u, x) \o v
  <2>1. u \o <<x>> = Append(u, x)
    OBVIOUS
  <2> QED  BY <2>1
<1>3. r \in Seq(S)
  BY <1>1
<1>4. Len(r) = Len(u) + 1 + Len(v)
  BY <1>1
<1>5. \A k \in 1..Len(u) : r[k] = u[k]
  BY <1>1
<1>6. r[Len(u) + 1] = x
  BY <1>1
<1>7. \A k \in 1..Len(v) : r[Len(u) + 1 + k] = v[k]
  BY <1>1
<1> QED  BY <1>3, <1>4, <1>5, <1>6, <1>7

LEMMA SpliceElements ==
    ASSUME NEW S, NEW s \in Seq(S), NEW x \in S, NEW p \in Nat, NEW r, r = Splice(s, p, x)
    PROVE  /\ r \in Seq(S)
           /\ \A k \in 1..Len(r) : r[k] = x \/ \E j \in 1..Len(s) : r[k] = s[j]
<1>1. CASE p >= Len(s)
  BY <1>1 DEF Splice
<1>2. CASE ~(p >= Len(s))
  <2>1. PICK u : u = SubSeq(s, 1, p)
    OBVIOUS
  <2>2. PICK v : v = SubSeq(s, p + 1, Len(s))
    OBVIOUS
  <2>3. p \in 0..Len(s) /\ p + 1 \in 1..(Len(s) + 1) /\ Len(s) \in 0..Len(s)
    BY <1>2
  <2>4. u \in Seq(S) /\ Len(u) = p /\ \A k \in 1..p : u[k] = s[k] /\ k \in 1..Len(s)
    BY <2>1, <2>3
  <2>5. v \in Seq(S) /\ Len(v) = Len(s) - p
        /\ \A k \in 1..Len(v) : v[k] = s[k + p] /\ k + p \in 1..Len(s)
    BY <2>2, <2>3
  <2>6. r = u \o <<x>> \o v
    BY <1>2, <2>1, <2>2 DEF Splice
  <2>8. /\ r \in Seq(S) /\ Len(r) = Len(u) + 1 + Len(v)
        /\ \A k \in 1..Len(u) : r[k] = u[k]
        /\ r[Len(u) + 1] = x
        /\ \A k \in 1..Len(v) : r[Len(u) + 1 + k] = v[k]
    <3>1. u \in Seq(S)
      BY <2>4
    <3>2. v \in Seq(S)
      BY <2>5
    <3> QED  BY <3>1, <3>2, <2>6, InsertElements, SMTT(30)
  <2>9. ASSUME NEW k \in 1..Len(r)
        PROVE  r[k] = x \/ \E j \in 1..Len(s) : r[k] = s[j]
    <3>1. CASE k <= p
      BY <2>4, <2>8, <3>1
    <3>2. CASE k = p + 1
      BY <2>4, <2>8, <3>2
    <3>3. CASE k > p + 1
      <4>1. PICK j : j = k - (p + 1)
        OBVIOUS
      <4>2. j \in 1..Len(v) /\ k = Len(u) + 1 + j
        BY <2>4, <2>5, <2>8, <3>3, <4>1
      <4>3. r[k] = v[j]
        BY <2>8, <4>2
      <4> QED  BY <2>5, <4>2, <4>3
    <3> QED  BY <3>1, <3>2, <3>3
  <2> QED  BY <2>8, <2>9
<1> QED  BY <1>1, <1>2

LEMMA AddBatchKeeps ==
    ASSUME Numbered, NEW Base, NEW st, StateOK(st, Base), NEW b \in committed,
           \A c \in committed : Older(c, b) => c \in Base \union Range(st.queue)
    PROVE  LET new == AddBatch(st, b) IN
           /\ StateOK(new, Base)
           /\ Extends(st.queue, new.queue)
           /\ b \in Base \union Range(new.queue)
<1> DEFINE last == st.ids[b.group]
           index == BinarySearch(last, b.id)
           after == IF index < 0 THEN Capped(Splice(last, -index, b.id)) ELSE Capped(last)
           ids == IF b.group \in known THEN [st.ids EXCEPT ![b.group] = after] ELSE st.ids
           queue == IF index < 0 THEN Append(st.queue, b) ELSE st.queue
<1>0. AddBatch(st, b) = [ids |-> ids, queue |-> queue]
  BY DEF AddBatch
<1>1. /\ Newest \in Nat /\ b.id \in 1..Newest /\ b.group \in Group /\ b \in InLog(b.group)
      /\ \A c \in committed : c.id \in 1..Newest
  BY NumberedNat DEF InLog
<1>2. st.ids \in [Group -> Seq(0..Newest)] /\ last \in Seq(0..Newest)
  BY <1>1 DEF StateOK, IdsCovered
<1>3. last \in Seq(Nat)
  BY <1>1, <1>2
<1>4. index \in Int /\ (index >= 0 => \E k \in 1..Len(last) : last[k] = b.id)
  <2>1. last \in Seq(Nat) /\ b.id \in Nat
    BY <1>1, <1>3
  <2>2. /\ BinarySearch(last, b.id) \in Int
        /\ BinarySearch(last, b.id) >= 0 => \E k \in 1..Len(last) : last[k] = b.id
    <3> HIDE DEF last
    <3> QED  BY <2>1, FoundIsThere, Zenon
  <2> QED  BY <2>2, Zenon
<1>5. b \in Base \union Range(queue)
  <2>1. CASE index < 0
    BY <2>1, ExtendsAppend DEF StateOK
  <2>2. CASE ~(index < 0)
    <3>1. PICK k \in 1..Len(last) : last[k] = b.id
      BY <1>4, <2>2
    <3>2. b \in Base \union Range(st.queue)
      BY <1>1, <3>1 DEF StateOK, IdsCovered
    <3> QED  BY <2>2, <3>2
  <2> QED  BY <2>1, <2>2
<1>6. queue \in Seq(committed) /\ Extends(st.queue, queue) /\ Range(st.queue) \subseteq Range(queue)
  <2>1. CASE index < 0
    BY <2>1, ExtendsAppend DEF StateOK
  <2>2. CASE ~(index < 0)
    <3>1. Extends(st.queue, st.queue)
      BY DEF Extends, StateOK
    <3> QED  BY <2>2, <3>1 DEF StateOK
  <2> QED  BY <2>1, <2>2
<1>7. InQueueOrder(queue, Base)
  <2>1. CASE index < 0
    <3> SUFFICES ASSUME NEW k \in 1..Len(queue), NEW c \in committed, Older(c, queue[k])
                 PROVE  c \in Base \/ \E j \in 1..(k - 1) : queue[j] = c
      BY DEF InQueueOrder
    <3>1. /\ queue = Append(st.queue, b) /\ Len(queue) = Len(st.queue) + 1 /\ Len(st.queue) \in Nat
          /\ \A j \in 1..Len(st.queue) : queue[j] = st.queue[j]
          /\ queue[Len(st.queue) + 1] = b /\ DOMAIN st.queue = 1..Len(st.queue)
      BY <2>1 DEF StateOK
    <3>2. CASE k = Len(st.queue) + 1
      <4>1. c \in Base \union Range(st.queue)
        BY <3>1, <3>2
      <4>2. CASE c \in Range(st.queue)
        <5>1. PICK j \in 1..Len(st.queue) : st.queue[j] = c
          BY <3>1, <4>2 DEF Range
        <5>2. j \in 1..(k - 1) /\ queue[j] = c
          BY <3>1, <3>2, <5>1
        <5> QED  BY <5>2
      <4> QED  BY <4>1, <4>2
    <3>3. CASE k # Len(st.queue) + 1
      <4>1. k \in 1..Len(st.queue) /\ queue[k] = st.queue[k]
        BY <3>1, <3>3
      <4>2. c \in Base \/ \E j \in 1..(k - 1) : st.queue[j] = c
        BY <4>1 DEF StateOK, InQueueOrder
      <4>3. ASSUME NEW j \in 1..(k - 1) PROVE queue[j] = st.queue[j]
        BY <3>1, <4>1
      <4> QED  BY <4>2, <4>3
    <3> QED  BY <3>2, <3>3
  <2>2. CASE ~(index < 0)
    BY <2>2 DEF StateOK
  <2> QED  BY <2>1, <2>2
<1>8. /\ after \in Seq(0..Newest)
      /\ \A k \in 1..Len(after) : after[k] = b.id \/ \E j \in 1..Len(last) : after[k] = last[j]
  <2> HIDE DEF last, index
  <2>1. b.id \in 0..Newest
    BY <1>1
  <2>2. CASE index < 0
    <3> DEFINE t == Splice(last, -index, b.id)
    <3>1. -index \in Nat
      BY <1>4, <2>2
    <3>2. t \in Seq(0..Newest)
          /\ \A k \in 1..Len(t) : t[k] = b.id \/ \E j \in 1..Len(last) : t[k] = last[j]
      <4>1. PICK S : S = 0..Newest
        OBVIOUS
      <4>2. PICK p : p = -index
        OBVIOUS
      <4>3. PICK x : x = b.id
        OBVIOUS
      <4>4. PICK s : s = last
        OBVIOUS
      <4>5. PICK r : r = t
        OBVIOUS
      <4>6. p \in Nat /\ x \in S /\ s \in Seq(S)
        BY <1>2, <2>1, <3>1, <4>1, <4>2, <4>3, <4>4
      <4>7. r = Splice(s, p, x)
        BY <4>2, <4>3, <4>4, <4>5
      <4>8. r \in Seq(S) /\ \A k \in 1..Len(r) : r[k] = x \/ \E j \in 1..Len(s) : r[k] = s[j]
        BY <4>6, <4>7, SpliceElements
      <4> HIDE DEF t
      <4> QED  BY <4>1, <4>3, <4>4, <4>5, <4>8
    <3>3. after = Capped(t)
      BY <2>2
    <3> HIDE DEF t
    <3>4. after \in Seq(0..Newest) /\ \A k \in 1..Len(after) : \E j \in 1..Len(t) : after[k] = t[j]
      BY <3>2, <3>3, CappedElements
    <3> HIDE DEF after
    <3> QED  BY <3>2, <3>4
  <2>3. CASE ~(index < 0)
    <3>1. after = Capped(last)
      BY <2>3
    <3> HIDE DEF after
    <3> QED  BY <1>2, <3>1, CappedElements
  <2> QED  BY <2>2, <2>3
<1>9. IdsCovered(ids, Base \union Range(queue))
  <2> HIDE DEF after, index, queue, last
  <2>1. ids \in [Group -> Seq(0..Newest)]
    BY <1>1, <1>2, <1>8
  <2>2. ASSUME NEW g \in Group, NEW k \in 1..Len(ids[g]), NEW c \in InLog(g), c.id <= ids[g][k]
        PROVE  c \in Base \union Range(queue)
    <3>1. ASSUME NEW j \in 1..Len(st.ids[g]), c.id <= st.ids[g][j]
          PROVE  c \in Base \union Range(queue)
      BY <1>6, <3>1 DEF StateOK, IdsCovered
    <3>2. CASE g = b.group /\ b.group \in known
      <4>1. ids[g] = after /\ st.ids[g] = last
        BY <1>1, <1>2, <3>2 DEF last
      <4>2. CASE after[k] = b.id
        <5>1. c \in committed /\ c.group = b.group /\ c.id <= b.id /\ c \in Batches /\ b \in Batches
          BY <2>2, <3>2, <4>1, <4>2 DEF InLog, Numbered
        <5>2. CASE c.id = b.id
          BY <1>5, <5>1, <5>2 DEF Batches
        <5>3. CASE c.id # b.id
          <6>1. Older(c, b)
            BY <1>1, <5>1, <5>3 DEF Older
          <6> QED  BY <1>6, <5>1, <6>1
        <5> QED  BY <5>2, <5>3
      <4>3. CASE after[k] # b.id
        BY <1>8, <2>2, <3>1, <4>1, <4>3
      <4> QED  BY <4>2, <4>3
    <3>3. CASE ~(g = b.group /\ b.group \in known)
      <4>1. ids[g] = st.ids[g]
        BY <1>1, <1>2, <3>3
      <4> QED  BY <2>2, <3>1, <4>1
    <3> QED  BY <3>2, <3>3
  <2> QED  BY <2>1, <2>2 DEF IdsCovered
<1> HIDE DEF ids, queue
<1> QED  BY <1>0, <1>5, <1>6, <1>7, <1>9 DEF StateOK

(* AddAll: the queues after each of the batches.                           *)
Start == [ids |-> lastIds, queue |-> eventQueue]
Added(f, q, n) == IF n = 0 THEN Start ELSE AddBatch(f[n - 1], q[n])
Adds(f, q) == f = [n \in 0..Len(q) |-> Added(f, q, n)]

LEMMA AddsExists ==
    ASSUME NEW q, Len(q) \in Nat
    PROVE  \E f : Adds(f, q)
<1> DEFINE Solves(f, n) == \A k \in 0..n : f[k] = Added(f, q, k)
           Bad == {n \in Nat : ~\E f : Solves(f, n)}
<1>1. Bad = {}
  <2> SUFFICES ASSUME NEW n \in Bad, \A k \in Bad : n <= k PROVE FALSE
    BY LeastNumber
  <2>1. n # 0
    <3> DEFINE f == [k \in 0..0 |-> Start]
    <3>1. Solves(f, 0)
      BY DEF Added
    <3> QED  BY <3>1
  <2>2. PICK g : Solves(g, n - 1)
    <3>1. n - 1 \in Nat /\ ~(n <= n - 1)
      BY <2>1
    <3> HIDE DEF Solves
    <3> QED  BY <3>1
  <2> DEFINE f == [k \in 0..n |-> Added(g, q, k)]
  <2>3. ASSUME NEW k \in 0..n PROVE f[k] = Added(f, q, k)
    <3>1. CASE k = 0
      BY <3>1 DEF Added
    <3>2. CASE k # 0
      <4>1. k - 1 \in 0..(n - 1) /\ k - 1 \in 0..n
        BY <3>2
      <4>2. f[k - 1] = g[k - 1]
        BY <2>2, <4>1
      <4>3. f[k] = Added(g, q, k)
        OBVIOUS
      <4> HIDE DEF f
      <4> QED  BY <3>2, <4>2, <4>3 DEF Added
    <3> QED  BY <3>1, <3>2
  <2>4. Solves(f, n)
    BY <2>3
  <2> QED  BY <2>4
<1>2. PICK g : Solves(g, Len(q))
  BY <1>1
<1> DEFINE f == [n \in 0..Len(q) |-> g[n]]
<1>3. ASSUME NEW n \in 0..Len(q) PROVE g[n] = Added(f, q, n)
  <2>1. g[n] = Added(g, q, n)
    BY <1>2
  <2>2. CASE n = 0
    BY <2>1, <2>2 DEF Added
  <2>3. CASE n # 0
    <3>1. n - 1 \in 0..Len(q)
      BY <2>3
    <3>2. f[n - 1] = g[n - 1]
      BY <3>1
    <3> HIDE DEF f
    <3> QED  BY <2>1, <2>3, <3>2 DEF Added
  <2> QED  BY <2>2, <2>3
<1>4. f = [n \in 0..Len(q) |-> Added(f, q, n)]
  BY <1>3
<1> HIDE DEF f
<1> QED  BY <1>4 DEF Adds

LEMMA AddAllUnfolds ==
    ASSUME NEW q, Len(q) \in Nat
    PROVE  \E f : /\ AddAll(q) = f[Len(q)]
                  /\ f[0] = Start
                  /\ \A n \in 1..Len(q) : f[n] = AddBatch(f[n - 1], q[n])
<1> DEFINE F == CHOOSE f : Adds(f, q)
<1>1. Adds(F, q)
  BY AddsExists, Zenon
<1>2. AddAll(q) = F[Len(q)]
  BY Zenon DEF AddAll, Adds, Added, Start
<1> HIDE DEF F
<1>3. F[0] = Start
  BY <1>1 DEF Adds, Added
<1>4. ASSUME NEW n \in 1..Len(q) PROVE F[n] = AddBatch(F[n - 1], q[n])
  BY <1>1, <1>4 DEF Adds, Added
<1> QED  BY <1>2, <1>3, <1>4

LEMMA ExtendsTransitive ==
    ASSUME NEW S, NEW q \in Seq(S), NEW r \in Seq(S), NEW t \in Seq(S), Extends(q, r), Extends(r, t)
    PROVE  Extends(q, t)
  BY DEF Extends

LEMMA AddAllKeeps ==
    ASSUME Numbered, NEW Base, StateOK(Start, Base), NEW q \in Seq(committed),
           \A k \in 1..Len(q), c \in committed : Older(c, q[k]) =>
               c \in Base \union Range(eventQueue) \/ \E j \in 1..(k - 1) : q[j] = c
    PROVE  LET new == AddAll(q) IN
           /\ StateOK(new, Base)
           /\ Extends(eventQueue, new.queue)
           /\ \A k \in 1..Len(q) : q[k] \in Base \union Range(new.queue)
<1>0. Len(q) \in Nat
  OBVIOUS
<1>1. PICK f : /\ AddAll(q) = f[Len(q)]
               /\ f[0] = Start
               /\ \A n \in 1..Len(q) : f[n] = AddBatch(f[n - 1], q[n])
  BY <1>0, AddAllUnfolds
<1> DEFINE Keeps(st, n) ==
        /\ StateOK(st, Base)
        /\ Extends(eventQueue, st.queue)
        /\ \A k \in 1..n : q[k] \in Base \union Range(st.queue)
    Bad == {n \in 0..Len(q) : ~Keeps(f[n], n)}
<1>2. Bad = {}
  <2> SUFFICES ASSUME NEW n \in Bad, \A k \in Bad : n <= k PROVE FALSE
    <3> HIDE DEF Keeps
    <3>1. Bad \in SUBSET Nat
      BY <1>0
    <3> HIDE DEF Bad
    <3> QED  BY <3>1, LeastNumber
  <2>1. n # 0
    <3>1. Start.queue = eventQueue
      BY DEF Start
    <3>2. Extends(eventQueue, eventQueue)
      BY <3>1 DEF Extends, StateOK
    <3>3. Keeps(Start, 0)
      BY <3>1, <3>2
    <3> HIDE DEF Keeps
    <3> QED  BY <1>1, <3>3
  <2>2. n - 1 \in 0..Len(q) /\ n \in 1..Len(q) /\ n - 1 \notin Bad
    <3>1. n \in 0..Len(q)
      OBVIOUS
    <3> HIDE DEF Bad
    <3> QED  BY <2>1, <3>1
  <2>3. PICK st : st = f[n - 1]
    OBVIOUS
  <2>4. Keeps(st, n - 1)
    BY <2>2, <2>3
  <2>5. PICK b \in committed : b = q[n]
    BY <2>2
  <2>6. PICK new : new = AddBatch(st, b)
    OBVIOUS
  <2>7. f[n] = new
    BY <1>1, <2>2, <2>3, <2>5, <2>6
  <2>8. Range(eventQueue) \subseteq Range(st.queue)
    <3>1. eventQueue \in Seq(committed) /\ st.queue \in Seq(committed)
      BY <2>4 DEF StateOK, Start
    <3> QED  BY <2>4, <3>1, ExtendsRange
  <2>9. ASSUME NEW c \in committed, Older(c, b) PROVE c \in Base \union Range(st.queue)
    <3>1. c \in Base \union Range(eventQueue) \/ \E j \in 1..(n - 1) : q[j] = c
      BY <2>2, <2>5, <2>9
    <3> QED  BY <2>4, <2>8, <3>1
  <2>10. /\ StateOK(new, Base)
         /\ Extends(st.queue, new.queue)
         /\ b \in Base \union Range(new.queue)
    BY <2>4, <2>6, <2>9, AddBatchKeeps
  <2>11. st.queue \in Seq(committed) /\ new.queue \in Seq(committed) /\ eventQueue \in Seq(committed)
    BY <2>4, <2>10 DEF StateOK, Start
  <2>12. Extends(eventQueue, new.queue)
    BY <2>4, <2>10, <2>11, ExtendsTransitive
  <2>13. Range(st.queue) \subseteq Range(new.queue)
    BY <2>10, <2>11, ExtendsRange
  <2>14. ASSUME NEW k \in 1..n PROVE q[k] \in Base \union Range(new.queue)
    <3>1. CASE k = n
      BY <2>5, <2>10, <3>1
    <3>2. CASE k # n
      <4>1. k \in 1..(n - 1)
        BY <2>2, <3>2
      <4> QED  BY <2>4, <2>13, <4>1
    <3> QED  BY <3>1, <3>2
  <2>15. Keeps(new, n)
    BY <2>10, <2>12, <2>14
  <2> HIDE DEF Keeps
  <2> QED  BY <2>7, <2>15
<1>3. Keeps(f[Len(q)], Len(q))
  BY <1>0, <1>2
<1> QED  BY <1>1, <1>3
-----------------------------------------------------------------------------
(* FIRST INVARIANT: only the initialization of the last connection loads,  *)
(* and messages wait for it.                                               *)

(* inits is a function to records with these fields.                       *)
InitFields == {"phase", "existing", "cached", "todo", "ids", "loaded"}
IsInit(i) == i = [f \in InitFields |-> i[f]]
InitsAreRecords ==
    /\ inits = [c \in Connections |-> inits[c]]
    /\ \A c \in Connections : IsInit(inits[c])

(* Only the initialization of the last connection loads, and only it can   *)
(* be retried: connect() forgets the retry of older ones.                  *)
OnlyLastLoads ==
    /\ \A c \in Connections : Loading(c) => c = connections /\ messagesPaused
    /\ \A c \in Connections : inits[c].phase = "wait" /\ retry = c => c = connections

LoadInv ==
    /\ connections \in Nat
    /\ conn # "down" => connections \in Connections
    /\ InitsAreRecords
    /\ OnlyLastLoads

LEMMA NoInitIsInit == IsInit(NoInit) /\ NoInit.phase = "none"
  BY DEF IsInit, InitFields, NoInit

LEMMA LoadInit == ClientInit => LoadInv
<1> SUFFICES ASSUME ClientInit PROVE LoadInv
  OBVIOUS
<1>1. inits = [c \in Connections |-> NoInit] /\ connections = 0 /\ conn = "down"
  BY DEF ClientInit
<1>2. InitsAreRecords
  BY <1>1, NoInitIsInit DEF InitsAreRecords
<1>3. OnlyLastLoads
  BY <1>1, NoInitIsInit DEF OnlyLastLoads, Loading
<1> QED  BY <1>1, <1>2, <1>3 DEF LoadInv

(* The initialization of connection c takes a step from itself to i.       *)
StepsTo(c, i) == inits' = [inits EXCEPT ![c] = i] /\ IsInit(i)

(* A step of one initialization: it goes on, waits for a retry or ends.    *)
LEMMA InitKeepsInv ==
    ASSUME LoadInv, NEW c \in Connections, NEW i, StepsTo(c, i),
           UNCHANGED connections,
           conn' # "down" => conn # "down" \/ c = connections,
           c = connections \/ i.phase = "none",
           retry' = retry \/ (retry' = c /\ c = connections),
           Loading(c)' => messagesPaused',
           \/ messagesPaused'
           \/ UNCHANGED messagesPaused
           \/ c = connections /\ i.phase = "none"
    PROVE  LoadInv'
<1>1. inits'[c] = i /\ \A d \in Connections : d # c => inits'[d] = inits[d]
  BY DEF LoadInv, InitsAreRecords, StepsTo
<1>2. InitsAreRecords'
  <2>1. inits' = [d \in Connections |-> inits'[d]]
    BY DEF LoadInv, InitsAreRecords, StepsTo
  <2>2. ASSUME NEW d \in Connections PROVE IsInit(inits'[d])
    BY <1>1 DEF LoadInv, InitsAreRecords, StepsTo
  <2> QED  BY <2>1, <2>2 DEF InitsAreRecords
<1>3. OnlyLastLoads'
  <2>1. ASSUME NEW d \in Connections, Loading(d)'
        PROVE  d = connections' /\ messagesPaused'
    <3>1. CASE d = c
      BY <1>1, <2>1, <3>1 DEF Loading
    <3>2. CASE d # c
      <4>1. Loading(d)
        BY <1>1, <2>1, <3>2 DEF Loading
      <4> QED  BY <3>2, <4>1 DEF LoadInv, OnlyLastLoads
    <3> QED  BY <3>1, <3>2
  <2>2. ASSUME NEW d \in Connections, inits'[d].phase = "wait", retry' = d
        PROVE  d = connections'
    <3>1. CASE d = c
      BY <1>1, <2>2, <3>1
    <3>2. CASE d # c
      BY <1>1, <2>2, <3>2 DEF LoadInv, OnlyLastLoads
    <3> QED  BY <3>1, <3>2
  <2> QED  BY <2>1, <2>2 DEF OnlyLastLoads
<1> QED  BY <1>2, <1>3 DEF LoadInv

(* StartInit and the actions in which an initialization takes a step.      *)
LEMMA StartsLoading ==
    ASSUME LoadInv, NEW c, StartInit(c)
    PROVE  /\ messagesPaused'
           /\ \E i : StepsTo(c, i)
<1> DEFINE existing == mode = "reconnect" /\ (known # {} \/ stray)
           i == [NoInit EXCEPT !.phase = IF existing THEN "load" ELSE "retrieve",
                               !.existing = existing,
                               !.todo = members]
<1>1. inits' = [inits EXCEPT ![c] = i] /\ messagesPaused'
  BY DEF StartInit
<1>2. IsInit(i)
  BY NoInitIsInit DEF IsInit, InitFields
<1> QED  BY <1>1, <1>2 DEF StepsTo

LEMMA LoadStep ==
    ASSUME ~Overlap
    PROVE  LoadInv /\ [ClientNext]_clientVars => LoadInv'
<1> SUFFICES ASSUME LoadInv, [ClientNext]_clientVars
             PROVE  LoadInv'
  OBVIOUS
<1> USE DEF serverVars, connVars, idVars, queueVars, cacheVars, boundVars, errorVars
<1>1. CASE Connect
  <2>1. \A c \in Connections : ~Loading(c)
    BY <1>1 DEF Connect, Loading
  <2>2. connections' = connections + 1 /\ connections < MaxConnections /\ retry' = None
        /\ inits' = inits
    BY <1>1 DEF Connect
  <2>3. connections' \in Nat /\ connections' \in Connections
    BY <2>2, ClientAssumption DEF LoadInv, Connections
  <2>4. None \notin Connections
    BY ClientAssumption DEF Connections
  <2>5. InitsAreRecords'
    BY <2>2 DEF LoadInv, InitsAreRecords
  <2>6. OnlyLastLoads'
    BY <2>1, <2>2, <2>4 DEF OnlyLastLoads, Loading
  <2> QED  BY <2>3, <2>5, <2>6 DEF LoadInv
<1>2. CASE Open
  <2>1. connections \in Connections
    BY <1>2 DEF Open, LoadInv
  <2>2. messagesPaused' /\ \E i : StepsTo(connections, i)
    BY <1>2, StartsLoading DEF Open
  <2>3. UNCHANGED <<connections, retry>>
    BY <1>2 DEF Open
  <2> QED  BY <2>1, <2>2, <2>3, InitKeepsInv
<1>3. ASSUME NEW c \in Connections, NEW g \in Group, Retrieve(c, g) PROVE LoadInv'
  <2> DEFINE id == IF cacheLast[g] # None THEN cacheLast[g] ELSE NewestIn(g)
             i == [inits[c] EXCEPT !.todo = @ \ {g}, !.ids[g] = <<id>>,
                                   !.cached = @ \/ cacheLast[g] # None]
  <2>1. Loading(c) /\ UNCHANGED <<connections, conn, retry, messagesPaused>>
    BY <1>3 DEF Retrieve, Loading
  <2>2. inits' = [inits EXCEPT ![c] = i]
    <3>1. inits' = [inits EXCEPT ![c].todo = @ \ {g},
                                 ![c].ids[g] = <<id>>,
                                 ![c].cached = @ \/ cacheLast[g] # None]
      BY <1>3 DEF Retrieve
    <3>2. inits = [d \in Connections |-> inits[d]]
          /\ inits[c] = [f \in InitFields |-> inits[c][f]]
      BY DEF LoadInv, InitsAreRecords, IsInit
    <3> HIDE DEF id
    <3> QED  BY <3>1, <3>2 DEF InitFields
  <2>3. IsInit(i)
    BY DEF LoadInv, InitsAreRecords, IsInit, InitFields
  <2>4. c = connections /\ messagesPaused
    BY <2>1 DEF LoadInv, OnlyLastLoads
  <2> HIDE DEF i
  <2> QED  BY <2>1, <2>2, <2>3, <2>4, InitKeepsInv DEF StepsTo
<1>4. ASSUME NEW c \in Connections, NEW g \in Group, Load(c, g) PROVE LoadInv'
  <2> DEFINE rest == inits[c].todo \ {g}
             missed == {b \in InLog(g) : b.id > LastOf(lastIds[g])}
             i == [inits[c] EXCEPT !.todo = rest, !.loaded = @ \union missed,
                                   !.phase = IF rest = {} THEN "add" ELSE "load"]
  <2>1. Loading(c) /\ UNCHANGED <<connections, conn, retry, messagesPaused>>
    BY <1>4 DEF Load, Loading
  <2>2. inits' = [inits EXCEPT ![c] = i]
    BY <1>4 DEF Load, LoadInv, InitsAreRecords, IsInit, InitFields
  <2>3. IsInit(i)
    BY DEF LoadInv, InitsAreRecords, IsInit, InitFields
  <2>4. c = connections /\ messagesPaused
    BY <2>1 DEF LoadInv, OnlyLastLoads
  <2> HIDE DEF i
  <2> QED  BY <2>1, <2>2, <2>3, <2>4, InitKeepsInv DEF StepsTo
<1>5. ASSUME NEW c \in Connections, SetLastIds(c) PROVE LoadInv'
  <2> DEFINE i == [inits[c] EXCEPT !.phase = IF inits[c].cached THEN "load" ELSE "resume",
                                   !.todo = members, !.ids = NoInit.ids]
  <2>1. Loading(c) /\ UNCHANGED <<connections, conn, retry, messagesPaused>>
    BY <1>5 DEF SetLastIds, Loading
  <2>2. inits' = [inits EXCEPT ![c] = i]
    BY <1>5 DEF SetLastIds, LoadInv, InitsAreRecords, IsInit, InitFields
  <2>3. IsInit(i)
    BY DEF LoadInv, InitsAreRecords, IsInit, InitFields
  <2>4. c = connections /\ messagesPaused
    BY <2>1 DEF LoadInv, OnlyLastLoads
  <2> HIDE DEF i
  <2> QED  BY <2>1, <2>2, <2>3, <2>4, InitKeepsInv DEF StepsTo
<1>6. ASSUME NEW c \in Connections, AddMissed(c) PROVE LoadInv'
  <2> DEFINE i == [NoInit EXCEPT !.phase = "resume"]
  <2>1. Loading(c) /\ UNCHANGED <<connections, conn, retry, messagesPaused>>
        /\ inits' = [inits EXCEPT ![c] = i]
    BY <1>6 DEF AddMissed, Loading
  <2>2. IsInit(i)
    BY NoInitIsInit DEF IsInit, InitFields
  <2>3. c = connections /\ messagesPaused
    BY <2>1 DEF LoadInv, OnlyLastLoads
  <2> HIDE DEF i
  <2> QED  BY <2>1, <2>2, <2>3, InitKeepsInv DEF StepsTo
<1>7. ASSUME NEW c \in Connections, ResumeQueues(c) PROVE LoadInv'
  <2>1. Loading(c) /\ UNCHANGED <<connections, conn, retry>>
        /\ inits' = [inits EXCEPT ![c] = NoInit]
    BY <1>7 DEF ResumeQueues, Loading
  <2>2. c = connections
    BY <2>1 DEF LoadInv, OnlyLastLoads
  <2>3. ~Loading(c)'
    BY <2>1, NoInitIsInit DEF LoadInv, InitsAreRecords, Loading
  <2> QED  BY <2>1, <2>2, <2>3, NoInitIsInit, InitKeepsInv DEF StepsTo
<1>8. ASSUME NEW c \in Connections, InitDisconnected(c) PROVE LoadInv'
  <2>1. UNCHANGED <<connections, retry, messagesPaused>> /\ conn' = "down"
        /\ inits' = [inits EXCEPT ![c] = NoInit]
    BY <1>8 DEF InitDisconnected, Lose
  <2>2. ~Loading(c)'
    BY <2>1, NoInitIsInit DEF LoadInv, InitsAreRecords, Loading
  <2> QED  BY <2>1, <2>2, NoInitIsInit, InitKeepsInv DEF StepsTo
<1>9. ASSUME NEW c \in Connections, InitUnavailable(c) PROVE LoadInv'
  <2> DEFINE i == [NoInit EXCEPT !.phase = "wait"]
  <2>1. Loading(c) /\ UNCHANGED <<connections, conn, messagesPaused>> /\ retry' = c
        /\ inits' = [inits EXCEPT ![c] = i]
    BY <1>9 DEF InitUnavailable, Loading
  <2>2. IsInit(i)
    BY NoInitIsInit DEF IsInit, InitFields
  <2>3. c = connections /\ messagesPaused
    BY <2>1 DEF LoadInv, OnlyLastLoads
  <2> HIDE DEF i
  <2> QED  BY <2>1, <2>2, <2>3, InitKeepsInv DEF StepsTo
<1>10. ASSUME NEW c \in Connections, RetryInit(c) PROVE LoadInv'
  <2>1. UNCHANGED <<connections, conn, retry>> /\ inits[c].phase = "wait"
    BY <1>10 DEF RetryInit
  <2>2. CASE retry = c
    <3>1. messagesPaused' /\ \E i : StepsTo(c, i)
      BY <1>10, <2>2, StartsLoading DEF RetryInit
    <3>2. c = connections
      BY <2>1, <2>2 DEF LoadInv, OnlyLastLoads
    <3> QED  BY <2>1, <3>1, <3>2, InitKeepsInv
  <2>3. CASE retry # c
    <3>1. UNCHANGED messagesPaused /\ inits' = [inits EXCEPT ![c] = NoInit]
      BY <1>10, <2>3 DEF RetryInit
    <3>2. ~Loading(c)'
      BY <3>1, NoInitIsInit DEF LoadInv, InitsAreRecords, Loading
    <3> QED  BY <2>1, <3>1, <3>2, NoInitIsInit, InitKeepsInv DEF StepsTo
  <2> QED  BY <2>2, <2>3
<1>11. ASSUME NEW c \in Connections, NEW g \in Group, LoadForbidden(c, g) PROVE LoadInv'
  <2> DEFINE rest == inits[c].todo \ {g}
             i == [inits[c] EXCEPT !.todo = rest, !.phase = IF rest = {} THEN "add" ELSE "load"]
  <2>1. Loading(c) /\ UNCHANGED <<connections, conn, retry, messagesPaused>>
    BY <1>11 DEF LoadForbidden, Loading
  <2>2. inits' = [inits EXCEPT ![c] = i]
    BY <1>11 DEF LoadForbidden, LoadInv, InitsAreRecords, IsInit, InitFields
  <2>3. IsInit(i)
    BY DEF LoadInv, InitsAreRecords, IsInit, InitFields
  <2>4. c = connections /\ messagesPaused
    BY <2>1 DEF LoadInv, OnlyLastLoads
  <2> HIDE DEF i
  <2> QED  BY <2>1, <2>2, <2>3, <2>4, InitKeepsInv DEF StepsTo
<1>12. ASSUME NEW c \in Connections, InitFails(c) PROVE LoadInv'
  <2>1. Loading(c) /\ UNCHANGED <<connections, conn, retry>>
        /\ inits' = [inits EXCEPT ![c] = NoInit]
    BY <1>12 DEF InitFails, Loading
  <2>2. c = connections
    BY <2>1 DEF LoadInv, OnlyLastLoads
  <2>3. ~Loading(c)'
    BY <2>1, NoInitIsInit DEF LoadInv, InitsAreRecords, Loading
  <2> QED  BY <2>1, <2>2, <2>3, NoInitIsInit, InitKeepsInv DEF StepsTo
<1>13. ASSUME UNCHANGED <<connections, inits, messagesPaused>>, conn' \in {conn, "down"},
              retry' \in {retry, BatchRetry}
       PROVE  LoadInv'
  <2>1. BatchRetry \notin Connections
    BY DEF BatchRetry, Connections
  <2>2. OnlyLastLoads'
    BY <1>13, <2>1 DEF LoadInv, OnlyLastLoads, Loading
  <2>3. InitsAreRecords'
    BY <1>13 DEF LoadInv, InitsAreRecords
  <2> QED  BY <1>13, <2>2, <2>3 DEF LoadInv
<1>14. ASSUME \/ \E b \in Batches : Commit(b)
              \/ \E g \in Joinable : Join(g)
              \/ ConnectionLost \/ Receive
              \/ CacheWrites \/ CacheMarks \/ BatchDone
              \/ BatchUnavailable \/ BatchFails \/ RetryBatch
              \/ UNCHANGED clientVars
       PROVE  /\ UNCHANGED <<connections, inits, messagesPaused>>
              /\ conn' \in {conn, "down"}
              /\ retry' \in {retry, BatchRetry}
  BY <1>14 DEF Commit, Join, ConnectionLost, Lose, Receive, CacheWrites, CacheMarks,
               BatchDone, BatchUnavailable, BatchFails, RetryBatch, clientVars, boundVars, errorVars
<1>15. CASE Crash
  <2>1. inits' = [c \in Connections |-> NoInit] /\ conn' = "down"
        /\ connections' = connections
    BY <1>15 DEF Crash
  <2>2. InitsAreRecords'
    BY <2>1, NoInitIsInit DEF InitsAreRecords
  <2>3. OnlyLastLoads'
    BY <2>1, NoInitIsInit DEF OnlyLastLoads, Loading
  <2> QED  BY <2>1, <2>2, <2>3 DEF LoadInv
<1> QED
  BY <1>1, <1>2, <1>3, <1>4, <1>5, <1>6, <1>7, <1>8, <1>9, <1>10, <1>11, <1>12, <1>13,
     <1>14, <1>15
  DEF ClientNext
-----------------------------------------------------------------------------
(* SECOND INVARIANT: nothing is missing. Every batch of a log before one   *)
(* that was seen, waits or is loaded was seen, waits or is loaded too.     *)

(* The invariant.  What was seen of a log is a beginning of it.            *)
SeenInv ==
    /\ skipped \subseteq committed /\ everHandled \subseteq committed /\ givenUp \subseteq committed
    /\ \A b \in committed : b.group \notin members => b \in skipped
    /\ \A b \in everHandled, c \in committed : Older(c, b) => c \in Settled

CacheInv ==
    \A g \in Group : cacheLast[g] # None =>
        /\ cacheLast[g] \in 0..Newest
        /\ \A b \in InLog(g) : b.id <= cacheLast[g] => b \in Settled

QueueInv ==
    /\ eventQueue \in Seq(committed)
    /\ InQueueOrder(eventQueue, Settled)
    /\ IdsCovered(lastIds, Covered)

StageInv ==
    /\ stage \in Stages
    /\ stage # "idle" => eventQueue # << >>
    /\ stage \in {"mark", "listener"} => Head(eventQueue) \in everHandled

(* The messages that were not added yet are in the order of the log.       *)
Messages == Range(messageQueue) \union Range(channel)
Ascending(s) == \A j, k \in 1..Len(s) : j < k => s[j].id < s[k].id
MessagesInv ==
    /\ messageQueue \in Seq(committed) /\ channel \in Seq(committed)
    /\ Ascending(messageQueue) /\ Ascending(channel)
    /\ \A b \in Range(messageQueue), c \in Range(channel) : b.id < c.id
    /\ conn # "open" => channel = << >>
    /\ messagesPaused \in BOOLEAN
    /\ ~messagesPaused => messageQueue = << >>

(* No batch of the group is missing between those of S and the messages,   *)
(* and while there is a connection none is missing after them.             *)
Pipe(g, S) ==
    /\ \A m \in Messages, b \in InLog(g) : Older(b, m) => b \in S \union Messages
    /\ conn = "open" => InLog(g) \subseteq S \union Messages

(* The initialization i has loaded what was missing in the group.          *)
Filled(i, g) ==
    \/ i.phase \in {"add", "resume"}
    \/ i.phase = "load" /\ g \notin i.todo
    \/ i.phase = "retrieve" /\ ~i.cached /\ g \notin i.todo

InitOK(i) ==
    /\ IdsCovered(i.ids, Settled)
    /\ i.loaded \subseteq committed
    /\ \A b \in i.loaded, d \in committed : Older(d, b) => d \in Covered \union i.loaded
    /\ i.phase \notin {"load", "add"} => i.loaded = {}
    /\ \A g \in Group : Filled(i, g) => Pipe(g, Covered \union i.loaded)

PipeInv == ~messagesPaused => \A g \in Group : Pipe(g, Covered)

(* No initialization runs while a connection is being made. *)
ConnInv ==
    conn = "connecting" =>
        \A c \in Connections : ~Loading(c) /\ (inits[c].phase = "wait" => retry # c)

ServerInv == Numbered /\ SeenInv
InitsInv == \A c \in Connections : InitOK(inits[c])

RestInv ==
    /\ ServerInv
    /\ CacheInv
    /\ QueueInv /\ StageInv
    /\ MessagesInv /\ PipeInv
    /\ InitsInv /\ ConnInv

LogInv == LoadInv /\ RestInv
-----------------------------------------------------------------------------
LEMMA EmptyQueue ==
    ASSUME NEW S, NEW q, q = << >>
    PROVE  q \in Seq(S) /\ Range(q) = {} /\ Ascending(q)
<1>1. Len(q) = 0 /\ q \in Seq(S)
  OBVIOUS
<1> QED  BY <1>1 DEF Range, Ascending

LEMMA SequenceGrows ==
    ASSUME NEW S, NEW T, S \subseteq T, NEW s \in Seq(S)
    PROVE  s \in Seq(T)
  OBVIOUS

LEMMA ElementIn ==
    ASSUME NEW S, NEW s \in Seq(S), NEW k \in 1..Len(s)
    PROVE  s[k] \in S /\ s[k] \in Range(s)
  BY DEF Range

LEMMA RangeIn ==
    ASSUME NEW S, NEW s \in Seq(S)
    PROVE  Range(s) \subseteq S
  BY DEF Range

LEMMA AscendingAppend ==
    ASSUME NEW S, NEW q \in Seq(S), NEW b \in S, Ascending(q), \A k \in 1..Len(q) : q[k].id < b.id
    PROVE  Ascending(Append(q, b))
<1>1. PICK r : r = Append(q, b)
  OBVIOUS
<1>2. Len(r) = Len(q) + 1 /\ r[Len(q) + 1] = b /\ Len(q) \in Nat /\ \A k \in 1..Len(q) : r[k] = q[k]
  BY <1>1
<1>3. ASSUME NEW j \in 1..Len(r), NEW k \in 1..Len(r), j < k PROVE r[j].id < r[k].id
  <2>1. j \in 1..Len(q) /\ r[j] = q[j]
    BY <1>2, <1>3
  <2>2. CASE k = Len(q) + 1
    BY <1>2, <2>1, <2>2
  <2>3. CASE k # Len(q) + 1
    <3>1. k \in 1..Len(q) /\ r[k] = q[k]
      BY <1>2, <2>3
    <3> QED  BY <1>3, <2>1, <3>1 DEF Ascending
  <2> QED  BY <2>2, <2>3
<1> QED  BY <1>1, <1>3 DEF Ascending

LEMMA TailElements ==
    ASSUME NEW S, NEW q \in Seq(S), q # << >>
    PROVE  /\ Head(q) \in S /\ Head(q) = q[1] /\ Tail(q) \in Seq(S) /\ Len(q) \in Nat \ {0}
           /\ Len(Tail(q)) = Len(q) - 1
           /\ \A k \in 1..(Len(q) - 1) : Tail(q)[k] = q[k + 1]
           /\ Range(q) = Range(Tail(q)) \union {Head(q)}
<1>1. PICK t : t = Tail(q)
  OBVIOUS
<1>2. Head(q) \in S /\ Head(q) = q[1] /\ t \in Seq(S) /\ Len(q) \in Nat \ {0}
  BY <1>1
<1>3. Len(t) = Len(q) - 1 /\ \A k \in 1..(Len(q) - 1) : t[k] = q[k + 1]
  BY <1>1
<1>4. DOMAIN q = 1..Len(q) /\ DOMAIN t = 1..Len(t)
  BY <1>2
<1>5. ASSUME NEW k \in 1..Len(q) PROVE q[k] \in Range(t) \union {q[1]}
  <2>1. CASE k = 1
    BY <2>1
  <2>2. CASE k # 1
    <3>1. k - 1 \in 1..Len(t) /\ k - 1 \in 1..(Len(q) - 1) /\ (k - 1) + 1 = k
      BY <1>3, <2>2
    <3>2. t[k - 1] = q[k]
      BY <1>3, <3>1
    <3> QED  BY <1>4, <3>1, <3>2 DEF Range
  <2> QED  BY <2>1, <2>2
<1>6. ASSUME NEW k \in 1..Len(t) PROVE t[k] \in Range(q)
  <2>1. k + 1 \in 1..Len(q) /\ t[k] = q[k + 1]
    BY <1>2, <1>3
  <2> QED  BY <1>4, <2>1 DEF Range
<1>7. q[1] \in Range(q)
  BY <1>2, <1>4 DEF Range
<1>8. Range(q) = Range(t) \union {q[1]}
  BY <1>4, <1>5, <1>6, <1>7 DEF Range
<1> QED  BY <1>1, <1>2, <1>3, <1>8

LEMMA AscendingTail ==
    ASSUME NEW S, NEW q \in Seq(S), q # << >>, Ascending(q)
    PROVE  Ascending(Tail(q)) /\ \A b \in Range(Tail(q)) : Head(q).id < b.id
<1>1. PICK t : t = Tail(q)
  OBVIOUS
<1>2. /\ Head(q) = q[1] /\ t \in Seq(S) /\ Len(q) \in Nat \ {0}
      /\ Len(t) = Len(q) - 1 /\ \A k \in 1..(Len(q) - 1) : t[k] = q[k + 1]
  BY <1>1, TailElements
<1>3. ASSUME NEW j \in 1..Len(t), NEW k \in 1..Len(t), j < k PROVE t[j].id < t[k].id
  <2>1. /\ j + 1 \in 1..Len(q) /\ k + 1 \in 1..Len(q) /\ j + 1 < k + 1
        /\ t[j] = q[j + 1] /\ t[k] = q[k + 1]
    BY <1>2, <1>3
  <2> QED  BY <2>1 DEF Ascending
<1>4. ASSUME NEW b \in Range(t) PROVE q[1].id < b.id
  <2>1. PICK k \in 1..Len(t) : b = t[k]
    BY <1>2 DEF Range
  <2>2. 1 \in 1..Len(q) /\ k + 1 \in 1..Len(q) /\ 1 < k + 1 /\ b = q[k + 1]
    BY <1>2, <2>1
  <2> QED  BY <2>2 DEF Ascending
<1> QED  BY <1>1, <1>2, <1>3, <1>4 DEF Ascending
-----------------------------------------------------------------------------
(* What a step keeps if it does not touch the rest.                        *)
Grows == UNCHANGED committed /\ Settled \subseteq Settled' /\ Covered \subseteq Covered'

LEMMA CoveredGrows ==
    ASSUME UNCHANGED <<committed, eventQueue>>, Settled \subseteq Settled'
    PROVE  Grows
  BY DEF Grows, Covered

LEMMA CacheFrame ==
    ASSUME CacheInv, Grows, UNCHANGED cacheLast
    PROVE  CacheInv'
  BY DEF CacheInv, Grows, Newest, InLog

LEMMA QueueFrame ==
    ASSUME QueueInv, Grows, UNCHANGED <<eventQueue, lastIds>>
    PROVE  QueueInv'
<1>1. InQueueOrder(eventQueue, Settled)'
  BY DEF QueueInv, Grows, InQueueOrder
<1>2. IdsCovered(lastIds, Covered)'
  BY DEF QueueInv, Grows, IdsCovered, Newest, InLog
<1> QED  BY <1>1, <1>2 DEF QueueInv, Grows

LEMMA StageFrame ==
    ASSUME StageInv, UNCHANGED <<stage, eventQueue, everHandled>>
    PROVE  StageInv'
  BY DEF StageInv

LEMMA ServerFrame ==
    ASSUME ServerInv, UNCHANGED <<committed, members, skipped, givenUp, everHandled>>
    PROVE  ServerInv'
  BY DEF ServerInv, Numbered, SeenInv, Settled, Newest

LEMMA MessagesFrame ==
    ASSUME MessagesInv, UNCHANGED <<committed, messageQueue, channel>>, 
           conn' # "open" => conn # "open", messagesPaused' \in BOOLEAN, messagesPaused => messagesPaused'
    PROVE  MessagesInv'
  BY DEF MessagesInv, Ascending

(* The messages and the connection are as good as before. *)
PipesKeep == \A g \in Group : \A S : Pipe(g, S) => Pipe(g, S)'

LEMMA PipeGrows ==
    ASSUME NEW g, NEW S, NEW T, S \subseteq T, Pipe(g, S)
    PROVE  Pipe(g, T)
  BY DEF Pipe

LEMMA PipesFrame ==
    ASSUME UNCHANGED <<committed, messageQueue, channel>>, conn' = "open" => conn = "open"
    PROVE  PipesKeep
  BY DEF PipesKeep, Pipe, Messages, InLog

LEMMA PipeFrame ==
    ASSUME PipeInv, Grows, PipesKeep, ~messagesPaused' => ~messagesPaused
    PROVE  PipeInv'
<1> SUFFICES ASSUME ~messagesPaused', NEW g \in Group PROVE Pipe(g, Covered)'
  BY DEF PipeInv
<1>1. PICK S : S = Covered
  OBVIOUS
<1>2. PICK T : T = Covered'
  OBVIOUS
<1>3. Pipe(g, S)'
  BY <1>1 DEF PipeInv, PipesKeep
<1>4. S \subseteq T
  BY <1>1, <1>2 DEF Grows
<1>5. Pipe(g, T)'
  BY <1>3, <1>4 DEF Pipe
<1> QED  BY <1>2, <1>5 DEF Pipe

LEMMA InitFrame ==
    ASSUME NEW i, InitOK(i), Grows, PipesKeep
    PROVE  InitOK(i)'
<1>1. IdsCovered(i.ids, Settled)'
  BY DEF InitOK, Grows, IdsCovered, Newest, InLog
<1>2. ASSUME NEW g \in Group, Filled(i, g) PROVE Pipe(g, Covered \union i.loaded)'
  <2>1. PICK S : S = Covered \union i.loaded
    OBVIOUS
  <2>2. PICK T : T = Covered' \union i.loaded
    OBVIOUS
  <2>3. Pipe(g, S)'
    BY <1>2, <2>1 DEF InitOK, PipesKeep
  <2>4. S \subseteq T
    BY <2>1, <2>2 DEF Grows
  <2>5. Pipe(g, T)'
    BY <2>3, <2>4 DEF Pipe
  <2> QED  BY <2>2, <2>5 DEF Pipe
<1> QED  BY <1>1, <1>2 DEF InitOK, Grows, Filled

LEMMA InitsFrame ==
    ASSUME InitsInv, Grows, PipesKeep, UNCHANGED inits
    PROVE  InitsInv'
<1> SUFFICES ASSUME NEW c \in Connections PROVE InitOK(inits[c])'
  BY DEF InitsInv
<1>1. PICK i : i = inits[c]
  OBVIOUS
<1>2. InitOK(i)'
  BY <1>1, InitFrame DEF InitsInv
<1> QED  BY <1>1, <1>2 DEF InitOK, IdsCovered, Filled

(* A step of the initialization of connection c to i. *)
LEMMA InitsStep ==
    ASSUME LoadInv, InitsInv, Grows, PipesKeep,
           NEW c \in Connections, NEW i, inits' = [inits EXCEPT ![c] = i], InitOK(i)'
    PROVE  InitsInv' /\ inits'[c] = i /\ \A d \in Connections : d # c => inits'[d] = inits[d]
<1>1. inits'[c] = i /\ \A d \in Connections : d # c => inits'[d] = inits[d]
  BY DEF LoadInv, InitsAreRecords
<1>2. ASSUME NEW d \in Connections PROVE InitOK(inits[d])'
  <2>1. CASE d = c
    BY <1>1, <2>1 DEF InitOK, IdsCovered, Filled
  <2>2. CASE d # c
    <3>1. PICK j : j = inits[d]
      OBVIOUS
    <3>2. InitOK(j)'
      BY <3>1, InitFrame DEF InitsInv
    <3> QED  BY <1>1, <2>2, <3>1, <3>2 DEF InitOK, IdsCovered, Filled
  <2> QED  BY <2>1, <2>2
<1> QED  BY <1>1, <1>2 DEF InitsInv

LEMMA ConnFrame ==
    ASSUME ConnInv, conn' = "connecting" => conn = "connecting",
           UNCHANGED inits, retry' \in {retry, BatchRetry}
    PROVE  ConnInv'
<1>1. \A c \in Connections : BatchRetry # c
  BY DEF BatchRetry, Connections
<1> QED  BY <1>1 DEF ConnInv, Loading

(* The steps of the server.                                                *)
LEMMA CommitKeeps ==
    ASSUME LogInv, NEW b \in Batches, Commit(b)
    PROVE  RestInv'
<1> USE DEF serverVars, connVars, idVars, queueVars, cacheVars, boundVars, errorVars
<1>1. /\ Newest \in Nat /\ b.id = Newest + 1 /\ b.group \in Group
      /\ \A c \in committed : c.id \in 1..Newest /\ c.group \in Group
      /\ b \notin committed
      /\ IsFiniteSet(committed) /\ committed \subseteq Batches
  <2>1. Numbered /\ b.id = Newest + 1
    BY DEF LogInv, RestInv, ServerInv, Commit, Newest
  <2> QED  BY <2>1, NumberedNat DEF Numbered, Batches
<1>2. committed' = committed \union {b} /\ Newest' = Newest + 1
  BY <1>1, FS_AddElement DEF Commit, Newest
<1>3. Numbered'
  BY <1>1, <1>2, FS_AddElement DEF Numbered
<1>4. /\ skipped' = IF b.group \in members THEN skipped ELSE skipped \union {b}
      /\ everHandled' = everHandled /\ members' = members /\ givenUp' = givenUp
      /\ UNCHANGED <<messageQueue, messagesPaused, conn, cacheLast, eventQueue, lastIds, inits, retry,
                     stage>>
      /\ channel' = IF conn = "open" /\ b.group \in members THEN Append(channel, b) ELSE channel
  BY DEF Commit
<1>5. Settled \subseteq Settled' /\ Covered \subseteq Covered'
  BY <1>4 DEF Settled, Covered
<1>6. SeenInv
  BY DEF LogInv, RestInv, ServerInv
<1>7. ASSUME NEW c \in committed', NEW d \in committed', Older(c, d) PROVE c # b /\ c \in committed
  BY <1>1, <1>2, <1>7 DEF Older
<1>8. SeenInv'
  <2>1. \A c \in committed' : c.group \notin members' => c \in skipped'
    BY <1>2, <1>4, <1>6 DEF SeenInv
  <2>2. ASSUME NEW d \in everHandled', NEW c \in committed', Older(c, d) PROVE c \in Settled'
    <3>1. d \in everHandled /\ d \in committed' /\ c \in committed
      BY <1>2, <1>4, <1>6, <1>7, <2>2 DEF SeenInv
    <3> QED  BY <1>5, <1>6, <2>2, <3>1 DEF SeenInv
  <2>3. skipped' \subseteq committed' /\ everHandled' \subseteq committed' /\ givenUp' \subseteq committed'
    BY <1>2, <1>4, <1>6 DEF SeenInv
  <2> QED  BY <2>1, <2>2, <2>3 DEF SeenInv
<1>9. ASSUME NEW g, NEW c \in InLog(g)' PROVE c \in InLog(g) \/ c = b
  BY <1>2, <1>9 DEF InLog
<1>10. CacheInv'
  BY <1>1, <1>2, <1>4, <1>5, <1>9 DEF LogInv, RestInv, CacheInv
<1>11. ASSUME NEW ids, NEW S, NEW T, IdsCovered(ids, S), S \subseteq T PROVE IdsCovered(ids, T)'
  <2>1. ids \in [Group -> Seq(0..Newest)] /\ \A g \in Group : ids[g] \in Seq(0..Newest)
    BY <1>11 DEF IdsCovered
  <2>2. ASSUME NEW g \in Group PROVE ids[g] \in Seq(0..Newest')
    <3>1. 0..Newest \subseteq 0..Newest'
      BY <1>1, <1>2
    <3> QED  BY <2>1, <3>1, SequenceGrows
  <2>3. ids \in [Group -> Seq(0..Newest')]
    BY <2>1, <2>2
  <2>4. ASSUME NEW g \in Group, NEW k \in 1..Len(ids[g]), NEW c \in InLog(g)', c.id <= ids[g][k]
        PROVE  c \in T
    <3>1. ids[g][k] \in 0..Newest
      BY <2>1, ElementIn
    <3>2. c \in InLog(g)
      BY <1>1, <1>9, <2>4, <3>1
    <3> QED  BY <1>11, <2>4, <3>2 DEF IdsCovered
  <2> QED  BY <2>3, <2>4 DEF IdsCovered
<1>12. QueueInv'
  <2>1. eventQueue \in Seq(committed')
    BY <1>2 DEF LogInv, RestInv, QueueInv
  <2>2. \A k \in 1..Len(eventQueue) : eventQueue[k] \in committed
    BY DEF LogInv, RestInv, QueueInv
  <2>3. InQueueOrder(eventQueue, Settled)'
    BY <1>2, <1>4, <1>5, <1>7, <2>2 DEF InQueueOrder, LogInv, RestInv, QueueInv
  <2>4. IdsCovered(lastIds, Covered)'
    <3>1. PICK S : S = Covered
      OBVIOUS
    <3>2. PICK T : T = Covered'
      OBVIOUS
    <3>3. PICK ids : ids = lastIds
      OBVIOUS
    <3>4. IdsCovered(ids, T)'
      BY <1>5, <1>11, <3>1, <3>2, <3>3 DEF LogInv, RestInv, QueueInv
    <3> QED  BY <1>4, <3>2, <3>3, <3>4 DEF IdsCovered
  <2> QED  BY <1>4, <2>1, <2>3, <2>4 DEF QueueInv
<1>13. StageInv'
  BY <1>4, StageFrame DEF LogInv, RestInv
<1>14. Messages' = IF conn = "open" /\ b.group \in members THEN Messages \union {b} ELSE Messages
  <2>1. Range(Append(channel, b)) = Range(channel) \union {b}
    <3>1. channel \in Seq(committed')
      BY <1>2 DEF LogInv, RestInv, MessagesInv
    <3> QED  BY <1>2, <3>1, ExtendsAppend
  <2> QED  BY <1>4, <2>1 DEF Messages
<1>15. MessagesInv'
  <2>1. CASE conn = "open" /\ b.group \in members
    <3>1. messageQueue \in Seq(committed') /\ channel \in Seq(committed')
      BY <1>2 DEF LogInv, RestInv, MessagesInv
    <3>2. /\ channel' \in Seq(committed') /\ Range(channel') = Range(channel) \union {b}
      BY <1>2, <1>4, <2>1, <3>1, ExtendsAppend
    <3>3. \A c \in Range(messageQueue) : c.id < b.id
      BY <1>1 DEF Range, LogInv, RestInv, MessagesInv
    <3>4. Ascending(channel')
      <4>1. \A k \in 1..Len(channel) : channel[k].id < b.id
        BY <1>1 DEF LogInv, RestInv, MessagesInv
      <4>2. Ascending(channel) /\ channel' = Append(channel, b) /\ b \in committed'
        BY <1>2, <1>4, <2>1 DEF LogInv, RestInv, MessagesInv
      <4>3. Ascending(Append(channel, b))
        BY <3>1, <4>1, <4>2, AscendingAppend
      <4> QED  BY <4>2, <4>3
    <3> QED  BY <1>4, <2>1, <3>1, <3>2, <3>3, <3>4 DEF MessagesInv, Ascending, LogInv, RestInv
  <2>2. CASE ~(conn = "open" /\ b.group \in members)
    BY <1>2, <1>4, <2>2 DEF MessagesInv, Ascending, LogInv, RestInv
  <2> QED  BY <2>1, <2>2
<1>16. ASSUME NEW g \in Group, NEW S, NEW T, Pipe(g, S), S \subseteq T, b \in skipped' => b \in T
       PROVE  Pipe(g, T)'
  <2>1. ASSUME NEW m \in Messages', NEW c \in InLog(g)', Older(c, m)
        PROVE  c \in T \union Messages'
    <3>0. m \in committed' /\ c \in committed'
      <4>1. Range(messageQueue) \subseteq committed /\ Range(channel) \subseteq committed
        BY RangeIn DEF LogInv, RestInv, MessagesInv
      <4> QED  BY <1>2, <1>14, <2>1, <4>1 DEF Messages, InLog
    <3>1. c \in InLog(g)
      BY <1>7, <2>1, <3>0 DEF InLog
    <3>2. CASE m \in Messages
      BY <1>14, <1>16, <2>1, <3>1, <3>2 DEF Pipe
    <3>3. CASE m \notin Messages
      BY <1>14, <1>16, <2>1, <3>1, <3>3 DEF Pipe
    <3> QED  BY <3>2, <3>3
  <2>2. ASSUME conn' = "open", NEW c \in InLog(g)' PROVE c \in T \union Messages'
    <3>1. CASE c = b
      <4>1. CASE b.group \in members
        BY <1>4, <1>14, <2>2, <3>1, <4>1
      <4>2. CASE b.group \notin members
        BY <1>4, <1>16, <3>1, <4>2
      <4> QED  BY <4>1, <4>2
    <3>2. CASE c # b
      BY <1>4, <1>9, <1>14, <1>16, <2>2, <3>2 DEF Pipe
    <3> QED  BY <3>1, <3>2
  <2> QED  BY <2>1, <2>2 DEF Pipe
<1>17. PipeInv'
  <2> SUFFICES ASSUME ~messagesPaused', NEW g \in Group PROVE Pipe(g, Covered)'
    BY DEF PipeInv
  <2>1. PICK S : S = Covered
    OBVIOUS
  <2>2. PICK T : T = Covered'
    OBVIOUS
  <2>3. Pipe(g, S) /\ S \subseteq T /\ (b \in skipped' => b \in T)
    BY <1>4, <1>5, <2>1, <2>2 DEF Settled, Covered, LogInv, RestInv, PipeInv
  <2>4. Pipe(g, T)'
    BY <1>16, <2>3
  <2> QED  BY <2>2, <2>4 DEF Pipe
<1>18. InitsInv'
  <2> SUFFICES ASSUME NEW c \in Connections PROVE InitOK(inits[c])'
    BY DEF InitsInv
  <2>1. PICK i : i = inits[c]
    OBVIOUS
  <2>2. InitOK(i)
    BY <2>1 DEF LogInv, RestInv, InitsInv
  <2>3. IdsCovered(i.ids, Settled)'
    <3>1. PICK S : S = Settled
      OBVIOUS
    <3>2. PICK T : T = Settled'
      OBVIOUS
    <3>3. PICK ids : ids = i.ids
      OBVIOUS
    <3>4. IdsCovered(ids, T)'
      BY <1>5, <1>11, <2>2, <3>1, <3>2, <3>3 DEF InitOK
    <3> QED  BY <3>2, <3>3, <3>4 DEF IdsCovered
  <2>4. ASSUME NEW g \in Group, Filled(i, g) PROVE Pipe(g, Covered \union i.loaded)'
    <3>1. PICK S : S = Covered \union i.loaded
      OBVIOUS
    <3>2. PICK T : T = Covered' \union i.loaded
      OBVIOUS
    <3>3. Pipe(g, S) /\ S \subseteq T /\ (b \in skipped' => b \in T)
      BY <1>4, <1>5, <2>2, <2>4, <3>1, <3>2 DEF InitOK, Settled, Covered
    <3>4. Pipe(g, T)'
      BY <1>16, <3>3
    <3> QED  BY <3>2, <3>4 DEF Pipe
  <2>5. ASSUME NEW x \in i.loaded, NEW d \in committed', Older(d, x) PROVE d \in Covered' \union i.loaded
    <3>1. d \in committed
      BY <1>2, <1>7, <2>2, <2>5 DEF InitOK
    <3> QED  BY <1>5, <2>2, <2>5, <3>1 DEF InitOK
  <2>6. InitOK(i)'
    BY <1>2, <2>2, <2>3, <2>4, <2>5 DEF InitOK, Filled
  <2> QED  BY <1>4, <2>1, <2>6 DEF InitOK, IdsCovered, Filled
<1>19. ConnInv'
  BY <1>4, ConnFrame DEF LogInv, RestInv
<1> QED  BY <1>3, <1>8, <1>10, <1>12, <1>13, <1>15, <1>17, <1>18, <1>19 DEF RestInv, ServerInv

LEMMA JoinKeeps ==
    ASSUME LogInv, NEW g \in Joinable, Join(g)
    PROVE  RestInv'
<1>1. UNCHANGED <<committed, skipped, givenUp, messageQueue, messagesPaused, channel, conn, cacheLast, eventQueue,
                  lastIds, inits, retry, stage, everHandled>> /\ members \subseteq members'
  BY DEF Join, connVars, idVars, queueVars, cacheVars, boundVars, errorVars
<1>2. Grows /\ PipesKeep
  BY <1>1, CoveredGrows, PipesFrame DEF Settled
<1>3. ServerInv'
  BY <1>1 DEF LogInv, RestInv, ServerInv, Numbered, SeenInv, Settled, Newest
<1> QED  BY <1>1, <1>2, <1>3, CacheFrame, QueueFrame, StageFrame, MessagesFrame, PipeFrame,
            InitsFrame, ConnFrame DEF LogInv, RestInv, MessagesInv

(* The steps of the connection.                                            *)
LEMMA ConnectKeeps ==
    ASSUME LogInv, ~Overlap, Connect
    PROVE  RestInv'
<1>1. /\ UNCHANGED <<committed, members, skipped, givenUp, messageQueue, messagesPaused, channel, cacheLast,
                  eventQueue, lastIds, inits, stage, everHandled>>
      /\ conn # "open" /\ conn' # "open"
  BY DEF Connect, serverVars, idVars, queueVars, cacheVars, boundVars, errorVars
<1>2. Grows /\ PipesKeep
  BY <1>1, CoveredGrows, PipesFrame DEF Settled
<1>3. ConnInv'
  <2>1. \A c \in Connections : inits[c].phase \in {"none", "wait"} /\ retry' # c
    BY ClientAssumption DEF Connect, Connections
  <2> QED  BY <1>1, <2>1 DEF ConnInv, Loading
<1> QED  BY <1>1, <1>2, <1>3, ServerFrame, CacheFrame, QueueFrame, StageFrame, MessagesFrame, PipeFrame,
            InitsFrame DEF LogInv, RestInv, MessagesInv

(* The batches of a group that the user is no member of need not be seen.  *)
LEMMA PipeOfOthers ==
    ASSUME SeenInv, NEW g, NEW S, Settled \subseteq S, g \notin members
    PROVE  Pipe(g, S)
  BY DEF SeenInv, Settled, Pipe, InLog

LEMMA StartedOK ==
    ASSUME NEW i, i.phase \in {"none", "load", "retrieve", "wait"}, i.loaded = {}, i.ids = [g \in Group |-> << >>],
           \A g \in Group : Filled(i, g) => Pipe(g, Covered), Newest \in Nat
    PROVE  InitOK(i)
<1>1. i.ids \in [Group -> Seq(0..Newest)]
  OBVIOUS
<1>2. \A g \in Group : Len(i.ids[g]) = 0
  OBVIOUS
<1>3. IdsCovered(i.ids, Settled)
  BY <1>1, <1>2 DEF IdsCovered
<1> QED  BY <1>3 DEF InitOK

LEMMA NoInitOK ==
    ASSUME Newest \in Nat
    PROVE  InitOK(NoInit)
<1>1. /\ NoInit.phase = "none" /\ NoInit.loaded = {} /\ NoInit.ids = [g \in Group |-> << >>]
      /\ \A g : ~Filled(NoInit, g)
  BY DEF NoInit, Filled
<1> HIDE DEF NoInit
<1> QED  BY <1>1, StartedOK

LEMMA NewestNat ==
    ASSUME LogInv
    PROVE  Newest \in Nat
  BY NumberedNat DEF LogInv, RestInv, ServerInv

(* initEntityEvents starts. *)
LEMMA StartKeeps ==
    ASSUME LogInv, NEW c \in Connections, StartInit(c), Grows, PipesKeep,
           UNCHANGED <<members, skipped, givenUp, everHandled>>
    PROVE  InitsInv' /\ messagesPaused' = TRUE
<1> DEFINE existing == mode = "reconnect" /\ (known # {} \/ stray)
           phase == IF existing THEN "load" ELSE "retrieve"
           i == [NoInit EXCEPT !.phase = phase,
                               !.existing = existing,
                               !.todo = members]
<1>1. inits' = [inits EXCEPT ![c] = i] /\ messagesPaused' = TRUE
  BY DEF StartInit
<1>2. /\ i.phase \in {"load", "retrieve"} /\ i.loaded = {} /\ i.ids = [g \in Group |-> << >>] /\ i.todo = members
  BY DEF NoInit
<1>3. PICK j : j = i
  OBVIOUS
<1>4. InitOK(j)
  <2> HIDE DEF i
  <2>1. ASSUME NEW g \in Group, Filled(j, g) PROVE Pipe(g, Covered)
    <3>1. g \notin members
      BY <1>2, <1>3, <2>1 DEF Filled
    <3> QED  BY <3>1, PipeOfOthers DEF LogInv, RestInv, ServerInv, Covered
  <2> QED  BY <1>2, <1>3, <2>1, NewestNat, StartedOK
<1> HIDE DEF i
<1>5. InitOK(j)'
  BY <1>4, InitFrame
<1> QED  BY <1>1, <1>3, <1>5, InitsStep DEF LogInv, RestInv

LEMMA OpenKeeps ==
    ASSUME LogInv, Open
    PROVE  RestInv'
<1>1. /\ UNCHANGED <<committed, members, skipped, givenUp, messageQueue, channel, cacheLast,
                     eventQueue, lastIds, stage, everHandled>>
      /\ conn = "connecting" /\ conn' = "open" /\ StartInit(connections)
  BY DEF Open, serverVars, idVars, cacheVars, boundVars, errorVars
<1>2. connections \in Connections
  BY <1>1 DEF LogInv, LoadInv
<1>3. Grows
  BY <1>1, CoveredGrows DEF Settled
<1> DEFINE existing == mode = "reconnect" /\ (known # {} \/ stray)
           phase == IF existing THEN "load" ELSE "retrieve"
           i == [NoInit EXCEPT !.phase = phase,
                               !.existing = existing,
                               !.todo = members]
<1>4. inits' = [inits EXCEPT ![connections] = i] /\ messagesPaused' = TRUE
  BY <1>1 DEF StartInit
<1>5. /\ i.phase \in {"load", "retrieve"} /\ i.loaded = {} /\ i.ids = [g \in Group |-> << >>] /\ i.todo = members
  BY DEF NoInit
<1> HIDE DEF i
<1>6. inits'[connections] = i /\ \A d \in Connections : d # connections => inits'[d] = inits[d]
  BY <1>2, <1>4 DEF LogInv, LoadInv, InitsAreRecords
<1>7. UNCHANGED Newest /\ Newest \in Nat
  BY <1>1, NewestNat DEF Newest
<1>8. InitsInv'
  <2> SUFFICES ASSUME NEW d \in Connections PROVE InitOK(inits[d])'
    BY DEF InitsInv
  <2>1. PICK j : j = inits'[d]
    OBVIOUS
  <2>2. ASSUME NEW g \in Group, Filled(j, g) PROVE g \notin members
    <3>1. CASE d = connections
      BY <1>5, <1>6, <2>1, <2>2, <3>1 DEF Filled
    <3>2. CASE d # connections
      <4>1. j.phase \notin {"retrieve", "load", "add", "resume"}
        BY <1>1, <1>6, <2>1, <3>2 DEF LogInv, RestInv, ConnInv, Loading
      <4> QED  BY <2>2, <4>1 DEF Filled
    <3> QED  BY <3>1, <3>2
  <2>3. InitOK(j)
    <3>1. ASSUME NEW g \in Group, Filled(j, g) PROVE Pipe(g, Covered)
      BY <2>2, <3>1, PipeOfOthers DEF LogInv, RestInv, ServerInv, Covered
    <3>2. CASE d = connections
      BY <1>5, <1>6, <1>7, <2>1, <3>1, <3>2, StartedOK
    <3>3. CASE d # connections
      BY <1>6, <2>1, <3>3 DEF LogInv, RestInv, InitsInv
    <3> QED  BY <3>2, <3>3
  <2>4. ASSUME NEW g \in Group, Filled(j, g) PROVE Pipe(g, Covered \union j.loaded)'
    <3>1. InLog(g)' \subseteq Covered'
      BY <1>1, <2>2, <2>4 DEF LogInv, RestInv, ServerInv, SeenInv, Settled, Covered, InLog
    <3> QED  BY <3>1 DEF Pipe
  <2>5. InitOK(j)'
    BY <1>1, <1>3, <1>7, <2>3, <2>4 DEF InitOK, IdsCovered, InLog, Filled, Grows
  <2> QED  BY <2>1, <2>5 DEF InitOK, IdsCovered, Filled
<1>9. MessagesInv'
  BY <1>1, <1>4, MessagesFrame DEF MessagesInv, Ascending, LogInv, RestInv
<1>10. PipeInv' /\ ConnInv'
  BY <1>1, <1>4 DEF PipeInv, ConnInv
<1> QED  BY <1>1, <1>3, <1>8, <1>9, <1>10, ServerFrame, CacheFrame, QueueFrame, StageFrame DEF LogInv, RestInv

(* onClose: what was under way is lost. *)
LEMMA LosePipes ==
    ASSUME LogInv, Lose, UNCHANGED <<committed, messageQueue>>
    PROVE  PipesKeep
<1> SUFFICES ASSUME NEW g \in Group, NEW S, Pipe(g, S)
             PROVE  Pipe(g, S)'
  BY DEF PipesKeep
<1>1. conn' # "open" /\ Messages' = Range(messageQueue)
  BY DEF Lose, Messages, Range
<1>2. ASSUME NEW m \in Range(messageQueue), NEW b \in InLog(g), Older(b, m)
      PROVE  b \in S \union Range(messageQueue)
  <2>1. b \in S \union Range(messageQueue) \union Range(channel)
    BY <1>2 DEF Pipe, Messages
  <2>2. CASE b \in Range(channel)
    <3>1. m.id < b.id /\ b.id < m.id
      BY <1>2, <2>2 DEF LogInv, RestInv, MessagesInv, Older
    <3>2. b.id \in Nat /\ m.id \in Nat
      <4>1. m \in committed /\ b \in committed
        BY <1>2, RangeIn DEF LogInv, RestInv, MessagesInv, InLog
      <4> QED  BY <4>1, NumberedNat DEF LogInv, RestInv, ServerInv
    <3> QED  BY <3>1, <3>2
  <2> QED  BY <2>1, <2>2
<1> QED  BY <1>1, <1>2 DEF Pipe, InLog

LEMMA LoseMessages ==
    ASSUME LogInv, Lose, UNCHANGED <<committed, messageQueue, messagesPaused>>
    PROVE  MessagesInv'
<1>1. channel' = << >> /\ channel' \in Seq(committed') /\ Len(channel') = 0 /\ Range(channel') = {}
  BY DEF Lose, Range
<1>2. Ascending(channel')
  BY <1>1 DEF Ascending
<1> QED  BY <1>1, <1>2 DEF MessagesInv, LogInv, RestInv, Ascending

LEMMA ConnectionLostKeeps ==
    ASSUME LogInv, ConnectionLost
    PROVE  RestInv'
<1>1. /\ UNCHANGED <<committed, members, skipped, givenUp, messageQueue, messagesPaused, cacheLast,
                     eventQueue, lastIds, stage, everHandled, inits, retry>>
      /\ conn' = "down" /\ Lose
  BY DEF ConnectionLost, Lose, serverVars, idVars, cacheVars, queueVars, boundVars, errorVars
<1>2. Grows /\ PipesKeep /\ MessagesInv'
  BY <1>1, CoveredGrows, LosePipes, LoseMessages DEF Settled
<1> QED  BY <1>1, <1>2, ServerFrame, CacheFrame, QueueFrame, StageFrame, PipeFrame, InitsFrame, ConnFrame
         DEF LogInv, RestInv

(* Batches go into the queue.                                              *)
LEMMA EnqueueKeeps ==
    ASSUME LogInv, NEW q \in Seq(committed), NEW resume \in BOOLEAN, Enqueue(q, resume),
           UNCHANGED <<committed, everHandled>>, Settled \subseteq Settled',
           \A k \in 1..Len(q), c \in committed : Older(c, q[k]) =>
               c \in Settled' \union Range(eventQueue) \/ \E j \in 1..(k - 1) : q[j] = c
    PROVE  /\ QueueInv' /\ StageInv' /\ Grows
           /\ Range(q) \subseteq Covered'
<1>1. PICK new : /\ new = AddAll(q)
                 /\ lastIds' = new.ids
                 /\ eventQueue' = new.queue
  BY DEF Enqueue
<1> DEFINE Base == Settled'
<1>2. Numbered /\ StateOK(Start, Base)
  <2>1. InQueueOrder(eventQueue, Base) /\ IdsCovered(lastIds, Base \union Range(eventQueue))
    BY DEF LogInv, RestInv, QueueInv, InQueueOrder, IdsCovered, Covered
  <2> QED  BY <2>1 DEF LogInv, RestInv, ServerInv, QueueInv, StateOK, Start
<1> HIDE DEF Base
<1>3. /\ StateOK(new, Base)
      /\ Extends(eventQueue, new.queue)
      /\ \A k \in 1..Len(q) : q[k] \in Base \union Range(new.queue)
  BY <1>1, <1>2, AddAllKeeps DEF Base
<1>4. new.queue \in Seq(committed) /\ eventQueue \in Seq(committed)
  BY <1>3 DEF StateOK, LogInv, RestInv, QueueInv
<1>5. Settled' = Base /\ Covered' = Base \union Range(new.queue)
  BY <1>1 DEF Base, Covered
<1>6. Range(eventQueue) \subseteq Range(new.queue)
  BY <1>3, <1>4, ExtendsRange
<1>7. Grows
  BY <1>5, <1>6 DEF Grows, Covered
<1>8. QueueInv'
  <2>1. InQueueOrder(new.queue, Base) /\ IdsCovered(new.ids, Base \union Range(new.queue))
    BY <1>3 DEF StateOK
  <2>2. InQueueOrder(eventQueue, Settled)'
    BY <1>1, <1>5, <2>1 DEF InQueueOrder
  <2>3. IdsCovered(lastIds, Covered)'
    BY <1>1, <1>5, <2>1 DEF IdsCovered, Newest, InLog
  <2> QED  BY <1>1, <1>4, <2>2, <2>3 DEF QueueInv
<1>9. StageInv'
  <2>1. stage' = stage \/ (stage = "idle" /\ stage' = "cache" /\ new.queue # << >>)
    BY <1>1 DEF Enqueue
  <2>2. ASSUME stage # "idle" PROVE new.queue # << >> /\ Head(new.queue) = Head(eventQueue)
    <3>1. eventQueue # << >>
      BY <2>2 DEF LogInv, RestInv, StageInv
    <3>2. Len(eventQueue) >= 1 /\ Len(new.queue) >= Len(eventQueue)
      BY <1>3, <1>4, <3>1 DEF Extends
    <3>3. new.queue[1] = eventQueue[1]
      BY <1>3, <1>4, <3>2 DEF Extends
    <3>4. Head(new.queue) = new.queue[1] /\ Head(eventQueue) = eventQueue[1] /\ new.queue # << >>
      BY <1>4, <3>2
    <3> QED  BY <3>3, <3>4
  <2> QED  BY <1>1, <2>1, <2>2 DEF StageInv, LogInv, RestInv, Stages
<1>10. Range(q) \subseteq Covered'
  BY <1>3, <1>5 DEF Range
<1> QED  BY <1>7, <1>8, <1>9, <1>10

(* A message of the websocket.                                             *)
LEMMA ReceiveKeeps ==
    ASSUME LogInv, Receive
    PROVE  RestInv'
<1>1. /\ UNCHANGED <<committed, members, skipped, givenUp, messagesPaused, cacheLast, everHandled, inits, retry, conn>>
      /\ channel # << >> /\ channel' = Tail(channel)
  BY DEF Receive, serverVars, cacheVars, boundVars, errorVars
<1>2. MessagesInv
  BY DEF LogInv, RestInv
<1>3. PICK m : m = Head(channel)
  OBVIOUS
<1>4. /\ m \in committed /\ channel' \in Seq(committed) /\ Range(channel) = Range(channel') \union {m}
      /\ Ascending(channel') /\ \A b \in Range(channel') : m.id < b.id
  BY <1>1, <1>2, <1>3, TailElements, AscendingTail DEF MessagesInv
<1>5. CASE messagesPaused
  <2>1. messageQueue' = Append(messageQueue, m) /\ UNCHANGED <<lastIds, eventQueue, stage>>
    BY <1>3, <1>5 DEF Receive
  <2>2. messageQueue' \in Seq(committed) /\ Range(messageQueue') = Range(messageQueue) \union {m}
    BY <1>2, <1>4, <2>1, ExtendsAppend DEF MessagesInv
  <2>3. Messages' = Messages
    BY <1>4, <2>2 DEF Messages
  <2>4. PipesKeep /\ Grows
    BY <1>1, <2>1, <2>3, CoveredGrows DEF PipesKeep, Pipe, InLog, Settled
  <2>5. Ascending(messageQueue')
    <3>1. ASSUME NEW k \in 1..Len(messageQueue) PROVE messageQueue[k].id < m.id
      <4>1. messageQueue[k] \in Range(messageQueue) /\ m \in Range(channel)
        BY <1>2, <1>4, ElementIn DEF MessagesInv
      <4> QED  BY <1>2, <4>1 DEF MessagesInv
    <3>2. messageQueue \in Seq(committed) /\ Ascending(messageQueue)
      BY <1>2 DEF MessagesInv
    <3> QED  BY <1>4, <2>1, <3>1, <3>2, AscendingAppend
  <2>6. MessagesInv'
    <3>1. \A b \in Range(messageQueue'), c \in Range(channel') : b.id < c.id
      BY <1>2, <1>4, <2>2 DEF MessagesInv
    <3>2. conn' # "open" => channel' = << >>
      BY <1>1, <1>2 DEF MessagesInv
    <3> QED  BY <1>1, <1>2, <1>4, <1>5, <2>2, <2>5, <3>1, <3>2 DEF MessagesInv, Ascending
  <2> QED  BY <1>1, <2>1, <2>4, <2>6, ServerFrame, CacheFrame, QueueFrame, StageFrame, PipeFrame, InitsFrame,
              ConnFrame DEF LogInv, RestInv
<1>6. CASE ~messagesPaused
  <2>1. Enqueue(<<m>>, TRUE) /\ UNCHANGED messageQueue
    BY <1>3, <1>6 DEF Receive
  <2>2. PICK q \in Seq(committed) : q = <<m>>
    <3>1. m \in committed
      BY <1>4
    <3>2. <<m>> \in Seq(committed)
      BY <3>1
    <3> QED  BY <3>2, Zenon
  <2>3. Len(q) = 1 /\ q[1] = m /\ Range(q) = {m}
    BY <2>2 DEF Range
  <2>4. messageQueue = << >> /\ Range(messageQueue) = {}
    BY <1>2, <1>6 DEF MessagesInv, Range
  <2>5. Messages = Messages' \union {m}
    BY <1>4, <2>1 DEF Messages
  <2>6. ASSUME NEW c \in committed, Older(c, m) PROVE c \in Covered
    <3>1. m \in Messages /\ m.group \in Group /\ c \in InLog(m.group)
      BY <1>4, <2>5, <2>6, NumberedNat DEF InLog, Older, LogInv, RestInv, ServerInv
    <3>2. c \in Covered \union Messages
      BY <1>6, <2>6, <3>1 DEF LogInv, RestInv, PipeInv, Pipe
    <3>3. c.id < m.id /\ c.id \in Nat /\ m.id \in Nat
      BY <1>4, <2>6, NumberedNat DEF Older, LogInv, RestInv, ServerInv
    <3>4. c \notin Messages
      BY <1>4, <2>4, <3>3 DEF Messages
    <3> QED  BY <3>2, <3>4
  <2>7. /\ QueueInv' /\ StageInv' /\ Grows
        /\ Range(q) \subseteq Covered'
    <3>1. \A k \in 1..Len(q), c \in committed : Older(c, q[k]) =>
              c \in Settled' \union Range(eventQueue) \/ \E j \in 1..(k - 1) : q[j] = c
      BY <1>1, <2>3, <2>6 DEF Covered, Settled
    <3>2. PICK resume \in BOOLEAN : resume = TRUE
      OBVIOUS
    <3>3. Enqueue(q, resume) /\ UNCHANGED <<committed, everHandled>> /\ Settled \subseteq Settled'
      BY <1>1, <2>1, <2>2, <3>2 DEF Settled
    <3> QED  BY <3>1, <3>3, EnqueueKeeps
  <2>8. MessagesInv'
    BY <1>1, <1>2, <1>4, <2>1, <2>4 DEF MessagesInv, Ascending
  <2>9. PipeInv'
    <3> SUFFICES ASSUME NEW g \in Group PROVE Pipe(g, Covered)'
      BY DEF PipeInv
    <3>1. Pipe(g, Covered)
      BY <1>6 DEF LogInv, RestInv, PipeInv
    <3>2. Covered \union Messages \subseteq Covered' \union Messages' /\ Messages' \subseteq Messages
      BY <2>3, <2>5, <2>7 DEF Grows
    <3> QED  BY <1>1, <3>1, <3>2 DEF Pipe, InLog
  <2>10. InitsInv'
    <3> SUFFICES ASSUME NEW d \in Connections PROVE InitOK(inits[d])'
      BY DEF InitsInv
    <3>1. PICK i : i = inits[d]
      OBVIOUS
    <3>2. InitOK(i) /\ \A g : ~Filled(i, g)
      BY <1>6, <3>1 DEF LogInv, RestInv, InitsInv, LoadInv, OnlyLastLoads, Loading, Filled
    <3>3. InitOK(i)'
      BY <2>7, <3>2 DEF InitOK, IdsCovered, Grows, Newest, InLog, Filled
    <3> QED  BY <1>1, <3>1, <3>3 DEF InitOK, IdsCovered, Filled
  <2> QED  BY <1>1, <2>7, <2>8, <2>9, <2>10, ServerFrame, CacheFrame, ConnFrame DEF LogInv, RestInv
<1> QED  BY <1>5, <1>6

(* The steps of an initialization.                                         *)
LEMMA IdOfCommitted ==
    ASSUME LogInv, NEW b \in committed
    PROVE  b.id \in 1..Newest /\ b.group \in Group /\ Newest \in Nat
  BY NumberedNat DEF LogInv, RestInv, ServerInv

LEMMA NewestInIsNewest ==
    ASSUME LogInv, NEW g
    PROVE  NewestIn(g) \in 0..Newest /\ \A b \in InLog(g) : b.id <= NewestIn(g)
<1> DEFINE S == {b.id : b \in InLog(g)} \union {MinId}
           Bounds == {n \in Nat : \A i \in S : i <= n}
<1>1. S \subseteq 0..Newest
  BY IdOfCommitted, NewestNat DEF InLog, MinId
<1>2. Newest \in Bounds
  <2> HIDE DEF S
  <2> QED  BY <1>1, NewestNat
<1>3. PICK n \in Bounds : \A k \in Bounds : n <= k
  <2>1. Bounds \in SUBSET Nat /\ Bounds # {}
    BY <1>2
  <2> HIDE DEF Bounds
  <2> QED  BY <2>1, LeastNumber
<1>4. n \in S
  <2> SUFFICES ASSUME n \notin S PROVE FALSE
    OBVIOUS
  <2>1. n # 0
    BY DEF MinId
  <2> HIDE DEF S
  <2>2. \A i \in S : i <= n - 1
    BY <1>1, <2>1, NewestNat
  <2>3. n - 1 \in Bounds
    BY <2>1, <2>2
  <2> QED  BY <1>3, <2>3
<1>5. \A b \in InLog(g) : b.id <= n
  OBVIOUS
<1>6. NewestIn(g) \in S /\ \A b \in InLog(g) : b.id <= NewestIn(g)
  BY <1>4, <1>5, Zenon DEF NewestIn
<1> HIDE DEF S
<1> QED  BY <1>1, <1>6

LEMMA InitOfRecord ==
    ASSUME LoadInv, NEW c \in Connections
    PROVE  inits = [d \in Connections |-> inits[d]] /\ inits[c] = [f \in InitFields |-> inits[c][f]]
  BY DEF LoadInv, InitsAreRecords, IsInit

LEMMA OneId ==
    ASSUME LogInv, NEW ids, IdsCovered(ids, Settled), NEW g \in Group, NEW id \in 0..Newest,
           NEW S, Settled \subseteq S, \A b \in InLog(g) : b.id <= id => b \in S
    PROVE  IdsCovered([ids EXCEPT ![g] = <<id>>], S)
<1>1. PICK one : one = <<id>>
  OBVIOUS
<1>2. one \in Seq(0..Newest) /\ Len(one) = 1 /\ one[1] = id
  BY <1>1
<1>3. PICK new : new = [ids EXCEPT ![g] = one]
  OBVIOUS
<1>4. ids \in [Group -> Seq(0..Newest)]
  BY DEF IdsCovered
<1>5. new \in [Group -> Seq(0..Newest)] /\ \A h \in Group : new[h] = IF h = g THEN one ELSE ids[h]
  BY <1>2, <1>3, <1>4
<1>6. ASSUME NEW h \in Group, NEW k \in 1..Len(new[h]), NEW b \in InLog(h), b.id <= new[h][k]
      PROVE  b \in S
  <2>1. CASE h = g
    <3>1. new[h] = one
      BY <1>5, <2>1
    <3>2. k \in 1..Len(one)
      BY <3>1
    <3>3. k = 1
      BY <1>2, <3>2
    <3> QED  BY <1>2, <1>6, <2>1, <3>1, <3>3
  <2>2. CASE h # g
    BY <1>5, <1>6, <2>2 DEF IdsCovered
  <2> QED  BY <2>1, <2>2
<1>7. IdsCovered(new, S)
  BY <1>5, <1>6 DEF IdsCovered
<1> QED  BY <1>1, <1>3, <1>7

LEMMA RetrieveKeeps ==
    ASSUME LogInv, NEW c \in Connections, NEW g \in Group, Retrieve(c, g)
    PROVE  RestInv'
<1> DEFINE cached == cacheLast[g] # None
           id == IF cached THEN cacheLast[g] ELSE NewestIn(g)
           i == [inits[c] EXCEPT !.todo = @ \ {g}, !.ids[g] = <<id>>, !.cached = @ \/ cached]
<1>1. /\ UNCHANGED <<committed, members, everHandled, givenUp, conn, channel, lastIds, messageQueue,
                     messagesPaused, eventQueue, stage, retry>>
      /\ cacheLast' = [cacheLast EXCEPT ![g] = id]
      /\ skipped' = IF cached THEN skipped ELSE skipped \union InLog(g)
      /\ inits[c].phase = "retrieve" /\ g \in inits[c].todo
  BY DEF Retrieve, connVars, idVars, queueVars, cacheVars, boundVars, errorVars
<1>2. inits' = [inits EXCEPT ![c] = i]
  <2>1. inits' = [inits EXCEPT ![c].todo = @ \ {g}, ![c].ids[g] = <<id>>, ![c].cached = @ \/ cached]
    BY DEF Retrieve
  <2> HIDE DEF id, cached
  <2> QED  BY <2>1, InitOfRecord DEF InitFields, LogInv
<1>3. PICK j : j = inits[c]
  OBVIOUS
<1>4. InitOK(j) /\ j.phase = "retrieve" /\ j.loaded = {} /\ IsInit(j)
  BY <1>1, <1>3 DEF LogInv, RestInv, InitsInv, InitOK, LoadInv, InitsAreRecords
<1>5. PICK n : n = i
  OBVIOUS
<1>6. /\ n.phase = "retrieve" /\ n.loaded = {} /\ n.todo = j.todo \ {g}
      /\ n.ids = [j.ids EXCEPT ![g] = <<id>>] /\ n.cached = (j.cached \/ cached)
  <2> HIDE DEF id, cached
  <2> QED  BY <1>3, <1>4, <1>5 DEF IsInit, InitFields
<1>7. id \in 0..Newest /\ \A b \in InLog(g) : b.id <= id => b \in Settled'
  <2>1. CASE cached
    BY <1>1, <2>1 DEF LogInv, RestInv, CacheInv, Settled
  <2>2. CASE ~cached
    BY <1>1, <2>2, NewestInIsNewest DEF Settled
  <2> QED  BY <2>1, <2>2
<1> HIDE DEF i, id
<1>8. Grows /\ PipesKeep
  <2>1. Settled \subseteq Settled'
    BY <1>1 DEF Settled
  <2> QED  BY <1>1, <2>1, CoveredGrows, PipesFrame
<1>9. ServerInv'
  BY <1>1 DEF LogInv, RestInv, ServerInv, Numbered, SeenInv, Settled, Newest, InLog, Older
<1>10. CacheInv'
  <2>1. UNCHANGED Newest /\ \A h : InLog(h)' = InLog(h)
    BY <1>1 DEF Newest, InLog
  <2>2. ASSUME NEW h \in Group, cacheLast'[h] # None
        PROVE  cacheLast'[h] \in 0..Newest /\ \A b \in InLog(h) : b.id <= cacheLast'[h] => b \in Settled'
    <3>1. CASE h = g /\ cacheLast'[h] = id
      BY <1>7, <3>1
    <3>2. CASE cacheLast'[h] = cacheLast[h]
      BY <1>8, <2>2, <3>2 DEF LogInv, RestInv, CacheInv, Grows
    <3> QED  BY <1>1, <3>1, <3>2
  <2> QED  BY <2>1, <2>2 DEF CacheInv
<1>11. InitOK(n)'
  <2>1. IdsCovered(n.ids, Settled)'
    <3>1. PICK S : S = Settled'
      OBVIOUS
    <3>2. PICK ids : ids = j.ids
      OBVIOUS
    <3>3. IdsCovered(ids, Settled) /\ Settled \subseteq S
      BY <1>4, <1>8, <3>1, <3>2 DEF InitOK, Grows
    <3>4. PICK x \in 0..Newest : x = id
      BY <1>7
    <3>5. \A b \in InLog(g) : b.id <= x => b \in S
      BY <1>7, <3>1, <3>4
    <3>6. IdsCovered([ids EXCEPT ![g] = <<x>>], S)
      BY <3>3, <3>5, OneId
    <3>7. IdsCovered(n.ids, S)
      BY <1>6, <3>2, <3>4, <3>6
    <3> QED  BY <1>1, <3>1, <3>7 DEF IdsCovered, Newest, InLog
  <2>2. ASSUME NEW h \in Group, Filled(n, h) PROVE Pipe(h, Covered)'
    <3>1. ~n.cached /\ h \notin n.todo /\ ~j.cached /\ ~cached
      BY <1>6, <2>2 DEF Filled
    <3>2. CASE h = g
      <4>1. InLog(g)' \subseteq Covered'
        BY <1>1, <3>1 DEF Covered, Settled, InLog
      <4> QED  BY <3>2, <4>1 DEF Pipe
    <3>3. CASE h # g
      <4>1. PICK S : S = Covered
        OBVIOUS
      <4>2. Filled(j, h)
        BY <1>4, <1>6, <3>1, <3>3 DEF Filled
      <4>3. Pipe(h, S)
        BY <1>4, <4>1, <4>2 DEF InitOK
      <4>4. Pipe(h, S)'
        BY <1>8, <4>3 DEF PipesKeep
      <4> QED  BY <1>8, <4>1, <4>4 DEF Pipe, Grows
    <3> QED  BY <3>2, <3>3
  <2> QED  BY <1>6, <2>1, <2>2 DEF InitOK, Filled
<1>12. InitsInv' /\ inits'[c].phase = "retrieve"
  BY <1>2, <1>5, <1>6, <1>8, <1>11, InitsStep DEF LogInv, RestInv
<1>13. ConnInv'
  BY <1>1 DEF LogInv, RestInv, ConnInv, Loading
<1> QED  BY <1>1, <1>8, <1>9, <1>10, <1>12, <1>13, QueueFrame, StageFrame, MessagesFrame, PipeFrame
         DEF LogInv, RestInv, MessagesInv

LEMMA SetLastIdsKeeps ==
    ASSUME LogInv, NEW c \in Connections, SetLastIds(c)
    PROVE  RestInv'
<1> DEFINE i == [inits[c] EXCEPT !.phase = IF inits[c].cached THEN "load" ELSE "resume",
                                 !.todo = members, !.ids = NoInit.ids]
<1>1. /\ UNCHANGED <<committed, members, skipped, givenUp, everHandled, conn, channel, cacheLast, messageQueue,
                     messagesPaused, eventQueue, stage, retry>>
      /\ lastIds' = inits[c].ids
      /\ inits[c].phase = "retrieve" /\ inits[c].todo = {}
  BY DEF SetLastIds, serverVars, connVars, queueVars, cacheVars, boundVars, errorVars
<1>2. inits' = [inits EXCEPT ![c] = i]
  BY InitOfRecord DEF SetLastIds, InitFields, LogInv
<1>3. PICK j : j = inits[c]
  OBVIOUS
<1>4. InitOK(j) /\ j.phase = "retrieve" /\ j.loaded = {} /\ j.todo = {} /\ IsInit(j)
  BY <1>1, <1>3 DEF LogInv, RestInv, InitsInv, InitOK, LoadInv, InitsAreRecords
<1>5. PICK n : n = i
  OBVIOUS
<1>6. /\ n.phase = IF j.cached THEN "load" ELSE "resume"
      /\ n.todo = members /\ n.loaded = {} /\ n.ids = [h \in Group |-> << >>]
  BY <1>3, <1>4, <1>5 DEF IsInit, InitFields, NoInit
<1> HIDE DEF i
<1>7. Grows /\ PipesKeep
  BY <1>1, CoveredGrows, PipesFrame DEF Settled
<1>8. ASSUME NEW h \in Group, Filled(n, h) PROVE Pipe(h, Covered)
  <2>1. CASE j.cached
    <3>1. h \notin members
      BY <1>6, <1>8, <2>1 DEF Filled
    <3> QED  BY <3>1, PipeOfOthers DEF LogInv, RestInv, ServerInv, Covered
  <2>2. CASE ~j.cached
    BY <1>4, <2>2 DEF InitOK, Filled
  <2> QED  BY <2>1, <2>2
<1>9. InitOK(n)
  <2>1. n.ids \in [Group -> Seq(0..Newest)] /\ \A h \in Group : Len(n.ids[h]) = 0
    BY <1>6
  <2>2. IdsCovered(n.ids, Settled)
    BY <2>1 DEF IdsCovered
  <2> QED  BY <1>6, <1>8, <2>2 DEF InitOK
<1>10. InitsInv' /\ inits'[c] = n /\ \A d \in Connections : d # c => inits'[d] = inits[d]
  BY <1>2, <1>5, <1>7, <1>9, InitFrame, InitsStep DEF LogInv, RestInv
<1>11. QueueInv'
  <2>1. InQueueOrder(eventQueue, Settled)'
    BY <1>1, <1>7 DEF LogInv, RestInv, QueueInv, Grows, InQueueOrder
  <2>2. IdsCovered(lastIds, Covered)'
    BY <1>1, <1>3, <1>4 DEF InitOK, IdsCovered, Covered, Settled, Newest, InLog
  <2> QED  BY <1>1, <2>1, <2>2 DEF LogInv, RestInv, QueueInv
<1>12. ConnInv'
  BY <1>1 DEF LogInv, RestInv, ConnInv, Loading
<1> QED  BY <1>1, <1>7, <1>10, <1>11, <1>12, ServerFrame, CacheFrame, StageFrame, MessagesFrame, PipeFrame
         DEF LogInv, RestInv, MessagesInv

(* The batches that are loaded after the last id are those that are not    *)
(* covered.                                                                *)
LEMMA MissedAreLoaded ==
    ASSUME LogInv, NEW g \in Group, NEW b \in InLog(g), ~(b.id > LastOf(lastIds[g]))
    PROVE  b \in Covered
<1>1. PICK s : s = lastIds[g]
  OBVIOUS
<1>2. s \in Seq(0..Newest) /\ \A k \in 1..Len(s) : b.id <= s[k] => b \in Covered
  BY <1>1 DEF LogInv, RestInv, QueueInv, IdsCovered
<1>3. b.id \in 1..Newest /\ Newest \in Nat
  BY IdOfCommitted DEF InLog
<1>4. s # << >>
  BY <1>1, <1>3 DEF LastOf, MinId
<1>5. Len(s) \in 1..Len(s) /\ LastOf(s) = s[Len(s)]
  BY <1>2, <1>4 DEF LastOf
<1>6. s[Len(s)] \in 0..Newest
  BY <1>2, <1>5, ElementIn
<1>7. b.id <= s[Len(s)]
  BY <1>1, <1>3, <1>5, <1>6
<1> QED  BY <1>2, <1>5, <1>7

LEMMA LoadKeeps ==
    ASSUME LogInv, NEW c \in Connections, NEW g \in Group, Load(c, g)
    PROVE  RestInv'
<1> DEFINE missed == {b \in InLog(g) : b.id > LastOf(lastIds[g])}
           rest == inits[c].todo \ {g}
           phase == IF rest = {} THEN "add" ELSE "load"
           i == [inits[c] EXCEPT !.todo = rest, !.loaded = @ \union missed, !.phase = phase]
<1>1. /\ UNCHANGED <<committed, members, skipped, givenUp, everHandled, conn, channel, cacheLast, messageQueue,
                     messagesPaused, lastIds, eventQueue, stage, retry>>
      /\ inits[c].phase = "load" /\ g \in inits[c].todo
  BY DEF Load, serverVars, connVars, idVars, queueVars, cacheVars, boundVars, errorVars
<1>2. inits' = [inits EXCEPT ![c] = i]
  BY InitOfRecord DEF Load, InitFields, LogInv
<1>3. PICK j : j = inits[c]
  OBVIOUS
<1>4. InitOK(j) /\ j.phase = "load" /\ IsInit(j)
  BY <1>1, <1>3 DEF LogInv, RestInv, InitsInv, LoadInv, InitsAreRecords
<1>5. PICK n : n = i
  OBVIOUS
<1>6. /\ n.phase = IF j.todo \ {g} = {} THEN "add" ELSE "load"
      /\ n.todo = j.todo \ {g} /\ n.loaded = j.loaded \union missed /\ n.ids = j.ids
  <2> HIDE DEF missed
  <2> QED  BY <1>3, <1>4, <1>5 DEF IsInit, InitFields
<1> HIDE DEF i
<1>7. Grows /\ PipesKeep
  BY <1>1, CoveredGrows, PipesFrame DEF Settled
<1>8. InLog(g) \subseteq Covered \union missed /\ missed \subseteq InLog(g)
  BY MissedAreLoaded
<1> HIDE DEF missed
<1>9. ASSUME NEW h \in Group, Filled(n, h) PROVE Pipe(h, Covered \union n.loaded)
  <2>1. CASE h = g
    BY <1>6, <1>8, <2>1 DEF Pipe
  <2>2. CASE h # g
    <3>1. Filled(j, h)
      BY <1>4, <1>6, <1>9, <2>2 DEF Filled
    <3> QED  BY <1>4, <1>6, <3>1, PipeGrows DEF InitOK
  <2> QED  BY <2>1, <2>2
<1>10. ASSUME NEW b \in n.loaded, NEW d \in committed, Older(d, b)
       PROVE  d \in Covered \union n.loaded
  <2>1. CASE b \in j.loaded
    BY <1>4, <1>6, <1>10, <2>1 DEF InitOK
  <2>2. CASE b \in missed
    BY <1>6, <1>8, <1>10, <2>2 DEF Older, InLog
  <2> QED  BY <1>6, <2>1, <2>2
<1>11. InitOK(n)
  <2>1. n.loaded \subseteq committed
    BY <1>4, <1>6, <1>8 DEF InitOK, InLog
  <2> QED  BY <1>4, <1>6, <1>9, <1>10, <2>1 DEF InitOK
<1>12. InitsInv'
  BY <1>2, <1>5, <1>7, <1>11, InitFrame, InitsStep DEF LogInv, RestInv
<1>13. ConnInv'
  BY <1>1 DEF LogInv, RestInv, ConnInv, Loading
<1> QED  BY <1>1, <1>7, <1>12, <1>13, ServerFrame, CacheFrame, QueueFrame, StageFrame, MessagesFrame, PipeFrame
         DEF LogInv, RestInv, MessagesInv

LEMMA LoadForbiddenKeeps ==
    ASSUME LogInv, NEW c \in Connections, NEW g \in Group, LoadForbidden(c, g)
    PROVE  RestInv'
<1> DEFINE rest == inits[c].todo \ {g}
           phase == IF rest = {} THEN "add" ELSE "load"
           i == [inits[c] EXCEPT !.todo = rest, !.phase = phase]
<1>1. /\ UNCHANGED <<committed, givenUp, everHandled, conn, channel, cacheLast, messageQueue,
                     messagesPaused, lastIds, eventQueue, stage, retry>>
      /\ members' = members \ {g} /\ skipped' = skipped \union InLog(g)
      /\ inits[c].phase = "load" /\ g \in inits[c].todo
  BY DEF LoadForbidden, serverVars, connVars, idVars, queueVars, cacheVars, boundVars, errorVars
<1>2. inits' = [inits EXCEPT ![c] = i]
  BY InitOfRecord DEF LoadForbidden, InitFields, LogInv
<1>3. PICK j : j = inits[c]
  OBVIOUS
<1>4. InitOK(j) /\ j.phase = "load" /\ IsInit(j)
  BY <1>1, <1>3 DEF LogInv, RestInv, InitsInv, LoadInv, InitsAreRecords
<1>5. PICK n : n = i
  OBVIOUS
<1>6. /\ n.phase = IF j.todo \ {g} = {} THEN "add" ELSE "load"
      /\ n.todo = j.todo \ {g} /\ n.loaded = j.loaded /\ n.ids = j.ids
  BY <1>3, <1>4, <1>5 DEF IsInit, InitFields
<1> HIDE DEF i
<1>7. Grows /\ PipesKeep
  BY <1>1, CoveredGrows, PipesFrame DEF Settled
<1>8. InitOK(j)'
  BY <1>4, <1>7, InitFrame
<1>9. ASSUME NEW h \in Group, Filled(n, h) PROVE Pipe(h, Covered \union n.loaded)'
  <2>1. CASE h = g
    <3>1. InLog(g)' \subseteq Covered'
      BY <1>1 DEF Covered, Settled, InLog
    <3> QED  BY <2>1, <3>1 DEF Pipe
  <2>2. CASE h # g
    <3>1. Filled(j, h)
      BY <1>4, <1>6, <1>9, <2>2 DEF Filled
    <3> QED  BY <1>6, <1>8, <3>1 DEF InitOK, Filled
  <2> QED  BY <2>1, <2>2
<1>10. InitOK(n)'
  BY <1>4, <1>6, <1>8, <1>9 DEF InitOK
<1>11. InitsInv'
  BY <1>2, <1>5, <1>7, <1>10, InitsStep DEF LogInv, RestInv
<1>12. ConnInv'
  BY <1>1 DEF LogInv, RestInv, ConnInv, Loading
<1>13. ServerInv'
  <2>1. \A b \in committed : b.group = g => b \in skipped'
    BY <1>1 DEF InLog
  <2> QED  BY <1>1, <2>1 DEF LogInv, RestInv, ServerInv, Numbered, SeenInv, Settled, Newest, InLog
<1> QED  BY <1>1, <1>7, <1>11, <1>12, <1>13, CacheFrame, QueueFrame, StageFrame, MessagesFrame, PipeFrame
         DEF LogInv, RestInv, MessagesInv

(* The loaded batches are added after the older ones of their groups.      *)
LEMMA OldestFirstOrder ==
    ASSUME LogInv, NEW S \in SUBSET committed, NEW q \in OldestFirst(S)
    PROVE  /\ q \in Seq(committed) /\ Range(q) = S /\ Ascending(q)
           /\ \A k \in 1..Len(q) : \A d \in S : d.id < q[k].id => \E j \in 1..(k - 1) : q[j] = d
<1>1. Cardinality(S) \in Nat
  BY FS_Subset, FS_CardinalityType DEF LogInv, RestInv, ServerInv, Numbered
<1>2. PICK n \in Nat : n = Cardinality(S)
  BY <1>1
<1>3. q \in [1..n -> S] /\ Range(q) = S
      /\ \A k, m \in DOMAIN q : k < m => q[k].id < q[m].id
  BY <1>2 DEF OldestFirst
<1>4. q \in Seq(S) /\ Len(q) = n /\ DOMAIN q = 1..n
  BY <1>3
<1>5. q \in Seq(committed)
  BY <1>4, SequenceGrows
<1>6. ASSUME NEW k \in 1..Len(q), NEW d \in S, d.id < q[k].id PROVE \E j \in 1..(k - 1) : q[j] = d
  <2>1. PICK j \in 1..n : q[j] = d
    BY <1>3, <1>4 DEF Range
  <2>2. d.id \in Nat /\ q[k] \in committed /\ q[k].id \in Nat
    <3>1. q[k] \in committed
      BY <1>5, ElementIn
    <3> QED  BY <3>1, IdOfCommitted
  <2>3. j # k
    BY <1>6, <2>1, <2>2
  <2>4. ~(k < j)
    <3>1. k \in 1..n
      BY <1>4
    <3>2. k < j => q[k].id < d.id
      BY <1>3, <1>4, <2>1, <3>1
    <3> QED  BY <1>6, <2>2, <3>2
  <2> QED  BY <1>4, <2>1, <2>3, <2>4
<1>7. Ascending(q)
  BY <1>3, <1>4 DEF Ascending
<1> QED  BY <1>3, <1>5, <1>6, <1>7

LEMMA AddMissedKeeps ==
    ASSUME LogInv, NEW c \in Connections, AddMissed(c)
    PROVE  RestInv'
<1>1. /\ UNCHANGED <<committed, members, skipped, givenUp, everHandled, conn, channel, cacheLast, messageQueue,
                     messagesPaused, retry>>
      /\ inits[c].phase = "add"
      /\ inits' = [inits EXCEPT ![c] = [NoInit EXCEPT !.phase = "resume"]]
  BY DEF AddMissed, serverVars, connVars, cacheVars, boundVars, errorVars
<1>2. PICK j : j = inits[c]
  OBVIOUS
<1>3. InitOK(j) /\ j.phase = "add"
  BY <1>1, <1>2 DEF LogInv, RestInv, InitsInv
<1>4. PICK q \in OldestFirst(j.loaded) : Enqueue(q, FALSE)
  BY <1>2 DEF AddMissed
<1>5. /\ q \in Seq(committed) /\ Range(q) = j.loaded
      /\ \A k \in 1..Len(q) : \A d \in j.loaded : d.id < q[k].id => \E l \in 1..(k - 1) : q[l] = d
  BY <1>3, OldestFirstOrder DEF InitOK
<1>6. ASSUME NEW k \in 1..Len(q), NEW d \in committed, Older(d, q[k])
      PROVE  d \in Covered \/ \E l \in 1..(k - 1) : q[l] = d
  <2>1. q[k] \in j.loaded
    BY <1>5, ElementIn
  <2> QED  BY <1>3, <1>5, <1>6, <2>1 DEF InitOK, Older
<1>7. /\ QueueInv' /\ StageInv' /\ Grows
      /\ j.loaded \subseteq Covered'
  <2>1. PICK resume \in BOOLEAN : resume = FALSE
    OBVIOUS
  <2>2. Enqueue(q, resume)
    BY <1>4, <2>1
  <2>3. Settled' = Settled
    BY <1>1 DEF Settled
  <2> QED  BY <1>1, <1>5, <1>6, <2>2, <2>3, EnqueueKeeps DEF Covered
<1>8. PipesKeep
  BY <1>1, PipesFrame
<1>9. PICK n : n = [NoInit EXCEPT !.phase = "resume"]
  OBVIOUS
<1>10. n.phase = "resume" /\ n.loaded = {} /\ n.ids = [h \in Group |-> << >>]
  BY <1>9 DEF NoInit
<1>11. InitOK(n)'
  <2>1. ASSUME NEW h \in Group PROVE Pipe(h, Covered)'
    <3>1. PICK S : S = Covered \union j.loaded
      OBVIOUS
    <3>2. Pipe(h, S)'
      BY <1>3, <1>8, <3>1 DEF InitOK, Filled, PipesKeep
    <3> QED  BY <1>7, <3>1, <3>2 DEF Pipe, Grows
  <2>2. n.ids \in [Group -> Seq(0..Newest')] /\ \A h \in Group : Len(n.ids[h]) = 0
    BY <1>10
  <2>3. IdsCovered(n.ids, Settled)'
    BY <2>2 DEF IdsCovered
  <2> QED  BY <1>10, <2>1, <2>3 DEF InitOK
<1>12. InitsInv' /\ inits'[c] = n
  BY <1>1, <1>7, <1>8, <1>9, <1>11, InitsStep DEF LogInv, RestInv
<1>13. ConnInv'
  BY <1>1 DEF LogInv, RestInv, ConnInv, Loading
<1> QED  BY <1>1, <1>7, <1>8, <1>12, <1>13, ServerFrame, CacheFrame, MessagesFrame, PipeFrame
         DEF LogInv, RestInv, MessagesInv

(* The messages that waited are added after what was loaded.               *)
LEMMA ResumeQueuesKeeps ==
    ASSUME LogInv, NEW c \in Connections, ResumeQueues(c)
    PROVE  RestInv'
<1>1. /\ UNCHANGED <<committed, members, skipped, givenUp, everHandled, conn, channel, cacheLast, retry>>
      /\ inits[c].phase = "resume" /\ inits' = [inits EXCEPT ![c] = NoInit]
      /\ messageQueue' = << >> /\ messagesPaused' = FALSE
      /\ Enqueue(messageQueue, TRUE)
  BY DEF ResumeQueues, serverVars, connVars, cacheVars, boundVars, errorVars
<1>2. PICK q : q = messageQueue
  OBVIOUS
<1>3. /\ q \in Seq(committed) /\ Ascending(q)
      /\ \A b \in Range(q), d \in Range(channel) : b.id < d.id
  BY <1>2 DEF LogInv, RestInv, MessagesInv
<1>4. \A g \in Group : Pipe(g, Covered)
  BY <1>1 DEF LogInv, RestInv, InitsInv, InitOK, Filled
<1>5. ASSUME NEW k \in 1..Len(q), NEW d \in committed, Older(d, q[k])
      PROVE  d \in Covered \/ \E l \in 1..(k - 1) : q[l] = d
  <2>1. q[k] \in committed /\ q[k] \in Range(q)
    BY <1>3, ElementIn
  <2>2. d.id \in Nat /\ q[k].id \in Nat /\ d.id < q[k].id /\ q[k].group \in Group /\ d \in InLog(q[k].group)
    BY <1>5, <2>1, IdOfCommitted DEF Older, InLog
  <2>3. d \in Covered \union Range(q) \union Range(channel)
    BY <1>2, <1>4, <1>5, <2>1, <2>2 DEF Pipe, Messages
  <2>4. d \notin Range(channel)
    BY <1>3, <2>1, <2>2
  <2>5. CASE d \in Range(q)
    <3>1. PICK l \in 1..Len(q) : q[l] = d
      BY <1>3, <2>5 DEF Range
    <3>2. l # k
      BY <2>2, <3>1
    <3>3. ~(k < l)
      BY <1>3, <2>2, <3>1 DEF Ascending
    <3> QED  BY <1>3, <3>1, <3>2, <3>3
  <2> QED  BY <2>3, <2>4, <2>5
<1>6. /\ QueueInv' /\ StageInv' /\ Grows
      /\ Range(q) \subseteq Covered'
  <2>1. PICK resume \in BOOLEAN : resume = TRUE
    OBVIOUS
  <2>2. Enqueue(q, resume)
    BY <1>1, <1>2, <2>1
  <2>3. Settled' = Settled
    BY <1>1 DEF Settled
  <2> QED  BY <1>1, <1>3, <1>5, <2>2, <2>3, EnqueueKeeps DEF Covered
<1>7. MessagesInv'
  <2>1. PICK r : r = messageQueue'
    OBVIOUS
  <2>2. r \in Seq(committed) /\ Range(r) = {} /\ Ascending(r) /\ r = << >>
    BY <1>1, <2>1, EmptyQueue
  <2> QED  BY <1>1, <2>1, <2>2 DEF LogInv, RestInv, MessagesInv, Ascending
<1>8. ASSUME NEW g \in Group PROVE Pipe(g, Covered)'
  <2>1. Messages' = Range(channel) /\ Messages = Range(q) \union Range(channel)
    BY <1>1, <1>2 DEF Messages, Range
  <2>2. Covered \union Messages \subseteq Covered' \union Messages' /\ Messages' \subseteq Messages
    BY <1>6, <2>1 DEF Grows
  <2> QED  BY <1>1, <1>4, <2>2 DEF Pipe, InLog
<1>9. Loading(c) /\ \A d \in Connections : d # c => ~Loading(d)
  BY <1>1 DEF LogInv, LoadInv, OnlyLastLoads, Loading
<1>10. inits'[c] = NoInit /\ \A d \in Connections : d # c => inits'[d] = inits[d]
  BY <1>1 DEF LogInv, LoadInv, InitsAreRecords
<1>11. InitsInv'
  <2> SUFFICES ASSUME NEW d \in Connections PROVE InitOK(inits[d])'
    BY DEF InitsInv
  <2>1. PICK i : i = inits'[d]
    OBVIOUS
  <2>2. InitOK(i) /\ \A g \in Group : ~Filled(i, g)
    <3>1. CASE d = c
      <4>1. \A g \in Group : ~Filled(NoInit, g)
        BY DEF Filled, NoInit
      <4> QED  BY <1>10, <2>1, <3>1, <4>1, NoInitOK, NewestNat
    <3>2. CASE d # c
      BY <1>9, <1>10, <2>1, <3>2 DEF LogInv, RestInv, InitsInv, Filled, Loading
    <3> QED  BY <3>1, <3>2
  <2>3. InitOK(i)'
    BY <1>6, <2>2 DEF InitOK, IdsCovered, Grows, Newest, InLog, Filled
  <2> QED  BY <2>1, <2>3 DEF InitOK, IdsCovered, Filled
<1>12. PipeInv' /\ ConnInv'
  BY <1>1, <1>8, <1>9 DEF PipeInv, LogInv, RestInv, ConnInv
<1> QED  BY <1>1, <1>6, <1>7, <1>11, <1>12, ServerFrame, CacheFrame DEF LogInv, RestInv

(* An initialization ends without having loaded everything.                *)
LEMMA EndedKeeps ==
    ASSUME LogInv, NEW c \in Connections, NEW i, inits' = [inits EXCEPT ![c] = i], Grows, PipesKeep,
           i.phase \in {"none", "wait"}, i.loaded = {}, i.ids = [g \in Group |-> << >>]
    PROVE  InitsInv' /\ inits'[c] = i /\ \A d \in Connections : d # c => inits'[d] = inits[d]
<1>1. \A g \in Group : ~Filled(i, g)
  BY DEF Filled
<1>2. InitOK(i)
  BY <1>1, NewestNat, StartedOK
<1> QED  BY <1>2, InitFrame, InitsStep DEF LogInv, RestInv

LEMMA InitDisconnectedKeeps ==
    ASSUME LogInv, NEW c \in Connections, InitDisconnected(c)
    PROVE  RestInv'
<1>1. /\ UNCHANGED <<committed, members, skipped, givenUp, messageQueue, messagesPaused, cacheLast,
                     eventQueue, lastIds, stage, everHandled, retry>>
      /\ conn' = "down" /\ Lose
      /\ inits' = [inits EXCEPT ![c] = NoInit]
  BY DEF InitDisconnected, Lose, serverVars, idVars, cacheVars, queueVars, boundVars, errorVars
<1>2. Grows /\ PipesKeep /\ MessagesInv'
  BY <1>1, CoveredGrows, LosePipes, LoseMessages DEF Settled
<1>3. NoInit.phase = "none" /\ NoInit.loaded = {} /\ NoInit.ids = [g \in Group |-> << >>]
  BY DEF NoInit
<1> HIDE DEF NoInit
<1>4. InitsInv'
  BY <1>1, <1>2, <1>3, EndedKeeps
<1>5. ConnInv'
  BY <1>1 DEF ConnInv
<1> QED  BY <1>1, <1>2, <1>4, <1>5, ServerFrame, CacheFrame, QueueFrame, StageFrame, PipeFrame
         DEF LogInv, RestInv

LEMMA InitUnavailableKeeps ==
    ASSUME LogInv, NEW c \in Connections, InitUnavailable(c)
    PROVE  RestInv'
<1>1. /\ UNCHANGED <<committed, members, skipped, givenUp, conn, channel, messageQueue, messagesPaused, cacheLast,
                     eventQueue, stage, everHandled>>
      /\ inits[c].phase \in {"retrieve", "load"}
      /\ inits' = [inits EXCEPT ![c] = [NoInit EXCEPT !.phase = "wait"]]
      /\ lastIds' = lastIds \/ lastIds' = NoInit.ids
  BY DEF InitUnavailable, serverVars, connVars, idVars, cacheVars, queueVars, boundVars, errorVars
<1>2. Grows /\ PipesKeep
  BY <1>1, CoveredGrows, PipesFrame DEF Settled
<1>3. PICK n : n = [NoInit EXCEPT !.phase = "wait"]
  OBVIOUS
<1>4. n.phase = "wait" /\ n.loaded = {} /\ n.ids = [g \in Group |-> << >>]
  BY <1>3 DEF NoInit
<1>5. InitsInv'
  BY <1>1, <1>2, <1>3, <1>4, EndedKeeps
<1>6. ConnInv'
  BY <1>1 DEF ConnInv, LogInv, RestInv, Loading
<1>7. QueueInv'
  <2>1. CASE lastIds' = lastIds
    BY <1>1, <1>2, <2>1, QueueFrame DEF LogInv, RestInv
  <2>2. CASE lastIds' = NoInit.ids
    <3>1. lastIds' = [g \in Group |-> << >>] /\ Newest' \in Nat
      BY <1>1, <2>2, NewestNat DEF NoInit, Newest
    <3>2. lastIds' \in [Group -> Seq(0..Newest')] /\ \A g \in Group : Len(lastIds'[g]) = 0
      BY <3>1
    <3>3. IdsCovered(lastIds, Covered)'
      BY <3>2 DEF IdsCovered
    <3> QED  BY <1>1, <1>2, <3>3 DEF LogInv, RestInv, QueueInv, InQueueOrder, Grows
  <2> QED  BY <1>1, <2>1, <2>2
<1> QED  BY <1>1, <1>2, <1>5, <1>6, <1>7, ServerFrame, CacheFrame, StageFrame, PipeFrame, MessagesFrame
         DEF LogInv, RestInv, MessagesInv

LEMMA RetryInitKeeps ==
    ASSUME LogInv, NEW c \in Connections, RetryInit(c)
    PROVE  RestInv'
<1>1. /\ UNCHANGED <<committed, members, skipped, givenUp, conn, channel, messageQueue, cacheLast,
                     eventQueue, lastIds, stage, everHandled, retry>>
      /\ inits[c].phase = "wait"
  BY DEF RetryInit, serverVars, connVars, idVars, cacheVars, queueVars, boundVars, errorVars
<1>2. Grows /\ PipesKeep
  BY <1>1, CoveredGrows, PipesFrame DEF Settled
<1>3. InitsInv' /\ messagesPaused' \in {TRUE, messagesPaused} /\ ConnInv'
  <2>1. CASE retry = c
    <3>1. InitsInv' /\ messagesPaused' = TRUE
      BY <1>1, <1>2, <2>1, StartKeeps DEF RetryInit
    <3>2. conn # "connecting"
      BY <1>1, <2>1 DEF LogInv, RestInv, ConnInv
    <3> QED  BY <1>1, <3>1, <3>2 DEF ConnInv
  <2>2. CASE retry # c
    <3>1. inits' = [inits EXCEPT ![c] = NoInit] /\ messagesPaused' = messagesPaused
      BY <2>2 DEF RetryInit
    <3>2. NoInit.phase = "none" /\ NoInit.loaded = {} /\ NoInit.ids = [g \in Group |-> << >>]
      BY DEF NoInit
    <3> HIDE DEF NoInit
    <3>3. InitsInv' /\ inits'[c] = NoInit /\ \A d \in Connections : d # c => inits'[d] = inits[d]
      BY <1>2, <3>1, <3>2, EndedKeeps
    <3>4. ConnInv'
      BY <1>1, <3>2, <3>3 DEF LogInv, RestInv, ConnInv, Loading
    <3> QED  BY <3>1, <3>3, <3>4
  <2> QED  BY <2>1, <2>2
<1>4. MessagesInv' /\ PipeInv'
  <2>1. messagesPaused' \in BOOLEAN /\ (messagesPaused => messagesPaused')
    <3>1. messagesPaused \in BOOLEAN
      BY DEF LogInv, RestInv, MessagesInv
    <3>2. CASE messagesPaused' = TRUE
      BY <3>2
    <3>3. CASE messagesPaused' = messagesPaused
      BY <3>1, <3>3
    <3> QED  BY <1>3, <3>2, <3>3
  <2>2. MessagesInv'
    BY <1>1, <2>1, MessagesFrame DEF LogInv, RestInv
  <2>3. ~messagesPaused' => ~messagesPaused
    BY <1>3
  <2> QED  BY <1>2, <2>2, <2>3, PipeFrame DEF LogInv, RestInv
<1> QED  BY <1>1, <1>2, <1>3, <1>4, ServerFrame, CacheFrame, QueueFrame, StageFrame DEF LogInv, RestInv

LEMMA InitFailsKeeps ==
    ASSUME LogInv, NEW c \in Connections, InitFails(c)
    PROVE  RestInv'
<1>1. /\ UNCHANGED <<committed, members, skipped, everHandled, conn, channel, cacheLast, retry>>
      /\ inits[c].phase \in {"retrieve", "load", "add"} /\ inits' = [inits EXCEPT ![c] = NoInit]
      /\ messageQueue' = << >> /\ messagesPaused' = FALSE
      /\ Enqueue(messageQueue, TRUE)
      /\ givenUp' = givenUp \union LeftOut
  BY DEF InitFails, serverVars, connVars, cacheVars
<1>2. PICK q : q = messageQueue
  OBVIOUS
<1>3. /\ q \in Seq(committed) /\ Ascending(q)
      /\ \A b \in Range(q), d \in Range(channel) : b.id < d.id
  BY <1>2 DEF LogInv, RestInv, MessagesInv
<1>4. Settled' = Settled \union LeftOut /\ LeftOut \subseteq committed
  BY <1>1 DEF Settled, LeftOut
<1>5. ASSUME NEW d \in committed,
             \/ conn = "open"
             \/ \E m \in Range(q) : m.group = d.group /\ d.id < m.id
      PROVE  d \in Settled' \union Range(eventQueue) \union Range(q) \union Range(channel)
  BY <1>2, <1>4, <1>5 DEF LeftOut, Settled
<1>6. ASSUME NEW k \in 1..Len(q), NEW d \in committed, Older(d, q[k])
      PROVE  d \in Settled' \union Range(eventQueue) \/ \E l \in 1..(k - 1) : q[l] = d
  <2>1. q[k] \in committed /\ q[k] \in Range(q)
    BY <1>3, ElementIn
  <2>2. d.id \in Nat /\ q[k].id \in Nat /\ d.id < q[k].id /\ d.group = q[k].group
    BY <1>6, <2>1, IdOfCommitted DEF Older
  <2>3. d \in Settled' \union Range(eventQueue) \union Range(q) \union Range(channel)
    BY <1>5, <2>1, <2>2
  <2>4. d \notin Range(channel)
    BY <1>3, <2>1, <2>2
  <2>5. CASE d \in Range(q)
    <3>1. PICK l \in 1..Len(q) : q[l] = d
      BY <1>3, <2>5 DEF Range
    <3>2. l # k
      BY <2>2, <3>1
    <3>3. ~(k < l)
      BY <1>3, <2>2, <3>1 DEF Ascending
    <3> QED  BY <1>3, <3>1, <3>2, <3>3
  <2> QED  BY <2>3, <2>4, <2>5
<1>7. /\ QueueInv' /\ StageInv' /\ Grows
      /\ Range(q) \subseteq Covered'
  <2>1. PICK resume \in BOOLEAN : resume = TRUE
    OBVIOUS
  <2>2. Enqueue(q, resume)
    BY <1>1, <1>2, <2>1
  <2> QED  BY <1>1, <1>3, <1>4, <1>6, <2>2, EnqueueKeeps
<1>8. MessagesInv'
  <2>1. PICK r : r = messageQueue'
    OBVIOUS
  <2>2. r \in Seq(committed) /\ Range(r) = {} /\ Ascending(r) /\ r = << >>
    BY <1>1, <2>1, EmptyQueue
  <2> QED  BY <1>1, <2>1, <2>2 DEF LogInv, RestInv, MessagesInv, Ascending
<1>9. ASSUME NEW g \in Group PROVE Pipe(g, Covered)'
  <2>1. Messages' = Range(channel)
    BY <1>1 DEF Messages, Range
  <2>2. Range(channel) # {} => conn = "open"
    BY DEF LogInv, RestInv, MessagesInv, Range
  <2>3. ASSUME conn = "open", NEW d \in InLog(g) PROVE d \in Covered' \union Range(channel)
    <3>1. d \in Settled' \union Range(eventQueue) \union Range(q) \union Range(channel)
      BY <1>5, <2>3 DEF InLog
    <3> QED  BY <1>7, <3>1 DEF Grows, Covered
  <2> QED  BY <1>1, <2>1, <2>2, <2>3 DEF Pipe, InLog
<1>10. Loading(c) /\ \A d \in Connections : d # c => ~Loading(d)
  BY <1>1 DEF LogInv, LoadInv, OnlyLastLoads, Loading
<1>11. inits'[c] = NoInit /\ \A d \in Connections : d # c => inits'[d] = inits[d]
  BY <1>1 DEF LogInv, LoadInv, InitsAreRecords
<1>12. InitsInv'
  <2> SUFFICES ASSUME NEW d \in Connections PROVE InitOK(inits[d])'
    BY DEF InitsInv
  <2>1. PICK i : i = inits'[d]
    OBVIOUS
  <2>2. InitOK(i) /\ \A g \in Group : ~Filled(i, g)
    <3>1. CASE d = c
      <4>1. \A g \in Group : ~Filled(NoInit, g)
        BY DEF Filled, NoInit
      <4> QED  BY <1>11, <2>1, <3>1, <4>1, NoInitOK, NewestNat
    <3>2. CASE d # c
      BY <1>10, <1>11, <2>1, <3>2 DEF LogInv, RestInv, InitsInv, Filled, Loading
    <3> QED  BY <3>1, <3>2
  <2>3. InitOK(i)'
    BY <1>7, <2>2 DEF InitOK, IdsCovered, Grows, Newest, InLog, Filled
  <2> QED  BY <2>1, <2>3 DEF InitOK, IdsCovered, Filled
<1>13. PipeInv' /\ ConnInv'
  BY <1>1, <1>9, <1>10 DEF PipeInv, LogInv, RestInv, ConnInv
<1>14. ServerInv'
  BY <1>1, <1>4 DEF LogInv, RestInv, ServerInv, Numbered, SeenInv, Newest
<1> QED  BY <1>1, <1>7, <1>8, <1>12, <1>13, <1>14, CacheFrame DEF LogInv, RestInv

(* The steps of the queue.                                                 *)
LEMMA QueueRest ==
    ASSUME LogInv, Grows,
           UNCHANGED <<members, skipped, givenUp, conn, channel, messageQueue, messagesPaused, inits>>,
           retry' \in {retry, BatchRetry}
    PROVE  MessagesInv' /\ PipeInv' /\ InitsInv' /\ ConnInv'
<1>1. UNCHANGED committed
  BY DEF Grows
<1>2. PipesKeep
  BY <1>1, PipesFrame
<1> QED  BY <1>1, <1>2, MessagesFrame, PipeFrame, InitsFrame, ConnFrame DEF LogInv, RestInv, MessagesInv

LEMMA FirstBatch ==
    ASSUME LogInv, stage # "idle"
    PROVE  /\ eventQueue # << >> /\ Head(eventQueue) \in committed /\ Head(eventQueue) = eventQueue[1]
           /\ Tail(eventQueue) \in Seq(committed) /\ Len(eventQueue) \in Nat \ {0}
           /\ Len(Tail(eventQueue)) = Len(eventQueue) - 1
           /\ \A k \in 1..(Len(eventQueue) - 1) : Tail(eventQueue)[k] = eventQueue[k + 1]
           /\ Range(eventQueue) = Range(Tail(eventQueue)) \union {Head(eventQueue)}
  BY TailElements DEF LogInv, RestInv, StageInv, QueueInv

LEMMA FirstIsNext ==
    ASSUME LogInv, stage # "idle", NEW c \in committed, Older(c, Head(eventQueue))
    PROVE  c \in Settled
<1>1. 1 \in 1..Len(eventQueue) /\ Head(eventQueue) = eventQueue[1]
  BY FirstBatch
<1>2. c \in Settled \/ \E j \in 1..(1 - 1) : eventQueue[j] = c
  BY <1>1 DEF LogInv, RestInv, QueueInv, InQueueOrder
<1> QED  BY <1>2

LEMMA CacheWritesKeeps ==
    ASSUME LogInv, CacheWrites
    PROVE  RestInv'
<1>1. /\ UNCHANGED <<committed, members, skipped, givenUp, conn, channel, messageQueue, messagesPaused, inits,
                     lastIds, eventQueue, retry, cacheLast>>
      /\ stage = "cache" /\ stage' = "mark" /\ everHandled' = everHandled \union {Head(eventQueue)}
  BY DEF CacheWrites, serverVars, connVars, idVars, boundVars, errorVars
<1>2. Grows
  BY <1>1, CoveredGrows DEF Settled
<1>3. ServerInv'
  <2>1. Head(eventQueue) \in committed /\ \A c \in committed : Older(c, Head(eventQueue)) => c \in Settled
    BY <1>1, FirstBatch, FirstIsNext
  <2> QED  BY <1>1, <2>1 DEF LogInv, RestInv, ServerInv, Numbered, Newest, SeenInv, Settled
<1>4. StageInv'
  BY <1>1, FirstBatch DEF StageInv, Stages
<1> QED  BY <1>1, <1>2, <1>3, <1>4, QueueRest, CacheFrame, QueueFrame DEF LogInv, RestInv

LEMMA CacheMarksKeeps ==
    ASSUME LogInv, CacheMarks
    PROVE  RestInv'
<1>1. /\ UNCHANGED <<committed, members, skipped, givenUp, conn, channel, messageQueue, messagesPaused, inits,
                     lastIds, eventQueue, retry, everHandled>>
      /\ stage = "mark" /\ stage' = "listener"
      /\ cacheLast' = [cacheLast EXCEPT ![Head(eventQueue).group] = Head(eventQueue).id]
  BY DEF CacheMarks, serverVars, connVars, idVars, boundVars, errorVars
<1>2. Grows
  BY <1>1, CoveredGrows DEF Settled
<1>3. PICK b : b = Head(eventQueue)
  OBVIOUS
<1>4. b \in committed /\ b \in everHandled /\ b \in Settled /\ b.id \in 1..Newest /\ b.group \in Group /\ Newest \in Nat
  BY <1>1, <1>3, FirstBatch, IdOfCommitted DEF LogInv, RestInv, StageInv, Settled
<1>5. ASSUME NEW c \in InLog(b.group), c.id <= b.id PROVE c \in Settled
  <2>1. c \in committed /\ c.id \in Nat /\ c \in Batches /\ b \in Batches /\ c.group = b.group
    BY <1>4, IdOfCommitted DEF InLog, LogInv, RestInv, ServerInv, Numbered
  <2>2. c = b \/ Older(c, b)
    BY <1>4, <1>5, <2>1 DEF Batches, Older
  <2> QED  BY <1>4, <2>1, <2>2 DEF LogInv, RestInv, ServerInv, SeenInv
<1>6. CacheInv'
  <2>1. UNCHANGED <<Newest, Settled>> /\ \A h : InLog(h)' = InLog(h)
    BY <1>1 DEF Newest, InLog, Settled
  <2>2. ASSUME NEW h \in Group, cacheLast'[h] # None
        PROVE  cacheLast'[h] \in 0..Newest /\ \A c \in InLog(h) : c.id <= cacheLast'[h] => c \in Settled
    <3>1. CASE h = b.group /\ cacheLast'[h] = b.id
      BY <1>4, <1>5, <3>1
    <3>2. CASE cacheLast'[h] = cacheLast[h]
      BY <2>2, <3>2 DEF LogInv, RestInv, CacheInv
    <3> QED  BY <1>1, <1>3, <3>1, <3>2
  <2> QED  BY <2>1, <2>2 DEF CacheInv
<1>7. StageInv'
  BY <1>1 DEF LogInv, RestInv, StageInv, Stages
<1> QED  BY <1>1, <1>2, <1>6, <1>7, QueueRest, ServerFrame, QueueFrame DEF LogInv, RestInv

LEMMA BatchDoneKeeps ==
    ASSUME LogInv, BatchDone
    PROVE  RestInv'
<1>1. /\ UNCHANGED <<committed, members, skipped, givenUp, conn, channel, messageQueue, messagesPaused, inits,
                     lastIds, retry, cacheLast, everHandled>>
      /\ stage = "listener" /\ eventQueue' = Tail(eventQueue)
      /\ stage' = IF eventsPaused \/ Len(eventQueue) = 1 THEN "idle" ELSE "cache"
  BY DEF BatchDone, serverVars, connVars, idVars, cacheVars, boundVars, errorVars
<1>2. Head(eventQueue) \in Settled
  BY <1>1 DEF LogInv, RestInv, StageInv, Settled
<1>3. Settled' = Settled /\ Covered' = Covered
  BY <1>1, <1>2, FirstBatch DEF Settled, Covered
<1>4. Grows
  BY <1>1, <1>3 DEF Grows
<1>5. PICK q : q = eventQueue
  OBVIOUS
<1>6. PICK t : t = Tail(eventQueue)
  OBVIOUS
<1>7. /\ t \in Seq(committed) /\ Len(q) \in Nat \ {0} /\ Len(t) = Len(q) - 1 /\ q[1] \in Settled
      /\ \A k \in 1..(Len(q) - 1) : t[k] = q[k + 1]
  BY <1>1, <1>2, <1>5, <1>6, FirstBatch
<1>8. ASSUME NEW k \in 1..Len(t), NEW c \in committed, Older(c, t[k])
      PROVE  c \in Settled \/ \E j \in 1..(k - 1) : t[j] = c
  <2>1. k + 1 \in 1..Len(q) /\ t[k] = q[k + 1]
    BY <1>7
  <2>2. c \in Settled \/ \E j \in 1..k : q[j] = c
    <3>1. c \in Settled \/ \E j \in 1..((k + 1) - 1) : q[j] = c
      BY <1>5, <1>8, <2>1 DEF LogInv, RestInv, QueueInv, InQueueOrder
    <3> QED  BY <1>7, <3>1
  <2>3. ASSUME NEW j \in 1..k, q[j] = c, c \notin Settled PROVE \E l \in 1..(k - 1) : t[l] = c
    <3>1. j # 1
      BY <1>7, <2>3
    <3>2. j - 1 \in 1..(k - 1) /\ j - 1 \in 1..(Len(q) - 1) /\ (j - 1) + 1 = j
      BY <1>7, <3>1
    <3>3. t[j - 1] = c
      BY <1>7, <2>3, <3>2
    <3> QED  BY <3>2, <3>3
  <2> QED  BY <2>2, <2>3
<1>9. QueueInv'
  <2>1. InQueueOrder(eventQueue, Settled)'
    BY <1>1, <1>3, <1>6, <1>8 DEF InQueueOrder
  <2>2. IdsCovered(lastIds, Covered)'
    BY <1>1, <1>3 DEF LogInv, RestInv, QueueInv, IdsCovered, Newest, InLog
  <2> QED  BY <1>1, <1>6, <1>7, <2>1, <2>2 DEF QueueInv
<1>10. StageInv'
  <2>1. stage' # "idle" => Len(t) # 0
    BY <1>1, <1>5, <1>7
  <2>2. stage' # "idle" => t # << >>
    BY <2>1
  <2> QED  BY <1>1, <1>6, <2>2 DEF StageInv, Stages
<1> QED  BY <1>1, <1>4, <1>9, <1>10, QueueRest, ServerFrame, CacheFrame DEF LogInv, RestInv

LEMMA BatchWaitsKeeps ==
    ASSUME LogInv, BatchUnavailable \/ BatchFails \/ RetryBatch
    PROVE  RestInv'
<1>1. /\ UNCHANGED <<committed, members, skipped, givenUp, conn, channel, messageQueue, messagesPaused, inits,
                     lastIds, eventQueue, cacheLast, everHandled>>
      /\ retry' \in {retry, BatchRetry}
      /\ stage # "idle" /\ stage' \in {"cache", "wait", "idle"}
  BY DEF BatchUnavailable, BatchFails, RetryBatch, serverVars, connVars, idVars, cacheVars, boundVars, errorVars
<1>2. Grows
  BY <1>1, CoveredGrows DEF Settled
<1>3. StageInv'
  BY <1>1 DEF LogInv, RestInv, StageInv, Stages
<1> QED  BY <1>1, <1>2, <1>3, QueueRest, ServerFrame, CacheFrame, QueueFrame DEF LogInv, RestInv

(* A restart: the queues and the ids are gone, what was seen is not.       *)
LEMMA FreshInits ==
    ASSUME UNCHANGED committed, Newest \in Nat, inits' = [c \in Connections |-> NoInit]
    PROVE  InitsInv' /\ \A c \in Connections : inits'[c].phase = "none"
<1>1. NoInit.phase = "none" /\ NoInit.loaded = {} /\ NoInit.ids = [g \in Group |-> << >>]
  BY DEF NoInit
<1>2. \A c \in Connections : inits'[c] = NoInit
  OBVIOUS
<1>3. PICK i : i = NoInit
  OBVIOUS
<1>4. i.phase = "none" /\ i.loaded = {} /\ i.ids = [g \in Group |-> << >>] /\ Newest' \in Nat
  BY <1>1, <1>3 DEF Newest
<1>5. i.ids \in [Group -> Seq(0..Newest')] /\ \A g \in Group : Len(i.ids[g]) = 0
  BY <1>4
<1>6. InitOK(i)'
  BY <1>4, <1>5 DEF InitOK, IdsCovered, Filled
<1> HIDE DEF NoInit
<1> QED  BY <1>1, <1>2, <1>3, <1>6 DEF InitsInv, InitOK, IdsCovered, Filled

LEMMA FreshQueues ==
    ASSUME Newest' \in Nat, eventQueue' = << >>, stage' = "idle", lastIds' = [g \in Group |-> << >>],
           channel' = << >>, messageQueue' = << >>, messagesPaused' = FALSE, conn' = "down"
    PROVE  QueueInv' /\ StageInv' /\ MessagesInv' /\ PipeInv' /\ ConnInv'
<1>1. lastIds' \in [Group -> Seq(0..Newest')] /\ \A g \in Group : Len(lastIds'[g]) = 0
  OBVIOUS
<1>2. Len(eventQueue') = 0 /\ eventQueue' \in Seq(committed') /\ Range(eventQueue') = {}
  BY DEF Range
<1>3. QueueInv' /\ StageInv'
  BY <1>1, <1>2 DEF QueueInv, InQueueOrder, IdsCovered, StageInv, Stages
<1>4. PICK q : q = << >>
  OBVIOUS
<1>5. q \in Seq(committed') /\ Range(q) = {} /\ Ascending(q)
  BY <1>4, EmptyQueue
<1>6. channel' = q /\ messageQueue' = q
  BY <1>4
<1>7. MessagesInv'
  BY <1>5, <1>6 DEF MessagesInv, Ascending
<1>8. PipeInv' /\ ConnInv'
  BY <1>5, <1>6 DEF PipeInv, Pipe, Messages, ConnInv
<1> QED  BY <1>3, <1>7, <1>8

LEMMA CrashKeeps ==
    ASSUME LogInv, Crash
    PROVE  RestInv'
<1>1. /\ UNCHANGED <<committed, members, skipped, givenUp, cacheLast, everHandled>>
      /\ eventQueue' = << >> /\ stage' = "idle" /\ lastIds' = NoInit.ids
      /\ channel' = << >> /\ messageQueue' = << >> /\ messagesPaused' = FALSE /\ conn' = "down"
      /\ inits' = [c \in Connections |-> NoInit]
  BY DEF Crash, serverVars, boundVars, errorVars
<1>2. Newest \in Nat /\ Newest' = Newest /\ NoInit.ids = [g \in Group |-> << >>]
  BY <1>1, NewestNat DEF Newest, NoInit
<1>3. QueueInv' /\ StageInv' /\ MessagesInv' /\ PipeInv' /\ ConnInv'
  BY <1>1, <1>2, FreshQueues
<1>4. InitsInv'
  BY <1>1, <1>2, FreshInits
<1>5. CacheInv'
  BY <1>1, <1>2 DEF LogInv, RestInv, CacheInv, InLog, Settled
<1> QED  BY <1>1, <1>3, <1>4, <1>5, ServerFrame DEF LogInv, RestInv

LEMMA LogInit0 == ClientInit => LogInv
<1> SUFFICES ASSUME ClientInit PROVE LogInv
  OBVIOUS
<1>1. committed = {} /\ members = Group \ Joinable /\ skipped = {} /\ everHandled = {}
      /\ givenUp = {}
  BY DEF ClientInit
<1>2. Newest = 0 /\ IsFiniteSet(committed)
  BY <1>1, FS_EmptySet DEF Newest
<1>3. ServerInv
  BY <1>1, <1>2 DEF ServerInv, Numbered, SeenInv, Settled
<1>4. CacheInv
  <2>1. \A g \in Group : cacheLast[g] \in {None, MinId} /\ InLog(g) = {}
    BY <1>1 DEF ClientInit, InLog
  <2> QED  BY <1>2, <2>1 DEF CacheInv, MinId
<1>5. QueueInv /\ StageInv
  <2>1. lastIds = [g \in Group |-> << >>] /\ eventQueue = << >> /\ stage = "idle"
    BY DEF ClientInit
  <2>2. lastIds \in [Group -> Seq(0..Newest)] /\ \A g \in Group : Len(lastIds[g]) = 0
    BY <2>1
  <2>3. Len(eventQueue) = 0 /\ eventQueue \in Seq(committed)
    BY <2>1
  <2> QED  BY <2>1, <2>2, <2>3 DEF QueueInv, InQueueOrder, IdsCovered, StageInv, Stages
<1>6. MessagesInv /\ PipeInv /\ ConnInv
  <2>1. channel = << >> /\ messageQueue = << >> /\ messagesPaused = FALSE /\ conn = "down"
    BY DEF ClientInit
  <2>2. PICK q : q = << >>
    OBVIOUS
  <2>3. q \in Seq(committed) /\ Range(q) = {} /\ Ascending(q)
    BY <2>2, EmptyQueue
  <2>4. channel = q /\ messageQueue = q
    BY <2>1, <2>2
  <2>5. MessagesInv
    BY <2>1, <2>3, <2>4 DEF MessagesInv
  <2>6. PipeInv /\ ConnInv
    BY <2>1, <2>3, <2>4 DEF PipeInv, Pipe, Messages, ConnInv
  <2> QED  BY <2>5, <2>6
<1>7. InitsInv
  <2>1. \A c \in Connections : inits[c] = NoInit
    BY DEF ClientInit
  <2> QED  BY <1>2, <2>1, NoInitOK DEF InitsInv
<1> QED  BY <1>3, <1>4, <1>5, <1>6, <1>7, LoadInit DEF LogInv, RestInv

LEMMA LogStep ==
    ASSUME ~Overlap
    PROVE  LogInv /\ [ClientNext]_clientVars => LogInv'
<1> SUFFICES ASSUME LogInv, [ClientNext]_clientVars
             PROVE  LogInv'
  OBVIOUS
<1>1. LoadInv'
  BY LoadStep DEF LogInv
<1>2. CASE UNCHANGED clientVars
  <2>1. UNCHANGED <<committed, members, skipped, givenUp, conn, channel, messageQueue, messagesPaused, inits,
                    lastIds, eventQueue, retry, cacheLast, everHandled, stage>>
    BY <1>2 DEF clientVars, serverVars, connVars, idVars, queueVars, cacheVars, boundVars, errorVars
  <2>2. Grows
    BY <2>1, CoveredGrows DEF Settled
  <2>3. RestInv'
    BY <2>1, <2>2, QueueRest, ServerFrame, CacheFrame, QueueFrame, StageFrame DEF LogInv, RestInv
  <2> QED  BY <1>1, <2>3 DEF LogInv
<1>3. ASSUME ClientNext PROVE RestInv'
  BY <1>3, CommitKeeps, JoinKeeps, ConnectKeeps, OpenKeeps, ConnectionLostKeeps, ReceiveKeeps,
     RetrieveKeeps, LoadKeeps, SetLastIdsKeeps, AddMissedKeeps, ResumeQueuesKeeps,
     InitDisconnectedKeeps, InitUnavailableKeeps, RetryInitKeeps, InitFailsKeeps, LoadForbiddenKeeps, CacheWritesKeeps,
     CacheMarksKeeps, BatchDoneKeeps, BatchWaitsKeeps, CrashKeeps
  DEF ClientNext
<1> QED  BY <1>1, <1>2, <1>3 DEF LogInv
-----------------------------------------------------------------------------
(* What follows from the second invariant.                                 *)

LEMMA LogAlways ==
    ASSUME ~Overlap
    PROVE  ClientSpec => []LogInv
  BY LogInit0, LogStep, PTL DEF ClientSpec

(* No batch is lost silently: a connected client that has nothing left to  *)
(* do has every batch in its cache, also those that were sent while it was *)
(* disconnected, was loading or had crashed, except those that were        *)
(* missing when a failed load was reported (EventBusClient.ts:434-531).    *)
(* The messages that wait and those under way are the rest of the log      *)
(* behind what is settled or waits in eventQueue (PipeInv); a quiet client *)
(* has neither.                                                            *)
THEOREM NothingLostAlways ==
    ASSUME ~Overlap
    PROVE  ClientSpec => []NothingLost
<1>1. ASSUME LogInv, Quiet PROVE committed \subseteq Settled
  <2>1. Messages = {} /\ Covered = Settled
    <3>1. Range(<< >>) = {}
      BY DEF Range
    <3> QED  BY <1>1, <3>1 DEF Quiet, Messages, Covered
  <2>2. ASSUME NEW b \in committed PROVE b \in Settled
    <3>1. b.group \in Group /\ b \in InLog(b.group)
      BY <1>1, <2>2, IdOfCommitted DEF InLog
    <3>2. Pipe(b.group, Covered)
      BY <1>1, <3>1 DEF Quiet, LogInv, RestInv, PipeInv
    <3> QED  BY <1>1, <2>1, <3>1, <3>2 DEF Pipe, Quiet
  <2> QED  BY <2>2
<1>2. LogInv => NothingLost
  BY <1>1 DEF NothingLost
<1> QED  BY <1>2, LogAlways, PTL

(* The id from which a client loads after a restart is one up to which     *)
(* every batch is in its cache, of no concern to it or was reported        *)
(* missing, so that a crash between the two writes of a batch repeats it   *)
(* but loses nothing (DefaultEntityRestCache.ts:706).                      *)
THEOREM CacheIdIsHandledAlways ==
    ASSUME ~Overlap
    PROVE  ClientSpec => []CacheIdIsHandled
<1>1. LogInv => CacheIdIsHandled
  BY DEF LogInv, RestInv, CacheInv, CacheIdIsHandled, InLog, Settled
<1> QED  BY <1>1, LogAlways, PTL
-----------------------------------------------------------------------------
(* Refinement of EventLog: what was committed is written, what was given   *)
(* to the cache is seen, and what need not be, or was reported missing, is *)
(* excused.                                                                *)
LEMMA LogInitMaps == ClientInit => Log!LogInit
  BY DEF ClientInit, Log!LogInit

LEMMA LogStepMaps ==
    ASSUME ~Overlap
    PROVE  LogInv /\ [ClientNext]_clientVars => [Log!LogNext]_(Log!logVars)
<1> SUFFICES ASSUME LogInv, [ClientNext]_clientVars
             PROVE  Log!LogNext \/ UNCHANGED Log!logVars
  OBVIOUS
<1> USE DEF serverVars, connVars, idVars, queueVars, cacheVars, boundVars, errorVars, Log!logVars
<1>1. ASSUME NEW b \in Batches, Commit(b) PROVE Log!LogNext
  <2>1. b \in Log!LogBatch
    BY DEF Batches, Log!LogBatch
  <2>2. committed' = committed \union {b} /\ UNCHANGED <<everHandled, givenUp, errors>>
    BY <1>1 DEF Commit
  <2>3. \A c \in committed : c.id < b.id
    <3>1. b.id = Newest + 1
      BY <1>1 DEF Commit, Newest
    <3> QED  BY <3>1, IdOfCommitted
  <2>4. CASE b.group \in members
    <3>1. Log!Write(b)
      BY <1>1, <2>2, <2>3, <2>4 DEF Commit, Log!Write
    <3> QED  BY <2>1, <3>1 DEF Log!LogNext
  <2>5. CASE b.group \notin members
    <3>1. \A c \in Log!Due : c.group # b.group
      BY <2>5 DEF LogInv, RestInv, ServerInv, SeenInv, Log!Due
    <3>2. skipped' = skipped \union {b}
      BY <1>1, <2>5 DEF Commit
    <3>3. Log!WriteForOthers(b)
      BY <2>2, <2>3, <3>1, <3>2 DEF Log!WriteForOthers
    <3> QED  BY <2>1, <3>3 DEF Log!LogNext
  <2> QED  BY <2>4, <2>5
<1>2. ASSUME NEW c \in Connections, NEW g \in Group, Retrieve(c, g)
      PROVE  Log!LogNext \/ UNCHANGED Log!logVars
  <2>1. UNCHANGED <<committed, everHandled, givenUp, errors>>
        /\ skipped' = IF cacheLast[g] # None THEN skipped ELSE skipped \union InLog(g)
    BY <1>2 DEF Retrieve
  <2>2. CASE cacheLast[g] # None
    BY <2>1, <2>2
  <2>3. CASE cacheLast[g] = None
    <3>1. Log!StartAtEnd(g)
      BY <2>1, <2>3 DEF Log!StartAtEnd, InLog
    <3> QED  BY <3>1 DEF Log!LogNext
  <2> QED  BY <2>2, <2>3
<1>3. ASSUME CacheWrites PROVE Log!LogNext \/ UNCHANGED Log!logVars
  <2>1. PICK b : b = Head(eventQueue)
    OBVIOUS
  <2>2. UNCHANGED <<committed, skipped, givenUp, errors>> /\ everHandled' = everHandled \union {b}
        /\ stage # "idle"
    BY <1>3, <2>1 DEF CacheWrites
  <2>3. b \in committed /\ \A c \in committed : Older(c, b) => c \in Settled
    BY <2>1, <2>2, FirstBatch, FirstIsNext
  <2>4. CASE b \in everHandled
    BY <2>2, <2>4
  <2>5. CASE b \notin everHandled
    <3>1. \A c \in Log!Due : ~Log!Older(c, b)
      BY <2>3 DEF Older, Log!Older, Log!Due, Settled
    <3>2. Log!See(b)
      BY <2>2, <2>3, <2>5, <3>1 DEF Log!See
    <3>3. b \in Log!LogBatch
      BY <2>3 DEF LogInv, RestInv, ServerInv, Numbered, Batches, Log!LogBatch
    <3> QED  BY <3>2, <3>3 DEF Log!LogNext
  <2> QED  BY <2>4, <2>5
<1>4. ASSUME NEW c \in Connections, NEW g \in Group, LoadForbidden(c, g)
      PROVE  Log!LogNext
  <2>1. Log!StartAtEnd(g)
    BY <1>4 DEF LoadForbidden, Log!StartAtEnd, InLog
  <2> QED  BY <2>1 DEF Log!LogNext
<1>5. ASSUME NEW c \in Connections, InitFails(c)
      PROVE  Log!LogNext
  <2> DEFINE missing == LeftOut \ givenUp
  <2>1. /\ UNCHANGED <<committed, skipped, everHandled>>
        /\ errors' = errors + 1 /\ givenUp' = givenUp \union LeftOut
    BY <1>5 DEF InitFails
  <2>2. missing \in SUBSET Log!Due
    BY DEF LeftOut, Log!Due
  <2>3. Log!Report(missing)
    BY <2>1 DEF Log!Report
  <2> QED  BY <2>2, <2>3 DEF Log!LogNext
<1>6. ASSUME BatchFails PROVE Log!LogNext
  <2>1. Log!Report({})
    BY <1>6 DEF BatchFails, Log!Report
  <2> QED  BY <2>1 DEF Log!LogNext
<1>7. ASSUME UNCHANGED <<committed, skipped, everHandled, givenUp, errors>> PROVE UNCHANGED Log!logVars
  BY <1>7
<1>8. ASSUME NEW c \in Connections,
             \/ \E g \in Group : Load(c, g)
             \/ SetLastIds(c) \/ AddMissed(c) \/ ResumeQueues(c)
             \/ InitDisconnected(c) \/ InitUnavailable(c) \/ RetryInit(c)
      PROVE  UNCHANGED <<committed, skipped, everHandled, givenUp, errors>>
  BY <1>8 DEF Load, SetLastIds, AddMissed, ResumeQueues, InitDisconnected, InitUnavailable, RetryInit
<1>9. ASSUME \/ \E g \in Joinable : Join(g)
             \/ Connect \/ Open \/ ConnectionLost \/ Receive
             \/ CacheMarks \/ BatchDone \/ BatchUnavailable \/ RetryBatch \/ Crash
             \/ UNCHANGED clientVars
      PROVE  UNCHANGED <<committed, skipped, everHandled, givenUp, errors>>
  BY <1>9 DEF Join, Connect, Open, ConnectionLost, Receive, CacheMarks, BatchDone, BatchUnavailable,
              RetryBatch, Crash, clientVars
<1> QED  BY <1>1, <1>2, <1>3, <1>4, <1>5, <1>6, <1>7, <1>8, <1>9 DEF ClientNext

(* The client sees every log in the order of its batches, over all         *)
(* connections, failures and restarts, and leaves a gap only in a step     *)
(* that reports an error: missed entity events are processed in order      *)
(* (EventBusClientTest.ts:221, doc/events.md:11).  The batch that the      *)
(* cache writes next is the oldest one that is due, or was seen before.    *)
THEOREM ImplementsEventLog ==
    ASSUME ~Overlap
    PROVE  ClientSpec => ImplementsLog
<1>1. LogInv /\ [ClientNext]_clientVars => [Log!LogNext]_(Log!logVars)
  BY LogStepMaps
<1> QED  BY <1>1, LogInitMaps, LogAlways, PTL DEF ClientSpec, ImplementsLog, Log!LogSpec

(* What EventLog promises of itself: types and NoGaps are inductive, since *)
(* a batch is written only above all others, so that no gap can open below *)
(* one that was seen.                                                      *)
NoGapsInv == Log!LogTypeOK /\ Log!NoGaps

LEMMA NoGapsStep == NoGapsInv /\ [Log!LogNext]_(Log!logVars) => NoGapsInv'
<1> SUFFICES ASSUME NoGapsInv, [Log!LogNext]_(Log!logVars)
             PROVE  NoGapsInv'
  OBVIOUS
<1>1. PICK written : written = committed
  OBVIOUS
<1>2. PICK excused : excused = skipped \union givenUp
  OBVIOUS
<1>3. PICK after : after = committed'
  OBVIOUS
<1>4. PICK excusedAfter : excusedAfter = skipped' \union givenUp'
  OBVIOUS
<1> DEFINE seen == everHandled
           seenAfter == everHandled'
<1>5. /\ written \subseteq Log!LogBatch /\ seen \subseteq written /\ excused \subseteq written
      /\ \A b \in seen, c \in written : Log!Older(c, b) => c \in seen \union excused
  BY <1>1, <1>2 DEF NoGapsInv, Log!LogTypeOK, Log!NoGaps
<1> SUFFICES /\ after \subseteq Log!LogBatch /\ seenAfter \subseteq after /\ excusedAfter \subseteq after
             /\ \A d \in seenAfter, c \in after : Log!Older(c, d) => c \in seenAfter \union excusedAfter
  BY <1>3, <1>4 DEF NoGapsInv, Log!LogTypeOK, Log!NoGaps
<1>0. Log!Due = written \ (seen \union excused)
  BY <1>1, <1>2 DEF Log!Due
<1>6. ASSUME NEW b \in Log!LogBatch, Log!Write(b)
      PROVE  /\ after \subseteq Log!LogBatch /\ seenAfter \subseteq after /\ excusedAfter \subseteq after
             /\ \A d \in seenAfter, c \in after : Log!Older(c, d) => c \in seenAfter \union excusedAfter
  <2>1. /\ \A c \in written : c.id < b.id /\ c.id \in Nat /\ b.id \in Nat
        /\ after = written \union {b} /\ seenAfter = seen /\ excusedAfter = excused
    BY <1>1, <1>2, <1>3, <1>4, <1>5, <1>6, ClientAssumption DEF Log!Write, Log!LogBatch, Ids
  <2>2. \A d \in seen : ~Log!Older(b, d)
    BY <1>5, <2>1 DEF Log!Older
  <2> QED  BY <1>5, <1>6, <2>1, <2>2
<1>7. ASSUME NEW b \in Log!LogBatch, Log!WriteForOthers(b)
      PROVE  /\ after \subseteq Log!LogBatch /\ seenAfter \subseteq after /\ excusedAfter \subseteq after
             /\ \A d \in seenAfter, c \in after : Log!Older(c, d) => c \in seenAfter \union excusedAfter
  <2>1. /\ after = written \union {b} /\ seenAfter = seen /\ excusedAfter = excused \union {b}
    BY <1>1, <1>2, <1>3, <1>4, <1>7 DEF Log!WriteForOthers
  <2> QED  BY <1>5, <1>7, <2>1
<1>8. ASSUME NEW b \in Log!LogBatch, Log!See(b)
      PROVE  /\ after \subseteq Log!LogBatch /\ seenAfter \subseteq after /\ excusedAfter \subseteq after
             /\ \A d \in seenAfter, c \in after : Log!Older(c, d) => c \in seenAfter \union excusedAfter
  <2>1. /\ b \in written /\ \A c \in written \ (seen \union excused) : ~Log!Older(c, b)
        /\ after = written /\ seenAfter = seen \union {b} /\ excusedAfter = excused
    BY <1>0, <1>1, <1>2, <1>3, <1>4, <1>8 DEF Log!See
  <2> QED  BY <1>5, <2>1
<1>9. ASSUME NEW g \in Group, Log!StartAtEnd(g)
      PROVE  /\ after \subseteq Log!LogBatch /\ seenAfter \subseteq after /\ excusedAfter \subseteq after
             /\ \A d \in seenAfter, c \in after : Log!Older(c, d) => c \in seenAfter \union excusedAfter
  <2>1. /\ after = written /\ seenAfter = seen
        /\ excusedAfter = excused \union {b \in written : b.group = g}
    BY <1>1, <1>2, <1>3, <1>4, <1>9 DEF Log!StartAtEnd
  <2> QED  BY <1>5, <2>1
<1>10. ASSUME NEW missing \in SUBSET Log!Due, Log!Report(missing)
      PROVE  /\ after \subseteq Log!LogBatch /\ seenAfter \subseteq after /\ excusedAfter \subseteq after
             /\ \A d \in seenAfter, c \in after : Log!Older(c, d) => c \in seenAfter \union excusedAfter
  <2>1. /\ after = written /\ seenAfter = seen /\ excusedAfter = excused \union missing
        /\ missing \subseteq written
    BY <1>0, <1>1, <1>2, <1>3, <1>4, <1>10 DEF Log!Report
  <2> QED  BY <1>5, <2>1
<1>11. CASE UNCHANGED Log!logVars
  <2>1. after = written /\ seenAfter = seen /\ excusedAfter = excused
    BY <1>1, <1>2, <1>3, <1>4, <1>11 DEF Log!logVars
  <2> QED  BY <1>5, <2>1
<1> QED  BY <1>6, <1>7, <1>8, <1>9, <1>10, <1>11 DEF Log!LogNext

(* Whatever fails, the client applies no batch while an older one of its   *)
(* group is due, that is, neither of no concern nor reported missing       *)
(* (doc/events.md:11). This is read off EventLog, which it implements.     *)
THEOREM SeenWithoutGaps ==
    ASSUME ~Overlap
    PROVE  ClientSpec => []Log!NoGaps
<1>1. Log!LogInit => NoGapsInv
  BY DEF Log!LogInit, NoGapsInv, Log!LogTypeOK, Log!NoGaps
<1>2. NoGapsInv /\ [Log!LogNext]_(Log!logVars) => NoGapsInv'
  BY NoGapsStep
<1>3. NoGapsInv => Log!NoGaps
  BY DEF NoGapsInv
<1> QED  BY <1>1, <1>2, <1>3, ImplementsEventLog, PTL DEF ImplementsLog, Log!LogSpec
-----------------------------------------------------------------------------
(* THIRD INVARIANT: the ids of what was added increase and are found       *)
(* again. The array of ids first.                                          *)

(* In an array that increases, what is in it is found, and what is bigger  *)
(* than all of it belongs to the end.                                      *)
Increasing(s) == \A j, k \in 1..Len(s) : j < k => s[j] < s[k]

LEMMA SizeOfWindow ==
    ASSUME NEW s, Len(s) \in Nat, NEW w \in Windows(s)
    PROVE  w[1] \in Nat /\ w[2] \in Int /\ Size(w) \in Int /\ Size(w) <= Len(s) /\ w[1] <= Len(s)
           /\ w[2] <= Len(s) - 1
  BY DEF Windows, Size

LEMMA ThereIsFound ==
    ASSUME NEW s \in Seq(Nat), Increasing(s), NEW p \in 1..Len(s)
    PROVE  BinarySearch(s, s[p]) >= 0
<1>0. Len(s) \in Nat /\ \A k \in 1..Len(s) : s[k] \in Nat
  OBVIOUS
<1>1. PICK x \in Nat : x = s[p]
  BY <1>0
<1>2. PICK f : Searches(f, s, x) /\ BinarySearch(s, x) = f[<<0, Len(s) - 1>>]
  BY <1>0, BinarySearchUnfolds
<1> DEFINE Holds(w) == p - 1 \in w[1]..w[2]
           Bad == {n \in Nat : \E w \in Windows(s) : Size(w) <= n /\ Holds(w) /\ ~(f[w] >= 0)}
<1>3. Bad = {}
  <2> SUFFICES ASSUME NEW n \in Bad, \A k \in Bad : n <= k PROVE FALSE
    BY LeastNumber
  <2>1. PICK w \in Windows(s) : Size(w) <= n /\ Holds(w) /\ ~(f[w] >= 0)
    OBVIOUS
  <2>2. f[w] = Body(s, x, f, w) /\ w[1] \in Nat /\ w[2] \in Int /\ Size(w) \in Int
    BY <1>0, <1>2, SizeOfWindow DEF Searches
  <2>3. w[1] <= w[2]
    BY <2>1, <2>2
  <2>4. /\ Upper(w) \in Windows(s) /\ Size(Upper(w)) < Size(w)
        /\ Lower(w) \in Windows(s) /\ Size(Lower(w)) < Size(w)
        /\ Mid(w) \in Nat /\ Mid(w) + 1 \in 1..Len(s)
    BY <1>0, <2>2, <2>3, WindowsShrink
  <2>5. n - 1 \in Nat /\ n - 1 \notin Bad
    <3>1. Size(w) >= 1
      BY <2>2, <2>3 DEF Size
    <3>2. n \in Nat /\ n >= 1 /\ \A k \in Bad : n <= k
      BY <2>1, <2>2, <3>1
    <3> HIDE DEF Bad
    <3> QED  BY <3>2
  <2>6. ASSUME NEW v \in Windows(s), Size(v) < Size(w), Holds(v) PROVE f[v] >= 0
    <3>1. Size(v) \in Int
      BY <1>0, SizeOfWindow
    <3>2. Size(v) <= n - 1
      BY <2>1, <2>2, <2>6, <3>1
    <3> QED  BY <2>5, <2>6, <3>2
  <2>7. PICK m \in 1..Len(s) : m = Mid(w) + 1
    BY <2>4
  <2>8. CASE x > s[m]
    <3>1. p > m
      BY <1>0, <1>1, <2>8 DEF Increasing
    <3>2. Holds(Upper(w))
      BY <2>1, <2>2, <2>4, <2>7, <3>1 DEF Upper
    <3>3. f[w] = f[Upper(w)]
      BY <2>2, <2>3, <2>7, <2>8 DEF Body
    <3> QED  BY <2>1, <2>4, <2>6, <3>2, <3>3
  <2>9. CASE x < s[m]
    <3>1. p < m
      BY <1>0, <1>1, <2>9 DEF Increasing
    <3>2. Holds(Lower(w))
      BY <2>1, <2>2, <2>4, <2>7, <3>1 DEF Lower
    <3>3. ~(x > s[m])
      BY <1>0, <2>9
    <3>4. f[w] = f[Lower(w)]
      BY <2>2, <2>3, <2>7, <2>9, <3>3 DEF Body
    <3> QED  BY <2>1, <2>4, <2>6, <3>2, <3>4
  <2>10. CASE x = s[m]
    <3>1. ~(x > s[m]) /\ ~(x < s[m])
      BY <1>0, <2>10
    <3>2. f[w] = Mid(w)
      BY <2>2, <2>3, <2>7, <3>1 DEF Body
    <3> QED  BY <2>1, <2>4, <3>2
  <2> QED  BY <1>0, <2>8, <2>9, <2>10
<1>4. PICK v \in Windows(s) : v = <<0, Len(s) - 1>>
  <2>1. <<0, Len(s) - 1>> \in Windows(s)
    BY <1>0 DEF Windows
  <2> QED  BY <2>1
<1>5. Size(v) <= Len(s) /\ Holds(v)
  BY <1>0, <1>4 DEF Size
<1>6. f[v] >= 0
  BY <1>0, <1>3, <1>5
<1> QED  BY <1>1, <1>2, <1>4, <1>6

LEMMA BiggerIsLast ==
    ASSUME NEW s \in Seq(Nat), NEW x \in Nat, \A k \in 1..Len(s) : s[k] < x
    PROVE  BinarySearch(s, x) = -Len(s) - 1
<1>0. Len(s) \in Nat /\ \A k \in 1..Len(s) : s[k] \in Nat
  OBVIOUS
<1>1. PICK f : Searches(f, s, x) /\ BinarySearch(s, x) = f[<<0, Len(s) - 1>>]
  BY <1>0, BinarySearchUnfolds
<1> DEFINE Holds(w) == w[2] = Len(s) - 1
           Bad == {n \in Nat : \E w \in Windows(s) : Size(w) <= n /\ Holds(w) /\ f[w] # -Len(s) - 1}
<1>2. Bad = {}
  <2> SUFFICES ASSUME NEW n \in Bad, \A k \in Bad : n <= k PROVE FALSE
    BY LeastNumber
  <2>1. PICK w \in Windows(s) : Size(w) <= n /\ Holds(w) /\ f[w] # -Len(s) - 1
    OBVIOUS
  <2>2. f[w] = Body(s, x, f, w) /\ w[1] \in Nat /\ w[2] \in Int /\ Size(w) \in Int /\ w[1] <= Len(s)
    BY <1>0, <1>1, SizeOfWindow DEF Searches
  <2>3. w[1] <= w[2]
    <3>1. CASE w[1] > w[2]
      <4>1. w[1] = Len(s)
        BY <1>0, <2>1, <2>2, <3>1
      <4>2. f[w] = -w[1] - 1
        BY <2>2, <3>1 DEF Body
      <4> QED  BY <2>1, <4>1, <4>2
    <3> QED  BY <2>2, <3>1
  <2>4. /\ Upper(w) \in Windows(s) /\ Size(Upper(w)) < Size(w)
        /\ Mid(w) \in Nat /\ Mid(w) + 1 \in 1..Len(s)
    BY <1>0, <2>2, <2>3, WindowsShrink
  <2>5. n - 1 \in Nat /\ n - 1 \notin Bad
    <3>1. Size(w) >= 1
      BY <2>2, <2>3 DEF Size
    <3>2. n \in Nat /\ n >= 1 /\ \A k \in Bad : n <= k
      BY <2>1, <2>2, <3>1
    <3> HIDE DEF Bad
    <3> QED  BY <3>2
  <2>6. Holds(Upper(w))
    BY <2>1 DEF Upper
  <2>7. f[Upper(w)] = -Len(s) - 1
    <3>1. Size(Upper(w)) \in Int
      BY <1>0, <2>4, SizeOfWindow
    <3>2. Size(Upper(w)) <= n - 1
      BY <2>1, <2>2, <2>4, <3>1
    <3> QED  BY <2>4, <2>5, <2>6, <3>2
  <2>8. x > s[Mid(w) + 1]
    BY <1>0, <2>4
  <2>9. f[w] = f[Upper(w)]
    BY <2>2, <2>3, <2>8 DEF Body
  <2> QED  BY <2>1, <2>7, <2>9
<1>3. PICK v \in Windows(s) : v = <<0, Len(s) - 1>>
  <2>1. <<0, Len(s) - 1>> \in Windows(s)
    BY <1>0 DEF Windows
  <2> QED  BY <2>1
<1>4. Size(v) <= Len(s) /\ Holds(v)
  BY <1>0, <1>3 DEF Size
<1>5. f[v] = -Len(s) - 1
  BY <1>0, <1>2, <1>4
<1> QED  BY <1>1, <1>3, <1>5

(* What binarySearch tells of an array of ids that increases: it finds     *)
(* exactly the ids that are there, and an id that is newer than all of     *)
(* them belongs to the end (EventBusClient.ts:590-618).                    *)
THEOREM SearchFindsIds ==
    ASSUME NEW s \in Seq(Nat), Increasing(s), NEW x \in Nat
    PROVE  /\ BinarySearch(s, x) >= 0 <=> x \in Range(s)
           /\ (\A k \in 1..Len(s) : s[k] < x) => BinarySearch(s, x) = -Len(s) - 1
<1>1. ASSUME BinarySearch(s, x) >= 0 PROVE x \in Range(s)
  <2>1. PICK k \in 1..Len(s) : s[k] = x
    BY <1>1, FoundIsThere
  <2> QED  BY <2>1, ElementIn
<1>2. ASSUME x \in Range(s) PROVE BinarySearch(s, x) >= 0
  <2>1. PICK k \in 1..Len(s) : s[k] = x
    BY <1>2 DEF Range
  <2> QED  BY <2>1, ThereIsFound
<1> QED  BY <1>1, <1>2, BiggerIsLast

(* An increasing array of small numbers is short. *)
LEMMA IncreasingIsShort ==
    ASSUME NEW s \in Seq(Nat), Increasing(s), NEW p \in 1..Len(s)
    PROVE  s[p] >= s[1] + p - 1
<1>0. Len(s) \in Nat /\ \A k \in 1..Len(s) : s[k] \in Nat
  OBVIOUS
<1> DEFINE Bad == {k \in 1..Len(s) : ~(s[k] >= s[1] + k - 1)}
<1>1. Bad = {}
  <2> SUFFICES ASSUME NEW n \in Bad, \A k \in Bad : n <= k PROVE FALSE
    <3>1. Bad \in SUBSET Nat
      BY <1>0
    <3> HIDE DEF Bad
    <3> QED  BY <3>1, LeastNumber
  <2>1. n \in 1..Len(s) /\ ~(s[n] >= s[1] + n - 1) /\ 1 \in 1..Len(s) /\ s[1] \in Nat /\ s[n] \in Nat
    BY <1>0
  <2>2. n # 1
    BY <2>1
  <2>3. n - 1 \in 1..Len(s) /\ n - 1 \notin Bad
    <3>1. \A k \in Bad : n <= k
      OBVIOUS
    <3> HIDE DEF Bad
    <3> QED  BY <1>0, <2>1, <2>2, <3>1
  <2>4. s[n - 1] >= s[1] + (n - 1) - 1 /\ s[n - 1] < s[n] /\ s[n - 1] \in Nat
    BY <1>0, <2>1, <2>3 DEF Increasing
  <2> QED  BY <2>1, <2>4
<1> QED  BY <1>1

(* A batch is in the ids once it was added, and it is added once: until it *)
(* was processed it waits in the queue, however often that fails.          *)
IdsOK(ids) ==
    /\ ids \in [Group -> Seq(0..Newest)]
    /\ \A g \in Group : Increasing(ids[g])

Distinct(q) ==
    /\ \A j, k \in 1..Len(q) : q[j] = q[k] => j = k
    /\ \A k \in 1..Len(q) : q[k] \notin Range(handled)

OnceOK(st) ==
    /\ IdsOK(st.ids)
    /\ st.queue \in Seq(committed)
    /\ Distinct(st.queue)
    /\ \A b \in Range(handled) \union Range(st.queue) : b.id \in Range(st.ids[b.group])

(* The batch is among the ids of its group or newer than all of them.      *)
Fits(b, ids) == b.id \in Range(ids[b.group]) \/ b.id > LastOf(ids[b.group])

(* What a batch changes in the ids.                                        *)
LastMoves(old, new, S) ==
    \A g \in Group : \/ LastOf(new[g]) = LastOf(old[g])
                     \/ \E b \in S : b.group = g /\ LastOf(new[g]) = b.id
IdsKept(old, new) == \A g \in Group : \A id \in Range(old[g]) : id # MinId => id \in Range(new[g])

Above(x, s) == \A k \in 1..Len(s) : s[k] < x
IsAppended(r, s, x) == r = Append(s, x)

LEMMA IncreasingAppend ==
    ASSUME NEW n \in Nat, NEW s \in Seq(0..n), Increasing(s), NEW x \in 0..n, Above(x, s),
           NEW r, IsAppended(r, s, x)
    PROVE  r \in Seq(0..n) /\ Increasing(r) /\ LastOf(r) = x /\ Range(r) = Range(s) \union {x}
<1>1. Len(s) \in Nat /\ \A k \in 1..Len(s) : s[k] \in 0..n
  OBVIOUS
<1>2. \A k \in 1..Len(s) : s[k] < x
  BY DEF Above
<1>3. /\ r \in Seq(0..n) /\ Len(r) = Len(s) + 1 /\ r[Len(s) + 1] = x /\ r # << >>
      /\ \A k \in 1..Len(s) : r[k] = s[k]
  BY DEF IsAppended
<1>4. Increasing(r)
  <2> SUFFICES ASSUME NEW j \in 1..Len(r), NEW k \in 1..Len(r), j < k PROVE r[j] < r[k]
    BY DEF Increasing
  <2>1. j \in 1..Len(s) /\ r[j] = s[j]
    BY <1>1, <1>3
  <2>2. CASE k = Len(s) + 1
    BY <1>2, <1>3, <2>1, <2>2
  <2>3. CASE k # Len(s) + 1
    <3>1. Len(r) = Len(s) + 1 /\ Len(s) \in Nat
      BY <1>3
    <3>2. k \in 1..Len(s)
      BY <2>3, <3>1
    <3>3. r[k] = s[k]
      BY <1>3, <3>2
    <3> QED  BY <2>1, <3>2, <3>3 DEF Increasing
  <2> QED  BY <2>2, <2>3
<1>5. Range(r) = Range(s) \union {x}
  BY ExtendsAppend DEF IsAppended
<1> QED  BY <1>3, <1>4, <1>5 DEF LastOf

(* The cap drops at most the id with which the array began, which is of no *)
(* batch.                                                                  *)
LEMMA CapDropsNoBatch ==
    ASSUME NEW n \in Nat, n <= MaxEventIds, NEW s \in Seq(0..n), Increasing(s)
    PROVE  /\ Capped(s) \in Seq(0..n) /\ Increasing(Capped(s))
           /\ LastOf(Capped(s)) = LastOf(s)
           /\ \A id \in Range(s) : id # MinId => id \in Range(Capped(s))
<1>1. CASE Len(s) > MaxEventIds
  <2>1. MaxEventIds \in Nat \ {0} /\ Len(s) \in Nat /\ Len(s) >= 2 /\ Len(s) \in 1..Len(s) /\ 1 \in 1..Len(s)
    BY <1>1, ClientAssumption
  <2>2. \A k \in 1..Len(s) : s[k] \in 0..n
    OBVIOUS
  <2>3. s \in Seq(Nat)
    <3>1. 0..n \subseteq Nat
      OBVIOUS
    <3> QED  BY <3>1, SequenceGrows
  <2>4. s[Len(s)] >= s[1] + Len(s) - 1
    BY <2>1, <2>3, IncreasingIsShort
  <2>5. s[1] = 0
    BY <1>1, <2>1, <2>2, <2>4
  <2>6. PICK t : t = Tail(s)
    OBVIOUS
  <2>7. s # << >>
    BY <2>1
  <2>8. /\ t \in Seq(0..n) /\ Len(t) = Len(s) - 1
        /\ \A k \in 1..(Len(s) - 1) : t[k] = s[k + 1]
        /\ Range(s) = Range(t) \union {s[1]}
    BY <2>6, <2>7, TailElements
  <2>9. Increasing(t)
    <3> SUFFICES ASSUME NEW j \in 1..Len(t), NEW k \in 1..Len(t), j < k PROVE t[j] < t[k]
      BY DEF Increasing
    <3>1. j + 1 \in 1..Len(s) /\ k + 1 \in 1..Len(s) /\ j + 1 < k + 1 /\ t[j] = s[j + 1] /\ t[k] = s[k + 1]
      BY <2>1, <2>8
    <3> QED  BY <3>1 DEF Increasing
  <2>10. LastOf(t) = LastOf(s)
    <3>1. t # << >> /\ Len(t) \in 1..(Len(s) - 1) /\ Len(t) + 1 = Len(s)
      BY <2>1, <2>8
    <3>2. t[Len(t)] = s[Len(s)]
      BY <2>8, <3>1
    <3> QED  BY <2>7, <3>1, <3>2 DEF LastOf
  <2>11. Capped(s) = t
    BY <1>1, <2>6 DEF Capped
  <2> QED  BY <2>5, <2>8, <2>9, <2>10, <2>11 DEF MinId
<1>2. CASE ~(Len(s) > MaxEventIds)
  BY <1>2 DEF Capped
<1> QED  BY <1>1, <1>2

LEMMA LastOfIncreasing ==
    ASSUME NEW n \in Nat, NEW s \in Seq(0..n), Increasing(s), NEW x \in Nat, x > LastOf(s)
    PROVE  /\ s # << >> => x > s[Len(s)]
           /\ \A k \in 1..Len(s) : s[k] < x
<1>1. Len(s) \in Nat /\ \A k \in 1..Len(s) : s[k] \in 0..n
  OBVIOUS
<1>2. s # << >> => Len(s) \in 1..Len(s) /\ LastOf(s) = s[Len(s)]
  BY <1>1 DEF LastOf
<1>3. ASSUME NEW k \in 1..Len(s) PROVE s[k] < x
  <2>1. s # << >>
    BY <1>1
  <2>2. k = Len(s) \/ s[k] < s[Len(s)]
    BY <1>1, <1>2, <2>1 DEF Increasing
  <2> QED  BY <1>1, <1>2, <2>1, <2>2
<1> QED  BY <1>2, <1>3

(* Without the queue: what addBatch does with an array of ids.             *)
LEMMA IdIsAdded ==
    ASSUME NEW n \in Nat, n <= MaxEventIds, NEW s \in Seq(0..n), Increasing(s), NEW x \in 1..n,
           x \in Range(s) \/ x > LastOf(s), NEW index, index = BinarySearch(s, x),
           NEW r, r = IF index < 0 THEN Capped(Splice(s, -index, x)) ELSE Capped(s)
    PROVE  /\ r \in Seq(0..n) /\ Increasing(r) /\ x \in Range(r)
           /\ \A id \in Range(s) : id # MinId => id \in Range(r)
           /\ LastOf(r) \in {LastOf(s), x}
           /\ index < 0 <=> x \notin Range(s)
<1>1. s \in Seq(Nat) /\ x \in Nat
  <2>1. 0..n \subseteq Nat
    OBVIOUS
  <2> QED  BY <2>1, SequenceGrows
<1>2. CASE x \in Range(s)
  <2>1. PICK p \in 1..Len(s) : s[p] = x
    BY <1>1, <1>2 DEF Range
  <2>2. BinarySearch(s, s[p]) >= 0
    BY <1>1, ThereIsFound
  <2>3. index \in Int
    BY <1>1, FoundIsThere
  <2>4. ~(index < 0)
    BY <2>1, <2>2, <2>3
  <2>5. r = Capped(s)
    BY <2>4
  <2>6. /\ r \in Seq(0..n) /\ Increasing(r) /\ LastOf(r) = LastOf(s)
        /\ \A id \in Range(s) : id # MinId => id \in Range(r)
    BY <2>5, CapDropsNoBatch
  <2>7. x # MinId
    BY DEF MinId
  <2> QED  BY <1>2, <2>4, <2>6, <2>7
<1>3. CASE x \notin Range(s)
  <2>1. (s # << >> => x > s[Len(s)]) /\ \A k \in 1..Len(s) : s[k] < x
    BY <1>1, <1>3, LastOfIncreasing
  <2>2. index = -Len(s) - 1
    BY <1>1, <2>1, BiggerIsLast
  <2>3. Len(s) \in Nat
    OBVIOUS
  <2>4. index < 0 /\ -index = Len(s) + 1
    BY <2>2, <2>3
  <2>5. PICK t : t = Append(s, x)
    OBVIOUS
  <2>6. Splice(s, -index, x) = t
    BY <2>3, <2>4, <2>5 DEF Splice
  <2>7. r = Capped(t)
    BY <2>4, <2>6
  <2>8. x \in 0..n
    OBVIOUS
  <2>9. t \in Seq(0..n) /\ Increasing(t) /\ LastOf(t) = x /\ Range(t) = Range(s) \union {x}
    <3>1. Above(x, s) /\ IsAppended(t, s, x)
      BY <2>1, <2>5 DEF Above, IsAppended
    <3> QED  BY <2>8, <3>1, IncreasingAppend
  <2>10. /\ r \in Seq(0..n) /\ Increasing(r) /\ LastOf(r) = LastOf(t)
         /\ \A id \in Range(t) : id # MinId => id \in Range(r)
    BY <2>7, <2>9, CapDropsNoBatch
  <2>11. x # MinId
    BY DEF MinId
  <2> QED  BY <1>3, <2>4, <2>9, <2>10, <2>11
<1> QED  BY <1>2, <1>3

LEMMA DistinctAppend ==
    ASSUME NEW q \in Seq(committed), Distinct(q), NEW b \in committed, b \notin Range(q), b \notin Range(handled),
           NEW r, r = Append(q, b)
    PROVE  r \in Seq(committed) /\ Distinct(r) /\ Range(r) = Range(q) \union {b}
<1>1. Len(q) \in Nat /\ \A k \in 1..Len(q) : q[k] \in Range(q) /\ q[k] # b
  BY ElementIn
<1>2. r \in Seq(committed) /\ Range(r) = Range(q) \union {b}
  BY ExtendsAppend
<1>3. Len(r) = Len(q) + 1 /\ r[Len(q) + 1] = b
  OBVIOUS
<1>4. \A k \in 1..Len(q) : r[k] = q[k]
  OBVIOUS
<1>5. \A k \in 1..Len(r) : k = Len(q) + 1 \/ k \in 1..Len(q)
  BY <1>1, <1>3
<1>6. ASSUME NEW j \in 1..Len(r), NEW k \in 1..Len(r), r[j] = r[k] PROVE j = k
  BY <1>1, <1>3, <1>4, <1>5, <1>6 DEF Distinct
<1>7. ASSUME NEW k \in 1..Len(r) PROVE r[k] \notin Range(handled)
  BY <1>3, <1>4, <1>5, <1>7 DEF Distinct
<1> QED  BY <1>2, <1>6, <1>7 DEF Distinct

LEMMA AddBatchOnce ==
    ASSUME LogInv, Newest <= MaxEventIds, known = Group, NEW st, OnceOK(st), NEW b \in committed,
           Fits(b, st.ids), handled \in Seq(committed), NEW new, new = AddBatch(st, b)
    PROVE  /\ OnceOK(new)
           /\ LastMoves(st.ids, new.ids, {b})
           /\ IdsKept(st.ids, new.ids)
           /\ b.id \in Range(new.ids[b.group])
           /\ Len(st.queue) <= Len(new.queue)
<1>1. PICK s : s = st.ids[b.group]
  OBVIOUS
<1>2. PICK x : x = b.id
  OBVIOUS
<1>3. PICK n : n = Newest
  OBVIOUS
<1>4. x \in 1..n /\ n \in Nat /\ n <= MaxEventIds /\ b.group \in Group
  BY <1>2, <1>3, IdOfCommitted
<1>5. PICK index : index = BinarySearch(s, x)
  OBVIOUS
<1>6. PICK r : r = IF index < 0 THEN Capped(Splice(s, -index, x)) ELSE Capped(s)
  OBVIOUS
<1>7. /\ new.ids = [st.ids EXCEPT ![b.group] = r]
      /\ new.queue = IF index < 0 THEN Append(st.queue, b) ELSE st.queue
  BY <1>1, <1>2, <1>4, <1>5, <1>6 DEF AddBatch
<1>8. st.ids \in [Group -> Seq(0..n)] /\ (\A g \in Group : Increasing(st.ids[g]))
      /\ s \in Seq(0..n) /\ Increasing(s)
  BY <1>1, <1>3, <1>4 DEF OnceOK, IdsOK
<1>9. x \in Range(s) \/ x > LastOf(s)
  BY <1>1, <1>2 DEF Fits
<1>10. /\ r \in Seq(0..n) /\ Increasing(r) /\ x \in Range(r)
       /\ \A id \in Range(s) : id # MinId => id \in Range(r)
       /\ LastOf(r) \in {LastOf(s), x}
       /\ index < 0 <=> x \notin Range(s)
  BY <1>4, <1>5, <1>6, <1>8, <1>9, IdIsAdded
<1>11. \A g \in Group : new.ids[g] = IF g = b.group THEN r ELSE st.ids[g]
  BY <1>4, <1>7, <1>8
<1>12. IdsOK(new.ids)
  <2>1. new.ids \in [Group -> Seq(0..n)]
    BY <1>4, <1>7, <1>8, <1>10
  <2> QED  BY <1>3, <1>8, <1>10, <1>11, <2>1 DEF IdsOK
<1>13. LastMoves(st.ids, new.ids, {b})
  BY <1>1, <1>2, <1>10, <1>11 DEF LastMoves
<1>14. IdsKept(st.ids, new.ids)
  BY <1>1, <1>10, <1>11 DEF IdsKept
<1>15. b.id \in Range(new.ids[b.group])
  BY <1>2, <1>4, <1>10, <1>11
<1>16. new.queue \in Seq(committed) /\ Distinct(new.queue) /\ Range(new.queue) \subseteq Range(st.queue) \union {b}
  <2>1. CASE index < 0
    <3>1. b \notin Range(st.queue) /\ b \notin Range(handled)
      BY <1>1, <1>2, <1>10, <2>1 DEF OnceOK
    <3>2. new.queue = Append(st.queue, b) /\ st.queue \in Seq(committed) /\ Distinct(st.queue)
      BY <1>7, <2>1 DEF OnceOK
    <3> QED  BY <3>1, <3>2, DistinctAppend
  <2>2. CASE ~(index < 0)
    BY <1>7, <2>2 DEF OnceOK
  <2> QED  BY <2>1, <2>2
<1>17. ASSUME NEW c \in Range(handled) \union Range(new.queue) PROVE c.id \in Range(new.ids[c.group])
  <2>1. CASE c = b
    BY <1>15, <2>1
  <2>2. CASE c # b
    <3>1. c \in Range(handled) \union Range(st.queue) /\ c \in committed
      BY <1>16, <1>17, <2>2, RangeIn
    <3>2. c.id \in Range(st.ids[c.group]) /\ c.group \in Group /\ c.id # MinId
      BY <3>1, IdOfCommitted DEF OnceOK, MinId
    <3> QED  BY <1>14, <3>2 DEF IdsKept
  <2> QED  BY <2>1, <2>2
<1>18. Len(st.queue) <= Len(new.queue)
  <2>1. st.queue \in Seq(committed)
    BY DEF OnceOK
  <2> QED  BY <1>7, <2>1
<1> QED  BY <1>12, <1>13, <1>14, <1>15, <1>16, <1>17, <1>18 DEF OnceOK

LEMMA LastMovesOn ==
    ASSUME NEW old, NEW mid, NEW new, NEW S, NEW b, LastMoves(old, mid, S), LastMoves(mid, new, {b})
    PROVE  LastMoves(old, new, S \union {b})
  BY DEF LastMoves

LEMMA AddAllOnce ==
    ASSUME LogInv, Newest <= MaxEventIds, known = Group, OnceOK(Start), handled \in Seq(committed),
           NEW q \in Seq(committed), Ascending(q), \A k \in 1..Len(q) : Fits(q[k], lastIds),
           NEW new, new = AddAll(q)
    PROVE  /\ OnceOK(new)
           /\ LastMoves(lastIds, new.ids, Range(q))
           /\ IdsKept(lastIds, new.ids)
           /\ \A b \in Range(q) : b.id \in Range(new.ids[b.group])
           /\ Len(eventQueue) <= Len(new.queue)
<1>0. Len(q) \in Nat /\ \A k \in 1..Len(q) : q[k] \in committed /\ q[k] \in Range(q)
  BY ElementIn
<1>1. PICK f : /\ AddAll(q) = f[Len(q)]
               /\ f[0] = Start
               /\ \A n \in 1..Len(q) : f[n] = AddBatch(f[n - 1], q[n])
  BY <1>0, AddAllUnfolds
<1>2. Start.ids = lastIds /\ Start.queue = eventQueue /\ Len(eventQueue) \in Nat
  BY DEF Start, OnceOK
<1> DEFINE Before(n) == {q[k] : k \in 1..n}
           Keeps(st, n) ==
             /\ OnceOK(st)
             /\ LastMoves(lastIds, st.ids, Before(n))
             /\ IdsKept(lastIds, st.ids)
             /\ \A b \in Before(n) : b.id \in Range(st.ids[b.group])
             /\ Len(eventQueue) <= Len(st.queue)
           Bad == {n \in 0..Len(q) : ~Keeps(f[n], n)}
<1>3. Bad = {}
  <2> SUFFICES ASSUME NEW n \in Bad, \A k \in Bad : n <= k PROVE FALSE
    <3> HIDE DEF Keeps
    <3>1. Bad \in SUBSET Nat
      BY <1>0
    <3> HIDE DEF Bad
    <3> QED  BY <3>1, LeastNumber
  <2>1. n # 0
    <3>1. Before(0) = {}
      OBVIOUS
    <3> HIDE DEF Before
    <3>2. Keeps(Start, 0)
      BY <1>2, <3>1 DEF LastMoves, IdsKept
    <3> HIDE DEF Keeps
    <3> QED  BY <1>1, <3>2
  <2>2. n - 1 \in 0..Len(q) /\ n \in 1..Len(q) /\ n - 1 \notin Bad
    <3>1. n \in 0..Len(q)
      OBVIOUS
    <3> HIDE DEF Bad
    <3> QED  BY <2>1, <3>1
  <2>3. PICK st : st = f[n - 1]
    OBVIOUS
  <2>4. Keeps(st, n - 1)
    BY <2>2, <2>3
  <2>5. PICK b \in committed : b = q[n]
    BY <1>0, <2>2
  <2>6. PICK r : r = AddBatch(st, b)
    OBVIOUS
  <2>7. f[n] = r
    BY <1>1, <2>2, <2>3, <2>5, <2>6
  <2>8. b.group \in Group /\ b.id \in Nat /\ b.id # MinId
    BY IdOfCommitted DEF MinId
  <2>9. Fits(b, st.ids)
    <3>1. Fits(b, lastIds)
      BY <2>2, <2>5
    <3>2. CASE b.id \in Range(lastIds[b.group])
      BY <2>4, <2>8, <3>2 DEF IdsKept, Fits
    <3>3. CASE b.id > LastOf(lastIds[b.group])
      <4>1. CASE LastOf(st.ids[b.group]) = LastOf(lastIds[b.group])
        BY <3>3, <4>1 DEF Fits
      <4>2. CASE LastOf(st.ids[b.group]) # LastOf(lastIds[b.group])
        <5>1. LastMoves(lastIds, st.ids, Before(n - 1))
          BY <2>4
        <5>2. \E c \in Before(n - 1) : LastOf(st.ids[b.group]) = c.id
          <6> HIDE DEF Before, Keeps, Bad
          <6> QED  BY <2>8, <4>2, <5>1 DEF LastMoves
        <5>3. PICK k \in 1..(n - 1) : LastOf(st.ids[b.group]) = q[k].id
          BY <5>2
        <5>4. k \in 1..Len(q) /\ k < n
          BY <2>2, <5>3
        <5>5. q[k].id < b.id
          BY <2>2, <2>5, <5>4 DEF Ascending
        <5>6. q[k].id \in Nat
          BY <1>0, <5>4, IdOfCommitted
        <5> QED  BY <2>8, <5>3, <5>5, <5>6 DEF Fits
      <4> QED  BY <4>1, <4>2
    <3> QED  BY <3>1, <3>2, <3>3 DEF Fits
  <2>10. /\ OnceOK(r)
         /\ LastMoves(st.ids, r.ids, {b})
         /\ IdsKept(st.ids, r.ids)
         /\ b.id \in Range(r.ids[b.group])
         /\ Len(st.queue) <= Len(r.queue)
    BY <2>4, <2>6, <2>9, AddBatchOnce
  <2>11. Before(n) = Before(n - 1) \union {b}
    <3>1. \A k : k \in 1..n <=> k \in 1..(n - 1) \/ k = n
      BY <2>2
    <3> QED  BY <2>5, <3>1
  <2>12. \A c \in Before(n - 1) : c \in committed
    BY <1>0, <2>2
  <2> HIDE DEF Before
  <2>13. LastMoves(lastIds, r.ids, Before(n))
    <3>1. LastMoves(lastIds, st.ids, Before(n - 1)) /\ LastMoves(st.ids, r.ids, {b})
      BY <2>4, <2>10
    <3>2. PICK S : S = Before(n - 1)
      OBVIOUS
    <3>3. LastMoves(lastIds, r.ids, S \union {b})
      BY <3>1, <3>2, LastMovesOn
    <3> QED  BY <2>11, <3>2, <3>3
  <2>14. IdsKept(lastIds, r.ids)
    BY <2>4, <2>10 DEF IdsKept
  <2>15. ASSUME NEW c \in Before(n) PROVE c.id \in Range(r.ids[c.group])
    <3>1. CASE c = b
      BY <2>10, <3>1
    <3>2. CASE c # b
      <4>1. c \in Before(n - 1) /\ c \in committed
        BY <2>11, <2>12, <2>15, <3>2
      <4>2. c.group \in Group /\ c.id # MinId
        BY <4>1, IdOfCommitted DEF MinId
      <4> QED  BY <2>4, <2>10, <4>1, <4>2 DEF IdsKept
    <3> QED  BY <3>1, <3>2
  <2>16. Len(eventQueue) <= Len(r.queue)
    <3>1. Len(st.queue) \in Nat /\ Len(r.queue) \in Nat
      BY <2>4, <2>10 DEF OnceOK
    <3> QED  BY <1>2, <2>4, <2>10, <3>1
  <2>17. Keeps(r, n)
    BY <2>10, <2>13, <2>14, <2>15, <2>16
  <2> HIDE DEF Keeps
  <2> QED  BY <2>7, <2>17
<1>4. Keeps(f[Len(q)], Len(q))
  <2>1. Len(q) \in 0..Len(q)
    BY <1>0
  <2> HIDE DEF Keeps
  <2> QED  BY <1>3, <2>1
<1>5. Before(Len(q)) = Range(q)
  BY <1>0 DEF Range
<1> HIDE DEF Before
<1> QED  BY <1>1, <1>4, <1>5
-----------------------------------------------------------------------------
(* The invariant. Until the first initialization of a start has set the    *)
(* ids nothing is added (Fresh), and a message is among the ids or newer   *)
(* than all of them.                                                       *)

(* Nothing was added since the start.                                      *)
Fresh == handled = << >> /\ eventQueue = << >>

AddedOnce ==
    /\ Newest <= MaxEventIds
    /\ OnceOK(Start)
    /\ handled \in Seq(committed)
    /\ IsInjective(handled)

FirstInit ==
    \A c \in Connections : inits[c].phase # "none" =>
        /\ c = connections /\ messagesPaused
        /\ inits[c].phase \in {"retrieve", "load", "wait"} => Fresh

FreshInv ==
    /\ members = Group
    /\ known \in {{}, Group}
    /\ known # Group => Fresh /\ ~stray
    /\ mode \in {"login", "initial", "reconnect"}
    /\ mode = "login" => known = {} /\ conn = "down" /\ \A c \in Connections : inits[c].phase = "none"
    /\ mode # "reconnect" => FirstInit
    /\ mode = "initial" /\ conn = "connecting" => known = {}
    /\ cacheLast = [g \in Group |-> cacheLast[g]] /\ \A g \in Group : cacheLast[g] # None
    /\ Fresh => \A m \in Messages : cacheLast[m.group] < m.id

OnceInit(i) ==
    /\ i.phase = "retrieve" => Fresh /\ \A g \in Group \ i.todo : i.ids[g] = <<cacheLast[g]>>
    /\ i.phase = "load" /\ ~i.existing => Fresh
    /\ i.phase \in {"load", "add", "resume"} => known = Group
    /\ \A b \in i.loaded : b.id > LastOf(lastIds[b.group])
    /\ \A b \in i.loaded, d \in committed :
          Older(d, b) => d \in i.loaded \/ d.id <= LastOf(lastIds[b.group])
OnceInits == \A c \in Connections : OnceInit(inits[c])

(* A message is among the ids or newer than all of them.                   *)
MessagesOnce == \A m \in Messages : Fits(m, lastIds)

OnceInv == AddedOnce /\ FreshInv /\ OnceInits /\ MessagesOnce

(* If the first initialization fails before it has set the ids, a message  *)
(* that is added leaves a stray entry, and with it later connections take  *)
(* the ids for initialized: until a restart no group gets an entry.        *)
TrappedInits ==
    /\ \A c \in Connections : /\ inits[c].phase # "retrieve"
                              /\ inits[c].phase = "load" => inits[c].existing
    /\ \/ mode = "reconnect"
       \/ mode = "initial" /\ conn # "connecting" /\ \A c \in Connections : inits[c].phase = "none"

Trapped ==
    /\ members = Group /\ Newest <= MaxEventIds
    /\ cacheLast = [g \in Group |-> cacheLast[g]] /\ \A g \in Group : cacheLast[g] # None
    /\ known = {} /\ stray
    /\ TrappedInits
-----------------------------------------------------------------------------
LEMMA NothingWithoutGroups ==
    ASSUME LogInv, OnceInv, known = {}
    PROVE  Fresh
<1>1. CASE Group = {}
  <2>1. committed = {}
    BY <1>1, IdOfCommitted
  <2>2. handled \in Seq({}) /\ eventQueue \in Seq({})
    BY <2>1 DEF OnceInv, AddedOnce, LogInv, RestInv, QueueInv
  <2>3. \A s \in Seq({}) : s = << >>
    OBVIOUS
  <2> QED  BY <2>2, <2>3 DEF Fresh
<1>2. CASE Group # {}
  BY <1>2 DEF OnceInv, FreshInv
<1> QED  BY <1>1, <1>2

SameIds ==
    /\ UNCHANGED <<committed, members, lastIds, known, stray, eventQueue, handled, mode, connections,
                   cacheLast>>
    /\ Messages' \subseteq Messages

LEMMA AddedFrame ==
    ASSUME AddedOnce, UNCHANGED <<committed, lastIds, eventQueue, handled>>
    PROVE  AddedOnce'
<1>1. Newest' = Newest
  BY DEF Newest
<1>2. IdsOK(lastIds)'
  BY <1>1 DEF AddedOnce, OnceOK, Start, IdsOK
<1>3. Distinct(eventQueue)'
  BY DEF AddedOnce, OnceOK, Start, Distinct
<1>4. OnceOK(Start)'
  BY <1>2, <1>3 DEF AddedOnce, OnceOK, Start, IdsOK, Distinct
<1> QED  BY <1>1, <1>4 DEF AddedOnce

LEMMA OnceInitFrame ==
    ASSUME NEW i, OnceInit(i), SameIds
    PROVE  OnceInit(i)'
  BY DEF OnceInit, SameIds, Fresh

LEMMA OnceFrame ==
    ASSUME LogInv, OnceInv, SameIds,
           conn' \in {conn, "down"} \/ (conn = "connecting" /\ messagesPaused'),
           (messagesPaused => messagesPaused') \/ \A d \in Connections : mode # "reconnect" => inits'[d].phase = "none",
           \A d \in Connections : OnceInit(inits'[d]),
           \A d \in Connections : inits'[d].phase # "none" =>
               \/ /\ inits[d].phase # "none"
                  /\ inits'[d].phase \in {"retrieve", "load", "wait"} =>
                         inits[d].phase \in {"retrieve", "load", "wait"}
               \/ (d = connections /\ conn = "connecting" /\ messagesPaused')
    PROVE  OnceInv'
<1>1. AddedOnce'
  BY AddedFrame DEF OnceInv, SameIds
<1>2. MessagesOnce'
  BY DEF OnceInv, SameIds, MessagesOnce, Fits
<1>3. OnceInits'
  <2> SUFFICES ASSUME NEW d \in Connections PROVE OnceInit(inits[d])'
    BY DEF OnceInits
  <2>1. PICK i : i = inits'[d]
    OBVIOUS
  <2>2. OnceInit(i)'
    BY <2>1, OnceInitFrame
  <2> QED  BY <2>1, <2>2 DEF OnceInit
<1>4. FreshInv'
  <2>1. Fresh' = Fresh
    BY DEF SameIds, Fresh
  <2>2. ASSUME mode # "reconnect" PROVE FirstInit'
    <3>1. conn = "connecting" => Fresh
      BY <2>2, NothingWithoutGroups DEF OnceInv, FreshInv
    <3>2. FirstInit
      BY <2>2 DEF OnceInv, FreshInv
    <3>3. connections' = connections
      BY DEF SameIds
    <3> SUFFICES ASSUME NEW d \in Connections, inits'[d].phase # "none"
                 PROVE  /\ d = connections /\ messagesPaused'
                        /\ inits'[d].phase \in {"retrieve", "load", "wait"} => Fresh
      BY <2>1, <3>3 DEF FirstInit
    <3>4. messagesPaused => messagesPaused'
      BY <2>2
    <3>5. CASE d = connections /\ conn = "connecting" /\ messagesPaused'
      BY <3>1, <3>5
    <3>6. CASE /\ inits[d].phase # "none"
               /\ inits'[d].phase \in {"retrieve", "load", "wait"} =>
                      inits[d].phase \in {"retrieve", "load", "wait"}
      <4>1. /\ d = connections /\ messagesPaused
            /\ inits[d].phase \in {"retrieve", "load", "wait"} => Fresh
        BY <3>2, <3>6 DEF FirstInit
      <4> QED  BY <3>4, <3>6, <4>1
    <3> QED  BY <3>5, <3>6
  <2>3. ASSUME mode = "login" PROVE conn' = "down" /\ \A c \in Connections : inits'[c].phase = "none"
    BY <2>3 DEF OnceInv, FreshInv
  <2>4. mode' = "initial" /\ conn' = "connecting" => known' = {}
    BY DEF OnceInv, FreshInv, SameIds
  <2>5. Fresh' => \A m \in Messages' : cacheLast'[m.group] < m.id
    <3>1. \A m \in Messages : m.group \in Group
      <4>1. Messages \subseteq committed
        BY RangeIn DEF LogInv, RestInv, MessagesInv, Messages
      <4> QED  BY <4>1, IdOfCommitted
    <3> QED  BY <2>1, <3>1 DEF OnceInv, FreshInv, SameIds
  <2> QED  BY <2>1, <2>2, <2>3, <2>4, <2>5 DEF OnceInv, FreshInv, SameIds
<1> QED  BY <1>1, <1>2, <1>3, <1>4 DEF OnceInv
-----------------------------------------------------------------------------
(* The steps that add nothing.                                             *)

LEMMA LoseShrinks ==
    ASSUME Lose, UNCHANGED messageQueue
    PROVE  Messages' \subseteq Messages
<1>1. Range(channel') = {}
  BY DEF Lose, Range
<1> QED  BY <1>1 DEF Messages

LEMMA ConnectionLostOnce ==
    ASSUME LogInv, OnceInv, ConnectionLost
    PROVE  OnceInv'
<1>1. /\ UNCHANGED <<committed, members, lastIds, known, stray, eventQueue, handled, cacheLast, stage,
                     messageQueue, messagesPaused, inits>>
      /\ Lose /\ UNCHANGED <<mode, connections>> /\ conn' = "down"
  BY DEF ConnectionLost, Lose, serverVars, idVars, queueVars, cacheVars
<1>2. SameIds
  BY <1>1, LoseShrinks DEF SameIds
<1>3. \A d \in Connections : OnceInit(inits'[d]) /\ inits'[d] = inits[d]
  BY <1>1 DEF OnceInv, OnceInits
<1>4. conn' \in {conn, "down"} /\ (messagesPaused => messagesPaused')
  BY <1>1
<1>5. \A d \in Connections : OnceInit(inits'[d])
  BY <1>3
<1>6. \A d \in Connections : inits'[d].phase # "none" =>
          /\ inits[d].phase # "none"
          /\ inits'[d].phase \in {"retrieve", "load", "wait"} =>
                 inits[d].phase \in {"retrieve", "load", "wait"}
  BY <1>3
<1> QED  BY <1>2, <1>4, <1>5, <1>6, OnceFrame

LEMMA WaitsOnce ==
    ASSUME LogInv, OnceInv, \/ BatchUnavailable \/ BatchFails \/ RetryBatch \/ CacheWrites
                            \/ UNCHANGED clientVars
    PROVE  OnceInv'
<1>1. UNCHANGED <<committed, members, lastIds, known, stray, eventQueue, handled, cacheLast, mode,
                  connections, conn, channel, messageQueue, messagesPaused, inits>>
  BY DEF BatchUnavailable, BatchFails, RetryBatch, CacheWrites, clientVars, serverVars, connVars, idVars,
         queueVars, cacheVars
<1>2. SameIds
  BY <1>1 DEF SameIds, Messages
<1>3. \A d \in Connections : OnceInit(inits'[d]) /\ inits'[d] = inits[d]
  BY <1>1 DEF OnceInv, OnceInits
<1>4. conn' \in {conn, "down"} /\ (messagesPaused => messagesPaused')
  BY <1>1
<1>5. \A d \in Connections : OnceInit(inits'[d])
  BY <1>3
<1>6. \A d \in Connections : inits'[d].phase # "none" =>
          /\ inits[d].phase # "none"
          /\ inits'[d].phase \in {"retrieve", "load", "wait"} =>
                 inits[d].phase \in {"retrieve", "load", "wait"}
  BY <1>3
<1> QED  BY <1>2, <1>4, <1>5, <1>6, OnceFrame

(* A step of the initialization of connection c to n.                      *)
LEMMA InitStepOnce ==
    ASSUME LogInv, OnceInv, SameIds, NEW c \in Connections, NEW n,
           inits' = [inits EXCEPT ![c] = n], OnceInit(n),
           conn' \in {conn, "down"} \/ (conn = "connecting" /\ messagesPaused'),
           messagesPaused => messagesPaused',
           n.phase # "none" =>
               \/ /\ inits[c].phase # "none"
                  /\ n.phase \in {"retrieve", "load", "wait"} =>
                         inits[c].phase \in {"retrieve", "load", "wait"}
               \/ (c = connections /\ conn = "connecting" /\ messagesPaused')
    PROVE  OnceInv'
<1>1. inits'[c] = n /\ \A d \in Connections : d # c => inits'[d] = inits[d]
  BY DEF LogInv, LoadInv, InitsAreRecords
<1>2. \A d \in Connections : OnceInit(inits[d])
  BY DEF OnceInv, OnceInits
<1>3. ASSUME NEW d \in Connections PROVE OnceInit(inits'[d])
  BY <1>1, <1>2
<1>4. ASSUME NEW d \in Connections, inits'[d].phase # "none"
      PROVE  \/ /\ inits[d].phase # "none"
                /\ inits'[d].phase \in {"retrieve", "load", "wait"} =>
                       inits[d].phase \in {"retrieve", "load", "wait"}
             \/ (d = connections /\ conn = "connecting" /\ messagesPaused')
  BY <1>1, <1>4
<1> QED  BY <1>3, <1>4, OnceFrame

LEMMA EndedOnce ==
    ASSUME NEW i, i.phase \in {"none", "wait"}, i.loaded = {}
    PROVE  OnceInit(i)
  BY DEF OnceInit

(* initEntityEvents starts: with the ids it has, or before any was added.  *)
LEMMA StartOnce ==
    ASSUME LogInv, OnceInv, NEW c, StartInit(c), mode # "reconnect" => Fresh
    PROVE  \E n : /\ inits' = [inits EXCEPT ![c] = n] /\ OnceInit(n)
                  /\ n.phase \in {"load", "retrieve"} /\ messagesPaused' = TRUE
<1> DEFINE existing == mode = "reconnect" /\ (known # {} \/ stray)
           phase == IF existing THEN "load" ELSE "retrieve"
           i == [NoInit EXCEPT !.phase = phase, !.existing = existing, !.todo = members]
<1>1. inits' = [inits EXCEPT ![c] = i] /\ messagesPaused' = TRUE
  BY DEF StartInit
<1>2. /\ i.phase = phase /\ i.loaded = {} /\ i.todo = members /\ i.existing = existing
  BY DEF NoInit
<1>3. PICK n : n = i
  OBVIOUS
<1> HIDE DEF i
<1>4. CASE existing
  <2>1. known = Group
    BY <1>4 DEF OnceInv, FreshInv
  <2>2. n.phase = "load" /\ n.loaded = {} /\ n.existing
    BY <1>2, <1>3, <1>4
  <2>3. OnceInit(n)
    BY <2>1, <2>2 DEF OnceInit
  <2> QED  BY <1>1, <1>3, <2>2, <2>3
<1>5. CASE ~existing
  <2>1. Fresh
    BY <1>5, NothingWithoutGroups
  <2>2. n.phase = "retrieve" /\ n.loaded = {} /\ n.todo = Group
    BY <1>2, <1>3, <1>5 DEF OnceInv, FreshInv
  <2>3. OnceInit(n)
    BY <2>1, <2>2 DEF OnceInit
  <2> QED  BY <1>1, <1>3, <2>2, <2>3
<1> QED  BY <1>4, <1>5

LEMMA OpenOnce ==
    ASSUME LogInv, OnceInv, Open
    PROVE  OnceInv'
<1>1. /\ UNCHANGED <<committed, members, lastIds, known, stray, eventQueue, handled, cacheLast, mode,
                     connections, channel, messageQueue, stage>>
      /\ conn = "connecting" /\ conn' = "open" /\ StartInit(connections)
  BY DEF Open, serverVars, idVars, cacheVars
<1>2. connections \in Connections
  BY <1>1 DEF LogInv, LoadInv
<1>3. mode # "reconnect" => Fresh
  BY <1>1, NothingWithoutGroups DEF OnceInv, FreshInv
<1>4. PICK n : /\ inits' = [inits EXCEPT ![connections] = n] /\ OnceInit(n)
               /\ n.phase \in {"load", "retrieve"} /\ messagesPaused' = TRUE
  BY <1>1, <1>3, StartOnce
<1>5. SameIds
  BY <1>1 DEF SameIds, Messages
<1> QED  BY <1>1, <1>2, <1>4, <1>5, InitStepOnce

LEMMA RetryInitOnce ==
    ASSUME LogInv, OnceInv, NEW c \in Connections, RetryInit(c)
    PROVE  OnceInv'
<1>1. /\ UNCHANGED <<committed, members, lastIds, known, stray, eventQueue, handled, cacheLast, mode,
                     connections, conn, channel, messageQueue, stage>>
      /\ inits[c].phase = "wait"
  BY DEF RetryInit, serverVars, connVars, idVars, cacheVars
<1>2. SameIds
  BY <1>1 DEF SameIds, Messages
<1>3. CASE retry = c
  <2>1. mode # "reconnect" => Fresh
    BY <1>1 DEF OnceInv, FreshInv, FirstInit
  <2>2. StartInit(c)
    BY <1>3 DEF RetryInit
  <2>3. PICK n : /\ inits' = [inits EXCEPT ![c] = n] /\ OnceInit(n)
                 /\ n.phase \in {"load", "retrieve"} /\ messagesPaused' = TRUE
    BY <2>1, <2>2, StartOnce
  <2> QED  BY <1>1, <1>2, <2>3, InitStepOnce
<1>4. CASE retry # c
  <2>1. PICK n : n = NoInit
    OBVIOUS
  <2>2. inits' = [inits EXCEPT ![c] = n] /\ messagesPaused' = messagesPaused
    BY <1>4, <2>1 DEF RetryInit
  <2>3. n.phase = "none" /\ n.loaded = {}
    BY <2>1 DEF NoInit
  <2>4. OnceInit(n)
    BY <2>3, EndedOnce
  <2>5. conn' \in {conn, "down"} /\ (messagesPaused => messagesPaused')
    BY <1>1, <2>2
  <2> QED  BY <1>2, <2>2, <2>3, <2>4, <2>5, InitStepOnce
<1> QED  BY <1>3, <1>4

LEMMA InitDisconnectedOnce ==
    ASSUME LogInv, OnceInv, NEW c \in Connections, InitDisconnected(c)
    PROVE  OnceInv'
<1>1. /\ UNCHANGED <<committed, members, lastIds, known, stray, eventQueue, handled, cacheLast,
                     messageQueue, messagesPaused, stage>>
      /\ Lose /\ UNCHANGED <<mode, connections>> /\ conn' = "down"
      /\ inits' = [inits EXCEPT ![c] = NoInit]
  BY DEF InitDisconnected, Lose, serverVars, idVars, queueVars, cacheVars
<1>2. SameIds
  BY <1>1, LoseShrinks DEF SameIds
<1>3. PICK n : n = NoInit
  OBVIOUS
<1>4. n.phase = "none" /\ n.loaded = {}
  BY <1>3 DEF NoInit
<1>5. OnceInit(n)
  BY <1>4, EndedOnce
<1>6. conn' \in {conn, "down"} /\ (messagesPaused => messagesPaused')
  BY <1>1
<1>7. inits' = [inits EXCEPT ![c] = n]
  BY <1>1, <1>3
<1> QED  BY <1>2, <1>4, <1>5, <1>6, <1>7, InitStepOnce

LEMMA ConnectOnce ==
    ASSUME LogInv, OnceInv, Connect
    PROVE  OnceInv'
<1>1. /\ UNCHANGED <<committed, members, lastIds, known, stray, eventQueue, handled, cacheLast, stage,
                     channel, messageQueue, messagesPaused, inits>>
      /\ conn' = "connecting" /\ mode' = IF mode = "login" THEN "initial" ELSE "reconnect"
  BY DEF Connect, serverVars, idVars, queueVars, cacheVars
<1>2. AddedOnce'
  BY <1>1, AddedFrame DEF OnceInv
<1>3. MessagesOnce'
  BY <1>1 DEF OnceInv, MessagesOnce, Fits, Messages
<1>4. OnceInits'
  BY <1>1 DEF OnceInv, OnceInits, OnceInit, Fresh
<1>5. FreshInv'
  <2>1. Fresh' = Fresh /\ Messages' = Messages
    BY <1>1 DEF Fresh, Messages
  <2>2. mode' # "reconnect" => mode = "login" /\ known = {} /\ \A c \in Connections : inits[c].phase = "none"
    BY <1>1 DEF OnceInv, FreshInv
  <2> QED  BY <1>1, <2>1, <2>2 DEF OnceInv, FreshInv, FirstInit
<1> QED  BY <1>2, <1>3, <1>4, <1>5 DEF OnceInv

LEMMA LastIsNat ==
    ASSUME LogInv, NEW g \in Group
    PROVE  LastOf(lastIds[g]) \in 0..Newest /\ LastOf(lastIds[g]) \in Nat
<1>1. PICK s : s = lastIds[g]
  OBVIOUS
<1>2. s \in Seq(0..Newest) /\ Newest \in Nat
  BY <1>1, NewestNat DEF LogInv, RestInv, QueueInv, IdsCovered
<1>3. s # << >> => Len(s) \in 1..Len(s)
  BY <1>2
<1>4. s # << >> => s[Len(s)] \in 0..Newest
  BY <1>2, <1>3, ElementIn
<1> QED  BY <1>1, <1>2, <1>4 DEF LastOf, MinId

LEMMA LoadOnce ==
    ASSUME LogInv, OnceInv, NEW c \in Connections, NEW g \in Group, Load(c, g)
    PROVE  OnceInv'
<1> DEFINE missed == {b \in InLog(g) : b.id > LastOf(lastIds[g])}
           rest == inits[c].todo \ {g}
           phase == IF rest = {} THEN "add" ELSE "load"
           i == [inits[c] EXCEPT !.todo = rest, !.loaded = @ \union missed, !.phase = phase]
<1>1. /\ UNCHANGED <<committed, members, lastIds, known, stray, eventQueue, handled, cacheLast, mode,
                     connections, conn, channel, messageQueue, messagesPaused, stage>>
      /\ inits[c].phase = "load"
  BY DEF Load, serverVars, connVars, idVars, queueVars, cacheVars
<1>2. inits' = [inits EXCEPT ![c] = i]
  BY InitOfRecord DEF Load, InitFields, LogInv
<1>3. PICK j : j = inits[c]
  OBVIOUS
<1>4. OnceInit(j) /\ j.phase = "load" /\ IsInit(j) /\ j.loaded \subseteq committed
  BY <1>1, <1>3 DEF OnceInv, OnceInits, LogInv, RestInv, InitsInv, InitOK, LoadInv, InitsAreRecords
<1>5. PICK n : n = i
  OBVIOUS
<1>6. n.phase \in {"load", "add"} /\ n.loaded = j.loaded \union missed /\ n.existing = j.existing
  <2> HIDE DEF missed
  <2> QED  BY <1>3, <1>4, <1>5 DEF IsInit, InitFields
<1> HIDE DEF i
<1>7. SameIds
  BY <1>1 DEF SameIds, Messages
<1>8. OnceInit(n)
  <2>1. \A b \in missed : b \in committed /\ b.group = g /\ b.id > LastOf(lastIds[g])
    BY DEF InLog
  <2>2. \A b \in missed, d \in committed : Older(d, b) => d \in missed \/ ~(d.id > LastOf(lastIds[g]))
    BY DEF InLog, Older
  <2>3. ASSUME NEW d \in committed, ~(d.id > LastOf(lastIds[g])) PROVE d.id <= LastOf(lastIds[g])
    <3>1. LastOf(lastIds[g]) \in Nat
      BY LastIsNat
    <3>2. d.id \in Nat
      BY IdOfCommitted
    <3> QED  BY <2>3, <3>1, <3>2
  <2> HIDE DEF missed
  <2>4. \A b \in n.loaded : b.id > LastOf(lastIds[b.group])
    BY <1>4, <1>6, <2>1 DEF OnceInit
  <2>5. ASSUME NEW b \in n.loaded, NEW d \in committed, Older(d, b)
        PROVE  d \in n.loaded \/ d.id <= LastOf(lastIds[b.group])
    <3>1. CASE b \in missed
      BY <1>6, <2>1, <2>2, <2>3, <2>5, <3>1
    <3>2. CASE b \in j.loaded
      BY <1>4, <1>6, <2>5, <3>2 DEF OnceInit
    <3> QED  BY <1>6, <3>1, <3>2
  <2> QED  BY <1>4, <1>6, <2>4, <2>5 DEF OnceInit
<1>9. inits' = [inits EXCEPT ![c] = n]
  BY <1>2, <1>5
<1>10. conn' \in {conn, "down"} /\ (messagesPaused => messagesPaused')
  BY <1>1
<1> QED  BY <1>1, <1>6, <1>7, <1>8, <1>9, <1>10, InitStepOnce

LEMMA RetrieveOnce ==
    ASSUME LogInv, OnceInv, NEW c \in Connections, NEW g \in Group, Retrieve(c, g)
    PROVE  OnceInv'
<1> DEFINE i == [inits[c] EXCEPT !.todo = @ \ {g}, !.ids[g] = <<cacheLast[g]>>, !.cached = TRUE]
<1>1. /\ UNCHANGED <<committed, members, lastIds, known, stray, eventQueue, handled, mode,
                     connections, conn, channel, messageQueue, messagesPaused, stage>>
      /\ inits[c].phase = "retrieve"
  BY DEF Retrieve, serverVars, connVars, idVars, queueVars, cacheVars
<1>2. cacheLast[g] # None /\ cacheLast = [h \in Group |-> cacheLast[h]]
  BY DEF OnceInv, FreshInv
<1>3. cacheLast' = [cacheLast EXCEPT ![g] = cacheLast[g]]
  BY <1>2 DEF Retrieve
<1>4. cacheLast' = cacheLast
  BY <1>2, <1>3
<1>5. inits' = [inits EXCEPT ![c] = i]
  <2>1. inits' = [inits EXCEPT ![c].todo = @ \ {g}, ![c].ids[g] = <<cacheLast[g]>>, ![c].cached = @ \/ TRUE]
    BY <1>2 DEF Retrieve
  <2> QED  BY <2>1, InitOfRecord DEF InitFields, LogInv
<1>6. PICK j : j = inits[c]
  OBVIOUS
<1>7. OnceInit(j) /\ j.phase = "retrieve" /\ IsInit(j) /\ j.loaded = {} /\ j.ids \in [Group -> Seq(0..Newest)]
  BY <1>1, <1>6 DEF OnceInv, OnceInits, LogInv, RestInv, InitsInv, InitOK, IdsCovered, LoadInv, InitsAreRecords
<1>8. PICK n : n = i
  OBVIOUS
<1>9. /\ n.phase = "retrieve" /\ n.loaded = {} /\ n.todo = j.todo \ {g}
      /\ n.ids = [j.ids EXCEPT ![g] = <<cacheLast[g]>>]
  BY <1>6, <1>7, <1>8 DEF IsInit, InitFields
<1> HIDE DEF i
<1>10. SameIds
  BY <1>1, <1>4 DEF SameIds, Messages
<1>11. OnceInit(n)
  <2>1. PICK one : one = <<cacheLast[g]>>
    OBVIOUS
  <2>2. ASSUME NEW h \in Group \ n.todo PROVE n.ids[h] = <<cacheLast[h]>>
    <3>1. n.ids[h] = IF h = g THEN one ELSE j.ids[h]
      BY <1>7, <1>9, <2>1
    <3>2. CASE h = g
      BY <2>1, <3>1, <3>2
    <3>3. CASE h # g
      <4>1. h \in Group \ j.todo
        BY <1>9, <3>3
      <4>2. j.ids[h] = <<cacheLast[h]>>
        BY <1>7, <4>1 DEF OnceInit
      <4> QED  BY <3>1, <3>3, <4>2
    <3> QED  BY <3>2, <3>3
  <2> QED  BY <1>7, <1>9, <2>2 DEF OnceInit
<1>12. inits' = [inits EXCEPT ![c] = n]
  BY <1>5, <1>8
<1>13. conn' \in {conn, "down"} /\ (messagesPaused => messagesPaused')
  BY <1>1
<1> QED  BY <1>1, <1>9, <1>10, <1>11, <1>12, <1>13, InitStepOnce

(* The ids are set before anything was added.                              *)
LEMMA FreshAdded ==
    ASSUME Newest \in Nat, Newest <= MaxEventIds, NEW q, q = << >>, eventQueue = q, handled = q,
           lastIds \in [Group -> Seq(0..Newest)], \A g \in Group : Len(lastIds[g]) <= 1
    PROVE  AddedOnce
<1>1. q \in Seq(committed) /\ Range(q) = {} /\ Len(q) = 0
  BY EmptyQueue
<1>2. ASSUME NEW g \in Group PROVE Increasing(lastIds[g])
  <2>1. PICK s : s = lastIds[g]
    OBVIOUS
  <2>2. s \in Seq(0..Newest) /\ Len(s) <= 1
    BY <2>1
  <2>3. Len(s) \in Nat
    BY <2>2
  <2>4. Increasing(s)
    BY <2>2, <2>3 DEF Increasing
  <2> QED  BY <2>1, <2>4
<1>3. Distinct(eventQueue)
  BY <1>1 DEF Distinct
<1>4. OnceOK(Start)
  BY <1>1, <1>2, <1>3 DEF OnceOK, Start, IdsOK
<1>5. IsInjective(handled)
  <2>1. DOMAIN q = {}
    OBVIOUS
  <2> QED  BY <2>1 DEF IsInjective
<1> QED  BY <1>1, <1>4, <1>5 DEF AddedOnce

LEMMA FreshAddedNext ==
    ASSUME Newest' \in Nat, Newest' <= MaxEventIds, NEW q, q = << >>, eventQueue' = q, handled' = q,
           lastIds' \in [Group -> Seq(0..Newest')], \A g \in Group : Len(lastIds'[g]) <= 1
    PROVE  AddedOnce'
<1>1. q \in Seq(committed') /\ Range(q) = {} /\ Len(q) = 0
  BY EmptyQueue
<1>2. ASSUME NEW g \in Group PROVE Increasing(lastIds'[g])
  <2>1. PICK s : s = lastIds'[g]
    OBVIOUS
  <2>2. s \in Seq(0..Newest') /\ Len(s) <= 1
    BY <2>1
  <2>3. Len(s) \in Nat
    BY <2>2
  <2>4. Increasing(s)
    BY <2>2, <2>3 DEF Increasing
  <2> QED  BY <2>1, <2>4
<1>3. Distinct(eventQueue)'
  BY <1>1 DEF Distinct
<1>4. OnceOK(Start)'
  BY <1>1, <1>2, <1>3 DEF OnceOK, Start, IdsOK, Distinct, Increasing
<1>5. IsInjective(handled)'
  <2>1. DOMAIN q = {}
    OBVIOUS
  <2> QED  BY <2>1 DEF IsInjective
<1> QED  BY <1>1, <1>4, <1>5 DEF AddedOnce

LEMMA IdleOnce ==
    ASSUME NEW i, i.phase \notin {"retrieve", "load", "add", "resume"}, i.loaded = {}
    PROVE  OnceInit(i)'
  BY DEF OnceInit

(* While one initialization loads, no other does.                          *)
LEMMA OthersAreIdle ==
    ASSUME LogInv, NEW c \in Connections, Loading(c), NEW d \in Connections, d # c
    PROVE  /\ inits[d].phase \notin {"retrieve", "load", "add", "resume"} /\ inits[d].loaded = {}
           /\ c = connections /\ messagesPaused
<1>1. c = connections /\ messagesPaused /\ ~Loading(d)
  BY DEF LogInv, LoadInv, OnlyLastLoads
<1> QED  BY <1>1 DEF Loading, LogInv, RestInv, InitsInv, InitOK

LEMMA MessageIds ==
    ASSUME LogInv, NEW m \in Messages
    PROVE  m \in committed /\ m.group \in Group /\ m.id \in 1..Newest /\ Newest \in Nat
<1>1. m \in committed
  BY RangeIn DEF LogInv, RestInv, MessagesInv, Messages
<1> QED  BY <1>1, IdOfCommitted

LEMMA FreshStep ==
    ASSUME OnceInv, UNCHANGED <<members, mode, cacheLast, handled>>, Messages' \subseteq Messages,
           Fresh' => Fresh,
           known' \in {{}, Group}, known' # Group => Fresh' /\ ~stray',
           mode # "login", mode # "reconnect" => FirstInit',
           mode = "initial" /\ conn' = "connecting" => known' = {}
    PROVE  FreshInv'
<1>1. /\ members' = Group /\ mode' \in {"login", "initial", "reconnect"} /\ mode' # "login"
      /\ mode' # "reconnect" => FirstInit'
  BY DEF OnceInv, FreshInv
<1>2. cacheLast' = [g \in Group |-> cacheLast'[g]] /\ \A g \in Group : cacheLast'[g] # None
  BY DEF OnceInv, FreshInv
<1>3. Fresh' => \A m \in Messages' : cacheLast'[m.group] < m.id
  BY DEF OnceInv, FreshInv
<1>4. mode' = "initial" /\ conn' = "connecting" => known' = {}
  OBVIOUS
<1> QED  BY <1>1, <1>2, <1>3, <1>4 DEF FreshInv

LEMMA InitUnavailableOnce ==
    ASSUME LogInv, OnceInv, NEW c \in Connections, InitUnavailable(c)
    PROVE  OnceInv'
<1>1. /\ UNCHANGED <<committed, members, eventQueue, handled, cacheLast, mode,
                     connections, conn, channel, messageQueue, messagesPaused, stage>>
      /\ inits[c].phase \in {"retrieve", "load"}
      /\ inits' = [inits EXCEPT ![c] = [NoInit EXCEPT !.phase = "wait"]]
  BY DEF InitUnavailable, serverVars, connVars, cacheVars, queueVars
<1>2. PICK n : n = [NoInit EXCEPT !.phase = "wait"]
  OBVIOUS
<1>3. n.phase = "wait" /\ n.loaded = {}
  BY <1>2 DEF NoInit
<1>4. inits' = [inits EXCEPT ![c] = n]
  BY <1>1, <1>2
<1>5. CASE inits[c].existing
  <2>1. UNCHANGED <<lastIds, known, stray>>
    BY <1>5 DEF InitUnavailable, idVars
  <2>2. SameIds
    BY <1>1, <2>1 DEF SameIds, Messages
  <2>3. OnceInit(n)
    BY <1>3, EndedOnce
  <2>4. conn' \in {conn, "down"} /\ (messagesPaused => messagesPaused')
    BY <1>1
  <2> QED  BY <1>1, <1>3, <1>4, <2>2, <2>3, <2>4, InitStepOnce
<1>6. CASE ~inits[c].existing
  <2>1. lastIds' = [g \in Group |-> << >>] /\ known' = {} /\ stray' = FALSE
    BY <1>6 DEF InitUnavailable, NoInit
  <2>2. Fresh
    BY <1>1, <1>6 DEF OnceInv, OnceInits, OnceInit
  <2>3. Newest' \in Nat /\ Newest' <= MaxEventIds
    BY <1>1, NewestNat DEF OnceInv, AddedOnce, Newest
  <2>4. AddedOnce'
    <3>1. PICK q : q = << >>
      OBVIOUS
    <3>2. lastIds' \in [Group -> Seq(0..Newest')] /\ \A g \in Group : Len(lastIds'[g]) <= 1
      BY <2>1
    <3> QED  BY <1>1, <2>2, <2>3, <3>1, <3>2, FreshAddedNext DEF Fresh
  <2>5. MessagesOnce'
    <3>1. \A m \in Messages : m.id > MinId /\ m.group \in Group
      BY MessageIds DEF MinId
    <3> QED  BY <1>1, <2>1, <3>1 DEF MessagesOnce, Fits, Messages, LastOf
  <2>6. Loading(c) /\ c = connections /\ messagesPaused
    BY <1>1 DEF Loading, LogInv, LoadInv, OnlyLastLoads
  <2>7. inits'[c] = n /\ \A d \in Connections : d # c => inits'[d] = inits[d]
    BY <1>4 DEF LogInv, LoadInv, InitsAreRecords
  <2>8. OnceInits'
    <3> SUFFICES ASSUME NEW d \in Connections PROVE OnceInit(inits[d])'
      BY DEF OnceInits
    <3>1. PICK i : i = inits'[d]
      OBVIOUS
    <3>2. i.phase \notin {"retrieve", "load", "add", "resume"} /\ i.loaded = {}
      BY <1>3, <2>6, <2>7, <3>1, OthersAreIdle
    <3> QED  BY <3>1, <3>2, IdleOnce DEF OnceInit
  <2>9. FreshInv'
    <3>1. Fresh' /\ Messages' = Messages
      BY <1>1, <2>2 DEF Fresh, Messages
    <3>2. mode # "login"
      BY <1>1 DEF OnceInv, FreshInv
    <3>3. mode # "reconnect" => FirstInit'
      BY <1>1, <1>3, <2>6, <2>7, <3>1 DEF OnceInv, FreshInv, FirstInit
    <3>4. known' # Group => Fresh' /\ ~stray'
      BY <2>1, <3>1
    <3>5. mode = "initial" /\ conn' = "connecting" => known' = {}
      BY <2>1
    <3> QED  BY <1>1, <2>1, <2>2, <3>1, <3>2, <3>3, <3>4, <3>5, FreshStep
  <2> QED  BY <2>4, <2>5, <2>8, <2>9 DEF OnceInv
<1> QED  BY <1>5, <1>6

LEMMA SetLastIdsOnce ==
    ASSUME LogInv, OnceInv, NEW c \in Connections, SetLastIds(c)
    PROVE  OnceInv'
<1> DEFINE phase == IF inits[c].cached THEN "load" ELSE "resume"
           i == [inits[c] EXCEPT !.phase = phase, !.todo = members, !.ids = NoInit.ids]
<1>1. /\ UNCHANGED <<committed, members, eventQueue, handled, cacheLast, mode,
                     connections, conn, channel, messageQueue, messagesPaused, stage>>
      /\ lastIds' = inits[c].ids /\ stray' = FALSE
      /\ inits[c].phase = "retrieve" /\ inits[c].todo = {}
  BY DEF SetLastIds, serverVars, connVars, queueVars, cacheVars
<1>2. inits' = [inits EXCEPT ![c] = i]
  BY InitOfRecord DEF SetLastIds, InitFields, LogInv
<1>3. PICK j : j = inits[c]
  OBVIOUS
<1>4. InitOK(j) /\ OnceInit(j) /\ j.phase = "retrieve" /\ j.loaded = {} /\ j.todo = {} /\ IsInit(j)
  BY <1>1, <1>3 DEF OnceInv, OnceInits, LogInv, RestInv, InitsInv, InitOK, LoadInv, InitsAreRecords
<1>5. PICK n : n = i
  OBVIOUS
<1>6. n.phase \in {"load", "resume"} /\ n.loaded = {}
  BY <1>3, <1>4, <1>5 DEF IsInit, InitFields
<1> HIDE DEF i
<1>7. Fresh /\ \A g \in Group : j.ids[g] = <<cacheLast[g]>>
  BY <1>4 DEF OnceInit
<1>8. /\ Newest' = Newest /\ Newest \in Nat /\ Newest <= MaxEventIds
      /\ lastIds' \in [Group -> Seq(0..Newest)]
      /\ \A g \in Group : lastIds'[g] = <<cacheLast[g]>>
  BY <1>1, <1>3, <1>4, <1>7, NewestNat DEF InitOK, IdsCovered, Newest, OnceInv, AddedOnce
<1>9. known' = Group
  <2>1. known' = {g \in Group : j.ids[g] # << >>}
    BY <1>3 DEF SetLastIds
  <2> QED  BY <1>7, <2>1
<1>10. ASSUME NEW g \in Group PROVE Len(lastIds'[g]) <= 1 /\ LastOf(lastIds'[g]) = cacheLast[g]
  <2>1. PICK s : s = <<cacheLast[g]>>
    OBVIOUS
  <2>2. Len(s) = 1 /\ s[1] = cacheLast[g] /\ s # << >>
    BY <2>1
  <2>3. lastIds'[g] = s
    BY <1>8, <2>1
  <2>4. LastOf(s) = cacheLast[g] /\ Len(s) <= 1
    BY <2>2 DEF LastOf
  <2> QED  BY <2>3, <2>4
<1>11. AddedOnce'
  <2>1. PICK q : q = << >>
    OBVIOUS
  <2> QED  BY <1>1, <1>7, <1>8, <1>10, <2>1, FreshAddedNext DEF Fresh
<1>12. MessagesOnce'
  <2>1. ASSUME NEW m \in Messages PROVE m.id > LastOf(lastIds'[m.group])
    <3>1. m.group \in Group /\ cacheLast[m.group] < m.id
      BY <1>7, MessageIds DEF OnceInv, FreshInv
    <3> QED  BY <1>10, <3>1
  <2> QED  BY <1>1, <2>1 DEF MessagesOnce, Fits, Messages
<1>13. inits'[c] = n /\ \A d \in Connections : d # c => inits'[d] = inits[d]
  BY <1>2, <1>5 DEF LogInv, LoadInv, InitsAreRecords
<1>14. Loading(c) /\ c = connections /\ messagesPaused
  BY <1>1 DEF Loading, LogInv, LoadInv, OnlyLastLoads
<1>15. Fresh' /\ Messages' = Messages
  BY <1>1, <1>7 DEF Fresh, Messages
<1>16. OnceInits'
  <2> SUFFICES ASSUME NEW d \in Connections PROVE OnceInit(inits[d])'
    BY DEF OnceInits
  <2>1. PICK k : k = inits'[d]
    OBVIOUS
  <2>2. CASE d = c
    BY <1>6, <1>9, <1>13, <1>15, <2>2 DEF OnceInit
  <2>3. CASE d # c
    <3>1. k.phase \notin {"retrieve", "load", "add", "resume"} /\ k.loaded = {}
      BY <1>13, <1>14, <2>1, <2>3, OthersAreIdle
    <3> QED  BY <2>1, <3>1, IdleOnce DEF OnceInit
  <2> QED  BY <2>2, <2>3
<1>17. FreshInv'
  <2>1. mode # "login" /\ conn # "connecting"
    BY <1>1, <1>14 DEF OnceInv, FreshInv, LogInv, RestInv, ConnInv
  <2>2. mode # "reconnect" => FirstInit'
    BY <1>1, <1>6, <1>13, <1>14, <1>15 DEF OnceInv, FreshInv, FirstInit
  <2>3. mode = "initial" /\ conn' = "connecting" => known' = {}
    BY <1>1, <2>1
  <2> QED  BY <1>1, <1>7, <1>9, <1>15, <2>1, <2>2, <2>3, FreshStep
<1> QED  BY <1>11, <1>12, <1>16, <1>17 DEF OnceInv
-----------------------------------------------------------------------------
(* The steps that add batches.                                             *)

LEMMA EnqueueOnce ==
    ASSUME LogInv, OnceInv, known = Group, NEW q \in Seq(committed), Ascending(q),
           \A k \in 1..Len(q) : Fits(q[k], lastIds), NEW resume, Enqueue(q, resume),
           UNCHANGED <<committed, handled>>
    PROVE  /\ AddedOnce'
           /\ LastMoves(lastIds, lastIds', Range(q))
           /\ IdsKept(lastIds, lastIds')
           /\ \A b \in Range(q) : b.id \in Range(lastIds'[b.group])
           /\ Fresh' => Fresh
<1>1. PICK new : /\ new = AddAll(q)
                 /\ lastIds' = new.ids
                 /\ eventQueue' = new.queue
  BY DEF Enqueue
<1>2. Newest <= MaxEventIds /\ OnceOK(Start) /\ handled \in Seq(committed)
  BY DEF OnceInv, AddedOnce
<1>3. /\ OnceOK(new)
      /\ LastMoves(lastIds, new.ids, Range(q))
      /\ IdsKept(lastIds, new.ids)
      /\ \A b \in Range(q) : b.id \in Range(new.ids[b.group])
      /\ Len(eventQueue) <= Len(new.queue)
  BY <1>1, <1>2, AddAllOnce
<1>4. Fresh' => Fresh
  <2>1. eventQueue \in Seq(committed) /\ new.queue \in Seq(committed)
    BY <1>3 DEF LogInv, RestInv, QueueInv, OnceOK
  <2>2. new.queue = << >> => eventQueue = << >>
    BY <1>3, <2>1
  <2> QED  BY <1>1, <2>2 DEF Fresh
<1>5. AddedOnce'
  <2>1. Newest' = Newest
    BY DEF Newest
  <2>2. IdsOK(lastIds)'
    BY <1>1, <1>3, <2>1 DEF OnceOK, IdsOK
  <2>3. Distinct(eventQueue)'
    BY <1>1, <1>3 DEF OnceOK, Distinct
  <2>4. OnceOK(Start)'
    BY <1>1, <1>3, <2>2, <2>3 DEF OnceOK, Start, Distinct, IdsOK
  <2> QED  BY <1>2, <2>1, <2>4 DEF OnceInv, AddedOnce
<1> QED  BY <1>1, <1>3, <1>4, <1>5

(* A message that was not added yet still fits after others were.          *)
LEMMA FitsAfter ==
    ASSUME NEW m, m.group \in Group, m.id # MinId, NEW old, NEW new, NEW S, Fits(m, old),
           LastMoves(old, new, S), IdsKept(old, new),
           \A b \in S : b.group = m.group => m.id > b.id \/ m.id \in Range(new[m.group])
    PROVE  Fits(m, new)
<1>1. CASE m.id \in Range(old[m.group])
  BY <1>1 DEF IdsKept, Fits
<1>2. CASE m.id > LastOf(old[m.group])
  <2>1. CASE LastOf(new[m.group]) = LastOf(old[m.group])
    BY <1>2, <2>1 DEF Fits
  <2>2. CASE LastOf(new[m.group]) # LastOf(old[m.group])
    <3>1. PICK b \in S : b.group = m.group /\ LastOf(new[m.group]) = b.id
      BY <2>2 DEF LastMoves
    <3> QED  BY <3>1 DEF Fits
  <2> QED  BY <2>1, <2>2
<1> QED  BY <1>1, <1>2 DEF Fits

LEMMA AddNothing ==
    ASSUME NEW q, q = << >>
    PROVE  AddAll(q) = Start
<1>1. Len(q) = 0
  OBVIOUS
<1> QED  BY <1>1, AddAllUnfolds

(* After batches were added no initialization has anything loaded.         *)
LEMMA EmptiedOnce ==
    ASSUME LogInv, \A d \in Connections :
               \/ inits'[d].phase \notin {"retrieve", "load", "add"} /\ inits'[d].loaded = {},
           known' = Group
    PROVE  OnceInits'
<1> SUFFICES ASSUME NEW d \in Connections PROVE OnceInit(inits[d])'
  BY DEF OnceInits
<1>1. inits'[d].phase \notin {"retrieve", "load", "add"} /\ inits'[d].loaded = {}
  OBVIOUS
<1> QED  BY <1>1 DEF OnceInit

LEMMA ReceiveOnce ==
    ASSUME LogInv, OnceInv, Receive
    PROVE  OnceInv' \/ Trapped'
<1>1. /\ UNCHANGED <<committed, members, cacheLast, handled, known, mode, connections, conn, messagesPaused,
                     inits>>
      /\ channel # << >> /\ channel' = Tail(channel)
  BY DEF Receive, serverVars, cacheVars
<1>2. MessagesInv
  BY DEF LogInv, RestInv
<1>3. PICK m : m = Head(channel)
  OBVIOUS
<1>4. /\ m \in committed /\ channel' \in Seq(committed) /\ Range(channel) = Range(channel') \union {m}
      /\ \A b \in Range(channel') : m.id < b.id
  BY <1>1, <1>2, <1>3, TailElements, AscendingTail DEF MessagesInv
<1>5. CASE messagesPaused
  <2>1. messageQueue' = Append(messageQueue, m) /\ UNCHANGED <<lastIds, stray, eventQueue, stage>>
    BY <1>3, <1>5 DEF Receive
  <2>2. Range(messageQueue') = Range(messageQueue) \union {m}
    BY <1>2, <1>4, <2>1, ExtendsAppend DEF MessagesInv
  <2>3. SameIds
    BY <1>1, <1>4, <2>1, <2>2 DEF SameIds, Messages
  <2>4. conn' \in {conn, "down"} /\ (messagesPaused => messagesPaused')
    BY <1>1
  <2>5. \A d \in Connections : OnceInit(inits'[d])
    BY <1>1 DEF OnceInv, OnceInits
  <2>6. \A d \in Connections : inits'[d].phase # "none" =>
            /\ inits[d].phase # "none"
            /\ inits'[d].phase \in {"retrieve", "load", "wait"} =>
                   inits[d].phase \in {"retrieve", "load", "wait"}
    BY <1>1
  <2> QED  BY <2>3, <2>4, <2>5, <2>6, OnceFrame
<1>6. CASE ~messagesPaused /\ known # Group
  <2>1. stray' = TRUE
    <3>1. PICK q : q = <<m>>
      OBVIOUS
    <3>2. q # << >> /\ Enqueue(q, TRUE)
      BY <1>3, <1>6, <3>1 DEF Receive
    <3> QED  BY <3>2 DEF Enqueue
  <2>2. conn = "open" /\ mode # "login" /\ known = {}
    BY <1>1, <1>2, <1>6 DEF MessagesInv, OnceInv, FreshInv
  <2>3. \A d \in Connections : inits[d].phase \notin {"retrieve", "load"}
    BY <1>6 DEF LogInv, LoadInv, OnlyLastLoads, Loading
  <2>4. mode # "reconnect" => \A d \in Connections : inits[d].phase = "none"
    BY <1>6 DEF OnceInv, FreshInv, FirstInit
  <2>5. Trapped'
    BY <1>1, <2>1, <2>2, <2>3, <2>4 DEF OnceInv, FreshInv, AddedOnce, Trapped, TrappedInits, Newest
  <2> QED  BY <2>5
<1>7. CASE ~messagesPaused /\ known = Group
  <2>1. Enqueue(<<m>>, TRUE) /\ UNCHANGED messageQueue
    BY <1>3, <1>7 DEF Receive
  <2>2. PICK q \in Seq(committed) : q = <<m>>
    <3>1. m \in committed
      BY <1>4
    <3>2. <<m>> \in Seq(committed)
      BY <3>1
    <3> QED  BY <3>2, Zenon
  <2>3. Len(q) = 1 /\ q[1] = m /\ Range(q) = {m}
    BY <2>2 DEF Range
  <2>4. conn = "open" /\ known = Group /\ mode # "login"
    BY <1>1, <1>2, <1>7 DEF MessagesInv, OnceInv, FreshInv
  <2>5. Messages = Messages' \union {m}
    BY <1>4, <2>1 DEF Messages
  <2>6. Fits(m, lastIds) /\ \A b \in Messages' : Fits(b, lastIds)
    BY <2>5 DEF OnceInv, MessagesOnce
  <2>7. Ascending(q) /\ \A k \in 1..Len(q) : Fits(q[k], lastIds)
    BY <2>3, <2>6 DEF Ascending
  <2>8. PICK resume : resume = TRUE
    OBVIOUS
  <2>9. Enqueue(q, resume) /\ UNCHANGED <<committed, handled>>
    BY <1>1, <2>1, <2>2, <2>8
  <2>10. /\ AddedOnce'
         /\ LastMoves(lastIds, lastIds', Range(q))
         /\ IdsKept(lastIds, lastIds')
         /\ Fresh' => Fresh
    BY <2>4, <2>7, <2>9, EnqueueOnce
  <2>11. MessagesOnce'
    <3> SUFFICES ASSUME NEW b \in Messages' PROVE Fits(b, lastIds')
      BY DEF MessagesOnce, Fits
    <3>1. b.group \in Group /\ b.id # MinId /\ b.id \in Nat /\ m.id \in Nat
      BY <1>4, <2>5, MessageIds, IdOfCommitted DEF MinId
    <3>2. m.id < b.id
      <4>1. Range(messageQueue') = {}
        BY <1>2, <1>7, <2>1 DEF MessagesInv, Range
      <4> QED  BY <1>4, <4>1 DEF Messages
    <3>3. \A d \in Range(q) : d.group = b.group => b.id > d.id \/ b.id \in Range(lastIds'[b.group])
      BY <2>3, <3>1, <3>2
    <3>4. PICK new : new = lastIds'
      OBVIOUS
    <3>5. PICK S : S = Range(q)
      OBVIOUS
    <3>6. Fits(b, new)
      BY <2>6, <2>10, <3>1, <3>3, <3>4, <3>5, FitsAfter
    <3> QED  BY <3>4, <3>6
  <2>12. OnceInits'
    <3>1. ASSUME NEW d \in Connections
          PROVE  inits'[d].phase \notin {"retrieve", "load", "add"} /\ inits'[d].loaded = {}
      <4>1. ~Loading(d)
        BY <1>7 DEF LogInv, LoadInv, OnlyLastLoads
      <4> QED  BY <1>1, <4>1 DEF Loading, LogInv, RestInv, InitsInv, InitOK
    <3>2. known' = Group
      BY <1>1, <2>4
    <3> QED  BY <3>1, <3>2, EmptiedOnce
  <2>13. mode # "reconnect" => FirstInit'
    BY <1>1, <1>7 DEF OnceInv, FreshInv, FirstInit
  <2>14. Messages' \subseteq Messages /\ known' = Group
    BY <1>1, <2>4, <2>5
  <2>15. FreshInv'
    BY <1>1, <2>4, <2>10, <2>13, <2>14, FreshStep
  <2> QED  BY <2>10, <2>11, <2>12, <2>15 DEF OnceInv
<1> QED  BY <1>5, <1>6, <1>7

(* The batches q are added by the initialization of connection c, which    *)
(* goes on as n; the messages that are left fit.                           *)
LEMMA AddedByInit ==
    ASSUME LogInv, OnceInv, NEW c \in Connections, known = Group, inits[c].phase \in {"retrieve", "load", "add", "resume"},
           NEW q \in Seq(committed), Ascending(q), \A k \in 1..Len(q) : Fits(q[k], lastIds),
           NEW resume, Enqueue(q, resume),
           UNCHANGED <<committed, members, cacheLast, handled, known, mode, connections, conn>>,
           NEW n, inits' = [inits EXCEPT ![c] = n], n.phase \in {"resume", "none"}, n.loaded = {},
           n.phase = "none" \/ UNCHANGED messagesPaused,
           Messages' \subseteq Messages,
           NEW new, new = lastIds',
           \A m \in Messages', b \in Range(q) : b.group = m.group /\ IdsKept(lastIds, new) =>
               m.id > b.id \/ m.id \in Range(lastIds[m.group]) \/ m \in Range(q)
    PROVE  OnceInv'
<1>1. known = Group /\ c = connections /\ mode # "login" /\ Loading(c) /\ messagesPaused
  <2>1. Loading(c)
    BY DEF Loading
  <2>2. OnceInit(inits[c]) /\ inits[c].phase # "none"
    BY DEF OnceInv, OnceInits
  <2> QED  BY <2>1, <2>2, OthersAreIdle DEF OnceInit, OnceInv, FreshInv, LogInv, LoadInv, OnlyLastLoads
<1>2. /\ AddedOnce'
      /\ LastMoves(lastIds, lastIds', Range(q))
      /\ IdsKept(lastIds, lastIds')
      /\ \A b \in Range(q) : b.id \in Range(lastIds'[b.group])
      /\ Fresh' => Fresh
  BY <1>1, EnqueueOnce
<1>3. MessagesOnce'
  <2> SUFFICES ASSUME NEW m \in Messages' PROVE Fits(m, lastIds')
    BY DEF MessagesOnce, Fits
  <2>1. m.group \in Group /\ m.id # MinId /\ m.id \in Nat /\ Fits(m, lastIds)
    BY MessageIds DEF MinId, OnceInv, MessagesOnce
  <2>2. ASSUME NEW b \in Range(q), b.group = m.group PROVE m.id > b.id \/ m.id \in Range(new[m.group])
    <3>1. m.id > b.id \/ m.id \in Range(lastIds[m.group]) \/ m \in Range(q)
      BY <1>2, <2>2
    <3> QED  BY <1>2, <2>1, <3>1 DEF IdsKept
  <2>3. PICK S : S = Range(q)
    OBVIOUS
  <2>4. LastMoves(lastIds, new, S) /\ IdsKept(lastIds, new)
    BY <1>2, <2>3
  <2>5. Fits(m, new)
    BY <2>1, <2>2, <2>3, <2>4, FitsAfter
  <2> QED  BY <2>5
<1>4. inits'[c] = n /\ \A d \in Connections : d # c => inits'[d] = inits[d]
  BY DEF LogInv, LoadInv, InitsAreRecords
<1>5. OnceInits'
  <2>1. ASSUME NEW d \in Connections
        PROVE  inits'[d].phase \notin {"retrieve", "load", "add"} /\ inits'[d].loaded = {}
    <3>1. CASE d = c
      BY <1>4, <3>1
    <3>2. CASE d # c
      BY <1>1, <1>4, <3>2, OthersAreIdle
    <3> QED  BY <3>1, <3>2
  <2>2. known' = Group
    BY <1>1
  <2> QED  BY <2>1, <2>2, EmptiedOnce
<1>6. mode # "reconnect" => FirstInit'
  BY <1>1, <1>4 DEF OnceInv, FreshInv, FirstInit
<1>7. (mode = "initial" /\ conn' = "connecting" => known' = {}) /\ known' = Group
  <2>1. conn # "connecting"
    BY <1>1 DEF LogInv, RestInv, ConnInv
  <2> QED  BY <1>1, <2>1
<1>8. FreshInv'
  BY <1>1, <1>2, <1>6, <1>7, FreshStep
<1> QED  BY <1>2, <1>3, <1>5, <1>8 DEF OnceInv

LEMMA AddMissedOnce ==
    ASSUME LogInv, OnceInv, NEW c \in Connections, AddMissed(c)
    PROVE  OnceInv'
<1>1. /\ UNCHANGED <<committed, members, cacheLast, handled, known, mode, connections, conn, channel,
                     messageQueue, messagesPaused>>
      /\ inits[c].phase = "add" /\ known = Group
      /\ inits' = [inits EXCEPT ![c] = [NoInit EXCEPT !.phase = "resume"]]
  BY DEF AddMissed, serverVars, connVars, cacheVars, OnceInv, OnceInits, OnceInit
<1>2. PICK j : j = inits[c]
  OBVIOUS
<1>3. InitOK(j) /\ OnceInit(j)
  BY <1>2 DEF LogInv, RestInv, InitsInv, OnceInv, OnceInits
<1>4. PICK q \in OldestFirst(j.loaded) : Enqueue(q, FALSE)
  BY <1>2 DEF AddMissed
<1>5. q \in Seq(committed) /\ Range(q) = j.loaded /\ Ascending(q)
  BY <1>3, OldestFirstOrder DEF InitOK
<1>6. \A k \in 1..Len(q) : Fits(q[k], lastIds)
  BY <1>3, <1>5, ElementIn DEF OnceInit, Fits
<1>7. PICK n : n = [NoInit EXCEPT !.phase = "resume"]
  OBVIOUS
<1>8. n.phase \in {"resume", "none"} /\ n.loaded = {} /\ inits' = [inits EXCEPT ![c] = n]
  BY <1>1, <1>7 DEF NoInit
<1>9. Messages' \subseteq Messages
  BY <1>1 DEF Messages
<1>10. ASSUME NEW m \in Messages, NEW b \in Range(q), b.group = m.group
       PROVE  m.id > b.id \/ m.id \in Range(lastIds[m.group]) \/ m \in Range(q)
  <2>1. m \in committed /\ b \in committed /\ m.id \in Nat /\ b.id \in Nat /\ m.group \in Group
    BY <1>5, MessageIds, IdOfCommitted, RangeIn
  <2>2. CASE m.id = b.id
    <3>1. m = b
      BY <1>10, <2>1, <2>2 DEF LogInv, RestInv, ServerInv, Numbered, Batches
    <3> QED  BY <3>1
  <2>3. CASE m.id < b.id
    <3>1. m \in j.loaded \/ m.id <= LastOf(lastIds[m.group])
      BY <1>3, <1>5, <1>10, <2>1, <2>3 DEF OnceInit, Older
    <3>2. CASE m.id <= LastOf(lastIds[m.group])
      <4>1. ~(m.id > LastOf(lastIds[m.group]))
        BY <2>1, <3>2, LastIsNat
      <4> QED  BY <4>1 DEF OnceInv, MessagesOnce, Fits
    <3> QED  BY <1>5, <3>1, <3>2
  <2> QED  BY <2>1, <2>2, <2>3
<1>11. PICK resume : resume = FALSE
  OBVIOUS
<1>12. Enqueue(q, resume) /\ inits[c].phase \in {"retrieve", "load", "add", "resume"}
  BY <1>1, <1>4, <1>11
<1>13. PICK new : new = lastIds'
  OBVIOUS
<1>14. \A m \in Messages', b \in Range(q) : b.group = m.group /\ IdsKept(lastIds, new) =>
           m.id > b.id \/ m.id \in Range(lastIds[m.group]) \/ m \in Range(q)
  BY <1>9, <1>10
<1>15. /\ UNCHANGED <<committed, members, cacheLast, handled, known, mode, connections, conn>>
       /\ known = Group /\ messagesPaused' = messagesPaused
  BY <1>1
<1> QED  BY <1>5, <1>6, <1>8, <1>9, <1>12, <1>13, <1>14, <1>15, AddedByInit

(* The messages that waited are added, at the end or when a load fails.    *)
LEMMA WaitingAdded ==
    ASSUME LogInv, OnceInv, NEW c \in Connections, known = Group,
           inits[c].phase \in {"retrieve", "load", "add", "resume"},
           UNCHANGED <<committed, members, cacheLast, handled, known, mode, connections, conn, channel>>,
           inits' = [inits EXCEPT ![c] = NoInit],
           Enqueue(messageQueue, TRUE), messageQueue' = << >>
    PROVE  OnceInv'
<1>1. PICK q : q = messageQueue
  OBVIOUS
<1>2. /\ q \in Seq(committed) /\ Ascending(q)
      /\ \A b \in Range(q), d \in Range(channel) : b.id < d.id
      /\ \A b \in Range(q) : Fits(b, lastIds)
  BY <1>1 DEF LogInv, RestInv, MessagesInv, OnceInv, MessagesOnce, Messages
<1>3. \A k \in 1..Len(q) : Fits(q[k], lastIds)
  BY <1>2, ElementIn
<1>4. PICK n : n = NoInit
  OBVIOUS
<1>5. n.phase \in {"resume", "none"} /\ n.phase = "none" /\ n.loaded = {} /\ inits' = [inits EXCEPT ![c] = n]
  BY <1>4 DEF NoInit
<1>6. Messages' = Range(channel) /\ Messages' \subseteq Messages
  <2>1. Range(messageQueue') = {}
    BY DEF Range
  <2> QED  BY <2>1 DEF Messages
<1>7. \A m \in Messages', b \in Range(q) : m.id > b.id
  <2> SUFFICES ASSUME NEW m \in Messages', NEW b \in Range(q) PROVE m.id > b.id
    OBVIOUS
  <2>1. b.id < m.id
    BY <1>2, <1>6
  <2>2. m.id \in Nat /\ b.id \in Nat
    BY <1>2, <1>6, MessageIds, IdOfCommitted, RangeIn
  <2> QED  BY <2>1, <2>2
<1>8. PICK resume : resume = TRUE
  OBVIOUS
<1>9. Enqueue(q, resume)
  BY <1>1, <1>8
<1>10. PICK new : new = lastIds'
  OBVIOUS
<1>11. \A m \in Messages', b \in Range(q) : b.group = m.group /\ IdsKept(lastIds, new) =>
           m.id > b.id \/ m.id \in Range(lastIds[m.group]) \/ m \in Range(q)
  BY <1>7
<1> QED  BY <1>2, <1>3, <1>5, <1>6, <1>9, <1>10, <1>11, AddedByInit

LEMMA ResumeQueuesOnce ==
    ASSUME LogInv, OnceInv, NEW c \in Connections, ResumeQueues(c)
    PROVE  OnceInv'
<1>1. /\ UNCHANGED <<committed, members, cacheLast, handled, known, mode, connections, conn, channel>>
      /\ inits[c].phase = "resume"
      /\ inits' = [inits EXCEPT ![c] = NoInit]
      /\ Enqueue(messageQueue, TRUE) /\ messageQueue' = << >>
  BY DEF ResumeQueues, serverVars, connVars, cacheVars
<1>2. known = Group /\ inits[c].phase \in {"retrieve", "load", "add", "resume"}
  BY <1>1 DEF OnceInv, OnceInits, OnceInit
<1> QED  BY <1>1, <1>2, WaitingAdded

LEMMA InitFailsOnce ==
    ASSUME LogInv, OnceInv, NEW c \in Connections, InitFails(c)
    PROVE  OnceInv' \/ Trapped'
<1>1. /\ UNCHANGED <<committed, members, cacheLast, handled, known, mode, connections, conn, channel>>
      /\ inits[c].phase \in {"retrieve", "load", "add", "resume"}
      /\ inits' = [inits EXCEPT ![c] = NoInit]
      /\ Enqueue(messageQueue, TRUE) /\ messageQueue' = << >>
  BY DEF InitFails, serverVars, connVars, cacheVars
<1>2. CASE known = Group
  BY <1>1, <1>2, WaitingAdded
<1>3. PICK n : n = NoInit
  OBVIOUS
<1>4. n.phase = "none" /\ n.loaded = {} /\ inits' = [inits EXCEPT ![c] = n]
  BY <1>1, <1>3 DEF NoInit
<1>5. /\ c = connections /\ mode # "login" /\ conn # "connecting"
      /\ \A d \in Connections : d # c => inits[d].phase \notin {"retrieve", "load"}
  <2>1. Loading(c) /\ c = connections /\ inits[c].phase # "none"
    BY <1>1 DEF Loading, LogInv, LoadInv, OnlyLastLoads
  <2>2. \A d \in Connections : d # c => inits[d].phase \notin {"retrieve", "load"}
    BY <2>1, OthersAreIdle
  <2> QED  BY <2>1, <2>2 DEF OnceInv, FreshInv, LogInv, RestInv, ConnInv
<1>6. inits'[c] = n /\ \A d \in Connections : d # c => inits'[d] = inits[d]
  BY <1>4 DEF LogInv, LoadInv, InitsAreRecords
<1>7. mode # "reconnect" => \A d \in Connections : inits'[d].phase = "none"
  BY <1>4, <1>5, <1>6 DEF OnceInv, FreshInv, FirstInit
<1>8. CASE known # Group /\ messageQueue # << >>
  <2>1. stray' = TRUE
    BY <1>1, <1>8 DEF Enqueue
  <2>2. \A d \in Connections : inits'[d].phase \notin {"retrieve", "load"}
    BY <1>4, <1>5, <1>6
  <2> QED  BY <1>1, <1>5, <1>7, <1>8, <2>1, <2>2 DEF OnceInv, FreshInv, AddedOnce, Trapped, TrappedInits, Newest
<1>9. CASE known # Group /\ messageQueue = << >>
  <2>1. PICK q : q = << >>
    OBVIOUS
  <2>2. Enqueue(q, TRUE)
    BY <1>1, <1>9, <2>1
  <2>3. PICK st : st = AddAll(q) /\ st.ids = lastIds /\ st.queue = eventQueue
    BY <2>1, AddNothing DEF Start
  <2>4. lastIds' = lastIds /\ eventQueue' = eventQueue /\ stray' = stray
    <3>1. lastIds' = st.ids /\ eventQueue' = st.queue /\ stray' = (stray \/ q # << >>)
      BY <2>2, <2>3 DEF Enqueue
    <3>2. stray = FALSE
      BY <1>9 DEF OnceInv, FreshInv
    <3> QED  BY <2>1, <2>3, <3>1, <3>2
  <2>5. SameIds
    BY <1>1, <1>9, <2>4 DEF SameIds, Messages
  <2>6. OnceInit(n)
    BY <1>4, EndedOnce
  <2>7. \A d \in Connections : OnceInit(inits'[d])
    BY <1>6, <2>6 DEF OnceInv, OnceInits
  <2>8. \A d \in Connections : inits'[d].phase # "none" =>
            /\ inits[d].phase # "none"
            /\ inits'[d].phase \in {"retrieve", "load", "wait"} =>
                   inits[d].phase \in {"retrieve", "load", "wait"}
    BY <1>4, <1>6
  <2>9. conn' \in {conn, "down"}
    BY <1>1
  <2> QED  BY <1>7, <2>5, <2>7, <2>8, <2>9, OnceFrame
<1> QED  BY <1>2, <1>8, <1>9

(* The steps of the first batch of the queue.                              *)
LEMMA StagedOnce ==
    ASSUME LogInv, OnceInv, ~Fresh, ~Fresh', AddedOnce',
           UNCHANGED <<committed, members, lastIds, known, stray, mode, connections, conn, channel,
                       messageQueue, messagesPaused, inits>>,
           cacheLast' = [g \in Group |-> cacheLast'[g]], \A g \in Group : cacheLast'[g] # None
    PROVE  OnceInv'
<1>1. OnceInits'
  <2> SUFFICES ASSUME NEW d \in Connections PROVE OnceInit(inits[d])'
    BY DEF OnceInits
  <2>1. PICK i : i = inits'[d]
    OBVIOUS
  <2>2. OnceInit(i)
    BY <2>1 DEF OnceInv, OnceInits
  <2> QED  BY <2>1, <2>2 DEF OnceInit
<1>2. MessagesOnce'
  BY DEF OnceInv, MessagesOnce, Fits, Messages
<1>3. FreshInv'
  <2>1. messagesPaused' = messagesPaused /\ FirstInit' = FirstInit
    BY DEF FirstInit, OnceInv, FreshInv
  <2> QED  BY <2>1 DEF OnceInv, FreshInv
<1> QED  BY <1>1, <1>2, <1>3 DEF OnceInv

LEMMA HeadIs ==
    ASSUME LogInv, OnceInv, stage # "idle"
    PROVE  /\ eventQueue \in Seq(committed) /\ eventQueue # << >> /\ ~Fresh
           /\ Head(eventQueue) \in committed /\ Head(eventQueue) = eventQueue[1]
           /\ Head(eventQueue) \in Range(eventQueue) /\ Head(eventQueue) \notin Range(handled)
<1>1. eventQueue \in Seq(committed) /\ eventQueue # << >>
  BY DEF LogInv, RestInv, QueueInv, StageInv
<1>2. 1 \in 1..Len(eventQueue) /\ Head(eventQueue) = eventQueue[1]
  BY <1>1
<1>3. eventQueue[1] \in Range(eventQueue) /\ eventQueue[1] \in committed
  BY <1>1, <1>2, ElementIn
<1>4. Distinct(eventQueue)
  BY DEF OnceInv, AddedOnce, OnceOK, Start
<1> QED  BY <1>1, <1>2, <1>3, <1>4 DEF Distinct, Fresh

LEMMA InjectiveAppend ==
    ASSUME NEW S, NEW s \in Seq(S), IsInjective(s), NEW x \in S, x \notin Range(s)
    PROVE  IsInjective(Append(s, x))
<1>1. PICK r : r = Append(s, x)
  OBVIOUS
<1>2. /\ Len(s) \in Nat /\ DOMAIN s = 1..Len(s) /\ DOMAIN r = 1..(Len(s) + 1)
      /\ r[Len(s) + 1] = x /\ \A k \in 1..Len(s) : r[k] = s[k] /\ s[k] # x
  BY <1>1 DEF Range
<1>3. ASSUME NEW j \in DOMAIN r, NEW k \in DOMAIN r, r[j] = r[k] PROVE j = k
  BY <1>2, <1>3 DEF IsInjective
<1> QED  BY <1>1, <1>3 DEF IsInjective

LEMMA CacheMarksOnce ==
    ASSUME LogInv, OnceInv, CacheMarks
    PROVE  OnceInv'
<1>1. /\ UNCHANGED <<committed, members, lastIds, known, stray, mode, connections, conn, channel,
                     messageQueue, messagesPaused, inits, eventQueue, handled>>
      /\ stage = "mark" /\ stage' = "listener"
      /\ cacheLast' = [cacheLast EXCEPT ![Head(eventQueue).group] = Head(eventQueue).id]
  BY DEF CacheMarks, serverVars, connVars, idVars
<1>2. PICK b : b = Head(eventQueue)
  OBVIOUS
<1>3. eventQueue # << >> /\ ~Fresh /\ b \in committed
  BY <1>1, <1>2, HeadIs
<1>4. b.group \in Group /\ b.id # None
  <2>1. b.group \in Group /\ b.id \in Nat
    BY <1>3, IdOfCommitted
  <2> QED  BY <2>1, ClientAssumption
<1>5. AddedOnce'
  BY <1>1, AddedFrame DEF OnceInv
<1>6. ~Fresh'
  BY <1>1, <1>3 DEF Fresh
<1>7. cacheLast' = [g \in Group |-> cacheLast'[g]] /\ \A g \in Group : cacheLast'[g] # None
  <2>1. cacheLast = [g \in Group |-> cacheLast[g]] /\ \A g \in Group : cacheLast[g] # None
    BY DEF OnceInv, FreshInv
  <2>2. cacheLast' = [cacheLast EXCEPT ![b.group] = b.id]
    BY <1>1, <1>2
  <2>3. cacheLast' = [g \in Group |-> IF g = b.group THEN b.id ELSE cacheLast[g]]
    BY <1>4, <2>1, <2>2
  <2> QED  BY <1>4, <2>1, <2>3
<1> QED  BY <1>1, <1>3, <1>5, <1>6, <1>7, StagedOnce

(* The first batch was processed: it leaves the queue.                     *)
LEMMA BatchDoneOnce ==
    ASSUME LogInv, OnceInv, BatchDone
    PROVE  OnceInv'
<1>1. /\ UNCHANGED <<committed, members, lastIds, known, stray, mode, connections, conn, channel,
                     messageQueue, messagesPaused, inits, cacheLast>>
      /\ stage = "listener"
      /\ eventQueue' = Tail(eventQueue) /\ handled' = Append(handled, Head(eventQueue))
  BY DEF BatchDone, serverVars, connVars, idVars, cacheVars
<1>2. PICK b : b = Head(eventQueue)
  OBVIOUS
<1>3. /\ eventQueue # << >> /\ ~Fresh /\ eventQueue \in Seq(committed)
      /\ b \in committed /\ b = eventQueue[1] /\ b \in Range(eventQueue) /\ b \notin Range(handled)
  BY <1>1, <1>2, HeadIs
<1>4. handled \in Seq(committed) /\ IsInjective(handled) /\ OnceOK(Start) /\ Newest <= MaxEventIds
  BY DEF OnceInv, AddedOnce
<1>5. PICK t : t = Tail(eventQueue)
  OBVIOUS
<1>6. /\ t \in Seq(committed) /\ Len(t) = Len(eventQueue) - 1 /\ Len(eventQueue) \in Nat \ {0}
      /\ \A k \in 1..(Len(eventQueue) - 1) : t[k] = eventQueue[k + 1]
      /\ Range(t) \subseteq Range(eventQueue)
  BY <1>3, <1>5, TailElements
<1>7. handled' \in Seq(committed) /\ Range(handled') = Range(handled) \union {b} /\ handled' = Append(handled, b)
  BY <1>1, <1>2, <1>3, <1>4, ExtendsAppend
<1>8. IsInjective(handled')
  BY <1>3, <1>4, <1>7, InjectiveAppend
<1>9. Distinct(eventQueue)'
  <2>1. Distinct(eventQueue)
    BY <1>4 DEF OnceOK, Start
  <2>2. ASSUME NEW k \in 1..Len(t) PROVE k + 1 \in 1..Len(eventQueue) /\ t[k] = eventQueue[k + 1] /\ k + 1 # 1
    BY <1>6
  <2>3. ASSUME NEW j \in 1..Len(t), NEW k \in 1..Len(t), t[j] = t[k] PROVE j = k
    <3>1. j + 1 = k + 1
      BY <2>1, <2>2, <2>3 DEF Distinct
    <3> QED  BY <3>1
  <2>4. ASSUME NEW k \in 1..Len(t) PROVE t[k] \notin Range(handled')
    <3>1. 1 \in 1..Len(eventQueue)
      BY <1>6
    <3>2. t[k] # b /\ t[k] \notin Range(handled)
      BY <1>3, <2>1, <2>2, <3>1 DEF Distinct
    <3> QED  BY <1>7, <3>2
  <2> QED  BY <1>1, <1>5, <2>3, <2>4 DEF Distinct
<1>10. AddedOnce'
  <2>1. Newest' = Newest
    BY <1>1 DEF Newest
  <2>2. IdsOK(lastIds)'
    BY <1>1, <1>4, <2>1 DEF OnceOK, Start, IdsOK
  <2>3. \A d \in Range(handled') \union Range(t) : d.id \in Range(lastIds[d.group])
    BY <1>3, <1>4, <1>6, <1>7 DEF OnceOK, Start
  <2>4. OnceOK(Start)'
    BY <1>1, <1>5, <1>6, <1>9, <2>2, <2>3 DEF OnceOK, Start, IdsOK, Distinct
  <2> QED  BY <1>1, <1>4, <1>7, <1>8, <2>1, <2>4 DEF AddedOnce
<1>11. ~Fresh'
  <2>1. Len(handled) \in Nat
    BY <1>4
  <2> QED  BY <1>4, <1>7, <2>1 DEF Fresh
<1>12. cacheLast' = [g \in Group |-> cacheLast'[g]] /\ \A g \in Group : cacheLast'[g] # None
  BY <1>1 DEF OnceInv, FreshInv
<1> QED  BY <1>1, <1>3, <1>10, <1>11, <1>12, StagedOnce

(* A new batch is newer than every id.                                     *)
LEMMA CommitOnce ==
    ASSUME LogInv, OnceInv, MaxId <= MaxEventIds, NEW b \in Batches, Commit(b)
    PROVE  OnceInv'
<1>1. /\ Newest \in Nat /\ b.id = Newest + 1 /\ b.id <= MaxEventIds /\ b.group \in Group
      /\ \A c \in committed : c.id \in 1..Newest /\ c.group \in Group
      /\ b \notin committed
      /\ IsFiniteSet(committed)
  <2>1. Numbered /\ b.id = Newest + 1 /\ b.id \in 1..MaxId
    BY DEF LogInv, RestInv, ServerInv, Commit, Newest, Batches, Ids
  <2>2. MaxId \in Nat /\ MaxEventIds \in Nat
    BY ClientAssumption
  <2>3. b.id <= MaxEventIds
    BY <2>1, <2>2
  <2> QED  BY <2>1, <2>3, NumberedNat DEF Numbered, Batches
<1>2. committed' = committed \union {b} /\ Newest' = Newest + 1
  BY <1>1, FS_AddElement DEF Commit, Newest
<1>3. /\ UNCHANGED <<members, lastIds, known, stray, mode, connections, conn, messageQueue,
                     messagesPaused, inits, eventQueue, handled, cacheLast, stage>>
      /\ channel' = IF conn = "open" /\ b.group \in members THEN Append(channel, b) ELSE channel
  BY DEF Commit, idVars, queueVars, cacheVars
<1>4. Messages' \subseteq Messages \union {b}
  <2>1. Range(Append(channel, b)) = Range(channel) \union {b}
    <3>1. channel \in Seq(committed')
      BY <1>2 DEF LogInv, RestInv, MessagesInv
    <3> QED  BY <1>2, <3>1, ExtendsAppend
  <2> QED  BY <1>3, <2>1 DEF Messages
<1>5. Fresh' = Fresh
  BY <1>3 DEF Fresh
<1>6. AddedOnce'
  <2>1. handled \in Seq(committed) /\ IsInjective(handled) /\ OnceOK(Start)
    BY DEF OnceInv, AddedOnce
  <2>2. ASSUME NEW g \in Group PROVE lastIds[g] \in Seq(0..Newest')
    <3>1. lastIds[g] \in Seq(0..Newest)
      BY <2>1 DEF OnceOK, Start, IdsOK
    <3>2. 0..Newest \subseteq 0..Newest'
      BY <1>1, <1>2
    <3> QED  BY <3>1, <3>2, SequenceGrows
  <2>3. lastIds \in [Group -> Seq(0..Newest')]
    <3>1. lastIds \in [Group -> Seq(0..Newest)]
      BY <2>1 DEF OnceOK, Start, IdsOK
    <3>2. lastIds = [g \in Group |-> lastIds[g]]
      BY <3>1
    <3> QED  BY <2>2, <3>2
  <2>4. IdsOK(lastIds)'
    BY <1>3, <2>1, <2>3 DEF OnceOK, Start, IdsOK
  <2>5. Distinct(eventQueue)'
    BY <1>3, <1>5, <2>1 DEF OnceOK, Start, Distinct
  <2>6. eventQueue \in Seq(committed') /\ handled \in Seq(committed')
    BY <1>2, <2>1, SequenceGrows DEF OnceOK, Start
  <2>7. OnceOK(Start)'
    BY <1>3, <2>1, <2>4, <2>5, <2>6 DEF OnceOK, Start, IdsOK, Distinct
  <2> QED  BY <1>1, <1>2, <1>3, <2>1, <2>6, <2>7 DEF AddedOnce
<1>7. ASSUME NEW g \in Group PROVE LastOf(lastIds[g]) < b.id
  <2>1. LastOf(lastIds[g]) \in 0..Newest
    BY LastIsNat
  <2> QED  BY <1>1, <2>1
<1>8. MessagesOnce'
  <2> SUFFICES ASSUME NEW m \in Messages' PROVE Fits(m, lastIds')
    BY DEF MessagesOnce, Fits
  <2>1. CASE m \in Messages
    BY <1>3, <2>1 DEF OnceInv, MessagesOnce, Fits
  <2>2. CASE m = b
    <3>1. LastOf(lastIds[b.group]) \in 0..Newest
      BY <1>1, LastIsNat
    <3>2. b.id > LastOf(lastIds[b.group])
      BY <1>1, <3>1
    <3> QED  BY <1>3, <2>2, <3>2 DEF Fits
  <2> QED  BY <1>4, <2>1, <2>2
<1>9. OnceInits'
  <2> SUFFICES ASSUME NEW d \in Connections PROVE OnceInit(inits[d])'
    BY DEF OnceInits
  <2>1. PICK i : i = inits[d]
    OBVIOUS
  <2>2. OnceInit(i) /\ i.loaded \subseteq committed
    BY <2>1 DEF OnceInv, OnceInits, LogInv, RestInv, InitsInv, InitOK
  <2>3. ASSUME NEW x \in i.loaded, NEW c \in committed', Older(c, x)
        PROVE  c \in i.loaded \/ c.id <= LastOf(lastIds[x.group])
    <3>1. x.id \in 1..Newest
      BY <1>1, <2>2
    <3>2. c # b
      BY <1>1, <2>3, <3>1 DEF Older
    <3> QED  BY <1>2, <2>2, <2>3, <3>2 DEF OnceInit
  <2>4. OnceInit(i)'
    BY <1>3, <1>5, <2>2, <2>3 DEF OnceInit
  <2>5. inits'[d] = i
    BY <1>3, <2>1
  <2> QED  BY <2>4, <2>5 DEF OnceInit
<1>10. FreshInv'
  <2>1. ASSUME Fresh, NEW m \in Messages' PROVE cacheLast[m.group] < m.id
    <3>1. CASE m \in Messages
      BY <2>1, <3>1 DEF OnceInv, FreshInv
    <3>2. CASE m = b
      <4>1. cacheLast[b.group] \in 0..Newest
        BY <1>1 DEF OnceInv, FreshInv, LogInv, RestInv, CacheInv
      <4> QED  BY <1>1, <3>2, <4>1
    <3> QED  BY <1>4, <3>1, <3>2
  <2>2. messagesPaused' = messagesPaused /\ FirstInit' = FirstInit
    BY <1>3, <1>5 DEF FirstInit
  <2> QED  BY <1>3, <1>5, <2>1, <2>2 DEF OnceInv, FreshInv
<1> QED  BY <1>6, <1>8, <1>9, <1>10 DEF OnceInv

LEMMA CrashOnce ==
    ASSUME LogInv, OnceInv \/ Trapped, Crash
    PROVE  OnceInv'
<1>1. /\ UNCHANGED <<committed, members, connections, cacheLast>>
      /\ eventQueue' = << >> /\ stage' = "idle" /\ lastIds' = NoInit.ids /\ handled' = << >>
      /\ channel' = << >> /\ messageQueue' = << >> /\ messagesPaused' = FALSE /\ conn' = "down"
      /\ known' = {} /\ stray' = FALSE /\ mode' = "login"
      /\ inits' = [c \in Connections |-> NoInit]
  BY DEF Crash, serverVars
<1>2. Newest' = Newest /\ Newest \in Nat /\ Newest <= MaxEventIds /\ NoInit.ids = [g \in Group |-> << >>]
  BY <1>1, NewestNat DEF Newest, NoInit, OnceInv, AddedOnce, Trapped, TrappedInits
<1>3. NoInit.phase = "none" /\ NoInit.loaded = {}
  BY DEF NoInit
<1> HIDE DEF NoInit
<1>4. ASSUME NEW c \in Connections PROVE inits'[c].phase = "none" /\ inits'[c].loaded = {}
  BY <1>1, <1>3
<1>5. AddedOnce'
  <2>1. PICK q : q = << >>
    OBVIOUS
  <2>2. lastIds' \in [Group -> Seq(0..Newest')] /\ \A g \in Group : Len(lastIds'[g]) <= 1
    BY <1>1, <1>2
  <2> QED  BY <1>1, <1>2, <2>1, <2>2, FreshAddedNext
<1>6. Messages' = {}
  BY <1>1 DEF Messages, Range
<1>7. OnceInits'
  <2> SUFFICES ASSUME NEW d \in Connections PROVE OnceInit(inits[d])'
    BY DEF OnceInits
  <2>1. PICK i : i = inits'[d]
    OBVIOUS
  <2>2. OnceInit(i)'
    BY <1>4, <2>1, IdleOnce
  <2> QED  BY <2>1, <2>2 DEF OnceInit
<1>8. FreshInv'
  <2>1. Fresh'
    BY <1>1 DEF Fresh
  <2>2. FirstInit'
    BY <1>4 DEF FirstInit
  <2>3. /\ members' = Group
        /\ cacheLast' = [g \in Group |-> cacheLast'[g]] /\ \A g \in Group : cacheLast'[g] # None
    BY <1>1 DEF OnceInv, FreshInv, Trapped, TrappedInits
  <2> QED  BY <1>1, <1>4, <1>6, <2>1, <2>2, <2>3 DEF FreshInv
<1> QED  BY <1>5, <1>6, <1>7, <1>8 DEF OnceInv, MessagesOnce

(* Only a restart ends the trap.                                           *)
LEMMA StaysTrapped ==
    ASSUME Trapped, UNCHANGED <<members, known, stray, cacheLast>>, Newest' <= MaxEventIds, TrappedInits'
    PROVE  Trapped'
  BY DEF Trapped, TrappedInits

(* A step of the initialization of connection c to n.                      *)
LEMMA TrappedInit ==
    ASSUME LogInv, Trapped, NEW c \in Connections, NEW n, inits' = [inits EXCEPT ![c] = n],
           UNCHANGED mode, conn' \in {conn, "down"} \/ mode = "reconnect",
           n.phase # "retrieve", n.phase = "load" => n.existing,
           n.phase # "none" => inits[c].phase # "none" \/ mode = "reconnect"
    PROVE  TrappedInits'
<1>1. inits'[c] = n /\ \A d \in Connections : d # c => inits'[d] = inits[d]
  BY DEF LogInv, LoadInv, InitsAreRecords
<1> QED  BY <1>1 DEF Trapped, TrappedInits

LEMMA TrappedStarts ==
    ASSUME LogInv, Trapped, mode = "reconnect", NEW c \in Connections, StartInit(c), UNCHANGED mode
    PROVE  TrappedInits'
<1> DEFINE i == [NoInit EXCEPT !.phase = "load", !.existing = TRUE, !.todo = members]
<1>1. inits' = [inits EXCEPT ![c] = i]
  BY DEF StartInit, Trapped, TrappedInits
<1>2. i.phase = "load" /\ i.existing
  BY DEF NoInit
<1> HIDE DEF i
<1>3. PICK n : n = i
  OBVIOUS
<1> QED  BY <1>1, <1>2, <1>3, TrappedInit

LEMMA TrappedStep ==
    ASSUME LogInv, Trapped, Joinable = {}, Revocable = {}, MaxId <= MaxEventIds, [ClientNext]_clientVars
    PROVE  OnceInv' \/ Trapped'
<1>1. CASE Crash
  BY <1>1, CrashOnce
<1>2. ASSUME NEW b \in Batches, Commit(b) PROVE Trapped'
  <2>1. Newest' <= MaxEventIds
    <3>1. Numbered /\ b.id = Newest + 1 /\ b.id \in 1..MaxId /\ b \notin committed
      BY <1>2, NumberedNat DEF LogInv, RestInv, ServerInv, Commit, Newest, Batches, Ids, Numbered
    <3>2. IsFiniteSet(committed) /\ Newest \in Nat /\ MaxId \in Nat /\ MaxEventIds \in Nat
      BY <3>1, NumberedNat, ClientAssumption DEF Numbered
    <3>3. Newest' = Newest + 1
      BY <1>2, <3>1, <3>2, FS_AddElement DEF Commit, Newest
    <3> QED  BY <3>1, <3>2, <3>3
  <2> QED  BY <1>2, <2>1, StaysTrapped DEF Commit, Trapped, TrappedInits, cacheVars, idVars
<1>3. CASE Connect
  <2>1. UNCHANGED <<members, known, stray, cacheLast, committed, inits>> /\ mode' = "reconnect"
    BY <1>3 DEF Connect, serverVars, idVars, cacheVars, Trapped, TrappedInits
  <2>2. Newest' <= MaxEventIds
    BY <2>1 DEF Trapped, TrappedInits, Newest
  <2>3. TrappedInits'
    BY <2>1 DEF Trapped, TrappedInits
  <2> QED  BY <2>1, <2>2, <2>3, StaysTrapped
<1>4. CASE Open
  <2>1. /\ UNCHANGED <<members, known, stray, cacheLast, committed, mode>> /\ StartInit(connections)
        /\ conn = "connecting"
    BY <1>4 DEF Open, serverVars, idVars, cacheVars
  <2>2. mode = "reconnect" /\ connections \in Connections
    BY <2>1 DEF Trapped, TrappedInits, LogInv, LoadInv
  <2>3. Newest' <= MaxEventIds
    BY <2>1 DEF Trapped, TrappedInits, Newest
  <2> QED  BY <2>1, <2>2, <2>3, TrappedStarts, StaysTrapped
<1>5. CASE ConnectionLost
  <2>1. UNCHANGED <<members, known, stray, cacheLast, committed, mode, inits>> /\ conn' = "down"
    BY <1>5 DEF ConnectionLost, Lose, serverVars, idVars, cacheVars
  <2>2. Newest' <= MaxEventIds /\ TrappedInits'
    BY <2>1 DEF Trapped, Newest, TrappedInits
  <2> QED  BY <2>1, <2>2, StaysTrapped
<1>6. CASE Receive
  <2>1. UNCHANGED <<members, known, cacheLast, committed, mode, conn, inits>>
    BY <1>6 DEF Receive, serverVars, cacheVars
  <2>2. stray' = stray
    BY <1>6 DEF Receive, Enqueue, Trapped, TrappedInits
  <2>3. Newest' <= MaxEventIds /\ TrappedInits'
    BY <2>1 DEF Trapped, Newest, TrappedInits
  <2> QED  BY <2>1, <2>2, <2>3, StaysTrapped
<1>7. CASE \/ UNCHANGED clientVars \/ CacheWrites \/ BatchDone \/ BatchUnavailable \/ BatchFails
           \/ RetryBatch
  <2>1. UNCHANGED <<members, known, stray, cacheLast, committed, mode, conn, inits>>
    BY <1>7 DEF clientVars, CacheWrites, BatchDone, BatchUnavailable, BatchFails, RetryBatch, serverVars,
                idVars, cacheVars, connVars
  <2>2. Newest' <= MaxEventIds /\ TrappedInits'
    BY <2>1 DEF Trapped, Newest, TrappedInits
  <2> QED  BY <2>1, <2>2, StaysTrapped
<1>8. CASE CacheMarks
  <2>1. UNCHANGED <<members, known, stray, committed, mode, conn, inits>>
    BY <1>8 DEF CacheMarks, serverVars, idVars, connVars
  <2>2. Newest' <= MaxEventIds /\ TrappedInits'
    BY <2>1 DEF Trapped, Newest, TrappedInits
  <2>3. PICK b : b = Head(eventQueue)
    OBVIOUS
  <2>4. b.group \in Group /\ b.id # None
    <3>1. eventQueue \in Seq(committed) /\ eventQueue # << >>
      BY <1>8 DEF CacheMarks, LogInv, RestInv, QueueInv, StageInv
    <3>2. b \in committed
      BY <2>3, <3>1
    <3> QED  BY <3>2, IdOfCommitted, ClientAssumption
  <2>5. cacheLast' = [cacheLast EXCEPT ![b.group] = b.id]
    BY <1>8, <2>3 DEF CacheMarks
  <2>6. cacheLast' = [g \in Group |-> IF g = b.group THEN b.id ELSE cacheLast[g]]
    BY <2>4, <2>5 DEF Trapped, TrappedInits
  <2>7. cacheLast' = [g \in Group |-> cacheLast'[g]] /\ \A g \in Group : cacheLast'[g] # None
    BY <2>4, <2>6 DEF Trapped, TrappedInits
  <2> QED  BY <2>1, <2>2, <2>7 DEF Trapped, TrappedInits
<1>9. ASSUME NEW c \in Connections, NEW g \in Group, Load(c, g) PROVE Trapped'
  <2> DEFINE missed == {b \in InLog(g) : b.id > LastOf(lastIds[g])}
             rest == inits[c].todo \ {g}
             phase == IF rest = {} THEN "add" ELSE "load"
             i == [inits[c] EXCEPT !.todo = rest, !.loaded = @ \union missed, !.phase = phase]
  <2>1. UNCHANGED <<members, known, stray, cacheLast, committed, mode, conn>> /\ inits[c].phase = "load"
    BY <1>9 DEF Load, serverVars, idVars, cacheVars, connVars
  <2>2. inits' = [inits EXCEPT ![c] = i]
    BY <1>9, InitOfRecord DEF Load, InitFields, LogInv
  <2>3. PICK j : j = inits[c]
    OBVIOUS
  <2>4. IsInit(j) /\ j.existing
    BY <2>1, <2>3 DEF LogInv, LoadInv, InitsAreRecords, Trapped, TrappedInits
  <2>5. PICK n : n = i
    OBVIOUS
  <2>6. n.phase \in {"load", "add"} /\ n.existing
    <3> HIDE DEF missed
    <3> QED  BY <2>3, <2>4, <2>5 DEF IsInit, InitFields
  <2> HIDE DEF i
  <2>7. TrappedInits'
    BY <2>1, <2>2, <2>5, <2>6, TrappedInit
  <2>8. Newest' <= MaxEventIds
    BY <2>1 DEF Trapped, TrappedInits, Newest
  <2> QED  BY <2>1, <2>7, <2>8, StaysTrapped
<1>10. ASSUME NEW c \in Connections, AddMissed(c) \/ ResumeQueues(c) \/ InitFails(c) PROVE Trapped'
  <2>1. UNCHANGED <<members, known, cacheLast, committed, mode, conn>>
    BY <1>10 DEF AddMissed, ResumeQueues, InitFails, serverVars, cacheVars, connVars
  <2>2. stray' = stray
    BY <1>10 DEF AddMissed, ResumeQueues, InitFails, Enqueue, Trapped, TrappedInits
  <2>3. PICK n : /\ n.phase \in {"none", "resume"} /\ inits' = [inits EXCEPT ![c] = n]
                 /\ n.phase # "none" => inits[c].phase # "none"
    <3>1. CASE AddMissed(c)
      <4>1. PICK n : n = [NoInit EXCEPT !.phase = "resume"]
        OBVIOUS
      <4>2. n.phase = "resume"
        BY <4>1 DEF NoInit
      <4> QED  BY <3>1, <4>1, <4>2 DEF AddMissed
    <3>2. CASE ResumeQueues(c) \/ InitFails(c)
      <4>1. PICK n : n = NoInit
        OBVIOUS
      <4>2. n.phase = "none"
        BY <4>1 DEF NoInit
      <4> QED  BY <3>2, <4>1, <4>2 DEF ResumeQueues, InitFails
    <3> QED  BY <1>10, <3>1, <3>2
  <2>4. TrappedInits'
    BY <2>1, <2>3, TrappedInit
  <2>5. Newest' <= MaxEventIds
    BY <2>1 DEF Trapped, TrappedInits, Newest
  <2> QED  BY <2>1, <2>2, <2>4, <2>5, StaysTrapped
<1>11. ASSUME NEW c \in Connections, InitDisconnected(c) \/ InitUnavailable(c) PROVE Trapped'
  <2>1. UNCHANGED <<members, cacheLast, committed, mode>> /\ conn' \in {conn, "down"}
    BY <1>11 DEF InitDisconnected, InitUnavailable, Lose, serverVars, cacheVars, connVars
  <2>2. inits[c].phase = "load" /\ inits[c].existing
    BY <1>11 DEF InitDisconnected, InitUnavailable, Trapped, TrappedInits
  <2>3. UNCHANGED <<known, stray>>
    BY <1>11, <2>2 DEF InitDisconnected, InitUnavailable, idVars
  <2>4. PICK n : n \in {NoInit, [NoInit EXCEPT !.phase = "wait"]} /\ inits' = [inits EXCEPT ![c] = n]
    BY <1>11 DEF InitDisconnected, InitUnavailable
  <2>5. n.phase \in {"none", "wait"}
    BY <2>4 DEF NoInit
  <2>6. TrappedInits'
    BY <2>1, <2>2, <2>4, <2>5, TrappedInit
  <2>7. Newest' <= MaxEventIds
    BY <2>1 DEF Trapped, TrappedInits, Newest
  <2> QED  BY <2>1, <2>3, <2>6, <2>7, StaysTrapped
<1>12. ASSUME NEW c \in Connections, RetryInit(c) PROVE Trapped'
  <2>1. UNCHANGED <<members, known, stray, cacheLast, committed, mode, conn>> /\ inits[c].phase = "wait"
    BY <1>12 DEF RetryInit, serverVars, idVars, cacheVars, connVars
  <2>2. mode = "reconnect"
    BY <2>1 DEF Trapped, TrappedInits
  <2>3. TrappedInits'
    <3>1. CASE retry = c
      BY <1>12, <2>1, <2>2, <3>1, TrappedStarts DEF RetryInit
    <3>2. CASE retry # c
      <4>1. PICK n : n = NoInit
        OBVIOUS
      <4>2. n.phase = "none"
        BY <4>1 DEF NoInit
      <4>3. inits' = [inits EXCEPT ![c] = n]
        BY <1>12, <3>2, <4>1 DEF RetryInit
      <4> QED  BY <2>1, <2>2, <4>2, <4>3, TrappedInit
    <3> QED  BY <3>1, <3>2
  <2>4. Newest' <= MaxEventIds
    BY <2>1 DEF Trapped, TrappedInits, Newest
  <2> QED  BY <2>1, <2>3, <2>4, StaysTrapped
<1>13. \A g \in Joinable : ~Join(g)
  OBVIOUS
<1>14. \A c \in Connections, g \in Group : ~LoadForbidden(c, g) /\ ~Retrieve(c, g)
  BY DEF LoadForbidden, Retrieve, Trapped, TrappedInits
<1>15. \A c \in Connections : ~SetLastIds(c)
  BY DEF SetLastIds, Trapped, TrappedInits
<1> QED  BY <1>1, <1>2, <1>3, <1>4, <1>5, <1>6, <1>7, <1>8, <1>9, <1>10, <1>11, <1>12, <1>13, <1>14, <1>15
         DEF ClientNext

LEMMA OnceInit0 ==
    ASSUME ~EmptyCache, Joinable = {}
    PROVE  ClientInit => OnceInv
<1> SUFFICES ASSUME ClientInit PROVE OnceInv
  OBVIOUS
<1>1. /\ committed = {} /\ members = Group /\ conn = "down" /\ channel = << >> /\ mode = "login"
      /\ lastIds = [g \in Group |-> << >>] /\ known = {} /\ stray = FALSE /\ messageQueue = << >>
      /\ messagesPaused = FALSE /\ eventQueue = << >> /\ stage = "idle" /\ handled = << >>
      /\ inits = [c \in Connections |-> NoInit]
      /\ cacheLast \in [Group -> {MinId}]
  BY DEF ClientInit
<1>2. Newest = 0 /\ 0 <= MaxEventIds
  BY <1>1, FS_EmptySet, ClientAssumption DEF Newest
<1>3. NoInit.phase = "none" /\ NoInit.loaded = {}
  BY DEF NoInit
<1>4. ASSUME NEW c \in Connections PROVE inits[c].phase = "none" /\ inits[c].loaded = {}
  BY <1>1, <1>3
<1>5. AddedOnce
  <2>1. PICK q : q = << >>
    OBVIOUS
  <2>2. lastIds \in [Group -> Seq(0..Newest)] /\ \A g \in Group : Len(lastIds[g]) <= 1
    BY <1>1
  <2> QED  BY <1>1, <1>2, <2>1, <2>2, FreshAdded
<1>6. Messages = {}
  BY <1>1 DEF Messages, Range
<1>7. OnceInits
  BY <1>4 DEF OnceInits, OnceInit
<1>8. FreshInv
  <2>1. Fresh
    BY <1>1 DEF Fresh
  <2>2. FirstInit
    BY <1>4 DEF FirstInit
  <2>3. cacheLast = [g \in Group |-> cacheLast[g]] /\ \A g \in Group : cacheLast[g] # None
    BY <1>1, ClientAssumption DEF MinId
  <2> QED  BY <1>1, <1>4, <1>6, <2>1, <2>2, <2>3 DEF FreshInv
<1> QED  BY <1>5, <1>6, <1>7, <1>8 DEF OnceInv, MessagesOnce

LEMMA OnceStep ==
    ASSUME ~Overlap, Joinable = {}, Revocable = {}, MaxId <= MaxEventIds
    PROVE  LogInv /\ (OnceInv \/ Trapped) /\ [ClientNext]_clientVars => (OnceInv \/ Trapped)'
<1> SUFFICES ASSUME LogInv, OnceInv \/ Trapped, [ClientNext]_clientVars
             PROVE  OnceInv' \/ Trapped'
  OBVIOUS
<1>1. CASE Trapped
  BY <1>1, TrappedStep
<1>2. CASE OnceInv
  <2>1. ASSUME \/ BatchUnavailable \/ BatchFails \/ RetryBatch \/ CacheWrites \/ UNCHANGED clientVars
        PROVE  OnceInv'
    BY <1>2, <2>1, WaitsOnce
  <2>2. \A g \in Joinable : ~Join(g)
    OBVIOUS
  <2>3. \A c \in Connections, g \in Group : ~LoadForbidden(c, g)
    BY DEF LoadForbidden
  <2>4. ASSUME ClientNext PROVE OnceInv' \/ Trapped'
    BY <1>2, <2>1, <2>2, <2>3, <2>4, CommitOnce, ConnectOnce, OpenOnce, ConnectionLostOnce, ReceiveOnce,
       RetrieveOnce, LoadOnce, SetLastIdsOnce, AddMissedOnce, ResumeQueuesOnce, InitDisconnectedOnce,
       InitUnavailableOnce, InitFailsOnce, RetryInitOnce, CacheMarksOnce, BatchDoneOnce, CrashOnce
    DEF ClientNext
  <2> QED  BY <2>1, <2>4
<1> QED  BY <1>1, <1>2

(* What is added once is not there twice.                                  *)
LEMMA OnceNotTwice == LogInv /\ (OnceInv \/ Trapped) => NotTwice
<1>1. ASSUME Trapped PROVE NotTwice
  BY <1>1 DEF Trapped, TrappedInits, NotTwice
<1>2. ASSUME LogInv, OnceInv PROVE NotTwice
  <2>1. /\ handled \in Seq(committed) /\ eventQueue \in Seq(committed)
        /\ IsInjective(handled) /\ Distinct(eventQueue)
    BY <1>2 DEF OnceInv, AddedOnce, OnceOK, Start
  <2>2. PICK h \in Seq(committed) : h = handled
    BY <2>1
  <2>3. PICK q \in Seq(committed) : q = eventQueue
    BY <2>1
  <2>4. PICK r : r = h \o q
    OBVIOUS
  <2>5. /\ Len(h) \in Nat /\ Len(q) \in Nat /\ DOMAIN h = 1..Len(h) /\ DOMAIN r = 1..(Len(h) + Len(q))
        /\ \A k \in 1..Len(h) : r[k] = h[k]
        /\ \A k \in 1..(Len(h) + Len(q)) : k \notin 1..Len(h) => k - Len(h) \in 1..Len(q) /\ r[k] = q[k - Len(h)]
    BY <2>4
  <2>6. ASSUME NEW j \in DOMAIN r, NEW k \in DOMAIN r, r[j] = r[k] PROVE j = k
    <3>1. \A m \in 1..Len(h) : h[m] \in Range(handled)
      BY <2>2, <2>5 DEF Range
    <3>2. \A m \in 1..Len(q) : q[m] \notin Range(handled)
      BY <2>1, <2>3 DEF Distinct
    <3>3. CASE j \in 1..Len(h) /\ k \in 1..Len(h)
      <4>1. h[j] = h[k]
        BY <2>5, <2>6, <3>3
      <4> QED  BY <2>1, <2>2, <2>5, <3>3, <4>1 DEF IsInjective
    <3>4. CASE j \notin 1..Len(h) /\ k \notin 1..Len(h)
      <4>1. PICK a, b \in 1..Len(q) : a = j - Len(h) /\ b = k - Len(h) /\ q[a] = r[j] /\ q[b] = r[k]
        BY <2>5, <3>4
      <4>2. a = b
        BY <2>1, <2>3, <2>6, <4>1 DEF Distinct
      <4>3. j \in Int /\ k \in Int
        BY <2>5
      <4> QED  BY <2>5, <4>1, <4>2, <4>3
    <3>5. ~(j \in 1..Len(h) /\ k \notin 1..Len(h))
      BY <2>5, <2>6, <3>1, <3>2
    <3>6. ~(j \notin 1..Len(h) /\ k \in 1..Len(h))
      BY <2>5, <2>6, <3>1, <3>2
    <3> QED  BY <3>3, <3>4, <3>5, <3>6
  <2> QED  BY <2>2, <2>3, <2>4, <2>6 DEF NotTwice
<1> QED  BY <1>1, <1>2

(* A batch of a group whose ids are kept is not processed again once its   *)
(* processing has succeeded, although a message may arrive that was loaded *)
(* too, a load may fail and a batch may fail at any stage and be processed *)
(* again: the stored ids tell that it was already added                    *)
(* (EventBusClient.ts:67-69, 434-440, 634-655). The ids of MaxEventIds     *)
(* batches are stored; with more batches than that an id may be forgotten  *)
(* before its message comes. The assumptions on the cache and the groups   *)
(* are those under which the first initialization gives every group its    *)
(* entry in lastEntityEventIds; a group that is joined later has none, nor *)
(* has any if that initialization fails before it has set them.            *)
THEOREM NotTwiceAlways ==
    ASSUME ~Overlap, ~EmptyCache, Joinable = {}, Revocable = {}, MaxId <= MaxEventIds
    PROVE  ClientSpec => []NotTwice
<1>1. ClientInit => OnceInv \/ Trapped
  BY OnceInit0
<1>2. LogInv /\ (OnceInv \/ Trapped) /\ [ClientNext]_clientVars => (OnceInv \/ Trapped)'
  BY OnceStep
<1>3. LogInv /\ (OnceInv \/ Trapped) => NotTwice
  BY OnceNotTwice
<1>4. ClientSpec => []LogInv
  BY LogAlways
<1> QED  BY <1>1, <1>2, <1>3, <1>4, PTL DEF ClientSpec
=============================================================================
