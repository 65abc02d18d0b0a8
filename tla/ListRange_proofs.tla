------------------------ MODULE ListRange_proofs ------------------------
(***************************************************************************)
(* Proof that the range of a list in the cache has no gap and nothing      *)
(* outdated, for any number of elements, chunk size and number of changes, *)
(* when one view reads at a time.                                          *)
(*                                                                         *)
(* The invariant says of every value that was read or is cached that it is *)
(* the server's or that a pending event will mend it (Fits): an event that *)
(* is being handled counts for what was cached before, but not for what    *)
(* was read meanwhile (Rest).  An answer tells about the elements that it  *)
(* gives and about those that it leaves out (Covers); since the server     *)
(* leaves no gap (NearestWithoutGap), all that a new bound adds to the     *)
(* range is covered by the answer (RowOfAnswer).                           *)
(***************************************************************************)
EXTENDS ListRange, FiniteSetTheorems, TLAPS

-----------------------------------------------------------------------------
(* What a value that was read may lack                                     *)

\* A pending event that will replace the value v of an element: what is cached is
\* loaded again or removed, what is not cached is created
Mends(v, e) == IF v = 0 THEN e.op = "CREATE" ELSE e.op # "CREATE"

\* The value v of i is the server's, or one of the events from p on will mend it
Fits(s, evs, i, v, p) ==
    v = s[i] \/ \E k \in p..Len(evs) : evs[k].id = i /\ Mends(v, evs[k])

\* An element that was deleted and is there again will be created
EventsFit(s, evs) ==
    \A k \in 1..Len(evs) : evs[k].op = "DELETE" /\ s[evs[k].id] # 0 =>
        \E j \in (k + 1)..Len(evs) : evs[j].id = evs[k].id /\ evs[j].op = "CREATE"

\* What an answer of the server tells about: the elements that it gives, and that there
\* are no others up to the last of them, or up to the end of the list
Beyond(q, i) == IF q.back THEN i < q.from ELSE i > q.from
Covers(q, i) ==
    /\ Beyond(q, i)
    /\ \/ Cardinality(On(q.got)) < q.n
       \/ \E j \in On(q.got) : IF q.back THEN j <= i ELSE i <= j
GotFits(s, evs, p, q) == \A i \in On(q.got) : Fits(s, evs, i, q.got[i], p)
AnswerFits(s, evs, p, q) ==
    /\ \A i \in On(q.got) : Beyond(q, i)
    /\ \A i \in Ids : Covers(q, i) /\ q.got[i] = 0 => Fits(s, evs, i, 0, p)

\* b is in the range, if there is one
Attached(rows, b) == \A x \in rows : x.lower <= b /\ b <= x.upper

ReaderFits(s, evs, p, rows, q) ==
    q.step # "idle" =>
        /\ q.step \in {"answered", "bounded"} => GotFits(s, evs, p, q)
        /\ q.step = "answered" => AnswerFits(s, evs, p, q) /\ q.kind # "single"
        /\ q.step \in {"planning", "asked", "answered"} /\ q.kind = "within" =>
              Attached(rows, q.start)
        /\ q.step \in {"asked", "answered"} /\ q.kind \in {"within", "away", "towards"} =>
              Attached(rows, q.from)
        /\ q.kind = "new" => q.start \notin Ids /\ q.from = q.start /\ q.back = q.reverse

\* The first event that a value which was just read is not older than
Rest == IF handling.step = "none" THEN 1 ELSE 2
-----------------------------------------------------------------------------
(* The inductive invariant                                                 *)

Events == [op : {"CREATE", "UPDATE", "DELETE"}, id : Ids]
Kinds == {"new", "within", "away", "towards", "single"}
Reads == [step : {"planning", "asked", "answered", "bounded", "stored", "ready"}, kind : Kinds,
          start : Bounds, count : Nat \ {0}, reverse : BOOLEAN, from : Bounds, n : Nat \ {0},
          back : BOOLEAN, since : Int, got : [Ids -> Nat]]
Ranges == [lower : Bounds, upper : Bounds]
TypeInv ==
    /\ server \in [Ids -> Nat] /\ cached \in [Ids -> Nat] /\ changes \in Nat
    /\ events \in Seq(Events)
    /\ handling \in [step : {"none", "asked", "answered"}, got : Nat]
    /\ range \in SUBSET Ranges
    /\ clearing \in [step : {"none", "list", "delete"}, cutoff : Int, mails : SUBSET Ids]
    /\ reader \in [Readers -> Reads \union {Idle}]

EventsInv ==
    /\ EventsFit(server, events)
    /\ handling.step # "none" => events # << >> /\ Event.op # "DELETE"
    /\ handling.step = "answered" => Fits(server, events, Event.id, handling.got, 2)

RangesInv ==
    /\ \A x \in range : x.lower <= x.upper
    /\ \A x, y \in range : x = y

\* A read that has written the bound of the range, but not its elements
Tearing(r) == reader[r].step = "bounded" /\ reader[r].kind # "single"

SyncInv ==
    \A i \in Ids : InRange(i) \/ cached[i] # 0 =>
        \/ Fits(server, events, i, cached[i], 1)
        \/ \E r \in Readers : Tearing(r) /\ reader[r].got[i] # 0

ClearInv ==
    clearing.step # "none" =>
        /\ handling.step = "none"
        /\ \A r \in Readers : Busy(r) => reader[r].kind = "single"
        /\ \A i \in Ids : InRange(i) /\ i < clearing.cutoff => Fits(server, events, i, 0, 1)
        /\ clearing.step = "delete" => \A i \in clearing.mails : i < clearing.cutoff

ReadersInv == \A r \in Readers : ReaderFits(server, events, Rest, range, reader[r])

ListInv ==
    /\ TypeInv
    /\ EventsInv
    /\ RangesInv
    /\ SyncInv
    /\ ClearInv
    /\ ReadersInv

OneReader == \A r, s \in Readers : r = s
-----------------------------------------------------------------------------
\* Sets of ids have a smallest and a biggest element.
LEMMA LeastNumber ==
    ASSUME NEW T \in SUBSET Nat, T # {}
    PROVE  \E b \in T : \A c \in T : b <= c
<1> DEFINE Below == {1..t : t \in T}
<1>1. Below \subseteq FiniteSubsetsOf(Nat)
  <2>1. \A t \in T : 1..t \in SUBSET Nat /\ IsFiniteSet(1..t)
    BY FS_Interval
  <2> QED  BY <2>1 DEF FiniteSubsetsOf
<1>2. Below # {}
  OBVIOUS
<1>3. PICK B \in Below : \A C \in Below : <<C, B>> \notin StrictSubsetOrdering(Nat)
  <2> HIDE DEF Below
  <2> QED  BY <1>1, <1>2, FS_StrictSubsetOrderingWellFounded, WFMin
<1>4. PICK b \in T : B = 1..b
  OBVIOUS
<1>5. ASSUME NEW c \in T, c < b PROVE FALSE
  <2>1. 1..c \subseteq 1..b /\ b \in 1..b /\ b \notin 1..c
    BY <1>5
  <2>2. <<1..c, B>> \in StrictSubsetOrdering(Nat)
    BY <2>1, <1>4 DEF StrictSubsetOrdering
  <2> QED  BY <2>2, <1>3
<1> QED  BY <1>5

\* The smallest of some ids is one of them.
LEMMA MinOfIds ==
    ASSUME NEW S \in SUBSET Ids, S # {}
    PROVE  Min(S) \in S /\ \A i \in S : Min(S) <= i
<1>1. S \in SUBSET Nat
  BY DEF Ids
<1>2. PICK b \in S : \A c \in S : b <= c
  BY <1>1, LeastNumber
<1> QED  BY <1>2 DEF Min

\* The biggest of some ids is one of them.
LEMMA MaxOfIds ==
    ASSUME NEW S \in SUBSET Ids, S # {}
    PROVE  Max(S) \in S /\ \A i \in S : i <= Max(S)
<1> DEFINE T == {MaxId - i : i \in S}
<1>0. MaxId \in Nat /\ \A i \in S : i \in 1..MaxId
  BY ListRangeAssumption DEF Ids
<1>1. T \in SUBSET Nat /\ T # {}
  BY <1>0
<1>2. PICK t \in T : \A u \in T : t <= u
  BY <1>1, LeastNumber
<1>3. PICK b \in S : t = MaxId - b
  OBVIOUS
<1>4. \A i \in S : i <= b
  <2> TAKE i \in S
  <2>1. MaxId - b <= MaxId - i
    BY <1>2, <1>3
  <2> QED  BY <1>0, <2>1
<1>5. \A i \in S : b >= i
  BY <1>0, <1>4
<1>6. \E x \in S : \A y \in S : x >= y
  BY <1>5
<1>7. Max(S) \in S /\ \A y \in S : Max(S) >= y
  BY <1>6 DEF Max
<1> QED  BY <1>0, <1>7

\* Sets of ids can be counted.
LEMMA IdsFinite ==
    ASSUME NEW S \in SUBSET Ids
    PROVE  IsFiniteSet(S) /\ Cardinality(S) \in Nat
<1>1. IsFiniteSet(Ids)
  BY FS_Interval, ListRangeAssumption DEF Ids
<1> QED  BY <1>1, FS_Subset, FS_CardinalityType

\* What the server gives: without a gap, and everything if it is not enough.
LEMMA NearestWithoutGap ==
    ASSUME NEW S \in SUBSET Ids, NEW start \in Int, NEW n \in Nat, NEW reverse \in BOOLEAN,
           NEW found, found = Nearest(S, start, n, reverse),
           NEW i \in S, IF reverse THEN i < start ELSE i > start, i \notin found
    PROVE  /\ Cardinality(found) >= n
           /\ \A j \in found : IF reverse THEN j > i ELSE j < i
<1> DEFINE beyond == {x \in S : IF reverse THEN x < start ELSE x > start}
           nearer(x) == {j \in beyond : IF reverse THEN j > x ELSE j < x}
<1>0. \A x \in beyond : x \in Int /\ x \in Ids
  BY DEF Ids
<1>1. found = {x \in beyond : Cardinality(nearer(x)) < n} /\ found \subseteq beyond
  BY DEF Nearest
<1>2. ASSUME NEW x, NEW y, nearer(x) \subseteq nearer(y)
      PROVE  Cardinality(nearer(x)) <= Cardinality(nearer(y)) /\ Cardinality(nearer(x)) \in Nat
             /\ Cardinality(nearer(y)) \in Nat
  <2>1. nearer(x) \in SUBSET Ids /\ nearer(y) \in SUBSET Ids
    OBVIOUS
  <2> HIDE DEF nearer
  <2> QED  BY <1>2, <2>1, IdsFinite, FS_Subset
<1>3. ASSUME NEW j \in found PROVE IF reverse THEN j > i ELSE j < i
  <2> SUFFICES ASSUME ~(IF reverse THEN j > i ELSE j < i) PROVE FALSE
    OBVIOUS
  <2>1. nearer(i) \subseteq nearer(j)
    BY <1>0, <1>1
  <2>2. Cardinality(nearer(i)) < n
    <3>1. Cardinality(nearer(j)) < n
      BY <1>1
    <3> HIDE DEF nearer
    <3> QED  BY <1>2, <2>1, <3>1
  <2> QED  BY <1>1, <2>2
<1>4. Cardinality(found) >= n
  <2> DEFINE left == beyond \ found
  <2>1. PICK m \in left : \A x \in left : IF reverse THEN x <= m ELSE m <= x
    <3>1. left \in SUBSET Ids /\ left # {}
      BY <1>1
    <3> HIDE DEF left
    <3> QED  BY <3>1, MinOfIds, MaxOfIds
  <2>2. nearer(m) \subseteq found
    <3> SUFFICES ASSUME NEW x \in nearer(m) PROVE x \in found
      OBVIOUS
    <3>1. x \in beyond /\ (IF reverse THEN x > m ELSE x < m) /\ x \in Int /\ m \in Int
      BY <1>0, <2>1
    <3>2. x \notin left
      <4> HIDE DEF left, beyond
      <4> QED  BY <2>1, <3>1
    <3> QED  BY <3>1, <3>2
  <2>3. Cardinality(nearer(m)) <= Cardinality(found) /\ Cardinality(found) \in Nat
        /\ Cardinality(nearer(m)) \in Nat
    <3>1. nearer(m) \in SUBSET Ids /\ found \in SUBSET Ids
      BY <1>1
    <3> HIDE DEF nearer
    <3> QED  BY <2>2, <3>1, IdsFinite, FS_Subset
  <2>4. ~(Cardinality(nearer(m)) < n)
    BY <1>1, <2>1
  <2> HIDE DEF nearer
  <2> QED  BY <2>3, <2>4
<1> QED  BY <1>3, <1>4
-----------------------------------------------------------------------------
(* How a value stays right                                                  *)

\* A change of the server announces itself by an event that mends the old value.
LEMMA FitsAfterChange ==
    ASSUME NEW s \in [Ids -> Nat], NEW evs \in Seq(Events), NEW c \in Ids, NEW w \in Nat,
           NEW op \in {"CREATE", "UPDATE", "DELETE"}, s[c] = 0 <=> op = "CREATE",
           NEW i \in Ids, NEW v \in Nat, NEW p \in Nat \ {0}, p <= Len(evs) + 1,
           Fits(s, evs, i, v, p)
    PROVE  Fits([s EXCEPT ![c] = w], Append(evs, [op |-> op, id |-> c]), i, v, p)
<1> DEFINE e == [op |-> op, id |-> c]
           all == Append(evs, e)
<1>1. /\ Len(all) = Len(evs) + 1 /\ Len(evs) \in Nat
      /\ all[Len(evs) + 1] = e
      /\ \A k \in 1..Len(evs) : all[k] = evs[k]
  OBVIOUS
<1>2. CASE v = s[i] /\ i # c
  BY <1>2 DEF Fits
<1>3. CASE v = s[i] /\ i = c
  <2>1. Mends(v, e)
    BY <1>3 DEF Mends
  <2>2. Len(evs) + 1 \in p..Len(all)
    BY <1>1
  <2> HIDE DEF all
  <2> QED  BY <1>1, <1>3, <2>1, <2>2 DEF Fits
<1>4. CASE v # s[i]
  <2>1. PICK k \in p..Len(evs) : evs[k].id = i /\ Mends(v, evs[k])
    BY <1>4 DEF Fits
  <2>2. k \in p..Len(all)
    BY <1>1
  <2>3. all[k] = evs[k]
    BY <1>1
  <2> HIDE DEF all
  <2> QED  BY <2>1, <2>2, <2>3 DEF Fits
<1> QED  BY <1>2, <1>3, <1>4

\* Counting from the second event on is counting fewer events.
LEMMA FitsFromFirst ==
    ASSUME NEW s, NEW evs \in Seq(Events), NEW i, NEW v, NEW p \in {1, 2}, Fits(s, evs, i, v, p)
    PROVE  Fits(s, evs, i, v, 1)
BY DEF Fits

\* What the first event does not mend, the others do.
LEMMA FitsWithoutFirst ==
    ASSUME NEW s, NEW evs \in Seq(Events), NEW i, NEW v, Fits(s, evs, i, v, 1),
           ~(Head(evs).id = i /\ Mends(v, Head(evs)))
    PROVE  Fits(s, evs, i, v, 2)
<1>1. CASE v = s[i]
  BY <1>1 DEF Fits
<1>2. CASE v # s[i]
  <2>1. PICK k \in 1..Len(evs) : evs[k].id = i /\ Mends(v, evs[k])
    BY <1>2 DEF Fits
  <2>2. k # 1
    <3>1. Head(evs) = evs[1]
      BY <2>1
    <3> QED  BY <2>1, <3>1
  <2>3. k \in 2..Len(evs)
    BY <2>1, <2>2
  <2> QED  BY <2>1, <2>3 DEF Fits
<1> QED  BY <1>1, <1>2

\* The first event is gone: the others follow one place earlier.
LEMMA FitsAfterFirst ==
    ASSUME NEW s, NEW evs \in Seq(Events), evs # << >>, NEW i, NEW v, Fits(s, evs, i, v, 2)
    PROVE  Fits(s, Tail(evs), i, v, 1)
<1>1. CASE v = s[i]
  BY <1>1 DEF Fits
<1>2. CASE v # s[i]
  <2>1. PICK k \in 2..Len(evs) : evs[k].id = i /\ Mends(v, evs[k])
    BY <1>2 DEF Fits
  <2>2. k - 1 \in 1..Len(Tail(evs)) /\ Tail(evs)[k - 1] = evs[k]
    OBVIOUS
  <2>3. PICK j \in 1..Len(Tail(evs)) : Tail(evs)[j] = evs[k]
    BY <2>2
  <2> QED  BY <2>1, <2>3 DEF Fits
<1> QED  BY <1>1, <1>2

\* The same for what the events say about elements that were deleted.
LEMMA EventsFitAfterChange ==
    ASSUME NEW s \in [Ids -> Nat], NEW evs \in Seq(Events), NEW c \in Ids, NEW w \in Nat,
           NEW op \in {"CREATE", "UPDATE", "DELETE"}, s[c] = 0 <=> op = "CREATE",
           op = "DELETE" => w = 0, EventsFit(s, evs)
    PROVE  EventsFit([s EXCEPT ![c] = w], Append(evs, [op |-> op, id |-> c]))
<1> DEFINE e == [op |-> op, id |-> c]
           all == Append(evs, e)
           t == [s EXCEPT ![c] = w]
<1>1. /\ Len(all) = Len(evs) + 1 /\ Len(evs) \in Nat
      /\ all[Len(evs) + 1] = e
      /\ \A k \in 1..Len(evs) : all[k] = evs[k] /\ evs[k] \in Events
  OBVIOUS
<1>2. t[c] = w /\ \A i \in Ids : i # c => t[i] = s[i]
  OBVIOUS
<1>3. e.op = op /\ e.id = c
  OBVIOUS
<1> HIDE DEF all, t, e
<1>4. ASSUME NEW k \in 1..Len(all), all[k].op = "DELETE", t[all[k].id] # 0
      PROVE  \E j \in (k + 1)..Len(all) : all[j].id = all[k].id /\ all[j].op = "CREATE"
  <2>1. k \in 1..Len(evs)
    BY <1>1, <1>2, <1>3, <1>4
  <2>2. evs[k].id \in Ids /\ all[k] = evs[k]
    BY <1>1, <2>1 DEF Events
  <2>3. CASE s[evs[k].id] # 0
    <3>1. PICK j \in (k + 1)..Len(evs) : evs[j].id = evs[k].id /\ evs[j].op = "CREATE"
      BY <1>4, <2>1, <2>2, <2>3 DEF EventsFit
    <3>2. j \in (k + 1)..Len(all) /\ all[j] = evs[j]
      BY <1>1, <2>1
    <3> QED  BY <2>2, <3>1, <3>2
  <2>4. CASE s[evs[k].id] = 0
    <3>1. evs[k].id = c /\ op = "CREATE"
      BY <1>2, <1>4, <2>2, <2>4
    <3>2. Len(all) \in (k + 1)..Len(all)
      BY <1>1, <2>1
    <3> QED  BY <1>1, <1>3, <2>2, <3>1, <3>2
  <2> QED  BY <2>3, <2>4
<1> QED  BY <1>4 DEF EventsFit, all, t, e

\* The events that follow the first one say it without it.
LEMMA EventsFitAfterFirst ==
    ASSUME NEW s, NEW evs \in Seq(Events), evs # << >>, EventsFit(s, evs)
    PROVE  EventsFit(s, Tail(evs))
<1> DEFINE left == Tail(evs)
<1>1. Len(left) = Len(evs) - 1 /\ Len(evs) \in Nat /\ \A k \in 1..Len(left) : left[k] = evs[k + 1]
  OBVIOUS
<1> HIDE DEF left
<1>2. ASSUME NEW k \in 1..Len(left), left[k].op = "DELETE", s[left[k].id] # 0
      PROVE  \E j \in (k + 1)..Len(left) : left[j].id = left[k].id /\ left[j].op = "CREATE"
  <2>1. k + 1 \in 1..Len(evs) /\ left[k] = evs[k + 1]
    BY <1>1
  <2>2. PICK j \in (k + 2)..Len(evs) : evs[j].id = evs[k + 1].id /\ evs[j].op = "CREATE"
    <3>1. PICK k1 \in 1..Len(evs) : k1 = k + 1
      BY <2>1
    <3>2. \E j \in (k1 + 1)..Len(evs) : evs[j].id = evs[k1].id /\ evs[j].op = "CREATE"
      BY <1>2, <2>1, <3>1 DEF EventsFit
    <3> QED  BY <3>1, <3>2
  <2>3. j - 1 \in (k + 1)..Len(left) /\ left[j - 1] = evs[j]
    BY <1>1
  <2> QED  BY <2>1, <2>2, <2>3
<1> QED  BY <1>2 DEF EventsFit, left
-----------------------------------------------------------------------------
(* The range                                                                *)

\* The row that is chosen is the only one.
LEMMA OneRow ==
    ASSUME NEW x \in range, RangesInv
    PROVE  /\ (CHOOSE y \in range : TRUE) = x
           /\ range = {x}
           /\ \A i : InRange(i) <=> x.lower <= i /\ i <= x.upper
<1>1. range = {x}
  BY DEF RangesInv
<1>2. (CHOOSE y \in range : TRUE) \in range
  OBVIOUS
<1> QED  BY <1>1, <1>2 DEF InRange

\* The ids lie between the two ends of the list.
LEMMA BoundsAreIntegers ==
    /\ Bounds \in SUBSET Int /\ Ids \in SUBSET Bounds /\ MaxId \in Nat
    /\ GENERATED_MIN_ID \in Bounds /\ GENERATED_MAX_ID \in Bounds
    /\ GENERATED_MIN_ID \notin Ids /\ GENERATED_MAX_ID \notin Ids
    /\ \A b \in Bounds : GENERATED_MIN_ID <= b /\ b <= GENERATED_MAX_ID
BY ListRangeAssumption DEF Bounds, Ids, GENERATED_MIN_ID, GENERATED_MAX_ID

\* Where a read goes on is in the range.
LEMMA MoreIsAttached ==
    ASSUME NEW x \in range, TypeInv, RangesInv, NEW start \in Bounds, NEW count \in Nat \ {0},
           NEW reverse \in BOOLEAN, x.lower <= start, start <= x.upper,
           NEW more, more = RecalculateRangeRequest(start, count, reverse), more.n > 0
    PROVE  more.n \in Nat \ {0} /\ more.from \in Bounds /\ Attached(range, more.from)
<1> DEFINE inside == {i \in On(cached) : InRange(i)}
           found == Nearest(inside, start, count, reverse)
           rest == [from |-> IF reverse THEN Min(inside) ELSE Max(inside),
                    n |-> count - Cardinality(found)]
<1>1. /\ (CHOOSE y \in range : TRUE) = x /\ range = {x}
      /\ \A i : InRange(i) <=> x.lower <= i /\ i <= x.upper
  BY OneRow
<1>2. x.lower \in Bounds /\ x.upper \in Bounds
  BY DEF TypeInv, Ranges
<1>3. inside \in SUBSET Ids
  BY DEF On
<1>4. Cardinality(found) \in Nat
  <2>1. found \in SUBSET Ids
    BY <1>3 DEF Nearest
  <2> HIDE DEF found
  <2> QED  BY <2>1, IdsFinite
<1>5. ASSUME inside # {}
      PROVE  rest.from \in Bounds /\ x.lower <= rest.from /\ rest.from <= x.upper
  <2>1. Min(inside) \in inside /\ Max(inside) \in inside
    <3> HIDE DEF inside
    <3> QED  BY <1>3, <1>5, MinOfIds, MaxOfIds
  <2>2. rest.from \in inside
    <3> HIDE DEF inside
    <3> QED  BY <2>1
  <2> QED  BY <1>1, <2>2, <1>3, BoundsAreIntegers
<1>6. \/ more = [from |-> start, n |-> 0]
      \/ more = [from |-> start, n |-> count]
      \/ inside # {} /\ more = rest
  <2>1. range # {}
    OBVIOUS
  <2>2. more = RecalculateRangeRequest(start, count, reverse)
    OBVIOUS
  <2> QED  BY <1>1, <2>1, <2>2, Zenon DEF RecalculateRangeRequest
<1>7. CASE more = [from |-> start, n |-> count]
  BY <1>1, <1>7 DEF Attached
<1>8. CASE inside # {} /\ more = rest
  <2>1. more.from = rest.from /\ more.n = count - Cardinality(found)
    BY <1>8
  <2>2. more.n \in Nat \ {0}
    <3> HIDE DEF found
    <3> QED  BY <2>1, <1>4
  <2> HIDE DEF rest
  <2> QED  BY <1>1, <1>5, <1>8, <2>1, <2>2 DEF Attached
<1> QED  BY <1>6, <1>7, <1>8

\* A chunk has at least one element.
LEMMA MaxOfTwo ==
    ASSUME NEW a \in Nat \ {0}, NEW b \in Nat \ {0}
    PROVE  Max({a, b}) \in Nat \ {0}
<1>1. \E x \in {a, b} : \A y \in {a, b} : x >= y
  OBVIOUS
<1>2. Max({a, b}) \in {a, b}
  BY <1>1 DEF Max
<1> QED  BY <1>2
-----------------------------------------------------------------------------
(* The types                                                                *)

\* A read in progress has all of its fields.
LEMMA TypeOfStart ==
    ASSUME TypeInv, NEW r \in Readers, NEW q, q = reader[r], q.step # "idle"
    PROVE  q \in Reads
BY DEF TypeInv, Idle

\* The step of one read leaves the others as they are.
LEMMA TypeOfReader ==
    ASSUME TypeInv, NEW r \in Readers, NEW q \in Reads \union {Idle},
           reader' = [reader EXCEPT ![r] = q]
    PROVE  reader' \in [Readers -> Reads \union {Idle}]
BY DEF TypeInv

\* A change of the server has the types of the invariant.
LEMMA ChangeTyped ==
    ASSUME TypeInv, NEW op \in {"CREATE", "UPDATE", "DELETE"}, NEW i \in Ids, NEW w \in Nat,
           Change(op, i, w)
    PROVE  TypeInv'
<1>1. [op |-> op, id |-> i] \in Events
  BY DEF Events
<1>2. events' \in Seq(Events)
  BY <1>1 DEF TypeInv, Change
<1>3. server' \in [Ids -> Nat] /\ changes' \in Nat
  BY DEF TypeInv, Change
<1> QED  BY <1>2, <1>3 DEF TypeInv, Change, cacheVars

\* A read begins with the plan of its kind.
LEMMA BeginTyped ==
    ASSUME TypeInv, NEW r \in Readers, NEW kind \in Kinds, NEW start \in Bounds,
           NEW count \in Nat \ {0}, NEW reverse \in BOOLEAN, Begin(r, kind, start, count, reverse)
    PROVE  /\ reader' \in [Readers -> Reads \union {Idle}]
           /\ \E q \in Reads : /\ reader' = [reader EXCEPT ![r] = q]
                               /\ q.step = "planning" /\ q.kind = kind /\ q.start = start
                               /\ q.from = start /\ q.back = reverse /\ q.reverse = reverse
<1> DEFINE q == [step |-> "planning", kind |-> kind, start |-> start, count |-> count,
                 reverse |-> reverse, from |-> start, n |-> count, back |-> reverse,
                 since |-> changes - Len(events), got |-> [i \in Ids |-> 0]]
<1>1. changes - Len(events) \in Int
  BY DEF TypeInv
<1>2. q \in Reads
  BY <1>1 DEF Reads
<1>3. reader' = [reader EXCEPT ![r] = q]
  BY DEF Begin
<1>4. q.step = "planning" /\ q.kind = kind /\ q.start = start
      /\ q.from = start /\ q.back = reverse /\ q.reverse = reverse
  OBVIOUS
<1> HIDE DEF q
<1>5. reader' \in [Readers -> Reads \union {Idle}]
  BY <1>2, <1>3, TypeOfReader
<1> QED  BY <1>2, <1>3, <1>4, <1>5

\* A read that asks goes on with the request of its plan.
LEMMA AskTyped ==
    ASSUME TypeInv, NEW r \in Readers, NEW q \in Reads, q = reader[r], NEW from \in Bounds,
           NEW n \in Nat \ {0}, NEW back \in BOOLEAN, Ask(r, from, n, back)
    PROVE  \E a \in Reads :
              /\ reader' = [reader EXCEPT ![r] = a]
              /\ a.step = "asked" /\ a.kind = q.kind /\ a.start = q.start
              /\ a.reverse = q.reverse /\ a.from = from /\ a.n = n /\ a.back = back
<1> DEFINE a == [q EXCEPT !.step = "asked", !.from = from, !.n = n, !.back = back]
<1>1. a \in Reads
  BY DEF Reads
<1>2. a.step = "asked" /\ a.kind = q.kind /\ a.start = q.start /\ a.reverse = q.reverse
      /\ a.from = from /\ a.n = n /\ a.back = back
  BY DEF Reads
<1>3. reader' = [reader EXCEPT ![r] = a]
  BY DEF Ask, TypeInv
<1> QED  BY <1>1, <1>2, <1>3
-----------------------------------------------------------------------------
(* Steps of a read that change nothing else                                 *)

\* When only a read goes on, what it knows must fit the server, the events and the range.
LEMMA ReaderStep ==
    ASSUME ListInv, NEW r \in Readers, NEW q \in Reads \union {Idle},
           reader' = [reader EXCEPT ![r] = q],
           UNCHANGED <<serverVars, eventVars, cacheVars, clearing>>,
           ReaderFits(server, events, Rest, range, q),
           clearing.step # "none" /\ q.step # "idle" => q.kind = "single",
           ~Writing(r)
    PROVE  ListInv'
<1> USE DEF serverVars, eventVars, cacheVars
<1>1. TypeInv'
  <2>1. reader' \in [Readers -> Reads \union {Idle}]
    BY TypeOfReader DEF ListInv
  <2> QED  BY <2>1 DEF ListInv, TypeInv
<1>2. EventsInv'
  BY DEF ListInv, EventsInv, Event
<1>3. RangesInv'
  BY DEF ListInv, RangesInv
<1>4. reader'[r] = q /\ \A s \in Readers : s # r => reader'[s] = reader[s]
  BY DEF ListInv, TypeInv
<1>5. SyncInv'
  <2> SUFFICES ASSUME NEW i \in Ids, InRange(i)' \/ cached'[i] # 0
               PROVE  \/ Fits(server, events, i, cached[i], 1)
                      \/ \E s \in Readers : Tearing(s)' /\ reader'[s].got[i] # 0
    BY DEF SyncInv
  <2>1. InRange(i) \/ cached[i] # 0
    BY DEF InRange
  <2>2. CASE Fits(server, events, i, cached[i], 1)
    BY <2>2
  <2>3. ASSUME NEW s \in Readers, Tearing(s), reader[s].got[i] # 0
        PROVE  Tearing(s)' /\ reader'[s].got[i] # 0
    BY <1>4, <2>3 DEF Writing, Tearing
  <2> QED  BY <2>1, <2>2, <2>3 DEF ListInv, SyncInv
<1>6. ClearInv'
  <2> SUFFICES ASSUME clearing.step # "none" PROVE ClearInv'
    BY DEF ClearInv
  <2>1. \A s \in Readers : Busy(s)' => reader'[s].kind = "single"
    BY <1>4 DEF ListInv, ClearInv, Busy
  <2>2. \A i \in Ids : InRange(i)' => InRange(i)
    BY DEF InRange
  <2> QED  BY <2>1, <2>2 DEF ListInv, ClearInv
<1>7. ReadersInv'
  <2> SUFFICES ASSUME NEW s \in Readers
               PROVE  ReaderFits(server, events, Rest, range, reader'[s])
    BY DEF ReadersInv, Rest
  <2> QED  BY <1>4 DEF ListInv, ReadersInv
<1> QED  BY <1>1, <1>2, <1>3, <1>5, <1>6, <1>7 DEF ListInv

\* loadRange: a range is read within the one that is kept, or from an end of a new list.
LEMMA LoadRangeStep ==
    ASSUME ListInv, ~ClearRaces, ~AnyStart, NEW r \in Readers, NEW start \in Bounds,
           NEW count \in 1..MaxCount, NEW reverse \in BOOLEAN,
           LoadRange(r, start, count, reverse)
    PROVE  ListInv'
<1>1. PICK kind : kind = Kind(start, reverse)
  OBVIOUS
<1>2. kind \in Kinds
  BY <1>1 DEF Kind, Kinds
<1>3. count \in Nat \ {0}
  BY ListRangeAssumption
<1>4. TypeInv /\ RangesInv
  BY DEF ListInv
<1>5. PICK q \in Reads : /\ reader' = [reader EXCEPT ![r] = q]
                         /\ q.step = "planning" /\ q.kind = kind /\ q.start = start
                         /\ q.from = start /\ q.back = reverse /\ q.reverse = reverse
  <2>1. Begin(r, kind, start, count, reverse)
    BY <1>1 DEF LoadRange
  <2> QED  BY <1>2, <1>3, <1>4, <2>1, BeginTyped
<1>6. kind = "within" => Attached(range, start)
  <2> SUFFICES ASSUME kind = "within" PROVE Attached(range, start)
    OBVIOUS
  <2>1. PICK x \in range : TRUE
    BY <1>1 DEF Kind
  <2>2. (CHOOSE y \in range : TRUE) = x /\ range = {x}
    BY <1>4, OneRow
  <2> QED  BY <1>1, <2>2 DEF Kind, Attached
<1>7. kind = "new" => start \notin Ids
  <2>1. kind = "new" => range = {}
    BY <1>1 DEF Kind
  <2> QED  BY <2>1 DEF LoadRange
<1>8. ReaderFits(server, events, Rest, range, q)
  BY <1>5, <1>6, <1>7 DEF ReaderFits
<1>9. ~Writing(r) /\ clearing.step = "none"
      /\ UNCHANGED <<serverVars, eventVars, cacheVars, clearing>>
  BY DEF LoadRange, Busy, Writing
<1> QED  BY <1>5, <1>8, <1>9, ReaderStep

\* load: a single element says nothing about its neighbours.
LEMMA LoadStep ==
    ASSUME ListInv, NEW r \in Readers, NEW i \in Ids, Load(r, i)
    PROVE  ListInv'
<1>1. i \in Bounds /\ 1 \in Nat \ {0} /\ FALSE \in BOOLEAN /\ "single" \in Kinds
  BY BoundsAreIntegers DEF Kinds
<1>2. PICK q \in Reads : /\ reader' = [reader EXCEPT ![r] = q]
                         /\ q.step = "planning" /\ q.kind = "single"
  <2>1. Begin(r, "single", i, 1, FALSE) /\ TypeInv
    BY DEF Load, ListInv
  <2>2. \E q \in Reads : /\ reader' = [reader EXCEPT ![r] = q]
                         /\ q.step = "planning" /\ q.kind = "single" /\ q.start = i
                         /\ q.from = i
    <3>1. PICK kind \in Kinds, reverse \in BOOLEAN : kind = "single" /\ reverse = FALSE
      BY <1>1
    <3>2. Begin(r, kind, i, 1, reverse)
      BY <2>1, <3>1
    <3> QED  BY <1>1, <2>1, <3>1, <3>2, BeginTyped
  <2> QED  BY <2>2
<1>3. ReaderFits(server, events, Rest, range, q)
  BY <1>2 DEF ReaderFits
<1>4. ~Writing(r) /\ UNCHANGED <<serverVars, eventVars, cacheVars, clearing>>
  BY DEF Load, Busy, Writing
<1> QED  BY <1>2, <1>3, <1>4, ReaderStep

\* What is asked from the server goes on from the range.
LEMMA PlanStep ==
    ASSUME ListInv, NEW r \in Readers, Plan(r)
    PROVE  ListInv'
<1>1. PICK q : q = reader[r]
  OBVIOUS
<1>2. /\ q.step = "planning" /\ ~Writing(r)
      /\ UNCHANGED <<serverVars, eventVars, cacheVars, clearing>>
  BY <1>1 DEF Plan, Writing
<1>3. TypeInv /\ RangesInv /\ q \in Reads
  BY <1>1, <1>2, TypeOfStart DEF ListInv
<1>4. ReaderFits(server, events, Rest, range, q)
  BY <1>1 DEF ListInv, ReadersInv
<1>5. clearing.step # "none" => q.kind = "single"
  BY <1>1, <1>2 DEF ListInv, ClearInv, Busy
<1>6. q.kind \in Kinds /\ q.start \in Bounds /\ q.from \in Bounds /\ q.count \in Nat \ {0}
      /\ q.n \in Nat \ {0} /\ q.back \in BOOLEAN /\ q.reverse \in BOOLEAN
  BY <1>3 DEF Reads
\* A request is fine if it goes on from the range, or is the one of a new list.
<1>7. ASSUME NEW from \in Bounds, NEW n \in Nat \ {0}, NEW back \in BOOLEAN,
             Ask(r, from, n, back),
             q.kind \in {"within", "away", "towards"} => Attached(range, from),
             q.kind = "new" => from = q.from /\ back = q.back
      PROVE  ListInv'
  <2>1. PICK a \in Reads :
              /\ reader' = [reader EXCEPT ![r] = a]
              /\ a.step = "asked" /\ a.kind = q.kind /\ a.start = q.start
              /\ a.reverse = q.reverse /\ a.from = from /\ a.n = n /\ a.back = back
    BY <1>1, <1>3, <1>7, AskTyped
  <2>2. ReaderFits(server, events, Rest, range, a)
    BY <1>2, <1>4, <1>7, <2>1 DEF ReaderFits
  <2> QED  BY <1>2, <1>5, <2>1, <2>2, ReaderStep
<1>8. CASE range = {} /\ q.kind \in {"within", "away", "towards"}
  <2>1. reader' = [reader EXCEPT ![r] = Idle]
    BY <1>1, <1>8 DEF Plan
  <2>2. ReaderFits(server, events, Rest, range, Idle) /\ Idle.step = "idle"
    BY DEF ReaderFits, Idle
  <2> QED  BY <1>2, <2>1, <2>2, ReaderStep
<1>9. CASE q.kind \in {"new", "single"}
  <2>1. Ask(r, q.from, q.n, q.back)
    BY <1>1, <1>9 DEF Plan
  <2> QED  BY <1>6, <1>7, <1>9, <2>1
<1>10. ASSUME NEW x \in range, q.kind \in {"within", "away", "towards"}
       PROVE  ListInv'
  <2>1. (CHOOSE y \in range : TRUE) = x /\ range = {x} /\ range # {}
    BY <1>3, OneRow
  <2>2. x.lower \in Bounds /\ x.upper \in Bounds /\ x.lower <= x.upper
    BY <1>3 DEF TypeInv, Ranges, RangesInv
  <2>3. Attached(range, x.lower) /\ Attached(range, x.upper)
    <3>1. x.lower \in Int /\ x.upper \in Int
      BY <2>2, BoundsAreIntegers
    <3> QED  BY <2>1, <2>2, <3>1 DEF Attached
  <2>4. CASE q.kind = "within"
    <3>1. PICK more : more = RecalculateRangeRequest(q.start, q.count, q.reverse)
      OBVIOUS
    <3>2. x.lower <= q.start /\ q.start <= x.upper
      BY <1>2, <1>4, <2>4 DEF ReaderFits, Attached
    <3>3. CASE more.n > 0
      <4>1. more.n \in Nat \ {0} /\ more.from \in Bounds /\ Attached(range, more.from)
        BY <1>3, <1>6, <3>1, <3>2, <3>3, MoreIsAttached
      <4>2. Ask(r, more.from, more.n, q.reverse)
        BY <1>1, <2>1, <2>4, <3>1, <3>3 DEF Plan
      <4> QED  BY <1>6, <1>7, <2>4, <4>1, <4>2
    <3>4. CASE ~(more.n > 0)
      <4> DEFINE a == [q EXCEPT !.step = "ready"]
      <4>1. reader' = [reader EXCEPT ![r].step = "ready"]
        BY <1>1, <2>1, <2>4, <3>1, <3>4 DEF Plan
      <4>2. reader' = [reader EXCEPT ![r] = a]
        BY <1>1, <4>1
      <4>3. a \in Reads /\ a.step = "ready" /\ a.kind = q.kind
        BY <1>3 DEF Reads
      <4>4. ReaderFits(server, events, Rest, range, a)
        BY <2>4, <4>3 DEF ReaderFits
      <4> HIDE DEF a
      <4> QED  BY <1>2, <1>5, <4>2, <4>3, <4>4, ReaderStep
    <3> QED  BY <3>3, <3>4
  <2>5. PICK chunk \in Nat \ {0} : chunk = Max({q.count, ChunkSize})
    BY <1>6, MaxOfTwo, ListRangeAssumption
  <2>6. CASE q.kind = "away"
    <3>1. Ask(r, IF q.reverse THEN x.lower ELSE x.upper, chunk, q.reverse)
      BY <1>1, <2>1, <2>5, <2>6 DEF Plan
    <3> QED  BY <1>6, <1>7, <2>2, <2>3, <2>6, <3>1
  <2>7. CASE q.kind = "towards"
    <3>1. Ask(r, IF q.reverse THEN x.upper ELSE x.lower, chunk, ~q.reverse)
      BY <1>1, <2>1, <2>5, <2>7 DEF Plan
    <3> QED  BY <1>6, <1>7, <2>2, <2>3, <2>7, <3>1
  <2> QED  BY <1>10, <2>4, <2>6, <2>7
<1> QED  BY <1>6, <1>8, <1>9, <1>10 DEF Kinds
-----------------------------------------------------------------------------
\* What the server gives is without a gap: an element that the answer tells about and
\* does not give is not there.
LEMMA AnswerIsComplete ==
    ASSUME NEW s \in [Ids -> Nat], NEW evs, NEW p, NEW q \in Reads, NEW found,
           found = Nearest(On(s), q.from, q.n, q.back),
           q.got = [i \in Ids |-> IF i \in found THEN s[i] ELSE 0]
    PROVE  GotFits(s, evs, p, q) /\ AnswerFits(s, evs, p, q)
<1>1. On(s) \in SUBSET Ids /\ q.from \in Int /\ q.n \in Nat /\ q.back \in BOOLEAN
  BY BoundsAreIntegers DEF On, Reads
<1>2. found \subseteq On(s) /\ \A i \in found : Beyond(q, i)
  BY <1>1 DEF Nearest, Beyond
<1>3. On(q.got) = found
  BY <1>2 DEF On
<1>4. GotFits(s, evs, p, q)
  BY <1>1, <1>2, <1>3 DEF GotFits, Fits
<1>5. ASSUME NEW i \in Ids, Covers(q, i), q.got[i] = 0 PROVE Fits(s, evs, i, 0, p)
  <2>1. s[i] = 0
    <3> SUFFICES ASSUME s[i] # 0 PROVE FALSE
      OBVIOUS
    <3>1. i \in On(s) /\ i \notin found
      BY <1>5 DEF On
    <3>2. IF q.back THEN i < q.from ELSE i > q.from
      BY <1>5 DEF Covers, Beyond
    <3>3. /\ Cardinality(found) >= q.n
          /\ \A j \in found : IF q.back THEN j > i ELSE j < i
      BY <1>1, <3>1, <3>2, NearestWithoutGap
    <3>4. Cardinality(found) \in Nat
      BY <1>1, <1>2, IdsFinite
    <3>5. PICK j \in found : IF q.back THEN j <= i ELSE i <= j
      BY <1>1, <1>3, <1>5, <3>3, <3>4 DEF Covers
    <3>6. j \in Int /\ i \in Int
      BY <1>1, <1>2, BoundsAreIntegers
    <3> QED  BY <3>3, <3>5, <3>6
  <2> QED  BY <2>1 DEF Fits
<1> QED  BY <1>2, <1>3, <1>4, <1>5 DEF AnswerFits

\* The answer is what the server has at this moment.
LEMMA AnswerStep ==
    ASSUME ListInv, NEW r \in Readers, Answer(r)
    PROVE  ListInv'
<1>1. PICK q : q = reader[r]
  OBVIOUS
<1>2. PICK found : found = IF q.kind = "single" THEN {q.start}
                           ELSE Nearest(On(server), q.from, q.n, q.back)
  OBVIOUS
<1>3. PICK got : got = [i \in Ids |-> IF i \in found THEN server[i] ELSE 0]
  OBVIOUS
<1>4. PICK step : step = IF q.kind = "single" THEN "bounded" ELSE "answered"
  OBVIOUS
<1> DEFINE a == [q EXCEPT !.step = step, !.got = got]
<1>5. /\ q.step = "asked" /\ ~Writing(r)
      /\ UNCHANGED <<serverVars, eventVars, cacheVars, clearing>>
      /\ reader' = [reader EXCEPT ![r].step = step, ![r].got = got]
  BY <1>1, <1>2, <1>3, <1>4 DEF Answer, Writing
<1>6. q \in Reads /\ server \in [Ids -> Nat] /\ reader \in [Readers -> Reads \union {Idle}]
  BY <1>1, <1>5, TypeOfStart DEF ListInv, TypeInv
<1>7. reader' = [reader EXCEPT ![r] = a]
  BY <1>1, <1>5, <1>6
<1>8. ReaderFits(server, events, Rest, range, q)
  BY <1>1 DEF ListInv, ReadersInv
<1>9. clearing.step # "none" => q.kind = "single"
  BY <1>1, <1>5 DEF ListInv, ClearInv, Busy
<1>10. got \in [Ids -> Nat]
  BY <1>3, <1>6
<1>11. a \in Reads
  BY <1>4, <1>6, <1>10 DEF Reads
<1>12. /\ a.step = step /\ a.got = got /\ a.kind = q.kind /\ a.start = q.start /\ a.n = q.n
       /\ a.from = q.from /\ a.back = q.back /\ a.reverse = q.reverse
  BY <1>6 DEF Reads
<1> HIDE DEF a
<1>13. CASE q.kind = "single"
  <2>1. GotFits(server, events, Rest, a)
    BY <1>3, <1>6, <1>12 DEF GotFits, Fits, On
  <2>2. ReaderFits(server, events, Rest, range, a)
    BY <1>4, <1>12, <1>13, <2>1 DEF ReaderFits
  <2> QED  BY <1>5, <1>7, <1>9, <1>11, <1>12, <2>2, ReaderStep
<1>14. CASE q.kind # "single"
  <2>1. GotFits(server, events, Rest, a) /\ AnswerFits(server, events, Rest, a)
    <3>1. found = Nearest(On(server), a.from, a.n, a.back)
      BY <1>2, <1>12, <1>14
    <3>2. a.got = [i \in Ids |-> IF i \in found THEN server[i] ELSE 0]
      BY <1>3, <1>12
    <3> QED  BY <1>6, <1>11, <3>1, <3>2, AnswerIsComplete
  <2>2. ReaderFits(server, events, Rest, range, a)
    BY <1>4, <1>5, <1>8, <1>12, <1>14, <2>1 DEF ReaderFits
  <2> QED  BY <1>5, <1>7, <1>9, <1>11, <1>12, <2>2, ReaderStep
<1> QED  BY <1>13, <1>14

\* Towards the range becomes within once the range has reached the start.
LEMMA ContinueStep ==
    ASSUME ListInv, NEW r \in Readers, Continue(r)
    PROVE  ListInv'
<1>1. PICK q : q = reader[r]
  OBVIOUS
<1>2. PICK step : step = IF \/ q.kind \in {"new", "within"}
                            \/ q.kind = "away" /\ (\/ Cardinality(On(q.got)) < q.n
                                                   \/ Cardinality(Provided(r)) = q.count)
                         THEN "ready" ELSE "planning"
  OBVIOUS
<1>3. PICK kind : kind = IF q.kind = "towards" /\ InRange(q.start) THEN "within" ELSE q.kind
  OBVIOUS
<1> DEFINE a == [q EXCEPT !.step = step, !.kind = kind]
<1>4. /\ q.step = "stored" /\ ~Writing(r)
      /\ UNCHANGED <<serverVars, eventVars, cacheVars, clearing>>
      /\ reader' = [reader EXCEPT ![r].step = step, ![r].kind = kind]
  BY <1>1, <1>2, <1>3 DEF Continue, Writing
<1>5. q \in Reads /\ reader \in [Readers -> Reads \union {Idle}] /\ RangesInv
  BY <1>1, <1>4, TypeOfStart DEF ListInv, TypeInv
<1>6. reader' = [reader EXCEPT ![r] = a]
  BY <1>1, <1>4, <1>5
<1>7. ReaderFits(server, events, Rest, range, q)
  BY <1>1 DEF ListInv, ReadersInv
<1>8. clearing.step # "none" => q.kind = "single"
  BY <1>1, <1>4 DEF ListInv, ClearInv, Busy
<1>9. kind \in Kinds /\ step \in {"ready", "planning"}
  BY <1>2, <1>3, <1>5 DEF Reads, Kinds
<1>10. a \in Reads
  BY <1>5, <1>9 DEF Reads
<1>11. /\ a.step = step /\ a.kind = kind /\ a.start = q.start
       /\ a.from = q.from /\ a.back = q.back /\ a.reverse = q.reverse
  BY <1>5 DEF Reads
<1> HIDE DEF a
<1>12. step = "planning" /\ kind = "within" => Attached(range, q.start)
  <2> SUFFICES ASSUME step = "planning", kind = "within", NEW x \in range
               PROVE  x.lower <= q.start /\ q.start <= x.upper
    BY DEF Attached
  <2>1. InRange(q.start)
    BY <1>2, <1>3
  <2> QED  BY <1>5, <2>1, OneRow
<1>13. ReaderFits(server, events, Rest, range, a)
  BY <1>3, <1>4, <1>7, <1>9, <1>11, <1>12 DEF ReaderFits
<1>14. clearing.step # "none" => a.kind = "single"
  BY <1>3, <1>8, <1>11
<1> QED  BY <1>4, <1>6, <1>10, <1>13, <1>14, ReaderStep

\* A read that returns leaves nothing to be written.
LEMMA FinishStep ==
    ASSUME ListInv, NEW r \in Readers, Finish(r)
    PROVE  ListInv'
<1>1. /\ reader' = [reader EXCEPT ![r] = Idle] /\ ~Writing(r)
      /\ UNCHANGED <<serverVars, eventVars, cacheVars, clearing>>
  BY DEF Finish, Writing
<1>2. ReaderFits(server, events, Rest, range, Idle) /\ Idle.step = "idle"
  BY DEF ReaderFits, Idle
<1> QED  BY <1>1, <1>2, ReaderStep
-----------------------------------------------------------------------------
(* The steps that write                                                     *)

\* The bound that an answer gives to the range.
BoundOf(q) ==
    IF q.back THEN IF Cardinality(On(q.got)) < q.n THEN GENERATED_MIN_ID ELSE Min(On(q.got))
    ELSE IF Cardinality(On(q.got)) < q.n THEN GENERATED_MAX_ID ELSE Max(On(q.got))

\* It lies beyond the start of the request, and the answer covers what is between.
LEMMA BoundIsCovered ==
    ASSUME NEW s, NEW evs, NEW p, NEW q \in Reads, AnswerFits(s, evs, p, q)
    PROVE  /\ BoundOf(q) \in Bounds
           /\ IF q.back THEN BoundOf(q) <= q.from ELSE q.from <= BoundOf(q)
           /\ \A i \in Ids : Beyond(q, i) /\ (IF q.back THEN BoundOf(q) <= i ELSE i <= BoundOf(q))
                 => Covers(q, i)
<1>1. /\ q.from \in Bounds /\ q.n \in Nat \ {0} /\ q.back \in BOOLEAN
      /\ On(q.got) \in SUBSET Ids
  BY DEF Reads, On
<1>2. q.from \in Int /\ GENERATED_MIN_ID <= q.from /\ q.from <= GENERATED_MAX_ID
  BY <1>1, BoundsAreIntegers
<1>3. CASE Cardinality(On(q.got)) < q.n
  <2>1. BoundOf(q) = IF q.back THEN GENERATED_MIN_ID ELSE GENERATED_MAX_ID
    BY <1>3 DEF BoundOf
  <2>2. \A i \in Ids : Beyond(q, i) => Covers(q, i)
    BY <1>3 DEF Covers
  <2> QED  BY <1>1, <1>2, <2>1, <2>2, BoundsAreIntegers
<1>4. CASE ~(Cardinality(On(q.got)) < q.n)
  <2>1. On(q.got) # {}
    <3>1. Cardinality({}) = 0
      BY FS_EmptySet
    <3> QED  BY <1>1, <1>4, <3>1
  <2>2. BoundOf(q) = IF q.back THEN Min(On(q.got)) ELSE Max(On(q.got))
    BY <1>4 DEF BoundOf
  <2>3. BoundOf(q) \in On(q.got)
    BY <1>1, <2>1, <2>2, MinOfIds, MaxOfIds
  <2>4. BoundOf(q) \in Ids /\ BoundOf(q) \in Bounds /\ BoundOf(q) \in Int
    BY <1>1, <2>3, BoundsAreIntegers
  <2>5. Beyond(q, BoundOf(q))
    BY <2>3 DEF AnswerFits
  <2>6. \A i \in Ids : Beyond(q, i) /\ (IF q.back THEN BoundOf(q) <= i ELSE i <= BoundOf(q))
           => Covers(q, i)
    BY <1>1, <2>3 DEF Covers
  <2>7. IF q.back THEN BoundOf(q) <= q.from ELSE q.from <= BoundOf(q)
    BY <1>2, <2>4, <2>5 DEF Beyond
  <2> QED  BY <2>4, <2>6, <2>7
<1> QED  BY <1>3, <1>4

\* What the row of the range becomes: it reaches from the old one to the new bound, and
\* what is new in it lies beyond the start of the request.
LEMMA RowOfAnswer ==
    ASSUME TypeInv, RangesInv, NEW r \in Readers, NEW q \in Reads, q = reader[r], SetBound(r),
           NEW s, NEW evs, NEW p, ReaderFits(s, evs, p, range, q), q.step = "answered"
    PROVE  /\ range' \in SUBSET Ranges
           /\ \A x \in range' : x.lower <= x.upper
           /\ \A x, y \in range' : x = y
           /\ \A i \in Ids : InRange(i)' => InRange(i) \/ Covers(q, i)
<1> DEFINE b == BoundOf(q)
           row == IF q.kind = "new" THEN {[lower |-> q.start, upper |-> q.start]} ELSE range
           grown(x) == IF q.back THEN [x EXCEPT !.lower = b] ELSE [x EXCEPT !.upper = b]
<1>1. /\ b \in Bounds
      /\ IF q.back THEN b <= q.from ELSE q.from <= b
      /\ \A i \in Ids : Beyond(q, i) /\ (IF q.back THEN b <= i ELSE i <= b) => Covers(q, i)
  BY BoundIsCovered DEF ReaderFits
<1>2. range' = {grown(x) : x \in row}
  <2>1. CASE q.back
    <3>1. b = IF Cardinality(On(q.got)) < q.n THEN GENERATED_MIN_ID ELSE Min(On(q.got))
      BY <2>1 DEF BoundOf
    <3>2. range' = {[x EXCEPT !.lower = IF Cardinality(On(q.got)) < q.n THEN GENERATED_MIN_ID
                                        ELSE Min(On(q.got))] : x \in row}
      BY <2>1 DEF SetBound
    <3> HIDE DEF b, row
    <3> QED  BY <2>1, <3>1, <3>2
  <2>2. CASE ~q.back
    <3>1. b = IF Cardinality(On(q.got)) < q.n THEN GENERATED_MAX_ID ELSE Max(On(q.got))
      BY <2>2 DEF BoundOf
    <3>2. range' = {[x EXCEPT !.upper = IF Cardinality(On(q.got)) < q.n THEN GENERATED_MAX_ID
                                        ELSE Max(On(q.got))] : x \in row}
      BY <2>2 DEF SetBound
    <3> HIDE DEF b, row
    <3> QED  BY <2>2, <3>1, <3>2
  <2> QED  BY <2>1, <2>2
<1>3. /\ q.start \in Bounds /\ q.from \in Bounds /\ q.kind \in Kinds /\ q.back \in BOOLEAN
  BY DEF Reads
<1>4. row \in SUBSET Ranges /\ \A x, y \in row : x = y
  BY <1>3 DEF TypeInv, RangesInv, Ranges
<1>5. \A x \in row : x.lower <= q.from /\ q.from <= x.upper
  <2>1. CASE q.kind = "new"
    <3>1. q.from = q.start /\ q.start \in Int
      BY <1>3, <2>1, BoundsAreIntegers DEF ReaderFits
    <3> QED  BY <2>1, <3>1
  <2>2. CASE q.kind # "new"
    <3>1. Attached(range, q.from)
      BY <1>3, <2>2 DEF ReaderFits, Kinds
    <3> QED  BY <2>2, <3>1 DEF Attached
  <2> QED  BY <2>1, <2>2
\* In a new list nothing is at the start.
<1>6. \A x \in row, i \in Ids : x.lower <= i /\ i <= x.upper => InRange(i)
  <2>1. CASE q.kind = "new"
    <3>1. q.start \notin Ids /\ q.start \in Int
      BY <1>3, <2>1, BoundsAreIntegers DEF ReaderFits
    <3>2. \A i \in Ids : i \in Int
      BY BoundsAreIntegers
    <3>3. \A i \in Ids : ~(q.start <= i /\ i <= q.start)
      BY <3>1, <3>2
    <3> QED  BY <2>1, <3>3
  <2>2. CASE q.kind # "new"
    BY <2>2 DEF InRange
  <2> QED  BY <2>1, <2>2
<1>7. ASSUME NEW x \in row
      PROVE  /\ grown(x) \in Ranges /\ grown(x).lower <= grown(x).upper
             /\ \A i \in Ids : grown(x).lower <= i /\ i <= grown(x).upper
                                  => InRange(i) \/ Covers(q, i)
  <2>1. /\ x \in Ranges /\ x.lower \in Int /\ x.upper \in Int /\ q.from \in Int /\ b \in Int
        /\ \A i \in Ids : i \in Int
    <3>1. x \in Ranges
      BY <1>4
    <3>2. x.lower \in Bounds /\ x.upper \in Bounds
      BY <3>1 DEF Ranges
    <3> HIDE DEF b, row
    <3> QED  BY <1>1, <1>3, <3>1, <3>2, BoundsAreIntegers
  <2>2. x.lower <= q.from /\ q.from <= x.upper
    BY <1>5
  <2>3. \A i \in Ids : x.lower <= i /\ i <= x.upper => InRange(i)
    BY <1>6
  <2> HIDE DEF b, row
  <2>4. CASE q.back
    <3>1. grown(x) \in Ranges /\ grown(x).lower = b /\ grown(x).upper = x.upper
      BY <1>1, <2>1, <2>4 DEF Ranges
    <3>2. ASSUME NEW i \in Ids, b <= i, i <= x.upper PROVE InRange(i) \/ Covers(q, i)
      <4>1. CASE x.lower <= i
        BY <2>3, <3>2, <4>1
      <4>2. CASE ~(x.lower <= i)
        <5>1. i < q.from
          BY <2>1, <2>2, <4>2
        <5> QED  BY <1>1, <2>4, <3>2, <5>1 DEF Beyond
      <4> QED  BY <4>1, <4>2
    <3> HIDE DEF grown
    <3> QED  BY <1>1, <2>1, <2>2, <2>4, <3>1, <3>2
  <2>5. CASE ~q.back
    <3>1. grown(x) \in Ranges /\ grown(x).upper = b /\ grown(x).lower = x.lower
      BY <1>1, <2>1, <2>5 DEF Ranges
    <3>2. ASSUME NEW i \in Ids, i <= b, x.lower <= i PROVE InRange(i) \/ Covers(q, i)
      <4>1. CASE i <= x.upper
        BY <2>3, <3>2, <4>1
      <4>2. CASE ~(i <= x.upper)
        <5>1. i > q.from
          BY <2>1, <2>2, <4>2
        <5> QED  BY <1>1, <2>5, <3>2, <5>1 DEF Beyond
      <4> QED  BY <4>1, <4>2
    <3> HIDE DEF grown
    <3> QED  BY <1>1, <2>1, <2>2, <2>5, <3>1, <3>2
  <2> QED  BY <2>4, <2>5
<1> HIDE DEF b, row, grown
<1>8. \A x \in range' : x \in Ranges /\ x.lower <= x.upper
  BY <1>2, <1>7
<1>9. \A x, y \in range' : x = y
  BY <1>2, <1>4
<1>10. ASSUME NEW i \in Ids, InRange(i)' PROVE InRange(i) \/ Covers(q, i)
  <2>1. PICK x \in range' : x.lower <= i /\ i <= x.upper
    BY <1>10 DEF InRange
  <2> QED  BY <1>2, <1>7, <2>1
<1> QED  BY <1>8, <1>9, <1>10
-----------------------------------------------------------------------------
\* updateRangeInStorage, the bound: what is new in the range is in the answer.
LEMMA SetBoundStep ==
    ASSUME ListInv, OneReader, NEW r \in Readers, SetBound(r)
    PROVE  ListInv'
<1>1. PICK q : q = reader[r]
  OBVIOUS
<1> DEFINE a == [q EXCEPT !.step = "bounded"]
<1>2. /\ q.step = "answered"
      /\ UNCHANGED <<serverVars, eventVars, cached, clearing>>
      /\ reader' = [reader EXCEPT ![r].step = "bounded"]
  BY <1>1 DEF SetBound
<1>3. q \in Reads /\ reader \in [Readers -> Reads \union {Idle}] /\ TypeInv /\ RangesInv
  BY <1>1, <1>2, TypeOfStart DEF ListInv, TypeInv
<1>4. reader' = [reader EXCEPT ![r] = a] /\ reader'[r] = a
  BY <1>1, <1>2, <1>3
<1>5. ReaderFits(server, events, Rest, range, q)
  BY <1>1 DEF ListInv, ReadersInv
<1>6. clearing.step = "none"
  BY <1>1, <1>2, <1>5 DEF ListInv, ClearInv, Busy, ReaderFits
<1>7. a \in Reads /\ a.step = "bounded" /\ a.got = q.got /\ a.kind = q.kind
      /\ a.start = q.start /\ a.from = q.from /\ a.back = q.back /\ a.reverse = q.reverse
  BY <1>3 DEF Reads
<1> HIDE DEF a
<1>8. /\ range' \in SUBSET Ranges
      /\ \A x \in range' : x.lower <= x.upper
      /\ \A x, y \in range' : x = y
      /\ \A i \in Ids : InRange(i)' => InRange(i) \/ Covers(q, i)
  BY <1>1, <1>2, <1>3, <1>5, RowOfAnswer
<1>9. TypeInv'
  <2>1. reader' \in [Readers -> Reads \union {Idle}]
    BY <1>3, <1>4, <1>7, TypeOfReader
  <2> QED  BY <1>2, <1>3, <1>8, <2>1 DEF TypeInv, serverVars, eventVars
<1>10. EventsInv'
  BY <1>2 DEF ListInv, EventsInv, Event, serverVars, eventVars
<1>11. RangesInv'
  BY <1>8 DEF RangesInv
<1>12. SyncInv'
  <2> SUFFICES ASSUME NEW i \in Ids, InRange(i)' \/ cached'[i] # 0
               PROVE  \/ Fits(server, events, i, cached[i], 1)
                      \/ \E s \in Readers : Tearing(s)' /\ reader'[s].got[i] # 0
    BY <1>2 DEF SyncInv, serverVars, eventVars
  <2>1. Tearing(r)' /\ reader'[r].got = q.got
    BY <1>2, <1>4, <1>5, <1>7 DEF Tearing, ReaderFits
  <2>2. CASE InRange(i) \/ cached[i] # 0
    <3>1. \/ Fits(server, events, i, cached[i], 1)
          \/ \E s \in Readers : Tearing(s) /\ reader[s].got[i] # 0
      BY <2>2 DEF ListInv, SyncInv
    <3>2. \A s \in Readers : ~Tearing(s)
      BY <1>1, <1>2 DEF OneReader, Tearing
    <3> QED  BY <3>1, <3>2
  <2>3. CASE ~InRange(i) /\ cached[i] = 0
    <3>1. Covers(q, i)
      BY <1>2, <1>8, <2>3
    <3>2. CASE q.got[i] = 0
      <4>1. Fits(server, events, i, 0, Rest)
        BY <1>2, <1>5, <3>1, <3>2 DEF ReaderFits, AnswerFits
      <4>2. Fits(server, events, i, 0, 1)
        BY <1>3, <4>1, FitsFromFirst DEF Rest, TypeInv
      <4> QED  BY <2>3, <4>2
    <3>3. CASE q.got[i] # 0
      BY <2>1, <3>3
    <3> QED  BY <3>2, <3>3
  <2> QED  BY <2>2, <2>3
<1>13. ClearInv'
  BY <1>2, <1>6 DEF ClearInv
<1>14. ReadersInv'
  <2> SUFFICES ASSUME NEW s \in Readers
               PROVE  ReaderFits(server, events, Rest, range', reader'[s])
    BY <1>2 DEF ReadersInv, Rest, serverVars, eventVars
  <2>1. s = r
    BY DEF OneReader
  <2>2. ReaderFits(server, events, Rest, range', a)
    BY <1>2, <1>5, <1>7 DEF ReaderFits, GotFits
  <2> QED  BY <1>4, <2>1, <2>2
<1> QED  BY <1>9, <1>10, <1>11, <1>12, <1>13, <1>14 DEF ListInv

\* updateRangeInStorage, the puts: what is written is at most mended by events to come.
LEMMA StoreStep ==
    ASSUME ListInv, OneReader, NEW r \in Readers, Store(r)
    PROVE  ListInv'
<1>1. PICK q : q = reader[r]
  OBVIOUS
<1>2. PICK a : a = IF q.kind = "single" THEN Idle ELSE [q EXCEPT !.step = "stored"]
  OBVIOUS
<1>3. /\ q.step = "bounded"
      /\ UNCHANGED <<serverVars, eventVars, range, clearing>>
      /\ reader' = [reader EXCEPT ![r] = a]
      /\ cached' = [i \in Ids |-> IF q.got[i] # 0 THEN q.got[i] ELSE cached[i]]
  BY <1>1, <1>2 DEF Store
<1>4. q \in Reads /\ reader \in [Readers -> Reads \union {Idle}] /\ TypeInv
  BY <1>1, <1>3, TypeOfStart DEF ListInv, TypeInv
<1>5. reader'[r] = a
  BY <1>3, <1>4
<1>6. ReaderFits(server, events, Rest, range, q)
  BY <1>1 DEF ListInv, ReadersInv
<1>7. \/ a = Idle /\ a.step = "idle"
      \/ /\ a \in Reads /\ a.step = "stored" /\ a.kind = q.kind /\ a.start = q.start
         /\ a.from = q.from /\ a.back = q.back /\ a.reverse = q.reverse
  <2>1. CASE q.kind = "single"
    BY <1>2, <2>1 DEF Idle
  <2>2. CASE q.kind # "single"
    BY <1>2, <1>4, <2>2 DEF Reads
  <2> QED  BY <2>1, <2>2
<1>8. TypeInv'
  <2>1. a \in Reads \union {Idle}
    BY <1>7
  <2>2. reader' \in [Readers -> Reads \union {Idle}]
    BY <1>3, <1>4, <2>1, TypeOfReader
  <2>3. cached' \in [Ids -> Nat]
    BY <1>3, <1>4 DEF Reads, TypeInv
  <2> QED  BY <1>3, <1>4, <2>2, <2>3 DEF TypeInv, serverVars, eventVars
<1>9. EventsInv'
  BY <1>3 DEF ListInv, EventsInv, Event, serverVars, eventVars
<1>10. RangesInv'
  BY <1>3 DEF ListInv, RangesInv
<1>11. \A i \in Ids : InRange(i)' <=> InRange(i)
  BY <1>3 DEF InRange
<1>12. SyncInv'
  <2> SUFFICES ASSUME NEW i \in Ids, InRange(i)' \/ cached'[i] # 0
               PROVE  Fits(server, events, i, cached'[i], 1)
    BY <1>3 DEF SyncInv, serverVars, eventVars
  <2>1. CASE q.got[i] # 0
    <3>1. i \in On(q.got) /\ cached'[i] = q.got[i]
      BY <1>3, <2>1 DEF On
    <3>2. Fits(server, events, i, q.got[i], Rest)
      BY <1>3, <1>6, <3>1 DEF ReaderFits, GotFits
    <3>3. Fits(server, events, i, q.got[i], 1)
      BY <1>4, <3>2, FitsFromFirst DEF Rest, TypeInv
    <3> QED  BY <3>1, <3>3
  <2>2. CASE q.got[i] = 0
    <3>1. cached'[i] = cached[i]
      BY <1>3, <2>2
    <3>2. \/ Fits(server, events, i, cached[i], 1)
          \/ \E s \in Readers : Tearing(s) /\ reader[s].got[i] # 0
      BY <1>11, <3>1 DEF ListInv, SyncInv
    <3>3. \A s \in Readers : s = r
      BY DEF OneReader
    <3> QED  BY <1>1, <2>2, <3>1, <3>2, <3>3
  <2> QED  BY <2>1, <2>2
<1>13. ClearInv'
  <2> SUFFICES ASSUME clearing.step # "none" PROVE ClearInv'
    BY <1>3 DEF ClearInv
  <2>1. \A s \in Readers : Busy(s)' => reader'[s].kind = "single"
    <3>1. \A s \in Readers : s = r
      BY DEF OneReader
    <3>2. q.kind = "single"
      BY <1>1, <1>3 DEF ListInv, ClearInv, Busy
    <3> QED  BY <1>5, <1>7, <3>1, <3>2 DEF Busy
  <2> QED  BY <1>3, <1>11, <2>1 DEF ListInv, ClearInv, serverVars, eventVars
<1>14. ReadersInv'
  <2> SUFFICES ASSUME NEW s \in Readers
               PROVE  ReaderFits(server, events, Rest, range, reader'[s])
    BY <1>3 DEF ReadersInv, Rest, serverVars, eventVars
  <2>1. s = r
    BY DEF OneReader
  <2>2. ReaderFits(server, events, Rest, range, a)
    BY <1>3, <1>6, <1>7 DEF ReaderFits
  <2> QED  BY <1>5, <2>1, <2>2
<1> QED  BY <1>8, <1>9, <1>10, <1>12, <1>13, <1>14 DEF ListInv
-----------------------------------------------------------------------------
(* Changes of the server                                                    *)

\* A change of the server makes old what was cached or read, and its event mends it.
LEMMA ChangeStep ==
    ASSUME ListInv, NEW op \in {"CREATE", "UPDATE", "DELETE"}, NEW c \in Ids, NEW w \in Nat,
           server[c] = 0 <=> op = "CREATE", op = "DELETE" => w = 0, Change(op, c, w)
    PROVE  ListInv'
<1>1. /\ server' = [server EXCEPT ![c] = w]
      /\ events' = Append(events, [op |-> op, id |-> c])
      /\ handling' = handling /\ range' = range /\ cached' = cached
      /\ reader' = reader /\ clearing' = clearing
  BY DEF Change, cacheVars
<1>2. server \in [Ids -> Nat] /\ events \in Seq(Events) /\ TypeInv
  BY DEF ListInv, TypeInv
<1>3. Rest' = Rest /\ Rest \in Nat \ {0} /\ Rest <= Len(events) + 1
  <2>1. Rest = 2 => events # << >>
    BY DEF Rest, ListInv, EventsInv
  <2>2. events # << >> => Len(events) >= 1
    BY <1>2
  <2>3. Rest \in {1, 2} /\ Rest' = Rest /\ Len(events) \in Nat
    BY <1>1, <1>2 DEF Rest
  <2> QED  BY <2>1, <2>2, <2>3
<1>4. ASSUME NEW i \in Ids, NEW v \in Nat, NEW p \in Nat \ {0}, p <= Len(events) + 1,
             Fits(server, events, i, v, p)
      PROVE  Fits(server', events', i, v, p)
  BY <1>1, <1>2, <1>4, FitsAfterChange
<1>5. TypeInv'
  BY <1>2, ChangeTyped
<1>6. EventsInv'
  <2>1. EventsFit(server', events')
    BY <1>1, <1>2, EventsFitAfterChange DEF ListInv, EventsInv
  <2>2. handling.step # "none" => events # << >> /\ Event.op # "DELETE"
    BY DEF ListInv, EventsInv
  <2>3. events # << >> => Event' = Event /\ events' # << >>
    BY <1>1, <1>2 DEF Event
  <2>4. handling.step = "answered" => Fits(server', events', (Event.id)', handling.got, 2)
    <3> SUFFICES ASSUME handling.step = "answered"
                 PROVE  Fits(server', events', (Event.id)', handling.got, 2)
      OBVIOUS
    <3>1. Fits(server, events, Event.id, handling.got, 2)
      BY DEF ListInv, EventsInv
    <3>2. Event.id \in Ids /\ handling.got \in Nat /\ Len(events) >= 1 /\ Len(events) \in Nat
      <4>1. events # << >>
        BY <2>2
      <4>2. Event \in Events
        BY <1>2, <4>1 DEF Event
      <4> QED  BY <1>2, <4>1, <4>2 DEF Events, TypeInv
    <3>3. 2 \in Nat \ {0} /\ 2 <= Len(events) + 1
      BY <3>2
    <3>4. Fits(server', events', Event.id, handling.got, 2)
      BY <1>4, <3>1, <3>2, <3>3
    <3>5. (Event.id)' = Event.id
      BY <2>2, <2>3
    <3> QED  BY <3>4, <3>5
  <2> QED  BY <1>1, <2>1, <2>2, <2>3, <2>4 DEF EventsInv
<1>7. RangesInv'
  BY <1>1 DEF ListInv, RangesInv
<1>8. 1 \in Nat \ {0} /\ 1 <= Len(events) + 1 /\ cached \in [Ids -> Nat]
  BY <1>2 DEF TypeInv
<1>9. \A i \in Ids : InRange(i)' <=> InRange(i)
  BY <1>1 DEF InRange
<1>10. SyncInv'
  <2> SUFFICES ASSUME NEW i \in Ids, InRange(i)' \/ cached'[i] # 0
               PROVE  \/ Fits(server', events', i, cached[i], 1)
                      \/ \E s \in Readers : Tearing(s)' /\ reader'[s].got[i] # 0
    BY <1>1 DEF SyncInv
  <2>1. \/ Fits(server, events, i, cached[i], 1)
        \/ \E s \in Readers : Tearing(s) /\ reader[s].got[i] # 0
    BY <1>1, <1>9 DEF ListInv, SyncInv
  <2>2. CASE Fits(server, events, i, cached[i], 1)
    BY <1>4, <1>8, <2>2
  <2>3. ASSUME NEW s \in Readers, Tearing(s), reader[s].got[i] # 0
        PROVE  Tearing(s)' /\ reader'[s].got[i] # 0
    BY <1>1, <2>3 DEF Tearing
  <2> QED  BY <2>1, <2>2, <2>3
<1>11. ClearInv'
  <2> SUFFICES ASSUME clearing.step # "none" PROVE ClearInv'
    BY <1>1 DEF ClearInv
  <2>1. \A i \in Ids : InRange(i)' /\ i < clearing.cutoff => Fits(server', events', i, 0, 1)
    <3> SUFFICES ASSUME NEW i \in Ids, InRange(i)', i < clearing.cutoff
                 PROVE  Fits(server', events', i, 0, 1)
      OBVIOUS
    <3>1. Fits(server, events, i, 0, 1)
      BY <1>9 DEF ListInv, ClearInv
    <3>2. 0 \in Nat
      OBVIOUS
    <3> QED  BY <1>4, <1>8, <3>1, <3>2
  <2>2. \A s \in Readers : Busy(s)' => reader'[s].kind = "single"
    BY <1>1 DEF Busy, ListInv, ClearInv
  <2> QED  BY <1>1, <2>1, <2>2 DEF ListInv, ClearInv
<1>12. ReadersInv'
  <2> SUFFICES ASSUME NEW s \in Readers, NEW q, q = reader[s]
               PROVE  ReaderFits(server', events', Rest, range, q)
    BY <1>1, <1>3 DEF ReadersInv
  <2>1. ReaderFits(server, events, Rest, range, q)
    BY DEF ListInv, ReadersInv
  <2> SUFFICES ASSUME q.step # "idle" PROVE ReaderFits(server', events', Rest, range, q)
    BY DEF ReaderFits
  <2>2. q \in Reads
    BY <1>2, TypeOfStart
  <2>3. GotFits(server, events, Rest, q) => GotFits(server', events', Rest, q)
    <3> SUFFICES ASSUME GotFits(server, events, Rest, q), NEW i \in On(q.got)
                 PROVE  Fits(server', events', i, q.got[i], Rest)
      BY DEF GotFits
    <3>1. i \in Ids /\ q.got[i] \in Nat /\ Fits(server, events, i, q.got[i], Rest)
      BY <2>2 DEF GotFits, On, Reads
    <3> QED  BY <1>3, <1>4, <3>1
  <2>4. AnswerFits(server, events, Rest, q) => AnswerFits(server', events', Rest, q)
    <3> SUFFICES ASSUME AnswerFits(server, events, Rest, q), NEW i \in Ids, Covers(q, i),
                        q.got[i] = 0
                 PROVE  Fits(server', events', i, 0, Rest)
      BY DEF AnswerFits
    <3>1. Fits(server, events, i, 0, Rest) /\ 0 \in Nat
      BY DEF AnswerFits
    <3> QED  BY <1>3, <1>4, <3>1
  <2> QED  BY <2>1, <2>3, <2>4 DEF ReaderFits
<1> QED  BY <1>5, <1>6, <1>7, <1>10, <1>11, <1>12 DEF ListInv
-----------------------------------------------------------------------------
(* Entity events                                                            *)

\* The first event is handled when no read is between its answer and its puts, or was
\* answered while the event was being handled: then what was read needs later events only.
LEMMA HandledStep ==
    ASSUME ListInv, events # << >>, Handled,
           handling.step = "none" => \A r \in Readers : ~Writing(r),
           clearing.step = "none",
           cached' \in [Ids -> Nat],
           UNCHANGED <<serverVars, range, reader, clearing>>,
           \A i \in Ids : InRange(i) \/ cached'[i] # 0 =>
              \/ Fits(server, events, i, cached'[i], 2)
              \/ \E r \in Readers : Tearing(r) /\ reader[r].got[i] # 0
    PROVE  ListInv'
<1>1. /\ server' = server /\ changes' = changes /\ range' = range /\ reader' = reader
      /\ clearing' = clearing /\ events' = Tail(events) /\ handling' = NoEvent
  BY DEF Handled, serverVars
<1>2. server \in [Ids -> Nat] /\ events \in Seq(Events) /\ TypeInv
  BY DEF ListInv, TypeInv
<1>3. \A i, v : Fits(server, events, i, v, 2) => Fits(server, events', i, v, 1)
  BY <1>1, <1>2, FitsAfterFirst
<1>4. Rest' = 1 /\ handling'.step = "none" /\ handling'.got = 0
  BY <1>1 DEF Rest, NoEvent
<1>5. TypeInv'
  <2>1. events' \in Seq(Events)
    BY <1>1, <1>2
  <2>2. handling' \in [step : {"none", "asked", "answered"}, got : Nat]
    BY <1>1 DEF NoEvent
  <2> QED  BY <1>1, <1>2, <2>1, <2>2 DEF TypeInv
<1>6. EventsInv'
  <2>1. EventsFit(server, events')
    BY <1>1, <1>2, EventsFitAfterFirst DEF ListInv, EventsInv
  <2> QED  BY <1>1, <1>4, <2>1 DEF EventsInv
<1>7. RangesInv'
  BY <1>1 DEF ListInv, RangesInv
<1>8. SyncInv'
  <2> SUFFICES ASSUME NEW i \in Ids, InRange(i)' \/ cached'[i] # 0
               PROVE  \/ Fits(server, events', i, cached'[i], 1)
                      \/ \E s \in Readers : Tearing(s)' /\ reader'[s].got[i] # 0
    BY <1>1 DEF SyncInv
  <2>1. \/ Fits(server, events, i, cached'[i], 2)
        \/ \E s \in Readers : Tearing(s) /\ reader[s].got[i] # 0
    BY <1>1 DEF InRange
  <2>2. CASE Fits(server, events, i, cached'[i], 2)
    BY <1>3, <2>2
  <2>3. ASSUME NEW s \in Readers, Tearing(s), reader[s].got[i] # 0
        PROVE  Tearing(s)' /\ reader'[s].got[i] # 0
    BY <1>1, <2>3 DEF Tearing
  <2> QED  BY <2>1, <2>2, <2>3
<1>9. ClearInv'
  BY <1>1 DEF ClearInv
<1>10. ReadersInv'
  <2> SUFFICES ASSUME NEW s \in Readers, NEW q, q = reader[s]
               PROVE  ReaderFits(server, events', 1, range, q)
    BY <1>1, <1>4 DEF ReadersInv
  <2>1. ReaderFits(server, events, Rest, range, q)
    BY DEF ListInv, ReadersInv
  <2>2. q.step \in {"answered", "bounded"} => Rest = 2
    BY DEF Writing, Rest
  <2>3. Rest = 2 => (GotFits(server, events, Rest, q) => GotFits(server, events', 1, q))
    BY <1>3 DEF GotFits
  <2>4. Rest = 2 => (AnswerFits(server, events, Rest, q) => AnswerFits(server, events', 1, q))
    BY <1>3 DEF AnswerFits
  <2> QED  BY <2>1, <2>2, <2>3, <2>4 DEF ReaderFits
<1> QED  BY <1>5, <1>6, <1>7, <1>8, <1>9, <1>10 DEF ListInv

\* What the handler writes needs later events only; what it leaves alone is not mended by
\* the event.
LEMMA WrittenFits ==
    ASSUME ListInv, events # << >>, Event.op = "DELETE" \/ handling.step = "answered"
    PROVE  /\ EventWrites \in [Ids -> Nat]
           /\ \A i \in Ids :
                \/ Fits(server, events, i, EventWrites[i], 2)
                \/ EventWrites[i] = cached[i] /\ ~(Event.id = i /\ Mends(cached[i], Event))
<1>1. PICK e : e = Event
  OBVIOUS
<1>2. PICK c : c = e.id
  OBVIOUS
<1>3. PICK got : got = handling.got
  OBVIOUS
<1>4. server \in [Ids -> Nat] /\ events \in Seq(Events) /\ cached \in [Ids -> Nat] /\ got \in Nat
  BY <1>3 DEF ListInv, TypeInv
<1>5. e \in Events /\ c \in Ids /\ e.op \in {"CREATE", "UPDATE", "DELETE"} /\ e = Head(events)
  <2>1. e \in Events /\ e = Head(events)
    BY <1>1, <1>4 DEF Event
  <2> QED  BY <1>2, <2>1 DEF Events
<1>6. CASE e.op = "DELETE"
  <2>1. EventWrites = [cached EXCEPT ![c] = 0]
    BY <1>1, <1>2, <1>6 DEF EventWrites
  <2>2. CASE server[c] = 0
    BY <1>1, <1>2, <1>4, <1>5, <2>1, <2>2 DEF Fits
  <2>3. CASE server[c] # 0
    <3>1. events[1] = e /\ 1 \in 1..Len(events)
      BY <1>4, <1>5
    <3>2. PICK j \in (1 + 1)..Len(events) : events[j].id = c /\ events[j].op = "CREATE"
      <4>1. EventsFit(server, events)
        BY DEF ListInv, EventsInv
      <4> QED  BY <1>2, <1>6, <2>3, <3>1, <4>1 DEF EventsFit
    <3>3. j \in 2..Len(events) /\ Mends(0, events[j])
      BY <3>2 DEF Mends
    <3>4. Fits(server, events, c, 0, 2)
      BY <3>2, <3>3 DEF Fits
    <3> QED  BY <1>1, <1>2, <1>4, <1>5, <2>1, <3>4
  <2> QED  BY <2>2, <2>3
<1>7. CASE e.op # "DELETE"
  <2>1. Fits(server, events, c, got, 2)
    BY <1>1, <1>2, <1>3, <1>7 DEF ListInv, EventsInv
  <2>2. CASE e.op = "CREATE" /\ got = 0
    <3>1. EventWrites = cached
      BY <1>1, <1>3, <2>2 DEF EventWrites
    <3> QED  BY <1>1, <1>2, <1>4, <1>5, <2>1, <2>2, <3>1 DEF Mends
  <2>3. CASE ~(e.op = "CREATE" /\ got = 0)
    <3>1. EventWrites = [cached EXCEPT ![c] = got]
      BY <1>1, <1>2, <1>3, <1>7, <2>3 DEF EventWrites
    <3> QED  BY <1>1, <1>2, <1>4, <1>5, <2>1, <3>1
  <2> QED  BY <2>2, <2>3
<1> QED  BY <1>6, <1>7

\* An event that is handled at once, or that makes the handler ask the server.
LEMMA HandleEventStep ==
    ASSUME ListInv, ~EventsOvertake, ~ClearRaces, HandleEvent
    PROVE  ListInv'
<1>1. PICK e : e = Event
  OBVIOUS
<1>2. PICK c : c = e.id
  OBVIOUS
<1>3. /\ events # << >> /\ handling.step = "none" /\ clearing.step = "none"
      /\ \A r \in Readers : ~Writing(r)
      /\ UNCHANGED <<serverVars, range, reader, clearing>>
  BY DEF HandleEvent, MayHandle
<1>4. server \in [Ids -> Nat] /\ events \in Seq(Events) /\ TypeInv /\ cached \in [Ids -> Nat]
  BY DEF ListInv, TypeInv
<1>5. e \in Events /\ c \in Ids /\ e.op \in {"CREATE", "UPDATE", "DELETE"} /\ e = Head(events)
  <2>1. e \in Events /\ e = Head(events)
    BY <1>1, <1>3, <1>4 DEF Event
  <2> QED  BY <1>2, <2>1 DEF Events
<1>6. \A i \in Ids : InRange(i) \/ cached[i] # 0 => Fits(server, events, i, cached[i], 1)
  BY <1>3 DEF ListInv, SyncInv, Tearing, Writing
<1>7. \A i, v : Fits(server, events, i, v, 1) /\ ~(e.id = i /\ Mends(v, e))
                  => Fits(server, events, i, v, 2)
  BY <1>4, <1>5, FitsWithoutFirst
<1>8. CASE e.op = "DELETE" /\ cached' = EventWrites /\ Handled
  <2>1. /\ cached' \in [Ids -> Nat]
        /\ \A i \in Ids :
             \/ Fits(server, events, i, cached'[i], 2)
             \/ cached'[i] = cached[i] /\ ~(e.id = i /\ Mends(cached[i], e))
    <3>1. PICK w : w = EventWrites
      OBVIOUS
    <3>2. /\ w \in [Ids -> Nat]
          /\ \A i \in Ids :
               \/ Fits(server, events, i, w[i], 2)
               \/ w[i] = cached[i] /\ ~(e.id = i /\ Mends(cached[i], e))
      BY <1>1, <1>3, <1>8, <3>1, WrittenFits
    <3>3. cached' = w
      BY <1>8, <3>1
    <3> QED  BY <3>2, <3>3
  <2>2. ASSUME NEW i \in Ids, InRange(i) \/ cached'[i] # 0
        PROVE  Fits(server, events, i, cached'[i], 2)
    BY <1>6, <1>7, <2>1, <2>2
  <2> QED  BY <1>3, <1>8, <2>1, <2>2, HandledStep
<1>9. CASE /\ e.op # "DELETE" /\ Handled /\ UNCHANGED cached
           /\ ~(e.op = "CREATE" /\ InRange(c)) /\ ~(e.op = "UPDATE" /\ cached[c] # 0)
  <2>1. ASSUME NEW i \in Ids, InRange(i) \/ cached[i] # 0
        PROVE  Fits(server, events, i, cached[i], 2)
    <3>1. ~(e.id = i /\ Mends(cached[i], e))
      BY <1>2, <1>5, <1>9, <2>1 DEF Mends
    <3> QED  BY <1>6, <1>7, <2>1, <3>1
  <2> QED  BY <1>3, <1>4, <1>9, <2>1, HandledStep
<1>10. CASE /\ e.op # "DELETE" /\ handling' = [NoEvent EXCEPT !.step = "asked"]
            /\ UNCHANGED <<events, cached>>
  <2>1. handling'.step = "asked" /\ handling' \in [step : {"none", "asked", "answered"}, got : Nat]
    BY <1>10 DEF NoEvent
  <2>2. TypeInv'
    BY <1>3, <1>4, <1>10, <2>1 DEF TypeInv, serverVars
  <2>3. EventsInv'
    BY <1>1, <1>3, <1>10, <2>1 DEF ListInv, EventsInv, Event, serverVars
  <2>4. RangesInv'
    BY <1>3 DEF ListInv, RangesInv
  <2>5. SyncInv'
    BY <1>3, <1>6, <1>10 DEF SyncInv, InRange, serverVars
  <2>6. ClearInv'
    BY <1>3 DEF ClearInv
  <2>7. ReadersInv'
    <3> SUFFICES ASSUME NEW s \in Readers, NEW q, q = reader[s]
                 PROVE  ReaderFits(server, events, Rest', range, q)
      BY <1>3, <1>10 DEF ReadersInv, serverVars
    <3>1. ReaderFits(server, events, Rest, range, q)
      BY DEF ListInv, ReadersInv
    <3>2. q.step \notin {"answered", "bounded"}
      BY <1>3 DEF Writing
    <3> QED  BY <3>1, <3>2 DEF ReaderFits
  <2> QED  BY <2>2, <2>3, <2>4, <2>5, <2>6, <2>7 DEF ListInv
<1>11. \/ e.op = "DELETE" /\ cached' = EventWrites /\ Handled
       \/ /\ e.op # "DELETE" /\ Handled /\ UNCHANGED cached
          /\ ~(e.op = "CREATE" /\ InRange(c)) /\ ~(e.op = "UPDATE" /\ cached[c] # 0)
       \/ /\ e.op # "DELETE" /\ handling' = [NoEvent EXCEPT !.step = "asked"]
          /\ UNCHANGED <<events, cached>>
  BY <1>1, <1>2 DEF HandleEvent
<1> QED  BY <1>8, <1>9, <1>10, <1>11

\* The handler of an event gets the element as the server has it.
LEMMA AnswerEventStep ==
    ASSUME ListInv, AnswerEvent
    PROVE  ListInv'
<1>1. /\ handling.step = "asked" /\ handling' = [step |-> "answered", got |-> server[Event.id]]
      /\ server' = server /\ changes' = changes /\ events' = events /\ range' = range
      /\ cached' = cached /\ reader' = reader /\ clearing' = clearing
  BY DEF AnswerEvent, serverVars, cacheVars
<1>2. server \in [Ids -> Nat] /\ events \in Seq(Events) /\ TypeInv
  BY DEF ListInv, TypeInv
<1>3. events # << >> /\ Event.op # "DELETE" /\ Event' = Event
  BY <1>1 DEF ListInv, EventsInv, Event
<1>4. Event.id \in Ids
  <2>1. Event \in Events
    BY <1>2, <1>3 DEF Event
  <2> QED  BY <2>1 DEF Events
<1>5. handling'.step = "answered" /\ handling'.got = server[Event.id] /\ Rest' = Rest
  BY <1>1 DEF Rest
<1>6. TypeInv'
  BY <1>1, <1>2, <1>4 DEF TypeInv
<1>7. EventsInv'
  <2>1. Fits(server, events, Event.id, server[Event.id], 2)
    BY DEF Fits
  <2> QED  BY <1>1, <1>3, <1>5, <2>1 DEF ListInv, EventsInv
<1>8. RangesInv' /\ SyncInv'
  BY <1>1 DEF ListInv, RangesInv, SyncInv, InRange, Tearing
<1>9. ClearInv'
  BY <1>1 DEF ListInv, ClearInv
<1>10. ReadersInv'
  BY <1>1, <1>5 DEF ListInv, ReadersInv
<1> QED  BY <1>6, <1>7, <1>8, <1>9, <1>10 DEF ListInv

\* What the handler got is put, or is gone and stays away.
LEMMA PutEventStep ==
    ASSUME ListInv, PutEvent
    PROVE  ListInv'
<1>1. /\ handling.step = "answered" /\ Handled
      /\ cached' = EventWrites
      /\ UNCHANGED <<serverVars, range, reader, clearing>>
  BY DEF PutEvent
<1>2. events # << >> /\ clearing.step = "none" /\ events \in Seq(Events)
  BY <1>1 DEF ListInv, TypeInv, EventsInv, ClearInv
<1>3. /\ cached' \in [Ids -> Nat]
      /\ \A i \in Ids :
           \/ Fits(server, events, i, cached'[i], 2)
           \/ cached'[i] = cached[i] /\ ~(Event.id = i /\ Mends(cached[i], Event))
  <2>1. PICK w : w = EventWrites
    OBVIOUS
  <2>2. /\ w \in [Ids -> Nat]
        /\ \A i \in Ids :
             \/ Fits(server, events, i, w[i], 2)
             \/ w[i] = cached[i] /\ ~(Event.id = i /\ Mends(cached[i], Event))
    BY <1>1, <1>2, <2>1, WrittenFits
  <2>3. cached' = w
    BY <1>1, <2>1
  <2> QED  BY <2>2, <2>3
<1>4. ASSUME NEW i \in Ids, InRange(i) \/ cached'[i] # 0
      PROVE  \/ Fits(server, events, i, cached'[i], 2)
             \/ \E r \in Readers : Tearing(r) /\ reader[r].got[i] # 0
  <2>1. CASE cached'[i] = cached[i] /\ ~(Event.id = i /\ Mends(cached[i], Event))
    <3>1. \/ Fits(server, events, i, cached[i], 1)
          \/ \E r \in Readers : Tearing(r) /\ reader[r].got[i] # 0
      BY <1>4, <2>1 DEF ListInv, SyncInv
    <3> QED  BY <1>2, <2>1, <3>1, FitsWithoutFirst DEF Event
  <2> QED  BY <1>3, <2>1
<1> QED  BY <1>1, <1>2, <1>3, <1>4, HandledStep
-----------------------------------------------------------------------------
(* The removal of old mails                                                 *)

\* updateRangeForList: below the cut-off there is nothing, or nothing in the range.
LEMMA ClearRangeStep ==
    ASSUME ListInv, ~ClearRaces, NEW cutoff \in Ids \union {GENERATED_MAX_ID}, ClearRange(cutoff)
    PROVE  ListInv'
<1> DEFINE complete(x) ==
               x.lower = GENERATED_MIN_ID /\ \A i \in On(cached) : i >= cutoff
           shorter(x) ==
               IF complete(x) \/ cutoff <= x.lower THEN x ELSE [x EXCEPT !.lower = cutoff]
           left == {x \in range : complete(x) \/ cutoff <= x.upper}
<1>1. /\ handling.step = "none" /\ \A r \in Readers : ~Busy(r)
      /\ range' = {shorter(x) : x \in left}
      /\ clearing' = [step |-> "list", cutoff |-> cutoff, mails |-> {}]
      /\ server' = server /\ changes' = changes /\ events' = events /\ handling' = handling
      /\ cached' = cached /\ reader' = reader
  BY DEF ClearRange, RangeFrom, serverVars, eventVars
<1>2. TypeInv /\ RangesInv /\ range \in SUBSET Ranges
  BY DEF ListInv, TypeInv
<1>3. cutoff \in Bounds /\ cutoff \in Int
  BY BoundsAreIntegers
<1>4. ASSUME NEW x \in left
      PROVE  /\ shorter(x) \in Ranges /\ shorter(x).lower <= shorter(x).upper
             /\ x.lower <= shorter(x).lower /\ shorter(x).upper = x.upper
             /\ complete(x) \/ cutoff <= shorter(x).lower
  <2>1. /\ x \in Ranges /\ x.lower \in Bounds /\ x.upper \in Bounds
        /\ x.lower <= x.upper
    BY <1>2 DEF Ranges, RangesInv
  <2>2. x.lower \in Int /\ x.upper \in Int
    BY <2>1, BoundsAreIntegers
  <2>3. CASE complete(x) \/ cutoff <= x.lower
    <3>1. shorter(x) = x
      BY <2>3
    <3> HIDE DEF complete, shorter
    <3> QED  BY <2>1, <2>2, <2>3, <3>1
  <2>4. CASE ~(complete(x) \/ cutoff <= x.lower)
    <3>1. cutoff <= x.upper
      BY <2>4
    <3>2. shorter(x) = [x EXCEPT !.lower = cutoff]
      BY <2>4
    <3>3. shorter(x) \in Ranges /\ shorter(x).lower = cutoff /\ shorter(x).upper = x.upper
      <4> HIDE DEF shorter
      <4> QED  BY <1>3, <2>1, <3>2 DEF Ranges
    <3> HIDE DEF shorter, complete
    <3> QED  BY <1>3, <2>2, <2>4, <3>1, <3>3
  <2> QED  BY <2>3, <2>4
<1>5. left \subseteq range
  OBVIOUS
<1>6. ASSUME NEW i \in Ids, InRange(i)'
      PROVE  InRange(i) /\ (i < cutoff => cached[i] = 0)
  <2>1. PICK x \in left : shorter(x).lower <= i /\ i <= shorter(x).upper
    BY <1>1, <1>6 DEF InRange
  <2>2. x \in range /\ x.lower \in Int /\ i \in Int /\ shorter(x).lower \in Int
    <3>1. x \in Ranges /\ shorter(x) \in Ranges /\ x \in range
      BY <1>2, <1>4, <1>5
    <3> HIDE DEF shorter, left
    <3> QED  BY <3>1, BoundsAreIntegers DEF Ranges
  <2>3. /\ x.lower <= shorter(x).lower /\ shorter(x).upper = x.upper
        /\ complete(x) \/ cutoff <= shorter(x).lower
    BY <1>4
  <2>4. InRange(i)
    <3> HIDE DEF shorter, complete, left
    <3> QED  BY <2>1, <2>2, <2>3 DEF InRange
  <2>5. i < cutoff => complete(x)
    <3> HIDE DEF shorter, complete, left
    <3> QED  BY <1>3, <2>1, <2>2, <2>3
  <2>6. complete(x) /\ i < cutoff => cached[i] = 0
    BY <1>3, <2>2 DEF On
  <2> QED  BY <2>4, <2>5, <2>6
<1>7. \A i \in Ids : InRange(i) \/ cached[i] # 0 => Fits(server, events, i, cached[i], 1)
  BY <1>1 DEF ListInv, SyncInv, Tearing, Busy
<1>8. range' \in SUBSET Ranges /\ RangesInv'
  <2> HIDE DEF shorter
  <2>1. \A x \in range' : x \in Ranges /\ x.lower <= x.upper
    BY <1>1, <1>4
  <2>2. \A x, y \in left : x = y
    BY <1>2, <1>5 DEF RangesInv
  <2> HIDE DEF left
  <2>3. \A x, y \in range' : x = y
    BY <1>1, <2>2
  <2> QED  BY <2>1, <2>3 DEF RangesInv
<1> HIDE DEF shorter, left, complete
<1>9. TypeInv'
  <2>1. clearing' \in [step : {"none", "list", "delete"}, cutoff : Int, mails : SUBSET Ids]
    BY <1>1, <1>3
  <2> QED  BY <1>1, <1>2, <1>8, <2>1 DEF TypeInv
<1>10. EventsInv'
  BY <1>1 DEF ListInv, EventsInv, Event
<1>11. SyncInv'
  <2> SUFFICES ASSUME NEW i \in Ids, InRange(i)' \/ cached[i] # 0
               PROVE  Fits(server, events, i, cached[i], 1)
    BY <1>1 DEF SyncInv
  <2> QED  BY <1>6, <1>7
<1>12. ClearInv'
  <2>1. \A i \in Ids : InRange(i)' /\ i < cutoff => Fits(server, events, i, 0, 1)
    <3> SUFFICES ASSUME NEW i \in Ids, InRange(i)', i < cutoff
                 PROVE  Fits(server, events, i, 0, 1)
      OBVIOUS
    <3>1. InRange(i) /\ cached[i] = 0
      BY <1>6
    <3> QED  BY <1>7, <3>1
  <2>2. \A r \in Readers : ~Busy(r)'
    BY <1>1 DEF Busy
  <2>3. clearing'.cutoff = cutoff /\ clearing'.step = "list"
    BY <1>1
  <2> QED  BY <1>1, <2>1, <2>2, <2>3 DEF ClearInv
<1>13. ReadersInv'
  <2> SUFFICES ASSUME NEW s \in Readers
               PROVE  ReaderFits(server, events, Rest', range', reader[s])
    BY <1>1 DEF ReadersInv
  <2> QED  BY <1>1 DEF ReaderFits, Busy
<1> QED  BY <1>8, <1>9, <1>10, <1>11, <1>12, <1>13 DEF ListInv

\* The old mails are those below the cut-off.
LEMMA ClearListStep ==
    ASSUME ListInv, ClearList
    PROVE  ListInv'
<1> DEFINE old == {i \in On(cached) : i < clearing.cutoff}
<1>1. /\ clearing.step = "list"
      /\ clearing' = [clearing EXCEPT !.step = "delete", !.mails = old]
      /\ server' = server /\ changes' = changes /\ events' = events /\ handling' = handling
      /\ range' = range /\ cached' = cached /\ reader' = reader
  BY DEF ClearList, serverVars, eventVars, cacheVars
<1>2. TypeInv
  BY DEF ListInv
<1>3. old \in SUBSET Ids /\ \A i \in old : i < clearing.cutoff
  BY DEF On
<1> HIDE DEF old
<1>4. /\ clearing'.step = "delete" /\ clearing'.mails = old
      /\ clearing'.cutoff = clearing.cutoff
      /\ clearing' \in [step : {"none", "list", "delete"}, cutoff : Int, mails : SUBSET Ids]
  BY <1>1, <1>2, <1>3 DEF TypeInv
<1>5. TypeInv'
  BY <1>1, <1>2, <1>4 DEF TypeInv
<1>6. EventsInv'
  BY <1>1 DEF ListInv, EventsInv, Event
<1>7. RangesInv' /\ SyncInv'
  BY <1>1 DEF ListInv, RangesInv, SyncInv, InRange, Tearing
<1>8. ClearInv'
  BY <1>1, <1>3, <1>4 DEF ListInv, ClearInv, InRange, Busy
<1>9. ReadersInv'
  BY <1>1 DEF ListInv, ReadersInv, Rest
<1> QED  BY <1>5, <1>6, <1>7, <1>8, <1>9 DEF ListInv

\* Old mails that are removed are outside of the range, or were cached after it was cut.
LEMMA ClearDeleteStep ==
    ASSUME ListInv, ClearDelete
    PROVE  ListInv'
<1>1. /\ clearing.step = "delete" /\ clearing' = NoClearing
      /\ cached' = [i \in Ids |-> IF i \in clearing.mails THEN 0 ELSE cached[i]]
      /\ server' = server /\ changes' = changes /\ events' = events /\ handling' = handling
      /\ range' = range /\ reader' = reader
  BY DEF ClearDelete, serverVars, eventVars
<1>2. TypeInv
  BY DEF ListInv
<1>3. clearing'.step = "none"
  BY <1>1 DEF NoClearing
<1>4. TypeInv'
  <2>1. clearing' \in [step : {"none", "list", "delete"}, cutoff : Int, mails : SUBSET Ids]
    BY <1>1 DEF NoClearing
  <2>2. cached' \in [Ids -> Nat]
    BY <1>1, <1>2 DEF TypeInv
  <2> QED  BY <1>1, <1>2, <2>1, <2>2 DEF TypeInv
<1>5. EventsInv'
  BY <1>1 DEF ListInv, EventsInv, Event
<1>6. RangesInv'
  BY <1>1 DEF ListInv, RangesInv
<1>7. SyncInv'
  <2> SUFFICES ASSUME NEW i \in Ids, InRange(i)' \/ cached'[i] # 0
               PROVE  \/ Fits(server, events, i, cached'[i], 1)
                      \/ \E s \in Readers : Tearing(s)' /\ reader'[s].got[i] # 0
    BY <1>1 DEF SyncInv
  <2>1. InRange(i)' <=> InRange(i)
    BY <1>1 DEF InRange
  <2>2. CASE i \in clearing.mails
    <3>1. cached'[i] = 0 /\ InRange(i) /\ i < clearing.cutoff
      BY <1>1, <2>1, <2>2 DEF ListInv, ClearInv
    <3>2. Fits(server, events, i, 0, 1)
      BY <1>1, <3>1 DEF ListInv, ClearInv
    <3> QED  BY <3>1, <3>2
  <2>3. CASE i \notin clearing.mails
    <3>1. cached'[i] = cached[i]
      BY <1>1, <2>3
    <3> QED  BY <1>1, <2>1, <3>1 DEF ListInv, SyncInv, Tearing
  <2> QED  BY <2>2, <2>3
<1>8. ClearInv'
  BY <1>3 DEF ClearInv
<1>9. ReadersInv'
  BY <1>1 DEF ListInv, ReadersInv, Rest
<1> QED  BY <1>4, <1>5, <1>6, <1>7, <1>8, <1>9 DEF ListInv
-----------------------------------------------------------------------------
(* A crash                                                                 *)

\* What survives a crash is in sync when no read is between the bound of the range and its
\* elements; the first bounds of a new range have no element between them.
LEMMA CrashStep ==
    ASSUME ListInv, ~TornRanges, Crash
    PROVE  ListInv'
<1>1. /\ server' = server /\ changes' = changes /\ events' = events
      /\ handling' = NoEvent /\ clearing' = NoClearing
      /\ reader' = [r \in Readers |-> Idle]
      /\ \A r \in Readers : ~Tearing(r)
  BY DEF Crash, serverVars, Tearing
<1>2. server \in [Ids -> Nat] /\ events \in Seq(Events) /\ cached \in [Ids -> Nat] /\ TypeInv
  BY DEF ListInv, TypeInv
<1>3. /\ range' \in SUBSET Ranges /\ RangesInv'
      /\ \A i \in Ids : InRange(i)' => InRange(i)
  <2>1. CASE range' = range
    BY <1>2, <2>1 DEF ListInv, TypeInv, RangesInv, InRange
  <2>2. ASSUME NEW r \in Readers, reader[r].step = "answered", reader[r].kind = "new",
               range' = {[lower |-> reader[r].start, upper |-> reader[r].start]}
        PROVE  /\ range' \in SUBSET Ranges /\ RangesInv'
               /\ \A i \in Ids : InRange(i)' => InRange(i)
    <3>1. PICK b : b = reader[r].start
      OBVIOUS
    <3>2. b \in Bounds /\ b \in Int /\ b \notin Ids
      <4>1. reader[r] \in Reads
        BY <1>2, <2>2, TypeOfStart DEF TypeInv
      <4>2. ReaderFits(server, events, Rest, range, reader[r])
        BY DEF ListInv, ReadersInv
      <4> QED  BY <2>2, <3>1, <4>1, <4>2, BoundsAreIntegers DEF Reads, ReaderFits
    <3>3. \A x \in range' : x = [lower |-> b, upper |-> b]
      BY <2>2, <3>1
    <3>4. range' \in SUBSET Ranges /\ RangesInv'
      BY <3>2, <3>3 DEF Ranges, RangesInv
    <3>5. \A i \in Ids : ~InRange(i)'
      <4> SUFFICES ASSUME NEW i \in Ids, InRange(i)' PROVE FALSE
        OBVIOUS
      <4>1. b <= i /\ i <= b /\ i \in Int
        BY <3>3, BoundsAreIntegers DEF InRange
      <4> QED  BY <3>2, <4>1
    <3> QED  BY <3>4, <3>5
  <2>3. range' = range \/ \E r \in Readers :
            /\ reader[r].step = "answered" /\ reader[r].kind = "new"
            /\ range' = {[lower |-> reader[r].start, upper |-> reader[r].start]}
    BY DEF Crash, Started
  <2> QED  BY <2>1, <2>2, <2>3
<1>4. \A i \in Ids : InRange(i) \/ cached[i] # 0 => Fits(server, events, i, cached[i], 1)
  BY <1>1 DEF ListInv, SyncInv
<1>5. /\ cached' \in [Ids -> Nat]
      /\ \A i \in Ids :
           \/ Fits(server, events, i, cached'[i], 1)
           \/ cached'[i] = cached[i]
  <2>1. CASE cached' = cached
    BY <1>2, <2>1
  <2>2. CASE cached' # cached
    <3>1. /\ cached' = EventWrites /\ events # << >>
          /\ Event.op = "DELETE" \/ handling.step = "answered"
      BY <2>2 DEF Crash, MayHandle, ListInv, EventsInv
    <3>2. /\ cached' \in [Ids -> Nat]
          /\ \A i \in Ids : Fits(server, events, i, cached'[i], 2) \/ cached'[i] = cached[i]
      BY <3>1, WrittenFits
    <3>3. \A i, v : Fits(server, events, i, v, 2) => Fits(server, events, i, v, 1)
      BY <1>2, FitsFromFirst
    <3> QED  BY <3>2, <3>3
  <2> QED  BY <2>1, <2>2
<1>6. TypeInv'
  <2>1. /\ handling' \in [step : {"none", "asked", "answered"}, got : Nat]
        /\ clearing' \in [step : {"none", "list", "delete"}, cutoff : Int, mails : SUBSET Ids]
        /\ reader' \in [Readers -> Reads \union {Idle}]
    BY <1>1 DEF NoEvent, NoClearing
  <2> QED  BY <1>1, <1>2, <1>3, <1>5, <2>1 DEF TypeInv
<1>7. EventsInv'
  BY <1>1 DEF ListInv, EventsInv, NoEvent
<1>8. SyncInv'
  BY <1>1, <1>3, <1>4, <1>5 DEF SyncInv
<1>9. ClearInv'
  BY <1>1 DEF ClearInv, NoClearing
<1>10. ReadersInv'
  BY <1>1 DEF ReadersInv, ReaderFits, Idle
<1> QED  BY <1>3, <1>6, <1>7, <1>8, <1>9, <1>10 DEF ListInv
-----------------------------------------------------------------------------
\* The cache is empty at the start.
LEMMA StartsInSync == Init => ListInv
<1> SUFFICES ASSUME Init PROVE ListInv
  OBVIOUS
<1>1. events = << >> /\ handling.step = "none" /\ range = {} /\ clearing.step = "none"
      /\ \A r \in Readers : reader[r].step = "idle"
  BY DEF Init, NoEvent, NoClearing, Idle
<1>2. TypeInv
  <2>1. clearing \in [step : {"none", "list", "delete"}, cutoff : Int, mails : SUBSET Ids]
    BY DEF Init, NoClearing
  <2>2. handling \in [step : {"none", "asked", "answered"}, got : Nat]
    BY DEF Init, NoEvent
  <2>3. reader \in [Readers -> Reads \union {Idle}]
    BY DEF Init
  <2>4. server \in [Ids -> Nat] /\ cached \in [Ids -> Nat] /\ changes \in Nat
    BY DEF Init
  <2>5. events \in Seq(Events)
    BY <1>1
  <2> QED  BY <1>1, <2>1, <2>2, <2>3, <2>4, <2>5 DEF TypeInv
<1>3. EventsInv
  <2>1. Len(events) = 0
    BY <1>1
  <2> QED  BY <1>1, <2>1 DEF EventsInv, EventsFit
<1>4. RangesInv
  BY <1>1 DEF RangesInv
<1>5. SyncInv
  BY DEF Init, SyncInv, InRange
<1>6. ClearInv
  BY <1>1 DEF ClearInv
<1>7. ReadersInv
  BY <1>1 DEF ReadersInv, ReaderFits
<1> QED  BY <1>2, <1>3, <1>4, <1>5, <1>6, <1>7 DEF ListInv

\* Every step keeps the invariant.
LEMMA StaysInSync ==
    ASSUME OneReader, ~EventsOvertake, ~ClearRaces, ~AnyStart, ~TornRanges,
           ListInv, [Next]_rangeVars
    PROVE  ListInv'
<1>1. ASSUME NEW i \in Ids, Create(i) \/ Update(i) \/ Delete(i) PROVE ListInv'
  <2>1. changes + 2 \in Nat /\ 0 \in Nat
    BY DEF ListInv, TypeInv
  <2>2. CASE Create(i)
    BY <2>1, <2>2, ChangeStep DEF Create
  <2>3. CASE Update(i)
    BY <2>1, <2>3, ChangeStep DEF Update
  <2>4. CASE Delete(i)
    BY <2>1, <2>4, ChangeStep DEF Delete
  <2> QED  BY <1>1, <2>2, <2>3, <2>4
<1>2. ASSUME NEW r \in Readers, ReadStep(r) PROVE ListInv'
  BY <1>2, PlanStep, AnswerStep, SetBoundStep, StoreStep, ContinueStep, FinishStep DEF ReadStep
<1>3. ASSUME NEW r \in Readers, NEW start \in Bounds, NEW count \in 1..MaxCount,
             NEW reverse \in BOOLEAN, LoadRange(r, start, count, reverse)
      PROVE  ListInv'
  BY <1>3, LoadRangeStep
<1>4. ASSUME NEW r \in Readers, NEW i \in Ids, Load(r, i) PROVE ListInv'
  BY <1>4, LoadStep
<1>5. CASE HandleEvent \/ AnswerEvent \/ PutEvent
  BY <1>5, HandleEventStep, AnswerEventStep, PutEventStep
<1>6. ASSUME NEW cutoff \in Ids \union {GENERATED_MAX_ID}, ClearRange(cutoff) PROVE ListInv'
  BY <1>6, ClearRangeStep
<1>7. CASE ClearList \/ ClearDelete
  BY <1>7, ClearListStep, ClearDeleteStep
<1>8. CASE Crash
  BY <1>8, CrashStep
<1>9. CASE UNCHANGED rangeVars
  BY <1>9 DEF rangeVars, serverVars, cacheVars, eventVars, ListInv, TypeInv, EventsInv, Event,
              RangesInv, SyncInv, InRange, Tearing, ClearInv, Busy, ReadersInv, Rest
<1> QED  BY <1>1, <1>2, <1>3, <1>4, <1>5, <1>6, <1>7, <1>8, <1>9 DEF Next

\* What the invariant says of a quiet element.
LEMMA InSyncWhenQuiet == ListInv => RangeInSync
<1> SUFFICES ASSUME ListInv, NEW i \in Ids, InRange(i) \/ cached[i] # 0, cached[i] # server[i]
             PROVE  Pending(i) \/ \E r \in Readers : Writing(r) /\ reader[r].got[i] # 0
  BY DEF RangeInSync
<1>1. CASE Fits(server, events, i, cached[i], 1)
  BY <1>1 DEF Fits, Pending, ListInv, TypeInv
<1> QED  BY <1>1 DEF ListInv, SyncInv, Tearing, Writing

(***************************************************************************)
(* The range has no gap and no outdated element, but for what a pending    *)
(* event or the read in progress will mend (updateRangeInStorage,          *)
(* processCreateEvent, updateRangeForList).  It holds for one reader, when *)
(* no event is handled between an answer and its puts, old mails are not   *)
(* removed meanwhile, reads start at an end of the list or at a cached     *)
(* element of it, and a crash may come at any time but between the bound   *)
(* that updateRangeInStorage writes and the elements.                      *)
(***************************************************************************)
THEOREM RangeInSyncAlways ==
    ASSUME OneReader, ~EventsOvertake, ~ClearRaces, ~AnyStart, ~TornRanges
    PROVE  RangeSpec => []RangeInSync
<1>1. Init => ListInv
  BY StartsInSync
<1>2. ListInv /\ [Next]_rangeVars => ListInv'
  BY StaysInSync
<1>3. ListInv => RangeInSync
  BY InSyncWhenQuiet
<1> QED  BY <1>1, <1>2, <1>3, PTL DEF RangeSpec
=============================================================================
