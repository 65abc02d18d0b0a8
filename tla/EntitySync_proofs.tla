------------------------- MODULE EntitySync_proofs -------------------------
(***************************************************************************)
(* Merging loses no change and never runs into a ProgrammingError, for any *)
(* instances, lists, groups and batches that the server may send.          *)
(*                                                                         *)
(* The events of an instance that wait in the queue and in the log are a   *)
(* chain of steps, each of which takes the instance from one place to      *)
(* another.  The chain leads from where the mirror has the instance to     *)
(* where the server has it, and merging only ever makes it shorter.        *)
(***************************************************************************)
EXTENDS EntitySync, EventQueue_proofs

(* Places of an instance: a list, or nowhere.                              *)
Place == List \union {Gone}
PlaceOf(i) == IF Exists(i) THEN location[i] ELSE Gone

(* What the events of one instance in one batch do.                        *)
ListOf(es) == (CHOOSE e \in es : TRUE).list
StepOf(es) ==
    [kind |-> Modification(es),
     from |-> IF OfOp(es, "CREATE") = es THEN Gone ELSE ListOf(es \ OfOp(es, "CREATE")),
     to |-> IF OfOp(es, "DELETE") = es THEN Gone ELSE ListOf(es \ OfOp(es, "DELETE"))]
Steps == {s \in [kind : Op \union {"MOVE"}, from : Place, to : Place] :
             /\ s.from = Gone <=> s.kind = "CREATE"
             /\ s.to = Gone <=> s.kind = "DELETE"
             /\ s.kind = "UPDATE" => s.from = s.to}

(* The steps F at the positions P: each starts where the one before ended, *)
(* but an instance may be deleted that was not created.                    *)
Next2(P, p, r) == p < r /\ \A k \in P : k <= p \/ r <= k
Follows(s, t) == t.from = s.to \/ (t.kind = "DELETE" /\ s.to = Gone)
Linked(P, F) == \A p, r \in P : Next2(P, p, r) => Follows(F[p], F[r])

Placed(P, F, n) == \A p \in P : p <= n /\ F[p] \in Steps
OnlyUpdates(P, F, r) == \A k \in P : r <= k => F[k].kind = "UPDATE"

(* The chain ends where the server has the instance, and begins where the  *)
(* mirror has it (the lists M), if it does.                                *)
EndsAt(P, F, l) == \A p \in P : (\A k \in P : k <= p) => F[p].to = l
BeginsAt(P, F, M, l) ==
    /\ \A p \in P : (\A k \in P : p <= k) => M \subseteq {F[p].from}
    /\ P = {} => M \subseteq {l}

(* The steps that do not download by themselves need a copy: updates any,  *)
(* moves a fresh one (S are the lists of outdated copies).                 *)
HasCopy(P, F, M, l) == l # Gone /\ (\A p \in P : F[p].kind = "UPDATE") => M # {}
HasFresh(P, F, S) == (\A p \in P : F[p].kind = "MOVE") => S = {}

Chain(P, F, M, S, l) ==
    Linked(P, F) /\ EndsAt(P, F, l) /\ BeginsAt(P, F, M, l) /\ HasCopy(P, F, M, l) /\ HasFresh(P, F, S)
-----------------------------------------------------------------------------
(* Sets of positions: greatest and neighbouring elements.                  *)
LEMMA GreatestExists ==
    ASSUME NEW T \in SUBSET Nat, T # {}, NEW n \in Nat, \A t \in T : t <= n
    PROVE  \E b \in T : \A c \in T : c <= b
<1>1. PICK U : U = {n - t : t \in T}
  OBVIOUS
<1>2. U \in SUBSET Nat /\ U # {}
  <2>1. \A t \in T : n - t \in Nat
    OBVIOUS
  <2> QED  BY <1>1, <2>1
<1>3. PICK u \in U : \A v \in U : u <= v
  BY <1>2, LeastExists
<1>4. PICK b \in T : u = n - b
  BY <1>1
<1>5. ASSUME NEW c \in T PROVE c <= b
  <2>1. n - c \in U
    BY <1>1
  <2>2. n - b <= n - c
    BY <1>3, <1>4, <2>1
  <2> QED  BY <2>2
<1> QED  BY <1>5

LEMMA NextExists ==
    ASSUME NEW P \in SUBSET Nat, NEW p \in P, \E k \in P : p < k
    PROVE  \E r \in P : Next2(P, p, r)
<1>1. PICK U : U = {k \in P : p < k}
  OBVIOUS
<1>2. PICK r \in U : \A v \in U : r <= v
  BY <1>1, LeastExists
<1> QED  BY <1>1, <1>2 DEF Next2

LEMMA PreviousExists ==
    ASSUME NEW P \in SUBSET Nat, NEW r \in P, \E k \in P : k < r
    PROVE  \E p \in P : Next2(P, p, r)
<1>1. PICK U : U = {k \in P : k < r}
  OBVIOUS
<1>2. \A t \in U : t <= r
  BY <1>1
<1>3. PICK p \in U : \A v \in U : v <= p
  BY <1>1, <1>2, GreatestExists
<1> QED  BY <1>1, <1>3 DEF Next2

(* If only updates are left, they are where the chain ends.                *)
LEMMA UpdatesStay ==
    ASSUME NEW P \in SUBSET Nat, NEW F, NEW n \in Nat, Placed(P, F, n),
           NEW l, Linked(P, F), EndsAt(P, F, l), NEW r \in P, OnlyUpdates(P, F, r)
    PROVE  F[r].from = l
<1>1. PICK U : U = {k \in P : r <= k /\ F[k].from # l}
  OBVIOUS
<1> SUFFICES ASSUME U # {} PROVE FALSE
  BY <1>1
<1>2. PICK k \in U : \A v \in U : v <= k
  BY <1>1, GreatestExists DEF Placed
<1>3. k \in P /\ F[k].from # l /\ F[k].kind = "UPDATE" /\ F[k].from = F[k].to /\ r <= k
  BY <1>1, <1>2 DEF Steps, Placed, OnlyUpdates
<1>4. PICK m \in P : Next2(P, k, m)
  <2>1. ~\A v \in P : v <= k
    BY <1>3 DEF EndsAt
  <2> QED  BY <1>3, <2>1, NextExists
<1>5. m \notin U /\ r <= m
  BY <1>2, <1>3, <1>4 DEF Next2
<1>6. F[m].kind = "UPDATE" /\ F[m].from = l
  BY <1>1, <1>5 DEF OnlyUpdates
<1>7. F[m].from = F[k].to
  BY <1>3, <1>4, <1>6 DEF Linked, Follows
<1> QED  BY <1>3, <1>6, <1>7
-----------------------------------------------------------------------------
(* The server adds a step at the end.                                      *)
LEMMA ChainGrows ==
    ASSUME NEW P \in SUBSET Nat, NEW F, NEW M, NEW S, NEW l, Chain(P, F, M, S, l),
           NEW n \in Nat, \A p \in P : p < n, NEW G, \A p \in P : G[p] = F[p],
           G[n] \in Steps, G[n].from = l, NEW T, G[n].kind # "UPDATE" => T = S
    PROVE  Chain(P \union {n}, G, M, T, G[n].to)
<1>1. PICK Q : Q = P \union {n}
  OBVIOUS
<1>2. Linked(Q, G)
  <2> SUFFICES ASSUME NEW p \in Q, NEW r \in Q, Next2(Q, p, r) PROVE Follows(G[p], G[r])
    BY DEF Linked
  <2>1. CASE r = n
    <3>1. p \in P /\ \A k \in P : k <= p
      BY <1>1, <2>1 DEF Next2
    <3>2. F[p].to = l
      BY <3>1 DEF Chain, EndsAt
    <3> QED  BY <2>1, <3>1, <3>2 DEF Follows
  <2>2. CASE r # n
    <3>1. r \in P /\ r < n /\ r \in Nat
      BY <1>1, <2>2
    <3>2. p # n
      BY <3>1 DEF Next2
    <3>3. p \in P /\ Next2(P, p, r)
      BY <1>1, <3>2 DEF Next2
    <3> QED  BY <3>1, <3>3 DEF Chain, Linked
  <2> QED  BY <2>1, <2>2
<1>3. EndsAt(Q, G, G[n].to)
  BY <1>1 DEF EndsAt
<1>4. BeginsAt(Q, G, M, G[n].to)
  <2>1. ASSUME NEW p \in Q, \A k \in Q : p <= k PROVE M \subseteq {G[p].from}
    <3>1. CASE P = {}
      BY <1>1, <2>1, <3>1 DEF Chain, BeginsAt
    <3>2. CASE P # {}
      <4>1. PICK k \in P : k \in Nat /\ k < n
        BY <3>2
      <4>2. p <= k /\ \A m \in P : p <= m
        BY <1>1, <2>1
      <4>3. p # n
        BY <4>1, <4>2
      <4>4. p \in P
        BY <1>1, <4>3
      <4> QED  BY <4>2, <4>4 DEF Chain, BeginsAt
    <3> QED  BY <3>1, <3>2
  <2> QED  BY <1>1, <2>1 DEF BeginsAt
<1>5. HasCopy(Q, G, M, G[n].to)
  BY <1>1 DEF HasCopy, Chain, Steps
<1>6. HasFresh(Q, G, T)
  BY <1>1 DEF HasFresh, Chain
<1> QED  BY <1>1, <1>2, <1>3, <1>4, <1>5, <1>6 DEF Chain

(* The mirror applies the first step.                                      *)
LEMMA ChainShrinks ==
    ASSUME NEW P \in SUBSET Nat, NEW F, NEW n \in Nat, Placed(P, F, n), NEW M, NEW S, NEW l, Chain(P, F, M, S, l),
           NEW f \in P, \A p \in P : f <= p,
           NEW N \in SUBSET List, N \subseteq {F[f].to}, NEW T,
           F[f].to = l /\ l # Gone /\ (F[f].kind = "UPDATE" => M # {}) => N # {},
           F[f].kind = "MOVE" => (S = {} => T = {}), F[f].kind # "MOVE" => T = {}
    PROVE  Chain(P \ {f}, F, N, T, l)
<1>1. PICK Q : Q = P \ {f}
  OBVIOUS
<1>2. Linked(Q, F) /\ EndsAt(Q, F, l)
  <2>1. \A p, r \in Q : Next2(Q, p, r) => Next2(P, p, r)
    BY <1>1 DEF Next2
  <2>2. \A p \in Q : (\A k \in Q : k <= p) => \A k \in P : k <= p
    BY <1>1
  <2> QED  BY <1>1, <2>1, <2>2 DEF Chain, Linked, EndsAt
<1>3. ASSUME NEW r \in Q, \A k \in Q : r <= k PROVE Follows(F[f], F[r])
  <2>1. f <= r /\ f # r /\ f \in Nat /\ r \in Nat
    BY <1>1
  <2>2. f < r
    BY <2>1
  <2>3. \A k \in P : k = f \/ r <= k
    BY <1>1, <1>3
  <2>4. Next2(P, f, r)
    BY <2>1, <2>2, <2>3 DEF Next2
  <2> QED  BY <1>1, <2>4 DEF Chain, Linked
<1>4. Q = {} => F[f].to = l
  BY <1>1 DEF Chain, EndsAt
<1>5. BeginsAt(Q, F, N, l)
  <2>1. Gone \notin List
    BY SyncAssumption
  <2>2. ASSUME NEW r \in Q, \A k \in Q : r <= k PROVE N \subseteq {F[r].from}
    BY <1>3, <2>1, <2>2 DEF Follows
  <2> QED  BY <1>4, <2>2 DEF BeginsAt
<1>6. HasCopy(Q, F, N, l)
  <2> SUFFICES ASSUME l # Gone, \A p \in Q : F[p].kind = "UPDATE" PROVE N # {}
    BY DEF HasCopy
  <2>1. F[f].to = l
    <3>1. CASE Q = {}
      BY <1>4, <3>1
    <3>2. CASE Q # {}
      <4>1. PICK r \in Q : \A k \in Q : r <= k
        BY <1>1, <3>2, LeastExists
      <4>2. F[r].from = l
        <5>1. Q \in SUBSET Nat /\ Placed(Q, F, n)
          BY <1>1 DEF Placed
        <5>2. OnlyUpdates(Q, F, r)
          BY DEF OnlyUpdates
        <5>3. Linked(Q, F) /\ EndsAt(Q, F, l)
          BY <1>2
        <5> QED  BY <4>1, <5>1, <5>2, <5>3, UpdatesStay
      <4>3. F[r].kind = "UPDATE"
        OBVIOUS
      <4> QED  BY <1>3, <4>1, <4>2, <4>3 DEF Follows
    <3> QED  BY <3>1, <3>2
  <2>2. F[f].kind = "UPDATE" => M # {}
    BY <1>1 DEF Chain, HasCopy
  <2> QED  BY <2>1, <2>2
<1>7. HasFresh(Q, F, T)
  BY <1>1 DEF HasFresh, Chain
<1> QED  BY <1>1, <1>2, <1>5, <1>6, <1>7 DEF Chain

(* The positions do not matter, only their order.                          *)
LEMMA ChainMoves ==
    ASSUME NEW P \in SUBSET Nat, NEW F, NEW M, NEW S, NEW l, Chain(P, F, M, S, l),
           NEW Q \in SUBSET Nat, NEW G, NEW h,
           \A q \in Q : h[q] \in P /\ G[q] = F[h[q]],
           \A q, r \in Q : q < r => h[q] < h[r],
           \A p \in P : \E q \in Q : h[q] = p
    PROVE  Chain(Q, G, M, S, l)
<1>1. \A q, r \in Q : q <= r => h[q] <= h[r]
  <2>1. \A q, r \in Q : q \in Nat /\ r \in Nat /\ h[q] \in Nat /\ h[r] \in Nat
    OBVIOUS
  <2> QED  BY <2>1
<1>2. \A q, r \in Q : Next2(Q, q, r) => Next2(P, h[q], h[r])
  <2> SUFFICES ASSUME NEW q \in Q, NEW r \in Q, Next2(Q, q, r), NEW p \in P
               PROVE  p <= h[q] \/ h[r] <= p
    BY DEF Next2
  <2>1. PICK k \in Q : h[k] = p
    OBVIOUS
  <2>2. k <= q \/ r <= k
    BY DEF Next2
  <2> QED  BY <1>1, <2>1, <2>2
<1>3. Linked(Q, G)
  BY <1>2 DEF Chain, Linked
<1>4. EndsAt(Q, G, l)
  <2> SUFFICES ASSUME NEW q \in Q, \A k \in Q : k <= q PROVE G[q].to = l
    BY DEF EndsAt
  <2>1. PICK p \in P : p = h[q]
    OBVIOUS
  <2>2. \A k \in P : k <= p
    BY <1>1, <2>1
  <2>3. F[p].to = l
    BY <2>2 DEF Chain, EndsAt
  <2> QED  BY <2>1, <2>3
<1>5. BeginsAt(Q, G, M, l)
  <2>1. ASSUME NEW q \in Q, \A k \in Q : q <= k PROVE M \subseteq {G[q].from}
    <3>1. \A p \in P : h[q] <= p
      BY <1>1, <2>1
    <3> QED  BY <3>1 DEF Chain, BeginsAt
  <2>2. Q = {} => P = {}
    OBVIOUS
  <2> QED  BY <2>1, <2>2 DEF Chain, BeginsAt
<1>6. HasCopy(Q, G, M, l)
  <2> SUFFICES ASSUME l # Gone, \A q \in Q : G[q].kind = "UPDATE" PROVE M # {}
    BY DEF HasCopy
  <2>1. \A p \in P : F[p].kind = "UPDATE"
    OBVIOUS
  <2> QED  BY <2>1 DEF Chain, HasCopy
<1>7. HasFresh(Q, G, S)
  <2> SUFFICES ASSUME \A q \in Q : G[q].kind = "MOVE" PROVE S = {}
    BY DEF HasFresh
  <2>1. \A p \in P : F[p].kind = "MOVE"
    OBVIOUS
  <2> QED  BY <2>1 DEF Chain, HasFresh
<1> QED  BY <1>3, <1>4, <1>5, <1>6, <1>7 DEF Chain

(* The steps from a to h are merged into one at a: it starts where a       *)
(* started and ends where h ended.                                         *)
Between(P, a, h) == {k \in P : a <= k /\ k <= h}
MergesInto(P, F, a, h, s) ==
    /\ s.from = F[a].from /\ s.to = F[h].to
    /\ F[a].kind = "DELETE" => s.kind = "DELETE"
    /\ s.kind = "UPDATE" => \A k \in Between(P, a, h) : F[k].kind = "UPDATE"
    /\ s.kind = "MOVE" => \A k \in Between(P, a, h) : F[k].kind = "MOVE"

(* The steps from a to h become the one step s, at the place of a: the new *)
(* event is folded into an older batch.                                    *)
LEMMA ChainMergesFirst ==
    ASSUME NEW P \in SUBSET Nat, NEW F, NEW M, NEW S, NEW l, Chain(P, F, M, S, l),
           NEW a \in P, NEW h \in P, a <= h,
           NEW Q, Q = (P \ Between(P, a, h)) \union {a},
           NEW G, \A q \in Q \ {a} : G[q] = F[q], MergesInto(P, F, a, h, G[a])
    PROVE  Chain(Q, G, M, S, l)
<1>1. /\ Q \subseteq P /\ a \in Q /\ a \in Nat /\ h \in Nat
      /\ \A k \in P : k \in Nat /\ (k \in Q <=> k <= a \/ h < k)
  BY DEF Between
<1>2. Linked(Q, G)
  <2> SUFFICES ASSUME NEW p \in Q, NEW r \in Q, Next2(Q, p, r) PROVE Follows(G[p], G[r])
    BY DEF Linked
  <2>1. p \in Nat /\ r \in Nat /\ p < r /\ p \in P /\ r \in P
    BY <1>1 DEF Next2
  <2>2. CASE p = a
    <3>1. h < r
      BY <1>1, <2>1, <2>2
    <3>2. Next2(P, h, r)
      <4> SUFFICES ASSUME NEW k \in P PROVE k <= h \/ r <= k
        BY <3>1 DEF Next2
      <4>1. k \in Q => k <= a \/ r <= k
        BY <2>2 DEF Next2
      <4> QED  BY <1>1, <4>1
    <3>3. Follows(F[h], F[r])
      BY <2>1, <3>2 DEF Chain, Linked
    <3>4. G[r] = F[r] /\ G[p].to = F[h].to
      BY <2>1, <2>2 DEF MergesInto
    <3> QED  BY <3>3, <3>4 DEF Follows
  <2>3. CASE p # a
    <3>1. Next2(P, p, r)
      <4> SUFFICES ASSUME NEW k \in P PROVE k <= p \/ r <= k
        BY <2>1 DEF Next2
      <4>1. \A j \in Q : j <= p \/ r <= j
        BY DEF Next2
      <4>2. a <= p \/ r <= a
        BY <1>1, <4>1
      <4>3. CASE k \in Q
        BY <4>1, <4>3
      <4>4. CASE k \notin Q
        <5>1. a < k /\ k <= h
          BY <1>1, <4>4
        <5>2. p < a \/ h < p
          BY <1>1, <2>1, <2>3
        <5> QED  BY <1>1, <2>1, <4>2, <5>1, <5>2
      <4> QED  BY <4>3, <4>4
    <3>2. Follows(F[p], F[r])
      BY <2>1, <3>1 DEF Chain, Linked
    <3>3. G[p] = F[p] /\ (r # a => G[r] = F[r])
      BY <2>3
    <3>4. r = a => G[r].from = F[r].from /\ (F[r].kind = "DELETE" => G[r].kind = "DELETE")
      BY DEF MergesInto
    <3> QED  BY <3>2, <3>3, <3>4 DEF Follows
  <2> QED  BY <2>2, <2>3
<1>3. EndsAt(Q, G, l)
  <2> SUFFICES ASSUME NEW q \in Q, \A k \in Q : k <= q PROVE G[q].to = l
    BY DEF EndsAt
  <2>1. CASE q = a
    <3>1. \A k \in P : k <= h
      BY <1>1, <2>1
    <3> QED  BY <2>1, <3>1 DEF Chain, EndsAt, MergesInto
  <2>2. CASE q # a
    <3>1. q \in P /\ q \in Nat /\ a <= q /\ h < q
      <4>1. a <= q /\ q \in P
        BY <1>1
      <4>2. q \in Nat /\ (q <= a \/ h < q)
        BY <1>1
      <4> QED  BY <1>1, <2>2, <4>1, <4>2
    <3>2. \A k \in P : k <= q
      BY <1>1, <3>1
    <3> QED  BY <2>2, <3>1, <3>2 DEF Chain, EndsAt
  <2> QED  BY <2>1, <2>2
<1>4. BeginsAt(Q, G, M, l)
  <2>1. ASSUME NEW q \in Q, \A k \in Q : q <= k PROVE M \subseteq {G[q].from}
    <3>1. q \in P /\ \A k \in P : q <= k
      BY <1>1, <2>1
    <3>2. G[q].from = F[q].from
      BY DEF MergesInto
    <3> QED  BY <3>1, <3>2 DEF Chain, BeginsAt
  <2> QED  BY <1>1, <2>1 DEF BeginsAt
<1>5. HasCopy(Q, G, M, l)
  <2> SUFFICES ASSUME l # Gone, \A q \in Q : G[q].kind = "UPDATE" PROVE M # {}
    BY DEF HasCopy
  <2>1. \A p \in P : F[p].kind = "UPDATE"
    BY <1>1 DEF MergesInto, Between
  <2> QED  BY <2>1 DEF Chain, HasCopy
<1>6. HasFresh(Q, G, S)
  <2> SUFFICES ASSUME \A q \in Q : G[q].kind = "MOVE" PROVE S = {}
    BY DEF HasFresh
  <2>1. \A p \in P : F[p].kind = "MOVE"
    BY <1>1 DEF MergesInto, Between
  <2> QED  BY <2>1 DEF Chain, HasFresh
<1> QED  BY <1>2, <1>3, <1>4, <1>5, <1>6 DEF Chain

(* Creations and updates after lo disappear in the deletion h.             *)
LEMMA ChainMergesLast ==
    ASSUME NEW P \in SUBSET Nat, NEW F, NEW n \in Nat, Placed(P, F, n),
           NEW M \in SUBSET List, NEW S, NEW l, Chain(P, F, M, S, l),
           NEW lo \in Nat, NEW h \in P, lo < h, F[h].kind = "DELETE",
           \A k \in P : lo < k /\ k < h => F[k].kind \in {"CREATE", "UPDATE"},
           NEW Q, Q = {k \in P : k <= lo \/ h <= k}
    PROVE  Chain(Q, F, M, S, l)
<1>1. PICK U : U = {k \in P : lo < k /\ k <= h}
  OBVIOUS
<1>2. PICK a \in U : \A u \in U : a <= u
  <2>1. h \in U
    BY <1>1
  <2> QED  BY <1>1, <2>1, LeastExists
<1>3. /\ a \in P /\ a \in Nat /\ h \in Nat /\ lo < a /\ a <= h
      /\ \A k \in P : k \in Nat /\ (lo < k /\ k <= h => a <= k)
  BY <1>1, <1>2
<1>4. CASE a = h
  <2>1. \A k \in P : k <= lo \/ h <= k
    BY <1>3, <1>4
  <2>2. Q = P
    BY <2>1
  <2> QED  BY <2>2
<1>5. CASE a < h
  <2>1. Gone \notin List /\ \A k \in P : F[k] \in Steps
    BY SyncAssumption DEF Placed
  <2>2. F[a].kind \in {"CREATE", "UPDATE"} /\ F[a].to # Gone
    BY <1>3, <1>5, <2>1 DEF Steps
  <2>3. F[h].from = F[a].to
    <3>1. PICK V : V = {k \in P : a < k /\ k <= h /\ F[k].from # F[a].to}
      OBVIOUS
    <3> SUFFICES ASSUME V # {} PROVE FALSE
      BY <1>3, <1>5, <3>1
    <3>2. PICK k \in V : \A v \in V : k <= v
      BY <3>1, LeastExists
    <3>3. k \in P /\ a < k /\ k <= h /\ F[k].from # F[a].to /\ k \in Nat
      BY <1>3, <3>1, <3>2
    <3>4. PICK p \in P : Next2(P, p, k)
      BY <1>3, <3>3, PreviousExists
    <3>5. p \in Nat /\ a <= p /\ p < k
      BY <1>3, <3>3, <3>4 DEF Next2
    <3>6. Follows(F[p], F[k])
      BY <3>3, <3>4 DEF Chain, Linked
    <3>7. F[p].to = F[a].to
      <4>1. CASE p = a
        BY <4>1
      <4>2. CASE p # a
        <5>1. a < p /\ p <= h /\ p \notin V
          BY <1>3, <3>2, <3>3, <3>5, <4>2
        <5>2. F[p].from = F[a].to
          BY <3>1, <5>1
        <5>3. F[p].kind \in {"CREATE", "UPDATE"}
          BY <1>3, <3>3, <3>5
        <5> QED  BY <2>1, <2>2, <5>2, <5>3 DEF Steps
      <4> QED  BY <4>1, <4>2
    <3> QED  BY <2>2, <3>3, <3>6, <3>7 DEF Follows
  <2>4. /\ Q \subseteq P /\ h \in Q /\ \A k \in P : k \in Q <=> k < a \/ h <= k
    BY <1>3, <1>5
  <2>5. Linked(Q, F)
    <3> SUFFICES ASSUME NEW p \in Q, NEW r \in Q, Next2(Q, p, r) PROVE Follows(F[p], F[r])
      BY DEF Linked
    <3>1. p \in Nat /\ r \in Nat /\ p < r /\ p \in P /\ r \in P /\ \A k \in Q : k <= p \/ r <= k
      BY <1>3, <2>4 DEF Next2
    <3>2. CASE r = h
      <4>1. p < a
        BY <1>3, <2>4, <3>1, <3>2
      <4>2. Next2(P, p, a)
        <5> SUFFICES ASSUME NEW k \in P PROVE k <= p \/ a <= k
          BY <4>1 DEF Next2
        <5>1. k < a => k \in Q
          BY <2>4
        <5> QED  BY <1>3, <1>5, <3>1, <3>2, <5>1
      <4>3. Follows(F[p], F[a])
        BY <1>3, <3>1, <4>2 DEF Chain, Linked
      <4>4. F[a].from = F[p].to
        BY <2>2, <4>3 DEF Follows
      <4>5. CASE F[a].kind = "CREATE"
        BY <1>3, <2>1, <3>2, <4>4, <4>5 DEF Follows, Steps
      <4>6. CASE F[a].kind = "UPDATE"
        BY <1>3, <2>1, <2>3, <3>2, <4>4, <4>6 DEF Follows, Steps
      <4> QED  BY <2>2, <4>5, <4>6
    <3>3. CASE r # h
      <4>1. Next2(P, p, r)
        <5> SUFFICES ASSUME NEW k \in P PROVE k <= p \/ r <= k
          BY <3>1 DEF Next2
        <5>1. h <= p \/ r <= h
          BY <2>4, <3>1
        <5>2. r < a \/ h <= p
          BY <1>3, <2>4, <3>1, <3>3, <5>1
        <5> QED  BY <1>3, <2>4, <3>1, <5>2
      <4> QED  BY <3>1, <4>1 DEF Chain, Linked
    <3> QED  BY <3>2, <3>3
  <2>6. EndsAt(Q, F, l)
    <3> SUFFICES ASSUME NEW q \in Q, \A k \in Q : k <= q PROVE F[q].to = l
      BY DEF EndsAt
    <3>1. h <= q /\ \A k \in P : k <= q
      BY <1>3, <1>5, <2>4
    <3> QED  BY <2>4, <3>1 DEF Chain, EndsAt
  <2>7. BeginsAt(Q, F, M, l)
    <3>1. ASSUME NEW q \in Q, \A k \in Q : q <= k PROVE M \subseteq {F[q].from}
      <4>1. CASE q = h
        <5>1. \A k \in P : a <= k
          BY <1>3, <2>4, <3>1, <4>1
        <5>2. M \subseteq {F[a].from}
          BY <1>3, <5>1 DEF Chain, BeginsAt
        <5>3. F[a].kind = "CREATE" => M = {}
          BY <1>3, <2>1, <5>2 DEF Steps
        <5>4. F[a].kind = "UPDATE" => F[a].from = F[h].from
          BY <1>3, <2>1, <2>3 DEF Steps
        <5> QED  BY <2>2, <4>1, <5>2, <5>3, <5>4
      <4>2. CASE q # h
        <5>1. q <= h /\ q \in P
          BY <2>4, <3>1
        <5>2. \A k \in P : q <= k
          BY <1>3, <1>5, <2>4, <3>1, <4>2, <5>1
        <5> QED  BY <5>1, <5>2 DEF Chain, BeginsAt
      <4> QED  BY <4>1, <4>2
    <3> QED  BY <2>4, <3>1 DEF BeginsAt
  <2>8. HasCopy(Q, F, M, l) /\ HasFresh(Q, F, S)
    BY <2>4 DEF HasCopy, HasFresh
  <2> QED  BY <2>5, <2>6, <2>7, <2>8 DEF Chain
<1> QED  BY <1>3, <1>4, <1>5

(* An update and the move after it become a deletion and a creation.       *)
LEMMA ChainSplits ==
    ASSUME NEW P \in SUBSET Nat, NEW F, NEW M, NEW S, NEW l, Chain(P, F, M, S, l),
           NEW a \in P, NEW h \in P, Next2(P, a, h), F[a].kind # "DELETE",
           NEW G, \A p \in P : p # a /\ p # h => G[p] = F[p],
           G[a].kind = "DELETE", G[a].from = F[a].from, G[a].to = Gone,
           G[h].kind = "CREATE", G[h].from = Gone, G[h].to = F[h].to, F[h].kind # "DELETE"
    PROVE  Chain(P, G, M, S, l)
<1>1. a \in Nat /\ h \in Nat /\ a < h /\ \A k \in P : k \in Nat /\ (k <= a \/ h <= k)
  BY DEF Next2
<1>2. Linked(P, G)
  <2> SUFFICES ASSUME NEW p \in P, NEW r \in P, Next2(P, p, r) PROVE Follows(G[p], G[r])
    BY DEF Linked
  <2>1. Follows(F[p], F[r])
    BY DEF Chain, Linked
  <2>2. p \in Nat /\ r \in Nat /\ p < r /\ \A k \in P : k <= p \/ r <= k
    BY <1>1 DEF Next2
  <2>3. CASE p = a
    <3>1. r = h
      BY <1>1, <2>2, <2>3
    <3> QED  BY <2>3, <3>1 DEF Follows
  <2>4. CASE p # a
    <3>1. r # h
      BY <1>1, <2>2, <2>4
    <3>2. G[p].to = F[p].to
      BY <2>4
    <3>3. CASE r = a
      BY <2>1, <3>2, <3>3 DEF Follows
    <3>4. CASE r # a
      BY <2>1, <3>1, <3>2, <3>4 DEF Follows
    <3> QED  BY <3>3, <3>4
  <2> QED  BY <2>3, <2>4
<1>3. EndsAt(P, G, l)
  <2> SUFFICES ASSUME NEW q \in P, \A k \in P : k <= q PROVE G[q].to = l
    BY DEF EndsAt
  <2>1. q # a
    BY <1>1
  <2>2. F[q].to = l
    BY DEF Chain, EndsAt
  <2> QED  BY <2>1, <2>2
<1>4. BeginsAt(P, G, M, l)
  <2>1. ASSUME NEW q \in P, \A k \in P : q <= k PROVE M \subseteq {G[q].from}
    <3>1. q # h
      BY <1>1, <2>1
    <3>2. M \subseteq {F[q].from}
      BY <2>1 DEF Chain, BeginsAt
    <3> QED  BY <3>1, <3>2
  <2> QED  BY <2>1 DEF BeginsAt
<1>5. HasCopy(P, G, M, l) /\ HasFresh(P, G, S)
  BY DEF HasCopy, HasFresh
<1> QED  BY <1>2, <1>3, <1>4, <1>5 DEF Chain

(* Only the steps at the positions of the chain matter.                    *)
LEMMA ChainSame ==
    ASSUME NEW P \in SUBSET Nat, NEW F, NEW M, NEW S, NEW l, Chain(P, F, M, S, l),
           NEW G, \A p \in P : G[p] = F[p]
    PROVE  Chain(P, G, M, S, l)
  BY DEF Chain, Linked, EndsAt, BeginsAt, HasCopy, HasFresh
-----------------------------------------------------------------------------
(* What the theorems assume: ids tell instances apart, each instance is in *)
(* the log of one group, and a queue action that wrote the mirror succeeds. *)
Discipline ==
    /\ \A i, j \in Instance : IdOf[i] = IdOf[j] => i = j
    /\ \A i \in Instance : \E g \in Group : GroupsOf[i] = {g}
    /\ "after" \notin FailPoints

(* The batches that are still to be applied, those of the queue before     *)
(* those of the log: the next batch of the log will get the number added+1. *)
Of(es, i) == {e \in es : e.inst = i}
Slots(g) == (eventQueue \ applied) \union (added + 1 .. added + Len(log[g]))
EventsAt(g, i, p) == Of(IF p <= added THEN events[p] ELSE log[g][p - added], i)
Places(g, i) == {p \in Slots(g) : EventsAt(g, i, p) # {}}
StepsOf(g, i) == [p \in Nat |-> StepOf(EventsAt(g, i, p))]
ListsIn(copies, i) == {l \in List : <<i, l>> \in copies}
Chained(g, i) ==
    Chain(Places(g, i), StepsOf(g, i), ListsIn(held, i), ListsIn(stale, i), PlaceOf(i))

(* What the server sends to a group.                                       *)
Sent(g, new) ==
    /\ new \in SUBSET Event
    /\ \A x \in Ids(new) : x \in Id /\ Once(OfId(new, x))
    /\ \A e \in new : g \in GroupsOf[e.inst]

MirrorTyped ==
    /\ location \in [Instance -> List \union {Unborn, Gone}]
    /\ log \in [Group -> Seq(SUBSET Event)]
    /\ held \subseteq Instance \X List
    /\ stale \subseteq held
    /\ applied \subseteq {b \in Batch : running[b] > 0}

QueueOK == TypeOK /\ QueueInv /\ EachOnce /\ MapInv
SyncInv ==
    /\ QueueOK
    /\ MirrorTyped
    /\ \A g \in Group : \A n \in 1..Len(log[g]) : Sent(g, log[g][n])
    /\ \A i \in Instance : \A g \in GroupsOf[i] : Chained(g, i)
-----------------------------------------------------------------------------
(* One modification of an instance is one step.                            *)
LEMMA StepShape ==
    ASSUME NEW es \in SUBSET Event, Once(es)
    PROVE  /\ StepOf(es) \in Steps
           /\ \/ \E e \in es :
                    /\ es = {e}
                    /\ StepOf(es) = [kind |-> e.op, from |-> IF e.op = "CREATE" THEN Gone ELSE e.list,
                                     to |-> IF e.op = "DELETE" THEN Gone ELSE e.list]
              \/ \E c, d \in es :
                    /\ es = {c, d} /\ c.op = "CREATE" /\ d.op = "DELETE"
                    /\ c.inst = d.inst /\ c.inst \in Movable
                    /\ StepOf(es) = [kind |-> "MOVE", from |-> d.list, to |-> c.list]
<1>0. Gone \notin List
  BY SyncAssumption
<1>1. ASSUME NEW e \in es, es = {e}
      PROVE  /\ StepOf(es) = [kind |-> e.op, from |-> IF e.op = "CREATE" THEN Gone ELSE e.list,
                              to |-> IF e.op = "DELETE" THEN Gone ELSE e.list]
             /\ StepOf(es) \in Steps
  <2>1. e.op \in Op /\ e.list \in List /\ (CHOOSE f \in es : TRUE) = e
    BY <1>1 DEF Event
  <2>2. ~IsMove(es)
    BY <1>1 DEF IsMove, OfOp
  <2>3. Modification(es) = e.op
    BY <2>1, <2>2 DEF Modification
  <2>4. e.op # "CREATE" => OfOp(es, "CREATE") # es /\ ListOf(es \ OfOp(es, "CREATE")) = e.list
    <3>1. e.op # "CREATE" => OfOp(es, "CREATE") = {}
      BY <1>1 DEF OfOp
    <3>2. ListOf(es) = e.list /\ es \ {} = es /\ es # {}
      BY <2>1 DEF ListOf
    <3> QED  BY <3>1, <3>2
  <2>5. e.op # "DELETE" => OfOp(es, "DELETE") # es /\ ListOf(es \ OfOp(es, "DELETE")) = e.list
    <3>1. e.op # "DELETE" => OfOp(es, "DELETE") = {}
      BY <1>1 DEF OfOp
    <3>2. ListOf(es) = e.list /\ es \ {} = es /\ es # {}
      BY <2>1 DEF ListOf
    <3> QED  BY <3>1, <3>2
  <2>6. OfOp(es, e.op) = es
    BY <1>1 DEF OfOp
  <2>7. StepOf(es) = [kind |-> e.op, from |-> IF e.op = "CREATE" THEN Gone ELSE e.list,
                      to |-> IF e.op = "DELETE" THEN Gone ELSE e.list]
    BY <2>3, <2>4, <2>5, <2>6 DEF StepOf
  <2> QED  BY <1>0, <2>1, <2>7 DEF Steps, Place, Op
<1>2. ASSUME NEW c \in es, NEW d \in es, es = {c, d}, c.op = "CREATE", d.op = "DELETE",
             c.inst = d.inst, c.inst \in Movable
      PROVE  StepOf(es) = [kind |-> "MOVE", from |-> d.list, to |-> c.list] /\ StepOf(es) \in Steps
  <2>1. c.list \in List /\ d.list \in List /\ c # d
    BY <1>2 DEF Event
  <2>2. OfOp(es, "CREATE") = {c} /\ OfOp(es, "DELETE") = {d}
    BY <1>2 DEF OfOp
  <2>3. IsMove(es)
    BY <1>2, <2>2 DEF IsMove
  <2>4. es \ {c} = {d} /\ es \ {d} = {c} /\ es # {c} /\ es # {d}
    BY <1>2, <2>1
  <2>5. ListOf({c}) = c.list /\ ListOf({d}) = d.list
    BY DEF ListOf
  <2>6. StepOf(es) = [kind |-> "MOVE", from |-> d.list, to |-> c.list]
    BY <2>2, <2>3, <2>4, <2>5 DEF StepOf, Modification
  <2> QED  BY <1>0, <2>1, <2>6 DEF Steps, Place
<1> QED  BY <1>1, <1>2 DEF Once

(* Events of an instance are those of its id, since ids are not shared.    *)
LEMMA OfIsOfId ==
    ASSUME Discipline, NEW es \in SUBSET Event, NEW i \in Instance
    PROVE  Of(es, i) = OfId(es, IdOf[i])
<1>1. \A e \in es : e.inst \in Instance
  BY DEF Event
<1> QED  BY <1>1 DEF Discipline, Of, OfId

(* The slots are batches of the queue up to `added` and of the log beyond. *)
LEMMA SlotsTyped ==
    ASSUME SyncInv, NEW g \in Group
    PROVE  /\ added \in Nat /\ Len(log[g]) \in Nat /\ log[g] \in Seq(SUBSET Event)
           /\ Slots(g) \in SUBSET Nat
           /\ \A p \in Slots(g) : p <= added + Len(log[g])
           /\ \A p \in Slots(g) : p <= added => p \in eventQueue /\ p \in Batch /\ p \notin applied
           /\ \A p \in Slots(g) : p > added => p - added \in 1..Len(log[g])
<1>1. added \in Nat /\ eventQueue \subseteq 1..added /\ eventQueue \subseteq Batch
  BY ConstantsAssumption DEF SyncInv, QueueOK, TypeOK, QueueInv
<1>2. log[g] \in Seq(SUBSET Event) /\ Len(log[g]) \in Nat
  BY DEF SyncInv, MirrorTyped
<1>3. PICK n : n = Len(log[g])
  OBVIOUS
<1>4. \A p \in Slots(g) : \/ p \in eventQueue /\ p \notin applied /\ p \in 1..added
                          \/ p \in added + 1 .. added + n
  BY <1>1, <1>3 DEF Slots
<1> QED  BY <1>1, <1>2, <1>3, <1>4

(* In the queue and in the log there is one modification of an instance.   *)
LEMMA EventsAtPlace ==
    ASSUME SyncInv, Discipline, NEW i \in Instance, NEW g \in Group, NEW p \in Slots(g)
    PROVE  /\ EventsAt(g, i, p) \in SUBSET Event
           /\ EventsAt(g, i, p) = OfId(IF p <= added THEN events[p] ELSE log[g][p - added], IdOf[i])
           /\ \A e \in EventsAt(g, i, p) : e.inst = i
           /\ EventsAt(g, i, p) # {} => Once(EventsAt(g, i, p))
<1>1. IdOf[i] \in Id
  BY ConstantsAssumption
<1>2. CASE p <= added
  <2>1. p \in Batch /\ events[p] \in SUBSET Event
    BY <1>2, SlotsTyped DEF SyncInv, QueueOK, TypeOK
  <2>2. EventsAt(g, i, p) = Of(events[p], i)
    BY <1>2 DEF EventsAt
  <2>3. EventsAt(g, i, p) = OfId(events[p], IdOf[i])
    BY <2>1, <2>2, OfIsOfId
  <2>4. OfId(events[p], IdOf[i]) = {} \/ Once(OfId(events[p], IdOf[i]))
    BY <1>1, <2>1 DEF SyncInv, QueueOK, EachOnce
  <2>5. EventsAt(g, i, p) \in SUBSET Event /\ \A e \in EventsAt(g, i, p) : e.inst = i
    BY <2>1, <2>2 DEF Of
  <2> QED  BY <1>2, <2>3, <2>4, <2>5
<1>3. CASE ~(p <= added)
  <2>1. PICK new : new = log[g][p - added]
    OBVIOUS
  <2>2. p - added \in 1..Len(log[g])
    BY <1>3, SlotsTyped
  <2>3. Sent(g, new)
    BY <2>1, <2>2 DEF SyncInv
  <2>4. EventsAt(g, i, p) = Of(new, i)
    BY <1>3, <2>1 DEF EventsAt
  <2>5. EventsAt(g, i, p) = OfId(new, IdOf[i])
    BY <2>3, <2>4, OfIsOfId DEF Sent
  <2>6. OfId(new, IdOf[i]) # {} => Once(OfId(new, IdOf[i]))
    <3>1. OfId(new, IdOf[i]) # {} => IdOf[i] \in Ids(new)
      BY DEF OfId, Ids
    <3> QED  BY <2>3, <3>1 DEF Sent
  <2>7. EventsAt(g, i, p) \in SUBSET Event /\ \A e \in EventsAt(g, i, p) : e.inst = i
    BY <2>3, <2>4 DEF Of, Sent
  <2> QED  BY <1>3, <2>1, <2>5, <2>6, <2>7
<1> QED  BY <1>2, <1>3

(* The places of an instance carry steps.                                  *)
LEMMA PlacesTyped ==
    ASSUME SyncInv, Discipline, NEW i \in Instance, NEW g \in Group
    PROVE  /\ Places(g, i) \in SUBSET Nat
           /\ Placed(Places(g, i), StepsOf(g, i), added + Len(log[g]))
<1>1. Places(g, i) \in SUBSET Slots(g) /\ Slots(g) \in SUBSET Nat
  BY SlotsTyped DEF Places
<1>2. ASSUME NEW p \in Places(g, i) PROVE StepsOf(g, i)[p] \in Steps
  <2>1. p \in Slots(g) /\ p \in Nat /\ EventsAt(g, i, p) # {}
    BY <1>1 DEF Places
  <2>2. StepOf(EventsAt(g, i, p)) \in Steps
    BY <2>1, EventsAtPlace, StepShape
  <2> QED  BY <2>1, <2>2 DEF StepsOf
<1>3. \A p \in Places(g, i) : p <= added + Len(log[g])
  BY <1>1, SlotsTyped
<1> QED  BY <1>1, <1>2, <1>3 DEF Placed
-----------------------------------------------------------------------------
(* The next batch of the log gets the number added + 1.                    *)
LEMMA HeadSlot ==
    ASSUME SyncInv, Discipline, NEW i \in Instance, NEW g \in Group, log[g] # << >>,
           NEW new, new = Head(log[g])
    PROVE  /\ Sent(g, new) /\ new \in SUBSET Event
           /\ added + 1 \in Slots(g) /\ added + 1 \in Nat
           /\ EventsAt(g, i, added + 1) = OfId(new, IdOf[i])
           /\ \A p \in Slots(g) : p <= added \/ p = added + 1 \/ added + 1 < p
<1>1. added \in Nat /\ log[g] \in Seq(SUBSET Event) /\ Len(log[g]) \in Nat /\ Slots(g) \in SUBSET Nat
  BY SlotsTyped
<1>2. 1 \in 1..Len(log[g]) /\ new = log[g][1]
  BY <1>1
<1>3. Sent(g, new) /\ new \in SUBSET Event
  BY <1>2 DEF SyncInv, Sent
<1>4. added + 1 \in Slots(g)
  <2>1. PICK n : n = Len(log[g])
    OBVIOUS
  <2>2. added + 1 \in added + 1 .. added + n
    BY <1>1, <1>2, <2>1
  <2> QED  BY <2>1, <2>2 DEF Slots
<1>5. EventsAt(g, i, added + 1) = Of(new, i)
  <2>1. PICK p \in Nat : p = added + 1
    BY <1>1
  <2>2. ~(p <= added) /\ p - added = 1
    BY <1>1, <2>1
  <2>3. EventsAt(g, i, p) = Of(log[g][1], i)
    BY <2>2 DEF EventsAt
  <2> QED  BY <1>2, <2>1, <2>3
<1>6. Of(new, i) = OfId(new, IdOf[i])
  BY <1>3, OfIsOfId
<1>7. \A p \in Nat : p <= added \/ p = added + 1 \/ added + 1 < p
  BY <1>1
<1> QED  BY <1>1, <1>3, <1>4, <1>5, <1>6, <1>7

(* The last operation, if it may be merged with, is the step before it.    *)
LEMMA LastInChain ==
    ASSUME SyncInv, Discipline, NEW i \in Instance, NEW g \in Group, g \in GroupsOf[i],
           log[g] # << >>, NEW new, new = Head(log[g]), NEW x, x = IdOf[i],
           x \in Ids(new), Merges(g, x), NEW last, last = lastOperation[x]
    PROVE  /\ last \in Places(g, i) /\ last \in Nat /\ last <= added /\ last \in Waiting
           /\ added + 1 \in Places(g, i) /\ added + 1 \in Nat
           /\ Next2(Places(g, i), last, added + 1)
           /\ EventsAt(g, i, last) = LastEvents(x)
           /\ EventsAt(g, i, added + 1) = OfId(new, x)
           /\ Follows(StepsOf(g, i)[last], StepsOf(g, i)[added + 1])
<1>1. x \in Id
  BY ConstantsAssumption
<1>2. /\ last \in eventQueue /\ last # processing /\ x \in Ids(events[last])
      /\ \A c \in eventQueue : x \in Ids(events[c]) => c <= last
  BY <1>1 DEF Merges, SyncInv, QueueOK, MapInv
<1>3. last \notin applied
  BY <1>2 DEF SyncInv, QueueOK, MirrorTyped, QueueInv
<1>4. added \in Nat /\ last \in Nat /\ last <= added
  <2>1. eventQueue \subseteq 1..added
    BY DEF SyncInv, QueueOK, QueueInv
  <2> QED  BY <1>2, <2>1, SlotsTyped
<1>5. last \in Slots(g)
  BY <1>2, <1>3 DEF Slots
<1>6. EventsAt(g, i, last) = OfId(events[last], x)
  BY <1>4, <1>5, EventsAtPlace
<1>7. last \in Places(g, i) /\ EventsAt(g, i, last) = LastEvents(x)
  BY <1>2, <1>5, <1>6, IdsAreNotEmpty DEF Places, LastEvents
<1>8. added + 1 \in Places(g, i) /\ EventsAt(g, i, added + 1) = OfId(new, x)
  BY HeadSlot, IdsAreNotEmpty DEF Places
<1>9. Next2(Places(g, i), last, added + 1)
  <2> SUFFICES ASSUME NEW k \in Places(g, i) PROVE k <= last \/ added + 1 <= k
    BY <1>4 DEF Next2
  <2>1. k \in Slots(g) /\ k \in Nat /\ EventsAt(g, i, k) # {}
    BY SlotsTyped DEF Places
  <2>2. CASE k <= added
    <3>1. k \in eventQueue
      BY <2>1, <2>2, SlotsTyped
    <3>2. EventsAt(g, i, k) = OfId(events[k], x)
      BY <2>1, <2>2, EventsAtPlace
    <3> QED  BY <1>2, <2>1, <3>1, <3>2, IdsAreNotEmpty
  <2> QED  BY <1>4, <2>1, <2>2
<1>10. Follows(StepsOf(g, i)[last], StepsOf(g, i)[added + 1])
  BY <1>7, <1>8, <1>9 DEF SyncInv, Chained, Chain, Linked
<1> QED  BY <1>2, <1>4, <1>7, <1>8, <1>9, <1>10, HeadSlot DEF Waiting

(* The steps of the last operation and of the new one, by their events.    *)
LEMMA LastSteps ==
    ASSUME SyncInv, Discipline, NEW i \in Instance, NEW g \in Group, g \in GroupsOf[i],
           log[g] # << >>, NEW new, new = Head(log[g]), NEW x, x = IdOf[i],
           x \in Ids(new), Merges(g, x), NEW last, last = lastOperation[x],
           NEW s, s = StepsOf(g, i)[last], NEW t, t = StepsOf(g, i)[added + 1]
    PROVE  /\ s \in Steps /\ t \in Steps /\ Follows(s, t)
           /\ s = StepOf(LastEvents(x)) /\ s.kind = LastModification(x)
           /\ t = StepOf(OfId(new, x)) /\ t.kind = NewModification(new, x)
<1>1. /\ last \in Places(g, i) /\ last \in Nat /\ added + 1 \in Places(g, i) /\ added + 1 \in Nat
      /\ EventsAt(g, i, last) = LastEvents(x) /\ EventsAt(g, i, added + 1) = OfId(new, x)
      /\ Follows(s, t)
  BY LastInChain
<1>2. s = StepOf(LastEvents(x)) /\ t = StepOf(OfId(new, x))
  BY <1>1 DEF StepsOf
<1>3. s \in Steps /\ t \in Steps
  BY <1>1, PlacesTyped DEF Placed
<1> QED  BY <1>1, <1>2, <1>3 DEF StepOf, LastModification, NewModification

(* No batch of the log leads to a ProgrammingError.                        *)
LEMMA NoThrow ==
    ASSUME SyncInv, Discipline, NEW g \in Group, log[g] # << >>, NEW x \in Ids(Head(log[g]))
    PROVE  ~Throws(g, Head(log[g]), x)
<1> SUFFICES ASSUME Throws(g, Head(log[g]), x) PROVE FALSE
  OBVIOUS
<1>1. PICK new : new = Head(log[g])
  OBVIOUS
<1>2. PICK e \in new : IdOf[e.inst] = x
  BY <1>1 DEF Ids
<1>3. PICK i : i = e.inst
  OBVIOUS
<1>4. 1 \in 1..Len(log[g]) /\ new = log[g][1]
  BY <1>1, SlotsTyped
<1>5. Sent(g, new)
  BY <1>4 DEF SyncInv
<1>6. i \in Instance /\ g \in GroupsOf[i]
  BY <1>3, <1>5 DEF Sent, Event
<1>7. Merges(g, x)
  BY DEF Throws
<1>8. PICK s : s = StepsOf(g, i)[lastOperation[x]]
  OBVIOUS
<1>9. PICK t : t = StepsOf(g, i)[added + 1]
  OBVIOUS
<1>10. /\ s \in Steps /\ t \in Steps /\ Follows(s, t)
       /\ s.kind = LastModification(x) /\ t.kind = NewModification(new, x)
  BY <1>1, <1>2, <1>3, <1>6, <1>7, <1>8, <1>9, LastSteps
<1>11. LastEvents(x) # {}
  <2>1. x \in Id /\ lastOperation[x] # NoBatch
    BY <1>2, <1>3, <1>6, <1>7, ConstantsAssumption DEF Merges
  <2> QED  BY <2>1, IdsAreNotEmpty DEF SyncInv, QueueOK, MapInv, LastEvents
<1>12. CASE LastModification(x) = "DELETE" /\ NewModification(new, x) \in {"UPDATE", "MOVE"}
  BY <1>10, <1>12 DEF Steps, Follows
<1>13. CASE LastModification(x) \in {"UPDATE", "MOVE"} /\ NewModification(new, x) = "CREATE"
  BY <1>10, <1>13 DEF Steps, Follows
<1> QED  BY <1>1, <1>11, <1>12, <1>13 DEF Throws
-----------------------------------------------------------------------------
(* The events of instance i at place p once the next batch was added, and  *)
(* the places that still have events.                                      *)
Merged(g, i, p) ==
    LET new == Head(log[g])
    IN  IF p <= added THEN OfId(MergedEvents(g, new, Ids(new), p), IdOf[i])
        ELSE IF p = added + 1 THEN OfId(NewEvents(g, new), IdOf[i])
        ELSE EventsAt(g, i, p)
MergedPlaces(g, i) == {p \in Slots(g) : Merged(g, i, p) # {}}
MergedSteps(g, i) == [p \in Nat |-> StepOf(Merged(g, i, p))]
ChainedAfter(g, i) ==
    Chain(MergedPlaces(g, i), MergedSteps(g, i), ListsIn(held, i), ListsIn(stale, i), PlaceOf(i))

(* What of an instance stays in the new batch.                             *)
LEMMA NewOfId ==
    ASSUME NEW g, NEW new, NEW x
    PROVE  OfId(NewEvents(g, new), x) = Appended(g, new, x)
<1>1. \A y : \A e \in Appended(g, new, y) : IdOf[e.inst] = y
  BY DEF Appended, OfId
<1>2. Appended(g, new, x) # {} => x \in Ids(new)
  BY DEF Appended, OfId, Ids
<1> QED  BY <1>1, <1>2 DEF NewEvents, OfId

(* What is at a place once the next batch was added: the place changes     *)
(* only if the instance is merged.                                         *)
LEMMA MergedAt ==
    ASSUME SyncInv, Discipline, NEW i \in Instance, NEW g \in Group, g \in GroupsOf[i],
           log[g] # << >>, NEW new, new = Head(log[g]), NEW x, x = IdOf[i],
           NEW p \in Slots(g)
    PROVE  /\ x \notin Ids(new) \/ ~Merges(g, x) => Merged(g, i, p) = EventsAt(g, i, p)
           /\ x \in Ids(new) /\ Merges(g, x) =>
                 Merged(g, i, p) = IF p <= added THEN Rewritten(new, x, p)
                                   ELSE IF p = added + 1 THEN {e \in OfId(new, x) : KeepsNew(new, x, e)}
                                   ELSE EventsAt(g, i, p)
<1>1. /\ EventsAt(g, i, added + 1) = OfId(new, x)
      /\ p <= added => EventsAt(g, i, p) = OfId(events[p], x)
  BY HeadSlot, EventsAtPlace
<1>2. CASE p <= added
  <2>1. Merged(g, i, p) = OfId(MergedEvents(g, new, Ids(new), p), x)
    BY <1>2 DEF Merged
  <2> QED  BY <1>1, <1>2, <2>1, MergedOfId
<1>3. CASE ~(p <= added) /\ p = added + 1
  <2>1. Merged(g, i, p) = Appended(g, new, x)
    BY <1>3, NewOfId DEF Merged
  <2>2. Merges(g, x) => Appended(g, new, x) = {e \in OfId(new, x) : KeepsNew(new, x, e)}
    BY DEF Appended
  <2>3. ~Merges(g, x) => Appended(g, new, x) = OfId(new, x)
    BY DEF Appended
  <2>4. x \notin Ids(new) => OfId(new, x) = {} /\ Appended(g, new, x) = {}
    BY DEF Appended, OfId, Ids
  <2> QED  BY <1>1, <1>3, <2>1, <2>2, <2>3, <2>4
<1>4. CASE ~(p <= added) /\ p # added + 1
  BY <1>4 DEF Merged
<1> QED  BY <1>2, <1>3, <1>4

(* If the instance is not merged, then its chain stays as it is.           *)
LEMMA UnmergedChain ==
    ASSUME SyncInv, Discipline, NEW i \in Instance, NEW g \in Group, g \in GroupsOf[i],
           \A p \in Slots(g) : Merged(g, i, p) = EventsAt(g, i, p)
    PROVE  ChainedAfter(g, i)
<1>1. MergedPlaces(g, i) = Places(g, i)
  BY DEF MergedPlaces, Places
<1>2. Slots(g) \in SUBSET Nat /\ Places(g, i) \in SUBSET Slots(g) /\ Places(g, i) \in SUBSET Nat
  BY SlotsTyped DEF Places
<1>3. \A p \in Places(g, i) : MergedSteps(g, i)[p] = StepsOf(g, i)[p]
  BY <1>2 DEF MergedSteps, StepsOf
<1>4. Chained(g, i)
  BY DEF SyncInv
<1> QED  BY <1>1, <1>2, <1>3, <1>4, ChainSame DEF Chained, ChainedAfter

(* The new events are merged into the last operation: u stands for s and t. *)
StandsFor(u, s, t) ==
    /\ u.from = s.from /\ u.to = t.to
    /\ s.kind = "DELETE" => u.kind = "DELETE"
    /\ u.kind = "UPDATE" => s.kind = "UPDATE" /\ t.kind = "UPDATE"
    /\ u.kind = "MOVE" => s.kind = "MOVE" /\ t.kind = "MOVE"

(* Two steps that are folded into one, in the batch of the last operation  *)
(* or in the new one.                                                      *)
LEMMA MergedIntoLast ==
    ASSUME SyncInv, Discipline, NEW i \in Instance, NEW g \in Group, g \in GroupsOf[i],
           log[g] # << >>, NEW new, new = Head(log[g]), NEW x, x = IdOf[i],
           x \in Ids(new), Merges(g, x), NEW last, last = lastOperation[x],
           \A p \in Slots(g) : p # last /\ p # added + 1 => Merged(g, i, p) = EventsAt(g, i, p),
           Merged(g, i, added + 1) = {}, Merged(g, i, last) # {},
           StandsFor(StepOf(Merged(g, i, last)), StepOf(LastEvents(x)), StepOf(OfId(new, x)))
    PROVE  ChainedAfter(g, i)
<1>1. PICK P : P = Places(g, i)
  OBVIOUS
<1>2. PICK F : F = StepsOf(g, i)
  OBVIOUS
<1>3. PICK Q : Q = MergedPlaces(g, i)
  OBVIOUS
<1>4. PICK G : G = MergedSteps(g, i)
  OBVIOUS
<1>5. PICK b : b = added + 1
  OBVIOUS
<1>6. /\ last \in P /\ last \in Nat /\ last <= added /\ b \in P /\ b \in Nat /\ last < b
      /\ \A k \in P : k <= last \/ b <= k
      /\ EventsAt(g, i, last) = LastEvents(x) /\ EventsAt(g, i, b) = OfId(new, x)
  BY <1>1, <1>5, LastInChain DEF Next2
<1>7. P \in SUBSET Nat /\ P \in SUBSET Slots(g) /\ Slots(g) \in SUBSET Nat
      /\ \A p \in Slots(g) : p \in P <=> EventsAt(g, i, p) # {}
  BY <1>1, SlotsTyped DEF Places
<1>8. \A k \in P : last <= k /\ k <= b => k = last \/ k = b
  BY <1>6, <1>7
<1>9. Between(P, last, b) = {last, b}
  <2>1. last <= last /\ last <= b /\ b <= b
    BY <1>6
  <2> QED  BY <1>6, <1>8, <2>1 DEF Between
<1>10. Q = (P \ Between(P, last, b)) \union {last}
  <2>1. \A p \in Slots(g) : p \in Q <=> Merged(g, i, p) # {}
    BY <1>3 DEF MergedPlaces
  <2>2. Q \subseteq Slots(g)
    BY <1>3 DEF MergedPlaces
  <2>3. \A p \in Slots(g) : p \in Q <=> p = last \/ (p # b /\ p \in P)
    BY <1>5, <1>6, <1>7, <2>1
  <2> QED  BY <1>6, <1>7, <1>9, <2>2, <2>3
<1>11. /\ F[last] = StepOf(LastEvents(x)) /\ F[b] = StepOf(OfId(new, x))
       /\ G[last] = StepOf(Merged(g, i, last))
  BY <1>2, <1>4, <1>6 DEF StepsOf, MergedSteps
<1>12. \A q \in Q \ {last} : G[q] = F[q]
  <2>1. \A q \in Q \ {last} : q \in Nat /\ q \in Slots(g) /\ q # last /\ q # b
    BY <1>7, <1>9, <1>10
  <2> QED  BY <1>2, <1>4, <1>5, <2>1 DEF StepsOf, MergedSteps
<1>13. MergesInto(P, F, last, b, G[last])
  BY <1>9, <1>11 DEF MergesInto, StandsFor
<1>14. Chain(P, F, ListsIn(held, i), ListsIn(stale, i), PlaceOf(i))
  BY <1>1, <1>2 DEF SyncInv, Chained
<1>15. last <= b
  BY <1>6
<1>16. Chain(Q, G, ListsIn(held, i), ListsIn(stale, i), PlaceOf(i))
  BY <1>6, <1>7, <1>10, <1>12, <1>13, <1>14, <1>15, ChainMergesFirst
<1> QED  BY <1>3, <1>4, <1>16 DEF ChainedAfter

(* A CREATE or an UPDATE.                                                  *)
LEMMA MergedCreateUpdate ==
    ASSUME SyncInv, Discipline, NEW i \in Instance, NEW g \in Group, g \in GroupsOf[i],
           log[g] # << >>, NEW new, new = Head(log[g]), NEW x, x = IdOf[i],
           x \in Ids(new), Merges(g, x), NewModification(new, x) \in {"CREATE", "UPDATE"}
    PROVE  ChainedAfter(g, i)
<1>1. PICK last : last = lastOperation[x]
  OBVIOUS
<1>2. PICK s : s = StepsOf(g, i)[last]
  OBVIOUS
<1>3. PICK t : t = StepsOf(g, i)[added + 1]
  OBVIOUS
<1>4. /\ s \in Steps /\ t \in Steps /\ Follows(s, t)
      /\ s = StepOf(LastEvents(x)) /\ s.kind = LastModification(x)
      /\ t = StepOf(OfId(new, x)) /\ t.kind = NewModification(new, x)
  BY <1>1, <1>2, <1>3, LastSteps
<1>5. /\ last \in Places(g, i) /\ last \in Nat /\ last <= added /\ last \in Slots(g)
      /\ EventsAt(g, i, last) = LastEvents(x) /\ EventsAt(g, i, added + 1) = OfId(new, x)
      /\ added + 1 \in Slots(g) /\ added \in Nat
  <2>1. /\ last \in Places(g, i) /\ last \in Nat /\ last <= added
        /\ EventsAt(g, i, last) = LastEvents(x) /\ EventsAt(g, i, added + 1) = OfId(new, x)
        /\ added + 1 \in Places(g, i)
    BY <1>1, LastInChain
  <2> QED  BY <2>1, SlotsTyped DEF Places
<1>6. \A p \in Slots(g) : p # added + 1 => Merged(g, i, p) = EventsAt(g, i, p)
  <2> SUFFICES ASSUME NEW p \in Slots(g), p # added + 1
               PROVE  Merged(g, i, p) = EventsAt(g, i, p)
    OBVIOUS
  <2>1. CASE p <= added
    <3>1. Rewritten(new, x, p) = OfId(events[p], x)
      BY DEF Rewritten
    <3> QED  BY <2>1, <3>1, MergedAt, EventsAtPlace
  <2> QED  BY <2>1, MergedAt
<1>7. Merged(g, i, added + 1) = {e \in OfId(new, x) : KeepsNew(new, x, e)}
  <2>1. ~(added + 1 <= added)
    BY <1>5
  <2> QED  BY <1>5, <2>1, MergedAt
<1>8. CASE NewModification(new, x) = "CREATE" \/ LastModification(x) = "MOVE"
  <2>1. \A e \in OfId(new, x) : KeepsNew(new, x, e)
    BY <1>8 DEF KeepsNew
  <2>2. Merged(g, i, added + 1) = EventsAt(g, i, added + 1)
    BY <1>5, <1>7, <2>1
  <2> QED  BY <1>6, <2>2, UnmergedChain
<1>9. CASE NewModification(new, x) = "UPDATE" /\ LastModification(x) # "MOVE"
  <2>1. \A e \in OfId(new, x) : ~KeepsNew(new, x, e)
    BY <1>9 DEF KeepsNew
  <2>2. Merged(g, i, added + 1) = {}
    BY <1>7, <2>1
  <2>3. last # added + 1
    BY <1>5
  <2>4. Merged(g, i, last) = LastEvents(x) /\ LastEvents(x) # {}
    BY <1>5, <1>6, <2>3 DEF Places
  <2>5. t.from = s.to /\ t.to = t.from /\ t.kind = "UPDATE" /\ s.kind # "MOVE"
    BY <1>4, <1>9 DEF Steps, Follows
  <2>6. StandsFor(s, s, t)
    BY <2>5 DEF StandsFor
  <2> QED  BY <1>1, <1>4, <1>6, <2>2, <2>4, <2>6, MergedIntoLast
<1> QED  BY <1>8, <1>9

(* The steps of one event and of a creation with a deletion.               *)
LEMMA StepOfOne ==
    ASSUME NEW e \in Event
    PROVE  StepOf({e}) = [kind |-> e.op, from |-> IF e.op = "CREATE" THEN Gone ELSE e.list,
                          to |-> IF e.op = "DELETE" THEN Gone ELSE e.list]
<1>1. PICK es : es = {e}
  OBVIOUS
<1>2. Once(es) /\ es \in SUBSET Event /\ \A f \in es : f = e
  BY <1>1 DEF Once
<1>3. ASSUME NEW c \in es, NEW d \in es, c.op = "CREATE", d.op = "DELETE" PROVE FALSE
  BY <1>2, <1>3
<1> QED  BY <1>1, <1>2, <1>3, StepShape

LEMMA StepOfMove ==
    ASSUME NEW c \in Event, NEW d \in Event, c.op = "CREATE", d.op = "DELETE",
           c.inst = d.inst, c.inst \in Movable
    PROVE  StepOf({c, d}) = [kind |-> "MOVE", from |-> d.list, to |-> c.list]
<1>1. PICK es : es = {c, d}
  OBVIOUS
<1>2. Once(es) /\ es \in SUBSET Event /\ c \in es /\ d \in es /\ c # d
  BY <1>1 DEF Once
<1>3. ASSUME NEW e \in es, es = {e} PROVE FALSE
  BY <1>2, <1>3
<1>4. PICK f \in es, h \in es : /\ f.op = "CREATE" /\ h.op = "DELETE"
                                /\ StepOf(es) = [kind |-> "MOVE", from |-> h.list, to |-> f.list]
  BY <1>2, <1>3, StepShape
<1>5. f = c /\ h = d
  BY <1>1, <1>4
<1> QED  BY <1>1, <1>4, <1>5

(* A MOVE: it is folded into a CREATE or a MOVE, and an UPDATE before it   *)
(* becomes the DELETE of a move to a later place.                          *)
LEMMA MergedMove ==
    ASSUME SyncInv, Discipline, NEW i \in Instance, NEW g \in Group, g \in GroupsOf[i],
           log[g] # << >>, NEW new, new = Head(log[g]), NEW x, x = IdOf[i],
           x \in Ids(new), Merges(g, x), NewModification(new, x) = "MOVE"
    PROVE  ChainedAfter(g, i)
<1>1. PICK last : last = lastOperation[x]
  OBVIOUS
<1>2. PICK s : s = StepsOf(g, i)[last]
  OBVIOUS
<1>3. PICK t : t = StepsOf(g, i)[added + 1]
  OBVIOUS
<1>4. /\ s \in Steps /\ t \in Steps /\ Follows(s, t)
      /\ s = StepOf(LastEvents(x)) /\ s.kind = LastModification(x)
      /\ t = StepOf(OfId(new, x)) /\ t.kind = NewModification(new, x)
  BY <1>1, <1>2, <1>3, LastSteps
<1>5. /\ last \in Places(g, i) /\ last \in Nat /\ last <= added
      /\ added + 1 \in Places(g, i) /\ Next2(Places(g, i), last, added + 1)
      /\ EventsAt(g, i, last) = LastEvents(x) /\ EventsAt(g, i, added + 1) = OfId(new, x)
  BY <1>1, LastInChain
<1>6. /\ last \in Slots(g) /\ added + 1 \in Slots(g) /\ added \in Nat
      /\ LastEvents(x) # {} /\ OfId(new, x) # {} /\ ~(added + 1 <= added) /\ last # added + 1
  BY <1>5, SlotsTyped DEF Places
<1>7. \A p \in Slots(g) : p # last /\ p # added + 1 => Merged(g, i, p) = EventsAt(g, i, p)
  <2> SUFFICES ASSUME NEW p \in Slots(g), p # last, p # added + 1
               PROVE  Merged(g, i, p) = EventsAt(g, i, p)
    OBVIOUS
  <2>1. CASE p <= added
    <3>1. Rewritten(new, x, p) = OfId(events[p], x)
      BY <1>1 DEF Rewritten
    <3> QED  BY <2>1, <3>1, MergedAt, EventsAtPlace
  <2> QED  BY <2>1, MergedAt
<1>8. Merged(g, i, added + 1) = {e \in OfId(new, x) : KeepsNew(new, x, e)}
  BY <1>6, MergedAt
<1>9. Merged(g, i, last) = AfterMove(new, x)
  <2>1. Rewritten(new, x, last) = AfterMove(new, x)
    BY <1>1 DEF Rewritten
  <2> QED  BY <1>5, <1>6, <2>1, MergedAt
<1>10. /\ OfId(new, x) \in SUBSET Event /\ Once(OfId(new, x))
       /\ LastEvents(x) \in SUBSET Event /\ Once(LastEvents(x))
       /\ \A e \in OfId(new, x) \union LastEvents(x) : e.inst = i
  BY <1>5, <1>6, EventsAtPlace
<1>11. PICK c \in OfId(new, x), d \in OfId(new, x) :
           /\ OfId(new, x) = {c, d} /\ c.op = "CREATE" /\ d.op = "DELETE"
           /\ c.inst = d.inst /\ c.inst \in Movable
  BY <1>10, MoveHasTwoEvents DEF NewModification
<1>12. c \in Event /\ d \in Event /\ c # d
       /\ OfOp(OfId(new, x), "CREATE") = {c} /\ OfOp(OfId(new, x), "DELETE") = {d}
  BY <1>10, <1>11 DEF OfOp
<1>13. t = [kind |-> "MOVE", from |-> d.list, to |-> c.list]
  BY <1>4, <1>11, <1>12, StepOfMove
<1>14. StepOf({c}) = [kind |-> "CREATE", from |-> Gone, to |-> c.list]
       /\ StepOf({d}) = [kind |-> "DELETE", from |-> d.list, to |-> Gone]
  BY <1>11, <1>12, StepOfOne
<1>15. d.list # Gone /\ c.list # Gone
  BY <1>12, SyncAssumption DEF Event
<1>16. s.kind \in {"CREATE", "UPDATE", "MOVE"} /\ t.from = s.to
  BY <1>4, <1>13, <1>15 DEF Steps, Follows, Op
<1>17. LastModification(x) # "UPDATE" => Merged(g, i, added + 1) = {}
  <2>1. LastModification(x) # "UPDATE" => \A e \in OfId(new, x) : ~KeepsNew(new, x, e)
    BY DEF KeepsNew
  <2> QED  BY <1>8, <2>1
<1>18. CASE s.kind = "CREATE"
  <2>1. Merged(g, i, last) = {c}
    BY <1>4, <1>9, <1>12, <1>18 DEF AfterMove
  <2>2. s.from = Gone
    BY <1>4, <1>18 DEF Steps
  <2>3. PICK u : u = StepOf(Merged(g, i, last))
    OBVIOUS
  <2>4. u.kind = "CREATE" /\ u.from = s.from /\ u.to = t.to
    BY <1>13, <1>14, <2>1, <2>2, <2>3
  <2>5. Merged(g, i, added + 1) = {}
    BY <1>4, <1>17, <1>18
  <2>6. Merged(g, i, last) # {}
    BY <2>1
  <2>7. StandsFor(u, s, t)
    BY <1>18, <2>4 DEF StandsFor
  <2> QED  BY <1>1, <1>4, <1>7, <2>3, <2>5, <2>6, <2>7, MergedIntoLast
<1>19. CASE s.kind = "MOVE"
  <2>1. PICK e \in LastEvents(x), f \in LastEvents(x) :
           /\ LastEvents(x) = {e, f} /\ e.op = "CREATE" /\ f.op = "DELETE"
           /\ e.inst = f.inst /\ e.inst \in Movable
    BY <1>4, <1>10, <1>19, MoveHasTwoEvents DEF LastModification
  <2>2. OfOp(LastEvents(x), "DELETE") = {f} /\ f \in Event /\ e \in Event
    BY <1>10, <2>1 DEF OfOp
  <2>3. Merged(g, i, last) = {c, f}
    <3>1. AfterMove(new, x) = OfOp(OfId(new, x), "CREATE") \union OfOp(LastEvents(x), "DELETE")
      BY <1>4, <1>19 DEF AfterMove
    <3> QED  BY <1>9, <1>12, <2>2, <3>1
  <2>4. c.inst = f.inst
    BY <1>10
  <2>5. s = [kind |-> "MOVE", from |-> f.list, to |-> e.list]
    BY <1>4, <2>1, <2>2, StepOfMove
  <2>6. PICK u : u = StepOf(Merged(g, i, last))
    OBVIOUS
  <2>7. u = [kind |-> "MOVE", from |-> f.list, to |-> c.list]
    BY <1>11, <1>12, <2>1, <2>2, <2>3, <2>4, <2>6, StepOfMove
  <2>8. u.kind = "MOVE" /\ u.from = s.from /\ u.to = t.to /\ t.kind = "MOVE" /\ s.kind = "MOVE"
    BY <1>13, <2>5, <2>7
  <2>9. Merged(g, i, added + 1) = {}
    BY <1>4, <1>17, <1>19
  <2>10. Merged(g, i, last) # {}
    BY <2>3
  <2>11. StandsFor(u, s, t)
    BY <2>8 DEF StandsFor
  <2> QED  BY <1>1, <1>4, <1>7, <2>6, <2>9, <2>10, <2>11, MergedIntoLast
<1>20. CASE s.kind = "UPDATE"
  <2>1. Merged(g, i, last) = {d}
    BY <1>4, <1>9, <1>12, <1>20 DEF AfterMove
  <2>2. Merged(g, i, added + 1) = {c}
    <3>1. \A e \in OfId(new, x) : KeepsNew(new, x, e) <=> e.op = "CREATE"
      BY <1>4, <1>20 DEF KeepsNew
    <3> QED  BY <1>8, <1>11, <3>1
  <2>3. PICK P : P = Places(g, i)
    OBVIOUS
  <2>4. PICK F : F = StepsOf(g, i)
    OBVIOUS
  <2>5. PICK G : G = MergedSteps(g, i)
    OBVIOUS
  <2>6. PICK b : b = added + 1
    OBVIOUS
  <2>7. P \in SUBSET Nat /\ P \in SUBSET Slots(g)
        /\ \A p \in Slots(g) : p \in P <=> EventsAt(g, i, p) # {}
    BY <2>3, SlotsTyped DEF Places
  <2>8. MergedPlaces(g, i) = P
    <3>1. \A p \in Slots(g) : p \in P <=> Merged(g, i, p) # {}
      BY <1>5, <1>6, <1>7, <2>1, <2>2, <2>7
    <3> QED  BY <2>7, <3>1 DEF MergedPlaces
  <2>9. Chain(P, F, ListsIn(held, i), ListsIn(stale, i), PlaceOf(i))
    BY <2>3, <2>4 DEF SyncInv, Chained
  <2>10. \A p \in P : p # last /\ p # b => G[p] = F[p]
    BY <1>7, <2>4, <2>5, <2>6, <2>7 DEF StepsOf, MergedSteps
  <2>11. last \in P /\ b \in P /\ Next2(P, last, b) /\ b \in Nat
    BY <1>5, <2>3, <2>6, <2>7
  <2>12. F[last] = s /\ F[b] = t
    BY <1>2, <1>3, <2>4, <2>6
  <2>13. G[last] = StepOf({d}) /\ G[b] = StepOf({c})
    BY <1>5, <2>1, <2>2, <2>5, <2>6, <2>11 DEF MergedSteps
  <2>14. /\ G[last].kind = "DELETE" /\ G[last].from = d.list /\ G[last].to = Gone
         /\ G[b].kind = "CREATE" /\ G[b].from = Gone /\ G[b].to = c.list
    BY <1>14, <2>13
  <2>15. d.list = s.from
    BY <1>4, <1>13, <1>16, <1>20 DEF Steps
  <2>16. F[last].kind # "DELETE" /\ F[b].kind # "DELETE" /\ F[b].to = c.list /\ F[last].from = d.list
    BY <1>13, <1>20, <2>12, <2>15
  <2>17. Chain(P, G, ListsIn(held, i), ListsIn(stale, i), PlaceOf(i))
    <3>1. PICK M : M = ListsIn(held, i)
      OBVIOUS
    <3>2. PICK S : S = ListsIn(stale, i)
      OBVIOUS
    <3>3. PICK l : l = PlaceOf(i)
      OBVIOUS
    <3>4. Chain(P, F, M, S, l)
      BY <2>9, <3>1, <3>2, <3>3
    <3>5. G[last].from = F[last].from /\ G[b].to = F[b].to
      BY <2>14, <2>16
    <3>6. Chain(P, G, M, S, l)
      BY <2>7, <2>10, <2>11, <2>14, <2>16, <3>4, <3>5, ChainSplits
    <3> QED  BY <3>1, <3>2, <3>3, <3>6
  <2> QED  BY <2>5, <2>8, <2>17 DEF ChainedAfter
<1> QED  BY <1>16, <1>18, <1>19, <1>20

(* What waits comes after the batch that is processed.                     *)
LEMMA WaitingSlots ==
    ASSUME SyncInv, NEW g \in Group, NEW p \in Slots(g), p <= added
    PROVE  /\ p \in Nat /\ p \in eventQueue
           /\ p \in Waiting <=> p # processing
           /\ processing # NoBatch => processing \in Nat /\ processing <= p
<1>1. p \in Nat /\ p \in eventQueue /\ eventQueue \subseteq Batch /\ Batch \subseteq Nat
  BY SlotsTyped, ConstantsAssumption DEF SyncInv, QueueOK, TypeOK, Batch
<1>2. processing # NoBatch => processing \in eventQueue /\ processing <= p
  BY <1>1 DEF SyncInv, QueueOK, QueueInv
<1> QED  BY <1>1, <1>2 DEF Waiting

(* A DELETE without an earlier one that waits: everything that waits is    *)
(* dropped, and the DELETE itself stays.                                   *)
LEMMA NoDeletionWaits ==
    ASSUME SyncInv, Discipline, NEW i \in Instance, NEW g \in Group, g \in GroupsOf[i],
           log[g] # << >>, NEW new, new = Head(log[g]), NEW x, x = IdOf[i],
           x \in Ids(new), Merges(g, x), NewModification(new, x) = "DELETE", Deleting(x) = {}
    PROVE  ChainedAfter(g, i)
<1>1. PICK lo \in Nat : lo = IF processing = NoBatch THEN 0 ELSE processing
  BY ConstantsAssumption DEF SyncInv, QueueOK, TypeOK, Batch
<1>2. PICK b : b = added + 1
  OBVIOUS
<1>3. PICK P : P = Places(g, i)
  OBVIOUS
<1>4. PICK F : F = StepsOf(g, i)
  OBVIOUS
<1>5. PICK G : G = MergedSteps(g, i)
  OBVIOUS
<1>6. /\ P \in SUBSET Nat /\ P \in SUBSET Slots(g)
      /\ \A p \in Slots(g) : p \in Nat /\ (p \in P <=> EventsAt(g, i, p) # {})
  BY <1>3, SlotsTyped DEF Places
<1>7. /\ b \in P /\ b \in Nat /\ EventsAt(g, i, b) = OfId(new, x) /\ added \in Nat /\ added < b
      /\ \A p \in Slots(g) : p <= added \/ p = b \/ b < p
  BY <1>2, <1>3, LastInChain, HeadSlot, SlotsTyped
<1>8. F[b].kind = "DELETE"
  BY <1>2, <1>4, LastSteps
<1>9. lo < b
  <2>1. PICK last \in Slots(g) : last <= added
    <3>1. /\ lastOperation[x] \in Places(g, i) /\ lastOperation[x] <= added
      BY LastInChain
    <3> QED  BY <3>1 DEF Places
  <2>2. lo <= last /\ last \in Nat
    BY <1>1, <2>1, WaitingSlots
  <2> QED  BY <1>7, <2>1, <2>2
<1>10. ASSUME NEW p \in Slots(g), p <= added
       PROVE  /\ p <= lo => Merged(g, i, p) = EventsAt(g, i, p)
              /\ lo < p => p \in Waiting /\ Merged(g, i, p) = {}
  <2>1. Merged(g, i, p) = AfterDelete(x, p)
    <3>1. Rewritten(new, x, p) = AfterDelete(x, p)
      BY DEF Rewritten
    <3> QED  BY <1>10, <3>1, MergedAt
  <2>2. EventsAt(g, i, p) = OfId(events[p], x)
    BY <1>10, EventsAtPlace
  <2>3. /\ p \in Nat /\ p \in eventQueue /\ (p \in Waiting <=> p # processing)
        /\ processing # NoBatch => processing \in Nat /\ processing <= p
    BY <1>10, WaitingSlots
  <2>4. p \in Waiting => AfterDelete(x, p) = {}
    BY DEF AfterDelete
  <2>5. p \notin Waiting => AfterDelete(x, p) = OfId(events[p], x)
    BY DEF AfterDelete, IsFirstDeleting
  <2>6. p # 0
    <3>1. p \in 1..MaxBatches
      BY <2>3 DEF SyncInv, QueueOK, TypeOK, Batch
    <3> QED  BY <3>1, ConstantsAssumption
  <2>7. p <= lo => p \notin Waiting
    <3>1. CASE processing = NoBatch
      BY <1>1, <2>3, <2>6, <3>1
    <3>2. CASE processing # NoBatch
      BY <1>1, <2>3, <3>2
    <3> QED  BY <3>1, <3>2
  <2>8. lo < p => p \in Waiting
    <3>1. CASE processing = NoBatch
      <4>1. p # processing
        BY <2>3, <3>1, ConstantsAssumption
      <4> QED  BY <2>3, <4>1
    <3>2. CASE processing # NoBatch
      BY <1>1, <2>3, <3>2
    <3> QED  BY <3>1, <3>2
  <2> QED  BY <2>1, <2>2, <2>4, <2>5, <2>7, <2>8
<1>11. Merged(g, i, b) = EventsAt(g, i, b)
  <2>1. Merged(g, i, b) = {e \in OfId(new, x) : KeepsNew(new, x, e)}
    <3>1. ~(b <= added) /\ b \in Slots(g)
      <4>1. b \in Slots(g)
        BY <1>6, <1>7
      <4> QED  BY <1>7, <4>1
    <3> QED  BY <1>2, <3>1, MergedAt
  <2>2. \A e \in OfId(new, x) : KeepsNew(new, x, e)
    BY DEF KeepsNew
  <2> QED  BY <1>7, <2>1, <2>2
<1>12. \A p \in Slots(g) : b < p => Merged(g, i, p) = EventsAt(g, i, p)
  <2> SUFFICES ASSUME NEW p \in Slots(g), b < p PROVE Merged(g, i, p) = EventsAt(g, i, p)
    OBVIOUS
  <2>0. p \in Nat
    BY <1>6
  <2>1. ~(p <= added) /\ p # b
    BY <1>7, <2>0
  <2> QED  BY <1>2, <2>1 DEF Merged
<1>13. PICK Q : Q = {k \in P : k <= lo \/ b <= k}
  OBVIOUS
<1>14. \A p \in Slots(g) : Merged(g, i, p) = IF p <= lo \/ b <= p THEN EventsAt(g, i, p) ELSE {}
  <2> SUFFICES ASSUME NEW p \in Slots(g)
               PROVE  Merged(g, i, p) = IF p <= lo \/ b <= p THEN EventsAt(g, i, p) ELSE {}
    OBVIOUS
  <2>0. p \in Nat
    BY <1>6
  <2>1. CASE p <= added
    <3>1. ~(b <= p) /\ (p <= lo \/ lo < p)
      BY <1>7, <2>0, <2>1
    <3> QED  BY <1>10, <2>1, <3>1
  <2>2. CASE p = b
    <3>1. b <= p
      BY <1>7, <2>2
    <3> QED  BY <1>11, <2>2, <3>1
  <2>3. CASE b < p
    <3>1. b <= p
      BY <1>7, <2>0, <2>3
    <3> QED  BY <1>12, <2>3, <3>1
  <2> QED  BY <1>7, <2>1, <2>2, <2>3
<1>15. MergedPlaces(g, i) = Q
  BY <1>6, <1>13, <1>14 DEF MergedPlaces
<1>16. \A k \in P : lo < k /\ k < b => F[k].kind \in {"CREATE", "UPDATE"}
  <2> SUFFICES ASSUME NEW k \in P, lo < k, k < b PROVE F[k].kind \in {"CREATE", "UPDATE"}
    OBVIOUS
  <2>1. k \in Slots(g) /\ k \in Nat /\ k <= added
    BY <1>6, <1>7
  <2>2. k \in Waiting
    BY <1>10, <2>1
  <2>3. PICK es : es = EventsAt(g, i, k)
    OBVIOUS
  <2>4. es \in SUBSET Event /\ Once(es) /\ es = OfId(events[k], x)
    BY <1>6, <2>1, <2>3, EventsAtPlace
  <2>5. \A e \in es : e.op # "DELETE"
    BY <2>2, <2>4 DEF Deleting, OfOp
  <2>6. PICK e \in es : StepOf(es).kind = e.op
    BY <2>4, <2>5, StepShape
  <2>7. F[k] = StepOf(es)
    BY <1>4, <2>1, <2>3 DEF StepsOf
  <2> QED  BY <2>4, <2>5, <2>6, <2>7 DEF Event, Op
<1>17. PICK M \in SUBSET List : M = ListsIn(held, i)
  BY DEF ListsIn
<1>18. PICK S : S = ListsIn(stale, i)
  OBVIOUS
<1>19. PICK l : l = PlaceOf(i)
  OBVIOUS
<1>20. Chain(P, F, M, S, l)
  BY <1>3, <1>4, <1>17, <1>18, <1>19 DEF SyncInv, Chained
<1>21. PICK n \in Nat : Placed(P, F, n)
  BY <1>3, <1>4, PlacesTyped, SlotsTyped
<1>22. Chain(Q, F, M, S, l)
  BY <1>1, <1>6, <1>7, <1>8, <1>9, <1>13, <1>16, <1>20, <1>21, ChainMergesLast
<1>23. Q \in SUBSET Nat /\ \A q \in Q : G[q] = F[q]
  BY <1>4, <1>5, <1>6, <1>13, <1>14 DEF StepsOf, MergedSteps
<1>24. Chain(Q, G, M, S, l)
  BY <1>22, <1>23, ChainSame
<1> QED  BY <1>5, <1>15, <1>17, <1>18, <1>19, <1>24 DEF ChainedAfter

(* A DELETE after another one that waits: that one stays, and what follows *)
(* it is dropped, the new one as well.                                     *)
LEMMA DeletionWaits ==
    ASSUME SyncInv, Discipline, NEW i \in Instance, NEW g \in Group, g \in GroupsOf[i],
           log[g] # << >>, NEW new, new = Head(log[g]), NEW x, x = IdOf[i],
           x \in Ids(new), Merges(g, x), NewModification(new, x) = "DELETE", Deleting(x) # {}
    PROVE  ChainedAfter(g, i)
<1>1. PICK f \in Deleting(x) : \A c \in Deleting(x) : f <= c
  <2>1. Deleting(x) \in SUBSET Nat
    <3>1. eventQueue \subseteq Nat
      BY ConstantsAssumption DEF SyncInv, QueueOK, TypeOK, Batch
    <3> QED  BY <3>1 DEF Deleting, Waiting
  <2> QED  BY <2>1, LeastExists
<1>2. PICK b : b = added + 1
  OBVIOUS
<1>3. PICK P : P = Places(g, i)
  OBVIOUS
<1>4. PICK F : F = StepsOf(g, i)
  OBVIOUS
<1>5. PICK G : G = MergedSteps(g, i)
  OBVIOUS
<1>6. /\ P \in SUBSET Nat /\ P \in SUBSET Slots(g)
      /\ \A p \in Slots(g) : p \in Nat /\ (p \in P <=> EventsAt(g, i, p) # {})
  BY <1>3, SlotsTyped DEF Places
<1>7. /\ b \in P /\ b \in Nat /\ EventsAt(g, i, b) = OfId(new, x) /\ added \in Nat /\ added < b
      /\ \A p \in Slots(g) : p <= added \/ p = b \/ b < p
  BY <1>2, <1>3, LastInChain, HeadSlot, SlotsTyped
<1>8. F[b].kind = "DELETE" /\ F[b] \in Steps
  BY <1>2, <1>4, LastSteps
<1>9. f \in Waiting /\ f \in eventQueue /\ f # processing /\ OfOp(OfId(events[f], x), "DELETE") # {}
  BY <1>1 DEF Deleting, Waiting
<1>10. f \in Slots(g) /\ f \in Nat /\ f <= added /\ f < b
  <2>1. f \notin applied
    <3>1. f \in Batch
      BY <1>9 DEF SyncInv, QueueOK, TypeOK
    <3> QED  BY <1>9, <3>1 DEF SyncInv, QueueOK, MirrorTyped, QueueInv
  <2>2. f \in Slots(g)
    BY <1>9, <2>1 DEF Slots
  <2>3. f \in 1..added
    BY <1>9 DEF SyncInv, QueueOK, QueueInv
  <2> QED  BY <1>6, <1>7, <2>2, <2>3
<1>11. EventsAt(g, i, f) = OfId(events[f], x)
  BY <1>10, EventsAtPlace
<1>12. ASSUME NEW p \in Slots(g), p <= added
       PROVE  /\ p < f => Merged(g, i, p) = EventsAt(g, i, p)
              /\ f < p => Merged(g, i, p) = {}
              /\ p = f => Merged(g, i, p) = {e \in OfId(events[f], x) : e.op # "CREATE"}
  <2>1. Merged(g, i, p) = AfterDelete(x, p)
    <3>1. Rewritten(new, x, p) = AfterDelete(x, p)
      BY DEF Rewritten
    <3> QED  BY <1>12, <3>1, MergedAt
  <2>2. EventsAt(g, i, p) = OfId(events[p], x)
    BY <1>12, EventsAtPlace
  <2>3. /\ p \in Nat /\ p \in eventQueue /\ (p \in Waiting <=> p # processing)
        /\ processing # NoBatch => processing \in Nat /\ processing <= p
    BY <1>12, WaitingSlots
  <2>4. p < f => AfterDelete(x, p) = OfId(events[p], x)
    <3>1. p < f => ~IsFirstDeleting(p, x)
      BY <1>1, <1>10, <2>3 DEF IsFirstDeleting
    <3>2. \A c \in Deleting(x) : c \in Nat
      BY ConstantsAssumption DEF Deleting, Waiting, SyncInv, QueueOK, TypeOK, Batch
    <3>3. p < f => \A c \in Deleting(x) : p <= c
      BY <1>1, <1>10, <2>3, <3>2
    <3> QED  BY <3>1, <3>3 DEF AfterDelete
  <2>5. f < p => AfterDelete(x, p) = {}
    <3>1. f < p => p # processing
      <4>1. processing # NoBatch => processing <= f
        BY <1>9 DEF SyncInv, QueueOK, QueueInv
      <4>2. p # NoBatch
        BY <2>3, ConstantsAssumption
      <4> QED  BY <1>10, <2>3, <4>1, <4>2
    <3>2. f < p => ~(p <= f)
      BY <1>10, <2>3
    <3> QED  BY <1>1, <2>3, <3>1, <3>2 DEF AfterDelete
  <2>6. AfterDelete(x, f) = {e \in OfId(events[f], x) : e.op # "CREATE"}
    BY <1>1 DEF AfterDelete, IsFirstDeleting
  <2> QED  BY <2>1, <2>2, <2>4, <2>5, <2>6
<1>13. Merged(g, i, b) = {}
  <2>1. ~(b <= added) /\ b \in Slots(g)
    <3>1. b \in Slots(g)
      BY <1>6, <1>7
    <3> QED  BY <1>7, <3>1
  <2>2. Merged(g, i, b) = {e \in OfId(new, x) : KeepsNew(new, x, e)}
    <3>1. b = added + 1 /\ added + 1 \in Slots(g) /\ ~(added + 1 <= added)
      BY <1>2, <2>1
    <3>2. Merged(g, i, added + 1) = {e \in OfId(new, x) : KeepsNew(new, x, e)}
      BY <3>1, MergedAt
    <3> QED  BY <3>1, <3>2
  <2>3. \A e \in OfId(new, x) : ~KeepsNew(new, x, e)
    BY DEF KeepsNew
  <2> QED  BY <2>2, <2>3
<1>14. ASSUME NEW p \in Slots(g)
       PROVE  /\ p < f \/ b < p => Merged(g, i, p) = EventsAt(g, i, p)
              /\ f < p /\ p <= b => Merged(g, i, p) = {}
  <2>1. p \in Nat
    BY <1>6
  <2>2. CASE p <= added
    <3>1. ~(b < p)
      BY <1>7, <2>1, <2>2
    <3> QED  BY <1>12, <2>2, <3>1
  <2>3. CASE p = b
    <3>1. ~(p < f) /\ ~(b < p)
      BY <1>7, <1>10, <2>3
    <3> QED  BY <1>13, <2>3, <3>1
  <2>4. CASE b < p
    <3>1. ~(p <= added) /\ p # b /\ ~(p <= b)
      BY <1>7, <2>1, <2>4
    <3> QED  BY <1>2, <3>1 DEF Merged
  <2> QED  BY <1>7, <2>2, <2>3, <2>4
<1>15. /\ EventsAt(g, i, f) \in SUBSET Event /\ Once(EventsAt(g, i, f))
       /\ Merged(g, i, f) = {e \in EventsAt(g, i, f) : e.op # "CREATE"}
  <2>1. EventsAt(g, i, f) # {}
    BY <1>9, <1>11 DEF OfOp
  <2> QED  BY <1>10, <1>11, <1>12, <2>1, EventsAtPlace
<1>16. /\ Merged(g, i, f) # {} /\ StepOf(Merged(g, i, f)).kind = "DELETE"
       /\ StepOf(Merged(g, i, f)).to = Gone
       /\ StepOf(Merged(g, i, f)).from = StepOf(EventsAt(g, i, f)).from
  <2>1. PICK es : es = EventsAt(g, i, f)
    OBVIOUS
  <2>2. PICK d \in es : d.op = "DELETE"
    BY <1>9, <1>11, <2>1 DEF OfOp
  <2>3. Merged(g, i, f) = {d} /\ StepOf(es).from = d.list
    <3>1. CASE es = {d}
      <4>1. Merged(g, i, f) = {d}
        BY <1>15, <2>1, <2>2, <3>1
      <4>2. d \in Event
        BY <1>15, <2>1
      <4>3. StepOf({d}) = [kind |-> "DELETE", from |-> d.list, to |-> Gone]
        BY <2>2, <4>2, StepOfOne
      <4> QED  BY <3>1, <4>1, <4>3
    <3>2. ASSUME NEW c \in es, NEW h \in es, es = {c, h}, c.op = "CREATE", h.op = "DELETE",
                 StepOf(es) = [kind |-> "MOVE", from |-> h.list, to |-> c.list]
          PROVE  Merged(g, i, f) = {d} /\ StepOf(es).from = d.list
      <4>1. h = d /\ es = {c, d}
        BY <2>2, <3>2
      <4>2. Merged(g, i, f) = {d}
        BY <1>15, <2>1, <2>2, <3>2, <4>1
      <4> QED  BY <3>2, <4>1, <4>2
    <3> QED  BY <1>15, <2>1, <2>2, <3>1, <3>2, StepShape
  <2>4. d \in Event
    BY <1>15, <2>1
  <2>5. StepOf({d}) = [kind |-> "DELETE", from |-> d.list, to |-> Gone]
    BY <2>2, <2>4, StepOfOne
  <2> QED  BY <2>1, <2>3, <2>5
<1>17. f \in P /\ F[f] = StepOf(EventsAt(g, i, f)) /\ G[f] = StepOf(Merged(g, i, f))
  BY <1>4, <1>5, <1>6, <1>9, <1>10, <1>11 DEF StepsOf, MergedSteps, OfOp
<1>18. PICK Q : Q = (P \ Between(P, f, b)) \union {f}
  OBVIOUS
<1>19. \A p \in Slots(g) : p \in Q <=> p = f \/ (p \in P /\ (p < f \/ b < p))
  <2>1. \A p \in P : p \in Between(P, f, b) <=> ~(p < f \/ b < p)
    BY <1>6, <1>7, <1>10 DEF Between
  <2> QED  BY <1>18, <2>1 DEF Between
<1>20. \A p \in Slots(g) : Merged(g, i, p) # {} <=> p = f \/ (p \in P /\ (p < f \/ b < p))
  <2> SUFFICES ASSUME NEW p \in Slots(g)
               PROVE  Merged(g, i, p) # {} <=> p = f \/ (p \in P /\ (p < f \/ b < p))
    OBVIOUS
  <2>0. p \in Nat /\ f \in Nat /\ b \in Nat
    BY <1>6, <1>7, <1>10
  <2>1. p < f \/ p = f \/ (f < p /\ p <= b) \/ b < p
    BY <2>0
  <2>2. p \in P <=> EventsAt(g, i, p) # {}
    BY <1>6
  <2>3. f < p /\ p <= b => p # f /\ ~(p < f \/ b < p)
    BY <2>0
  <2> QED  BY <1>14, <1>16, <2>1, <2>2, <2>3
<1>21. MergedPlaces(g, i) = Q
  <2>1. Q \subseteq Slots(g)
    BY <1>6, <1>10, <1>18
  <2> QED  BY <1>19, <1>20, <2>1 DEF MergedPlaces
<1>22. \A q \in Q \ {f} : G[q] = F[q]
  <2> SUFFICES ASSUME NEW q \in Q, q # f PROVE G[q] = F[q]
    OBVIOUS
  <2>1. q \in Slots(g) /\ q \in Nat
    BY <1>6, <1>10, <1>18
  <2>2. q < f \/ b < q
    BY <1>19, <2>1
  <2>3. Merged(g, i, q) = EventsAt(g, i, q)
    BY <1>14, <2>1, <2>2
  <2> QED  BY <1>4, <1>5, <2>1, <2>3 DEF StepsOf, MergedSteps
<1>23. MergesInto(P, F, f, b, G[f])
  <2>1. F[b].to = Gone
    BY <1>8 DEF Steps
  <2> QED  BY <1>16, <1>17, <2>1 DEF MergesInto
<1>24. Chain(P, F, ListsIn(held, i), ListsIn(stale, i), PlaceOf(i))
  BY <1>3, <1>4 DEF SyncInv, Chained
<1>25. f <= b
  BY <1>7, <1>10
<1>26. Chain(Q, G, ListsIn(held, i), ListsIn(stale, i), PlaceOf(i))
  BY <1>6, <1>7, <1>17, <1>18, <1>22, <1>23, <1>24, <1>25, ChainMergesFirst
<1> QED  BY <1>5, <1>21, <1>26 DEF ChainedAfter

(* However the next batch is merged, its chain still leads from the mirror *)
(* to the server.                                                          *)
LEMMA MergedChain ==
    ASSUME SyncInv, Discipline, NEW i \in Instance, NEW g \in Group, g \in GroupsOf[i],
           log[g] # << >>
    PROVE  ChainedAfter(g, i)
<1>1. PICK new : new = Head(log[g])
  OBVIOUS
<1>2. PICK x : x = IdOf[i]
  OBVIOUS
<1>3. CASE x \notin Ids(new) \/ ~Merges(g, x)
  BY <1>1, <1>2, <1>3, MergedAt, UnmergedChain
<1>4. CASE x \in Ids(new) /\ Merges(g, x)
  <2>1. NewModification(new, x) \in Op \union {"MOVE"}
    <3>1. PICK t : t = StepsOf(g, i)[added + 1]
      OBVIOUS
    <3>2. t \in Steps /\ t.kind = NewModification(new, x)
      BY <1>1, <1>2, <1>4, <3>1, LastSteps
    <3> QED  BY <3>2 DEF Steps
  <2>2. CASE NewModification(new, x) \in {"CREATE", "UPDATE"}
    BY <1>1, <1>2, <1>4, <2>2, MergedCreateUpdate
  <2>3. CASE NewModification(new, x) = "MOVE"
    BY <1>1, <1>2, <1>4, <2>3, MergedMove
  <2>4. CASE NewModification(new, x) = "DELETE"
    BY <1>1, <1>2, <1>4, <2>4, NoDeletionWaits, DeletionWaits
  <2> QED  BY <2>1, <2>2, <2>3, <2>4 DEF Op
<1> QED  BY <1>3, <1>4
-----------------------------------------------------------------------------
(* What add() does to the next batch of the log of group g.                *)
LEMMA DeliverAdds ==
    ASSUME SyncInv, Discipline, NEW g \in Group, Deliver(g), NEW new, new = Head(log[g])
    PROVE  /\ Add(g, new) /\ Sent(g, new) /\ log[g] # << >>
           /\ log' = [log EXCEPT ![g] = Tail(@)]
           /\ UNCHANGED <<location, held, stale, applied>>
           /\ added \in Nat /\ added' = added + 1 /\ added + 1 \in Batch
           /\ added + 1 \notin eventQueue /\ added + 1 \notin applied
           /\ events'[added + 1] = NewEvents(g, new)
           /\ \A p \in eventQueue : p <= added /\ events'[p] = MergedEvents(g, new, Ids(new), p)
           /\ eventQueue' = {p \in eventQueue \union {added + 1} : events'[p] # {}}
<1>1. Add(g, new) /\ log[g] # << >>
  <2>1. \A x \in Ids(new) : ~Throws(g, new, x)
    BY NoThrow DEF Deliver
  <2> QED  BY <2>1 DEF Deliver, AddThrows
<1>2. Sent(g, new)
  <2>1. 1 \in 1..Len(log[g]) /\ new = log[g][1]
    BY <1>1, SlotsTyped
  <2> QED  BY <2>1 DEF SyncInv
<1>3. log' = [log EXCEPT ![g] = Tail(@)] /\ UNCHANGED <<location, held, stale, applied>>
  BY DEF Deliver, serverVars, mirrorVars
<1>4. added \in Nat /\ added' = added + 1 /\ added + 1 \in Batch
  BY <1>1, ConstantsAssumption DEF Add, SyncInv, QueueOK, TypeOK, Batch
<1>5. eventQueue \subseteq 1..added /\ eventQueue \subseteq Batch
  BY DEF SyncInv, QueueOK, QueueInv, TypeOK
<1>6. added + 1 \notin eventQueue /\ \A p \in eventQueue : p <= added /\ p # added + 1
  BY <1>4, <1>5
<1>7. added + 1 \notin applied
  <2>1. \A p \in applied : p \in eventQueue
    BY ConstantsAssumption DEF SyncInv, QueueOK, MirrorTyped, QueueInv, Batch
  <2> QED  BY <1>6, <2>1
<1>8. PICK after : after = [c \in Batch |-> MergedEvents(g, new, Ids(new), c)]
  OBVIOUS
<1>9. PICK kept : kept = NewEvents(g, new)
  OBVIOUS
<1>10. /\ eventQueue' = IF kept = {} THEN {c \in eventQueue : after[c] # {}}
                        ELSE {c \in eventQueue : after[c] # {}} \union {added + 1}
       /\ events' = [after EXCEPT ![added + 1] = kept]
  BY <1>1, <1>8, <1>9 DEF Add
<1>11. events'[added + 1] = kept /\ \A p \in eventQueue : events'[p] = after[p]
  BY <1>4, <1>5, <1>6, <1>8, <1>10
<1>12. eventQueue' = {p \in eventQueue \union {added + 1} : events'[p] # {}}
  BY <1>6, <1>10, <1>11
<1>13. \A p \in eventQueue : p <= added /\ events'[p] = MergedEvents(g, new, Ids(new), p)
  BY <1>5, <1>6, <1>8, <1>11
<1> QED  BY <1>1, <1>2, <1>3, <1>4, <1>6, <1>7, <1>9, <1>11, <1>12, <1>13

(* The invariants of the queue hold for what the server sends.             *)
LEMMA DeliverKeepsQueue ==
    ASSUME SyncInv, Discipline, NEW g \in Group, Deliver(g)
    PROVE  QueueOK'
<1>1. PICK new : new = Head(log[g])
  OBVIOUS
<1>2. Add(g, new) /\ Sent(g, new)
  BY <1>1, DeliverAdds
<1>3. new \in SUBSET Event /\ \A x \in Ids(new) : x \in Id /\ Once(OfId(new, x))
  BY <1>2 DEF Sent
<1>4. TypeOK /\ QueueInv /\ EachOnce /\ MapInv
  BY DEF SyncInv, QueueOK
<1>5. TypeOK'
  BY <1>2, <1>3, <1>4, AddTyped
<1>6. QueueInv'
  BY <1>2, <1>4, AddKeepsInv
<1>7. EachOnce'
  BY <1>2, <1>3, <1>4, AddKeepsOnce DEF Discipline
<1>8. MapInv'
  BY <1>2, <1>3, <1>4, AddKeepsMap
<1> QED  BY <1>5, <1>6, <1>7, <1>8 DEF QueueOK

(* The log only loses its head.                                            *)
LEMMA DeliverKeepsTypes ==
    ASSUME SyncInv, Discipline, NEW g \in Group, Deliver(g)
    PROVE  /\ MirrorTyped'
           /\ \A h \in Group : \A n \in 1..Len(log'[h]) : Sent(h, log'[h][n])
<1>1. PICK new : new = Head(log[g])
  OBVIOUS
<1>2. /\ Add(g, new) /\ log[g] # << >> /\ log' = [log EXCEPT ![g] = Tail(@)]
      /\ UNCHANGED <<location, held, stale, applied>>
  BY <1>1, DeliverAdds
<1>3. MirrorTyped /\ TypeOK
  BY DEF SyncInv, QueueOK
<1>4. log \in [Group -> Seq(SUBSET Event)]
  BY <1>3 DEF MirrorTyped
<1>5. Tail(log[g]) \in Seq(SUBSET Event)
  BY <1>2, <1>4
<1>6. log' \in [Group -> Seq(SUBSET Event)]
  BY <1>2, <1>4, <1>5
<1>7. \A b \in Batch : running[b] > 0 => running'[b] > 0
  <2>1. PICK q : StartNext(q, paused, processing, running)
    BY <1>2 DEF Add
  <2>2. running \in [Batch -> Nat]
    BY <1>3 DEF TypeOK
  <2>3. CASE running' = running
    BY <2>3
  <2>4. ASSUME NEW b \in q, running' = [running EXCEPT ![b] = @ + 1]
        PROVE  \A c \in Batch : running[c] > 0 => running'[c] > 0
    BY <2>2, <2>4
  <2> QED  BY <2>1, <2>3, <2>4 DEF StartNext
<1>8. MirrorTyped'
  BY <1>2, <1>3, <1>6, <1>7 DEF MirrorTyped
<1>9. ASSUME NEW h \in Group, NEW n \in 1..Len(log'[h]) PROVE Sent(h, log'[h][n])
  <2>1. CASE h # g
    BY <1>2, <1>4, <1>9, <2>1 DEF SyncInv
  <2>2. CASE h = g
    <3>1. log'[h] = Tail(log[h])
      BY <1>2, <1>4, <2>2
    <3>2. PICK s \in Seq(SUBSET Event) : s = log[h]
      BY <1>4
    <3>3. s # << >> /\ n \in 1..Len(Tail(s))
      BY <1>2, <1>9, <2>2, <3>1, <3>2
    <3>4. n + 1 \in 1..Len(s) /\ Tail(s)[n] = s[n + 1]
      BY <3>2, <3>3
    <3> QED  BY <3>1, <3>2, <3>4 DEF SyncInv
  <2> QED  BY <2>1, <2>2
<1> QED  BY <1>8, <1>9

(* The chain of the group is the merged one.                               *)
LEMMA DeliverKeepsOwn ==
    ASSUME SyncInv, Discipline, NEW g \in Group, Deliver(g),
           NEW i \in Instance, g \in GroupsOf[i]
    PROVE  Chained(g, i)'
<1>1. PICK new : new = Head(log[g])
  OBVIOUS
<1>2. /\ Sent(g, new) /\ log[g] # << >>
      /\ log' = [log EXCEPT ![g] = Tail(@)]
      /\ location' = location /\ held' = held /\ stale' = stale /\ applied' = applied
      /\ added \in Nat /\ added' = added + 1
      /\ added + 1 \notin eventQueue /\ added + 1 \notin applied
      /\ events'[added + 1] = NewEvents(g, new)
      /\ \A p \in eventQueue : p <= added /\ events'[p] = MergedEvents(g, new, Ids(new), p)
      /\ eventQueue' = {p \in eventQueue \union {added + 1} : events'[p] # {}}
  BY <1>1, DeliverAdds
<1>3. TypeOK' /\ new \in SUBSET Event
  BY <1>2, DeliverKeepsQueue DEF QueueOK, Sent
<1>4. PICK s \in Seq(SUBSET Event) : s = log[g]
  BY SlotsTyped
<1>5. log'[g] = Tail(s) /\ s # << >> /\ Len(s) \in Nat /\ Len(Tail(s)) = Len(s) - 1
  <2>1. log'[g] = Tail(log[g])
    BY <1>2 DEF SyncInv, MirrorTyped
  <2> QED  BY <1>2, <1>4, <2>1
<1>6. Slots(g) \in SUBSET Nat /\ Slots(g)' \in SUBSET Slots(g)
      /\ \A p \in Slots(g) : /\ p \in Nat /\ (p <= added \/ p = added + 1 \/ added + 1 < p)
                             /\ p <= added => p \in eventQueue /\ p \notin applied
                             /\ p \in Slots(g)' <=> (p <= added + 1 => events'[p] # {})
  <2>1. PICK m \in Nat : m = Len(s)
    BY <1>5
  <2>2. Slots(g) = (eventQueue \ applied) \union (added + 1 .. added + m)
    BY <1>4, <2>1 DEF Slots
  <2>3. Slots(g)' = (eventQueue' \ applied) \union (added + 1 + 1 .. added + 1 + (m - 1))
    BY <1>2, <1>5, <2>1 DEF Slots
  <2>4. eventQueue \in SUBSET Nat /\ \A p \in eventQueue : p <= added
    BY <1>2, ConstantsAssumption DEF SyncInv, QueueOK, TypeOK, Batch
  <2>5. m >= 1
    BY <1>4, <1>5, <2>1
  <2>6. \A p : p \in added + 1 .. added + m <=> p = added + 1 \/ p \in added + 1 + 1 .. added + 1 + (m - 1)
    BY <1>2, <2>1, <2>5
  <2>7. \A p \in added + 1 + 1 .. added + 1 + (m - 1) : p \in Nat /\ added + 1 < p
    BY <1>2, <2>1
  <2>8. \A p \in Slots(g) : \/ p \in eventQueue /\ p \notin applied /\ p <= added /\ p \in Nat /\ p <= added + 1
                            \/ p = added + 1 /\ ~(p <= added)
                            \/ /\ p \in added + 1 + 1 .. added + 1 + (m - 1)
                               /\ p \in Nat /\ added + 1 < p /\ ~(p <= added) /\ ~(p <= added + 1)
    <3> SUFFICES ASSUME NEW p \in Slots(g)
                 PROVE  \/ p \in eventQueue /\ p \notin applied /\ p <= added /\ p \in Nat /\ p <= added + 1
                        \/ p = added + 1 /\ ~(p <= added)
                        \/ /\ p \in added + 1 + 1 .. added + 1 + (m - 1)
                           /\ p \in Nat /\ added + 1 < p /\ ~(p <= added) /\ ~(p <= added + 1)
      OBVIOUS
    <3>1. CASE p \in eventQueue \ applied
      <4>1. p \in Nat /\ p <= added
        BY <2>4, <3>1
      <4> QED  BY <1>2, <3>1, <4>1
    <3>2. CASE p = added + 1
      BY <1>2, <3>2
    <3>3. CASE p \in added + 1 + 1 .. added + 1 + (m - 1)
      <4>1. p \in Nat /\ added + 1 < p
        BY <2>7, <3>3
      <4> QED  BY <1>2, <3>3, <4>1
    <3> QED  BY <2>2, <2>6, <3>1, <3>2, <3>3
  <2>9. Slots(g) \in SUBSET Nat
    BY SlotsTyped
  <2>10. Slots(g)' \in SUBSET Slots(g)
    BY <1>2, <2>2, <2>3, <2>6
  <2>11. ASSUME NEW p \in Slots(g)
         PROVE  p \in Slots(g)' <=> (p <= added + 1 => events'[p] # {})
    <3>1. CASE p \in eventQueue /\ p \notin applied /\ p <= added /\ p \in Nat /\ p <= added + 1
      <4>1. p \notin added + 1 + 1 .. added + 1 + (m - 1)
        BY <1>2, <2>7, <3>1
      <4> QED  BY <1>2, <2>3, <3>1, <4>1
    <3>2. CASE p = added + 1
      <4>1. p \notin added + 1 + 1 .. added + 1 + (m - 1) /\ p <= added + 1
        BY <1>2, <2>7, <3>2
      <4> QED  BY <1>2, <2>3, <3>2, <4>1
    <3>3. CASE p \in added + 1 + 1 .. added + 1 + (m - 1) /\ ~(p <= added + 1)
      BY <2>3, <3>3
    <3> QED  BY <2>8, <3>1, <3>2, <3>3
  <2> QED  BY <2>8, <2>9, <2>10, <2>11
<1>7. ASSUME NEW p \in Slots(g)
      PROVE  EventsAt(g, i, p)' = Merged(g, i, p)
  <2>1. CASE p <= added + 1
    <3>1. EventsAt(g, i, p)' = Of(events'[p], i)
      BY <1>2, <2>1 DEF EventsAt
    <3>2. p \in Batch
      <4>1. CASE p <= added
        BY <1>6, <4>1 DEF SyncInv, QueueOK, TypeOK
      <4>2. CASE p = added + 1
        BY <1>1, <4>2, DeliverAdds
      <4> QED  BY <1>2, <1>6, <2>1, <4>1, <4>2
    <3>3. events'[p] \in SUBSET Event
      BY <1>3, <3>2 DEF TypeOK
    <3>4. Of(events'[p], i) = OfId(events'[p], IdOf[i])
      BY <3>3, OfIsOfId
    <3>5. CASE p <= added
      <4>1. events'[p] = MergedEvents(g, new, Ids(new), p)
        BY <1>2, <1>6, <3>5
      <4> QED  BY <1>1, <3>1, <3>4, <3>5, <4>1 DEF Merged
    <3>6. CASE p = added + 1
      <4>1. ~(p <= added)
        BY <1>2, <3>6
      <4> QED  BY <1>1, <1>2, <3>1, <3>4, <3>6, <4>1 DEF Merged
    <3> QED  BY <1>2, <1>6, <2>1, <3>5, <3>6
  <2>2. CASE ~(p <= added + 1)
    <3>1. EventsAt(g, i, p)' = Of(Tail(s)[p - (added + 1)], i)
      BY <1>2, <1>5, <2>2 DEF EventsAt
    <3>2. p \in Nat /\ ~(p <= added) /\ p # added + 1
      BY <1>2, <1>6, <2>2
    <3>3. p - added \in 1..Len(s) /\ p - (added + 1) \in 1..Len(s) - 1
      <4>1. p - added \in 1..Len(s)
        BY <1>2, <1>4, <1>6, <3>2, SlotsTyped
      <4> QED  BY <1>2, <1>5, <2>2, <3>2, <4>1
    <3>4. Tail(s)[p - (added + 1)] = s[p - added]
      <4>1. PICK k \in 1..Len(s) - 1 : k = p - (added + 1) /\ p - added = k + 1
        BY <1>2, <3>2, <3>3
      <4> QED  BY <1>5, <4>1
    <3>5. EventsAt(g, i, p) = Of(s[p - added], i)
      BY <1>4, <3>2 DEF EventsAt
    <3>6. Merged(g, i, p) = EventsAt(g, i, p)
      BY <3>2 DEF Merged
    <3> QED  BY <3>1, <3>4, <3>5, <3>6
  <2> QED  BY <2>1, <2>2
<1>8. PICK Q : Q = Places(g, i)'
  OBVIOUS
<1>9. Q = MergedPlaces(g, i)
  <2>1. Q = {p \in Slots(g)' : EventsAt(g, i, p)' # {}}
    BY <1>8 DEF Places
  <2>2. ASSUME NEW p \in Slots(g), Merged(g, i, p) # {} PROVE p \in Slots(g)'
    <3>1. CASE p <= added + 1
      <4>1. Merged(g, i, p) \subseteq events'[p]
        BY <1>2, <1>7, <3>1 DEF EventsAt, Of
      <4> QED  BY <1>6, <2>2, <4>1
    <3>2. CASE ~(p <= added + 1)
      BY <1>6, <3>2
    <3> QED  BY <3>1, <3>2
  <2> QED  BY <1>6, <1>7, <2>1, <2>2 DEF MergedPlaces
<1>10. PICK G : G = StepsOf(g, i)'
  OBVIOUS
<1>11. Q \in SUBSET Nat /\ \A p \in Q : G[p] = MergedSteps(g, i)[p]
  <2>1. Q \in SUBSET Nat /\ Q \subseteq Slots(g)
    BY <1>6, <1>9 DEF MergedPlaces
  <2>2. \A p \in Nat : G[p] = StepOf(EventsAt(g, i, p)')
    BY <1>10 DEF StepsOf
  <2>3. \A p \in Nat : MergedSteps(g, i)[p] = StepOf(Merged(g, i, p))
    BY DEF MergedSteps
  <2> QED  BY <1>7, <2>1, <2>2, <2>3
<1>12. ChainedAfter(g, i)
  BY <1>2, MergedChain
<1>13. Chain(Q, G, ListsIn(held, i), ListsIn(stale, i), PlaceOf(i))
  BY <1>9, <1>11, <1>12, ChainSame DEF ChainedAfter
<1>14. /\ ListsIn(held', i) = ListsIn(held, i) /\ ListsIn(stale', i) = ListsIn(stale, i)
       /\ PlaceOf(i)' = PlaceOf(i)
  BY <1>2 DEF PlaceOf, Exists
<1> QED  BY <1>8, <1>10, <1>13, <1>14 DEF Chained

(* In the other groups the places in the log move on by one.               *)
LEMMA DeliverKeepsOther ==
    ASSUME SyncInv, Discipline, NEW g \in Group, Deliver(g),
           NEW i \in Instance, NEW h \in Group, h \in GroupsOf[i], h # g
    PROVE  Chained(h, i)'
<1>1. PICK new : new = Head(log[g])
  OBVIOUS
<1>2. /\ Sent(g, new)
      /\ log' = [log EXCEPT ![g] = Tail(@)]
      /\ location' = location /\ held' = held /\ stale' = stale /\ applied' = applied
      /\ added \in Nat /\ added' = added + 1 /\ added + 1 \in Batch
      /\ added + 1 \notin eventQueue
      /\ events'[added + 1] = NewEvents(g, new)
      /\ \A p \in eventQueue : p <= added /\ events'[p] = MergedEvents(g, new, Ids(new), p)
      /\ eventQueue' = {p \in eventQueue \union {added + 1} : events'[p] # {}}
  BY <1>1, DeliverAdds
<1>3. TypeOK' /\ new \in SUBSET Event
  BY <1>2, DeliverKeepsQueue DEF QueueOK, Sent
<1>4. IdOf[i] \notin Ids(new)
  <2>1. g \notin GroupsOf[i]
    BY DEF Discipline
  <2>2. \A e \in new : e.inst \in Instance /\ e.inst # i
    BY <1>2, <1>3, <2>1 DEF Sent, Event
  <2> QED  BY <2>2 DEF Discipline, Ids
<1>5. Of(events'[added + 1], i) = {}
  <2>1. events'[added + 1] \in SUBSET Event
    BY <1>2, <1>3 DEF TypeOK
  <2>2. OfId(events'[added + 1], IdOf[i]) = {}
    <3>1. OfId(NewEvents(g, new), IdOf[i]) = Appended(g, new, IdOf[i])
      BY NewOfId
    <3>2. Appended(g, new, IdOf[i]) = {}
      BY <1>4 DEF Appended, OfId, Ids
    <3> QED  BY <1>2, <3>1, <3>2
  <2> QED  BY <2>1, <2>2, OfIsOfId
<1>6. \A p \in eventQueue : /\ Of(events'[p], i) = Of(events[p], i)
                            /\ Of(events[p], i) # {} => p \in eventQueue'
  <2> SUFFICES ASSUME NEW p \in eventQueue
               PROVE  /\ Of(events'[p], i) = Of(events[p], i)
                      /\ Of(events[p], i) # {} => p \in eventQueue'
    OBVIOUS
  <2>1. p \in Batch
    BY DEF SyncInv, QueueOK, TypeOK
  <2>2. events'[p] \in SUBSET Event /\ events[p] \in SUBSET Event
    BY <1>3, <2>1 DEF SyncInv, QueueOK, TypeOK
  <2>3. OfId(events'[p], IdOf[i]) = OfId(events[p], IdOf[i])
    BY <1>2, <1>4, MergedOfId
  <2>4. Of(events'[p], i) = Of(events[p], i)
    BY <2>2, <2>3, OfIsOfId
  <2>5. Of(events'[p], i) # {} => events'[p] # {}
    BY DEF Of
  <2> QED  BY <1>2, <2>4, <2>5
<1>7. log'[h] = log[h]
  BY <1>2 DEF SyncInv, MirrorTyped
<1>8. PICK n \in Nat : n = Len(log[h])
  BY SlotsTyped
<1>0. added \in Nat /\ n \in Nat
  BY <1>2, <1>8
<1>9. PICK P : P = Places(h, i)
  OBVIOUS
<1>10. PICK Q : Q = Places(h, i)'
  OBVIOUS
<1>11. PICK F : F = StepsOf(h, i)
  OBVIOUS
<1>12. PICK G : G = StepsOf(h, i)'
  OBVIOUS
<1>13. eventQueue \in SUBSET Nat
  BY ConstantsAssumption DEF SyncInv, QueueOK, TypeOK, Batch
<1>14. \A p \in Nat : p \in P <=> \/ p <= added /\ p \in eventQueue \ applied /\ Of(events[p], i) # {}
                                  \/ ~(p <= added) /\ p <= added + n /\ Of(log[h][p - added], i) # {}
  <2> SUFFICES ASSUME NEW p \in Nat
               PROVE  p \in P <=> \/ p <= added /\ p \in eventQueue \ applied /\ Of(events[p], i) # {}
                                  \/ ~(p <= added) /\ p <= added + n /\ Of(log[h][p - added], i) # {}
    OBVIOUS
  <2>1. p \in P <=> p \in Slots(h) /\ EventsAt(h, i, p) # {}
    BY <1>9 DEF Places
  <2>2. p \in Slots(h) <=> p \in eventQueue \ applied \/ p \in added + 1 .. added + n
    BY <1>8 DEF Slots
  <2>3. p \in added + 1 .. added + n <=> ~(p <= added) /\ p <= added + n
    BY <1>2, <1>8
  <2>4. p \in eventQueue => p <= added
    BY <1>2
  <2>5. EventsAt(h, i, p) = IF p <= added THEN Of(events[p], i) ELSE Of(log[h][p - added], i)
    BY DEF EventsAt
  <2> QED  BY <2>1, <2>2, <2>3, <2>4, <2>5
<1>15. \A q \in Nat : q \in Q <=> \/ q <= added /\ q \in eventQueue \ applied /\ Of(events[q], i) # {}
                                  \/ ~(q <= added + 1) /\ q <= added + 1 + n /\ Of(log[h][q - (added + 1)], i) # {}
  <2> SUFFICES ASSUME NEW q \in Nat
               PROVE  q \in Q <=> \/ q <= added /\ q \in eventQueue \ applied /\ Of(events[q], i) # {}
                                  \/ ~(q <= added + 1) /\ q <= added + 1 + n /\ Of(log[h][q - (added + 1)], i) # {}
    OBVIOUS
  <2>1. q \in Q <=> q \in Slots(h)' /\ EventsAt(h, i, q)' # {}
    BY <1>10 DEF Places
  <2>2. q \in Slots(h)' <=> q \in eventQueue' \ applied \/ q \in added + 1 + 1 .. added + 1 + n
    BY <1>2, <1>7, <1>8 DEF Slots
  <2>3. q \in added + 1 + 1 .. added + 1 + n <=> ~(q <= added + 1) /\ q <= added + 1 + n
    BY <1>0
  <2>4. q \in eventQueue' => q <= added + 1 /\ (q = added + 1 \/ q \in eventQueue)
    BY <1>2, <1>13
  <2>5. EventsAt(h, i, q)' = IF q <= added + 1 THEN Of(events'[q], i) ELSE Of(log[h][q - (added + 1)], i)
    BY <1>2, <1>7 DEF EventsAt
  <2>6. q <= added + 1 <=> q <= added \/ q = added + 1
    BY <1>2
  <2>7. q \in eventQueue => q <= added
    BY <1>2
  <2>8. CASE q <= added
    BY <1>6, <2>1, <2>2, <2>3, <2>4, <2>5, <2>6, <2>8, <1>2
  <2>9. CASE q = added + 1
    <3>1. ~(q <= added)
      BY <1>2, <2>9
    <3> QED  BY <1>5, <2>1, <2>5, <2>6, <2>9, <3>1
  <2>10. CASE ~(q <= added + 1)
    BY <2>1, <2>2, <2>3, <2>4, <2>5, <2>6, <2>10
  <2> QED  BY <2>6, <2>8, <2>9, <2>10
<1>16. P \in SUBSET Nat /\ Q \in SUBSET Nat
  <2>1. P \in SUBSET Nat
    BY <1>9, SlotsTyped DEF Places
  <2>2. Slots(h)' \in SUBSET Nat
    <3>1. eventQueue' \in SUBSET Nat
      <4>1. added + 1 \in Nat
        BY <1>0
      <4> QED  BY <1>2, <1>13, <4>1
    <3>2. added + 1 + 1 .. added + 1 + n \in SUBSET Nat
      BY <1>0
    <3> QED  BY <1>2, <1>7, <1>8, <3>1, <3>2 DEF Slots
  <2> QED  BY <1>10, <2>1, <2>2 DEF Places
<1>17. PICK back : back = [q \in Nat |-> IF q <= added THEN q ELSE q - 1]
  OBVIOUS
<1>18. ASSUME NEW q \in Q
       PROVE  /\ back[q] \in P /\ G[q] = F[back[q]]
  <2>0. q \in Nat
    BY <1>16
  <2>1. G[q] = StepOf(EventsAt(h, i, q)')
    BY <1>12, <2>0 DEF StepsOf
  <2>2. \A p \in Nat : F[p] = StepOf(EventsAt(h, i, p))
    BY <1>11 DEF StepsOf
  <2>3. CASE q <= added
    <3>1. back[q] = q /\ q <= added + 1
      BY <1>2, <1>17, <2>0, <2>3
    <3>2. q \in eventQueue \ applied /\ Of(events[q], i) # {}
      BY <1>2, <1>15, <2>0, <2>3
    <3>3. q \in P
      BY <1>14, <2>0, <2>3, <3>2
    <3>4. EventsAt(h, i, q)' = Of(events'[q], i) /\ EventsAt(h, i, q) = Of(events[q], i)
      BY <1>2, <2>3, <3>1 DEF EventsAt
    <3> QED  BY <1>6, <2>0, <2>1, <2>2, <3>1, <3>2, <3>3, <3>4
  <2>4. CASE ~(q <= added)
    <3>1. ~(q <= added + 1) /\ q <= added + 1 + n /\ Of(log[h][q - (added + 1)], i) # {}
      BY <1>15, <2>0, <2>4
    <3>2. PICK p \in Nat : p = q - 1 /\ ~(p <= added) /\ p <= added + n /\ q - (added + 1) = p - added
      BY <1>0, <2>0, <3>1
    <3>3. back[q] = p
      BY <1>17, <2>0, <2>4, <3>2
    <3>4. p \in P
      BY <1>14, <3>1, <3>2
    <3>5. EventsAt(h, i, q)' = Of(log[h][p - added], i) /\ EventsAt(h, i, p) = Of(log[h][p - added], i)
      BY <1>2, <1>7, <3>1, <3>2 DEF EventsAt
    <3> QED  BY <2>1, <2>2, <3>3, <3>4, <3>5
  <2> QED  BY <2>3, <2>4
<1>19. \A q, r \in Q : q < r => back[q] < back[r]
  <2> SUFFICES ASSUME NEW q \in Q, NEW r \in Q, q < r PROVE back[q] < back[r]
    OBVIOUS
  <2>1. q \in Nat /\ r \in Nat
    BY <1>16
  <2>2. r <= added \/ ~(r <= added + 1)
    BY <1>15, <2>1
  <2> QED  BY <1>2, <1>17, <2>1, <2>2
<1>20. ASSUME NEW p \in P PROVE \E q \in Q : back[q] = p
  <2>1. p \in Nat
    BY <1>16
  <2>2. CASE p <= added
    <3>1. p \in Q
      BY <1>2, <1>14, <1>15, <2>1, <2>2
    <3>2. back[p] = p
      BY <1>17, <2>1, <2>2
    <3> QED  BY <3>1, <3>2
  <2>3. CASE ~(p <= added)
    <3>1. PICK q \in Nat : q = p + 1 /\ ~(q <= added + 1) /\ ~(q <= added) /\ q - (added + 1) = p - added /\ q - 1 = p
      BY <1>2, <2>1, <2>3
    <3>2. p <= added + n /\ Of(log[h][p - added], i) # {}
      BY <1>14, <2>1, <2>3
    <3>3. q <= added + 1 + n
      BY <1>0, <2>1, <3>1, <3>2
    <3>4. q \in Q
      BY <1>15, <3>1, <3>2, <3>3
    <3>5. back[q] = p
      BY <1>17, <3>1
    <3> QED  BY <3>4, <3>5
  <2> QED  BY <2>2, <2>3
<1>21. Chain(P, F, ListsIn(held, i), ListsIn(stale, i), PlaceOf(i))
  BY <1>9, <1>11 DEF SyncInv, Chained
<1>22. Chain(Q, G, ListsIn(held, i), ListsIn(stale, i), PlaceOf(i))
  BY <1>16, <1>18, <1>19, <1>20, <1>21, ChainMoves
<1>23. /\ ListsIn(held', i) = ListsIn(held, i) /\ ListsIn(stale', i) = ListsIn(stale, i)
       /\ PlaceOf(i)' = PlaceOf(i)
  BY <1>2 DEF PlaceOf, Exists
<1> QED  BY <1>10, <1>12, <1>22, <1>23 DEF Chained

(* A batch that arrives keeps the invariant.                               *)
LEMMA DeliverStep ==
    ASSUME SyncInv, Discipline, NEW g \in Group, Deliver(g)
    PROVE  SyncInv'
<1>1. ASSUME NEW i \in Instance, NEW h \in GroupsOf[i] PROVE Chained(h, i)'
  <2>1. h \in Group
    BY SyncAssumption
  <2>2. CASE h = g
    BY <2>2, DeliverKeepsOwn
  <2>3. CASE h # g
    BY <2>1, <2>3, DeliverKeepsOther
  <2> QED  BY <2>2, <2>3
<1> QED  BY <1>1, DeliverKeepsQueue, DeliverKeepsTypes DEF SyncInv
-----------------------------------------------------------------------------
(* What the server does to an instance is a step from where it is.         *)
LEMMA ChangeIsStep ==
    ASSUME MirrorTyped, NEW i \in Instance, NEW c \in Changes(i)
    PROVE  /\ c.evs \in SUBSET Event /\ Once(c.evs) /\ \A e \in c.evs : e.inst = i
           /\ c.to \in List \union {Gone}
           /\ StepOf(c.evs) \in Steps
           /\ StepOf(c.evs).from = PlaceOf(i) /\ StepOf(c.evs).to = c.to
           /\ c.bump => StepOf(c.evs).kind = "UPDATE"
<1>0. Gone \notin List /\ Unborn \notin List
  BY SyncAssumption
<1>1. ASSUME NEW op \in Op, NEW l \in List, c.evs = {Modify(op, i, l)}
      PROVE  /\ c.evs \in SUBSET Event /\ Once(c.evs) /\ \A e \in c.evs : e.inst = i
             /\ StepOf(c.evs) \in Steps
             /\ StepOf(c.evs) = [kind |-> op, from |-> IF op = "CREATE" THEN Gone ELSE l,
                                 to |-> IF op = "DELETE" THEN Gone ELSE l]
  <2>1. PICK e : e = Modify(op, i, l)
    OBVIOUS
  <2>4. e \in Event /\ e.op = op /\ e.inst = i /\ e.list = l
    BY <2>1 DEF Modify, Event
  <2>2. c.evs = {e}
    BY <1>1, <2>1
  <2>3. c.evs \in SUBSET Event /\ Once(c.evs) /\ \A f \in c.evs : f.inst = i
    BY <2>2, <2>4 DEF Once
  <2>5. StepOf(c.evs) \in Steps
    BY <2>3, StepShape
  <2>6. StepOf(c.evs) = [kind |-> op, from |-> IF op = "CREATE" THEN Gone ELSE l,
                         to |-> IF op = "DELETE" THEN Gone ELSE l]
    BY <2>2, <2>4, StepOfOne
  <2> QED  BY <2>3, <2>5, <2>6
<1>2. CASE c \in Creations(i)
  <2>1. PICK l \in List : c = [evs |-> {Modify("CREATE", i, l)}, to |-> l, bump |-> FALSE]
    BY <1>2 DEF Creations
  <2>2. ~Exists(i)
    BY <1>0, <1>2 DEF Creations, Exists
  <2>3. c.evs = {Modify("CREATE", i, l)} /\ c.to = l /\ ~c.bump
    BY <2>1
  <2>4. /\ c.evs \in SUBSET Event /\ Once(c.evs) /\ \A e \in c.evs : e.inst = i
        /\ StepOf(c.evs) \in Steps
        /\ StepOf(c.evs) = [kind |-> "CREATE", from |-> Gone, to |-> l]
    BY <1>1, <2>3 DEF Op
  <2> QED  BY <2>2, <2>3, <2>4 DEF PlaceOf
<1>3. CASE c \in Updates(i)
  <2>1. Exists(i) /\ c = [evs |-> {Modify("UPDATE", i, location[i])}, to |-> location[i], bump |-> TRUE]
    BY <1>3 DEF Updates
  <2>2. location[i] \in List
    BY <2>1 DEF Exists
  <2>3. c.evs = {Modify("UPDATE", i, location[i])} /\ c.to = location[i]
    BY <2>1
  <2>4. /\ c.evs \in SUBSET Event /\ Once(c.evs) /\ \A e \in c.evs : e.inst = i
        /\ StepOf(c.evs) \in Steps
        /\ StepOf(c.evs) = [kind |-> "UPDATE", from |-> location[i], to |-> location[i]]
    BY <1>1, <2>2, <2>3 DEF Op
  <2> QED  BY <2>1, <2>2, <2>3, <2>4 DEF PlaceOf
<1>4. CASE c \in Deletions(i)
  <2>1. Exists(i) /\ c = [evs |-> {Modify("DELETE", i, location[i])}, to |-> Gone, bump |-> FALSE]
    BY <1>4 DEF Deletions
  <2>2. location[i] \in List
    BY <2>1 DEF Exists
  <2>3. c.evs = {Modify("DELETE", i, location[i])} /\ c.to = Gone /\ ~c.bump
    BY <2>1
  <2>4. /\ c.evs \in SUBSET Event /\ Once(c.evs) /\ \A e \in c.evs : e.inst = i
        /\ StepOf(c.evs) \in Steps
        /\ StepOf(c.evs) = [kind |-> "DELETE", from |-> location[i], to |-> Gone]
    BY <1>1, <2>2, <2>3 DEF Op
  <2> QED  BY <2>1, <2>3, <2>4 DEF PlaceOf
<1>5. CASE c \in Moves(i)
  <2>1. Exists(i) /\ i \in Movable
    BY <1>5 DEF Moves
  <2>2. PICK l \in List : c = [evs |-> {Modify("DELETE", i, location[i]), Modify("CREATE", i, l)},
                               to |-> l, bump |-> FALSE]
    BY <1>5 DEF Moves
  <2>9. PICK d : d = Modify("DELETE", i, location[i])
    OBVIOUS
  <2>3. d \in Event /\ d.op = "DELETE" /\ d.inst = i /\ d.list = location[i]
    BY <2>1, <2>9 DEF Modify, Event, Op, Exists
  <2>10. PICK e : e = Modify("CREATE", i, l)
    OBVIOUS
  <2>4. e \in Event /\ e.op = "CREATE" /\ e.inst = i /\ e.list = l
    BY <2>10 DEF Modify, Event, Op
  <2>5. c.evs = {e, d} /\ c.to = l /\ ~c.bump
    BY <2>2, <2>9, <2>10
  <2>6. c.evs \in SUBSET Event /\ Once(c.evs) /\ \A f \in c.evs : f.inst = i
    BY <2>1, <2>3, <2>4, <2>5 DEF Once
  <2>7. StepOf(c.evs) = [kind |-> "MOVE", from |-> location[i], to |-> l]
    BY <2>1, <2>3, <2>4, <2>5, StepOfMove
  <2>8. StepOf(c.evs) \in Steps
    BY <2>6, StepShape
  <2> QED  BY <2>1, <2>5, <2>6, <2>7, <2>8 DEF PlaceOf
<1> QED  BY <1>2, <1>3, <1>4, <1>5 DEF Changes

(* The changes of one batch, of different instances.                       *)
Seen(g, S) == {i \in S : g \in GroupsOf[i]}
EventsOf(g, S, m) == UNION {m[i].evs : i \in Seen(g, S)}

(* They make a batch with one modification of each instance, which goes    *)
(* only to groups of the instance.                                         *)
LEMMA BatchOfChanges ==
    ASSUME MirrorTyped, Discipline, NEW g \in Group, NEW S \in SUBSET Instance,
           NEW m, \A i \in S : m[i] \in Changes(i),
           NEW new, new = EventsOf(g, S, m)
    PROVE  /\ Sent(g, new)
           /\ \A i \in Instance : Of(new, i) = IF i \in Seen(g, S) THEN m[i].evs ELSE {}
<1>0. PICK seen : seen = Seen(g, S) /\ new = UNION {m[i].evs : i \in seen}
  BY DEF EventsOf
<1>1. \A i \in seen : /\ m[i].evs \in SUBSET Event /\ Once(m[i].evs) /\ \A e \in m[i].evs : e.inst = i
                      /\ i \in Instance /\ g \in GroupsOf[i]
  BY <1>0, ChangeIsStep DEF Seen
<1>2. new \in SUBSET Event
  BY <1>0, <1>1
<1>3. ASSUME NEW i \in Instance PROVE Of(new, i) = IF i \in seen THEN m[i].evs ELSE {}
  BY <1>0, <1>1 DEF Of
<1>4. ASSUME NEW x \in Ids(new) PROVE x \in Id /\ Once(OfId(new, x))
  <2>1. PICK e \in new : x = IdOf[e.inst]
    BY DEF Ids
  <2>2. PICK i \in seen : e \in m[i].evs
    BY <1>0
  <2>3. e.inst = i /\ i \in Instance
    BY <1>1, <2>2
  <2>4. OfId(new, x) = m[i].evs
    BY <1>2, <1>3, <2>1, <2>3, OfIsOfId
  <2> QED  BY <1>1, <2>1, <2>3, <2>4, ConstantsAssumption
<1>5. \A e \in new : g \in GroupsOf[e.inst]
  BY <1>0, <1>1
<1> QED  BY <1>0, <1>2, <1>3, <1>4, <1>5 DEF Sent

(* A step that leaves the queue as it is.                                  *)
LEMMA QueueUnchanged ==
    ASSUME QueueOK, UNCHANGED vars
    PROVE  QueueOK'
<1>1. TypeOK'
  BY DEF QueueOK, TypeOK, vars
<1>2. QueueInv'
  BY DEF QueueOK, QueueInv, vars
<1>3. EachOnce' /\ MapInv'
  BY DEF QueueOK, EachOnce, MapInv, OfId, Ids, vars
<1> QED  BY <1>1, <1>2, <1>3 DEF QueueOK

(* What the server does adds one step to the end of each chain.            *)
LEMMA ServerStep ==
    ASSUME SyncInv, Discipline, ServerChange
    PROVE  SyncInv'
<1>20. PICK S \in SUBSET Instance : \E m \in [S -> UNION {Changes(i) : i \in S}] :
         /\ \A i \in S : m[i] \in Changes(i)
         /\ location' = [i \in Instance |-> IF i \in S THEN m[i].to ELSE location[i]]
         /\ stale' = stale \union {c \in held : c[1] \in S /\ m[c[1]].bump}
         /\ log' = [g \in Group |->
                      LET seen == {i \in S : g \in GroupsOf[i]}
                      IN  IF seen = {} THEN log[g]
                          ELSE Append(log[g], UNION {m[i].evs : i \in seen})]
  BY Zenon DEF ServerChange
<1>0. PICK m \in [S -> UNION {Changes(i) : i \in S}] :
         /\ \A i \in S : m[i] \in Changes(i)
         /\ location' = [i \in Instance |-> IF i \in S THEN m[i].to ELSE location[i]]
         /\ stale' = stale \union {c \in held : c[1] \in S /\ m[c[1]].bump}
         /\ log' = [g \in Group |->
                      LET seen == {i \in S : g \in GroupsOf[i]}
                      IN  IF seen = {} THEN log[g]
                          ELSE Append(log[g], UNION {m[i].evs : i \in seen})]
  BY <1>20, Zenon
<1>1. /\ \A i \in S : m[i] \in Changes(i)
      /\ location' = [i \in Instance |-> IF i \in S THEN m[i].to ELSE location[i]]
      /\ stale' = stale \union {c \in held : c[1] \in S /\ m[c[1]].bump}
      /\ log' = [g \in Group |-> IF Seen(g, S) = {} THEN log[g]
                                 ELSE Append(log[g], EventsOf(g, S, m))]
  BY <1>0 DEF Seen, EventsOf
<1>2. UNCHANGED <<vars, held, applied>>
  BY DEF ServerChange
<1>3. /\ UNCHANGED <<eventQueue, events, added, running>> /\ held' = held /\ applied' = applied
  BY <1>2 DEF vars
<1>4. MirrorTyped /\ QueueOK
  BY DEF SyncInv
<1>5. QueueOK'
  BY <1>2, <1>4, QueueUnchanged
<1>6. \A i \in S : m[i].to \in List \union {Gone} /\ i \in Instance
  BY <1>1, <1>4, ChangeIsStep
<1>7. ASSUME NEW g \in Group, NEW new, new = EventsOf(g, S, m)
      PROVE  /\ new \in SUBSET Event /\ Sent(g, new)
             /\ \A i \in Instance : g \in GroupsOf[i] => Of(new, i) = IF i \in S THEN m[i].evs ELSE {}
             /\ log'[g] = log[g] \/ log'[g] = Append(log[g], new)
             /\ \A i \in S : g \in GroupsOf[i] => log'[g] = Append(log[g], new)
  <2>1. /\ Sent(g, new)
        /\ \A i \in Instance : Of(new, i) = IF i \in Seen(g, S) THEN m[i].evs ELSE {}
    BY <1>1, <1>4, <1>7, BatchOfChanges
  <2>2. log'[g] = IF Seen(g, S) = {} THEN log[g] ELSE Append(log[g], new)
    BY <1>1, <1>7
  <2>3. \A i \in Instance : g \in GroupsOf[i] => (i \in Seen(g, S) <=> i \in S)
    BY DEF Seen
  <2> QED  BY <2>1, <2>2, <2>3 DEF Sent
<1>8. \A g \in Group : log[g] \in Seq(SUBSET Event) /\ log'[g] \in Seq(SUBSET Event)
  <2> SUFFICES ASSUME NEW g \in Group
               PROVE  log[g] \in Seq(SUBSET Event) /\ log'[g] \in Seq(SUBSET Event)
    OBVIOUS
  <2>1. PICK new : new = EventsOf(g, S, m)
    OBVIOUS
  <2>2. new \in SUBSET Event /\ (log'[g] = log[g] \/ log'[g] = Append(log[g], new))
    BY <1>7, <2>1
  <2>3. log[g] \in Seq(SUBSET Event)
    BY <1>4 DEF MirrorTyped
  <2>4. Append(log[g], new) \in Seq(SUBSET Event)
    BY <2>2, <2>3
  <2> QED  BY <2>2, <2>3, <2>4
<1>9. MirrorTyped'
  <2>1. location' \in [Instance -> List \union {Unborn, Gone}]
    BY <1>1, <1>4, <1>6 DEF MirrorTyped
  <2>2. stale' \subseteq held'
    BY <1>1, <1>3, <1>4 DEF MirrorTyped
  <2>3. log' \in [Group -> Seq(SUBSET Event)]
    BY <1>1, <1>8
  <2> QED  BY <1>3, <1>4, <2>1, <2>2, <2>3 DEF MirrorTyped
<1>10. ASSUME NEW g \in Group, NEW n \in 1..Len(log'[g]) PROVE Sent(g, log'[g][n])
  <2>1. PICK new : new = EventsOf(g, S, m)
    OBVIOUS
  <2>2. PICK s \in Seq(SUBSET Event) : s = log[g]
    BY <1>8
  <2>3. CASE log'[g] = log[g]
    BY <1>10, <2>3 DEF SyncInv
  <2>4. CASE log'[g] = Append(s, new)
    <3>1. new \in SUBSET Event /\ Sent(g, new)
      BY <1>7, <2>1
    <3>2. n \in 1..Len(s) + 1
      BY <1>10, <2>2, <2>4, <3>1
    <3>3. Append(s, new)[n] = IF n = Len(s) + 1 THEN new ELSE s[n]
      BY <2>2, <3>1, <3>2
    <3>4. n # Len(s) + 1 => n \in 1..Len(s)
      BY <2>2, <3>2
    <3> QED  BY <2>2, <2>4, <3>1, <3>3, <3>4 DEF SyncInv
  <2> QED  BY <1>7, <2>1, <2>2, <2>3, <2>4
<1>11. ASSUME NEW i \in Instance, NEW g \in GroupsOf[i] PROVE Chained(g, i)'
  <2>1. g \in Group
    BY SyncAssumption
  <2>2. PICK new : new = EventsOf(g, S, m)
    OBVIOUS
  <2>3. /\ new \in SUBSET Event
        /\ Of(new, i) = IF i \in S THEN m[i].evs ELSE {}
        /\ log'[g] = log[g] \/ log'[g] = Append(log[g], new)
        /\ i \in S => log'[g] = Append(log[g], new)
    BY <1>7, <2>1, <2>2
  <2>4. PICK s \in Seq(SUBSET Event) : s = log[g]
    BY <1>8, <2>1
  <2>5. PICK k \in Nat : k = Len(s)
    OBVIOUS
  <2>6. PICK n \in Nat : n = added + k + 1
    BY <2>1, SlotsTyped
  <2>7. added \in Nat
    BY <2>1, SlotsTyped
  <2>8. Slots(g) \in SUBSET Nat /\ \A p \in Slots(g) : p \in Nat /\ p < n /\ (~(p <= added) => p - added \in 1..k)
    <3>1. Slots(g) \in SUBSET Nat /\ \A p \in Slots(g) : p <= added + k /\ (p > added => p - added \in 1..k)
      BY <2>1, <2>4, <2>5, SlotsTyped
    <3>2. \A p \in Nat : (p <= added + k => p < n) /\ (~(p <= added) => p > added)
      BY <2>6, <2>7
    <3> QED  BY <3>1, <3>2
  <2>9. \A p \in Slots(g) : EventsAt(g, i, p)' = EventsAt(g, i, p)
    <3> SUFFICES ASSUME NEW p \in Slots(g) PROVE EventsAt(g, i, p)' = EventsAt(g, i, p)
      OBVIOUS
    <3>1. EventsAt(g, i, p)' = Of(IF p <= added THEN events[p] ELSE log'[g][p - added], i)
      BY <1>3 DEF EventsAt
    <3>2. ~(p <= added) => log'[g][p - added] = s[p - added]
      <4>1. \A q \in 1..k : Append(s, new)[q] = s[q]
        BY <2>3, <2>5
      <4> QED  BY <2>3, <2>4, <2>8, <4>1
    <3> QED  BY <2>4, <3>1, <3>2 DEF EventsAt
  <2>10. PICK P : P = Places(g, i)
    OBVIOUS
  <2>11. PICK F : F = StepsOf(g, i)
    OBVIOUS
  <2>12. PICK Q : Q = Places(g, i)'
    OBVIOUS
  <2>13. PICK G : G = StepsOf(g, i)'
    OBVIOUS
  <2>14. P \in SUBSET Nat /\ P \in SUBSET Slots(g)
    BY <2>8, <2>10 DEF Places
  <2>15. \A p \in P : G[p] = F[p] /\ p < n
    <3>1. \A p \in P : p \in Nat /\ p \in Slots(g)
      BY <2>14
    <3> QED  BY <2>8, <2>9, <2>11, <2>13, <3>1 DEF StepsOf
  <2>16. Chain(P, F, ListsIn(held, i), ListsIn(stale, i), PlaceOf(i))
    BY <2>1, <2>10, <2>11 DEF SyncInv, Chained
  <2>17. Slots(g)' = IF log'[g] = log[g] THEN Slots(g) ELSE Slots(g) \union {n}
    <3>1. CASE log'[g] = log[g]
      BY <1>3, <3>1 DEF Slots
    <3>2. CASE log'[g] # log[g]
      <4>1. Len(log'[g]) = k + 1
        BY <2>3, <2>4, <2>5, <3>2
      <4>2. added + 1 .. added + (k + 1) = (added + 1 .. added + k) \union {n}
        BY <2>5, <2>6, <2>7
      <4>3. Slots(g)' = (eventQueue \ applied) \union (added + 1 .. added + (k + 1))
        BY <1>3, <4>1 DEF Slots
      <4>4. Slots(g) = (eventQueue \ applied) \union (added + 1 .. added + k)
        BY <2>4, <2>5 DEF Slots
      <4> QED  BY <3>2, <4>2, <4>3, <4>4
    <3> QED  BY <3>1, <3>2
  <2>18. log'[g] # log[g] => EventsAt(g, i, n)' = Of(new, i)
    <3>1. Append(s, new)[k + 1] = new
      BY <2>3, <2>5
    <3>2. ~(n <= added) /\ n - added = k + 1
      BY <2>5, <2>6, <2>7
    <3>3. EventsAt(g, i, n)' = Of(log'[g][n - added], i)
      BY <1>3, <3>2 DEF EventsAt
    <3> QED  BY <2>3, <2>4, <3>1, <3>2, <3>3
  <2>19. PlaceOf(i)' = IF i \in S THEN m[i].to ELSE PlaceOf(i)
    <3>1. location'[i] = IF i \in S THEN m[i].to ELSE location[i]
      BY <1>1
    <3>2. PlaceOf(i)' = IF location'[i] \in List THEN location'[i] ELSE Gone
      BY DEF PlaceOf, Exists
    <3> QED  BY <1>6, <3>1, <3>2 DEF PlaceOf, Exists
  <2>20. ListsIn(held', i) = ListsIn(held, i)
    BY <1>3
  <2>21. i \notin S \/ ~m[i].bump => ListsIn(stale', i) = ListsIn(stale, i)
    BY <1>1 DEF ListsIn
  <2>22. CASE i \in S
    <3>1. /\ m[i].evs # {} /\ StepOf(m[i].evs) \in Steps
          /\ StepOf(m[i].evs).from = PlaceOf(i) /\ StepOf(m[i].evs).to = m[i].to
          /\ m[i].bump => StepOf(m[i].evs).kind = "UPDATE"
      BY <1>1, <1>4, <2>22, ChangeIsStep DEF Once
    <3>2. log'[g] # log[g]
      <4>1. Len(Append(s, new)) # Len(s)
        BY <2>3
      <4> QED  BY <2>3, <2>4, <2>22, <4>1
    <3>3. EventsAt(g, i, n)' = m[i].evs
      BY <2>3, <2>18, <2>22, <3>2
    <3>4. Q = P \union {n}
      BY <2>9, <2>10, <2>12, <2>17, <3>1, <3>2, <3>3 DEF Places
    <3>5. G[n] = StepOf(m[i].evs)
      BY <2>13, <3>3 DEF StepsOf
    <3>6. Chain(P \union {n}, G, ListsIn(held, i), ListsIn(stale', i), G[n].to)
      <4>1. G[n] \in Steps /\ G[n].from = PlaceOf(i)
        BY <3>1, <3>5
      <4>2. G[n].kind # "UPDATE" => ListsIn(stale', i) = ListsIn(stale, i)
        BY <2>21, <3>1, <3>5
      <4>3. PICK T : T = ListsIn(stale', i)
        OBVIOUS
      <4>4. (\A p \in P : p < n) /\ (\A p \in P : G[p] = F[p])
        BY <2>15
      <4>5. Chain(P \union {n}, G, ListsIn(held, i), T, G[n].to)
        <5>1. PICK M : M = ListsIn(held, i)
          OBVIOUS
        <5>2. PICK R : R = ListsIn(stale, i)
          OBVIOUS
        <5>3. PICK l : l = PlaceOf(i)
          OBVIOUS
        <5>4. Chain(P, F, M, R, l) /\ G[n].from = l
          BY <2>16, <4>1, <5>1, <5>2, <5>3
        <5>5. G[n].kind # "UPDATE" => T = R
          BY <4>2, <4>3, <5>2
        <5> QED  BY <2>14, <4>1, <4>4, <5>1, <5>4, <5>5, ChainGrows
      <4> QED  BY <4>3, <4>5
    <3>7. G[n].to = PlaceOf(i)'
      BY <2>19, <2>22, <3>1, <3>5
    <3> QED  BY <2>12, <2>13, <2>20, <3>4, <3>6, <3>7 DEF Chained
  <2>23. CASE i \notin S
    <3>1. log'[g] # log[g] => EventsAt(g, i, n)' = {}
      BY <2>3, <2>18, <2>23
    <3>2. Q = P
      BY <2>9, <2>10, <2>12, <2>17, <3>1 DEF Places
    <3>3. Chain(P, G, ListsIn(held, i), ListsIn(stale, i), PlaceOf(i))
      BY <2>14, <2>15, <2>16, ChainSame
    <3>4. ListsIn(stale', i) = ListsIn(stale, i) /\ PlaceOf(i)' = PlaceOf(i)
      BY <2>19, <2>21, <2>23
    <3> QED  BY <2>12, <2>13, <2>20, <3>2, <3>3, <3>4 DEF Chained
  <2> QED  BY <2>22, <2>23
<1> QED  BY <1>5, <1>9, <1>10, <1>11 DEF SyncInv
-----------------------------------------------------------------------------
(* A copy is downloaded for a creation, or for an update of one that is    *)
(* there, unless one was renamed.                                          *)
LEMMA DownloadedFrom ==
    ASSUME NEW i, NEW es, NEW c
    PROVE  c \in Fetched(i, es) <=>
               /\ Renames(i, es) = {}
               /\ \/ \E l \in ListsOf(OfOp(es, "CREATE")) : c \in InList(i, l)
                  \/ \E l \in ListsOf(OfOp(es, "UPDATE")) : <<i, l>> \in held /\ c \in InList(i, l)
<1>1. CASE Renames(i, es) # {}
  BY <1>1 DEF Fetched
<1>2. CASE Renames(i, es) = {}
  <2>1. c \in Fetched(i, es) <=> \E l \in Downloads(i, es) : c \in InList(i, l)
    BY <1>2 DEF Fetched
  <2>2. \A l : l \in Downloads(i, es) <=>
                 \/ l \in ListsOf(OfOp(es, "CREATE"))
                 \/ l \in ListsOf(OfOp(es, "UPDATE")) /\ <<i, l>> \in held
    BY DEF Downloads
  <2> QED  BY <1>2, <2>1, <2>2
<1> QED  BY <1>1, <1>2

(* What the mirror has of an instance after the events es.                 *)
LEMMA CopiesTyped ==
    ASSUME MirrorTyped, NEW i \in Instance, NEW es \in SUBSET Event
    PROVE  /\ HeldAfter(i, es) \subseteq Instance \X List
           /\ StaleAfter(i, es) \subseteq HeldAfter(i, es)
           /\ \A c \in HeldAfter(i, es) : c[1] = i
<1>1. \A op : ListsOf(OfOp(es, op)) \subseteq List
  BY DEF ListsOf, OfOp, Event
<1>2. Copies(i) \subseteq Instance \X List /\ \A c \in Copies(i) : c[1] = i
  BY DEF Copies, MirrorTyped
<1>3. Renamed(i, es) \subseteq Instance \X List /\ \A c \in Renamed(i, es) : c[1] = i
  BY <1>1 DEF Renamed
<1>4. \A l \in List : InList(i, l) \subseteq Instance \X List /\ \A c \in InList(i, l) : c[1] = i
  BY DEF InList
<1>5. Fetched(i, es) \subseteq Instance \X List /\ \A c \in Fetched(i, es) : c[1] = i
  <2>1. \A c \in Fetched(i, es) : \E l \in List : c \in InList(i, l)
    <3> SUFFICES ASSUME NEW c \in Fetched(i, es) PROVE \E l \in List : c \in InList(i, l)
      OBVIOUS
    <3> QED  BY <1>1, DownloadedFrom
  <2> QED  BY <1>4, <2>1
<1>6. RenamedStale(i, es) \subseteq Renamed(i, es)
  BY DEF RenamedStale
<1> QED  BY <1>2, <1>3, <1>5, <1>6 DEF HeldAfter, StaleAfter

(* Events that do not exist change nothing.                                *)
LEMMA ApplyNothing ==
    ASSUME NEW i
    PROVE  HeldAfter(i, {}) = Copies(i) /\ StaleAfter(i, {}) = stale \cap Copies(i)
<1>1. \A op : ListsOf(OfOp({}, op)) = {}
  BY DEF ListsOf, OfOp
<1>2. Removed(i, {}) = {} /\ Renames(i, {}) = {}
  BY <1>1 DEF Removed, Renames
<1>3. Renamed(i, {}) = {} /\ Fetched(i, {}) = {} /\ RenamedStale(i, {}) = {}
  BY <1>1, <1>2 DEF Renamed, Downloads, Fetched, RenamedStale
<1> QED  BY <1>2, <1>3 DEF HeldAfter, StaleAfter

(* The step of one event, by its operation.                                *)
LEMMA StepOfOp ==
    ASSUME NEW es \in SUBSET Event, NEW e \in es, es = {e}
    PROVE  /\ e.op \in Op /\ e.list \in List /\ StepOf(es).kind = e.op
           /\ e.op = "CREATE" => StepOf(es).from = Gone /\ StepOf(es).to = e.list
           /\ e.op = "UPDATE" => StepOf(es).from = e.list /\ StepOf(es).to = e.list
           /\ e.op = "DELETE" => StepOf(es).from = e.list /\ StepOf(es).to = Gone
<1>1. e \in Event /\ e.op \in Op /\ e.list \in List
  BY DEF Event
<1>2. StepOf(es) = [kind |-> e.op, from |-> IF e.op = "CREATE" THEN Gone ELSE e.list,
                    to |-> IF e.op = "DELETE" THEN Gone ELSE e.list]
  BY <1>1, StepOfOne
<1> QED  BY <1>1, <1>2

(* What is downloaded for one event.                                       *)
LEMMA FetchedLists ==
    ASSUME NEW i, NEW es, NEW C, NEW U,
           OfOp(es, "CREATE") = C, OfOp(es, "UPDATE") = U, Renames(i, es) = {}
    PROVE  /\ C = {} /\ U = {} => Fetched(i, es) = {}
           /\ \A e : C = {e} /\ U = {} => Fetched(i, es) = InList(i, e.list)
           /\ \A e : C = {} /\ U = {e} =>
                 Fetched(i, es) = IF <<i, e.list>> \in held THEN InList(i, e.list) ELSE {}
<1>1. ListsOf({}) = {} /\ \A e : ListsOf({e}) = {e.list}
  BY DEF ListsOf
<1>2. \A c : c \in Fetched(i, es) <=>
                 \/ \E l \in ListsOf(C) : c \in InList(i, l)
                 \/ \E l \in ListsOf(U) : <<i, l>> \in held /\ c \in InList(i, l)
  BY DownloadedFrom
<1>4. ASSUME NEW e, C = {e}, U = {} PROVE Fetched(i, es) = InList(i, e.list)
  <2>1. \A c : c \in Fetched(i, es) <=> c \in InList(i, e.list)
    <3>1. ListsOf(C) = {e.list} /\ ListsOf(U) = {}
      BY <1>1, <1>4
    <3> QED  BY <1>2, <3>1
  <2> QED  BY <2>1
<1>5. ASSUME NEW e, C = {}, U = {e}
      PROVE  Fetched(i, es) = IF <<i, e.list>> \in held THEN InList(i, e.list) ELSE {}
  <2>1. \A c : c \in Fetched(i, es) <=> <<i, e.list>> \in held /\ c \in InList(i, e.list)
    <3>1. ListsOf(C) = {} /\ ListsOf(U) = {e.list}
      BY <1>1, <1>5
    <3> QED  BY <1>2, <3>1
  <2>2. CASE <<i, e.list>> \in held
    BY <2>1, <2>2
  <2>3. CASE <<i, e.list>> \notin held
    BY <2>1, <2>3
  <2> QED  BY <2>2, <2>3
<1>6. C = {} /\ U = {} => Fetched(i, es) = {}
  BY <1>1, <1>2
<1> QED  BY <1>4, <1>5, <1>6

(* One step: the mirror ends where the step does, or without a copy, if    *)
(* the server has gone on; what was outdated is fresh, unless the step is  *)
(* a move, which renames a copy without downloading it.                    *)
LEMMA MirrorTakesStep ==
    ASSUME MirrorTyped, NEW i \in Instance, NEW es \in SUBSET Event, Once(es),
           NEW s, s = StepOf(es), ListsIn(held, i) \subseteq {s.from},
           NEW N, N = ListsIn(HeldAfter(i, es), i), NEW T, T = ListsIn(StaleAfter(i, es), i),
           NEW l, l = PlaceOf(i)
    PROVE  /\ N \in SUBSET List /\ N \subseteq {s.to}
           /\ s.to = l /\ l # Gone /\ (s.kind = "UPDATE" => ListsIn(held, i) # {}) => N # {}
           /\ s.kind = "MOVE" => (ListsIn(stale, i) = {} => T = {})
           /\ s.kind # "MOVE" => T = {}
<1>0. Gone \notin List
  BY SyncAssumption
<1>1. \A c \in Copies(i) : c \in held /\ c[2] \in ListsIn(held, i) /\ c = <<i, c[2]>> /\ c[2] \in List
  <2> SUFFICES ASSUME NEW c \in Copies(i)
               PROVE  c \in held /\ c[2] \in ListsIn(held, i) /\ c = <<i, c[2]>> /\ c[2] \in List
    OBVIOUS
  <2>1. c \in held /\ c[1] = i /\ c \in Instance \X List
    BY DEF Copies, MirrorTyped
  <2>2. c = <<i, c[2]>> /\ c[2] \in List
    BY <2>1
  <2> QED  BY <2>1, <2>2 DEF ListsIn
<1>2. N \in SUBSET List
  BY DEF ListsIn
<1>3. l # Gone => location[i] = l
  BY DEF PlaceOf
<1>4. \A m : \A c \in InList(i, m) : c = <<i, m>> /\ location[i] = m
  BY DEF InList
<1>5. stale \subseteq held
  BY DEF MirrorTyped
<1>6. ASSUME NEW e \in es, es = {e}, e.op = "CREATE"
      PROVE  N \subseteq {s.to} /\ (s.to = l /\ l # Gone => N # {}) /\ T = {}
  <2>1. s.from = Gone /\ s.to = e.list
    BY <1>6, StepOfOp
  <2>2. Copies(i) = {}
    BY <1>0, <1>1, <2>1
  <2>3. OfOp(es, "CREATE") = {e} /\ OfOp(es, "DELETE") = {} /\ OfOp(es, "UPDATE") = {}
    BY <1>6 DEF OfOp
  <2>4. Renames(i, es) = {}
    BY <2>3 DEF Renames, ListsOf
  <2>5. Renamed(i, es) = {} /\ RenamedStale(i, es) = {}
    BY <2>4 DEF Renamed, RenamedStale
  <2>6. Fetched(i, es) = InList(i, e.list)
    BY <2>3, <2>4, FetchedLists
  <2>7. HeldAfter(i, es) = InList(i, e.list) /\ StaleAfter(i, es) = {}
    BY <2>2, <2>5, <2>6 DEF HeldAfter, StaleAfter
  <2>8. N \subseteq {s.to} /\ T = {}
    BY <1>4, <2>1, <2>7 DEF ListsIn
  <2>9. s.to = l /\ l # Gone => N # {}
    BY <1>3, <1>6, <2>1, <2>7 DEF ListsIn, InList, Event
  <2> QED  BY <2>8, <2>9
<1>7. ASSUME NEW e \in es, es = {e}, e.op = "UPDATE"
      PROVE  /\ N \subseteq {s.to} /\ T = {}
             /\ s.to = l /\ l # Gone /\ ListsIn(held, i) # {} => N # {}
  <2>1. s.from = e.list /\ s.to = e.list /\ e.list \in List
    BY <1>7, StepOfOp
  <2>2. \A c \in Copies(i) : c = <<i, e.list>>
    BY <1>1, <2>1
  <2>3. OfOp(es, "UPDATE") = {e} /\ OfOp(es, "DELETE") = {} /\ OfOp(es, "CREATE") = {}
    BY <1>7 DEF OfOp
  <2>4. Renames(i, es) = {}
    BY <2>3 DEF Renames, ListsOf
  <2>5. Renamed(i, es) = {} /\ RenamedStale(i, es) = {}
    BY <2>4 DEF Renamed, RenamedStale
  <2>6. Fetched(i, es) = IF <<i, e.list>> \in held THEN InList(i, e.list) ELSE {}
    BY <2>3, <2>4, FetchedLists
  <2>7. Removed(i, es) = IF location[i] = e.list THEN {} ELSE {<<i, e.list>>}
    BY <2>3 DEF Removed, ListsOf
  <2>8. HeldAfter(i, es) = (Copies(i) \ Removed(i, es)) \union Fetched(i, es)
        /\ StaleAfter(i, es) = ((stale \cap Copies(i)) \ Removed(i, es)) \ Fetched(i, es)
    BY <2>5 DEF HeldAfter, StaleAfter
  <2>9. N \subseteq {s.to}
    BY <1>4, <2>1, <2>2, <2>6, <2>8 DEF ListsIn
  <2>10. StaleAfter(i, es) = {}
    <3>1. CASE location[i] = e.list
      <4>1. InList(i, e.list) = {<<i, e.list>>}
        BY <3>1 DEF InList
      <4> QED  BY <1>5, <2>2, <2>6, <2>8, <4>1
    <3>2. CASE location[i] # e.list
      BY <2>2, <2>7, <2>8, <3>2
    <3> QED  BY <3>1, <3>2
  <2>11. ASSUME s.to = l, l # Gone, ListsIn(held, i) # {} PROVE N # {}
    <3>1. <<i, e.list>> \in held
      BY <2>1, <2>11 DEF ListsIn
    <3>2. location[i] = e.list
      BY <1>3, <2>1, <2>11
    <3>3. <<i, e.list>> \in HeldAfter(i, es)
      BY <2>6, <2>8, <3>1, <3>2 DEF InList
    <3> QED  BY <2>1, <3>3 DEF ListsIn
  <2> QED  BY <2>9, <2>10, <2>11 DEF ListsIn
<1>8. ASSUME NEW e \in es, es = {e}, e.op = "DELETE"
      PROVE  N = {} /\ s.to = Gone /\ T = {}
  <2>1. s.from = e.list /\ s.to = Gone
    BY <1>8, StepOfOp
  <2>2. \A c \in Copies(i) : c = <<i, e.list>>
    BY <1>1, <2>1
  <2>3. OfOp(es, "DELETE") = {e} /\ OfOp(es, "UPDATE") = {} /\ OfOp(es, "CREATE") = {}
    BY <1>8 DEF OfOp
  <2>4. Renames(i, es) = {}
    BY <2>3 DEF Renames
  <2>5. Renamed(i, es) = {} /\ RenamedStale(i, es) = {}
    BY <2>4 DEF Renamed, RenamedStale
  <2>6. Fetched(i, es) = {}
    BY <2>3, <2>4, FetchedLists
  <2>7. <<i, e.list>> \in Removed(i, es)
    BY <2>3 DEF Removed, ListsOf
  <2>8. HeldAfter(i, es) = {} /\ StaleAfter(i, es) = {}
    BY <2>2, <2>5, <2>6, <2>7 DEF HeldAfter, StaleAfter
  <2> QED  BY <2>1, <2>8 DEF ListsIn
<1>9. ASSUME NEW c \in es, NEW d \in es, es = {c, d}, c.op = "CREATE", d.op = "DELETE",
             s = [kind |-> "MOVE", from |-> d.list, to |-> c.list]
      PROVE  /\ N \subseteq {s.to} /\ (s.to = l /\ l # Gone => N # {})
             /\ ListsIn(stale, i) = {} => T = {}
  <2>1. s.from = d.list /\ s.to = c.list /\ c.list \in List /\ d.list \in List
    BY <1>9 DEF Event
  <2>2. \A k \in Copies(i) : k = <<i, d.list>>
    BY <1>1, <2>1
  <2>3. OfOp(es, "DELETE") = {d} /\ OfOp(es, "UPDATE") = {} /\ OfOp(es, "CREATE") = {c}
    BY <1>9 DEF OfOp
  <2>4. Renames(i, es) = IF <<i, d.list>> \in held THEN {d.list} ELSE {}
    BY <2>3 DEF Renames, ListsOf
  <2>5. <<i, d.list>> \in Removed(i, es)
    BY <2>3 DEF Removed, ListsOf
  <2>6. Copies(i) \ Removed(i, es) = {}
    BY <2>2, <2>5
  <2>7. Renamed(i, es) = IF <<i, d.list>> \in held THEN {<<i, c.list>>} ELSE {}
    <3>1. ListsOf({c}) = {c.list}
      BY DEF ListsOf
    <3> QED  BY <2>3, <2>4, <3>1 DEF Renamed
  <2>8. Fetched(i, es) = IF <<i, d.list>> \in held THEN {} ELSE InList(i, c.list)
    <3>1. CASE <<i, d.list>> \in held
      BY <2>4, <3>1 DEF Fetched
    <3>2. CASE <<i, d.list>> \notin held
      BY <2>3, <2>4, <3>2, FetchedLists
    <3> QED  BY <3>1, <3>2
  <2>9. HeldAfter(i, es) = IF <<i, d.list>> \in held THEN {<<i, c.list>>} ELSE InList(i, c.list)
    BY <2>6, <2>7, <2>8 DEF HeldAfter
  <2>10. N \subseteq {s.to}
    BY <1>4, <2>1, <2>9 DEF ListsIn
  <2>11. ASSUME s.to = l, l # Gone PROVE N # {}
    <3>1. InList(i, c.list) = {<<i, c.list>>}
      BY <1>3, <2>1, <2>11 DEF InList
    <3> QED  BY <2>1, <2>9, <3>1 DEF ListsIn
  <2>12. ASSUME ListsIn(stale, i) = {} PROVE T = {}
    <3>1. \A m \in List : <<i, m>> \notin stale
      BY <2>12 DEF ListsIn
    <3>2. RenamedStale(i, es) = {}
      BY <2>1, <2>4, <3>1 DEF RenamedStale
    <3>3. StaleAfter(i, es) = {}
      BY <2>6, <3>2 DEF StaleAfter
    <3> QED  BY <3>3 DEF ListsIn
  <2> QED  BY <2>10, <2>11, <2>12
<1>10. CASE \E e \in es : es = {e}
  <2>1. PICK e \in es : es = {e}
    BY <1>10
  <2>2. e.op \in Op
    BY <2>1, StepOfOp
  <2>3. s.kind = e.op
    BY <2>1, StepOfOp
  <2>4. CASE e.op = "CREATE"
    BY <1>2, <1>6, <2>1, <2>3, <2>4
  <2>5. CASE e.op = "UPDATE"
    BY <1>2, <1>7, <2>1, <2>3, <2>5
  <2>6. CASE e.op = "DELETE"
    BY <1>2, <1>8, <2>1, <2>3, <2>6
  <2> QED  BY <2>2, <2>4, <2>5, <2>6 DEF Op
<1>11. CASE ~(\E e \in es : es = {e})
  <2>1. PICK c \in es, d \in es :
                /\ es = {c, d} /\ c.op = "CREATE" /\ d.op = "DELETE"
                /\ s = [kind |-> "MOVE", from |-> d.list, to |-> c.list]
    BY <1>11, StepShape
  <2> QED  BY <1>2, <1>9, <2>1
<1> QED  BY <1>10, <1>11
-----------------------------------------------------------------------------
(* The batch that is processed is the first place of every instance it     *)
(* has events of.                                                          *)
LEMMA RunningIsFirst ==
    ASSUME SyncInv, NEW b \in Batch, running[b] > 0
    PROVE  /\ b \in eventQueue /\ b \in Nat /\ b <= added /\ added \in Nat
           /\ applied \subseteq {b}
           /\ \A g \in Group : \A p \in Slots(g) : b <= p
<1>1. TypeOK /\ QueueInv /\ MirrorTyped
  BY DEF SyncInv, QueueOK
<1>2. processing = b /\ b # NoBatch /\ b \in Nat
  BY <1>1, ConstantsAssumption DEF QueueInv, Batch
<1>3. b \in eventQueue /\ (\A c \in eventQueue : b <= c) /\ b \in 1..added /\ added \in Nat
  BY <1>1, <1>2 DEF QueueInv, TypeOK
<1>4. applied \subseteq {b}
  BY <1>1, <1>2 DEF QueueInv, MirrorTyped
<1>5. ASSUME NEW g \in Group, NEW p \in Slots(g) PROVE b <= p
  <2>1. p \in eventQueue \/ p \in added + 1 .. added + Len(log[g])
    BY <1>5 DEF Slots
  <2>2. PICK n \in Nat : n = Len(log[g])
    BY SlotsTyped
  <2>3. ASSUME p \in added + 1 .. added + n PROVE b <= p
    BY <1>2, <1>3, <2>3
  <2> QED  BY <1>3, <2>1, <2>2, <2>3
<1> QED  BY <1>2, <1>3, <1>4, <1>5

(* Writing the batch to the mirror takes the first step of the chain.      *)
LEMMA ChainTakesStep ==
    ASSUME SyncInv, Discipline, NEW b \in Batch, Apply(b), NEW i \in Instance, NEW g \in GroupsOf[i]
    PROVE  Chained(g, i)'
<1>1. /\ running[b] > 0 /\ b \notin applied /\ applied' = applied \union {b}
      /\ eventQueue' = eventQueue /\ events' = events /\ added' = added
      /\ location' = location /\ log' = log
      /\ held' = UNION {HeldAfter(j, OfInstance(b, j)) : j \in Instance}
      /\ stale' = UNION {StaleAfter(j, OfInstance(b, j)) : j \in Instance}
  BY DEF Apply, vars, serverVars
<1>2. g \in Group
  BY SyncAssumption
<1>3. /\ b \in eventQueue /\ b \in Nat /\ b <= added /\ added \in Nat /\ applied = {}
      /\ \A p \in Slots(g) : b <= p
  BY <1>1, <1>2, RunningIsFirst
<1>4. MirrorTyped /\ TypeOK
  BY DEF SyncInv, QueueOK
<1>5. PICK es : es = OfInstance(b, i)
  OBVIOUS
<1>6. b \in Slots(g) /\ EventsAt(g, i, b) = es /\ es \in SUBSET Event
  <2>1. b \in Slots(g)
    BY <1>3 DEF Slots
  <2>2. EventsAt(g, i, b) = es
    BY <1>3, <1>5 DEF EventsAt, Of, OfInstance
  <2> QED  BY <1>2, <2>1, <2>2, EventsAtPlace
<1>7. Slots(g)' = Slots(g) \ {b}
  <2>1. Len(log[g]) \in Nat
    BY <1>2, SlotsTyped
  <2>2. PICK n \in Nat : n = Len(log[g])
    BY <2>1
  <2>3. b \notin added + 1 .. added + n
    BY <1>3
  <2>4. Slots(g) = eventQueue \union (added + 1 .. added + n)
    BY <1>3, <2>2 DEF Slots
  <2>5. Slots(g)' = (eventQueue \ {b}) \union (added + 1 .. added + n)
    BY <1>1, <1>3, <2>2 DEF Slots
  <2> QED  BY <2>3, <2>4, <2>5
<1>8. \A p : EventsAt(g, i, p)' = EventsAt(g, i, p)
  BY <1>1 DEF EventsAt
<1>9. PICK P : P = Places(g, i)
  OBVIOUS
<1>10. PICK F : F = StepsOf(g, i)
  OBVIOUS
<1>11. Places(g, i)' = P \ {b} /\ StepsOf(g, i)' = F
  <2>1. Places(g, i)' = {p \in Slots(g) \ {b} : EventsAt(g, i, p) # {}}
    BY <1>7, <1>8 DEF Places
  <2>2. StepsOf(g, i)' = F
    BY <1>8, <1>10 DEF StepsOf
  <2> QED  BY <1>9, <2>1, <2>2 DEF Places
<1>12. P \in SUBSET Nat /\ Placed(P, F, added + Len(log[g])) /\ added + Len(log[g]) \in Nat
  BY <1>2, <1>9, <1>10, PlacesTyped, SlotsTyped
<1>13. PICK l : l = PlaceOf(i)
  OBVIOUS
<1>14. PICK M : M = ListsIn(held, i)
  OBVIOUS
<1>15. PICK S : S = ListsIn(stale, i)
  OBVIOUS
<1>16. Chain(P, F, M, S, l)
  BY <1>9, <1>10, <1>13, <1>14, <1>15 DEF SyncInv, Chained
<1>17. PICK N : N = ListsIn(HeldAfter(i, es), i)
  OBVIOUS
<1>18. PICK T : T = ListsIn(StaleAfter(i, es), i)
  OBVIOUS
<1>19. ListsIn(held', i) = N /\ ListsIn(stale', i) = T
  <2>1. \A j \in Instance : OfInstance(b, j) \in SUBSET Event
    BY <1>4 DEF TypeOK, OfInstance
  <2>2. \A j \in Instance : /\ \A c \in HeldAfter(j, OfInstance(b, j)) : c[1] = j
                            /\ \A c \in StaleAfter(j, OfInstance(b, j)) : c[1] = j
    BY <1>4, <2>1, CopiesTyped
  <2>3. \A m : <<i, m>> \in held' <=> <<i, m>> \in HeldAfter(i, es)
    BY <1>1, <1>5, <2>2
  <2>4. \A m : <<i, m>> \in stale' <=> <<i, m>> \in StaleAfter(i, es)
    BY <1>1, <1>5, <2>2
  <2> QED  BY <1>17, <1>18, <2>3, <2>4 DEF ListsIn
<1>20. PlaceOf(i)' = l
  BY <1>1, <1>13 DEF PlaceOf, Exists
<1>21. CASE es = {}
  <2>1. b \notin P
    BY <1>6, <1>9, <1>21 DEF Places
  <2>2. N = M
    <3>1. HeldAfter(i, es) = Copies(i)
      BY <1>21, ApplyNothing
    <3> QED  BY <1>14, <1>17, <3>1 DEF ListsIn, Copies
  <2>3. T = S
    <3>1. StaleAfter(i, es) = stale \cap Copies(i)
      BY <1>21, ApplyNothing
    <3> QED  BY <1>4, <1>15, <1>18, <3>1 DEF ListsIn, Copies, MirrorTyped
  <2>4. P \ {b} = P
    BY <2>1
  <2> QED  BY <1>11, <1>16, <1>19, <1>20, <2>2, <2>3, <2>4 DEF Chained
<1>22. CASE es # {}
  <2>1. b \in P /\ \A p \in P : b <= p
    BY <1>3, <1>6, <1>9, <1>22 DEF Places
  <2>2. Once(es)
    BY <1>2, <1>6, <1>22, EventsAtPlace
  <2>3. F[b] = StepOf(es)
    BY <1>3, <1>6, <1>10 DEF StepsOf
  <2>4. M \subseteq {F[b].from}
    BY <1>16, <2>1 DEF Chain, BeginsAt
  <2>5. PICK s : s = StepOf(es)
    OBVIOUS
  <2>6. ListsIn(held, i) \subseteq {s.from}
    BY <1>14, <2>3, <2>4, <2>5
  <2>7. /\ N \in SUBSET List /\ N \subseteq {s.to}
        /\ s.to = l /\ l # Gone /\ (s.kind = "UPDATE" => ListsIn(held, i) # {}) => N # {}
        /\ s.kind = "MOVE" => (ListsIn(stale, i) = {} => T = {})
        /\ s.kind # "MOVE" => T = {}
    BY <1>4, <1>6, <1>13, <1>17, <1>18, <2>2, <2>5, <2>6, MirrorTakesStep
  <2>8. /\ N \subseteq {F[b].to}
        /\ F[b].to = l /\ l # Gone /\ (F[b].kind = "UPDATE" => M # {}) => N # {}
        /\ F[b].kind = "MOVE" => (S = {} => T = {})
        /\ F[b].kind # "MOVE" => T = {}
    BY <1>14, <1>15, <2>3, <2>5, <2>7
  <2>9. PICK n \in Nat : n = added + Len(log[g])
    BY <1>12
  <2>10. Chain(P \ {b}, F, N, T, l)
    BY <1>12, <1>16, <2>1, <2>7, <2>8, <2>9, ChainShrinks
  <2> QED  BY <1>11, <1>19, <1>20, <2>10 DEF Chained
<1> QED  BY <1>21, <1>22

(* A batch that is written to the mirror keeps the invariant.              *)
LEMMA ApplyBatch ==
    ASSUME SyncInv, Discipline, NEW b \in Batch, Apply(b)
    PROVE  SyncInv'
<1>1. /\ running[b] > 0 /\ applied' = applied \union {b} /\ UNCHANGED vars
      /\ location' = location /\ log' = log /\ running' = running
      /\ held' = UNION {HeldAfter(j, OfInstance(b, j)) : j \in Instance}
      /\ stale' = UNION {StaleAfter(j, OfInstance(b, j)) : j \in Instance}
  BY DEF Apply, vars, serverVars
<1>2. QueueOK'
  BY <1>1, QueueUnchanged DEF SyncInv
<1>3. MirrorTyped'
  <2>1. \A j \in Instance : OfInstance(b, j) \in SUBSET Event
    BY DEF SyncInv, QueueOK, TypeOK, OfInstance
  <2>2. \A j \in Instance : /\ HeldAfter(j, OfInstance(b, j)) \subseteq Instance \X List
                            /\ StaleAfter(j, OfInstance(b, j)) \subseteq HeldAfter(j, OfInstance(b, j))
    BY <2>1, CopiesTyped DEF SyncInv
  <2>3. held' \subseteq Instance \X List /\ stale' \subseteq held'
    BY <1>1, <2>2
  <2>4. MirrorTyped
    BY DEF SyncInv
  <2> QED  BY <1>1, <2>3, <2>4 DEF MirrorTyped
<1>4. \A g \in Group : \A n \in 1..Len(log'[g]) : Sent(g, log'[g][n])
  BY <1>1 DEF SyncInv
<1>5. \A i \in Instance : \A g \in GroupsOf[i] : Chained(g, i)'
  BY ChainTakesStep
<1> QED  BY <1>2, <1>3, <1>4, <1>5 DEF SyncInv
-----------------------------------------------------------------------------
(* A step of the queue that leaves the batches to be applied as they are   *)
(* leaves every chain as it is.                                            *)
LEMMA SameBatches ==
    ASSUME SyncInv, Discipline, QueueOK', UNCHANGED <<location, log, held, stale, added>>,
           eventQueue' \ applied' = eventQueue \ applied,
           \A c \in eventQueue \ applied : events'[c] = events[c],
           applied' \subseteq {c \in Batch : running'[c] > 0}
    PROVE  SyncInv'
<1>1. MirrorTyped'
  BY DEF SyncInv, MirrorTyped
<1>2. ASSUME NEW i \in Instance, NEW g \in GroupsOf[i] PROVE Chained(g, i)'
  <2>1. g \in Group
    BY SyncAssumption
  <2>2. Slots(g)' = Slots(g)
    BY DEF Slots
  <2>3. \A p \in Slots(g) : EventsAt(g, i, p)' = EventsAt(g, i, p)
    <3> SUFFICES ASSUME NEW p \in Slots(g) PROVE EventsAt(g, i, p)' = EventsAt(g, i, p)
      OBVIOUS
    <3>1. CASE p <= added
      <4>1. p \in eventQueue \ applied
        BY <2>1, <3>1, SlotsTyped
      <4> QED  BY <3>1, <4>1 DEF EventsAt
    <3>2. CASE ~(p <= added)
      BY <3>2 DEF EventsAt
    <3> QED  BY <3>1, <3>2
  <2>4. PICK P : P = Places(g, i)
    OBVIOUS
  <2>5. PICK F : F = StepsOf(g, i)
    OBVIOUS
  <2>6. PICK G : G = StepsOf(g, i)'
    OBVIOUS
  <2>7. Places(g, i)' = P
    BY <2>2, <2>3, <2>4 DEF Places
  <2>8. P \in SUBSET Nat /\ P \subseteq Slots(g)
    BY <2>1, <2>4, PlacesTyped DEF Places
  <2>9. \A p \in P : G[p] = F[p]
    BY <2>3, <2>5, <2>6, <2>8 DEF StepsOf
  <2>10. Chain(P, F, ListsIn(held, i), ListsIn(stale, i), PlaceOf(i))
    BY <2>4, <2>5 DEF SyncInv, Chained
  <2>11. Chain(P, G, ListsIn(held, i), ListsIn(stale, i), PlaceOf(i))
    BY <2>8, <2>9, <2>10, ChainSame
  <2>12. PlaceOf(i)' = PlaceOf(i)
    BY DEF PlaceOf, Exists
  <2> QED  BY <2>6, <2>7, <2>11, <2>12 DEF Chained
<1> QED  BY <1>1, <1>2 DEF SyncInv

(* A batch that was written and is done leaves the queue.                  *)
LEMMA CompleteStep ==
    ASSUME SyncInv, Discipline, NEW b \in Batch, Complete(b)
    PROVE  SyncInv'
<1>1. /\ b \in applied /\ Succeed(b) /\ applied' = applied \ {b}
      /\ UNCHANGED <<location, log, held, stale>> /\ added' = added
  BY DEF Complete, Succeed, serverVars, mirrorVars
<1>2. TypeOK /\ QueueInv /\ EachOnce /\ MapInv
  BY DEF SyncInv, QueueOK
<1>3. running[b] > 0 /\ applied \subseteq {b}
  BY <1>1, RunningIsFirst DEF Succeed
<1>4. applied = {b} /\ applied' = {}
  BY <1>1, <1>3
<1>5. Next
  BY <1>1 DEF Next
<1>6. QueueOK'
  <2>1. TypeOK'
    BY <1>2, <1>5, TypeStep
  <2>2. QueueInv' /\ MapInv'
    BY <1>1, <1>2, SucceedKeepsInv, SucceedKeepsMap
  <2>3. EachOnce'
    BY <1>2, <1>5, EachOnceStep DEF Discipline
  <2> QED  BY <2>1, <2>2, <2>3 DEF QueueOK
<1>7. eventQueue' = eventQueue \ {b}
  <2>1. eventQueue' = {c \in eventQueue : \E d \in eventQueue : d < c}
    BY <1>1 DEF Succeed
  <2>2. b \in eventQueue /\ \A c \in eventQueue : b <= c
    BY <1>2, <1>3, ConstantsAssumption DEF QueueInv, Batch
  <2>3. eventQueue \subseteq Nat
    BY <1>2, ConstantsAssumption DEF TypeOK, Batch
  <2>4. \A c \in eventQueue : (\E d \in eventQueue : d < c) <=> c # b
    BY <2>2, <2>3
  <2> QED  BY <2>1, <2>2, <2>4
<1>8. \A c \in eventQueue \ applied : events'[c] = events[c]
  <2>1. \A c \in Batch : c # b => events'[c] = events[c]
    BY <1>1, <1>2 DEF Succeed, TypeOK
  <2> QED  BY <1>2, <1>4, <2>1 DEF TypeOK
<1> QED  BY <1>1, <1>4, <1>6, <1>7, <1>8, SameBatches

(* A batch that fails was not written, a queue that is paused or resumed   *)
(* changes no batch.                                                       *)
LEMMA OtherSteps ==
    ASSUME SyncInv, Discipline, (\E b \in Batch : FailSync(b)) \/ PauseResume
    PROVE  SyncInv'
<1>1. TypeOK /\ QueueInv /\ EachOnce /\ MapInv /\ MirrorTyped
  BY DEF SyncInv, QueueOK
<1>2. (\E b \in Batch : Fail(b)) \/ Pause \/ Resume
  BY DEF FailSync, PauseResume
<1>3. UNCHANGED <<eventQueue, events, lastOperation, added, location, log, held, stale>>
  BY DEF FailSync, PauseResume, Fail, Pause, Resume, serverVars, mirrorVars
<1>4. QueueOK'
  <2>1. TypeOK'
    BY <1>1, <1>2, TypeStep DEF Next
  <2>2. QueueInv'
    BY <1>1, <1>2, OthersKeepInv
  <2>3. EachOnce' /\ MapInv'
    BY <1>1, <1>3 DEF EachOnce, MapInv
  <2> QED  BY <2>1, <2>2, <2>3 DEF QueueOK
<1>5. ASSUME NEW b \in Batch, FailSync(b)
      PROVE  applied' = applied /\ applied' \subseteq {c \in Batch : running'[c] > 0}
  <2>1. b \notin applied /\ applied' = applied \ {b} /\ running[b] > 0
    BY <1>5 DEF FailSync, Fail, Discipline
  <2>2. applied = {}
    BY <2>1, RunningIsFirst
  <2> QED  BY <2>1, <2>2
<1>6. CASE PauseResume
  <2>1. applied' = applied
    BY <1>6 DEF PauseResume
  <2>2. ASSUME Pause PROVE applied' \subseteq {c \in Batch : running'[c] > 0}
    BY <1>1, <2>1, <2>2 DEF Pause, MirrorTyped
  <2>3. ASSUME Resume PROVE applied' \subseteq {c \in Batch : running'[c] > 0}
    <3>1. \A c \in Batch : running[c] \in Nat /\ running'[c] \in {running[c], running[c] + 1}
      BY <1>1, <2>3 DEF Resume, StartNext, TypeOK
    <3>2. \A c \in Batch : running[c] > 0 => running'[c] > 0
      BY <3>1
    <3> QED  BY <1>1, <2>1, <3>2 DEF MirrorTyped
  <2>4. applied' \subseteq {c \in Batch : running'[c] > 0}
    BY <1>6, <2>2, <2>3 DEF PauseResume
  <2> QED  BY <1>3, <1>4, <2>1, <2>4, SameBatches
<1> QED  BY <1>3, <1>4, <1>5, <1>6, SameBatches

(* Every step keeps the invariant.                                         *)
LEMMA SyncInvStep ==
    ASSUME Discipline
    PROVE  SyncInv /\ [SyncNext]_syncVars => SyncInv'
<1> SUFFICES ASSUME SyncInv, [SyncNext]_syncVars PROVE SyncInv'
  OBVIOUS
<1>1. CASE ServerChange
  BY <1>1, ServerStep
<1>2. ASSUME NEW g \in Group, Deliver(g) PROVE SyncInv'
  BY <1>2, DeliverStep
<1>3. ASSUME NEW b \in Batch, Apply(b) PROVE SyncInv'
  BY <1>3, ApplyBatch
<1>4. ASSUME NEW b \in Batch, Complete(b) PROVE SyncInv'
  BY <1>4, CompleteStep
<1>5. CASE (\E b \in Batch : FailSync(b)) \/ PauseResume
  BY <1>5, OtherSteps
<1>6. CASE UNCHANGED syncVars
  <2>1. UNCHANGED vars
    BY <1>6 DEF syncVars
  <2>2. QueueOK'
    BY <2>1, QueueUnchanged DEF SyncInv
  <2>3. UNCHANGED <<eventQueue, events, running, added, location, log, held, stale, applied>>
    BY <1>6, <2>1 DEF syncVars, vars
  <2>4. applied' \subseteq {c \in Batch : running'[c] > 0}
    BY <2>3 DEF SyncInv, MirrorTyped
  <2> QED  BY <2>2, <2>3, <2>4, SameBatches
<1> QED  BY <1>1, <1>2, <1>3, <1>4, <1>5, <1>6 DEF SyncNext

(* In the beginning the mirror has what the server has, and nothing waits. *)
LEMMA SyncInvInit == SyncInit => SyncInv
<1> SUFFICES ASSUME SyncInit PROVE SyncInv
  OBVIOUS
<1>1. /\ Init /\ location \in [Instance -> List \union {Unborn}]
      /\ log = [g \in Group |-> << >>] /\ stale = {} /\ applied = {}
      /\ held = {<<i, location[i]>> : i \in {j \in Instance : Exists(j)}}
  BY DEF SyncInit
<1>2. QueueOK
  <2>1. TypeOK /\ QueueInv
    BY <1>1, QueueInitTyped, QueueInit
  <2>2. EachOnce /\ MapInv
    BY <1>1 DEF Init, EachOnce, MapInv, OfId
  <2> QED  BY <2>1, <2>2 DEF QueueOK
<1>3. MirrorTyped
  <2>1. held \subseteq Instance \X List
    BY <1>1 DEF Exists
  <2>2. << >> \in Seq(SUBSET Event)
    OBVIOUS
  <2>3. log \in [Group -> Seq(SUBSET Event)]
    BY <1>1, <2>2
  <2>4. location \in [Instance -> List \union {Unborn, Gone}]
    BY <1>1
  <2>5. stale \subseteq held /\ applied \subseteq {b \in Batch : running[b] > 0}
    BY <1>1
  <2> QED  BY <2>1, <2>3, <2>4, <2>5 DEF MirrorTyped
<1>4. \A g \in Group : Len(log[g]) = 0
  BY <1>1
<1>5. ASSUME NEW i \in Instance, NEW g \in GroupsOf[i] PROVE Chained(g, i)
  <2>1. g \in Group
    BY SyncAssumption
  <2>2. Slots(g) = {}
    <3>1. eventQueue = {} /\ added = 0
      BY <1>1 DEF Init
    <3>2. Len(log[g]) = 0
      BY <1>4, <2>1
    <3> QED  BY <3>1, <3>2 DEF Slots
  <2>3. Places(g, i) = {}
    BY <2>2 DEF Places
  <2>4. ListsIn(held, i) = IF Exists(i) THEN {location[i]} ELSE {}
    BY <1>1 DEF ListsIn, Exists
  <2>5. ListsIn(stale, i) = {}
    BY <1>1 DEF ListsIn
  <2>6. ListsIn(held, i) \subseteq {PlaceOf(i)} /\ (PlaceOf(i) # Gone => ListsIn(held, i) # {})
    BY <2>4 DEF PlaceOf
  <2> QED  BY <2>3, <2>5, <2>6 DEF Chained, Chain, Linked, EndsAt, BeginsAt, HasCopy, HasFresh
<1> QED  BY <1>2, <1>3, <1>4, <1>5 DEF SyncInv
-----------------------------------------------------------------------------
(* Merging loses nothing: whenever the mirror differs from the server in   *)
(* an instance, an event of the instance is still to be processed,         *)
(* whatever _optimizingAddEvents has merged (EventQueue.ts:137-250) and    *)
(* however far the server is ahead of the events.                          *)
LEMMA ChainsImplyPending ==
    ASSUME SyncInv, Discipline
    PROVE  DeviationIsPending
<1> SUFFICES ASSUME NEW i \in Instance PROVE UpToDate(i) \/ Pending(i)
  BY DEF DeviationIsPending
<1>1. PICK g \in Group : GroupsOf[i] = {g}
  BY DEF Discipline
<1>2. Chained(g, i) /\ MirrorTyped
  BY <1>1 DEF SyncInv
<1>3. CASE Places(g, i) = {}
  <2>1. /\ ListsIn(held, i) \subseteq {PlaceOf(i)} /\ ListsIn(stale, i) = {}
        /\ PlaceOf(i) # Gone => ListsIn(held, i) # {}
    BY <1>2, <1>3 DEF Chained, Chain, BeginsAt, HasCopy, HasFresh
  <2>2. Gone \notin List /\ (Exists(i) <=> location[i] \in List)
    BY SyncAssumption DEF Exists
  <2>3. \A l \in List : <<i, l>> \in held <=> l = PlaceOf(i)
    BY <2>1, <2>2 DEF ListsIn
  <2>4. \A c \in Copies(i) : c = <<i, c[2]>> /\ c[2] \in List /\ c \in held
    <3> SUFFICES ASSUME NEW c \in Copies(i) PROVE c = <<i, c[2]>> /\ c[2] \in List /\ c \in held
      OBVIOUS
    <3>1. c \in Instance \X List /\ c[1] = i /\ c \in held
      BY <1>2 DEF Copies, MirrorTyped
    <3> QED  BY <3>1
  <2>5. Copies(i) \cap stale = {}
    BY <2>1, <2>4 DEF ListsIn
  <2>6. CASE Exists(i)
    <3>1. PlaceOf(i) = location[i] /\ location[i] \in List
      BY <2>2, <2>6 DEF PlaceOf
    <3>2. <<i, location[i]>> \in Copies(i)
      BY <2>3, <3>1 DEF Copies
    <3>3. \A c \in Copies(i) : c = <<i, location[i]>>
      BY <2>3, <2>4, <3>1
    <3>4. Copies(i) = {<<i, location[i]>>}
      BY <3>2, <3>3
    <3> QED  BY <2>5, <2>6, <3>4 DEF UpToDate
  <2>7. CASE ~Exists(i)
    <3>1. Copies(i) = {}
      BY <2>2, <2>3, <2>4, <2>7 DEF PlaceOf
    <3> QED  BY <2>7, <3>1 DEF UpToDate
  <2> QED  BY <2>6, <2>7
<1>4. CASE Places(g, i) # {}
  <2>1. PICK p \in Slots(g) : EventsAt(g, i, p) # {}
    BY <1>4 DEF Places
  <2>2. CASE p <= added
    <3>1. p \in eventQueue \ applied
      BY <2>2, SlotsTyped
    <3>2. PICK e \in events[p] : e.inst = i
      BY <2>1, <2>2 DEF EventsAt, Of
    <3> QED  BY <3>1, <3>2 DEF Pending
  <2>3. CASE ~(p <= added)
    <3>1. p \in Nat /\ added \in Nat /\ log[g] \in Seq(SUBSET Event)
      BY SlotsTyped
    <3>2. p > added
      BY <2>3, <3>1
    <3>3. p - added \in DOMAIN log[g]
      BY <3>1, <3>2, SlotsTyped
    <3>4. PICK e \in log[g][p - added] : e.inst = i
      BY <2>1, <2>3 DEF EventsAt, Of
    <3> QED  BY <3>3, <3>4 DEF Pending
  <2> QED  BY <2>2, <2>3
<1> QED  BY <1>3, <1>4

(* The invariant holds in every state.                                     *)
LEMMA SyncInvAlways ==
    ASSUME Discipline
    PROVE  SyncSpec => []SyncInv
  BY SyncInvInit, SyncInvStep, PTL DEF SyncSpec

(* A deviation of the mirror is always repaired by an event that is still  *)
(* to come: the rules by which _optimizingAddEvents skips, drops and folds *)
(* events (EventQueue.ts:137-250) never forget a change.                   *)
THEOREM DeviationIsPendingAlways ==
    ASSUME Discipline
    PROVE  SyncSpec => []DeviationIsPending
<1>1. SyncInv => DeviationIsPending
  BY ChainsImplyPending
<1> QED  BY <1>1, SyncInvAlways, PTL

(* What the server sends never meets one of the four ProgrammingErrors of  *)
(* _optimizingAddEvents (EventQueue.ts:68, 170, 208, 239).                 *)
THEOREM NeverThrowsAlways ==
    ASSUME Discipline
    PROVE  SyncSpec => []NeverThrows
<1>1. SyncInv => NeverThrows
  BY NoThrow DEF NeverThrows
<1> QED  BY <1>1, SyncInvAlways, PTL

(* For what the server sends, the map _lastOperationForEntity is right     *)
(* without the assumption that no add() throws (EventQueue.ts:60-72).      *)
THEOREM LastOperationIsNewestInSync ==
    ASSUME Discipline
    PROVE  SyncSpec => []LastOperationIsNewest
<1>1. SyncInv => LastOperationIsNewest
  BY DEF SyncInv, QueueOK, MapInv, LastOperationIsNewest
<1> QED  BY <1>1, SyncInvAlways, PTL
=============================================================================
