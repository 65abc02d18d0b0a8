----------------------- MODULE SessionKeyUpdates_proofs -----------------------
(***************************************************************************)
(* For any number of calls, updates, suspensions and locks: a suspension   *)
(* ends by its own timer, and no deferred request and no update of session *)
(* keys is lost or doubled.                                                *)
(***************************************************************************)
EXTENDS SessionKeyUpdates, SequenceTheorems, FiniteSetTheorems, TLAPS

-----------------------------------------------------------------------------
(* The suspension                                                           *)

\* What a step of the queue of updates does to the RestClient
RestStep ==
    \/ \E c \in Calls : Request(c) \/ Suspended(c) \/ \E o \in Settled : Answer(c, o)
    \/ Release
    \/ \E i \in 1..Len(loops) : Continue(i)

LEMMA RestSteps == [UpdatesNext]_allVars => [RestStep]_restVars
<1> USE UpdatesAssumption DEF restVars
<1> SUFFICES ASSUME UpdatesNext PROVE RestStep \/ UNCHANGED restVars
  BY DEF allVars
<1>1. ASSUME NEW u \in Updates, NEW wanted \in BOOLEAN, UpdateInstanceSessionKeys(u, wanted)
      PROVE  UNCHANGED restVars
  BY <1>1 DEF UpdateInstanceSessionKeys
<1>2. ASSUME NEW p \in Posts, SendUpdateRequest(p) PROVE RestStep
  BY <1>2 DEF SendUpdateRequest, RestStep
<1>3. ASSUME NEW p \in Posts, NEW o \in Settled, PostAnswered(p, o) PROVE RestStep
  BY <1>3 DEF PostAnswered, RestStep
<1>4. ASSUME NEW c \in Calls \ Posts, OtherCall(c) PROVE RestStep
  BY <1>4 DEF OtherCall, RestStep, Settled
<1>5. ASSUME Rest PROVE RestStep
  BY <1>5 DEF Rest, RestStep, ContinueAny
<1> QED  BY <1>1, <1>2, <1>3, <1>4, <1>5 DEF UpdatesNext

LEMMA TimerStep == EndsByItsTimer /\ [RestStep]_restVars => EndsByItsTimer'
<1> SUFFICES ASSUME EndsByItsTimer, [RestStep]_restVars PROVE EndsByItsTimer'
  OBVIOUS
<1> USE DEF EndsByItsTimer
<1>1. ASSUME NEW c, NEW how, Requested(c, how) PROVE EndsByItsTimer'
  BY <1>1 DEF Requested, suspensionVars
<1>2. ASSUME NEW c \in Calls, Suspended(c) PROVE EndsByItsTimer'
  BY <1>2 DEF Suspended, Activate, suspensionVars
<1>3. CASE Release
  BY <1>3 DEF Release
<1>4. ASSUME NEW i \in 1..Len(loops), Continue(i) PROVE EndsByItsTimer'
  BY <1>1, <1>4 DEF Continue, suspensionVars
<1>5. CASE UNCHANGED restVars
  BY <1>5 DEF restVars, suspensionVars
<1> QED
  BY <1>1, <1>2, <1>3, <1>4, <1>5 DEF RestStep, Request, Answer, suspensionVars

\* Whatever is requested, answered and suspended: one timer is armed exactly while
\* the client is suspended, and nothing is deferred without it.
THEOREM EndsByItsTimerAlways == UpdatesSpec => []EndsByItsTimer
<1>1. UpdatesInit => EndsByItsTimer
  BY DEF UpdatesInit, RestInit, EndsByItsTimer
<1>2. EndsByItsTimer /\ [UpdatesNext]_allVars => EndsByItsTimer'
  BY RestSteps, TimerStep
<1> QED  BY <1>1, <1>2, PTL DEF UpdatesSpec

-----------------------------------------------------------------------------
(* Sequences                                                                *)

LEMMA RemoveAtProperties ==
  ASSUME NEW S, NEW s \in Seq(S), NEW i \in 1..Len(s)
  PROVE  /\ RemoveAt(s, i) \in Seq(S)
         /\ Len(RemoveAt(s, i)) = Len(s) - 1
         /\ \A k \in 1..Len(s)-1 : RemoveAt(s, i)[k] = IF k < i THEN s[k] ELSE s[k + 1]
<1> DEFINE front == SubSeq(s, 1, i - 1)
           back == SubSeq(s, i + 1, Len(s))
<1>1. Len(s) \in Nat /\ \A k \in 1..Len(s) : s[k] \in S
  BY LenProperties, ElementOfSeq
<1>2. /\ front \in Seq(S) /\ Len(front) = i - 1
      /\ \A k \in 1..i-1 : front[k] = s[k]
  <2>1. \A k \in 1..i-1 : s[k] \in S
    BY <1>1
  <2>2. /\ SubSeq(s, 1, i - 1) \in Seq(S)
        /\ Len(SubSeq(s, 1, i - 1)) = IF 1 <= i - 1 THEN (i - 1) - 1 + 1 ELSE 0
        /\ \A k \in 1 .. (i - 1) - 1 + 1 : SubSeq(s, 1, i - 1)[k] = s[1 + k - 1]
    BY <1>1, <2>1, i - 1 \in Int, 1 \in Int, SubSeqProperties
  <2> QED  BY <1>1, <2>2
<1>3. /\ back \in Seq(S) /\ Len(back) = Len(s) - i
      /\ \A k \in 1..Len(s)-i : back[k] = s[i + k]
  <2>1. \A k \in i+1..Len(s) : s[k] \in S
    BY <1>1
  <2>2. /\ SubSeq(s, i + 1, Len(s)) \in Seq(S)
        /\ Len(SubSeq(s, i + 1, Len(s))) = IF i + 1 <= Len(s) THEN Len(s) - (i + 1) + 1 ELSE 0
        /\ \A k \in 1 .. Len(s) - (i + 1) + 1 : SubSeq(s, i + 1, Len(s))[k] = s[(i + 1) + k - 1]
    BY <1>1, <2>1, i + 1 \in Int, Len(s) \in Int, SubSeqProperties
  <2> QED  BY <1>1, <2>2
<1> HIDE DEF front, back
<1>4. /\ front \o back \in Seq(S)
      /\ Len(front \o back) = Len(front) + Len(back)
      /\ \A k \in 1 .. Len(front) + Len(back) : (front \o back)[k] =
             IF k <= Len(front) THEN front[k] ELSE back[k - Len(front)]
  BY <1>2, <1>3, ConcatProperties
<1>5. RemoveAt(s, i) = front \o back
  BY DEF RemoveAt, front, back
<1>6. Len(s) \in Nat /\ i \in 1..Len(s) /\ Len(front) + Len(back) = Len(s) - 1
  BY <1>1, <1>2, <1>3
<1>7. ASSUME NEW k \in 1..Len(s)-1
      PROVE  RemoveAt(s, i)[k] = IF k < i THEN s[k] ELSE s[k + 1]
  <2>1. CASE k < i
    <3>1. k \in 1..i-1 /\ k \in 1 .. Len(front) + Len(back) /\ k <= Len(front)
      BY <1>2, <1>6, <2>1
    <3> QED  BY <1>2, <1>4, <1>5, <2>1, <3>1
  <2>2. CASE ~(k < i)
    <3>1. /\ k - (i - 1) \in 1..Len(s)-i /\ k \in 1 .. Len(front) + Len(back)
          /\ ~(k <= Len(front)) /\ i + (k - (i - 1)) = k + 1
      BY <1>2, <1>6, <2>2
    <3> QED  BY <1>2, <1>3, <1>4, <1>5, <2>2, <3>1
  <2> QED  BY <2>1, <2>2
<1> QED  BY <1>4, <1>5, <1>6, <1>7

LEMMA AppendedElements ==
  ASSUME NEW S, NEW s \in Seq(S), NEW e \in S
  PROVE  /\ Append(s, e) \in Seq(S)
         /\ Len(Append(s, e)) = Len(s) + 1
         /\ \A k \in 1..Len(s)+1 : Append(s, e)[k] = IF k <= Len(s) THEN s[k] ELSE e
  OBVIOUS

Distinct(s) == \A k, l \in 1..Len(s) : s[k] = s[l] => k = l

LEMMA DistinctEmpty == Distinct(<<>>) /\ \A x : ~Contains(<<>>, x)
  BY DEF Distinct, Contains

LEMMA DistinctAppend ==
  ASSUME NEW S, NEW s \in Seq(S), NEW e \in S, Distinct(s), ~Contains(s, e)
  PROVE  /\ Distinct(Append(s, e))
         /\ \A x : Contains(Append(s, e), x) <=> Contains(s, x) \/ x = e
<1> DEFINE t == Append(s, e)
<1>1. /\ Len(s) \in Nat /\ Len(t) = Len(s) + 1
      /\ \A k \in 1..Len(s) : t[k] = s[k]
      /\ t[Len(s) + 1] = e
  BY AppendedElements
<1> HIDE DEF t
<1>2. \A k \in 1..Len(t) : k \in 1..Len(s) \/ k = Len(s) + 1
  BY <1>1
<1>3. Distinct(t)
  BY <1>1, <1>2 DEF Distinct, Contains
<1>4. ASSUME NEW x PROVE Contains(t, x) <=> Contains(s, x) \/ x = e
  <2>1. 1..Len(t) = 1..Len(s) \union {Len(s) + 1}
    BY <1>1
  <2> QED  BY <1>1, <2>1 DEF Contains
<1> QED  BY <1>3, <1>4 DEF t

LEMMA DistinctTail ==
  ASSUME NEW S, NEW s \in Seq(S), s # <<>>, Distinct(s)
  PROVE  /\ Distinct(Tail(s)) /\ Head(s) \in S /\ Tail(s) \in Seq(S)
         /\ Contains(s, Head(s))
         /\ \A x : Contains(Tail(s), x) <=> Contains(s, x) /\ x # Head(s)
<1> DEFINE t == Tail(s)
<1>1. /\ Len(s) \in Nat \ {0} /\ Len(t) = Len(s) - 1 /\ t \in Seq(S) /\ Head(s) \in S
      /\ \A k \in 1..Len(t) : t[k] = s[k + 1]
  BY EmptySeq, HeadTailProperties
<1>2. Head(s) = s[1]
  OBVIOUS
<1> HIDE DEF t
<1>3. \A k \in 1..Len(t) : k + 1 \in 1..Len(s) /\ k + 1 # 1
  BY <1>1
<1>4. Distinct(t)
  BY <1>1, <1>3 DEF Distinct
<1>5. ASSUME NEW x PROVE Contains(t, x) <=> Contains(s, x) /\ x # Head(s)
  <2>1. ASSUME NEW k \in 1..Len(s), s[k] = x, x # Head(s) PROVE Contains(t, x)
    <3>1. k - 1 \in 1..Len(t) /\ (k - 1) + 1 = k
      BY <1>1, <1>2, <2>1
    <3> QED  BY <1>1, <2>1, <3>1 DEF Contains
  <2>2. ASSUME NEW k \in 1..Len(t), t[k] = x PROVE Contains(s, x) /\ x # Head(s)
    <3>1. k + 1 \in 1..Len(s) /\ s[k + 1] = x /\ k + 1 # 1 /\ 1 \in 1..Len(s)
      BY <1>1, <1>3, <2>2
    <3> QED  BY <1>2, <3>1 DEF Contains, Distinct
  <2> QED  BY <2>1, <2>2 DEF Contains
<1>6. Contains(s, Head(s))
  BY <1>1, <1>2, 1 \in 1..Len(s) DEF Contains
<1> QED  BY <1>1, <1>4, <1>5, <1>6 DEF t

LEMMA DistinctConcat ==
  ASSUME NEW S, NEW s \in Seq(S), NEW t \in Seq(S), Distinct(s), Distinct(t),
         \A x \in S : ~(Contains(s, x) /\ Contains(t, x))
  PROVE  /\ Distinct(s \o t) /\ s \o t \in Seq(S)
         /\ \A x : Contains(s \o t, x) <=> Contains(s, x) \/ Contains(t, x)
<1> DEFINE u == s \o t
<1>1. /\ Len(s) \in Nat /\ Len(t) \in Nat /\ Len(u) = Len(s) + Len(t) /\ u \in Seq(S)
      /\ \A k \in 1 .. Len(s) + Len(t) : u[k] = IF k <= Len(s) THEN s[k] ELSE t[k - Len(s)]
      /\ \A k \in 1..Len(s) : s[k] \in S
      /\ \A k \in 1..Len(t) : t[k] \in S
  BY LenProperties, ConcatProperties, ElementOfSeq
<1> HIDE DEF u
<1>2. \A k \in 1..Len(u) :
         \/ k \in 1..Len(s) /\ u[k] = s[k]
         \/ k > Len(s) /\ k - Len(s) \in 1..Len(t) /\ u[k] = t[k - Len(s)]
  BY <1>1
<1>3. Distinct(u)
  <2> SUFFICES ASSUME NEW k \in 1..Len(u), NEW l \in 1..Len(u), u[k] = u[l] PROVE k = l
    BY DEF Distinct
  <2>1. ASSUME NEW a \in 1..Len(s), NEW b \in 1..Len(t) PROVE s[a] # t[b]
    BY <1>1 DEF Contains
  <2>2. CASE k \in 1..Len(s) /\ u[k] = s[k]
    BY <1>2, <2>1, <2>2 DEF Distinct
  <2>3. CASE k > Len(s) /\ k - Len(s) \in 1..Len(t) /\ u[k] = t[k - Len(s)]
    <3>1. l > Len(s) /\ l - Len(s) \in 1..Len(t) /\ u[l] = t[l - Len(s)]
      BY <1>2, <2>1, <2>3
    <3>2. k - Len(s) = l - Len(s)
      BY <2>3, <3>1 DEF Distinct
    <3> QED  BY <1>1, <3>2
  <2> QED  BY <1>2, <2>2, <2>3
<1>4. ASSUME NEW x PROVE Contains(u, x) <=> Contains(s, x) \/ Contains(t, x)
  <2>1. Contains(u, x) => Contains(s, x) \/ Contains(t, x)
    BY <1>2 DEF Contains
  <2>2. ASSUME NEW k \in 1..Len(s), s[k] = x PROVE Contains(u, x)
    BY <1>1, <2>2, k \in 1..Len(u) DEF Contains
  <2>3. ASSUME NEW k \in 1..Len(t), t[k] = x PROVE Contains(u, x)
    <3>1. /\ k + Len(s) \in 1..Len(u) /\ ~(k + Len(s) <= Len(s))
          /\ (k + Len(s)) - Len(s) = k
      BY <1>1
    <3> QED  BY <1>1, <2>3, <3>1 DEF Contains
  <2> QED  BY <2>1, <2>2, <2>3 DEF Contains
<1> QED  BY <1>1, <1>3, <1>4 DEF u

-----------------------------------------------------------------------------
(* The deferred requests                                                    *)

LEMMA RestTypeStep ==
  RestTypeOK /\ EndsByItsTimer /\ [RestStep]_restVars => RestTypeOK'
<1> SUFFICES ASSUME RestTypeOK, EndsByItsTimer, [RestStep]_restVars PROVE RestTypeOK'
  OBVIOUS
<1> USE RestAssumption
<1> DEFINE LoopType == [awaits : Calls \union {NoCall}, rest : Seq(Calls)]
<1>0. isSuspended \in BOOLEAN /\ timers \in {0, 1} /\ suspensions \in 0..MaxSuspensions
  BY DEF RestTypeOK
<1>1. ASSUME NEW c \in Calls, NEW how \in Sent, Requested(c, how)
      PROVE  /\ isSuspended' \in BOOLEAN /\ timers' \in 0..1 /\ suspensions' \in 0..MaxSuspensions
             /\ deferredRequests' \in Seq(Calls)
             /\ call' \in [Calls -> {"new", "deferred"} \union Sent \union Settled]
  <2>1. Append(deferredRequests, c) \in Seq(Calls)
    BY AppendedElements DEF RestTypeOK
  <2> QED  BY <1>1, <2>1 DEF Requested, RestTypeOK, suspensionVars
<1>2. ASSUME NEW c \in Calls, Request(c) PROVE RestTypeOK'
  BY <1>1, <1>2, "sent" \in Sent DEF Request, RestTypeOK, Sent
<1>3. ASSUME NEW c \in Calls, NEW o \in Settled, Answer(c, o) PROVE RestTypeOK'
  BY <1>3 DEF Answer, RestTypeOK, suspensionVars
<1>4. ASSUME NEW c \in Calls, Suspended(c) PROVE RestTypeOK'
  <2>1. Append(deferredRequests, c) \in Seq(Calls)
    BY AppendedElements DEF RestTypeOK
  <2>2. CASE c \in Throwing
    BY <1>4, <2>2 DEF Suspended, RestTypeOK, suspensionVars, Settled
  <2>3. CASE c \notin Throwing
    <3>0. timers = (IF isSuspended THEN 1 ELSE 0) /\ Activate
      BY <1>4, <2>3 DEF Suspended, EndsByItsTimer
    <3>1. isSuspended' \in BOOLEAN /\ timers' \in 0..1 /\ suspensions' \in 0..MaxSuspensions
      <4>1. CASE isSuspended
        BY <1>0, <3>0, <4>1 DEF Activate, suspensionVars
      <4>2. CASE ~isSuspended
        BY <1>0, <3>0, <4>2 DEF Activate
      <4> QED  BY <4>1, <4>2
    <3> QED  BY <1>4, <2>1, <2>3, <3>1 DEF Suspended, RestTypeOK
  <2> QED  BY <2>2, <2>3
<1>5. CASE Release
  <2>1. Loop(deferredRequests) \in LoopType
    BY DEF Loop, RestTypeOK
  <2>2. Append(loops, Loop(deferredRequests)) \in Seq(LoopType)
    BY <2>1, AppendedElements DEF RestTypeOK
  <2>3. timers' \in 0..1 /\ isSuspended' \in BOOLEAN
    <3>1. timers > 0 /\ timers' = timers - 1 /\ isSuspended' = FALSE
      BY <1>5 DEF Release
    <3>2. timers' \in 0..1
      BY <1>0, <3>1
    <3>3. isSuspended' \in BOOLEAN
      BY <3>1, Zenon
    <3> QED  BY <3>2, <3>3
  <2>4. deferredRequests' \in Seq(Calls)
    BY <1>5, EmptySeq DEF Release
  <2> QED  BY <1>5, <2>2, <2>3, <2>4 DEF Release, RestTypeOK
<1>6. ASSUME NEW i \in 1..Len(loops), Continue(i) PROVE RestTypeOK'
  <2>0. loops \in Seq(LoopType) /\ loops[i] \in LoopType
    BY ElementOfSeq DEF RestTypeOK
  <2>1. CASE loops[i].rest = <<>>
    <3>1. RemoveAt(loops, i) \in Seq(LoopType)
      BY <2>0, RemoveAtProperties
    <3> QED  BY <1>6, <2>1, <3>1 DEF Continue, RestTypeOK, suspensionVars
  <2>2. CASE loops[i].rest # <<>>
    <3>1. Head(loops[i].rest) \in Calls /\ Tail(loops[i].rest) \in Seq(Calls)
      BY <2>0, <2>2, HeadTailProperties
    <3> DEFINE next == [awaits |-> Head(loops[i].rest), rest |-> Tail(loops[i].rest)]
    <3>2. [loops EXCEPT ![i] = next] \in Seq(LoopType)
      BY <2>0, <3>1, ExceptSeq
    <3>3. loops' = [loops EXCEPT ![i] = next]
      BY <1>6, <2>2 DEF Continue
    <3> QED
      BY <1>1, <1>6, <2>2, <3>1, <3>2, <3>3, "resent" \in Sent DEF Continue, RestTypeOK, Sent
  <2> QED  BY <2>1, <2>2
<1>7. CASE UNCHANGED restVars
  BY <1>7 DEF restVars, suspensionVars, RestTypeOK
<1> QED  BY <1>2, <1>3, <1>4, <1>5, <1>6, <1>7 DEF RestStep

\* No request is twice in the list or in one loop, or in two of them, and those in
\* one of them are the deferred ones
OneList ==
    /\ Distinct(deferredRequests)
    /\ \A i \in 1..Len(loops) : Distinct(loops[i].rest)
    /\ \A i, j \in 1..Len(loops) : \A c \in Calls : InLoop(c, i) /\ InLoop(c, j) => i = j
    /\ \A i \in 1..Len(loops) : \A c \in Calls :
          InLoop(c, i) => ~Contains(deferredRequests, c)
    /\ \A c \in Calls : call[c] = "deferred" <=>
          \/ Contains(deferredRequests, c)
          \/ \E i \in 1..Len(loops) : InLoop(c, i)

DeferredInv == RestTypeOK /\ EndsByItsTimer /\ OneList

LEMMA InLoopIsContains ==
  /\ \A x, k : InLoop(x, k) <=> Contains(loops[k].rest, x)
  /\ \A x, k : InLoop(x, k)' <=> Contains(loops'[k].rest, x)
BY DEF InLoop, Contains

LEMMA AppendedOnce ==
  ASSUME RestTypeOK, OneList, NEW c \in Calls, call[c] # "deferred", UNCHANGED loops,
         deferredRequests' = Append(deferredRequests, c),
         call' = [call EXCEPT ![c] = "deferred"]
  PROVE  OneList'
<1>0. deferredRequests \in Seq(Calls) /\ c \in DOMAIN call /\ DOMAIN call = Calls
  BY DEF RestTypeOK
<1>1. ~Contains(deferredRequests, c) /\ \A i \in 1..Len(loops) : ~InLoop(c, i)
  BY DEF OneList
<1>2. Distinct(deferredRequests)
  BY DEF OneList
<1>3. /\ Distinct(deferredRequests')
      /\ \A x : Contains(deferredRequests', x) <=> Contains(deferredRequests, x) \/ x = c
  BY <1>0, <1>1, <1>2, DistinctAppend
<1>4. \A x \in Calls : call'[x] = IF x = c THEN "deferred" ELSE call[x]
  BY <1>0
<1>5. \A x, i : InLoop(x, i)' <=> InLoop(x, i)
  BY DEF InLoop
<1> QED  BY <1>1, <1>3, <1>4, <1>5 DEF OneList

LEMMA OtherOutcome ==
  ASSUME RestTypeOK, OneList, NEW c \in Calls, call[c] # "deferred", NEW new, new # "deferred",
         UNCHANGED <<loops, deferredRequests>>, call' = [call EXCEPT ![c] = new]
  PROVE  OneList'
<1>1. \A x \in Calls : call'[x] = IF x = c THEN new ELSE call[x]
  BY DEF RestTypeOK
<1>2. \A x, i : InLoop(x, i)' <=> InLoop(x, i)
  BY DEF InLoop
<1> QED  BY <1>1, <1>2 DEF OneList

LEMMA LoopEnds ==
  ASSUME RestTypeOK, OneList, NEW i \in 1..Len(loops), loops[i].rest = <<>>,
         loops' = RemoveAt(loops, i), UNCHANGED <<deferredRequests, call>>
  PROVE  OneList'
<1> DEFINE old(k) == IF k < i THEN k ELSE k + 1
           new(k) == IF k < i THEN k ELSE k - 1
<1>1. /\ Len(loops) \in Nat /\ Len(loops') = Len(loops) - 1
      /\ \A k \in 1..Len(loops)-1 : loops'[k] = IF k < i THEN loops[k] ELSE loops[k + 1]
  BY LenProperties, RemoveAtProperties DEF RestTypeOK
<1>2. \A k \in 1..Len(loops') : old(k) \in 1..Len(loops) /\ loops'[k] = loops[old(k)]
  BY <1>1
<1>3. \A k, l \in 1..Len(loops') : old(k) = old(l) => k = l
  BY <1>1
<1>4. \A k \in 1..Len(loops) : k # i => new(k) \in 1..Len(loops') /\ old(new(k)) = k
  BY <1>1
<1> HIDE DEF old, new
<1>5. \A k \in 1..Len(loops') : \A x : InLoop(x, k)' <=> InLoop(x, old(k))
  BY <1>2 DEF InLoop
<1>6. \A x : ~InLoop(x, i)
  BY DistinctEmpty DEF InLoop, Contains
<1>7. \A x : (\E k \in 1..Len(loops) : InLoop(x, k)) <=>
             (\E k \in 1..Len(loops') : InLoop(x, k)')
  BY <1>2, <1>4, <1>5, <1>6
<1> QED  BY <1>2, <1>3, <1>5, <1>7 DEF OneList

LEMMA LoopSends ==
  ASSUME RestTypeOK, OneList, NEW i \in 1..Len(loops), loops[i].rest # <<>>,
         loops' = [loops EXCEPT ![i] = [awaits |-> Head(@.rest), rest |-> Tail(@.rest)]],
         Requested(Head(loops[i].rest), "resent")
  PROVE  OneList'
<1> DEFINE LoopType == [awaits : Calls \union {NoCall}, rest : Seq(Calls)]
           c == Head(loops[i].rest)
           next == [awaits |-> c, rest |-> Tail(loops[i].rest)]
<1>1. loops \in Seq(LoopType) /\ loops[i] \in LoopType /\ deferredRequests \in Seq(Calls)
  BY ElementOfSeq DEF RestTypeOK
<1>2. loops[i].rest \in Seq(Calls) /\ Distinct(loops[i].rest)
  BY <1>1 DEF OneList
<1>3. /\ Distinct(next.rest) /\ c \in Calls /\ next.rest \in Seq(Calls)
      /\ InLoop(c, i)
      /\ \A x : Contains(next.rest, x) <=> InLoop(x, i) /\ x # c
  BY <1>2, DistinctTail DEF InLoop, Contains
<1>4. loops' = [loops EXCEPT ![i] = next] /\ next \in LoopType
  BY <1>3
<1>5. /\ Len(loops') = Len(loops)
      /\ \A j \in 1..Len(loops) : loops'[j] = IF j = i THEN next ELSE loops[j]
  BY <1>1, <1>4, ExceptSeq
<1>6. \A j \in 1..Len(loops) : \A x : InLoop(x, j)' <=> InLoop(x, j) /\ ~(j = i /\ x = c)
  BY <1>3, <1>5, InLoopIsContains
<1>7. \A j \in 1..Len(loops) : Distinct(loops'[j].rest)
  BY <1>3, <1>5 DEF OneList
<1>8. Requested(c, "resent") /\ ~Contains(deferredRequests, c) /\ call[c] = "deferred"
  BY <1>3 DEF OneList
<1> HIDE DEF c, next
<1>9. CASE isSuspended
  <2>1. deferredRequests' = Append(deferredRequests, c)
    BY <1>8, <1>9 DEF Requested
  <2>2. Distinct(deferredRequests)
    BY DEF OneList
  <2>3. /\ Distinct(deferredRequests')
        /\ \A x : Contains(deferredRequests', x) <=> Contains(deferredRequests, x) \/ x = c
    BY <1>1, <1>3, <1>8, <2>1, <2>2, DistinctAppend
  <2>4. \A x \in Calls : call'[x] = call[x]
    BY <1>8, <1>9 DEF Requested, RestTypeOK
  <2> QED  BY <1>3, <1>5, <1>6, <1>7, <1>8, <2>3, <2>4 DEF OneList
<1>10. CASE ~isSuspended
  <2>1. deferredRequests' = deferredRequests
    BY <1>8, <1>10 DEF Requested
  <2>2. \A x \in Calls : call'[x] = IF x = c THEN "resent" ELSE call[x]
    BY <1>8, <1>10 DEF Requested, RestTypeOK
  <2> QED  BY <1>3, <1>5, <1>6, <1>7, <1>8, <2>1, <2>2 DEF OneList
<1> QED  BY <1>9, <1>10

LEMMA TimerReleases ==
  ASSUME RestTypeOK, OneList, loops' = Append(loops, Loop(deferredRequests)),
         deferredRequests' = <<>>, UNCHANGED call
  PROVE  OneList'
<1> DEFINE LoopType == [awaits : Calls \union {NoCall}, rest : Seq(Calls)]
<1>1. loops \in Seq(LoopType) /\ Loop(deferredRequests) \in LoopType /\ Len(loops) \in Nat
  BY LenProperties DEF RestTypeOK, Loop
<1> PICK n \in Nat : n = Len(loops) + 1
  BY <1>1
<1>2. /\ Len(loops') = n
      /\ \A k \in 1..n : loops'[k] = IF k <= Len(loops) THEN loops[k] ELSE Loop(deferredRequests)
  BY <1>1, AppendedElements
<1>3. 1..n = 1..Len(loops) \union {n} /\ n \notin 1..Len(loops) /\ ~(n <= Len(loops)) /\ n \in 1..n
  BY <1>1
<1>4. \A k \in 1..Len(loops) : k \in 1..n /\ k <= Len(loops)
  BY <1>1
<1>5. loops'[n].rest = deferredRequests /\ \A k \in 1..Len(loops) : loops'[k] = loops[k]
  BY <1>2, <1>3, <1>4 DEF Loop
<1>6. \A x : /\ InLoop(x, n)' <=> Contains(deferredRequests, x)
             /\ \A k \in 1..Len(loops) : InLoop(x, k)' <=> InLoop(x, k)
  BY <1>5, InLoopIsContains
<1>7. Distinct(deferredRequests') /\ \A x : ~Contains(deferredRequests', x)
  BY DistinctEmpty
<1>8. \A k \in 1..Len(loops') : Distinct(loops'[k].rest)
  BY <1>2, <1>3, <1>5 DEF OneList
<1>9. \A k, l \in 1..Len(loops') : \A c \in Calls : InLoop(c, k)' /\ InLoop(c, l)' => k = l
  BY <1>2, <1>3, <1>6 DEF OneList
<1>10. \A c \in Calls : call[c] = "deferred" <=> \E k \in 1..Len(loops') : InLoop(c, k)'
  BY <1>2, <1>3, <1>6 DEF OneList
<1> QED  BY <1>7, <1>8, <1>9, <1>10 DEF OneList

LEMMA OneListStep == DeferredInv /\ [RestStep]_restVars => OneList'
<1> SUFFICES ASSUME RestTypeOK, OneList, [RestStep]_restVars PROVE OneList'
  BY DEF DeferredInv
<1>1. ASSUME NEW c \in Calls, Request(c) PROVE OneList'
  <2>1. CASE isSuspended
    BY <1>1, <2>1, AppendedOnce DEF Request, Requested
  <2>2. CASE ~isSuspended
    BY <1>1, <2>2, OtherOutcome DEF Request, Requested
  <2> QED  BY <2>1, <2>2
<1>2. ASSUME NEW c \in Calls, NEW o \in Settled, Answer(c, o) PROVE OneList'
  BY <1>2, OtherOutcome DEF Answer, Sent, Settled
<1>3. ASSUME NEW c \in Calls, Suspended(c) PROVE OneList'
  <2>1. CASE c \in Throwing
    BY <1>3, <2>1, OtherOutcome DEF Suspended, Sent
  <2>2. CASE c \notin Throwing
    BY <1>3, <2>2, AppendedOnce DEF Suspended, Sent
  <2> QED  BY <2>1, <2>2
<1>4. CASE Release
  BY <1>4, TimerReleases DEF Release
<1>5. ASSUME NEW i \in 1..Len(loops), Continue(i) PROVE OneList'
  <2>1. CASE loops[i].rest = <<>>
    BY <1>5, <2>1, LoopEnds DEF Continue
  <2>2. CASE loops[i].rest # <<>>
    BY <1>5, <2>2, LoopSends DEF Continue
  <2> QED  BY <2>1, <2>2
<1>6. CASE UNCHANGED restVars
  BY <1>6 DEF restVars, OneList, InLoop
<1> QED  BY <1>1, <1>2, <1>3, <1>4, <1>5, <1>6 DEF RestStep

LEMMA InitialRest == RestInit => RestTypeOK /\ EndsByItsTimer
<1>1. <<>> \in Seq(Calls) /\ <<>> \in Seq([awaits : Calls \union {NoCall}, rest : Seq(Calls)])
  BY EmptySeq
<1>2. [c \in Calls |-> "new"] \in [Calls -> {"new", "deferred"} \union Sent \union Settled]
  OBVIOUS
<1>3. 0 \in 0..1 /\ 0 \in 0..MaxSuspensions
  BY RestAssumption
<1> QED  BY <1>1, <1>2, <1>3 DEF RestInit, RestTypeOK, EndsByItsTimer

LEMMA DeferredInvAlways == UpdatesSpec => []DeferredInv
<1>1. UpdatesInit => DeferredInv
  <2> SUFFICES ASSUME RestInit PROVE DeferredInv
    BY DEF UpdatesInit
  <2>1. Len(loops) = 0 /\ 1..0 = {}
    BY EmptySeq DEF RestInit
  <2>2. OneList
    BY <2>1, DistinctEmpty DEF RestInit, OneList
  <2> QED  BY <2>2, InitialRest DEF DeferredInv
<1>2. DeferredInv /\ [UpdatesNext]_allVars => DeferredInv'
  BY RestSteps, TimerStep, RestTypeStep, OneListStep DEF DeferredInv
<1> QED  BY <1>1, <1>2, PTL DEF UpdatesSpec

\* Whatever is requested, answered and suspended: a deferred request waits in one list
\* or one loop, no other request does, and so none is lost or sent twice.
THEOREM DeferredOnceAlways == UpdatesSpec => []DeferredOnce
<1>1. ASSUME DeferredInv PROVE DeferredOnce
  <2> SUFFICES ASSUME NEW c \in Calls
               PROVE  Waiting(c) + Cardinality({i \in 1..Len(loops) : InLoop(c, i)})
                        = IF call[c] = "deferred" THEN 1 ELSE 0
    BY DEF DeferredOnce
  <2> DEFINE in == {i \in 1..Len(loops) : InLoop(c, i)}
  <2>1. OneList
    BY <1>1 DEF DeferredInv
  <2>2. Waiting(c) = IF Contains(deferredRequests, c) THEN 1 ELSE 0
    BY DEF Waiting, Contains
  <2>3. CASE in = {}
    <3>1. Cardinality(in) = 0 /\ (call[c] = "deferred" <=> Contains(deferredRequests, c))
      BY <2>1, <2>3, FS_EmptySet DEF OneList
    <3> QED  BY <2>2, <3>1
  <2>4. ASSUME NEW i \in in PROVE Waiting(c) + Cardinality(in) = IF call[c] = "deferred" THEN 1 ELSE 0
    <3>1. in = {i}
      BY <2>1, <2>4 DEF OneList
    <3>2. Cardinality(in) = 1
      BY <3>1, FS_Singleton
    <3>3. ~Contains(deferredRequests, c) /\ call[c] = "deferred"
      BY <2>1, <2>4 DEF OneList
    <3> QED  BY <2>2, <3>2, <3>3
  <2> QED  BY <2>3, <2>4
<1> QED  BY <1>1, DeferredInvAlways, PTL

\* What a loop has sent, a loop waits for
Awaited ==
    \A c \in Calls : call[c] = "resent" => \E i \in 1..Len(loops) : loops[i].awaits = c

LEMMA AwaitedStep == RestTypeOK /\ Awaited /\ [RestStep]_restVars => Awaited'
<1> SUFFICES ASSUME RestTypeOK, Awaited, [RestStep]_restVars PROVE Awaited'
  OBVIOUS
<1> DEFINE LoopType == [awaits : Calls \union {NoCall}, rest : Seq(Calls)]
<1>0. /\ loops \in Seq(LoopType) /\ Len(loops) \in Nat
      /\ call \in [Calls -> {"new", "deferred"} \union Sent \union Settled]
  BY LenProperties DEF RestTypeOK
<1>1. ASSUME NEW c \in Calls, NEW new, new # "resent", UNCHANGED loops,
             call' = [call EXCEPT ![c] = new]
      PROVE  Awaited'
  BY <1>0, <1>1 DEF Awaited
<1>2. ASSUME NEW c \in Calls, Request(c) PROVE Awaited'
  BY <1>1, <1>2 DEF Request, Requested
<1>3. ASSUME NEW c \in Calls, NEW o \in Settled, Answer(c, o) PROVE Awaited'
  BY <1>1, <1>3 DEF Answer, Settled
<1>4. ASSUME NEW c \in Calls, Suspended(c) PROVE Awaited'
  BY <1>1, <1>4 DEF Suspended
<1>5. CASE Release
  <2>1. Loop(deferredRequests) \in LoopType /\ loops' = Append(loops, Loop(deferredRequests))
    BY <1>5 DEF Release, Loop, RestTypeOK
  <2>2. \A i \in 1..Len(loops) : i \in 1..Len(loops') /\ loops'[i] = loops[i]
    BY <1>0, <2>1, AppendedElements
  <2> QED  BY <1>5, <2>2 DEF Release, Awaited
<1>6. ASSUME NEW i \in 1..Len(loops), Continue(i) PROVE Awaited'
  <2>1. \A c \in Calls : call[c] = "resent" => loops[i].awaits # c
    BY <1>6, RestAssumption DEF Continue, CanContinue, Settled
  <2>2. CASE loops[i].rest = <<>>
    <3>1. loops' = RemoveAt(loops, i) /\ call' = call
      BY <1>6, <2>2 DEF Continue
    <3>2. /\ Len(loops') = Len(loops) - 1
          /\ \A k \in 1..Len(loops)-1 : loops'[k] = IF k < i THEN loops[k] ELSE loops[k + 1]
      BY <1>0, <3>1, RemoveAtProperties
    <3>3. ASSUME NEW k \in 1..Len(loops), k # i
          PROVE  \E l \in 1..Len(loops') : loops'[l] = loops[k]
      <4>1. CASE k < i
        <5>1. k \in 1..Len(loops') /\ k \in 1..Len(loops)-1
          BY <1>0, <3>2, <4>1
        <5> QED  BY <3>2, <4>1, <5>1
      <4>2. CASE k > i
        <5>1. k - 1 \in 1..Len(loops') /\ ~(k - 1 < i) /\ (k - 1) + 1 = k
          BY <1>0, <3>2, <4>2
        <5> QED  BY <3>2, <5>1
      <4> QED  BY <3>3, <4>1, <4>2
    <3>4. ASSUME NEW c \in Calls, call[c] = "resent"
          PROVE  \E l \in 1..Len(loops') : loops'[l].awaits = c
      <4>1. PICK k \in 1..Len(loops) : loops[k].awaits = c
        BY <3>4 DEF Awaited
      <4> QED  BY <2>1, <3>3, <3>4, <4>1
    <3> QED  BY <3>1, <3>4 DEF Awaited
  <2>3. CASE loops[i].rest # <<>>
    <3> DEFINE c == Head(loops[i].rest)
               next == [awaits |-> c, rest |-> Tail(loops[i].rest)]
    <3>1. loops[i] \in LoopType
      BY <1>0, ElementOfSeq
    <3>2. c \in Calls /\ next \in LoopType
      BY <2>3, <3>1, HeadTailProperties
    <3>3. loops' = [loops EXCEPT ![i] = next] /\ Requested(c, "resent")
      BY <1>6, <2>3 DEF Continue
    <3>4. /\ Len(loops') = Len(loops)
          /\ \A j \in 1..Len(loops) : loops'[j] = IF j = i THEN next ELSE loops[j]
      BY <1>0, <3>2, <3>3, ExceptSeq
    <3>5. \A x \in Calls : call'[x] = "resent" => x = c \/ call[x] = "resent"
      BY <1>0, <3>2, <3>3 DEF Requested
    <3>6. loops'[i].awaits = c /\ i \in 1..Len(loops')
      BY <3>4
    <3> HIDE DEF c, next
    <3> QED  BY <2>1, <3>4, <3>5, <3>6 DEF Awaited
  <2> QED  BY <2>2, <2>3
<1>7. CASE UNCHANGED restVars
  BY <1>7 DEF restVars, Awaited
<1> QED  BY <1>2, <1>3, <1>4, <1>5, <1>6, <1>7 DEF RestStep

\* However many requests were deferred: at most one request of each loop is under way.
THEOREM NoBurstAlways == UpdatesSpec => []NoBurst
<1>1. UpdatesInit => Awaited
  BY DEF UpdatesInit, RestInit, Awaited
<1>2. DeferredInv /\ Awaited /\ [UpdatesNext]_allVars => Awaited'
  BY RestSteps, AwaitedStep DEF DeferredInv
<1>3. ASSUME DeferredInv, Awaited PROVE NoBurst
  <2> DEFINE resent == {c \in Calls : call[c] = "resent"}
             waiting == {i \in 1..Len(loops) : loops[i].awaits \in resent}
             f == [i \in waiting |-> loops[i].awaits]
  <2>1. Len(loops) \in Nat
    BY <1>3, LenProperties DEF DeferredInv, RestTypeOK
  <2>2. /\ IsFiniteSet(1..Len(loops)) /\ Cardinality(1..Len(loops)) = Len(loops)
    BY <2>1, FS_Interval
  <2>3. /\ IsFiniteSet(waiting) /\ Cardinality(waiting) <= Len(loops)
    BY <2>2, FS_Subset
  <2>4. f \in Surjection(waiting, resent)
    BY <1>3 DEF Awaited, Surjection
  <2>5. IsFiniteSet(resent) /\ Cardinality(resent) <= Cardinality(waiting)
    BY <2>3, <2>4, FS_Surjection
  <2>6. Cardinality(resent) \in Nat /\ Cardinality(waiting) \in Nat
    BY <2>3, <2>5, FS_CardinalityType
  <2> QED  BY <2>1, <2>3, <2>5, <2>6 DEF NoBurst
<1> QED  BY <1>1, <1>2, <1>3, DeferredInvAlways, PTL DEF UpdatesSpec

-----------------------------------------------------------------------------
(* The updates                                                              *)

\* No update is twice in the queue or in one post, or in two of them, and those in
\* one of them are the accepted ones
OneBatch ==
    /\ Distinct(queue)
    /\ \A p \in Posts : Distinct(batch[p])
    /\ \A p \in Posts : call[p] \in {"new"} \union Settled => batch[p] = <<>>
    /\ \A p, q \in Posts : \A u \in Updates :
          Contains(batch[p], u) /\ Contains(batch[q], u) => p = q
    /\ \A p \in Posts : \A u \in Updates : Contains(batch[p], u) => ~Contains(queue, u)
    /\ \A u \in Updates : update[u] = "accepted" <=>
          \/ Contains(queue, u)
          \/ \E p \in Posts : Contains(batch[p], u)

LEMMA UpdateTypeStep ==
  UpdatesTypeOK /\ EndsByItsTimer /\ [UpdatesNext]_allVars => UpdatesTypeOK'
<1> SUFFICES ASSUME UpdatesTypeOK, EndsByItsTimer, [UpdatesNext]_allVars PROVE UpdatesTypeOK'
  OBVIOUS
<1> USE UpdatesAssumption
<1> DEFINE Typed ==
             /\ update \in [Updates -> {"new", "accepted", "stored", "dropped"}]
             /\ queue \in Seq(Updates)
             /\ debounced \in BOOLEAN
             /\ batch \in [Posts -> Seq(Updates)]
             /\ locked \in 0..MaxLocked
<1>1. RestTypeOK /\ RestTypeOK' /\ Typed
  BY RestSteps, RestTypeStep DEF UpdatesTypeOK
<1>2. CASE UNCHANGED updateVars
  BY <1>1, <1>2 DEF updateVars, UpdatesTypeOK
<1>3. ASSUME NEW u \in Updates, NEW wanted \in BOOLEAN, UpdateInstanceSessionKeys(u, wanted)
      PROVE  Typed'
  <2>1. Append(queue, u) \in Seq(Updates)
    BY <1>1, AppendedElements
  <2>2. CASE wanted
    BY <1>1, <1>3, <2>1, <2>2 DEF UpdateInstanceSessionKeys
  <2>3. CASE ~wanted
    BY <1>1, <1>3, <2>3 DEF UpdateInstanceSessionKeys
  <2> QED  BY <2>2, <2>3
<1>4. ASSUME NEW p \in Posts, SendUpdateRequest(p) PROVE Typed'
  <2>1. <<>> \in Seq(Updates) /\ FALSE \in BOOLEAN
    BY EmptySeq
  <2>2. queue' \in Seq(Updates) /\ debounced' \in BOOLEAN
    BY <1>4, <2>1, Zenon DEF SendUpdateRequest
  <2> QED  BY <1>1, <1>4, <2>2 DEF SendUpdateRequest
<1>5. ASSUME NEW p \in Posts, NEW o \in Settled, PostAnswered(p, o) PROVE Typed'
  <2>1. batch[p] \in Seq(Updates) /\ <<>> \in Seq(Updates)
    BY <1>1, EmptySeq
  <2>2. queue \o batch[p] \in Seq(Updates)
    BY <1>1, <2>1, ConcatProperties
  <2>3. batch' \in [Posts -> Seq(Updates)]
    BY <1>1, <1>5, <2>1 DEF PostAnswered
  <2>4. CASE Retry(p)
    <3>1. locked' \in 0..MaxLocked
      BY <1>1, <2>4 DEF Retry
    <3>2. queue' \in Seq(Updates) /\ update' = update
      BY <2>2, <2>4 DEF Retry
    <3>3. debounced' \in BOOLEAN
      BY <2>4, Zenon DEF Retry
    <3> QED  BY <1>1, <2>3, <3>1, <3>2, <3>3
  <2>5. ASSUME NEW as \in {"stored", "dropped"}, Finish(p, as) PROVE Typed'
    BY <1>1, <2>3, <2>5 DEF Finish
  <2> QED  BY <1>5, <2>4, <2>5 DEF PostAnswered, Settled
<1>6. CASE UpdatesNext
  BY <1>1, <1>2, <1>3, <1>4, <1>5, <1>6 DEF UpdatesNext, OtherCall, Rest, UpdatesTypeOK
<1> QED  BY <1>2, <1>6 DEF allVars

LEMMA OtherSteps ==
  ASSUME UpdatesTypeOK, OneBatch, UNCHANGED updateVars,
         \A p \in Posts : call'[p] \in {"new"} \union Settled => call[p] \in {"new"} \union Settled
  PROVE  OneBatch'
BY DEF OneBatch, updateVars

LEMMA OneBatchStep == UpdatesTypeOK /\ OneBatch /\ [UpdatesNext]_allVars => OneBatch'
<1> SUFFICES ASSUME UpdatesTypeOK, OneBatch, [UpdatesNext]_allVars PROVE OneBatch'
  OBVIOUS
<1> USE UpdatesAssumption
<1>0. /\ call \in [Calls -> {"new", "deferred"} \union Sent \union Settled]
      /\ update \in [Updates -> {"new", "accepted", "stored", "dropped"}]
      /\ queue \in Seq(Updates)
      /\ batch \in [Posts -> Seq(Updates)]
      /\ Distinct(queue)
  BY DEF UpdatesTypeOK, RestTypeOK, OneBatch
<1>1. ASSUME NEW u \in Updates, NEW wanted \in BOOLEAN, UpdateInstanceSessionKeys(u, wanted)
      PROVE  OneBatch'
  <2>1. UNCHANGED <<batch, call>> /\ update[u] = "new"
    BY <1>1 DEF UpdateInstanceSessionKeys, restVars
  <2>2. ~Contains(queue, u) /\ \A p \in Posts : ~Contains(batch[p], u)
    BY <2>1 DEF OneBatch
  <2>3. CASE wanted
    <3>1. queue' = Append(queue, u)
      BY <1>1, <2>3 DEF UpdateInstanceSessionKeys
    <3>2. /\ Distinct(queue')
          /\ \A x : Contains(queue', x) <=> Contains(queue, x) \/ x = u
      BY <1>0, <2>2, <3>1, DistinctAppend
    <3>3. \A x \in Updates : update'[x] = IF x = u THEN "accepted" ELSE update[x]
      BY <1>0, <1>1, <2>3 DEF UpdateInstanceSessionKeys
    <3> QED  BY <2>1, <2>2, <3>2, <3>3 DEF OneBatch
  <2>4. CASE ~wanted
    <3>1. queue' = queue /\ \A x \in Updates : update'[x] = IF x = u THEN "dropped" ELSE update[x]
      BY <1>0, <1>1, <2>4 DEF UpdateInstanceSessionKeys
    <3> QED  BY <2>1, <2>2, <3>1 DEF OneBatch
  <2> QED  BY <2>3, <2>4
<1>2. ASSUME NEW p \in Posts, SendUpdateRequest(p) PROVE OneBatch'
  <2>1. /\ queue' = <<>> /\ update' = update
        /\ \A q \in Posts : batch'[q] = IF q = p THEN queue ELSE batch[q]
    BY <1>0, <1>2 DEF SendUpdateRequest
  <2>2. /\ call[p] = "new"
        /\ call'[p] \in {"deferred", "sent"}
        /\ \A q \in Posts : q # p => call'[q] = call[q]
    BY <1>0, <1>2 DEF SendUpdateRequest, Request, Requested
  <2>3. batch[p] = <<>> /\ \A x : ~Contains(batch[p], x)
    BY <2>2, DistinctEmpty DEF OneBatch
  <2>4. Distinct(queue') /\ \A x : ~Contains(queue', x)
    BY <2>1, DistinctEmpty
  <2>5. call'[p] \notin {"new"} \union Settled
    BY <2>2 DEF Settled
  <2>6. \A q \in Posts : \A x : Contains(batch'[q], x) <=>
           IF q = p THEN Contains(queue, x) ELSE Contains(batch[q], x)
    BY <2>1
  <2>7. \A q \in Posts : Distinct(batch'[q])
    BY <1>0, <2>1 DEF OneBatch
  <2>8. \A q \in Posts : call'[q] \in {"new"} \union Settled => batch'[q] = <<>>
    BY <2>1, <2>2, <2>5 DEF OneBatch
  <2>9. \A q, r \in Posts : \A x \in Updates :
           Contains(batch'[q], x) /\ Contains(batch'[r], x) => q = r
    BY <2>6 DEF OneBatch
  <2>10. \A x \in Updates : update'[x] = "accepted" <=> \E q \in Posts : Contains(batch'[q], x)
    BY <2>1, <2>3, <2>6 DEF OneBatch
  <2> QED  BY <2>4, <2>7, <2>8, <2>9, <2>10 DEF OneBatch
<1>3. ASSUME NEW p \in Posts, NEW o \in Settled, PostAnswered(p, o) PROVE OneBatch'
  <2>1. /\ \A q \in Posts : batch'[q] = IF q = p THEN <<>> ELSE batch[q]
        /\ \A q \in Posts : q # p => call'[q] = call[q]
    BY <1>0, <1>3 DEF PostAnswered, Answer
  <2>2. Distinct(<<>>) /\ \A x : ~Contains(<<>>, x)
    BY DistinctEmpty
  <2>3. \A q \in Posts : \A x : Contains(batch'[q], x) <=> q # p /\ Contains(batch[q], x)
    BY <2>1, <2>2
  <2>4. \A q \in Posts : Distinct(batch'[q])
    BY <2>1, <2>2 DEF OneBatch
  <2>5. \A q \in Posts : call'[q] \in {"new"} \union Settled => batch'[q] = <<>>
    BY <2>1 DEF OneBatch
  <2>6. \A q, r \in Posts : \A x \in Updates :
           Contains(batch'[q], x) /\ Contains(batch'[r], x) => q = r
    BY <2>3 DEF OneBatch
  <2>7. CASE Retry(p)
    <3>1. batch[p] \in Seq(Updates) /\ Distinct(batch[p])
      BY <1>0 DEF OneBatch
    <3>2. \A x \in Updates : ~(Contains(queue, x) /\ Contains(batch[p], x))
      BY DEF OneBatch
    <3>3. queue' = queue \o batch[p] /\ update' = update
      BY <2>7 DEF Retry
    <3>4. /\ Distinct(queue')
          /\ \A x : Contains(queue', x) <=> Contains(queue, x) \/ Contains(batch[p], x)
      BY <1>0, <3>1, <3>2, <3>3, DistinctConcat
    <3>5. \A q \in Posts : \A x \in Updates : Contains(batch'[q], x) => ~Contains(queue', x)
      BY <2>3, <3>4 DEF OneBatch
    <3>6. \A x \in Updates : update'[x] = "accepted" <=>
              Contains(queue', x) \/ \E q \in Posts : Contains(batch'[q], x)
      BY <2>3, <3>3, <3>4 DEF OneBatch
    <3> QED  BY <2>4, <2>5, <2>6, <3>4, <3>5, <3>6 DEF OneBatch
  <2>8. ASSUME NEW as \in {"stored", "dropped"}, Finish(p, as) PROVE OneBatch'
    <3>1. /\ queue' = queue
          /\ \A x \in Updates : update'[x] = IF Contains(batch[p], x) THEN as ELSE update[x]
      BY <2>8 DEF Finish
    <3>2. as # "accepted"
      OBVIOUS
    <3>3. \A q \in Posts : \A x \in Updates : Contains(batch'[q], x) => ~Contains(queue', x)
      BY <2>3, <3>1 DEF OneBatch
    <3>4. \A x \in Updates : update'[x] = "accepted" <=>
              Contains(queue', x) \/ \E q \in Posts : Contains(batch'[q], x)
      <4> SUFFICES ASSUME NEW x \in Updates
                   PROVE  update'[x] = "accepted" <=>
                            Contains(queue', x) \/ \E q \in Posts : Contains(batch'[q], x)
        OBVIOUS
      <4>1. CASE Contains(batch[p], x)
        <5>1. ~Contains(queue, x) /\ \A q \in Posts : Contains(batch[q], x) => q = p
          BY <4>1 DEF OneBatch
        <5> QED  BY <2>3, <3>1, <3>2, <4>1, <5>1
      <4>2. CASE ~Contains(batch[p], x)
        <5>1. update'[x] = update[x] /\ \A q \in Posts : Contains(batch'[q], x) <=> Contains(batch[q], x)
          BY <2>3, <3>1, <4>2
        <5> QED  BY <3>1, <5>1 DEF OneBatch
      <4> QED  BY <4>1, <4>2
    <3> QED  BY <1>0, <2>4, <2>5, <2>6, <3>1, <3>3, <3>4 DEF OneBatch
  <2> QED  BY <1>3, <2>7, <2>8 DEF PostAnswered, Settled
<1>4. ASSUME NEW c \in Calls \ Posts, OtherCall(c) PROVE OneBatch'
  <2>1. \A p \in Posts : call'[p] = call[p]
    BY <1>0, <1>4 DEF OtherCall, Request, Requested, Answer
  <2> QED  BY <1>4, <2>1, OtherSteps DEF OtherCall
<1>5. CASE Rest
  <2>1. ASSUME NEW p \in Posts, call'[p] \in {"new"} \union Settled
        PROVE  call[p] \in {"new"} \union Settled
    <3>1. CASE Release
      BY <2>1, <3>1 DEF Release
    <3>2. ASSUME NEW c \in Calls, Suspended(c) PROVE call[p] \in {"new"} \union Settled
      BY <1>0, <2>1, <3>2 DEF Suspended, Settled
    <3>3. ASSUME NEW i \in 1..Len(loops), Continue(i) PROVE call[p] \in {"new"} \union Settled
      BY <1>0, <2>1, <3>3 DEF Continue, Requested, Settled
    <3> QED  BY <1>5, <3>1, <3>2, <3>3 DEF Rest, ContinueAny
  <2> QED  BY <1>5, <2>1, OtherSteps DEF Rest
<1>6. CASE UNCHANGED allVars
  BY <1>6, OtherSteps DEF allVars, restVars
<1> QED  BY <1>1, <1>2, <1>3, <1>4, <1>5, <1>6 DEF UpdatesNext

UpdatesInv == UpdatesTypeOK /\ EndsByItsTimer /\ OneBatch

LEMMA UpdatesInvAlways == UpdatesSpec => []UpdatesInv
<1>1. UpdatesInit => UpdatesTypeOK /\ EndsByItsTimer /\ OneBatch
  <2> SUFFICES ASSUME UpdatesInit PROVE UpdatesTypeOK /\ EndsByItsTimer /\ OneBatch
    OBVIOUS
  <2>1. RestTypeOK /\ EndsByItsTimer
    BY InitialRest DEF UpdatesInit
  <2>2. <<>> \in Seq(Updates) /\ 0 \in 0..MaxLocked
    BY UpdatesAssumption, EmptySeq
  <2>3. UpdatesTypeOK
    BY <2>1, <2>2 DEF UpdatesInit, UpdatesTypeOK
  <2>4. \A p \in Posts : batch[p] = <<>>
    BY DEF UpdatesInit
  <2>5. \A u \in Updates : update[u] # "accepted"
    BY DEF UpdatesInit
  <2>6. OneBatch
    BY <2>4, <2>5, DistinctEmpty DEF UpdatesInit, OneBatch
  <2> QED  BY <2>1, <2>3, <2>6
<1>2. UpdatesInv /\ [UpdatesNext]_allVars => UpdatesInv'
  BY RestSteps, TimerStep, UpdateTypeStep, OneBatchStep DEF UpdatesInv
<1> QED  BY <1>1, <1>2, PTL DEF UpdatesSpec, UpdatesInv

\* The client and its queue of updates are type correct for every number of calls and
\* updates.
THEOREM UpdatesTyped == UpdatesSpec => []UpdatesTypeOK
  BY UpdatesInvAlways, PTL DEF UpdatesInv

\* Whatever the server refuses, defers or locks: an accepted update is in the queue or
\* in one post, once, and no other update is.
THEOREM OnePlaceAlways == UpdatesSpec => []OnePlace
<1>1. ASSUME UpdatesInv PROVE OnePlace
  <2> SUFFICES ASSUME NEW u \in Updates
               PROVE  Occurrences(queue, u) + Cardinality({p \in Posts : Contains(batch[p], u)})
                        = IF update[u] = "accepted" THEN 1 ELSE 0
    BY DEF OnePlace
  <2> DEFINE at == {k \in 1..Len(queue) : queue[k] = u}
             in == {p \in Posts : Contains(batch[p], u)}
  <2>1. OneBatch
    BY <1>1 DEF UpdatesInv
  <2>2. Occurrences(queue, u) = Cardinality(at)
    BY DEF Occurrences
  <2>3. Cardinality(at) = IF Contains(queue, u) THEN 1 ELSE 0
    <3>1. CASE at = {}
      BY <3>1, FS_EmptySet DEF Contains
    <3>2. ASSUME NEW k \in at PROVE Cardinality(at) = 1 /\ Contains(queue, u)
      <4>1. at = {k}
        BY <2>1, <3>2 DEF OneBatch, Distinct
      <4>2. Contains(queue, u)
        BY <3>2 DEF Contains
      <4> QED  BY <4>1, <4>2, FS_Singleton
    <3> QED  BY <3>1, <3>2
  <2>4. CASE in = {}
    <3>1. Cardinality(in) = 0 /\ (update[u] = "accepted" <=> Contains(queue, u))
      BY <2>1, <2>4, FS_EmptySet DEF OneBatch
    <3> QED  BY <2>2, <2>3, <3>1
  <2>5. ASSUME NEW p \in in
        PROVE  Occurrences(queue, u) + Cardinality(in) = IF update[u] = "accepted" THEN 1 ELSE 0
    <3>1. in = {p}
      BY <2>1, <2>5 DEF OneBatch
    <3>2. Cardinality(in) = 1
      BY <3>1, FS_Singleton
    <3>3. ~Contains(queue, u) /\ update[u] = "accepted"
      BY <2>1, <2>5 DEF OneBatch
    <3> QED  BY <2>2, <2>3, <3>2, <3>3
  <2> QED  BY <2>4, <2>5
<1> QED  BY <1>1, UpdatesInvAlways, PTL
=============================================================================
