-------------------------- MODULE EventQueue_proofs --------------------------
(***************************************************************************)
(* The queue action runs for one batch at a time, the batch it runs for is *)
(* not touched meanwhile, and no batch leaves the queue unprocessed, for   *)
(* every set of instances, ids, lists and groups and any number of         *)
(* batches, as long as clear() is not called while an action runs.         *)
(***************************************************************************)
EXTENDS EventQueue, FiniteSetTheorems, TLAPS

LEMMA LeastExists ==
    ASSUME NEW T \in SUBSET Nat, T # {}
    PROVE  \E b \in T : \A c \in T : b <= c
<1> DEFINE Below == {1..t : t \in T}
<1>1. Below \subseteq FiniteSubsetsOf(Nat)
  <2>1. \A t \in T : 1..t \in SUBSET Nat /\ IsFiniteSet(1..t)
    BY FS_Interval
  <2> QED  BY <2>1 DEF FiniteSubsetsOf
<1>2. Below # {}
  OBVIOUS
<1>3. PICK B \in Below : \A C \in Below : <<C, B>> \notin StrictSubsetOrdering(Nat)
  <2> HIDE DEF Below
  <2> QED  BY <1>1, <1>2, FS_StrictSubsetOrderingWellFounded, WFMin
<1>4. PICK b \in T : B = 1..b
  OBVIOUS
<1>5. ASSUME NEW c \in T, c < b PROVE FALSE
  <2>1. 1..c \subseteq 1..b /\ b \in 1..b /\ b \notin 1..c
    BY <1>5
  <2>2. <<1..c, B>> \in StrictSubsetOrdering(Nat)
    BY <2>1, <1>4 DEF StrictSubsetOrdering
  <2> QED  BY <2>2, <1>3
<1> QED  BY <1>5
-----------------------------------------------------------------------------
(* What the rules of _optimizingAddEvents produce.                         *)
LEMMA IdsTyped ==
    ASSUME NEW es \in SUBSET Event
    PROVE  Ids(es) \subseteq Id
  BY ConstantsAssumption DEF Ids, Event

LEMMA MergedEventsTyped ==
    ASSUME TypeOK, NEW g, NEW new \in SUBSET Event, NEW X \in SUBSET Id, NEW b \in Batch
    PROVE  MergedEvents(g, new, X, b) \subseteq Event
<1>1. ASSUME NEW x \in X, Merges(g, x) PROVE Rewritten(new, x, b) \subseteq Event
  <2>1. events[b] \subseteq Event /\ LastEvents(x) \subseteq Event
    BY <1>1 DEF TypeOK, Merges, LastEvents, OfId
  <2>2. AfterMove(new, x) \subseteq Event
    BY <2>1 DEF AfterMove, OfOp, OfId
  <2>3. AfterDelete(x, b) \subseteq Event /\ OfId(events[b], x) \subseteq Event
    BY <2>1 DEF AfterDelete, OfId
  <2> QED  BY <2>2, <2>3, Zenon DEF Rewritten
<1>2. events[b] \subseteq Event
  BY DEF TypeOK
<1> QED  BY <1>1, <1>2 DEF MergedEvents

LEMMA MergedLastTyped ==
    ASSUME TypeOK, NEW g, NEW new, NEW X, NEW x \in Id
    PROVE  MergedLast(g, new, X, x) \in Batch \union {NoBatch}
<1>1. CASE Deleting(x) = {}
  BY <1>1 DEF MergedLast, TypeOK
<1>2. CASE Deleting(x) # {}
  <2>1. Deleting(x) \subseteq Batch /\ Deleting(x) \in SUBSET Nat
    <3>1. Deleting(x) \subseteq Batch
      BY DEF Deleting, Waiting, TypeOK
    <3>2. Batch \subseteq Nat
      BY ConstantsAssumption DEF Batch
    <3> QED  BY <3>1, <3>2
  <2>2. \E b \in Batch : IsFirstDeleting(b, x)
    BY <1>2, <2>1, LeastExists DEF IsFirstDeleting
  <2>3. (CHOOSE b \in Batch : IsFirstDeleting(b, x)) \in Batch
    BY <2>2
  <2> QED  BY <2>3 DEF MergedLast, TypeOK
<1> QED  BY <1>1, <1>2

(* The batch that is being processed is left as it is, whatever is merged. *)
LEMMA ProcessingIsNotMerged ==
    ASSUME NEW g, NEW new, NEW X, NEW b \in Batch, b = processing
    PROVE  MergedEvents(g, new, X, b) = events[b]
<1>1. ASSUME NEW x \in X, Merges(g, x) PROVE Rewritten(new, x, b) = OfId(events[b], x)
  <2>1. b # lastOperation[x]
    BY <1>1 DEF Merges
  <2>2. b \notin Waiting /\ ~IsFirstDeleting(b, x)
    BY DEF Waiting, IsFirstDeleting, Deleting
  <2>3. AfterDelete(x, b) = OfId(events[b], x)
    BY <2>2 DEF AfterDelete
  <2> QED  BY <2>1, <2>3 DEF Rewritten
<1> QED  BY <1>1 DEF MergedEvents, OfId
-----------------------------------------------------------------------------
LEMMA StartNextTyped ==
    ASSUME NEW q \in SUBSET Batch, NEW p, NEW cur \in Batch \union {NoBatch},
           NEW run \in [Batch -> Nat], StartNext(q, p, cur, run)
    PROVE  processing' \in Batch \union {NoBatch} /\ running' \in [Batch -> Nat]
<1>1. CASE processing' = cur /\ running' = run
  BY <1>1
<1>2. ASSUME NEW b \in q, processing' = b, running' = [run EXCEPT ![b] = @ + 1]
      PROVE  processing' \in Batch /\ running' \in [Batch -> Nat]
  BY <1>2
<1> QED  BY <1>1, <1>2, Zenon DEF StartNext

LEMMA AddTyped ==
    ASSUME TypeOK, NEW g \in Group, NEW new \in SUBSET Event, Add(g, new)
    PROVE  TypeOK'
<1> DEFINE b == added + 1
           kept == NewEvents(g, new)
           after == [c \in Batch |-> MergedEvents(g, new, Ids(new), c)]
           rest == {c \in eventQueue : after[c] # {}}
           queue == IF kept = {} THEN rest ELSE rest \union {b}
<1>1. new \in SUBSET Event /\ Ids(new) \in SUBSET Id
  BY IdsTyped
<1>2. b \in Batch /\ added' = b /\ added' \in 0..MaxBatches
  BY ConstantsAssumption DEF Add, TypeOK, Batch
<1>3. kept \subseteq Event
  BY <1>1 DEF NewEvents, Appended, OfId
<1>4. after \in [Batch -> SUBSET Event]
  BY <1>1, MergedEventsTyped
<1>5. queue \subseteq Batch
  BY <1>2 DEF TypeOK
<1>6. events' \in [Batch -> SUBSET Event]
  <2>1. events' = [after EXCEPT ![b] = kept]
    BY DEF Add
  <2> HIDE DEF after, kept, b
  <2> QED  BY <2>1, <1>2, <1>3, <1>4
<1>7. lastOperation' \in [Id -> Batch \union {NoBatch}]
  <2>1. \A x \in Id : MergedLast(g, new, Ids(new), x) \in Batch \union {NoBatch}
    BY MergedLastTyped
  <2> QED  BY <1>2, <2>1 DEF Add
<1>8. groupOf' \in [Batch -> Group] /\ workDone' \in Nat
  <2>1. groupOf' = [groupOf EXCEPT ![b] = g]
    BY Zenon DEF Add
  <2>2. workDone' = workDone \/ workDone' = workDone + 1
    BY Zenon DEF Add
  <2>3. groupOf \in [Batch -> Group] /\ workDone \in Nat
    BY DEF TypeOK
  <2>4. groupOf' \in [Batch -> Group]
    BY <2>1, <2>3
  <2>5. workDone' \in Nat
    BY <2>2, <2>3
  <2> QED  BY <2>4, <2>5
<1>9. StartNext(queue, paused, processing, running) /\ eventQueue' = queue
      /\ paused' = paused
  BY DEF Add
<1>10. processing' \in Batch \union {NoBatch} /\ running' \in [Batch -> Nat]
  <2> HIDE DEF queue
  <2> QED  BY <1>5, <1>9, StartNextTyped DEF TypeOK
<1> QED
  BY <1>2, <1>5, <1>6, <1>7, <1>8, <1>9, <1>10 DEF TypeOK

LEMMA TypeStep == TypeOK /\ [Next]_vars => TypeOK'
<1> SUFFICES ASSUME TypeOK, [Next]_vars
             PROVE  TypeOK'
  OBVIOUS
<1>1. ASSUME NEW g \in Group, NEW new \in NewBatches, Add(g, new)
      PROVE  TypeOK'
  BY <1>1, ConstantsAssumption, AddTyped
<1>2. ASSUME NEW g \in Group, NEW new \in NewBatches, AddThrows(g, new)
      PROVE  TypeOK'
  <2>1. new \in SUBSET Event /\ Ids(new) \in SUBSET Id
    BY ConstantsAssumption, IdsTyped
  <2>2. PICK X \in SUBSET {x \in Ids(new) : ~Throws(g, new, x)} :
           /\ events' = [c \in Batch |-> MergedEvents(g, new, X, c)]
           /\ eventQueue' \subseteq eventQueue
           /\ lastOperation' = [x \in Id |-> MergedLast(g, new, X, x)]
    BY <1>2 DEF AddThrows
  <2>3. events' \in [Batch -> SUBSET Event]
    BY <2>1, <2>2, MergedEventsTyped
  <2>4. lastOperation' \in [Id -> Batch \union {NoBatch}]
    BY <2>2, MergedLastTyped
  <2>5. added' \in 0..MaxBatches
    BY <1>2, ConstantsAssumption DEF AddThrows, TypeOK
  <2> QED  BY <1>2, <2>2, <2>3, <2>4, <2>5 DEF AddThrows, TypeOK
<1>3. ASSUME NEW b \in Batch, Succeed(b) PROVE TypeOK'
  <2>1. eventQueue' \subseteq eventQueue
    BY <1>3 DEF Succeed
  <2>2. lastOperation' \in [Id -> Batch \union {NoBatch}]
    BY <1>3 DEF Succeed, TypeOK
  <2>3. events' \in [Batch -> SUBSET Event]
    BY <1>3 DEF Succeed, TypeOK
  <2>4. [running EXCEPT ![b] = @ - 1] \in [Batch -> Nat]
    BY <1>3 DEF Succeed, TypeOK
  <2>5. StartNext(eventQueue', paused, NoBatch, [running EXCEPT ![b] = @ - 1])
    BY <1>3 DEF Succeed
  <2>6. processing' \in Batch \union {NoBatch} /\ running' \in [Batch -> Nat]
    BY <2>1, <2>4, <2>5, StartNextTyped DEF TypeOK
  <2>7. groupOf' = groupOf /\ paused' = paused /\ added' = added
        /\ workDone' = workDone + 1
    BY <1>3 DEF Succeed
  <2> QED  BY <2>1, <2>2, <2>3, <2>6, <2>7 DEF TypeOK
<1>4. ASSUME NEW b \in Batch, Fail(b) PROVE TypeOK'
  BY <1>4 DEF Fail, TypeOK
<1>5. CASE Pause
  BY <1>5 DEF Pause, TypeOK
<1>6. CASE Resume
  <2>1. processing' \in Batch \union {NoBatch} /\ running' \in [Batch -> Nat]
    BY <1>6, StartNextTyped DEF Resume, TypeOK
  <2>2. paused' \in BOOLEAN
    BY <1>6, Zenon DEF Resume
  <2>3. UNCHANGED <<eventQueue, events, groupOf, lastOperation, added, workDone>>
    BY <1>6, Zenon DEF Resume
  <2> QED  BY <2>1, <2>2, <2>3 DEF TypeOK
<1>7. CASE Clear
  BY <1>7 DEF Clear, TypeOK
<1>8. CASE UNCHANGED vars
  BY <1>8 DEF vars, TypeOK
<1> QED
  BY <1>1, <1>2, <1>3, <1>4, <1>5, <1>6, <1>7, <1>8 DEF Next

LEMMA QueueInitTyped == Init => TypeOK
<1>1. (CHOOSE g \in Group : TRUE) \in Group
  BY ConstantsAssumption
<1>2. Init => /\ groupOf \in [Batch -> Group]
              /\ events \in [Batch -> SUBSET Event]
              /\ lastOperation \in [Id -> Batch \union {NoBatch}]
              /\ running \in [Batch -> Nat]
  BY <1>1 DEF Init
<1>3. Init => paused \in BOOLEAN
  BY Zenon DEF Init
<1>4. Init => added \in 0..MaxBatches /\ workDone \in Nat
  BY ConstantsAssumption DEF Init
<1> QED  BY <1>2, <1>3, <1>4 DEF Init, TypeOK

(* Every variable of the queue keeps its type: what is merged are events,  *)
(* and what the map refers to are batches (EventQueue.ts:71-99, 137-250).  *)
THEOREM QueueTyped == Spec => []TypeOK
  BY QueueInitTyped, TypeStep, PTL DEF Spec
-----------------------------------------------------------------------------
(* The batch that is processed is the first of the queue and has events,   *)
(* its queue action runs once, and no other runs.                          *)
QueueInv ==
    /\ eventQueue \subseteq 1..added
    /\ \A b \in eventQueue : events[b] # {}
    /\ \A b \in Batch : running[b] > 0 => running[b] = 1 /\ processing = b
    /\ processing # NoBatch =>
          processing \in eventQueue /\ \A c \in eventQueue : processing <= c

LEMMA QueueInit == Init => QueueInv
  BY DEF Init, QueueInv

(* start() and _processNext keep at most one action running.               *)
LEMMA StartNextKeepsOne ==
    ASSUME NEW q \in SUBSET Batch, NEW p, NEW cur, NEW run \in [Batch -> Nat],
           StartNext(q, p, cur, run),
           \A b \in Batch : run[b] > 0 => run[b] = 1 /\ cur = b,
           cur # NoBatch => cur \in q /\ \A c \in q : cur <= c
    PROVE  /\ \A b \in Batch : running'[b] > 0 => running'[b] = 1 /\ processing' = b
           /\ processing' # NoBatch =>
                 processing' \in q /\ \A c \in q : processing' <= c
<1>1. CASE processing' = cur /\ running' = run
  BY <1>1
<1>2. ASSUME NEW b \in q, \A c \in q : b <= c, cur = NoBatch,
             processing' = b, running' = [run EXCEPT ![b] = @ + 1]
      PROVE  /\ \A d \in Batch : running'[d] > 0 => running'[d] = 1 /\ processing' = d
             /\ processing' \in q /\ \A c \in q : processing' <= c
  <2>1. \A d \in Batch : run[d] = 0
    BY <1>2, ConstantsAssumption DEF Batch
  <2> QED  BY <1>2, <2>1
<1> QED  BY <1>1, <1>2, Zenon DEF StartNext

(* The part of the invariant that a step changes by merging: every batch   *)
(* that loses its events leaves the queue, and none does while it is       *)
(* processed.                                                              *)
LEMMA AddKeepsInv ==
    ASSUME TypeOK, QueueInv, NEW g \in Group, NEW new, Add(g, new)
    PROVE  /\ QueueInv'
           /\ processing # NoBatch => events'[processing] = events[processing]
<1> DEFINE b == added + 1
           kept == NewEvents(g, new)
           after == [c \in Batch |-> MergedEvents(g, new, Ids(new), c)]
           rest == {c \in eventQueue : after[c] # {}}
           queue == IF kept = {} THEN rest ELSE rest \union {b}
<1>1. /\ b \in Batch /\ added' = b /\ added \in Nat
      /\ eventQueue' = queue
      /\ events' = [after EXCEPT ![b] = kept]
      /\ StartNext(queue, paused, processing, running)
  BY ConstantsAssumption DEF Add, TypeOK, Batch
<1>2. processing # NoBatch => processing \in Batch /\ after[processing] = events[processing]
  BY ProcessingIsNotMerged DEF TypeOK
<1>3. b \notin eventQueue
  BY <1>1 DEF QueueInv
<1>4. queue \in SUBSET Batch /\ queue \subseteq 1..added'
  <2>1. rest \subseteq 1..added /\ rest \subseteq Batch
    BY DEF QueueInv, TypeOK
  <2>2. 1..added \subseteq 1..added' /\ b \in 1..added'
    BY <1>1
  <2> HIDE DEF rest
  <2> QED  BY <2>1, <2>2, <1>1
<1>5. \A c \in queue : events'[c] # {}
  <2>1. \A c \in rest : c \in Batch /\ c # b /\ after[c] # {}
    BY <1>3 DEF TypeOK
  <2>2. events'[b] = kept
    <3> HIDE DEF after, kept, b
    <3>1. DOMAIN after = Batch
      BY DEF after
    <3> QED  BY <1>1, <3>1
  <2>3. \A c \in Batch : c # b => events'[c] = after[c]
    <3> HIDE DEF after, kept, b
    <3>1. DOMAIN after = Batch
      BY DEF after
    <3> QED  BY <1>1, <3>1
  <2> HIDE DEF after, kept, b, rest
  <2> QED  BY <2>1, <2>2, <2>3
<1>6. processing # NoBatch => processing \in queue /\ \A c \in queue : processing <= c
  <2> SUFFICES ASSUME processing # NoBatch
               PROVE  processing \in queue /\ \A c \in queue : processing <= c
    OBVIOUS
  <2>1. processing \in rest
    BY <1>2 DEF QueueInv
  <2>2. processing <= b
    <3>1. processing \in 1..added
      BY DEF QueueInv
    <3>2. added \in Nat
      BY <1>1
    <3> QED  BY <3>1, <3>2
  <2>3. \A c \in rest : processing <= c
    BY DEF QueueInv
  <2> HIDE DEF rest
  <2> QED  BY <2>1, <2>2, <2>3
<1>7. processing # NoBatch => events'[processing] = events[processing]
  <2>1. processing # NoBatch => processing # b
    BY <1>3 DEF QueueInv
  <2> HIDE DEF after, kept, b
  <2> QED  BY <1>1, <1>2, <2>1
<1>8. running \in [Batch -> Nat]
      /\ \A d \in Batch : running[d] > 0 => running[d] = 1 /\ processing = d
  BY DEF TypeOK, QueueInv
<1>9. /\ \A d \in Batch : running'[d] > 0 => running'[d] = 1 /\ processing' = d
      /\ processing' # NoBatch =>
            processing' \in queue /\ \A c \in queue : processing' <= c
  <2> HIDE DEF queue
  <2> QED  BY <1>1, <1>4, <1>6, <1>8, StartNextKeepsOne
<1> HIDE DEF queue
<1> QED  BY <1>1, <1>4, <1>5, <1>7, <1>9 DEF QueueInv

LEMMA AddThrowsKeepsInv ==
    ASSUME TypeOK, QueueInv, NEW g \in Group, NEW new \in NewBatches, AddThrows(g, new)
    PROVE  /\ QueueInv'
           /\ processing # NoBatch => events'[processing] = events[processing]
<1>1. PICK X : /\ events' = [c \in Batch |-> MergedEvents(g, new, X, c)]
               /\ eventQueue' = {c \in eventQueue : events'[c] # {}}
  BY DEF AddThrows
<1>2. processing # NoBatch => processing \in Batch /\ events'[processing] = events[processing]
  BY <1>1, ProcessingIsNotMerged DEF TypeOK
<1>3. added' = added + 1 /\ processing' = processing /\ running' = running
  BY DEF AddThrows
<1>4. eventQueue' \subseteq 1..added'
  <2>1. eventQueue' \subseteq 1..added
    BY <1>1 DEF QueueInv
  <2>2. added \in Nat
    BY ConstantsAssumption DEF TypeOK
  <2> QED  BY <1>3, <2>1, <2>2
<1>5. processing' # NoBatch =>
          processing' \in eventQueue' /\ \A c \in eventQueue' : processing' <= c
  BY <1>1, <1>2, <1>3 DEF QueueInv
<1> QED  BY <1>1, <1>2, <1>3, <1>4, <1>5 DEF QueueInv

LEMMA SucceedKeepsInv ==
    ASSUME TypeOK, QueueInv, NEW b \in Batch, Succeed(b)
    PROVE  /\ QueueInv'
           /\ \A c \in Batch : running'[c] = 0 \/ running[c] = 0
           /\ \A c \in eventQueue \ eventQueue' : c = b
<1> DEFINE run == [running EXCEPT ![b] = @ - 1]
           rest == {c \in eventQueue : \E d \in eventQueue : d < c}
<1>1. b \in eventQueue /\ processing = b /\ running[b] = 1
      /\ \A c \in eventQueue : b <= c
  BY ConstantsAssumption DEF Succeed, QueueInv, Batch
<1>2. eventQueue' = rest /\ StartNext(rest, paused, NoBatch, run) /\ added' = added
  BY DEF Succeed
<1>3. run \in [Batch -> Nat] /\ \A c \in Batch : run[c] = 0
  BY <1>1 DEF TypeOK, QueueInv
<1>4. rest = eventQueue \ {b} /\ rest \in SUBSET Batch
  <2>1. eventQueue \subseteq Nat
    BY ConstantsAssumption DEF TypeOK, Batch
  <2>2. \A c \in eventQueue : c \in rest <=> c # b
    BY <1>1, <2>1
  <2>3. rest \subseteq eventQueue
    OBVIOUS
  <2> HIDE DEF rest
  <2> QED  BY <1>1, <2>2, <2>3 DEF TypeOK
<1>5. \A c \in rest : events'[c] # {}
  <2>1. \A c \in rest : events'[c] = events[c]
    BY <1>4 DEF Succeed, TypeOK
  <2> QED  BY <1>4, <2>1 DEF QueueInv
<1>6. /\ \A d \in Batch : running'[d] > 0 => running'[d] = 1 /\ processing' = d
      /\ processing' # NoBatch =>
            processing' \in rest /\ \A c \in rest : processing' <= c
  <2> HIDE DEF run, rest
  <2> QED  BY <1>2, <1>3, <1>4, StartNextKeepsOne
<1>7. rest \subseteq 1..added
  BY <1>4 DEF QueueInv
<1>8. QueueInv'
  <2> HIDE DEF rest
  <2> QED  BY <1>2, <1>5, <1>6, <1>7 DEF QueueInv
<1>9. \A c \in Batch : running'[c] = 0 \/ running[c] = 0
  <2>1. running'[b] = 0
    <3>1. processing' # b
      <4>1. b # NoBatch
        BY ConstantsAssumption DEF Batch
      <4> HIDE DEF rest
      <4> QED  BY <1>4, <1>6, <4>1
    <3>2. TypeOK'
      BY TypeStep DEF Next
    <3> QED  BY <1>6, <3>1, <3>2 DEF TypeOK
  <2>2. \A c \in Batch : c # b => running[c] = 0
    BY <1>1 DEF QueueInv, TypeOK
  <2> QED  BY <2>1, <2>2
<1> QED  BY <1>2, <1>4, <1>8, <1>9

LEMMA OthersKeepInv ==
    ASSUME TypeOK, QueueInv, (\E b \in Batch : Fail(b)) \/ Pause \/ Resume
    PROVE  QueueInv'
<1>1. ASSUME NEW b \in Batch, Fail(b) PROVE QueueInv'
  <2>1. running[b] = 1 /\ processing = b
    BY <1>1 DEF Fail, QueueInv
  <2>2. \A c \in Batch : running'[c] = 0
    BY <1>1, <2>1 DEF Fail, QueueInv, TypeOK
  <2>3. processing' = NoBatch /\ UNCHANGED <<eventQueue, events, added>>
    BY <1>1 DEF Fail
  <2> QED  BY <2>2, <2>3 DEF QueueInv
<1>2. CASE Pause
  BY <1>2 DEF Pause, QueueInv
<1>3. CASE Resume
  <2>1. StartNext(eventQueue, FALSE, processing, running)
        /\ eventQueue' = eventQueue /\ events' = events /\ added' = added
    BY <1>3 DEF Resume
  <2>2. /\ \A d \in Batch : running'[d] > 0 => running'[d] = 1 /\ processing' = d
        /\ processing' # NoBatch =>
              processing' \in eventQueue /\ \A c \in eventQueue : processing' <= c
    <3>1. eventQueue \in SUBSET Batch /\ running \in [Batch -> Nat]
      BY DEF TypeOK
    <3>2. /\ \A b \in Batch : running[b] > 0 => running[b] = 1 /\ processing = b
          /\ processing # NoBatch =>
                processing \in eventQueue /\ \A c \in eventQueue : processing <= c
      BY DEF QueueInv
    <3>3. PICK unpaused : StartNext(eventQueue, unpaused, processing, running)
      BY <2>1
    <3> QED  BY <3>1, <3>2, <3>3, StartNextKeepsOne
  <2> QED  BY <2>1, <2>2 DEF QueueInv
<1> QED  BY <1>1, <1>2, <1>3

LEMMA InvStep ==
    ASSUME ~ClearAnytime
    PROVE  TypeOK /\ QueueInv /\ [Next]_vars => QueueInv'
<1> SUFFICES ASSUME TypeOK, QueueInv, [Next]_vars
             PROVE  QueueInv'
  OBVIOUS
<1>1. ASSUME NEW g \in Group, NEW new \in NewBatches, Add(g, new) PROVE QueueInv'
  BY <1>1, AddKeepsInv
<1>2. ASSUME NEW g \in Group, NEW new \in NewBatches, AddThrows(g, new) PROVE QueueInv'
  BY <1>2, AddThrowsKeepsInv
<1>3. ASSUME NEW b \in Batch, Succeed(b) PROVE QueueInv'
  BY <1>3, SucceedKeepsInv
<1>4. CASE (\E b \in Batch : Fail(b)) \/ Pause \/ Resume
  BY <1>4, OthersKeepInv
<1>5. CASE Clear
  <2>1. \A b \in Batch : running'[b] = 0
    BY <1>5 DEF Clear
  <2> QED  BY <1>5, <2>1 DEF Clear, QueueInv
<1>6. CASE UNCHANGED vars
  BY <1>6 DEF vars, QueueInv
<1> QED
  BY <1>1, <1>2, <1>3, <1>4, <1>5, <1>6 DEF Next

LEMMA InvAlways ==
    ASSUME ~ClearAnytime
    PROVE  Spec => [](TypeOK /\ QueueInv)
<1>1. Init => TypeOK
  BY QueueInitTyped
<1> QED  BY <1>1, QueueInit, TypeStep, InvStep, PTL DEF Spec
-----------------------------------------------------------------------------
(* At most one queue action runs, for the first batch of the queue, which  *)
(* is the one _processingBatch refers to (EventQueue.ts:269-315).          *)
THEOREM OneAtATimeAlways ==
    ASSUME ~ClearAnytime
    PROVE  Spec => []OneAtATime
<1>1. TypeOK /\ QueueInv => OneAtATime
  <2> SUFFICES ASSUME QueueInv, NEW b \in Batch, running[b] > 0
               PROVE  /\ running[b] = 1 /\ processing = b
                      /\ b \in eventQueue /\ \A c \in eventQueue : b <= c
    BY DEF OneAtATime
  <2>1. b # NoBatch
    BY ConstantsAssumption DEF Batch
  <2> QED  BY <2>1 DEF QueueInv
<1> QED  BY <1>1, InvAlways, PTL

(* What the queue action was given stays as it was until the action ends,  *)
(* however many batches are merged meanwhile (EventQueue.ts:149-163).      *)
THEOREM InFlightUnchangedAlways ==
    ASSUME ~ClearAnytime
    PROVE  Spec => InFlightUnchanged
<1> DEFINE Unchanged ==
       \A b \in Batch : running[b] > 0 /\ running'[b] > 0 => events'[b] = events[b]
<1>1. TypeOK /\ QueueInv /\ [Next]_vars => [Unchanged]_vars
  <2> SUFFICES ASSUME TypeOK, QueueInv, Next, NEW b \in Batch,
                      running[b] > 0, running'[b] > 0
               PROVE  events'[b] = events[b]
    OBVIOUS
  <2>1. processing = b /\ b # NoBatch
    BY ConstantsAssumption DEF QueueInv, Batch
  <2>2. ASSUME NEW g \in Group, NEW new \in NewBatches, Add(g, new) \/ AddThrows(g, new)
        PROVE  events'[b] = events[b]
    BY <2>1, <2>2, AddKeepsInv, AddThrowsKeepsInv
  <2>3. ASSUME NEW c \in Batch, Succeed(c) PROVE events'[b] = events[b]
    <3>1. running'[b] = 0 \/ running[b] = 0
      BY <2>3, SucceedKeepsInv
    <3> QED  BY <3>1
  <2>4. ASSUME NEW c \in Batch, Fail(c) PROVE events'[b] = events[b]
    BY <2>4 DEF Fail
  <2>5. CASE Pause \/ Resume \/ Clear
    BY <2>5 DEF Pause, Resume, Clear
  <2> QED  BY <2>2, <2>3, <2>4, <2>5 DEF Next
<1> QED  BY <1>1, InvAlways, PTL DEF Spec, InFlightUnchanged

(* Every batch is processed or merged away: no batch with events leaves    *)
(* the queue before its own queue action has succeeded, except in clear()  *)
(* (EventQueue.ts:295-313).                                                *)
THEOREM NoBatchSkippedAlways ==
    ASSUME ~ClearAnytime
    PROVE  Spec => NoBatchSkipped
<1> DEFINE Leaves(b) == \/ running'[b] < running[b] /\ workDone' > workDone
                        \/ events'[b] = {}
                        \/ eventQueue' = {} /\ \A x \in Id : lastOperation'[x] = NoBatch
           NoneSkipped == \A b \in eventQueue \ eventQueue' : Leaves(b)
<1>1. TypeOK /\ QueueInv /\ [Next]_vars => [NoneSkipped]_vars
  <2> SUFFICES ASSUME TypeOK, QueueInv, Next,
                      NEW b \in eventQueue, b \notin eventQueue'
               PROVE  Leaves(b)
    OBVIOUS
  <2>1. b \in Batch /\ b # added + 1
    BY ConstantsAssumption DEF TypeOK, QueueInv, Batch
  <2>2. ASSUME NEW g \in Group, NEW new \in NewBatches, Add(g, new)
        PROVE  events'[b] = {}
    <3> DEFINE after == [c \in Batch |-> MergedEvents(g, new, Ids(new), c)]
    <3>1. after[b] = {}
      BY <2>2 DEF Add
    <3>2. events' = [after EXCEPT ![added + 1] = NewEvents(g, new)]
      BY <2>2 DEF Add
    <3>3. b \in DOMAIN after
      BY <2>1
    <3> HIDE DEF after
    <3> QED  BY <2>1, <3>1, <3>2, <3>3
  <2>3. ASSUME NEW g \in Group, NEW new \in NewBatches, AddThrows(g, new)
        PROVE  events'[b] = {}
    BY <2>3 DEF AddThrows
  <2>4. ASSUME NEW c \in Batch, Succeed(c)
        PROVE  running'[b] < running[b] /\ workDone' > workDone
    <3>1. b = c
      BY <2>4, SucceedKeepsInv
    <3>2. running[b] > 0 /\ workDone' = workDone + 1
      BY <2>4, <3>1 DEF Succeed
    <3>3. running'[b] = 0 \/ running[b] = 0
      BY <2>4, SucceedKeepsInv
    <3>4. running[b] \in Nat /\ workDone \in Nat
      BY <2>1 DEF TypeOK
    <3> QED  BY <3>2, <3>3, <3>4
  <2>5. ASSUME Clear
        PROVE  eventQueue' = {} /\ \A x \in Id : lastOperation'[x] = NoBatch
    BY <2>5 DEF Clear
  <2>6. ~(Pause \/ Resume) /\ \A c \in Batch : ~Fail(c)
    BY DEF Pause, Resume, Fail
  <2> QED  BY <2>2, <2>3, <2>4, <2>5, <2>6 DEF Next
<1> QED  BY <1>1, InvAlways, PTL DEF Spec, NoBatchSkipped
-----------------------------------------------------------------------------
(* One modification of an instance, without counting: one event, or the    *)
(* two events of a move.                                                   *)
Once(es) ==
    \/ \E e \in es : es = {e}
    \/ \E c, d \in es :
          /\ es = {c, d}
          /\ c.op = "CREATE" /\ d.op = "DELETE"
          /\ c.inst = d.inst /\ c.inst \in Movable

LEMMA OnceIsOneModification ==
    ASSUME NEW es \in SUBSET Event
    PROVE  /\ Once(es) => OneModification(es)
           /\ IsFiniteSet(es) /\ OneModification(es) => Once(es)
<1>1. ASSUME NEW e \in es, es = {e} PROVE Cardinality(es) = 1
  BY <1>1, FS_Singleton
<1>2. ASSUME NEW c \in es, NEW d \in es, es = {c, d}, c.op = "CREATE", d.op = "DELETE",
             c.inst = d.inst, c.inst \in Movable
      PROVE  OneModification(es)
  <2>1. c # d
    BY <1>2
  <2>2. Cardinality(es) = 2
    <3>1. IsFiniteSet({c}) /\ Cardinality({c}) = 1
      BY FS_Singleton
    <3>2. Cardinality({c} \union {d}) = Cardinality({c}) + 1
      BY <2>1, <3>1, FS_AddElement
    <3>3. es = {c} \union {d}
      BY <1>2
    <3> QED  BY <3>1, <3>2, <3>3
  <2>3. IsMove(es)
    BY <1>2 DEF IsMove, OfOp
  <2> QED  BY <1>2, <2>2, <2>3 DEF OneModification
<1>3. ASSUME IsFiniteSet(es), Cardinality(es) = 1 PROVE Once(es)
  BY <1>3, FS_Singleton DEF Once
<1>4. ASSUME IsFiniteSet(es), Cardinality(es) = 2, IsMove(es),
             \A e, f \in es : e.inst = f.inst
      PROVE  Once(es)
  <2>1. PICK c \in es, d \in es : c.op = "CREATE" /\ d.op = "DELETE"
    BY <1>4 DEF IsMove, OfOp
  <2>2. c # d
    BY <2>1
  <2>3. ASSUME NEW e \in es, e # c, e # d PROVE FALSE
    <3> DEFINE three == {c, d, e}
    <3>1. IsFiniteSet({c}) /\ Cardinality({c}) = 1
      BY FS_Singleton
    <3>2. IsFiniteSet({c, d}) /\ Cardinality({c, d}) = 2
      <4>1. {c, d} = {c} \union {d}
        OBVIOUS
      <4>2. /\ IsFiniteSet({c} \union {d})
            /\ Cardinality({c} \union {d}) = Cardinality({c}) + 1
        BY <2>2, <3>1, FS_AddElement
      <4> QED  BY <3>1, <4>1, <4>2
    <3>3. Cardinality(three) = 3
      <4>1. three = {c, d} \union {e}
        OBVIOUS
      <4> QED  BY <2>3, <3>2, <4>1, FS_AddElement
    <3>4. three \subseteq es
      OBVIOUS
    <3> HIDE DEF three
    <3>5. Cardinality(three) <= Cardinality(es)
      BY <1>4, <3>4, FS_Subset
    <3> QED  BY <1>4, <3>3, <3>5
  <2>4. es = {c, d}
    BY <2>3
  <2>5. c.inst = d.inst /\ c.inst \in Movable
    BY <1>4 DEF IsMove
  <2> QED  BY <2>1, <2>4, <2>5 DEF Once
<1> QED  BY <1>1, <1>2, <1>3, <1>4 DEF Once, OneModification

LEMMA PartOfOnce ==
    ASSUME NEW es, NEW part \in SUBSET es, Once(es)
    PROVE  part = {} \/ Once(part)
<1>1. CASE \E e \in es : es = {e}
  BY <1>1 DEF Once
<1>2. ASSUME NEW c \in es, NEW d \in es, es = {c, d}, c.op = "CREATE", d.op = "DELETE",
             c.inst = d.inst, c.inst \in Movable
      PROVE  part = {} \/ Once(part)
  <2>1. part = {} \/ part = {c} \/ part = {d} \/ part = es
    BY <1>2
  <2> QED  BY <1>2, <2>1 DEF Once
<1> QED  BY <1>1, <1>2 DEF Once

(* What batchMod calls a move are the two events of a move.                *)
LEMMA MoveHasTwoEvents ==
    ASSUME NEW es \in SUBSET Event, Once(es), Modification(es) = "MOVE"
    PROVE  \E c, d \in es : /\ es = {c, d}
                            /\ c.op = "CREATE" /\ d.op = "DELETE"
                            /\ c.inst = d.inst /\ c.inst \in Movable
<1>1. ASSUME NEW e \in es, es = {e} PROVE FALSE
  <2>1. ~IsMove(es)
    BY <1>1 DEF IsMove, OfOp
  <2>2. (CHOOSE f \in es : TRUE) = e
    BY <1>1
  <2>3. Modification(es) = e.op
    BY <2>1, <2>2 DEF Modification
  <2>4. e.op \in Op
    BY DEF Event
  <2> QED  BY <2>3, <2>4 DEF Op
<1> QED  BY <1>1 DEF Once
-----------------------------------------------------------------------------
(* Every batch, also one that has left the queue, has one modification of  *)
(* an id at most.                                                          *)
EachOnce ==
    \A b \in Batch, x \in Id :
        OfId(events[b], x) = {} \/ Once(OfId(events[b], x))

(* A MOVE joins its CREATE with the DELETE of the move it is merged with;  *)
(* both are of one instance, since ids are not shared.                     *)
LEMMA AfterMoveIsOnce ==
    ASSUME TypeOK, EachOnce,
           \A i, j \in Instance : IdOf[i] = IdOf[j] => i = j,
           NEW g, NEW new \in SUBSET Event, NEW x \in Id, Once(OfId(new, x)),
           Merges(g, x), ~Throws(g, new, x), NewModification(new, x) = "MOVE"
    PROVE  AfterMove(new, x) = {} \/ Once(AfterMove(new, x))
<1>1. OfOp(OfId(new, x), "CREATE") \subseteq OfId(new, x)
      /\ OfOp(OfId(new, x), "DELETE") \subseteq OfId(new, x)
  BY DEF OfOp
<1>2. CASE LastModification(x) = "CREATE"
  BY <1>1, <1>2, PartOfOnce DEF AfterMove
<1>3. CASE LastModification(x) = "UPDATE"
  BY <1>1, <1>3, PartOfOnce DEF AfterMove
<1>4. CASE LastModification(x) \notin {"CREATE", "UPDATE"}
  <2>1. LastEvents(x) \in SUBSET Event /\ LastEvents(x) # {} /\ Once(LastEvents(x))
    <3>1. LastEvents(x) # {}
      BY DEF Throws
    <3>2. lastOperation[x] \in Batch
      BY DEF Merges, TypeOK
    <3>3. LastEvents(x) \subseteq events[lastOperation[x]]
      BY DEF LastEvents, OfId
    <3>4. events[lastOperation[x]] \subseteq Event
      BY <3>2 DEF TypeOK
    <3> QED  BY <3>1, <3>2, <3>3, <3>4 DEF EachOnce, LastEvents
  <2>2. LastModification(x) = "MOVE"
    <3>1. LastModification(x) # "DELETE"
      BY DEF Throws
    <3>2. (CHOOSE e \in LastEvents(x) : TRUE) \in Event
      BY <2>1
    <3>3. (CHOOSE e \in LastEvents(x) : TRUE).op \in Op
      BY <3>2 DEF Event
    <3> QED  BY <1>4, <3>1, <3>3 DEF LastModification, Modification, Op
  <2>3. PICK c \in LastEvents(x), d \in LastEvents(x) :
           /\ LastEvents(x) = {c, d} /\ c.op = "CREATE" /\ d.op = "DELETE"
           /\ c.inst = d.inst /\ c.inst \in Movable
    BY <2>1, <2>2, MoveHasTwoEvents DEF LastModification
  <2>4. OfId(new, x) \in SUBSET Event
    BY DEF OfId
  <2>5. PICK e \in OfId(new, x), f \in OfId(new, x) :
           /\ OfId(new, x) = {e, f} /\ e.op = "CREATE" /\ f.op = "DELETE"
           /\ e.inst = f.inst /\ e.inst \in Movable
    BY <2>4, MoveHasTwoEvents DEF NewModification
  <2>6. e.inst = d.inst
    <3>1. e.inst \in Instance /\ d.inst \in Instance
      BY <2>1, <2>4 DEF Event
    <3>2. IdOf[e.inst] = x /\ IdOf[d.inst] = x
      BY DEF LastEvents, OfId
    <3> QED  BY <3>1, <3>2
  <2>7. OfOp(OfId(new, x), "CREATE") = {e} /\ OfOp(LastEvents(x), "DELETE") = {d}
    BY <2>3, <2>5 DEF OfOp
  <2>8. AfterMove(new, x) = {e, d}
    BY <1>4, <2>7 DEF AfterMove
  <2> QED  BY <2>3, <2>5, <2>6, <2>8 DEF Once
<1> QED  BY <1>2, <1>3, <1>4

LEMMA RewrittenIsOnce ==
    ASSUME TypeOK, EachOnce,
           \A i, j \in Instance : IdOf[i] = IdOf[j] => i = j,
           NEW g, NEW new \in SUBSET Event, NEW x \in Id, Once(OfId(new, x)),
           Merges(g, x), ~Throws(g, new, x), NEW b \in Batch
    PROVE  Rewritten(new, x, b) = {} \/ Once(Rewritten(new, x, b))
<1>1. CASE NewModification(new, x) = "MOVE" /\ b = lastOperation[x]
  <2>1. Rewritten(new, x, b) = AfterMove(new, x)
    BY <1>1 DEF Rewritten
  <2> QED  BY <1>1, <2>1, AfterMoveIsOnce
<1>2. CASE ~(NewModification(new, x) = "MOVE" /\ b = lastOperation[x])
  <2>1. Rewritten(new, x, b) \in {AfterDelete(x, b), OfId(events[b], x)}
    BY <1>2, Zenon DEF Rewritten
  <2>2. AfterDelete(x, b) \subseteq OfId(events[b], x)
    BY DEF AfterDelete
  <2>3. OfId(events[b], x) = {} \/ Once(OfId(events[b], x))
    BY DEF EachOnce
  <2> QED  BY <2>1, <2>2, <2>3, PartOfOnce
<1> QED  BY <1>1, <1>2

LEMMA RewrittenIsOfId ==
    ASSUME NEW g, NEW new, NEW x, NEW b
    PROVE  \A e \in Rewritten(new, x, b) : IdOf[e.inst] = x
<1>1. \A e \in AfterMove(new, x) : IdOf[e.inst] = x
  BY DEF AfterMove, OfOp, OfId, LastEvents
<1>2. \A e \in AfterDelete(x, b) : IdOf[e.inst] = x
  BY DEF AfterDelete, OfId
<1>3. \A e \in OfId(events[b], x) : IdOf[e.inst] = x
  BY DEF OfId
<1>4. Rewritten(new, x, b) \in {AfterMove(new, x), AfterDelete(x, b), OfId(events[b], x)}
  BY Zenon DEF Rewritten
<1> QED  BY <1>1, <1>2, <1>3, <1>4

(* Merging some ids of a new batch leaves one modification of each id.     *)
LEMMA MergedIsOnce ==
    ASSUME TypeOK, EachOnce,
           \A i, j \in Instance : IdOf[i] = IdOf[j] => i = j,
           NEW g, NEW new \in SUBSET Event, NEW X \in SUBSET Ids(new),
           \A x \in X : Once(OfId(new, x)) /\ ~Throws(g, new, x),
           NEW x \in Id, NEW b \in Batch
    PROVE  \/ OfId(MergedEvents(g, new, X, b), x) = {}
           \/ Once(OfId(MergedEvents(g, new, X, b), x))
<1>1. CASE x \in X /\ Merges(g, x)
  <2>1. OfId(MergedEvents(g, new, X, b), x) = Rewritten(new, x, b)
    BY <1>1, RewrittenIsOfId DEF MergedEvents, OfId
  <2> QED  BY <1>1, <2>1, RewrittenIsOnce
<1>2. CASE ~(x \in X /\ Merges(g, x))
  <2>1. OfId(MergedEvents(g, new, X, b), x) = OfId(events[b], x)
    BY <1>2, RewrittenIsOfId DEF MergedEvents, OfId
  <2> QED  BY <2>1 DEF EachOnce
<1> QED  BY <1>1, <1>2

(* What add() may be given.                                                *)
LEMMA NewIsOnce ==
    ASSUME NEW new \in NewBatches
    PROVE  /\ new \in SUBSET Event
           /\ \A x \in Ids(new) : x \in Id /\ Once(OfId(new, x))
<1>1. new \in SUBSET Event /\ IsFiniteSet(new) /\ ValidBatch(new)
  BY ConstantsAssumption
<1>2. ASSUME NEW x \in Ids(new) PROVE x \in Id /\ Once(OfId(new, x))
  <2>1. OfId(new, x) \in SUBSET Event /\ IsFiniteSet(OfId(new, x))
    BY <1>1, FS_Subset DEF OfId
  <2>2. OneModification(OfId(new, x))
    BY <1>1 DEF ValidBatch
  <2> QED  BY <1>1, <2>1, <2>2, OnceIsOneModification, IdsTyped
<1> QED  BY <1>1, <1>2

LEMMA AddKeepsOnce ==
    ASSUME \A i, j \in Instance : IdOf[i] = IdOf[j] => i = j,
           TypeOK, EachOnce, NEW g \in Group, NEW new \in SUBSET Event,
           \A x \in Ids(new) : x \in Id /\ Once(OfId(new, x)), Add(g, new)
    PROVE  EachOnce'
<1> DEFINE b == added + 1
           kept == NewEvents(g, new)
           after == [c \in Batch |-> MergedEvents(g, new, Ids(new), c)]
<1>1. events' = [after EXCEPT ![b] = kept] /\ \A x \in Ids(new) : ~Throws(g, new, x)
  BY DEF Add
<1>2. ASSUME NEW c \in Batch, NEW x \in Id
      PROVE  OfId(after[c], x) = {} \/ Once(OfId(after[c], x))
  <2>1. after[c] = MergedEvents(g, new, Ids(new), c)
    OBVIOUS
  <2> HIDE DEF after
  <2> QED  BY <1>1, <2>1, MergedIsOnce
<1>3. ASSUME NEW x \in Id PROVE OfId(kept, x) = {} \/ Once(OfId(kept, x))
  <2>1. OfId(kept, x) \subseteq OfId(new, x)
    BY DEF NewEvents, Appended, OfId
  <2>2. OfId(new, x) # {} => x \in Ids(new)
    BY DEF OfId, Ids
  <2> HIDE DEF kept
  <2> QED  BY <2>1, <2>2, PartOfOnce
<1>4. \A c \in Batch : events'[c] = kept \/ events'[c] = after[c]
  <2>1. DOMAIN after = Batch
    OBVIOUS
  <2> HIDE DEF after, kept, b
  <2> QED  BY <1>1, <2>1
<1> HIDE DEF after, kept, b
<1>5. ASSUME NEW c \in Batch, NEW x \in Id
      PROVE  OfId(events'[c], x) = {} \/ Once(OfId(events'[c], x))
  BY <1>2, <1>3, <1>4
<1> QED  BY <1>5 DEF EachOnce

LEMMA EachOnceStep ==
    ASSUME \A i, j \in Instance : IdOf[i] = IdOf[j] => i = j
    PROVE  TypeOK /\ EachOnce /\ [Next]_vars => EachOnce'
<1> SUFFICES ASSUME TypeOK, EachOnce, [Next]_vars
             PROVE  EachOnce'
  OBVIOUS
<1>1. ASSUME NEW g \in Group, NEW new \in NewBatches, Add(g, new) PROVE EachOnce'
  BY <1>1, NewIsOnce, AddKeepsOnce
<1>2. ASSUME NEW g \in Group, NEW new \in NewBatches, AddThrows(g, new) PROVE EachOnce'
  <2>1. PICK X \in SUBSET {x \in Ids(new) : ~Throws(g, new, x)} :
           events' = [c \in Batch |-> MergedEvents(g, new, X, c)]
    BY <1>2 DEF AddThrows
  <2>2. ASSUME NEW c \in Batch, NEW x \in Id
        PROVE  OfId(events'[c], x) = {} \/ Once(OfId(events'[c], x))
    <3>1. events'[c] = MergedEvents(g, new, X, c)
      BY <2>1
    <3>2. X \in SUBSET Ids(new) /\ \A y \in X : Once(OfId(new, y)) /\ ~Throws(g, new, y)
      BY NewIsOnce
    <3> QED  BY <3>1, <3>2, NewIsOnce, MergedIsOnce
  <2> QED  BY <2>2 DEF EachOnce
<1>3. ASSUME NEW b \in Batch, Succeed(b) PROVE EachOnce'
  <2>1. ASSUME NEW c \in Batch PROVE events'[c] = {} \/ events'[c] = events[c]
    BY <1>3 DEF Succeed, TypeOK
  <2>2. \A x \in Id : OfId({}, x) = {}
    BY DEF OfId
  <2>3. ASSUME NEW c \in Batch, NEW x \in Id
        PROVE  OfId(events'[c], x) = {} \/ Once(OfId(events'[c], x))
    BY <2>1, <2>2 DEF EachOnce
  <2> QED  BY <2>3 DEF EachOnce
<1>4. CASE UNCHANGED events
  BY <1>4 DEF EachOnce
<1>5. ASSUME \/ \E b \in Batch : Fail(b)
             \/ Pause \/ Resume \/ Clear
             \/ UNCHANGED vars
      PROVE  UNCHANGED events
  BY <1>5 DEF Fail, Pause, Resume, Clear, vars
<1> QED  BY <1>1, <1>2, <1>3, <1>4, <1>5 DEF Next

(* However batches are merged, each keeps at most one modification of an   *)
(* id, so that batchMod may look at the first event, and a batch whose     *)
(* events were all merged away leaves the queue (EventQueue.ts:44, 263).   *)
THEOREM WellFormedQueueAlways ==
    ASSUME ~ClearAnytime, \A i, j \in Instance : IdOf[i] = IdOf[j] => i = j
    PROVE  Spec => []WellFormedQueue
<1>1. Init => EachOnce
  <2>1. \A x \in Id : OfId({}, x) = {}
    BY DEF OfId
  <2> QED  BY <2>1 DEF Init, EachOnce
<1>2. TypeOK /\ EachOnce /\ [Next]_vars => EachOnce'
  BY EachOnceStep
<1>3. TypeOK /\ QueueInv /\ EachOnce => WellFormedQueue
  <2> SUFFICES ASSUME TypeOK, QueueInv, EachOnce, NEW b \in eventQueue
               PROVE  ValidBatch(events[b])
    BY DEF WellFormedQueue
  <2>1. b \in Batch /\ events[b] \in SUBSET Event /\ events[b] # {}
    BY DEF TypeOK, QueueInv
  <2>2. ASSUME NEW x \in Ids(events[b]) PROVE OneModification(OfId(events[b], x))
    <3>1. x \in Id
      BY <2>1, IdsTyped
    <3>2. OfId(events[b], x) # {} /\ OfId(events[b], x) \in SUBSET Event
      BY <2>1 DEF Ids, OfId
    <3> QED  BY <2>1, <3>1, <3>2, OnceIsOneModification DEF EachOnce
  <2> QED  BY <2>1, <2>2 DEF ValidBatch
<1> QED  BY <1>1, <1>2, <1>3, InvAlways, PTL DEF Spec
-----------------------------------------------------------------------------
(* The map refers to batches that wait or are processed, and to their      *)
(* events; no batch after it has an event for the id.                      *)
MapInv ==
    \A x \in Id :
        /\ lastOperation[x] # NoBatch =>
              lastOperation[x] \in eventQueue /\ x \in Ids(events[lastOperation[x]])
        /\ \A c \in eventQueue : x \in Ids(events[c]) =>
              lastOperation[x] # NoBatch /\ c <= lastOperation[x]

(* No add() ends in a ProgrammingError.                                    *)
NothingThrown == \A g \in Group, new \in NewBatches : ~AddThrows(g, new)

LEMMA IdsAreNotEmpty ==
    ASSUME NEW es, NEW x
    PROVE  x \in Ids(es) <=> OfId(es, x) # {}
  BY DEF Ids, OfId

(* Merging one id leaves the others as they are.                           *)
LEMMA MergedOfId ==
    ASSUME NEW g, NEW new, NEW X, NEW x, NEW b
    PROVE  OfId(MergedEvents(g, new, X, b), x) =
               IF x \in X /\ Merges(g, x) THEN Rewritten(new, x, b) ELSE OfId(events[b], x)
<1>1. CASE x \in X /\ Merges(g, x)
  BY <1>1, RewrittenIsOfId DEF MergedEvents, OfId
<1>2. CASE ~(x \in X /\ Merges(g, x))
  BY <1>2, RewrittenIsOfId DEF MergedEvents, OfId
<1> QED  BY <1>1, <1>2

(* A MOVE that is merged leaves an event of the id where it is merged.     *)
LEMMA MoveStays ==
    ASSUME NEW new \in SUBSET Event, NEW x \in Ids(new), NewModification(new, x) = "MOVE"
    PROVE  AfterMove(new, x) # {}
<1>1. OfId(new, x) # {} /\ OfId(new, x) \subseteq Event
  BY IdsAreNotEmpty DEF OfId
<1>2. (CHOOSE e \in OfId(new, x) : TRUE).op \in Op
  <2>1. (CHOOSE e \in OfId(new, x) : TRUE) \in Event
    BY <1>1
  <2> QED  BY <2>1 DEF Event
<1>3. IsMove(OfId(new, x))
  BY <1>2 DEF NewModification, Modification, Op
<1>4. OfOp(OfId(new, x), "CREATE") # {} /\ OfOp(OfId(new, x), "DELETE") # {}
  BY <1>3 DEF IsMove
<1>5. \/ AfterMove(new, x) = OfOp(OfId(new, x), "CREATE")
      \/ AfterMove(new, x) = OfOp(OfId(new, x), "DELETE")
      \/ AfterMove(new, x) = OfOp(OfId(new, x), "CREATE") \union OfOp(LastEvents(x), "DELETE")
  BY Zenon DEF AfterMove
<1> QED  BY <1>4, <1>5

(* What becomes of the map entry of an id, and of its events, when the new *)
(* batch keeps none of its events.                                         *)
LEMMA MergedAway ==
    ASSUME TypeOK, QueueInv, MapInv, NEW g \in Group, NEW new \in SUBSET Event,
           NEW x \in Id, x \notin Ids(NewEvents(g, new)),
           NEW after, after = [c \in Batch |-> MergedEvents(g, new, Ids(new), c)],
           NEW last, last = MergedLast(g, new, Ids(new), x)
    PROVE  /\ last # NoBatch => last \in eventQueue /\ x \in Ids(after[last])
           /\ \A c \in eventQueue : x \in Ids(after[c]) => last # NoBatch /\ c <= last
<1>1. /\ eventQueue \subseteq Batch /\ Batch \subseteq Nat /\ NoBatch \notin Batch
      /\ new \in SUBSET Event
  BY ConstantsAssumption DEF TypeOK, Batch
<1>2. \A c \in eventQueue :
          OfId(after[c], x) = IF x \in Ids(new) /\ Merges(g, x) THEN Rewritten(new, x, c)
                              ELSE OfId(events[c], x)
  BY <1>1, MergedOfId
<1>3. /\ lastOperation[x] # NoBatch =>
            lastOperation[x] \in eventQueue /\ x \in Ids(events[lastOperation[x]])
      /\ \A c \in eventQueue : x \in Ids(events[c]) =>
            lastOperation[x] # NoBatch /\ c <= lastOperation[x]
  BY DEF MapInv
<1>4. CASE ~(x \in Ids(new) /\ Merges(g, x))
  <2>1. last = lastOperation[x]
    BY <1>4 DEF MergedLast
  <2>2. \A c \in eventQueue : x \in Ids(after[c]) <=> x \in Ids(events[c])
    BY <1>2, <1>4, IdsAreNotEmpty
  <2> QED  BY <1>3, <2>1, <2>2
<1>5. CASE x \in Ids(new) /\ Merges(g, x) /\ NewModification(new, x) = "DELETE"
  <2>1. Deleting(x) # {}
    <3> SUFFICES ASSUME Deleting(x) = {} PROVE FALSE
      OBVIOUS
    <3>1. \A e \in OfId(new, x) : KeepsNew(new, x, e)
      BY <1>5 DEF KeepsNew
    <3>2. Appended(g, new, x) = OfId(new, x)
      BY <3>1 DEF Appended
    <3>3. OfId(new, x) \subseteq NewEvents(g, new) /\ OfId(new, x) # {}
      BY <1>5, <3>2, IdsAreNotEmpty DEF NewEvents
    <3> QED  BY <3>3 DEF Ids, OfId
  <2>2. Deleting(x) \subseteq Waiting /\ Waiting \subseteq eventQueue
    BY DEF Deleting, Waiting
  <2>3. last \in Deleting(x) /\ \A c \in Deleting(x) : last <= c
    <3>1. Deleting(x) \in SUBSET Nat /\ Deleting(x) \subseteq Batch
      BY <1>1, <2>2
    <3>2. \E d \in Batch : IsFirstDeleting(d, x)
      BY <2>1, <3>1, LeastExists DEF IsFirstDeleting
    <3>3. last = CHOOSE d \in Batch : IsFirstDeleting(d, x)
      BY <1>5, <2>1 DEF MergedLast
    <3>4. IsFirstDeleting(last, x)
      BY <3>2, <3>3
    <3> QED  BY <3>4 DEF IsFirstDeleting
  <2>4. \A c \in eventQueue : OfId(after[c], x) = AfterDelete(x, c)
    BY <1>2, <1>5, Zenon DEF Rewritten
  <2>5. x \in Ids(after[last])
    <3>1. PICK e \in OfId(events[last], x) : e.op = "DELETE"
      BY <2>3 DEF Deleting, OfOp
    <3>2. e \in AfterDelete(x, last)
      BY <2>1, <2>2, <2>3, <3>1 DEF AfterDelete
    <3> QED  BY <2>2, <2>3, <2>4, <3>2, IdsAreNotEmpty
  <2>6. ASSUME NEW c \in eventQueue, x \in Ids(after[c]) PROVE c <= last
    <3>1. CASE c \in Waiting
      <4>1. \A d \in Deleting(x) : c <= d
        BY <2>4, <2>6, <3>1, IdsAreNotEmpty DEF AfterDelete
      <4> QED  BY <2>3, <4>1
    <3>2. CASE c \notin Waiting
      <4>1. c = processing /\ processing # NoBatch
        BY <1>1, <3>2 DEF Waiting
      <4> QED  BY <2>2, <2>3, <4>1 DEF QueueInv
    <3> QED  BY <3>1, <3>2
  <2>7. last # NoBatch /\ last \in eventQueue
    BY <1>1, <2>2, <2>3
  <2> QED  BY <2>5, <2>6, <2>7
<1>6. CASE x \in Ids(new) /\ Merges(g, x) /\ NewModification(new, x) # "DELETE"
  <2>1. last = lastOperation[x] /\ last # NoBatch
    BY <1>6 DEF MergedLast, Merges
  <2>2. \A c \in eventQueue :
            \/ OfId(after[c], x) = OfId(events[c], x)
            \/ /\ c = last /\ NewModification(new, x) = "MOVE"
               /\ OfId(after[c], x) = AfterMove(new, x)
    <3> SUFFICES ASSUME NEW c \in eventQueue
                 PROVE  \/ OfId(after[c], x) = OfId(events[c], x)
                        \/ /\ c = last /\ NewModification(new, x) = "MOVE"
                           /\ OfId(after[c], x) = AfterMove(new, x)
      OBVIOUS
    <3>1. OfId(after[c], x) = Rewritten(new, x, c)
      BY <1>2, <1>6
    <3>2. CASE NewModification(new, x) = "MOVE" /\ c = lastOperation[x]
      BY <2>1, <3>1, <3>2 DEF Rewritten
    <3>3. CASE ~(NewModification(new, x) = "MOVE" /\ c = lastOperation[x])
      <4>1. Rewritten(new, x, c) = OfId(events[c], x)
        BY <1>6, <3>3 DEF Rewritten
      <4> QED  BY <3>1, <4>1
    <3> QED  BY <3>2, <3>3
  <2>3. last \in eventQueue /\ OfId(events[last], x) # {}
    BY <1>3, <2>1, IdsAreNotEmpty
  <2>4. x \in Ids(after[last])
    BY <1>1, <1>6, <2>2, <2>3, MoveStays, IdsAreNotEmpty
  <2>5. ASSUME NEW c \in eventQueue, x \in Ids(after[c]) PROVE c <= last
    <3>1. CASE c = last
      BY <1>1, <3>1
    <3>2. CASE c # last
      <4>1. x \in Ids(events[c])
        BY <2>2, <2>5, <3>2, IdsAreNotEmpty
      <4> QED  BY <1>3, <2>1, <4>1
    <3> QED  BY <3>1, <3>2
  <2> QED  BY <2>1, <2>3, <2>4, <2>5
<1> QED  BY <1>4, <1>5, <1>6

LEMMA AddKeepsMap ==
    ASSUME TypeOK, QueueInv, MapInv, NEW g \in Group, NEW new \in SUBSET Event, Add(g, new)
    PROVE  MapInv'
<1>1. PICK b : b = added + 1
  OBVIOUS
<1>2. PICK kept : kept = NewEvents(g, new)
  OBVIOUS
<1>3. PICK after : after = [c \in Batch |-> MergedEvents(g, new, Ids(new), c)]
  OBVIOUS
<1>4. /\ eventQueue' = IF kept = {} THEN {c \in eventQueue : after[c] # {}}
                       ELSE {c \in eventQueue : after[c] # {}} \union {b}
      /\ events' = [after EXCEPT ![b] = kept]
      /\ lastOperation' = [x \in Id |-> IF x \in Ids(kept) THEN b
                                        ELSE MergedLast(g, new, Ids(new), x)]
  BY <1>1, <1>2, <1>3 DEF Add
<1>5. /\ b \in Batch /\ b \notin eventQueue /\ eventQueue \subseteq Batch /\ b # NoBatch
      /\ b \in Nat /\ \A c \in eventQueue : c \in Nat /\ c <= b
  <2>1. added \in Nat /\ b \in Batch
    BY <1>1, ConstantsAssumption DEF Add, TypeOK, Batch
  <2>2. eventQueue \subseteq 1..added
    BY DEF QueueInv
  <2> QED  BY <1>1, <2>1, <2>2, ConstantsAssumption DEF TypeOK
<1>6. events'[b] = kept /\ \A c \in eventQueue : events'[c] = after[c]
  BY <1>3, <1>4, <1>5
<1> SUFFICES ASSUME NEW x \in Id
             PROVE  /\ lastOperation'[x] # NoBatch =>
                          /\ lastOperation'[x] \in eventQueue'
                          /\ x \in Ids(events'[lastOperation'[x]])
                    /\ \A c \in eventQueue' : x \in Ids(events'[c]) =>
                          lastOperation'[x] # NoBatch /\ c <= lastOperation'[x]
  BY DEF MapInv, Ids
<1>7. CASE x \in Ids(kept)
  <2>1. lastOperation'[x] = b /\ b \in eventQueue'
    <3>1. kept # {}
      BY <1>7 DEF Ids
    <3> QED  BY <1>4, <1>7, <3>1
  <2>2. \A c \in eventQueue' : c <= b
    BY <1>4, <1>5
  <2> QED  BY <1>5, <1>6, <1>7, <2>1, <2>2
<1>8. CASE x \notin Ids(kept)
  <2>1. PICK last : last = MergedLast(g, new, Ids(new), x)
    OBVIOUS
  <2>2. /\ last # NoBatch => last \in eventQueue /\ x \in Ids(after[last])
        /\ \A c \in eventQueue : x \in Ids(after[c]) => last # NoBatch /\ c <= last
    BY <1>2, <1>3, <1>8, <2>1, MergedAway
  <2>3. lastOperation'[x] = last
    BY <1>4, <1>8, <2>1
  <2>4. \A c \in eventQueue : x \in Ids(after[c]) => c \in eventQueue'
    BY <1>4 DEF Ids
  <2>5. \A c \in eventQueue' : x \in Ids(events'[c]) => c \in eventQueue
    BY <1>4, <1>6, <1>8
  <2> QED  BY <1>6, <2>2, <2>3, <2>4, <2>5
<1> QED  BY <1>7, <1>8

LEMMA SucceedKeepsMap ==
    ASSUME TypeOK, QueueInv, MapInv, NEW b \in Batch, Succeed(b)
    PROVE  MapInv'
<1>1. b \in eventQueue /\ \A c \in eventQueue : b <= c
  BY ConstantsAssumption DEF Succeed, QueueInv, Batch
<1>2. eventQueue \subseteq Batch /\ Batch \subseteq Nat
  BY ConstantsAssumption DEF TypeOK, Batch
<1>3. eventQueue' = eventQueue \ {b}
  <2>1. eventQueue' = {c \in eventQueue : \E d \in eventQueue : d < c}
    BY DEF Succeed
  <2>2. \A c \in eventQueue : (\E d \in eventQueue : d < c) <=> c # b
    BY <1>1, <1>2
  <2> QED  BY <1>1, <2>1, <2>2
<1>4. lastOperation' = [x \in Id |-> IF lastOperation[x] = b /\ x \in Ids(events[b])
                                     THEN NoBatch ELSE lastOperation[x]]
  BY DEF Succeed
<1>5. \A c \in Batch : c # b => events'[c] = events[c]
  BY DEF Succeed, TypeOK
<1> SUFFICES ASSUME NEW x \in Id
             PROVE  /\ lastOperation'[x] # NoBatch =>
                          /\ lastOperation'[x] \in eventQueue'
                          /\ x \in Ids(events'[lastOperation'[x]])
                    /\ \A c \in eventQueue' : x \in Ids(events'[c]) =>
                          lastOperation'[x] # NoBatch /\ c <= lastOperation'[x]
  BY DEF MapInv, Ids
<1>6. /\ lastOperation[x] # NoBatch =>
            lastOperation[x] \in eventQueue /\ x \in Ids(events[lastOperation[x]])
      /\ \A c \in eventQueue : x \in Ids(events[c]) =>
            lastOperation[x] # NoBatch /\ c <= lastOperation[x]
  BY DEF MapInv
<1>7. lastOperation'[x] # NoBatch => lastOperation'[x] = lastOperation[x] /\ lastOperation[x] # b
  BY <1>4, <1>6
<1>8. ASSUME NEW c \in eventQueue', x \in Ids(events'[c])
      PROVE  lastOperation'[x] # NoBatch /\ c <= lastOperation'[x]
  <2>1. c \in eventQueue /\ c # b /\ b <= c /\ c \in Nat /\ b \in Nat /\ x \in Ids(events[c])
    BY <1>1, <1>2, <1>3, <1>5, <1>8
  <2>2. lastOperation[x] # NoBatch /\ c <= lastOperation[x] /\ lastOperation[x] \in Nat
    BY <1>2, <1>6, <2>1
  <2>3. lastOperation[x] # b
    BY <2>1, <2>2
  <2> QED  BY <1>4, <2>2, <2>3
<1> QED  BY <1>2, <1>3, <1>5, <1>6, <1>7, <1>8

LEMMA MapStep ==
    ASSUME ~ClearAnytime, TypeOK, QueueInv, MapInv, [Next]_vars, [NothingThrown]_vars
    PROVE  MapInv'
<1>1. ASSUME NEW g \in Group, NEW new \in NewBatches, Add(g, new) PROVE MapInv'
  BY <1>1, ConstantsAssumption, AddKeepsMap
<1>2. ASSUME NEW g \in Group, NEW new \in NewBatches, AddThrows(g, new) PROVE MapInv'
  <2>1. CASE NothingThrown
    BY <1>2, <2>1 DEF NothingThrown
  <2>2. CASE UNCHANGED vars
    BY <2>2 DEF vars, MapInv, Ids
  <2> QED  BY <2>1, <2>2
<1>3. ASSUME NEW b \in Batch, Succeed(b) PROVE MapInv'
  BY <1>3, SucceedKeepsMap
<1>4. CASE Clear
  BY <1>4 DEF Clear, MapInv
<1>5. ASSUME \/ \E b \in Batch : Fail(b)
             \/ Pause \/ Resume
             \/ UNCHANGED vars
      PROVE  MapInv'
  <2>1. UNCHANGED <<eventQueue, events, lastOperation>>
    BY <1>5 DEF Fail, Pause, Resume, vars
  <2> QED  BY <2>1 DEF MapInv, Ids
<1> QED  BY <1>1, <1>2, <1>3, <1>4, <1>5 DEF Next

(* As long as no add() ends in a ProgrammingError, the map points to the   *)
(* newest batch of the queue with an event for the id, so that merging     *)
(* never changes the order of operations (EventQueue.ts:137-250).  After   *)
(* such an error it may not: the merged ids of the lost batch are gone     *)
(* from the queue while their entries stay.                                *)
THEOREM LastOperationIsNewestAlways ==
    ASSUME ~ClearAnytime
    PROVE  Spec /\ [][NothingThrown]_vars => []LastOperationIsNewest
<1>1. Init => MapInv
  BY DEF Init, MapInv
<1>2. TypeOK /\ QueueInv /\ MapInv /\ [Next]_vars /\ [NothingThrown]_vars => MapInv'
  BY MapStep
<1>3. TypeOK /\ MapInv => LastOperationIsNewest
  BY DEF MapInv, LastOperationIsNewest
<1> QED  BY <1>1, <1>2, <1>3, InvAlways, PTL DEF Spec
=============================================================================
