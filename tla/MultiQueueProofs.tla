-------------------------- MODULE MultiQueueProofs --------------------------
(***************************************************************************)
(* Proofs about MultiQueue, for any numbers of edges, of threads and of     *)
(* elements: its invariant, that no wake-up is lost, and that every step is *)
(* a step of Rendezvous or changes nothing there.                           *)
(***************************************************************************)
EXTENDS MultiQueue, FiniteSetTheorems, TLAPS

-----------------------------------------------------------------------------
(* Data.                                                                   *)

\* With fewer edges than bits in an int the mask of a full queue is all places.
LEMMA FullIsPlaces == Full = Places /\ Places # {}
<1>1. NumElems \in Nat \ {0} /\ Width \in Nat \ {0} /\ NumElems < Width
  BY ConstantsAssumption
<1>2. ASSUME NEW n \in Nat, NEW w \in Nat, n < w
      PROVE  n % w = n
  BY <1>2
<1>3. NumElems % Width = NumElems
  BY <1>1, <1>2
<1>4. Full = Places
  BY <1>3 DEF Full, Places
<1>5. 0 \in Places
  BY <1>1 DEF Places
<1> QED BY <1>4, <1>5

\* There are finitely many pushers, so that those of a place can be counted.
LEMMA SuspendedFinite ==
  ASSUME NEW i
  PROVE  IsFiniteSet(OnPlace(i)) /\ IsFiniteSet(Suspended(i))
<1>1. IsFiniteSet(Places) /\ IsFiniteSet(1 .. PerElem)
  BY FS_Interval, ConstantsAssumption DEF Places
<1>2. IsFiniteSet(Pushers)
  BY <1>1, FS_Product DEF Pushers
<1>3. OnPlace(i) \in SUBSET Pushers /\ Suspended(i) \in SUBSET Pushers
  BY DEF OnPlace, Suspended
<1> QED BY <1>2, <1>3, FS_Subset

\* A thread that waits on a place makes its counter positive, so that a pop
\* signals the place.
LEMMA BlockedCounts ==
  ASSUME TypeOK, WaitingCounts, NEW i \in Places, Blocked(OnPlace(i)) # {}
  PROVE  waiting[i] > 0
<1>1. Blocked(OnPlace(i)) \subseteq Suspended(i)
  BY DEF Blocked, Suspended
<1>2. Cardinality(Suspended(i)) # 0
  BY <1>1, SuspendedFinite, FS_EmptySet
<1> QED BY <1>2 DEF TypeOK, WaitingCounts

\* Pushers and poppers are different threads, and an element is not Empty.
LEMMA Distinct ==
  /\ \A p \in Pushers : p \notin Poppers /\ p[1] \in Places
  /\ \A p \in Pushers, n \in 1 .. Rounds : <<p, n>> # Empty
  BY ConstantsAssumption DEF Pushers, Places

-----------------------------------------------------------------------------
(* The invariant.                                                          *)

Inv == QueueInv /\ NoLostWakeup

LEMMA InitInv == Init => Inv
<1> SUFFICES ASSUME Init PROVE Inv
  OBVIOUS
<1>1. TypeOK
  BY ConstantsAssumption DEF Init, TypeOK
<1>2. WaitingCounts
  <2> SUFFICES ASSUME NEW i \in Places PROVE waiting[i] = Cardinality(Suspended(i))
    BY DEF WaitingCounts
  <2>1. Suspended(i) = {}
    BY DEF Init, Suspended, OnPlace
  <2> QED BY <2>1, FS_EmptySet DEF Init
<1>3. Filled
  BY DEF Init, Filled
<1>4. NoLostWakeup
  BY DEF Init, NoLostWakeup, Blocked, OnPlace
<1> QED BY <1>1, <1>2, <1>3, <1>4 DEF Inv, QueueInv

\* A step that wakes some threads, all of them suspended, and lets one thread
\* leave changes only the counter of the place this thread is on.
LEMMA CountsKept ==
  ASSUME TypeOK, WaitingCounts, NEW i \in Places,
         Suspended(i)' = Suspended(i), waiting'[i] = waiting[i]
  PROVE  waiting'[i] = Cardinality(Suspended(i))'
  BY DEF WaitingCounts

LEMMA PushWaitsInv ==
  ASSUME Inv, NEW p \in Pushers, PushWaits(p)
  PROVE  Inv'
<1> USE DEF Inv, QueueInv
<1>1. p[1] \in Places /\ p \notin Poppers
  BY Distinct
<1>2. pc' = [pc EXCEPT ![p] = "blocked"] /\ pc[p] \in {"out", "woken"}
  BY DEF PushWaits, Pushing
<1>3. waiting' = [waiting EXCEPT ![p[1]] = Waiting(p) + 1]
  BY DEF PushWaits
<1>4. Suspended(p[1])' = Suspended(p[1]) \cup {p}
  BY <1>2 DEF TypeOK, Suspended, OnPlace
<1>5. Cardinality(Suspended(p[1])) \in Nat /\ waiting[p[1]] = Cardinality(Suspended(p[1]))
  BY <1>1 DEF TypeOK, WaitingCounts
<1>6. p \in Suspended(p[1]) <=> pc[p] = "woken"
  BY <1>2 DEF Suspended, OnPlace
<1>7. /\ Cardinality(Suspended(p[1]) \cup {p}) = Waiting(p) + 1
      /\ Waiting(p) + 1 \in Nat
  <2>1. Cardinality(Suspended(p[1]) \cup {p}) =
          IF pc[p] = "woken" THEN waiting[p[1]] ELSE waiting[p[1]] + 1
    BY <1>5, <1>6, SuspendedFinite, FS_AddElement
  <2> QED BY <2>1, <1>5 DEF Waiting
<1>8. TypeOK'
  BY <1>1, <1>2, <1>3, <1>7 DEF TypeOK, PushWaits
<1>9. WaitingCounts'
  <2> SUFFICES ASSUME NEW i \in Places PROVE (waiting[i] = Cardinality(Suspended(i)))'
    BY DEF WaitingCounts
  <2>1. CASE i = p[1]
    BY <2>1, <1>1, <1>3, <1>4, <1>7 DEF TypeOK
  <2>2. CASE i # p[1]
    <3>1. Suspended(i)' = Suspended(i)
      BY <2>2, <1>2 DEF TypeOK, Suspended, OnPlace
    <3> QED BY <3>1, <2>2, <1>1, <1>3 DEF TypeOK, WaitingCounts
  <2> QED BY <2>1, <2>2
<1>10. Filled'
  BY <1>2 DEF Filled, PushWaits, Pushing, TypeOK
<1>11. NoLostWakeup'
  <2>1. p[1] \in busy_mask /\ UNCHANGED busy_mask
    BY DEF PushWaits
  <2>2. Blocked(Poppers)' = Blocked(Poppers) /\ \A q \in Poppers : pc'[q] = pc[q]
    BY <1>1, <1>2 DEF TypeOK, Blocked
  <2>3. \A i \in Places \ busy_mask :
          Blocked(OnPlace(i))' = Blocked(OnPlace(i)) /\ \A r \in OnPlace(i) : pc'[r] = pc[r]
    BY <2>1, <1>2 DEF TypeOK, Blocked, OnPlace
  <2>4. (busy_mask = Full /\ Blocked(Poppers) # {} => \E q \in Poppers : pc[q] = "woken")'
    BY <2>1, <2>2 DEF NoLostWakeup, Full
  <2>5. ASSUME NEW i \in Places \ busy_mask, Blocked(OnPlace(i))' # {}
        PROVE  \E r \in OnPlace(i) : pc'[r] = "woken"
    BY <2>3, <2>5 DEF NoLostWakeup
  <2> QED BY <2>1, <2>4, <2>5 DEF NoLostWakeup, OnPlace, Places
<1> QED BY <1>8, <1>9, <1>10, <1>11

LEMMA PushFillsInv ==
  ASSUME Inv, NEW p \in Pushers, PushFills(p)
  PROVE  Inv'
<1> USE DEF Inv, QueueInv
<1>1. p[1] \in Places /\ p \notin Poppers
  BY Distinct
<1>2. PICK woken \in SignalReady(busy_mask') :
        pc' = [t \in DOMAIN pc |-> IF t = p THEN "out"
                                   ELSE IF t \in woken THEN "woken" ELSE pc[t]]
  BY DEF PushFills
<1>3. woken \subseteq Blocked(Poppers)
  BY <1>2 DEF SignalReady
<1>4. pc[p] \in {"out", "woken"} /\ sent[p] < Rounds
  BY DEF PushFills, Pushing, Filled
<1>5. /\ waiting' = [waiting EXCEPT ![p[1]] = Waiting(p)]
      /\ elems' = [elems EXCEPT ![p[1]] = <<p, sent[p] + 1>>]
      /\ busy_mask' = busy_mask \cup {p[1]}
      /\ sent' = [sent EXCEPT ![p] = @ + 1]
  BY DEF PushFills
<1>6. \A r \in Pushers : pc'[r] = IF r = p THEN "out" ELSE pc[r]
  BY <1>2, <1>3, Distinct DEF TypeOK, Blocked
<1>7. Suspended(p[1])' = Suspended(p[1]) \ {p}
  BY <1>6 DEF Suspended, OnPlace
<1>8. Cardinality(Suspended(p[1])) \in Nat /\ waiting[p[1]] = Cardinality(Suspended(p[1]))
  BY <1>1 DEF TypeOK, WaitingCounts
<1>9. p \in Suspended(p[1]) <=> pc[p] = "woken"
  BY <1>4 DEF Suspended, OnPlace
<1>10. Cardinality(Suspended(p[1]) \ {p}) = Waiting(p) /\ Waiting(p) \in Nat
  <2>1. Cardinality(Suspended(p[1]) \ {p}) =
          IF pc[p] = "woken" THEN waiting[p[1]] - 1 ELSE waiting[p[1]]
    <3>1. CASE p \in Suspended(p[1])
      BY <1>8, <1>9, <3>1, SuspendedFinite, FS_RemoveElement
    <3>2. CASE p \notin Suspended(p[1])
      <4>1. Suspended(p[1]) \ {p} = Suspended(p[1])
        BY <3>2
      <4> QED BY <1>8, <1>9, <3>2, <4>1
    <3> QED BY <3>1, <3>2
  <2>2. pc[p] = "woken" => waiting[p[1]] # 0
    BY <1>8, <1>9, SuspendedFinite, FS_EmptySet
  <2> QED BY <2>1, <2>2, <1>8 DEF Waiting
<1>11. TypeOK'
  <2>1. sent[p] + 1 \in 1 .. Rounds /\ sent[p] + 1 \in 0 .. Rounds
    BY <1>4, ConstantsAssumption DEF TypeOK
  <2>2. <<p, sent[p] + 1>> \in Pushers \X (1 .. Rounds)
    BY <2>1
  <2>3. elems' \in [Places -> (Pushers \X (1 .. Rounds)) \cup {Empty}]
    BY <2>2, <1>5 DEF TypeOK
  <2>4. pc' \in [Pushers \cup Poppers -> {"out", "blocked", "woken"}]
    BY <1>2 DEF TypeOK
  <2> QED BY <2>1, <2>3, <2>4, <1>1, <1>5, <1>10 DEF TypeOK
<1>12. WaitingCounts'
  <2> SUFFICES ASSUME NEW i \in Places PROVE (waiting[i] = Cardinality(Suspended(i)))'
    BY DEF WaitingCounts
  <2>1. CASE i = p[1]
    BY <2>1, <1>1, <1>5, <1>7, <1>10 DEF TypeOK
  <2>2. CASE i # p[1]
    <3>1. Suspended(i)' = Suspended(i)
      BY <2>2, <1>6 DEF Suspended, OnPlace
    <3> QED BY <3>1, <2>2, <1>1, <1>5 DEF TypeOK, WaitingCounts
  <2> QED BY <2>1, <2>2
<1>13. Filled'
  <2>1. <<p, sent[p] + 1>> # Empty
    BY <1>4, Distinct, ConstantsAssumption DEF TypeOK
  <2>2. \A i \in busy_mask' : elems'[i] # Empty
    BY <2>1, <1>1, <1>5 DEF TypeOK, Filled
  <2>3. \A r \in Pushers : pc'[r] # "out" => sent'[r] < Rounds
    BY <1>5, <1>6 DEF TypeOK, Filled
  <2> QED BY <2>2, <2>3 DEF Filled, Pushers, Places
<1>14. NoLostWakeup'
  <2>1. ASSUME busy_mask' = Full, Blocked(Poppers)' # {}
        PROVE  \E q \in Poppers : pc'[q] = "woken"
    <3>1. \A q \in Poppers : pc'[q] = IF q \in woken THEN "woken" ELSE pc[q]
      BY <1>1, <1>2 DEF TypeOK
    <3>2. Blocked(Poppers) # {}
      BY <2>1, <3>1 DEF Blocked
    <3>3. PICK q \in Blocked(Poppers) : woken = {q}
      BY <2>1, <3>2, <1>2 DEF SignalReady
    <3> QED BY <3>1, <3>3 DEF Blocked
  <2>2. ASSUME NEW i \in Places \ busy_mask', Blocked(OnPlace(i))' # {}
        PROVE  \E r \in OnPlace(i) : pc'[r] = "woken"
    <3>1. \A r \in OnPlace(i) : r \in Pushers /\ pc'[r] = pc[r]
      BY <2>2, <1>5, <1>6 DEF OnPlace
    <3>2. i \in Places \ busy_mask /\ Blocked(OnPlace(i)) # {}
      BY <2>2, <3>1, <1>5 DEF Blocked
    <3> QED BY <3>1, <3>2 DEF NoLostWakeup
  <2> QED BY <2>1, <2>2 DEF NoLostWakeup, OnPlace, Places, Full, Pushers
<1> QED BY <1>11, <1>12, <1>13, <1>14

LEMMA PopWaitsInv ==
  ASSUME Inv, NEW q \in Poppers, PopWaits(q)
  PROVE  Inv'
<1> USE DEF Inv, QueueInv
<1>1. /\ pc' = [pc EXCEPT ![q] = "blocked"]
      /\ UNCHANGED <<elems, busy_mask, waiting, sent, taken>>
      /\ busy_mask # Full
  BY DEF PopWaits
<1>2. \A r \in Pushers : pc'[r] = pc[r]
  BY <1>1, Distinct DEF TypeOK
<1>3. TypeOK'
  BY <1>1 DEF TypeOK
<1>4. WaitingCounts'
  <2> SUFFICES ASSUME NEW i \in Places PROVE (waiting[i] = Cardinality(Suspended(i)))'
    BY DEF WaitingCounts
  <2>1. Suspended(i)' = Suspended(i)
    BY <1>2 DEF Suspended, OnPlace
  <2> QED BY <2>1, <1>1 DEF WaitingCounts
<1>5. Filled'
  BY <1>1, <1>2 DEF Filled, Pushers, Places
<1>6. NoLostWakeup'
  <2>1. ASSUME NEW i \in Places \ busy_mask', Blocked(OnPlace(i))' # {}
        PROVE  \E r \in OnPlace(i) : pc'[r] = "woken"
    <3>1. \A r \in OnPlace(i) : pc'[r] = pc[r]
      BY <1>2 DEF OnPlace
    <3>2. i \in Places \ busy_mask /\ Blocked(OnPlace(i)) # {}
      BY <2>1, <3>1, <1>1 DEF Blocked
    <3> QED BY <3>1, <3>2 DEF NoLostWakeup
  <2>2. busy_mask' # Full
    BY <1>1
  <2> QED BY <2>1, <2>2 DEF NoLostWakeup, OnPlace, Places, Full, Pushers
<1> QED BY <1>3, <1>4, <1>5, <1>6

\* A pop frees every place, and wakes a thread on each that has one waiting.
LEMMA PopTakesInv ==
  ASSUME Inv, NEW q \in Poppers, PopTakes(q)
  PROVE  Inv'
<1> USE DEF Inv, QueueInv
<1>1. PICK woken \in SignalBusy :
        pc' = [t \in DOMAIN pc |-> IF t = q THEN "out"
                                   ELSE IF t \in woken THEN "woken" ELSE pc[t]]
  BY DEF PopTakes
<1>2. busy_mask' = {} /\ UNCHANGED <<elems, waiting, sent>>
  BY DEF PopTakes
<1>3. /\ woken \subseteq Blocked(Pushers)
      /\ \A i \in Places : Cardinality(woken \cap OnPlace(i)) =
           IF waiting[i] > 0 /\ Blocked(OnPlace(i)) # {} THEN 1 ELSE 0
  BY DEF SignalBusy
<1>4. \A r \in Pushers : pc'[r] = IF r \in woken THEN "woken" ELSE pc[r]
  BY <1>1, Distinct DEF TypeOK
<1>5. \A r \in Pushers : pc'[r] # "out" <=> pc[r] # "out"
  BY <1>3, <1>4 DEF Blocked
<1>6. TypeOK'
  <2>1. pc' \in [Pushers \cup Poppers -> {"out", "blocked", "woken"}]
    BY <1>1 DEF TypeOK
  <2> QED BY <2>1, <1>2 DEF TypeOK
<1>7. WaitingCounts'
  <2> SUFFICES ASSUME NEW i \in Places PROVE (waiting[i] = Cardinality(Suspended(i)))'
    BY DEF WaitingCounts
  <2>1. Suspended(i)' = Suspended(i)
    BY <1>5 DEF Suspended, OnPlace
  <2> QED BY <2>1, <1>2 DEF WaitingCounts
<1>8. Filled'
  BY <1>2, <1>5 DEF Filled, Pushers, Places
<1>9. NoLostWakeup'
  <2>1. busy_mask' # Full
    BY <1>2, FullIsPlaces
  <2>2. ASSUME NEW i \in Places, Blocked(OnPlace(i))' # {}
        PROVE  \E r \in OnPlace(i) : pc'[r] = "woken"
    <3>1. Blocked(OnPlace(i)) # {}
      BY <2>2, <1>4 DEF Blocked, OnPlace
    <3>2. waiting[i] > 0
      BY <3>1, BlockedCounts
    <3>3. Cardinality(woken \cap OnPlace(i)) = 1
      BY <3>1, <3>2, <1>3
    <3>4. woken \cap OnPlace(i) # {}
      BY <3>3, FS_EmptySet
    <3> QED BY <3>4, <1>4 DEF OnPlace
  <2> QED BY <2>1, <2>2, <1>2 DEF NoLostWakeup, OnPlace, Places, Full, Pushers
<1> QED BY <1>6, <1>7, <1>8, <1>9

LEMMA SpuriousInv ==
  ASSUME Inv, NEW t \in DOMAIN pc, Spurious(t)
  PROVE  Inv'
<1> USE DEF Inv, QueueInv
<1>1. /\ pc[t] = "blocked"
      /\ pc' = [pc EXCEPT ![t] = "woken"]
      /\ UNCHANGED <<elems, busy_mask, waiting, sent, taken>>
  BY DEF Spurious
<1>2. \A r \in DOMAIN pc : pc'[r] = IF r = t THEN "woken" ELSE pc[r]
  BY <1>1 DEF TypeOK
<1>3. DOMAIN pc = Pushers \cup Poppers
  BY DEF TypeOK
<1>4. TypeOK'
  BY <1>1 DEF TypeOK
<1>5. WaitingCounts'
  <2> SUFFICES ASSUME NEW i \in Places PROVE (waiting[i] = Cardinality(Suspended(i)))'
    BY DEF WaitingCounts
  <2>1. Suspended(i)' = Suspended(i)
    BY <1>1, <1>2, <1>3 DEF Suspended, OnPlace
  <2> QED BY <2>1, <1>1 DEF WaitingCounts
<1>6. Filled'
  BY <1>1, <1>2, <1>3 DEF Filled, Pushers, Places
<1>7. NoLostWakeup'
  <2>1. ASSUME NEW T \in SUBSET DOMAIN pc, Blocked(T)' # {},
               Blocked(T) # {} => \E r \in T : pc[r] = "woken"
        PROVE  \E r \in T : pc'[r] = "woken"
    BY <2>1, <1>2 DEF Blocked
  <2>2. \A i \in Places : OnPlace(i) \in SUBSET DOMAIN pc
    BY <1>3 DEF OnPlace
  <2>3. (busy_mask = Full /\ Blocked(Poppers) # {} => \E q \in Poppers : pc[q] = "woken")'
    BY <2>1, <1>1, <1>3 DEF NoLostWakeup, Full
  <2>4. ASSUME NEW i \in Places \ busy_mask', Blocked(OnPlace(i))' # {}
        PROVE  \E r \in OnPlace(i) : pc'[r] = "woken"
    BY <2>1, <2>2, <2>4, <1>1 DEF NoLostWakeup
  <2> QED BY <2>3, <2>4 DEF NoLostWakeup, OnPlace, Places, Pushers
<1> QED BY <1>4, <1>5, <1>6, <1>7

LEMMA NextInv == Inv /\ [Next]_vars => Inv'
<1> SUFFICES ASSUME Inv, [Next]_vars PROVE Inv'
  OBVIOUS
<1>1. CASE \E p \in Pushers : PushStep(p)
  BY <1>1, PushWaitsInv, PushFillsInv DEF PushStep
<1>2. CASE \E q \in Poppers : PopStep(q)
  BY <1>2, PopWaitsInv, PopTakesInv DEF PopStep
<1>3. CASE \E t \in DOMAIN pc : Spurious(t)
  BY <1>3, SpuriousInv
<1>4. CASE UNCHANGED vars
  BY <1>4 DEF vars, Inv, QueueInv, TypeOK, WaitingCounts, Filled, NoLostWakeup,
              Suspended, OnPlace, Blocked, Places, Pushers, Full
<1> QED BY <1>1, <1>2, <1>3, <1>4 DEF Next

-----------------------------------------------------------------------------
(* Theorems.                                                               *)

\* The queue's counters, its mask and its threads always agree: waiting[i] is
\* the number of threads in pthread_cond_wait on place i, so that a pop knows
\* from it where to signal (multi_queue.h:89).
THEOREM QueueConsistent == Spec => []QueueInv
<1>1. Spec => []Inv
  BY InitInv, NextInv, PTL DEF Spec
<1>2. Inv => QueueInv
  BY DEF Inv
<1> QED BY <1>1, <1>2, PTL

\* No wake-up is lost: whoever is suspended on a condition that holds is
\* preceded by a thread that was woken for it (multi_queue.h:60, 70, 81, 91).
THEOREM WakeupsNotLost == Spec => []NoLostWakeup
<1>1. Spec => []Inv
  BY InitInv, NextInv, PTL DEF Spec
<1>2. Inv => NoLostWakeup
  BY DEF Inv
<1> QED BY <1>1, <1>2, PTL

\* What the places of the abstract queue hold: the elements marked busy.
Marked == [i \in Places |-> IF i \in busy_mask THEN elems[i] ELSE Empty]

LEMMA InitRefines == Init => Queue!Init
BY DEF Init, Queue!Init, Queue!NoElems, Queue!Places, Queue!Pushers, Places, Pushers

\* A push that fills its place is one of Rendezvous.
LEMMA PushRefines ==
  ASSUME Inv, NEW p \in Pushers, PushFills(p)
  PROVE  Queue!Push(p)
<1>1. p[1] \in Places /\ sent[p] < Rounds /\ p[1] \notin busy_mask
  BY Distinct DEF Inv, QueueInv, Filled, PushFills, Pushing
<1>2. /\ elems' = [elems EXCEPT ![p[1]] = <<p, sent[p] + 1>>]
      /\ busy_mask' = busy_mask \cup {p[1]}
      /\ sent' = [sent EXCEPT ![p] = @ + 1]
      /\ taken' = taken
  BY DEF PushFills
<1>3. Marked' = [Marked EXCEPT ![p[1]] = <<p, sent[p] + 1>>]
  BY <1>1, <1>2 DEF Marked, Inv, QueueInv, TypeOK
<1>4. Marked[p[1]] = Empty
  BY <1>1 DEF Marked
<1> QED BY <1>1, <1>2, <1>3, <1>4 DEF Queue!Push, Marked

\* A pop takes what is in every place, and leaves none taken.
LEMMA PopRefines ==
  ASSUME Inv, NEW q \in Poppers, PopTakes(q)
  PROVE  Queue!Pop
<1>1. busy_mask = Places
  BY FullIsPlaces DEF PopTakes
<1>2. Marked = elems /\ \A i \in Places : Marked[i] # Empty
  BY <1>1 DEF Marked, Inv, QueueInv, TypeOK, Filled
<1>3. Marked' = [i \in Places |-> Empty]
  BY DEF Marked, PopTakes, Places
<1>4. taken' = Append(taken, Marked) /\ sent' = sent
  BY <1>2 DEF PopTakes
<1> QED BY <1>2, <1>3, <1>4 DEF Queue!Pop, Queue!NoElems, Queue!Places, Marked, Places

\* Everything else happens to threads, not to the queue.
LEMMA ThreadsStutter ==
  ASSUME UNCHANGED <<elems, busy_mask, sent, taken>>
  PROVE  UNCHANGED Queue!vars
BY DEF Queue!vars, Places

LEMMA NextRefines == Inv /\ [Next]_vars => [Queue!Next]_(Queue!vars)
<1> SUFFICES ASSUME Inv, [Next]_vars PROVE [Queue!Next]_(Queue!vars)
  OBVIOUS
<1>1. ASSUME NEW p \in Pushers, PushStep(p) PROVE [Queue!Next]_(Queue!vars)
  <2>1. CASE PushFills(p)
    <3>1. p \in Queue!Pushers
      BY DEF Queue!Pushers, Queue!Places, Pushers, Places
    <3> QED BY <2>1, <3>1, PushRefines DEF Queue!Next
  <2>2. CASE PushWaits(p)
    BY <2>2, ThreadsStutter DEF PushWaits
  <2> QED BY <1>1, <2>1, <2>2 DEF PushStep
<1>2. ASSUME NEW q \in Poppers, PopStep(q) PROVE [Queue!Next]_(Queue!vars)
  <2>1. CASE PopTakes(q)
    BY <2>1, PopRefines DEF Queue!Next
  <2>2. CASE PopWaits(q)
    BY <2>2, ThreadsStutter DEF PopWaits
  <2> QED BY <1>2, <2>1, <2>2 DEF PopStep
<1>3. ASSUME NEW t \in DOMAIN pc, Spurious(t) PROVE [Queue!Next]_(Queue!vars)
  BY <1>3, ThreadsStutter DEF Spurious
<1>4. CASE UNCHANGED vars
  BY <1>4, ThreadsStutter DEF vars
<1> QED BY <1>1, <1>2, <1>3, <1>4 DEF Next

\* The threads implement the queue: whatever they do, under the mutex and woken
\* in whatever order, is a push into a free place, a pop of all places, or
\* nothing.  No element is lost, overwritten or returned twice.  (That pushes
\* and pops happen, the rest of ImplementsQueue, is left to TLC.)
THEOREM QueueImplemented == Spec => Queue!Init /\ [][Queue!Next]_(Queue!vars)
<1>1. Spec => []Inv
  BY InitInv, NextInv, PTL DEF Spec
<1> QED BY <1>1, InitRefines, NextRefines, PTL DEF Spec

=============================================================================
