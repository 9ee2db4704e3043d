-------------------------- MODULE CyclicTestProofs --------------------------
(***************************************************************************)
(* Proofs about the hardware tests (CyclicTest): the request of the cyclic *)
(* client and the byte that lets it go on are one token, nothing refers to *)
(* a request that is being rebuilt, and the mock scheduler never computes  *)
(* in a slot it has not just configured.  They are shown for every layout, *)
(* every order of tasks, both kinds of slots, and also when accelerators   *)
(* finish while their watchdog expires and when drivers fail.              *)
(***************************************************************************)
EXTENDS CyclicTest, FredSchedProofs, FiniteSetTheorems

-----------------------------------------------------------------------------
(* The inductive invariant.                                                *)

\* Every slot but those of set is free.
FreeBut(set) == \A s \in Slots : s \in set \/ IsAvailable(s)

NoneQueued == \A p \in Partitions : partQ[p] = << >>

\* The request and its place.
AtRest == waiting = {} /\ prog = None /\ NoneQueued /\ FreeBut({})

InQueue ==
    /\ waiting = {cyclic} /\ prog = None /\ FreeBut({})
    /\ \A p \in Partitions : partQ[p] \in {<< >>, <<cyclic>>}

OnDevice ==
    /\ waiting = {cyclic} /\ prog = cyclic /\ NoneQueued
    /\ req[cyclic].hw_task \in HwTasks /\ req[cyclic].slot \in Slots
    /\ LET s == req[cyclic].slot
       IN  slot[s].state = "RCFG" /\ slot[s].hw_task = req[cyclic].hw_task /\ FreeBut({s})

InSlot ==
    /\ waiting = {cyclic} /\ prog = None /\ NoneQueued
    /\ req[cyclic].hw_task \in HwTasks /\ req[cyclic].slot \in Slots
    /\ LET s == req[cyclic].slot
       IN  Executing(cyclic, s) /\ FreeBut({s})

\* A running watchdog, an interrupt and the end of a reconfiguration are those
\* of the one request, an interrupt perhaps of an earlier turn.
EventsKept ==
    /\ \A s \in Slots : timer[s].state # "disarmed" => Executing(cyclic, s) /\ timer[s].exec_req = cyclic
    /\ \A s \in irq \cup batch.slot : slot[s].exec_req = cyclic
    /\ rcfgDone => prog = cyclic
    /\ batch.devcfg => rcfgDone

TestKept ==
    /\ TypeOK
    /\ world \in Worlds /\ next \in DOMAIN Tasks
    /\ bytes = IF waiting = {} THEN 1 ELSE 0
    /\ fri = << >> /\ ~req[cyclic].skip_rcfg
    /\ AtRest \/ InQueue \/ OnDevice \/ InSlot
    /\ EventsKept

-----------------------------------------------------------------------------
(* The one client.                                                         *)

LEMMA OneClient ==
  /\ cyclic \in Clients /\ Clients = {cyclic} /\ None # cyclic
  /\ Cardinality({}) = 0 /\ Cardinality({cyclic}) = 1
<1>1. PICK c \in Clients : Clients = {c}
  BY TestAssumption
<1>2. cyclic \in Clients
  BY <1>1 DEF cyclic
<1>3. Clients = {cyclic}
  BY <1>1, <1>2
<1>4. None # cyclic
  BY <1>2, ConstantsAssumption
<1>5. Cardinality({}) = 0 /\ Cardinality({cyclic}) = 1
  BY FS_EmptySet, FS_Singleton
<1> QED BY <1>2, <1>3, <1>4, <1>5

\* A list of tasks is not empty, and its cursor stays inside it.
LEMMA TaskTurns ==
  ASSUME world \in Worlds, next \in DOMAIN Tasks
  PROVE  /\ Tasks[next] \in HwTasks
         /\ PartOfTask[Tasks[next]] \in Partitions
         /\ NextTask \in DOMAIN Tasks
<1>1. world \in World
  BY TestAssumption
<1>2. Tasks \in Seq(HwTasks) /\ Tasks # << >>
  BY <1>1 DEF World, Tasks
<1>3. DOMAIN Tasks = 1 .. Len(Tasks) /\ Len(Tasks) \in Nat /\ Len(Tasks) # 0
  BY <1>2, EmptySeq, LenProperties
<1>4. Tasks[next] \in HwTasks
  BY <1>2, <1>3, ElementOfSeq
<1>5. PartOfTask[Tasks[next]] \in Partitions
  BY <1>4, ConstantsAssumption
<1> DEFINE n == Len(Tasks)
           i == next
<1>6. n \in Nat /\ n > 0 /\ i \in Nat
  BY <1>3
<1> HIDE DEF n, i
<1>7. (i % n) + 1 \in 1 .. n
  BY <1>6
<1>8. NextTask \in DOMAIN Tasks
  BY <1>3, <1>7 DEF NextTask, n, i
<1> QED BY <1>4, <1>5, <1>8

-----------------------------------------------------------------------------
(* The reconfiguration device.                                             *)

\* With nothing in the FRI queue start_rcfg_ leaves the device idle.
LEMMA StartsNothing ==
  ASSUME NEW rq \in [Clients -> AccelReq],
         NEW sl \in [Slots -> Slot], NEW tm \in [Slots -> Timer],
         StartRcfg(<< >>, rq, sl, tm)
  PROVE  /\ slot' = sl /\ timer' = tm
         /\ prog' = None /\ fri' = << >>
         /\ server' \in {"up", "down"}
<1> DEFINE q == << >>
<1>1. q \in Seq(Clients) /\ IsInjective(q) /\ ToSet(q) = {}
  BY DEF IsInjective, ToSet
<1>2. StartRcfg(q, rq, sl, tm)
  OBVIOUS
<1> HIDE DEF q
<1>3. /\ \A c \in ToSet(q) : rq[c].slot \in Slots /\ sl[rq[c].slot].state = "RSRV"
      /\ \A c, d \in ToSet(q) : rq[c].slot = rq[d].slot => c = d
  BY <1>1
<1>4. PICK run, conf : Started(run, conf, q, rq, sl, tm)
  BY <1>1, <1>2, <1>3, StartRcfgEffect
<1>5. run = {} /\ conf = {}
  BY <1>1, <1>4 DEF Started
<1>6. \A s \in Slots : slot'[s] = sl[s] /\ timer'[s] = tm[s]
  BY <1>4, <1>5 DEF Started
<1>7. slot' = [s \in Slots |-> slot'[s]] /\ timer' = [s \in Slots |-> timer'[s]]
  BY <1>4 DEF Started
<1>8. slot' = sl /\ timer' = tm
  BY <1>6, <1>7
<1>9. prog' = None /\ fri' = << >>
  BY <1>4, <1>5 DEF Started
<1>10. server' \in {"up", "down"}
  BY <1>4 DEF Started
<1> QED BY <1>8, <1>9, <1>10

\* With an idle device and nothing queued the one request is configured.
LEMMA StartsOne ==
  ASSUME NEW rq \in [Clients -> AccelReq],
         NEW sl \in [Slots -> Slot], NEW tm \in [Slots -> Timer],
         NEW s \in Slots, rq[cyclic].slot = s, ~rq[cyclic].skip_rcfg,
         sl[s].state = "RSRV",
         fri = << >>, prog = None,
         PushReqFriQueue(cyclic, rq, sl, tm)
  PROVE  /\ slot' = [sl EXCEPT ![s] = Reconfiguring(sl[s], rq[cyclic].hw_task)]
         /\ timer' = tm
         /\ prog' = cyclic /\ fri' = << >>
         /\ server' \in {"up", "down"}
<1> DEFINE t == InsReqOrdered(fri, cyclic, rq)
<1>1. fri \in Seq(Clients) /\ IsInjective(fri) /\ ToSet(fri) = {}
  BY DEF IsInjective, ToSet
<1>2. /\ t \in Seq(Clients) /\ ToSet(t) = {cyclic}
      /\ IsInjective(t) /\ Head(t) = cyclic
  <2>1. cyclic \in Clients /\ cyclic \notin ToSet(fri)
    BY <1>1, OneClient
  <2>2. /\ t \in Seq(Clients) /\ ToSet(t) = ToSet(fri) \cup {cyclic}
        /\ IsInjective(t) /\ (fri = << >> => Head(t) = cyclic)
    BY <1>1, <2>1, InsertElements
  <2> QED BY <1>1, <2>2
<1>3. StartRcfg(t, rq, sl, tm)
  BY <1>2 DEF PushReqFriQueue
<1> HIDE DEF t
<1>4. /\ \A c \in ToSet(t) : rq[c].slot \in Slots /\ sl[rq[c].slot].state = "RSRV"
      /\ \A c, d \in ToSet(t) : rq[c].slot = rq[d].slot => c = d
  BY <1>2
<1>5. PICK run, conf : Started(run, conf, t, rq, sl, tm)
  BY <1>2, <1>3, <1>4, StartRcfgEffect
<1>6. run = {}
  BY <1>5, OneClient DEF Started
<1>7. prog' # None
  <2> SUFFICES ASSUME prog' = None PROVE FALSE
    OBVIOUS
  <2>1. conf = {} /\ ToSet(fri') = {}
    BY <1>5 DEF Started, ToSet
  <2> QED BY <1>2, <1>5, <1>6, <2>1 DEF Started
<1>8. prog' = cyclic /\ conf = {cyclic}
  BY <1>5, <1>7, OneClient DEF Started
<1>9. fri' \in Seq(Clients) /\ ToSet(fri') = {}
  BY <1>5, <1>8, OneClient, <1>2 DEF Started
<1>10. fri' = << >>
  <2>1. \A i \in 1 .. Len(fri') : fri'[i] \in ToSet(fri')
    BY <1>9 DEF ToSet
  <2>2. Len(fri') = 0
    BY <1>9, <2>1, LenProperties
  <2> QED BY <1>9, <2>2, EmptySeq
<1>11. /\ slot'[s] = Reconfiguring(sl[s], rq[cyclic].hw_task)
       /\ timer'[s] = tm[s]
       /\ \A u \in Slots \ {s} : slot'[u] = sl[u] /\ timer'[u] = tm[u]
  BY <1>5, <1>6, <1>8 DEF Started
<1>12. slot' = [u \in Slots |-> slot'[u]] /\ timer' = [u \in Slots |-> timer'[u]]
  BY <1>5 DEF Started
<1>13. slot' = [sl EXCEPT ![s] = Reconfiguring(sl[s], rq[cyclic].hw_task)]
  BY <1>11, <1>12
<1>14. timer' = tm
  BY <1>11, <1>12
<1>15. server' \in {"up", "down"}
  BY <1>5 DEF Started
<1> QED BY <1>8, <1>10, <1>13, <1>14, <1>15

-----------------------------------------------------------------------------
(* The steps.                                                              *)

LEMMA InitKept == TestInit => TestKept
<1> SUFFICES ASSUME TestInit PROVE TestKept
  OBVIOUS
<1> USE DEF TestInit, Init
<1>1. TypeOK
  <2>1. slot \in [Slots -> Slot] /\ timer \in [Slots -> Timer]
    BY DEF Slot, SlotStates, Timer
  <2>2. req \in [Clients -> AccelReq]
    BY DEF AccelReq
  <2>3. fri \in Seq(Clients) /\ partQ \in [Partitions -> Seq(Clients)]
    OBVIOUS
  <2>4. batch \in Batch
    BY DEF NoEvents, Batch
  <2> QED BY <2>1, <2>2, <2>3, <2>4 DEF TypeOK
<1>2. world \in World
  BY TestAssumption
<1>3. Tasks \in Seq(HwTasks) /\ Tasks # << >>
  BY <1>2 DEF World, Tasks
<1>4. next \in DOMAIN Tasks
  BY <1>3, EmptySeq, LenProperties
<1>5. AtRest
  BY DEF AtRest, NoneQueued, FreeBut, IsAvailable
<1>6. EventsKept
  BY DEF EventsKept, NoEvents
<1>7. ~req[cyclic].skip_rcfg
  BY OneClient
<1> QED BY <1>1, <1>4, <1>5, <1>6, <1>7 DEF TestKept

\* What the four places of the request have in common.
LEMMA PlaceOfRequest ==
  ASSUME TestKept
  PROVE  /\ (waiting = {} /\ bytes = 1 /\ AtRest) \/ (waiting = {cyclic} /\ bytes = 0 /\ ~AtRest)
         /\ prog # None => OnDevice
         /\ \A s \in Slots : slot[s].state = "EXEC" => InSlot /\ s = req[cyclic].slot
         /\ \A s \in Slots : timer[s].state # "disarmed" => slot[s].state = "EXEC"
         /\ rcfgDone => OnDevice
         /\ batch.devcfg => OnDevice
         /\ prog = None => ~rcfgDone /\ ~batch.devcfg
<1>0. {cyclic} # {} /\ None # cyclic
  BY OneClient
<1>1. (waiting = {} /\ bytes = 1 /\ AtRest) \/ (waiting = {cyclic} /\ bytes = 0 /\ ~AtRest)
  BY <1>0 DEF TestKept, AtRest, InQueue, OnDevice, InSlot
<1>2. prog # None => OnDevice
  BY DEF TestKept, AtRest, InQueue, InSlot
<1>3. \A s \in Slots : slot[s].state = "EXEC" => InSlot /\ s = req[cyclic].slot
  <2> SUFFICES ASSUME NEW s \in Slots, slot[s].state = "EXEC"
               PROVE  InSlot /\ s = req[cyclic].slot
    OBVIOUS
  <2>1. ~IsAvailable(s)
    BY DEF IsAvailable
  <2>2. ~AtRest /\ ~InQueue
    BY <2>1 DEF AtRest, InQueue, FreeBut
  <2>3. ~OnDevice
    BY <2>1 DEF OnDevice, FreeBut
  <2>4. InSlot
    BY <2>2, <2>3 DEF TestKept
  <2> QED BY <2>1, <2>4 DEF InSlot, FreeBut
<1>4. \A s \in Slots : timer[s].state # "disarmed" => slot[s].state = "EXEC"
  BY DEF TestKept, EventsKept, Executing
<1>5. /\ rcfgDone => prog = cyclic
      /\ batch.devcfg => prog = cyclic
  BY DEF TestKept, EventsKept
<1> QED BY <1>0, <1>1, <1>2, <1>3, <1>4, <1>5

\* The client takes the byte and its request waits or is being configured.
LEMMA TriggerKept ==
  ASSUME TestKept, Trigger, UNCHANGED world
  PROVE  TestKept' /\ (InQueue \/ OnDevice)'
<1> DEFINE h == Tasks[next]
           p == PartOfTask[Tasks[next]]
<1>1. TypeOK /\ world \in Worlds /\ next \in DOMAIN Tasks /\ fri = << >> /\ EventsKept
  BY DEF TestKept
<1>2. h \in HwTasks /\ p \in Partitions /\ NextTask \in DOMAIN Tasks
  BY <1>1, TaskTurns
<1>3. /\ waiting = {} /\ bytes = 1 /\ AtRest /\ prog = None
      /\ ~rcfgDone /\ ~batch.devcfg
  <2>1. bytes > 0
    BY DEF Trigger
  <2>2. waiting = {} /\ bytes = 1 /\ AtRest
    BY <2>1, PlaceOfRequest
  <2> QED BY <2>2, PlaceOfRequest DEF AtRest
<1>4. waiting' = {cyclic} /\ bytes' = 0
  BY <1>3 DEF Trigger
<1>5. \A s \in Slots : IsAvailable(s) /\ slot[s].state # "EXEC" /\ timer[s].state = "disarmed"
  <2>1. \A s \in Slots : IsAvailable(s)
    BY <1>3 DEF AtRest, FreeBut
  <2>2. \A s \in Slots : slot[s].state # "EXEC"
    BY <2>1 DEF IsAvailable
  <2> QED BY <2>1, <2>2, PlaceOfRequest
<1>6. next' \in DOMAIN (Tasks') /\ world' \in Worlds
  BY <1>1, <1>2 DEF Trigger, Tasks
<1>7. /\ slot \in [Slots -> Slot] /\ timer \in [Slots -> Timer]
      /\ req \in [Clients -> AccelReq] /\ partQ \in [Partitions -> Seq(Clients)]
      /\ banned \subseteq HwTasks /\ irq \subseteq Slots /\ batch \in Batch
      /\ rcfgDone \in BOOLEAN /\ server \in {"up", "down", "assert", "hung"}
      /\ waiting \in SUBSET Clients
  BY <1>1 DEF TypeOK
<1>8. UNCHANGED <<banned, irq, rcfgDone, batch>>
  BY DEF Trigger
<1>9. /\ Stamped(cyclic, h) \in [Clients -> AccelReq]
      /\ Stamped(cyclic, h)[cyclic].hw_task = h
      /\ ~Stamped(cyclic, h)[cyclic].skip_rcfg
  BY <1>2, <1>7, OneClient, StampedRequests
<1>10. \A s \in irq \cup batch.slot : slot[s].exec_req = cyclic
  BY <1>1 DEF EventsKept
<1>11. irq \cup batch.slot \subseteq Slots
  BY <1>7 DEF Batch
<1> HIDE DEF h, p
<1>12. CASE /\ req' = Stamped(cyclic, h)
            /\ partQ' = [partQ EXCEPT ![p] = Append(@, cyclic)]
            /\ UNCHANGED <<server, slot, timer, prog, fri>>
  <2>1. partQ[p] = << >>
    BY <1>2, <1>3 DEF AtRest, NoneQueued
  <2>2. Append(partQ[p], cyclic) = <<cyclic>>
    BY <2>1
  <2>3. partQ' = [partQ EXCEPT ![p] = <<cyclic>>]
    BY <1>12, <2>2
  <2>4. <<cyclic>> \in Seq(Clients)
    BY OneClient
  <2>5. \A o \in Partitions : partQ'[o] \in {<< >>, <<cyclic>>}
    BY <1>3, <1>7, <2>3 DEF AtRest, NoneQueued
  <2>6. TypeOK'
    <3>1. partQ' \in [Partitions -> Seq(Clients)]
      BY <1>7, <2>3, <2>4
    <3>2. req' \in [Clients -> AccelReq] /\ waiting' \subseteq Clients
      BY <1>4, <1>9, <1>12, OneClient
    <3> QED BY <1>1, <1>8, <1>12, <3>1, <3>2 DEF TypeOK
  <2>7. InQueue'
    BY <1>3, <1>4, <1>5, <1>12, <2>5 DEF InQueue, FreeBut, IsAvailable
  <2>8. EventsKept'
    BY <1>3, <1>5, <1>8, <1>10, <1>12 DEF EventsKept
  <2>9. fri' = << >> /\ ~req'[cyclic].skip_rcfg
    BY <1>1, <1>9, <1>12
  <2> QED BY <1>4, <1>6, <2>6, <2>7, <2>8, <2>9, OneClient DEF TestKept
<1>13. ASSUME NEW s \in Slots,
              req' = [Stamped(cyclic, h) EXCEPT ![cyclic].slot = s],
              PushReqFriQueue(cyclic, req', [slot EXCEPT ![s] = Reserved(@)], timer),
              UNCHANGED partQ
       PROVE  TestKept' /\ OnDevice'
  <2> DEFINE rq == req'
             sl == [slot EXCEPT ![s] = Reserved(@)]
  <2>1. /\ rq \in [Clients -> AccelReq]
        /\ rq[cyclic].slot = s /\ rq[cyclic].hw_task = h /\ ~rq[cyclic].skip_rcfg
    BY <1>9, <1>13, OneClient DEF AccelReq
  <2>2. slot[s] \in Slot /\ Reserved(slot[s]) \in Slot /\ Reserved(slot[s]).state = "RSRV"
    BY <1>7, ReservedSlot
  <2>3. sl \in [Slots -> Slot] /\ sl[s] = Reserved(slot[s])
    BY <1>7, <2>2
  <2>4. PushReqFriQueue(cyclic, rq, sl, timer)
    BY <1>13
  <2> HIDE DEF rq, sl
  <2>5. /\ slot' = [sl EXCEPT ![s] = Reconfiguring(sl[s], rq[cyclic].hw_task)]
        /\ timer' = timer /\ prog' = cyclic /\ fri' = << >>
        /\ server' \in {"up", "down"}
    <3>1. /\ s \in Slots /\ rq[cyclic].slot = s /\ ~rq[cyclic].skip_rcfg
          /\ sl[s].state = "RSRV" /\ fri = << >> /\ prog = None
      BY <1>1, <1>3, <2>1, <2>2, <2>3
    <3>2. rq \in [Clients -> AccelReq] /\ sl \in [Slots -> Slot] /\ timer \in [Slots -> Timer]
      BY <1>7, <2>1, <2>3
    <3> QED BY <2>4, <3>1, <3>2, StartsOne
  <2> DEFINE x == Reconfiguring(sl[s], h)
  <2>6. x \in Slot /\ x.state = "RCFG" /\ x.hw_task = h
    BY <1>2, <2>2, <2>3, ReconfiguringSlot
  <2>7. x.exec_req = slot[s].exec_req
    BY <1>7, <2>3 DEF Reconfiguring, Reserved, Slot
  <2> HIDE DEF x
  <2>8. slot' = [sl EXCEPT ![s] = x]
    BY <2>1, <2>5 DEF x
  <2>9. /\ slot' \in [Slots -> Slot] /\ slot'[s] = x
        /\ \A u \in Slots \ {s} : slot'[u] = slot[u]
    BY <1>7, <2>3, <2>6, <2>8 DEF sl
  <2>10. \A u \in Slots : slot'[u].exec_req = slot[u].exec_req
    BY <2>7, <2>9
  <2>11. TypeOK'
    <3>1. req' \in [Clients -> AccelReq] /\ waiting' \subseteq Clients
      BY <1>4, <2>1, OneClient DEF rq
    <3>2. prog' \in Clients \cup {None} /\ fri' \in Seq(Clients)
      BY <2>5, OneClient
    <3> QED BY <1>7, <1>8, <1>13, <2>5, <2>9, <3>1, <3>2 DEF TypeOK
  <2>12. OnDevice'
    <3>1. /\ req'[cyclic].slot = s /\ req'[cyclic].hw_task = h
          /\ slot'[s].state = "RCFG" /\ slot'[s].hw_task = h
      BY <2>1, <2>6, <2>9 DEF rq
    <3>2. \A u \in Slots : u = s \/ slot'[u].state \in {"IDLE", "BLANK"}
      BY <1>5, <2>9 DEF IsAvailable
    <3>3. \A o \in Partitions : partQ'[o] = << >>
      BY <1>3, <1>13 DEF AtRest, NoneQueued
    <3> QED BY <1>2, <1>4, <2>5, <3>1, <3>2, <3>3 DEF OnDevice, NoneQueued, FreeBut, IsAvailable
  <2>13. EventsKept'
    <3>1. \A u \in Slots : timer'[u].state = "disarmed"
      BY <1>5, <2>5
    <3>2. \A u \in irq' \cup batch'.slot : slot'[u].exec_req = cyclic
      BY <1>8, <1>10, <1>11, <2>10
    <3> QED BY <1>3, <1>8, <3>1, <3>2 DEF EventsKept
  <2>14. fri' = << >> /\ ~req'[cyclic].skip_rcfg
    BY <2>1, <2>5 DEF rq
  <2> QED BY <1>4, <1>6, <2>11, <2>12, <2>13, <2>14, OneClient DEF TestKept
<1>14. Push(h)
  BY DEF Trigger, h
<1>15. \A s \in Free(PartOfTask[h]) : s \in Slots
  BY DEF Free
<1> QED BY <1>12, <1>13, <1>14, <1>15 DEF Push, h, p

\* The reconfiguration has ended and the slot computes.
LEMMA ConfiguredKept ==
  ASSUME TestKept, TestRcfgComplete, UNCHANGED world
  PROVE  /\ TestKept'
         /\ \/ slot' = slot
            \/ \E s \in Slots : /\ slot[s].state = "RCFG"
                                /\ slot'[s].hw_task = req[cyclic].hw_task
                                /\ \A u \in Slots \ {s} : slot'[u] = slot[u]
<1> DEFINE s == req[cyclic].slot
<1>1. /\ OnDevice /\ prog = cyclic /\ fri = << >> /\ ~req[cyclic].skip_rcfg
      /\ EventsKept /\ next \in DOMAIN Tasks /\ world \in Worlds
  BY PlaceOfRequest DEF TestKept, TestRcfgComplete, RcfgComplete, OnDevice
<1>2. /\ waiting = {cyclic} /\ bytes = 0
      /\ s \in Slots /\ slot[s].state = "RCFG" /\ NoneQueued /\ FreeBut({s})
      /\ req[cyclic].hw_task \in HwTasks /\ slot[s].hw_task = req[cyclic].hw_task
  BY <1>1, PlaceOfRequest, OneClient DEF OnDevice
<1>3. /\ slot \in [Slots -> Slot] /\ timer \in [Slots -> Timer]
      /\ req \in [Clients -> AccelReq] /\ partQ \in [Partitions -> Seq(Clients)]
      /\ banned \subseteq HwTasks /\ irq \subseteq Slots /\ batch \in Batch
      /\ waiting \in SUBSET Clients /\ TypeOK
  BY DEF TypeOK, TestKept
<1>4. UNCHANGED <<bytes, next, partQ, req, waiting, banned, irq>>
  BY DEF TestRcfgComplete, Silent, RcfgComplete, Stop
<1>5. Tasks' = Tasks
  BY DEF Tasks
<1> HIDE DEF s
<1>6. CASE Stop("down")
  <2>1. UNCHANGED <<slot, timer, prog, fri, partQ, req, waiting, banned, irq, rcfgDone, batch>>
        /\ server' = "down"
    BY <1>6 DEF Stop
  <2>2. TypeOK'
    BY <1>3, <2>1 DEF TypeOK
  <2>3. OnDevice' /\ EventsKept'
    BY <1>1, <2>1 DEF OnDevice, EventsKept, NoneQueued, FreeBut, IsAvailable, Executing
  <2> QED BY <1>1, <1>2, <1>4, <1>5, <2>1, <2>2, <2>3, OneClient DEF TestKept
<1>7. CASE /\ batch' = [batch EXCEPT !.devcfg = FALSE]
           /\ rcfgDone' = FALSE
           /\ StartRcfg(fri, req, [slot EXCEPT ![s] = Computing(Reinit(@), cyclic)],
                                  [timer EXCEPT ![s] = Armed(cyclic)])
  <2> DEFINE x == Computing(Reinit(slot[s]), cyclic)
             sl == [slot EXCEPT ![s] = Computing(Reinit(@), cyclic)]
             tm == [timer EXCEPT ![s] = Armed(cyclic)]
  <2>1. /\ x \in Slot /\ x.state = "EXEC" /\ x.exec_req = cyclic
        /\ x.hw_task = req[cyclic].hw_task
    BY <1>2, <1>3, OneClient, ReinitComputingSlot
  <2>2. Armed(cyclic) \in Timer /\ Armed(cyclic).exec_req = cyclic
    BY OneClient, TimerOperations
  <2>3. /\ sl \in [Slots -> Slot] /\ sl[s] = x
        /\ \A u \in Slots \ {s} : sl[u] = slot[u]
    <3>1. sl = [slot EXCEPT ![s] = x]
      OBVIOUS
    <3> HIDE DEF x, sl
    <3> QED BY <1>2, <1>3, <2>1, <3>1
  <2>4. /\ tm \in [Slots -> Timer] /\ tm[s] = Armed(cyclic)
        /\ \A u \in Slots \ {s} : tm[u] = timer[u]
    BY <1>2, <1>3, <2>2
  <2>5. StartRcfg(<< >>, req, sl, tm)
    BY <1>1, <1>7
  <2> HIDE DEF x, sl, tm
  <2>6. slot' = sl /\ timer' = tm /\ prog' = None /\ fri' = << >> /\ server' \in {"up", "down"}
    BY <1>3, <2>3, <2>4, <2>5, StartsNothing
  <2>7. TypeOK'
    <3>1. batch' \in Batch
      BY <1>3, <1>7 DEF Batch
    <3>2. fri' \in Seq(Clients) /\ prog' \in Clients \cup {None}
      BY <2>6
    <3> QED BY <1>3, <1>4, <1>7, <2>3, <2>4, <2>6, <3>1, <3>2 DEF TypeOK
  <2>8. slot'[s].state = "EXEC" /\ slot'[s].exec_req = cyclic
    BY <2>1, <2>3, <2>6
  <2>9. \A u \in Slots : u = s \/ slot'[u].state \in {"IDLE", "BLANK"}
    BY <1>2, <2>3, <2>6 DEF FreeBut, IsAvailable
  <2>10. InSlot'
    <3>1. req'[cyclic].slot = s /\ req'[cyclic].hw_task \in HwTasks
      BY <1>2, <1>4 DEF s
    <3> QED BY <1>2, <1>4, <2>6, <2>8, <2>9, <3>1
        DEF InSlot, NoneQueued, FreeBut, IsAvailable, Executing
  <2>11. EventsKept'
    <3>1. \A u \in Slots : timer'[u].state # "disarmed" => u = s
      <4>1. \A u \in Slots : u # s => slot[u].state # "EXEC"
        BY <1>2 DEF FreeBut, IsAvailable
      <4> QED BY <4>1, <2>4, <2>6, PlaceOfRequest
    <3>2. timer'[s].exec_req = cyclic
      BY <2>2, <2>4, <2>6
    <3>3. batch'.slot = batch.slot /\ ~batch'.devcfg
      BY <1>3, <1>7 DEF Batch
    <3>4. irq \cup batch.slot \subseteq Slots
      BY <1>3 DEF Batch
    <3>5. \A u \in irq \cup batch.slot : slot'[u].exec_req = cyclic
      BY <1>1, <2>1, <2>3, <2>6, <3>4 DEF EventsKept
    <3> QED BY <1>4, <1>7, <2>8, <3>1, <3>2, <3>3, <3>5 DEF EventsKept, Executing
  <2>12. ~req'[cyclic].skip_rcfg
    BY <1>1, <1>4
  <2>13. TestKept'
    BY <1>1, <1>2, <1>4, <1>5, <2>6, <2>7, <2>10, <2>11, <2>12, OneClient DEF TestKept
  <2>14. slot'[s].hw_task = req[cyclic].hw_task /\ \A u \in Slots \ {s} : slot'[u] = slot[u]
    BY <2>1, <2>3, <2>6
  <2> QED BY <1>2, <2>13, <2>14
<1> QED BY <1>1, <1>6, <1>7 DEF TestRcfgComplete, RcfgComplete, s

\* A handler ends the server and leaves everything else as it is.
LEMMA StopKept ==
  ASSUME TestKept, NEW how \in {"down", "assert", "hung"}, Stop(how),
         UNCHANGED <<world, bytes, next>>
  PROVE  TestKept'
<1>1. UNCHANGED <<slot, timer, prog, fri, partQ, req, waiting, banned, irq, rcfgDone, batch>>
      /\ server' = how
  BY DEF Stop
<1>2. TypeOK'
  BY <1>1 DEF TestKept, TypeOK
<1>3. EventsKept' /\ Tasks' = Tasks
  BY <1>1 DEF TestKept, EventsKept, Executing, Tasks
<1>4. (AtRest \/ InQueue \/ OnDevice \/ InSlot)'
  BY <1>1 DEF TestKept, AtRest, InQueue, OnDevice, InSlot, NoneQueued, FreeBut,
              IsAvailable, Executing
<1> QED BY <1>1, <1>2, <1>3, <1>4 DEF TestKept

\* The request leaves its slot and is answered.
LEMMA AnsweredKept ==
  ASSUME TestKept, NEW s \in Slots, s = req[cyclic].slot, InSlot,
         NEW x \in Slot, x.state \in {"IDLE", "BLANK"}, x.exec_req = slot[s].exec_req,
         NEW d \in Timer, d.state = "disarmed",
         slot' = [slot EXCEPT ![s] = x], timer' = [timer EXCEPT ![s] = d],
         waiting' = {}, bytes' = 1,
         irq' \subseteq irq, banned' \subseteq HwTasks,
         batch' \in Batch, batch'.slot \subseteq batch.slot, batch'.devcfg = batch.devcfg,
         UNCHANGED <<world, next, server, prog, fri, partQ, req, rcfgDone>>
  PROVE  TestKept'
<1>1. /\ slot \in [Slots -> Slot] /\ timer \in [Slots -> Timer] /\ TypeOK
      /\ irq \subseteq Slots /\ batch \in Batch
      /\ EventsKept /\ fri = << >> /\ ~req[cyclic].skip_rcfg
      /\ world \in Worlds /\ next \in DOMAIN Tasks
  BY DEF TestKept, TypeOK
<1>2. prog = None /\ NoneQueued /\ FreeBut({s})
  BY DEF InSlot
<1>3. /\ slot' \in [Slots -> Slot] /\ slot'[s] = x
      /\ \A u \in Slots \ {s} : slot'[u] = slot[u]
  BY <1>1
<1>4. /\ timer' \in [Slots -> Timer] /\ timer'[s] = d
      /\ \A u \in Slots \ {s} : timer'[u] = timer[u]
  BY <1>1
<1>5. TypeOK'
  BY <1>1, <1>3, <1>4 DEF TypeOK
<1>6. \A u \in Slots : slot'[u].state \in {"IDLE", "BLANK"}
  BY <1>2, <1>3 DEF FreeBut, IsAvailable
<1>7. AtRest'
  BY <1>2, <1>6 DEF AtRest, NoneQueued, FreeBut, IsAvailable
<1>8. \A u \in Slots : timer'[u].state = "disarmed"
  <2>1. \A u \in Slots : u # s => slot[u].state # "EXEC"
    BY <1>2 DEF FreeBut, IsAvailable
  <2> QED BY <2>1, <1>4, PlaceOfRequest
<1>9. \A u \in Slots : slot'[u].exec_req = slot[u].exec_req
  BY <1>3
<1>10. ~rcfgDone /\ ~batch.devcfg
  BY <1>2, PlaceOfRequest
<1>11. EventsKept'
  <2>1. \A u \in irq \cup batch.slot : u \in Slots /\ slot[u].exec_req = cyclic
    BY <1>1 DEF EventsKept, Batch
  <2>2. \A u \in irq' \cup batch'.slot : slot'[u].exec_req = cyclic
    BY <1>9, <2>1
  <2> QED BY <1>8, <1>10, <2>2 DEF EventsKept
<1>12. Tasks' = Tasks
  BY DEF Tasks
<1> QED BY <1>1, <1>5, <1>7, <1>11, <1>12 DEF TestKept

\* With no request queued nothing is pulled into the slot that is left.
LEMMA PullsNothing ==
  ASSUME TestKept, InSlot, NEW sl, NEW tm,
         PullReqPartitionQueue(cyclic, req[cyclic].slot, sl, tm)
  PROVE  slot' = sl /\ timer' = tm /\ UNCHANGED <<server, prog, fri, partQ, req>>
<1>1. PartOfTask[req[cyclic].hw_task] \in Partitions
  BY ConstantsAssumption DEF InSlot
<1>2. partQ[PartOfTask[req[cyclic].hw_task]] = << >>
  BY <1>1 DEF InSlot, NoneQueued
<1> QED BY <1>2 DEF PullReqPartitionQueue

\* An accelerator has finished: whichever slot the event is of, the request
\* that ends is the one that computes.
LEMMA CompleteKept ==
  ASSUME TestKept, NEW e \in Slots, TestSlotComplete(e), UNCHANGED world
  PROVE  TestKept'
<1> DEFINE s == req[cyclic].slot
<1>1. e \in batch.slot /\ slot[e].exec_req = cyclic
  BY DEF TestKept, EventsKept, TestSlotComplete, SlotComplete
<1>2. ASSUME NEW how \in {"down", "assert", "hung"}, Stop(how) PROVE TestKept'
  <2>1. waiting' = waiting /\ next' = next
    BY <1>2 DEF Stop, TestSlotComplete
  <2>2. bytes' = bytes
    <3>1. waiting \ waiting' = {} /\ bytes \in Nat
      BY <2>1, PlaceOfRequest
    <3>2. bytes' = bytes + Cardinality(waiting \ waiting')
      BY DEF TestSlotComplete, Notified
    <3> QED BY <3>1, <3>2, OneClient
  <2> QED BY <1>2, <2>1, <2>2, StopKept
<1>3. CASE /\ s # None /\ slot[s].state = "EXEC" /\ s \in irq
           /\ batch' = [batch EXCEPT !.slot = @ \ {e}]
           /\ irq' = irq \ {s}
           /\ waiting' = waiting \ {cyclic}
           /\ PullReqPartitionQueue(cyclic, s, [slot EXCEPT ![s] = Cleared(@)],
                                               [timer EXCEPT ![s] = Disarmed])
           /\ UNCHANGED <<banned, rcfgDone>>
  <2>1. slot \in [Slots -> Slot] /\ irq \subseteq Slots /\ batch \in Batch /\ banned \subseteq HwTasks
    BY DEF TestKept, TypeOK
  <2>2. s \in Slots /\ InSlot
    BY <1>3, <2>1, PlaceOfRequest
  <2>3. /\ slot' = [slot EXCEPT ![s] = Cleared(@)] /\ timer' = [timer EXCEPT ![s] = Disarmed]
        /\ UNCHANGED <<server, prog, fri, partQ, req>>
    BY <1>3, <2>2, PullsNothing
  <2> DEFINE x == Cleared(slot[s])
  <2>4. x \in Slot /\ x.state = "IDLE" /\ x.exec_req = slot[s].exec_req
    <3>1. slot[s] \in Slot
      BY <2>1, <2>2
    <3>2. x \in Slot /\ x.state = "IDLE"
      BY <3>1, FreedSlot
    <3>3. x.exec_req = slot[s].exec_req
      BY <3>1 DEF Cleared, Slot
    <3> QED BY <3>2, <3>3
  <2>5. slot' = [slot EXCEPT ![s] = x]
    BY <2>3
  <2> HIDE DEF x
  <2>6. waiting = {cyclic} /\ bytes = 0 /\ waiting' = {}
    BY <1>3, <2>2, PlaceOfRequest, OneClient DEF InSlot
  <2>7. bytes' = 1 /\ next' = next
    <3>1. waiting \ waiting' = {cyclic}
      BY <2>6
    <3>2. bytes' = bytes + Cardinality(waiting \ waiting') /\ next' = next
      BY DEF TestSlotComplete, Notified
    <3> QED BY <2>6, <3>1, <3>2, OneClient
  <2>8. batch' \in Batch /\ batch'.slot \subseteq batch.slot /\ batch'.devcfg = batch.devcfg
    BY <1>3, <2>1 DEF Batch
  <2>9. Disarmed \in Timer /\ Disarmed.state = "disarmed"
    BY TimerOperations
  <2>10. irq' \subseteq irq /\ banned' \subseteq HwTasks
    BY <1>3, <2>1
  <2>11. timer' = [timer EXCEPT ![s] = Disarmed]
    BY <2>3
  <2>12. UNCHANGED <<world, next, server, prog, fri, partQ, req, rcfgDone>>
    BY <1>3, <2>3, <2>7
  <2>13. s = req[cyclic].slot
    OBVIOUS
  <2> HIDE DEF s
  <2> QED BY <2>2, <2>4, <2>5, <2>6, <2>7, <2>8, <2>9, <2>10, <2>11, <2>12, <2>13, AnsweredKept
<1>4. SlotComplete(e)
  BY DEF TestSlotComplete
<1> QED BY <1>1, <1>2, <1>3, <1>4 DEF SlotComplete

\* A watchdog has expired: it is that of the request that computes.
LEMMA TimeoutKept ==
  ASSUME TestKept, NEW e \in Slots, TestSlotTimeout(e), UNCHANGED world
  PROVE  TestKept'
<1> DEFINE r == timer[e].exec_req
           s == req[r].slot
<1>1. ASSUME NEW how \in {"down", "assert", "hung"}, Stop(how) PROVE TestKept'
  <2>1. waiting' = waiting /\ next' = next
    BY <1>1 DEF Stop, TestSlotTimeout
  <2>2. bytes' = bytes
    <3>1. waiting \ waiting' = {} /\ bytes \in Nat
      BY <2>1, PlaceOfRequest
    <3>2. bytes' = bytes + Cardinality(waiting \ waiting')
      BY DEF TestSlotTimeout, Notified
    <3> QED BY <3>1, <3>2, OneClient
  <2> QED BY <1>1, <2>1, <2>2, StopKept
<1>2. CASE /\ timer[e].state = "expired" /\ slot[s].state = "EXEC"
           /\ batch' = [batch EXCEPT !.timer = @ \ {e}]
           /\ banned' = banned \cup {req[r].hw_task}
           /\ waiting' = waiting \ {r}
           /\ PullReqPartitionQueue(r, s, [slot EXCEPT ![s] = Disabled(@)],
                                          [timer EXCEPT ![e].state = "disarmed"])
           /\ UNCHANGED <<irq, rcfgDone>>
  <2>1. /\ slot \in [Slots -> Slot] /\ timer \in [Slots -> Timer]
        /\ batch \in Batch /\ banned \subseteq HwTasks
    BY DEF TestKept, TypeOK
  <2>2. /\ Executing(cyclic, e) /\ r = cyclic
    BY <1>2 DEF TestKept, EventsKept
  <2>3. InSlot /\ e = req[cyclic].slot /\ s = e
    BY <2>2, PlaceOfRequest DEF Executing
  <2> HIDE DEF r, s
  <2> DEFINE x == Disabled(slot[e])
             d == [timer[e] EXCEPT !.state = "disarmed"]
  <2>4. /\ slot' = [slot EXCEPT ![e] = x]
        /\ timer' = [timer EXCEPT ![e] = d]
        /\ UNCHANGED <<server, prog, fri, partQ, req>>
    <3>1. PullReqPartitionQueue(cyclic, req[cyclic].slot, [slot EXCEPT ![e] = Disabled(@)],
                                          [timer EXCEPT ![e].state = "disarmed"])
      BY <1>2, <2>2, <2>3
    <3>2. /\ slot' = [slot EXCEPT ![e] = Disabled(@)]
          /\ timer' = [timer EXCEPT ![e].state = "disarmed"]
          /\ UNCHANGED <<server, prog, fri, partQ, req>>
      BY <2>3, <3>1, PullsNothing
    <3> QED BY <3>2
  <2>5. x \in Slot /\ x.state = "BLANK" /\ x.exec_req = slot[e].exec_req
    <3>1. slot[e] \in Slot
      BY <2>1
    <3>2. x \in Slot /\ x.state = "BLANK"
      BY <3>1, FreedSlot
    <3>3. x.exec_req = slot[e].exec_req
      BY <3>1 DEF Disabled, Slot
    <3> QED BY <3>2, <3>3
  <2>6. d \in Timer /\ d.state = "disarmed"
    <3>1. timer[e] \in Timer
      BY <2>1
    <3> QED BY <3>1 DEF Timer
  <2> HIDE DEF x, d
  <2>7. waiting = {cyclic} /\ bytes = 0 /\ waiting' = {}
    BY <1>2, <2>2, <2>3, PlaceOfRequest, OneClient DEF InSlot
  <2>8. bytes' = 1 /\ next' = next
    <3>1. waiting \ waiting' = {cyclic}
      BY <2>7
    <3>2. bytes' = bytes + Cardinality(waiting \ waiting') /\ next' = next
      BY DEF TestSlotTimeout, Notified
    <3> QED BY <2>7, <3>1, <3>2, OneClient
  <2>9. batch' \in Batch /\ batch'.slot \subseteq batch.slot /\ batch'.devcfg = batch.devcfg
    BY <1>2, <2>1 DEF Batch
  <2>10. irq' \subseteq irq /\ banned' \subseteq HwTasks
    BY <1>2, <2>1, <2>2, <2>3 DEF InSlot
  <2>11. UNCHANGED <<world, next, server, prog, fri, partQ, req, rcfgDone>>
    BY <1>2, <2>4, <2>8
  <2> QED BY <2>3, <2>4, <2>5, <2>6, <2>7, <2>8, <2>9, <2>10, <2>11, AnsweredKept
<1>3. SlotTimeout(e)
  BY DEF TestSlotTimeout
<1> QED BY <1>1, <1>2, <1>3 DEF SlotTimeout

\* The event loop and the hardware only add events, of the one request.
LEMMA EventLoopKept ==
  ASSUME TestKept, UNCHANGED <<world, bytes, next>>,
         \/ EpollWait
         \/ \E s \in Slots : AcceleratorDone(s) \/ TimerExpires(s)
         \/ RcfgDone
  PROVE  TestKept'
<1>1. UNCHANGED <<server, slot, prog, fri, partQ, req, waiting, banned, world, bytes, next>>
  BY DEF EpollWait, AcceleratorDone, TimerExpires, RcfgDone
<1>2. /\ TypeOK /\ EventsKept
      /\ slot \in [Slots -> Slot] /\ timer \in [Slots -> Timer]
      /\ irq \subseteq Slots /\ rcfgDone \in BOOLEAN /\ batch \in Batch
      /\ prog \in Clients \cup {None}
  BY DEF TestKept, TypeOK
<1>3. (AtRest \/ InQueue \/ OnDevice \/ InSlot)'
  BY <1>1 DEF TestKept, AtRest, InQueue, OnDevice, InSlot, NoneQueued, FreeBut,
              IsAvailable, Executing
<1>4. Tasks' = Tasks
  BY <1>1 DEF Tasks
<1>5. ASSUME timer' \in [Slots -> Timer], irq' \subseteq Slots, rcfgDone' \in BOOLEAN,
             batch' \in Batch, EventsKept'
      PROVE  TestKept'
  <2>1. TypeOK'
    BY <1>1, <1>2, <1>5 DEF TypeOK
  <2> QED BY <1>1, <1>3, <1>4, <1>5, <2>1 DEF TestKept
<1>6. CASE EpollWait
  <2>1. batch' = Ready /\ UNCHANGED <<timer, irq, rcfgDone>>
    BY <1>6 DEF EpollWait
  <2>2. batch' \in Batch /\ batch'.slot = irq /\ batch'.devcfg = rcfgDone
    BY <1>2, <2>1 DEF Ready, Batch
  <2>3. EventsKept'
    BY <1>1, <1>2, <2>1, <2>2 DEF EventsKept, Executing
  <2> QED BY <1>2, <1>5, <2>1, <2>2, <2>3
<1>7. ASSUME NEW s \in Slots, AcceleratorDone(s) PROVE TestKept'
  <2>1. /\ irq' = irq \cup {s} /\ slot[s].state = "EXEC"
        /\ UNCHANGED <<timer, rcfgDone, batch>>
    BY <1>7 DEF AcceleratorDone
  <2>2. slot[s].exec_req = cyclic
    BY <2>1, PlaceOfRequest DEF InSlot, Executing
  <2>3. EventsKept'
    BY <1>1, <1>2, <2>1, <2>2 DEF EventsKept, Executing
  <2> QED BY <1>2, <1>5, <2>1, <2>3
<1>8. ASSUME NEW s \in Slots, TimerExpires(s) PROVE TestKept'
  <2>1. /\ timer' = [timer EXCEPT ![s].state = "expired"] /\ timer[s].state = "armed"
        /\ UNCHANGED <<irq, rcfgDone, batch>>
    BY <1>8 DEF TimerExpires
  <2>2. /\ timer' \in [Slots -> Timer]
        /\ \A u \in Slots : timer'[u].exec_req = timer[u].exec_req
        /\ \A u \in Slots \ {s} : timer'[u].state = timer[u].state
    BY <1>2, <2>1 DEF Timer
  <2>3. \A u \in Slots : timer'[u].state # "disarmed" => timer[u].state # "disarmed"
    BY <2>1, <2>2
  <2>4. EventsKept'
    BY <1>1, <1>2, <2>1, <2>2, <2>3 DEF EventsKept, Executing
  <2> QED BY <1>2, <1>5, <2>1, <2>2, <2>4
<1>9. CASE RcfgDone
  <2>1. rcfgDone' = TRUE /\ prog # None /\ UNCHANGED <<timer, irq, batch>>
    BY <1>9 DEF RcfgDone
  <2>2. prog = cyclic
    BY <2>1, PlaceOfRequest DEF OnDevice
  <2>3. EventsKept'
    BY <1>1, <1>2, <2>1, <2>2 DEF EventsKept, Executing
  <2> QED BY <1>2, <1>5, <2>1, <2>3
<1> QED BY <1>6, <1>7, <1>8, <1>9

LEMMA StepKept == TestKept /\ [TestNext]_testVars => TestKept'
<1> SUFFICES ASSUME TestKept, [TestNext]_testVars PROVE TestKept'
  OBVIOUS
<1>1. CASE UNCHANGED testVars
  <2>1. UNCHANGED <<server, slot, timer, prog, fri, partQ, req, waiting, banned, irq,
                    rcfgDone, batch, world, bytes, next>>
    BY <1>1 DEF testVars, vars
  <2>2. TypeOK' /\ EventsKept' /\ Tasks' = Tasks
    BY <2>1 DEF TestKept, TypeOK, EventsKept, Executing, Tasks
  <2>3. (AtRest \/ InQueue \/ OnDevice \/ InSlot)'
    BY <2>1 DEF TestKept, AtRest, InQueue, OnDevice, InSlot, NoneQueued, FreeBut,
                IsAvailable, Executing
  <2> QED BY <2>1, <2>2, <2>3 DEF TestKept
<1>2. CASE TestNext
  <2>0. UNCHANGED world
    BY <1>2 DEF TestNext
  <2>1. CASE Trigger
    BY <2>0, <2>1, TriggerKept
  <2>2. CASE TestRcfgComplete
    BY <2>0, <2>2, ConfiguredKept
  <2>3. ASSUME NEW s \in Slots, TestSlotComplete(s) \/ TestSlotTimeout(s) PROVE TestKept'
    BY <2>0, <2>3, CompleteKept, TimeoutKept
  <2>4. CASE EpollWait /\ Silent
    BY <2>0, <2>4, EventLoopKept DEF Silent
  <2>5. ASSUME NEW s \in Slots, Done(s) \/ Expires(s) PROVE TestKept'
    BY <2>0, <2>5, EventLoopKept DEF Done, Expires, Silent
  <2>6. CASE RcfgDone /\ Silent
    BY <2>0, <2>6, EventLoopKept DEF Silent
  <2> QED BY <1>2, <2>1, <2>2, <2>3, <2>4, <2>5, <2>6 DEF TestNext
<1> QED BY <1>1, <1>2

-----------------------------------------------------------------------------
(* The theorems.                                                           *)

\* The request of the cyclic client is in exactly one place, and every event
\* of the hardware is about it (cyclic_client.c and scheduler_fred_rand.c,
\* which share one accel_req).
THEOREM TestAlwaysKept == TestSpec => []TestKept
<1> QED BY InitKept, StepKept, PTL DEF TestSpec

\* There is one token: while the server is up either the byte that lets the
\* client go on or its request is there, never both and never neither; and
\* nothing refers to a request that the client may build anew.
THEOREM OneToken == TestSpec => []TestInv
<1>1. TestKept => TestInv
  <2> SUFFICES ASSUME TestKept PROVE TestInv
    OBVIOUS
  <2>1. TestTypeOK
    BY PlaceOfRequest DEF TestKept, TestTypeOK
  <2>2. OneTurn
    BY PlaceOfRequest, OneClient DEF OneTurn
  <2>3. RequestAtRest
    <3> SUFFICES ASSUME bytes > 0 PROVE RequestAtRest
      BY DEF RequestAtRest
    <3>1. AtRest /\ prog = None
      BY PlaceOfRequest DEF AtRest
    <3>2. ~InFri(cyclic) /\ prog # cyclic
      BY <3>1, OneClient DEF TestKept, InFri, ToSet
    <3>3. \A p \in Partitions : ~Queued(cyclic, p)
      BY <3>1 DEF AtRest, NoneQueued, Queued, ToSet
    <3>4. \A s \in Slots : slot[s].state # "EXEC"
      BY <3>1 DEF AtRest, FreeBut, IsAvailable
    <3>5. \A s \in Slots : ~Executing(cyclic, s) /\ timer[s].state # "armed"
      BY <3>4, PlaceOfRequest DEF Executing
    <3> QED BY <3>2, <3>3, <3>5 DEF RequestAtRest
  <2> QED BY <2>1, <2>2, <2>3 DEF TestInv
<1> QED BY <1>1, TestAlwaysKept, PTL

\* "never skip reconfiguration": a slot begins to compute only when it has just
\* been configured, and for the task the client has asked for
\* (sched_fred_rand_push_accel_req_, start_slot_after_rcfg_).
THEOREM AlwaysReconfigures == TestSpec => NeverSkips
<1> DEFINE Fresh == \A s \in Slots :
                      slot'[s].state = "EXEC" /\ slot[s].state # "EXEC" =>
                        slot[s].state = "RCFG" /\ slot'[s].hw_task = req[cyclic].hw_task
<1>1. TestKept /\ TestKept' /\ [TestNext]_testVars => [Fresh]_testVars
  <2> SUFFICES ASSUME TestKept, TestKept', TestNext,
                      NEW s \in Slots, slot'[s].state = "EXEC", slot[s].state # "EXEC"
               PROVE  slot[s].state = "RCFG" /\ slot'[s].hw_task = req[cyclic].hw_task
    OBVIOUS
  <2>1. InSlot' /\ s = req'[cyclic].slot /\ waiting' = {cyclic}
    <3>1. ~IsAvailable(s)'
      BY DEF IsAvailable
    <3>2. ~AtRest' /\ ~InQueue'
      BY <3>1 DEF AtRest, InQueue, FreeBut
    <3>3. ~OnDevice'
      BY <3>1 DEF OnDevice, FreeBut
    <3>4. InSlot'
      BY <3>2, <3>3 DEF TestKept
    <3> QED BY <3>1, <3>4 DEF InSlot, FreeBut
  <2>2. CASE Trigger
    <3>1. UNCHANGED world /\ ~InQueue' /\ ~OnDevice'
      <4>1. ~IsAvailable(s)'
        BY DEF IsAvailable
      <4> QED BY <4>1 DEF TestNext, InQueue, OnDevice, FreeBut
    <3> QED BY <2>2, <3>1, TriggerKept
  <2>3. CASE TestRcfgComplete
    <3>1. UNCHANGED world
      BY DEF TestNext
    <3> QED BY <2>3, <3>1, ConfiguredKept
  <2>4. ASSUME NEW e \in Slots, TestSlotComplete(e) PROVE FALSE
    <3>1. slot' # slot
      OBVIOUS
    <3>2. e \in batch.slot /\ waiting' = waiting \ {slot[e].exec_req}
      BY <2>4, <3>1 DEF TestSlotComplete, SlotComplete, Stop
    <3>3. slot[e].exec_req = cyclic
      BY <3>2 DEF TestKept, EventsKept
    <3> QED BY <2>1, <3>2, <3>3
  <2>5. ASSUME NEW e \in Slots, TestSlotTimeout(e) PROVE FALSE
    <3>1. slot' # slot
      OBVIOUS
    <3>2. timer[e].state = "expired" /\ waiting' = waiting \ {timer[e].exec_req}
      BY <2>5, <3>1 DEF TestSlotTimeout, SlotTimeout, Stop
    <3>3. timer[e].exec_req = cyclic
      BY <3>2 DEF TestKept, EventsKept
    <3> QED BY <2>1, <3>2, <3>3
  <2>6. CASE slot' = slot
    BY <2>6
  <2>7. \/ Trigger \/ TestRcfgComplete \/ slot' = slot
        \/ \E e \in Slots : TestSlotComplete(e) \/ TestSlotTimeout(e)
    BY DEF TestNext, EpollWait, Done, Expires, AcceleratorDone, TimerExpires, RcfgDone
  <2> QED BY <2>2, <2>3, <2>4, <2>5, <2>6, <2>7
<1> QED BY <1>1, TestAlwaysKept, PTL DEF TestSpec, NeverSkips

=============================================================================
