---------------------------- MODULE RtDagProofs ----------------------------
(***************************************************************************)
(* Proofs about RtDag, for any number of iterations and any DAGs with one   *)
(* source and one sink: instances of a DAG and their times do not mix, and  *)
(* a task reads the messages of its own iteration although no lock protects *)
(* the message buffers.                                                     *)
(***************************************************************************)
EXTENDS RtDag, FiniteSetTheorems, WellFoundedInduction, TLAPS

\* How many iterations a task has begun, and how many it has ended.
Early == {"none", "setup", "barrier"}
Begun(t) == IF pc[t] \in Early \cup {"top"} THEN iter[t] - 1 ELSE iter[t]
Finished(t) == IF pc[t] = "done" THEN iter[t] ELSE iter[t] - 1

\* How many messages a task has sent to a successor.
HasSent(t, u) == pc[t] = "done" \/ (pc[t] \in {"send", "push"} /\ u \notin todo[t])
SentTo(t, u) == IF HasSent(t, u) THEN iter[t] ELSE iter[t] - 1

\* A message sent and not received is in the queue of the successor.
Conserved ==
    \A t \in Tasks, u \in Tasks : <<t, u>> \in dag.edges =>
        SentTo(t, u) = Begun(u) + (IF t \in mask[u] THEN 1 ELSE 0)

\* The queue of start times holds the instance the source has begun and the
\* sink has not ended.
Started ==
    \A source \in Sources, sink \in Sinks :
        IF start = 0 THEN Begun(source) = Finished(sink)
        ELSE start = Begun(source) /\ Begun(source) = Finished(sink) + 1

\* The buffer of an edge holds the last message sent, or the next once written.
Written(t, u) == pc[t] = "push" /\ NextOut(t) = u
Buffered ==
    MemAccess => \A t \in Tasks, u \in Tasks :
        <<t, u>> \in dag.edges /\ dag.type[t] = "cpu" =>
            buf[<<t, u>>] = IF Written(t, u) THEN iter[t] ELSE SentTo(t, u)

\* Threads leave the barrier together.
Gathering ==
    \A t \in Tasks : pc[t] \in Early =>
        \A u \in Tasks : pc[u] \in Early /\ iter[u] = 1

Control ==
    \A t \in Tasks :
        /\ pc[t] = "push" => todo[t] # {}
        /\ pc[t] = "done" => iter[t] = Iters

Flow == Gathering /\ Conserved /\ Started /\ Buffered

InFlow ==
    /\ TypeOK /\ ResponseTimesMatch /\ Control
    /\ dag \in Dags
    /\ (\E t \in Tasks : pc[t] # "none") => Launchable
    /\ Launchable => Flow

-----------------------------------------------------------------------------
(* Least elements, and the graph.                                          *)

LEMMA LeastElement ==
    ASSUME NEW S \in SUBSET Nat, S # {}
    PROVE  \E m \in S : \A n \in S : m <= n
<1> DEFINE Below(n) == 0 .. n - 1
<1> DEFINE Belows == {Below(n) : n \in S}
<1>1. Belows \subseteq FiniteSubsetsOf(Nat) /\ Belows # {}
  <2>1. ASSUME NEW n \in S PROVE Below(n) \subseteq Nat /\ IsFiniteSet(Below(n))
    BY FS_Interval
  <2> QED BY <2>1 DEF FiniteSubsetsOf
<1>2. PICK b \in Belows : \A a \in Belows : <<a, b>> \notin StrictSubsetOrdering(Nat)
  <2> HIDE DEF Belows
  <2> QED BY <1>1, FS_StrictSubsetOrderingWellFounded, WFMin
<1>3. PICK m \in S : b = Below(m)
  BY <1>2
<1>4. ASSUME NEW n \in S, n < m PROVE FALSE
  <2>1. Below(n) \subseteq Below(m) /\ Below(n) # Below(m) /\ Below(n) \subseteq Nat /\ Below(m) \subseteq Nat
    <3>1. n \in Below(m) /\ n \notin Below(n)
      BY <1>4
    <3> QED BY <1>4, <3>1
  <2>2. <<Below(n), Below(m)>> \in StrictSubsetOrdering(Nat)
    BY <2>1 DEF StrictSubsetOrdering
  <2> QED BY <1>2, <1>3, <2>2
<1> QED BY <1>4

LEMMA NextOutIsLeft ==
    ASSUME TypeOK, dag \in Dags, NEW t \in Tasks, todo[t] # {}
    PROVE  NextOut(t) \in todo[t] /\ NextOut(t) \in Outs(t) /\ NextOut(t) \in Tasks
           /\ <<t, NextOut(t)>> \in dag.edges
<1>1. todo[t] \subseteq Outs(t) /\ Outs(t) \subseteq Tasks /\ Tasks \subseteq Nat
  BY GraphsAssumption DEF TypeOK, Outs, OutputsOf, Tasks
<1>2. \E m \in todo[t] : \A n \in todo[t] : m <= n
  BY <1>1, LeastElement
<1>3. NextOut(t) \in todo[t]
  BY <1>2 DEF NextOut
<1> QED BY <1>1, <1>3 DEF Outs, OutputsOf

LEMMA OneEach ==
    ASSUME dag \in Dags, Launchable
    PROVE  /\ \E t \in Tasks : Sources = {t}
           /\ \E t \in Tasks : Sinks = {t}
           /\ \A S \in SUBSET Tasks : S # {} =>
                 /\ \E t \in S : Ins(t) \cap S = {}
                 /\ \E t \in S : Outs(t) \cap S = {}
<1>1. OneWay(dag)
  BY GraphsAssumption DEF Launchable
<1>2. \E t \in Tasks : Sources = {t}
  <2>1. PICK t \in Tasks : \A u \in Tasks : Ins(u) = {} <=> u = t
    BY <1>1 DEF OneWay, Ins, Tasks
  <2>2. Sources = {t}
    BY <2>1 DEF Sources
  <2> QED BY <2>2
<1>3. \E t \in Tasks : Sinks = {t}
  <2>1. PICK t \in Tasks : \A u \in Tasks : Outs(u) = {} <=> u = t
    BY <1>1 DEF OneWay, Outs, Tasks
  <2>2. Sinks = {t}
    BY <2>1 DEF Sinks
  <2> QED BY <2>2
<1>4. \A S \in SUBSET Tasks : S # {} =>
        /\ \E t \in S : Ins(t) \cap S = {}
        /\ \E t \in S : Outs(t) \cap S = {}
  BY <1>1 DEF OneWay, Ins, Outs, Tasks
<1> QED BY <1>2, <1>3, <1>4

-----------------------------------------------------------------------------
(* What a step does to the counts.                                         *)

LEMMA InitFlows == ASSUME Init PROVE InFlow
<1> USE DEF Init
<1>1. TypeOK
  BY ConstantsAssumption DEF TypeOK
<1>2. Flow
  <2>1. Gathering
    BY DEF Gathering, Early
  <2>2. \A t \in Tasks : Begun(t) = 0 /\ Finished(t) = 0 /\ \A u : SentTo(t, u) = 0
    BY DEF Begun, Finished, SentTo, HasSent, Early
  <2>3. Conserved
    BY <2>2 DEF Conserved
  <2>4. Started
    BY <2>2 DEF Started, Sources, Sinks
  <2>5. Buffered
    BY <2>2 DEF Buffered, Written
  <2> QED BY <2>1, <2>3, <2>4, <2>5 DEF Flow
<1>3. ResponseTimesMatch /\ Control /\ dag \in Dags /\ ~\E t \in Tasks : pc[t] # "none"
  BY DEF ResponseTimesMatch, Control
<1> QED BY <1>1, <1>2, <1>3 DEF InFlow

\* The tasks other than the one that acts.
Idle(u) == pc'[u] = pc[u] /\ iter'[u] = iter[u] /\ todo'[u] = todo[u]

LEMMA IdleCounts ==
    ASSUME NEW u, Idle(u)
    PROVE  /\ Begun(u)' = Begun(u) /\ Finished(u)' = Finished(u)
           /\ \A v : SentTo(u, v)' = SentTo(u, v) /\ (Written(u, v)' <=> Written(u, v))
BY DEF Idle, Begun, Finished, SentTo, HasSent, Written, NextOut

LEMMA Types ==
    ASSUME InFlow
    PROVE  /\ \A t \in Tasks : iter[t] \in 1 .. Iters /\ iter[t] \in Nat /\ iter[t] > 0
           /\ \A t \in Tasks : Begun(t) \in Nat /\ Finished(t) \in Nat
           /\ \A t \in Tasks : \A u : SentTo(t, u) \in Nat
           /\ \A t \in Tasks : Finished(t) <= Begun(t) /\ Begun(t) <= Finished(t) + 1
           /\ Iters \in Nat /\ Iters > 0 /\ start \in Nat
<1>1. /\ \A t \in Tasks : iter[t] \in 1 .. Iters
      /\ Iters \in Nat /\ Iters > 0 /\ start \in Nat
  BY ConstantsAssumption DEF InFlow, TypeOK
<1>2. \A t \in Tasks : iter[t] \in Nat /\ iter[t] > 0 /\ iter[t] - 1 \in Nat
  BY <1>1
<1> QED BY <1>1, <1>2 DEF Begun, Finished, SentTo, Early

\* Nothing but the phase changes.
LEMMA PhaseFlows ==
    ASSUME InFlow, UNCHANGED <<dag, threads, queues, buf, resp>>,
           phase' \in {"launching", "running", "joined", "exit"}
    PROVE  InFlow'
<1> USE DEF threads, queues
<1>1. \A u : Idle(u)
  BY DEF Idle
<1>2. TypeOK' /\ ResponseTimesMatch' /\ Control' /\ dag' \in Dags /\ (Launchable' <=> Launchable)
  BY DEF InFlow, TypeOK, ResponseTimesMatch, Control, Launchable, Tasks, Ins, Outs
<1>3. ASSUME Flow PROVE Flow'
  <2>1. Gathering'
    BY <1>3 DEF Flow, Gathering, Tasks
  <2>2. Conserved'
    BY <1>1, <1>3, IdleCounts DEF Flow, Conserved, Tasks
  <2>3. Started'
    BY <1>1, <1>3, IdleCounts DEF Flow, Started, Sources, Sinks, Ins, Outs, Tasks
  <2>4. Buffered'
    BY <1>1, <1>3, IdleCounts DEF Flow, Buffered, MemAccess, SentTo, HasSent, Written, NextOut, Tasks
  <2> QED BY <2>1, <2>2, <2>3, <2>4 DEF Flow
<1> QED BY <1>2, <1>3 DEF InFlow, Tasks

-----------------------------------------------------------------------------
(* One lemma per action: types and control, the counts, the buffers.        *)

\* A task that only moves on without sending, receiving or ending.
LEMMA MovesFlow ==
    ASSUME InFlow, Launchable, UNCHANGED <<dag, iter, queues, buf, resp>>, TypeOK', Control',
           Gathering', \A t \in Tasks :
             /\ Begun(t)' = Begun(t) /\ Finished(t)' = Finished(t)
             /\ \A u \in Outs(t) : /\ SentTo(t, u)' = SentTo(t, u)
                                   /\ dag.type[t] = "cpu" => (Written(t, u)' <=> Written(t, u))
    PROVE  InFlow'
<1> USE DEF queues
<1>1. ResponseTimesMatch' /\ dag' \in Dags /\ Launchable' /\ Flow
  BY DEF InFlow, ResponseTimesMatch, Launchable
<1>2. Conserved'
  BY <1>1 DEF Flow, Conserved, Tasks, Outs, OutputsOf
<1>3. Started'
  BY <1>1 DEF Flow, Started, Sources, Sinks, Ins, Outs, Tasks
<1>4. Buffered'
  <2>1. SUFFICES ASSUME MemAccess, NEW t \in Tasks, NEW u \in Tasks, <<t, u>> \in dag.edges,
                        dag.type[t] = "cpu"
                 PROVE  buf'[<<t, u>>] = IF Written(t, u)' THEN iter'[t] ELSE SentTo(t, u)'
    BY DEF Buffered, MemAccess, Tasks
  <2>2. u \in Outs(t)
    BY <2>1 DEF Outs, OutputsOf, Tasks
  <2>3. buf[<<t, u>>] = IF Written(t, u) THEN iter[t] ELSE SentTo(t, u)
    BY <1>1, <2>1, <2>2 DEF Flow, Buffered
  <2> QED BY <2>1, <2>2, <2>3
<1> QED BY <1>1, <1>2, <1>3, <1>4 DEF InFlow, Flow

LEMMA LaunchFlows ==
    ASSUME InFlow, NEW t \in Tasks, Launch(t)
    PROVE  InFlow'
<1> USE DEF queues
<1>0. Launchable /\ pc[t] = "none" /\ pc' = [pc EXCEPT ![t] = "setup"]
      /\ UNCHANGED <<dag, iter, todo, mask, start, buf, resp>>
  BY DEF Launch
<1>1. TypeOK' /\ Control'
  <2>1. phase' \in {"launching", "running", "joined", "exit"}
    BY DEF Launch, InFlow, TypeOK
  <2> QED BY <1>0, <2>1 DEF InFlow, TypeOK, Control, Tasks, Ins, Outs
<1>2. \A u \in Tasks : pc[u] \in Early /\ pc'[u] \in Early /\ iter[u] = 1
  BY <1>0 DEF InFlow, Flow, Gathering, Early, TypeOK
<1>3. Gathering'
  BY <1>0, <1>2 DEF Gathering, Tasks
<1>4. \A u \in Tasks : /\ Begun(u)' = Begun(u) /\ Finished(u)' = Finished(u)
                       /\ \A v : SentTo(u, v)' = SentTo(u, v) /\ ~Written(u, v) /\ ~Written(u, v)'
  BY <1>0, <1>2 DEF Begun, Finished, SentTo, HasSent, Written, Early
<1> QED BY <1>0, <1>1, <1>3, <1>4, MovesFlow

LEMMA BarrierFlows ==
    ASSUME InFlow, Launchable, NEW t \in Tasks, Barrier(t)
    PROVE  InFlow'
<1> USE DEF queues
<1>0. /\ pc' = [u \in Tasks |-> "top"] /\ \A u \in Tasks : pc[u] = "barrier"
      /\ UNCHANGED <<dag, phase, iter, todo, mask, start, buf, resp>>
  BY DEF Barrier, Passes
<1>1. TypeOK' /\ Control'
  BY <1>0 DEF InFlow, TypeOK, Control, Tasks, Ins, Outs
<1>2. \A u \in Tasks : pc'[u] = "top"
  BY <1>0
<1>3. Gathering'
  BY <1>0, <1>2 DEF Gathering, Tasks, Early
<1>4. \A u \in Tasks : /\ Begun(u)' = Begun(u) /\ Finished(u)' = Finished(u)
                       /\ \A v : SentTo(u, v)' = SentTo(u, v) /\ ~Written(u, v) /\ ~Written(u, v)'
  BY <1>0, <1>2 DEF Begun, Finished, SentTo, HasSent, Written, Early
<1> QED BY <1>0, <1>1, <1>3, <1>4, MovesFlow

LEMMA SetupFlows ==
    ASSUME InFlow, Launchable, NEW t \in Tasks, Setup(t)
    PROVE  InFlow'
<1> USE DEF queues
<1>0. /\ pc[t] = "setup" /\ pc' = [pc EXCEPT ![t] = "barrier"]
      /\ UNCHANGED <<dag, phase, iter, todo, mask, start, resp>>
      /\ DOMAIN buf = dag.edges /\ DOMAIN buf' = dag.edges
      /\ \A e \in dag.edges : buf'[e] \in {0, buf[e]}
  BY DEF Setup, InFlow, TypeOK
<1>1. TypeOK' /\ Control'
  <2>1. buf' \in [dag.edges -> 0 .. Iters]
    BY ConstantsAssumption DEF Setup, InFlow, TypeOK
  <2> QED BY <1>0, <2>1 DEF InFlow, TypeOK, Control, Tasks, Ins, Outs
<1>2. \A u \in Tasks : pc[u] \in Early /\ pc'[u] \in Early /\ iter[u] = 1
  BY <1>0 DEF InFlow, Flow, Gathering, Early, TypeOK
<1>3. Gathering'
  BY <1>0, <1>2 DEF Gathering, Tasks
<1>4. \A u \in Tasks : /\ Begun(u)' = Begun(u) /\ Finished(u)' = Finished(u)
                       /\ \A v : /\ SentTo(u, v)' = SentTo(u, v) /\ SentTo(u, v) = 0
                                 /\ ~Written(u, v) /\ ~Written(u, v)'
  BY <1>0, <1>2 DEF Begun, Finished, SentTo, HasSent, Written, Early
<1>5. ResponseTimesMatch' /\ dag' \in Dags /\ Launchable' /\ Flow
  BY <1>0 DEF InFlow, ResponseTimesMatch, Launchable
<1>6. Conserved'
  BY <1>0, <1>4, <1>5 DEF Flow, Conserved, Tasks
<1>7. Started'
  BY <1>0, <1>4, <1>5 DEF Flow, Started, Sources, Sinks, Ins, Outs, Tasks
<1>8. Buffered'
  BY <1>0, <1>4, <1>5 DEF Flow, Buffered, MemAccess, Tasks
<1> QED BY <1>1, <1>3, <1>5, <1>6, <1>7, <1>8 DEF InFlow, Flow

\* A step of one iteration, by a task beyond the barrier.
Beyond(t) == pc[t] \notin Early /\ pc'[t] \notin Early

LEMMA NobodyGathers ==
    ASSUME InFlow, Launchable, NEW t \in Tasks, Beyond(t), dag' = dag,
           pc' = [pc EXCEPT ![t] = pc'[t]]
    PROVE  Gathering' /\ \A u \in Tasks : pc[u] \notin Early /\ pc'[u] \notin Early
<1>1. \A u \in Tasks : pc[u] \notin Early
  BY DEF Beyond, InFlow, Flow, Gathering
<1>2. \A u \in Tasks : pc'[u] \notin Early
  BY <1>1 DEF Beyond, InFlow, TypeOK
<1> QED BY <1>1, <1>2 DEF Gathering, Tasks

LEMMA PushStartFlows ==
    ASSUME InFlow, Launchable, NEW t \in Tasks, PushStart(t)
    PROVE  InFlow'
<1>0. /\ pc[t] = "top" /\ Ins(t) = {} /\ start = 0 /\ start' = iter[t]
      /\ todo' = [todo EXCEPT ![t] = Outs(t)] /\ pc' = [pc EXCEPT ![t] = "send"]
      /\ UNCHANGED <<dag, phase, iter, mask, buf, resp>>
  BY DEF PushStart, StartRoom
<1>1. pc'[t] = "send" /\ todo'[t] = Outs(t) /\ \A u \in Tasks \ {t} : Idle(u)
  BY <1>0 DEF InFlow, TypeOK, Idle
<1>2. TypeOK' /\ Control'
  <2>1. todo' \in [Tasks -> SUBSET Tasks] /\ \A u \in Tasks : todo'[u] \subseteq Outs(u)
    BY <1>0 DEF InFlow, TypeOK, Outs, OutputsOf, Tasks
  <2>2. start' \in 0 .. Iters /\ mask \in [Tasks -> SUBSET Tasks]
    BY <1>0, ConstantsAssumption DEF InFlow, TypeOK
  <2>3. pc' \in [Tasks -> {"none", "setup", "barrier", "top", "read", "send", "push", "done"}]
    BY <1>0 DEF InFlow, TypeOK
  <2>4. TypeOK'
    BY <1>0, <2>1, <2>2, <2>3 DEF InFlow, TypeOK, Tasks, Ins, Outs
  <2>5. Control'
    BY <1>0, <1>1, <2>3 DEF InFlow, TypeOK, Control, Tasks, Idle
  <2> QED BY <2>4, <2>5
<1>3. Gathering'
  BY <1>0, <1>1, NobodyGathers DEF Beyond, Early
<1>4. /\ Begun(t)' = iter[t] /\ Begun(t) = iter[t] - 1 /\ Finished(t)' = Finished(t)
      /\ \A u \in Outs(t) : SentTo(t, u)' = SentTo(t, u)
      /\ \A u : ~Written(t, u) /\ ~Written(t, u)'
  BY <1>0, <1>1 DEF Begun, Finished, SentTo, HasSent, Written, Early
<1>5. ResponseTimesMatch' /\ dag' \in Dags /\ Launchable' /\ Flow /\ dag \in Dags
  BY <1>0 DEF InFlow, ResponseTimesMatch, Launchable
<1>6. \A u \in Tasks : /\ Finished(u)' = Finished(u)
                       /\ \A v \in Outs(u) : SentTo(u, v)' = SentTo(u, v) /\ (Written(u, v)' <=> Written(u, v))
                       /\ u # t => Begun(u)' = Begun(u)
  BY <1>1, <1>4, IdleCounts
<1>7. Conserved'
  <2>1. \A u \in Tasks : <<u, t>> \notin dag.edges
    BY <1>0 DEF Ins, InputsOf, Tasks
  <2> QED BY <1>0, <1>5, <1>6, <2>1 DEF Flow, Conserved, Tasks, Outs, OutputsOf
<1>8. Started'
  <2>1. Sources = {t}
    BY <1>0, <1>5, OneEach DEF Sources
  <2>2. ASSUME NEW sink \in Sinks PROVE iter[t] # 0 /\ iter[t] = Finished(sink) + 1
    <3>1. Begun(t) = Finished(sink) /\ iter[t] \in Nat /\ iter[t] > 0
      BY <1>0, <1>5, <2>1, <2>2, Types DEF Flow, Started
    <3> QED BY <1>4, <3>1
  <2> QED BY <1>0, <1>4, <1>6, <2>1, <2>2 DEF Started, Sources, Sinks, Ins, Outs, Tasks
<1>9. Buffered'
  BY <1>0, <1>5, <1>6 DEF Flow, Buffered, MemAccess, Tasks, Outs, OutputsOf
<1> QED BY <1>2, <1>3, <1>5, <1>7, <1>8, <1>9 DEF InFlow, Flow

LEMMA PopFlows ==
    ASSUME InFlow, Launchable, NEW t \in Tasks, Pop(t)
    PROVE  InFlow'
<1>0. /\ pc[t] = "top" /\ Ins(t) # {} /\ mask[t] = Ins(t)
      /\ mask' = [mask EXCEPT ![t] = {}] /\ pc' = [pc EXCEPT ![t] = "read"]
      /\ UNCHANGED <<dag, phase, iter, todo, start, buf, resp>>
  BY DEF Pop
<1>1. pc'[t] = "read" /\ \A u \in Tasks \ {t} : Idle(u)
  BY <1>0 DEF InFlow, TypeOK, Idle
<1>2. TypeOK' /\ Control'
  <2>1. \A u \in Tasks : mask'[u] \subseteq Ins(u)
    BY <1>0 DEF InFlow, TypeOK
  <2> QED BY <1>0, <1>1, <2>1 DEF InFlow, TypeOK, Control, Tasks, Ins, Outs, Idle
<1>3. Gathering'
  BY <1>0, <1>1, NobodyGathers DEF Beyond, Early
<1>4. /\ Begun(t)' = iter[t] /\ Begun(t) = iter[t] - 1 /\ Finished(t)' = Finished(t)
      /\ \A u : SentTo(t, u)' = SentTo(t, u)
      /\ \A u : ~Written(t, u) /\ ~Written(t, u)'
  BY <1>0, <1>1 DEF Begun, Finished, SentTo, HasSent, Written, Early
<1>5. ResponseTimesMatch' /\ dag' \in Dags /\ Launchable' /\ Flow /\ dag \in Dags
  BY <1>0 DEF InFlow, ResponseTimesMatch, Launchable
<1>6. \A u \in Tasks : /\ Finished(u)' = Finished(u)
                       /\ \A v : SentTo(u, v)' = SentTo(u, v) /\ (Written(u, v)' <=> Written(u, v))
                       /\ u # t => Begun(u)' = Begun(u)
  BY <1>1, <1>4, IdleCounts
<1>7. Conserved'
  <2>1. SUFFICES ASSUME NEW u \in Tasks, NEW v \in Tasks, <<u, v>> \in dag.edges
                 PROVE  SentTo(u, v)' = Begun(v)' + (IF u \in mask'[v] THEN 1 ELSE 0)
    BY <1>0 DEF Conserved, Tasks
  <2>2. SentTo(u, v) = Begun(v) + (IF u \in mask[v] THEN 1 ELSE 0)
    BY <1>5, <2>1 DEF Flow, Conserved
  <2>3. CASE v = t
    <3>1. u \in mask[t] /\ mask'[t] = {}
      BY <1>0, <2>1, <2>3 DEF Ins, InputsOf, Tasks, InFlow, TypeOK
    <3>2. Begun(t)' = Begun(t) + 1 /\ Begun(t)' \in Nat
      BY <1>4, Types
    <3> QED BY <1>6, <2>2, <2>3, <3>1, <3>2
  <2>4. CASE v # t
    <3>1. mask'[v] = mask[v] /\ Begun(v)' = Begun(v)
      BY <1>0, <1>6, <2>4 DEF InFlow, TypeOK
    <3> QED BY <1>6, <2>2, <3>1
  <2> QED BY <2>3, <2>4
<1>8. Started'
  <2>1. t \notin Sources
    BY <1>0 DEF Sources
  <2> QED BY <1>0, <1>5, <1>6, <2>1 DEF Flow, Started, Sources, Sinks, Ins, Outs, Tasks
<1>9. Buffered'
  BY <1>0, <1>5, <1>6 DEF Flow, Buffered, MemAccess, Tasks, Outs, OutputsOf
<1> QED BY <1>2, <1>3, <1>5, <1>7, <1>8, <1>9 DEF InFlow, Flow

\* The messages are read, and the successors to send to are collected.
LEMMA ReadFlows ==
    ASSUME InFlow, Launchable, NEW t \in Tasks, Read(t)
    PROVE  InFlow'
<1>0. /\ pc[t] = "read" /\ todo' = [todo EXCEPT ![t] = Outs(t)] /\ pc' = [pc EXCEPT ![t] = "send"]
      /\ UNCHANGED <<dag, phase, iter, mask, start, buf, resp>>
  BY DEF Read, queues
<1>1. pc'[t] = "send" /\ todo'[t] = Outs(t) /\ \A u \in Tasks \ {t} : Idle(u)
  BY <1>0 DEF InFlow, TypeOK, Idle
<1>2. TypeOK' /\ Control'
  <2>1. todo' \in [Tasks -> SUBSET Tasks] /\ \A u \in Tasks : todo'[u] \subseteq Outs(u)
    BY <1>0 DEF InFlow, TypeOK, Outs, OutputsOf, Tasks
  <2>2. pc' \in [Tasks -> {"none", "setup", "barrier", "top", "read", "send", "push", "done"}]
    BY <1>0 DEF InFlow, TypeOK
  <2>3. TypeOK'
    BY <1>0, <2>1, <2>2 DEF InFlow, TypeOK, Tasks, Ins, Outs
  <2>4. Control'
    BY <1>0, <1>1, <2>2 DEF InFlow, TypeOK, Control, Tasks, Idle
  <2> QED BY <2>3, <2>4
<1>3. Gathering'
  BY <1>0, <1>1, NobodyGathers DEF Beyond, Early
<1>4. /\ Begun(t)' = Begun(t) /\ Finished(t)' = Finished(t)
      /\ \A u \in Outs(t) : SentTo(t, u)' = SentTo(t, u)
      /\ \A u : ~Written(t, u) /\ ~Written(t, u)'
  BY <1>0, <1>1 DEF Begun, Finished, SentTo, HasSent, Written, Early
<1>5. \A u \in Tasks : /\ Begun(u)' = Begun(u) /\ Finished(u)' = Finished(u)
                       /\ \A v \in Outs(u) : SentTo(u, v)' = SentTo(u, v) /\ (Written(u, v)' <=> Written(u, v))
  BY <1>1, <1>4, IdleCounts
<1> QED BY <1>0, <1>2, <1>3, <1>5, MovesFlow DEF queues

\* The buffer of the next edge is written, or that of another edge of a hardware
\* task, or none.
LEMMA WriteFlows ==
    ASSUME InFlow, Launchable, NEW t \in Tasks,
           pc[t] = "send", todo[t] # {}, pc' = [pc EXCEPT ![t] = "push"],
           UNCHANGED <<dag, phase, iter, todo, queues, resp>>,
           \/ buf' = buf /\ (dag.type[t] = "cpu" => ~MemAccess)
           \/ buf' = [buf EXCEPT ![<<t, NextOut(t)>>] = iter[t]]
           \/ dag.type[t] = "fred" /\ \E u : buf' = [buf EXCEPT ![<<t, u>>] = iter[t]]
    PROVE  InFlow'
<1> USE DEF queues
<1>1. pc'[t] = "push" /\ \A u \in Tasks \ {t} : Idle(u)
  BY DEF InFlow, TypeOK, Idle
<1>2. DOMAIN buf = dag.edges /\ buf \in [dag.edges -> 0 .. Iters] /\ iter[t] \in 0 .. Iters
  BY ConstantsAssumption DEF InFlow, TypeOK
<1>3. TypeOK' /\ Control'
  <2>1. pc' \in [Tasks -> {"none", "setup", "barrier", "top", "read", "send", "push", "done"}]
    BY DEF InFlow, TypeOK
  <2>2. buf' \in [dag.edges -> 0 .. Iters]
    <3>1. ASSUME NEW e PROVE [buf EXCEPT ![e] = iter[t]] \in [dag.edges -> 0 .. Iters]
      BY <1>2
    <3> QED BY <1>2, <3>1
  <2>3. TypeOK'
    BY <2>1, <2>2 DEF InFlow, TypeOK, Tasks, Ins, Outs
  <2>4. Control'
    BY <1>1, <2>1 DEF InFlow, TypeOK, Control, Tasks, Idle
  <2> QED BY <2>3, <2>4
<1>4. Gathering'
  BY <1>1, NobodyGathers DEF Beyond, Early
<1>5. /\ Begun(t)' = Begun(t) /\ Finished(t)' = Finished(t)
      /\ \A u : SentTo(t, u)' = SentTo(t, u) /\ ~Written(t, u)
      /\ \A u : Written(t, u)' <=> u = NextOut(t)
  BY <1>1 DEF Begun, Finished, SentTo, HasSent, Written, NextOut, Early
<1>6. \A u \in Tasks : /\ Begun(u)' = Begun(u) /\ Finished(u)' = Finished(u)
                       /\ \A v : /\ SentTo(u, v)' = SentTo(u, v)
                                 /\ u # t => (Written(u, v)' <=> Written(u, v))
  BY <1>1, <1>5, IdleCounts
<1>7. ResponseTimesMatch' /\ dag' \in Dags /\ Launchable' /\ Flow
  BY DEF InFlow, ResponseTimesMatch, Launchable
<1>8. Conserved'
  BY <1>6, <1>7 DEF Flow, Conserved, Tasks
<1>9. Started'
  BY <1>6, <1>7 DEF Flow, Started, Sources, Sinks, Ins, Outs, Tasks
<1>10. Buffered'
  <2>1. SUFFICES ASSUME MemAccess, NEW u \in Tasks, NEW v \in Tasks, <<u, v>> \in dag.edges,
                        dag.type[u] = "cpu"
                 PROVE  buf'[<<u, v>>] = IF Written(u, v)' THEN iter'[u] ELSE SentTo(u, v)'
    BY DEF Buffered, MemAccess, Tasks
  <2>2. buf[<<u, v>>] = IF Written(u, v) THEN iter[u] ELSE SentTo(u, v)
    BY <1>7, <2>1 DEF Flow, Buffered
  <2>3. CASE u # t
    <3>1. buf'[<<u, v>>] = buf[<<u, v>>]
      BY <1>2, <2>1, <2>3
    <3> QED BY <1>6, <2>2, <2>3, <3>1
  <2>4. CASE u = t
    <3>1. buf' = [buf EXCEPT ![<<t, NextOut(t)>>] = iter[t]]
      BY <2>1, <2>4
    <3>2. CASE v = NextOut(t)
      BY <1>2, <1>5, <2>1, <2>4, <3>1, <3>2
    <3>3. CASE v # NextOut(t)
      <4>1. buf'[<<u, v>>] = buf[<<u, v>>]
        BY <1>2, <2>1, <2>4, <3>1, <3>3
      <4> QED BY <1>5, <2>2, <2>4, <3>3, <4>1
    <3> QED BY <3>2, <3>3
  <2> QED BY <2>3, <2>4
<1> QED BY <1>3, <1>4, <1>7, <1>8, <1>9, <1>10 DEF InFlow, Flow

LEMMA PushFlows ==
    ASSUME InFlow, Launchable, NEW t \in Tasks, Push(t)
    PROVE  InFlow'
<1>b. todo[t] # {} /\ pc[t] = "push"
  BY DEF Push, InFlow, Control
<1>1. PICK n \in Tasks : n = NextOut(t) /\ n \in todo[t] /\ n \in Outs(t) /\ <<t, n>> \in dag.edges
  BY <1>b, NextOutIsLeft DEF InFlow
<1>0. /\ pc[t] = "push" /\ t \notin mask[n]
      /\ mask' = [mask EXCEPT ![n] = @ \cup {t}] /\ todo' = [todo EXCEPT ![t] = @ \ {n}]
      /\ pc' = [pc EXCEPT ![t] = "send"]
      /\ UNCHANGED <<dag, phase, iter, start, buf, resp>>
  BY <1>1 DEF Push
<1>a. \A u : Written(t, u) <=> u = n
  BY <1>0, <1>1 DEF Written
<1>2. /\ pc'[t] = "send" /\ todo'[t] = todo[t] \ {n} /\ \A u \in Tasks \ {t} : Idle(u)
      /\ mask'[n] = mask[n] \cup {t} /\ \A u \in Tasks \ {n} : mask'[u] = mask[u]
  BY <1>0, <1>1 DEF InFlow, TypeOK, Idle
<1>3. TypeOK' /\ Control'
  <2>1. todo' \in [Tasks -> SUBSET Tasks] /\ \A u \in Tasks : todo'[u] \subseteq Outs(u)
    BY <1>0 DEF InFlow, TypeOK
  <2>2. mask' \in [Tasks -> SUBSET Tasks]
    BY <1>0 DEF InFlow, TypeOK
  <2>3. \A u \in Tasks : mask'[u] \subseteq Ins(u)
    <3>1. t \in Ins(n)
      BY <1>1 DEF Ins, InputsOf, Tasks
    <3> QED BY <1>2, <3>1 DEF InFlow, TypeOK
  <2>4. pc' \in [Tasks -> {"none", "setup", "barrier", "top", "read", "send", "push", "done"}]
    BY <1>0 DEF InFlow, TypeOK
  <2>5. TypeOK'
    BY <1>0, <2>1, <2>2, <2>3, <2>4 DEF InFlow, TypeOK, Tasks, Ins, Outs
  <2>6. Control'
    BY <1>0, <1>2, <2>4 DEF InFlow, TypeOK, Control, Tasks, Idle
  <2> QED BY <2>5, <2>6
<1>4. Gathering'
  BY <1>0, <1>2, NobodyGathers DEF Beyond, Early
<1>5. /\ Begun(t)' = Begun(t) /\ Finished(t)' = Finished(t)
      /\ \A u : u # n => SentTo(t, u)' = SentTo(t, u)
      /\ SentTo(t, n) = iter[t] - 1 /\ SentTo(t, n)' = iter[t]
      /\ \A u : ~Written(t, u)'
  BY <1>0, <1>1, <1>2 DEF Begun, Finished, SentTo, HasSent, Written, Early
<1>6. \A u \in Tasks : /\ Begun(u)' = Begun(u) /\ Finished(u)' = Finished(u)
                       /\ \A v : u # t => /\ SentTo(u, v)' = SentTo(u, v)
                                          /\ Written(u, v)' <=> Written(u, v)
  BY <1>2, <1>5, IdleCounts
<1>7. ResponseTimesMatch' /\ dag' \in Dags /\ Launchable' /\ Flow
  BY <1>0 DEF InFlow, ResponseTimesMatch, Launchable
<1>8. Conserved'
  <2>1. SUFFICES ASSUME NEW u \in Tasks, NEW v \in Tasks, <<u, v>> \in dag.edges
                 PROVE  SentTo(u, v)' = Begun(v)' + (IF u \in mask'[v] THEN 1 ELSE 0)
    BY <1>0 DEF Conserved, Tasks
  <2>2. SentTo(u, v) = Begun(v) + (IF u \in mask[v] THEN 1 ELSE 0)
    BY <1>7, <2>1 DEF Flow, Conserved
  <2>3. CASE u = t /\ v = n
    <3>1. SentTo(t, n) = Begun(n) /\ Begun(n) \in Nat /\ iter[t] \in Nat /\ iter[t] > 0
      <4>1. Begun(n) \in Nat /\ iter[t] \in Nat /\ iter[t] > 0
        BY <1>1, Types
      <4> QED BY <1>0, <2>2, <2>3, <4>1
    <3>2. iter[t] = Begun(n) + 1
      BY <1>5, <3>1
    <3>3. SentTo(u, v)' = iter[t] /\ Begun(v)' = Begun(n) /\ u \in mask'[v]
      BY <1>1, <1>2, <1>5, <1>6, <2>3
    <3> QED BY <3>2, <3>3
  <2>4. CASE ~(u = t /\ v = n)
    <3>1. SentTo(u, v)' = SentTo(u, v)
      BY <1>5, <1>6, <2>4
    <3>2. u \in mask'[v] <=> u \in mask[v]
      BY <1>2, <2>4
    <3> QED BY <1>6, <2>2, <3>1, <3>2
  <2> QED BY <2>3, <2>4
<1>9. Started'
  BY <1>0, <1>6, <1>7 DEF Flow, Started, Sources, Sinks, Ins, Outs, Tasks
<1>10. Buffered'
  <2>1. SUFFICES ASSUME MemAccess, NEW u \in Tasks, NEW v \in Tasks, <<u, v>> \in dag.edges,
                        dag.type[u] = "cpu"
                 PROVE  buf'[<<u, v>>] = IF Written(u, v)' THEN iter'[u] ELSE SentTo(u, v)'
    BY <1>0 DEF Buffered, MemAccess, Tasks
  <2>2. buf[<<u, v>>] = IF Written(u, v) THEN iter[u] ELSE SentTo(u, v)
    BY <1>7, <2>1 DEF Flow, Buffered
  <2>3. CASE u # t
    BY <1>0, <1>6, <2>2, <2>3
  <2>4. CASE u = t
    BY <1>0, <1>5, <1>a, <2>2, <2>4
  <2> QED BY <2>3, <2>4
<1> QED BY <1>3, <1>4, <1>7, <1>8, <1>9, <1>10 DEF InFlow, Flow

\* The end of an iteration: what was begun and sent is counted as it was.
LEMMA EndCounts ==
    ASSUME InFlow, NEW t \in Tasks, pc[t] = "send", todo[t] = {}, EndIteration(t), todo' = todo
    PROVE  /\ Begun(t)' = Begun(t) /\ \A u : SentTo(t, u)' = SentTo(t, u)
           /\ Finished(t) = iter[t] - 1 /\ Finished(t)' = iter[t]
           /\ \A u : ~Written(t, u) /\ ~Written(t, u)'
           /\ \A u \in Tasks \ {t} : Idle(u)
           /\ pc' = [pc EXCEPT ![t] = pc'[t]] /\ pc'[t] \in {"top", "done"}
           /\ pc' \in [Tasks -> {"none", "setup", "barrier", "top", "read", "send", "push", "done"}]
           /\ iter' \in [Tasks -> 1 .. Iters]
           /\ pc'[t] = "done" => iter'[t] = Iters
<1>1. /\ iter[t] \in Nat /\ iter[t] > 0 /\ iter[t] <= Iters /\ Iters \in Nat
      /\ iter \in [Tasks -> 1 .. Iters]
      /\ pc \in [Tasks -> {"none", "setup", "barrier", "top", "read", "send", "push", "done"}]
  BY Types DEF InFlow, TypeOK
<1>2. CASE iter[t] < Iters
  <2>1. /\ pc' = [pc EXCEPT ![t] = "top"] /\ iter' = [iter EXCEPT ![t] = iter[t] + 1]
        /\ pc'[t] = "top" /\ iter'[t] = iter[t] + 1 /\ \A u \in Tasks \ {t} : Idle(u)
    BY <1>1, <1>2 DEF EndIteration, Idle
  <2>2. iter' \in [Tasks -> 1 .. Iters]
    BY <1>1, <1>2, <2>1
  <2>3. iter[t] + 1 - 1 = iter[t]
    BY <1>1
  <2> QED BY <1>1, <2>1, <2>2, <2>3 DEF Begun, SentTo, HasSent, Finished, Written, Early
<1>3. CASE ~(iter[t] < Iters)
  <2>1. /\ pc' = [pc EXCEPT ![t] = "done"] /\ iter' = iter /\ iter[t] = Iters
        /\ pc'[t] = "done" /\ \A u \in Tasks \ {t} : Idle(u)
    BY <1>1, <1>3 DEF EndIteration, Idle
  <2> QED BY <1>1, <2>1 DEF Begun, SentTo, HasSent, Finished, Written, Early
<1> QED BY <1>2, <1>3

LEMMA SentFlows ==
    ASSUME InFlow, Launchable, NEW t \in Tasks, Sent(t) \/ PopStart(t)
    PROVE  InFlow'
<1> USE DEF queues
<1>0. /\ pc[t] = "send" /\ todo[t] = {} /\ EndIteration(t) /\ todo' = todo
      /\ UNCHANGED <<dag, phase, mask, buf>>
  BY DEF Sent, PopStart, InFlow, TypeOK
<1>1. /\ Begun(t)' = Begun(t) /\ \A u : SentTo(t, u)' = SentTo(t, u)
      /\ Finished(t) = iter[t] - 1 /\ Finished(t)' = iter[t]
      /\ \A u : ~Written(t, u) /\ ~Written(t, u)'
      /\ \A u \in Tasks \ {t} : Idle(u)
      /\ pc' = [pc EXCEPT ![t] = pc'[t]] /\ pc'[t] \in {"top", "done"}
      /\ pc' \in [Tasks -> {"none", "setup", "barrier", "top", "read", "send", "push", "done"}]
      /\ iter' \in [Tasks -> 1 .. Iters]
      /\ pc'[t] = "done" => iter'[t] = Iters
  BY <1>0, EndCounts
<1>2. Gathering'
  BY <1>0, <1>1, NobodyGathers DEF Beyond, Early
<1>3. \A u \in Tasks : /\ Begun(u)' = Begun(u) /\ (u # t => Finished(u)' = Finished(u))
                       /\ \A v : SentTo(u, v)' = SentTo(u, v) /\ (Written(u, v)' <=> Written(u, v))
  BY <1>1, IdleCounts
<1>4. dag' \in Dags /\ Launchable' /\ Flow /\ dag \in Dags
  BY <1>0 DEF InFlow, Launchable
<1>5. Conserved'
  BY <1>0, <1>3, <1>4 DEF Flow, Conserved, Tasks
<1>6. Buffered'
  <2>1. \A u \in Tasks : \A v : Written(u, v) => iter'[u] = iter[u]
    BY <1>1 DEF Idle
  <2> QED BY <1>0, <1>3, <1>4, <2>1 DEF Flow, Buffered, MemAccess, Tasks
<1>7. Control'
  <2>1. \A u \in Tasks : u # t => pc'[u] = pc[u] /\ iter'[u] = iter[u] /\ todo'[u] = todo[u]
    BY <1>1 DEF Idle
  <2> QED BY <1>0, <1>1, <2>1 DEF InFlow, Control, Tasks
<1>8. CASE Sent(t)
  <2>1. Outs(t) # {} /\ UNCHANGED <<start, resp>>
    BY <1>8 DEF Sent
  <2>2. TypeOK' /\ ResponseTimesMatch'
    BY <1>0, <1>1, <2>1 DEF InFlow, TypeOK, ResponseTimesMatch, Tasks, Ins, Outs
  <2>3. t \notin Sinks
    BY <2>1 DEF Sinks
  <2>4. Started'
    BY <1>0, <1>3, <1>4, <2>1, <2>3 DEF Flow, Started, Sources, Sinks, Ins, Outs, Tasks
  <2> QED BY <1>2, <1>4, <1>5, <1>6, <1>7, <2>2, <2>4 DEF InFlow, Flow
<1>9. CASE PopStart(t)
  <2>1. Outs(t) = {} /\ start # 0 /\ start' = 0 /\ resp' = [resp EXCEPT ![iter[t]] = start]
    BY <1>9 DEF PopStart, Popped
  <2>2. Sinks = {t}
    BY <1>4, <2>1, OneEach DEF Sinks
  <2>3. PICK source \in Tasks : Sources = {source}
    BY <1>4, OneEach
  <2>4. start = Begun(source) /\ Begun(source) = Finished(t) + 1
    BY <1>4, <2>1, <2>2, <2>3 DEF Flow, Started
  <2>5. start = iter[t] /\ iter[t] \in 1 .. Iters /\ 0 \in 0 .. Iters
    BY <1>1, <2>4, Types
  <2>6. Started'
    BY <1>0, <1>1, <1>3, <2>1, <2>2, <2>3, <2>4, <2>5
       DEF Started, Sources, Sinks, Ins, Outs, Tasks
  <2>7. resp' \in [1 .. Iters -> 0 .. Iters] /\ ResponseTimesMatch'
    <3>1. resp \in [1 .. Iters -> 0 .. Iters] /\ \A i \in 1 .. Iters : resp[i] \in {0, i}
      BY DEF InFlow, TypeOK, ResponseTimesMatch
    <3>2. iter[t] \in 0 .. Iters /\ resp' = [resp EXCEPT ![iter[t]] = iter[t]]
      BY <2>1, <2>5
    <3> QED BY <2>5, <3>1, <3>2 DEF ResponseTimesMatch
  <2>8. TypeOK'
    BY <1>0, <1>1, <2>1, <2>5, <2>7 DEF InFlow, TypeOK, Tasks, Ins, Outs
  <2> QED BY <1>2, <1>4, <1>5, <1>6, <1>7, <2>6, <2>7, <2>8 DEF InFlow, Flow
<1> QED BY <1>8, <1>9

LEMMA StepFlows ==
    ASSUME InFlow, NEW t \in Tasks, Step(t)
    PROVE  InFlow'
<1>1. pc[t] # "none" => Launchable
  BY DEF InFlow
<1>2. CASE Launch(t)
  BY <1>2, LaunchFlows
<1>3. CASE InvalidType(t) \/ FredError(t)
  BY <1>3, PhaseFlows DEF InvalidType, FredError, Exit
<1>4. CASE Setup(t)
  BY <1>1, <1>4, SetupFlows DEF Setup
<1>5. CASE Barrier(t)
  BY <1>1, <1>5, BarrierFlows DEF Barrier
<1>6. CASE PushStart(t)
  BY <1>1, <1>6, PushStartFlows DEF PushStart
<1>7. CASE Pop(t)
  BY <1>1, <1>7, PopFlows DEF Pop
<1>8. CASE Read(t)
  BY <1>1, <1>8, ReadFlows DEF Read
<1>9. CASE Write(t)
  BY <1>1, <1>9, WriteFlows DEF Write
<1>10. CASE FredWrite(t)
  BY <1>1, <1>10, WriteFlows DEF FredWrite
<1>11. CASE FredWriteOutside(t)
  <2>1. CASE Exit
    BY <2>1, PhaseFlows DEF Exit
  <2>2. CASE ~Exit
    BY <1>1, <1>11, <2>2, WriteFlows DEF FredWriteOutside
  <2> QED BY <2>1, <2>2
<1>12. CASE Push(t)
  BY <1>1, <1>12, PushFlows DEF Push
<1>13. CASE Sent(t) \/ PopStart(t)
  BY <1>1, <1>13, SentFlows DEF Sent, PopStart
<1> QED BY <1>2, <1>3, <1>4, <1>5, <1>6, <1>7, <1>8, <1>9, <1>10, <1>11, <1>12, <1>13 DEF Step

LEMMA NextFlows == ASSUME InFlow, [Next]_vars PROVE InFlow'
<1>1. CASE Reject \/ Join \/ Ended \/ UNCHANGED vars
  <2>1. UNCHANGED <<dag, threads, queues, buf, resp>>
    BY <1>1 DEF Reject, Exit, Join, Ended, vars
  <2>2. phase' \in {"launching", "running", "joined", "exit"}
    BY <1>1 DEF Reject, Exit, Join, Ended, vars, InFlow, TypeOK
  <2> QED BY <2>1, <2>2, PhaseFlows
<1> QED BY <1>1, StepFlows DEF Next

-----------------------------------------------------------------------------
(* What follows for the instances of the DAG.                              *)

\* Messages and start times keep all tasks between the sink and the source.
LEMMA InOrder ==
    ASSUME InFlow, Launchable, NEW t \in Tasks, NEW source \in Sources, NEW sink \in Sinks
    PROVE  /\ Begun(sink) <= Begun(t) /\ Begun(t) <= Begun(source)
           /\ Begun(source) <= Finished(sink) + 1
<1>0. /\ dag \in Dags /\ Flow /\ source \in Tasks /\ sink \in Tasks
      /\ Sources = {source} /\ Sinks = {sink}
  BY OneEach DEF InFlow, Sources, Sinks
<1>1. ASSUME NEW u \in Tasks, NEW v \in Outs(u)
      PROVE  v \in Tasks /\ Begun(v) <= SentTo(u, v) /\ Begun(v) <= Begun(u)
  <2>1. v \in Tasks /\ <<u, v>> \in dag.edges
    BY <1>1 DEF Outs, OutputsOf, Tasks
  <2>2. SentTo(u, v) \in Nat /\ Begun(v) \in Nat /\ Begun(u) \in Nat /\ iter[u] \in Nat /\ iter[u] > 0
    BY <2>1, Types
  <2>3. SentTo(u, v) = Begun(v) + (IF u \in mask[v] THEN 1 ELSE 0)
    BY <1>0, <2>1 DEF Flow, Conserved
  <2>4. SentTo(u, v) <= Begun(u)
    BY <2>2 DEF SentTo, HasSent, Begun, Early
  <2> QED BY <2>1, <2>2, <2>3, <2>4
<1>2. \A u \in Tasks : Begun(u) \in Nat
  BY Types
<1>3. Begun(t) <= Begun(source)
  <2> DEFINE S == {u \in Tasks : ~(Begun(u) <= Begun(source))}
  <2>1. S = {}
    <3>1. SUFFICES ASSUME S # {} PROVE FALSE
      OBVIOUS
    <3>2. PICK u \in S : Ins(u) \cap S = {}
      BY <1>0, <3>1, OneEach
    <3>3. CASE Ins(u) = {}
      BY <1>0, <1>2, <3>3 DEF Sources
    <3>4. ASSUME NEW v \in Ins(u) PROVE FALSE
      <4>1. v \in Tasks /\ u \in Outs(v)
        BY <3>4 DEF Ins, InputsOf, Outs, OutputsOf, Tasks
      <4>2. Begun(v) <= Begun(source) /\ Begun(u) <= Begun(v)
        BY <1>1, <3>2, <3>4, <4>1
      <4> QED BY <1>0, <1>2, <4>1, <4>2
    <3> QED BY <3>3, <3>4
  <2> QED BY <2>1
<1>4. Begun(sink) <= Begun(t)
  <2> DEFINE S == {u \in Tasks : ~(Begun(sink) <= Begun(u))}
  <2>1. S = {}
    <3>1. SUFFICES ASSUME S # {} PROVE FALSE
      OBVIOUS
    <3>2. PICK u \in S : Outs(u) \cap S = {}
      BY <1>0, <3>1, OneEach
    <3>3. CASE Outs(u) = {}
      BY <1>0, <1>2, <3>3 DEF Sinks
    <3>4. ASSUME NEW v \in Outs(u) PROVE FALSE
      <4>1. v \in Tasks /\ Begun(v) <= Begun(u)
        BY <1>1, <3>2, <3>4
      <4>2. Begun(sink) <= Begun(v)
        BY <3>2, <3>4, <4>1
      <4> QED BY <1>0, <1>2, <4>1, <4>2
    <3> QED BY <3>3, <3>4
  <2> QED BY <2>1
<1>5. Begun(source) <= Finished(sink) + 1
  <2>1. IF start = 0 THEN Begun(source) = Finished(sink)
        ELSE start = Begun(source) /\ Begun(source) = Finished(sink) + 1
    BY <1>0 DEF Flow, Started
  <2>2. Begun(source) \in Nat /\ Finished(sink) \in Nat
    BY <1>0, Types
  <2> QED BY <2>1, <2>2
<1> QED BY <1>3, <1>4, <1>5

\* A task in an iteration before the source's has sent all it had to send in it,
\* and it is the iteration just before.
LEMMA Behind ==
    ASSUME InFlow, Launchable, NEW t \in Tasks, NEW source \in Sources, iter[t] < Begun(source)
    PROVE  /\ t \notin Sinks /\ pc[t] = "send" /\ todo[t] = {}
           /\ iter[t] + 1 = Begun(source)
<1>1. PICK sink \in Tasks : Sinks = {sink}
  BY OneEach DEF InFlow
<1>2. /\ Begun(sink) <= Begun(t) /\ Begun(source) <= Finished(sink) + 1
      /\ \A v \in Tasks : Begun(sink) <= Begun(v)
  BY <1>1, InOrder
<1>3. /\ Begun(sink) \in Nat /\ Finished(sink) \in Nat /\ Finished(sink) <= Begun(sink)
      /\ Begun(t) \in Nat /\ iter[t] \in Nat /\ iter[t] > 0 /\ Finished(t) \in Nat
      /\ source \in Tasks /\ Begun(source) \in Nat /\ iter[source] \in 1 .. Iters /\ Iters \in Nat
  BY <1>1, Types DEF Sources
<1>4. Begun(t) <= iter[t] /\ Begun(source) <= iter[source] /\ iter[source] <= Iters
  BY <1>3 DEF Begun
<1>5. /\ Begun(t) = iter[t] /\ Begun(sink) = iter[t] /\ Finished(sink) = iter[t]
      /\ iter[t] + 1 = Begun(source) /\ iter[t] # Iters
  BY <1>2, <1>3, <1>4
<1>6. pc[t] \in {"read", "send", "push"}
  <2>1. pc[t] \notin Early \cup {"top"}
    BY <1>3, <1>5 DEF Begun
  <2>2. pc[t] # "done"
    BY <1>5 DEF InFlow, Control
  <2> QED BY <2>1, <2>2 DEF InFlow, TypeOK, Early
<1>7. t \notin Sinks
  BY <1>1, <1>3, <1>5, <1>6 DEF Finished
<1>8. ASSUME NEW v \in Outs(t) PROVE pc[t] \in {"send", "push"} /\ v \notin todo[t]
  <2>1. v \in Tasks /\ <<t, v>> \in dag.edges
    BY <1>8 DEF Outs, OutputsOf, Tasks
  <2>2. /\ SentTo(t, v) = Begun(v) + (IF t \in mask[v] THEN 1 ELSE 0)
        /\ Begun(v) \in Nat /\ Begun(sink) <= Begun(v)
    BY <1>2, <2>1, Types DEF InFlow, Flow, Conserved
  <2>3. SentTo(t, v) >= iter[t]
    BY <1>3, <1>5, <2>2
  <2>4. HasSent(t, v)
    BY <1>3, <2>3 DEF SentTo
  <2> QED BY <1>6, <2>4 DEF HasSent
<1>9. Outs(t) # {} /\ todo[t] \subseteq Outs(t) /\ (pc[t] = "push" => todo[t] # {})
  BY <1>7 DEF Sinks, InFlow, TypeOK, Control
<1> QED BY <1>5, <1>7, <1>8, <1>9

\* The counts of iterations and messages agree in every state: the inductive
\* invariant of the theorems below.
THEOREM AlwaysInFlow == Spec => []InFlow
BY InitFlows, NextFlows, PTL DEF Spec

\* Instances of a DAG do not overlap, and response times are computed from the
\* start times of their own iteration.
THEOREM InstancesKeptApart == Spec => []InstancesInv
<1>1. ASSUME InFlow PROVE InstancesInv
  <2>1. ASSUME NEW s \in Sources, pc[s] \in {"send", "push"},
               NEW t \in Tasks, iter[t] < iter[s]
        PROVE  t \notin Sinks /\ pc[t] = "send" /\ todo[t] = {} /\ iter[t] + 1 = iter[s]
    <3>1. s \in Tasks /\ Launchable
      BY <1>1, <2>1 DEF Sources, InFlow
    <3>2. Begun(s) = iter[s]
      BY <2>1 DEF Begun, Early
    <3> QED BY <1>1, <2>1, <3>1, <3>2, Behind
  <2> QED BY <1>1, <2>1 DEF InFlow, InstancesInv, InstancesDoNotOverlap
<1> QED BY <1>1, AlwaysInFlow, PTL

\* A task reads the messages of its own iteration from the CPU tasks before it.
THEOREM MessagesOfThisIteration == Spec => []ReadsThisIteration
<1>1. ASSUME InFlow PROVE ReadsThisIteration
  <2>1. SUFFICES ASSUME MemAccess, NEW t \in Tasks, pc[t] = "read",
                        NEW u \in Ins(t), dag.type[u] = "cpu"
                 PROVE  buf[<<u, t>>] = iter[t]
    BY DEF ReadsThisIteration, InEdges
  <2>2. u \in Tasks /\ <<u, t>> \in dag.edges /\ Launchable /\ Flow
    BY <1>1, <2>1 DEF Ins, InputsOf, Tasks, InFlow
  <2>3. PICK source \in Sources : source \in Tasks
    BY <1>1, <2>2, OneEach DEF InFlow, Sources
  <2>4. ~(iter[t] < Begun(source))
    BY <1>1, <2>1, <2>2, Behind
  <2>5. /\ Begun(u) <= Begun(source) /\ Begun(u) \in Nat /\ Begun(source) \in Nat
        /\ iter[t] \in Nat /\ iter[u] \in Nat /\ iter[u] > 0
    <3>1. \E sink \in Tasks : Sinks = {sink}
      BY <1>1, <2>2, OneEach DEF InFlow
    <3> QED BY <1>1, <2>2, <2>3, <3>1, InOrder, Types
  <2>6. Begun(u) <= iter[t]
    BY <2>4, <2>5
  <2>7. Begun(t) = iter[t]
    BY <2>1 DEF Begun, Early
  <2>8. SentTo(u, t) = iter[t] + (IF u \in mask[t] THEN 1 ELSE 0)
    BY <2>2, <2>7 DEF Flow, Conserved
  <2>9. SentTo(u, t) <= Begun(u)
    BY <2>5 DEF SentTo, HasSent, Begun, Early
  <2>10. SentTo(u, t) = iter[t] /\ Begun(u) = iter[t]
    BY <2>5, <2>6, <2>8, <2>9
  <2>11. Written(u, t) => iter[u] = iter[t]
    BY <2>10 DEF Written, Begun, Early
  <2> QED BY <2>1, <2>2, <2>10, <2>11 DEF Flow, Buffered
<1> QED BY <1>1, AlwaysInFlow, PTL
=============================================================================
