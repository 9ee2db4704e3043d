------------------------------- MODULE RtDag -------------------------------
(***************************************************************************)
(* rtdag's task_set.h: a thread per task of a DAG, a queue in front of each *)
(* task that has predecessors, one message buffer per edge, and a queue of  *)
(* one place that carries the start time of a DAG instance from its source  *)
(* to its sink.  The queues are used as Rendezvous promises; MultiQueue     *)
(* shows that multi_queue.h keeps the promise.  A message buffer is written *)
(* before the push and read after the pop, with no lock: only the queue of  *)
(* start times keeps a writer away from a reader.                           *)
(***************************************************************************)
EXTENDS Naturals, FiniteSets, Sequences, SequencesExt

CONSTANTS
    Dags,   \* the DAGs described by the input: [type, edges, mem, fails]
    Iters   \* total_iterations

\* mem: RTDAG_MEM_ACCESS, are messages written and read?  fails: may a call of the
\* fred library fail?
ASSUME ConstantsAssumption ==
    /\ Iters \in Nat \ {0}
    /\ \A d \in Dags : /\ d.edges \subseteq (DOMAIN d.type) \X (DOMAIN d.type)
                       /\ {d.mem, d.fails} \subseteq BOOLEAN

VARIABLES
    dag,    \* the DAG of this run
    phase,  \* of the process: "launching", "running", "joined" or "exit"
    pc,     \* where each task's thread is
    iter,   \* the iteration each task is in, from 1
    mask,   \* busy_mask of each task's queue: the predecessors that pushed
    todo,   \* successors a task has still to send to in this iteration
    start,  \* the queue of start times: an iteration, or 0 when empty
    buf,    \* msg_buf of each edge: the iteration written there, 0 for dots
    resp    \* dag_resp_times: the start time each was computed from

threads == <<pc, iter, todo>>
queues == <<mask, start>>
vars == <<dag, phase, threads, queues, buf, resp>>

MemAccess == dag.mem
FredFails == dag.fails

InputsOf(d, t) == {s \in DOMAIN d.type : <<s, t>> \in d.edges}
OutputsOf(d, t) == {u \in DOMAIN d.type : <<t, u>> \in d.edges}

Tasks == DOMAIN dag.type
Ins(t) == InputsOf(dag, t)
Outs(t) == OutputsOf(dag, t)
InEdges(t) == Ins(t) \X {t}
OutEdges(t) == {t} \X Outs(t)

Sinks == {t \in Tasks : Outs(t) = {}}
Sources == {t \in Tasks : Ins(t) = {}}

\* tasks[0], and the first task without successors.
FirstTask(d) == CHOOSE t \in DOMAIN d.type : \A u \in DOMAIN d.type : t <= u
FirstSink(d) == CHOOSE t \in DOMAIN d.type :
    /\ OutputsOf(d, t) = {}
    /\ \A u \in DOMAIN d.type : OutputsOf(d, u) = {} => t <= u

\* What thread_launcher checks of a DAG before it starts any thread.
Accepted(d) ==
    /\ d.type[FirstTask(d)] = "cpu"
    /\ InputsOf(d, FirstTask(d)) = {}
    /\ \E t \in DOMAIN d.type : OutputsOf(d, t) = {}
    /\ d.type[FirstSink(d)] = "cpu"

\* What it does not check and the structures count on ("the DAG source", "the
\* DAG sink"): one source, one sink, and no cycle, so that a set of tasks has
\* one without predecessors in the set and one without successors in it.
OneWay(d) ==
    /\ \E source \in DOMAIN d.type : \A t \in DOMAIN d.type :
          InputsOf(d, t) = {} <=> t = source
    /\ \E sink \in DOMAIN d.type : \A t \in DOMAIN d.type :
          OutputsOf(d, t) = {} <=> t = sink
    /\ \A S \in SUBSET DOMAIN d.type : S # {} =>
          /\ \E t \in S : InputsOf(d, t) \cap S = {}
          /\ \E t \in S : OutputsOf(d, t) \cap S = {}

ASSUME GraphsAssumption ==
    \A d \in Dags : /\ DOMAIN d.type \subseteq Nat
                    /\ Accepted(d) => OneWay(d)

\* The constructor: queues empty, nothing in the buffers yet.
Init ==
    /\ dag \in Dags
    /\ phase = "launching"
    /\ pc = [t \in Tasks |-> "none"]
    /\ iter = [t \in Tasks |-> 1]
    /\ mask = [t \in Tasks |-> {}]
    /\ todo = [t \in Tasks |-> {}]
    /\ start = 0
    /\ buf = [e \in dag.edges |-> 0]
    /\ resp = [i \in 1 .. Iters |-> 0]

-----------------------------------------------------------------------------
(* Launching the threads.                                                  *)

Launchable == Accepted(dag)

Exit ==
    /\ phase' = "exit"
    /\ UNCHANGED <<dag, threads, queues, buf, resp>>

Reject == phase = "launching" /\ ~Launchable /\ Exit

\* The next thread starts.
Launch(t) ==
    /\ phase = "launching" /\ Launchable
    /\ pc[t] = "none" /\ \A u \in Tasks : u < t => pc[u] # "none"
    /\ dag.type[t] \in {"cpu", "fred"}
    /\ pc' = [pc EXCEPT ![t] = "setup"]
    /\ phase' = IF \E u \in Tasks : u > t THEN phase ELSE "running"
    /\ UNCHANGED <<dag, iter, todo, queues, buf, resp>>

\* A task of another type ends the process, with the threads before it.
InvalidType(t) ==
    /\ phase = "launching" /\ Launchable
    /\ pc[t] = "none" /\ \A u \in Tasks : u < t => pc[u] # "none"
    /\ dag.type[t] \notin {"cpu", "fred"}
    /\ Exit

Live == phase \in {"launching", "running"}

\* A thread cleans the buffers of its edges and gets to the barrier.  A fred
\* task also binds, maps and runs its hardware task once.
Setup(t) ==
    /\ Live /\ pc[t] = "setup"
    /\ buf' = [e \in DOMAIN buf |->
                IF e \in InEdges(t) \cup OutEdges(t) THEN 0 ELSE buf[e]]
    /\ pc' = [pc EXCEPT ![t] = "barrier"]
    /\ UNCHANGED <<dag, phase, iter, todo, queues, resp>>

\* fred_init, fred_bind, fred_map_buff or fred_accel failed.
FredError(t) ==
    /\ FredFails
    /\ Live /\ dag.type[t] = "fred" /\ pc[t] \in {"setup", "read"}
    /\ Exit

\* (wrong: a thread does not wait for the others)
PassesAlone(t) == {t}

\* The barrier counts n_tasks threads and lets them all go.
Passes(t) == {u \in Tasks : \A v \in Tasks : pc[v] = "barrier"}

Barrier(t) ==
    /\ Live /\ pc[t] = "barrier"
    /\ t \in Passes(t)
    /\ pc' = [u \in Tasks |-> IF u \in Passes(t) THEN "top" ELSE pc[u]]
    /\ UNCHANGED <<dag, phase, iter, todo, queues, buf, resp>>

-----------------------------------------------------------------------------
(* One iteration of a task.                                                *)

\* (wrong: the queue of start times has room for any number of them)
AlwaysRoom == TRUE

StartRoom == start = 0

\* A source pushes the start time of a DAG instance.
PushStart(t) ==
    /\ Live /\ pc[t] = "top" /\ Ins(t) = {}
    /\ StartRoom
    /\ start' = iter[t]
    /\ todo' = [todo EXCEPT ![t] = Outs(t)]
    /\ pc' = [pc EXCEPT ![t] = "send"]
    /\ UNCHANGED <<dag, phase, iter, mask, buf, resp>>

\* Any other task pops its queue, once every predecessor has pushed.
Pop(t) ==
    /\ Live /\ pc[t] = "top" /\ Ins(t) # {}
    /\ mask[t] = Ins(t)
    /\ mask' = [mask EXCEPT ![t] = {}]
    /\ pc' = [pc EXCEPT ![t] = "read"]
    /\ UNCHANGED <<dag, phase, iter, todo, start, buf, resp>>

\* It has read the buffers of all its edges, and done its work.
Read(t) ==
    /\ Live /\ pc[t] = "read"
    /\ todo' = [todo EXCEPT ![t] = Outs(t)]
    /\ pc' = [pc EXCEPT ![t] = "send"]
    /\ UNCHANGED <<dag, phase, iter, queues, buf, resp>>

\* out_buffers are in the order of the tasks they lead to.
NextOut(t) == CHOOSE d \in todo[t] : \A u \in todo[t] : d <= u

\* The next edge's buffer is written.
Write(t) ==
    /\ Live /\ pc[t] = "send" /\ todo[t] # {}
    /\ dag.type[t] = "fred" => ~MemAccess
    /\ buf' = IF MemAccess THEN [buf EXCEPT ![<<t, NextOut(t)>>] = iter[t]] ELSE buf
    /\ pc' = [pc EXCEPT ![t] = "push"]
    /\ UNCHANGED <<dag, phase, iter, todo, queues, resp>>

OutSeq(t) == SetToSortSeq(Outs(t), <)

\* fred_task_creator adds in_buffers.size() to the index of the edge and not
\* to that of the hardware task's buffer.
FredIndex(t) ==
    (CHOOSE k \in DOMAIN OutSeq(t) : OutSeq(t)[k] = NextOut(t)) + Cardinality(Ins(t))

FredWrite(t) ==
    /\ Live /\ pc[t] = "send" /\ todo[t] # {}
    /\ dag.type[t] = "fred" /\ MemAccess
    /\ FredIndex(t) <= Len(OutSeq(t))
    /\ buf' = [buf EXCEPT ![<<t, OutSeq(t)[FredIndex(t)]>>] = iter[t]]
    /\ pc' = [pc EXCEPT ![t] = "push"]
    /\ UNCHANGED <<dag, phase, iter, todo, queues, resp>>

\* Past the end of the vector there is no edge: the process dies, or what is
\* written there is none of the buffers.
FredWriteOutside(t) ==
    /\ Live /\ pc[t] = "send" /\ todo[t] # {}
    /\ dag.type[t] = "fred" /\ MemAccess
    /\ FredIndex(t) > Len(OutSeq(t))
    /\ \/ Exit
       \/ /\ pc' = [pc EXCEPT ![t] = "push"]
          /\ UNCHANGED <<dag, phase, iter, todo, queues, buf, resp>>

\* multi_queue_push waits until the successor has popped the last message.
Push(t) ==
    /\ Live /\ pc[t] = "push"
    /\ t \notin mask[NextOut(t)]
    /\ mask' = [mask EXCEPT ![NextOut(t)] = @ \cup {t}]
    /\ todo' = [todo EXCEPT ![t] = @ \ {NextOut(t)}]
    /\ pc' = [pc EXCEPT ![t] = "send"]
    /\ UNCHANGED <<dag, phase, iter, start, buf, resp>>

\* (wrong: the first start time is looked at and left in the queue)
PoppedLater(t) == IF iter[t] = 1 THEN start ELSE 0

Popped(t) == 0

EndIteration(t) ==
    /\ pc' = [pc EXCEPT ![t] = IF iter[t] < Iters THEN "top" ELSE "done"]
    /\ iter' = [iter EXCEPT ![t] = IF iter[t] < Iters THEN @ + 1 ELSE @]

\* All messages are sent.  (A source waits for its period here.)
Sent(t) ==
    /\ Live /\ pc[t] = "send" /\ todo[t] = {} /\ Outs(t) # {}
    /\ EndIteration(t)
    /\ UNCHANGED <<dag, phase, todo, queues, buf, resp>>

\* A sink takes the start time and records the response time.
PopStart(t) ==
    /\ Live /\ pc[t] = "send" /\ Outs(t) = {}
    /\ start # 0
    /\ resp' = [resp EXCEPT ![iter[t]] = start]
    /\ start' = Popped(t)
    /\ EndIteration(t)
    /\ UNCHANGED <<dag, phase, todo, mask, buf>>

\* thread_launcher has joined every thread.
Join ==
    /\ phase = "running"
    /\ \A t \in Tasks : pc[t] = "done"
    /\ phase' = "joined"
    /\ UNCHANGED <<dag, threads, queues, buf, resp>>

\* The process has ended.
Ended == phase \in {"exit", "joined"} /\ UNCHANGED vars

Step(t) ==
    \/ Launch(t) \/ InvalidType(t) \/ Setup(t) \/ FredError(t) \/ Barrier(t)
    \/ PushStart(t) \/ Pop(t) \/ Read(t)
    \/ Write(t) \/ FredWrite(t) \/ FredWriteOutside(t) \/ Push(t)
    \/ Sent(t) \/ PopStart(t)

Next == Reject \/ (\E t \in Tasks : Step(t)) \/ Join \/ Ended

\* Every thread runs; those that wait on a queue are woken (MultiQueue).
Fairness ==
    /\ WF_vars(Reject)
    /\ WF_vars(Join)
    /\ \A t \in UNION {DOMAIN d.type : d \in Dags} : WF_vars(t \in Tasks /\ Step(t))

Spec == Init /\ [][Next]_vars /\ Fairness

-----------------------------------------------------------------------------
(* Properties.                                                             *)

TypeOK ==
    /\ phase \in {"launching", "running", "joined", "exit"}
    /\ pc \in [Tasks -> {"none", "setup", "barrier", "top", "read", "send", "push", "done"}]
    /\ iter \in [Tasks -> 1 .. Iters]
    /\ {mask, todo} \subseteq [Tasks -> SUBSET Tasks]
    /\ \A t \in Tasks : mask[t] \subseteq Ins(t) /\ todo[t] \subseteq Outs(t)
    /\ start \in 0 .. Iters
    /\ buf \in [dag.edges -> 0 .. Iters]
    /\ resp \in [1 .. Iters -> 0 .. Iters]

\* From the pop to the end of its reads, a task finds in every buffer a CPU task
\* writes the message of its own iteration: no predecessor has begun to write
\* the next one, and no late thread wipes it.  No lock protects the buffers.
ReadsThisIteration ==
    MemAccess => \A t \in Tasks : pc[t] = "read" =>
        \A e \in InEdges(t) : dag.type[e[1]] = "cpu" => buf[e] = iter[t]

\* Instances of the DAG do not overlap: when a source works on an instance,
\* every other task has sent all it had to send in the one before.
InstancesDoNotOverlap ==
    \A s \in Sources : pc[s] \in {"send", "push"} =>
        \A t \in Tasks : iter[t] < iter[s] =>
            t \notin Sinks /\ pc[t] = "send" /\ todo[t] = {} /\ iter[t] + 1 = iter[s]

\* The response time of an iteration is computed from its own start time.
ResponseTimesMatch ==
    \A i \in 1 .. Iters : resp[i] \in {0, i}

\* With one source and one sink every thread ends, unless the process exits:
\* nobody waits for ever on the barrier, an edge or the start times.
EveryThreadEnds == <>(phase \in {"joined", "exit"})

\* Types, and instances of the DAG and their times do not mix:
\* InstancesDoNotOverlap and ResponseTimesMatch.
InstancesInv == TypeOK /\ InstancesDoNotOverlap /\ ResponseTimesMatch
=============================================================================
