----------------------------- MODULE MultiQueue -----------------------------
(***************************************************************************)
(* rtdag's multi_queue.h: a mask of busy places under a mutex, a condition  *)
(* variable per place for the threads that push, and one for those that     *)
(* pop.  A step runs from taking the mutex to giving it back, by unlocking  *)
(* or by waiting; a thread whose condition was signalled competes for the   *)
(* mutex with all others and tests its condition again.                     *)
(***************************************************************************)
EXTENDS Naturals, FiniteSets, Sequences

CONSTANTS
    NumElems,  \* num_elems
    PerElem,   \* threads that push to the same place (one per edge in rtdag)
    Poppers,   \* threads that pop (one in a DAG with a single sink)
    Rounds,    \* elements each pusher pushes (bound)
    Width,     \* 32 in the code: busy_mask is an int
    Empty      \* no element

ASSUME ConstantsAssumption ==
    /\ {NumElems, PerElem, Rounds, Width} \subseteq Nat \ {0}
    /\ NumElems < Width
    /\ \A p \in (0 .. NumElems - 1) \X (1 .. PerElem) :
         p \notin Poppers /\ \A n \in 1 .. Rounds : <<p, n>> # Empty

VARIABLES
    elems,      \* elems
    busy_mask,  \* the bits of busy_mask that are set
    waiting,    \* waiting: pushers suspended on each place
    pc,         \* each thread: "out" of the queue, "blocked" or "woken"
    sent,       \* how many elements each pusher has pushed
    taken       \* what multi_queue_pop copied out, in order

vars == <<elems, busy_mask, waiting, pc, sent, taken>>

Places == 0 .. NumElems - 1
Pushers == Places \X (1 .. PerElem)

\* (1 << num_elems) - 1.  The processors the program is built for take the
\* distance of a shift modulo the width of an int.
Full == 0 .. (NumElems % Width) - 1

Blocked(S) == {t \in S : pc[t] = "blocked"}
OnPlace(i) == {p \in Pushers : p[1] = i}

\* multi_queue_init.
Init ==
    /\ elems = [i \in Places |-> Empty]
    /\ busy_mask = {}
    /\ waiting = [i \in Places |-> 0]
    /\ pc = [t \in Pushers \cup Poppers |-> "out"]
    /\ sent = [p \in Pushers |-> 0]
    /\ taken = << >>

\* A push begins, or returns from pthread_cond_wait.
Pushing(p) == \/ pc[p] = "out" /\ sent[p] < Rounds
              \/ pc[p] = "woken"

\* (wrong: waiting is not decremented when the wait is over)
StillWaiting(p) == waiting[p[1]]

Waiting(p) == IF pc[p] = "woken" THEN waiting[p[1]] - 1 ELSE waiting[p[1]]

PushWaits(p) ==
    /\ Pushing(p)
    /\ p[1] \in busy_mask
    /\ waiting' = [waiting EXCEPT ![p[1]] = Waiting(p) + 1]
    /\ pc' = [pc EXCEPT ![p] = "blocked"]
    /\ UNCHANGED <<elems, busy_mask, sent, taken>>

\* (wrong: the condition is signalled before the last place is filled)
SignalsLate(mask) == {{}}

\* pthread_cond_signal(&cv_ready) when the mask is full: one thread, if any
\* waits.
SignalReady(mask) ==
    IF mask = Full /\ Blocked(Poppers) # {}
    THEN {{q} : q \in Blocked(Poppers)} ELSE {{}}

PushFills(p) ==
    /\ Pushing(p)
    /\ p[1] \notin busy_mask
    /\ waiting' = [waiting EXCEPT ![p[1]] = Waiting(p)]
    /\ elems' = [elems EXCEPT ![p[1]] = <<p, sent[p] + 1>>]
    /\ busy_mask' = busy_mask \cup {p[1]}
    /\ sent' = [sent EXCEPT ![p] = @ + 1]
    /\ \E woken \in SignalReady(busy_mask') :
        pc' = [t \in DOMAIN pc |-> IF t = p THEN "out"
                                   ELSE IF t \in woken THEN "woken" ELSE pc[t]]
    /\ UNCHANGED taken

PopWaits(q) ==
    /\ pc[q] # "blocked"
    /\ busy_mask # Full
    /\ pc' = [pc EXCEPT ![q] = "blocked"]
    /\ UNCHANGED <<elems, busy_mask, waiting, sent, taken>>

\* (wrong: only the threads that wait for the first place are signalled)
SignalsFirst ==
    IF Blocked(OnPlace(0)) # {} THEN {{p} : p \in Blocked(OnPlace(0))} ELSE {{}}

\* One signal for each place with waiting > 0; a thread that was signalled
\* and has not taken the mutex yet still counts, and the signal may be lost.
SignalBusy ==
    {woken \in SUBSET Blocked(Pushers) :
        \A i \in Places :
            Cardinality(woken \cap OnPlace(i)) =
                IF waiting[i] > 0 /\ Blocked(OnPlace(i)) # {} THEN 1 ELSE 0}

PopTakes(q) ==
    /\ pc[q] # "blocked"
    /\ busy_mask = Full
    /\ taken' = Append(taken, elems)
    /\ busy_mask' = {}
    /\ \E woken \in SignalBusy :
        pc' = [t \in DOMAIN pc |-> IF t = q THEN "out"
                                   ELSE IF t \in woken THEN "woken" ELSE pc[t]]
    /\ UNCHANGED <<elems, waiting, sent>>

\* A wait may end without a signal: both loops test their condition again.
Spurious(t) ==
    /\ pc[t] = "blocked"
    /\ pc' = [pc EXCEPT ![t] = "woken"]
    /\ UNCHANGED <<elems, busy_mask, waiting, sent, taken>>

PushStep(p) == PushWaits(p) \/ PushFills(p)
PopStep(q) == PopWaits(q) \/ PopTakes(q)

Next ==
    \/ \E p \in Pushers : PushStep(p)
    \/ \E q \in Poppers : PopStep(q)
    \/ \E t \in DOMAIN pc : Spurious(t)

\* A thread that is not suspended goes on.
Spec == /\ Init /\ [][Next]_vars
        /\ \A p \in Pushers : WF_vars(PushStep(p))
        /\ \A q \in Poppers : WF_vars(PopStep(q))

-----------------------------------------------------------------------------
(* Properties.                                                             *)

TypeOK ==
    /\ busy_mask \subseteq Places
    /\ elems \in [Places -> (Pushers \X (1 .. Rounds)) \cup {Empty}]
    /\ waiting \in [Places -> Nat]
    /\ pc \in [Pushers \cup Poppers -> {"out", "blocked", "woken"}]
    /\ sent \in [Pushers -> 0 .. Rounds]

\* In pthread_cond_wait on place i.
Suspended(i) == {p \in OnPlace(i) : pc[p] # "out"}

\* waiting[i] counts the threads suspended on place i and those that were
\* woken and have not left pthread_cond_wait: a pop that finds it 0 must not
\* skip a signal somebody needs.
WaitingCounts == \A i \in Places : waiting[i] = Cardinality(Suspended(i))

\* No wake-up is lost: as long as a thread is suspended on a condition that
\* holds, another one that waits for the same condition has been woken and is
\* about to test it.
NoLostWakeup ==
    /\ busy_mask = Full /\ Blocked(Poppers) # {} =>
        \E q \in Poppers : pc[q] = "woken"
    /\ \A i \in Places \ busy_mask :
        Blocked(OnPlace(i)) # {} => \E p \in OnPlace(i) : pc[p] = "woken"

Queue == INSTANCE Rendezvous WITH
    slots <- [i \in Places |-> IF i \in busy_mask THEN elems[i] ELSE Empty]

\* The threads, mutex and condition variables implement the queue: each pop
\* returns one element of every place, no element is lost, overwritten or
\* returned twice, and every push and pop that can end does.
ImplementsQueue == Queue!Spec

\* What is marked busy is an element, and who waits has one to push.
Filled ==
    /\ \A i \in busy_mask : elems[i] # Empty
    /\ \A p \in Pushers : pc[p] # "out" => sent[p] < Rounds

\* Types, the counters agree with the threads (WaitingCounts), and the places
\* with the mask (Filled).
QueueInv == TypeOK /\ WaitingCounts /\ Filled
=============================================================================
