----------------------------- MODULE Rendezvous -----------------------------
(***************************************************************************)
(* What multi_queue.h promises its callers: a queue with one place per      *)
(* incoming edge.  A push fills its place and waits while it is taken; a    *)
(* pop waits for every place, and takes them all at once.  Nothing here     *)
(* says how threads wait: MultiQueue is the implementation.                 *)
(***************************************************************************)
EXTENDS Naturals, Sequences

CONSTANTS
    NumElems,  \* incoming edges of the queue
    PerElem,   \* threads that push to the same place
    Rounds,    \* elements each of them pushes (bound)
    Empty      \* no element

VARIABLES
    slots,  \* the element in each place
    sent,   \* how many elements each pusher has pushed
    taken   \* what the pops returned, in order

vars == <<slots, sent, taken>>

Places == 0 .. NumElems - 1

\* A pusher knows its place by mq_push_idx.
Pushers == Places \X (1 .. PerElem)

NoElems == [i \in Places |-> Empty]

Init ==
    /\ slots = NoElems
    /\ sent = [p \in Pushers |-> 0]
    /\ taken = << >>

Push(p) ==
    /\ sent[p] < Rounds
    /\ slots[p[1]] = Empty
    /\ slots' = [slots EXCEPT ![p[1]] = <<p, sent[p] + 1>>]
    /\ sent' = [sent EXCEPT ![p] = @ + 1]
    /\ UNCHANGED taken

Pop ==
    /\ \A i \in Places : slots[i] # Empty
    /\ taken' = Append(taken, slots)
    /\ slots' = NoElems
    /\ UNCHANGED sent

Next == Pop \/ \E p \in Pushers : Push(p)

Spec == /\ Init /\ [][Next]_vars
        /\ WF_vars(Pop)
        /\ \A p \in Pushers : WF_vars(Push(p))
=============================================================================
