-------------------------- MODULE FredSchedProofs --------------------------
(***************************************************************************)
(* Proofs about FredSched, for any numbers of clients, hardware tasks,     *)
(* slots and partitions, any scheduler mode and with or without failing    *)
(* calls, under the assumption ~Overlap: no accelerator finishes while its *)
(* watchdog expires.                                                       *)
(***************************************************************************)
EXTENDS FredSched, SequenceTheorems, WellFoundedInduction, TLAPS

-----------------------------------------------------------------------------
(* Sequences.                                                              *)

\* A nonempty set of naturals has a least element.
LEMMA LeastExists ==
  ASSUME NEW I, I \subseteq Nat, I # {}
  PROVE  Min(I) \in I /\ \A y \in I : Min(I) <= y
<1>1. IsWellFoundedOn(OpToRel(<, Nat), Nat)
  BY NatLessThanWellFounded
<1>2. PICK x \in I : \A y \in I : ~ (<<y, x>> \in OpToRel(<, Nat))
  BY <1>1, WFMin
<1>3. \A y \in I : x <= y
  <2> SUFFICES ASSUME NEW y \in I PROVE ~ (y < x)
    OBVIOUS
  <2>1. OpToRel(<, Nat) = {ss \in Nat \X Nat : ss[1] < ss[2]}
    BY DEF OpToRel
  <2>2. y < x => <<y, x>> \in OpToRel(<, Nat)
    BY <2>1
  <2> QED BY <1>2, <2>2
<1> QED
  BY <1>3 DEF Min

\* t is q with r at place k, before the first request with a later stamp.
Inserted(t, q, r, rq, k) ==
    /\ t[k] = r
    /\ \A i \in 1..(k - 1) : t[i] = q[i] /\ r \notin rq[q[i]].older
    /\ \A i \in (k + 1)..(Len(q) + 1) : t[i] = q[i - 1]
    /\ k <= Len(q) => r \in rq[q[k]].older

\* ins_req_ordered_ puts a request there.
LEMMA InsertShape ==
  ASSUME NEW q \in Seq(Clients), NEW r \in Clients, NEW rq
  PROVE  LET t == InsReqOrdered(q, r, rq)
         IN  /\ t \in Seq(Clients)
             /\ Len(t) = Len(q) + 1
             /\ \E k \in 1..(Len(q) + 1) : Inserted(t, q, r, rq, k)
<1> DEFINE I == {i \in 1..Len(q) : r \in rq[q[i]].older}
           at == SelectInSeq(q, LAMBDA e : r \in rq[e].older)
           k == IF at = 0 THEN Len(q) + 1 ELSE at
<1>1. I \subseteq Nat /\ I \subseteq 1..Len(q) /\ Len(q) \in Nat
  OBVIOUS
<1>2. at = IF I # {} THEN Min(I) ELSE 0
  BY DEF SelectInSeq
<1>3. I # {} => Min(I) \in I /\ \A y \in I : Min(I) <= y
  <2> HIDE DEF I
  <2> QED BY <1>1, LeastExists
<1>4. /\ k \in 1..(Len(q) + 1)
      /\ k <= Len(q) => k \in I
      /\ \A i \in 1..(k - 1) : i \in 1..Len(q) /\ i \notin I
  <2> HIDE DEF I, at
  <2>1. CASE I = {}
    BY <2>1, <1>1, <1>2
  <2>2. CASE I # {}
    <3>0. at = Min(I)
      BY <2>2, <1>2
    <3>1. at \in I /\ at \in 1..Len(q) /\ k = at /\ \A y \in I : at <= y
      <4>1. at \in I /\ \A y \in I : at <= y
        BY <2>2, <1>3, <3>0
      <4>2. at \in 1..Len(q)
        BY <4>1, <1>1
      <4> QED BY <4>1, <4>2, <1>1
    <3>2. \A i \in 1..(at - 1) : i \in 1..Len(q) /\ i \notin I
      BY <3>1, <1>1
    <3> QED BY <3>1, <3>2, <1>1
  <2> QED BY <2>1, <2>2
<1>5. InsReqOrdered(q, r, rq)
        = SubSeq(q, 1, k - 1) \o <<r>> \o SubSeq(q, k, Len(q))
  BY DEF InsReqOrdered, InsertAt
<1>6. /\ k <= Len(q) => r \in rq[q[k]].older
      /\ \A i \in 1..(k - 1) : r \notin rq[q[i]].older
  BY <1>4
<1> HIDE DEF k, I, at
<1> DEFINE a == SubSeq(q, 1, k - 1)
           b == SubSeq(q, k, Len(q))
<1>7. /\ a \in Seq(Clients)
      /\ Len(a) = k - 1
      /\ \A i \in 1..(k - 1) : a[i] = q[i]
  <2>1. \A i \in 1..(k - 1) : q[i] \in Clients
    BY <1>4
  <2> QED BY <1>4, <2>1, SubSeqProperties
<1>8. /\ b \in Seq(Clients)
      /\ Len(b) = Len(q) + 1 - k
      /\ \A i \in 1..(Len(q) + 1 - k) : b[i] = q[k + i - 1]
  <2>1. \A i \in k..Len(q) : q[i] \in Clients
    BY <1>4
  <2> QED BY <1>4, <2>1, SubSeqProperties
<1> HIDE DEF a, b
<1>9. /\ a \o <<r>> \in Seq(Clients)
      /\ Len(a \o <<r>>) = k
      /\ \A i \in 1..(k - 1) : (a \o <<r>>)[i] = q[i]
      /\ (a \o <<r>>)[k] = r
  <2>1. <<r>> \in Seq(Clients) /\ Len(<<r>>) = 1 /\ <<r>>[1] = r
    OBVIOUS
  <2> DEFINE s == <<r>>
  <2>2. /\ a \o s \in Seq(Clients)
        /\ Len(a \o s) = Len(a) + Len(s)
        /\ \A i \in 1..(Len(a) + Len(s)) :
             (a \o s)[i] = IF i <= Len(a) THEN a[i] ELSE s[i - Len(a)]
    BY <1>7, <2>1, ConcatProperties
  <2> HIDE DEF s
  <2> QED BY <1>4, <1>7, <2>1, <2>2 DEF s
<1> DEFINE ar == a \o <<r>>
<1> HIDE DEF ar
<1>10. /\ ar \o b \in Seq(Clients)
       /\ Len(ar \o b) = Len(ar) + Len(b)
       /\ \A i \in 1..(Len(ar) + Len(b)) :
             (ar \o b)[i] = IF i <= Len(ar) THEN ar[i] ELSE b[i - Len(ar)]
  BY <1>8, <1>9, ConcatProperties DEF ar
<1>11. /\ Len(ar) = k
       /\ ar[k] = r
       /\ \A i \in 1..(k - 1) : ar[i] = q[i]
  BY <1>9 DEF ar
<1>12. /\ Len(ar \o b) = Len(q) + 1
       /\ (ar \o b)[k] = r
       /\ \A i \in 1..(k - 1) : (ar \o b)[i] = q[i]
       /\ \A i \in (k + 1)..(Len(q) + 1) : (ar \o b)[i] = q[i - 1]
  BY <1>4, <1>8, <1>10, <1>11
<1>13. InsReqOrdered(q, r, rq) = ar \o b
  BY <1>5 DEF a, b, ar
<1>14. Inserted(ar \o b, q, r, rq, k)
  BY <1>4, <1>6, <1>12 DEF Inserted
<1> QED BY <1>4, <1>10, <1>12, <1>13, <1>14

\* The request is added to those of the queue.
LEMMA InsertElements ==
  ASSUME NEW q \in Seq(Clients), NEW r \in Clients, NEW rq,
         IsInjective(q), r \notin ToSet(q)
  PROVE  LET t == InsReqOrdered(q, r, rq)
         IN  /\ t \in Seq(Clients)
             /\ t # << >>
             /\ ToSet(t) = ToSet(q) \cup {r}
             /\ IsInjective(t)
             /\ q = << >> => Head(t) = r
<1> DEFINE t == InsReqOrdered(q, r, rq)
<1>1. /\ t \in Seq(Clients)
      /\ Len(t) = Len(q) + 1
      /\ Len(q) \in Nat
  BY InsertShape
<1>0. PICK k \in 1..(Len(q) + 1) : Inserted(t, q, r, rq, k)
  BY InsertShape
<1> HIDE DEF t
<1>2. /\ t[k] = r
      /\ \A i \in 1..(k - 1) : t[i] = q[i]
      /\ \A i \in (k + 1)..(Len(q) + 1) : t[i] = q[i - 1]
  BY <1>0 DEF Inserted
<1>3. DOMAIN t = 1..(Len(q) + 1) /\ DOMAIN q = 1..Len(q)
  BY <1>1
<1>4. \A i \in DOMAIN t : i # k => \E j \in DOMAIN q : t[i] = q[j] /\ j = IF i < k THEN i ELSE i - 1
  BY <1>1, <1>2, <1>3
<1>5. \A j \in DOMAIN q : \E i \in DOMAIN t : t[i] = q[j]
  <2> SUFFICES ASSUME NEW j \in DOMAIN q PROVE \E i \in DOMAIN t : t[i] = q[j]
    OBVIOUS
  <2>1. CASE j < k
    BY <2>1, <1>1, <1>2, <1>3
  <2>2. CASE j >= k
    <3>1. j + 1 \in DOMAIN t /\ t[j + 1] = q[(j + 1) - 1]
      BY <2>2, <1>1, <1>2, <1>3
    <3> QED BY <3>1, <1>1, <1>3
  <2> QED BY <2>1, <2>2, <1>1, <1>3
<1>6. ToSet(t) = ToSet(q) \cup {r}
  BY <1>2, <1>3, <1>4, <1>5 DEF ToSet
<1>7. IsInjective(t)
  <2> SUFFICES ASSUME NEW i \in DOMAIN t, NEW j \in DOMAIN t, t[i] = t[j]
               PROVE  i = j
    BY DEF IsInjective
  <2>1. CASE i = k \/ j = k
    <3>1. \A m \in DOMAIN t : m # k => t[m] # r
      BY <1>4 DEF ToSet
    <3> QED BY <2>1, <3>1, <1>2
  <2>2. CASE i # k /\ j # k
    BY <2>2, <1>1, <1>2, <1>3, <1>4 DEF IsInjective
  <2> QED BY <2>1, <2>2
<1>8. t # << >> /\ (q = << >> => Head(t) = r)
  BY <1>1, <1>2
<1> QED BY <1>1, <1>6, <1>7, <1>8 DEF t

\* A queue in issue order stays so.
LEMMA InsertKeepsOrder ==
  ASSUME NEW q \in Seq(Clients), NEW r \in Clients, NEW rq,
         InIssueOrder(q, rq),
         \A e \in ToSet(q) : r \in rq[e].older <=> e \notin rq[r].older,
         \A e, f \in ToSet(q) :
            r \in rq[e].older /\ e \in rq[f].older => r \in rq[f].older
  PROVE  InIssueOrder(InsReqOrdered(q, r, rq), rq)
<1> DEFINE t == InsReqOrdered(q, r, rq)
<1>1. /\ t \in Seq(Clients)
      /\ Len(t) = Len(q) + 1
      /\ Len(q) \in Nat
  BY InsertShape
<1>0. PICK k \in 1..(Len(q) + 1) : Inserted(t, q, r, rq, k)
  BY InsertShape
<1> HIDE DEF t
<1>2. /\ t[k] = r
      /\ \A i \in 1..(k - 1) : t[i] = q[i] /\ r \notin rq[q[i]].older
      /\ \A i \in (k + 1)..(Len(q) + 1) : t[i] = q[i - 1]
      /\ k <= Len(q) => r \in rq[q[k]].older
  BY <1>0 DEF Inserted
<1>3. DOMAIN t = 1..(Len(q) + 1) /\ DOMAIN q = 1..Len(q)
  BY <1>1
<1>4. \A i \in DOMAIN q : q[i] \in ToSet(q)
  BY DEF ToSet
<1>5. \A i, j \in DOMAIN q : i < j => q[i] \in rq[q[j]].older
  BY DEF InIssueOrder
<1>6. \A j \in k..Len(q) : r \in rq[q[j]].older
  <2> SUFFICES ASSUME NEW j \in k..Len(q) PROVE r \in rq[q[j]].older
    OBVIOUS
  <2>1. k \in DOMAIN q /\ j \in DOMAIN q
    BY <1>1, <1>3
  <2>2. CASE j = k
    BY <2>2, <1>2, <1>1
  <2>3. CASE k < j
    BY <2>1, <2>3, <1>1, <1>2, <1>4, <1>5
  <2> QED BY <2>2, <2>3
<1> SUFFICES ASSUME NEW i \in DOMAIN t, NEW j \in DOMAIN t, i < j
             PROVE  t[i] \in rq[t[j]].older
  BY DEF InIssueOrder, t
<1>7. CASE j < k
  BY <1>7, <1>1, <1>2, <1>3, <1>5
<1>8. CASE j = k
  <2>1. i \in DOMAIN q /\ t[i] = q[i] /\ r \notin rq[q[i]].older /\ t[j] = r
    BY <1>8, <1>1, <1>2, <1>3
  <2> QED BY <2>1, <1>4
<1>9. CASE j > k
  <2>1. j - 1 \in DOMAIN q /\ t[j] = q[j - 1] /\ j - 1 \in k..Len(q)
    BY <1>9, <1>1, <1>2, <1>3
  <2>2. CASE i = k
    BY <2>1, <2>2, <1>2, <1>6
  <2>3. CASE i < k
    BY <2>1, <2>3, <1>1, <1>2, <1>3, <1>5
  <2>4. CASE i > k
    <3>1. i - 1 \in DOMAIN q /\ t[i] = q[i - 1] /\ i - 1 < j - 1
      BY <2>4, <1>1, <1>2, <1>3
    <3> QED BY <2>1, <3>1, <1>5
  <2> QED BY <2>2, <2>3, <2>4, <1>3
<1> QED BY <1>7, <1>8, <1>9, <1>3

\* A part of a queue without duplicates.
LEMMA SubSeqElements ==
  ASSUME NEW q \in Seq(Clients), NEW m \in 1..(Len(q) + 1), NEW n \in 0..Len(q)
  PROVE  LET t == SubSeq(q, m, n)
         IN  /\ t \in Seq(Clients)
             /\ ToSet(t) = {q[i] : i \in m..n}
             /\ IsInjective(q) => IsInjective(t)
             /\ \A rq : InIssueOrder(q, rq) => InIssueOrder(t, rq)
<1> DEFINE t == SubSeq(q, m, n)
<1>1. \A i \in m..n : q[i] \in Clients
  OBVIOUS
<1>2. /\ t \in Seq(Clients)
      /\ Len(t) = IF m <= n THEN n - m + 1 ELSE 0
      /\ \A i \in 1..(n - m + 1) : t[i] = q[m + i - 1]
  BY <1>1, SubSeqProperties
<1> HIDE DEF t
<1>3. /\ DOMAIN t = 1..(n - m + 1)
      /\ DOMAIN q = 1..Len(q)
      /\ Len(q) \in Nat
  BY <1>2
<1>4. \A i \in DOMAIN t : m + i - 1 \in m..n /\ m + i - 1 \in DOMAIN q /\ t[i] = q[m + i - 1]
  BY <1>2, <1>3
<1>5. \A j \in m..n : \E i \in DOMAIN t : t[i] = q[j]
  <2> SUFFICES ASSUME NEW j \in m..n PROVE \E i \in DOMAIN t : t[i] = q[j]
    OBVIOUS
  <2>1. j - m + 1 \in DOMAIN t /\ m + (j - m + 1) - 1 = j
    BY <1>3
  <2> QED BY <2>1, <1>4
<1>6. ToSet(t) = {q[i] : i \in m..n}
  BY <1>4, <1>5 DEF ToSet
<1>7. IsInjective(q) => IsInjective(t)
  <2> SUFFICES ASSUME IsInjective(q), NEW i \in DOMAIN t, NEW j \in DOMAIN t, t[i] = t[j]
               PROVE  i = j
    BY DEF IsInjective
  <2>1. m + i - 1 = m + j - 1
    BY <1>4 DEF IsInjective
  <2> QED BY <2>1, <1>3
<1>8. \A rq : InIssueOrder(q, rq) => InIssueOrder(t, rq)
  <2> SUFFICES ASSUME NEW rq, InIssueOrder(q, rq),
                      NEW i \in DOMAIN t, NEW j \in DOMAIN t, i < j
               PROVE  t[i] \in rq[t[j]].older
    BY DEF InIssueOrder
  <2>1. m + i - 1 < m + j - 1
    BY <1>3
  <2> QED BY <2>1, <1>4 DEF InIssueOrder
<1> QED BY <1>2, <1>6, <1>7, <1>8 DEF t

\* The head of a queue is removed.
LEMMA TailElements ==
  ASSUME NEW q \in Seq(Clients), q # << >>, IsInjective(q)
  PROVE  /\ Head(q) \in ToSet(q)
         /\ Head(q) \in Clients
         /\ Tail(q) \in Seq(Clients)
         /\ ToSet(Tail(q)) = ToSet(q) \ {Head(q)}
         /\ IsInjective(Tail(q))
         /\ \A rq : InIssueOrder(q, rq) =>
              /\ InIssueOrder(Tail(q), rq)
              /\ \A e \in ToSet(Tail(q)) : Head(q) \in rq[e].older
<1>1. /\ Len(q) \in Nat \ {0}
      /\ DOMAIN q = 1..Len(q)
      /\ Head(q) = q[1]
      /\ Tail(q) = SubSeq(q, 2, Len(q))
  BY TailIsSubSeq, HeadTailProperties
<1>2. /\ Tail(q) \in Seq(Clients)
      /\ ToSet(Tail(q)) = {q[i] : i \in 2..Len(q)}
      /\ IsInjective(Tail(q))
      /\ \A rq : InIssueOrder(q, rq) => InIssueOrder(Tail(q), rq)
  <2>1. 2 \in 1..(Len(q) + 1) /\ Len(q) \in 0..Len(q)
    BY <1>1
  <2> QED BY <1>1, <2>1, SubSeqElements
<1>3. Head(q) \in ToSet(q) /\ Head(q) \in Clients
  BY <1>1 DEF ToSet
<1>4. ToSet(Tail(q)) = ToSet(q) \ {Head(q)}
  <2>1. \A i \in 2..Len(q) : i \in DOMAIN q /\ q[i] # q[1]
    BY <1>1 DEF IsInjective
  <2>2. \A i \in DOMAIN q : i = 1 \/ i \in 2..Len(q)
    BY <1>1
  <2> QED BY <1>1, <1>2, <2>1, <2>2 DEF ToSet
<1>5. \A rq : InIssueOrder(q, rq) => \A e \in ToSet(Tail(q)) : Head(q) \in rq[e].older
  BY <1>1, <1>2 DEF InIssueOrder
<1> QED BY <1>2, <1>3, <1>4, <1>5

\* The queue start_rcfg_ works on: the leading requests that skip
\* reconfiguration, the first one that does not, the rest.
LEMMA SplitElements ==
  ASSUME NEW q \in Seq(Clients), IsInjective(q), NEW rq
  PROVE  LET n == SelectInSeq(q, LAMBDA e : ~rq[e].skip_rcfg)
             a == SubSeq(q, 1, n - 1)
             b == SubSeq(q, n + 1, Len(q))
         IN  /\ n \in 0..Len(q)
             /\ n = 0 => \A e \in ToSet(q) : rq[e].skip_rcfg
             /\ n # 0 => /\ q[n] \in Clients
                         /\ ~rq[q[n]].skip_rcfg
                         /\ \A e \in ToSet(a) : rq[e].skip_rcfg
                         /\ ToSet(q) = ToSet(a) \cup {q[n]} \cup ToSet(b)
                         /\ q[n] \notin ToSet(a)
                         /\ q[n] \notin ToSet(b)
                         /\ ToSet(a) \cap ToSet(b) = {}
                         /\ b \in Seq(Clients)
                         /\ IsInjective(b)
                         /\ InIssueOrder(q, rq) => InIssueOrder(b, rq)
<1> DEFINE n == SelectInSeq(q, LAMBDA e : ~rq[e].skip_rcfg)
           I == {i \in 1..Len(q) : ~rq[q[i]].skip_rcfg}
           a == SubSeq(q, 1, n - 1)
           b == SubSeq(q, n + 1, Len(q))
<1>1. I \subseteq Nat /\ I \subseteq 1..Len(q) /\ Len(q) \in Nat /\ DOMAIN q = 1..Len(q)
  OBVIOUS
<1>2. n = IF I # {} THEN Min(I) ELSE 0
  BY DEF SelectInSeq
<1>3. I # {} => Min(I) \in I /\ \A y \in I : Min(I) <= y
  <2> HIDE DEF I
  <2> QED BY <1>1, LeastExists
<1>4. CASE I = {}
  <2>1. n = 0
    BY <1>2, <1>4
  <2>2. \A e \in ToSet(q) : rq[e].skip_rcfg
    BY <1>1, <1>4 DEF ToSet
  <2> HIDE DEF n
  <2> QED BY <1>1, <2>1, <2>2 DEF n
<1>5. CASE I # {}
  <2> HIDE DEF n
  <2>0. n = Min(I)
    BY <1>2, <1>5
  <2>1. n \in I /\ \A y \in I : n <= y
    <3> HIDE DEF I
    <3> QED BY <1>3, <1>5, <2>0
  <2>2. n \in 1..Len(q) /\ n # 0 /\ ~rq[q[n]].skip_rcfg
    BY <2>1
  <2>3. \A i \in 1..(n - 1) : rq[q[i]].skip_rcfg
    BY <2>1, <2>2, <1>1
  <2>4. /\ ToSet(a) = {q[i] : i \in 1..(n - 1)}
        /\ ToSet(b) = {q[i] : i \in (n + 1)..Len(q)}
        /\ b \in Seq(Clients)
        /\ IsInjective(b)
        /\ InIssueOrder(q, rq) => InIssueOrder(b, rq)
    <3>1. /\ 1 \in 1..(Len(q) + 1) /\ n - 1 \in 0..Len(q)
          /\ n + 1 \in 1..(Len(q) + 1) /\ Len(q) \in 0..Len(q)
      BY <2>2, <1>1
    <3> QED BY <3>1, SubSeqElements
  <2> HIDE DEF a, b
  <2>5. \A i \in DOMAIN q : i \in 1..(n - 1) \/ i = n \/ i \in (n + 1)..Len(q)
    BY <1>1, <2>2
  <2>6. /\ \A i \in 1..(n - 1) : i \in DOMAIN q /\ i < n
        /\ \A i \in (n + 1)..Len(q) : i \in DOMAIN q /\ n < i
        /\ n \in DOMAIN q
    BY <1>1, <2>2
  <2>7. ToSet(q) = ToSet(a) \cup {q[n]} \cup ToSet(b)
    BY <2>4, <2>5, <2>6 DEF ToSet
  <2>8. q[n] \notin ToSet(a) /\ q[n] \notin ToSet(b) /\ ToSet(a) \cap ToSet(b) = {}
    <3>1. \A i, j \in DOMAIN q : i < j => q[i] # q[j]
      BY <1>1 DEF IsInjective
    <3>2. \A i \in 1..(n - 1) : q[i] # q[n]
      BY <2>6, <3>1
    <3>3. \A j \in (n + 1)..Len(q) : q[n] # q[j]
      BY <2>6, <3>1
    <3>4. \A i \in 1..(n - 1), j \in (n + 1)..Len(q) : q[i] # q[j]
      <4> SUFFICES ASSUME NEW i \in 1..(n - 1), NEW j \in (n + 1)..Len(q)
                   PROVE  q[i] # q[j]
        OBVIOUS
      <4>1. i < j
        BY <2>2
      <4> QED BY <4>1, <2>6, <3>1
    <3> QED BY <2>4, <3>2, <3>3, <3>4
  <2>9. \A e \in ToSet(a) : rq[e].skip_rcfg
    BY <2>3, <2>4
  <2>10. n \in 0..Len(q) /\ q[n] \in Clients
    BY <2>2, <1>1
  <2> QED BY <2>2, <2>4, <2>7, <2>8, <2>9, <2>10 DEF n, a, b
<1> HIDE DEF n, a, b
<1> QED BY <1>4, <1>5 DEF n, a, b

-----------------------------------------------------------------------------
(* Slots and timers.                                                       *)

\* What the operations on a slot do to its fields.
LEMMA ReservedSlot ==
  ASSUME NEW x \in Slot
  PROVE  /\ Reserved(x) \in Slot
         /\ Reserved(x).state = "RSRV"
         /\ Reserved(x).coupled = x.coupled
         /\ Reserved(x).hw_task = x.hw_task
BY DEF Slot, SlotStates, Reserved

LEMMA ReconfiguringSlot ==
  ASSUME NEW x \in Slot, NEW h \in HwTasks
  PROVE  /\ Reconfiguring(x, h) \in Slot
         /\ Reconfiguring(x, h).state = "RCFG"
         /\ ~Reconfiguring(x, h).coupled
         /\ Reconfiguring(x, h).hw_task = h
BY DEF Slot, SlotStates, Reconfiguring

LEMMA ComputingSlot ==
  ASSUME NEW x \in Slot, NEW r \in Clients
  PROVE  /\ Computing(x, r) \in Slot
         /\ Computing(x, r).state = "EXEC"
         /\ Computing(x, r).coupled = x.coupled
         /\ Computing(x, r).hw_task = x.hw_task
         /\ Computing(x, r).exec_req = r
BY DEF Slot, SlotStates, Computing

LEMMA ReinitComputingSlot ==
  ASSUME NEW x \in Slot, NEW r \in Clients
  PROVE  /\ Computing(Reinit(x), r) \in Slot
         /\ Computing(Reinit(x), r).state = "EXEC"
         /\ Computing(Reinit(x), r).coupled
         /\ Computing(Reinit(x), r).hw_task = x.hw_task
         /\ Computing(Reinit(x), r).exec_req = r
BY DEF Slot, SlotStates, Reinit, Computing

LEMMA FreedSlot ==
  ASSUME NEW x \in Slot
  PROVE  /\ Cleared(x) \in Slot
         /\ Cleared(x).state = "IDLE"
         /\ Cleared(x).coupled = x.coupled
         /\ Disabled(x) \in Slot
         /\ Disabled(x).state = "BLANK"
BY DEF Slot, SlotStates, Cleared, Disabled

LEMMA TimerOperations ==
  /\ Disarmed \in Timer /\ Disarmed.state = "disarmed"
  /\ \A r \in Clients : /\ Armed(r) \in Timer
                        /\ Armed(r).state = "armed"
                        /\ Armed(r).exec_req = r
BY DEF Disarmed, Armed, Timer

-----------------------------------------------------------------------------
(* The reconfiguration device.                                             *)

\* What start_rcfg_ does, request by request: those of run are started on
\* their slots, the one of conf (if any) is being configured.
Started(run, conf, q, rq, sl, tm) ==
    /\ run \subseteq Clients
    /\ conf \subseteq Clients
    /\ ToSet(q) = run \cup conf \cup ToSet(fri')
    /\ run \cap conf = {}
    /\ run \cap ToSet(fri') = {}
    /\ conf \cap ToSet(fri') = {}
    /\ \A c \in run : /\ rq[c].skip_rcfg
                      /\ slot'[rq[c].slot] = Computing(sl[rq[c].slot], c)
                      /\ timer'[rq[c].slot] = Armed(c)
    /\ \A c \in conf : /\ ~rq[c].skip_rcfg
                       /\ slot'[rq[c].slot] = Reconfiguring(sl[rq[c].slot], rq[c].hw_task)
                       /\ timer'[rq[c].slot] = tm[rq[c].slot]
    /\ \A s \in Slots : (\A c \in run \cup conf : rq[c].slot # s)
                           => slot'[s] = sl[s] /\ timer'[s] = tm[s]
    /\ slot' = [s \in Slots |-> slot'[s]]
    /\ timer' = [s \in Slots |-> timer'[s]]
    /\ IF prog' = None THEN conf = {} /\ fri' = << >>
                       ELSE prog' \in Clients /\ conf = {prog'}
    /\ fri' \in Seq(Clients)
    /\ IsInjective(fri')
    /\ InIssueOrder(q, rq) => InIssueOrder(fri', rq)
    /\ server' \in {"up"} \cup (IF Faults THEN {"down"} ELSE {})

LEMMA StartRcfgEffect ==
  ASSUME NEW q \in Seq(Clients), IsInjective(q),
         NEW rq \in [Clients -> AccelReq], NEW sl, NEW tm,
         \A c \in ToSet(q) : rq[c].slot \in Slots /\ sl[rq[c].slot].state = "RSRV",
         \A c, d \in ToSet(q) : rq[c].slot = rq[d].slot => c = d,
         StartRcfg(q, rq, sl, tm)
  PROVE  \E run, conf : Started(run, conf, q, rq, sl, tm)
<1> DEFINE n == SelectInSeq(q, LAMBDA e : ~rq[e].skip_rcfg)
           a == SubSeq(q, 1, n - 1)
           b == SubSeq(q, n + 1, Len(q))
           run == ToSet(IF n = 0 THEN q ELSE a)
           conf == IF n = 0 THEN {} ELSE {q[n]}
           rest == IF n = 0 THEN << >> ELSE b
           On(R, s) == {r \in R : rq[r].slot = s}
           The(R) == CHOOSE r \in R : TRUE
<1>1. /\ slot' = [s \in Slots |->
            IF On(run, s) # {} THEN Computing(sl[s], The(On(run, s)))
            ELSE IF On(conf, s) # {}
            THEN Reconfiguring(sl[s], rq[The(On(conf, s))].hw_task)
            ELSE sl[s]]
      /\ timer' = [s \in Slots |->
            IF On(run, s) # {} THEN Armed(The(On(run, s))) ELSE tm[s]]
      /\ prog' = IF n = 0 THEN None ELSE q[n]
      /\ fri' = rest
      /\ server' \in IF \E r \in run \cup conf : sl[rq[r].slot].state # "RSRV"
                     THEN {"assert"}
                     ELSE IF Faults THEN {"up", "down"} ELSE {"up"}
  BY DEF StartRcfg
<1>2. /\ n = 0 => \A e \in ToSet(q) : rq[e].skip_rcfg
      /\ n # 0 => /\ q[n] \in Clients
                  /\ ~rq[q[n]].skip_rcfg
                  /\ \A e \in ToSet(a) : rq[e].skip_rcfg
                  /\ ToSet(q) = ToSet(a) \cup {q[n]} \cup ToSet(b)
                  /\ q[n] \notin ToSet(a)
                  /\ q[n] \notin ToSet(b)
                  /\ ToSet(a) \cap ToSet(b) = {}
                  /\ b \in Seq(Clients)
                  /\ IsInjective(b)
                  /\ InIssueOrder(q, rq) => InIssueOrder(b, rq)
  BY SplitElements
<1>3. ToSet(q) \subseteq Clients
  BY DEF ToSet
<1>4. /\ << >> \in Seq(Clients)
      /\ ToSet(<< >>) = {}
      /\ IsInjective(<< >>)
      /\ InIssueOrder(<< >>, rq)
  BY DEF ToSet, IsInjective, InIssueOrder
<1> HIDE DEF n, a, b
<1>5. /\ ToSet(q) = run \cup conf \cup ToSet(rest)
      /\ run \cap conf = {}
      /\ run \cap ToSet(rest) = {}
      /\ conf \cap ToSet(rest) = {}
      /\ \A c \in run : rq[c].skip_rcfg
      /\ \A c \in conf : ~rq[c].skip_rcfg
      /\ rest \in Seq(Clients)
      /\ IsInjective(rest)
      /\ InIssueOrder(q, rq) => InIssueOrder(rest, rq)
      /\ IF n = 0 THEN conf = {} /\ rest = << >> ELSE q[n] \in Clients /\ conf = {q[n]}
  <2>1. CASE n = 0
    BY <2>1, <1>2, <1>4
  <2>2. CASE n # 0
    BY <2>2, <1>2
  <2> QED BY <2>1, <2>2
<1>6. run \subseteq ToSet(q) /\ conf \subseteq ToSet(q)
  BY <1>5
<1>7. None \notin Clients
  BY ConstantsAssumption
<1> HIDE DEF run, conf, rest
<1>8. \A c \in run : On(run, rq[c].slot) = {c} /\ The(On(run, rq[c].slot)) = c
  BY <1>6
<1>9. \A c \in conf : /\ On(run, rq[c].slot) = {}
                      /\ On(conf, rq[c].slot) = {c}
                      /\ The(On(conf, rq[c].slot)) = c
  BY <1>5, <1>6
<1>10. \A s \in Slots : (\A c \in run \cup conf : rq[c].slot # s)
                           => On(run, s) = {} /\ On(conf, s) = {}
  OBVIOUS
<1>11. \A c \in run \cup conf : rq[c].slot \in Slots /\ sl[rq[c].slot].state = "RSRV"
  BY <1>6
<1>12. server' \in {"up"} \cup (IF Faults THEN {"down"} ELSE {})
  BY <1>1, <1>11
<1> HIDE DEF On, The
<1>13. \A c \in run : /\ slot'[rq[c].slot] = Computing(sl[rq[c].slot], c)
                      /\ timer'[rq[c].slot] = Armed(c)
  BY <1>1, <1>8, <1>11
<1>14. \A c \in conf :
         /\ slot'[rq[c].slot] = Reconfiguring(sl[rq[c].slot], rq[c].hw_task)
         /\ timer'[rq[c].slot] = tm[rq[c].slot]
  BY <1>1, <1>9, <1>11
<1>15. \A s \in Slots : (\A c \in run \cup conf : rq[c].slot # s)
                           => slot'[s] = sl[s] /\ timer'[s] = tm[s]
  BY <1>1, <1>10
<1>16. /\ slot' = [s \in Slots |-> slot'[s]]
       /\ timer' = [s \in Slots |-> timer'[s]]
  BY <1>1
<1>17. IF prog' = None THEN conf = {} /\ fri' = << >>
                       ELSE prog' \in Clients /\ conf = {prog'}
  BY <1>1, <1>5, <1>7
<1>18. Started(run, conf, q, rq, sl, tm)
  BY <1>1, <1>3, <1>5, <1>6, <1>12, <1>13, <1>14, <1>15, <1>16, <1>17 DEF Started
<1> QED BY <1>18

\* What a handler leaves behind once start_rcfg_ or push_req_fri_queue_ has run
\* on the slots sl, the timers tm and the requests rq: only slots that were
\* reserved have changed, and those that execute now skipped reconfiguration.
Settled(sl, tm, pq, rq, wt) ==
    /\ slot' \in [Slots -> Slot]
    /\ timer' \in [Slots -> Timer]
    /\ prog' \in Clients \cup {None}
    /\ fri' \in Seq(Clients)
    /\ server' \in {"up"} \cup (IF Faults THEN {"down"} ELSE {})
    /\ Consistent(slot', timer', prog', fri', pq, rq, wt)
    /\ prog' = None => fri' = << >>
    /\ \A s \in Slots :
         IF sl[s].state = "RSRV"
         THEN /\ slot'[s].state \in {"RSRV", "RCFG", "EXEC"}
              /\ slot'[s].state = "EXEC" => rq[slot'[s].exec_req].skip_rcfg
         ELSE slot'[s] = sl[s] /\ timer'[s] = tm[s]

\* start_rcfg_ with an idle reconfiguration device.
LEMMA StartRcfgSettles ==
  ASSUME NEW sl \in [Slots -> Slot], NEW tm \in [Slots -> Timer],
         NEW q \in Seq(Clients), NEW pq, NEW rq \in [Clients -> AccelReq],
         NEW wt \in SUBSET Clients,
         Consistent(sl, tm, None, q, pq, rq, wt),
         StartRcfg(q, rq, sl, tm)
  PROVE  Settled(sl, tm, pq, rq, wt)
<1>1. /\ IsInjective(q)
      /\ \A c \in ToSet(q) : /\ c \in wt
                             /\ rq[c].slot \in Slots
                             /\ sl[rq[c].slot].state = "RSRV"
                             /\ rq[c].skip_rcfg =>
                                  /\ sl[rq[c].slot].coupled
                                  /\ sl[rq[c].slot].hw_task = rq[c].hw_task
  BY DEF Consistent, FriQueueOK
<1>2. \A c, d \in wt : rq[c].slot \in Slots /\ rq[c].slot = rq[d].slot => c = d
  BY DEF Consistent, OwnersOK
<1>3. \A c, d \in ToSet(q) : rq[c].slot = rq[d].slot => c = d
  BY <1>1, <1>2
<1>4. PICK run, conf : Started(run, conf, q, rq, sl, tm)
  BY <1>1, <1>3, StartRcfgEffect
<1>5. run \subseteq ToSet(q) /\ conf \subseteq ToSet(q) /\ ToSet(fri') \subseteq ToSet(q)
  BY <1>4 DEF Started
<1>6. ToSet(q) \subseteq wt
  BY <1>1
<1>7. \A c \in wt : rq[c].hw_task \in HwTasks
  BY DEF Consistent, WaitingOK
<1>8. \A c \in run : LET s == rq[c].slot
                     IN  /\ s \in Slots
                         /\ slot'[s] \in Slot
                         /\ slot'[s].state = "EXEC"
                         /\ slot'[s].exec_req = c
                         /\ slot'[s].coupled
                         /\ slot'[s].hw_task = rq[c].hw_task
                         /\ timer'[s] \in Timer
                         /\ timer'[s].state = "armed"
                         /\ timer'[s].exec_req = c
  <2> SUFFICES ASSUME NEW c \in run
               PROVE  LET s == rq[c].slot
                      IN  /\ s \in Slots
                          /\ slot'[s] \in Slot
                          /\ slot'[s].state = "EXEC"
                          /\ slot'[s].exec_req = c
                          /\ slot'[s].coupled
                          /\ slot'[s].hw_task = rq[c].hw_task
                          /\ timer'[s] \in Timer
                          /\ timer'[s].state = "armed"
                          /\ timer'[s].exec_req = c
    OBVIOUS
  <2>1. /\ rq[c].skip_rcfg
        /\ slot'[rq[c].slot] = Computing(sl[rq[c].slot], c)
        /\ timer'[rq[c].slot] = Armed(c)
        /\ c \in Clients
    BY <1>4 DEF Started
  <2>2. /\ rq[c].slot \in Slots
        /\ sl[rq[c].slot] \in Slot
        /\ sl[rq[c].slot].coupled
        /\ sl[rq[c].slot].hw_task = rq[c].hw_task
    BY <1>1, <1>5, <2>1
  <2> DEFINE x == sl[rq[c].slot]
  <2>3. /\ Computing(x, c) \in Slot
        /\ Computing(x, c).state = "EXEC"
        /\ Computing(x, c).coupled = x.coupled
        /\ Computing(x, c).hw_task = x.hw_task
        /\ Computing(x, c).exec_req = c
    BY <2>1, <2>2, ComputingSlot
  <2>4. /\ Armed(c) \in Timer
        /\ Armed(c).state = "armed"
        /\ Armed(c).exec_req = c
    BY <2>1, TimerOperations
  <2> QED BY <2>1, <2>2, <2>3, <2>4
<1>9. \A c \in conf : LET s == rq[c].slot
                      IN  /\ s \in Slots
                          /\ slot'[s] \in Slot
                          /\ slot'[s].state = "RCFG"
                          /\ ~slot'[s].coupled
                          /\ slot'[s].hw_task = rq[c].hw_task
                          /\ timer'[s] = tm[s]
                          /\ prog' = c
  <2> SUFFICES ASSUME NEW c \in conf
               PROVE  LET s == rq[c].slot
                      IN  /\ s \in Slots
                          /\ slot'[s] \in Slot
                          /\ slot'[s].state = "RCFG"
                          /\ ~slot'[s].coupled
                          /\ slot'[s].hw_task = rq[c].hw_task
                          /\ timer'[s] = tm[s]
                          /\ prog' = c
    OBVIOUS
  <2>1. /\ slot'[rq[c].slot] = Reconfiguring(sl[rq[c].slot], rq[c].hw_task)
        /\ timer'[rq[c].slot] = tm[rq[c].slot]
        /\ prog' = c
    BY <1>4 DEF Started
  <2>2. rq[c].slot \in Slots /\ sl[rq[c].slot] \in Slot /\ rq[c].hw_task \in HwTasks
    BY <1>1, <1>5, <1>7
  <2> DEFINE x == sl[rq[c].slot]
             h == rq[c].hw_task
  <2>3. /\ Reconfiguring(x, h) \in Slot
        /\ Reconfiguring(x, h).state = "RCFG"
        /\ ~Reconfiguring(x, h).coupled
        /\ Reconfiguring(x, h).hw_task = h
    BY <2>2, ReconfiguringSlot
  <2> QED BY <2>1, <2>2, <2>3
<1>10. \A s \in Slots : (\A c \in run \cup conf : rq[c].slot # s)
                           => slot'[s] = sl[s] /\ timer'[s] = tm[s]
  BY <1>4 DEF Started
<1>11. \A c \in wt \ (run \cup conf) : rq[c].slot \in Slots =>
           slot'[rq[c].slot] = sl[rq[c].slot] /\ timer'[rq[c].slot] = tm[rq[c].slot]
  BY <1>2, <1>5, <1>6, <1>10
<1>12. slot' \in [Slots -> Slot] /\ timer' \in [Slots -> Timer]
  <2>1. \A s \in Slots : slot'[s] \in Slot /\ timer'[s] \in Timer
    BY <1>8, <1>9, <1>10
  <2>2. slot' = [s \in Slots |-> slot'[s]] /\ timer' = [s \in Slots |-> timer'[s]]
    BY <1>4 DEF Started
  <2> QED BY <2>1, <2>2
<1>13. /\ prog' \in Clients \cup {None}
       /\ fri' \in Seq(Clients)
       /\ server' \in {"up"} \cup (IF Faults THEN {"down"} ELSE {})
       /\ prog' = None => fri' = << >>
       /\ prog' # None => conf = {prog'}
       /\ prog' = None => conf = {}
  BY <1>4 DEF Started
<1>14. \A s \in Slots :
         IF sl[s].state = "RSRV"
         THEN /\ slot'[s].state \in {"RSRV", "RCFG", "EXEC"}
              /\ slot'[s].state = "EXEC" => rq[slot'[s].exec_req].skip_rcfg
         ELSE slot'[s] = sl[s] /\ timer'[s] = tm[s]
  <2>1. \A c \in run : rq[c].skip_rcfg
    BY <1>4 DEF Started
  <2> QED BY <2>1, <1>1, <1>5, <1>8, <1>9, <1>10
<1>15. PartQueuesOK(pq, rq, wt)
  BY DEF Consistent
<1>16. FriQueueOK(slot', fri', rq, wt)
  <2>1. IsInjective(fri') /\ ToSet(fri') \subseteq ToSet(q)
    BY <1>4, <1>5 DEF Started
  <2>2. \A c \in ToSet(fri') : c \notin run \cup conf
    BY <1>4 DEF Started
  <2>3. \A c \in ToSet(fri') : slot'[rq[c].slot] = sl[rq[c].slot]
    BY <1>1, <1>11, <2>1, <2>2
  <2> QED BY <1>1, <2>1, <2>3 DEF FriQueueOK
<1>17. DevcfgOK(slot', prog', rq, wt)
  BY <1>1, <1>5, <1>9, <1>13 DEF DevcfgOK
<1>18. ExecOK(slot', timer', rq, wt)
  <2> USE DEF ExecOK
  <2>1. ExecOK(sl, tm, rq, wt)
    BY DEF Consistent
  <2>2. SUFFICES ASSUME NEW s \in Slots
        PROVE /\ slot'[s].state = "EXEC" <=> timer'[s].state # "disarmed"
              /\ slot'[s].state = "EXEC" =>
                   /\ slot'[s].exec_req \in wt
                   /\ rq[slot'[s].exec_req].slot = s
                   /\ slot'[s].coupled
                   /\ slot'[s].hw_task = rq[slot'[s].exec_req].hw_task
                   /\ timer'[s].exec_req = slot'[s].exec_req
              /\ slot'[s].state = "IDLE" => slot'[s].coupled
    OBVIOUS
  <2>3. CASE \A c \in run \cup conf : rq[c].slot # s
    BY <2>1, <2>3, <1>10
  <2>4. CASE \E c \in run : rq[c].slot = s
    BY <2>4, <1>8, <1>5, <1>6
  <2>5. CASE \E c \in conf : rq[c].slot = s
    BY <2>1, <2>5, <1>1, <1>5, <1>9
  <2> QED BY <2>3, <2>4, <2>5
<1>19. WaitingOK(slot', prog', fri', pq, rq, wt)
  <2>1. WaitingOK(sl, None, q, pq, rq, wt)
    BY DEF Consistent
  <2>2. SUFFICES ASSUME NEW c \in wt
        PROVE /\ rq[c].hw_task \in HwTasks
              /\ rq[c].slot = None => c \in ToSet(pq[PartOfTask[rq[c].hw_task]])
              /\ rq[c].slot \in Slots =>
                   /\ PartOfSlot[rq[c].slot] = PartOfTask[rq[c].hw_task]
                   /\ \/ slot'[rq[c].slot].state = "RSRV" /\ c \in ToSet(fri')
                      \/ slot'[rq[c].slot].state = "RCFG" /\ prog' = c
                      \/ slot'[rq[c].slot].state = "EXEC" /\ slot'[rq[c].slot].exec_req = c
    BY DEF WaitingOK
  <2>3. /\ rq[c].hw_task \in HwTasks
        /\ rq[c].slot = None => c \in ToSet(pq[PartOfTask[rq[c].hw_task]])
        /\ rq[c].slot \in Slots => PartOfSlot[rq[c].slot] = PartOfTask[rq[c].hw_task]
    BY <2>1 DEF WaitingOK
  <2>4. CASE c \in run
    BY <2>3, <2>4, <1>8
  <2>5. CASE c \in conf
    BY <2>3, <2>5, <1>9
  <2>6. CASE c \notin run \cup conf /\ rq[c].slot \in Slots
    <3>1. slot'[rq[c].slot] = sl[rq[c].slot]
      BY <2>6, <1>11
    <3>2. \/ sl[rq[c].slot].state = "RSRV" /\ c \in ToSet(q)
          \/ sl[rq[c].slot].state = "RCFG" /\ None = c
          \/ sl[rq[c].slot].state = "EXEC" /\ sl[rq[c].slot].exec_req = c
      BY <2>1, <2>6 DEF WaitingOK
    <3>3. c \in ToSet(q) => c \in ToSet(fri')
      BY <2>6, <1>4 DEF Started
    <3>4. c # None
      BY ConstantsAssumption
    <3> QED BY <2>3, <3>1, <3>2, <3>3, <3>4
  <2> QED BY <2>3, <2>4, <2>5, <2>6
<1>20. OwnersOK(slot', rq, wt)
  <2>1. OwnersOK(sl, rq, wt)
    BY DEF Consistent
  <2>2. \A s \in Slots : slot'[s].state \notin {"IDLE", "BLANK"}
                           => \E c \in wt : rq[c].slot = s
    BY <2>1, <1>5, <1>6, <1>10 DEF OwnersOK
  <2> QED BY <2>1, <2>2 DEF OwnersOK
<1>21. /\ StampsOK(rq, wt)
       /\ InIssueOrder(fri', rq)
       /\ \A p \in Partitions : InIssueOrder(pq[p], rq)
  BY <1>4 DEF Started, Consistent
<1>22. Consistent(slot', timer', prog', fri', pq, rq, wt)
  BY <1>15, <1>16, <1>17, <1>18, <1>19, <1>20, <1>21 DEF Consistent
<1> QED BY <1>12, <1>13, <1>14, <1>22 DEF Settled

-----------------------------------------------------------------------------
(* The FRI queue.                                                          *)

\* A request that is in no place is given the free slot s and enters the FRI
\* queue.
LEMMA EnterFri ==
  ASSUME NEW sl \in [Slots -> Slot], NEW tm, NEW pr, NEW fq \in Seq(Clients),
         NEW pq, NEW rq \in [Clients -> AccelReq], NEW rq2 \in [Clients -> AccelReq],
         NEW wt \in SUBSET Clients, NEW c \in Clients, c \notin wt,
         NEW s \in Slots, sl[s].state \in {"IDLE", "BLANK"},
         Consistent(sl, tm, pr, fq, pq, rq, wt),
         StampsOK(rq, wt \cup {c}),
         rq[c].hw_task \in HwTasks,
         PartOfSlot[s] = PartOfTask[rq[c].hw_task],
         rq2[c].slot = s,
         rq2[c].hw_task = rq[c].hw_task,
         rq2[c].older = rq[c].older,
         rq2[c].skip_rcfg => sl[s].coupled /\ sl[s].hw_task = rq[c].hw_task,
         \A d \in Clients \ {c} : rq2[d] = rq[d]
  PROVE  Consistent([sl EXCEPT ![s] = Reserved(@)], tm, pr,
                    InsReqOrdered(fq, c, rq2), pq, rq2, wt \cup {c})
<1> DEFINE sl2 == [sl EXCEPT ![s] = Reserved(@)]
           fq2 == InsReqOrdered(fq, c, rq2)
           wt2 == wt \cup {c}
<1>1. /\ sl2[s].state = "RSRV"
      /\ sl2[s].coupled = sl[s].coupled
      /\ sl2[s].hw_task = sl[s].hw_task
      /\ \A t \in Slots : t # s => sl2[t] = sl[t]
  <2>1. sl2[s] = Reserved(sl[s]) /\ \A t \in Slots : t # s => sl2[t] = sl[t]
    OBVIOUS
  <2>2. /\ Reserved(sl[s]).state = "RSRV"
        /\ Reserved(sl[s]).coupled = sl[s].coupled
        /\ Reserved(sl[s]).hw_task = sl[s].hw_task
    BY ReservedSlot
  <2> HIDE DEF sl2
  <2> QED BY <2>1, <2>2
<1>2. \A d \in wt : rq2[d] = rq[d] /\ d # c
  OBVIOUS
<1>3. \A d \in wt : rq[d].slot # s
  <2> SUFFICES ASSUME NEW d \in wt, rq[d].slot = s PROVE FALSE
    OBVIOUS
  <2>1. \/ sl[s].state = "RSRV" \/ sl[s].state = "RCFG" \/ sl[s].state = "EXEC"
    BY DEF Consistent, WaitingOK
  <2> QED BY <2>1
<1>4. IsInjective(fq) /\ ToSet(fq) \subseteq wt
  BY DEF Consistent, FriQueueOK
<1>5. /\ fq2 \in Seq(Clients)
      /\ ToSet(fq2) = ToSet(fq) \cup {c}
      /\ IsInjective(fq2)
  BY <1>2, <1>4, InsertElements
<1>6. StampsOK(rq2, wt2)
  <2>1. \A d \in wt2 : rq2[d].older = rq[d].older
    BY <1>2
  <2> QED BY <2>1 DEF StampsOK
<1>7. InIssueOrder(fq2, rq2)
  <2>1. InIssueOrder(fq, rq2)
    <3>1. InIssueOrder(fq, rq)
      BY DEF Consistent
    <3>2. \A j \in DOMAIN fq : fq[j] \in wt
      BY <1>4 DEF ToSet
    <3> QED BY <3>1, <3>2, <1>2 DEF InIssueOrder
  <2>2. \A e \in ToSet(fq) : c \in rq2[e].older <=> e \notin rq2[c].older
    BY <1>2, <1>4, <1>6 DEF StampsOK
  <2>3. \A e, f \in ToSet(fq) :
            c \in rq2[e].older /\ e \in rq2[f].older => c \in rq2[f].older
    BY <1>4, <1>6 DEF StampsOK
  <2> QED BY <2>1, <2>2, <2>3, InsertKeepsOrder
<1> HIDE DEF sl2, fq2
<1>8. PartQueuesOK(pq, rq2, wt2)
  <2>1. PartQueuesOK(pq, rq, wt)
    BY DEF Consistent
  <2> QED BY <2>1, <1>2 DEF PartQueuesOK
<1>9. FriQueueOK(sl2, fq2, rq2, wt2)
  <2>1. FriQueueOK(sl, fq, rq, wt)
    BY DEF Consistent
  <2>2. \A d \in ToSet(fq) :
          /\ d \in wt2
          /\ rq2[d].slot \in Slots
          /\ sl2[rq2[d].slot].state = "RSRV"
          /\ rq2[d].skip_rcfg => /\ sl2[rq2[d].slot].coupled
                                 /\ sl2[rq2[d].slot].hw_task = rq2[d].hw_task
    BY <2>1, <1>1, <1>2, <1>3, <1>4 DEF FriQueueOK
  <2> QED BY <2>2, <1>1, <1>5 DEF FriQueueOK
<1>10. DevcfgOK(sl2, pr, rq2, wt2)
  <2>1. DevcfgOK(sl, pr, rq, wt)
    BY DEF Consistent
  <2> QED BY <2>1, <1>1, <1>2, <1>3 DEF DevcfgOK
<1>11. ExecOK(sl2, tm, rq2, wt2)
  <2>1. ExecOK(sl, tm, rq, wt)
    BY DEF Consistent
  <2>2. tm[s].state = "disarmed"
    BY <2>1 DEF ExecOK
  <2>3. \A t \in Slots : t # s => sl2[t] = sl[t]
    BY <1>1
  <2> QED BY <2>1, <2>2, <2>3, <1>1, <1>2 DEF ExecOK
<1>12. WaitingOK(sl2, pr, fq2, pq, rq2, wt2)
  <2>1. WaitingOK(sl, pr, fq, pq, rq, wt)
    BY DEF Consistent
  <2>2. \A d \in wt :
          /\ rq2[d].hw_task \in HwTasks
          /\ rq2[d].slot = None => d \in ToSet(pq[PartOfTask[rq2[d].hw_task]])
          /\ rq2[d].slot \in Slots =>
               /\ PartOfSlot[rq2[d].slot] = PartOfTask[rq2[d].hw_task]
               /\ \/ sl2[rq2[d].slot].state = "RSRV" /\ d \in ToSet(fq2)
                  \/ sl2[rq2[d].slot].state = "RCFG" /\ pr = d
                  \/ sl2[rq2[d].slot].state = "EXEC" /\ sl2[rq2[d].slot].exec_req = d
    <3> SUFFICES ASSUME NEW d \in wt
                 PROVE
          /\ rq2[d].hw_task \in HwTasks
          /\ rq2[d].slot = None => d \in ToSet(pq[PartOfTask[rq2[d].hw_task]])
          /\ rq2[d].slot \in Slots =>
               /\ PartOfSlot[rq2[d].slot] = PartOfTask[rq2[d].hw_task]
               /\ \/ sl2[rq2[d].slot].state = "RSRV" /\ d \in ToSet(fq2)
                  \/ sl2[rq2[d].slot].state = "RCFG" /\ pr = d
                  \/ sl2[rq2[d].slot].state = "EXEC" /\ sl2[rq2[d].slot].exec_req = d
      OBVIOUS
    <3>1. rq2[d] = rq[d] /\ (rq[d].slot \in Slots => sl2[rq[d].slot] = sl[rq[d].slot])
      BY <1>1, <1>2, <1>3
    <3> QED BY <2>1, <3>1, <1>5 DEF WaitingOK
  <2>3. s # None
    BY ConstantsAssumption
  <2> QED BY <2>2, <2>3, <1>1, <1>5 DEF WaitingOK
<1>13. OwnersOK(sl2, rq2, wt2)
  <2>1. OwnersOK(sl, rq, wt)
    BY DEF Consistent
  <2>2. \A d \in wt : rq2[d].slot # s
    BY <1>2, <1>3
  <2>3. \A d, e \in wt2 : rq2[d].slot \in Slots /\ rq2[d].slot = rq2[e].slot => d = e
    BY <2>1, <2>2, <1>2 DEF OwnersOK
  <2>4. \A t \in Slots : sl2[t].state \notin {"IDLE", "BLANK"}
                           => \E d \in wt2 : rq2[d].slot = t
    BY <2>1, <1>1, <1>2 DEF OwnersOK
  <2> QED BY <2>3, <2>4 DEF OwnersOK
<1>14. \A p \in Partitions : InIssueOrder(pq[p], rq2)
  <2> SUFFICES ASSUME NEW p \in Partitions PROVE InIssueOrder(pq[p], rq2)
    OBVIOUS
  <2>1. InIssueOrder(pq[p], rq) /\ ToSet(pq[p]) \subseteq wt
    BY DEF Consistent, PartQueuesOK
  <2>2. \A j \in DOMAIN pq[p] : pq[p][j] \in wt
    BY <2>1 DEF ToSet
  <2> QED BY <2>1, <2>2, <1>2 DEF InIssueOrder
<1>15. Consistent(sl2, tm, pr, fq2, pq, rq2, wt2)
  BY <1>6, <1>7, <1>8, <1>9, <1>10, <1>11, <1>12, <1>13, <1>14 DEF Consistent
<1> QED BY <1>15 DEF sl2, fq2

\* push_req_fri_queue_: r enters the queue, and if that makes it the head
\* while the device is idle, start_rcfg_ runs.
LEMMA PushReqSettles ==
  ASSUME NEW sl \in [Slots -> Slot], NEW tm \in [Slots -> Timer],
         NEW pq, NEW rq \in [Clients -> AccelReq], NEW wt \in SUBSET Clients,
         NEW r \in Clients,
         server = "up",
         prog \in Clients \cup {None},
         fri \in Seq(Clients),
         IsInjective(fri),
         r \notin ToSet(fri),
         prog = None => fri = << >>,
         Consistent(sl, tm, prog, InsReqOrdered(fri, r, rq), pq, rq, wt),
         PushReqFriQueue(r, rq, sl, tm)
  PROVE  Settled(sl, tm, pq, rq, wt)
<1> DEFINE q == InsReqOrdered(fri, r, rq)
<1>1. /\ q \in Seq(Clients)
      /\ q # << >>
      /\ fri = << >> => Head(q) = r
  BY InsertElements
<1>2. IF prog = None /\ Head(q) = r
      THEN StartRcfg(q, rq, sl, tm)
      ELSE fri' = q /\ slot' = sl /\ timer' = tm /\ prog' = prog /\ server' = server
  BY DEF PushReqFriQueue
<1>3. Consistent(sl, tm, prog, q, pq, rq, wt)
  OBVIOUS
<1> HIDE DEF q
<1>4. CASE prog = None /\ Head(q) = r
  BY <1>1, <1>2, <1>3, <1>4, StartRcfgSettles
<1>5. CASE ~(prog = None /\ Head(q) = r)
  <2>1. fri' = q /\ slot' = sl /\ timer' = tm /\ prog' = prog /\ server' = server
    BY <1>2, <1>5
  <2>2. prog' # None
    BY <1>1, <1>5, <2>1
  <2>3. \A s \in Slots : sl[s].state = "RSRV" => slot'[s].state = "RSRV"
    BY <2>1
  <2> QED BY <1>1, <1>3, <2>1, <2>2, <2>3 DEF Settled
<1> QED BY <1>4, <1>5

-----------------------------------------------------------------------------
(* The partition queues.                                                   *)

\* The request that executes on s is answered and s is freed.
LEMMA LeaveSlot ==
  ASSUME NEW sl \in [Slots -> Slot], NEW tm \in [Slots -> Timer], NEW pr,
         NEW fq, NEW pq, NEW rq \in [Clients -> AccelReq],
         NEW wt \in SUBSET Clients,
         Consistent(sl, tm, pr, fq, pq, rq, wt),
         NEW s \in Slots, sl[s].state = "EXEC",
         NEW x \in Slot, x.state \in {"IDLE", "BLANK"}, x.state = "IDLE" => x.coupled,
         NEW y \in Timer, y.state = "disarmed"
  PROVE  Consistent([sl EXCEPT ![s] = x], [tm EXCEPT ![s] = y], pr, fq, pq, rq,
                    wt \ {sl[s].exec_req})
<1> DEFINE r == sl[s].exec_req
           sl2 == [sl EXCEPT ![s] = x]
           tm2 == [tm EXCEPT ![s] = y]
           wt2 == wt \ {r}
<1>1. r \in wt /\ rq[r].slot = s
  BY DEF Consistent, ExecOK
<1>2. /\ sl2[s] = x
      /\ tm2[s] = y
      /\ \A t \in Slots : t # s => sl2[t] = sl[t] /\ tm2[t] = tm[t]
  OBVIOUS
<1>3. s # None
  BY ConstantsAssumption
<1> HIDE DEF sl2, tm2
<1>4. \A d \in wt2 : rq[d].slot # s
  BY <1>1 DEF Consistent, OwnersOK
<1>5. PartQueuesOK(pq, rq, wt2)
  BY <1>1, <1>3 DEF Consistent, PartQueuesOK
<1>6. FriQueueOK(sl2, fq, rq, wt2)
  <2>1. FriQueueOK(sl, fq, rq, wt)
    BY DEF Consistent
  <2>2. \A c \in ToSet(fq) : rq[c].slot # s
    BY <2>1 DEF FriQueueOK
  <2> QED BY <1>1, <1>2, <2>1, <2>2 DEF FriQueueOK
<1>7. DevcfgOK(sl2, pr, rq, wt2)
  <2>1. DevcfgOK(sl, pr, rq, wt)
    BY DEF Consistent
  <2>2. pr # None => rq[pr].slot # s
    BY <2>1 DEF DevcfgOK
  <2> QED BY <1>1, <1>2, <2>1, <2>2 DEF DevcfgOK
<1>8. ExecOK(sl2, tm2, rq, wt2)
  <2>1. ExecOK(sl, tm, rq, wt)
    BY DEF Consistent
  <2>2. \A t \in Slots : t # s /\ sl[t].state = "EXEC" => sl[t].exec_req # r
    BY <2>1, <1>1 DEF ExecOK
  <2> QED BY <1>2, <2>1, <2>2 DEF ExecOK
<1>9. WaitingOK(sl2, pr, fq, pq, rq, wt2)
  <2>1. WaitingOK(sl, pr, fq, pq, rq, wt)
    BY DEF Consistent
  <2> QED BY <1>2, <1>4, <2>1 DEF WaitingOK
<1>10. OwnersOK(sl2, rq, wt2)
  <2>1. OwnersOK(sl, rq, wt)
    BY DEF Consistent
  <2> QED BY <1>1, <1>2, <2>1 DEF OwnersOK
<1>11. StampsOK(rq, wt2)
  <2>1. StampsOK(rq, wt)
    BY DEF Consistent
  <2>2. wt2 \subseteq wt
    OBVIOUS
  <2> HIDE DEF wt2
  <2> QED BY <2>1, <2>2 DEF StampsOK
<1>12. InIssueOrder(fq, rq) /\ \A p \in Partitions : InIssueOrder(pq[p], rq)
  BY DEF Consistent
<1>13. Consistent(sl2, tm2, pr, fq, pq, rq, wt2)
  BY <1>5, <1>6, <1>7, <1>8, <1>9, <1>10, <1>11, <1>12 DEF Consistent
<1> QED BY <1>13 DEF sl2, tm2

\* What pull_req_partition_queue_ leaves behind: no slot but s has changed
\* unless it was reserved, no partition with a queue has a free slot, and s
\* does not execute, since a request that was queued has to be configured.
Pulled(s, sl, tm, wt) ==
    /\ slot' \in [Slots -> Slot]
    /\ timer' \in [Slots -> Timer]
    /\ prog' \in Clients \cup {None}
    /\ fri' \in Seq(Clients)
    /\ partQ' \in [Partitions -> Seq(Clients)]
    /\ req' \in [Clients -> AccelReq]
    /\ server' \in {"up"} \cup (IF Faults THEN {"down"} ELSE {})
    /\ Consistent(slot', timer', prog', fri', partQ', req', wt)
    /\ prog' = None => fri' = << >>
    /\ \A t \in Slots : partQ'[PartOfSlot[t]] # << >>
                          => slot'[t].state \notin {"IDLE", "BLANK"}
    /\ \A t \in Slots : t # s /\ sl[t].state # "RSRV"
                          => slot'[t] = sl[t] /\ timer'[t] = tm[t]
    /\ prog # None => prog' = prog
    /\ slot'[s].state # "EXEC"

\* pull_req_partition_queue_ after s has been freed, the slots being sl, the
\* timers tm and the waiting requests wt.
LEMMA PullSettles ==
  ASSUME NEW sl \in [Slots -> Slot], NEW tm \in [Slots -> Timer],
         NEW wt \in SUBSET Clients,
         server = "up",
         prog \in Clients \cup {None},
         fri \in Seq(Clients),
         partQ \in [Partitions -> Seq(Clients)],
         req \in [Clients -> AccelReq],
         Consistent(sl, tm, prog, fri, partQ, req, wt),
         prog = None => fri = << >>,
         NEW r \in Clients, req[r].hw_task \in HwTasks,
         NEW s \in Slots, sl[s].state \in {"IDLE", "BLANK"},
         PartOfSlot[s] = PartOfTask[req[r].hw_task],
         \A t \in Slots : t # s /\ partQ[PartOfSlot[t]] # << >>
                             => sl[t].state \notin {"IDLE", "BLANK"},
         PullReqPartitionQueue(r, s, sl, tm)
  PROVE  Pulled(s, sl, tm, wt)
<1> DEFINE p == PartOfSlot[s]
           c == Head(partQ[p])
<1>1. /\ p \in Partitions
      /\ partQ[p] \in Seq(Clients)
      /\ \A t \in Slots : PartOfSlot[t] \in Partitions
  BY ConstantsAssumption
<1>2. CASE partQ[p] = << >>
  <2>1. /\ slot' = sl /\ timer' = tm
        /\ server' = server /\ prog' = prog /\ fri' = fri /\ partQ' = partQ /\ req' = req
    BY <1>2 DEF PullReqPartitionQueue
  <2>2. \A t \in Slots : partQ'[PartOfSlot[t]] # << >>
                            => slot'[t].state \notin {"IDLE", "BLANK"}
    BY <1>2, <2>1
  <2> QED BY <2>1, <2>2 DEF Pulled
<1>3. CASE partQ[p] # << >>
  <2> DEFINE sl2 == [sl EXCEPT ![s] = Reserved(@)]
             wt0 == wt \ {c}
  <2>1. /\ partQ' = [partQ EXCEPT ![p] = Tail(@)]
        /\ req' = [req EXCEPT ![c].slot = s]
        /\ PushReqFriQueue(c, req', sl2, tm)
    BY <1>3 DEF PullReqPartitionQueue
  <2>2. /\ PartQueuesOK(partQ, req, wt)
        /\ IsInjective(partQ[p])
    BY <1>1 DEF Consistent, PartQueuesOK
  <2>3. /\ c \in ToSet(partQ[p])
        /\ c \in Clients
        /\ Tail(partQ[p]) \in Seq(Clients)
        /\ ToSet(Tail(partQ[p])) = ToSet(partQ[p]) \ {c}
        /\ IsInjective(Tail(partQ[p]))
        /\ InIssueOrder(partQ[p], req) => InIssueOrder(Tail(partQ[p]), req)
    BY <1>1, <1>3, <2>2, TailElements
  <2>4. /\ c \in wt
        /\ req[c].slot = None
        /\ ~req[c].skip_rcfg
        /\ PartOfTask[req[c].hw_task] = p
        /\ req[c].hw_task \in HwTasks
    <3> HIDE DEF c, p
    <3>1. /\ c \in wt
          /\ req[c].slot = None
          /\ ~req[c].skip_rcfg
          /\ PartOfTask[req[c].hw_task] = p
      BY <1>1, <2>2, <2>3 DEF PartQueuesOK
    <3>2. req[c].hw_task \in HwTasks
      BY <3>1 DEF Consistent, WaitingOK
    <3> QED BY <3>1, <3>2
  <2> HIDE DEF c, p
  <2>5. /\ partQ' \in [Partitions -> Seq(Clients)]
        /\ partQ'[p] = Tail(partQ[p])
        /\ \A d \in Partitions : d # p => partQ'[d] = partQ[d]
    BY <2>1, <2>3, <1>1
  <2>6. /\ req' \in [Clients -> AccelReq]
        /\ req'[c].slot = s
        /\ req'[c].hw_task = req[c].hw_task
        /\ req'[c].older = req[c].older
        /\ ~req'[c].skip_rcfg
        /\ \A d \in Clients \ {c} : req'[d] = req[d]
    <3> DEFINE y == [req[c] EXCEPT !.slot = s]
    <3>1. /\ y \in AccelReq
          /\ y.slot = s
          /\ y.hw_task = req[c].hw_task
          /\ y.older = req[c].older
          /\ y.skip_rcfg = req[c].skip_rcfg
      <4>1. req[c] \in AccelReq
        BY <2>3
      <4> QED BY <4>1 DEF AccelReq
    <3>2. req' = [req EXCEPT ![c] = y]
      BY <2>1
    <3> HIDE DEF y
    <3>3. req'[c] = y /\ req' \in [Clients -> AccelReq]
      BY <2>3, <3>1, <3>2
    <3> QED BY <2>4, <3>1, <3>2, <3>3
  <2>7. s # None
    BY ConstantsAssumption
  <2>8. Consistent(sl, tm, prog, fri, partQ', req, wt0)
    <3>1. PartQueuesOK(partQ', req, wt0)
      <4> SUFFICES ASSUME NEW d \in Partitions
                   PROVE  /\ IsInjective(partQ'[d])
                          /\ \A e \in ToSet(partQ'[d]) :
                               /\ e \in wt0
                               /\ req[e].slot = None
                               /\ ~req[e].skip_rcfg
                               /\ PartOfTask[req[e].hw_task] = d
        BY DEF PartQueuesOK
      <4>1. CASE d = p
        BY <4>1, <2>2, <2>3, <2>5, <1>1 DEF PartQueuesOK
      <4>2. CASE d # p
        BY <4>2, <2>2, <2>4, <2>5 DEF PartQueuesOK
      <4> QED BY <4>1, <4>2
    <3>2. FriQueueOK(sl, fri, req, wt0)
      BY <2>4, ConstantsAssumption DEF Consistent, FriQueueOK
    <3>3. DevcfgOK(sl, prog, req, wt0)
      BY <2>4, ConstantsAssumption DEF Consistent, DevcfgOK
    <3>4. ExecOK(sl, tm, req, wt0)
      BY <2>4, ConstantsAssumption DEF Consistent, ExecOK
    <3>5. WaitingOK(sl, prog, fri, partQ', req, wt0)
      <4>1. WaitingOK(sl, prog, fri, partQ, req, wt)
        BY DEF Consistent
      <4>2. \A d \in Partitions : \A e \in ToSet(partQ[d]) : e # c => e \in ToSet(partQ'[d])
        BY <2>3, <2>5
      <4>3. \A h \in HwTasks : PartOfTask[h] \in Partitions
        BY ConstantsAssumption
      <4> QED BY <4>1, <4>2, <4>3 DEF WaitingOK
    <3>6. OwnersOK(sl, req, wt0)
      BY <2>4, ConstantsAssumption DEF Consistent, OwnersOK
    <3>7. StampsOK(req, wt0)
      <4>1. StampsOK(req, wt) /\ wt0 \subseteq wt
        BY DEF Consistent
      <4> HIDE DEF wt0
      <4> QED BY <4>1 DEF StampsOK
    <3>8. InIssueOrder(fri, req) /\ \A d \in Partitions : InIssueOrder(partQ'[d], req)
      BY <2>3, <2>5, <1>1 DEF Consistent
    <3> QED BY <3>1, <3>2, <3>3, <3>4, <3>5, <3>6, <3>7, <3>8 DEF Consistent
  <2>9. wt = wt0 \cup {c} /\ c \notin wt0 /\ wt0 \in SUBSET Clients
    BY <2>4
  <2>10. StampsOK(req, wt)
    BY DEF Consistent
  <2> HIDE DEF wt0
  <2>11. PartOfSlot[s] = PartOfTask[req[c].hw_task]
    BY <2>4 DEF p
  <2>12. Consistent(sl2, tm, prog, InsReqOrdered(fri, c, req'), partQ', req', wt)
    <3>1. StampsOK(req, wt0 \cup {c})
      BY <2>9, <2>10
    <3>2. /\ c \in Clients /\ c \notin wt0 /\ wt0 \in SUBSET Clients
          /\ req[c].hw_task \in HwTasks /\ req' \in [Clients -> AccelReq]
          /\ req'[c].slot = s /\ req'[c].hw_task = req[c].hw_task
          /\ req'[c].older = req[c].older /\ ~req'[c].skip_rcfg
          /\ \A d \in Clients \ {c} : req'[d] = req[d]
      BY <2>3, <2>4, <2>6, <2>9
    <3>3. Consistent(sl2, tm, prog, InsReqOrdered(fri, c, req'), partQ', req', wt0 \cup {c})
      BY <2>8, <2>11, <3>1, <3>2, EnterFri
    <3> QED BY <2>9, <3>3
  <2>13. /\ sl2 \in [Slots -> Slot]
         /\ sl2[s].state = "RSRV"
         /\ \A t \in Slots : t # s => sl2[t] = sl[t]
    BY ReservedSlot
  <2>14. IsInjective(fri) /\ c \notin ToSet(fri)
    BY <2>8, <2>9 DEF Consistent, FriQueueOK
  <2> HIDE DEF sl2
  <2>15. Settled(sl2, tm, partQ', req', wt)
    BY <2>1, <2>3, <2>6, <2>12, <2>13, <2>14, PushReqSettles
  <2>16. prog # None => prog' = prog
    BY <2>1 DEF PushReqFriQueue
  <2>17. \A t \in Slots : t # s /\ sl[t].state # "RSRV"
                            => slot'[t] = sl[t] /\ timer'[t] = tm[t]
    BY <2>13, <2>15 DEF Settled
  <2>18. \A t \in Slots : partQ'[PartOfSlot[t]] # << >>
                            => slot'[t].state \notin {"IDLE", "BLANK"}
    <3> SUFFICES ASSUME NEW t \in Slots, partQ'[PartOfSlot[t]] # << >>
                 PROVE  slot'[t].state \notin {"IDLE", "BLANK"}
      OBVIOUS
    <3>1. CASE t = s
      BY <3>1, <2>13, <2>15 DEF Settled
    <3>2. CASE t # s
      <4>1. partQ[PartOfSlot[t]] # << >>
        BY <1>1, <1>3, <2>5 DEF p
      <4>2. sl2[t].state \notin {"IDLE", "BLANK"}
        BY <3>2, <4>1, <2>13
      <4> QED BY <4>2, <2>15 DEF Settled
    <3> QED BY <3>1, <3>2
  <2>19. slot'[s].state # "EXEC"
    <3> SUFFICES ASSUME slot'[s].state = "EXEC" PROVE FALSE
      OBVIOUS
    <3> DEFINE d == slot'[s].exec_req
    <3>1. /\ Consistent(slot', timer', prog', fri', partQ', req', wt)
          /\ req'[d].skip_rcfg
      BY <2>13, <2>15 DEF Settled
    <3>2. d \in wt /\ req'[d].slot = s
      BY <3>1 DEF Consistent, ExecOK
    <3>3. d = c
      BY <2>4, <2>6, <3>1, <3>2 DEF Consistent, OwnersOK
    <3> QED BY <2>6, <3>1, <3>3
  <2> QED BY <2>5, <2>6, <2>15, <2>16, <2>17, <2>18, <2>19 DEF Settled, Pulled
<1> QED BY <1>2, <1>3

-----------------------------------------------------------------------------
(* The invariant.                                                          *)

\* SchedInv in the next state, from its parts.
LEMMA SchedInvPrime ==
  ASSUME TypeOK',
         server' \in {"up"} \cup (IF Faults THEN {"down"} ELSE {}),
         Consistent(slot', timer', prog', fri', partQ', req', waiting'),
         prog' = None => fri' = << >>,
         \A t \in Slots : partQ'[PartOfSlot[t]] # << >>
                             => slot'[t].state \notin {"IDLE", "BLANK"},
         EventsOK'
  PROVE  SchedInv'
<1>1. Consistent(slot, timer, prog, fri, partQ, req, waiting)'
  BY DEF Consistent, PartQueuesOK, FriQueueOK, DevcfgOK, ExecOK, WaitingOK,
         OwnersOK, StampsOK, InIssueOrder
<1>2. WorkConserving'
  BY DEF WorkConserving, Free, IsAvailable
<1> QED BY <1>1, <1>2 DEF SchedInv

\* The parts of SchedInv in the form the lemmas use.
LEMMA SchedInvParts ==
  ASSUME SchedInv
  PROVE  /\ slot \in [Slots -> Slot]
         /\ timer \in [Slots -> Timer]
         /\ prog \in Clients \cup {None}
         /\ fri \in Seq(Clients)
         /\ partQ \in [Partitions -> Seq(Clients)]
         /\ req \in [Clients -> AccelReq]
         /\ waiting \in SUBSET Clients
         /\ Consistent(slot, timer, prog, fri, partQ, req, waiting)
         /\ prog = None => fri = << >>
         /\ \A t \in Slots : partQ[PartOfSlot[t]] # << >>
                             => slot[t].state \notin {"IDLE", "BLANK"}
BY ConstantsAssumption DEF SchedInv, TypeOK, WorkConserving, Free, IsAvailable

LEMMA InitSchedInv == Init => SchedInv
<1> SUFFICES ASSUME Init PROVE SchedInv
  OBVIOUS
<1>1. TypeOK
  <2>1. slot \in [Slots -> Slot]
    BY DEF Init, Slot, SlotStates
  <2>2. timer \in [Slots -> Timer]
    BY DEF Init, Timer
  <2>3. req \in [Clients -> AccelReq]
    BY DEF Init, AccelReq
  <2>4. fri \in Seq(Clients) /\ partQ \in [Partitions -> Seq(Clients)]
    BY DEF Init
  <2>5. batch \in Batch
    BY DEF Init, Batch, NoEvents
  <2>6. /\ server \in {"up", "down", "assert", "hung"}
        /\ prog \in Clients \cup {None}
        /\ waiting \subseteq Clients
        /\ banned \subseteq HwTasks
        /\ irq \subseteq Slots
        /\ rcfgDone \in BOOLEAN
    BY DEF Init
  <2> QED BY <2>1, <2>2, <2>3, <2>4, <2>5, <2>6 DEF TypeOK
<1>2. \A p \in Partitions : partQ[p] = << >>
  BY DEF Init
<1>3. IsInjective(<< >>) /\ ToSet(<< >>) = {} /\ InIssueOrder(<< >>, req)
  BY DEF IsInjective, ToSet, InIssueOrder
<1>4. /\ waiting = {} /\ fri = << >> /\ prog = None
      /\ \A s \in Slots : slot[s].state = "BLANK" /\ timer[s].state = "disarmed"
  BY DEF Init
<1>5. Consistent(slot, timer, prog, fri, partQ, req, waiting)
  BY <1>2, <1>3, <1>4 DEF Consistent, PartQueuesOK, FriQueueOK, DevcfgOK, ExecOK,
     WaitingOK, OwnersOK, StampsOK
<1>6. WorkConserving
  BY <1>2, <1>4 DEF WorkConserving
<1>7. EventsOK
  BY DEF Init, EventsOK, NoEvents
<1>8. server \in {"up"} \cup (IF Faults THEN {"down"} ELSE {})
  BY DEF Init
<1> QED BY <1>1, <1>5, <1>6, <1>7, <1>8 DEF SchedInv

\* A handler that stops the server on a failing call keeps everything else.
LEMMA StopPreserves ==
  ASSUME SchedInv, Faults, Stop("down")
  PROVE  SchedInv'
<1>1. /\ server' = "down"
      /\ UNCHANGED <<slot, timer, prog, fri, partQ, req, waiting, banned, irq,
                     rcfgDone, batch>>
  BY DEF Stop
<1>2. TypeOK' /\ EventsOK'
  BY <1>1 DEF SchedInv, TypeOK, EventsOK
<1> QED BY <1>1, <1>2, SchedInvParts, SchedInvPrime

-----------------------------------------------------------------------------
(* Each action preserves the invariant.                                    *)

\* A slot that is being configured goes on to execute, and one that executes
\* does so until its request is answered.
Leaves(s) == \E a \in waiting : a \notin waiting' /\ req[a].slot = s

BusyKept ==
    \A s \in Slots :
      slot[s].state \in {"RCFG", "EXEC"} =>
        slot'[s].state = slot[s].state \/ slot'[s].state = "EXEC" \/ Leaves(s)

\* The stamp of a new request is later than those of the waiting ones.
LEMMA StampedRequests ==
  ASSUME NEW c \in Clients, NEW h \in HwTasks, waiting \in SUBSET Clients,
         req \in [Clients -> AccelReq]
  PROVE  LET rq == Stamped(c, h)
         IN  /\ rq \in [Clients -> AccelReq]
             /\ rq[c].hw_task = h
             /\ rq[c].slot = None
             /\ ~rq[c].skip_rcfg
             /\ rq[c].older = waiting
             /\ \A d \in Clients \ {c} : /\ rq[d].hw_task = req[d].hw_task
                                         /\ rq[d].slot = req[d].slot
                                         /\ rq[d].skip_rcfg = req[d].skip_rcfg
                                         /\ rq[d].older = req[d].older \ {c}
<1> DEFINE new == [hw_task |-> h, slot |-> None, skip_rcfg |-> FALSE, older |-> waiting]
           old(d) == [req[d] EXCEPT !.older = @ \ {c}]
           rq == Stamped(c, h)
<1>1. /\ new \in AccelReq
      /\ new.hw_task = h
      /\ new.slot = None
      /\ ~new.skip_rcfg
      /\ new.older = waiting
  BY DEF AccelReq
<1>2. \A d \in Clients : /\ old(d) \in AccelReq
                         /\ old(d).hw_task = req[d].hw_task
                         /\ old(d).slot = req[d].slot
                         /\ old(d).skip_rcfg = req[d].skip_rcfg
                         /\ old(d).older = req[d].older \ {c}
  <2> SUFFICES ASSUME NEW d \in Clients
               PROVE  /\ old(d) \in AccelReq
                      /\ old(d).hw_task = req[d].hw_task
                      /\ old(d).slot = req[d].slot
                      /\ old(d).skip_rcfg = req[d].skip_rcfg
                      /\ old(d).older = req[d].older \ {c}
    OBVIOUS
  <2>1. req[d] \in AccelReq
    OBVIOUS
  <2> QED BY <2>1 DEF AccelReq
<1>3. rq = [d \in Clients |-> IF d = c THEN new ELSE old(d)]
  BY DEF Stamped
<1> HIDE DEF new, old, rq
<1>4. rq[c] = new /\ \A d \in Clients \ {c} : rq[d] = old(d)
  BY <1>3
<1>5. rq \in [Clients -> AccelReq]
  BY <1>1, <1>2, <1>3
<1> QED BY <1>1, <1>2, <1>4, <1>5 DEF rq

\* Stamping a new request disturbs no other.
LEMMA StampedConsistent ==
  ASSUME NEW c \in Clients, NEW h \in HwTasks, SchedInv, c \notin waiting
  PROVE  /\ Consistent(slot, timer, prog, fri, partQ, Stamped(c, h), waiting)
         /\ StampsOK(Stamped(c, h), waiting \cup {c})
<1> DEFINE rq == Stamped(c, h)
<1>1. /\ waiting \in SUBSET Clients
      /\ req \in [Clients -> AccelReq]
      /\ Consistent(slot, timer, prog, fri, partQ, req, waiting)
  BY SchedInvParts
<1>2. \A d \in waiting : /\ rq[d].hw_task = req[d].hw_task
                         /\ rq[d].slot = req[d].slot
                         /\ rq[d].skip_rcfg = req[d].skip_rcfg
                         /\ rq[d].older = req[d].older \ {c}
  BY <1>1, StampedRequests
<1>3. rq[c].older = waiting
  BY <1>1, StampedRequests
<1> HIDE DEF rq
<1>4. PartQueuesOK(partQ, rq, waiting)
  BY <1>1, <1>2 DEF Consistent, PartQueuesOK
<1>5. FriQueueOK(slot, fri, rq, waiting)
  BY <1>1, <1>2 DEF Consistent, FriQueueOK
<1>6. DevcfgOK(slot, prog, rq, waiting)
  BY <1>1, <1>2 DEF Consistent, DevcfgOK
<1>7. ExecOK(slot, timer, rq, waiting)
  BY <1>1, <1>2 DEF Consistent, ExecOK
<1>8. WaitingOK(slot, prog, fri, partQ, rq, waiting)
  BY <1>1, <1>2 DEF Consistent, WaitingOK
<1>9. OwnersOK(slot, rq, waiting)
  BY <1>1, <1>2 DEF Consistent, OwnersOK
<1>10. StampsOK(req, waiting)
  BY <1>1 DEF Consistent
<1>11. StampsOK(rq, waiting)
  BY <1>2, <1>10 DEF StampsOK
<1>12. StampsOK(rq, waiting \cup {c})
  BY <1>2, <1>3, <1>11 DEF StampsOK
<1>13. InIssueOrder(fri, rq)
  <2>1. \A j \in DOMAIN fri : fri[j] \in waiting
    BY <1>1 DEF Consistent, FriQueueOK, ToSet
  <2> QED BY <1>1, <1>2, <2>1 DEF Consistent, InIssueOrder
<1>14. \A p \in Partitions : InIssueOrder(partQ[p], rq)
  <2> SUFFICES ASSUME NEW p \in Partitions PROVE InIssueOrder(partQ[p], rq)
    OBVIOUS
  <2>1. InIssueOrder(partQ[p], req) /\ ToSet(partQ[p]) \subseteq waiting
    BY <1>1 DEF Consistent, PartQueuesOK
  <2>2. \A j \in DOMAIN partQ[p] : partQ[p][j] \in waiting
    BY <2>1 DEF ToSet
  <2> QED BY <2>1, <2>2, <1>2 DEF InIssueOrder
<1> QED BY <1>4, <1>5, <1>6, <1>7, <1>8, <1>9, <1>11, <1>12, <1>13, <1>14
        DEF Consistent, rq

\* A request that finds no free slot waits at the end of its partition queue.
LEMMA AppendConsistent ==
  ASSUME NEW c \in Clients, NEW h \in HwTasks, SchedInv, c \notin waiting
  PROVE  LET p == PartOfTask[h]
             pq == [partQ EXCEPT ![p] = Append(@, c)]
         IN  /\ pq \in [Partitions -> Seq(Clients)]
             /\ \A d \in Partitions : d # p => pq[d] = partQ[d]
             /\ Consistent(slot, timer, prog, fri, pq, Stamped(c, h), waiting \cup {c})
<1> DEFINE p == PartOfTask[h]
           q == partQ[p]
           pq == [partQ EXCEPT ![p] = Append(@, c)]
           rq == Stamped(c, h)
           wt == waiting \cup {c}
<1>1. /\ p \in Partitions
      /\ q \in Seq(Clients)
      /\ partQ \in [Partitions -> Seq(Clients)]
  BY ConstantsAssumption, SchedInvParts
<1>2. /\ Consistent(slot, timer, prog, fri, partQ, rq, waiting)
      /\ StampsOK(rq, wt)
  BY StampedConsistent
<1>3. rq[c].hw_task = h /\ rq[c].slot = None /\ ~rq[c].skip_rcfg /\ rq[c].older = waiting
  BY SchedInvParts, StampedRequests
<1>4. /\ Append(q, c) \in Seq(Clients)
      /\ Len(Append(q, c)) = Len(q) + 1
      /\ Len(q) \in Nat
      /\ \A i \in 1..Len(q) : Append(q, c)[i] = q[i]
      /\ Append(q, c)[Len(q) + 1] = c
  BY <1>1, AppendProperties
<1>5. /\ pq \in [Partitions -> Seq(Clients)]
      /\ pq[p] = Append(q, c)
      /\ \A d \in Partitions : d # p => pq[d] = partQ[d]
  BY <1>1, <1>4
<1> DEFINE a == Append(q, c)
<1> HIDE DEF pq, rq, a
<1>6. /\ DOMAIN a = 1..(Len(q) + 1)
      /\ DOMAIN q = 1..Len(q)
      /\ \A i \in DOMAIN a : i = Len(q) + 1 \/ i \in DOMAIN q
      /\ \A i \in DOMAIN q : i \in DOMAIN a /\ i < Len(q) + 1 /\ a[i] = q[i]
      /\ Len(q) + 1 \in DOMAIN a /\ a[Len(q) + 1] = c
  BY <1>1, <1>4 DEF a
<1> HIDE DEF q
<1>7. /\ IsInjective(q)
      /\ \A i \in DOMAIN q : q[i] \in waiting
      /\ ToSet(q) \subseteq waiting
      /\ InIssueOrder(q, rq)
  BY <1>1, <1>2 DEF Consistent, PartQueuesOK, ToSet, q
<1>8. ToSet(a) = ToSet(q) \cup {c}
  BY <1>6 DEF ToSet
<1>9. IsInjective(a)
  BY <1>6, <1>7 DEF IsInjective
<1>10. InIssueOrder(a, rq)
  BY <1>3, <1>4, <1>6, <1>7 DEF InIssueOrder
<1>11. \A d \in Partitions : InIssueOrder(pq[d], rq)
  BY <1>2, <1>5, <1>10 DEF Consistent, a
<1>12. PartQueuesOK(pq, rq, wt)
  <2> SUFFICES ASSUME NEW d \in Partitions
               PROVE  /\ IsInjective(pq[d])
                      /\ \A e \in ToSet(pq[d]) : /\ e \in wt
                                                 /\ rq[e].slot = None
                                                 /\ ~rq[e].skip_rcfg
                                                 /\ PartOfTask[rq[e].hw_task] = d
    BY DEF PartQueuesOK
  <2>1. PartQueuesOK(partQ, rq, waiting)
    BY <1>2 DEF Consistent
  <2>2. CASE d = p
    BY <2>1, <2>2, <1>1, <1>3, <1>5, <1>8, <1>9 DEF PartQueuesOK, a, q
  <2>3. CASE d # p
    BY <2>1, <2>3, <1>5 DEF PartQueuesOK
  <2> QED BY <2>2, <2>3
<1>13. FriQueueOK(slot, fri, rq, wt)
  BY <1>2 DEF Consistent, FriQueueOK
<1>14. DevcfgOK(slot, prog, rq, wt)
  BY <1>2 DEF Consistent, DevcfgOK
<1>15. ExecOK(slot, timer, rq, wt)
  BY <1>2 DEF Consistent, ExecOK
<1>16. WaitingOK(slot, prog, fri, pq, rq, wt)
  <2>1. WaitingOK(slot, prog, fri, partQ, rq, waiting)
    BY <1>2 DEF Consistent
  <2>2. \A d \in Partitions : \A e \in ToSet(partQ[d]) : e \in ToSet(pq[d])
    BY <1>5, <1>8 DEF a, q
  <2>3. \A g \in HwTasks : PartOfTask[g] \in Partitions
    BY ConstantsAssumption
  <2>4. None \notin Slots
    BY ConstantsAssumption
  <2>5. c \in ToSet(pq[p])
    BY <1>5, <1>8 DEF a
  <2>6. \A e \in waiting :
          /\ rq[e].hw_task \in HwTasks
          /\ rq[e].slot = None => e \in ToSet(pq[PartOfTask[rq[e].hw_task]])
    BY <2>1, <2>2, <2>3 DEF WaitingOK
  <2> QED BY <2>1, <2>4, <2>5, <2>6, <1>3 DEF WaitingOK
<1>17. OwnersOK(slot, rq, wt)
  <2>1. None \notin Slots
    BY ConstantsAssumption
  <2> QED BY <2>1, <1>2, <1>3 DEF Consistent, OwnersOK
<1>18. Consistent(slot, timer, prog, fri, pq, rq, wt)
  BY <1>2, <1>11, <1>12, <1>13, <1>14, <1>15, <1>16, <1>17 DEF Consistent
<1> QED BY <1>5, <1>18 DEF pq, rq

\* A free slot is in SLOT_IDLE or SLOT_BLANK.
LEMMA FreeSlots ==
  ASSUME NEW p, NEW s \in Slots
  PROVE  s \in Free(p) <=> PartOfSlot[s] = p /\ slot[s].state \in {"IDLE", "BLANK"}
BY DEF Free, IsAvailable

LEMMA PushAccelReqInv ==
  ASSUME SchedInv, NEW c \in Clients, NEW h \in HwTasks, PushAccelReq(c, h)
  PROVE  SchedInv' /\ BusyKept
<1>1. /\ server = "up"
      /\ c \notin waiting
      /\ waiting' = waiting \cup {c}
      /\ banned' = banned /\ irq' = irq /\ rcfgDone' = rcfgDone /\ batch' = batch
  BY DEF PushAccelReq
<1>2. /\ banned' \subseteq HwTasks
      /\ irq' \subseteq Slots
      /\ rcfgDone' \in BOOLEAN
      /\ batch' \in Batch
      /\ waiting' \subseteq Clients
  BY <1>1 DEF SchedInv, TypeOK
<1>3. \A s \in Slots : s \in irq \/ s \in batch.timer => slot[s].state = "EXEC"
  <2>1. ExecOK(slot, timer, req, waiting)
    BY DEF SchedInv, Consistent
  <2> QED BY <2>1 DEF SchedInv, EventsOK, ExecOK
<1>4. CASE /\ Free(PartOfTask[h]) = {}
           /\ req' = Stamped(c, h)
           /\ partQ' = [partQ EXCEPT ![PartOfTask[h]] = Append(@, c)]
           /\ UNCHANGED <<server, slot, timer, prog, fri>>
  <2>1. /\ partQ' \in [Partitions -> Seq(Clients)]
        /\ \A d \in Partitions : d # PartOfTask[h] => partQ'[d] = partQ[d]
        /\ Consistent(slot, timer, prog, fri, partQ', req', waiting')
    BY <1>1, <1>4, AppendConsistent
  <2>2. req' \in [Clients -> AccelReq]
    BY <1>4, SchedInvParts, StampedRequests
  <2>3. TypeOK'
    BY <1>1, <1>2, <1>4, <2>1, <2>2 DEF SchedInv, TypeOK
  <2>4. \A t \in Slots : partQ'[PartOfSlot[t]] # << >>
                            => slot'[t].state \notin {"IDLE", "BLANK"}
    <3> SUFFICES ASSUME NEW t \in Slots, partQ'[PartOfSlot[t]] # << >>
                 PROVE  slot[t].state \notin {"IDLE", "BLANK"}
      BY <1>4
    <3>1. PartOfSlot[t] \in Partitions
      BY ConstantsAssumption
    <3>2. CASE PartOfSlot[t] = PartOfTask[h]
      BY <1>4, <3>2, FreeSlots
    <3>3. CASE PartOfSlot[t] # PartOfTask[h]
      BY <2>1, <3>1, <3>3, SchedInvParts
    <3> QED BY <3>2, <3>3
  <2>5. EventsOK'
    BY <1>1, <1>4 DEF SchedInv, EventsOK
  <2>6. server' \in {"up"} \cup (IF Faults THEN {"down"} ELSE {})
    BY <1>1, <1>4
  <2>7. Consistent(slot', timer', prog', fri', partQ', req', waiting')
    BY <1>4, <2>1
  <2>8. prog' = None => fri' = << >>
    BY <1>4, SchedInvParts
  <2>9. BusyKept
    BY <1>4 DEF BusyKept
  <2> QED BY <2>3, <2>4, <2>5, <2>6, <2>7, <2>8, <2>9, SchedInvPrime
<1>5. CASE \E s \in Slots :
             /\ SearchSlot(s, h)
             /\ req' = [Stamped(c, h) EXCEPT
                          ![c].slot = s,
                          ![c].skip_rcfg =
                              @ \/ (Mode = "NORMAL" /\ MatchHwTask(s, h))]
             /\ PushReqFriQueue(c, req', [slot EXCEPT ![s] = Reserved(@)], timer)
             /\ UNCHANGED partQ
  <2> DEFINE rq == Stamped(c, h)
  <2>1. PICK s \in Slots :
             /\ SearchSlot(s, h)
             /\ req' = [rq EXCEPT
                          ![c].slot = s,
                          ![c].skip_rcfg =
                              @ \/ (Mode = "NORMAL" /\ MatchHwTask(s, h))]
             /\ PushReqFriQueue(c, req', [slot EXCEPT ![s] = Reserved(@)], timer)
             /\ partQ' = partQ
    BY <1>5
  <2>2. /\ rq \in [Clients -> AccelReq]
        /\ rq[c].hw_task = h
        /\ ~rq[c].skip_rcfg
    BY SchedInvParts, StampedRequests
  <2>3. /\ Consistent(slot, timer, prog, fri, partQ, rq, waiting)
        /\ StampsOK(rq, waiting \cup {c})
    BY <1>1, StampedConsistent
  <2> HIDE DEF rq
  <2>4. PartOfSlot[s] = PartOfTask[h] /\ slot[s].state \in {"IDLE", "BLANK"}
    BY <2>1, FreeSlots DEF SearchSlot
  <2>5. MatchHwTask(s, h) => slot[s].coupled /\ slot[s].hw_task = h
    BY <2>3 DEF MatchHwTask, Consistent, ExecOK
  <2>6. /\ req' \in [Clients -> AccelReq]
        /\ req'[c].slot = s
        /\ req'[c].hw_task = rq[c].hw_task
        /\ req'[c].older = rq[c].older
        /\ req'[c].skip_rcfg => MatchHwTask(s, h)
        /\ \A d \in Clients \ {c} : req'[d] = rq[d]
    <3> DEFINE b == rq[c].skip_rcfg \/ (Mode = "NORMAL" /\ MatchHwTask(s, h))
               y == [rq[c] EXCEPT !.slot = s, !.skip_rcfg = b]
    <3>1. b \in BOOLEAN /\ (b => MatchHwTask(s, h))
      BY <2>2
    <3>2. req' = [rq EXCEPT ![c] = y]
      BY <2>1
    <3> HIDE DEF b
    <3>3. /\ y \in AccelReq
          /\ y.slot = s
          /\ y.hw_task = rq[c].hw_task
          /\ y.older = rq[c].older
          /\ y.skip_rcfg = b
      <4>1. rq[c] \in AccelReq
        BY <2>2
      <4> QED BY <4>1, <3>1 DEF AccelReq
    <3> HIDE DEF y
    <3>4. req'[c] = y /\ req' \in [Clients -> AccelReq]
      BY <2>2, <3>2, <3>3
    <3>5. \A d \in Clients \ {c} : req'[d] = rq[d]
      BY <2>2, <3>2
    <3> QED BY <3>1, <3>3, <3>4, <3>5
  <2> DEFINE sl2 == [slot EXCEPT ![s] = Reserved(@)]
  <2>7. Consistent(sl2, timer, prog, InsReqOrdered(fri, c, req'), partQ, req', waiting')
    <3>1. req'[c].skip_rcfg => slot[s].coupled /\ slot[s].hw_task = rq[c].hw_task
      BY <2>2, <2>5, <2>6
    <3> QED BY <1>1, <2>2, <2>3, <2>4, <2>6, <3>1, SchedInvParts, EnterFri
  <2>8. /\ sl2 \in [Slots -> Slot]
        /\ sl2[s].state = "RSRV"
        /\ \A t \in Slots : t # s => sl2[t] = slot[t]
    <3>1. slot \in [Slots -> Slot]
      BY SchedInvParts
    <3> QED BY <3>1, ReservedSlot
  <2>9. IsInjective(fri) /\ c \notin ToSet(fri)
    BY <1>1, <2>3 DEF Consistent, FriQueueOK
  <2>10. PushReqFriQueue(c, req', sl2, timer)
    BY <2>1
  <2> HIDE DEF sl2
  <2>11. waiting' \in SUBSET Clients
    BY <1>2
  <2>12. Settled(sl2, timer, partQ, req', waiting')
    BY <1>1, <2>6, <2>7, <2>8, <2>9, <2>10, <2>11, SchedInvParts, PushReqSettles
  <2>13. prog # None => prog' = prog
    BY <2>10 DEF PushReqFriQueue
  <2>14. TypeOK'
    BY <1>2, <2>1, <2>6, <2>12, SchedInvParts DEF Settled, TypeOK
  <2>15. \A t \in Slots : partQ'[PartOfSlot[t]] # << >>
                             => slot'[t].state \notin {"IDLE", "BLANK"}
    BY <2>1, <2>8, <2>12, SchedInvParts DEF Settled
  <2>16. EventsOK'
    <3>1. \A t \in Slots : slot[t].state = "EXEC" => slot'[t] = slot[t] /\ timer'[t] = timer[t]
      BY <2>4, <2>8, <2>12 DEF Settled
    <3>2. EventsOK /\ TypeOK
      BY DEF SchedInv
    <3>3. batch.timer \subseteq Slots
      BY <3>2 DEF TypeOK, Batch
    <3> QED BY <1>1, <1>3, <2>13, <3>1, <3>2, <3>3 DEF EventsOK, TypeOK
  <2>17. Consistent(slot', timer', prog', fri', partQ', req', waiting')
    BY <2>1, <2>12 DEF Settled
  <2>18. BusyKept
    BY <2>4, <2>8, <2>12 DEF Settled, BusyKept
  <2> QED BY <2>12, <2>14, <2>15, <2>16, <2>17, <2>18, SchedInvPrime DEF Settled
<1> QED BY <1>4, <1>5 DEF PushAccelReq

\* What SchedInv says of an executing slot.
LEMMA ExecutingSlot ==
  ASSUME SchedInv, NEW s \in Slots, slot[s].state = "EXEC"
  PROVE  /\ slot[s].exec_req \in waiting
         /\ slot[s].exec_req \in Clients
         /\ req[slot[s].exec_req].slot = s
         /\ req[slot[s].exec_req].hw_task \in HwTasks
         /\ PartOfSlot[s] = PartOfTask[req[slot[s].exec_req].hw_task]
         /\ slot[s].coupled
         /\ timer[s].exec_req = slot[s].exec_req
         /\ timer[s].state # "disarmed"
<1>1. /\ ExecOK(slot, timer, req, waiting)
      /\ WaitingOK(slot, prog, fri, partQ, req, waiting)
      /\ waiting \in SUBSET Clients
  BY SchedInvParts DEF Consistent
<1> QED BY <1>1 DEF ExecOK, WaitingOK

LEMMA RcfgCompleteInv ==
  ASSUME SchedInv, RcfgComplete
  PROVE  SchedInv' /\ BusyKept
<1> DEFINE r == prog
           s == req[r].slot
           sl == [slot EXCEPT ![s] = Computing(Reinit(@), r)]
           tm == [timer EXCEPT ![s] = Armed(r)]
<1>1. CASE Faults /\ Stop("down")
  BY <1>1, StopPreserves DEF Stop, BusyKept
<1>2. CASE /\ batch' = [batch EXCEPT !.devcfg = FALSE]
           /\ rcfgDone' = FALSE
           /\ StartRcfg(fri, req, sl, tm)
           /\ UNCHANGED <<partQ, req, waiting, banned, irq>>
  <2>1. batch.devcfg /\ r # None
    BY DEF RcfgComplete, SchedInv, EventsOK
  <2>2. /\ slot \in [Slots -> Slot]
        /\ timer \in [Slots -> Timer]
        /\ r \in Clients
        /\ fri \in Seq(Clients)
        /\ partQ \in [Partitions -> Seq(Clients)]
        /\ req \in [Clients -> AccelReq]
        /\ waiting \in SUBSET Clients
        /\ Consistent(slot, timer, prog, fri, partQ, req, waiting)
    BY <2>1, SchedInvParts
  <2>3. /\ r \in waiting
        /\ s \in Slots
        /\ slot[s].state = "RCFG"
        /\ slot[s].hw_task = req[r].hw_task
    BY <2>1, <2>2 DEF Consistent, DevcfgOK
  <2>4. /\ sl[s] = Computing(Reinit(slot[s]), r)
        /\ tm[s] = Armed(r)
        /\ \A t \in Slots : t # s => sl[t] = slot[t] /\ tm[t] = timer[t]
    BY <2>2, <2>3
  <2>5. /\ sl[s] \in Slot
        /\ sl[s].state = "EXEC"
        /\ sl[s].coupled
        /\ sl[s].hw_task = req[r].hw_task
        /\ sl[s].exec_req = r
    <3>1. slot[s] \in Slot
      BY <2>2, <2>3
    <3> HIDE DEF sl
    <3> QED BY <2>2, <2>3, <2>4, <3>1, ReinitComputingSlot
  <2>6. /\ tm[s] \in Timer
        /\ tm[s].state = "armed"
        /\ tm[s].exec_req = r
    <3> HIDE DEF tm
    <3> QED BY <2>2, <2>4, TimerOperations
  <2>7. sl \in [Slots -> Slot] /\ tm \in [Slots -> Timer]
    BY <2>2, <2>3, <2>4, <2>5, <2>6
  <2> HIDE DEF sl, tm, r, s
  <2>8. Consistent(sl, tm, None, fri, partQ, req, waiting)
    <3>1. PartQueuesOK(partQ, req, waiting)
      BY <2>2 DEF Consistent
    <3>2. FriQueueOK(sl, fri, req, waiting)
      <4>1. FriQueueOK(slot, fri, req, waiting)
        BY <2>2 DEF Consistent
      <4>2. \A c \in ToSet(fri) : req[c].slot \in Slots /\ req[c].slot # s
        BY <2>3, <4>1 DEF FriQueueOK
      <4> QED BY <2>4, <4>1, <4>2 DEF FriQueueOK
    <3>3. DevcfgOK(sl, None, req, waiting)
      BY DEF DevcfgOK
    <3>4. ExecOK(sl, tm, req, waiting)
      <4>1. ExecOK(slot, timer, req, waiting)
        BY <2>2 DEF Consistent
      <4>2. req[r].slot = s
        BY DEF s
      <4> QED BY <2>3, <2>4, <2>5, <2>6, <4>1, <4>2 DEF ExecOK
    <3>5. WaitingOK(sl, None, fri, partQ, req, waiting)
      <4>1. WaitingOK(slot, prog, fri, partQ, req, waiting)
        BY <2>2 DEF Consistent
      <4>2. \A c \in waiting : c # r => req[c].slot # s
        BY <2>2, <2>3 DEF Consistent, OwnersOK, s
      <4>3. req[r].slot = s /\ prog = r
        BY DEF s, r
      <4>4. ASSUME NEW c \in waiting
            PROVE /\ req[c].hw_task \in HwTasks
                  /\ req[c].slot = None => c \in ToSet(partQ[PartOfTask[req[c].hw_task]])
                  /\ req[c].slot \in Slots =>
                       /\ PartOfSlot[req[c].slot] = PartOfTask[req[c].hw_task]
                       /\ \/ sl[req[c].slot].state = "RSRV" /\ c \in ToSet(fri)
                          \/ sl[req[c].slot].state = "RCFG" /\ None = c
                          \/ sl[req[c].slot].state = "EXEC" /\ sl[req[c].slot].exec_req = c
        <5>1. CASE c = r
          BY <5>1, <2>3, <2>5, <4>1, <4>3 DEF WaitingOK
        <5>2. CASE c # r
          BY <5>2, <2>4, <4>1, <4>2, <4>3 DEF WaitingOK
        <5> QED BY <5>1, <5>2
      <4> QED BY <4>4 DEF WaitingOK
    <3>6. OwnersOK(sl, req, waiting)
      <4>1. req[r].slot = s
        BY DEF s
      <4> QED BY <2>2, <2>3, <2>4, <4>1 DEF Consistent, OwnersOK
    <3>7. /\ StampsOK(req, waiting)
          /\ InIssueOrder(fri, req)
          /\ \A p \in Partitions : InIssueOrder(partQ[p], req)
      BY <2>2 DEF Consistent
    <3> QED BY <3>1, <3>2, <3>3, <3>4, <3>5, <3>6, <3>7 DEF Consistent
  <2>9. Settled(sl, tm, partQ, req, waiting)
    BY <1>2, <2>2, <2>7, <2>8, StartRcfgSettles
  <2>10. partQ' = partQ /\ req' = req /\ waiting' = waiting /\ banned' = banned /\ irq' = irq
    BY <1>2
  <2>11. TypeOK'
    <3>1. batch' \in Batch /\ rcfgDone' \in BOOLEAN
      BY <1>2 DEF SchedInv, TypeOK, Batch
    <3>2. banned' \subseteq HwTasks /\ irq' \subseteq Slots
      BY <2>10 DEF SchedInv, TypeOK
    <3> QED BY <2>2, <2>9, <2>10, <3>1, <3>2 DEF TypeOK, Settled
  <2>12. \A t \in Slots : partQ'[PartOfSlot[t]] # << >>
                             => slot'[t].state \notin {"IDLE", "BLANK"}
    <3> SUFFICES ASSUME NEW t \in Slots, partQ[PartOfSlot[t]] # << >>
                 PROVE  slot'[t].state \notin {"IDLE", "BLANK"}
      BY <2>10
    <3>1. slot[t].state \notin {"IDLE", "BLANK"}
      BY SchedInvParts
    <3>2. sl[t].state \notin {"IDLE", "BLANK"}
      BY <3>1, <2>4, <2>5
    <3> QED BY <3>2, <2>9 DEF Settled
  <2>13. EventsOK'
    <3>1. /\ \A t \in irq : t \in Slots /\ slot[t].state = "EXEC" /\ timer[t].state = "armed"
          /\ batch.slot \subseteq irq
          /\ batch.timer \subseteq Slots
          /\ \A t \in batch.timer : timer[t].state = "expired"
          /\ ExecOK(slot, timer, req, waiting)
      BY <2>2 DEF SchedInv, EventsOK, TypeOK, Batch, Consistent
    <3>2. \A t \in batch.timer : slot[t].state = "EXEC"
      BY <3>1 DEF ExecOK
    <3>3. \A t \in Slots : slot[t].state = "EXEC" => slot'[t] = slot[t] /\ timer'[t] = timer[t]
      BY <2>3, <2>4, <2>9 DEF Settled
    <3>4. batch'.slot = batch.slot /\ batch'.timer = batch.timer /\ ~batch'.devcfg /\ ~rcfgDone'
      BY <1>2 DEF SchedInv, TypeOK, Batch
    <3> QED BY <2>10, <3>1, <3>2, <3>3, <3>4 DEF EventsOK
  <2>14. Consistent(slot', timer', prog', fri', partQ', req', waiting')
    BY <2>9, <2>10 DEF Settled
  <2>15. BusyKept
    BY <2>3, <2>4, <2>5, <2>9 DEF Settled, BusyKept
  <2> QED BY <2>9, <2>11, <2>12, <2>13, <2>14, <2>15, SchedInvPrime DEF Settled
<1> QED BY <1>1, <1>2 DEF RcfgComplete

\* What SlotComplete and SlotTimeout share: the request r of the executing
\* slot s is answered, s is freed as x and its timer left as y.
LEMMA AnswerInv ==
  ASSUME SchedInv, server = "up",
         NEW s \in Slots, slot[s].state = "EXEC",
         NEW x \in Slot, x.state \in {"IDLE", "BLANK"}, x.state = "IDLE" => x.coupled,
         NEW y \in Timer, y.state = "disarmed",
         PullReqPartitionQueue(slot[s].exec_req, s, [slot EXCEPT ![s] = x],
                               [timer EXCEPT ![s] = y]),
         waiting' = waiting \ {slot[s].exec_req},
         banned' \subseteq HwTasks,
         rcfgDone' = rcfgDone,
         irq' = irq \ {s},
         batch' \in Batch,
         batch'.slot \subseteq batch.slot \ {s},
         batch'.timer \subseteq batch.timer \ {s},
         batch'.devcfg = batch.devcfg
  PROVE  SchedInv' /\ BusyKept /\ slot'[s].state # "EXEC"
<1> DEFINE r == slot[s].exec_req
           sl == [slot EXCEPT ![s] = x]
           tm == [timer EXCEPT ![s] = y]
           wt == waiting \ {r}
<1>1. /\ slot \in [Slots -> Slot]
      /\ timer \in [Slots -> Timer]
      /\ prog \in Clients \cup {None}
      /\ fri \in Seq(Clients)
      /\ partQ \in [Partitions -> Seq(Clients)]
      /\ req \in [Clients -> AccelReq]
      /\ waiting \in SUBSET Clients
      /\ Consistent(slot, timer, prog, fri, partQ, req, waiting)
      /\ prog = None => fri = << >>
      /\ \A t \in Slots : partQ[PartOfSlot[t]] # << >>
                            => slot[t].state \notin {"IDLE", "BLANK"}
  BY SchedInvParts
<1>2. /\ r \in Clients
      /\ req[r].hw_task \in HwTasks
      /\ PartOfSlot[s] = PartOfTask[req[r].hw_task]
  BY ExecutingSlot
<1>3. Consistent(sl, tm, prog, fri, partQ, req, wt)
  BY <1>1, LeaveSlot
<1>4. /\ sl \in [Slots -> Slot]
      /\ tm \in [Slots -> Timer]
      /\ sl[s].state \in {"IDLE", "BLANK"}
      /\ \A t \in Slots : t # s => sl[t] = slot[t] /\ tm[t] = timer[t]
  BY <1>1
<1>5. wt \in SUBSET Clients
  BY <1>1
<1>6. PullReqPartitionQueue(r, s, sl, tm) /\ waiting' = wt
  OBVIOUS
<1> HIDE DEF r, sl, tm, wt
<1>7. \A t \in Slots : t # s /\ partQ[PartOfSlot[t]] # << >>
                             => sl[t].state \notin {"IDLE", "BLANK"}
  BY <1>1, <1>4
<1>8. Pulled(s, sl, tm, wt)
  BY <1>1, <1>2, <1>3, <1>4, <1>5, <1>6, <1>7, PullSettles
<1>9. TypeOK'
  <2>1. irq' \subseteq Slots /\ rcfgDone' \in BOOLEAN
    BY DEF SchedInv, TypeOK
  <2> QED BY <1>5, <1>6, <1>8, <2>1 DEF Pulled, TypeOK
<1>10. EventsOK'
  <2>1. /\ \A t \in irq : t \in Slots /\ slot[t].state = "EXEC" /\ timer[t].state = "armed"
        /\ batch.slot \subseteq irq
        /\ batch.timer \subseteq Slots
        /\ \A t \in batch.timer : timer[t].state = "expired"
        /\ rcfgDone => prog # None
        /\ batch.devcfg => rcfgDone
        /\ ExecOK(slot, timer, req, waiting)
    BY <1>1 DEF SchedInv, EventsOK, TypeOK, Batch, Consistent
  <2>2. \A t \in batch.timer : slot[t].state = "EXEC"
    BY <2>1 DEF ExecOK
  <2>3. \A t \in Slots \ {s} : slot[t].state = "EXEC"
                                 => slot'[t] = slot[t] /\ timer'[t] = timer[t]
    BY <1>4, <1>8 DEF Pulled
  <2>4. \A t \in irq' : slot'[t].state = "EXEC" /\ timer'[t].state = "armed"
    BY <2>1, <2>3
  <2>5. \A t \in batch'.timer : timer'[t].state = "expired"
    BY <2>1, <2>2, <2>3
  <2>6. rcfgDone' => prog' # None
    BY <1>8, <2>1 DEF Pulled
  <2>7. batch'.slot \subseteq irq' /\ (batch'.devcfg => rcfgDone')
    BY <2>1
  <2> QED BY <2>4, <2>5, <2>6, <2>7 DEF EventsOK
<1>11. Consistent(slot', timer', prog', fri', partQ', req', waiting')
  BY <1>6, <1>8 DEF Pulled
<1>12. BusyKept
  <2>1. \A t \in Slots \ {s} : slot[t].state \in {"RCFG", "EXEC"} => slot'[t] = slot[t]
    BY <1>4, <1>8 DEF Pulled
  <2>2. Leaves(s)
    BY ExecutingSlot DEF Leaves
  <2> QED BY <2>1, <2>2 DEF BusyKept
<1> QED BY <1>8, <1>9, <1>10, <1>11, <1>12, SchedInvPrime DEF Pulled

\* Without Overlap a batched interrupt is that of the slot its request
\* executes on, which is still pending.
LEMMA SlotCompleteInv ==
  ASSUME SchedInv, NEW e \in Slots, SlotComplete(e)
  PROVE  SchedInv' /\ BusyKept
<1> DEFINE r == slot[e].exec_req
<1>1. /\ server = "up"
      /\ e \in batch.slot
      /\ e \in irq
      /\ slot[e].state = "EXEC"
  BY DEF SlotComplete, SchedInv, EventsOK
<1>2. req[r].slot = e /\ e # None /\ slot[e].coupled
  BY <1>1, ExecutingSlot, ConstantsAssumption
<1>3. CASE Faults /\ Stop("down")
  BY <1>3, StopPreserves DEF Stop, BusyKept
<1>4. CASE /\ batch' = [batch EXCEPT !.slot = @ \ {e}]
           /\ irq' = irq \ {e}
           /\ waiting' = waiting \ {r}
           /\ PullReqPartitionQueue(r, e, [slot EXCEPT ![e] = Cleared(@)],
                                          [timer EXCEPT ![e] = Disarmed])
           /\ UNCHANGED <<banned, rcfgDone>>
  <2> DEFINE x == Cleared(slot[e])
  <2>1. slot \in [Slots -> Slot] /\ batch \in Batch /\ banned \subseteq HwTasks
    BY DEF SchedInv, TypeOK
  <2>2. [slot EXCEPT ![e] = Cleared(@)] = [slot EXCEPT ![e] = x]
    BY <2>1
  <2>3. /\ x \in Slot
        /\ x.state = "IDLE"
        /\ x.coupled
    BY <1>2, <2>1, FreedSlot
  <2>4. /\ batch' \in Batch
        /\ batch'.slot = batch.slot \ {e}
        /\ batch'.timer = batch.timer
        /\ batch'.devcfg = batch.devcfg
    BY <1>4, <2>1 DEF Batch
  <2>5. e \notin batch.timer
    BY <1>1 DEF SchedInv, EventsOK
  <2>6. PullReqPartitionQueue(r, e, [slot EXCEPT ![e] = x], [timer EXCEPT ![e] = Disarmed])
    BY <1>4, <2>2
  <2>7. Disarmed \in Timer /\ Disarmed.state = "disarmed"
    BY DEF Disarmed, Timer
  <2>8. /\ batch'.timer \subseteq batch.timer \ {e} /\ banned' \subseteq HwTasks
        /\ rcfgDone' = rcfgDone
    BY <1>4, <2>1, <2>4, <2>5
  <2> HIDE DEF x
  <2> QED BY <1>1, <1>4, <2>3, <2>4, <2>6, <2>7, <2>8, AnswerInv
<1> QED BY <1>1, <1>2, <1>3, <1>4 DEF SlotComplete

\* Without Overlap a batched expiration is that of an executing slot, which is
\* taken out of execution.
LEMMA SlotTimeoutInv ==
  ASSUME SchedInv, NEW e \in Slots, SlotTimeout(e)
  PROVE  SchedInv' /\ BusyKept /\ (waiting' # waiting => slot'[e].state # "EXEC")
<1> DEFINE r == timer[e].exec_req
<1>1. /\ server = "up"
      /\ e \in batch.timer
      /\ timer[e].state = "expired"
      /\ slot[e].state = "EXEC"
  BY DEF SlotTimeout, SchedInv, EventsOK, Consistent, ExecOK
<1>2. /\ r = slot[e].exec_req
      /\ req[r].slot = e
      /\ req[r].hw_task \in HwTasks
  BY <1>1, ExecutingSlot
<1>3. CASE Faults /\ Stop("down")
  BY <1>3, StopPreserves DEF Stop, BusyKept
<1>4. CASE /\ batch' = [batch EXCEPT !.timer = @ \ {e}]
           /\ banned' = banned \cup {req[r].hw_task}
           /\ waiting' = waiting \ {r}
           /\ PullReqPartitionQueue(r, e, [slot EXCEPT ![e] = Disabled(@)],
                                          [timer EXCEPT ![e].state = "disarmed"])
           /\ UNCHANGED <<irq, rcfgDone>>
  <2> DEFINE x == Disabled(slot[e])
             y == [timer[e] EXCEPT !.state = "disarmed"]
  <2>1. /\ slot \in [Slots -> Slot]
        /\ timer \in [Slots -> Timer]
        /\ batch \in Batch
        /\ banned \subseteq HwTasks
    BY DEF SchedInv, TypeOK
  <2>2. /\ [slot EXCEPT ![e] = Disabled(@)] = [slot EXCEPT ![e] = x]
        /\ [timer EXCEPT ![e].state = "disarmed"] = [timer EXCEPT ![e] = y]
    BY <2>1
  <2>3. x \in Slot /\ x.state = "BLANK"
    BY <2>1, FreedSlot
  <2>4. y \in Timer /\ y.state = "disarmed"
    <3>1. timer[e] \in Timer
      BY <2>1
    <3> QED BY <3>1 DEF Timer
  <2>5. /\ batch' \in Batch
        /\ batch'.slot = batch.slot
        /\ batch'.timer = batch.timer \ {e}
        /\ batch'.devcfg = batch.devcfg
    BY <1>4, <2>1 DEF Batch
  <2>6. e \notin irq /\ e \notin batch.slot
    BY <1>1 DEF SchedInv, EventsOK
  <2>7. PullReqPartitionQueue(slot[e].exec_req, e, [slot EXCEPT ![e] = x],
                              [timer EXCEPT ![e] = y])
    BY <1>2, <1>4, <2>2
  <2>8. banned' \subseteq HwTasks /\ waiting' = waiting \ {slot[e].exec_req}
    BY <1>2, <1>4, <2>1
  <2>9. irq' = irq \ {e} /\ rcfgDone' = rcfgDone
    BY <1>4, <2>6
  <2> HIDE DEF x, y
  <2> QED BY <1>1, <2>3, <2>4, <2>5, <2>6, <2>7, <2>8, <2>9, AnswerInv
<1> QED BY <1>1, <1>2, <1>3, <1>4 DEF SlotTimeout

\* The steps of the kernel and of the hardware leave the scheduler alone.
LEMMA EnvironmentInv ==
  ASSUME SchedInv, ~Overlap,
         \/ EpollWait
         \/ \E s \in Slots : AcceleratorDone(s)
         \/ \E s \in Slots : TimerExpires(s)
         \/ RcfgDone
         \/ UNCHANGED vars
  PROVE  SchedInv'
<1>1. /\ TypeOK
      /\ EventsOK
      /\ server \in {"up"} \cup (IF Faults THEN {"down"} ELSE {})
      /\ Consistent(slot, timer, prog, fri, partQ, req, waiting)
      /\ prog = None => fri = << >>
      /\ \A t \in Slots : partQ[PartOfSlot[t]] # << >>
                            => slot[t].state \notin {"IDLE", "BLANK"}
  BY SchedInvParts DEF SchedInv
<1>2. CASE EpollWait
  <2>1. batch' = Ready /\ UNCHANGED <<server, slot, timer, prog, fri, partQ, req,
                                      waiting, banned, irq, rcfgDone>>
    BY <1>2 DEF EpollWait
  <2>2. batch' \in Batch /\ batch'.slot = irq /\ batch'.devcfg = rcfgDone
        /\ batch'.timer = {s \in Slots : timer[s].state = "expired"}
    BY <1>1, <2>1 DEF Ready, Batch, TypeOK
  <2>3. TypeOK'
    BY <1>1, <2>1, <2>2 DEF TypeOK
  <2>4. EventsOK'
    BY <1>1, <2>1, <2>2 DEF EventsOK
  <2> QED BY <1>1, <2>1, <2>3, <2>4, SchedInvPrime
<1>3. ASSUME NEW s \in Slots, AcceleratorDone(s)
      PROVE  SchedInv'
  <2>1. /\ slot[s].state = "EXEC"
        /\ timer[s].state # "expired"
        /\ irq' = irq \cup {s}
        /\ UNCHANGED <<server, slot, timer, prog, fri, partQ, req, waiting, banned,
                       rcfgDone, batch>>
    BY <1>3 DEF AcceleratorDone
  <2>2. timer[s].state = "armed"
    <3>1. timer[s] \in Timer /\ timer[s].state # "disarmed"
      BY <1>1, <2>1, ExecutingSlot DEF TypeOK
    <3> QED BY <2>1, <3>1 DEF Timer
  <2>3. TypeOK'
    BY <1>1, <2>1 DEF TypeOK
  <2>4. EventsOK'
    BY <1>1, <2>1, <2>2 DEF EventsOK
  <2> QED BY <1>1, <2>1, <2>3, <2>4, SchedInvPrime
<1>4. ASSUME NEW s \in Slots, TimerExpires(s)
      PROVE  SchedInv'
  <2> DEFINE y == [timer[s] EXCEPT !.state = "expired"]
  <2>1. /\ timer[s].state = "armed"
        /\ s \notin irq
        /\ timer' = [timer EXCEPT ![s].state = "expired"]
        /\ UNCHANGED <<server, slot, prog, fri, partQ, req, waiting, banned, irq,
                       rcfgDone, batch>>
    BY <1>4 DEF TimerExpires
  <2>2. timer \in [Slots -> Timer] /\ timer[s] \in Timer
    BY <1>1 DEF TypeOK
  <2>3. y \in Timer /\ y.state = "expired" /\ y.exec_req = timer[s].exec_req
    BY <2>2 DEF Timer
  <2>4. timer' = [timer EXCEPT ![s] = y]
    BY <2>1
  <2> HIDE DEF y
  <2>5. /\ timer' \in [Slots -> Timer]
        /\ timer'[s] = y
        /\ \A t \in Slots : t # s => timer'[t] = timer[t]
    BY <2>2, <2>3, <2>4
  <2>6. TypeOK'
    BY <1>1, <2>1, <2>5 DEF TypeOK
  <2>7. EventsOK'
    <3>1. batch.timer \subseteq Slots /\ irq \subseteq Slots
      BY <1>1 DEF TypeOK, Batch
    <3> QED BY <1>1, <2>1, <2>3, <2>5, <3>1 DEF EventsOK
  <2>8. ExecOK(slot, timer', req, waiting)
    BY <1>1, <2>1, <2>3, <2>5 DEF Consistent, ExecOK
  <2>9. Consistent(slot', timer', prog', fri', partQ', req', waiting')
    BY <1>1, <2>1, <2>8 DEF Consistent
  <2> QED BY <1>1, <2>1, <2>6, <2>7, <2>9, SchedInvPrime
<1>5. CASE RcfgDone
  <2>1. /\ prog # None
        /\ rcfgDone' = TRUE
        /\ UNCHANGED <<server, slot, timer, prog, fri, partQ, req, waiting, banned,
                       irq, batch>>
    BY <1>5 DEF RcfgDone
  <2>2. TypeOK' /\ EventsOK'
    BY <1>1, <2>1 DEF TypeOK, EventsOK
  <2> QED BY <1>1, <2>1, <2>2, SchedInvPrime
<1>6. CASE UNCHANGED vars
  <2>1. TypeOK' /\ EventsOK'
    BY <1>1, <1>6 DEF TypeOK, EventsOK, vars
  <2> QED BY <1>1, <1>6, <2>1, SchedInvPrime DEF vars
<1> QED BY <1>2, <1>3, <1>4, <1>5, <1>6

\* Every step preserves the invariant.
LEMMA NextSchedInv ==
  ASSUME ~Overlap
  PROVE  SchedInv /\ [Next]_vars => SchedInv'
<1> SUFFICES ASSUME SchedInv, [Next]_vars PROVE SchedInv'
  OBVIOUS
<1>1. CASE \E c \in Clients, h \in HwTasks : PushAccelReq(c, h)
  BY <1>1, PushAccelReqInv
<1>2. CASE RcfgComplete
  BY <1>2, RcfgCompleteInv
<1>3. CASE \E s \in Slots : SlotComplete(s)
  BY <1>3, SlotCompleteInv
<1>4. CASE \E s \in Slots : SlotTimeout(s)
  BY <1>4, SlotTimeoutInv
<1>5. CASE \/ EpollWait
           \/ \E s \in Slots : AcceleratorDone(s)
           \/ \E s \in Slots : TimerExpires(s)
           \/ RcfgDone
           \/ UNCHANGED vars
  BY <1>5, EnvironmentInv
<1> QED BY <1>1, <1>2, <1>3, <1>4, <1>5 DEF Next

-----------------------------------------------------------------------------
(* Theorems.                                                               *)

\* The scheduler's queues, slots, timers and pending events stay consistent.
THEOREM Consistency ==
  ASSUME ~Overlap
  PROVE  Spec => []SchedInv
<1>1. Init => SchedInv
  BY InitSchedInv
<1>2. SchedInv /\ [Next]_vars => SchedInv'
  BY NextSchedInv
<1> QED BY <1>1, <1>2, PTL DEF Spec

\* The server's variables keep their types.
THEOREM TypeCorrectness ==
  ASSUME ~Overlap
  PROVE  Spec => []TypeOK
<1>1. SchedInv => TypeOK
  BY DEF SchedInv
<1> QED BY <1>1, Consistency, PTL

\* No request is lost, run twice or answered twice: a waiting one is in
\* exactly one queue, device or slot.
THEOREM OnePlaceAtATime ==
  ASSUME ~Overlap
  PROVE  Spec => []OnePlace
<1>1. SchedInv => OnePlace
  <2> SUFFICES ASSUME SchedInv PROVE OnePlace
    OBVIOUS
  <2>1. /\ PartQueuesOK(partQ, req, waiting)
        /\ FriQueueOK(slot, fri, req, waiting)
        /\ DevcfgOK(slot, prog, req, waiting)
        /\ ExecOK(slot, timer, req, waiting)
        /\ WaitingOK(slot, prog, fri, partQ, req, waiting)
        /\ waiting \in SUBSET Clients
    BY SchedInvParts DEF Consistent
  <2>2. None \notin Clients /\ None \notin Slots
    BY ConstantsAssumption
  <2>3. ASSUME NEW c \in Clients
        PROVE  LET parts == {p \in Partitions : Queued(c, p)}
                   execs == {s \in Slots : Executing(c, s)}
               IN  IF c \notin waiting
                   THEN parts = {} /\ execs = {} /\ ~InFri(c) /\ prog # c
                   ELSE \/ \E p \in Partitions : parts = {p} /\ execs = {} /\ ~InFri(c) /\ prog # c
                        \/ parts = {} /\ execs = {} /\ InFri(c) /\ prog # c
                        \/ parts = {} /\ execs = {} /\ ~InFri(c) /\ prog = c
                        \/ \E s \in Slots : parts = {} /\ execs = {s} /\ ~InFri(c) /\ prog # c
    <3> DEFINE parts == {p \in Partitions : Queued(c, p)}
               execs == {s \in Slots : Executing(c, s)}
    <3>1. /\ \A p \in parts : c \in waiting /\ req[c].slot = None /\ p = PartOfTask[req[c].hw_task]
          /\ InFri(c) => c \in waiting /\ req[c].slot \in Slots /\ slot[req[c].slot].state = "RSRV"
          /\ prog = c => c \in waiting /\ req[c].slot \in Slots /\ slot[req[c].slot].state = "RCFG"
          /\ \A s \in execs : c \in waiting /\ req[c].slot = s /\ slot[s].state = "EXEC"
      BY <2>1, <2>2 DEF PartQueuesOK, FriQueueOK, DevcfgOK, ExecOK, Queued, InFri, Executing
    <3>2. CASE c \notin waiting
      BY <3>1, <3>2
    <3>3. CASE c \in waiting /\ req[c].slot = None
      <4>1. PartOfTask[req[c].hw_task] \in parts
        BY <2>1, <3>3, ConstantsAssumption DEF WaitingOK, Queued
      <4>2. execs \subseteq Slots /\ PartOfTask[req[c].hw_task] \in Partitions
        BY <4>1
      <4> HIDE DEF execs, parts
      <4>3. parts = {PartOfTask[req[c].hw_task]}
        BY <3>1, <4>1
      <4>4. execs = {}
        BY <2>2, <3>1, <3>3, <4>2
      <4>5. ~InFri(c) /\ prog # c
        BY <2>2, <3>1, <3>3
      <4> QED BY <3>3, <4>2, <4>3, <4>4, <4>5 DEF execs, parts
    <3>4. CASE c \in waiting /\ req[c].slot # None
      <4>1. req[c].slot \in Slots
        BY <3>4, SchedInvParts DEF AccelReq
      <4>2. \/ slot[req[c].slot].state = "RSRV" /\ InFri(c)
            \/ slot[req[c].slot].state = "RCFG" /\ prog = c
            \/ slot[req[c].slot].state = "EXEC" /\ req[c].slot \in execs
        BY <2>1, <3>4, <4>1 DEF WaitingOK, InFri, Executing
      <4> HIDE DEF parts, execs
      <4>3. parts = {}
        BY <3>1, <3>4
      <4>4. CASE slot[req[c].slot].state = "RSRV" /\ InFri(c)
        <5>1. execs = {} /\ prog # c
          BY <3>1, <4>4
        <5> QED BY <3>4, <4>3, <4>4, <5>1 DEF parts, execs
      <4>5. CASE slot[req[c].slot].state = "RCFG" /\ prog = c
        <5>1. execs = {} /\ ~InFri(c)
          BY <3>1, <4>5
        <5> QED BY <3>4, <4>3, <4>5, <5>1 DEF parts, execs
      <4>6. CASE slot[req[c].slot].state = "EXEC" /\ req[c].slot \in execs
        <5>1. execs = {req[c].slot} /\ ~InFri(c) /\ prog # c
          BY <3>1, <4>6
        <5> QED BY <3>4, <4>1, <4>3, <5>1 DEF parts, execs
      <4> QED BY <4>2, <4>4, <4>5, <4>6
    <3> QED BY <3>2, <3>3, <3>4
  <2> QED BY <2>1, <2>3 DEF OnePlace, PartQueuesOK, FriQueueOK
<1> QED BY <1>1, Consistency, PTL

\* No slot is given to two requests, and a slot that is not free belongs to
\* the request its state says.
THEOREM SlotOwnership ==
  ASSUME ~Overlap
  PROVE  Spec => []SlotsOwned
<1>1. SchedInv => SlotsOwned
  <2> SUFFICES ASSUME SchedInv, NEW s \in Slots
               PROVE  LET owners == {c \in waiting : req[c].slot = s}
                      IN  IF IsAvailable(s) THEN owners = {}
                          ELSE \E c \in waiting :
                                 /\ owners = {c}
                                 /\ PartOfTask[req[c].hw_task] = PartOfSlot[s]
                                 /\ slot[s].state = "RSRV" => InFri(c)
                                 /\ slot[s].state = "RCFG" => prog = c
                                 /\ slot[s].state = "EXEC" => slot[s].exec_req = c
    BY DEF SlotsOwned
  <2>1. /\ WaitingOK(slot, prog, fri, partQ, req, waiting)
        /\ OwnersOK(slot, req, waiting)
    BY DEF SchedInv, Consistent
  <2>2. CASE IsAvailable(s)
    BY <2>1, <2>2 DEF WaitingOK, IsAvailable
  <2>3. CASE ~IsAvailable(s)
    <3>1. PICK c \in waiting : req[c].slot = s
      BY <2>1, <2>3 DEF OwnersOK, IsAvailable
    <3>2. {d \in waiting : req[d].slot = s} = {c}
      BY <2>1, <3>1 DEF OwnersOK
    <3>3. /\ PartOfTask[req[c].hw_task] = PartOfSlot[s]
          /\ slot[s].state = "RSRV" => InFri(c)
          /\ slot[s].state = "RCFG" => prog = c
          /\ slot[s].state = "EXEC" => slot[s].exec_req = c
      BY <2>1, <3>1 DEF WaitingOK, InFri
    <3> QED BY <2>3, <3>1, <3>2, <3>3
  <2> QED BY <2>2, <2>3
<1> QED BY <1>1, Consistency, PTL

\* Accelerators run only on coupled slots that hold their hardware task, and
\* no slot is connected while it is reconfigured.
THEOREM AcceleratorMatchesRequest ==
  ASSUME ~Overlap
  PROVE  Spec => []RightAccelerator
<1>1. SchedInv => RightAccelerator
  <2> SUFFICES ASSUME SchedInv PROVE RightAccelerator
    OBVIOUS
  <2>1. /\ FriQueueOK(slot, fri, req, waiting)
        /\ DevcfgOK(slot, prog, req, waiting)
        /\ ExecOK(slot, timer, req, waiting)
        /\ WaitingOK(slot, prog, fri, partQ, req, waiting)
        /\ OwnersOK(slot, req, waiting)
    BY DEF SchedInv, Consistent
  <2>2. None \notin Clients /\ waiting \subseteq Clients
    BY ConstantsAssumption, SchedInvParts
  <2>3. \A s \in Slots : slot[s].state = "RCFG" => ~slot[s].coupled
    BY <2>1, <2>2 DEF OwnersOK, WaitingOK, DevcfgOK
  <2>4. \A s \in Slots : slot[s].state = "EXEC" =>
          slot[s].coupled /\ slot[s].hw_task = req[slot[s].exec_req].hw_task
    BY <2>1 DEF ExecOK
  <2>5. \A c \in waiting : InFri(c) /\ req[c].skip_rcfg =>
          slot[req[c].slot].coupled /\ slot[req[c].slot].hw_task = req[c].hw_task
    BY <2>1 DEF FriQueueOK, InFri
  <2> QED BY <2>3, <2>4, <2>5 DEF RightAccelerator
<1> QED BY <1>1, Consistency, PTL

\* No request waits while its partition has a free slot or while the
\* reconfiguration device is idle.
THEOREM NoIdleResource ==
  ASSUME ~Overlap
  PROVE  Spec => []WorkConserving
<1>1. SchedInv => WorkConserving
  BY DEF SchedInv
<1> QED BY <1>1, Consistency, PTL

\* The FRI queue is in the order the requests were issued.
THEOREM FriQueueOrder ==
  ASSUME ~Overlap
  PROVE  Spec => []FriInIssueOrder
<1>1. SchedInv => FriInIssueOrder
  BY DEF SchedInv, Consistent, InIssueOrder, FriInIssueOrder
<1> QED BY <1>1, Consistency, PTL

\* A slot executes exactly while its watchdog runs for the same request.
THEOREM WatchdogCoversExecution ==
  ASSUME ~Overlap
  PROVE  Spec => []WatchdogGuardsExecution
<1>1. SchedInv => WatchdogGuardsExecution
  BY DEF SchedInv, Consistent, ExecOK, WatchdogGuardsExecution
<1> QED BY <1>1, Consistency, PTL

-----------------------------------------------------------------------------
(* Action properties.                                                      *)

\* The steps that neither take a new request nor pull one give no slot away.
LEMMA RequestsUnchanged ==
  ASSUME SchedInv,
         \/ RcfgComplete
         \/ EpollWait
         \/ \E s \in Slots : AcceleratorDone(s)
         \/ \E s \in Slots : TimerExpires(s)
         \/ RcfgDone
         \/ UNCHANGED vars
  PROVE  req' = req /\ waiting' = waiting /\ banned' = banned
BY DEF RcfgComplete, Stop, EpollWait, AcceleratorDone, TimerExpires, RcfgDone, vars

\* pull_req_partition_queue_ serves the oldest request of the partition.
LEMMA PullIsFifo ==
  ASSUME SchedInv, NEW r \in Clients, req[r].hw_task \in HwTasks,
         NEW s, NEW sl, NEW tm,
         PullReqPartitionQueue(r, s, sl, tm),
         NEW c \in Clients, NEW d \in Clients, NEW p \in Partitions,
         req'[c].slot # None, req[c].slot = None,
         Queued(d, p), Queued(d, p)',
         p = PartOfTask[req'[c].hw_task]
  PROVE  c \in req[d].older
<1> DEFINE k == PartOfTask[req[r].hw_task]
           b == Head(partQ[k])
<1>1. /\ partQ \in [Partitions -> Seq(Clients)]
      /\ req \in [Clients -> AccelReq]
      /\ PartQueuesOK(partQ, req, waiting)
      /\ k \in Partitions
      /\ IsInjective(partQ[k])
      /\ InIssueOrder(partQ[k], req)
  BY SchedInvParts, ConstantsAssumption DEF Consistent, PartQueuesOK
<1>2. partQ[k] # << >>
  BY DEF PullReqPartitionQueue
<1>3. partQ' = [partQ EXCEPT ![k] = Tail(@)] /\ req' = [req EXCEPT ![b].slot = s]
  BY <1>2 DEF PullReqPartitionQueue
<1>4. /\ b \in ToSet(partQ[k])
      /\ b \in Clients
      /\ \A e \in ToSet(Tail(partQ[k])) : b \in req[e].older
  BY <1>1, <1>2, TailElements
<1>5. PartOfTask[req[b].hw_task] = k
  BY <1>1, <1>4 DEF PartQueuesOK
<1> HIDE DEF b, k
<1>6. c = b
  BY <1>1, <1>3
<1>7. req'[c].hw_task = req[b].hw_task
  <2>1. req[b] \in AccelReq
    BY <1>1, <1>4
  <2>2. req'[b] = [req[b] EXCEPT !.slot = s]
    BY <1>1, <1>3, <1>4
  <2> QED BY <1>6, <2>1, <2>2 DEF AccelReq
<1>8. d \in ToSet(Tail(partQ[k]))
  <2>1. p = k
    BY <1>5, <1>7
  <2>2. partQ'[k] = Tail(partQ[k])
    BY <1>1, <1>3
  <2>3. d \in ToSet(partQ'[p])
    BY DEF Queued, ToSet
  <2> QED BY <2>1, <2>2, <2>3
<1> QED BY <1>4, <1>6, <1>8

\* A new request finds a free slot only in a partition without a queue.
LEMMA PushFindsNoQueue ==
  ASSUME SchedInv, NEW a \in Clients, NEW h \in HwTasks, PushAccelReq(a, h),
         NEW c \in Clients, NEW d \in Clients, NEW p \in Partitions,
         req'[c].slot # None, c \in waiting => req[c].slot = None, c \in waiting',
         Queued(d, p), p = PartOfTask[req'[c].hw_task]
  PROVE  FALSE
<1> DEFINE rq == Stamped(a, h)
<1>1. /\ rq \in [Clients -> AccelReq]
      /\ rq[a].hw_task = h
      /\ rq[a].slot = None
      /\ \A e \in Clients \ {a} : rq[e].slot = req[e].slot
  BY SchedInvParts, StampedRequests
<1> HIDE DEF rq
<1>2. waiting' = waiting \cup {a} /\ a \notin waiting
  BY DEF PushAccelReq
<1>3. c # a => c \in waiting /\ rq[c].slot = None
  BY <1>1, <1>2
<1>4. CASE req' = rq
  BY <1>1, <1>3, <1>4
<1>5. ASSUME NEW s \in Slots, SearchSlot(s, h), NEW b,
             req' = [rq EXCEPT ![a].slot = s, ![a].skip_rcfg = b]
      PROVE  FALSE
  <2>1. c = a
    BY <1>1, <1>3, <1>5
  <2>2. req'[a].hw_task = h
    <3>1. rq[a] \in AccelReq
      BY <1>1
    <3>2. req'[a] = [rq[a] EXCEPT !.slot = s, !.skip_rcfg = b]
      BY <1>1, <1>5
    <3> QED BY <1>1, <3>1, <3>2 DEF AccelReq
  <2>3. PartOfSlot[s] = p /\ slot[s].state \in {"IDLE", "BLANK"}
    BY <1>5, <2>1, <2>2, FreeSlots DEF SearchSlot
  <2>4. partQ[p] # << >>
    BY DEF Queued, ToSet
  <2> QED BY <2>3, <2>4, SchedInvParts
<1> QED BY <1>4, <1>5 DEF PushAccelReq, rq

\* New requests do not overtake those waiting for a slot of the partition, and
\* these are served oldest first.
THEOREM FifoPartitions ==
  ASSUME ~Overlap
  PROVE  Spec => FifoAdmission
<1> DEFINE Fifo ==
      \A c, d \in Clients :
         GetsSlot(c) /\ (\E p \in Partitions : Queued(d, p) /\ Queued(d, p)'
                            /\ p = PartOfTask[req'[c].hw_task])
           => c \in req[d].older
<1>1. SchedInv /\ [Next]_vars => [Fifo]_vars
  <2> SUFFICES ASSUME SchedInv, Next,
                      NEW c \in Clients, NEW d \in Clients, NEW p \in Partitions,
                      GetsSlot(c), Queued(d, p), Queued(d, p)',
                      p = PartOfTask[req'[c].hw_task]
               PROVE  c \in req[d].older
    OBVIOUS
  <2>1. c \in waiting' /\ req'[c].slot # None /\ (c \in waiting => req[c].slot = None)
    BY DEF GetsSlot
  <2>2. CASE \E a \in Clients, h \in HwTasks : PushAccelReq(a, h)
    BY <2>1, <2>2, PushFindsNoQueue
  <2>3. ASSUME NEW e \in Slots, SlotComplete(e)
        PROVE  c \in req[d].older
    <3>1. slot[e].state = "EXEC"
      BY <2>3 DEF SlotComplete, SchedInv, EventsOK
    <3> DEFINE r == slot[e].exec_req
    <3>2. r \in Clients /\ req[r].hw_task \in HwTasks /\ req[r].slot = e
      BY <3>1, ExecutingSlot
    <3>3. \/ req' = req /\ waiting' = waiting
          \/ /\ waiting' = waiting \ {r}
             /\ \E sl, tm : PullReqPartitionQueue(r, e, sl, tm)
      BY <2>3, <3>2 DEF SlotComplete, Stop
    <3> QED BY <2>1, <3>2, <3>3, PullIsFifo
  <2>4. ASSUME NEW e \in Slots, SlotTimeout(e)
        PROVE  c \in req[d].older
    <3>1. slot[e].state = "EXEC"
      BY <2>4 DEF SlotTimeout, SchedInv, EventsOK, Consistent, ExecOK
    <3> DEFINE r == timer[e].exec_req
    <3>2. r \in Clients /\ req[r].hw_task \in HwTasks /\ req[r].slot = e
      BY <3>1, ExecutingSlot
    <3>3. \/ req' = req /\ waiting' = waiting
          \/ /\ waiting' = waiting \ {r}
             /\ \E sl, tm : PullReqPartitionQueue(r, e, sl, tm)
      BY <2>4, <3>2 DEF SlotTimeout, Stop
    <3> QED BY <2>1, <3>2, <3>3, PullIsFifo
  <2>5. CASE \/ RcfgComplete
             \/ EpollWait
             \/ \E s \in Slots : AcceleratorDone(s)
             \/ \E s \in Slots : TimerExpires(s)
             \/ RcfgDone
             \/ UNCHANGED vars
    BY <2>1, <2>5, RequestsUnchanged
  <2> QED BY <2>2, <2>3, <2>4, <2>5 DEF Next
<1> QED BY <1>1, Consistency, PTL DEF Spec, FifoAdmission

\* A hardware task is banned only for an overrun of the slot that executes it,
\* together with the answer, and for good.
THEOREM BanOnlyForOverrun ==
  ASSUME ~Overlap
  PROVE  Spec => BannedForOverrun
<1> DEFINE Ban == /\ banned \subseteq banned'
                  /\ \A h \in banned' \ banned : \E s \in Slots :
                       /\ timer[s].state = "expired"
                       /\ slot[s].hw_task = h
                       /\ slot[s].exec_req \in waiting \ waiting'
                       /\ slot'[s].state # "EXEC"
<1>1. SchedInv /\ [Next]_vars => [Ban]_vars
  <2> SUFFICES ASSUME SchedInv, Next PROVE Ban
    OBVIOUS
  <2>1. CASE \/ \E a \in Clients, h \in HwTasks : PushAccelReq(a, h)
             \/ \E s \in Slots : SlotComplete(s)
    BY <2>1 DEF PushAccelReq, SlotComplete, Stop
  <2>2. CASE \E s \in Slots : SlotTimeout(s)
    <3>1. PICK e \in Slots : SlotTimeout(e)
      BY <2>2
    <3>2. timer[e].state = "expired" /\ slot[e].state = "EXEC"
      BY <3>1 DEF SlotTimeout, SchedInv, EventsOK, Consistent, ExecOK
    <3> DEFINE r == timer[e].exec_req
    <3>3. /\ r = slot[e].exec_req
          /\ r \in waiting
          /\ req[r].slot = e
          /\ req[r].hw_task = slot[e].hw_task
          /\ req[r].hw_task \in HwTasks
          /\ r \in Clients
      BY <3>2, ExecutingSlot DEF SchedInv, Consistent, ExecOK
    <3>4. CASE banned' = banned
      BY <3>4
    <3>5. CASE /\ banned' = banned \cup {req[r].hw_task}
               /\ waiting' = waiting \ {r}
               /\ PullReqPartitionQueue(r, e, [slot EXCEPT ![e] = Disabled(@)],
                                              [timer EXCEPT ![e].state = "disarmed"])
      <4>1. slot'[e].state # "EXEC"
        BY <3>1, <3>3, <3>5, SlotTimeoutInv
      <4> QED BY <3>2, <3>3, <3>5, <4>1
    <3> QED BY <3>1, <3>3, <3>4, <3>5 DEF SlotTimeout, Stop
  <2>3. CASE \/ RcfgComplete
             \/ EpollWait
             \/ \E s \in Slots : AcceleratorDone(s)
             \/ \E s \in Slots : TimerExpires(s)
             \/ RcfgDone
             \/ UNCHANGED vars
    BY <2>3, RequestsUnchanged
  <2> QED BY <2>1, <2>2, <2>3 DEF Next
<1> QED BY <1>1, Consistency, PTL DEF Spec, BannedForOverrun

-----------------------------------------------------------------------------
(* The service.                                                            *)

\* A waiting request is as far as the state of its slot says.
Staged ==
    /\ \A c \in Clients \ waiting : stage[c] = "idle" /\ task[c] = None /\ place[c] = None
    /\ \A c \in waiting :
         /\ task[c] = req[c].hw_task /\ task[c] \in HwTasks /\ place[c] = req[c].slot
         /\ place[c] = None => stage[c] = "queued"
         /\ place[c] # None =>
              /\ place[c] \in Slots
              /\ \/ stage[c] = "granted" /\ slot[place[c]].state = "RSRV"
                 \/ stage[c] = "configuring" /\ slot[place[c]].state = "RCFG"
                 \/ stage[c] = "executing" /\ slot[place[c]].state = "EXEC"
    /\ \A s \in Slots : loaded[s] = IF slot[s].coupled THEN slot[s].hw_task ELSE None

LEMMA StageOfRequest == SchedInv => Staged
<1> SUFFICES ASSUME SchedInv PROVE Staged
  OBVIOUS
<1>1. /\ req \in [Clients -> AccelReq] /\ waiting \subseteq Clients
      /\ WaitingOK(slot, prog, fri, partQ, req, waiting)
  BY SchedInvParts DEF Consistent
<1>2. ASSUME NEW c \in Clients \ waiting
      PROVE  stage[c] = "idle" /\ task[c] = None /\ place[c] = None
  BY DEF stage, task, place
<1>3. ASSUME NEW c \in waiting
      PROVE  /\ task[c] = req[c].hw_task /\ task[c] \in HwTasks /\ place[c] = req[c].slot
             /\ place[c] = None => stage[c] = "queued"
             /\ place[c] # None =>
                  /\ place[c] \in Slots
                  /\ \/ stage[c] = "granted" /\ slot[place[c]].state = "RSRV"
                     \/ stage[c] = "configuring" /\ slot[place[c]].state = "RCFG"
                     \/ stage[c] = "executing" /\ slot[place[c]].state = "EXEC"
  <2>1. c \in Clients /\ task[c] = req[c].hw_task /\ place[c] = req[c].slot
    BY <1>1 DEF task, place
  <2>2. req[c].slot \in Slots \cup {None}
    BY <1>1, <2>1 DEF AccelReq
  <2>3. req[c].hw_task \in HwTasks
    BY <1>1 DEF WaitingOK
  <2>4. req[c].slot # None => slot[req[c].slot].state \in {"RSRV", "RCFG", "EXEC"}
    BY <1>1, <2>2 DEF WaitingOK
  <2>5. stage[c] = IF req[c].slot = None THEN "queued"
                   ELSE IF slot[req[c].slot].state = "RSRV" THEN "granted"
                   ELSE IF slot[req[c].slot].state = "RCFG" THEN "configuring"
                   ELSE "executing"
    BY <2>1 DEF stage
  <2> QED BY <2>1, <2>2, <2>3, <2>4, <2>5
<1>4. \A s \in Slots : loaded[s] = IF slot[s].coupled THEN slot[s].hw_task ELSE None
  BY DEF loaded
<1> QED BY <1>2, <1>3, <1>4 DEF Staged

\* Between two steps the requests are served in order.
LEMMA ServiceOrderly == SchedInv => Service!Orderly
<1> SUFFICES ASSUME SchedInv PROVE Service!Orderly
  OBVIOUS
<1>1. /\ req \in [Clients -> AccelReq] /\ slot \in [Slots -> Slot]
      /\ partQ \in [Partitions -> Seq(Clients)] /\ waiting \subseteq Clients
      /\ PartQueuesOK(partQ, req, waiting) /\ FriQueueOK(slot, fri, req, waiting)
      /\ DevcfgOK(slot, prog, req, waiting) /\ ExecOK(slot, timer, req, waiting)
      /\ WaitingOK(slot, prog, fri, partQ, req, waiting) /\ OwnersOK(slot, req, waiting)
      /\ prog = None => fri = << >>
      /\ \A t \in Slots : partQ[PartOfSlot[t]] # << >>
                             => slot[t].state \notin {"IDLE", "BLANK"}
  BY SchedInvParts DEF Consistent
<1>2. Staged
  BY StageOfRequest
<1>3. None \notin Clients \cup HwTasks \cup Slots
  BY ConstantsAssumption
<1>4. ASSUME NEW c \in Clients
      PROVE /\ stage[c] \in Service!Stages
            /\ stage[c] = "idle" => task[c] = None
            /\ stage[c] # "idle" => task[c] \in HwTasks
            /\ stage[c] \notin Service!Holding => place[c] = None
            /\ stage[c] \in Service!Holding =>
                 /\ place[c] \in Slots
                 /\ PartOfSlot[place[c]] = PartOfTask[task[c]]
  <2>1. CASE c \notin waiting
    BY <1>2, <2>1 DEF Staged, Service!Stages, Service!Holding
  <2>2. CASE c \in waiting
    <3>1. place[c] \in Slots => PartOfSlot[place[c]] = PartOfTask[task[c]]
      BY <1>1, <1>2, <2>2 DEF Staged, WaitingOK
    <3> QED BY <1>2, <2>2, <3>1 DEF Staged, Service!Stages, Service!Holding
  <2> QED BY <2>1, <2>2
<1>5. ASSUME NEW c \in Clients
      PROVE /\ stage[c] = "configuring" => loaded[place[c]] = None
            /\ stage[c] = "executing" => loaded[place[c]] = task[c]
  <2>1. ASSUME stage[c] = "configuring" PROVE loaded[place[c]] = None
    <3>1. c \in waiting /\ place[c] \in Slots /\ slot[place[c]].state = "RCFG" /\ place[c] = req[c].slot
      BY <1>2, <2>1 DEF Staged
    <3>2. prog = c /\ c # None
      BY <1>1, <1>3, <3>1 DEF WaitingOK
    <3>3. ~slot[place[c]].coupled
      BY <1>1, <3>1, <3>2 DEF DevcfgOK
    <3> QED BY <1>2, <3>1, <3>3 DEF Staged
  <2>2. ASSUME stage[c] = "executing" PROVE loaded[place[c]] = task[c]
    <3>1. /\ c \in waiting /\ place[c] \in Slots /\ slot[place[c]].state = "EXEC"
          /\ place[c] = req[c].slot /\ task[c] = req[c].hw_task
      BY <1>2, <2>2 DEF Staged
    <3>2. slot[place[c]].exec_req = c
      BY <1>1, <3>1 DEF WaitingOK
    <3>3. slot[place[c]].coupled /\ slot[place[c]].hw_task = task[c]
      BY <1>1, <3>1, <3>2 DEF ExecOK
    <3> QED BY <1>2, <3>1, <3>3 DEF Staged
  <2> QED BY <2>1, <2>2
<1>6. ASSUME NEW c \in Clients, NEW p \in Partitions
      PROVE c \in ToSet(partQ[p]) <=> stage[c] = "queued" /\ PartOfTask[task[c]] = p
  <2>1. ASSUME c \in ToSet(partQ[p]) PROVE stage[c] = "queued" /\ PartOfTask[task[c]] = p
    <3>1. c \in waiting /\ req[c].slot = None /\ PartOfTask[req[c].hw_task] = p
      BY <1>1, <2>1 DEF PartQueuesOK
    <3> QED BY <1>2, <3>1 DEF Staged
  <2>2. ASSUME stage[c] = "queued", PartOfTask[task[c]] = p PROVE c \in ToSet(partQ[p])
    <3>1. c \in waiting /\ req[c].slot = None /\ PartOfTask[req[c].hw_task] = p
      BY <1>2, <2>2 DEF Staged
    <3> QED BY <1>1, <3>1 DEF WaitingOK
  <2> QED BY <2>1, <2>2
<1>7. ASSUME NEW c \in Clients, NEW d \in Clients
      PROVE /\ place[c] = place[d] /\ place[c] # None => c = d
            /\ stage[c] = "configuring" /\ stage[d] = "configuring" => c = d
  <2>1. ASSUME place[c] = place[d], place[c] # None PROVE c = d
    <3>1. /\ c \in waiting /\ d \in waiting /\ place[c] \in Slots
          /\ place[c] = req[c].slot /\ place[d] = req[d].slot
      BY <1>2, <2>1 DEF Staged
    <3> QED BY <1>1, <2>1, <3>1 DEF OwnersOK
  <2>2. ASSUME NEW e \in Clients, stage[e] = "configuring" PROVE prog = e
    <3>1. e \in waiting /\ req[e].slot \in Slots /\ slot[req[e].slot].state = "RCFG"
      BY <1>2, <2>2 DEF Staged
    <3> QED BY <1>1, <3>1 DEF WaitingOK
  <2> QED BY <2>1, <2>2
<1>8. (\E c \in Clients : stage[c] = "granted") => \E c \in Clients : stage[c] = "configuring"
  <2> SUFFICES ASSUME NEW c \in Clients, stage[c] = "granted"
               PROVE  \E d \in Clients : stage[d] = "configuring"
    OBVIOUS
  <2>1. c \in waiting /\ req[c].slot \in Slots /\ slot[req[c].slot].state = "RSRV"
    BY <1>2 DEF Staged
  <2>2. c \in ToSet(fri)
    BY <1>1, <2>1 DEF WaitingOK
  <2>3. prog # None
    BY <1>1, <2>2 DEF ToSet
  <2>4. prog \in waiting /\ req[prog].slot \in Slots /\ slot[req[prog].slot].state = "RCFG"
    BY <1>1, <2>3 DEF DevcfgOK
  <2>5. prog \in Clients /\ stage[prog] = "configuring"
    BY <1>1, <1>2, <1>3, <2>4 DEF Staged
  <2> QED BY <2>5
<1>9. ASSUME NEW p \in Partitions, NEW s \in Slots, partQ[p] # << >>, PartOfSlot[s] = p
      PROVE  \E c \in Clients : place[c] = s
  <2>1. slot[s].state \notin {"IDLE", "BLANK"}
    BY <1>1, <1>9
  <2>2. PICK c \in waiting : req[c].slot = s
    BY <1>1, <2>1 DEF OwnersOK
  <2> QED BY <1>1, <1>2, <2>2 DEF Staged
<1>10. \A c \in Clients :
         /\ stage[c] \in Service!Stages
         /\ stage[c] = "idle" => task[c] = None
         /\ stage[c] # "idle" => task[c] \in HwTasks
         /\ stage[c] \notin Service!Holding => place[c] = None
         /\ stage[c] \in Service!Holding =>
              /\ place[c] \in Slots
              /\ PartOfSlot[place[c]] = PartOfTask[task[c]]
         /\ stage[c] = "configuring" => loaded[place[c]] = None
         /\ stage[c] = "executing" => loaded[place[c]] = task[c]
         /\ \A p \in Partitions :
              c \in Service!ToSet(partQ[p]) <=> stage[c] = "queued" /\ PartOfTask[task[c]] = p
  <2>1. \A q : Service!ToSet(q) = ToSet(q)
    BY DEF ToSet, Service!ToSet
  <2> QED BY <1>4, <1>5, <1>6, <2>1
<1>11. \A p \in Partitions, s \in Slots :
         partQ[p] # << >> /\ PartOfSlot[s] = p => \E c \in Clients : place[c] = s
  BY <1>9
<1> QED BY <1>7, <1>8, <1>10, <1>11, Zenon DEF Service!Orderly

LEMMA ServiceStarts == Init => Service!Init
<1> SUFFICES ASSUME Init PROVE Service!Init
  OBVIOUS
<1>1. waiting = {} /\ \A s \in Slots : slot[s].hw_task = None
  BY DEF Init
<1>2. /\ stage = [c \in Clients |-> "idle"]
      /\ task = [c \in Clients |-> None]
      /\ place = [c \in Clients |-> None]
      /\ loaded = [s \in Slots |-> None]
  BY <1>1 DEF stage, task, place, loaded
<1> QED BY <1>2 DEF Init, Service!Init

\* What every step of the scheduler does, as far as the service can tell.
\* One request comes or goes.
OneMoves ==
    \/ waiting' = waiting
    \/ \E a \in Clients \ waiting : waiting' = waiting \cup {a}
    \/ \E a \in waiting : /\ waiting' = waiting \ {a}
                          /\ req[a].slot \in Slots /\ slot[req[a].slot].state = "EXEC"

\* The others keep their hardware tasks and, once they have one, their slots.
RequestsKept ==
    \A c \in waiting \cap waiting' :
      /\ req'[c].hw_task = req[c].hw_task
      /\ req[c].slot # None => req'[c].slot = req[c].slot

QueuesMove ==
    \A p \in Partitions :
      \/ partQ'[p] = partQ[p]
      \/ \E a \in Clients : a \notin waiting /\ a \in waiting' /\ partQ'[p] = Append(partQ[p], a)
      \/ partQ[p] # << >> /\ partQ'[p] = Tail(partQ[p])

\* A slot comes to offer another hardware task, or none, only by being
\* configured or after an overrun.
OffersKept ==
    \A s \in Slots :
      \/ slot'[s].coupled = slot[s].coupled /\ slot'[s].hw_task = slot[s].hw_task
      \/ slot'[s].state = "RCFG"
      \/ slot[s].state = "RCFG" /\ slot'[s].state = "EXEC"
      \/ ~slot'[s].coupled /\ Leaves(s)

ServiceMoves == OneMoves /\ RequestsKept /\ QueuesMove /\ BusyKept /\ OffersKept

LEMMA MovesServe ==
    ASSUME SchedInv, SchedInv', Staged, Staged', Service!Orderly', ServiceMoves
    PROVE  Service!Next
<1>1. /\ waiting \subseteq Clients /\ waiting' \subseteq Clients
      /\ OwnersOK(slot, req, waiting)
  BY SchedInvParts DEF Consistent, SchedInv, TypeOK
<1>2. /\ \A c, d \in waiting' : req'[c].slot \in Slots /\ req'[c].slot = req'[d].slot => c = d
      /\ \A s \in Slots : slot'[s].state \notin {"IDLE", "BLANK"} => \E c \in waiting' : req'[c].slot = s
      /\ prog' # None => ~slot'[req'[prog'].slot].coupled
      /\ \A s \in Slots : slot'[s].state = "EXEC" =>
            /\ slot'[s].exec_req \in waiting' /\ req'[slot'[s].exec_req].slot = s
            /\ slot'[s].coupled /\ slot'[s].hw_task = req'[slot'[s].exec_req].hw_task
      /\ \A c \in waiting' : req'[c].slot \in Slots /\ slot'[req'[c].slot].state = "RCFG" => prog' = c
  <2>1. (SchedInv')
    OBVIOUS
  <2>2. Consistent(slot, timer, prog, fri, partQ, req, waiting)'
    BY <2>1 DEF SchedInv
  <2> QED BY <2>2 DEF Consistent, OwnersOK, DevcfgOK, ExecOK, WaitingOK
<1>3. None \notin Clients \cup HwTasks \cup Slots
  BY ConstantsAssumption
<1>4. \A c \in Clients : \/ c \in waiting <=> c \in waiting'
                         \/ c \notin waiting /\ c \in waiting'
                         \/ /\ c \in waiting /\ c \notin waiting'
                            /\ req[c].slot \in Slots /\ slot[req[c].slot].state = "EXEC"
  BY DEF ServiceMoves, OneMoves
<1>5. ASSUME NEW c \in Clients
      PROVE  /\ c \notin waiting /\ c \in waiting' => Service!Asks(c)
             /\ c \in waiting /\ c \notin waiting' => Service!Ends(c)
             /\ Service!Asks(c) => c \notin waiting /\ c \in waiting'
             /\ Service!Ends(c) => c \in waiting /\ c \notin waiting'
  BY <1>1, <1>3, <1>4 DEF Staged, Service!Asks, Service!Ends
<1>6. ASSUME NEW c \in Clients
      PROVE  Service!Rests(c) \/ Service!Asks(c) \/ Service!Advances(c) \/ Service!Ends(c)
  <2>1. CASE c \notin waiting /\ c \notin waiting'
    BY <2>1 DEF Staged, Service!Rests
  <2>2. CASE c \in waiting /\ c \in waiting'
    <3>1. place[c] # None => place'[c] = place[c]
      BY <2>2 DEF Staged, ServiceMoves, RequestsKept
    <3>2. task'[c] = task[c]
      BY <2>2 DEF Staged, ServiceMoves, RequestsKept
    <3>3. CASE place[c] = None
      BY <2>2, <3>1, <3>2, <3>3 DEF Staged, Service!Rests, Service!Advances, Service!After, Service!Holding
    <3>4. CASE place[c] # None
      <4>1. /\ place[c] \in Slots /\ place'[c] = place[c] /\ ~Leaves(place[c])
        <5>1. place[c] \in Slots /\ place'[c] = place[c] /\ req[c].slot = place[c]
          BY <2>2, <3>1, <3>4 DEF Staged
        <5>2. \A a \in waiting : req[a].slot = place[c] => a = c
          BY <1>1, <2>2, <5>1 DEF OwnersOK
        <5> QED BY <2>2, <5>1, <5>2 DEF Leaves
      <4>2. \/ stage[c] = "granted" /\ slot[place[c]].state = "RSRV"
            \/ stage[c] = "configuring" /\ slot[place[c]].state = "RCFG"
            \/ stage[c] = "executing" /\ slot[place[c]].state = "EXEC"
        BY <2>2, <3>4 DEF Staged
      <4>3. \/ stage'[c] = "granted" /\ slot'[place[c]].state = "RSRV"
            \/ stage'[c] = "configuring" /\ slot'[place[c]].state = "RCFG"
            \/ stage'[c] = "executing" /\ slot'[place[c]].state = "EXEC"
        BY <2>2, <3>4, <4>1 DEF Staged
      <4>4. stage[c] # "granted" => stage'[c] = stage[c] \/ stage'[c] = "executing"
        BY <4>1, <4>2, <4>3 DEF ServiceMoves, BusyKept
      <4> QED BY <3>2, <4>1, <4>2, <4>3, <4>4
            DEF Service!Rests, Service!Advances, Service!After, Service!Holding
    <3> QED BY <3>3, <3>4
  <2> QED BY <1>4, <1>5, <2>1, <2>2
<1>7. ASSUME NEW c \in Clients, NEW d \in Clients, Service!Asks(c) \/ Service!Ends(c),
             Service!Asks(d) \/ Service!Ends(d)
      PROVE  c = d
  BY <1>5, <1>7 DEF ServiceMoves, OneMoves
<1>8. ASSUME NEW p \in Partitions PROVE Service!LineMoves(p)
  BY <1>5 DEF ServiceMoves, QueuesMove, Service!LineMoves
<1>9. ASSUME NEW s \in Slots PROVE Service!SlotMoves(s)
  <2>0. /\ loaded[s] = IF slot[s].coupled THEN slot[s].hw_task ELSE None
        /\ loaded'[s] = IF slot'[s].coupled THEN slot'[s].hw_task ELSE None
    BY DEF Staged
  <2>1. CASE slot'[s].coupled = slot[s].coupled /\ slot'[s].hw_task = slot[s].hw_task
    BY <2>0, <2>1 DEF Service!SlotMoves
  <2>2. CASE slot'[s].state = "RCFG"
    <3>1. PICK c \in waiting' : req'[c].slot = s
      BY <1>2, <2>2
    <3>2. prog' = c /\ ~slot'[s].coupled
      BY <1>1, <1>2, <1>3, <2>2, <3>1
    <3>3. c \in Clients /\ place'[c] = s /\ stage'[c] = "configuring"
      BY <1>1, <1>3, <2>2, <3>1 DEF Staged
    <3> QED BY <2>0, <3>2, <3>3 DEF Service!SlotMoves
  <2>3. CASE slot[s].state = "RCFG" /\ slot'[s].state = "EXEC"
    <3>1. PICK c \in waiting : req[c].slot = s
      BY <1>1, <2>3 DEF OwnersOK
    <3>2. c \in Clients /\ c \in waiting'
      BY <1>1, <1>4, <2>3, <3>1
    <3>3. req'[c].slot = s /\ req'[c].hw_task = req[c].hw_task
      BY <1>3, <3>1, <3>2 DEF ServiceMoves, RequestsKept
    <3>4. slot'[s].exec_req = c
      BY <1>2, <2>3, <3>2, <3>3
    <3>5. slot'[s].coupled /\ slot'[s].hw_task = req[c].hw_task
      BY <1>2, <2>3, <3>3, <3>4
    <3>6. place[c] = s /\ stage[c] = "configuring" /\ task[c] = req[c].hw_task
      BY <1>3, <2>3, <3>1 DEF Staged
    <3>7. stage'[c] = "executing"
      BY <1>3, <2>3, <3>2, <3>3 DEF Staged
    <3> QED BY <2>0, <3>2, <3>5, <3>6, <3>7 DEF Service!SlotMoves
  <2>4. CASE ~slot'[s].coupled /\ Leaves(s)
    <3>1. PICK a \in waiting : a \notin waiting' /\ req[a].slot = s
      BY <2>4 DEF Leaves
    <3>2. a \in Clients /\ place[a] = s /\ Service!Ends(a)
      BY <1>1, <1>5, <3>1 DEF Staged
    <3> QED BY <2>0, <2>4, <3>2 DEF Service!SlotMoves
  <2> QED BY <2>1, <2>2, <2>3, <2>4 DEF ServiceMoves, OffersKept
<1> QED BY <1>6, <1>7, <1>8, <1>9 DEF Service!Next

-----------------------------------------------------------------------------
(* Each action serves.                                                     *)

\* start_rcfg_ and push_req_fri_queue_ change what a slot offers only by
\* configuring it.
SameOffer(x, y) == y.coupled = x.coupled /\ y.hw_task = x.hw_task

LEMMA StartOffers ==
    ASSUME NEW q, NEW rq, NEW sl \in [Slots -> Slot], NEW tm, StartRcfg(q, rq, sl, tm),
           NEW s \in Slots
    PROVE  SameOffer(sl[s], slot'[s]) \/ slot'[s].state = "RCFG"
<1>1. \/ slot'[s] = sl[s]
      \/ \E c : slot'[s] = Computing(sl[s], c)
      \/ \E h : slot'[s] = Reconfiguring(sl[s], h)
  BY DEF StartRcfg
<1>2. sl[s] \in Slot
  OBVIOUS
<1>3. \A c : SameOffer(sl[s], Computing(sl[s], c))
  BY <1>2 DEF Slot, Computing, SameOffer
<1>4. \A h : Reconfiguring(sl[s], h).state = "RCFG"
  BY <1>2 DEF Slot, Reconfiguring
<1> QED BY <1>1, <1>3, <1>4 DEF SameOffer

LEMMA PushOffers ==
    ASSUME NEW r, NEW rq, NEW sl \in [Slots -> Slot], NEW tm, PushReqFriQueue(r, rq, sl, tm),
           NEW s \in Slots
    PROVE  SameOffer(sl[s], slot'[s]) \/ slot'[s].state = "RCFG"
<1>1. slot' = sl \/ \E q : StartRcfg(q, rq, sl, tm)
  BY DEF PushReqFriQueue
<1> QED BY <1>1, StartOffers DEF SameOffer

\* So does pull_req_partition_queue_, which gives the head of a queue its slot.
LEMMA PullOffers ==
    ASSUME NEW r, NEW s \in Slots, NEW sl \in [Slots -> Slot], NEW tm,
           PullReqPartitionQueue(r, s, sl, tm), NEW t \in Slots
    PROVE  SameOffer(sl[t], slot'[t]) \/ slot'[t].state = "RCFG"
<1>1. CASE slot' = sl
  BY <1>1 DEF SameOffer
<1>2. CASE slot' # sl
  <2> DEFINE sl2 == [sl EXCEPT ![s] = Reserved(@)]
  <2>1. \E c : PushReqFriQueue(c, req', sl2, tm)
    BY <1>2 DEF PullReqPartitionQueue
  <2>2. sl2 \in [Slots -> Slot] /\ SameOffer(sl[t], sl2[t])
    BY ReservedSlot DEF SameOffer
  <2> HIDE DEF sl2
  <2>3. SameOffer(sl2[t], slot'[t]) \/ slot'[t].state = "RCFG"
    BY <2>1, <2>2, PushOffers
  <2> QED BY <2>2, <2>3 DEF SameOffer
<1> QED BY <1>1, <1>2

LEMMA PullQueues ==
    ASSUME SchedInv, NEW r \in Clients, req[r].hw_task \in HwTasks, NEW s \in Slots, NEW sl, NEW tm,
           PullReqPartitionQueue(r, s, sl, tm), waiting' \subseteq waiting
    PROVE  RequestsKept /\ QueuesMove
<1> DEFINE p == PartOfTask[req[r].hw_task]
           c == Head(partQ[p])
<1>1. /\ req \in [Clients -> AccelReq] /\ partQ \in [Partitions -> Seq(Clients)]
      /\ PartQueuesOK(partQ, req, waiting) /\ p \in Partitions /\ waiting \subseteq Clients
  BY SchedInvParts, ConstantsAssumption DEF Consistent
<1>2. CASE partQ[p] = << >>
  <2>1. partQ' = partQ /\ req' = req
    BY <1>2 DEF PullReqPartitionQueue
  <2> QED BY <2>1 DEF RequestsKept, QueuesMove
<1>3. CASE partQ[p] # << >>
  <2>1. partQ' = [partQ EXCEPT ![p] = Tail(@)] /\ req' = [req EXCEPT ![c].slot = s]
    BY <1>3 DEF PullReqPartitionQueue
  <2>2. c \in ToSet(partQ[p])
    BY <1>1, <1>3, HeadTailProperties, TailElements DEF PartQueuesOK
  <2>3. c \in Clients /\ req[c].slot = None
    BY <1>1, <2>2 DEF PartQueuesOK
  <2> HIDE DEF c, p
  <2>4. QueuesMove
    BY <1>1, <1>3, <2>1 DEF QueuesMove
  <2>5. req[c] \in AccelReq /\ \A d \in Clients : d # c => req'[d] = req[d]
    BY <1>1, <2>1, <2>3
  <2>6. req'[c] = [req[c] EXCEPT !.slot = s]
    BY <1>1, <2>1, <2>3
  <2>7. req'[c].hw_task = req[c].hw_task
    BY <2>5, <2>6 DEF AccelReq
  <2> QED BY <1>1, <2>3, <2>4, <2>5, <2>7 DEF RequestsKept
<1> QED BY <1>2, <1>3

\* What SlotComplete and SlotTimeout share, as in AnswerInv.
LEMMA AnswerServes ==
    ASSUME SchedInv, NEW s \in Slots, slot[s].state = "EXEC", BusyKept,
           NEW x \in Slot, SameOffer(slot[s], x) \/ ~x.coupled, NEW tm,
           PullReqPartitionQueue(slot[s].exec_req, s, [slot EXCEPT ![s] = x], tm),
           waiting' = waiting \ {slot[s].exec_req}
    PROVE  ServiceMoves
<1> DEFINE r == slot[s].exec_req
           sl == [slot EXCEPT ![s] = x]
<1>1. /\ r \in waiting /\ r \in Clients /\ req[r].slot = s /\ req[r].hw_task \in HwTasks
      /\ slot \in [Slots -> Slot]
  BY ExecutingSlot, SchedInvParts
<1>2. OneMoves /\ Leaves(s)
  BY <1>1 DEF OneMoves, Leaves
<1>3. RequestsKept /\ QueuesMove
  BY <1>1, PullQueues
<1>4. sl \in [Slots -> Slot] /\ sl[s] = x /\ \A t \in Slots : t # s => sl[t] = slot[t]
  BY <1>1
<1>5. PullReqPartitionQueue(r, s, sl, tm)
  OBVIOUS
<1> HIDE DEF sl
<1>6. \A t \in Slots : SameOffer(sl[t], slot'[t]) \/ slot'[t].state = "RCFG"
  BY <1>4, <1>5, PullOffers
<1>7. ASSUME NEW t \in Slots
      PROVE  \/ SameOffer(slot[t], slot'[t]) \/ slot'[t].state = "RCFG"
             \/ ~slot'[t].coupled /\ Leaves(t)
  <2>1. CASE t = s
    <3>1. SameOffer(x, slot'[s]) \/ slot'[s].state = "RCFG"
      BY <1>4, <1>6 DEF SameOffer
    <3>2. ASSUME SameOffer(x, slot'[s]) PROVE SameOffer(slot[s], slot'[s]) \/ ~slot'[s].coupled
      BY <3>2 DEF SameOffer
    <3>3. \/ SameOffer(slot[s], slot'[s]) \/ slot'[s].state = "RCFG"
          \/ ~slot'[s].coupled /\ Leaves(s)
      BY <1>2, <3>1, <3>2
    <3> QED BY <2>1, <3>3, Zenon
  <2>2. CASE t # s
    BY <1>4, <1>6, <2>2 DEF SameOffer
  <2> QED BY <2>1, <2>2
<1>8. OffersKept
  BY <1>7 DEF OffersKept, SameOffer
<1> QED BY <1>2, <1>3, <1>8 DEF ServiceMoves

LEMMA StoppedServes ==
    ASSUME UNCHANGED <<slot, partQ, req, waiting>>
    PROVE  ServiceMoves
BY DEF ServiceMoves, OneMoves, RequestsKept, QueuesMove, BusyKept, OffersKept

LEMMA SlotCompleteServes ==
    ASSUME SchedInv, NEW e \in Slots, SlotComplete(e)
    PROVE  ServiceMoves
<1> DEFINE r == slot[e].exec_req
           x == Cleared(slot[e])
<1>1. e \in batch.slot /\ slot[e].state = "EXEC" /\ slot \in [Slots -> Slot]
  BY DEF SlotComplete, SchedInv, EventsOK, TypeOK
<1>2. req[r].slot = e
  BY <1>1, ExecutingSlot
<1>3. CASE UNCHANGED <<slot, partQ, req, waiting>>
  BY <1>3, StoppedServes
<1>4. CASE /\ waiting' = waiting \ {r}
           /\ PullReqPartitionQueue(r, e, [slot EXCEPT ![e] = Cleared(@)],
                                          [timer EXCEPT ![e] = Disarmed])
  <2>1. [slot EXCEPT ![e] = Cleared(@)] = [slot EXCEPT ![e] = x]
    BY <1>1
  <2>2. x \in Slot /\ SameOffer(slot[e], x)
    BY <1>1 DEF Slot, SlotStates, Cleared, SameOffer
  <2>3. PullReqPartitionQueue(r, e, [slot EXCEPT ![e] = x], [timer EXCEPT ![e] = Disarmed])
    BY <1>4, <2>1
  <2>4. BusyKept
    BY SlotCompleteInv
  <2> HIDE DEF x
  <2> QED BY <1>1, <1>4, <2>2, <2>3, <2>4, AnswerServes
<1> QED BY <1>2, <1>3, <1>4 DEF SlotComplete, Stop

LEMMA SlotTimeoutServes ==
    ASSUME SchedInv, NEW e \in Slots, SlotTimeout(e)
    PROVE  ServiceMoves
<1> DEFINE r == timer[e].exec_req
           x == Disabled(slot[e])
<1>1. /\ e \in batch.timer /\ slot[e].state = "EXEC" /\ slot \in [Slots -> Slot]
      /\ r = slot[e].exec_req /\ req[r].slot = e
  <2>1. e \in batch.timer /\ slot[e].state = "EXEC" /\ slot \in [Slots -> Slot]
    BY DEF SlotTimeout, SchedInv, EventsOK, Consistent, ExecOK, TypeOK
  <2> QED BY <2>1, ExecutingSlot
<1>2. CASE UNCHANGED <<slot, partQ, req, waiting>>
  BY <1>2, StoppedServes
<1>3. CASE /\ waiting' = waiting \ {r}
           /\ PullReqPartitionQueue(r, e, [slot EXCEPT ![e] = Disabled(@)],
                                          [timer EXCEPT ![e].state = "disarmed"])
  <2>1. [slot EXCEPT ![e] = Disabled(@)] = [slot EXCEPT ![e] = x]
    BY <1>1
  <2>2. x \in Slot /\ ~x.coupled
    BY <1>1 DEF Slot, SlotStates, Disabled
  <2>3. PullReqPartitionQueue(slot[e].exec_req, e, [slot EXCEPT ![e] = x],
                              [timer EXCEPT ![e].state = "disarmed"])
    BY <1>1, <1>3, <2>1
  <2>4. BusyKept
    BY SlotTimeoutInv
  <2>5. waiting' = waiting \ {slot[e].exec_req}
    BY <1>1, <1>3
  <2> HIDE DEF x
  <2> QED BY <1>1, <2>2, <2>3, <2>4, <2>5, AnswerServes
<1> QED BY <1>1, <1>2, <1>3 DEF SlotTimeout, Stop

LEMMA RcfgCompleteServes ==
    ASSUME SchedInv, RcfgComplete
    PROVE  ServiceMoves
<1> DEFINE r == prog
           s == req[r].slot
           x == Computing(Reinit(slot[s]), r)
           sl == [slot EXCEPT ![s] = Computing(Reinit(@), r)]
           tm == [timer EXCEPT ![s] = Armed(r)]
<1>1. CASE UNCHANGED <<slot, partQ, req, waiting>>
  BY <1>1, StoppedServes
<1>2. CASE StartRcfg(fri, req, sl, tm) /\ UNCHANGED <<partQ, req, waiting>>
  <2>1. /\ slot \in [Slots -> Slot] /\ r \in Clients /\ DevcfgOK(slot, prog, req, waiting)
    BY SchedInvParts DEF RcfgComplete, SchedInv, EventsOK, Consistent
  <2>2. s \in Slots /\ slot[s].state = "RCFG" /\ slot[s] \in Slot
    BY <2>1, ConstantsAssumption DEF DevcfgOK
  <2>3. x \in Slot
    BY <2>1, <2>2, ReinitComputingSlot
  <2>4. sl \in [Slots -> Slot] /\ \A t \in Slots : t # s => sl[t] = slot[t]
    BY <2>1, <2>2, <2>3
  <2> HIDE DEF sl, s, x
  <2>5. \A t \in Slots : SameOffer(sl[t], slot'[t]) \/ slot'[t].state = "RCFG"
    BY <1>2, <2>4, StartOffers
  <2>6. BusyKept
    BY RcfgCompleteInv
  <2>7. slot'[s].state \in {"RCFG", "EXEC"}
    <3>1. ~Leaves(s)
      BY <1>2 DEF Leaves
    <3> QED BY <2>2, <2>6, <3>1 DEF BusyKept
  <2>8. OffersKept
    <3> SUFFICES ASSUME NEW t \in Slots
                 PROVE  \/ SameOffer(slot[t], slot'[t])
                        \/ slot'[t].state = "RCFG"
                        \/ slot[t].state = "RCFG" /\ slot'[t].state = "EXEC"
      BY DEF OffersKept, SameOffer
    <3>1. CASE t = s
      BY <2>2, <2>7, <3>1
    <3>2. CASE t # s
      BY <2>4, <2>5, <3>2
    <3> QED BY <3>1, <3>2
  <2> QED BY <1>2, <2>6, <2>8 DEF ServiceMoves, OneMoves, RequestsKept, QueuesMove
<1> QED BY <1>1, <1>2 DEF RcfgComplete, Stop

LEMMA PushAccelReqServes ==
    ASSUME SchedInv, NEW c \in Clients, NEW h \in HwTasks, PushAccelReq(c, h)
    PROVE  ServiceMoves
<1> DEFINE rq == Stamped(c, h)
<1>1. c \notin waiting /\ waiting' = waiting \cup {c} /\ BusyKept /\ OneMoves
  BY PushAccelReqInv DEF PushAccelReq, OneMoves
<1>2. slot \in [Slots -> Slot] /\ partQ \in [Partitions -> Seq(Clients)]
      /\ req \in [Clients -> AccelReq] /\ waiting \subseteq Clients
  BY SchedInvParts
<1>3. /\ rq \in [Clients -> AccelReq]
      /\ \A d \in Clients : d # c => rq[d].hw_task = req[d].hw_task /\ rq[d].slot = req[d].slot
  BY <1>2, StampedRequests
<1> HIDE DEF rq
<1>4. CASE req' = rq /\ slot' = slot /\ partQ' = [partQ EXCEPT ![PartOfTask[h]] = Append(@, c)]
  <2>1. RequestsKept
    BY <1>1, <1>2, <1>3, <1>4 DEF RequestsKept
  <2>2. QueuesMove
    BY <1>1, <1>2, <1>4 DEF QueuesMove
  <2>3. OffersKept
    BY <1>4 DEF OffersKept
  <2> QED BY <1>1, <2>1, <2>2, <2>3 DEF ServiceMoves
<1>5. ASSUME NEW s \in Slots, NEW b,
             req' = [rq EXCEPT ![c].slot = s, ![c].skip_rcfg = b], partQ' = partQ,
             PushReqFriQueue(c, req', [slot EXCEPT ![s] = Reserved(@)], timer)
      PROVE  ServiceMoves
  <2> DEFINE sl2 == [slot EXCEPT ![s] = Reserved(@)]
  <2>1. \A d \in Clients : d # c => req'[d] = rq[d]
    BY <1>3, <1>5
  <2>2. RequestsKept
    BY <1>1, <1>2, <1>3, <2>1 DEF RequestsKept
  <2>3. sl2 \in [Slots -> Slot] /\ \A t \in Slots : SameOffer(slot[t], sl2[t])
    BY <1>2, ReservedSlot DEF SameOffer
  <2>4. PushReqFriQueue(c, req', sl2, timer)
    BY <1>5
  <2> HIDE DEF sl2
  <2>5. \A t \in Slots : SameOffer(sl2[t], slot'[t]) \/ slot'[t].state = "RCFG"
    BY <2>3, <2>4, PushOffers
  <2>6. OffersKept
    BY <2>3, <2>5 DEF OffersKept, SameOffer
  <2> QED BY <1>1, <1>5, <2>2, <2>6 DEF ServiceMoves, QueuesMove
<1> QED BY <1>4, <1>5 DEF PushAccelReq, rq

LEMMA NextServes ==
    ASSUME ~Overlap
    PROVE  SchedInv /\ [Next]_vars => ServiceMoves
<1> SUFFICES ASSUME SchedInv, [Next]_vars PROVE ServiceMoves
  OBVIOUS
<1>1. CASE \/ EpollWait
           \/ \E s \in Slots : AcceleratorDone(s)
           \/ \E s \in Slots : TimerExpires(s)
           \/ RcfgDone
           \/ UNCHANGED vars
  BY <1>1, StoppedServes DEF EpollWait, AcceleratorDone, TimerExpires, RcfgDone, vars
<1> QED BY <1>1, PushAccelReqServes, RcfgCompleteServes, SlotCompleteServes, SlotTimeoutServes
       DEF Next

\* The scheduler implements the service: one request comes or goes in a step, a
\* slot that has been given is kept to the end, computes with what was asked
\* for, and nothing waits for what is free.
THEOREM ServiceImplemented ==
    ASSUME ~Overlap
    PROVE  Spec => ImplementsService
<1>1. Init => Service!Init
  BY ServiceStarts
<1>2. SchedInv /\ SchedInv' /\ [Next]_vars => Service!Next
  <2>1. SchedInv /\ [Next]_vars => ServiceMoves
    BY NextServes
  <2>2. SchedInv' => Staged' /\ Service!Orderly'
    BY StageOfRequest, ServiceOrderly, PTL
  <2> QED BY <2>1, <2>2, StageOfRequest, MovesServe
<1> QED BY <1>1, <1>2, Consistency, PTL DEF Spec, ImplementsService, Service!Spec

=============================================================================
