--------------------------- MODULE BuffCtlProofs ---------------------------
(***************************************************************************)
(* Proofs about BuffCtl, for any clients, any number of buffers of a task,  *)
(* any number of ids, and in every world: what the server holds exists and  *)
(* is held once, although ids come round; nobody uses a buffer or a module  *)
(* that is gone, but for the clients of OpenExists; and orderly clients     *)
(* leave nothing behind.                                                    *)
(***************************************************************************)
EXTENDS BuffCtl, SequenceTheorems, TLAPS

\* The server is idle when it is down, a session has buffers only while it is
\* there, and the head of freeing is looked at only if there is one.
Orderings ==
    /\ server = "down" => \A c \in Clients : conn[c] = "none"
    /\ freeing # << >> => server # "down"
    /\ tested => freeing # << >>
    /\ \A c \in Clients : conn[c] = "none" => ifs[c] = << >>

\* A client in the library whose session was not taken from it knows of buffers
\* of this session only.
KnowsOwn ==
    \A c \in Clients \ dropped : proc[c] = "in" =>
        \A id \in Ids : buff[c][id] # None => id \in ToSet(ifs[c])

\* A buffer that is open is there, and not the one that has been found free.
OpenStays ==
    \A id \in Ids : user[id] # None /\ user[id] \notin dropped =>
        id \in list /\ (tested => id # Head(freeing))

\* The server's account and the kernel's, whatever the clients do.
Account ==
    /\ BuffersOwned /\ RemovedIsEmpty
    /\ module = "removed" => server = "down"
    /\ dropped \subseteq Clients
    /\ Orderings /\ KnowsOwn /\ OpenStays

-----------------------------------------------------------------------------
(* Lemmas about sequences of ids and about ids.                            *)

LEMMA TailElements ==
    ASSUME NEW S, NEW s \in Seq(S), s # << >>
    PROVE  /\ Tail(s) \in Seq(S) /\ Head(s) \in S
           /\ ToSet(s) = {Head(s)} \cup ToSet(Tail(s))
           /\ IsInjective(s) => IsInjective(Tail(s)) /\ Head(s) \notin ToSet(Tail(s))
<1>1. /\ Tail(s) \in Seq(S) /\ Head(s) \in S
      /\ Len(s) \in Nat \ {0} /\ Len(Tail(s)) = Len(s) - 1
      /\ DOMAIN s = 1 .. Len(s) /\ DOMAIN Tail(s) = 1 .. Len(s) - 1
      /\ Head(s) = s[1]
      /\ \A i \in 1 .. Len(s) - 1 : Tail(s)[i] = s[i + 1]
  BY HeadTailProperties, LenProperties, EmptySeq
<1>2. ASSUME NEW i \in 1 .. Len(s), i # 1
      PROVE  i - 1 \in 1 .. Len(s) - 1 /\ Tail(s)[i - 1] = s[i]
  BY <1>1, <1>2
<1>3. ToSet(s) = {Head(s)} \cup ToSet(Tail(s))
  <2>1. ToSet(Tail(s)) \subseteq ToSet(s) /\ Head(s) \in ToSet(s)
    BY <1>1 DEF ToSet
  <2>2. ASSUME NEW x \in ToSet(s) PROVE x = Head(s) \/ x \in ToSet(Tail(s))
    <3>1. PICK i \in 1 .. Len(s) : x = s[i]
      BY <1>1, <2>2 DEF ToSet
    <3> QED BY <1>1, <1>2, <3>1 DEF ToSet
  <2> QED BY <2>1, <2>2
<1>4. IsInjective(s) => IsInjective(Tail(s)) /\ Head(s) \notin ToSet(Tail(s))
  BY <1>1 DEF ToSet, IsInjective
<1> QED BY <1>1, <1>3, <1>4

LEMMA ConcatElements ==
    ASSUME NEW S, NEW s \in Seq(S), NEW t \in Seq(S)
    PROVE  /\ s \o t \in Seq(S) /\ Len(s \o t) = Len(s) + Len(t)
           /\ ToSet(s \o t) = ToSet(s) \cup ToSet(t)
           /\ IsInjective(s) /\ IsInjective(t) /\ ToSet(s) \cap ToSet(t) = {}
                => IsInjective(s \o t)
<1>1. /\ s \o t \in Seq(S) /\ Len(s) \in Nat /\ Len(t) \in Nat
      /\ Len(s \o t) = Len(s) + Len(t)
      /\ DOMAIN s = 1 .. Len(s) /\ DOMAIN t = 1 .. Len(t)
      /\ DOMAIN (s \o t) = 1 .. Len(s) + Len(t)
      /\ \A i \in 1 .. Len(s) + Len(t) :
            (s \o t)[i] = IF i <= Len(s) THEN s[i] ELSE t[i - Len(s)]
  BY ConcatProperties, LenProperties
<1>2. ASSUME NEW j \in 1 .. Len(t)
      PROVE  j + Len(s) \in 1 .. Len(s) + Len(t) /\ (s \o t)[j + Len(s)] = t[j]
  BY <1>1, <1>2
<1>3. ASSUME NEW i \in 1 .. Len(s)
      PROVE  i \in 1 .. Len(s) + Len(t) /\ (s \o t)[i] = s[i]
  BY <1>1, <1>3
<1>4. ASSUME NEW i \in 1 .. Len(s) + Len(t)
      PROVE  \/ i \in 1 .. Len(s) /\ (s \o t)[i] = s[i]
             \/ i - Len(s) \in 1 .. Len(t) /\ (s \o t)[i] = t[i - Len(s)]
  BY <1>1, <1>4
<1>5. ToSet(s \o t) = ToSet(s) \cup ToSet(t)
  BY <1>1, <1>2, <1>3, <1>4 DEF ToSet
<1>6. ASSUME IsInjective(s), IsInjective(t), ToSet(s) \cap ToSet(t) = {},
             NEW i \in 1 .. Len(s) + Len(t), NEW j \in 1 .. Len(s) + Len(t),
             (s \o t)[i] = (s \o t)[j]
      PROVE  i = j
  <2>1. CASE i \in 1 .. Len(s) /\ (s \o t)[i] = s[i]
    <3>1. s[i] \in ToSet(s) /\ s[i] \notin ToSet(t)
      BY <1>1, <1>6, <2>1 DEF ToSet
    <3>2. j \in 1 .. Len(s) /\ (s \o t)[j] = s[j]
      BY <1>1, <1>4, <1>6, <2>1, <3>1 DEF ToSet
    <3> QED BY <1>1, <1>6, <2>1, <3>2 DEF IsInjective
  <2>2. CASE i - Len(s) \in 1 .. Len(t) /\ (s \o t)[i] = t[i - Len(s)]
    <3>1. t[i - Len(s)] \in ToSet(t) /\ t[i - Len(s)] \notin ToSet(s)
      BY <1>1, <1>6, <2>2 DEF ToSet
    <3>2. j - Len(s) \in 1 .. Len(t) /\ (s \o t)[j] = t[j - Len(s)]
      BY <1>1, <1>4, <1>6, <2>2, <3>1 DEF ToSet
    <3>3. i - Len(s) = j - Len(s)
      BY <1>1, <1>6, <2>2, <3>2 DEF IsInjective
    <3> QED BY <1>1, <3>3
  <2> QED BY <1>4, <2>1, <2>2
<1>7. IsInjective(s) /\ IsInjective(t) /\ ToSet(s) \cap ToSet(t) = {}
        => IsInjective(s \o t)
  BY <1>1, <1>6 DEF IsInjective
<1> QED BY <1>1, <1>5, <1>7

LEMMA RowElements ==
    ASSUME NEW n \in 0 .. Buffs, count \in Nat, world \in Worlds
    PROVE  /\ Row(n) \in Seq(Ids) /\ Len(Row(n)) = n
           /\ ToSet(Row(n)) = {NewId(i) : i \in 1 .. n}
           /\ \A m \in Nat : Counted(m) \in Ids
<1> USE ConstantsAssumption DEF World
<1>1. \A a \in Nat : a % world.ids \in Ids
  BY DEF Ids
<1>2. \A i \in 1 .. n : count + i - 1 \in Nat
  OBVIOUS
<1>3. \A i \in 1 .. n : NewId(i) \in Ids
  BY <1>1, <1>2 DEF NewId
<1>4. Row(n) \in Seq(Ids) /\ Len(Row(n)) = n
  BY <1>3 DEF Row
<1>5. ToSet(Row(n)) = {NewId(i) : i \in 1 .. n}
  BY DEF Row, ToSet
<1>6. \A m \in Nat : Counted(m) \in Ids
  BY <1>1 DEF Counted
<1> QED BY <1>4, <1>5, <1>6

-----------------------------------------------------------------------------
(* The account of server and kernel.                                       *)

LEMMA InitAccounts == Init => Account
<1> SUFFICES ASSUME Init PROVE Account
  OBVIOUS
<1> USE ConstantsAssumption DEF Init
<1>1. world \in World
  OBVIOUS
<1>2. TypeOK
  <2>1. world.tasks * Buffs \in Nat /\ 0 \in Ids
    BY <1>1 DEF World, Ids
  <2>2. << >> \in Seq(Ids) /\ Len(<< >>) = 0
    BY EmptySeq
  <2> QED BY <1>1, <2>1, <2>2 DEF TypeOK, NoBuff
<1>3. HeldExists /\ OneOwner /\ RemovedIsEmpty
  BY DEF HeldExists, Held, OneOwner, RemovedIsEmpty, ToSet, IsInjective
<1>4. Orderings /\ KnowsOwn /\ OpenStays
  BY DEF Orderings, KnowsOwn, OpenStays
<1> QED BY <1>2, <1>3, <1>4 DEF Account, BuffersOwned, Init

\* What a BIND leaves: new buffers that nobody had, and either a client that
\* knows them all or one that is going to be detached.
NewBuffers(c, new) ==
    /\ list' = list \cup new
    /\ \A id \in new : id \in Ids \ list /\ user[id] = None
    /\ count' \in Ids
    /\ \/ /\ \E row \in Seq(Ids) :
               /\ ToSet(row) = new /\ IsInjective(row)
               /\ Len(ifs[c]) + Len(row) <= world.tasks * Buffs
               /\ ifs' = [ifs EXCEPT ![c] = @ \o row]
          /\ \E known \in [Ids -> UserBuff \cup {None}] :
               /\ buff' = [buff EXCEPT ![c] = known]
               /\ \A id \in Ids \ new : known[id] = buff[c][id]
          /\ conn' = conn
       \/ /\ conn' = [conn EXCEPT ![c] = "detaching"]
          /\ ifs' = ifs /\ buff' = buff

LEMMA BindAllocates ==
    ASSUME TypeOK, NEW c \in Clients, Bind(c)
    PROVE  \E new \in SUBSET Ids : NewBuffers(c, new)
<1> USE ConstantsAssumption DEF TypeOK
<1>0. world \in World /\ count \in Nat
  BY DEF World, Ids
<1>1. PICK n \in 0 .. Buffs, sent \in BOOLEAN :
        /\ Len(ifs[c]) + Buffs <= world.tasks * Buffs
        /\ Allocates(n)
        /\ count' = Counted(IF n = Buffs THEN n ELSE n + 1)
        /\ list' = list \cup ToSet(Row(n))
        /\ IF n = Buffs /\ sent
           THEN /\ ifs' = [ifs EXCEPT ![c] = @ \o Row(n)]
                /\ \E known \in Sent(buff[c], ToSet(Row(n))) :
                     buff' = [buff EXCEPT ![c] = known]
                /\ UNCHANGED conn
           ELSE /\ conn' = [conn EXCEPT ![c] = "detaching"]
                /\ UNCHANGED <<ifs, buff>>
  BY DEF Bind
<1> DEFINE new == ToSet(Row(n))
<1>2. /\ Row(n) \in Seq(Ids) /\ Len(Row(n)) = n
      /\ new = {NewId(i) : i \in 1 .. n}
      /\ \A m \in Nat : Counted(m) \in Ids
  BY <1>0, RowElements
<1>3. new \subseteq Ids
  BY <1>2, TailElements, LenProperties, ElementOfSeq DEF ToSet
<1>4. \A id \in new : id \in Ids \ list /\ user[id] = None
  BY <1>1, <1>2, <1>3 DEF Allocates, Registered
<1>5. count' \in Ids
  BY <1>1, <1>2
<1>6. IsInjective(Row(n))
  BY <1>1 DEF Allocates
<1>7. CASE n = Buffs /\ sent
  <2>1. \A known \in Sent(buff[c], new) :
          /\ known \in [Ids -> UserBuff \cup {None}]
          /\ \A id \in Ids \ new : known[id] = buff[c][id]
    BY DEF Sent, UserBuff
  <2>2. \E row \in Seq(Ids) :
          /\ ToSet(row) = new /\ IsInjective(row)
          /\ Len(ifs[c]) + Len(row) <= world.tasks * Buffs
          /\ ifs' = [ifs EXCEPT ![c] = @ \o row]
    <3>1. /\ Row(n) \in Seq(Ids)
          /\ ToSet(Row(n)) = new /\ IsInjective(Row(n))
          /\ Len(ifs[c]) + Len(Row(n)) <= world.tasks * Buffs
          /\ ifs' = [ifs EXCEPT ![c] = @ \o Row(n)]
      BY <1>1, <1>2, <1>6, <1>7
    <3> QED BY <3>1, Zenon
  <2>3. \E known \in [Ids -> UserBuff \cup {None}] :
          /\ buff' = [buff EXCEPT ![c] = known]
          /\ \A id \in Ids \ new : known[id] = buff[c][id]
    BY <1>1, <1>7, <2>1
  <2> HIDE DEF new
  <2>4. NewBuffers(c, new)
    BY <1>1, <1>4, <1>5, <1>7, <2>2, <2>3 DEF NewBuffers, new
  <2> QED BY <1>3, <2>4
<1>8. CASE ~(n = Buffs /\ sent)
  BY <1>1, <1>3, <1>4, <1>5, <1>8 DEF NewBuffers
<1> QED BY <1>7, <1>8

\* Steps that leave all lists of ids alone.
LEMMA HeldSame ==
    ASSUME HeldExists, OneOwner, list' = list, ifs' = ifs, freeing' = freeing
    PROVE  HeldExists' /\ OneOwner'
BY DEF HeldExists, Held, OneOwner

LEMMA ServerAccounts ==
    ASSUME Account, world' = world,
           ServerStart \/ Stop \/ ServerExit \/ \E c \in Clients : Connect(c) \/ Drop(c)
    PROVE  Account'
<1> USE ConstantsAssumption DEF Account, BuffersOwned, kernel, idle, clients
<1>1. HeldExists' /\ OneOwner'
  BY HeldSame DEF ServerStart, Stop, ServerExit, Connect, Drop
<1>2. TypeOK'
  <2>1. Ids' = Ids /\ NoBuff \in [Ids -> UserBuff \cup {None}]
    BY DEF Ids, NoBuff
  <2>2. CASE ServerStart \/ Stop \/ ServerExit
    BY <2>1, <2>2 DEF ServerStart, Stop, ServerExit, TypeOK
  <2>3. CASE \E c \in Clients : Connect(c)
    BY <2>1, <2>3 DEF Connect, TypeOK
  <2>4. CASE \E c \in Clients : Drop(c)
    BY <2>1, <2>4 DEF Drop, TypeOK
  <2> QED BY <2>2, <2>3, <2>4
<1>3. Orderings'
  BY DEF ServerStart, Stop, ServerExit, Connect, Drop, Orderings, Serving, TypeOK
<1>4. KnowsOwn'
  <2>1. Ids' = Ids
    BY DEF Ids
  <2>2. CASE ServerStart \/ Stop \/ ServerExit \/ \E c \in Clients : Drop(c)
    BY <2>1, <2>2 DEF ServerStart, Stop, ServerExit, Drop, KnowsOwn
  <2>3. CASE \E c \in Clients : Connect(c)
    BY <2>1, <2>3 DEF Connect, KnowsOwn, NoBuff, TypeOK
  <2> QED BY <2>2, <2>3
<1>5. OpenStays'
  BY DEF ServerStart, Stop, ServerExit, Connect, Drop, OpenStays, Ids
<1>6. RemovedIsEmpty' /\ (module' = "removed" => server' = "down") /\ dropped' \subseteq Clients
  BY DEF ServerStart, Stop, ServerExit, Connect, Drop, RemovedIsEmpty, Serving, Ids
<1> QED BY <1>1, <1>2, <1>3, <1>4, <1>5, <1>6

LEMMA BindAccounts ==
    ASSUME Account, world' = world, NEW c \in Clients, Bind(c)
    PROVE  Account'
<1> USE ConstantsAssumption DEF Account, BuffersOwned
<1>1. PICK new \in SUBSET Ids : NewBuffers(c, new)
  BY BindAllocates
<1>2. /\ Serving /\ conn[c] = "up" /\ proc[c] = "in"
      /\ UNCHANGED <<user, server, module, proc, dropped, freeing, tested>>
  BY DEF Bind, idle
<1>3. ToSet(freeing) = {} /\ new \cap Held = {}
  BY <1>1, <1>2 DEF NewBuffers, HeldExists, Serving, ToSet
<1>4. list \subseteq list' /\ Orderings' /\ OpenStays' /\ RemovedIsEmpty'
      /\ (module' = "removed" => server' = "down") /\ dropped' \subseteq Clients
  <2>1. list \subseteq list' /\ server = "up"
    BY <1>1, <1>2 DEF NewBuffers, Serving
  <2>2. OpenStays' /\ RemovedIsEmpty' /\ dropped' \subseteq Clients
        /\ (module' = "removed" => server' = "down")
    BY <1>2, <2>1 DEF OpenStays, RemovedIsEmpty, Ids
  <2>3. Orderings'
    BY <1>1, <1>2, <2>1 DEF Orderings, NewBuffers, TypeOK, Serving
  <2> QED BY <2>1, <2>2, <2>3
<1>5. CASE ifs' = ifs /\ buff' = buff /\ conn' = [conn EXCEPT ![c] = "detaching"]
  <2>1. HeldExists' /\ OneOwner'
    BY <1>1, <1>2, <1>4, <1>5 DEF HeldExists, OneOwner, Held
  <2>2. TypeOK'
    BY <1>1, <1>2, <1>5 DEF TypeOK, NewBuffers, Ids
  <2>3. KnowsOwn'
    BY <1>2, <1>5 DEF KnowsOwn, Ids
  <2> QED BY <1>4, <2>1, <2>2, <2>3
<1>6. ASSUME NEW row \in Seq(Ids), NEW known \in [Ids -> UserBuff \cup {None}],
             ToSet(row) = new, IsInjective(row),
             Len(ifs[c]) + Len(row) <= world.tasks * Buffs,
             ifs' = [ifs EXCEPT ![c] = @ \o row],
             buff' = [buff EXCEPT ![c] = known],
             \A id \in Ids \ new : known[id] = buff[c][id],
             conn' = conn
      PROVE  Account'
  <2> DEFINE own == ifs[c]
  <2>0. own \in Seq(Ids)
    BY DEF TypeOK
  <2>1. /\ own \o row \in Seq(Ids) /\ Len(own \o row) = Len(own) + Len(row)
        /\ ToSet(own \o row) = ToSet(own) \cup new
        /\ IsInjective(own \o row)
    BY <1>3, <1>6, <2>0, ConcatElements DEF OneOwner, Held
  <2>2. /\ ifs'[c] = own \o row
        /\ \A d \in Clients \ {c} : ifs'[d] = ifs[d]
        /\ ifs' \in [Clients -> Seq(Ids)]
    BY <1>6, <2>1 DEF TypeOK
  <2> HIDE DEF own
  <2>3. HeldExists'
    <3> SUFFICES ASSUME NEW id \in Held' PROVE id \in list'
      BY DEF HeldExists
    <3>1. list' = list \cup new
      BY <1>1 DEF NewBuffers
    <3>2. CASE id \in ToSet(freeing)
      BY <3>1, <3>2 DEF HeldExists, Held
    <3>3. CASE id \in ToSet(ifs'[c])
      BY <2>1, <2>2, <3>1, <3>3 DEF HeldExists, Held, own
    <3>4. ASSUME NEW d \in Clients \ {c}, id \in ToSet(ifs'[d]) PROVE id \in list'
      BY <2>2, <3>1, <3>4 DEF HeldExists, Held
    <3> QED BY <1>2, <3>2, <3>3, <3>4 DEF Held
  <2>4. OneOwner'
    <3>1. \A d \in Clients : ToSet(ifs[d]) \cap new = {}
      BY <1>3 DEF Held
    <3>2. freeing' = freeing /\ ToSet(freeing) = {}
      BY <1>2, <1>3
    <3> QED BY <2>1, <2>2, <3>1, <3>2 DEF OneOwner, own
  <2>5. TypeOK'
    <3>1. \A d \in Clients : Len(ifs'[d]) <= world'.tasks * Buffs
      BY <1>6, <2>1, <2>2 DEF TypeOK, own
    <3> QED BY <1>1, <1>2, <1>6, <2>2, <3>1 DEF TypeOK, NewBuffers, Ids
  <2>6. KnowsOwn'
    BY <1>2, <1>6, <2>1, <2>2 DEF KnowsOwn, TypeOK, own, Ids
  <2> QED BY <1>4, <2>3, <2>4, <2>5, <2>6
<1> QED BY <1>1, <1>5, <1>6 DEF NewBuffers

LEMMA DetachAccounts ==
    ASSUME Account, world' = world, NEW c \in Clients, Detach(c)
    PROVE  Account'
<1> USE ConstantsAssumption DEF Account, BuffersOwned
<1>1. /\ freeing = << >> /\ freeing' = ifs[c] /\ conn[c] # "none"
      /\ server # "down"
      /\ conn' = [conn EXCEPT ![c] = "none"]
      /\ ifs' = [ifs EXCEPT ![c] = << >>]
      /\ dropped' = IF proc[c] = "in" THEN dropped \cup {c} ELSE dropped
      /\ UNCHANGED <<count, list, user, server, module, proc, buff, tested>>
  BY DEF Detach, kernel, Orderings
<1>2. << >> \in Seq(Ids) /\ Len(<< >>) = 0 /\ IsInjective(<< >>) /\ ToSet(<< >>) = {}
  BY EmptySeq DEF IsInjective, ToSet
<1>3. /\ ifs'[c] = << >>
      /\ \A d \in Clients \ {c} : ifs'[d] = ifs[d]
      /\ ifs' \in [Clients -> Seq(Ids)]
  BY <1>1, <1>2 DEF TypeOK
<1>4. HeldExists'
  BY <1>1, <1>2, <1>3 DEF HeldExists, Held
<1>5. OneOwner'
  BY <1>1, <1>2, <1>3 DEF OneOwner
<1>6. TypeOK'
  <2>1. \A d \in Clients : Len(ifs'[d]) <= world'.tasks * Buffs
    <3> DEFINE most == world.tasks * Buffs
    <3>1. most \in Nat /\ \A d \in Clients : Len(ifs[d]) <= most
      BY DEF TypeOK, World
    <3> HIDE DEF most
    <3>2. \A d \in Clients : Len(ifs'[d]) <= most
      BY <1>2, <1>3, <3>1
    <3> QED BY <3>2 DEF most
  <2> QED BY <1>1, <1>3, <2>1 DEF TypeOK, Ids
<1>7. Orderings'
  BY <1>1, <1>3 DEF Orderings, TypeOK
<1>8. KnowsOwn'
  BY <1>1, <1>3 DEF KnowsOwn, Ids
<1>9. OpenStays'
  BY <1>1 DEF OpenStays, Orderings, Ids
<1> QED BY <1>1, <1>4, <1>5, <1>6, <1>7, <1>8, <1>9 DEF RemovedIsEmpty, Ids

LEMMA FreeingAccounts ==
    ASSUME Account, world' = world, Kernel
    PROVE  Account'
<1> USE ConstantsAssumption DEF Account, BuffersOwned, kernel, clients
<1>1. freeing # << >>
  BY DEF Kernel, FreeTest, FreeRemove, Orderings
<1>2. /\ Tail(freeing) \in Seq(Ids) /\ Head(freeing) \in Ids
      /\ ToSet(freeing) = {Head(freeing)} \cup ToSet(Tail(freeing))
      /\ IsInjective(Tail(freeing)) /\ Head(freeing) \notin ToSet(Tail(freeing))
  BY <1>1, TailElements DEF TypeOK, OneOwner
<1>3. /\ UNCHANGED <<count, user, server, module, proc, buff, dropped, conn, ifs>>
      /\ \/ freeing' = freeing /\ list' = list /\ tested' = TRUE /\ user[Head(freeing)] = None
         \/ freeing' = Tail(freeing) /\ list' = list /\ tested' = FALSE /\ ~tested
         \/ freeing' = Tail(freeing) /\ list' = list \ {Head(freeing)} /\ tested' = FALSE /\ tested
  BY DEF Kernel, FreeTest, FreeRemove, Dereg, IsBusy, TypeOK
<1>4. HeldExists'
  <2>1. \A c \in Clients : ToSet(ifs[c]) \cap ToSet(freeing) = {}
    BY DEF OneOwner
  <2> QED BY <1>2, <1>3, <2>1 DEF HeldExists, Held
<1>5. OneOwner'
  BY <1>2, <1>3 DEF OneOwner
<1>6. TypeOK'
  BY <1>2, <1>3 DEF TypeOK, Ids
<1>7. Orderings' /\ KnowsOwn'
  BY <1>1, <1>3 DEF Orderings, KnowsOwn, Ids
<1>8. OpenStays'
  BY <1>3 DEF OpenStays, Ids
<1>9. RemovedIsEmpty'
  BY <1>3 DEF RemovedIsEmpty, Ids
<1> QED BY <1>3, <1>4, <1>5, <1>6, <1>7, <1>8, <1>9

LEMMA ExitAccounts ==
    ASSUME Account, world' = world, ModuleExit
    PROVE  Account'
<1> USE ConstantsAssumption DEF Account, BuffersOwned, clients, idle
<1>1. /\ server = "down" /\ \A id \in Ids : user[id] = None
      /\ module' = "removed" /\ list' = {}
      /\ UNCHANGED <<count, user, server, proc, buff, dropped, conn, ifs, freeing, tested>>
  BY DEF ModuleExit, Unused, FreeAll, IsBusy, TypeOK
<1>2. \A c \in Clients : ifs[c] = << >>
  BY <1>1 DEF Orderings
<1>3. freeing = << >> /\ ToSet(<< >>) = {}
  BY <1>1 DEF Orderings, ToSet
<1>4. HeldExists' /\ OneOwner'
  BY <1>1, <1>2, <1>3 DEF HeldExists, Held, OneOwner
<1>5. TypeOK' /\ Orderings' /\ KnowsOwn'
  BY <1>1 DEF TypeOK, Orderings, KnowsOwn, Ids
<1> QED BY <1>1, <1>4, <1>5 DEF OpenStays, RemovedIsEmpty, Ids

LEMMA ClientAccounts ==
    ASSUME Account, world' = world, NEW c \in Clients, Client(c)
    PROVE  Account'
<1> USE ConstantsAssumption DEF Account, BuffersOwned, kernel, idle
<1>0. /\ UNCHANGED <<count, list, server, module, conn, ifs, freeing, tested>>
      /\ HeldExists' /\ OneOwner'
  BY HeldSame DEF Client, Map, Unmap, FredFree, Kill, Release
<1>1. Orderings'
  BY <1>0 DEF Orderings
<1>2. CASE \E id \in Ids : Map(c, id)
  <2>1. PICK id \in Ids : Map(c, id)
    BY <1>2
  <2>2. /\ proc[c] = "in" /\ id \in list /\ buff[c][id] # None
        /\ proc' = proc /\ dropped' = dropped
        /\ \/ user' = user /\ buff' = [buff EXCEPT ![c][id].file_d = "lost"]
           \/ /\ user[id] = None /\ user' = [user EXCEPT ![id] = c]
              /\ buff' = [buff EXCEPT ![c][id] = [addr |-> "set", file_d |-> "open"]]
    BY <2>1 DEF Map, IsBusy
  <2>2a. PICK b \in UserBuff : buff' = [buff EXCEPT ![c][id] = b]
    <3>1. CASE buff' = [buff EXCEPT ![c][id].file_d = "lost"]
      <4>1. buff[c][id] \in UserBuff
        BY <2>2 DEF TypeOK
      <4>2. \A u \in UserBuff : [u EXCEPT !.file_d = "lost"] \in UserBuff
        BY DEF UserBuff
      <4>3. buff' = [buff EXCEPT ![c][id] = [buff[c][id] EXCEPT !.file_d = "lost"]]
        BY <3>1, Zenon
      <4> QED BY <4>1, <4>2, <4>3, Zenon
    <3>2. CASE buff' = [buff EXCEPT ![c][id] = [addr |-> "set", file_d |-> "open"]]
      BY <3>2 DEF UserBuff
    <3> QED BY <2>2, <3>1, <3>2
  <2>3. c \in dropped \/ id \in ToSet(ifs[c])
    BY <2>2 DEF KnowsOwn
  <2>4. c \notin dropped /\ tested => id # Head(freeing)
    <3>1. tested => Head(freeing) \in ToSet(freeing)
      BY TailElements DEF Orderings, TypeOK
    <3> QED BY <2>3, <3>1 DEF OneOwner
  <2>5. OpenStays'
    BY <1>0, <2>2, <2>4 DEF OpenStays, Ids, TypeOK
  <2>6. TypeOK'
    <3>1. Ids' = Ids
      BY DEF Ids
    <3>2. buff' \in [Clients -> [Ids -> UserBuff \cup {None}]]
      BY <2>2a DEF TypeOK
    <3>3. user' \in [Ids -> Clients \cup {None}]
      BY <2>2 DEF TypeOK
    <3>4. proc' = proc /\ dropped' = dropped /\ world' = world
      BY <2>2
    <3> QED BY <1>0, <3>1, <3>2, <3>3, <3>4 DEF TypeOK
  <2>7. KnowsOwn'
    <3> SUFFICES ASSUME NEW d \in Clients \ dropped, proc[d] = "in", NEW i \in Ids,
                        buff'[d][i] # None
                 PROVE  i \in ToSet(ifs[d])
      BY <1>0, <2>2 DEF KnowsOwn, Ids
    <3>1. buff[d][i] # None
      BY <2>2, <2>2a DEF TypeOK
    <3> QED BY <3>1 DEF KnowsOwn
  <2>8. RemovedIsEmpty'
    BY <1>0, <2>2 DEF RemovedIsEmpty
  <2> QED BY <1>0, <1>1, <2>2, <2>5, <2>6, <2>7, <2>8
<1>3. CASE (\E id \in Ids : Unmap(c, id)) \/ FredFree(c) \/ Kill(c) \/ Release(c)
  <2>0. Ids' = Ids /\ NoBuff \in [Ids -> UserBuff \cup {None}] /\ NoBuff' = NoBuff
    BY DEF Ids, NoBuff
  <2>1. TypeOK' /\ dropped' \subseteq Clients
    <3>1. \A b \in UserBuff \cup {None} : Unmapped(b) \in UserBuff \cup {None}
      BY DEF Unmapped, Closes, UserBuff
    <3>2. CASE \E id \in Ids : Unmap(c, id)
      BY <1>0, <2>0, <3>1, <3>2 DEF Unmap, TypeOK
    <3>3. CASE FredFree(c)
      BY <1>0, <2>0, <3>3 DEF FredFree, TypeOK
    <3>4. CASE Kill(c)
      BY <1>0, <2>0, <3>4 DEF Kill, TypeOK, clients
    <3>5. CASE Release(c)
      BY <1>0, <2>0, <3>5 DEF Release, TypeOK, clients
    <3> QED BY <1>3, <3>2, <3>3, <3>4, <3>5
  <2>2. \A id \in Ids : user'[id] # None => user'[id] = user[id]
    <3>1. CASE \E id \in Ids : Unmap(c, id)
      BY <3>1 DEF Unmap, TypeOK
    <3>2. CASE FredFree(c)
      BY <3>2 DEF FredFree
    <3>3. CASE Kill(c)
      BY <3>3 DEF Kill, clients, TypeOK
    <3>4. CASE Release(c)
      BY <3>4 DEF Release, clients, TypeOK
    <3> QED BY <1>3, <3>1, <3>2, <3>3, <3>4
  <2>3. \A id \in Ids : user'[id] \notin dropped' /\ user'[id] # None => user[id] \notin dropped
    BY <1>3, <2>2 DEF Unmap, FredFree, Kill, Release, TypeOK, clients
  <2>4. OpenStays' /\ RemovedIsEmpty'
    BY <1>0, <2>2, <2>3 DEF OpenStays, RemovedIsEmpty, Ids
  <2>5. KnowsOwn'
    <3> SUFFICES ASSUME NEW d \in Clients \ dropped', proc'[d] = "in", NEW i \in Ids,
                        buff'[d][i] # None
                 PROVE  i \in ToSet(ifs[d])
      BY <1>0, <2>0 DEF KnowsOwn
    <3>1. proc[d] = "in" /\ d \notin dropped
      BY <1>3 DEF Unmap, FredFree, Kill, Release, TypeOK
    <3>2. buff[d][i] # None
      <4>1. CASE \E id \in Ids : Unmap(c, id)
        BY <4>1 DEF Unmap, TypeOK, Unmapped, Closes
      <4>2. CASE FredFree(c)
        BY <4>2 DEF FredFree, TypeOK, NoBuff
      <4>3. CASE Kill(c) \/ Release(c)
        BY <4>3 DEF Kill, Release
      <4> QED BY <1>3, <4>1, <4>2, <4>3
    <3> QED BY <3>1, <3>2 DEF KnowsOwn
  <2> QED BY <1>0, <1>1, <2>1, <2>4, <2>5
<1> QED BY <1>2, <1>3 DEF Client

LEMMA NextAccounts == Account /\ [Next]_vars => Account'
<1>1. ASSUME Account, Next PROVE Account'
  <2>1. world' = world
    BY <1>1 DEF Next
  <2>2. CASE \E c \in Clients : Client(c)
    BY <1>1, <2>1, <2>2, ClientAccounts
  <2>3. CASE Kernel \/ ModuleExit
    BY <1>1, <2>1, <2>3, FreeingAccounts, ExitAccounts
  <2>4. CASE \E c \in Clients : Bind(c) \/ Detach(c)
    BY <1>1, <2>1, <2>4, BindAccounts, DetachAccounts
  <2>5. CASE ServerStart \/ Stop \/ ServerExit \/ \E c \in Clients : Connect(c) \/ Drop(c)
    BY <1>1, <2>1, <2>5, ServerAccounts
  <2> QED BY <1>1, <2>2, <2>3, <2>4, <2>5 DEF Next, Server
<1>2. ASSUME Account, UNCHANGED vars PROVE Account'
  BY <1>2 DEF vars, kernel, clients, idle, Account, BuffersOwned, TypeOK, HeldExists, Held,
              OneOwner, RemovedIsEmpty, Orderings, KnowsOwn, OpenStays, Ids
<1> QED BY <1>1, <1>2

\* Whatever fails, whoever dies and however often ids come round: every id the
\* server holds names a buffer of the kernel module, and one session holds it
\* (alloc_data_buff_ and free_all_data_buff_, reg_new_buff_ and free_buff_).
THEOREM BuffersHeldOnce == Spec => []BuffersOwned
<1>1. Account => BuffersOwned
  BY DEF Account
<1> QED BY <1>1, InitAccounts, NextAccounts, PTL DEF Spec

\* Nobody uses a buffer that was removed, unless the server had dropped his
\* session, nor the module after it has gone (buffs_open, dereg_buff_dev_,
\* fred_buffctl_exit).
THEOREM NobodyUsesFreed == Spec => []UsersSafe
<1>1. Account => UsersSafe
  BY DEF Account, UsersSafe, OpenStays, OpenExists
<1> QED BY <1>1, InitAccounts, NextAccounts, PTL DEF Spec

-----------------------------------------------------------------------------
(* Orderly clients.                                                        *)

\* With orderly clients and no failing call: the list is what the server holds,
\* ids below the counter were given out, sessions end after their clients have
\* left, and who has a buffer open will close it.
Tidy ==
    /\ list = Held
    /\ dropped = {}
    /\ \A c \in Clients : proc[c] # "dying" /\ conn[c] # "detaching"
    /\ server # "up" => \A c \in Clients : conn[c] = "none"
    /\ \A id \in Ids : id \in list \/ user[id] # None => id < count
    /\ \A c \in Clients, id \in Ids : user[id] = c =>
          proc[c] = "in" /\ buff[c][id] = [addr |-> "set", file_d |-> "open"]

LEMMA OpenIsSome == [addr |-> "set", file_d |-> "open"] # None
BY ConstantsAssumption DEF UserBuff

LEMMA InitTidies == Init => Tidy
<1> SUFFICES ASSUME Init PROVE Tidy
  OBVIOUS
<1> USE ConstantsAssumption DEF Init
<1>1. ToSet(<< >>) = {}
  BY DEF ToSet
<1>2. list = Held
  BY <1>1 DEF Held
<1> QED BY <1>2 DEF Tidy

\* Every BIND of an orderly world succeeds, with the ids after the counter.
LEMMA BindTidies ==
    ASSUME Account, Tidy, Orderly, world' = world, NEW c \in Clients, Bind(c)
    PROVE  Tidy'
<1> USE ConstantsAssumption DEF Account, BuffersOwned
<1>1. PICK n \in 0 .. Buffs, sent \in BOOLEAN :
        /\ Serving /\ conn[c] = "up" /\ proc[c] = "in"
        /\ Allocates(n) /\ sent = TRUE
        /\ count + Buffs < world.ids
        /\ count' = Counted(IF n = Buffs THEN n ELSE n + 1)
        /\ list' = list \cup ToSet(Row(n))
        /\ IF n = Buffs /\ sent
           THEN /\ ifs' = [ifs EXCEPT ![c] = @ \o Row(n)]
                /\ \E known \in Sent(buff[c], ToSet(Row(n))) :
                     buff' = [buff EXCEPT ![c] = known]
                /\ UNCHANGED conn
           ELSE /\ conn' = [conn EXCEPT ![c] = "detaching"]
                /\ UNCHANGED <<ifs, buff>>
        /\ UNCHANGED <<user, server, module, proc, dropped, freeing, tested>>
  BY DEF Bind, Orderly, idle
<1>2. world.ids \in Nat /\ count \in Nat /\ Ids' = Ids
  BY DEF TypeOK, World, Ids
<1>3. \A i \in 1 .. Buffs : NewId(i) = count + i - 1 /\ NewId(i) \in Ids
  <2> SUFFICES ASSUME NEW i \in 1 .. Buffs
               PROVE  NewId(i) = count + i - 1 /\ NewId(i) \in Ids
    OBVIOUS
  <2>1. \A a, b \in Nat : a < b => a % b = a
    OBVIOUS
  <2>2. count + i - 1 \in Nat /\ count + i - 1 < world.ids
    BY <1>1, <1>2
  <2>3. (count + i - 1) % world.ids = count + i - 1
    BY <1>2, <2>1, <2>2
  <2> QED BY <1>2, <2>2, <2>3 DEF NewId, Ids
<1>4. \A i \in 1 .. Buffs : Registered(NewId(i))
  BY <1>2, <1>3 DEF Registered, Tidy
<1>5. n = Buffs
  BY <1>1, <1>4 DEF Allocates, Orderly
<1>6. count' = count + Buffs
  BY <1>1, <1>2, <1>5 DEF Counted
<1> DEFINE new == ToSet(Row(Buffs))
<1>7. /\ Row(Buffs) \in Seq(Ids)
      /\ \A id \in new : id \in Ids /\ id < count' /\ id \notin list /\ user[id] = None
  <2>1. Row(Buffs) \in Seq(Ids) /\ new = {NewId(i) : i \in 1 .. Buffs}
    BY <1>2, RowElements DEF TypeOK
  <2> QED BY <1>2, <1>3, <1>4, <1>6, <2>1 DEF Registered
<1>8. /\ ToSet(ifs'[c]) = ToSet(ifs[c]) \cup new
      /\ \A d \in Clients \ {c} : ifs'[d] = ifs[d]
  <2>1. ifs' = [ifs EXCEPT ![c] = @ \o Row(Buffs)] /\ ifs[c] \in Seq(Ids)
    BY <1>1, <1>5 DEF TypeOK
  <2>2. ToSet(ifs[c] \o Row(Buffs)) = ToSet(ifs[c]) \cup new
    BY <1>7, <2>1, ConcatElements
  <2> QED BY <2>1, <2>2 DEF TypeOK
<1> HIDE DEF new
<1>9. list' = Held'
  <2>1. list' = list \cup new /\ freeing' = freeing
    BY <1>1, <1>5 DEF new
  <2>2. list = ToSet(freeing) \cup UNION {ToSet(ifs[d]) : d \in Clients}
    BY DEF Tidy, Held
  <2>3. ASSUME NEW id
        PROVE  (\E d \in Clients : id \in ToSet(ifs'[d]))
                <=> id \in new \/ \E d \in Clients : id \in ToSet(ifs[d])
    BY <1>8
  <2>4. ASSUME NEW id PROVE id \in list' <=> id \in Held'
    BY <2>1, <2>2, <2>3 DEF Held
  <2> QED BY <2>4
<1>10. ASSUME NEW d \in Clients, NEW id \in Ids, user[id] = d
       PROVE  buff'[d][id] = [addr |-> "set", file_d |-> "open"]
  <2>1. id \notin new
    BY <1>7, <1>10
  <2>2. \A known \in Sent(buff[c], new) : known[id] = buff[c][id]
    BY <2>1 DEF Sent
  <2>3. PICK known \in Sent(buff[c], new) : buff' = [buff EXCEPT ![c] = known]
    BY <1>1, <1>5 DEF new
  <2> QED BY <1>10, <2>2, <2>3 DEF Tidy, TypeOK
<1>11. \A id \in Ids : id \in list' \/ user'[id] # None => id < count'
  <2>1. list' = list \cup new /\ user' = user
    BY <1>1, <1>5 DEF new
  <2>2. \A id \in Ids : id \in Nat
    BY DEF Ids
  <2> QED BY <1>2, <1>6, <1>7, <2>1, <2>2 DEF Tidy
<1> QED BY <1>1, <1>2, <1>5, <1>9, <1>10, <1>11 DEF Tidy

LEMMA SessionTidies ==
    ASSUME Account, Tidy, Orderly, world' = world,
           \/ ServerStart \/ Stop \/ ServerExit
           \/ \E c \in Clients : Connect(c) \/ Drop(c) \/ Detach(c)
    PROVE  Tidy'
<1> USE ConstantsAssumption DEF Account, BuffersOwned, Tidy, kernel, clients, idle
<1>0. Ids' = Ids
  BY DEF Ids
<1>1. CASE ServerStart \/ Stop \/ ServerExit
  BY <1>0, <1>1 DEF ServerStart, Stop, ServerExit, Held, Orderly, Serving
<1>2. ASSUME NEW c \in Clients, Connect(c) PROVE Tidy'
  BY <1>0, <1>2 DEF Connect, Held, Serving, TypeOK, NoBuff
<1>3. ASSUME NEW c \in Clients, Drop(c) PROVE Tidy'
  BY <1>3 DEF Drop, Orderly
<1>4. ASSUME NEW c \in Clients, Detach(c) PROVE Tidy'
  <2>1. /\ freeing = << >> /\ freeing' = ifs[c] /\ proc[c] # "in"
        /\ ifs' = [ifs EXCEPT ![c] = << >>] /\ conn' = [conn EXCEPT ![c] = "none"]
        /\ dropped' = dropped
        /\ UNCHANGED <<count, list, user, server, module, proc, buff, tested>>
    BY <1>4 DEF Detach
  <2>2. /\ ToSet(<< >>) = {} /\ ifs'[c] = << >>
        /\ \A d \in Clients \ {c} : ifs'[d] = ifs[d]
    BY <2>1 DEF ToSet, TypeOK
  <2>3. Held' = Held
    BY <2>1, <2>2 DEF Held
  <2> QED BY <1>0, <2>1, <2>3 DEF TypeOK
<1> QED BY <1>1, <1>2, <1>3, <1>4

\* The head of freeing is always there and never busy.
LEMMA KernelTidies ==
    ASSUME Account, Tidy, Orderly, world' = world, Kernel \/ ModuleExit
    PROVE  Tidy'
<1> USE ConstantsAssumption DEF Account, BuffersOwned, Tidy, kernel, clients, idle
<1>0. Ids' = Ids
  BY DEF Ids
<1>1. CASE Kernel
  <2>1. freeing # << >>
    BY <1>1 DEF Kernel, FreeTest, FreeRemove, Orderings
  <2>2. /\ Tail(freeing) \in Seq(Ids) /\ Head(freeing) \in Ids
        /\ ToSet(freeing) = {Head(freeing)} \cup ToSet(Tail(freeing))
        /\ IsInjective(Tail(freeing)) /\ Head(freeing) \notin ToSet(Tail(freeing))
    BY <2>1, TailElements DEF TypeOK, OneOwner
  <2>3. \A c \in Clients : Head(freeing) \notin ToSet(ifs[c])
    BY <2>2 DEF OneOwner
  <2>4. Dereg(Head(freeing))
    <3>1. Head(freeing) \in list
      BY <2>2 DEF HeldExists, Held
    <3>2. ASSUME NEW c \in Clients, user[Head(freeing)] = c PROVE FALSE
      BY <2>2, <2>3, <3>2, OpenIsSome DEF KnowsOwn
    <3> QED BY <2>2, <3>1, <3>2 DEF Dereg, IsBusy, TypeOK
  <2>5. CASE FreeTest
    BY <1>0, <2>4, <2>5 DEF FreeTest, Held
  <2>6. CASE FreeRemove
    <3>1. list' = Held'
      BY <2>2, <2>3, <2>6 DEF FreeRemove, Held
    <3> QED BY <1>0, <2>6, <3>1 DEF FreeRemove
  <2> QED BY <1>1, <2>5, <2>6 DEF Kernel
<1>2. CASE ModuleExit
  <2>1. /\ server = "down" /\ list' = {}
        /\ UNCHANGED <<count, user, server, proc, buff, dropped, conn, ifs, freeing, tested>>
    BY <1>2 DEF ModuleExit, Unused, FreeAll, IsBusy, TypeOK
  <2>2. freeing = << >> /\ \A c \in Clients : ifs[c] = << >>
    BY <2>1 DEF Orderings
  <2>3. list' = Held'
    BY <2>1, <2>2 DEF Held, ToSet
  <2> QED BY <1>0, <2>1, <2>3
<1> QED BY <1>1, <1>2

LEMMA ClientTidies ==
    ASSUME Account, Tidy, Orderly, world' = world, NEW c \in Clients, Client(c)
    PROVE  Tidy'
<1> USE ConstantsAssumption DEF Account, BuffersOwned, Tidy, kernel, clients, idle
<1>0. Ids' = Ids /\ (freeing' = freeing /\ ifs' = ifs => Held' = Held)
  BY DEF Ids, Held
<1>1. ASSUME NEW id \in Ids, Map(c, id) PROVE Tidy'
  <2>1. buff[c][id] = [addr |-> "null", file_d |-> "none"] /\ user[id] # c
    BY <1>1 DEF Map, Orderly
  <2>2. CASE IsBusy(id)
    <3>1. /\ user' = user /\ user[id] # c
          /\ \A d \in Clients, i \in Ids : d # c \/ i # id => buff'[d][i] = buff[d][i]
      BY <1>1, <2>1, <2>2 DEF Map, TypeOK
    <3> QED BY <1>0, <1>1, <3>1 DEF Map
  <2>3. CASE ~IsBusy(id)
    BY <1>0, <1>1, <2>1, <2>3 DEF Map, TypeOK, IsBusy
  <2> QED BY <2>2, <2>3
<1>2. ASSUME NEW id \in Ids, Unmap(c, id) PROVE Tidy'
  BY <1>0, <1>2 DEF Unmap, TypeOK
<1>3. CASE FredFree(c)
  <2>1. \A id \in Ids : user[id] = c => Closes(buff[c][id])
    BY OpenIsSome DEF Closes
  <2>2. \A id \in Ids : user'[id] # c /\ (user'[id] # None => user'[id] = user[id])
    BY <1>3, <2>1 DEF FredFree, TypeOK
  <2> QED BY <1>0, <1>3, <2>2 DEF FredFree, TypeOK
<1>4. CASE Kill(c) \/ Release(c)
  BY <1>4 DEF Kill, Release, Orderly
<1> QED BY <1>1, <1>2, <1>3, <1>4 DEF Client

\* When clients map a buffer once and leave through fred_free and no call fails,
\* the kernel module has exactly the buffers the server holds, and none when
\* all sessions have been freed (fred_free, free_all_data_buff_).
THEOREM OrderlyLeavesNothing == Spec => []NothingLeaks
<1> DEFINE Inv == Account /\ (Orderly => Tidy)
<1>1. Init => Inv
  BY InitAccounts, InitTidies
<1>2. Inv /\ [Next]_vars => Inv'
  <2> SUFFICES ASSUME Inv, [Next]_vars, Orderly' PROVE Tidy'
    BY NextAccounts
  <2>1. CASE UNCHANGED vars
    BY <2>1 DEF Tidy, Orderly, vars, kernel, clients, idle, Held, Ids
  <2>2. CASE Next
    <3>1. world' = world /\ Orderly
      BY <2>2 DEF Next, Orderly
    <3> QED BY <2>2, <3>1, BindTidies, SessionTidies, KernelTidies, ClientTidies DEF Next, Server
  <2> QED BY <2>1, <2>2
<1>3. Inv => NothingLeaks
  BY DEF NothingLeaks, Tidy
<1> QED BY <1>1, <1>2, <1>3, PTL DEF Spec
=============================================================================
