-------------------------- MODULE FredServerProofs --------------------------
(***************************************************************************)
(* Proofs about FredServer and its layout, for any tables, sizes, sessions *)
(* and modes.  First the layout alone: while it is built, used and taken   *)
(* down, a partition has the slots of its row up to the limit, a task a    *)
(* bitstream for each slot of its partition, and the buffers a task frees  *)
(* are its own.  Then the server: whatever fails while it is set up, and   *)
(* whenever its loop ends, each component is freed once and while what it  *)
(* needs is alive, the layout is what its tables say when it is used, and  *)
(* the kernel module gets its buffers back.                                *)
(***************************************************************************)
EXTENDS FredServer, SequenceTheorems, FiniteSetTheorems, NaturalsInduction,
        WellFoundedInduction, TLAPS

-----------------------------------------------------------------------------
(* The layout while it is built, used and taken down.                      *)

Partition == [name : STRING, slots : 0 .. MaxSlots - 1, freed : BOOLEAN]
Bit == [buff : Nat, got : BOOLEAN]
HwTask == [part : Nat \ {0}, bits : Seq(Bit), buffs : Nat, freed : BOOLEAN]

Typed ==
    /\ arch \in Seq(STRING \X Nat)
    /\ hw \in Seq(Range(hw)) /\ \A row \in Range(hw) : BuffSizes(row) \in Seq(Nat)
    /\ stage \in {"none", "arch", "hw", "up", "free", "exit"}
    /\ {step, lost, found, next} \subseteq Nat
    /\ partitions \in Seq(Partition)
    /\ tasks \in Seq(HwTask)
    /\ kernel \subseteq 0 .. next - 1
    /\ mapped \subseteq kernel

\* The slots a partition gets of those its line asks for.
Limit(n) == IF n < MaxSlots THEN n ELSE MaxSlots - 1

RowsRead ==
    /\ P <= Len(arch)
    /\ \A i \in 1 .. P : partitions[i].name = PartitionName(arch[i])
    /\ \A i \in 1 .. P :
          i < P \/ stage \in {"hw", "up"} => partitions[i].slots = Limit(SlotsCount(arch[i]))
    /\ stage = "none" => P = 0
    /\ stage = "arch" /\ P > 0 =>
          step <= SlotsCount(arch[P]) /\ partitions[P].slots = Limit(step)
    /\ stage \in {"hw", "up"} => P = Len(arch)

InFirstNamed(t) ==
    LET same == Named(PartitionOf(hw[t]))
    IN  same # {} => tasks[t].part \in same /\ \A i \in same : tasks[t].part <= i

TasksRead ==
    /\ T <= Len(hw)
    /\ stage \in {"none", "arch"} => T = 0
    /\ stage = "up" => T = Len(hw)
    /\ found <= P
    /\ \A t \in 1 .. T :
          /\ tasks[t].part <= P
          /\ InFirstNamed(t)
          /\ Len(tasks[t].bits) <= BitsCount(t)
          /\ t < T \/ stage = "up" => Len(tasks[t].bits) = BitsCount(t)
    /\ stage = "hw" /\ T > 0 => Len(tasks[T].bits) = step

\* A buffer that was got belongs to one task, which is the last one if another
\* could not be got.
BuffersHeld ==
    \A t \in 1 .. T : \A s \in DOMAIN tasks[t].bits :
        LET bit == tasks[t].bits[s]
        IN  /\ ~bit.got => t = T /\ stage \in {"free", "exit"}
            /\ bit.got =>
                  /\ bit.buff < next
                  /\ ~tasks[t].freed => bit.buff \in kernel
                  /\ \A u \in 1 .. T : \A r \in DOMAIN tasks[u].bits :
                        tasks[u].bits[r].got /\ tasks[u].bits[r].buff = bit.buff => u = t

FreedInTurn ==
    /\ \A t \in 1 .. T : tasks[t].freed =>
          stage \in {"free", "exit"} /\ \A u \in 1 .. t - 1 : tasks[u].freed
    /\ stage = "exit" => \A t \in 1 .. T : tasks[t].freed

GivenBack ==
    garbage = {} => \A t \in 1 .. T : tasks[t].freed =>
        \A s \in DOMAIN tasks[t].bits :
            tasks[t].bits[s].got /\ tasks[t].bits[s].buff \notin mapped
                => tasks[t].bits[s].buff \notin kernel

LayoutKept ==
    Typed /\ RowsRead /\ TasksRead /\ BuffersHeld /\ FreedInTurn /\ GivenBack

LayoutNext == Building \/ Freeing \/ Shutdown \/ NewTimerAborts \/ ReadBitAborts

-----------------------------------------------------------------------------
(* Steps that change the stage and neither partitions nor tasks.           *)

Settled == UNCHANGED <<arch, hw, garbage, partitions, found, tasks, kernel, next, mapped>>

LEMMA CleanKeeps ==
    ASSUME LayoutKept, Settled, stage \in {"arch", "hw", "up"}, Clean,
           step' = step, lost' \in Nat
    PROVE  LayoutKept'
<1> USE DEF LayoutKept, Settled, Clean, P, T, BitsCount, InFirstNamed, Named
<1>1. Typed'
  BY DEF Typed
<1>2. RowsRead'
  BY DEF RowsRead
<1>3. TasksRead'
  BY DEF TasksRead
<1>4. BuffersHeld'
  BY DEF BuffersHeld
<1>5. FreedInTurn'
  BY DEF FreedInTurn
<1>6. GivenBack'
  BY DEF GivenBack
<1> QED BY <1>1, <1>2, <1>3, <1>4, <1>5, <1>6

LEMMA StagesKeep ==
    ASSUME LayoutKept, UNCHANGED garbage,
           Open \/ PartitionsBuilt \/ TasksBuilt \/ NewTimerAborts \/ Exit
    PROVE  LayoutKept'
<1> USE DEF LayoutKept, P, T, BitsCount, memory
<1>1. CASE Open
  <2> USE <1>1 DEF Open
  <2>1. Typed'
    BY DEF Typed
  <2>2. P = 0 /\ T = 0
    BY DEF RowsRead, TasksRead
  <2> QED
    BY <2>1, <2>2 DEF Typed, RowsRead, TasksRead, BuffersHeld, FreedInTurn, GivenBack
<1>2. CASE PartitionsBuilt
  <2> USE <1>2 DEF PartitionsBuilt
  <2>1. Typed'
    BY DEF Typed
  <2>2. RowsRead'
    <3>1. P > 0 => partitions[P].slots = Limit(SlotsCount(arch[P]))
      BY DEF RowsRead, RowDone
    <3>2. P \in Nat
      BY DEF Typed
    <3>3. ASSUME NEW i \in 1 .. P
          PROVE  partitions[i].slots = Limit(SlotsCount(arch[i]))
      <4>1. i < P \/ i = P
        BY <3>2
      <4> QED BY <3>1, <4>1 DEF RowsRead
    <3> QED BY <3>3 DEF RowsRead
  <2>3. T = 0 /\ T' = 0
    BY DEF TasksRead
  <2>4. TasksRead'
    BY <2>3 DEF TasksRead, Typed
  <2> QED
    BY <2>1, <2>2, <2>3, <2>4 DEF BuffersHeld, FreedInTurn, GivenBack
<1>3. CASE TasksBuilt
  <2> USE <1>3 DEF TasksBuilt
  <2>1. Typed'
    BY DEF Typed
  <2>2. RowsRead'
    BY DEF RowsRead, Typed
  <2>3. TasksRead'
    <3>1. ASSUME NEW t \in 1 .. T
          PROVE  /\ tasks[t].part <= P
                 /\ InFirstNamed(t)'
                 /\ Len(tasks[t].bits) = BitsCount(t)
      <4>1. InFirstNamed(t)'
        BY DEF TasksRead, InFirstNamed, Named
      <4>2. CASE t < T
        BY <4>1, <4>2 DEF TasksRead
      <4>3. CASE t = T
        BY <4>1, <4>3 DEF TasksRead, TaskDone
      <4> QED BY <4>2, <4>3 DEF Typed
    <3>2. T = Len(hw) /\ Len(hw) \in Nat /\ found <= P
      BY DEF TasksRead, Typed
    <3>3. \A t \in 1 .. T : Len(tasks[t].bits) <= BitsCount(t)
      BY DEF TasksRead
    <3> QED BY <3>1, <3>2, <3>3 DEF TasksRead
  <2>4. BuffersHeld'
    BY DEF BuffersHeld
  <2>5. FreedInTurn'
    BY DEF FreedInTurn
  <2> QED
    BY <2>1, <2>2, <2>3, <2>4, <2>5 DEF GivenBack
<1>4. CASE NewTimerAborts
  <2> USE <1>4 DEF NewTimerAborts
  <2>1. Typed'
    BY DEF Typed
  <2>2. RowsRead'
    BY DEF RowsRead, Typed
  <2>3. T = 0 /\ T' = 0
    BY DEF TasksRead
  <2>4. TasksRead'
    BY <2>3 DEF TasksRead, Typed
  <2> QED
    BY <2>1, <2>2, <2>3, <2>4 DEF BuffersHeld, FreedInTurn, GivenBack
<1>5. CASE Exit
  <2> USE <1>5 DEF Exit
  <2>1. Typed'
    BY DEF Typed
  <2>2. RowsRead'
    BY DEF RowsRead, Typed
  <2>3. TasksRead'
    BY DEF TasksRead, Typed, InFirstNamed, Named
  <2>4. BuffersHeld'
    BY DEF BuffersHeld
  <2>5. FreedInTurn'
    BY DEF FreedInTurn
  <2> QED
    BY <2>1, <2>2, <2>3, <2>4, <2>5 DEF GivenBack
<1> QED BY <1>1, <1>2, <1>3, <1>4, <1>5

LEMMA InitLaid == ASSUME Init PROVE LayoutKept
<1> USE DEF Init, P, T
<1>1. Typed
  <2>1. partitions \in Seq(Partition) /\ tasks \in Seq(HwTask)
    OBVIOUS
  <2>2. next \in Nat /\ kernel \subseteq 0 .. next - 1
    OBVIOUS
  <2>3. arch \in Seq(STRING \X Nat)
    BY FilesAssumption
  <2>4. hw \in Seq(Range(hw)) /\ \A row \in Range(hw) : BuffSizes(row) \in Seq(Nat)
    BY FilesAssumption
  <2> QED BY <2>1, <2>2, <2>3, <2>4 DEF Typed
<1>2. P = 0 /\ T = 0 /\ Len(arch) \in Nat /\ Len(hw) \in Nat
  BY <1>1 DEF Typed
<1> QED
  BY <1>1, <1>2 DEF LayoutKept, RowsRead, TasksRead, BuffersHeld, FreedInTurn, GivenBack

-----------------------------------------------------------------------------
(* Partitions.                                                             *)

LEMMA NewPartitionKeeps ==
    ASSUME LayoutKept, UNCHANGED garbage, NewPartition
    PROVE  LayoutKept'
<1> DEFINE new == [name |-> PartitionName(arch[P + 1]), slots |-> 0, freed |-> FALSE]
<1> USE DEF LayoutKept
<1>1. P \in Nat /\ P + 1 \in 1 .. Len(arch) /\ Len(arch) \in Nat /\ arch \in Seq(STRING \X Nat)
  BY DEF NewPartition, Typed, P
<1>2. new \in Partition
  <2>1. arch[P + 1] \in STRING \X Nat
    BY <1>1
  <2>2. PartitionName(arch[P + 1]) \in STRING
    BY <2>1 DEF PartitionName
  <2> QED BY <2>2, ConstantsAssumption DEF Partition
<1>3. partitions \in Seq(Partition) /\ partitions' = Append(partitions, new)
  BY DEF NewPartition, Typed
<1>4. /\ partitions' \in Seq(Partition) /\ P' = P + 1
      /\ \A i \in 1 .. P : partitions'[i] = partitions[i]
      /\ partitions'[P + 1] = new
  <2> HIDE DEF new
  <2> QED BY <1>2, <1>3, AppendProperties DEF P
<1>5. T = 0 /\ T' = 0 /\ found <= P' /\ Len(hw) \in Nat
  BY <1>1, <1>4 DEF NewPartition, TasksRead, Typed, T
<1>6. Typed'
  BY <1>4 DEF NewPartition, Typed, memory
<1>7. RowsRead'
  <2>1. stage = "arch" /\ stage' = "arch" /\ step' = 0 /\ arch' = arch
    BY DEF NewPartition
  <2>2. partitions'[P'].name = PartitionName(arch[P']) /\ partitions'[P'].slots = Limit(step')
    BY <1>4, <2>1, ConstantsAssumption DEF Limit
  <2>3. SlotsCount(arch[P']) \in Nat
    <3>1. arch[P'] \in STRING \X Nat
      BY <1>1, <1>4
    <3> QED BY <3>1 DEF SlotsCount
  <2>4. ASSUME NEW i \in 1 .. P
        PROVE  /\ partitions'[i].name = PartitionName(arch[i])
               /\ partitions'[i].slots = Limit(SlotsCount(arch[i]))
    <3>1. partitions'[i] = partitions[i]
      BY <1>4
    <3>2. CASE i < P
      BY <3>1, <3>2 DEF RowsRead
    <3>3. CASE i = P
      <4>1. P > 0
        BY <3>3
      <4>2. partitions[P].slots = Limit(step) /\ step = SlotsCount(arch[P])
        BY <2>1, <4>1 DEF RowsRead, NewPartition, RowDone
      <4> QED BY <3>1, <3>3, <4>2 DEF RowsRead
    <3> QED BY <1>1, <3>2, <3>3
  <2>5. \A i \in 1 .. P' : i \in 1 .. P \/ i = P'
    BY <1>1, <1>4
  <2>6. P' \in Nat /\ P' <= Len(arch) /\ P' - 1 = P
    BY <1>1, <1>4
  <2> QED
    BY <2>1, <2>2, <2>3, <2>4, <2>5, <2>6 DEF RowsRead
<1>8. TasksRead'
  BY <1>5 DEF TasksRead, NewPartition
<1> QED
  BY <1>5, <1>6, <1>7, <1>8 DEF BuffersHeld, FreedInTurn, GivenBack

LEMMA NewSlotKeeps ==
    ASSUME LayoutKept, UNCHANGED garbage, NewSlot
    PROVE  LayoutKept'
<1> USE DEF LayoutKept
<1>1. /\ P \in Nat /\ P \in 1 .. P /\ P <= Len(arch) /\ Len(arch) \in Nat
      /\ partitions \in Seq(Partition) /\ arch \in Seq(STRING \X Nat) /\ step \in Nat
      /\ stage = "arch" /\ arch' = arch /\ stage' = stage /\ step' = step + 1
  BY DEF NewSlot, Typed, RowsRead, P
<1>2. partitions[P] \in Partition /\ SlotsCount(arch[P]) \in Nat
  <2>1. partitions[P] \in Partition
    BY <1>1 DEF P
  <2>2. arch[P] \in STRING \X Nat
    BY <1>1
  <2> QED BY <2>1, <2>2 DEF SlotsCount
<1> DEFINE slots == Added(partitions[P])
<1>3. step < SlotsCount(arch[P]) /\ partitions[P].slots = Limit(step)
  BY <1>1 DEF NewSlot, RowsRead
<1>4. slots \in 0 .. MaxSlots - 1 /\ slots = Limit(step')
  <2>1. MaxSlots \in Nat /\ MaxSlots > 1 /\ step \in Nat
    BY <1>1, ConstantsAssumption
  <2>2. slots = IF Limit(step) >= MaxSlots - 1 THEN Limit(step) ELSE Limit(step) + 1
    BY <1>3 DEF Added
  <2> QED BY <1>1, <2>1, <2>2 DEF Limit
<1>5. /\ partitions' = [partitions EXCEPT ![P].slots = slots]
      /\ lost' \in Nat
  BY DEF NewSlot, Typed
<1>6. /\ partitions' \in Seq(Partition) /\ P' = P
      /\ \A i \in 1 .. P : i # P => partitions'[i] = partitions[i]
      /\ partitions'[P] = [partitions[P] EXCEPT !.slots = slots]
  <2> HIDE DEF slots
  <2>1. [partitions[P] EXCEPT !.slots = slots] \in Partition
    BY <1>2, <1>4 DEF Partition
  <2>2. /\ partitions' = [partitions EXCEPT ![P] = [partitions[P] EXCEPT !.slots = slots]]
    BY <1>1, <1>5
  <2>3. DOMAIN partitions = 1 .. Len(partitions) /\ Len(partitions) \in Nat
    BY <1>1
  <2>4. DOMAIN partitions' = 1 .. Len(partitions)
    BY <2>2, <2>3
  <2>5. ASSUME NEW i \in 1 .. Len(partitions) PROVE partitions'[i] \in Partition
    BY <1>1, <2>1, <2>2, <2>3, <2>5
  <2>6. partitions' \in [1 .. Len(partitions) -> Partition]
    BY <2>2, <2>4, <2>5
  <2>7. partitions' \in Seq(Partition) /\ Len(partitions') = Len(partitions)
    BY <2>3, <2>6
  <2> QED BY <1>1, <2>2, <2>3, <2>7 DEF P
<1>7. T = 0 /\ T' = 0 /\ found <= P' /\ Len(hw) \in Nat
  BY <1>1, <1>6 DEF NewSlot, TasksRead, Typed, T
<1>8. Typed'
  <2>1. step' \in Nat /\ lost' \in Nat /\ partitions' \in Seq(Partition)
    BY <1>1, <1>5, <1>6
  <2>2. UNCHANGED <<stage, arch, hw, found, tasks, next, kernel, mapped>>
    BY DEF NewSlot, memory
  <2> QED BY <2>1, <2>2 DEF Typed
<1>9. RowsRead'
  <2>1. partitions'[P].slots = Limit(step') /\ partitions'[P].name = partitions[P].name
    BY <1>2, <1>4, <1>6 DEF Partition
  <2>2. step' <= SlotsCount(arch[P])
    BY <1>1, <1>2, <1>3
  <2>3. ASSUME NEW i \in 1 .. P
        PROVE  /\ partitions'[i].name = PartitionName(arch[i])
               /\ i < P => partitions'[i].slots = Limit(SlotsCount(arch[i]))
    <3>1. partitions'[i].name = partitions[i].name
      BY <1>6, <2>1
    <3>2. i < P => partitions'[i] = partitions[i]
      BY <1>6
    <3> QED BY <3>1, <3>2 DEF RowsRead
  <2> QED BY <1>1, <1>6, <2>1, <2>2, <2>3 DEF RowsRead
<1>10. TasksRead'
  BY <1>7 DEF TasksRead, NewSlot
<1> QED
  BY <1>7, <1>8, <1>9, <1>10 DEF BuffersHeld, FreedInTurn, GivenBack

-----------------------------------------------------------------------------
(* Hardware tasks and their bitstreams.                                    *)

LEMMA LeastOf ==
    ASSUME NEW S \in SUBSET Nat, S # {}
    PROVE  \E m \in S : \A n \in S : m <= n
<1>1. PICK m \in S : \A n \in S : <<n, m>> \notin OpToRel(<, Nat)
  BY NatLessThanWellFounded, WFMin
<1>2. \A n \in S : ~(n < m)
  BY <1>1 DEF OpToRel
<1> QED BY <1>2

LEMMA FoundIsFirst ==
    ASSUME P \in Nat, NEW name, NEW before \in 0 .. P, Found(name, before) # 0
    PROVE  /\ Found(name, before) \in 1 .. P
           /\ Named(name) # {} =>
                 /\ Found(name, before) \in Named(name)
                 /\ \A i \in Named(name) : Found(name, before) <= i
<1>1. CASE Named(name) = {}
  BY <1>1 DEF Found
<1>2. CASE Named(name) # {}
  <2>1. Named(name) \in SUBSET Nat /\ Named(name) \subseteq 1 .. P
    BY DEF Named
  <2>2. \E m \in Named(name) : \A n \in Named(name) : m <= n
    BY <1>2, <2>1, LeastOf
  <2> QED BY <1>2, <2>1, <2>2 DEF Found
<1> QED BY <1>1, <1>2

LEMMA Loading ==
    ASSUME LayoutKept, stage = "hw"
    PROVE  /\ P \in Nat /\ T \in Nat /\ P = Len(arch) /\ T <= Len(hw) /\ Len(hw) \in Nat
           /\ found \in 0 .. P
           /\ \A t \in 1 .. T :
                 /\ tasks[t] \in HwTask /\ ~tasks[t].freed
                 /\ tasks[t].part \in 1 .. P /\ BitsCount(t) \in 0 .. MaxSlots - 1
                 /\ \A s \in DOMAIN tasks[t].bits : tasks[t].bits[s].got
<1> USE DEF LayoutKept
<1>1. P \in Nat /\ T \in Nat /\ Len(hw) \in Nat /\ found \in Nat
  BY DEF Typed, P, T
<1>2. P = Len(arch) /\ T <= Len(hw) /\ found <= P
  BY DEF RowsRead, TasksRead
<1>3. ASSUME NEW t \in 1 .. T
      PROVE  /\ tasks[t] \in HwTask /\ ~tasks[t].freed
             /\ tasks[t].part \in 1 .. P /\ BitsCount(t) \in 0 .. MaxSlots - 1
             /\ \A s \in DOMAIN tasks[t].bits : tasks[t].bits[s].got
  <2>1. tasks[t] \in HwTask
    BY DEF Typed, T
  <2>2. tasks[t].part \in 1 .. P
    BY <1>1, <2>1 DEF TasksRead, HwTask
  <2>3. partitions[tasks[t].part] \in Partition
    BY <2>2 DEF Typed, P
  <2>4. ~tasks[t].freed
    BY DEF FreedInTurn
  <2>5. \A s \in DOMAIN tasks[t].bits : tasks[t].bits[s].got
    BY DEF BuffersHeld
  <2> QED BY <2>1, <2>2, <2>3, <2>4, <2>5 DEF BitsCount, Partition
<1> QED BY <1>1, <1>2, <1>3

LEMMA NewTaskKeeps ==
    ASSUME LayoutKept, UNCHANGED garbage, NewTask
    PROVE  LayoutKept'
<1> USE DEF LayoutKept
<1>1. /\ stage = "hw" /\ TaskDone /\ T < Len(hw) /\ step' = 0
      /\ UNCHANGED <<arch, hw, stage, partitions, lost, kernel, next, mapped>>
  BY DEF NewTask, memory
<1>2. PICK part, buffs :
        /\ part = Found(PartitionOf(hw[T + 1]), found) /\ part # 0 /\ found' = part
        /\ buffs \in BuffsCounts(BuffSizes(hw[T + 1]))
        /\ tasks' = Append(tasks, [part |-> part, bits |-> << >>, buffs |-> buffs, freed |-> FALSE])
  BY DEF NewTask
<1> DEFINE new == [part |-> part, bits |-> << >>, buffs |-> buffs, freed |-> FALSE]
<1>3. P \in Nat /\ T \in Nat /\ P = Len(arch) /\ Len(hw) \in Nat /\ found \in 0 .. P
  BY <1>1, Loading
<1>4. part \in 1 .. P /\ (Named(PartitionOf(hw[T + 1])) # {} =>
        /\ part \in Named(PartitionOf(hw[T + 1]))
        /\ \A i \in Named(PartitionOf(hw[T + 1])) : part <= i)
  BY <1>2, <1>3, FoundIsFirst
<1>5. buffs \in Nat
  <2>1. hw[T + 1] \in Range(hw)
    BY <1>1, <1>3 DEF Range, Typed
  <2>2. BuffSizes(hw[T + 1]) \in Seq(Nat)
    BY <2>1 DEF Typed
  <2>3. ASSUME NEW sizes \in Seq(Nat) PROVE BuffsCounts(sizes) \subseteq Nat
    <3>1. Len(sizes) \in Nat /\ MaxDataBuffs \in Nat
      BY ConstantsAssumption
    <3>2. CASE Len(sizes) <= MaxDataBuffs
      BY <3>1, <3>2 DEF BuffsCounts
    <3>3. CASE ~(Len(sizes) <= MaxDataBuffs)
      <4>1. sizes[Len(sizes)] \in Nat
        BY <3>1, <3>3
      <4> QED BY <3>1, <3>3, <4>1 DEF BuffsCounts, Last
    <3> QED BY <3>2, <3>3
  <2> QED BY <1>2, <2>2, <2>3
<1>6. new \in HwTask
  BY <1>4, <1>5 DEF HwTask
<1>7. /\ tasks' \in Seq(HwTask) /\ T' = T + 1
      /\ \A t \in 1 .. T : tasks'[t] = tasks[t]
      /\ tasks'[T + 1] = new
  <2> HIDE DEF new
  <2>1. tasks' = Append(tasks, new) /\ tasks \in Seq(HwTask)
    BY <1>2 DEF new, Typed
  <2> QED BY <1>6, <2>1, AppendProperties DEF T
<1>8. \A t \in 1 .. T' : t \in 1 .. T \/ t = T + 1
  BY <1>3, <1>7
<1>9. P' = P /\ \A name : Named(name)' = Named(name)
  BY <1>1 DEF P, Named
<1>10. new.bits = << >> /\ DOMAIN new.bits = {} /\ new.part = part /\ new.freed = FALSE
  OBVIOUS
<1> HIDE DEF new
<1>11. Typed'
  <2>1. {step', lost', found', next'} \subseteq Nat
    BY <1>1, <1>2, <1>3, <1>4 DEF Typed
  <2> QED BY <1>1, <1>7, <2>1 DEF Typed
<1>12. RowsRead'
  BY <1>1, <1>9 DEF RowsRead
<1>13. TasksRead'
  <2>1. ASSUME NEW t \in 1 .. T
        PROVE  /\ tasks'[t].part <= P'
               /\ InFirstNamed(t)'
               /\ Len(tasks'[t].bits) = BitsCount(t)'
    <3>1. tasks'[t] = tasks[t]
      BY <1>7
    <3>2. InFirstNamed(t)'
      BY <1>1, <1>9, <3>1 DEF TasksRead, InFirstNamed
    <3>3. Len(tasks[t].bits) = BitsCount(t)
      <4>1. CASE t < T
        BY <4>1 DEF TasksRead
      <4>2. CASE t = T
        BY <1>1, <4>2 DEF TasksRead, TaskDone
      <4> QED BY <1>3, <4>1, <4>2
    <3> QED BY <1>1, <1>9, <3>1, <3>2, <3>3 DEF TasksRead, BitsCount
  <2>0. PICK n \in Nat : n = T + 1
    BY <1>3
  <2>2. /\ tasks'[n].part <= P'
        /\ InFirstNamed(n)'
        /\ Len(tasks'[n].bits) = 0
    <3>1. hw' = hw /\ tasks'[n].part = part /\ tasks'[n].bits = << >>
      BY <1>1, <1>7, <1>10, <2>0
    <3>2. InFirstNamed(n)'
      BY <1>4, <1>9, <2>0, <3>1 DEF InFirstNamed
    <3> QED BY <1>3, <1>4, <1>9, <3>1, <3>2
  <2>3. \A t \in 1 .. T : BitsCount(t)' \in Nat
    <3>1. \A t \in 1 .. T : BitsCount(t) \in Nat
      BY <1>1, Loading
    <3>2. \A t \in 1 .. T : BitsCount(t)' = BitsCount(t)
      BY <1>1, <1>7 DEF BitsCount
    <3> QED BY <3>1, <3>2
  <2>4. BitsCount(n)' \in Nat
    <3>1. partitions[part] \in Partition
      BY <1>4 DEF Typed, P
    <3>2. tasks'[n].part = part /\ partitions' = partitions
      BY <1>1, <1>7, <1>10, <2>0
    <3> QED BY <3>1, <3>2 DEF BitsCount, Partition
  <2>5. found' <= P' /\ T' <= Len(hw)
    BY <1>1, <1>2, <1>3, <1>4, <1>7, <1>9
  <2>6. ASSUME NEW t \in 1 .. T'
        PROVE  /\ tasks'[t].part <= P'
               /\ InFirstNamed(t)'
               /\ Len(tasks'[t].bits) <= BitsCount(t)'
               /\ t < T' => Len(tasks'[t].bits) = BitsCount(t)'
    <3>1. CASE t \in 1 .. T
      <4>1. BitsCount(t)' \in Nat
        BY <2>3, <3>1
      <4> QED BY <2>1, <3>1, <4>1
    <3>2. CASE t = n
      BY <1>3, <1>7, <2>0, <2>2, <2>4, <3>2
    <3> QED BY <1>8, <2>0, <3>1, <3>2
  <2> QED BY <1>1, <1>7, <2>0, <2>2, <2>5, <2>6 DEF TasksRead
<1>14. \A t \in 1 .. T' : ~tasks'[t].freed
  <2>1. \A t \in 1 .. T : ~tasks[t].freed
    BY <1>1, Loading
  <2> QED BY <1>7, <1>8, <1>10, <2>1
<1>15. BuffersHeld'
  <2>1. ASSUME NEW t \in 1 .. T', NEW s \in DOMAIN tasks'[t].bits
        PROVE  t \in 1 .. T /\ tasks'[t] = tasks[t] /\ s \in DOMAIN tasks[t].bits
    BY <1>7, <1>8, <1>10
  <2>2. \A t \in 1 .. T : \A s \in DOMAIN tasks[t].bits : tasks[t].bits[s].got
    BY <1>1, Loading
  <2>3. ASSUME NEW t \in 1 .. T', NEW s \in DOMAIN tasks'[t].bits
        PROVE  /\ tasks'[t].bits[s].got
               /\ tasks'[t].bits[s].buff < next
               /\ tasks'[t].bits[s].buff \in kernel
               /\ \A u \in 1 .. T' : \A r \in DOMAIN tasks'[u].bits :
                    tasks'[u].bits[r].got /\ tasks'[u].bits[r].buff = tasks'[t].bits[s].buff => u = t
    <3>1. /\ t \in 1 .. T /\ tasks'[t] = tasks[t] /\ s \in DOMAIN tasks[t].bits
          /\ tasks[t].bits[s].got /\ ~tasks[t].freed
      BY <1>14, <2>1, <2>2
    <3>2. /\ tasks[t].bits[s].buff < next
          /\ tasks[t].bits[s].buff \in kernel
          /\ \A u \in 1 .. T : \A r \in DOMAIN tasks[u].bits :
                    tasks[u].bits[r].got /\ tasks[u].bits[r].buff = tasks[t].bits[s].buff => u = t
      BY <3>1 DEF BuffersHeld
    <3> QED BY <2>1, <3>1, <3>2
  <2> QED BY <1>1, <2>3 DEF BuffersHeld
<1>16. FreedInTurn' /\ GivenBack'
  BY <1>1, <1>14 DEF FreedInTurn, GivenBack
<1> QED BY <1>11, <1>12, <1>13, <1>15, <1>16

\* One more bitstream of the last task, whatever has come of it.
LEMMA WithBitKeeps ==
    ASSUME LayoutKept, UNCHANGED <<arch, hw, garbage, partitions, found, lost>>,
           stage = "hw", ~TaskDone, NEW b \in Bit, tasks' = WithBit(b),
           next' = next + 1, step' \in Nat,
           kernel \subseteq kernel', kernel' \subseteq kernel \cup {next}, mapped' \subseteq kernel',
           stage' \in {"hw", "free"}, stage' = "hw" => step' = step + 1,
           b.got => b.buff = next /\ next \in kernel', ~b.got => stage' = "free"
    PROVE  LayoutKept'
<1> USE DEF LayoutKept
<1>1. /\ P \in Nat /\ T \in Nat /\ P = Len(arch) /\ T <= Len(hw) /\ Len(hw) \in Nat
      /\ found \in 0 .. P /\ step \in Nat /\ next \in Nat
      /\ \A t \in 1 .. T :
            /\ tasks[t] \in HwTask /\ ~tasks[t].freed
            /\ tasks[t].part \in 1 .. P /\ BitsCount(t) \in 0 .. MaxSlots - 1
            /\ \A s \in DOMAIN tasks[t].bits : tasks[t].bits[s].got
  BY Loading DEF Typed
<1>2. T \in 1 .. T /\ step < BitsCount(T) /\ Len(tasks[T].bits) = step
  <2>1. T > 0 /\ step # BitsCount(T)
    BY DEF TaskDone
  <2>2. T \in 1 .. T
    BY <1>1, <2>1
  <2>3. Len(tasks[T].bits) = step /\ Len(tasks[T].bits) <= BitsCount(T)
    BY <2>1, <2>2 DEF TasksRead
  <2> QED BY <1>1, <2>1, <2>2, <2>3
<1> DEFINE new == [tasks[T] EXCEPT !.bits = Append(tasks[T].bits, b)]
<1>3. /\ tasks[T] \in HwTask /\ tasks[T].bits \in Seq(Bit)
      /\ new \in HwTask /\ new.part = tasks[T].part /\ ~new.freed
      /\ new.bits = Append(tasks[T].bits, b)
  BY <1>1, <1>2, AppendProperties DEF HwTask
<1>4. tasks' = [tasks EXCEPT ![T] = new]
  BY <1>1, <1>2 DEF WithBit
<1>5. /\ Len(new.bits) = step + 1 /\ DOMAIN new.bits = 1 .. step + 1
      /\ \A s \in 1 .. step : s \in DOMAIN tasks[T].bits /\ new.bits[s] = tasks[T].bits[s]
      /\ new.bits[step + 1] = b
  <2> HIDE DEF new
  <2>1. PICK old \in Seq(Bit) : old = tasks[T].bits
    BY <1>3
  <2>2. new.bits = Append(old, b) /\ Len(old) = step
    BY <1>2, <1>3, <2>1
  <2>3. /\ Len(new.bits) = step + 1 /\ new.bits \in Seq(Bit)
        /\ \A s \in 1 .. step : new.bits[s] = old[s]
        /\ new.bits[step + 1] = b
    BY <2>2, AppendProperties
  <2> QED BY <1>1, <2>1, <2>2, <2>3
<1> HIDE DEF new
<1>6. /\ tasks' \in Seq(HwTask) /\ T' = T /\ tasks'[T] = new
      /\ \A t \in 1 .. T : t # T => tasks'[t] = tasks[t]
  <2>1. tasks \in Seq(HwTask) /\ Len(tasks) = T /\ DOMAIN tasks = 1 .. T
    BY DEF Typed, T
  <2>2. DOMAIN tasks' = 1 .. T /\ \A t \in 1 .. T : tasks'[t] = IF t = T THEN new ELSE tasks[t]
    BY <1>4, <2>1
  <2>3. tasks' \in [1 .. T -> HwTask]
    BY <1>1, <1>3, <1>4, <2>1, <2>2
  <2>4. tasks' \in Seq(HwTask) /\ Len(tasks') = T
    BY <1>1, <2>3
  <2> QED BY <1>2, <2>2, <2>4 DEF T
<1>7. /\ P' = P /\ \A name : Named(name)' = Named(name)
      /\ \A t \in 1 .. T : tasks'[t].part = tasks[t].part /\ ~tasks'[t].freed
      /\ \A t \in 1 .. T : BitsCount(t)' = BitsCount(t)
  BY <1>1, <1>3, <1>6 DEF P, Named, BitsCount
<1>8. Typed'
  <2>1. {step', lost', found', next'} \subseteq Nat
    BY <1>1 DEF Typed
  <2>2. kernel' \subseteq 0 .. next' - 1
    BY <1>1 DEF Typed
  <2> QED BY <1>6, <2>1, <2>2 DEF Typed
<1>9. RowsRead'
  <2>1. \A i \in 1 .. P : partitions[i].slots = Limit(SlotsCount(arch[i]))
    BY DEF RowsRead
  <2> QED BY <1>1, <1>7, <2>1 DEF RowsRead
<1>10. TasksRead'
  <2>1. ASSUME NEW t \in 1 .. T
        PROVE  /\ tasks'[t].part <= P'
               /\ InFirstNamed(t)'
               /\ Len(tasks'[t].bits) <= BitsCount(t)'
               /\ t < T => Len(tasks'[t].bits) = BitsCount(t)'
    <3>1. InFirstNamed(t)'
      BY <1>7 DEF TasksRead, InFirstNamed
    <3>2. CASE t = T
      <4>1. tasks'[t].part = tasks[t].part /\ tasks[t].part <= P /\ P' = P
        BY <1>2, <1>6, <1>7, <3>2 DEF TasksRead
      <4>2. Len(tasks'[t].bits) = step + 1
        BY <1>5, <1>6, <3>2
      <4>3. BitsCount(t)' = BitsCount(t) /\ step + 1 <= BitsCount(t) /\ T' = T
        <5>1. step + 1 <= BitsCount(T)
          BY <1>1, <1>2
        <5>2. BitsCount(T)' = BitsCount(T) /\ T' = T
          BY <1>2, <1>6, <1>7
        <5> QED BY <3>2, <5>1, <5>2
      <4> QED BY <3>1, <3>2, <4>1, <4>2, <4>3
    <3>3. CASE t # T
      <4>1. t < T /\ tasks'[t] = tasks[t]
        BY <1>1, <1>6, <3>3
      <4>2. Len(tasks[t].bits) = BitsCount(t)
        BY <4>1 DEF TasksRead
      <4> QED BY <1>1, <1>7, <3>1, <4>1, <4>2
    <3> QED BY <3>2, <3>3
  <2>2. stage' = "hw" => Len(tasks'[T].bits) = step'
    BY <1>5, <1>6
  <2> QED BY <1>1, <1>6, <1>7, <2>1, <2>2 DEF TasksRead
<1>11. BuffersHeld'
  <2>1. ASSUME NEW t \in 1 .. T, NEW s \in DOMAIN tasks'[t].bits
        PROVE  \/ /\ t = T /\ tasks'[t].bits[s] = b
               \/ /\ s \in DOMAIN tasks[t].bits /\ tasks'[t].bits[s] = tasks[t].bits[s]
                  /\ tasks[t].bits[s].got /\ tasks[t].bits[s].buff < next
                  /\ tasks[t].bits[s].buff \in kernel
    <3>1. CASE t = T /\ s = step + 1
      <4>1. tasks'[t].bits = new.bits
        BY <1>6, <3>1
      <4> QED BY <1>5, <3>1, <4>1
    <3>2. CASE ~(t = T /\ s = step + 1)
      <4>1. s \in DOMAIN tasks[t].bits /\ tasks'[t].bits[s] = tasks[t].bits[s]
        <5>1. CASE t = T
          <6>1. tasks'[t] = new
            BY <1>6, <5>1
          <6>2. s \in 1 .. step
            <7>1. s \in 1 .. step + 1
              BY <1>5, <6>1
            <7>2. s # step + 1
              BY <3>2, <5>1
            <7> QED BY <1>1, <7>1, <7>2
          <6> QED BY <1>5, <5>1, <6>1, <6>2
        <5>2. CASE t # T
          BY <1>6, <5>2
        <5> QED BY <5>1, <5>2
      <4> QED BY <1>1, <4>1 DEF BuffersHeld
    <3> QED BY <3>1, <3>2
  <2>2. ASSUME NEW t \in 1 .. T, NEW s \in DOMAIN tasks'[t].bits, tasks'[t].bits[s].got
        PROVE  /\ tasks'[t].bits[s].buff < next'
               /\ tasks'[t].bits[s].buff \in kernel'
               /\ \A u \in 1 .. T : \A r \in DOMAIN tasks'[u].bits :
                    tasks'[u].bits[r].got /\ tasks'[u].bits[r].buff = tasks'[t].bits[s].buff => u = t
    <3>1. tasks'[t].bits[s].buff \in Nat
      <4>1. tasks'[t] \in HwTask
        BY <1>1, <1>3, <1>6
      <4>2. tasks'[t].bits \in Seq(Bit)
        BY <4>1 DEF HwTask
      <4>3. tasks'[t].bits[s] \in Bit
        BY <4>2
      <4> QED BY <4>3 DEF Bit
    <3>2. tasks'[t].bits[s].buff < next' /\ tasks'[t].bits[s].buff \in kernel'
      <4>1. CASE tasks'[t].bits[s] = b
        BY <1>1, <2>2, <4>1
      <4>2. CASE /\ tasks'[t].bits[s] = tasks[t].bits[s]
                 /\ tasks[t].bits[s].buff < next /\ tasks[t].bits[s].buff \in kernel
        <5>1. /\ tasks'[t].bits[s].buff < next
              /\ tasks'[t].bits[s].buff \in kernel
          BY <4>2
        <5>2. next \in Nat /\ next' \in {next, next + 1} /\ kernel \subseteq kernel'
          BY <1>1 DEF Typed
        <5> QED BY <3>1, <5>1, <5>2
      <4> QED BY <2>1, <4>1, <4>2
    <3>3. ASSUME NEW u \in 1 .. T, NEW r \in DOMAIN tasks'[u].bits,
                 tasks'[u].bits[r].got, tasks'[u].bits[r].buff = tasks'[t].bits[s].buff
          PROVE  u = t
      <4>0. next \in Nat
        BY <1>1
      <4>1. CASE tasks'[t].bits[s] = b /\ t = T
        <5>1. tasks'[u].bits[r].buff = next
          BY <2>2, <3>3, <4>1
        <5>2. ~(tasks'[u].bits[r].buff < next)
          BY <4>0, <5>1
        <5> QED BY <2>1, <4>1, <5>2
      <4>2. CASE tasks'[u].bits[r] = b /\ u = T
        <5>1. tasks'[t].bits[s].buff = next
          BY <3>3, <4>2
        <5>2. ~(tasks'[t].bits[s].buff < next)
          BY <4>0, <5>1
        <5> QED BY <2>1, <4>2, <5>2
      <4>3. CASE /\ s \in DOMAIN tasks[t].bits /\ tasks'[t].bits[s] = tasks[t].bits[s]
                 /\ r \in DOMAIN tasks[u].bits /\ tasks'[u].bits[r] = tasks[u].bits[r]
        BY <2>2, <3>3, <4>3 DEF BuffersHeld
      <4> QED BY <2>1, <4>1, <4>2, <4>3
    <3> QED BY <3>2, <3>3
  <2>3. ASSUME NEW t \in 1 .. T, NEW s \in DOMAIN tasks'[t].bits, ~tasks'[t].bits[s].got
        PROVE  t = T /\ stage' = "free"
    BY <2>1, <2>3
  <2> QED BY <1>6, <2>2, <2>3 DEF BuffersHeld
<1>12. FreedInTurn' /\ GivenBack'
  BY <1>6, <1>7 DEF FreedInTurn, GivenBack
<1> QED BY <1>8, <1>9, <1>10, <1>11, <1>12

LEMMA BitsKeep ==
    ASSUME LayoutKept, UNCHANGED garbage, LoadBit \/ AllocBitFails \/ ReadBitFails
    PROVE  LayoutKept'
<1>1. next \in Nat /\ step \in Nat /\ mapped \subseteq kernel
  BY DEF LayoutKept, Typed
<1>2. CASE LoadBit
  <2>1. [buff |-> next, got |-> TRUE] \in Bit
    BY <1>1 DEF Bit
  <2>2. /\ UNCHANGED <<arch, hw, partitions, found, lost>>
        /\ stage = "hw" /\ ~TaskDone /\ tasks' = WithBit([buff |-> next, got |-> TRUE])
        /\ next' = next + 1 /\ step' = step + 1 /\ step' \in Nat /\ stage' = stage
        /\ kernel' = kernel \cup {next} /\ mapped' \subseteq kernel'
    BY <1>1, <1>2 DEF LoadBit
  <2>3. [buff |-> next, got |-> TRUE].got /\ [buff |-> next, got |-> TRUE].buff = next
    OBVIOUS
  <2> QED BY <2>1, <2>2, <2>3, WithBitKeeps
<1>3. CASE AllocBitFails
  <2>1. [buff |-> 0, got |-> FALSE] \in Bit
    BY DEF Bit
  <2> QED BY <1>1, <1>3, <2>1, WithBitKeeps DEF AllocBitFails, Clean
<1>4. CASE ReadBitFails
  <2>1. [buff |-> next, got |-> TRUE] \in Bit
    BY <1>1 DEF Bit
  <2>2. mapped' \subseteq kernel' /\ kernel' = kernel \cup {next}
    BY <1>1, <1>4 DEF ReadBitFails
  <2> QED BY <1>1, <1>4, <2>1, <2>2, WithBitKeeps DEF ReadBitFails, Clean
<1> QED BY <1>2, <1>3, <1>4

-----------------------------------------------------------------------------
(* Taking the layout down.                                                 *)

LEMMA LayoutShape ==
    ASSUME LayoutKept
    PROVE  /\ P \in Nat /\ T \in Nat /\ \A i \in 1 .. P : partitions[i] \in Partition
           /\ \A t \in 1 .. T : tasks[t] \in HwTask /\ tasks[t].part \in 1 .. P
<1>1. P \in Nat /\ T \in Nat
  BY DEF LayoutKept, Typed, P, T
<1>2. ASSUME NEW i \in 1 .. P PROVE partitions[i] \in Partition
  BY <1>1 DEF LayoutKept, Typed, P
<1>3. ASSUME NEW t \in 1 .. T PROVE tasks[t] \in HwTask /\ tasks[t].part \in 1 .. P
  <2>1. tasks[t] \in HwTask
    BY <1>1 DEF LayoutKept, Typed, T
  <2>2. tasks[t].part <= P
    BY DEF LayoutKept, TasksRead
  <2> QED BY <1>1, <2>1, <2>2 DEF HwTask
<1> QED BY <1>1, <1>2, <1>3

LEMMA FreePartitionsKeeps ==
    ASSUME LayoutKept, UNCHANGED garbage, FreePartitions
    PROVE  LayoutKept'
<1> USE DEF LayoutKept
<1>1. /\ stage = "free" /\ partitions' = [i \in 1 .. P |-> [partitions[i] EXCEPT !.freed = TRUE]]
      /\ UNCHANGED <<arch, hw, stage, step, lost, found, tasks, kernel, next, mapped>>
  BY DEF FreePartitions, memory
<1>2. P \in Nat /\ T \in Nat /\ \A i \in 1 .. P : partitions[i] \in Partition
  BY DEF Typed, P, T
<1>3. /\ partitions' \in Seq(Partition) /\ P' = P /\ T' = T
      /\ \A i \in 1 .. P : /\ partitions'[i].name = partitions[i].name
                           /\ partitions'[i].slots = partitions[i].slots
  <2>1. \A i \in 1 .. P : [partitions[i] EXCEPT !.freed = TRUE] \in Partition
    BY <1>2 DEF Partition
  <2>2. partitions' \in [1 .. P -> Partition]
    BY <1>1, <2>1
  <2>3. partitions' \in Seq(Partition) /\ Len(partitions') = P
    BY <1>2, <2>2
  <2>4. ASSUME NEW i \in 1 .. P
        PROVE  /\ partitions'[i].name = partitions[i].name
               /\ partitions'[i].slots = partitions[i].slots
    <3>1. partitions'[i] = [partitions[i] EXCEPT !.freed = TRUE]
      BY <1>1
    <3>2. partitions[i] \in Partition
      BY <1>2
    <3> QED BY <3>1, <3>2 DEF Partition
  <2> QED BY <1>1, <2>3, <2>4 DEF P, T
<1>4. Typed'
  BY <1>1, <1>3 DEF Typed
<1>5. RowsRead'
  BY <1>1, <1>2, <1>3 DEF RowsRead
<1>6. TasksRead'
  <2>1. \A name : Named(name)' = Named(name)
    BY <1>3 DEF Named
  <2>2. ASSUME NEW t \in 1 .. T
        PROVE  InFirstNamed(t)' /\ BitsCount(t)' = BitsCount(t)
    <3>1. tasks[t] \in HwTask /\ tasks[t].part <= P
      BY DEF Typed, T, TasksRead
    <3>2. tasks[t].part \in 1 .. P
      BY <1>2, <3>1 DEF HwTask
    <3>3. InFirstNamed(t)'
      BY <1>1, <2>1 DEF TasksRead, InFirstNamed
    <3> QED BY <1>1, <1>3, <3>2, <3>3 DEF BitsCount
  <2> QED BY <1>1, <1>3, <2>2 DEF TasksRead
<1> QED
  BY <1>1, <1>3, <1>4, <1>5, <1>6 DEF BuffersHeld, FreedInTurn, GivenBack

LEMMA FreeTaskKeeps ==
    ASSUME LayoutKept, UNCHANGED garbage, NEW t \in 1 .. T, FreeTask(t)
    PROVE  LayoutKept'
<1> USE DEF LayoutKept
<1>1. /\ stage = "free" /\ Turn(t) /\ tasks' = [tasks EXCEPT ![t].freed = TRUE]
      /\ UNCHANGED <<arch, hw, stage, step, partitions, lost, found, next, mapped>>
  BY DEF FreeTask
<1>2. PICK n \in garbage \cup {BitsCount(t)} :
        kernel' = kernel \ (Frees(tasks[t].bits, n) \ mapped)
  BY DEF FreeTask
<1>3. T \in Nat /\ tasks \in Seq(HwTask) /\ \A u \in 1 .. T : tasks[u] \in HwTask
  BY DEF Typed, T
<1>4. /\ tasks' \in Seq(HwTask) /\ T' = T /\ tasks'[t].freed
      /\ \A u \in 1 .. T : u # t => tasks'[u] = tasks[u]
      /\ \A u \in 1 .. T : tasks'[u].part = tasks[u].part /\ tasks'[u].bits = tasks[u].bits
  <2> DEFINE new == [tasks[t] EXCEPT !.freed = TRUE]
  <2>1. new \in HwTask /\ new.freed /\ new.part = tasks[t].part /\ new.bits = tasks[t].bits
    BY <1>3 DEF HwTask
  <2>2. tasks' = [tasks EXCEPT ![t] = new]
    BY <1>1
  <2> HIDE DEF new
  <2>3. Len(tasks) = T /\ DOMAIN tasks = 1 .. T
    BY <1>3 DEF T
  <2>4. DOMAIN tasks' = 1 .. T /\ \A u \in 1 .. T : tasks'[u] = IF u = t THEN new ELSE tasks[u]
    BY <2>2, <2>3
  <2>5. tasks' \in [1 .. T -> HwTask]
    BY <1>3, <2>1, <2>2, <2>3, <2>4
  <2>6. tasks' \in Seq(HwTask) /\ Len(tasks') = T
    BY <1>3, <2>5
  <2> QED BY <2>1, <2>4, <2>6 DEF T
<1>5. P' = P /\ \A name : Named(name)' = Named(name)
  BY <1>1 DEF P, Named
<1>6. kernel' \subseteq kernel /\ mapped \subseteq kernel'
  BY <1>2 DEF Typed
<1>7. Typed'
  BY <1>1, <1>4, <1>6 DEF Typed
<1>8. RowsRead'
  BY <1>1, <1>5 DEF RowsRead
<1>9. TasksRead'
  <2>1. ASSUME NEW u \in 1 .. T
        PROVE  InFirstNamed(u)' /\ BitsCount(u)' = BitsCount(u)
    BY <1>1, <1>4, <1>5 DEF TasksRead, InFirstNamed, BitsCount
  <2> QED BY <1>1, <1>4, <1>5, <2>1 DEF TasksRead
<1>10. BuffersHeld'
  <2>1. ASSUME NEW u \in 1 .. T, NEW s \in DOMAIN tasks[u].bits, tasks[u].bits[s].got, u # t,
               ~tasks[u].freed
        PROVE  tasks[u].bits[s].buff \in kernel'
    <3>1. t < u
      <4>1. ~(u < t)
        BY <1>1, <2>1 DEF Turn
      <4> QED BY <1>3, <2>1, <4>1
    <3>2. ASSUME NEW r \in DOMAIN tasks[t].bits, tasks[t].bits[r].buff = tasks[u].bits[s].buff
          PROVE  FALSE
      <4>1. CASE tasks[t].bits[r].got
        BY <2>1, <3>2, <4>1 DEF BuffersHeld
      <4>2. CASE ~tasks[t].bits[r].got
        <5>1. t = T
          BY <4>2 DEF BuffersHeld
        <5> QED BY <1>3, <3>1, <5>1
      <4> QED BY <4>1, <4>2
    <3>3. tasks[u].bits[s].buff \notin Frees(tasks[t].bits, n)
      BY <3>2 DEF Frees
    <3>4. tasks[u].bits[s].buff \in kernel
      BY <2>1 DEF BuffersHeld
    <3> QED BY <1>2, <3>3, <3>4
  <2>2. ASSUME NEW u \in 1 .. T, ~tasks'[u].freed
        PROVE  u # t /\ ~tasks[u].freed
    BY <1>4, <2>2
  <2> QED BY <1>1, <1>4, <2>1, <2>2 DEF BuffersHeld
<1>11. FreedInTurn'
  <2>1. ASSUME NEW u \in 1 .. T, tasks'[u].freed
        PROVE  \A v \in 1 .. u - 1 : tasks'[v].freed
    <3>1. \A v \in 1 .. u - 1 : v \in 1 .. T /\ tasks[v].freed
      BY <1>1, <1>3, <1>4, <2>1 DEF FreedInTurn, Turn
    <3> QED BY <1>4, <3>1
  <2> QED BY <1>1, <1>4, <2>1 DEF FreedInTurn
<1>12. GivenBack'
  <2>1. SUFFICES ASSUME garbage = {}, NEW u \in 1 .. T, tasks'[u].freed,
                        NEW s \in DOMAIN tasks[u].bits, tasks[u].bits[s].got,
                        tasks[u].bits[s].buff \notin mapped
                 PROVE  tasks[u].bits[s].buff \notin kernel'
    BY <1>1, <1>4 DEF GivenBack
  <2>2. CASE u = t
    <3>1. n = BitsCount(t)
      BY <1>2, <2>1
    <3>2. Len(tasks[t].bits) <= n /\ tasks[t].bits \in Seq(Bit)
      BY <1>3, <3>1 DEF TasksRead, HwTask
    <3>3. s \in 1 .. n
      <4>1. n \in Nat
        <5>1. tasks[t].part \in 1 .. P
          BY LayoutShape
        <5>2. partitions[tasks[t].part] \in Partition
          BY <5>1, LayoutShape
        <5> QED BY <3>1, <5>2 DEF BitsCount, Partition
      <4> QED BY <2>1, <2>2, <3>2, <4>1
    <3>4. tasks[t].bits[s].buff \in Frees(tasks[t].bits, n)
      BY <2>1, <2>2, <3>3 DEF Frees
    <3> QED BY <1>2, <2>1, <2>2, <3>4
  <2>3. CASE u # t
    BY <1>4, <1>6, <2>1, <2>3 DEF GivenBack
  <2> QED BY <2>2, <2>3
<1> QED BY <1>7, <1>8, <1>9, <1>10, <1>11, <1>12

-----------------------------------------------------------------------------
(* Any step, and what follows.                                             *)

LEMMA LayoutStepKeeps ==
    ASSUME LayoutKept, UNCHANGED garbage, LayoutNext
    PROVE  LayoutKept'
<1>0. step \in Nat /\ lost \in Nat
  BY DEF LayoutKept, Typed
<1>1. CASE ArchFails \/ NewSlotFails \/ HwFails \/ NewTaskFails \/ OpenBitFails \/ Shutdown
  <2>1. Settled /\ stage \in {"arch", "hw", "up"} /\ Clean /\ step' = step /\ lost' \in Nat
    BY <1>0, <1>1
       DEF ArchFails, NewSlotFails, HwFails, NewTaskFails, OpenBitFails, Shutdown, Settled, memory
  <2> QED BY <2>1, CleanKeeps
<1>2. CASE Open \/ PartitionsBuilt \/ TasksBuilt \/ NewTimerAborts \/ Exit
  BY <1>2, StagesKeep
<1>3. CASE NewPartition \/ NewSlot \/ NewTask
  BY <1>3, NewPartitionKeeps, NewSlotKeeps, NewTaskKeeps
<1>4. CASE LoadBit \/ AllocBitFails \/ ReadBitFails \/ ReadBitAborts
  BY <1>4, BitsKeep DEF ReadBitAborts
<1>5. CASE FreePartitions
  BY <1>5, FreePartitionsKeeps
<1>6. CASE \E t \in 1 .. T : FreeTask(t)
  BY <1>6, FreeTaskKeeps
<1> QED
  BY <1>1, <1>2, <1>3, <1>4, <1>5, <1>6 DEF LayoutNext, Building, Freeing

LEMMA LayoutStutters ==
    ASSUME LayoutKept, UNCHANGED <<garbage, arch, hw, stage, step, partitions, lost, found, tasks, memory>>
    PROVE  LayoutKept'
<1> USE DEF LayoutKept, P, T, memory
<1>1. Typed' /\ RowsRead'
  BY DEF Typed, RowsRead
<1>2. TasksRead'
  BY DEF TasksRead, InFirstNamed, Named, BitsCount
<1>3. BuffersHeld' /\ FreedInTurn' /\ GivenBack'
  BY DEF BuffersHeld, FreedInTurn, GivenBack
<1> QED BY <1>1, <1>2, <1>3

\* The types and bounds of the layout.
LEMMA LayoutTypes == ASSUME LayoutKept PROVE TypeOK
<1> USE DEF LayoutKept
<1>1. P \in Nat /\ T \in Nat /\ next \in Nat /\ MaxSlots \in Nat
  BY LayoutShape, ConstantsAssumption DEF Typed
<1>2. \A i \in 1 .. P : partitions[i].slots \in 0 .. MaxSlots - 1
  BY LayoutShape DEF Partition
<1>3. ASSUME NEW t \in 1 .. T
      PROVE  tasks[t].part \in 1 .. P /\ Len(tasks[t].bits) <= MaxSlots
  <2>1. tasks[t] \in HwTask
    BY LayoutShape
  <2>2. tasks[t].part \in 1 .. P /\ Len(tasks[t].bits) \in Nat
    BY <2>1, LayoutShape DEF HwTask
  <2>3. Len(tasks[t].bits) <= BitsCount(t) /\ BitsCount(t) \in 0 .. MaxSlots - 1
    BY <1>2, <2>2 DEF TasksRead, BitsCount
  <2> QED BY <1>1, <2>2, <2>3
<1> QED BY <1>1, <1>2, <1>3 DEF TypeOK, Typed, Ids

\* LayoutMatchesTables and BitstreamForEverySlot of FredServer's runs.
LEMMA LayoutIsComplete == ASSUME LayoutKept PROVE LayoutMatchesTables /\ BitstreamForEverySlot
<1> USE DEF LayoutKept
<1>1. SUFFICES ASSUME stage = "up" PROVE LayoutMatchesTables /\ BitstreamForEverySlot
  BY DEF LayoutMatchesTables, BitstreamForEverySlot
<1>2. P = Len(arch) /\ T = Len(hw)
  BY <1>1 DEF RowsRead, TasksRead
<1>3. \A i \in 1 .. P : partitions[i].slots = SlotsCount(arch[i]) \/ SlotsCount(arch[i]) >= MaxSlots
  <2>1. ASSUME NEW i \in 1 .. P
        PROVE  partitions[i].slots = Limit(SlotsCount(arch[i])) /\ SlotsCount(arch[i]) \in Nat
    <3>1. arch[i] \in STRING \X Nat
      BY <1>2 DEF Typed
    <3> QED BY <1>1, <3>1 DEF RowsRead, SlotsCount
  <2> QED BY <2>1, ConstantsAssumption DEF Limit
<1>4. ASSUME NEW t \in 1 .. T
      PROVE  LET same == {i \in 1 .. P : PartitionName(arch[i]) = PartitionOf(hw[t])}
             IN  same # {} => tasks[t].part \in same /\ \A i \in same : tasks[t].part <= i
  <2>1. Named(PartitionOf(hw[t])) = {i \in 1 .. P : PartitionName(arch[i]) = PartitionOf(hw[t])}
    BY DEF Named, RowsRead
  <2> QED BY <2>1 DEF TasksRead, InFirstNamed
<1>5. ASSUME NEW t \in 1 .. T, NEW s \in 1 .. partitions[tasks[t].part].slots
      PROVE  s \in DOMAIN tasks[t].bits /\ tasks[t].bits[s].buff \in kernel
  <2>1. tasks[t] \in HwTask
    BY DEF Typed, T
  <2>2. Len(tasks[t].bits) = partitions[tasks[t].part].slots /\ tasks[t].bits \in Seq(Bit)
    BY <1>1, <2>1 DEF TasksRead, BitsCount, HwTask
  <2>3. s \in DOMAIN tasks[t].bits
    BY <2>2
  <2>4. ~tasks[t].freed /\ tasks[t].bits[s].got
    BY <1>1, <2>3 DEF FreedInTurn, BuffersHeld
  <2> QED BY <2>3, <2>4 DEF BuffersHeld
<1> QED
  BY <1>2, <1>3, <1>4, <1>5 DEF LayoutMatchesTables, BitstreamForEverySlot

\* OnlyOwnFreed of FredServer's runs.
LEMMA OnlyOwnAreFreed == ASSUME LayoutKept PROVE OnlyOwnFreed
BY DEF LayoutKept, BuffersHeld, OnlyOwnFreed

\* The layout has finitely many sources of events.
LEMMA WantedIsNumber == ASSUME LayoutKept PROVE Wanted \in Nat
<1> DEFINE all == (1 .. P) \X ((1 .. MaxSlots) \X {"slot", "timer"})
<1>1. P \in Nat /\ \A i \in 1 .. P : partitions[i].slots \in 0 .. MaxSlots - 1
  BY LayoutShape DEF Partition
<1>2. IsFiniteSet(all)
  <2>1. IsFiniteSet(1 .. P) /\ IsFiniteSet(1 .. MaxSlots)
    BY <1>1, ConstantsAssumption, FS_Interval
  <2>2. IsFiniteSet({"slot"} \cup {"timer"})
    BY FS_Singleton, FS_Union
  <2>3. {"slot", "timer"} = {"slot"} \cup {"timer"}
    OBVIOUS
  <2>4. IsFiniteSet((1 .. MaxSlots) \X {"slot", "timer"})
    BY <2>1, <2>2, <2>3, FS_Product
  <2> QED BY <2>1, <2>4, FS_Product
<1>3. (UNION {{i} \X ((1 .. partitions[i].slots) \X {"slot", "timer"}) : i \in 1 .. P}) \in SUBSET all
  <2>1. ASSUME NEW i \in 1 .. P
        PROVE  1 .. partitions[i].slots \subseteq 1 .. MaxSlots
    BY <1>1, ConstantsAssumption
  <2> QED BY <2>1
<1> HIDE DEF all
<1> QED BY <1>2, <1>3, FS_Subset, FS_CardinalityType DEF Wanted

-----------------------------------------------------------------------------
(* The server: its steps, its components and its table.                    *)

\* The orders of fred_sys_init, its error chains and fred_sys_free.
SetUp ==
    [i \in 1 .. 12 |->
        IF i <= 8 THEN <<"build", F!Builds[i]>> ELSE <<"register", F!Registers[i - 8]>>]
ErrorChain == <<"client", "layout", "buffctl", "reactor", "logger", "sched", "devcfg">>
Closing == <<"reactor", "sched", "layout", "devcfg", "buffctl", "logger">>

\* The first n elements of s without the first k of them.
Rest(s, n, k) == [i \in 1 .. n - k |-> s[i + k]]

Statuses == {"none", "live", "freed", "twice", "left"}

\* epoll_ctl has refused the listener or the cyclic client, which is freed twice.
Refused == cause = <<"refused", "client">>

Unspoilt == cause = <<"none", "none">>

Alive(r) == status[r] = "live"
Held(h) == {e \in F!Entries : table[e].h = h}

\* The handlers of set, and no others, are in the table; each once, but for the
\* sources of the layout.
Heard(set) ==
    /\ \A e \in F!Entries : table[e].h \in set \cup {"none"}
    /\ \A h \in set \ {"layout"} : \E e \in F!Entries : Held(h) = {e}
    /\ "layout" \in set => Cardinality(Held("layout")) = Wanted

\* k steps of the set-up are done.
InSetUp(k) ==
    /\ todo = Rest(SetUp, 12, k)
    /\ k < 5 => stage = "none"
    /\ k > 5 => stage = "up"
    /\ \A i \in 1 .. 8 : status[F!Builds[i]] = IF i <= k THEN "live" ELSE "none"
    /\ \A c \in Sessions : status[c] = "none"
    /\ Heard({F!Registers[i] : i \in 1 .. k - 8})

\* What a server in service is heard by: all but a session that found no entry.
Hearing ==
    {F!Registers[i] : i \in 1 .. 4} \cup {c \in Sessions : Alive(c) /\ cause # <<"full", c>>}

InService ==
    /\ stage = "up"
    /\ \A i \in 1 .. 8 : Alive(F!Builds[i])
    /\ \A c \in Sessions : Alive(c) \/ Gone(c)
    /\ Heard(Hearing)

\* Until the reactor is freed it has the signal receiver if that was built and
\* registered.
SignalsWith(reactorFreed) ==
    IF reactorFreed THEN Held("signals") = {} /\ status["signals"] \in {"none", "freed"}
    ELSE status["signals"] = IF Held("signals") = {} THEN "none" ELSE "live"

\* k steps of the error chains are done, or skipped.
InUndo(k) ==
    /\ todo = Rest(ErrorChain, 7, k)
    /\ k = 0 => stage = "up"
    /\ k = 1 => stage \in {"up", "free", "exit"}
    /\ k > 1 => stage \in {"none", "exit"}
    /\ \A i \in 1 .. 7 : IF i <= 7 - k THEN Alive(F!Builds[i]) ELSE Gone(F!Builds[i])
    /\ \A c \in Sessions : Gone(c)
    /\ \A e \in F!Entries :
          \/ table[e].h \in {"none", "signals", "devcfg", "layout"}
          \/ table[e].h = "client" /\ Refused
    /\ SignalsWith(k > 3)

\* k steps of the end are done.
InClosing(k) ==
    /\ todo = Rest(Closing, 6, k)
    /\ k < 2 => stage = "up"
    /\ k = 2 => stage \in {"up", "free", "exit"}
    /\ k > 2 => stage = "exit"
    /\ \A i \in 1 .. 6 : IF i <= k THEN Gone(Closing[i]) ELSE Alive(Closing[i])
    /\ \A r \in Sessions \cup {"client", "signals"} : Gone(r)
    /\ \A e \in F!Entries : table[e].h \in {"none", "devcfg", "layout"}

TableTyped ==
    /\ table \in [F!Entries -> [h : F!Components \cup {"none"}, owned : BOOLEAN]]
    /\ \A e \in F!Entries : table[e].owned <=> table[e].h # "none" /\ F!Owned(table[e].h)

ServerTyped ==
    /\ mode \in Modes
    /\ phase \in {"init", "undo", "running", "clearing", "closing", "exit", "aborted"}
    /\ status \in [F!Components -> Statuses]
    /\ TableTyped

ServerKept ==
    /\ LayoutKept /\ ServerTyped
    /\ phase \in {"init", "running"} => Unspoilt
    /\ phase = "init" => \E k \in 0 .. 12 : InSetUp(k)
    /\ phase \in {"running", "clearing"} => InService
    /\ phase = "undo" => \E k \in 0 .. 7 : InUndo(k)
    /\ phase = "closing" => \E k \in 0 .. 6 : InClosing(k)
    /\ phase = "exit" => stage \in {"none", "exit"} /\ \A r \in F!Components : Gone(r)
    /\ phase = "aborted" => \A r \in F!Components : status[r] # "twice"
    /\ ~Refused => stale = {}

-----------------------------------------------------------------------------
(* Names, orders and the table.                                            *)

Names == {"devcfg", "sched", "logger", "reactor", "buffctl", "layout", "client", "signals"}

LEMMA NamesApart ==
    /\ F!Components = Names \cup Sessions
    /\ Names \cap Sessions = {} /\ "none" \notin F!Components
    /\ \A c \in Sessions : F!Owned(c) /\ F!Uses(c) = {"buffctl"}
    /\ F!Owned("signals") /\ F!Owned("client") /\ ~F!Owned("devcfg") /\ ~F!Owned("layout")
<1>1. F!Components = Names \cup Sessions
  BY DEF F!Components, F!Base, Names
<1>2. Names \cap Sessions = {} /\ "none" \notin Sessions
  BY SessionsAssumption DEF F!Base, Names
<1>3. \A c \in Sessions : F!Owned(c) /\ F!Uses(c) = {"buffctl"}
  BY <1>2 DEF F!Owned, F!Uses, Names
<1> QED BY <1>1, <1>2, <1>3 DEF F!Owned, Names

LEMMA Orders ==
    /\ F!Builds[1] = "devcfg" /\ F!Builds[2] = "sched" /\ F!Builds[3] = "logger"
    /\ F!Builds[4] = "reactor" /\ F!Builds[5] = "buffctl" /\ F!Builds[6] = "layout"
    /\ F!Builds[7] = "client" /\ F!Builds[8] = "signals"
    /\ F!Registers[1] = "signals" /\ F!Registers[2] = "devcfg"
    /\ F!Registers[3] = "layout" /\ F!Registers[4] = "client"
    /\ ErrorChain[1] = "client" /\ ErrorChain[2] = "layout" /\ ErrorChain[3] = "buffctl"
    /\ ErrorChain[4] = "reactor" /\ ErrorChain[5] = "logger" /\ ErrorChain[6] = "sched"
    /\ ErrorChain[7] = "devcfg"
    /\ Closing[1] = "reactor" /\ Closing[2] = "sched" /\ Closing[3] = "layout"
    /\ Closing[4] = "devcfg" /\ Closing[5] = "buffctl" /\ Closing[6] = "logger"
BY DEF F!Builds, F!Registers, ErrorChain, Closing

LEMMA BuildsAreNames ==
    /\ \A i \in 1 .. 8 : F!Builds[i] \in Names
    /\ \A r \in Names : \E i \in 1 .. 8 : F!Builds[i] = r
    /\ \A i, j \in 1 .. 8 : F!Builds[i] = F!Builds[j] => i = j
    /\ \A i \in 1 .. 7 : ErrorChain[i] = F!Builds[8 - i]
<1>1. \A i \in 1 .. 8 : i \in {1, 2, 3, 4, 5, 6, 7, 8}
  OBVIOUS
<1>2. \A i \in 1 .. 8 : F!Builds[i] \in Names
  BY <1>1, Orders DEF Names
<1>3. \A r \in Names : \E i \in 1 .. 8 : F!Builds[i] = r
  BY Orders DEF Names
<1>4. \A i, j \in 1 .. 8 : F!Builds[i] = F!Builds[j] => i = j
  BY <1>1, Orders
<1>5. \A i \in 1 .. 7 : ErrorChain[i] = F!Builds[8 - i]
  BY Orders
<1> QED BY <1>2, <1>3, <1>4, <1>5

LEMMA RestSteps ==
    ASSUME NEW n \in Nat, NEW s, NEW k \in 0 .. n
    PROVE  /\ Rest(s, n, k) # << >> <=> k < n
           /\ k < n => Head(Rest(s, n, k)) = s[k + 1] /\ Tail(Rest(s, n, k)) = Rest(s, n, k + 1)
<1> DEFINE S == {s[i] : i \in 1 .. n}
<1>1. Rest(s, n, k) \in [1 .. n - k -> S] /\ n - k \in Nat
  BY DEF Rest
<1> HIDE DEF S
<1>2. Rest(s, n, k) \in Seq(S) /\ Len(Rest(s, n, k)) = n - k
  BY <1>1
<1>3. Rest(s, n, k) # << >> <=> k < n
  BY <1>2
<1>4. ASSUME k < n
      PROVE  Head(Rest(s, n, k)) = s[k + 1] /\ Tail(Rest(s, n, k)) = Rest(s, n, k + 1)
  <2>1. Rest(s, n, k)[1] = s[k + 1]
    BY <1>4 DEF Rest
  <2>2. Head(Rest(s, n, k)) = s[k + 1]
    BY <1>2, <1>4, <2>1
  <2>3. Tail(Rest(s, n, k)) = [i \in 1 .. n - k - 1 |-> Rest(s, n, k)[i + 1]]
    <3>1. PICK q \in Seq(S) : q = Rest(s, n, k)
      BY <1>2
    <3>2. /\ Tail(q) \in Seq(S) /\ Len(Tail(q)) = n - k - 1
          /\ \A i \in 1 .. n - k - 1 : Tail(q)[i] = q[i + 1]
      BY <1>2, <1>4, <3>1, HeadTailProperties
    <3>3. Tail(q) \in [1 .. n - k - 1 -> S]
      BY <3>2, LenProperties
    <3>4. Tail(q) = [i \in 1 .. n - k - 1 |-> Tail(q)[i]]
      BY <3>3
    <3>5. [i \in 1 .. n - k - 1 |-> Tail(q)[i]] = [i \in 1 .. n - k - 1 |-> q[i + 1]]
      BY <3>2
    <3> QED BY <3>1, <3>4, <3>5
  <2>4. \A i \in 1 .. n - k - 1 : Rest(s, n, k)[i + 1] = s[i + (k + 1)]
    BY DEF Rest
  <2>5. Rest(s, n, k + 1) = [i \in 1 .. n - k - 1 |-> s[i + (k + 1)]]
    <3>1. n - (k + 1) = n - k - 1
      OBVIOUS
    <3> QED BY <3>1 DEF Rest
  <2> QED BY <2>2, <2>3, <2>4, <2>5
<1> QED BY <1>3, <1>4

LEMMA SetUpSteps ==
    ASSUME NEW k \in 0 .. 12
    PROVE  /\ Rest(SetUp, 12, k) # << >> <=> k < 12
           /\ k < 12 => Tail(Rest(SetUp, 12, k)) = Rest(SetUp, 12, k + 1)
           /\ k < 8 => Head(Rest(SetUp, 12, k)) = <<"build", F!Builds[k + 1]>>
           /\ 8 <= k /\ k < 12 => Head(Rest(SetUp, 12, k)) = <<"register", F!Registers[k - 7]>>
<1>2. /\ Rest(SetUp, 12, k) # << >> <=> k < 12
      /\ k < 12 => Head(Rest(SetUp, 12, k)) = SetUp[k + 1]
                    /\ Tail(Rest(SetUp, 12, k)) = Rest(SetUp, 12, k + 1)
  BY RestSteps
<1>3. k < 8 => SetUp[k + 1] = <<"build", F!Builds[k + 1]>>
  <2>1. k < 8 => k + 1 \in 1 .. 12 /\ k + 1 <= 8
    OBVIOUS
  <2> QED BY <2>1 DEF SetUp
<1>4. 8 <= k /\ k < 12 => SetUp[k + 1] = <<"register", F!Registers[k - 7]>>
  <2>1. (k + 1) - 8 = k - 7 /\ (8 <= k /\ k < 12 => k + 1 \in 1 .. 12 /\ ~(k + 1 <= 8))
    OBVIOUS
  <2> QED BY <2>1 DEF SetUp
<1> QED BY <1>2, <1>3, <1>4

LEMMA ChainSteps ==
    ASSUME NEW k \in 0 .. 7
    PROVE  /\ Rest(ErrorChain, 7, k) # << >> <=> k < 7
           /\ k < 7 => /\ Head(Rest(ErrorChain, 7, k)) = F!Builds[7 - k]
                       /\ Tail(Rest(ErrorChain, 7, k)) = Rest(ErrorChain, 7, k + 1)
<1>1. /\ Rest(ErrorChain, 7, k) # << >> <=> k < 7
      /\ k < 7 => /\ Head(Rest(ErrorChain, 7, k)) = ErrorChain[k + 1]
                  /\ Tail(Rest(ErrorChain, 7, k)) = Rest(ErrorChain, 7, k + 1)
  BY RestSteps
<1>2. k < 7 => ErrorChain[k + 1] = F!Builds[7 - k]
  <2>1. 8 - (k + 1) = 7 - k
    OBVIOUS
  <2> QED BY <2>1, BuildsAreNames
<1> QED BY <1>1, <1>2

LEMMA ClosingSteps ==
    ASSUME NEW k \in 0 .. 6
    PROVE  /\ Rest(Closing, 6, k) # << >> <=> k < 6
           /\ k < 6 => /\ Head(Rest(Closing, 6, k)) = Closing[k + 1]
                       /\ Tail(Rest(Closing, 6, k)) = Rest(Closing, 6, k + 1)
BY RestSteps

\* Each label of the error chains goes on in the chain.
LEMMA UndoIsRest ==
    /\ \A k \in 0 .. 6 : F!Undo(F!Builds[k + 1]) = Rest(ErrorChain, 7, 7 - k)
    /\ F!Undo("later") = Rest(ErrorChain, 7, 0)
<1>1. F!Undo("devcfg") = Rest(ErrorChain, 7, 7)
  BY DEF F!Undo, Rest
<1>2. F!Undo("sched") = Rest(ErrorChain, 7, 6)
  BY DEF F!Undo, Rest, ErrorChain
<1>3. F!Undo("logger") = Rest(ErrorChain, 7, 5)
  BY DEF F!Undo, Rest, ErrorChain
<1>4. F!Undo("reactor") = Rest(ErrorChain, 7, 4)
  BY DEF F!Undo, Rest, ErrorChain
<1>5. F!Undo("buffctl") = Rest(ErrorChain, 7, 3)
  BY DEF F!Undo, Rest, ErrorChain
<1>6. F!Undo("layout") = Rest(ErrorChain, 7, 2)
  BY DEF F!Undo, Rest, ErrorChain
<1>7. F!Undo("client") = Rest(ErrorChain, 7, 1)
  BY DEF F!Undo, Rest, ErrorChain
<1>8. F!Undo("later") = Rest(ErrorChain, 7, 0)
  BY DEF F!Undo, Rest, ErrorChain
<1> QED BY <1>1, <1>2, <1>3, <1>4, <1>5, <1>6, <1>7, <1>8, Orders

-----------------------------------------------------------------------------
(* The table of the reactor.                                               *)

LEMMA FreeAndOwned ==
    ASSUME TableTyped
    PROVE  /\ F!Free = Held("none")
           /\ \A h : h \in F!OwnedHandlers <=> h # "none" /\ F!Owned(h) /\ Held(h) # {}
<1>1. \A e \in F!Entries : table[e] = F!NoEntry <=> table[e].h = "none"
  <2>1. ASSUME NEW e \in F!Entries
        PROVE  table[e] = F!NoEntry <=> table[e].h = "none"
    <3>1. table[e] \in [h : F!Components \cup {"none"}, owned : BOOLEAN]
      BY DEF TableTyped
    <3>2. table[e] = [h |-> table[e].h, owned |-> table[e].owned] /\ table[e].owned \in BOOLEAN
      BY <3>1
    <3>3. table[e].h = "none" => table[e].owned = FALSE
      BY <3>2 DEF TableTyped
    <3>4. table[e].h = "none" => table[e] = F!NoEntry
      BY <3>2, <3>3 DEF F!NoEntry
    <3>5. table[e] = F!NoEntry => table[e].h = "none"
      BY DEF F!NoEntry
    <3> QED BY <3>4, <3>5
  <2> QED BY <2>1
<1>2. F!Free = Held("none")
  BY <1>1 DEF F!Free, Held
<1>3. ASSUME NEW h
      PROVE  h \in F!OwnedHandlers <=> h # "none" /\ F!Owned(h) /\ Held(h) # {}
  BY <1>1 DEF F!OwnedHandlers, F!Active, Held, TableTyped
<1> QED BY <1>2, <1>3

\* reactor_add_event_handler.
LEMMA AddedIsHeld ==
    ASSUME TableTyped, F!Free # {}, NEW h \in F!Components, table' = F!Added(h)
    PROVE  /\ TableTyped'
           /\ \E e \in F!Entries : table[e].h = "none" /\ Held(h)' = Held(h) \cup {e}
           /\ \A x : x # h /\ x # "none" => Held(x)' = Held(x)
           /\ \A e \in F!Entries : table'[e].h \in {h, table[e].h}
<1>1. F!Free \in SUBSET Nat
  BY ServerAssumption DEF F!Free, F!Entries
<1>2. F!FirstFree \in F!Free
  <2>1. \E m \in F!Free : \A n \in F!Free : m <= n
    BY <1>1, LeastOf
  <2> QED BY <2>1 DEF F!FirstFree
<1>3. PICK e \in F!Entries : e = F!FirstFree /\ table[e].h = "none"
  BY <1>2, FreeAndOwned DEF Held
<1>4. table' = [table EXCEPT ![e] = [h |-> h, owned |-> F!Owned(h)]]
  BY <1>3 DEF F!Added
<1>5. /\ DOMAIN table' = F!Entries /\ table'[e] = [h |-> h, owned |-> F!Owned(h)]
      /\ \A k \in F!Entries : k # e => table'[k] = table[k]
  BY <1>4 DEF TableTyped
<1>6. h # "none" /\ F!Owned(h) \in BOOLEAN
  BY NamesApart DEF F!Owned
<1>7. TableTyped'
  <2>1. ASSUME NEW k \in F!Entries
        PROVE  /\ table'[k] \in [h : F!Components \cup {"none"}, owned : BOOLEAN]
               /\ table'[k].owned <=> table'[k].h # "none" /\ F!Owned(table'[k].h)
    <3>1. CASE k = e
      BY <1>5, <1>6, <3>1
    <3>2. CASE k # e
      BY <1>5, <3>2 DEF TableTyped
    <3> QED BY <3>1, <3>2
  <2>2. table' \in [F!Entries -> [h : F!Components \cup {"none"}, owned : BOOLEAN]]
    BY <1>4, <1>6 DEF TableTyped
  <2> QED BY <2>1, <2>2 DEF TableTyped
<1>8. Held(h)' = Held(h) \cup {e}
  BY <1>3, <1>5 DEF Held
<1>9. ASSUME NEW x, x # h, x # "none" PROVE Held(x)' = Held(x)
  BY <1>3, <1>5, <1>9 DEF Held
<1> QED BY <1>3, <1>5, <1>7, <1>8, <1>9

\* The first n elements of a set of numbers are n.
LEMMA FirstOnes ==
    ASSUME NEW N \in Nat, NEW S \in SUBSET (1 .. N), NEW n \in 0 .. Cardinality(S)
    PROVE  Cardinality({e \in S : Cardinality({i \in S : i <= e}) <= n}) = n
<1> DEFINE upTo(e) == {i \in S : i <= e}
<1> DEFINE first(m) == {e \in S : Cardinality(upTo(e)) <= m}
<1> DEFINE wrong == {m \in 0 .. Cardinality(S) : Cardinality(first(m)) # m}
<1>1. IsFiniteSet(S) /\ S \subseteq Nat /\ Cardinality(S) \in Nat
  <2>1. IsFiniteSet(1 .. N)
    BY FS_Interval
  <2>2. IsFiniteSet(S)
    BY <2>1, FS_Subset
  <2> QED BY <2>2, FS_CardinalityType
<1>2. \A U : U \in SUBSET S => IsFiniteSet(U) /\ Cardinality(U) \in Nat
  BY <1>1, FS_Subset, FS_CardinalityType
<1>3. \A e \in S : upTo(e) \in SUBSET S /\ e \in upTo(e) /\ Cardinality(upTo(e)) \in Nat
  BY <1>1, <1>2
<1>4. \A m : first(m) \in SUBSET S
  OBVIOUS
<1>5. SUFFICES ASSUME wrong # {} PROVE FALSE
  OBVIOUS
<1>6. wrong \in SUBSET Nat
  BY <1>1
<1>7. PICK m \in wrong : \A k \in wrong : m <= k
  <2> HIDE DEF wrong
  <2> QED BY <1>5, <1>6, LeastOf
<1>8. m \in 0 .. Cardinality(S) /\ Cardinality(first(m)) # m
  BY <1>7
<1>9. m # 0
  <2>1. \A e \in S : Cardinality(upTo(e)) # 0
    BY <1>2, <1>3, FS_EmptySet
  <2>2. ASSUME m = 0 PROVE first(m) = {}
    <3>1. \A e \in S : ~(Cardinality(upTo(e)) <= 0)
      BY <1>3, <2>1
    <3> QED BY <2>2, <3>1
  <2> QED BY <1>8, <2>2, FS_EmptySet
<1>10. m - 1 \in 0 .. Cardinality(S) /\ Cardinality(first(m - 1)) = m - 1
  <2>1. m - 1 \in 0 .. Cardinality(S) /\ ~(m <= m - 1)
    BY <1>1, <1>8, <1>9
  <2>2. m - 1 \notin wrong
    BY <1>7, <2>1
  <2> QED BY <2>1, <2>2
<1> DEFINE A == first(m - 1)
<1>11. A \in SUBSET S /\ IsFiniteSet(A) /\ Cardinality(A) = m - 1
  BY <1>2, <1>4, <1>10
<1>12. S \ A # {}
  <2>1. ASSUME S \ A = {} PROVE FALSE
    <3>1. A = S
      BY <1>11, <2>1
    <3>2. Cardinality(S) = m - 1
      BY <1>11, <3>1
    <3> QED BY <1>1, <1>8, <3>2
  <2> QED BY <2>1
<1>13. PICK e \in S \ A : \A k \in S \ A : e <= k
  <2>1. S \ A \in SUBSET Nat
    BY <1>1
  <2> HIDE DEF A
  <2> QED BY <1>12, <2>1, LeastOf
<1>14. \A x, y \in S : x <= y /\ y \in A => x \in A
  <2>1. ASSUME NEW x \in S, NEW y \in S, x <= y, y \in A PROVE x \in A
    <3>1. upTo(x) \subseteq upTo(y)
      <4>1. \A i \in S : i <= x => i <= y
        BY <1>1, <2>1
      <4> QED BY <4>1
    <3>2. Cardinality(upTo(x)) <= Cardinality(upTo(y))
      <4> HIDE DEF upTo
      <4> QED BY <1>2, <1>3, <3>1, FS_Subset
    <3>3. Cardinality(upTo(y)) <= m - 1
      BY <2>1
    <3>4. Cardinality(upTo(x)) <= m - 1
      BY <1>3, <1>8, <1>1, <3>2, <3>3
    <3> QED BY <3>4
  <2> QED BY <2>1
<1>15. upTo(e) = A \cup {e}
  <2>1. ASSUME NEW i \in S, i <= e, i # e PROVE i \in A
    BY <1>1, <1>13, <2>1
  <2>2. ASSUME NEW i \in A PROVE i <= e
    BY <1>1, <1>11, <1>13, <1>14
  <2>3. e <= e
    BY <1>1, <1>13
  <2> HIDE DEF A
  <2> QED BY <1>11, <1>13, <2>1, <2>2, <2>3
<1>16. Cardinality(upTo(e)) = m
  <2> HIDE DEF A, upTo
  <2>1. e \notin A /\ m \in Nat
    BY <1>1, <1>8, <1>13
  <2>2. Cardinality(A \cup {e}) = (m - 1) + 1
    BY <1>11, <2>1, FS_AddElement
  <2> QED BY <1>15, <2>1, <2>2
<1>17. first(m) = A \cup {e}
  <2>1. \A x \in A : x \in first(m)
    BY <1>1, <1>3, <1>8
  <2>2. e \in first(m)
    BY <1>1, <1>8, <1>13, <1>16
  <2>3. ASSUME NEW x \in first(m), x \notin A, x # e PROVE FALSE
    <3>1. x \in S /\ e < x
      BY <1>1, <1>4, <1>13, <2>3
    <3>2. upTo(e) \cup {x} \subseteq upTo(x) /\ x \notin upTo(e)
      <4>1. \A i \in S : i <= e => i <= x
        BY <1>1, <1>13, <3>1
      <4>2. x \in S /\ x <= x /\ ~(x <= e)
        BY <1>1, <1>13, <3>1
      <4> QED BY <4>1, <4>2
    <3>3. Cardinality(upTo(e) \cup {x}) = m + 1
      <4> HIDE DEF upTo
      <4> QED BY <1>2, <1>3, <1>13, <1>16, <3>2, FS_AddElement
    <3>4. m + 1 <= Cardinality(upTo(x))
      <4> HIDE DEF upTo
      <4> QED BY <1>2, <1>3, <3>1, <3>2, <3>3, FS_Subset
    <3>5. Cardinality(upTo(x)) <= m
      BY <2>3
    <3> QED BY <1>1, <1>3, <1>8, <3>1, <3>4, <3>5
  <2> HIDE DEF A, first
  <2> QED BY <2>1, <2>2, <2>3
<1> QED BY <1>8, <1>15, <1>16, <1>17

\* FiniteSets is one module.
LEMMA SameCount == \A S : F!Cardinality(S) = Cardinality(S)
BY DEF F!Cardinality, Cardinality

\* sys_layout_register_slots.
LEMMA FilledIsHeld ==
    ASSUME TableTyped, NEW n \in Nat, n <= Cardinality(F!Free), table' = F!Filled(n)
    PROVE  /\ TableTyped'
           /\ Held("layout") = {} => Cardinality(Held("layout")') = n
           /\ \A x : x # "layout" /\ x # "none" => Held(x)' = Held(x)
           /\ \A e \in F!Entries : table'[e].h \in {"layout", table[e].h}
<1> DEFINE taken == {e \in F!Free : Cardinality({i \in F!Free : i <= e}) <= n}
<1> DEFINE slot == [h |-> "layout", owned |-> F!Owned("layout")]
<1>1. F!Free \in SUBSET (1 .. TableSize) /\ TableSize \in Nat /\ F!Entries = 1 .. TableSize
  BY ServerAssumption DEF F!Free, F!Entries
<1>2. Cardinality(F!Free) \in Nat
  <2>1. IsFiniteSet(1 .. TableSize)
    BY <1>1, FS_Interval
  <2> QED BY <1>1, <2>1, FS_Subset, FS_CardinalityType
<1>3. Cardinality(taken) = n
  <2>1. n \in 0 .. Cardinality(F!Free)
    BY <1>2
  <2> QED BY <1>1, <2>1, FirstOnes
<1>4. taken \subseteq Held("none") /\ taken \subseteq F!Entries
  BY <1>1, FreeAndOwned
<1>5. /\ table' = [e \in F!Entries |-> table'[e]]
      /\ \A e \in F!Entries : table'[e] = IF e \in taken THEN slot ELSE table[e]
  <2>1. table' = [e \in F!Entries |-> table'[e]]
    BY DEF F!Filled
  <2>2. \A e \in F!Entries :
          table'[e] = IF e \in F!Free /\ Cardinality({i \in F!Free : i <= e}) <= n
                      THEN slot ELSE table[e]
    BY SameCount DEF F!Filled
  <2>3. \A e \in F!Entries :
          e \in taken <=> e \in F!Free /\ Cardinality({i \in F!Free : i <= e}) <= n
    OBVIOUS
  <2> HIDE DEF taken, slot
  <2> QED BY <2>1, <2>2, <2>3
<1>6. slot = [h |-> "layout", owned |-> FALSE] /\ "layout" \in F!Components
      /\ "layout" # "none" /\ F!Owned("layout") = FALSE
  BY NamesApart DEF Names, F!Owned
<1> HIDE DEF taken, slot
<1>7. \A e \in F!Entries : table'[e] = IF e \in taken THEN slot ELSE table[e]
  BY <1>5
<1>8. TableTyped'
  <2>1. ASSUME NEW k \in F!Entries
        PROVE  /\ table'[k] \in [h : F!Components \cup {"none"}, owned : BOOLEAN]
               /\ table'[k].owned <=> table'[k].h # "none" /\ F!Owned(table'[k].h)
    <3>1. CASE k \in taken
      <4>1. table'[k] = [h |-> "layout", owned |-> FALSE]
        BY <1>6, <1>7, <3>1
      <4>2. table'[k].h = "layout" /\ table'[k].owned = FALSE
        BY <4>1
      <4> QED BY <1>6, <4>1, <4>2
    <3>2. CASE k \notin taken
      BY <1>7, <3>2 DEF TableTyped
    <3> QED BY <3>1, <3>2
  <2>2. table' \in [F!Entries -> [h : F!Components \cup {"none"}, owned : BOOLEAN]]
    BY <1>5, <2>1
  <2> QED BY <2>1, <2>2 DEF TableTyped
<1>9. ASSUME Held("layout") = {} PROVE Held("layout")' = taken
  BY <1>4, <1>6, <1>7, <1>9 DEF Held
<1>10. ASSUME NEW x, x # "layout", x # "none" PROVE Held(x)' = Held(x)
  BY <1>4, <1>6, <1>7, <1>10 DEF Held
<1>11. \A e \in F!Entries : table'[e].h \in {"layout", table[e].h}
  BY <1>6, <1>7
<1> QED BY <1>3, <1>8, <1>9, <1>10, <1>11

\* free_all_events_source_.
LEMMA OwnedAreGone ==
    ASSUME TableTyped, table' = F!OwnedGone
    PROVE  /\ TableTyped'
           /\ \A x : x # "none" => Held(x)' = IF F!Owned(x) THEN {} ELSE Held(x)
           /\ \A e \in F!Entries : table'[e].h = IF table[e].owned THEN "none" ELSE table[e].h
<1>1. \A e \in F!Entries : table'[e] = IF table[e].owned THEN F!NoEntry ELSE table[e]
  BY DEF F!OwnedGone
<1>2. F!NoEntry = [h |-> "none", owned |-> FALSE]
  BY DEF F!NoEntry
<1>3. TableTyped'
  <2>1. ASSUME NEW k \in F!Entries
        PROVE  /\ table'[k] \in [h : F!Components \cup {"none"}, owned : BOOLEAN]
               /\ table'[k].owned <=> table'[k].h # "none" /\ F!Owned(table'[k].h)
    <3>1. CASE table[k].owned
      <4>1. table'[k] = [h |-> "none", owned |-> FALSE]
        BY <1>1, <1>2, <3>1
      <4>2. table'[k].h = "none" /\ table'[k].owned = FALSE
        BY <4>1
      <4> QED BY <4>1, <4>2
    <3>2. CASE ~table[k].owned
      BY <1>1, <3>2 DEF TableTyped
    <3> QED BY <3>1, <3>2
  <2>2. table' \in [F!Entries -> [h : F!Components \cup {"none"}, owned : BOOLEAN]]
    BY <2>1 DEF F!OwnedGone
  <2> QED BY <2>1, <2>2 DEF TableTyped
<1>4. \A e \in F!Entries : table'[e].h = IF table[e].owned THEN "none" ELSE table[e].h
  BY <1>1, <1>2
<1>5. ASSUME NEW x, x # "none" PROVE Held(x)' = IF F!Owned(x) THEN {} ELSE Held(x)
  BY <1>4, <1>5 DEF Held, TableTyped
<1> QED BY <1>3, <1>4, <1>5

LEMMA WantedStays ==
    ASSUME UNCHANGED layout
    PROVE  Wanted' = Wanted /\ stage' = stage
BY DEF Wanted, P, layout

LEMMA HeardMore ==
    ASSUME TableTyped, UNCHANGED layout, F!Free # {}, NEW set, "none" \notin set, Heard(set),
           NEW h \in F!Components \ set, h # "layout", table' = F!Added(h)
    PROVE  Heard(set \cup {h})'
<1>1. PICK e \in F!Entries : table[e].h = "none" /\ Held(h)' = Held(h) \cup {e}
  BY AddedIsHeld
<1>2. \A x : x # h /\ x # "none" => Held(x)' = Held(x)
  BY AddedIsHeld
<1>3. \A k \in F!Entries : table'[k].h \in {h, table[k].h}
  BY AddedIsHeld
<1>4. Held(h) = {} /\ h # "none"
  BY NamesApart DEF Heard, Held
<1>5. \A k \in F!Entries : table'[k].h \in set \cup {h} \cup {"none"}
  BY <1>3 DEF Heard
<1>6. ASSUME NEW x \in (set \cup {h}) \ {"layout"}
      PROVE  \E k \in F!Entries : Held(x)' = {k}
  <2>1. CASE x = h
    BY <1>1, <1>4, <2>1
  <2>2. CASE x # h
    BY <1>2, <2>2 DEF Heard
  <2> QED BY <2>1, <2>2
<1>7. "layout" \in set => Cardinality(Held("layout")') = Wanted'
  BY <1>2, WantedStays DEF Heard
<1> QED BY <1>5, <1>6, <1>7 DEF Heard

LEMMA HeardStays ==
    ASSUME UNCHANGED <<layout, table>>, NEW set, Heard(set)
    PROVE  Heard(set)'
BY WantedStays DEF Heard, Held

-----------------------------------------------------------------------------
(* What is freed.                                                          *)

LEMMA FreedIs ==
    ASSUME ServerTyped, NEW set, NEW s,
           s \in [F!Components -> Statuses]
    PROVE  /\ F!Freed(s, set) \in [F!Components -> Statuses]
           /\ \A r \in F!Components :
                 F!Freed(s, set)[r] = IF r \notin set THEN s[r]
                                      ELSE IF s[r] = "live" THEN "freed" ELSE "twice"
BY DEF F!Freed, Statuses

\* As long as nothing is freed again, what is gone stays gone.
LEMMA GoneStays ==
    ASSUME NEW r, Gone(r), cause' = cause, status'[r] = status[r]
    PROVE  Gone(r)'
BY DEF Gone, Excused

LEMMA NoneStale ==
    ASSUME NEW set, \A h \in set : Alive(h) /\ (F!Uses(h) # {} => Alive("buffctl"))
    PROVE  F!StaleUses(status, set) = {}
BY DEF F!StaleUses, F!Uses, Alive

LEMMA FreeStepTypes ==
    ASSUME ServerTyped, NEW r \in F!Components, F!FreeStep(r), UNCHANGED mode,
           phase' \in {"init", "undo", "running", "clearing", "closing", "exit", "aborted"}
    PROVE  ServerTyped'
<1>1. CASE r = "reactor"
  <2>1. status' = F!Freed(F!Freed(status, F!OwnedHandlers), {"reactor"}) /\ table' = F!OwnedGone
    BY <1>1 DEF F!FreeStep, F!FreeReactor
  <2>2. status' \in [F!Components -> Statuses]
    BY <2>1, FreedIs DEF ServerTyped
  <2> QED BY <2>1, <2>2, OwnedAreGone DEF ServerTyped
<1>2. CASE r # "reactor"
  <2>1. status' = F!Freed(status, {r}) /\ table' = table
    BY <1>2 DEF F!FreeStep, F!FreeOne
  <2>2. status' \in [F!Components -> Statuses]
    BY <2>1, FreedIs DEF ServerTyped
  <2> QED BY <2>1, <2>2 DEF ServerTyped, TableTyped
<1> QED BY <1>1, <1>2

\* A component other than the reactor is freed while it and what it uses live.
LEMMA OneFreed ==
    ASSUME ServerTyped, NEW r \in F!Components, r # "reactor", Alive(r), F!FreeStep(r),
           F!Uses(r) # {} => Alive("buffctl")
    PROVE  /\ status'[r] = "freed" /\ \A x \in F!Components : x # r => status'[x] = status[x]
           /\ UNCHANGED <<stale, table>>
<1>1. /\ status' = F!Freed(status, {r}) /\ table' = table
      /\ stale' = stale \cup {<<r, u>> : u \in {v \in F!Uses(r) : status[v] # "live"}}
  BY DEF F!FreeStep, F!FreeOne
<1>2. {v \in F!Uses(r) : status[v] # "live"} = {}
  BY DEF F!Uses, Alive
<1>3. status'[r] = "freed" /\ \A x \in F!Components : x # r => status'[x] = status[x]
  BY <1>1, FreedIs DEF ServerTyped, Alive
<1> QED BY <1>1, <1>2, <1>3

\* The reactor is freed while it lives, and nothing stale is used if the handlers
\* it owns live, too.
LEMMA ReactorFreed ==
    ASSUME ServerTyped, F!FreeStep("reactor"), Alive("reactor"), "reactor" \notin F!OwnedHandlers
    PROVE  /\ status'["reactor"] = "freed"
           /\ \A x \in F!Components : x # "reactor" =>
                 status'[x] = IF x \notin F!OwnedHandlers THEN status[x]
                              ELSE IF status[x] = "live" THEN "freed" ELSE "twice"
           /\ table' = F!OwnedGone
           /\ (\A h \in F!OwnedHandlers : Alive(h) /\ (F!Uses(h) # {} => Alive("buffctl")))
                 => UNCHANGED stale
<1>1. /\ status' = F!Freed(F!Freed(status, F!OwnedHandlers), {"reactor"}) /\ table' = F!OwnedGone
      /\ stale' = stale \cup F!StaleUses(status, F!OwnedHandlers)
  BY DEF F!FreeStep, F!FreeReactor
<1>2. "reactor" \in F!Components
  BY NamesApart DEF Names
<1> DEFINE s == F!Freed(status, F!OwnedHandlers)
<1>4. /\ s \in [F!Components -> Statuses]
      /\ \A r \in F!Components :
            s[r] = IF r \notin F!OwnedHandlers THEN status[r]
                   ELSE IF status[r] = "live" THEN "freed" ELSE "twice"
  BY FreedIs DEF ServerTyped
<1> HIDE DEF s
<1>5. \A r \in F!Components :
        F!Freed(s, {"reactor"})[r] = IF r \notin {"reactor"} THEN s[r]
                                     ELSE IF s[r] = "live" THEN "freed" ELSE "twice"
  BY <1>4, FreedIs
<1>6. ASSUME \A h \in F!OwnedHandlers : Alive(h) /\ (F!Uses(h) # {} => Alive("buffctl"))
      PROVE  UNCHANGED stale
  <2>1. F!StaleUses(status, F!OwnedHandlers) = {}
    BY <1>6, NoneStale
  <2> QED BY <1>1, <2>1
<1> QED BY <1>1, <1>2, <1>4, <1>5, <1>6 DEF s, Alive

-----------------------------------------------------------------------------
(* Setting up.                                                             *)

LEMMA HeadOfSetUp ==
    ASSUME ServerKept, phase = "init"
    PROVE  \E k \in 0 .. 12 :
             /\ InSetUp(k)
             /\ todo # << >> <=> k < 12
             /\ k < 12 => Tail(todo) = Rest(SetUp, 12, k + 1)
             /\ F!Doing("build") <=> k < 8
             /\ F!Doing("register") <=> 8 <= k /\ k < 12
             /\ k < 8 => Head(todo)[2] = F!Builds[k + 1]
             /\ 8 <= k /\ k < 12 => Head(todo)[2] = F!Registers[k - 7]
             /\ F!BuildingLayout <=> k = 5
<1>1. PICK k \in 0 .. 12 : InSetUp(k)
  BY DEF ServerKept
<1>2. /\ todo # << >> <=> k < 12
      /\ k < 12 => Tail(todo) = Rest(SetUp, 12, k + 1)
      /\ k < 8 => Head(todo) = <<"build", F!Builds[k + 1]>>
      /\ 8 <= k /\ k < 12 => Head(todo) = <<"register", F!Registers[k - 7]>>
  BY <1>1, SetUpSteps DEF InSetUp
<1>3. k < 8 => Head(todo)[1] = "build" /\ Head(todo)[2] = F!Builds[k + 1]
  BY <1>2
<1>4. 8 <= k /\ k < 12 => Head(todo)[1] = "register" /\ Head(todo)[2] = F!Registers[k - 7]
  BY <1>2
<1>5. F!Doing("build") <=> k < 8
  BY <1>2, <1>3, <1>4 DEF F!Doing
<1>6. F!Doing("register") <=> 8 <= k /\ k < 12
  BY <1>2, <1>3, <1>4 DEF F!Doing
<1>7. F!BuildingLayout <=> k = 5
  <2>1. ASSUME k < 8 PROVE F!Builds[k + 1] = "layout" <=> k = 5
    <3>1. F!Builds[6] = "layout" /\ k + 1 \in 1 .. 8 /\ 6 \in 1 .. 8
      BY <2>1, Orders
    <3> QED BY <3>1, BuildsAreNames
  <2> QED BY <1>3, <1>5, <2>1 DEF F!BuildingLayout
<1> QED BY <1>1, <1>2, <1>3, <1>4, <1>5, <1>6, <1>7

LEMMA BuildKeeps ==
    ASSUME ServerKept, UNCHANGED <<garbage, layout>>, F!Build, F!BuildingLayout => stage = "up"
    PROVE  ServerKept'
<1>1. phase = "init" /\ phase' = "init" /\ mode' = mode /\ table' = table
      /\ stale' = stale /\ cause' = cause
  BY DEF F!Build, F!Doing
<1>2. PICK k \in 0 .. 7 :
        /\ InSetUp(k) /\ Tail(todo) = Rest(SetUp, 12, k + 1)
        /\ Head(todo)[2] = F!Builds[k + 1] /\ (F!BuildingLayout <=> k = 5)
  <2>1. F!Doing("build")
    BY DEF F!Build
  <2>2. PICK j \in 0 .. 12 :
          /\ InSetUp(j) /\ j < 8 /\ Tail(todo) = Rest(SetUp, 12, j + 1)
          /\ Head(todo)[2] = F!Builds[j + 1] /\ (F!BuildingLayout <=> j = 5)
    BY <1>1, <2>1, HeadOfSetUp
  <2>3. j \in 0 .. 7
    BY <2>2
  <2> QED BY <2>2, <2>3
<1>3. status' = [status EXCEPT ![F!Builds[k + 1]] = "live"] /\ todo' = Rest(SetUp, 12, k + 1)
  BY <1>2 DEF F!Build
<1>4. LayoutKept' /\ stage' = stage
  BY LayoutStutters, WantedStays DEF layout, ServerKept
<1>5. F!Builds[k + 1] \in F!Components /\ \A i \in 1 .. 8 : F!Builds[i] \in F!Components
  BY BuildsAreNames, NamesApart
<1>6. ServerTyped'
  BY <1>1, <1>3, <1>5 DEF ServerKept, ServerTyped, TableTyped, Statuses
<1>7. InSetUp(k + 1)'
  <2>1. ASSUME NEW i \in 1 .. 8
        PROVE  status'[F!Builds[i]] = IF i <= k + 1 THEN "live" ELSE "none"
    <3>1. CASE i = k + 1
      BY <1>3, <1>5, <3>1 DEF ServerKept, ServerTyped
    <3>2. CASE i # k + 1
      <4>1. F!Builds[i] # F!Builds[k + 1]
        BY <3>2, BuildsAreNames
      <4>2. status'[F!Builds[i]] = status[F!Builds[i]]
        BY <1>3, <1>5, <4>1 DEF ServerKept, ServerTyped
      <4> QED BY <1>2, <3>2, <4>2 DEF InSetUp
    <3> QED BY <3>1, <3>2
  <2>2. ASSUME NEW c \in Sessions PROVE status'[c] = "none"
    <3>1. c # F!Builds[k + 1] /\ c \in F!Components
      BY BuildsAreNames, NamesApart
    <3> QED BY <1>2, <1>3, <3>1 DEF ServerKept, ServerTyped, InSetUp
  <2>3. Heard({F!Registers[i] : i \in 1 .. (k + 1) - 8})'
    <3>1. {F!Registers[i] : i \in 1 .. k - 8} = {} /\ {F!Registers[i] : i \in 1 .. (k + 1) - 8} = {}
      OBVIOUS
    <3>2. Heard({})
      BY <1>2, <3>1 DEF InSetUp
    <3>3. Heard({})'
      BY <1>1, <3>2, HeardStays
    <3> QED BY <3>1, <3>3
  <2>4. (k + 1 < 5 => stage' = "none") /\ (k + 1 > 5 => stage' = "up")
    BY <1>2, <1>4 DEF InSetUp
  <2> QED BY <1>3, <2>1, <2>2, <2>3, <2>4 DEF InSetUp
<1>8. \E j \in 0 .. 12 : InSetUp(j)'
  <2>1. k + 1 \in 0 .. 12
    OBVIOUS
  <2> QED BY <1>7, <2>1
<1> QED BY <1>1, <1>4, <1>6, <1>8 DEF ServerKept, Unspoilt, Refused

LEMMA BuildFailsKeeps ==
    ASSUME ServerKept, UNCHANGED <<garbage, layout>>, F!BuildFails,
           F!BuildingLayout => stage = "exit"
    PROVE  ServerKept'
<1>1. /\ phase = "init" /\ phase' = "undo" /\ UNCHANGED <<mode, table, stale>>
      /\ cause' = <<"build", Head(todo)[2]>>
      /\ \/ status' = status
         \/ Head(todo)[2] = "client" /\ status' = [status EXCEPT !["client"] = "left"]
  BY DEF F!BuildFails, F!Doing, F!Fail
<1>2. PICK k \in 0 .. 7 :
        InSetUp(k) /\ Head(todo)[2] = F!Builds[k + 1] /\ (F!BuildingLayout <=> k = 5)
  BY <1>1, HeadOfSetUp DEF F!BuildFails
<1>8. /\ status' \in [F!Components -> Statuses]
      /\ \A r \in F!Components : r # "client" => status'[r] = status[r]
      /\ "client" \in F!Components
      /\ status["client"] = "none" => Gone("client")'
  <2>1. "client" \in F!Components /\ status \in [F!Components -> Statuses]
    BY NamesApart DEF Names, ServerKept, ServerTyped
  <2>2. CASE status' = status
    BY <2>1, <2>2 DEF Gone
  <2>3. CASE Head(todo)[2] = "client" /\ status' = [status EXCEPT !["client"] = "left"]
    BY <1>1, <2>1, <2>3 DEF Gone, Excused, Statuses
  <2> QED BY <1>1, <2>1, <2>2, <2>3
<1>9. /\ \A i \in 1 .. 8 : F!Builds[i] \in F!Components
      /\ \A i \in 1 .. 8 : F!Builds[i] = "client" => i = 7
      /\ \A c \in Sessions : c # "client" /\ c \in F!Components
  <2>1. F!Builds[7] = "client" /\ 7 \in 1 .. 8
    BY Orders
  <2> QED BY <2>1, BuildsAreNames, NamesApart DEF Names
<1>3. PICK j \in 0 .. 7 : j = 7 - k
  OBVIOUS
<1>4. todo' = Rest(ErrorChain, 7, j)
  <2>1. todo' = F!Undo(IF F!Builds[k + 1] = "signals" THEN "later" ELSE F!Builds[k + 1])
    BY <1>2 DEF F!BuildFails, F!Fail
  <2>2. F!Builds[k + 1] = "signals" <=> k = 7
    <3>1. F!Builds[8] = "signals" /\ 8 \in 1 .. 8 /\ k + 1 \in 1 .. 8
      BY Orders
    <3> QED BY <3>1, BuildsAreNames
  <2>3. CASE k = 7
    BY <1>3, <2>1, <2>2, <2>3, UndoIsRest
  <2>4. CASE k # 7
    <3>1. k \in 0 .. 6
      BY <2>4
    <3> QED BY <1>3, <2>1, <2>2, <2>4, <3>1, UndoIsRest
  <2> QED BY <2>3, <2>4
<1>5. LayoutKept' /\ stage' = stage
  BY LayoutStutters, WantedStays DEF layout, ServerKept
<1>6. ServerTyped'
  BY <1>1, <1>8 DEF ServerKept, ServerTyped, TableTyped
<1>7. InUndo(j)'
  <2>1. \A e \in F!Entries : table[e].h = "none"
    <3>1. {F!Registers[i] : i \in 1 .. k - 8} = {}
      OBVIOUS
    <3> QED BY <1>2, <3>1 DEF InSetUp, Heard
  <2>2. SignalsWith(j > 3)'
    <3>1. Held("signals")' = {}
      BY <1>1, <2>1 DEF Held
    <3>2. status'["signals"] = "none"
      <4>1. F!Builds[8] = "signals" /\ ~(8 <= k) /\ 8 \in 1 .. 8
        BY Orders
      <4>2. status["signals"] = "none" /\ "signals" \in F!Components
        BY <1>2, <1>9, <4>1 DEF InSetUp
      <4> QED BY <1>8, <4>2
    <3> QED BY <3>1, <3>2 DEF SignalsWith
  <2>3. ASSUME NEW i \in 1 .. 7
        PROVE  IF i <= 7 - j THEN Alive(F!Builds[i])' ELSE Gone(F!Builds[i])'
    <3>1. 7 - j = k /\ i \in 1 .. 8
      BY <1>3
    <3>2. status[F!Builds[i]] = IF i <= k THEN "live" ELSE "none"
      BY <1>2, <3>1 DEF InSetUp
    <3>3. CASE F!Builds[i] # "client"
      BY <1>8, <1>9, <3>1, <3>2, <3>3 DEF Alive, Gone
    <3>4. CASE F!Builds[i] = "client"
      <4>1. i = 7
        BY <1>9, <3>1, <3>4
      <4>2. CASE k = 7
        <5>1. Head(todo)[2] = "signals"
          BY <1>2, <4>2, Orders
        <5> QED BY <1>1, <3>1, <3>2, <4>1, <4>2, <5>1 DEF Alive
      <4>3. CASE k # 7
        <5>1. ~(i <= k)
          BY <4>1, <4>3
        <5> QED BY <1>8, <3>1, <3>2, <3>4, <5>1
      <4> QED BY <4>2, <4>3
    <3> QED BY <3>3, <3>4
  <2>4. \A c \in Sessions : Gone(c)'
    BY <1>2, <1>8, <1>9 DEF InSetUp, Gone
  <2>5. /\ j = 0 => stage' = "up"
        /\ j = 1 => stage' \in {"up", "free", "exit"}
        /\ j > 1 => stage' \in {"none", "exit"}
    BY <1>2, <1>3, <1>5 DEF InSetUp
  <2> QED BY <1>1, <1>4, <2>1, <2>2, <2>3, <2>4, <2>5 DEF InUndo
<1>10. stale' = {}
  BY <1>1 DEF ServerKept, Unspoilt, Refused
<1> QED BY <1>1, <1>5, <1>6, <1>7, <1>10 DEF ServerKept

\* When a handler cannot be registered everything is built, and the reactor has
\* the signal receiver.
LEMMA RegisterFailsKeeps ==
    ASSUME ServerKept, UNCHANGED <<garbage, layout, mode, status, stale>>,
           NEW k \in 8 .. 12, InSetUp(k), NEW why, F!Fail("later", why), TableTyped',
           phase = "init", Held("signals")' # {},
           \A e \in F!Entries :
              \/ table'[e].h \in {"none", "signals", "devcfg", "layout"}
              \/ table'[e].h = "client" /\ Refused'
    PROVE  ServerKept'
<1>1. phase' = "undo" /\ todo' = Rest(ErrorChain, 7, 0)
  BY UndoIsRest DEF F!Fail
<1>2. LayoutKept' /\ stage' = stage
  BY LayoutStutters, WantedStays DEF layout, ServerKept
<1>3. ServerTyped'
  BY <1>1 DEF ServerKept, ServerTyped
<1>4. InUndo(0)'
  <2>1. \A i \in 1 .. 8 : Alive(F!Builds[i])'
    BY DEF InSetUp, Alive
  <2>2. SignalsWith(FALSE)'
    <3>1. Alive("signals")'
      BY <2>1, Orders
    <3> QED BY <3>1 DEF SignalsWith, Alive
  <2>3. \A c \in Sessions : Gone(c)'
    BY DEF InSetUp, Gone
  <2>4. stage' = "up"
    BY <1>2 DEF InSetUp
  <2>5. PICK j \in 0 .. 7 : j = 0
    OBVIOUS
  <2>6. (j > 3) = FALSE
    BY <2>5
  <2>7. SignalsWith(j > 3)'
    BY <2>2, <2>6
  <2>8. \A i \in 1 .. 7 : i <= 7 - j
    BY <2>5
  <2>9. InUndo(j)'
    BY <1>1, <2>1, <2>3, <2>4, <2>5, <2>7, <2>8 DEF InUndo
  <2> QED BY <2>5, <2>9
<1>5. stale' = {}
  BY DEF ServerKept, Unspoilt, Refused
<1> QED BY <1>1, <1>2, <1>3, <1>4, <1>5 DEF ServerKept

LEMMA RegistersSoFar ==
    ASSUME NEW k \in 8 .. 11
    PROVE  LET done == {F!Registers[i] : i \in 1 .. k - 8}
           IN  /\ done \subseteq {"signals", "devcfg", "layout"}
               /\ done \cup {F!Registers[k - 7]} = {F!Registers[i] : i \in 1 .. (k + 1) - 8}
               /\ F!Registers[k - 7] \in F!Components \ done
               /\ F!Registers[k - 7] = "layout" => k = 10
               /\ F!Registers[k - 7] = "signals" <=> k = 8
               /\ k > 8 => "signals" \in done
               /\ "layout" \in done <=> k = 11
<1> DEFINE done == {F!Registers[i] : i \in 1 .. k - 8}
<1>1. /\ F!Registers[1] = "signals" /\ F!Registers[2] = "devcfg"
      /\ F!Registers[3] = "layout" /\ F!Registers[4] = "client"
  BY Orders
<1>2. {"signals", "devcfg", "layout", "client"} \subseteq F!Components
  BY NamesApart DEF Names
<1>3. done \cup {F!Registers[k - 7]} = {F!Registers[i] : i \in 1 .. (k + 1) - 8}
  <2>1. \A i \in 1 .. (k + 1) - 8 : i \in 1 .. k - 8 \/ i = k - 7
    OBVIOUS
  <2>2. k - 7 \in 1 .. (k + 1) - 8 /\ \A i \in 1 .. k - 8 : i \in 1 .. (k + 1) - 8
    OBVIOUS
  <2> QED BY <2>1, <2>2
<1>4. CASE k = 8
  <2>1. done = {} /\ k - 7 = 1
    BY <1>4
  <2>2. /\ F!Registers[k - 7] = "signals" /\ "layout" \notin done
        /\ "signals" \in F!Components \ done
    BY <1>1, <1>2, <2>1
  <2> HIDE DEF done
  <2> QED BY <1>3, <1>4, <2>1, <2>2
<1>5. CASE k = 9
  <2>1. done = {F!Registers[1]} /\ k - 7 = 2
    <3>1. k - 8 = 1 /\ 1 .. 1 = {1}
      BY <1>5
    <3> QED BY <1>5, <3>1
  <2>2. /\ F!Registers[k - 7] = "devcfg" /\ done = {"signals"}
        /\ "devcfg" \in F!Components \ done
    BY <1>1, <1>2, <2>1
  <2> HIDE DEF done
  <2> QED BY <1>3, <1>5, <2>2
<1>6. CASE k = 10
  <2>1. done = {F!Registers[1], F!Registers[2]} /\ k - 7 = 3
    <3>1. k - 8 = 2 /\ 1 .. 2 = {1, 2}
      BY <1>6
    <3> QED BY <1>6, <3>1
  <2>2. /\ F!Registers[k - 7] = "layout" /\ done = {"signals", "devcfg"}
        /\ "layout" \in F!Components \ done
    BY <1>1, <1>2, <2>1
  <2> HIDE DEF done
  <2> QED BY <1>3, <1>6, <2>2
<1>7. CASE k = 11
  <2>1. done = {F!Registers[1], F!Registers[2], F!Registers[3]} /\ k - 7 = 4
    <3>1. k - 8 = 3 /\ 1 .. 3 = {1, 2, 3}
      BY <1>7
    <3> QED BY <1>7, <3>1
  <2>2. /\ F!Registers[k - 7] = "client" /\ done = {"signals", "devcfg", "layout"}
        /\ "client" \in F!Components \ done
    BY <1>1, <1>2, <2>1
  <2> HIDE DEF done
  <2> QED BY <1>3, <1>7, <2>2
<1> HIDE DEF done
<1>8. k \in {8, 9, 10, 11}
  OBVIOUS
<1> QED BY <1>4, <1>5, <1>6, <1>7, <1>8

LEMMA RegisterKeeps ==
    ASSUME ServerKept, UNCHANGED <<garbage, layout>>, F!Register
    PROVE  ServerKept'
<1>1. /\ phase = "init" /\ phase' = "init" /\ F!Free # {} /\ todo' = Tail(todo)
      /\ Head(todo)[2] # "layout" /\ table' = F!Added(Head(todo)[2])
      /\ UNCHANGED <<mode, status, stale, cause>>
  BY DEF F!Register, F!Doing
<1>2. PICK k \in 8 .. 11 :
        InSetUp(k) /\ todo' = Rest(SetUp, 12, k + 1) /\ Head(todo)[2] = F!Registers[k - 7]
  BY <1>1, HeadOfSetUp DEF F!Register
<1> DEFINE done == {F!Registers[i] : i \in 1 .. k - 8}
<1>3. PICK set, h : set = done /\ h = F!Registers[k - 7]
  OBVIOUS
<1>4. /\ set \subseteq {"signals", "devcfg", "layout"} /\ h \in F!Components \ set
      /\ set \cup {h} = {F!Registers[i] : i \in 1 .. (k + 1) - 8} /\ h # "layout"
  BY <1>1, <1>2, <1>3, RegistersSoFar
<1>5. TableTyped /\ Heard(set)
  BY <1>2, <1>3 DEF ServerKept, ServerTyped, InSetUp
<1>6. Heard(set \cup {h})' /\ TableTyped'
  BY <1>1, <1>2, <1>3, <1>4, <1>5, HeardMore, AddedIsHeld
<1>7. LayoutKept' /\ stage' = stage
  BY LayoutStutters, WantedStays DEF layout, ServerKept
<1>8. ServerTyped'
  BY <1>1, <1>6 DEF ServerKept, ServerTyped
<1>9. InSetUp(k + 1)'
  <2>1. \A i \in 1 .. 8 : status[F!Builds[i]] = "live" /\ i <= k + 1
    BY <1>2 DEF InSetUp
  <2>2. stage' = "up" /\ k + 1 > 5 /\ ~(k + 1 < 5)
    BY <1>2, <1>7 DEF InSetUp
  <2>3. Heard({F!Registers[i] : i \in 1 .. (k + 1) - 8})'
    BY <1>4, <1>6
  <2>4. \A c \in Sessions : status'[c] = "none"
    BY <1>1, <1>2 DEF InSetUp
  <2> QED BY <1>1, <1>2, <2>1, <2>2, <2>3, <2>4 DEF InSetUp
<1>10. \E j \in 0 .. 12 : InSetUp(j)'
  <2>1. k + 1 \in 0 .. 12
    OBVIOUS
  <2> QED BY <1>9, <2>1
<1> QED BY <1>1, <1>7, <1>8, <1>10 DEF ServerKept, Unspoilt, Refused

LEMMA TableFullKeeps ==
    ASSUME ServerKept, UNCHANGED <<garbage, layout>>, F!TableFull
    PROVE  ServerKept'
<1>1. /\ phase = "init" /\ F!Free = {} /\ Head(todo)[2] # "layout"
      /\ F!Fail("later", <<"full", Head(todo)[2]>>)
      /\ UNCHANGED <<mode, status, table, stale>>
  BY DEF F!TableFull, F!Doing
<1>2. PICK k \in 8 .. 11 : InSetUp(k) /\ Head(todo)[2] = F!Registers[k - 7]
  BY <1>1, HeadOfSetUp DEF F!TableFull
<1>3. PICK set : set = {F!Registers[i] : i \in 1 .. k - 8}
  OBVIOUS
<1>4. /\ set \subseteq {"signals", "devcfg", "layout"} /\ (k > 8 => "signals" \in set)
      /\ (k = 8 => set = {})
  BY <1>3, RegistersSoFar
<1>5. TableTyped /\ Heard(set)
  BY <1>2, <1>3 DEF ServerKept, ServerTyped, InSetUp
<1>6. k # 8
  <2>1. 1 \in F!Entries
    BY ServerAssumption DEF F!Entries
  <2>2. table[1].h # "none"
    BY <1>1, <1>5, <2>1, FreeAndOwned DEF Held
  <2> QED BY <1>4, <1>5, <2>1, <2>2 DEF Heard
<1>7. Held("signals") # {}
  BY <1>4, <1>5, <1>6 DEF Heard
<1>8. \A e \in F!Entries : table[e].h \in {"none", "signals", "devcfg", "layout"}
  BY <1>4, <1>5 DEF Heard
<1>9. Held("signals")' # {} /\ TableTyped'
  BY <1>1, <1>5, <1>7 DEF Held, TableTyped
<1> QED BY <1>1, <1>2, <1>8, <1>9, RegisterFailsKeeps

LEMMA EpollRefusesKeeps ==
    ASSUME ServerKept, UNCHANGED <<garbage, layout>>, F!EpollRefuses
    PROVE  ServerKept'
<1>1. /\ phase = "init" /\ F!Free # {} /\ Head(todo)[2] \in EpollFails \ {"layout"}
      /\ table' = F!Added(Head(todo)[2]) /\ F!Fail("later", <<"refused", Head(todo)[2]>>)
      /\ UNCHANGED <<mode, status, stale>>
  BY DEF F!EpollRefuses, F!Doing
<1>2. PICK k \in 8 .. 11 : InSetUp(k) /\ Head(todo)[2] = F!Registers[k - 7]
  BY <1>1, HeadOfSetUp DEF F!EpollRefuses
<1>3. PICK set, h : set = {F!Registers[i] : i \in 1 .. k - 8} /\ h = F!Registers[k - 7]
  OBVIOUS
<1>4. /\ set \subseteq {"signals", "devcfg", "layout"} /\ h \in F!Components \ set
      /\ h # "layout" /\ (h # "signals" => "signals" \in set)
      /\ h \in EpollFails /\ table' = F!Added(h)
  BY <1>1, <1>2, <1>3, RegistersSoFar
<1>5. TableTyped /\ Heard(set)
  BY <1>2, <1>3 DEF ServerKept, ServerTyped, InSetUp
<1>6. Heard(set \cup {h})' /\ TableTyped'
  BY <1>1, <1>4, <1>5, HeardMore, AddedIsHeld
<1>7. Held("signals")' # {}
  BY <1>4, <1>6 DEF Heard
<1>8. \A e \in F!Entries :
        \/ table'[e].h \in {"none", "signals", "devcfg", "layout"}
        \/ table'[e].h = "client" /\ Refused'
  <2>1. h \in {"signals", "devcfg", "client"} /\ cause' = <<"refused", h>>
    <3>1. h \in {"signals", "devcfg", "layout", "client"}
      <4>1. k - 7 \in {1, 2, 3, 4}
        OBVIOUS
      <4> QED BY <1>3, <4>1, Orders
    <3> QED BY <1>1, <1>2, <1>3, <1>4, <3>1 DEF F!Fail
  <2> QED BY <1>4, <1>6, <2>1 DEF Heard, Refused
<1> QED BY <1>1, <1>2, <1>6, <1>7, <1>8, RegisterFailsKeeps

LEMMA RegisterLayoutKeeps ==
    ASSUME ServerKept, UNCHANGED garbage, RegisterLayout
    PROVE  ServerKept'
<1>1. /\ phase = "init" /\ Head(todo)[2] = "layout" /\ F!Doing("register")
      /\ UNCHANGED <<mode, status, stale, layout>>
  BY DEF RegisterLayout, F!RegisterLayout, F!Doing
<1>2. /\ InSetUp(10) /\ Tail(todo) = Rest(SetUp, 12, 11)
  <2>1. PICK k \in 8 .. 11 :
          /\ InSetUp(k) /\ Head(todo)[2] = F!Registers[k - 7]
          /\ Tail(todo) = Rest(SetUp, 12, k + 1)
    BY <1>1, HeadOfSetUp
  <2>2. k = 10
    BY <1>1, <2>1, RegistersSoFar
  <2> QED BY <2>1, <2>2
<1> DEFINE set == {"signals", "devcfg"}
<1>3. /\ {F!Registers[i] : i \in 1 .. 10 - 8} = set
      /\ {F!Registers[i] : i \in 1 .. 11 - 8} = set \cup {"layout"}
  <2>1. 10 - 8 = 2 /\ 1 .. 2 = {1, 2} /\ 11 - 8 = 3 /\ 1 .. 3 = {1, 2, 3}
    OBVIOUS
  <2> QED BY <2>1, Orders
<1>4. TableTyped /\ Heard(set)
  BY <1>2, <1>3 DEF ServerKept, ServerTyped, InSetUp
<1>5. Wanted \in Nat
  BY WantedIsNumber DEF ServerKept
<1>6. ASSUME NEW n \in Nat, n <= Cardinality(F!Free), table' = F!Filled(n)
      PROVE  /\ TableTyped' /\ Held("signals")' # {}
             /\ \A e \in F!Entries : table'[e].h \in set \cup {"layout", "none"}
             /\ \A h \in set : \E e \in F!Entries : Held(h)' = {e}
             /\ Cardinality(Held("layout")') = n
  <2>1. Held("layout") = {}
    BY <1>4 DEF Heard, Held
  <2>2. /\ TableTyped' /\ Cardinality(Held("layout")') = n
        /\ \A x : x # "layout" /\ x # "none" => Held(x)' = Held(x)
        /\ \A e \in F!Entries : table'[e].h \in {"layout", table[e].h}
    BY <1>4, <1>6, <2>1, FilledIsHeld
  <2>3. \A e \in F!Entries : table'[e].h \in set \cup {"layout", "none"}
    BY <1>4, <2>2 DEF Heard
  <2>4. \A h \in set : \E e \in F!Entries : Held(h)' = {e}
    BY <1>4, <2>2 DEF Heard
  <2> QED BY <2>2, <2>3, <2>4
<1>7. CASE Wanted <= F!Cardinality(F!Free) /\ table' = F!Filled(Wanted)
           /\ todo' = Tail(todo) /\ phase' = phase /\ cause' = cause
  <2>1. PICK n \in Nat : n = Wanted
    BY <1>5
  <2>2. n <= Cardinality(F!Free) /\ table' = F!Filled(n)
    BY <1>7, <2>1, SameCount
  <2>3. Wanted' = n /\ stage' = stage
    BY <1>1, <2>1, WantedStays
  <2>4. Heard(set \cup {"layout"})' /\ TableTyped'
    BY <1>6, <2>2, <2>3 DEF Heard
  <2>5. LayoutKept'
    BY <1>1, LayoutStutters DEF layout, ServerKept
  <2>6. ServerTyped'
    BY <1>1, <1>7, <2>4 DEF ServerKept, ServerTyped
  <2>7. InSetUp(11)'
    <3>1. \A i \in 1 .. 8 : status'[F!Builds[i]] = "live" /\ i <= 11
      BY <1>1, <1>2 DEF InSetUp
    <3>2. stage' = "up" /\ \A c \in Sessions : status'[c] = "none"
      BY <1>1, <1>2, <2>3 DEF InSetUp
    <3>3. Heard({F!Registers[i] : i \in 1 .. 11 - 8})'
      BY <1>3, <2>4
    <3> QED BY <1>2, <1>7, <3>1, <3>2, <3>3 DEF InSetUp
  <2> QED BY <1>1, <1>7, <2>5, <2>6, <2>7 DEF ServerKept, Unspoilt, Refused
<1>8. ASSUME NEW n \in 0 .. Wanted, n <= F!Cardinality(F!Free), table' = F!Filled(n),
             F!Fail("later", <<"refused", "layout">>)
      PROVE  ServerKept'
  <2>1. n \in Nat /\ n <= Cardinality(F!Free)
    BY <1>5, <1>8, SameCount
  <2>2. PICK m \in Nat : m = n
    BY <2>1
  <2>3. /\ TableTyped' /\ Held("signals")' # {}
        /\ \A e \in F!Entries : table'[e].h \in {"none", "signals", "devcfg", "layout"}
    BY <1>6, <1>8, <2>1, <2>2
  <2> QED BY <1>1, <1>2, <1>8, <2>3, RegisterFailsKeeps
<1> QED BY <1>7, <1>8 DEF RegisterLayout, F!RegisterLayout

LEMMA RunKeeps ==
    ASSUME ServerKept, UNCHANGED <<garbage, layout>>, F!Run
    PROVE  ServerKept'
<1>1. /\ phase = "init" /\ todo = << >> /\ phase' = "running"
      /\ UNCHANGED <<mode, status, table, stale, cause>>
  BY DEF F!Run
<1>2. InSetUp(12)
  <2>1. PICK k \in 0 .. 12 : InSetUp(k) /\ ~(k < 12)
    BY <1>1, HeadOfSetUp
  <2>2. k = 12
    BY <2>1
  <2> QED BY <2>1, <2>2
<1>3. LayoutKept' /\ stage' = stage
  BY LayoutStutters, WantedStays DEF layout, ServerKept
<1>4. ServerTyped'
  BY <1>1 DEF ServerKept, ServerTyped, TableTyped
<1>5. InService'
  <2>1. {c \in Sessions : Alive(c)'} = {}
    BY <1>1, <1>2 DEF InSetUp, Alive
  <2>2. 12 - 8 = 4
    OBVIOUS
  <2>3. PICK set : set = {F!Registers[i] : i \in 1 .. 4}
    OBVIOUS
  <2>4. Heard(set)'
    BY <1>1, <1>2, <2>2, <2>3, HeardStays DEF InSetUp
  <2>5. Heard(Hearing)'
    <3>1. Hearing' = set
      BY <2>1, <2>3 DEF Hearing
    <3> QED BY <2>4, <3>1
  <2>6. stage' = "up" /\ \A i \in 1 .. 8 : Alive(F!Builds[i])'
    BY <1>1, <1>2, <1>3 DEF InSetUp, Alive
  <2>7. \A c \in Sessions : Gone(c)'
    BY <1>1, <1>2 DEF InSetUp, Gone
  <2> QED BY <2>5, <2>6, <2>7 DEF InService
<1> QED BY <1>1, <1>3, <1>4, <1>5 DEF ServerKept, Unspoilt, Refused

-----------------------------------------------------------------------------
(* The error chains, and the end.                                          *)

LEMMA StillLaid ==
    ASSUME ServerKept, UNCHANGED <<garbage, layout>>
    PROVE  LayoutKept' /\ stage' = stage
BY LayoutStutters, WantedStays DEF layout, ServerKept

LEMMA HeadOfUndo ==
    ASSUME ServerKept, phase = "undo"
    PROVE  \E k \in 0 .. 7 :
             /\ InUndo(k)
             /\ todo # << >> <=> k < 7
             /\ k < 7 => Head(todo) = F!Builds[7 - k] /\ Tail(todo) = Rest(ErrorChain, 7, k + 1)
             /\ F!FreeingLayout <=> k = 1
<1>1. PICK k \in 0 .. 7 : InUndo(k)
  BY DEF ServerKept
<1>2. /\ todo # << >> <=> k < 7
      /\ k < 7 => Head(todo) = F!Builds[7 - k] /\ Tail(todo) = Rest(ErrorChain, 7, k + 1)
  BY <1>1, ChainSteps DEF InUndo
<1>3. F!FreeingLayout <=> k = 1
  <2>1. ASSUME k < 7 PROVE F!Builds[7 - k] = "layout" <=> k = 1
    <3>1. F!Builds[6] = "layout" /\ 7 - k \in 1 .. 8 /\ 6 \in 1 .. 8 /\ (7 - k = 6 <=> k = 1)
      BY <2>1, Orders
    <3> QED BY <3>1, BuildsAreNames
  <2> QED BY <1>2, <2>1 DEF F!FreeingLayout
<1> QED BY <1>1, <1>2, <1>3

\* What an error chain frees is alive, and so is what that uses; the reactor frees
\* the signal receiver, and a client that epoll_ctl refused once more.
LEMMA UndoFrees ==
    ASSUME ServerTyped, cause' = cause, NEW k \in 0 .. 6, InUndo(k), F!FreeStep(F!Builds[7 - k])
    PROVE  /\ status'[F!Builds[7 - k]] = "freed"
           /\ \A x \in F!Components : x \notin {F!Builds[7 - k], "signals", "client"} =>
                 status'[x] = status[x]
           /\ k # 0 => Gone("client")'
           /\ \A e \in F!Entries : table'[e].h \in {"none", table[e].h}
           /\ SignalsWith(k + 1 > 3)'
           /\ ~Refused => UNCHANGED stale
<1>1. PICK r : r = F!Builds[7 - k]
  OBVIOUS
<1>2. 7 - k \in 1 .. 7 /\ 7 - k <= 7 - k
  OBVIOUS
<1>3. Alive(r)
  BY <1>1, <1>2 DEF InUndo
<1>4. r \in F!Components /\ r \notin Sessions
  BY <1>1, <1>2, BuildsAreNames, NamesApart
<1>5. r = "reactor" <=> k = 3
  <2>1. F!Builds[4] = "reactor" /\ 4 \in 1 .. 8 /\ (7 - k = 4 <=> k = 3)
    BY Orders
  <2> QED BY <1>1, <1>2, <2>1, BuildsAreNames
<1>6. r # "signals"
  <2>1. F!Builds[8] = "signals" /\ 7 - k # 8
    BY Orders
  <2> QED BY <1>1, <1>2, <2>1, BuildsAreNames
<1>7. PICK late : late = (k > 3)
  OBVIOUS
<1>8. SignalsWith(late) /\ "signals" \in F!Components
  BY <1>7, NamesApart DEF InUndo, Names
<1>11. /\ k # 0 => Gone("client") /\ F!Builds[7 - k] # "client"
       /\ "client" \in F!Components /\ "client" \notin Sessions
  <2>1. F!Builds[7] = "client" /\ 7 \in 1 .. 8 /\ (7 - k = 7 <=> k = 0) /\ (7 <= 7 - k <=> k = 0)
    BY Orders
  <2>2. k # 0 => F!Builds[7 - k] # "client"
    BY <1>2, <2>1, BuildsAreNames
  <2>3. k # 0 => Gone("client")
    BY <2>1 DEF InUndo
  <2> QED BY <2>2, <2>3, NamesApart DEF Names
<1>9. CASE k # 3
  <2>1. F!Uses(r) # {} => Alive("buffctl")
    <3>1. ASSUME F!Uses(r) # {} PROVE k <= 1
      <4>1. r \in {"layout", "client"}
        BY <1>4, <3>1 DEF F!Uses
      <4>2. F!Builds[6] = "layout" /\ F!Builds[7] = "client"
        BY Orders
      <4>3. 7 - k = 6 \/ 7 - k = 7
        BY <1>1, <1>2, <4>1, <4>2, BuildsAreNames
      <4> QED BY <4>3
    <3>2. ASSUME k <= 1 PROVE Alive("buffctl")
      <4>1. F!Builds[5] = "buffctl" /\ 5 <= 7 - k
        BY <3>2, Orders
      <4> QED BY <4>1 DEF InUndo
    <3> QED BY <3>1, <3>2
  <2>2. /\ status'[r] = "freed" /\ \A x \in F!Components : x # r => status'[x] = status[x]
        /\ UNCHANGED <<stale, table>>
    BY <1>1, <1>3, <1>4, <1>5, <1>9, <2>1, OneFreed
  <2>3. SignalsWith(late)'
    BY <1>6, <1>8, <2>2 DEF SignalsWith, Held, Gone
  <2>4. late = (k + 1 > 3)
    BY <1>7, <1>9
  <2>5. k # 0 => Gone("client")'
    BY <1>1, <1>11, <2>2, GoneStays
  <2> QED BY <1>1, <2>2, <2>3, <2>4, <2>5
<1>10. CASE k = 3
  <2>1. ASSUME NEW h \in F!OwnedHandlers PROVE h = "signals" \/ (h = "client" /\ Refused)
    <3>1. h # "none" /\ F!Owned(h) /\ Held(h) # {}
      BY FreeAndOwned DEF ServerTyped
    <3>2. PICK e \in F!Entries : table[e].h = h
      BY <3>1 DEF Held
    <3>3. h \in {"none", "signals", "devcfg", "layout"} \/ (h = "client" /\ Refused)
      BY <3>2 DEF InUndo
    <3> QED BY <3>1, <3>3, NamesApart
  <2>2. late = FALSE
    <3>1. (k > 3) = FALSE
      BY <1>10
    <3> QED BY <1>7, <3>1
  <2>3. "signals" \in F!OwnedHandlers <=> Held("signals") # {}
    BY FreeAndOwned, NamesApart DEF ServerTyped
  <2>4. "signals" \in F!OwnedHandlers => Alive("signals") /\ F!Uses("signals") = {}
    <3>1. F!Uses("signals") = {}
      BY NamesApart DEF F!Uses, Names
    <3>2. Held("signals") # {} => Alive("signals")
      BY <1>8, <2>2 DEF SignalsWith, Alive
    <3> QED BY <2>3, <3>1, <3>2
  <2>5. r = "reactor" /\ r \notin F!OwnedHandlers
    BY <1>5, <1>10, <2>1
  <2>6. /\ status'["reactor"] = "freed"
        /\ \A x \in F!Components : x # "reactor" =>
              status'[x] = IF x \notin F!OwnedHandlers THEN status[x]
                           ELSE IF status[x] = "live" THEN "freed" ELSE "twice"
        /\ table' = F!OwnedGone
        /\ (\A h \in F!OwnedHandlers : Alive(h) /\ (F!Uses(h) # {} => Alive("buffctl")))
              => UNCHANGED stale
    BY <1>1, <1>3, <2>5, ReactorFreed
  <2>7. /\ \A e \in F!Entries : table'[e].h = IF table[e].owned THEN "none" ELSE table[e].h
        /\ Held("signals")' = {}
    BY <2>6, OwnedAreGone, NamesApart DEF ServerTyped
  <2>8. status'["signals"] \in {"none", "freed"}
    <3>1. CASE Held("signals") = {}
      BY <1>8, <2>2, <2>3, <2>6, <3>1 DEF SignalsWith
    <3>2. CASE Held("signals") # {}
      BY <1>8, <2>3, <2>4, <2>6, <3>2 DEF Alive
    <3> QED BY <3>1, <3>2
  <2>9. SignalsWith(TRUE)'
    BY <2>7, <2>8 DEF SignalsWith
  <2>10. (k + 1 > 3) = TRUE
    BY <1>10
  <2>11. SignalsWith(k + 1 > 3)'
    BY <2>9, <2>10
  <2>12. Gone("client")'
    <3>1. Gone("client")
      BY <1>10, <1>11
    <3>2. CASE "client" \notin F!OwnedHandlers
      BY <1>11, <2>6, <3>1, <3>2, GoneStays
    <3>3. CASE "client" \in F!OwnedHandlers
      <4>1. Refused /\ status["client"] # "live"
        BY <1>11, <2>1, <3>1, <3>3 DEF Gone, Excused
      <4>2. status'["client"] = "twice"
        BY <1>11, <2>6, <3>3, <4>1
      <4> QED BY <4>1, <4>2 DEF Gone, Excused, Refused
    <3> QED BY <3>2, <3>3
  <2>13. ~Refused => UNCHANGED stale
    BY <2>1, <2>4, <2>6
  <2>14. \A x \in F!Components : x \notin {r, "signals", "client"} => status'[x] = status[x]
    BY <2>1, <2>5, <2>6
  <2> QED BY <1>1, <2>5, <2>6, <2>7, <2>11, <2>12, <2>13, <2>14
<1> QED BY <1>9, <1>10

LEMMA UndoStepKeeps ==
    ASSUME ServerKept, UNCHANGED <<garbage, layout>>, F!UndoStep,
           F!FreeingLayout => stage = "exit"
    PROVE  ServerKept'
<1>1. /\ phase = "undo" /\ todo # << >> /\ F!FreeStep(Head(todo)) /\ todo' = Tail(todo)
      /\ UNCHANGED <<mode, phase, cause>>
  BY DEF F!UndoStep
<1>2. PICK k \in 0 .. 6 :
        /\ InUndo(k) /\ F!FreeStep(F!Builds[7 - k]) /\ todo' = Rest(ErrorChain, 7, k + 1)
        /\ F!FreeingLayout <=> k = 1
  <2>1. PICK k \in 0 .. 7 :
          /\ InUndo(k) /\ k < 7 /\ F!FreeStep(F!Builds[7 - k])
          /\ todo' = Rest(ErrorChain, 7, k + 1) /\ (F!FreeingLayout <=> k = 1)
    BY <1>1, HeadOfUndo
  <2>2. k \in 0 .. 6
    BY <2>1
  <2> QED BY <2>1, <2>2
<1>3. LayoutKept' /\ stage' = stage
  BY StillLaid
<1>4. 7 - k \in 1 .. 7 /\ F!Builds[7 - k] \in Names
  BY BuildsAreNames
<1>5. ServerTyped'
  BY <1>1, <1>2, <1>4, NamesApart, FreeStepTypes DEF ServerKept, ServerTyped
<1>6. PICK n \in 1 .. 7 : n = k + 1
  OBVIOUS
<1>7. /\ status'[F!Builds[7 - k]] = "freed"
      /\ \A x \in F!Components : x \notin {F!Builds[7 - k], "signals", "client"} =>
            status'[x] = status[x]
      /\ k # 0 => Gone("client")'
      /\ \A e \in F!Entries : table'[e].h \in {"none", table[e].h}
      /\ SignalsWith(k + 1 > 3)'
      /\ ~Refused => UNCHANGED stale
  BY <1>1, <1>2, UndoFrees DEF ServerKept
<1>12. ASSUME NEW i \in 1 .. 7
       PROVE  IF i <= 7 - n THEN Alive(F!Builds[i])' ELSE Gone(F!Builds[i])'
  <2>1. CASE i = 7 - k
    <3>1. ~(i <= 7 - n)
      BY <1>6, <2>1
    <3> QED BY <1>7, <2>1, <3>1 DEF Gone
  <2>2. CASE i # 7 - k /\ i = 7
    <3>1. k # 0 /\ ~(i <= 7 - n)
      BY <1>6, <2>2
    <3> QED BY <1>7, <2>2, <3>1, Orders
  <2>3. CASE i # 7 - k /\ i # 7
    <3>1. /\ F!Builds[i] \notin {F!Builds[7 - k], "signals", "client"}
          /\ F!Builds[i] \in F!Components
      <4>1. /\ F!Builds[8] = "signals" /\ 8 \in 1 .. 8 /\ i # 8 /\ i \in 1 .. 8
            /\ F!Builds[7] = "client" /\ 7 \in 1 .. 8
        BY Orders
      <4> QED BY <1>4, <2>3, <4>1, BuildsAreNames, NamesApart
    <3>2. status'[F!Builds[i]] = status[F!Builds[i]]
      BY <1>7, <3>1
    <3>3. IF i <= 7 - k THEN Alive(F!Builds[i]) ELSE Gone(F!Builds[i])
      BY <1>2 DEF InUndo
    <3>4. i <= 7 - n <=> i <= 7 - k
      BY <1>6, <2>3
    <3> QED BY <1>1, <3>2, <3>3, <3>4, GoneStays DEF Alive
  <2> QED BY <2>1, <2>2, <2>3
<1>13. ASSUME NEW c \in Sessions PROVE Gone(c)'
  <2>1. c \in F!Components /\ c \notin {F!Builds[7 - k], "signals", "client"}
    BY <1>4, NamesApart DEF Names
  <2> QED BY <1>1, <1>2, <1>7, <2>1, GoneStays DEF InUndo
<1>14. \A e \in F!Entries :
         \/ table'[e].h \in {"none", "signals", "devcfg", "layout"}
         \/ table'[e].h = "client" /\ Refused'
  BY <1>1, <1>2, <1>7 DEF InUndo, Refused
<1>15. SignalsWith(n > 3)'
  BY <1>6, <1>7
<1>8. /\ n = 0 => stage' = "up"
      /\ n = 1 => stage' \in {"up", "free", "exit"}
      /\ n > 1 => stage' \in {"none", "exit"}
  <2>1. /\ k = 0 => stage = "up"
        /\ k > 1 => stage \in {"none", "exit"}
        /\ k = 1 => stage = "exit"
    BY <1>2 DEF InUndo
  <2> QED BY <1>3, <1>6, <2>1
<1>9. InUndo(n)'
  <2>1. todo' = Rest(ErrorChain, 7, n)
    BY <1>2, <1>6
  <2> QED BY <1>8, <1>12, <1>13, <1>14, <1>15, <2>1 DEF InUndo
<1>10. n \in 0 .. 7
  OBVIOUS
<1>11. ~Refused' => stale' = {}
  BY <1>1, <1>7 DEF ServerKept, Refused
<1> QED BY <1>1, <1>3, <1>5, <1>9, <1>10, <1>11 DEF ServerKept

LEMMA HeadOfClosing ==
    ASSUME ServerKept, phase = "closing"
    PROVE  \E k \in 0 .. 6 :
             /\ InClosing(k)
             /\ todo # << >> <=> k < 6
             /\ k < 6 => Head(todo) = Closing[k + 1] /\ Tail(todo) = Rest(Closing, 6, k + 1)
             /\ F!FreeingLayout <=> k = 2
<1>1. PICK k \in 0 .. 6 : InClosing(k)
  BY DEF ServerKept
<1>2. /\ todo # << >> <=> k < 6
      /\ k < 6 => Head(todo) = Closing[k + 1] /\ Tail(todo) = Rest(Closing, 6, k + 1)
  BY <1>1, ClosingSteps DEF InClosing
<1>3. F!FreeingLayout <=> k = 2
  <2>1. ASSUME k < 6 PROVE Closing[k + 1] = "layout" <=> k = 2
    <3>1. k + 1 \in {1, 2, 3, 4, 5, 6} /\ (k + 1 = 3 <=> k = 2)
      BY <2>1
    <3> QED BY <3>1, Orders
  <2> QED BY <1>2, <2>1 DEF F!FreeingLayout
<1> QED BY <1>1, <1>2, <1>3

LEMMA ClosingApart ==
    /\ \A i \in 1 .. 6 : Closing[i] \in Names \ {"client", "signals"}
    /\ \A i, j \in 1 .. 6 : Closing[i] = Closing[j] => i = j
    /\ \A r \in Names \ {"client", "signals"} : \E i \in 1 .. 6 : Closing[i] = r
<1>1. \A i \in 1 .. 6 : i \in {1, 2, 3, 4, 5, 6}
  OBVIOUS
<1>2. \A i \in 1 .. 6 : Closing[i] \in Names \ {"client", "signals"}
  BY <1>1, Orders DEF Names
<1>3. \A i, j \in 1 .. 6 : Closing[i] = Closing[j] => i = j
  BY <1>1, Orders
<1>4. \A r \in Names \ {"client", "signals"} : \E i \in 1 .. 6 : Closing[i] = r
  BY Orders DEF Names
<1> QED BY <1>2, <1>3, <1>4

\* What fred_sys_free frees is alive, and so is what that uses; the reactor has
\* no handler of its own left.
LEMMA CloseFrees ==
    ASSUME ServerTyped, NEW k \in 0 .. 5, InClosing(k), F!FreeStep(Closing[k + 1])
    PROVE  /\ status'[Closing[k + 1]] = "freed"
           /\ \A x \in F!Components : x # Closing[k + 1] => status'[x] = status[x]
           /\ \A e \in F!Entries : table'[e].h \in {"none", table[e].h}
           /\ UNCHANGED stale
<1>1. PICK n \in 1 .. 6 : n = k + 1
  OBVIOUS
<1>2. PICK r : r = Closing[n]
  OBVIOUS
<1>3. ~(n <= k)
  BY <1>1
<1>4. Alive(r)
  BY <1>2, <1>3 DEF InClosing
<1>5. r \in F!Components /\ r \notin Sessions /\ r # "client"
  BY <1>2, ClosingApart, NamesApart
<1>6. CASE r # "reactor"
  <2>1. F!Uses(r) # {} => Alive("buffctl")
    <3>1. SUFFICES ASSUME F!Uses(r) # {} PROVE Alive("buffctl")
      OBVIOUS
    <3>2. r = "layout"
      BY <1>5, <3>1 DEF F!Uses
    <3>3. n = 3
      <4>1. Closing[3] = Closing[n] /\ 3 \in 1 .. 6
        BY <1>2, <3>2, Orders
      <4> QED BY <4>1, ClosingApart
    <3>4. ~(5 <= k) /\ 5 \in 1 .. 6
      BY <1>1, <3>3
    <3> QED BY <3>4, Orders DEF InClosing
  <2>2. /\ status'[r] = "freed" /\ \A x \in F!Components : x # r => status'[x] = status[x]
        /\ UNCHANGED <<stale, table>>
    BY <1>1, <1>2, <1>4, <1>5, <1>6, <2>1, OneFreed
  <2> QED BY <1>1, <1>2, <2>2
<1>7. CASE r = "reactor"
  <2>1. F!OwnedHandlers = {}
    <3>1. ASSUME NEW h \in F!OwnedHandlers PROVE FALSE
      <4>1. h # "none" /\ F!Owned(h) /\ Held(h) # {}
        BY FreeAndOwned DEF ServerTyped
      <4>2. h \in {"none", "devcfg", "layout"}
        BY <4>1 DEF InClosing, Held
      <4> QED BY <4>1, <4>2, NamesApart
    <3> QED BY <3>1
  <2>2. /\ status'["reactor"] = "freed"
        /\ \A x \in F!Components : x # "reactor" =>
              status'[x] = IF x \notin F!OwnedHandlers THEN status[x]
                           ELSE IF status[x] = "live" THEN "freed" ELSE "twice"
        /\ UNCHANGED stale /\ table' = F!OwnedGone
    BY <1>1, <1>2, <1>4, <1>7, <2>1, ReactorFreed
  <2>3. \A e \in F!Entries : table'[e].h = IF table[e].owned THEN "none" ELSE table[e].h
    BY <2>2, OwnedAreGone DEF ServerTyped
  <2> QED BY <1>1, <1>2, <1>7, <2>1, <2>2, <2>3
<1> QED BY <1>6, <1>7

LEMMA CloseKeeps ==
    ASSUME ServerKept, UNCHANGED <<garbage, layout>>, F!Close, F!FreeingLayout => stage = "exit"
    PROVE  ServerKept'
<1>1. /\ phase = "closing" /\ todo # << >> /\ F!FreeStep(Head(todo)) /\ todo' = Tail(todo)
      /\ UNCHANGED <<mode, phase, cause>>
  BY DEF F!Close
<1>2. PICK k \in 0 .. 5 :
        /\ InClosing(k) /\ F!FreeStep(Closing[k + 1]) /\ todo' = Rest(Closing, 6, k + 1)
        /\ F!FreeingLayout <=> k = 2
  <2>1. PICK k \in 0 .. 6 :
          /\ InClosing(k) /\ k < 6 /\ F!FreeStep(Closing[k + 1])
          /\ todo' = Rest(Closing, 6, k + 1) /\ (F!FreeingLayout <=> k = 2)
    BY <1>1, HeadOfClosing
  <2>2. k \in 0 .. 5
    BY <2>1
  <2> QED BY <2>1, <2>2
<1>3. LayoutKept' /\ stage' = stage
  BY StillLaid
<1>4. PICK n \in 1 .. 6 : n = k + 1
  OBVIOUS
<1>5. Closing[n] \in Names \ {"client", "signals"}
  BY ClosingApart
<1>6. ServerTyped'
  BY <1>1, <1>2, <1>4, <1>5, NamesApart, FreeStepTypes DEF ServerKept, ServerTyped
<1>7. /\ status'[Closing[n]] = "freed"
      /\ \A x \in F!Components : x # Closing[n] => status'[x] = status[x]
      /\ \A e \in F!Entries : table'[e].h \in {"none", table[e].h}
      /\ UNCHANGED stale
  BY <1>2, <1>4, CloseFrees DEF ServerKept
<1>8. ASSUME NEW i \in 1 .. 6
      PROVE  IF i <= n THEN Gone(Closing[i])' ELSE Alive(Closing[i])'
  <2>1. CASE i = n
    <3>1. i <= n
      BY <2>1
    <3> QED BY <1>7, <2>1, <3>1 DEF Gone
  <2>2. CASE i # n
    <3>1. Closing[i] # Closing[n] /\ Closing[i] \in F!Components
      BY <2>2, ClosingApart, NamesApart
    <3>2. IF i <= k THEN Gone(Closing[i]) ELSE Alive(Closing[i])
      BY <1>2 DEF InClosing
    <3>3. i <= n <=> i <= k
      BY <1>4, <2>2
    <3> QED BY <1>1, <1>7, <3>1, <3>2, <3>3, GoneStays DEF Alive
  <2> QED BY <2>1, <2>2
<1>9. ASSUME NEW r \in Sessions \cup {"client", "signals"} PROVE Gone(r)'
  <2>1. r # Closing[n] /\ r \in F!Components
    BY <1>5, NamesApart DEF Names
  <2> QED BY <1>1, <1>2, <1>7, <2>1, GoneStays DEF InClosing
<1>10. \A e \in F!Entries : table'[e].h \in {"none", "devcfg", "layout"}
  BY <1>2, <1>7 DEF InClosing
<1>11. /\ n < 2 => stage' = "up"
       /\ n = 2 => stage' \in {"up", "free", "exit"}
       /\ n > 2 => stage' = "exit"
  <2>1. (k < 2 => stage = "up") /\ (k > 2 => stage = "exit") /\ (k = 2 => stage = "exit")
    BY <1>2 DEF InClosing
  <2> QED BY <1>3, <1>4, <2>1
<1>12. InClosing(n)'
  <2>1. todo' = Rest(Closing, 6, n)
    BY <1>2, <1>4
  <2> QED BY <1>8, <1>9, <1>10, <1>11, <2>1 DEF InClosing
<1>13. n \in 0 .. 6
  OBVIOUS
<1> QED BY <1>1, <1>3, <1>6, <1>7, <1>12, <1>13 DEF ServerKept, Refused

LEMMA ExitKeeps ==
    ASSUME ServerKept, UNCHANGED <<garbage, layout>>, F!Exit
    PROVE  ServerKept'
<1>1. /\ phase \in {"undo", "closing"} /\ todo = << >> /\ phase' = "exit"
      /\ UNCHANGED <<mode, status, table, stale, cause>>
  BY DEF F!Exit
<1>2. LayoutKept' /\ stage' = stage
  BY StillLaid
<1>3. ServerTyped'
  BY <1>1 DEF ServerKept, ServerTyped, TableTyped
<1>4. stage \in {"none", "exit"} /\ \A r \in F!Components : Gone(r)
  <2>1. CASE phase = "undo"
    <3>1. InUndo(7)
      <4>1. PICK k \in 0 .. 7 : InUndo(k) /\ ~(k < 7)
        BY <1>1, <2>1, HeadOfUndo
      <4>2. k = 7
        BY <4>1
      <4> QED BY <4>1, <4>2
    <3>2. ASSUME NEW r \in F!Components PROVE Gone(r)
      <4>1. \A i \in 1 .. 7 : ~(i <= 7 - 7)
        OBVIOUS
      <4>2. \A i \in 1 .. 7 : Gone(F!Builds[i])
        BY <3>1, <4>1 DEF InUndo
      <4>3. Gone("signals")
        <5>1. (7 > 3) = TRUE
          OBVIOUS
        <5>2. SignalsWith(TRUE)
          BY <3>1, <5>1 DEF InUndo
        <5> QED BY <5>2 DEF SignalsWith, Gone
      <4>4. CASE r \in Names
        <5>1. PICK i \in 1 .. 8 : F!Builds[i] = r
          BY <4>4, BuildsAreNames
        <5>2. i \in 1 .. 7 \/ i = 8
          OBVIOUS
        <5> QED BY <4>2, <4>3, <5>1, <5>2, Orders
      <4>5. CASE r \in Sessions
        BY <3>1, <4>5 DEF InUndo
      <4> QED BY <4>4, <4>5, NamesApart
    <3> QED BY <3>1, <3>2 DEF InUndo
  <2>2. CASE phase = "closing"
    <3>1. InClosing(6)
      <4>1. PICK k \in 0 .. 6 : InClosing(k) /\ ~(k < 6)
        BY <1>1, <2>2, HeadOfClosing
      <4>2. k = 6
        BY <4>1
      <4> QED BY <4>1, <4>2
    <3>2. ASSUME NEW r \in F!Components PROVE Gone(r)
      <4>1. \A i \in 1 .. 6 : Gone(Closing[i])
        BY <3>1 DEF InClosing
      <4>2. CASE r \in Names \ {"client", "signals"}
        BY <4>1, <4>2, ClosingApart
      <4>3. CASE r \in Sessions \cup {"client", "signals"}
        BY <3>1, <4>3 DEF InClosing
      <4> QED BY <4>2, <4>3, NamesApart
    <3> QED BY <3>1, <3>2 DEF InClosing
  <2> QED BY <1>1, <2>1, <2>2
<1>5. stage' \in {"none", "exit"} /\ \A r \in F!Components : Gone(r)'
  BY <1>1, <1>2, <1>4, GoneStays
<1> QED BY <1>1, <1>2, <1>3, <1>5 DEF ServerKept, Refused

-----------------------------------------------------------------------------
(* The event loop.                                                         *)

LEMMA HearingIs ==
    Hearing = {"signals", "devcfg", "layout", "client"}
                \cup {c \in Sessions : Alive(c) /\ cause # <<"full", c>>}
<1>1. 1 .. 4 = {1, 2, 3, 4}
  OBVIOUS
<1> QED BY <1>1, Orders DEF Hearing

LEMMA ServiceIs ==
    ASSUME ServerKept, phase \in {"running", "clearing"}
    PROVE  /\ stage = "up" /\ TableTyped /\ Heard(Hearing)
           /\ \A r \in Names : Alive(r)
           /\ \A c \in Sessions : Alive(c) \/ Gone(c)
<1>1. InService
  BY DEF ServerKept
<1>2. ASSUME NEW r \in Names PROVE Alive(r)
  BY <1>1, BuildsAreNames DEF InService
<1> QED BY <1>1, <1>2 DEF InService, ServerKept, ServerTyped

\* While the loop runs nothing has gone wrong yet.
LEMMA RunningIs ==
    ASSUME ServerKept, phase = "running"
    PROVE  /\ cause = <<"none", "none">> /\ stale = {}
           /\ \A c \in Sessions : status[c] \in {"none", "live", "freed"}
<1>1. cause = <<"none", "none">> /\ stale = {}
  BY DEF ServerKept, Unspoilt, Refused
<1>2. \A c \in Sessions : Alive(c) \/ Gone(c)
  BY ServiceIs
<1>3. ~(cause = <<"refused", "client">>) /\ ~(cause = <<"build", "client">>)
  BY <1>1
<1> QED BY <1>1, <1>2, <1>3 DEF Alive, Gone, Excused

LEMMA LoopEndsKeeps ==
    ASSUME ServerKept, UNCHANGED <<garbage, layout>>, F!LoopEnds
    PROVE  ServerKept'
<1>1. /\ phase = "clearing" /\ phase' = "closing" /\ mode' = mode /\ cause' = cause
      /\ todo' = <<"reactor", "sched", "layout", "devcfg", "buffctl", "logger">>
      /\ status' = F!Freed(status, F!OwnedHandlers)
      /\ stale' = stale \cup F!StaleUses(status, F!OwnedHandlers)
      /\ table' = F!OwnedGone
  BY DEF F!LoopEnds, F!Closed
<1>2. LayoutKept' /\ stage' = stage
  BY StillLaid
<1>3. /\ stage = "up" /\ TableTyped /\ Heard(Hearing)
      /\ \A r \in Names : Alive(r)
      /\ \A c \in Sessions : Alive(c) \/ Gone(c)
  BY <1>1, ServiceIs
<1>4. \A h : h \in F!OwnedHandlers <=> h \in Hearing \ {"devcfg", "layout"}
  <2>1. ASSUME NEW h \in F!OwnedHandlers PROVE h \in Hearing \ {"devcfg", "layout"}
    <3>1. h # "none" /\ F!Owned(h) /\ Held(h) # {}
      BY <1>3, FreeAndOwned
    <3>2. h \in Hearing
      BY <1>3, <3>1 DEF Heard, Held
    <3> QED BY <3>1, <3>2, NamesApart
  <2>2. ASSUME NEW h \in Hearing \ {"devcfg", "layout"} PROVE h \in F!OwnedHandlers
    <3>1. Held(h) # {}
      BY <1>3, <2>2 DEF Heard
    <3>2. h # "none" /\ F!Owned(h)
      BY <2>2, HearingIs, NamesApart
    <3> QED BY <1>3, <3>1, <3>2, FreeAndOwned
  <2> QED BY <2>1, <2>2
<1>5. \A h \in F!OwnedHandlers : Alive(h)
  BY <1>3, <1>4, HearingIs DEF Names
<1>6. F!StaleUses(status, F!OwnedHandlers) = {}
  <2>1. Alive("buffctl")
    BY <1>3 DEF Names
  <2> QED BY <1>5, <2>1, NoneStale
<1>7. /\ status' \in [F!Components -> Statuses]
      /\ \A r \in F!Components : status'[r] = IF r \in F!OwnedHandlers THEN "freed" ELSE status[r]
  BY <1>1, <1>5, FreedIs DEF ServerKept, ServerTyped, Alive
<1>8. /\ TableTyped'
      /\ \A e \in F!Entries : table'[e].h = IF table[e].owned THEN "none" ELSE table[e].h
  BY <1>1, <1>3, OwnedAreGone
<1>9. ServerTyped'
  BY <1>1, <1>7, <1>8 DEF ServerKept, ServerTyped
<1>10. InClosing(0)'
  <2>1. Closing = <<"reactor", "sched", "layout", "devcfg", "buffctl", "logger">>
    BY DEF Closing
  <2>2. todo' = Rest(Closing, 6, 0)
    BY <1>1 DEF Rest, Closing
  <2>3. ASSUME NEW i \in 1 .. 6 PROVE Alive(Closing[i])'
    <3>1. Closing[i] \in Names \ {"client", "signals"}
      BY ClosingApart
    <3>2. Closing[i] \notin F!OwnedHandlers /\ Closing[i] \in F!Components
      BY <1>4, <3>1, HearingIs, NamesApart
    <3> QED BY <1>3, <1>7, <3>1, <3>2 DEF Alive
  <2>4. ASSUME NEW r \in Sessions \cup {"client", "signals"} PROVE Gone(r)'
    <3>1. r \in F!Components
      BY NamesApart DEF Names
    <3>2. CASE r \in F!OwnedHandlers
      BY <1>7, <3>1, <3>2 DEF Gone
    <3>3. CASE r \notin F!OwnedHandlers
      <4>1. r \in Sessions /\ (Alive(r) => cause = <<"full", r>>)
        <5>1. r \notin Hearing \/ r \in {"devcfg", "layout"}
          BY <1>4, <3>3
        <5>2. r \notin {"devcfg", "layout"}
          BY NamesApart DEF Names
        <5> QED BY <5>1, <5>2, HearingIs
      <4>2. Gone(r)
        BY <1>3, <4>1 DEF Alive, Gone, Excused
      <4> QED BY <1>1, <1>7, <3>1, <3>3, <4>2, GoneStays
    <3> QED BY <3>2, <3>3
  <2>5. ASSUME NEW e \in F!Entries PROVE table'[e].h \in {"none", "devcfg", "layout"}
    <3>1. CASE table[e].owned
      BY <1>8, <3>1
    <3>2. CASE ~table[e].owned
      <4>1. table[e].h = "none" \/ ~F!Owned(table[e].h)
        BY <1>3, <3>2 DEF TableTyped
      <4>2. table[e].h \in Hearing \cup {"none"}
        BY <1>3 DEF Heard
      <4>3. \A h \in Hearing : F!Owned(h) \/ h \in {"devcfg", "layout"}
        BY HearingIs, NamesApart
      <4> QED BY <1>8, <3>2, <4>1, <4>2, <4>3
    <3> QED BY <3>1, <3>2
  <2>6. \A i \in 1 .. 6 : ~(i <= 0)
    OBVIOUS
  <2> QED BY <1>2, <1>3, <2>2, <2>3, <2>4, <2>5, <2>6 DEF InClosing
<1> QED BY <1>1, <1>2, <1>6, <1>9, <1>10 DEF ServerKept, Refused

\* A signal or an error ends the loop.
LEMMA LeavingKeeps ==
    ASSUME ServerKept, UNCHANGED <<garbage, layout>>, F!HandleSignal \/ F!SystemError
    PROVE  ServerKept'
<1>1. /\ phase = "running" /\ phase' = "clearing" /\ UNCHANGED <<mode, status, table, stale>>
      /\ cause' \in {<<"signal", "signals">>, <<"error", "none">>}
  BY DEF F!HandleSignal, F!SystemError, F!LeaveLoop, F!Untouched
<1>2. LayoutKept' /\ stage' = stage
  BY StillLaid
<1>3. ServerTyped'
  BY <1>1 DEF ServerKept, ServerTyped, TableTyped
<1>4. InService
  BY <1>1 DEF ServerKept
<1>5. PICK set : set = Hearing
  OBVIOUS
<1>6. Heard(set)'
  BY <1>1, <1>4, <1>5, HeardStays DEF InService
<1>7. Hearing' = set
  BY <1>1, <1>5, RunningIs DEF Hearing, Alive
<1>8. Heard(Hearing)'
  BY <1>6, <1>7
<1>9. \A c \in Sessions : Alive(c)' \/ Gone(c)'
  BY <1>1, RunningIs DEF Alive, Gone
<1>10. InService'
  BY <1>1, <1>2, <1>4, <1>8, <1>9 DEF InService, Alive
<1> QED BY <1>1, <1>2, <1>3, <1>10, RunningIs DEF ServerKept

\* A session is accepted, and epoll_ctl takes it or not.
LEMMA ConnectKeeps ==
    ASSUME ServerKept, UNCHANGED <<garbage, layout>>, NEW c \in Sessions,
           F!Connect(c) \/ F!ConnectRefused(c)
    PROVE  ServerKept'
<1>1. /\ phase = "running" /\ status[c] = "none" /\ F!Free # {}
      /\ status' = [status EXCEPT ![c] = "live"] /\ table' = F!Added(c)
      /\ UNCHANGED <<mode, stale>>
      /\ \/ phase' = "running" /\ cause' = cause
         \/ phase' = "clearing" /\ cause' = <<"refused", c>>
  BY DEF F!Connect, F!ConnectRefused, F!Accepts, F!LeaveLoop
<1>2. LayoutKept' /\ stage' = stage
  BY StillLaid
<1>3. /\ stage = "up" /\ TableTyped /\ Heard(Hearing)
      /\ \A r \in Names : Alive(r)
      /\ \A d \in Sessions : Alive(d) \/ Gone(d)
  BY <1>1, ServiceIs
<1>4. c \in F!Components /\ c \notin Names
  BY NamesApart
<1>5. /\ status' \in [F!Components -> Statuses] /\ status'[c] = "live"
      /\ \A r \in F!Components : r # c => status'[r] = status[r]
  BY <1>1, <1>4 DEF ServerKept, ServerTyped, Statuses
<1>6. c \notin Hearing /\ c # "layout" /\ "none" \notin Hearing
  BY <1>1, <1>4, HearingIs, NamesApart DEF Alive, Names
<1>7. PICK set : set = Hearing
  OBVIOUS
<1>8. Heard(set \cup {c})' /\ TableTyped'
  BY <1>1, <1>3, <1>4, <1>6, <1>7, HeardMore, AddedIsHeld
<1>9. ServerTyped'
  BY <1>1, <1>5, <1>8 DEF ServerKept, ServerTyped
<1>12. cause = <<"none", "none">> /\ \A d : cause # <<"full", d>> /\ cause' # <<"full", d>>
  BY <1>1, RunningIs
<1>10. Hearing' = set \cup {c}
  <2>1. \A d \in Sessions : Alive(d)' <=> Alive(d) \/ d = c
    BY <1>4, <1>5, NamesApart DEF Alive
  <2> QED BY <1>7, <1>12, <2>1 DEF Hearing
<1>11. InService'
  <2>1. Heard(Hearing)'
    BY <1>8, <1>10
  <2>2. ASSUME NEW i \in 1 .. 8 PROVE Alive(F!Builds[i])'
    <3>1. F!Builds[i] \in Names /\ F!Builds[i] # c /\ F!Builds[i] \in F!Components
      BY <1>4, BuildsAreNames, NamesApart
    <3> QED BY <1>3, <1>5, <3>1 DEF Alive
  <2>3. ASSUME NEW d \in Sessions PROVE Alive(d)' \/ Gone(d)'
    <3>1. d \in F!Components /\ status[d] \in {"none", "live", "freed"}
      BY <1>1, NamesApart, RunningIs
    <3> QED BY <1>5, <3>1 DEF Alive, Gone
  <2> QED BY <1>2, <1>3, <2>1, <2>2, <2>3 DEF InService
<1>13. stale' = {} /\ (phase' = "running" => Unspoilt')
  BY <1>1, <1>12, RunningIs DEF Unspoilt
<1> QED BY <1>1, <1>2, <1>9, <1>11, <1>13 DEF ServerKept

\* A session is accepted for which the table has no entry.
LEMMA OverflowKeeps ==
    ASSUME ServerKept, UNCHANGED <<garbage, layout>>, NEW c \in Sessions, F!ConnectOverflows(c)
    PROVE  ServerKept'
<1>1. /\ phase = "running" /\ phase' = "clearing" /\ cause' = <<"full", c>>
      /\ status[c] = "none" /\ status' = [status EXCEPT ![c] = "live"]
      /\ UNCHANGED <<mode, table, stale>>
  BY DEF F!ConnectOverflows, F!Accepts, F!LeaveLoop
<1>2. LayoutKept' /\ stage' = stage
  BY StillLaid
<1>3. /\ cause = <<"none", "none">> /\ stale = {}
      /\ \A d \in Sessions : status[d] \in {"none", "live", "freed"}
  BY <1>1, RunningIs
<1>4. c \in F!Components /\ c \notin Names
  BY NamesApart
<1>5. /\ status' \in [F!Components -> Statuses] /\ status'[c] = "live"
      /\ \A r \in F!Components : r # c => status'[r] = status[r]
  BY <1>1, <1>4 DEF ServerKept, ServerTyped, Statuses
<1>6. ServerTyped'
  BY <1>1, <1>5 DEF ServerKept, ServerTyped, TableTyped
<1>7. InService
  BY <1>1 DEF ServerKept
<1>8. PICK set : set = Hearing
  OBVIOUS
<1>9. Heard(set)'
  BY <1>1, <1>7, <1>8, HeardStays DEF InService
<1>10. Hearing' = set
  <2>1. ASSUME NEW d \in Sessions
        PROVE  (Alive(d)' /\ cause' # <<"full", d>>) <=> (Alive(d) /\ cause # <<"full", d>>)
    <3>1. d \in F!Components /\ cause # <<"full", d>>
      BY <1>3, NamesApart
    <3>2. CASE d = c
      BY <1>1, <3>2 DEF Alive
    <3>3. CASE d # c
      <4>1. <<"full", c>> # <<"full", d>>
        BY <3>3
      <4> QED BY <1>1, <1>5, <3>1, <3>3, <4>1 DEF Alive
    <3> QED BY <3>2, <3>3
  <2> QED BY <1>8, <2>1 DEF Hearing
<1>11. InService'
  <2>1. Heard(Hearing)'
    BY <1>9, <1>10
  <2>2. ASSUME NEW i \in 1 .. 8 PROVE Alive(F!Builds[i])'
    <3>1. F!Builds[i] \in Names /\ F!Builds[i] # c /\ F!Builds[i] \in F!Components
      BY <1>4, BuildsAreNames, NamesApart
    <3> QED BY <1>5, <1>7, <3>1 DEF InService, Alive
  <2>3. ASSUME NEW d \in Sessions PROVE Alive(d)' \/ Gone(d)'
    <3>1. d \in F!Components
      BY NamesApart
    <3> QED BY <1>3, <1>5, <3>1 DEF Alive, Gone
  <2> QED BY <1>2, <1>7, <2>1, <2>2, <2>3 DEF InService
<1> QED BY <1>1, <1>2, <1>3, <1>6, <1>11 DEF ServerKept

\* A connection fails to be accepted: the process ends with nothing freed twice.
LEMMA ConnectAbortsKeeps ==
    ASSUME ServerKept, UNCHANGED <<garbage, layout>>, F!ConnectAborts
    PROVE  ServerKept'
<1>1. /\ phase = "running" /\ phase' = "aborted"
      /\ UNCHANGED <<mode, status, table, stale, cause>>
  BY DEF F!ConnectAborts
<1>2. LayoutKept' /\ stage' = stage
  BY StillLaid
<1>3. ServerTyped'
  BY <1>1 DEF ServerKept, ServerTyped, TableTyped
<1>4. \A r \in F!Components : status[r] # "twice"
  BY <1>1, ServiceIs, RunningIs, NamesApart DEF Alive
<1> QED BY <1>1, <1>2, <1>3, <1>4, RunningIs DEF ServerKept

LEMMA DetachKeeps ==
    ASSUME ServerKept, UNCHANGED <<garbage, layout>>, NEW k \in F!Entries, F!Detach(k)
    PROVE  ServerKept'
<1>1. PICK c \in Sessions : c = table[k].h
  BY DEF F!Detach
<1>2. /\ phase = "running" /\ status' = F!Freed(status, {c})
      /\ stale' = stale \cup F!StaleUses(status, {c})
      /\ table' = [table EXCEPT ![k] = F!NoEntry]
      /\ UNCHANGED <<mode, phase, cause>>
  BY <1>1 DEF F!Detach
<1>3. LayoutKept' /\ stage' = stage
  BY StillLaid
<1>4. /\ stage = "up" /\ TableTyped /\ Heard(Hearing)
      /\ \A r \in Names : Alive(r)
      /\ \A d \in Sessions : Alive(d) \/ Gone(d)
  BY <1>2, ServiceIs
<1>5. c \in F!Components /\ c \notin Names /\ c # "none" /\ c # "layout"
  BY NamesApart DEF Names
<1>6. c \in Hearing /\ Alive(c)
  <2>1. c \in Hearing
    BY <1>1, <1>4, <1>5 DEF Heard
  <2> QED BY <1>5, <2>1, HearingIs DEF Names
<1>7. Held(c) = {k}
  <2>1. PICK e \in F!Entries : Held(c) = {e}
    BY <1>4, <1>5, <1>6 DEF Heard
  <2>2. k \in Held(c)
    BY <1>1 DEF Held
  <2> QED BY <2>1, <2>2
<1>8. /\ status' \in [F!Components -> Statuses] /\ status'[c] = "freed"
      /\ \A r \in F!Components : r # c => status'[r] = status[r]
  BY <1>2, <1>5, <1>6, FreedIs DEF ServerKept, ServerTyped, Alive
<1>9. F!StaleUses(status, {c}) = {}
  <2>1. Alive("buffctl")
    BY <1>4 DEF Names
  <2> QED BY <1>6, <2>1, NoneStale
<1>10. /\ DOMAIN table' = F!Entries /\ table'[k] = [h |-> "none", owned |-> FALSE]
       /\ \A e \in F!Entries : e # k => table'[e] = table[e]
  BY <1>2, <1>4 DEF TableTyped, F!NoEntry
<1>11. table'[k].h = "none" /\ table'[k].owned = FALSE
  BY <1>10
<1>12. TableTyped'
  <2>1. ASSUME NEW e \in F!Entries
        PROVE  /\ table'[e] \in [h : F!Components \cup {"none"}, owned : BOOLEAN]
               /\ table'[e].owned <=> table'[e].h # "none" /\ F!Owned(table'[e].h)
    <3>1. CASE e = k
      BY <1>10, <1>11, <3>1
    <3>2. CASE e # k
      BY <1>4, <1>10, <3>2 DEF TableTyped
    <3> QED BY <3>1, <3>2
  <2>2. table' = [e \in F!Entries |-> table'[e]]
    BY <1>2, <1>4 DEF TableTyped
  <2>3. table' \in [F!Entries -> [h : F!Components \cup {"none"}, owned : BOOLEAN]]
    BY <2>1, <2>2
  <2> QED BY <2>1, <2>3 DEF TableTyped
<1>13. ServerTyped'
  BY <1>2, <1>8, <1>12 DEF ServerKept, ServerTyped
<1>14. Held(c)' = {}
  BY <1>5, <1>7, <1>10, <1>11 DEF Held
<1>15. ASSUME NEW x, x # c, x # "none" PROVE Held(x)' = Held(x)
  BY <1>1, <1>10, <1>11, <1>15 DEF Held
<1>16. PICK set : set = Hearing
  OBVIOUS
<1>17. Heard(set \ {c})'
  <2>1. \A e \in F!Entries : table'[e].h \in (set \ {c}) \cup {"none"}
    <3>1. ASSUME NEW e \in F!Entries PROVE table'[e].h \in (set \ {c}) \cup {"none"}
      <4>1. e # k => table[e].h # c
        BY <1>7 DEF Held
      <4> QED BY <1>4, <1>10, <1>11, <1>16, <4>1 DEF Heard
    <3> QED BY <3>1
  <2>2. \A h \in (set \ {c}) \ {"layout"} : \E e \in F!Entries : Held(h)' = {e}
    BY <1>4, <1>15, <1>16, HearingIs, NamesApart DEF Heard
  <2>3. Cardinality(Held("layout")') = Wanted'
    <3>1. Held("layout")' = Held("layout") /\ "layout" \in Hearing
      BY <1>5, <1>15, HearingIs
    <3>2. Cardinality(Held("layout")) = Wanted
      BY <1>4, <3>1 DEF Heard
    <3> QED BY <3>1, <3>2, WantedStays
  <2> QED BY <2>1, <2>2, <2>3 DEF Heard
<1>18. Hearing' = set \ {c}
  <2>1. \A d \in Sessions : Alive(d)' <=> Alive(d) /\ d # c
    BY <1>8, NamesApart DEF Alive
  <2>2. c \notin {F!Registers[i] : i \in 1 .. 4}
    <3>1. 1 .. 4 = {1, 2, 3, 4}
      OBVIOUS
    <3> QED BY <1>5, <3>1, Orders DEF Names
  <2> QED BY <1>2, <1>16, <2>1, <2>2 DEF Hearing
<1>19. InService'
  <2>1. Heard(Hearing)'
    BY <1>17, <1>18
  <2>2. ASSUME NEW i \in 1 .. 8 PROVE Alive(F!Builds[i])'
    <3>1. F!Builds[i] \in Names /\ F!Builds[i] # c /\ F!Builds[i] \in F!Components
      BY <1>5, BuildsAreNames, NamesApart
    <3> QED BY <1>4, <1>8, <3>1 DEF Alive
  <2>3. ASSUME NEW d \in Sessions PROVE Alive(d)' \/ Gone(d)'
    <3>1. d \in F!Components /\ status[d] \in {"none", "live", "freed"}
      BY <1>2, NamesApart, RunningIs
    <3> QED BY <1>8, <3>1 DEF Alive, Gone
  <2> QED BY <1>3, <1>4, <2>1, <2>2, <2>3 DEF InService
<1> QED BY <1>2, <1>3, <1>9, <1>13, <1>19, RunningIs DEF ServerKept, Unspoilt

-----------------------------------------------------------------------------
(* The layout is built and freed; every step of the server.                *)

LEMMA NothingMoves ==
    ASSUME ServerKept, UNCHANGED <<garbage, layout, mode, phase, todo, status, table, stale, cause>>
    PROVE  ServerKept'
<1>1. LayoutKept' /\ stage' = stage
  BY StillLaid
<1>2. ServerTyped'
  BY DEF ServerKept, ServerTyped, TableTyped
<1>3. ASSUME NEW k \in 0 .. 12, InSetUp(k) PROVE InSetUp(k)'
  <2>1. PICK set : set = {F!Registers[i] : i \in 1 .. k - 8}
    OBVIOUS
  <2>2. Heard(set)'
    BY <1>3, <2>1, HeardStays DEF InSetUp
  <2> QED BY <1>1, <1>3, <2>1, <2>2 DEF InSetUp
<1>4. ASSUME InService PROVE InService'
  <2>1. PICK set : set = Hearing
    OBVIOUS
  <2>2. Heard(set)'
    BY <1>4, <2>1, HeardStays DEF InService
  <2>3. Hearing' = set
    BY <2>1 DEF Hearing, Alive
  <2>4. Heard(Hearing)'
    BY <2>2, <2>3
  <2>5. \A c \in Sessions : Gone(c) => Gone(c)'
    BY GoneStays
  <2> QED BY <1>1, <1>4, <2>4, <2>5 DEF InService, Alive
<1>5. ASSUME NEW k \in 0 .. 7, InUndo(k) PROVE InUndo(k)'
  <2>1. PICK late : late = (k > 3)
    OBVIOUS
  <2>2. SignalsWith(late)'
    BY <1>5, <2>1 DEF InUndo, SignalsWith, Held
  <2>3. \A r : Gone(r) => Gone(r)'
    BY GoneStays
  <2> QED BY <1>1, <1>5, <2>1, <2>2, <2>3 DEF InUndo, Alive, Refused
<1>6. ASSUME NEW k \in 0 .. 6, InClosing(k) PROVE InClosing(k)'
  <2>1. \A r : Gone(r) => Gone(r)'
    BY GoneStays
  <2> QED BY <1>1, <1>6, <2>1 DEF InClosing, Alive
<1>7. \A r : Gone(r) => Gone(r)'
  BY GoneStays
<1> QED
  BY <1>1, <1>2, <1>3, <1>4, <1>5, <1>6, <1>7 DEF ServerKept, Unspoilt, Refused

\* The set-up has come to the layout.
LEMMA LayoutsTurn ==
    ASSUME ServerKept, F!BuildingLayout
    PROVE  phase = "init" /\ InSetUp(5)
<1>1. phase = "init"
  BY DEF F!BuildingLayout, F!Doing
<1> QED BY <1>1, HeadOfSetUp

LEMMA BuildLayoutKeeps ==
    ASSUME ServerKept, UNCHANGED garbage, BuildLayout
    PROVE  ServerKept'
<1>1. /\ phase = "init" /\ InSetUp(5)
      /\ UNCHANGED <<mode, phase, todo, status, table, stale, cause>>
  BY LayoutsTurn DEF BuildLayout, server
<1>2. LayoutKept'
  BY LayoutStepKeeps DEF BuildLayout, LayoutNext, ServerKept
<1>3. ServerTyped'
  BY <1>1 DEF ServerKept, ServerTyped, TableTyped
<1>4. InSetUp(5)'
  <2>1. {F!Registers[i] : i \in 1 .. 5 - 8} = {}
    OBVIOUS
  <2>2. Heard({F!Registers[i] : i \in 1 .. 5 - 8})'
    BY <1>1, <2>1 DEF InSetUp, Heard
  <2> QED BY <1>1, <2>2 DEF InSetUp
<1> QED BY <1>1, <1>2, <1>3, <1>4 DEF ServerKept, Unspoilt, Refused

LEMMA LayoutAbortsKeeps ==
    ASSUME ServerKept, UNCHANGED garbage, LayoutAborts
    PROVE  ServerKept'
<1>1. /\ phase = "init" /\ InSetUp(5) /\ phase' = "aborted"
      /\ UNCHANGED <<mode, todo, status, table, stale, cause>>
  BY LayoutsTurn DEF LayoutAborts
<1>2. LayoutKept'
  BY LayoutStepKeeps DEF LayoutAborts, LayoutNext, ServerKept
<1>3. ServerTyped'
  BY <1>1 DEF ServerKept, ServerTyped, TableTyped
<1>4. ASSUME NEW r \in F!Components PROVE status[r] # "twice"
  <2>1. CASE r \in Names
    BY <1>1, <2>1, BuildsAreNames DEF InSetUp
  <2>2. CASE r \in Sessions
    BY <1>1, <2>2 DEF InSetUp
  <2> QED BY <2>1, <2>2, NamesApart
<1> QED BY <1>1, <1>2, <1>3, <1>4 DEF ServerKept, Refused

LEMMA FreeLayoutKeeps ==
    ASSUME ServerKept, UNCHANGED garbage, FreeLayout
    PROVE  ServerKept'
<1>1. /\ phase \in {"undo", "closing"} /\ F!FreeingLayout
      /\ UNCHANGED <<mode, phase, todo, status, table, stale, cause>>
  BY DEF FreeLayout, F!FreeingLayout, server
<1>2. LayoutKept'
  BY LayoutStepKeeps DEF FreeLayout, LayoutNext, ServerKept
<1>3. ServerTyped'
  BY <1>1 DEF ServerKept, ServerTyped, TableTyped
<1>4. stage' \in {stage, "free", "exit"}
  BY DEF FreeLayout, Shutdown, Freeing, FreePartitions, FreeTask, Exit, Clean
<1>5. ASSUME phase = "undo" PROVE InUndo(1)'
  <2>1. PICK k \in 0 .. 7 : k = 1 /\ InUndo(k)
    BY <1>1, <1>5, HeadOfUndo
  <2>2. stage' \in {"up", "free", "exit"} /\ k # 0 /\ ~(k > 1)
    BY <1>4, <2>1 DEF InUndo
  <2>3. PICK late : late = (k > 3)
    OBVIOUS
  <2>4. SignalsWith(late)'
    BY <1>1, <2>1, <2>3 DEF InUndo, SignalsWith, Held
  <2>5. \A r : Gone(r) => Gone(r)'
    BY <1>1, GoneStays
  <2>6. InUndo(k)'
    BY <1>1, <2>1, <2>2, <2>3, <2>4, <2>5 DEF InUndo, Alive, Refused
  <2> QED BY <2>1, <2>6
<1>6. ASSUME phase = "closing" PROVE InClosing(2)'
  <2>1. InClosing(2)
    BY <1>1, <1>6, HeadOfClosing
  <2>2. stage' \in {"up", "free", "exit"}
    BY <1>4, <2>1 DEF InClosing
  <2>3. \A r : Gone(r) => Gone(r)'
    BY <1>1, GoneStays
  <2> QED BY <1>1, <2>1, <2>2, <2>3 DEF InClosing, Alive
<1> QED BY <1>1, <1>2, <1>3, <1>5, <1>6 DEF ServerKept, Refused

LEMMA ServerStart == ServerInit => ServerKept
<1> SUFFICES ASSUME ServerInit PROVE ServerKept
  OBVIOUS
<1>1. LayoutKept /\ stage = "none"
  BY InitLaid DEF ServerInit, Init
<1>2. /\ mode \in Modes /\ phase = "init" /\ stale = {} /\ cause = <<"none", "none">>
      /\ status = [r \in F!Components |-> "none"]
      /\ table = [k \in F!Entries |-> F!NoEntry]
      /\ todo = [i \in DOMAIN F!Builds |-> <<"build", F!Builds[i]>>]
                   \o [i \in DOMAIN F!Registers |-> <<"register", F!Registers[i]>>]
  BY DEF ServerInit, F!Init
<1>3. \A e \in F!Entries : table[e] = [h |-> "none", owned |-> FALSE]
  BY <1>2 DEF F!NoEntry
<1>4. \A e \in F!Entries : table[e].h = "none" /\ table[e].owned = FALSE
  BY <1>3
<1>5. ServerTyped
  <2>1. table \in [F!Entries -> [h : F!Components \cup {"none"}, owned : BOOLEAN]]
    <3>1. [h |-> "none", owned |-> FALSE] \in [h : F!Components \cup {"none"}, owned : BOOLEAN]
      OBVIOUS
    <3>2. table = [k \in F!Entries |-> [h |-> "none", owned |-> FALSE]]
      BY <1>2 DEF F!NoEntry
    <3> QED BY <3>1, <3>2
  <2> QED BY <1>2, <1>4, <2>1 DEF ServerTyped, TableTyped, Statuses
<1>6. todo = Rest(SetUp, 12, 0)
  <2> DEFINE X == {"build", "register"} \X Names
  <2>1. DOMAIN F!Builds = 1 .. 8 /\ DOMAIN F!Registers = 1 .. 4
    BY DEF F!Builds, F!Registers
  <2>2. PICK a, b : /\ a = [i \in 1 .. 8 |-> <<"build", F!Builds[i]>>]
                    /\ b = [i \in 1 .. 4 |-> <<"register", F!Registers[i]>>]
    OBVIOUS
  <2>3. a \in Seq(X) /\ Len(a) = 8
    BY <2>2, BuildsAreNames
  <2>4. b \in Seq(X) /\ Len(b) = 4
    <3>1. \A i \in 1 .. 4 : i \in {1, 2, 3, 4}
      OBVIOUS
    <3>2. \A i \in 1 .. 4 : F!Registers[i] \in Names
      BY <3>1, Orders DEF Names
    <3> QED BY <2>2, <3>2
  <2> HIDE DEF X
  <2>5. /\ a \o b \in Seq(X) /\ Len(a \o b) = 12
        /\ \A i \in 1 .. 12 : (a \o b)[i] = IF i <= 8 THEN a[i] ELSE b[i - 8]
    <3>1. /\ a \o b \in Seq(X) /\ Len(a \o b) = Len(a) + Len(b)
          /\ \A i \in 1 .. Len(a) + Len(b) :
                (a \o b)[i] = IF i <= Len(a) THEN a[i] ELSE b[i - Len(a)]
      BY <2>3, <2>4, ConcatProperties
    <3>2. Len(a) + Len(b) = 12
      BY <2>3, <2>4
    <3> QED BY <2>3, <3>1, <3>2
  <2>6. todo = a \o b
    BY <1>2, <2>1, <2>2
  <2>7. todo = [i \in 1 .. 12 |-> todo[i]]
    <3>1. todo \in [1 .. 12 -> X]
      BY <2>5, <2>6, LenProperties
    <3> QED BY <3>1
  <2>8. ASSUME NEW i \in 1 .. 12 PROVE todo[i] = SetUp[i + 0]
    <3>1. i + 0 = i /\ (i <= 8 => i \in 1 .. 8) /\ (~(i <= 8) => i - 8 \in 1 .. 4)
      OBVIOUS
    <3> QED BY <2>2, <2>5, <2>6, <3>1 DEF SetUp
  <2>9. 12 - 0 = 12
    OBVIOUS
  <2> QED BY <2>7, <2>8, <2>9 DEF Rest
<1>7. InSetUp(0)
  <2>1. {F!Registers[i] : i \in 1 .. 0 - 8} = {}
    OBVIOUS
  <2>2. Heard({F!Registers[i] : i \in 1 .. 0 - 8})
    BY <1>4, <2>1 DEF Heard
  <2>3. \A i \in 1 .. 8 : ~(i <= 0) /\ status[F!Builds[i]] = "none"
    <3>1. \A i \in 1 .. 8 : ~(i <= 0) /\ F!Builds[i] \in F!Components
      BY BuildsAreNames, NamesApart
    <3> QED BY <1>2, <3>1
  <2>4. \A c \in Sessions : status[c] = "none"
    BY <1>2, NamesApart
  <2> QED BY <1>1, <1>6, <2>2, <2>3, <2>4 DEF InSetUp
<1> QED BY <1>1, <1>2, <1>5, <1>7 DEF ServerKept, Unspoilt

LEMMA ServerStepKeeps == ServerKept /\ [ServerNext]_vars => ServerKept'
<1> SUFFICES ASSUME ServerKept, [ServerNext]_vars PROVE ServerKept'
  OBVIOUS
<1>1. CASE UNCHANGED vars
  BY <1>1, NothingMoves DEF vars, server
<1>2. CASE ServerNext
  <2>1. UNCHANGED garbage
    BY <1>2 DEF ServerNext
  <2>2. CASE BuildLayout
    BY <2>1, <2>2, BuildLayoutKeeps
  <2>3. CASE LayoutBuilt
    <3>1. F!Build \/ F!BuildFails
      BY <2>3 DEF LayoutBuilt
    <3>2. CASE stage = "up" /\ F!Build
      BY <2>1, <2>3, <3>2, BuildKeeps DEF LayoutBuilt
    <3>3. CASE stage = "exit" /\ F!BuildFails
      BY <2>1, <2>3, <3>3, BuildFailsKeeps DEF LayoutBuilt
    <3> QED BY <2>3, <3>2, <3>3 DEF LayoutBuilt
  <2>4. CASE RegisterLayout
    BY <2>1, <2>4, RegisterLayoutKeeps
  <2>5. CASE FreeLayout
    BY <2>1, <2>5, FreeLayoutKeeps
  <2>6. CASE LayoutFreed
    <3>1. CASE F!UndoStep
      BY <2>1, <2>6, <3>1, UndoStepKeeps DEF LayoutFreed
    <3>2. CASE F!Close
      BY <2>1, <2>6, <3>2, CloseKeeps DEF LayoutFreed
    <3> QED BY <2>6, <3>1, <3>2 DEF LayoutFreed
  <2>7. CASE LayoutAborts
    BY <2>1, <2>7, LayoutAbortsKeeps
  <2>8. CASE Elsewhere(F!Going)
    <3>1. ~F!BuildingLayout /\ ~F!FreeingLayout /\ F!Going /\ UNCHANGED layout
      BY <2>8 DEF Elsewhere
    <3>2. CASE F!Build
      BY <2>1, <3>1, <3>2, BuildKeeps
    <3>3. CASE F!Register
      BY <2>1, <3>1, <3>3, RegisterKeeps
    <3>4. CASE F!TableFull
      BY <2>1, <3>1, <3>4, TableFullKeeps
    <3>5. CASE F!UndoStep
      BY <2>1, <3>1, <3>5, UndoStepKeeps
    <3>6. CASE F!Exit
      BY <2>1, <3>1, <3>6, ExitKeeps
    <3>7. CASE F!Run
      BY <2>1, <3>1, <3>7, RunKeeps
    <3>8. CASE F!Close
      BY <2>1, <3>1, <3>8, CloseKeeps
    <3>9. CASE F!LoopEnds
      BY <2>1, <3>1, <3>9, LoopEndsKeeps
    <3> QED BY <3>1, <3>2, <3>3, <3>4, <3>5, <3>6, <3>7, <3>8, <3>9 DEF F!Going
  <2>9. CASE Elsewhere(F!Happening)
    <3>1. ~F!BuildingLayout /\ ~F!FreeingLayout /\ F!Happening /\ UNCHANGED layout
      BY <2>9 DEF Elsewhere
    <3>2. CASE F!BuildFails
      BY <2>1, <3>1, <3>2, BuildFailsKeeps
    <3>3. CASE F!EpollRefuses
      BY <2>1, <3>1, <3>3, EpollRefusesKeeps
    <3>4. CASE F!Signal
      BY <2>1, <3>1, <3>4, NothingMoves DEF F!Signal
    <3>5. CASE F!HandleSignal \/ F!SystemError
      BY <2>1, <3>1, <3>5, LeavingKeeps
    <3>6. CASE \E c \in Sessions : F!Connect(c) \/ F!ConnectRefused(c)
      BY <2>1, <3>1, <3>6, ConnectKeeps
    <3>7. CASE \E c \in Sessions : F!ConnectOverflows(c)
      BY <2>1, <3>1, <3>7, OverflowKeeps
    <3>8. CASE \E k \in F!Entries : F!Detach(k)
      BY <2>1, <3>1, <3>8, DetachKeeps
    <3>9. CASE F!ConnectAborts
      BY <2>1, <3>1, <3>9, ConnectAbortsKeeps
    <3> QED BY <3>1, <3>2, <3>3, <3>4, <3>5, <3>6, <3>7, <3>8, <3>9 DEF F!Happening
  <2> QED BY <1>2, <2>2, <2>3, <2>4, <2>5, <2>6, <2>7, <2>8, <2>9 DEF ServerNext, Thread
<1> QED BY <1>1, <1>2

-----------------------------------------------------------------------------
(* What follows.                                                           *)

\* Whatever fails, in whatever order sessions come and go, the server is at a
\* known point of its set-up, its service, an error chain or its end.
THEOREM AlwaysKept == ServerSpec => []ServerKept
<1>1. ServerInit => ServerKept
  BY ServerStart
<1>2. ServerKept /\ [ServerNext]_vars => ServerKept'
  BY ServerStepKeeps
<1> QED BY <1>1, <1>2, PTL DEF ServerSpec

LEMMA RunIsComplete == ASSUME ServerKept PROVE RunsComplete
<1> SUFFICES ASSUME phase = "running"
             PROVE  /\ {"signals", "devcfg", "client"} \subseteq {table[k].h : k \in F!Entries}
                    /\ stage = "up"
                    /\ Cardinality({k \in F!Entries : table[k].h = "layout"}) = Wanted
  BY DEF RunsComplete
<1>1. stage = "up" /\ Heard(Hearing)
  BY ServiceIs
<1>2. Cardinality(Held("layout")) = Wanted
  BY <1>1, HearingIs DEF Heard
<1>3. ASSUME NEW h \in {"signals", "devcfg", "client"}
      PROVE  h \in {table[k].h : k \in F!Entries}
  <2>1. PICK e \in F!Entries : Held(h) = {e}
    BY <1>1, <1>3, HearingIs DEF Heard
  <2> QED BY <2>1 DEF Held
<1> QED BY <1>1, <1>2, <1>3 DEF Held

\* A server that runs hears the signals, the device, its source of work and
\* every slot and timer of its layout, whatever sessions were accepted and
\* dropped; partitions and tasks keep within their arrays.
THEOREM RunningIsHeard == ServerSpec => []ServerInv
<1>1. ServerKept => ServerInv
  BY RunIsComplete, LayoutTypes DEF ServerKept, ServerTyped, Statuses, TableTyped, ServerTypeOK, ServerInv
<1> QED BY <1>1, AlwaysKept, PTL

\* A server that comes up has the layout its tables name, with a bitstream for
\* every slot a task may run in.
THEOREM LayoutIsAsNamed == ServerSpec => []LayoutComplete
<1>1. ServerKept => LayoutComplete
  BY LayoutIsComplete DEF ServerKept, LayoutComplete
<1> QED BY <1>1, AlwaysKept, PTL

LEMMA NoneIsLeft == ASSUME ServerKept PROVE NoBitstreamLeft
<1> SUFFICES ASSUME phase = "exit", garbage = {},
                    NEW t \in 1 .. T, NEW s \in DOMAIN tasks[t].bits,
                    tasks[t].bits[s].got, tasks[t].bits[s].buff \notin mapped
             PROVE  tasks[t].bits[s].buff \notin kernel
  BY DEF NoBitstreamLeft
<1>1. stage \in {"none", "exit"}
  BY DEF ServerKept
<1>2. stage # "none"
  <2>1. stage = "none" => T = 0
    BY DEF ServerKept, LayoutKept, TasksRead
  <2> QED BY <2>1
<1>3. tasks[t].freed
  BY <1>1, <1>2 DEF ServerKept, LayoutKept, FreedInTurn
<1> QED BY <1>3 DEF ServerKept, LayoutKept, GivenBack

\* No bitstream is taken from a task that is still there, and a server that
\* ends, after a failure or not, leaves none in the kernel module, as long as
\* the freed partitions still tell how many there were.
THEOREM BitstreamsGivenBack == ServerSpec => []BitstreamsAccounted
<1>1. ServerKept => BitstreamsAccounted
  BY OnlyOwnAreFreed, NoneIsLeft DEF ServerKept, BitstreamsAccounted
<1> QED BY <1>1, AlwaysKept, PTL

LEMMA NeverTwice == ASSUME ServerKept PROVE FreedOnce
<1> SUFFICES ASSUME NEW r \in F!Components, status[r] = "twice" PROVE Excused(r)
  BY DEF FreedOnce
<1>1. CASE phase = "init"
  <2>1. PICK k \in 0 .. 12 : InSetUp(k)
    BY <1>1 DEF ServerKept
  <2>2. CASE r \in Names
    BY <2>1, <2>2, BuildsAreNames DEF InSetUp
  <2>3. CASE r \in Sessions
    BY <2>1, <2>3 DEF InSetUp
  <2> QED BY <2>2, <2>3, NamesApart
<1>2. CASE phase \in {"running", "clearing"}
  BY <1>2, ServiceIs, NamesApart DEF Alive, Gone
<1>3. CASE phase = "undo"
  <2>1. PICK k \in 0 .. 7 : InUndo(k)
    BY <1>3 DEF ServerKept
  <2>2. CASE r \in Names
    <3>1. PICK i \in 1 .. 8 : F!Builds[i] = r
      BY <2>2, BuildsAreNames
    <3>2. CASE i # 8
      <4>1. i \in 1 .. 7
        BY <3>2
      <4> QED BY <2>1, <3>1, <4>1 DEF InUndo, Alive, Gone
    <3>3. CASE i = 8
      <4>1. PICK late \in BOOLEAN : SignalsWith(late)
        <5>1. SignalsWith(k > 3) /\ (k > 3) \in BOOLEAN
          BY <2>1 DEF InUndo
        <5> QED BY <5>1
      <4>2. r = "signals"
        BY <3>1, <3>3, Orders
      <4> QED BY <4>1, <4>2 DEF SignalsWith
    <3> QED BY <3>2, <3>3
  <2>3. CASE r \in Sessions
    BY <2>1, <2>3 DEF InUndo, Gone
  <2> QED BY <2>2, <2>3, NamesApart
<1>4. CASE phase = "closing"
  <2>1. PICK k \in 0 .. 6 : InClosing(k)
    BY <1>4 DEF ServerKept
  <2>2. CASE r \in Names \ {"client", "signals"}
    BY <2>1, <2>2, ClosingApart DEF InClosing, Alive, Gone
  <2>3. CASE r \in Sessions \cup {"client", "signals"}
    BY <2>1, <2>3 DEF InClosing, Gone
  <2> QED BY <2>2, <2>3, NamesApart
<1>5. CASE phase = "exit"
  BY <1>5 DEF ServerKept, Gone
<1>6. CASE phase = "aborted"
  BY <1>6 DEF ServerKept
<1> QED BY <1>1, <1>2, <1>3, <1>4, <1>5, <1>6 DEF ServerKept, ServerTyped

\* Every component that was built is freed, once, while what its free method
\* calls is alive, wherever the set-up fails and whenever the loop ends: all but
\* the client that epoll_ctl refuses, which the reactor frees again, the session
\* for which the table has no entry, and what a client that could not be built
\* had allocated.
THEOREM FreedOnceWhileNeeded == ServerSpec => []LifeCycle
<1>1. ServerKept => LifeCycle
  BY NeverTwice DEF ServerKept, UsesLive, NothingLeft, Refused, LifeCycle
<1> QED BY <1>1, AlwaysKept, PTL

=============================================================================
