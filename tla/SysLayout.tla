------------------------------ MODULE SysLayout ------------------------------
(***************************************************************************)
(* The layout of the server: sys_layout.c reads one file with a line for    *)
(* each partition and one with a line for each hardware task (parser.c),    *)
(* builds partitions of slots and timers (partition.c, slot.c) and hardware *)
(* tasks with a bitstream for every slot (hw_task.c), each in a buffer of   *)
(* the kernel module, and takes it all down, after an error or at the end.  *)
(* A line is the sequence of its tokens: <<partition, slots>>, and <<name,  *)
(* id, partition, buffer, ...>> without the time and the path that a line   *)
(* of hw_tasks.csv has as well.  A bitstream is the id of its buffer.       *)
(***************************************************************************)
EXTENDS Naturals, FiniteSets, SequencesExt

CONSTANTS
    ArchFiles,      \* contents of arch.csv: sequences of lines
    HwFiles,        \* contents of hw_tasks.csv: sequences of lines
    MaxPartitions,  \* MAX_PARTITIONS
    MaxHwTasks,     \* MAX_HW_TASKS
    MaxSlots,       \* MAX_SLOTS
    MaxDataBuffs,   \* MAX_DATA_BUFFS
    Faults          \* may an operation fail?

ASSUME ConstantsAssumption ==
    /\ {MaxPartitions, MaxHwTasks, MaxSlots, MaxDataBuffs} \subseteq Nat
    /\ MaxSlots > 1
    /\ Faults \in BOOLEAN

VARIABLES
    arch, hw,    \* the rows of the two files
    garbage,     \* what a freed partition's slots_count may be read as, beside
                 \* the value it had; the same throughout a behaviour
    stage,       \* "none", "arch", "hw", "up", "free", "exit"
    step,        \* slots tried, or bitstreams loaded, in the last row
    partitions,  \* of the layout: [name, slots, freed]
    lost,        \* slots and timers that no partition holds
    found,       \* the variable partition of build_hw_tasks_, 0 for NULL
    tasks,       \* [part, bits, buffs, freed]; bits: [buff, got] for each slot
    kernel,      \* buffers the kernel module has: ids
    next,        \* the next id
    mapped       \* those of them that the server has open

memory == <<kernel, next, mapped>>

Ids == 0 .. next

\* pars_tokenize keeps the lines that have tokens, the first no comment.
Tokenize(file) == SelectSeq(file, LAMBDA line : line # << >> /\ line[1] # "#")

\* pars_get_token
PartitionName(row) == row[1]
SlotsCount(row) == row[2]
PartitionOf(row) == row[3]
BuffSizes(row) == SubSeq(row, 4, Len(row))

\* The tokens that are read as numbers are numbers.
ASSUME FilesAssumption ==
    /\ \A a \in ArchFiles : Tokenize(a) \in Seq(STRING \X Nat)
    /\ \A h \in HwFiles :
          /\ Tokenize(h) \in Seq(Range(Tokenize(h)))
          /\ \A row \in Range(Tokenize(h)) : BuffSizes(row) \in Seq(Nat)

Init ==
    /\ \E a \in ArchFiles : arch = Tokenize(a)
    /\ \E h \in HwFiles : hw = Tokenize(h)
    /\ stage = "none"
    /\ step = 0
    /\ partitions = << >>
    /\ lost = 0
    /\ found = 0
    /\ tasks = << >>
    /\ \E left \in 0 .. 1 : kernel = 0 .. left - 1 /\ next = left
    /\ mapped = {}

P == Len(partitions)
T == Len(tasks)

-----------------------------------------------------------------------------
(* build_partitions_.                                                      *)

Open ==
    /\ stage = "none"
    /\ stage' = "arch"
    /\ UNCHANGED <<arch, hw, step, partitions, lost, found, tasks, memory>>

\* sys_layout_init frees what there is.
Clean == stage' = "free"

ArchFails ==
    /\ stage = "arch" /\ P = 0
    /\ Faults \/ Len(arch) >= MaxPartitions
    /\ Clean
    /\ UNCHANGED <<arch, hw, step, partitions, lost, found, tasks, memory>>

\* The last partition has seen all slots of its line.
RowDone == P > 0 => step = SlotsCount(arch[P])

NewPartition ==
    /\ stage = "arch" /\ RowDone
    /\ Len(arch) < MaxPartitions /\ P < Len(arch)
    /\ partitions' = Append(partitions, [name |-> PartitionName(arch[P + 1]), slots |-> 0, freed |-> FALSE])
    /\ step' = 0
    /\ UNCHANGED <<arch, hw, stage, lost, found, tasks, memory>>

\* partition_add_slot, whose refusal build_partitions_ does not look at.
Added(p) == IF p.slots >= MaxSlots - 1 THEN p.slots ELSE p.slots + 1

NewSlot ==
    /\ stage = "arch" /\ P > 0 /\ step < SlotsCount(arch[P])
    /\ LET slots == Added(partitions[P])
       IN  /\ partitions' = [partitions EXCEPT ![P].slots = slots]
           /\ lost' = lost + (IF slots = partitions[P].slots THEN 1 ELSE 0)
    /\ step' = step + 1
    /\ UNCHANGED <<arch, hw, stage, found, tasks, memory>>

\* slot_init fails, or slot_timer_init with the slot made.
NewSlotFails ==
    /\ Faults
    /\ stage = "arch" /\ P > 0 /\ step < SlotsCount(arch[P])
    /\ lost' \in {lost, lost + 1}
    /\ Clean
    /\ UNCHANGED <<arch, hw, step, partitions, found, tasks, memory>>

\* fd_timer_init frees the structure it is a part of: the C library aborts.
NewTimerAborts ==
    /\ Faults
    /\ stage = "arch" /\ P > 0 /\ step < SlotsCount(arch[P])
    /\ lost' = lost + 1
    /\ stage' = "exit"
    /\ UNCHANGED <<arch, hw, step, partitions, found, tasks, memory>>

PartitionsBuilt ==
    /\ stage = "arch" /\ RowDone
    /\ Len(arch) < MaxPartitions /\ P = Len(arch)
    /\ stage' = "hw"
    /\ step' = 0
    /\ UNCHANGED <<arch, hw, partitions, lost, found, tasks, memory>>

-----------------------------------------------------------------------------
(* build_hw_tasks_.                                                        *)

HwFails ==
    /\ stage = "hw" /\ T = 0
    /\ Faults \/ Len(hw) >= MaxHwTasks
    /\ Clean
    /\ UNCHANGED <<arch, hw, step, partitions, lost, found, tasks, memory>>

\* partition_get_slots_count
BitsCount(t) == partitions[tasks[t].part].slots

TaskDone == T > 0 => step = BitsCount(T)

Named(name) == {i \in 1 .. P : partitions[i].name = name}

\* (wrong: the search goes on after the first partition of the name)
LastFound(name, before) ==
    IF Named(name) = {} THEN before ELSE CHOOSE i \in Named(name) : \A j \in Named(name) : i >= j

\* The variable keeps its value when no partition has the name.
Found(name, before) ==
    IF Named(name) = {} THEN before ELSE CHOOSE i \in Named(name) : \A j \in Named(name) : i <= j

\* Data buffers: element MAX_DATA_BUFFS of the sizes is the count itself, and
\* the compiler may store either value last.
BuffsCounts(sizes) ==
    IF Len(sizes) <= MaxDataBuffs THEN {Len(sizes)} ELSE {Len(sizes), Last(sizes)}

\* hw_task_init before the bitstreams; the buffers' sizes, which build_hw_tasks_
\* adds after them, are known from the line.  (Bound: a line has at most one
\* buffer more than a task can hold.)
NewTask ==
    /\ stage = "hw" /\ TaskDone
    /\ Len(hw) < MaxHwTasks /\ T < Len(hw)
    /\ LET row == hw[T + 1]
           part == Found(PartitionOf(row), found)
       IN  /\ part # 0
           /\ found' = part
           /\ \E buffs \in BuffsCounts(BuffSizes(row)) :
                 tasks' = Append(tasks, [part |-> part, bits |-> << >>,
                                         buffs |-> buffs, freed |-> FALSE])
    /\ step' = 0
    /\ UNCHANGED <<arch, hw, stage, partitions, lost, memory>>

\* No partition has ever been found, or there is no memory.
NewTaskFails ==
    /\ stage = "hw" /\ TaskDone
    /\ Len(hw) < MaxHwTasks /\ T < Len(hw)
    /\ Faults \/ Found(PartitionOf(hw[T + 1]), found) = 0
    /\ Clean
    /\ UNCHANGED <<arch, hw, step, partitions, lost, found, tasks, memory>>

WithBit(b) == [tasks EXCEPT ![T].bits = Append(@, b)]

LoadBit ==
    /\ stage = "hw" /\ ~TaskDone
    /\ tasks' = WithBit([buff |-> next, got |-> TRUE])
    /\ kernel' = kernel \cup {next}
    /\ next' = next + 1
    /\ step' = step + 1
    /\ UNCHANGED <<arch, hw, stage, partitions, lost, found, mapped>>

\* The file cannot be opened.
OpenBitFails ==
    /\ Faults /\ stage = "hw" /\ ~TaskDone
    /\ Clean
    /\ UNCHANGED <<arch, hw, step, partitions, lost, found, tasks, memory>>

\* The kernel module has consumed an id; the interface structure, left in the
\* task, says 0.  (The bitstream's file stays open: descriptors of files are not
\* modelled, and end with the process.)
AllocBitFails ==
    /\ Faults /\ stage = "hw" /\ ~TaskDone
    /\ tasks' = WithBit([buff |-> 0, got |-> FALSE])
    /\ next' = next + 1
    /\ Clean
    /\ UNCHANGED <<arch, hw, step, partitions, lost, found, kernel, mapped>>

\* The file is shorter than it was, or the buffer could not be mapped, which the
\* code does not look at, and the read into address 0 is refused.  The buffer
\* stays open, unless it is its opening that failed.
ReadBitFails ==
    /\ Faults /\ stage = "hw" /\ ~TaskDone
    /\ tasks' = WithBit([buff |-> next, got |-> TRUE])
    /\ kernel' = kernel \cup {next}
    /\ mapped' \in {mapped, mapped \cup {next}}
    /\ next' = next + 1
    /\ Clean
    /\ UNCHANGED <<arch, hw, step, partitions, lost, found>>

\* Without the mapping the C library may write to address 0 itself: the process
\* ends with the buffer allocated.
ReadBitAborts == Faults /\ LoadBit

TasksBuilt ==
    /\ stage = "hw" /\ TaskDone
    /\ Len(hw) < MaxHwTasks /\ T = Len(hw)
    /\ stage' = "up"
    /\ UNCHANGED <<arch, hw, step, partitions, lost, found, tasks, memory>>

-----------------------------------------------------------------------------
(* Use, and the end.                                                       *)

\* A slot and its timer are an event source each.
Wanted ==
    Cardinality(UNION {{i} \X ((1 .. partitions[i].slots) \X {"slot", "timer"}) : i \in 1 .. P})

\* sys_layout_free is called.
Shutdown ==
    /\ stage = "up"
    /\ Clean
    /\ UNCHANGED <<arch, hw, step, partitions, lost, found, tasks, memory>>

FreePartitions ==
    /\ stage = "free"
    /\ \E i \in 1 .. P : ~partitions[i].freed
    /\ partitions' = [i \in 1 .. P |-> [partitions[i] EXCEPT !.freed = TRUE]]
    /\ UNCHANGED <<arch, hw, stage, step, lost, found, tasks, memory>>

\* sys_layout_free goes through the array.
Turn(t) == ~tasks[t].freed /\ \A u \in 1 .. t - 1 : tasks[u].freed

\* (wrong: the last of the n slots is forgotten)
FreesButLast(bits, n) == {bits[i].buff : i \in DOMAIN bits \cap 1 .. n - 1}

\* buffctl_free_buff for every interface structure the task has; the pointers
\* of slots it has not come to are null.
Frees(bits, n) == {bits[i].buff : i \in DOMAIN bits \cap 1 .. n}

\* hw_task_free asks the partition, which has been freed, how many slots it has;
\* the kernel module keeps a buffer that is mapped.
FreeTask(t) ==
    /\ stage = "free"
    /\ \A i \in 1 .. P : partitions[i].freed
    /\ Turn(t)
    /\ \E n \in garbage \cup {BitsCount(t)} :
          kernel' = kernel \ (Frees(tasks[t].bits, n) \ mapped)
    /\ tasks' = [tasks EXCEPT ![t].freed = TRUE]
    /\ UNCHANGED <<arch, hw, stage, step, partitions, lost, found, next, mapped>>

\* The mapping ends with the process.
Exit ==
    /\ stage = "free"
    /\ \A i \in 1 .. P : partitions[i].freed
    /\ \A t \in 1 .. T : tasks[t].freed
    /\ stage' = "exit"
    /\ UNCHANGED <<arch, hw, step, partitions, lost, found, tasks, memory>>

\* What sys_layout_init does until it returns, but for NewTimerAborts and
\* ReadBitAborts.
Building ==
    \/ Open \/ ArchFails \/ NewPartition \/ NewSlot \/ NewSlotFails \/ PartitionsBuilt
    \/ HwFails \/ NewTask \/ NewTaskFails
    \/ LoadBit \/ OpenBitFails \/ AllocBitFails \/ ReadBitFails \/ TasksBuilt

\* What sys_layout_free does, and sys_layout_init when it fails.
Freeing == FreePartitions \/ Exit \/ \E t \in 1 .. T : FreeTask(t)

-----------------------------------------------------------------------------
(* Properties.                                                             *)

TypeOK ==
    /\ stage \in {"none", "arch", "hw", "up", "free", "exit"}
    /\ \A i \in 1 .. P : partitions[i].slots \in 0 .. MaxSlots - 1
    /\ \A t \in 1 .. T : tasks[t].part \in 1 .. P /\ Len(tasks[t].bits) <= MaxSlots
    /\ kernel \subseteq Ids /\ mapped \subseteq kernel

\* The scheduler asks a hardware task for the bitstream of any slot of its
\* partition (hw_task_get_bit_phy): when the server is up each has been loaded
\* and is still allocated, whatever the tables said and however many slots the
\* partition has refused.
BitstreamForEverySlot ==
    stage = "up" =>
        \A t \in 1 .. T : \A s \in 1 .. partitions[tasks[t].part].slots :
            s \in DOMAIN tasks[t].bits /\ tasks[t].bits[s].buff \in kernel

\* A server that comes up has what the tables name: a task for every line, in
\* the first partition of the name, with the slots the line asks for up to the
\* limit.
LayoutMatchesTables ==
    stage = "up" =>
        /\ P = Len(arch) /\ T = Len(hw)
        /\ \A i \in 1 .. P : partitions[i].slots = SlotsCount(arch[i]) \/ SlotsCount(arch[i]) >= MaxSlots
        /\ \A t \in 1 .. T :
              LET same == {i \in 1 .. P : PartitionName(arch[i]) = PartitionOf(hw[t])}
              IN  same # {} =>
                    tasks[t].part \in same /\ \A i \in same : tasks[t].part <= i

\* The structure of an allocation that failed asks the kernel module to free
\* buffer 0: it never takes away a buffer of a task that is still there.
OnlyOwnFreed ==
    \A t \in 1 .. T : ~tasks[t].freed =>
        \A s \in DOMAIN tasks[t].bits : tasks[t].bits[s].got => tasks[t].bits[s].buff \in kernel
=============================================================================
