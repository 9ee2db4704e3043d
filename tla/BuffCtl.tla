------------------------------ MODULE BuffCtl ------------------------------
(***************************************************************************)
(* The data buffers of hardware tasks.  The kernel module (fred-buffctl.c) *)
(* makes each buffer a device that one process may have open; the server   *)
(* (srv_support/buffctl.c, sw_task_client.c) asks for buffers when a client *)
(* binds a hardware task and gives them back when the client is detached;  *)
(* the client (user_buff.c, fred_lib.c) opens and maps them by name.  The  *)
(* server is one thread, but clients open, close and die beside it, and    *)
(* between two calls of the server into the kernel.                        *)
(***************************************************************************)
EXTENDS Naturals, FiniteSets, SequencesExt

CONSTANTS
    Clients,   \* software tasks
    Buffs,     \* data buffers of a hardware task
    Worlds,    \* the circumstances that are considered: see World
    None       \* no process

VARIABLES
    count,   \* fred_buffctl.buffs_count
    list,    \* buffs_head: the ids of the buffers, each a registered device
    user,    \* STATE_BUSY of each buffer: the process that has it open
    server,  \* "up", "stopping", "down" (/dev/fred/buffctl is closed)
    module,  \* "loaded" or "removed"
    proc,    \* each client process: "out" of the library, "in", "dying"
    conn,    \* the server's side of a session: "none", "up" or "detaching"
    ifs,     \* data_buffs_ifs of each session: the ids, task after task
    freeing, \* ids free_all_data_buff_ has still to give back
    tested,  \* dereg_buff_dev_ has found the head of freeing not busy
    buff,    \* the struct user_buff of each buffer a client was sent
    dropped, \* history: the server has freed the session of a live client,
             \* which has not left since and closed all its devices
    world    \* the circumstances of this behaviour

kernel == <<count, list, user>>
clients == <<proc, buff, dropped>>
vars == <<kernel, clients, server, module, conn, ifs, freeing, tested, world>>
idle == <<freeing, tested>>

\* map_addr as sent by the server or left by mmap, and what file_d names.
UserBuff == [addr : {"null", "set"}, file_d : {"none", "open", "lost"}]

\* Who the clients are, how many ids there are (2^32 in the code: buffs_count
\* is an uint32_t), how many hardware tasks a client may bind (MAX_HW_TASKS - 1
\* in the code), whether an allocation or the answer to a BIND may fail, whether
\* clients may be killed and the server stop or drop a client at any time, and
\* whether a client may map and unmap its buffers in any order.
World == [clients : SUBSET Clients, ids : Nat \ {0}, tasks : Nat,
          faults : BOOLEAN, abrupt : BOOLEAN, careless : BOOLEAN]

ASSUME ConstantsAssumption ==
    /\ Buffs \in Nat \ {0}
    /\ None \notin Clients /\ None \notin UserBuff
    /\ Worlds \subseteq World

Orderly == ~world.faults /\ ~world.abrupt /\ ~world.careless

Ids == 0 .. world.ids - 1

NoBuff == [id \in Ids |-> None]

Init ==
    /\ world \in Worlds
    /\ count = 0
    /\ list = {}
    /\ user = [id \in Ids |-> None]
    /\ server = "down"
    /\ module = "loaded"
    /\ proc = [c \in Clients |-> "out"]
    /\ conn = [c \in Clients |-> "none"]
    /\ ifs = [c \in Clients |-> << >>]
    /\ freeing = << >>
    /\ tested = FALSE
    /\ buff = [c \in Clients |-> NoBuff]
    /\ dropped = {}

-----------------------------------------------------------------------------
(* The server.                                                             *)

\* The server's thread is between two handlers.
Serving == server = "up" /\ freeing = << >>

\* buffctl_open of both sides; the control device has one user at a time.
ServerStart ==
    /\ server = "down"
    /\ module = "loaded"
    /\ server' = "up"
    /\ UNCHANGED <<kernel, module, clients, conn, ifs, idle>>

Connect(c) ==
    /\ Serving
    /\ c \in world.clients
    /\ proc[c] = "out" /\ conn[c] = "none"
    /\ proc' = [proc EXCEPT ![c] = "in"]
    /\ conn' = [conn EXCEPT ![c] = "up"]
    /\ buff' = [buff EXCEPT ![c] = NoBuff]
    /\ UNCHANGED <<kernel, server, module, dropped, ifs, idle>>

\* (wrong: a name that is taken is registered again)
RegisteredAgain(id) == TRUE

\* misc_register refuses a name that is taken.  (Bound: an id is not used
\* again while a process still has a removed device of that id open.)
Registered(id) == id \notin list /\ user[id] = None

\* reg_new_buff_ for the i-th buffer of a BIND: every attempt consumes an id.
NewId(i) == (count + i - 1) % world.ids

Counted(n) == (count + n) % world.ids

\* What FRED_BUFFCTL_ALLOC copies to the server, n times.
Row(n) == [i \in 1 .. n |-> NewId(i)]

\* alloc_data_buff_ gets n buffers and then fails, unless it has them all.
Allocates(n) ==
    /\ \A i \in 1 .. n : Registered(NewId(i))
    /\ IsInjective(Row(n))
    /\ n < Buffs => world.faults \/ ~Registered(NewId(n + 1))

\* send_user_data_buffs_: the structures sent were never initialised but for
\* name and length.
Sent(known, ids) ==
    {[id \in Ids |-> IF id \in ids THEN [addr |-> a, file_d |-> "none"] ELSE known[id]] :
        a \in IF world.careless THEN {"null", "set"} ELSE {"null"}}

\* FRED_MSG_BIND: after an allocation that fails, or an answer that cannot be
\* written, the client is detached and hw_tasks_count does not count the row.
\* (Bound: the counter comes round only where a BIND may fail.)
Bind(c) ==
    \E n \in 0 .. Buffs, sent \in BOOLEAN :
        /\ Serving
        /\ conn[c] = "up" /\ proc[c] = "in"
        /\ Len(ifs[c]) + Buffs <= world.tasks * Buffs
        /\ Allocates(n)
        /\ ~sent => world.faults
        /\ ~world.faults => count + Buffs < world.ids
        /\ count' = Counted(IF n = Buffs THEN n ELSE n + 1)
        /\ list' = list \cup ToSet(Row(n))
        /\ IF n = Buffs /\ sent
           THEN /\ ifs' = [ifs EXCEPT ![c] = @ \o Row(n)]
                /\ \E known \in Sent(buff[c], ToSet(Row(n))) :
                     buff' = [buff EXCEPT ![c] = known]
                /\ UNCHANGED conn
           ELSE /\ conn' = [conn EXCEPT ![c] = "detaching"]
                /\ UNCHANGED <<ifs, buff>>
        /\ UNCHANGED <<user, server, module, proc, dropped, idle>>

\* The server drops a session whose client is alive: it could not write to it.
Drop(c) ==
    /\ world.abrupt /\ Serving
    /\ conn[c] = "up"
    /\ conn' = [conn EXCEPT ![c] = "detaching"]
    /\ UNCHANGED <<kernel, server, module, clients, ifs, idle>>

\* free_ of a client begins, after its EOF, an error, or to stop the server:
\* free_all_data_buff_ goes from task to task and from buffer to buffer.
Detach(c) ==
    /\ freeing = << >>
    /\ \/ server = "up" /\ (conn[c] = "detaching" \/ (conn[c] = "up" /\ proc[c] # "in"))
       \/ server = "stopping" /\ conn[c] # "none"
    /\ conn' = [conn EXCEPT ![c] = "none"]
    /\ ifs' = [ifs EXCEPT ![c] = << >>]
    /\ freeing' = ifs[c]
    /\ dropped' = IF proc[c] = "in" THEN dropped \cup {c} ELSE dropped
    /\ UNCHANGED <<kernel, server, module, proc, buff, tested>>

\* SIGINT or SIGTERM: every session is freed, then buffctl is closed.
Stop ==
    /\ Serving
    /\ world.abrupt \/ \A c \in Clients : conn[c] = "none"
    /\ server' = "stopping"
    /\ UNCHANGED <<kernel, module, clients, conn, ifs, idle>>

ServerExit ==
    /\ server = "stopping" /\ freeing = << >>
    /\ \A c \in Clients : conn[c] = "none"
    /\ server' = "down"
    /\ UNCHANGED <<kernel, module, clients, conn, ifs, idle>>

-----------------------------------------------------------------------------
(* The kernel module: free_buff_ with dereg_buff_dev_, and the module's end. *)

\* (wrong: a buffer is removed although a process has it open)
IgnoresBusy(id) == FALSE

IsBusy(id) == user[id] # None

\* dereg_buff_dev_ refuses a busy buffer, free_buff_ an unknown one.
Dereg(id) == id \in list /\ ~IsBusy(id)

\* The buffer is looked up; one that is busy stays for good: the server frees
\* its struct fred_buff_if whatever the answer is.
FreeTest ==
    /\ freeing # << >> /\ ~tested
    /\ LET id == Head(freeing)
       IN  IF Dereg(id)
           THEN tested' = TRUE /\ UNCHANGED freeing
           ELSE freeing' = Tail(freeing) /\ UNCHANGED tested
    /\ UNCHANGED <<kernel, server, module, clients, conn, ifs>>

\* misc_deregister, list_del and kfree; the flag is not tested again.
FreeRemove ==
    /\ tested
    /\ list' = list \ {Head(freeing)}
    /\ freeing' = Tail(freeing)
    /\ tested' = FALSE
    /\ UNCHANGED <<count, user, server, module, clients, conn, ifs>>

\* .owner = THIS_MODULE: an open device keeps the module loaded.
Unused == server = "down" /\ \A id \in Ids : user[id] = None

\* What free_all_buffs_ may leave in the list: it stops at the first busy buffer
\* and leaves that one and all that come after it (the list has the newest
\* first; the order of list is not modelled).
FreeAll ==
    {left \in SUBSET list : /\ {id \in list : IsBusy(id)} \subseteq left
                            /\ left # {} => \E id \in left : IsBusy(id)}

\* fred_buffctl_exit
ModuleExit ==
    /\ module = "loaded"
    /\ Unused
    /\ module' = "removed"
    /\ list' \in FreeAll
    /\ UNCHANGED <<count, user, server, clients, conn, ifs, idle>>

-----------------------------------------------------------------------------
(* The client library.                                                     *)

\* user_buff_map opens the device, and overwrites file_d, before it looks at
\* map_addr.  buffs_open: one user at a time.
Map(c, id) ==
    /\ proc[c] = "in"
    /\ id \in list /\ buff[c][id] # None
    /\ ~world.careless => buff[c][id] = [addr |-> "null", file_d |-> "none"]
    /\ IF IsBusy(id)
       THEN /\ buff' = [buff EXCEPT ![c][id].file_d = "lost"]
            /\ UNCHANGED user
       ELSE /\ user' = [user EXCEPT ![id] = c]
            /\ buff' = [buff EXCEPT ![c][id] = [addr |-> "set", file_d |-> "open"]]
    /\ UNCHANGED <<count, list, server, module, proc, dropped, conn, ifs, idle>>

\* (wrong: unmapping does not close the device)
ClosedNever(b) == FALSE

\* user_buff_unmap closes what file_d names, and leaves map_addr as it was.
Closes(b) == b # None /\ b.addr = "set" /\ b.file_d = "open"

Unmapped(b) == IF Closes(b) THEN [b EXCEPT !.file_d = "lost"] ELSE b

Unmap(c, id) ==
    /\ proc[c] = "in"
    /\ Closes(buff[c][id])
    /\ user' = [user EXCEPT ![id] = None]
    /\ buff' = [buff EXCEPT ![c][id] = Unmapped(@)]
    /\ UNCHANGED <<count, list, server, module, proc, dropped, conn, ifs, idle>>

\* fred_free unmaps every buffer, then closes the socket.
FredFree(c) ==
    /\ proc[c] = "in"
    /\ user' = [id \in Ids |-> IF user[id] = c /\ Closes(buff[c][id]) THEN None ELSE user[id]]
    /\ buff' = [buff EXCEPT ![c] = NoBuff]
    /\ proc' = [proc EXCEPT ![c] = "out"]
    /\ dropped' = IF \E id \in Ids : user'[id] = c THEN dropped ELSE dropped \ {c}
    /\ UNCHANGED <<count, list, server, module, conn, ifs, idle>>

\* The process dies: its socket is closed first, its devices a little later.
Kill(c) ==
    /\ world.abrupt
    /\ proc[c] = "in"
    /\ proc' = [proc EXCEPT ![c] = "dying"]
    /\ UNCHANGED <<kernel, server, module, dropped, conn, ifs, idle, buff>>

\* The end of a process releases the devices it still has open.
Release(c) ==
    /\ proc[c] = "dying" \/ (proc[c] = "out" /\ \E id \in Ids : user[id] = c)
    /\ user' = [id \in Ids |-> IF user[id] = c THEN None ELSE user[id]]
    /\ proc' = [proc EXCEPT ![c] = "out"]
    /\ dropped' = dropped \ {c}
    /\ UNCHANGED <<count, list, server, module, conn, ifs, idle, buff>>

-----------------------------------------------------------------------------
(* Specification.                                                          *)

Server ==
    \/ ServerStart \/ Stop \/ ServerExit
    \/ \E c \in Clients : Connect(c) \/ Bind(c) \/ Drop(c) \/ Detach(c)

Kernel == FreeTest \/ FreeRemove

Client(c) ==
    \/ \E id \in Ids : Map(c, id) \/ Unmap(c, id)
    \/ FredFree(c) \/ Kill(c) \/ Release(c)

Next ==
    /\ Server \/ Kernel \/ ModuleExit \/ \E c \in Clients : Client(c)
    /\ UNCHANGED world

Spec == Init /\ [][Next]_vars

-----------------------------------------------------------------------------
(* Properties.                                                             *)

Held == ToSet(freeing) \cup UNION {ToSet(ifs[c]) : c \in Clients}

TypeOK ==
    /\ world \in Worlds /\ count \in Ids
    /\ list \subseteq Ids
    /\ user \in [Ids -> Clients \cup {None}]
    /\ server \in {"up", "stopping", "down"}
    /\ module \in {"loaded", "removed"}
    /\ proc \in [Clients -> {"out", "in", "dying"}]
    /\ conn \in [Clients -> {"none", "up", "detaching"}]
    /\ ifs \in [Clients -> Seq(Ids)]
    /\ \A c \in Clients : Len(ifs[c]) <= world.tasks * Buffs
    /\ freeing \in Seq(Ids)
    /\ tested \in BOOLEAN
    /\ buff \in [Clients -> [Ids -> UserBuff \cup {None}]]

\* What the server gives back is there: every id it holds names a buffer in
\* the kernel's list (free_buff_ prints the entry it did not find through an
\* uninitialised pointer when the list is empty).
HeldExists == Held \subseteq list

\* No buffer is given to two sessions, although ids come from a counter that
\* wraps around.
OneOwner ==
    /\ IsInjective(freeing)
    /\ \A c \in Clients : IsInjective(ifs[c]) /\ ToSet(ifs[c]) \cap ToSet(freeing) = {}
    /\ \A c, d \in Clients : c # d => ToSet(ifs[c]) \cap ToSet(ifs[d]) = {}

\* A process that has a device open uses a buffer that exists, but for one
\* race: the server drops a session whose client lives and opens the device
\* between the test of STATE_BUSY and the removal.
OpenExists ==
    \A id \in Ids : user[id] # None /\ id \notin list => user[id] \in dropped

\* With clients that map a buffer once and leave through fred_free, and no
\* failing call, the kernel has exactly the buffers the server holds: nothing
\* is left behind until the module is removed.
NothingLeaks == Orderly => list = Held

\* When the module has been removed nothing it made is left, and nobody uses it.
RemovedIsEmpty == module = "removed" => list = {} /\ \A id \in Ids : user[id] = None

\* Types, and the server's account of the buffers: what it holds exists
\* (HeldExists) and is held once (OneOwner).
BuffersOwned == TypeOK /\ HeldExists /\ OneOwner

\* Nobody uses memory that was given back, neither that of one buffer
\* (OpenExists) nor that of the module (RemovedIsEmpty).
UsersSafe == OpenExists /\ RemovedIsEmpty
=============================================================================
