---------------------------- MODULE FredSession ----------------------------
(***************************************************************************)
(* Sessions between clients and the FRED server: the client library         *)
(* (fred_lib.c) on one side of a stream socket; the listener and one        *)
(* sw_task_client per connection on the other, run one handler at a time by *)
(* the reactor.  The scheduler is what FredSched promises: a request pushed *)
(* to it is answered, by DONE or OVERRUN.  Clients may die at any point,    *)
(* and what the kernel then tells the server is modelled: end of file when  *)
(* all answers had been read, an error on the socket when one had not, and  *)
(* SIGPIPE, which nobody handles, for a write to a closed socket.           *)
(***************************************************************************)
EXTENDS Naturals, FiniteSets, Sequences

CONSTANTS
    Clients,   \* software tasks, each connects once
    HwTasks,   \* hardware tasks of the layout
    Unknown,   \* an id that is not in the layout
    MaxBinds,  \* MAX_HW_TASKS - 1, hardware tasks a client may bind
    Rooms,     \* event sources left in the reactor for sessions: choices
    Kills,     \* may a client process die?  (a set of choices)
    Faults,    \* may allocations, accept or the scheduler fail?  (the same)
    None       \* no request

ASSUME ConstantsAssumption ==
    /\ IsFiniteSet(Clients)
    /\ MaxBinds \in Nat \ {0} /\ Rooms \subseteq Nat \ {0}
    /\ Kills \subseteq BOOLEAN /\ Faults \subseteq BOOLEAN
    /\ Unknown \notin HwTasks /\ None \notin HwTasks

VARIABLES
    state,   \* fred_data.state, and "none" before fred_init, "freed", "dead"
    call,    \* what the client waits for: "none", "ack", "buffs", "data", "answer"
    bound,   \* fred_data.hw_tasks
    c2s,     \* messages on their way to the server
    s2c,     \* messages on their way to the client
    peer,    \* the client's end of the socket: "open", "eof", "reset", "none"
    sess,    \* the session: "none", "backlog", "empty", "ready", "freed"
    binds,   \* sw_task_client.hw_tasks
    req,     \* the hardware task of the accel_req the scheduler has, or None
    banned,  \* hardware tasks that overran
    server,  \* "up", "down" in order, "killed", "aborted", "undefined"
    world    \* what may go wrong in this behaviour: [room, kills, faults]

client == <<state, call, bound>>
channel == <<c2s, s2c, peer>>
service == <<sess, binds, req, banned>>
vars == <<client, channel, service, server, world>>

Msg(head, arg) == [head |-> head, arg |-> arg]

Init ==
    /\ state = [c \in Clients |-> "none"]
    /\ call = [c \in Clients |-> "none"]
    /\ bound = [c \in Clients |-> << >>]
    /\ c2s = [c \in Clients |-> << >>]
    /\ s2c = [c \in Clients |-> << >>]
    /\ peer = [c \in Clients |-> "none"]
    /\ sess = [c \in Clients |-> "none"]
    /\ binds = [c \in Clients |-> << >>]
    /\ req = [c \in Clients |-> None]
    /\ banned = {}
    /\ server = "up"
    /\ world \in [room : Rooms, kills : Kills, faults : Faults]

Up == server = "up"

\* The server's end of the connection is open (a connection waits in the
\* backlog of the listening socket until it is accepted).
Connected(c) == Up /\ sess[c] \in {"backlog", "empty", "ready"}

-----------------------------------------------------------------------------
(* The client library.                                                     *)

\* fred_init: connect and send INIT, then wait.
FredInit(c) ==
    /\ state[c] = "none"
    /\ IF Up THEN /\ state' = [state EXCEPT ![c] = "busy"]
                  /\ call' = [call EXCEPT ![c] = "ack"]
                  /\ c2s' = [c2s EXCEPT ![c] = <<Msg("INIT", None)>>]
                  /\ peer' = [peer EXCEPT ![c] = "open"]
                  /\ sess' = [sess EXCEPT ![c] = "backlog"]
             ELSE /\ state' = [state EXCEPT ![c] = "ERROR"]
                  /\ UNCHANGED <<call, c2s, peer, sess>>
    /\ UNCHANGED <<bound, s2c, binds, req, banned, server>>

\* A request is written and an answer awaited; the write ends the process when
\* the server has closed the connection.
Request(c, msg, st, awaits) ==
    IF Connected(c)
    THEN /\ c2s' = [c2s EXCEPT ![c] = Append(@, msg)]
         /\ state' = [state EXCEPT ![c] = st]
         /\ call' = [call EXCEPT ![c] = awaits]
         /\ UNCHANGED <<bound, s2c, peer, service, server>>
    ELSE /\ state' = [state EXCEPT ![c] = "dead"]
         /\ call' = [call EXCEPT ![c] = "none"]
         /\ UNCHANGED <<bound, channel, service, server>>

FredBind(c, h) ==
    /\ state[c] \in {"INIT", "IDLE"} /\ call[c] = "none"
    /\ Request(c, Msg("BIND", h), state[c], "buffs")

\* (wrong: a second acceleration may be asked for before the first has ended)
MayRunAgain(c) == state[c] \in {"IDLE", "ACCEL"}

MayRun(c) == state[c] = "IDLE" /\ call[c] = "none"

\* fred_async_accel; fred_accel waits at once, others later.
FredAsyncAccel(c, h) ==
    /\ MayRun(c)
    /\ h \in {bound[c][i] : i \in DOMAIN bound[c]}
    /\ Request(c, Msg("RUN", h), "ACCEL", "answer")

\* What an answer does to the call that awaits it, as <<state, call>>.
Outcome(c, head) ==
    CASE call[c] = "ack" -> <<IF head = "ACK" THEN "INIT" ELSE "ERROR", "none">>
      [] call[c] = "buffs" -> <<state[c], IF head = "BUFFS" THEN "data" ELSE "none">>
      [] call[c] = "data" -> <<"IDLE", "none">>
      [] call[c] = "answer" -> <<IF head = "DONE" THEN "IDLE" ELSE "ERROR", "none">>

Received(c, outcome) ==
    /\ state' = [state EXCEPT ![c] = outcome[1]]
    /\ call' = [call EXCEPT ![c] = outcome[2]]

Receive(c) ==
    /\ call[c] # "none" /\ s2c[c] # << >>
    /\ Received(c, Outcome(c, Head(s2c[c]).head))
    /\ bound' = IF call[c] = "data"
                THEN [bound EXCEPT ![c] = Append(@, Head(s2c[c]).arg)] ELSE bound
    /\ s2c' = [s2c EXCEPT ![c] = Tail(@)]
    /\ UNCHANGED <<c2s, peer, service, server>>

\* fred_bind cannot allocate: the buffers stay in the socket, unread.
BindOutOfMemory(c) ==
    /\ world.faults
    /\ call[c] = "buffs" /\ s2c[c] # << >> /\ Head(s2c[c]).head = "BUFFS"
    /\ Received(c, <<"ERROR", "none">>)
    /\ s2c' = [s2c EXCEPT ![c] = Tail(@)]
    /\ UNCHANGED <<bound, c2s, peer, service, server>>

\* The server has closed the connection and there is nothing left to read.
ReceiveFails(c) ==
    /\ call[c] # "none" /\ s2c[c] = << >> /\ ~Connected(c)
    /\ Received(c, <<"ERROR", "none">>)
    /\ UNCHANGED <<bound, channel, service, server>>

\* close() of a stream socket: the other end learns of unread data.
Close(c) == peer' = [peer EXCEPT ![c] =
                IF @ = "none" THEN "none" ELSE IF s2c[c] = << >> THEN "eof" ELSE "reset"]

MayFree(c) == state[c] # "ACCEL"

FredFree(c) ==
    /\ state[c] \in {"INIT", "IDLE", "ACCEL", "ERROR"}
    /\ call[c] \in {"none", "answer"}
    /\ MayFree(c)
    /\ Close(c)
    /\ state' = [state EXCEPT ![c] = "freed"]
    /\ call' = [call EXCEPT ![c] = "none"]
    /\ UNCHANGED <<bound, c2s, s2c, service, server>>

\* The process of a client ends without a call of the library.
Kill(c) ==
    /\ world.kills
    /\ state[c] \notin {"none", "freed", "dead"}
    /\ Close(c)
    /\ state' = [state EXCEPT ![c] = "dead"]
    /\ call' = [call EXCEPT ![c] = "none"]
    /\ UNCHANGED <<bound, c2s, s2c, service, server>>

-----------------------------------------------------------------------------
(* The server.                                                             *)

Ends(how) == server' = how /\ UNCHANGED <<client, c2s, s2c, peer, service>>

\* The event loop ends on a system error, and the reactor frees the sessions.
Shutdown == Ends("down")

Sessions == {c \in Clients : sess[c] \in {"empty", "ready"}}

\* The listener accepts a connection and registers its session.
Accept(c) ==
    /\ Up /\ sess[c] = "backlog"
    /\ IF Cardinality(Sessions) < world.room
       THEN /\ sess' = [sess EXCEPT ![c] = "empty"]
            /\ UNCHANGED <<client, channel, binds, req, banned, server>>
       ELSE Shutdown

\* sw_task_client_init leaves a null handler, which the reactor asserts not to
\* be given.
AcceptFails(c) == world.faults /\ Up /\ sess[c] = "backlog" /\ Ends("aborted")

Answer(c, msgs) ==
    IF peer[c] = "open"
    THEN s2c' = [s2c EXCEPT ![c] = @ \o msgs] /\ UNCHANGED server
    ELSE server' = "killed" /\ UNCHANGED s2c

\* The reactor finds the session readable and its handler reads a message.
Reads(c, head) ==
    /\ Up /\ c \in Sessions /\ peer[c] # "reset"
    /\ c2s[c] # << >> /\ Head(c2s[c]).head = head
    /\ c2s' = [c2s EXCEPT ![c] = Tail(@)]

Refuse(c) ==
    /\ Answer(c, <<Msg("ERROR", None)>>)
    /\ UNCHANGED <<client, peer, service>>

HandleInit(c) ==
    /\ Reads(c, "INIT")
    /\ IF sess[c] # "empty" THEN Refuse(c)
       ELSE /\ sess' = [sess EXCEPT ![c] = "ready"]
            /\ Answer(c, <<Msg("ACK", None)>>)
            /\ UNCHANGED <<client, peer, binds, req, banned>>

MayBind(c, h) == h \in HwTasks \ banned /\ Len(binds[c]) < MaxBinds

BindRefused(c) ==
    /\ c2s[c] # << >> /\ (sess[c] # "ready" \/ ~MayBind(c, Head(c2s[c]).arg))
    /\ Reads(c, "BIND")
    /\ Refuse(c)

\* (wrong: every hardware task is stored at the same index)
BoundLast(c, h) == <<h>>

Bound(c, h) == Append(binds[c], h)

HandleBind(c) ==
    /\ c2s[c] # << >> /\ sess[c] = "ready" /\ MayBind(c, Head(c2s[c]).arg)
    /\ Reads(c, "BIND")
    /\ binds' = [binds EXCEPT ![c] = Bound(c, Head(c2s[c]).arg)]
    /\ Answer(c, <<Msg("BUFFS", None), Msg("DATA", Head(c2s[c]).arg)>>)
    /\ UNCHANGED <<client, peer, sess, req, banned>>

\* free_: buffers, socket and structure go, the request in it too.
Detach(c) ==
    /\ sess' = [sess EXCEPT ![c] = "freed"]
    /\ UNCHANGED <<client, peer, s2c, binds, req, banned, server>>

\* A data buffer could not be allocated.
BindFails(c) ==
    /\ world.faults
    /\ c2s[c] # << >> /\ sess[c] = "ready" /\ MayBind(c, Head(c2s[c]).arg)
    /\ Reads(c, "BIND")
    /\ Detach(c)

MayStart(c, h) == h \in {binds[c][i] : i \in DOMAIN binds[c]} \ banned

\* (wrong: nothing is sent to a client whose hardware task was banned)
NoAnswer(c) == UNCHANGED <<s2c, server, client, peer, service>>

RefuseRun(c) == Refuse(c)

RunRefused(c) ==
    /\ c2s[c] # << >> /\ (sess[c] # "ready" \/ ~MayStart(c, Head(c2s[c]).arg))
    /\ Reads(c, "RUN")
    /\ RefuseRun(c)

\* The accel_req of the session, of which there is one, goes to the scheduler.
HandleRun(c) ==
    /\ c2s[c] # << >> /\ sess[c] = "ready" /\ MayStart(c, Head(c2s[c]).arg)
    /\ Reads(c, "RUN")
    /\ req' = [req EXCEPT ![c] = Head(c2s[c]).arg]
    /\ UNCHANGED <<client, peer, s2c, sess, binds, banned, server>>

\* The scheduler fails: a system error.
RunFails(c) ==
    /\ world.faults /\ Up /\ c \in Sessions
    /\ c2s[c] # << >> /\ Head(c2s[c]).head = "RUN"
    /\ Shutdown

\* (wrong: the end of a connection is taken for a system error)
DetachAll(c) == server' = "down" /\ UNCHANGED <<client, peer, s2c, service>>

AtEndOfFile(c) == Detach(c)

\* End of file, when every message has been read.
Hangup(c) ==
    /\ Up /\ c \in Sessions
    /\ peer[c] = "eof" /\ c2s[c] = << >>
    /\ AtEndOfFile(c) /\ UNCHANGED c2s

\* The client closed with an answer unread: the socket has an error, which
\* the reactor (EPOLLERR) and the handler (read) take for a system error.
Reset(c) == Up /\ c \in Sessions /\ peer[c] = "reset" /\ Shutdown

\* The accelerator ends, or its time does; the notify action writes.
Complete(c, head) ==
    /\ Up /\ req[c] # None /\ sess[c] = "ready"
    /\ req' = [req EXCEPT ![c] = None]
    /\ Answer(c, <<Msg(head, None)>>)
    /\ UNCHANGED <<client, c2s, peer, sess, binds>>

Done(c) == Complete(c, "DONE") /\ UNCHANGED banned

Overrun(c) == Complete(c, "OVERRUN") /\ banned' = banned \cup {req[c]}

\* The scheduler uses a request that was freed with its session.
UseFreed(c) == Up /\ req[c] # None /\ sess[c] = "freed" /\ Ends("undefined")

-----------------------------------------------------------------------------

Library(c) ==
    \/ FredInit(c) \/ (\E h \in HwTasks \cup {Unknown} : FredBind(c, h))
    \/ (\E h \in HwTasks : FredAsyncAccel(c, h))
    \/ FredFree(c) \/ BindOutOfMemory(c) \/ Kill(c)

Handle(c) ==
    \/ Accept(c) \/ HandleInit(c) \/ BindRefused(c) \/ HandleBind(c)
    \/ RunRefused(c) \/ HandleRun(c) \/ Hangup(c) \/ Reset(c)

Fail(c) == AcceptFails(c) \/ BindFails(c) \/ RunFails(c) \/ UseFreed(c)

Next ==
    /\ \E c \in Clients :
        \/ Library(c) \/ Receive(c) \/ ReceiveFails(c)
        \/ Handle(c) \/ Fail(c) \/ Done(c) \/ Overrun(c)
    /\ UNCHANGED world

\* The reactor serves every ready source of a batch before it waits again, a
\* request given to the scheduler is answered, and a blocked read returns.
Fairness == \A c \in Clients :
    /\ WF_vars(Handle(c) /\ UNCHANGED world)
    /\ WF_vars((Done(c) \/ Overrun(c)) /\ UNCHANGED world)
    /\ WF_vars((Receive(c) \/ ReceiveFails(c)) /\ UNCHANGED world)

Spec == Init /\ [][Next]_vars /\ Fairness

-----------------------------------------------------------------------------
(* Properties.                                                             *)

TypeOK ==
    /\ state \in [Clients -> {"none", "busy", "INIT", "IDLE", "ACCEL", "ERROR", "freed", "dead"}]
    /\ call \in [Clients -> {"none", "ack", "buffs", "data", "answer"}]
    /\ peer \in [Clients -> {"none", "open", "eof", "reset"}]
    /\ sess \in [Clients -> {"none", "backlog", "empty", "ready", "freed"}]
    /\ \A c \in Clients :
        /\ \A i \in DOMAIN binds[c] : binds[c][i] \in HwTasks
        /\ {Len(binds[c]), Len(bound[c])} \subseteq 0 .. MaxBinds
        /\ {Len(c2s[c]), Len(s2c[c])} \subseteq 0 .. 2
    /\ req \in [Clients -> HwTasks \cup {None}]
    /\ banned \subseteq HwTasks

\* What may end the server, for each way it ends.
\* In order: a connection that waits is refused, a client died with an answer
\* it had not read (or, out of memory, left one unread), or the scheduler fails
\* to take the request of a RUN.
ConnectionRefused ==
    Cardinality(Sessions) >= world.room /\ \E c \in Clients : sess[c] = "backlog"

AnswerUnread(c) ==
    c \in Sessions /\ s2c[c] # << >> /\ (state[c] = "dead" \/ world.faults)

SchedulerFails(c) ==
    world.faults /\ c \in Sessions /\ c2s[c] # << >> /\ Head(c2s[c]).head = "RUN"

\* By a signal: this step serves or answers a client that is dead.
ServesTheDead(c) ==
    state[c] = "dead" /\ (c2s'[c] # c2s[c] \/ req'[c] # req[c])

\* The server ends for a reason, and each way of ending has its own.  It stops
\* in order only when it refuses a connection, is told of a client that went
\* with an answer unread, or its scheduler fails; it is killed only by the step
\* that writes to a dead client (which the code should survive, but does not);
\* it uses freed memory only for the request of a dead client; it aborts only
\* when an accept fails.  While no connection waits, a full table is no reason,
\* and a client that closes in order, dies while it owes and is owed nothing,
\* or asks for an unknown or a banned hardware task never ends it.
ServerEndsForAReason ==
    [][Up =>
        /\ server' = "down" =>
             ConnectionRefused \/ \E c \in Clients : AnswerUnread(c) \/ SchedulerFails(c)
        /\ server' = "killed" => \E c \in Clients : ServesTheDead(c)
        /\ server' = "undefined" =>
             \E c \in Clients : state[c] = "dead" /\ req[c] # None /\ sess[c] = "freed"
        /\ server' = "aborted" =>
             world.faults /\ \E c \in Clients : sess[c] = "backlog"]_vars

\* An acceleration has one trace in the system: the message that asks for it,
\* the request in the scheduler, or the answer, and a session has one
\* acceleration: the one accel_req of a session is never overwritten while a
\* queue links it.  A client that waits for nothing has none.
OneAnswerPending ==
    \A c \in Clients : Up /\ sess[c] # "freed" =>
        /\ state[c] = "ACCEL" =>
            Len(c2s[c]) + Len(s2c[c]) + (IF req[c] = None THEN 0 ELSE 1) = 1
        /\ call[c] = "none" /\ state[c] \in {"INIT", "IDLE"} =>
            c2s[c] = << >> /\ s2c[c] = << >> /\ req[c] = None

\* Client and server agree on the hardware tasks bound in a session, and in
\* which order, whenever no BIND is in progress.
BindsAgree ==
    \A c \in Clients :
        state[c] \in {"INIT", "IDLE", "ACCEL"} /\ call[c] \in {"none", "answer"} =>
            binds[c] = bound[c]

\* A call of the library returns: with the answer, or with an error when the
\* server has gone.
EveryCallReturns == \A c \in Clients : call[c] # "none" ~> call[c] = "none"

\* The scheduler holds a request whose session was freed only if the client
\* died: the library does not close a session during an acceleration.
NoDanglingRequest ==
    \A c \in Clients : req[c] # None /\ sess[c] = "freed" => state[c] = "dead"

\* The session, from both ends: types, and what was bound (BindsAgree).
SessionInv == TypeOK /\ BindsAgree

\* The one accel_req of a session is in one place, is not overwritten there
\* (OneAnswerPending) and does not outlive the session (NoDanglingRequest).
RequestTracked == OneAnswerPending /\ NoDanglingRequest
=============================================================================
