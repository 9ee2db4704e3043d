------------------------- MODULE FredSessionProofs -------------------------
(***************************************************************************)
(* Proofs about FredSession, for any clients, hardware tasks and limits,    *)
(* with and without faults and deaths: client and server agree on what is   *)
(* bound, the one accel_req of a session is in one place and does not       *)
(* outlive it, and each way in which the server ends has its own reason.    *)
(***************************************************************************)
EXTENDS FredSession, FiniteSetTheorems, SequenceTheorems, TLAPS

Empty(c) == c2s[c] = << >> /\ s2c[c] = << >>
Asked(c, head, arg) == c2s[c] = <<Msg(head, arg)>> /\ s2c[c] = << >>
Answered(c, head) == c2s[c] = << >> /\ s2c[c] = <<Msg(head, None)>>

\* What is on the wire and in the server while fred_init waits.
Initialising(c) ==
    /\ call[c] = "ack" /\ peer[c] = "open" /\ req[c] = None
    /\ binds[c] = << >> /\ bound[c] = << >>
    /\ \/ Asked(c, "INIT", None) /\ sess[c] \in {"backlog", "empty"}
       \/ Answered(c, "ACK") /\ sess[c] = "ready"

\* A client between two calls has no message under way, and a BIND is with
\* the server, refused, answered in two messages, or has cost the session.
AtRest(c) ==
    call[c] = "none" /\ Empty(c) /\ sess[c] = "ready" /\ binds[c] = bound[c]

Binding(c) ==
    /\ call[c] = "buffs"
    /\ \/ /\ sess[c] = "ready" /\ binds[c] = bound[c]
          /\ (\E h \in HwTasks \cup {Unknown} : Asked(c, "BIND", h)) \/ Answered(c, "ERROR")
       \/ /\ sess[c] = "ready" /\ c2s[c] = << >>
          /\ \E h \in HwTasks : /\ s2c[c] = <<Msg("BUFFS", None), Msg("DATA", h)>>
                                /\ binds[c] = Append(bound[c], h)
       \/ sess[c] = "freed" /\ Empty(c)

BoundHalf(c) ==
    /\ call[c] = "data" /\ sess[c] = "ready" /\ c2s[c] = << >>
    /\ \E h \in HwTasks : /\ s2c[c] = <<Msg("DATA", h)>>
                          /\ binds[c] = Append(bound[c], h)

Idle(c) ==
    /\ peer[c] = "open" /\ req[c] = None
    /\ AtRest(c) \/ Binding(c) \/ BoundHalf(c)

\* The one trace of an acceleration.
Accelerating(c) ==
    /\ call[c] = "answer" /\ peer[c] = "open" /\ sess[c] = "ready"
    /\ binds[c] = bound[c]
    /\ \/ (\E h \in HwTasks : Asked(c, "RUN", h)) /\ req[c] = None
       \/ Empty(c) /\ req[c] # None
       \/ (\E head \in {"DONE", "OVERRUN", "ERROR"} : Answered(c, head)) /\ req[c] = None

\* Only a server that is gone has something of a client that has failed or left;
\* only a failed allocation leaves it something to read.
Over(c) ==
    /\ call[c] = "none"
    /\ Up => c2s[c] = << >> /\ req[c] = None
    /\ c2s[c] = << >> \/ \E m : c2s[c] = <<m>>
    /\ s2c[c] = << >> \/ (world.faults /\ \E m : s2c[c] = <<m>>)
    /\ sess[c] = "freed" => req[c] = None

Failed(c) == Over(c) /\ (Up => peer[c] = "open") /\ peer[c] \in {"open", "none"}

Left(c) ==
    /\ Over(c)
    /\ peer[c] \in {"none", "eof", "reset"} /\ (Up => peer[c] # "none")
    /\ peer[c] = "reset" => s2c[c] # << >>

Dead(c) ==
    /\ call[c] = "none"
    /\ c2s[c] = << >> \/ \E m : c2s[c] = <<m>>
    /\ \/ s2c[c] = << >>
       \/ \E m : s2c[c] = <<m>>
       \/ \E m, n : s2c[c] = <<m, n>>
    /\ Up => peer[c] \in {"eof", "reset"}
    /\ peer[c] = "reset" => s2c[c] # << >>

Unborn(c) ==
    /\ call[c] = "none" /\ peer[c] = "none" /\ sess[c] = "none"
    /\ Empty(c) /\ req[c] = None /\ binds[c] = << >> /\ bound[c] = << >>

\* Where client, socket and server are together.
Together(c) ==
    \/ state[c] = "none" /\ Unborn(c)
    \/ state[c] = "busy" /\ Initialising(c)
    \/ state[c] \in {"INIT", "IDLE"} /\ Idle(c)
    \/ state[c] = "ACCEL" /\ Accelerating(c)
    \/ state[c] = "ERROR" /\ Failed(c)
    \/ state[c] = "freed" /\ Left(c)
    \/ state[c] = "dead" /\ Dead(c)

Lists(c) ==
    /\ binds[c] \in Seq(HwTasks) /\ bound[c] \in Seq(HwTasks)
    /\ Len(bound[c]) <= Len(binds[c]) /\ Len(binds[c]) <= MaxBinds

Shapes ==
    /\ state \in [Clients -> {"none", "busy", "INIT", "IDLE", "ACCEL", "ERROR", "freed", "dead"}]
    /\ call \in [Clients -> {"none", "ack", "buffs", "data", "answer"}]
    /\ peer \in [Clients -> {"none", "open", "eof", "reset"}]
    /\ sess \in [Clients -> {"none", "backlog", "empty", "ready", "freed"}]
    /\ req \in [Clients -> HwTasks \cup {None}]
    /\ banned \subseteq HwTasks
    /\ DOMAIN c2s = Clients /\ DOMAIN s2c = Clients
    /\ DOMAIN binds = Clients /\ DOMAIN bound = Clients
    /\ world \in [room : Rooms, kills : Kills, faults : Faults]

Joined == Shapes /\ \A c \in Clients : Together(c) /\ Lists(c)

-----------------------------------------------------------------------------
(* What a step leaves alone.                                               *)

Same(d) ==
    /\ state'[d] = state[d] /\ call'[d] = call[d] /\ bound'[d] = bound[d]
    /\ c2s'[d] = c2s[d] /\ s2c'[d] = s2c[d] /\ peer'[d] = peer[d]
    /\ sess'[d] = sess[d] /\ binds'[d] = binds[d] /\ req'[d] = req[d]

LEMMA Untouched ==
    ASSUME NEW d, Together(d), Lists(d), Same(d), Up' => Up, world' = world
    PROVE  Together(d)' /\ Lists(d)'
BY DEF Same, Together, Lists, Unborn, Initialising, Idle, AtRest, Binding, BoundHalf,
       Accelerating, Failed, Left, Over, Dead, Empty, Asked, Answered

LEMMA OneTouched ==
    ASSUME Shapes, NEW c \in Clients, NEW d \in Clients \ {c},
           \/ Library(c) \/ Receive(c) \/ ReceiveFails(c)
           \/ Handle(c) \/ Fail(c) \/ Done(c) \/ Overrun(c)
    PROVE  Same(d) /\ (Up' => Up)
<1> USE DEF Shapes, Same, Up, client, channel, service
<1>1. CASE FredInit(c)
  BY <1>1 DEF FredInit
<1>2. CASE \E h : FredBind(c, h) \/ FredAsyncAccel(c, h)
  BY <1>2 DEF FredBind, FredAsyncAccel, Request
<1>3. CASE Receive(c) \/ ReceiveFails(c) \/ BindOutOfMemory(c)
  BY <1>3 DEF Receive, ReceiveFails, BindOutOfMemory, Received
<1>4. CASE FredFree(c) \/ Kill(c)
  BY <1>4 DEF FredFree, Kill, Close
<1>5. CASE Accept(c) \/ AcceptFails(c) \/ RunFails(c) \/ UseFreed(c) \/ Reset(c)
  BY <1>5 DEF Accept, AcceptFails, RunFails, UseFreed, Reset, Ends, Shutdown
<1>6. CASE HandleInit(c) \/ BindRefused(c) \/ RunRefused(c)
  BY <1>6 DEF HandleInit, BindRefused, RunRefused, RefuseRun, Reads, Refuse, Answer
<1>7. CASE HandleBind(c) \/ HandleRun(c)
  BY <1>7 DEF HandleBind, HandleRun, Reads, Answer
<1>8. CASE BindFails(c) \/ Hangup(c)
  BY <1>8 DEF BindFails, Hangup, AtEndOfFile, Detach, Reads
<1>9. CASE Done(c) \/ Overrun(c)
  BY <1>9 DEF Done, Overrun, Complete, Answer
<1> QED BY <1>1, <1>2, <1>3, <1>4, <1>5, <1>6, <1>7, <1>8, <1>9 DEF Library, Handle, Fail

-----------------------------------------------------------------------------
(* The library.                                                            *)

LEMMA OneMessage ==
    \A m, n : /\ Append(<< >>, m) = <<m>> /\ << >> \o <<m>> = <<m>>
              /\ << >> \o <<m, n>> = <<m, n>>
              /\ Head(<<m>>) = m /\ Tail(<<m>>) = << >>
              /\ Head(<<m, n>>) = m /\ Tail(<<m, n>>) = <<n>>
              /\ Len(<<m>>) = 1 /\ Len(<<m, n>>) = 2 /\ Len(<< >>) = 0
              /\ <<m>> # << >> /\ <<m, n>> # << >>
OBVIOUS

\* What the client waits for says where it is.
LEMMA WaitsFor ==
    ASSUME NEW c, Together(c)
    PROVE  /\ call[c] = "ack" => state[c] = "busy" /\ Initialising(c)
           /\ call[c] = "buffs" => state[c] \in {"INIT", "IDLE"} /\ Idle(c) /\ Binding(c)
           /\ call[c] = "data" => state[c] \in {"INIT", "IDLE"} /\ Idle(c) /\ BoundHalf(c)
           /\ call[c] = "answer" => state[c] = "ACCEL" /\ Accelerating(c)
<1>1. /\ Unborn(c) => call[c] = "none"
      /\ Initialising(c) => call[c] = "ack"
      /\ AtRest(c) => call[c] = "none"
      /\ Binding(c) => call[c] = "buffs"
      /\ BoundHalf(c) => call[c] = "data"
      /\ Accelerating(c) => call[c] = "answer"
      /\ Failed(c) => call[c] = "none"
      /\ Left(c) => call[c] = "none"
      /\ Dead(c) => call[c] = "none"
  BY DEF Unborn, Initialising, AtRest, Binding, BoundHalf, Accelerating, Failed, Left, Over, Dead
<1>2. Idle(c) => AtRest(c) \/ Binding(c) \/ BoundHalf(c)
  BY DEF Idle
<1> QED BY <1>1, <1>2 DEF Together

LEMMA InitJoins == ASSUME Init PROVE Joined
<1> USE DEF Init
<1>1. Shapes
  BY DEF Shapes
<1>2. ASSUME NEW c \in Clients PROVE Together(c) /\ Lists(c)
  <2>1. << >> \in Seq(HwTasks) /\ Len(<< >>) = 0
    OBVIOUS
  <2> QED BY <2>1, ConstantsAssumption DEF Together, Unborn, Empty, Lists
<1> QED BY <1>1, <1>2 DEF Joined

\* A request is written on a connection at rest.
LEMMA RequestJoins ==
    ASSUME Joined, NEW c \in Clients, world' = world,
           NEW msg, NEW st \in {"INIT", "IDLE", "ACCEL"}, NEW awaits \in {"buffs", "answer"},
           Request(c, msg, st, awaits), state[c] \in {"INIT", "IDLE"}, call[c] = "none",
           \/ st = state[c] /\ awaits = "buffs"
              /\ \E h \in HwTasks \cup {Unknown} : msg = Msg("BIND", h)
           \/ st = "ACCEL" /\ awaits = "answer" /\ \E h \in HwTasks : msg = Msg("RUN", h)
    PROVE  Shapes' /\ Together(c)' /\ Lists(c)'
<1> USE DEF Request, Joined, channel, service
<1>0. Idle(c) /\ AtRest(c) /\ Lists(c)
  BY DEF Together, Idle, Binding, BoundHalf
<1>1. Shapes'
  BY DEF Shapes
<1>2. Lists(c)'
  BY <1>0 DEF Lists
<1>3. CASE Connected(c)
  <2>1. c2s'[c] = <<msg>> /\ state'[c] = st /\ call'[c] = awaits
    BY <1>0, <1>3, OneMessage DEF AtRest, Empty, Shapes
  <2>2. UNCHANGED <<bound, s2c, peer, sess, binds, req>>
    BY <1>3
  <2>3. /\ s2c'[c] = << >> /\ peer'[c] = "open" /\ req'[c] = None
        /\ sess'[c] = "ready" /\ binds'[c] = bound'[c]
    BY <1>0, <2>2 DEF Idle, AtRest, Empty
  <2>4. CASE awaits = "buffs"
    <3>1. PICK h \in HwTasks \cup {Unknown} : msg = Msg("BIND", h)
      BY <2>4
    <3>2. Asked(c, "BIND", h)'
      BY <2>1, <2>3, <3>1 DEF Asked, Msg
    <3>3. Binding(c)'
      BY <2>1, <2>3, <2>4, <3>2 DEF Binding
    <3>4. state'[c] \in {"INIT", "IDLE"}
      BY <2>1, <2>4
    <3> QED BY <1>1, <1>2, <2>3, <3>3, <3>4 DEF Together, Idle
  <2>5. CASE awaits = "answer"
    <3>1. PICK h \in HwTasks : msg = Msg("RUN", h)
      BY <2>5
    <3>2. Asked(c, "RUN", h)'
      BY <2>1, <2>3, <3>1 DEF Asked, Msg
    <3>3. Accelerating(c)' /\ state'[c] = "ACCEL"
      BY <2>1, <2>3, <2>5, <3>2 DEF Accelerating
    <3> QED BY <1>1, <1>2, <3>3 DEF Together
  <2> QED BY <2>4, <2>5
<1>4. CASE ~Connected(c)
  <2>1. ~Up'
    BY <1>0, <1>4 DEF AtRest, Connected, Up
  <2> QED BY <1>0, <1>1, <1>2, <1>4, <2>1 DEF Together, Dead, Idle, AtRest, Empty, Shapes
<1> QED BY <1>3, <1>4

LEMMA LibraryJoins ==
    ASSUME Joined, NEW c \in Clients, world' = world, Library(c)
    PROVE  Shapes' /\ Together(c)' /\ Lists(c)'
<1> USE DEF Joined, channel, service
<1>0. Together(c) /\ Lists(c)
  OBVIOUS
<1>1. CASE FredInit(c)
  <2>1. Unborn(c)
    BY <1>0, <1>1 DEF FredInit, Together
  <2>2. Shapes' /\ Lists(c)'
    <3>1. Shapes'
      BY <1>1 DEF FredInit, Shapes
    <3>2. Lists(c)'
      BY <1>0, <1>1 DEF FredInit, Lists
    <3> QED BY <3>1, <3>2
  <2>3. /\ UNCHANGED <<bound, s2c, binds, req, server>>
        /\ state' = [state EXCEPT ![c] = state'[c]]
    BY <1>1 DEF FredInit, Shapes
  <2>4. CASE Up
    <3>1. /\ state'[c] = "busy" /\ call'[c] = "ack" /\ peer'[c] = "open"
          /\ sess'[c] = "backlog" /\ c2s'[c] = <<Msg("INIT", None)>>
      BY <1>1, <2>4 DEF FredInit, Shapes
    <3>2. Asked(c, "INIT", None)'
      BY <2>1, <2>3, <3>1 DEF Asked, Unborn, Empty, Msg
    <3> QED BY <2>1, <2>2, <2>3, <3>1, <3>2 DEF Together, Unborn, Initialising
  <2>5. CASE ~Up
    <3>1. state'[c] = "ERROR" /\ UNCHANGED <<call, c2s, peer, sess>>
      BY <1>1, <2>5 DEF FredInit, Shapes
    <3>2. Over(c)' /\ ~Up'
      BY <2>1, <2>3, <2>5, <3>1 DEF Unborn, Empty, Over, Up
    <3> QED BY <2>1, <2>2, <3>1, <3>2 DEF Together, Unborn, Failed
  <2> QED BY <2>2, <2>4, <2>5
<1>2. ASSUME NEW h \in HwTasks \cup {Unknown}, FredBind(c, h)
      PROVE  Shapes' /\ Together(c)' /\ Lists(c)'
  BY <1>2, RequestJoins DEF FredBind
<1>3. ASSUME NEW h \in HwTasks, FredAsyncAccel(c, h)
      PROVE  Shapes' /\ Together(c)' /\ Lists(c)'
  BY <1>3, RequestJoins DEF FredAsyncAccel, MayRun
<1>4. CASE BindOutOfMemory(c)
  <2>0. Idle(c) /\ Binding(c) /\ s2c[c] # << >> /\ Head(s2c[c]).head = "BUFFS"
    BY <1>0, <1>4, WaitsFor DEF BindOutOfMemory
  <2>a. Head(<<Msg("ERROR", None)>>).head = "ERROR"
    BY OneMessage DEF Msg
  <2>1. /\ peer[c] = "open" /\ req[c] = None
        /\ sess[c] = "ready" /\ c2s[c] = << >>
        /\ \E h : s2c[c] = <<Msg("BUFFS", None), Msg("DATA", h)>>
    BY <2>0, <2>a DEF Binding, Idle, Empty, Asked, Answered
  <2>2. Shapes' /\ Lists(c)' /\ state'[c] = "ERROR" /\ call'[c] = "none" /\ world.faults
    BY <1>0, <1>4 DEF BindOutOfMemory, Shapes, Lists, Received
  <2>3. \E m : s2c'[c] = <<m>>
    BY <1>4, <2>1, OneMessage DEF BindOutOfMemory, Shapes
  <2> QED BY <1>4, <2>1, <2>2, <2>3 DEF BindOutOfMemory, Together, Failed, Over, Shapes, Up
<1>5. CASE FredFree(c)
  <2>1. /\ Shapes' /\ Lists(c)' /\ state'[c] = "freed" /\ call'[c] = "none"
        /\ peer'[c] = IF peer[c] = "none" THEN "none" ELSE IF s2c[c] = << >> THEN "eof" ELSE "reset"
        /\ UNCHANGED <<bound, c2s, s2c, sess, binds, req, server>>
    BY <1>0, <1>5 DEF FredFree, Close, Shapes, Lists
  <2>2. CASE state[c] = "ERROR"
    BY <1>0, <2>1, <2>2 DEF Together, Failed, Left, Over, Up, Shapes
  <2>3. CASE state[c] \in {"INIT", "IDLE"}
    BY <1>0, <1>5, <2>1, <2>3 DEF FredFree, Together, Idle, AtRest, Binding, BoundHalf, Left,
         Over, Up, Shapes, Empty
  <2> QED BY <1>5, <2>1, <2>2, <2>3 DEF FredFree, MayFree
<1>6. CASE Kill(c)
  <2>1. /\ Shapes' /\ Lists(c)' /\ state'[c] = "dead" /\ call'[c] = "none"
        /\ peer'[c] = IF peer[c] = "none" THEN "none" ELSE IF s2c[c] = << >> THEN "eof" ELSE "reset"
        /\ UNCHANGED <<bound, c2s, s2c, sess, binds, req, server>>
    BY <1>0, <1>6 DEF Kill, Close, Shapes, Lists
  <2>2. (Up => peer[c] # "none") /\ peer[c] \in {"none", "open"}
    BY <1>0, <1>6 DEF Kill, Together, Initialising, Idle, Accelerating, Failed
  <2>3. /\ c2s[c] = << >> \/ \E m : c2s[c] = <<m>>
        /\ \/ s2c[c] = << >>
           \/ \E m : s2c[c] = <<m>>
           \/ \E m, n : s2c[c] = <<m, n>>
    BY <1>0, <1>6 DEF Kill, Together, Initialising, Idle, AtRest, Binding, BoundHalf,
         Accelerating, Failed, Over, Empty, Asked, Answered
  <2> QED BY <2>1, <2>2, <2>3 DEF Together, Dead, Up
<1> QED BY <1>1, <1>2, <1>3, <1>4, <1>5, <1>6 DEF Library

\* A message of the answer is read, and what the client does with it.
LEMMA ReceiveJoins ==
    ASSUME Joined, NEW c \in Clients, world' = world, Receive(c)
    PROVE  Shapes' /\ Together(c)' /\ Lists(c)'
<1> USE DEF service
<1>0. Together(c) /\ Lists(c) /\ Shapes /\ c2s' = c2s /\ UNCHANGED <<peer, sess, binds, req, server>>
  BY DEF Joined, Receive
<1>1. s2c[c] # << >> /\ s2c'[c] = Tail(s2c[c])
  BY <1>0 DEF Receive, Shapes
<1> DEFINE head == Head(s2c[c]).head
<1> HIDE DEF head
<1>2. call[c] # "data" => bound' = bound
  BY DEF Receive
<1>3. CASE call[c] = "ack"
  <2>1. Initialising(c) /\ Answered(c, "ACK") /\ sess[c] = "ready"
    BY <1>0, <1>1, <1>3, WaitsFor DEF Initialising, Asked
  <2>2. head = "ACK" /\ Empty(c)'
    BY <1>0, <1>1, <2>1, OneMessage DEF Answered, Empty, Msg, head
  <2>3. Shapes' /\ state'[c] = "INIT" /\ call'[c] = "none"
    BY <1>0, <1>2, <1>3, <2>2 DEF Receive, Received, Outcome, Shapes, head
  <2>4. Lists(c)'
    BY <1>0, <1>2, <1>3 DEF Lists
  <2> QED BY <1>0, <1>2, <1>3, <2>1, <2>2, <2>3, <2>4 DEF Together, Idle, AtRest, Initialising
<1>4. CASE call[c] = "buffs"
  <2>1. Idle(c) /\ Binding(c) /\ state[c] \in {"INIT", "IDLE"} /\ c2s[c] = << >> /\ sess[c] = "ready"
    BY <1>0, <1>1, <1>4, WaitsFor DEF Binding, Asked, Answered, Empty
  <2>2. Lists(c)' /\ bound' = bound
    BY <1>0, <1>2, <1>4 DEF Lists
  <2>3. CASE binds[c] = bound[c] /\ Answered(c, "ERROR")
    <3>1. head = "ERROR" /\ Empty(c)'
      BY <1>0, <1>1, <2>3, OneMessage DEF Answered, Empty, Msg, head
    <3>2. Shapes' /\ state'[c] = state[c] /\ call'[c] = "none"
      BY <1>0, <1>2, <1>4, <3>1 DEF Receive, Received, Outcome, Shapes, head
    <3> QED BY <1>0, <2>1, <2>2, <2>3, <3>1, <3>2 DEF Together, Idle, AtRest
  <2>4. ASSUME NEW h \in HwTasks, s2c[c] = <<Msg("BUFFS", None), Msg("DATA", h)>>,
               binds[c] = Append(bound[c], h)
        PROVE  Shapes' /\ Together(c)' /\ Lists(c)'
    <3>1. head = "BUFFS" /\ s2c'[c] = <<Msg("DATA", h)>>
      BY <1>1, <2>4, OneMessage DEF Msg, head
    <3>2. Shapes' /\ state'[c] = state[c] /\ call'[c] = "data"
      BY <1>0, <1>2, <1>4, <3>1 DEF Receive, Received, Outcome, Shapes, head
    <3>3. BoundHalf(c)'
      BY <1>0, <2>1, <2>2, <2>4, <3>1, <3>2 DEF BoundHalf
    <3> QED BY <1>0, <2>1, <2>2, <3>2, <3>3 DEF Together, Idle
  <2> QED BY <1>1, <2>1, <2>3, <2>4 DEF Binding, Asked, Empty
<1>5. CASE call[c] = "data"
  <2>1. Idle(c) /\ BoundHalf(c)
    BY <1>0, <1>5, WaitsFor
  <2>2. PICK h \in HwTasks : s2c[c] = <<Msg("DATA", h)>> /\ binds[c] = Append(bound[c], h)
    BY <2>1 DEF BoundHalf
  <2>3. bound'[c] = binds[c] /\ Empty(c)' /\ DOMAIN bound' = Clients
    <3>1. Head(s2c[c]).arg = h /\ Tail(s2c[c]) = << >>
      BY <2>2, OneMessage DEF Msg
    <3>2. bound' = [bound EXCEPT ![c] = Append(bound[c], h)]
      BY <1>5, <3>1 DEF Receive
    <3> QED BY <1>0, <1>1, <2>1, <2>2, <3>1, <3>2 DEF Shapes, BoundHalf, Empty
  <2>4. Shapes' /\ state'[c] = "IDLE" /\ call'[c] = "none"
    BY <1>0, <1>5, <2>3 DEF Receive, Received, Outcome, Shapes
  <2>5. Lists(c)'
    <3>1. binds[c] \in Seq(HwTasks) /\ Len(binds[c]) <= Len(binds[c])
      BY <1>0 DEF Lists
    <3> QED BY <1>0, <2>3, <3>1 DEF Lists
  <2> QED BY <1>0, <2>1, <2>3, <2>4, <2>5 DEF Together, Idle, AtRest, BoundHalf
<1>6. CASE call[c] = "answer"
  <2>1. Accelerating(c) /\ req[c] = None
    BY <1>0, <1>1, <1>6, WaitsFor DEF Accelerating, Empty
  <2>2. PICK h \in {"DONE", "OVERRUN", "ERROR"} : Answered(c, h)
    BY <1>0, <1>1, <1>6, WaitsFor DEF Accelerating, Empty, Asked
  <2>3. head = h /\ Empty(c)'
    BY <1>0, <1>1, <2>2, OneMessage DEF Answered, Empty, Msg, head
  <2>4. /\ Shapes' /\ call'[c] = "none"
        /\ state'[c] = IF head = "DONE" THEN "IDLE" ELSE "ERROR"
    BY <1>0, <1>2, <1>6 DEF Receive, Received, Outcome, Shapes, head
  <2>5. Lists(c)' /\ bound' = bound
    BY <1>0, <1>2, <1>6 DEF Lists
  <2>6. CASE head = "DONE"
    BY <1>0, <2>1, <2>3, <2>4, <2>5, <2>6 DEF Together, Idle, AtRest, Accelerating
  <2>7. CASE head # "DONE"
    <3>1. Over(c)'
      BY <1>0, <2>1, <2>3, <2>4 DEF Over, Empty, Accelerating
    <3> QED BY <1>0, <2>1, <2>4, <2>5, <2>7, <3>1 DEF Together, Failed, Accelerating
  <2> QED BY <2>6, <2>7
<1> QED BY <1>0, <1>3, <1>4, <1>5, <1>6 DEF Receive, Shapes

LEMMA ReceiveFailsJoins ==
    ASSUME Joined, NEW c \in Clients, world' = world, ReceiveFails(c)
    PROVE  Shapes' /\ Together(c)' /\ Lists(c)'
<1> USE DEF channel, service
<1>0. Together(c) /\ Lists(c) /\ Shapes /\ UNCHANGED <<bound, c2s, s2c, peer, sess, binds, req, server>>
  BY DEF Joined, ReceiveFails
<1>1. Shapes' /\ Lists(c)' /\ state'[c] = "ERROR" /\ call'[c] = "none"
  BY <1>0 DEF ReceiveFails, Received, Shapes, Lists
<1>2. call[c] # "none" /\ s2c[c] = << >> /\ (Up => sess[c] \notin {"backlog", "empty", "ready"})
  BY DEF ReceiveFails, Connected
<1>3. peer[c] = "open" /\ (c2s[c] = << >> \/ \E m : c2s[c] = <<m>>)
      /\ (sess[c] = "freed" => req[c] = None) /\ (Up => c2s[c] = << >> /\ req[c] = None)
  <2>1. CASE call[c] = "ack"
    BY <1>0, <1>2, <2>1, WaitsFor DEF Initialising, Asked, Answered
  <2>2. CASE call[c] = "buffs"
    BY <1>0, <1>2, <2>2, WaitsFor DEF Idle, Binding, Asked, Answered, Empty
  <2>3. CASE call[c] = "data"
    BY <1>0, <1>2, <2>3, WaitsFor DEF Idle, BoundHalf
  <2>4. CASE call[c] = "answer"
    BY <1>0, <1>2, <2>4, WaitsFor DEF Accelerating, Asked, Answered, Empty
  <2> QED BY <1>0, <1>2, <2>1, <2>2, <2>3, <2>4 DEF Shapes
<1> QED BY <1>0, <1>1, <1>2, <1>3 DEF Together, Failed, Over, Up

-----------------------------------------------------------------------------
(* The server.                                                             *)

\* Whose message a handler reads.
Opening(c) ==
    /\ state[c] = "busy" /\ Initialising(c)
    /\ Asked(c, "INIT", None) /\ sess[c] = "empty"

BindAsked(c) ==
    /\ state[c] \in {"INIT", "IDLE"} /\ Idle(c) /\ call[c] = "buffs"
    /\ sess[c] = "ready" /\ binds[c] = bound[c]
    /\ \E h \in HwTasks \cup {Unknown} : Asked(c, "BIND", h)

RunAsked(c) ==
    /\ state[c] = "ACCEL" /\ Accelerating(c) /\ req[c] = None
    /\ \E h \in HwTasks : Asked(c, "RUN", h)

LEMMA Reading ==
    ASSUME Joined, NEW c \in Clients, NEW head, Reads(c, head)
    PROVE  /\ c2s'[c] = << >> /\ DOMAIN c2s' = Clients /\ Up
           /\ Together(c) /\ Lists(c) /\ Shapes
           /\ \/ head = "INIT" /\ Opening(c)
              \/ head = "BIND" /\ BindAsked(c)
              \/ head = "RUN" /\ RunAsked(c)
              \/ state[c] = "dead" /\ Dead(c) /\ peer[c] # "open"
<1>0. Together(c) /\ Lists(c) /\ Shapes /\ Up /\ c2s[c] # << >> /\ Head(c2s[c]).head = head
      /\ sess[c] \in {"empty", "ready"}
  BY DEF Joined, Reads, Sessions
<1>1. c2s'[c] = Tail(c2s[c]) /\ DOMAIN c2s' = Clients
  BY <1>0 DEF Reads, Shapes
<1>2. ASSUME NEW h, NEW a, Asked(c, h, a) PROVE head = h /\ c2s'[c] = << >>
  BY <1>0, <1>1, <1>2, OneMessage DEF Asked, Msg
<1>3. CASE state[c] = "none"
  BY <1>0, <1>3 DEF Together, Unborn, Empty
<1>4. CASE state[c] = "busy"
  <2>1. Initialising(c)
    BY <1>0, <1>4 DEF Together
  <2> QED BY <1>0, <1>1, <1>2, <1>4, <2>1 DEF Initialising, Answered, Opening
<1>5. CASE state[c] \in {"INIT", "IDLE"}
  <2>1. Idle(c)
    BY <1>0, <1>5 DEF Together
  <2>2. Binding(c) /\ \E h \in HwTasks \cup {Unknown} : Asked(c, "BIND", h)
    BY <1>0, <2>1 DEF Idle, AtRest, BoundHalf, Empty, Binding, Answered
  <2>3. BindAsked(c)
    BY <1>0, <1>5, <2>1, <2>2 DEF BindAsked, Binding, Asked
  <2> QED BY <1>0, <1>1, <1>2, <2>2, <2>3
<1>6. CASE state[c] = "ACCEL"
  <2>1. Accelerating(c)
    BY <1>0, <1>6 DEF Together
  <2> QED BY <1>0, <1>1, <1>2, <1>6, <2>1 DEF Accelerating, Answered, RunAsked, Empty
<1>7. CASE state[c] \in {"ERROR", "freed"}
  BY <1>0, <1>7 DEF Together, Failed, Left, Over
<1>8. CASE state[c] = "dead"
  BY <1>0, <1>1, <1>8, OneMessage DEF Together, Dead
<1> QED BY <1>0, <1>3, <1>4, <1>5, <1>6, <1>7, <1>8 DEF Shapes

\* The server ends: nothing else changes.
LEMMA EndJoins ==
    ASSUME Joined, NEW c \in Clients, world' = world, NEW how, how # "up", Ends(how)
    PROVE  Shapes' /\ Together(c)' /\ Lists(c)'
<1>1. Same(c) /\ (Up' => Up) /\ Shapes'
  BY DEF Joined, Shapes, Ends, Same, Up, client, service
<1> QED BY <1>1, Untouched DEF Joined

\* A client that died is sent an answer, or its message is read.
LEMMA DeadJoins ==
    ASSUME NEW c \in Clients, state[c] = "dead", Dead(c), Up' => Up,
           UNCHANGED <<state, call, s2c, peer>>, c2s'[c] \in {c2s[c], << >>}
    PROVE  Together(c)'
BY DEF Together, Dead

LEMMA RefuseJoins ==
    ASSUME Joined, NEW c \in Clients, world' = world, Refuse(c),
           \/ Reads(c, "INIT") /\ sess[c] # "empty"
           \/ Reads(c, "BIND")
           \/ Reads(c, "RUN")
    PROVE  Shapes' /\ Together(c)' /\ Lists(c)'
<1> USE DEF client, service
<1>1. PICK head \in {"INIT", "BIND", "RUN"} : Reads(c, head) /\ (head = "INIT" => sess[c] # "empty")
  OBVIOUS
<1>2. /\ c2s'[c] = << >> /\ DOMAIN c2s' = Clients /\ Up /\ Together(c) /\ Lists(c) /\ Shapes
      /\ \/ head = "BIND" /\ BindAsked(c)
         \/ head = "RUN" /\ RunAsked(c)
         \/ state[c] = "dead" /\ Dead(c) /\ peer[c] # "open"
  BY <1>1, Reading DEF Opening
<1>3. UNCHANGED <<state, call, bound, peer, sess, binds, req, banned>>
  BY DEF Refuse
<1>4. Shapes' /\ Lists(c)'
  BY <1>2, <1>3 DEF Shapes, Lists, Refuse, Answer
<1>5. CASE peer[c] = "open" /\ s2c[c] = << >>
  <2>1. s2c'[c] = <<Msg("ERROR", None)>>
    BY <1>2, <1>5, OneMessage DEF Refuse, Answer, Shapes
  <2>2. Answered(c, "ERROR")'
    BY <1>2, <2>1 DEF Answered, Msg
  <2>3. CASE BindAsked(c)
    <3>1. Binding(c)'
      BY <1>3, <2>2, <2>3 DEF BindAsked, Binding
    <3> QED BY <1>3, <1>4, <2>3, <3>1 DEF BindAsked, Idle, Together
  <2>4. CASE RunAsked(c)
    <3>1. Accelerating(c)'
      BY <1>3, <2>2, <2>4 DEF RunAsked, Accelerating
    <3> QED BY <1>3, <1>4, <2>4, <3>1 DEF RunAsked, Together
  <2> QED BY <1>2, <1>5, <2>3, <2>4
<1>6. CASE peer[c] # "open"
  <2>1. UNCHANGED s2c /\ state[c] = "dead" /\ Dead(c)
    BY <1>2, <1>6 DEF Refuse, Answer, BindAsked, RunAsked, Idle, Accelerating
  <2> QED BY <1>2, <1>3, <1>4, <2>1, DeadJoins
<1>7. BindAsked(c) \/ RunAsked(c) => s2c[c] = << >> /\ peer[c] = "open"
  BY DEF BindAsked, RunAsked, Asked, Idle, Accelerating
<1> QED BY <1>2, <1>5, <1>6, <1>7

LEMMA InitHandled ==
    ASSUME Joined, NEW c \in Clients, world' = world, HandleInit(c)
    PROVE  Shapes' /\ Together(c)' /\ Lists(c)'
<1> USE DEF client
<1>1. CASE sess[c] # "empty"
  BY <1>1, RefuseJoins DEF HandleInit
<1>2. CASE sess[c] = "empty"
  <2>1. /\ c2s'[c] = << >> /\ DOMAIN c2s' = Clients /\ Up /\ Together(c) /\ Lists(c) /\ Shapes
        /\ Opening(c) \/ (state[c] = "dead" /\ Dead(c) /\ peer[c] # "open")
    BY Reading DEF HandleInit
  <2>2. UNCHANGED <<state, call, bound, peer, binds, req, banned>> /\ sess'[c] = "ready"
        /\ Answer(c, <<Msg("ACK", None)>>)
    BY <1>2, <2>1 DEF HandleInit, Shapes
  <2>3. Shapes' /\ Lists(c)'
    <3>1. sess' = [sess EXCEPT ![c] = "ready"] /\ DOMAIN s2c' = Clients
      BY <1>2, <2>1, <2>2 DEF HandleInit, Shapes, Answer
    <3> QED BY <2>1, <2>2, <3>1 DEF Shapes, Lists
  <2>4. CASE Opening(c)
    <3>1. s2c'[c] = <<Msg("ACK", None)>>
      BY <2>1, <2>2, <2>4, OneMessage DEF Answer, Shapes, Opening, Asked, Initialising
    <3>2. Answered(c, "ACK")'
      BY <2>1, <3>1 DEF Answered, Msg
    <3>3. Initialising(c)'
      BY <2>2, <2>4, <3>2 DEF Opening, Initialising
    <3> QED BY <2>2, <2>3, <2>4, <3>3 DEF Opening, Together
  <2>5. CASE state[c] = "dead" /\ Dead(c) /\ peer[c] # "open"
    BY <2>1, <2>2, <2>3, <2>5, DeadJoins DEF Answer
  <2> QED BY <2>1, <2>4, <2>5
<1> QED BY <1>1, <1>2

LEMMA BindHandled ==
    ASSUME Joined, NEW c \in Clients, world' = world, HandleBind(c) \/ BindFails(c)
    PROVE  Shapes' /\ Together(c)' /\ Lists(c)'
<1> USE DEF client
<1> DEFINE h == Head(c2s[c]).arg
<1> HIDE DEF h
<1>1. /\ c2s'[c] = << >> /\ DOMAIN c2s' = Clients /\ Up /\ Together(c) /\ Lists(c) /\ Shapes
      /\ BindAsked(c) \/ (state[c] = "dead" /\ Dead(c) /\ peer[c] # "open")
  BY Reading DEF HandleBind, BindFails
<1>2. UNCHANGED <<state, call, bound, peer, req, banned>> /\ MayBind(c, h)
  BY DEF HandleBind, BindFails, Detach, h
<1>3. CASE HandleBind(c)
  <2>1. /\ binds'[c] = Append(binds[c], h) /\ DOMAIN binds' = Clients /\ sess' = sess
        /\ Answer(c, <<Msg("BUFFS", None), Msg("DATA", h)>>)
    BY <1>1, <1>3 DEF HandleBind, Shapes, Bound, h
  <2>2. h \in HwTasks
    BY <1>2 DEF MayBind
  <2>3. Lists(c)'
    <3> DEFINE b == binds[c]
    <3> HIDE DEF b
    <3>1. b \in Seq(HwTasks) /\ Len(b) < MaxBinds /\ Len(bound[c]) <= Len(b)
          /\ bound[c] \in Seq(HwTasks)
      BY <1>1, <1>2 DEF Lists, MayBind, b
    <3>2. /\ Append(b, h) \in Seq(HwTasks) /\ Len(Append(b, h)) = Len(b) + 1
          /\ Len(b) \in Nat /\ Len(bound[c]) \in Nat
      BY <2>2, <3>1
    <3>3. Len(bound[c]) <= Len(Append(b, h)) /\ Len(Append(b, h)) <= MaxBinds
      BY <3>1, <3>2, ConstantsAssumption
    <3>4. binds'[c] = Append(b, h)
      BY <2>1 DEF b
    <3> QED BY <1>2, <3>1, <3>2, <3>3, <3>4 DEF Lists
  <2>4. Shapes'
    BY <1>1, <1>2, <2>1 DEF Shapes, Answer
  <2>5. CASE BindAsked(c)
    <3>1. s2c'[c] = <<Msg("BUFFS", None), Msg("DATA", h)>> /\ server' = server
      BY <1>1, <2>1, <2>5, OneMessage DEF Answer, Shapes, BindAsked, Asked, Idle
    <3>2. Binding(c)'
      BY <1>1, <1>2, <2>1, <2>2, <2>5, <3>1 DEF Binding, BindAsked, Msg
    <3> QED BY <1>2, <2>3, <2>4, <2>5, <3>2 DEF BindAsked, Idle, Together
  <2>6. CASE state[c] = "dead" /\ Dead(c) /\ peer[c] # "open"
    BY <1>1, <1>2, <2>1, <2>3, <2>4, <2>6, DeadJoins DEF Answer
  <2> QED BY <1>1, <2>5, <2>6
<1>4. CASE BindFails(c)
  <2>1. UNCHANGED <<s2c, binds, server>> /\ sess'[c] = "freed"
    BY <1>1, <1>4 DEF BindFails, Detach, Shapes
  <2>2. Shapes' /\ Lists(c)'
    BY <1>1, <1>2, <1>4, <2>1 DEF BindFails, Detach, Shapes, Lists
  <2>3. CASE BindAsked(c)
    <3>1. Binding(c)'
      BY <1>1, <1>2, <2>1, <2>3 DEF BindAsked, Binding, Empty, Asked
    <3> QED BY <1>2, <2>2, <2>3, <3>1 DEF BindAsked, Idle, Together
  <2>4. CASE state[c] = "dead" /\ Dead(c) /\ peer[c] # "open"
    BY <1>1, <1>2, <2>1, <2>2, <2>4, DeadJoins
  <2> QED BY <1>1, <2>3, <2>4
<1> QED BY <1>3, <1>4

LEMMA RunHandled ==
    ASSUME Joined, NEW c \in Clients, world' = world, HandleRun(c)
    PROVE  Shapes' /\ Together(c)' /\ Lists(c)'
<1> USE DEF client
<1> DEFINE h == Head(c2s[c]).arg
<1> HIDE DEF h
<1>1. /\ c2s'[c] = << >> /\ DOMAIN c2s' = Clients /\ Up /\ Together(c) /\ Lists(c) /\ Shapes
      /\ RunAsked(c) \/ (state[c] = "dead" /\ Dead(c) /\ peer[c] # "open")
  BY Reading DEF HandleRun
<1>2. /\ UNCHANGED <<state, call, bound, peer, s2c, sess, binds, banned, server>>
      /\ sess[c] = "ready" /\ MayStart(c, h) /\ req' = [req EXCEPT ![c] = h]
  BY DEF HandleRun, h
<1>3. h \in HwTasks
  BY <1>1, <1>2 DEF MayStart, Lists
<1>4. Shapes' /\ Lists(c)' /\ req'[c] = h
  BY <1>1, <1>2, <1>3 DEF Shapes, Lists
<1>5. CASE RunAsked(c)
  <2>1. Empty(c)' /\ req'[c] # None
    BY <1>1, <1>2, <1>3, <1>4, <1>5, ConstantsAssumption DEF RunAsked, Asked, Empty
  <2>2. Accelerating(c)'
    BY <1>2, <1>5, <2>1 DEF Accelerating, RunAsked
  <2> QED BY <1>2, <1>4, <1>5, <2>2 DEF RunAsked, Together
<1>6. CASE state[c] = "dead" /\ Dead(c) /\ peer[c] # "open"
  BY <1>1, <1>2, <1>4, <1>6, DeadJoins
<1> QED BY <1>1, <1>5, <1>6

LEMMA SessionJoins ==
    ASSUME Joined, NEW c \in Clients, world' = world, Handle(c) \/ Fail(c)
    PROVE  Shapes' /\ Together(c)' /\ Lists(c)'
<1>0. Shapes /\ Together(c) /\ Lists(c)
  BY DEF Joined
<1>1. CASE Accept(c)
  <2>1. CASE Cardinality(Sessions) < world.room
    <3>1. /\ sess[c] = "backlog" /\ sess'[c] = "empty"
          /\ UNCHANGED <<state, call, bound, c2s, s2c, peer, binds, req, server>>
      BY <1>0, <1>1, <2>1 DEF Accept, Shapes, client, channel
    <3>2. Shapes' /\ Lists(c)'
      BY <1>0, <1>1, <2>1 DEF Accept, Shapes, Lists, client, channel
    <3>3. CASE Initialising(c)
      <4>1. Initialising(c)'
        BY <3>1, <3>3 DEF Initialising, Asked, Answered
      <4>2. state[c] = "busy"
        BY <1>0, <3>3, WaitsFor DEF Initialising
      <4> QED BY <3>1, <3>2, <4>1, <4>2 DEF Together
    <3>4. CASE state[c] = "dead"
      BY <1>0, <3>1, <3>2, <3>4, DeadJoins DEF Together, Up
    <3>5. CASE state[c] = "ERROR"
      BY <1>0, <3>1, <3>2, <3>5 DEF Together, Failed, Over, Up
    <3>6. CASE state[c] = "freed"
      BY <1>0, <3>1, <3>2, <3>6 DEF Together, Left, Over, Up
    <3>7. ~Idle(c) /\ ~Accelerating(c) /\ ~Unborn(c)
      BY <3>1 DEF Idle, AtRest, Binding, BoundHalf, Accelerating, Unborn
    <3> QED BY <1>0, <3>3, <3>4, <3>5, <3>6, <3>7 DEF Together
  <2> QED BY <1>1, <2>1, EndJoins DEF Accept, Shutdown
<1>2. CASE HandleInit(c)
  BY <1>2, InitHandled
<1>3. CASE BindRefused(c) \/ RunRefused(c)
  BY <1>3, RefuseJoins DEF BindRefused, RunRefused, RefuseRun
<1>4. CASE HandleBind(c) \/ BindFails(c)
  BY <1>4, BindHandled
<1>5. CASE HandleRun(c)
  BY <1>5, RunHandled
<1>6. CASE Hangup(c)
  <2>1. /\ Up /\ peer[c] = "eof" /\ c2s[c] = << >> /\ sess'[c] = "freed"
        /\ UNCHANGED <<state, call, bound, c2s, s2c, peer, binds, req, server>>
    BY <1>0, <1>6 DEF Hangup, AtEndOfFile, Detach, client, Shapes
  <2>2. Shapes' /\ Lists(c)'
    BY <1>0, <1>6 DEF Hangup, AtEndOfFile, Detach, Shapes, Lists, client
  <2>3. CASE state[c] = "freed"
    BY <1>0, <2>1, <2>2, <2>3 DEF Together, Left, Over, Up
  <2>4. CASE state[c] = "dead"
    BY <1>0, <2>1, <2>2, <2>4, DeadJoins DEF Together, Up
  <2> QED BY <1>0, <2>1, <2>3, <2>4 DEF Together, Unborn, Initialising, Idle, Accelerating, Failed
<1>7. CASE Reset(c) \/ AcceptFails(c) \/ RunFails(c) \/ UseFreed(c)
  BY <1>7, EndJoins DEF Reset, AcceptFails, RunFails, UseFreed, Shutdown
<1> QED BY <1>1, <1>2, <1>3, <1>4, <1>5, <1>6, <1>7 DEF Handle, Fail

LEMMA CompleteJoins ==
    ASSUME Joined, NEW c \in Clients, world' = world, Done(c) \/ Overrun(c)
    PROVE  Shapes' /\ Together(c)' /\ Lists(c)'
<1> USE DEF client
<1>1. PICK head \in {"DONE", "OVERRUN"} : Complete(c, head)
  BY DEF Done, Overrun
<1>2. Shapes /\ Together(c) /\ Lists(c)
  BY DEF Joined
<1>3. /\ UNCHANGED <<state, call, bound, c2s, peer, sess, binds>> /\ req'[c] = None
      /\ Up /\ req[c] # None /\ sess[c] = "ready" /\ Answer(c, <<Msg(head, None)>>)
      /\ DOMAIN s2c' = Clients
  BY <1>1, <1>2 DEF Complete, Shapes, Answer
<1>4. Shapes' /\ Lists(c)'
  <2>1. req' = [req EXCEPT ![c] = None] /\ banned' \in {banned, banned \cup {req[c]}}
    BY <1>1 DEF Complete, Done, Overrun
  <2>2. req[c] \in HwTasks /\ banned' \subseteq HwTasks
    BY <1>2, <1>3, <2>1 DEF Shapes
  <2> QED BY <1>2, <1>3, <2>1, <2>2 DEF Shapes, Lists
<1>5. CASE state[c] = "ACCEL"
  <2>1. Accelerating(c) /\ Empty(c)
    BY <1>2, <1>3, <1>5 DEF Together, Accelerating
  <2>2. s2c'[c] = <<Msg(head, None)>>
    BY <1>2, <1>3, <2>1, OneMessage DEF Answer, Shapes, Empty, Accelerating
  <2>3. Answered(c, head)'
    BY <1>3, <2>1, <2>2 DEF Answered, Empty, Msg
  <2>4. Accelerating(c)'
    BY <1>1, <1>3, <2>1, <2>3 DEF Accelerating
  <2> QED BY <1>3, <1>4, <1>5, <2>4 DEF Together
<1>6. CASE state[c] = "dead"
  <2>1. Dead(c) /\ peer[c] # "open"
    BY <1>2, <1>3, <1>6 DEF Together, Dead
  <2> QED BY <1>3, <1>4, <1>6, <2>1, DeadJoins DEF Answer
<1> QED BY <1>2, <1>3, <1>5, <1>6
        DEF Together, Unborn, Initialising, Idle, Failed, Left, Over

-----------------------------------------------------------------------------
(* The theorems.                                                           *)

LEMMA NextJoins == ASSUME Joined, [Next]_vars PROVE Joined'
<1>1. CASE UNCHANGED vars
  <2>1. Shapes' /\ \A d \in Clients : Same(d) /\ (Up' => Up)
    BY <1>1 DEF vars, client, channel, service, Same, Up, Joined, Shapes
  <2> QED BY <1>1, <2>1, Untouched DEF Joined, vars
<1>2. CASE Next
  <2>1. PICK c \in Clients :
          \/ Library(c) \/ Receive(c) \/ ReceiveFails(c)
          \/ Handle(c) \/ Fail(c) \/ Done(c) \/ Overrun(c)
    BY <1>2 DEF Next
  <2>2. world' = world
    BY <1>2 DEF Next
  <2>3. Shapes' /\ Together(c)' /\ Lists(c)'
    BY <2>1, <2>2, LibraryJoins, ReceiveJoins, ReceiveFailsJoins, SessionJoins, CompleteJoins
  <2>4. ASSUME NEW d \in Clients \ {c} PROVE Together(d)' /\ Lists(d)'
    BY <2>1, <2>2, OneTouched, Untouched DEF Joined
  <2> QED BY <2>3, <2>4 DEF Joined
<1> QED BY <1>1, <1>2

\* Client, socket and server are together in every state: the inductive
\* invariant of the theorems below.
THEOREM AlwaysJoined == Spec => []Joined
BY InitJoins, NextJoins, PTL DEF Spec

\* Client and server agree on what is bound, and every variable is of its type.
THEOREM SessionAgrees == Spec => []SessionInv
<1>1. ASSUME Joined PROVE SessionInv
  <2>1. ASSUME NEW c \in Clients
        PROVE  /\ \A i \in DOMAIN binds[c] : binds[c][i] \in HwTasks
               /\ {Len(binds[c]), Len(bound[c])} \subseteq 0 .. MaxBinds
    <3>1. Lists(c) /\ MaxBinds \in Nat
      BY <1>1, ConstantsAssumption DEF Joined
    <3>2. /\ Len(binds[c]) \in Nat /\ Len(bound[c]) \in Nat
          /\ Len(bound[c]) <= MaxBinds
      BY <3>1 DEF Lists
    <3> QED BY <3>1, <3>2 DEF Lists
  <2>2. ASSUME NEW c \in Clients
        PROVE  {Len(c2s[c]), Len(s2c[c])} \subseteq 0 .. 2
    <3>1. Together(c)
      BY <1>1 DEF Joined
    <3>2. /\ c2s[c] = << >> \/ \E m : c2s[c] = <<m>>
          /\ s2c[c] = << >> \/ (\E m : s2c[c] = <<m>>) \/ (\E m, n : s2c[c] = <<m, n>>)
      BY <3>1 DEF Together, Unborn, Initialising, Idle, AtRest, Binding, BoundHalf,
           Accelerating, Failed, Left, Over, Dead, Empty, Asked, Answered
    <3>3. Len(c2s[c]) \in {0, 1} /\ Len(s2c[c]) \in {0, 1, 2}
      BY <3>2, OneMessage
    <3> QED BY <3>3
  <2>3. BindsAgree
    BY <1>1 DEF BindsAgree, Joined, Together, Idle, AtRest, Binding, BoundHalf, Accelerating
  <2> QED BY <1>1, <2>1, <2>2, <2>3 DEF SessionInv, TypeOK, Joined, Shapes
<1> QED BY <1>1, AlwaysJoined, PTL

\* The one accel_req of a session is in one place and does not outlive it
\* unless its client died.
THEOREM RequestInOnePlace == Spec => []RequestTracked
<1>1. ASSUME Joined PROVE RequestTracked
  <2>1. ASSUME NEW c \in Clients, state[c] = "ACCEL"
        PROVE  Len(c2s[c]) + Len(s2c[c]) + (IF req[c] = None THEN 0 ELSE 1) = 1
    <3>1. Accelerating(c)
      BY <1>1, <2>1 DEF Joined, Together
    <3>2. \/ Len(c2s[c]) = 1 /\ Len(s2c[c]) = 0 /\ req[c] = None
          \/ Len(c2s[c]) = 0 /\ Len(s2c[c]) = 0 /\ req[c] # None
          \/ Len(c2s[c]) = 0 /\ Len(s2c[c]) = 1 /\ req[c] = None
      <4>1. CASE (\E h \in HwTasks : Asked(c, "RUN", h)) /\ req[c] = None
        BY <4>1, OneMessage DEF Asked
      <4>2. CASE Empty(c) /\ req[c] # None
        BY <4>2, OneMessage DEF Empty
      <4>3. CASE (\E head \in {"DONE", "OVERRUN", "ERROR"} : Answered(c, head)) /\ req[c] = None
        <5>1. c2s[c] = << >> /\ \E m : s2c[c] = <<m>>
          BY <4>3 DEF Answered
        <5>2. Len(c2s[c]) = 0 /\ Len(s2c[c]) = 1
          BY <5>1, OneMessage
        <5> QED BY <4>3, <5>2
      <4> QED BY <3>1, <4>1, <4>2, <4>3 DEF Accelerating
    <3>3. 1 + 0 + 0 = 1 /\ 0 + 0 + 1 = 1 /\ 0 + 1 + 0 = 1
      OBVIOUS
    <3> QED BY <3>2, <3>3, Zenon
  <2>2. ASSUME NEW c \in Clients, call[c] = "none", state[c] \in {"INIT", "IDLE"}
        PROVE  c2s[c] = << >> /\ s2c[c] = << >> /\ req[c] = None
    BY <1>1, <2>2 DEF Joined, Together, Idle, AtRest, Binding, BoundHalf, Empty
  <2>3. ASSUME NEW c \in Clients, req[c] # None, sess[c] = "freed"
        PROVE  state[c] = "dead"
    BY <1>1, <2>3 DEF Joined, Together, Unborn, Initialising, Idle, Accelerating, Failed, Left, Over
  <2> QED BY <2>1, <2>2, <2>3 DEF RequestTracked, OneAnswerPending, NoDanglingRequest
<1> QED BY <1>1, AlwaysJoined, PTL

\* What a step may make of a server that is up.
Reason ==
    /\ server' = "down" =>
         ConnectionRefused \/ \E c \in Clients : AnswerUnread(c) \/ SchedulerFails(c)
    /\ server' = "killed" => \E c \in Clients : ServesTheDead(c)
    /\ server' = "undefined" =>
         \E c \in Clients : state[c] = "dead" /\ req[c] # None /\ sess[c] = "freed"
    /\ server' = "aborted" =>
         world.faults /\ \E c \in Clients : sess[c] = "backlog"

LEMMA KilledByTheDead ==
    ASSUME Joined, NEW c \in Clients, Up, ~Up', Handle(c) \/ Done(c) \/ Overrun(c),
           ~Accept(c), ~Reset(c)
    PROVE  server' = "killed" /\ ServesTheDead(c)
<1>0. Shapes /\ Together(c)
  BY DEF Joined
<1>1. CASE HandleInit(c) \/ BindRefused(c) \/ HandleBind(c) \/ RunRefused(c)
  <2>1. server' = "killed" /\ \E head : Reads(c, head) /\ peer[c] # "open"
    BY <1>1 DEF HandleInit, BindRefused, HandleBind, RunRefused, RefuseRun, Refuse, Answer, Up
  <2>2. state[c] = "dead" /\ c2s[c] # << >> /\ c2s'[c] = << >>
    BY <2>1, Reading DEF Opening, Initialising, BindAsked, Idle, RunAsked, Accelerating, Reads
  <2> QED BY <2>1, <2>2 DEF ServesTheDead
<1>2. CASE Done(c) \/ Overrun(c)
  <2>1. /\ req[c] # None /\ peer[c] # "open" /\ server' = "killed"
        /\ req' = [req EXCEPT ![c] = None]
    BY <1>2 DEF Done, Overrun, Complete, Answer, Up
  <2>2. state[c] = "dead"
    BY <1>0, <2>1 DEF Together, Unborn, Initialising, Idle, Accelerating, Failed, Left, Over
  <2>3. req'[c] = None
    BY <1>0, <2>1 DEF Shapes
  <2> QED BY <2>1, <2>2, <2>3 DEF ServesTheDead
<1>3. ~HandleRun(c) /\ ~Hangup(c)
  BY DEF HandleRun, Hangup, AtEndOfFile, Detach, Up
<1> QED BY <1>1, <1>2, <1>3 DEF Handle

\* The server ends for a reason, each way of ending for its own: a refused
\* connection, an answer left unread or a failing scheduler in order, a write
\* to a dead client by a signal, a request that outlived its session by the use
\* of freed memory, a failed accept by an assertion.
THEOREM EndsForAReason == Spec => ServerEndsForAReason
<1>1. ASSUME Joined, Next, Up, ~Up' PROVE Reason
  <2>1. PICK c \in Clients :
          \/ Library(c) \/ Receive(c) \/ ReceiveFails(c)
          \/ Handle(c) \/ Fail(c) \/ Done(c) \/ Overrun(c)
    BY <1>1 DEF Next
  <2>2. ~Library(c) /\ ~Receive(c) /\ ~ReceiveFails(c)
    BY <1>1 DEF Library, FredInit, FredBind, FredAsyncAccel, Request, FredFree, BindOutOfMemory,
         Kill, Receive, ReceiveFails, Up, service
  <2>3. CASE Accept(c)
    <3>1. /\ ~(Cardinality(Sessions) < world.room)
          /\ server' = "down" /\ sess[c] = "backlog"
      BY <1>1, <2>3 DEF Accept, Shutdown, Ends, Up
    <3>2. Cardinality(Sessions) \in Nat
      BY ConstantsAssumption, FS_Subset, FS_CardinalityType DEF Sessions
    <3>3. world.room \in Nat
      BY <1>1, ConstantsAssumption DEF Joined, Shapes
    <3> QED BY <3>1, <3>2, <3>3 DEF Reason, ConnectionRefused
  <2>4. CASE Reset(c)
    <3>1. peer[c] = "reset" /\ c \in Sessions /\ server' = "down" /\ Together(c)
      BY <1>1, <2>4 DEF Reset, Shutdown, Ends, Joined
    <3>2. s2c[c] # << >> /\ (state[c] = "dead" \/ world.faults)
      BY <3>1 DEF Together, Unborn, Initialising, Idle, Accelerating, Failed, Left, Over, Dead
    <3> QED BY <3>1, <3>2 DEF Reason, AnswerUnread
  <2>5. CASE Fail(c)
    <3>1. CASE UseFreed(c)
      <4>1. req[c] # None /\ sess[c] = "freed" /\ server' = "undefined"
        BY <3>1 DEF UseFreed, Ends
      <4>2. state[c] = "dead"
        BY <1>1, <4>1 DEF Joined, Together, Unborn, Initialising, Idle, Accelerating, Failed, Left, Over
      <4> QED BY <4>1, <4>2 DEF Reason
    <3>2. CASE AcceptFails(c)
      BY <3>2 DEF AcceptFails, Ends, Reason
    <3>3. CASE RunFails(c)
      BY <3>3 DEF RunFails, Shutdown, Ends, Reason, SchedulerFails
    <3>4. ~BindFails(c)
      BY <1>1 DEF BindFails, Detach, Up
    <3> QED BY <2>5, <3>1, <3>2, <3>3, <3>4 DEF Fail
  <2>6. CASE (Handle(c) \/ Done(c) \/ Overrun(c)) /\ ~Accept(c) /\ ~Reset(c)
    <3>1. server' = "killed" /\ ServesTheDead(c)
      BY <1>1, <2>6, KilledByTheDead
    <3> QED BY <3>1 DEF Reason
  <2> QED BY <2>1, <2>2, <2>3, <2>4, <2>5, <2>6
<1>2. ASSUME Joined, [Next]_vars
      PROVE  [Up => Reason]_vars
  <2>1. CASE Up'
    BY <2>1 DEF Up, Reason
  <2> QED BY <1>1, <1>2, <2>1
<1>3. [][Joined]_vars /\ [][Next]_vars => [][Up => Reason]_vars
  BY <1>2, PTL
<1> QED BY <1>3, AlwaysJoined, PTL DEF Spec, ServerEndsForAReason, Reason
=============================================================================
