---------------------------- MODULE WSConnection ----------------------------
(***************************************************************************)
(* One WS::WSConnection (ws/ws_connection.cpp) and the threads that run    *)
(* its methods: the thread that starts it, the threads of the io_service   *)
(* pool that run its read and write handlers, and the application threads  *)
(* inside WebServer::WSPush and WebServer::WSClose.  The TCP and the SSL   *)
(* instantiation of the template differ in nothing that is modelled.       *)
(*                                                                         *)
(* A thread runs one call at a time: op[t] names the outermost call and    *)
(* pc[t] the next thing it does.  stop() is entered from four places, with *)
(* and without send_q_mx_ held, and returns according to op[t].  A block   *)
(* of code that touches only state guarded by a mutex it holds is one      *)
(* step; every callback to the application, every call on the socket made  *)
(* by stop() and every wait for a mutex starts a step of its own.          *)
(*                                                                         *)
(* A message is the number k of the k-th WSPush that found the connection. *)
(***************************************************************************)
EXTENDS Naturals, Sequences

CONSTANTS
  Threads,    \* threads of the pool and of the application
  NoThread,   \* owner of a free mutex
  QMax,       \* the queue length above which write() stops: 100 in the code
  MaxMsgs     \* bound on the number of pushes

ASSUME ThreadsAssumption == NoThread \notin Threads
ASSUME QMaxAssumption    == QMax \in Nat \ {0}
ASSUME MaxMsgsAssumption == MaxMsgs \in Nat

Msg == 1 .. MaxMsgs

VARIABLES
  pc,           \* the next step of each thread
  op,           \* the call each thread is in
  arg,          \* the message a thread in WSPush carries, else 0
  ws_conns_mx,  \* owner of WebServer::ws_conns_mx_
  send_q_mx,    \* owner of send_q_mx_
  send_q,       \* send_q_
  write_op,     \* the async_write of each message
  read_op,      \* the async_read of Start
  closed,       \* closed_
  sock,         \* sock_: how far stop() has taken it
  link,         \* the TCP connection below the socket, "reset" once the system
                \* has given it up
  wire,         \* history: messages written completely, oldest first
  pushed,       \* history: number of messages WSPush has forwarded
  onopen,       \* ws_onopen was called, the application knows the id
  onclose,      \* number of calls of ws_onclose
  onerror       \* ws_onerror was called

netvars == <<sock, link, wire>>
appvars == <<onopen, onclose, onerror>>
vars == <<pc, op, arg, ws_conns_mx, send_q_mx, send_q, write_op, read_op,
          closed, netvars, pushed, appvars>>

StopSteps == {"onclose", "cancel", "shutdown", "close"}
Steps == {"idle", "onopen", "async_read", "write", "dequeue", "clear",
          "stop", "return"} \cup StopSteps
Calls == {"none", "Start", "WSPush", "WSClose", "handle_read", "handle_write"}

\* An asynchronous operation: not started or its handler already run, in
\* progress, or completed with its handler waiting for a pool thread.
OpStates == {"none", "pending", "ok", "error", "aborted"}
Completed == {"ok", "error", "aborted"}
SockStates == {"open", "cancelled", "shutdown", "closed"}

TypeOK ==
  /\ pc \in [Threads -> Steps]
  /\ op \in [Threads -> Calls]
  /\ arg \in [Threads -> 0 .. MaxMsgs]
  /\ ws_conns_mx \in Threads \cup {NoThread}
  /\ send_q_mx \in Threads \cup {NoThread}
  /\ send_q \in Seq(Msg)
  /\ write_op \in [Msg -> OpStates]
  /\ read_op \in OpStates
  /\ closed \in BOOLEAN
  /\ sock \in SockStates
  /\ link \in {"up", "reset"}
  /\ wire \in Seq(Msg)
  /\ pushed \in 0 .. MaxMsgs
  /\ onopen \in BOOLEAN
  /\ onclose \in Nat
  /\ onerror \in BOOLEAN

\* _create_ws_connection has made the connection, entered it in the registry
\* and is about to call Start.
Init ==
  /\ \E t \in Threads :
       /\ pc = [u \in Threads |-> IF u = t THEN "onopen" ELSE "idle"]
       /\ op = [u \in Threads |-> IF u = t THEN "Start" ELSE "none"]
  /\ arg = [t \in Threads |-> 0]
  /\ ws_conns_mx = NoThread
  /\ send_q_mx = NoThread
  /\ send_q = <<>>
  /\ write_op = [m \in Msg |-> "none"]
  /\ read_op = "none"
  /\ closed = FALSE
  /\ sock = "open"
  /\ link = "up"
  /\ wire = <<>>
  /\ pushed = 0
  /\ onopen = FALSE
  /\ onclose = 0
  /\ onerror = FALSE

\* Some shared_ptr to the connection exists: bound into a handler that has not
\* run, or on the stack of a thread.  A weak_ptr::lock succeeds exactly then.
Alive ==
  \/ read_op # "none"
  \/ \E m \in Msg : write_op[m] # "none"
  \/ \E t \in Threads : pc[t] # "idle"

Enter(t, call, step) ==
  /\ pc[t] = "idle"
  /\ pc' = [pc EXCEPT ![t] = step]
  /\ op' = [op EXCEPT ![t] = call]

Goto(t, from, to) ==
  /\ pc[t] = from
  /\ pc' = [pc EXCEPT ![t] = to]
  /\ UNCHANGED <<op, arg>>

Leave(t, from) ==
  /\ pc[t] = from
  /\ pc' = [pc EXCEPT ![t] = "idle"]
  /\ op' = [op EXCEPT ![t] = "none"]
  /\ arg' = [arg EXCEPT ![t] = 0]

Started(m) == [write_op EXCEPT ![m] = "pending"]

-----------------------------------------------------------------------------
(* Start *)

StartOnOpen(t) ==
  /\ Goto(t, "onopen", "async_read")
  /\ onopen' = TRUE
  /\ UNCHANGED <<ws_conns_mx, send_q_mx, send_q, write_op, read_op, closed,
                 netvars, pushed, onclose, onerror>>

StartAsyncRead(t) ==
  /\ Leave(t, "async_read")
  /\ read_op' = "pending"
  /\ UNCHANGED <<ws_conns_mx, send_q_mx, send_q, write_op, closed, netvars,
                 pushed, appvars>>

-----------------------------------------------------------------------------
(* WSPush, WSClose: ws_forward under ws_conns_mx_, then Forward *)

\* Mutant: the message is not handed to write().
WSPush_Forgets(t) ==
  /\ Enter(t, "WSPush", "write")
  /\ onopen /\ Alive
  /\ ws_conns_mx = NoThread
  /\ pushed < MaxMsgs
  /\ pushed' = pushed + 1
  /\ ws_conns_mx' = t
  /\ UNCHANGED <<arg, send_q_mx, send_q, write_op, read_op, closed, netvars, appvars>>

\* Mutant: the registry is searched without ws_conns_mx_.
WSPush_Unlocked(t) ==
  /\ Enter(t, "WSPush", "write")
  /\ onopen /\ Alive
  /\ pushed < MaxMsgs
  /\ pushed' = pushed + 1
  /\ arg' = [arg EXCEPT ![t] = pushed + 1]
  /\ UNCHANGED <<ws_conns_mx, send_q_mx, send_q, write_op, read_op, closed, netvars, appvars>>

\* Mutant: the registry keeps plain pointers and forwards to a dead connection.
WSPush_Dangling(t) ==
  /\ Enter(t, "WSPush", "write")
  /\ onopen
  /\ ws_conns_mx = NoThread
  /\ pushed < MaxMsgs
  /\ pushed' = pushed + 1
  /\ arg' = [arg EXCEPT ![t] = pushed + 1]
  /\ ws_conns_mx' = t
  /\ UNCHANGED <<send_q_mx, send_q, write_op, read_op, closed, netvars, appvars>>

\* The frame is built and ws_onmessageout called before send_q_mx_ is taken.
WSPush(t) ==
  /\ Enter(t, "WSPush", "write")
  /\ onopen /\ Alive
  /\ ws_conns_mx = NoThread
  /\ pushed < MaxMsgs
  /\ pushed' = pushed + 1
  /\ arg' = [arg EXCEPT ![t] = pushed + 1]
  /\ ws_conns_mx' = t
  /\ UNCHANGED <<send_q_mx, send_q, write_op, read_op, closed, netvars, appvars>>

WSClose(t) ==
  /\ Enter(t, "WSClose", "stop")
  /\ onopen /\ Alive
  /\ ws_conns_mx = NoThread
  /\ ws_conns_mx' = t
  /\ UNCHANGED <<arg, send_q_mx, send_q, write_op, read_op, closed, netvars,
                 pushed, appvars>>

\* Mutant: every write() on a non-empty queue starts an async_write.
WriteIfSingle_Always(q) ==
  write_op' = IF Len(q) >= 1 THEN Started(Head(q)) ELSE write_op

\* The last test of write(): a message alone in the queue starts the writing.
WriteIfSingle(q) ==
  write_op' = IF Len(q) = 1 THEN Started(Head(q)) ELSE write_op

\* Mutant: the queue has no limit.
Enqueue_Unlimited(t) ==
  /\ Leave(t, "write")
  /\ send_q_mx = NoThread
  /\ LET q == Append(send_q, arg[t]) IN send_q' = q /\ WriteIfSingle(q)
  /\ ws_conns_mx' = NoThread
  /\ UNCHANGED <<send_q_mx, read_op, closed, netvars, pushed, appvars>>

Enqueue(t) ==
  /\ Leave(t, "write")
  /\ send_q_mx = NoThread
  /\ LET q == Append(send_q, arg[t]) IN
       /\ Len(q) <= QMax
       /\ send_q' = q
       /\ WriteIfSingle(q)
  /\ ws_conns_mx' = NoThread
  /\ UNCHANGED <<send_q_mx, read_op, closed, netvars, pushed, appvars>>

\* The message stays in the queue and stop() runs with send_q_mx_ held.
EnqueueOverflow(t) ==
  /\ Goto(t, "write", "stop")
  /\ send_q_mx = NoThread
  /\ Len(send_q) + 1 > QMax
  /\ send_q' = Append(send_q, arg[t])
  /\ send_q_mx' = t
  /\ UNCHANGED <<ws_conns_mx, write_op, read_op, closed, netvars, pushed, appvars>>

-----------------------------------------------------------------------------
(* handle_read, handle_write *)

\* Mutant: what the client sends is read and ignored.
HandleRead_Ignores(t) ==
  /\ Enter(t, "handle_read", "return")
  /\ read_op \in Completed
  /\ read_op' = "none"
  /\ onerror' = (onerror \/ read_op = "error")
  /\ UNCHANGED <<arg, ws_conns_mx, send_q_mx, send_q, write_op, closed,
                 netvars, pushed, onopen, onclose>>

\* One-way channel: whatever the read brought, the connection stops.
HandleRead(t) ==
  /\ Enter(t, "handle_read", "stop")
  /\ read_op \in Completed
  /\ read_op' = "none"
  /\ onerror' = (onerror \/ read_op = "error")
  /\ UNCHANGED <<arg, ws_conns_mx, send_q_mx, send_q, write_op, closed,
                 netvars, pushed, onopen, onclose>>

HandleWrite(t) ==
  \E m \in Msg :
    /\ write_op[m] \in Completed
    /\ Enter(t, "handle_write", IF write_op[m] = "ok" THEN "dequeue" ELSE "clear")
    /\ write_op' = [write_op EXCEPT ![m] = "none"]
    /\ onerror' = (onerror \/ write_op[m] = "error")
    /\ UNCHANGED <<arg, ws_conns_mx, send_q_mx, send_q, read_op, closed,
                   netvars, pushed, onopen, onclose>>

\* Mutant: the sent message is not erased.
Dequeue_Keeps(t) ==
  /\ Leave(t, "dequeue")
  /\ send_q_mx = NoThread
  /\ send_q' = send_q
  /\ write_op' = IF Len(send_q') > 0 THEN Started(Head(send_q')) ELSE write_op
  /\ UNCHANGED <<ws_conns_mx, send_q_mx, read_op, closed, netvars, pushed, appvars>>

\* Mutant: the queue is cleared after a successful write too.
Dequeue_Clears(t) ==
  /\ Leave(t, "dequeue")
  /\ send_q_mx = NoThread
  /\ send_q' = <<>>
  /\ UNCHANGED <<ws_conns_mx, send_q_mx, write_op, read_op, closed, netvars,
                 pushed, appvars>>

Dequeue(t) ==
  /\ Leave(t, "dequeue")
  /\ send_q_mx = NoThread
  /\ send_q' = Tail(send_q)
  /\ write_op' = IF Len(send_q') > 0 THEN Started(Head(send_q')) ELSE write_op
  /\ UNCHANGED <<ws_conns_mx, send_q_mx, read_op, closed, netvars, pushed, appvars>>

Clear(t) ==
  /\ Goto(t, "clear", "stop")
  /\ send_q_mx = NoThread
  /\ send_q_mx' = t
  /\ send_q' = <<>>
  /\ UNCHANGED <<ws_conns_mx, write_op, read_op, closed, netvars, pushed, appvars>>

-----------------------------------------------------------------------------
(* stop: compare_exchange, ws_onclose, _cancel, _shutdown, _close *)

\* Mutant: closed_ is set without comparing it.
StopFirst_NoCompare(t) ==
  /\ Goto(t, "stop", "onclose")
  /\ closed' = TRUE
  /\ UNCHANGED <<ws_conns_mx, send_q_mx, send_q, write_op, read_op, netvars,
                 pushed, appvars>>

\* The caller that turns closed_ to true tears the socket down.
StopFirst(t) ==
  /\ Goto(t, "stop", "onclose")
  /\ ~closed
  /\ closed' = TRUE
  /\ UNCHANGED <<ws_conns_mx, send_q_mx, send_q, write_op, read_op, netvars,
                 pushed, appvars>>

StopAgain(t) ==
  /\ Goto(t, "stop", "return")
  /\ closed
  /\ UNCHANGED <<ws_conns_mx, send_q_mx, send_q, write_op, read_op, closed,
                 netvars, pushed, appvars>>

StopOnClose(t) ==
  /\ Goto(t, "onclose", "cancel")
  /\ onclose' = onclose + 1
  /\ UNCHANGED <<ws_conns_mx, send_q_mx, send_q, write_op, read_op, closed,
                 netvars, pushed, onopen, onerror>>

\* A composed operation that is between two transfers is not reached by cancel.
Cancel(t) ==
  /\ Goto(t, "cancel", "shutdown")
  /\ sock' = "cancelled"
  /\ write_op' \in {write_op, [m \in Msg |-> IF write_op[m] = "pending"
                                             THEN "aborted" ELSE write_op[m]]}
  /\ read_op' \in {read_op, IF read_op = "pending" THEN "aborted" ELSE read_op}
  /\ UNCHANGED <<ws_conns_mx, send_q_mx, send_q, closed, link, wire, pushed,
                 appvars>>

Shutdown(t) ==
  /\ Goto(t, "shutdown", "close")
  /\ sock' = "shutdown"
  /\ UNCHANGED <<ws_conns_mx, send_q_mx, send_q, write_op, read_op, closed,
                 link, wire, pushed, appvars>>

\* Mutant: stop() ends after _shutdown.
CloseSocket_Skips(t) ==
  /\ Goto(t, "close", "return")
  /\ UNCHANGED <<ws_conns_mx, send_q_mx, send_q, write_op, read_op, closed,
                 netvars, pushed, appvars>>

CloseSocket(t) ==
  /\ Goto(t, "close", "return")
  /\ sock' = "closed"
  /\ UNCHANGED <<ws_conns_mx, send_q_mx, send_q, write_op, read_op, closed,
                 link, wire, pushed, appvars>>

\* What is left of each caller after stop(); the guards it holds are released.
ReturnHandleRead(t) ==
  /\ op[t] = "handle_read"
  /\ Leave(t, "return")
  /\ UNCHANGED <<ws_conns_mx, send_q_mx, send_q, write_op, read_op, closed,
                 netvars, pushed, appvars>>

ReturnWSClose(t) ==
  /\ op[t] = "WSClose"
  /\ Leave(t, "return")
  /\ ws_conns_mx' = NoThread
  /\ UNCHANGED <<send_q_mx, send_q, write_op, read_op, closed, netvars, pushed,
                 appvars>>

ReturnWSPush(t) ==
  /\ op[t] = "WSPush"
  /\ Leave(t, "return")
  /\ WriteIfSingle(send_q)
  /\ send_q_mx' = NoThread
  /\ ws_conns_mx' = NoThread
  /\ UNCHANGED <<send_q, read_op, closed, netvars, pushed, appvars>>

ReturnHandleWrite(t) ==
  /\ op[t] = "handle_write"
  /\ Leave(t, "return")
  /\ send_q_mx' = NoThread
  /\ UNCHANGED <<ws_conns_mx, send_q, write_op, read_op, closed, netvars,
                 pushed, appvars>>

-----------------------------------------------------------------------------
(* The network, and the io_service that owns the handlers *)

Transmitting == link = "up" /\ sock \in {"open", "cancelled"}

WriteSucceeds(m) ==
  /\ write_op[m] = "pending"
  /\ Transmitting
  /\ write_op' = [write_op EXCEPT ![m] = "ok"]
  /\ wire' = Append(wire, m)
  /\ UNCHANGED <<pc, op, arg, ws_conns_mx, send_q_mx, send_q, read_op, closed,
                 sock, link, pushed, appvars>>

WriteFails(m) ==
  /\ write_op[m] = "pending"
  /\ ~Transmitting
  /\ \E res \in {"error"} \cup (IF sock = "closed" THEN {"aborted"} ELSE {}) :
       write_op' = [write_op EXCEPT ![m] = res]
  /\ UNCHANGED <<pc, op, arg, ws_conns_mx, send_q_mx, send_q, read_op, closed,
                 netvars, pushed, appvars>>

\* The client sends two bytes of a frame.
ReadSucceeds ==
  /\ read_op = "pending"
  /\ Transmitting
  /\ read_op' = "ok"
  /\ UNCHANGED <<pc, op, arg, ws_conns_mx, send_q_mx, send_q, write_op, closed,
                 netvars, pushed, appvars>>

\* Also at any time: the client ends its half of the stream.
ReadFails ==
  /\ read_op = "pending"
  /\ \E res \in {"error"} \cup (IF sock = "closed" THEN {"aborted"} ELSE {}) :
       read_op' = res
  /\ UNCHANGED <<pc, op, arg, ws_conns_mx, send_q_mx, send_q, write_op, closed,
                 netvars, pushed, appvars>>

\* The system learns that the client is lost, and every pending operation fails.
\* A client that vanishes without a word leaves the link "up".
LinkFails ==
  /\ link = "up"
  /\ link' = "reset"
  /\ UNCHANGED <<pc, op, arg, ws_conns_mx, send_q_mx, send_q, write_op, read_op,
                 closed, sock, wire, pushed, appvars>>

\* Mutant: the destructor does not stop().
DestroyService_Bare ==
  /\ Alive
  /\ \A t \in Threads : pc[t] = "idle"
  /\ read_op' = "none"
  /\ write_op' = [m \in Msg |-> "none"]
  /\ send_q' = <<>>
  /\ UNCHANGED <<pc, op, arg, ws_conns_mx, send_q_mx, closed, netvars, pushed,
                 appvars>>

\* The io_service is destroyed when no thread runs any more: it drops its
\* handlers unrun, the last reference goes and ~WSConnection stops the socket.
DestroyService ==
  /\ Alive
  /\ \A t \in Threads : pc[t] = "idle"
  /\ read_op' = "none"
  /\ write_op' = [m \in Msg |-> "none"]
  /\ send_q' = <<>>
  /\ closed' = TRUE
  /\ onclose' = IF closed THEN onclose ELSE onclose + 1
  /\ sock' = IF closed THEN sock ELSE "closed"
  /\ UNCHANGED <<pc, op, arg, ws_conns_mx, send_q_mx, link, wire, pushed,
                 onopen, onerror>>

\* Destroyed: nothing is left to do.
Gone == ~Alive /\ UNCHANGED vars

-----------------------------------------------------------------------------

Return(t) == ReturnHandleRead(t) \/ ReturnWSClose(t) \/ ReturnWSPush(t) \/ ReturnHandleWrite(t)

Stop(t) ==
  \/ StopFirst(t) \/ StopAgain(t) \/ StopOnClose(t)
  \/ Cancel(t) \/ Shutdown(t) \/ CloseSocket(t)

\* The steps of a call that is under way.
Continue(t) ==
  \/ StartOnOpen(t) \/ StartAsyncRead(t)
  \/ Enqueue(t) \/ EnqueueOverflow(t)
  \/ Dequeue(t) \/ Clear(t)
  \/ Stop(t) \/ Return(t)

Network ==
  \/ \E m \in Msg : WriteSucceeds(m) \/ WriteFails(m)
  \/ ReadSucceeds \/ ReadFails \/ LinkFails

Next ==
  \/ \E t \in Threads : Continue(t) \/ WSPush(t) \/ WSClose(t)
                        \/ HandleRead(t) \/ HandleWrite(t)
  \/ Network
  \/ DestroyService
  \/ Gone

Spec == Init /\ [][Next]_vars

\* A running call keeps running, the pool runs completed handlers, and the
\* operating system completes what is pending on a reset link or a closed
\* socket.  Nothing obliges the peer to read or to speak, the link to fail or
\* the application to push or close; and as the code has neither keepalive nor
\* timeout, a read on a link that is "up" may be pending for ever.
DeadSocket == link = "reset" \/ sock = "closed"

Fairness ==
  /\ \A t \in Threads : WF_vars(Continue(t))
  /\ WF_vars(\E t \in Threads : HandleRead(t))
  /\ WF_vars(\E t \in Threads : HandleWrite(t))
  /\ WF_vars(DeadSocket /\ ReadFails)
  /\ WF_vars(DeadSocket /\ \E m \in Msg : WriteFails(m))

FairSpec == Spec /\ Fairness

-----------------------------------------------------------------------------
(* Safety *)

\* The messages whose async_write has started and whose handler has not run,
\* and the threads inside such a handler that have not reached the queue.
InFlight == {m \in Msg : write_op[m] # "none"}
Completing == {t \in Threads : pc[t] \in {"dequeue", "clear"}}

\* The three cases of the header (1S+1H, 1S+0H, 0S+1H) add up to this: a
\* non-empty queue has exactly one write under way, and its buffer is the
\* front of the queue; an empty queue has none.  Two writes at once would mix
\* frames on the wire, none would strand the queue, and a write whose message
\* is not the front reads a freed buffer.
WriterServesQueue ==
  IF send_q = <<>>
  THEN InFlight = {} /\ Completing = {}
  ELSE \/ InFlight = {Head(send_q)} /\ Completing = {}
       \/ InFlight = {} /\ \E t \in Threads : Completing = {t}

\* Until stop() reaches the socket, what the client has received is what the
\* application pushed, in the order of the pushes and with nothing missing.
StreamIsPrefix ==
  sock = "open" => \A i \in 1 .. Len(wire) : wire[i] = i

\* Even while the connection is being stopped no message is repeated on the
\* wire or overtaken by a later one.
StreamInOrder ==
  \A i, j \in 1 .. Len(wire) : i < j => wire[i] < wire[j]

\* The messages of the queue that are not yet on the wire: the front may be,
\* its handler waiting for a pool thread or for the mutex.
FrontSent ==
  \/ \E m \in Msg : write_op[m] = "ok"
  \/ \E t \in Threads : pc[t] = "dequeue"
Unsent == IF FrontSent THEN Len(send_q) - 1 ELSE Len(send_q)

\* Messages whose WSPush has not reached the queue.
Carried == {t \in Threads : pc[t] = "write"}

\* On a healthy connection every pushed message is on the wire, in the queue
\* or in the hands of the one thread inside WSPush.
NothingLost ==
  sock = "open" /\ link = "up" =>
    Len(wire) + Unsent + (IF Carried = {} THEN 0 ELSE 1) = pushed

\* "If 'send_q_' is filled too fast [...] queue overflow happens and
\* WSConnection stops": nobody finds a queue above the limit on a connection
\* that is not stopping.
OverflowStops ==
  send_q_mx = NoThread /\ Len(send_q) > QMax => closed

\* "close only once": stop() runs its body in one thread only, however many
\* threads call it, and ws_onclose is called once and before the socket is
\* touched.
StopRunsOnce ==
  /\ \A t, u \in Threads : pc[t] \in StopSteps /\ pc[u] \in StopSteps => t = u
  /\ onclose = IF closed /\ \A t \in Threads : pc[t] # "onclose" THEN 1 ELSE 0
  /\ sock # "open" => onclose = 1

\* When the last reference goes the application has been told, the socket is
\* closed, no message is stranded and no mutex is left locked.
ReleasedClean ==
  ~Alive => /\ closed /\ onclose = 1 /\ sock = "closed"
            /\ send_q = <<>>
            /\ send_q_mx = NoThread /\ ws_conns_mx = NoThread

-----------------------------------------------------------------------------
(* Liveness, under Fairness *)

\* write() does not look at closed_: each push may start a write, whose handler
\* is one more reference.  That a connection is destroyed is promised only to
\* an application that does not push to it for ever (see Registry).
PushingEnds == <>[][\A t \in Threads : ~WSPush(t)]_vars

\* A stopped connection is announced as closed and its socket is closed, however
\* many threads it meets in write(), stop() and the handlers; and it is destroyed
\* once the pushes end, as every handler that prolongs its life runs to its end.
StoppedIsReleased ==
  /\ closed ~> (onclose = 1 /\ sock = "closed")
  /\ PushingEnds => (closed ~> ~Alive)

\* "Any attempt of client to send message through this channel leads to
\* WSConnection stop and destruction", and so does a client that the system
\* knows to be lost: once the pushes end.
PeerEndsConnection ==
  PushingEnds => ((read_op = "ok" \/ (link = "reset" /\ onopen)) ~> ~Alive)

-----------------------------------------------------------------------------
(* Refinement *)

ChannelPhase ==
  IF ~Alive THEN "released" ELSE IF sock = "open" THEN "open" ELSE "closing"

Channel == INSTANCE WSChannel WITH accepted <- pushed, phase <- ChannelPhase

\* The connection keeps the promises of WSChannel.
ImplementsChannel == Channel!Spec

=============================================================================
