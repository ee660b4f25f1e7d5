------------------------------ MODULE Registry ------------------------------
(***************************************************************************)
(* WebServer's registry of WebSocket connections (webserver.cpp): the      *)
(* handover of sockets after a handshake, WSAddSession, WSPush, WSClose    *)
(* and ws_forward, and the callbacks by which several WSConnections report *)
(* to the application, which may push and close from inside a callback.    *)
(*                                                                         *)
(* A thread is its call stack, innermost frame first; a frame is a method, *)
(* the connection it works for and the next thing it does there.  Who owns *)
(* a mutex follows from the stacks.  A connection is reduced to what its   *)
(* callers see; WSConnection models one of them in full.                   *)
(***************************************************************************)
EXTENDS Naturals, Sequences

CONSTANTS
  Threads,    \* threads of the pool and of the application
  Conns,      \* ids of connections
  Secure,     \* those above an SSL socket
  QMax,       \* the queue length above which write() stops
  MaxQueue,   \* bound on a queue that is still pushed to, for the checking
  Calling,    \* callbacks in which the application pushes or closes
  Throwing,   \* callbacks that may throw
  Recursive   \* whether ptl::mutex lets its owner lock it again

Callbacks == {"ws_onopen", "ws_onmessageout", "ws_onerror", "ws_onclose"}

ASSUME SecureAssumption    == Secure \subseteq Conns
ASSUME QMaxAssumption      == QMax \in Nat \ {0}
ASSUME MaxQueueAssumption  == MaxQueue \in Nat
ASSUME CallbacksAssumption == Calling \subseteq Callbacks
ASSUME ThrowingAssumption  == Throwing \subseteq Callbacks \ {"ws_onclose"}
ASSUME RecursiveAssumption == Recursive \in BOOLEAN

VARIABLES
  stack,            \* the calls each thread is in
  conn,             \* the connections
  ws_conns,         \* keys of ws_conns_
  ws_secure_conns,  \* keys of ws_secure_conns_
  refused           \* history: ids for which such a call returned false

maps == <<ws_conns, ws_secure_conns>>
vars == <<stack, conn, maps, refused>>

Frame(fn, c, at) == [fn |-> fn, c |-> c, at |-> at]

Forwarders == {"WSPush", "WSClose"}
Methods == Forwarders \cup {"create", "handle_read", "handle_write", "stop"}
Places == Callbacks \cup {"insert", "find", "enqueue", "overflow", "release",
                          "unlock", "dequeue", "clear", "exchange", "return"}

TypeOK ==
  /\ stack \in [Threads -> Seq([fn : Methods, c : Conns, at : Places])]
  /\ conn \in [Conns -> [upgrade : BOOLEAN,        \* the 101 is being written
                         read : BOOLEAN,           \* the async_read of Start
                         write : BOOLEAN,          \* an async_write
                         live : BOOLEAN,           \* begun before the socket was dead
                         queue : Nat,              \* length of send_q_
                         closed : BOOLEAN,         \* closed_
                         sock : {"open", "closed"},
                         link : {"up", "reset"},
                         opened : BOOLEAN,         \* ws_onopen was called
                         onclose : Nat]]           \* calls of ws_onclose
  /\ ws_conns \subseteq Conns
  /\ ws_secure_conns \subseteq Conns
  /\ refused \subseteq Conns

\* Every socket has been asked for a WebSocket, and the 101 is on its way.
Init ==
  /\ stack = [t \in Threads |-> <<>>]
  /\ conn = [c \in Conns |->
       [upgrade |-> TRUE, read |-> FALSE, write |-> FALSE, live |-> FALSE,
        queue |-> 0, closed |-> FALSE, sock |-> "open", link |-> "up",
        opened |-> FALSE, onclose |-> 0]]
  /\ ws_conns = {}
  /\ ws_secure_conns = {}
  /\ refused = {}

-----------------------------------------------------------------------------
(* Stacks, references and mutexes *)

At(t, fn, c, at) == stack[t] # <<>> /\ Head(stack[t]) = Frame(fn, c, at)

\* The innermost frame of t gives way to these.
Becomes(t, frames) == stack' = [stack EXCEPT ![t] = frames \o Tail(@)]

\* The frames that hold a shared_ptr to their connection.
Refers(f) ==
  \/ f.fn \in {"create", "handle_read", "handle_write"}
  \/ f.fn \in Forwarders /\ f.at \notin {"find", "unlock"}

Referred(s, c) == \E i \in DOMAIN s : s[i].c = c /\ Refers(s[i])
Pending(c) == conn[c].read \/ conn[c].write

\* weak_ptr::lock succeeds.
Alive(c) == Pending(c) \/ \E t \in Threads : Referred(stack[t], c)

\* Mutant: the destructor does not stop().
Released_Bare(t, c) == <<>>

\* Thread t drops its reference: the last one destroys the connection, whose
\* destructor calls stop().
Released(t, c) ==
  IF \/ conn[c].closed \/ Pending(c) \/ Referred(Tail(stack[t]), c)
     \/ \E u \in Threads \ {t} : Referred(stack[u], c)
  THEN <<>>
  ELSE <<Frame("stop", c, "exchange")>>

\* Mutant: ws_onerror is called with the queue locked.
HoldsQueue_OnError(f, c) ==
  f.c = c /\ f.fn = "handle_write" /\ f.at \in {"ws_onerror", "return"}

\* The frames that hold ws_conns_mx_, and send_q_mx_ of c.
HoldsQueue(f, c) ==
  f.c = c /\ <<f.fn, f.at>> \in {<<"WSPush", "overflow">>, <<"handle_write", "return">>}
HoldsConns(f) == f.fn \in Forwarders /\ f.at # "find"

ConnsOwners == {t \in Threads : \E i \in DOMAIN stack[t] : HoldsConns(stack[t][i])}
QueueOwners(c) ==
  {t \in Threads : \E i \in DOMAIN stack[t] : HoldsQueue(stack[t][i], c)}

\* The owners that keep t from locking.
Against(t, owners) == IF Recursive THEN owners \ {t} ELSE owners

-----------------------------------------------------------------------------
(* _create_ws_connection and Start *)

\* The handler of the 101's write takes no error code: it runs on a lost link too.
HandshakeWritten(t, c) ==
  /\ stack[t] = <<>>
  /\ conn[c].upgrade
  /\ conn' = [conn EXCEPT ![c].upgrade = FALSE]
  /\ stack' = [stack EXCEPT ![t] = <<Frame("create", c, "insert")>>]
  /\ UNCHANGED <<maps, refused>>

\* Mutant: the session is not added.
WSAddSession_Forgets(t, c) ==
  /\ At(t, "create", c, "insert")
  /\ conn' = [conn EXCEPT ![c].opened = TRUE]
  /\ Becomes(t, <<Frame("create", c, "ws_onopen")>>)
  /\ UNCHANGED <<maps, refused>>

\* Then Start calls ws_onopen, from which the application learns the id.
WSAddSession(t, c) ==
  /\ At(t, "create", c, "insert")
  /\ Against(t, ConnsOwners) = {}
  /\ IF c \in Secure
     THEN ws_secure_conns' = ws_secure_conns \cup {c} /\ UNCHANGED ws_conns
     ELSE ws_conns' = ws_conns \cup {c} /\ UNCHANGED ws_secure_conns
  /\ conn' = [conn EXCEPT ![c].opened = TRUE]
  /\ Becomes(t, <<Frame("create", c, "ws_onopen")>>)
  /\ UNCHANGED refused

StartRead(t, c) ==
  /\ At(t, "create", c, "ws_onopen")
  /\ conn' = [conn EXCEPT ![c].read = TRUE]
  /\ Becomes(t, <<>>)
  /\ UNCHANGED <<maps, refused>>

-----------------------------------------------------------------------------
(* WSPush and WSClose *)

\* From a thread of the application, or from inside a callback; any number of
\* times, even for an id that is long gone.
Call(t) ==
  /\ stack[t] # <<>> => Head(stack[t]).at \in Calling
  /\ \E fn \in Forwarders, c \in Conns :
       /\ conn[c].opened
       /\ fn = "WSPush" => conn[c].queue < MaxQueue
       /\ stack' = [stack EXCEPT ![t] = <<Frame(fn, c, "find")>> \o @]
  /\ UNCHANGED <<conn, maps, refused>>

\* Mutant: connections above SSL are not searched.
Registered_Plain == ws_conns

\* First one map is searched, then the other.
Registered == ws_conns \cup ws_secure_conns

ws_forward(t, fn, c) ==
  /\ At(t, fn, c, "find")
  /\ Against(t, ConnsOwners) = {}

\* The reference that lock() gives is held until Forward has returned.
Forward(t, c) ==
  /\ c \in Registered /\ Alive(c)
  /\ \/ ws_forward(t, "WSPush", c) /\ Becomes(t, <<Frame("WSPush", c, "ws_onmessageout")>>)
     \/ /\ ws_forward(t, "WSClose", c)
        /\ Becomes(t, <<Frame("stop", c, "exchange"), Frame("WSClose", c, "release")>>)
  /\ UNCHANGED <<conn, maps, refused>>

\* The id is unknown, or its entry dead and erased: the call returns false.
Refuse(t, c) ==
  /\ ~(c \in Registered /\ Alive(c))
  /\ \E fn \in Forwarders : ws_forward(t, fn, c)
  /\ ws_conns' = ws_conns \ {c}
  /\ ws_secure_conns' = ws_secure_conns \ {c}
  /\ refused' = refused \cup {c}
  /\ Becomes(t, <<>>)
  /\ UNCHANGED conn

-----------------------------------------------------------------------------
(* write *)

Announced(t, c) ==
  /\ At(t, "WSPush", c, "ws_onmessageout")
  /\ Becomes(t, <<Frame("WSPush", c, "enqueue")>>)
  /\ UNCHANGED <<conn, maps, refused>>

\* Whatever is pending on such a socket completes, and not well unless it had
\* before.
Dead(c) == conn[c].link = "reset" \/ conn[c].sock = "closed"

\* A message alone in the queue starts the writing; closed_ is not asked.
WriteIfSingle(c, q) ==
  conn' = [conn EXCEPT ![c].queue = q, ![c].write = @ \/ q = 1,
                       ![c].live = @ \/ (q = 1 /\ ~Dead(c))]

Enqueue(t, c) ==
  /\ At(t, "WSPush", c, "enqueue")
  /\ Against(t, QueueOwners(c)) = {}
  /\ conn[c].queue < QMax
  /\ WriteIfSingle(c, conn[c].queue + 1)
  /\ Becomes(t, <<Frame("WSPush", c, "release")>>)
  /\ UNCHANGED <<maps, refused>>

EnqueueOverflow(t, c) ==
  /\ At(t, "WSPush", c, "enqueue")
  /\ Against(t, QueueOwners(c)) = {}
  /\ conn[c].queue >= QMax
  /\ conn' = [conn EXCEPT ![c].queue = @ + 1]
  /\ Becomes(t, <<Frame("stop", c, "exchange"), Frame("WSPush", c, "overflow")>>)
  /\ UNCHANGED <<maps, refused>>

Overflowed(t, c) ==
  /\ At(t, "WSPush", c, "overflow")
  /\ WriteIfSingle(c, conn[c].queue)
  /\ Becomes(t, <<Frame("WSPush", c, "release")>>)
  /\ UNCHANGED <<maps, refused>>

\* The end of ws_forward: conn_lck goes, then the lock.
Release(t, c) ==
  /\ \E fn \in Forwarders :
       /\ At(t, fn, c, "release")
       /\ Becomes(t, IF Released(t, c) = <<>> THEN <<>>
                     ELSE Released(t, c) \o <<Frame(fn, c, "unlock")>>)
  /\ UNCHANGED <<conn, maps, refused>>

Unlock(t, c) ==
  /\ \E fn \in Forwarders : At(t, fn, c, "unlock")
  /\ Becomes(t, <<>>)
  /\ UNCHANGED <<conn, maps, refused>>

-----------------------------------------------------------------------------
(* handle_read and handle_write *)

\* The client spoke, ended its half of the stream, or is lost; or stop() has
\* cancelled the read, which is not reported.
HandleRead(t, c) ==
  /\ stack[t] = <<>>
  /\ conn[c].read
  /\ conn' = [conn EXCEPT ![c].read = FALSE]
  /\ \E frames \in {<<Frame("handle_read", c, "ws_onerror")>>,
                    <<Frame("stop", c, "exchange"), Frame("handle_read", c, "return")>>} :
       stack' = [stack EXCEPT ![t] = frames]
  /\ UNCHANGED <<maps, refused>>

HandleWrite(t, c) ==
  /\ stack[t] = <<>>
  /\ conn[c].write
  /\ conn' = [conn EXCEPT ![c].write = FALSE, ![c].live = FALSE]
  /\ \E at \in (IF conn[c].live THEN {"dequeue"} ELSE {})
               \cup (IF Dead(c) THEN {"ws_onerror", "clear"} ELSE {}) :
       stack' = [stack EXCEPT ![t] = <<Frame("handle_write", c, at)>>]
  /\ UNCHANGED <<maps, refused>>

ReadReported(t, c) ==
  /\ At(t, "handle_read", c, "ws_onerror")
  /\ Becomes(t, <<Frame("stop", c, "exchange"), Frame("handle_read", c, "return")>>)
  /\ UNCHANGED <<conn, maps, refused>>

WriteReported(t, c) ==
  /\ At(t, "handle_write", c, "ws_onerror")
  /\ Becomes(t, <<Frame("handle_write", c, "clear")>>)
  /\ UNCHANGED <<conn, maps, refused>>

\* Mutant: the next write is started whether or not a message is left.
Dequeue_Always(t, c) ==
  /\ At(t, "handle_write", c, "dequeue")
  /\ Against(t, QueueOwners(c)) = {}
  /\ conn' = [conn EXCEPT ![c].queue = @ - 1, ![c].write = TRUE, ![c].live = ~Dead(c)]
  /\ Becomes(t, Released(t, c))
  /\ UNCHANGED <<maps, refused>>

Dequeue(t, c) ==
  /\ At(t, "handle_write", c, "dequeue")
  /\ Against(t, QueueOwners(c)) = {}
  /\ conn' = [conn EXCEPT ![c].queue = @ - 1, ![c].write = conn[c].queue > 1,
                          ![c].live = conn[c].queue > 1 /\ ~Dead(c)]
  /\ Becomes(t, IF conn[c].queue > 1 THEN <<>> ELSE Released(t, c))
  /\ UNCHANGED <<maps, refused>>

Clear(t, c) ==
  /\ At(t, "handle_write", c, "clear")
  /\ Against(t, QueueOwners(c)) = {}
  /\ conn' = [conn EXCEPT ![c].queue = 0]
  /\ Becomes(t, <<Frame("stop", c, "exchange"), Frame("handle_write", c, "return")>>)
  /\ UNCHANGED <<maps, refused>>

\* The end of a handler that has stopped the connection.
HandlerReturns(t, c) ==
  /\ \E fn \in {"handle_read", "handle_write"} : At(t, fn, c, "return")
  /\ Becomes(t, <<>>)
  /\ UNCHANGED <<conn, maps, refused>>

-----------------------------------------------------------------------------
(* stop, and callbacks that throw *)

StopFirst(t, c) ==
  /\ At(t, "stop", c, "exchange")
  /\ ~conn[c].closed
  /\ conn' = [conn EXCEPT ![c].closed = TRUE, ![c].onclose = @ + 1]
  /\ Becomes(t, <<Frame("stop", c, "ws_onclose")>>)
  /\ UNCHANGED <<maps, refused>>

StopAgain(t, c) ==
  /\ At(t, "stop", c, "exchange")
  /\ conn[c].closed
  /\ Becomes(t, <<>>)
  /\ UNCHANGED <<conn, maps, refused>>

\* _cancel, _shutdown and _close.
StopSocket(t, c) ==
  /\ At(t, "stop", c, "ws_onclose")
  /\ conn' = [conn EXCEPT ![c].sock = "closed"]
  /\ Becomes(t, <<>>)
  /\ UNCHANGED <<maps, refused>>

\* The method that called the callback is left: Start and the handlers drop
\* their reference, write() returns into ws_forward.
Throw(t, c) ==
  /\ \/ /\ "ws_onopen" \in Throwing
        /\ At(t, "create", c, "ws_onopen")
        /\ Becomes(t, Released(t, c))
     \/ /\ "ws_onerror" \in Throwing
        /\ \E fn \in {"handle_read", "handle_write"} : At(t, fn, c, "ws_onerror")
        /\ Becomes(t, Released(t, c))
     \/ /\ "ws_onmessageout" \in Throwing
        /\ At(t, "WSPush", c, "ws_onmessageout")
        /\ Becomes(t, <<Frame("WSPush", c, "release")>>)
  /\ UNCHANGED <<conn, maps, refused>>

-----------------------------------------------------------------------------

\* The system learns that the client is lost.  Of no consequence once the socket
\* is closed.
LinkFails(c) ==
  /\ ~Dead(c)
  /\ conn' = [conn EXCEPT ![c].link = "reset"]
  /\ UNCHANGED <<stack, maps, refused>>

\* The steps of a call that is under way.
Step(t, c) ==
  \/ WSAddSession(t, c) \/ StartRead(t, c)
  \/ Forward(t, c) \/ Refuse(t, c)
  \/ Announced(t, c) \/ Enqueue(t, c) \/ EnqueueOverflow(t, c) \/ Overflowed(t, c)
  \/ Release(t, c) \/ Unlock(t, c)
  \/ ReadReported(t, c) \/ WriteReported(t, c)
  \/ Dequeue(t, c) \/ Clear(t, c) \/ HandlerReturns(t, c)
  \/ StopFirst(t, c) \/ StopAgain(t, c) \/ StopSocket(t, c)
  \/ Throw(t, c)

Continue(t) == stack[t] # <<>> /\ Step(t, Head(stack[t]).c)

Handler(t, c) == HandshakeWritten(t, c) \/ HandleRead(t, c) \/ HandleWrite(t, c)

\* Nobody calls any more and nothing happens to the links.
Quiet == (\A t \in Threads : stack[t] = <<>>) /\ UNCHANGED vars

Next ==
  \/ \E t \in Threads : Continue(t)
  \/ \E t \in Threads, c \in Conns : Handler(t, c)
  \/ \E t \in Threads : Call(t)
  \/ \E c \in Conns : LinkFails(c)
  \/ Quiet

Spec == Init /\ [][Next]_vars

\* Threads go on, callbacks return, the pool runs completed handlers and the
\* operating system completes what is pending on a reset link or a closed
\* socket.  Nothing obliges the application to call, the client to speak or the
\* link to fail: the read from a client that vanished may be pending for ever.
Fairness ==
  /\ \A t \in Threads : WF_vars(Continue(t))
  /\ WF_vars(\E t \in Threads, c \in Conns :
       (conn[c].upgrade \/ Dead(c)) /\ Handler(t, c))

FairSpec == Spec /\ Fairness

\* What no implementation of mutexes and of the pool can better: a thread that
\* can go on again and again does, and so does a handler that can be run.
StrongFairness ==
  /\ \A t \in Threads : SF_vars(Continue(t))
  /\ \A c \in Conns : SF_vars(\E t \in Threads :
       (conn[c].upgrade \/ Dead(c)) /\ Handler(t, c))

StrongSpec == Spec /\ StrongFairness

-----------------------------------------------------------------------------
(* Properties *)

\* The threads that keep t from its next step.
WaitsFor(t) ==
  IF stack[t] = <<>> THEN {}
  ELSE LET f == Head(stack[t]) IN
    IF f.at \in {"insert", "find"} THEN Against(t, ConnsOwners)
    ELSE IF f.at \in {"enqueue", "dequeue", "clear"} THEN Against(t, QueueOwners(f.c))
    ELSE {}

\* "Through callbacks [...] WSConnection is able to give feedback to
\* WebServer": no threads wait for each other's mutexes, nor a thread for its
\* own, whatever connections push, overflow, fail and close at once and
\* wherever the callbacks of Calling push and close.
NoDeadlock ==
  \A S \in SUBSET Threads : S # {} => \E t \in S : WaitsFor(t) \cap S = {}

\* "Method 'WSAddSession' allows to manage all WSConnections from WebServer":
\* as long as a connection lives that the application was told of, a push or
\* close finds it, also from inside ws_onopen.
OpenIsRegistered ==
  \A c \in Conns : conn[c].opened /\ Alive(c) => c \in ws_conns \cup ws_secure_conns

\* A call that returns false is final: the connection is destroyed and
\* forgotten, and no later step brings it back.
RefusedIsGone ==
  \A c \in refused : ~Alive(c) /\ ~conn[c].upgrade /\ c \notin ws_conns \cup ws_secure_conns

\* Neither alive nor being destroyed.
Gone(c) ==
  ~Alive(c) /\ \A t \in Threads : \A i \in DOMAIN stack[t] : stack[t][i].c # c

\* ws_onclose is called once for every ws_onopen, and the socket of a
\* destroyed connection is closed, even if ws_onopen threw, the handshake was
\* never delivered or the application closed it before ws_onopen returned.
GoneIsAnnounced ==
  \A c \in Conns :
    /\ conn[c].onclose <= 1
    /\ conn[c].onclose = 1 => conn[c].opened
    /\ conn[c].opened /\ Gone(c) => conn[c].onclose = 1 /\ conn[c].sock = "closed"

\* The application's calls come to an end.
CallsEnd == <>[][\A t \in Threads : ~Call(t)]_vars

\* Once the application no longer calls, the server comes to rest again and again:
\* every WSPush and WSClose, every handler and every callback has returned, and a
\* connection whose client is known to be lost, one made although its 101 could
\* not be written among them, has been closed and destroyed.
ComesToRest ==
  CallsEnd =>
    []<>(/\ \A t \in Threads : stack[t] = <<>>
         /\ \A c \in Conns :
              conn[c].link = "reset" => Gone(c) /\ conn[c].onclose = 1)

-----------------------------------------------------------------------------
(* A statement of the repository that the code does not keep *)

\* handle_read of c has run and stopped it.
Ended(c) ==
  \E t \in Threads : stack[t] # <<>> /\ Head(stack[t]) = Frame("handle_read", c, "return")

\* ws_connection.h: "Any attempt of client to send message through this channel
\* leads to WSConnection stop and destruction", whatever the application does.
AttemptDestroys == \A c \in Conns : Ended(c) ~> ~Alive(c)
=============================================================================
