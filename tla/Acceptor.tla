------------------------------ MODULE Acceptor ------------------------------
(***************************************************************************)
(* The accept chains of WebServer (webserver.cpp): do_accept_http and      *)
(* do_accept_https, each an async_accept whose handler starts the next,    *)
(* the threads of acceptor_service that run the handlers, the thread that  *)
(* calls Start and Stop, and the clients that connect.                     *)
(*                                                                         *)
(* The two chains are the same code but for the socket type and share      *)
(* params_, into which each handler writes its client's address before it  *)
(* copies it into the new HTTPConnection.  Every access to params_ and to  *)
(* the acceptor is a step of its own: Stop and the other chain may run     *)
(* between any two of them.                                                *)
(***************************************************************************)
EXTENDS Naturals, Sequences, FiniteSets

CONSTANTS
  Threads,    \* threads that may run acceptor_service
  Clients,
  NoClient,   \* nobody's address
  MaxErrors   \* bound on the accepts that fail on an open acceptor

ASSUME ClientsAssumption == NoClient \notin Clients
ASSUME ThreadsAssumption == IsFiniteSet(Threads)
ASSUME MaxErrorsAssumption == MaxErrors \in Nat

Protocols == {"http", "https"}

VARIABLES
  pool,      \* the threads that do run acceptor_service
  call,      \* what the controlling thread is in: Start, Stop or "none"
  opened,    \* the acceptor of each protocol is open
  accept,    \* the async_accept of each protocol
  sock,      \* the client a completed accept or a handler has the socket of
  pc,        \* the next step of each thread
  chain,     \* the protocol whose handler each thread runs
  params,    \* params_.remote_ip and params_.remote_port: whose they are
  conns,     \* the connections made: [client, ip, port]
  backlog,   \* clients the system has connected and no accept has taken
  reset,     \* clients that have broken their connection
  errors,    \* number of accepts that failed on an open acceptor
  started,   \* Start was called, and Stop not since
  broken     \* the protocols whose handler an exception has left

appvars == <<call, started>>
netvars == <<backlog, reset, errors>>
vars == <<pool, appvars, opened, accept, sock, pc, chain, params, conns,
          netvars, broken>>

Steps == {"idle", "ip", "port", "construct", "accept"}
AcceptStates == {"none", "pending", "ok", "error"}
Address == Clients \cup {NoClient}

\* The constructor has opened the acceptors.
Init ==
  /\ pool \in SUBSET Threads \ {{}}
  /\ call = "none"
  /\ opened = [p \in Protocols |-> TRUE]
  /\ accept = [p \in Protocols |-> "none"]
  /\ sock = [p \in Protocols |-> NoClient]
  /\ pc = [t \in Threads |-> "idle"]
  /\ chain = [t \in Threads |-> "http"]
  /\ params = [ip |-> NoClient, port |-> NoClient]
  /\ conns = {}
  /\ backlog = [p \in Protocols |-> <<>>]
  /\ reset = {}
  /\ errors = 0
  /\ started = FALSE
  /\ broken = {}

-----------------------------------------------------------------------------
(* Start, Stop: http first, then https *)

AsyncAccept(p) == accept' = [accept EXCEPT ![p] = "pending"]

\* The application starts only what is not started and has come to rest.
Start ==
  /\ call = "none" /\ ~started
  /\ \A p \in Protocols : accept[p] = "none"
  /\ \A t \in Threads : pc[t] = "idle"
  /\ call' = "Start"
  /\ started' = TRUE
  /\ AsyncAccept("http")
  /\ UNCHANGED <<pool, opened, sock, pc, chain, params, conns, netvars, broken>>

StartHttps ==
  /\ call = "Start"
  /\ call' = "none"
  /\ AsyncAccept("https")
  /\ UNCHANGED <<pool, started, opened, sock, pc, chain, params, conns, netvars,
                 broken>>

Close(p) ==
  /\ opened' = [opened EXCEPT ![p] = FALSE]
  /\ backlog' = [backlog EXCEPT ![p] = <<>>]
  /\ UNCHANGED <<pool, accept, sock, pc, chain, params, conns, reset, errors, broken>>

Stop ==
  /\ call = "none" /\ started
  /\ call' = "Stop"
  /\ started' = FALSE
  /\ Close("http")

StopHttps ==
  /\ call = "Stop"
  /\ call' = "none"
  /\ UNCHANGED started
  /\ Close("https")

-----------------------------------------------------------------------------
(* The handler of async_accept *)

Goto(t, step) == pc' = [pc EXCEPT ![t] = step]
Drop(p) == sock' = [sock EXCEPT ![p] = NoClient]

\* Mutant: an accept that failed ends the chain.
HandleAccept_ReturnsOnError(t, p) ==
  /\ t \in pool /\ pc[t] = "idle"
  /\ accept[p] \in {"ok", "error"}
  /\ accept' = [accept EXCEPT ![p] = "none"]
  /\ chain' = [chain EXCEPT ![t] = p]
  /\ Goto(t, IF ~opened[p] \/ accept[p] = "error" THEN "idle" ELSE "ip")
  /\ UNCHANGED <<pool, appvars, opened, sock, params, conns, netvars, broken>>

\* Mutant: the handler takes a failed accept for a client.
HandleAccept_IgnoresError(t, p) ==
  /\ t \in pool /\ pc[t] = "idle"
  /\ accept[p] \in {"ok", "error"}
  /\ accept' = [accept EXCEPT ![p] = "none"]
  /\ chain' = [chain EXCEPT ![t] = p]
  /\ Goto(t, IF opened[p] THEN "ip" ELSE "idle")
  /\ UNCHANGED <<pool, appvars, opened, sock, params, conns, netvars, broken>>

\* Mutant: the handler does not ask whether the acceptor is open.
HandleAccept_Unasked(t, p) ==
  /\ t \in pool /\ pc[t] = "idle"
  /\ accept[p] \in {"ok", "error"}
  /\ accept' = [accept EXCEPT ![p] = "none"]
  /\ chain' = [chain EXCEPT ![t] = p]
  /\ Goto(t, IF accept[p] = "ok" THEN "ip" ELSE "accept")
  /\ UNCHANGED <<pool, appvars, opened, sock, params, conns, netvars, broken>>

\* The handler returns when the acceptor is closed, and skips a failed accept.
HandleAccept(t, p) ==
  /\ t \in pool /\ pc[t] = "idle"
  /\ accept[p] \in {"ok", "error"}
  /\ accept' = [accept EXCEPT ![p] = "none"]
  /\ chain' = [chain EXCEPT ![t] = p]
  /\ IF opened[p]
     THEN Goto(t, IF accept[p] = "ok" THEN "ip" ELSE "accept") /\ UNCHANGED sock
     ELSE Goto(t, "idle") /\ Drop(p)
  /\ UNCHANGED <<pool, appvars, opened, params, conns, netvars, broken>>

Client(t) == sock[chain[t]]

\* remote_endpoint() of a socket that is connected.
RemoteEndpoint(t) == Client(t) \notin reset

\* Mutant: the address is not written.
SetIP_Forgets(t) ==
  /\ pc[t] = "ip"
  /\ RemoteEndpoint(t)
  /\ Goto(t, "port")
  /\ UNCHANGED <<pool, appvars, opened, accept, sock, chain, params, conns, netvars, broken>>

SetIP(t) ==
  /\ pc[t] = "ip"
  /\ RemoteEndpoint(t)
  /\ params' = [params EXCEPT !.ip = Client(t)]
  /\ Goto(t, "port")
  /\ UNCHANGED <<pool, appvars, opened, accept, sock, chain, conns, netvars, broken>>

SetPort(t) ==
  /\ pc[t] = "port"
  /\ RemoteEndpoint(t)
  /\ params' = [params EXCEPT !.port = Client(t)]
  /\ Goto(t, "construct")
  /\ UNCHANGED <<pool, appvars, opened, accept, sock, chain, conns, netvars, broken>>

\* The connection takes a copy of params_ and starts.
Construct(t) ==
  /\ pc[t] = "construct"
  /\ conns' = conns \cup
       {[client |-> Client(t), ip |-> params.ip, port |-> params.port]}
  /\ Goto(t, "accept")
  /\ UNCHANGED <<pool, appvars, opened, accept, sock, chain, params, netvars, broken>>

\* remote_endpoint() throws for a broken connection; http_bridge_creator_ and
\* Start may throw for reasons of their own.  Nothing catches it, and the rest
\* of the handler is not run.
Throw(t) ==
  /\ \/ pc[t] \in {"ip", "port"} /\ ~RemoteEndpoint(t)
     \/ pc[t] = "construct"
  /\ broken' = broken \cup {chain[t]}
  /\ Goto(t, "idle") /\ Drop(chain[t])
  /\ UNCHANGED <<pool, appvars, opened, accept, chain, params, conns, netvars>>

\* Mutant: the handler ends with the connection it made.
AcceptNext_Skips(t) ==
  /\ pc[t] = "accept"
  /\ Goto(t, "idle")
  /\ UNCHANGED <<pool, appvars, opened, accept, sock, chain, params, conns, netvars, broken>>

AcceptNext(t) ==
  /\ pc[t] = "accept"
  /\ AsyncAccept(chain[t])
  /\ Goto(t, "idle") /\ Drop(chain[t])
  /\ UNCHANGED <<pool, appvars, opened, chain, params, conns, netvars, broken>>

Handle(t) ==
  SetIP(t) \/ SetPort(t) \/ Construct(t) \/ Throw(t) \/ AcceptNext(t)

-----------------------------------------------------------------------------
(* The clients and the system *)

InBacklog(c, p) == \E i \in DOMAIN backlog[p] : backlog[p][i] = c
Waiting(c) == \E p \in Protocols : InBacklog(c, p) \/ sock[p] = c
Served(c) == \E k \in conns : k.client = c

Connect(c, p) ==
  /\ opened[p]
  /\ ~Waiting(c) /\ ~Served(c) /\ c \notin reset
  /\ backlog' = [backlog EXCEPT ![p] = Append(@, c)]
  /\ UNCHANGED <<pool, appvars, opened, accept, sock, pc, chain, params, conns,
                 reset, errors, broken>>

Reset(c) ==
  /\ Waiting(c) /\ ~Served(c) /\ c \notin reset
  /\ reset' = reset \cup {c}
  /\ UNCHANGED <<pool, appvars, opened, accept, sock, pc, chain, params, conns,
                 backlog, errors, broken>>

Complete(p, result) ==
  /\ accept[p] = "pending"
  /\ accept' = [accept EXCEPT ![p] = result]
  /\ UNCHANGED <<pool, appvars, opened, pc, chain, params, conns, reset, broken>>

AcceptSucceeds(p) ==
  /\ opened[p] /\ backlog[p] # <<>>
  /\ sock' = [sock EXCEPT ![p] = Head(backlog[p])]
  /\ backlog' = [backlog EXCEPT ![p] = Tail(backlog[p])]
  /\ UNCHANGED errors
  /\ Complete(p, "ok")

AcceptFails(p) ==
  /\ opened[p] /\ errors < MaxErrors
  /\ errors' = errors + 1
  /\ UNCHANGED <<sock, backlog>>
  /\ Complete(p, "error")

\* operation_aborted, or a bad descriptor when the acceptor was closed before.
AcceptAborted(p) ==
  /\ ~opened[p]
  /\ UNCHANGED <<sock, backlog, errors>>
  /\ Complete(p, "error")

Next ==
  \/ Start \/ StartHttps \/ Stop \/ StopHttps
  \/ \E t \in Threads : Handle(t) \/ \E p \in Protocols : HandleAccept(t, p)
  \/ \E c \in Clients : Reset(c) \/ \E p \in Protocols : Connect(c, p)
  \/ \E p \in Protocols : AcceptSucceeds(p) \/ AcceptFails(p) \/ AcceptAborted(p)

Spec == Init /\ [][Next]_vars

\* A handler that runs keeps running, the pool runs completed handlers and the
\* system completes what it can; no client need connect, nobody need stop.
Fairness ==
  /\ WF_vars(StartHttps) /\ WF_vars(StopHttps)
  /\ \A t \in Threads : WF_vars(Handle(t))
  /\ \A p \in Protocols :
       /\ WF_vars(\E t \in Threads : HandleAccept(t, p))
       /\ WF_vars(AcceptSucceeds(p) \/ AcceptFails(p))
       /\ WF_vars(AcceptAborted(p))

FairSpec == Spec /\ Fairness

-----------------------------------------------------------------------------
(* Properties *)

TypeOK ==
  /\ pool \subseteq Threads
  /\ call \in {"none", "Start", "Stop"}
  /\ opened \in [Protocols -> BOOLEAN]
  /\ accept \in [Protocols -> AcceptStates]
  /\ sock \in [Protocols -> Address]
  /\ pc \in [Threads -> Steps]
  /\ chain \in [Threads -> Protocols]
  /\ params \in [ip : Address, port : Address]
  /\ conns \subseteq [client : Clients, ip : Address, port : Address]
  /\ backlog \in [Protocols -> Seq(Clients)]
  /\ reset \subseteq Clients
  /\ errors \in 0 .. MaxErrors
  /\ started \in BOOLEAN
  /\ broken \subseteq Protocols

\* The links of a chain: the accept and the handlers that are to start one.
Links(p) ==
  (IF accept[p] = "none" THEN {} ELSE {"accept"})
    \cup {t \in Threads : pc[t] # "idle" /\ chain[t] = p}
Begun(p) == started /\ ~(p = "https" /\ call = "Start")

\* While an acceptor is open its chain has exactly one link, whatever accepts
\* fail and wherever Stop falls: with two links two handlers of a protocol
\* would run at once, with none nobody would be served.
OneLink ==
  \A p \in Protocols :
    /\ Cardinality(Links(p)) <= 1
    /\ Begun(p) /\ opened[p] /\ p \notin broken => Links(p) # {}

\* params_ brings the address of the client from the socket to its requests:
\* when one thread runs acceptor_service every connection has the address of
\* its own client.
OwnAddress == \A k \in conns : k.ip = k.client /\ k.port = k.client
OwnAddressInOneThread == Cardinality(pool) = 1 => OwnAddress

\* A client that is connected is served, unless Stop or an exception comes
\* between.
ClientsAreServed ==
  \A c \in Clients : \A p \in Protocols :
    (Begun(p) /\ InBacklog(c, p)) ~> (~opened[p] \/ p \in broken \/ Served(c))

\* After Stop both chains end and leave acceptor_service without work.
StopEndsChains ==
  (\A p \in Protocols : ~opened[p]) ~> (\A p \in Protocols : Links(p) = {})

\* "process next http connection": the handler of an open acceptor always
\* starts the next accept.
ChainNeverBreaks ==
  \A p \in Protocols : Begun(p) /\ opened[p] => Links(p) # {}
=============================================================================
