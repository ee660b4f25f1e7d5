--------------------------- MODULE AcceptorProofs ---------------------------
(***************************************************************************)
(* What holds of Acceptor for every set of threads and of clients and any  *)
(* number of failing accepts.                                              *)
(***************************************************************************)
EXTENDS AcceptorInv, FiniteSetTheorems, TLAPS

\* The accept chains start unbroken, with open acceptors and no handler.
LEMMA InitInv == ASSUME Init PROVE IInv
  <1>1. TypeOK
    <2>1. pool \subseteq Threads
      BY DEF Init
    <2>2. backlog \in [Protocols -> Seq(Clients)]
      BY DEF Init
    <2>3. /\ params \in [ip : Address, port : Address]
          /\ sock \in [Protocols -> Address]
      BY DEF Init, Address
    <2>4. errors \in 0 .. MaxErrors
      BY MaxErrorsAssumption DEF Init
    <2> QED
      BY <2>1, <2>2, <2>3, <2>4 DEF Init, TypeOK, Protocols, Steps, AcceptStates
  <1>2. \A p \in Protocols : Chain(p)
    BY DEF Init, Chain, Handling, Begun, Protocols
  <1>3. Calls /\ HasClient /\ Alone
    BY DEF Init, Calls, HasClient, Alone, OwnAddress, Handling, Protocols
  <1> QED
    BY <1>1, <1>2, <1>3 DEF IInv

\* No step leaves the types: a handler that has an address has a client.
LEMMA TypeStep == ASSUME IInv, [Next]_vars PROVE TypeOK'
  <1> USE DEF TypeOK, Protocols, Steps, AcceptStates, Address, appvars, netvars
  <1>1. TypeOK /\ HasClient
    BY DEF IInv
  <1>2. CASE Start
    BY <1>1, <1>2 DEF Start, AsyncAccept
  <1>3. CASE StartHttps
    BY <1>1, <1>3 DEF StartHttps, AsyncAccept
  <1>4. CASE Stop
    <2>1. backlog' \in [Protocols -> Seq(Clients)]
      BY <1>1, <1>4 DEF Stop, Close
    <2> QED
      BY <1>1, <1>4, <2>1 DEF Stop, Close
  <1>5. CASE StopHttps
    <2>1. backlog' \in [Protocols -> Seq(Clients)]
      BY <1>1, <1>5 DEF StopHttps, Close
    <2> QED
      BY <1>1, <1>5, <2>1 DEF StopHttps, Close
  <1>6. ASSUME NEW t \in Threads, SetIP(t) PROVE TypeOK'
    BY <1>1, <1>6 DEF SetIP, Goto, HasClient, Client
  <1>7. ASSUME NEW t \in Threads, SetPort(t) PROVE TypeOK'
    BY <1>1, <1>7 DEF SetPort, Goto, HasClient, Client
  <1>8. ASSUME NEW t \in Threads, Construct(t) PROVE TypeOK'
    BY <1>1, <1>8 DEF Construct, Goto, HasClient, Client
  <1>9. ASSUME NEW t \in Threads, Throw(t) PROVE TypeOK'
    BY <1>1, <1>9 DEF Throw, Goto, Drop
  <1>10. ASSUME NEW t \in Threads, AcceptNext(t) PROVE TypeOK'
    BY <1>1, <1>10 DEF AcceptNext, AsyncAccept, Goto, Drop
  <1>11. ASSUME NEW t \in Threads, NEW p \in Protocols, HandleAccept(t, p) PROVE TypeOK'
    <2>1. CASE opened[p]
      BY <1>1, <1>11, <2>1 DEF HandleAccept, Goto
    <2>2. CASE ~opened[p]
      <3>1. /\ accept' \in [Protocols -> AcceptStates]
            /\ sock' \in [Protocols -> Address]
            /\ pc' \in [Threads -> Steps]
            /\ chain' \in [Threads -> Protocols]
        BY <1>1, <1>11, <2>2 DEF HandleAccept, Goto, Drop
      <3> QED
        BY <1>1, <1>11, <3>1 DEF HandleAccept
    <2> QED
      BY <2>1, <2>2
  <1>12. ASSUME NEW c \in Clients, Reset(c) PROVE TypeOK'
    BY <1>1, <1>12 DEF Reset
  <1>13. ASSUME NEW c \in Clients, NEW p \in Protocols, Connect(c, p) PROVE TypeOK'
    BY <1>1, <1>13 DEF Connect
  <1>14. ASSUME NEW p \in Protocols, AcceptSucceeds(p) PROVE TypeOK'
    BY <1>1, <1>14 DEF AcceptSucceeds, Complete
  <1>15. ASSUME NEW p \in Protocols, AcceptFails(p) PROVE TypeOK'
    BY <1>1, <1>15, MaxErrorsAssumption DEF AcceptFails, Complete
  <1>16. ASSUME NEW p \in Protocols, AcceptAborted(p) PROVE TypeOK'
    BY <1>1, <1>16 DEF AcceptAborted, Complete
  <1>17. CASE UNCHANGED vars
    BY <1>1, <1>17 DEF vars
  <1> QED
    BY <1>2, <1>3, <1>4, <1>5, <1>6, <1>7, <1>8, <1>9, <1>10, <1>11, <1>12,
       <1>13, <1>14, <1>15, <1>16, <1>17 DEF Next, Handle

\* A chain never has two links and does not end while its acceptor is open.
LEMMA ChainStep == ASSUME IInv, [Next]_vars PROVE (\A q \in Protocols : Chain(q))'
  <1> USE DEF Chain, Calls, Handling, Begun, TypeOK, Protocols, Steps, AcceptStates, appvars, netvars
  <1>1. TypeOK /\ Calls /\ \A q \in Protocols : Chain(q)
    BY DEF IInv
  <1>2. CASE Start
    BY <1>1, <1>2 DEF Start, AsyncAccept
  <1>3. CASE StartHttps
    BY <1>1, <1>3 DEF StartHttps, AsyncAccept
  <1>4. CASE Stop
    BY <1>1, <1>4 DEF Stop, Close
  <1>5. CASE StopHttps
    BY <1>1, <1>5 DEF StopHttps, Close
  <1>6. ASSUME NEW t \in Threads, SetIP(t) PROVE (\A q \in Protocols : Chain(q))'
    BY <1>1, <1>6 DEF SetIP, Goto
  <1>7. ASSUME NEW t \in Threads, SetPort(t) PROVE (\A q \in Protocols : Chain(q))'
    BY <1>1, <1>7 DEF SetPort, Goto
  <1>8. ASSUME NEW t \in Threads, Construct(t) PROVE (\A q \in Protocols : Chain(q))'
    BY <1>1, <1>8 DEF Construct, Goto
  <1>9. ASSUME NEW t \in Threads, Throw(t) PROVE (\A q \in Protocols : Chain(q))'
    BY <1>1, <1>9 DEF Throw, Goto, Drop
  <1>10. ASSUME NEW t \in Threads, AcceptNext(t) PROVE (\A q \in Protocols : Chain(q))'
    BY <1>1, <1>10 DEF AcceptNext, AsyncAccept, Goto, Drop
  <1>11. ASSUME NEW t \in Threads, NEW p \in Protocols, HandleAccept(t, p) PROVE (\A q \in Protocols : Chain(q))'
    <2>1. CASE opened[p]
      <3>1. /\ t \in pool /\ pc[t] = "idle" /\ accept[p] \in {"ok", "error"}
            /\ accept' = [accept EXCEPT ![p] = "none"]
            /\ chain' = [chain EXCEPT ![t] = p]
            /\ \E step \in {"ip", "accept"} : pc' = [pc EXCEPT ![t] = step]
            /\ UNCHANGED <<call, started, opened, broken>>
        BY <1>11, <2>1 DEF HandleAccept, Goto
      <3>2. ASSUME NEW q \in Protocols, q # p PROVE Chain(q)'
        BY <1>1, <3>1, <3>2
      <3>3. /\ \A u \in Threads : ~Handling(u, p) /\ (Handling(u, p)' => u = t)
            /\ Handling(t, p)' /\ accept'[p] = "none"
        BY <1>1, <3>1
      <3>4. Chain(p)'
        BY <3>3
      <3> QED
        BY <3>2, <3>4
    <2>2. CASE ~opened[p]
      <3>1. /\ t \in pool /\ pc[t] = "idle" /\ accept[p] \in {"ok", "error"}
            /\ accept' = [accept EXCEPT ![p] = "none"]
            /\ chain' = [chain EXCEPT ![t] = p]
            /\ pc' = [pc EXCEPT ![t] = "idle"]
            /\ UNCHANGED <<call, started, opened, broken>>
        BY <1>11, <2>2 DEF HandleAccept, Goto
      <3> QED
        BY <1>1, <2>2, <3>1
    <2> QED
      BY <2>1, <2>2
  <1>12. ASSUME NEW c \in Clients, Reset(c) PROVE (\A q \in Protocols : Chain(q))'
    BY <1>1, <1>12 DEF Reset
  <1>13. ASSUME NEW c \in Clients, NEW p \in Protocols, Connect(c, p) PROVE (\A q \in Protocols : Chain(q))'
    BY <1>1, <1>13 DEF Connect
  <1>14. ASSUME NEW p \in Protocols, AcceptSucceeds(p) PROVE (\A q \in Protocols : Chain(q))'
    BY <1>1, <1>14 DEF AcceptSucceeds, Complete
  <1>15. ASSUME NEW p \in Protocols, AcceptFails(p) PROVE (\A q \in Protocols : Chain(q))'
    BY <1>1, <1>15 DEF AcceptFails, Complete
  <1>16. ASSUME NEW p \in Protocols, AcceptAborted(p) PROVE (\A q \in Protocols : Chain(q))'
    BY <1>1, <1>16 DEF AcceptAborted, Complete
  <1>17. CASE UNCHANGED vars
    BY <1>1, <1>17 DEF vars
  <1> QED
    BY <1>2, <1>3, <1>4, <1>5, <1>6, <1>7, <1>8, <1>9, <1>10, <1>11, <1>12,
       <1>13, <1>14, <1>15, <1>16, <1>17 DEF Next, Handle

\* Between the two halves of Start nothing happens to https.
LEMMA CallsStep == ASSUME IInv, [Next]_vars PROVE Calls'
  <1> USE DEF Calls, Handling, TypeOK, Protocols, Steps, AcceptStates, appvars, netvars
  <1>1. TypeOK /\ Calls
    BY DEF IInv
  <1>2. CASE Start
    BY <1>1, <1>2 DEF Start, AsyncAccept
  <1>3. CASE StartHttps
    BY <1>1, <1>3 DEF StartHttps, AsyncAccept
  <1>4. CASE Stop
    BY <1>1, <1>4 DEF Stop, Close
  <1>5. CASE StopHttps
    BY <1>1, <1>5 DEF StopHttps, Close
  <1>6. ASSUME NEW t \in Threads, SetIP(t) PROVE Calls'
    BY <1>1, <1>6 DEF SetIP, Goto
  <1>7. ASSUME NEW t \in Threads, SetPort(t) PROVE Calls'
    BY <1>1, <1>7 DEF SetPort, Goto
  <1>8. ASSUME NEW t \in Threads, Construct(t) PROVE Calls'
    BY <1>1, <1>8 DEF Construct, Goto
  <1>9. ASSUME NEW t \in Threads, Throw(t) PROVE Calls'
    BY <1>1, <1>9 DEF Throw, Goto, Drop
  <1>10. ASSUME NEW t \in Threads, AcceptNext(t) PROVE Calls'
    BY <1>1, <1>10 DEF AcceptNext, AsyncAccept, Goto, Drop
  <1>11. ASSUME NEW t \in Threads, NEW p \in Protocols, HandleAccept(t, p) PROVE Calls'
    BY <1>1, <1>11 DEF HandleAccept, Goto, Drop
  <1>12. ASSUME NEW c \in Clients, Reset(c) PROVE Calls'
    BY <1>1, <1>12 DEF Reset
  <1>13. ASSUME NEW c \in Clients, NEW p \in Protocols, Connect(c, p) PROVE Calls'
    BY <1>1, <1>13 DEF Connect
  <1>14. ASSUME NEW p \in Protocols, AcceptSucceeds(p) PROVE Calls'
    BY <1>1, <1>14 DEF AcceptSucceeds, Complete
  <1>15. ASSUME NEW p \in Protocols, AcceptFails(p) PROVE Calls'
    BY <1>1, <1>15 DEF AcceptFails, Complete
  <1>16. ASSUME NEW p \in Protocols, AcceptAborted(p) PROVE Calls'
    BY <1>1, <1>16 DEF AcceptAborted, Complete
  <1>17. CASE UNCHANGED vars
    BY <1>1, <1>17 DEF vars
  <1> QED
    BY <1>2, <1>3, <1>4, <1>5, <1>6, <1>7, <1>8, <1>9, <1>10, <1>11, <1>12,
       <1>13, <1>14, <1>15, <1>16, <1>17 DEF Next, Handle

\* No step takes the socket from a handler.
LEMMA HasClientStep == ASSUME IInv, [Next]_vars PROVE HasClient'
  <1> USE DEF HasClient, Client, Chain, Handling, TypeOK, Protocols, Steps, AcceptStates, Address, appvars, netvars
  <1>1. TypeOK /\ HasClient /\ \A q \in Protocols : Chain(q)
    BY DEF IInv
  <1>2. CASE Start
    BY <1>1, <1>2 DEF Start, AsyncAccept
  <1>3. CASE StartHttps
    BY <1>1, <1>3 DEF StartHttps, AsyncAccept
  <1>4. CASE Stop
    BY <1>1, <1>4 DEF Stop, Close
  <1>5. CASE StopHttps
    BY <1>1, <1>5 DEF StopHttps, Close
  <1>6. ASSUME NEW t \in Threads, SetIP(t) PROVE HasClient'
    BY <1>1, <1>6 DEF SetIP, Goto
  <1>7. ASSUME NEW t \in Threads, SetPort(t) PROVE HasClient'
    BY <1>1, <1>7 DEF SetPort, Goto
  <1>8. ASSUME NEW t \in Threads, Construct(t) PROVE HasClient'
    BY <1>1, <1>8 DEF Construct, Goto
  <1>9. ASSUME NEW t \in Threads, Throw(t) PROVE HasClient'
    BY <1>1, <1>9 DEF Throw, Goto, Drop
  <1>10. ASSUME NEW t \in Threads, AcceptNext(t) PROVE HasClient'
    BY <1>1, <1>10 DEF AcceptNext, AsyncAccept, Goto, Drop
  <1>11. ASSUME NEW t \in Threads, NEW p \in Protocols, HandleAccept(t, p) PROVE HasClient'
    BY <1>1, <1>11, ClientsAssumption DEF HandleAccept, Goto, Drop
  <1>12. ASSUME NEW c \in Clients, Reset(c) PROVE HasClient'
    BY <1>1, <1>12 DEF Reset
  <1>13. ASSUME NEW c \in Clients, NEW p \in Protocols, Connect(c, p) PROVE HasClient'
    BY <1>1, <1>13 DEF Connect
  <1>14. ASSUME NEW p \in Protocols, AcceptSucceeds(p) PROVE HasClient'
    BY <1>1, <1>14 DEF AcceptSucceeds, Complete
  <1>15. ASSUME NEW p \in Protocols, AcceptFails(p) PROVE HasClient'
    BY <1>1, <1>15 DEF AcceptFails, Complete
  <1>16. ASSUME NEW p \in Protocols, AcceptAborted(p) PROVE HasClient'
    BY <1>1, <1>16 DEF AcceptAborted, Complete
  <1>17. CASE UNCHANGED vars
    BY <1>1, <1>17 DEF vars
  <1> QED
    BY <1>2, <1>3, <1>4, <1>5, <1>6, <1>7, <1>8, <1>9, <1>10, <1>11, <1>12,
       <1>13, <1>14, <1>15, <1>16, <1>17 DEF Next, Handle

\* What the only thread has written into params_ stays there.
LEMMA AloneStep == ASSUME IInv, [Next]_vars PROVE Alone'
  <1> USE DEF Alone, OwnAddress, Client, Chain, Handling, TypeOK, Protocols, Steps, AcceptStates, Address, appvars, netvars
  <1>1. TypeOK /\ Alone /\ \A q \in Protocols : Chain(q)
    BY DEF IInv
  <1>2. CASE Start
    BY <1>1, <1>2 DEF Start, AsyncAccept
  <1>3. CASE StartHttps
    BY <1>1, <1>3 DEF StartHttps, AsyncAccept
  <1>4. CASE Stop
    BY <1>1, <1>4 DEF Stop, Close
  <1>5. CASE StopHttps
    BY <1>1, <1>5 DEF StopHttps, Close
  <1>6. ASSUME NEW t \in Threads, SetIP(t) PROVE Alone'
    BY <1>1, <1>6 DEF SetIP, Goto
  <1>7. ASSUME NEW t \in Threads, SetPort(t) PROVE Alone'
    BY <1>1, <1>7 DEF SetPort, Goto
  <1>8. ASSUME NEW t \in Threads, Construct(t) PROVE Alone'
    BY <1>1, <1>8 DEF Construct, Goto
  <1>9. ASSUME NEW t \in Threads, Throw(t) PROVE Alone'
    BY <1>1, <1>9 DEF Throw, Goto, Drop
  <1>10. ASSUME NEW t \in Threads, AcceptNext(t) PROVE Alone'
    BY <1>1, <1>10 DEF AcceptNext, AsyncAccept, Goto, Drop
  <1>11. ASSUME NEW t \in Threads, NEW p \in Protocols, HandleAccept(t, p) PROVE Alone'
    <2>1. CASE opened[p]
      <3>1. /\ t \in pool /\ pc[t] = "idle"
            /\ \E step \in {"ip", "accept"} : pc' = [pc EXCEPT ![t] = step]
            /\ chain' = [chain EXCEPT ![t] = p]
            /\ UNCHANGED <<pool, sock, params, conns>>
        BY <1>11, <2>1 DEF HandleAccept, Goto
      <3> QED
        BY <1>1, <3>1
    <2>2. CASE ~opened[p]
      <3>1. /\ t \in pool /\ pc[t] = "idle" /\ accept[p] # "none"
            /\ pc' = [pc EXCEPT ![t] = "idle"]
            /\ chain' = [chain EXCEPT ![t] = p]
            /\ sock' = [sock EXCEPT ![p] = NoClient]
            /\ UNCHANGED <<pool, params, conns>>
        BY <1>11, <2>2 DEF HandleAccept, Goto, Drop
      <3>2. pool = {t} => OwnAddress'
        BY <1>1, <3>1
      <3>3. \A w \in Threads : pool = {w} => w = t
        BY <3>1
      <3>4. pool = {t} => \A u \in Threads : pc'[u] = "idle"
        BY <1>1, <3>1
      <3> QED
        BY <3>1, <3>2, <3>3, <3>4
    <2> QED
      BY <2>1, <2>2
  <1>12. ASSUME NEW c \in Clients, Reset(c) PROVE Alone'
    BY <1>1, <1>12 DEF Reset
  <1>13. ASSUME NEW c \in Clients, NEW p \in Protocols, Connect(c, p) PROVE Alone'
    BY <1>1, <1>13 DEF Connect
  <1>14. ASSUME NEW p \in Protocols, AcceptSucceeds(p) PROVE Alone'
    BY <1>1, <1>14 DEF AcceptSucceeds, Complete
  <1>15. ASSUME NEW p \in Protocols, AcceptFails(p) PROVE Alone'
    BY <1>1, <1>15 DEF AcceptFails, Complete
  <1>16. ASSUME NEW p \in Protocols, AcceptAborted(p) PROVE Alone'
    BY <1>1, <1>16 DEF AcceptAborted, Complete
  <1>17. CASE UNCHANGED vars
    BY <1>1, <1>17 DEF vars
  <1> QED
    BY <1>2, <1>3, <1>4, <1>5, <1>6, <1>7, <1>8, <1>9, <1>10, <1>11, <1>12,
       <1>13, <1>14, <1>15, <1>16, <1>17 DEF Next, Handle

\* Every step preserves the invariant.
LEMMA InvStep == ASSUME IInv, [Next]_vars PROVE IInv'
  BY TypeStep, ChainStep, CallsStep, HasClientStep, AloneStep DEF IInv

\* The invariant holds in every reachable state, wherever Stop, failing accepts,
\* resets and exceptions fall.
THEOREM Invariance == Spec => []IInv
  BY InitInv, InvStep, PTL DEF Spec

\* Every variable of the accept chains keeps its type.
THEOREM TypeCorrect == Spec => []TypeOK
  <1>1. IInv => TypeOK
    BY DEF IInv
  <1> QED
    BY <1>1, Invariance, PTL

\* The links of a chain are none, its accept or one thread.
LEMMA OneLinkHolds == ASSUME IInv PROVE OneLink
  <1> SUFFICES ASSUME NEW p \in Protocols
               PROVE  /\ Cardinality(Links(p)) <= 1
                      /\ Begun(p) /\ opened[p] /\ p \notin broken => Links(p) # {}
    BY DEF OneLink
  <1>1. Chain(p)
    BY DEF IInv
  <1>2. Links(p) = {} \/ \E x : Links(p) = {x}
    <2>1. CASE accept[p] # "none"
      BY <1>1, <2>1 DEF Chain, Links, Handling
    <2>2. CASE accept[p] = "none"
      BY <1>1, <2>2 DEF Chain, Links, Handling
    <2> QED
      BY <2>1, <2>2
  <1>3. Cardinality(Links(p)) <= 1
    BY <1>2, FS_EmptySet, FS_Singleton, SMTT(30)
  <1>4. Begun(p) /\ opened[p] /\ p \notin broken => Links(p) # {}
    BY <1>1 DEF Chain, Links, Handling
  <1> QED
    BY <1>3, <1>4

\* do_accept_http and do_accept_https: an open acceptor whose handlers have not
\* thrown always has one accept or one handler under way, never two.
THEOREM OneLinkAlways == Spec => []OneLink
  BY Invariance, OneLinkHolds, PTL

\* A pool of one thread names that thread.
LEMMA OwnAddressHolds == ASSUME IInv PROVE OwnAddressInOneThread
  <1> SUFFICES ASSUME Cardinality(pool) = 1 PROVE OwnAddress
    BY DEF OwnAddressInOneThread
  <1>1. pool \subseteq Threads /\ IsFiniteSet(pool)
    BY ThreadsAssumption, FS_Subset DEF IInv, TypeOK
  <1>2. PICK w : pool = {w}
    BY <1>1, FS_Singleton
  <1> QED
    BY <1>1, <1>2 DEF IInv, Alone

\* With one thread in acceptor_service every connection gets the address of its
\* own client through the shared params_.
THEOREM OwnAddressAlone == Spec => []OwnAddressInOneThread
  BY Invariance, OwnAddressHolds, PTL
=============================================================================
