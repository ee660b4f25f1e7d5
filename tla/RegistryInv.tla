---------------------------- MODULE RegistryInv ----------------------------
(***************************************************************************)
(* Why Registry keeps its safety properties: an invariant that its steps   *)
(* preserve, in parts.  RegistryProofs proves that they do.                *)
(***************************************************************************)
EXTENDS Registry, Integers

Frames == [fn : Methods, c : Conns, at : Places]

ConnType == [upgrade : BOOLEAN, read : BOOLEAN, write : BOOLEAN, live : BOOLEAN,
             queue : Int, closed : BOOLEAN, sock : {"open", "closed"},
             link : {"up", "reset"}, opened : BOOLEAN, onclose : Nat]

\* The types, except that a queue has no negative length.
Typed ==
  /\ stack \in [Threads -> Seq(Frames)]
  /\ conn \in [Conns -> ConnType]
  /\ ws_conns \subseteq Conns
  /\ ws_secure_conns \subseteq Conns
  /\ refused \subseteq Conns

\* Which method is at which place.
Fits(f) ==
  /\ f.at \in {"insert", "ws_onopen"} => f.fn = "create"
  /\ f.at = "ws_onerror" => f.fn \in {"handle_read", "handle_write"}
  /\ f.at \in {"dequeue", "clear"} => f.fn = "handle_write"
  /\ f.fn = "stop" => f.at \in {"exchange", "ws_onclose"}

\* Handlers are at the bottom of a stack.
Stacked(s) ==
  \A i \in DOMAIN s :
    Fits(s[i]) /\ (s[i].fn \in {"create", "handle_read", "handle_write"} => i = Len(s))

\* When the application calls from ws_onopen and ws_onerror only, these are the
\* places of all frames below the innermost one and its stop().
CallsLast(s) ==
  \A i \in 2 .. Len(s) :
    /\ s[i].fn # "stop"
    /\ s[i].at \in {"ws_onopen", "ws_onerror"} \/ (i = 2 /\ s[1].fn = "stop")

\* Between the handover and the first callback nobody knows the id; calls are
\* for connections that the application was told of.
Known(c) ==
  /\ conn[c].upgrade => ~conn[c].opened
  /\ \A t \in Threads : \A i \in DOMAIN stack[t] :
       stack[t][i].c = c =>
         /\ stack[t][i].fn = "create" => ~conn[c].upgrade
         /\ stack[t][i].fn \in Forwarders => conn[c].opened

\* A handler of async_write that has not yet taken its message out of the queue.
Writing(f, c) ==
  f.c = c /\ f.fn = "handle_write" /\ f.at \in {"dequeue", "ws_onerror", "clear"}

\* The message being written is at the front of the queue, until its handler, of
\* which there is one at a time, takes it out.
Queued(c) ==
  /\ conn[c].queue >= 0
  /\ conn[c].write => conn[c].queue >= 1
  /\ \A t \in Threads : \A i \in DOMAIN stack[t] :
       /\ Writing(stack[t][i], c) =>
            /\ conn[c].queue >= 1
            /\ ~conn[c].write
            /\ \A u \in Threads \ {t} : \A j \in DOMAIN stack[u] : ~Writing(stack[u][j], c)
       /\ stack[t][i] = Frame("WSPush", c, "overflow") => conn[c].queue >= 2

OnStack(f) == \E t \in Threads : \E i \in DOMAIN stack[t] : stack[t][i] = f

\* Until a connection is closed somebody refers to it or is about to stop it,
\* the handlers that stop it included; until its socket is, stop() is under way.
Closes(c) ==
  /\ conn[c].onclose = IF conn[c].closed THEN 1 ELSE 0
  /\ conn[c].closed \/ Pending(c) => conn[c].opened
  /\ \A t \in Threads : \A i \in DOMAIN stack[t] :
       stack[t][i].c = c =>
         /\ conn[c].opened \/ stack[t][i].at = "insert"
         /\ stack[t][i].at = "return" =>
              conn[c].closed \/ (i = 2 /\ stack[t][1] = Frame("stop", c, "exchange"))
  /\ conn[c].opened /\ ~conn[c].closed => Alive(c) \/ OnStack(Frame("stop", c, "exchange"))
  /\ conn[c].closed /\ conn[c].sock = "open" => OnStack(Frame("stop", c, "ws_onclose"))

IInv ==
  /\ Typed
  /\ \A t \in Threads : Stacked(stack[t])
  /\ \A c \in Conns : Known(c) /\ Queued(c) /\ Closes(c)
  /\ OpenIsRegistered
  /\ RefusedIsGone
=============================================================================
