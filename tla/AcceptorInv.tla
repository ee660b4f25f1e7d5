----------------------------- MODULE AcceptorInv -----------------------------
(***************************************************************************)
(* Why Acceptor keeps its safety properties: an invariant that its steps   *)
(* preserve, in parts.  AcceptorProofs proves that they do.                *)
(***************************************************************************)
EXTENDS Acceptor

Handling(t, p) == pc[t] # "idle" /\ chain[t] = p

\* A chain is an accept or one handler; https has none before it is started.
Chain(p) ==
  /\ accept[p] # "none" => \A t \in Threads : ~Handling(t, p)
  /\ \A t, u \in Threads : Handling(t, p) /\ Handling(u, p) => t = u
  /\ Begun(p) /\ opened[p] /\ p \notin broken =>
       accept[p] # "none" \/ \E t \in Threads : Handling(t, p)
Calls ==
  /\ call = "Start" => started /\ accept["https"] = "none"
                       /\ \A t \in Threads : ~Handling(t, "https")
  /\ call = "Stop" => ~started

\* The socket stays with the handler that it was accepted for.
HasClient ==
  /\ \A p \in Protocols : accept[p] = "ok" => sock[p] \in Clients
  /\ \A t \in Threads : pc[t] \in {"ip", "port", "construct"} => Client(t) \in Clients

\* The thread that has written params_ finds there what it wrote.
Alone ==
  \A w \in Threads : pool = {w} =>
    /\ \A t \in Threads : pc[t] # "idle" => t = w
    /\ pc[w] \in {"port", "construct"} => params.ip = Client(w)
    /\ pc[w] = "construct" => params.port = Client(w)
    /\ OwnAddress

IInv ==
  /\ TypeOK
  /\ \A p \in Protocols : Chain(p)
  /\ Calls
  /\ HasClient
  /\ Alone
=============================================================================
