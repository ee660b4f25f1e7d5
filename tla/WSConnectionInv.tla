-------------------------- MODULE WSConnectionInv --------------------------
(***************************************************************************)
(* The inductive invariant behind the safety properties of WSConnection.   *)
(* None of the properties is inductive by itself: each depends on who      *)
(* holds the two mutexes, on how far the one thread in stop() has come and *)
(* on which handler keeps the connection alive.                            *)
(***************************************************************************)
EXTENDS WSConnection

\* The steps at which a thread is inside stop() or has just left it.
InStop == {"stop", "return"} \cup StopSteps

\* Which call a step belongs to, which mutex the call holds there and, in
\* WSPush, that the message it carries is the latest.
Control ==
  \A t \in Threads :
    /\ pc[t] = "idle" <=> op[t] = "none"
    /\ pc[t] \in {"onopen", "async_read"} <=> op[t] = "Start"
    /\ pc[t] = "write" => op[t] = "WSPush" /\ pushed > 0 /\ arg[t] = pushed
    /\ pc[t] \in {"dequeue", "clear"} => op[t] = "handle_write"
    /\ op[t] = "WSPush" => pc[t] \in InStop \cup {"write"}
    /\ op[t] = "handle_write" => pc[t] \in InStop \cup {"dequeue", "clear"}
    /\ op[t] \in {"WSClose", "handle_read"} => pc[t] \in InStop
    /\ ws_conns_mx = t <=> op[t] \in {"WSPush", "WSClose"}
    /\ send_q_mx = t <=> op[t] \in {"WSPush", "handle_write"} /\ pc[t] \in InStop

\* closed_ is set by the one thread that runs the body of stop(), and the
\* socket is as far closed as that thread has come.
Stopping ==
  /\ \A t, u \in Threads : pc[t] \in StopSteps /\ pc[u] \in StopSteps => t = u
  /\ \A t \in Threads :
       /\ pc[t] \in StopSteps \cup {"return"} => closed
       /\ pc[t] \in {"onclose", "cancel"} => sock = "open"
       /\ pc[t] = "shutdown" => sock = "cancelled"
       /\ pc[t] = "close" => sock = "shutdown"
       /\ pc[t] = "onclose" => onclose = 0
       /\ pc[t] \in {"cancel", "shutdown", "close"} => onclose = 1
  /\ ~closed => sock = "open" /\ onclose = 0
  /\ closed /\ (\A t \in Threads : pc[t] \notin StopSteps)
       => sock = "closed" /\ onclose = 1

\* Until closed_ is set the read that Start begins keeps the connection alive.
Guarded ==
  ~closed => \/ read_op # "none"
             \/ \E t \in Threads : op[t] \in {"Start", "handle_read"}

\* WriterServesQueue, message by message and thread by thread.
NoWrite == \A m \in Msg : write_op[m] = "none"
NoCompletion == \A t \in Threads : pc[t] \notin {"dequeue", "clear"}
Writer ==
  IF send_q = <<>>
  THEN NoWrite /\ NoCompletion
  ELSE \/ /\ \A m \in Msg : write_op[m] # "none" <=> m = Head(send_q)
          /\ NoCompletion
       \/ /\ NoWrite
          /\ \E t \in Threads : \A u \in Threads :
               pc[u] \in {"dequeue", "clear"} <=> u = t

\* A thread that overflowed the queue holds the mutex, so that the queue keeps
\* its length and the last test of write() fails; and somebody stops a
\* connection whose queue is too long.
Overflowing ==
  /\ \A t \in Threads :
       op[t] = "WSPush" /\ pc[t] \in InStop => Len(send_q) # 1
  /\ Len(send_q) > QMax =>
       closed \/ \E t \in Threads : op[t] = "WSPush" /\ pc[t] = "stop"

\* Number of messages that have reached the queue.
Enqueued == IF Carried = {} THEN pushed ELSE pushed - 1

\* The queue holds the latest messages, in order; the wire has none of those
\* the queue still has to send.
Order ==
  /\ Len(send_q) <= Enqueued
  /\ \A i \in 1 .. Len(send_q) : send_q[i] = (Enqueued - Len(send_q)) + i
  /\ \A i \in 1 .. Len(wire) : wire[i] <= Enqueued - Unsent

\* A write fails only on a dead link or a socket that is being stopped.
NoSpuriousError ==
  sock = "open" /\ link = "up" =>
    /\ \A m \in Msg : write_op[m] \notin {"error", "aborted"}
    /\ \A t \in Threads : pc[t] # "clear"

IInv ==
  /\ TypeOK /\ Control /\ Stopping /\ Guarded
  /\ Writer /\ Overflowing
  /\ NoSpuriousError /\ Order /\ StreamIsPrefix /\ StreamInOrder /\ NothingLost
=============================================================================
