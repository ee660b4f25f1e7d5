------------------------- MODULE WSConnectionProofs -------------------------
(***************************************************************************)
(* IInv is an inductive invariant of WSConnection for every set of         *)
(* threads, queue limit and number of messages, and implies its safety     *)
(* properties.  One lemma per conjunct says that a step preserves it; the  *)
(* conjuncts about the stream of messages go through StreamStep, which     *)
(* keeps of a step only what it does to the queue, the wire and the two    *)
(* quantities Enqueued and Unsent.                                         *)
(***************************************************************************)
EXTENDS WSConnectionInv, TLAPS

-----------------------------------------------------------------------------
(* Types, control and stop() *)

\* A step of the connection keeps every variable in its type.
LEMMA TypeOKStep == ASSUME IInv, [Next]_vars PROVE TypeOK'
<1> USE ThreadsAssumption, QMaxAssumption, MaxMsgsAssumption
       DEF IInv, TypeOK, Msg, Steps, StopSteps, Calls, OpStates, Completed, SockStates,
           Enter, Goto, Leave, netvars, appvars
<1>1. ASSUME NEW t \in Threads, StartOnOpen(t) PROVE TypeOK'
  BY <1>1 DEF StartOnOpen
<1>2. ASSUME NEW t \in Threads, StartAsyncRead(t) PROVE TypeOK'
  BY <1>2 DEF StartAsyncRead
<1>3. ASSUME NEW t \in Threads, WSPush(t) PROVE TypeOK'
  BY <1>3 DEF WSPush
<1>4. ASSUME NEW t \in Threads, WSClose(t) PROVE TypeOK'
  BY <1>4 DEF WSClose
<1>5. ASSUME NEW t \in Threads, Enqueue(t) PROVE TypeOK'
  BY <1>5 DEF Enqueue, WriteIfSingle, Started, Control
<1>6. ASSUME NEW t \in Threads, EnqueueOverflow(t) PROVE TypeOK'
  BY <1>6 DEF EnqueueOverflow, Control
<1>7. ASSUME NEW t \in Threads, HandleRead(t) PROVE TypeOK'
  BY <1>7 DEF HandleRead
<1>8. ASSUME NEW t \in Threads, HandleWrite(t) PROVE TypeOK'
  BY <1>8 DEF HandleWrite
<1>9. ASSUME NEW t \in Threads, Dequeue(t) PROVE TypeOK'
  BY <1>9, SMTT(30) DEF Dequeue, Started, Writer, NoCompletion
<1>10. ASSUME NEW t \in Threads, Clear(t) PROVE TypeOK'
  BY <1>10 DEF Clear
<1>11. ASSUME NEW t \in Threads, StopFirst(t) PROVE TypeOK'
  BY <1>11 DEF StopFirst
<1>12. ASSUME NEW t \in Threads, StopAgain(t) PROVE TypeOK'
  BY <1>12 DEF StopAgain
<1>13. ASSUME NEW t \in Threads, StopOnClose(t) PROVE TypeOK'
  BY <1>13 DEF StopOnClose
<1>14. ASSUME NEW t \in Threads, Cancel(t) PROVE TypeOK'
  BY <1>14 DEF Cancel
<1>15. ASSUME NEW t \in Threads, Shutdown(t) PROVE TypeOK'
  BY <1>15 DEF Shutdown
<1>16. ASSUME NEW t \in Threads, CloseSocket(t) PROVE TypeOK'
  BY <1>16 DEF CloseSocket
<1>17. ASSUME NEW t \in Threads, ReturnHandleRead(t) PROVE TypeOK'
  BY <1>17 DEF ReturnHandleRead
<1>18. ASSUME NEW t \in Threads, ReturnWSClose(t) PROVE TypeOK'
  BY <1>18 DEF ReturnWSClose
<1>19. ASSUME NEW t \in Threads, ReturnWSPush(t) PROVE TypeOK'
  BY <1>19 DEF ReturnWSPush, WriteIfSingle, Started
<1>20. ASSUME NEW t \in Threads, ReturnHandleWrite(t) PROVE TypeOK'
  BY <1>20 DEF ReturnHandleWrite
<1>21. ASSUME NEW m \in Msg, WriteSucceeds(m) PROVE TypeOK'
  BY <1>21 DEF WriteSucceeds, Transmitting
<1>22. ASSUME NEW m \in Msg, WriteFails(m) PROVE TypeOK'
  BY <1>22 DEF WriteFails, Transmitting
<1>23. CASE ReadSucceeds
  BY <1>23 DEF ReadSucceeds
<1>24. CASE ReadFails
  BY <1>24 DEF ReadFails
<1>25. CASE LinkFails
  BY <1>25 DEF LinkFails
<1>26. CASE DestroyService
  BY <1>26 DEF DestroyService, Alive
<1>27. CASE vars' = vars
  BY <1>27 DEF vars
<1>28. CASE Gone
  BY <1>28, <1>27 DEF Gone
<1> HIDE DEF IInv, TypeOK, Enter, Goto, Leave
<1> QED
  BY <1>1, <1>2, <1>3, <1>4, <1>5, <1>6, <1>7, <1>8, <1>9, <1>10, <1>11,
     <1>12, <1>13, <1>14, <1>15, <1>16, <1>17, <1>18, <1>19, <1>20, <1>21,
     <1>22, <1>23, <1>24, <1>25, <1>26, <1>27, <1>28
  DEF Next, Continue, Stop, Return, Network

\* A step keeps the pc of a thread, its call and the mutexes consistent.
LEMMA ControlStep == ASSUME IInv, [Next]_vars PROVE Control'
<1> USE ThreadsAssumption, QMaxAssumption, MaxMsgsAssumption
       DEF IInv, TypeOK, Control, Msg, Steps, StopSteps, InStop, Calls,
           Enter, Goto, Leave, netvars, appvars
<1>1. ASSUME NEW t \in Threads, StartOnOpen(t) PROVE Control'
  BY <1>1 DEF StartOnOpen
<1>2. ASSUME NEW t \in Threads, StartAsyncRead(t) PROVE Control'
  BY <1>2 DEF StartAsyncRead
<1>3. ASSUME NEW t \in Threads, WSPush(t) PROVE Control'
  BY <1>3 DEF WSPush
<1>4. ASSUME NEW t \in Threads, WSClose(t) PROVE Control'
  BY <1>4 DEF WSClose
<1>5. ASSUME NEW t \in Threads, Enqueue(t) PROVE Control'
  BY <1>5 DEF Enqueue, WriteIfSingle, Started
<1>6. ASSUME NEW t \in Threads, EnqueueOverflow(t) PROVE Control'
  BY <1>6 DEF EnqueueOverflow
<1>7. ASSUME NEW t \in Threads, HandleRead(t) PROVE Control'
  BY <1>7 DEF HandleRead
<1>8. ASSUME NEW t \in Threads, HandleWrite(t) PROVE Control'
  BY <1>8 DEF HandleWrite
<1>9. ASSUME NEW t \in Threads, Dequeue(t) PROVE Control'
  BY <1>9 DEF Dequeue, Started
<1>10. ASSUME NEW t \in Threads, Clear(t) PROVE Control'
  BY <1>10 DEF Clear
<1>11. ASSUME NEW t \in Threads, StopFirst(t) PROVE Control'
  BY <1>11 DEF StopFirst
<1>12. ASSUME NEW t \in Threads, StopAgain(t) PROVE Control'
  BY <1>12 DEF StopAgain
<1>13. ASSUME NEW t \in Threads, StopOnClose(t) PROVE Control'
  BY <1>13 DEF StopOnClose
<1>14. ASSUME NEW t \in Threads, Cancel(t) PROVE Control'
  BY <1>14 DEF Cancel
<1>15. ASSUME NEW t \in Threads, Shutdown(t) PROVE Control'
  BY <1>15 DEF Shutdown
<1>16. ASSUME NEW t \in Threads, CloseSocket(t) PROVE Control'
  BY <1>16 DEF CloseSocket
<1>17. ASSUME NEW t \in Threads, ReturnHandleRead(t) PROVE Control'
  BY <1>17 DEF ReturnHandleRead
<1>18. ASSUME NEW t \in Threads, ReturnWSClose(t) PROVE Control'
  BY <1>18 DEF ReturnWSClose
<1>19. ASSUME NEW t \in Threads, ReturnWSPush(t) PROVE Control'
  BY <1>19 DEF ReturnWSPush, WriteIfSingle, Started
<1>20. ASSUME NEW t \in Threads, ReturnHandleWrite(t) PROVE Control'
  BY <1>20 DEF ReturnHandleWrite
<1>21. ASSUME NEW m \in Msg, WriteSucceeds(m) PROVE Control'
  BY <1>21 DEF WriteSucceeds, Transmitting
<1>22. ASSUME NEW m \in Msg, WriteFails(m) PROVE Control'
  BY <1>22 DEF WriteFails, Transmitting
<1>23. CASE ReadSucceeds
  BY <1>23 DEF ReadSucceeds
<1>24. CASE ReadFails
  BY <1>24 DEF ReadFails
<1>25. CASE LinkFails
  BY <1>25 DEF LinkFails
<1>26. CASE DestroyService
  BY <1>26 DEF DestroyService, Alive
<1>27. CASE vars' = vars
  BY <1>27 DEF vars
<1>28. CASE Gone
  BY <1>28, <1>27 DEF Gone
<1> HIDE DEF IInv, TypeOK, Control, Enter, Goto, Leave
<1> QED
  BY <1>1, <1>2, <1>3, <1>4, <1>5, <1>6, <1>7, <1>8, <1>9, <1>10, <1>11,
     <1>12, <1>13, <1>14, <1>15, <1>16, <1>17, <1>18, <1>19, <1>20, <1>21,
     <1>22, <1>23, <1>24, <1>25, <1>26, <1>27, <1>28
  DEF Next, Continue, Stop, Return, Network

\* A step keeps closed_, ws_onclose and the socket in the order of stop().
LEMMA StoppingStep == ASSUME IInv, [Next]_vars PROVE Stopping'
<1> USE ThreadsAssumption, QMaxAssumption, MaxMsgsAssumption
       DEF IInv, TypeOK, Control, Stopping, Msg, Steps, StopSteps, InStop,
           Calls, SockStates,
           Enter, Goto, Leave, netvars, appvars
<1>1. ASSUME NEW t \in Threads, StartOnOpen(t) PROVE Stopping'
  BY <1>1 DEF StartOnOpen
<1>2. ASSUME NEW t \in Threads, StartAsyncRead(t) PROVE Stopping'
  BY <1>2 DEF StartAsyncRead
<1>3. ASSUME NEW t \in Threads, WSPush(t) PROVE Stopping'
  BY <1>3 DEF WSPush
<1>4. ASSUME NEW t \in Threads, WSClose(t) PROVE Stopping'
  BY <1>4 DEF WSClose
<1>5. ASSUME NEW t \in Threads, Enqueue(t) PROVE Stopping'
  BY <1>5 DEF Enqueue, WriteIfSingle, Started
<1>6. ASSUME NEW t \in Threads, EnqueueOverflow(t) PROVE Stopping'
  BY <1>6 DEF EnqueueOverflow
<1>7. ASSUME NEW t \in Threads, HandleRead(t) PROVE Stopping'
  BY <1>7 DEF HandleRead
<1>8. ASSUME NEW t \in Threads, HandleWrite(t) PROVE Stopping'
  BY <1>8 DEF HandleWrite
<1>9. ASSUME NEW t \in Threads, Dequeue(t) PROVE Stopping'
  BY <1>9 DEF Dequeue, Started
<1>10. ASSUME NEW t \in Threads, Clear(t) PROVE Stopping'
  BY <1>10 DEF Clear
<1>11. ASSUME NEW t \in Threads, StopFirst(t) PROVE Stopping'
  BY <1>11 DEF StopFirst
<1>12. ASSUME NEW t \in Threads, StopAgain(t) PROVE Stopping'
  BY <1>12 DEF StopAgain
<1>13. ASSUME NEW t \in Threads, StopOnClose(t) PROVE Stopping'
  BY <1>13 DEF StopOnClose
<1>14. ASSUME NEW t \in Threads, Cancel(t) PROVE Stopping'
  BY <1>14 DEF Cancel
<1>15. ASSUME NEW t \in Threads, Shutdown(t) PROVE Stopping'
  BY <1>15 DEF Shutdown
<1>16. ASSUME NEW t \in Threads, CloseSocket(t) PROVE Stopping'
  BY <1>16 DEF CloseSocket
<1>17. ASSUME NEW t \in Threads, ReturnHandleRead(t) PROVE Stopping'
  BY <1>17 DEF ReturnHandleRead
<1>18. ASSUME NEW t \in Threads, ReturnWSClose(t) PROVE Stopping'
  BY <1>18 DEF ReturnWSClose
<1>19. ASSUME NEW t \in Threads, ReturnWSPush(t) PROVE Stopping'
  BY <1>19 DEF ReturnWSPush, WriteIfSingle, Started
<1>20. ASSUME NEW t \in Threads, ReturnHandleWrite(t) PROVE Stopping'
  BY <1>20 DEF ReturnHandleWrite
<1>21. ASSUME NEW m \in Msg, WriteSucceeds(m) PROVE Stopping'
  BY <1>21 DEF WriteSucceeds, Transmitting
<1>22. ASSUME NEW m \in Msg, WriteFails(m) PROVE Stopping'
  BY <1>22 DEF WriteFails, Transmitting
<1>23. CASE ReadSucceeds
  BY <1>23 DEF ReadSucceeds
<1>24. CASE ReadFails
  BY <1>24 DEF ReadFails
<1>25. CASE LinkFails
  BY <1>25 DEF LinkFails
<1>26. CASE DestroyService
  BY <1>26 DEF DestroyService, Alive
<1>27. CASE vars' = vars
  BY <1>27 DEF vars
<1>28. CASE Gone
  BY <1>28, <1>27 DEF Gone
<1> HIDE DEF IInv, TypeOK, Control, Stopping, Enter, Goto, Leave
<1> QED
  BY <1>1, <1>2, <1>3, <1>4, <1>5, <1>6, <1>7, <1>8, <1>9, <1>10, <1>11,
     <1>12, <1>13, <1>14, <1>15, <1>16, <1>17, <1>18, <1>19, <1>20, <1>21,
     <1>22, <1>23, <1>24, <1>25, <1>26, <1>27, <1>28
  DEF Next, Continue, Stop, Return, Network

\* The read of Start is replaced only by its handler, which stops.
LEMMA GuardedStep == ASSUME IInv, [Next]_vars PROVE Guarded'
<1> USE DEF Guarded, Enter, Goto, Leave, netvars, appvars
<1>t. TypeOK
  BY DEF IInv
<1>g. Guarded
  BY DEF IInv
<1>c. Control
  BY DEF IInv
<1>s. Stopping
  BY DEF IInv
<1>1. ASSUME NEW t \in Threads, StartOnOpen(t) PROVE Guarded'
  BY <1>1, <1>t, <1>g, <1>c DEF StartOnOpen, TypeOK, Control
<1>2. ASSUME NEW t \in Threads, StartAsyncRead(t) PROVE Guarded'
  BY <1>2, <1>t, <1>g, <1>c DEF StartAsyncRead, TypeOK, Control
<1>3. ASSUME NEW t \in Threads, WSPush(t) PROVE Guarded'
  BY <1>3, <1>t, <1>g, <1>c DEF WSPush, TypeOK, Control
<1>4. ASSUME NEW t \in Threads, WSClose(t) PROVE Guarded'
  BY <1>4, <1>t, <1>g, <1>c DEF WSClose, TypeOK, Control
<1>5. ASSUME NEW t \in Threads, Enqueue(t) PROVE Guarded'
  BY <1>5, <1>t, <1>g, <1>c DEF Enqueue, WriteIfSingle, Started, TypeOK, Control
<1>6. ASSUME NEW t \in Threads, EnqueueOverflow(t) PROVE Guarded'
  BY <1>6, <1>t, <1>g, <1>c DEF EnqueueOverflow, TypeOK, Control
<1>7. ASSUME NEW t \in Threads, HandleRead(t) PROVE Guarded'
  BY <1>7, <1>t, <1>g, <1>c DEF HandleRead, TypeOK, Control
<1>8. ASSUME NEW t \in Threads, HandleWrite(t) PROVE Guarded'
  BY <1>8, <1>t, <1>g, <1>c DEF HandleWrite, TypeOK, Control
<1>9. ASSUME NEW t \in Threads, Dequeue(t) PROVE Guarded'
  BY <1>9, <1>t, <1>g, <1>c DEF Dequeue, Started, TypeOK, Control
<1>10. ASSUME NEW t \in Threads, Clear(t) PROVE Guarded'
  BY <1>10, <1>t, <1>g, <1>c DEF Clear, TypeOK, Control
<1>11. ASSUME NEW t \in Threads, StopFirst(t) PROVE Guarded'
  BY <1>11, <1>t, <1>g, <1>c DEF StopFirst, TypeOK, Control
<1>12. ASSUME NEW t \in Threads, StopAgain(t) PROVE Guarded'
  BY <1>12, <1>t, <1>g, <1>c DEF StopAgain, TypeOK, Control
<1>13. ASSUME NEW t \in Threads, StopOnClose(t) PROVE Guarded'
  BY <1>13, <1>t, <1>g, <1>c DEF StopOnClose, TypeOK, Control
<1>14. ASSUME NEW t \in Threads, Cancel(t) PROVE Guarded'
  BY <1>14, <1>t, <1>g, <1>c DEF Cancel, TypeOK, Control
<1>15. ASSUME NEW t \in Threads, Shutdown(t) PROVE Guarded'
  BY <1>15, <1>t, <1>g, <1>c DEF Shutdown, TypeOK, Control
<1>16. ASSUME NEW t \in Threads, CloseSocket(t) PROVE Guarded'
  BY <1>16, <1>t, <1>g, <1>c DEF CloseSocket, TypeOK, Control
<1>17. ASSUME NEW t \in Threads, ReturnHandleRead(t) PROVE Guarded'
  BY <1>17, <1>s DEF ReturnHandleRead, Stopping
<1>18. ASSUME NEW t \in Threads, ReturnWSClose(t) PROVE Guarded'
  BY <1>18, <1>s DEF ReturnWSClose, Stopping
<1>19. ASSUME NEW t \in Threads, ReturnWSPush(t) PROVE Guarded'
  BY <1>19, <1>s DEF ReturnWSPush, Stopping
<1>20. ASSUME NEW t \in Threads, ReturnHandleWrite(t) PROVE Guarded'
  BY <1>20, <1>s DEF ReturnHandleWrite, Stopping
<1>21. ASSUME NEW m \in Msg, WriteSucceeds(m) PROVE Guarded'
  BY <1>21, <1>t, <1>g, <1>c DEF WriteSucceeds, Transmitting, TypeOK, Control
<1>22. ASSUME NEW m \in Msg, WriteFails(m) PROVE Guarded'
  BY <1>22, <1>t, <1>g, <1>c DEF WriteFails, Transmitting, TypeOK, Control
<1>23. CASE ReadSucceeds
  BY <1>23, <1>t, <1>g, <1>c DEF ReadSucceeds, TypeOK, Control
<1>24. CASE ReadFails
  BY <1>24, <1>t, <1>g, <1>c DEF ReadFails, TypeOK, Control
<1>25. CASE LinkFails
  BY <1>25, <1>t, <1>g, <1>c DEF LinkFails, TypeOK, Control
<1>26. CASE DestroyService
  BY <1>26, <1>t, <1>g, <1>c DEF DestroyService, Alive, TypeOK, Control
<1>27. CASE vars' = vars
  BY <1>27, <1>g DEF vars
<1>28. CASE Gone
  BY <1>28, <1>27 DEF Gone
<1> HIDE DEF Guarded, Enter, Goto, Leave
<1> QED
  BY <1>1, <1>2, <1>3, <1>4, <1>5, <1>6, <1>7, <1>8, <1>9, <1>10, <1>11,
     <1>12, <1>13, <1>14, <1>15, <1>16, <1>17, <1>18, <1>19, <1>20, <1>21,
     <1>22, <1>23, <1>24, <1>25, <1>26, <1>27, <1>28
  DEF Next, Continue, Stop, Return, Network

-----------------------------------------------------------------------------
(* The queue and its writer *)

\* The pointwise form of the property, which the provers handle better.
LEMMA WriterIsWriterServesQueue == ASSUME TypeOK PROVE Writer <=> WriterServesQueue
<1>1. NoWrite <=> InFlight = {}
  BY DEF NoWrite, InFlight
<1>2. NoCompletion <=> Completing = {}
  BY DEF NoCompletion, Completing
<1>3. ASSUME send_q # <<>>
      PROVE  (\A m \in Msg : write_op[m] # "none" <=> m = Head(send_q)) <=> InFlight = {Head(send_q)}
  <2>1. Head(send_q) \in Msg
    BY <1>3 DEF TypeOK
  <2> QED BY <2>1 DEF InFlight
<1>4. ASSUME NEW t \in Threads
      PROVE  (\A u \in Threads : pc[u] \in {"dequeue", "clear"} <=> u = t) <=> Completing = {t}
  BY DEF Completing
<1> QED BY <1>1, <1>2, <1>3, <1>4 DEF Writer, WriterServesQueue

\* Appending to a queue that is not empty leaves its front alone.
LEMMA HeadAppend ==
  ASSUME NEW S, NEW s \in Seq(S), Len(s) > 0, NEW e \in S
  PROVE  s # <<>> /\ Append(s, e) # <<>> /\ Head(Append(s, e)) = Head(s)
OBVIOUS

\* write() and handle_write keep one write under way, of the front.
LEMMA WriterStep == ASSUME IInv, [Next]_vars PROVE Writer'
<1> USE DEF Writer, NoWrite, NoCompletion, Enter, Goto, Leave, netvars, appvars
<1>t. TypeOK
  BY DEF IInv
<1>w. Writer
  BY DEF IInv
<1>c. Control
  BY DEF IInv
<1>o. Overflowing
  BY DEF IInv
<1>1. ASSUME NEW t \in Threads, StartOnOpen(t) PROVE Writer'
  BY <1>1, <1>t, <1>w DEF StartOnOpen, TypeOK
<1>2. ASSUME NEW t \in Threads, StartAsyncRead(t) PROVE Writer'
  BY <1>2, <1>t, <1>w DEF StartAsyncRead, TypeOK
<1>3. ASSUME NEW t \in Threads, WSPush(t) PROVE Writer'
  BY <1>3, <1>t, <1>w DEF WSPush, TypeOK
<1>4. ASSUME NEW t \in Threads, WSClose(t) PROVE Writer'
  BY <1>4, <1>t, <1>w DEF WSClose, TypeOK
<1>5. ASSUME NEW t \in Threads, Enqueue(t) PROVE Writer'
  BY <1>5, <1>t, <1>w DEF Enqueue, WriteIfSingle, Started, TypeOK
<1>6. ASSUME NEW t \in Threads, EnqueueOverflow(t) PROVE Writer'
  <2>1. send_q # <<>> /\ send_q' # <<>> /\ Head(send_q') = Head(send_q)
    <3>1. Len(send_q) > 0 /\ send_q \in Seq(Msg)
      BY <1>6, <1>t, QMaxAssumption DEF EnqueueOverflow, TypeOK
    <3>2. send_q' = Append(send_q, arg[t]) /\ arg[t] \in Msg
      BY <1>6, <1>t, <1>c, MaxMsgsAssumption DEF EnqueueOverflow, TypeOK, Control, Msg
    <3> QED BY <3>1, <3>2, HeadAppend
  <2>2. \A u \in Threads : pc'[u] \in {"dequeue", "clear"} <=> pc[u] \in {"dequeue", "clear"}
    BY <1>6, <1>t DEF EnqueueOverflow, TypeOK
  <2>3. write_op' = write_op
    BY <1>6 DEF EnqueueOverflow
  <2> QED BY <2>1, <2>2, <2>3, <1>w
<1>7. ASSUME NEW t \in Threads, HandleRead(t) PROVE Writer'
  BY <1>7, <1>t, <1>w DEF HandleRead, TypeOK
<1>8. ASSUME NEW t \in Threads, HandleWrite(t) PROVE Writer'
  <2>1. PICK m \in Msg : /\ write_op[m] \in Completed
                        /\ write_op' = [write_op EXCEPT ![m] = "none"]
    BY <1>8 DEF HandleWrite
  <2>2. write_op[m] # "none"
    BY <2>1 DEF Completed
  <2>3. /\ send_q # <<>> /\ NoCompletion
        /\ \A k \in Msg : write_op[k] # "none" <=> k = m
    BY <2>2, <1>w
  <2>4. NoWrite'
    BY <2>1, <2>3, <1>t DEF TypeOK
  <2>5. \A u \in Threads : pc'[u] \in {"dequeue", "clear"} <=> u = t
    BY <2>3, <1>8, <1>t DEF HandleWrite, TypeOK
  <2>6. send_q' = send_q
    BY <1>8 DEF HandleWrite
  <2> QED BY <2>3, <2>4, <2>5, <2>6
<1>9. ASSUME NEW t \in Threads, Dequeue(t) PROVE Writer'
  <2>1. send_q # <<>> /\ NoWrite /\ \A u \in Threads : pc[u] \in {"dequeue", "clear"} <=> u = t
    BY <1>9, <1>w DEF Dequeue
  <2>2. NoCompletion'
    BY <2>1, <1>9, <1>t DEF Dequeue, TypeOK
  <2>3. CASE send_q' = <<>>
    <3>1. ~ Len(send_q') > 0
      BY <2>3
    <3>2. write_op' = write_op
      BY <3>1, <1>9 DEF Dequeue
    <3> QED BY <2>1, <2>2, <2>3, <3>2
  <2>4. CASE send_q' # <<>>
    <3>1. Head(send_q') \in Msg /\ Len(send_q') > 0
      <4>1. send_q' \in Seq(Msg)
        BY <2>1, <1>9, <1>t DEF Dequeue, TypeOK
      <4> QED BY <4>1, <2>4
    <3>2. write_op' = Started(Head(send_q'))
      BY <3>1, <1>9 DEF Dequeue
    <3> QED BY <2>1, <2>2, <2>4, <3>1, <3>2, <1>t DEF Started, TypeOK
  <2> QED BY <2>3, <2>4
<1>10. ASSUME NEW t \in Threads, Clear(t) PROVE Writer'
  BY <1>10, <1>t, <1>w DEF Clear, TypeOK
<1>11. ASSUME NEW t \in Threads, StopFirst(t) PROVE Writer'
  BY <1>11, <1>t, <1>w DEF StopFirst, TypeOK
<1>12. ASSUME NEW t \in Threads, StopAgain(t) PROVE Writer'
  BY <1>12, <1>t, <1>w DEF StopAgain, TypeOK
<1>13. ASSUME NEW t \in Threads, StopOnClose(t) PROVE Writer'
  BY <1>13, <1>t, <1>w DEF StopOnClose, TypeOK
<1>14. ASSUME NEW t \in Threads, Cancel(t) PROVE Writer'
  <2>1. \A m \in Msg : write_op'[m] # "none" <=> write_op[m] # "none"
    BY <1>14, <1>t DEF Cancel, TypeOK
  <2>2. \A u \in Threads : pc'[u] \in {"dequeue", "clear"} <=> pc[u] \in {"dequeue", "clear"}
    BY <1>14, <1>t DEF Cancel, TypeOK
  <2>3. send_q' = send_q
    BY <1>14 DEF Cancel
  <2> QED BY <2>1, <2>2, <2>3, <1>w
<1>15. ASSUME NEW t \in Threads, Shutdown(t) PROVE Writer'
  BY <1>15, <1>t, <1>w DEF Shutdown, TypeOK
<1>16. ASSUME NEW t \in Threads, CloseSocket(t) PROVE Writer'
  BY <1>16, <1>t, <1>w DEF CloseSocket, TypeOK
<1>17. ASSUME NEW t \in Threads, ReturnHandleRead(t) PROVE Writer'
  BY <1>17, <1>t, <1>w DEF ReturnHandleRead, TypeOK
<1>18. ASSUME NEW t \in Threads, ReturnWSClose(t) PROVE Writer'
  BY <1>18, <1>t, <1>w DEF ReturnWSClose, TypeOK
<1>19. ASSUME NEW t \in Threads, ReturnWSPush(t) PROVE Writer'
  <2>1. Len(send_q) # 1
    BY <1>19, <1>o DEF ReturnWSPush, Overflowing, InStop
  <2>2. \A u \in Threads : pc'[u] \in {"dequeue", "clear"} <=> pc[u] \in {"dequeue", "clear"}
    BY <1>19, <1>t DEF ReturnWSPush, TypeOK
  <2>3. write_op' = write_op /\ send_q' = send_q
    BY <1>19, <2>1 DEF ReturnWSPush, WriteIfSingle
  <2> QED BY <2>2, <2>3, <1>w
<1>20. ASSUME NEW t \in Threads, ReturnHandleWrite(t) PROVE Writer'
  BY <1>20, <1>t, <1>w DEF ReturnHandleWrite, TypeOK
<1>21. ASSUME NEW m \in Msg, WriteSucceeds(m) PROVE Writer'
  BY <1>21, <1>t, <1>w DEF WriteSucceeds, Transmitting, TypeOK
<1>22. ASSUME NEW m \in Msg, WriteFails(m) PROVE Writer'
  BY <1>22, <1>t, <1>w DEF WriteFails, Transmitting, TypeOK
<1>23. CASE ReadSucceeds
  BY <1>23, <1>t, <1>w DEF ReadSucceeds, TypeOK
<1>24. CASE ReadFails
  BY <1>24, <1>t, <1>w DEF ReadFails, TypeOK
<1>25. CASE LinkFails
  BY <1>25, <1>t, <1>w DEF LinkFails, TypeOK
<1>26. CASE DestroyService
  BY <1>26, <1>t, <1>w DEF DestroyService, Alive, TypeOK
<1>27. CASE vars' = vars
  BY <1>27, <1>w DEF vars
<1>28. CASE Gone
  BY <1>28, <1>27 DEF Gone
<1> HIDE DEF Writer, NoWrite, NoCompletion, Enter, Goto, Leave
<1> QED
  BY <1>1, <1>2, <1>3, <1>4, <1>5, <1>6, <1>7, <1>8, <1>9, <1>10, <1>11,
     <1>12, <1>13, <1>14, <1>15, <1>16, <1>17, <1>18, <1>19, <1>20, <1>21,
     <1>22, <1>23, <1>24, <1>25, <1>26, <1>27, <1>28
  DEF Next, Continue, Stop, Return, Network

\* A queue above the limit is noticed by the thread that made it.
LEMMA OverflowingStep == ASSUME IInv, [Next]_vars PROVE Overflowing'
<1> USE ThreadsAssumption, QMaxAssumption, MaxMsgsAssumption
       DEF IInv, TypeOK, Control, Stopping, Overflowing, Msg, Steps, StopSteps,
           InStop, Calls, OpStates, Completed,
           Enter, Goto, Leave, netvars, appvars
<1>1. ASSUME NEW t \in Threads, StartOnOpen(t) PROVE Overflowing'
  BY <1>1 DEF StartOnOpen
<1>2. ASSUME NEW t \in Threads, StartAsyncRead(t) PROVE Overflowing'
  BY <1>2 DEF StartAsyncRead
<1>3. ASSUME NEW t \in Threads, WSPush(t) PROVE Overflowing'
  BY <1>3 DEF WSPush
<1>4. ASSUME NEW t \in Threads, WSClose(t) PROVE Overflowing'
  BY <1>4 DEF WSClose
<1>5. ASSUME NEW t \in Threads, Enqueue(t) PROVE Overflowing'
  BY <1>5 DEF Enqueue, WriteIfSingle, Started
<1>6. ASSUME NEW t \in Threads, EnqueueOverflow(t) PROVE Overflowing'
  BY <1>6 DEF EnqueueOverflow
<1>7. ASSUME NEW t \in Threads, HandleRead(t) PROVE Overflowing'
  BY <1>7 DEF HandleRead
<1>8. ASSUME NEW t \in Threads, HandleWrite(t) PROVE Overflowing'
  BY <1>8 DEF HandleWrite
<1>9. ASSUME NEW t \in Threads, Dequeue(t) PROVE Overflowing'
  BY <1>9 DEF Dequeue, Started
<1>10. ASSUME NEW t \in Threads, Clear(t) PROVE Overflowing'
  BY <1>10 DEF Clear
<1>11. ASSUME NEW t \in Threads, StopFirst(t) PROVE Overflowing'
  BY <1>11 DEF StopFirst
<1>12. ASSUME NEW t \in Threads, StopAgain(t) PROVE Overflowing'
  BY <1>12 DEF StopAgain
<1>13. ASSUME NEW t \in Threads, StopOnClose(t) PROVE Overflowing'
  BY <1>13 DEF StopOnClose
<1>14. ASSUME NEW t \in Threads, Cancel(t) PROVE Overflowing'
  BY <1>14 DEF Cancel
<1>15. ASSUME NEW t \in Threads, Shutdown(t) PROVE Overflowing'
  BY <1>15 DEF Shutdown
<1>16. ASSUME NEW t \in Threads, CloseSocket(t) PROVE Overflowing'
  BY <1>16 DEF CloseSocket
<1>17. ASSUME NEW t \in Threads, ReturnHandleRead(t) PROVE Overflowing'
  BY <1>17 DEF ReturnHandleRead
<1>18. ASSUME NEW t \in Threads, ReturnWSClose(t) PROVE Overflowing'
  BY <1>18 DEF ReturnWSClose
<1>19. ASSUME NEW t \in Threads, ReturnWSPush(t) PROVE Overflowing'
  BY <1>19 DEF ReturnWSPush, WriteIfSingle, Started
<1>20. ASSUME NEW t \in Threads, ReturnHandleWrite(t) PROVE Overflowing'
  BY <1>20 DEF ReturnHandleWrite
<1>21. ASSUME NEW m \in Msg, WriteSucceeds(m) PROVE Overflowing'
  BY <1>21 DEF WriteSucceeds, Transmitting
<1>22. ASSUME NEW m \in Msg, WriteFails(m) PROVE Overflowing'
  BY <1>22 DEF WriteFails, Transmitting
<1>23. CASE ReadSucceeds
  BY <1>23 DEF ReadSucceeds
<1>24. CASE ReadFails
  BY <1>24 DEF ReadFails
<1>25. CASE LinkFails
  BY <1>25 DEF LinkFails
<1>26. CASE DestroyService
  BY <1>26 DEF DestroyService, Alive
<1>27. CASE vars' = vars
  BY <1>27 DEF vars
<1>28. CASE Gone
  BY <1>28, <1>27 DEF Gone
<1> HIDE DEF IInv, TypeOK, Control, Stopping, Overflowing, Enter, Goto, Leave
<1> QED
  BY <1>1, <1>2, <1>3, <1>4, <1>5, <1>6, <1>7, <1>8, <1>9, <1>10, <1>11,
     <1>12, <1>13, <1>14, <1>15, <1>16, <1>17, <1>18, <1>19, <1>20, <1>21,
     <1>22, <1>23, <1>24, <1>25, <1>26, <1>27, <1>28
  DEF Next, Continue, Stop, Return, Network

\* A write fails only on a dead link or a socket that is being stopped.
LEMMA NoSpuriousErrorStep == ASSUME IInv, [Next]_vars PROVE NoSpuriousError'
<1> USE DEF NoSpuriousError, Enter, Goto, Leave, netvars, appvars
<1>t. TypeOK
  BY DEF IInv
<1>e. NoSpuriousError
  BY DEF IInv
<1>s. Stopping
  BY DEF IInv
<1>1. ASSUME NEW t \in Threads, StartOnOpen(t) PROVE NoSpuriousError'
  BY <1>1, <1>t, <1>e DEF StartOnOpen, TypeOK
<1>2. ASSUME NEW t \in Threads, StartAsyncRead(t) PROVE NoSpuriousError'
  BY <1>2, <1>t, <1>e DEF StartAsyncRead, TypeOK
<1>3. ASSUME NEW t \in Threads, WSPush(t) PROVE NoSpuriousError'
  BY <1>3, <1>t, <1>e DEF WSPush, TypeOK
<1>4. ASSUME NEW t \in Threads, WSClose(t) PROVE NoSpuriousError'
  BY <1>4, <1>t, <1>e DEF WSClose, TypeOK
<1>5. ASSUME NEW t \in Threads, Enqueue(t) PROVE NoSpuriousError'
  BY <1>5, <1>t, <1>e DEF Enqueue, WriteIfSingle, Started, TypeOK
<1>6. ASSUME NEW t \in Threads, EnqueueOverflow(t) PROVE NoSpuriousError'
  BY <1>6, <1>t, <1>e DEF EnqueueOverflow, TypeOK
<1>7. ASSUME NEW t \in Threads, HandleRead(t) PROVE NoSpuriousError'
  BY <1>7, <1>t, <1>e DEF HandleRead, TypeOK
<1>8. ASSUME NEW t \in Threads, HandleWrite(t) PROVE NoSpuriousError'
  <2>1. PICK m \in Msg : /\ write_op[m] \in Completed
                        /\ pc' = [pc EXCEPT ![t] = IF write_op[m] = "ok" THEN "dequeue" ELSE "clear"]
                        /\ write_op' = [write_op EXCEPT ![m] = "none"]
    BY <1>8 DEF HandleWrite
  <2>2. UNCHANGED <<sock, link>>
    BY <1>8 DEF HandleWrite
  <2> QED BY <2>1, <2>2, <1>t, <1>e DEF TypeOK, Completed
<1>9. ASSUME NEW t \in Threads, Dequeue(t) PROVE NoSpuriousError'
  BY <1>9, <1>t, <1>e DEF Dequeue, Started, TypeOK
<1>10. ASSUME NEW t \in Threads, Clear(t) PROVE NoSpuriousError'
  BY <1>10, <1>t, <1>e DEF Clear, TypeOK
<1>11. ASSUME NEW t \in Threads, StopFirst(t) PROVE NoSpuriousError'
  BY <1>11, <1>t, <1>e DEF StopFirst, TypeOK
<1>12. ASSUME NEW t \in Threads, StopAgain(t) PROVE NoSpuriousError'
  BY <1>12, <1>t, <1>e DEF StopAgain, TypeOK
<1>13. ASSUME NEW t \in Threads, StopOnClose(t) PROVE NoSpuriousError'
  BY <1>13, <1>t, <1>e DEF StopOnClose, TypeOK
<1>14. ASSUME NEW t \in Threads, Cancel(t) PROVE NoSpuriousError'
  BY <1>14, <1>t, <1>e DEF Cancel, TypeOK
<1>15. ASSUME NEW t \in Threads, Shutdown(t) PROVE NoSpuriousError'
  BY <1>15, <1>t, <1>e DEF Shutdown, TypeOK
<1>16. ASSUME NEW t \in Threads, CloseSocket(t) PROVE NoSpuriousError'
  BY <1>16, <1>t, <1>e DEF CloseSocket, TypeOK
<1>17. ASSUME NEW t \in Threads, ReturnHandleRead(t) PROVE NoSpuriousError'
  BY <1>17, <1>t, <1>e DEF ReturnHandleRead, TypeOK
<1>18. ASSUME NEW t \in Threads, ReturnWSClose(t) PROVE NoSpuriousError'
  BY <1>18, <1>t, <1>e DEF ReturnWSClose, TypeOK
<1>19. ASSUME NEW t \in Threads, ReturnWSPush(t) PROVE NoSpuriousError'
  BY <1>19, <1>t, <1>e DEF ReturnWSPush, WriteIfSingle, Started, TypeOK
<1>20. ASSUME NEW t \in Threads, ReturnHandleWrite(t) PROVE NoSpuriousError'
  BY <1>20, <1>t, <1>e DEF ReturnHandleWrite, TypeOK
<1>21. ASSUME NEW m \in Msg, WriteSucceeds(m) PROVE NoSpuriousError'
  BY <1>21, <1>t, <1>e DEF WriteSucceeds, Transmitting, TypeOK
<1>22. ASSUME NEW m \in Msg, WriteFails(m) PROVE NoSpuriousError'
  BY <1>22, <1>t, <1>e DEF WriteFails, Transmitting, TypeOK
<1>23. CASE ReadSucceeds
  BY <1>23, <1>t, <1>e DEF ReadSucceeds, TypeOK
<1>24. CASE ReadFails
  BY <1>24, <1>t, <1>e DEF ReadFails, TypeOK
<1>25. CASE LinkFails
  BY <1>25, <1>t, <1>e DEF LinkFails, TypeOK
<1>26. CASE DestroyService
  BY <1>26, <1>t, <1>e DEF DestroyService, Alive, TypeOK
<1>27. CASE vars' = vars
  BY <1>27, <1>e DEF vars
<1>28. CASE Gone
  BY <1>28, <1>27 DEF Gone
<1> HIDE DEF NoSpuriousError, Enter, Goto, Leave
<1> QED
  BY <1>1, <1>2, <1>3, <1>4, <1>5, <1>6, <1>7, <1>8, <1>9, <1>10, <1>11,
     <1>12, <1>13, <1>14, <1>15, <1>16, <1>17, <1>18, <1>19, <1>20, <1>21,
     <1>22, <1>23, <1>24, <1>25, <1>26, <1>27, <1>28
  DEF Next, Continue, Stop, Return, Network

-----------------------------------------------------------------------------
(* The stream of messages *)

\* What a step does to the stream of messages, the rest forgotten.
Healthy == sock = "open" /\ link = "up"
Quiet == UNCHANGED <<Enqueued, Unsent, send_q, wire>>
Pushed == /\ send_q' = Append(send_q, Enqueued + 1)
          /\ Enqueued' = Enqueued + 1
          /\ Unsent' = Unsent + 1
          /\ wire' = wire
Dequeued == /\ send_q # <<>>
            /\ send_q' = Tail(send_q)
            /\ UNCHANGED <<Enqueued, Unsent, wire>>
Dropped == /\ send_q' = <<>> /\ Unsent' = 0
           /\ ~Healthy'
           /\ UNCHANGED <<Enqueued, wire>>
Sent == /\ send_q # <<>> /\ Unsent = Len(send_q)
        /\ Unsent' = Len(send_q) - 1
        /\ wire' = Append(wire, Head(send_q))
        /\ sock = "open" => Healthy
        /\ UNCHANGED <<Enqueued, send_q>>
StreamStep == /\ Quiet \/ Pushed \/ Dequeued \/ Dropped \/ Sent
              /\ Healthy' => Healthy
              /\ sock' = "open" => sock = "open"

\* A queue of one message was empty before.
LEMMA AppendSingle ==
  ASSUME NEW S, NEW s \in Seq(S), NEW e, Len(Append(s, e)) = 1
  PROVE  s = <<>>
OBVIOUS

\* Enqueued changes only with pushed and the threads in write().
LEMMA EnqueuedFrame ==
  ASSUME TypeOK, Control, TypeOK', Control', pushed' = pushed,
         \A t \in Threads : pc'[t] = "write" <=> pc[t] = "write"
  PROVE  Enqueued' = Enqueued
BY DEF Enqueued, Carried

\* FrontSent changes only with completed writes and their handlers.
LEMMA FrontSentFrame ==
  ASSUME \A m \in Msg : write_op'[m] = "ok" <=> write_op[m] = "ok",
         \A t \in Threads : pc'[t] = "dequeue" <=> pc[t] = "dequeue"
  PROVE  FrontSent' <=> FrontSent
BY DEF FrontSent

\* A step that changes neither is quiet.
LEMMA QuietStep ==
  ASSUME TypeOK, Control, TypeOK', Control',
         UNCHANGED <<pushed, send_q, wire>>,
         \A t \in Threads : pc'[t] = "write" <=> pc[t] = "write",
         \A t \in Threads : pc'[t] = "dequeue" <=> pc[t] = "dequeue",
         \A m \in Msg : write_op'[m] = "ok" <=> write_op[m] = "ok",
         link' = "up" => link = "up", sock' = "open" => sock = "open"
  PROVE  StreamStep
<1>1. Enqueued' = Enqueued /\ (FrontSent' <=> FrontSent)
  BY EnqueuedFrame, FrontSentFrame
<1> QED BY <1>1 DEF StreamStep, Quiet, Unsent, Healthy

\* Every action is one of the five steps of the stream.
LEMMA StreamOfStep == ASSUME IInv, [Next]_vars PROVE StreamStep
<1>t1. TypeOK'
  BY TypeOKStep
<1>c1. Control'
  BY ControlStep
<1> USE DEF Enter, Goto, Leave, netvars, appvars
<1>t. TypeOK
  BY DEF IInv
<1>c. Control
  BY DEF IInv
<1>w. Writer
  BY DEF IInv
<1>o. Overflowing
  BY DEF IInv
<1>s. Stopping
  BY DEF IInv
<1>r. NoSpuriousError
  BY DEF IInv
<1>1. ASSUME NEW t \in Threads, StartOnOpen(t) PROVE StreamStep
  BY <1>1, <1>t, <1>t1, <1>c, <1>c1, QuietStep DEF StartOnOpen, TypeOK
<1>2. ASSUME NEW t \in Threads, StartAsyncRead(t) PROVE StreamStep
  BY <1>2, <1>t, <1>t1, <1>c, <1>c1, QuietStep DEF StartAsyncRead, TypeOK
<1>3. ASSUME NEW t \in Threads, WSPush(t) PROVE StreamStep
  <2>1. Carried = {} /\ Carried' = {t}
    BY <1>3, <1>t, <1>c, ThreadsAssumption DEF WSPush, TypeOK, Control, Carried
  <2>2. Enqueued' = Enqueued
    BY <2>1, <1>3, <1>t DEF WSPush, Enqueued, TypeOK
  <2>3. FrontSent' <=> FrontSent
    BY <1>3, <1>t, FrontSentFrame DEF WSPush, TypeOK
  <2> QED BY <2>2, <2>3, <1>3 DEF WSPush, StreamStep, Quiet, Unsent, Healthy
<1>4. ASSUME NEW t \in Threads, WSClose(t) PROVE StreamStep
  BY <1>4, <1>t, <1>t1, <1>c, <1>c1, QuietStep DEF WSClose, TypeOK
<1>5. ASSUME NEW t \in Threads, Enqueue(t) PROVE StreamStep
  <2>1. Carried = {t} /\ Carried' = {}
    BY <1>5, <1>t, <1>c DEF Enqueue, TypeOK, Control, Carried
  <2>2. Enqueued' = Enqueued + 1 /\ Enqueued' = arg[t] /\ Enqueued \in Nat
    BY <2>1, <1>5, <1>t, <1>c DEF Enqueue, Enqueued, TypeOK, Control
  <2>3. send_q' = Append(send_q, arg[t])
    BY <1>5 DEF Enqueue
  <2>4. Len(send_q') = Len(send_q) + 1
    BY <2>3, <1>t, <1>t1 DEF TypeOK
  <2>5. FrontSent' <=> FrontSent
    <3>1. \A u \in Threads : pc'[u] = "dequeue" <=> pc[u] = "dequeue"
      BY <1>5, <1>t DEF Enqueue, TypeOK
    <3>2. \A k \in Msg : write_op'[k] = "ok" <=> write_op[k] = "ok"
      <4>1. CASE Len(send_q') # 1
        BY <4>1, <1>5 DEF Enqueue, WriteIfSingle
      <4>2. CASE Len(send_q') = 1
        <5>1. send_q = <<>>
          BY <4>2, <2>3, <1>t, AppendSingle DEF TypeOK
        <5>2. \A k \in Msg : write_op[k] = "none"
          BY <5>1, <1>w DEF Writer, NoWrite
        <5>3. write_op' = Started(Head(send_q'))
          BY <4>2, <1>5 DEF Enqueue, WriteIfSingle
        <5> QED BY <5>2, <5>3, <1>t DEF Started, TypeOK
      <4> QED BY <4>1, <4>2
    <3> QED BY <3>1, <3>2, FrontSentFrame
  <2>6. Unsent' = Unsent + 1
    BY <2>4, <2>5, <1>t DEF Unsent, TypeOK
  <2> QED BY <2>2, <2>3, <2>6, <1>5 DEF Enqueue, StreamStep, Pushed, Healthy
<1>6. ASSUME NEW t \in Threads, EnqueueOverflow(t) PROVE StreamStep
  <2>1. Carried = {t} /\ Carried' = {}
    BY <1>6, <1>t, <1>c DEF EnqueueOverflow, TypeOK, Control, Carried
  <2>2. Enqueued' = Enqueued + 1 /\ Enqueued' = arg[t] /\ Enqueued \in Nat
    BY <2>1, <1>6, <1>t, <1>c DEF EnqueueOverflow, Enqueued, TypeOK, Control
  <2>3. send_q' = Append(send_q, arg[t])
    BY <1>6 DEF EnqueueOverflow
  <2>4. Len(send_q') = Len(send_q) + 1
    BY <2>3, <1>t, <1>t1 DEF TypeOK
  <2>5. FrontSent' <=> FrontSent
    BY <1>6, <1>t, FrontSentFrame DEF EnqueueOverflow, TypeOK
  <2>6. Unsent' = Unsent + 1
    BY <2>4, <2>5, <1>t DEF Unsent, TypeOK
  <2> QED BY <2>2, <2>3, <2>6, <1>6 DEF EnqueueOverflow, StreamStep, Pushed, Healthy
<1>7. ASSUME NEW t \in Threads, HandleRead(t) PROVE StreamStep
  BY <1>7, <1>t, <1>t1, <1>c, <1>c1, QuietStep DEF HandleRead, TypeOK
<1>8. ASSUME NEW t \in Threads, HandleWrite(t) PROVE StreamStep
  <2>1. PICK m \in Msg : /\ write_op[m] \in Completed
                        /\ pc' = [pc EXCEPT ![t] = IF write_op[m] = "ok" THEN "dequeue" ELSE "clear"]
                        /\ write_op' = [write_op EXCEPT ![m] = "none"]
    BY <1>8 DEF HandleWrite
  <2>2. NoCompletion /\ \A k \in Msg : write_op[k] # "none" <=> k = m
    BY <2>1, <1>w DEF Writer, NoWrite, Completed
  <2>3. FrontSent <=> write_op[m] = "ok"
    BY <2>2 DEF FrontSent, NoCompletion
  <2>4. FrontSent' <=> pc'[t] = "dequeue"
    <3>1. \A k \in Msg : write_op'[k] = "none"
      BY <2>1, <2>2, <1>t DEF TypeOK
    <3>2. \A u \in Threads : u # t => pc'[u] # "dequeue"
      BY <2>1, <2>2, <1>t DEF NoCompletion, TypeOK
    <3> QED BY <3>1, <3>2 DEF FrontSent
  <2>5. pc'[t] = "dequeue" <=> write_op[m] = "ok"
    BY <2>1, <1>t DEF TypeOK
  <2>6. Enqueued' = Enqueued
    <3>1. \A u \in Threads : pc'[u] = "write" <=> pc[u] = "write"
      BY <1>8, <1>t DEF HandleWrite, TypeOK
    <3> QED BY <3>1, <1>8, <1>t, <1>t1, <1>c, <1>c1, EnqueuedFrame DEF HandleWrite
  <2> QED BY <2>3, <2>4, <2>5, <2>6, <1>8 DEF HandleWrite, StreamStep, Quiet, Unsent, Healthy
<1>9. ASSUME NEW t \in Threads, Dequeue(t) PROVE StreamStep
  <2>1. send_q # <<>> /\ NoWrite /\ \A u \in Threads : pc[u] \in {"dequeue", "clear"} <=> u = t
    BY <1>9, <1>w DEF Dequeue, Writer, NoCompletion
  <2>2. FrontSent
    BY <1>9 DEF Dequeue, FrontSent
  <2>3. ~FrontSent'
    <3>1. \A u \in Threads : pc'[u] # "dequeue"
      BY <2>1, <1>9, <1>t DEF Dequeue, TypeOK
    <3>2. \A k \in Msg : write_op'[k] # "ok"
      BY <2>1, <1>9, <1>t DEF Dequeue, NoWrite, Started, TypeOK
    <3> QED BY <3>1, <3>2 DEF FrontSent
  <2>4. Len(send_q') = Len(send_q) - 1
    BY <2>1, <1>9, <1>t DEF Dequeue, TypeOK
  <2>5. Enqueued' = Enqueued
    <3>1. \A u \in Threads : pc'[u] = "write" <=> pc[u] = "write"
      BY <1>9, <1>t DEF Dequeue, TypeOK
    <3> QED BY <3>1, <1>9, <1>t, <1>t1, <1>c, <1>c1, EnqueuedFrame DEF Dequeue
  <2> QED BY <2>1, <2>2, <2>3, <2>4, <2>5, <1>9 DEF Dequeue, StreamStep, Dequeued, Unsent, Healthy
<1>10. ASSUME NEW t \in Threads, Clear(t) PROVE StreamStep
  <2>1. NoWrite /\ \A u \in Threads : pc[u] \in {"dequeue", "clear"} <=> u = t
    BY <1>10, <1>w DEF Clear, Writer, NoCompletion
  <2>2. ~FrontSent'
    BY <2>1, <1>10, <1>t DEF Clear, FrontSent, NoWrite, TypeOK
  <2>3. Unsent' = 0
    BY <2>2, <1>10 DEF Clear, Unsent
  <2>4. ~Healthy /\ ~Healthy'
    BY <1>10, <1>r DEF Clear, NoSpuriousError, Healthy
  <2>5. Enqueued' = Enqueued
    <3>1. \A u \in Threads : pc'[u] = "write" <=> pc[u] = "write"
      BY <1>10, <1>t DEF Clear, TypeOK
    <3> QED BY <3>1, <1>10, <1>t, <1>t1, <1>c, <1>c1, EnqueuedFrame DEF Clear
  <2> QED BY <2>3, <2>4, <2>5, <1>10 DEF Clear, StreamStep, Dropped, Healthy
<1>11. ASSUME NEW t \in Threads, StopFirst(t) PROVE StreamStep
  BY <1>11, <1>t, <1>t1, <1>c, <1>c1, QuietStep DEF StopFirst, TypeOK
<1>12. ASSUME NEW t \in Threads, StopAgain(t) PROVE StreamStep
  BY <1>12, <1>t, <1>t1, <1>c, <1>c1, QuietStep DEF StopAgain, TypeOK
<1>13. ASSUME NEW t \in Threads, StopOnClose(t) PROVE StreamStep
  BY <1>13, <1>t, <1>t1, <1>c, <1>c1, QuietStep DEF StopOnClose, TypeOK
<1>14. ASSUME NEW t \in Threads, Cancel(t) PROVE StreamStep
  BY <1>14, <1>t, <1>t1, <1>c, <1>c1, QuietStep DEF Cancel, TypeOK
<1>15. ASSUME NEW t \in Threads, Shutdown(t) PROVE StreamStep
  BY <1>15, <1>t, <1>t1, <1>c, <1>c1, QuietStep DEF Shutdown, TypeOK
<1>16. ASSUME NEW t \in Threads, CloseSocket(t) PROVE StreamStep
  BY <1>16, <1>t, <1>t1, <1>c, <1>c1, QuietStep DEF CloseSocket, TypeOK
<1>17. ASSUME NEW t \in Threads, ReturnHandleRead(t) PROVE StreamStep
  BY <1>17, <1>t, <1>t1, <1>c, <1>c1, QuietStep DEF ReturnHandleRead, TypeOK
<1>18. ASSUME NEW t \in Threads, ReturnWSClose(t) PROVE StreamStep
  BY <1>18, <1>t, <1>t1, <1>c, <1>c1, QuietStep DEF ReturnWSClose, TypeOK
<1>19. ASSUME NEW t \in Threads, ReturnWSPush(t) PROVE StreamStep
  <2>1. write_op' = write_op
    BY <1>19, <1>o DEF ReturnWSPush, Overflowing, InStop, WriteIfSingle
  <2>2. /\ \A u \in Threads : pc'[u] = "write" <=> pc[u] = "write"
        /\ \A u \in Threads : pc'[u] = "dequeue" <=> pc[u] = "dequeue"
    BY <1>19, <1>t DEF ReturnWSPush, TypeOK
  <2> QED BY <2>1, <2>2, <1>19, <1>t, <1>t1, <1>c, <1>c1, QuietStep DEF ReturnWSPush
<1>20. ASSUME NEW t \in Threads, ReturnHandleWrite(t) PROVE StreamStep
  BY <1>20, <1>t, <1>t1, <1>c, <1>c1, QuietStep DEF ReturnHandleWrite, TypeOK
<1>21. ASSUME NEW m \in Msg, WriteSucceeds(m) PROVE StreamStep
  <2>1. send_q # <<>> /\ NoCompletion /\ \A k \in Msg : write_op[k] # "none" <=> k = Head(send_q)
    BY <1>21, <1>w DEF WriteSucceeds, Writer, NoWrite
  <2>2. m = Head(send_q)
    BY <2>1, <1>21 DEF WriteSucceeds
  <2>3. ~FrontSent /\ FrontSent'
    BY <2>1, <2>2, <1>21, <1>t DEF WriteSucceeds, FrontSent, NoCompletion, TypeOK
  <2>4. Enqueued' = Enqueued
    BY <1>21, <1>t, <1>t1, <1>c, <1>c1, EnqueuedFrame DEF WriteSucceeds
  <2> QED BY <2>1, <2>2, <2>3, <2>4, <1>21
      DEF WriteSucceeds, StreamStep, Sent, Unsent, Healthy, Transmitting
<1>22. ASSUME NEW m \in Msg, WriteFails(m) PROVE StreamStep
  BY <1>22, <1>t, <1>t1, <1>c, <1>c1, QuietStep DEF WriteFails, TypeOK, Transmitting
<1>23. CASE ReadSucceeds
  BY <1>23, <1>t, <1>t1, <1>c, <1>c1, QuietStep DEF ReadSucceeds, TypeOK
<1>24. CASE ReadFails
  BY <1>24, <1>t, <1>t1, <1>c, <1>c1, QuietStep DEF ReadFails, TypeOK
<1>25. CASE LinkFails
  BY <1>25, <1>t, <1>t1, <1>c, <1>c1, QuietStep DEF LinkFails, TypeOK
<1>26. CASE DestroyService
  <2>1. ~FrontSent'
    BY <1>26, <1>t DEF DestroyService, FrontSent, TypeOK
  <2>2. Unsent' = 0
    BY <2>1, <1>26 DEF DestroyService, Unsent
  <2>3. sock' # "open"
    BY <1>26, <1>s DEF DestroyService, Stopping, StopSteps
  <2>4. Enqueued' = Enqueued
    BY <1>26, <1>t, <1>t1, <1>c, <1>c1, EnqueuedFrame DEF DestroyService
  <2> QED BY <2>2, <2>3, <2>4, <1>26 DEF DestroyService, StreamStep, Dropped, Healthy
<1>27. CASE vars' = vars
  BY <1>27 DEF vars, netvars, appvars, StreamStep, Quiet, Enqueued, Carried, Unsent, FrontSent, Healthy
<1>28. CASE Gone
  BY <1>28, <1>27 DEF Gone
<1> HIDE DEF Enter, Goto, Leave
<1> QED
  BY <1>1, <1>2, <1>3, <1>4, <1>5, <1>6, <1>7, <1>8, <1>9, <1>10, <1>11,
     <1>12, <1>13, <1>14, <1>15, <1>16, <1>17, <1>18, <1>19, <1>20, <1>21,
     <1>22, <1>23, <1>24, <1>25, <1>26, <1>27, <1>28
  DEF Next, Continue, Stop, Return, Network

\* The range of the two quantities, and NothingLost in terms of them.
LEMMA Quantities ==
  ASSUME TypeOK, Control, Writer
  PROVE  /\ Enqueued \in Nat /\ Enqueued <= pushed
         /\ Unsent \in Nat /\ Unsent <= Len(send_q)
         /\ NothingLost <=> (Healthy => Len(wire) + Unsent = Enqueued)
<1>1. Enqueued \in Nat /\ Enqueued <= pushed
  BY DEF Enqueued, Carried, TypeOK, Control
<1>2. Enqueued + (IF Carried = {} THEN 0 ELSE 1) = pushed
  BY DEF Enqueued, TypeOK
<1>3. FrontSent => Len(send_q) > 0
  <2>1. FrontSent => send_q # <<>>
    BY DEF FrontSent, Writer, NoWrite, NoCompletion
  <2> QED BY <2>1 DEF TypeOK
<1>4. Unsent \in Nat /\ Unsent <= Len(send_q)
  BY <1>3 DEF Unsent, TypeOK
<1>5. Len(wire) \in Nat /\ pushed \in Nat
  BY DEF TypeOK
<1> QED BY <1>1, <1>2, <1>4, <1>5 DEF NothingLost, Healthy

\* No step loses a message of a healthy connection.
LEMMA NothingLostStep == ASSUME IInv, [Next]_vars PROVE NothingLost'
<1>1. StreamStep
  BY StreamOfStep
<1>2. TypeOK /\ Control /\ Writer /\ NothingLost /\ TypeOK' /\ Control' /\ Writer'
  BY TypeOKStep, ControlStep, WriterStep DEF IInv
<1>3. /\ Enqueued \in Nat /\ Unsent \in Nat
      /\ Healthy => Len(wire) + Unsent = Enqueued
      /\ send_q \in Seq(Msg) /\ wire \in Seq(Msg)
  BY <1>2, Quantities DEF TypeOK
<1>4. SUFFICES ASSUME Healthy' PROVE Len(wire') + Unsent' = Enqueued'
  <2>1. NothingLost' <=> (Healthy' => Len(wire)' + Unsent' = Enqueued')
    BY <1>2 DEF NothingLost, Healthy, Enqueued, TypeOK
  <2> QED BY <2>1
<1>5. Healthy
  BY <1>1, <1>4 DEF StreamStep
<1>6. CASE Quiet \/ Pushed \/ Dequeued
  BY <1>3, <1>5, <1>6 DEF Quiet, Pushed, Dequeued
<1>7. CASE Sent
  <2>1. Len(wire') = Len(wire) + 1
    BY <1>3, <1>7 DEF Sent
  <2> QED BY <1>3, <1>5, <1>7, <2>1 DEF Sent
<1>8. CASE Dropped
  BY <1>4, <1>8 DEF Dropped
<1> QED BY <1>1, <1>6, <1>7, <1>8 DEF StreamStep

\* Types of the queue and the wire under the invariant.
LEMMA StreamFacts ==
  ASSUME IInv
  PROVE  /\ send_q \in Seq(Msg) /\ wire \in Seq(Msg)
         /\ Len(send_q) \in Nat /\ Len(wire) \in Nat
         /\ Enqueued \in Nat /\ Unsent \in Nat
         /\ \A i \in 1 .. Len(wire) : wire[i] \in Nat
<1>1. send_q \in Seq(Msg) /\ wire \in Seq(Msg)
  BY DEF IInv, TypeOK
<1>2. Enqueued \in Nat /\ Unsent \in Nat
  BY Quantities DEF IInv
<1>3. Msg \subseteq Nat
  BY MaxMsgsAssumption DEF Msg
<1>4. Len(send_q) \in Nat /\ Len(wire) \in Nat
  BY <1>1
<1>5. \A i \in 1 .. Len(wire) : wire[i] \in Msg
  BY <1>1
<1> QED BY <1>1, <1>2, <1>3, <1>4, <1>5

\* The front of the queue is the oldest message not dequeued.
LEMMA FrontOfQueue ==
  ASSUME IInv, send_q # <<>>
  PROVE  Head(send_q) = Enqueued - Len(send_q) + 1
<1>1. send_q \in Seq(Msg) /\ Enqueued \in Nat
  BY StreamFacts
<1>2. 1 \in 1 .. Len(send_q) /\ Head(send_q) = send_q[1]
  BY <1>1
<1>3. send_q[1] = (Enqueued - Len(send_q)) + 1
  BY <1>2 DEF IInv, Order
<1> QED BY <1>2, <1>3

\* The queue stays the latest messages in order, ahead of the wire.
LEMMA OrderStep == ASSUME IInv, [Next]_vars PROVE Order'
<1> DEFINE E == Enqueued
           U == Unsent
<1>1. StreamStep
  BY StreamOfStep
<1>2. /\ send_q \in Seq(Msg) /\ wire \in Seq(Msg) /\ E \in Nat /\ U \in Nat
      /\ Len(send_q) \in Nat /\ Len(wire) \in Nat
      /\ Len(send_q) <= E
      /\ \A i \in 1 .. Len(send_q) : send_q[i] = (E - Len(send_q)) + i
      /\ \A i \in 1 .. Len(wire) : wire[i] \in Nat /\ wire[i] <= E - U
  BY StreamFacts DEF IInv, Order
<1>3. CASE Quiet
  BY <1>2, <1>3 DEF Order, Quiet
<1>4. CASE Pushed
  <2>1. Len(send_q') = Len(send_q) + 1
    BY <1>2, <1>4 DEF Pushed
  <2>2. Len(send_q') <= E'
    BY <1>2, <1>4, <2>1 DEF Pushed
  <2>3. ASSUME NEW i \in 1 .. Len(send_q') PROVE send_q'[i] = (E' - Len(send_q')) + i
    <3>1. CASE i \in 1 .. Len(send_q)
      <4>1. send_q'[i] = send_q[i]
        BY <1>2, <1>4, <3>1 DEF Pushed
      <4> QED BY <1>2, <1>4, <2>1, <3>1, <4>1 DEF Pushed
    <3>2. CASE i = Len(send_q) + 1
      <4>1. send_q'[i] = E + 1
        BY <1>2, <1>4, <3>2 DEF Pushed
      <4> QED BY <1>2, <1>4, <2>1, <3>2, <4>1 DEF Pushed
    <3> QED BY <1>2, <2>1, <3>1, <3>2
  <2>4. E' - U' = E - U /\ wire' = wire
    BY <1>2, <1>4 DEF Pushed
  <2> QED BY <1>2, <2>2, <2>3, <2>4 DEF Order
<1>5. CASE Dequeued
  <2>1. Len(send_q') = Len(send_q) - 1 /\ E' = E
    BY <1>2, <1>5 DEF Dequeued
  <2>2. ASSUME NEW i \in 1 .. Len(send_q') PROVE send_q'[i] = (E' - Len(send_q')) + i
    <3>1. i + 1 \in 1 .. Len(send_q) /\ send_q'[i] = send_q[i + 1]
      BY <1>2, <1>5, <2>1 DEF Dequeued
    <3> QED BY <1>2, <2>1, <3>1
  <2> QED BY <1>2, <1>5, <2>1, <2>2 DEF Order, Dequeued
<1>6. CASE Dropped
  <2>1. Len(send_q') = 0 /\ U' = 0 /\ E' = E /\ wire' = wire
    BY <1>6 DEF Dropped
  <2>2. \A i \in 1 .. Len(wire) : wire[i] <= E - 0
    BY <1>2
  <2> QED BY <1>2, <2>1, <2>2 DEF Order
<1>7. CASE Sent
  <2>1. E' = E /\ send_q' = send_q /\ E' - U' = E - Len(send_q) + 1 /\ U = Len(send_q)
    BY <1>2, <1>7 DEF Sent
  <2>2. ASSUME NEW i \in 1 .. Len(wire') PROVE wire'[i] <= E' - U'
    <3>1. Head(send_q) = E - Len(send_q) + 1
      BY <1>7, FrontOfQueue DEF Sent
    <3>2. Len(wire') = Len(wire) + 1
      BY <1>2, <1>7 DEF Sent
    <3>3. CASE i \in 1 .. Len(wire)
      <4>1. wire'[i] = wire[i]
        BY <1>2, <1>7, <3>3 DEF Sent
      <4> QED BY <1>2, <2>1, <3>3, <4>1
    <3>4. CASE i = Len(wire) + 1
      <4>1. wire'[i] = Head(send_q)
        BY <1>2, <1>7, <3>4 DEF Sent
      <4> QED BY <1>2, <2>1, <3>1, <4>1
    <3> QED BY <1>2, <3>2, <3>3, <3>4
  <2> QED BY <1>2, <2>1, <2>2 DEF Order
<1> QED BY <1>1, <1>3, <1>4, <1>5, <1>6, <1>7 DEF StreamStep

\* A message put on the wire is later than those there.
LEMMA StreamInOrderStep == ASSUME IInv, [Next]_vars PROVE StreamInOrder'
<1>1. StreamStep
  BY StreamOfStep
<1>2. CASE wire' = wire
  BY <1>2 DEF IInv, StreamInOrder
<1>3. CASE Sent
  <2>1. /\ send_q \in Seq(Msg) /\ wire \in Seq(Msg) /\ Enqueued \in Nat
        /\ Len(send_q) \in Nat /\ Len(wire) \in Nat
        /\ Unsent = Len(send_q)
    BY <1>3, StreamFacts DEF Sent
  <2>2. Head(send_q) = Enqueued - Len(send_q) + 1
    BY <1>3, FrontOfQueue DEF Sent
  <2>3. \A i \in 1 .. Len(wire) : wire[i] \in Nat /\ wire[i] <= Enqueued - Len(send_q)
    BY <2>1, StreamFacts DEF IInv, Order
  <2>4. /\ Len(wire') = Len(wire) + 1
        /\ \A i \in 1 .. Len(wire) : wire'[i] = wire[i]
        /\ wire'[Len(wire) + 1] = Head(send_q)
    BY <1>3, <2>1 DEF Sent
  <2>5. \A i \in 1 .. Len(wire) : wire[i] < Head(send_q)
    BY <2>1, <2>2, <2>3
  <2>6. ASSUME NEW i \in 1 .. Len(wire'), NEW j \in 1 .. Len(wire'), i < j
        PROVE  wire'[i] < wire'[j]
    <3>1. i \in 1 .. Len(wire)
      BY <2>1, <2>4, <2>6
    <3>2. CASE j \in 1 .. Len(wire)
      BY <2>4, <2>6, <3>1, <3>2 DEF IInv, StreamInOrder
    <3>3. CASE j = Len(wire) + 1
      BY <2>4, <2>5, <3>1, <3>3
    <3> QED BY <2>1, <2>4, <3>2, <3>3
  <2> QED BY <2>6 DEF StreamInOrder
<1> QED BY <1>1, <1>2, <1>3 DEF StreamStep, Quiet, Pushed, Dequeued, Dropped

\* Until the socket is touched it is the next one.
LEMMA StreamIsPrefixStep == ASSUME IInv, [Next]_vars PROVE StreamIsPrefix'
<1>1. StreamStep
  BY StreamOfStep
<1>2. SUFFICES ASSUME sock' = "open"
               PROVE  \A i \in 1 .. Len(wire') : wire'[i] = i
  BY DEF StreamIsPrefix
<1>3. sock = "open" /\ \A i \in 1 .. Len(wire) : wire[i] = i
  BY <1>1, <1>2 DEF StreamStep, IInv, StreamIsPrefix
<1>4. CASE wire' = wire
  BY <1>3, <1>4
<1>5. CASE Sent
  <2>1. /\ send_q \in Seq(Msg) /\ wire \in Seq(Msg) /\ Enqueued \in Nat
        /\ Len(send_q) \in Nat /\ Len(wire) \in Nat
        /\ Unsent = Len(send_q)
    BY <1>5, StreamFacts DEF Sent
  <2>2. Len(wire) + Unsent = Enqueued
    BY <1>3, <1>5, Quantities DEF Sent, IInv
  <2>3. Head(send_q) = Len(wire) + 1
    BY <1>5, <2>1, <2>2, FrontOfQueue DEF Sent
  <2>4. /\ Len(wire') = Len(wire) + 1
        /\ \A i \in 1 .. Len(wire) : wire'[i] = wire[i]
        /\ wire'[Len(wire) + 1] = Head(send_q)
    BY <1>5, <2>1 DEF Sent
  <2>5. \A i \in 1 .. Len(wire') : i \in 1 .. Len(wire) \/ i = Len(wire) + 1
    BY <2>1, <2>4
  <2> QED BY <1>3, <2>3, <2>4, <2>5
<1> QED BY <1>1, <1>4, <1>5 DEF StreamStep, Quiet, Pushed, Dequeued, Dropped

-----------------------------------------------------------------------------
(* The invariant and what follows *)

\* The connection _create_ws_connection makes satisfies the invariant.
LEMMA InitIInv == ASSUME Init PROVE IInv
<1> USE ThreadsAssumption, QMaxAssumption, MaxMsgsAssumption DEF Init
<1>1. TypeOK
  <2>1. pc \in [Threads -> Steps] /\ op \in [Threads -> Calls]
    BY DEF Steps, Calls
  <2>2. arg \in [Threads -> 0 .. MaxMsgs] /\ write_op \in [Msg -> OpStates]
    BY DEF OpStates
  <2>3. send_q \in Seq(Msg) /\ wire \in Seq(Msg)
    OBVIOUS
  <2>4. pushed \in 0 .. MaxMsgs /\ onclose \in Nat
    OBVIOUS
  <2>5. read_op \in OpStates /\ sock \in SockStates /\ link \in {"up", "reset"}
    BY DEF OpStates, SockStates
  <2> QED BY <2>1, <2>2, <2>3, <2>4, <2>5 DEF TypeOK
<1>2. Control
  BY DEF Control, InStop, StopSteps
<1>3. Stopping /\ Guarded
  BY DEF Stopping, StopSteps, Guarded
<1>4. Writer /\ NoSpuriousError
  BY DEF Writer, NoWrite, NoCompletion, NoSpuriousError
<1>5. Overflowing
  BY DEF Overflowing, InStop, StopSteps
<1>6. Enqueued = 0 /\ Unsent = 0
  BY DEF Enqueued, Carried, Unsent, FrontSent
<1>7. Order /\ StreamIsPrefix /\ StreamInOrder
  BY <1>6 DEF Order, StreamIsPrefix, StreamInOrder
<1>8. Carried = {}
  BY DEF Carried
<1>9. NothingLost
  BY <1>6, <1>8 DEF NothingLost
<1> QED BY <1>1, <1>2, <1>3, <1>4, <1>5, <1>7, <1>9 DEF IInv

\* Every step preserves it.
LEMMA NextIInv == ASSUME IInv, [Next]_vars PROVE IInv'
BY TypeOKStep, ControlStep, StoppingStep, GuardedStep, WriterStep,
   OverflowingStep, NoSpuriousErrorStep, OrderStep, StreamIsPrefixStep,
   StreamInOrderStep, NothingLostStep DEF IInv

\* The invariant holds in every reachable state of ws/ws_connection.cpp.
THEOREM Invariance == Spec => []IInv
BY InitIInv, NextIInv, PTL DEF Spec

\* Every variable of the connection keeps its type: in particular the writer
\* never takes the front of an empty queue and no callback is lost or counted
\* out of range.
THEOREM TypeCorrect == Spec => []TypeOK
<1>1. IInv => TypeOK
  BY DEF IInv
<1> QED BY <1>1, Invariance, PTL

\* The case analysis of the header of ws_connection.h: a non-empty queue has
\* one write under way, of its front; an empty queue has none.
THEOREM WriterServesQueueAlways == Spec => []WriterServesQueue
<1>1. IInv => WriterServesQueue
  BY WriterIsWriterServesQueue DEF IInv
<1> QED BY <1>1, Invariance, PTL

\* What a client of an unstopped connection receives is what was pushed.
THEOREM StreamIsPrefixAlways == Spec => []StreamIsPrefix
<1>1. IInv => StreamIsPrefix
  BY DEF IInv
<1> QED BY <1>1, Invariance, PTL

\* Not even stop() repeats or reorders messages.
THEOREM StreamInOrderAlways == Spec => []StreamInOrder
<1>1. IInv => StreamInOrder
  BY DEF IInv
<1> QED BY <1>1, Invariance, PTL

\* On a healthy connection every message is sent, queued or being pushed.
THEOREM NothingLostAlways == Spec => []NothingLost
<1>1. IInv => NothingLost
  BY DEF IInv
<1> QED BY <1>1, Invariance, PTL

\* A queue above the limit belongs to a connection that is stopping.
THEOREM OverflowStopsAlways == Spec => []OverflowStops
<1>1. ASSUME IInv PROVE OverflowStops
  <2>1. SUFFICES ASSUME send_q_mx = NoThread, Len(send_q) > QMax, ~closed
                 PROVE  FALSE
    BY <1>1 DEF OverflowStops, IInv, TypeOK
  <2>2. PICK t \in Threads : op[t] = "WSPush" /\ pc[t] = "stop"
    BY <1>1, <2>1 DEF IInv, Overflowing
  <2>3. send_q_mx = t
    BY <1>1, <2>2 DEF IInv, Control, InStop
  <2> QED BY <2>1, <2>3, ThreadsAssumption
<1> QED BY <1>1, Invariance, PTL

\* "close only once": one thread tears the socket down, after one ws_onclose.
THEOREM StopRunsOnceAlways == Spec => []StopRunsOnce
<1>1. ASSUME IInv PROVE StopRunsOnce
  <2> USE <1>1 DEF IInv, TypeOK, Stopping, StopSteps
  <2>1. \A t, u \in Threads : pc[t] \in StopSteps /\ pc[u] \in StopSteps => t = u
    OBVIOUS
  <2>2. CASE ~closed
    BY <2>1, <2>2 DEF StopRunsOnce
  <2>3. CASE closed /\ \E t \in Threads : pc[t] = "onclose"
    BY <2>1, <2>3 DEF StopRunsOnce
  <2>4. CASE closed /\ \A t \in Threads : pc[t] # "onclose"
    <3>1. onclose = 1
      BY <2>4
    <3> QED BY <2>1, <2>4, <3>1 DEF StopRunsOnce
  <2> QED BY <2>2, <2>3, <2>4
<1> QED BY <1>1, Invariance, PTL

\* While the io_service lives the last shared_ptr to a connection goes only
\* after stop() has run to its end; when the io_service goes ~WSConnection runs
\* it. Either way nothing of the connection is left behind.
THEOREM ReleasedCleanAlways == Spec => []ReleasedClean
<1>1. ASSUME IInv PROVE ReleasedClean
  <2>1. SUFFICES ASSUME ~Alive
                 PROVE  /\ closed /\ onclose = 1 /\ sock = "closed"
                        /\ send_q = <<>>
                        /\ send_q_mx = NoThread /\ ws_conns_mx = NoThread
    BY DEF ReleasedClean
  <2>2. /\ read_op = "none"
        /\ \A m \in Msg : write_op[m] = "none"
        /\ \A t \in Threads : pc[t] = "idle" /\ op[t] = "none"
    BY <1>1, <2>1 DEF Alive, IInv, Control
  <2>3. closed
    BY <1>1, <2>2 DEF IInv, TypeOK, Guarded
  <2>4. onclose = 1 /\ sock = "closed"
    BY <1>1, <2>2, <2>3 DEF IInv, Stopping, StopSteps
  <2>5. send_q = <<>>
    <3>1. SUFFICES ASSUME send_q # <<>> PROVE FALSE
      OBVIOUS
    <3>2. Head(send_q) \in Msg
      BY <1>1, <3>1 DEF IInv, TypeOK
    <3> QED BY <1>1, <2>2, <3>1, <3>2 DEF IInv, Writer
  <2>6. send_q_mx = NoThread /\ ws_conns_mx = NoThread
    BY <1>1, <2>2 DEF IInv, TypeOK, Control
  <2> QED BY <2>3, <2>4, <2>5, <2>6
<1> QED BY <1>1, Invariance, PTL

-----------------------------------------------------------------------------
(* WSConnection implements WSChannel for every value of the constants.     *)
(* The quantity that decides which step of the channel a step of the       *)
(* connection is, is whether somebody still refers to the connection.      *)

\* The initial connection is the initial channel.
LEMMA InitChannel == ASSUME Init PROVE Channel!Init
<1>1. Alive
  BY DEF Init, Alive
<1> QED BY <1>1 DEF Init, Channel!Init, ChannelPhase

\* A connection nobody refers to does nothing any more.
LEMMA DeadStays ==
  ASSUME IInv, Next, ~Alive
  PROVE  UNCHANGED <<pushed, wire, sock>> /\ ~Alive'
<1>1. /\ read_op = "none"
      /\ \A m \in Msg : write_op[m] = "none"
      /\ \A t \in Threads : pc[t] = "idle"
  BY DEF Alive
<1>2. CASE LinkFails
  BY <1>1, <1>2 DEF LinkFails, Alive
<1>3. CASE Gone
  BY <1>3, <1>1 DEF Gone, vars, netvars, Alive
<1>4. ASSUME NEW t \in Threads PROVE ~Continue(t)
  BY <1>1 DEF Continue, StartOnOpen, StartAsyncRead, Enqueue, EnqueueOverflow,
     Dequeue, Clear, Stop, StopFirst, StopAgain, StopOnClose, Cancel, Shutdown,
     CloseSocket, Return, ReturnHandleRead, ReturnWSClose, ReturnWSPush,
     ReturnHandleWrite, Goto, Leave
<1>5. ASSUME NEW t \in Threads
      PROVE  ~WSPush(t) /\ ~WSClose(t) /\ ~HandleRead(t) /\ ~HandleWrite(t)
  BY <1>1 DEF WSPush, WSClose, HandleRead, HandleWrite, Completed, Alive
<1>6. \A m \in Msg : ~WriteSucceeds(m) /\ ~WriteFails(m)
  BY <1>1 DEF WriteSucceeds, WriteFails
<1>7. ~ReadSucceeds /\ ~ReadFails /\ ~DestroyService
  BY <1>1 DEF ReadSucceeds, ReadFails, DestroyService, Alive
<1> QED BY <1>2, <1>3, <1>4, <1>5, <1>6, <1>7 DEF Next, Network

\* What a step does to the number of pushes, the wire and the socket.
Forwards == /\ pushed' = pushed + 1
            /\ UNCHANGED <<wire, sock>> /\ Alive'
Silent == UNCHANGED <<pushed, wire>> /\ (sock = "open" \/ sock' # "open")
Transmits == /\ UNCHANGED <<pushed, sock>> /\ Alive'
             /\ send_q # <<>> /\ wire' = Append(wire, Head(send_q))
             /\ Unsent = Len(send_q)
             /\ sock = "open" => Healthy

\* Every step forwards a message, transmits one, or leaves both alone.
LEMMA ThreeSteps ==
  ASSUME IInv, Next
  PROVE  Forwards \/ Silent \/ Transmits
<1>1. ASSUME NEW t \in Threads, WSPush(t) PROVE Forwards
  <2>1. pc'[t] = "write"
    BY <1>1 DEF WSPush, Enter, IInv, TypeOK
  <2> QED BY <1>1, <2>1 DEF WSPush, Forwards, netvars, Alive
<1>2. ASSUME NEW m \in Msg, WriteSucceeds(m) PROVE Transmits
  <2>1. send_q # <<>> /\ NoCompletion /\ \A k \in Msg : write_op[k] # "none" <=> k = Head(send_q)
    BY <1>2 DEF WriteSucceeds, IInv, Writer, NoWrite
  <2>2. m = Head(send_q)
    BY <2>1, <1>2 DEF WriteSucceeds
  <2>3. ~FrontSent
    BY <2>1, <2>2, <1>2 DEF WriteSucceeds, FrontSent, NoCompletion
  <2>4. Alive'
    BY <1>2 DEF WriteSucceeds, Alive, IInv, TypeOK
  <2> QED BY <2>1, <2>2, <2>3, <2>4, <1>2
      DEF WriteSucceeds, Transmits, Unsent, Healthy, Transmitting
<1>3. ASSUME NEW t \in Threads, Continue(t) PROVE Silent
  BY <1>3 DEF Continue, StartOnOpen, StartAsyncRead, Enqueue, EnqueueOverflow,
     Dequeue, Clear, Stop, StopFirst, StopAgain, StopOnClose, Cancel, Shutdown,
     CloseSocket, Return, ReturnHandleRead, ReturnWSClose, ReturnWSPush,
     ReturnHandleWrite, netvars, Silent
<1>4. ASSUME NEW t \in Threads, WSClose(t) \/ HandleRead(t) \/ HandleWrite(t)
      PROVE  Silent
  BY <1>4 DEF WSClose, HandleRead, HandleWrite, netvars, Silent
<1>5. ASSUME NEW m \in Msg, WriteFails(m) PROVE Silent
  BY <1>5 DEF WriteFails, netvars, Silent
<1>6. CASE ReadSucceeds \/ ReadFails \/ LinkFails
  BY <1>6 DEF ReadSucceeds, ReadFails, LinkFails, netvars, Silent
<1>7. CASE DestroyService
  BY <1>7 DEF DestroyService, Silent, IInv, TypeOK
<1>8. CASE Gone
  BY <1>8 DEF Gone, vars, netvars, Silent
<1> QED BY <1>1, <1>2, <1>3, <1>4, <1>5, <1>6, <1>7, <1>8 DEF Next, Network

\* The message a transmission puts on the wire is later than all there, and
\* the next one while the socket is open.
LEMMA SentMessage ==
  ASSUME IInv, Transmits
  PROVE  /\ Head(send_q) \in (Channel!LastSent + 1) .. pushed
         /\ sock = "open" => Head(send_q) = Channel!LastSent + 1
<1>1. /\ send_q \in Seq(Msg) /\ wire \in Seq(Msg)
      /\ Len(send_q) \in Nat /\ Len(wire) \in Nat
      /\ Enqueued \in Nat /\ Enqueued <= pushed /\ pushed \in Nat
      /\ Unsent = Len(send_q) /\ Len(send_q) > 0
  <2>1. send_q # <<>> /\ Unsent = Len(send_q)
    BY DEF Transmits
  <2>2. pushed \in Nat
    BY MaxMsgsAssumption DEF IInv, TypeOK
  <2>3. Enqueued <= pushed
    BY Quantities DEF IInv
  <2> QED BY <2>1, <2>2, <2>3, StreamFacts
<1>2. Head(send_q) = Enqueued - Len(send_q) + 1
  BY <1>1, FrontOfQueue DEF Transmits
<1>3. Len(send_q) <= Enqueued
  BY DEF IInv, Order
<1>4. CASE wire = <<>>
  <2>1. Channel!LastSent = 0 /\ Len(wire) = 0
    BY <1>4 DEF Channel!LastSent
  <2>2. sock = "open" => Head(send_q) = 1
    <3>1. sock = "open" => Len(wire) + Unsent = Enqueued
      BY Quantities DEF Transmits, IInv
    <3> QED BY <1>1, <1>2, <2>1, <3>1
  <2> QED BY <1>1, <1>2, <1>3, <2>1, <2>2
<1>5. CASE wire # <<>>
  <2>1. Channel!LastSent = wire[Len(wire)]
    BY <1>5 DEF Channel!LastSent
  <2>2. Len(wire) \in 1 .. Len(wire)
    BY <1>1, <1>5
  <2>3. wire[Len(wire)] \in Nat /\ wire[Len(wire)] <= Enqueued - Len(send_q)
    BY <1>1, <2>2, StreamFacts DEF IInv, Order
  <2>4. sock = "open" => Head(send_q) = wire[Len(wire)] + 1
    <3>1. sock = "open" => Len(wire) + Unsent = Enqueued
      BY Quantities DEF Transmits, IInv
    <3>2. sock = "open" => wire[Len(wire)] = Len(wire)
      BY <2>2 DEF IInv, StreamIsPrefix
    <3> QED BY <1>1, <1>2, <3>1, <3>2
  <2> QED BY <1>1, <1>2, <1>3, <2>1, <2>3, <2>4
<1> QED BY <1>4, <1>5

\* Every step of the connection is a step of the channel or none.
LEMMA ChannelStep ==
  ASSUME IInv, [Next]_vars
  PROVE  [Channel!Next]_(Channel!cvars)
<1> USE DEF ChannelPhase, Channel!cvars
<1>1. CASE vars' = vars
  BY <1>1 DEF vars, netvars, Alive
<1>2. CASE Next /\ ~Alive
  BY <1>2, DeadStays
<1>3. CASE Next /\ Alive /\ Silent
  <2>1. CASE ~Alive'
    BY <1>3, <2>1 DEF Silent, Channel!Next, Channel!Release
  <2>2. CASE Alive' /\ sock = "open" /\ sock' # "open"
    BY <1>3, <2>2 DEF Silent, Channel!Next, Channel!Close
  <2>3. CASE Alive' /\ (sock = "open" <=> sock' = "open")
    BY <1>3, <2>3 DEF Silent
  <2> QED BY <1>3, <2>1, <2>2, <2>3 DEF Silent
<1>4. CASE Next /\ Alive /\ Forwards
  BY <1>4 DEF Forwards, Channel!Next, Channel!Accept
<1>5. CASE Next /\ Alive /\ Transmits
  <2>1. /\ Head(send_q) \in (Channel!LastSent + 1) .. pushed
        /\ sock = "open" => Head(send_q) = Channel!LastSent + 1
    BY <1>5, SentMessage
  <2>2. wire' = Append(wire, Head(send_q)) /\ ChannelPhase' = ChannelPhase
    BY <1>5 DEF Transmits
  <2>3. CASE sock = "open"
    <3>1. Channel!LastSent \in Nat /\ pushed \in Nat
      <4>1. Channel!LastSent = IF wire = <<>> THEN 0 ELSE wire[Len(wire)]
        BY DEF Channel!LastSent
      <4>2. wire # <<>> => Len(wire) \in 1 .. Len(wire)
        BY StreamFacts
      <4> QED BY <4>1, <4>2, StreamFacts, MaxMsgsAssumption DEF IInv, TypeOK
    <3>2. Channel!LastSent < pushed
      BY <2>1, <2>3, <3>1
    <3>3. ChannelPhase = "open"
      BY <1>5, <2>3
    <3> QED BY <1>5, <2>1, <2>2, <2>3, <3>2, <3>3
        DEF Transmits, Channel!Next, Channel!Transmit
  <2>4. CASE sock # "open"
    BY <1>5, <2>1, <2>2, <2>4
    DEF Transmits, Channel!Next, Channel!TransmitLate
  <2> QED BY <2>3, <2>4
<1> QED BY <1>1, <1>2, <1>3, <1>4, <1>5, ThreeSteps

\* A WSConnection with its mutexes, handlers and sockets behaves as the FIFO
\* channel its header promises, however many threads, pushes and stops race.
THEOREM Refinement == Spec => ImplementsChannel
<1>1. Init => Channel!Init
  BY InitChannel
<1>2. IInv /\ [Next]_vars => [Channel!Next]_(Channel!cvars)
  BY ChannelStep
<1> QED BY <1>1, <1>2, Invariance, PTL DEF Spec, ImplementsChannel, Channel!Spec
=============================================================================
