--------------------------- MODULE RegistryProofs ---------------------------
(***************************************************************************)
(* What holds of Registry for every set of threads and connections and     *)
(* every queue limit.  A step of a call that is under way replaces the     *)
(* innermost frame of one stack: StepFrames keeps of the nineteen actions  *)
(* only which frames may follow which, StepRegistry what they do to the    *)
(* connections and the maps, StepQueue what they do to the queues and      *)
(* StepCloses how a connection is given up; the conjuncts of the invariant *)
(* are proved from these four.                                             *)
(***************************************************************************)
EXTENDS RegistryInv, SequenceTheorems, TLAPS

\* In a step of a call, g may be one of the frames that replace the innermost
\* frame f, and these may be all of them.
Follows(f, g) ==
  /\ Fits(g) /\ g.c = f.c
  /\ Refers(g) => Refers(f) \/ Alive(f.c)
  /\ Writing(g, f.c) => Writing(f, f.c) /\ conn' = conn
  /\ g = Frame("WSPush", f.c, "overflow") => conn'[f.c].queue >= 2
Turn(f, frames) ==
  /\ Len(frames) \in 0 .. 2
  /\ \A i \in 1 .. Len(frames) : Follows(f, frames[i])
  /\ Len(frames) = 1 => frames[1].fn \in {f.fn, "stop"}
  /\ Len(frames) = 2 => frames[1].fn = "stop" /\ frames[2].fn = f.fn /\ f.fn # "stop"

\* What it may do to the connections and to the registry.
RegistryTurn(f) ==
  /\ conn' \in [Conns -> ConnType]
  /\ ws_conns' \subseteq Conns /\ ws_secure_conns' \subseteq Conns
  /\ refused' \subseteq Conns
  /\ \A d \in Conns :
       /\ conn'[d].upgrade = conn[d].upgrade
       /\ conn[d].opened => conn'[d].opened
       /\ conn'[d].opened /\ ~conn[d].opened =>
            d = f.c /\ f.fn = "create" /\ d \in Registered'
       /\ Pending(d)' => Pending(d) \/ (d = f.c /\ Refers(f))
       /\ d \in Registered \ Registered' => ~Alive(d)
       /\ d \in Registered' \ Registered => d = f.c /\ f.fn = "create"
       /\ d \in refused' \ refused =>
            /\ d = f.c /\ f.fn \in Forwarders
            /\ d \notin Registered' /\ ~(d \in Registered /\ Alive(d))

\* What it may do to the queues.
QueueTurn(t, f) ==
  /\ \A d \in Conns \ {f.c} : conn'[d] = conn[d]
  /\ LET k == conn[f.c]
         k1 == conn'[f.c]
     IN  \/ k1.queue = k.queue /\ k1.write = k.write
         \/ /\ f = Frame("WSPush", f.c, "enqueue")
            /\ k1.queue = k.queue + 1 /\ k1.write = (k.write \/ k1.queue = 1)
         \/ /\ f = Frame("WSPush", f.c, "enqueue")
            /\ k1.queue = k.queue + 1 /\ k1.write = k.write
         \/ /\ f = Frame("WSPush", f.c, "overflow")
            /\ k1.queue = k.queue /\ k1.write = (k.write \/ k.queue = 1)
         \/ /\ f = Frame("handle_write", f.c, "dequeue")
            /\ k1.queue = k.queue - 1 /\ k1.write = (k.queue > 1) /\ conn' # conn
            /\ QueueOwners(f.c) \subseteq {t}
         \/ /\ f = Frame("handle_write", f.c, "clear")
            /\ k1.queue = 0 /\ k1.write = k.write
            /\ QueueOwners(f.c) \subseteq {t}

\* A handler of c starts with these frames.
Begins(c, r) ==
  /\ Len(r) \in 1 .. 2
  /\ Len(r) = 2 => r[1].fn = "stop"
  /\ \E i \in 1 .. Len(r) : Refers(r[i])
  /\ \A i \in 1 .. Len(r) :
       /\ Fits(r[i]) /\ r[i].c = c /\ r[i].fn \notin Forwarders
       /\ r[i].fn \in {"create", "handle_read", "handle_write"} => i = Len(r)
       /\ r[i].fn = "stop" => i = 1
       /\ Refers(r[i]) => Pending(c) \/ conn[c].upgrade
       /\ r[i].fn = "create" => ~conn'[c].upgrade /\ r[i].at = "insert"
       /\ r[i].fn # "create" => Pending(c)
       /\ r[i].at = "return" => i = 2 /\ r[1] = Frame("stop", c, "exchange")
       /\ Writing(r[i], c) => conn[c].write /\ ~conn'[c].write

\* And this becomes of its connection.
HandlerTurn(c) ==
  /\ conn' = [conn EXCEPT ![c] = conn'[c]] /\ conn'[c] \in ConnType
  /\ conn'[c].queue = conn[c].queue /\ conn'[c].opened = conn[c].opened
  /\ conn'[c].closed = conn[c].closed /\ conn'[c].sock = conn[c].sock
  /\ conn'[c].onclose = conn[c].onclose
  /\ conn'[c].upgrade => conn[c].upgrade
  /\ conn'[c].write => conn[c].write
  /\ Pending(c)' => Pending(c)
  /\ UNCHANGED <<maps, refused>>

-----------------------------------------------------------------------------
(* Stacks *)

\* The elements of a sequence whose head is replaced.
LEMMA Replaced ==
  ASSUME NEW S, NEW s \in Seq(S), s # <<>>, NEW r \in Seq(S)
  PROVE  /\ r \o Tail(s) \in Seq(S)
         /\ Len(r \o Tail(s)) = Len(r) + Len(s) - 1
         /\ Len(s) >= 1
         /\ Head(s) = s[1]
         /\ \A i \in 1 .. Len(r) : (r \o Tail(s))[i] = r[i]
         /\ \A i \in Len(r) + 1 .. Len(r) + Len(s) - 1 :
              (r \o Tail(s))[i] = s[i - Len(r) + 1]
<1>1. /\ Tail(s) \in Seq(S) /\ Len(Tail(s)) = Len(s) - 1 /\ Len(s) \in Nat \ {0}
      /\ \A i \in 1 .. Len(s) - 1 : Tail(s)[i] = s[i + 1]
  OBVIOUS
<1>2. Len(r) \in Nat
  OBVIOUS
<1>3. ASSUME NEW i \in Len(r) + 1 .. Len(r) + Len(s) - 1
      PROVE  (r \o Tail(s))[i] = s[i - Len(r) + 1]
  <2>1. (r \o Tail(s))[i] = Tail(s)[i - Len(r)]
    BY <1>1, <1>2
  <2>2. i - Len(r) \in 1 .. Len(s) - 1
    BY <1>1, <1>2
  <2> QED
    BY <1>1, <1>2, <2>1, <2>2
<1> QED
  BY <1>1, <1>2, <1>3

\* Two sequences of one element in a row.
LEMMA Pair ==
  ASSUME NEW S, NEW a \in S, NEW b \in S
  PROVE  <<a>> \o <<b>> = <<a, b>>
<1> DEFINE s == <<a>> \o <<b>>
<1>1. /\ <<a>> \in Seq(S) /\ Len(<<a>>) = 1
      /\ <<b>> \in Seq(S) /\ Len(<<b>>) = 1
  OBVIOUS
<1>2. s \in Seq(S) /\ Len(s) = 2 /\ s[1] = a /\ s[2] = b
  BY <1>1
<1>3. <<a, b>> \in Seq(S) /\ Len(<<a, b>>) = 2
  OBVIOUS
<1>4. \A i \in 1 .. Len(s) : s[i] = <<a, b>>[i]
  BY <1>2
<1> QED
  BY <1>2, <1>3, <1>4, SeqEqual

\* The destructor calls stop() or there is none to run.
LEMMA ReleasedFrames ==
  ASSUME NEW t, NEW c
  PROVE  Released(t, c) \in {<<>>, <<Frame("stop", c, "exchange")>>}
BY DEF Released

\* What a step of a call does to the stacks.
LEMMA StepFrames ==
  ASSUME Typed, NEW t \in Threads, stack[t] # <<>>, Step(t, Head(stack[t]).c)
  PROVE  \E r \in Seq(Frames) :
           stack' = [stack EXCEPT ![t] = r \o Tail(@)] /\ Turn(Head(stack[t]), r)
<1> DEFINE f == Head(stack[t])
           c == f.c
           Goal == \E r \in Seq(Frames) :
             stack' = [stack EXCEPT ![t] = r \o Tail(@)] /\ Turn(f, r)
           stop == Frame("stop", c, "exchange")
<1>1. f \in Frames /\ c \in Conns
  <2>1. stack[t] \in Seq(Frames)
    BY DEF Typed
  <2>2. f \in Frames
    BY <2>1
  <2> QED
    BY <2>2 DEF Frames
<1> SUFFICES Goal
  OBVIOUS
<1> HIDE DEF f
<1>2. \A fn \in Methods, at \in Places : Frame(fn, c, at) \in Frames
  BY <1>1 DEF Frame, Frames
<1>3. ASSUME Becomes(t, <<>>) PROVE Goal
  <2>1. <<>> \in Seq(Frames) /\ Len(<<>>) = 0
    OBVIOUS
  <2>2. Turn(f, <<>>)
    BY DEF Turn
  <2> QED
    BY <1>3, <2>1, <2>2 DEF Becomes
<1>4. ASSUME NEW g \in Frames, Becomes(t, <<g>>), g.fn \in {f.fn, "stop"}, Follows(f, g)
      PROVE  Goal
  <2>1. <<g>> \in Seq(Frames) /\ Len(<<g>>) = 1
    OBVIOUS
  <2>2. Turn(f, <<g>>)
    BY <1>4 DEF Turn
  <2> QED
    BY <1>4, <2>1, <2>2 DEF Becomes
<1>5. /\ stop \in Frames /\ stop.fn = "stop"
      /\ Follows(f, stop)
  <2>1. stop \in Frames
    BY <1>2 DEF Methods, Places
  <2>2. Follows(f, stop)
    BY DEF Follows, Fits, Frame, Refers, Writing, Forwarders
  <2> QED
    BY <2>1, <2>2 DEF Frame
<1>6. ASSUME NEW g \in Frames, Becomes(t, <<stop, g>>), g.fn = f.fn, g.fn # "stop",
             Follows(f, g)
      PROVE  Goal
  <2>1. <<stop, g>> \in Seq(Frames) /\ Len(<<stop, g>>) = 2
    BY <1>5
  <2>2. Turn(f, <<stop, g>>)
    BY <1>5, <1>6 DEF Turn
  <2> QED
    BY <1>6, <2>1, <2>2 DEF Becomes
<1>7. ASSUME Becomes(t, Released(t, c)) PROVE Goal
  BY <1>3, <1>4, <1>5, <1>7, ReleasedFrames
<1> HIDE DEF Goal, c, stop
<1>8. CASE WSAddSession(t, c)
  <2>1. f = Frame("create", c, "insert") /\ Becomes(t, <<Frame("create", c, "ws_onopen")>>)
    BY <1>8 DEF WSAddSession, At, f
  <2>2. Follows(f, Frame("create", c, "ws_onopen")) /\ f.fn = "create"
    BY <1>8, <2>1 DEF WSAddSession, Follows, Frame, Fits, Refers, Writing, Forwarders, c
  <2> QED
    BY <1>2, <1>4, <2>1, <2>2 DEF Frame, Methods, Forwarders, Places, Callbacks
<1>9. CASE StartRead(t, c)
  BY <1>3, <1>9 DEF StartRead
<1>10. CASE Forward(t, c)
  <2>1. CASE ws_forward(t, "WSPush", c) /\ Becomes(t, <<Frame("WSPush", c, "ws_onmessageout")>>)
    <3>1. f = Frame("WSPush", c, "find") /\ Alive(c)
      BY <1>10, <2>1 DEF Forward, ws_forward, At, f
    <3>2. Follows(f, Frame("WSPush", c, "ws_onmessageout")) /\ f.fn = "WSPush"
      BY <3>1 DEF Follows, Frame, Fits, Refers, Writing, Forwarders, c
    <3> QED
      BY <1>2, <1>4, <2>1, <3>2 DEF Frame, Methods, Forwarders, Places, Callbacks
  <2>2. CASE /\ ws_forward(t, "WSClose", c)
             /\ Becomes(t, <<Frame("stop", c, "exchange"), Frame("WSClose", c, "release")>>)
    <3>1. f = Frame("WSClose", c, "find") /\ Alive(c)
      BY <1>10, <2>2 DEF Forward, ws_forward, At, f
    <3>2. Follows(f, Frame("WSClose", c, "release")) /\ f.fn = "WSClose"
      BY <3>1 DEF Follows, Frame, Fits, Refers, Writing, Forwarders, c
    <3> QED
      BY <1>2, <1>6, <2>2, <3>2 DEF Frame, Methods, Forwarders, Places, Callbacks, stop
  <2> QED
    BY <1>10, <2>1, <2>2 DEF Forward
<1>11. CASE Refuse(t, c)
  BY <1>3, <1>11 DEF Refuse
<1>12. CASE Announced(t, c)
  <2>1. f = Frame("WSPush", c, "ws_onmessageout") /\ Becomes(t, <<Frame("WSPush", c, "enqueue")>>)
    BY <1>12 DEF Announced, At, f
  <2>2. Follows(f, Frame("WSPush", c, "enqueue")) /\ f.fn = "WSPush"
    BY <1>12, <2>1 DEF Announced, Follows, Frame, Fits, Refers, Writing, Forwarders, c
  <2> QED
    BY <1>2, <1>4, <2>1, <2>2 DEF Frame, Methods, Forwarders, Places, Callbacks
<1>13. CASE Enqueue(t, c)
  <2>1. f = Frame("WSPush", c, "enqueue") /\ Becomes(t, <<Frame("WSPush", c, "release")>>)
    BY <1>13 DEF Enqueue, At, f
  <2>2. Follows(f, Frame("WSPush", c, "release")) /\ f.fn = "WSPush"
    BY <1>13, <2>1 DEF Enqueue, Follows, Frame, Fits, Refers, Writing, Forwarders, c
  <2> QED
    BY <1>2, <1>4, <2>1, <2>2 DEF Frame, Methods, Forwarders, Places, Callbacks
<1>14. CASE EnqueueOverflow(t, c)
  <2>1. f = Frame("WSPush", c, "enqueue") /\ Becomes(t, <<stop, Frame("WSPush", c, "overflow")>>)
    BY <1>14 DEF EnqueueOverflow, At, f, stop
  <2>2. conn'[c].queue >= 2
    BY <1>14, <1>1, QMaxAssumption DEF EnqueueOverflow, Typed, ConnType
  <2>3. Follows(f, Frame("WSPush", c, "overflow")) /\ f.fn = "WSPush"
    BY <2>2, <2>1 DEF Follows, Frame, Fits, Refers, Writing, Forwarders, c
  <2> QED
    BY <1>2, <1>6, <2>1, <2>3 DEF Frame, Methods, Forwarders, Places, Callbacks
<1>15. CASE Overflowed(t, c)
  <2>1. f = Frame("WSPush", c, "overflow") /\ Becomes(t, <<Frame("WSPush", c, "release")>>)
    BY <1>15 DEF Overflowed, At, f
  <2>2. Follows(f, Frame("WSPush", c, "release")) /\ f.fn = "WSPush"
    BY <1>15, <2>1 DEF Overflowed, Follows, Frame, Fits, Refers, Writing, Forwarders, c
  <2> QED
    BY <1>2, <1>4, <2>1, <2>2 DEF Frame, Methods, Forwarders, Places, Callbacks
<1>16. CASE Release(t, c)
  <2>1. PICK fn \in Forwarders :
          /\ At(t, fn, c, "release")
          /\ Becomes(t, IF Released(t, c) = <<>> THEN <<>>
                        ELSE Released(t, c) \o <<Frame(fn, c, "unlock")>>)
    BY <1>16 DEF Release
  <2>2. f = Frame(fn, c, "release")
    BY <2>1 DEF At, f
  <2>3. Follows(f, Frame(fn, c, "unlock")) /\ f.fn = fn
    BY <2>2 DEF Follows, Frame, Fits, Refers, Writing, Forwarders, c
  <2>4. CASE Released(t, c) = <<>>
    BY <1>3, <2>1, <2>4
  <2>5. CASE Released(t, c) # <<>>
    <3>1. Released(t, c) = <<stop>>
      BY <2>5, ReleasedFrames DEF stop
    <3>2. Frame(fn, c, "unlock") \in Frames
      BY <1>2 DEF Methods, Places
    <3>3. Becomes(t, <<stop, Frame(fn, c, "unlock")>>)
      BY <1>5, <2>1, <2>5, <3>1, <3>2, Pair
    <3> QED
      BY <1>6, <2>3, <3>2, <3>3 DEF Frame, Forwarders
  <2> QED
    BY <2>4, <2>5
<1>17. CASE Unlock(t, c)
  BY <1>3, <1>17 DEF Unlock
<1>18. CASE ReadReported(t, c)
  <2>1. f = Frame("handle_read", c, "ws_onerror") /\ Becomes(t, <<stop, Frame("handle_read", c, "return")>>)
    BY <1>18 DEF ReadReported, At, f, stop
  <2>2. Follows(f, Frame("handle_read", c, "return")) /\ f.fn = "handle_read"
    BY <2>1 DEF Follows, Frame, Fits, Refers, Writing, Forwarders, c
  <2> QED
    BY <1>2, <1>6, <2>1, <2>2 DEF Frame, Methods, Forwarders, Places, Callbacks
<1>19. CASE WriteReported(t, c)
  <2>1. f = Frame("handle_write", c, "ws_onerror") /\ Becomes(t, <<Frame("handle_write", c, "clear")>>)
    BY <1>19 DEF WriteReported, At, f
  <2>2. Follows(f, Frame("handle_write", c, "clear")) /\ f.fn = "handle_write"
    BY <1>19, <2>1 DEF WriteReported, Follows, Frame, Fits, Refers, Writing, Forwarders, c
  <2> QED
    BY <1>2, <1>4, <2>1, <2>2 DEF Frame, Methods, Forwarders, Places, Callbacks
<1>20. CASE Dequeue(t, c)
  BY <1>3, <1>7, <1>20 DEF Dequeue
<1>21. CASE Clear(t, c)
  <2>1. f = Frame("handle_write", c, "clear") /\ Becomes(t, <<stop, Frame("handle_write", c, "return")>>)
    BY <1>21 DEF Clear, At, f, stop
  <2>2. Follows(f, Frame("handle_write", c, "return")) /\ f.fn = "handle_write"
    BY <2>1 DEF Follows, Frame, Fits, Refers, Writing, Forwarders, c
  <2> QED
    BY <1>2, <1>6, <2>1, <2>2 DEF Frame, Methods, Forwarders, Places, Callbacks
<1>22. CASE HandlerReturns(t, c)
  BY <1>3, <1>22 DEF HandlerReturns
<1>23. CASE StopFirst(t, c)
  <2>1. f = Frame("stop", c, "exchange") /\ Becomes(t, <<Frame("stop", c, "ws_onclose")>>)
    BY <1>23 DEF StopFirst, At, f
  <2>2. Follows(f, Frame("stop", c, "ws_onclose")) /\ f.fn = "stop"
    BY <1>23, <2>1 DEF StopFirst, Follows, Frame, Fits, Refers, Writing, Forwarders, c
  <2> QED
    BY <1>2, <1>4, <2>1, <2>2 DEF Frame, Methods, Forwarders, Places, Callbacks
<1>24. CASE StopAgain(t, c)
  BY <1>3, <1>24 DEF StopAgain
<1>25. CASE StopSocket(t, c)
  BY <1>3, <1>25 DEF StopSocket
<1>26. CASE Throw(t, c)
  <2>1. CASE Becomes(t, Released(t, c))
    BY <1>7, <2>1
  <2>2. CASE /\ At(t, "WSPush", c, "ws_onmessageout")
             /\ Becomes(t, <<Frame("WSPush", c, "release")>>)
    <3>1. f = Frame("WSPush", c, "ws_onmessageout")
      BY <2>2 DEF At, f
    <3>2. Follows(f, Frame("WSPush", c, "release")) /\ f.fn = "WSPush"
      BY <3>1 DEF Follows, Frame, Fits, Refers, Writing, Forwarders, c
    <3> QED
      BY <1>2, <1>4, <2>2, <3>2 DEF Frame, Methods, Forwarders, Places
  <2> QED
    BY <1>26, <2>1, <2>2 DEF Throw
<1> QED
  BY <1>8, <1>9, <1>10, <1>11, <1>12, <1>13, <1>14, <1>15, <1>16,
     <1>17, <1>18, <1>19, <1>20, <1>21, <1>22, <1>23, <1>24, <1>25, <1>26 DEF Step, c, f

\* What a step of a call does to the connections and the registry.
LEMMA StepRegistry ==
  ASSUME Typed, NEW t \in Threads, stack[t] # <<>>, Step(t, Head(stack[t]).c)
  PROVE  RegistryTurn(Head(stack[t]))
<1> DEFINE f == Head(stack[t])
           c == f.c
<1>1. c \in Conns
  <2>1. stack[t] \in Seq(Frames)
    BY DEF Typed
  <2>2. f \in Frames
    BY <2>1
  <2> QED
    BY <2>2 DEF Frames
<1>2. \A fn, at : At(t, fn, c, at) => f.fn = fn
  BY DEF At, Frame
<1> SUFFICES RegistryTurn(f)
  OBVIOUS
<1> HIDE DEF f, c
<1>3. ASSUME UNCHANGED <<conn, maps, refused>> PROVE RegistryTurn(f)
  BY <1>3 DEF RegistryTurn, Typed, maps, Pending, Registered
<1>4. conn[c] \in ConnType /\ conn[c].queue \in Int /\ conn[c].onclose \in Nat
  <2>1. conn[c] \in ConnType
    BY <1>1 DEF Typed
  <2> QED
    BY <2>1 DEF ConnType
<1>5. ASSUME conn' = [conn EXCEPT ![c] = conn'[c]], conn'[c] \in ConnType,
             conn'[c].upgrade = conn[c].upgrade, conn'[c].opened = conn[c].opened,
             conn'[c].read \/ conn'[c].write => Pending(c) \/ Refers(f),
             UNCHANGED <<maps, refused>>
      PROVE  RegistryTurn(f)
  BY <1>1, <1>5 DEF RegistryTurn, Typed, maps, Pending, Registered, c
<1>6. CASE WSAddSession(t, c)
  <2>1. /\ conn' = [conn EXCEPT ![c] = conn'[c]] /\ conn'[c] = [conn[c] EXCEPT !.opened = TRUE]
        /\ c \in Registered' /\ Registered' = Registered \cup {c}
        /\ ws_conns' \subseteq Conns /\ ws_secure_conns' \subseteq Conns
        /\ UNCHANGED refused
    BY <1>1, <1>4, <1>6 DEF WSAddSession, Typed, Registered, ConnType
  <2>2. f.fn = "create"
    BY <1>2, <1>6 DEF WSAddSession
  <2>3. /\ conn'[c] \in ConnType
        /\ conn'[c].upgrade = conn[c].upgrade /\ conn'[c].opened
        /\ conn'[c].read = conn[c].read /\ conn'[c].write = conn[c].write
    BY <1>4, <2>1 DEF ConnType
  <2>4. conn' \in [Conns -> ConnType] /\ \A d \in Conns \ {c} : conn'[d] = conn[d]
    BY <1>1, <2>1, <2>3 DEF Typed
  <2>5. \A d \in Conns : Pending(d)' = Pending(d)
    BY <2>3, <2>4 DEF Pending
  <2>6. refused' \subseteq Conns /\ refused' = refused
    BY <2>1 DEF Typed
  <2> QED
    BY <1>1, <2>1, <2>2, <2>3, <2>4, <2>5, <2>6 DEF RegistryTurn, c
<1>7. CASE StartRead(t, c)
  <2>1. /\ conn' = [conn EXCEPT ![c] = conn'[c]]
        /\ conn'[c] = [conn[c] EXCEPT !.read = TRUE]
    BY <1>1, <1>7 DEF StartRead, Typed
  <2>2. /\ conn'[c] \in ConnType
        /\ conn'[c].upgrade = conn[c].upgrade /\ conn'[c].opened = conn[c].opened
    BY <1>4, <2>1 DEF ConnType
  <2>3. conn'[c].read \/ conn'[c].write => Pending(c) \/ Refers(f)
    BY <1>2, <1>4, <1>7, <2>1 DEF StartRead, ConnType, Pending, Refers
  <2> QED
    BY <1>5, <1>7, <2>1, <2>2, <2>3 DEF StartRead
<1>8. CASE Forward(t, c)
  BY <1>3, <1>8 DEF Forward
<1>9. CASE Refuse(t, c)
  BY <1>1, <1>2, <1>9
     DEF Refuse, ws_forward, RegistryTurn, Typed, Pending, Registered, Forwarders, c
<1>10. CASE Announced(t, c)
  BY <1>3, <1>10 DEF Announced
<1>11. CASE Enqueue(t, c)
  <2>1. /\ conn' = [conn EXCEPT ![c] = conn'[c]]
        /\ conn'[c] = [conn[c] EXCEPT !.queue = conn[c].queue + 1,
                                        !.write = conn[c].write \/ conn[c].queue + 1 = 1,
                                        !.live = conn[c].live \/ (conn[c].queue + 1 = 1 /\ ~Dead(c))]
    BY <1>1, <1>11 DEF Enqueue, Typed, WriteIfSingle
  <2>2. /\ conn'[c] \in ConnType
        /\ conn'[c].upgrade = conn[c].upgrade /\ conn'[c].opened = conn[c].opened
    <3> DEFINE q == conn[c].queue + 1
               w == (conn[c].write \/ conn[c].queue + 1 = 1)
               l == (conn[c].live \/ (conn[c].queue + 1 = 1 /\ ~Dead(c)))
    <3>1. q \in Int /\ w \in BOOLEAN /\ l \in BOOLEAN
      BY <1>4
    <3>2. conn'[c] = [conn[c] EXCEPT !.queue = q, !.write = w, !.live = l]
      BY <2>1
    <3> HIDE DEF q, w, l
    <3> QED
      BY <1>4, <3>1, <3>2 DEF ConnType
  <2>3. conn'[c].read \/ conn'[c].write => Pending(c) \/ Refers(f)
    BY <1>2, <1>4, <1>11, <2>1 DEF Enqueue, ConnType, Pending, Refers, Forwarders, At, Frame, f
  <2> QED
    BY <1>5, <1>11, <2>1, <2>2, <2>3 DEF Enqueue
<1>12. CASE EnqueueOverflow(t, c)
  <2>1. /\ conn' = [conn EXCEPT ![c] = conn'[c]]
        /\ conn'[c] = [conn[c] EXCEPT !.queue = @ + 1]
    BY <1>1, <1>12 DEF EnqueueOverflow, Typed
  <2>2. /\ conn'[c] \in ConnType
        /\ conn'[c].upgrade = conn[c].upgrade /\ conn'[c].opened = conn[c].opened
    BY <1>4, <2>1 DEF ConnType
  <2>3. conn'[c].read \/ conn'[c].write => Pending(c) \/ Refers(f)
    BY <1>2, <1>4, <1>12, <2>1 DEF EnqueueOverflow, ConnType, Pending
  <2> QED
    BY <1>5, <1>12, <2>1, <2>2, <2>3 DEF EnqueueOverflow
<1>13. CASE Overflowed(t, c)
  <2>1. /\ conn' = [conn EXCEPT ![c] = conn'[c]]
        /\ conn'[c] = [conn[c] EXCEPT !.queue = conn[c].queue,
                                        !.write = conn[c].write \/ conn[c].queue = 1,
                                        !.live = conn[c].live \/ (conn[c].queue = 1 /\ ~Dead(c))]
    BY <1>1, <1>13 DEF Overflowed, Typed, WriteIfSingle
  <2>2. /\ conn'[c] \in ConnType
        /\ conn'[c].upgrade = conn[c].upgrade /\ conn'[c].opened = conn[c].opened
    <3> DEFINE q == conn[c].queue
               w == (conn[c].write \/ conn[c].queue = 1)
               l == (conn[c].live \/ (conn[c].queue = 1 /\ ~Dead(c)))
    <3>1. q \in Int /\ w \in BOOLEAN /\ l \in BOOLEAN
      BY <1>4
    <3>2. conn'[c] = [conn[c] EXCEPT !.queue = q, !.write = w, !.live = l]
      BY <2>1
    <3> HIDE DEF q, w, l
    <3> QED
      BY <1>4, <3>1, <3>2 DEF ConnType
  <2>3. conn'[c].read \/ conn'[c].write => Pending(c) \/ Refers(f)
    BY <1>2, <1>4, <1>13, <2>1 DEF Overflowed, ConnType, Pending, Refers, Forwarders, At, Frame, f
  <2> QED
    BY <1>5, <1>13, <2>1, <2>2, <2>3 DEF Overflowed
<1>14. CASE Release(t, c)
  BY <1>3, <1>14 DEF Release
<1>15. CASE Unlock(t, c)
  BY <1>3, <1>15 DEF Unlock
<1>16. CASE ReadReported(t, c)
  BY <1>3, <1>16 DEF ReadReported
<1>17. CASE WriteReported(t, c)
  BY <1>3, <1>17 DEF WriteReported
<1>18. CASE Dequeue(t, c)
  <2>1. /\ conn' = [conn EXCEPT ![c] = conn'[c]]
        /\ conn'[c] = [conn[c] EXCEPT !.queue = conn[c].queue - 1,
                                        !.write = conn[c].queue > 1,
                                        !.live = conn[c].queue > 1 /\ ~Dead(c)]
    BY <1>1, <1>18 DEF Dequeue, Typed
  <2>2. /\ conn'[c] \in ConnType
        /\ conn'[c].upgrade = conn[c].upgrade /\ conn'[c].opened = conn[c].opened
    <3> DEFINE q == conn[c].queue - 1
               w == (conn[c].queue > 1)
               l == (conn[c].queue > 1 /\ ~Dead(c))
    <3>1. q \in Int /\ w \in BOOLEAN /\ l \in BOOLEAN
      BY <1>4
    <3>2. conn'[c] = [conn[c] EXCEPT !.queue = q, !.write = w, !.live = l]
      BY <2>1
    <3> HIDE DEF q, w, l
    <3> QED
      BY <1>4, <3>1, <3>2 DEF ConnType
  <2>3. conn'[c].read \/ conn'[c].write => Pending(c) \/ Refers(f)
    BY <1>2, <1>4, <1>18, <2>1 DEF Dequeue, ConnType, Pending, Refers
  <2> QED
    BY <1>5, <1>18, <2>1, <2>2, <2>3 DEF Dequeue
<1>19. CASE Clear(t, c)
  <2>1. /\ conn' = [conn EXCEPT ![c] = conn'[c]]
        /\ conn'[c] = [conn[c] EXCEPT !.queue = 0]
    BY <1>1, <1>19 DEF Clear, Typed
  <2>2. /\ conn'[c] \in ConnType
        /\ conn'[c].upgrade = conn[c].upgrade /\ conn'[c].opened = conn[c].opened
    BY <1>4, <2>1 DEF ConnType
  <2>3. conn'[c].read \/ conn'[c].write => Pending(c) \/ Refers(f)
    BY <1>2, <1>4, <1>19, <2>1 DEF Clear, ConnType, Pending
  <2> QED
    BY <1>5, <1>19, <2>1, <2>2, <2>3 DEF Clear
<1>20. CASE HandlerReturns(t, c)
  BY <1>3, <1>20 DEF HandlerReturns
<1>21. CASE StopFirst(t, c)
  <2>1. /\ conn' = [conn EXCEPT ![c] = conn'[c]]
        /\ conn'[c] = [conn[c] EXCEPT !.closed = TRUE, !.onclose = conn[c].onclose + 1]
    BY <1>1, <1>21 DEF StopFirst, Typed
  <2>2. /\ conn'[c] \in ConnType
        /\ conn'[c].upgrade = conn[c].upgrade /\ conn'[c].opened = conn[c].opened
    <3> DEFINE n == conn[c].onclose + 1
    <3>1. n \in Nat
      BY <1>4
    <3>2. conn'[c] = [conn[c] EXCEPT !.closed = TRUE, !.onclose = n]
      BY <2>1
    <3> HIDE DEF n
    <3> QED
      BY <1>4, <3>1, <3>2 DEF ConnType
  <2>3. conn'[c].read \/ conn'[c].write => Pending(c) \/ Refers(f)
    BY <1>2, <1>4, <1>21, <2>1 DEF StopFirst, ConnType, Pending
  <2> QED
    BY <1>5, <1>21, <2>1, <2>2, <2>3 DEF StopFirst
<1>22. CASE StopAgain(t, c)
  BY <1>3, <1>22 DEF StopAgain
<1>23. CASE StopSocket(t, c)
  <2>1. /\ conn' = [conn EXCEPT ![c] = conn'[c]]
        /\ conn'[c] = [conn[c] EXCEPT !.sock = "closed"]
    BY <1>1, <1>23 DEF StopSocket, Typed
  <2>2. /\ conn'[c] \in ConnType
        /\ conn'[c].upgrade = conn[c].upgrade /\ conn'[c].opened = conn[c].opened
    BY <1>4, <2>1 DEF ConnType
  <2>3. conn'[c].read \/ conn'[c].write => Pending(c) \/ Refers(f)
    BY <1>2, <1>4, <1>23, <2>1 DEF StopSocket, ConnType, Pending
  <2> QED
    BY <1>5, <1>23, <2>1, <2>2, <2>3 DEF StopSocket
<1>24. CASE Throw(t, c)
  <2>1. UNCHANGED <<conn, maps, refused>>
    BY <1>24, SMTT(40) DEF Throw
  <2> QED
    BY <1>3, <2>1
<1> QED
  BY <1>6, <1>7, <1>8, <1>9, <1>10, <1>11, <1>12, <1>13, <1>14, <1>15,
     <1>16, <1>17, <1>18, <1>19, <1>20, <1>21, <1>22, <1>23, <1>24 DEF Step, f, c

\* What a step of a call does to the queues.
LEMMA StepQueue ==
  ASSUME Typed, NEW t \in Threads, stack[t] # <<>>, Step(t, Head(stack[t]).c)
  PROVE  QueueTurn(t, Head(stack[t]))
<1> DEFINE f == Head(stack[t])
           c == f.c
<1>1. c \in Conns
  <2>1. stack[t] \in Seq(Frames)
    BY DEF Typed
  <2>2. f \in Frames
    BY <2>1
  <2> QED
    BY <2>2 DEF Frames
<1>2. \A fn, at : At(t, fn, c, at) => f = Frame(fn, c, at)
  BY DEF At
<1> SUFFICES QueueTurn(t, f)
  OBVIOUS
<1> HIDE DEF f, c
<1>3. ASSUME UNCHANGED conn PROVE QueueTurn(t, f)
  BY <1>3 DEF QueueTurn
<1> USE DEF QueueTurn, Typed, ConnType, c
<1>4. CASE WSAddSession(t, c)
  BY <1>1, <1>2, <1>4 DEF WSAddSession
<1>5. CASE StartRead(t, c)
  BY <1>1, <1>2, <1>5 DEF StartRead
<1>6. CASE Forward(t, c)
  BY <1>3, <1>6 DEF Forward
<1>7. CASE Refuse(t, c)
  BY <1>3, <1>7 DEF Refuse
<1>8. CASE Announced(t, c)
  BY <1>3, <1>8 DEF Announced
<1>9. CASE Enqueue(t, c)
  BY <1>1, <1>2, <1>9 DEF Enqueue, WriteIfSingle
<1>10. CASE EnqueueOverflow(t, c)
  BY <1>1, <1>2, <1>10 DEF EnqueueOverflow
<1>11. CASE Overflowed(t, c)
  BY <1>1, <1>2, <1>11 DEF Overflowed, WriteIfSingle
<1>12. CASE Release(t, c)
  BY <1>3, <1>12 DEF Release
<1>13. CASE Unlock(t, c)
  BY <1>3, <1>13 DEF Unlock
<1>14. CASE ReadReported(t, c)
  BY <1>3, <1>14 DEF ReadReported
<1>15. CASE WriteReported(t, c)
  BY <1>3, <1>15 DEF WriteReported
<1>16. CASE Dequeue(t, c)
  BY <1>1, <1>2, <1>16 DEF Dequeue, Against
<1>17. CASE Clear(t, c)
  BY <1>1, <1>2, <1>17 DEF Clear, Against
<1>18. CASE HandlerReturns(t, c)
  BY <1>3, <1>18 DEF HandlerReturns
<1>19. CASE StopFirst(t, c)
  BY <1>1, <1>2, <1>19 DEF StopFirst
<1>20. CASE StopAgain(t, c)
  BY <1>3, <1>20 DEF StopAgain
<1>21. CASE StopSocket(t, c)
  BY <1>1, <1>2, <1>21 DEF StopSocket
<1>22. CASE Throw(t, c)
  BY <1>3, <1>22 DEF Throw
<1> QED
  BY <1>4, <1>5, <1>6, <1>7, <1>8, <1>9, <1>10, <1>11, <1>12, <1>13,
     <1>14, <1>15, <1>16, <1>17, <1>18, <1>19, <1>20, <1>21, <1>22 DEF Step, f

-----------------------------------------------------------------------------
(* The other steps *)

\* A call pushes one frame.
LEMMA Pushed ==
  ASSUME NEW S, NEW s \in Seq(S), NEW g \in S
  PROVE  /\ <<g>> \o s \in Seq(S)
         /\ Len(<<g>> \o s) = Len(s) + 1
         /\ Len(s) \in Nat
         /\ (<<g>> \o s)[1] = g
         /\ \A i \in 2 .. Len(s) + 1 : (<<g>> \o s)[i] = s[i - 1]
<1>1. <<g>> \in Seq(S) /\ Len(<<g>>) = 1 /\ <<g>>[1] = g
  OBVIOUS
<1> QED
  BY <1>1

\* What a handler does when it starts.
LEMMA HandlerStarts ==
  ASSUME Typed, NEW t \in Threads, NEW c \in Conns, Handler(t, c)
  PROVE  /\ stack[t] = <<>>
         /\ HandlerTurn(c)
         /\ \E r \in Seq(Frames) : stack' = [stack EXCEPT ![t] = r] /\ Begins(c, r)
<1>1. conn[c] \in ConnType
  BY DEF Typed
<1>2. \A fn \in Methods, at \in Places : Frame(fn, c, at) \in Frames
  BY DEF Frame, Frames
<1>3. ASSUME NEW g \in Frames, stack' = [stack EXCEPT ![t] = <<g>>],
             Fits(g), g.c = c, g.fn \in {"create", "handle_read", "handle_write"},
             Refers(g), g.at # "return", Pending(c) \/ conn[c].upgrade,
             g.fn = "create" => ~conn'[c].upgrade /\ g.at = "insert",
             g.fn # "create" => Pending(c),
             Writing(g, c) => conn[c].write /\ ~conn'[c].write
      PROVE  \E r \in Seq(Frames) : stack' = [stack EXCEPT ![t] = r] /\ Begins(c, r)
  <2>1. <<g>> \in Seq(Frames) /\ Len(<<g>>) = 1
    OBVIOUS
  <2>2. Begins(c, <<g>>)
    BY <1>3 DEF Begins, Forwarders
  <2> QED
    BY <1>3, <2>1, <2>2
<1>4. CASE HandshakeWritten(t, c)
  <2>1. HandlerTurn(c)
    BY <1>1, <1>4 DEF HandshakeWritten, HandlerTurn, Typed, ConnType, Pending
  <2>2. ~conn'[c].upgrade
    BY <1>1, <1>4 DEF HandshakeWritten, Typed, ConnType
  <2>3. Frame("create", c, "insert") \in Frames
    BY <1>2 DEF Methods, Places
  <2> QED
    BY <1>3, <1>4, <2>1, <2>2, <2>3
       DEF HandshakeWritten, Frame, Fits, Writing, Refers
<1>5. CASE HandleRead(t, c)
  <2>1. HandlerTurn(c)
    BY <1>1, <1>5 DEF HandleRead, HandlerTurn, Typed, ConnType, Pending
  <2>2. Frame("handle_read", c, "ws_onerror") \in Frames
    BY <1>2 DEF Methods, Places, Callbacks
  <2>3. CASE stack' = [stack EXCEPT ![t] = <<Frame("handle_read", c, "ws_onerror")>>]
    BY <1>3, <1>5, <2>1, <2>2, <2>3 DEF HandleRead, Frame, Fits, Writing, Refers, Pending
  <2>4. CASE stack' = [stack EXCEPT ![t] =
               <<Frame("stop", c, "exchange"), Frame("handle_read", c, "return")>>]
    <3> DEFINE r == <<Frame("stop", c, "exchange"), Frame("handle_read", c, "return")>>
    <3>1. Frame("stop", c, "exchange") \in Frames /\ Frame("handle_read", c, "return") \in Frames
      BY <1>2 DEF Methods, Places
    <3>2. r \in Seq(Frames) /\ Len(r) = 2
      BY <3>1
    <3>3. Begins(c, r)
      BY <1>5, <3>2 DEF Begins, HandleRead, Frame, Fits, Refers, Writing, Forwarders, Pending
    <3> QED
      BY <1>5, <2>1, <2>4, <3>2, <3>3 DEF HandleRead
  <2> QED
    BY <1>5, <2>3, <2>4 DEF HandleRead
<1>6. CASE HandleWrite(t, c)
  <2>1. HandlerTurn(c)
    BY <1>1, <1>6 DEF HandleWrite, HandlerTurn, Typed, ConnType, Pending
  <2>2. PICK at \in {"dequeue", "ws_onerror", "clear"} :
          stack' = [stack EXCEPT ![t] = <<Frame("handle_write", c, at)>>]
    BY <1>6 DEF HandleWrite
  <2>3. conn[c].write /\ ~conn'[c].write
    BY <1>1, <1>6 DEF HandleWrite, Typed, ConnType
  <2>4. Frame("handle_write", c, at) \in Frames
    BY <1>2 DEF Methods, Places, Callbacks
  <2> QED
    BY <1>3, <1>6, <2>1, <2>2, <2>3, <2>4 DEF HandleWrite, Frame, Fits, Refers, Pending
<1> QED
  BY <1>4, <1>5, <1>6 DEF Handler

\* What a call does.
LEMMA CallPushes ==
  ASSUME Typed, NEW t \in Threads, Call(t)
  PROVE  \E g \in Frames :
           /\ g.fn \in Forwarders /\ g.at = "find" /\ conn[g.c].opened
           /\ stack' = [stack EXCEPT ![t] = <<g>> \o @]
           /\ UNCHANGED <<conn, maps, refused>>
           /\ stack[t] # <<>> => stack[t][1].at \in Calling
<1>1. PICK fn \in Forwarders, c \in Conns :
        conn[c].opened /\ stack' = [stack EXCEPT ![t] = <<Frame(fn, c, "find")>> \o @]
  BY DEF Call
<1>2. Frame(fn, c, "find") \in Frames
  BY DEF Frame, Frames, Methods, Forwarders, Places
<1>3. stack[t] # <<>> => stack[t][1].at \in Calling
  <2>1. stack[t] \in Seq(Frames)
    BY DEF Typed
  <2> QED
    BY <2>1 DEF Call
<1> QED
  BY <1>1, <1>2, <1>3 DEF Call, Frame

\* What a failing link does.
LEMMA LinkTurn ==
  ASSUME Typed, NEW c \in Conns, LinkFails(c)
  PROVE  /\ conn' \in [Conns -> ConnType]
         /\ \A d \in Conns :
              /\ conn'[d].upgrade = conn[d].upgrade /\ conn'[d].opened = conn[d].opened
              /\ conn'[d].read = conn[d].read /\ conn'[d].write = conn[d].write
              /\ conn'[d].queue = conn[d].queue /\ conn'[d].closed = conn[d].closed
              /\ conn'[d].sock = conn[d].sock /\ conn'[d].onclose = conn[d].onclose
         /\ UNCHANGED <<stack, maps, refused>>
<1>1. conn[c] \in ConnType /\ conn' = [conn EXCEPT ![c].link = "reset"]
  BY DEF Typed, LinkFails
<1>2. conn' = [conn EXCEPT ![c] = conn'[c]] /\ conn'[c] = [conn[c] EXCEPT !.link = "reset"]
  BY <1>1 DEF Typed
<1>3. /\ conn'[c] \in ConnType
      /\ conn'[c].upgrade = conn[c].upgrade /\ conn'[c].opened = conn[c].opened
      /\ conn'[c].read = conn[c].read /\ conn'[c].write = conn[c].write
      /\ conn'[c].queue = conn[c].queue /\ conn'[c].closed = conn[c].closed
      /\ conn'[c].sock = conn[c].sock /\ conn'[c].onclose = conn[c].onclose
  BY <1>1, <1>2 DEF ConnType
<1> QED
  BY <1>2, <1>3 DEF Typed, LinkFails

-----------------------------------------------------------------------------
(* The conjuncts of the invariant *)

\* The types.
LEMMA TypedStep == ASSUME Typed, [Next]_vars PROVE Typed'
<1>1. ASSUME NEW t \in Threads, stack[t] # <<>>, Step(t, Head(stack[t]).c) PROVE Typed'
  <2>1. PICK r \in Seq(Frames) : stack' = [stack EXCEPT ![t] = r \o Tail(@)]
    BY <1>1, StepFrames
  <2>2. stack[t] \in Seq(Frames)
    BY DEF Typed
  <2>3. r \o Tail(stack[t]) \in Seq(Frames)
    BY <1>1, <2>2, Replaced
  <2>4. stack' \in [Threads -> Seq(Frames)]
    BY <2>1, <2>3 DEF Typed
  <2>5. RegistryTurn(Head(stack[t]))
    BY <1>1, StepRegistry
  <2> QED
    BY <2>4, <2>5 DEF Typed, RegistryTurn
<1>2. ASSUME NEW t \in Threads, NEW c \in Conns, Handler(t, c) PROVE Typed'
  <2>1. PICK r \in Seq(Frames) : stack' = [stack EXCEPT ![t] = r]
    BY <1>2, HandlerStarts
  <2>2. HandlerTurn(c)
    BY <1>2, HandlerStarts
  <2> QED
    BY <2>1, <2>2 DEF Typed, HandlerTurn, maps
<1>3. ASSUME NEW t \in Threads, Call(t) PROVE Typed'
  <2>1. PICK g \in Frames : /\ stack' = [stack EXCEPT ![t] = <<g>> \o @]
                            /\ UNCHANGED <<conn, maps, refused>>
    BY <1>3, CallPushes
  <2>2. <<g>> \o stack[t] \in Seq(Frames)
    BY Pushed DEF Typed
  <2> QED
    BY <2>1, <2>2 DEF Typed, maps
<1>4. ASSUME NEW c \in Conns, LinkFails(c) PROVE Typed'
  BY <1>4, LinkTurn DEF Typed, maps
<1>5. CASE UNCHANGED vars
  BY <1>5 DEF Typed, vars, maps
<1> QED
  BY <1>1, <1>2, <1>3, <1>4, <1>5 DEF Next, Continue, Quiet

\* The innermost frame of a stack gives way to others.
LEMMA StackedTurn ==
  ASSUME NEW s \in Seq(Frames), s # <<>>, Stacked(s),
         NEW r \in Seq(Frames), Turn(Head(s), r)
  PROVE  Stacked(r \o Tail(s))
<1> DEFINE n == r \o Tail(s)
           Handlers == {"create", "handle_read", "handle_write"}
<1>1. /\ n \in Seq(Frames) /\ Len(n) = Len(r) + Len(s) - 1 /\ Len(s) >= 1
      /\ Head(s) = s[1] /\ Len(s) \in Nat
      /\ \A i \in 1 .. Len(r) : n[i] = r[i]
      /\ \A i \in Len(r) + 1 .. Len(r) + Len(s) - 1 : n[i] = s[i - Len(r) + 1]
  BY Replaced
<1> SUFFICES Stacked(n)
  OBVIOUS
<1> HIDE DEF n
<1>2. Len(r) \in 0 .. 2 /\ Len(n) \in Nat
  BY <1>1 DEF Turn
<1>3. \A i \in 1 .. Len(s) : Fits(s[i]) /\ (s[i].fn \in Handlers => i = Len(s))
  BY DEF Stacked
<1>4. ASSUME NEW i \in 1 .. Len(r)
      PROVE  Fits(n[i]) /\ (n[i].fn \in Handlers => i = Len(n))
  <2>1. n[i] = r[i] /\ Fits(r[i])
    BY <1>1 DEF Turn, Follows
  <2>2. r[i].fn = "stop" \/ (r[i].fn = s[1].fn /\ i = Len(r))
    <3>1. /\ Len(r) = 1 => r[1].fn \in {s[1].fn, "stop"}
          /\ Len(r) = 2 => r[1].fn = "stop" /\ r[2].fn = s[1].fn
      BY <1>1 DEF Turn
    <3>2. PICK k \in 0 .. 2 : k = Len(r)
      BY <1>2
    <3>3. i \in 1 .. k
      BY <3>2
    <3>4. (k = 1 /\ i = 1) \/ (k = 2 /\ i = 1) \/ (k = 2 /\ i = 2)
      BY <3>3
    <3>5. CASE k = 1 /\ i = 1
      BY <3>1, <3>2, <3>5
    <3>6. CASE k = 2 /\ i = 1
      BY <3>1, <3>2, <3>6
    <3>7. CASE k = 2 /\ i = 2
      <4>1. Head(s) = s[1]
        BY <1>1
      <4> QED
        BY <3>1, <3>2, <3>7
    <3> QED
      BY <3>4, <3>5, <3>6, <3>7
  <2>3. s[1].fn \in Handlers => Len(s) = 1
    <3>1. 1 \in 1 .. Len(s)
      BY <1>1
    <3> QED
      BY <1>3, <3>1
  <2> QED
    BY <1>1, <1>2, <2>1, <2>2, <2>3
<1>5. ASSUME NEW i \in Len(r) + 1 .. Len(n)
      PROVE  Fits(n[i]) /\ (n[i].fn \in Handlers => i = Len(n))
  <2>1. i - Len(r) + 1 \in 1 .. Len(s) /\ n[i] = s[i - Len(r) + 1]
    BY <1>1, <1>2
  <2>2. n[i].fn \in Handlers => i - Len(r) + 1 = Len(s)
    BY <1>3, <2>1
  <2>3. Fits(n[i])
    BY <1>3, <2>1
  <2> QED
    BY <1>1, <1>2, <2>2, <2>3
<1>6. DOMAIN n = 1 .. Len(n)
  BY <1>1
<1>7. \A i \in 1 .. Len(n) : i \in 1 .. Len(r) \/ i \in Len(r) + 1 .. Len(n)
  BY <1>1, <1>2
<1> QED
  BY <1>4, <1>5, <1>6, <1>7 DEF Stacked

\* The places of frames.
LEMMA StackedStep ==
  ASSUME Typed, \A t \in Threads : Stacked(stack[t]), [Next]_vars
  PROVE  \A t \in Threads : Stacked(stack'[t])
<1>1. ASSUME NEW t \in Threads, stack[t] # <<>>, Step(t, Head(stack[t]).c),
             NEW u \in Threads
      PROVE  Stacked(stack'[u])
  <2>1. PICK r \in Seq(Frames) :
          stack' = [stack EXCEPT ![t] = r \o Tail(@)] /\ Turn(Head(stack[t]), r)
    BY <1>1, StepFrames
  <2>2. stack[t] \in Seq(Frames)
    BY DEF Typed
  <2>3. Stacked(r \o Tail(stack[t]))
    BY <1>1, <2>1, <2>2, StackedTurn
  <2> QED
    BY <2>1, <2>3 DEF Typed
<1>2. ASSUME NEW t \in Threads, NEW c \in Conns, Handler(t, c), NEW u \in Threads
      PROVE  Stacked(stack'[u])
  <2>1. PICK r \in Seq(Frames) : stack' = [stack EXCEPT ![t] = r] /\ Begins(c, r)
    BY <1>2, HandlerStarts
  <2>2. Stacked(r)
    BY <2>1 DEF Stacked, Begins
  <2> QED
    BY <2>1, <2>2 DEF Typed
<1>3. ASSUME NEW t \in Threads, Call(t), NEW u \in Threads PROVE Stacked(stack'[u])
  <2>1. PICK g \in Frames : /\ g.fn \in Forwarders /\ g.at = "find"
                            /\ stack' = [stack EXCEPT ![t] = <<g>> \o @]
    BY <1>3, CallPushes
  <2> DEFINE s == stack[t]
             n == <<g>> \o s
  <2>2. s \in Seq(Frames) /\ Stacked(s)
    BY DEF Typed
  <2>3. /\ n \in Seq(Frames) /\ Len(n) = Len(s) + 1 /\ Len(s) \in Nat
        /\ n[1] = g /\ \A i \in 2 .. Len(n) : n[i] = s[i - 1]
    BY <2>2, Pushed
  <2>4. stack'[u] = IF u = t THEN n ELSE stack[u]
    BY <2>1 DEF Typed
  <2> HIDE DEF n, s
  <2>5. Stacked(n)
    <3>1. Fits(g) /\ g.fn \notin {"create", "handle_read", "handle_write"}
      BY <2>1 DEF Fits, Forwarders
    <3>2. ASSUME NEW i \in 2 .. Len(n)
          PROVE  /\ Fits(n[i])
                 /\ n[i].fn \in {"create", "handle_read", "handle_write"} => i = Len(n)
      BY <2>2, <2>3 DEF Stacked
    <3> QED
      BY <2>3, <3>1, <3>2 DEF Stacked
  <2> QED
    BY <2>4, <2>5
<1>4. ASSUME NEW c \in Conns, LinkFails(c) PROVE stack' = stack
  BY <1>4 DEF LinkFails
<1>5. CASE UNCHANGED vars
  BY <1>5 DEF vars
<1> QED
  BY <1>1, <1>2, <1>3, <1>4, <1>5 DEF Next, Continue, Quiet

\* The innermost frame of a thread that is in a call.
LEMMA Innermost ==
  ASSUME Typed, NEW t \in Threads, stack[t] # <<>>
  PROVE  /\ stack[t] \in Seq(Frames) /\ Len(stack[t]) >= 1
         /\ Head(stack[t]) = stack[t][1] /\ 1 \in DOMAIN stack[t]
         /\ Head(stack[t]) \in Frames /\ Head(stack[t]).c \in Conns
<1>1. stack[t] \in Seq(Frames)
  BY DEF Typed
<1>2. /\ Len(stack[t]) >= 1 /\ Head(stack[t]) = stack[t][1] /\ 1 \in DOMAIN stack[t]
      /\ Head(stack[t]) \in Frames
  BY <1>1
<1> QED
  BY <1>1, <1>2 DEF Frames

\* A frame was there before the step of a call, or took the place of the
\* innermost one.
LEMMA StepOrigin ==
  ASSUME Typed, NEW t \in Threads, stack[t] # <<>>, Step(t, Head(stack[t]).c),
         NEW u \in Threads, NEW i \in DOMAIN stack'[u]
  PROVE  \/ \E j \in DOMAIN stack[u] : stack'[u][i] = stack[u][j] /\ (u = t => j >= 2)
         \/ /\ u = t /\ Follows(Head(stack[t]), stack'[u][i])
            /\ stack'[u][i].fn \in {Head(stack[t]).fn, "stop"}
<1>1. PICK r \in Seq(Frames) :
        stack' = [stack EXCEPT ![t] = r \o Tail(@)] /\ Turn(Head(stack[t]), r)
  BY StepFrames
<1>2. CASE u # t
  BY <1>1, <1>2 DEF Typed
<1>3. CASE u = t
  <2> DEFINE n == r \o Tail(stack[t])
             f == Head(stack[t])
  <2>1. /\ n \in Seq(Frames) /\ Len(n) = Len(r) + Len(stack[t]) - 1
        /\ \A k \in 1 .. Len(r) : n[k] = r[k]
        /\ \A k \in Len(r) + 1 .. Len(r) + Len(stack[t]) - 1 : n[k] = stack[t][k - Len(r) + 1]
    BY Innermost, Replaced
  <2>2. stack'[u] = n
    BY <1>1, <1>3 DEF Typed
  <2>3. Turn(f, r)
    BY <1>1
  <2>4. Len(r) \in 0 .. 2 /\ Len(stack[t]) \in Nat /\ DOMAIN stack[t] = 1 .. Len(stack[t])
    BY <2>3, Innermost DEF Turn
  <2> HIDE DEF n, f
  <2>5. i \in 1 .. Len(n)
    BY <2>1, <2>2
  <2>6. CASE i \in 1 .. Len(r)
    <3>1. PICK k \in 0 .. 2 : k = Len(r)
      BY <2>4
    <3>2. (k = 1 /\ i = 1) \/ (k = 2 /\ i = 1) \/ (k = 2 /\ i = 2)
      BY <2>6, <3>1
    <3>3. /\ k = 1 => r[1].fn \in {f.fn, "stop"}
          /\ k = 2 => r[1].fn = "stop" /\ r[2].fn = f.fn
      BY <2>3, <3>1 DEF Turn
    <3>4. r[i].fn \in {f.fn, "stop"}
      BY <3>2, <3>3
    <3>5. Follows(f, r[i])
      BY <2>3, <2>6 DEF Turn
    <3> QED
      BY <1>3, <2>1, <2>2, <2>6, <3>4, <3>5 DEF f
  <2>7. CASE i \notin 1 .. Len(r)
    <3>1. i \in Len(r) + 1 .. Len(r) + Len(stack[t]) - 1
      BY <2>1, <2>4, <2>5, <2>7
    <3>2. i - Len(r) + 1 \in DOMAIN stack[t] /\ i - Len(r) + 1 >= 2
      BY <2>4, <3>1
    <3> QED
      BY <1>3, <2>1, <2>2, <3>1, <3>2
  <2> QED
    BY <2>6, <2>7
<1> QED
  BY <1>2, <1>3

\* Or a handler of c began with it.
LEMMA HandlerOrigin ==
  ASSUME Typed, NEW t \in Threads, NEW c \in Conns, Handler(t, c),
         NEW u \in Threads, NEW i \in DOMAIN stack'[u]
  PROVE  \/ u # t /\ i \in DOMAIN stack[u] /\ stack'[u][i] = stack[u][i]
         \/ LET g == stack'[u][i] IN
              /\ u = t /\ g.c = c /\ g.fn \notin Forwarders
              /\ Refers(g) => Pending(c) \/ conn[c].upgrade
              /\ g.fn = "create" => ~conn'[c].upgrade
              /\ Writing(g, c) => conn[c].write /\ ~conn'[c].write
<1>1. PICK r \in Seq(Frames) : stack' = [stack EXCEPT ![t] = r] /\ Begins(c, r)
  BY HandlerStarts
<1>2. CASE u # t
  BY <1>1, <1>2 DEF Typed
<1>3. CASE u = t
  <2>1. stack'[u] = r /\ i \in 1 .. Len(r)
    BY <1>1, <1>3 DEF Typed
  <2> QED
    BY <1>1, <1>3, <2>1 DEF Begins
<1> QED
  BY <1>2, <1>3

\* Or it is a call of the application.
LEMMA CallOrigin ==
  ASSUME Typed, NEW t \in Threads, Call(t),
         NEW u \in Threads, NEW i \in DOMAIN stack'[u]
  PROVE  \/ \E j \in DOMAIN stack[u] : stack'[u][i] = stack[u][j]
         \/ LET g == stack'[u][i] IN
              /\ u = t /\ g \in Frames /\ g.fn \in Forwarders /\ g.at = "find"
              /\ conn[g.c].opened
<1>1. PICK g \in Frames : /\ g.fn \in Forwarders /\ g.at = "find" /\ conn[g.c].opened
                          /\ stack' = [stack EXCEPT ![t] = <<g>> \o @]
  BY CallPushes
<1>2. CASE u # t
  BY <1>1, <1>2 DEF Typed
<1>3. CASE u = t
  <2> DEFINE n == <<g>> \o stack[t]
  <2>1. stack[t] \in Seq(Frames)
    BY DEF Typed
  <2>2. /\ n \in Seq(Frames) /\ Len(n) = Len(stack[t]) + 1 /\ Len(stack[t]) \in Nat
        /\ n[1] = g /\ \A k \in 2 .. Len(stack[t]) + 1 : n[k] = stack[t][k - 1]
    BY <2>1, Pushed
  <2>3. stack'[u] = n
    BY <1>1, <1>3 DEF Typed
  <2>4. DOMAIN stack[t] = 1 .. Len(stack[t])
    BY <2>1
  <2> HIDE DEF n
  <2>5. i = 1 \/ i \in 2 .. Len(stack[t]) + 1
    BY <2>2, <2>3
  <2>6. ASSUME i \in 2 .. Len(stack[t]) + 1
        PROVE  i - 1 \in DOMAIN stack[t] /\ n[i] = stack[t][i - 1]
    BY <2>2, <2>4, <2>6
  <2> QED
    BY <1>1, <1>3, <2>2, <2>3, <2>5, <2>6
<1> QED
  BY <1>2, <1>3

\* Once destroyed, always destroyed.
LEMMA AliveStep ==
  ASSUME Typed, [Next]_vars, NEW d \in Conns, Alive(d)'
  PROVE  Alive(d) \/ conn[d].upgrade
<1>1. ASSUME NEW u \in Threads, NEW j \in DOMAIN stack[u], stack[u][j].c = d, Refers(stack[u][j])
      PROVE  Alive(d)
  BY <1>1 DEF Alive, Referred
<1>2. Pending(d)' \/ \E u \in Threads : \E i \in DOMAIN stack'[u] :
        stack'[u][i].c = d /\ Refers(stack'[u][i])
  BY DEF Alive, Referred, Refers
<1>3. Pending(d) => Alive(d)
  BY DEF Alive
<1>4. ASSUME NEW t \in Threads, stack[t] # <<>>, Step(t, Head(stack[t]).c)
      PROVE  Alive(d)
  <2> DEFINE f == Head(stack[t])
  <2>1. d = f.c /\ Refers(f) => Alive(d)
    BY <1>1, <1>4, Innermost
  <2>2. CASE Pending(d)'
    BY <1>3, <1>4, <2>1, <2>2, StepRegistry DEF RegistryTurn
  <2>3. ASSUME NEW u \in Threads, NEW i \in DOMAIN stack'[u],
               stack'[u][i].c = d, Refers(stack'[u][i])
        PROVE  Alive(d)
    <3>1. CASE \E j \in DOMAIN stack[u] : stack'[u][i] = stack[u][j]
      BY <1>1, <2>3, <3>1
    <3>2. CASE Follows(f, stack'[u][i])
      BY <2>1, <2>3, <3>2 DEF Follows
    <3> QED
      BY <1>4, <3>1, <3>2, StepOrigin
  <2> QED
    BY <1>2, <2>2, <2>3
<1>5. ASSUME NEW t \in Threads, NEW c \in Conns, Handler(t, c)
      PROVE  Alive(d) \/ conn[d].upgrade
  <2>1. CASE Pending(d)'
    <3>1. HandlerTurn(c)
      BY <1>5, HandlerStarts
    <3>2. Pending(d)
      BY <2>1, <3>1 DEF HandlerTurn, Typed, Pending
    <3> QED
      BY <1>3, <3>2
  <2>2. ASSUME NEW u \in Threads, NEW i \in DOMAIN stack'[u],
               stack'[u][i].c = d, Refers(stack'[u][i])
        PROVE  Alive(d) \/ conn[d].upgrade
    BY <1>1, <1>3, <1>5, <2>2, HandlerOrigin
  <2> QED
    BY <1>2, <2>1, <2>2
<1>6. ASSUME NEW t \in Threads, Call(t) PROVE Alive(d)
  <2>1. UNCHANGED conn
    BY <1>6 DEF Call
  <2>2. CASE Pending(d)'
    BY <1>3, <2>1, <2>2 DEF Pending
  <2>3. ASSUME NEW u \in Threads, NEW i \in DOMAIN stack'[u],
               stack'[u][i].c = d, Refers(stack'[u][i])
        PROVE  Alive(d)
    <3>1. \E j \in DOMAIN stack[u] : stack'[u][i] = stack[u][j]
      BY <1>6, <2>3, CallOrigin DEF Refers, Forwarders
    <3> QED
      BY <1>1, <2>3, <3>1
  <2> QED
    BY <1>2, <2>2, <2>3
<1>7. ASSUME NEW c \in Conns, LinkFails(c) PROVE Alive(d)
  <2>1. UNCHANGED stack /\ Pending(d)' = Pending(d)
    BY <1>7, LinkTurn DEF Pending
  <2> QED
    BY <1>1, <1>2, <1>3, <2>1
<1>8. ASSUME UNCHANGED vars PROVE Alive(d)
  BY <1>1, <1>2, <1>3, <1>8 DEF vars, Pending
<1> QED
  BY <1>4, <1>5, <1>6, <1>7, <1>8 DEF Next, Continue, Quiet

\* Who knows an id.
LEMMA KnownStep ==
  ASSUME Typed, \A d \in Conns : Known(d), [Next]_vars, NEW d \in Conns
  PROVE  Known(d)'
<1> DEFINE Ok(g) == /\ g.fn = "create" => ~conn'[d].upgrade
                    /\ g.fn \in Forwarders => conn'[d].opened
<1>1. ASSUME conn'[d].upgrade => ~conn'[d].opened,
             \A u \in Threads : \A i \in DOMAIN stack'[u] :
               stack'[u][i].c = d => Ok(stack'[u][i])
      PROVE  Known(d)'
  BY <1>1 DEF Known, Forwarders
<1>2. ASSUME conn'[d].upgrade => conn[d].upgrade, conn[d].opened => conn'[d].opened,
             NEW u \in Threads, NEW j \in DOMAIN stack[u], stack[u][j].c = d
      PROVE  Ok(stack[u][j])
  BY <1>2 DEF Known
<1>3. ASSUME NEW t \in Threads, stack[t] # <<>>, Step(t, Head(stack[t]).c)
      PROVE  Known(d)'
  <2> DEFINE f == Head(stack[t])
  <2>1. RegistryTurn(f)
    BY <1>3, StepRegistry
  <2>2. conn'[d].upgrade = conn[d].upgrade /\ (conn[d].opened => conn'[d].opened)
    BY <2>1 DEF RegistryTurn
  <2>3. conn'[d].upgrade => ~conn'[d].opened
    <3>1. CASE conn[d].opened
      BY <2>2, <3>1 DEF Known
    <3>2. CASE conn'[d].opened /\ ~conn[d].opened
      <4>1. d = f.c /\ f.fn = "create"
        BY <2>1, <3>2 DEF RegistryTurn
      <4>2. ~conn[d].upgrade
        BY <1>3, <4>1, Innermost DEF Known
      <4> QED
        BY <2>2, <4>2
    <3> QED
      BY <3>1, <3>2
  <2>4. ASSUME NEW u \in Threads, NEW i \in DOMAIN stack'[u], stack'[u][i].c = d
        PROVE  Ok(stack'[u][i])
    <3>1. CASE \E j \in DOMAIN stack[u] : stack'[u][i] = stack[u][j]
      BY <1>2, <2>2, <2>4, <3>1
    <3>2. CASE Follows(f, stack'[u][i]) /\ stack'[u][i].fn \in {f.fn, "stop"}
      <4>1. d = f.c
        BY <2>4, <3>2 DEF Follows
      <4>2. Ok(f)
        BY <1>2, <1>3, <2>2, <4>1, Innermost
      <4> QED
        BY <3>2, <4>2 DEF Forwarders
    <3> QED
      BY <1>3, <3>1, <3>2, StepOrigin
  <2> QED
    BY <1>1, <2>3, <2>4
<1>4. ASSUME NEW t \in Threads, NEW c \in Conns, Handler(t, c) PROVE Known(d)'
  <2>1. HandlerTurn(c)
    BY <1>4, HandlerStarts
  <2>2. /\ conn'[d].upgrade => conn[d].upgrade
        /\ conn'[d].opened = conn[d].opened
    BY <2>1 DEF HandlerTurn, Typed
  <2>3. ASSUME NEW u \in Threads, NEW i \in DOMAIN stack'[u], stack'[u][i].c = d
        PROVE  Ok(stack'[u][i])
    BY <1>2, <1>4, <2>2, <2>3, HandlerOrigin
  <2> QED
    BY <1>1, <2>2, <2>3 DEF Known
<1>5. ASSUME NEW t \in Threads, Call(t) PROVE Known(d)'
  <2>1. UNCHANGED conn
    BY <1>5 DEF Call
  <2>2. ASSUME NEW u \in Threads, NEW i \in DOMAIN stack'[u], stack'[u][i].c = d
        PROVE  Ok(stack'[u][i])
    <3>1. CASE \E j \in DOMAIN stack[u] : stack'[u][i] = stack[u][j]
      BY <1>2, <2>1, <2>2, <3>1
    <3>2. CASE stack'[u][i].fn \in Forwarders /\ conn[stack'[u][i].c].opened
      BY <2>1, <2>2, <3>2 DEF Forwarders
    <3> QED
      BY <1>5, <3>1, <3>2, CallOrigin
  <2> QED
    BY <1>1, <2>1, <2>2 DEF Known
<1>6. ASSUME NEW c \in Conns, LinkFails(c) PROVE Known(d)'
  <2>1. /\ conn'[d].upgrade = conn[d].upgrade /\ conn'[d].opened = conn[d].opened
        /\ UNCHANGED stack
    BY <1>6, LinkTurn
  <2> QED
    BY <2>1 DEF Known
<1>7. ASSUME UNCHANGED vars PROVE Known(d)'
  BY <1>7 DEF Known, vars
<1> QED
  BY <1>3, <1>4, <1>5, <1>6, <1>7 DEF Next, Continue, Quiet

\* The other steps leave the registry alone and tell the application of nobody.
LEMMA RegistryKept ==
  ASSUME Typed,
         \/ \E t \in Threads, c \in Conns : Handler(t, c)
         \/ \E t \in Threads : Call(t)
         \/ \E c \in Conns : LinkFails(c)
         \/ UNCHANGED vars
  PROVE  /\ UNCHANGED <<maps, refused>>
         /\ \A d \in Conns :
              conn'[d].opened = conn[d].opened /\ (conn'[d].upgrade => conn[d].upgrade)
<1>1. ASSUME NEW t \in Threads, NEW c \in Conns, Handler(t, c), NEW d \in Conns
      PROVE  /\ conn'[d].opened = conn[d].opened /\ (conn'[d].upgrade => conn[d].upgrade)
             /\ UNCHANGED <<maps, refused>>
  BY <1>1, HandlerStarts DEF HandlerTurn, Typed
<1>2. ASSUME NEW t \in Threads, Call(t) PROVE UNCHANGED <<conn, maps, refused>>
  BY <1>2 DEF Call
<1>3. ASSUME NEW c \in Conns, LinkFails(c), NEW d \in Conns
      PROVE  /\ conn'[d].opened = conn[d].opened /\ conn'[d].upgrade = conn[d].upgrade
             /\ UNCHANGED <<maps, refused>>
  BY <1>3, LinkTurn
<1> QED
  BY <1>1, <1>2, <1>3 DEF vars

\* A living connection that was announced stays registered.
LEMMA OpenIsRegisteredStep ==
  ASSUME Typed, \A d \in Conns : Known(d), OpenIsRegistered, [Next]_vars
  PROVE  OpenIsRegistered'
<1> SUFFICES ASSUME NEW d \in Conns, conn'[d].opened, Alive(d)'
             PROVE  d \in Registered'
  BY DEF OpenIsRegistered, Registered
<1>1. Alive(d) \/ conn[d].upgrade
  BY AliveStep
<1>2. conn[d].opened => Alive(d) /\ d \in Registered
  BY <1>1 DEF Known, OpenIsRegistered, Registered
<1>3. ASSUME NEW t \in Threads, stack[t] # <<>>, Step(t, Head(stack[t]).c)
      PROVE  d \in Registered'
  BY <1>2, <1>3, StepRegistry DEF RegistryTurn
<1>4. CASE \/ \E t \in Threads, c \in Conns : Handler(t, c)
           \/ \E t \in Threads : Call(t)
           \/ \E c \in Conns : LinkFails(c)
           \/ UNCHANGED vars
  BY <1>2, <1>4, RegistryKept DEF Registered, maps
<1> QED
  BY <1>3, <1>4 DEF Next, Continue, Quiet

\* What a call has refused stays gone.
LEMMA RefusedIsGoneStep ==
  ASSUME Typed, \A d \in Conns : Known(d), OpenIsRegistered, RefusedIsGone, [Next]_vars
  PROVE  RefusedIsGone'
<1> SUFFICES ASSUME NEW d \in refused'
             PROVE  ~Alive(d)' /\ ~conn'[d].upgrade /\ d \notin Registered'
  BY DEF RefusedIsGone, Registered
<1>1. ASSUME d \in refused
      PROVE  ~Alive(d) /\ ~conn[d].upgrade /\ d \notin Registered /\ d \in Conns
  BY <1>1 DEF RefusedIsGone, Registered, Typed
<1>2. ASSUME NEW t \in Threads, stack[t] # <<>>, Step(t, Head(stack[t]).c)
      PROVE  ~Alive(d)' /\ ~conn'[d].upgrade /\ d \notin Registered'
  <2> DEFINE f == Head(stack[t])
  <2>1. RegistryTurn(f)
    BY <1>2, StepRegistry
  <2>2. d \in Conns /\ conn'[d].upgrade = conn[d].upgrade
    BY <2>1 DEF RegistryTurn
  <2>3. CASE d \in refused
    <3>1. ~Alive(d)'
      BY <1>1, <2>2, <2>3, AliveStep
    <3>2. ~(d = f.c /\ f.fn = "create")
      BY <1>1, <1>2, <2>3, Innermost DEF Alive, Referred, Refers
    <3> QED
      BY <1>1, <2>1, <2>2, <2>3, <3>1, <3>2 DEF RegistryTurn
  <2>4. CASE d \notin refused
    <3>1. /\ d = f.c /\ f.fn \in Forwarders
          /\ d \notin Registered' /\ ~(d \in Registered /\ Alive(d))
      BY <2>1, <2>2, <2>4 DEF RegistryTurn
    <3>2. conn[d].opened
      BY <1>2, <2>2, <3>1, Innermost DEF Known
    <3>3. ~conn[d].upgrade /\ ~Alive(d)
      BY <2>2, <3>1, <3>2 DEF Known, OpenIsRegistered, Registered
    <3> QED
      BY <2>2, <3>1, <3>3, AliveStep
  <2> QED
    BY <2>3, <2>4
<1>3. CASE \/ \E t \in Threads, c \in Conns : Handler(t, c)
           \/ \E t \in Threads : Call(t)
           \/ \E c \in Conns : LinkFails(c)
           \/ UNCHANGED vars
  BY <1>1, <1>3, RegistryKept, AliveStep DEF Registered, maps
<1> QED
  BY <1>2, <1>3 DEF Next, Continue, Quiet

-----------------------------------------------------------------------------
(* Deadlock *)

\* The innermost frame is replaced.
LEMMA CallsLastTurn ==
  ASSUME NEW s \in Seq(Frames), s # <<>>, CallsLast(s),
         NEW r \in Seq(Frames), Turn(Head(s), r)
  PROVE  CallsLast(r \o Tail(s))
<1> DEFINE n == r \o Tail(s)
           Low(g) == g.fn # "stop" /\ g.at \in {"ws_onopen", "ws_onerror"}
<1>1. /\ n \in Seq(Frames) /\ Len(n) = Len(r) + Len(s) - 1 /\ Len(s) >= 1
      /\ Head(s) = s[1] /\ Len(s) \in Nat
      /\ \A i \in 1 .. Len(r) : n[i] = r[i]
      /\ \A i \in Len(r) + 1 .. Len(r) + Len(s) - 1 : n[i] = s[i - Len(r) + 1]
  BY Replaced
<1>2. PICK k \in 0 .. 2 : k = Len(r)
  BY DEF Turn
<1>3. /\ k = 1 => r[1].fn \in {s[1].fn, "stop"}
      /\ k = 2 => r[1].fn = "stop" /\ r[2].fn = s[1].fn /\ s[1].fn # "stop"
  BY <1>1, <1>2 DEF Turn
<1>4. /\ \A i \in 3 .. Len(s) : Low(s[i])
      /\ \A i \in 2 .. Len(s) : s[i].fn # "stop" /\ (s[1].fn # "stop" => Low(s[i]))
  BY DEF CallsLast
<1> SUFFICES CallsLast(n)
  OBVIOUS
<1> HIDE DEF n, Low
<1>5. Len(n) = k + Len(s) - 1
  BY <1>1, <1>2
<1>6. CASE k = 0
  <2>1. \A i \in 2 .. Len(n) : i + 1 \in 3 .. Len(s) /\ n[i] = s[i + 1]
    BY <1>1, <1>2, <1>5, <1>6
  <2> QED
    BY <1>4, <2>1 DEF CallsLast, Low
<1>7. CASE k = 1
  <2>1. n[1] = r[1] /\ \A i \in 2 .. Len(n) : i \in 2 .. Len(s) /\ n[i] = s[i]
    BY <1>1, <1>2, <1>5, <1>7
  <2>2. s[1].fn = "stop" => n[1].fn = "stop"
    BY <1>3, <1>7, <2>1
  <2>3. \A i \in 2 .. Len(n) : i = 2 \/ i \in 3 .. Len(s)
    BY <2>1
  <2>4. \A i \in 2 .. Len(n) : n[i].fn # "stop" /\ (Low(n[i]) \/ (i = 2 /\ n[1].fn = "stop"))
    BY <1>4, <2>1, <2>2, <2>3
  <2> QED
    BY <2>4 DEF CallsLast, Low
<1>8. CASE k = 2
  <2>1. /\ n[1] = r[1] /\ n[2] = r[2]
        /\ \A i \in 3 .. Len(n) : i - 1 \in 2 .. Len(s) /\ n[i] = s[i - 1]
    BY <1>1, <1>2, <1>5, <1>8
  <2>2. n[1].fn = "stop" /\ n[2].fn # "stop"
    BY <1>3, <1>8, <2>1
  <2>3. \A i \in 3 .. Len(n) : n[i].fn # "stop" /\ Low(n[i])
    BY <1>3, <1>4, <1>8, <2>1
  <2>4. Len(n) \in Nat /\ \A i \in 2 .. Len(n) : i = 2 \/ i \in 3 .. Len(n)
    BY <1>1
  <2> QED
    BY <2>2, <2>3, <2>4 DEF CallsLast, Low
<1> QED
  BY <1>6, <1>7, <1>8

\* If the application calls from ws_onopen and ws_onerror only, no frame that
\* holds a lock is below a call.
LEMMA CallsLastStep ==
  ASSUME Calling \subseteq {"ws_onopen", "ws_onerror"},
         Typed, \A t \in Threads : Stacked(stack[t]) /\ CallsLast(stack[t]), [Next]_vars
  PROVE  \A t \in Threads : CallsLast(stack'[t])
<1>1. ASSUME NEW t \in Threads, stack[t] # <<>>, Step(t, Head(stack[t]).c),
             NEW u \in Threads
      PROVE  CallsLast(stack'[u])
  <2>1. PICK r \in Seq(Frames) :
          stack' = [stack EXCEPT ![t] = r \o Tail(@)] /\ Turn(Head(stack[t]), r)
    BY <1>1, StepFrames
  <2>2. stack[t] \in Seq(Frames)
    BY DEF Typed
  <2>3. CallsLast(r \o Tail(stack[t]))
    BY <1>1, <2>1, <2>2, CallsLastTurn
  <2> QED
    BY <2>1, <2>3 DEF Typed
<1>2. ASSUME NEW t \in Threads, NEW c \in Conns, Handler(t, c), NEW u \in Threads
      PROVE  CallsLast(stack'[u])
  <2>1. PICK r \in Seq(Frames) : stack' = [stack EXCEPT ![t] = r] /\ Begins(c, r)
    BY <1>2, HandlerStarts
  <2>2. CallsLast(r)
    BY <2>1 DEF CallsLast, Begins
  <2> QED
    BY <2>1, <2>2 DEF Typed
<1>3. ASSUME NEW t \in Threads, Call(t), NEW u \in Threads PROVE CallsLast(stack'[u])
  <2>1. PICK g \in Frames : /\ g.fn \in Forwarders /\ g.at = "find"
                            /\ stack' = [stack EXCEPT ![t] = <<g>> \o @]
                            /\ stack[t] # <<>> => stack[t][1].at \in Calling
    BY <1>3, CallPushes
  <2> DEFINE s == stack[t]
             n == <<g>> \o s
  <2>2. s \in Seq(Frames) /\ Stacked(s) /\ CallsLast(s)
    BY DEF Typed
  <2>3. /\ n \in Seq(Frames) /\ Len(n) = Len(s) + 1 /\ Len(s) \in Nat
        /\ n[1] = g /\ \A i \in 2 .. Len(n) : n[i] = s[i - 1]
    BY <2>2, Pushed
  <2>4. stack'[u] = IF u = t THEN n ELSE stack[u]
    BY <2>1 DEF Typed
  <2>5. s # <<>> => s[1].at \in {"ws_onopen", "ws_onerror"} /\ s[1].fn # "stop"
    <3>1. s # <<>> => 1 \in DOMAIN s
      BY Innermost
    <3>2. s # <<>> => Fits(s[1])
      BY <2>2, <3>1 DEF Stacked
    <3>3. s # <<>> => s[1].at \in {"ws_onopen", "ws_onerror"}
      BY <2>1
    <3> QED
      BY <3>2, <3>3 DEF Fits
  <2>6. s = <<>> => Len(s) = 0
    OBVIOUS
  <2> HIDE DEF n, s
  <2>7. ASSUME NEW i \in 2 .. Len(n)
        PROVE  n[i].fn # "stop" /\ n[i].at \in {"ws_onopen", "ws_onerror"}
    <3>1. n[i] = s[i - 1] /\ i - 1 \in 1 .. Len(s) /\ s # <<>>
      BY <2>3, <2>6
    <3>2. CASE i - 1 = 1
      BY <2>5, <3>1, <3>2
    <3>3. CASE i - 1 \in 2 .. Len(s)
      BY <2>2, <2>5, <3>1, <3>3 DEF CallsLast
    <3> QED
      BY <2>3, <3>1, <3>2, <3>3
  <2>8. CallsLast(n)
    BY <2>7 DEF CallsLast
  <2> QED
    BY <2>2, <2>4, <2>8
<1>4. ASSUME NEW c \in Conns, LinkFails(c) PROVE stack' = stack
  BY <1>4 DEF LinkFails
<1>5. CASE UNCHANGED vars
  BY <1>5 DEF vars
<1> QED
  BY <1>1, <1>2, <1>3, <1>4, <1>5 DEF Next, Continue, Quiet

\* Then who holds a queue waits for nobody, and who holds ws_conns_mx_ only
\* for a queue.
LEMMA LockOrder ==
  ASSUME Typed, \A t \in Threads : Stacked(stack[t]) /\ CallsLast(stack[t])
  PROVE  NoDeadlock
<1>1. ASSUME NEW t \in Threads, stack[t] # <<>>
      PROVE  /\ DOMAIN stack[t] = 1 .. Len(stack[t]) /\ Len(stack[t]) \in Nat \ {0}
             /\ Head(stack[t]) = stack[t][1] /\ 1 \in DOMAIN stack[t]
  BY <1>1, Innermost
<1>2. ASSUME NEW t \in Threads, stack[t] # <<>>, stack[t][1].fn = "stop"
      PROVE  WaitsFor(t) = {}
  BY <1>1, <1>2 DEF WaitsFor, Stacked, Fits
<1>3. ASSUME NEW t \in Threads, NEW c, t \in QueueOwners(c)
      PROVE  WaitsFor(t) = {}
  <2>1. PICK i \in DOMAIN stack[t] : HoldsQueue(stack[t][i], c)
    BY <1>3 DEF QueueOwners
  <2>2. stack[t] # <<>>
    BY <2>1
  <2>3. CASE i = 1
    BY <1>1, <2>1, <2>2, <2>3 DEF HoldsQueue, WaitsFor
  <2>4. CASE i \in 2 .. Len(stack[t])
    <3>1. stack[t][1].fn = "stop"
      BY <2>1, <2>4 DEF HoldsQueue, CallsLast
    <3> QED
      BY <1>2, <2>2, <3>1
  <2> QED
    BY <1>1, <2>2, <2>3, <2>4
<1>4. ASSUME NEW t \in Threads, t \in ConnsOwners
      PROVE  \/ WaitsFor(t) = {}
             \/ \E c : WaitsFor(t) \subseteq QueueOwners(c)
  <2>1. PICK i \in DOMAIN stack[t] : HoldsConns(stack[t][i])
    BY <1>4 DEF ConnsOwners
  <2>2. stack[t] # <<>>
    BY <2>1
  <2>3. CASE i = 1
    <3>1. stack[t][1].at \notin {"insert", "find"}
      BY <1>1, <2>1, <2>2, <2>3 DEF HoldsConns, Stacked, Fits, Forwarders
    <3> QED
      BY <1>1, <2>2, <3>1 DEF WaitsFor, Against
  <2>4. CASE i \in 2 .. Len(stack[t])
    <3>1. Fits(stack[t][i])
      BY <2>1 DEF Stacked
    <3>2. stack[t][1].fn = "stop"
      BY <2>1, <2>4, <3>1 DEF HoldsConns, CallsLast, Fits, Forwarders
    <3> QED
      BY <1>2, <2>2, <3>2
  <2> QED
    BY <1>1, <2>2, <2>3, <2>4
<1>5. ASSUME NEW t \in Threads
      PROVE  \/ WaitsFor(t) \subseteq ConnsOwners
             \/ \E c : WaitsFor(t) \subseteq QueueOwners(c)
  BY DEF WaitsFor, Against
<1> SUFFICES ASSUME NEW S \in SUBSET Threads, S # {}
             PROVE  \E t \in S : WaitsFor(t) \cap S = {}
  BY DEF NoDeadlock
<1>6. CASE \E t \in S, c \in {c \in Conns : TRUE} : t \in QueueOwners(c)
  BY <1>3, <1>6
<1>7. CASE \A t \in S : \A c : t \notin QueueOwners(c)
  <2>1. CASE \E t \in S : t \in ConnsOwners
    BY <1>4, <1>7, <2>1
  <2>2. CASE \A t \in S : t \notin ConnsOwners
    BY <1>5, <1>7, <2>2
  <2> QED
    BY <2>1, <2>2
<1>8. ASSUME NEW t \in Threads, NEW c, t \in QueueOwners(c) PROVE c \in Conns
  <2>1. PICK i \in DOMAIN stack[t] : stack[t][i].c = c
    BY <1>8 DEF QueueOwners, HoldsQueue
  <2>2. stack[t] \in Seq(Frames)
    BY DEF Typed
  <2>3. stack[t][i] \in Frames
    BY <2>2
  <2> QED
    BY <2>1, <2>3 DEF Frames
<1> QED
  BY <1>6, <1>7, <1>8

-----------------------------------------------------------------------------
(* The queues *)

\* One handler at a time is about to take a message from a queue that has one.
LEMMA QueuedStep ==
  ASSUME Typed, \A t \in Threads : Stacked(stack[t]), [Next]_vars,
         NEW d \in Conns, Queued(d)
  PROVE  Queued(d)'
<1> DEFINE overflow == Frame("WSPush", d, "overflow")
           W(u) == \E j \in DOMAIN stack[u] : Writing(stack[u][j], d)
           q == conn[d].queue
           q1 == conn'[d].queue
<1>1. /\ q >= 0 /\ (conn[d].write => q >= 1) /\ q \in Int /\ q1 \in Int
      /\ \A u \in Threads : W(u) => q >= 1 /\ ~conn[d].write
      /\ \A u, v \in Threads : W(u) /\ W(v) => u = v
      /\ \A u \in Threads : \A j \in DOMAIN stack[u] : stack[u][j] = overflow => q >= 2
  <2>1. conn[d] \in ConnType
    BY DEF Typed
  <2>2. conn'[d] \in ConnType
    BY TypedStep DEF Typed
  <2>3. q \in Int /\ q1 \in Int
    BY <2>1, <2>2 DEF ConnType
  <2> QED
    BY <2>3 DEF Queued
<1>2. ASSUME q1 >= 0, conn'[d].write => q1 >= 1,
             \A u \in Threads : \A i \in DOMAIN stack'[u] :
               /\ Writing(stack'[u][i], d) => W(u) /\ q1 >= 1 /\ ~conn'[d].write
               /\ stack'[u][i] = overflow => q1 >= 2
      PROVE  Queued(d)'
  BY <1>1, <1>2 DEF Queued, Writing, Frame
<1>3. ASSUME stack' = stack, q1 = q, conn'[d].write = conn[d].write
      PROVE  Queued(d)'
  BY <1>1, <1>2, <1>3
<1>4. ASSUME NEW t \in Threads, stack[t] # <<>>, Step(t, Head(stack[t]).c)
      PROVE  Queued(d)'
  <2> DEFINE f == Head(stack[t])
  <2>1. QueueTurn(t, f)
    BY <1>4, StepQueue
  <2>2. f = stack[t][1] /\ 1 \in DOMAIN stack[t] /\ DOMAIN stack[t] = 1 .. Len(stack[t])
    BY <1>4, Innermost
  <2>3. Writing(f, d) => W(t)
    BY <2>2
  <2>4. ASSUME NEW u \in Threads, NEW i \in DOMAIN stack'[u]
        PROVE  \/ \E j \in DOMAIN stack[u] : stack'[u][i] = stack[u][j] /\ (u = t => j >= 2)
               \/ u = t /\ Follows(f, stack'[u][i])
    BY <1>4, StepOrigin
  <2> HIDE DEF f
  <2>5. ASSUME NEW u \in Threads, NEW i \in DOMAIN stack'[u], Writing(stack'[u][i], d)
        PROVE  W(u)
    <3>1. CASE Follows(f, stack'[u][i]) /\ u = t
      <4>1. d = f.c
        BY <2>5, <3>1 DEF Follows, Writing
      <4> QED
        BY <2>3, <2>5, <3>1, <4>1 DEF Follows
    <3> QED
      BY <2>4, <2>5, <3>1
  <2>6. ASSUME NEW u \in Threads, NEW i \in DOMAIN stack'[u], stack'[u][i] = overflow
        PROVE  q >= 2 \/ q1 >= 2
    <3>1. CASE Follows(f, stack'[u][i]) /\ u = t
      BY <2>6, <3>1 DEF Follows, Frame
    <3> QED
      BY <1>1, <2>4, <2>6, <3>1
  <2>7. CASE q1 = q /\ conn'[d].write = conn[d].write
    BY <1>1, <1>2, <2>5, <2>6, <2>7
  <2>8. CASE d # f.c
    BY <2>1, <2>7, <2>8 DEF QueueTurn
  <2>9. CASE q1 = q + 1 /\ (conn'[d].write => conn[d].write \/ q1 = 1)
    <3>1. q1 >= 1
      BY <1>1, <2>9
    <3>2. ASSUME NEW u \in Threads, W(u) PROVE ~conn'[d].write
      BY <1>1, <2>9, <3>2
    <3>3. q >= 2 => q1 >= 2
      BY <1>1, <2>9
    <3>4. q1 >= 0
      BY <1>1, <3>1
    <3> QED
      BY <1>2, <2>5, <2>6, <3>1, <3>2, <3>3, <3>4
  <2>10. CASE f = overflow /\ q1 = q /\ conn'[d].write = (conn[d].write \/ q = 1)
    <3>1. q >= 2
      BY <1>1, <2>2, <2>10
    <3>2. q # 1
      BY <1>1, <3>1
    <3>3. conn'[d].write = conn[d].write
      <4>1. conn[d] \in ConnType
        BY DEF Typed
      <4>2. conn[d].write \in BOOLEAN
        BY <4>1 DEF ConnType
      <4> QED
        BY <2>10, <3>2, <4>2
    <3> QED
      BY <2>7, <2>10, <3>3
  <2>11. CASE /\ f \in {Frame("handle_write", d, "dequeue"), Frame("handle_write", d, "clear")}
              /\ QueueOwners(d) \subseteq {t}
              /\ \/ q1 = q - 1 /\ conn'[d].write = (q > 1) /\ conn' # conn
                 \/ q1 = 0 /\ conn'[d].write = conn[d].write
    <3>1. Writing(f, d) /\ f.c = d /\ f.fn = "handle_write"
      BY <2>11 DEF Writing, Frame
    <3>2. W(t) /\ q >= 1 /\ ~conn[d].write
      BY <1>1, <2>3, <3>1
    <3>3. q1 >= 0 /\ (conn'[d].write => q1 >= 1) /\ conn' # conn
      <4>1. CASE q1 = q - 1 /\ conn'[d].write = (q > 1) /\ conn' # conn
        <5>1. q1 = q - 1
          BY <4>1
        <5>2. q1 >= 0 /\ (q > 1 => q1 >= 1)
          BY <1>1, <3>2, <5>1
        <5> QED
          BY <4>1, <5>2
      <4>2. CASE q1 = 0 /\ conn'[d].write = conn[d].write
        <5>1. q1 # q
          BY <1>1, <3>2, <4>2
        <5>2. conn' # conn
          BY <5>1
        <5> QED
          BY <3>2, <4>2, <5>2
      <4> QED
        BY <2>11, <4>1, <4>2
    <3>4. DOMAIN stack[t] = {1}
      BY <2>2, <3>1 DEF Stacked
    <3>5. ASSUME NEW u \in Threads, NEW i \in DOMAIN stack'[u]
          PROVE  ~Writing(stack'[u][i], d)
      <4>1. CASE \E j \in DOMAIN stack[u] : stack'[u][i] = stack[u][j] /\ (u = t => j >= 2)
        BY <1>1, <3>2, <3>4, <4>1
      <4>2. CASE Follows(f, stack'[u][i])
        BY <3>1, <3>3, <4>2 DEF Follows
      <4> QED
        BY <2>4, <4>1, <4>2
    <3>6. ASSUME NEW u \in Threads, NEW i \in DOMAIN stack'[u], stack'[u][i] = overflow
          PROVE  q1 >= 2
      <4>1. CASE \E j \in DOMAIN stack[u] : stack'[u][i] = stack[u][j] /\ (u = t => j >= 2)
        <5>1. PICK j \in DOMAIN stack[u] : stack[u][j] = overflow /\ (u = t => j >= 2)
          BY <3>6, <4>1
        <5>2. u \in QueueOwners(d)
          BY <5>1 DEF QueueOwners, HoldsQueue, Frame
        <5> QED
          BY <2>11, <3>4, <5>1, <5>2
      <4>2. CASE Follows(f, stack'[u][i])
        BY <3>1, <3>6, <4>2 DEF Follows
      <4> QED
        BY <2>4, <4>1, <4>2
    <3> QED
      BY <1>2, <3>3, <3>5, <3>6
  <2>12. CASE d = f.c
    BY <2>1, <2>7, <2>9, <2>10, <2>11, <2>12 DEF QueueTurn
  <2> QED
    BY <2>8, <2>12
<1>5. ASSUME NEW t \in Threads, NEW c \in Conns, Handler(t, c) PROVE Queued(d)'
  <2>1. HandlerTurn(c)
    BY <1>5, HandlerStarts
  <2>2. /\ q1 = q /\ (conn'[d].write => conn[d].write)
        /\ d # c => conn'[d] = conn[d]
    BY <2>1 DEF HandlerTurn, Typed
  <2>3. ASSUME NEW u \in Threads, NEW i \in DOMAIN stack'[u]
        PROVE  \/ u # t /\ i \in DOMAIN stack[u] /\ stack'[u][i] = stack[u][i]
               \/ /\ u = t /\ stack'[u][i].fn \notin Forwarders
                  /\ Writing(stack'[u][i], d) => conn[d].write /\ ~conn'[d].write
    BY <1>5, HandlerOrigin DEF Writing
  <2>4. ASSUME NEW u \in Threads, NEW i \in DOMAIN stack'[u], stack'[u][i] = overflow
        PROVE  q1 >= 2
    BY <1>1, <2>2, <2>3, <2>4 DEF Frame, Forwarders
  <2>5. ASSUME NEW u \in Threads, NEW i \in DOMAIN stack'[u], Writing(stack'[u][i], d)
        PROVE  /\ q1 >= 1 /\ ~conn'[d].write
               /\ \A v \in Threads \ {u} : \A j \in DOMAIN stack'[v] : ~Writing(stack'[v][j], d)
    <3>1. CASE u = t
      <4>1. conn[d].write /\ ~conn'[d].write
        BY <2>3, <2>5, <3>1
      <4> QED
        BY <1>1, <2>2, <2>3, <3>1, <4>1
    <3>2. CASE u # t
      <4>1. W(u)
        BY <2>3, <2>5, <3>2
      <4>2. q >= 1 /\ ~conn[d].write
        BY <1>1, <4>1
      <4> QED
        BY <1>1, <2>2, <2>3, <3>2, <4>1, <4>2
    <3> QED
      BY <3>1, <3>2
  <2> QED
    BY <1>1, <2>2, <2>4, <2>5 DEF Queued, Writing, Frame
<1>6. ASSUME NEW t \in Threads, Call(t) PROVE Queued(d)'
  <2>1. UNCHANGED conn
    BY <1>6 DEF Call
  <2>2. ASSUME NEW u \in Threads, NEW i \in DOMAIN stack'[u]
        PROVE  \/ \E j \in DOMAIN stack[u] : stack'[u][i] = stack[u][j]
               \/ stack'[u][i].at = "find"
    BY <1>6, <2>2, CallOrigin
  <2> QED
    BY <1>1, <1>2, <2>1, <2>2 DEF Writing, Frame
<1>7. ASSUME NEW c \in Conns, LinkFails(c) PROVE Queued(d)'
  BY <1>3, <1>7, LinkTurn
<1>8. ASSUME UNCHANGED vars PROVE Queued(d)'
  BY <1>3, <1>8 DEF vars
<1> QED
  BY <1>4, <1>5, <1>6, <1>7, <1>8 DEF Next, Continue, Quiet

-----------------------------------------------------------------------------
(* ws_onclose *)

\* What a step of a call does to the connection's end.
ClosedTurn(f, r) ==
  LET k == conn[f.c]
      k1 == conn'[f.c]
  IN  \/ /\ f.fn # "stop"
         /\ k1.closed = k.closed /\ k1.sock = k.sock /\ k1.onclose = k.onclose
      \/ /\ f = Frame("stop", f.c, "exchange") /\ ~k.closed
         /\ k1.closed /\ k1.sock = k.sock /\ k1.onclose = k.onclose + 1
         /\ r = <<Frame("stop", f.c, "ws_onclose")>>
      \/ /\ f = Frame("stop", f.c, "exchange") /\ k.closed
         /\ k1.closed /\ k1.sock = k.sock /\ k1.onclose = k.onclose
      \/ /\ f = Frame("stop", f.c, "ws_onclose")
         /\ k1.closed = k.closed /\ k1.sock = "closed" /\ k1.onclose = k.onclose

\* A reference given up was not the last one, or stop() comes next.
Held(t, f, r) ==
  \/ conn'[f.c].read \/ conn'[f.c].write \/ conn[f.c].closed \/ f.at = "return"
  \/ Referred(Tail(stack[t]), f.c)
  \/ \E u \in Threads \ {t} : Referred(stack[u], f.c)
  \/ \E i \in 1 .. Len(r) : Refers(r[i]) \/ r[i] = Frame("stop", f.c, "exchange")

CloseTurn(t, f, r) ==
  /\ ClosedTurn(f, r)
  /\ f.at = "insert" => conn'[f.c].opened
  /\ Refers(f) \/ Pending(f.c) => Held(t, f, r)
  /\ \A i \in 1 .. Len(r) :
       /\ r[i].c = f.c
       /\ r[i].at = "return" => i = 2 /\ r[1] = Frame("stop", f.c, "exchange")

\* A step of a call replaces a frame by frames that hold on to the connection, or
\* by the stop() of the last reference.
LEMMA StepCloses ==
  ASSUME Typed, NEW t \in Threads, stack[t] # <<>>, Step(t, Head(stack[t]).c),
         Queued(Head(stack[t]).c)
  PROVE  \E r \in Seq(Frames) :
           stack' = [stack EXCEPT ![t] = r \o Tail(@)] /\ CloseTurn(t, Head(stack[t]), r)
<1> DEFINE f == Head(stack[t])
           c == f.c
           stop == Frame("stop", c, "exchange")
           Goal == \E r \in Seq(Frames) :
             stack' = [stack EXCEPT ![t] = r \o Tail(@)] /\ CloseTurn(t, f, r)
           Pends == conn'[c].read \/ conn'[c].write
           Same == /\ conn'[c].closed = conn[c].closed /\ conn'[c].sock = conn[c].sock
                   /\ conn'[c].onclose = conn[c].onclose
<1>1. c \in Conns /\ conn[c] \in ConnType /\ (Writing(f, c) => ~conn[c].write)
  BY Innermost DEF Typed, Queued
<1>2. \A fn, at : At(t, fn, c, at) => f = Frame(fn, c, at)
  BY DEF At
<1> SUFFICES Goal
  OBVIOUS
<1>3. \A fn \in Methods, at \in Places : Frame(fn, c, at) \in Frames
  BY <1>1 DEF Frame, Frames
<1>4. stop \in Frames /\ stop.at = "exchange" /\ stop.c = c
  BY <1>3 DEF Methods, Places, Frame
<1> HIDE DEF f, c, Goal
<1>5. UNCHANGED conn => Same /\ (Pending(c) => Pends)
  BY DEF Pending
<1> HIDE DEF Same
<1>6. ASSUME Becomes(t, <<>>), Same, f.fn # "stop", f.at # "insert",
             Refers(f) \/ Pending(c) => Held(t, f, <<>>)
      PROVE  Goal
  <2>1. <<>> \in Seq(Frames) /\ Len(<<>>) = 0
    OBVIOUS
  <2>2. CloseTurn(t, f, <<>>)
    BY <1>6, <2>1 DEF CloseTurn, ClosedTurn, Same, c
  <2> QED
    BY <1>6, <2>1, <2>2 DEF Becomes, Goal
<1>7. ASSUME NEW g \in Frames, Becomes(t, <<g>>), Same, f.fn # "stop",
             f.at = "insert" => conn'[c].opened, g.c = c, g.at # "return",
             Refers(g) \/ g = stop \/ (~Refers(f) /\ (Pending(c) => Pends))
      PROVE  Goal
  <2>1. <<g>> \in Seq(Frames) /\ Len(<<g>>) = 1
    OBVIOUS
  <2>2. Refers(f) \/ Pending(c) => Held(t, f, <<g>>)
    <3>1. <<g>>[1] = g /\ 1 \in 1 .. Len(<<g>>)
      BY <2>1
    <3>2. Refers(g) \/ g = stop => Held(t, f, <<g>>)
      BY <3>1 DEF Held, c
    <3> QED
      BY <1>7, <3>2 DEF Held, c
  <2>3. CloseTurn(t, f, <<g>>)
    BY <1>7, <2>1, <2>2 DEF CloseTurn, ClosedTurn, Same, c
  <2> QED
    BY <1>7, <2>1, <2>3 DEF Becomes, Goal
<1>8. ASSUME NEW g \in Frames, Becomes(t, <<stop, g>>), Same, f.fn # "stop", f.at # "insert", g.c = c
      PROVE  Goal
  <2>1. <<stop, g>> \in Seq(Frames) /\ Len(<<stop, g>>) = 2
    BY <1>4
  <2>2. Held(t, f, <<stop, g>>)
    BY <2>1 DEF Held, c
  <2>3. CloseTurn(t, f, <<stop, g>>)
    BY <1>4, <1>8, <2>1, <2>2 DEF CloseTurn, ClosedTurn, Same, c
  <2> QED
    BY <1>8, <2>1, <2>3 DEF Becomes, Goal
<1>9. ASSUME Becomes(t, Released(t, c)), Same, f.fn # "stop", f.at # "insert",
             Pending(c) => Pends
      PROVE  Goal
  <2>1. CASE Released(t, c) = <<>>
    <3>1. \/ conn[c].closed \/ Pending(c) \/ Referred(Tail(stack[t]), c)
          \/ \E u \in Threads \ {t} : Referred(stack[u], c)
      BY <2>1 DEF Released
    <3>2. Held(t, f, <<>>)
      BY <1>9, <3>1 DEF Held, c
    <3> QED
      BY <1>6, <1>9, <2>1, <3>2
  <2>2. CASE Released(t, c) = <<stop>>
    BY <1>4, <1>7, <1>9, <2>2
  <2> QED
    BY <2>1, <2>2, ReleasedFrames DEF stop
<1> HIDE DEF stop
<1>10. CASE WSAddSession(t, c)
  <2>1. f = Frame("create", c, "insert") /\ Becomes(t, <<Frame("create", c, "ws_onopen")>>)
    BY <1>2, <1>10 DEF WSAddSession
  <2>2. conn' = [conn EXCEPT ![c].opened = TRUE]
    BY <1>10 DEF WSAddSession
  <2>3. Same /\ conn'[c].opened
    BY <1>1, <2>2 DEF Same, Typed, ConnType
  <2>4. Frame("create", c, "ws_onopen") \in Frames
    BY <1>3 DEF Methods, Places, Callbacks
  <2> QED
    BY <1>7, <2>1, <2>3, <2>4 DEF Frame, Refers
<1>11. CASE StartRead(t, c)
  <2>1. f = Frame("create", c, "ws_onopen") /\ Becomes(t, <<>>)
    BY <1>2, <1>11 DEF StartRead
  <2>2. conn' = [conn EXCEPT ![c].read = TRUE]
    BY <1>11 DEF StartRead
  <2>3. Same /\ Pends
    BY <1>1, <2>2 DEF Same, Typed, ConnType, Pending
  <2> QED
    BY <1>6, <2>1, <2>3 DEF Frame, Held, c
<1>12. CASE Forward(t, c)
  <2>1. Same
    BY <1>5, <1>12 DEF Forward
  <2>2. CASE ws_forward(t, "WSPush", c) /\ Becomes(t, <<Frame("WSPush", c, "ws_onmessageout")>>)
    <3>1. f = Frame("WSPush", c, "find")
      BY <1>2, <2>2 DEF ws_forward
    <3>2. Frame("WSPush", c, "ws_onmessageout") \in Frames
      BY <1>3 DEF Methods, Forwarders, Places, Callbacks
    <3> QED
      BY <1>7, <2>1, <2>2, <3>1, <3>2 DEF Frame, Refers, Forwarders
  <2>3. CASE /\ ws_forward(t, "WSClose", c)
             /\ Becomes(t, <<Frame("stop", c, "exchange"), Frame("WSClose", c, "release")>>)
    <3>1. f = Frame("WSClose", c, "find")
      BY <1>2, <2>3 DEF ws_forward
    <3>2. Frame("WSClose", c, "release") \in Frames
      BY <1>3 DEF Methods, Forwarders, Places
    <3> QED
      BY <1>8, <2>1, <2>3, <3>1, <3>2 DEF Frame, stop
  <2> QED
    BY <1>12, <2>2, <2>3 DEF Forward
<1>13. CASE Refuse(t, c)
  <2>1. f.fn \in Forwarders /\ f.at = "find"
    BY <1>2, <1>13 DEF Refuse, ws_forward, Frame
  <2>2. ~Refers(f) /\ (Pending(c) => Held(t, f, <<>>))
    BY <1>5, <1>13, <2>1 DEF Refuse, Refers, Forwarders, Held, c
  <2> QED
    BY <1>5, <1>6, <1>13, <2>1, <2>2 DEF Refuse, Forwarders
<1>14. CASE Announced(t, c)
  <2>1. f = Frame("WSPush", c, "ws_onmessageout")
    BY <1>2, <1>14 DEF Announced
  <2>2. Frame("WSPush", c, "enqueue") \in Frames
    BY <1>3 DEF Methods, Forwarders, Places
  <2> QED
    BY <1>5, <1>7, <1>14, <2>1, <2>2 DEF Announced, Frame, Refers, Forwarders
<1>15. ASSUME Enqueue(t, c) \/ Overflowed(t, c) PROVE Goal
  <2>1. f \in {Frame("WSPush", c, "enqueue"), Frame("WSPush", c, "overflow")}
    BY <1>2, <1>15 DEF Enqueue, Overflowed
  <2>2. Frame("WSPush", c, "release") \in Frames
    BY <1>3 DEF Methods, Forwarders, Places
  <2>3. Same
    BY <1>1, <1>15 DEF Enqueue, Overflowed, WriteIfSingle, Same, Typed, ConnType
  <2>4. Becomes(t, <<Frame("WSPush", c, "release")>>)
    BY <1>15 DEF Enqueue, Overflowed
  <2> QED
    BY <1>7, <2>1, <2>2, <2>3, <2>4 DEF Frame, Refers, Forwarders
<1>16. CASE EnqueueOverflow(t, c)
  <2>1. /\ f = Frame("WSPush", c, "enqueue")
        /\ Becomes(t, <<stop, Frame("WSPush", c, "overflow")>>)
    BY <1>2, <1>16 DEF EnqueueOverflow, stop
  <2>2. Frame("WSPush", c, "overflow") \in Frames
    BY <1>3 DEF Methods, Forwarders, Places
  <2>3. Same
    BY <1>1, <1>16 DEF EnqueueOverflow, Same, Typed, ConnType
  <2> QED
    BY <1>8, <2>1, <2>2, <2>3 DEF Frame
<1>17. CASE Release(t, c)
  <2>1. PICK fn \in Forwarders :
          /\ At(t, fn, c, "release")
          /\ Becomes(t, IF Released(t, c) = <<>> THEN <<>>
                        ELSE Released(t, c) \o <<Frame(fn, c, "unlock")>>)
    BY <1>17 DEF Release
  <2>2. f = Frame(fn, c, "release") /\ Same /\ (Pending(c) => Pends)
    BY <1>2, <1>5, <1>17, <2>1 DEF Release, Pending
  <2>3. f.fn # "stop" /\ f.at # "insert"
    BY <2>2 DEF Frame, Forwarders
  <2>4. CASE Released(t, c) = <<>>
    BY <1>9, <2>1, <2>2, <2>3, <2>4
  <2>5. CASE Released(t, c) # <<>>
    <3>1. Released(t, c) = <<stop>>
      BY <2>5, ReleasedFrames DEF stop
    <3>2. Frame(fn, c, "unlock") \in Frames
      BY <1>3 DEF Methods, Places
    <3>3. Becomes(t, <<stop, Frame(fn, c, "unlock")>>)
      BY <1>4, <2>1, <2>5, <3>1, <3>2, Pair
    <3> QED
      BY <1>8, <2>2, <2>3, <3>2, <3>3 DEF Frame
  <2> QED
    BY <2>4, <2>5
<1>18. CASE Unlock(t, c)
  <2>1. f.fn \in Forwarders /\ f.at = "unlock"
    BY <1>2, <1>18 DEF Unlock, Frame
  <2>2. ~Refers(f) /\ (Pending(c) => Held(t, f, <<>>))
    BY <1>5, <1>18, <2>1 DEF Unlock, Refers, Forwarders, Held, c
  <2> QED
    BY <1>5, <1>6, <1>18, <2>1, <2>2 DEF Unlock, Forwarders
<1>19. CASE ReadReported(t, c)
  <2>1. /\ f = Frame("handle_read", c, "ws_onerror")
        /\ Becomes(t, <<stop, Frame("handle_read", c, "return")>>)
    BY <1>2, <1>19 DEF ReadReported, stop
  <2>2. Frame("handle_read", c, "return") \in Frames
    BY <1>3 DEF Methods, Places
  <2> QED
    BY <1>5, <1>8, <1>19, <2>1, <2>2 DEF ReadReported, Frame
<1>20. CASE WriteReported(t, c)
  <2>1. f = Frame("handle_write", c, "ws_onerror")
    BY <1>2, <1>20 DEF WriteReported
  <2>2. Frame("handle_write", c, "clear") \in Frames
    BY <1>3 DEF Methods, Places
  <2> QED
    BY <1>5, <1>7, <1>20, <2>1, <2>2 DEF WriteReported, Frame, Refers
<1>21. CASE Dequeue(t, c)
  <2>1. f = Frame("handle_write", c, "dequeue") /\ f.fn # "stop" /\ f.at # "insert"
    BY <1>2, <1>21 DEF Dequeue, Frame
  <2>2. ~conn[c].write
    BY <1>1, <2>1 DEF Writing, Frame
  <2>3. /\ Same /\ conn'[c].read = conn[c].read
        /\ conn[c].queue > 1 => conn'[c].write
    BY <1>1, <1>21 DEF Dequeue, Same, Typed, ConnType
  <2>4. Pending(c) => Pends
    BY <2>2, <2>3 DEF Pending
  <2>5. CASE Becomes(t, Released(t, c))
    BY <1>9, <2>1, <2>3, <2>4, <2>5
  <2>6. CASE conn[c].queue > 1 /\ Becomes(t, <<>>)
    <3>1. Held(t, f, <<>>)
      BY <2>3, <2>6 DEF Held, Pending, c
    <3> QED
      BY <1>6, <2>1, <2>3, <2>6, <3>1
  <2> QED
    BY <1>21, <2>5, <2>6 DEF Dequeue
<1>22. CASE Clear(t, c)
  <2>1. /\ f = Frame("handle_write", c, "clear")
        /\ Becomes(t, <<stop, Frame("handle_write", c, "return")>>)
    BY <1>2, <1>22 DEF Clear, stop
  <2>2. Frame("handle_write", c, "return") \in Frames
    BY <1>3 DEF Methods, Places
  <2>3. Same
    BY <1>1, <1>22 DEF Clear, Same, Typed, ConnType
  <2> QED
    BY <1>8, <2>1, <2>2, <2>3 DEF Frame
<1>23. CASE HandlerReturns(t, c)
  <2>1. f.fn # "stop" /\ f.at = "return"
    BY <1>2, <1>23 DEF HandlerReturns, Frame
  <2> QED
    BY <1>5, <1>6, <1>23, <2>1 DEF HandlerReturns, Held
<1>24. ASSUME NEW r \in Seq(Frames), Becomes(t, r), ClosedTurn(f, r), f.fn = "stop", f.at # "insert",
              Pending(c) => Pends, \A i \in 1 .. Len(r) : r[i].c = c /\ r[i].at # "return"
       PROVE  Goal
  <2>1. CloseTurn(t, f, r)
    BY <1>24 DEF CloseTurn, Refers, Forwarders, Held, c
  <2> QED
    BY <1>24, <2>1 DEF Becomes, Goal
<1>25. CASE StopFirst(t, c)
  <2> DEFINE g == Frame("stop", c, "ws_onclose")
  <2>1. f = stop /\ Becomes(t, <<g>>) /\ ~conn[c].closed
    BY <1>2, <1>25 DEF StopFirst, stop
  <2>2. /\ conn'[c].closed /\ conn'[c].sock = conn[c].sock
        /\ conn'[c].onclose = conn[c].onclose + 1
        /\ Pending(c) => Pends
    BY <1>1, <1>25 DEF StopFirst, Typed, ConnType, Pending
  <2>3. ClosedTurn(f, <<g>>)
    BY <2>1, <2>2 DEF ClosedTurn, stop, c
  <2>4. g \in Frames /\ g.at # "return" /\ g.c = c
    BY <1>3 DEF Methods, Places, Callbacks, Frame
  <2>5. <<g>> \in Seq(Frames) /\ \A i \in 1 .. Len(<<g>>) : <<g>>[i] = g
    BY <2>4
  <2>6. f.fn = "stop" /\ f.at # "insert"
    BY <2>1 DEF stop, Frame
  <2> HIDE DEF g
  <2> QED
    BY <1>24, <2>1, <2>2, <2>3, <2>4, <2>5, <2>6
<1>26. ASSUME StopAgain(t, c) \/ StopSocket(t, c) PROVE Goal
  <2>1. f.fn = "stop" /\ f.at # "insert" /\ Becomes(t, <<>>)
    BY <1>2, <1>26 DEF StopAgain, StopSocket, Frame
  <2>2. ClosedTurn(f, <<>>)
    <3>1. CASE StopAgain(t, c)
      BY <1>2, <3>1 DEF StopAgain, ClosedTurn, c
    <3>2. CASE StopSocket(t, c)
      <4>1. /\ conn'[c].sock = "closed" /\ conn'[c].closed = conn[c].closed
            /\ conn'[c].onclose = conn[c].onclose
        BY <1>1, <3>2 DEF StopSocket, Typed, ConnType
      <4>2. f = Frame("stop", c, "ws_onclose")
        BY <1>2, <3>2 DEF StopSocket
      <4> QED
        BY <4>1, <4>2 DEF ClosedTurn, c
    <3> QED
      BY <1>26, <3>1, <3>2
  <2>3. <<>> \in Seq(Frames) /\ \A i \in 1 .. Len(<<>>) : FALSE
    OBVIOUS
  <2>4. Pending(c) => Pends
    BY <1>1, <1>26, ZenonT(60) DEF StopAgain, StopSocket, Typed, ConnType, Pending
  <2> QED
    BY <1>24, <2>1, <2>2, <2>3, <2>4
<1>27. CASE Throw(t, c)
  <2>1. Same /\ (Pending(c) => Pends)
    BY <1>5, <1>27 DEF Throw, Pending
  <2>2. f.fn # "stop" /\ f.at # "insert"
    BY <1>2, <1>27 DEF Throw, Frame
  <2>3. CASE Becomes(t, Released(t, c))
    BY <1>9, <2>1, <2>2, <2>3
  <2>4. CASE Becomes(t, <<Frame("WSPush", c, "release")>>)
    <3>1. Frame("WSPush", c, "release") \in Frames
      BY <1>3 DEF Methods, Forwarders, Places
    <3> QED
      BY <1>7, <2>1, <2>2, <2>4, <3>1 DEF Frame, Refers, Forwarders
  <2> QED
    BY <1>27, <2>3, <2>4 DEF Throw
<1> QED
  BY <1>10, <1>11, <1>12, <1>13, <1>14, <1>15, <1>16, <1>17, <1>18, <1>19,
     <1>20, <1>21, <1>22, <1>23, <1>25, <1>26, <1>27 DEF Step, f, c

\* Where the frames of a step of a call are before and after it.
LEMMA StepPlaces ==
  ASSUME Typed, NEW t \in Threads, stack[t] # <<>>, NEW r \in Seq(Frames),
         stack' = [stack EXCEPT ![t] = r \o Tail(@)]
  PROVE  /\ \A u \in Threads \ {t} : stack'[u] = stack[u]
         /\ \A i \in 1 .. Len(r) : i \in DOMAIN stack'[t] /\ stack'[t][i] = r[i]
         /\ \A i \in DOMAIN stack'[t] :
              \/ i \in 1 .. Len(r)
              \/ \E j \in DOMAIN stack[t] : j >= 2 /\ stack'[t][i] = stack[t][j]
         /\ \A j \in DOMAIN stack[t] : j >= 2 =>
              \E i \in DOMAIN stack'[t] : stack'[t][i] = stack[t][j]
         /\ \A i \in DOMAIN Tail(stack[t]) :
              \E j \in DOMAIN stack[t] : j >= 2 /\ Tail(stack[t])[i] = stack[t][j]
<1> DEFINE n == r \o Tail(stack[t])
           k == Len(stack[t])
           l == Len(r)
<1>1. /\ n \in Seq(Frames) /\ Len(n) = l + k - 1
      /\ \A i \in 1 .. l : n[i] = r[i]
      /\ \A i \in l + 1 .. l + k - 1 : n[i] = stack[t][i - l + 1]
  BY Innermost, Replaced
<1>2. stack'[t] = n /\ \A u \in Threads \ {t} : stack'[u] = stack[u]
  BY DEF Typed
<1>3. k \in Nat /\ k >= 1 /\ l \in Nat /\ DOMAIN stack[t] = 1 .. k
  BY Innermost
<1>4. DOMAIN n = 1 .. l + k - 1
  BY <1>1
<1>5. /\ DOMAIN Tail(stack[t]) = 1 .. k - 1
      /\ \A i \in 1 .. k - 1 : Tail(stack[t])[i] = stack[t][i + 1]
  BY Innermost
<1> HIDE DEF n, k, l
<1>6. ASSUME NEW i \in 1 .. l PROVE i \in DOMAIN stack'[t] /\ stack'[t][i] = r[i]
  BY <1>1, <1>2, <1>3, <1>4
<1>7. ASSUME NEW i \in DOMAIN stack'[t], i \notin 1 .. l
      PROVE  \E j \in DOMAIN stack[t] : j >= 2 /\ stack'[t][i] = stack[t][j]
  <2>1. i \in l + 1 .. l + k - 1
    BY <1>2, <1>3, <1>4, <1>7
  <2>2. i - l + 1 \in DOMAIN stack[t] /\ i - l + 1 >= 2
    BY <1>3, <2>1
  <2> QED
    BY <1>1, <1>2, <2>1, <2>2
<1>8. ASSUME NEW j \in DOMAIN stack[t], j >= 2
      PROVE  \E i \in DOMAIN stack'[t] : stack'[t][i] = stack[t][j]
  <2>1. j - 1 + l \in l + 1 .. l + k - 1 /\ (j - 1 + l) - l + 1 = j
    BY <1>3, <1>8
  <2>2. j - 1 + l \in DOMAIN stack'[t]
    BY <1>2, <1>3, <1>4, <2>1
  <2>3. stack'[t][j - 1 + l] = stack[t][j]
    BY <1>1, <1>2, <2>1
  <2> QED
    BY <2>2, <2>3
<1>9. ASSUME NEW i \in DOMAIN Tail(stack[t])
      PROVE  \E j \in DOMAIN stack[t] : j >= 2 /\ Tail(stack[t])[i] = stack[t][j]
  <2>1. i + 1 \in DOMAIN stack[t] /\ i + 1 >= 2
    BY <1>3, <1>5
  <2> QED
    BY <1>5, <2>1
<1> QED
  BY <1>2, <1>6, <1>7, <1>8, <1>9 DEF l

\* A connection is closed by somebody, once, and its socket after it.
LEMMA ClosesStep ==
  ASSUME Typed, \A t \in Threads : Stacked(stack[t]), [Next]_vars,
         NEW d \in Conns, Queued(d), Closes(d)
  PROVE  Closes(d)'
<1> DEFINE stop == Frame("stop", d, "exchange")
           ends == Frame("stop", d, "ws_onclose")
           k == conn[d]
           k1 == conn'[d]
           On(g) == \E u \in Threads : \E i \in DOMAIN stack'[u] : stack'[u][i] = g
           C1 == k1.onclose = IF k1.closed THEN 1 ELSE 0
           C2 == k1.closed \/ k1.read \/ k1.write => k1.opened
           C3 == \A u \in Threads : \A i \in DOMAIN stack'[u] :
                   stack'[u][i].c = d => k1.opened \/ stack'[u][i].at = "insert"
           C4 == \A u \in Threads : \A i \in DOMAIN stack'[u] :
                   stack'[u][i].c = d /\ stack'[u][i].at = "return" =>
                     k1.closed \/ (i = 2 /\ stack'[u][1] = stop)
           C5 == k1.opened /\ ~k1.closed => Alive(d)' \/ On(stop)
           C6 == k1.closed /\ k1.sock = "open" => On(ends)
<1>1. ASSUME C1, C2, C3, C4, C5, C6 PROVE Closes(d)'
  BY <1>1 DEF Closes, OnStack, Pending, Frame
<1>2. k \in ConnType /\ k1 \in ConnType
  BY TypedStep DEF Typed
<1>3. /\ k.onclose = IF k.closed THEN 1 ELSE 0
      /\ k.closed \/ Pending(d) => k.opened
      /\ \A u \in Threads : \A i \in DOMAIN stack[u] :
           stack[u][i].c = d =>
             /\ k.opened \/ stack[u][i].at = "insert"
             /\ stack[u][i].at = "return" => k.closed \/ (i = 2 /\ stack[u][1] = stop)
      /\ k.opened /\ ~k.closed =>
           Alive(d) \/ \E u \in Threads : \E i \in DOMAIN stack[u] : stack[u][i] = stop
      /\ k.closed /\ k.sock = "open" =>
           \E u \in Threads : \E i \in DOMAIN stack[u] : stack[u][i] = ends
  BY DEF Closes, OnStack
<1>4. stop.c = d /\ ends.c = d /\ stop.fn = "stop" /\ ends.fn = "stop"
      /\ stop.at = "exchange" /\ ends.at = "ws_onclose"
  BY DEF Frame
<1>5. ASSUME k1.read \/ k1.write PROVE Alive(d)'
  BY <1>5 DEF Alive, Pending
<1>6. ASSUME NEW u \in Threads, NEW i \in DOMAIN stack'[u],
             stack'[u][i].c = d, Refers(stack'[u][i])
      PROVE  Alive(d)'
  BY <1>6 DEF Alive, Referred, Refers
<1> HIDE DEF stop, ends, C1, C2, C3, C4, C5, C6
\* The connection and all its frames are left alone.
<1>7. ASSUME k1.onclose = k.onclose, k1.closed = k.closed, k1.sock = k.sock,
             k1.opened = k.opened, k1.read = k.read, k1.write = k.write,
             \A u \in Threads : \A j \in DOMAIN stack[u] :
               stack[u][j].c = d => \E i \in DOMAIN stack'[u] : stack'[u][i] = stack[u][j]
      PROVE  C1 /\ C2 /\ C5 /\ C6
  <2>1. C1 /\ C2
    BY <1>3, <1>7 DEF C1, C2, Pending
  <2>2. C5
    <3> SUFFICES ASSUME k.opened, ~k.closed PROVE Alive(d)' \/ On(stop)
      BY <1>7 DEF C5
    <3>1. CASE Pending(d)
      BY <1>5, <1>7, <3>1 DEF Pending
    <3>2. ASSUME NEW u \in Threads, NEW j \in DOMAIN stack[u],
                 stack[u][j].c = d, Refers(stack[u][j])
          PROVE  Alive(d)'
      BY <1>6, <1>7, <3>2
    <3>3. ASSUME NEW u \in Threads, NEW j \in DOMAIN stack[u], stack[u][j] = stop
          PROVE  On(stop)
      BY <1>4, <1>7, <3>3
    <3> QED
      BY <1>3, <3>1, <3>2, <3>3 DEF Alive, Referred
  <2>3. C6
    <3> SUFFICES ASSUME k.closed, k.sock = "open" PROVE On(ends)
      BY <1>7 DEF C6
    <3>1. PICK u \in Threads : \E j \in DOMAIN stack[u] : stack[u][j] = ends
      BY <1>3
    <3> QED
      BY <1>4, <1>7, <3>1
  <2> QED
    BY <2>1, <2>2, <2>3
<1>8. ASSUME NEW t \in Threads, stack[t] # <<>>, Step(t, Head(stack[t]).c)
      PROVE  Closes(d)'
  <2> DEFINE f == Head(stack[t])
  <2>1. f = stack[t][1] /\ 1 \in DOMAIN stack[t] /\ DOMAIN stack[t] = 1 .. Len(stack[t])
        /\ Len(stack[t]) \in Nat
    BY <1>8, Innermost
  <2>2. CASE d # f.c
    <3>1. conn'[d] = conn[d]
      BY <1>8, <2>2, StepQueue DEF QueueTurn
    <3>2. PICK r \in Seq(Frames) :
            stack' = [stack EXCEPT ![t] = r \o Tail(@)] /\ Turn(f, r)
      BY <1>8, StepFrames
    <3>3. /\ \A u \in Threads \ {t} : stack'[u] = stack[u]
          /\ \A i \in 1 .. Len(r) : i \in DOMAIN stack'[t] /\ stack'[t][i] = r[i]
          /\ \A j \in DOMAIN stack[t] : j >= 2 =>
               \E i \in DOMAIN stack'[t] : stack'[t][i] = stack[t][j]
          /\ \A i \in DOMAIN stack'[t] :
               \/ i \in 1 .. Len(r)
               \/ \E j \in DOMAIN stack[t] : j >= 2 /\ stack'[t][i] = stack[t][j]
      BY <1>8, <3>2, StepPlaces
    <3>4. \A i \in 1 .. Len(r) : r[i].c # d
      BY <2>2, <3>2 DEF Turn, Follows
    <3> HIDE DEF f
    <3>5. ASSUME NEW u \in Threads, NEW i \in DOMAIN stack'[u], stack'[u][i].c = d
          PROVE  \/ stack'[u] = stack[u]
                 \/ u = t /\ \E j \in DOMAIN stack[t] : stack'[t][i] = stack[t][j]
      <4>1. CASE u # t
        BY <3>3, <4>1
      <4>2. CASE u = t
        BY <3>3, <3>4, <3>5, <4>2
      <4> QED
        BY <4>1, <4>2
    <3>6. ASSUME NEW u \in Threads, NEW j \in DOMAIN stack[u], stack[u][j].c = d
          PROVE  \E i \in DOMAIN stack'[u] : stack'[u][i] = stack[u][j]
      <4>1. u # t \/ j >= 2
        BY <2>1, <2>2, <3>6
      <4>2. CASE u # t
        BY <3>3, <4>2
      <4>3. CASE u = t
        BY <3>3, <4>1, <4>3
      <4> QED
        BY <4>2, <4>3
    <3>7. C3
      BY <1>3, <3>1, <3>5 DEF C3
    <3>8. stack[t][1] # stop
      BY <1>4, <2>1, <2>2
    <3>9. C4
      BY <1>3, <3>1, <3>5, <3>8 DEF C4
    <3> QED
      BY <1>1, <1>7, <3>1, <3>6, <3>7, <3>9
  <2>3. CASE d = f.c
    <3>1. PICK r \in Seq(Frames) :
            stack' = [stack EXCEPT ![t] = r \o Tail(@)] /\ CloseTurn(t, f, r)
      BY <1>8, <2>3, StepCloses
    <3>2. RegistryTurn(f)
      BY <1>8, StepRegistry
    <3>3. /\ k.opened => k1.opened
          /\ k1.opened /\ ~k.opened => f.fn = "create"
          /\ k1.read \/ k1.write => Pending(d) \/ Refers(f)
      BY <3>2 DEF RegistryTurn, Pending
    <3> HIDE DEF f
    <3>4. k.opened \/ f.at = "insert"
      BY <1>3, <2>1, <2>3
    <3>5. k1.opened
      BY <2>3, <3>1, <3>3, <3>4 DEF CloseTurn
    <3>6. \/ /\ f.fn # "stop"
             /\ k1.closed = k.closed /\ k1.sock = k.sock /\ k1.onclose = k.onclose
          \/ /\ f = stop /\ ~k.closed
             /\ k1.closed /\ k1.sock = k.sock /\ k1.onclose = k.onclose + 1
             /\ r = <<ends>>
          \/ /\ f = stop /\ k.closed
             /\ k1.closed /\ k1.sock = k.sock /\ k1.onclose = k.onclose
          \/ /\ f = ends
             /\ k1.closed = k.closed /\ k1.sock = "closed" /\ k1.onclose = k.onclose
      BY <2>3, <3>1 DEF CloseTurn, ClosedTurn, stop, ends
    <3>7. k.closed => k1.closed
      BY <3>6
    <3>8. C1
      BY <1>2, <1>3, <3>6 DEF C1, ConnType
    <3>9. C2 /\ C3
      BY <3>5 DEF C2, C3
    <3>10. /\ \A u \in Threads \ {t} : stack'[u] = stack[u]
           /\ \A i \in 1 .. Len(r) : i \in DOMAIN stack'[t] /\ stack'[t][i] = r[i]
           /\ \A j \in DOMAIN stack[t] : j >= 2 =>
                \E i \in DOMAIN stack'[t] : stack'[t][i] = stack[t][j]
           /\ \A i \in DOMAIN stack'[t] :
                \/ i \in 1 .. Len(r)
                \/ \E j \in DOMAIN stack[t] : j >= 2 /\ stack'[t][i] = stack[t][j]
           /\ \A i \in DOMAIN Tail(stack[t]) :
                \E j \in DOMAIN stack[t] : j >= 2 /\ Tail(stack[t])[i] = stack[t][j]
      BY <1>8, <3>1, StepPlaces
    <3>11. ASSUME NEW u \in Threads, NEW j \in DOMAIN stack[u], u # t \/ j >= 2
           PROVE  \E i \in DOMAIN stack'[u] : stack'[u][i] = stack[u][j]
      BY <3>11, <3>10
    <3>12. C4
      <4> SUFFICES ASSUME NEW u \in Threads, NEW i \in DOMAIN stack'[u],
                          stack'[u][i].c = d, stack'[u][i].at = "return", ~k1.closed
                   PROVE  i = 2 /\ stack'[u][1] = stop
        BY DEF C4
      <4>1. CASE u # t
        <5>1. stack'[u] = stack[u]
          BY <3>10, <4>1
        <5> QED
          BY <1>3, <3>7, <5>1
      <4>2. CASE u = t /\ i \in 1 .. Len(r)
        <5>1. stack'[t][i] = r[i]
          BY <3>10, <4>2
        <5>2. i = 2 /\ r[1] = stop
          BY <2>3, <3>1, <4>2, <5>1 DEF CloseTurn, stop
        <5>3. 1 \in 1 .. Len(r)
          BY <4>2, <5>2
        <5>4. stack'[t][1] = r[1]
          BY <3>10, <5>3
        <5> QED
          BY <4>2, <5>2, <5>4
      <4>3. CASE u = t /\ i \notin 1 .. Len(r)
        <5>1. PICK j \in DOMAIN stack[t] : stack'[t][i] = stack[t][j]
          BY <3>10, <4>3
        <5>2. k.closed \/ f = stop
          BY <1>3, <2>1, <4>3, <5>1
        <5>3. k1.closed
          BY <1>4, <3>6, <5>2
        <5> QED
          BY <5>3
      <4> QED
        BY <4>1, <4>2, <4>3
    <3>13. C5
      <4> SUFFICES ASSUME ~k1.closed PROVE Alive(d)' \/ On(stop)
        BY DEF C5
      <4>1. ~k.closed /\ f # stop
        BY <1>4, <3>6, <3>7
      <4>2. CASE Refers(f) \/ Pending(d)
        <5>1. Held(t, f, r)
          BY <2>3, <3>1, <4>2 DEF CloseTurn
        <5>2. f.at # "return"
          BY <1>3, <2>1, <2>3, <4>1
        <5>3. \/ k1.read \/ k1.write
              \/ Referred(Tail(stack[t]), d)
              \/ \E u \in Threads \ {t} : Referred(stack[u], d)
              \/ \E i \in 1 .. Len(r) : Refers(r[i]) \/ r[i] = stop
          BY <2>3, <4>1, <5>1, <5>2 DEF Held, stop
        <5>4. CASE Referred(Tail(stack[t]), d)
          <6>1. PICK i \in DOMAIN Tail(stack[t]) :
                  Tail(stack[t])[i].c = d /\ Refers(Tail(stack[t])[i])
            BY <5>4 DEF Referred
          <6>2. PICK j \in DOMAIN stack[t] : j >= 2 /\ Tail(stack[t])[i] = stack[t][j]
            BY <3>10, <6>1
          <6> QED
            BY <1>6, <3>11, <6>1, <6>2
        <5>5. ASSUME NEW u \in Threads \ {t}, Referred(stack[u], d) PROVE Alive(d)'
          BY <1>6, <3>11, <5>5 DEF Referred
        <5>6. ASSUME NEW i \in 1 .. Len(r), Refers(r[i]) \/ r[i] = stop
              PROVE  Alive(d)' \/ On(stop)
          <6>1. i \in DOMAIN stack'[t] /\ stack'[t][i] = r[i]
            BY <3>10
          <6>2. r[i].c = d
            BY <2>3, <3>1 DEF CloseTurn
          <6> QED
            BY <1>6, <5>6, <6>1, <6>2
        <5> QED
          BY <1>5, <5>3, <5>4, <5>5, <5>6
      <4>3. CASE ~Refers(f) /\ ~Pending(d)
        <5>1. k.opened
          BY <3>3, <3>5, <4>3 DEF Refers
        <5>2. CASE Alive(d)
          <6>0. PICK u \in Threads : \E j \in DOMAIN stack[u] :
                  stack[u][j].c = d /\ Refers(stack[u][j])
            BY <4>3, <5>2 DEF Alive, Referred
          <6>1. PICK j \in DOMAIN stack[u] : stack[u][j].c = d /\ Refers(stack[u][j])
            BY <6>0
          <6>2. u # t \/ j >= 2
            BY <2>1, <4>3, <6>1
          <6> QED
            BY <1>6, <3>11, <6>1, <6>2
        <5>3. CASE \E u \in Threads : \E j \in DOMAIN stack[u] : stack[u][j] = stop
          <6>0. PICK u \in Threads : \E j \in DOMAIN stack[u] :
                  stack[u][j] = stop
            BY <5>3
          <6>1. PICK j \in DOMAIN stack[u] : stack[u][j] = stop
            BY <6>0
          <6>2. u # t \/ j >= 2
            BY <2>1, <4>1, <6>1
          <6> QED
            BY <3>11, <6>1, <6>2
        <5> QED
          BY <1>3, <4>1, <5>1, <5>2, <5>3
      <4> QED
        BY <4>2, <4>3
    <3>14. C6
      <4> SUFFICES ASSUME k1.closed, k1.sock = "open" PROVE On(ends)
        BY DEF C6
      <4>1. CASE k.closed /\ k.sock = "open" /\ f # ends
        <5>0. PICK u \in Threads : \E j \in DOMAIN stack[u] :
                stack[u][j] = ends
          BY <1>3, <4>1
        <5>1. PICK j \in DOMAIN stack[u] : stack[u][j] = ends
          BY <5>0
        <5>2. u # t \/ j >= 2
          BY <2>1, <4>1, <5>1
        <5> QED
          BY <3>11, <5>1, <5>2
      <4>2. CASE r = <<ends>>
        <5>1. 1 \in 1 .. Len(r) /\ r[1] = ends
          BY <4>2
        <5> QED
          BY <3>10, <5>1
      <4>3. (k.closed /\ k.sock = "open" /\ f # ends) \/ r = <<ends>>
        <5>1. stop # ends /\ (f = ends => f.fn = "stop")
          BY <1>4
        <5>2. k.closed \in BOOLEAN /\ k1.closed \in BOOLEAN
          BY <1>2 DEF ConnType
        <5> QED
          BY <3>6, <5>1, <5>2
      <4> QED
        BY <4>1, <4>2, <4>3
    <3> QED
      BY <1>1, <3>8, <3>9, <3>12, <3>13, <3>14
  <2> QED
    BY <2>2, <2>3
<1>9. ASSUME NEW t \in Threads, NEW c \in Conns, Handler(t, c) PROVE Closes(d)'
  <2>1. PICK r \in Seq(Frames) : stack' = [stack EXCEPT ![t] = r] /\ Begins(c, r)
    BY <1>9, HandlerStarts
  <2>2. HandlerTurn(c) /\ stack[t] = <<>>
    BY <1>9, HandlerStarts
  <2>3. /\ stack'[t] = r /\ \A u \in Threads \ {t} : stack'[u] = stack[u]
        /\ DOMAIN r = 1 .. Len(r)
    BY <2>1 DEF Typed
  <2>4. /\ k1.closed = k.closed /\ k1.sock = k.sock /\ k1.onclose = k.onclose
        /\ k1.opened = k.opened
        /\ d # c => k1 = k
    BY <2>2 DEF HandlerTurn, Typed
  <2>5. k1.read \/ k1.write => Pending(d)
    <3>1. CASE d = c
      BY <2>2, <3>1 DEF HandlerTurn, Pending
    <3>2. CASE d # c
      BY <2>4, <3>2 DEF Pending
    <3> QED
      BY <3>1, <3>2
  <2>6. ASSUME NEW u \in Threads, NEW j \in DOMAIN stack[u]
        PROVE  u # t /\ stack'[u] = stack[u]
    BY <2>2, <2>3
  <2>7. ASSUME NEW i \in DOMAIN stack'[t], stack'[t][i].c = d
        PROVE  /\ d = c
               /\ k.opened \/ stack'[t][i].at = "insert"
               /\ stack'[t][i].at = "return" => i = 2 /\ stack'[t][1] = stop
    <3>1. i \in 1 .. Len(r) /\ stack'[t][i] = r[i]
      BY <2>3
    <3>2. d = c
      BY <2>1, <2>7, <3>1 DEF Begins
    <3>3. k.opened \/ r[i].at = "insert"
      BY <1>3, <2>1, <3>1, <3>2 DEF Begins
    <3>4. r[i].at = "return" => i = 2 /\ r[1] = stop
      BY <2>1, <3>1, <3>2 DEF Begins, stop
    <3> QED
      BY <2>3, <3>1, <3>2, <3>3, <3>4
  <2>8. C1 /\ C2
    BY <1>3, <2>4, <2>5 DEF C1, C2
  <2>9. C3 /\ C4
    BY <1>3, <2>3, <2>4, <2>7 DEF C3, C4
  <2>10. CASE d = c
    <3>1. Alive(d)'
      <4>1. PICK i \in 1 .. Len(r) : Refers(r[i])
        BY <2>1 DEF Begins
      <4>2. r[i].c = d
        BY <2>1, <2>10 DEF Begins
      <4> QED
        BY <1>6, <2>3, <4>1, <4>2
    <3>2. C5
      BY <3>1 DEF C5
    <3>3. C6
      BY <1>3, <2>4, <2>6 DEF C6
    <3> QED
      BY <1>1, <2>8, <2>9, <3>2, <3>3
  <2>11. CASE d # c
    BY <1>1, <1>7, <2>4, <2>6, <2>9, <2>11
  <2> QED
    BY <2>10, <2>11
<1>10. ASSUME NEW t \in Threads, Call(t) PROVE Closes(d)'
  <2>1. PICK g \in Frames : /\ g.at = "find" /\ conn[g.c].opened
                            /\ stack' = [stack EXCEPT ![t] = <<g>> \o @]
                            /\ UNCHANGED conn
                            /\ stack[t] # <<>> => stack[t][1].at \in Calling
    BY <1>10, CallPushes
  <2> DEFINE s == stack[t]
             n == <<g>> \o s
  <2>2. s \in Seq(Frames)
    BY DEF Typed
  <2>3. /\ n \in Seq(Frames) /\ Len(n) = Len(s) + 1 /\ Len(s) \in Nat
        /\ n[1] = g /\ \A i \in 2 .. Len(s) + 1 : n[i] = s[i - 1]
    BY <2>2, Pushed
  <2>4. stack'[t] = n /\ \A u \in Threads \ {t} : stack'[u] = stack[u]
    BY <2>1 DEF Typed
  <2>5. DOMAIN s = 1 .. Len(s) /\ DOMAIN n = 1 .. Len(s) + 1
    BY <2>2, <2>3
  <2>6. \A j \in DOMAIN s : s # <<>>
    OBVIOUS
  <2>7. s # <<>> => s[1] # stop
    BY <1>4, <2>1, CallbacksAssumption DEF Callbacks
  <2> HIDE DEF n, s
  <2>8. ASSUME NEW j \in DOMAIN s PROVE j + 1 \in DOMAIN n /\ n[j + 1] = s[j]
    BY <2>3, <2>5
  <2>9. ASSUME NEW i \in DOMAIN n
        PROVE  n[i] = g \/ \E j \in DOMAIN s : n[i] = s[j]
    <3>1. i = 1 \/ (i \in 2 .. Len(s) + 1 /\ i - 1 \in DOMAIN s)
      BY <2>3, <2>5
    <3> QED
      BY <2>3, <3>1
  <2>10. ASSUME NEW u \in Threads, NEW j \in DOMAIN stack[u]
         PROVE  \E i \in DOMAIN stack'[u] : stack'[u][i] = stack[u][j]
    BY <2>4, <2>8 DEF s
  <2>11. C3
    BY <1>3, <2>1, <2>4, <2>9 DEF C3, s
  <2>12. C4
    <3> SUFFICES ASSUME NEW u \in Threads, NEW i \in DOMAIN stack'[u],
                        stack'[u][i].c = d, stack'[u][i].at = "return", ~k1.closed
                 PROVE  i = 2 /\ stack'[u][1] = stop
      BY DEF C4
    <3>1. CASE u # t
      BY <1>3, <2>1, <2>4, <3>1
    <3>2. CASE u = t
      <4>1. PICK j \in DOMAIN s : n[i] = s[j]
        BY <2>1, <2>4, <2>9, <3>2
      <4>2. k.closed \/ s[1] = stop
        BY <1>3, <2>4, <3>2, <4>1 DEF s
      <4> QED
        BY <2>1, <2>6, <2>7, <4>1, <4>2
    <3> QED
      BY <3>1, <3>2
  <2> QED
    BY <1>1, <1>7, <2>1, <2>10, <2>11, <2>12
<1>11. ASSUME stack' = stack, k1.onclose = k.onclose, k1.closed = k.closed, k1.sock = k.sock,
              k1.opened = k.opened, k1.read = k.read, k1.write = k.write
       PROVE  Closes(d)'
  BY <1>1, <1>3, <1>7, <1>11 DEF C3, C4
<1>12. ASSUME NEW c \in Conns, LinkFails(c) PROVE Closes(d)'
  BY <1>11, <1>12, LinkTurn
<1>13. CASE UNCHANGED vars
  BY <1>11, <1>13 DEF vars
<1> QED
  BY <1>8, <1>9, <1>10, <1>12, <1>13 DEF Next, Continue, Quiet

-----------------------------------------------------------------------------
(* The theorems *)

\* The registry begins empty: nobody is in a call and nothing has been announced.
LEMMA InitInv == ASSUME Init PROVE IInv /\ \A t \in Threads : CallsLast(stack[t])
<1>1. /\ stack = [t \in Threads |-> <<>>]
      /\ \A t \in Threads : stack[t] = <<>> /\ DOMAIN stack[t] = {} /\ Len(stack[t]) = 0
  BY DEF Init
<1>2. conn \in [Conns -> ConnType]
  BY DEF Init, ConnType
<1>3. Typed
  BY <1>1, <1>2 DEF Init, Typed
<1>4. \A t \in Threads : Stacked(stack[t]) /\ CallsLast(stack[t])
  <2>1. ASSUME NEW t \in Threads PROVE Stacked(stack[t])
    BY <1>1 DEF Stacked
  <2>2. ASSUME NEW t \in Threads PROVE CallsLast(stack[t])
    <3>1. Len(stack[t]) = 0
      BY <1>1
    <3>2. 2 .. Len(stack[t]) = {}
      BY <3>1
    <3> QED
      BY <3>2 DEF CallsLast
  <2> QED
    BY <2>1, <2>2
<1>5. \A c \in Conns : ~conn[c].opened /\ conn[c].queue = 0 /\ ~conn[c].write
  BY DEF Init
<1>6. \A c \in Conns : Known(c) /\ Queued(c) /\ Closes(c)
  BY <1>1, <1>5 DEF Known, Queued, Closes, Pending, Init
<1>7. OpenIsRegistered /\ RefusedIsGone
  BY <1>5 DEF OpenIsRegistered, RefusedIsGone, Init
<1> QED
  BY <1>3, <1>4, <1>6, <1>7 DEF IInv

\* Every step keeps the invariant.
LEMMA InvStep == ASSUME IInv, [Next]_vars PROVE IInv'
<1> USE DEF IInv
<1>1. Typed'
  BY TypedStep
<1>2. \A t \in Threads : Stacked(stack[t])'
  BY StackedStep DEF Stacked
<1>3. \A c \in Conns : Known(c)' /\ Queued(c)' /\ Closes(c)'
  BY KnownStep, QueuedStep, ClosesStep
<1>4. OpenIsRegistered' /\ RefusedIsGone'
  BY OpenIsRegisteredStep, RefusedIsGoneStep
<1> QED
  BY <1>1, <1>2, <1>3, <1>4

\* The invariant, of which the theorems below are consequences.
THEOREM Invariance == Spec => []IInv
<1>1. Init => IInv
  BY InitInv
<1>2. IInv /\ [Next]_vars => IInv'
  BY InvStep
<1> QED
  BY <1>1, <1>2, PTL DEF Spec

\* The types; with them, handle_write never takes a message from an empty
\* send_q_ (ws_connection.cpp:122), whatever pushes, overflows and errors have
\* done to the queue while its message was being written.
THEOREM TypeCorrect == Spec => []TypeOK
<1>1. IInv => TypeOK
  <2> SUFFICES ASSUME IInv PROVE TypeOK
    OBVIOUS
  <2>1. ASSUME NEW c \in Conns PROVE conn[c] \in ConnType /\ conn[c].queue \in Nat
    <3>1. conn[c] \in ConnType
      BY DEF IInv, Typed
    <3>2. conn[c].queue \in Int /\ conn[c].queue >= 0
      BY <3>1 DEF IInv, Queued, ConnType
    <3> QED
      BY <3>1, <3>2
  <2> QED
    BY <2>1 DEF IInv, Typed, TypeOK, ConnType, Frames
<1> QED
  BY <1>1, Invariance, PTL

\* A living connection whose id the application was given is found by WSPush
\* and WSClose, for any number of connections, plain and secure, and of threads.
THEOREM OpenStaysRegistered == Spec => []OpenIsRegistered
<1>1. IInv => OpenIsRegistered
  BY DEF IInv
<1> QED
  BY <1>1, Invariance, PTL

\* When ws_forward has erased an id, or not found it, no later step revives it.
THEOREM RefusalIsFinal == Spec => []RefusedIsGone
<1>1. IInv => RefusedIsGone
  BY DEF IInv
<1> QED
  BY <1>1, Invariance, PTL

\* However a connection ends, ws_onclose is called once for its ws_onopen, and
\* when it is destroyed and stop() has returned its socket is closed.
THEOREM GoneAlwaysAnnounced == Spec => []GoneIsAnnounced
<1>1. IInv => GoneIsAnnounced
  <2> SUFFICES ASSUME IInv, NEW c \in Conns
               PROVE  /\ conn[c].onclose <= 1
                      /\ conn[c].onclose = 1 => conn[c].opened
                      /\ conn[c].opened /\ Gone(c) =>
                           conn[c].onclose = 1 /\ conn[c].sock = "closed"
    BY DEF GoneIsAnnounced
  <2>1. Closes(c) /\ conn[c] \in ConnType
    BY DEF IInv, Typed
  <2>2. Gone(c) => /\ ~OnStack(Frame("stop", c, "exchange"))
                   /\ ~OnStack(Frame("stop", c, "ws_onclose"))
    BY DEF Gone, OnStack, Frame
  <2>3. conn[c].onclose <= 1 /\ (conn[c].onclose = 1 <=> conn[c].closed)
    BY <2>1 DEF Closes, ConnType
  <2>4. conn[c].opened /\ Gone(c) => conn[c].closed
    BY <2>1, <2>2 DEF Closes, Gone
  <2>5. conn[c].closed /\ Gone(c) => conn[c].sock = "closed"
    BY <2>1, <2>2 DEF Closes, ConnType
  <2> QED
    BY <2>1, <2>3, <2>4, <2>5 DEF Closes
<1> QED
  BY <1>1, Invariance, PTL

\* An application that pushes and closes from ws_onopen and ws_onerror only, or
\* not from callbacks at all, never deadlocks the server: whether or not ptl's
\* mutex is recursive, and whichever callbacks throw.
THEOREM NoDeadlockOutsideLocks ==
  ASSUME Calling \subseteq {"ws_onopen", "ws_onerror"}
  PROVE  Spec => []NoDeadlock
<1> DEFINE Last == \A t \in Threads : CallsLast(stack[t])
<1>1. Init => Last
  BY InitInv
<1>2. IInv /\ Last /\ [Next]_vars => Last'
  <2> SUFFICES ASSUME IInv, Last, [Next]_vars PROVE Last'
    OBVIOUS
  <2>1. \A t \in Threads : CallsLast(stack'[t])
    BY CallsLastStep DEF IInv
  <2> QED
    BY <2>1 DEF CallsLast
<1>3. IInv /\ Last => NoDeadlock
  BY LockOrder DEF IInv
<1> HIDE DEF Last
<1> QED
  BY <1>1, <1>2, <1>3, Invariance, PTL DEF Spec
=============================================================================
