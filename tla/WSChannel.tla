----------------------------- MODULE WSChannel -----------------------------
(***************************************************************************)
(* What a push-only WebSocket connection promises its application, with    *)
(* no queue, mutex, socket operation or thread in sight: messages are      *)
(* accepted in some order and put on the wire in that order.  While the    *)
(* channel is open nothing is skipped; once it is closing a message may be *)
(* dropped, but what still reaches the wire stays in order and is never    *)
(* repeated; a released channel neither accepts nor transmits.             *)
(*                                                                         *)
(* WSConnection implements this module (WSConnection!Channel).             *)
(***************************************************************************)
EXTENDS Naturals, Sequences

VARIABLES
  accepted,   \* number of messages accepted so far; the k-th is the number k
  wire,       \* the messages handed to the network, oldest first
  phase       \* "open", "closing" or "released"

cvars == <<accepted, wire, phase>>

Phases == {"open", "closing", "released"}

TypeOK ==
  /\ accepted \in Nat
  /\ wire \in Seq(Nat)
  /\ phase \in Phases

Init ==
  /\ accepted = 0
  /\ wire = <<>>
  /\ phase = "open"

\* The last message on the wire, 0 when there is none.
LastSent == IF wire = <<>> THEN 0 ELSE wire[Len(wire)]

Accept ==
  /\ phase # "released"
  /\ accepted' = accepted + 1
  /\ UNCHANGED <<wire, phase>>

\* An open channel transmits the next message and no other.
Transmit ==
  /\ phase = "open"
  /\ LastSent < accepted
  /\ wire' = Append(wire, LastSent + 1)
  /\ UNCHANGED <<accepted, phase>>

\* A closing channel may have dropped any number of messages first.
TransmitLate ==
  /\ phase = "closing"
  /\ \E m \in (LastSent + 1) .. accepted : wire' = Append(wire, m)
  /\ UNCHANGED <<accepted, phase>>

Close ==
  /\ phase = "open"
  /\ phase' = "closing"
  /\ UNCHANGED <<accepted, wire>>

Release ==
  /\ phase # "released"
  /\ phase' = "released"
  /\ UNCHANGED <<accepted, wire>>

Next == Accept \/ Transmit \/ TransmitLate \/ Close \/ Release

Spec == Init /\ [][Next]_cvars
=============================================================================
