------------------------------ MODULE WSFrame ------------------------------
(***************************************************************************)
(* WS::fill_text_frame (ws/ws_proto_impl.cpp): the bytes in front of a     *)
(* message, and its payload as n bytes of content.                         *)
(***************************************************************************)
EXTENDS Naturals, Sequences

one_fragment_text == 129

Byte(b) == [text |-> "byte", n |-> b]
Payload(n) == IF n = 0 THEN <<>> ELSE <<[text |-> "content", n |-> n]>>

BigEndian(length, num_bytes) ==
  LET Shifted[c \in 0 .. num_bytes] == IF c = 0 THEN length ELSE Shifted[c - 1] \div 256
  IN  [i \in 1 .. num_bytes |-> Byte(Shifted[num_bytes - i] % 256)]

\* Mutant: 65535 is taken for one too many.
LengthBytes_Early(length) ==
  IF length < 126 THEN <<Byte(length)>>
  ELSE IF length < 65535 THEN <<Byte(126)>> \o BigEndian(length, 2)
  ELSE <<Byte(127)>> \o BigEndian(length, 8)

LengthBytes(length) ==
  IF length < 126 THEN <<Byte(length)>>
  ELSE IF length <= 65535 THEN <<Byte(126)>> \o BigEndian(length, 2)
  ELSE <<Byte(127)>> \o BigEndian(length, 8)

fill_text_frame(length, opcode) ==
  <<Byte(opcode)>> \o LengthBytes(length) \o Payload(length)
=============================================================================
