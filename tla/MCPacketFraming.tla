---------------------------- MODULE MCPacketFraming ----------------------------
(* PacketFraming with three sends on one session: bodies of one and two      *)
(* bytes, and one that is too large.                                         *)
EXTENDS PacketFraming

CONSTANTS a, b, c

Lengths == [k \in Senders |-> IF k = a THEN 2 ELSE IF k = b THEN 1 ELSE 3]
================================================================================
