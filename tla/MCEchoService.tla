---------------------------- MODULE MCEchoService ----------------------------
(***************************************************************************)
(* UDP: a datagram shorter and one longer than the buffer.                 *)
(* TCP: echoserver's own client with a line the pipes just hold, and one   *)
(* that sends more than they hold.                                         *)
(***************************************************************************)
EXTENDS EchoService

CONSTANTS d1, d2, own, other

MCSize(d) == IF d = d1 THEN 3 ELSE 1
MCFrom(d) == IF d = d1 THEN "a" ELSE "b"
MCLine(c) == IF c = own THEN 4 ELSE 5
=============================================================================
