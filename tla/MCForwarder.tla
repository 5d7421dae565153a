---------------------------- MODULE MCForwarder -----------------------------
(***************************************************************************)
(* Two connections to the Unix socket.  The lengths straddle the points    *)
(* where the buffer grows: it holds 4096, 8192, 16384 and then 32768 bytes.*)
(***************************************************************************)
EXTENDS Forwarder

CONSTANTS c1, c2

MCUnix  == [c \in Conns |-> "unix"]

\* c1 sends 16384 bytes in pieces; c2 sends 4097
MCSteps == [c \in Conns |-> IF c = c1 THEN {100, 4096, 8192, 8292, 12288, 16384}
                            ELSE {4095, 4097}]
MCTotal == [c \in Conns |-> IF c = c1 THEN 16384 ELSE 4097]

\* c2's request is complete without its last two bytes
MCGood  == [c \in Conns |-> IF c = c1 THEN {16384} ELSE {4095, 4097}]
=============================================================================
