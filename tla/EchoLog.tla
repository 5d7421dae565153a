------------------------------ MODULE EchoLog ------------------------------
(***************************************************************************)
(* network/echoserver: the bounded channel over which every echo is        *)
(* reported and the task that prints the reports.  What is printed is left *)
(* out; the channel is its number of messages.                             *)
(***************************************************************************)
EXTENDS Naturals

CONSTANT LogCap  \* the capacity of the channel

ASSUME LogAssumption == LogCap \in Nat \ {0}

VARIABLES
    chan,    \* messages in the channel
    logger,  \* the logging task
    lag      \* history: echoes that have not been printed

logVars == <<chan, logger, lag>>

LogInit == chan = 0 /\ logger = "recv" /\ lag = 0

\* stx.send waits for room ...
LogSend ==
    /\ logger # "dead" /\ chan < LogCap
    /\ chan' = chan + 1
    /\ UNCHANGED <<logger, lag>>

\* ... and its error is unwrapped, once the receiver is gone
LogSendFails == logger = "dead" /\ UNCHANGED logVars

LogRecv ==
    /\ logger = "recv" /\ chan > 0
    /\ chan' = chan - 1 /\ logger' = "print"
    /\ UNCHANGED lag

LogPrint ==
    /\ logger = "print"
    /\ logger' = "recv" /\ lag' = lag - 1
    /\ UNCHANGED chan

\* println panics when stdout fails; the channel closes
LogPanic ==
    /\ logger = "print"
    /\ logger' = "dead" /\ chan' = 0
    /\ UNCHANGED lag
=============================================================================
