------------------------------- MODULE RunCmd -------------------------------
(***************************************************************************)
(* run_cmd of network/forwarder: run a shell command with an optional      *)
(* input and collect its output through pipes.                             *)
(*                                                                         *)
(* Without input the command's stdin is closed at once and stdout and      *)
(* stderr are read; with input all of it is written before anything is     *)
(* read, and stderr is not captured.  Data is counted in units; a pipe     *)
(* holds PipeCap of them.  The command is external: a sequence of the      *)
(* operations "in", "out" and "err" on its standard streams and "fork",    *)
(* which leaves a process behind that holds stdout and stderr open, writes *)
(* once and exits.                                                         *)
(***************************************************************************)
EXTENDS Integers, Sequences

CONSTANTS PipeCap,   \* capacity of a pipe
          Inputs,    \* lengths of the input that may be given
          Scripts    \* what the command may do

\* input: Option<&str>
None    == [some |-> FALSE, len |-> 0]
Some(n) == [some |-> TRUE, len |-> n]
Options == {None} \cup {Some(n) : n \in Inputs}

ASSUME PipeAssumption == PipeCap \in Nat \ {0} /\ Inputs \subseteq Nat
ASSUME ScriptAssumption == Scripts \subseteq Seq({"in", "out", "err", "fork"})

VARIABLES parent,   \* where run_cmd is
          input,    \* the input option
          left,     \* units of input still to be written
          stdin,    \* "open" while run_cmd holds the pipe to the command
          inPipe, outPipe, errPipe,  \* units in each pipe
          script,   \* what the command has still to do
          child,    \* the command: not started, running, exited
          bg,       \* the background process
          sent,     \* units written to stdout and to a captured stderr
          got       \* units of them that run_cmd has read

pipes == <<inPipe, outPipe, errPipe>>
proc  == <<script, child, bg>>
cmdVars == <<parent, input, left, stdin, pipes, proc, sent, got>>

\* Fault: stderr is piped also when there is input.
CapturedAlways == TRUE

Captured == input = None   \* output() also pipes stderr
Returned == parent \in {"ok", "err"}

-----------------------------------------------------------------------------
(***************************************************************************)
(* run_cmd                                                                 *)
(***************************************************************************)
\* Fault: stdin stays open while the command is awaited.
ChildWaitOpen ==
    /\ parent' = "wait"
    /\ UNCHANGED stdin

\* Child::wait drops stdin before it waits.
ChildWait ==
    /\ parent' = "wait"
    /\ stdin' = "closed"

\* spawn, directly or in output()
Spawn ==
    /\ parent = "spawn"
    /\ child' = "run"
    /\ \/ /\ input = None
          /\ ChildWait
       \/ /\ input # None
          /\ parent' = "write"
          /\ UNCHANGED stdin
    /\ UNCHANGED <<input, left, pipes, script, bg, sent, got>>

SpawnFail ==
    /\ parent = "spawn"
    /\ parent' = "err"
    /\ UNCHANGED <<input, left, stdin, pipes, proc, sent, got>>

\* stdin.write_all(input): one write, EPIPE once the command has exited, the end
WriteUnit ==
    /\ parent = "write" /\ left > 0 /\ child = "run" /\ inPipe < PipeCap
    /\ inPipe' = inPipe + 1
    /\ left' = left - 1
    /\ UNCHANGED <<parent, input, stdin, outPipe, errPipe, proc, sent, got>>

WriteFails ==
    /\ parent = "write" /\ left > 0 /\ child = "exited"
    /\ parent' = "err"
    /\ stdin' = "closed"
    /\ UNCHANGED <<input, left, pipes, proc, sent, got>>

WriteDone ==
    /\ parent = "write" /\ left = 0
    /\ ChildWait
    /\ UNCHANGED <<input, left, pipes, proc, sent, got>>

\* wait_with_output reads both pipes concurrently
ReadUnit ==
    /\ parent = "wait"
    /\ \/ /\ outPipe > 0
          /\ outPipe' = outPipe - 1
          /\ UNCHANGED errPipe
       \/ /\ errPipe > 0
          /\ errPipe' = errPipe - 1
          /\ UNCHANGED outPipe
    /\ got' = got + 1
    /\ UNCHANGED <<parent, input, left, stdin, inPipe, proc, sent>>

\* Fault: the command's exit is taken for the end of its output.
EofOnExit == child = "exited"

\* End of file on stdout and stderr: all their writers are gone and they are empty.
Eof == child = "exited" /\ bg # "run" /\ outPipe = 0 /\ errPipe = 0

\* the exit status and the end of both streams
Return ==
    /\ parent = "wait" /\ child = "exited" /\ Eof
    /\ parent' = "ok"
    /\ UNCHANGED <<input, left, stdin, pipes, proc, sent, got>>

-----------------------------------------------------------------------------
(***************************************************************************)
(* The command and the process it may leave behind                         *)
(***************************************************************************)
Does(op) == child = "run" /\ script # <<>> /\ Head(script) = op

\* read from stdin: a unit, or the end of file
ChildIn ==
    /\ Does("in")
    /\ inPipe > 0 \/ stdin = "closed"
    /\ inPipe' = IF inPipe > 0 THEN inPipe - 1 ELSE 0
    /\ script' = Tail(script)
    /\ UNCHANGED <<parent, input, left, stdin, outPipe, errPipe, child, bg, sent, got>>

\* Writing to a pipe that run_cmd no longer holds kills the command.
ChildOut ==
    /\ Does("out")
    /\ \/ /\ ~Returned /\ outPipe < PipeCap
          /\ outPipe' = outPipe + 1
          /\ sent' = sent + 1
          /\ script' = Tail(script)
       \/ /\ Returned
          /\ script' = <<>>
          /\ UNCHANGED <<outPipe, sent>>
    /\ UNCHANGED <<parent, input, left, stdin, inPipe, errPipe, child, bg, got>>

\* stderr is the daemon's own unless it is captured
ChildErr ==
    /\ Does("err")
    /\ \/ /\ ~Captured
          /\ UNCHANGED <<errPipe, sent>>
       \/ /\ Captured /\ errPipe < PipeCap
          /\ errPipe' = errPipe + 1
          /\ sent' = sent + 1
    /\ script' = Tail(script)
    /\ UNCHANGED <<parent, input, left, stdin, inPipe, outPipe, child, bg, got>>

ChildFork ==
    /\ Does("fork")
    /\ bg' = "run"
    /\ script' = Tail(script)
    /\ UNCHANGED <<parent, input, left, stdin, pipes, child, sent, got>>

ChildExit ==
    /\ child = "run" /\ script = <<>>
    /\ child' = "exited"
    /\ UNCHANGED <<parent, input, left, stdin, pipes, script, bg, sent, got>>

BgOut ==
    /\ bg = "run"
    /\ \/ /\ ~Returned /\ outPipe < PipeCap
          /\ outPipe' = outPipe + 1
          /\ sent' = sent + 1
       \/ /\ Returned
          /\ UNCHANGED <<outPipe, sent>>
    /\ bg' = "exited"
    /\ UNCHANGED <<parent, input, left, stdin, inPipe, errPipe, script, child, got>>

-----------------------------------------------------------------------------
\* Nobody can take a step: run_cmd has returned or waits for a pipe, the command
\* has exited or waits for one, and so has what it left behind.
Stuck ==
    /\ parent # "spawn"
    /\ parent = "write" => left > 0 /\ child = "run" /\ inPipe = PipeCap
    /\ parent = "wait" => outPipe = 0 /\ errPipe = 0 /\ ~Eof
    /\ child = "run" => script # <<>> /\ ~Does("fork")
    /\ Does("in") => inPipe = 0 /\ stdin = "open"
    /\ Does("out") => ~Returned /\ outPipe = PipeCap
    /\ Does("err") => Captured /\ errPipe = PipeCap
    /\ bg = "run" => ~Returned /\ outPipe = PipeCap

\* The system may stop where it is stuck, and nowhere else: any other state
\* without a successor is a deadlock.
Stopped == Stuck /\ UNCHANGED cmdVars

CmdInit ==
    /\ parent = "spawn"
    /\ input \in Options
    /\ left = input.len
    /\ stdin = "open"
    /\ inPipe = 0 /\ outPipe = 0 /\ errPipe = 0
    /\ script \in Scripts
    /\ child = "none"
    /\ bg = "none"
    /\ sent = 0
    /\ got = 0

Parent == Spawn \/ WriteUnit \/ WriteFails \/ WriteDone \/ ReadUnit \/ Return
Child  == ChildIn \/ ChildOut \/ ChildErr \/ ChildFork \/ ChildExit

CmdNext == Parent \/ SpawnFail \/ Child \/ BgOut \/ Stopped

CmdSpec == CmdInit /\ [][CmdNext]_cmdVars

\* run_cmd's task is scheduled; the command and what it forks make progress.
CmdFairness == WF_cmdVars(Parent) /\ WF_cmdVars(Child) /\ WF_cmdVars(BgOut)

FairCmdSpec == CmdSpec /\ CmdFairness

-----------------------------------------------------------------------------
(***************************************************************************)
(* Properties                                                              *)
(***************************************************************************)
\* Every variable keeps its type and no pipe overflows.
CmdTypeOK ==
    /\ parent \in {"spawn", "write", "wait", "ok", "err"}
    /\ input \in Options
    /\ left \in Nat
    /\ stdin \in {"open", "closed"}
    /\ inPipe \in 0 .. PipeCap /\ outPipe \in 0 .. PipeCap /\ errPipe \in 0 .. PipeCap
    /\ script \in Seq({"in", "out", "err", "fork"})
    /\ child \in {"none", "run", "exited"}
    /\ bg \in {"none", "run", "exited"}
    /\ sent \in Nat
    /\ got \in Nat

\* Everything written to a captured stream is read or still in its pipe.
Accounted == sent = got + outPipe + errPipe

\* Ok(output) is complete: it holds all that the command, and the processes it
\* left behind, wrote to the captured streams before and after its exit.
Complete == parent = "ok" => got = sent

\* Input that does not exceed a pipe cannot block write_all, nor can the lack of
\* input: run_cmd then returns, whatever the command reads, writes or leaves
\* running.
Returns ==
    input.len <= PipeCap => <>Returned

\* run_cmd writes all input before it reads any output.  The one way for it to
\* hang: both pipes are full, the command wants to write and does not read.
HangsOnlyWhenFull ==
    Stuck => \/ Returned
             \/ /\ parent = "write" /\ inPipe = PipeCap
                /\ outPipe = PipeCap /\ Does("out")
=============================================================================
