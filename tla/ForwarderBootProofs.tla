------------------------- MODULE ForwarderBootProofs -------------------------
(***************************************************************************)
(* For any number of instances of forwarder's main, killed at any step:    *)
(* as long as they do not overlap, each take-over of the socket's path     *)
(* succeeds and leaves a socket everyone can reach; when they race, one of *)
(* them wins.                                                              *)
(***************************************************************************)
EXTENDS ForwarderBoot, TLAPS

\* The type invariant and BootInv together are inductive.
IInv == TypeOK /\ BootInv

\* Before the first instance starts there is no socket and nobody is alive.
LEMMA InitIInv == Init => IInv
  BY BootAssumption DEF Init, IInv, TypeOK, BootInv, Alive, Steps

\* Every system call of the take-over, every start and every crash keeps IInv.
LEMMA NextIInv == IInv /\ [Next]_vars => IInv'
<1> SUFFICES ASSUME IInv, [Next]_vars PROVE IInv'
  OBVIOUS
<1> USE BootAssumption DEF IInv, TypeOK, BootInv, Alive, Steps, Goto
<1>1. ASSUME NEW i \in Instances, Start(i) PROVE IInv'
  BY <1>1 DEF Start
<1>2. ASSUME NEW i \in Instances, StartFail(i) PROVE IInv'
  BY <1>2 DEF StartFail
<1>3. ASSUME NEW i \in Instances, Exists(i) PROVE IInv'
  BY <1>3 DEF Exists
<1>4. ASSUME NEW i \in Instances, Remove(i) PROVE IInv'
  BY <1>4 DEF Remove
<1>5. ASSUME NEW i \in Instances, Mkdir(i) PROVE IInv'
  BY <1>5 DEF Mkdir
<1>6. ASSUME NEW i \in Instances, Bind(i) PROVE IInv'
  BY <1>6 DEF Bind
<1>7. ASSUME NEW i \in Instances, Metadata(i) PROVE IInv'
  BY <1>7 DEF Metadata
<1>8. ASSUME NEW i \in Instances, Chmod(i) PROVE IInv'
  BY <1>8 DEF Chmod
<1>9. ASSUME NEW i \in Instances, Crash(i) PROVE IInv'
  BY <1>9 DEF Crash
<1>10. CASE UNCHANGED vars
  BY <1>10 DEF vars
<1> QED
  BY <1>1, <1>2, <1>3, <1>4, <1>5, <1>6, <1>7, <1>8, <1>9, <1>10 DEF Next, Boot

\* Without overlap each step of the take-over finds what the step before left,
\* for any number of instances and any crashes.
THEOREM BootInvariant == Spec => [](TypeOK /\ BootInv)
  BY InitIInv, NextIInv, PTL DEF Spec, IInv

\* Without overlap an instance that serves is reachable: the path names its
\* socket, open to all.
THEOREM ServesReachable == Spec => []Reachable
<1>1. IInv => Reachable
  BY DEF IInv, BootInv, Reachable
<1> QED
  BY <1>1, InitIInv, NextIInv, PTL DEF Spec

\* Without overlap no step of the take-over fails after any crash.
THEOREM TakeOverSucceeds == Spec => RestartSucceeds
<1>1. IInv /\ [Next]_vars
        => [~met => \A i \in Instances : Alive(i) => pc'[i] # "error"]_vars
  <2> SUFFICES ASSUME IInv, Next, ~met, NEW i \in Instances, Alive(i)
               PROVE  pc'[i] # "error"
    OBVIOUS
  <2> USE BootAssumption DEF IInv, TypeOK, BootInv, Alive, Steps, Goto
  <2>1. ASSUME NEW j \in Instances, Start(j) \/ StartFail(j) \/ Crash(j)
        PROVE  pc'[i] # "error"
    BY <2>1 DEF Start, StartFail, Crash
  <2>2. ASSUME NEW j \in Instances, Boot(j) PROVE pc'[i] # "error"
    BY <2>2 DEF Boot, Exists, Remove, Mkdir, Bind, Metadata, Chmod
  <2> QED
    BY <2>1, <2>2 DEF Next
<1> QED
  BY <1>1, InitIInv, NextIInv, PTL DEF Spec, RestartSucceeds

-----------------------------------------------------------------------------
(***************************************************************************)
(* Instances that race                                                     *)
(***************************************************************************)
Started(i) == pc[i] \notin {"idle", "nolog"}

\* Why RaceLeavesOne holds: as long as nobody is killed, the instance whose
\* socket the path names is past its bind and cannot fail any more; and while
\* the path names nothing, somebody who can still bind is on the way there.
RaceInv ==
    /\ sock # NoSock => dir
    /\ \A i \in Instances : pc[i] = "bind" => dir
    /\ (\A i \in Instances : pc[i] # "killed") =>
          /\ \A i \in Instances : sock = i =>
                /\ pc[i] \in {"metadata", "chmod", "serve"}
                /\ pc[i] = "serve" => mode = "public"
          /\ sock = NoSock /\ (\E i \in Instances : Started(i)) =>
                \E i \in Instances : pc[i] \in {"exists", "mkdir", "bind"}

\* Every system call of any of the racing instances keeps RaceInv.
LEMMA NextRace == TypeOK /\ RaceInv /\ [Next]_vars => RaceInv'
<1> SUFFICES ASSUME TypeOK, RaceInv, [Next]_vars PROVE RaceInv'
  OBVIOUS
<1> USE BootAssumption DEF TypeOK, RaceInv, Alive, Steps, Goto, Started
<1>1. ASSUME NEW i \in Instances, Start(i) PROVE RaceInv'
  BY <1>1 DEF Start
<1>2. ASSUME NEW i \in Instances, StartFail(i) PROVE RaceInv'
  BY <1>2 DEF StartFail
<1>3. ASSUME NEW i \in Instances, Exists(i) PROVE RaceInv'
  BY <1>3 DEF Exists
<1>4. ASSUME NEW i \in Instances, Remove(i) PROVE RaceInv'
  BY <1>4 DEF Remove
<1>5. ASSUME NEW i \in Instances, Mkdir(i) PROVE RaceInv'
  BY <1>5 DEF Mkdir
<1>6. ASSUME NEW i \in Instances, Bind(i) PROVE RaceInv'
  BY <1>6 DEF Bind
<1>7. ASSUME NEW i \in Instances, Metadata(i) PROVE RaceInv'
  BY <1>7 DEF Metadata
<1>8. ASSUME NEW i \in Instances, Chmod(i) PROVE RaceInv'
  BY <1>8 DEF Chmod
<1>9. ASSUME NEW i \in Instances, Crash(i) PROVE RaceInv'
  BY <1>9 DEF Crash
<1>10. CASE UNCHANGED vars
  BY <1>10 DEF vars
<1> QED
  BY <1>1, <1>2, <1>3, <1>4, <1>5, <1>6, <1>7, <1>8, <1>9, <1>10 DEF Next, Boot

\* However many instances race for the path and however their system calls
\* interleave, if none is killed one of those that started is left that serves
\* and that the path leads to.
THEOREM RaceHasWinner == Spec => []RaceLeavesOne
<1>1. Init => RaceInv
  BY BootAssumption DEF Init, RaceInv, Started
<1>2. TypeOK /\ RaceInv => RaceLeavesOne
  BY DEF TypeOK, RaceInv, RaceLeavesOne, Started
<1> QED
  BY <1>1, <1>2, NextRace, BootInvariant, PTL DEF Spec
=============================================================================
