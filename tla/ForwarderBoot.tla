--------------------------- MODULE ForwarderBoot ----------------------------
(***************************************************************************)
(* How network/forwarder's main takes over the path of its Unix socket: a  *)
(* file left by an earlier instance is removed, a missing directory made,  *)
(* the socket bound and opened to everyone.  Each step is a system call    *)
(* that other instances and crashes may come between; any error ends main. *)
(***************************************************************************)
CONSTANT Instances  \* starts of the program

NoSock == "none"

ASSUME BootAssumption == NoSock \notin Instances

VARIABLES pc,    \* each instance's next step
          sock,  \* what the path names: nothing or an instance's socket
          mode,  \* its permissions
          dir,   \* the directory exists
          met    \* history: an instance has started while another was alive

vars == <<pc, sock, mode, dir, met>>

Alive(i) == pc[i] \notin {"idle", "nolog", "error", "killed"}

Goto(i, step) == pc' = [pc EXCEPT ![i] = step]

\* logging::init and the parsing of options are done before "exists".
Start(i) ==
    /\ pc[i] = "idle"
    /\ Goto(i, "exists")
    /\ met' = (met \/ \E j \in Instances : Alive(j))
    /\ UNCHANGED <<sock, mode, dir>>

StartFail(i) ==
    /\ pc[i] = "idle"
    /\ Goto(i, "nolog")
    /\ UNCHANGED <<sock, mode, dir, met>>

\* Fault: a file that is there is not removed.
ExistsKeeps(i) ==
    /\ pc[i] = "exists"
    /\ Goto(i, "mkdir")
    /\ UNCHANGED <<sock, mode, dir, met>>

Exists(i) ==
    /\ pc[i] = "exists"
    /\ Goto(i, IF sock # NoSock THEN "remove" ELSE "mkdir")
    /\ UNCHANGED <<sock, mode, dir, met>>

\* fs::remove_file(SOCK)? fails when the file has gone meanwhile
Remove(i) ==
    /\ pc[i] = "remove"
    /\ Goto(i, IF sock # NoSock THEN "bind" ELSE "error")
    /\ sock' = NoSock
    /\ UNCHANGED <<mode, dir, met>>

Mkdir(i) ==
    /\ pc[i] = "mkdir"
    /\ Goto(i, "bind")
    /\ dir' = TRUE
    /\ UNCHANGED <<sock, mode, met>>

\* UnixListener::bind(SOCK)? fails when a file is there
Bind(i) ==
    /\ pc[i] = "bind"
    /\ \/ /\ sock = NoSock /\ dir
          /\ sock' = i
          /\ mode' = "private"
          /\ Goto(i, "metadata")
       \/ /\ sock # NoSock \/ ~dir
          /\ Goto(i, "error")
          /\ UNCHANGED <<sock, mode>>
    /\ UNCHANGED <<dir, met>>

\* Fault: the permissions are left as bind made them.
ChmodSkipped(i) ==
    /\ pc[i] = "chmod"
    /\ Goto(i, "serve")
    /\ UNCHANGED <<sock, mode, dir, met>>

\* fs::metadata(SOCK)? and fs::set_permissions(SOCK, perms)?, on whatever
\* the path names by then
Metadata(i) ==
    /\ pc[i] = "metadata"
    /\ Goto(i, IF sock # NoSock THEN "chmod" ELSE "error")
    /\ UNCHANGED <<sock, mode, dir, met>>

Chmod(i) ==
    /\ pc[i] = "chmod"
    /\ Goto(i, IF sock # NoSock THEN "serve" ELSE "error")
    /\ mode' = IF sock # NoSock THEN "public" ELSE mode
    /\ UNCHANGED <<sock, dir, met>>

\* The socket's file outlives the process.
Crash(i) ==
    /\ Alive(i)
    /\ Goto(i, "killed")
    /\ UNCHANGED <<sock, mode, dir, met>>

Init ==
    /\ pc = [i \in Instances |-> "idle"]
    /\ sock = NoSock
    /\ mode = "private"
    /\ dir \in BOOLEAN
    /\ met = FALSE

Boot(i) == Exists(i) \/ Remove(i) \/ Mkdir(i) \/ Bind(i) \/ Metadata(i) \/ Chmod(i)

Next == \E i \in Instances : Start(i) \/ StartFail(i) \/ Boot(i) \/ Crash(i)

Spec == Init /\ [][Next]_vars

-----------------------------------------------------------------------------
Steps == {"exists", "remove", "mkdir", "bind", "metadata", "chmod", "serve"}

\* Every variable keeps its type.
TypeOK ==
    /\ pc \in [Instances -> Steps \cup {"idle", "nolog", "error", "killed"}]
    /\ sock \in Instances \cup {NoSock}
    /\ mode \in {"private", "public"}
    /\ dir \in BOOLEAN
    /\ met \in BOOLEAN

\* Why Reachable holds: instances that do not overlap find at each step of the
\* take-over what the step before left.
BootInv ==
    /\ sock # NoSock => dir
    /\ ~met => \A i \in Instances :
          /\ Alive(i) => \A j \in Instances \ {i} : ~Alive(j)
          /\ pc[i] \in {"metadata", "chmod", "serve"} => sock = i
          /\ pc[i] = "remove" => sock # NoSock
          /\ pc[i] \in {"mkdir", "bind"} => sock = NoSock
          /\ pc[i] = "bind" => dir
          /\ pc[i] = "serve" => mode = "public"

\* As long as instances do not overlap, one that serves is reachable, however its
\* predecessors died: the path names its socket, open to all.
Reachable ==
    ~met => \A i \in Instances : pc[i] = "serve" => sock = i /\ mode = "public"

\* A restart succeeds: as long as instances do not overlap no step of the
\* take-over fails, whatever a crash left.
RestartSucceeds ==
    [][~met => \A i \in Instances : Alive(i) => pc'[i] # "error"]_vars

\* When instances race and none is killed, one of those that started is left
\* that serves and that the path leads to.
RaceLeavesOne ==
    ((\A i \in Instances : pc[i] \in {"idle", "nolog", "error", "serve"})
        /\ (\E i \in Instances : pc[i] \in {"error", "serve"}))
      => \E i \in Instances : pc[i] = "serve" /\ sock = i /\ mode = "public"
=============================================================================
