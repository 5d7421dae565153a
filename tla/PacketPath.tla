----------------------------- MODULE PacketPath -----------------------------
(***************************************************************************)
(* The tools of ebpf/ that sit on the path of packets, run one after the   *)
(* other or at once on the same interfaces: portmirror and erspan share    *)
(* the tc hooks, and replace and remove each other's programs; xdpdump     *)
(* holds the XDP hook in front of them.                                    *)
(*                                                                         *)
(* Packets pass between any two system calls.  The programs keep nothing   *)
(* between packets, so a packet is no action: what would become of it is a *)
(* function of the state (Verdicts, Reports), and the properties are about *)
(* every packet in every state.                                            *)
(***************************************************************************)
EXTENDS PortMirror, Erspan, XdpDump, FiniteSets

CONSTANTS
    Taps,      \* the interfaces commands are given
    Mirrors,   \* the interfaces portmirror is given as --mirror
    Commands,  \* the command lines of portmirror and erspan
    Dumps,     \* the command lines of xdpdump, one process each
    Packets,   \* the packets that pass the taps
    MaxRuns    \* bound: how many of Commands are run

ASSUME CommandAssumption ==
    /\ \A o \in Commands : /\ o.tool \in {"portmirror", "erspan"}
                           /\ o.src \in Seq(Taps)
                           /\ {o.attach, o.detach} \subseteq BOOLEAN
                           /\ o.tool = "portmirror" => MirrorOptions(o) /\ o.mirror \in Mirrors
                           /\ o.tool = "erspan" => o.destroy \in BOOLEAN
    /\ \A p \in Dumps : p.ifindex \in Taps /\ (p.arp = <<>> \/ p.arp = <<p.arp[1]>>)

ASSUME PacketAssumption == \A k \in Packets : k.type \in {"ip4", "ip6"} => IpPacket(k)

VARIABLES
    runs,     \* commands started
    opt,      \* main: its command line
    todo,     \* main: taps still to come
    tap,      \* main: the tap of this turn
    ops,      \* main: system calls of this turn still to come
    skel,     \* main: the program it has loaded, with its maps
    hooks,    \* the kernel: programs attached to each tap, by slot
    clsact,   \* the kernel: the taps that have a clsact qdisc
    dump,     \* xdpdump: where each process is
    xdp,      \* the kernel: the filterlist of the program on each XDP hook
    by,       \* history: commands whose programs may still be attached
    failed,   \* history: a call of this turn has failed
    settled   \* history: taps whose last command went through

tcVars  == <<runs, opt, todo, tap, ops, skel, hooks, clsact, by, failed, settled>>
xdpVars == <<dump, xdp>>
vars    == <<tcVars, xdpVars>>

Loaded(o) == IF o.tool = "erspan" THEN ErspanLoaded ELSE MirrorLoaded(o)
Script(o) == IF o.tool = "erspan" THEN ErspanScript(o) ELSE MirrorScript(o)

-----------------------------------------------------------------------------
Init ==
    /\ runs = 0 /\ todo = <<>> /\ ops = <<>>
    /\ opt = CHOOSE o \in Commands : TRUE
    /\ tap = CHOOSE t \in Taps : TRUE
    /\ skel = Loaded(opt)
    /\ hooks = [t \in Taps |-> [s \in {} |-> skel]]
    /\ clsact = {}
    /\ dump = [p \in Dumps |-> "off"]
    /\ xdp = [t \in Taps |-> <<>>]
    /\ by = [t \in Taps |-> {}] /\ failed = FALSE /\ settled = {}

Idle == todo = <<>> /\ ops = <<>>

\* The operator runs a command
Main(o) ==
    /\ Idle /\ runs < MaxRuns
    /\ runs' = runs + 1
    /\ opt' = o /\ todo' = o.src
    /\ UNCHANGED <<tap, ops, skel, hooks, clsact, by, failed, settled, xdpVars>>

\* The next tap, of erspan the only one: a program of its own, its filter stored
Load ==
    /\ ops = <<>> /\ todo # <<>>
    /\ tap' = Head(todo) /\ todo' = Tail(todo)
    /\ skel' = Loaded(opt)
    /\ ops' = Script(opt)
    /\ failed' = FALSE
    /\ by' = IF opt.attach THEN [by EXCEPT ![tap'] = @ \cup {opt}] ELSE by
    /\ settled' = IF ops' = <<>> THEN settled ELSE settled \ {tap'}
    /\ UNCHANGED <<runs, opt, hooks, clsact, xdpVars>>

Calling(name) == ops # <<>> /\ Head(ops)[1] = name

\* The bookkeeping of every call: on to the next, and whether the tap's turn
\* has ended without a failure
Advance(bad) ==
    /\ ops' = Tail(ops)
    /\ failed' = (failed \/ bad)
    /\ settled' = IF Len(ops) = 1 /\ ~failed' THEN settled \cup {tap} ELSE settled
    /\ UNCHANGED <<runs, opt, todo, tap, xdpVars>>

\* An error is printed and otherwise ignored, also the one for an empty slot
Detach(slot) ==
    /\ Calling("detach") /\ Head(ops)[2] = slot
    /\ \/ /\ hooks' = [hooks EXCEPT ![tap] = [s \in DOMAIN @ \ {slot} |-> @[s]]]
          /\ Advance(FALSE)
          /\ by' = IF (Len(ops) = 1 \/ ops[2][1] # "detach") /\ ~failed
                   THEN [by EXCEPT ![tap] = IF opt.attach THEN {opt} ELSE {}]
                   ELSE by
       \/ Advance(TRUE) /\ UNCHANGED <<hooks, by>>
    /\ UNCHANGED <<skel, clsact>>

\* portmirror: where the clones of this tap go
MirrorMap ==
    /\ Calling("mirror_map")
    /\ skel' = [skel EXCEPT !.mirror_map = [t \in {tap} |-> opt.mirror]]
    /\ Advance(FALSE)
    /\ UNCHANGED <<hooks, clsact, by>>

\* erspan: the ports are stored; one too many ends the process, with the old
\* hooks detached already and none of the new ones attached
PortsMap ==
    /\ Calling("ports")
    /\ \/ /\ Len(opt.ports) <= max_entries
          /\ Advance(FALSE)
       \/ /\ Len(opt.ports) > max_entries
          /\ ops' = <<>> /\ failed' = TRUE
          /\ UNCHANGED <<runs, opt, todo, tap, settled, xdpVars>>
    /\ UNCHANGED <<skel, hooks, clsact, by>>

\* A clsact qdisc that exists already is no error
Create ==
    /\ Calling("create")
    /\ clsact' = clsact \cup {tap}
    /\ Advance(FALSE)
    /\ UNCHANGED <<skel, hooks, by>>

\* What the slot held is replaced; a failure is ignored
Attach(slot) ==
    /\ Calling("attach") /\ Head(ops)[2] = slot
    /\ \/ /\ tap \in clsact
          /\ hooks' = [hooks EXCEPT ![tap] =
                           [s \in DOMAIN @ \cup {slot} |-> IF s = slot THEN skel ELSE @[s]]]
          /\ Advance(FALSE)
       \/ Advance(TRUE) /\ UNCHANGED hooks
    /\ UNCHANGED <<skel, clsact, by>>

\* erspan: the clsact qdisc goes, with whatever is attached to it
Destroy ==
    /\ Calling("destroy")
    /\ \/ /\ clsact' = clsact \ {tap}
          /\ hooks' = [hooks EXCEPT ![tap] = [s \in {} |-> skel]]
          /\ by' = [by EXCEPT ![tap] = {}]
          /\ Advance(FALSE)
       \/ Advance(TRUE) /\ UNCHANGED <<hooks, clsact, by>>
    /\ UNCHANGED skel

\* A `?` that fails in load, in the update of a map or in create, or a kill:
\* the remaining calls and taps are left out
Abort ==
    /\ ~Idle
    /\ todo' = <<>> /\ ops' = <<>>
    /\ UNCHANGED <<runs, opt, tap, skel, hooks, clsact, by, failed, settled, xdpVars>>

\* xdpdump loads and fills its filterlist, which nothing sees before attach_xdp
DumpStart(p) ==
    /\ dump[p] = "off"
    /\ dump' = [dump EXCEPT ![p] = "loaded"]
    /\ UNCHANGED <<xdp, tcVars>>

\* Fault: the hook is taken from whoever has it
FaultDumpAttach(p) ==
    /\ dump[p] = "loaded"
    /\ dump' = [dump EXCEPT ![p] = "running"]
    /\ xdp' = [xdp EXCEPT ![p.ifindex] = <<Filterlist(p)>>]
    /\ UNCHANGED tcVars
\* An XDP hook holds one link: on a taken one attach_xdp fails, and with it
\* the process
DumpAttach(p) ==
    /\ dump[p] = "loaded"
    /\ IF xdp[p.ifindex] = <<>>
       THEN /\ dump' = [dump EXCEPT ![p] = "running"]
            /\ xdp' = [xdp EXCEPT ![p.ifindex] = <<Filterlist(p)>>]
       ELSE /\ dump' = [dump EXCEPT ![p] = "off"]
            /\ UNCHANGED xdp
    /\ UNCHANGED tcVars

\* The process is killed, or fails before it is attached; its link goes with it
DumpEnds(p) ==
    /\ dump[p] # "off"
    /\ dump' = [dump EXCEPT ![p] = "off"]
    /\ xdp' = IF dump[p] = "running" THEN [xdp EXCEPT ![p.ifindex] = <<>>] ELSE xdp
    /\ UNCHANGED tcVars

Next ==
    \/ \E o \in Commands : Main(o)
    \/ Load
    \/ \E s \in Slots : Detach(s) \/ Attach(s)
    \/ MirrorMap
    \/ PortsMap
    \/ Create
    \/ Destroy
    \/ Abort
    \/ \E p \in Dumps : DumpStart(p) \/ DumpAttach(p) \/ DumpEnds(p)

Spec == Init /\ [][Next]_vars

-----------------------------------------------------------------------------
(* The path of a packet                                                    *)

Run(g, t, k) ==
    IF g.prog = "erspan_get_tunnel" THEN erspan_get_tunnel(k) ELSE port_mirror(g, t, k)

\* The first program decides, as TC_ACT_OK and TC_ACT_SHOT both end the
\* classification; which of two filters of a direction comes first is the
\* kernel's choice
Verdicts(t, d, k) ==
    LET here == DOMAIN hooks[t] \cap At(d)
    IN  IF here = {} THEN {Pass} ELSE {Run(hooks[t][s], t, k) : s \in here}

\* Whether XDP, before tc and only on the way in, reports the packet
Reports(t, k) == \E i \in DOMAIN xdp[t] : xdp_dump(xdp[t][i], k)

-----------------------------------------------------------------------------
(* Properties                                                              *)

\* What a command in force accounts for: portmirror a verdict its filter asks
\* for, erspan any dropped packet (which ones it should drop is not stated
\* anywhere but in the classifier)
Explains(o, d, k, v) == IF o.tool = "erspan" THEN v = Shot ELSE v = MirrorAsked(o, d, k)

\* Whatever packet passes in the middle of whatever command, after failures,
\* kills, replaced and destroyed hooks of either tool: it is cloned only as a
\* portmirror command asks that was not detached since, and dropped only while
\* an erspan command was not (portmirror.bpf.c:64-69, 181-189;
\* erspan/main.rs:113-142).
VerdictsExplained ==
    \A t \in Taps, d \in Directions, k \in Packets :
        \A v \in Verdicts(t, d, k) \ {Pass} :
            \E o \in by[t] : Explains(o, d, k, v)

\* A tap whose programs are one portmirror command's, which went through:
\* every packet fares exactly as the command line says, in both directions
\* (portmirror.bpf.c:71, "Clone base on filter, only support IP packet").
FilterDecides ==
    \A t \in settled : \A o \in by[t] : (by[t] = {o} /\ o.tool = "portmirror") =>
        \A d \in Directions, k \in Packets : Verdicts(t, d, k) = {MirrorAsked(o, d, k)}

Running(t) == {p \in Dumps : dump[p] = "running" /\ p.ifindex = t}

\* However xdpdump processes start, fail and are killed: an interface has at
\* most one that runs, the program on its hook is that one's, with that one's
\* filter, and there is none without a process.  A process that starts in vain
\* disturbs nobody and none outlives its link (xdpdump/main.rs:48-66).  Which
\* frames a filter should let through is not claimed: main.rs:22 says "Source
\* IP of arp to be filtered", the program compares the target's address.
LinkExclusive ==
    \A t \in Taps :
        /\ \A p, q \in Running(t) : p = q
        /\ \A k \in Packets :
               Reports(t, k) <=> \E p \in Running(t) : xdp_dump(Filterlist(p), k)
=============================================================================
