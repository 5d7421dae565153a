# TLA+ models of rust-learning

The repository is a collection of independent programs, most of them small
network tools in Rust. The project models the ones with logic of their own:
`network/topology`, `network/forwarder`, the parser of `network/lldp`,
`network/echoserver` behind `network/proxy`, and the four tools of `ebpf/`. Each
module follows the source, each property is checked by TLC on a small
instance, and the central ones are proved with TLAPS for every instance.
`PROJECT.json` maps every definition to the lines it models, and lists the runs,
the faults each property is known to catch, the theorems and the hazards.

## 1. Inventory

### network/topology

Finds out which interfaces of which hosts are connected, per VLAN, by sending
ARP-like frames (`ARP operation 3` and `4`) over raw sockets.

* **Frames** (`packet.rs`). `builder` lays out Ethernet, optional VLAN tag, ARP
  header and a payload of two length-prefixed names and the VLAN id; `parse` reads
  it back. No state. Correct when what is built is what is read, with and without
  the tag (the kernel removes it before the socket sees the frame), and when
  neither leaves its buffer, whatever the bytes.
* **Process** (`main.rs`, `lib.rs`). Multi-threaded tokio. `main` picks the
  interfaces, spawns one `recv_packet` per interface, one `send_packet` and one
  `show_topo`, queues a request per interface and VLAN, and awaits them all. The
  receivers feed two unbounded channels: `(ifindex, Peer)` to `send_packet`, which
  answers, and to `show_topo`, which keeps and prints the table. State: the two
  channels, a raw socket per task with its kernel queue, the table `connection`,
  the text on the screen. Hard: two channels fed one after the other and drained by two
  tasks; sockets that hear every interface until they are bound; frames lost,
  delayed, reordered, flooded; `unwrap` nearly everywhere, so one error ends one task and
  the end travels through the closed channels; a 300 ms sleep between a check of the
  channel and the print.
  Correct when the table holds only true connections, a peer that is answered is
  also recorded, nothing learnt stays unprinted, the exchange ends, and a received request
  makes both sides know each other.
* **`show_vlan`** (`lib.rs`). Prints a sorted vector as ranges with `u16` arithmetic.

### network/forwarder

A daemon that takes a JSON request on a Unix socket (and with `--tcp` on a TCP
socket), runs the command in it and answers with its output.

* **Start-up** (`main`): remove an old socket file, make the directory, bind, chmod;
  six system calls on a path shared with earlier instances that crashed and others that
  start at the same time. Correct when a restart always works.
* **Connections** (`main`, `handle_stream`): one task per listener, one per
  connection. State per connection: the buffer with its capacity, the bytes in the
  kernel, a 5 s timer. Whether a read was the last one is guessed from its length
  modulo `BUF_LEN`. Correct when a full buffer is never taken for the end,
  the loop does not outlast what it receives, and clients do not hinder each other.
* **`run_cmd`**: pipes to a shell, all input written before any output is read.
  Correct when the output is complete and it returns.

### network/lldp

* **Parser** (`pdu.rs`, `tlv.rs`, `tlv/`): decodes type-length-value records of a
  frame. State: the position. Correct when it stays inside the frame, advances,
  and reads frames of well-formed TLVs in sequence right.
* **Receive loops** (`main.rs`): a blocking loop per interface on tokio workers.

### ebpf/portmirror, ebpf/erspan, ebpf/xdpdump

Tools that put programs on the path of an interface's packets.

* **portmirror** (`main.rs`, `portmirror.bpf.c`). Per tap the command loads a classifier
  with maps of its own, stores the filter key, detaches up to three tc hooks, attaches up to
  three. The classifier makes a key from each packet's headers, looks it up and clones
  matching packets to a mirror interface.
* **erspan** (`main.rs`, `erspan.bpf.c`). Detaches, stores ports, attaches, destroys, on the
  hooks of one interface; the classifier passes packets that carry ERSPAN metadata and drops all
  others.
* **xdpdump** (`main.rs`, `xdpdump.bpf.c`). Attaches to the XDP hook and sleeps; the program
  reports ARP frames that ask for an address.

State: the hooks of each interface with the programs and maps on them. Those of tc
outlive the command, the XDP link ends with its process. Hard: portmirror and erspan use the same
handle and priority, so each replaces and detaches the other's programs; some errors end
a command, others are ignored, a kill may come anywhere; packets pass between any two
calls. Correct when nothing happens to a packet that no command in force accounts for, when a packet fares exactly
as a portmirror command asks that is alone in force and went through, and when an XDP hook
belongs to one process at a time.

### ebpf/funcprobe

Probes at the entry and the return of a function; the tasks that call it store their
stacks in a ring buffer, which `main` polls and prints. State: the records, the
positions of producers and consumer, what is printed. Hard: tasks on several CPUs fill
records at once and submit them out of order, in memory that held older records; the ring
fills up; the handler's answer or a signal can end the poll. Correct when what is printed is the
firings that got a record, each once, whole and in order, and when each is printed.

### network/echoserver, network/proxy

* **UDP server**: workers that share a socket, each with a buffer it uses again; every echo is
  reported over a bounded channel to a logging task.
* **TCP server**: a task per connection that copies the socket to itself, and reports to the same logger.
* **Client**: writes a line, reads it back.
* **proxy**: accepts, connects to the destination within a second, copies both ways; one
  failed attempt ends the process.

Hard: workers, connections and logger wait for each other; a panic of one is noticed by some
only; half-closed and reset connections through two processes. Correct when a reply is what
was sent, a line comes back whole, sockets are closed in the end, and a server that is up
serves.

### The rest

| Component | What it does | Why it is not modelled |
|---|---|---|
| `network/lldp/src/main.rs` | a blocking receive loop per interface | the loops share only tokio's threads (see section 6) |
| `async/async-socket` | prints what packet sockets receive | one loop without state, a demonstration of `AsyncFd` |
| `file/csvmerge` | merge of CSV files | sequential, one vector; CSV is the library's |
| `wasm/nas` | to-do list | a user interface and a back end without operations |
| `network/p2p`, `network/load_balancer` | configuration of libp2p and pingora | the logic is the libraries' |
| `ffi/*`, `py3/*` | one-line functions across a language boundary | no state |

`vmlinux.h` in the eBPF directories, 402 779 of the 403 207 lines of C, and the lock files are
generated: the former are dumps of a kernel's types, of which the programs use a handful.

## 2. Modules

| Module | Models | State and actions |
|---|---|---|
| `TopoPacket` | `builder`, `parse` | operators; pnet's headers as record fields, the hand-laid payload byte by byte |
| `Topology` | the processes of any number of hosts and the switch between them | see below |
| `LinkKnowledge` | what `topology` promises, abstractly | `knows`, `shown`; `Learn`, `Show` |
| `ShowVlan` | `show_vlan` | one step per turn of the loop |
| `Forwarder` | listeners, connections, clients | per connection: client, bytes in the kernel, task, `len`, `cap` |
| `ForwarderBoot` | start-up | one step per system call, any number of instances |
| `RunCmd` | `run_cmd`, the command and what it leaves running | contents of three bounded pipes |
| `Lldp` | `parser`, `from_bytes`, the parsers of the TLVs | one step per turn of the loop |
| `TcHooks` | what portmirror and erspan share: three slots, their calls, the fates of a packet | operators |
| `PortMirror`, `Erspan`, `XdpDump` | each tool's calls and its program | operators |
| `PacketPath` | the three tools at work on the same interfaces | command's place and loaded program, `hooks`, `clsact`, `xdp`, `dump`; one step per system call |
| `EventQueue` | what funcprobe promises, abstractly | `queue`, `out`; `Accept`, `Show` |
| `FuncProbe` | probes, ring, handler | per task the step of `get_stack` it is at; `ring`, `prod`, `cons` |
| `EchoLog` | the log channel and its reader | number of messages, the logger |
| `EchoUdp` | the UDP server | workers with their buffers, the socket's queue, replies |
| `EchoTcp` | TCP clients, proxy, TCP server | per connection: both tasks, four pipes, half-closes and resets |
| `EchoService` | server mode, either protocol | `udp`; the properties and the fairness |
| `TopologyProofs`, `ShowVlanProofs`, `ForwarderProofs` (with `run_cmd`), `ForwarderBootProofs`, `LldpProofs`, `PacketPathProofs`, `FuncProbeProofs`, `EchoProofs` | | theorems |
| `MC*` | | instances for TLC |

`PacketPath` composes `PortMirror`, `Erspan` and `XdpDump`; `EchoService` composes `EchoUdp`
and `EchoTcp` over `EchoLog`; `FuncProbe` refines `EventQueue`. `Topology` composes `TopoPacket` and refines `LinkKnowledge` (`connection` is
`knows`, `screen` is `shown`). `Forwarder` uses `run_cmd` as a step that answers
or hangs; `RunCmd` says when it hangs.

Operators introduced by a comment `Fault:` are wrong versions of the operator
that follows them, as a slip in the code would make it. They are used nowhere in the
specifications; `PROJECT.json` ("mutants") says which property finds which.

### How `Topology` corresponds to the code

* An interface stands for its `ifindex`. `phase`, `todo`, `cursor` are `main`:
  `StartProbe` is everything up to the loop, `MainSend` one turn of the innermost
  loop, `MainReturn` the end of the last `await`, `MainPanic` the `unwrap` of a send to
  a channel whose reader is gone.
* `sock[n]` is the `recv_packet` task of interface `n`: `none` (spawned), `unbound`
  (`Socket::new`), `bound`, `dead`. `rxq[n]` is its kernel queue. `RecvFrame` is
  `recv`, `parse` and the send to `send_packet`; `RecvTopo` the send to `show_topo`;
  between the two other tasks run, `held[n]` is the peer still to be reported.
* `SendPacket` and `ShowRecv`, `ShowWake` are one turn of the other two tasks. `ShowWake`
  is the code after the sleep.
* `Closed(h)` holds when no sender of the channels is left. `Exit` is the end of the
  process.
* A `unwrap` of a failing system call is `RecvPanic`, or the `MayPanic` branches of
  `SenderEnd` and `ShowEnd`. An error of `sock.send` is ignored by the code and is a
  lost frame.
* External: the switch (`Reach`, `Receivers`) and the kernel's receive path
  (`Hears`, `Deliver`, which also takes off the tag). Frames in flight are a set,
  so two equal frames in flight at once are one.

### How `PacketPath` corresponds to the code

* `Main` is a command line being run, `Load` the start of the turn for the next tap (of
  erspan, of the whole run). `MirrorScript` and `ErspanScript` are the calls that
  follow in the order of the code, and `Detach`, `MirrorMap`, `PortsMap`, `Create`, `Attach` and `Destroy`
  make them, each as the code treats its error: printed and ignored, or the end.
* A packet is no action, as the programs keep nothing between packets: `Verdicts(t, d, k)` is
  what can become of packet `k`, `Reports` whether xdpdump reports it, and the
  invariants speak of every packet in every state.
* `by`, `failed`, `settled` are history, used only by the properties: the commands whose
  programs may still be attached, and the taps whose last command went through.

### How `FuncProbe` corresponds to the code

* `Attach` is `main` up to polling, `End` a `?`, an `unwrap` or an interrupted poll. `Call` and `Return` are a task that
  enters and leaves the probed function, with the event the probe stores, if any;
  `get_stack` is the reservation, and `Store` each later step, in the order of `Steps`.
* `ShowKernel`, `ShowUser`, `Skip` are `event_handler` and libbpf's release of the record, with the moment between the
  two stacks visible. Sizes are signed, as Rust reads them.
* External: the ring (order of reservation, the busy bit, a full ring) and `bpf_get_stack`. A record that is reused
  keeps its old bytes until they are overwritten.

### How `EchoUdp` and `EchoTcp` correspond to the code

* A worker is at `recv`, `send` or `log`, the three awaits of its loop; every byte of a datagram is the
  datagram itself, so a byte left over in the buffer shows in a reply. `MainReturns` is the
  first await of `udp_server`, which ends only when the first worker has panicked.
* Bytes of a connection are counted. A pipe stands for the socket buffers of one direction
  and the buffer of the task that fills it. `fin`, `gone`, `rst` are TCP's (external): end of stream, reader gone, reset.
  `Transfer` and `TaskEnds` are `copy_bidirectional`, `Echo` and `EchoEnds` `io::copy`; `SrvReport` closes the socket,
  which the task holds until then. `ProxyExits` is the `break`, with everything the process drops.

### Abstractions and known limits

* Names are the bytes of valid UTF-8, so `from_utf8_lossy` in `parse` changes
  nothing; at the source a host name may have grown by it to three times its
  64 bytes, which `NameAssumption` allows.
* `NicPanic` is stated for the operational state; an unreadable or unparsable address
  panics at the same place.
* A request of `Forwarder` is a number of bytes; `Good` is the set of lengths at
  which the bytes parse. `read` returns what is available or what there is room for.
  `Total` bounds what a client sends in the model. The code has no such bound, and the timer
  starts anew every turn (`forwarder/main.rs:48`), so a client that sends a whole buffer every few
  seconds holds its task for as long as it does; `ReadEnds` is therefore stated
  per amount received, and claims an end only for a client that stops sending.
* `BytesMut::reserve` is modelled by its growth rule (double, or as much as is needed).
* `RunCmd` counts units, not bytes, and a command is a finite script. When the command
  exits without reading its input, `write_all` fails and its output is dropped:
  that is `WriteFails`, as in the code.
* `Topology` has only the frames of `topology` itself: the sockets are opened for one EtherType, so the branch of
  `parse` for others (`packet.rs:154-156`) is not reached.
* `Lldp` has the slices of the code, also where they differ from the
  standard. `Decodes` is about payloads of `WellFormed` TLVs in sequence (`InSequence`: chassis id, port id, TTL,
  then the others, an end TLV only at the end), and under `NoMacChassis`: what the code does with others is in the
  model but no property calls it right (section 4). The `len` a TLV keeps is the header's, but for the
  constants of `ttl.rs:14` and `capabilities.rs:29`.
* `PacketPath` runs one command of portmirror or erspan at a time, and xdpdump's processes
  besides. The kernel is external: a failing call changes nothing; of several programs on
  the ingress side (`ingress` and `custom`) one answers, and which one is left open. Zero as an
  address or port means "any", as in the code; without an IPv6 source address (`::` will
  do) a filter is for IPv4. The "ports" of a packet are the four bytes after its IP
  header whatever the protocol, so a filter on ports may also hit ICMP messages, later
  fragments and IPv6 extension headers. Which packets erspan should drop and which ARP frames xdpdump should
  report no property says: the help texts and the programs disagree (section 4). A clone that arrives at another tap is one more packet.
* `FuncProbe`: an `id` stands for pid, CPU and command name; a record is one slot of the
  ring. Only the look-up of addresses and names is left out.
* `EchoUdp`: the receive queue holds one copy of a datagram at a time. The UDP client
  is left out: it waits for its reply without a timeout, and has no other state.
* `EchoTcp`: echoserver's own client leaves at the end of the stream, where the code goes on to a
  write that fails. Its line must fit the buffers on the way, as it writes all of it
  before it reads; a longer one makes it wait for ever (`echoserver/main.rs:73`). The client sends one line, where
  the code goes round its loop; every turn starts with all that was sent come back.
* Rendering (`Display`, `println!`, JSON) is left out everywhere.

## 3. Runs

Run with `tlc -config X.cfg M` in this directory.

| Run | Instance | Distinct states | Shows |
|---|---|---|---|
| `topology` | hosts with `a1`, `a2` (not used) and `b1`, a third whose link is down; VLAN 2 carried to all, untagged only between `a2` and `b1`; flooding, loss, failing system calls | 137 436 | `TypeOK SoundInv TopoSound AnsweredIsRecorded Implements Quiesces CascadeTerminates` |
| `topology_live` | two hosts that use all their interfaces, reliable network, a trunk that carries VLAN 2 and untagged frames, so that each hears of the other several times | 48 035 | `ScreenFresh Discovery Shown` |
| `show_vlan` | all vectors over 0..6, 6 as `u16::MAX` | 702 | `LoopInv Maximal PrintsAll` |
| `forwarder` | two connections, 16384 and 4097 bytes in any of several pieces; a command that hangs, a client that does not read, failing listeners | 124 302 | `WholeBuffers StopsDrained ReadEnds WholeIsAnswered Served` |
| `forwarder_boot` | three instances, crashes anywhere | 3 177 | `Reachable BootInv RestartSucceeds RaceLeavesOne` |
| `run_cmd` | all commands of up to 4 operations, at most one fork; pipes of one unit, input of 0, 1 or 3 | 7 353 | `Complete HangsOnlyWhenFull Returns` |
| `lldp` | all strings of up to 4 of nine telling bytes; lists of chassis id, port id, TTL and up to two of eight other well-formed TLVs, with and without an end | 55 653 | `TypeOK Tiles Decodes Terminates` |
| `lldp_length` | a TLV of 256 bytes | violation | `NineBits`: bit 9 of the length counts 512 |
| `packet_path` | any two of nine commands of portmirror and erspan, two taps, three xdpdump processes on one of them, eleven packets | 432 420 | `VerdictsExplained FilterDecides LinkExclusive` |
| `port_mirror_v6` | filters on an IPv6 destination | violation | `FilterDecides`: the packet's source is compared |
| `func_probe` | two tasks, a ring of two records, three firings, stacks that fail or are shorter than the buffer | 109 010 | `RecordsWhole Implements Handled` |
| `echo` | UDP: two workers, a datagram shorter and one longer than the buffer; TCP: echoserver's client and another through the proxy, pipes of one byte; a log channel of one message | 155 050 | `EchoSound LagBounded LineEchoed Served Progress` |

Deadlock checking is off in all but `run_cmd`: the other programs may come to rest
(waiting for a client or a frame that never comes, or finished), and where they must
not, a liveness property says so. `RunCmd` may stop where `Stuck` says that nobody can take a
step, so TLC's deadlock check shows that `Stuck` leaves out no state without a successor.

**Why the bounds are enough.** Topology: an exchange involves one asking and
one answering interface; the third interface adds what can disturb it (an unused
interface of the same host in `topology`). Two
VLANs, of which one carries the exchange and one goes nowhere or elsewhere, tell entries apart. In `topology_live` both
carry it: a request and a reply per VLAN are more messages than one, so that one comes
while `show_topo` sleeps after another, the case `ScreenFresh` is about. All
lengths of channels and queues are unbounded in the specification; the instances
bound them by the number of requests. Forwarder: the lengths
lie on both sides of every growth of the buffer up to 32 KiB; a third
connection would only repeat the second. Start-up: the third instance is the first that
can meet the remains of a race of two. Pipes: a unit pipe and three units of
input fill, drain and overfill it. LLDP: four bytes hold two headers or a header
and a value, and the loop keeps nothing between TLVs but the position; the lists have every TLV type, each followed by
every other.
Packet path: a slot is replaced or emptied as a whole, so what a command
finds is what the last command left in each slot; eleven ports are one more than the
array holds, frames of 42 and 43 bytes lie on both sides of xdpdump's check; of its processes two have different addresses
and one has none, and a third process can find the hook taken or freed by either of the others. Ring: with two records the
third firing meets a record used before, or a full ring, and two tasks can submit in the
opposite order; each reserves, fills and releases a single record, so more only repeat it. Echo: a datagram
longer than the buffer leaves bytes behind which a shorter one must not send; with one
message the log channel is full as soon as the second echo is reported; the second client's
line exceeds what all four pipes hold, the first one's just fits.

**Fairness.** `Topology`: weak fairness for each task (tokio runs every task
that is ready; the worker threads outnumber no one for ever, as no task blocks without
awaiting except in system calls that return) and for delivery, in the runs that ask for
liveness. Under `Lossy` that still lets any frame be lost. None for starting a process or
for a failing system call. `Forwarder`: weak
fairness for the accept loops, the connection tasks (the 5 s timer is part of
them) and `main`; none for clients, none for failures. `RunCmd`: for
`run_cmd`, the command and the background process, since a command that
does nothing for ever makes every answer wait. `Lldp`: for the loop. `FuncProbe`: for
a probe that has begun (it runs with preemption disabled) and for `main`, which
epoll wakes while the ring holds records; none for calls of the function, failures and signals.
`EchoService`: for the workers and the `main` of the UDP server, the logger (a print ends or fails), every
connection's tasks and its client, and the proxy's loop, whose connection attempt ends within its second; none for
clients that connect, send or are killed, and none for panics.

## 4. Findings

* **Length of an LLDP TLV** (`pdu.rs:93`): the ninth bit is shifted by 9 and counts
  512, so TLVs of 256 to 511 bytes are refused. Comment on `pdu.rs:91`: nine bits of length.
* **Filter on an IPv6 destination** (`portmirror.bpf.c:156`): the packet's source is
  put in the place of its destination, `dip6` is never used.

Further disagreements between the code and what is written beside it. The models do what the code does; the
properties are stated so that they depend on neither reading, and no run claims these as violations:

* `Lldpdu::parser` "Will check the sequence of TLV" (`pdu.rs:58,81`), and does not: TLVs in any order, repeated ones and those after
  the end are decoded. "If parse failed, an error message will be returned" (`:59,82`), but a TLV shorter
  than the fixed part of its type is read on into the next one, or panics at the end of the frame.
* A MAC address in a chassis identifier is `value[..6]`, subtype included (`chassis_id.rs:17`), where `port_id.rs:17`
  takes `value[1..7]`. Without the hypothesis `NoMacChassis` the property `Decodes` is violated.
* xdpdump compares the target address of an ARP frame (`xdpdump.bpf.c:53`), where its help text
  says "Source IP of arp to be filtered" (`xdpdump/main.rs:22`) and its report "ARP packet from" (`:56`), and passes over frames of exactly 42 bytes (`:37`).
* erspan stores its "List of ports to whitelist" (`erspan/main.rs:27`) in a map that its classifier never reads: a packet to a
  listed port is dropped like any other without tunnel metadata.

Further observations:

* A client of `forwarder` that keeps sending whole buffers is never answered and never timed out: the 5 s start again
  every turn (`forwarder/main.rs:48`).
* Once the logger of `echoserver` has died, every new TCP connection is still echoed and ends in a panic unreported (`echoserver/main.rs:146`);
  UDP workers stop after one echo each, which is what `LagBounded` says.
* A request to `forwarder` that arrives in pieces is cut at the first piece whose length is not a multiple of
  `BUF_LEN` (`forwarder/main.rs:50`, which says "All data read").
* A command that exits without reading its input makes `write_all` fail, and its output is dropped (`forwarder/main.rs:116`).
* A VLAN id above 4095, which `vlan_range` accepts, is truncated in the tag and not in
  the payload (`topology/packet.rs:39,81`); one interface in an operational state other than up and
  down ends `topology` at start-up (`lib.rs:185`).
* An eleventh port ends erspan after it has detached the old hooks (`erspan/main.rs:125`). `--attach --destroy` leaves nothing attached.
* funcprobe attaches `kfunc_enter` to the return probe too (`funcprobe/main.rs:250`), so a call of a kernel function
  is reported twice, and ends at the first signal that interrupts its poll (`:263`).
* A mirror of portmirror that is itself a tap clones the clones; two that mirror to each other do so up to
  the kernel's recursion limit (`portmirror.bpf.c:69`).

## 5. Proofs

All theorems hold for every value of the constants that satisfies the named assumptions of
the modules. `tlapm M.tla` checks them.

**Topology** (any hosts, interfaces, names, VLAN ranges, switch, failures).
Assumptions: `NicAssumption`, `NameAssumption`, `RangeAssumption`,
`NetworkAssumption`, `BroadcastAssumption`. `TopoSound` alone is not inductive: what
`show_topo` files comes from a channel, that from a receiver, that
from a kernel queue, that from the wire. The inductive invariant is
`IInv == TypeOK /\ SoundInv /\ TopoSound`; `SoundInv` says that every stage holds only
true things (`WireSound`, `RxSound`, `HeldSound`, `TopoChSound`) and that `main`'s
cursor stays in its ranges. The step from the wire to a peer is the round
trip of the frame. Theorems: `TypeCorrect`, `PathSound`, `Soundness`, and `Refinement`:
every step is a step of `LinkKnowledge` or leaves table and screen alone.
`ScreenIsFresh` needs besides `IdleInv`: a process whose `main` has not chosen its interfaces yet has no tasks,
so the choice cannot make an old table stale. `RepliesAreRecorded` (`AnsweredIsRecorded`) follows a peer
from the receiver's hand over `topoCh` to the table: `RecordedKeeps` shows that no step but the end of `show_topo`
loses it on the way, `HeldOne` that a receiver has at most one report in hand, `WireInv` that frames come from
processes that have started. Its hypothesis `UniqueMacs`, that no two interfaces share an address,
is real: with a shared address one host's reply would count as the other's.

**Frames.** `RoundTrip`: `parse(builder(...))` gives back names, address, VLAN and
direction, tagged or not. `ParseInBounds`: `parse` stays in the 1024-byte buffer on
any bytes. `SendFits`: names of at most 15 and 64 bytes fit the 256-byte buffer.
`NameAssumption` allows longer host names; there `BuilderFits` can fail and the
model, like the code, loses the sender.

**show_vlan** (any sorted, duplicate-free vectors, any maximum). Invariant
`TypeOK /\ LoopInv /\ Maximal`. Theorems `LoopCorrect`, `PrintsAllVlans`, `RangesMaximal`,
`NeverOverflows`.

**Forwarder** (any connections and lengths). Invariant `TypeOK /\ WholeBuffers /\
Unaccepted`; `Unaccepted`, that a connection has no task before it is
accepted, is what makes a new task's buffer empty. `ReserveWhole` is the fact about
`reserve` the argument rests on. Theorems `BuffersWhole`, `DrainedWhenStopped`, and two that `ReadEnds` and
`WholeIsAnswered` rest on: `ReadLoopRunsOut`, the loop holds no more than has been received, can always take a turn, and a
turn ends it or adds a whole buffer, so it goes round only finitely often for what has been received; `ParsesAllThatArrived`, whichever way a task stops reading, it
has every byte that had arrived, unless the connection was reset.

**run_cmd** (any pipes, inputs and commands; `ForwarderProofs` extends `RunCmd` too). `OutputIsComplete`: its invariant
`OutputInv` adds to `Accounted` that after a return nobody is left who could write.
`HangsOnFullPipes`: with `PipesInv` (the command runs while `run_cmd` writes or waits, stderr is captured only
by the call that waits, the command's input is closed by then) a state in which nobody can take a step has
both pipes full. `NoHangIfInputFits`: as what is left to write and what is in the pipe never
exceed the input, an input that fits a pipe cannot lead there. `CommandRunsOut`: every step uses up some of the number
`Work`. The last two are what `Returns` says, but for fairness.

**Start-up** (any number of instances). Invariant `TypeOK /\ BootInv`. Theorems
`BootInvariant`, `ServesReachable`, `TakeOverSucceeds`. For instances that race, `RaceInv` says why
one is left: the one whose socket the path names is past its `bind` and can no longer fail, and while the path names none,
somebody who can still bind is on the way. Theorem `RaceHasWinner`.

**LLDP** (every payload). `TypeOK /\ Tiles` is inductive as it stands; `PushStep` says what a turn of the
loop does. Theorems `TypeCorrect`, `TlvsTile`. `TlvsDecoded` (`Decodes`): a payload that is laid out as a list of well-formed
TLVs in sequence is decoded to that list, under the hypothesis `NoMacChassis`, that no chassis id is a MAC address, without
which it is false (`chassis_id.rs:17`). A layout gives each TLV its position, so no recursion over the
payload is needed: the invariant says that after `n` turns the loop is at the end of the `n`-th TLV and has the first `n`, and `Decoding` that
a turn on a well-formed TLV takes exactly it, type by type. `ParserRunsOut`: every step uses up some of `Ahead`, the
bytes and stages to come.

**Packet path** (any interfaces, packets and command lines). Assumptions: `CommandAssumption` (what clap accepts,
`MirrorOptions`) and `PacketAssumption` (an IP packet has addresses of its version and ports of two bytes).
`LinkIsExclusive` rests on `DumpInv`: a hook holds the filterlist of the one process that runs on it. For the
tc tools the inductive invariant `TcInv` has four parts: `HooksInv`, every attached program is complete and that of a
command in force, in a slot of that command; `TurnInv`, the calls a turn has left are in order and make sense for the command,
the tap is not settled meanwhile, and without a failure what is not hooked yet is still to be attached and
what is still hooked is still to be detached; `SettledInv`, a settled tap of one command has
all its slots; and types. `VerdictsExplained` needs only the hooks, but these depend on the order of the calls: a
program attached before its `mirror_map` is filled would clone nothing. `KeyDecides` is the fact about the data: the key user space stores and
the key the classifier makes agree exactly for the packets that `Matches` selects, through padding, byte order
and the set of fields. Theorems `VerdictsAreExplained` and `FilterIsObeyed`, under the hypothesis
`V4Destinations` (a destination that is compared is IPv4, and so is the source with it): without it
they are false, which is the finding of `port_mirror_v6`. `ObeyedAsSeen` says what holds in its place: the same two statements about the packet
as the classifier sees it (`Seen`: an IPv6 packet with its source in the place of its destination), with no more than
`SameVersions`, that the two addresses of a filter are of one version. The commands of `packet_path` satisfy both, and the
interfaces of `topology` satisfy `UniqueMacs`.

**funcprobe** (any tasks, ring, firings, depth of stacks). `RecordsWhole` is not inductive: the invariant adds that no two
tasks fill one record (`AloneInv`), what a record holds at each stage of `get_stack` (`TaskInv`), that positions and queue agree
(`QueueInv`), and what half a print has shown (`ScreenInv`). Theorems `RecordsAreWhole` and, from the
same invariant, `ImplementsEventQueue`: every step is a step of `EventQueue` or changes neither its queue
nor its output. `RingMovesOn` is what `Handled` rests on: the record main waits for is submitted or a task is at work on it that
only goes forward, a submitted record stays so until it is released, and no record makes main fail.

**Echo service** (any clients, workers, datagrams, buffers, pipes and channel; `Conns` finite). `RepliesAreEchoes`
from `UdpInv`: between its two calls a worker has a datagram that was sent at the beginning of its buffer.
`LinesAreEchoed` from `Intact`, the state of a connection that no process has broken: the bytes in the four pipes and in the tasks' hands
and those that came back make up the line, and the end of the stream follows them
around; and from `AcceptInv`, that a connection is in the proxy's hands once. `LagIsBounded`, of the UDP server, from `LagInv`, which
says where the unreported echoes are while the logger lives and that a worker may add one when it is gone. `CircuitNeverStalls`
is the deadlock freedom behind `Progress`: while both processes live, a connection that is not
settled has a step its client, one of its tasks, the accept loop or the logger can take (`Moves` lists the guards
of those actions). Besides `Intact` it needs `WiredInv`, how the ends of a
connection hang together also when the client has left, and `WaitInv`, that a client the proxy has not served is in its hands. The argument follows the bytes around: whoever cannot pass one on
has a full pipe before him, and all four are full only with a client that writes more than they hold
without reading. That is what the hypothesis `OwnLinesFit` excludes; with a line one byte longer TLC finds the stall.

Only model-checked are the properties that say that something happens in the end: `Quiesces`, `CascadeTerminates`, `Discovery` and `Shown` of
`topology`, `ReadEnds`, `WholeIsAnswered` and `Served` of `forwarder`, `Returns` of `run_cmd`, `Terminates` of
`lldp`, `Handled` of `func_probe`, `Served` and `Progress` of `echo`. Liveness under fairness and `ENABLED` are beyond the
prover; the theorems above that name one of them prove its safety part (a measure that every step lowers, or that somebody can
always go on) and leave fairness to TLC. `Stuck` and `Moves` are written out from the guards in place of `ENABLED`; for
`Stuck` the deadlock check of `run_cmd` confirms it.

## 6. Not modelled, and plan

What is left out has no state or no logic of its own (the table in section 1), with one
exception: the receive loops of `lldp` block a thread each in `rx.next()`
(`lldp/main.rs:48`), so with more interfaces than worker threads some are never heard. Which loops get
a thread is the runtime's decision, and what a loop does with a frame is the parser,
which `Lldp` models.

Every safety property of the passing runs is a theorem. What remains is the safety part of the other liveness
properties: for `forwarder`, that `Served` depends on no other connection; for `topology`, a measure over wire,
queues and channels that every step after the last request lowers (a request counts for itself and the reply it
causes). The latter is a sum over any set of interfaces, and facts about such sums need the induction the prover lacks.
