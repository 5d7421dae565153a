------------------------------- MODULE Erspan -------------------------------
(***************************************************************************)
(* ebpf/erspan: a command that attaches a classifier to an interface's tc  *)
(* hooks, detaches it, or destroys all hooks of the interface, and the     *)
(* classifier, which lets packets pass that carry the metadata of an       *)
(* ERSPAN tunnel and drops all others.  PacketPath runs the commands.      *)
(* A packet's tun says what of a tunnel it carries: nothing, a key, or a   *)
(* key with options.                                                       *)
(***************************************************************************)
EXTENDS Naturals, Sequences, TcHooks

\* The size of the array that --ports is stored in; the classifier does not
\* read it
max_entries == 10

ErspanLoaded == [prog |-> "erspan_get_tunnel"]

\* Fault: destroy comes before attach
FaultErspanScript(o) ==
    DetachCalls(o)
 \o (IF o.destroy THEN <<<<"destroy", "all">>>> ELSE <<>>)
 \o (IF o.attach
     THEN <<<<"ports", "all">>, <<"create", "ingress">>>>
       \o Calls("attach", <<"egress", "ingress", "custom">>)
     ELSE <<>>)
\* The system calls of a command once it has loaded; --query changes nothing
ErspanScript(o) ==
    DetachCalls(o)
 \o (IF o.attach
     THEN <<<<"ports", "all">>, <<"create", "ingress">>>>
       \o Calls("attach", <<"egress", "ingress", "custom">>)
     ELSE <<>>)
 \o (IF o.destroy THEN <<<<"destroy", "all">>>> ELSE <<>>)

\* Both helpers fail for a packet without tunnel metadata, the second one for
\* metadata without options
erspan_get_tunnel(k) == IF k.tun = "options" THEN Pass ELSE Shot
=============================================================================
