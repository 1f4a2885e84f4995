------------------------------- MODULE MCHost -------------------------------
(* Small instances of what processes contend for on one host: the registers *)
(* of the bridge network, the cgroup of a container, and the daemon's       *)
(* socket.  They share no state: part is the one that moves in a behaviour. *)
(* Two processes contend for each and are interchangeable in every role.    *)
EXTENDS BridgeNetwork, CgroupControl, DaemonSocket, TLC

CONSTANT db   \* the container with a host name of its own
SharedName(c) == IF c = db THEN "db" ELSE "web"
ProcSymmetry == Permutations(Procs) \cup Permutations(Gens)

\* The built-in bridge, with a fault and a crash; a custom network with either.
BridgeKinds == {[builtin |-> TRUE, faults |-> 1, crashes |-> 1],
                [builtin |-> FALSE, faults |-> 1, crashes |-> 0],
                [builtin |-> FALSE, faults |-> 0, crashes |-> 1]}

VARIABLE part

hostVars == <<part, vars, cgVars, dsVars>>

HostInit ==
  /\ Init /\ CgInit /\ DsInit
  /\ part \in {"bridge", "cgroup", "socket"}
  /\ part # "cgroup" => cgV2
  /\ part # "bridge" => bridge.builtin

HostNext ==
  /\ UNCHANGED part
  /\ \/ part = "bridge" /\ Next /\ UNCHANGED <<cgVars, dsVars>>
     \/ part = "cgroup" /\ CgNext /\ UNCHANGED <<vars, dsVars>>
     \/ part = "socket" /\ DsNext /\ UNCHANGED <<vars, cgVars>>

HostSpec == HostInit /\ [][HostNext]_hostVars
=============================================================================
