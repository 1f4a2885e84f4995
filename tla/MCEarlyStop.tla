---------------------------- MODULE MCEarlyStop ----------------------------
(* Small instances of a container that is stopped while it starts, and of   *)
(* the links and rules that GenerationLifecycle treats as one resource      *)
(* each.  They share no state: part is the one that moves in a behaviour.   *)
(* The lifecycle may not deadlock, the network may come to rest.            *)
EXTENDS GenerationLifecycle, HostNetwork, TLC

CONSTANTS o1, o2, a1, a2

Scene(owners, watched, published, taken, admins, bridge, trouble) ==
  [owners |-> owners, watched |-> watched, ports |-> published, taken |-> taken,
   admins |-> admins, bridge |-> bridge, trouble |-> trouble]
Built == {"none", "up"}

\* Two containers; two operators of a bridge; a container with published ports
\* beside an operator, with a port that is taken, and with two faults.
HostScenes ==
  {Scene({o1, o2}, {o1}, {}, {}, {}, {"up"}, 1), Scene({}, {}, {}, {}, {a1, a2}, Built, 2),
   Scene({o1}, {o1}, {o1}, {}, {a1}, Built, 1), Scene({o1}, {o1}, {o1}, {o1}, {}, Built, 1),
   Scene({o1}, {o1}, {o1}, {}, {}, Built, 2)}

VARIABLE part

stopVars == <<part, vars, hnVars>>

StopInit ==
  /\ Init /\ HnInit
  /\ part \in {"lifecycle", "network"}
  /\ part # "network" => hnBr = "none" /\ hnP = [o \in Owners |-> [pc |-> "done", ok |-> TRUE]]

StopNext ==
  /\ UNCHANGED part
  /\ \/ part = "lifecycle" /\ Next /\ UNCHANGED hnVars
     \/ part = "network" /\ (HnNext \/ UNCHANGED hnVars) /\ UNCHANGED vars

StopSpec == StopInit /\ [][StopNext]_stopVars

CommandSymmetry == Permutations(Commands)
=============================================================================
