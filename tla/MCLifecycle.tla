---------------------------- MODULE MCLifecycle ----------------------------
(* Small instances of the generations of a container: restarts that may     *)
(* stop a child while it is set up, and the other commands with two         *)
(* mishaps, of which one may be a fault, one a crash, and both children     *)
(* that die while they are set up.  part says which a behaviour is.  The    *)
(* parents, named by their generations, are interchangeable.                *)
EXTENDS GenerationLifecycle, TLC

VARIABLE part

MaxMishaps == 2

lifecycleVars == <<part, vars>>

LifecycleInit == Init /\ part \in {"restart", "faults"}

Only(kinds) == \A c \in Commands : loc'[c].cmd \notin Kinds \ kinds

\* Only a restart command kills a blocked child, and when it has, the next
\* command comes when the parents have gone.
EarlyByCommand ==
  /\ early' # early => pc' # pc
  /\ early # {} /\ (\E g \in Gens : pc[g] \notin {"idle", "gone"}) =>
       \A c \in Commands : pc[c] = "idle" => pc'[c] = "idle"

LifecycleNext ==
  /\ UNCHANGED part
  /\ Next
  /\ \/ part = "restart" /\ Only({"restart"}) /\ faults' + crashes' = 0 /\ EarlyByCommand
     \/ part = "faults" /\ Only(Kinds \ {"restart"})
          /\ faults' + crashes' + Cardinality(early') <= MaxMishaps

LifecycleSpec == LifecycleInit /\ [][LifecycleNext]_lifecycleVars

TaskSymmetry == Permutations(Gens)
=============================================================================
