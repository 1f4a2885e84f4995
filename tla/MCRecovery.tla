----------------------------- MODULE MCRecovery -----------------------------
(* Small instances of what must eventually happen: a crashed generation is  *)
(* cleaned up, the clients of a restarting container get their answers, a   *)
(* half-made volume is repaired, init drains its processes and an exec      *)
(* returns.  The four share no state: part is the one that moves in a       *)
(* behaviour, and fairness is stated for that one.  The lifecycle may not   *)
(* deadlock, the others may come to rest.                                   *)
EXTENDS GenerationLifecycle, RestartControl, VolumeStore, ContainerProcesses, TLC

CONSTANTS w1, s1, d1, k1, k2

Policy(type, max) == [type |-> type, max |-> max]
Scene(policy, clients, probes, trouble) ==
  [policy |-> policy, clients |-> clients, probes |-> probes, trouble |-> trouble]

RestartScenes ==
  {Scene(Policy("no", 0), {w1, s1, d1}, 0, 1), Scene(Policy("no", 0), {d1}, 2, 1),
   Scene(Policy("on-failure", 1), {w1, s1}, 0, 0), Scene(Policy("always", 0), {s1, d1}, 0, 0),
   Scene(Policy("always", 0), {}, 1, 0), Scene(Policy("always", 0), {w1}, 0, 1),
   Scene(Policy("on-failure", 1), {w1, d1}, 0, 0)}

\* Two generations of descendants, and an exec beside one.
ProcessScenes ==
  {[forks |-> {k1, k2}, exec |-> FALSE], [forks |-> {k1}, exec |-> TRUE]}

VARIABLE part

recoveryVars == <<part, vars, rcVars, vsVars, cpVars>>

RecoveryInit ==
  /\ Init /\ RcInit /\ VsInit /\ CpInit
  /\ part \in {"lifecycle", "restart", "volume", "processes"}
  /\ part # "restart" => rcScene = CHOOSE s \in RcScenes : TRUE
  /\ part # "processes" => cpCli.pc = "idle"

Moves(p, step) ==
  /\ part = p /\ UNCHANGED part /\ step
  /\ p # "lifecycle" => UNCHANGED vars
  /\ p # "restart" => UNCHANGED rcVars
  /\ p # "volume" => UNCHANGED vsVars
  /\ p # "processes" => UNCHANGED cpVars

RecoveryNext ==
  \/ Moves("lifecycle", Next)
  \/ Moves("restart", RcNext \/ UNCHANGED rcVars)
  \/ Moves("volume", VsNext)
  \/ Moves("processes", CpNext \/ UNCHANGED cpVars)

\* For the part that moves.  The OS schedules every process of the runtime that
\* has something to do, kills orphans and lets a killed process die; an operator
\* who keeps looking at the container keeps reconciling it, and a volume call
\* that was made goes on, creation being asked for again and again.
RecoveryFairness ==
  /\ \A g \in Gens : /\ WF_vars(part = "lifecycle" /\ ParentStep(g))
                     /\ WF_vars(part = "lifecycle" /\ ParentExit(g))
                     /\ WF_vars(part = "lifecycle" /\ pc[g] = "gone" /\ ChildDies(g))
  /\ \A t \in Tasks : WF_vars(part = "lifecycle" /\ SharedStep(t))
  /\ \A c \in Commands : /\ WF_vars(part = "lifecycle" /\ CommandStep(c))
                         /\ WF_vars(part = "lifecycle" /\ Start(c, "reconcile"))
  /\ WF_rcVars(part = "restart" /\ RcLoopStep)
  /\ \A w \in WaitCmds : WF_rcVars(part = "restart" /\ WaitStep(w))
  /\ \A s \in StopReqs : WF_rcVars(part = "restart" /\ StopStep(s))
  /\ \A c \in VsClients : WF_vsVars(part = "volume" /\ (CreateStep(c) \/ RemoveStep(c)))
  /\ WF_cpVars(part = "processes" /\ CpSupervisor)
  /\ WF_cpVars(part = "processes" /\ CpCliStep)
  /\ WF_cpVars(part = "processes" /\ CpHelperStep)
  /\ WF_cpVars(part = "processes" /\ DoomedExits)
  /\ WF_cpVars(part = "processes" /\ CpRuntime)
  /\ WF_cpVars(part = "processes" /\ ParentReapsMember(ExecPayload))

RecoverySpec == RecoveryInit /\ [][RecoveryNext]_recoveryVars /\ RecoveryFairness
=============================================================================
