---------------------------- MODULE RestartControl ----------------------------
(* What the clients of a restarting container see: the restart loop of its  *)
(* parent starts generation after generation; `minictl wait` and the        *)
(* daemon's stop request each bind to one of them; rm, prune and the        *)
(* daemon's delete remove the record; a health supervisor rewrites it.      *)
(* Host resources of a generation are GenerationLifecycle's subject.        *)
EXTENDS Integers, FiniteSets

CONSTANTS WaitCmds, StopReqs, DeleteCmds,
          RcScenes,       \* who takes part: records [policy, clients, probes, trouble]
          MaxRuns,        \* generations of the loop
          MaxSettle,      \* polls of waitForParentStoppedState
          HealthRetries   \* consecutive failures that make a container unhealthy

ASSUME RestartAssumption ==
  /\ MaxRuns \in Nat \ {0} /\ MaxSettle \in Nat /\ HealthRetries \in Nat \ {0}
  /\ RcScenes \subseteq [policy: [type: {"no", "always", "on-failure"}, max: Nat],
                         clients: SUBSET (WaitCmds \cup StopReqs \cup DeleteCmds),
                         probes: Nat, trouble: Nat]

NoCode == -1                       \* ended by a signal, or unknown
RcCodes == {0, 1}
Runs == 0..MaxRuns

VARIABLES
  rcScene,   \* the policy of the container, its clients, and the bounds
  rcProc,    \* generation -> "none", "alive", "killed", "zombie", "gone"
  rcCode,    \* generation -> its exit code, once it has ended
  rcRec,     \* the record: [st, gen, code, rev, health]
  rcLoop,    \* the parent: [pc, gen, retries, err]
  rcWait,    \* wait command -> [pc, gen, exited, res, of]; of: the status that
             \* came with the answer
  rcStop,    \* stop request -> [pc, gen, polls, code]
  rcDel,     \* delete command -> pc
  rcHealth,  \* supervisor: [pc, failures, probes, seen]
  rcFaults

rcPolicy == rcScene.policy
rcClients == <<rcWait, rcStop, rcDel, rcHealth>>
rcVars == <<rcScene, rcProc, rcCode, rcRec, rcLoop, rcWait, rcStop, rcDel, rcHealth, rcFaults>>

NoWait == [pc |-> "idle", gen |-> 0, exited |-> FALSE, res |-> NoCode, of |-> "stopped"]
NoStop == [pc |-> "idle", gen |-> 0, polls |-> 0, code |-> NoCode]

NoSnapshot == [st |-> "deleted", gen |-> 0, code |-> NoCode, rev |-> 0, health |-> ""]

RcTypeOK ==
  /\ rcScene \in RcScenes
  /\ rcProc \in [Runs -> {"none", "alive", "killed", "zombie", "gone"}]
  /\ rcCode \in [Runs -> RcCodes \cup {NoCode}]
  /\ rcRec.st \in {"created", "running", "stopped", "deleted"} /\ rcRec.gen \in Runs
  /\ rcRec.code \in RcCodes \cup {NoCode} /\ rcRec.rev \in Nat
  /\ rcRec.health \in {"", "starting", "healthy", "unhealthy"}
  /\ rcLoop \in [pc: {"fork", "mark", "wait", "finalize", "decide", "done", "killed"},
                 gen: Runs, retries: 0..MaxRuns, err: BOOLEAN]
  /\ rcWait \in [WaitCmds -> [pc: {"idle", "open", "poll", "get", "settled", "done", "error"},
                              gen: Runs, exited: BOOLEAN, res: RcCodes \cup {NoCode},
                              of: {"created", "running", "stopped"}]]
  /\ rcStop \in [StopReqs -> [pc: {"idle", "open", "term", "killing", "settle", "get",
                                   "finalize", "done", "error"},
                              gen: Runs, polls: 0..MaxSettle, code: RcCodes \cup {NoCode}]]
  /\ rcDel \in [DeleteCmds -> {"idle", "delete", "done", "error"}]
  /\ rcHealth.pc \in {"idle", "get", "save"} /\ rcHealth.failures \in 0..rcHealth.probes

RcInit ==
  /\ rcScene \in RcScenes
  /\ rcProc = [g \in Runs |-> "none"] /\ rcCode = [g \in Runs |-> NoCode]
  /\ rcRec = [st |-> "created", gen |-> 0, code |-> 0, rev |-> 0, health |-> ""]
  /\ rcLoop = [pc |-> "fork", gen |-> 0, retries |-> 0, err |-> FALSE]
  /\ rcWait = [w \in WaitCmds |-> NoWait] /\ rcStop = [s \in StopReqs |-> NoStop]
  /\ rcDel = [d \in DeleteCmds |-> "idle"]
  /\ rcHealth = [pc |-> "idle", failures |-> 0, probes |-> 0, seen |-> NoSnapshot]
  /\ rcFaults = 0

RcFault == rcFaults < rcScene.trouble /\ rcFaults' = rcFaults + 1
\* pidfd readable: the process is a zombie or reaped.
Exited(g) == rcProc[g] \in {"zombie", "gone"}
Running(g) == rcRec.st = "running" /\ rcRec.gen = g

\* Mutant: the generation of the record is not compared.
FinalizedAny(g, code) ==
  IF rcRec.st = "running" THEN [rcRec EXCEPT !.st = "stopped", !.code = code, !.rev = @ + 1]
  ELSE rcRec

\* FinalizeStoppedGeneration on the record: the exact generation is stopped,
\* or its unknown exit code is made known; anything else is left alone.
Finalized(g, code) ==
  IF Running(g)
  THEN [rcRec EXCEPT !.st = "stopped", !.code = code, !.rev = @ + 1]
  ELSE IF rcRec.st = "stopped" /\ rcRec.gen = g /\ rcRec.code = NoCode /\ code # NoCode
  THEN [rcRec EXCEPT !.code = code, !.rev = @ + 1]
  ELSE rcRec

\* ReconcileContainerState: a running record whose process has exited.
Reconciled == IF rcRec.st = "running" /\ Exited(rcRec.gen) THEN Finalized(rcRec.gen, NoCode) ELSE rcRec

-----------------------------------------------------------------------------
(* The parent: runRestartLoop around runOnce.                               *)

LoopFork ==
  /\ rcLoop.pc = "fork" /\ rcLoop.gen < MaxRuns
  /\ rcLoop' = [rcLoop EXCEPT !.pc = "mark", !.gen = @ + 1]
  /\ rcProc' = [rcProc EXCEPT ![rcLoop.gen + 1] = "alive"]
  /\ UNCHANGED <<rcScene, rcCode, rcRec, rcClients, rcFaults>>

\* MarkRunning under the state lock, with exit code 0 until the stop; without a record, or when the write
\* fails, the blocked child is killed and the error ends the loop.
LoopMarksRunning ==
  LET g == rcLoop.gen IN
  /\ rcLoop.pc = "mark"
  /\ \/ /\ rcRec.st # "deleted" /\ UNCHANGED <<rcProc, rcFaults>>
        /\ rcRec' = [rcRec EXCEPT !.st = "running", !.gen = g, !.code = 0, !.rev = @ + 1]
        /\ rcLoop' = [rcLoop EXCEPT !.pc = "wait"]
     \/ /\ IF rcRec.st = "deleted" THEN UNCHANGED rcFaults ELSE RcFault
        /\ rcProc' = [rcProc EXCEPT ![g] = "gone"]
        /\ rcLoop' = [rcLoop EXCEPT !.pc = "done"] /\ UNCHANGED rcRec
  /\ UNCHANGED <<rcScene, rcCode, rcClients>>

\* awaitPayloadExec and cmd.Wait, once init has ended: a non-zero exit status
\* comes with a FAILURE byte, a runtime error; a killed init may have died before
\* READY, a runtime error too.
LoopReaps ==
  LET code == rcCode[rcLoop.gen] IN
  /\ rcLoop.pc = "wait" /\ rcProc[rcLoop.gen] = "zombie"
  /\ rcProc' = [rcProc EXCEPT ![rcLoop.gen] = "gone"]
  /\ \E bad \in BOOLEAN :
       /\ code # NoCode => (bad <=> code # 0)
       /\ rcLoop' = [rcLoop EXCEPT !.pc = "finalize", !.err = bad]
  /\ UNCHANGED <<rcScene, rcCode, rcRec, rcClients, rcFaults>>

\* An error here is a runtime control error, which is never retried.
LoopFinalizes ==
  /\ rcLoop.pc = "finalize"
  /\ \/ /\ rcRec.st # "deleted" /\ UNCHANGED rcFaults
        /\ rcRec' = Finalized(rcLoop.gen, rcCode[rcLoop.gen])
        /\ rcLoop' = [rcLoop EXCEPT !.pc = "decide"]
     \/ /\ IF rcRec.st = "deleted" THEN UNCHANGED rcFaults ELSE RcFault
        /\ rcLoop' = [rcLoop EXCEPT !.pc = "done"] /\ UNCHANGED rcRec
  /\ UNCHANGED <<rcScene, rcProc, rcCode, rcClients>>

\* Mutant: one restart too many.
ShouldRestartOnceMore(code, retries) ==
  \/ rcPolicy.type = "always"
  \/ rcPolicy.type = "on-failure" /\ code # 0 /\ (rcPolicy.max = 0 \/ retries <= rcPolicy.max)

ShouldRestart(code, retries) ==
  \/ rcPolicy.type = "always"
  \/ rcPolicy.type = "on-failure" /\ code # 0 /\ (rcPolicy.max = 0 \/ retries < rcPolicy.max)

\* A runtime error ends the loop.  Nothing tells it that somebody asked for the
\* container to stop.
LoopDecides ==
  /\ rcLoop.pc = "decide"
  /\ rcLoop' = IF ~rcLoop.err /\ ShouldRestart(rcCode[rcLoop.gen], rcLoop.retries)
               THEN [rcLoop EXCEPT !.pc = "fork", !.retries = @ + 1]
               ELSE [rcLoop EXCEPT !.pc = "done"]
  /\ UNCHANGED <<rcScene, rcProc, rcCode, rcRec, rcClients, rcFaults>>

\* The parent is killed and its child with it (Pdeathsig); the host's init reaps
\* the child.
LoopKilled ==
  /\ rcLoop.pc \notin {"done", "killed"} /\ RcFault
  /\ rcLoop' = [rcLoop EXCEPT !.pc = "killed"]
  /\ rcProc' = [rcProc EXCEPT ![rcLoop.gen] = IF @ = "alive" THEN "killed" ELSE @]
  /\ UNCHANGED <<rcScene, rcCode, rcRec, rcClients>>

HostInitReaps ==
  /\ rcLoop.pc = "killed"
  /\ \E g \in Runs : rcProc[g] = "zombie" /\ rcProc' = [rcProc EXCEPT ![g] = "gone"]
  /\ UNCHANGED <<rcScene, rcCode, rcRec, rcLoop, rcClients, rcFaults>>

\* Init ends with the payload's exit status, or was killed.
PayloadExits(g) ==
  /\ rcProc[g] \in {"alive", "killed"} /\ (rcLoop.pc = "mark" => g # rcLoop.gen)
  /\ rcProc' = [rcProc EXCEPT ![g] = "zombie"]
  /\ \E c \in RcCodes \cup {NoCode} : rcCode' = [rcCode EXCEPT ![g] = c]
  /\ UNCHANGED <<rcScene, rcRec, rcLoop, rcClients, rcFaults>>

-----------------------------------------------------------------------------
(* WaitContainer.                                                           *)

WGoes(w, pc) == rcWait' = [rcWait EXCEPT ![w].pc = pc]
WReturns(w, code) == rcWait' = [rcWait EXCEPT ![w].pc = "done", ![w].res = code]
rcOthersW == <<rcScene, rcProc, rcCode, rcLoop, rcStop, rcDel, rcHealth, rcFaults>>

WaitResolve(w) ==
  /\ rcWait[w].pc = "idle" /\ w \in rcScene.clients
  /\ CASE rcRec.st = "stopped" ->
            rcWait' = [rcWait EXCEPT ![w].pc = "done", ![w].res = rcRec.code, ![w].gen = rcRec.gen]
       [] rcRec.st = "running" ->
            rcWait' = [rcWait EXCEPT ![w].pc = "open", ![w].gen = rcRec.gen, ![w].exited = FALSE]
       [] OTHER -> WGoes(w, "error")
  /\ UNCHANGED <<rcRec, rcOthersW>>

\* A process that is gone: the waiter finalizes, or finds that another did.
WaitGone(w) ==
  LET new == Finalized(rcWait[w].gen, NoCode) IN
  /\ rcRec' = new
  /\ IF new # rcRec THEN WReturns(w, NoCode) ELSE WGoes(w, "idle")

WaitOpen(w) ==
  /\ rcWait[w].pc = "open"
  /\ IF rcProc[rcWait[w].gen] = "gone" THEN WaitGone(w)
     ELSE WGoes(w, "poll") /\ UNCHANGED rcRec
  /\ UNCHANGED rcOthersW

\* WaitExit for one refresh interval.
WaitPoll(w) ==
  /\ rcWait[w].pc = "poll"
  /\ rcWait' = [rcWait EXCEPT ![w].pc = "get", ![w].exited = Exited(rcWait[w].gen)]
  /\ UNCHANGED <<rcRec, rcOthersW>>

\* Mutant: the waiter leaves the stop to the parent.
WaitGetPatient(w) ==
  LET g == rcWait[w].gen IN
  /\ rcWait[w].pc = "get"
  /\ CASE rcRec.st = "deleted" -> WGoes(w, "error")
       [] rcRec.st = "stopped" -> WGoes(w, "settled")
       [] Running(g) -> WGoes(w, "poll")
       [] OTHER -> WGoes(w, "idle")
  /\ UNCHANGED <<rcRec, rcOthersW>>

\* The record decides; an exit that no parent has published yet is finalized
\* at once with an unknown code.
WaitGet(w) ==
  LET g == rcWait[w].gen IN
  /\ rcWait[w].pc = "get"
  /\ CASE rcRec.st = "deleted" -> WGoes(w, "error") /\ UNCHANGED rcRec
       [] rcRec.st = "stopped" ->
            /\ WGoes(w, "settled")
            /\ rcRec' = IF rcWait[w].exited THEN Finalized(g, rcRec.code) ELSE rcRec
       [] Running(g) /\ ~rcWait[w].exited -> WGoes(w, "poll") /\ UNCHANGED rcRec
       [] Running(g) /\ rcWait[w].exited -> WaitGone(w)
       [] OTHER -> WGoes(w, "idle") /\ UNCHANGED rcRec
  /\ UNCHANGED rcOthersW

\* The record is read again; when a restart has come in between, the answer is
\* the exit code of a generation that runs, which is 0.
WaitReload(w) ==
  /\ rcWait[w].pc = "settled"
  /\ IF rcRec.st = "deleted" THEN WGoes(w, "error")
     ELSE rcWait' = [rcWait EXCEPT ![w].pc = "done", ![w].res = rcRec.code, ![w].gen = rcRec.gen,
                                   ![w].of = rcRec.st]
  /\ UNCHANGED <<rcRec, rcOthersW>>

-----------------------------------------------------------------------------
(* handleStopContainer.                                                     *)

SGoes(s, pc) == rcStop' = [rcStop EXCEPT ![s].pc = pc]
rcOthersS == <<rcScene, rcCode, rcLoop, rcWait, rcDel, rcHealth, rcFaults>>

StopResolve(s) ==
  LET rec == Reconciled IN
  /\ rcStop[s].pc = "idle" /\ s \in rcScene.clients
  /\ rcRec' = rec
  /\ rcStop' = [rcStop EXCEPT ![s].gen = rec.gen,
       ![s].pc = CASE rec.st = "deleted" -> "error" [] rec.st = "running" -> "open" [] OTHER -> "done"]
  /\ UNCHANGED <<rcProc, rcOthersS>>

\* OpenProcessHandle; a process that has gone is reconciled, and a newer
\* generation in its place is a conflict.
StopOpenHandle(s) ==
  LET rec == Reconciled IN
  /\ rcStop[s].pc = "open"
  /\ IF rcProc[rcStop[s].gen] # "gone" THEN SGoes(s, "term") /\ UNCHANGED rcRec
     ELSE /\ rcRec' = rec
          /\ SGoes(s, IF rec.st \in {"running", "deleted"} THEN "error" ELSE "done")
  /\ UNCHANGED <<rcProc, rcOthersS>>

\* SIGTERM, which the payload may ignore, then the wait runs out or not.
StopTerm(s) ==
  LET g == rcStop[s].gen IN
  /\ rcStop[s].pc = "term"
  /\ \/ Exited(g) /\ SGoes(s, "settle") /\ UNCHANGED rcProc
     \/ /\ ~Exited(g) /\ SGoes(s, "killing")
        /\ rcProc' = [rcProc EXCEPT ![g] = "killed"]
  /\ UNCHANGED <<rcRec, rcOthersS>>

\* Mutant: SIGKILL is taken for an exit.
StopTrustsKill(s) ==
  /\ rcStop[s].pc = "killing" /\ SGoes(s, "settle")
  /\ UNCHANGED <<rcRec, rcProc, rcOthersS>>

\* The wait after SIGKILL sees the exit, or runs out.
StopAfterKill(s) ==
  /\ rcStop[s].pc = "killing"
  /\ SGoes(s, IF Exited(rcStop[s].gen) THEN "settle" ELSE "error")
  /\ UNCHANGED <<rcRec, rcProc, rcOthersS>>

\* Mutant: one poll more than the settle window has.
StopSettlesOnceMore(s) ==
  /\ rcStop[s].pc = "settle"
  /\ rcStop' = [rcStop EXCEPT
       ![s].polls = IF rcRec.st = "running" /\ @ <= MaxSettle THEN @ + 1 ELSE @,
       ![s].pc = IF rcRec.st = "running" /\ rcStop[s].polls <= MaxSettle THEN "settle" ELSE "get"]
  /\ UNCHANGED <<rcRec, rcProc, rcOthersS>>

\* waitForParentStoppedState: some polls for the parent to publish first.
StopSettles(s) ==
  /\ rcStop[s].pc = "settle"
  /\ rcStop' = [rcStop EXCEPT
       ![s].polls = IF rcRec.st = "running" /\ @ < MaxSettle THEN @ + 1 ELSE @,
       ![s].pc = IF rcRec.st = "deleted" THEN "error"
                 ELSE IF rcRec.st = "running" /\ rcStop[s].polls < MaxSettle THEN "settle" ELSE "get"]
  /\ UNCHANGED <<rcRec, rcProc, rcOthersS>>

StopGets(s) ==
  /\ rcStop[s].pc = "get"
  /\ IF rcRec.st = "deleted" THEN SGoes(s, "error")
     ELSE rcStop' = [rcStop EXCEPT ![s].pc = "finalize",
                       ![s].code = IF rcRec.st = "stopped" THEN rcRec.code ELSE NoCode]
  /\ UNCHANGED <<rcRec, rcProc, rcOthersS>>

StopFinalizes(s) ==
  /\ rcStop[s].pc = "finalize"
  /\ IF rcRec.st = "deleted" THEN SGoes(s, "error") /\ UNCHANGED rcRec
     ELSE SGoes(s, "done") /\ rcRec' = Finalized(rcStop[s].gen, rcStop[s].code)
  /\ UNCHANGED <<rcProc, rcOthersS>>

-----------------------------------------------------------------------------
(* rm, prune and the daemon's delete; the health supervisor.                *)

rcOthersD == <<rcScene, rcProc, rcCode, rcLoop, rcWait, rcStop, rcHealth, rcFaults>>

\* Anything but a running record goes on, one that was never started too.
DeleteReconciles(d) ==
  /\ rcDel[d] = "idle" /\ d \in rcScene.clients /\ rcRec' = Reconciled
  /\ rcDel' = [rcDel EXCEPT ![d] = IF rcRec'.st \in {"running", "deleted"} THEN "error" ELSE "delete"]
  /\ UNCHANGED rcOthersD

\* Mutant: the status seen before is trusted.
DeleteUnchecked(d) ==
  /\ rcDel[d] = "delete" /\ rcDel' = [rcDel EXCEPT ![d] = "done"]
  /\ rcRec' = [rcRec EXCEPT !.st = "deleted"]
  /\ UNCHANGED rcOthersD

\* DeleteIfNotRunning looks at the status again, under the state lock.
DeleteIfNotRunning(d) ==
  /\ rcDel[d] = "delete"
  /\ IF rcRec.st = "running" \/ rcRec.st = "deleted"
     THEN rcDel' = [rcDel EXCEPT ![d] = "error"] /\ UNCHANGED rcRec
     ELSE rcDel' = [rcDel EXCEPT ![d] = "done"] /\ rcRec' = [rcRec EXCEPT !.st = "deleted"]
  /\ UNCHANGED rcOthersD

rcOthersH == <<rcScene, rcProc, rcCode, rcLoop, rcWait, rcStop, rcDel, rcFaults>>

Evaluate(failures) ==
  IF failures = 0 THEN "healthy" ELSE IF failures >= HealthRetries THEN "unhealthy" ELSE "starting"

\* runOnce of the supervisor: the probe, then Get ...
HealthProbe ==
  /\ rcHealth.pc = "idle" /\ rcHealth.probes < rcScene.probes
  /\ \E ok \in BOOLEAN :
       rcHealth' = [rcHealth EXCEPT !.pc = "get", !.probes = @ + 1,
                                    !.failures = IF ok THEN 0 ELSE @ + 1]
  /\ UNCHANGED <<rcRec, rcOthersH>>

HealthGet ==
  /\ rcHealth.pc = "get"
  /\ rcHealth' = IF rcRec.st = "deleted" THEN [rcHealth EXCEPT !.pc = "idle"]
                 ELSE [rcHealth EXCEPT !.pc = "save", !.seen = rcRec]
  /\ UNCHANGED <<rcRec, rcOthersH>>

\* Mutant: the snapshot is written back whatever has happened since.
HealthOverwrites ==
  /\ rcHealth.pc = "save" /\ rcHealth' = [rcHealth EXCEPT !.pc = "idle", !.seen = NoSnapshot]
  /\ rcRec' = [rcHealth.seen EXCEPT !.health = Evaluate(rcHealth.failures), !.rev = @ + 1]
  /\ UNCHANGED rcOthersH

\* ... and Save of the whole snapshot, which a newer revision refuses; the
\* refusal is dropped.
HealthSave ==
  /\ rcHealth.pc = "save" /\ rcHealth' = [rcHealth EXCEPT !.pc = "idle", !.seen = NoSnapshot]
  /\ rcRec' = IF rcRec.st # "deleted" /\ rcRec.rev = rcHealth.seen.rev
              THEN [rcHealth.seen EXCEPT !.health = Evaluate(rcHealth.failures), !.rev = @ + 1]
              ELSE rcRec
  /\ UNCHANGED rcOthersH

-----------------------------------------------------------------------------
RcLoopStep ==
  LoopFork \/ LoopMarksRunning \/ LoopReaps \/ LoopFinalizes \/ LoopDecides
WaitStep(w) == WaitResolve(w) \/ WaitOpen(w) \/ WaitPoll(w) \/ WaitGet(w) \/ WaitReload(w)
StopStep(s) ==
  \/ StopResolve(s) \/ StopOpenHandle(s) \/ StopTerm(s) \/ StopAfterKill(s)
  \/ StopSettles(s) \/ StopGets(s) \/ StopFinalizes(s)
RcNext ==
  \/ RcLoopStep \/ LoopKilled \/ HostInitReaps \/ \E g \in Runs : PayloadExits(g)
  \/ \E w \in WaitCmds : WaitStep(w)
  \/ \E s \in StopReqs : StopStep(s)
  \/ \E d \in DeleteCmds : DeleteReconciles(d) \/ DeleteIfNotRunning(d)
  \/ HealthProbe \/ HealthGet \/ HealthSave

RcSpec == RcInit /\ [][RcNext]_rcVars

-----------------------------------------------------------------------------
(* Whoever publishes the stop first (the parent, a wait, a stop request, a  *)
(* reconciliation), the exit code of a stopped record is unknown or the one *)
(* its own generation ended with, never that of a neighbour; and a wait     *)
(* that prints a code prints that of the generation the record named.  The  *)
(* exception is a wait that read the record a second time after a restart:  *)
(* it prints the 0 of a generation that runs.                               *)
ExitCodeIsItsOwn ==
  /\ rcRec.st = "stopped" => rcRec.code \in {NoCode, rcCode[rcRec.gen]}
  /\ \A w \in WaitCmds : rcWait[w].pc = "done" =>
       \/ rcWait[w].res \in {NoCode, rcCode[rcWait[w].gen]}
       \/ rcWait[w].of = "running" /\ rcWait[w].res = 0

(* A stop request that answered "stopped" is right about the generation it  *)
(* found: its process has exited and the record never again says that it    *)
(* runs.  The restart loop may have started the next one.                   *)
StopAnswerIsTrue ==
  \A s \in StopReqs : rcStop[s].pc = "done" /\ rcStop[s].gen # 0 =>
    Exited(rcStop[s].gen) /\ ~Running(rcStop[s].gen)

(* A stopped or deleted record covers no process, although deletions, the   *)
(* restart loop and observers race: only a child that waits for its record, *)
(* or was killed while it did, may be left.                                 *)
NoProcessWithoutRecord ==
  rcRec.st \in {"stopped", "deleted"} =>
    \A g \in Runs : rcProc[g] \in {"alive", "killed"} =>
      /\ rcLoop.gen = g /\ rcRec.gen # g
      /\ rcLoop.pc = "mark" \/ (rcLoop.pc = "killed" /\ rcProc[g] = "killed")

(* A generation that was recorded as stopped never runs again and a deleted *)
(* record never comes back, also when a health check saves a snapshot it    *)
(* took before.                                                             *)
GenerationNeverRevives ==
  [][/\ rcRec.st = "deleted" => rcRec'.st = "deleted"
     /\ rcRec.st = "stopped" /\ rcRec'.st = "running" => rcRec'.gen > rcRec.gen]_rcVars

(* runRestartLoop: generations beyond the first exist only because the      *)
(* policy wanted them: a failure before each, and no more than its maximum. *)
RestartBudget ==
  /\ rcPolicy.type = "no" => rcLoop.gen <= 1
  /\ rcPolicy.type = "on-failure" =>
       /\ \A g \in 1..(rcLoop.gen - 1) : rcCode[g] # 0
       /\ rcPolicy.max > 0 => rcLoop.gen <= rcPolicy.max + 1

(* When the loop has ended and no payload is left, every wait and every     *)
(* stop request gets its answer, whoever had to publish the stop.           *)
ClientsGetAnswers ==
  (rcLoop.pc \in {"done", "killed"} /\ \A g \in Runs : rcProc[g] \notin {"alive", "killed"}) ~>
    /\ \A w \in WaitCmds \cap rcScene.clients : rcWait[w].pc \in {"done", "error"}
    /\ \A s \in StopReqs \cap rcScene.clients : rcStop[s].pc \in {"done", "error"}

(* What wait, stop, rm and the restart loop tell of the container is so,    *)
(* although each acts on a record it read some steps before.                *)
ClientsSeeTheTruth ==
  /\ RcTypeOK /\ ExitCodeIsItsOwn /\ StopAnswerIsTrue
  /\ NoProcessWithoutRecord /\ RestartBudget
=============================================================================
