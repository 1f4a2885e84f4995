------------------------ MODULE GenerationLifecycle ------------------------
(***************************************************************************)
(* The life of the process generations of one container, as the runtime    *)
(* parents (container.Run / runOnce) and the other commands (reconcile,    *)
(* wait, stop, rm, restart) drive it.  They share the durable record of    *)
(* ContainerStore and the host: processes, cgroup directories, veth pairs, *)
(* port-forwarding rules and DNS bindings.                                 *)
(*                                                                         *)
(* A task is a parent (named by its generation) or a command; every call   *)
(* of the state store and every host mutation is one step, so other tasks  *)
(* and crashes come in between.  The state files are in the current        *)
(* format, so a store call replaces one file and is atomic.  A read that   *)
(* fails ends its operation without effect, which is a crash at that step. *)
(***************************************************************************)
EXTENDS ContainerStore, FiniteSets

CONSTANTS Commands,            \* processes running reconcile, wait, stop, ...
          Kinds,               \* the commands they run
          MaxFaults,           \* write and cleanup errors in one behaviour
          MaxCrashes,          \* crashes of parents and commands
          Bridge               \* the container uses the bridge network

ASSUME BoundsAssumption == MaxFaults \in Nat /\ MaxCrashes \in Nat
ASSUME FlagsAssumption == Bridge \in BOOLEAN
ASSUME TasksAssumption ==
  /\ Commands \cap Gens = {}
  /\ Kinds \subseteq {"reconcile", "wait", "stop", "rm", "restart"}

VARIABLES store,      \* durable record and tokens
          alive,      \* generations whose process has not exited
          released,   \* generations whose payload was let go
          cgdir,      \* generations whose cgroup directory exists
          veth,       \* generations whose host veth exists
          ports,      \* generations whose DNAT rules are installed
          dns,        \* generations bound in the DNS registry
          pc,         \* pc[t]: where task t is
          loc,        \* loc[t]: the local variables of task t
          started,    \* generations whose start event was committed
          died,       \* generations whose die event was published
          early,      \* history: children that died under a parent setting them up
          faults, crashes

nethost == <<veth, ports, dns>>
log == <<started, died, early>>
host == <<alive, released, cgdir, nethost>>
vars == <<store, host, pc, loc, log, faults, crashes>>

Tasks == Gens \cup Commands
Labels == {"idle", "gone",
  "P.mark", "P.cgown", "P.mkdir", "P.attach", "P.netown", "P.veth", "P.ports",
  "P.dns", "P.release", "P.exec", "P.wait", "P.end",
  "B.id", "A.prekill", "A.kill", "A.stop", "A.captured", "A.get", "A.dns",
  "A.cgtok", "A.nettok",
  "F.stop", "F.cgtok", "F.reload", "F.ident", "F.dns", "F.nettok", "F.done",
  "R.get", "R.probe", "S.open", "S.kill", "W.timeout", "W.exited", "W.clean", "D.delete",
  "X.get", "X.fork", "C.current", "C.cgtok", "C.cgid", "C.net", "C.nettok", "C.netid",
  "C.dnsid", "C.dns", "C.done", "cgrm", "cgclear", "ports", "veth", "vethonly", "netclear"}

\* cmd: what a command runs; gen, code: the generation it works on and the exit
\* code it reports; rev: the stopped revision it read; changed: its MarkStopped
\* committed and said so; err: it has an error to return; ret: where a shared
\* cleanup returns; attached: the child was put into its cgroup.
Locals == [cmd : Kinds \cup {"run", "waited", "stopped"}, gen : GenOrNone, code : Codes \cup {Unknown, 0, 1},
           rev : Nat, changed : BOOLEAN, err : BOOLEAN, ret : Labels,
           attached : BOOLEAN]

NoLocals == [cmd |-> "run", gen |-> NoGen, code |-> Unknown, rev |-> 0,
             changed |-> FALSE, err |-> FALSE, ret |-> "idle", attached |-> FALSE]

TypeOK ==
  /\ store \in Stores
  /\ \A resource \in {alive, released, cgdir, veth, ports, dns, started, died, early} :
       resource \subseteq Gens
  /\ pc \in [Tasks -> Labels] /\ loc \in [Tasks -> Locals]
  /\ faults \in 0..MaxFaults /\ crashes \in 0..MaxCrashes

\* The record is admitted (created); nothing has been started.
Init ==
  /\ store = saveContainerCAS(EmptyStore, [NoContainer EXCEPT !.status = "created"])
  /\ alive = {} /\ released = {} /\ cgdir = {} /\ veth = {} /\ ports = {} /\ dns = {}
  /\ pc = [t \in Tasks |-> "idle"] /\ loc = [t \in Tasks |-> NoLocals]
  /\ started = {} /\ died = {} /\ early = {}
  /\ faults = 0 /\ crashes = 0

-----------------------------------------------------------------------------
(* Step idioms                                                             *)

\* Task t leaves label "from"; only the crash actions crash.
At(t, from) == pc[t] = from /\ UNCHANGED crashes
Goto(t, l) == pc' = [pc EXCEPT ![t] = l]
Keep == UNCHANGED loc
Let(t, r) == loc' = [loc EXCEPT ![t] = r]
Fail(t) == loc' = [loc EXCEPT ![t].err = TRUE]

NoFault == UNCHANGED faults
Fault == faults < MaxFaults /\ faults' = faults + 1

\* A step that only reads.
Pure == UNCHANGED <<store, host, log, faults>>

\* Go on at l with or without an error; a return address used up is dropped.
Step(t, l, bad) ==
  /\ Goto(t, l)
  /\ Let(t, [loc[t] EXCEPT !.err = @ \/ bad, !.ret = IF l = @ THEN "idle" ELSE @])

\* One locked store operation.  Refused or failed it is an error and goes to
\* "bad"; a write whose fsync failed is visible but reported as an error.
Try(t, ok, new, good, bad) ==
  \/ ok /\ store' = new /\ Step(t, good, FALSE) /\ NoFault
  \/ ~ok /\ UNCHANGED store /\ Step(t, bad, TRUE) /\ NoFault
  \/ /\ ok /\ Fault /\ Step(t, bad, TRUE)
     /\ \E w \in {"failed", "unsynced"} : store' = Written(w, store, new)

\* Task t removes the S-resource of g from the host: gone (already, perhaps),
\* or the removal fails and the error is kept.
Remove(t, S, g, good, bad) ==
  \/ S' = S \ {g} /\ Step(t, good, FALSE) /\ NoFault
  \/ g \in S /\ UNCHANGED S /\ Step(t, bad, TRUE) /\ Fault

\* Where a parent prepares a child that is blocked before exec.
Preparing == {"P.mark", "P.cgown", "P.mkdir", "P.attach", "P.netown", "P.veth", "P.ports",
              "P.dns", "P.release"}

\* The process of g is gone, by no act of its parent.
ProcessExits(g) ==
  /\ alive' = alive \ {g}
  /\ early' = early \cup {h \in alive \cap {g} : pc[h] \in Preparing}
  /\ UNCHANGED <<store, released, cgdir, nethost, started, died, faults>>

-----------------------------------------------------------------------------
(* A parent: runOnce                                                       *)

\* startContainerProcess: the child exists, blocked on the sync pipe.
Fork(t, g, next) ==
  /\ pc[g] = "idle"
  /\ alive' = alive \cup {g}
  /\ pc' = [pc EXCEPT ![t] = next, ![g] = "P.mark"]
  /\ loc' = [loc EXCEPT ![t] = NoLocals, ![g] = [NoLocals EXCEPT !.gen = g]]
  /\ UNCHANGED <<store, released, cgdir, nethost, log, faults, crashes>>

FirstRun(g) ==
  /\ \A h \in Gens : pc[h] = "idle"
  /\ store.rec.status \in {"absent", "created"}
  /\ Fork(g, g, "P.mark")

\* runRestartLoop: a payload exit without a runtime error may be restarted by
\* the same process; ShouldRestart is the policy's choice.  StageRuntimeStart
\* refuses the attempt while the previous start has no die.
PolicyRestart(h, g) ==
  /\ pc[h] = "P.end" /\ ~loc[h].err /\ g # h
  /\ h \in started => h \in died
  /\ Fork(h, g, "gone")

ParentReturns(g) ==
  /\ At(g, "P.end") /\ Goto(g, "gone") /\ Let(g, NoLocals) /\ Pure

MarkRunningP(g) ==
  /\ At(g, "P.mark")
  /\ Try(g, MarkRunningAdmits(store, g), MarkRunning(store, g), "P.cgown", "A.prekill")
  /\ UNCHANGED <<host, log>>

\* applyCgroupWithDurableOwnership: the token before the directory.
OwnCgroup(g) ==
  /\ At(g, "P.cgown")
  /\ Try(g, MarkCgroupOwnedAdmits(store, g), MarkCgroupOwned(store, g), "P.mkdir", "A.kill")
  /\ UNCHANGED <<host, log>>

MkdirCgroup(g) ==
  /\ At(g, "P.mkdir") /\ Goto(g, "P.attach") /\ Keep
  /\ cgdir' = cgdir \cup {g}
  /\ UNCHANGED <<store, alive, released, nethost, log, faults>>

AfterCgroup == IF Bridge THEN "P.netown" ELSE "P.release"

\* configureV2 writes the limits, then cgroup.procs.  When that fails applyV2
\* tries to remove the directory; without requested limits the run goes on.
AttachCgroup(g) ==
  /\ At(g, "P.attach")
  /\ \/ /\ g \in alive /\ Goto(g, AfterCgroup) /\ UNCHANGED <<cgdir, faults>>
        /\ Let(g, [loc[g] EXCEPT !.attached = TRUE])
     \/ /\ \/ Goto(g, AfterCgroup) /\ Keep
           \/ Goto(g, "A.kill") /\ Fail(g)
        /\ \/ g \notin alive /\ cgdir' = cgdir \ {g} /\ NoFault
           \/ g \in alive /\ cgdir' = cgdir \ {g} /\ Fault
           \/ UNCHANGED cgdir /\ Fault
  /\ UNCHANGED <<store, alive, released, nethost, log>>

OwnNetwork(g) ==
  /\ At(g, "P.netown")
  /\ Try(g, MarkNetworkOwnedAdmits(store, g), MarkNetworkOwned(store, g), "P.veth", "A.kill")
  /\ UNCHANGED <<host, log>>

\* The steps of setupBridgeHostOwned keep what they have installed when they
\* fail; SetupVethHostGenerationOwned needs the child's network namespace.
SetupVeth(g) ==
  /\ At(g, "P.veth")
  /\ \/ g \in alive /\ veth' = veth \cup {g} /\ Goto(g, "P.ports") /\ Keep /\ NoFault
     \/ /\ veth' \in {veth, veth \cup {g}} /\ Goto(g, "B.id") /\ Fail(g)
        /\ IF g \in alive THEN Fault ELSE NoFault
  /\ UNCHANGED <<store, alive, released, cgdir, ports, dns, log>>

SetupPorts(g) ==
  /\ At(g, "P.ports")
  /\ \/ ports' = ports \cup {g} /\ Goto(g, "P.dns") /\ Keep /\ NoFault
     \/ ports' \in {ports, ports \cup {g}} /\ Goto(g, "B.id") /\ Fail(g) /\ Fault
  /\ UNCHANGED <<store, alive, released, cgdir, veth, dns, log>>

BindDNS(g) ==
  /\ At(g, "P.dns")
  /\ \/ dns' = dns \cup {g} /\ Goto(g, "P.release") /\ Keep /\ NoFault
     \/ UNCHANGED dns /\ Goto(g, "B.id") /\ Fail(g) /\ Fault
  /\ UNCHANGED <<store, alive, released, cgdir, veth, ports, log>>

\* The ready frame: EPIPE when the child is gone.
Release(g) ==
  /\ At(g, "P.release")
  /\ \/ g \in alive /\ released' = released \cup {g} /\ Goto(g, "P.exec") /\ Keep
     \/ /\ g \notin alive /\ UNCHANGED released /\ Fail(g)
        /\ Goto(g, IF Bridge THEN "B.id" ELSE "A.kill")
  /\ UNCHANGED <<store, alive, cgdir, nethost, log, faults>>

\* awaitPayloadExec reads READY, then blocks until init has ended, for init
\* supervises the payload and holds the status pipe to its end.  EOF after READY
\* (exit status 0, or init was killed) commits the start event; the FAILURE byte
\* of any other end, or EOF before READY, is a runtime error (ContainerInit).
AwaitExec(g) ==
  /\ At(g, "P.exec") /\ g \notin alive
  /\ \/ started' = started \cup {g} /\ Step(g, "P.wait", FALSE)
     \/ UNCHANGED started /\ Step(g, "P.wait", TRUE)
  /\ UNCHANGED <<store, host, died, early, faults>>

\* The exit codes that go with what awaitPayloadExec saw (-1 for a signal).
ReapCodes(g) == {Unknown} \cup IF loc[g].err THEN Codes ELSE {0}

\* Mutant: the raw wait status is taken for the exit code.
ReapRawStatus(g) ==
  /\ At(g, "P.wait")
  /\ \E c \in ReapCodes(g) : Let(g, [loc[g] EXCEPT !.code = 256 * c])
  /\ Goto(g, "F.stop") /\ Pure

\* cmd.Wait: the parent alone learns the exit code.
Reap(g) ==
  /\ At(g, "P.wait")
  /\ \E c \in ReapCodes(g) : Let(g, [loc[g] EXCEPT !.code = c])
  /\ Goto(g, "F.stop") /\ Pure

-----------------------------------------------------------------------------
(* Setup failures: cleanupNetworkOwnership, then abortRuntimeSetupFailure  *)

\* The bridge cleanup is a no-op unless the stop of this very generation is
\* already durable.
BridgeFailure(g) ==
  /\ At(g, "B.id") /\ Pure
  /\ \/ /\ store.rec.status = "stopped" /\ TeardownIdentity(store) = g
        /\ Goto(g, "ports") /\ Let(g, [loc[g] EXCEPT !.ret = "A.kill"])
     \/ /\ ~(store.rec.status = "stopped" /\ TeardownIdentity(store) = g)
        /\ Goto(g, "A.kill") /\ Keep

\* abortBlockedChildChecked.  A kill that cannot be confirmed preserves
\* everything; before MarkRunning there is nothing else to undo.
AbortKill(g, from, next) ==
  /\ At(g, from) /\ Fail(g)
  /\ \/ alive' = alive \ {g} /\ Goto(g, next) /\ NoFault
     \/ g \in alive /\ UNCHANGED alive /\ Goto(g, "P.end") /\ Fault
  /\ UNCHANGED <<store, released, cgdir, nethost, log>>

AbortPreRunning(g) == AbortKill(g, "A.prekill", "P.end")
AbortRuntimeSetup(g) == AbortKill(g, "A.kill", "A.stop")

\* MarkStoppedIfIdentity as task t calls it: nothing to do is no error, a record
\* that is gone or has had its last revision is.
Stops(t, good, bad) ==
  LET g == loc[t].gen
      due == \/ RunningAs(store, g)
             \/ /\ store.rec.status = "stopped" /\ store.rec.code = Unknown
                /\ loc[t].code # Unknown /\ readCurrentExitedIdentity(store) = g
      ok == UpgradesExitCode(store, g, loc[t].code) \/ StopsRunning(store, g)
      new == MarkStoppedIfIdentity(store, g, loc[t].code)
      Result(l, changed, bad_) ==
        /\ Goto(t, l)
        /\ Let(t, [loc[t] EXCEPT !.changed = changed, !.err = @ \/ bad_, !.code = Unknown])
  IN \/ ok /\ store' = new /\ Result(good, TRUE, FALSE) /\ NoFault
     \/ ~due /\ Exists(store) /\ UNCHANGED store /\ Result(good, FALSE, FALSE) /\ NoFault
     \/ (~Exists(store) \/ (due /\ ~ok)) /\ UNCHANGED store /\ Result(bad, FALSE, TRUE) /\ NoFault
     \/ /\ ok /\ Fault /\ Result(bad, FALSE, TRUE)
        /\ \E w \in {"failed", "unsynced"} : store' = Written(w, store, new)

AbortMarkStopped(g) ==
  /\ At(g, "A.stop") /\ Stops(g, "A.captured", "P.end")
  /\ UNCHANGED <<host, log>>

\* The cgroup the child was seen in before the kill.
AbortCaptured(g) ==
  /\ At(g, "A.captured")
  /\ \/ loc[g].attached /\ Remove(g, cgdir, g, "A.get", "A.get")
     \/ ~loc[g].attached /\ Goto(g, "A.get") /\ Keep /\ UNCHANGED <<cgdir, faults>>
  /\ UNCHANGED <<store, alive, released, nethost, log>>

AbortReload(g) ==
  /\ At(g, "A.get") /\ Pure /\ Let(g, [NoLocals EXCEPT !.gen = g, !.err = loc[g].err])
  /\ Goto(g, IF store.rec.status = "stopped" THEN "A.dns" ELSE "P.end")

\* cleanupRuntimeGenerationResources: DNS, then each token if it is ours.
AbortDNS(g) ==
  /\ At(g, "A.dns") /\ Remove(g, dns, g, "A.cgtok", "A.cgtok")
  /\ UNCHANGED <<store, alive, released, cgdir, veth, ports, log>>

\* A generation's own token sends the task to the removal, and back to next.
IfToken(t, tok, removal, next) ==
  \/ tok = loc[t].gen /\ Goto(t, removal) /\ Let(t, [loc[t] EXCEPT !.ret = next])
  \/ tok # loc[t].gen /\ Goto(t, next) /\ Keep

AbortCgroupToken(g) == At(g, "A.cgtok") /\ IfToken(g, store.cg, "cgrm", "A.nettok") /\ Pure
AbortNetToken(g) == At(g, "A.nettok") /\ IfToken(g, store.net, "ports", "P.end") /\ Pure

-----------------------------------------------------------------------------
(* The shared removals: host first, token last                             *)

\* cleanupOwnedGenerationWith: RemoveChecked, then the exact token.
RemoveCgroup(t) ==
  /\ At(t, "cgrm") /\ Remove(t, cgdir, loc[t].gen, "cgclear", loc[t].ret)
  /\ UNCHANGED <<store, alive, released, nethost, log>>

\* A token another actor has cleared already is no error; another generation's
\* token, or one a running record protects, is.
Clear(t, tok, ok, new) ==
  \/ tok # NoGen /\ Try(t, ok, new, loc[t].ret, loc[t].ret)
  \/ tok = NoGen /\ UNCHANGED store /\ Step(t, loc[t].ret, FALSE) /\ NoFault

ClearCgroupToken(t) ==
  /\ At(t, "cgclear")
  /\ Clear(t, store.cg, ClearCgroupOwnershipAdmits(store, loc[t].gen),
           [store EXCEPT !.cg = NoGen])
  /\ UNCHANGED <<host, log>>

\* Mutant: a port rule that cannot be removed does not keep the token.
RemovePortsForgives(t) ==
  /\ At(t, "ports") /\ Remove(t, ports, loc[t].gen, "veth", "veth")
  /\ UNCHANGED <<store, alive, released, cgdir, veth, dns, log>>

\* cleanupNetworkOwnershipWith: ports and veth are both tried, the token goes
\* only when both are gone.
RemovePorts(t) ==
  /\ At(t, "ports") /\ Remove(t, ports, loc[t].gen, "veth", "vethonly")
  /\ UNCHANGED <<store, alive, released, cgdir, veth, dns, log>>

RemoveVeth(t) ==
  /\ \/ At(t, "veth") /\ Remove(t, veth, loc[t].gen, "netclear", loc[t].ret)
     \/ At(t, "vethonly") /\ Remove(t, veth, loc[t].gen, loc[t].ret, loc[t].ret)
  /\ UNCHANGED <<store, alive, released, cgdir, ports, dns, log>>

ClearNetToken(t) ==
  /\ At(t, "netclear")
  /\ Clear(t, store.net, ClearNetworkOwnershipAdmits(store, loc[t].gen),
           [store EXCEPT !.net = NoGen])
  /\ UNCHANGED <<host, log>>

-----------------------------------------------------------------------------
(* FinalizeStoppedGeneration                                               *)

\* Mutant: only the actor that changed the record cleans the cgroup.
FinalizeStopWinnerCleans(t) ==
  /\ At(t, "F.stop")
  /\ \/ Stops(t, "F.cgtok", "F.reload") /\ store' # store
     \/ Stops(t, "F.reload", "F.reload") /\ store' = store
  /\ UNCHANGED <<host, log>>

\* An error without changed skips the cgroup, not the reload.
FinalizeStop(t) ==
  /\ At(t, "F.stop") /\ Stops(t, "F.cgtok", "F.reload")
  /\ UNCHANGED <<host, log>>

FinalizeCgroup(t) ==
  /\ At(t, "F.cgtok") /\ Pure
  /\ \/ store.cg \in {NoGen, loc[t].gen} /\ IfToken(t, store.cg, "cgrm", "F.reload")
     \/ store.cg \notin {NoGen, loc[t].gen} /\ Goto(t, "F.reload") /\ Fail(t)

FinalizeReload(t) ==
  /\ At(t, "F.reload") /\ Pure
  /\ \/ store.rec.status = "stopped" /\ Goto(t, "F.ident")
          /\ Let(t, [loc[t] EXCEPT !.rev = store.rec.rev])
     \/ store.rec.status \in {"created", "running"} /\ Goto(t, "F.done") /\ Keep
     \/ ~Exists(store) /\ Goto(t, "F.done") /\ Fail(t)

\* The stopped revision must still be this generation's; then the actor whose
\* stop committed publishes die, which is dropped unless this very process
\* committed the start (consumeDieProof), that is, unless it is the parent.
FinalizeIdentity(t) ==
  LET g == loc[t].gen
      mine == StoppedRevisionCurrent(store, loc[t].rev) /\ TeardownIdentity(store) = g
  IN /\ At(t, "F.ident") /\ Let(t, [loc[t] EXCEPT !.rev = 0, !.changed = @ /\ loc[t].cmd = "wait"])
     /\ \/ mine /\ Goto(t, "F.dns")
             /\ died' = IF loc[t].changed /\ t \in started THEN died \cup {t} ELSE died
        \/ ~mine /\ Goto(t, "F.done") /\ UNCHANGED died
     /\ UNCHANGED <<store, host, started, early, faults>>

FinalizeDNS(t) ==
  /\ At(t, "F.dns") /\ Remove(t, dns, loc[t].gen, "F.nettok", "F.nettok")
  /\ UNCHANGED <<store, alive, released, cgdir, veth, ports, log>>

FinalizeNetwork(t) ==
  At(t, "F.nettok") /\ IfToken(t, store.net, "ports", "F.done") /\ Pure

\* The caller goes on: the parent returns its result, wait returns or looks
\* again, rm and restart go on unless there was an error.
Return(c, next) ==
  /\ Goto(c, next)
  /\ Let(c, IF next = "idle" THEN NoLocals ELSE [NoLocals EXCEPT !.cmd = loc[c].cmd])

AfterReconcile(c) ==
  CASE loc[c].err -> "idle"
    [] ~loc[c].err /\ loc[c].cmd = "rm" -> "D.delete"
    [] ~loc[c].err /\ loc[c].cmd \in {"restart", "stopped"} -> "X.get"
    [] OTHER -> "idle"

FinalizeDone(t) ==
  /\ At(t, "F.done") /\ Pure
  /\ \/ t \in Gens /\ Goto(t, "P.end") /\ Let(t, [NoLocals EXCEPT !.err = loc[t].err])
     \/ t \in Commands /\ loc[t].cmd \notin {"wait", "waited"} /\ Return(t, AfterReconcile(t))
     \/ t \in Commands /\ loc[t].cmd = "waited"
          /\ Return(t, IF loc[t].err THEN "idle" ELSE "W.clean")
     \/ t \in Commands /\ loc[t].cmd = "wait"
          /\ Return(t, IF loc[t].err \/ loc[t].changed THEN "idle" ELSE "R.get")

-----------------------------------------------------------------------------
(* Commands                                                                *)

Start(c, k) ==
  /\ At(c, "idle") /\ Pure
  /\ Goto(c, IF k = "stop" THEN "S.open" ELSE "R.get")
  /\ Let(c, [NoLocals EXCEPT !.cmd = k])

\* Mutant: a stopped record needs no reconciliation.
ReconcileGetSkipsStopped(c) ==
  /\ At(c, "R.get") /\ Pure
  /\ \/ store.rec.status # "running" /\ Return(c, "idle")
     \/ store.rec.status = "running" /\ Goto(c, "R.probe")
          /\ Let(c, [loc[c] EXCEPT !.gen = store.rec.gen])

\* ReconcileContainerState and WaitContainer read the record.
ReconcileGet(c) ==
  /\ At(c, "R.get") /\ Pure
  /\ \/ ~Exists(store) /\ Return(c, "idle")
     \/ store.rec.status = "created" /\ Return(c, IF loc[c].cmd = "rm" THEN "D.delete" ELSE "idle")
     \/ store.rec.status = "stopped" /\ Goto(c, "C.current")
          /\ Let(c, [loc[c] EXCEPT !.rev = store.rec.rev])
     \/ store.rec.status = "running" /\ Goto(c, "R.probe")
          /\ Let(c, [loc[c] EXCEPT !.gen = store.rec.gen])

\* Mutant: a probe that proves nothing counts as an exit.
ProbeAlwaysDead(c) == At(c, "R.probe") /\ Goto(c, "F.stop") /\ Keep /\ Pure

\* probeProcessGeneration.  Only a generation seen dead is finalized; wait holds
\* a pidfd and looks at the record again on exit and on every timeout.
Probe(c) ==
  LET dead == loc[c].gen \notin alive
      waits == loc[c].cmd = "wait" IN
  /\ At(c, "R.probe") /\ Pure
  /\ \/ dead /\ Goto(c, "F.stop") /\ Keep
     \/ dead /\ waits /\ Goto(c, "W.exited") /\ Keep
     \/ ~dead /\ waits /\ Goto(c, "W.timeout") /\ Keep
     \/ ~dead /\ ~waits /\ Return(c, AfterReconcile(c))

WaitTimeout(c) ==
  /\ At(c, "W.timeout") /\ Pure
  /\ \/ ~Exists(store) /\ Return(c, "idle")
     \/ store.rec.status = "stopped" /\ Return(c, "W.clean")
     \/ RunningAs(store, loc[c].gen) /\ Goto(c, "R.probe") /\ Keep
     \/ /\ Exists(store) /\ store.rec.status # "stopped"
        /\ ~RunningAs(store, loc[c].gen) /\ Return(c, "R.get")

\* The exit was seen: finalize this generation with -1, or with the code of the
\* stopped record, whichever generation that record is about.
WaitExited(c) ==
  /\ At(c, "W.exited") /\ Pure
  /\ \/ ~Exists(store) /\ Return(c, "idle")
     \/ store.rec.status = "stopped" /\ Goto(c, "F.stop")
          /\ Let(c, [loc[c] EXCEPT !.cmd = "waited", !.code = store.rec.code])
     \/ RunningAs(store, loc[c].gen) /\ Goto(c, "F.stop") /\ Keep
     \/ /\ Exists(store) /\ store.rec.status # "stopped"
        /\ ~RunningAs(store, loc[c].gen) /\ Return(c, "R.get")

WaitClean(c) ==
  /\ At(c, "W.clean") /\ Pure
  /\ \/ ~Exists(store) /\ Return(c, "idle")
     \/ Exists(store) /\ Goto(c, "C.current")
          /\ Let(c, [loc[c] EXCEPT !.rev = store.rec.rev])

\* openRunningProcess: a process already reaped is an error.
StopOpen(c) ==
  /\ At(c, "S.open") /\ Pure
  /\ \/ store.rec.status = "running" /\ Goto(c, "S.kill")
          /\ Let(c, [loc[c] EXCEPT !.gen = store.rec.gen])
     \/ ~(store.rec.status = "running" /\ store.rec.gen \in alive) /\ Return(c, "idle")

\* Mutant: the stop is finalized when the signal was sent, not when it took.
StopKillUnconfirmed(c) ==
  /\ At(c, "S.kill") /\ Goto(c, "F.stop") /\ Keep /\ Pure

\* StopContainerWithSignal: the exit is confirmed before anything is finalized.
\* The child may still be blocked: its parent learns that only from its next step.
StopKill(c) == At(c, "S.kill") /\ ProcessExits(loc[c].gen) /\ Goto(c, "F.stop") /\ Keep

\* rm, prune: DeleteIfNotRunning checks again under the lock.
RemoveRecord(c) ==
  /\ At(c, "D.delete")
  /\ \/ DeleteIfNotRunningAdmits(store) /\ store' = EmptyStore /\ NoFault
     \/ ~DeleteIfNotRunningAdmits(store) /\ UNCHANGED store /\ NoFault
     \/ DeleteIfNotRunningAdmits(store) /\ UNCHANGED store /\ Fault
  /\ Return(c, "idle")
  /\ UNCHANGED <<host, log>>

\* restartStoppedContainer: a running container is stopped once.
RestartGet(c) ==
  /\ At(c, "X.get") /\ Pure
  /\ \/ store.rec.status = "stopped" /\ Return(c, "X.fork")
     \/ store.rec.status = "running" /\ loc[c].cmd = "restart" /\ Goto(c, "S.open")
          /\ Let(c, [loc[c] EXCEPT !.cmd = "stopped"])
     \/ store.rec.status \in {"absent", "created"} /\ Return(c, "idle")
     \/ store.rec.status = "running" /\ loc[c].cmd = "stopped" /\ Return(c, "idle")

RestartFork(c, g) == pc[c] = "X.fork" /\ Fork(c, g, "idle")

\* runOnce fails before a process exists; the record is not created any more.
RestartFails(c) == At(c, "X.fork") /\ Return(c, "idle") /\ Pure

-----------------------------------------------------------------------------
(* CleanupStoppedRuntimeResources                                          *)

\* stoppedSnapshotStillCurrent, then the next read of the task.
IfCurrent(c, from, next, stale) ==
  /\ At(c, from) /\ Keep /\ Pure
  /\ Goto(c, IF StoppedRevisionCurrent(store, loc[c].rev) THEN next ELSE stale)

\* The token is read; a token found sets the generation to clean.
ReadToken(c, from, tok, found, none) ==
  /\ At(c, from) /\ Pure
  /\ \/ tok # NoGen /\ Goto(c, found) /\ Let(c, [loc[c] EXCEPT !.gen = tok])
     \/ tok = NoGen /\ Goto(c, none) /\ Keep

\* The token may be consumed only if it is the stopped generation's.
IfIdentity(c, from, current, removal, next) ==
  LET mine == TeardownIdentity(store) = loc[c].gen IN
  /\ At(c, from) /\ Pure
  /\ \/ current /\ mine /\ Goto(c, removal) /\ Let(c, [loc[c] EXCEPT !.ret = next])
     \/ current /\ ~mine /\ Goto(c, next) /\ Fail(c)
     \/ ~current /\ Goto(c, next) /\ Keep

CleanupCgroup(c) ==
  \/ IfCurrent(c, "C.current", "C.cgtok", "C.done")
  \/ ReadToken(c, "C.cgtok", store.cg, "C.cgid", "C.net")
  \/ IfIdentity(c, "C.cgid", StoppedRevisionCurrent(store, loc[c].rev), "cgrm", "C.net")

\* cleanupNetworkOwnershipAfterDurableStopWith reads the record afresh.
CleanupNetwork(c) ==
  \/ IfCurrent(c, "C.net", "C.nettok", "C.dnsid")
  \/ ReadToken(c, "C.nettok", store.net, "C.netid", "C.dnsid")
  \/ IfIdentity(c, "C.netid", store.rec.status = "stopped", "ports", "C.dnsid")

CleanupDNS(c) ==
  \/ /\ At(c, "C.dnsid") /\ Pure
     /\ LET g == TeardownIdentity(store) IN
        \/ StoppedRevisionCurrent(store, loc[c].rev) /\ g # NoGen
             /\ Goto(c, "C.dns") /\ Let(c, [loc[c] EXCEPT !.gen = g])
        \/ ~(StoppedRevisionCurrent(store, loc[c].rev) /\ g # NoGen)
             /\ Goto(c, "C.done") /\ Keep
  \/ /\ At(c, "C.dns") /\ Remove(c, dns, loc[c].gen, "C.done", "C.done")
     /\ UNCHANGED <<store, alive, released, cgdir, veth, ports, log>>

CleanupDone(c) == At(c, "C.done") /\ Return(c, AfterReconcile(c)) /\ Pure

-----------------------------------------------------------------------------
(* The environment                                                         *)

\* A payload ends when it likes, a child dies with its parent (Pdeathsig), and a
\* blocked one can be killed by anybody.
ChildDies(g) == g \in alive /\ ProcessExits(g) /\ UNCHANGED <<pc, loc, crashes>>

\* Run fails before any process exists: finalizeCreatedRunFailure.
PreGenerationFailure ==
  /\ \A g \in Gens : pc[g] = "idle"
  /\ MarkStoppedIfCreatedAdmits(store)
  /\ store' = MarkStoppedIfCreated(store)
  /\ UNCHANGED <<host, pc, loc, log, faults, crashes>>

Crash(t) ==
  /\ crashes < MaxCrashes /\ crashes' = crashes + 1
  /\ pc[t] \notin {"idle", "gone"}
  /\ Goto(t, IF t \in Gens THEN "gone" ELSE "idle")
  /\ Let(t, NoLocals)
  /\ Pure

-----------------------------------------------------------------------------
ParentStep(g) ==
  \/ MarkRunningP(g) \/ OwnCgroup(g) \/ MkdirCgroup(g) \/ AttachCgroup(g)
  \/ OwnNetwork(g) \/ SetupVeth(g) \/ SetupPorts(g) \/ BindDNS(g)
  \/ Release(g) \/ AwaitExec(g) \/ Reap(g)
  \/ BridgeFailure(g) \/ AbortPreRunning(g) \/ AbortRuntimeSetup(g)
  \/ AbortMarkStopped(g) \/ AbortCaptured(g) \/ AbortReload(g) \/ AbortDNS(g)
  \/ AbortCgroupToken(g) \/ AbortNetToken(g)

ParentExit(g) == ParentReturns(g) \/ \E h \in Gens : PolicyRestart(g, h)

SharedStep(t) ==
  \/ RemoveCgroup(t) \/ ClearCgroupToken(t)
  \/ RemovePorts(t) \/ RemoveVeth(t) \/ ClearNetToken(t)
  \/ FinalizeStop(t) \/ FinalizeCgroup(t) \/ FinalizeReload(t)
  \/ FinalizeIdentity(t) \/ FinalizeDNS(t) \/ FinalizeNetwork(t) \/ FinalizeDone(t)

CommandStep(c) ==
  \/ ReconcileGet(c) \/ Probe(c)
  \/ WaitTimeout(c) \/ WaitExited(c) \/ WaitClean(c)
  \/ StopOpen(c) \/ StopKill(c) \/ RemoveRecord(c) \/ RestartGet(c)
  \/ RestartFails(c)
  \/ CleanupCgroup(c) \/ CleanupNetwork(c) \/ CleanupDNS(c) \/ CleanupDone(c)

Next ==
  \/ PreGenerationFailure
  \/ \E g \in Gens : FirstRun(g) \/ ParentStep(g) \/ ParentExit(g) \/ ChildDies(g)
  \/ \E c \in Commands : \/ \E k \in Kinds : Start(c, k)
                        \/ CommandStep(c)
                        \/ \E g \in Gens : RestartFork(c, g)
  \/ \E t \in Tasks : SharedStep(t) \/ Crash(t)

Spec == Init /\ [][Next]_vars

-----------------------------------------------------------------------------
(* Properties                                                              *)

Holds(g) == g \in cgdir \cup veth \cup ports
Owed(g) == store.cg = g \/ store.net = g

\* A payload that was let go and has not exited is the running generation of
\* the record: no stop, restart or deletion is ever recorded over a live one,
\* and two generations never run at once.
LivePayloadIsRecorded == \A g \in alive \cap released : RunningAs(store, g)

\* The stopped identity that authorises teardown is a dead process, blocked
\* children included: observers finalize only what they saw exit.
StopIsDeath ==
  store.rec.status = "stopped" => TeardownIdentity(store) \notin alive

\* Every host resource has its durable token, whoever crashed where: the token
\* is written before the resource exists and cleared after it is gone, so that a
\* deleted record leaves nothing on the host.  The exception are generations
\* whose child died under a parent that still set it up: an observer may
\* finalize them, tokens included, before the parent makes the resource.
NoOrphanHostResource ==
  cgdir \ early \subseteq {store.cg} /\ (veth \cup ports) \ early \subseteq {store.net}

\* What applyCgroupWithDurableOwnership promises: it "closes the crash window
\* between host cgroup mutation and persistence of the generation-scoped cleanup
\* token", so the cgroup of a parent that is gone has its token.
CrashWindowClosed == \A g \in cgdir : pc[g] = "gone" => store.cg = g

\* The host never holds resources of two generations, but for those of children
\* that died early: MarkRunning refuses a record with pending cleanup, so the next
\* generation starts on a clean host.
OneGenerationOnHost == Cardinality((cgdir \cup veth \cup ports) \ early) <= 1

\* A parent that returns without an error, hence may be restarted by policy,
\* has left neither resource nor token of its generation behind, whatever
\* observers cleaned concurrently.
CleanReturn ==
  \A g \in Gens : pc[g] = "P.end" /\ ~loc[g].err => ~Holds(g) /\ ~Owed(g)

\* Nobody removes a resource of a payload that is still running.
PayloadKeepsResources ==
  [][LET live == alive \cap released
     IN /\ cgdir \cap live \subseteq cgdir' /\ veth \cap live \subseteq veth'
        /\ ports \cap live \subseteq ports' /\ dns \cap live \subseteq dns']_vars

\* Crashes, write errors and failed removals notwithstanding, once the parent
\* is gone repeated reconciliation ends with the tokens cleared and the host
\* clean, but for what a parent made for a child that had died early.
EventuallyClean ==
  \A g \in Gens : pc[g] = "gone" ~> (Holds(g) => g \in early) /\ ~Owed(g)

\* A parent that returns the payload's result has closed its start event with
\* die: "every generation must therefore complete its own start/die pair before
\* the next start can be committed" (lifecycle_staging.go).
StartHasDie ==
  \A g \in started : pc[g] = "P.end" /\ ~loc[g].err => g \in died

\* The host follows the record: what runs is what the record says runs, what is
\* there for it belongs to one generation, and who returns leaves it clean
\* (MarkRunning and the finalizers of generation_finalize.go).
HostFollowsRecord ==
  TypeOK /\ LivePayloadIsRecorded /\ OneGenerationOnHost /\ CleanReturn
=============================================================================
