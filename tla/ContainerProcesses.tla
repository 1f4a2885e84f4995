------------------------- MODULE ContainerProcesses -------------------------
(* The processes of one running container generation: the init supervisor   *)
(* (PID 1 of the namespace), the payload tree it reaps and drains, and one  *)
(* `minictl exec` session: the command, its namespace-entering helper and   *)
(* the exec payload.  The host PID of the init can be freed and taken by an *)
(* unrelated process while an exec session is on its way.                   *)
(* Names start with Cp or name one role, so that a module can extend this   *)
(* one beside other components.                                             *)
EXTENDS Naturals, Sequences, FiniteSets

CONSTANTS Payload, ExecPayload,  \* the two group leaders
          Descendants,           \* processes they may fork
          CpScenes,              \* records [forks, exec]: the descendants there can
                                 \* be, and whether somebody runs exec
          MaxCpFaults            \* failing calls and kills of the helper

Members == {Payload, ExecPayload} \cup Descendants

ASSUME ProcessesAssumption ==
  /\ CpScenes \subseteq [forks: SUBSET Descendants, exec: BOOLEAN]
  /\ Payload # ExecPayload /\ {Payload, ExecPayload} \cap Descendants = {}
  /\ {"init", "helper", "host"} \cap Members = {}

VARIABLES
  cpProc,    \* member -> [st, parent, grp]
  cpDoomed,  \* members with a SIGKILL pending
  cpInit,    \* supervisor: [pc, listed, fwdErr]
  cpPid,     \* who holds the generation's host PID: "init", "free", "other"
  cpRec,     \* the durable record: "running" or "stopped"
  cpCg,      \* managed cgroup and its ownership token: [token, dir, helper]
  cpCli,     \* the exec command: [pc, proven]
  cpHlp,     \* its helper: [pc, ns, admitted, early, err, code]
  cpIntent,  \* the staged exec event: "none", "staged", "active"
  cpPipe,    \* payload-start pipe: "open", "byte", "eof"
  cpLog,     \* exec events appended, <<type, code>>
  cpExit,    \* exit code of the exec payload (history)
  cpFaults   \* [calls, appends, kills] injected so far

cpTree == <<cpProc, cpDoomed>>
cpHost == <<cpPid, cpRec>>
cpExec == <<cpCli, cpHlp, cpIntent, cpPipe, cpLog>>
cpVars == <<cpProc, cpDoomed, cpInit, cpPid, cpRec, cpCg, cpCli, cpHlp,
            cpIntent, cpPipe, cpLog, cpExit, cpFaults>>

Alive(m) == cpProc[m].st = "alive"
Present(m) == cpProc[m].st \in {"alive", "zombie"}
InitLives == cpInit.pc # "exited"
Signalled == 137
FaultCount == cpFaults.calls + cpFaults.appends + cpFaults.kills
CpFault(kind) ==
  /\ FaultCount < MaxCpFaults
  /\ cpFaults' = [cpFaults EXCEPT ![kind] = @ + 1]

CpTypeOK ==
  /\ cpProc \in [Members -> [st: {"unborn", "alive", "zombie", "gone"},
                             parent: Members \cup {"init", "helper", "host"},
                             grp: {"payload", "exec", "own"}]]
  /\ cpDoomed \subseteq Members
  /\ cpInit \in [pc: {"prepared", "wait", "killGroup", "list", "killListed",
                      "drain", "exited"},
                 listed: SUBSET Members, fwdErr: BOOLEAN]
  /\ cpPid \in {"init", "free", "other"} /\ cpRec \in {"running", "stopped"}
  /\ cpCg \in [token: {"none", "reserved", "applied", "cleared"},
               dir: BOOLEAN, helper: BOOLEAN]
  /\ cpCli \in [pc: {"idle", "bind", "spawn", "await", "wait", "done"},
                proven: BOOLEAN]
  /\ cpHlp \in [pc: {"none", "policy", "attach", "open", "captureRoot", "captureNs",
                     "recheck", "enter", "aliveCheck", "start", "proof",
                     "observe", "killGroup", "reap", "exited"},
                ns: SUBSET {"container", "other"}, admitted: BOOLEAN,
                early: BOOLEAN, err: BOOLEAN, code: {0, 1, 255}]
  /\ cpIntent \in {"none", "staged", "active"}
  /\ cpPipe \in {"open", "byte", "eof"}
  /\ cpLog \in Seq({"exec", "exec_exit", "exec_failed"} \X {0, 1, 255})
  /\ cpExit \in {0, 3, Signalled}

CpInit == \E scene \in CpScenes :
  /\ cpProc = [m \in Members |-> [st |-> IF m \in Descendants \ scene.forks THEN "gone" ELSE "unborn",
                                  parent |-> "init", grp |-> "own"]]
  /\ cpDoomed = {}
  /\ cpInit = [pc |-> "prepared", listed |-> {}, fwdErr |-> FALSE]
  /\ cpPid = "init" /\ cpRec = "running"
  /\ cpCg = [token |-> "none", dir |-> FALSE, helper |-> FALSE]
  /\ cpCli = [pc |-> IF scene.exec THEN "idle" ELSE "done", proven |-> FALSE]
  /\ cpHlp = [pc |-> "none", ns |-> {}, admitted |-> FALSE, early |-> FALSE,
              err |-> FALSE, code |-> 0]
  /\ cpIntent = "none" /\ cpPipe = "open" /\ cpLog = <<>> /\ cpExit = 0
  /\ cpFaults = [calls |-> 0, appends |-> 0, kills |-> 0]

-----------------------------------------------------------------------------
(* The kernel and the programs inside the container.                        *)

\* A dead process's children go to the namespace's init.
Dies(procs, m) ==
  [k \in Members |->
     IF k = m THEN [procs[k] EXCEPT !.st = "zombie"]
     ELSE IF procs[k].parent = m THEN [procs[k] EXCEPT !.parent = "init"]
     ELSE procs[k]]

\* Descendants are interchangeable: the next one born is the first unborn.
ForkChild(p) ==
  LET unborn == {d \in Descendants : cpProc[d].st = "unborn"}
      d == CHOOSE d \in unborn : TRUE IN
  /\ Alive(p) /\ p \notin cpDoomed /\ unborn # {}
  /\ cpProc' = [cpProc EXCEPT ![d] = [st |-> "alive", parent |-> p,
                                      grp |-> cpProc[p].grp]]
  /\ UNCHANGED <<cpDoomed, cpInit, cpHost, cpCg, cpExec, cpExit, cpFaults>>

\* setsid or setpgid takes a descendant out of the payload's group.
EscapeGroup(d) ==
  /\ Alive(d) /\ d \notin cpDoomed /\ cpProc[d].grp # "own"
  /\ cpProc' = [cpProc EXCEPT ![d].grp = "own"]
  /\ UNCHANGED <<cpDoomed, cpInit, cpHost, cpCg, cpExec, cpExit, cpFaults>>

MemberExits(m) ==
  /\ Alive(m)
  /\ cpProc' = Dies(cpProc, m)
  /\ cpExit' \in IF m # ExecPayload THEN {cpExit}
                 ELSE IF m \in cpDoomed THEN {Signalled} ELSE {0, 3}
  /\ UNCHANGED <<cpDoomed, cpInit, cpHost, cpCg, cpExec, cpFaults>>

DoomedExits == \E m \in cpDoomed : MemberExits(m)

\* A live parent in the container, or the host's init, reaps a zombie.
ParentReapsMember(m) ==
  /\ cpProc[m].st = "zombie"
  /\ cpProc[m].parent = "host"
     \/ (cpProc[m].parent \in Members /\ Alive(cpProc[m].parent))
  /\ cpProc' = [cpProc EXCEPT ![m].st = "gone"]
  /\ UNCHANGED <<cpDoomed, cpInit, cpHost, cpCg, cpExec, cpExit, cpFaults>>

\* PID 1 exits: every process of its namespace is killed with it; only a
\* child of the helper, which is outside, is still there to be waited for.
Collapsed(procs) ==
  [m \in Members |->
     IF procs[m].st \notin {"alive", "zombie"} THEN procs[m]
     ELSE [procs[m] EXCEPT !.st = IF procs[m].parent = "helper" THEN "zombie"
                                  ELSE "gone"]]

CollapsedExit == IF Alive(ExecPayload) THEN Signalled ELSE cpExit

-----------------------------------------------------------------------------
(* The init supervisor.                                                     *)

InitReturns ==
  /\ cpInit' = [cpInit EXCEPT !.pc = "exited"]
  /\ cpProc' = Collapsed(cpProc)
  /\ cpExit' = CollapsedExit

\* Only after the runtime has applied the cgroup is the blocked child released.
ForkPayload ==
  /\ cpInit.pc = "prepared" /\ cpCg.token = "applied"
  /\ \/ /\ cpProc' = [cpProc EXCEPT ![Payload] = [st |-> "alive", parent |-> "init",
                                                  grp |-> "payload"]]
        /\ cpInit' = [cpInit EXCEPT !.pc = "wait"]
        /\ UNCHANGED <<cpExit, cpFaults>>
     \/ CpFault("calls") /\ InitReturns
  /\ UNCHANGED <<cpDoomed, cpHost, cpCg, cpExec>>

\* A signal for the init is relayed to the payload's group; its default
\* action ends the group, or the relay fails and the error is kept.
ForwardSignal ==
  /\ cpInit.pc = "wait"
  /\ \/ /\ cpDoomed' = cpDoomed \cup {m \in Members : Alive(m) /\ cpProc[m].grp = "payload"}
        /\ UNCHANGED <<cpInit, cpFaults>>
     \/ /\ CpFault("calls") /\ ~cpInit.fwdErr
        /\ cpInit' = [cpInit EXCEPT !.fwdErr = TRUE]
        /\ UNCHANGED cpDoomed
  /\ UNCHANGED <<cpProc, cpHost, cpCg, cpExec, cpExit>>

\* Wait4(-1): whichever child is dead.
InitReapsChild ==
  /\ cpInit.pc \in {"wait", "drain"}
  /\ \E m \in Members :
       /\ cpProc[m].st = "zombie" /\ cpProc[m].parent = "init"
       /\ IF m = Payload /\ cpInit.fwdErr
          THEN /\ cpInit' = [cpInit EXCEPT !.pc = "exited"]
               /\ cpProc' = Collapsed([cpProc EXCEPT ![m].st = "gone"])
               /\ cpExit' = CollapsedExit
          ELSE /\ cpProc' = [cpProc EXCEPT ![m].st = "gone"]
               /\ cpInit' = IF m = Payload THEN [cpInit EXCEPT !.pc = "killGroup"]
                            ELSE cpInit
               /\ cpExit' = cpExit
  /\ UNCHANGED <<cpDoomed, cpHost, cpCg, cpExec, cpFaults>>

KillPayloadGroup ==
  /\ cpInit.pc = "killGroup"
  /\ cpDoomed' = cpDoomed \cup {m \in Members : Alive(m) /\ cpProc[m].grp = "payload"}
  /\ cpInit' = [cpInit EXCEPT !.pc = "list"]
  /\ UNCHANGED <<cpProc, cpHost, cpCg, cpExec, cpExit, cpFaults>>

\* The children file is read once.
ListChildren ==
  /\ cpInit.pc = "list"
  /\ cpInit' = [cpInit EXCEPT !.pc = "killListed",
                  !.listed = {m \in Members : Present(m) /\ cpProc[m].parent = "init"}]
  /\ UNCHANGED <<cpTree, cpHost, cpCg, cpExec, cpExit, cpFaults>>

\* Mutant: the listed children are waited for and not killed.
KillNone ==
  /\ cpInit.pc = "killListed" /\ cpInit' = [cpInit EXCEPT !.pc = "drain"]
  /\ UNCHANGED <<cpTree, cpHost, cpCg, cpExec, cpExit, cpFaults>>

KillListed ==
  /\ cpInit.pc = "killListed"
  /\ cpDoomed' = cpDoomed \cup {m \in cpInit.listed : Alive(m)}
  /\ cpInit' = [cpInit EXCEPT !.pc = "drain"]
  /\ UNCHANGED <<cpProc, cpHost, cpCg, cpExec, cpExit, cpFaults>>

\* Wait4 answers ECHILD: nothing is left to reap.
DrainDone ==
  /\ cpInit.pc = "drain"
  /\ ~\E m \in Members : Present(m) /\ cpProc[m].parent = "init"
  /\ InitReturns
  /\ UNCHANGED <<cpDoomed, cpHost, cpCg, cpExec, cpFaults>>

\* A kill, the listing or a wait fails: the error ends the supervisor.
DrainFails ==
  /\ cpInit.pc \in {"killGroup", "list", "killListed", "drain"}
  /\ CpFault("calls") /\ InitReturns
  /\ UNCHANGED <<cpDoomed, cpHost, cpCg, cpExec>>

-----------------------------------------------------------------------------
(* The runtime parent of the generation.                                    *)

\* applyCgroupWithDurableOwnership: the record says running already.
RuntimeOwnsCgroup ==
  /\ cpCg.token = "none"
  /\ cpCg' = [cpCg EXCEPT !.token = "reserved"]
  /\ UNCHANGED <<cpTree, cpInit, cpHost, cpExec, cpExit, cpFaults>>

\* A failed Apply leaves the token; without limits the run goes on.
RuntimeAppliesCgroup ==
  /\ cpCg.token = "reserved"
  /\ \/ cpCg' = [cpCg EXCEPT !.token = "applied", !.dir = TRUE] /\ UNCHANGED cpFaults
     \/ cpCg' = [cpCg EXCEPT !.token = "applied"] /\ CpFault("calls")
  /\ UNCHANGED <<cpTree, cpInit, cpHost, cpExec, cpExit>>

\* The kernel makes init waitable once its namespace is empty.
RuntimeReapsInit ==
  /\ cpInit.pc = "exited" /\ cpPid = "init" /\ ~\E m \in Members : Present(m)
  /\ cpPid' = "free"
  /\ UNCHANGED <<cpTree, cpInit, cpRec, cpCg, cpExec, cpExit, cpFaults>>

\* Mutant: the stop is recorded when the payload is gone.
StopsWithPayload ==
  /\ cpProc[Payload].st = "gone" /\ cpRec = "running" /\ cpRec' = "stopped"
  /\ UNCHANGED <<cpTree, cpInit, cpPid, cpCg, cpExec, cpExit, cpFaults>>

RuntimeStopsRecord ==
  /\ cpPid # "init" /\ cpRec = "running"
  /\ cpRec' = "stopped"
  /\ UNCHANGED <<cpTree, cpInit, cpPid, cpCg, cpExec, cpExit, cpFaults>>

\* rmdir: refused with EBUSY while a process is in the cgroup, retried later.
RuntimeRemovesCgroup ==
  /\ cpRec = "stopped" /\ cpCg.dir /\ ~cpCg.helper
  /\ cpCg' = [cpCg EXCEPT !.dir = FALSE]
  /\ UNCHANGED <<cpTree, cpInit, cpHost, cpExec, cpExit, cpFaults>>

RuntimeClearsToken ==
  /\ cpRec = "stopped" /\ ~cpCg.dir /\ cpCg.token = "applied"
  /\ cpCg' = [cpCg EXCEPT !.token = "cleared"]
  /\ UNCHANGED <<cpTree, cpInit, cpHost, cpExec, cpExit, cpFaults>>

HostReusesPid ==
  /\ cpPid = "free"
  /\ cpPid' = "other"
  /\ UNCHANGED <<cpTree, cpInit, cpRec, cpCg, cpExec, cpExit, cpFaults>>

-----------------------------------------------------------------------------
(* The exec command.                                                        *)

\* Appends one event, or fails to.
Appended(event) ==
  \/ cpLog' = Append(cpLog, event) /\ UNCHANGED cpFaults
  \/ cpLog' = cpLog /\ CpFault("appends")

\* cmdExec: reconcile, refuse a dead container, stage the event.
CliResolve ==
  /\ cpCli.pc = "idle"
  /\ IF cpRec = "running" /\ cpPid = "init" /\ InitLives
     THEN cpIntent' = "staged" /\ cpCli' = [cpCli EXCEPT !.pc = "bind"]
     ELSE cpCli' = [cpCli EXCEPT !.pc = "done"] /\ UNCHANGED cpIntent
  /\ UNCHANGED <<cpTree, cpInit, cpHost, cpCg, cpHlp, cpPipe, cpLog, cpExit, cpFaults>>

\* The record must still be running and its PID have the recorded start time.
CliBind ==
  /\ cpCli.pc = "bind"
  /\ cpCli' = [cpCli EXCEPT !.pc = IF cpRec = "running" /\ cpPid = "init"
                                   THEN "spawn" ELSE "done"]
  /\ UNCHANGED <<cpTree, cpInit, cpHost, cpCg, cpHlp, cpIntent, cpPipe, cpLog,
                 cpExit, cpFaults>>

FailPendingExec(log) == cpIntent' = "none" /\ cpLog' = log

CliSpawnHelper ==
  /\ cpCli.pc = "spawn"
  /\ \/ /\ cpCli' = [cpCli EXCEPT !.pc = "await"]
        /\ cpHlp' = [cpHlp EXCEPT !.pc = "policy"]
        /\ UNCHANGED <<cpIntent, cpLog, cpFaults>>
     \/ /\ CpFault("calls")
        /\ cpCli' = [cpCli EXCEPT !.pc = "done"]
        /\ FailPendingExec(Append(cpLog, <<"exec_failed", 1>>))
        /\ UNCHANGED cpHlp
  /\ UNCHANGED <<cpTree, cpInit, cpHost, cpCg, cpPipe, cpExit>>

\* Mutant: the end of the pipe counts as the proof byte.
CliAwaitAnything ==
  /\ cpCli.pc = "await" /\ cpPipe # "open"
  /\ cpCli' = [pc |-> "wait", proven |-> TRUE]
  /\ Appended(<<"exec", 0>>)
  /\ cpIntent' = IF cpLog' # cpLog THEN "active" ELSE "staged"
  /\ UNCHANGED <<cpTree, cpInit, cpHost, cpCg, cpHlp, cpPipe, cpExit>>

\* The proof byte commits the staged event; an append failure is ignored and
\* leaves the intent staged.
CliAwaitStarted ==
  /\ cpCli.pc = "await" /\ cpPipe # "open"
  /\ cpCli' = [pc |-> "wait", proven |-> cpPipe = "byte"]
  /\ IF cpPipe = "byte"
     THEN /\ Appended(<<"exec", 0>>)
          /\ cpIntent' = IF cpLog' # cpLog THEN "active" ELSE "staged"
     ELSE UNCHANGED <<cpIntent, cpLog, cpFaults>>
  /\ UNCHANGED <<cpTree, cpInit, cpHost, cpCg, cpHlp, cpPipe, cpExit>>

\* Mutant: only a failed start gets a terminal event.
CliForgetsExit ==
  /\ cpCli.pc = "wait" /\ cpHlp.pc = "exited"
  /\ cpCli' = [cpCli EXCEPT !.pc = "done"] /\ cpIntent' = "none"
  /\ IF cpCli.proven THEN UNCHANGED <<cpLog, cpFaults>>
     ELSE Appended(<<"exec_failed", cpHlp.code>>)
  /\ UNCHANGED <<cpTree, cpInit, cpHost, cpCg, cpHlp, cpPipe, cpExit>>

\* cmd.Wait, then the terminal event of the proven or the failed start.
CliWaitHelper ==
  /\ cpCli.pc = "wait" /\ cpHlp.pc = "exited"
  /\ cpCli' = [cpCli EXCEPT !.pc = "done"]
  /\ \/ /\ ~cpCli.proven /\ Appended(<<"exec_failed", cpHlp.code>>)
        /\ cpIntent' = "none"
     \/ /\ cpCli.proven /\ cpIntent = "active"
        /\ Appended(<<"exec_exit", cpHlp.code>>)
        /\ cpIntent' = "none"
     \/ /\ cpCli.proven /\ cpIntent = "staged"
        /\ UNCHANGED <<cpIntent, cpLog, cpFaults>>
  /\ UNCHANGED <<cpTree, cpInit, cpHost, cpCg, cpHlp, cpPipe, cpExit>>

-----------------------------------------------------------------------------
(* The exec helper.                                                         *)

\* Mutant: the command keeps its own copy of the pipe's write end open.
HelperExitsUnseen(code) ==
  /\ cpHlp' = [cpHlp EXCEPT !.pc = "exited", !.code = code]
  /\ cpCg' = [cpCg EXCEPT !.helper = FALSE] /\ UNCHANGED cpPipe

\* The helper's exit closes its end of the pipe and leaves the cgroup.
HelperExits(code) ==
  /\ cpHlp' = [cpHlp EXCEPT !.pc = "exited", !.code = code]
  /\ cpPipe' = IF cpPipe = "open" THEN "eof" ELSE cpPipe
  /\ cpCg' = [cpCg EXCEPT !.helper = FALSE]

HelperGoes(next) == cpHlp' = [cpHlp EXCEPT !.pc = next] /\ UNCHANGED <<cpPipe, cpCg>>

\* Mutant: a check that fails is only a warning.
HelperWarns(pc, holds, next) ==
  /\ cpHlp.pc = pc /\ HelperGoes(next)
  /\ UNCHANGED <<cpTree, cpInit, cpHost, cpCli, cpIntent, cpLog, cpExit, cpFaults>>

\* A check that ends the helper with an error when it does not hold.
HelperChecks(pc, holds, next) ==
  /\ cpHlp.pc = pc
  /\ IF holds THEN HelperGoes(next) ELSE HelperExits(1)
  /\ UNCHANGED <<cpTree, cpInit, cpHost, cpCli, cpIntent, cpLog, cpExit, cpFaults>>

\* Capability, no_new_privs and seccomp policy from the record, and the
\* record that names the cgroup to join.
HelperPolicy == HelperChecks("policy", cpRec = "running", "attach")

\* Without a token the helper goes on and is in no cgroup; a token whose cgroup
\* cannot be joined ends it.
HelperAttach ==
  /\ cpHlp.pc = "attach"
  /\ \/ /\ cpCg.token \in {"none", "cleared"}
        /\ cpHlp' = [cpHlp EXCEPT !.pc = "open", !.early = cpCg.token = "none"]
        /\ UNCHANGED <<cpCg, cpPipe>>
     \/ /\ cpCg.token \notin {"none", "cleared"} /\ cpCg.dir
        /\ cpHlp' = [cpHlp EXCEPT !.pc = "open", !.admitted = TRUE]
        /\ cpCg' = [cpCg EXCEPT !.helper = TRUE]
        /\ UNCHANGED cpPipe
     \/ cpCg.token \notin {"none", "cleared"} /\ ~cpCg.dir /\ HelperExits(1)
  /\ UNCHANGED <<cpTree, cpInit, cpHost, cpCli, cpIntent, cpLog, cpExit, cpFaults>>

\* pidfd_open, the start time, and the process still alive.
HelperOpen == HelperChecks("open", cpPid = "init" /\ InitLives, "captureRoot")

\* Root and namespaces are opened through /proc/<number>: whoever has it now.
HelperCapture ==
  /\ cpHlp.pc \in {"captureRoot", "captureNs"}
  /\ IF cpPid = "other" \/ (cpPid = "init" /\ InitLives)
     THEN /\ cpHlp' = [cpHlp EXCEPT
                !.pc = IF @ = "captureRoot" THEN "captureNs" ELSE "recheck",
                !.ns = @ \cup {IF cpPid = "init" THEN "container" ELSE "other"}]
          /\ UNCHANGED <<cpPipe, cpCg>>
     ELSE HelperExits(1)
  /\ UNCHANGED <<cpTree, cpInit, cpHost, cpCli, cpIntent, cpLog, cpExit, cpFaults>>

\* Start time of the number and liveness of the pidfd after the capture.
HelperRecheck == HelperChecks("recheck", cpPid = "init" /\ InitLives, "enter")

HelperEnter ==
  /\ cpHlp.pc = "enter"
  /\ \/ HelperGoes("aliveCheck") /\ UNCHANGED cpFaults
     \/ CpFault("calls") /\ HelperExits(1)
  /\ UNCHANGED <<cpTree, cpInit, cpHost, cpCli, cpIntent, cpLog, cpExit>>

HelperAliveCheck == HelperChecks("aliveCheck", cpPid = "init" /\ InitLives, "start")

\* The payload is forked into the namespace; a dead namespace refuses it.
HelperStart ==
  /\ cpHlp.pc = "start"
  /\ IF InitLives \/ "other" \in cpHlp.ns
     THEN /\ cpProc' = [cpProc EXCEPT ![ExecPayload] =
                          [st |-> "alive", parent |-> "helper", grp |-> "exec"]]
          /\ HelperGoes("proof")
     ELSE HelperExits(1) /\ UNCHANGED cpProc
  /\ UNCHANGED <<cpDoomed, cpInit, cpHost, cpCli, cpIntent, cpLog, cpExit, cpFaults>>

HelperProof ==
  /\ cpHlp.pc = "proof"
  /\ cpPipe' = "byte"
  /\ cpHlp' = [cpHlp EXCEPT !.pc = "observe"]
  /\ UNCHANGED <<cpTree, cpInit, cpHost, cpCg, cpCli, cpIntent, cpLog, cpExit, cpFaults>>

ExecGroup == {m \in Members : Alive(m) /\ cpProc[m].grp = "exec"}

\* A call of the helper's loop fails: the error is joined into its result.
HelperErrs(next) ==
  /\ CpFault("calls")
  /\ cpHlp' = [cpHlp EXCEPT !.pc = next, !.err = TRUE]
  /\ UNCHANGED <<cpDoomed, cpPipe, cpCg>>

\* A signal for the helper is relayed to the exec's group, or cannot be.
HelperForward ==
  /\ cpHlp.pc = "observe"
  /\ \/ /\ cpDoomed' = cpDoomed \cup ExecGroup
        /\ UNCHANGED <<cpHlp, cpPipe, cpCg, cpFaults>>
     \/ HelperErrs("observe")
  /\ UNCHANGED <<cpProc, cpInit, cpHost, cpCli, cpIntent, cpLog, cpExit>>

\* Waitid with WNOWAIT: the leader is dead and stays a zombie.  When it fails
\* the helper goes to cmd.Wait and never kills the group.
HelperObserve ==
  /\ cpHlp.pc = "observe"
  /\ \/ /\ cpProc[ExecPayload].st = "zombie" /\ HelperGoes("killGroup")
        /\ UNCHANGED <<cpDoomed, cpFaults>>
     \/ HelperErrs("reap")
  /\ UNCHANGED <<cpProc, cpInit, cpHost, cpCli, cpIntent, cpLog, cpExit>>

HelperKillGroup ==
  /\ cpHlp.pc = "killGroup"
  /\ \/ /\ cpDoomed' = cpDoomed \cup ExecGroup /\ HelperGoes("reap")
        /\ UNCHANGED cpFaults
     \/ HelperErrs("reap")
  /\ UNCHANGED <<cpProc, cpInit, cpHost, cpCli, cpIntent, cpLog, cpExit>>

\* Mutant: the raw wait status is passed on.
HelperReapRaw ==
  /\ cpHlp.pc = "reap" /\ cpProc[ExecPayload].st = "zombie"
  /\ cpProc' = [cpProc EXCEPT ![ExecPayload].st = "gone"] /\ HelperExits(cpExit * 256)
  /\ UNCHANGED <<cpDoomed, cpInit, cpHost, cpCli, cpIntent, cpLog, cpExit, cpFaults>>

\* Mutant: the payload's status is not looked at.
HelperReapBlind ==
  /\ cpHlp.pc = "reap" /\ cpProc[ExecPayload].st = "zombie"
  /\ cpProc' = [cpProc EXCEPT ![ExecPayload].st = "gone"] /\ HelperExits(0)
  /\ UNCHANGED <<cpDoomed, cpInit, cpHost, cpCli, cpIntent, cpLog, cpExit, cpFaults>>

\* errors.Join wraps a non-zero status, so ExecInit's type assertion fails
\* and the helper exits with 1 whatever the payload's code was; an error it has
\* kept makes that 1 of a payload's 0 too.
HelperReap ==
  /\ cpHlp.pc = "reap" /\ cpProc[ExecPayload].st = "zombie"
  /\ cpProc' = [cpProc EXCEPT ![ExecPayload].st = "gone"]
  /\ HelperExits(IF cpExit = 0 /\ ~cpHlp.err THEN 0 ELSE 1)
  /\ UNCHANGED <<cpDoomed, cpInit, cpHost, cpCli, cpIntent, cpLog, cpExit, cpFaults>>

\* The helper is killed: the payload it had is left to the host's init.
HelperKilled ==
  /\ cpHlp.pc \notin {"none", "exited"}
  /\ CpFault("kills")
  /\ HelperExits(255)
  /\ cpProc' = IF cpProc[ExecPayload].parent = "helper"
               THEN [cpProc EXCEPT ![ExecPayload].parent = "host"] ELSE cpProc
  /\ UNCHANGED <<cpDoomed, cpInit, cpHost, cpCli, cpIntent, cpLog, cpExit>>

-----------------------------------------------------------------------------
CpSupervisor ==
  \/ ForkPayload \/ InitReapsChild \/ KillPayloadGroup \/ ListChildren
  \/ KillListed \/ DrainDone
CpCliStep ==
  CliResolve \/ CliBind \/ CliSpawnHelper \/ CliAwaitStarted \/ CliWaitHelper
CpHelperStep ==
  \/ HelperPolicy \/ HelperAttach \/ HelperOpen \/ HelperCapture \/ HelperRecheck
  \/ HelperEnter \/ HelperAliveCheck \/ HelperStart \/ HelperProof \/ HelperObserve
  \/ HelperKillGroup \/ HelperReap
CpKernel ==
  \/ \E p \in Members : ForkChild(p)
  \/ \E d \in Descendants : EscapeGroup(d)
  \/ \E m \in Members : MemberExits(m) \/ ParentReapsMember(m)
  \/ HostReusesPid
CpRuntime ==
  \/ RuntimeOwnsCgroup \/ RuntimeAppliesCgroup \/ RuntimeReapsInit
  \/ RuntimeStopsRecord \/ RuntimeRemovesCgroup \/ RuntimeClearsToken

CpNext ==
  CpSupervisor \/ ForwardSignal \/ DrainFails \/ CpCliStep \/ CpHelperStep
  \/ HelperForward \/ HelperKilled \/ CpKernel \/ CpRuntime

CpSpec == CpInit /\ [][CpNext]_cpVars

-----------------------------------------------------------------------------
ExecStarted == cpProc[ExecPayload].st # "unborn"
Logged(type) == \E i \in DOMAIN cpLog : cpLog[i][1] = type

(* openExecTargets and AttachExisting: an exec payload only ever runs in    *)
(* the root and namespaces of the generation whose start time was recorded, *)
(* although every capture goes through a PID number another process may     *)
(* have taken; and inside its cgroup, unless the helper looked for the      *)
(* ownership token before the runtime had written it.  A token that was     *)
(* cleared again never lets an exec run outside of the cgroup.              *)
ExecEntersItsGeneration ==
  ExecStarted => cpHlp.ns = {"container"} /\ (cpHlp.admitted \/ cpHlp.early)

(* runExecInitCommand: an exec event means that the payload ran, and unless *)
(* the helper was killed an exec_failed event means that it did not.        *)
ExecEventTruth ==
  /\ Logged("exec") => ExecStarted
  /\ Logged("exec_failed") /\ cpFaults.kills = 0 => ~ExecStarted

(* "A proven start receives exactly one terminal outcome": once the command *)
(* is done the log holds the start and one exit after it, in this order,    *)
(* unless an append failed; no exec ever has two terminal events.           *)
ExecOutcomeRecorded ==
  /\ Cardinality({i \in DOMAIN cpLog : cpLog[i][1] # "exec"}) <= 1
  /\ cpCli.pc = "done" /\ cpCli.proven /\ cpFaults.appends = 0 =>
       /\ Len(cpLog) = 2
       /\ cpLog[1][1] = "exec" /\ cpLog[2][1] = "exec_exit"

(* The exit a command reports: success only when the payload itself exited  *)
(* with 0, also when the namespace collapsed under it; and a payload's 0 is *)
(* reported as success unless the helper was killed or one of the calls of  *)
(* runExecPayloadWithStartSignal (relay, observation, kill of the group)    *)
(* failed, whose error it joins into its result.                            *)
ExecSuccessIsPayloadSuccess ==
  \A i \in DOMAIN cpLog : cpLog[i][1] = "exec_exit" =>
    /\ cpLog[i][2] = 0 => cpExit = 0
    /\ cpExit = 0 => cpLog[i][2] = 0 \/ cpHlp.err \/ cpFaults.kills > 0

(* The stop of a generation is recorded after its last process: nothing of  *)
(* the container, exec payloads included, is alive in a stopped record.     *)
StoppedMeansNoProcess ==
  cpRec = "stopped" => ~\E m \in Members : Alive(m)

(* drainInitSupervisorProcessGroup: the drain ends, unless a process that   *)
(* was not yet a child of init when the children were listed is alive: the  *)
(* comment that adoption has made every survivor a direct child by then     *)
(* does not hold for a process whose killed parent has not died yet.        *)
DrainEndsUnlessLateAdoption ==
  cpInit.pc = "drain" ~>
    \/ cpInit.pc = "exited"
    \/ \E d \in Descendants : Alive(d) /\ d \notin cpInit.listed \cup cpDoomed

(* Once the exec payload is dead the command returns, whether the helper    *)
(* reaps it, is killed, or the container collapses first.                   *)
ExecCommandReturns ==
  (ExecStarted /\ ~Alive(ExecPayload)) ~> cpCli.pc = "done"

(* The processes of a container are what its record and its log say: exec   *)
(* enters the generation that was asked for, its events and its exit code   *)
(* are those of its run, and a stopped record has no process.               *)
ProcessesAreAsRecorded ==
  /\ CpTypeOK /\ ExecEntersItsGeneration /\ ExecEventTruth /\ ExecOutcomeRecorded
  /\ ExecSuccessIsPayloadSuccess /\ StoppedMeansNoProcess

(* Nobody waits for ever for the processes of a container: neither the      *)
(* drain of init nor the exec command.                                      *)
ProcessesEnd == DrainEndsUnlessLateAdoption /\ ExecCommandReturns
=============================================================================
