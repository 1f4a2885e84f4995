--------------------------- MODULE CgroupControl ---------------------------
(* The managed cgroup of a container across its generations: Apply with its *)
(* v1 and v2 hierarchies, `minictl update` (a transaction over several      *)
(* controller files and the durable restart spec), pause and unpause, and   *)
(* the removal of the directory.  The state lock serialises updates; Apply  *)
(* and the freezer do not take it.                                          *)
EXTENDS Naturals, Sequences

CONSTANTS CgClients, NoHolder,
          MaxGen,       \* generations of the container
          MaxPolls,     \* acknowledgement polls before a freeze times out
          MaxCgFaults

ASSUME CgAssumption == NoHolder \notin CgClients /\ MaxGen \in Nat /\ MaxPolls \in Nat \ {0}

\* The first and the last of the controller files, which stand for the others.
Files == {"memory", "pids"}
UpdateOrder == <<"memory", "pids">>
Plans == {<<"memory">>, <<"pids">>, UpdateOrder}    \* what an update may set
NoLimit == "max"                        \* what the kernel gives a new cgroup
ASSUME NoLimitAssumption == NoLimit \notin CgClients
Values == {"run"} \cup CgClients        \* the limit of the first run, of an update

VARIABLES
  cgV2,      \* unified hierarchy, or one hierarchy per controller
  cgRt,      \* runtime parent: [pc, i, gen, live, cfg]
  cgRec,     \* running generation of the record, 0 when stopped
  cgDirs,    \* hierarchies in which the generation's directory exists
  cgIn,      \* hierarchies in which its process is inside that directory
  cgLim,     \* file -> value
  cgFreezer, \* [req, frozen]: cgroup.freeze and cgroup.events
  cgSpec,    \* limits of the durable restart spec
  cgLock,    \* holder of the state lock
  cgCl,      \* clients
  cgTold,    \* file -> value of the last update reported as done (history)
  cgExcuse,  \* what has separated limits and spec so far (history)
  cgFaults

cgHost == <<cgDirs, cgIn, cgLim, cgFreezer>>
cgVars == <<cgV2, cgRt, cgRec, cgHost, cgSpec, cgLock, cgCl, cgTold, cgExcuse, cgFaults>>

Hier(f) == IF cgV2 THEN "unified" ELSE f
Hierarchies == {Hier(f) : f \in Files}
ApplyOrder == IF cgV2 THEN <<"unified">> ELSE UpdateOrder
CgFault == cgFaults < MaxCgFaults /\ cgFaults' = cgFaults + 1

IdleClient == [pc |-> "idle", op |-> "none", gen |-> 0, plan |-> <<>>, i |-> 0,
               saved |-> [f \in Files |-> NoLimit], polls |-> 0, opposed |-> FALSE]

CgTypeOK ==
  /\ cgV2 \in BOOLEAN
  /\ cgRt \in [pc: {"admit", "mkdir", "write", "attach", "rollback", "abort", "run",
                    "remove", "stopped"},
               i: 0..3, gen: 0..MaxGen, live: BOOLEAN, cfg: [Files -> Values]]
  /\ cgRec \in 0..MaxGen
  /\ cgIn \subseteq cgDirs /\ cgDirs \subseteq Hierarchies
  /\ cgLim \in [Files -> Values \cup {NoLimit}]
  /\ cgFreezer \in [req: BOOLEAN, frozen: BOOLEAN]
  /\ cgSpec \in [Files -> Values] /\ cgTold \in [Files -> Values]
  /\ cgLock \in CgClients \cup {NoHolder}
  /\ \A c \in CgClients :
       /\ cgCl[c].pc \in {"idle", "lock", "write", "rollback", "check", "commit",
                          "request", "poll", "after", "done", "failed"}
       /\ cgCl[c].op \in {"none", "update", "freeze", "thaw"}
       /\ cgCl[c].gen \in 0..MaxGen /\ cgCl[c].i \in 0..3 /\ cgCl[c].polls \in 0..MaxPolls
  /\ cgExcuse \subseteq {"rollback", "spec", "crash", "setup", "restart"}

CgInit ==
  /\ cgV2 \in BOOLEAN
  /\ cgRt = [pc |-> "admit", i |-> 1, gen |-> 0, live |-> FALSE,
             cfg |-> [f \in Files |-> "run"]]
  /\ cgRec = 0 /\ cgDirs = {} /\ cgIn = {} /\ cgLim = [f \in Files |-> NoLimit]
  /\ cgFreezer = [req |-> FALSE, frozen |-> FALSE]
  /\ cgSpec = [f \in Files |-> "run"] /\ cgTold = cgSpec
  /\ cgLock = NoHolder /\ cgCl = [c \in CgClients |-> IdleClient]
  /\ cgExcuse = {} /\ cgFaults = 0

-----------------------------------------------------------------------------
(* The runtime parent.                                                      *)

InSetup == cgRt.pc \in {"mkdir", "write", "attach", "rollback"}
RtGoes(pc, i) == cgRt' = [cgRt EXCEPT !.pc = pc, !.i = i]

\* Fork and MarkRunning: from here on clients find a running generation.
RtAdmit ==
  /\ cgRt.pc = "admit" /\ cgRt.gen < MaxGen /\ cgLock = NoHolder
  /\ cgRt' = [cgRt EXCEPT !.pc = "mkdir", !.i = 1, !.gen = @ + 1, !.live = TRUE]
  /\ cgRec' = cgRt.gen + 1
  /\ cgLim' = [f \in Files |-> NoLimit]
  /\ cgFreezer' = [req |-> FALSE, frozen |-> FALSE]
  /\ UNCHANGED <<cgV2, cgDirs, cgIn, cgSpec, cgLock, cgCl, cgTold, cgExcuse, cgFaults>>

\* The container has limits, so a failure is an error and not a warning
\* (resourceLimitsRequested).
RtMkdir ==
  /\ cgRt.pc = "mkdir"
  /\ \/ /\ cgDirs' = cgDirs \cup {ApplyOrder[cgRt.i]}
        /\ IF cgRt.i < Len(ApplyOrder) THEN RtGoes("mkdir", cgRt.i + 1) ELSE RtGoes("write", 1)
        /\ UNCHANGED cgFaults
     \/ CgFault /\ cgDirs' = {} /\ RtGoes("abort", 0)
  /\ UNCHANGED <<cgV2, cgRec, cgIn, cgLim, cgFreezer, cgSpec, cgLock, cgCl, cgTold, cgExcuse>>

\* Mutant: a limit that cannot be written is skipped.
RtWriteLenient ==
  /\ cgRt.pc = "write"
  /\ IF cgRt.i < Len(UpdateOrder) THEN RtGoes("write", cgRt.i + 1) ELSE RtGoes("attach", 1)
  /\ \/ /\ cgLim' = [cgLim EXCEPT ![UpdateOrder[cgRt.i]] = cgRt.cfg[UpdateOrder[cgRt.i]]]
        /\ UNCHANGED cgFaults
     \/ CgFault /\ UNCHANGED cgLim
  /\ UNCHANGED <<cgV2, cgRec, cgDirs, cgIn, cgFreezer, cgSpec, cgLock, cgCl, cgTold, cgExcuse>>

\* Every limit is written before the process is admitted; a failure removes
\* the directories again.
RtWriteLimit ==
  /\ cgRt.pc = "write"
  /\ \/ /\ cgLim' = [cgLim EXCEPT ![UpdateOrder[cgRt.i]] = cgRt.cfg[UpdateOrder[cgRt.i]]]
        /\ IF cgRt.i < Len(UpdateOrder) THEN RtGoes("write", cgRt.i + 1) ELSE RtGoes("attach", 1)
        /\ UNCHANGED <<cgDirs, cgFaults>>
     \/ CgFault /\ cgDirs' = {} /\ RtGoes("abort", 0) /\ UNCHANGED cgLim
  /\ UNCHANGED <<cgV2, cgRec, cgIn, cgFreezer, cgSpec, cgLock, cgCl, cgTold, cgExcuse>>

RtAttach ==
  /\ cgRt.pc = "attach"
  /\ \/ /\ cgIn' = cgIn \cup {ApplyOrder[cgRt.i]}
        /\ IF cgRt.i < Len(ApplyOrder) THEN RtGoes("attach", cgRt.i + 1) ELSE RtGoes("run", 0)
        /\ UNCHANGED cgFaults
     \/ CgFault /\ RtGoes("rollback", cgRt.i - 1) /\ UNCHANGED cgIn
  /\ UNCHANGED <<cgV2, cgRec, cgDirs, cgLim, cgFreezer, cgSpec, cgLock, cgCl, cgTold, cgExcuse>>

\* Mutant: the directories count as removed although the process is inside.
RtForgetsDirs ==
  /\ cgRt.pc = "rollback" /\ cgDirs' = {} /\ RtGoes("abort", 0)
  /\ UNCHANGED <<cgV2, cgRec, cgIn, cgLim, cgFreezer, cgSpec, cgLock, cgCl, cgTold, cgExcuse,
                 cgFaults>>

\* rollbackV1Attachments in reverse, then rmdir of what is empty.
RtRollbackAttach ==
  /\ cgRt.pc = "rollback"
  /\ IF cgRt.i = 0
     THEN /\ cgDirs' = cgIn /\ RtGoes("abort", 0)
          /\ UNCHANGED <<cgIn, cgFaults>>
     ELSE /\ RtGoes("rollback", cgRt.i - 1)
          /\ \/ cgIn' = cgIn \ {ApplyOrder[cgRt.i]} /\ UNCHANGED cgFaults
             \/ CgFault /\ UNCHANGED cgIn
          /\ UNCHANGED cgDirs
  /\ UNCHANGED <<cgV2, cgRec, cgLim, cgFreezer, cgSpec, cgLock, cgCl, cgTold, cgExcuse>>

\* The process ends: killed because its limits could not be applied, or alone.
RtExit ==
  /\ cgRt.pc \in {"abort", "run"} /\ cgRt.live
  /\ cgRt' = [cgRt EXCEPT !.live = FALSE, !.pc = "remove"]
  /\ cgIn' = {}
  /\ UNCHANGED <<cgV2, cgRec, cgDirs, cgLim, cgFreezer, cgSpec, cgLock, cgCl, cgTold,
                 cgExcuse, cgFaults>>

\* MarkStopped, then RemoveChecked of every hierarchy's directory.
RtRemove ==
  /\ cgRt.pc = "remove" /\ cgLock = NoHolder
  /\ cgRec' = 0 /\ cgDirs' = {}
  /\ RtGoes("stopped", 0)
  /\ UNCHANGED <<cgV2, cgIn, cgLim, cgFreezer, cgSpec, cgLock, cgCl, cgTold, cgExcuse, cgFaults>>

\* runRestartLoop runs the configuration it already has in memory.
RtPolicyRestart ==
  /\ cgRt.pc = "stopped"
  /\ RtGoes("admit", 1)
  /\ cgExcuse' = cgExcuse \cup (IF cgRt.cfg # cgSpec THEN {"restart"} ELSE {})
  /\ UNCHANGED <<cgV2, cgRec, cgHost, cgSpec, cgLock, cgCl, cgTold, cgFaults>>

\* `minictl restart` builds the configuration from the restart spec.
RtCommandRestart ==
  /\ cgRt.pc = "stopped"
  /\ cgRt' = [cgRt EXCEPT !.pc = "admit", !.i = 1, !.cfg = cgSpec]
  /\ UNCHANGED <<cgV2, cgRec, cgHost, cgSpec, cgLock, cgCl, cgTold, cgExcuse, cgFaults>>

KernelFreezes ==
  /\ cgFreezer.frozen # cgFreezer.req
  /\ cgFreezer' = [cgFreezer EXCEPT !.frozen = cgFreezer.req]
  /\ UNCHANGED <<cgV2, cgRt, cgRec, cgDirs, cgIn, cgLim, cgSpec, cgLock, cgCl, cgTold,
                 cgExcuse, cgFaults>>

-----------------------------------------------------------------------------
(* Clients: update, pause and unpause of the running generation.            *)

\* The directory name holds the generation, so an old one finds nothing.
DirOf(c) == cgV2 /\ cgCl[c].gen = cgRt.gen /\ cgDirs # {}
GenAlive(c) == cgCl[c].gen = cgRt.gen /\ cgRt.live
ClGoes(c, pc) == cgCl' = [cgCl EXCEPT ![c].pc = pc]
ClEnds(c, pc) == cgCl' = [cgCl EXCEPT ![c] = [IdleClient EXCEPT !.pc = pc]]
File(c) == cgCl[c].plan[cgCl[c].i]
Planned(c) == {cgCl[c].plan[k] : k \in DOMAIN cgCl[c].plan}

\* Record and pidfd of the running generation.
ClOpen(c) ==
  /\ cgCl[c].pc = "idle" /\ cgRec # 0 /\ cgRec = cgRt.gen /\ cgRt.live
  /\ \E op \in {"update", "freeze", "thaw"}, plan \in Plans :
       /\ op # "update" => plan = UpdateOrder
       /\ cgCl' = [cgCl EXCEPT ![c] = [IdleClient EXCEPT
            !.pc = IF op = "update" THEN "lock" ELSE "request", !.op = op,
            !.gen = cgRec, !.plan = plan, !.i = 1]]
  /\ UNCHANGED <<cgV2, cgRt, cgRec, cgHost, cgSpec, cgLock, cgTold, cgExcuse, cgFaults>>

\* UpdateRunningRestartSpec: lock, same generation, alive, read old values.
UpdateLocks(c) ==
  /\ cgCl[c].pc = "lock" /\ cgLock = NoHolder
  /\ IF cgRec = cgCl[c].gen /\ GenAlive(c) /\ DirOf(c)
     THEN /\ cgLock' = c
          /\ cgCl' = [cgCl EXCEPT ![c].pc = "write", ![c].saved = cgLim]
          /\ cgExcuse' = cgExcuse \cup (IF InSetup THEN {"setup"} ELSE {})
     ELSE ClEnds(c, "failed") /\ UNCHANGED <<cgLock, cgExcuse>>
  /\ UNCHANGED <<cgV2, cgRt, cgRec, cgHost, cgSpec, cgTold, cgFaults>>

\* Mutant: a failed write ends the update with what was written so far.
UpdateWritesOnly(c) ==
  /\ cgCl[c].pc = "write"
  /\ \/ /\ DirOf(c) /\ cgLim' = [cgLim EXCEPT ![File(c)] = c]
        /\ cgCl' = [cgCl EXCEPT ![c].i = @ + 1,
                      ![c].pc = IF cgCl[c].i = Len(cgCl[c].plan) THEN "check" ELSE @]
        /\ UNCHANGED <<cgLock, cgFaults>>
     \/ CgFault /\ ClEnds(c, "failed") /\ cgLock' = NoHolder /\ UNCHANGED cgLim
  /\ UNCHANGED <<cgV2, cgRt, cgRec, cgDirs, cgIn, cgFreezer, cgSpec, cgTold, cgExcuse>>

UpdateWrites(c) ==
  /\ cgCl[c].pc = "write"
  /\ \/ /\ DirOf(c)
        /\ cgLim' = [cgLim EXCEPT ![File(c)] = c]
        /\ cgCl' = [cgCl EXCEPT ![c].i = @ + 1,
                      ![c].pc = IF cgCl[c].i = Len(cgCl[c].plan) THEN "check" ELSE @]
        /\ UNCHANGED cgFaults
     \/ CgFault /\ DirOf(c) /\ ClGoes(c, "rollback") /\ UNCHANGED cgLim
     \/ ~DirOf(c) /\ ClGoes(c, "rollback") /\ UNCHANGED <<cgLim, cgFaults>>
  /\ UNCHANGED <<cgV2, cgRt, cgRec, cgDirs, cgIn, cgFreezer, cgSpec, cgLock, cgTold, cgExcuse>>

\* From the file that failed back to the first; failures are only joined.
UpdateRollsBack(c) ==
  /\ cgCl[c].pc = "rollback"
  /\ IF cgCl[c].i = 0
     THEN /\ ClEnds(c, "failed") /\ cgLock' = NoHolder
          /\ UNCHANGED <<cgLim, cgExcuse, cgFaults>>
     ELSE /\ cgCl' = [cgCl EXCEPT ![c].i = @ - 1]
          /\ \/ /\ cgLim' = IF DirOf(c) THEN [cgLim EXCEPT ![File(c)] = cgCl[c].saved[File(c)]]
                            ELSE cgLim
                /\ UNCHANGED <<cgExcuse, cgFaults>>
             \/ /\ CgFault /\ DirOf(c)
                /\ cgExcuse' = cgExcuse \cup {"rollback"} /\ UNCHANGED cgLim
          /\ UNCHANGED cgLock
  /\ UNCHANGED <<cgV2, cgRt, cgRec, cgDirs, cgIn, cgFreezer, cgSpec, cgTold>>

UpdateChecksAlive(c) ==
  /\ cgCl[c].pc = "check"
  /\ IF GenAlive(c) THEN ClGoes(c, "commit") /\ UNCHANGED cgLock
     ELSE ClEnds(c, "failed") /\ cgLock' = NoHolder
  /\ UNCHANGED <<cgV2, cgRt, cgRec, cgHost, cgSpec, cgTold, cgExcuse, cgFaults>>

\* The spec read under the lock with the planned fields replaced; the write
\* may fail before or after its rename.
UpdateCommits(c) ==
  LET new == [f \in Files |-> IF f \in Planned(c) THEN c ELSE cgSpec[f]] IN
  /\ cgCl[c].pc = "commit"
  /\ cgLock' = NoHolder
  /\ \/ /\ cgSpec' = new /\ ClEnds(c, "done")
        /\ cgTold' = [f \in Files |-> IF f \in Planned(c) THEN c ELSE cgTold[f]]
        /\ UNCHANGED <<cgExcuse, cgFaults>>
     \/ /\ CgFault /\ cgSpec' \in {cgSpec, new} /\ ClEnds(c, "failed")
        /\ cgExcuse' = cgExcuse \cup {"spec"} /\ UNCHANGED cgTold
  /\ UNCHANGED <<cgV2, cgRt, cgRec, cgHost>>

Wants(c) == cgCl[c].op = "freeze"

\* The generation is alive, and its cgroup.freeze is written.
FreezeRequests(c) ==
  /\ cgCl[c].pc = "request"
  /\ IF GenAlive(c) /\ DirOf(c)
     THEN /\ cgFreezer' = [cgFreezer EXCEPT !.req = Wants(c)]
          /\ cgCl' = [k \in CgClients |->
               IF k = c THEN [cgCl[k] EXCEPT !.pc = "poll"]
               ELSE IF cgCl[k].pc \in {"poll", "after"} THEN [cgCl[k] EXCEPT !.opposed = TRUE]
               ELSE cgCl[k]]
     ELSE ClEnds(c, "failed") /\ UNCHANGED cgFreezer
  /\ UNCHANGED <<cgV2, cgRt, cgRec, cgDirs, cgIn, cgLim, cgSpec, cgLock, cgTold, cgExcuse, cgFaults>>

\* Mutant: the request file is read back instead of cgroup.events.
FreezePollsRequest(c) ==
  /\ cgCl[c].pc = "poll"
  /\ ClGoes(c, IF DirOf(c) /\ cgFreezer.req = Wants(c) THEN "after" ELSE "failed")
  /\ UNCHANGED <<cgV2, cgRt, cgRec, cgHost, cgSpec, cgLock, cgTold, cgExcuse, cgFaults>>

\* cgroup.events decides; after the last poll the request stays in place.
FreezePolls(c) ==
  /\ cgCl[c].pc = "poll"
  /\ cgCl' = [cgCl EXCEPT ![c].polls = IF cgFreezer.frozen = Wants(c) THEN @ ELSE @ + 1,
       ![c].pc = IF ~DirOf(c) THEN "failed"
                 ELSE IF cgFreezer.frozen = Wants(c) THEN "after"
                 ELSE IF cgCl[c].polls + 1 = MaxPolls THEN "failed" ELSE "poll"]
  /\ UNCHANGED <<cgV2, cgRt, cgRec, cgHost, cgSpec, cgLock, cgTold, cgExcuse, cgFaults>>

FreezeChecksAlive(c) ==
  /\ cgCl[c].pc = "after"
  /\ ClEnds(c, IF GenAlive(c) THEN "done" ELSE "failed")
  /\ UNCHANGED <<cgV2, cgRt, cgRec, cgHost, cgSpec, cgLock, cgTold, cgExcuse, cgFaults>>

\* A client dies and the kernel drops its lock.
ClCrash(c) ==
  /\ cgCl[c].pc \notin {"idle", "done", "failed"} /\ CgFault
  /\ ClEnds(c, "failed")
  /\ cgLock' = IF cgLock = c THEN NoHolder ELSE cgLock
  /\ cgExcuse' = cgExcuse \cup (IF cgLock = c THEN {"crash"} ELSE {})
  /\ UNCHANGED <<cgV2, cgRt, cgRec, cgHost, cgSpec, cgTold>>

CgRuntime ==
  \/ RtAdmit \/ RtMkdir \/ RtWriteLimit \/ RtAttach \/ RtRollbackAttach \/ RtExit
  \/ RtRemove \/ RtPolicyRestart \/ RtCommandRestart
CgClient(c) ==
  \/ ClOpen(c) \/ UpdateLocks(c) \/ UpdateWrites(c) \/ UpdateRollsBack(c)
  \/ UpdateChecksAlive(c) \/ UpdateCommits(c) \/ FreezeRequests(c) \/ FreezePolls(c)
  \/ FreezeChecksAlive(c) \/ ClCrash(c)
CgNext == CgRuntime \/ KernelFreezes \/ \E c \in CgClients : CgClient(c)
CgroupSpec == CgInit /\ [][CgNext]_cgVars

-----------------------------------------------------------------------------
(* configureV2 and applyV1Prepared write every limit before cgroup.procs    *)
(* and abort when one fails: a running payload is inside every hierarchy    *)
(* with each of its limits set, on v1 and v2, unless an update took old     *)
(* values from the half-configured cgroup.                                  *)
PayloadIsLimited ==
  cgRt.pc = "run" /\ cgRt.live /\ "setup" \notin cgExcuse =>
    cgIn = Hierarchies /\ \A f \in Files : cgLim[f] # NoLimit

(* applyResourceUpdateTransaction and UpdateRunningRestartSpec: whenever no *)
(* update is under way the live limits are the ones the restart spec holds, *)
(* also after an update that failed half way and rolled back.  What can     *)
(* separate them is a failed rollback, a failed spec write, a dead client,  *)
(* an update during Apply, and a policy restart.                            *)
LimitsFollowSpec ==
  cgRt.pc = "run" /\ cgRt.live /\ cgLock = NoHolder /\ cgExcuse = {} =>
    cgLim = cgSpec

(* setFreezeAt waits for cgroup.events: a pause or unpause that succeeded   *)
(* has taken effect, unless another request was written meanwhile.          *)
FreezeIsAcknowledged ==
  \A c \in CgClients :
    cgCl[c].pc = "after" /\ ~cgCl[c].opposed /\ GenAlive(c) => cgFreezer.frozen = Wants(c)

(* UpdateContainerResourcesResolved: "A later restart therefore cannot      *)
(* silently restore stale pre-update limits."                               *)
UpdateSurvivesRestart ==
  cgRt.pc = "run" /\ cgRt.live /\ cgLock = NoHolder /\ cgExcuse \subseteq {"restart"} =>
    cgLim = cgTold

(* What a cgroup owes the operator: a payload with all its limits, at the   *)
(* values last reported as set, frozen when reported as frozen.             *)
CgroupDoesAsTold == CgTypeOK /\ PayloadIsLimited /\ LimitsFollowSpec /\ FreezeIsAcknowledged
=============================================================================
