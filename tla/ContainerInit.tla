---------------------------- MODULE ContainerInit ----------------------------
(* The start of one container as its parent and its init see it: the parent *)
(* pins the admitted root file system, forks the init, releases it and      *)
(* reads its status pipe; the init stages that root in its own mount        *)
(* namespace, mounts what was asked for, pivots, takes on the process       *)
(* policies and supervises the payload.  The host resources that the parent *)
(* prepares in between are GenerationLifecycle's subject, the processes     *)
(* below the init ContainerProcesses'.                                      *)
EXTENDS Integers, Sequences, SequencesExt, FiniteSetsExt

\* A scene is a request and its surroundings: volumes, tmpfs and masks (sequences
\* of paths), workdir, overlay, readonly, want (thread policies), dirs (the
\* directories there are, as <<number of the mount that shows them, path>>), rename
\* (the root's path is renamed now and then), rival (another init starts from the
\* same root) and trouble, the number of system calls that fail.
CONSTANTS CiScenes, FileNames       \* and the names that paths are made of

ThreadPolicies == <<"ioprio", "nnp", "caps", "seccomp">>

CiPaths == Seq(FileNames)
Targets == CiPaths \ {<<>>}         \* paths below the root

\* A volume or a tmpfs may be asked for at the root itself (-v dir:/), a mask may
\* not (validateMaskedDirectories).  A directory lies in directories.
ASSUME CiAssumption ==
  /\ {"proc", "sys", "dev"} \subseteq FileNames
  /\ \A s \in CiScenes :
       /\ s.trouble \in Nat /\ {s.overlay, s.readonly, s.rename, s.rival} \subseteq BOOLEAN
       /\ s.want \subseteq {"oom", "rlimit", "sched", "ioprio", "nnp", "caps", "seccomp"}
       /\ {s.volumes, s.tmpfs} \subseteq Seq(CiPaths) /\ s.masks \in Seq(Targets)
       /\ s.workdir \in CiPaths
       /\ \A d \in s.dirs : d[2] \in Targets
                            /\ \A n \in 1..Len(d[2]) : <<d[1], SubSeq(d[2], 1, n)>> \in s.dirs

CiCodes == {0, 3}                   \* exit statuses of the payload
Signalled == -1

VARIABLES
  ciScene,
  ciName,     \* what the path of the root names: "admitted" or "other"
  ciPar,      \* the parent: "pin", "setup", "first", "second", "reap", "cleanup", "done", "killed"
  ciOut,      \* what it knows: [initErr, started, result, lost]
  ciSync,     \* the sync pipe: "open", "frame" or "closed"
  ciStatus,   \* the bytes in the status pipe
  ciPc,       \* where the init is
  ciI,        \* the mount or the policy it is at
  ciNs,       \* its mount namespace: [private, root, leaked, readonly, old]
  ciMounts,   \* its mounts, numbered in the order they were made
  ciDirs,     \* mount points and directories it has made, as in dirs
  ciOwned,    \* it has made .pivot_old
  ciStray,    \* .pivot_old in the shared root: "none", "ours" or "theirs"
  ciThread,   \* its goroutine, and the policies of the process and of its two threads
  ciPay,      \* the payload: [st, policy, code]
  ciEnd,      \* how the init ended: [code, killed, unremoved]
  ciFaults

ciParent == <<ciPar, ciOut, ciSync>>
ciTree == <<ciNs, ciMounts, ciDirs>>
ciPivot == <<ciOwned, ciStray>>
ciProcs == <<ciThread, ciPay, ciEnd>>
ciVars == <<ciScene, ciName, ciParent, ciStatus, ciPc, ciI, ciTree, ciPivot, ciProcs, ciFaults>>

\* A mount: what it shows and where.
On(kind, at) == [kind |-> kind, at |-> at]
Dev == <<"dev">>

KernelMounts ==
  <<On("root", <<>>), On("proc", <<"proc">>), On("sys", <<"sys">>), On("hostdev", Dev)>>
MountKinds == {"root", "proc", "sys", "hostdev", "volume", "tmpfs", "mask", "devs"}

\* The mounts with m as number n.
Mounted(mounts, n, m) == [i \in DOMAIN mounts \cup {n} |-> IF i = n THEN m ELSE mounts[i]]

Ons(kind, paths) == [i \in DOMAIN paths |-> On(kind, paths[i])]

\* Mutant: what is to be hidden is hidden first.
MasksFirst ==
  Ons("mask", ciScene.masks) \o Ons("volume", ciScene.volumes) \o Ons("tmpfs", ciScene.tmpfs)

MountRequests ==
  Ons("volume", ciScene.volumes) \o Ons("tmpfs", ciScene.tmpfs) \o Ons("mask", ciScene.masks)

CiTypeOK ==
  /\ ciScene \in CiScenes /\ ciName \in {"admitted", "other"}
  /\ ciPar \in {"pin", "setup", "first", "second", "reap", "cleanup", "done", "killed"}
  /\ ciOut \in [initErr: BOOLEAN, started: BOOLEAN, lost: BOOLEAN,
                result: {"none", "ok", "payload", "runtime"}]
  /\ ciSync \in {"open", "frame", "closed"}
  /\ ciStatus \in {<<>>, <<"READY">>, <<"FAILURE">>, <<"READY", "FAILURE">>}
  /\ ciI \in 1..Len(ThreadPolicies) + Len(MountRequests) + 1
  /\ DOMAIN ciMounts \subseteq 1..Len(KernelMounts) + Len(MountRequests) + 1
  /\ \A i \in DOMAIN ciMounts : ciMounts[i].kind \in MountKinds
  /\ ciNs.root \in {"none", "admitted", "other"} /\ ciNs.old \in {"host", "attached", "detached"}
  /\ \A d \in ciDirs : d[1] \in 1..Len(KernelMounts) + Len(MountRequests) + 1
  /\ ciOwned \in BOOLEAN /\ ciStray \in {"none", "ours", "theirs"}
  /\ ciThread.at \in {1, 2} /\ ciThread.process \subseteq ciScene.want
  /\ \A i \in {1, 2} : ciThread.policy[i] \subseteq ciScene.want
  /\ ciPay.st \in {"none", "runs", "ended", "killed"}
  /\ ciPay.code \in CiCodes \cup {Signalled} /\ ciEnd.code \in CiCodes \cup {Signalled, 1, 126}
  /\ ciFaults \in 0..ciScene.trouble

CiInit ==
  /\ ciScene \in CiScenes /\ ciName = "admitted"
  /\ ciPar = "pin" /\ ciSync = "open" /\ ciStatus = <<>>
  /\ ciOut = [initErr |-> FALSE, started |-> FALSE, lost |-> FALSE, result |-> "none"]
  /\ ciPc = "none" /\ ciI = 1
  /\ ciNs = [private |-> FALSE, root |-> "none", leaked |-> FALSE, readonly |-> FALSE,
             old |-> "host"]
  /\ ciMounts = <<>> /\ ciDirs = {} /\ ciOwned = FALSE /\ ciStray = "none"
  /\ ciThread = [at |-> 1, locked |-> FALSE, process |-> {}, policy |-> [i \in {1, 2} |-> {}]]
  /\ ciPay = [st |-> "none", policy |-> {}, code |-> Signalled]
  /\ ciEnd = [code |-> Signalled, killed |-> FALSE, unremoved |-> FALSE]
  /\ ciFaults = 0

CiFault == ciFaults < ciScene.trouble /\ ciFaults' = ciFaults + 1

-----------------------------------------------------------------------------
(* The parent: startContainerProcess, then runOnce from the release on.     *)

ciChild == <<ciPc, ciI, ciTree, ciPivot, ciProcs, ciStatus>>

ParentEnds(result) == ciPar' = "cleanup" /\ ciOut' = [ciOut EXCEPT !.result = result]

\* The path is opened and what was opened compared with the admitted directory;
\* the child inherits the descriptor.  A request without an identity pins nothing;
\* minictl, whose requests these are, always gives one.
PinAdmittedRoot ==
  /\ ciPar = "pin"
  /\ \/ ciName = "admitted" /\ ciPar' = "setup" /\ ciPc' = "oom" /\ UNCHANGED ciOut
     \/ ciName # "admitted" /\ ParentEnds("runtime") /\ UNCHANGED ciPc
  /\ UNCHANGED <<ciScene, ciName, ciSync, ciStatus, ciI, ciTree, ciPivot, ciProcs, ciFaults>>

\* releaseBlockedChildWithBridge: one frame, or EPIPE when the child is gone.
ReleaseInit ==
  /\ ciPar = "setup"
  /\ \/ ciPc \notin {"exit", "dead"} /\ ciPar' = "first" /\ ciSync' = "frame" /\ UNCHANGED ciOut
     \/ ciPc \in {"exit", "dead"} /\ ParentEnds("runtime") /\ ciSync' = "closed"
  /\ UNCHANGED <<ciScene, ciName, ciChild, ciFaults>>

\* abortRuntimeSetupFailure: the child is killed and reaped.
AbortSetup ==
  /\ ciPar = "setup" /\ CiFault
  /\ ParentEnds("runtime") /\ ciSync' = "closed"
  /\ ciPc' = "dead" /\ ciEnd' = [ciEnd EXCEPT !.killed = TRUE]
  /\ UNCHANGED <<ciScene, ciName, ciStatus, ciI, ciTree, ciPivot, ciThread, ciPay>>

StatusClosed == ciPc \in {"exit", "dead"}

\* Mutant: READY is taken for the start.
AwaitFirstOnly ==
  /\ ciPar = "first" /\ (ciStatus # <<>> \/ StatusClosed)
  /\ ciPar' = "reap" /\ UNCHANGED ciStatus
  /\ ciOut' = IF ciStatus # <<>> /\ Head(ciStatus) = "READY" THEN [ciOut EXCEPT !.started = TRUE]
              ELSE [ciOut EXCEPT !.initErr = TRUE]
  /\ UNCHANGED <<ciScene, ciName, ciSync, ciPc, ciI, ciTree, ciPivot, ciProcs, ciFaults>>

\* awaitPayloadExec: the first byte has to be READY ...
AwaitFirst ==
  /\ ciPar = "first" /\ (ciStatus # <<>> \/ StatusClosed)
  /\ IF ciStatus # <<>> /\ Head(ciStatus) = "READY"
     THEN ciPar' = "second" /\ ciStatus' = Tail(ciStatus) /\ UNCHANGED ciOut
     ELSE ciPar' = "reap" /\ ciOut' = [ciOut EXCEPT !.initErr = TRUE] /\ UNCHANGED ciStatus
  /\ UNCHANGED <<ciScene, ciName, ciSync, ciPc, ciI, ciTree, ciPivot, ciProcs, ciFaults>>

\* ... and what follows the end of the pipe, which commits the start event.
AwaitSecond ==
  /\ ciPar = "second" /\ (ciStatus # <<>> \/ StatusClosed) /\ ciPar' = "reap"
  /\ ciOut' = IF ciStatus = <<>> THEN [ciOut EXCEPT !.started = TRUE]
              ELSE [ciOut EXCEPT !.initErr = TRUE]
  /\ UNCHANGED <<ciScene, ciName, ciSync, ciChild, ciFaults>>

\* cmd.Wait, parentExitResult and joinRuntimeInitFailure.
ParentReaps ==
  /\ ciPar = "reap" /\ ciPc = "dead"
  /\ ParentEnds(IF ciOut.initErr THEN "runtime" ELSE IF ciEnd.code = 0 THEN "ok" ELSE "payload")
  /\ UNCHANGED <<ciScene, ciName, ciSync, ciChild, ciFaults>>

\* finishRuntimeWorkDir: RemoveAll goes down into whatever the host sees there.
RemoveWorkDir ==
  /\ ciPar = "cleanup" /\ ciPar' = "done"
  /\ \/ ciOut' = [ciOut EXCEPT !.lost = ciNs.leaked] /\ UNCHANGED ciFaults
     \/ ciOut' = [ciOut EXCEPT !.lost = ciNs.leaked, !.result = "runtime"] /\ CiFault
  /\ UNCHANGED <<ciScene, ciName, ciSync, ciChild>>

ParentKilled ==
  /\ ciPar \notin {"done", "killed"} /\ CiFault /\ ciPar' = "killed"
  /\ ciSync' = IF ciSync = "open" THEN "closed" ELSE ciSync
  /\ UNCHANGED <<ciScene, ciName, ciOut, ciChild>>

-----------------------------------------------------------------------------
(* The init: ContainerInit.                                                 *)

ciOther == <<ciScene, ciName, ciParent, ciStatus>>

\* One step of the init that may fail and then has no effect.
Attempt(from, next, bad, effect, changes) ==
  /\ ciPc = from
  /\ \/ effect /\ ciPc' = next /\ UNCHANGED ciFaults
     \/ UNCHANGED changes /\ ciPc' = bad /\ CiFault
  /\ UNCHANGED ciOther

\* The init functions before main; a failure exits at once, without a status byte.
\* OOM score and rlimits belong to the whole process ...
InheritProcessPolicy(from, next, policy) ==
  /\ Attempt(from, next, "exit",
       ciThread' = [ciThread EXCEPT !.process = @ \cup ({policy} \cap ciScene.want)], ciThread)
  /\ UNCHANGED <<ciI, ciTree, ciPivot, ciPay, ciEnd>>

ApplyOOMScore == InheritProcessPolicy("oom", "rlimit", "oom")
ApplyRlimits == InheritProcessPolicy("rlimit", "sched", "rlimit")

\* ... the scheduler to the thread, which is locked for it.
ApplyScheduler ==
  /\ Attempt("sched", "ready", "exit",
       ciThread' = IF "sched" \in ciScene.want
                   THEN [ciThread EXCEPT !.locked = TRUE, !.policy[ciThread.at] = {"sched"}]
                   ELSE ciThread,
       ciThread)
  /\ UNCHANGED <<ciI, ciTree, ciPivot, ciPay, ciEnd>>

\* The inherited hosts file is validated; then awaitParentReady: the frame, or the
\* end of the pipe.
AwaitReady ==
  /\ ciPc = "ready"
  /\ \/ ciSync = "frame" /\ ciPc' = "private" /\ UNCHANGED ciFaults
     \/ ciSync = "closed" /\ ciPc' = "failed" /\ UNCHANGED ciFaults
     \/ ciPc' = "failed" /\ CiFault
  /\ UNCHANGED <<ciOther, ciI, ciTree, ciPivot, ciProcs>>

\* Mutant: mounts are left shared with the host.
KeepShared ==
  ciPc = "private" /\ ciPc' = "stage"
  /\ UNCHANGED <<ciOther, ciI, ciTree, ciPivot, ciProcs, ciFaults>>

MakePrivate ==
  /\ Attempt("private", "stage", "failed", ciNs' = [ciNs EXCEPT !.private = TRUE], ciNs)
  /\ UNCHANGED <<ciI, ciMounts, ciDirs, ciPivot, ciProcs>>

\* The clone is attached below the runtime's working directory; a namespace that
\* still shares its mounts shows it to the host as well.
Staged(root) ==
  /\ ciNs' = [ciNs EXCEPT !.root = root, !.leaked = ~ciNs.private]
  /\ ciMounts' = <<On("root", <<>>)>>

\* Mutant: the path is trusted.
AttachByPath ==
  /\ Attempt("stage", "overlay", "failed", Staged(ciName), <<ciNs, ciMounts>>)
  /\ UNCHANGED <<ciI, ciDirs, ciPivot, ciProcs>>

\* The path is opened again in the new namespace and must still name the pinned
\* directory.
AttachPinnedRootFS ==
  /\ \/ ciName = "admitted"
          /\ Attempt("stage", "overlay", "failed", Staged(ciName), <<ciNs, ciMounts>>)
     \/ /\ ciName # "admitted" /\ ciPc = "stage" /\ ciPc' = "failed"
        /\ UNCHANGED <<ciOther, ciNs, ciMounts, ciFaults>>
  /\ UNCHANGED <<ciI, ciDirs, ciPivot, ciProcs>>

ciOthers == <<ciI, ciPivot, ciProcs>>

\* If asked for, the root becomes the lower layer of an overlay of its own.
PrepareOverlay ==
  /\ Attempt("overlay", "hosts", "failed", UNCHANGED ciTree, ciTree)
  /\ UNCHANGED ciOthers

\* On a bridge network the hosts file that the parent made is bound to /etc/hosts,
\* which has to exist.
MountHostsFile ==
  /\ Attempt("hosts", "kernel", "failed", UNCHANGED ciTree, ciTree)
  /\ UNCHANGED ciOthers

\* Host name, /proc, /sys with the cgroup view, the host's /dev and the network;
\* /sys and /dev may be missing.
MountKernelFS ==
  /\ \E sys, dev \in BOOLEAN :
       Attempt("kernel", "mounts", "failed",
         /\ ciMounts' = Restrict(KernelMounts, {1, 2} \cup {i \in {3} : sys} \cup {i \in {4} : dev})
         /\ ciDirs' = ciDirs \cup {<<1, p>> : p \in {<<"proc">>, <<"sys">>, Dev}},
         <<ciMounts, ciDirs>>)
  /\ UNCHANGED <<ciOthers, ciNs>>

\* The mount that a path lies in: the last one made at it or above it.
CoveringNumber(p) == Max({i \in DOMAIN ciMounts : IsPrefix(ciMounts[i].at, p)})
Covering(p) == ciMounts[CoveringNumber(p)]
PathExists(p) == Covering(p).at = p \/ <<CoveringNumber(p), p>> \in ciScene.dirs \cup ciDirs
Missing(p) == {q \in {SubSeq(p, 1, n) : n \in 1..Len(p)} : ~PathExists(q)}
MadeDown(p) == {<<CoveringNumber(q), q>> : q \in Missing(p)}

\* Mutant: mount points are made wherever they are missing.
openAnywhere(p) == TRUE

\* What is missing is made, but only in the mount that the path of the root leads
\* to (requireMountID): the root's own, or the last one asked for at the root.
openVolumeTarget(p) == PathExists(p) \/ Covering(p).at = <<>>

openExistingDirectory(p) == PathExists(p)

\* The next request: mounted where its target opens, the end of the start where
\* it does not.
Mounting(kind, opens) ==
  /\ ciPc = "mounts" /\ ciI <= Len(MountRequests) /\ MountRequests[ciI].kind = kind
  /\ LET m == MountRequests[ciI] IN
     \/ opens[m.at]
          /\ Attempt("mounts", "mounts", "failed",
               /\ ciDirs' = ciDirs \cup MadeDown(m.at)
               /\ ciMounts' = Mounted(ciMounts, Len(KernelMounts) + ciI, m) /\ ciI' = ciI + 1,
               <<ciDirs, ciMounts, ciI>>)
     \/ ~opens[m.at] /\ ciPc' = "failed"
          /\ UNCHANGED <<ciOther, ciDirs, ciMounts, ciI, ciFaults>>
  /\ UNCHANGED <<ciNs, ciPivot, ciProcs>>

Asked == {m.at : m \in ToSet(MountRequests)}
mountVolume == Mounting("volume", [p \in Asked |-> openVolumeTarget(p)])
mountTmpfsMount == Mounting("tmpfs", [p \in Asked |-> openVolumeTarget(p)])
mountMaskedDirectory == Mounting("mask", [p \in Asked |-> openExistingDirectory(p)])

\* preparePrivateDevices: /dev is made if it is missing, a mount that it leads to is
\* detached with all that was mounted in it, and a private file system takes its place.
PrivateDevices ==
  LET detached == {i \in DOMAIN ciMounts : /\ Covering(Dev).at = Dev /\ CoveringNumber(Dev) <= i
                                           /\ IsPrefix(Dev, ciMounts[i].at)}
  IN /\ ciI > Len(MountRequests)
     /\ Attempt("mounts", "mkdir", "failed",
          /\ ciMounts' = Mounted(Restrict(ciMounts, DOMAIN ciMounts \ detached),
                                 Len(KernelMounts) + Len(MountRequests) + 1, On("devs", Dev))
          /\ ciDirs' = ciDirs \cup MadeDown(Dev) /\ ciI' = 1,
          <<ciMounts, ciDirs, ciI>>)
     /\ UNCHANGED <<ciNs, ciPivot, ciProcs>>

\* What the container pivots into is also seen outside it: the image without an
\* overlay or a volume at the root, but no tmpfs there, which is mounted last.
Shared ==
  /\ <<>> \notin ToSet(ciScene.tmpfs)
  /\ <<>> \in ToSet(ciScene.volumes) \/ ~ciScene.overlay

\* Mutant: a directory of that name is borrowed.
BorrowPivotDir ==
  /\ Attempt("mkdir", "pivot", "rollback",
       ciOwned' = TRUE /\ ciStray' = IF Shared THEN "ours" ELSE ciStray, <<ciOwned, ciStray>>)
  /\ UNCHANGED <<ciI, ciTree, ciProcs>>

\* pivotRootWithOps: the root bound on itself, .pivot_old made exclusively ...
MakePivotDir ==
  /\ \/ ~(Shared /\ ciStray # "none")
          /\ Attempt("mkdir", "pivot", "rollback",
               ciOwned' = TRUE /\ ciStray' = IF Shared THEN "ours" ELSE ciStray,
               <<ciOwned, ciStray>>)
     \/ /\ Shared /\ ciStray # "none" /\ ciPc = "mkdir" /\ ciPc' = "rollback"
        /\ UNCHANGED <<ciOther, ciPivot, ciFaults>>
  /\ UNCHANGED <<ciI, ciTree, ciProcs>>

\* ... the roots exchanged ...
PivotRoot ==
  /\ Attempt("pivot", "detach", "rollback", ciNs' = [ciNs EXCEPT !.old = "attached"], ciNs)
  /\ UNCHANGED <<ciI, ciMounts, ciDirs, ciPivot, ciProcs>>

\* ... the old one detached ...
DetachOldRoot ==
  /\ Attempt("detach", "rmdir", "rollback", ciNs' = [ciNs EXCEPT !.old = "detached"], ciNs)
  /\ UNCHANGED <<ciI, ciMounts, ciDirs, ciPivot, ciProcs>>

Removed == ciOwned' = FALSE /\ ciStray' = IF Shared /\ ciOwned THEN "none" ELSE ciStray

\* ... and its directory removed.
RemovePivotDir ==
  /\ Attempt("rmdir", "readonly", "rollback", Removed, <<ciOwned, ciStray>>)
  /\ UNCHANGED <<ciI, ciTree, ciProcs>>

\* Mutant: a failure leaves the directory behind.
NoRollback ==
  /\ Attempt("rollback", "failed", "failed", UNCHANGED ciPivot, ciPivot)
  /\ UNCHANGED <<ciI, ciTree, ciProcs>>

\* The deferred rollback detaches the old root, then removes what this init made.
RollbackPivot ==
  /\ ciPc = "rollback" /\ ciPc' = "failed"
  /\ \/ /\ Removed /\ UNCHANGED <<ciEnd, ciFaults>>
        /\ ciNs' = [ciNs EXCEPT !.old = IF @ = "attached" THEN "detached" ELSE @]
     \/ /\ UNCHANGED <<ciPivot, ciNs>> /\ CiFault
        /\ ciEnd' = [ciEnd EXCEPT !.unremoved = ciOwned]
  /\ UNCHANGED <<ciOther, ciI, ciMounts, ciDirs, ciThread, ciPay>>

ReadOnlyRoot ==
  /\ Attempt("readonly", "workdir", "failed",
       ciNs' = [ciNs EXCEPT !.readonly = ciScene.readonly], ciNs)
  /\ UNCHANGED <<ciI, ciMounts, ciDirs, ciPivot, ciProcs>>

\* enterWorkDir makes a missing directory in whatever is mounted there, if that
\* can be written to.
EnterWorkDir ==
  LET dir == ciScene.workdir
      readonly == \/ Covering(dir).kind \in {"mask", "proc", "sys"}
                  \/ ciNs.readonly /\ Covering(dir).at = <<>>
      refused == Missing(dir) # {} /\ readonly
  IN /\ ciPc = "workdir"
     /\ \/ ~refused
             /\ Attempt("workdir", "lock", "failed", ciDirs' = ciDirs \cup MadeDown(dir), ciDirs)
        \/ refused /\ ciPc' = "failed" /\ UNCHANGED <<ciOther, ciDirs, ciFaults>>
     /\ UNCHANGED <<ciI, ciNs, ciMounts, ciPivot, ciProcs>>

\* Mutant: the goroutine is not pinned.
StayUnlocked ==
  ciPc = "lock" /\ ciPc' = "policy"
  /\ UNCHANGED <<ciOther, ciI, ciTree, ciPivot, ciProcs, ciFaults>>

LockOSThread ==
  /\ ciPc = "lock" /\ ciPc' = "policy" /\ ciThread' = [ciThread EXCEPT !.locked = TRUE]
  /\ UNCHANGED <<ciOther, ciI, ciTree, ciPivot, ciPay, ciEnd, ciFaults>>

\* The Go scheduler moves a goroutine that is not pinned to another thread.
Migrate ==
  /\ ciPc \in {"lock", "policy", "fork"} /\ ~ciThread.locked
  /\ ciThread' = [ciThread EXCEPT !.at = 3 - @]
  /\ UNCHANGED <<ciOther, ciPc, ciI, ciTree, ciPivot, ciPay, ciEnd, ciFaults>>

\* Mutant: every policy is applied, asked for or not.
ApplyAnyway(policy) ==
  /\ ciI <= Len(ThreadPolicies) /\ ThreadPolicies[ciI] = policy
  /\ Attempt("policy", "policy", "failed",
       /\ ciI' = ciI + 1
       /\ ciThread' = [ciThread EXCEPT !.policy[ciThread.at] = @ \cup {policy}],
       <<ciI, ciThread>>)
  /\ UNCHANGED <<ciTree, ciPivot, ciPay, ciEnd>>

\* The next policy, on the thread the goroutine is on, if it was asked for.
ApplyPolicy(policy) ==
  /\ ciI <= Len(ThreadPolicies) /\ ThreadPolicies[ciI] = policy
  /\ Attempt("policy", "policy", "failed",
       /\ ciI' = ciI + 1
       /\ ciThread' = [ciThread EXCEPT !.policy[ciThread.at] = @ \cup ({policy} \cap ciScene.want)],
       <<ciI, ciThread>>)
  /\ UNCHANGED <<ciTree, ciPivot, ciPay, ciEnd>>

ApplyIOPriority == ApplyPolicy("ioprio")
ApplyNoNewPrivileges == ApplyPolicy("nnp")
DropCapabilities == ApplyPolicy("caps")
ApplySeccomp == ApplyPolicy("seccomp")

\* prepareInitSupervisor and the environment; then readyForExec.
ReportReady ==
  /\ ciI > Len(ThreadPolicies) /\ ciPc = "policy"
  /\ \/ ciPc' = "fork" /\ ciStatus' = Append(ciStatus, "READY") /\ UNCHANGED ciFaults
     \/ ciPc' = "failed" /\ UNCHANGED ciStatus /\ CiFault
  /\ UNCHANGED <<ciScene, ciName, ciParent, ciI, ciTree, ciPivot, ciProcs>>

\* The payload inherits the policies of the process and of the thread that forks it.
ForkPayload ==
  /\ Attempt("fork", "supervise", "failed",
       ciPay' = [ciPay EXCEPT !.st = "runs", !.policy = ciThread.process \cup ciThread.policy[ciThread.at]],
       ciPay)
  /\ UNCHANGED <<ciI, ciTree, ciPivot, ciThread, ciEnd>>

\* The payload exits and the supervisor drains what it left, which it finds through
\* the container's /proc; a failure, or a signal that was not forwarded, is an error.
PayloadEnds ==
  /\ ciPc = "supervise"
  /\ \E c \in CiCodes : ciPay' = [ciPay EXCEPT !.st = "ended", !.code = c]
  /\ LET drains == Covering(<<"proc">>).kind = "proc" IN
       \/ ciPc' = (IF drains THEN "returned" ELSE "failed") /\ UNCHANGED ciFaults
       \/ ciPc' = "failed" /\ CiFault
  /\ UNCHANGED <<ciOther, ciI, ciTree, ciPivot, ciThread, ciEnd>>

\* The deferred finish: any error, a PayloadExitError too, is a FAILURE.
Finish ==
  /\ ciPc \in {"failed", "returned"} /\ ciPc' = "exit"
  /\ LET code == IF ciPc = "failed" THEN 1 ELSE ciPay.code IN
       /\ ciEnd' = [ciEnd EXCEPT !.code = code]
       /\ ciStatus' = IF code = 0 THEN ciStatus ELSE Append(ciStatus, "FAILURE")
  /\ UNCHANGED <<ciScene, ciName, ciParent, ciI, ciTree, ciPivot, ciThread, ciPay, ciFaults>>

\* An init whose inherited policies failed never got to main.
InitExits ==
  /\ ciPc = "exit" /\ ciPc' = "dead"
  /\ ciEnd' = [ciEnd EXCEPT !.code = IF @ = Signalled THEN 126 ELSE @]
  /\ UNCHANGED <<ciOther, ciI, ciTree, ciPivot, ciThread, ciPay, ciFaults>>

\* SIGKILL: a stop, the OOM killer, or Pdeathsig.
InitKilled ==
  /\ ciPc \notin {"none", "dead"} /\ ciPc' = "dead"
  /\ ciEnd' = [ciEnd EXCEPT !.code = Signalled, !.killed = TRUE]
  /\ ciPay' = IF ciPay.st = "runs" THEN [ciPay EXCEPT !.st = "killed"] ELSE ciPay
  /\ UNCHANGED <<ciOther, ciI, ciTree, ciPivot, ciThread, ciFaults>>

-----------------------------------------------------------------------------
(* The surroundings.                                                        *)

ciAll == <<ciScene, ciParent, ciChild, ciFaults>>

RenameRoot ==
  /\ ciScene.rename /\ ciPar \notin {"done", "killed"}
  /\ ciName' = IF ciName = "admitted" THEN "other" ELSE "admitted"
  /\ UNCHANGED ciAll

\* Another init pivots into the same root.
RivalPivots ==
  /\ ciScene.rival /\ Shared
  /\ \/ ciStray = "none" /\ ciStray' = "theirs"
     \/ ciStray = "theirs" /\ ciStray' = "none"
  /\ UNCHANGED <<ciScene, ciName, ciParent, ciStatus, ciPc, ciI, ciTree, ciOwned, ciProcs>>
  /\ UNCHANGED ciFaults

CiNext ==
  \/ PinAdmittedRoot \/ ReleaseInit \/ AbortSetup \/ AwaitFirst \/ AwaitSecond \/ ParentReaps
  \/ RemoveWorkDir \/ ParentKilled
  \/ ApplyOOMScore \/ ApplyRlimits \/ ApplyScheduler \/ AwaitReady \/ MakePrivate
  \/ AttachPinnedRootFS \/ PrepareOverlay \/ MountHostsFile \/ MountKernelFS
  \/ mountVolume \/ mountTmpfsMount \/ mountMaskedDirectory \/ PrivateDevices
  \/ MakePivotDir \/ PivotRoot \/ DetachOldRoot \/ RemovePivotDir \/ RollbackPivot
  \/ ReadOnlyRoot \/ EnterWorkDir \/ LockOSThread \/ Migrate
  \/ ApplyIOPriority \/ ApplyNoNewPrivileges \/ DropCapabilities \/ ApplySeccomp
  \/ ReportReady \/ ForkPayload \/ PayloadEnds \/ Finish
  \/ InitExits \/ InitKilled \/ RenameRoot \/ RivalPivots

\* The parent has returned and nothing of the container is left.
CiFinished == ciPar \in {"done", "killed"} /\ ciPc \in {"none", "dead"}

CiSpec == CiInit /\ [][CiNext]_ciVars

-----------------------------------------------------------------------------
Forked == ciPay.st # "none"

(* startContainerProcess and attachPinnedRootFS: although the path of the   *)
(* root is renamed between the checks, a payload only ever runs in the      *)
(* directory that was admitted, or in what was asked for in its place.      *)
PayloadRootIsAdmitted ==
  Forked => ciNs.root = "admitted" /\ (Covering(<<>>).kind = "root" \/ <<>> \in Asked)

(* A payload runs under every policy that was asked for, whichever thread   *)
(* of the init applied them, with the host's tree detached and the root     *)
(* read-only if it was to be: a policy that cannot be enforced stops the    *)
(* start.                                                                   *)
PayloadIsConfined ==
  Forked => /\ ciPay.policy = ciScene.want
            /\ ciNs.private /\ ciNs.old = "detached" /\ (ciScene.readonly => ciNs.readonly)
            /\ Covering(Dev).kind = "devs"

(* A masked directory shows nothing to the payload, whatever volumes and    *)
(* tmpfs were asked for at it or above it; only the private devices take    *)
(* the place of masks at /dev or below it.                                  *)
MaskedStaysMasked ==
  Forked => \A i \in DOMAIN ciScene.masks : Covering(ciScene.masks[i]).kind \in {"mask", "devs"}

\* The numbers of the root's own mount and of those asked for at the root.
RootNumbers ==
  {1} \cup {Len(KernelMounts) + j : j \in {k \in DOMAIN MountRequests : MountRequests[k].at = <<>>}}

(* openVolumeTarget: mount points are made in the container's root, the     *)
(* image's or one that was asked for at /, and never in a tree of the host  *)
(* that an earlier mount brought in below it; the working directory alone   *)
(* may be made there.                                                       *)
HostTreesUntouched ==
  \A d \in ciDirs : d[1] \in RootNumbers \/ IsPrefix(d[2], ciScene.workdir)

(* RemoveAll of the runtime's working directory never reaches the image:    *)
(* the root staged below it is visible to the init alone.                   *)
ImageSurvivesCleanup == ~ciOut.lost

(* An init that ends leaves .pivot_old in a shared root only if it was      *)
(* killed or could not remove it.                                           *)
StrayPivotHasACause ==
  ciPc = "dead" /\ ciStray = "ours" => ciEnd.killed \/ ciEnd.unremoved

(* The .pivot_old of another init, or of the image, is never taken over and *)
(* removed.                                                                 *)
TheirPivotStays == ciStray = "theirs" /\ ciStray' # "theirs" => UNCHANGED ciPc

(* What the parent concludes from two bytes and an end of file is so: no    *)
(* payload without its release, no success without a payload that exited    *)
(* with 0, no start event without a payload unless the init was killed      *)
(* before it could tell.                                                    *)
ParentKnowsTheEnd ==
  /\ Forked => ciSync = "frame"
  /\ ciOut.started => Forked \/ ciEnd.killed
  /\ ciOut.result = "ok" => ciPay.st = "ended" /\ ciPay.code = 0
  /\ ciOut.result = "payload" => ciOut.started

(* "PayloadExitError carries a supervised payload's exit status through the *)
(* ContainerInit error-only API without misclassifying it as runtime setup  *)
(* failure" (payload_exit.go): a payload that ran and failed by itself, with *)
(* nothing else going wrong, is reported as the payload's failure.          *)
PayloadFailureIsItsOwn ==
  /\ ciPar = "done" /\ ciPay.st = "ended" /\ ciPay.code # 0
  /\ ciFaults = 0 /\ ~ciEnd.killed /\ Covering(<<"proc">>).kind = "proc"
  => ciOut.result = "payload"

(* Where a payload runs: in the admitted root or what was asked for in its  *)
(* place, under every policy asked for, behind its masks and its devices.   *)
PayloadRunsAsAdmitted ==
  CiTypeOK /\ PayloadRootIsAdmitted /\ PayloadIsConfined /\ MaskedStaysMasked

(* What the set-up and the end of a container leave on the host: but for    *)
(* known causes its trees, the image and the shared root are as they were;  *)
(* a volume at / is the container's root and gets its mount points.         *)
HostIsLeftAlone == HostTreesUntouched /\ ImageSurvivesCleanup /\ StrayPivotHasACause
=============================================================================
