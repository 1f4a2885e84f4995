------------------------ MODULE ContainerInitProofs ------------------------
(***************************************************************************)
(* Proofs about the start of a container, for every request, every number  *)
(* of failing system calls and whoever is killed.                          *)
(*                                                                         *)
(* None of the properties is inductive: what the payload finds, the host   *)
(* keeps and the parent concludes is the outcome of some thirty steps.     *)
(* The invariant says for every place the init can be at what it has done  *)
(* by then: which bytes it has written, which policies are on its thread,  *)
(* which mounts are made and which of their mount points can be reached.   *)
(***************************************************************************)
EXTENDS ContainerInit, SequenceTheorems, NaturalsInduction, WellFoundedInduction, TLAPS

-----------------------------------------------------------------------------
(* The records that the parent and the init keep.                           *)

Inheriting == {"none", "oom", "rlimit", "sched", "ready"}
Building == {"private", "stage", "overlay", "hosts", "kernel", "mounts"}
Pivoting == {"mkdir", "pivot", "detach", "rmdir", "rollback"}
Confining == {"readonly", "workdir", "lock", "policy"}
Running == {"supervise", "returned"}
Ended == {"exit", "dead"}

CiPolicies == {"oom", "rlimit", "sched", "ioprio", "nnp", "caps", "seccomp"}

CiLabels == Inheriting \cup Building \cup Pivoting \cup Confining \cup {"fork", "failed"}
            \cup Running \cup Ended
OutRec == [initErr : BOOLEAN, started : BOOLEAN, lost : BOOLEAN,
           result : {"none", "ok", "payload", "runtime"}]
NsRec == [private : BOOLEAN, root : {"none", "admitted", "other"}, leaked : BOOLEAN,
          readonly : BOOLEAN, old : {"host", "attached", "detached"}]
ThreadRec(want) == [at : {1, 2}, locked : BOOLEAN, process : SUBSET want,
                    policy : [{1, 2} -> SUBSET want]]
PayRec(want) == [st : {"none", "runs", "ended", "killed"}, policy : SUBSET want,
                 code : CiCodes \cup {Signalled}]
EndRec == [code : CiCodes \cup {Signalled, 1, 126}, killed : BOOLEAN, unremoved : BOOLEAN]

RecordsOK ==
  /\ ciScene \in CiScenes /\ ciName \in {"admitted", "other"}
  /\ ciPar \in {"pin", "setup", "first", "second", "reap", "cleanup", "done", "killed"}
  /\ ciOut \in OutRec /\ ciSync \in {"open", "frame", "closed"}
  /\ ciPc \in CiLabels /\ ciNs \in NsRec
  /\ ciOwned \in BOOLEAN /\ ciStray \in {"none", "ours", "theirs"}
  /\ ciThread \in ThreadRec(ciScene.want) /\ ciPay \in PayRec(ciScene.want) /\ ciEnd \in EndRec
  /\ ciFaults \in 0..ciScene.trouble

\* The fault budget holds.
LEMMA FaultBudget ==
  ASSUME RecordsOK, ciScene' = ciScene, UNCHANGED ciFaults \/ CiFault
  PROVE  ciFaults' \in 0..ciScene.trouble
  BY CiAssumption DEF RecordsOK, CiFault

\* A container starts with records of their kinds.
LEMMA InitRecords == CiInit => RecordsOK
  <1> SUFFICES ASSUME CiInit PROVE RecordsOK
    OBVIOUS
  <1>1. ciFaults \in 0..ciScene.trouble
    BY CiAssumption DEF CiInit
  <1> QED BY <1>1 DEF CiInit, RecordsOK, CiLabels, Inheriting, CiCodes, Signalled,
                     OutRec, NsRec, ThreadRec, PayRec, EndRec

\* Every step goes on with records of their kinds.
LEMMA StepRecords == RecordsOK /\ [CiNext]_ciVars => RecordsOK'
  <1> SUFFICES ASSUME RecordsOK, [CiNext]_ciVars PROVE RecordsOK'
    OBVIOUS
  <1> USE FaultBudget DEF RecordsOK, CiLabels, Inheriting, Building, Pivoting, Confining, Running, Ended,
               ciVars, ciParent, ciTree, ciPivot, ciProcs, ciChild, ciOther, ciOthers, ciAll
  <1>0. CASE UNCHANGED ciVars
    BY <1>0
  <1>1. CASE PinAdmittedRoot \/ ReleaseInit \/ ParentReaps
    <2>1. ciOut' \in OutRec
      BY <1>1 DEF PinAdmittedRoot, ParentEnds, ReleaseInit, ParentReaps, OutRec
    <2> QED BY <1>1, <2>1 DEF PinAdmittedRoot, ParentEnds, ReleaseInit, ParentReaps
  <1>2. CASE AbortSetup
    <2>1. ciOut' \in OutRec
      BY <1>2 DEF AbortSetup, ParentEnds, OutRec
    <2>2. ciEnd' \in EndRec
      BY <1>2 DEF AbortSetup, ParentEnds, EndRec
    <2> QED BY <1>2, <2>1, <2>2 DEF AbortSetup, ParentEnds
  <1>3. CASE AwaitFirst \/ AwaitSecond
    <2>1. ciOut' \in OutRec
      <3>1. ciOut' = [ciOut EXCEPT !.started = TRUE] \/ ciOut' = [ciOut EXCEPT !.initErr = TRUE] \/ ciOut' = ciOut
        BY <1>3 DEF AwaitFirst, StatusClosed, AwaitSecond
      <3> QED BY <3>1 DEF OutRec
    <2> QED BY <1>3, <2>1 DEF AwaitFirst, StatusClosed, AwaitSecond
  <1>4. CASE RemoveWorkDir
    <2>1. ciNs.leaked \in BOOLEAN
      BY DEF NsRec
    <2>2. ciOut' \in OutRec
      <3>1. CASE ciOut' = [ciOut EXCEPT !.lost = ciNs.leaked]
        BY <2>1, <3>1 DEF OutRec
      <3>2. CASE ciOut' = [ciOut EXCEPT !.lost = ciNs.leaked, !.result = "runtime"]
        BY <2>1, <3>2 DEF OutRec
      <3> QED BY <1>4, <3>1, <3>2 DEF RemoveWorkDir
    <2> QED BY <1>4, <2>1, <2>2 DEF RemoveWorkDir
  <1>5. CASE ParentKilled \/ AwaitReady \/ ReportReady \/ RenameRoot \/ RivalPivots
    BY <1>5 DEF ParentKilled, AwaitReady, ReportReady, RenameRoot, RivalPivots
  <1>6. CASE PrepareOverlay \/ MountHostsFile
    BY <1>6 DEF PrepareOverlay, Attempt, MountHostsFile
  <1>7. CASE MountKernelFS
    BY <1>7 DEF MountKernelFS, Attempt
  <1>8. CASE PrivateDevices
    BY <1>8 DEF PrivateDevices, Attempt
  <1>9. CASE EnterWorkDir
    BY <1>9 DEF EnterWorkDir, Attempt
  <1>10. CASE mountVolume \/ mountTmpfsMount \/ mountMaskedDirectory
    BY <1>10 DEF mountVolume, Mounting, Attempt, mountTmpfsMount, mountMaskedDirectory
  <1>11. CASE ApplyOOMScore \/ ApplyRlimits
    <2>1. ciThread' \in ThreadRec(ciScene.want)
      BY <1>11 DEF ApplyOOMScore, InheritProcessPolicy, Attempt, ApplyRlimits, ThreadRec
    <2> QED BY <1>11, <2>1 DEF ApplyOOMScore, InheritProcessPolicy, Attempt, ApplyRlimits
  <1>12. CASE ApplyScheduler
    <2>1. ciThread' \in ThreadRec(ciScene.want)
      <3>1. \/ ciThread' = ciThread
            \/ /\ "sched" \in ciScene.want
               /\ ciThread' = [ciThread EXCEPT !.locked = TRUE, !.policy[ciThread.at] = {"sched"}]
        BY <1>12 DEF ApplyScheduler, Attempt
      <3>2. CASE /\ "sched" \in ciScene.want
                 /\ ciThread' = [ciThread EXCEPT !.locked = TRUE, !.policy[ciThread.at] = {"sched"}]
        <4> DEFINE pol == [ciThread.policy EXCEPT ![ciThread.at] = {"sched"}]
        <4>1. pol \in [{1, 2} -> SUBSET ciScene.want]
          BY <3>2 DEF ThreadRec
        <4>2. ciThread' = [ciThread EXCEPT !.locked = TRUE, !.policy = pol]
          BY <3>2
        <4> HIDE DEF pol
        <4> QED BY <4>1, <4>2 DEF ThreadRec
      <3> QED BY <3>1, <3>2
    <2> QED BY <1>12, <2>1 DEF ApplyScheduler, Attempt
  <1>13. CASE MakePrivate \/ PivotRoot \/ DetachOldRoot
    <2>1. ciNs' \in NsRec
      BY <1>13 DEF MakePrivate, Attempt, PivotRoot, DetachOldRoot, NsRec
    <2> QED BY <1>13, <2>1 DEF MakePrivate, Attempt, PivotRoot, DetachOldRoot
  <1>14. CASE AttachPinnedRootFS
    <2>1. ciNs' \in NsRec
      <3>1. ciNs' = ciNs \/ ciNs' = [ciNs EXCEPT !.root = "admitted", !.leaked = ~ciNs.private]
        BY <1>14 DEF AttachPinnedRootFS, Attempt, Staged
      <3> QED BY <3>1 DEF NsRec
    <2> QED BY <1>14, <2>1 DEF AttachPinnedRootFS, Attempt, Staged
  <1>15. CASE ReadOnlyRoot
    <2>1. ciScene.readonly \in BOOLEAN
      BY CiAssumption
    <2>2. ciNs' \in NsRec
      <3>1. ciNs' = ciNs \/ ciNs' = [ciNs EXCEPT !.readonly = ciScene.readonly]
        BY <1>15 DEF ReadOnlyRoot, Attempt
      <3> QED BY <2>1, <3>1 DEF NsRec
    <2> QED BY <1>15, <2>1, <2>2 DEF ReadOnlyRoot, Attempt
  <1>16. CASE MakePivotDir
    BY <1>16 DEF MakePivotDir, Attempt
  <1>17. CASE RemovePivotDir
    BY <1>17, ZenonT(30) DEF RemovePivotDir, Attempt, Removed
  <1>18. CASE RollbackPivot
    <2>1. ciNs' \in NsRec
      <3>1. ciNs' = ciNs \/ ciNs' = [ciNs EXCEPT !.old = IF @ = "attached" THEN "detached" ELSE @]
        BY <1>18 DEF RollbackPivot, Removed
      <3> QED BY <3>1 DEF NsRec
    <2>2. ciEnd' \in EndRec
      <3>1. ciEnd' = ciEnd \/ ciEnd' = [ciEnd EXCEPT !.unremoved = ciOwned]
        BY <1>18 DEF RollbackPivot, Removed
      <3> QED BY <3>1 DEF EndRec
    <2>3. ciOwned' \in BOOLEAN /\ ciStray' \in {"none", "ours", "theirs"}
      BY <1>18 DEF RollbackPivot, Removed
    <2> QED BY <1>18, <2>1, <2>2, <2>3 DEF RollbackPivot, Removed
  <1>19. CASE LockOSThread
    <2>1. ciThread' \in ThreadRec(ciScene.want)
      BY <1>19 DEF LockOSThread, ThreadRec
    <2> QED BY <1>19, <2>1 DEF LockOSThread
  <1>20. CASE Migrate
    <2>1. ciThread' \in ThreadRec(ciScene.want)
      <3>1. 3 - ciThread.at \in {1, 2}
        BY DEF ThreadRec
      <3>2. ciThread' = [ciThread EXCEPT !.at = 3 - ciThread.at]
        BY <1>20 DEF Migrate
      <3> QED BY <3>1, <3>2 DEF ThreadRec
    <2> QED BY <1>20, <2>1 DEF Migrate
  <1>21. CASE ApplyIOPriority \/ ApplyNoNewPrivileges \/ DropCapabilities \/ ApplySeccomp
    <2>1. ciThread' \in ThreadRec(ciScene.want)
      BY <1>21 DEF ApplyIOPriority, ApplyPolicy, Attempt, ApplyNoNewPrivileges, DropCapabilities,
         ApplySeccomp, ThreadRec
    <2> QED BY <1>21, <2>1 DEF ApplyIOPriority, ApplyPolicy, Attempt, ApplyNoNewPrivileges,
            DropCapabilities, ApplySeccomp
  <1>22. CASE ForkPayload
    <2>1. ciPay' \in PayRec(ciScene.want)
      <3>1. ciThread.process \cup ciThread.policy[ciThread.at] \subseteq ciScene.want
        BY DEF ThreadRec
      <3> QED BY <1>22, <3>1 DEF ForkPayload, Attempt, PayRec
    <2> QED BY <1>22, <2>1 DEF ForkPayload, Attempt
  <1>23. CASE PayloadEnds
    <2>1. ciPay' \in PayRec(ciScene.want)
      <3>1. PICK c \in CiCodes : ciPay' = [ciPay EXCEPT !.st = "ended", !.code = c]
        BY <1>23 DEF PayloadEnds
      <3> QED BY <3>1 DEF PayRec
    <2> QED BY <1>23, <2>1 DEF PayloadEnds
  <1>24. CASE Finish
    <2>1. ciEnd' \in EndRec
      <3>1. PICK c \in CiCodes \cup {Signalled, 1} : ciEnd' = [ciEnd EXCEPT !.code = c]
        BY <1>24 DEF Finish, PayRec
      <3> QED BY <3>1 DEF EndRec
    <2> QED BY <1>24, <2>1 DEF Finish
  <1>25. CASE InitExits
    <2>1. ciEnd' \in EndRec
      BY <1>25 DEF InitExits, EndRec
    <2> QED BY <1>25, <2>1 DEF InitExits
  <1>26. CASE InitKilled
    <2>1. ciEnd' \in EndRec
      BY <1>26 DEF InitKilled, EndRec
    <2>2. ciPay' \in PayRec(ciScene.want)
      <3>1. ciPay' = ciPay \/ ciPay' = [ciPay EXCEPT !.st = "killed"]
        BY <1>26 DEF InitKilled
      <3> QED BY <3>1 DEF PayRec
    <2> QED BY <1>26, <2>1, <2>2 DEF InitKilled
  <1> QED BY <1>0, <1>1, <1>2, <1>3, <1>4, <1>5, <1>6, <1>7, <1>8, <1>9, <1>10, <1>11, <1>12,
          <1>13, <1>14, <1>15, <1>16, <1>17, <1>18, <1>19, <1>20, <1>21, <1>22, <1>23, <1>24,
          <1>25, <1>26 DEF CiNext

-----------------------------------------------------------------------------
(* What the parent may conclude.                                            *)

Before == Inheriting \cup Building \cup Pivoting \cup Confining
Released == Building \cup Pivoting \cup Confining \cup {"fork"} \cup Running

\* The init goes on once it is released, and a payload runs only under an init that
\* got that far.
InitInOrder ==
  /\ ciPar \in {"pin", "setup"} => ciSync = "open"
  /\ ciPar = "pin" => ciPc = "none"
  /\ ciPc \in Released => ciSync = "frame"
  /\ Forked => ciSync = "frame" /\ ciPc \in Running \cup {"failed"} \cup Ended
  /\ ciPc = "supervise" => ciPay.st = "runs"
  /\ ciPc = "returned" => ciPay.st = "ended"
  /\ ciPc \notin Ended => ciEnd.code = Signalled
  /\ ciEnd.code = 0 => ciPay.st = "ended" /\ ciPay.code = 0

\* The bytes written and not read yet, against where their reader and writer are.
StatusTells ==
  /\ ciStatus \in {<<>>, <<"READY">>, <<"FAILURE">>, <<"READY", "FAILURE">>}
  /\ ciPc \in Before => ciStatus = <<>> /\ ciPar # "second"
  /\ ciPc \in {"fork", "failed"} \cup Running => ciStatus \in {<<>>, <<"READY">>}
  /\ ciPar = "second" => ciStatus \in {<<>>, <<"FAILURE">>}
  /\ ciPc \in Ended /\ ciPar = "second" /\ ciStatus = <<>> => Forked \/ ciEnd.killed
  /\ ciPc \in Ended /\ ciStatus = <<"READY">> => Forked \/ ciEnd.killed

ParentConcludes ==
  /\ ciPar = "reap" => ciOut.initErr \/ ciOut.started
  /\ ciOut.started => Forked \/ ciEnd.killed
  /\ ciOut.result = "ok" => ciPay.st = "ended" /\ ciPay.code = 0
  /\ ciOut.result = "payload" => ciOut.started

-----------------------------------------------------------------------------
(* What a payload is confined by.                                           *)

Unshared == Released \ {"private"}
StagedRoot == Unshared \ {"stage"}
Settled == Pivoting \cup Confining \cup {"fork"} \cup Running   \* all mounts made

Entering == {"readonly", "workdir", "lock"}

NamespaceIsOwn ==
  /\ ciPc \in Unshared => ciNs.private
  /\ ciPc \in StagedRoot \/ Forked => ciNs.private /\ ciNs.root = "admitted"
  /\ ciPc \in {"rmdir", "fork"} \cup Confining \/ Forked => ciNs.old = "detached"
  /\ ciPc \in {"workdir", "lock", "policy", "fork"} \/ Forked => ciNs.readonly = ciScene.readonly
  /\ ~ciNs.leaked /\ ~ciOut.lost

\* The policies on the thread once the first n - 1 have been applied.
AppliedBefore(n) ==
  {"sched"} \cup {ThreadPolicies[j] : j \in {k \in 1..Len(ThreadPolicies) : k < n}}

OnThread == ciThread.policy[ciThread.at]

PoliciesApplied ==
  /\ ciPc \notin {"none", "oom", "rlimit"} \cup Ended =>
       ciThread.process = {"oom", "rlimit"} \cap ciScene.want
  /\ ciPc = "rlimit" => ciThread.process = {"oom"} \cap ciScene.want
  /\ ciPc \in {"none", "oom"} => ciThread.process = {}
  /\ ciPc \in {"none", "oom", "rlimit", "sched"} =>
       ~ciThread.locked /\ \A i \in {1, 2} : ciThread.policy[i] = {}
  /\ ciPc \in {"ready"} \cup Building \cup Pivoting \cup Entering =>
       /\ ciThread.locked <=> "sched" \in ciScene.want
       /\ OnThread = {"sched"} \cap ciScene.want
       /\ ~ciThread.locked => \A i \in {1, 2} : ciThread.policy[i] = {}
  /\ ciPc = "policy" => ciThread.locked /\ OnThread = AppliedBefore(ciI) \cap ciScene.want
  /\ ciPc = "fork" => ciThread.locked /\ OnThread = AppliedBefore(5) \cap ciScene.want
  /\ Forked => ciPay.policy = ciScene.want

\* The count of mounts and of policies.
CountsOK ==
  /\ ciPc \in Inheriting \cup (Building \ {"mounts"}) => ciI = 1
  /\ ciPc = "mounts" => ciI \in 1..Len(MountRequests) + 1
  /\ ciPc \in Pivoting \cup Entering => ciI = 1
  /\ ciPc \in {"policy", "fork"} => ciI \in 1..Len(ThreadPolicies) + 1
  /\ ciI \in 1..Len(ThreadPolicies) + Len(MountRequests) + 1

-----------------------------------------------------------------------------
(* .pivot_old.                                                              *)

PivotOwned ==
  /\ ciStray = "ours" <=> Shared /\ ciOwned
  /\ ciOwned => ciPc \in {"pivot", "detach", "rmdir", "rollback"} \/ ciEnd.unremoved \/ ciEnd.killed
  /\ ciEnd.killed => ciPc = "dead"
  /\ ciEnd.unremoved => ciPc \in {"failed"} \cup Ended

\* A second byte behind the first.
LEMMA TwoBytes ==
  ASSUME NEW W, NEW a \in W, NEW b \in W PROVE Append(<<a>>, b) = <<a, b>>
  <1> SUFFICES ASSUME NEW r \in Seq(W), r = <<a>>, NEW s, s = Append(r, b), NEW t, t = <<a, b>>
               PROVE  s = t
    <2>1. <<a>> \in Seq(W)
      OBVIOUS
    <2> QED BY <2>1, Zenon
  <1>1. /\ s \in Seq(W) /\ Len(s) = Len(r) + 1 /\ s[Len(r) + 1] = b
        /\ \A i \in 1..Len(r) : s[i] = r[i]
    BY AppendProperties
  <1>2. Len(r) = 1 /\ r[1] = a
    OBVIOUS
  <1>3. t \in Seq(W)
    OBVIOUS
  <1>4. Len(t) = 2
    OBVIOUS
  <1>5. t[1] = a /\ t[2] = b
    OBVIOUS
  <1>6. s \in Seq(W) /\ Len(s) = 2 /\ s[1] = a /\ s[2] = b
    BY <1>1, <1>2
  <1>7. \A i \in 1..Len(s) : s[i] = t[i]
    BY <1>3, <1>4, <1>5, <1>6
  <1> QED BY <1>3, <1>4, <1>6, <1>7, SeqEqual

\* Reading and writing the status pipe.
LEMMA StatusBytes ==
  /\ Tail(<<"READY">>) = <<>> /\ Tail(<<"READY", "FAILURE">>) = <<"FAILURE">>
  /\ Append(<<>>, "READY") = <<"READY">> /\ Append(<<>>, "FAILURE") = <<"FAILURE">>
  /\ Append(<<"READY">>, "FAILURE") = <<"READY", "FAILURE">>
  /\ Head(<<"READY">>) = "READY" /\ Head(<<"READY", "FAILURE">>) = "READY"
  /\ Head(<<"FAILURE">>) # "READY"
  /\ <<"READY">> # <<>> /\ <<"FAILURE">> # <<>> /\ <<"READY", "FAILURE">> # <<>>
  /\ <<"READY">> # <<"FAILURE">>
  /\ <<"READY", "FAILURE">> # <<"READY">> /\ <<"READY", "FAILURE">> # <<"FAILURE">>
  <1>1. Tail(<<"READY">>) = <<>>
    OBVIOUS
  <1>2. Tail(<<"READY", "FAILURE">>) = <<"FAILURE">>
    OBVIOUS
  <1>3. Append(<<>>, "READY") = <<"READY">> /\ Append(<<>>, "FAILURE") = <<"FAILURE">>
    OBVIOUS
  <1>4. Append(<<"READY">>, "FAILURE") = <<"READY", "FAILURE">>
    <2>1. "READY" \in {"READY", "FAILURE"} /\ "FAILURE" \in {"READY", "FAILURE"}
      OBVIOUS
    <2> QED BY <2>1, TwoBytes, Zenon
  <1>5. Head(<<"READY">>) = "READY" /\ Head(<<"READY", "FAILURE">>) = "READY"
        /\ Head(<<"FAILURE">>) # "READY"
    OBVIOUS
  <1>6. <<"READY">> # <<>> /\ <<"FAILURE">> # <<>> /\ <<"READY", "FAILURE">> # <<>>
    OBVIOUS
  <1>7. <<"READY">> # <<"FAILURE">>
    OBVIOUS
  <1>8. <<"READY", "FAILURE">> # <<"READY">> /\ <<"READY", "FAILURE">> # <<"FAILURE">>
    OBVIOUS
  <1> QED BY <1>1, <1>2, <1>3, <1>4, <1>5, <1>6, <1>7, <1>8, Zenon

\* The init stays in order.
LEMMA StepOrder == RecordsOK /\ InitInOrder /\ [CiNext]_ciVars => InitInOrder'
  <1> SUFFICES ASSUME RecordsOK, InitInOrder, [CiNext]_ciVars PROVE InitInOrder'
    OBVIOUS
  <1> USE DEF InitInOrder, PayRec, EndRec, RecordsOK, Forked, Before, Released, CiLabels,
          Inheriting, Building, Pivoting, Confining, Running, Ended, CiCodes, Signalled,
               ciVars, ciParent, ciTree, ciPivot, ciProcs, ciChild, ciOther, ciOthers, ciAll
  <1>0. CASE UNCHANGED ciVars
    BY <1>0
  <1>1. CASE PinAdmittedRoot
    BY <1>1 DEF PinAdmittedRoot, ParentEnds
  <1>2. CASE ReleaseInit
    BY <1>2 DEF ReleaseInit, ParentEnds
  <1>3. CASE AbortSetup
    BY <1>3 DEF AbortSetup, ParentEnds
  <1>4. CASE AwaitFirst
    BY <1>4 DEF AwaitFirst, StatusClosed
  <1>5. CASE AwaitSecond
    BY <1>5 DEF AwaitSecond, StatusClosed
  <1>6. CASE ParentReaps
    BY <1>6 DEF ParentReaps, ParentEnds
  <1>7. CASE RemoveWorkDir
    BY <1>7 DEF RemoveWorkDir
  <1>8. CASE ParentKilled
    BY <1>8 DEF ParentKilled
  <1>9. CASE ApplyOOMScore \/ ApplyRlimits \/ ApplyScheduler
    BY <1>9 DEF ApplyOOMScore, InheritProcessPolicy, Attempt, ApplyRlimits, ApplyScheduler
  <1>10. CASE AwaitReady
    BY <1>10 DEF AwaitReady
  <1>11. CASE MakePrivate \/ AttachPinnedRootFS
    BY <1>11 DEF MakePrivate, Attempt, AttachPinnedRootFS, Staged
  <1>12. CASE PrepareOverlay \/ MountHostsFile
    BY <1>12 DEF PrepareOverlay, Attempt, MountHostsFile
  <1>13. CASE MountKernelFS
    BY <1>13 DEF MountKernelFS, Attempt
  <1>14. CASE mountVolume \/ mountTmpfsMount \/ mountMaskedDirectory
    BY <1>14 DEF mountVolume, Mounting, Attempt, mountTmpfsMount, mountMaskedDirectory
  <1>15. CASE PrivateDevices
    BY <1>15 DEF PrivateDevices, Attempt
  <1>16. CASE MakePivotDir \/ PivotRoot \/ DetachOldRoot \/ RemovePivotDir
    BY <1>16 DEF MakePivotDir, Attempt, PivotRoot, DetachOldRoot, RemovePivotDir, Removed
  <1>17. CASE RollbackPivot
    BY <1>17 DEF RollbackPivot, Removed
  <1>18. CASE ReadOnlyRoot
    BY <1>18 DEF ReadOnlyRoot, Attempt
  <1>19. CASE EnterWorkDir
    BY <1>19 DEF EnterWorkDir, Attempt
  <1>20. CASE LockOSThread \/ Migrate
    BY <1>20 DEF LockOSThread, Migrate
  <1>21. CASE ApplyIOPriority \/ ApplyNoNewPrivileges \/ DropCapabilities \/ ApplySeccomp
    BY <1>21 DEF ApplyIOPriority, ApplyPolicy, Attempt, ApplyNoNewPrivileges, DropCapabilities,
       ApplySeccomp
  <1>22. CASE ReportReady
    BY <1>22 DEF ReportReady
  <1>23. CASE ForkPayload
    BY <1>23 DEF ForkPayload, Attempt
  <1>24. CASE PayloadEnds
    BY <1>24 DEF PayloadEnds
  <1>25. CASE Finish
    BY <1>25 DEF Finish
  <1>26. CASE InitExits
    BY <1>26 DEF InitExits
  <1>27. CASE InitKilled
    BY <1>27 DEF InitKilled
  <1>28. CASE RenameRoot \/ RivalPivots
    BY <1>28 DEF RenameRoot, RivalPivots
  <1> QED BY <1>0, <1>1, <1>2, <1>3, <1>4, <1>5, <1>6, <1>7, <1>8, <1>9, <1>10, <1>11, <1>12,
          <1>13, <1>14, <1>15, <1>16, <1>17, <1>18, <1>19, <1>20, <1>21, <1>22, <1>23, <1>24,
          <1>25, <1>26, <1>27, <1>28 DEF CiNext

\* The status pipe tells where the init is.
LEMMA StepStatus == RecordsOK /\ InitInOrder /\ StatusTells /\ [CiNext]_ciVars => StatusTells'
  <1> SUFFICES ASSUME RecordsOK, InitInOrder, StatusTells, [CiNext]_ciVars PROVE StatusTells'
    OBVIOUS
  <1> USE DEF InitInOrder, StatusTells, PayRec, EndRec, RecordsOK, Forked, Before, Released,
          CiLabels, Inheriting, Building, Pivoting, Confining, Running, Ended, CiCodes, Signalled,
               ciVars, ciParent, ciTree, ciPivot, ciProcs, ciChild, ciOther, ciOthers, ciAll
  <1>0. CASE UNCHANGED ciVars
    BY <1>0
  <1>1. CASE PinAdmittedRoot
    BY <1>1 DEF PinAdmittedRoot, ParentEnds
  <1>2. CASE ReleaseInit
    BY <1>2 DEF ReleaseInit, ParentEnds
  <1>3. CASE AbortSetup
    BY <1>3 DEF AbortSetup, ParentEnds
  <1>4. CASE AwaitFirst
    <2>1. CASE ciStatus \in {<<"READY">>, <<"READY", "FAILURE">>}
      <3>1. CASE ciStatus = <<"READY">>
        BY <1>4, <3>1, StatusBytes DEF AwaitFirst, StatusClosed
      <3>2. CASE ciStatus = <<"READY", "FAILURE">>
        BY <1>4, <3>2, StatusBytes DEF AwaitFirst, StatusClosed
      <3> QED BY <2>1, <3>1, <3>2
    <2>2. CASE ciStatus \in {<<>>, <<"FAILURE">>}
      BY <1>4, <2>2 DEF AwaitFirst, StatusClosed
    <2> QED BY <2>1, <2>2
  <1>5. CASE AwaitSecond
    BY <1>5 DEF AwaitSecond, StatusClosed
  <1>6. CASE ParentReaps
    BY <1>6 DEF ParentReaps, ParentEnds
  <1>7. CASE RemoveWorkDir
    BY <1>7 DEF RemoveWorkDir
  <1>8. CASE ParentKilled
    BY <1>8 DEF ParentKilled
  <1>9. CASE ApplyOOMScore
    <2>1. /\ ciPc \in Before /\ UNCHANGED <<ciPar, ciStatus, ciPay, ciEnd>>
          /\ ciPc' \in Before \cup {"exit"}
      BY <1>9 DEF ApplyOOMScore, InheritProcessPolicy, Attempt
    <2> QED BY <2>1, StatusBytes
  <1>10. CASE ApplyRlimits
    <2>1. /\ ciPc \in Before /\ UNCHANGED <<ciPar, ciStatus, ciPay, ciEnd>>
          /\ ciPc' \in Before \cup {"exit"}
      BY <1>10 DEF ApplyRlimits, InheritProcessPolicy, Attempt
    <2> QED BY <2>1, StatusBytes
  <1>11. CASE ApplyScheduler
    <2>1. /\ ciPc \in Before /\ UNCHANGED <<ciPar, ciStatus, ciPay, ciEnd>>
          /\ ciPc' \in Before \cup {"exit"}
      BY <1>11 DEF ApplyScheduler, Attempt
    <2> QED BY <2>1, StatusBytes
  <1>12. CASE AwaitReady
    BY <1>12 DEF AwaitReady
  <1>13. CASE MakePrivate \/ AttachPinnedRootFS
    BY <1>13 DEF MakePrivate, Attempt, AttachPinnedRootFS, Staged
  <1>14. CASE PrepareOverlay \/ MountHostsFile
    BY <1>14 DEF PrepareOverlay, Attempt, MountHostsFile
  <1>15. CASE MountKernelFS
    BY <1>15 DEF MountKernelFS, Attempt
  <1>16. CASE mountVolume \/ mountTmpfsMount \/ mountMaskedDirectory
    BY <1>16 DEF mountVolume, Mounting, Attempt, mountTmpfsMount, mountMaskedDirectory
  <1>17. CASE PrivateDevices
    BY <1>17 DEF PrivateDevices, Attempt
  <1>18. CASE MakePivotDir \/ PivotRoot \/ DetachOldRoot \/ RemovePivotDir
    BY <1>18 DEF MakePivotDir, Attempt, PivotRoot, DetachOldRoot, RemovePivotDir, Removed
  <1>19. CASE RollbackPivot
    BY <1>19 DEF RollbackPivot, Removed
  <1>20. CASE ReadOnlyRoot
    BY <1>20 DEF ReadOnlyRoot, Attempt
  <1>21. CASE EnterWorkDir
    BY <1>21 DEF EnterWorkDir, Attempt
  <1>22. CASE LockOSThread \/ Migrate
    BY <1>22 DEF LockOSThread, Migrate
  <1>23. CASE ApplyIOPriority \/ ApplyNoNewPrivileges \/ DropCapabilities \/ ApplySeccomp
    BY <1>23 DEF ApplyIOPriority, ApplyPolicy, Attempt, ApplyNoNewPrivileges, DropCapabilities,
       ApplySeccomp
  <1>24. CASE ReportReady
    BY <1>24 DEF ReportReady
  <1>25. CASE ForkPayload
    BY <1>25 DEF ForkPayload, Attempt
  <1>26. CASE PayloadEnds
    BY <1>26 DEF PayloadEnds
  <1>27. CASE Finish
    <2>1. ciStatus \in {<<>>, <<"READY">>} /\ UNCHANGED <<ciPar, ciPay>> /\ ciPc' = "exit"
      BY <1>27 DEF Finish
    <2>2. ciStatus' = ciStatus \/ ciStatus' = Append(ciStatus, "FAILURE")
      BY <1>27 DEF Finish
    <2>3. ciStatus' = ciStatus => ciPc = "returned"
      BY <1>27, <2>1 DEF Finish
    <2>5. ciStatus' = ciStatus \/ (ciStatus = <<>> /\ ciStatus' = <<"FAILURE">>)
            \/ (ciStatus = <<"READY">> /\ ciStatus' = <<"READY", "FAILURE">>)
      BY <2>1, <2>2, StatusBytes
    <2> QED BY <2>1, <2>3, <2>5, StatusBytes
  <1>28. CASE InitExits
    BY <1>28 DEF InitExits
  <1>29. CASE InitKilled
    BY <1>29 DEF InitKilled
  <1>30. CASE RenameRoot \/ RivalPivots
    BY <1>30 DEF RenameRoot, RivalPivots
  <1> QED BY <1>0, <1>1, <1>2, <1>3, <1>4, <1>5, <1>6, <1>7, <1>8, <1>9, <1>10, <1>11, <1>12,
          <1>13, <1>14, <1>15, <1>16, <1>17, <1>18, <1>19, <1>20, <1>21, <1>22, <1>23, <1>24,
          <1>25, <1>26, <1>27, <1>28, <1>29, <1>30 DEF CiNext

\* The parent's conclusions stay so.
LEMMA StepParent == RecordsOK /\ InitInOrder /\ StatusTells /\ ParentConcludes /\ [CiNext]_ciVars => ParentConcludes'
  <1> SUFFICES ASSUME RecordsOK, InitInOrder, StatusTells, ParentConcludes, [CiNext]_ciVars PROVE ParentConcludes'
    OBVIOUS
  <1> USE DEF InitInOrder, StatusTells, ParentConcludes, PayRec, EndRec, RecordsOK, Forked,
          Before, Released, CiLabels, Inheriting, Building, Pivoting, Confining, Running, Ended,
          CiCodes, Signalled,
               ciVars, ciParent, ciTree, ciPivot, ciProcs, ciChild, ciOther, ciOthers, ciAll
  <1>0. CASE UNCHANGED ciVars
    BY <1>0
  <1>1. CASE PinAdmittedRoot
    BY <1>1 DEF PinAdmittedRoot, ParentEnds, OutRec
  <1>2. CASE ReleaseInit
    BY <1>2 DEF ReleaseInit, ParentEnds, OutRec
  <1>3. CASE AbortSetup
    BY <1>3 DEF AbortSetup, ParentEnds, OutRec
  <1>4. CASE AwaitFirst
    BY <1>4 DEF AwaitFirst, StatusClosed, OutRec
  <1>5. CASE AwaitSecond
    BY <1>5 DEF AwaitSecond, StatusClosed, OutRec
  <1>6. CASE ParentReaps
    BY <1>6 DEF ParentReaps, ParentEnds, OutRec
  <1>7. CASE RemoveWorkDir
    <2>1. /\ ciOut'.result \in {ciOut.result, "runtime"} /\ ciOut'.started = ciOut.started
          /\ ciPar' = "done" /\ UNCHANGED <<ciPay, ciEnd>>
      BY <1>7, ZenonT(30) DEF RemoveWorkDir, OutRec
    <2> QED BY <2>1
  <1>8. CASE ParentKilled
    BY <1>8 DEF ParentKilled
  <1>9. CASE ApplyOOMScore \/ ApplyRlimits \/ ApplyScheduler
    BY <1>9 DEF ApplyOOMScore, InheritProcessPolicy, Attempt, ApplyRlimits, ApplyScheduler
  <1>10. CASE AwaitReady
    BY <1>10 DEF AwaitReady
  <1>11. CASE MakePrivate \/ AttachPinnedRootFS
    BY <1>11 DEF MakePrivate, Attempt, AttachPinnedRootFS, Staged
  <1>12. CASE PrepareOverlay \/ MountHostsFile
    BY <1>12 DEF PrepareOverlay, Attempt, MountHostsFile
  <1>13. CASE MountKernelFS
    BY <1>13 DEF MountKernelFS, Attempt
  <1>14. CASE mountVolume \/ mountTmpfsMount \/ mountMaskedDirectory
    BY <1>14 DEF mountVolume, Mounting, Attempt, mountTmpfsMount, mountMaskedDirectory
  <1>15. CASE PrivateDevices
    BY <1>15 DEF PrivateDevices, Attempt
  <1>16. CASE MakePivotDir \/ PivotRoot \/ DetachOldRoot \/ RemovePivotDir
    BY <1>16 DEF MakePivotDir, Attempt, PivotRoot, DetachOldRoot, RemovePivotDir, Removed
  <1>17. CASE RollbackPivot
    BY <1>17 DEF RollbackPivot, Removed
  <1>18. CASE ReadOnlyRoot
    BY <1>18 DEF ReadOnlyRoot, Attempt
  <1>19. CASE EnterWorkDir
    BY <1>19 DEF EnterWorkDir, Attempt
  <1>20. CASE LockOSThread \/ Migrate
    BY <1>20 DEF LockOSThread, Migrate
  <1>21. CASE ApplyIOPriority \/ ApplyNoNewPrivileges \/ DropCapabilities \/ ApplySeccomp
    BY <1>21 DEF ApplyIOPriority, ApplyPolicy, Attempt, ApplyNoNewPrivileges, DropCapabilities,
       ApplySeccomp
  <1>22. CASE ReportReady
    BY <1>22 DEF ReportReady
  <1>23. CASE ForkPayload
    BY <1>23 DEF ForkPayload, Attempt
  <1>24. CASE PayloadEnds
    BY <1>24 DEF PayloadEnds
  <1>25. CASE Finish
    BY <1>25 DEF Finish
  <1>26. CASE InitExits
    BY <1>26 DEF InitExits
  <1>27. CASE InitKilled
    BY <1>27 DEF InitKilled
  <1>28. CASE RenameRoot \/ RivalPivots
    BY <1>28 DEF RenameRoot, RivalPivots
  <1> QED BY <1>0, <1>1, <1>2, <1>3, <1>4, <1>5, <1>6, <1>7, <1>8, <1>9, <1>10, <1>11, <1>12,
          <1>13, <1>14, <1>15, <1>16, <1>17, <1>18, <1>19, <1>20, <1>21, <1>22, <1>23, <1>24,
          <1>25, <1>26, <1>27, <1>28 DEF CiNext

\* The scene is the same throughout.
LEMMA SceneStays == [CiNext]_ciVars => ciScene' = ciScene /\ MountRequests' = MountRequests
  <1> SUFFICES ASSUME [CiNext]_ciVars PROVE ciScene' = ciScene
    BY DEF MountRequests
  <1> USE DEF ciVars, ciParent, ciTree, ciPivot, ciProcs, ciChild, ciOther, ciOthers, ciAll
  <1>0. CASE UNCHANGED ciVars
    BY <1>0
  <1>1. CASE PinAdmittedRoot
    BY <1>1 DEF PinAdmittedRoot, ParentEnds
  <1>2. CASE ReleaseInit
    BY <1>2 DEF ReleaseInit, ParentEnds
  <1>3. CASE AbortSetup
    BY <1>3 DEF AbortSetup, ParentEnds
  <1>4. CASE AwaitFirst
    BY <1>4 DEF AwaitFirst, StatusClosed
  <1>5. CASE AwaitSecond
    BY <1>5 DEF AwaitSecond, StatusClosed
  <1>6. CASE ParentReaps
    BY <1>6 DEF ParentReaps, ParentEnds
  <1>7. CASE RemoveWorkDir
    BY <1>7 DEF RemoveWorkDir
  <1>8. CASE ParentKilled
    BY <1>8 DEF ParentKilled
  <1>9. CASE ApplyOOMScore \/ ApplyRlimits \/ ApplyScheduler
    BY <1>9 DEF ApplyOOMScore, InheritProcessPolicy, Attempt, ApplyRlimits, ApplyScheduler
  <1>10. CASE AwaitReady
    BY <1>10 DEF AwaitReady
  <1>11. CASE MakePrivate \/ AttachPinnedRootFS
    BY <1>11 DEF MakePrivate, Attempt, AttachPinnedRootFS, Staged
  <1>12. CASE PrepareOverlay \/ MountHostsFile
    BY <1>12 DEF PrepareOverlay, Attempt, MountHostsFile
  <1>13. CASE MountKernelFS
    BY <1>13 DEF MountKernelFS, Attempt
  <1>14. CASE mountVolume \/ mountTmpfsMount \/ mountMaskedDirectory
    BY <1>14 DEF mountVolume, Mounting, Attempt, mountTmpfsMount, mountMaskedDirectory
  <1>15. CASE PrivateDevices
    BY <1>15 DEF PrivateDevices, Attempt
  <1>16. CASE MakePivotDir \/ PivotRoot \/ DetachOldRoot \/ RemovePivotDir
    BY <1>16 DEF MakePivotDir, Attempt, PivotRoot, DetachOldRoot, RemovePivotDir, Removed
  <1>17. CASE RollbackPivot
    BY <1>17 DEF RollbackPivot, Removed
  <1>18. CASE ReadOnlyRoot
    BY <1>18 DEF ReadOnlyRoot, Attempt
  <1>19. CASE EnterWorkDir
    BY <1>19 DEF EnterWorkDir, Attempt
  <1>20. CASE LockOSThread \/ Migrate
    BY <1>20 DEF LockOSThread, Migrate
  <1>21. CASE ApplyIOPriority \/ ApplyNoNewPrivileges \/ DropCapabilities \/ ApplySeccomp
    BY <1>21 DEF ApplyIOPriority, ApplyPolicy, Attempt, ApplyNoNewPrivileges, DropCapabilities,
       ApplySeccomp
  <1>22. CASE ReportReady
    BY <1>22 DEF ReportReady
  <1>23. CASE ForkPayload
    BY <1>23 DEF ForkPayload, Attempt
  <1>24. CASE PayloadEnds
    BY <1>24 DEF PayloadEnds
  <1>25. CASE Finish
    BY <1>25 DEF Finish
  <1>26. CASE InitExits
    BY <1>26 DEF InitExits
  <1>27. CASE InitKilled
    BY <1>27 DEF InitKilled
  <1>28. CASE RenameRoot \/ RivalPivots
    BY <1>28 DEF RenameRoot, RivalPivots
  <1> QED BY <1>0, <1>1, <1>2, <1>3, <1>4, <1>5, <1>6, <1>7, <1>8, <1>9, <1>10, <1>11, <1>12,
          <1>13, <1>14, <1>15, <1>16, <1>17, <1>18, <1>19, <1>20, <1>21, <1>22, <1>23, <1>24,
          <1>25, <1>26, <1>27, <1>28 DEF CiNext

\* The requests are a sequence of mounts, the masks last.
LEMMA RequestsInOrder ==
  ASSUME ciScene \in CiScenes
  PROVE  /\ MountRequests \in Seq([kind : {"volume", "tmpfs", "mask"}, at : CiPaths])
         /\ Len(MountRequests) \in Nat
         /\ \A i \in DOMAIN ciScene.masks :
              \E j \in 1..Len(MountRequests) :
                /\ MountRequests[j].at = ciScene.masks[i]
                /\ \A k \in j..Len(MountRequests) : MountRequests[k].kind = "mask"
  <1> DEFINE K == {"volume", "tmpfs", "mask"}
             R == [kind : K, at : CiPaths]
  <1>1. ASSUME NEW kind \in K, NEW ps \in Seq(CiPaths)
        PROVE  /\ Ons(kind, ps) \in Seq(R) /\ Len(Ons(kind, ps)) = Len(ps)
               /\ \A i \in 1..Len(ps) : Ons(kind, ps)[i] = On(kind, ps[i])
    <2>1. \A i \in 1..Len(ps) : On(kind, ps[i]) \in R
      BY DEF On
    <2>2. Ons(kind, ps) = [i \in 1..Len(ps) |-> On(kind, ps[i])]
      BY DEF Ons
    <2> HIDE DEF R
    <2> QED BY <2>1, <2>2
  <1>2. ciScene.volumes \in Seq(CiPaths) /\ ciScene.tmpfs \in Seq(CiPaths)
        /\ ciScene.masks \in Seq(CiPaths)
    <2>1. ASSUME NEW s \in Seq(Targets) PROVE s \in Seq(CiPaths)
      <3>1. \A i \in 1..Len(s) : s[i] \in CiPaths
        BY DEF Targets
      <3>2. s = [i \in 1..Len(s) |-> s[i]] /\ Len(s) \in Nat
        OBVIOUS
      <3> HIDE DEF CiPaths
      <3> QED BY <3>1, <3>2
    <2> QED BY <2>1, CiAssumption
  <1> DEFINE v == Ons("volume", ciScene.volumes)
             t == Ons("tmpfs", ciScene.tmpfs)
             m == Ons("mask", ciScene.masks)
  <1>3. "volume" \in K /\ "tmpfs" \in K /\ "mask" \in K
    OBVIOUS
  <1>4. v \in Seq(R) /\ t \in Seq(R) /\ m \in Seq(R) /\ Len(m) = Len(ciScene.masks)
        /\ \A i \in 1..Len(m) : m[i] = On("mask", ciScene.masks[i])
    <2> HIDE DEF R, K
    <2> QED BY <1>1, <1>2, <1>3
  <1>5. MountRequests = (v \o t) \o m
    BY DEF MountRequests
  <1> HIDE DEF R, v, t, m
  <1> DEFINE u == v \o t
  <1>6. u \in Seq(R) /\ Len(u) \in Nat
    BY <1>4
  <1> HIDE DEF u
  <1>7. MountRequests = u \o m
    BY <1>5 DEF u
  <1>8. /\ MountRequests \in Seq(R) /\ Len(MountRequests) = Len(u) + Len(m)
        /\ \A j \in 1..Len(m) : MountRequests[Len(u) + j] = m[j]
    <2>1. /\ u \o m \in Seq(R) /\ Len(u \o m) = Len(u) + Len(m)
          /\ \A i \in 1..Len(u) + Len(m) : (u \o m)[i] = IF i <= Len(u) THEN u[i] ELSE m[i - Len(u)]
      BY <1>4, <1>6, ConcatProperties, ZenonT(30)
    <2>2. Len(u) \in Nat /\ Len(m) \in Nat
      BY <1>4, <1>6
    <2>3. ASSUME NEW j \in 1..Len(m) PROVE MountRequests[Len(u) + j] = m[j]
      <3>1. Len(u) + j \in 1..Len(u) + Len(m) /\ ~(Len(u) + j <= Len(u)) /\ (Len(u) + j) - Len(u) = j
        BY <2>2
      <3>2. (u \o m)[Len(u) + j] = m[(Len(u) + j) - Len(u)]
        BY <2>1, <3>1
      <3> QED BY <1>7, <3>1, <3>2
    <2> QED BY <1>7, <2>1, <2>3
  <1>9. ASSUME NEW i \in DOMAIN ciScene.masks
        PROVE  \E j \in 1..Len(MountRequests) :
                 /\ MountRequests[j].at = ciScene.masks[i]
                 /\ \A k \in j..Len(MountRequests) : MountRequests[k].kind = "mask"
    <2>1. i \in 1..Len(m) /\ Len(m) \in Nat
      BY <1>2, <1>4
    <2>2. Len(u) + i \in 1..Len(MountRequests)
      BY <1>6, <1>8, <2>1
    <2>3. MountRequests[Len(u) + i].at = ciScene.masks[i]
      <3>1. MountRequests[Len(u) + i] = m[i] /\ m[i] = On("mask", ciScene.masks[i])
        BY <1>4, <1>8, <2>1
      <3> QED BY <3>1 DEF On
    <2>4. ASSUME NEW k \in (Len(u) + i)..Len(MountRequests) PROVE MountRequests[k].kind = "mask"
      <3>1. k - Len(u) \in 1..Len(m) /\ k = Len(u) + (k - Len(u))
        BY <1>6, <1>8, <2>1
      <3>2. MountRequests[k] = m[k - Len(u)]
        BY <1>8, <3>1
      <3>3. m[k - Len(u)] = On("mask", ciScene.masks[k - Len(u)])
        BY <1>4, <3>1
      <3> QED BY <3>2, <3>3 DEF On
    <2> QED BY <2>2, <2>3, <2>4
  <1>10. Len(MountRequests) \in Nat
    BY <1>4, <1>6, <1>8
  <1> QED BY <1>8, <1>9, <1>10 DEF R

\* The namespace is the init's own from the stage on.
LEMMA StepNamespace == RecordsOK /\ InitInOrder /\ NamespaceIsOwn /\ [CiNext]_ciVars => NamespaceIsOwn'
  <1> SUFFICES ASSUME RecordsOK, InitInOrder, NamespaceIsOwn, [CiNext]_ciVars PROVE NamespaceIsOwn'
    OBVIOUS
  <1> USE DEF NamespaceIsOwn, Unshared, StagedRoot, Entering, RecordsOK, InitInOrder, Forked,
          Released, CiLabels, Inheriting, Building, Pivoting, Confining, Running, Ended,
               ciVars, ciParent, ciTree, ciPivot, ciProcs, ciChild, ciOther, ciOthers, ciAll
  <1>0. CASE UNCHANGED ciVars
    BY <1>0
  <1>1. CASE PinAdmittedRoot
    BY <1>1 DEF PinAdmittedRoot, ParentEnds, OutRec
  <1>2. CASE ReleaseInit
    BY <1>2 DEF ReleaseInit, ParentEnds, OutRec
  <1>3. CASE AbortSetup
    BY <1>3 DEF AbortSetup, ParentEnds
  <1>4. CASE AwaitFirst
    BY <1>4 DEF AwaitFirst, StatusClosed, OutRec
  <1>5. CASE AwaitSecond
    BY <1>5 DEF AwaitSecond, StatusClosed
  <1>6. CASE ParentReaps
    BY <1>6 DEF ParentReaps, ParentEnds
  <1>7. CASE RemoveWorkDir
    <2>1. ciOut'.lost = ciNs.leaked /\ UNCHANGED <<ciPc, ciNs, ciPay, ciScene>>
      BY <1>7 DEF RemoveWorkDir, OutRec
    <2> QED BY <2>1
  <1>8. CASE ParentKilled
    BY <1>8 DEF ParentKilled
  <1>9. CASE ApplyOOMScore \/ ApplyRlimits \/ ApplyScheduler
    BY <1>9 DEF ApplyOOMScore, InheritProcessPolicy, Attempt, ApplyRlimits, ApplyScheduler
  <1>10. CASE AwaitReady
    BY <1>10 DEF AwaitReady
  <1>11. CASE MakePrivate
    BY <1>11 DEF MakePrivate, Attempt, NsRec
  <1>12. CASE AttachPinnedRootFS
    <2>1. UNCHANGED <<ciOut, ciPay>> /\ ~Forked /\ ciPc = "stage"
      BY <1>12 DEF AttachPinnedRootFS, Attempt, Staged
    <2>2. CASE ciPc' = "failed" /\ ciNs' = ciNs
      BY <2>1, <2>2
    <2>3. CASE ciPc' = "overlay" /\ ciNs' = [ciNs EXCEPT !.root = "admitted", !.leaked = ~ciNs.private]
      <3>1. ciNs'.private = ciNs.private /\ ciNs'.root = "admitted" /\ ciNs'.leaked = ~ciNs.private
        BY <2>3 DEF NsRec
      <3> QED BY <2>1, <2>3, <3>1
    <2> QED BY <1>12, <2>2, <2>3 DEF AttachPinnedRootFS, Attempt, Staged
  <1>13. CASE PrepareOverlay \/ MountHostsFile
    BY <1>13 DEF PrepareOverlay, Attempt, MountHostsFile
  <1>14. CASE MountKernelFS
    BY <1>14 DEF MountKernelFS, Attempt
  <1>15. CASE mountVolume \/ mountTmpfsMount \/ mountMaskedDirectory
    BY <1>15 DEF mountVolume, Mounting, Attempt, mountTmpfsMount, mountMaskedDirectory
  <1>16. CASE PrivateDevices
    BY <1>16 DEF PrivateDevices, Attempt
  <1>17. CASE MakePivotDir \/ RemovePivotDir
    BY <1>17 DEF MakePivotDir, Attempt, RemovePivotDir, Removed
  <1>18. CASE PivotRoot
    BY <1>18 DEF PivotRoot, Attempt, NsRec
  <1>19. CASE DetachOldRoot
    BY <1>19 DEF DetachOldRoot, Attempt, NsRec
  <1>20. CASE RollbackPivot
    <2>1. /\ UNCHANGED <<ciOut, ciPay>> /\ ~Forked /\ ciPc' = "failed"
          /\ ciNs' = ciNs \/ ciNs' = [ciNs EXCEPT !.old = IF @ = "attached" THEN "detached" ELSE @]
      BY <1>20 DEF RollbackPivot, Removed
    <2> QED BY <2>1 DEF NsRec
  <1>21. CASE ReadOnlyRoot
    <2>1. UNCHANGED <<ciScene, ciOut, ciPay>> /\ ~Forked /\ ciPc = "readonly"
      BY <1>21 DEF ReadOnlyRoot, Attempt
    <2>2. CASE ciPc' = "failed" /\ ciNs' = ciNs
      BY <2>1, <2>2
    <2>3. CASE ciPc' = "workdir" /\ ciNs' = [ciNs EXCEPT !.readonly = ciScene.readonly]
      <3>1. /\ ciNs'.private = ciNs.private /\ ciNs'.root = ciNs.root /\ ciNs'.leaked = ciNs.leaked
            /\ ciNs'.old = ciNs.old /\ ciNs'.readonly = ciScene.readonly
        BY <2>3 DEF NsRec
      <3> QED BY <2>1, <2>3, <3>1
    <2> QED BY <1>21, <2>2, <2>3 DEF ReadOnlyRoot, Attempt
  <1>22. CASE EnterWorkDir
    BY <1>22 DEF EnterWorkDir, Attempt
  <1>23. CASE LockOSThread \/ Migrate
    BY <1>23 DEF LockOSThread, Migrate
  <1>24. CASE ApplyIOPriority \/ ApplyNoNewPrivileges \/ DropCapabilities \/ ApplySeccomp
    BY <1>24 DEF ApplyIOPriority, ApplyPolicy, Attempt, ApplyNoNewPrivileges, DropCapabilities,
       ApplySeccomp
  <1>25. CASE ReportReady
    BY <1>25 DEF ReportReady
  <1>26. CASE ForkPayload
    BY <1>26 DEF ForkPayload, Attempt
  <1>27. CASE PayloadEnds
    BY <1>27 DEF PayloadEnds
  <1>28. CASE Finish
    BY <1>28 DEF Finish
  <1>29. CASE InitExits
    BY <1>29 DEF InitExits
  <1>30. CASE InitKilled
    BY <1>30 DEF InitKilled
  <1>31. CASE RenameRoot \/ RivalPivots
    BY <1>31 DEF RenameRoot, RivalPivots
  <1> QED BY <1>0, <1>1, <1>2, <1>3, <1>4, <1>5, <1>6, <1>7, <1>8, <1>9, <1>10, <1>11, <1>12,
          <1>13, <1>14, <1>15, <1>16, <1>17, <1>18, <1>19, <1>20, <1>21, <1>22, <1>23, <1>24,
          <1>25, <1>26, <1>27, <1>28, <1>29, <1>30, <1>31 DEF CiNext

\* The counts of mounts and of policies stay in their bounds.
LEMMA StepCounts == RecordsOK /\ InitInOrder /\ CountsOK /\ [CiNext]_ciVars => CountsOK'
  <1> SUFFICES ASSUME RecordsOK, InitInOrder, CountsOK, [CiNext]_ciVars PROVE CountsOK'
    OBVIOUS
  <1> USE DEF RecordsOK, InitInOrder, CountsOK, Entering, CiLabels, Inheriting, Building,
          Pivoting, Confining, Running, Ended,
               ciVars, ciParent, ciTree, ciPivot, ciProcs, ciChild, ciOther, ciOthers, ciAll
  <1>s. ciScene' = ciScene /\ MountRequests' = MountRequests
    BY SceneStays
  <1>r. Len(MountRequests) \in Nat
    BY RequestsInOrder
  <1>t. Len(ThreadPolicies) = 4
    BY DEF ThreadPolicies
  <1> USE <1>s, <1>r, <1>t
  <1>0. CASE UNCHANGED ciVars
    BY <1>0
  <1>1. CASE PinAdmittedRoot
    BY <1>1 DEF PinAdmittedRoot, ParentEnds
  <1>2. CASE ReleaseInit
    BY <1>2 DEF ReleaseInit, ParentEnds
  <1>3. CASE AbortSetup
    BY <1>3 DEF AbortSetup, ParentEnds
  <1>4. CASE AwaitFirst
    BY <1>4 DEF AwaitFirst, StatusClosed
  <1>5. CASE AwaitSecond
    BY <1>5 DEF AwaitSecond, StatusClosed
  <1>6. CASE ParentReaps
    BY <1>6 DEF ParentReaps, ParentEnds
  <1>7. CASE RemoveWorkDir
    BY <1>7 DEF RemoveWorkDir
  <1>8. CASE ParentKilled
    BY <1>8 DEF ParentKilled
  <1>9. CASE ApplyOOMScore \/ ApplyRlimits \/ ApplyScheduler
    BY <1>9 DEF ApplyOOMScore, InheritProcessPolicy, Attempt, ApplyRlimits, ApplyScheduler
  <1>10. CASE AwaitReady
    BY <1>10 DEF AwaitReady
  <1>11. CASE MakePrivate \/ AttachPinnedRootFS
    BY <1>11 DEF MakePrivate, Attempt, AttachPinnedRootFS, Staged
  <1>12. CASE PrepareOverlay \/ MountHostsFile
    BY <1>12 DEF PrepareOverlay, Attempt, MountHostsFile
  <1>13. CASE MountKernelFS
    BY <1>13 DEF MountKernelFS, Attempt
  <1>14. CASE mountVolume \/ mountTmpfsMount \/ mountMaskedDirectory
    BY <1>14 DEF mountVolume, Mounting, Attempt, mountTmpfsMount, mountMaskedDirectory
  <1>15. CASE PrivateDevices
    BY <1>15 DEF PrivateDevices, Attempt
  <1>16. CASE MakePivotDir \/ PivotRoot \/ DetachOldRoot \/ RemovePivotDir
    BY <1>16 DEF MakePivotDir, Attempt, PivotRoot, DetachOldRoot, RemovePivotDir, Removed
  <1>17. CASE RollbackPivot
    BY <1>17 DEF RollbackPivot, Removed
  <1>18. CASE ReadOnlyRoot
    BY <1>18 DEF ReadOnlyRoot, Attempt
  <1>19. CASE EnterWorkDir
    BY <1>19 DEF EnterWorkDir, Attempt
  <1>20. CASE LockOSThread \/ Migrate
    BY <1>20 DEF LockOSThread, Migrate
  <1>21. CASE ApplyIOPriority \/ ApplyNoNewPrivileges \/ DropCapabilities \/ ApplySeccomp
    BY <1>21 DEF ApplyIOPriority, ApplyPolicy, Attempt, ApplyNoNewPrivileges, DropCapabilities,
       ApplySeccomp
  <1>22. CASE ReportReady
    BY <1>22 DEF ReportReady
  <1>23. CASE ForkPayload
    BY <1>23 DEF ForkPayload, Attempt
  <1>24. CASE PayloadEnds
    BY <1>24 DEF PayloadEnds
  <1>25. CASE Finish
    BY <1>25 DEF Finish
  <1>26. CASE InitExits
    BY <1>26 DEF InitExits
  <1>27. CASE InitKilled
    BY <1>27 DEF InitKilled
  <1>28. CASE RenameRoot \/ RivalPivots
    BY <1>28 DEF RenameRoot, RivalPivots
  <1> QED BY <1>0, <1>1, <1>2, <1>3, <1>4, <1>5, <1>6, <1>7, <1>8, <1>9, <1>10, <1>11, <1>12,
          <1>13, <1>14, <1>15, <1>16, <1>17, <1>18, <1>19, <1>20, <1>21, <1>22, <1>23, <1>24,
          <1>25, <1>26, <1>27, <1>28 DEF CiNext

\* Whoever made .pivot_old answers for it.
LEMMA StepPivot == RecordsOK /\ InitInOrder /\ PivotOwned /\ [CiNext]_ciVars => PivotOwned'
  <1> SUFFICES ASSUME RecordsOK, InitInOrder, PivotOwned, [CiNext]_ciVars PROVE PivotOwned'
    OBVIOUS
  <1> USE DEF RecordsOK, InitInOrder, PivotOwned, Shared, EndRec, CiLabels, Inheriting, Building,
          Pivoting, Confining, Running, Ended,
               ciVars, ciParent, ciTree, ciPivot, ciProcs, ciChild, ciOther, ciOthers, ciAll
  <1>0. CASE UNCHANGED ciVars
    BY <1>0
  <1>1. CASE PinAdmittedRoot
    BY <1>1 DEF PinAdmittedRoot, ParentEnds
  <1>2. CASE ReleaseInit
    BY <1>2 DEF ReleaseInit, ParentEnds
  <1>3. CASE AbortSetup
    BY <1>3 DEF AbortSetup, ParentEnds
  <1>4. CASE AwaitFirst
    BY <1>4 DEF AwaitFirst, StatusClosed
  <1>5. CASE AwaitSecond
    BY <1>5 DEF AwaitSecond, StatusClosed
  <1>6. CASE ParentReaps
    BY <1>6 DEF ParentReaps, ParentEnds
  <1>7. CASE RemoveWorkDir
    BY <1>7 DEF RemoveWorkDir
  <1>8. CASE ParentKilled
    BY <1>8 DEF ParentKilled
  <1>9. CASE ApplyOOMScore \/ ApplyRlimits \/ ApplyScheduler
    BY <1>9 DEF ApplyOOMScore, InheritProcessPolicy, Attempt, ApplyRlimits, ApplyScheduler
  <1>10. CASE AwaitReady
    BY <1>10 DEF AwaitReady
  <1>11. CASE MakePrivate \/ AttachPinnedRootFS
    BY <1>11 DEF MakePrivate, Attempt, AttachPinnedRootFS, Staged
  <1>12. CASE PrepareOverlay \/ MountHostsFile
    BY <1>12 DEF PrepareOverlay, Attempt, MountHostsFile
  <1>13. CASE MountKernelFS
    BY <1>13 DEF MountKernelFS, Attempt
  <1>14. CASE mountVolume \/ mountTmpfsMount \/ mountMaskedDirectory
    BY <1>14 DEF mountVolume, Mounting, Attempt, mountTmpfsMount, mountMaskedDirectory
  <1>15. CASE PrivateDevices
    BY <1>15 DEF PrivateDevices, Attempt
  <1>16. CASE MakePivotDir \/ PivotRoot \/ DetachOldRoot \/ RemovePivotDir
    BY <1>16 DEF MakePivotDir, Attempt, PivotRoot, DetachOldRoot, RemovePivotDir, Removed
  <1>17. CASE RollbackPivot
    BY <1>17 DEF RollbackPivot, Removed
  <1>18. CASE ReadOnlyRoot
    BY <1>18 DEF ReadOnlyRoot, Attempt
  <1>19. CASE EnterWorkDir
    BY <1>19 DEF EnterWorkDir, Attempt
  <1>20. CASE LockOSThread \/ Migrate
    BY <1>20 DEF LockOSThread, Migrate
  <1>21. CASE ApplyIOPriority \/ ApplyNoNewPrivileges \/ DropCapabilities \/ ApplySeccomp
    BY <1>21 DEF ApplyIOPriority, ApplyPolicy, Attempt, ApplyNoNewPrivileges, DropCapabilities,
       ApplySeccomp
  <1>22. CASE ReportReady
    BY <1>22 DEF ReportReady
  <1>23. CASE ForkPayload
    BY <1>23 DEF ForkPayload, Attempt
  <1>24. CASE PayloadEnds
    BY <1>24 DEF PayloadEnds
  <1>25. CASE Finish
    BY <1>25 DEF Finish
  <1>26. CASE InitExits
    BY <1>26 DEF InitExits
  <1>27. CASE InitKilled
    BY <1>27 DEF InitKilled
  <1>28. CASE RenameRoot \/ RivalPivots
    BY <1>28 DEF RenameRoot, RivalPivots
  <1> QED BY <1>0, <1>1, <1>2, <1>3, <1>4, <1>5, <1>6, <1>7, <1>8, <1>9, <1>10, <1>11, <1>12,
          <1>13, <1>14, <1>15, <1>16, <1>17, <1>18, <1>19, <1>20, <1>21, <1>22, <1>23, <1>24,
          <1>25, <1>26, <1>27, <1>28 DEF CiNext

\* One policy more is one policy more.
LEMMA AppliedOneByOne ==
  /\ Len(ThreadPolicies) = 4
  /\ AppliedBefore(1) = {"sched"}
  /\ \A k \in 1..4 : AppliedBefore(k + 1) = AppliedBefore(k) \cup {ThreadPolicies[k]}
  /\ AppliedBefore(5) = {"sched", "ioprio", "nnp", "caps", "seccomp"}
  <1>1. /\ Len(ThreadPolicies) = 4 /\ ThreadPolicies[1] = "ioprio" /\ ThreadPolicies[2] = "nnp"
        /\ ThreadPolicies[3] = "caps" /\ ThreadPolicies[4] = "seccomp"
    BY DEF ThreadPolicies
  <1>2. AppliedBefore(1) = {"sched"}
    BY <1>1 DEF AppliedBefore
  <1>3. ASSUME NEW k \in 1..4 PROVE AppliedBefore(k + 1) = AppliedBefore(k) \cup {ThreadPolicies[k]}
    BY <1>1 DEF AppliedBefore
  <1>4. 1 + 1 = 2 /\ 2 + 1 = 3 /\ 3 + 1 = 4 /\ 4 + 1 = 5
    OBVIOUS
  <1>5. /\ AppliedBefore(2) = {"sched", "ioprio"} /\ AppliedBefore(3) = {"sched", "ioprio", "nnp"}
        /\ AppliedBefore(4) = {"sched", "ioprio", "nnp", "caps"}
        /\ AppliedBefore(5) = {"sched", "ioprio", "nnp", "caps", "seccomp"}
    <2>1. AppliedBefore(2) = {"sched", "ioprio"}
      BY <1>1, <1>2, <1>3, <1>4
    <2>2. AppliedBefore(3) = {"sched", "ioprio", "nnp"}
      BY <1>1, <2>1, <1>3, <1>4
    <2>3. AppliedBefore(4) = {"sched", "ioprio", "nnp", "caps"}
      BY <1>1, <2>2, <1>3, <1>4
    <2>4. AppliedBefore(5) = {"sched", "ioprio", "nnp", "caps", "seccomp"}
      BY <1>1, <2>3, <1>3, <1>4
    <2> QED BY <2>1, <2>2, <2>3, <2>4
  <1> QED BY <1>1, <1>2, <1>3, <1>5

\* The policies asked for are on the thread that the goroutine is on.
LEMMA StepPolicies == RecordsOK /\ InitInOrder /\ CountsOK /\ PoliciesApplied /\ [CiNext]_ciVars => PoliciesApplied'
  <1> SUFFICES ASSUME RecordsOK, InitInOrder, CountsOK, PoliciesApplied, [CiNext]_ciVars PROVE PoliciesApplied'
    OBVIOUS
  <1> USE DEF RecordsOK, InitInOrder, CountsOK, PoliciesApplied, Entering, OnThread, Forked,
          CiLabels, Inheriting, Building, Pivoting, Confining, Running, Ended,
               ciVars, ciParent, ciTree, ciPivot, ciProcs, ciChild, ciOther, ciOthers, ciAll
  <1>w. ciScene.want \subseteq CiPolicies /\ ciScene' = ciScene
    BY CiAssumption, SceneStays DEF CiPolicies
  <1> USE <1>w
  <1>0. CASE UNCHANGED ciVars
    BY <1>0
  <1>1. CASE PinAdmittedRoot
    BY <1>1 DEF PinAdmittedRoot, ParentEnds
  <1>2. CASE ReleaseInit
    BY <1>2 DEF ReleaseInit, ParentEnds
  <1>3. CASE AbortSetup
    BY <1>3 DEF AbortSetup, ParentEnds
  <1>4. CASE AwaitFirst
    BY <1>4 DEF AwaitFirst, StatusClosed
  <1>5. CASE AwaitSecond
    BY <1>5 DEF AwaitSecond, StatusClosed
  <1>6. CASE ParentReaps
    BY <1>6 DEF ParentReaps, ParentEnds
  <1>7. CASE RemoveWorkDir
    BY <1>7 DEF RemoveWorkDir
  <1>8. CASE ParentKilled
    BY <1>8 DEF ParentKilled
  <1>9. CASE ApplyOOMScore
    <2>1. UNCHANGED <<ciPay, ciI>> /\ ~Forked
      BY <1>9 DEF ApplyOOMScore, InheritProcessPolicy, Attempt
    <2>2. CASE ciPc' = "exit" /\ ciThread' = ciThread
      BY <2>1, <2>2
    <2>3. CASE ciPc' = "rlimit" /\ ciThread' = [ciThread EXCEPT !.process = @ \cup ({"oom"} \cap ciScene.want)]
      <3>1. /\ ciThread'.process = ciThread.process \cup ({"oom"} \cap ciScene.want)
            /\ ciThread'.at = ciThread.at /\ ciThread'.locked = ciThread.locked
            /\ ciThread'.policy = ciThread.policy
        BY <2>3 DEF ThreadRec
      <3> QED BY <1>9, <2>1, <2>3, <3>1 DEF ApplyOOMScore, InheritProcessPolicy, Attempt
    <2> QED BY <1>9, <2>2, <2>3 DEF ApplyOOMScore, InheritProcessPolicy, Attempt
  <1>10. CASE ApplyRlimits
    <2>1. UNCHANGED <<ciPay, ciI>> /\ ~Forked
      BY <1>10 DEF ApplyRlimits, InheritProcessPolicy, Attempt
    <2>2. CASE ciPc' = "exit" /\ ciThread' = ciThread
      BY <2>1, <2>2
    <2>3. CASE ciPc' = "sched" /\ ciThread' = [ciThread EXCEPT !.process = @ \cup ({"rlimit"} \cap ciScene.want)]
      <3>1. /\ ciThread'.process = ciThread.process \cup ({"rlimit"} \cap ciScene.want)
            /\ ciThread'.at = ciThread.at /\ ciThread'.locked = ciThread.locked
            /\ ciThread'.policy = ciThread.policy
        BY <2>3 DEF ThreadRec
      <3> QED BY <1>10, <2>1, <2>3, <3>1 DEF ApplyRlimits, InheritProcessPolicy, Attempt
    <2> QED BY <1>10, <2>2, <2>3 DEF ApplyRlimits, InheritProcessPolicy, Attempt
  <1>11. CASE ApplyScheduler
    <2>1. UNCHANGED <<ciPay, ciI>> /\ ~Forked /\ ciPc = "sched"
      BY <1>11 DEF ApplyScheduler, Attempt
    <2>2. CASE ciPc' = "exit" /\ ciThread' = ciThread
      BY <2>1, <2>2
    <2>3. CASE ciPc' = "ready" /\ "sched" \notin ciScene.want /\ ciThread' = ciThread
      BY <2>1, <2>3 DEF ThreadRec
    <2>4. CASE /\ ciPc' = "ready" /\ "sched" \in ciScene.want
               /\ ciThread' = [ciThread EXCEPT !.locked = TRUE, !.policy[ciThread.at] = {"sched"}]
      <3>1. /\ ciThread'.process = ciThread.process /\ ciThread'.at = ciThread.at
            /\ ciThread'.locked = TRUE
            /\ ciThread'.policy = [ciThread.policy EXCEPT ![ciThread.at] = {"sched"}]
        BY <2>4 DEF ThreadRec
      <3>2. ciThread'.policy[ciThread.at] = {"sched"}
        BY <3>1 DEF ThreadRec
      <3> QED BY <2>1, <2>4, <3>1, <3>2
    <2> QED BY <1>11, <2>2, <2>3, <2>4 DEF ApplyScheduler, Attempt
  <1>12. CASE AwaitReady
    BY <1>12 DEF AwaitReady
  <1>13. CASE MakePrivate \/ AttachPinnedRootFS
    BY <1>13 DEF MakePrivate, Attempt, AttachPinnedRootFS, Staged
  <1>14. CASE PrepareOverlay \/ MountHostsFile
    BY <1>14 DEF PrepareOverlay, Attempt, MountHostsFile
  <1>15. CASE MountKernelFS
    BY <1>15 DEF MountKernelFS, Attempt
  <1>16. CASE mountVolume \/ mountTmpfsMount \/ mountMaskedDirectory
    BY <1>16 DEF mountVolume, Mounting, Attempt, mountTmpfsMount, mountMaskedDirectory
  <1>17. CASE PrivateDevices
    BY <1>17 DEF PrivateDevices, Attempt
  <1>18. CASE MakePivotDir \/ PivotRoot \/ DetachOldRoot \/ RemovePivotDir
    BY <1>18 DEF MakePivotDir, Attempt, PivotRoot, DetachOldRoot, RemovePivotDir, Removed
  <1>19. CASE RollbackPivot
    BY <1>19 DEF RollbackPivot, Removed
  <1>20. CASE ReadOnlyRoot
    BY <1>20 DEF ReadOnlyRoot, Attempt
  <1>21. CASE EnterWorkDir
    BY <1>21 DEF EnterWorkDir, Attempt
  <1>22. CASE LockOSThread
    <2>1. UNCHANGED <<ciPay, ciI>> /\ ~Forked /\ ciPc = "lock" /\ ciPc' = "policy" /\ ciI = 1
      BY <1>22 DEF LockOSThread
    <2>2. /\ ciThread'.process = ciThread.process /\ ciThread'.at = ciThread.at
          /\ ciThread'.locked = TRUE /\ ciThread'.policy = ciThread.policy
      BY <1>22 DEF LockOSThread, ThreadRec
    <2> QED BY <2>1, <2>2, AppliedOneByOne
  <1>23. CASE Migrate
    <2>1. /\ UNCHANGED <<ciPay, ciPc>> /\ ~Forked /\ ciPc = "lock" /\ ~ciThread.locked
      BY <1>23 DEF Migrate
    <2>2. /\ ciThread'.process = ciThread.process /\ ciThread'.at = 3 - ciThread.at
          /\ ciThread'.locked = ciThread.locked /\ ciThread'.policy = ciThread.policy
      BY <1>23 DEF Migrate, ThreadRec
    <2>3. 3 - ciThread.at \in {1, 2}
      BY DEF ThreadRec
    <2> QED BY <2>1, <2>2, <2>3
  <1>24. CASE ApplyIOPriority \/ ApplyNoNewPrivileges \/ DropCapabilities \/ ApplySeccomp
    <2>1. UNCHANGED ciPay /\ ~Forked /\ ciPc = "policy" /\ ciI \in 1..4
      BY <1>24, AppliedOneByOne DEF ApplyIOPriority, ApplyPolicy, Attempt, ApplyNoNewPrivileges,
         DropCapabilities, ApplySeccomp
    <2>2. CASE ciPc' = "failed" /\ ciThread' = ciThread
      BY <2>1, <2>2
    <2>3. CASE /\ ciPc' = "policy" /\ ciI' = ciI + 1
               /\ ciThread' = [ciThread EXCEPT !.policy[ciThread.at] =
                                @ \cup ({ThreadPolicies[ciI]} \cap ciScene.want)]
      <3>1. /\ ciThread'.process = ciThread.process /\ ciThread'.at = ciThread.at
            /\ ciThread'.locked = ciThread.locked
            /\ ciThread'.policy[ciThread.at] = OnThread \cup ({ThreadPolicies[ciI]} \cap ciScene.want)
        BY <2>3 DEF ThreadRec
      <3>2. AppliedBefore(ciI') = AppliedBefore(ciI) \cup {ThreadPolicies[ciI]}
        BY <2>1, <2>3, AppliedOneByOne
      <3> QED BY <2>1, <2>3, <3>1, <3>2
    <2> QED BY <1>24, <2>2, <2>3 DEF ApplyIOPriority, ApplyPolicy, Attempt, ApplyNoNewPrivileges,
            DropCapabilities, ApplySeccomp
  <1>25. CASE ReportReady
    <2>1. UNCHANGED <<ciPay, ciThread>> /\ ~Forked /\ ciPc = "policy" /\ ciI = 5
      BY <1>25, AppliedOneByOne DEF ReportReady
    <2> QED BY <1>25, <2>1 DEF ReportReady
  <1>26. CASE ForkPayload
    <2>1. UNCHANGED ciThread /\ ~Forked /\ ciPc = "fork"
      BY <1>26 DEF ForkPayload, Attempt
    <2>2. CASE ciPc' = "failed" /\ ciPay' = ciPay
      BY <2>1, <2>2
    <2>3. CASE /\ ciPc' = "supervise"
               /\ ciPay' = [ciPay EXCEPT !.st = "runs", !.policy = ciThread.process \cup OnThread]
      <3>1. ciPay'.policy = ciThread.process \cup OnThread
        BY <2>3 DEF PayRec
      <3>2. ciThread.process \cup OnThread = ciScene.want
        BY <2>1, AppliedOneByOne DEF CiPolicies
      <3> QED BY <2>1, <2>3, <3>1, <3>2
    <2> QED BY <1>26, <2>2, <2>3 DEF ForkPayload, Attempt
  <1>27. CASE PayloadEnds
    BY <1>27 DEF PayloadEnds
  <1>28. CASE Finish
    BY <1>28 DEF Finish
  <1>29. CASE InitExits
    BY <1>29 DEF InitExits
  <1>30. CASE InitKilled
    BY <1>30 DEF InitKilled
  <1>31. CASE RenameRoot \/ RivalPivots
    BY <1>31 DEF RenameRoot, RivalPivots
  <1> QED BY <1>0, <1>1, <1>2, <1>3, <1>4, <1>5, <1>6, <1>7, <1>8, <1>9, <1>10, <1>11, <1>12,
          <1>13, <1>14, <1>15, <1>16, <1>17, <1>18, <1>19, <1>20, <1>21, <1>22, <1>23, <1>24,
          <1>25, <1>26, <1>27, <1>28, <1>29, <1>30, <1>31 DEF CiNext

-----------------------------------------------------------------------------
(* CiPaths and the mounts they lie in.                                        *)

\* A prefix, element by element.
LEMMA PrefixIs ==
  ASSUME NEW S, NEW s \in Seq(S), NEW t \in Seq(S)
  PROVE  IsPrefix(s, t) <=> Len(s) <= Len(t) /\ \A i \in 1..Len(s) : s[i] = t[i]
  <1>1. SubSeq(s, 1, Len(s)) = s
    OBVIOUS
  <1>2. ASSUME Len(s) <= Len(t)
        PROVE  /\ SubSeq(t, 1, Len(s)) \in Seq(S) /\ Len(SubSeq(t, 1, Len(s))) = Len(s)
               /\ \A i \in 1..Len(s) : SubSeq(t, 1, Len(s))[i] = t[i]
    BY <1>2
  <1>3. ASSUME Len(s) <= Len(t), \A i \in 1..Len(s) : s[i] = t[i]
        PROVE  s = SubSeq(t, 1, Len(s))
    BY <1>2, <1>3, SeqEqual
  <1>4. ASSUME Len(s) <= Len(t), s = SubSeq(t, 1, Len(s))
        PROVE  \A i \in 1..Len(s) : s[i] = t[i]
    BY <1>2, <1>4
  <1> QED BY <1>1, <1>3, <1>4 DEF IsPrefix

\* The prefixes of a path.
LEMMA PathPrefixes ==
  ASSUME NEW p \in CiPaths
  PROVE  \A n \in 0..Len(p) :
           /\ SubSeq(p, 1, n) \in CiPaths /\ Len(SubSeq(p, 1, n)) = n /\ IsPrefix(SubSeq(p, 1, n), p)
           /\ \A k \in 0..n : SubSeq(SubSeq(p, 1, n), 1, k) = SubSeq(p, 1, k)
           /\ n = Len(p) => SubSeq(p, 1, n) = p
  <1> DEFINE S == FileNames
  <1> HIDE DEF S
  <1>0. p \in Seq(S)
    BY DEF S, CiPaths
  <1>1. ASSUME NEW m \in 0..Len(p)
        PROVE /\ SubSeq(p, 1, m) \in Seq(S) /\ Len(SubSeq(p, 1, m)) = m
              /\ \A i \in 1..m : SubSeq(p, 1, m)[i] = p[i]
    BY <1>0
  <1>2. ASSUME NEW n \in 0..Len(p) PROVE IsPrefix(SubSeq(p, 1, n), p)
    <2>1. /\ SubSeq(p, 1, n) \in Seq(S) /\ Len(SubSeq(p, 1, n)) = n /\ n <= Len(p)
          /\ \A i \in 1..n : SubSeq(p, 1, n)[i] = p[i]
      BY <1>0, <1>1
    <2>2. ASSUME NEW q \in Seq(S), Len(q) = n, \A i \in 1..n : q[i] = p[i] PROVE IsPrefix(q, p)
      BY <1>0, <2>1, <2>2, PrefixIs
    <2> QED BY <2>1, <2>2
  <1>3. ASSUME NEW n \in 0..Len(p), NEW k \in 0..n
        PROVE  SubSeq(SubSeq(p, 1, n), 1, k) = SubSeq(p, 1, k)
    <2>1. k \in 0..Len(p)
      BY <1>0
    <2>2. /\ SubSeq(SubSeq(p, 1, n), 1, k) \in Seq(S) /\ Len(SubSeq(SubSeq(p, 1, n), 1, k)) = k
          /\ \A i \in 1..k : SubSeq(SubSeq(p, 1, n), 1, k)[i] = p[i]
      BY <1>1
    <2> QED BY <1>1, <2>1, <2>2, SeqEqual
  <1>4. ASSUME NEW n \in 0..Len(p), n = Len(p) PROVE SubSeq(p, 1, n) = p
    BY <1>0, <1>4
  <1>5. ASSUME NEW n \in 0..Len(p) PROVE SubSeq(p, 1, n) \in CiPaths /\ Len(SubSeq(p, 1, n)) = n
    <2>1. SubSeq(p, 1, n) \in Seq(S) /\ Len(SubSeq(p, 1, n)) = n
      BY <1>1
    <2> QED BY <2>1 DEF S, CiPaths
  <1> QED BY <1>2, <1>3, <1>4, <1>5

\* How prefixes relate.
LEMMA PrefixOrder ==
  ASSUME NEW p \in CiPaths, NEW q \in CiPaths, NEW r \in CiPaths
  PROVE  /\ IsPrefix(p, p)
         /\ IsPrefix(p, q) /\ IsPrefix(q, r) => IsPrefix(p, r)
         /\ IsPrefix(p, r) /\ IsPrefix(q, r) => IsPrefix(p, q) \/ IsPrefix(q, p)
         /\ IsPrefix(p, q) => Len(p) <= Len(q) /\ p = SubSeq(q, 1, Len(p))
         /\ IsPrefix(p, q) /\ IsPrefix(q, p) => p = q
         /\ IsPrefix(<<>>, p)
         /\ IsPrefix(p, <<>>) => p = <<>>
  <1> DEFINE S == FileNames
  <1> HIDE DEF S
  <1>0. p \in Seq(S) /\ q \in Seq(S) /\ r \in Seq(S) /\ <<>> \in Seq(S)
    BY DEF S, CiPaths
  <1>1. IsPrefix(p, p)
    BY <1>0, PrefixIs
  <1>2. IsPrefix(p, q) /\ IsPrefix(q, r) => IsPrefix(p, r)
    BY <1>0, PrefixIs
  <1>3. IsPrefix(p, r) /\ IsPrefix(q, r) => IsPrefix(p, q) \/ IsPrefix(q, p)
    BY <1>0, PrefixIs
  <1>4. IsPrefix(p, q) => Len(p) <= Len(q) /\ p = SubSeq(q, 1, Len(p))
    BY <1>0 DEF IsPrefix
  <1>5. IsPrefix(p, q) /\ IsPrefix(q, p) => p = q
    BY <1>0, PrefixIs, SeqEqual
  <1>e. Len(<<>>) = 0
    OBVIOUS
  <1>6. IsPrefix(<<>>, p)
    <2>1. ASSUME NEW e \in Seq(S), Len(e) = 0 PROVE IsPrefix(e, p)
      <3>1. IsPrefix(e, p) <=> Len(e) <= Len(p) /\ \A i \in 1..Len(e) : e[i] = p[i]
        BY <1>0, PrefixIs
      <3>2. Len(p) \in Nat
        BY <1>0
      <3> QED BY <2>1, <3>1, <3>2
    <2> QED BY <1>0, <1>e, <2>1
  <1>7. IsPrefix(p, <<>>) => p = <<>>
    <2>1. ASSUME NEW e \in Seq(S), Len(e) = 0, IsPrefix(p, e) PROVE Len(p) = 0
      <3>1. IsPrefix(p, e) <=> Len(p) <= Len(e) /\ \A i \in 1..Len(p) : p[i] = e[i]
        BY <1>0, PrefixIs
      <3>2. Len(p) \in Nat
        BY <1>0
      <3> QED BY <2>1, <3>1, <3>2
    <2>2. Len(p) = 0 => p = <<>>
      BY <1>0
    <2> QED BY <1>0, <1>e, <2>1, <2>2
  <1> QED BY <1>1, <1>2, <1>3, <1>4, <1>5, <1>6, <1>7

\* /dev is a path of one name.
LEMMA DevIsPath == Dev \in CiPaths /\ Len(Dev) = 1 /\ Dev \in Targets /\ Targets \subseteq CiPaths
  <1>1. ASSUME NEW S, NEW a \in S PROVE <<a>> \in Seq(S) /\ Len(<<a>>) = 1 /\ <<a>> # <<>>
    <2>1. <<a>> \in Seq(S)
      OBVIOUS
    <2>2. Len(<<a>>) = 1
      OBVIOUS
    <2>3. <<a>> # <<>>
      OBVIOUS
    <2> QED BY <2>1, <2>2, <2>3
  <1>2. "dev" \in FileNames
    BY CiAssumption
  <1> QED BY <1>1, <1>2, Zenon DEF Dev, CiPaths, Targets

\* Number t is the mount that p lies in.
IsTop(mounts, p, t) ==
  /\ t \in DOMAIN mounts /\ IsPrefix(mounts[t].at, p)
  /\ \A i \in DOMAIN mounts : IsPrefix(mounts[i].at, p) => i <= t

TopIn(mounts, p) == Max({i \in DOMAIN mounts : IsPrefix(mounts[i].at, p)})
CoverIn(mounts, p) == mounts[TopIn(mounts, p)]
ExistsIn(mounts, dirs, p) == CoverIn(mounts, p).at = p \/ <<TopIn(mounts, p), p>> \in dirs

\* A table of mounts on one root.
MountTable(mounts) ==
  /\ \E n \in Nat : DOMAIN mounts \subseteq 1..n
  /\ 1 \in DOMAIN mounts /\ mounts[1] = On("root", <<>>)
  /\ \A i \in DOMAIN mounts : mounts[i].at \in CiPaths /\ (mounts[i].kind = "root" => i = 1)

\* Every path lies in exactly one mount.
LEMMA CoverIsTop ==
  ASSUME NEW mounts, MountTable(mounts), NEW p \in CiPaths
  PROVE  /\ \E t : IsTop(mounts, p, t)
         /\ \A t : IsTop(mounts, p, t) => TopIn(mounts, p) = t /\ CoverIn(mounts, p) = mounts[t]
         /\ \A t, u : IsTop(mounts, p, t) /\ IsTop(mounts, p, u) => t = u
  <1> DEFINE T == {i \in DOMAIN mounts : IsPrefix(mounts[i].at, p)}
  <1>1. PICK n \in Nat : DOMAIN mounts \subseteq 1..n
    BY DEF MountTable
  <1>2. 1 \in T
    BY PrefixOrder DEF MountTable, On
  <1>3. \A t : IsTop(mounts, p, t) <=> t \in T /\ \A i \in T : i <= t
    BY DEF IsTop
  <1> HIDE DEF T
  <1>4. T \subseteq 1..n
    BY <1>1 DEF T
  <1>5. \E t \in T : \A i \in T : i <= t
    <2> DEFINE R == OpToRel(<, Nat)
               D == {n - i : i \in T}
    <2>1. D \subseteq Nat /\ D # {}
      BY <1>2, <1>4
    <2>2. PICK d \in D : \A e \in D : ~(<<e, d>> \in R)
      BY <2>1, NatLessThanWellFounded, WFMin
    <2>3. \A e \in D : ~(e < d)
      BY <2>1, <2>2 DEF OpToRel
    <2>4. PICK t \in T : d = n - t
      OBVIOUS
    <2>5. \A i \in T : n - i \in D
      OBVIOUS
    <2> HIDE DEF D
    <2> QED BY <1>4, <2>3, <2>4, <2>5
  <1>6. ASSUME NEW t \in T, NEW u \in T, \A i \in T : i <= t, \A i \in T : i <= u PROVE t = u
    BY <1>4, <1>6
  <1>7. ASSUME NEW t \in T, \A i \in T : i <= t PROVE Max(T) = t
    <2>1. t \in T /\ \A i \in T : t >= i
      BY <1>4, <1>7
    <2>2. Max(T) \in T /\ \A i \in T : Max(T) >= i
      BY <2>1 DEF Max
    <2>3. \A x, y \in T : x >= y /\ y >= x => x = y
      BY <1>4
    <2> QED BY <2>1, <2>2, <2>3
  <1>8. TopIn(mounts, p) = Max(T) /\ CoverIn(mounts, p) = mounts[Max(T)]
    BY DEF CoverIn, TopIn, T
  <1> QED BY <1>3, <1>5, <1>6, <1>7, <1>8

\* A mount above a path that lies in it is the one its prefixes down from there lie in.
LEMMA TopOfPrefix ==
  ASSUME NEW mounts, MountTable(mounts), NEW p \in CiPaths, NEW q \in CiPaths, IsPrefix(q, p),
         NEW t, IsTop(mounts, p, t)
  PROVE  /\ IsPrefix(mounts[t].at, q) => IsTop(mounts, q, t)
         /\ ~IsPrefix(mounts[t].at, q) => IsPrefix(q, mounts[t].at)
         /\ IsTop(mounts, mounts[t].at, t)
  <1>1. \A i \in DOMAIN mounts : mounts[i].at \in CiPaths
    BY DEF MountTable
  <1>2. \A i \in DOMAIN mounts : IsPrefix(mounts[i].at, q) => i <= t
    BY <1>1, PrefixOrder DEF IsTop
  <1>3. t \in DOMAIN mounts /\ mounts[t].at \in CiPaths /\ IsPrefix(mounts[t].at, p)
    BY <1>1 DEF IsTop
  <1>4. IsTop(mounts, mounts[t].at, t)
    BY <1>1, <1>3, PrefixOrder DEF IsTop
  <1> QED BY <1>1, <1>2, <1>3, <1>4, PrefixOrder DEF IsTop

\* A mount on the root itself: what lies in it, lies in it up to the root.
LEMMA RootCovers ==
  ASSUME NEW mounts, MountTable(mounts), NEW p \in CiPaths, NEW q \in CiPaths, IsPrefix(q, p),
         CoverIn(mounts, p).at = <<>>
  PROVE  IsTop(mounts, q, TopIn(mounts, p)) /\ TopIn(mounts, q) = TopIn(mounts, p)
  <1>1. PICK t : IsTop(mounts, p, t)
    BY CoverIsTop
  <1>2. TopIn(mounts, p) = t /\ CoverIn(mounts, p) = mounts[t]
    BY <1>1, CoverIsTop
  <1>3. IsPrefix(mounts[t].at, q)
    BY <1>2, PrefixOrder
  <1>4. IsTop(mounts, q, t)
    BY <1>1, <1>3, TopOfPrefix
  <1> QED BY <1>2, <1>4, CoverIsTop

\* Every mount point on top of what it lies in can be reached from the root.
Reached(mounts, dirs) ==
  \A i \in DOMAIN mounts : IsTop(mounts, mounts[i].at, i) =>
    \A n \in 1..Len(mounts[i].at) : ExistsIn(mounts, dirs, SubSeq(mounts[i].at, 1, n))

\* Directories lie in directories.
ClosedUp(dirs) ==
  \A d \in dirs : d[2] \in Targets /\ \A n \in 1..Len(d[2]) : <<d[1], SubSeq(d[2], 1, n)>> \in dirs

\* What a path lies in decides whether it exists.
LEMMA ExistsInTop ==
  ASSUME NEW mounts, MountTable(mounts), NEW dirs, NEW p \in CiPaths, NEW t, IsTop(mounts, p, t)
  PROVE  ExistsIn(mounts, dirs, p) <=> mounts[t].at = p \/ <<t, p>> \in dirs
  <1>1. TopIn(mounts, p) = t /\ CoverIn(mounts, p) = mounts[t]
    BY CoverIsTop
  <1> QED BY <1>1 DEF ExistsIn

\* A prefix of a path either lies in the mount that the path lies in, or exists.
LEMMA PrefixInTop ==
  ASSUME NEW mounts, MountTable(mounts), NEW dirs, Reached(mounts, dirs),
         NEW p \in CiPaths, NEW n \in 1..Len(p), NEW t, IsTop(mounts, p, t)
  PROVE  IsTop(mounts, SubSeq(p, 1, n), t) \/ ExistsIn(mounts, dirs, SubSeq(p, 1, n))
  <1>1. n \in 0..Len(p) /\ Len(p) \in Nat
    BY DEF CiPaths
  <1> DEFINE q == SubSeq(p, 1, n)
  <1>2. q \in CiPaths /\ IsPrefix(q, p) /\ Len(q) = n
    BY <1>1, PathPrefixes
  <1> HIDE DEF q
  <1>3. t \in DOMAIN mounts /\ mounts[t].at \in CiPaths
    BY DEF IsTop, MountTable
  <1>4. CASE IsPrefix(mounts[t].at, q)
    BY <1>2, <1>4, TopOfPrefix DEF q
  <1>5. CASE ~IsPrefix(mounts[t].at, q)
    <2>1. IsPrefix(q, mounts[t].at) /\ IsTop(mounts, mounts[t].at, t)
      BY <1>2, <1>5, TopOfPrefix
    <2>2. q = SubSeq(mounts[t].at, 1, n) /\ n \in 1..Len(mounts[t].at)
      <3>1. Len(q) <= Len(mounts[t].at) /\ q = SubSeq(mounts[t].at, 1, Len(q))
        BY <1>2, <1>3, <2>1, PrefixOrder
      <3>2. Len(mounts[t].at) \in Nat
        BY <1>3 DEF CiPaths
      <3> QED BY <1>2, <3>1, <3>2
    <2>3. ExistsIn(mounts, dirs, q)
      BY <1>3, <2>1, <2>2 DEF Reached
    <2> QED BY <2>3 DEF q
  <1> QED BY <1>4, <1>5

\* Where a path exists, so do the directories it lies in.
LEMMA PrefixExists ==
  ASSUME NEW mounts, MountTable(mounts), NEW dirs, Reached(mounts, dirs), ClosedUp(dirs),
         NEW p \in CiPaths, ExistsIn(mounts, dirs, p), NEW n \in 1..Len(p)
  PROVE  ExistsIn(mounts, dirs, SubSeq(p, 1, n))
  <1>1. PICK t : IsTop(mounts, p, t)
    BY CoverIsTop
  <1>2. n \in 0..Len(p) /\ Len(p) \in Nat
    BY DEF CiPaths
  <1> DEFINE q == SubSeq(p, 1, n)
  <1>3. q \in CiPaths /\ IsPrefix(q, p) /\ Len(q) = n
    BY <1>2, PathPrefixes
  <1>4. CASE IsTop(mounts, q, t)
    <2>1. CASE mounts[t].at = p
      <3>1. IsPrefix(p, q)
        BY <1>4, <2>1 DEF IsTop
      <3>2. p = q
        BY <1>3, <3>1, PrefixOrder
      <3> QED BY <3>2
    <2>2. CASE <<t, p>> \in dirs
      <3>1. <<t, q>> \in dirs
        <4> DEFINE d == <<t, p>>
        <4>1. d \in dirs /\ d[1] = t /\ d[2] = p
          BY <2>2
        <4> HIDE DEF d
        <4> QED BY <4>1 DEF ClosedUp
      <3> HIDE DEF q
      <3>2. ExistsIn(mounts, dirs, q)
        BY <1>3, <1>4, <3>1, ExistsInTop
      <3> QED BY <3>2 DEF q
    <2> QED BY <1>1, <2>1, <2>2, ExistsInTop
  <1> QED BY <1>1, <1>4, PrefixInTop

\* The paths down to p that do not exist.
MissingIn(mounts, dirs, p) ==
  {q \in {SubSeq(p, 1, n) : n \in 1..Len(p)} : ~ExistsIn(mounts, dirs, q)}

\* What is made down to p, each in the mount it lies in.
MadeIn(mounts, dirs, p) == {<<TopIn(mounts, q), q>> : q \in MissingIn(mounts, dirs, p)}

\* A mount point that exists, or that lies in the root, is made in the root alone.
LEMMA MadeInRoot ==
  ASSUME NEW mounts, MountTable(mounts), NEW dirs, Reached(mounts, dirs), ClosedUp(dirs),
         NEW p \in CiPaths, ExistsIn(mounts, dirs, p) \/ CoverIn(mounts, p).at = <<>>
  PROVE  /\ \A d \in MadeIn(mounts, dirs, p) : /\ d[1] = TopIn(mounts, p)
                                              /\ d[1] \in DOMAIN mounts /\ mounts[d[1]].at = <<>>
         /\ ClosedUp(dirs \cup MadeIn(mounts, dirs, p))
  <1> DEFINE t == TopIn(mounts, p)
  <1>0. \A n \in 1..Len(p) : n \in 0..Len(p) /\ Len(p) \in Nat
    BY DEF CiPaths
  <1>t. t \in DOMAIN mounts /\ CoverIn(mounts, p) = mounts[t]
    <2>1. PICK u : IsTop(mounts, p, u)
      BY CoverIsTop
    <2> QED BY <2>1, CoverIsTop DEF IsTop
  <1> HIDE DEF t
  \* What is made was missing, in the mount on the root.
  <1>1. ASSUME NEW d \in MadeIn(mounts, dirs, p)
        PROVE  /\ mounts[t].at = <<>>
               /\ \E n \in 1..Len(p) : d = <<t, SubSeq(p, 1, n)>>
    <2>1. PICK n \in 1..Len(p) : /\ d = <<TopIn(mounts, SubSeq(p, 1, n)), SubSeq(p, 1, n)>>
                                 /\ ~ExistsIn(mounts, dirs, SubSeq(p, 1, n))
      BY DEF MadeIn, MissingIn
    <2>2. CoverIn(mounts, p).at = <<>>
      BY <2>1, PrefixExists
    <2>3. SubSeq(p, 1, n) \in CiPaths /\ IsPrefix(SubSeq(p, 1, n), p)
      BY <1>0, PathPrefixes
    <2>4. TopIn(mounts, SubSeq(p, 1, n)) = t
      BY <2>2, <2>3, RootCovers DEF t
    <2> QED BY <1>t, <2>1, <2>2, <2>4
  <1>2. ASSUME NEW d \in MadeIn(mounts, dirs, p)
        PROVE  d[2] \in Targets
               /\ \A k \in 1..Len(d[2]) : <<d[1], SubSeq(d[2], 1, k)>> \in dirs \cup MadeIn(mounts, dirs, p)
    <2>1. PICK n \in 1..Len(p) : d = <<t, SubSeq(p, 1, n)>>
      BY <1>1
    <2> DEFINE q == SubSeq(p, 1, n)
    <2>2. q \in CiPaths /\ IsPrefix(q, p) /\ Len(q) = n /\ \A k \in 0..n : SubSeq(q, 1, k) = SubSeq(p, 1, k)
      BY <1>0, PathPrefixes
    <2> HIDE DEF q
    <2>3. d[1] = t /\ d[2] = q
      BY <2>1 DEF q
    <2>4. q \in Targets
      <3>1. Len(<<>>) = 0
        OBVIOUS
      <3>2. q # <<>>
        BY <2>2, <3>1
      <3> QED BY <2>2, <3>2 DEF Targets
    <2>5. mounts[t].at = <<>>
      BY <1>1
    <2>6. ASSUME NEW k \in 1..n PROVE <<t, SubSeq(p, 1, k)>> \in dirs \cup MadeIn(mounts, dirs, p)
      <3> DEFINE r == SubSeq(p, 1, k)
      <3>0. k \in 0..Len(p) /\ k \in 1..Len(p)
        BY <1>0
      <3>1. r \in CiPaths /\ IsPrefix(r, p) /\ Len(r) = k
        BY <3>0, PathPrefixes
      <3>2. r \in {SubSeq(p, 1, m) : m \in 1..Len(p)}
        BY <3>0
      <3> HIDE DEF r
      <3>3. IsTop(mounts, r, t) /\ TopIn(mounts, r) = t
        BY <1>t, <2>5, <3>1, RootCovers DEF t
      <3>4. r # <<>>
        <4>1. Len(<<>>) = 0
          OBVIOUS
        <4> QED BY <3>1, <4>1
      <3>5. CASE ExistsIn(mounts, dirs, r)
        <4>1. mounts[t].at = r \/ <<t, r>> \in dirs
          BY <3>1, <3>3, <3>5, ExistsInTop
        <4>2. <<t, r>> \in dirs
          BY <2>5, <3>4, <4>1
        <4> QED BY <4>2 DEF r
      <3>6. CASE ~ExistsIn(mounts, dirs, r)
        <4>1. r \in MissingIn(mounts, dirs, p)
          BY <3>2, <3>6 DEF MissingIn
        <4>2. <<TopIn(mounts, r), r>> \in MadeIn(mounts, dirs, p)
          BY <4>1 DEF MadeIn
        <4> QED BY <3>3, <4>2 DEF r
      <3> QED BY <3>5, <3>6
    <2>7. ASSUME NEW k \in 1..Len(q) PROVE <<t, SubSeq(q, 1, k)>> \in dirs \cup MadeIn(mounts, dirs, p)
      <3>1. k \in 1..n /\ k \in 0..n
        BY <2>2
      <3> QED BY <2>2, <2>6, <3>1
    <2> QED BY <2>3, <2>4, <2>7
  <1>3. ASSUME NEW d \in MadeIn(mounts, dirs, p)
        PROVE  d[1] = t /\ d[1] \in DOMAIN mounts /\ mounts[d[1]].at = <<>>
    BY <1>1, <1>t
  <1> QED BY <1>2, <1>3 DEF ClosedUp, t

\* A mount made last is the one that what lies at it or below it lies in.
LEMMA TopAfter ==
  ASSUME NEW mounts, MountTable(mounts), NEW k, k \in Nat, \A i \in DOMAIN mounts : i < k,
         NEW m, m.at \in CiPaths, m.kind # "root"
  PROVE  /\ MountTable(Mounted(mounts, k, m))
         /\ \A p \in CiPaths : IsPrefix(m.at, p) => IsTop(Mounted(mounts, k, m), p, k)
         /\ \A t : \A p \in CiPaths : ~IsPrefix(m.at, p) =>
              (IsTop(Mounted(mounts, k, m), p, t) <=> IsTop(mounts, p, t))
         /\ Mounted(mounts, k, m)[k] = m
         /\ DOMAIN Mounted(mounts, k, m) = DOMAIN mounts \cup {k}
         /\ \A i \in DOMAIN mounts : Mounted(mounts, k, m)[i] = mounts[i]
  <1> DEFINE new == Mounted(mounts, k, m)
  <1>1. PICK n \in Nat : DOMAIN mounts \subseteq 1..n
    BY DEF MountTable
  <1>2. DOMAIN new = DOMAIN mounts \cup {k} /\ new[k] = m
    BY DEF Mounted
  <1>3. \A i \in DOMAIN mounts : i # k /\ new[i] = mounts[i]
    BY <1>1 DEF Mounted
  <1> HIDE DEF new
  <1>4. MountTable(new)
    <2>1. 1 \in DOMAIN mounts /\ mounts[1] = On("root", <<>>)
      BY DEF MountTable
    <2>2. 1 < k
      BY <2>1
    <2>3. DOMAIN new \subseteq 1..n + k
      BY <1>1, <1>2, <2>2
    <2>4. n + k \in Nat
      OBVIOUS
    <2>5. \A i \in DOMAIN new : new[i].at \in CiPaths /\ (new[i].kind = "root" => i = 1)
      BY <1>2, <1>3 DEF MountTable
    <2> QED BY <1>2, <1>3, <2>1, <2>3, <2>4, <2>5 DEF MountTable
  <1>5. ASSUME NEW p \in CiPaths, IsPrefix(m.at, p) PROVE IsTop(new, p, k)
    <2>1. \A i \in DOMAIN new : i <= k
      BY <1>1, <1>2
    <2> QED BY <1>2, <1>5, <2>1 DEF IsTop
  <1>6. ASSUME NEW t, NEW p \in CiPaths, ~IsPrefix(m.at, p) PROVE IsTop(new, p, t) <=> IsTop(mounts, p, t)
    BY <1>2, <1>3, <1>6 DEF IsTop
  <1> QED BY <1>2, <1>3, <1>4, <1>5, <1>6 DEF new

\* A request that is granted leaves every mount point within reach.
LEMMA MountReaches ==
  ASSUME NEW mounts, MountTable(mounts), NEW dirs, Reached(mounts, dirs),
         NEW k, k \in Nat, \A i \in DOMAIN mounts : i < k,
         NEW m, m.at \in CiPaths, m.kind # "root",
         NEW more, dirs \cup MadeIn(mounts, dirs, m.at) \subseteq more
  PROVE  Reached(Mounted(mounts, k, m), more)
  <1> DEFINE new == Mounted(mounts, k, m)
  <1>1. /\ MountTable(new) /\ DOMAIN new = DOMAIN mounts \cup {k} /\ new[k] = m
        /\ \A i \in DOMAIN mounts : new[i] = mounts[i]
    <2>1. MountTable(new)
      BY TopAfter
    <2>2. DOMAIN new = DOMAIN mounts \cup {k}
      BY DEF Mounted
    <2>3. new[k] = m
      BY DEF Mounted
    <2>4. \A i \in DOMAIN mounts : new[i] = mounts[i]
      <3>1. \A i \in DOMAIN mounts : i \in Nat /\ i # k
        BY DEF MountTable
      <3> QED BY <3>1 DEF Mounted
    <2> QED BY <2>1, <2>2, <2>3, <2>4
  <1>2. ASSUME NEW p \in CiPaths, NEW t, ~IsPrefix(m.at, p) PROVE IsTop(new, p, t) <=> IsTop(mounts, p, t)
    BY <1>2, TopAfter
  <1>3. ASSUME NEW p \in CiPaths, IsPrefix(m.at, p) PROVE IsTop(new, p, k)
    BY <1>3, TopAfter
  <1> HIDE DEF new
  \* A path that the new mount does not cover is where it was.
  <1>4. ASSUME NEW p \in CiPaths, ~IsPrefix(m.at, p), ExistsIn(mounts, dirs, p)
        PROVE  ExistsIn(new, more, p)
    <2>1. PICK t : IsTop(mounts, p, t)
      BY CoverIsTop
    <2>2. IsTop(new, p, t) /\ new[t] = mounts[t]
      BY <1>1, <1>2, <1>4, <2>1 DEF IsTop
    <2>3. mounts[t].at = p \/ <<t, p>> \in dirs
      BY <1>4, <2>1, ExistsInTop
    <2>4. new[t].at = p \/ <<t, p>> \in more
      BY <2>2, <2>3
    <2> QED BY <1>1, <2>2, <2>4, ExistsInTop
  <1>5. ASSUME NEW i \in DOMAIN new, IsTop(new, new[i].at, i), NEW n \in 1..Len(new[i].at)
        PROVE  ExistsIn(new, more, SubSeq(new[i].at, 1, n))
    <2> DEFINE p == new[i].at
               q == SubSeq(p, 1, n)
    <2>1. p \in CiPaths
      BY <1>1 DEF MountTable
    <2>2. n \in 0..Len(p) /\ Len(p) \in Nat
      BY <2>1 DEF CiPaths
    <2>3. q \in CiPaths /\ Len(q) = n /\ IsPrefix(q, p) /\ (n = Len(p) => q = p)
      BY <2>1, <2>2, PathPrefixes
    <2> HIDE DEF q
    <2>4. CASE i = k
      <3>1. p = m.at
        BY <1>1, <2>4
      <3>2. CASE n = Len(p)
        <4>1. q = p
          BY <2>3, <3>2
        <4>2. IsTop(new, q, k) /\ new[k].at = q
          BY <1>1, <1>5, <2>4, <3>1, <4>1
        <4>3. ExistsIn(new, more, q)
          BY <1>1, <2>3, <4>2, ExistsInTop
        <4> QED BY <4>3 DEF q
      <3>3. CASE n # Len(p)
        <4>1. ~IsPrefix(m.at, q)
          <5>1. IsPrefix(m.at, q) => Len(m.at) <= Len(q)
            BY <2>3, PrefixOrder
          <5> QED BY <2>2, <2>3, <3>1, <3>3, <5>1
        <4>2. CASE ExistsIn(mounts, dirs, q)
          BY <1>4, <2>3, <4>1, <4>2 DEF q
        <4>3. CASE ~ExistsIn(mounts, dirs, q)
          <5>1. q \in MissingIn(mounts, dirs, m.at)
            BY <3>1, <4>3 DEF MissingIn, q
          <5>2. <<TopIn(mounts, q), q>> \in more
            BY <5>1 DEF MadeIn
          <5>3. PICK t : IsTop(mounts, q, t)
            BY <2>3, CoverIsTop
          <5>4. TopIn(mounts, q) = t
            BY <2>3, <5>3, CoverIsTop
          <5>5. IsTop(new, q, t) /\ new[t] = mounts[t]
            BY <1>1, <1>2, <2>3, <4>1, <5>3 DEF IsTop
          <5>6. ExistsIn(new, more, q)
            <6>1. <<t, q>> \in more
              BY <5>2, <5>4
            <6> QED BY <1>1, <2>3, <5>5, <6>1, ExistsInTop
          <5> QED BY <5>6 DEF q
        <4> QED BY <4>2, <4>3
      <3> QED BY <3>2, <3>3
    <2>5. CASE i # k
      <3>1. i \in DOMAIN mounts /\ p = mounts[i].at /\ i < k
        BY <1>1, <2>5
      <3>2. ~IsPrefix(m.at, p)
        <4>1. k \in DOMAIN new /\ new[k] = m
          BY <1>1
        <4>2. IsPrefix(m.at, p) => k <= i
          BY <1>5, <4>1 DEF IsTop
        <4>3. i \in Nat
          BY <3>1 DEF MountTable
        <4> QED BY <3>1, <4>2, <4>3
      <3>3. IsTop(mounts, p, i)
        BY <1>2, <1>5, <2>1, <3>2
      <3>4. ExistsIn(mounts, dirs, q)
        BY <3>1, <3>3 DEF Reached, q
      <3>5. ~IsPrefix(m.at, q)
        BY <2>1, <2>3, <3>2, PrefixOrder
      <3>6. ExistsIn(new, more, q)
        BY <1>4, <2>3, <3>4, <3>5
      <3> QED BY <3>6 DEF q
    <2> QED BY <2>4, <2>5
  <1> QED BY <1>5 DEF Reached, new

\* The private devices in place of whatever was mounted in /dev.
LEMMA DevicesReach ==
  ASSUME NEW mounts, MountTable(mounts), NEW dirs, Reached(mounts, dirs),
         NEW k, k \in Nat, \A i \in DOMAIN mounts : i < k,
         NEW gone, \A i \in gone : IsPrefix(Dev, mounts[i].at), NEW more, dirs \subseteq more
  PROVE  /\ MountTable(Mounted(Restrict(mounts, DOMAIN mounts \ gone), k, On("devs", Dev)))
         /\ Reached(Mounted(Restrict(mounts, DOMAIN mounts \ gone), k, On("devs", Dev)), more)
  <1> DEFINE kept == Restrict(mounts, DOMAIN mounts \ gone)
             m == On("devs", Dev)
             new == Mounted(kept, k, m)
  <1>1. DOMAIN kept = DOMAIN mounts \ gone /\ \A i \in DOMAIN kept : kept[i] = mounts[i]
    BY DEF Restrict
  <1>2. m.at = Dev /\ m.kind # "root" /\ m.at \in CiPaths /\ Len(Dev) = 1
    BY DevIsPath DEF On
  <1> HIDE DEF kept, m
  <1>3. MountTable(kept)
    <2>1. 1 \notin gone
      <3>1. 1 \in DOMAIN mounts /\ mounts[1].at = <<>>
        BY DEF MountTable, On
      <3>2. IsPrefix(Dev, <<>>) => Dev = <<>>
        BY DevIsPath, PrefixOrder
      <3>3. Len(<<>>) = 0
        OBVIOUS
      <3> QED BY <1>2, <3>1, <3>2, <3>3
    <2>2. PICK n \in Nat : DOMAIN mounts \subseteq 1..n
      BY DEF MountTable
    <2>3. DOMAIN kept \subseteq 1..n
      BY <1>1, <2>2
    <2> QED BY <1>1, <2>1, <2>3 DEF MountTable
  <1>4. /\ MountTable(new)
        /\ \A p \in CiPaths : IsPrefix(m.at, p) => IsTop(new, p, k)
        /\ \A t : \A p \in CiPaths : ~IsPrefix(m.at, p) => (IsTop(new, p, t) <=> IsTop(kept, p, t))
        /\ new[k] = m /\ DOMAIN new = DOMAIN kept \cup {k}
        /\ \A i \in DOMAIN kept : new[i] = kept[i]
    <2>1. \A i \in DOMAIN kept : i < k /\ i \in Nat
      BY <1>1, <1>3 DEF MountTable
    <2>2. MountTable(new)
      BY <1>2, <1>3, <2>1, TopAfter
    <2>3. \A p \in CiPaths : IsPrefix(m.at, p) => IsTop(new, p, k)
      BY <1>2, <1>3, <2>1, TopAfter
    <2>4. \A t : \A p \in CiPaths : ~IsPrefix(m.at, p) => (IsTop(new, p, t) <=> IsTop(kept, p, t))
      BY <1>2, <1>3, <2>1, TopAfter
    <2>5. DOMAIN new = DOMAIN kept \cup {k}
      BY DEF Mounted
    <2>6. new[k] = m /\ \A i \in DOMAIN kept : new[i] = kept[i]
      BY <2>1 DEF Mounted
    <2> QED BY <2>2, <2>3, <2>4, <2>5, <2>6
  <1> HIDE DEF new
  <1>5. \A i \in DOMAIN mounts : mounts[i].at \in CiPaths
    BY DEF MountTable
  \* A path outside /dev lies in what it lay in.
  <1>6. ASSUME NEW p \in CiPaths, ~IsPrefix(Dev, p), NEW t
        PROVE  IsTop(new, p, t) <=> IsTop(mounts, p, t)
    <2>1. \A i \in DOMAIN mounts : IsPrefix(mounts[i].at, p) => i \in DOMAIN kept
      BY <1>1, <1>5, <1>6, DevIsPath, PrefixOrder
    <2>2. IsTop(kept, p, t) <=> IsTop(mounts, p, t)
      BY <1>1, <2>1 DEF IsTop
    <2> QED BY <1>2, <1>4, <1>6, <2>2
  <1>7. ASSUME NEW p \in CiPaths, ~IsPrefix(Dev, p), ExistsIn(mounts, dirs, p)
        PROVE  ExistsIn(new, more, p)
    <2>1. PICK t : IsTop(mounts, p, t)
      BY CoverIsTop
    <2>2. IsTop(new, p, t)
      BY <1>6, <1>7, <2>1
    <2>3. new[t] = mounts[t]
      <3>1. IsTop(kept, p, t)
        BY <1>2, <1>4, <1>7, <2>2
      <3> QED BY <1>1, <1>4, <3>1 DEF IsTop
    <2>4. mounts[t].at = p \/ <<t, p>> \in dirs
      BY <1>7, <2>1, ExistsInTop
    <2> QED BY <1>4, <2>2, <2>3, <2>4, ExistsInTop
  <1>8. ASSUME NEW i \in DOMAIN new, IsTop(new, new[i].at, i), NEW n \in 1..Len(new[i].at)
        PROVE  ExistsIn(new, more, SubSeq(new[i].at, 1, n))
    <2> DEFINE p == new[i].at
               q == SubSeq(p, 1, n)
    <2>1. p \in CiPaths
      BY <1>4 DEF MountTable
    <2>2. n \in 0..Len(p) /\ Len(p) \in Nat
      BY <2>1 DEF CiPaths
    <2>3. q \in CiPaths /\ Len(q) = n /\ IsPrefix(q, p) /\ (n = Len(p) => q = p)
      BY <2>1, <2>2, PathPrefixes
    <2> HIDE DEF q
    <2>4. CASE i = k
      <3>1. p = Dev
        BY <1>2, <1>4, <2>4
      <3>2. n = Len(p)
        <4>1. Len(p) = 1 /\ n \in 1..Len(p)
          BY <1>2, <3>1
        <4> QED BY <4>1
      <3>3. q = p
        BY <2>3, <3>2
      <3>4. IsTop(new, q, k) /\ new[k].at = q
        BY <1>8, <2>4, <3>3
      <3>5. ExistsIn(new, more, q)
        BY <1>4, <2>3, <3>4, ExistsInTop
      <3> QED BY <3>5 DEF q
    <2>5. CASE i # k
      <3>1. i \in DOMAIN kept /\ i \in DOMAIN mounts /\ new[i] = mounts[i] /\ i < k /\ i \in Nat
        <4>1. i \in DOMAIN kept /\ i \in DOMAIN mounts /\ new[i] = mounts[i]
          BY <1>1, <1>4, <2>5
        <4>2. i \in Nat
          BY <4>1 DEF MountTable
        <4> QED BY <4>1, <4>2
      <3>2. ~IsPrefix(Dev, p)
        <4>1. IsPrefix(new[k].at, p) => k <= i
          BY <1>4, <1>8 DEF IsTop
        <4>2. new[k].at = Dev
          BY <1>2, <1>4
        <4> QED BY <3>1, <4>1, <4>2
      <3>3. IsTop(mounts, p, i)
        BY <1>6, <1>8, <2>1, <3>2
      <3>4. ExistsIn(mounts, dirs, q)
        BY <3>1, <3>3 DEF Reached, q
      <3>5. ~IsPrefix(Dev, q)
        BY <2>1, <2>3, <3>2, DevIsPath, PrefixOrder
      <3>6. ExistsIn(new, more, q)
        BY <1>7, <2>3, <3>4, <3>5
      <3> QED BY <3>6 DEF q
    <2> QED BY <2>4, <2>5
  <1>9. Reached(new, more)
    BY <1>8 DEF Reached
  <1> QED BY <1>4, <1>9 DEF new, kept, m

\* What is missing down to a path lies in the mount that the path lies in.
LEMMA MadeInOne ==
  ASSUME NEW mounts, MountTable(mounts), NEW dirs, Reached(mounts, dirs), NEW p \in CiPaths
  PROVE  \A d \in MadeIn(mounts, dirs, p) : d[1] = TopIn(mounts, p) /\ IsPrefix(d[2], p)
  <1> SUFFICES ASSUME NEW d \in MadeIn(mounts, dirs, p)
               PROVE  d[1] = TopIn(mounts, p) /\ IsPrefix(d[2], p)
    OBVIOUS
  <1>1. PICK n \in 1..Len(p) : /\ d = <<TopIn(mounts, SubSeq(p, 1, n)), SubSeq(p, 1, n)>>
                               /\ ~ExistsIn(mounts, dirs, SubSeq(p, 1, n))
    BY DEF MadeIn, MissingIn
  <1>2. n \in 0..Len(p)
    BY DEF CiPaths
  <1>3. SubSeq(p, 1, n) \in CiPaths /\ IsPrefix(SubSeq(p, 1, n), p)
    BY <1>2, PathPrefixes
  <1>4. PICK t : IsTop(mounts, p, t)
    BY CoverIsTop
  <1>5. IsTop(mounts, SubSeq(p, 1, n), t)
    BY <1>1, <1>4, PrefixInTop
  <1>6. TopIn(mounts, SubSeq(p, 1, n)) = TopIn(mounts, p)
    BY <1>3, <1>4, <1>5, CoverIsTop
  <1> QED BY <1>1, <1>3, <1>6

-----------------------------------------------------------------------------
(* The mounts.                                                              *)

LastMount == Len(KernelMounts) + Len(MountRequests) + 1

\* Every mount is one of the kernel's, a request under its number, or the devices.
MountsKept ==
  \A i \in DOMAIN ciMounts :
    \/ i \in 1..Len(KernelMounts) /\ ciMounts[i] = KernelMounts[i]
    \/ \E j \in 1..Len(MountRequests) :
         i = Len(KernelMounts) + j /\ ciMounts[i] = MountRequests[j]
    \/ i = LastMount /\ ciMounts[i] = On("devs", Dev)

DirsNow == ciScene.dirs \cup ciDirs

MadeSoFar ==
  /\ \A i \in DOMAIN ciMounts : i < Len(KernelMounts) + ciI
  /\ \A j \in 1..ciI - 1 : Len(KernelMounts) + j \in DOMAIN ciMounts

\* All were made, and at most those in /dev are gone again, behind the devices.
AllMade ==
  /\ LastMount \in DOMAIN ciMounts
  /\ \A j \in 1..Len(MountRequests) :
       Len(KernelMounts) + j \in DOMAIN ciMounts \/ IsPrefix(Dev, MountRequests[j].at)

\* What was made, and where.
MadeInPlace ==
  \A d \in ciDirs : /\ d[1] \in 1..LastMount
                    /\ d[1] \in RootNumbers \/ IsPrefix(d[2], ciScene.workdir)

TreeInv ==
  /\ MountsKept /\ MadeInPlace
  /\ ciPc \in {"overlay", "hosts", "kernel", "mounts"} \cup Settled \/ Forked => 1 \in DOMAIN ciMounts
  /\ ciPc = "mounts" => MadeSoFar
  /\ ciPc \in Settled \/ Forked => AllMade
  /\ ciPc \in Pivoting \cup {"mounts", "readonly", "workdir"} => Reached(ciMounts, DirsNow)
  /\ ciPc \in Inheriting \cup Building \cup Pivoting \cup {"readonly", "workdir"} =>
       ClosedUp(DirsNow) /\ \A d \in ciDirs : d[1] \in RootNumbers

\* Where the state is, seen as a table of mounts.
LEMMA TreeAsTable ==
  /\ \A p : Covering(p) = CoverIn(ciMounts, p)
  /\ \A p : PathExists(p) <=> ExistsIn(ciMounts, DirsNow, p)
  /\ \A p : MadeDown(p) = MadeIn(ciMounts, DirsNow, p)
  /\ \A p : Missing(p) = MissingIn(ciMounts, DirsNow, p)
  <1>1. \A p : Covering(p) = CoverIn(ciMounts, p) /\ CoveringNumber(p) = TopIn(ciMounts, p)
    BY DEF Covering, CoveringNumber, CoverIn, TopIn
  <1>2. \A p : PathExists(p) <=> ExistsIn(ciMounts, DirsNow, p)
    BY <1>1 DEF PathExists, ExistsIn, DirsNow
  <1>3. \A p : Missing(p) = MissingIn(ciMounts, DirsNow, p)
    BY <1>2 DEF Missing, MissingIn
  <1> QED BY <1>1, <1>2, <1>3 DEF MadeIn, MadeDown

\* The kernel's file systems.
LEMMA KernelTable ==
  /\ Len(KernelMounts) = 4
  /\ KernelMounts[1] = On("root", <<>>) /\ KernelMounts[4] = On("hostdev", Dev)
  /\ \A i \in 1..4 : /\ KernelMounts[i].at \in CiPaths /\ Len(KernelMounts[i].at) \in {0, 1}
                     /\ KernelMounts[i].kind \in {"root", "proc", "sys", "hostdev"}
                     /\ KernelMounts[i].kind = "root" => i = 1
                     /\ KernelMounts[i].kind = "hostdev" => i = 4
                     /\ KernelMounts[i].at = <<>> => i = 1
  <1>1. ASSUME NEW S, NEW a \in S PROVE <<a>> \in Seq(S) /\ Len(<<a>>) = 1 /\ <<a>> # <<>>
    <2>1. <<a>> \in Seq(S)
      OBVIOUS
    <2>2. Len(<<a>>) = 1
      OBVIOUS
    <2>3. <<a>> # <<>>
      OBVIOUS
    <2> QED BY <2>1, <2>2, <2>3
  <1>2. "proc" \in FileNames /\ "sys" \in FileNames
    BY CiAssumption
  <1>3. <<"proc">> \in CiPaths /\ Len(<<"proc">>) = 1 /\ <<"sys">> \in CiPaths /\ Len(<<"sys">>) = 1
    BY <1>1, <1>2, Zenon DEF CiPaths
  <1>4. <<>> \in CiPaths /\ Len(<<>>) = 0
    BY DEF CiPaths
  <1>5. /\ Len(KernelMounts) = 4 /\ KernelMounts[1] = On("root", <<>>)
        /\ KernelMounts[2] = On("proc", <<"proc">>) /\ KernelMounts[3] = On("sys", <<"sys">>)
        /\ KernelMounts[4] = On("hostdev", Dev)
    BY DEF KernelMounts
  <1>6. \A kind, at : On(kind, at).kind = kind /\ On(kind, at).at = at
    BY DEF On
  <1>7. /\ KernelMounts[1].at \in CiPaths /\ Len(KernelMounts[1].at) = 0 /\ KernelMounts[1].kind = "root"
        /\ KernelMounts[2].at \in CiPaths /\ Len(KernelMounts[2].at) = 1 /\ KernelMounts[2].kind = "proc"
        /\ KernelMounts[3].at \in CiPaths /\ Len(KernelMounts[3].at) = 1 /\ KernelMounts[3].kind = "sys"
        /\ KernelMounts[4].at \in CiPaths /\ Len(KernelMounts[4].at) = 1 /\ KernelMounts[4].kind = "hostdev"
    BY <1>3, <1>4, <1>5, <1>6, DevIsPath
  <1>8. \A i \in 1..4 : i = 1 \/ i = 2 \/ i = 3 \/ i = 4
    OBVIOUS
  <1>9. \A i \in 1..4 : KernelMounts[i].at = <<>> => i = 1
    BY <1>4, <1>7, <1>8
  <1> QED BY <1>5, <1>7, <1>8, <1>9

\* The mounts are a table of mounts on the root.
LEMMA TableKept ==
  ASSUME ciScene \in CiScenes, MountsKept
  PROVE  /\ DOMAIN ciMounts \subseteq 1..LastMount
         /\ \A i \in DOMAIN ciMounts : ciMounts[i].at \in CiPaths /\ ciMounts[i].kind \in MountKinds
         /\ 1 \in DOMAIN ciMounts => MountTable(ciMounts)
         /\ \A i \in DOMAIN ciMounts : ciMounts[i].kind = "hostdev" => i = 4 /\ ciMounts[i].at = Dev
         /\ LastMount \in DOMAIN ciMounts => ciMounts[LastMount] = On("devs", Dev)
  <1> DEFINE n == Len(MountRequests)
  <1>1. n \in Nat /\ LastMount = n + 5
    BY RequestsInOrder, KernelTable DEF LastMount
  <1>2. \A j \in 1..n : MountRequests[j].at \in CiPaths /\ MountRequests[j].kind \in {"volume", "tmpfs", "mask"}
    <2> DEFINE R == [kind : {"volume", "tmpfs", "mask"}, at : CiPaths]
    <2>1. MountRequests \in Seq(R)
      BY RequestsInOrder
    <2>2. \A r \in R : r.at \in CiPaths /\ r.kind \in {"volume", "tmpfs", "mask"}
      BY DevIsPath
    <2> HIDE DEF R
    <2>3. \A j \in 1..n : MountRequests[j] \in R
      BY <2>1
    <2> QED BY <2>2, <2>3
  <1>3. On("devs", Dev).at = Dev /\ On("devs", Dev).kind = "devs" /\ Dev \in CiPaths
    BY DevIsPath DEF On
  <1>4. ASSUME NEW i \in DOMAIN ciMounts
        PROVE  \/ i \in 1..4 /\ ciMounts[i] = KernelMounts[i]
               \/ \E j \in 1..n : i = 4 + j /\ ciMounts[i] = MountRequests[j]
               \/ i = n + 5 /\ ciMounts[i] = On("devs", Dev)
    BY <1>1, KernelTable DEF MountsKept
  <1> HIDE DEF n
  <1>5. ASSUME NEW i \in DOMAIN ciMounts
        PROVE  /\ i \in 1..n + 5 /\ ciMounts[i].at \in CiPaths /\ ciMounts[i].kind \in MountKinds
               /\ ciMounts[i].kind = "root" => i = 1
               /\ ciMounts[i].kind = "hostdev" => i = 4 /\ ciMounts[i].at = Dev
               /\ i = 1 => ciMounts[i] = On("root", <<>>)
               /\ i = n + 5 => ciMounts[i] = On("devs", Dev)
    <2>1. CASE i \in 1..4 /\ ciMounts[i] = KernelMounts[i]
      BY <1>1, <1>3, <2>1, KernelTable DEF MountKinds, On
    <2>2. CASE \E j \in 1..n : i = 4 + j /\ ciMounts[i] = MountRequests[j]
      BY <1>1, <1>2, <2>2 DEF MountKinds
    <2>3. CASE i = n + 5 /\ ciMounts[i] = On("devs", Dev)
      BY <1>1, <1>3, <2>3 DEF MountKinds
    <2> QED BY <1>4, <2>1, <2>2, <2>3
  <1> QED BY <1>1, <1>5 DEF MountTable

\* The mounts on the root itself.
LEMMA RootNumbered ==
  ASSUME ciScene \in CiScenes, MountsKept
  PROVE  /\ 1 \in RootNumbers /\ RootNumbers \subseteq 1..LastMount
         /\ \A i \in DOMAIN ciMounts : ciMounts[i].at = <<>> => i \in RootNumbers
  <1>1. Len(MountRequests) \in Nat /\ LastMount = Len(MountRequests) + 5 /\ Len(KernelMounts) = 4
    BY RequestsInOrder, KernelTable DEF LastMount
  <1>2. DOMAIN MountRequests = 1..Len(MountRequests)
    BY RequestsInOrder
  <1>3. 1 \in RootNumbers /\ RootNumbers \subseteq 1..LastMount
    BY <1>1, <1>2 DEF RootNumbers
  <1>4. ASSUME NEW i \in DOMAIN ciMounts, ciMounts[i].at = <<>> PROVE i \in RootNumbers
    <2>1. CASE i \in 1..4 /\ ciMounts[i] = KernelMounts[i]
      BY <1>3, <1>4, <2>1, KernelTable
    <2>2. CASE \E j \in 1..Len(MountRequests) : i = 4 + j /\ ciMounts[i] = MountRequests[j]
      BY <1>1, <1>2, <1>4, <2>2 DEF RootNumbers
    <2>3. ciMounts[i] # On("devs", Dev)
      <3>1. Len(<<>>) = 0 /\ On("devs", Dev).at = Dev
        BY DEF On
      <3> QED BY <1>4, <3>1, DevIsPath
    <2> QED BY <1>1, <2>1, <2>2, <2>3 DEF MountsKept
  <1> QED BY <1>3, <1>4

\* The kernel's file systems, on the root.
LEMMA KernelReached ==
  ASSUME RecordsOK, TreeInv, ciPc = "kernel", ciI = 1, ciI' = ciI, ciPay' = ciPay, ~Forked,
         ciScene' = ciScene, MountRequests' = MountRequests, LastMount' = LastMount,
         NEW K \in SUBSET (1..4), 1 \in K, ciPc' = "mounts", ciMounts' = Restrict(KernelMounts, K),
         ciDirs' = ciDirs \cup {<<1, p>> : p \in {<<"proc">>, <<"sys">>, Dev}}
  PROVE  TreeInv'
  <1> DEFINE new == ciMounts'
             Tops == {<<"proc">>, <<"sys">>, Dev}
  <1>1. DOMAIN new = K /\ \A i \in K : new[i] = KernelMounts[i]
    BY DEF Restrict
  <1>2. MountsKept'
    BY <1>1, KernelTable DEF MountsKept
  <1>3. MadeSoFar'
    <2>1. \A i \in DOMAIN new : i < Len(KernelMounts) + ciI'
      <3>1. \A i \in 1..4 : i < 4 + 1
        OBVIOUS
      <3>2. ciI' = 1 /\ Len(KernelMounts) = 4
        BY KernelTable
      <3> QED BY <1>1, <3>1, <3>2
    <2>2. 1..ciI' - 1 = {}
      OBVIOUS
    <2> QED BY <2>1, <2>2 DEF MadeSoFar
  <1>4. MountTable(new)
    <2>1. DOMAIN new \subseteq 1..4 /\ 4 \in Nat
      BY <1>1
    <2> QED BY <1>1, <2>1, KernelTable DEF MountTable
  <1>5. Reached(new, DirsNow')
    <2> SUFFICES ASSUME NEW i \in DOMAIN new, IsTop(new, new[i].at, i), NEW n \in 1..Len(new[i].at)
                 PROVE  ExistsIn(new, DirsNow', SubSeq(new[i].at, 1, n))
      BY DEF Reached
    <2>1. new[i].at \in CiPaths /\ Len(new[i].at) \in {0, 1}
      BY <1>1, KernelTable
    <2>2. n = Len(new[i].at) /\ n \in 0..Len(new[i].at)
      <3>1. \A l \in {0, 1} : \A x \in 1..l : x = l /\ x \in 0..l
        OBVIOUS
      <3> QED BY <2>1, <3>1
    <2>3. SubSeq(new[i].at, 1, n) = new[i].at
      BY <2>1, <2>2, PathPrefixes
    <2>4. ExistsIn(new, DirsNow', new[i].at)
      BY <1>4, <2>1, ExistsInTop
    <2> QED BY <2>3, <2>4
  <1>6. \A p \in Tops : p \in Targets /\ Len(p) = 1
    <2>1. ASSUME NEW S, NEW a \in S PROVE <<a>> \in Seq(S) /\ Len(<<a>>) = 1 /\ <<a>> # <<>>
      <3>1. <<a>> \in Seq(S)
        OBVIOUS
      <3>2. Len(<<a>>) = 1
        OBVIOUS
      <3>3. <<a>> # <<>>
        OBVIOUS
      <3> QED BY <3>1, <3>2, <3>3
    <2>2. "proc" \in FileNames /\ "sys" \in FileNames
      BY CiAssumption
    <2>3. <<"proc">> \in Targets /\ Len(<<"proc">>) = 1 /\ <<"sys">> \in Targets /\ Len(<<"sys">>) = 1
      BY <2>1, <2>2, Zenon DEF CiPaths, Targets
    <2> QED BY <2>3, DevIsPath
  <1> HIDE DEF Tops
  <1>7. DirsNow' = DirsNow \cup {<<1, p>> : p \in Tops}
    BY DEF DirsNow, Tops
  <1>8. ClosedUp(DirsNow) /\ \A d \in ciDirs : d[1] \in RootNumbers
    BY DEF TreeInv, Building
  <1>9. ClosedUp(DirsNow')
    <2>1. ASSUME NEW d \in DirsNow
          PROVE  d[2] \in Targets /\ \A n \in 1..Len(d[2]) : <<d[1], SubSeq(d[2], 1, n)>> \in DirsNow'
      BY <1>7, <1>8 DEF ClosedUp
    <2>2. ASSUME NEW p \in Tops
          PROVE  p \in Targets /\ \A n \in 1..Len(p) : <<1, SubSeq(p, 1, n)>> \in DirsNow'
      <3>1. p \in CiPaths /\ Len(p) = 1
        BY <1>6, DevIsPath
      <3>2. ASSUME NEW n \in 1..Len(p) PROVE SubSeq(p, 1, n) = p
        <4>1. n = Len(p) /\ n \in 0..Len(p)
          BY <3>1
        <4> QED BY <3>1, <4>1, PathPrefixes
      <3> QED BY <1>6, <1>7, <3>2
    <2>3. ASSUME NEW d \in {<<1, p>> : p \in Tops}
          PROVE  d[2] \in Targets /\ \A n \in 1..Len(d[2]) : <<d[1], SubSeq(d[2], 1, n)>> \in DirsNow'
      BY <2>2
    <2> QED BY <1>7, <2>1, <2>3 DEF ClosedUp
  <1>r. RootNumbers' = RootNumbers /\ 1 \in RootNumbers /\ RootNumbers \subseteq 1..LastMount
    BY RootNumbered DEF RootNumbers, RecordsOK, TreeInv
  <1>10. \A d \in ciDirs' : d[1] \in RootNumbers'
    BY <1>8, <1>r
  <1>11. MadeInPlace'
    BY <1>10, <1>r DEF MadeInPlace
  <1>12. ~Forked'
    BY DEF Forked
  <1> QED BY <1>1, <1>2, <1>3, <1>5, <1>9, <1>10, <1>11, <1>12
          DEF TreeInv, Settled, Pivoting, Confining, Running

\* Every target is among those asked for.
LEMMA RequestAsked ==
  ASSUME ciScene \in CiScenes, NEW i \in 1..Len(MountRequests)
  PROVE  MountRequests[i].at \in Asked
  <1>1. DOMAIN MountRequests = 1..Len(MountRequests)
    BY RequestsInOrder
  <1> QED BY <1>1 DEF Asked, ToSet

\* A request that is granted.
LEMMA MountGranted ==
  ASSUME RecordsOK, TreeInv, ciPc = "mounts", ciI \in 1..Len(MountRequests), ~Forked, ciPay' = ciPay,
         ciScene' = ciScene, MountRequests' = MountRequests, LastMount' = LastMount,
         Len(MountRequests) \in Nat,
         NEW m, m = MountRequests[ciI],
         ExistsIn(ciMounts, DirsNow, m.at) \/ CoverIn(ciMounts, m.at).at = <<>>,
         ciPc' = "mounts", ciI' = ciI + 1, ciDirs' = ciDirs \cup MadeIn(ciMounts, DirsNow, m.at),
         ciMounts' = Mounted(ciMounts, Len(KernelMounts) + ciI, m)
  PROVE  TreeInv'
  <1> DEFINE k == Len(KernelMounts) + ciI
  <1>1. /\ MountsKept /\ MadeInPlace /\ MadeSoFar /\ 1 \in DOMAIN ciMounts
        /\ Reached(ciMounts, DirsNow) /\ ClosedUp(DirsNow) /\ \A d \in ciDirs : d[1] \in RootNumbers
    BY DEF TreeInv, Building
  <1>2. MountTable(ciMounts) /\ ciScene \in CiScenes
    BY <1>1, TableKept DEF RecordsOK
  <1>3. m.at \in CiPaths /\ m.kind # "root"
    <2> DEFINE R == [kind : {"volume", "tmpfs", "mask"}, at : CiPaths]
    <2>1. MountRequests \in Seq(R)
      BY <1>2, RequestsInOrder
    <2>2. \A r \in R : r.at \in CiPaths /\ r.kind # "root"
      BY DevIsPath
    <2> HIDE DEF R
    <2>3. m \in R
      BY <2>1
    <2> QED BY <2>2, <2>3
  <1>4. k \in Nat /\ \A i \in DOMAIN ciMounts : i < k
    BY <1>1, KernelTable DEF MadeSoFar
  <1>5. DOMAIN ciMounts' = DOMAIN ciMounts \cup {k} /\ ciMounts'[k] = m
        /\ \A i \in DOMAIN ciMounts : ciMounts'[i] = ciMounts[i]
    <2>1. \A i \in DOMAIN ciMounts : i \in Nat /\ i # k
      BY <1>2, <1>4 DEF MountTable
    <2> QED BY <2>1 DEF Mounted
  <1>6. DirsNow' = DirsNow \cup MadeIn(ciMounts, DirsNow, m.at)
    BY DEF DirsNow
  <1>7. Reached(ciMounts', DirsNow')
    BY <1>1, <1>2, <1>3, <1>4, <1>6, MountReaches
  <1>8. /\ ClosedUp(DirsNow')
        /\ \A d \in MadeIn(ciMounts, DirsNow, m.at) : d[1] \in RootNumbers
    <2>1. ClosedUp(DirsNow')
      BY <1>1, <1>2, <1>3, <1>6, MadeInRoot
    <2>2. ASSUME NEW d \in MadeIn(ciMounts, DirsNow, m.at) PROVE d[1] \in RootNumbers
      <3>0. \A e \in MadeIn(ciMounts, DirsNow, m.at) : e[1] \in DOMAIN ciMounts /\ ciMounts[e[1]].at = <<>>
        <4> DEFINE p == m.at
        <4>1. p \in CiPaths /\ (ExistsIn(ciMounts, DirsNow, p) \/ CoverIn(ciMounts, p).at = <<>>)
          BY <1>3
        <4> HIDE DEF p
        <4>2. MountTable(ciMounts) /\ Reached(ciMounts, DirsNow) /\ ClosedUp(DirsNow)
          BY <1>1, <1>2
        <4>3. \A e \in MadeIn(ciMounts, DirsNow, p) : /\ e[1] = TopIn(ciMounts, p)
                                                      /\ e[1] \in DOMAIN ciMounts /\ ciMounts[e[1]].at = <<>>
          BY ONLY <4>1, <4>2, MadeInRoot
        <4> QED BY <4>3 DEF p
      <3>1. d[1] \in DOMAIN ciMounts /\ ciMounts[d[1]].at = <<>>
        BY <2>2, <3>0
      <3> QED BY <1>1, <1>2, <3>1, RootNumbered
    <2> QED BY <2>1, <2>2
  <1>r. RootNumbers' = RootNumbers
    BY DEF RootNumbers
  <1>9. \A d \in ciDirs' : d[1] \in RootNumbers'
    BY <1>1, <1>8, <1>r
  <1>10. MadeInPlace'
    BY <1>1, <1>2, <1>9, <1>r, RootNumbered DEF MadeInPlace
  <1>11. MountsKept'
    BY <1>1, <1>5 DEF MountsKept
  <1>12. MadeSoFar'
    <2>1. \A i \in DOMAIN ciMounts' : i < Len(KernelMounts) + ciI'
      BY <1>1, <1>2, <1>5, KernelTable DEF MadeSoFar, MountTable
    <2>2. \A j \in 1..ciI' - 1 : Len(KernelMounts) + j \in DOMAIN ciMounts'
      <3>1. \A j \in 1..ciI' - 1 : j = ciI \/ j \in 1..ciI - 1
        OBVIOUS
      <3> QED BY <1>1, <1>5, <3>1 DEF MadeSoFar
    <2> QED BY <2>1, <2>2 DEF MadeSoFar
  <1>13. 1 \in DOMAIN ciMounts' /\ ~Forked'
    BY <1>1, <1>5 DEF Forked
  <1> QED BY <1>7, <1>8, <1>9, <1>10, <1>11, <1>12, <1>13
          DEF TreeInv, Settled, Pivoting, Confining, Running

\* The private devices.
LEMMA DevicesGranted ==
  ASSUME RecordsOK, TreeInv, CountsOK, ciPc = "mounts", ciI > Len(MountRequests), ~Forked, ciPay' = ciPay,
         ciScene' = ciScene, MountRequests' = MountRequests, LastMount' = LastMount,
         Len(MountRequests) \in Nat, ciDirs' = ciDirs \cup MadeIn(ciMounts, DirsNow, Dev),
         NEW gone, \A i \in gone : IsPrefix(Dev, ciMounts[i].at), gone \subseteq DOMAIN ciMounts,
         ciPc' = "mkdir",
         ciMounts' = Mounted(Restrict(ciMounts, DOMAIN ciMounts \ gone),
                             Len(KernelMounts) + Len(MountRequests) + 1, On("devs", Dev))
  PROVE  TreeInv'
  <1> DEFINE kept == Restrict(ciMounts, DOMAIN ciMounts \ gone)
  <1>1. /\ MountsKept /\ MadeInPlace /\ MadeSoFar /\ 1 \in DOMAIN ciMounts
        /\ Reached(ciMounts, DirsNow) /\ ClosedUp(DirsNow) /\ \A d \in ciDirs : d[1] \in RootNumbers
    BY DEF TreeInv, Building
  <1>2. MountTable(ciMounts) /\ ciScene \in CiScenes
    BY <1>1, TableKept DEF RecordsOK
  <1>3. ciI = Len(MountRequests) + 1
    BY DEF CountsOK
  <1>4. LastMount \in Nat /\ \A i \in DOMAIN ciMounts : i < LastMount /\ i \in Nat
    BY <1>1, <1>2, <1>3, KernelTable DEF MadeSoFar, LastMount, MountTable
  <1>5. /\ DOMAIN ciMounts' = (DOMAIN ciMounts \ gone) \cup {LastMount} /\ ciMounts'[LastMount] = On("devs", Dev)
        /\ \A i \in DOMAIN ciMounts \ gone : ciMounts'[i] = ciMounts[i]
    <2>1. DOMAIN kept = DOMAIN ciMounts \ gone /\ \A i \in DOMAIN kept : kept[i] = ciMounts[i]
      BY DEF Restrict
    <2>2. ciMounts' = Mounted(kept, LastMount, On("devs", Dev))
      BY DEF LastMount
    <2> HIDE DEF kept
    <2>3. \A i \in DOMAIN kept : i # LastMount
      BY <1>4, <2>1
    <2>4. DOMAIN ciMounts' = DOMAIN kept \cup {LastMount}
      BY <2>2 DEF Mounted
    <2>5. ciMounts'[LastMount] = On("devs", Dev)
      BY <2>2 DEF Mounted
    <2>6. \A i \in DOMAIN kept : ciMounts'[i] = kept[i]
      BY <2>2, <2>3 DEF Mounted
    <2> QED BY <2>1, <2>4, <2>5, <2>6
  <1>7. DirsNow' = DirsNow \cup MadeIn(ciMounts, DirsNow, Dev)
    BY DEF DirsNow
  <1>6. MountTable(ciMounts') /\ Reached(ciMounts', DirsNow')
    <2>1. ciMounts' = Mounted(kept, LastMount, On("devs", Dev))
      BY DEF LastMount
    <2>2. ASSUME NEW more, DirsNow \subseteq more
          PROVE  /\ MountTable(Mounted(kept, LastMount, On("devs", Dev)))
                 /\ Reached(Mounted(kept, LastMount, On("devs", Dev)), more)
      <3>1. LastMount \in Nat /\ \A i \in DOMAIN ciMounts : i < LastMount
        BY <1>4
      <3>2. MountTable(ciMounts) /\ Reached(ciMounts, DirsNow)
        BY <1>1, <1>2
      <3> QED BY <2>2, <3>1, <3>2, DevicesReach
    <2> HIDE DEF kept
    <2>3. DirsNow \subseteq DirsNow'
      BY <1>7
    <2>4. MountTable(Mounted(kept, LastMount, On("devs", Dev)))
          /\ Reached(Mounted(kept, LastMount, On("devs", Dev)), DirsNow')
      BY ONLY <2>2, <2>3
    <2> QED BY <2>1, <2>4
  <1>d. /\ ClosedUp(DirsNow')
        /\ \A d \in MadeIn(ciMounts, DirsNow, Dev) : d[1] \in RootNumbers
    <2>1. PICK t : IsTop(ciMounts, Dev, t)
      BY <1>2, CoverIsTop, DevIsPath
    <2>2. CoverIn(ciMounts, Dev) = ciMounts[t]
      BY <1>2, <2>1, CoverIsTop, DevIsPath
    <2>3. ciMounts[t].at \in CiPaths /\ IsPrefix(ciMounts[t].at, Dev)
      BY <1>2, <2>1 DEF IsTop, MountTable
    <2>4. ciMounts[t].at = Dev \/ ciMounts[t].at = <<>>
      <3> DEFINE a == ciMounts[t].at
      <3>1. a \in CiPaths /\ IsPrefix(a, Dev)
        BY <2>3
      <3> HIDE DEF a
      <3>2. Len(a) <= 1 /\ a = SubSeq(Dev, 1, Len(a)) /\ Len(a) \in Nat
        BY <3>1, DevIsPath, PrefixOrder DEF CiPaths
      <3>3. CASE Len(a) = 1
        <4>1. SubSeq(Dev, 1, 1) = Dev
          BY DevIsPath, PathPrefixes
        <4> QED BY <3>2, <3>3, <4>1 DEF a
      <3>4. CASE Len(a) = 0
        <4>1. a = <<>>
          BY <3>1, <3>4 DEF CiPaths
        <4> QED BY <4>1 DEF a
      <3> QED BY <3>2, <3>3, <3>4
    <2>5. ExistsIn(ciMounts, DirsNow, Dev) \/ CoverIn(ciMounts, Dev).at = <<>>
      BY <2>2, <2>4 DEF ExistsIn
    <2>6. ClosedUp(DirsNow')
      BY <1>1, <1>2, <1>7, <2>5, MadeInRoot, DevIsPath
    <2>7. ASSUME NEW d \in MadeIn(ciMounts, DirsNow, Dev) PROVE d[1] \in RootNumbers
      <3>1. d[1] \in DOMAIN ciMounts /\ ciMounts[d[1]].at = <<>>
        BY <1>1, <1>2, <2>5, MadeInRoot, DevIsPath
      <3> QED BY <1>1, <1>2, <3>1, RootNumbered
    <2> QED BY <2>6, <2>7
  <1>r. RootNumbers' = RootNumbers
    BY DEF RootNumbers
  <1>e. \A d \in ciDirs' : d[1] \in RootNumbers'
    BY <1>1, <1>d, <1>r
  <1>8. AllMade'
    <2>1. ASSUME NEW j \in 1..Len(MountRequests)
          PROVE  Len(KernelMounts) + j \in DOMAIN ciMounts' \/ IsPrefix(Dev, MountRequests[j].at)
      <3> DEFINE i == Len(KernelMounts) + j
      <3>1. i \in DOMAIN ciMounts
        BY <1>1, <1>3 DEF MadeSoFar
      <3>2. i \in 5..Len(MountRequests) + 4
        BY KernelTable
      <3>3. ciMounts[i] = MountRequests[j]
        BY <1>1, <3>1, <3>2, KernelTable DEF MountsKept, LastMount
      <3> HIDE DEF i
      <3>4. i \in DOMAIN ciMounts' \/ IsPrefix(Dev, MountRequests[j].at)
        BY <1>5, <3>1, <3>3
      <3> QED BY <3>4 DEF i
    <2> QED BY <1>5, <2>1 DEF AllMade
  <1>9. MountsKept'
    BY <1>1, <1>5, ZenonT(30) DEF MountsKept
  <1>10. MadeInPlace' /\ 1 \in DOMAIN ciMounts' /\ ~Forked'
    <2>1. MadeInPlace'
      BY <1>1, <1>2, <1>e, <1>r, RootNumbered DEF MadeInPlace
    <2> QED BY <1>6, <2>1 DEF MountTable, Forked
  <1> QED BY <1>d, <1>e, <1>6, <1>8, <1>9, <1>10
          DEF TreeInv, Settled, Pivoting, Confining, Running

\* The working directory is made in one mount.
LEMMA WorkDirMade ==
  ASSUME RecordsOK, TreeInv, ciPc = "workdir", ciScene' = ciScene, 1 \in DOMAIN ciMounts,
         MountRequests' = MountRequests, LastMount' = LastMount,
         ciDirs' = ciDirs \cup MadeDown(ciScene.workdir)
  PROVE  MadeInPlace'
  <1> DEFINE p == ciScene.workdir
  <1>1. p \in CiPaths /\ ciScene \in CiScenes
    BY CiAssumption DEF RecordsOK
  <1>2. MountsKept /\ MadeInPlace /\ Reached(ciMounts, DirsNow)
    BY DEF TreeInv
  <1>3. MountTable(ciMounts) /\ DOMAIN ciMounts \subseteq 1..LastMount
    BY <1>1, <1>2, TableKept
  <1>4. ciDirs' = ciDirs \cup MadeIn(ciMounts, DirsNow, p)
    BY TreeAsTable
  <1>5. \A d \in MadeIn(ciMounts, DirsNow, p) : d[1] = TopIn(ciMounts, p) /\ IsPrefix(d[2], p)
    BY <1>1, <1>2, <1>3, MadeInOne
  <1>6. TopIn(ciMounts, p) \in 1..LastMount
    <2>1. PICK t : IsTop(ciMounts, p, t)
      BY <1>1, <1>3, CoverIsTop
    <2>2. TopIn(ciMounts, p) = t /\ t \in DOMAIN ciMounts
      BY <1>1, <1>3, <2>1, CoverIsTop DEF IsTop
    <2> QED BY <1>3, <2>2
  <1>r. RootNumbers' = RootNumbers
    BY DEF RootNumbers
  <1> HIDE DEF p
  <1>7. ASSUME NEW d \in ciDirs'
        PROVE  d[1] \in 1..LastMount /\ (d[1] \in RootNumbers \/ IsPrefix(d[2], p))
    <2>1. CASE d \in ciDirs
      BY <1>2, <2>1 DEF MadeInPlace, p
    <2>2. CASE d \in MadeIn(ciMounts, DirsNow, p)
      BY <1>5, <1>6, <2>2
    <2> QED BY <1>4, <1>7, <2>1, <2>2
  <1> QED BY <1>7, <1>r DEF MadeInPlace, p

\* What is mounted and made stays in order.
LEMMA StepTree == RecordsOK /\ InitInOrder /\ CountsOK /\ TreeInv /\ [CiNext]_ciVars => TreeInv'
  <1> SUFFICES ASSUME RecordsOK, InitInOrder, CountsOK, TreeInv, [CiNext]_ciVars PROVE TreeInv'
    OBVIOUS
  <1> USE DEF RecordsOK, InitInOrder, CountsOK, TreeInv, Settled, Released, Forked, CiLabels,
          Inheriting, Building, Pivoting, Confining, Running, Ended,
               ciVars, ciParent, ciTree, ciPivot, ciProcs, ciChild, ciOther, ciOthers, ciAll
  <1>s. /\ ciScene' = ciScene /\ MountRequests' = MountRequests /\ LastMount' = LastMount
        /\ Len(MountRequests) \in Nat
    BY SceneStays, RequestsInOrder DEF LastMount
  <1>a. ASSUME UNCHANGED ciMounts
        PROVE  MountsKept' /\ (AllMade => AllMade') /\ (ciI' = ciI /\ MadeSoFar => MadeSoFar')
    BY <1>s, <1>a DEF MountsKept, AllMade, MadeSoFar
  <1>b. ASSUME UNCHANGED ciDirs
        PROVE  /\ MadeInPlace' /\ DirsNow' = DirsNow
               /\ (\A d \in ciDirs : d[1] \in RootNumbers) => (\A d \in ciDirs' : d[1] \in RootNumbers')
    BY <1>s, <1>b DEF MadeInPlace, DirsNow, RootNumbers
  <1> USE <1>s
  <1>0. CASE UNCHANGED ciVars
    BY <1>0, <1>a, <1>b
  <1>1. CASE PinAdmittedRoot
    BY <1>1, <1>a, <1>b DEF PinAdmittedRoot, ParentEnds
  <1>2. CASE ReleaseInit
    BY <1>2, <1>a, <1>b DEF ReleaseInit, ParentEnds
  <1>3. CASE AbortSetup
    BY <1>3, <1>a, <1>b DEF AbortSetup, ParentEnds
  <1>4. CASE AwaitFirst
    BY <1>4, <1>a, <1>b DEF AwaitFirst, StatusClosed
  <1>5. CASE AwaitSecond
    BY <1>5, <1>a, <1>b DEF AwaitSecond, StatusClosed
  <1>6. CASE ParentReaps
    BY <1>6, <1>a, <1>b DEF ParentReaps, ParentEnds
  <1>7. CASE RemoveWorkDir
    BY <1>7, <1>a, <1>b DEF RemoveWorkDir
  <1>8. CASE ParentKilled
    BY <1>8, <1>a, <1>b DEF ParentKilled
  <1>9. CASE ApplyOOMScore \/ ApplyRlimits \/ ApplyScheduler
    BY <1>9, <1>a, <1>b DEF ApplyOOMScore, InheritProcessPolicy, Attempt, ApplyRlimits,
       ApplyScheduler
  <1>10. CASE AwaitReady
    BY <1>10, <1>a, <1>b DEF AwaitReady
  <1>11. CASE MakePrivate
    BY <1>11, <1>a, <1>b DEF MakePrivate, Attempt
  <1>12. CASE AttachPinnedRootFS
    <2>1. UNCHANGED <<ciI, ciDirs, ciPay>> /\ ~Forked /\ ciPc = "stage"
      BY <1>12 DEF AttachPinnedRootFS, Attempt, Staged
    <2>2. CASE ciPc' = "failed" /\ UNCHANGED ciMounts
      BY <2>1, <2>2, <1>a, <1>b
    <2>3. CASE ciPc' = "overlay" /\ ciMounts' = <<On("root", <<>>)>>
      <3>1. DOMAIN ciMounts' = {1} /\ ciMounts'[1] = KernelMounts[1]
        BY <2>3, KernelTable
      <3>2. MountsKept'
        BY <3>1, KernelTable DEF MountsKept
      <3> QED BY <2>1, <2>3, <3>1, <3>2, <1>b
    <2> QED BY <1>12, <2>2, <2>3 DEF AttachPinnedRootFS, Attempt, Staged
  <1>13. CASE PrepareOverlay \/ MountHostsFile
    BY <1>13, <1>a, <1>b DEF PrepareOverlay, Attempt, MountHostsFile
  <1>14. CASE MountKernelFS
    <2>1. UNCHANGED <<ciI, ciPay>> /\ ~Forked /\ ciPc = "kernel" /\ ciI = 1
      BY <1>14 DEF MountKernelFS, Attempt
    <2>2. CASE ciPc' = "failed" /\ UNCHANGED <<ciMounts, ciDirs>>
      BY <2>1, <2>2, <1>a, <1>b
    <2>3. ASSUME NEW K \in SUBSET (1..4), 1 \in K, ciPc' = "mounts", ciMounts' = Restrict(KernelMounts, K),
                 ciDirs' = ciDirs \cup {<<1, p>> : p \in {<<"proc">>, <<"sys">>, Dev}}
          PROVE  TreeInv'
      BY <1>s, <2>1, <2>3, KernelReached
    <2>4. CASE /\ ciPc' = "mounts"
               /\ ciDirs' = ciDirs \cup {<<1, p>> : p \in {<<"proc">>, <<"sys">>, Dev}}
               /\ \E sys, dev \in BOOLEAN : ciMounts' = Restrict(KernelMounts,
                    {1, 2} \cup {i \in {3} : sys} \cup {i \in {4} : dev})
      <3>1. PICK sys \in BOOLEAN, dev \in BOOLEAN : ciMounts' = Restrict(KernelMounts,
                    {1, 2} \cup {i \in {3} : sys} \cup {i \in {4} : dev})
        BY <2>4
      <3> DEFINE K == {1, 2} \cup {i \in {3} : sys} \cup {i \in {4} : dev}
      <3>2. K \in SUBSET (1..4) /\ 1 \in K
        OBVIOUS
      <3> HIDE DEF K
      <3> QED BY <2>3, <2>4, <3>1, <3>2 DEF K
    <2> QED BY <1>14, <2>2, <2>4 DEF MountKernelFS, Attempt
  <1>15. CASE mountVolume
    <2> DEFINE m == MountRequests[ciI]
    <2>1. UNCHANGED <<ciScene, ciPay>> /\ ~Forked /\ ciPc = "mounts" /\ ciI \in 1..Len(MountRequests)
      BY <1>15 DEF mountVolume, Mounting, Attempt
    <2>2. CASE ciPc' = "failed" /\ UNCHANGED <<ciMounts, ciDirs>>
      BY <2>1, <2>2, <1>a, <1>b
    <2>3. CASE /\ ciPc' = "mounts" /\ ciI' = ciI + 1 /\ [p \in Asked |-> openVolumeTarget(p)][m.at]
               /\ ciDirs' = ciDirs \cup MadeDown(m.at)
               /\ ciMounts' = Mounted(ciMounts, Len(KernelMounts) + ciI, m)
      <3>1. m.at \in Asked
        BY <2>1, RequestAsked
      <3>2. openVolumeTarget(m.at)
        BY <2>3, <3>1
      <3>3. ExistsIn(ciMounts, DirsNow, m.at) \/ CoverIn(ciMounts, m.at).at = <<>>
        BY <3>2, TreeAsTable DEF openVolumeTarget
      <3>4. ciDirs' = ciDirs \cup MadeIn(ciMounts, DirsNow, m.at)
        BY <2>3, TreeAsTable
      <3> HIDE DEF m
      <3>5. m = MountRequests[ciI]
        BY DEF m
      <3> QED BY <2>1, <2>3, <3>3, <3>4, <3>5, MountGranted
    <2> QED BY <1>15, <2>2, <2>3 DEF mountVolume, Mounting, Attempt
  <1>16. CASE mountTmpfsMount
    <2> DEFINE m == MountRequests[ciI]
    <2>1. UNCHANGED <<ciScene, ciPay>> /\ ~Forked /\ ciPc = "mounts" /\ ciI \in 1..Len(MountRequests)
      BY <1>16 DEF mountTmpfsMount, Mounting, Attempt
    <2>2. CASE ciPc' = "failed" /\ UNCHANGED <<ciMounts, ciDirs>>
      BY <2>1, <2>2, <1>a, <1>b
    <2>3. CASE /\ ciPc' = "mounts" /\ ciI' = ciI + 1 /\ [p \in Asked |-> openVolumeTarget(p)][m.at]
               /\ ciDirs' = ciDirs \cup MadeDown(m.at)
               /\ ciMounts' = Mounted(ciMounts, Len(KernelMounts) + ciI, m)
      <3>1. m.at \in Asked
        BY <2>1, RequestAsked
      <3>2. openVolumeTarget(m.at)
        BY <2>3, <3>1
      <3>3. ExistsIn(ciMounts, DirsNow, m.at) \/ CoverIn(ciMounts, m.at).at = <<>>
        BY <3>2, TreeAsTable DEF openVolumeTarget
      <3>4. ciDirs' = ciDirs \cup MadeIn(ciMounts, DirsNow, m.at)
        BY <2>3, TreeAsTable
      <3> HIDE DEF m
      <3>5. m = MountRequests[ciI]
        BY DEF m
      <3> QED BY <2>1, <2>3, <3>3, <3>4, <3>5, MountGranted
    <2> QED BY <1>16, <2>2, <2>3 DEF mountTmpfsMount, Mounting, Attempt
  <1>17. CASE mountMaskedDirectory
    <2> DEFINE m == MountRequests[ciI]
    <2>1. UNCHANGED <<ciScene, ciPay>> /\ ~Forked /\ ciPc = "mounts" /\ ciI \in 1..Len(MountRequests)
      BY <1>17 DEF mountMaskedDirectory, Mounting, Attempt
    <2>2. CASE ciPc' = "failed" /\ UNCHANGED <<ciMounts, ciDirs>>
      BY <2>1, <2>2, <1>a, <1>b
    <2>3. CASE /\ ciPc' = "mounts" /\ ciI' = ciI + 1 /\ [p \in Asked |-> openExistingDirectory(p)][m.at]
               /\ ciDirs' = ciDirs \cup MadeDown(m.at)
               /\ ciMounts' = Mounted(ciMounts, Len(KernelMounts) + ciI, m)
      <3>1. m.at \in Asked
        BY <2>1, RequestAsked
      <3>2. openExistingDirectory(m.at)
        BY <2>3, <3>1
      <3>3. ExistsIn(ciMounts, DirsNow, m.at) \/ CoverIn(ciMounts, m.at).at = <<>>
        BY <3>2, TreeAsTable DEF openExistingDirectory
      <3>4. ciDirs' = ciDirs \cup MadeIn(ciMounts, DirsNow, m.at)
        BY <2>3, TreeAsTable
      <3> HIDE DEF m
      <3>5. m = MountRequests[ciI]
        BY DEF m
      <3> QED BY <2>1, <2>3, <3>3, <3>4, <3>5, MountGranted
    <2> QED BY <1>17, <2>2, <2>3 DEF mountMaskedDirectory, Mounting, Attempt
  <1>18. CASE PrivateDevices
    <2>1. UNCHANGED ciPay /\ ~Forked /\ ciPc = "mounts" /\ ciI > Len(MountRequests)
      BY <1>18 DEF PrivateDevices, Attempt
    <2>2. CASE ciPc' = "failed" /\ UNCHANGED <<ciMounts, ciDirs>>
      BY <2>1, <2>2, <1>a, <1>b
    <2> DEFINE detached == {i \in DOMAIN ciMounts :
                              /\ Covering(Dev).at = Dev /\ CoveringNumber(Dev) <= i
                              /\ IsPrefix(Dev, ciMounts[i].at)}
    <2>3. ASSUME NEW gone, \A i \in gone : IsPrefix(Dev, ciMounts[i].at), gone \subseteq DOMAIN ciMounts,
                 ciPc' = "mkdir", ciDirs' = ciDirs \cup MadeIn(ciMounts, DirsNow, Dev),
                 ciMounts' = Mounted(Restrict(ciMounts, DOMAIN ciMounts \ gone),
                                     Len(KernelMounts) + Len(MountRequests) + 1, On("devs", Dev))
          PROVE  TreeInv'
      BY <2>1, <2>3, DevicesGranted
    <2>4. detached \subseteq DOMAIN ciMounts /\ \A i \in detached : IsPrefix(Dev, ciMounts[i].at)
      OBVIOUS
    <2>5. \/ ciPc' = "failed" /\ UNCHANGED <<ciMounts, ciDirs>>
          \/ /\ ciPc' = "mkdir" /\ ciDirs' = ciDirs \cup MadeDown(Dev)
             /\ ciMounts' = Mounted(Restrict(ciMounts, DOMAIN ciMounts \ detached),
                                    Len(KernelMounts) + Len(MountRequests) + 1, On("devs", Dev))
      BY <1>18 DEF PrivateDevices, Attempt
    <2>6. MadeDown(Dev) = MadeIn(ciMounts, DirsNow, Dev)
      BY TreeAsTable
    <2> HIDE DEF detached
    <2> QED BY <2>2, <2>3, <2>4, <2>5, <2>6
  <1>19. CASE MakePivotDir \/ PivotRoot \/ DetachOldRoot \/ RemovePivotDir
    BY <1>19, <1>a, <1>b DEF MakePivotDir, Attempt, PivotRoot, DetachOldRoot, RemovePivotDir,
       Removed
  <1>20. CASE RollbackPivot
    BY <1>20, <1>a, <1>b DEF RollbackPivot, Removed
  <1>21. CASE ReadOnlyRoot
    BY <1>21, <1>a, <1>b DEF ReadOnlyRoot, Attempt
  <1>22. CASE EnterWorkDir
    <2>1. /\ UNCHANGED <<ciI, ciMounts, ciPay>> /\ ~Forked /\ ciPc = "workdir"
          /\ ciPc' \in {"lock", "failed"} /\ 1 \in DOMAIN ciMounts
      BY <1>22 DEF EnterWorkDir, Attempt
    <2>2. CASE UNCHANGED ciDirs
      BY <2>1, <2>2, <1>a, <1>b
    <2>3. CASE ciDirs' = ciDirs \cup MadeDown(ciScene.workdir)
      <3>1. MadeInPlace'
        BY <2>1, <2>3, WorkDirMade
      <3> QED BY <2>1, <3>1, <1>a
    <2> QED BY <1>22, <2>2, <2>3 DEF EnterWorkDir, Attempt
  <1>23. CASE LockOSThread \/ Migrate
    BY <1>23, <1>a, <1>b DEF LockOSThread, Migrate
  <1>24. CASE ApplyIOPriority \/ ApplyNoNewPrivileges \/ DropCapabilities \/ ApplySeccomp
    BY <1>24, <1>a, <1>b DEF ApplyIOPriority, ApplyPolicy, Attempt, ApplyNoNewPrivileges,
       DropCapabilities, ApplySeccomp
  <1>25. CASE ReportReady
    BY <1>25, <1>a, <1>b DEF ReportReady
  <1>26. CASE ForkPayload
    BY <1>26, <1>a, <1>b DEF ForkPayload, Attempt
  <1>27. CASE PayloadEnds
    BY <1>27, <1>a, <1>b DEF PayloadEnds
  <1>28. CASE Finish
    BY <1>28, <1>a, <1>b DEF Finish
  <1>29. CASE InitExits
    BY <1>29, <1>a, <1>b DEF InitExits
  <1>30. CASE InitKilled
    BY <1>30, <1>a, <1>b DEF InitKilled
  <1>31. CASE RenameRoot \/ RivalPivots
    BY <1>31, <1>a, <1>b DEF RenameRoot, RivalPivots
  <1> QED BY <1>0, <1>1, <1>2, <1>3, <1>4, <1>5, <1>6, <1>7, <1>8, <1>9, <1>10, <1>11, <1>12,
          <1>13, <1>14, <1>15, <1>16, <1>17, <1>18, <1>19, <1>20, <1>21, <1>22, <1>23, <1>24,
          <1>25, <1>26, <1>27, <1>28, <1>29, <1>30, <1>31 DEF CiNext

-----------------------------------------------------------------------------
(* The start of a container: the theorems.                                  *)

CiIInv ==
  /\ RecordsOK /\ InitInOrder /\ StatusTells /\ ParentConcludes
  /\ NamespaceIsOwn /\ CountsOK /\ PoliciesApplied /\ TreeInv /\ PivotOwned

(* ContainerInit: whatever is asked for, renamed or pivoted into meanwhile, *)
(* whatever fails and whoever is killed, the init's progress, the bytes in  *)
(* its pipe, its policies, its mounts and .pivot_old agree.                 *)
THEOREM InitInductive == CiSpec => []CiIInv
  <1>1. CiInit => CiIInv
    <2> SUFFICES ASSUME CiInit PROVE CiIInv
      OBVIOUS
    <2> USE DEF CiInit, Forked, Inheriting, Building, Pivoting, Confining, Running, Ended, Signalled
    <2>1. RecordsOK
      BY InitRecords
    <2>2. InitInOrder /\ StatusTells /\ ParentConcludes
      BY StatusBytes DEF InitInOrder, StatusTells, ParentConcludes, Before, Released
    <2>3. NamespaceIsOwn /\ PivotOwned
      BY DEF NamespaceIsOwn, PivotOwned, Unshared, StagedRoot, Released
    <2>4. CountsOK
      BY RequestsInOrder, AppliedOneByOne DEF CountsOK, Entering
    <2>5. PoliciesApplied
      BY DEF PoliciesApplied, Entering
    <2>6. TreeInv
      <3>1. DOMAIN ciMounts = {}
        OBVIOUS
      <3>2. ClosedUp(DirsNow)
        BY CiAssumption DEF ClosedUp, DirsNow
      <3> QED BY <3>1, <3>2 DEF TreeInv, MountsKept, MadeInPlace, Settled
    <2> QED BY <2>1, <2>2, <2>3, <2>4, <2>5, <2>6 DEF CiIInv
  <1>2. CiIInv /\ [CiNext]_ciVars => CiIInv'
    BY StepRecords, StepOrder, StepStatus, StepParent, StepNamespace, StepCounts, StepPolicies,
       StepTree, StepPivot DEF CiIInv
  <1> QED BY <1>1, <1>2, PTL DEF CiSpec

\* The records are of the kinds that the model declares.
LEMMA RecordsAreTyped == CiIInv => CiTypeOK
  <1> SUFFICES ASSUME CiIInv PROVE CiTypeOK
    OBVIOUS
  <1>1. RecordsOK /\ StatusTells /\ CountsOK /\ MountsKept /\ MadeInPlace
    BY DEF CiIInv, TreeInv
  <1>2. /\ DOMAIN ciMounts \subseteq 1..Len(KernelMounts) + Len(MountRequests) + 1
        /\ \A i \in DOMAIN ciMounts : ciMounts[i].kind \in MountKinds
    BY <1>1, TableKept DEF RecordsOK, LastMount
  <1>3. ciNs.root \in {"none", "admitted", "other"} /\ ciNs.old \in {"host", "attached", "detached"}
    BY <1>1 DEF RecordsOK, NsRec
  <1>4. /\ ciThread.at \in {1, 2} /\ ciThread.process \subseteq ciScene.want
        /\ \A i \in {1, 2} : ciThread.policy[i] \subseteq ciScene.want
    BY <1>1 DEF RecordsOK, ThreadRec
  <1>5. /\ ciPay.st \in {"none", "runs", "ended", "killed"}
        /\ ciPay.code \in CiCodes \cup {Signalled} /\ ciEnd.code \in CiCodes \cup {Signalled, 1, 126}
    BY <1>1 DEF RecordsOK, PayRec, EndRec
  <1>6. ciStatus \in {<<>>, <<"READY">>, <<"FAILURE">>, <<"READY", "FAILURE">>}
    BY <1>1 DEF StatusTells
  <1>7. ciI \in 1..Len(ThreadPolicies) + Len(MountRequests) + 1
    BY <1>1 DEF CountsOK
  <1>8. \A d \in ciDirs : d[1] \in 1..Len(KernelMounts) + Len(MountRequests) + 1
    BY <1>1 DEF MadeInPlace, LastMount
  <1> QED BY <1>1, <1>2, <1>3, <1>4, <1>5, <1>6, <1>7, <1>8 DEF CiTypeOK, RecordsOK, OutRec

\* What a payload finds at the root, at /dev and at what was masked.
LEMMA PayloadMounts ==
  CiIInv /\ Forked =>
    /\ Covering(<<>>).kind = "root" \/ <<>> \in Asked
    /\ Covering(Dev).kind = "devs"
    /\ \A i \in DOMAIN ciScene.masks : Covering(ciScene.masks[i]).kind \in {"mask", "devs"}
  <1> SUFFICES ASSUME CiIInv, Forked
               PROVE  /\ Covering(<<>>).kind = "root" \/ <<>> \in Asked
                      /\ Covering(Dev).kind = "devs"
                      /\ \A i \in DOMAIN ciScene.masks : Covering(ciScene.masks[i]).kind \in {"mask", "devs"}
    OBVIOUS
  <1>1. ciScene \in CiScenes /\ MountsKept /\ AllMade /\ 1 \in DOMAIN ciMounts
    BY DEF CiIInv, RecordsOK, TreeInv
  <1>2. MountTable(ciMounts) /\ DOMAIN ciMounts \subseteq 1..LastMount
    BY <1>1, TableKept
  <1>3. /\ LastMount \in DOMAIN ciMounts /\ ciMounts[LastMount].kind = "devs"
        /\ ciMounts[LastMount].at = Dev
    BY <1>1, TableKept DEF AllMade, On
  <1>4. LastMount = Len(MountRequests) + 5 /\ Len(MountRequests) \in Nat
    BY <1>1, RequestsInOrder, KernelTable DEF LastMount
  <1>5. ASSUME NEW p \in CiPaths, IsPrefix(Dev, p) PROVE Covering(p).kind = "devs"
    <2>1. IsTop(ciMounts, p, LastMount)
      BY <1>2, <1>3, <1>4, <1>5 DEF IsTop
    <2>2. CoverIn(ciMounts, p) = ciMounts[LastMount]
      BY <1>2, <2>1, CoverIsTop
    <2> QED BY <1>3, <2>2, TreeAsTable
  <1>6. Covering(Dev).kind = "devs"
    BY <1>5, DevIsPath, PrefixOrder
  <1>7. ASSUME NEW i \in DOMAIN ciScene.masks PROVE Covering(ciScene.masks[i]).kind \in {"mask", "devs"}
    <2> DEFINE p == ciScene.masks[i]
    <2>1. p \in CiPaths
      <3>1. ciScene.masks \in Seq(Targets)
        BY <1>1, CiAssumption
      <3> QED BY <3>1, DevIsPath
    <2>2. PICK j \in 1..Len(MountRequests) :
            /\ MountRequests[j].at = p
            /\ \A k \in j..Len(MountRequests) : MountRequests[k].kind = "mask"
      BY <1>1, RequestsInOrder
    <2> HIDE DEF p
    <2>3. CASE IsPrefix(Dev, p)
      BY <1>5, <2>1, <2>3 DEF p
    <2>4. CASE ~IsPrefix(Dev, p)
      <3>1. 4 + j \in DOMAIN ciMounts
        BY <1>1, <2>2, <2>4, KernelTable DEF AllMade
      <3>2. ciMounts[4 + j] = MountRequests[j]
        BY <1>1, <1>4, <3>1, KernelTable DEF MountsKept
      <3>3. PICK t : IsTop(ciMounts, p, t)
        BY <1>2, <2>1, CoverIsTop
      <3>4. CoverIn(ciMounts, p) = ciMounts[t]
        BY <1>2, <2>1, <3>3, CoverIsTop
      <3>5. t \in DOMAIN ciMounts /\ 4 + j <= t /\ IsPrefix(ciMounts[t].at, p)
        BY <2>1, <2>2, <3>1, <3>2, <3>3, PrefixOrder DEF IsTop
      <3>6. t # LastMount
        BY <1>3, <2>4, <3>5
      <3>7. PICK k \in 1..Len(MountRequests) : t = 4 + k /\ ciMounts[t] = MountRequests[k]
        <4>1. t \in 5..LastMount - 1
          BY <1>2, <1>4, <3>5, <3>6
        <4>3. t \notin 1..Len(KernelMounts)
          BY <4>1, KernelTable
        <4>4. PICK k \in 1..Len(MountRequests) : t = Len(KernelMounts) + k /\ ciMounts[t] = MountRequests[k]
          BY <1>1, <3>5, <3>6, <4>3 DEF MountsKept
        <4>5. t = 4 + k
          BY <4>4, KernelTable
        <4> QED BY <4>4, <4>5
      <3>8. k \in j..Len(MountRequests)
        BY <1>4, <3>5, <3>7
      <3>9. ciMounts[t].kind = "mask"
        BY <2>2, <3>7, <3>8
      <3> QED BY <3>4, <3>9, TreeAsTable DEF p
    <2> QED BY <2>3, <2>4
  <1>8. Covering(<<>>).kind = "root" \/ <<>> \in Asked
    <2>0. <<>> \in CiPaths
      BY DEF CiPaths
    <2>1. PICK t : IsTop(ciMounts, <<>>, t)
      BY <1>2, <2>0, CoverIsTop
    <2>2. CoverIn(ciMounts, <<>>) = ciMounts[t] /\ t \in DOMAIN ciMounts
      BY <1>2, <2>0, <2>1, CoverIsTop DEF IsTop
    <2>3. ciMounts[t].at = <<>>
      <3>1. ciMounts[t].at \in CiPaths /\ IsPrefix(ciMounts[t].at, <<>>)
        BY <1>2, <2>1 DEF IsTop, MountTable
      <3> QED BY <3>1, PrefixOrder
    <2>4. CASE t = 1
      BY <1>2, <2>2, <2>4, TreeAsTable DEF MountTable, On
    <2>5. CASE t # 1
      <3>1. t \in RootNumbers /\ DOMAIN MountRequests = 1..Len(MountRequests)
        BY <1>1, <2>2, <2>3, RootNumbered, RequestsInOrder
      <3>2. PICK j \in 1..Len(MountRequests) : MountRequests[j].at = <<>>
        BY <2>5, <3>1 DEF RootNumbers
      <3> QED BY <1>1, <3>2, RequestAsked
    <2> QED BY <2>4, <2>5
  <1> QED BY <1>6, <1>7, <1>8

(* ContainerInit and supervisePayload: for every request, a payload only    *)
(* ever runs in the admitted root or in what was asked for in its place,    *)
(* under every policy asked for, with the host's tree detached, on private  *)
(* devices and behind all of its masks.                                     *)
THEOREM RunsAsAdmitted == CiSpec => []PayloadRunsAsAdmitted
  <1>1. CiIInv => PayloadRunsAsAdmitted
    <2> SUFFICES ASSUME CiIInv PROVE PayloadRunsAsAdmitted
      OBVIOUS
    <2>1. CiTypeOK
      BY RecordsAreTyped
    <2>2. Forked => ciNs.private /\ ciNs.root = "admitted" /\ ciNs.old = "detached"
                    /\ ciNs.readonly = ciScene.readonly
      BY DEF CiIInv, NamespaceIsOwn
    <2>3. Forked => ciPay.policy = ciScene.want
      BY DEF CiIInv, PoliciesApplied
    <2> QED BY <2>1, <2>2, <2>3, PayloadMounts
            DEF PayloadRunsAsAdmitted, PayloadRootIsAdmitted, PayloadIsConfined, MaskedStaysMasked
  <1> QED BY <1>1, InitInductive, PTL

(* openVolumeTarget, finishRuntimeWorkDir and pivotRootWithOps: mount       *)
(* points are made in the container's root alone, the image's or what was   *)
(* asked for at /, the clean-up of the working directory never reaches the  *)
(* image, and .pivot_old stays behind in a shared root only where the init  *)
(* was killed or could not remove it.                                       *)
THEOREM HostLeftAlone == CiSpec => []HostIsLeftAlone
  <1>1. CiIInv => HostIsLeftAlone
    BY DEF CiIInv, TreeInv, MadeInPlace, NamespaceIsOwn, PivotOwned, HostIsLeftAlone,
           HostTreesUntouched, ImageSurvivesCleanup, StrayPivotHasACause
  <1> QED BY <1>1, InitInductive, PTL

(* awaitPayloadExec and parentExitResult: no payload without its release,   *)
(* no success without a payload that exited with 0, no start event without  *)
(* a payload unless the init was killed before it could tell.               *)
THEOREM ParentKnows == CiSpec => []ParentKnowsTheEnd
  <1>1. CiIInv => ParentKnowsTheEnd
    BY DEF CiIInv, InitInOrder, ParentConcludes, ParentKnowsTheEnd
  <1> QED BY <1>1, InitInductive, PTL

(* pivotRootWithOps: the .pivot_old of another init is never taken over.    *)
THEOREM TheirPivotKept == CiSpec => [][TheirPivotStays]_ciVars
  <1>1. CiIInv /\ [CiNext]_ciVars => [TheirPivotStays]_ciVars
    <2> SUFFICES ASSUME CiIInv, [CiNext]_ciVars, ciStray = "theirs", ciStray' # "theirs"
                 PROVE  ciPc' = ciPc
      BY DEF TheirPivotStays
    <2>0. ~(Shared /\ ciOwned)
      BY DEF CiIInv, PivotOwned
    <2> USE DEF ciVars, ciParent, ciTree, ciPivot, ciProcs, ciChild, ciOther, ciOthers, ciAll
    <2>u. CASE UNCHANGED ciVars
      BY <2>u
    <2>1. CASE PinAdmittedRoot
      BY <2>0, <2>1 DEF PinAdmittedRoot, ParentEnds
    <2>2. CASE ReleaseInit
      BY <2>0, <2>2 DEF ReleaseInit, ParentEnds
    <2>3. CASE AbortSetup
      BY <2>0, <2>3 DEF AbortSetup, ParentEnds
    <2>4. CASE AwaitFirst
      BY <2>0, <2>4 DEF AwaitFirst, StatusClosed
    <2>5. CASE AwaitSecond
      BY <2>0, <2>5 DEF AwaitSecond, StatusClosed
    <2>6. CASE ParentReaps
      BY <2>0, <2>6 DEF ParentReaps, ParentEnds
    <2>7. CASE RemoveWorkDir
      BY <2>0, <2>7 DEF RemoveWorkDir
    <2>8. CASE ParentKilled
      BY <2>0, <2>8 DEF ParentKilled
    <2>9. CASE ApplyOOMScore \/ ApplyRlimits \/ ApplyScheduler
      BY <2>0, <2>9 DEF ApplyOOMScore, InheritProcessPolicy, Attempt, ApplyRlimits, ApplyScheduler
    <2>10. CASE AwaitReady
      BY <2>0, <2>10 DEF AwaitReady
    <2>11. CASE MakePrivate \/ AttachPinnedRootFS
      BY <2>0, <2>11 DEF MakePrivate, Attempt, AttachPinnedRootFS, Staged
    <2>12. CASE PrepareOverlay \/ MountHostsFile
      BY <2>0, <2>12 DEF PrepareOverlay, Attempt, MountHostsFile
    <2>13. CASE MountKernelFS
      BY <2>0, <2>13 DEF MountKernelFS, Attempt
    <2>14. CASE mountVolume \/ mountTmpfsMount \/ mountMaskedDirectory
      BY <2>0, <2>14 DEF mountVolume, Mounting, Attempt, mountTmpfsMount, mountMaskedDirectory
    <2>15. CASE PrivateDevices
      BY <2>0, <2>15 DEF PrivateDevices, Attempt
    <2>16. CASE MakePivotDir \/ PivotRoot \/ DetachOldRoot \/ RemovePivotDir
      BY <2>0, <2>16 DEF MakePivotDir, Attempt, PivotRoot, DetachOldRoot, RemovePivotDir, Removed
    <2>17. CASE RollbackPivot
      BY <2>0, <2>17 DEF RollbackPivot, Removed
    <2>18. CASE ReadOnlyRoot
      BY <2>0, <2>18 DEF ReadOnlyRoot, Attempt
    <2>19. CASE EnterWorkDir
      BY <2>0, <2>19 DEF EnterWorkDir, Attempt
    <2>20. CASE LockOSThread \/ Migrate
      BY <2>0, <2>20 DEF LockOSThread, Migrate
    <2>21. CASE ApplyIOPriority \/ ApplyNoNewPrivileges \/ DropCapabilities \/ ApplySeccomp
      BY <2>0, <2>21 DEF ApplyIOPriority, ApplyPolicy, Attempt, ApplyNoNewPrivileges,
         DropCapabilities, ApplySeccomp
    <2>22. CASE ReportReady
      BY <2>0, <2>22 DEF ReportReady
    <2>23. CASE ForkPayload
      BY <2>0, <2>23 DEF ForkPayload, Attempt
    <2>24. CASE PayloadEnds
      BY <2>0, <2>24 DEF PayloadEnds
    <2>25. CASE Finish
      BY <2>0, <2>25 DEF Finish
    <2>26. CASE InitExits
      BY <2>0, <2>26 DEF InitExits
    <2>27. CASE InitKilled
      BY <2>0, <2>27 DEF InitKilled
    <2>28. CASE RenameRoot \/ RivalPivots
      BY <2>0, <2>28 DEF RenameRoot, RivalPivots
    <2> QED BY <2>u, <2>1, <2>2, <2>3, <2>4, <2>5, <2>6, <2>7, <2>8, <2>9, <2>10, <2>11, <2>12,
            <2>13, <2>14, <2>15, <2>16, <2>17, <2>18, <2>19, <2>20, <2>21, <2>22, <2>23, <2>24,
            <2>25, <2>26, <2>27, <2>28 DEF CiNext
  <1> QED BY <1>1, InitInductive, PTL DEF CiSpec
=============================================================================
