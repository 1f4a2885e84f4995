---------------------------- MODULE ContainerLogs ----------------------------
(* The log of one container: its payload appends through a descriptor it    *)
(* keeps, a reader follows it, and maintenance calls trim it in place,      *)
(* archive it by renaming, compress an archive and prune old ones.  None of *)
(* them takes a lock.  Content is a sequence of numbered writes; an odd     *)
(* write leaves its line open, the next one ends it.                        *)
EXTENDS Naturals, Sequences, FiniteSets, FiniteSetsExt

CONSTANTS Maintainers,   \* processes that may run a maintenance call
          MaxWrites, MaxOpens, MaxCalls, MaxLcCrashes,
          MaxBytes,      \* maxBytes of RotateLogFile, in writes
          MaxFiles       \* maxFiles of ArchiveLogFile

ASSUME LogsAssumption ==
  /\ MaxBytes \in Nat \ {0} /\ MaxFiles \in Nat \ {0, 1}
  /\ MaxWrites \in Nat /\ MaxOpens \in Nat

\* The active log is name 0, its archives 1, 2, ...; archive 1 compresses to
\* Gz, and a maintainer stages a removal under a name of its own.
Gz == MaxFiles
ArchiveNames == 1..(MaxFiles - 1)
LogNames == 0..MaxFiles
LogInodes == 1..(MaxOpens + 3)
Writes == 1..MaxWrites

VARIABLES
  lcDir,      \* name -> inode, 0 where there is none
  lcStage,    \* maintainer -> inode under its tombstone name, 0 for none
  lcStranded, \* inodes left under a tombstone name, which no call looks at
  lcIno,      \* inode -> content
  lcOld,      \* inodes last written before the prune cutoff
  lcFd,       \* the payload's descriptor
  lcWritten, lcOpens, lcCalls, lcCrashes,
  lcM,        \* maintainer -> where its call is
  lcCause,    \* write -> why it may be gone
  lcTorn,     \* inodes a rotation left half shifted, or two shifted at once
  lcF         \* the follower

lcVars == <<lcDir, lcStage, lcStranded, lcIno, lcOld, lcFd, lcWritten, lcOpens, lcCalls,
            lcCrashes, lcM, lcCause, lcTorn, lcF>>
lcFiles == <<lcDir, lcStage, lcStranded, lcIno, lcOld>>
lcPayload == <<lcFd, lcWritten, lcOpens>>

Causes == {"none", "trimmed", "expired", "pruned", "overwritten", "window", "torn", "swapped"}
MRest == [pc |-> "idle", ino |-> 0, name |-> 0, n |-> 0, gz |-> 0, src |-> <<>>, call |-> "none"]
\* last: the newest write read so far; back: a read went behind it; amid: it
\* read while its file was half shifted.
FRest == [ino |-> 0, off |-> 0, follow |-> FALSE, held |-> 0, last |-> 0,
          back |-> FALSE, amid |-> FALSE]

LcTypeOK ==
  /\ lcDir \in [LogNames -> {0} \cup LogInodes] /\ lcStage \in [Maintainers -> {0} \cup LogInodes]
  /\ \A n, k \in LogNames : n # k /\ lcDir[n] # 0 => lcDir[n] # lcDir[k]
  /\ lcIno \in [LogInodes -> Seq(Writes)] /\ lcOld \subseteq LogInodes /\ lcStranded \subseteq LogInodes
  /\ lcFd \in {0} \cup LogInodes /\ lcTorn \subseteq LogInodes
  /\ lcCause \in [Writes -> Causes]
  /\ lcF.ino \in {0} \cup LogInodes /\ lcF.last \in {0} \cup Writes

LcInit ==
  /\ lcDir = [n \in LogNames |-> 0] /\ lcStage = [m \in Maintainers |-> 0]
  /\ lcStranded = {}
  /\ lcIno = [i \in LogInodes |-> <<>>] /\ lcOld = {} /\ lcFd = 0
  /\ lcWritten = 0 /\ lcOpens = 0 /\ lcCalls = 0 /\ lcCrashes = 0
  /\ lcM = [m \in Maintainers |-> MRest]
  /\ lcCause = [w \in Writes |-> "none"] /\ lcTorn = {} /\ lcF = FRest

Units(i) == {lcIno[i][k] : k \in 1..Len(lcIno[i])}
Named(i) == \/ \E n \in LogNames : lcDir[n] = i
            \/ \E m \in Maintainers : lcStage[m] = i
            \/ i \in lcStranded
Referenced(i) == Named(i) \/ lcFd = i \/ lcF.ino = i \/ \E m \in Maintainers : i \in {lcM[m].ino, lcM[m].gz}
\* What a new file may be; running out of LogInodes is a bound of the model.
Unreferenced == {i \in LogInodes : ~Referenced(i)}
Blame(ws, why) == lcCause' = [w \in Writes |->
  IF w \in ws /\ lcCause[w] = "none" THEN why ELSE lcCause[w]]

\* A removal of inode i that has made its last check, or a rotation of i that
\* has measured it: what is appended now may go unseen.
InWindow(i) == \E m \in Maintainers :
  lcM[m].ino = i /\ lcM[m].pc \in {"shift", "truncate", "remove", "unstage"}

Shifting(m, i) == lcM[m].ino = i /\ lcM[m].pc \in {"shift", "truncate"}
HalfShifted(i) == i \in lcTorn \/ \E m \in Maintainers : Shifting(m, i)

-----------------------------------------------------------------------------
(* The payload and the reader.                                              *)

\* CreateLogFile for a new generation: open for append, create when missing.
OpenLog ==
  /\ lcOpens < MaxOpens
  /\ IF lcDir[0] # 0
     THEN lcFd' = lcDir[0] /\ UNCHANGED <<lcDir, lcIno, lcTorn>>
     ELSE \E i \in Unreferenced :
            /\ i = CHOOSE j \in Unreferenced : TRUE
            /\ lcFd' = i /\ lcDir' = [lcDir EXCEPT ![0] = i]
            /\ lcIno' = [lcIno EXCEPT ![i] = <<>>]
            /\ lcTorn' = lcTorn \ {i}
  /\ lcOpens' = lcOpens + 1
  /\ UNCHANGED <<lcStranded, lcStage, lcOld, lcWritten, lcCalls, lcCrashes, lcM, lcCause, lcF>>

\* O_APPEND puts the write at the end the file has at that moment, whatever
\* name the inode has by now.
LogAppend ==
  /\ lcFd # 0 /\ lcWritten < MaxWrites
  /\ lcWritten' = lcWritten + 1
  /\ lcIno' = [lcIno EXCEPT ![lcFd] = Append(@, lcWritten + 1)]
  /\ lcOld' = lcOld \ {lcFd}
  /\ IF InWindow(lcFd) \/ ~Named(lcFd)
     THEN Blame({lcWritten + 1}, "window") ELSE UNCHANGED lcCause
  /\ UNCHANGED <<lcStranded, lcDir, lcStage, lcFd, lcOpens, lcCalls, lcCrashes, lcM, lcTorn, lcF>>

\* Time passes the prune cutoff for a file nobody writes.
LogAge ==
  /\ \E i \in LogInodes \ lcOld : Named(i) /\ lcOld' = lcOld \cup {i}
  /\ UNCHANGED <<lcStranded, lcDir, lcStage, lcIno, lcPayload, lcCalls, lcCrashes, lcM, lcCause, lcTorn, lcF>>

\* PrintLogs opens the active log and copies it as it is.
FollowOpen ==
  /\ lcF.ino = 0 /\ lcDir[0] # 0
  /\ lcF' = [FRest EXCEPT !.ino = lcDir[0]]
  /\ UNCHANGED <<lcFiles, lcPayload, lcCalls, lcCrashes, lcM, lcCause, lcTorn>>

\* One write is read at the offset.  The first copy prints it; following, an
\* open line is held until its end is read.
FollowRead ==
  /\ lcF.ino # 0 /\ lcF.off < Len(lcIno[lcF.ino])
  /\ LET w == lcIno[lcF.ino][lcF.off + 1] IN
     lcF' = [lcF EXCEPT !.off = @ + 1,
               !.held = IF lcF.follow /\ w % 2 = 1 THEN w ELSE 0,
               !.last = Max({@, w}), !.back = @ \/ w <= lcF.last,
               !.amid = @ \/ HalfShifted(lcF.ino)]
  /\ UNCHANGED <<lcFiles, lcPayload, lcCalls, lcCrashes, lcM, lcCause, lcTorn>>

\* Mutant: a file that shrank is read again from its start.
FollowRewinds ==
  /\ lcF.ino # 0 /\ lcF.off >= Len(lcIno[lcF.ino])
  /\ ~lcF.follow \/ lcF.held # 0 \/ lcF.off > Len(lcIno[lcF.ino])
  /\ lcF' = [lcF EXCEPT !.follow = TRUE, !.held = 0,
               !.off = IF @ > Len(lcIno[lcF.ino]) THEN 0 ELSE @]
  /\ UNCHANGED <<lcFiles, lcPayload, lcCalls, lcCrashes, lcM, lcCause, lcTorn>>

\* End of file: the copy turns into following; ReadString has returned what
\* it held with io.EOF, and the loop drops it.
FollowEOF ==
  /\ lcF.ino # 0 /\ lcF.off >= Len(lcIno[lcF.ino])
  /\ ~lcF.follow \/ lcF.held # 0
  /\ lcF' = [lcF EXCEPT !.follow = TRUE, !.held = 0]
  /\ UNCHANGED <<lcFiles, lcPayload, lcCalls, lcCrashes, lcM, lcCause, lcTorn>>

-----------------------------------------------------------------------------
(* Maintenance calls.                                                       *)

MAt(m, pc) == lcM[m].pc = pc
MGoes(m, upd) == lcM' = [lcM EXCEPT ![m] = upd]
MReturns(m) == lcM' = [lcM EXCEPT ![m] = MRest]

\* RotateLogFile opens and measures the active log.
RotateOpen(m) ==
  LET i == lcDir[0] IN
  /\ MAt(m, "idle") /\ lcCalls < MaxCalls
  /\ i # 0 /\ Len(lcIno[i]) > MaxBytes
  /\ lcCalls' = lcCalls + 1
  /\ MGoes(m, [MRest EXCEPT !.pc = "shift", !.ino = i, !.name = Len(lcIno[i]) - MaxBytes])
  /\ lcTorn' = IF \E o \in Maintainers \ {m} : Shifting(o, i)
               THEN lcTorn \cup {i} ELSE lcTorn
  /\ IF i \in lcTorn' THEN Blame(Units(i), "torn")
     ELSE Blame({lcIno[i][k] : k \in 1..(Len(lcIno[i]) - MaxBytes)}, "trimmed")
  /\ UNCHANGED <<lcFiles, lcPayload, lcCrashes, lcF>>

\* One chunk is read behind the cut (lcM.name holds where) and written at
\* the front; a file another rotation has cut meanwhile is an error.
RotateShift(m) ==
  LET i == lcM[m].ino k == lcM[m].n IN
  /\ MAt(m, "shift")
  /\ IF lcM[m].name + k + 1 > Len(lcIno[i])
     THEN MReturns(m) /\ UNCHANGED <<lcIno, lcOld>>
     ELSE /\ lcIno' = [lcIno EXCEPT ![i][k + 1] = lcIno[i][lcM[m].name + k + 1]]
          /\ lcOld' = lcOld \ {i}
          /\ MGoes(m, [lcM[m] EXCEPT !.n = k + 1, !.pc = IF k + 1 = MaxBytes THEN "truncate" ELSE "shift"])
  /\ UNCHANGED <<lcStranded, lcDir, lcStage, lcPayload, lcCalls, lcCrashes, lcCause, lcTorn, lcF>>

\* Mutant: one write too many is kept.
RotateTruncateLong(m) ==
  LET i == lcM[m].ino IN
  /\ MAt(m, "truncate") /\ MReturns(m)
  /\ lcIno' = [lcIno EXCEPT ![i] = SubSeq(@, 1, MaxBytes + 1)] /\ lcOld' = lcOld \ {i}
  /\ UNCHANGED <<lcStranded, lcDir, lcStage, lcPayload, lcCalls, lcCrashes, lcCause, lcTorn, lcF>>

RotateTruncate(m) ==
  LET i == lcM[m].ino IN
  /\ MAt(m, "truncate")
  /\ lcIno' = [lcIno EXCEPT ![i] = SubSeq(@, 1, MaxBytes)] /\ lcOld' = lcOld \ {i}
  /\ MReturns(m)
  /\ UNCHANGED <<lcStranded, lcDir, lcStage, lcPayload, lcCalls, lcCrashes, lcCause, lcTorn, lcF>>

\* ArchiveLogFile goes through log.(maxFiles-1) .. log.1 and the log itself:
\* it inspects the name, revalidates the inode, and renames or expires it.
ArchiveStart(m) ==
  /\ MAt(m, "idle") /\ lcCalls < MaxCalls /\ lcCalls' = lcCalls + 1
  /\ MGoes(m, [MRest EXCEPT !.pc = "inspect", !.name = MaxFiles - 1, !.call = "archive"])
  /\ UNCHANGED <<lcFiles, lcPayload, lcCrashes, lcCause, lcTorn, lcF>>

ArchiveNext(m) ==
  IF lcM[m].name = 0 THEN MReturns(m)
  ELSE MGoes(m, [MRest EXCEPT !.pc = "inspect", !.name = lcM[m].name - 1, !.call = "archive"])

ArchiveInspect(m) ==
  LET n == lcM[m].name IN
  /\ MAt(m, "inspect")
  /\ IF lcDir[n] = 0 THEN ArchiveNext(m)
     ELSE MGoes(m, [lcM[m] EXCEPT !.ino = lcDir[n],
                      !.pc = IF n = MaxFiles - 1 THEN "expire" ELSE "move"])
  /\ UNCHANGED <<lcFiles, lcPayload, lcCalls, lcCrashes, lcCause, lcTorn, lcF>>

\* Mutant: link without unlink.
ArchiveLink(m) ==
  LET n == lcM[m].name IN
  /\ MAt(m, "move") /\ ArchiveNext(m)
  /\ lcDir' = IF lcDir[n] # 0 /\ lcDir[n + 1] = 0 THEN [lcDir EXCEPT ![n + 1] = lcDir[n]] ELSE lcDir
  /\ UNCHANGED <<lcStranded, lcStage, lcIno, lcOld, lcPayload, lcCalls, lcCrashes, lcCause, lcTorn, lcF>>

\* Mutant: a plain rename, which replaces.
ArchiveReplace(m) ==
  LET n == lcM[m].name IN
  /\ MAt(m, "move") /\ ArchiveNext(m)
  /\ lcDir' = IF lcDir[n] # 0 THEN [lcDir EXCEPT ![n + 1] = lcDir[n], ![n] = 0] ELSE lcDir
  /\ UNCHANGED <<lcStranded, lcStage, lcIno, lcOld, lcPayload, lcCalls, lcCrashes, lcCause, lcTorn, lcF>>

\* RENAME_NOREPLACE moves whatever has the name now, and only to a free one.
ArchiveMove(m) ==
  LET n == lcM[m].name IN
  /\ MAt(m, "move")
  /\ IF lcDir[n] # 0 /\ lcDir[n + 1] = 0
     THEN /\ lcDir' = [lcDir EXCEPT ![n + 1] = lcDir[n], ![n] = 0]
          /\ ArchiveNext(m)
     ELSE MReturns(m) /\ UNCHANGED lcDir
  /\ UNCHANGED <<lcStranded, lcStage, lcIno, lcOld, lcPayload, lcCalls, lcCrashes, lcCause, lcTorn, lcF>>

\* removeExpiredArchiveBefore stages the name under a tombstone ...
ExpireStage(m) ==
  LET n == lcM[m].name IN
  /\ MAt(m, "expire")
  /\ IF lcDir[n] # 0
     THEN /\ lcStage' = [lcStage EXCEPT ![m] = lcDir[n]] /\ lcDir' = [lcDir EXCEPT ![n] = 0]
          /\ MGoes(m, [lcM[m] EXCEPT !.pc = "staged"])
     ELSE MReturns(m) /\ UNCHANGED <<lcStage, lcDir>>
  /\ UNCHANGED <<lcStranded, lcIno, lcOld, lcPayload, lcCalls, lcCrashes, lcCause, lcTorn, lcF>>

\* ... checks that it staged the inode it inspected, and still an old one
\* when it prunes; otherwise it puts the name back, if that is still free.
ExpireCheck(m) ==
  LET i == lcStage[m] n == lcM[m].name
      good == i = lcM[m].ino /\ (lcM[m].call = "prune" => i \in lcOld)
  IN
  /\ MAt(m, "staged")
  /\ IF good
     THEN /\ MGoes(m, [lcM[m] EXCEPT !.pc = "unstage"])
          /\ Blame(Units(i), IF lcM[m].call = "prune" THEN "pruned" ELSE "expired")
          /\ UNCHANGED <<lcDir, lcStage, lcStranded>>
     ELSE /\ MReturns(m) /\ UNCHANGED lcCause
          /\ lcStage' = [lcStage EXCEPT ![m] = 0]
          /\ IF lcDir[n] = 0
             THEN lcDir' = [lcDir EXCEPT ![n] = i] /\ UNCHANGED lcStranded
             ELSE lcStranded' = lcStranded \cup {i} /\ UNCHANGED lcDir
  /\ UNCHANGED <<lcIno, lcOld, lcPayload, lcCalls, lcCrashes, lcTorn, lcF>>

ExpireRemove(m) ==
  /\ MAt(m, "unstage")
  /\ lcStage' = [lcStage EXCEPT ![m] = 0]
  /\ IF lcM[m].call = "prune" THEN MReturns(m) ELSE ArchiveNext(m)
  /\ UNCHANGED <<lcStranded, lcDir, lcIno, lcOld, lcPayload, lcCalls, lcCrashes, lcCause, lcTorn, lcF>>

\* PruneRotatedLogs: an archive, compressed or not, last written before the
\* cutoff.  One name is one call.
PruneInspect(m) ==
  /\ MAt(m, "idle") /\ lcCalls < MaxCalls /\ lcCalls' = lcCalls + 1
  /\ \E n \in ArchiveNames \cup {Gz} :
       /\ lcDir[n] \in lcOld
       /\ MGoes(m, [MRest EXCEPT !.pc = "expire", !.ino = lcDir[n], !.name = n, !.call = "prune"])
  /\ UNCHANGED <<lcFiles, lcPayload, lcCrashes, lcCause, lcTorn, lcF>>

\* CompressRotatedLog opens archive 1 and then its .gz, which it creates, or
\* truncates when an earlier archive was compressed to it.
CompressOpen(m) ==
  /\ MAt(m, "idle") /\ lcCalls < MaxCalls /\ lcCalls' = lcCalls + 1
  /\ lcDir[1] # 0
  /\ MGoes(m, [MRest EXCEPT !.pc = "create", !.ino = lcDir[1], !.src = lcIno[lcDir[1]]])
  /\ UNCHANGED <<lcFiles, lcPayload, lcCrashes, lcCause, lcTorn, lcF>>

CompressCreate(m) ==
  /\ MAt(m, "create")
  /\ \E i \in IF lcDir[Gz] # 0 THEN {lcDir[Gz]} ELSE Unreferenced :
       /\ i = lcDir[Gz] \/ i = CHOOSE j \in Unreferenced : TRUE
       /\ lcDir' = [lcDir EXCEPT ![Gz] = i]
       /\ lcIno' = [lcIno EXCEPT ![i] = <<>>]
       /\ Blame(IF lcDir[Gz] = 0 THEN {} ELSE Units(i), "overwritten")
       /\ lcOld' = lcOld \ {i}
       /\ MGoes(m, [lcM[m] EXCEPT !.pc = "copy", !.gz = i])
  /\ UNCHANGED <<lcStranded, lcStage, lcPayload, lcCalls, lcCrashes, lcTorn, lcF>>

\* Another compression may have filled the .gz in the meantime.
CompressCopy(m) ==
  /\ MAt(m, "copy")
  /\ lcIno' = [lcIno EXCEPT ![lcM[m].gz] = lcIno[lcM[m].ino]]
  /\ lcOld' = lcOld \ {lcM[m].gz}
  /\ Blame(Units(lcM[m].gz), "overwritten")
  /\ MGoes(m, [lcM[m] EXCEPT !.pc = "verify"])
  /\ UNCHANGED <<lcStranded, lcDir, lcStage, lcPayload, lcCalls, lcCrashes, lcTorn, lcF>>

\* The .gz is the one opened and as it was synced; the source is the one
\* opened and as it was then.
CompressVerified(m) ==
  /\ lcDir[Gz] = lcM[m].gz /\ lcIno[lcM[m].gz] = lcM[m].src
  /\ lcDir[1] = lcM[m].ino /\ lcIno[lcM[m].ino] = lcM[m].src

CompressVerify(m) ==
  /\ MAt(m, "verify")
  /\ IF CompressVerified(m)
     THEN MGoes(m, [lcM[m] EXCEPT !.pc = "remove"])
     ELSE MReturns(m)
  /\ UNCHANGED <<lcFiles, lcPayload, lcCalls, lcCrashes, lcCause, lcTorn, lcF>>

\* The source is removed by name: a concurrent archive run may have put
\* another file there since the check.
CompressRemove(m) ==
  LET i == lcDir[1] IN
  /\ MAt(m, "remove")
  /\ lcDir' = [lcDir EXCEPT ![1] = 0]
  /\ Blame(IF i # 0 /\ (i # lcM[m].ino \/ lcDir[Gz] # lcM[m].gz) THEN Units(i) ELSE {}, "swapped")
  /\ MReturns(m)
  /\ UNCHANGED <<lcStranded, lcStage, lcIno, lcOld, lcPayload, lcCalls, lcCrashes, lcTorn, lcF>>

LcCrash(m) ==
  /\ ~MAt(m, "idle") /\ lcCrashes < MaxLcCrashes
  /\ lcCrashes' = lcCrashes + 1
  /\ lcTorn' = IF lcM[m].pc \in {"shift", "truncate"} THEN lcTorn \cup {lcM[m].ino} ELSE lcTorn
  /\ lcStranded' = lcStranded \cup ({lcStage[m]} \ {0})
  /\ lcStage' = [lcStage EXCEPT ![m] = 0]
  /\ MReturns(m)
  /\ UNCHANGED <<lcDir, lcIno, lcOld, lcPayload, lcCalls, lcCause, lcF>>

MaintainerStep(m) ==
  \/ RotateOpen(m) \/ RotateShift(m) \/ RotateTruncate(m)
  \/ ArchiveStart(m) \/ ArchiveInspect(m) \/ ArchiveMove(m)
  \/ ExpireStage(m) \/ ExpireCheck(m) \/ ExpireRemove(m)
  \/ PruneInspect(m) \/ CompressOpen(m) \/ CompressCreate(m) \/ CompressCopy(m)
  \/ CompressVerify(m) \/ CompressRemove(m) \/ LcCrash(m)

LcNext ==
  \/ OpenLog \/ LogAppend \/ LogAge \/ FollowOpen \/ FollowRead \/ FollowEOF
  \/ \E m \in Maintainers : MaintainerStep(m)

LcSpec == LcInit /\ [][LcNext]_lcVars

-----------------------------------------------------------------------------
(* Every write is still in a file that has a name, unless it met one of the *)
(* known ends: trimmed, expired or pruned as asked, overwritten by the next *)
(* compression, appended in a window between the last check and the cut,    *)
(* or in a file whose rotation was interrupted or whose name was swapped    *)
(* under a removal.  Renames, restores, crashes and compression lose none.  *)
LossHasACause ==
  \A w \in 1..lcWritten : lcCause[w] = "none" => \E i \in LogInodes : Named(i) /\ w \in Units(i)

(* Rotation shifts to the front only: a follower that keeps its offset     *)
(* while its file is trimmed may miss lines, and prints none again or out   *)
(* of order unless it read in the middle of a shift.                        *)
FollowerNeverGoesBack == lcF.back => lcF.amid

(* Once a rotation is through, and unless one was interrupted or two ran    *)
(* at once, the active log holds its writes in order and none twice, with   *)
(* appends in the middle of the shift included.                             *)
RotationKeepsOrder ==
  LET i == lcDir[0] IN
  i # 0 /\ ~HalfShifted(i) => \A k \in 2..Len(lcIno[i]) : lcIno[i][k - 1] < lcIno[i][k]

(* What rotation, archiving, compression and pruning owe the container that *)
(* writes and the reader that follows: no text is lost but for a known      *)
(* cause, none is printed again, none changes its place.                    *)
LogTextAccountedFor ==
  LcTypeOK /\ LossHasACause /\ FollowerNeverGoesBack /\ RotationKeepsOrder
=============================================================================
