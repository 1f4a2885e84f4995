------------------------------ MODULE EventLog ------------------------------
(***************************************************************************)
(* The event log of internal/events: events.log with two retained          *)
(* generations, .1 and .2.  Any process appends under an exclusive flock   *)
(* (openEventLogForAppend: repair the tail, rotate, create, write, sync);  *)
(* "events --follow" tails the logical path and takes the lock, shared,    *)
(* only to snapshot the generations.                                       *)
(*                                                                         *)
(* A file is a sequence of records.  A record is "full" (terminated),      *)
(* "bare" (complete JSON without its newline) or "torn" (a fragment).      *)
(* Events are numbered in the order they are written.  A descriptor keeps  *)
(* its inode, so inodes are never reused.                                  *)
(***************************************************************************)
EXTENDS Naturals, FiniteSets, Sequences, SequencesExt

CONSTANTS Writers, NoWriter,
          MaxRecords,    \* maxEventLogBytes, counted in records
          MaxEvents,     \* bound on written records
          MaxAborts,     \* bound on failed or killed appends
          MaxTorn,       \* bound on those that leave part of a record
          MaxPowerLoss,
          Follows        \* whether a follower runs

ASSUME BoundsAssumption ==
  /\ MaxRecords \in Nat \ {0} /\ MaxEvents \in Nat
  /\ MaxAborts \in Nat /\ MaxTorn \in Nat /\ MaxPowerLoss \in Nat /\ Follows \in BOOLEAN
  /\ NoWriter \notin Writers

VARIABLES dirs,      \* directory states since the last directory fsync, oldest first
          file,      \* file[i]: the records of inode i
          durable,   \* durable[i]: its records as of the last fsync
          evLock,    \* holder of the exclusive flock
          wpc,       \* wpc[w]: the next step of append call w
          written,   \* records written so far
          acked,     \* events whose append returned nil
          dropped,   \* events in generations that left the retention window
          fol,       \* the follower
          out,       \* what the follower emitted
          aborts, torn, losses

disk == <<dirs, file, durable>>
tally == <<written, acked, dropped>>
evFaults == <<aborts, torn, losses>>
evVars == <<disk, evLock, wpc, tally, fol, out, evFaults>>

Inodes == 1..(MaxEvents + 1)
None == 0
Names == {"active", "1", "2"}
Events == 1..MaxEvents
Forms == {"full", "bare", "torn"}
EventRecords == [id : Events, form : Forms]

dir == Last(dirs)
WriterLabels == {"idle", "repair", "sync_repair", "rotate", "shift", "sync_shift",
                 "rename", "sync_rename", "open", "sync_open", "write", "sync"}
FollowerLabels == {"idle", "read", "eof", "decode", "checkpoint", "wake",
                   "boundary", "wait", "wait_retained", "done", "failed"}
\* cur, off: the open generation and the records consumed of it; tail: the
\* unterminated record whose bytes were consumed after them, chk: the record at
\* that place when the checkpoint was taken (None: no such record).
Followers == [pc : FollowerLabels, cur : Inodes \cup {None}, off : 0..MaxRecords,
              tail : Events \cup {None}, chk : Events \cup {None},
              queue : BoundedSeq(Inodes, 3), retained : BOOLEAN]

EvTypeOK ==
  /\ dirs \in Seq([Names -> Inodes \cup {None}]) /\ dirs # <<>>
  /\ file \in [Inodes -> BoundedSeq(EventRecords, MaxRecords)]
  /\ durable \in [Inodes -> BoundedSeq(EventRecords, MaxRecords)]
  /\ evLock \in Writers \cup {NoWriter}
  /\ wpc \in [Writers -> WriterLabels]
  /\ \A w \in Writers : wpc[w] # "idle" <=> evLock = w
  /\ written \in 0..MaxEvents /\ acked \subseteq Events /\ dropped \subseteq Events
  /\ fol \in Followers /\ out \in Seq(Events)
  /\ aborts \in 0..MaxAborts /\ torn \in 0..MaxTorn /\ losses \in 0..MaxPowerLoss

EvInit ==
  /\ dirs = <<[n \in Names |-> None]>>
  /\ file = [i \in Inodes |-> <<>>] /\ durable = file
  /\ evLock = NoWriter /\ wpc = [w \in Writers |-> "idle"]
  /\ written = 0 /\ acked = {} /\ dropped = {}
  /\ fol = [pc |-> "idle", cur |-> None, off |-> 0, tail |-> None, chk |-> None,
            queue |-> <<>>, retained |-> FALSE]
  /\ out = <<>> /\ aborts = 0 /\ torn = 0 /\ losses = 0

Ids(s) == {s[k].id : k \in DOMAIN s}
Contents(i) == IF i = None THEN <<>> ELSE file[i]

-----------------------------------------------------------------------------
(* The append path                                                          *)

EvGoto(w, label) == wpc' = [wpc EXCEPT ![w] = label]
EvRelease(w) == evLock' = NoWriter /\ EvGoto(w, "idle")
SetDir(d) == dirs' = Append(dirs, d)

LockWriter(w) ==
  /\ wpc[w] = "idle" /\ evLock = NoWriter /\ written < MaxEvents
  /\ evLock' = w /\ EvGoto(w, "repair")
  /\ UNCHANGED <<disk, tally, fol, out, evFaults>>

\* Mutant: the next record is appended behind whatever is there.
RepairedNever(s) == s
\* repairEventLogTail: a complete record gets its newline, a fragment is cut off.
Repaired(s) ==
  IF s = <<>> \/ Last(s).form = "full" THEN s
  ELSE IF Last(s).form = "bare" THEN [s EXCEPT ![Len(s)].form = "full"]
  ELSE Front(s)

Repair(w) ==
  /\ wpc[w] = "repair"
  /\ IF dir["active"] = None
     THEN EvGoto(w, "open") /\ UNCHANGED file
     ELSE LET s == file[dir["active"]]
          IN /\ file' = [file EXCEPT ![dir["active"]] = Repaired(s)]
             /\ EvGoto(w, IF Repaired(s) = s THEN "rotate" ELSE "sync_repair")
  /\ UNCHANGED <<dirs, durable, evLock, tally, fol, out, evFaults>>

SyncRepair(w) ==
  /\ wpc[w] = "sync_repair"
  /\ durable' = [durable EXCEPT ![dir["active"]] = file[dir["active"]]]
  /\ EvGoto(w, "rotate")
  /\ UNCHANGED <<dirs, file, evLock, tally, fol, out, evFaults>>

\* Mutant: one record too late.
RotationDueLate(s) == Len(s) > MaxRecords
RotationDue(s) == Len(s) >= MaxRecords

RotateIfNeeded(w) ==
  /\ wpc[w] = "rotate"
  /\ EvGoto(w, IF RotationDue(file[dir["active"]]) THEN "shift" ELSE "open")
  /\ UNCHANGED <<disk, evLock, tally, fol, out, evFaults>>

Rename(d, from, to) == [d EXCEPT ![to] = d[from], ![from] = None]

\* rotateRetainedEventLog; the directory is synced only after a real rename.
ShiftRetained(w) ==
  /\ wpc[w] = "shift"
  /\ \/ /\ dir["1"] = None
        /\ EvGoto(w, "rename") /\ UNCHANGED <<dirs, dropped>>
     \/ /\ dir["1"] # None
        /\ SetDir(Rename(dir, "1", "2"))
        /\ dropped' = dropped \cup Ids(Contents(dir["2"]))
        /\ EvGoto(w, "sync_shift")
  /\ UNCHANGED <<file, durable, evLock, written, acked, fol, out, evFaults>>

\* The directory fsyncs of the append path and the step after each of them.
AfterSync == [sync_shift |-> "rename", sync_rename |-> "open", sync_open |-> "write"]
\* Mutant: no fsync.
SyncDirectoryNever(w) ==
  /\ wpc[w] \in DOMAIN AfterSync
  /\ EvGoto(w, AfterSync[wpc[w]])
  /\ UNCHANGED <<disk, evLock, tally, fol, out, evFaults>>
SyncDirectory(w) ==
  /\ wpc[w] \in DOMAIN AfterSync
  /\ dirs' = <<dir>>
  /\ EvGoto(w, AfterSync[wpc[w]])
  /\ UNCHANGED <<file, durable, evLock, tally, fol, out, evFaults>>

RenameActive(w) ==
  /\ wpc[w] = "rename"
  /\ SetDir(Rename(dir, "active", "1"))
  /\ EvGoto(w, "sync_rename")
  /\ UNCHANGED <<file, durable, evLock, tally, fol, out, evFaults>>

Unused == {i \in Inodes : \A k \in DOMAIN dirs : i \notin {dirs[k][n] : n \in Names}}
Fresh == {i \in Unused : /\ file[i] = <<>> /\ durable[i] = <<>>
                        /\ fol.cur # i /\ i \notin ToSet(fol.queue)}

OpenActive(w) ==
  /\ wpc[w] = "open"
  /\ IF dir["active"] = None
     THEN Fresh # {} /\ SetDir([dir EXCEPT !["active"] = CHOOSE i \in Fresh : TRUE])
     ELSE UNCHANGED dirs
  /\ EvGoto(w, "sync_open")
  /\ UNCHANGED <<file, durable, evLock, tally, fol, out, evFaults>>

\* One write call; a short write leaves a record without its end.
WriteRecord(w) ==
  /\ wpc[w] = "write"
  /\ written' = written + 1
  /\ \E form \in Forms :
       /\ file' = [file EXCEPT ![dir["active"]] =
                                 Append(@, [id |-> written', form |-> form])]
       /\ IF form = "full"
          THEN EvGoto(w, "sync") /\ UNCHANGED <<evLock, torn>>
          ELSE torn < MaxTorn /\ torn' = torn + 1 /\ EvRelease(w)
  /\ UNCHANGED <<dirs, durable, acked, dropped, fol, out, aborts, losses>>

SyncRecord(w) ==
  /\ wpc[w] = "sync"
  /\ durable' = [durable EXCEPT ![dir["active"]] = file[dir["active"]]]
  /\ acked' = acked \cup {Last(file[dir["active"]]).id}
  /\ EvRelease(w)
  /\ UNCHANGED <<dirs, file, written, dropped, fol, out, evFaults>>

\* The step that is due fails, or the process dies before it: both drop the lock.
Abort(w) ==
  /\ wpc[w] # "idle" /\ aborts < MaxAborts
  /\ aborts' = aborts + 1 /\ EvRelease(w)
  /\ UNCHANGED <<disk, tally, fol, out, torn, losses>>

\* What a file may hold after a power loss: the synced bytes, or any prefix of
\* what was written since, its last record cut anywhere.
Synced(i) == {k \in 0..Len(file[i]) : /\ k <= Len(durable[i])
                                      /\ SubSeq(file[i], 1, k) = SubSeq(durable[i], 1, k)}
Survivors(i) ==
  LET prefixes == {SubSeq(file[i], 1, k) :
                     k \in {n \in 0..Len(file[i]) : \A m \in Synced(i) : m <= n}}
  IN {durable[i]} \cup prefixes
       \cup {[s EXCEPT ![Len(s)].form = f] : s \in {p \in prefixes : Len(p) \notin Synced(i)},
                                             f \in {"bare", "torn"}}

\* A journaled directory comes back as one of its states since the last fsync.
PowerLoss ==
  /\ losses < MaxPowerLoss /\ losses' = losses + 1
  /\ \E k \in DOMAIN dirs : dirs' = <<dirs[k]>>
  /\ LET dirty == {i \in Inodes : file[i] # durable[i]}
         outcomes == {f \in [dirty -> UNION {Survivors(i) : i \in dirty}] :
                        \A i \in dirty : f[i] \in Survivors(i)}
     IN \E f \in outcomes :
          file' = [i \in Inodes |-> IF i \in dirty THEN f[i] ELSE file[i]]
  /\ durable' = file'
  /\ evLock' = NoWriter /\ wpc' = [w \in Writers |-> "idle"]
  /\ fol' = [fol EXCEPT !.pc = "done"]
  /\ UNCHANGED <<tally, out, aborts, torn>>

-----------------------------------------------------------------------------
(* The follower: followEventLogFile                                         *)

FollowUnchanged == UNCHANGED <<disk, evLock, wpc, tally, evFaults>>

\* streamEventLogWithOptions over a closed generation: a complete last record is
\* emitted even without its newline, a fragment is not.
Streamed(s) ==
  LET whole == IF s # <<>> /\ Last(s).form = "torn" THEN Front(s) ELSE s
  IN [k \in DOMAIN whole |-> whole[k].id]

Attach(i) == [fol EXCEPT !.pc = "read", !.cur = i, !.off = 0, !.tail = None,
                         !.chk = None, !.retained = FALSE]

\* openEventLogFollowStartupSnapshot under LOCK_SH, then the retained
\* generations, which nobody writes any more, are drained.
StartFollow ==
  /\ Follows /\ fol.pc = "idle" /\ evLock = NoWriter
  /\ out' = Streamed(Contents(dir["2"])) \o Streamed(Contents(dir["1"]))
  /\ fol' = IF dir["active"] # None THEN Attach(dir["active"])
            ELSE [fol EXCEPT !.pc = "wait",
                             !.retained = dir["1"] = None /\ dir["2"] = None]
  /\ FollowUnchanged

Emit(id) == /\ out' = Append(out, id)
            /\ fol' = [fol EXCEPT !.off = @ + 1, !.tail = None, !.chk = None]
Move(label) == fol' = [fol EXCEPT !.pc = label] /\ UNCHANGED out

AtEnd == Len(Contents(fol.cur)) = fol.off
Current == file[fol.cur][fol.off + 1]
TailId == IF AtEnd THEN None ELSE Current.id

\* One readEventRecord of followOpenEventLog; reading ahead into the buffer shows
\* the follower nothing that a read at once would not.  A fragment that was cut off and
\* overwritten leaves the descriptor past the end of the new record or inside it.
ReadRecord ==
  /\ fol.pc = "read" /\ FollowUnchanged
  /\ \/ AtEnd /\ Move("eof")
     \/ /\ ~AtEnd /\ fol.tail \in {None, Current.id}
        /\ IF Current.form = "full" THEN Emit(Current.id)
           ELSE /\ fol' = [fol EXCEPT !.pc = "eof", !.tail = Current.id]
                /\ UNCHANGED out
     \/ /\ ~AtEnd /\ fol.tail \notin {None, Current.id}
        /\ \E label \in {"eof", "decode"} : Move(label)

\* inspectEventLogGenerationWithCheckpoint.  Only the tail is ever rewritten, so
\* prefix anchor and checkpoint can differ from the file only there; size and
\* anchor need not tell an overwritten tail, the checkpoint does.
ReopenForced ==
  \/ dir["active"] # fol.cur
  \/ fol.tail # None /\ TailId = None
  \/ fol.chk # None /\ TailId # fol.chk
ReopenPossible == ReopenForced \/ (fol.tail # None /\ TailId # fol.tail)

Inspect ==
  /\ fol.pc \in {"eof", "decode", "wake"} /\ FollowUnchanged
  /\ \/ ReopenPossible /\ Move("boundary")
     \/ ~ReopenForced /\ Move(CASE fol.pc = "eof" -> "checkpoint"
                                 [] fol.pc = "decode" -> "failed"
                                 [] fol.pc = "wake" -> "read")

\* readEventGenerationCheckpoint fails when the bytes behind the offset are gone.
Checkpoint ==
  /\ fol.pc = "checkpoint" /\ FollowUnchanged /\ UNCHANGED out
  /\ fol' = IF fol.tail = None THEN [fol EXCEPT !.pc = "wake", !.chk = None]
            ELSE IF AtEnd THEN [fol EXCEPT !.pc = "failed"]
            ELSE [fol EXCEPT !.pc = "wake", !.chk = Current.id]

\* openEventLogFollowSuccessors under LOCK_SH: the generations after the one
\* just left, or that one again when it is still the active path.
Opened(i) == IF i = None THEN <<>> ELSE <<i>>
Present == Opened(dir["2"]) \o Opened(dir["1"]) \o Opened(dir["active"])
\* Mutant: the generation already read comes again.
SuccessorsWithPrevious(i) ==
  LET match == CHOOSE k \in DOMAIN Present : Present[k] = i
  IN SubSeq(Present, match, Len(Present))
Successors(i) ==
  LET match == CHOOSE k \in DOMAIN Present : Present[k] = i
  IN IF i = dir["active"] THEN <<i>> ELSE SubSeq(Present, match + 1, Len(Present))

\* Mutant: the pending fragment is emitted at the boundary.
NextGenerationFlushes ==
  /\ fol.pc = "boundary" /\ FollowUnchanged
  /\ out' = IF fol.tail = None THEN out ELSE Append(out, fol.tail)
  /\ fol' = IF Present = <<>> THEN [fol EXCEPT !.pc = "failed"]
            ELSE Attach(Last(Present))

\* followEventLogAttachment at a generation boundary.  A pending fragment of the
\* generation that is left is discarded.
NextGeneration ==
  /\ fol.pc = "boundary" /\ FollowUnchanged /\ UNCHANGED out
  /\ \/ /\ fol.queue # <<>>
        /\ fol' = [Attach(Head(fol.queue)) EXCEPT !.queue = Tail(fol.queue)]
     \/ /\ fol.queue = <<>> /\ evLock = NoWriter
        /\ fol' = IF fol.cur \notin ToSet(Present) THEN [fol EXCEPT !.pc = "failed"]
                  ELSE LET next == Successors(fol.cur)
                       IN IF next = <<>> THEN [fol EXCEPT !.pc = "wait"]
                          ELSE [Attach(Head(next)) EXCEPT !.queue = Tail(next)]

\* openEventLogGenerationForFollowWith polls without the lock: first the active
\* path, then, on a first attachment only, .1.
WaitForLog ==
  /\ fol.pc = "wait" /\ FollowUnchanged /\ UNCHANGED out
  /\ \/ dir["active"] # None /\ fol' = Attach(dir["active"])
     \/ dir["active"] = None /\ fol.retained /\ fol' = [fol EXCEPT !.pc = "wait_retained"]
WaitForRetained ==
  /\ fol.pc = "wait_retained" /\ FollowUnchanged /\ UNCHANGED out
  /\ fol' = IF dir["1"] # None THEN Attach(dir["1"]) ELSE [fol EXCEPT !.pc = "wait"]

\* --until has passed: noticed at EOF or while waiting for the log.
Deadline ==
  /\ fol.pc \in {"wake", "wait"} /\ FollowUnchanged /\ Move("done")

-----------------------------------------------------------------------------
Writer(w) ==
  \/ LockWriter(w) \/ Repair(w) \/ SyncRepair(w) \/ RotateIfNeeded(w)
  \/ ShiftRetained(w) \/ SyncDirectory(w) \/ RenameActive(w) \/ OpenActive(w)
  \/ WriteRecord(w) \/ SyncRecord(w) \/ Abort(w)
Follower ==
  \/ StartFollow \/ ReadRecord \/ Inspect \/ Checkpoint \/ NextGeneration
  \/ WaitForLog \/ WaitForRetained \/ Deadline

EvNext == (\E w \in Writers : Writer(w)) \/ Follower \/ PowerLoss
EvSpec == EvInit /\ [][EvNext]_evVars

-----------------------------------------------------------------------------
(* Properties                                                               *)

Window == Contents(dir["2"]) \o Contents(dir["1"]) \o Contents(dir["active"])

\* Read oldest generation first, the log is in the order of the writes, and a
\* record is cut only at the end of a generation: no append ever lands behind a
\* fragment and merges with it (repairEventLogTail), and no rotation swaps or
\* repeats a generation, whatever failed and wherever the power went.
HistoryOrdered ==
  /\ \A j, k \in DOMAIN Window : j < k => Window[j].id < Window[k].id
  /\ \A n \in Names : \A k \in 1..(Len(Contents(dir[n])) - 1) :
       Contents(dir[n])[k].form = "full"

\* An event whose append returned nil is never lost but by the rotation that
\* replaces .2: rename and fsync order survives aborted appends and power loss.
AcknowledgedKept ==
  acked \ dropped \subseteq {Window[k].id : k \in {j \in DOMAIN Window : Window[j].form # "torn"}}

\* As long as no append was torn, the follower emits each event at most once and
\* in order: no handoff between generations replays one, however many rotations
\* were interrupted (followEventLogAttachment).  The repair of a torn append
\* shortens the file, which the follower takes for a copytruncate.
FollowerRepeatsNothing ==
  torn = 0 => \A j, k \in DOMAIN out : j < k => out[j] < out[k]

\* Between two emitted events the follower skipped no acknowledged one: it says
\* "gap" and stops rather than jump over a record (openEventLogFollowSuccessors).
FollowerMissesNothing ==
  \A k \in 1..(Len(out) - 1) : \A e \in acked : ~(out[k] < e /\ e < out[k + 1])

\* The follower emits a record only after its newline was written, though it may
\* have read the rest of it long before (followOpenEventLog, pending).
FollowerEmitsTerminated ==
  losses = 0 => ToSet(out) \subseteq UNION {{r.id : r \in {q \in ToSet(file[i]) : q.form = "full"}} : i \in Inodes}

\* What an append owes its caller: a log in the order of the writes that keeps
\* every acknowledged event (appendEventUnlocked with its repair and rotation).
LogIsIntact == EvTypeOK /\ HistoryOrdered /\ AcknowledgedKept

\* What a follower owes its reader: whole records, none of them twice
\* (followEventLogFile).
FollowerIsFaithful == FollowerRepeatsNothing /\ FollowerEmitsTerminated
=============================================================================
