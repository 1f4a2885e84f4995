----------------------------- MODULE ImageStore -----------------------------
(***************************************************************************)
(* Managed images: the metadata records of internal/state, the payload     *)
(* directories images/<ID>/rootfs of internal/imagestore, and the durable  *)
(* cleanup token that ties the removal of a payload to the removal of its  *)
(* last record.                                                            *)
(*                                                                         *)
(* Every store call runs under the state lock and is one step; extraction, *)
(* rename, removal and the calls in between are steps of their own, so     *)
(* commands of several processes interleave exactly there.  A call whose   *)
(* file operations fail, or succeed with a failing directory fsync, costs  *)
(* a fault; a process may die between any two steps.                       *)
(*                                                                         *)
(* A managed image's RootFS is images/<ID>/rootfs, so its ID stands for    *)
(* both.  A pulled image has no ID and lies in the directory Ext that the  *)
(* user named.  A record is stored under its name, or under its ID when it *)
(* is dangling; at is LoadedAt, which makes each publication unlike every  *)
(* earlier one; tagged is a Tag that is neither empty nor "<none>".        *)
(* Removal never unlinks images/<ID> itself.                               *)
(***************************************************************************)
EXTENDS Integers, FiniteSets

CONSTANTS Clients,    \* processes that run image commands
          Pruner,     \* the process that calls PruneOrphanLayers, again and again
          Ops,        \* the commands the clients run
          IDs, Tags,  \* payload identities and image names
          Ext, None,  \* the pulled directory; no value
          MaxClock,   \* bound on publications, each with its own LoadedAt
          MaxFaults, MaxCrashes

ASSUME NamesAssumption == Ext \notin IDs /\ None \notin IDs \cup Tags /\ IDs \cap Tags = {}
ASSUME PrunerAssumption == Pruner \notin Clients
ASSUME BoundsAssumption == MaxClock \in Nat /\ MaxFaults \in Nat /\ MaxCrashes \in Nat

VARIABLES recs,     \* storage key -> record
          tokens,   \* IDs with a cleanup-*.image-cleanup sidecar
          dir,      \* payload -> what is on disk
          ino,      \* ID -> inode of its rootfs, counted up at each creation
          lost,     \* history: IDs that lost their last record to a plain SaveImage
          pc, loc,  \* the processes
          clock, faults, crashes

store == <<recs, tokens>>
disk == <<dir, ino>>
vars == <<recs, tokens, dir, ino, lost, pc, loc, clock, faults, crashes>>

Procs == Clients \cup {Pruner}
Payloads == IDs \cup {Ext}
Keys == Tags \cup IDs
Images == [pay : Payloads, at : 0..MaxClock, tagged : BOOLEAN]

ASSUME NoneAssumption == None \notin Images

\* none: no images/<ID>; bare: images/<ID> without rootfs; partial: contents
\* half removed; empty: contents removed; scrap: what a failed rollback left.
DirStates == {"none", "bare", "partial", "empty", "full", "scrap"}
HasRootFS(d) == d \in {"partial", "empty", "full"}

Labels == {"idle", "rename", "verify", "publish", "check", "undo", "source", "alias",
           "extract", "save", "list", "get", "pin", "delete", "contents", "unlink",
           "clear", "deleteExt", "remaining", "removeExt", "all", "pending",
           "reference", "dangling", "next"}
\* sel, key, img: the selector, the key it resolved to and the record found or
\* to publish; want: the record a caller demands; pin: the pinned inode, 0 if
\* there is no rootfs; todo: what a prune has left; ret: where a removal returns.
Locals == [op : Ops \cup {"prune", None}, sel : Keys \cup {None}, key : Keys \cup {None},
           img : Images \cup {None}, want : Images \cup {None},
           snap : [Keys -> Images \cup {None}] \cup {None}, pin : Nat, owned : BOOLEAN,
           todo : SUBSET (Keys \X (Images \cup {None})), ret : {"idle", "reference", "next"}]
Idle == [op |-> None, sel |-> None, key |-> None, img |-> None, want |-> None,
         snap |-> None, pin |-> 0, owned |-> FALSE, todo |-> {}, ret |-> "idle"]

\* Records name payloads, sidecars name managed payloads, and every process is
\* at a step of its command with locals of the right kind.
TypeOK ==
  /\ recs \in [Keys -> Images \cup {None}] /\ tokens \subseteq IDs
  /\ dir \in [Payloads -> DirStates] /\ ino \in [IDs -> Nat] /\ lost \subseteq IDs
  /\ pc \in [Procs -> Labels] /\ loc \in [Procs -> Locals]
  /\ clock \in 0..MaxClock /\ faults \in 0..MaxFaults /\ crashes \in 0..MaxCrashes

Init ==
  /\ recs = [k \in Keys |-> None] /\ tokens = {}
  /\ dir = [x \in Payloads |-> "none"] /\ ino = [i \in IDs |-> 0] /\ lost = {}
  /\ pc = [p \in Procs |-> "idle"] /\ loc = [p \in Procs |-> Idle]
  /\ clock = 0 /\ faults = 0 /\ crashes = 0

-----------------------------------------------------------------------------
(* Step idioms                                                             *)

At(p, l) == pc[p] = l /\ UNCHANGED <<lost, clock, crashes>>
Goto(p, l) == pc' = [pc EXCEPT ![p] = l]
Keep == UNCHANGED loc
Fault == faults < MaxFaults /\ faults' = faults + 1
NoFault == UNCHANGED faults

Set(p, new) == loc' = [loc EXCEPT ![p] = new]

\* The command returns, with or without an error.
Return(p) == Goto(p, "idle") /\ Set(p, Idle)

\* A removal succeeded: a prune goes on with its loop, rmi is done.
Continue(p) ==
  /\ Goto(p, loc[p].ret)
  /\ Set(p, IF loc[p].ret = "idle" THEN Idle
            ELSE [Idle EXCEPT !.op = loc[p].op, !.todo = loc[p].todo])

-----------------------------------------------------------------------------
(* Records                                                                 *)

Holding(r, x) == {k \in Keys : r[k] # None /\ r[k].pay = x}
Referenced(r, x) == Holding(r, x) # {}
\* A pull, a load and an unpack give their record a name and no Tag.
Dangling(r) == {k \in Keys : r[k] # None /\ ~r[k].tagged}

\* resolveImageForRead: a name, or an ID, for which the unnamed alias sorts
\* first and otherwise the order of the names decides.
resolveImageForRead(r, sel) ==
  IF r[sel] # None THEN {sel} ELSE IF sel \in IDs THEN Holding(r, sel) ELSE {}

\* resolveImageForDelete: an ID must have one alias only.
resolveImageForDelete(r, sel) ==
  IF sel \in IDs THEN IF Cardinality(Holding(r, sel)) = 1 THEN Holding(r, sel) ELSE {}
  ELSE IF r[sel] # None THEN {sel} ELSE {}

\* ensureImageNotPendingCleanupUnlocked, ensureImageRegistryConsistentUnlocked
\* (names are not IDs, and an ID has one rootfs).
saveAdmits(img) == img.pay \notin tokens

\* publishImageUnlocked: does the overwrite of key leave the payload it names
\* now without any record?
Displaces(key, img) ==
  /\ recs[key] # None /\ recs[key].pay # img.pay
  /\ Holding(recs, recs[key].pay) = {key}

\* A displaced payload needs an ID to be recorded under, and no sidecar.
DisplacementBlocked(key, img) ==
  Displaces(key, img) /\ (recs[key].pay = Ext \/ ~saveAdmits(recs[key]))

\* Mutant: the displaced payload gets no record of its own.
preserveNothing(key, img) == recs

\* The displaced payload is first recorded as dangling, under its ID.
preserveDisplaced(key, img) ==
  IF Displaces(key, img) THEN [recs EXCEPT ![recs[key].pay] = [recs[key] EXCEPT !.tagged = FALSE]]
  ELSE recs

\* What PublishImage can leave behind, and how it returns: refused before or
\* after the dangling record was written, published, or one of the two writes
\* failed, possibly after its rename.
publishImageUnlocked(key, img) ==
  LET kept == preserveDisplaced(key, img)
      done == [kept EXCEPT ![key] = img]
  IN IF DisplacementBlocked(key, img) THEN {<<recs, "refused">>}
     ELSE IF saveAdmits(img) THEN {<<done, "ok">>} \cup {recs, kept, done} \X {"failed"}
          ELSE {<<kept, "refused">>} \cup {recs, kept} \X {"failed"}

\* One call of PublishImage by p, which goes to bad when it fails.
Publish(p, key, img, bad) ==
  /\ UNCHANGED <<tokens, disk>>
  /\ \E r \in publishImageUnlocked(key, img) :
       /\ recs' = r[1]
       /\ IF r[2] = "failed" THEN Fault ELSE NoFault
       /\ IF r[2] = "ok" \/ bad = "idle" THEN Return(p) ELSE Goto(p, bad) /\ Keep

-----------------------------------------------------------------------------
(* ImportRawRootFS, CommitContainer, BuildDockerfile                       *)

\* os.Rename of the staged tree: an existing images/<ID> refuses it.  A
\* commit or a build has a fresh ID and fails there; an import may reuse.
PublishRootFS(p) ==
  LET i == loc[p].img.pay
  IN /\ At(p, "rename") /\ UNCHANGED store
     /\ \/ /\ dir[i] = "none" /\ NoFault
           /\ dir' = [dir EXCEPT ![i] = "full"] /\ ino' = [ino EXCEPT ![i] = @ + 1]
           /\ Goto(p, "publish") /\ Set(p, [loc[p] EXCEPT !.owned = TRUE])
        \/ /\ dir[i] # "none" /\ loc[p].op = "import" /\ NoFault
           /\ UNCHANGED disk /\ Goto(p, "verify") /\ Keep
        \/ /\ dir[i] # "none" /\ loc[p].op = "commit" /\ NoFault
           /\ UNCHANGED disk /\ Return(p)
        \/ UNCHANGED disk /\ Return(p) /\ Fault

\* verifyReusableRawRootFSPayload: only with a committed record.
verifyReusableRawRootFSPayload(p) ==
  LET i == loc[p].img.pay
  IN /\ At(p, "verify") /\ UNCHANGED <<store, disk>> /\ NoFault
     /\ IF dir[i] # "none" /\ Referenced(recs, i) THEN Goto(p, "publish") /\ Keep
        ELSE Return(p)

\* ValidateConfiguredGeneration and PublishImage.
ImportPublish(p) ==
  /\ At(p, "publish")
  /\ \/ Publish(p, loc[p].sel, loc[p].img, IF loc[p].owned THEN "check" ELSE "idle")
     \/ /\ UNCHANGED <<store, disk>> /\ Fault
        /\ IF loc[p].owned THEN Goto(p, "undo") /\ Keep ELSE Return(p)

\* rawRootFSPayloadHasCommittedReference after a failed publication.
ImportCheck(p) ==
  /\ At(p, "check") /\ UNCHANGED <<store, disk>> /\ NoFault
  /\ IF Referenced(recs, loc[p].img.pay) THEN Return(p) ELSE Goto(p, "undo") /\ Keep

\* removeAll(imgDir), which may give up halfway.
ImportRollback(p) ==
  LET i == loc[p].img.pay
  IN /\ At(p, "undo") /\ UNCHANGED <<store, ino>> /\ Return(p)
     /\ \/ dir' = [dir EXCEPT ![i] = "none"] /\ NoFault
        \/ dir' = [dir EXCEPT ![i] = "scrap"] /\ Fault

-----------------------------------------------------------------------------
(* tag and pull                                                            *)

\* GetImage of the source.
TagSource(p) ==
  /\ At(p, "source") /\ UNCHANGED <<store, disk>> /\ NoFault
  /\ \/ \E k \in resolveImageForRead(recs, loc[p].sel) :
          Goto(p, "alias") /\ Set(p, [loc[p] EXCEPT !.key = k, !.img = recs[k]])
     \/ resolveImageForRead(recs, loc[p].sel) = {} /\ Return(p)

\* PublishImageIfSourceMatch: the selector still resolves to the same record.
PublishImageIfSourceMatch(p, target) ==
  /\ At(p, "alias")
  /\ IF loc[p].key \in resolveImageForRead(recs, loc[p].sel) /\ recs[loc[p].key] = loc[p].img
     THEN Publish(p, target, [loc[p].img EXCEPT !.tagged = TRUE], "idle")
     ELSE UNCHANGED <<store, disk>> /\ NoFault /\ Return(p)

\* PullImage extracts into the directory the user named.
PullExtract(p) ==
  /\ At(p, "extract") /\ UNCHANGED <<store, ino>> /\ NoFault
  /\ dir' = [dir EXCEPT ![Ext] = "full"] /\ Goto(p, "save") /\ Keep

\* SaveImage: the record under this name is overwritten, whatever it named.
SaveImage(p) ==
  LET new == [recs EXCEPT ![loc[p].sel] = loc[p].img]
  IN /\ pc[p] = "save" /\ UNCHANGED <<tokens, disk, clock, crashes>> /\ Return(p)
     /\ \/ recs' = new /\ NoFault
        \/ recs' \in {recs, new} /\ Fault
     /\ lost' = lost \cup {i \in IDs : Referenced(recs, i) /\ ~Referenced(recs', i)}

-----------------------------------------------------------------------------
(* RemoveImage                                                             *)

\* ListImages, the preflight over the whole index.
RemoveList(p) ==
  /\ At(p, "list") /\ UNCHANGED <<store, disk>> /\ NoFault
  /\ Goto(p, "get") /\ Set(p, [loc[p] EXCEPT !.snap = recs])

\* GetImage: the record must be the one the caller demands and be in the list.
RemoveGet(p) ==
  LET found == resolveImageForRead(recs, loc[p].sel)
      Demanded(k) == loc[p].want \in {None, recs[k]} /\ loc[p].snap[k] = recs[k]
  IN /\ At(p, "get") /\ UNCHANGED <<store, disk>> /\ NoFault
     /\ \/ \E k \in found :
             /\ Demanded(k)
             /\ Goto(p, IF recs[k].pay = Ext THEN "deleteExt" ELSE "pin")
             /\ Set(p, [loc[p] EXCEPT !.key = k, !.img = recs[k], !.snap = None])
        \/ (found = {} \/ \E k \in found : ~Demanded(k)) /\ Return(p)

\* Mutant: a missing rootfs is left as descriptor -1.
PinWithoutAbsence(p) ==
  LET i == loc[p].img.pay
  IN /\ At(p, "pin") /\ UNCHANGED <<store, disk>> /\ NoFault
     /\ Goto(p, IF loc[p].ret = "reference" THEN "contents" ELSE "delete")
     /\ Set(p, [loc[p] EXCEPT !.pin = IF HasRootFS(dir[i]) THEN ino[i] ELSE -1])

\* pinManagedImageRootFS holds the inode open, or finds that there is none.
PinRootFS(p) ==
  LET i == loc[p].img.pay
  IN /\ At(p, "pin") /\ UNCHANGED <<store, disk>>
     /\ \/ /\ NoFault /\ Goto(p, IF loc[p].ret = "reference" THEN "contents" ELSE "delete")
           /\ Set(p, [loc[p] EXCEPT !.pin = IF HasRootFS(dir[i]) THEN ino[i] ELSE 0])
        \/ Return(p) /\ Fault

\* The record is still the one read: its key is what the selector deletes.
StillMatches(p) ==
  loc[p].key \in resolveImageForDelete(recs, loc[p].sel) /\ recs[loc[p].key] = loc[p].img

\* DeleteImageIfMatchWithCleanup on the record under k: the sidecar is written
\* before the last record is unlinked, and stays when the unlink fails.
DeleteImageIfMatchWithCleanup(k, i) ==
  LET gone == [recs EXCEPT ![k] = None]
  IN IF Holding(recs, i) # {k}
     THEN {<<gone, tokens, "alias">>} \cup {<<r, tokens, "failed">> : r \in {recs, gone}}
     ELSE {<<gone, tokens \cup {i}, "ok">>, <<recs, tokens, "failed">>}
          \cup {<<r, tokens \cup {i}, "failed">> : r \in {recs, gone}}

RemoveDelete(p) ==
  /\ At(p, "delete") /\ UNCHANGED disk
  /\ \/ /\ StillMatches(p)
        /\ \E r \in DeleteImageIfMatchWithCleanup(loc[p].key, loc[p].img.pay) :
             /\ recs' = r[1] /\ tokens' = r[2]
             /\ IF r[3] = "failed" THEN Fault ELSE NoFault
             /\ CASE r[3] = "ok" -> Goto(p, "contents") /\ Keep
                  [] r[3] = "alias" -> Continue(p)
                  [] r[3] = "failed" -> Return(p)
     \/ ~StillMatches(p) /\ UNCHANGED store /\ NoFault /\ Return(p)

\* Somebody else is emptying the same inode: an entry may vanish under us.
Contended(p) ==
  \E q \in Procs \ {p} : pc[q] \in {"contents", "unlink"} /\ loc[q].pin = loc[p].pin
                          /\ loc[q].img.pay = loc[p].img.pay

\* Mutant: an error while emptying the directory is not looked at.
RemoveContentsForgives(p) ==
  LET i == loc[p].img.pay
  IN /\ At(p, "contents") /\ UNCHANGED <<store, ino>> /\ Goto(p, "clear") /\ Keep
     /\ \/ dir' = [dir EXCEPT ![i] = IF HasRootFS(@) THEN "bare" ELSE @] /\ NoFault
        \/ dir' = [dir EXCEPT ![i] = IF HasRootFS(@) THEN "partial" ELSE @] /\ Fault

\* removePinnedImageDirContents, on the pinned inode only.
RemoveContents(p) ==
  LET i == loc[p].img.pay
      Empties(d) == dir' = IF HasRootFS(dir[i]) /\ ino[i] = loc[p].pin
                           THEN [dir EXCEPT ![i] = d] ELSE dir
  IN /\ At(p, "contents") /\ UNCHANGED <<store, ino>>
     /\ \/ /\ loc[p].pin = 0 /\ UNCHANGED dir /\ NoFault
           /\ Goto(p, "clear") /\ Keep
        \/ loc[p].pin # 0 /\ Empties("empty") /\ NoFault /\ Goto(p, "unlink") /\ Keep
        \/ /\ loc[p].pin # 0 /\ Return(p)
           /\ Empties(IF dir[i] = "empty" THEN "empty" ELSE "partial")
           /\ IF Contended(p) THEN NoFault ELSE Fault

\* Recheck the identity of rootfs and unlink it.
RemoveUnlink(p) ==
  LET i == loc[p].img.pay
      same == dir[i] = "empty" /\ ino[i] = loc[p].pin
  IN /\ At(p, "unlink") /\ UNCHANGED <<store, ino>>
     /\ \/ /\ same /\ dir' = [dir EXCEPT ![i] = "bare"] /\ NoFault
           /\ Goto(p, "clear") /\ Keep
        \/ ~same /\ UNCHANGED dir /\ NoFault /\ Return(p)
        \/ UNCHANGED dir /\ Fault /\ Return(p)

\* ClearImageCleanupIfMatch
RemoveClear(p) ==
  LET t == tokens \ {loc[p].img.pay}
  IN /\ At(p, "clear") /\ UNCHANGED <<recs, disk>>
     /\ \/ tokens' = t /\ NoFault /\ Continue(p)
        \/ tokens' \in {tokens, t} /\ Fault /\ Return(p)

-----------------------------------------------------------------------------
(* RemoveImage of a directory outside the store                            *)

\* DeleteImageIfMatch
RemoveDeleteExt(p) ==
  LET gone == [recs EXCEPT ![loc[p].key] = None]
  IN /\ At(p, "deleteExt") /\ UNCHANGED <<tokens, disk>>
     /\ \/ StillMatches(p) /\ recs' = gone /\ NoFault /\ Goto(p, "remaining") /\ Keep
        \/ StillMatches(p) /\ recs' \in {recs, gone} /\ Fault /\ Return(p)
        \/ ~StillMatches(p) /\ UNCHANGED recs /\ NoFault /\ Return(p)

RemoveRemaining(p) ==
  /\ At(p, "remaining") /\ UNCHANGED <<store, disk>> /\ NoFault
  /\ IF Referenced(recs, Ext) THEN Continue(p) ELSE Goto(p, "removeExt") /\ Keep

RemoveExt(p) ==
  /\ At(p, "removeExt") /\ UNCHANGED <<store, ino>>
  /\ \/ dir' = [dir EXCEPT ![Ext] = "none"] /\ NoFault /\ Continue(p)
     \/ dir' = [dir EXCEPT ![Ext] = "scrap"] /\ Fault /\ Return(p)

-----------------------------------------------------------------------------
(* PruneOrphanLayers and SystemPrune                                       *)

\* What a sidecar says: a payload, and nothing of a record.
Payload(i) == [pay |-> i, at |-> 0, tagged |-> FALSE]

\* ListImageCleanups
PrunePending(p) ==
  /\ At(p, "pending") /\ UNCHANGED <<store, disk>> /\ NoFault
  /\ Goto(p, "reference") /\ Set(p, [loc[p] EXCEPT !.todo = tokens \X {None}])

\* Mutant: the sidecar alone is authority enough.
recoverUnproven(p, i) ==
  /\ UNCHANGED store /\ NoFault
  /\ IF i \in tokens
     THEN /\ Goto(p, "pin")
          /\ Set(p, [loc[p] EXCEPT !.todo = @ \ {<<i, None>>}, !.ret = "reference",
                                   !.img = Payload(i)])
     ELSE Goto(p, "reference") /\ Set(p, [loc[p] EXCEPT !.todo = @ \ {<<i, None>>}])

\* Mutant: a sidecar whose payload is in use is left for later.
keepReferencedCleanup(p, i) ==
  /\ UNCHANGED store /\ NoFault
  /\ IF i \in tokens /\ ~Referenced(recs, i)
     THEN /\ Goto(p, "pin")
          /\ Set(p, [loc[p] EXCEPT !.todo = @ \ {<<i, None>>}, !.ret = "reference",
                                   !.img = Payload(i)])
     ELSE Goto(p, "reference") /\ Set(p, [loc[p] EXCEPT !.todo = @ \ {<<i, None>>}])

\* ClearImageCleanupIfReferenced, and where recovery goes from there: the
\* sidecar is gone or its payload in use, or there is authority to remove it.
ClearImageCleanupIfReferenced(p, i) ==
  LET rest == [loc[p] EXCEPT !.todo = @ \ {<<i, None>>}]
  IN \/ /\ i \notin tokens /\ UNCHANGED store /\ NoFault
        /\ Goto(p, "reference") /\ Set(p, rest)
     \/ /\ i \in tokens /\ Referenced(recs, i)
        /\ tokens' = tokens \ {i} /\ UNCHANGED recs /\ NoFault
        /\ Goto(p, "reference") /\ Set(p, rest)
     \/ /\ i \in tokens /\ Referenced(recs, i)
        /\ tokens' \in {tokens, tokens \ {i}} /\ UNCHANGED recs /\ Fault
        /\ Return(p)
     \/ /\ i \in tokens /\ ~Referenced(recs, i) /\ UNCHANGED store /\ NoFault
        /\ Goto(p, "pin")
        /\ Set(p, [rest EXCEPT !.ret = "reference", !.img = Payload(i)])

\* recoverPendingManagedImageCleanups
PruneReference(p) ==
  /\ At(p, "reference") /\ UNCHANGED disk
  /\ \/ \E t \in loc[p].todo : ClearImageCleanupIfReferenced(p, t[1])
     \/ loc[p].todo = {} /\ UNCHANGED store /\ NoFault /\ Goto(p, "dangling") /\ Keep

\* ListImages: the records without a Tag, to be removed whatever they have become.
PruneDangling(p) ==
  /\ At(p, "dangling") /\ UNCHANGED <<store, disk>> /\ NoFault
  /\ Goto(p, "next") /\ Set(p, [Idle EXCEPT !.op = "prune", !.todo = Dangling(recs) \X {None}])

\* SystemPrune lists every image and demands what it listed.
PruneAll(p) ==
  /\ At(p, "all") /\ UNCHANGED <<store, disk>> /\ NoFault
  /\ Goto(p, "next")
  /\ Set(p, [loc[p] EXCEPT !.todo = {<<k, recs[k]>> : k \in {l \in Keys : recs[l] # None}}])

\* The next image of either loop; a failed removal has ended it.
PruneNext(p) ==
  /\ At(p, "next") /\ UNCHANGED <<store, disk>> /\ NoFault
  /\ \/ \E t \in loc[p].todo :
          /\ Goto(p, "list")
          /\ Set(p, [loc[p] EXCEPT !.todo = @ \ {t}, !.sel = t[1], !.want = t[2], !.ret = "next"])
     \/ loc[p].todo = {} /\ Return(p)

-----------------------------------------------------------------------------
(* Commands                                                                *)

Begin(p, l, new) ==
  /\ pc[p] = "idle" /\ Goto(p, l) /\ Set(p, new)
  /\ UNCHANGED <<store, disk, lost, faults, crashes>>

\* A tree is staged for a payload, or a pull is about to extract; each has a
\* LoadedAt of its own.
StartPublication(p) ==
  /\ clock < MaxClock /\ clock' = clock + 1
  /\ \E t \in Tags :
       \/ \E i \in IDs, op \in {"import", "commit"} \cap Ops :
            Begin(p, "rename", [Idle EXCEPT !.op = op, !.sel = t,
                                !.img = [pay |-> i, at |-> clock', tagged |-> TRUE]])
       \/ /\ "pull" \in Ops
          /\ Begin(p, "extract",
                   [Idle EXCEPT !.op = "pull", !.sel = t,
                                !.img = [pay |-> Ext, at |-> clock', tagged |-> FALSE]])

StartCommand(p) ==
  /\ UNCHANGED clock
  /\ \/ "tag" \in Ops /\ \E k \in Keys : Begin(p, "source", [Idle EXCEPT !.op = "tag", !.sel = k])
     \/ "rmi" \in Ops /\ \E k \in Keys : Begin(p, "list", [Idle EXCEPT !.op = "rmi", !.sel = k])
     \/ "system" \in Ops /\ Begin(p, "all", [Idle EXCEPT !.op = "system"])

StartPrune == UNCHANGED clock /\ Begin(Pruner, "pending", [Idle EXCEPT !.op = "prune"])

\* The process dies; what it wrote stays.
Crash(p) ==
  /\ pc[p] # "idle" /\ crashes < MaxCrashes /\ crashes' = crashes + 1
  /\ Return(p) /\ UNCHANGED <<store, disk, lost, clock, faults>>

Step(p) ==
  \/ PublishRootFS(p) \/ verifyReusableRawRootFSPayload(p) \/ ImportPublish(p)
  \/ ImportCheck(p) \/ ImportRollback(p)
  \/ TagSource(p) \/ \E t \in Tags : PublishImageIfSourceMatch(p, t)
  \/ PullExtract(p) \/ SaveImage(p)
  \/ RemoveList(p) \/ RemoveGet(p) \/ PinRootFS(p) \/ RemoveDelete(p)
  \/ RemoveContents(p) \/ RemoveUnlink(p) \/ RemoveClear(p)
  \/ RemoveDeleteExt(p) \/ RemoveRemaining(p) \/ RemoveExt(p)
  \/ PrunePending(p) \/ PruneReference(p) \/ PruneDangling(p) \/ PruneAll(p) \/ PruneNext(p)

Next ==
  \/ \E p \in Clients : StartPublication(p) \/ StartCommand(p)
  \/ StartPrune
  \/ \E p \in Procs : Step(p) \/ Crash(p)

Spec == Init /\ [][Next]_vars

-----------------------------------------------------------------------------
(* Properties                                                              *)

\* The contents of a managed payload are removed only while no record refers
\* to it, whoever removes them: rmi, a prune of either kind, the recovery of a
\* removal that was interrupted, or the rollback of an import.  It is said of
\* the first tree under an ID: once an import has taken it back, the ID can be
\* imported again under a removal that has not looked since.  And of payloads
\* that no SaveImage has hidden: the import that made such a payload may take
\* it back after another import has verified it.
RemovesOnlyUnreferenced ==
  [][\A i \in IDs \ lost :
       ino[i] <= 1 /\ dir[i] = "full" /\ dir'[i] # "full" => ~Referenced(recs, i)]_vars

\* A payload some record names can be found again by rmi or by prune: it keeps
\* a record or gets a cleanup sidecar, unless a plain SaveImage overwrites its
\* last name.
StaysReachable ==
  [][\A i \in IDs : Referenced(recs, i) =>
       \/ Referenced(recs', i) \/ i \in tokens'
       \/ \E p \in Procs : pc[p] = "save" /\ pc'[p] = "idle"]_vars

\* A payload whose removal has begun is owed: its sidecar outlives the process
\* that removes it until the rootfs is gone.  Of the first tree again: a recovery
\* that read the sidecar of the first may pin the second when it is retired.
HalfRemovedIsOwed ==
  \A i \in IDs : ino[i] <= 1 /\ dir[i] \in {"partial", "empty"} => i \in tokens

\* With a prune run again and again, every sidecar is retired, by finishing the
\* removal or by finding the payload in use.
CleanupRecovered == \A i \in IDs : i \in tokens ~> i \notin tokens

\* No removal is forgotten half way (DeleteImageIfMatchWithCleanup).
RemovalIsOwed == TypeOK /\ HalfRemovedIsOwed
=============================================================================
