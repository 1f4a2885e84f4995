---------------------------- MODULE LayerExtract ----------------------------
(***************************************************************************)
(* How an image's layers become a root file system: image.LoadDockerSave,  *)
(* whose layers applyLayerReader applies, and registry.PullImage, whose    *)
(* layers image.Unpack extracts.                                           *)
(*                                                                         *)
(* One command gathers its layers, inspects the destination and applies    *)
(* one archive record per step, in a private staging directory when the    *)
(* destination did not exist.  The records are the environment's.  A hard  *)
(* link whose source is not there yet waits in exPend and is retried after *)
(* every entry; the mode of a directory waits in exMeta until the layer    *)
(* ends, so that a restrictive one does not stop its own children.         *)
(*                                                                         *)
(* A path is the sequence of its components.  A device or a FIFO is a      *)
(* "node".  meta is what verifyPinnedHardlinkMetadata compares: mode,      *)
(* owner, mtime and declared xattrs.  They are restored with the new inode *)
(* in hand and are part of making it.                                      *)
(***************************************************************************)
EXTENDS Integers, Sequences, SequencesExt

CONSTANTS Paths,      \* a prefix-closed set of nonempty paths
          Records,    \* the archive records the environment may present
          Modes,      \* declared metadata
          MaxLayers,  \* layers in the manifest
          MaxRecords, \* bound on the records of all layers together
          ExScenes    \* what a behaviour is about: the command (kind), how many records
                      \* it reads, the destination it finds, whether another command
                      \* publishes there (rival), and how much goes wrong (faults)

Root == <<>>
Beneath(p) == {q \in Paths : IsStrictPrefix(p, q)}
Above(p) == {q \in Paths : IsStrictPrefix(q, p)}
Entries == {"dir", "file", "sym", "node", "link"}
Operations == Entries \cup {"whiteout", "opaque"}
MetadataFiles == 5  \* SaveImage, environment, working directory, command, stop signal
Ended == {"ok", "error", "dead"}
Plain == "0755"    \* the mode of a parent nobody declared
Raw == "raw"       \* a declared directory before its layer ends
NoNode == [kind |-> "none"]

ASSUME PathsAssumption ==
  /\ Root \notin Paths
  /\ \A p \in Paths : p \in Seq(STRING) /\ (Len(p) > 1 => Front(p) \in Paths)
  /\ Modes \cap {Plain, Raw} = {}
ASSUME RecordsAssumption ==
  \A r \in Records : r.op \in Operations /\ r.at \in Paths \cup {Root}
                     /\ (r.at = Root => r.op = "opaque") /\ r.from \in Paths /\ r.meta \in Modes
ASSUME ExScenesAssumption ==
  /\ MaxLayers \in Nat \ {0} /\ MaxRecords \in Nat
  /\ ExScenes \subseteq [kind : {"load", "pull"}, records : 0..MaxRecords,
                         dest : {"absent", "theirs"}, rival : BOOLEAN, faults : Nat]

VARIABLES exScene,
          exPc,      \* where the command is
          exLayer,   \* the layer it reads
          exRead,    \* records read so far, over all layers
          exTree,    \* path -> node: the tree being assembled
          exPend,    \* deferredHardlinks.entries
          exMeta,    \* directoryMetadataToFinalize: the last one per path
          exStaged,  \* the tree is in a staging directory
          exSaved,   \* metadata files a pull has written
          exDest,    \* what is at the destination
          exFaults,
          exNamed,   \* history: the last record that decided about a path
          exWant,    \* history: the mode declared for the directory now at a path
          exMarkers  \* history: deletion markers that Unpack took for files

exVars == <<exScene, exPc, exLayer, exRead, exTree, exPend, exMeta, exStaged, exSaved, exDest,
            exFaults, exNamed, exWant, exMarkers>>
exHistory == <<exNamed, exWant, exMarkers>>

Nodes == [kind : {"dir", "file", "sym", "node"}, ino : 1..MaxRecords,
          meta : Modes \cup {Plain, Raw}, seq : 1..MaxRecords]
Deferred == [at : Paths, from : Paths, meta : Modes, seq : 1..MaxRecords]

Node(kind, meta, seq) == [kind |-> kind, ino |-> seq, meta |-> meta, seq |-> seq]

\* The assembled tree is a tree: what has a name has a directory above it.  A
\* recursive removal that forgets the contents, or a parent that is not made,
\* breaks this.
ExTypeOK ==
  /\ exPc \in {"gather", "members", "config", "blobs", "inspect", "read", "publish", "save",
               "fail"} \cup Ended
  /\ exLayer \in 1..MaxLayers /\ exRead \in 0..MaxRecords /\ exSaved \in 0..MetadataFiles
  /\ exTree \in [Paths -> Nodes \cup {NoNode}] /\ exPend \in Seq(Deferred)
  /\ exMeta \in [Paths -> Modes \cup {Plain}] /\ exStaged \in BOOLEAN
  /\ exDest \in {"absent", "theirs", "merged", "ours"} /\ exFaults \in 0..exScene.faults
  /\ exNamed \in [Paths -> 0..MaxRecords] /\ exWant \in [Paths -> Modes \cup {Plain}]
  /\ exMarkers \in 0..MaxRecords
  /\ \A p \in Paths : exTree[p] # NoNode => \A q \in Above(p) : exTree[q].kind = "dir"

ExInit ==
  /\ exScene \in ExScenes /\ exPc = "gather" /\ exLayer = 1 /\ exRead = 0
  /\ exTree = [p \in Paths |-> NoNode] /\ exPend = <<>> /\ exMeta = [p \in Paths |-> Plain]
  /\ exStaged = FALSE /\ exSaved = 0 /\ exDest = exScene.dest /\ exFaults = 0
  /\ exNamed = [p \in Paths |-> 0] /\ exWant = [p \in Paths |-> Plain] /\ exMarkers = 0

-----------------------------------------------------------------------------
(* The tree                                                                *)

\* openParent walks the parents without following links, and makes them.
ParentBlocked(t, p) == \E q \in Above(p) : t[q] # NoNode /\ t[q].kind # "dir"
WithParents(t, p, seq) ==
  [q \in Paths |-> IF q \in Above(p) /\ t[q] = NoNode THEN Node("dir", Plain, seq) ELSE t[q]]

\* A name that is not a directory's is unlinked and made anew.
Replaced(t, p, node) == [WithParents(t, p, node.seq) EXCEPT ![p] = node]
LeafRefused(t, p) == ParentBlocked(t, p) \/ t[p].kind = "dir"

writeRegular(t, r, seq) == Replaced(t, r.at, Node("file", r.meta, seq))
createSymlink(t, r, seq) == Replaced(t, r.at, Node("sym", r.meta, seq))
makeSpecial(t, r, seq) == Replaced(t, r.at, Node("node", r.meta, seq))

\* A directory entry reuses a directory and replaces nothing but a symbolic link.
DirRefused(t, p) == ParentBlocked(t, p) \/ t[p].kind \in {"file", "node"}
createDirectory(t, r, seq) ==
  IF t[r.at].kind = "dir" THEN t ELSE Replaced(t, r.at, Node("dir", Raw, seq))

\* applyTarEntry, except for a link.
EntryRefused(t, r) == IF r.op = "dir" THEN DirRefused(t, r.at) ELSE LeafRefused(t, r.at)
applyTarEntry(t, r, seq) ==
  CASE r.op = "dir" -> createDirectory(t, r, seq)
    [] r.op = "file" -> writeRegular(t, r, seq)
    [] r.op = "sym" -> createSymlink(t, r, seq)
    [] r.op = "node" -> makeSpecial(t, r, seq)

\* Mutant: only the name itself is unlinked.
unlinkOnly(t, gone) ==
  [q \in Paths |-> IF q \in gone /\ Above(q) \cap gone = {} THEN NoNode ELSE t[q]]

\* removeTreeAt, clearDirectoryFD: depth first, so a failure leaves a tree.
removeTrees(t, gone) == [q \in Paths |-> IF q \in gone THEN NoNode ELSE t[q]]

\* A whiteout beneath something that is not a directory is an error; one
\* beneath nothing is not.
removeWhiteoutRefused(t, p) == ParentBlocked(t, p)
removeWhiteout(t, p) == removeTrees(t, {p} \cup Beneath(p))

\* What is not a directory is left alone.
clearOpaqueWhiteout(t, p) ==
  IF p = Root \/ t[p].kind = "dir" THEN removeTrees(t, Beneath(p)) ELSE t

\* Every directory that waits is opened, deepest first and without following
\* links, and given its mode.
finalizeRefused(t, meta) == \E p \in Paths : meta[p] # Plain /\ t[p].kind # "dir"
finalizeDirectoryMetadata(t, meta) ==
  [p \in Paths |-> IF meta[p] = Plain THEN t[p] ELSE [t[p] EXCEPT !.meta = meta[p]]]

-----------------------------------------------------------------------------
(* Hard links                                                              *)

\* The source is pinned and compared before any parent of the link is made.
SourceMissing(t, l) == ~ParentBlocked(t, l.from) /\ t[l.from] = NoNode
MetadataDiffers(t, l) == t[l.from].meta # l.meta
LinkRefused(t, l) ==
  \/ ParentBlocked(t, l.from) \/ t[l.from].kind = "dir" \/ MetadataDiffers(t, l)
  \/ LeafRefused(t, l.at)

\* publishPinnedHardlinkSource: staged beside the name and renamed over it.  When
\* the name already is that inode, rename does nothing and the staging name, which
\* is none of Paths, stays beside it.
createHardlink(t, l) ==
  [WithParents(t, l.at, l.seq) EXCEPT ![l.at] = [t[l.from] EXCEPT !.seq = l.seq]]

\* An extraction in progress: its tree, the links that wait, and whether it failed.
TryLink(a, l) ==
  IF a.bad \/ SourceMissing(a.tree, l) THEN [a EXCEPT !.pend = Append(@, l)]
  ELSE IF LinkRefused(a.tree, l) THEN [a EXCEPT !.bad = TRUE]
  ELSE [a EXCEPT !.tree = createHardlink(@, l)]
Pass(a) == FoldLeft(TryLink, [a EXCEPT !.pend = <<>>], a.pend)

\* Mutant: one pass over the links that wait.
resolveOnce(a) == Pass(a)

\* Pass after pass until one makes no progress; each but the last resolves one.
resolveAvailable(a) == FoldLeft(LAMBDA b, l : Pass(b), a, a.pend)

\* Mutant: only a link with the very same name is cancelled.
cancelName(pend, r) == SelectSeq(pend, LAMBDA l : l.at # r.at)

\* A later entry replaces a link that still waits under its name, and unless it
\* is a directory makes the names beneath it unreachable.
cancelForEntry(pend, r) ==
  SelectSeq(pend, LAMBDA l : l.at # r.at /\ (r.op # "dir" => l.at \notin Beneath(r.at)))

-----------------------------------------------------------------------------
(* The command                                                             *)

\* exPc = l, and the step leaves the scene alone.
ExAt(l) == exPc = l /\ UNCHANGED exScene
ExGoto(l) == exPc' = l
ExFault == exFaults < exScene.faults /\ exFaults' = exFaults + 1
ExUnread == UNCHANGED <<exLayer, exRead, exTree, exPend, exMeta, exHistory>>

\* A step that only moves on, or fails.
Passes(l, next) ==
  /\ ExAt(l) /\ ExUnread /\ UNCHANGED <<exStaged, exSaved, exDest>>
  /\ \/ ExGoto(next) /\ UNCHANGED exFaults
     \/ ExGoto("fail") /\ ExFault

\* load: the archive is unpacked into a temporary directory and the manifest
\* read; then every layer is opened and pinned.
LoadArchive == exScene.kind = "load" /\ Passes("gather", "members")
LoadMembers == Passes("members", "inspect")

\* pull: token and manifest are fetched and validated; then the config; then
\* every layer is downloaded, and its size and digest compared.
PullManifest == exScene.kind = "pull" /\ Passes("gather", "config")
PullConfig == Passes("config", "blobs")
PullBlobs == Passes("blobs", "inspect")

\* A destination that exists is extracted into; else a staging directory is made.
InspectDestination ==
  /\ ExAt("inspect") /\ ExUnread /\ UNCHANGED <<exDest, exSaved>>
  /\ \/ ExGoto("read") /\ exStaged' = (exDest = "absent") /\ UNCHANGED exFaults
     \/ ExGoto("fail") /\ ExFault /\ UNCHANGED exStaged
LoadDestination == exScene.kind = "load" /\ InspectDestination
PullDestination == exScene.kind = "pull" /\ InspectDestination

\* What extraction in progress a leaves: the tree in place of the destination's
\* when it works there.
Settle(a) ==
  /\ exTree' = a.tree /\ exPend' = a.pend
  /\ exDest' = IF exStaged THEN exDest ELSE "merged"
  /\ ExGoto(IF a.bad THEN "fail" ELSE "read")

\* History: the paths a record decides about, itself and what lies beneath.
Decided(r) ==
  (IF r.op = "opaque" THEN {} ELSE {r.at}) \cup (IF r.op = "dir" THEN {} ELSE Beneath(r.at))
Decide(r) ==
  /\ exRead < exScene.records /\ exRead' = exRead + 1
  /\ exNamed' = [q \in Paths |-> IF q \in Decided(r) THEN exRead + 1 ELSE exNamed[q]]
  /\ exWant' = [q \in Paths |-> IF q \notin Decided(r) THEN exWant[q]
                                ELSE IF r.op = "dir" THEN r.meta ELSE Plain]

\* applyTarEntryWithDeferredHardlinks on an extraction a whose links are
\* cancelled: a link that must wait is the only entry that resolves nothing.
Applied(a, r, seq) ==
  LET l == [at |-> r.at, from |-> r.from, meta |-> r.meta, seq |-> seq]
  IN IF r.op = "link"
     THEN IF SourceMissing(a.tree, l) THEN [a EXCEPT !.pend = Append(@, l)]
          ELSE IF LinkRefused(a.tree, l) THEN [a EXCEPT !.bad = TRUE]
          ELSE resolveAvailable([a EXCEPT !.tree = createHardlink(@, l)])
     ELSE IF EntryRefused(a.tree, r) THEN [a EXCEPT !.bad = TRUE]
          ELSE resolveAvailable([a EXCEPT !.tree = applyTarEntry(@, r, seq)])

\* One entry of a layer, by applyLayerReader and by Unpack alike.
ReadEntry ==
  /\ ExAt("read") /\ UNCHANGED <<exLayer, exStaged, exSaved, exFaults, exMarkers>>
  /\ \E r \in Records :
       LET a == Applied([tree |-> exTree, pend |-> cancelForEntry(exPend, r), bad |-> FALSE],
                        r, exRead + 1)
       IN /\ r.op \in Entries /\ Decide(r) /\ Settle(a)
          /\ exMeta' = IF r.op = "dir" /\ ~a.bad THEN [exMeta EXCEPT ![r.at] = r.meta] ELSE exMeta

cancelSubtree(pend, gone) == SelectSeq(pend, LAMBDA l : l.at \notin gone)

\* Mutant: the modes that wait outlive the marker.
keepDirectoryMetadata(meta, gone) == meta
cancelDirectoryMetadata(meta, gone) == [q \in Paths |-> IF q \in gone THEN Plain ELSE meta[q]]

\* .wh.<name>: the name goes, with all that waits for it.  No parent, no name.
ReadWhiteout ==
  /\ ExAt("read") /\ exScene.kind = "load"
  /\ UNCHANGED <<exLayer, exStaged, exSaved, exFaults, exMarkers>>
  /\ \E r \in Records :
       LET gone == {r.at} \cup Beneath(r.at)
       IN /\ r.op = "whiteout" /\ Decide(r)
          /\ exMeta' = cancelDirectoryMetadata(exMeta, gone)
          /\ Settle([tree |-> removeWhiteout(exTree, r.at), pend |-> cancelSubtree(exPend, gone),
                     bad |-> removeWhiteoutRefused(exTree, r.at)])

\* .wh..wh..opq: the directory stays, its contents go; no directory, no contents.
ReadOpaque ==
  /\ ExAt("read") /\ exScene.kind = "load"
  /\ UNCHANGED <<exLayer, exStaged, exSaved, exFaults, exMarkers>>
  /\ \E r \in Records :
       LET gone == Beneath(r.at)
       IN /\ r.op = "opaque" /\ Decide(r)
          /\ exMeta' = cancelDirectoryMetadata(exMeta, gone)
          /\ Settle([tree |-> clearOpaqueWhiteout(exTree, r.at),
                     pend |-> cancelSubtree(exPend, gone), bad |-> FALSE])

\* Unpack knows no markers: it makes a file called .wh.<name>, which is none of
\* Paths, and the parents it needs.
ReadMarkerAsFile ==
  /\ ExAt("read") /\ exScene.kind = "pull"
  /\ UNCHANGED <<exLayer, exStaged, exSaved, exFaults, exMeta>>
  /\ exMarkers' = exMarkers + 1
  /\ \E r \in Records :
       LET within == IF r.op = "opaque" THEN r.at ELSE Front(r.at)
           inside == Append(within, ".wh.")
       IN /\ r.op \in {"whiteout", "opaque"} /\ Decide(r)
          /\ Settle(IF ParentBlocked(exTree, inside)
                    THEN [tree |-> exTree, pend |-> exPend, bad |-> TRUE]
                    ELSE resolveAvailable([tree |-> WithParents(exTree, inside, exRead + 1),
                                           pend |-> exPend, bad |-> FALSE]))

\* The end of a layer: every link must have found its source.
EndLayer ==
  LET a == resolveAvailable([tree |-> exTree, pend |-> exPend, bad |-> FALSE])
  IN /\ ExAt("read") /\ UNCHANGED <<exRead, exStaged, exSaved, exDest, exHistory, exFaults>>
     /\ exPend' = <<>> /\ exMeta' = [p \in Paths |-> Plain]
     /\ IF a.bad \/ a.pend # <<>> \/ finalizeRefused(a.tree, exMeta)
        THEN ExGoto("fail") /\ exTree' = a.tree /\ UNCHANGED exLayer
        ELSE /\ exTree' = finalizeDirectoryMetadata(a.tree, exMeta)
             /\ IF exLayer = MaxLayers THEN ExGoto("publish") /\ UNCHANGED exLayer
                ELSE exLayer' = exLayer + 1 /\ UNCHANGED exPc

\* A broken archive, or a file operation that fails.
ReadFails ==
  /\ ExAt("read") /\ ExGoto("fail") /\ ExFault /\ ExUnread
  /\ UNCHANGED <<exStaged, exSaved, exDest>>

\* The tree is in place: a pull still has to save what it knows about the image.
Placed == ExGoto(IF exScene.kind = "pull" THEN "save" ELSE "ok")

\* Mutant: a plain rename replaces what is there.
ReplaceDirectory ==
  /\ ExAt("publish") /\ ExUnread /\ Placed /\ UNCHANGED <<exSaved, exFaults>>
  /\ exStaged' = FALSE /\ exDest' = (IF exStaged THEN "ours" ELSE exDest)

\* publishDirectoryNoReplace, when there is something to publish.
PublishDirectory ==
  /\ ExAt("publish") /\ ExUnread /\ UNCHANGED exSaved
  /\ \/ ~exStaged /\ Placed /\ UNCHANGED <<exStaged, exDest, exFaults>>
     \/ /\ exStaged /\ exDest = "absent" /\ exDest' = "ours" /\ exStaged' = FALSE
        /\ Placed /\ UNCHANGED exFaults
     \/ exStaged /\ exDest # "absent" /\ ExGoto("fail") /\ UNCHANGED <<exStaged, exDest, exFaults>>
     \/ exStaged /\ ExGoto("fail") /\ ExFault /\ UNCHANGED <<exStaged, exDest>>

\* persistPulledImageRuntimeMetadata: the record, and then a file for each field.
PersistMetadata ==
  /\ ExAt("save") /\ ExUnread /\ UNCHANGED <<exStaged, exDest>>
  /\ \/ /\ exSaved' = exSaved + 1 /\ UNCHANGED exFaults
        /\ IF exSaved' = MetadataFiles THEN ExGoto("ok") ELSE UNCHANGED exPc
     \/ exSaved' \in {exSaved, exSaved + 1} /\ ExGoto("fail") /\ ExFault

\* Mutant: the error is returned and the staging directory left.
LeaveStaging ==
  /\ ExAt("fail") /\ ExUnread /\ UNCHANGED <<exDest, exSaved, exStaged, exFaults>>
  /\ ExGoto("error")

\* The deferred removal of the staging directory; the error is returned anyway.
RemoveStaging ==
  /\ ExAt("fail") /\ ExUnread /\ UNCHANGED <<exDest, exSaved>> /\ ExGoto("error")
  /\ \/ exStaged' = FALSE /\ UNCHANGED exFaults
     \/ exStaged /\ UNCHANGED exStaged /\ ExFault

\* Another command publishes at the same destination.
SomebodyPublishes ==
  /\ exScene.rival /\ exDest = "absent" /\ exDest' = "theirs" /\ exPc \notin Ended
  /\ UNCHANGED <<exScene, exPc, exStaged, exSaved, exFaults>> /\ ExUnread

CommandDies ==
  /\ exPc \notin Ended /\ ExGoto("dead") /\ ExFault
  /\ UNCHANGED <<exScene, exStaged, exSaved, exDest>> /\ ExUnread

LoadDockerSave == LoadArchive \/ LoadMembers \/ LoadDestination \/ ReadWhiteout \/ ReadOpaque
PullImage ==
  PullManifest \/ PullConfig \/ PullBlobs \/ PullDestination \/ ReadMarkerAsFile \/ PersistMetadata

ExNext ==
  \/ LoadDockerSave \/ PullImage
  \/ ReadEntry \/ EndLayer \/ ReadFails \/ PublishDirectory \/ RemoveStaging
  \/ SomebodyPublishes \/ CommandDies

ExSpec == ExInit /\ [][ExNext]_exVars

-----------------------------------------------------------------------------
(* Properties                                                              *)

Waiting(p) == \E i \in DOMAIN exPend : exPend[i].at = p

\* What is at a path was put there by the last record that decided about it, or
\* by one after it, or is a directory declared since; and the links that wait
\* are still wanted.  So a link that waited never replaces a later entry, and
\* nothing that was deleted comes back.
RecordOrderKept ==
  exPc \in {"read", "publish", "save", "ok"} =>
    /\ \A p \in Paths : \/ exTree[p] = NoNode \/ Waiting(p)
                        \/ exTree[p].kind = "dir" /\ exWant[p] # Plain
                        \/ exTree[p].seq >= exNamed[p]
    /\ \A i \in DOMAIN exPend : exPend[i].seq = exNamed[exPend[i].at]

\* applyLayerReader keeps the order of the archive although hard links are
\* resolved late, and so does Unpack where there are no deletion markers; where
\* there are, a pulled image keeps the names they delete.
LaterRecordWins == exMarkers = 0 => RecordOrderKept

\* A link waits only while its source is missing: after every record those that
\* can be made have been made, chains of links included.
NoLinkLeftBehind ==
  exPc = "read" => \A i \in DOMAIN exPend : SourceMissing(exTree, exPend[i])

\* A mode that waits is for a directory that stands, and when the layers are
\* done every directory has the mode last declared for it since it was made: a
\* marker that removed it took its old mode along.
DirectoryModeIsItsOwn ==
  /\ exPc = "read" => \A p \in Paths : exMeta[p] # Plain => exTree[p].kind = "dir"
  /\ exPc \in {"publish", "save", "ok"} =>
       \A p \in Paths : exTree[p].kind = "dir" /\ exMarkers = 0 => exTree[p].meta = exWant[p]

\* What this command publishes is complete, image metadata is written only for a
\* tree in place, success means all of it, and the command returns without its
\* staging directory unless the removal failed.
PublishedIsWhole ==
  /\ exDest = "ours" \/ exSaved > 0 =>
       exLayer = MaxLayers /\ exPend = <<>> /\ exDest \in {"ours", "theirs", "merged"}
       /\ \A p \in Paths : exTree[p] # NoNode => exTree[p].meta # Raw
  /\ exPc = "ok" /\ exScene.kind = "pull" => exSaved = MetadataFiles
  /\ exPc \in {"ok", "error"} => ~exStaged \/ exFaults > 0

\* A step never takes away a destination that another command published.
TheirsIsNotReplaced == exDest \in {"theirs", "merged"} => exDest' # "ours"

\* The tree that is published is the one the layers describe, in the order of
\* their records, with every link made and every mode set.  It speaks of the names
\* in Paths: a staging name that createHardlink leaves behind is none of them.
LayersBecomeTheTree ==
  /\ ExTypeOK /\ LaterRecordWins /\ NoLinkLeftBehind
  /\ DirectoryModeIsItsOwn /\ PublishedIsWhole
=============================================================================
