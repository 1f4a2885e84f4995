----------------------------- MODULE ImageBuild -----------------------------
(* builder.BuildDockerfile: builds that fill an output tree step by step    *)
(* and publish it with an image record.  A managed build works in a staging *)
(* directory of the image storage that is renamed to its place; one with an *)
(* output directory of the caller works there; one without a store has only *)
(* its tree.  What matters is who may remove which tree when a step fails.  *)
EXTENDS Integers, FiniteSets

CONSTANTS Builds,    \* the builds
          BdScenes   \* kind (of each build), user (the output is there), trouble, crash

ASSUME BuildsAssumption == {"none", "user"} \cap Builds = {}
ASSUME BdAssumption ==
  \A s \in BdScenes :
    /\ s.trouble \in Nat /\ {s.user, s.crash} \subseteq BOOLEAN
    /\ s.kind \in [Builds -> {"managed", "output", "plain"}]

VARIABLES
  bdScene,
  bdPc,      \* where each build is
  bdTree,    \* the trees: who made each ("none", "user" or a build), and who has completed it
  bdRecs,    \* the image records: [id, root]
  bdOwned,   \* bdOwned[b]: rollback removes the tree
  bdKept,    \* failed builds that left a tree: a record had it or might have it, or it would not go
  bdRaced,   \* two calls, builds or an rmi, were at work in the caller's directory at a time
  bdRmi,     \* bdRmi[b]: where the rmi of b's record is, if its root is the caller's directory
  bdLost,    \* builds whose tree in the caller's directory somebody else has removed
  bdFaults

bdVars == <<bdScene, bdPc, bdTree, bdRecs, bdOwned, bdKept, bdRaced, bdRmi, bdLost,
            bdFaults>>

StageDir(b) == <<"stage", b>>
FinalDir(b) == <<"final", b>>
OutputDir == <<"output", "user">>
BdPaths == {<<k, b>> : k \in {"stage", "final", "builds"}, b \in Builds} \cup {OutputDir}
NoTree == [by |-> "none", whole |-> {}]

Managed(b) == bdScene.kind[b] = "managed"
HasStore(b) == bdScene.kind[b] # "plain"

\* opts.OutputDir, and metadataRootFS.
WorkRoot(b) ==
  CASE bdScene.kind[b] = "managed" -> StageDir(b)
    [] bdScene.kind[b] = "output" -> OutputDir
    [] bdScene.kind[b] = "plain" -> <<"builds", b>>
DurableRoot(b) == IF Managed(b) THEN FinalDir(b) ELSE WorkRoot(b)

Working == {"validate", "steps", "size", "publish", "record", "prove", "rollback"}

BdTypeOK ==
  /\ bdScene \in BdScenes
  /\ bdPc \in [Builds -> {"start", "inspect", "claim", "built", "failed", "dead"} \cup Working]
  /\ bdTree \in [BdPaths -> [by : {"none", "user"} \cup Builds, whole : SUBSET Builds]]
  /\ bdRecs \subseteq [id : Builds, root : {FinalDir(b) : b \in Builds} \cup {OutputDir}]
  /\ bdOwned \in [Builds -> BOOLEAN] /\ bdKept \subseteq Builds /\ bdRaced \in BOOLEAN
  /\ bdRmi \in [Builds -> {"none", "list", "remove"}] /\ bdLost \subseteq Builds
  /\ bdFaults \in 0..bdScene.trouble

BdInit ==
  /\ bdScene \in BdScenes
  /\ bdPc = [b \in Builds |-> "start"]
  /\ bdTree = [p \in BdPaths |->
       IF p = OutputDir /\ bdScene.user THEN [NoTree EXCEPT !.by = "user"] ELSE NoTree]
  /\ bdRecs = {} /\ bdOwned = [b \in Builds |-> FALSE]
  /\ bdKept = {} /\ bdRaced = FALSE /\ bdFaults = 0
  /\ bdRmi = [b \in Builds |-> "none"] /\ bdLost = {}

BdFault == bdFaults < bdScene.trouble /\ bdFaults' = bdFaults + 1
BdGoes(b, pc) == bdPc' = [bdPc EXCEPT ![b] = pc]

Made(b) == bdTree' = [bdTree EXCEPT ![WorkRoot(b)] = [by |-> b, whole |-> {}]]

\* The tree is the build's to work in; two builds may find themselves in one, or
\* an rmi has not yet come to the removal of it.
Enters(b) ==
  bdRaced' = \/ bdRaced
             \/ \E c \in Builds \ {b} : bdPc[c] \in Working /\ WorkRoot(c) = WorkRoot(b)
             \/ WorkRoot(b) = OutputDir /\ \E c \in Builds : bdRmi[c] # "none"

\* A step that may fail without an effect.
BdAttempt(b, from, next, bad) ==
  /\ bdPc[b] = from
  /\ \/ BdGoes(b, next) /\ UNCHANGED bdFaults
     \/ BdGoes(b, bad) /\ BdFault
  /\ UNCHANGED <<bdScene, bdRmi, bdLost, bdTree, bdRecs, bdOwned, bdKept, bdRaced>>

-----------------------------------------------------------------------------
\* prepareManagedBuildOutput: the image ID is new, the staging directory too.
PrepareManaged(b) ==
  /\ bdPc[b] = "start" /\ Managed(b)
  /\ \/ BdGoes(b, "steps") /\ Made(b) /\ bdOwned' = [bdOwned EXCEPT ![b] = TRUE]
          /\ UNCHANGED bdFaults
     \/ BdGoes(b, "failed") /\ BdFault /\ UNCHANGED <<bdTree, bdOwned>>
  /\ UNCHANGED <<bdScene, bdRmi, bdLost, bdRecs, bdKept, bdRaced>>

buildOutputOverlapsImage(b) == HasStore(b) /\ \E r \in bdRecs : r.root = WorkRoot(b)

\* prepareBuildOutput: a tree that a record refers to is refused ...
CheckOverlap(b) ==
  /\ bdPc[b] = "start" /\ ~Managed(b)
  /\ \/ ~buildOutputOverlapsImage(b) /\ BdGoes(b, "inspect") /\ UNCHANGED bdFaults
     \/ buildOutputOverlapsImage(b) /\ BdGoes(b, "failed") /\ UNCHANGED bdFaults
     \/ BdGoes(b, "failed") /\ BdFault
  /\ UNCHANGED <<bdScene, bdRmi, bdLost, bdTree, bdRecs, bdOwned, bdKept, bdRaced>>

\* ... one that is there is used as it is ...
InspectOutput(b) ==
  /\ bdPc[b] = "inspect"
  /\ IF bdTree[WorkRoot(b)].by # "none" THEN BdGoes(b, "steps") /\ Enters(b)
     ELSE BdGoes(b, "claim") /\ UNCHANGED bdRaced
  /\ UNCHANGED <<bdScene, bdRmi, bdLost, bdTree, bdRecs, bdOwned, bdKept, bdFaults>>

\* Mutant: MkdirAll, which takes a directory that has appeared meanwhile.
ClaimAnyOutput(b) ==
  /\ bdPc[b] = "claim" /\ BdGoes(b, "validate") /\ UNCHANGED bdFaults
  /\ (IF bdTree[WorkRoot(b)].by = "none" THEN Made(b) ELSE UNCHANGED bdTree)
  /\ bdOwned' = [bdOwned EXCEPT ![b] = TRUE] /\ Enters(b)
  /\ UNCHANGED <<bdScene, bdRmi, bdLost, bdRecs, bdKept>>

\* ... and only one made here, exclusively, is owned.
ClaimOutput(b) ==
  /\ bdPc[b] = "claim"
  /\ \/ bdTree[WorkRoot(b)].by = "none" /\ BdGoes(b, "validate") /\ Made(b) /\ Enters(b)
          /\ bdOwned' = [bdOwned EXCEPT ![b] = TRUE] /\ UNCHANGED bdFaults
     \/ /\ BdGoes(b, "failed") /\ UNCHANGED <<bdTree, bdOwned, bdRaced>>
        /\ (IF bdTree[WorkRoot(b)].by = "none" THEN BdFault ELSE UNCHANGED bdFaults)
  /\ UNCHANGED <<bdScene, bdRmi, bdLost, bdRecs, bdKept>>

ValidateOutput(b) == BdAttempt(b, "validate", "steps", "rollback")

-----------------------------------------------------------------------------
\* One line of the Dockerfile, which writes into the tree and may fail in the
\* middle.
DockerfileLine(b) == BdAttempt(b, "steps", "steps", "rollback")

StepsEnd(b) ==
  /\ bdPc[b] = "steps" /\ BdGoes(b, "size")
  /\ bdTree' = IF bdTree[WorkRoot(b)].by = "none" THEN bdTree
               ELSE [bdTree EXCEPT ![WorkRoot(b)].whole = @ \cup {b}]
  /\ UNCHANGED <<bdScene, bdRmi, bdLost, bdRecs, bdOwned, bdKept, bdRaced, bdFaults>>

\* A tree that another build has removed has no size.
CalculateSize(b) ==
  /\ bdPc[b] = "size"
  /\ \/ /\ bdTree[WorkRoot(b)].by # "none" /\ UNCHANGED bdFaults
        /\ BdGoes(b, IF Managed(b) THEN "publish" ELSE IF HasStore(b) THEN "record" ELSE "built")
     \/ bdTree[WorkRoot(b)].by = "none" /\ BdGoes(b, "rollback") /\ UNCHANGED bdFaults
     \/ BdGoes(b, "rollback") /\ BdFault
  /\ UNCHANGED <<bdScene, bdRmi, bdLost, bdTree, bdRecs, bdOwned, bdKept, bdRaced>>

\* publish: the rename, if the image storage is still the configured one.
PublishOutput(b) ==
  /\ bdPc[b] = "publish"
  /\ \/ /\ BdGoes(b, "record") /\ UNCHANGED bdFaults
        /\ bdTree' = [bdTree EXCEPT ![FinalDir(b)] = bdTree[StageDir(b)], ![StageDir(b)] = NoTree]
     \/ BdGoes(b, "rollback") /\ BdFault /\ UNCHANGED bdTree
  /\ UNCHANGED <<bdScene, bdRmi, bdLost, bdRecs, bdOwned, bdKept, bdRaced>>

\* Mutant: the record names the tree that was worked in.
RecordWorkRoot(b) == [id |-> b, root |-> WorkRoot(b)]
RecordOf(b) == [id |-> b, root |-> DurableRoot(b)]

\* Store.PublishImage: an error comes before the record is durable, or after it.
PublishRecord(b) ==
  /\ bdPc[b] = "record"
  /\ \/ BdGoes(b, "built") /\ bdRecs' = bdRecs \cup {RecordOf(b)} /\ UNCHANGED bdFaults
     \/ BdGoes(b, "prove") /\ bdRecs' \in {bdRecs, bdRecs \cup {RecordOf(b)}} /\ BdFault
  /\ UNCHANGED <<bdScene, bdRmi, bdLost, bdTree, bdOwned, bdKept, bdRaced>>

\* Mutant: an error means that there is no record.
AssumeUnpublished(b) ==
  bdPc[b] = "prove" /\ BdGoes(b, "rollback")
  /\ UNCHANGED <<bdScene, bdRmi, bdLost, bdTree, bdRecs, bdOwned, bdKept, bdRaced, bdFaults>>

\* buildPayloadHasCommittedReference: the tree goes only if no record names it; it
\* stays if that cannot be read, or if the record is another image's.
ProveReference(b) ==
  LET here == {r \in bdRecs : r.root = DurableRoot(b)} IN
  /\ bdPc[b] = "prove"
  /\ \/ here = {} /\ BdGoes(b, "rollback") /\ UNCHANGED <<bdKept, bdFaults>>
     \/ /\ BdGoes(b, "failed") /\ bdKept' = bdKept \cup {b}
        /\ (IF here = {} THEN BdFault ELSE UNCHANGED bdFaults)
  /\ UNCHANGED <<bdScene, bdRmi, bdLost, bdTree, bdRecs, bdOwned, bdRaced>>

\* Mutant: what was published stays.
RollbackStaged(b) ==
  /\ bdPc[b] = "rollback" /\ BdGoes(b, "failed")
  /\ bdTree' = IF bdOwned[b] THEN [bdTree EXCEPT ![WorkRoot(b)] = NoTree] ELSE bdTree
  /\ UNCHANGED <<bdScene, bdRmi, bdLost, bdRecs, bdOwned, bdKept, bdRaced, bdFaults>>

\* The deferred rollback of an owned tree, wherever it is by now.
Rollback(b) ==
  /\ bdPc[b] = "rollback" /\ BdGoes(b, "failed")
  /\ \/ /\ bdTree' = [p \in BdPaths |->
             IF bdOwned[b] /\ p \in {WorkRoot(b), DurableRoot(b)} THEN NoTree ELSE bdTree[p]]
        /\ bdLost' = bdLost \cup {c \in Builds \ {b} : bdTree'[OutputDir] # bdTree[OutputDir]
                                                      /\ bdTree[OutputDir].by = c}
        /\ UNCHANGED <<bdKept, bdFaults>>
     \/ bdOwned[b] /\ bdKept' = bdKept \cup {b} /\ BdFault /\ UNCHANGED <<bdTree, bdLost>>
  /\ UNCHANGED <<bdScene, bdRmi, bdRecs, bdOwned, bdRaced>>

BuildDies(b) ==
  /\ bdScene.crash /\ bdPc[b] \notin {"start", "built", "failed", "dead"}
  /\ BdGoes(b, "dead")
  /\ UNCHANGED <<bdScene, bdRmi, bdLost, bdTree, bdRecs, bdOwned, bdKept, bdRaced, bdFaults>>

\* rmi of an image in the image storage: its tree was pinned and goes with the
\* record (ImageStore has the steps).
ManagedRemoved(r) ==
  /\ r.root # OutputDir
  /\ bdRecs' = bdRecs \ {r} /\ bdTree' = [bdTree EXCEPT ![r.root] = NoTree]
  /\ UNCHANGED <<bdScene, bdRmi, bdLost, bdPc, bdOwned, bdKept, bdRaced, bdFaults>>

\* rmi of one in the caller's directory: first the record ...
ExternalForgotten(r) ==
  /\ r.root = OutputDir
  /\ bdRecs' = bdRecs \ {r} /\ bdRmi' = [bdRmi EXCEPT ![r.id] = "list"]
  /\ bdRaced' = (bdRaced \/ \E b \in Builds : bdPc[b] \in Working /\ WorkRoot(b) = OutputDir)
  /\ UNCHANGED <<bdScene, bdLost, bdPc, bdTree, bdOwned, bdKept, bdFaults>>

ImageRemoved(r) == ManagedRemoved(r) \/ ExternalForgotten(r)

\* ... then the records that are left are listed once ...
RmiLists(b) ==
  LET referenced == \E r \in bdRecs : r.root = OutputDir IN
  /\ bdRmi[b] = "list"
  /\ \/ ~referenced /\ bdRmi' = [bdRmi EXCEPT ![b] = "remove"] /\ UNCHANGED bdFaults
     \/ /\ bdRmi' = [bdRmi EXCEPT ![b] = "none"]
        /\ IF referenced THEN UNCHANGED bdFaults ELSE BdFault
  /\ UNCHANGED <<bdScene, bdLost, bdPc, bdTree, bdRecs, bdOwned, bdKept, bdRaced>>

\* ... and os.RemoveAll takes the directory, whosever it is by now, or a part of it.
RmiRemoves(b) ==
  /\ bdRmi[b] = "remove" /\ bdRmi' = [bdRmi EXCEPT ![b] = "none"]
  /\ \/ /\ bdTree' = [bdTree EXCEPT ![OutputDir] = NoTree]
        /\ bdLost' = bdLost \cup {c \in Builds : bdTree[OutputDir].by = c}
        /\ UNCHANGED bdFaults
     \/ /\ bdTree' = [bdTree EXCEPT ![OutputDir].whole = {}]
        /\ BdFault /\ UNCHANGED bdLost
  /\ UNCHANGED <<bdScene, bdPc, bdRecs, bdOwned, bdKept, bdRaced>>

BuildStep(b) ==
  \/ PrepareManaged(b) \/ CheckOverlap(b) \/ InspectOutput(b) \/ ClaimOutput(b)
  \/ ValidateOutput(b) \/ DockerfileLine(b) \/ StepsEnd(b) \/ CalculateSize(b)
  \/ PublishOutput(b) \/ PublishRecord(b) \/ ProveReference(b) \/ Rollback(b) \/ BuildDies(b)

BdNext ==
  \/ \E b \in Builds : BuildStep(b) \/ RmiLists(b) \/ RmiRemoves(b)
  \/ \E r \in bdRecs : ImageRemoved(r)

BdSpec == BdInit /\ [][BdNext]_bdVars

BdFinished == \A b \in Builds : bdPc[b] \in {"built", "failed", "dead"}

-----------------------------------------------------------------------------
(* A record names a complete tree of its own build: neither a failing step  *)
(* nor the rollback after a publication that reports an error takes it.     *)
(* Left out is a directory of the caller in which two calls were at work at *)
(* a time.  Of two builds the first to fail removes what the other has      *)
(* published (builder.go, the deferred RemoveAll asks for no reference); an *)
(* rmi lists the records before it removes the directory (imagestore.go),   *)
(* and a build that records it in between has a record of nothing.  Whole   *)
(* does not say untouched since: a build that passed the overlap check      *)
(* before the record was written may still write into the tree.             *)
RecordedTreeIsWhole ==
  \A r \in bdRecs : (r.root = OutputDir /\ bdRaced) \/ r.id \in bdTree[r.root].whole

(* No build removes a tree that somebody else has made, not the caller's    *)
(* and not that of a build which won the race to create it, unless somebody *)
(* had removed its own tree in the caller's directory before: then its      *)
(* rollback takes what is there now.  An rmi removes the managed tree of    *)
(* the record it deletes, or the caller's directory, whoever has made that; *)
(* but never while a record names it, unless a build was at work there      *)
(* between the listing and the removal.                                     *)
OnlyOwnTreeRemoved ==
  \A p \in BdPaths :
    bdTree[p].by # "none" /\ bdTree'[p].by = "none" =>
      \/ \E b \in Builds : /\ bdPc'[b] # bdPc[b]
                           /\ bdTree[p].by = b \/ (p = OutputDir /\ b \in bdLost)
      \/ \E r \in bdRecs \ bdRecs' : r.root = p /\ p # OutputDir
      \/ p = OutputDir /\ bdRmi' # bdRmi /\ (bdRaced \/ ~\E r \in bdRecs : r.root = p)

(* A build that returns an error leaves no tree of its own behind, in the   *)
(* staging directory or published, unless a record has it or it had to be   *)
(* kept.                                                                    *)
FailedBuildLeavesNothing ==
  \A b \in Builds \ bdKept : \A p \in BdPaths :
    bdPc[b] = "failed" /\ bdTree[p].by = b => \E r \in bdRecs : r.root = p

(* The end of a build: what has a record is whole, what has none is gone.   *)
BuildsLeaveWholeTrees == BdTypeOK /\ RecordedTreeIsWhole /\ FailedBuildLeavesNothing
=============================================================================
