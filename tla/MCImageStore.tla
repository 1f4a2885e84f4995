---------------------------- MODULE MCImageStore ----------------------------
(* Small instances of the records and payload directories of images, of the *)
(* extraction and of the build that fill such a directory, and of the init  *)
(* that makes it the root of a container.  They share no state here: part   *)
(* is the one that moves in a behaviour.  An extraction may come to rest,   *)
(* builds and parent and init only when they have ended; the image commands *)
(* may not.                                                                 *)
EXTENDS ImageStore, LayerExtract, MCImageBuild, MCContainerInit, TLC

\* A directory d with a name in it, and two names beside it.
dd == <<"d">>
dx == <<"d", "x">>
bb == <<"b">>
cc == <<"c">>
SmallPaths == {dd, dx, bb, cc}

Record(op, at, from, meta) == [op |-> op, at |-> at, from |-> from, meta |-> meta]

\* Every kind of record over d and d/x; links in both directions between d/x, b
\* and c, so that chains and cycles of them occur, and one whose metadata
\* differs from every file's.
SmallRecords ==
  {Record("dir", dd, dd, m) : m \in Modes} \cup {Record("file", p, dd, "m1") : p \in {dd, dx, bb}}
  \cup {Record("sym", dd, dd, "m1"), Record("node", cc, dd, "m1"), Record("dir", cc, dd, "m1")}
  \cup {Record("link", cc, bb, "m1"), Record("link", bb, dx, "m1"), Record("link", dx, bb, "m1"),
        Record("link", dx, cc, "m2"), Record("link", bb, dd, "m1")}
  \cup {Record("whiteout", p, dd, "m1") : p \in {dd, dx, bb}}
  \cup {Record("opaque", p, dd, "m1") : p \in {dd, Root}}

Extraction(kind, n, dest, rival, trouble) ==
  [kind |-> kind, records |-> n, dest |-> dest, rival |-> rival, faults |-> trouble]

\* Four records in good order; and two while things go wrong.
SmallScenes ==
  {Extraction("load", 4, "absent", FALSE, 0), Extraction("pull", 3, "absent", FALSE, 0)}
  \cup {Extraction(k, 2, d, d = "absent", 1) : k \in {"load", "pull"}, d \in {"absent", "theirs"}}

VARIABLE part

imagesVars == <<part, vars, exVars, bdVars, ciVars>>

ImagesInit ==
  /\ part \in {"store", "layers", "build", "init"} /\ Init /\ ExInit /\ BdInit /\ CiInit
  /\ part # "layers" => exScene = Extraction("load", 2, "theirs", FALSE, 1)
  /\ part # "build" => bdScene = BuildScene("managed", "output", TRUE, 1, TRUE)
  /\ part # "init" => ciScene = PlainRun

ImagesNext ==
  /\ UNCHANGED part
  /\ \/ /\ part = "store" /\ Next /\ faults' + crashes' <= 1
        /\ UNCHANGED <<exVars, bdVars, ciVars>>
     \/ part = "layers" /\ (ExNext \/ UNCHANGED exVars) /\ UNCHANGED <<vars, bdVars, ciVars>>
     \/ /\ part = "build" /\ (BdNext \/ (BdFinished /\ UNCHANGED bdVars))
        /\ UNCHANGED <<vars, exVars, ciVars>>
     \/ /\ part = "init" /\ (CiNext \/ (CiFinished /\ UNCHANGED ciVars))
        /\ UNCHANGED <<vars, exVars, bdVars>>

\* Processes are scheduled, and somebody prunes again after every prune; no
\* client has to run any command.
ImagesFairness ==
  /\ WF_vars(part = "store" /\ StartPrune)
  /\ \A p \in Procs : WF_vars(part = "store" /\ Step(p))

ImagesSpec == ImagesInit /\ [][ImagesNext]_imagesVars /\ ImagesFairness

\* What somebody else has made stays: no step of a publication, of a build's
\* rollback or of an init's cleanup takes a tree or a directory that another
\* process has put at the same name, but for a build whose own directory was
\* taken before and an rmi of the caller's directory (see OnlyOwnTreeRemoved).
OthersKeepTheirs == [][TheirsIsNotReplaced /\ OnlyOwnTreeRemoved /\ TheirPivotStays]_imagesVars
=============================================================================
