--------------------------- MODULE MCContainerInit ---------------------------
(* Small requests for ContainerInit.                                        *)
EXTENDS ContainerInit

PlainRun ==
  [volumes |-> <<>>, tmpfs |-> <<>>, masks |-> <<>>, workdir |-> <<>>, overlay |-> FALSE,
   readonly |-> FALSE, want |-> {}, dirs |-> {}, rename |-> FALSE, rival |-> FALSE, trouble |-> 1]

SmallNames == {"proc", "sys", "dev", "v", "a", "x"}

V == <<"v">>
VA == <<"v", "a">>
DevX == <<"dev", "x">>

\* A root that is renamed; one that two inits share, with two failures; volumes
\* with tmpfs and masks on top, on mount points that exist, that are missing in
\* the root and that are missing in the volume; mounts in /dev; policies; volumes
\* and tmpfs in place of the root.
InitScenes ==
  {PlainRun, [PlainRun EXCEPT !.rename = TRUE],
   [PlainRun EXCEPT !.rival = TRUE, !.trouble = 2],
   [PlainRun EXCEPT !.overlay = TRUE, !.trouble = 2],
   [PlainRun EXCEPT !.volumes = <<V>>, !.tmpfs = <<VA>>, !.masks = <<VA>>,
                 !.dirs = {<<5, V>>, <<5, VA>>}],
   [PlainRun EXCEPT !.volumes = <<V>>, !.tmpfs = <<VA>>],
   [PlainRun EXCEPT !.volumes = <<V, VA>>, !.masks = <<V>>,
                 !.dirs = {<<1, V>>, <<1, VA>>, <<5, V>>, <<5, VA>>}],
   [PlainRun EXCEPT !.tmpfs = <<VA, V>>, !.masks = <<V>>, !.workdir = VA],
   [PlainRun EXCEPT !.volumes = <<<<"dev">>>>, !.masks = <<DevX>>,
                 !.dirs = {<<5, <<"dev">>>>, <<5, DevX>>}],
   [PlainRun EXCEPT !.volumes = <<V>>, !.workdir = VA, !.readonly = TRUE,
                 !.want = {"ioprio", "nnp", "caps", "seccomp"}],
   [PlainRun EXCEPT !.readonly = TRUE, !.workdir = V, !.want = {"oom", "rlimit", "sched", "seccomp"}],
   [PlainRun EXCEPT !.volumes = <<<<>>, V>>, !.tmpfs = <<VA>>, !.dirs = {<<6, V>>, <<6, VA>>}],
   [PlainRun EXCEPT !.volumes = <<<<>>>>, !.masks = <<V>>, !.workdir = VA, !.overlay = TRUE,
                 !.rival = TRUE, !.dirs = {<<1, V>>, <<5, V>>, <<5, <<"proc">>>>}],
   [PlainRun EXCEPT !.volumes = <<V, <<>>>>, !.tmpfs = <<<<>>, VA>>, !.workdir = V, !.readonly = TRUE]}
=============================================================================
