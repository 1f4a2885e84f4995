# A TLA+ model of mini-container-runtime

`minictl` is a container runtime without a central daemon. Every command is a
process of its own: `minictl run` stays as the parent of its container, and
`stop`, `wait`, `rm`, `restart`, `prune`, `ps` and the optional HTTP daemon come
and go beside it. They meet only in files under the state directory and in host
resources (processes, cgroups, veth devices, iptables rules). What makes the
runtime correct is therefore an agreement about durable files: who may write
which of them, in which order, and what a process may conclude from one it has
read. This directory models that agreement, checks it with TLC and proves, for any
number of processes, the parts that hold a container together: the store, the
life of a generation from the start of its init to its clean-up, its addresses,
names, links and cgroup, what clients are told, and the images it starts from.

- [Inventory](#inventory), [Plan](#plan)
- [Modules and how they correspond to the code](#modules-and-how-they-correspond-to-the-code)
- [Runs](#runs), [Bounds](#bounds), [Fairness](#fairness)
- [Proofs](#proofs), [What is only model-checked](#what-is-only-model-checked)
- [Disagreements with the code's own claims](#disagreements-with-the-codes-own-claims)
- [Not modelled](#not-modelled), [Checking it](#checking-it)

## Inventory

A *generation* is one process of a container, named by PID and `/proc` start
time; a restarted container has a new generation under the same container ID.

| Component | State it keeps | Operations | Interacts with | What is hard | What makes it correct |
| --- | --- | --- | --- | --- | --- |
| State store (`internal/state`) | `<id>.json`, `.cgroup`, `.network`, `.exit`, `.exit-required`, `.restart`, image and network records; revisions; one flock | Get, Save (CAS), MarkRunning, MarkStoppedIfIdentity, MarkStoppedIfCreated, token Mark/Clear, DeleteIfNotRunning, Delete, schema migration | everyone | readers take no lock and save stale copies; several files change under one lock; crash or fsync error between them; upgraded directories | tokens never orphaned, no lost or stolen stop, exit code belongs to its generation, no resurrection |
| Generation lifecycle (`internal/container`) | the parent's and the commands' local variables; processes | run, policy restart, setup abort, finalize, reconcile, wait, stop, rm, restart, exec, pause | store, cgroups, network, DNS, events | five kinds of actors finalize one dead process at once; a crash between any two steps | a live payload is the recorded one; no host resource without a token; everything is cleaned in the end |
| DNS registry (`internal/dns`) | one entry per container and network: owner process, generation, address, pending flag | register, bind, prune, unregister, stopped cleanup, hosts snapshot | run processes, finalizers | delayed cleanup of an old generation; name conflicts with dead owners | a running payload is resolvable; one live owner per name |
| Bridge network and IPAM (`internal/network`) | leases, veth, DNAT rules, subnets, custom networks | reconcile, allocate, release, set up and remove owned devices and rules | lifecycle, kernel | liveness probes of other owners, exhaustion, unwinding | no two payloads on one address |
| Event log (`internal/events`) | `events.log`, `.1`, `.2`, their flock; start and exec proofs in memory | append (repair, rotate, write, sync), history, follow, stage/commit/complete | every command; followers | torn writes, interrupted renames, power loss, a follower racing rotation | ordered, nothing acknowledged is lost, follower neither skips nor repeats |
| Container init (`internal/container`, `internal/rootfs`, PID 1) | its mount namespace and threads, two pipes to the parent, `.pivot_old` in a root others may share | pin, stage, overlay, mount, pivot, apply policies, report | parent, kernel | renamed roots, mounts on mounts, policies per thread, one byte that tells how it ended | the payload runs in the admitted root under every policy; the host's trees are untouched |
| Process tree and exec (`internal/container`) | process tree, proof pipe, staged exec event | fork, reap, drain; stage, enter, start, prove, complete | events, target process | escaped descendants, PID reuse during exec, a helper dying between start and proof | nothing survives a stop; one outcome per proven start |
| Restart loop, stop, wait, health, daemon handlers | retry counter, failure counter, snapshots of the record | attempt, decide, wait, stop, settle, delete, probe, save | store, lifecycle | each acts on a record it read some steps before | answers are true and come; no generation revives |
| Host links and rules (`internal/network`) | veth pairs, DNAT rules, custom bridges, the hand-off lock | create, hand over, attach, publish, unwind, remove | lifecycle, kernel | one fixed peer name; cleanup by two sides; no transaction across netlink and iptables | nothing is left that no token names |
| Cgroups (`internal/cgroups`) | one directory per generation and hierarchy, controller files, restart spec | create, limit, attach, update transaction, freeze, remove, read counters | lifecycle, store | partial updates and rollbacks, late acknowledgements | limits before the payload, limits as reported |
| Image store (`internal/imagestore`), archives (`internal/image`), builder, registry client | image records, cleanup sidecars, root file systems, staging directories | import, commit, build, tag, remove, recover, extract, publish, pull | store | crash between sidecar, record and tree removal; links and modes that wait; rollback after a publication that reports failure | no referenced tree deleted, no tree leaked, a published tree is whole |
| Container logs (`internal/logs`) | log files, archives, compressed archives | append, in-place rotation, archive, compress, prune, follow; line filters | run, `logs` | maintenance under an active appender, without a lock | text is lost only for a known cause |
| Volumes (`internal/volume`) | directory, `_data`, `volume.json` | create, list, remove | run | no lock at all | a reported success is so; creation repairs |
| Daemon (`internal/daemon`) | socket path and its identity | start, serve, stop | kernel, lifecycle | a successor at the same path | a serving daemon is reachable |
| ns, pty, security, stats, metrics, diff, plugin, bench, attach, compose | none that outlives a call | flags, streams, reports | kernel | - | - |

`PROJECT.json` lists all of them with their source files under `components`, and
under `hazards` the places that are hard to test, each with the properties that
would notice it going wrong.

## Plan

| | Module | Subject | State |
| --- | --- | --- | --- |
| A | `ContainerStore`, `StateStore`, `LifecycleContract` and proofs | the record of one container | done, proved (refinement included) |
| B | `GenerationLifecycle` | actors and host resources of one container, composed with `ContainerStore` | done, proved |
| C | `BridgeNetwork` | DNS registry, leases and forwarding rules of several containers | done, proved |
| D | `EventLog` | append, rotation, history, follow | done, proved |
| E | `ContainerProcesses`, `ContainerInit` | PID 1 and its process tree, exec sessions; the start of a container from pinned root to status byte | done, proved |
| F | `ImageStore`, `LayerExtract`, `ImageBuild` | image records and payloads; how layers become a tree; who owns a build's output | done, image commands and builds proved; the registry protocol is not |
| G | `ContainerLogs` | append, rotation, archive, compression, prune, follow | done, proved |
| H | `CgroupControl` | create, attach, update transaction with rollback, freeze | done, proved |
| I | `RestartControl`, `DaemonSocket` | restart policy, stop, wait, delete, health; the daemon's socket | done, proved |
| J | `VolumeStore`, `HostNetwork` | volumes without a lock; veth pairs, rules and bridges | done, proved |
| K | pure operators (IPAM arithmetic, log filters, manifest checks) against reference definitions | | later |

Of the safety properties, those of `LayerExtract` are left to TLC
([why](#what-is-only-model-checked)).

## Modules and how they correspond to the code

`PROJECT.json` maps each definition to the lines it stands for.

**`ContainerStore`** has no variables. It defines the five files of a container
as a record and, for each method of `state.Store`, the check made under the
lock (`...Admits`) and the record that results. A generation is an opaque value.
An ownership token is its generation, since cgroup name, veth name and port
mappings are computed from it once. `MaxRev` stands for the largest revision.

**`StateStore`** lets `Clients` call these operations. A mutator takes the flock,
reads, checks, and replaces the JSON in one atomic step (`Commit`): the rename of
`atomicWriteFile`, which can succeed, fail, or become visible while its directory
fsync reports an error. Sidecar removals under the same lock are separate steps,
so that crashes and errors fall between them; a crash drops the flock. `Get` takes
no lock, hence `snap[p]` is stale by construction and `Save` tries to write it
back. `InitLegacy` starts from what older releases left on disk.

**`LifecycleContract`** says what the store promises without files or revisions:
admitted once, one generation at a time, no new generation and no removal while
cleanup of the last one is owed. `StateStore!ImplementsContract` is the refinement.

**`GenerationLifecycle`** drives the same operators by the real callers. A task is
a parent (`runOnce` and its restart loop) or a command; `pc` labels are the places
between two effects, so each store call and each host mutation is a step. Labels
`P.*` are the parent's path, `A.*` setup aborts, `F.*` `FinalizeStoppedGeneration`,
`C.*` `CleanupStoppedRuntimeResources`, `R.*`, `W.*`, `S.*`, `D.*`, `X.*` the
commands; `cgrm`, `ports`, ... are the removals they share. Host resources are
sets of the generations that hold one. Store calls here are atomic, which is
exact for a directory in the current format: they replace one file. A child that
is blocked before exec may be killed by a `stop` or by anybody else; `early` is a
history variable with the generations this happened to while their parent was
setting them up, and changes no step.

**`BridgeNetwork`** takes several containers, and of each only what the three
host-wide registers need. `Begin` to `Release` is the admission and setup order
of one run process, the `unwind` ... `end` labels its failure path, `Observer*`
the finalizers of other processes, which may come arbitrarily late. When a run on a
custom network fails after its setup, the cleanup that the setup returned removes
rules and link and then gives the address back (`UnwindHost`); a setup that fails
itself has no such cleanup, and gives it back at once. A scene chooses the network and
the number of faults and crashes. Addresses are `1..PoolSize`.

**`EventLog`** models files as sequences of records and the directory as the
sequence of its states since its last fsync, so that a power loss can restore any
of them. The append path has one step per system call; the follower one per
decision, and its poll sleep is the gap between two of them. Events are numbered
in write order, and files come from `Inodes`, one more than there are events: a
creation waits for an inode that neither a directory state nor the follower knows.

**`ImageStore`** models image records, cleanup sidecars and payload directories.
A record is stored under its tag, or under its ID when it has none. Each store call
is a step, as is each rename and each part of a removal: pin the inode, delete
the record under a sidecar, empty the directory, unlink it, clear the sidecar. `rmi`,
`SystemPrune` and `PruneOrphanLayers` share the removal steps and `ret` says where
they return. Payloads carry an inode counter, so that a pinned directory and a new
one under the same ID are told apart. `publishImageUnlocked` is the set of outcomes
a publication can have: refused, done, or failed after either of its two writes.

**`RestartControl`** is the same container seen by its clients. Generations are
numbered by the restart loop; a process is alive, killed, a zombie or gone, and a
client that finds one dead may have to publish the stop itself. `wait`, the
daemon's stop with its bounded settling, the deletions and the health supervisor
are little programs with a `pc` of their own; each keeps what it read.

**`ContainerProcesses`** has the init supervisor, the payload's tree (`cpProc`:
state, parent, process group) and one exec session of three processes: command,
helper, payload. The host PID of the init may be freed and taken by a stranger
while the helper opens the namespace files one after the other. The record runs
before the cgroup's token is written, so an exec may come before it. The helper keeps
the errors of relaying a signal, observing the payload and killing its group
(`cpHlp.err`), as they are joined into its result. The exec event
is staged, activated by the proof byte and completed, as in `internal/events`. Whose
root and namespaces are entered is modelled, not how far the init has set them up.

**`ContainerInit`** is the start of one container: parent and init, joined by the
sync pipe and the status pipe. The root is a name that may be renamed and a
directory that was pinned. A path is a sequence of names from `FileNames`. The
mount namespace has the mounts that were made, numbered in the order of the code: the
kernel's, then the requests, then the private devices; a path lies in the last
one at or above it, and requests below `/dev` drop out when the devices cover it. Policies
are kept per thread, because Go moves goroutines between threads unless one is locked.
A volume or a tmpfs may be asked for at `/` (`normalizeVolumeContainerPath` accepts
`-v dir:/`; OCI bundles and masks refuse it). It then is the container's root: paths
are looked up in it, missing mount points are made in it, and one that comes after
the kernel's mounts hides `/proc`, so that the supervisor's drain fails. Directories
are kept by the number of the mount that shows them: two requests never share a
directory of the host.

**`CgroupControl`** has two controller files, which stand for the first and the
last that are written, on a unified or a split hierarchy. An update is a plan of
writes with the old values kept for a rollback, then the restart spec; `cgExcuse`
records what has legitimately separated limits and spec.

**`HostNetwork`** opens the resources that `GenerationLifecycle` treats as one
each: a pair whose peer is first in the host's namespace under a fixed name, two
DNAT rules, a bridge that is created, marked, addressed and brought up. Setup,
its unwinding, the cleanup by an observer and the operators of the bridge
interleave at each system call.

**`DaemonSocket`**, **`VolumeStore`** and **`ContainerLogs`** are file protocols
without a lock. Inodes are numbered, names lead to them, and a process works on
the inodes it has opened. In `ContainerLogs` the content is a sequence of numbered
writes, so that a lost, repeated or reordered line can be named; `lcCause` says
why a write may be gone. A new file gets an inode nothing refers to (`Unreferenced`);
there are as many as the run needs, and running out of them is a bound.

**`LayerExtract`** applies archive records to a tree, one per step. A hard link
whose source is missing waits, the mode of a directory waits until the layer has
ended, markers delete. The same steps serve `load` (with markers) and `pull`
(`image.Unpack`, which knows none); then the staged tree is published against a
rival and the metadata is saved.

**`ImageBuild`** follows any builds (two in the run) from the claim of their output directory to
the publication, the proof that a record refers to the tree, and the rollback.
What a Dockerfile line does is a step that succeeds or fails. `rmi` of an image in the
image storage is one step here (`ImageStore` has its parts); of one in a directory of the
caller it is three: the record goes, the records that are left are listed, and
`os.RemoveAll` takes the directory, whoever is at work in it by then.

**Composition.** `GenerationLifecycle` and `StateStore` share `ContainerStore`.
The MC modules `MCStateStore`, `MCRecords`, `MCLifecycle`, `MCEarlyStop`,
`MCRecovery`, `MCHost` and `MCImageStore` put small instances of several components side by
side: a variable `part` says which of them moves in a behaviour, the others rest
in an initial state. This is a sum, not a product: the components share no state
in these runs, and a property of one is checked over all behaviours of that one.
Where a component has distinct situations (a root that is renamed, a port that is
taken, a policy) they are listed as *scenes*, records of a constant set from which
the initial state takes one; a scene also bounds the failures in it.

## Runs

| Run | Distinct states | Question and answer |
| --- | --- | --- |
| `store` | 1 429 000 | Two clients with stale snapshots, two generations, failing writes, crashes under the lock: tokens are never orphaned, nothing is resurrected, the teardown authority of a stopped record stays, and the contract is implemented. A log that is rotated, archived, compressed and pruned by two processes while a container appends and a reader follows: text is accounted for. |
| `records` | 1 216 000 | Every record shape an older release could leave: migration keeps exit codes, stops and revision order, and loses the teardown authority in two named steps only. Two writers, a follower, an interrupted append, a torn write and a power loss: the event log is intact, the follower faithful. |
| `lifecycle` | 3 632 000 | Two generations with a racing `restart`, which may stop a child that is still set up, and no fault; `reconcile`, `wait` and `rm` with two mishaps out of a failing call, a crash anywhere and children that die during their setup: the host follows the record and, for children that did not die so early, no resource is without a token. |
| `early_stop` | 2 063 000 | Two of `stop` and `reconcile` against a child that may die while still blocked before exec: only dead processes are recorded as stopped. Links, rules and bridges whose setup fails, dies or is cleaned by somebody else in the middle, with one owner or two on a bridge: nothing is forgotten. |
| `recovery` | 378 000 | With repeated reconciliation every dead generation ends clean, but for what was made for a child that had died during its setup. Restart policies, `wait`, stop, deletion and health checks in seven scenes: answers are true and come. Volumes: what was reported is so, and creation repairs. Drain and exec: the log of an exec is true, and both end. |
| `host` | 1 718 000 | Three containers, two of them with one host name, three generations, a single address, one fault and one crash, on the built-in bridge and on a custom network (with either): a payload keeps its lease and its name serves it. The cgroup of two generations with two failing writes: it does as told. Two daemons at one path: a serving one is reachable. |
| `images` | 483 000 | Every image command beside a prune, with one failing call or one crash; up to four records of every kind in two layers, and publication against a rival; two builds that fail, die or meet each other or an rmi; an init in fourteen scenes, volumes at `/` among them. |
| `lifecycle_start_die`, `cgroup_orphan`, `events_follow_gap`, `update_restart`, `init_status` | violation | see [below](#disagreements-with-the-codes-own-claims) |

A property of a run is either a single statement or a conjunction of named parts
of one component, each defined and explained beside the others; the type
invariant is one of the parts.

| Property | Parts |
| --- | --- |
| `LogTextAccountedFor` | `LcTypeOK`, `LossHasACause`, `FollowerNeverGoesBack`, `RotationKeepsOrder` |
| `LogIsIntact`; `FollowerIsFaithful` | `EvTypeOK`, `HistoryOrdered`, `AcknowledgedKept`; `FollowerRepeatsNothing`, `FollowerEmitsTerminated` |
| `HostFollowsRecord` | `TypeOK`, `LivePayloadIsRecorded`, `OneGenerationOnHost`, `CleanReturn` |
| `CgroupDoesAsTold` | `CgTypeOK`, `PayloadIsLimited`, `LimitsFollowSpec`, `FreezeIsAcknowledged` |
| `SocketIsItsServers` | `DsTypeOK`, `LiveServerKeepsItsSocket` |
| `NothingIsForgotten` | `HnTypeOK`, `HandoffNameIsFree`, `CleanReturnLeavesNothing`, `LeftoverIsOwed`, `BareBridgeHasACause` |
| `ClientsSeeTheTruth` | `RcTypeOK`, `ExitCodeIsItsOwn`, `StopAnswerIsTrue`, `NoProcessWithoutRecord`, `RestartBudget` |
| `VolumeIsAsReported` | `VsTypeOK`, `LastSuccessIsTrue` |
| `ProcessesAreAsRecorded` | `CpTypeOK`, `StoppedMeansNoProcess`, `ExecEntersItsGeneration`, `ExecEventTruth`, `ExecOutcomeRecorded`, `ExecSuccessIsPayloadSuccess` |
| `ProcessesEnd` | `DrainEndsUnlessLateAdoption`, `ExecCommandReturns` |
| `NameServesItsPayload` | `TypeOK`, `PayloadDiscoverable`, `NameHasOneLiveOwner` |
| `RemovalIsOwed` | `TypeOK`, `HalfRemovedIsOwed` |
| `LayersBecomeTheTree` | `ExTypeOK`, `LaterRecordWins`, `NoLinkLeftBehind`, `DirectoryModeIsItsOwn`, `PublishedIsWhole` |
| `BuildsLeaveWholeTrees` | `BdTypeOK`, `RecordedTreeIsWhole`, `FailedBuildLeavesNothing` |
| `PayloadRunsAsAdmitted`; `HostIsLeftAlone` | `CiTypeOK`, `PayloadRootIsAdmitted`, `PayloadIsConfined`, `MaskedStaysMasked`; `HostTreesUntouched`, `ImageSurvivesCleanup`, `StrayPivotHasACause` |
| `OthersKeepTheirs` | the actions `TheirsIsNotReplaced`, `OnlyOwnTreeRemoved`, `TheirPivotStays` |

Each part has a mutant: a definition changed the way a plausible bug would
change the code (dropped revision check, skipped fsync, cleanup by container
instead of generation, a probe that counts as an exit, an unlocked thread, ...).
TLC finds the property violated in each. The mutated forms stand before the
definitions they change, marked "Mutant".

### Bounds

- *Two generations, two clients.* A stale actor needs one generation to hold and
  another to meet. The third generation in `host` is for a policy restart beside
  a second container, or for a third container; `RestartControl` counts three, so
  that a client of the first can miss two.
- *`MaxRev = 6` in the store* is reached, so the refusal at the last revision
  happens; 9 in the lifecycle is never reached, which leaves that run to the
  lifecycle.
- *One fault and one crash*, and in `lifecycle` two mishaps out of these and of children
  that die during their setup. Every cleanup is retried by every later command, so
  two faults in different places are two retries; the runs without a bound on the
  retries (`Commands` restart for ever) are finite because locals are reset. Where
  a rollback can fail after the failure it rolls back (`CgroupControl`, bridges,
  builds, a pivot) there are two; the image commands have one of either kind.
- *`MaxRecords = 2`, `MaxEvents = 6`* give a file at its limit, three rotations and
  generations that leave the retention window of two.
- *`PoolSize = 1`* makes exhaustion, and every address handed on from one container
  to another, happen in each behaviour with two of them.
- *Two image IDs, one tag, `MaxClock = 2`*: a tag that moves from one payload to
  another, dangling records by displacement, and a payload published again while
  the old one is being removed. The second removing process is the prune.
- *Four paths, two layers, four records* (three for `pull`, two where things go
  wrong) give chains and cycles of links, a marker over a directory with a child,
  and a name taken again by a later layer.
- *Two descendants* of the payload are a daemon and its child, the shortest chain
  for a late adoption; with exec beside it there is one.
- *Three writes, two opens, three maintenance calls, `MaxBytes = 2`, `MaxFiles = 3`*:
  a log over its limit by one write, an archive that moves on and is compressed.
- *Two removers and one creator* of a volume, one crash: a removal that starts on
  one directory and ends on the next.

Deadlock is checked wherever a run has commands that can always be issued: the
lifecycle parts and the image commands. Parts that may come to rest have a
stuttering step for it, the build and init parts only when all their processes
have ended, so that a process stuck half way is reported. It is off for `store`
and `records` (a deleted container has no operation left) and for `host` (all
run processes have ended, no daemon can be started any more).

### Fairness

`EventuallyClean` needs that parents and commands that have a next step take it:
they are processes, and no modelled step waits for another process except
`cmd.Wait`, which is disabled until the child is dead. An orphaned child dies
because the runtime sets `Pdeathsig`. `Start(c, "reconcile")` is weakly fair:
`ps`, `exec`, `rm`, `prune`, `restart` and the daemon all reconcile first, so an
operator who keeps looking keeps reconciling; the claim is about such an operator.
Nothing is assumed of payloads that still have their parent, or of faults, whose
number is bounded: a removal that fails for ever is never cleaned.

`ClientsGetAnswers` assumes the restart loop, each `wait` and each stop request to
be scheduled, nothing of the payload: the claim starts when no payload is left.

`CreationRepairs` assumes that volume calls that were made go on and that creation
is asked for again and again, as `run` does with a named volume.

`ProcessesEnd` assumes the supervisor, the exec command, its helper and the
runtime parent to be scheduled, a killed process to die, and a dead exec payload to
be reaped by its parent. Payloads and descendants owe nothing: the drain is claimed
to end only when every process that has not been killed was listed.

For `CleanupRecovered` every process takes its next step, and somebody calls
`PruneOrphanLayers` after every call of it. The library offers this function as the
recovery of interrupted removals, but no command of `minictl` calls it at this
commit, so the claim is about an embedder that does. No client has to run a command.

## Proofs

Every theorem is about the specification of its component without fairness, from
its initial states and for every value of the constants that satisfies the
assumptions named with it. Bounds on faults, crashes, revisions or polls are such
constants, so the theorems hold for any number of them. TLC checked each
inductive invariant as an invariant of the instances first.

| Module | Theorem | Statement |
| --- | --- | --- |
| `StateStoreProofs` | `TypeCorrect` | `Spec => []TypeOK` |
| | `TokensSafe` | `Spec => []TokensNameCurrentGeneration` |
| | `CodeSafe` | `Spec => []StoppedCodeIsOwn` |
| | `RunningEndsSafe` | `Spec => RunningEndsInOwnStop` |
| | `RevisionSafe` | `Spec => RevisionOrdersLifecycle` |
| | `DeletedStaysDeleted` | `Spec => NoResurrection` |
| | `AuthorityStable` | `Spec => StoppedAuthorityStable` |
| | `Refinement` | `Spec => ImplementsContract` |
| | `LogIntact` | `EvSpec => []LogIsIntact` |
| | `FollowerFaithful` | `EvSpec => []FollowerIsFaithful` |
| | `LogAccounted` | `LcSpec => []LogTextAccountedFor` |
| `GenerationLifecycleProofs` | `LivePayloads` | `Spec => []LivePayloadIsRecorded` |
| | `StopsAreDeaths` | `Spec => []StopIsDeath` |
| | `ReturnsAreClean` | `Spec => []CleanReturn` |
| | `PayloadsKeepResources` | `Spec => PayloadKeepsResources` |
| | `NoOrphans` | `Spec => []NoOrphanHostResource` |
| | `HostFollows` | `Spec => []HostFollowsRecord` |
| `NetworkProofs` | `AddressesAreOwned` | `Spec => []PayloadOwnsItsAddress` |
| | `AddressesAreDistinct` | `Spec => []DistinctAddresses` |
| | `NamesServePayloads` | `Spec => []NameServesItsPayload` |
| | `NothingForgotten` | `HnSpec => []NothingIsForgotten` |
| | `SocketSafe` | `DsSpec => []SocketIsItsServers` |
| `CgroupControlProofs` | `CgroupSafe` | `CgroupSpec => []CgroupDoesAsTold` |
| `RecoveryProofs` | `ClientsAreToldTheTruth` | `RcSpec => []ClientsSeeTheTruth` |
| | `GenerationsDoNotRevive` | `RcSpec => GenerationNeverRevives` |
| | `VolumesAreAsReported` | `VsSpec => []VolumeIsAsReported` |
| | `ProcessesRecorded` | `CpSpec => []ProcessesAreAsRecorded` |
| `ImageProofs` | `RemovalOwed` | `Spec => []RemovalIsOwed` |
| | `RemovesSafely` | `Spec => RemovesOnlyUnreferenced` |
| | `Reachable` | `Spec => StaysReachable` |
| | `BuildsAreWhole` | `BdSpec => []BuildsLeaveWholeTrees` |
| | `BuildsKeepOthers` | `BdSpec => [][OnlyOwnTreeRemoved]_bdVars` |
| `ContainerInitProofs` | `RunsAsAdmitted` | `CiSpec => []PayloadRunsAsAdmitted` |
| | `HostLeftAlone` | `CiSpec => []HostIsLeftAlone` |
| | `ParentKnows` | `CiSpec => []ParentKnowsTheEnd` |
| | `TheirPivotKept` | `CiSpec => [][TheirPivotStays]_ciVars` |

Each of these modules also has the theorem that its inductive invariants hold
(`Inductive`, `EvInductive`, `LcInductive`, `HnInductive`, `CgInductive`, `RcInductive`,
`VsInductive`, `CpInductive`, `ImagesInductive`, `BuildsInductive`, `InitInductive`). `ContainerStoreProofs`
has no theorem of its own: its lemmas say what the operations on the record keep,
and both the store and the lifecycle rest on them.

### The store

Assumed: `NoGen \notin Gens`, `Nobody \notin Clients`, `MaxRev \in Nat`,
`Codes \subseteq Nat`, and a fresh state directory (`Spec`).

*The inductive invariant.* `TokensNameCurrentGeneration` alone is not inductive.
Whether a token's generation can be read back from a stopped record depends on
the record's stopped-generation metadata, so `IInv` fixes the shape of the record
(`Shape`: exact identity or explicit broad policy, never both). `Save` writes a
client's old copy, and keeps that shape only because a copy with the current
revision has the current lifecycle fields (`SnapOK`): the compare-and-swap is
what the whole argument rests on. A holder in the middle of a deletion has already
proved that nothing is owed (`LockOK`), and before the first admission there is
nothing to read (`FreshOK`). Fresh directories never get `.exit` or
`.exit-required`, which is why this invariant does not cover `SpecLegacy`.

*The argument.* Every action that replaces the record goes through one of two
lemmas: `CommitKeepsIInv` (any of the three write outcomes keeps `IInv` if the new
store is good and not behind) and `QuietKeepsIInv` (the store does not change).
`WriteGood` and `StopGood` establish "good" for the writers. The step lemmas go
through the clients' operations, the lock holder's remaining work and crashes.

*The action properties and the refinement.* `NextRecordStep` reduces each step to
one of four shapes (`RecordStep`): tokens only, record rewritten with its
successor revision, created, removed. The action theorems and `StepRefines`, which
maps each shape to a contract step or a stutter, are then facts about four shapes
instead of some twenty actions.

### The life of a generation

Assumed: `Commands` and `Gens` are disjoint, `Kinds` are the five commands, the
bounds are numbers, and the assumptions of `ContainerStore`.

A task acts on what it read some steps before, so none of the properties is
inductive. `IInv` says for each label what the task there may still rely on:
`ParentAt` for a parent and its own generation, `TaskAt` for any task and the
generation in its locals (at the labels `Proved` that one is known to be dead),
`FinishAt` for a parent that has had no error. `GenerationOK` ties record and host
together for each generation. The proof is a rely-guarantee argument: `Guarantee`
bounds what one step may do to store and host (only the parent of `g` adds
resources or tokens of `g`; nothing is taken from a live generation; a record goes
to "stopped" with the death of its generation), the lemmas `GenerationKept`,
`ParentKept` and `TaskKept` show that this is enough for everybody who does not
move, and each action then has to show that it keeps within `Guarantee` and arrives
at a label whose facts hold.

`NoOrphanHostResource` and `OneGenerationOnHost` except the generations in `early`:
when a child dies while its parent sets it up, an observer can clear the token between
`MarkCgroupOwned` and the mkdir (`cgroup_orphan`,
[below](#disagreements-with-the-codes-own-claims)). The invariant ties `early` to this
case alone: such a child is dead and was never let go, and whoever is set up without
being in `early` is alive. So everything is claimed of a generation whose payload ran,
or whose setup its own parent aborted. TLC checked `IInv` on the instance of `lifecycle`
(3 631 581 states).

### Addresses and names

Assumed: a non-empty set of containers, a pool of at least one address,
`NoGen \notin Gens`, `NoEntry \notin Entries`, scenes whose bounds are numbers.

A generation belongs to one run process (`OneParent`). `AttemptAt` says what an
attempt knows of its own generation at each label: from the allocation to the
release it has the lease if its child lives, and before the release its registry
entry is bound. `Guarantee` says what a step may do to pool, registry and records:
a lease of a live generation is dropped by its own process only, and an entry of
a live generation is replaced by its own process only. This also covers payloads whose run
process has crashed, and observers that come late, because an observer that acts for a
generation has proof of its death. TLC checked it on 408 112 states
of the default and a custom network, up to symmetry.

### The cgroup

Assumed: `NoHolder` and `NoLimit` are no clients, `MaxPolls` is positive. The two
controller files stand for the first and the last of the real ones; the proof is
about these two.

The limits are written by `Apply`, which takes no lock, and by updates and their
rollbacks, which hold the state lock. `HolderOK` is the fact that keeps them
apart: the generation of the holder can neither end its record nor be followed by
another one, and an update that did not come in during `Apply` works on a complete
cgroup. `ApplyOK` and `LimitsOK` follow `Apply` through hierarchies and files,
`SpecOK` and `UpdateOK` say which limits already have the new value and which
still that of the restart spec, as long as no excuse was recorded, and `FreezeOK` that a
freeze nobody opposed is in force. TLC checked `CgIInv` on 493 094 states.

### What clients are told

`RecoveryProofs` has three parts without common state.

*A restarting container.* Assumed: `RestartAssumption` (bounds that are numbers,
scenes of the right kind). Clients hold generations that may be long over. They
can rely on three things (`Advances`): who has exited stays so and keeps its exit
code; the record's generation never goes back, and a running record is either the
one of before or of a later generation; a change of the record shows in its
revision. `Publishes` is the step by which any of wait, stop, rm and reconciliation may
record a stop: with a generation that has exited, and with no code but its own
if that is the generation of the record. `RcIInv` also says that the process table agrees with the
position of the loop (`ProcOK`), that the record is at most one generation
behind it (`RecOK`), and that a health snapshot of the current revision is the
record (`SeenOK`), which is why its Save revives nothing. `Advances` holds of every
step and gives `GenerationsDoNotRevive` at once. TLC checked `RcIInv` on 2 418 044
states.

*Volumes.* Assumed: creators and removers are different, and removers finite in
number. That inode numbers suffice is a counting argument: a new directory needs a
removal that has ended (`Over`), a new `_data` one that has deleted its `_data`
or will not any more (`Spent`), and both sets only grow. A directory without the
name is empty (`UnlinkedIsEmpty`), so a late rename or mkdir in it fails. A step that
does not return leaves its call under way, and then nothing is claimed; at a
successful final check the directory has the name and the data, and the metadata
is missing only while some removal has begun (`Clearing`), which at rest means
that one has failed. TLC checked `VsIInv` with two creators and two removers on
1 884 942 states.

*Processes and exec.* Assumed: `ProcessesAssumption` (the names of processes differ,
scenes of the right kind); descendants may be any set. An exec goes by PID numbers,
and the container may die and its PID be given to a stranger between any two of its
steps. `TargetOK` says what the helper holds meanwhile: a stranger's root or
namespace only while the stranger has the PID, so that the recheck behind the last
capture refuses it, and past the recheck the container's alone; outside of the cgroup
only when it looked before the token was written, or after it was cleared, and then
the init is dead and cannot be opened. `NamespaceOK` gives that a stopped record has no process: before the init's PID is free every
process of its namespace is reaped. `PayloadOK` keeps the exec's payload the
helper's own child until the helper has reaped it, so a 0 that it passes on is
the payload's, and a payload's 0 becomes 1 only with an error the helper has kept. `PipeOK` and `LogOK` carry that over to the command, which knows the helper only
by its pipe and its exit: how far the helper is, what the command has proven, and
which events it has logged go together unless an append failed or the helper was
killed, and those are the exceptions that the property names. TLC checked `CpIInv`
with two descendants and two faults on 4 541 664 states.

### The event log

Assumed: `BoundsAssumption` (a file holds at least one record, the bounds are numbers,
`NoWriter` is no writer). Any number of writers may fail or die before any step of an
append, any number of appends may be torn, and the power may fail at any time.

`LogIsIntact` speaks of the directory and of the files as they are. After a power
loss the directory is any of its states since its last fsync and a file is
something between its synced and its written records, so the invariant has to hold
of all of them at once: `DirsOK` puts the generations in order in every state of
`dirs`, counting the events a file holds in memory or on disk, and `FilesOK` orders
both versions of every file. `AckedOK` is the core of it: in every directory state an
acknowledged event lies in the prefix that memory and disk have in common
(`Holds`), where a repair does not cut and a power loss does not reach. That the
append of an event may be acknowledged needs `WriterOK`: when the record is written
and synced only one directory state is left, because each rename and each creation
was synced before the next step.

A follower keeps a descriptor and an offset while files are repaired and renamed
under it. `FolOK` says that what it has consumed are terminated records, which a repair
leaves alone. For its output to be in order, what it has emitted must be older than
the rest of its generation, than everything in its queue and, while it waits, than
the active generation (`ForwardOK`). This holds only while no append is torn: a
fragment that is cut off and overwritten makes it read its generation again,
which is why the property is stated under the same condition. `RetainedOK` is
needed at the hand-off: a generation that was renamed away is not empty and has no
fragment, so its successors are newer than anything emitted. TLC checked `EvIInv` with
the constants of `records` on 442 675 states, and with files of one record and two
faults of each kind on 2 175 677.

### Container logs

Assumed: `LogsAssumption` (a rotation keeps at least one write, an archive run at least
two files, the other bounds are numbers). Any number of maintenance calls may run at once
and die before any step.

`LossHasACause` speaks of files that have a name, but a file whose removal has passed its
last check still has its tombstone. `KeptOK` therefore asks for a file that is `Safe`:
it has a name that no call is about to unlink. That an unlink takes nothing else with
it needs three facts. `StageOK`: a staged file has no other name. `KindsOK`: what is
known as a log (to the payload, the reader, a rotation, a compression) is never a
`.gz`, so no rotation cuts and no payload extends a copy. `CopyOK`: past its check a
compression finds each write of its source in the copy, or blamed.

A rotation moves text inside the file that the payload extends and the reader reads.
`ShiftOK` describes such a file: the moved front, the writes from the cut on, and between
them only what is trimmed or already moved. Everything in it is in order but for that
middle part, and whatever was appended after the measurement is blamed. So a shift
overwrites nothing that is still owed, and the cut leaves an ordered log. It holds
only while one rotation has the file; `OrderOK` therefore excludes torn files, and
`TornOK` says that all text of a torn file that is still being shifted is blamed. A
shift takes text from behind, so `ReaderOK` (what lies at or behind the reader's offset is
newer than what it has read) survives it. TLC checked `LcIInv` with the constants of
`store` on 1 281 880 states.

### Links, rules and the daemon's socket

*Links and rules.* Assumed: `HostNetworkAssumption` (containers on the custom bridge
are containers, "host" names none, fault bounds are numbers). A generation has
two cleaners: its parent after a failed setup, and an observer that acts on a
stopped record and may have started while the setup still ran. What a cleaner
without an error has swept must stay swept, whatever the other does (`Swept`); that holds of an
observer unless it came early, and `hnEarly` then keeps the debt. With `Lives` (only dead
children are recorded as stopped) and `Ported` (rules belong to published ports) it
follows that a token is cleared only when nothing is left (`Cleans`, `Ends`). That the
fixed peer name is free for the next setup rests on the hand-off lock (`LockHeld`,
`PeerHasASetup`). TLC checked `HnIInv` on 166 627 states.

*The socket.* Assumed: `MaxBinds \in Nat` and `NoSocket \notin 1..MaxBinds`; the set
of daemons is arbitrary. That a serving daemon
is at the path is not inductive: another one may be about to remove the path by
name. `DsIInv` adds that a daemon has a socket exactly from bind to removal, that
no two have the same one, and that the socket of any of them is the one at the path.
Then a second daemon between bind and removal cannot exist.

### Images and builds

*Image commands.* Assumed: IDs, tags, `Ext` and `None` are different, the pruner is no
client, bounds are numbers. Every command acts on what it read before: `Aware` says
what the locals of a process hold at each label, `Counts` what it may conclude from
them. The core of it is about the first tree under an ID while it is there (`Alive`):
who is about to empty it knows that it has a sidecar and no record (`Doomed`), and
that stays so, because a publication refuses an ID with a sidecar; an import that
made the tree is the only one that did (`OneOwner`) and has either not published or
has been followed by a record. `Steady` is what each step may do to a payload on
which others count. TLC checked `IInv` with two clients beside the
pruner, every command but the system prune and one failing call on 3 578 160 states, up
to symmetry.

The proof found two things that the run's instance, with one client, did not
reach, and which the properties exclude by name:

- After an import has rolled back its publication, the same content can be imported
  again. A removal or a recovery that read the sidecar of the first tree then pins
  and empties the second. The properties speak of the first tree
  (`ino[i] <= 1`).
- A `pull` overwrites with a plain `SaveImage` the only record of a tree that a second
  import has meanwhile verified. The first import finds its tree without a record and rolls
  back, and the second publishes a record without a payload. `lost` is a history variable
  with the IDs whose last record went this way.

*Builds.* Assumed: `BuildsAssumption` ("none" and "user" are no builds) and a kind for
every build of a scene. A build rolls back what `bdOwned` says it has made, so the
invariant ties ownership to the tree (`MadeTrees`) and to the label (`BuildLabels`);
`ManagedTree` and `OutputTree` follow the tree from the staging directory to the
record. A directory of the caller is only one build's, or one rmi's, at a time while
`bdRaced` is false; then the listing of an rmi is still right when the directory goes
(`NoRecordToRemove`). An owner whose directory is no longer its own is in the history
variable `bdLost`. TLC checked `BdIInv` with three builds on 223 549 states.

### The start of a container

Assumed: `CiAssumption`. A scene may ask for any volumes, tmpfs, masks and working
directory, find any directories in the root and in what is mounted (each inside its
parent), and have any number of failing calls; only a mask may not be at `/`, which
`validateMaskedDirectories` refuses. `FileNames` is any set of names that has those of
the kernel's file systems.

What a payload finds is the outcome of some thirty steps, so `CiIInv` says for each
place the init can be at what it has done by then. `InitInOrder`, `StatusTells` and
`ParentConcludes` relate its place, the bytes in the pipe and what the parent has read;
`PoliciesApplied` says which policies its present thread has, and that an unlocked
goroutine has none to lose; `NamespaceIsOwn` and `PivotOwned` follow the root and
`.pivot_old`. The hard part is `MaskedStaysMasked`, since a later mount can hide an
earlier one. `MountsKept`, `MadeSoFar` and `AllMade` fix the number of each mount, so
masks come after volumes and tmpfs; but a mask is made only if its directory exists,
and a mount point that is missing is made in the topmost mount over it. So
`Reached` says that the mount point of every mount that is nowhere covered can be
walked to, and `ClosedUp` that a directory lies in directories: then whatever a
request finds or makes lies in a root, the image's or one asked for at `/`
(`MadeInPlace`, `RootNumbers`), and in nothing else of the host's. TLC checked `CiIInv`
on the fourteen scenes of `images` (29 593 states).

## What is only model-checked

- Liveness (`EventuallyClean`, `CleanupRecovered`, `ClientsGetAnswers`,
  `CreationRepairs`, `ProcessesEnd`): fairness is outside what the prover handles.
- `LayersBecomeTheTree`: it compares what is on disk with the value of a fold (the
  archive records applied to a tree), and needs induction over data, which the prover
  cannot do here.
- `TheirsIsNotReplaced`, the part of `OthersKeepTheirs` that is about layers; the parts
  about builds and inits are proved.
- `SpecLegacy`: on fresh directories `StoppedCodeIsOwn`, `RunningEndsInOwnStop`,
  `RevisionOrdersLifecycle` and `StoppedAuthorityStable` are proved, and `records` checks them from what older
  releases left.

## Disagreements with the code's own claims

Each violation run checks one claim the repository makes; TLC's shortest
counterexample shows how the code departs from it.

- **`lifecycle_start_die`.** `lifecycle_staging.go` says every generation
  completes its start/die pair before the next start. `stop` kills the payload
  and commits the stop with code -1; the parent then reaps -1, is told that
  nothing changed, and publishes no die. Its start proof stays committed, so the
  next policy restart is refused.
- **`cgroup_orphan`.** `runtime_cgroup_apply_linux.go` says that writing the token
  before the directory closes the crash window between the two. A `stop` of the
  still blocked child comes in between, finds no directory and clears the token; the
  parent, which looks at neither, makes the directory and dies, and no token names
  it. Without the stop the window is closed (`NoOrphanHostResource`).
- **`events_follow_gap`.** A record appended after the follower's EOF is skipped
  when the log rotates before the follower looks at the path again: the follower
  goes on with the successors of the generation it has not finished reading, and
  reports no gap.
- **`update_restart`.** `freeze.go` says that a later restart cannot silently
  restore limits from before an update. A policy restart runs the attempt of the
  same process again, with the memory, CPU and pids limits it was started with.
- **`init_status`.** `payload_exit.go` says a payload's status is not
  misclassified as a failed setup. The init writes the FAILURE byte for any error,
  a payload that exits with 3 included, and the parent, which reads until EOF,
  reports a runtime error without start or die event.

More were met while modelling and shape the modules, without a run of
their own:

- The repair of a torn append truncates the file below the offset of a follower
  that had read the fragment. The follower takes this for a copytruncate and reads
  the active generation again from the start. `FollowerRepeatsNothing` therefore
  speaks of logs without torn appends only.
- A late exit code or a Save written into a stopped record of an older release gives
  it a state schema version while `.exit` and `.exit-required` stay, after which
  teardown reads of that record fail and its cgroup token cannot be cleared. A
  deletion takes `.exit` before the JSON, and writes it back when it fails, unless it
  dies in between. `StoppedAuthorityStable` names these two steps and shows that no
  other loses the authority; the token properties are not claimed of `SpecLegacy`.
- `import` of a tarball whose payload exists proves once that a record refers to it
  and publishes later. A removal of that record in between takes the payload, and
  clears the sidecar that would have refused the publication; the new record then
  has no root file system. No property here says that a record has its payload.
- A dangling record beside a tagged alias of the same ID stops `PruneOrphanLayers`:
  it selects the record by ID, and `resolveImageForDelete` refuses an ID with several
  aliases, although the function's comment promises to remove dangling metadata
  whose payload another alias keeps. `CleanupRecovered` is not affected, because
  sidecars are recovered before the dangling records are looked at. It also takes
  every pulled, loaded or unpacked image for dangling, since these have a name but no
  `Tag` (`Dangling`), and removes whatever the name has become since its listing.
- `pull`, `load` and `unpack` overwrite a tag with `SaveImage`, which records no
  displaced payload, while `image_publication.go` says a successful overwrite never
  makes the old payload unreachable. `StaysReachable` exempts this step by name.
- A removal leaves `images/<ID>` behind, and the rename of a new import refuses an
  existing directory, so a tarball that was removed cannot be imported again.

- *Exec.* The command takes the exit code from `err.(*exec.ExitError)` after
  `errors.Join`, so every non-zero code of an exec payload becomes 1, and so does a 0
  when relaying a signal, observing the payload or killing its group failed. An exec
  that finds no ownership token goes on outside of any cgroup: one that comes between
  the running record and the token does (`ExecEntersItsGeneration` names it), one that
  comes after the token was cleared fails on the dead init. A failed append
  leaves a proven start without a terminal event, though a comment promises exactly
  one. The comment that every survivor is a direct child when the drain lists them
  does not hold for a child whose killed parent has not died yet.
- *Restarts.* `wait` finalizes a dead generation with -1 at once when it finds it
  first. A `wait` that has seen the stop reads the record again; when the policy has
  started the next generation in between, it answers 0, the code `MarkRunning` gives a
  generation that runs, although its comment says that it waits for a stopped state and
  returns its persisted exit code (`ExitCodeIsItsOwn` names this exception). A stop answers "stopped" while the policy runs the next generation. Since a
  non-zero exit is reported as a runtime error, `on-failure` restarts only what a
  signal killed. The health supervisor keeps its failure count across generations,
  ignores the error of its Save, and is started by no command.
- *Start event.* It is committed when the container ends, and also when the init is
  killed between READY and the fork.
- *Layers.* `pull` applies layers with `image.Unpack`, which knows no whiteouts:
  `LaterRecordWins` is claimed where there are none. A link that is made again on a
  name that already is its inode leaves a temporary name behind. A marker also
  removes earlier entries of its own layer. A pull that dies between its five
  metadata saves leaves a partial record.
- *Builds.* Two builds in one output directory of the caller: the owner that fails
  removes the tree the other has published, for its deferred removal asks for no
  reference. An rmi removes the caller's directory after a listing: a build that records
  it in between has a record of nothing. A build that is told of an error after its record
  was committed, and whose record and directory an rmi takes before it looks, finds no
  reference and removes the directory that the next build has made there
  (`OnlyOwnTreeRemoved` names both cases). A build that has passed the overlap check may write into a tree that was
  recorded meanwhile. `FROM` an image that is gone gives an empty base.
- *Logs.* Text appended between rotation's last size check and its cut is lost; a
  rotation that dies between shift and cut, and is run again, loses the tail; the next
  compression replaces `log.1.gz`; a tombstone of a dead prune is never looked at; a
  follower drops a line that is still open at EOF. No command calls the maintenance.
- *Volumes.* A half-removed volume is refused by `RemoveVolume` and makes
  `ListVolumes` fail, until it is created again. `SystemPrune` says "unused volumes"
  and removes every volume.
- *Mounts.* Mounts at or below `/dev` are lost when the private devices take its
  place; the working directory may be created in a volume of the host; a
  `.pivot_old` of an init that was killed blocks later starts from that root.
- *Daemon and networks.* The daemon learns the identity of its socket by a second
  look at the path, and the command never calls `Stop`. `network rm` does not ask for
  attached containers.

## Not modelled

- Path hardening (symlinks, permissions, file identity) where it is one check
  without a state of its own.
- The several hundred accessors of `internal/cgroups` and of the resolver options in
  `internal/network` and `internal/dns`: each reads or writes one file and parses it.
  They make up most of the lines that the map does not cover, together with argument
  parsing and OCI bundle translation in `cmd/minictl` and the text functions of
  `internal/logs`, `internal/events` and `internal/imagestore`.
- PID reuse in `GenerationLifecycle`: a generation carries the process start time,
  so two processes with one PID are two generations; start times themselves are
  trusted. `ContainerProcesses` has reuse, since exec goes through PID numbers.
- DNS entries of releases without generations; the text of hosts files,
  resolv.conf, iptables rules, events and logs.
- The registry's HTTP exchange, mirrors and push; archive decoding and xattrs;
  what a Dockerfile line writes.
- Image records under the file names of older releases, abbreviated image IDs,
  staging directories a crash leaves, and the replacement of the whole image root
  (in `ImageStore` one of the reasons a publication fails).
- Several overlay layers, and the list of device nodes.
- A container without limits, whose failing cgroup setup is a warning: that of
  `CgroupControl` has limits.
- A root without an identity to pin (`startContainerProcess` then takes the path as it
  is): every command that starts a container has one.
- The components that `PROJECT.json` lists as not modelled: they keep no state
  beyond a call, or only read.

## Checking it

In this directory:

    tlc -workers 2 -config MCStateStore.cfg MCStateStore
    tlapm StateStoreProofs.tla
    tlapm GenerationLifecycleProofs.tla
    tlapm NetworkProofs.tla
    tlapm CgroupControlProofs.tla
    tlapm RecoveryProofs.tla
    tlapm ImageProofs.tla
    tlapm ContainerInitProofs.tla

The other runs are the pairs of module and configuration in `PROJECT.json`; none
takes more than a few minutes.
