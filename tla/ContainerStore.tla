--------------------------- MODULE ContainerStore ---------------------------
(***************************************************************************)
(* The durable state of ONE container record as internal/state keeps it    *)
(* and the pure effect of every operation of state.Store on it.            *)
(*                                                                         *)
(* A store value s holds the five files of a container:                    *)
(*   rec    <id>.json: lifecycle fields and stopped-generation metadata    *)
(*   cg     <id>.cgroup: the generation whose cgroup is pending cleanup    *)
(*   net    <id>.network: the generation whose veth/ports are pending      *)
(*   exit   <id>.exit: upgrade-era exited identity                         *)
(*   cap    <id>.exit-required: upgrade-era capability marker              *)
(*                                                                         *)
(* A generation (PID + /proc start time) is an element of Gens; the other  *)
(* fields of an ownership token are functions of the generation (the       *)
(* cgroup name is derived from it, the veth and the mappings are computed  *)
(* once per generation), so a token is its generation.  Operations are     *)
(* split into the checks made under the state lock and the JSON replaced.  *)
(***************************************************************************)
EXTENDS Integers

CONSTANTS Gens,      \* process generations (PID, start time)
          NoGen,     \* no identity: the zero PID / an absent file
          MaxRev,    \* stands for math.MaxUint64, the last revision
          Codes      \* exit codes a reaper can report

ASSUME GensAssumption == NoGen \notin Gens
ASSUME MaxRevAssumption == MaxRev \in Nat
ASSUME CodesAssumption == Codes \subseteq Nat

Unknown == -1                       \* exit code of a non-owning observer
Status == {"absent", "created", "running", "stopped"}
GenOrNone == Gens \cup {NoGen}

\* <id>.json.  sv, sgv, req, ident and ldns are state_schema_version,
\* stopped_generation_schema_version, exit_identity_required, exit_identity
\* and legacy_dns_cleanup_authorized: present or not, an identity or NoGen.
Container == [status : Status, rev : Nat, gen : GenOrNone,
              code : Codes \cup {Unknown, 0, 1},
              sv : BOOLEAN, sgv : BOOLEAN, req : BOOLEAN,
              ident : GenOrNone, ldns : BOOLEAN]

Stores == [rec : Container, cg : GenOrNone, net : GenOrNone,
           exit : GenOrNone, cap : BOOLEAN]

NoContainer == [status |-> "absent", rev |-> 0, gen |-> NoGen, code |-> 0,
                sv |-> FALSE, sgv |-> FALSE, req |-> FALSE,
                ident |-> NoGen, ldns |-> FALSE]

EmptyStore == [rec |-> NoContainer, cg |-> NoGen, net |-> NoGen,
               exit |-> NoGen, cap |-> FALSE]

Exists(s) == s.rec.status # "absent"
RunningAs(s, g) == s.rec.status = "running" /\ s.rec.gen = g

\* An atomic tmp+rename+fsync write: nothing happened, all of it happened, or
\* the rename is visible and only the directory fsync reported an error.
WriteOutcomes == {"failed", "ok", "unsynced"}
Written(w, old, new) == IF w = "failed" THEN old ELSE new

-----------------------------------------------------------------------------
(* Replacing the JSON record                                               *)

\* The JSON written with an explicit exit policy: status, revision and the
\* teardown authority of a stopped record in one replacement.
writeContainerRevisionWithExitPolicy(c, rev, require, ident) ==
  [c EXCEPT !.rev = rev,
            !.sv = ident # NoGen \/ ~require,
            !.sgv = require /\ ident # NoGen,
            !.req = require,
            !.ident = ident,
            !.ldns = c.status = "stopped" /\ ~require]

\* A stopped record whose JSON has an identity without the capability is
\* refused; every other write goes through.
writeContainerRevisionAdmits(s, c) ==
  c.status = "stopped" /\ s.rec.ident # NoGen => s.rec.req

\* Mutant: a rewrite of a stopped record drops its exited identity.
writeContainerRevisionForgets(s, c, rev) ==
  [s EXCEPT !.rec = writeContainerRevisionWithExitPolicy(c, rev, FALSE, NoGen)]

\* Stopped metadata survives only while the target stays stopped; it is taken
\* from the JSON now on disk, not from the sidecars.
writeContainerRevision(s, c, rev) ==
  [s EXCEPT !.rec =
     IF c.status # "stopped"
     THEN writeContainerRevisionWithExitPolicy(c, rev, FALSE, NoGen)
     ELSE writeContainerRevisionWithExitPolicy(c, rev, s.rec.req, s.rec.ident)]

\* The stop of a running generation embeds its identity.
writeStoppedContainerNextRevision(s, c, g) ==
  [s EXCEPT !.rec =
     writeContainerRevisionWithExitPolicy(c, s.rec.rev + 1, TRUE, g)]

\* Mutant: Save without the revision comparison.
saveContainerAdmitsAnyRevision(s, c) ==
  (Exists(s) => s.rec.rev < MaxRev) /\ writeContainerRevisionAdmits(s, c)

\* Save: compare the caller's revision with the one on disk (0 when absent).
saveContainerCASAdmits(s, c) ==
  /\ c.rev = (IF Exists(s) THEN s.rec.rev ELSE 0)
  /\ Exists(s) => s.rec.rev < MaxRev
  /\ writeContainerRevisionAdmits(s, c)

\* Mutant: a new record takes the revision before the caller's zero.
saveContainerUnderflow(s, c) ==
  writeContainerRevision(s, c, IF Exists(s) THEN s.rec.rev + 1 ELSE c.rev - 1)

saveContainerCAS(s, c) ==
  writeContainerRevision(s, c, IF Exists(s) THEN s.rec.rev + 1 ELSE 1)

-----------------------------------------------------------------------------
(* Lifecycle transitions                                                   *)

\* Mutant: pending cleanup of the previous generation is not looked at.
MarkRunningIgnoresTokens(s, g) ==
  /\ Exists(s)
  /\ s.rec.status = "running" => s.rec.gen = g
  /\ s.rec.rev < MaxRev

MarkRunningAdmits(s, g) ==
  /\ Exists(s)
  /\ s.rec.status = "running" => s.rec.gen = g
  /\ s.rec.status # "running" => s.cg = NoGen /\ s.net = NoGen
  /\ s.rec.rev < MaxRev

MarkRunning(s, g) ==
  writeContainerRevision(
    s, [s.rec EXCEPT !.status = "running", !.gen = g, !.code = 0],
    s.rec.rev + 1)

\* readCurrentExitedIdentity: the embedded identity, else the .exit sidecar.
\* A versioned record without one, or one without capability, is an error.
readCurrentExitedIdentity(s) ==
  CASE s.rec.ident # NoGen -> IF s.rec.req THEN s.rec.ident ELSE NoGen
    [] s.rec.ident = NoGen -> IF s.rec.sgv THEN NoGen ELSE s.exit

\* Mutant: any reaper may upgrade the unknown exit code.
UpgradesAnyExitCode(s, g, code) ==
  /\ s.rec.status = "stopped" /\ s.rec.code = Unknown /\ code # Unknown
  /\ s.rec.rev < MaxRev
  /\ writeContainerRevisionAdmits(s, s.rec)

\* A late authoritative exit code for the generation already stopped as -1.
UpgradesExitCode(s, g, code) ==
  /\ s.rec.status = "stopped"
  /\ s.rec.code = Unknown
  /\ code # Unknown
  /\ readCurrentExitedIdentity(s) = g
  /\ s.rec.rev < MaxRev
  /\ writeContainerRevisionAdmits(s, s.rec)

\* Mutant: a stop is accepted for whatever generation is running.
StopsAnyRunning(s, g) == s.rec.status = "running" /\ s.rec.rev < MaxRev

\* The stop of the running generation the caller observed.
StopsRunning(s, g) == RunningAs(s, g) /\ s.rec.rev < MaxRev

\* Mutant: the late exit code is written at the same revision.
MarkStoppedSameRevision(s, g, code) ==
  IF s.rec.status = "stopped"
  THEN writeContainerRevision(s, [s.rec EXCEPT !.code = code], s.rec.rev)
  ELSE writeStoppedContainerNextRevision(
         s, [s.rec EXCEPT !.status = "stopped", !.gen = NoGen, !.code = code], g)

MarkStoppedIfIdentity(s, g, code) ==
  IF s.rec.status = "stopped"
  THEN writeContainerRevision(s, [s.rec EXCEPT !.code = code], s.rec.rev + 1)
  ELSE writeStoppedContainerNextRevision(
         s, [s.rec EXCEPT !.status = "stopped", !.gen = NoGen, !.code = code], g)

\* A startup failure of a record no process was ever bound to.
MarkStoppedIfCreatedAdmits(s) ==
  /\ s.rec.status = "created"
  /\ s.rec.gen = NoGen /\ s.cg = NoGen /\ s.net = NoGen /\ s.exit = NoGen
  /\ s.rec.rev < MaxRev

MarkStoppedIfCreated(s) ==
  writeContainerRevision(s, [s.rec EXCEPT !.status = "stopped", !.code = 1],
                         s.rec.rev + 1)

\* Mutant: a record is deleted with cleanup still pending.
DeleteIfNotRunningForgetsTokens(s) == Exists(s) /\ s.rec.status # "running"

DeleteIfNotRunningAdmits(s) ==
  /\ Exists(s)
  /\ s.rec.status # "running"
  /\ s.cg = NoGen /\ s.net = NoGen

\* Store.Delete, the admission rollback, looks at the tokens only.
DeleteAdmits(s) == s.cg = NoGen /\ s.net = NoGen

-----------------------------------------------------------------------------
(* Ownership tokens                                                        *)

\* Recording cleanup intent needs the exact running generation; repeating it
\* is idempotent, another generation's token is a conflict.
MarkCgroupOwnedAdmits(s, g) == RunningAs(s, g) /\ s.cg \in {NoGen, g}
MarkCgroupOwned(s, g) == [s EXCEPT !.cg = g]

MarkNetworkOwnedAdmits(s, g) == RunningAs(s, g) /\ s.net \in {NoGen, g}
MarkNetworkOwned(s, g) == [s EXCEPT !.net = g]

\* Clearing needs the exact token; a running record refuses the cgroup token
\* always and the network token when it runs another generation.
ClearCgroupOwnershipAdmits(s, g) ==
  /\ g # NoGen /\ s.cg = g
  /\ Exists(s) /\ s.rec.status # "running"

ClearNetworkOwnershipAdmits(s, g) ==
  /\ g # NoGen /\ s.net = g
  /\ Exists(s) /\ (s.rec.status = "running" => s.rec.gen = g)

-----------------------------------------------------------------------------
(* Teardown authority of a stopped record                                  *)

\* The legacy exact identity an unversioned record may be upgraded with: the
\* embedded one, else .exit; NoGen when there is none.
LegacyIdentity(s) == IF s.rec.ident # NoGen THEN s.rec.ident ELSE s.exit

\* Its capability: the JSON field, else (for the sidecar) .exit-required.
LegacyAuthorized(s) ==
  IF s.rec.ident # NoGen THEN s.rec.req ELSE s.rec.req \/ s.cap

\* migrateStoppedGenerationSnapshot rewrites the record at the same revision.
MigratesSnapshot(s) ==
  /\ ~s.rec.sgv /\ ~s.rec.ldns /\ ~s.rec.sv
  /\ LegacyIdentity(s) # NoGen
  /\ LegacyAuthorized(s)

\* Mutant: the migrated record is rebuilt without its exit code.
migrateLosesExitCode(s) ==
  [s EXCEPT !.rec = writeContainerRevisionWithExitPolicy(
                      [s.rec EXCEPT !.code = 0], s.rec.rev, TRUE, LegacyIdentity(s))]

migrateStoppedGenerationSnapshot(s) ==
  [s EXCEPT !.rec = writeContainerRevisionWithExitPolicy(
                      s.rec, s.rec.rev, TRUE, LegacyIdentity(s))]

\* authorizeLegacyDNSCleanupSnapshot: a pre-schema record with no evidence of
\* an identity at all gets the explicit broad DNS policy.
AuthorizesLegacyDNS(s) ==
  /\ ~s.rec.sgv /\ ~s.rec.ldns /\ ~s.rec.sv
  /\ LegacyIdentity(s) = NoGen
  /\ ~s.rec.req /\ ~s.cap

authorizeLegacyDNSCleanupSnapshot(s) ==
  [s EXCEPT !.rec.sv = TRUE, !.rec.ldns = TRUE]

\* validateLegacyDNSCleanupSidecars: the broad policy conflicts with sidecars.
LegacyDNSConflicts(s) == s.rec.ldns /\ (s.cap \/ s.exit # NoGen)

\* The read fails: conflicting sidecars, a modern record without authority,
\* or an exact identity without its capability.
TeardownUnreadable(s) ==
  \/ ~s.rec.sgv /\ LegacyDNSConflicts(s)
  \/ ~s.rec.sgv /\ ~s.rec.ldns
       /\ (s.rec.sv \/ (LegacyIdentity(s) # NoGen /\ ~LegacyAuthorized(s)))

\* The exact identity GetExitedIdentityForStoppedRevision returns for the
\* current stopped revision; NoGen when there is none or the read fails.
TeardownIdentity(s) ==
  IF TeardownUnreadable(s) \/ s.rec.ldns THEN NoGen
  ELSE IF s.rec.sgv THEN s.rec.ident ELSE LegacyIdentity(s)

\* A caller's stopped revision is still the one on disk.
StoppedRevisionCurrent(s, rev) == s.rec.status = "stopped" /\ s.rec.rev = rev
=============================================================================
