----------------------------- MODULE StateStore -----------------------------
(***************************************************************************)
(* state.Store under concurrent clients: several processes (minictl run,   *)
(* stop, wait, rm, prune, the daemon) share one state directory.  Every    *)
(* mutator takes the store's flock, re-reads the record, checks, replaces  *)
(* one JSON file and may then remove sidecar files before it unlocks.      *)
(* Plain readers do not take the flock, so what they hold is a snapshot.   *)
(*                                                                         *)
(* The step that replaces a file is one atomic step; the sidecar removals  *)
(* that follow it under the same lock are steps of their own, so a crash   *)
(* or an I/O error can separate them.  A crash releases the flock.         *)
(***************************************************************************)
EXTENDS ContainerStore

CONSTANTS Clients,   \* processes that open the store
          Nobody     \* the free lock

ASSUME ClientsAssumption == Nobody \notin Clients

VARIABLES store,     \* the files of the container (ContainerStore)
          snap,      \* snap[p]: the record client p read last
          lock,      \* who holds the flock and what it still has to do
          born,      \* the record was created (an ID is used once)
          used,      \* generations some parent has bound or tried to bind
          reaped     \* reaped[g]: the exit code the kernel gave g's parent

vars == <<store, snap, lock, born, used, reaped>>

\* What a lock holder still does after its first file operation:
\*   "clear"    best-effort removal of .exit (MarkRunning, MarkStopped)
\*   "retire"   .exit, then .exit-required (a versioned stopped record)
\*   "delete"   the JSON goes next, .exit is already gone
\*   "sidecars" the JSON is gone, .exit and .exit-required follow
\*   "restore"  the deletion failed, .exit = was is written back
Jobs == {"none", "clear", "retire", "delete", "sidecars", "restore"}

Free == [by |-> Nobody, job |-> "none", todo |-> {}, was |-> NoGen]
Locks == [by : Clients \cup {Nobody}, job : Jobs,
          todo : SUBSET {"exit", "cap"}, was : GenOrNone]

TypeOK ==
  /\ store \in Stores
  /\ snap \in [Clients -> Container]
  /\ lock \in Locks
  /\ born \in BOOLEAN
  /\ used \in SUBSET Gens
  /\ reaped \in [Gens -> Codes]

\* Records older releases left behind: a generation stopped with its identity
\* in .exit, authenticated by the JSON field or by .exit-required, embedded
\* before the schema was versioned, or not recorded at all.
LegacyStopped(code, req, ident) ==
  [status |-> "stopped", rev |-> 1, gen |-> NoGen, code |-> code, sv |-> FALSE,
   sgv |-> FALSE, req |-> req, ident |-> ident, ldns |-> FALSE]

LegacyStores(g) ==
  LET Codes1 == {Unknown, 0} IN
  UNION {
    {[rec |-> LegacyStopped(c, req, NoGen), cg |-> tok, net |-> NoGen,
      exit |-> g, cap |-> ~req] :
        c \in Codes1, req \in BOOLEAN, tok \in {NoGen, g}},
    {[rec |-> LegacyStopped(c, TRUE, g), cg |-> tok, net |-> NoGen,
      exit |-> x, cap |-> FALSE] :
        c \in Codes1, tok \in {NoGen, g}, x \in {NoGen, g}},
    {[rec |-> LegacyStopped(1, FALSE, NoGen), cg |-> NoGen, net |-> NoGen,
      exit |-> NoGen, cap |-> FALSE]}}

InitVars ==
  /\ snap = [p \in Clients |-> NoContainer]
  /\ lock = Free
  /\ reaped \in [Gens -> Codes]

Init ==
  /\ InitVars
  /\ store = EmptyStore /\ born = FALSE /\ used = {}

\* An upgraded state directory instead of a fresh one.
InitLegacy ==
  /\ InitVars
  /\ born = TRUE
  /\ \E g \in Gens :
       /\ store \in LegacyStores(g)
       /\ used = {g}
       /\ store.rec.code # Unknown /\ LegacyIdentity(store) = g
            => reaped[g] = store.rec.code

Unlocked == lock.by = Nobody
Take(p, job, todo) == [by |-> p, job |-> job, todo |-> todo, was |-> NoGen]

\* Replace the JSON: on success the holder keeps the lock for the sidecars, on
\* any error it returns.
Commit(p, new, job, todo) ==
  \E w \in WriteOutcomes :
    /\ store' = Written(w, store, new)
    /\ lock' = IF w = "ok" /\ todo # {} THEN Take(p, job, todo) ELSE Free

-----------------------------------------------------------------------------
(* Operations of one client                                                *)

\* Store.Get / Load / Resolve / List: no flock.
Get(p) ==
  /\ Exists(store)
  /\ snap' = [snap EXCEPT ![p] = store.rec]
  /\ UNCHANGED <<store, lock, born, used, reaped>>

\* persistRunAdmission saves a fresh record, status created, revision 0.
Create(p) ==
  /\ Unlocked /\ ~born
  /\ \E w \in WriteOutcomes :
       /\ LET c == [NoContainer EXCEPT !.status = "created"] IN
            store' = Written(w, store, saveContainerCAS(store, c))
       /\ born' = (w # "failed")
  /\ UNCHANGED <<snap, lock, used, reaped>>

\* Save of a snapshot a client read earlier and edited (health, limits).
Save(p) ==
  /\ Unlocked
  /\ snap[p].status # "absent"
  /\ saveContainerCASAdmits(store, snap[p])
  /\ Commit(p, saveContainerCAS(store, snap[p]), "none", {})
  /\ UNCHANGED <<snap, born, used, reaped>>

MarkRunningStep(p, g) ==
  /\ Unlocked
  /\ g \notin used
  /\ used' = used \cup {g}
  /\ \/ MarkRunningAdmits(store, g)
          /\ Commit(p, MarkRunning(store, g), "clear", {"exit"})
     \/ ~MarkRunningAdmits(store, g) /\ UNCHANGED <<store, lock>>
  /\ UNCHANGED <<snap, born, reaped>>

\* The parent reports the code it reaped; every other observer reports -1.
MarkStoppedStep(p, g, code) ==
  /\ Unlocked
  /\ g \in used
  /\ code \in {Unknown, reaped[g]}
  /\ UpgradesExitCode(store, g, code) \/ StopsRunning(store, g)
  /\ Commit(p, MarkStoppedIfIdentity(store, g, code), "clear",
            IF store.rec.status = "running" THEN {"exit"} ELSE {})
  /\ UNCHANGED <<snap, born, used, reaped>>

MarkStoppedIfCreatedStep(p) ==
  /\ Unlocked
  /\ MarkStoppedIfCreatedAdmits(store)
  /\ Commit(p, MarkStoppedIfCreated(store), "none", {})
  /\ UNCHANGED <<snap, born, used, reaped>>

MarkCgroupOwnedStep(p, g) ==
  /\ Unlocked
  /\ MarkCgroupOwnedAdmits(store, g)
  /\ Commit(p, MarkCgroupOwned(store, g), "none", {})
  /\ UNCHANGED <<snap, born, used, reaped>>

MarkNetworkOwnedStep(p, g) ==
  /\ Unlocked
  /\ MarkNetworkOwnedAdmits(store, g)
  /\ Commit(p, MarkNetworkOwned(store, g), "none", {})
  /\ UNCHANGED <<snap, born, used, reaped>>

ClearCgroupOwnershipStep(p, g) ==
  /\ Unlocked
  /\ ClearCgroupOwnershipAdmits(store, g)
  /\ Commit(p, [store EXCEPT !.cg = NoGen], "none", {})
  /\ UNCHANGED <<snap, born, used, reaped>>

ClearNetworkOwnershipStep(p, g) ==
  /\ Unlocked
  /\ ClearNetworkOwnershipAdmits(store, g)
  /\ Commit(p, [store EXCEPT !.net = NoGen], "none", {})
  /\ UNCHANGED <<snap, born, used, reaped>>

\* Mutant: the sidecars are retired before the identity is in the record.
TeardownRetiresFirst(p) ==
  /\ Unlocked
  /\ StoppedRevisionCurrent(store, snap[p].rev)
  /\ store.rec.sgv \/ MigratesSnapshot(store)
  /\ lock' = Take(p, "retire", {"exit", "cap"})
  /\ UNCHANGED <<store, snap, born, used, reaped>>

\* readStoppedGenerationTeardownSnapshotForRevision: every reader of the exit
\* identity policy goes through it, and it migrates or retires on the way.
TeardownSnapshotStep(p) ==
  /\ Unlocked
  /\ StoppedRevisionCurrent(store, snap[p].rev)
  /\ \/ store.rec.sgv /\ lock' = Take(p, "retire", {"exit", "cap"}) /\ UNCHANGED store
     \/ MigratesSnapshot(store)
          /\ Commit(p, migrateStoppedGenerationSnapshot(store), "retire", {"exit", "cap"})
     \/ AuthorizesLegacyDNS(store)
          /\ Commit(p, authorizeLegacyDNSCleanupSnapshot(store), "none", {})
  /\ UNCHANGED <<snap, born, used, reaped>>

\* DeleteIfNotRunning: .exit first, remembered for a restore.
DeleteIfNotRunningStep(p) ==
  /\ Unlocked
  /\ DeleteIfNotRunningAdmits(store)
  /\ \E w \in WriteOutcomes :
       /\ store' = Written(w, store, [store EXCEPT !.exit = NoGen])
       /\ lock' = IF w = "ok"
                  THEN [Take(p, "delete", {}) EXCEPT !.was = store.exit]
                  ELSE Free
  /\ UNCHANGED <<snap, born, used, reaped>>

\* Delete: the rollback of an admission that failed before anything ran.
DeleteStep(p) ==
  /\ Unlocked
  /\ store.rec.status = "created" /\ used = {}
  /\ DeleteAdmits(store)
  /\ lock' = Take(p, "delete", {})
  /\ UNCHANGED <<store, snap, born, used, reaped>>

-----------------------------------------------------------------------------
(* The rest of an operation, under the lock it holds                       *)

\* removeStateFileDurable(json): unlink, then the two sidecars.
RemoveJSON ==
  /\ lock.job = "delete"
  /\ \/ /\ store' = [store EXCEPT !.rec = NoContainer]
        /\ lock' = [lock EXCEPT !.job = "sidecars", !.todo = {"exit", "cap"}]
     \/ /\ lock' = IF lock.was = NoGen THEN Free ELSE [lock EXCEPT !.job = "restore"]
        /\ UNCHANGED store
  /\ UNCHANGED <<snap, born, used, reaped>>

\* The removal of one sidecar; an error ends the operation, and a deletion
\* that fails here restores the .exit it removed.
RemoveSidecar(f) ==
  /\ lock.job \in {"clear", "retire", "sidecars"}
  /\ f \in lock.todo
  /\ lock.job = "retire" /\ f = "cap" => "exit" \notin lock.todo
  /\ \E w \in WriteOutcomes :
       \* the two unlinks of a deletion share one fsync, after the second
       /\ w = "unsynced" /\ lock.job = "sidecars" => lock.todo = {f}
       /\ store' = Written(w, store,
                     IF f = "exit" THEN [store EXCEPT !.exit = NoGen]
                                   ELSE [store EXCEPT !.cap = FALSE])
       /\ lock' = CASE w = "ok" /\ lock.todo # {f} -> [lock EXCEPT !.todo = @ \ {f}]
                    [] w # "ok" /\ lock.was # NoGen
                         -> [lock EXCEPT !.job = "restore", !.todo = {}]
                    [] OTHER -> Free
  /\ UNCHANGED <<snap, born, used, reaped>>

\* writeExitedIdentity after a failed deletion.
RestoreExit ==
  /\ lock.job = "restore"
  /\ \E w \in WriteOutcomes :
       store' = Written(w, store, [store EXCEPT !.exit = lock.was])
  /\ lock' = Free
  /\ UNCHANGED <<snap, born, used, reaped>>

\* A process dies: the kernel drops its flock, its snapshot is gone.
Crash(p) ==
  /\ snap' = [snap EXCEPT ![p] = NoContainer]
  /\ lock' = IF lock.by = p THEN Free ELSE lock
  /\ UNCHANGED <<store, born, used, reaped>>

ClientStep(p) ==
  \/ Get(p) \/ Create(p) \/ Save(p)
  \/ \E g \in Gens :
       \/ MarkRunningStep(p, g)
       \/ \E code \in {Unknown} \cup Codes : MarkStoppedStep(p, g, code)
       \/ MarkCgroupOwnedStep(p, g) \/ ClearCgroupOwnershipStep(p, g)
       \/ MarkNetworkOwnedStep(p, g) \/ ClearNetworkOwnershipStep(p, g)
  \/ MarkStoppedIfCreatedStep(p) \/ TeardownSnapshotStep(p)
  \/ DeleteIfNotRunningStep(p) \/ DeleteStep(p)

HolderStep ==
  RemoveJSON \/ (\E f \in {"exit", "cap"} : RemoveSidecar(f)) \/ RestoreExit

Next == HolderStep \/ (\E p \in Clients : ClientStep(p) \/ Crash(p))

Spec == Init /\ [][Next]_vars
SpecLegacy == InitLegacy /\ [][Next]_vars

-----------------------------------------------------------------------------
(* Properties                                                              *)

\* Every pending cleanup token names the generation the record is about: the
\* one running, or the stopped one whose exact identity a cleanup can read
\* back.  A token that does not is never cleaned and blocks MarkRunning and
\* DeleteIfNotRunning forever; a token that outlives its record is a leak.
TokensNameCurrentGeneration ==
  \A tok \in {store.cg, store.net} \ {NoGen} :
    \/ RunningAs(store, tok)
    \/ store.rec.status = "stopped" /\ TeardownIdentity(store) = tok

\* A definite exit code on a stopped record is the one its own generation was
\* reaped with: the -1 upgrade of MarkStoppedIfIdentity cannot be taken by the
\* late parent of an earlier generation.
StoppedCodeIsOwn ==
  LET g == TeardownIdentity(store) IN
  store.rec.status = "stopped" /\ store.rec.code # Unknown /\ g # NoGen
    => store.rec.code = reaped[g]

\* A record bound to a running generation leaves that state only for a stop
\* that carries the identity of this generation, whoever writes it: no stale
\* Save, MarkRunning or deletion can skip or rename the stop.
RunningEndsInOwnStop ==
  [][\A g \in Gens : RunningAs(store, g) =>
       \/ RunningAs(store', g)
       \/ store'.rec.status = "stopped" /\ TeardownIdentity(store') = g]_vars

\* The revision is a CAS token: every change of the record raises it, except a
\* same-revision migration of a stopped record, which keeps the lifecycle.
RevisionOrdersLifecycle ==
  [][Exists(store) /\ store'.rec # store.rec /\ store'.rec.status # "absent" =>
       \/ store'.rec.rev > store.rec.rev
       \/ /\ store'.rec.rev = store.rec.rev
          /\ store.rec.status = "stopped" /\ store'.rec.status = "stopped"
          /\ store'.rec.code = store.rec.code]_vars

\* A deleted record stays deleted: a client holding an old snapshot cannot
\* bring it back with Save.
NoResurrection == [][born /\ ~Exists(store) => ~Exists(store')]_vars

\* While a record stays stopped the exact identity that authorises its
\* teardown neither changes nor gets lost, whoever migrates, retires, crashes or
\* fails to write.  Records in the current format have no exception.  Of what an
\* older release left, with the identity in .exit, two steps lose it and one
\* brings it back: a deletion takes .exit before the JSON and writes it back when
\* it fails, and a Save or a late exit code stamps the record with the state
\* schema but no stopped-generation schema, after which .exit is not believed.
\* No generation ever gets the authority of another.
StoppedAuthorityStable ==
  [][store.rec.status = "stopped" /\ store'.rec.status = "stopped" =>
       \/ TeardownIdentity(store') = TeardownIdentity(store)
       \/ /\ ~store.rec.sgv /\ TeardownIdentity(store') = NoGen
          /\ \/ Unlocked /\ store.exit # NoGen /\ store'.exit = NoGen
             \/ ~store.rec.sv /\ store'.rec.sv /\ ~store'.rec.sgv
       \/ ~store.rec.sgv /\ TeardownIdentity(store) = NoGen /\ lock.job = "restore"]_vars

\* The generation a record is about: the one running, or the one whose exact
\* identity a teardown of the stopped record reads back.
SubjectOf(s) ==
  CASE s.rec.status = "running" -> s.rec.gen
    [] s.rec.status = "stopped" -> TeardownIdentity(s)
    [] OTHER -> NoGen

PhaseOf(s, b) ==
  IF Exists(s) THEN s.rec.status ELSE IF b THEN "deleted" ELSE "none"

OwedIn(s) ==
  {r \in {"cgroup", "network"} : (IF r = "cgroup" THEN s.cg ELSE s.net) # NoGen}

Contract == INSTANCE LifecycleContract
              WITH phase <- PhaseOf(store, born), subject <- SubjectOf(store),
                   owed <- OwedIn(store)

\* The store implements its contract: locks, revisions, crashes and failed
\* writes never show more than the abstract life of one container, in which
\* no generation is bound and no record removed while cleanup is owed.
ImplementsContract == Contract!Spec
=============================================================================
