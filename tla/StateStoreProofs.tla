-------------------------- MODULE StateStoreProofs --------------------------
(***************************************************************************)
(* Proofs about the records minictl keeps in files: the state store of a   *)
(* container, the event log with its followers, and a container's log.     *)
(*                                                                         *)
(* StateStore: for every set of clients, generations and exit codes and    *)
(* every revision limit, from a fresh state directory (Spec).              *)
(*                                                                         *)
(* TokensNameCurrentGeneration is not inductive: whether a cleanup token   *)
(* can be read back depends on the stopped-generation metadata of the JSON *)
(* record, and a stale Save keeps that metadata right only because equal   *)
(* revisions mean equal lifecycle fields.  IInv adds both facts, and what  *)
(* the lock holder has already checked when its next unlink is due.        *)
(*                                                                         *)
(* EventLog: for every number of writers and every bound on records,       *)
(* events, aborted and torn appends and power losses.  LogIsIntact speaks  *)
(* of the directory as it is; EvIInv says the same of every state it may   *)
(* come back with, and of a file in memory and on disk at once.            *)
(*                                                                         *)
(* ContainerLogs: for every number of maintenance calls, writes, opens and *)
(* crashes.  LcIInv describes a file in the middle of a shift, and says of *)
(* every write without a cause that no call is about to remove its file.   *)
(***************************************************************************)
EXTENDS StateStore, ContainerStoreProofs, EventLog, ContainerLogs, SequenceTheorems, TLAPS

\* A definite exit code of an exactly identified generation is its own.
OwnCode(s, codes) ==
  s.rec.status = "stopped" /\ s.rec.ident # NoGen /\ s.rec.code # Unknown
    => s.rec.code = codes[s.rec.ident]

\* A snapshot is a past state of the record: never ahead of it, and equal to
\* it in every lifecycle field when the revisions are equal.
SnapOK(c, s) ==
  /\ Shape(c)
  /\ c.status # "absent" /\ Exists(s) =>
       /\ c.rev <= s.rec.rev
       /\ c.rev = s.rec.rev => SameLifecycle(c, s.rec)

LockOK ==
  /\ lock.was = NoGen
  /\ lock.by = Nobody => lock = Free
  /\ lock.job = "delete" => DeleteIfNotRunningAdmits(store)

FreshOK == ~born => store = EmptyStore /\ \A p \in Clients : snap[p].status = "absent"

IInv ==
  /\ TypeOK
  /\ GoodStore(store)
  /\ OwnCode(store, reaped)
  /\ \A p \in Clients : SnapOK(snap[p], store)
  /\ LockOK
  /\ FreshOK

-----------------------------------------------------------------------------
(* The inductive invariant                                                 *)

\* Any operation that replaces the record under the lock by a good one that
\* is newer, or by one of the same revision and lifecycle, keeps IInv.
LEMMA CommitKeepsIInv ==
  ASSUME IInv, Exists(store), NEW p \in Clients,
         NEW new, GoodStore(new), Exists(new), OwnCode(new, reaped),
         \/ new.rec.rev > store.rec.rev
         \/ new.rec.rev = store.rec.rev /\ SameLifecycle(new.rec, store.rec),
         NEW job \in Jobs \ {"delete"}, NEW todo \in SUBSET {"exit", "cap"},
         Commit(p, new, job, todo),
         UNCHANGED <<snap, born, reaped>>, used' \in SUBSET Gens
  PROVE  IInv'
  <1>1. store' \in {store, new}
    BY DEF Commit, Written
  <1>2. GoodStore(store') /\ Exists(store')
    BY <1>1 DEF IInv
  <1>3. lock' \in {Free, Take(p, job, todo)}
    BY DEF Commit
  <1>4. TypeOK'
    BY <1>2, <1>3 DEF IInv, TypeOK, GoodStore, Locks, Free, Take, GenOrNone, Jobs
  <1>5. OwnCode(store, reaped)' 
    BY <1>1 DEF IInv, OwnCode
  <1>6. ASSUME NEW q \in Clients PROVE SnapOK(snap[q], store)'
    <2>1. Shape(snap[q]) /\ snap[q] \in Container
      BY DEF IInv, SnapOK, TypeOK
    <2>2. store.rec.rev \in Nat /\ new.rec.rev \in Nat /\ snap[q].rev \in Nat
      BY <2>1 DEF IInv, GoodStore, Stores, Container
    <2>3. snap[q].status # "absent" => 
            /\ snap[q].rev <= store.rec.rev
            /\ snap[q].rev = store.rec.rev => SameLifecycle(snap[q], store.rec)
      BY DEF IInv, SnapOK
    <2> QED BY <1>1, <2>1, <2>2, <2>3 DEF SnapOK, SameLifecycle
  <1>7. LockOK'
    BY <1>3, ClientsAssumption DEF LockOK, Free, Take
  <1>8. born
    BY DEF IInv, FreshOK, Exists, EmptyStore, NoContainer
  <1> QED BY <1>2, <1>4, <1>5, <1>6, <1>7, <1>8 DEF IInv, FreshOK

\* Steps that leave the record alone and end with a free lock, or keep it.
LEMMA QuietKeepsIInv ==
  ASSUME IInv, UNCHANGED <<store, born, reaped>>, used' \in SUBSET Gens,
         lock' \in Locks, LockOK',
         snap' \in [Clients -> Container],
         \A p \in Clients : snap'[p] \in {snap[p], NoContainer, store.rec},
         ~Exists(store) => \A p \in Clients : snap'[p] \in {snap[p], NoContainer}
  PROVE  IInv'
  <1>1. TypeOK' /\ GoodStore(store)' /\ OwnCode(store, reaped)'
    BY DEF IInv, TypeOK, GoodStore, OwnCode, Shape, Subject, Stores, Container
  <1>2. ASSUME NEW p \in Clients PROVE SnapOK(snap[p], store)'
    <2>1. CASE snap'[p] = snap[p]
      BY <2>1 DEF IInv, SnapOK, Exists
    <2>2. CASE snap'[p] = NoContainer
      BY <2>2 DEF SnapOK, Shape, NoContainer
    <2>3. CASE snap'[p] = store.rec
      BY <2>3 DEF IInv, SnapOK, GoodStore, Stores, Container, SameLifecycle
    <2> QED BY <2>1, <2>2, <2>3
  <1>3. FreshOK'
    BY DEF IInv, FreshOK, EmptyStore, NoContainer, Exists
  <1> QED BY <1>1, <1>2, <1>3 DEF IInv

\* A fresh state directory satisfies IInv.
LEMMA InitIInv == Init => IInv
  <1> SUFFICES ASSUME Init PROVE IInv OBVIOUS
  <1>1. NoContainer \in Container /\ Shape(NoContainer) /\ NoContainer.status = "absent"
    BY DEF NoContainer, Container, Status, GenOrNone, Shape, Unknown
  <1>2. store \in Stores /\ store.rec = NoContainer /\ store.cg = NoGen /\ store.net = NoGen
        /\ store.exit = NoGen /\ ~store.cap
    BY <1>1 DEF Init, EmptyStore, Stores, GenOrNone
  <1>3. TypeOK
    BY <1>1, <1>2 DEF Init, InitVars, TypeOK, Free, Locks, Jobs, GenOrNone
  <1>4. GoodStore(store) /\ OwnCode(store, reaped)
    BY <1>1, <1>2 DEF GoodStore, OwnCode
  <1>5. \A p \in Clients : SnapOK(snap[p], store)
    BY <1>1, <1>2 DEF Init, InitVars, SnapOK, Exists
  <1>6. LockOK
    BY DEF Init, InitVars, LockOK, Free
  <1>7. FreshOK
    BY <1>1 DEF Init, InitVars, FreshOK
  <1> QED BY <1>3, <1>4, <1>5, <1>6, <1>7 DEF IInv

\* A client step keeps IInv: the guards of each operation, read under the
\* lock, give the hypotheses of the lemmas above.
LEMMA ClientKeepsIInv ==
  ASSUME IInv, NEW p \in Clients, ClientStep(p)
  PROVE  IInv'
  <1> USE DEF IInv
  <1>0. /\ store \in Stores /\ store.rec \in Container /\ store.rec.rev \in Nat
        /\ store.rec.status \in Status /\ store.rec.gen \in GenOrNone
        /\ store.rec.ident \in GenOrNone
        /\ store.rec.code \in Codes \cup {Unknown, 0, 1}
        /\ lock \in Locks /\ snap[p] \in Container /\ used \in SUBSET Gens
        /\ GoodStore(store) /\ LockOK /\ Shape(store.rec)
    BY DEF TypeOK, Stores, Container, GoodStore
  <1>1. CASE Get(p)
    BY <1>0, <1>1, QuietKeepsIInv DEF Get, TypeOK, LockOK
  <1>2. CASE Create(p)
    <2> DEFINE c == [NoContainer EXCEPT !.status = "created"]
               t == saveContainerCAS(store, c)
    <2>1. store = EmptyStore /\ \A q \in Clients : snap[q].status = "absent"
      BY <1>2 DEF Create, FreshOK
    <2>2. c \in Container /\ c.status = "created" /\ c.gen = NoGen
      BY DEF NoContainer, Container, Status, GenOrNone, Unknown
    <2>3. t = writeContainerRevision(store, c, 1)
      BY <2>1 DEF saveContainerCAS, Exists, EmptyStore, NoContainer
    <2>4. store.cg = NoGen /\ store.net = NoGen
      BY <2>1 DEF EmptyStore
    <2> HIDE DEF c
    <2>5. GoodStore(t) /\ t.rec.status = "created"
      BY <1>0, <2>2, <2>3, <2>4, WriteGood, WriteFields DEF SameLifecycle
    <2> HIDE DEF t
    <2>6. /\ \/ store' = store /\ ~born'
             \/ store' = t /\ born'
          /\ born' \in BOOLEAN
      BY <1>2 DEF Create, Written, WriteOutcomes, c, t
    <2>7. CASE store' = store /\ ~born'
      <3>1. UNCHANGED born
        BY <1>2, <2>6, <2>7 DEF Create, TypeOK
      <3> QED BY <1>0, <1>2, <2>7, <3>1, QuietKeepsIInv DEF Create, TypeOK, LockOK
    <2>8. CASE store' = t /\ born'
      <3>1. TypeOK' /\ GoodStore(store)' /\ OwnCode(store, reaped)'
        BY <1>2, <2>5, <2>6, <2>8 DEF Create, TypeOK, GoodStore, OwnCode
      <3>2. \A q \in Clients : SnapOK(snap[q], store)'
        BY <1>2, <2>1 DEF Create, SnapOK
      <3>3. LockOK'
        BY <1>0, <1>2 DEF Create, LockOK, Unlocked, Free
      <3> QED BY <2>8, <3>1, <3>2, <3>3 DEF FreshOK
    <2> QED BY <2>6, <2>7, <2>8
  <1>3. CASE Save(p)
    <2>1. SnapOK(snap[p], store) /\ snap[p].status # "absent" /\ snap[p].rev >= 1
      BY <1>3 DEF Save, SnapOK, Shape
    <2>2. Exists(store) /\ snap[p].rev = store.rec.rev
      BY <1>3, <2>1 DEF Save, saveContainerCASAdmits
    <2>3. SameLifecycle(snap[p], store.rec)
      BY <2>1, <2>2 DEF SnapOK
    <2> DEFINE t == saveContainerCAS(store, snap[p])
    <2>4. t = writeContainerRevision(store, snap[p], store.rec.rev + 1)
      BY <2>2 DEF saveContainerCAS
    <2>5. /\ snap[p].status = "running" <=> snap[p].gen # NoGen
          /\ store.cg # NoGen \/ store.net # NoGen =>
               Subject(store.rec) = (IF snap[p].status = "running"
                                     THEN snap[p].gen ELSE store.rec.ident)
                 /\ snap[p].status \in {"running", "stopped"}
      BY <1>0, <2>1, <2>3 DEF SameLifecycle, Shape, GoodStore, Subject, Status
    <2>6. GoodStore(t)
      BY <1>0, <2>1, <2>4, <2>5, WriteGood
    <2>7. SameLifecycle(t.rec, snap[p]) /\ t.rec.rev = store.rec.rev + 1
          /\ t.rec.ident = (IF snap[p].status = "stopped" THEN store.rec.ident ELSE NoGen)
      BY <1>0, <2>4, WriteFields
    <2> HIDE DEF t
    <2>8. OwnCode(t, reaped) /\ Exists(t) /\ t.rec.rev > store.rec.rev
      BY <1>0, <2>1, <2>3, <2>7 DEF OwnCode, SameLifecycle, Exists
    <2>9. Commit(p, t, "none", {})
      BY <1>3 DEF Save, t
    <2> QED BY <1>0, <1>3, <2>2, <2>6, <2>8, <2>9, CommitKeepsIInv DEF Save, Jobs
  <1>4. ASSUME NEW g \in Gens, MarkRunningStep(p, g) PROVE IInv'
    <2>0. used' \in SUBSET Gens
      BY <1>0, <1>4 DEF MarkRunningStep
    <2>1. CASE MarkRunningAdmits(store, g) /\ Commit(p, MarkRunning(store, g), "clear", {"exit"})
      <3> DEFINE c == [store.rec EXCEPT !.status = "running", !.gen = g, !.code = 0]
                 t == MarkRunning(store, g)
      <3>1. c \in Container /\ c.status = "running" /\ c.gen = g /\ g # NoGen
        BY <1>0, GensAssumption DEF Container, Status, GenOrNone
      <3>2. t = writeContainerRevision(store, c, store.rec.rev + 1)
        BY DEF MarkRunning
      <3>3. store.cg # NoGen \/ store.net # NoGen => Subject(store.rec) = g
        BY <2>1 DEF MarkRunningAdmits, Subject
      <3> HIDE DEF c
      <3>4. GoodStore(t)
        BY <1>0, <3>1, <3>2, <3>3, WriteGood
      <3>5. SameLifecycle(t.rec, c) /\ t.rec.rev = store.rec.rev + 1
        BY <1>0, <3>1, <3>2, WriteFields
      <3> HIDE DEF t
      <3>6. OwnCode(t, reaped) /\ Exists(t) /\ t.rec.rev > store.rec.rev
        BY <1>0, <3>1, <3>5 DEF OwnCode, SameLifecycle, Exists
      <3>7. Commit(p, t, "clear", {"exit"}) /\ Exists(store)
        BY <2>1 DEF t, MarkRunningAdmits
      <3> QED BY <1>4, <2>0, <3>4, <3>6, <3>7, CommitKeepsIInv DEF MarkRunningStep, Jobs
    <2>2. CASE UNCHANGED <<store, lock>>
      BY <1>0, <1>4, <2>0, <2>2, QuietKeepsIInv DEF MarkRunningStep, TypeOK, LockOK
    <2> QED BY <1>4, <2>1, <2>2 DEF MarkRunningStep
  <1>5. ASSUME NEW g \in Gens, NEW code \in {Unknown} \cup Codes, MarkStoppedStep(p, g, code)
        PROVE  IInv'
    <2> DEFINE t == MarkStoppedIfIdentity(store, g, code)
               todo == IF store.rec.status = "running" THEN {"exit"} ELSE {}
    <2>0. code \in Codes \cup {Unknown, 0, 1} /\ todo \in SUBSET {"exit", "cap"}
          /\ Exists(store)
      BY <1>5 DEF MarkStoppedStep, UpgradesExitCode, StopsRunning, RunningAs, Exists
    <2>1. code = Unknown \/ code = reaped[g]
      BY <1>5 DEF MarkStoppedStep
    <2>2. CASE StopsRunning(store, g)
      <3>1. /\ GoodStore(t) /\ t.rec.status = "stopped" /\ t.rec.code = code
            /\ t.rec.ident = g /\ t.rec.rev = store.rec.rev + 1
        BY <1>0, <2>0, <2>2, StopGood DEF StopsRunning
      <3> HIDE DEF t, todo
      <3>2. OwnCode(t, reaped) /\ Exists(t) /\ t.rec.rev > store.rec.rev
        BY <1>0, <2>1, <3>1 DEF OwnCode, Exists
      <3>3. Commit(p, t, "clear", todo)
        BY <1>5 DEF MarkStoppedStep, t, todo
      <3> QED BY <1>0, <1>5, <2>0, <3>1, <3>2, <3>3, CommitKeepsIInv DEF MarkStoppedStep, Jobs
    <2>3. CASE UpgradesExitCode(store, g, code)
      <3> DEFINE c == [store.rec EXCEPT !.code = code]
      <3>1. store.rec.status = "stopped" /\ store.rec.ident = g
        BY <1>0, <2>3, GensAssumption
           DEF UpgradesExitCode, readCurrentExitedIdentity, GoodStore, Shape, GenOrNone
      <3>2. c \in Container /\ c.status = "stopped" /\ c.gen = NoGen /\ c.code = code
        BY <1>0, <2>0, <3>1 DEF Container, Shape
      <3>3. t = writeContainerRevision(store, c, store.rec.rev + 1)
        BY <3>1 DEF MarkStoppedIfIdentity
      <3>4. Subject(store.rec) = store.rec.ident
        BY <3>1 DEF Subject
      <3> HIDE DEF c
      <3>5. GoodStore(t)
        BY <1>0, <3>2, <3>3, <3>4, WriteGood
      <3>6. SameLifecycle(t.rec, c) /\ t.rec.rev = store.rec.rev + 1 /\ t.rec.ident = g
        BY <1>0, <3>1, <3>2, <3>3, WriteFields
      <3> HIDE DEF t, todo
      <3>7. OwnCode(t, reaped) /\ Exists(t) /\ t.rec.rev > store.rec.rev
        BY <1>0, <2>1, <3>2, <3>6 DEF OwnCode, Exists, SameLifecycle
      <3>8. Commit(p, t, "clear", todo)
        BY <1>5 DEF MarkStoppedStep, t, todo
      <3> QED BY <1>0, <1>5, <2>0, <3>5, <3>7, <3>8, CommitKeepsIInv DEF MarkStoppedStep, Jobs
    <2> QED BY <1>5, <2>2, <2>3 DEF MarkStoppedStep
  <1>6. CASE MarkStoppedIfCreatedStep(p)
    <2> DEFINE c == [store.rec EXCEPT !.status = "stopped", !.code = 1]
               t == MarkStoppedIfCreated(store)
    <2>1. /\ store.rec.status = "created" /\ store.rec.gen = NoGen /\ store.rec.ident = NoGen
          /\ store.cg = NoGen /\ store.net = NoGen /\ Exists(store)
      BY <1>0, <1>6 DEF MarkStoppedIfCreatedStep, MarkStoppedIfCreatedAdmits, Shape, Exists
    <2>2. c \in Container /\ c.status = "stopped" /\ c.gen = NoGen
      BY <1>0, <2>1 DEF Container, Status
    <2>3. t = writeContainerRevision(store, c, store.rec.rev + 1)
      BY DEF MarkStoppedIfCreated
    <2> HIDE DEF c
    <2>4. GoodStore(t)
      BY <1>0, <2>1, <2>2, <2>3, WriteGood
    <2>5. SameLifecycle(t.rec, c) /\ t.rec.rev = store.rec.rev + 1 /\ t.rec.ident = NoGen
      BY <1>0, <2>1, <2>2, <2>3, WriteFields
    <2> HIDE DEF t
    <2>6. OwnCode(t, reaped) /\ Exists(t) /\ t.rec.rev > store.rec.rev
      BY <1>0, <2>2, <2>5 DEF OwnCode, Exists, SameLifecycle
    <2>7. Commit(p, t, "none", {})
      BY <1>6 DEF MarkStoppedIfCreatedStep, t
    <2> QED BY <1>0, <1>6, <2>1, <2>4, <2>6, <2>7, CommitKeepsIInv
            DEF MarkStoppedIfCreatedStep, Jobs
  <1>7. ASSUME NEW g \in Gens, MarkCgroupOwnedStep(p, g) PROVE IInv'
    <2> DEFINE t == MarkCgroupOwned(store, g)
    <2>1. RunningAs(store, g) /\ Exists(store)
      BY <1>7 DEF MarkCgroupOwnedStep, MarkCgroupOwnedAdmits, RunningAs, Exists
    <2>2. GoodStore(t) /\ t.rec = store.rec
      BY <1>0, <2>1 DEF MarkCgroupOwned, GoodStore, Stores, GenOrNone, Subject, RunningAs
    <2> HIDE DEF t
    <2>3. OwnCode(t, reaped) /\ Exists(t) /\ SameLifecycle(t.rec, store.rec)
      BY <2>1, <2>2 DEF OwnCode, Exists, SameLifecycle
    <2>4. Commit(p, t, "none", {})
      BY <1>7 DEF MarkCgroupOwnedStep, t
    <2> QED BY <1>0, <1>7, <2>1, <2>2, <2>3, <2>4, CommitKeepsIInv DEF MarkCgroupOwnedStep, Jobs
  <1>8. ASSUME NEW g \in Gens, MarkNetworkOwnedStep(p, g) PROVE IInv'
    <2> DEFINE t == MarkNetworkOwned(store, g)
    <2>1. RunningAs(store, g) /\ Exists(store)
      BY <1>8 DEF MarkNetworkOwnedStep, MarkNetworkOwnedAdmits, RunningAs, Exists
    <2>2. GoodStore(t) /\ t.rec = store.rec
      BY <1>0, <2>1 DEF MarkNetworkOwned, GoodStore, Stores, GenOrNone, Subject, RunningAs
    <2> HIDE DEF t
    <2>3. OwnCode(t, reaped) /\ Exists(t) /\ SameLifecycle(t.rec, store.rec)
      BY <2>1, <2>2 DEF OwnCode, Exists, SameLifecycle
    <2>4. Commit(p, t, "none", {})
      BY <1>8 DEF MarkNetworkOwnedStep, t
    <2> QED BY <1>0, <1>8, <2>1, <2>2, <2>3, <2>4, CommitKeepsIInv DEF MarkNetworkOwnedStep, Jobs
  <1>9. ASSUME NEW g \in Gens,
               ClearCgroupOwnershipStep(p, g) \/ ClearNetworkOwnershipStep(p, g)
        PROVE  IInv'
    <2> DEFINE t == IF ClearCgroupOwnershipStep(p, g) THEN [store EXCEPT !.cg = NoGen]
                                                      ELSE [store EXCEPT !.net = NoGen]
    <2>1. Exists(store)
      BY <1>9 DEF ClearCgroupOwnershipStep, ClearCgroupOwnershipAdmits,
                  ClearNetworkOwnershipStep, ClearNetworkOwnershipAdmits
    <2>2. GoodStore(t) /\ t.rec = store.rec
      BY <1>0 DEF GoodStore, Stores, GenOrNone
    <2>3. Commit(p, t, "none", {}) /\ UNCHANGED <<snap, born, used, reaped>>
      BY <1>9 DEF ClearCgroupOwnershipStep, ClearNetworkOwnershipStep
    <2> HIDE DEF t
    <2>4. OwnCode(t, reaped) /\ Exists(t) /\ SameLifecycle(t.rec, store.rec)
      BY <2>1, <2>2 DEF OwnCode, Exists, SameLifecycle
    <2> QED BY <1>0, <2>1, <2>2, <2>3, <2>4, CommitKeepsIInv DEF Jobs
  <1>10. CASE TeardownSnapshotStep(p)
    <2>1. store.rec.status = "stopped" /\ Exists(store)
      BY <1>10 DEF TeardownSnapshotStep, StoppedRevisionCurrent, Exists
    <2>2. ~MigratesSnapshot(store) /\ ~AuthorizesLegacyDNS(store)
      BY <1>0, <2>1 DEF GoodStore, Shape, MigratesSnapshot, AuthorizesLegacyDNS,
                        LegacyIdentity, LegacyAuthorized
    <2>3. lock' = Take(p, "retire", {"exit", "cap"}) /\ UNCHANGED store
      BY <1>10, <2>2 DEF TeardownSnapshotStep
    <2>4. lock' \in Locks /\ LockOK'
      BY <2>3, ClientsAssumption DEF Take, Locks, Jobs, GenOrNone, LockOK
    <2> QED BY <1>0, <1>10, <2>3, <2>4, QuietKeepsIInv DEF TeardownSnapshotStep, TypeOK
  <1>11. CASE DeleteIfNotRunningStep(p)
    <2>1. [store EXCEPT !.exit = NoGen] = store
      BY <1>0 DEF GoodStore, Stores
    <2>2. UNCHANGED store
      BY <1>11, <2>1 DEF DeleteIfNotRunningStep, Written
    <2>3. lock' \in {Free, Take(p, "delete", {})}
      BY <1>0, <1>11 DEF DeleteIfNotRunningStep, GoodStore, Take
    <2>4. lock' \in Locks /\ LockOK'
      BY <1>11, <2>2, <2>3, ClientsAssumption
         DEF DeleteIfNotRunningStep, Take, Free, Locks, Jobs, GenOrNone, LockOK
    <2> QED BY <1>0, <1>11, <2>2, <2>4, QuietKeepsIInv DEF DeleteIfNotRunningStep, TypeOK
  <1>12. CASE DeleteStep(p)
    <2>1. lock' = Take(p, "delete", {}) /\ UNCHANGED store
      BY <1>12 DEF DeleteStep
    <2>2. DeleteIfNotRunningAdmits(store)
      BY <1>12 DEF DeleteStep, DeleteAdmits, DeleteIfNotRunningAdmits, Exists
    <2>3. lock' \in Locks /\ LockOK'
      BY <2>1, <2>2, ClientsAssumption DEF Take, Locks, Jobs, GenOrNone, LockOK
    <2> QED BY <1>0, <1>12, <2>3, QuietKeepsIInv DEF DeleteStep, TypeOK
  <1> QED BY <1>1, <1>2, <1>3, <1>4, <1>5, <1>6, <1>7, <1>8, <1>9, <1>10, <1>11, <1>12
          DEF ClientStep

\* The rest of an operation under its lock: in a fresh directory only the
\* removal of the record itself changes anything.
LEMMA HolderKeepsIInv ==
  ASSUME IInv, HolderStep
  PROVE  IInv'
  <1> USE DEF IInv
  <1>0. store \in Stores /\ lock \in Locks /\ GoodStore(store) /\ LockOK /\ used \in SUBSET Gens
        /\ Free \in Locks
    BY DEF TypeOK, Free, Locks, Jobs, GenOrNone
  <1>1. CASE RemoveJSON
    <2>1. DeleteIfNotRunningAdmits(store) /\ lock.by # Nobody /\ lock.was = NoGen
      BY <1>0, <1>1 DEF RemoveJSON, LockOK, Free
    <2>2. CASE /\ store' = [store EXCEPT !.rec = NoContainer]
               /\ lock' = [lock EXCEPT !.job = "sidecars", !.todo = {"exit", "cap"}]
      <3>1. NoContainer \in Container /\ Shape(NoContainer) /\ NoContainer.status = "absent"
        BY DEF NoContainer, Container, Status, GenOrNone, Shape, Unknown
      <3>2. /\ store' \in Stores /\ store'.rec = NoContainer /\ store'.cg = NoGen
            /\ store'.net = NoGen /\ store'.exit = NoGen /\ ~store'.cap
        BY <1>0, <2>1, <2>2, <3>1 DEF DeleteIfNotRunningAdmits, Stores, GoodStore
      <3>3. lock' \in Locks /\ LockOK'
        BY <1>0, <2>1, <2>2 DEF Locks, Jobs, LockOK
      <3>4. TypeOK' /\ GoodStore(store)' /\ OwnCode(store, reaped)'
        BY <1>1, <3>1, <3>2, <3>3 DEF TypeOK, RemoveJSON, GoodStore, OwnCode
      <3>5. \A p \in Clients : SnapOK(snap[p], store)'
        BY <1>1, <3>1, <3>2 DEF RemoveJSON, SnapOK, Exists
      <3>6. FreshOK'
        BY <1>1, <2>1 DEF RemoveJSON, FreshOK, DeleteIfNotRunningAdmits, Exists,
                          EmptyStore, NoContainer
      <3> QED BY <3>3, <3>4, <3>5, <3>6
    <2>3. CASE lock' = Free /\ UNCHANGED store
      <3>1. LockOK'
        BY <2>3 DEF LockOK, Free
      <3> QED BY <1>0, <1>1, <2>3, <3>1, QuietKeepsIInv DEF RemoveJSON, TypeOK
    <2> QED BY <1>1, <2>1, <2>2, <2>3 DEF RemoveJSON
  <1>2. ASSUME NEW f \in {"exit", "cap"}, RemoveSidecar(f) PROVE IInv'
    <2>1. lock.by # Nobody /\ lock.was = NoGen /\ lock.job \in Jobs \ {"delete"}
      BY <1>0, <1>2 DEF RemoveSidecar, LockOK, Free, Jobs
    <2>2. [store EXCEPT !.exit = NoGen] = store /\ [store EXCEPT !.cap = FALSE] = store
      BY <1>0 DEF GoodStore, Stores
    <2>3. UNCHANGED store
      BY <1>2, <2>2 DEF RemoveSidecar, Written
    <2>4. lock' \in {Free, [lock EXCEPT !.todo = @ \ {f}]}
      BY <1>2, <2>1 DEF RemoveSidecar
    <2>5. lock' \in Locks /\ LockOK'
      BY <1>0, <2>1, <2>4 DEF Locks, LockOK, Free
    <2> QED BY <1>0, <1>2, <2>3, <2>5, QuietKeepsIInv DEF RemoveSidecar, TypeOK
  <1>3. CASE RestoreExit
    <2>1. [store EXCEPT !.exit = lock.was] = store
      BY <1>0 DEF GoodStore, Stores, LockOK
    <2>2. UNCHANGED store
      BY <1>3, <2>1 DEF RestoreExit, Written
    <2>3. lock' \in Locks /\ LockOK'
      BY <1>0, <1>3 DEF RestoreExit, LockOK, Free
    <2> QED BY <1>0, <1>3, <2>2, <2>3, QuietKeepsIInv DEF RestoreExit, TypeOK
  <1> QED BY <1>1, <1>2, <1>3 DEF HolderStep

\* A crash drops the flock and the snapshot of the dead process only.
LEMMA CrashKeepsIInv ==
  ASSUME IInv, NEW p \in Clients, Crash(p)
  PROVE  IInv'
  <1>1. lock' \in Locks /\ LockOK'
    BY DEF IInv, TypeOK, Crash, LockOK, Free, Locks, Jobs, GenOrNone
  <1>2. NoContainer \in Container
    BY DEF NoContainer, Container, Status, GenOrNone, Unknown
  <1> QED BY <1>1, <1>2, QuietKeepsIInv DEF Crash, IInv, TypeOK

\* Every step of Next, and a stuttering one, keeps IInv.
LEMMA StepIInv == IInv /\ [Next]_vars => IInv'
  <1> SUFFICES ASSUME IInv, [Next]_vars PROVE IInv' OBVIOUS
  <1>1. CASE Next
    BY <1>1, ClientKeepsIInv, HolderKeepsIInv, CrashKeepsIInv DEF Next
  <1>2. CASE UNCHANGED vars
    BY <1>2 DEF vars, IInv, TypeOK, LockOK, FreshOK
  <1> QED BY <1>1, <1>2

\* IInv holds in every reachable state.
THEOREM Inductive == Spec => []IInv
  BY InitIInv, StepIInv, PTL DEF Spec

-----------------------------------------------------------------------------
(* The theorems                                                            *)

\* Every state of the store is well typed, whatever the interleaving of
\* clients, crashes and failed writes.
THEOREM TypeCorrect == Spec => []TypeOK
  <1>1. IInv => TypeOK
    BY DEF IInv
  <1> QED BY <1>1, Inductive, PTL

\* No cleanup token is ever orphaned: it names the running generation or the
\* stopped generation whose identity the record still authorises.
THEOREM TokensSafe == Spec => []TokensNameCurrentGeneration
  <1>1. IInv => TokensNameCurrentGeneration
    <2> SUFFICES ASSUME IInv, NEW tok \in {store.cg, store.net} \ {NoGen}
                 PROVE  \/ RunningAs(store, tok)
                        \/ store.rec.status = "stopped" /\ TeardownIdentity(store) = tok
      BY DEF TokensNameCurrentGeneration
    <2>1. tok = Subject(store.rec)
      BY DEF IInv, GoodStore
    <2>2. CASE store.rec.status = "running"
      BY <2>1, <2>2 DEF RunningAs, Subject
    <2>3. CASE store.rec.status # "running"
      <3>1. store.rec.status = "stopped"
        BY <2>1, <2>3 DEF IInv, GoodStore, Shape, Subject
      <3> QED BY <2>1, <2>3, <3>1, GoodTeardown DEF IInv, Subject
    <2> QED BY <2>2, <2>3
  <1> QED BY <1>1, Inductive, PTL

\* A definite exit code always belongs to the generation the record names.
THEOREM CodeSafe == Spec => []StoppedCodeIsOwn
  <1>1. IInv => StoppedCodeIsOwn
    BY GoodTeardown DEF IInv, StoppedCodeIsOwn, OwnCode
  <1> QED BY <1>1, Inductive, PTL

-----------------------------------------------------------------------------
(* The store implements LifecycleContract, and the action properties that  *)
(* say what a single file replacement may never do.  Every step of         *)
(* StateStore is first reduced to one of four shapes (RecordStep); the     *)
(* theorems are then facts about those shapes and the invariant IInv.      *)

\* Only sidecar tokens change, each the way its operation may change it.
TokenStep ==
  /\ store'.rec = store.rec
  /\ \/ store'.cg = store.cg /\ store'.net = store.net
     \/ store.rec.status = "running" /\ store'.cg = store.rec.gen /\ store'.net = store.net
     \/ store.rec.status = "running" /\ store'.net = store.rec.gen /\ store'.cg = store.cg
     \/ store.rec.status = "stopped" /\ store'.cg = NoGen /\ store'.net = store.net
     \/ store.rec.status \in {"running", "stopped"}
          /\ store'.net = NoGen /\ store'.cg = store.cg

\* The JSON is replaced by its successor revision and the tokens stay.
RewriteStep ==
  /\ Exists(store) /\ Exists(store')
  /\ store'.cg = store.cg /\ store'.net = store.net
  /\ store'.rec.rev = store.rec.rev + 1
  /\ \/ /\ store'.rec.status = store.rec.status
        /\ Subject(store'.rec) = Subject(store.rec)
     \/ /\ store.rec.status # "running" /\ store.cg = NoGen /\ store.net = NoGen
        /\ store'.rec.status = "running" /\ store'.rec.gen \in Gens
     \/ /\ store.rec.status = "running" /\ store'.rec.status = "stopped"
        /\ store'.rec.ident = store.rec.gen
     \/ /\ store.rec.status = "created" /\ store'.rec.status = "stopped"
        /\ store'.rec.ident = NoGen

CreateStep ==
  /\ ~born /\ ~Exists(store) /\ store'.rec.status = "created"
  /\ store'.cg = NoGen /\ store'.net = NoGen /\ store.cg = NoGen /\ store.net = NoGen

RemoveStep ==
  /\ Exists(store) /\ store.rec.status # "running"
  /\ store'.rec = NoContainer
  /\ store.cg = NoGen /\ store.net = NoGen /\ store'.cg = NoGen /\ store'.net = NoGen

RecordStep ==
  \/ (TokenStep \/ RewriteStep \/ RemoveStep) /\ born' = born
  \/ CreateStep /\ born'

\* A replaced record whose status the write keeps is about the same generation.
LEMMA RewriteKeepsSubject ==
  ASSUME NEW s, GoodStore(s), NEW c \in Container, NEW r \in Nat, r = s.rec.rev + 1,
         Exists(s), c.status = s.rec.status, c.gen = s.rec.gen
  PROVE  LET t == writeContainerRevision(s, c, r) IN
           /\ Exists(t) /\ t.cg = s.cg /\ t.net = s.net /\ t.rec.rev = s.rec.rev + 1
           /\ t.rec.status = s.rec.status /\ Subject(t.rec) = Subject(s.rec)
  BY WriteFields DEF SameLifecycle, Exists, Subject, GoodStore, Shape

\* Every step of the store is a RecordStep.
LEMMA NextRecordStep ==
  ASSUME IInv, Next
  PROVE  RecordStep
  <1>0. /\ GoodStore(store) /\ store \in Stores /\ store.rec \in Container
        /\ store.rec.rev \in Nat /\ Shape(store.rec) /\ LockOK
    BY DEF IInv, GoodStore, Stores, Container
  <1>1. ASSUME NEW p \in Clients, ClientStep(p) PROVE RecordStep
    <2>1. CASE Get(p)
      BY <2>1 DEF Get, RecordStep, TokenStep
    <2>2. CASE Create(p)
      <3> DEFINE c == [NoContainer EXCEPT !.status = "created"]
                 t == saveContainerCAS(store, c)
      <3>1. store = EmptyStore /\ ~born /\ born \in BOOLEAN
        BY <2>2 DEF Create, IInv, FreshOK, TypeOK
      <3>2. c \in Container /\ c.status = "created"
        BY DEF NoContainer, Container, Status, GenOrNone, Unknown
      <3>3. t = writeContainerRevision(store, c, 1)
        BY <3>1 DEF saveContainerCAS, Exists, EmptyStore, NoContainer
      <3> HIDE DEF c
      <3>4. t.rec.status = "created" /\ t.cg = store.cg /\ t.net = store.net
        BY <1>0, <3>2, <3>3, WriteFields DEF SameLifecycle
      <3> HIDE DEF t
      <3>5. /\ \/ store' = store /\ ~born'
               \/ store' = t /\ born'
            /\ born' \in BOOLEAN
        BY <2>2 DEF Create, Written, WriteOutcomes, c, t
      <3>6. CASE store' = store /\ ~born'
        <4>1. born' = born
          BY <3>1, <3>5, <3>6
        <4> QED BY <3>6, <4>1 DEF RecordStep, TokenStep
      <3>7. CASE store' = t /\ born'
        BY <3>1, <3>4, <3>7 DEF RecordStep, CreateStep, Exists, EmptyStore, NoContainer
      <3> QED BY <3>5, <3>6, <3>7
    <2>3. CASE Save(p)
      <3>1. SnapOK(snap[p], store) /\ snap[p].status # "absent" /\ snap[p] \in Container
        BY <2>3 DEF Save, IInv, TypeOK
      <3>2. Exists(store) /\ snap[p].rev = store.rec.rev
        BY <2>3, <3>1 DEF Save, saveContainerCASAdmits, SnapOK, Shape
      <3>3. SameLifecycle(snap[p], store.rec)
        BY <3>1, <3>2 DEF SnapOK
      <3> DEFINE t == saveContainerCAS(store, snap[p])
      <3>4. t = writeContainerRevision(store, snap[p], store.rec.rev + 1)
        BY <3>2 DEF saveContainerCAS
      <3>5. /\ Exists(t) /\ t.cg = store.cg /\ t.net = store.net /\ t.rec.rev = store.rec.rev + 1
            /\ t.rec.status = store.rec.status /\ Subject(t.rec) = Subject(store.rec)
        BY <1>0, <3>1, <3>2, <3>3, <3>4, RewriteKeepsSubject DEF SameLifecycle
      <3>6. store' \in {store, t} /\ born' = born
        BY <2>3 DEF Save, Commit, Written
      <3> HIDE DEF t
      <3> QED BY <3>2, <3>5, <3>6 DEF RecordStep, TokenStep, RewriteStep
    <2>4. ASSUME NEW g \in Gens, MarkRunningStep(p, g) PROVE RecordStep
      <3> DEFINE c == [store.rec EXCEPT !.status = "running", !.gen = g, !.code = 0]
                 t == MarkRunning(store, g)
      <3>1. CASE MarkRunningAdmits(store, g) /\ store' \in {store, t}
        <4>1. c \in Container /\ c.status = "running" /\ c.gen = g
          BY <1>0 DEF Container, Status, GenOrNone
        <4>2. t = writeContainerRevision(store, c, store.rec.rev + 1)
          BY DEF MarkRunning
        <4> HIDE DEF c
        <4>3. /\ t.rec.status = "running" /\ t.rec.gen = g /\ t.rec.rev = store.rec.rev + 1
              /\ t.cg = store.cg /\ t.net = store.net
          BY <1>0, <4>1, <4>2, WriteFields DEF SameLifecycle
        <4> HIDE DEF t
        <4> QED BY <2>4, <3>1, <4>3 DEF MarkRunningStep, MarkRunningAdmits, RecordStep,
                    TokenStep, RewriteStep, Exists, Subject
      <3>2. CASE store' = store
        BY <2>4, <3>2 DEF MarkRunningStep, RecordStep, TokenStep
      <3> QED BY <2>4, <3>1, <3>2 DEF MarkRunningStep, Commit, Written
    <2>5. ASSUME NEW g \in Gens, NEW code \in {Unknown} \cup Codes, MarkStoppedStep(p, g, code)
          PROVE  RecordStep
      <3> DEFINE t == MarkStoppedIfIdentity(store, g, code)
      <3>1. store' \in {store, t} /\ born' = born /\ code \in Codes \cup {Unknown, 0, 1}
        BY <2>5 DEF MarkStoppedStep, Commit, Written
      <3>2. CASE StopsRunning(store, g)
        <4>1. /\ t.rec.status = "stopped" /\ t.rec.ident = g /\ t.rec.rev = store.rec.rev + 1
              /\ RunningAs(store, g)
          BY <1>0, <3>1, <3>2, StopGood DEF StopsRunning
        <4>2. t.cg = store.cg /\ t.net = store.net
          BY <1>0, <4>1 DEF MarkStoppedIfIdentity, writeStoppedContainerNextRevision,
                            RunningAs, Stores
        <4> HIDE DEF t
        <4> QED BY <3>1, <4>1, <4>2 DEF RunningAs, RecordStep, TokenStep, RewriteStep, Exists
      <3>3. CASE UpgradesExitCode(store, g, code)
        <4> DEFINE c == [store.rec EXCEPT !.code = code]
        <4>1. store.rec.status = "stopped" /\ Exists(store)
          BY <3>3 DEF UpgradesExitCode, Exists
        <4>2. c \in Container /\ c.status = store.rec.status /\ c.gen = store.rec.gen
          BY <1>0, <3>1 DEF Container
        <4>3. t = writeContainerRevision(store, c, store.rec.rev + 1)
          BY <4>1 DEF MarkStoppedIfIdentity
        <4> HIDE DEF c
        <4>4. /\ Exists(t) /\ t.cg = store.cg /\ t.net = store.net
              /\ t.rec.rev = store.rec.rev + 1
              /\ t.rec.status = store.rec.status /\ Subject(t.rec) = Subject(store.rec)
          BY <1>0, <4>1, <4>2, <4>3, RewriteKeepsSubject
        <4> HIDE DEF t
        <4> QED BY <3>1, <4>1, <4>4 DEF RecordStep, TokenStep, RewriteStep
      <3> QED BY <2>5, <3>2, <3>3 DEF MarkStoppedStep
    <2>6. CASE MarkStoppedIfCreatedStep(p)
      <3> DEFINE c == [store.rec EXCEPT !.status = "stopped", !.code = 1]
                 t == MarkStoppedIfCreated(store)
      <3>1. store.rec.status = "created" /\ store.rec.ident = NoGen
        BY <1>0, <2>6 DEF MarkStoppedIfCreatedStep, MarkStoppedIfCreatedAdmits, Shape
      <3>2. c \in Container /\ c.status = "stopped"
        BY <1>0 DEF Container, Status
      <3>3. t = writeContainerRevision(store, c, store.rec.rev + 1)
        BY DEF MarkStoppedIfCreated
      <3> HIDE DEF c
      <3>4. /\ t.rec.status = "stopped" /\ t.rec.ident = NoGen /\ t.rec.rev = store.rec.rev + 1
            /\ t.cg = store.cg /\ t.net = store.net
        BY <1>0, <3>1, <3>2, <3>3, WriteFields DEF SameLifecycle
      <3>5. store' \in {store, t} /\ born' = born
        BY <2>6 DEF MarkStoppedIfCreatedStep, Commit, Written
      <3> HIDE DEF t
      <3> QED BY <3>1, <3>4, <3>5 DEF RecordStep, TokenStep, RewriteStep, Exists
    <2>7. ASSUME NEW g \in Gens,
                 MarkCgroupOwnedStep(p, g) \/ MarkNetworkOwnedStep(p, g)
          PROVE  RecordStep
      BY <1>0, <2>7 DEF MarkCgroupOwnedStep, MarkNetworkOwnedStep, MarkCgroupOwnedAdmits,
         MarkNetworkOwnedAdmits, MarkCgroupOwned, MarkNetworkOwned, RunningAs, Commit,
         Written, RecordStep, TokenStep, Stores
    <2>8. ASSUME NEW g \in Gens,
                 ClearCgroupOwnershipStep(p, g) \/ ClearNetworkOwnershipStep(p, g)
          PROVE  RecordStep
      <3>1. store.rec.status # "created"
        BY <1>0, <2>8, GensAssumption
           DEF ClearCgroupOwnershipStep, ClearCgroupOwnershipAdmits, ClearNetworkOwnershipStep,
               ClearNetworkOwnershipAdmits, GoodStore, Subject, Shape
      <3>2. store.rec.status \in Status
        BY <1>0 DEF Container
      <3> QED BY <1>0, <2>8, <3>1, <3>2
           DEF ClearCgroupOwnershipStep, ClearCgroupOwnershipAdmits, ClearNetworkOwnershipStep,
               ClearNetworkOwnershipAdmits, Commit, Written, RecordStep, TokenStep, Stores,
               Exists, Status
    <2>9. CASE TeardownSnapshotStep(p)
      <3>1. ~MigratesSnapshot(store) /\ ~AuthorizesLegacyDNS(store)
        BY <1>0, <2>9 DEF TeardownSnapshotStep, StoppedRevisionCurrent, GoodStore, Shape,
             MigratesSnapshot, AuthorizesLegacyDNS, LegacyIdentity, LegacyAuthorized
      <3> QED BY <2>9, <3>1 DEF TeardownSnapshotStep, RecordStep, TokenStep
    <2>10. CASE DeleteIfNotRunningStep(p) \/ DeleteStep(p)
      BY <1>0, <2>10 DEF DeleteIfNotRunningStep, DeleteStep, Written, RecordStep, TokenStep, Stores
    <2> QED BY <1>1, <2>1, <2>2, <2>3, <2>4, <2>5, <2>6, <2>7, <2>8, <2>9, <2>10 DEF ClientStep
  <1>2. CASE HolderStep
    <2>1. CASE RemoveJSON
      BY <1>0, <2>1 DEF RemoveJSON, LockOK, DeleteIfNotRunningAdmits, RecordStep, TokenStep,
                        RemoveStep, Stores
    <2>2. ASSUME NEW f \in {"exit", "cap"}, RemoveSidecar(f) PROVE RecordStep
      BY <1>0, <2>2 DEF RemoveSidecar, Written, RecordStep, TokenStep, Stores
    <2>3. CASE RestoreExit
      BY <1>0, <2>3 DEF RestoreExit, Written, RecordStep, TokenStep, Stores
    <2> QED BY <1>2, <2>1, <2>2, <2>3 DEF HolderStep
  <1>3. ASSUME NEW p \in Clients, Crash(p) PROVE RecordStep
    BY <1>3 DEF Crash, RecordStep, TokenStep
  <1> QED BY <1>1, <1>2, <1>3 DEF Next

-----------------------------------------------------------------------------
(* Action properties                                                       *)

\* In a good store the abstract subject is the subject of the record.
LEMMA GoodSubject ==
  ASSUME NEW s, GoodStore(s)
  PROVE  SubjectOf(s) = Subject(s.rec)
  BY GoodTeardown DEF SubjectOf, Subject, GoodStore, Shape

\* A running generation leaves that state only through its own stop.
THEOREM RunningEndsSafe == Spec => RunningEndsInOwnStop
  <1>1. ASSUME IInv, IInv', [Next]_vars
        PROVE  [\A g \in Gens : RunningAs(store, g) =>
                  \/ RunningAs(store', g)
                  \/ store'.rec.status = "stopped" /\ TeardownIdentity(store') = g]_vars
    <2> SUFFICES ASSUME Next, NEW g \in Gens, RunningAs(store, g)
                 PROVE  \/ RunningAs(store', g)
                        \/ store'.rec.status = "stopped" /\ TeardownIdentity(store') = g
      BY <1>1
    <2>1. RecordStep /\ GoodStore(store) /\ GoodStore(store')
      BY <1>1, NextRecordStep DEF IInv
    <2>2. CASE TokenStep
      BY <2>2 DEF TokenStep, RunningAs
    <2>3. CASE RewriteStep
      BY <2>1, <2>3, GoodTeardown DEF RewriteStep, RunningAs, Subject
    <2> QED BY <1>1, <2>1, <2>2, <2>3 DEF RecordStep, RemoveStep, CreateStep, RunningAs, Exists
  <1> QED BY <1>1, Inductive, PTL DEF Spec, RunningEndsInOwnStop

\* Every change of an existing record raises its revision, in a directory
\* where no record waits for migration.
THEOREM RevisionSafe == Spec => RevisionOrdersLifecycle
  <1>1. ASSUME IInv, IInv', [Next]_vars
        PROVE  [Exists(store) /\ store'.rec # store.rec /\ store'.rec.status # "absent" =>
                 \/ store'.rec.rev > store.rec.rev
                 \/ /\ store'.rec.rev = store.rec.rev
                    /\ store.rec.status = "stopped" /\ store'.rec.status = "stopped"
                    /\ store'.rec.code = store.rec.code]_vars
    <2> SUFFICES ASSUME Next, Exists(store), store'.rec # store.rec,
                        store'.rec.status # "absent"
                 PROVE  store'.rec.rev > store.rec.rev
      BY <1>1
    <2>1. RecordStep /\ store.rec.rev \in Nat
      BY <1>1, NextRecordStep DEF IInv, GoodStore, Stores, Container
    <2> QED BY <2>1 DEF RecordStep, TokenStep, RewriteStep, RemoveStep, CreateStep, NoContainer
  <1> QED BY <1>1, Inductive, PTL DEF Spec, RevisionOrdersLifecycle

\* A removed record is never written again.
THEOREM DeletedStaysDeleted == Spec => NoResurrection
  <1>1. ASSUME IInv, [Next]_vars
        PROVE  [born /\ ~Exists(store) => ~Exists(store')]_vars
    <2> SUFFICES ASSUME Next, born, ~Exists(store) PROVE ~Exists(store')
      BY <1>1
    <2>1. RecordStep
      BY <1>1, NextRecordStep
    <2> QED BY <2>1 DEF RecordStep, TokenStep, RewriteStep, RemoveStep, CreateStep,
                        NoContainer, Exists
  <1> QED BY <1>1, Inductive, PTL DEF Spec, NoResurrection

\* The authority to tear a stopped generation down is neither lost nor handed
\* to another generation while the record stays stopped.
THEOREM AuthorityStable == Spec => StoppedAuthorityStable
  <1> DEFINE Stable == store.rec.status = "stopped" /\ store'.rec.status = "stopped"
                         => TeardownIdentity(store') = TeardownIdentity(store)
  <1>1. ASSUME IInv, IInv', [Next]_vars PROVE [Stable]_vars
    <2> SUFFICES ASSUME Next, store.rec.status = "stopped", store'.rec.status = "stopped"
                 PROVE  TeardownIdentity(store') = TeardownIdentity(store)
      BY <1>1
    <2>1. RecordStep /\ TeardownIdentity(store) = store.rec.ident
                     /\ TeardownIdentity(store') = store'.rec.ident
      BY <1>1, NextRecordStep, GoodTeardown DEF IInv
    <2> QED BY <2>1 DEF RecordStep, TokenStep, RewriteStep, RemoveStep, CreateStep,
                        Subject, NoContainer, Exists
  <1>2. Spec => [][Stable]_vars
    BY <1>1, Inductive, PTL DEF Spec
  <1>3. [Stable]_vars =>
          [store.rec.status = "stopped" /\ store'.rec.status = "stopped" =>
             \/ TeardownIdentity(store') = TeardownIdentity(store)
             \/ /\ ~store.rec.sgv /\ TeardownIdentity(store') = NoGen
                /\ \/ Unlocked /\ store.exit # NoGen /\ store'.exit = NoGen
                   \/ ~store.rec.sv /\ store'.rec.sv /\ ~store'.rec.sgv
             \/ ~store.rec.sgv /\ TeardownIdentity(store) = NoGen /\ lock.job = "restore"]_vars
    OBVIOUS
  <1> QED BY <1>2, <1>3, PTL DEF StoppedAuthorityStable

-----------------------------------------------------------------------------
(* Refinement                                                              *)

\* The abstract debts are the tokens of the store.
LEMMA OwedEmpty ==
  ASSUME NEW s
  PROVE  OwedIn(s) = {} <=> s.cg = NoGen /\ s.net = NoGen
  BY DEF OwedIn

\* A step of the store is a step of the contract or leaves it unchanged.
LEMMA StepRefines ==
  ASSUME IInv, IInv', [Next]_vars
  PROVE  [Contract!Next]_(Contract!cvars)
  <1>0. /\ GoodStore(store) /\ GoodStore(store')
        /\ SubjectOf(store) = Subject(store.rec) /\ SubjectOf(store') = Subject(store'.rec)
        /\ store.rec.status \in Status /\ born \in BOOLEAN
    BY GoodSubject DEF IInv, TypeOK, GoodStore, Stores, Container
  <1>1. CASE UNCHANGED vars
    BY <1>1 DEF vars, Contract!cvars, PhaseOf, SubjectOf, OwedIn, TeardownIdentity, Exists
  <1>2. CASE Next
    <2>1. RecordStep
      BY <1>2, NextRecordStep
    <2>2. CASE TokenStep /\ born' = born
      <3>1. PhaseOf(store, born)' = PhaseOf(store, born) /\ SubjectOf(store)' = SubjectOf(store)
        BY <1>0, <2>2 DEF TokenStep, PhaseOf, Exists, Subject
      <3>2. PhaseOf(store, born) = IF Exists(store) THEN store.rec.status
                                    ELSE IF born THEN "deleted" ELSE "none"
        BY DEF PhaseOf
      <3>3. CASE store'.cg = store.cg /\ store'.net = store.net
        <4>1. OwedIn(store)' = OwedIn(store)
          BY <3>3 DEF OwedIn
        <4> QED BY <3>1, <4>1 DEF Contract!cvars
      <3>4. CASE store.rec.status = "running" /\ store'.cg = store.rec.gen /\ store'.net = store.net
        <4>1. store.rec.gen # NoGen
          BY <1>0, <3>4 DEF GoodStore, Shape
        <4>2. OwedIn(store)' = OwedIn(store) \cup {"cgroup"}
          BY <3>4, <4>1 DEF OwedIn
        <4>3. Contract!Owe("cgroup")
          BY <3>1, <3>2, <3>4, <4>2 DEF Contract!Owe, Exists
        <4> QED BY <4>3 DEF Contract!Next, Contract!Resources
      <3>5. CASE store.rec.status = "running" /\ store'.net = store.rec.gen /\ store'.cg = store.cg
        <4>1. store.rec.gen # NoGen
          BY <1>0, <3>5 DEF GoodStore, Shape
        <4>2. OwedIn(store)' = OwedIn(store) \cup {"network"}
          BY <3>5, <4>1 DEF OwedIn
        <4>3. Contract!Owe("network")
          BY <3>1, <3>2, <3>5, <4>2 DEF Contract!Owe, Exists
        <4> QED BY <4>3 DEF Contract!Next, Contract!Resources
      <3>6. CASE store.rec.status = "stopped" /\ store'.cg = NoGen /\ store'.net = store.net
        <4>1. OwedIn(store)' = OwedIn(store) \ {"cgroup"}
          BY <3>6 DEF OwedIn
        <4>2. Contract!Discharge("cgroup")
          BY <3>1, <3>2, <3>6, <4>1 DEF Contract!Discharge, Exists
        <4> QED BY <4>2 DEF Contract!Next, Contract!Resources
      <3>7. CASE store.rec.status \in {"running", "stopped"} /\ store'.net = NoGen /\ store'.cg = store.cg
        <4>1. OwedIn(store)' = OwedIn(store) \ {"network"}
          BY <3>7 DEF OwedIn
        <4>2. Contract!Discharge("network")
          BY <3>1, <3>2, <3>7, <4>1 DEF Contract!Discharge, Exists
        <4> QED BY <4>2 DEF Contract!Next, Contract!Resources
      <3> QED BY <2>2, <3>3, <3>4, <3>5, <3>6, <3>7 DEF TokenStep
    <2>3. CASE RewriteStep /\ born' = born
      <3>1. OwedIn(store)' = OwedIn(store)
        BY <2>3 DEF RewriteStep, OwedIn
      <3>2. PhaseOf(store, born) = store.rec.status /\ PhaseOf(store, born)' = store'.rec.status
        BY <2>3 DEF RewriteStep, PhaseOf
      <3>3. CASE store'.rec.status = store.rec.status /\ Subject(store'.rec) = Subject(store.rec)
        BY <1>0, <3>1, <3>2, <3>3 DEF Contract!cvars
      <3>4. CASE /\ store.rec.status # "running" /\ store.cg = NoGen /\ store.net = NoGen
                 /\ store'.rec.status = "running" /\ store'.rec.gen \in Gens
        <4>1. Contract!Bind(store'.rec.gen)
          BY <1>0, <2>3, <3>1, <3>2, <3>4, OwedEmpty
             DEF Contract!Bind, Status, Exists, RewriteStep, Subject
        <4> QED BY <3>4, <4>1 DEF Contract!Next
      <3>5. CASE /\ store.rec.status = "running" /\ store'.rec.status = "stopped"
                 /\ store'.rec.ident = store.rec.gen
        BY <1>0, <3>1, <3>2, <3>5 DEF Contract!Next, Contract!Stop, Subject
      <3>6. CASE /\ store.rec.status = "created" /\ store'.rec.status = "stopped"
                 /\ store'.rec.ident = NoGen
        <4>1. store.rec.ident = NoGen
          BY <1>0, <3>6 DEF GoodStore, Shape
        <4> QED BY <1>0, <3>1, <3>2, <3>6, <4>1 DEF Contract!Next, Contract!FailAdmission, Subject
      <3> QED BY <2>3, <3>3, <3>4, <3>5, <3>6 DEF RewriteStep
    <2>4. CASE RemoveStep /\ born' = born
      <3>1. born /\ NoContainer.status = "absent" /\ NoContainer.ident = NoGen
        BY <2>4 DEF RemoveStep, IInv, FreshOK, Exists, EmptyStore, NoContainer
      <3>2. PhaseOf(store, born) = store.rec.status /\ PhaseOf(store, born)' = "deleted"
        BY <2>4, <3>1 DEF RemoveStep, PhaseOf, Exists
      <3>3. SubjectOf(store)' = NoGen
        BY <1>0, <2>4, <3>1 DEF RemoveStep, Subject
      <3>4. OwedIn(store) = {} /\ OwedIn(store)' = {}
        BY <2>4 DEF RemoveStep, OwedIn
      <3>5. store.rec.status \in {"created", "stopped"}
        BY <1>0, <2>4 DEF RemoveStep, Status, Exists
      <3> QED BY <3>2, <3>3, <3>4, <3>5 DEF Contract!Next, Contract!Remove
    <2>5. CASE CreateStep /\ born'
      <3>1. PhaseOf(store, born) = "none" /\ PhaseOf(store, born)' = "created"
        BY <2>5 DEF CreateStep, PhaseOf, Exists
      <3>2. SubjectOf(store) = NoGen /\ SubjectOf(store)' = NoGen
        BY <1>0, <2>5 DEF CreateStep, Subject, GoodStore, Shape, Exists
      <3>3. OwedIn(store)' = OwedIn(store)
        BY <2>5 DEF CreateStep, OwedIn
      <3> QED BY <3>1, <3>2, <3>3 DEF Contract!Next, Contract!Admit
    <2> QED BY <2>1, <2>2, <2>3, <2>4, <2>5 DEF RecordStep
  <1> QED BY <1>1, <1>2

\* The lock-and-rewrite store with crashes and failed writes implements the
\* abstract life of a container, for any number of clients and generations.
THEOREM Refinement == Spec => ImplementsContract
  <1>1. Init => Contract!Init
    BY DEF Init, Contract!Init, EmptyStore, NoContainer, PhaseOf, SubjectOf, OwedIn, Exists
  <1>2. IInv /\ IInv' /\ [Next]_vars => [Contract!Next]_(Contract!cvars)
    BY StepRefines
  <1> QED BY <1>1, <1>2, Inductive, PTL DEF Spec, ImplementsContract, Contract!Spec

-----------------------------------------------------------------------------
(* The event log: the inductive invariant                                  *)

AllIds(i) == Ids(file[i]) \cup Ids(durable[i])
AllFull(s) == \A k \in DOMAIN s : s[k].form = "full"
Increasing(s) == \A j, k \in DOMAIN s : j < k => s[j] < s[k]

\* In memory and on disk a file is in the order of the writes, and only its last
\* record may be cut.
FileOK(s) ==
  /\ \A j, k \in DOMAIN s : j < k => s[j].id < s[k].id
  /\ \A k \in 1..(Len(s) - 1) : s[k].form = "full"
  /\ \A k \in DOMAIN s : s[k].id <= written
FilesOK == \A i \in Inodes : FileOK(file[i]) /\ FileOK(durable[i])

\* So are the generations, in every state the directory may come back with.
Below(i, j) == i # None /\ j # None => \A a \in AllIds(i), b \in AllIds(j) : a < b
DirOK(d) ==
  /\ Below(d["2"], d["1"]) /\ Below(d["2"], d["active"]) /\ Below(d["1"], d["active"])
  /\ \A m, n \in Names : d[m] = d[n] /\ d[m] # None => m = n
DirsOK ==
  \A d \in ToSet(dirs) :
    DirOK(d) /\ \A n \in {"1", "2"} : d[n] # None => d[n] # dir["active"]

\* What the holder of the lock may rely on.
WriterOK ==
  \A w \in Writers :
    /\ wpc[w] \notin {"idle", "sync"} => written < MaxEvents
    /\ wpc[w] \in {"sync_repair", "rotate", "shift", "sync_shift", "rename", "sync_open",
                   "write", "sync"} => dir["active"] # None
    /\ wpc[w] \notin {"idle", "repair"} /\ dir["active"] # None => AllFull(file[dir["active"]])
    /\ wpc[w] \in {"shift", "sync_shift", "rename"} => Len(file[dir["active"]]) >= MaxRecords
    /\ wpc[w] \in {"sync_shift", "rename"} => dir["1"] = None
    /\ wpc[w] = "sync_rename" => dir["active"] = None
    /\ wpc[w] \in {"open", "sync_open", "write"} /\ dir["active"] # None =>
         Len(file[dir["active"]]) < MaxRecords
    /\ wpc[w] \in {"write", "sync"} => ToSet(dirs) = {dir}
    /\ wpc[w] = "sync" => file[dir["active"]] # <<>>

\* An acknowledged event is where neither a repair nor a power loss reaches it,
\* in every state the directory may come back with.
Holds(i, e) ==
  \E p \in DOMAIN file[i] :
    /\ file[i][p] = [id |-> e, form |-> "full"]
    /\ p \in DOMAIN durable[i] /\ \A q \in 1..p : file[i][q] = durable[i][q]
AckedOK ==
  \A e \in acked \ dropped, d \in ToSet(dirs) :
    \E n \in Names : d[n] # None /\ Holds(d[n], e)

\* Until the power fails, what was renamed away is not empty and has no cut record.
RetainedOK ==
  losses = 0 =>
    \A d \in ToSet(dirs), n \in Names :
      d[n] # None /\ d[n] # dir["active"] => file[d[n]] # <<>> /\ AllFull(file[d[n]])

\* The follower has read terminated records, and a record it has read stays.
Attached == {"read", "eof", "decode", "checkpoint", "wake", "boundary"}
FolOK ==
  fol.pc # "done" =>
    /\ losses = 0
    /\ fol.off <= Len(Contents(fol.cur))
    /\ \A q \in 1..fol.off : Contents(fol.cur)[q].form = "full"
    /\ fol.pc \in Attached => fol.cur # None /\ ~fol.retained
    /\ fol.pc \in {"idle", "wait", "wait_retained"} => fol.queue = <<>>
    /\ fol.pc = "idle" => fol.cur = None /\ out = <<>>
    /\ fol.pc = "wait_retained" => fol.retained
    /\ fol.retained => out = <<>>

\* While every append is whole, the follower goes forward: what it has emitted
\* is older than the rest of its generation, than the queue and, while it waits,
\* than the active generation.
IdsBelow(i, j) == \A a \in Ids(file[i]), b \in Ids(file[j]) : a < b
OutBelow(i) == \A k \in DOMAIN out, b \in Ids(file[i]) : out[k] < b
ReadOK ==
  /\ fol.tail = None /\ fol.chk = None
  /\ \A k \in DOMAIN out, p \in (fol.off + 1)..Len(file[fol.cur]) : out[k] < file[fol.cur][p].id
  /\ fol.off > 0 => \A k \in DOMAIN out : out[k] <= file[fol.cur][fol.off].id
  /\ fol.pc = "boundary" => fol.cur # dir["active"]
  /\ fol.pc # "decode"
  /\ fol.queue # <<>> => fol.cur # dir["active"]
  /\ \A m \in DOMAIN fol.queue :
       fol.queue[m] # fol.cur /\ IdsBelow(fol.cur, fol.queue[m]) /\ OutBelow(fol.queue[m])
  /\ \A l, m \in DOMAIN fol.queue : l < m =>
       /\ fol.queue[l] # dir["active"] /\ fol.queue[l] # fol.queue[m]
       /\ IdsBelow(fol.queue[l], fol.queue[m])
ForwardOK ==
  torn = 0 =>
    /\ Increasing(out)
    /\ losses = 0 => \A i \in Inodes : AllFull(file[i])
    /\ fol.pc \in Attached => ReadOK
    /\ fol.pc \in {"wait", "wait_retained"} /\ dir["active"] # None => OutBelow(dir["active"])

\* What was emitted is in some file.
OutOK ==
  /\ \A k \in DOMAIN out : out[k] <= written
  /\ losses = 0 => \A k \in DOMAIN out : \E i \in Inodes : \E p \in DOMAIN file[i] :
                     file[i][p] = [id |-> out[k], form |-> "full"]

EvIInv == /\ EvTypeOK /\ FilesOK /\ DirsOK /\ WriterOK /\ AckedOK /\ RetainedOK
          /\ FolOK /\ ForwardOK /\ OutOK

-----------------------------------------------------------------------------
(* The event log: files and directories                                    *)

EventFiles == BoundedSeq(EventRecords, MaxRecords)
Directories == [Names -> Inodes \cup {None}]

\* A file is a sequence of at most MaxRecords records.
LEMMA FileFacts ==
  ASSUME NEW s \in EventFiles
  PROVE  /\ s \in Seq(EventRecords) /\ Len(s) \in Nat /\ Len(s) <= MaxRecords
         /\ DOMAIN s = 1..Len(s)
         /\ \A k \in 1..Len(s) : s[k] \in EventRecords
         /\ s = <<>> <=> Len(s) = 0
  <1>1. PICK m \in 0..MaxRecords : s \in [1..m -> EventRecords]
    BY DEF EventFiles, BoundedSeq, SeqOf
  <1>2. s \in Seq(EventRecords)
    BY <1>1, SeqDef, BoundsAssumption
  <1>3. Len(s) = m
    BY <1>1, <1>2, LenProperties, BoundsAssumption
  <1> QED BY <1>1, <1>2, <1>3, LenProperties, EmptySeq, BoundsAssumption

\* And every such sequence is one.
LEMMA FileIs ==
  ASSUME NEW s \in Seq(EventRecords), Len(s) <= MaxRecords
  PROVE  s \in EventFiles
  <1>1. s \in [1..Len(s) -> EventRecords] /\ Len(s) \in Nat
    BY LenProperties
  <1>2. Len(s) \in 0..MaxRecords
    BY <1>1, BoundsAssumption
  <1> QED BY <1>1, <1>2 DEF EventFiles, BoundedSeq, SeqOf

\* A step of the directory adds a state to those it may come back with.
LEMMA AddsDir ==
  ASSUME NEW D, NEW s \in Seq(D), NEW d \in D
  PROVE  /\ Append(s, d) \in Seq(D) /\ Append(s, d) # <<>>
         /\ Last(Append(s, d)) = d /\ ToSet(Append(s, d)) = ToSet(s) \cup {d}
  <1> DEFINE t == Append(s, d)
  <1>1. /\ t \in Seq(D) /\ t # <<>> /\ Len(t) = Len(s) + 1 /\ t[Len(s) + 1] = d
        /\ \A i \in 1..Len(s) : t[i] = s[i]
    BY AppendProperties
  <1>2. Len(s) \in Nat /\ DOMAIN s = 1..Len(s) /\ DOMAIN t = 1..(Len(s) + 1)
    BY <1>1, LenProperties
  <1>3. ToSet(t) = ToSet(s) \cup {d}
    <2>1. ASSUME NEW x \in ToSet(t) PROVE x \in ToSet(s) \cup {d}
      <3>1. PICK k \in DOMAIN t : x = t[k]
        BY DEF ToSet
      <3> QED BY <3>1, <1>1, <1>2 DEF ToSet
    <2>2. ASSUME NEW x \in ToSet(s) \cup {d} PROVE x \in ToSet(t)
      <3>1. CASE x = d
        <4>1. Len(s) + 1 \in DOMAIN t BY <1>2
        <4> QED BY <3>1, <4>1, <1>1 DEF ToSet
      <3>2. CASE x \in ToSet(s)
        <4>1. PICK k \in DOMAIN s : x = s[k]
          BY <3>2 DEF ToSet
        <4>2. k \in DOMAIN t /\ t[k] = x BY <4>1, <1>1, <1>2
        <4> QED BY <4>2 DEF ToSet
      <3> QED BY <3>1, <3>2
    <2> QED BY <2>1, <2>2
  <1> QED BY <1>1, <1>3 DEF Last

\* A sync or a power loss leaves one.
LEMMA OneDir ==
  ASSUME NEW D, NEW d \in D
  PROVE  <<d>> \in Seq(D) /\ <<d>> # <<>> /\ Last(<<d>>) = d /\ ToSet(<<d>>) = {d}
  BY DEF Last, ToSet

\* The present state is one of them.
LEMMA LastDir ==
  ASSUME NEW D, NEW s \in Seq(D), s # <<>>
  PROVE  Last(s) \in D /\ Last(s) \in ToSet(s) /\ ToSet(s) \subseteq D
  <1>1. Len(s) \in Nat \ {0} /\ DOMAIN s = 1..Len(s) /\ \A k \in 1..Len(s) : s[k] \in D
    BY LenProperties, EmptySeq
  <1> QED BY <1>1 DEF Last, ToSet

\* What the type invariant says of the disk.
LEMMA DiskTyped ==
  ASSUME EvTypeOK
  PROVE  /\ dirs \in Seq(Directories) /\ dirs # <<>>
         /\ dir \in Directories /\ dir \in ToSet(dirs) /\ ToSet(dirs) \subseteq Directories
         /\ file \in [Inodes -> EventFiles] /\ durable \in [Inodes -> EventFiles]
         /\ \A d \in ToSet(dirs), n \in Names : d[n] # None => d[n] \in Inodes
  <1>1. dirs \in Seq(Directories) /\ dirs # <<>> /\ file \in [Inodes -> EventFiles]
        /\ durable \in [Inodes -> EventFiles]
    BY DEF EvTypeOK, Directories, EventFiles
  <1>2. dir \in Directories /\ dir \in ToSet(dirs) /\ ToSet(dirs) \subseteq Directories
    BY <1>1, LastDir DEF dir
  <1> QED BY <1>1, <1>2 DEF Directories

-----------------------------------------------------------------------------
(* The event log: the invariant implies the properties                     *)

InOrder(s) == \A j, k \in DOMAIN s : j < k => s[j].id < s[k].id

\* Two files in order, one after the other.
LEMMA JoinInOrder ==
  ASSUME NEW s \in Seq(EventRecords), NEW t \in Seq(EventRecords), InOrder(s), InOrder(t),
         \A a \in Ids(s), b \in Ids(t) : a < b
  PROVE  s \o t \in Seq(EventRecords) /\ InOrder(s \o t)
  <1> DEFINE u == s \o t
  <1>1. /\ u \in Seq(EventRecords) /\ Len(u) = Len(s) + Len(t)
        /\ \A i \in 1..Len(s) + Len(t) : u[i] = IF i <= Len(s) THEN s[i] ELSE t[i - Len(s)]
    BY ConcatProperties
  <1>2. /\ Len(s) \in Nat /\ DOMAIN s = 1..Len(s) /\ Len(t) \in Nat /\ DOMAIN t = 1..Len(t)
        /\ DOMAIN u = 1..Len(s) + Len(t)
    BY <1>1, LenProperties
  <1>3. ASSUME NEW j \in DOMAIN u, NEW k \in DOMAIN u, j < k PROVE u[j].id < u[k].id
    <2>1. CASE k <= Len(s)
      BY <1>1, <1>2, <1>3, <2>1 DEF InOrder
    <2>2. CASE j > Len(s)
      <3>1. /\ u[j] = t[j - Len(s)] /\ u[k] = t[k - Len(s)]
            /\ j - Len(s) \in DOMAIN t /\ k - Len(s) \in DOMAIN t /\ j - Len(s) < k - Len(s)
        BY <1>1, <1>2, <1>3, <2>2
      <3> QED BY <3>1 DEF InOrder
    <2>3. CASE j <= Len(s) /\ k > Len(s)
      <3>1. /\ u[j] = s[j] /\ j \in DOMAIN s /\ u[k] = t[k - Len(s)]
            /\ k - Len(s) \in DOMAIN t
        BY <1>1, <1>2, <2>3
      <3>2. u[j].id \in Ids(s) /\ u[k].id \in Ids(t)
        BY <3>1 DEF Ids
      <3> QED BY <3>2
    <2> QED BY <2>1, <2>2, <2>3, <1>2
  <1> QED BY <1>1, <1>3 DEF InOrder

\* What is in two files is in both together, and nothing else.
LEMMA JoinHolds ==
  ASSUME NEW s \in Seq(EventRecords), NEW t \in Seq(EventRecords)
  PROVE  ToSet(s \o t) = ToSet(s) \cup ToSet(t) /\ Ids(s \o t) = Ids(s) \cup Ids(t)
  <1> DEFINE u == s \o t
  <1>1. /\ u \in Seq(EventRecords) /\ Len(u) = Len(s) + Len(t)
        /\ \A i \in 1..Len(s) + Len(t) : u[i] = IF i <= Len(s) THEN s[i] ELSE t[i - Len(s)]
    BY ConcatProperties
  <1>2. /\ Len(s) \in Nat /\ DOMAIN s = 1..Len(s) /\ Len(t) \in Nat /\ DOMAIN t = 1..Len(t)
        /\ DOMAIN u = 1..Len(s) + Len(t)
    BY <1>1, LenProperties
  <1>3. \A i \in DOMAIN u : (\E j \in DOMAIN s : u[i] = s[j]) \/ (\E j \in DOMAIN t : u[i] = t[j])
    <2> TAKE i \in DOMAIN u
    <2>1. CASE i <= Len(s) BY <2>1, <1>1, <1>2
    <2>2. CASE i > Len(s)
      <3>1. i - Len(s) \in DOMAIN t /\ u[i] = t[i - Len(s)] BY <2>2, <1>1, <1>2
      <3> QED BY <3>1
    <2> QED BY <2>1, <2>2, <1>2
  <1>4. \A j \in DOMAIN s : j \in DOMAIN u /\ u[j] = s[j]
    BY <1>1, <1>2
  <1>5. \A j \in DOMAIN t : j + Len(s) \in DOMAIN u /\ u[j + Len(s)] = t[j]
    BY <1>1, <1>2
  <1>6. ToSet(u) = ToSet(s) \cup ToSet(t)
    <2>1. \A j \in DOMAIN t : \E i \in DOMAIN u : u[i] = t[j]
      BY <1>5
    <2> QED BY <1>3, <1>4, <2>1 DEF ToSet
  <1>7. Ids(u) = Ids(s) \cup Ids(t)
    <2>1. \A j \in DOMAIN t : \E i \in DOMAIN u : u[i] = t[j]
      BY <1>5
    <2> QED BY <1>3, <1>4, <2>1 DEF Ids
  <1> QED BY <1>6, <1>7

\* The contents of a name are a file in order with at most its end cut.
LEMMA ContentsOK ==
  ASSUME EvIInv, NEW n \in Names
  PROVE  /\ Contents(dir[n]) \in EventFiles /\ InOrder(Contents(dir[n]))
         /\ \A k \in 1..(Len(Contents(dir[n])) - 1) : Contents(dir[n])[k].form = "full"
  <1>1. dir[n] = None \/ dir[n] \in Inodes
    BY DiskTyped DEF EvIInv
  <1>2. CASE dir[n] = None
    <2>1. Contents(dir[n]) = <<>> /\ <<>> \in Seq(EventRecords) /\ Len(<<>>) = 0
      BY <1>2, EmptySeq DEF Contents
    <2>2. <<>> \in EventFiles
      <3>1. Len(<<>>) <= MaxRecords BY BoundsAssumption
      <3> QED BY <2>1, <3>1, FileIs
    <2> QED BY <2>1, <2>2, FileFacts DEF InOrder
  <1>3. CASE dir[n] \in Inodes
    <2>1. Contents(dir[n]) = file[dir[n]] /\ file[dir[n]] \in EventFiles
      BY <1>3, DiskTyped DEF Contents, EvIInv, Inodes, None
    <2> QED BY <1>3, <2>1 DEF EvIInv, FilesOK, FileOK, InOrder
  <1> QED BY <1>1, <1>2, <1>3

\* A record emitted or acknowledged is one of the window's.
LEMMA WindowHolds ==
  ASSUME EvIInv
  PROVE  /\ Window \in Seq(EventRecords) /\ InOrder(Window)
         /\ ToSet(Window) = UNION {ToSet(Contents(dir[n])) : n \in Names}
  <1> DEFINE a == Contents(dir["2"])  b == Contents(dir["1"])  c == Contents(dir["active"])
  <1>1. a \in EventFiles /\ b \in EventFiles /\ c \in EventFiles
        /\ InOrder(a) /\ InOrder(b) /\ InOrder(c)
    BY ContentsOK DEF Names
  <1>2. a \in Seq(EventRecords) /\ b \in Seq(EventRecords) /\ c \in Seq(EventRecords)
    BY <1>1, FileFacts
  <1>3. DirOK(dir) /\ dir \in Directories
    BY DiskTyped DEF EvIInv, DirsOK
  <1>4. ASSUME NEW m \in Names, NEW n \in Names, Below(dir[m], dir[n])
        PROVE  \A x \in Ids(Contents(dir[m])), y \in Ids(Contents(dir[n])) : x < y
    <2>1. Ids(<<>>) = {}
      BY DEF Ids
    <2> QED BY <1>4, <2>1 DEF Below, AllIds, Contents
  <1>5. /\ \A x \in Ids(a), y \in Ids(b) : x < y
        /\ \A x \in Ids(a), y \in Ids(c) : x < y
        /\ \A x \in Ids(b), y \in Ids(c) : x < y
    BY <1>3, <1>4 DEF DirOK, Names
  <1>6. a \o b \in Seq(EventRecords) /\ InOrder(a \o b)
    BY <1>1, <1>2, <1>5, JoinInOrder
  <1>7. ToSet(a \o b) = ToSet(a) \cup ToSet(b) /\ Ids(a \o b) = Ids(a) \cup Ids(b)
    BY <1>2, JoinHolds
  <1>8. \A x \in Ids(a \o b), y \in Ids(c) : x < y
    BY <1>5, <1>7
  <1>9. Window = (a \o b) \o c
    BY DEF Window
  <1>10. Window \in Seq(EventRecords) /\ InOrder(Window)
    BY <1>1, <1>2, <1>6, <1>8, <1>9, JoinInOrder
  <1>11. ToSet(Window) = ToSet(a) \cup ToSet(b) \cup ToSet(c)
    <2> DEFINE ab == a \o b
    <2> HIDE DEF a, b, c, ab
    <2>1. ab \in Seq(EventRecords) /\ ToSet(ab) = ToSet(a) \cup ToSet(b)
      BY <1>6, <1>7 DEF ab
    <2>2. ToSet(ab \o c) = ToSet(ab) \cup ToSet(c)
      BY ONLY <1>2, <2>1, JoinHolds
    <2> QED BY <1>9, <2>1, <2>2 DEF ab
  <1> QED BY <1>10, <1>11 DEF Names

\* The invariant implies what an append owes its caller.
LEMMA LogSafe == EvIInv => LogIsIntact
  <1> SUFFICES ASSUME EvIInv PROVE LogIsIntact
    OBVIOUS
  <1>1. HistoryOrdered
    BY WindowHolds, ContentsOK DEF HistoryOrdered, InOrder
  <1>2. AcknowledgedKept
    <2> SUFFICES ASSUME NEW e \in acked \ dropped
                 PROVE  \E k \in DOMAIN Window : Window[k].form # "torn" /\ Window[k].id = e
      BY DEF AcknowledgedKept
    <2>1. PICK n \in Names : dir[n] # None /\ Holds(dir[n], e)
      BY DiskTyped DEF EvIInv, AckedOK
    <2>2. PICK p \in DOMAIN file[dir[n]] : file[dir[n]][p] = [id |-> e, form |-> "full"]
      BY <2>1 DEF Holds
    <2>3. [id |-> e, form |-> "full"] \in ToSet(Contents(dir[n]))
      BY <2>1, <2>2 DEF Contents, ToSet
    <2>4. [id |-> e, form |-> "full"] \in ToSet(Window)
      BY <2>3, WindowHolds
    <2>5. PICK k \in DOMAIN Window : Window[k] = [id |-> e, form |-> "full"]
      BY <2>4 DEF ToSet
    <2> QED BY <2>5
  <1> QED BY <1>1, <1>2 DEF LogIsIntact, EvIInv

\* And what a follower owes its reader.
LEMMA FollowSafe == EvIInv => FollowerIsFaithful
  <1> SUFFICES ASSUME EvIInv PROVE FollowerIsFaithful
    OBVIOUS
  <1>1. FollowerRepeatsNothing
    BY DEF EvIInv, ForwardOK, Increasing, FollowerRepeatsNothing
  <1>2. FollowerEmitsTerminated
    <2> SUFFICES ASSUME losses = 0, NEW x \in ToSet(out)
                 PROVE  \E i \in Inodes : \E r \in ToSet(file[i]) : r.form = "full" /\ r.id = x
      BY DEF FollowerEmitsTerminated
    <2>1. PICK k \in DOMAIN out : x = out[k]
      BY DEF ToSet
    <2>2. PICK i \in Inodes : \E p \in DOMAIN file[i] : file[i][p] = [id |-> x, form |-> "full"]
      BY <2>1 DEF EvIInv, OutOK
    <2>3. [id |-> x, form |-> "full"] \in ToSet(file[i])
      BY <2>2 DEF ToSet
    <2> QED BY <2>3
  <1> QED BY <1>1, <1>2 DEF FollowerIsFaithful

-----------------------------------------------------------------------------
(* The event log: steps of a writer that leave the files alone             *)

\* The holder of the lock goes on, the others are idle.
LEMMA WriterMoves ==
  ASSUME EvTypeOK, NEW w \in Writers, wpc[w] # "idle", NEW label \in WriterLabels,
         EvGoto(w, label), evLock' = IF label = "idle" THEN NoWriter ELSE evLock
  PROVE  /\ evLock = w /\ wpc'[w] = label /\ \A v \in Writers \ {w} : wpc'[v] = "idle"
         /\ wpc' \in [Writers -> WriterLabels] /\ evLock' \in Writers \cup {NoWriter}
         /\ \A v \in Writers : wpc'[v] # "idle" <=> evLock' = v
  <1>1. evLock = w /\ \A v \in Writers \ {w} : wpc[v] = "idle"
    BY DEF EvTypeOK
  <1>2. wpc' = [wpc EXCEPT ![w] = label] /\ wpc \in [Writers -> WriterLabels]
    BY DEF EvGoto, EvTypeOK
  <1>3. wpc'[w] = label /\ \A v \in Writers \ {w} : wpc'[v] = "idle"
    BY <1>1, <1>2
  <1>4. \A v \in Writers : wpc'[v] # "idle" <=> evLock' = v
    BY <1>1, <1>3, BoundsAssumption
  <1> QED BY <1>1, <1>2, <1>3, <1>4 DEF EvTypeOK

\* A step that brings no event into a file keeps the order of generations.
LEMMA OrderKept ==
  ASSUME NEW d \in Directories, DirOK(d), \A i \in Inodes : AllIds(i)' \subseteq AllIds(i)
  PROVE  DirOK(d)'
  <1>1. \A n \in Names : d[n] # None => d[n] \in Inodes
    BY DEF Directories
  <1>2. ASSUME NEW m \in Names, NEW n \in Names, Below(d[m], d[n]) PROVE Below(d[m], d[n])'
    BY <1>1, <1>2 DEF Below
  <1> QED BY <1>2 DEF DirOK, Names

\* What does not depend on the writers' positions.
LEMMA DiskKept ==
  ASSUME EvIInv, UNCHANGED <<disk, tally, fol, out, torn, losses>>
  PROVE  FilesOK' /\ DirsOK' /\ AckedOK' /\ RetainedOK' /\ FolOK' /\ ForwardOK' /\ OutOK'
  <1> USE DEF EvIInv, disk, tally
  <1>1. FilesOK' /\ OutOK'
    BY DEF FilesOK, FileOK, OutOK
  <1>2. DirsOK'
    <2>1. \A i \in Inodes : AllIds(i)' \subseteq AllIds(i)
      BY DEF AllIds, Ids
    <2>2. dir' = dir /\ ToSet(dirs)' = ToSet(dirs)
      BY DEF dir
    <2> QED BY <2>1, <2>2, OrderKept, DiskTyped DEF DirsOK
  <1>3. AckedOK' /\ RetainedOK'
    BY DEF AckedOK, Holds, RetainedOK, AllFull, dir
  <1>4. FolOK'
    BY DEF FolOK, Contents
  <1>5. ForwardOK'
    BY DEF ForwardOK, ReadOK, Increasing, AllFull, IdsBelow, OutBelow, Ids, dir
  <1> QED BY <1>1, <1>2, <1>3, <1>4, <1>5

\* An append waits for the lock.
LEMMA LockKeeps ==
  ASSUME EvIInv, NEW w \in Writers, LockWriter(w)
  PROVE  EvIInv'
  <1>1. wpc' = [wpc EXCEPT ![w] = "repair"] /\ evLock' = w /\ evLock = NoWriter
        /\ wpc \in [Writers -> WriterLabels] /\ \A v \in Writers : wpc[v] = "idle"
        /\ written < MaxEvents
    BY BoundsAssumption DEF LockWriter, EvGoto, EvIInv, EvTypeOK
  <1>2. wpc'[w] = "repair" /\ \A v \in Writers \ {w} : wpc'[v] = "idle"
    BY <1>1
  <1>3. UNCHANGED <<disk, tally, fol, out, evFaults>>
    BY DEF LockWriter
  <1>4. EvTypeOK'
    BY <1>1, <1>2, <1>3 DEF EvIInv, EvTypeOK, disk, tally, evFaults, WriterLabels
  <1>5. WriterOK'
    BY <1>1, <1>2, <1>3 DEF WriterOK, tally
  <1> QED BY <1>3, <1>4, <1>5, DiskKept DEF EvIInv, evFaults

\* The size decides whether there is a rotation.
LEMMA RotateKeeps ==
  ASSUME EvIInv, NEW w \in Writers, RotateIfNeeded(w)
  PROVE  EvIInv'
  <1> DEFINE label == IF RotationDue(file[dir["active"]]) THEN "shift" ELSE "open"
  <1>1. /\ EvGoto(w, label) /\ wpc[w] = "rotate" /\ UNCHANGED <<disk, evLock, tally, fol, out, evFaults>>
        /\ label \in WriterLabels /\ label # "idle"
    BY DEF RotateIfNeeded, WriterLabels
  <1>2. /\ wpc'[w] = label /\ \A v \in Writers \ {w} : wpc'[v] = "idle"
        /\ wpc' \in [Writers -> WriterLabels] /\ evLock' \in Writers \cup {NoWriter}
        /\ \A v \in Writers : wpc'[v] # "idle" <=> evLock' = v
    BY <1>1, WriterMoves DEF EvIInv
  <1>3. EvTypeOK'
    BY <1>1, <1>2 DEF EvIInv, EvTypeOK, disk, tally, evFaults
  <1>4. dir["active"] \in Inodes /\ Len(file[dir["active"]]) \in Nat
    <2>1. dir["active"] # None
      BY <1>1 DEF EvIInv, WriterOK
    <2> QED BY <2>1, DiskTyped, FileFacts DEF EvIInv, Names
  <1>5. WriterOK'
    BY <1>1, <1>2, <1>4, BoundsAssumption
    DEF EvIInv, WriterOK, RotationDue, disk, tally, dir, AllFull
  <1> QED BY <1>1, <1>3, <1>5, DiskKept DEF EvIInv, evFaults

\* A failed or killed append drops the lock.
LEMMA AbortKeeps ==
  ASSUME EvIInv, NEW w \in Writers, Abort(w)
  PROVE  EvIInv'
  <1>1. /\ EvGoto(w, "idle") /\ wpc[w] # "idle" /\ evLock' = NoWriter
        /\ UNCHANGED <<disk, tally, fol, out, torn, losses>>
        /\ aborts < MaxAborts /\ aborts' = aborts + 1 /\ "idle" \in WriterLabels
    BY DEF Abort, EvRelease, WriterLabels
  <1>2. /\ \A v \in Writers : wpc'[v] = "idle"
        /\ wpc' \in [Writers -> WriterLabels] /\ evLock' \in Writers \cup {NoWriter}
        /\ \A v \in Writers : wpc'[v] # "idle" <=> evLock' = v
    BY <1>1, WriterMoves DEF EvIInv
  <1>3. aborts' \in 0..MaxAborts
    BY <1>1, BoundsAssumption DEF EvIInv, EvTypeOK
  <1>4. EvTypeOK'
    BY <1>1, <1>2, <1>3 DEF EvIInv, EvTypeOK, disk, tally
  <1>5. WriterOK'
    BY <1>2 DEF WriterOK
  <1> QED BY <1>1, <1>4, <1>5, DiskKept DEF EvIInv

\* The queue of the follower.
LEMMA QueueTyped ==
  ASSUME EvTypeOK
  PROVE  /\ fol.queue \in Seq(Inodes) /\ Len(fol.queue) \in 0..3
         /\ DOMAIN fol.queue = 1..Len(fol.queue)
         /\ \A m \in DOMAIN fol.queue :
              fol.queue[m] \in ToSet(fol.queue) /\ fol.queue[m] \in Inodes /\ fol.queue[m] # None
  <1>1. fol.queue \in BoundedSeq(Inodes, 3)
    BY DEF EvTypeOK, Followers
  <1>2. PICK m \in 0..3 : fol.queue \in [1..m -> Inodes]
    BY <1>1 DEF BoundedSeq, SeqOf
  <1>3. fol.queue \in Seq(Inodes)
    BY <1>2, SeqDef
  <1>4. Len(fol.queue) = m
    BY <1>2, <1>3, LenProperties
  <1> QED BY <1>2, <1>3, <1>4 DEF ToSet, Inodes, None

\* A step of the directory alone: the active generation stays, is renamed away
\* or is one that nobody has seen.
LEMMA DirectoryMoves ==
  ASSUME EvIInv, UNCHANGED <<file, durable, written, fol, out, torn, losses>>,
         dir'["active"] \in {dir["active"], None} \cup Fresh
  PROVE  FilesOK' /\ FolOK' /\ ForwardOK' /\ OutOK'
  <1>1. FilesOK' /\ OutOK' /\ FolOK'
    BY DEF EvIInv, FilesOK, FileOK, OutOK, FolOK, Contents
  <1>2. ASSUME torn = 0, fol.pc \in Attached, ReadOK PROVE ReadOK'
    <2>1. fol.cur \in Inodes /\ fol.cur # None
      BY <1>2 DEF EvIInv, EvTypeOK, Followers, FolOK, Attached
    <2>2. \A m \in DOMAIN fol.queue :
            fol.queue[m] \in ToSet(fol.queue) /\ fol.queue[m] \in Inodes /\ fol.queue[m] # None
      BY QueueTyped DEF EvIInv
    <2>3. dir'["active"] # dir["active"] => dir'["active"] # fol.cur
          /\ \A m \in DOMAIN fol.queue : dir'["active"] # fol.queue[m]
      BY <2>1, <2>2 DEF Fresh
    <2>4. /\ fol.pc = "boundary" => fol.cur # dir'["active"]
          /\ fol.queue # <<>> => fol.cur # dir'["active"]
          /\ \A l, m \in DOMAIN fol.queue : l < m => fol.queue[l] # dir'["active"]
      BY <1>2, <2>3 DEF ReadOK
    <2>5. /\ \A i, j \in Inodes : IdsBelow(i, j) => IdsBelow(i, j)'
          /\ \A i \in Inodes : OutBelow(i) => OutBelow(i)'
      BY DEF IdsBelow, OutBelow, Ids
    <2> QED BY <1>2, <2>1, <2>4, <2>2, <2>5 DEF ReadOK
  <1>3. ASSUME torn = 0, fol.pc \in {"wait", "wait_retained"}, dir'["active"] # None
        PROVE  OutBelow(dir["active"])'
    <2>1. CASE dir'["active"] = dir["active"]
      BY <1>3, <2>1 DEF EvIInv, ForwardOK, OutBelow, Ids
    <2>2. CASE dir'["active"] \in Fresh
      BY <2>2 DEF Fresh, OutBelow, Ids
    <2> QED BY <1>3, <2>1, <2>2
  <1>4. ForwardOK'
    BY <1>2, <1>3 DEF EvIInv, ForwardOK, Increasing, AllFull
  <1> QED BY <1>1, <1>4

\* The directory is synced.
LEMMA SyncDirectoryKeeps ==
  ASSUME EvIInv, NEW w \in Writers, SyncDirectory(w)
  PROVE  EvIInv'
  <1> DEFINE label == AfterSync[wpc[w]]
  <1>1. /\ EvGoto(w, label) /\ wpc[w] \in {"sync_shift", "sync_rename", "sync_open"}
        /\ UNCHANGED <<file, durable, evLock, tally, fol, out, evFaults>> /\ dirs' = <<dir>>
        /\ label = CASE wpc[w] = "sync_shift" -> "rename" [] wpc[w] = "sync_rename" -> "open"
                     [] wpc[w] = "sync_open" -> "write"
    BY DEF SyncDirectory, AfterSync
  <1>2. label \in WriterLabels /\ label # "idle" /\ wpc[w] # "idle"
    BY <1>1 DEF WriterLabels
  <1>3. /\ wpc'[w] = label /\ \A v \in Writers \ {w} : wpc'[v] = "idle"
        /\ wpc' \in [Writers -> WriterLabels] /\ evLock' \in Writers \cup {NoWriter}
        /\ \A v \in Writers : wpc'[v] # "idle" <=> evLock' = v
    BY <1>1, <1>2, WriterMoves DEF EvIInv
  <1>4. dirs' \in Seq(Directories) /\ dirs' # <<>> /\ dir' = dir /\ ToSet(dirs)' = {dir}
        /\ dir \in ToSet(dirs)
    <2>1. dir \in Directories /\ dir \in ToSet(dirs)
      BY DiskTyped DEF EvIInv
    <2> QED BY <1>1, <2>1, OneDir DEF dir
  <1>5. EvTypeOK'
    BY <1>1, <1>3, <1>4 DEF EvIInv, EvTypeOK, tally, evFaults, Directories
  <1>6. FilesOK' /\ FolOK' /\ ForwardOK' /\ OutOK'
    BY <1>1, <1>4, DirectoryMoves DEF tally, evFaults
  <1>7. DirsOK'
    <2>1. \A i \in Inodes : AllIds(i)' \subseteq AllIds(i)
      BY <1>1 DEF AllIds, Ids
    <2> QED BY <1>4, <2>1, OrderKept, DiskTyped DEF DirsOK, EvIInv
  <1>8. AckedOK' /\ RetainedOK'
    <2>1. \A i, e : Holds(i, e) => Holds(i, e)'
      BY <1>1 DEF Holds
    <2>2. AckedOK'
      BY <1>1, <1>4, <2>1 DEF EvIInv, AckedOK, tally
    <2>3. RetainedOK'
      BY <1>1, <1>4 DEF EvIInv, RetainedOK, AllFull, evFaults
    <2> QED BY <2>2, <2>3
  <1>9. WriterOK'
    BY <1>1, <1>3, <1>4 DEF EvIInv, WriterOK, AllFull, tally
  <1> QED BY <1>5, <1>6, <1>7, <1>8, <1>9 DEF EvIInv

\* The directory gets a new state.
LEMMA SetsDir ==
  ASSUME EvIInv, NEW d \in Directories, SetDir(d)
  PROVE  dirs' \in Seq(Directories) /\ dirs' # <<>> /\ dir' = d /\ ToSet(dirs)' = ToSet(dirs) \cup {d}
  BY AddsDir, DiskTyped DEF EvIInv, SetDir, dir

\* The generation .1 replaces .2, whose events are given up.
LEMMA ShiftKeeps ==
  ASSUME EvIInv, NEW w \in Writers, ShiftRetained(w)
  PROVE  EvIInv'
  <1>1. wpc[w] = "shift" /\ UNCHANGED <<file, durable, evLock, written, acked, fol, out, evFaults>>
    BY DEF ShiftRetained
  <1>2. dir \in Directories /\ dir \in ToSet(dirs)
    BY DiskTyped DEF EvIInv
  <1>3. CASE dir["1"] = None /\ EvGoto(w, "rename") /\ UNCHANGED <<dirs, dropped>>
    <2>1. /\ wpc'[w] = "rename" /\ \A v \in Writers \ {w} : wpc'[v] = "idle"
          /\ wpc' \in [Writers -> WriterLabels] /\ evLock' \in Writers \cup {NoWriter}
          /\ \A v \in Writers : wpc'[v] # "idle" <=> evLock' = v
      BY <1>1, <1>3, WriterMoves DEF EvIInv, WriterLabels
    <2>2. EvTypeOK'
      BY <1>1, <1>3, <2>1 DEF EvIInv, EvTypeOK, evFaults
    <2>3. WriterOK'
      BY <1>1, <1>3, <2>1 DEF EvIInv, WriterOK, AllFull, dir
    <2> QED BY <1>1, <1>3, <2>2, <2>3, DiskKept DEF EvIInv, disk, tally, evFaults
  <1>4. CASE /\ dir["1"] # None /\ EvGoto(w, "sync_shift") /\ SetDir(Rename(dir, "1", "2"))
             /\ dropped' = dropped \cup Ids(Contents(dir["2"]))
    <2> DEFINE d == Rename(dir, "1", "2")
    <2>1. d \in Directories /\ d["2"] = dir["1"] /\ d["1"] = None /\ d["active"] = dir["active"]
      BY <1>2 DEF Rename, Directories, Names
    <2>2. /\ wpc'[w] = "sync_shift" /\ \A v \in Writers \ {w} : wpc'[v] = "idle"
          /\ wpc' \in [Writers -> WriterLabels] /\ evLock' \in Writers \cup {NoWriter}
          /\ \A v \in Writers : wpc'[v] # "idle" <=> evLock' = v
      BY <1>1, <1>4, WriterMoves DEF EvIInv, WriterLabels
    <2>3. dirs' \in Seq(Directories) /\ dirs' # <<>> /\ dir' = d /\ ToSet(dirs)' = ToSet(dirs) \cup {d}
      BY <1>4, <2>1, SetsDir
    <2>4. Ids(Contents(dir["2"])) \subseteq Events
      <3>1. Contents(dir["2"]) \in EventFiles
        BY ContentsOK DEF Names
      <3> QED BY <3>1, FileFacts DEF Ids, EventRecords
    <2>5. EvTypeOK'
      BY <1>1, <1>4, <2>2, <2>3, <2>4 DEF EvIInv, EvTypeOK, evFaults, Directories
    <2>6. FilesOK' /\ FolOK' /\ ForwardOK' /\ OutOK'
      BY <1>1, <2>1, <2>3, DirectoryMoves DEF evFaults
    <2>7. DirsOK'
      <3>1. \A i \in Inodes : AllIds(i)' \subseteq AllIds(i)
        BY <1>1 DEF AllIds, Ids
      <3>2. DirOK(dir)
        BY <1>2 DEF EvIInv, DirsOK
      <3>3. DirOK(d)
        BY <2>1, <3>2 DEF DirOK, Below, Names
      <3>4. \A x \in ToSet(dirs) \cup {d} : DirOK(x)'
        BY <2>1, <3>1, <3>3, OrderKept, DiskTyped DEF DirsOK, EvIInv
      <3>5. \A x \in ToSet(dirs) \cup {d} : \A n \in {"1", "2"} : x[n] # None => x[n] # dir["active"]
        BY <1>2, <2>1, <3>2 DEF DirsOK, EvIInv
      <3> QED BY <2>1, <2>3, <3>4, <3>5 DEF DirsOK
    <2>8. AckedOK'
      <3> SUFFICES ASSUME NEW e \in acked \ (dropped \cup Ids(Contents(dir["2"]))),
                          NEW x \in ToSet(dirs) \cup {d}
                   PROVE  \E n \in Names : x[n] # None /\ Holds(x[n], e)'
        BY <1>1, <1>4, <2>3 DEF AckedOK
      <3>1. \A i : Holds(i, e) => Holds(i, e)'
        BY <1>1 DEF Holds
      <3>2. CASE x \in ToSet(dirs)
        BY <3>1, <3>2 DEF EvIInv, AckedOK
      <3>3. CASE x = d
        <4>1. PICK n \in Names : dir[n] # None /\ Holds(dir[n], e)
          BY <1>2 DEF EvIInv, AckedOK
        <4>2. n # "2"
          <5> SUFFICES ASSUME n = "2" PROVE FALSE
            OBVIOUS
          <5>1. Contents(dir["2"]) = file[dir["2"]]
            BY <4>1 DEF Contents
          <5>2. e \in Ids(file[dir["2"]])
            BY <4>1 DEF Holds, Ids
          <5> QED BY <5>1, <5>2
        <4>3. n = "1" \/ n = "active"
          BY <4>2 DEF Names
        <4>4. "2" \in Names /\ "active" \in Names
          BY DEF Names
        <4> QED BY <2>1, <3>1, <3>3, <4>1, <4>3, <4>4
      <3> QED BY <3>2, <3>3
    <2>9. RetainedOK'
      <3> SUFFICES ASSUME losses = 0, NEW x \in ToSet(dirs) \cup {d}, NEW n \in Names, x[n] # None,
                          x[n] # dir["active"]
                   PROVE  file[x[n]] # <<>> /\ AllFull(file[x[n]])
        BY <1>1, <2>1, <2>3 DEF RetainedOK, AllFull, evFaults
      <3>1. \E y \in ToSet(dirs), m \in Names : y[m] = x[n]
        BY <1>2, <2>1 DEF Names
      <3> QED BY <3>1 DEF EvIInv, RetainedOK
    <2>10. WriterOK'
      BY <1>1, <2>1, <2>2, <2>3 DEF EvIInv, WriterOK, AllFull
    <2> QED BY <2>5, <2>6, <2>7, <2>8, <2>9, <2>10 DEF EvIInv
  <1> QED BY <1>3, <1>4 DEF ShiftRetained

\* The full log becomes .1.
LEMMA RenameKeeps ==
  ASSUME EvIInv, NEW w \in Writers, RenameActive(w)
  PROVE  EvIInv'
  <1> DEFINE d == Rename(dir, "active", "1")
  <1>1. wpc[w] = "rename" /\ UNCHANGED <<file, durable, evLock, tally, fol, out, evFaults>>
        /\ EvGoto(w, "sync_rename") /\ SetDir(d)
    BY DEF RenameActive
  <1>2. dir \in Directories /\ dir \in ToSet(dirs)
    BY DiskTyped DEF EvIInv
  <1>3. d \in Directories /\ d["2"] = dir["2"] /\ d["1"] = dir["active"] /\ d["active"] = None
    BY <1>2 DEF Rename, Directories, Names
  <1>4. /\ wpc'[w] = "sync_rename" /\ \A v \in Writers \ {w} : wpc'[v] = "idle"
        /\ wpc' \in [Writers -> WriterLabels] /\ evLock' \in Writers \cup {NoWriter}
        /\ \A v \in Writers : wpc'[v] # "idle" <=> evLock' = v
    BY <1>1, WriterMoves DEF EvIInv, WriterLabels
  <1>5. dirs' \in Seq(Directories) /\ dirs' # <<>> /\ dir' = d /\ ToSet(dirs)' = ToSet(dirs) \cup {d}
    BY <1>1, <1>3, SetsDir
  <1>6. EvTypeOK'
    BY <1>1, <1>4, <1>5 DEF EvIInv, EvTypeOK, evFaults, tally, Directories
  <1>7. FilesOK' /\ FolOK' /\ ForwardOK' /\ OutOK'
    BY <1>1, <1>3, <1>5, DirectoryMoves DEF evFaults, tally
  <1>8. dir["1"] = None /\ dir["active"] # None /\ AllFull(file[dir["active"]])
        /\ file[dir["active"]] # <<>> /\ written < MaxEvents
    <2>1. dir["1"] = None /\ dir["active"] # None /\ AllFull(file[dir["active"]])
          /\ Len(file[dir["active"]]) >= MaxRecords /\ written < MaxEvents
      BY <1>1 DEF EvIInv, WriterOK
    <2>2. file[dir["active"]] \in EventFiles
      BY <2>1, DiskTyped DEF EvIInv, Names
    <2> QED BY <2>1, <2>2, FileFacts, BoundsAssumption
  <1>9. DirsOK'
    <2>1. \A i \in Inodes : AllIds(i)' \subseteq AllIds(i)
      BY <1>1 DEF AllIds, Ids
    <2>2. DirOK(dir)
      BY <1>2 DEF EvIInv, DirsOK
    <2>3. DirOK(d)
      BY <1>3, <1>8, <2>2 DEF DirOK, Below, Names
    <2>4. \A x \in ToSet(dirs) \cup {d} : DirOK(x)'
      BY <1>3, <2>1, <2>3, OrderKept, DiskTyped DEF DirsOK, EvIInv
    <2> QED BY <1>3, <1>5, <2>4 DEF DirsOK
  <1>10. AckedOK'
    <2> SUFFICES ASSUME NEW e \in acked \ dropped, NEW x \in ToSet(dirs) \cup {d}
                 PROVE  \E n \in Names : x[n] # None /\ Holds(x[n], e)'
      BY <1>1, <1>5 DEF AckedOK, tally
    <2>1. \A i : Holds(i, e) => Holds(i, e)'
      BY <1>1 DEF Holds
    <2>2. CASE x \in ToSet(dirs)
      BY <2>1, <2>2 DEF EvIInv, AckedOK
    <2>3. CASE x = d
      <3>1. PICK n \in Names : dir[n] # None /\ Holds(dir[n], e)
        BY <1>2 DEF EvIInv, AckedOK
      <3>2. n = "2" \/ n = "active"
        BY <3>1, <1>8 DEF Names
      <3>3. "2" \in Names /\ "1" \in Names
        BY DEF Names
      <3> QED BY <1>3, <2>1, <2>3, <3>1, <3>2, <3>3
    <2> QED BY <2>2, <2>3
  <1>11. RetainedOK'
    <2> SUFFICES ASSUME losses = 0, NEW x \in ToSet(dirs) \cup {d}, NEW n \in Names, x[n] # None
                 PROVE  file[x[n]] # <<>> /\ AllFull(file[x[n]])
      BY <1>1, <1>3, <1>5 DEF RetainedOK, AllFull, evFaults
    <2>1. \E y \in ToSet(dirs), m \in Names : y[m] = x[n]
      BY <1>2, <1>3 DEF Names
    <2> QED BY <1>8, <2>1 DEF EvIInv, RetainedOK
  <1>12. WriterOK'
    BY <1>1, <1>3, <1>4, <1>5, <1>8 DEF WriterOK, tally
  <1> QED BY <1>6, <1>7, <1>9, <1>10, <1>11, <1>12 DEF EvIInv

\* A missing log is created, with an inode that nobody uses.
LEMMA OpenKeeps ==
  ASSUME EvIInv, NEW w \in Writers, OpenActive(w)
  PROVE  EvIInv'
  <1>1. wpc[w] = "open" /\ UNCHANGED <<file, durable, evLock, tally, fol, out, evFaults>>
        /\ EvGoto(w, "sync_open")
    BY DEF OpenActive
  <1>2. dir \in Directories /\ dir \in ToSet(dirs)
    BY DiskTyped DEF EvIInv
  <1>3. /\ wpc'[w] = "sync_open" /\ \A v \in Writers \ {w} : wpc'[v] = "idle"
        /\ wpc' \in [Writers -> WriterLabels] /\ evLock' \in Writers \cup {NoWriter}
        /\ \A v \in Writers : wpc'[v] # "idle" <=> evLock' = v
    BY <1>1, WriterMoves DEF EvIInv, WriterLabels
  <1>4. CASE dir["active"] # None /\ UNCHANGED dirs
    <2>1. EvTypeOK'
      BY <1>1, <1>3, <1>4 DEF EvIInv, EvTypeOK, evFaults, tally
    <2>2. WriterOK'
      BY <1>1, <1>3, <1>4 DEF EvIInv, WriterOK, AllFull, dir, tally
    <2> QED BY <1>1, <1>4, <2>1, <2>2, DiskKept DEF EvIInv, disk, tally, evFaults
  <1>5. CASE dir["active"] = None /\ \E i \in Fresh : SetDir([dir EXCEPT !["active"] = i])
    <2>1. PICK i \in Fresh : SetDir([dir EXCEPT !["active"] = i])
      BY <1>5
    <2> DEFINE d == [dir EXCEPT !["active"] = i]
    <2>2. i \in Inodes /\ i # None /\ file[i] = <<>> /\ durable[i] = <<>>
          /\ \A x \in ToSet(dirs), n \in Names : x[n] # i
      BY DEF Fresh, Unused, ToSet, Inodes, None
    <2>3. d \in Directories /\ d["2"] = dir["2"] /\ d["1"] = dir["1"] /\ d["active"] = i
      BY <1>2, <2>2 DEF Directories, Names
    <2>4. dirs' \in Seq(Directories) /\ dirs' # <<>> /\ dir' = d /\ ToSet(dirs)' = ToSet(dirs) \cup {d}
      BY <2>1, <2>3, SetsDir
    <2>5. EvTypeOK'
      BY <1>1, <1>3, <2>4 DEF EvIInv, EvTypeOK, evFaults, tally, Directories
    <2>6. FilesOK' /\ FolOK' /\ ForwardOK' /\ OutOK'
      BY <1>1, <2>3, <2>4, DirectoryMoves DEF evFaults, tally
    <2>7. DirsOK'
      <3>1. \A j \in Inodes : AllIds(j)' \subseteq AllIds(j)
        BY <1>1 DEF AllIds, Ids
      <3>2. DirOK(dir)
        BY <1>2 DEF EvIInv, DirsOK
      <3>3. AllIds(i) = {}
        BY <2>2 DEF AllIds, Ids
      <3>4. d["2"] # i /\ d["1"] # i
        BY <1>2, <2>2, <2>3 DEF Names
      <3>5. DirOK(d)
        BY <2>3, <3>2, <3>3, <3>4 DEF DirOK, Below, Names
      <3>6. \A x \in ToSet(dirs) \cup {d} : DirOK(x)'
        BY <2>3, <3>1, <3>5, OrderKept, DiskTyped DEF DirsOK, EvIInv
      <3>7. \A x \in ToSet(dirs) \cup {d} : \A n \in {"1", "2"} : x[n] # i
        BY <2>2, <3>4 DEF Names
      <3> QED BY <2>3, <2>4, <3>6, <3>7 DEF DirsOK
    <2>8. AckedOK'
      <3> SUFFICES ASSUME NEW e \in acked \ dropped, NEW x \in ToSet(dirs) \cup {d}
                   PROVE  \E n \in Names : x[n] # None /\ Holds(x[n], e)'
        BY <1>1, <2>4 DEF AckedOK, tally
      <3>1. \A j : Holds(j, e) => Holds(j, e)'
        BY <1>1 DEF Holds
      <3>2. CASE x \in ToSet(dirs)
        BY <3>1, <3>2 DEF EvIInv, AckedOK
      <3>3. CASE x = d
        <4>1. PICK n \in Names : dir[n] # None /\ Holds(dir[n], e)
          BY <1>2 DEF EvIInv, AckedOK
        <4>2. d[n] = dir[n]
          BY <1>5, <2>3, <4>1 DEF Names
        <4> QED BY <3>1, <3>3, <4>1, <4>2
      <3> QED BY <3>2, <3>3
    <2>9. RetainedOK'
      <3> SUFFICES ASSUME losses = 0, NEW x \in ToSet(dirs) \cup {d}, NEW n \in Names, x[n] # None,
                          x[n] # i
                   PROVE  file[x[n]] # <<>> /\ AllFull(file[x[n]])
        BY <1>1, <2>3, <2>4 DEF RetainedOK, AllFull, evFaults
      <3>1. \E y \in ToSet(dirs), m \in Names : y[m] = x[n]
        BY <1>2, <2>3 DEF Names
      <3> QED BY <1>5, <3>1 DEF EvIInv, RetainedOK
    <2>10. WriterOK'
      <3>1. AllFull(file[i]) /\ Len(file[i]) < MaxRecords
        BY <2>2, BoundsAssumption DEF AllFull
      <3>2. written < MaxEvents
        BY <1>1 DEF EvIInv, WriterOK
      <3> QED BY <1>1, <1>3, <2>2, <2>3, <2>4, <3>1, <3>2 DEF WriterOK, AllFull, tally
    <2> QED BY <2>5, <2>6, <2>7, <2>8, <2>9, <2>10 DEF EvIInv
  <1>6. dir["active"] = None /\ Fresh # {} => \E i \in Fresh : i = CHOOSE j \in Fresh : TRUE
    OBVIOUS
  <1> QED BY <1>4, <1>5, <1>6 DEF OpenActive

-----------------------------------------------------------------------------
(* The event log: steps of a writer that change a file                     *)

\* What was terminated in the file s is still there in t, at the same place.
Extends(t, s) == \A k \in DOMAIN s : s[k].form = "full" => k \in DOMAIN t /\ t[k] = s[k]

\* The first n records of a file.
LEMMA PrefixFacts ==
  ASSUME NEW S, NEW s \in Seq(S), NEW n \in 0..Len(s)
  PROVE  /\ SubSeq(s, 1, n) \in Seq(S) /\ Len(SubSeq(s, 1, n)) = n
         /\ DOMAIN SubSeq(s, 1, n) = 1..n
         /\ \A j \in 1..n : SubSeq(s, 1, n)[j] = s[j]
  <1> DEFINE t == SubSeq(s, 1, n)
  <1>1. Len(s) \in Nat /\ \A k \in 1..Len(s) : s[k] \in S
    BY LenProperties, ElementOfSeq
  <1>2. 1 \in Int /\ n \in Nat /\ n \in Int /\ \A k \in 1..n : s[k] \in S
    BY <1>1
  <1>3. /\ t \in Seq(S) /\ Len(t) = IF 1 <= n THEN n - 1 + 1 ELSE 0
        /\ \A i \in 1..n - 1 + 1 : t[i] = s[1 + i - 1]
    BY <1>2, SubSeqProperties
  <1>4. Len(t) = n
    BY <1>2, <1>3
  <1>5. ASSUME NEW j \in 1..n PROVE t[j] = s[j]
    <2>1. j \in 1..n - 1 + 1 /\ 1 + j - 1 = j
      BY <1>2
    <2>2. t[j] = s[1 + j - 1]
      BY <1>3, <2>1
    <2> QED BY <2>1, <2>2
  <1> QED BY <1>3, <1>4, <1>5, LenProperties

\* A repair keeps the terminated records, terminates the last one or cuts it off.
LEMMA RepairedFacts ==
  ASSUME NEW s \in EventFiles, FileOK(s)
  PROVE  /\ Repaired(s) \in EventFiles /\ Extends(Repaired(s), s) /\ AllFull(Repaired(s))
         /\ FileOK(Repaired(s)) /\ Ids(Repaired(s)) \subseteq Ids(s)
         /\ AllFull(s) => Repaired(s) = s
  <1> DEFINE t == Repaired(s)
  <1>1. /\ s \in Seq(EventRecords) /\ Len(s) \in Nat /\ Len(s) <= MaxRecords
        /\ DOMAIN s = 1..Len(s) /\ \A k \in 1..Len(s) : s[k] \in EventRecords
        /\ s = <<>> <=> Len(s) = 0
    BY FileFacts
  <1>2. CASE s = <<>> \/ Last(s).form = "full"
    <2>1. t = s
      BY <1>2 DEF Repaired
    <2>2. AllFull(s)
      BY <1>1, <1>2 DEF AllFull, FileOK, Last
    <2> QED BY <2>1, <2>2 DEF Extends
  <1>3. CASE s # <<>> /\ Last(s).form # "full" /\ Last(s).form = "bare"
    <2>0. Len(s) \in Nat \ {0}
      BY <1>1, <1>3
    <2>1. t = [s EXCEPT ![Len(s)] = [s[Len(s)] EXCEPT !.form = "full"]]
      BY <1>3 DEF Repaired
    <2>2. [s[Len(s)] EXCEPT !.form = "full"] \in EventRecords
          /\ [s[Len(s)] EXCEPT !.form = "full"].id = s[Len(s)].id
          /\ [s[Len(s)] EXCEPT !.form = "full"].form = "full"
      BY <1>1, <1>3 DEF EventRecords, Forms
    <2>3. t \in Seq(EventRecords) /\ Len(t) = Len(s)
          /\ \A j \in 1..Len(s) : t[j] = IF j = Len(s) THEN [s[Len(s)] EXCEPT !.form = "full"] ELSE s[j]
      BY <1>1, <1>3, <2>1, <2>2, ExceptSeq
    <2>4. DOMAIN t = 1..Len(s) /\ \A j \in 1..Len(s) : t[j].id = s[j].id
      BY <2>2, <2>3, LenProperties
    <2>5. t \in EventFiles
      BY <1>1, <2>3, FileIs
    <2>6. Extends(t, s) /\ AllFull(t)
      <3>1. \A j \in 1..Len(s) : j # Len(s) => j \in 1..(Len(s) - 1)
        BY <2>0
      <3>2. \A j \in 1..Len(s) : j # Len(s) => t[j] = s[j] /\ s[j].form = "full"
        BY <2>3, <3>1 DEF FileOK
      <3>3. t[Len(s)].form = "full" /\ s[Len(s)].form # "full"
        <4>1. Len(s) \in 1..Len(s)
          BY <2>0
        <4> QED BY <1>3, <4>1, <2>2, <2>3 DEF Last
      <3> QED BY <1>1, <2>4, <3>2, <3>3 DEF Extends, AllFull
    <2>7. FileOK(t)
      BY <1>1, <2>3, <2>4, <2>6 DEF FileOK, AllFull
    <2>8. Ids(t) \subseteq Ids(s) /\ ~AllFull(s)
      BY <1>1, <1>3, <2>4 DEF Ids, AllFull, Last
    <2> QED BY <2>5, <2>6, <2>7, <2>8
  <1>4. CASE s # <<>> /\ Last(s).form # "full" /\ Last(s).form # "bare"
    <2>1. t = SubSeq(s, 1, Len(s) - 1)
      BY <1>4 DEF Repaired, Front
    <2>2. Len(s) \in Nat \ {0}
      BY <1>1, <1>4
    <2>3. t \in Seq(EventRecords) /\ Len(t) = Len(s) - 1 /\ \A j \in 1..(Len(s) - 1) : t[j] = s[j]
      <3>1. Len(s) - 1 \in 0..Len(s)
        BY <2>2
      <3> QED BY <1>1, <2>1, <3>1, PrefixFacts
    <2>4. DOMAIN t = 1..(Len(s) - 1)
      BY <2>3, LenProperties
    <2>5. t \in EventFiles
      BY <1>1, <2>2, <2>3, FileIs, BoundsAssumption
    <2>6. Extends(t, s) /\ AllFull(t)
      BY <1>1, <1>4, <2>2, <2>3, <2>4 DEF Extends, AllFull, FileOK, Last
    <2>7. FileOK(t)
      BY <1>1, <2>2, <2>3, <2>4 DEF FileOK
    <2>8. Ids(t) \subseteq Ids(s) /\ ~AllFull(s)
      BY <1>1, <1>4, <2>2, <2>3, <2>4 DEF Ids, AllFull, Last
    <2> QED BY <2>5, <2>6, <2>7, <2>8
  <1> QED BY <1>2, <1>3, <1>4

\* The files change, the directory and what is synced do not.
LEMMA HoldsOn ==
  ASSUME EvIInv, NEW i \in Inodes, Extends(file'[i], file[i]), NEW e, Holds(i, e),
         durable'[i] = durable[i]
  PROVE  Holds(i, e)'
  <1>1. PICK p \in DOMAIN file[i] :
          /\ file[i][p] = [id |-> e, form |-> "full"]
          /\ p \in DOMAIN durable[i] /\ \A q \in 1..p : file[i][q] = durable[i][q]
    BY DEF Holds
  <1>2. DOMAIN file[i] = 1..Len(file[i]) /\ Len(file[i]) \in Nat
    BY DiskTyped, FileFacts DEF EvIInv
  <1>3. \A q \in 1..p : q \in DOMAIN file[i] /\ file[i][q].form = "full"
    BY <1>1, <1>2 DEF EvIInv, FilesOK, FileOK
  <1>4. \A q \in 1..p : q \in DOMAIN file'[i] /\ file'[i][q] = file[i][q]
    BY <1>3 DEF Extends
  <1>5. p \in 1..p
    BY <1>2
  <1> QED BY <1>1, <1>4, <1>5 DEF Holds

\* What the follower has emitted are numbers of events.
LEMMA OutTyped ==
  ASSUME EvTypeOK
  PROVE  /\ out \in Seq(Events) /\ Len(out) \in Nat /\ DOMAIN out = 1..Len(out)
         /\ \A k \in DOMAIN out : out[k] \in Events /\ out[k] \in Nat
  <1>1. out \in Seq(Events)
    BY DEF EvTypeOK
  <1>2. Len(out) \in Nat /\ DOMAIN out = 1..Len(out)
    BY <1>1, LenProperties
  <1>3. \A k \in DOMAIN out : out[k] \in Events
    BY <1>1, <1>2, ElementOfSeq
  <1> QED BY <1>1, <1>2, <1>3, BoundsAssumption DEF Events

\* What the follower has read and emitted stays.
LEMMA ReadStays ==
  ASSUME EvIInv, (EvTypeOK)', UNCHANGED <<fol, out, losses>>, written' \in {written, written + 1},
         \A i \in Inodes : Extends(file'[i], file[i])
  PROVE  FolOK' /\ OutOK'
  <1>1. OutOK'
    <2>1. \A k \in DOMAIN out : out[k] <= written'
      <3>1. written \in Nat /\ \A k \in DOMAIN out : out[k] \in Nat
        BY OutTyped DEF EvIInv, EvTypeOK
      <3> QED BY <3>1 DEF EvIInv, OutOK
    <2>2. ASSUME losses = 0, NEW k \in DOMAIN out
          PROVE  \E i \in Inodes : \E p \in DOMAIN file'[i] : file'[i][p] = [id |-> out[k], form |-> "full"]
      <3>1. PICK i \in Inodes : \E p \in DOMAIN file[i] : file[i][p] = [id |-> out[k], form |-> "full"]
        BY <2>2 DEF EvIInv, OutOK
      <3> QED BY <3>1 DEF Extends
    <2> QED BY <2>1, <2>2 DEF OutOK
  <1>2. FolOK'
    <2> SUFFICES ASSUME fol.pc # "done"
                 PROVE  /\ fol.off <= Len(Contents(fol.cur)')
                        /\ \A q \in 1..fol.off : Contents(fol.cur)'[q].form = "full"
      BY DEF EvIInv, FolOK
    <2>1. fol.off \in Nat /\ fol.off <= Len(Contents(fol.cur))
          /\ \A q \in 1..fol.off : Contents(fol.cur)[q].form = "full"
      BY DEF EvIInv, FolOK, EvTypeOK, Followers
    <2>2. CASE fol.cur = None
      BY <2>1, <2>2 DEF Contents
    <2>3. CASE fol.cur \in Inodes
      <3>1. Contents(fol.cur) = file[fol.cur] /\ Contents(fol.cur)' = file'[fol.cur]
        BY <2>3 DEF Contents, Inodes, None
      <3>2. DOMAIN file[fol.cur] = 1..Len(file[fol.cur]) /\ Len(file[fol.cur]) \in Nat
        BY <2>3, DiskTyped, FileFacts DEF EvIInv
      <3>3. file'[fol.cur] \in EventFiles
        BY <2>3 DEF EvTypeOK, EventFiles
      <3>4. DOMAIN file'[fol.cur] = 1..Len(file'[fol.cur]) /\ Len(file'[fol.cur]) \in Nat
        BY <3>3, FileFacts
      <3>5. \A q \in 1..fol.off : q \in DOMAIN file'[fol.cur] /\ file'[fol.cur][q].form = "full"
        BY <2>1, <2>3, <3>1, <3>2 DEF Extends
      <3>6. fol.off <= Len(file'[fol.cur])
        <4>1. CASE fol.off = 0 BY <3>4, <4>1
        <4>2. CASE fol.off # 0
          <5>1. fol.off \in 1..fol.off BY <2>1, <4>2
          <5> QED BY <3>4, <3>5, <5>1
        <4> QED BY <4>1, <4>2
      <3> QED BY <3>1, <3>5, <3>6
    <2> QED BY <2>2, <2>3 DEF EvIInv, EvTypeOK, Followers
  <1> QED BY <1>1, <1>2

\* The tail is repaired.
LEMMA RepairKeeps ==
  ASSUME EvIInv, NEW w \in Writers, Repair(w)
  PROVE  EvIInv'
  <1>1. wpc[w] = "repair" /\ UNCHANGED <<dirs, durable, evLock, tally, fol, out, evFaults>>
        /\ dir' = dir /\ ToSet(dirs)' = ToSet(dirs) /\ written < MaxEvents
    BY DEF Repair, EvIInv, WriterOK, dir
  <1>2. dir \in Directories /\ dir \in ToSet(dirs)
    BY DiskTyped DEF EvIInv
  <1>3. CASE dir["active"] = None /\ EvGoto(w, "open") /\ UNCHANGED file
    <2>1. /\ wpc'[w] = "open" /\ \A v \in Writers \ {w} : wpc'[v] = "idle"
          /\ wpc' \in [Writers -> WriterLabels] /\ evLock' \in Writers \cup {NoWriter}
          /\ \A v \in Writers : wpc'[v] # "idle" <=> evLock' = v
      BY <1>1, <1>3, WriterMoves DEF EvIInv, WriterLabels
    <2>2. EvTypeOK'
      BY <1>1, <1>3, <2>1 DEF EvIInv, EvTypeOK, evFaults, tally
    <2>3. WriterOK'
      BY <1>1, <1>3, <2>1 DEF WriterOK, tally
    <2> QED BY <1>1, <1>3, <2>2, <2>3, DiskKept DEF EvIInv, disk, tally, evFaults
  <1>4. CASE /\ dir["active"] # None
             /\ file' = [file EXCEPT ![dir["active"]] = Repaired(file[dir["active"]])]
             /\ EvGoto(w, IF Repaired(file[dir["active"]]) = file[dir["active"]]
                          THEN "rotate" ELSE "sync_repair")
    <2> DEFINE a == dir["active"]
               label == IF Repaired(file[a]) = file[a] THEN "rotate" ELSE "sync_repair"
    <2>1. a \in Inodes /\ file \in [Inodes -> EventFiles] /\ durable \in [Inodes -> EventFiles]
      BY <1>4, DiskTyped DEF EvIInv, Names
    <2>2. /\ Repaired(file[a]) \in EventFiles /\ Extends(Repaired(file[a]), file[a])
          /\ AllFull(Repaired(file[a])) /\ FileOK(Repaired(file[a]))
          /\ Ids(Repaired(file[a])) \subseteq Ids(file[a])
          /\ AllFull(file[a]) => Repaired(file[a]) = file[a]
      BY <2>1, RepairedFacts DEF EvIInv, FilesOK
    <2>3. /\ file' \in [Inodes -> EventFiles] /\ file'[a] = Repaired(file[a])
          /\ \A i \in Inodes \ {a} : file'[i] = file[i]
      BY <1>4, <2>1, <2>2
    <2>4. \A i \in Inodes : Extends(file'[i], file[i]) /\ Ids(file'[i]) \subseteq Ids(file[i])
      BY <2>2, <2>3 DEF Extends
    <2>5. /\ wpc'[w] = label /\ \A v \in Writers \ {w} : wpc'[v] = "idle"
          /\ wpc' \in [Writers -> WriterLabels] /\ evLock' \in Writers \cup {NoWriter}
          /\ \A v \in Writers : wpc'[v] # "idle" <=> evLock' = v
      <3>1. label \in WriterLabels /\ label # "idle" /\ EvGoto(w, label)
        BY <1>4 DEF WriterLabels
      <3> QED BY <1>1, <3>1, WriterMoves DEF EvIInv
    <2>6. EvTypeOK'
      BY <1>1, <2>3, <2>5 DEF EvIInv, EvTypeOK, evFaults, tally, EventFiles
    <2>7. FilesOK'
      <3>1. \A s : FileOK(s) => FileOK(s)'
        BY <1>1 DEF FileOK, tally
      <3>2. \A i \in Inodes : FileOK(file'[i]) /\ FileOK(durable'[i])
        BY <1>1, <2>2, <2>3 DEF EvIInv, FilesOK
      <3> QED BY <1>1, <3>2 DEF FilesOK, FileOK, tally
    <2>8. DirsOK'
      <3>1. \A i \in Inodes : AllIds(i)' \subseteq AllIds(i)
        <4>1. \A i \in Inodes : Ids(file[i])' = Ids(file'[i]) /\ Ids(durable[i])' = Ids(durable[i])
          BY <1>1 DEF Ids
        <4> QED BY <2>4, <4>1 DEF AllIds
      <3> QED BY <1>1, <3>1, OrderKept, DiskTyped DEF DirsOK, EvIInv
    <2>9. AckedOK'
      <3>1. \A e : \A i \in Inodes : Holds(i, e) => Holds(i, e)'
        BY <1>1, <2>4, HoldsOn
      <3> QED BY <1>1, <3>1, DiskTyped DEF EvIInv, AckedOK, tally
    <2>10. RetainedOK'
      <3>1. \A d \in ToSet(dirs), n \in Names : d[n] # None => d[n] \in Inodes
        BY DiskTyped DEF EvIInv
      <3> QED BY <1>1, <2>3, <3>1 DEF EvIInv, RetainedOK, AllFull, evFaults
    <2>11. FolOK' /\ OutOK'
      BY <1>1, <2>4, <2>6, ReadStays DEF tally, evFaults
    <2>12. ForwardOK'
      <3>1. CASE torn = 0 /\ losses = 0
        <4>1. file' = file
          BY <1>4, <2>1, <2>2, <3>1 DEF EvIInv, ForwardOK
        <4> QED BY <1>1, <4>1, DiskKept DEF disk, tally, evFaults
      <3>2. CASE torn # 0 \/ losses # 0
        <4>1. torn # 0 \/ fol.pc = "done"
          BY <3>2 DEF EvIInv, FolOK
        <4> QED BY <1>1, <3>2, <4>1 DEF EvIInv, ForwardOK, Increasing, Attached, evFaults
      <3> QED BY <3>1, <3>2
    <2>13. WriterOK'
      BY <1>1, <1>4, <2>2, <2>3, <2>5 DEF WriterOK, AllFull, tally
    <2> QED BY <2>6, <2>7, <2>8, <2>9, <2>10, <2>11, <2>12, <2>13 DEF EvIInv
  <1> QED BY <1>3, <1>4 DEF Repair

\* The active file is synced; its records were written before.
LEMMA SyncsActive ==
  ASSUME EvIInv, dir["active"] # None, UNCHANGED <<dirs, file, written, fol, out, torn, losses>>,
         durable' = [durable EXCEPT ![dir["active"]] = file[dir["active"]]]
  PROVE  /\ durable' \in [Inodes -> EventFiles]
         /\ FilesOK' /\ DirsOK' /\ RetainedOK' /\ FolOK' /\ ForwardOK' /\ OutOK'
         /\ dir' = dir /\ ToSet(dirs)' = ToSet(dirs)
         /\ \A e : \A i \in Inodes : Holds(i, e) => Holds(i, e)'
         /\ \A e : \A p \in DOMAIN file[dir["active"]] :
              file[dir["active"]][p] = [id |-> e, form |-> "full"] => Holds(dir["active"], e)'
  <1> DEFINE a == dir["active"]
  <1>1. a \in Inodes /\ file \in [Inodes -> EventFiles] /\ durable \in [Inodes -> EventFiles]
    BY DiskTyped DEF EvIInv, Names
  <1>2. durable' \in [Inodes -> EventFiles] /\ durable'[a] = file[a]
        /\ \A i \in Inodes \ {a} : durable'[i] = durable[i]
    BY <1>1
  <1>3. dir' = dir /\ ToSet(dirs)' = ToSet(dirs)
    BY DEF dir
  <1>4. FilesOK'
    <2>1. \A i \in Inodes : FileOK(file'[i]) /\ FileOK(durable'[i])
      BY <1>1, <1>2 DEF EvIInv, FilesOK
    <2> QED BY <2>1 DEF FilesOK, FileOK
  <1>5. DirsOK'
    <2>1. \A i \in Inodes : AllIds(i)' \subseteq AllIds(i)
      <3>1. \A i \in Inodes : Ids(file[i])' = Ids(file[i]) /\ Ids(durable[i])' = Ids(durable'[i])
        BY DEF Ids
      <3> QED BY <1>2, <3>1 DEF AllIds
    <2> QED BY <1>3, <2>1, OrderKept, DiskTyped DEF DirsOK, EvIInv
  <1>6. RetainedOK' /\ FolOK' /\ OutOK'
    BY <1>3 DEF EvIInv, RetainedOK, AllFull, FolOK, Contents, OutOK
  <1>7. ForwardOK'
    BY <1>3 DEF EvIInv, ForwardOK, ReadOK, Increasing, AllFull, IdsBelow, OutBelow, Ids
  <1>8. ASSUME NEW e, NEW i \in Inodes, Holds(i, e) PROVE Holds(i, e)'
    <2>1. CASE i = a
      BY <1>2, <1>8, <2>1 DEF Holds
    <2>2. CASE i # a
      BY <1>2, <1>8, <2>2 DEF Holds
    <2> QED BY <2>1, <2>2
  <1>9. ASSUME NEW e, NEW p \in DOMAIN file[a], file[a][p] = [id |-> e, form |-> "full"]
        PROVE  Holds(a, e)'
    BY <1>2, <1>3, <1>9 DEF Holds
  <1> QED BY <1>2, <1>3, <1>4, <1>5, <1>6, <1>7, <1>8, <1>9

\* The repair is synced.
LEMMA SyncRepairKeeps ==
  ASSUME EvIInv, NEW w \in Writers, SyncRepair(w)
  PROVE  EvIInv'
  <1>1. /\ wpc[w] = "sync_repair" /\ EvGoto(w, "rotate")
        /\ UNCHANGED <<dirs, file, evLock, tally, fol, out, evFaults>>
        /\ durable' = [durable EXCEPT ![dir["active"]] = file[dir["active"]]]
    BY DEF SyncRepair
  <1>2. dir["active"] # None /\ AllFull(file[dir["active"]]) /\ written < MaxEvents
    BY <1>1 DEF EvIInv, WriterOK
  <1>3. /\ durable' \in [Inodes -> EventFiles]
        /\ FilesOK' /\ DirsOK' /\ RetainedOK' /\ FolOK' /\ ForwardOK' /\ OutOK'
        /\ dir' = dir /\ ToSet(dirs)' = ToSet(dirs)
        /\ \A e : \A i \in Inodes : Holds(i, e) => Holds(i, e)'
    BY <1>1, <1>2, SyncsActive DEF tally, evFaults
  <1>4. /\ wpc'[w] = "rotate" /\ \A v \in Writers \ {w} : wpc'[v] = "idle"
        /\ wpc' \in [Writers -> WriterLabels] /\ evLock' \in Writers \cup {NoWriter}
        /\ \A v \in Writers : wpc'[v] # "idle" <=> evLock' = v
    BY <1>1, WriterMoves DEF EvIInv, WriterLabels
  <1>5. EvTypeOK'
    BY <1>1, <1>3, <1>4 DEF EvIInv, EvTypeOK, evFaults, tally, EventFiles
  <1>6. AckedOK'
    BY <1>1, <1>3, DiskTyped DEF EvIInv, AckedOK, tally
  <1>7. WriterOK'
    BY <1>1, <1>2, <1>3, <1>4 DEF WriterOK, AllFull, tally
  <1> QED BY <1>3, <1>5, <1>6, <1>7 DEF EvIInv

\* The record is synced and its event acknowledged.
LEMMA SyncRecordKeeps ==
  ASSUME EvIInv, NEW w \in Writers, SyncRecord(w)
  PROVE  EvIInv'
  <1> DEFINE a == dir["active"]
             e == Last(file[a]).id
  <1>1. /\ wpc[w] = "sync" /\ EvGoto(w, "idle") /\ evLock' = NoWriter
        /\ UNCHANGED <<dirs, file, written, dropped, fol, out, evFaults>>
        /\ durable' = [durable EXCEPT ![a] = file[a]] /\ acked' = acked \cup {e}
    BY DEF SyncRecord, EvRelease
  <1>2. a # None /\ AllFull(file[a]) /\ file[a] # <<>> /\ ToSet(dirs) = {dir}
    BY <1>1 DEF EvIInv, WriterOK
  <1>3. /\ durable' \in [Inodes -> EventFiles]
        /\ FilesOK' /\ DirsOK' /\ RetainedOK' /\ FolOK' /\ ForwardOK' /\ OutOK'
        /\ dir' = dir /\ ToSet(dirs)' = ToSet(dirs)
        /\ \A x : \A i \in Inodes : Holds(i, x) => Holds(i, x)'
        /\ \A x : \A p \in DOMAIN file[a] :
             file[a][p] = [id |-> x, form |-> "full"] => Holds(a, x)'
    BY <1>1, <1>2, SyncsActive DEF evFaults
  <1>4. /\ \A v \in Writers : wpc'[v] = "idle"
        /\ wpc' \in [Writers -> WriterLabels] /\ evLock' \in Writers \cup {NoWriter}
        /\ \A v \in Writers : wpc'[v] # "idle" <=> evLock' = v
    BY <1>1, WriterMoves DEF EvIInv, WriterLabels
  <1>5. Len(file[a]) \in DOMAIN file[a] /\ file[a][Len(file[a])] = [id |-> e, form |-> "full"]
        /\ e \in Events
    <2>1. file[a] \in EventFiles
      BY <1>2, DiskTyped DEF EvIInv, Names
    <2>2. Len(file[a]) \in DOMAIN file[a] /\ file[a][Len(file[a])] \in EventRecords
      BY <1>2, <2>1, FileFacts
    <2>3. file[a][Len(file[a])].form = "full"
      BY <1>2, <2>2 DEF AllFull
    <2> QED BY <2>2, <2>3 DEF EventRecords, Last
  <1>6. EvTypeOK'
    BY <1>1, <1>3, <1>4, <1>5 DEF EvIInv, EvTypeOK, evFaults, EventFiles
  <1>7. AckedOK'
    <2>1. (\A x : x = e => Holds(a, x)') /\ "active" \in Names
      BY <1>3, <1>5 DEF Names
    <2>2. \A x \in acked \ dropped : \E n \in Names : dir[n] # None /\ Holds(dir[n], x)'
      BY <1>3, DiskTyped DEF EvIInv, AckedOK
    <2> QED BY <1>1, <1>2, <1>3, <2>1, <2>2 DEF AckedOK
  <1>8. WriterOK'
    BY <1>4 DEF WriterOK
  <1> QED BY <1>3, <1>6, <1>7, <1>8 DEF EvIInv

\* A record is written, with the highest number so far.
LEMMA WriteKeeps ==
  ASSUME EvIInv, NEW w \in Writers, WriteRecord(w)
  PROVE  EvIInv'
  <1> DEFINE a == dir["active"]
  <1>1. PICK form \in Forms :
          /\ file' = [file EXCEPT ![a] = Append(file[a], [id |-> written', form |-> form])]
          /\ IF form = "full"
             THEN EvGoto(w, "sync") /\ UNCHANGED <<evLock, torn>>
             ELSE torn < MaxTorn /\ torn' = torn + 1 /\ EvRelease(w)
    BY DEF WriteRecord
  <1>2. /\ wpc[w] = "write" /\ written' = written + 1
        /\ UNCHANGED <<dirs, durable, acked, dropped, fol, out, aborts, losses>>
        /\ dir' = dir /\ ToSet(dirs)' = ToSet(dirs)
    BY DEF WriteRecord, dir
  <1>3. /\ a # None /\ AllFull(file[a]) /\ Len(file[a]) < MaxRecords
        /\ written < MaxEvents /\ ToSet(dirs) = {dir}
    BY <1>2 DEF EvIInv, WriterOK
  <1>4. /\ a \in Inodes /\ file \in [Inodes -> EventFiles] /\ durable \in [Inodes -> EventFiles]
        /\ dir \in Directories
    BY <1>3, DiskTyped DEF EvIInv, Names
  <1>5. written \in Nat /\ written + 1 \in 0..MaxEvents /\ written + 1 \in Events
    BY <1>3, BoundsAssumption DEF EvIInv, EvTypeOK, Events
  <1> DEFINE rec == [id |-> written + 1, form |-> form]
             s == file[a]
             t == Append(s, rec)
  <1>6. rec \in EventRecords /\ rec.id = written + 1 /\ rec.form = form
    BY <1>5 DEF EventRecords
  <1>7. /\ s \in Seq(EventRecords) /\ Len(s) \in Nat /\ DOMAIN s = 1..Len(s)
        /\ \A k \in 1..Len(s) : s[k] \in EventRecords
    BY <1>4, FileFacts
  <1>8. /\ t \in EventFiles /\ t # <<>> /\ DOMAIN t = 1..(Len(s) + 1) /\ t[Len(s) + 1] = rec
        /\ Len(t) = Len(s) + 1 /\ \A k \in 1..Len(s) : t[k] = s[k]
    <2>1. t \in Seq(EventRecords) /\ t # <<>> /\ Len(t) = Len(s) + 1 /\ t[Len(s) + 1] = rec
          /\ \A k \in 1..Len(s) : t[k] = s[k]
      BY <1>6, <1>7, AppendProperties
    <2>2. Len(t) <= MaxRecords
      BY <1>3, <1>7, <2>1, BoundsAssumption
    <2> QED BY <2>1, <2>2, FileIs, LenProperties
  <1>9. file' \in [Inodes -> EventFiles] /\ file'[a] = t /\ \A i \in Inodes \ {a} : file'[i] = file[i]
    <2>1. file' = [file EXCEPT ![a] = t]
      BY <1>1, <1>2
    <2> QED BY <1>4, <1>8, <2>1
  <1>10. \A i \in Inodes : Extends(file'[i], file[i])
    <2>1. \A k \in DOMAIN s : k \in DOMAIN t /\ t[k] = s[k]
      BY <1>7, <1>8
    <2> HIDE DEF s, t
    <2>2. Extends(t, s)
      BY <2>1 DEF Extends
    <2>3. ASSUME NEW i \in Inodes PROVE Extends(file'[i], file[i])
      <3>1. CASE i = a
        BY <1>9, <2>2, <3>1 DEF s
      <3>2. CASE i # a
        BY <1>9, <3>2 DEF Extends
      <3> QED BY <3>1, <3>2
    <2> QED BY <2>3
  <1>11. Ids(t) = Ids(s) \cup {written + 1}
    <2>1. \A k \in DOMAIN t : k \in DOMAIN s \/ k = Len(s) + 1
      BY <1>7, <1>8
    <2>2. Len(s) + 1 \in DOMAIN t
      BY <1>7, <1>8
    <2>3. \A k \in DOMAIN s : k \in DOMAIN t /\ t[k] = s[k]
      BY <1>7, <1>8
    <2>4. t[Len(s) + 1].id = written + 1
      BY <1>6, <1>8
    <2> HIDE DEF s, t
    <2>5. Ids(t) \subseteq Ids(s) \cup {written + 1}
      BY <2>1, <2>3, <2>4 DEF Ids
    <2>6. Ids(s) \cup {written + 1} \subseteq Ids(t)
      BY <2>2, <2>3, <2>4 DEF Ids
    <2> QED BY <2>5, <2>6
  <1>12. /\ \A i \in Inodes : \A x \in AllIds(i) : x \in Nat /\ x <= written
         /\ \A i \in Inodes : Ids(file[i]) \subseteq AllIds(i)
    <2>1. \A i \in Inodes : \A x \in AllIds(i) : x <= written
      BY DEF EvIInv, FilesOK, FileOK, AllIds, Ids
    <2>2. ASSUME NEW f \in EventFiles, NEW x \in Ids(f) PROVE x \in Nat
      <3>1. x \in Events
        BY FileFacts DEF Ids, EventRecords
      <3> QED BY <3>1 DEF Events
    <2> QED BY <1>4, <2>1, <2>2 DEF AllIds
  <1>13. /\ wpc'[w] \in {"sync", "idle"} /\ (wpc'[w] = "sync" => form = "full")
         /\ \A v \in Writers \ {w} : wpc'[v] = "idle"
         /\ wpc' \in [Writers -> WriterLabels] /\ evLock' \in Writers \cup {NoWriter}
         /\ \A v \in Writers : wpc'[v] # "idle" <=> evLock' = v
    <2>1. CASE form = "full"
      <3>1. EvGoto(w, "sync") /\ evLock' = evLock
        BY <1>1, <2>1
      <3> QED BY <1>2, <2>1, <3>1, WriterMoves DEF EvIInv, WriterLabels
    <2>2. CASE form # "full"
      <3>1. EvGoto(w, "idle") /\ evLock' = NoWriter
        BY <1>1, <2>2 DEF EvRelease
      <3> QED BY <1>2, <2>2, <3>1, WriterMoves DEF EvIInv, WriterLabels
    <2> QED BY <2>1, <2>2
  <1>14. torn' \in 0..MaxTorn /\ (torn' = 0 => form = "full" /\ torn = 0)
    BY <1>1, BoundsAssumption DEF EvIInv, EvTypeOK
  <1>15. EvTypeOK'
    BY <1>2, <1>5, <1>9, <1>13, <1>14 DEF EvIInv, EvTypeOK, EventFiles
  <1>16. FilesOK'
    <2>1. \A i \in Inodes : FileOK(durable[i])' /\ (i # a => FileOK(file[i])')
      <3>1. ASSUME NEW f \in EventFiles, FileOK(f) PROVE \A k \in DOMAIN f : f[k].id <= written + 1
        <4>1. \A k \in DOMAIN f : f[k].id \in Nat
          BY FileFacts DEF EventRecords, Events
        <4> QED BY <1>5, <3>1, <4>1 DEF FileOK
      <3>2. \A i \in Inodes : FileOK(durable[i]) /\ FileOK(file[i])
        BY DEF EvIInv, FilesOK
      <3>3. ASSUME NEW f \in EventFiles, FileOK(f) PROVE FileOK(f)'
        BY <1>2, <3>1, <3>3 DEF FileOK
      <3>4. ASSUME NEW i \in Inodes PROVE FileOK(durable[i])' /\ (i # a => FileOK(file[i])')
        <4>1. durable[i] \in EventFiles /\ file[i] \in EventFiles
          BY <1>4
        <4>2. PICK f : f = durable[i]
          OBVIOUS
        <4>3. PICK g : g = file[i]
          OBVIOUS
        <4>4. FileOK(f)' /\ FileOK(g)'
          BY <3>2, <3>3, <4>1, <4>2, <4>3
        <4>5. durable'[i] = f /\ (i # a => file'[i] = g)
          BY <1>2, <1>9, <4>2, <4>3
        <4> QED BY <4>4, <4>5
      <3> QED BY <3>4
    <2>2. \A j, k \in DOMAIN t : j < k => t[j].id < t[k].id
      <3> TAKE j, k \in DOMAIN t
      <3> HAVE j < k
      <3>1. j \in DOMAIN s /\ t[j] = s[j] /\ s[j].id <= written /\ s[j].id \in Nat
        BY <1>4, <1>7, <1>8 DEF EvIInv, FilesOK, FileOK, EventRecords, Events
      <3>2. CASE k \in DOMAIN s
        BY <1>4, <1>7, <1>8, <3>1, <3>2 DEF EvIInv, FilesOK, FileOK
      <3>3. CASE k = Len(s) + 1
        BY <1>5, <1>6, <1>8, <3>1, <3>3
      <3> QED BY <1>7, <1>8, <3>2, <3>3
    <2>3. \A k \in 1..(Len(t) - 1) : t[k].form = "full"
      BY <1>3, <1>7, <1>8 DEF AllFull
    <2>4. \A k \in DOMAIN t : t[k].id <= written + 1
      <3>1. \A k \in DOMAIN t : t[k].id \in Ids(t)
        BY DEF Ids
      <3>2. \A x \in Ids(s) : x <= written + 1
        BY <1>4, <1>5, <1>12
      <3> QED BY <1>5, <1>11, <3>1, <3>2
    <2>5. \A i \in Inodes : i = a => FileOK(file[i])'
      <3> TAKE i \in Inodes
      <3> HAVE i = a
      <3>1. file'[i] = t
        BY <1>9
      <3> QED BY <1>2, <2>2, <2>3, <2>4, <3>1 DEF FileOK
    <2> QED BY <2>1, <2>5 DEF FilesOK
  <1>17. /\ \A i \in Inodes : i # a => AllIds(i)' = AllIds(i) /\ Ids(file[i])' = Ids(file[i])
         /\ \A i \in Inodes : i = a =>
              AllIds(i)' = AllIds(i) \cup {written + 1} /\ Ids(file[i])' = Ids(file[i]) \cup {written + 1}
    <2>1. \A i \in Inodes : Ids(file[i])' = Ids(file'[i]) /\ Ids(durable[i])' = Ids(durable[i])
      BY <1>2 DEF Ids
    <2> QED BY <1>9, <1>11, <2>1 DEF AllIds
  <1>18. DirsOK'
    <2>1. DirOK(dir) /\ dir["2"] # a /\ dir["1"] # a
      BY <1>3 DEF EvIInv, DirsOK
    <2>2. ASSUME NEW m \in {"1", "2"}, Below(dir[m], a) PROVE Below(dir[m], a)'
      <3>1. dir[m] # None => dir[m] \in Inodes /\ dir[m] # a
        BY <1>4, <2>1 DEF Directories, Names
      <3> QED BY <1>2, <1>3, <1>4, <1>5, <1>12, <1>17, <2>2, <3>1 DEF Below
    <2>3. Below(dir["2"], dir["1"]) => Below(dir["2"], dir["1"])'
      <3>1. \A n \in {"1", "2"} : dir[n] # None => dir[n] \in Inodes /\ dir[n] # a
        BY <1>4, <2>1 DEF Directories, Names
      <3> QED BY <1>2, <1>17, <3>1 DEF Below
    <2>4. DirOK(dir)'
      BY <1>2, <2>1, <2>2, <2>3 DEF DirOK
    <2> QED BY <1>2, <1>3, <2>1, <2>4 DEF DirsOK
  <1>19. AckedOK'
    <2>1. \A e : \A i \in Inodes : Holds(i, e) => Holds(i, e)'
      BY <1>2, <1>10, HoldsOn
    <2> QED BY <1>2, <2>1, DiskTyped DEF EvIInv, AckedOK
  <1>20. RetainedOK'
    <2>1. \A d \in ToSet(dirs), n \in Names : d[n] # None => d[n] \in Inodes
      BY DiskTyped DEF EvIInv
    <2>2. \A i \in Inodes : i # a /\ AllFull(file[i]) => AllFull(file[i])'
      BY <1>9 DEF AllFull
    <2> QED BY <1>2, <1>9, <2>1, <2>2 DEF EvIInv, RetainedOK
  <1>21. FolOK' /\ OutOK'
    BY <1>2, <1>10, <1>15, ReadStays
  <1>22. AllFull(s) /\ form = "full" => AllFull(t)
    <2>1. \A k \in DOMAIN t : k \in DOMAIN s \/ k = Len(s) + 1
      BY <1>7, <1>8
    <2> QED BY <1>6, <1>7, <1>8, <2>1 DEF AllFull
  <1>23. ForwardOK'
    <2> SUFFICES ASSUME torn' = 0 PROVE ForwardOK'
      BY DEF ForwardOK
    <2>1. form = "full" /\ torn = 0
      BY <1>14
    <2>2. Increasing(out)' /\ (losses' = 0 => \A i \in Inodes : AllFull(file[i])')
      <3>1. \A i \in Inodes : AllFull(file[i]) => AllFull(file[i])'
        BY <1>9, <1>22, <2>1 DEF AllFull
      <3> QED BY <1>2, <2>1, <3>1 DEF EvIInv, ForwardOK, Increasing
    <2>3. \A k \in DOMAIN out : out[k] \in Nat /\ out[k] <= written
      BY OutTyped DEF EvIInv, OutOK
    <2>4. ASSUME NEW i \in Inodes, OutBelow(i) PROVE OutBelow(i)'
      BY <1>2, <1>5, <1>17, <2>3, <2>4 DEF OutBelow
    <2>5. ASSUME NEW i \in Inodes, NEW j \in Inodes, i # a, IdsBelow(i, j) PROVE IdsBelow(i, j)'
      BY <1>5, <1>12, <1>17, <2>5 DEF IdsBelow
    <2>6. ASSUME fol.pc \in Attached PROVE ReadOK'
      <3>1. ReadOK /\ fol.cur \in Inodes /\ fol.off \in Nat
            /\ fol.off <= Len(file[fol.cur])
        BY <2>1, <2>6 DEF EvIInv, ForwardOK, FolOK, EvTypeOK, Followers, Attached, Contents
      <3>2. \A m \in DOMAIN fol.queue : fol.queue[m] \in Inodes
        BY QueueTyped DEF EvIInv
      <3>3. ASSUME NEW k \in DOMAIN out, NEW p \in (fol.off + 1)..Len(file'[fol.cur])
            PROVE  out[k] < file'[fol.cur][p].id
        <4>1. CASE fol.cur # a
          BY <1>9, <3>1, <3>3, <4>1 DEF ReadOK
        <4>2. CASE fol.cur = a
          <5>1. file'[fol.cur] = t
            BY <1>9, <4>2
          <5>2. CASE p = Len(s) + 1
            BY <1>5, <1>6, <1>8, <2>3, <5>1, <5>2
          <5>3. CASE p \in (fol.off + 1)..Len(s)
            BY <1>7, <1>8, <3>1, <4>2, <5>1, <5>3 DEF ReadOK
          <5> QED BY <1>7, <1>8, <3>1, <5>1, <5>2, <5>3
        <4> QED BY <4>1, <4>2
      <3>4. fol.off > 0 => file'[fol.cur][fol.off] = file[fol.cur][fol.off]
        <4>1. CASE fol.cur # a
          BY <1>9, <3>1, <4>1
        <4>2. CASE fol.cur = a
          BY <1>7, <1>8, <1>9, <3>1, <4>2
        <4> QED BY <4>1, <4>2
      <3>5. \A m \in DOMAIN fol.queue :
              fol.queue[m] # fol.cur /\ IdsBelow(fol.cur, fol.queue[m])' /\ OutBelow(fol.queue[m])'
        <4> TAKE m \in DOMAIN fol.queue
        <4>1. fol.queue # <<>>
          OBVIOUS
        <4>2. fol.cur # a /\ IdsBelow(fol.cur, fol.queue[m]) /\ OutBelow(fol.queue[m])
              /\ fol.queue[m] # fol.cur
          BY <3>1, <4>1 DEF ReadOK
        <4> QED BY <1>2, <2>4, <2>5, <3>1, <3>2, <4>2
      <3>6. \A l, m \in DOMAIN fol.queue : l < m =>
              /\ fol.queue[l] # a /\ fol.queue[l] # fol.queue[m]
              /\ IdsBelow(fol.queue[l], fol.queue[m])'
        BY <1>2, <2>5, <3>1, <3>2 DEF ReadOK
      <3> QED BY <1>2, <3>1, <3>3, <3>4, <3>5, <3>6 DEF ReadOK
    <2>7. fol.pc \in {"wait", "wait_retained"} => OutBelow(dir["active"])'
      BY <1>2, <1>3, <1>4, <2>1, <2>4 DEF EvIInv, ForwardOK
    <2> QED BY <1>2, <2>2, <2>6, <2>7 DEF ForwardOK
  <1>24. WriterOK'
    BY <1>2, <1>3, <1>8, <1>9, <1>13, <1>22 DEF WriterOK, AllFull
  <1> QED BY <1>15, <1>16, <1>18, <1>19, <1>20, <1>21, <1>23, <1>24 DEF EvIInv

-----------------------------------------------------------------------------
(* The event log: power loss                                               *)

\* Where file and disk agree up to p, p is a length that is synced.
LEMMA SyncedLength ==
  ASSUME EvIInv, NEW i \in Inodes, NEW p \in DOMAIN file[i] \cup {0},
         p \in DOMAIN durable[i] \cup {0}, \A q \in 1..p : file[i][q] = durable[i][q]
  PROVE  p \in Synced(i)
  <1> DEFINE f == file[i]  d == durable[i]
  <1>1. /\ f \in Seq(EventRecords) /\ Len(f) \in Nat /\ DOMAIN f = 1..Len(f)
        /\ d \in Seq(EventRecords) /\ Len(d) \in Nat /\ DOMAIN d = 1..Len(d)
    BY DiskTyped, FileFacts DEF EvIInv
  <1>2. p \in 0..Len(f) /\ p \in 0..Len(d)
    BY <1>1
  <1>3. /\ SubSeq(f, 1, p) \in Seq(EventRecords) /\ Len(SubSeq(f, 1, p)) = p
        /\ \A j \in 1..p : SubSeq(f, 1, p)[j] = f[j]
        /\ SubSeq(d, 1, p) \in Seq(EventRecords) /\ Len(SubSeq(d, 1, p)) = p
        /\ \A j \in 1..p : SubSeq(d, 1, p)[j] = d[j]
    BY <1>1, <1>2, PrefixFacts
  <1>4. SubSeq(f, 1, p) = SubSeq(d, 1, p)
    BY <1>3, SeqEqual
  <1> QED BY <1>1, <1>2, <1>4 DEF Synced

\* What survives is a file in order with nothing but records that were written,
\* and what is both in the file and on disk survives.
LEMMA SurvivorFacts ==
  ASSUME EvIInv, NEW i \in Inodes, NEW t \in Survivors(i)
  PROVE  /\ t \in EventFiles /\ FileOK(t) /\ Ids(t) \subseteq AllIds(i)
         /\ \A p \in DOMAIN file[i] :
              p \in DOMAIN durable[i] /\ (\A q \in 1..p : file[i][q] = durable[i][q]) =>
                p \in DOMAIN t /\ t[p] = file[i][p]
  <1> DEFINE f == file[i]
  <1>1. /\ f \in Seq(EventRecords) /\ Len(f) \in Nat /\ DOMAIN f = 1..Len(f) /\ Len(f) <= MaxRecords
        /\ \A k \in 1..Len(f) : f[k] \in EventRecords
    BY DiskTyped, FileFacts DEF EvIInv
  <1>2. FileOK(f) /\ FileOK(durable[i]) /\ durable[i] \in EventFiles
    BY DiskTyped DEF EvIInv, FilesOK
  <1>3. CASE t = durable[i]
    <2>1. \A p \in DOMAIN f : p \in 1..p
      BY <1>1
    <2> QED BY <1>2, <1>3, <2>1 DEF AllIds
  <1>4. ASSUME NEW k \in 0..Len(f), \A m \in Synced(i) : m <= k, NEW s, s = SubSeq(f, 1, k)
        PROVE  /\ s \in Seq(EventRecords) /\ Len(s) = k /\ DOMAIN s = 1..k
               /\ \A j \in 1..k : s[j] = f[j]
               /\ s \in EventFiles /\ FileOK(s) /\ Ids(s) \subseteq AllIds(i)
    <2>1. /\ s \in Seq(EventRecords) /\ Len(s) = k /\ DOMAIN s = 1..k
          /\ \A j \in 1..k : s[j] = f[j]
      BY <1>1, <1>4, PrefixFacts
    <2>2. s \in EventFiles
      <3>1. k <= MaxRecords BY <1>1, BoundsAssumption
      <3> QED BY <2>1, <3>1, FileIs
    <2>3. \A j \in 1..k : j \in DOMAIN f /\ (j \in 1..(k - 1) => j \in 1..(Len(f) - 1))
      BY <1>1
    <2>4. FileOK(s)
      <3>1. \A j \in 1..(Len(s) - 1) : j \in 1..k
        BY <2>1
      <3>2. \A j \in 1..(Len(s) - 1) : s[j].form = "full"
        BY <1>2, <2>1, <2>3, <3>1 DEF FileOK
      <3> QED BY <1>2, <2>1, <2>3, <3>2 DEF FileOK
    <2>5. Ids(s) \subseteq AllIds(i)
      BY <2>1, <2>3 DEF Ids, AllIds
    <2> QED BY <2>1, <2>2, <2>4, <2>5
  <1>5. CASE \E k \in 0..Len(f) : (\A m \in Synced(i) : m <= k) /\ t = SubSeq(f, 1, k)
    <2>1. PICK k \in 0..Len(f) : (\A m \in Synced(i) : m <= k) /\ t = SubSeq(f, 1, k)
      BY <1>5
    <2>2. /\ DOMAIN t = 1..k /\ \A j \in 1..k : t[j] = f[j]
          /\ t \in EventFiles /\ FileOK(t) /\ Ids(t) \subseteq AllIds(i)
      BY <1>4, <2>1
    <2>3. ASSUME NEW p \in DOMAIN f, p \in DOMAIN durable[i], \A q \in 1..p : f[q] = durable[i][q]
          PROVE  p \in DOMAIN t /\ t[p] = f[p]
      <3>1. p \in Synced(i)
        BY <2>3, SyncedLength
      <3>2. p <= k
        BY <2>1, <3>1
      <3> QED BY <1>1, <2>2, <3>2
    <2> QED BY <2>2, <2>3
  <1>6. CASE \E k \in 0..Len(f), g \in {"bare", "torn"} :
               /\ (\A m \in Synced(i) : m <= k) /\ Len(SubSeq(f, 1, k)) \notin Synced(i)
               /\ t = [SubSeq(f, 1, k) EXCEPT ![Len(SubSeq(f, 1, k))].form = g]
    <2>1. PICK k \in 0..Len(f), g \in {"bare", "torn"} :
               /\ (\A m \in Synced(i) : m <= k) /\ Len(SubSeq(f, 1, k)) \notin Synced(i)
               /\ t = [SubSeq(f, 1, k) EXCEPT ![Len(SubSeq(f, 1, k))].form = g]
      BY <1>6
    <2> DEFINE s == SubSeq(f, 1, k)
    <2>2. /\ s \in Seq(EventRecords) /\ Len(s) = k /\ DOMAIN s = 1..k
          /\ \A j \in 1..k : s[j] = f[j]
          /\ s \in EventFiles /\ FileOK(s) /\ Ids(s) \subseteq AllIds(i)
      BY <1>4, <2>1
    <2>3. k # 0 /\ k \in Nat /\ k \in 1..k /\ k <= MaxRecords /\ k \notin Synced(i)
      <3>1. 0 \in Synced(i)
        BY SyncedLength
      <3> QED BY <1>1, <2>1, <2>2, <3>1, BoundsAssumption
    <2> DEFINE r == [s[k] EXCEPT !.form = g]
    <2>4. r \in EventRecords /\ r.id = s[k].id
      <3>1. s[k] \in EventRecords
        BY <2>2, <2>3, ElementOfSeq
      <3> QED BY <3>1 DEF EventRecords, Forms
    <2>5. t = [s EXCEPT ![k] = r]
      BY <2>1, <2>2
    <2>6. t \in Seq(EventRecords) /\ Len(t) = k /\ DOMAIN t = 1..k
          /\ \A j \in 1..k : t[j] = IF j = k THEN r ELSE s[j]
      <3> HIDE DEF s, r
      <3>1. t \in Seq(EventRecords) /\ Len(t) = k
            /\ \A j \in 1..k : t[j] = IF j = k THEN r ELSE s[j]
        BY <2>2, <2>3, <2>4, <2>5, ExceptSeq
      <3> QED BY <3>1, LenProperties
    <2>7. \A j \in 1..k : t[j].id = s[j].id
      BY <2>4, <2>6
    <2>8. t \in EventFiles
      BY <2>3, <2>6, FileIs
    <2>9. \A j \in 1..(k - 1) : j # k /\ j \in 1..k
      BY <2>3
    <2>10. FileOK(t)
      <3> HIDE DEF s, r
      <3>1. \A l, m \in 1..k : l < m => t[l].id < t[m].id
        BY <2>2, <2>7 DEF FileOK
      <3>2. \A j \in 1..(k - 1) : t[j].form = "full"
        BY <2>2, <2>6, <2>9 DEF FileOK
      <3>3. \A j \in 1..k : t[j].id <= written
        BY <2>2, <2>7 DEF FileOK
      <3> QED BY <2>6, <3>1, <3>2, <3>3 DEF FileOK
    <2>11. Ids(t) \subseteq Ids(s)
      <3> HIDE DEF s, r
      <3>1. DOMAIN t = DOMAIN s /\ \A j \in DOMAIN t : t[j].id = s[j].id
        BY <2>2, <2>6, <2>7
      <3> QED BY <3>1 DEF Ids
    <2>12. ASSUME NEW p \in DOMAIN f, p \in DOMAIN durable[i], \A q \in 1..p : f[q] = durable[i][q]
          PROVE  p \in DOMAIN t /\ t[p] = f[p]
      <3>1. p \in Synced(i)
        BY <2>12, SyncedLength
      <3>2. p <= k /\ p # k
        BY <2>1, <2>3, <3>1
      <3>3. p \in 1..k
        BY <1>1, <2>3, <3>2
      <3> QED BY <2>2, <2>6, <3>2, <3>3
    <2> QED BY <2>2, <2>8, <2>10, <2>11, <2>12
  <1> DEFINE prefixes == {SubSeq(f, 1, k) : k \in {n \in 0..Len(f) : \A m \in Synced(i) : m <= n}}
  <1>7. \/ t = durable[i] \/ t \in prefixes
        \/ \E s \in prefixes, g \in {"bare", "torn"} :
             Len(s) \notin Synced(i) /\ t = [s EXCEPT ![Len(s)].form = g]
    BY DEF Survivors
  <1>8. \A s \in prefixes : \E k \in 0..Len(f) : (\A m \in Synced(i) : m <= k) /\ s = SubSeq(f, 1, k)
    OBVIOUS
  <1> HIDE DEF prefixes
  <1> QED BY <1>3, <1>5, <1>6, <1>7, <1>8

\* The power fails: every file keeps what was synced, and the directory comes
\* back in one of its states.
LEMMA LossKeeps ==
  ASSUME EvIInv, PowerLoss
  PROVE  EvIInv'
  <1>1. /\ losses < MaxPowerLoss /\ losses' = losses + 1 /\ durable' = file'
        /\ evLock' = NoWriter /\ wpc' = [w \in Writers |-> "idle"]
        /\ fol' = [fol EXCEPT !.pc = "done"] /\ UNCHANGED <<tally, out, aborts, torn>>
    BY DEF PowerLoss
  <1>2. PICK k \in DOMAIN dirs : dirs' = <<dirs[k]>>
    BY DEF PowerLoss
  <1> DEFINE d == dirs[k]
  <1>3. d \in ToSet(dirs) /\ d \in Directories
    BY DiskTyped DEF EvIInv, ToSet
  <1>4. dirs' \in Seq(Directories) /\ dirs' # <<>> /\ dir' = d /\ ToSet(dirs)' = {d}
    BY <1>2, <1>3, OneDir DEF dir
  <1>5. file' \in [Inodes -> EventFiles]
        /\ \A i \in Inodes : /\ FileOK(file'[i]) /\ Ids(file'[i]) \subseteq AllIds(i)
                             /\ \A p \in DOMAIN file[i] :
                                  p \in DOMAIN durable[i] /\ (\A q \in 1..p : file[i][q] = durable[i][q]) =>
                                    p \in DOMAIN file'[i] /\ file'[i][p] = file[i][p]
    <2> DEFINE dirty == {i \in Inodes : file[i] # durable[i]}
               outcomes == {f \in [dirty -> UNION {Survivors(i) : i \in dirty}] :
                              \A i \in dirty : f[i] \in Survivors(i)}
    <2>1. PICK f \in outcomes : file' = [i \in Inodes |-> IF i \in dirty THEN f[i] ELSE file[i]]
      BY DEF PowerLoss
    <2>2. \A i \in dirty : f[i] \in Survivors(i)
      OBVIOUS
    <2>3. ASSUME NEW i \in Inodes
          PROVE  /\ file'[i] \in EventFiles /\ FileOK(file'[i]) /\ Ids(file'[i]) \subseteq AllIds(i)
                 /\ \A p \in DOMAIN file[i] :
                      p \in DOMAIN durable[i] /\ (\A q \in 1..p : file[i][q] = durable[i][q]) =>
                        p \in DOMAIN file'[i] /\ file'[i][p] = file[i][p]
      <3>1. CASE i \in dirty
        <4>1. file'[i] \in Survivors(i)
          BY <2>1, <2>2, <3>1
        <4> HIDE DEF dirty, outcomes
        <4> QED BY <4>1, SurvivorFacts
      <3>2. CASE i \notin dirty
        <4>1. file'[i] = file[i]
          BY <2>1, <3>2
        <4> HIDE DEF dirty, outcomes
        <4> QED BY <4>1, DiskTyped DEF EvIInv, FilesOK, AllIds
      <3> QED BY <3>1, <3>2
    <2> HIDE DEF dirty, outcomes
    <2> QED BY <2>1, <2>3
  <1>6. EvTypeOK'
    <2>1. fol' \in Followers
      BY <1>1 DEF EvIInv, EvTypeOK, Followers, FollowerLabels
    <2>2. losses' \in 0..MaxPowerLoss
      BY <1>1, BoundsAssumption DEF EvIInv, EvTypeOK
    <2>3. wpc' \in [Writers -> WriterLabels] /\ \A w \in Writers : wpc'[w] = "idle" /\ evLock' # w
      BY <1>1, BoundsAssumption DEF WriterLabels
    <2> QED BY <1>1, <1>4, <1>5, <2>1, <2>2, <2>3 DEF EvIInv, EvTypeOK, tally, Directories, EventFiles
  <1>7. FilesOK'
    BY <1>1, <1>5 DEF FilesOK, FileOK, tally
  <1>8. DirsOK'
    <2>1. \A i \in Inodes : AllIds(i)' \subseteq AllIds(i)
      <3>1. \A i \in Inodes : Ids(file[i])' = Ids(file'[i]) /\ Ids(durable[i])' = Ids(file'[i])
        BY <1>1 DEF Ids
      <3> QED BY <1>5, <3>1 DEF AllIds
    <2>2. DirOK(d)
      BY <1>3 DEF EvIInv, DirsOK
    <2>3. \A n \in {"1", "2"} : d[n] # None => d[n] # d["active"]
      BY <2>2 DEF DirOK, Names
    <2>4. \A x : x = d => DirOK(x)'
      BY <1>3, <2>1, <2>2, OrderKept
    <2> QED BY <1>4, <2>3, <2>4 DEF DirsOK
  <1>9. AckedOK'
    <2>1. ASSUME NEW e, NEW i \in Inodes, Holds(i, e) PROVE Holds(i, e)'
      BY <1>1, <1>5, <2>1 DEF Holds
    <2>2. \A n \in Names : d[n] # None => d[n] \in Inodes
      BY <1>3, DiskTyped DEF EvIInv
    <2>3. \A e \in acked \ dropped : \E n \in Names : d[n] # None /\ Holds(d[n], e)
      BY <1>3 DEF EvIInv, AckedOK
    <2>4. \A x : x = d => \A e \in acked \ dropped : \E n \in Names : x[n] # None /\ Holds(x[n], e)'
      BY <2>1, <2>2, <2>3
    <2> QED BY <1>1, <1>4, <2>4 DEF AckedOK, tally
  <1>10. losses' # 0 /\ fol'.pc = "done"
    BY <1>1 DEF EvIInv, EvTypeOK, Followers
  <1>11. RetainedOK' /\ FolOK' /\ OutOK' /\ ForwardOK'
    BY <1>1, <1>10 DEF EvIInv, RetainedOK, FolOK, OutOK, ForwardOK, Increasing, Attached, tally
  <1>12. WriterOK'
    BY <1>1 DEF WriterOK
  <1> QED BY <1>6, <1>7, <1>8, <1>9, <1>11, <1>12 DEF EvIInv

-----------------------------------------------------------------------------
(* The event log: the follower                                             *)

\* The follower changes nothing but itself and what it has emitted.
LEMMA FollowerAlone ==
  ASSUME EvIInv, FollowUnchanged, fol' \in Followers, out' \in Seq(Events)
  PROVE  /\ EvTypeOK' /\ FilesOK' /\ DirsOK' /\ WriterOK' /\ AckedOK' /\ RetainedOK'
         /\ file' = file /\ dir' = dir /\ written' = written /\ torn' = torn /\ losses' = losses
         /\ \A i \in Inodes : Ids(file[i])' = Ids(file[i])
         /\ \A i, j \in Inodes : IdsBelow(i, j)' <=> IdsBelow(i, j)
  <1>1. UNCHANGED <<dirs, file, durable, evLock, wpc, written, acked, dropped, aborts, torn, losses>>
    BY DEF FollowUnchanged, disk, tally, evFaults
  <1>2. EvTypeOK'
    BY <1>1 DEF EvIInv, EvTypeOK
  <1>3. dir' = dir /\ ToSet(dirs)' = ToSet(dirs)
    BY <1>1 DEF dir
  <1>4. FilesOK' /\ WriterOK'
    BY <1>1, <1>3 DEF EvIInv, FilesOK, FileOK, WriterOK, AllFull
  <1>5. DirsOK'
    <2>1. \A i \in Inodes : AllIds(i)' \subseteq AllIds(i)
      BY <1>1 DEF AllIds, Ids
    <2> QED BY <1>3, <2>1, OrderKept, DiskTyped DEF DirsOK, EvIInv
  <1>6. AckedOK'
    <2>1. \A i, e : Holds(i, e) => Holds(i, e)'
      BY <1>1 DEF Holds
    <2> QED BY <1>1, <1>3, <2>1 DEF EvIInv, AckedOK
  <1>7. RetainedOK'
    BY <1>1, <1>3 DEF EvIInv, RetainedOK, AllFull
  <1>8. \A i \in Inodes : Ids(file[i])' = Ids(file[i])
    BY <1>1 DEF Ids
  <1>9. \A i, j \in Inodes : IdsBelow(i, j)' <=> IdsBelow(i, j)
    BY <1>8 DEF IdsBelow
  <1> QED BY <1>1, <1>2, <1>3, <1>4, <1>5, <1>6, <1>7, <1>8, <1>9

\* What the follower sees where it reads.
LEMMA FollowerSees ==
  ASSUME EvIInv, fol.pc \in Attached
  PROVE  /\ fol.cur \in Inodes /\ Contents(fol.cur) = file[fol.cur] /\ fol.off \in Nat
         /\ fol.off <= Len(file[fol.cur]) /\ Len(file[fol.cur]) \in Nat
         /\ DOMAIN file[fol.cur] = 1..Len(file[fol.cur]) /\ Len(file[fol.cur]) <= MaxRecords
         /\ losses = 0 /\ ~fol.retained /\ \A q \in 1..fol.off : file[fol.cur][q].form = "full"
         /\ ~AtEnd => /\ fol.off + 1 \in DOMAIN file[fol.cur] /\ Current.id \in Events
                      /\ Current.id <= written /\ Current.form \in Forms
                      /\ Current = [id |-> Current.id, form |-> Current.form]
  <1>1. fol \in Followers /\ fol.cur # None /\ fol.cur \in Inodes /\ fol.off \in Nat
        /\ fol.off <= Len(Contents(fol.cur)) /\ losses = 0 /\ ~fol.retained
        /\ \A q \in 1..fol.off : Contents(fol.cur)[q].form = "full"
    BY DEF EvIInv, EvTypeOK, Followers, FolOK, Attached
  <1>2. Contents(fol.cur) = file[fol.cur]
    BY <1>1 DEF Contents
  <1>3. /\ Len(file[fol.cur]) \in Nat /\ DOMAIN file[fol.cur] = 1..Len(file[fol.cur])
        /\ Len(file[fol.cur]) <= MaxRecords
        /\ \A k \in 1..Len(file[fol.cur]) : file[fol.cur][k] \in EventRecords
    BY <1>1, DiskTyped, FileFacts DEF EvIInv
  <1>4. ASSUME ~AtEnd
        PROVE  /\ fol.off + 1 \in DOMAIN file[fol.cur] /\ Current.id \in Events
               /\ Current.id <= written /\ Current.form \in Forms
               /\ Current = [id |-> Current.id, form |-> Current.form]
    <2>1. fol.off + 1 \in DOMAIN file[fol.cur]
      BY <1>1, <1>2, <1>3, <1>4 DEF AtEnd
    <2>2. Current \in EventRecords
      BY <1>3, <2>1 DEF Current
    <2>3. Current.id <= written
      BY <1>1, <2>1 DEF Current, EvIInv, FilesOK, FileOK
    <2> QED BY <2>1, <2>2, <2>3 DEF EventRecords
  <1> QED BY <1>1, <1>2, <1>3, <1>4

\* The follower goes to its next step with what it has.
LEMMA MoveKeeps ==
  ASSUME EvIInv, FollowUnchanged, NEW label \in FollowerLabels \ {"idle"}, Move(label),
         fol.pc # "done", label \in Attached => fol.pc \in Attached,
         label \in {"wait", "wait_retained"} =>
           fol.pc \in {"wait", "wait_retained"}
             \/ (fol.pc = "boundary" /\ fol.queue = <<>> /\ (torn = 0 => dir["active"] = None)),
         label = "wait_retained" => fol.retained,
         torn = 0 => label # "decode" /\ (label = "boundary" => fol.cur # dir["active"])
  PROVE  EvIInv'
  <1>1. fol \in Followers /\ fol' = [fol EXCEPT !.pc = label] /\ out' = out /\ out \in Seq(Events)
    BY DEF EvIInv, EvTypeOK, Move
  <1>2. /\ fol' \in Followers /\ fol'.pc = label /\ fol'.cur = fol.cur /\ fol'.off = fol.off
        /\ fol'.tail = fol.tail /\ fol'.chk = fol.chk /\ fol'.queue = fol.queue
        /\ fol'.retained = fol.retained
    BY <1>1 DEF Followers
  <1>3. /\ EvTypeOK' /\ FilesOK' /\ DirsOK' /\ WriterOK' /\ AckedOK' /\ RetainedOK'
        /\ file' = file /\ dir' = dir /\ written' = written /\ torn' = torn /\ losses' = losses
        /\ \A i \in Inodes : Ids(file[i])' = Ids(file[i])
        /\ \A i, j \in Inodes : IdsBelow(i, j)' <=> IdsBelow(i, j)
    BY <1>1, <1>2, FollowerAlone
  <1>4. OutOK'
    BY <1>1, <1>3 DEF EvIInv, OutOK
  <1>5. FolOK'
    <2>1. Contents(fol.cur)' = Contents(fol.cur)
      BY <1>2, <1>3 DEF Contents
    <2> QED BY <1>1, <1>2, <1>3, <2>1 DEF EvIInv, FolOK, Attached
  <1>6. ForwardOK'
    <2> SUFFICES ASSUME torn = 0 PROVE ForwardOK'
      BY <1>3 DEF ForwardOK
    <2>1. \A i \in Inodes : OutBelow(i)' <=> OutBelow(i)
      BY <1>1, <1>3 DEF OutBelow
    <2>2. Increasing(out)' /\ (losses' = 0 => \A i \in Inodes : AllFull(file[i])')
      BY <1>1, <1>3 DEF EvIInv, ForwardOK, Increasing, AllFull
    <2>3. ASSUME label \in Attached PROVE ReadOK'
      <3>1. ReadOK /\ fol.cur \in Inodes
        BY <2>3, FollowerSees DEF EvIInv, ForwardOK
      <3>2. \A m \in DOMAIN fol.queue : fol.queue[m] \in Inodes
        BY QueueTyped DEF EvIInv
      <3> QED BY <1>1, <1>2, <1>3, <2>1, <3>1, <3>2 DEF ReadOK
    <2>4. ASSUME label \in {"wait", "wait_retained"}, dir["active"] # None
          PROVE  OutBelow(dir["active"])'
      <3>1. OutBelow(dir["active"]) /\ dir["active"] \in Inodes
        BY <2>4, DiskTyped DEF EvIInv, ForwardOK, Names
      <3> QED BY <1>3, <2>1, <3>1
    <2> QED BY <1>2, <1>3, <2>2, <2>3, <2>4 DEF ForwardOK
  <1> QED BY <1>3, <1>4, <1>5, <1>6 DEF EvIInv

\* The follower begins a generation: the ones behind it in the queue are newer,
\* and so is all of them compared with what was emitted.
LEMMA AttachKeeps ==
  ASSUME EvIInv, FollowUnchanged, fol.pc # "done", NEW i \in Inodes, NEW q \in Seq(Inodes),
         Len(q) <= 3, fol' = [Attach(i) EXCEPT !.queue = q],
         out' \in Seq(Events), OutOK',
         torn = 0 =>
           /\ Increasing(out') /\ OutBelow(i)' /\ (q # <<>> => i # dir["active"])
           /\ \A m \in DOMAIN q : q[m] # i /\ IdsBelow(i, q[m]) /\ OutBelow(q[m])'
           /\ \A l, m \in DOMAIN q : l < m =>
                q[l] # dir["active"] /\ q[l] # q[m] /\ IdsBelow(q[l], q[m])
  PROVE  EvIInv'
  <1>1. fol \in Followers /\ losses = 0
    BY DEF EvIInv, EvTypeOK, FolOK
  <1>2. q \in BoundedSeq(Inodes, 3) /\ Len(q) \in Nat /\ DOMAIN q = 1..Len(q)
        /\ \A m \in DOMAIN q : q[m] \in Inodes
    <2>1. q \in [1..Len(q) -> Inodes] /\ Len(q) \in 0..3
      <3>1. q \in [1..Len(q) -> Inodes] /\ Len(q) \in Nat
        BY LenProperties
      <3> QED BY <3>1
    <2> QED BY <2>1 DEF BoundedSeq, SeqOf
  <1>3. /\ fol'.pc = "read" /\ fol'.cur = i /\ fol'.off = 0 /\ fol'.tail = None /\ fol'.chk = None
        /\ fol'.queue = q /\ ~fol'.retained
    BY <1>1 DEF Attach, Followers
  <1>4. fol' \in Followers
    <2>1. 0 \in 0..MaxRecords /\ "read" \in FollowerLabels
      BY BoundsAssumption DEF FollowerLabels
    <2> QED BY <1>1, <1>2, <2>1 DEF Attach, Followers
  <1>5. /\ EvTypeOK' /\ FilesOK' /\ DirsOK' /\ WriterOK' /\ AckedOK' /\ RetainedOK'
        /\ file' = file /\ dir' = dir /\ written' = written /\ torn' = torn /\ losses' = losses
        /\ \A j \in Inodes : Ids(file[j])' = Ids(file[j])
        /\ \A j, k \in Inodes : IdsBelow(j, k)' <=> IdsBelow(j, k)
    BY <1>4, FollowerAlone
  <1>6. Contents(fol.cur)' = file[i] /\ Len(file[i]) \in Nat /\ DOMAIN file[i] = 1..Len(file[i])
    <2>1. file[i] \in EventFiles
      BY DiskTyped DEF EvIInv
    <2> QED BY <1>3, <1>5, <2>1, FileFacts DEF Contents, Inodes, None
  <1>7. FolOK'
    <2>1. fol'.off = 0 /\ 0 <= Len(file[i]) /\ 1..0 = {}
      BY <1>3, <1>6
    <2>2. fol.cur' # None
      BY <1>3 DEF Inodes, None
    <2> QED BY <1>1, <1>3, <1>5, <1>6, <2>1, <2>2 DEF FolOK, Attached
  <1>8. ForwardOK'
    <2> SUFFICES ASSUME torn = 0 PROVE ForwardOK'
      BY <1>5 DEF ForwardOK
    <2>1. Increasing(out)' /\ (losses' = 0 => \A j \in Inodes : AllFull(file[j])')
      BY <1>5 DEF EvIInv, ForwardOK, Increasing, AllFull
    <2>2. ReadOK'
      <3>1. \A k \in DOMAIN out', p \in 1..Len(file[i]) : out'[k] < file[i][p].id
        BY <1>5, <1>6 DEF OutBelow, Ids
      <3> QED BY <1>2, <1>3, <1>5, <3>1 DEF ReadOK
    <2> QED BY <1>3, <1>5, <2>1, <2>2 DEF ForwardOK, Attached
  <1> QED BY <1>5, <1>7, <1>8 DEF EvIInv

\* A terminated record is emitted.
LEMMA EmitKeeps ==
  ASSUME EvIInv, FollowUnchanged, fol.pc = "read", ~AtEnd, Current.form = "full", Emit(Current.id)
  PROVE  EvIInv'
  <1> DEFINE id == Current.id
  <1>1. fol \in Followers /\ out \in Seq(Events) /\ fol.pc \in Attached
    BY DEF EvIInv, EvTypeOK, Attached
  <1>2. /\ fol.cur \in Inodes /\ fol.off \in Nat
        /\ fol.off <= Len(file[fol.cur]) /\ Len(file[fol.cur]) \in Nat
        /\ DOMAIN file[fol.cur] = 1..Len(file[fol.cur]) /\ Len(file[fol.cur]) <= MaxRecords
        /\ losses = 0 /\ ~fol.retained /\ \A q \in 1..fol.off : file[fol.cur][q].form = "full"
        /\ fol.off + 1 \in DOMAIN file[fol.cur] /\ id \in Events /\ id <= written
        /\ file[fol.cur][fol.off + 1] = [id |-> id, form |-> "full"]
    BY <1>1, FollowerSees DEF Current
  <1>3. fol' = [fol EXCEPT !.off = fol.off + 1, !.tail = None, !.chk = None]
        /\ out' = Append(out, id)
    BY DEF Emit
  <1>4. /\ fol' \in Followers /\ fol'.pc = "read" /\ fol'.cur = fol.cur /\ fol'.off = fol.off + 1
        /\ fol'.tail = None /\ fol'.chk = None /\ fol'.queue = fol.queue /\ ~fol'.retained
    <2>1. fol.off + 1 \in 0..MaxRecords
      BY <1>2, BoundsAssumption
    <2> QED BY <1>1, <1>2, <1>3, <2>1 DEF Followers
  <1>5. /\ out' \in Seq(Events) /\ Len(out) \in Nat /\ DOMAIN out = 1..Len(out)
        /\ DOMAIN out' = 1..(Len(out) + 1) /\ out'[Len(out) + 1] = id
        /\ \A k \in DOMAIN out : out'[k] = out[k]
    BY <1>1, <1>2, <1>3, AppendProperties, LenProperties
  <1>6. \A k \in DOMAIN out' : (k \in DOMAIN out /\ out'[k] = out[k]) \/ out'[k] = id
    BY <1>5
  <1>7. /\ EvTypeOK' /\ FilesOK' /\ DirsOK' /\ WriterOK' /\ AckedOK' /\ RetainedOK'
        /\ file' = file /\ dir' = dir /\ written' = written /\ torn' = torn /\ losses' = losses
        /\ \A i \in Inodes : Ids(file[i])' = Ids(file[i])
        /\ \A i, j \in Inodes : IdsBelow(i, j)' <=> IdsBelow(i, j)
    BY <1>4, <1>5, FollowerAlone
  <1>8. OutOK'
    BY <1>2, <1>6, <1>7 DEF EvIInv, OutOK
  <1>9. FolOK'
    <2>1. Contents(fol.cur)' = file[fol.cur]
      BY <1>2, <1>4, <1>7 DEF Contents, Inodes, None
    <2>2. \A q \in 1..(fol.off + 1) : file[fol.cur][q].form = "full"
      BY <1>2
    <2>3. fol.off + 1 <= Len(file[fol.cur]) /\ fol.cur # None
      BY <1>2 DEF Inodes, None
    <2> QED BY <1>2, <1>4, <1>7, <2>1, <2>2, <2>3 DEF FolOK, Attached
  <1>10. ForwardOK'
    <2> SUFFICES ASSUME torn = 0 PROVE ForwardOK'
      BY <1>7 DEF ForwardOK
    <2>1. ReadOK /\ Increasing(out) /\ \A i \in Inodes : AllFull(file[i])
      BY <1>1, <1>2 DEF EvIInv, ForwardOK
    <2>2. \A k \in DOMAIN out : out[k] < id /\ out[k] \in Nat
      <3>1. fol.off + 1 \in (fol.off + 1)..Len(file[fol.cur])
        BY <1>2
      <3> QED BY <2>1, <3>1, OutTyped DEF ReadOK, Current, EvIInv
    <2>3. id \in Nat
      BY <1>2 DEF Events
    <2>4. Increasing(out)'
      BY <1>5, <2>1, <2>2, <2>3 DEF Increasing
    <2>5. \A p \in (fol.off + 2)..Len(file[fol.cur]) : id < file[fol.cur][p].id
      <3>1. \A p \in (fol.off + 2)..Len(file[fol.cur]) : p \in DOMAIN file[fol.cur] /\ fol.off + 1 < p
        BY <1>2
      <3>2. file[fol.cur][fol.off + 1].id = id
        BY <1>2
      <3>3. FileOK(file[fol.cur])
        BY <1>2 DEF EvIInv, FilesOK
      <3> QED BY <1>2, <3>1, <3>2, <3>3 DEF FileOK
    <2>6. \A k \in DOMAIN out', p \in (fol.off + 1 + 1)..Len(file[fol.cur]) : out'[k] < file[fol.cur][p].id
      BY <1>2, <1>6, <2>1, <2>5 DEF ReadOK
    <2>7. \A k \in DOMAIN out' : out'[k] <= id
      BY <1>6, <2>2, <2>3
    <2>8. \A m \in DOMAIN fol.queue : fol.queue[m] \in Inodes
      BY QueueTyped DEF EvIInv
    <2>9. ASSUME NEW m \in DOMAIN fol.queue PROVE OutBelow(fol.queue[m])'
      <3>1. id \in Ids(file[fol.cur])
        BY <1>2 DEF Ids
      <3>2. \A b \in Ids(file[fol.queue[m]]) : id < b
        BY <2>1, <3>1 DEF ReadOK, IdsBelow
      <3>3. \A k \in DOMAIN out, b \in Ids(file[fol.queue[m]]) : out[k] < b
        BY <2>1 DEF ReadOK, OutBelow
      <3> QED BY <1>4, <1>6, <1>7, <2>8, <3>2, <3>3 DEF OutBelow
    <2>10. ReadOK'
      BY <1>2, <1>4, <1>7, <2>1, <2>6, <2>7, <2>8, <2>9 DEF ReadOK
    <2> QED BY <1>4, <1>7, <2>1, <2>4, <2>10 DEF ForwardOK, AllFull
  <1> QED BY <1>7, <1>8, <1>9, <1>10 DEF EvIInv

\* While every append is whole there is no pending fragment.
LEMMA NothingPending ==
  ASSUME EvIInv, fol.pc \in Attached, torn = 0
  PROVE  /\ ReadOK /\ fol.tail = None /\ fol.chk = None
         /\ ~AtEnd => Current.form = "full"
         /\ ReopenPossible <=> dir["active"] # fol.cur
  <1>1. ReadOK /\ fol.tail = None /\ fol.chk = None
    BY DEF EvIInv, ForwardOK, ReadOK
  <1>2. ~AtEnd => Current.form = "full"
    BY FollowerSees DEF EvIInv, ForwardOK, AllFull, Current
  <1> QED BY <1>1, <1>2 DEF ReopenPossible, ReopenForced

\* A read of the open generation.
LEMMA ReadKeeps ==
  ASSUME EvIInv, ReadRecord
  PROVE  EvIInv'
  <1>1. fol.pc = "read" /\ FollowUnchanged /\ fol.pc \in Attached /\ fol \in Followers
        /\ out \in Seq(Events)
    BY DEF ReadRecord, Attached, EvIInv, EvTypeOK
  <1>2. ASSUME NEW label \in {"eof", "decode"}, Move(label), torn = 0 => label # "decode"
        PROVE  EvIInv'
    BY <1>1, <1>2, MoveKeeps DEF FollowerLabels, Attached
  <1>3. CASE AtEnd /\ Move("eof")
    BY <1>2, <1>3
  <1>4. CASE ~AtEnd /\ Current.form = "full" /\ Emit(Current.id)
    BY <1>1, <1>4, EmitKeeps
  <1>5. CASE /\ ~AtEnd /\ Current.form # "full"
             /\ fol' = [fol EXCEPT !.pc = "eof", !.tail = Current.id] /\ UNCHANGED out
    <2>1. torn # 0
      BY <1>1, <1>5, NothingPending
    <2>2. Current.id \in Events /\ "eof" \in FollowerLabels
      BY <1>1, <1>5, FollowerSees DEF FollowerLabels
    <2>3. fol' \in Followers /\ fol'.pc = "eof" /\ fol'.cur = fol.cur /\ fol'.off = fol.off
          /\ fol'.queue = fol.queue /\ fol'.retained = fol.retained
      BY <1>1, <1>5, <2>2 DEF Followers
    <2>4. /\ EvTypeOK' /\ FilesOK' /\ DirsOK' /\ WriterOK' /\ AckedOK' /\ RetainedOK'
          /\ file' = file /\ dir' = dir /\ written' = written /\ torn' = torn /\ losses' = losses
      BY <1>1, <1>5, <2>3, FollowerAlone
    <2>5. OutOK' /\ ForwardOK'
      BY <1>5, <2>1, <2>4 DEF EvIInv, OutOK, ForwardOK
    <2>6. FolOK'
      <3>1. Contents(fol.cur)' = Contents(fol.cur)
        BY <2>3, <2>4 DEF Contents
      <3> QED BY <1>1, <1>5, <2>3, <2>4, <3>1 DEF EvIInv, FolOK, Attached
    <2> QED BY <2>4, <2>5, <2>6 DEF EvIInv
  <1>6. CASE /\ ~AtEnd /\ fol.tail \notin {None, Current.id}
             /\ \E label \in {"eof", "decode"} : Move(label)
    <2>1. torn # 0
      BY <1>1, <1>6, NothingPending
    <2> QED BY <1>2, <1>6, <2>1
  <1> QED BY <1>3, <1>4, <1>5, <1>6 DEF ReadRecord

\* The generation at the path is compared with the open one.
LEMMA InspectKeeps ==
  ASSUME EvIInv, Inspect
  PROVE  EvIInv'
  <1>1. fol.pc \in {"eof", "decode", "wake"} /\ FollowUnchanged /\ fol.pc \in Attached
    BY DEF Inspect, Attached
  <1>2. CASE ReopenPossible /\ Move("boundary")
    <2>1. torn = 0 => fol.cur # dir["active"]
      BY <1>1, <1>2, NothingPending
    <2> QED BY <1>1, <1>2, <2>1, MoveKeeps DEF FollowerLabels, Attached
  <1>3. CASE Move(CASE fol.pc = "eof" -> "checkpoint" [] fol.pc = "decode" -> "failed"
                    [] fol.pc = "wake" -> "read")
    <2>1. \E label \in {"checkpoint", "failed", "read"} : Move(label)
      BY <1>1, <1>3
    <2> QED BY <1>1, <2>1, MoveKeeps DEF FollowerLabels, Attached
  <1> QED BY <1>2, <1>3 DEF Inspect

\* The place up to which the follower has read is noted.
LEMMA CheckpointKeeps ==
  ASSUME EvIInv, Checkpoint
  PROVE  EvIInv'
  <1>1. fol.pc = "checkpoint" /\ FollowUnchanged /\ fol.pc \in Attached /\ fol \in Followers
        /\ out \in Seq(Events) /\ out' = out
    BY DEF Checkpoint, Attached, EvIInv, EvTypeOK
  <1>2. CASE fol' = [fol EXCEPT !.pc = "failed"]
    <2>1. Move("failed")
      BY <1>1, <1>2 DEF Move
    <2> QED BY <1>1, <2>1, MoveKeeps DEF FollowerLabels, Attached
  <1>3. ASSUME NEW c \in Events \cup {None}, fol' = [fol EXCEPT !.pc = "wake", !.chk = c],
               torn = 0 => c = None
        PROVE  EvIInv'
    <2>1. fol' \in Followers /\ fol'.pc = "wake" /\ fol'.cur = fol.cur /\ fol'.off = fol.off
          /\ fol'.queue = fol.queue /\ fol'.retained = fol.retained /\ fol'.tail = fol.tail /\ fol'.chk = c
      BY <1>1, <1>3 DEF Followers, FollowerLabels
    <2>2. /\ EvTypeOK' /\ FilesOK' /\ DirsOK' /\ WriterOK' /\ AckedOK' /\ RetainedOK'
          /\ file' = file /\ dir' = dir /\ written' = written /\ torn' = torn /\ losses' = losses
          /\ \A i \in Inodes : Ids(file[i])' = Ids(file[i])
          /\ \A i, j \in Inodes : IdsBelow(i, j)' <=> IdsBelow(i, j)
      BY <1>1, <2>1, FollowerAlone
    <2>3. OutOK'
      BY <1>1, <2>2 DEF EvIInv, OutOK
    <2>4. FolOK'
      <3>1. Contents(fol.cur)' = Contents(fol.cur)
        BY <2>1, <2>2 DEF Contents
      <3> QED BY <1>1, <2>1, <2>2, <3>1 DEF EvIInv, FolOK, Attached
    <2>5. ForwardOK'
      <3> SUFFICES ASSUME torn = 0 PROVE ForwardOK'
        BY <2>2 DEF ForwardOK
      <3>1. \A i \in Inodes : OutBelow(i)' <=> OutBelow(i)
        BY <1>1, <2>2 DEF OutBelow
      <3>2. ReadOK /\ fol.cur \in Inodes
        BY <1>1, NothingPending, FollowerSees
      <3>3. \A m \in DOMAIN fol.queue : fol.queue[m] \in Inodes
        BY QueueTyped DEF EvIInv
      <3>4. ReadOK'
        BY <1>1, <1>3, <2>1, <2>2, <3>1, <3>2, <3>3 DEF ReadOK
      <3> QED BY <1>1, <2>1, <2>2, <3>4 DEF EvIInv, ForwardOK, Increasing, AllFull
    <2> QED BY <2>2, <2>3, <2>4, <2>5 DEF EvIInv
  <1>4. CASE fol.tail = None /\ fol' = [fol EXCEPT !.pc = "wake", !.chk = None]
    BY <1>3, <1>4
  <1>5. CASE fol.tail # None /\ ~AtEnd /\ fol' = [fol EXCEPT !.pc = "wake", !.chk = Current.id]
    <2>1. torn # 0 /\ Current.id \in Events
      BY <1>1, <1>5, NothingPending, FollowerSees
    <2> QED BY <1>3, <1>5, <2>1
  <1> QED BY <1>2, <1>4, <1>5 DEF Checkpoint

\* --until has passed.
LEMMA DeadlineKeeps ==
  ASSUME EvIInv, Deadline
  PROVE  EvIInv'
  <1>1. fol.pc \in {"wake", "wait"} /\ FollowUnchanged /\ Move("done")
    BY DEF Deadline
  <1> QED BY <1>1, MoveKeeps DEF FollowerLabels, Attached

\* An attachment that leaves the queue as it is, with nothing emitted meanwhile.
LEMMA FirstKeeps ==
  ASSUME EvIInv, FollowUnchanged, UNCHANGED out, fol.pc \in {"wait", "wait_retained"},
         NEW i \in Inodes, fol' = Attach(i), torn = 0 => OutBelow(i)
  PROVE  EvIInv'
  <1>1. fol \in Followers /\ fol.queue = <<>> /\ out' = out /\ out \in Seq(Events)
    BY DEF EvIInv, EvTypeOK, FolOK
  <1>2. fol' = [Attach(i) EXCEPT !.queue = <<>>]
    BY <1>1 DEF Attach, Followers
  <1>3. file' = file /\ written' = written /\ losses' = losses
    BY DEF FollowUnchanged, disk, tally, evFaults
  <1>4. OutOK'
    BY <1>1, <1>3 DEF EvIInv, OutOK
  <1>5. torn = 0 => Increasing(out') /\ OutBelow(i)'
    BY <1>1, <1>3 DEF EvIInv, ForwardOK, Increasing, OutBelow, Ids
  <1>6. <<>> \in Seq(Inodes) /\ Len(<<>>) <= 3 /\ DOMAIN <<>> = {}
    BY EmptySeq
  <1> QED BY <1>1, <1>2, <1>4, <1>5, <1>6, AttachKeeps

\* The log appears.
LEMMA WaitKeepsLog ==
  ASSUME EvIInv, WaitForLog
  PROVE  EvIInv'
  <1>1. fol.pc = "wait" /\ FollowUnchanged /\ UNCHANGED out
    BY DEF WaitForLog
  <1>2. CASE dir["active"] # None /\ fol' = Attach(dir["active"])
    <2>1. dir["active"] \in Inodes
      BY <1>2, DiskTyped DEF EvIInv, Names
    <2>2. torn = 0 => OutBelow(dir["active"])
      BY <1>1, <1>2 DEF EvIInv, ForwardOK
    <2> QED BY <1>1, <1>2, <2>1, <2>2, FirstKeeps
  <1>3. CASE fol.retained /\ fol' = [fol EXCEPT !.pc = "wait_retained"]
    <2>1. Move("wait_retained")
      BY <1>1, <1>3 DEF Move
    <2> QED BY <1>1, <1>3, <2>1, MoveKeeps DEF FollowerLabels, Attached
  <1> QED BY <1>2, <1>3 DEF WaitForLog

\* Or its first generation.
LEMMA WaitKeepsRetained ==
  ASSUME EvIInv, WaitForRetained
  PROVE  EvIInv'
  <1>1. fol.pc = "wait_retained" /\ FollowUnchanged /\ UNCHANGED out
    BY DEF WaitForRetained
  <1>2. CASE dir["1"] # None /\ fol' = Attach(dir["1"])
    <2>1. dir["1"] \in Inodes
      BY <1>2, DiskTyped DEF EvIInv, Names
    <2>2. out = <<>>
      BY <1>1 DEF EvIInv, FolOK
    <2>3. OutBelow(dir["1"])
      BY <2>2 DEF OutBelow
    <2> QED BY <1>1, <1>2, <2>1, <2>3, FirstKeeps
  <1>3. CASE fol' = [fol EXCEPT !.pc = "wait"]
    <2>1. Move("wait")
      BY <1>1, <1>3 DEF Move
    <2> QED BY <1>1, <1>3, <2>1, MoveKeeps DEF FollowerLabels, Attached
  <1> QED BY <1>2, <1>3 DEF WaitForRetained

\* Short lists of generations.
LEMMA Joined ==
  ASSUME NEW S, NEW x \in S, NEW y \in S, NEW z \in S
  PROVE  /\ <<x>> \o <<y>> = <<x, y>> /\ <<x, y>> \o <<z>> = <<x, y, z>>
         /\ <<>> \o <<x>> = <<x>> /\ <<x>> \o <<>> = <<x>> /\ <<x, y>> \o <<>> = <<x, y>>
  <1>1. <<x>> \in Seq(S) /\ <<y>> \in Seq(S) /\ <<z>> \in Seq(S) /\ <<x, y>> \in Seq(S)
        /\ <<x, y, z>> \in Seq(S)
    OBVIOUS
  <1>2. <<x>> \o <<y>> = <<x, y>>
    <2> DEFINE u == <<x>> \o <<y>>
    <2>1. u \in Seq(S) /\ Len(u) = 2 /\ \A i \in 1..2 : u[i] = IF i <= 1 THEN <<x>>[i] ELSE <<y>>[i - 1]
      BY <1>1, ConcatProperties
    <2>2. u[1] = x /\ u[2] = y
      BY <2>1
    <2> HIDE DEF u
    <2>3. Len(<<x, y>>) = 2 /\ \A i \in 1..2 : u[i] = <<x, y>>[i]
      BY <2>2
    <2>4. u = <<x, y>>
      BY <1>1, <2>1, <2>3, SeqEqual
    <2> QED BY <2>4 DEF u
  <1>3. <<x, y>> \o <<z>> = <<x, y, z>>
    <2> DEFINE u == <<x, y>> \o <<z>>
    <2>1. u \in Seq(S) /\ Len(u) = 3
          /\ \A i \in 1..3 : u[i] = IF i <= 2 THEN <<x, y>>[i] ELSE <<z>>[i - 2]
      BY <1>1, ConcatProperties
    <2>2. u[1] = x /\ u[2] = y /\ u[3] = z
      BY <2>1
    <2> HIDE DEF u
    <2>3. Len(<<x, y, z>>) = 3 /\ \A i \in 1..3 : u[i] = <<x, y, z>>[i]
      BY <2>2
    <2>4. u = <<x, y, z>>
      BY <1>1, <2>1, <2>3, SeqEqual
    <2> QED BY <2>4 DEF u
  <1> QED BY <1>1, <1>2, <1>3, ConcatEmptySeq

\* The generations of the directory, oldest first: all different, each older than
\* the ones behind it, the active one the last.
LEMMA PresentFacts ==
  ASSUME EvIInv
  PROVE  /\ Present \in Seq(Inodes) /\ Len(Present) \in 0..3 /\ DOMAIN Present = 1..Len(Present)
         /\ dir["active"] # None => Present # <<>> /\ Present[Len(Present)] = dir["active"]
         /\ \A k \in DOMAIN Present : \E n \in Names : Present[k] = dir[n] /\ dir[n] # None
         /\ \A l, m \in DOMAIN Present : l < m =>
              Present[l] # Present[m] /\ Present[l] # dir["active"] /\ IdsBelow(Present[l], Present[m])
  <1> DEFINE x == dir["2"]  y == dir["1"]  z == dir["active"]
  <1>1. /\ x \in Inodes \cup {None} /\ y \in Inodes \cup {None} /\ z \in Inodes \cup {None}
        /\ None \notin Inodes
    BY DiskTyped DEF EvIInv, Directories, Names, Inodes, None
  <1>2. /\ x # None => x # y /\ x # z
        /\ y # None => y # z
        /\ x # None /\ y # None => IdsBelow(x, y)
        /\ x # None /\ z # None => IdsBelow(x, z)
        /\ y # None /\ z # None => IdsBelow(y, z)
    <2>1. DirOK(dir)
      BY DiskTyped DEF EvIInv, DirsOK
    <2> QED BY <2>1 DEF DirOK, Below, AllIds, IdsBelow, Names
  <1>3. Present = Opened(x) \o Opened(y) \o Opened(z)
    BY DEF Present
  <1>4. "2" \in Names /\ "1" \in Names /\ "active" \in Names
    BY DEF Names
  <1> HIDE DEF x, y, z
  <1>5. CASE x = None /\ y = None /\ z = None
    <2>1. Present = <<>>
      BY <1>3, <1>5 DEF Opened
    <2> QED BY <1>5, <2>1, EmptySeq DEF z
  <1>6. CASE x # None /\ y = None /\ z = None
    <2>1. Present = <<x>>
      BY <1>3, <1>6 DEF Opened
    <2> QED BY <1>1, <1>4, <1>6, <2>1 DEF x, y, z
  <1>7. CASE x = None /\ y # None /\ z = None
    <2>1. Present = <<y>>
      BY <1>3, <1>7 DEF Opened
    <2> QED BY <1>1, <1>4, <1>7, <2>1 DEF x, y, z
  <1>8. CASE x = None /\ y = None /\ z # None
    <2>1. Present = <<z>>
      BY <1>3, <1>8 DEF Opened
    <2> QED BY <1>1, <1>4, <1>8, <2>1 DEF x, y, z
  <1>9. CASE x # None /\ y # None /\ z = None
    <2>1. Present = <<x, y>>
      BY <1>1, <1>3, <1>9, Joined DEF Opened
    <2> QED BY <1>1, <1>2, <1>4, <1>9, <2>1 DEF x, y, z
  <1>10. CASE x # None /\ y = None /\ z # None
    <2>1. Present = <<x, z>>
      BY <1>1, <1>3, <1>10, Joined DEF Opened
    <2> QED BY <1>1, <1>2, <1>4, <1>10, <2>1 DEF x, y, z
  <1>11. CASE x = None /\ y # None /\ z # None
    <2>1. Present = <<y, z>>
      BY <1>1, <1>3, <1>11, Joined DEF Opened
    <2> QED BY <1>1, <1>2, <1>4, <1>11, <2>1 DEF x, y, z
  <1>12. CASE x # None /\ y # None /\ z # None
    <2>1. Present = <<x, y, z>>
      BY <1>1, <1>3, <1>12, Joined, ZenonT(60) DEF Opened
    <2> QED BY <1>1, <1>2, <1>4, <1>12, <2>1 DEF x, y, z
  <1> QED BY <1>5, <1>6, <1>7, <1>8, <1>9, <1>10, <1>11, <1>12

\* What follows a generation that was left: the newer ones, or itself again when
\* it is still the active one.
LEMMA SuccessorFacts ==
  ASSUME EvIInv, NEW c \in ToSet(Present)
  PROVE  /\ Successors(c) \in Seq(Inodes) /\ Len(Successors(c)) <= 3
         /\ c # dir["active"] =>
              /\ \A k \in DOMAIN Successors(c) : c # Successors(c)[k] /\ IdsBelow(c, Successors(c)[k])
              /\ \A l, m \in DOMAIN Successors(c) : l < m =>
                   /\ Successors(c)[l] # Successors(c)[m] /\ Successors(c)[l] # dir["active"]
                   /\ IdsBelow(Successors(c)[l], Successors(c)[m])
              /\ Successors(c) = <<>> => dir["active"] = None
              /\ \E n \in Names : c = dir[n] /\ dir[n] # None
  <1> DEFINE s == Present
             match == CHOOSE k \in DOMAIN s : s[k] = c
             t == SubSeq(s, match + 1, Len(s))
  <1>1. /\ s \in Seq(Inodes) /\ Len(s) \in 0..3 /\ DOMAIN s = 1..Len(s)
        /\ dir["active"] # None => s # <<>> /\ s[Len(s)] = dir["active"]
        /\ \A k \in DOMAIN s : \E n \in Names : s[k] = dir[n] /\ dir[n] # None
        /\ \A l, m \in DOMAIN s : l < m =>
             s[l] # s[m] /\ s[l] # dir["active"] /\ IdsBelow(s[l], s[m])
    BY PresentFacts
  <1>2. match \in DOMAIN s /\ s[match] = c
    <2>1. \E k \in DOMAIN s : s[k] = c
      BY DEF ToSet
    <2> QED BY <2>1
  <1> HIDE DEF s, match
  <1>3. Successors(c) = IF c = dir["active"] THEN <<c>> ELSE t
    BY DEF Successors, s, match
  <1>4. CASE c = dir["active"]
    <2>1. c \in Inodes
      BY <1>1, <1>2, ElementOfSeq
    <2> QED BY <1>3, <1>4, <2>1
  <1>5. CASE c # dir["active"]
    <2>1. match \in Nat /\ Len(s) \in Nat /\ match <= Len(s) /\ match \in Int /\ Len(s) \in Int
      BY <1>1, <1>2
    <2> DEFINE n == Len(s) - match
    <2>2. n \in Nat /\ n <= 3
      BY <1>1, <2>1
    <2>3. t \in Seq(Inodes) /\ Len(t) = n /\ \A i \in 1..n : t[i] = s[match + i]
      <3>1. match + 1 \in Int /\ \A i \in (match + 1)..Len(s) : s[i] \in Inodes
        <4>1. \A i \in (match + 1)..Len(s) : i \in 1..Len(s)
          BY <2>1
        <4> QED BY <1>1, <2>1, <4>1, ElementOfSeq
      <3>2. /\ t \in Seq(Inodes)
            /\ Len(t) = IF match + 1 <= Len(s) THEN Len(s) - (match + 1) + 1 ELSE 0
            /\ \A i \in 1..Len(s) - (match + 1) + 1 : t[i] = s[match + 1 + i - 1]
        BY <2>1, <3>1, SubSeqProperties
      <3>3. Len(t) = n
        BY <2>1, <3>2
      <3>4. \A i \in 1..n : i \in 1..Len(s) - (match + 1) + 1 /\ match + 1 + i - 1 = match + i
        BY <2>1
      <3> QED BY <3>2, <3>3, <3>4
    <2>4. DOMAIN t = 1..n
      BY <2>3, LenProperties
    <2>5. \A i \in 1..n : match + i \in DOMAIN s /\ match < match + i
      BY <1>1, <2>1
    <2>6. \A l, m \in 1..n : l < m => match + l < match + m
      BY <2>1
    <2> HIDE DEF n, t
    <2>7. \A k \in DOMAIN t : c # t[k] /\ IdsBelow(c, t[k])
      BY <1>1, <1>2, <2>3, <2>4, <2>5
    <2>8. \A l, m \in DOMAIN t : l < m => t[l] # t[m] /\ t[l] # dir["active"] /\ IdsBelow(t[l], t[m])
      BY <1>1, <2>3, <2>4, <2>5, <2>6
    <2>9. t = <<>> => dir["active"] = None
      <3> SUFFICES ASSUME t = <<>>, dir["active"] # None PROVE FALSE
        OBVIOUS
      <3>1. n = 0
        BY <2>3
      <3>2. match = Len(s)
        BY <2>1, <3>1 DEF n
      <3> QED BY <1>1, <1>2, <1>5, <3>2
    <2>10. \E m \in Names : c = dir[m] /\ dir[m] # None
      BY <1>1, <1>2
    <2> QED BY <1>3, <1>5, <2>2, <2>3, <2>7, <2>8, <2>9, <2>10
  <1> QED BY <1>4, <1>5

\* The follower goes to the first of some generations it has not read.
LEMMA AttachFirst ==
  ASSUME EvIInv, FollowUnchanged, fol.pc # "done", out' = out,
         NEW s \in Seq(Inodes), s # <<>>, Len(s) <= 3,
         fol' = [Attach(Head(s)) EXCEPT !.queue = Tail(s)],
         torn = 0 =>
           /\ Increasing(out)
           /\ \A m \in DOMAIN s : OutBelow(s[m])
           /\ \A l, m \in DOMAIN s : l < m =>
                s[l] # dir["active"] /\ s[l] # s[m] /\ IdsBelow(s[l], s[m])
  PROVE  EvIInv'
  <1>1. PICK t : t = Tail(s)
    OBVIOUS
  <1>2. PICK i : i = s[1]
    OBVIOUS
  <1>3. Len(s) \in Nat \ {0} /\ DOMAIN s = 1..Len(s) /\ \A m \in DOMAIN s : s[m] \in Inodes
    BY LenProperties, ElementOfSeq, EmptySeq
  <1>4. /\ t \in Seq(Inodes) /\ Len(t) = Len(s) - 1
        /\ \A m \in 1..Len(t) : t[m] = s[m + 1]
    BY <1>1, HeadTailProperties
  <1>5. Head(s) = i /\ i \in Inodes /\ 1 \in DOMAIN s
    BY <1>2, <1>3
  <1>6. DOMAIN t = 1..(Len(s) - 1) /\ \A m \in DOMAIN t : m + 1 \in DOMAIN s /\ 1 < m + 1 /\ t[m] = s[m + 1]
    <2>1. DOMAIN t = 1..(Len(s) - 1)
      BY <1>4, LenProperties
    <2> QED BY <1>3, <1>4, <2>1
  <1>7. Len(t) <= 3 /\ (t # <<>> => 1 \in DOMAIN t)
    <2>1. Len(t) \in Nat /\ (t # <<>> => Len(t) # 0)
      BY <1>4, LenProperties, EmptySeq
    <2> QED BY <1>3, <1>4, <1>6, <2>1
  <1>8. \A l, m \in DOMAIN t : l < m => l + 1 < m + 1
    BY <1>3, <1>6
  <1>9. \A j \in Inodes : OutBelow(j) => OutBelow(j)'
    BY DEF OutBelow, Ids, FollowUnchanged, disk
  <1>10. \A m \in DOMAIN t : t[m] \in Inodes
    BY <1>3, <1>6
  <1>11. ASSUME torn = 0
         PROVE  /\ Increasing(out') /\ OutBelow(i)' /\ (t # <<>> => i # dir["active"])
                /\ \A m \in DOMAIN t : t[m] # i /\ IdsBelow(i, t[m]) /\ OutBelow(t[m])'
                /\ \A l, m \in DOMAIN t : l < m =>
                     t[l] # dir["active"] /\ t[l] # t[m] /\ IdsBelow(t[l], t[m])
    <2>1. Increasing(out')
      BY <1>11
    <2>2. OutBelow(i) /\ \A m \in DOMAIN t : OutBelow(t[m])
      BY <1>11, <1>2, <1>5, <1>6
    <2>3. OutBelow(i)' /\ \A m \in DOMAIN t : OutBelow(t[m])'
      BY <2>2, <1>5, <1>9, <1>10
    <2>4. \A m \in DOMAIN t : t[m] # i /\ IdsBelow(i, t[m]) /\ i # dir["active"]
      BY <1>11, <1>2, <1>5, <1>6
    <2>5. \A l, m \in DOMAIN t : l < m =>
            t[l] # dir["active"] /\ t[l] # t[m] /\ IdsBelow(t[l], t[m])
      BY <1>11, <1>6, <1>8
    <2> QED BY <1>7, <2>1, <2>3, <2>4, <2>5
  <1>12. fol' = [Attach(i) EXCEPT !.queue = t]
    BY <1>1, <1>5
  <1>13. out' \in Seq(Events) /\ OutOK'
    BY DEF EvIInv, EvTypeOK, OutOK, FollowUnchanged, disk, tally, evFaults
  <1> QED BY <1>4, <1>5, <1>7, <1>11, <1>12, <1>13, AttachKeeps

\* At the end of a generation.
LEMMA NextGenerationKeeps ==
  ASSUME EvIInv, NextGeneration
  PROVE  EvIInv'
  <1>1. fol.pc = "boundary" /\ FollowUnchanged /\ out' = out /\ fol \in Followers /\ out \in Seq(Events)
        /\ fol.pc \in Attached /\ fol.pc # "done"
    BY DEF NextGeneration, EvIInv, EvTypeOK, Attached
  <1>2. torn = 0 => ReadOK /\ Increasing(out') /\ fol.cur # dir["active"]
    BY <1>1 DEF EvIInv, ForwardOK, ReadOK
  <1>3. ASSUME NEW label \in {"failed", "wait"}, fol' = [fol EXCEPT !.pc = label],
               label = "wait" => fol.queue = <<>> /\ (torn = 0 => dir["active"] = None)
        PROVE  EvIInv'
    <2>1. Move(label)
      BY <1>1, <1>3 DEF Move
    <2> QED BY <1>1, <1>3, <2>1, MoveKeeps DEF FollowerLabels, Attached
  <1>4. CASE /\ fol.queue # <<>>
             /\ fol' = [Attach(Head(fol.queue)) EXCEPT !.queue = Tail(fol.queue)]
    <2>1. PICK s : s = fol.queue
      OBVIOUS
    <2>2. s \in Seq(Inodes) /\ Len(s) <= 3 /\ s # <<>>
      BY <1>4, <2>1, QueueTyped DEF EvIInv
    <2>3. torn = 0 =>
            /\ Increasing(out)
            /\ \A m \in DOMAIN s : OutBelow(s[m])
            /\ \A l, m \in DOMAIN s : l < m =>
                 s[l] # dir["active"] /\ s[l] # s[m] /\ IdsBelow(s[l], s[m])
      BY <1>1, <1>2, <2>1 DEF ReadOK
    <2>4. fol' = [Attach(Head(s)) EXCEPT !.queue = Tail(s)]
      BY <1>4, <2>1
    <2> QED BY <1>1, <2>2, <2>3, <2>4, AttachFirst
  <1>5. CASE fol.queue = <<>> /\ fol.cur \notin ToSet(Present) /\ fol' = [fol EXCEPT !.pc = "failed"]
    BY <1>3, <1>5
  <1>6. CASE /\ fol.queue = <<>> /\ fol.cur \in ToSet(Present) /\ Successors(fol.cur) = <<>>
             /\ fol' = [fol EXCEPT !.pc = "wait"]
    <2>1. torn = 0 => dir["active"] = None
      BY <1>2, <1>6, SuccessorFacts
    <2> QED BY <1>3, <1>6, <2>1
  <1>7. CASE /\ fol.queue = <<>> /\ fol.cur \in ToSet(Present) /\ Successors(fol.cur) # <<>>
              /\ fol' = [Attach(Head(Successors(fol.cur))) EXCEPT !.queue = Tail(Successors(fol.cur))]
    <2>1. PICK s : s = Successors(fol.cur)
      OBVIOUS
    <2>2. s \in Seq(Inodes) /\ Len(s) <= 3 /\ s # <<>>
      BY <1>7, <2>1, SuccessorFacts
    <2>3. DOMAIN s = 1..Len(s) /\ \A m \in DOMAIN s : s[m] \in Inodes
      BY <2>2, LenProperties, ElementOfSeq
    <2>4. ASSUME torn = 0
          PROVE  /\ Increasing(out)
                 /\ \A m \in DOMAIN s : OutBelow(s[m])
                 /\ \A l, m \in DOMAIN s : l < m =>
                      s[l] # dir["active"] /\ s[l] # s[m] /\ IdsBelow(s[l], s[m])
      <3>1. /\ \A m \in DOMAIN s : IdsBelow(fol.cur, s[m])
            /\ \A l, m \in DOMAIN s : l < m =>
                 s[l] # s[m] /\ s[l] # dir["active"] /\ IdsBelow(s[l], s[m])
            /\ \E n \in Names : fol.cur = dir[n] /\ dir[n] # None
        BY <1>2, <1>7, <2>1, <2>4, SuccessorFacts
      <3>2. \A k \in DOMAIN out : \E a \in Ids(file[fol.cur]) : out[k] <= a
        <4>1. fol.cur \in Inodes /\ fol.off \in Nat /\ fol.off <= Len(file[fol.cur])
              /\ DOMAIN file[fol.cur] = 1..Len(file[fol.cur]) /\ Len(file[fol.cur]) \in Nat /\ losses = 0
          BY <1>1, FollowerSees
        <4>2. file[fol.cur] # <<>>
          BY <1>2, <2>4, <3>1, <4>1, DiskTyped DEF EvIInv, RetainedOK
        <4>3. file[fol.cur] \in EventFiles
          BY <4>1, DiskTyped DEF EvIInv
        <4>4. Len(file[fol.cur]) # 0 /\ \A p \in DOMAIN file[fol.cur] : file[fol.cur][p].id \in Nat
          <5>1. \A r \in EventRecords : r.id \in Nat
            BY DEF EventRecords, Events
          <5> QED BY <4>2, <4>3, <5>1, FileFacts
        <4> TAKE k \in DOMAIN out
        <4>5. out[k] \in Nat
          BY OutTyped DEF EvIInv
        <4>6. CASE fol.off > 0
          <5>1. fol.off \in DOMAIN file[fol.cur] /\ out[k] <= file[fol.cur][fol.off].id
            BY <1>2, <2>4, <4>1, <4>6 DEF ReadOK
          <5> QED BY <5>1 DEF Ids
        <4>7. CASE fol.off = 0
          <5>1. 1 \in DOMAIN file[fol.cur] /\ 1 \in (fol.off + 1)..Len(file[fol.cur])
            BY <4>1, <4>4, <4>7
          <5>2. out[k] < file[fol.cur][1].id
            BY <1>2, <2>4, <5>1 DEF ReadOK
          <5>3. out[k] <= file[fol.cur][1].id
            BY <4>4, <4>5, <5>1, <5>2
          <5> QED BY <5>1, <5>3 DEF Ids
        <4> QED BY <4>1, <4>6, <4>7
      <3>3. \A m \in DOMAIN s : OutBelow(s[m])
        <4> TAKE m \in DOMAIN s
        <4> SUFFICES ASSUME NEW k \in DOMAIN out, NEW b \in Ids(file[s[m]]) PROVE out[k] < b
          BY DEF OutBelow
        <4>1. PICK a \in Ids(file[fol.cur]) : out[k] <= a
          BY <3>2
        <4>2. a < b
          BY <3>1 DEF IdsBelow
        <4>3. out[k] \in Nat /\ a \in Nat /\ b \in Nat
          <5>1. ASSUME NEW i \in Inodes, NEW e \in Ids(file[i]) PROVE e \in Nat
            <6>1. file[i] \in EventFiles
              BY DiskTyped DEF EvIInv
            <6> QED BY <6>1, FileFacts DEF Ids, EventRecords, Events
          <5>2. fol.cur \in Inodes
            BY <1>1, FollowerSees
          <5> QED BY <2>3, <5>1, <5>2, OutTyped DEF EvIInv
        <4> QED BY <4>1, <4>2, <4>3
      <3> QED BY <1>1, <1>2, <2>4, <3>1, <3>3
    <2>5. fol' = [Attach(Head(s)) EXCEPT !.queue = Tail(s)]
      BY <1>7, <2>1
    <2> QED BY <1>1, <2>2, <2>4, <2>5, AttachFirst
  <1> QED BY <1>4, <1>5, <1>6, <1>7 DEF NextGeneration

-----------------------------------------------------------------------------
(* The event log: the start of a follower, and the theorems                *)

\* A generation whose records are all terminated is streamed whole.
LEMMA StreamedFull ==
  ASSUME NEW s \in EventFiles, AllFull(s)
  PROVE  /\ Streamed(s) \in Seq(Events) /\ Len(Streamed(s)) = Len(s)
         /\ \A k \in 1..Len(s) : Streamed(s)[k] = s[k].id
  <1>1. s \in Seq(EventRecords) /\ Len(s) \in Nat /\ DOMAIN s = 1..Len(s)
        /\ \A k \in 1..Len(s) : s[k] \in EventRecords
        /\ (s = <<>> <=> Len(s) = 0)
    BY FileFacts
  <1>2. ~(s # <<>> /\ Last(s).form = "torn")
    <2> SUFFICES ASSUME s # <<>> PROVE Last(s).form = "full"
      OBVIOUS
    <2>1. Len(s) \in DOMAIN s /\ Last(s) = s[Len(s)]
      BY <1>1 DEF Last
    <2> QED BY <2>1 DEF AllFull
  <1>3. Streamed(s) = [k \in DOMAIN s |-> s[k].id]
    BY <1>2 DEF Streamed
  <1>4. \A k \in 1..Len(s) : s[k].id \in Events
    BY <1>1 DEF EventRecords
  <1>5. Streamed(s) \in [1..Len(s) -> Events]
    BY <1>1, <1>3, <1>4
  <1>6. Streamed(s) \in Seq(Events)
    BY <1>1, <1>5, SeqDef
  <1>7. Len(Streamed(s)) = Len(s)
    BY <1>1, <1>5, <1>6, LenProperties
  <1> QED BY <1>1, <1>3, <1>6, <1>7

\* Two such generations are streamed as one would be.
LEMMA StreamedBoth ==
  ASSUME NEW s \in EventFiles, NEW t \in EventFiles, AllFull(s), AllFull(t)
  PROVE  /\ Streamed(s) \o Streamed(t) \in Seq(Events)
         /\ DOMAIN (Streamed(s) \o Streamed(t)) = DOMAIN (s \o t)
         /\ \A k \in DOMAIN (s \o t) : (Streamed(s) \o Streamed(t))[k] = (s \o t)[k].id
         /\ \A k \in DOMAIN (s \o t) : (s \o t)[k] \in ToSet(s) \cup ToSet(t)
  <1> DEFINE x == Streamed(s)  y == Streamed(t)  u == s \o t  v == x \o y
  <1>1. /\ x \in Seq(Events) /\ Len(x) = Len(s) /\ \A k \in 1..Len(s) : x[k] = s[k].id
        /\ y \in Seq(Events) /\ Len(y) = Len(t) /\ \A k \in 1..Len(t) : y[k] = t[k].id
    BY StreamedFull
  <1>2. s \in Seq(EventRecords) /\ t \in Seq(EventRecords) /\ Len(s) \in Nat /\ Len(t) \in Nat
        /\ DOMAIN s = 1..Len(s) /\ DOMAIN t = 1..Len(t)
    BY FileFacts
  <1> HIDE DEF x, y
  <1>3. /\ u \in Seq(EventRecords) /\ Len(u) = Len(s) + Len(t)
        /\ \A i \in 1..Len(s) + Len(t) : u[i] = IF i <= Len(s) THEN s[i] ELSE t[i - Len(s)]
    BY <1>2, ConcatProperties
  <1>4. /\ v \in Seq(Events) /\ Len(v) = Len(s) + Len(t)
        /\ \A i \in 1..Len(s) + Len(t) : v[i] = IF i <= Len(s) THEN x[i] ELSE y[i - Len(s)]
    <2>1. /\ v \in Seq(Events) /\ Len(v) = Len(x) + Len(y)
          /\ \A i \in 1..Len(x) + Len(y) : v[i] = IF i <= Len(x) THEN x[i] ELSE y[i - Len(x)]
      <3>1. x \in Seq(Events) /\ y \in Seq(Events)
        BY <1>1
      <3> QED BY ONLY <3>1, ConcatProperties
    <2> QED BY <1>1, <2>1
  <1> HIDE DEF u, v
  <1>5. DOMAIN u = 1..Len(s) + Len(t) /\ DOMAIN v = 1..Len(s) + Len(t)
    BY <1>3, <1>4, LenProperties
  <1>6. ASSUME NEW k \in DOMAIN u PROVE v[k] = u[k].id /\ u[k] \in ToSet(s) \cup ToSet(t)
    <2>1. CASE k <= Len(s)
      <3>1. k \in DOMAIN s /\ u[k] = s[k] /\ v[k] = x[k]
        BY <1>2, <1>3, <1>4, <1>5, <2>1
      <3> QED BY <1>1, <1>2, <3>1 DEF ToSet
    <2>2. CASE k > Len(s)
      <3>1. k - Len(s) \in DOMAIN t /\ u[k] = t[k - Len(s)] /\ v[k] = y[k - Len(s)]
        BY <1>2, <1>3, <1>4, <1>5, <2>2
      <3> QED BY <1>1, <1>2, <3>1 DEF ToSet
    <2> QED BY <1>2, <1>5, <2>1, <2>2
  <1>7. /\ v \in Seq(Events) /\ DOMAIN v = DOMAIN u
        /\ \A k \in DOMAIN u : v[k] = u[k].id /\ u[k] \in ToSet(s) \cup ToSet(t)
    BY <1>4, <1>5, <1>6
  <1> QED BY <1>7 DEF u, v, x, y

\* Until the power fails, a retained generation is whole.
LEMMA RetainedWhole ==
  ASSUME EvIInv, losses = 0, NEW n \in {"1", "2"}
  PROVE  Contents(dir[n]) \in EventFiles /\ AllFull(Contents(dir[n]))
  <1>1. Contents(dir[n]) \in EventFiles /\ n \in Names
    BY ContentsOK DEF Names
  <1>2. CASE dir[n] = None
    BY <1>1, <1>2 DEF Contents, AllFull
  <1>3. CASE dir[n] # None
    <2>1. dir[n] # dir["active"]
      BY <1>3, DiskTyped DEF EvIInv, DirsOK
    <2> QED BY <1>1, <1>3, <2>1, DiskTyped DEF EvIInv, RetainedOK, Contents
  <1> QED BY <1>2, <1>3

\* A follower begins: the retained generations are drained.
LEMMA StartKeeps ==
  ASSUME EvIInv, StartFollow
  PROVE  EvIInv'
  <1>1. /\ fol.pc = "idle" /\ FollowUnchanged /\ fol \in Followers /\ fol.pc # "done" /\ losses = 0
        /\ fol.queue = <<>> /\ fol.cur = None
    BY DEF StartFollow, EvIInv, EvTypeOK, FolOK
  <1>2. PICK s : s = Contents(dir["2"])
    OBVIOUS
  <1>3. PICK t : t = Contents(dir["1"])
    OBVIOUS
  <1>4. PICK u : u = s \o t
    OBVIOUS
  <1>5. s \in EventFiles /\ AllFull(s) /\ InOrder(s) /\ t \in EventFiles /\ AllFull(t) /\ InOrder(t)
    BY <1>1, <1>2, <1>3, RetainedWhole, ContentsOK DEF Names
  <1>6. s \in Seq(EventRecords) /\ t \in Seq(EventRecords)
    BY <1>5, FileFacts
  <1>7. /\ \A a \in Ids(s), b \in Ids(t) : a < b
        /\ dir["active"] # None => \A a \in Ids(s) \cup Ids(t), b \in Ids(file[dir["active"]]) : a < b
    <2>1. DirOK(dir)
      BY DiskTyped DEF EvIInv, DirsOK
    <2>2. Ids(<<>>) = {}
      BY DEF Ids
    <2> QED BY <1>2, <1>3, <2>1, <2>2 DEF DirOK, Below, AllIds, Contents
  <1>8. u \in Seq(EventRecords) /\ InOrder(u) /\ Ids(u) = Ids(s) \cup Ids(t)
    BY <1>4, <1>5, <1>6, <1>7, JoinInOrder, JoinHolds
  <1>9. /\ out' \in Seq(Events) /\ DOMAIN out' = DOMAIN u
        /\ \A k \in DOMAIN u : out'[k] = u[k].id /\ u[k] \in ToSet(s) \cup ToSet(t)
    <2>1. out' = Streamed(s) \o Streamed(t)
      BY <1>2, <1>3 DEF StartFollow
    <2> QED BY <1>4, <1>5, <2>1, StreamedBoth
  <1>10. Increasing(out')
    BY <1>8, <1>9 DEF Increasing, InOrder
  <1>11. ASSUME NEW k \in DOMAIN out'
         PROVE  /\ out'[k] <= written /\ out'[k] \in Ids(u)
                /\ \E i \in Inodes : \E p \in DOMAIN file[i] :
                     file[i][p] = [id |-> out'[k], form |-> "full"]
    <2>1. PICK n \in {"1", "2"} : u[k] \in ToSet(Contents(dir[n])) /\ AllFull(Contents(dir[n]))
      BY <1>2, <1>3, <1>5, <1>9
    <2>2. dir[n] # None
      BY <2>1 DEF Contents, ToSet
    <2>3. dir[n] \in Inodes /\ Contents(dir[n]) = file[dir[n]] /\ file[dir[n]] \in EventFiles
      BY <2>2, DiskTyped DEF EvIInv, Names, Contents
    <2>4. PICK p \in DOMAIN file[dir[n]] : file[dir[n]][p] = u[k]
      BY <2>1, <2>3 DEF ToSet
    <2>5. u[k].form = "full" /\ u[k].id <= written /\ u[k] \in EventRecords
      BY <2>1, <2>3, <2>4, FileFacts DEF AllFull, EvIInv, FilesOK, FileOK
    <2>6. u[k] = [id |-> u[k].id, form |-> "full"]
      BY <2>5 DEF EventRecords
    <2> QED BY <1>9, <2>3, <2>4, <2>5, <2>6 DEF Ids
  <1>12. file' = file /\ written' = written /\ losses' = losses /\ torn' = torn
    BY <1>1 DEF FollowUnchanged, disk, tally, evFaults
  <1>13. OutOK'
    BY <1>11, <1>12 DEF OutOK
  <1>14. dir["active"] # None => OutBelow(dir["active"])'
    <2> SUFFICES ASSUME dir["active"] # None PROVE OutBelow(dir["active"])'
      OBVIOUS
    <2>1. PICK i : i = dir["active"]
      OBVIOUS
    <2>2. \A k \in DOMAIN out', b \in Ids(file[i]) : out'[k] < b
      BY <1>7, <1>8, <1>11, <2>1
    <2>3. dir' = dir
      BY <1>1 DEF FollowUnchanged, disk, dir
    <2> QED BY <1>12, <2>1, <2>2, <2>3 DEF OutBelow, Ids
  <1>15. CASE dir["active"] # None /\ fol' = Attach(dir["active"])
    <2>1. PICK i : i = dir["active"]
      OBVIOUS
    <2>2. i \in Inodes
      BY <1>15, <2>1, DiskTyped DEF EvIInv, Names
    <2>3. fol' = [Attach(i) EXCEPT !.queue = <<>>]
      BY <1>1, <1>15, <2>1 DEF Attach, Followers
    <2>4. OutBelow(i)'
      <3>1. dir' = dir
        BY <1>1 DEF FollowUnchanged, disk, dir
      <3> QED BY <1>14, <1>15, <2>1, <3>1
    <2>5. <<>> \in Seq(Inodes) /\ Len(<<>>) <= 3 /\ DOMAIN <<>> = {}
      OBVIOUS
    <2> QED BY <1>1, <1>9, <1>10, <1>13, <2>2, <2>3, <2>4, <2>5, AttachKeeps
  <1>16. CASE dir["active"] = None
              /\ fol' = [fol EXCEPT !.pc = "wait", !.retained = dir["1"] = None /\ dir["2"] = None]
    <2>1. fol' \in Followers /\ fol'.pc = "wait" /\ fol'.cur = None /\ fol'.off = fol.off
          /\ fol'.queue = <<>> /\ (fol'.retained => dir["1"] = None /\ dir["2"] = None)
      BY <1>1, <1>16 DEF Followers, FollowerLabels
    <2>2. /\ EvTypeOK' /\ FilesOK' /\ DirsOK' /\ WriterOK' /\ AckedOK' /\ RetainedOK'
          /\ dir' = dir
      BY <1>1, <1>9, <2>1, FollowerAlone
    <2>3. fol'.retained => out' = <<>>
      <3> SUFFICES ASSUME dir["1"] = None, dir["2"] = None PROVE out' = <<>>
        BY <2>1
      <3>1. s = <<>> /\ t = <<>>
        BY <1>2, <1>3 DEF Contents
      <3>2. u = <<>>
        BY <1>4, <3>1
      <3>3. DOMAIN out' = {}
        BY <1>9, <3>2
      <3>4. DOMAIN out' = 1..Len(out') /\ Len(out') \in Nat
        BY <1>9, LenProperties
      <3>5. Len(out') = 0
        BY <3>3, <3>4
      <3> QED BY <1>9, <3>5, EmptySeq
    <2>4. FolOK'
      <3>1. fol.off <= Len(Contents(fol.cur)) /\ \A q \in 1..fol.off : Contents(fol.cur)[q].form = "full"
        BY <1>1 DEF EvIInv, FolOK
      <3>2. Contents(fol.cur)' = Contents(fol.cur) /\ fol'.cur = fol.cur
        BY <1>1, <2>1, <1>12 DEF Contents
      <3> QED BY <1>1, <1>12, <2>1, <2>3, <3>1, <3>2 DEF FolOK, Attached
    <2>5. ForwardOK'
      BY <1>1, <1>10, <1>12, <1>16, <2>1, <2>2 DEF EvIInv, ForwardOK, Attached, AllFull
    <2> QED BY <1>13, <2>2, <2>4, <2>5 DEF EvIInv
  <1> QED BY <1>15, <1>16 DEF StartFollow

\* Before the first append.
LEMMA EvInitKeeps == EvInit => EvIInv
  <1> SUFFICES ASSUME EvInit PROVE EvIInv
    OBVIOUS
  <1> DEFINE d == [n \in Names |-> None]
  <1>1. d \in Directories /\ \A n \in Names : d[n] = None
    BY DEF Directories
  <1>2. dirs = <<d>>
    BY DEF EvInit
  <1> HIDE DEF d
  <1>3. dirs \in Seq(Directories) /\ dirs # <<>> /\ ToSet(dirs) = {d} /\ dir = d
    BY <1>1, <1>2 DEF dir, Last, ToSet
  <1>4. <<>> \in EventFiles /\ <<>> \in BoundedSeq(Inodes, 3)
    <2>1. <<>> \in EventFiles
      <3>1. <<>> \in Seq(EventRecords) /\ Len(<<>>) <= MaxRecords
        BY BoundsAssumption
      <3> QED BY <3>1, FileIs
    <2>2. <<>> \in [1..0 -> Inodes]
      OBVIOUS
    <2> QED BY <2>1, <2>2 DEF BoundedSeq, SeqOf
  <1>5. fol \in Followers /\ fol.pc = "idle" /\ fol.cur = None /\ fol.off = 0 /\ fol.queue = <<>>
        /\ ~fol.retained /\ out = <<>> /\ losses = 0
    BY <1>4, BoundsAssumption DEF EvInit, Followers, FollowerLabels
  <1>6. file = [i \in Inodes |-> <<>>] /\ durable = [i \in Inodes |-> <<>>]
    BY DEF EvInit
  <1>7. EvTypeOK
    <2>1. file \in [Inodes -> EventFiles] /\ durable \in [Inodes -> EventFiles]
      BY <1>4, <1>6
    <2>2. /\ evLock \in Writers \cup {NoWriter} /\ wpc \in [Writers -> WriterLabels]
          /\ \A w \in Writers : wpc[w] # "idle" <=> evLock = w
      BY BoundsAssumption DEF EvInit, WriterLabels
    <2>3. written \in 0..MaxEvents /\ aborts \in 0..MaxAborts /\ torn \in 0..MaxTorn
          /\ losses \in 0..MaxPowerLoss
      BY BoundsAssumption DEF EvInit
    <2>4. acked \subseteq Events /\ dropped \subseteq Events /\ out \in Seq(Events)
      BY DEF EvInit
    <2> QED BY <1>3, <1>5, <2>1, <2>2, <2>3, <2>4 DEF EvTypeOK, Directories, EventFiles
  <1>8. FilesOK
    BY <1>6 DEF FilesOK, FileOK
  <1>9. DirsOK /\ RetainedOK
    <2>1. DirOK(d)
      BY <1>1 DEF DirOK, Below, Names
    <2> QED BY <1>1, <1>3, <2>1 DEF DirsOK, RetainedOK, Names
  <1>10. WriterOK
    <2>1. \A w \in Writers : wpc[w] = "idle"
      BY DEF EvInit
    <2> QED BY <2>1 DEF WriterOK
  <1>11. AckedOK
    BY DEF AckedOK, EvInit
  <1>12. FolOK
    BY <1>5 DEF FolOK, Attached, Contents
  <1>13. ForwardOK
    BY <1>5, <1>6 DEF ForwardOK, Increasing, AllFull, Attached
  <1>14. OutOK
    BY <1>5 DEF OutOK
  <1> QED BY <1>7, <1>8, <1>9, <1>10, <1>11, <1>12, <1>13, <1>14 DEF EvIInv

\* Every step keeps the invariant.
LEMMA EvNextKeeps == EvIInv /\ [EvNext]_evVars => EvIInv'
  <1> SUFFICES ASSUME EvIInv, [EvNext]_evVars PROVE EvIInv'
    OBVIOUS
  <1>1. CASE UNCHANGED evVars
    <2>1. UNCHANGED <<disk, tally, fol, out, torn, losses, evLock, wpc, aborts>>
      BY <1>1 DEF evVars, evFaults
    <2>2. EvTypeOK' /\ WriterOK'
      BY <2>1 DEF EvIInv, EvTypeOK, WriterOK, disk, tally, dir, AllFull
    <2> QED BY <2>1, <2>2, DiskKept DEF EvIInv
  <1>2. ASSUME NEW w \in Writers, Writer(w) PROVE EvIInv'
    BY <1>2, LockKeeps, RepairKeeps, SyncRepairKeeps, RotateKeeps, ShiftKeeps, SyncDirectoryKeeps,
       RenameKeeps, OpenKeeps, WriteKeeps, SyncRecordKeeps, AbortKeeps DEF Writer
  <1>3. CASE Follower
    BY <1>3, StartKeeps, ReadKeeps, InspectKeeps, CheckpointKeeps, NextGenerationKeeps,
       WaitKeepsLog, WaitKeepsRetained, DeadlineKeeps DEF Follower
  <1>4. CASE PowerLoss
    BY <1>4, LossKeeps
  <1> QED BY <1>1, <1>2, <1>3, <1>4 DEF EvNext

\* The invariant of the log and its follower is inductive: writers that die
\* between any two steps of an append, power losses and a follower that reads
\* without the lock included.
THEOREM EvInductive == EvSpec => []EvIInv
  BY EvInitKeeps, EvNextKeeps, PTL DEF EvSpec

\* appendEventUnlocked with its repair and rotation keeps the log in the order of
\* the writes and every acknowledged event in it, for any number of writers and
\* any bounds.
THEOREM LogIntact == EvSpec => []LogIsIntact
  BY EvInductive, LogSafe, PTL

\* followEventLogFile emits terminated records only and, while no append is torn,
\* each at most once and in order, for any number of writers and any bounds.
THEOREM FollowerFaithful == EvSpec => []FollowerIsFaithful
  BY EvInductive, FollowSafe, PTL

-----------------------------------------------------------------------------
(* Container logs: the inductive invariant                                 *)

MLabels == {"idle", "shift", "truncate", "inspect", "move", "expire", "staged",
            "unstage", "create", "copy", "verify", "remove"}
MStates == [pc : MLabels, ino : {0} \cup LogInodes, name : Nat, n : Nat,
            gz : {0} \cup LogInodes, src : Seq(Writes), call : {"none", "archive", "prune"}]
FStates == [ino : {0} \cup LogInodes, off : Nat, follow : BOOLEAN, held : {0} \cup Writes,
            last : {0} \cup Writes, back : BOOLEAN, amid : BOOLEAN]
LcTyped ==
  /\ LcTypeOK /\ lcWritten \in {0} \cup Writes
  /\ lcM \in [Maintainers -> MStates] /\ lcF \in FStates

\* What a call has in its locals, and under its tombstone name, where it is.
InShift(r) == r.pc \in {"shift", "truncate"}
InCompress(r) == r.pc \in {"create", "copy", "verify", "remove"}
CallOK(r, staged) ==
  /\ InShift(r) => r.ino # 0 /\ r.name > 0
  /\ r.pc = "shift" => r.n < MaxBytes
  /\ r.pc = "truncate" => r.n = MaxBytes
  /\ r.pc = "inspect" => r.name < MaxFiles
  /\ r.pc = "move" => r.name + 1 < MaxFiles
  /\ r.pc \in {"expire", "staged", "unstage"} => r.name \in 1..MaxFiles
  /\ InCompress(r) => r.ino # 0
  /\ r.gz # 0 <=> r.pc \in {"copy", "verify", "remove"}
  /\ staged # 0 <=> r.pc \in {"staged", "unstage"}
  /\ r.pc = "unstage" => staged = r.ino
CallsOK == \A m \in Maintainers : CallOK(lcM[m], lcStage[m])

\* A file that is staged has no other name.
StageOK ==
  \A m \in Maintainers : lcStage[m] # 0 =>
    /\ \A n \in LogNames : lcDir[n] # lcStage[m]
    /\ \A o \in Maintainers \ {m} : lcStage[o] # lcStage[m]

\* A log never becomes a compressed file, nor the other way round.
IsLog(i) ==
  \/ lcFd = i \/ lcF.ino = i
  \/ \E n \in LogNames \ {Gz} : lcDir[n] = i
  \/ \E m \in Maintainers :
       \/ lcStage[m] = i /\ lcM[m].name # Gz
       \/ lcM[m].ino = i /\ (InShift(lcM[m]) \/ InCompress(lcM[m]))
IsGz(i) ==
  \/ lcDir[Gz] = i
  \/ \E m \in Maintainers : lcM[m].gz = i \/ (lcStage[m] = i /\ lcM[m].name = Gz)
KindsOK == \A i \in LogInodes : ~(IsLog(i) /\ IsGz(i))

Blamed(w) == lcCause[w] # "none"
Rising(s) == \A p, q \in 1..Len(s) : p < q => s[p] < s[q]

\* A shift in place that alone has the file: n writes are at the front, the cut
\* is behind write name, and what stands in between is trimmed or already moved.
ShiftOK(m, s) ==
  LET d == lcM[m].name  k == lcM[m].n IN
  /\ d + MaxBytes <= Len(s)
  /\ \A p, q \in 1..Len(s) : p < q /\ (q <= k \/ p > k \/ q > k + d) => s[p] < s[q]
  /\ \A p \in (k + 1)..(k + d) : IF p <= d THEN Blamed(s[p]) ELSE s[p - d] = s[p]
  /\ \A p \in (d + MaxBytes + 1)..Len(s) : Blamed(s[p])
OrderOK ==
  \A i \in LogInodes : IsLog(i) /\ i \notin lcTorn =>
    /\ HalfShifted(i) \/ Rising(lcIno[i])
    /\ \A m \in Maintainers : Shifting(m, i) =>
         ShiftOK(m, lcIno[i]) /\ \A o \in Maintainers : Shifting(o, i) => o = m
TornOK ==
  \A i \in lcTorn, m \in Maintainers : Shifting(m, i) =>
    Len(lcIno[i]) >= MaxBytes /\ \A w \in Units(i) : Blamed(w)
WrittenOK == \A i \in LogInodes : \A w \in Units(i) : w <= lcWritten

\* A write without a cause is in a file that is not about to be removed, and a
\* compression removes only what it has copied.
Safe(i) == \/ \E n \in LogNames : lcDir[n] = i
           \/ \E m \in Maintainers : lcStage[m] = i /\ lcM[m].pc # "unstage"
           \/ i \in lcStranded
KeptOK == \A w \in 1..lcWritten : Blamed(w) \/ \E i \in LogInodes : Safe(i) /\ w \in Units(i)
CopyOK ==
  \A m \in Maintainers : lcM[m].pc = "remove" =>
    \A w \in Units(lcM[m].ino) : Blamed(w) \/ w \in Units(lcM[m].gz)

\* What the reader has yet to read is newer than what it has read.
ReaderOK ==
  /\ lcF.last <= lcWritten /\ (lcF.back => lcF.amid)
  /\ lcF.ino # 0 /\ ~lcF.amid =>
       \A p \in 1..Len(lcIno[lcF.ino]) : p > lcF.off => lcIno[lcF.ino][p] > lcF.last

LcIInv == /\ LcTyped /\ CallsOK /\ StageOK /\ KindsOK /\ OrderOK /\ TornOK
          /\ WrittenOK /\ KeptOK /\ CopyOK /\ ReaderOK

-----------------------------------------------------------------------------
(* Container logs: what a step leaves alone                                *)

DirTyped ==
  /\ lcDir \in [LogNames -> {0} \cup LogInodes]
  /\ \A n, k \in LogNames : n # k /\ lcDir[n] # 0 => lcDir[n] # lcDir[k]

\* The sorts of the constants.
LEMMA LogSorts ==
  /\ MaxBytes \in Nat /\ MaxBytes > 0 /\ MaxFiles \in Nat /\ MaxFiles > 1
  /\ 0 \notin LogInodes /\ LogInodes \subseteq Nat /\ Writes \subseteq Nat /\ 0 \notin Writes
  /\ Gz \in LogNames /\ 0 \in LogNames /\ 1 \in LogNames /\ Gz # 0 /\ Gz # 1
  /\ LogNames \subseteq Nat /\ LogNames = 0..MaxFiles
  BY LogsAssumption DEF LogInodes, Writes, LogNames, Gz

\* What the type invariant says of files and calls.
LEMMA LogTypes ==
  ASSUME LcTyped
  PROVE  /\ DirTyped /\ lcStage \in [Maintainers -> {0} \cup LogInodes]
         /\ lcIno \in [LogInodes -> Seq(Writes)] /\ lcM \in [Maintainers -> MStates]
         /\ lcF \in FStates /\ lcCause \in [Writes -> Causes] /\ lcWritten \in Nat
         /\ lcWritten <= MaxWrites /\ 1..lcWritten \subseteq Writes
         /\ \A m \in Maintainers : lcM[m] \in MStates /\ lcStage[m] \in {0} \cup LogInodes
         /\ \A i \in LogInodes :
              /\ lcIno[i] \in Seq(Writes) /\ Len(lcIno[i]) \in Nat
              /\ DOMAIN lcIno[i] = 1..Len(lcIno[i])
              /\ \A k \in 1..Len(lcIno[i]) : lcIno[i][k] \in Writes /\ lcIno[i][k] \in Nat
              /\ Units(i) \subseteq Writes
  <1>1. /\ DirTyped /\ lcStage \in [Maintainers -> {0} \cup LogInodes]
        /\ lcIno \in [LogInodes -> Seq(Writes)] /\ lcM \in [Maintainers -> MStates]
        /\ lcF \in FStates /\ lcCause \in [Writes -> Causes]
    BY DEF LcTyped, LcTypeOK, DirTyped
  <1>2. lcWritten \in Nat /\ lcWritten <= MaxWrites /\ 1..lcWritten \subseteq Writes
    BY LogsAssumption DEF LcTyped, Writes
  <1>3. ASSUME NEW i \in LogInodes
        PROVE  /\ lcIno[i] \in Seq(Writes) /\ Len(lcIno[i]) \in Nat
               /\ DOMAIN lcIno[i] = 1..Len(lcIno[i])
               /\ \A k \in 1..Len(lcIno[i]) : lcIno[i][k] \in Writes /\ lcIno[i][k] \in Nat
               /\ Units(i) \subseteq Writes
    <2>1. lcIno[i] \in Seq(Writes)
      BY <1>1
    <2>2. Len(lcIno[i]) \in Nat /\ DOMAIN lcIno[i] = 1..Len(lcIno[i])
      BY <2>1, LenProperties
    <2>3. \A k \in 1..Len(lcIno[i]) : lcIno[i][k] \in Writes
      BY <2>1, ElementOfSeq
    <2> QED BY <2>1, <2>2, <2>3, LogSorts DEF Units
  <1> QED BY <1>1, <1>2, <1>3

\* One call goes on, the others stay where they are.
LEMMA CallChanges ==
  ASSUME LcTyped, NEW m \in Maintainers, NEW r \in MStates, lcM' = [lcM EXCEPT ![m] = r]
  PROVE  /\ lcM' \in [Maintainers -> MStates] /\ lcM'[m] = r
         /\ \A o \in Maintainers \ {m} : lcM'[o] = lcM[o]
  BY LogTypes

\* The calls are all right when the one that went on is.
LEMMA CallsKept ==
  ASSUME CallsOK, NEW m \in Maintainers, CallOK(lcM'[m], lcStage'[m]),
         \A o \in Maintainers \ {m} : lcM'[o] = lcM[o] /\ lcStage'[o] = lcStage[o]
  PROVE  CallsOK'
  BY DEF CallsOK

\* A shift that alone has its file, when only causes are added.
LEMMA ShiftFrame ==
  ASSUME LcTyped, CallsOK, NEW m \in Maintainers, NEW i \in LogInodes, Shifting(m, i), ShiftOK(m, lcIno[i]),
         lcM'[m] = lcM[m], lcIno'[i] = lcIno[i], \A w \in Writes : Blamed(w) => Blamed(w)'
  PROVE  ShiftOK(m, lcIno[i])'
  <1>1. PICK s : s = lcIno[i]
    OBVIOUS
  <1>2. s \in Seq(Writes) /\ Len(s) \in Nat /\ \A p \in 1..Len(s) : s[p] \in Writes
    BY <1>1, LogTypes
  <1>3. lcM[m].name \in Nat /\ lcM[m].n \in Nat /\ lcM[m].n <= MaxBytes
    BY LogTypes, LogSorts DEF MStates, CallsOK, CallOK, Shifting, InShift
  <1>4. ShiftOK(m, s)
    BY <1>1
  <1>5. ShiftOK(m, s)'
    <2>1. \A p \in 1..Len(s) : Blamed(s[p]) => Blamed(s[p])'
      BY <1>2
    <2>2. lcM[m].name + MaxBytes <= Len(s)
      BY <1>4 DEF ShiftOK
    <2>3. \A p \in (lcM[m].n + 1)..(lcM[m].n + lcM[m].name) : p \in 1..Len(s)
      BY <1>2, <1>3, <2>2, LogSorts
    <2>4. \A p \in (lcM[m].name + MaxBytes + 1)..Len(s) : p \in 1..Len(s)
      BY <1>2, <1>3, LogSorts
    <2> QED BY <1>4, <2>1, <2>3, <2>4 DEF ShiftOK
  <1> QED BY <1>1, <1>5

\* The order of writes in logs that did not change.
LEMMA OrderFrame ==
  ASSUME LcIInv,
         \A w \in Writes : Blamed(w) => Blamed(w)',
         \A i \in LogInodes : IsLog(i)' => IsLog(i) /\ lcIno'[i] = lcIno[i],
         lcTorn' = lcTorn, LcTyped', CallsOK',
         \A m \in Maintainers : InShift(lcM'[m]) => lcM'[m] = lcM[m],
         \A m \in Maintainers : InShift(lcM[m]) => lcM'[m] = lcM[m] \/ lcM[m].ino \in lcTorn
  PROVE  OrderOK' /\ TornOK'
  <1>1. \A m \in Maintainers, i \in LogInodes : Shifting(m, i)' => Shifting(m, i) /\ lcM'[m] = lcM[m]
    BY DEF Shifting, InShift
  <1>2. \A m \in Maintainers, i \in LogInodes :
          i \notin lcTorn /\ Shifting(m, i) => Shifting(m, i)' /\ lcM'[m] = lcM[m]
    BY DEF Shifting, InShift
  <1>3. \A m \in Maintainers, i \in LogInodes : Shifting(m, i)' => IsLog(i)'
    BY DEF Shifting, IsLog, InShift
  <1>4. ASSUME NEW i \in LogInodes, (IsLog(i))', i \notin lcTorn
        PROVE  /\ (HalfShifted(i) \/ Rising(lcIno[i]))'
               /\ \A m \in Maintainers : Shifting(m, i)' =>
                    ShiftOK(m, lcIno[i])' /\ \A o \in Maintainers : Shifting(o, i)' => o = m
    <2>1. IsLog(i) /\ lcIno'[i] = lcIno[i]
      BY <1>4
    <2>2. (HalfShifted(i) \/ Rising(lcIno[i]))'
      <3>1. HalfShifted(i) => HalfShifted(i)'
        BY <1>2, <1>4 DEF HalfShifted
      <3> QED BY <1>4, <2>1, <3>1 DEF LcIInv, OrderOK, Rising
    <2>3. ASSUME NEW m \in Maintainers, Shifting(m, i)'
          PROVE  ShiftOK(m, lcIno[i])' /\ \A o \in Maintainers : Shifting(o, i)' => o = m
      <3>1. Shifting(m, i) /\ lcM'[m] = lcM[m]
        BY <1>1, <2>3
      <3>2. ShiftOK(m, lcIno[i]) /\ \A o \in Maintainers : Shifting(o, i) => o = m
        BY <1>4, <2>1, <3>1 DEF LcIInv, OrderOK
      <3>3. ShiftOK(m, lcIno[i])'
        BY <1>4, <2>1, <3>1, <3>2, ShiftFrame DEF LcIInv
      <3> QED BY <1>1, <3>2, <3>3
    <2> QED BY <2>2, <2>3
  <1>5. OrderOK'
    BY <1>4 DEF OrderOK
  <1>6. TornOK'
    <2> SUFFICES ASSUME NEW i \in lcTorn, NEW m \in Maintainers, Shifting(m, i)'
                 PROVE  Len(lcIno'[i]) >= MaxBytes /\ \A w \in Units(i)' : Blamed(w)'
      BY DEF TornOK
    <2>1. i \in LogInodes
      BY DEF LcIInv, LcTyped, LcTypeOK
    <2>2. lcIno'[i] = lcIno[i] /\ Shifting(m, i)
      BY <1>1, <1>3, <2>1
    <2>3. \A w \in Units(i)' : w \in Units(i) /\ w \in Writes
      BY <2>1, <2>2, LogTypes DEF Units, LcIInv
    <2> QED BY <2>2, <2>3 DEF LcIInv, TornOK
  <1> QED BY <1>5, <1>6

\* The reader, when its file did not change.
LEMMA ReaderFrame ==
  ASSUME LcIInv, lcF' = lcF, lcWritten' = lcWritten, lcF.ino # 0 => lcIno'[lcF.ino] = lcIno[lcF.ino]
  PROVE  ReaderOK'
  BY DEF LcIInv, ReaderOK

\* Kinds, when no file gets one.
LEMMA KindsFrame ==
  ASSUME LcIInv, \A i \in LogInodes : (IsLog(i)' => IsLog(i)) /\ (IsGz(i)' => IsGz(i))
  PROVE  KindsOK'
  BY DEF LcIInv, KindsOK

-----------------------------------------------------------------------------
(* Container logs: calls that write into no file                           *)

\* A call goes on and may change names and causes, but no content.
LEMMA CallKeeps ==
  ASSUME LcIInv, NEW m \in Maintainers, NEW r \in MStates, lcM' = [lcM EXCEPT ![m] = r],
         UNCHANGED <<lcIno, lcOld, lcFd, lcWritten, lcTorn, lcF>>,
         DirTyped', lcStage' \in [Maintainers -> {0} \cup LogInodes],
         \A o \in Maintainers \ {m} : lcStage'[o] = lcStage[o],
         CallOK(r, lcStage'[m]), StageOK', lcStranded' \subseteq LogInodes,
         lcCause' \in [Writes -> Causes], \A w \in Writes : Blamed(w) => Blamed(w)',
         ~InShift(r), InShift(lcM[m]) => lcM[m].ino \in lcTorn,
         \A i \in LogInodes : (IsLog(i)' => IsLog(i)) /\ (IsGz(i)' => IsGz(i)),
         r.pc = "remove" => \A w \in Units(r.ino) : Blamed(w) \/ w \in Units(r.gz),
         KeptOK'
  PROVE  LcIInv'
  <1>1. /\ lcM' \in [Maintainers -> MStates] /\ lcM'[m] = r
        /\ \A o \in Maintainers \ {m} : lcM'[o] = lcM[o]
    BY CallChanges DEF LcIInv
  <1>2. LcTyped'
    BY <1>1 DEF LcIInv, LcTyped, LcTypeOK, DirTyped
  <1>3. CallsOK'
    BY <1>1, CallsKept DEF LcIInv
  <1>4. OrderOK' /\ TornOK'
    BY <1>1, <1>2, <1>3, OrderFrame
  <1>5. ReaderOK' /\ KindsOK'
    BY ReaderFrame, KindsFrame
  <1>6. WrittenOK'
    BY DEF LcIInv, WrittenOK, Units
  <1>7. CopyOK'
    <2>1. ASSUME NEW o \in Maintainers, lcM'[o].pc = "remove"
          PROVE  \A w \in Units(lcM[o].ino)' : Blamed(w)' \/ w \in Units(lcM[o].gz)'
      <3>1. PICK i : i = lcM'[o].ino
        OBVIOUS
      <3>2. PICK j : j = lcM'[o].gz
        OBVIOUS
      <3>3. i \in LogInodes
        BY <1>1, <1>3, <2>1, <3>1 DEF CallsOK, CallOK, InCompress, MStates
      <3>4. \A w \in Units(i) : Blamed(w) \/ w \in Units(j)
        BY <1>1, <2>1, <3>1, <3>2 DEF LcIInv, CopyOK
      <3>5. \A w \in Units(i) : w \in Writes
        BY <3>3, LogTypes DEF LcIInv
      <3>6. \A w \in Units(i)' : Blamed(w)' \/ w \in Units(j)'
        BY <3>4, <3>5 DEF Units
      <3> QED BY <3>1, <3>2, <3>6 DEF Units
    <2> QED BY <2>1 DEF CopyOK
  <1> QED BY <1>2, <1>3, <1>4, <1>5, <1>6, <1>7 DEF LcIInv

\* A call goes on with its locals alone.
LEMMA LocalKeeps ==
  ASSUME LcIInv, NEW m \in Maintainers, NEW r \in MStates, lcM' = [lcM EXCEPT ![m] = r],
         UNCHANGED <<lcDir, lcStage, lcStranded, lcIno, lcOld, lcFd, lcWritten, lcTorn, lcF, lcCause>>,
         lcStage[m] = 0, CallOK(r, 0), ~InShift(r), InShift(lcM[m]) => lcM[m].ino \in lcTorn,
         r.gz \in {0, lcM[m].gz}, InCompress(r) => IsLog(r.ino),
         r.pc = "remove" => \A w \in Units(r.ino) : Blamed(w) \/ w \in Units(r.gz)
  PROVE  LcIInv'
  <1>1. /\ lcM' \in [Maintainers -> MStates] /\ lcM'[m] = r
        /\ \A o \in Maintainers \ {m} : lcM'[o] = lcM[o]
    BY CallChanges DEF LcIInv
  <1>2. /\ DirTyped' /\ lcStage' \in [Maintainers -> {0} \cup LogInodes]
        /\ lcStranded' \subseteq LogInodes /\ lcCause' \in [Writes -> Causes]
    BY LogTypes DEF LcIInv, LcTyped, LcTypeOK, DirTyped
  <1>3. StageOK' /\ \A w \in Writes : Blamed(w) => Blamed(w)'
    BY DEF LcIInv, StageOK, Blamed
  <1>4. ASSUME NEW i \in LogInodes PROVE (IsLog(i)' => IsLog(i)) /\ (IsGz(i)' => IsGz(i))
    <2>1. i # 0
      BY LogSorts
    <2>2. IsLog(i)' => IsLog(i)
      BY <1>1, <2>1 DEF IsLog
    <2>3. IsGz(i)' => IsGz(i)
      BY <1>1, <2>1 DEF IsGz
    <2> QED BY <2>2, <2>3
  <1>5. KeptOK'
    <2>1. \A i \in LogInodes : Safe(i) => Safe(i)'
      BY <1>1, LogSorts DEF Safe
    <2> QED BY <2>1 DEF LcIInv, KeptOK, Units, Blamed
  <1> QED BY <1>1, <1>2, <1>3, <1>4, <1>5, CallKeeps

\* The locals of a call at rest.
LEMMA AtRest == MRest \in MStates /\ CallOK(MRest, 0) /\ ~InShift(MRest) /\ ~InCompress(MRest)
                /\ MRest.gz = 0 /\ MRest.pc = "idle" /\ MRest.name = 0 /\ MRest.ino = 0 /\ MRest.n = 0
  BY DEF MRest, MStates, MLabels, CallOK, InShift, InCompress

\* A call that holds no staged file returns.
LEMMA ReturnKeeps ==
  ASSUME LcIInv, NEW m \in Maintainers, MReturns(m), lcStage[m] = 0,
         UNCHANGED <<lcDir, lcStage, lcStranded, lcIno, lcOld, lcFd, lcWritten, lcTorn, lcF, lcCause>>,
         InShift(lcM[m]) => lcM[m].ino \in lcTorn
  PROVE  LcIInv'
  BY AtRest, LocalKeeps DEF MReturns

\* An archive call goes to the next name.
LEMMA NextName ==
  ASSUME NEW m \in Maintainers, ArchiveNext(m), lcM[m].name \in 0..MaxFiles
  PROVE  \E r \in MStates :
           /\ lcM' = [lcM EXCEPT ![m] = r] /\ CallOK(r, 0) /\ ~InShift(r) /\ ~InCompress(r)
           /\ r.gz = 0
  <1>1. CASE MReturns(m)
    BY <1>1, AtRest DEF MReturns
  <1>2. CASE /\ lcM[m].name # 0
             /\ MGoes(m, [MRest EXCEPT !.pc = "inspect", !.name = lcM[m].name - 1, !.call = "archive"])
    <2>1. PICK k \in Nat : k = lcM[m].name - 1 /\ k < MaxFiles
      BY <1>2, LogSorts
    <2>2. PICK r : r = [MRest EXCEPT !.pc = "inspect", !.name = k, !.call = "archive"]
      OBVIOUS
    <2>3. r \in MStates /\ r.pc = "inspect" /\ r.gz = 0 /\ r.name < MaxFiles
      BY <2>1, <2>2, AtRest DEF MStates, MLabels
    <2>4. CallOK(r, 0) /\ ~InShift(r) /\ ~InCompress(r)
      BY <2>3 DEF CallOK, InShift, InCompress
    <2>5. lcM' = [lcM EXCEPT ![m] = r]
      BY <1>2, <2>1, <2>2 DEF MGoes
    <2> QED BY <2>3, <2>4, <2>5
  <1> QED BY <1>1, <1>2 DEF ArchiveNext

\* ArchiveLogFile begins.
LEMMA ArchiveStartKeeps ==
  ASSUME LcIInv, NEW m \in Maintainers, ArchiveStart(m)
  PROVE  LcIInv'
  <1>1. PICK k \in Nat : k = MaxFiles - 1 /\ k < MaxFiles
    BY LogSorts
  <1>2. PICK r : r = [MRest EXCEPT !.pc = "inspect", !.name = k, !.call = "archive"]
    OBVIOUS
  <1>3. r \in MStates /\ r.pc = "inspect" /\ r.gz = 0 /\ r.name < MaxFiles
    BY <1>1, <1>2, AtRest DEF MStates, MLabels
  <1>4. CallOK(r, 0) /\ ~InShift(r) /\ ~InCompress(r)
    BY <1>3 DEF CallOK, InShift, InCompress
  <1>5. lcStage[m] = 0 /\ ~InShift(lcM[m])
    BY DEF ArchiveStart, MAt, LcIInv, CallsOK, CallOK, InShift
  <1>6. /\ lcM' = [lcM EXCEPT ![m] = r]
        /\ UNCHANGED <<lcDir, lcStage, lcStranded, lcIno, lcOld, lcFd, lcWritten, lcTorn, lcF, lcCause>>
    BY <1>1, <1>2 DEF ArchiveStart, MGoes, lcFiles, lcPayload
  <1> QED BY <1>3, <1>4, <1>5, <1>6, LocalKeeps

\* It looks at a name.
LEMMA ArchiveInspectKeeps ==
  ASSUME LcIInv, NEW m \in Maintainers, ArchiveInspect(m)
  PROVE  LcIInv'
  <1>1. /\ lcM[m].pc = "inspect"
        /\ UNCHANGED <<lcDir, lcStage, lcStranded, lcIno, lcOld, lcFd, lcWritten, lcTorn, lcF, lcCause>>
    BY DEF ArchiveInspect, MAt, lcFiles, lcPayload
  <1>2. lcStage[m] = 0 /\ ~InShift(lcM[m]) /\ lcM[m] \in MStates /\ lcM[m].name \in Nat
        /\ lcM[m].name < MaxFiles /\ lcM[m].gz = 0
    BY <1>1, LogTypes, LogSorts DEF LcIInv, CallsOK, CallOK, InShift, MStates
  <1>3. CASE ArchiveNext(m)
    <2>1. lcM[m].name \in 0..MaxFiles
      BY <1>2, LogSorts
    <2>2. PICK r \in MStates :
            /\ lcM' = [lcM EXCEPT ![m] = r] /\ CallOK(r, 0) /\ ~InShift(r) /\ ~InCompress(r)
            /\ r.gz = 0
      BY <1>3, <2>1, NextName
    <2>3. r.pc # "remove"
      BY <2>2 DEF InCompress
    <2> QED BY <1>1, <1>2, <2>2, <2>3, LocalKeeps
  <1>4. CASE /\ lcDir[lcM[m].name] # 0
             /\ MGoes(m, [lcM[m] EXCEPT !.ino = lcDir[lcM[m].name],
                            !.pc = IF lcM[m].name = MaxFiles - 1 THEN "expire" ELSE "move"])
    <2>1. PICK r : r = [lcM[m] EXCEPT !.ino = lcDir[lcM[m].name],
                            !.pc = IF lcM[m].name = MaxFiles - 1 THEN "expire" ELSE "move"]
      OBVIOUS
    <2>2. lcM[m].name \in LogNames /\ lcDir[lcM[m].name] \in {0} \cup LogInodes
      BY <1>2, LogTypes, LogSorts DEF LcIInv, DirTyped
    <2>3. r \in MStates /\ r.name = lcM[m].name /\ r.gz = 0
          /\ r.pc = (IF lcM[m].name = MaxFiles - 1 THEN "expire" ELSE "move")
      BY <1>2, <2>1, <2>2 DEF MStates, MLabels
    <2>4. CallOK(r, 0) /\ ~InShift(r) /\ ~InCompress(r)
      BY <1>2, <2>3, LogSorts DEF CallOK, InShift, InCompress
    <2>5. lcM' = [lcM EXCEPT ![m] = r]
      BY <1>4, <2>1 DEF MGoes
    <2> QED BY <1>1, <1>2, <2>3, <2>4, <2>5, LocalKeeps
  <1> QED BY <1>3, <1>4 DEF ArchiveInspect

\* PruneRotatedLogs picks a name.
LEMMA PruneInspectKeeps ==
  ASSUME LcIInv, NEW m \in Maintainers, PruneInspect(m)
  PROVE  LcIInv'
  <1>1. PICK n \in ArchiveNames \cup {Gz} :
          /\ lcDir[n] \in lcOld
          /\ MGoes(m, [MRest EXCEPT !.pc = "expire", !.ino = lcDir[n], !.name = n, !.call = "prune"])
    BY DEF PruneInspect
  <1>2. PICK r : r = [MRest EXCEPT !.pc = "expire", !.ino = lcDir[n], !.name = n, !.call = "prune"]
    OBVIOUS
  <1>3. n \in 1..MaxFiles /\ n \in Nat /\ lcDir[n] \in LogInodes
    BY <1>1, LogSorts DEF ArchiveNames, Gz, LcIInv, LcTyped, LcTypeOK
  <1>4. r \in MStates /\ r.pc = "expire" /\ r.name = n /\ r.gz = 0
    BY <1>2, <1>3, AtRest DEF MStates, MLabels
  <1>5. CallOK(r, 0) /\ ~InShift(r) /\ ~InCompress(r)
    BY <1>3, <1>4 DEF CallOK, InShift, InCompress
  <1>6. lcStage[m] = 0 /\ ~InShift(lcM[m])
    BY DEF PruneInspect, MAt, LcIInv, CallsOK, CallOK, InShift
  <1>7. /\ lcM' = [lcM EXCEPT ![m] = r]
        /\ UNCHANGED <<lcDir, lcStage, lcStranded, lcIno, lcOld, lcFd, lcWritten, lcTorn, lcF, lcCause>>
    BY <1>1, <1>2 DEF PruneInspect, MGoes, lcFiles, lcPayload
  <1> QED BY <1>4, <1>5, <1>6, <1>7, LocalKeeps

\* CompressRotatedLog opens its source.
LEMMA CompressOpenKeeps ==
  ASSUME LcIInv, NEW m \in Maintainers, CompressOpen(m)
  PROVE  LcIInv'
  <1>1. PICK r : r = [MRest EXCEPT !.pc = "create", !.ino = lcDir[1], !.src = lcIno[lcDir[1]]]
    OBVIOUS
  <1>2. lcDir[1] # 0 /\ lcDir[1] \in LogInodes /\ lcIno[lcDir[1]] \in Seq(Writes)
    BY LogTypes, LogSorts DEF CompressOpen, LcIInv, DirTyped
  <1>3. r \in MStates /\ r.pc = "create" /\ r.ino = lcDir[1] /\ r.gz = 0
    BY <1>1, <1>2, AtRest DEF MStates, MLabels
  <1>4. CallOK(r, 0) /\ ~InShift(r)
    BY <1>2, <1>3 DEF CallOK, InShift, InCompress
  <1>5. lcStage[m] = 0 /\ ~InShift(lcM[m])
    BY DEF CompressOpen, MAt, LcIInv, CallsOK, CallOK, InShift
  <1>6. IsLog(r.ino)
    BY <1>3, LogSorts DEF IsLog
  <1>7. /\ lcM' = [lcM EXCEPT ![m] = r]
        /\ UNCHANGED <<lcDir, lcStage, lcStranded, lcIno, lcOld, lcFd, lcWritten, lcTorn, lcF, lcCause>>
    BY <1>1 DEF CompressOpen, MGoes, lcFiles, lcPayload
  <1> QED BY <1>3, <1>4, <1>5, <1>6, <1>7, LocalKeeps

\* It compares both files with what it read.
LEMMA CompressVerifyKeeps ==
  ASSUME LcIInv, NEW m \in Maintainers, CompressVerify(m)
  PROVE  LcIInv'
  <1>1. /\ lcM[m].pc = "verify"
        /\ UNCHANGED <<lcDir, lcStage, lcStranded, lcIno, lcOld, lcFd, lcWritten, lcTorn, lcF, lcCause>>
    BY DEF CompressVerify, MAt, lcFiles, lcPayload
  <1>2. lcStage[m] = 0 /\ ~InShift(lcM[m]) /\ lcM[m] \in MStates /\ lcM[m].ino # 0 /\ lcM[m].gz # 0
    BY <1>1, LogTypes DEF LcIInv, CallsOK, CallOK, InShift, InCompress
  <1>3. CASE MReturns(m)
    BY <1>1, <1>2, <1>3, ReturnKeeps
  <1>4. CASE CompressVerified(m) /\ MGoes(m, [lcM[m] EXCEPT !.pc = "remove"])
    <2>1. PICK r : r = [lcM[m] EXCEPT !.pc = "remove"]
      OBVIOUS
    <2>2. r \in MStates /\ r.pc = "remove" /\ r.ino = lcM[m].ino /\ r.gz = lcM[m].gz
      BY <1>2, <2>1 DEF MStates, MLabels
    <2>3. CallOK(r, 0) /\ ~InShift(r)
      BY <1>2, <2>2 DEF CallOK, InShift, InCompress
    <2>4. IsLog(r.ino)
      BY <1>1, <2>2 DEF IsLog, InCompress
    <2>5. Units(r.ino) = Units(r.gz)
      BY <1>4, <2>2 DEF CompressVerified, Units
    <2> QED BY <1>1, <1>2, <1>4, <2>1, <2>2, <2>3, <2>4, <2>5, LocalKeeps DEF MGoes
  <1> QED BY <1>3, <1>4 DEF CompressVerify

-----------------------------------------------------------------------------
(* Container logs: calls that move and remove names                        *)

\* Writes are blamed, none is cleared.
LEMMA BlameGrows ==
  ASSUME LcTyped, NEW ws, NEW why \in Causes \ {"none"}, Blame(ws, why)
  PROVE  /\ lcCause' \in [Writes -> Causes] /\ \A w \in Writes : Blamed(w) => Blamed(w)'
         /\ \A w \in Writes : w \in ws => Blamed(w)'
  <1>1. lcCause \in [Writes -> Causes] /\ "none" \in Causes
    BY DEF LcTyped, LcTypeOK, Causes
  <1>2. lcCause' = [w \in Writes |-> IF w \in ws /\ lcCause[w] = "none" THEN why ELSE lcCause[w]]
    BY DEF Blame
  <1> QED BY <1>1, <1>2 DEF Blamed

\* No write is blamed.
LEMMA SameCauses ==
  ASSUME LcTyped, lcCause' = lcCause
  PROVE  lcCause' \in [Writes -> Causes] /\ \A w \in Writes : Blamed(w) => Blamed(w)'
  BY DEF LcTyped, LcTypeOK, Blamed

\* Every write of a file that loses its names is blamed or in another file.
LEMMA KeptFrame ==
  ASSUME LcIInv, UNCHANGED <<lcIno, lcWritten>>, \A w \in Writes : Blamed(w) => Blamed(w)',
         \A i \in LogInodes : Safe(i) => Safe(i)' \/ \A w \in Units(i) :
           Blamed(w)' \/ \E j \in LogInodes : Safe(j)' /\ w \in Units(j)
  PROVE  KeptOK'
  <1> SUFFICES ASSUME NEW w \in 1..lcWritten
               PROVE  Blamed(w)' \/ \E i \in LogInodes : Safe(i)' /\ w \in Units(i)
    BY DEF KeptOK, Units
  <1>1. w \in Writes
    BY LogTypes DEF LcIInv
  <1>2. CASE Blamed(w)
    BY <1>1, <1>2
  <1>3. CASE ~Blamed(w)
    <2>1. PICK i \in LogInodes : Safe(i) /\ w \in Units(i)
      BY <1>3 DEF LcIInv, KeptOK
    <2> QED BY <2>1
  <1> QED BY <1>2, <1>3

\* RENAME_NOREPLACE.
LEMMA ArchiveMoveKeeps ==
  ASSUME LcIInv, NEW m \in Maintainers, ArchiveMove(m)
  PROVE  LcIInv'
  <1>1. PICK n : n = lcM[m].name
    OBVIOUS
  <1>2. /\ lcM[m].pc = "move"
        /\ UNCHANGED <<lcStage, lcStranded, lcIno, lcOld, lcFd, lcWritten, lcTorn, lcF, lcCause>>
    BY DEF ArchiveMove, MAt, lcPayload
  <1>3. lcStage[m] = 0 /\ ~InShift(lcM[m]) /\ n \in Nat /\ n + 1 < MaxFiles
    BY <1>1, <1>2, LogTypes, LogSorts DEF LcIInv, CallsOK, CallOK, InShift, MStates
  <1>4. n \in LogNames \ {Gz} /\ n + 1 \in LogNames \ {Gz} /\ n # n + 1 /\ n \in 0..MaxFiles
    BY <1>3, LogSorts DEF Gz
  <1>5. CASE MReturns(m) /\ UNCHANGED lcDir
    BY <1>2, <1>3, <1>5, ReturnKeeps
  <1>6. CASE /\ lcDir[n] # 0 /\ lcDir[n + 1] = 0 /\ ArchiveNext(m)
             /\ lcDir' = [lcDir EXCEPT ![n + 1] = lcDir[n], ![n] = 0]
    <2>1. PICK r \in MStates :
            /\ lcM' = [lcM EXCEPT ![m] = r] /\ CallOK(r, 0) /\ ~InShift(r) /\ ~InCompress(r)
            /\ r.gz = 0
      BY <1>1, <1>4, <1>6, NextName
    <2>2. lcM'[m] = r /\ \A o \in Maintainers \ {m} : lcM'[o] = lcM[o]
      BY <2>1, CallChanges DEF LcIInv
    <2>3. DirTyped
      BY LogTypes DEF LcIInv
    <2>4. /\ lcDir' \in [LogNames -> {0} \cup LogInodes]
          /\ lcDir'[n + 1] = lcDir[n] /\ lcDir'[n] = 0
          /\ \A k \in LogNames \ {n, n + 1} : lcDir'[k] = lcDir[k]
      BY <1>4, <1>6, <2>3 DEF DirTyped
    <2>5. DirTyped'
      BY <1>4, <1>6, <2>3, <2>4 DEF DirTyped
    <2>6. StageOK'
      BY <1>2, <1>4, <2>4 DEF LcIInv, StageOK
    <2>7. ASSUME NEW i \in LogInodes PROVE (IsLog(i)' => IsLog(i)) /\ (IsGz(i)' => IsGz(i))
      <3>1. i # 0
        BY LogSorts
      <3>2. \A k \in LogNames \ {Gz} : lcDir'[k] = i => \E l \in LogNames \ {Gz} : lcDir[l] = i
        BY <1>4, <2>4, <3>1
      <3>3. IsLog(i)' => IsLog(i)
        BY <1>2, <1>3, <2>1, <2>2, <3>1, <3>2 DEF IsLog
      <3>4. lcDir'[Gz] = lcDir[Gz]
        BY <1>4, <2>4, LogSorts
      <3>5. IsGz(i)' => IsGz(i)
        BY <1>2, <1>3, <2>1, <2>2, <3>1, <3>4 DEF IsGz
      <3> QED BY <3>3, <3>5
    <2>8. \A i \in LogInodes : Safe(i) => Safe(i)'
      <3>1. \A k \in LogNames, i \in LogInodes : lcDir[k] = i => \E l \in LogNames : lcDir'[l] = i
        BY <1>4, <1>6, <2>4, LogSorts
      <3> QED BY <1>2, <1>3, <2>2, <3>1, LogSorts DEF Safe
    <2>9. lcCause' \in [Writes -> Causes] /\ \A w \in Writes : Blamed(w) => Blamed(w)'
      BY <1>2, SameCauses DEF LcIInv
    <2>10. KeptOK'
      BY <1>2, <2>8, <2>9, KeptFrame
    <2>11. lcStage' \in [Maintainers -> {0} \cup LogInodes] /\ lcStranded' \subseteq LogInodes
      BY <1>2 DEF LcIInv, LcTyped, LcTypeOK
    <2>12. r.pc # "remove" /\ CallOK(r, lcStage'[m])
      BY <1>2, <1>3, <2>1 DEF InCompress
    <2> QED BY <1>2, <1>3, <2>1, <2>5, <2>6, <2>7, <2>9, <2>10, <2>11, <2>12, CallKeeps
  <1> QED BY <1>1, <1>5, <1>6 DEF ArchiveMove

\* A name is staged for removal.
LEMMA ExpireStageKeeps ==
  ASSUME LcIInv, NEW m \in Maintainers, ExpireStage(m)
  PROVE  LcIInv'
  <1>1. PICK n : n = lcM[m].name
    OBVIOUS
  <1>2. /\ lcM[m].pc = "expire"
        /\ UNCHANGED <<lcStranded, lcIno, lcOld, lcFd, lcWritten, lcTorn, lcF, lcCause>>
    BY DEF ExpireStage, MAt, lcPayload
  <1>3. lcStage[m] = 0 /\ ~InShift(lcM[m]) /\ n \in 1..MaxFiles /\ lcM[m].gz = 0 /\ lcM[m] \in MStates
    BY <1>1, <1>2, LogTypes DEF LcIInv, CallsOK, CallOK, InShift
  <1>4. n \in LogNames
    BY <1>3, LogSorts
  <1>5. CASE MReturns(m) /\ UNCHANGED <<lcStage, lcDir>>
    BY <1>2, <1>3, <1>5, ReturnKeeps
  <1>6. CASE /\ lcDir[n] # 0 /\ lcStage' = [lcStage EXCEPT ![m] = lcDir[n]]
             /\ lcDir' = [lcDir EXCEPT ![n] = 0] /\ MGoes(m, [lcM[m] EXCEPT !.pc = "staged"])
    <2>1. PICK r : r = [lcM[m] EXCEPT !.pc = "staged"]
      OBVIOUS
    <2>2. r \in MStates /\ r.pc = "staged" /\ r.name = n /\ r.gz = 0
      BY <1>1, <1>3, <2>1 DEF MStates, MLabels
    <2>3. lcM' = [lcM EXCEPT ![m] = r] /\ lcM'[m] = r /\ \A o \in Maintainers \ {m} : lcM'[o] = lcM[o]
      BY <1>6, <2>1, <2>2, CallChanges DEF LcIInv, MGoes
    <2>4. DirTyped /\ lcStage \in [Maintainers -> {0} \cup LogInodes]
      BY LogTypes DEF LcIInv
    <2>5. /\ lcDir' \in [LogNames -> {0} \cup LogInodes] /\ lcDir'[n] = 0
          /\ \A k \in LogNames \ {n} : lcDir'[k] = lcDir[k]
          /\ lcStage' \in [Maintainers -> {0} \cup LogInodes] /\ lcStage'[m] = lcDir[n]
          /\ \A o \in Maintainers \ {m} : lcStage'[o] = lcStage[o]
      BY <1>4, <1>6, <2>4 DEF DirTyped
    <2>6. DirTyped'
      BY <2>4, <2>5 DEF DirTyped
    <2>7. StageOK'
      <3>1. ASSUME NEW o \in Maintainers, lcStage'[o] # 0
            PROVE  /\ \A k \in LogNames : lcDir'[k] # lcStage'[o]
                   /\ \A q \in Maintainers \ {o} : lcStage'[q] # lcStage'[o]
        <4>1. CASE o = m
          BY <1>4, <1>6, <2>4, <2>5, <3>1, <4>1 DEF LcIInv, StageOK, DirTyped
        <4>2. CASE o # m
          BY <1>4, <2>5, <3>1, <4>2 DEF LcIInv, StageOK
        <4> QED BY <4>1, <4>2
      <3> QED BY <3>1 DEF StageOK
    <2>8. ASSUME NEW i \in LogInodes PROVE (IsLog(i)' => IsLog(i)) /\ (IsGz(i)' => IsGz(i))
      <3>1. i # 0 /\ Gz \in LogNames
        BY LogSorts
      <3>2. \A k \in LogNames : lcDir'[k] = i => lcDir[k] = i
        BY <2>5, <3>1
      <3>3. IsLog(i)' => IsLog(i)
        BY <1>2, <1>4, <2>2, <2>3, <2>5, <3>2 DEF IsLog, InShift, InCompress
      <3>4. IsGz(i)' => IsGz(i)
        BY <1>4, <2>2, <2>3, <2>5, <3>1, <3>2 DEF IsGz
      <3> QED BY <3>3, <3>4
    <2>9. \A i \in LogInodes : Safe(i) => Safe(i)'
      BY <1>2, <1>3, <2>2, <2>3, <2>5, LogSorts DEF Safe
    <2>10. lcCause' \in [Writes -> Causes] /\ \A w \in Writes : Blamed(w) => Blamed(w)'
      BY <1>2, SameCauses DEF LcIInv
    <2>11. KeptOK'
      BY <1>2, <2>9, <2>10, KeptFrame
    <2>12. lcStranded' \subseteq LogInodes /\ ~InShift(r) /\ r.pc # "remove" /\ CallOK(r, lcStage'[m])
      BY <1>2, <1>3, <1>6, <2>2, <2>5
      DEF LcIInv, LcTyped, LcTypeOK, InShift, CallOK, InCompress
    <2> QED BY <1>2, <1>3, <2>2, <2>3, <2>5, <2>6, <2>7, <2>8, <2>10, <2>11, <2>12, CallKeeps
  <1> QED BY <1>1, <1>5, <1>6 DEF ExpireStage

\* What is staged is checked against what was inspected.
LEMMA ExpireCheckKeeps ==
  ASSUME LcIInv, NEW m \in Maintainers, ExpireCheck(m)
  PROVE  LcIInv'
  <1>1. PICK n : n = lcM[m].name
    OBVIOUS
  <1>2. PICK i : i = lcStage[m]
    OBVIOUS
  <1>3. lcM[m].pc = "staged" /\ UNCHANGED <<lcIno, lcOld, lcFd, lcWritten, lcTorn, lcF>>
    BY DEF ExpireCheck, MAt, lcPayload
  <1>4. /\ i # 0 /\ i \in LogInodes /\ ~InShift(lcM[m]) /\ n \in 1..MaxFiles
        /\ lcM[m].gz = 0 /\ lcM[m] \in MStates
    BY <1>1, <1>2, <1>3, LogTypes, LogSorts DEF LcIInv, CallsOK, CallOK, InShift
  <1>5. n \in LogNames /\ DirTyped /\ lcStage \in [Maintainers -> {0} \cup LogInodes]
        /\ lcStranded \subseteq LogInodes /\ LcTyped /\ Units(i) \subseteq Writes
    BY <1>4, LogSorts, LogTypes DEF LcIInv, LcTyped, LcTypeOK
  <1>6. CASE /\ i = lcM[m].ino /\ MGoes(m, [lcM[m] EXCEPT !.pc = "unstage"])
             /\ Blame(Units(i), IF lcM[m].call = "prune" THEN "pruned" ELSE "expired")
             /\ UNCHANGED <<lcDir, lcStage, lcStranded>>
    <2>1. PICK r : r = [lcM[m] EXCEPT !.pc = "unstage"]
      OBVIOUS
    <2>2. r \in MStates /\ r.pc = "unstage" /\ r.name = n /\ r.gz = 0 /\ r.ino = i
      BY <1>1, <1>4, <1>6, <2>1 DEF MStates, MLabels
    <2>3. lcM' = [lcM EXCEPT ![m] = r] /\ lcM'[m] = r /\ \A o \in Maintainers \ {m} : lcM'[o] = lcM[o]
      BY <1>5, <1>6, <2>1, <2>2, CallChanges DEF MGoes
    <2>4. /\ lcCause' \in [Writes -> Causes] /\ \A w \in Writes : Blamed(w) => Blamed(w)'
          /\ \A w \in Writes : w \in Units(i) => Blamed(w)'
      <3>1. PICK why \in Causes \ {"none"} : Blame(Units(i), why)
        BY <1>6 DEF Causes
      <3> QED BY <1>5, <3>1, BlameGrows
    <2>5. DirTyped' /\ StageOK'
      BY <1>5, <1>6 DEF LcIInv, DirTyped, StageOK
    <2>6. ASSUME NEW j \in LogInodes PROVE (IsLog(j)' => IsLog(j)) /\ (IsGz(j)' => IsGz(j))
      <3>1. IsLog(j)' => IsLog(j)
        BY <1>1, <1>3, <1>6, <2>2, <2>3 DEF IsLog, InShift, InCompress
      <3>2. IsGz(j)' => IsGz(j)
        BY <1>1, <1>4, <1>6, <2>2, <2>3 DEF IsGz
      <3> QED BY <3>1, <3>2
    <2>7. \A j \in LogInodes : j # i /\ Safe(j) => Safe(j)'
      BY <1>2, <1>6, <2>3 DEF Safe
    <2>8. KeptOK'
      BY <1>3, <1>5, <2>4, <2>7, KeptFrame
    <2>9. ~InShift(r) /\ r.pc # "remove" /\ CallOK(r, lcStage'[m])
      BY <1>2, <1>4, <1>6, <2>2 DEF InShift, CallOK, InCompress
    <2>10. lcStage' \in [Maintainers -> {0} \cup LogInodes] /\ lcStranded' \subseteq LogInodes
           /\ \A o \in Maintainers \ {m} : lcStage'[o] = lcStage[o]
      BY <1>5, <1>6
    <2> QED BY <1>3, <1>4, <2>2, <2>3, <2>4, <2>5, <2>6, <2>8, <2>9, <2>10, CallKeeps
  <1>7. CASE /\ MReturns(m) /\ UNCHANGED lcCause /\ lcStage' = [lcStage EXCEPT ![m] = 0]
             /\ IF lcDir[n] = 0
                THEN lcDir' = [lcDir EXCEPT ![n] = i] /\ UNCHANGED lcStranded
                ELSE lcStranded' = lcStranded \cup {i} /\ UNCHANGED lcDir
    <2>1. lcM' = [lcM EXCEPT ![m] = MRest] /\ lcM'[m] = MRest
          /\ \A o \in Maintainers \ {m} : lcM'[o] = lcM[o]
      BY <1>5, <1>7, AtRest, CallChanges DEF MReturns
    <2>2. /\ lcStage' \in [Maintainers -> {0} \cup LogInodes] /\ lcStage'[m] = 0
          /\ \A o \in Maintainers \ {m} : lcStage'[o] = lcStage[o]
      BY <1>5, <1>7
    <2>3. /\ lcDir' \in [LogNames -> {0} \cup LogInodes]
          /\ \A k \in LogNames \ {n} : lcDir'[k] = lcDir[k]
          /\ lcDir'[n] = lcDir[n] \/ (lcDir[n] = 0 /\ lcDir'[n] = i)
          /\ \A k \in LogNames : lcDir[k] # 0 => lcDir'[k] = lcDir[k]
      BY <1>4, <1>5, <1>7 DEF DirTyped
    <2>4. /\ \A k \in LogNames : lcDir[k] # i
          /\ \A o \in Maintainers \ {m} : lcStage[o] # i
      BY <1>2, <1>4 DEF LcIInv, StageOK
    <2>5. DirTyped'
      BY <1>5, <2>3, <2>4 DEF DirTyped
    <2>6. StageOK'
      <3>1. ASSUME NEW o \in Maintainers, lcStage'[o] # 0
            PROVE  /\ \A k \in LogNames : lcDir'[k] # lcStage'[o]
                   /\ \A q \in Maintainers \ {o} : lcStage'[q] # lcStage'[o]
        <4>1. o # m /\ lcStage'[o] = lcStage[o]
          BY <2>2, <3>1
        <4> QED BY <1>5, <2>2, <2>3, <2>4, <3>1, <4>1 DEF LcIInv, StageOK
      <3> QED BY <3>1 DEF StageOK
    <2>7. ASSUME NEW j \in LogInodes PROVE (IsLog(j)' => IsLog(j)) /\ (IsGz(j)' => IsGz(j))
      <3>1. j # 0 /\ Gz \in LogNames
        BY LogSorts
      <3>2. \A k \in LogNames : lcDir'[k] = j => lcDir[k] = j \/ (k = n /\ j = i)
        BY <2>3
      <3>3. IsLog(j)' => IsLog(j)
        BY <1>1, <1>2, <1>3, <2>1, <2>2, <3>1, <3>2, AtRest DEF IsLog
      <3>4. IsGz(j)' => IsGz(j)
        BY <1>1, <1>2, <2>1, <2>2, <3>1, <3>2, AtRest DEF IsGz
      <3> QED BY <3>3, <3>4
    <2>8. \A j \in LogInodes : Safe(j) => Safe(j)'
      <3>1. Safe(i)'
        BY <1>4, <1>5, <1>7, <2>3, LogSorts DEF Safe, DirTyped
      <3>2. ASSUME NEW j \in LogInodes, j # i, Safe(j) PROVE Safe(j)'
        <4>1. j # 0 /\ (j \in lcStranded => j \in lcStranded')
          BY <1>7, LogSorts
        <4>2. \A k \in LogNames : lcDir[k] = j => lcDir'[k] = j
          BY <2>3, <4>1
        <4>3. \A o \in Maintainers : lcStage[o] = j => lcStage'[o] = j /\ lcM'[o] = lcM[o]
          BY <1>2, <2>1, <2>2, <3>2
        <4> QED BY <3>2, <4>1, <4>2, <4>3 DEF Safe
      <3> QED BY <3>1, <3>2
    <2>9. lcCause' \in [Writes -> Causes] /\ \A w \in Writes : Blamed(w) => Blamed(w)'
      BY <1>5, <1>7, SameCauses
    <2>10. KeptOK'
      BY <1>3, <2>8, <2>9, KeptFrame
    <2>11. lcStranded' \subseteq LogInodes
      BY <1>4, <1>5, <1>7
    <2> QED BY <1>3, <1>4, <2>1, <2>2, <2>5, <2>6, <2>7, <2>9, <2>10, <2>11, AtRest, CallKeeps
  <1> QED BY <1>1, <1>2, <1>6, <1>7 DEF ExpireCheck

\* A file that no call could save is removed, and the call goes on.
LEMMA UnstageKeeps ==
  ASSUME LcIInv, NEW m \in Maintainers, NEW r \in MStates, lcM' = [lcM EXCEPT ![m] = r],
         UNCHANGED <<lcDir, lcIno, lcOld, lcFd, lcWritten, lcF, lcTorn, lcCause>>,
         lcStage' = [lcStage EXCEPT ![m] = 0],
         CallOK(r, 0), ~InShift(r), ~InCompress(r), r.gz = 0,
         InShift(lcM[m]) => lcM[m].ino \in lcTorn,
         lcStranded' \subseteq LogInodes, lcStranded \subseteq lcStranded',
         lcM[m].pc = "unstage" \/ lcStage[m] \in {0} \cup lcStranded'
  PROVE  LcIInv'
  <1>1. lcM'[m] = r /\ \A o \in Maintainers \ {m} : lcM'[o] = lcM[o]
    BY CallChanges DEF LcIInv
  <1>2. DirTyped /\ lcStage \in [Maintainers -> {0} \cup LogInodes] /\ LcTyped
    BY LogTypes DEF LcIInv
  <1>3. /\ lcStage' \in [Maintainers -> {0} \cup LogInodes] /\ lcStage'[m] = 0
        /\ \A o \in Maintainers \ {m} : lcStage'[o] = lcStage[o]
    BY <1>2
  <1>4. DirTyped'
    BY <1>2 DEF DirTyped
  <1>5. StageOK'
    BY <1>3 DEF LcIInv, StageOK
  <1>6. ASSUME NEW j \in LogInodes PROVE (IsLog(j)' => IsLog(j)) /\ (IsGz(j)' => IsGz(j))
    <2>1. j # 0
      BY LogSorts
    <2>2. IsLog(j)' => IsLog(j)
      BY <1>1, <1>3, <2>1 DEF IsLog
    <2>3. IsGz(j)' => IsGz(j)
      BY <1>1, <1>3, <2>1 DEF IsGz
    <2> QED BY <2>2, <2>3
  <1>7. ASSUME NEW j \in LogInodes, Safe(j) PROVE Safe(j)'
    <2>1. j # 0 /\ (j \in lcStranded => j \in lcStranded')
      BY LogSorts
    <2> QED BY <1>1, <1>3, <1>7, <2>1 DEF Safe
  <1>8. lcCause' \in [Writes -> Causes] /\ \A w \in Writes : Blamed(w) => Blamed(w)'
    BY <1>2, SameCauses
  <1>9. KeptOK'
    BY <1>7, <1>8, KeptFrame
  <1>10. r.pc # "remove" /\ CallOK(r, lcStage'[m])
    BY <1>3 DEF InCompress
  <1> QED BY <1>1, <1>3, <1>4, <1>5, <1>6, <1>8, <1>9, <1>10, CallKeeps

\* The tombstone is unlinked.
LEMMA ExpireRemoveKeeps ==
  ASSUME LcIInv, NEW m \in Maintainers, ExpireRemove(m)
  PROVE  LcIInv'
  <1>1. /\ lcM[m].pc = "unstage" /\ lcStage' = [lcStage EXCEPT ![m] = 0]
        /\ UNCHANGED <<lcStranded, lcDir, lcIno, lcOld, lcFd, lcWritten, lcF, lcTorn, lcCause>>
    BY DEF ExpireRemove, MAt, lcPayload
  <1>2. ~InShift(lcM[m]) /\ lcM[m].name \in 0..MaxFiles /\ lcStranded \subseteq LogInodes
    BY <1>1, LogSorts DEF LcIInv, CallsOK, CallOK, InShift, LcTyped, LcTypeOK
  <1>3. PICK r \in MStates :
          /\ lcM' = [lcM EXCEPT ![m] = r] /\ CallOK(r, 0) /\ ~InShift(r) /\ ~InCompress(r)
          /\ r.gz = 0
    <2>1. CASE MReturns(m)
      BY <2>1, AtRest DEF MReturns
    <2>2. CASE ArchiveNext(m)
      BY <1>2, <2>2, NextName
    <2> QED BY <2>1, <2>2 DEF ExpireRemove
  <1> QED BY <1>1, <1>2, <1>3, UnstageKeeps

\* The archive is removed by its name.
LEMMA CompressRemoveKeeps ==
  ASSUME LcIInv, NEW m \in Maintainers, CompressRemove(m)
  PROVE  LcIInv'
  <1>1. PICK i : i = lcDir[1]
    OBVIOUS
  <1>2. /\ lcM[m].pc = "remove" /\ lcDir' = [lcDir EXCEPT ![1] = 0] /\ MReturns(m)
        /\ UNCHANGED <<lcStranded, lcStage, lcIno, lcOld, lcFd, lcWritten, lcTorn, lcF>>
    BY DEF CompressRemove, MAt, lcPayload
  <1>3. lcStage[m] = 0 /\ ~InShift(lcM[m]) /\ lcM[m].gz # 0
    BY <1>2 DEF LcIInv, CallsOK, CallOK, InShift
  <1>4. /\ 1 \in LogNames /\ Gz \in LogNames /\ Gz # 1 /\ DirTyped /\ LcTyped
        /\ lcStage \in [Maintainers -> {0} \cup LogInodes] /\ lcStranded \subseteq LogInodes
    BY LogSorts, LogTypes DEF LcIInv, LcTyped, LcTypeOK
  <1>5. lcM' = [lcM EXCEPT ![m] = MRest] /\ lcM'[m] = MRest
        /\ \A o \in Maintainers \ {m} : lcM'[o] = lcM[o]
    BY <1>2, <1>4, AtRest, CallChanges DEF MReturns
  <1>6. /\ lcDir' \in [LogNames -> {0} \cup LogInodes] /\ lcDir'[1] = 0
        /\ \A k \in LogNames \ {1} : lcDir'[k] = lcDir[k]
    BY <1>2, <1>4 DEF DirTyped
  <1>7. DirTyped' /\ lcStage' = lcStage
    BY <1>2, <1>4, <1>6 DEF DirTyped
  <1>8. StageOK'
    BY <1>2, <1>6 DEF LcIInv, StageOK
  <1>9. PICK ws : ws = (IF i # 0 /\ (i # lcM[m].ino \/ lcDir[Gz] # lcM[m].gz) THEN Units(i) ELSE {})
    OBVIOUS
  <1>10. /\ lcCause' \in [Writes -> Causes] /\ \A w \in Writes : Blamed(w) => Blamed(w)'
         /\ \A w \in Writes : w \in ws => Blamed(w)'
    <2>1. Blame(ws, "swapped") /\ "swapped" \in Causes \ {"none"}
      BY <1>1, <1>9 DEF CompressRemove, Causes
    <2> QED BY <1>4, <2>1, BlameGrows
  <1>11. ASSUME NEW j \in LogInodes PROVE (IsLog(j)' => IsLog(j)) /\ (IsGz(j)' => IsGz(j))
    <2>1. j # 0 /\ \A k \in LogNames : lcDir'[k] = j => lcDir[k] = j
      BY <1>6, LogSorts
    <2>2. IsLog(j)' => IsLog(j)
      BY <1>2, <1>3, <1>5, <2>1, AtRest DEF IsLog
    <2>3. IsGz(j)' => IsGz(j)
      BY <1>2, <1>3, <1>4, <1>5, <2>1, AtRest DEF IsGz
    <2> QED BY <2>2, <2>3
  <1>12. \A j \in LogInodes : j # i /\ Safe(j) => Safe(j)'
    BY <1>1, <1>2, <1>3, <1>5, <1>6, LogSorts DEF Safe
  <1>13. i \in LogInodes => \A w \in Units(i) :
           Blamed(w)' \/ \E j \in LogInodes : Safe(j)' /\ w \in Units(j)
    <2> SUFFICES ASSUME i \in LogInodes, NEW w \in Units(i)
                 PROVE  Blamed(w)' \/ \E j \in LogInodes : Safe(j)' /\ w \in Units(j)
      OBVIOUS
    <2>1. w \in Writes /\ i # 0
      BY <1>4, LogTypes, LogSorts
    <2>2. CASE w \in ws
      BY <1>10, <2>1, <2>2
    <2>3. CASE w \notin ws
      <3>1. PICK g : g = lcM[m].gz
        OBVIOUS
      <3>2. i = lcM[m].ino /\ lcDir[Gz] = g
        BY <1>9, <2>1, <2>3, <3>1
      <3>3. Blamed(w) \/ w \in Units(g)
        BY <1>2, <3>1, <3>2 DEF LcIInv, CopyOK
      <3>4. g \in LogInodes /\ lcDir'[Gz] = g
        BY <1>3, <1>4, <1>6, <3>1, <3>2 DEF DirTyped
      <3>5. Safe(g)'
        BY <1>4, <3>4 DEF Safe
      <3> QED BY <1>10, <2>1, <3>3, <3>4, <3>5
    <2> QED BY <2>2, <2>3
  <1>14. KeptOK'
    BY <1>2, <1>10, <1>12, <1>13, KeptFrame
  <1>15. CallOK(MRest, lcStage'[m]) /\ lcStranded' \subseteq LogInodes
         /\ lcStage' \in [Maintainers -> {0} \cup LogInodes]
         /\ MRest.pc # "remove"
    BY <1>2, <1>3, <1>4, AtRest
  <1> QED BY <1>2, <1>3, <1>5, <1>7, <1>8, <1>10, <1>11, <1>14, <1>15, AtRest, CallKeeps

-----------------------------------------------------------------------------
(* Container logs: crashes, and the compressed file                        *)

\* Compressions at their removal, when no file they know loses a write.
LEMMA CopyFrame ==
  ASSUME LcIInv, \A w \in Writes : Blamed(w) => Blamed(w)',
         \A m \in Maintainers : lcM'[m].pc = "remove" => lcM'[m] = lcM[m],
         \A m \in Maintainers, i, g \in LogInodes :
           lcM[m].pc = "remove" /\ lcM[m].ino = i /\ lcM[m].gz = g =>
             /\ \A w \in Units(i)' : w \in Units(i) \/ Blamed(w)'
             /\ \A w \in Units(g) : w \in Units(g)' \/ Blamed(w)'
  PROVE  CopyOK'
  <1>1. ASSUME NEW m \in Maintainers, lcM'[m].pc = "remove"
        PROVE  \A w \in Units(lcM[m].ino)' : Blamed(w)' \/ w \in Units(lcM[m].gz)'
    <2>1. PICK i : i = lcM[m].ino
      OBVIOUS
    <2>2. PICK g : g = lcM[m].gz
      OBVIOUS
    <2>3. lcM'[m] = lcM[m] /\ lcM[m].pc = "remove"
      BY <1>1
    <2>4. i \in LogInodes /\ g \in LogInodes
      BY <2>1, <2>2, <2>3, LogTypes DEF LcIInv, CallsOK, CallOK, InCompress, MStates
    <2>5. \A w \in Units(i) : w \in Writes /\ (Blamed(w) \/ w \in Units(g))
      BY <2>1, <2>2, <2>3, <2>4, LogTypes DEF LcIInv, CopyOK
    <2>6. \A w \in Units(i)' : Blamed(w)' \/ w \in Units(g)'
      BY <2>1, <2>2, <2>3, <2>4, <2>5
    <2> QED BY <2>1, <2>2, <2>3, <2>6 DEF Units
  <1> QED BY <1>1 DEF CopyOK

\* No write without a cause is lost, when each finds a file.
LEMMA KeptStep ==
  ASSUME LcIInv, \A w \in Writes : Blamed(w) => Blamed(w)', lcWritten' = lcWritten,
         \A i \in LogInodes : Safe(i) => \A w \in Units(i) :
           Blamed(w)' \/ \E j \in LogInodes : Safe(j)' /\ w \in Units(j)'
  PROVE  KeptOK'
  <1> SUFFICES ASSUME NEW w \in 1..lcWritten
               PROVE  Blamed(w)' \/ \E i \in LogInodes : Safe(i)' /\ w \in Units(i)'
    BY DEF KeptOK
  <1>1. w \in Writes
    BY LogTypes DEF LcIInv
  <1>2. CASE Blamed(w)
    BY <1>1, <1>2
  <1>3. CASE ~Blamed(w)
    <2>1. PICK i \in LogInodes : Safe(i) /\ w \in Units(i)
      BY <1>3 DEF LcIInv, KeptOK
    <2> QED BY <2>1
  <1> QED BY <1>2, <1>3

\* A process dies in a call; a shift leaves its file torn.
LEMMA LcCrashKeeps ==
  ASSUME LcIInv, NEW m \in Maintainers, LcCrash(m)
  PROVE  LcIInv'
  <1>1. /\ UNCHANGED <<lcDir, lcIno, lcOld, lcFd, lcWritten, lcF, lcCause>>
        /\ lcM' = [lcM EXCEPT ![m] = MRest] /\ lcStage' = [lcStage EXCEPT ![m] = 0]
        /\ lcStranded' = lcStranded \cup ({lcStage[m]} \ {0})
        /\ lcTorn' = IF InShift(lcM[m]) THEN lcTorn \cup {lcM[m].ino} ELSE lcTorn
    BY DEF LcCrash, MReturns, lcPayload, InShift
  <1>2. /\ lcStage[m] \in {0} \cup LogInodes /\ lcStranded \subseteq LogInodes
        /\ lcStage \in [Maintainers -> {0} \cup LogInodes] /\ LcTyped
    BY LogTypes DEF LcIInv, LcTyped, LcTypeOK
  <1>3. CASE ~InShift(lcM[m]) \/ lcM[m].ino \in lcTorn
    <2>1. lcTorn' = lcTorn
      BY <1>1, <1>3
    <2>2. lcStranded' \subseteq LogInodes /\ lcStranded \subseteq lcStranded'
          /\ lcStage[m] \in {0} \cup lcStranded'
      BY <1>1, <1>2
    <2> QED BY <1>1, <1>3, <2>1, <2>2, AtRest, UnstageKeeps
  <1>4. CASE InShift(lcM[m]) /\ lcM[m].ino \notin lcTorn
    <2>1. PICK i : i = lcM[m].ino
      OBVIOUS
    <2>2. i \in LogInodes /\ lcStage[m] = 0
      BY <1>4, <2>1, LogTypes DEF LcIInv, CallsOK, CallOK, InShift, MStates
    <2>3. lcStage' = lcStage /\ lcStranded' = lcStranded /\ lcTorn' = lcTorn \cup {i}
      BY <1>1, <1>2, <1>4, <2>1, <2>2
    <2>4. /\ lcM' \in [Maintainers -> MStates] /\ lcM'[m] = MRest
          /\ \A o \in Maintainers \ {m} : lcM'[o] = lcM[o]
      BY <1>1, <1>2, AtRest, CallChanges
    <2>5. Shifting(m, i) /\ IsLog(i)
      BY <1>4, <2>1 DEF Shifting, InShift, IsLog
    <2>6. \A o \in Maintainers : Shifting(o, i) => o = m
      BY <1>4, <2>1, <2>2, <2>5 DEF LcIInv, OrderOK
    <2>7. \A o \in Maintainers, j \in LogInodes :
            /\ Shifting(o, j)' => o # m /\ Shifting(o, j)
            /\ j # i /\ Shifting(o, j) => Shifting(o, j)'
      BY <2>1, <2>4, AtRest DEF Shifting, InShift
    <2>8. ASSUME NEW j \in LogInodes PROVE (IsLog(j)' => IsLog(j)) /\ (IsGz(j)' => IsGz(j))
      <3>1. j # 0
        BY LogSorts
      <3>2. IsLog(j)' => IsLog(j)
        BY <1>1, <2>2, <2>3, <2>4, <3>1, AtRest DEF IsLog
      <3>3. IsGz(j)' => IsGz(j)
        BY <1>1, <2>2, <2>3, <2>4, <3>1, AtRest DEF IsGz
      <3> QED BY <3>2, <3>3
    <2>9. LcTyped'
      BY <1>1, <2>2, <2>3, <2>4 DEF LcIInv, LcTyped, LcTypeOK
    <2>10. CallsOK'
      BY <2>2, <2>3, <2>4, AtRest, CallsKept DEF LcIInv
    <2>11. StageOK' /\ KindsOK' /\ ReaderOK' /\ WrittenOK'
      <3>1. StageOK'
        BY <1>1, <2>3 DEF LcIInv, StageOK
      <3>2. KindsOK'
        BY <2>8, KindsFrame
      <3>3. ReaderOK'
        BY <1>1, ReaderFrame
      <3>4. WrittenOK'
        BY <1>1 DEF LcIInv, WrittenOK, Units
      <3> QED BY <3>1, <3>2, <3>3, <3>4
    <2>12. OrderOK'
      <3> SUFFICES ASSUME NEW j \in LogInodes, IsLog(j)', j \notin lcTorn'
                   PROVE  /\ (HalfShifted(j) \/ Rising(lcIno[j]))'
                          /\ \A o \in Maintainers : Shifting(o, j)' =>
                               ShiftOK(o, lcIno[j])' /\ \A q \in Maintainers : Shifting(q, j)' => q = o
        BY DEF OrderOK
      <3>1. IsLog(j) /\ j \notin lcTorn /\ j # i
        BY <2>3, <2>8
      <3>2. HalfShifted(j) => HalfShifted(j)'
        BY <2>7, <3>1 DEF HalfShifted
      <3>3. (HalfShifted(j) \/ Rising(lcIno[j]))'
        BY <1>1, <3>1, <3>2 DEF LcIInv, OrderOK, Rising
      <3>4. ASSUME NEW o \in Maintainers, Shifting(o, j)'
            PROVE  ShiftOK(o, lcIno[j])' /\ \A q \in Maintainers : Shifting(q, j)' => q = o
        <4>1. Shifting(o, j) /\ lcM'[o] = lcM[o]
          BY <2>4, <2>7, <3>4
        <4>2. ShiftOK(o, lcIno[j]) /\ \A q \in Maintainers : Shifting(q, j) => q = o
          BY <3>1, <4>1 DEF LcIInv, OrderOK
        <4>3. ShiftOK(o, lcIno[j])'
          BY <1>1, <4>1, <4>2 DEF ShiftOK, Blamed
        <4> QED BY <2>7, <4>2, <4>3
      <3> QED BY <3>3, <3>4
    <2>13. TornOK'
      <3> SUFFICES ASSUME NEW j \in lcTorn', NEW o \in Maintainers, Shifting(o, j)'
                   PROVE  Len(lcIno'[j]) >= MaxBytes /\ \A w \in Units(j)' : Blamed(w)'
        BY DEF TornOK
      <3>1. j \in LogInodes
        BY <2>9 DEF LcTyped, LcTypeOK
      <3>2. Shifting(o, j) /\ o # m
        BY <2>7, <3>1
      <3>3. j \in lcTorn
        BY <2>3, <2>6, <3>2
      <3> QED BY <1>1, <3>2, <3>3 DEF LcIInv, TornOK, Units, Blamed
    <2>14. \A j \in LogInodes : Safe(j) => Safe(j)'
      BY <1>1, <2>2, <2>3, <2>4, LogSorts DEF Safe
    <2>15. \A w \in Writes : Blamed(w) => Blamed(w)'
      BY <1>1 DEF Blamed
    <2>16. KeptOK'
      BY <1>1, <2>14, <2>15, KeptFrame
    <2>17. CopyOK'
      <3>1. \A o \in Maintainers : lcM'[o].pc = "remove" => lcM'[o] = lcM[o]
        BY <2>4, AtRest
      <3>2. \A j \in LogInodes : Units(j)' = Units(j)
        BY <1>1 DEF Units
      <3> QED BY <2>15, <3>1, <3>2, CopyFrame
    <2> QED BY <2>9, <2>10, <2>11, <2>12, <2>13, <2>16, <2>17 DEF LcIInv
  <1> QED BY <1>3, <1>4

\* A compression writes to a .gz whose text is accounted for.
LEMMA GzWriteKeeps ==
  ASSUME LcIInv, NEW m \in Maintainers, NEW r \in MStates, lcM' = [lcM EXCEPT ![m] = r],
         NEW g \in LogInodes, NEW s \in Seq(Writes), lcIno' = [lcIno EXCEPT ![g] = s],
         UNCHANGED <<lcStage, lcStranded, lcFd, lcWritten, lcTorn, lcF>>,
         lcOld' \subseteq LogInodes, DirTyped', StageOK', ~IsLog(g), InCompress(lcM[m]),
         r.pc \in {"copy", "verify"}, r.ino = lcM[m].ino, r.gz = g, r.name = lcM[m].name,
         \A k \in LogNames \ {Gz} : lcDir'[k] = lcDir[k],
         lcDir[Gz] # 0 => lcDir'[Gz] = lcDir[Gz], lcDir'[Gz] \in {lcDir[Gz], g},
         lcCause' \in [Writes -> Causes], \A w \in Writes : Blamed(w) => Blamed(w)',
         \A w \in Units(g) : Blamed(w)' \/ (~Safe(g) /\ \A o \in Maintainers : lcM[o].gz # g),
         \A k \in 1..Len(s) : s[k] <= lcWritten
  PROVE  LcIInv'
  <1>1. /\ lcM' \in [Maintainers -> MStates] /\ lcM'[m] = r
        /\ \A o \in Maintainers \ {m} : lcM'[o] = lcM[o]
    BY CallChanges DEF LcIInv
  <1>2. /\ lcIno' \in [LogInodes -> Seq(Writes)] /\ lcIno'[g] = s
        /\ \A j \in LogInodes \ {g} : lcIno'[j] = lcIno[j]
        /\ lcStage[m] = 0 /\ lcM[m].ino # 0 /\ g # 0 /\ Gz \in LogNames
    BY LogTypes, LogSorts DEF LcIInv, CallsOK, CallOK, InCompress
  <1>3. LcTyped'
    BY <1>1, <1>2 DEF LcIInv, LcTyped, LcTypeOK, DirTyped
  <1>4. CallOK(r, lcStage'[m])
    BY <1>2, LogSorts DEF CallOK, InShift, InCompress
  <1>5. CallsOK'
    BY <1>1, <1>4, CallsKept DEF LcIInv
  <1>6. ASSUME NEW j \in LogInodes PROVE (IsLog(j)' => IsLog(j)) /\ (IsGz(j)' => IsGz(j) \/ j = g)
    <2>1. j # 0
      BY LogSorts
    <2>2. IsLog(j)' => IsLog(j)
      BY <1>1, <1>2, <2>1 DEF IsLog, InShift, InCompress
    <2>3. IsGz(j)' => IsGz(j) \/ j = g
      BY <1>1, <1>2, <2>1 DEF IsGz
    <2> QED BY <2>2, <2>3
  <1>7. KindsOK'
    BY <1>6 DEF LcIInv, KindsOK
  <1>8. \A j \in LogInodes : IsLog(j) => j # g /\ lcIno'[j] = lcIno[j]
    BY <1>2
  <1>9. OrderOK' /\ TornOK'
    <2>1. \A o \in Maintainers : InShift(lcM'[o]) => lcM'[o] = lcM[o]
      BY <1>1 DEF InShift
    <2>2. \A o \in Maintainers : InShift(lcM[o]) => lcM'[o] = lcM[o]
      BY <1>1 DEF InShift, InCompress
    <2> QED BY <1>3, <1>5, <1>6, <1>8, <2>1, <2>2, OrderFrame
  <1>10. ReaderOK'
    <2>1. lcF.ino # 0 => lcIno'[lcF.ino] = lcIno[lcF.ino]
      <3>1. lcF.ino \in {0} \cup LogInodes /\ (lcF.ino # 0 => IsLog(lcF.ino))
        BY DEF LcIInv, LcTyped, LcTypeOK, IsLog
      <3> QED BY <1>8, <3>1
    <2> QED BY <2>1, ReaderFrame
  <1>11. WrittenOK'
    <2>1. ASSUME NEW j \in LogInodes, NEW w \in Units(j)' PROVE w <= lcWritten
      BY <1>2, <2>1 DEF LcIInv, WrittenOK, Units
    <2> QED BY <2>1 DEF WrittenOK
  <1>12. \A j \in LogInodes \ {g} : Units(j)' = Units(j)
    BY <1>2 DEF Units
  <1>13. KeptOK'
    <2>1. ASSUME NEW j \in LogInodes, j # g, Safe(j) PROVE Safe(j)'
      <3>1. \A k \in LogNames : lcDir[k] = j => lcDir'[k] = j
        BY <2>1, LogSorts
      <3> QED BY <1>1, <1>2, <2>1, <3>1, LogSorts DEF Safe
    <2> QED BY <1>12, <2>1, KeptStep
  <1>14. CopyOK'
    <2>1. \A o \in Maintainers : lcM'[o].pc = "remove" => lcM'[o] = lcM[o]
      BY <1>1
    <2>2. ASSUME NEW o \in Maintainers, NEW i \in LogInodes, NEW h \in LogInodes,
                 lcM[o].pc = "remove", lcM[o].ino = i, lcM[o].gz = h
          PROVE  /\ \A w \in Units(i)' : w \in Units(i) \/ Blamed(w)'
                 /\ \A w \in Units(h) : w \in Units(h)' \/ Blamed(w)'
      <3>1. i # g
        BY <2>2 DEF IsLog, InCompress
      <3>2. CASE h = g
        BY <1>12, <2>2, <3>1, <3>2
      <3>3. CASE h # g
        BY <1>12, <3>1, <3>3
      <3> QED BY <3>2, <3>3
    <2> QED BY <2>1, <2>2, CopyFrame
  <1> QED BY <1>3, <1>5, <1>7, <1>9, <1>10, <1>11, <1>13, <1>14 DEF LcIInv

\* The .gz is created, or truncated when there is one.
LEMMA CompressCreateKeeps ==
  ASSUME LcIInv, NEW m \in Maintainers, CompressCreate(m)
  PROVE  LcIInv'
  <1>1. PICK g \in IF lcDir[Gz] # 0 THEN {lcDir[Gz]} ELSE Unreferenced :
          /\ lcDir' = [lcDir EXCEPT ![Gz] = g] /\ lcIno' = [lcIno EXCEPT ![g] = <<>>]
          /\ Blame(IF lcDir[Gz] = 0 THEN {} ELSE Units(g), "overwritten")
          /\ lcOld' = lcOld \ {g} /\ MGoes(m, [lcM[m] EXCEPT !.pc = "copy", !.gz = g])
    BY DEF CompressCreate
  <1>2. lcM[m].pc = "create" /\ UNCHANGED <<lcStage, lcStranded, lcFd, lcWritten, lcTorn, lcF>>
    BY DEF CompressCreate, MAt, lcPayload
  <1>3. /\ Gz \in LogNames /\ DirTyped /\ LcTyped /\ lcM[m] \in MStates /\ InCompress(lcM[m])
        /\ lcOld \subseteq LogInodes
    BY <1>2, LogSorts, LogTypes DEF LcIInv, LcTyped, LcTypeOK, InCompress
  <1>4. g \in LogInodes /\ (lcDir[Gz] # 0 => g = lcDir[Gz]) /\ (lcDir[Gz] = 0 => ~Referenced(g))
    BY <1>1, <1>3 DEF DirTyped, Unreferenced
  <1>5. ~IsLog(g)
    <2>1. CASE lcDir[Gz] # 0
      BY <1>4, <2>1 DEF LcIInv, KindsOK, IsGz
    <2>2. CASE lcDir[Gz] = 0
      BY <1>4, <2>2 DEF IsLog, Referenced, Named
    <2> QED BY <2>1, <2>2
  <1>6. /\ \A k \in LogNames \ {Gz} : lcDir[k] # g
        /\ \A o \in Maintainers : lcStage[o] # g
    <2>1. CASE lcDir[Gz] # 0
      BY <1>3, <1>4, <2>1 DEF LcIInv, StageOK, DirTyped
    <2>2. CASE lcDir[Gz] = 0
      BY <1>4, <2>2 DEF Referenced, Named
    <2> QED BY <2>1, <2>2
  <1>7. /\ lcDir' \in [LogNames -> {0} \cup LogInodes] /\ lcDir'[Gz] = g
        /\ \A k \in LogNames \ {Gz} : lcDir'[k] = lcDir[k]
    BY <1>1, <1>3, <1>4 DEF DirTyped
  <1>8. DirTyped'
    BY <1>3, <1>6, <1>7 DEF DirTyped
  <1>9. StageOK'
    BY <1>2, <1>6, <1>7 DEF LcIInv, StageOK
  <1>10. PICK r : r = [lcM[m] EXCEPT !.pc = "copy", !.gz = g]
    OBVIOUS
  <1>11. /\ r \in MStates /\ r.pc = "copy" /\ r.ino = lcM[m].ino /\ r.gz = g
         /\ r.name = lcM[m].name /\ lcM' = [lcM EXCEPT ![m] = r]
    BY <1>1, <1>3, <1>4, <1>10 DEF MStates, MLabels, MGoes
  <1>12. PICK ws : ws = IF lcDir[Gz] = 0 THEN {} ELSE Units(g)
    OBVIOUS
  <1>13. /\ lcCause' \in [Writes -> Causes] /\ \A w \in Writes : Blamed(w) => Blamed(w)'
         /\ \A w \in Writes : w \in ws => Blamed(w)'
    <2>1. Blame(ws, "overwritten") /\ "overwritten" \in Causes \ {"none"}
      BY <1>1, <1>12 DEF Causes
    <2> QED BY <1>3, <2>1, BlameGrows
  <1>14. \A w \in Units(g) : Blamed(w)' \/ (~Safe(g) /\ \A o \in Maintainers : lcM[o].gz # g)
    <2>1. CASE lcDir[Gz] # 0
      <3>1. \A w \in Units(g) : w \in Writes
        BY <1>3, <1>4, LogTypes
      <3> QED BY <1>12, <1>13, <2>1, <3>1
    <2>2. CASE lcDir[Gz] = 0
      BY <1>4, <2>2 DEF Referenced, Named, Safe
    <2> QED BY <2>1, <2>2
  <1>15. <<>> \in Seq(Writes) /\ \A k \in 1..Len(<<>>) : <<>>[k] <= lcWritten
    OBVIOUS
  <1>16. lcOld' \subseteq LogInodes /\ lcDir'[Gz] \in {lcDir[Gz], g}
         /\ (lcDir[Gz] # 0 => lcDir'[Gz] = lcDir[Gz])
    BY <1>1, <1>3, <1>4, <1>7
  <1> QED BY <1>1, <1>2, <1>3, <1>4, <1>5, <1>7, <1>8, <1>9, <1>11, <1>13, <1>14, <1>15, <1>16, GzWriteKeeps

\* The source is copied into it.
LEMMA CompressCopyKeeps ==
  ASSUME LcIInv, NEW m \in Maintainers, CompressCopy(m)
  PROVE  LcIInv'
  <1>1. PICK g : g = lcM[m].gz
    OBVIOUS
  <1>2. PICK s : s = lcIno[lcM[m].ino]
    OBVIOUS
  <1>3. /\ lcM[m].pc = "copy" /\ lcIno' = [lcIno EXCEPT ![g] = s] /\ lcOld' = lcOld \ {g}
        /\ Blame(Units(g), "overwritten") /\ MGoes(m, [lcM[m] EXCEPT !.pc = "verify"])
        /\ UNCHANGED <<lcDir, lcStage, lcStranded, lcFd, lcWritten, lcTorn, lcF>>
    BY <1>1, <1>2 DEF CompressCopy, MAt, lcPayload
  <1>4. /\ lcM[m] \in MStates /\ InCompress(lcM[m]) /\ lcM[m].ino \in LogInodes /\ g \in LogInodes
        /\ DirTyped /\ LcTyped /\ lcOld \subseteq LogInodes /\ Gz \in LogNames
    BY <1>1, <1>3, LogTypes, LogSorts
    DEF LcIInv, CallsOK, CallOK, InCompress, MStates, LcTyped, LcTypeOK
  <1>5. s \in Seq(Writes) /\ \A k \in 1..Len(s) : s[k] <= lcWritten
    BY <1>2, <1>4, LogTypes DEF LcIInv, WrittenOK, Units
  <1>6. ~IsLog(g)
    BY <1>1, <1>4 DEF LcIInv, KindsOK, IsGz
  <1>7. DirTyped' /\ StageOK'
    BY <1>3, <1>4 DEF LcIInv, DirTyped, StageOK
  <1>8. PICK r : r = [lcM[m] EXCEPT !.pc = "verify"]
    OBVIOUS
  <1>9. /\ r \in MStates /\ r.pc = "verify" /\ r.ino = lcM[m].ino /\ r.gz = g
        /\ r.name = lcM[m].name /\ lcM' = [lcM EXCEPT ![m] = r]
    BY <1>1, <1>3, <1>4, <1>8 DEF MStates, MLabels, MGoes
  <1>10. /\ lcCause' \in [Writes -> Causes] /\ \A w \in Writes : Blamed(w) => Blamed(w)'
         /\ \A w \in Writes : w \in Units(g) => Blamed(w)'
    <2>1. "overwritten" \in Causes \ {"none"}
      BY DEF Causes
    <2> QED BY <1>3, <1>4, <2>1, BlameGrows
  <1>11. \A w \in Units(g) : Blamed(w)'
    BY <1>4, <1>10, LogTypes
  <1>12. /\ lcOld' \subseteq LogInodes /\ lcDir'[Gz] = lcDir[Gz]
         /\ \A k \in LogNames \ {Gz} : lcDir'[k] = lcDir[k]
    BY <1>3, <1>4
  <1> QED BY <1>3, <1>4, <1>5, <1>6, <1>7, <1>9, <1>10, <1>11, <1>12, GzWriteKeeps

-----------------------------------------------------------------------------
(* Container logs: rotation in place                                       *)

\* RotateLogFile measures the log: what is before the cut is trimmed.
LEMMA RotateOpenKeeps ==
  ASSUME LcIInv, NEW m \in Maintainers, RotateOpen(m)
  PROVE  LcIInv'
  <1>1. PICK i : i = lcDir[0]
    OBVIOUS
  <1>2. PICK s : s = lcIno[i]
    OBVIOUS
  <1>3. PICK d : d = Len(s) - MaxBytes
    OBVIOUS
  <1>4. /\ lcM[m].pc = "idle" /\ i # 0 /\ Len(s) > MaxBytes
        /\ MGoes(m, [MRest EXCEPT !.pc = "shift", !.ino = i, !.name = d])
        /\ lcTorn' = IF \E o \in Maintainers \ {m} : Shifting(o, i) THEN lcTorn \cup {i} ELSE lcTorn
        /\ IF i \in lcTorn' THEN Blame(Units(i), "torn")
           ELSE Blame({s[k] : k \in 1..d}, "trimmed")
        /\ UNCHANGED <<lcDir, lcStage, lcStranded, lcIno, lcOld, lcFd, lcWritten, lcF>>
    BY <1>1, <1>2, <1>3 DEF RotateOpen, MAt, lcFiles, lcPayload
  <1>5. /\ DirTyped /\ LcTyped /\ i \in LogInodes /\ 0 \in LogNames \ {Gz}
    BY <1>1, <1>4, LogTypes, LogSorts DEF LcIInv, DirTyped
  <1>6. /\ s \in Seq(Writes) /\ Len(s) \in Nat /\ \A k \in 1..Len(s) : s[k] \in Writes /\ s[k] \in Nat
        /\ Units(i) = {s[k] : k \in 1..Len(s)} /\ Units(i) \subseteq Writes
    BY <1>2, <1>5, LogTypes DEF Units
  <1>7. d \in Nat /\ d > 0 /\ d + MaxBytes = Len(s) /\ d <= Len(s)
    BY <1>3, <1>4, <1>6, LogSorts
  <1>8. PICK r : r = [MRest EXCEPT !.pc = "shift", !.ino = i, !.name = d]
    OBVIOUS
  <1>9. r \in MStates /\ r.pc = "shift" /\ r.ino = i /\ r.name = d /\ r.n = 0 /\ r.gz = 0
    BY <1>5, <1>7, <1>8, AtRest DEF MStates, MLabels
  <1>10. /\ lcM' \in [Maintainers -> MStates] /\ lcM'[m] = r
         /\ \A o \in Maintainers \ {m} : lcM'[o] = lcM[o]
    BY <1>4, <1>5, <1>8, <1>9, CallChanges DEF MGoes
  <1>11. lcStage[m] = 0 /\ CallOK(r, lcStage'[m])
    <2>1. lcStage[m] = 0
      BY <1>4 DEF LcIInv, CallsOK, CallOK
    <2> QED BY <1>4, <1>7, <1>9, <2>1, LogSorts DEF CallOK, InShift, InCompress
  <1>12. lcTorn' \subseteq LogInodes /\ lcTorn \subseteq lcTorn'
    BY <1>4, <1>5 DEF LcTyped, LcTypeOK
  <1>13. /\ lcCause' \in [Writes -> Causes] /\ \A w \in Writes : Blamed(w) => Blamed(w)'
         /\ i \in lcTorn' => \A w \in Units(i) : Blamed(w)'
         /\ i \notin lcTorn' => \A k \in 1..d : Blamed(s[k])'
    <2>1. CASE i \in lcTorn'
      <3>1. Blame(Units(i), "torn") /\ "torn" \in Causes \ {"none"}
        BY <1>4, <2>1 DEF Causes
      <3> QED BY <1>5, <1>6, <2>1, <3>1, BlameGrows
    <2>2. CASE i \notin lcTorn'
      <3>1. PICK ws : ws = {s[k] : k \in 1..d}
        OBVIOUS
      <3>2. Blame(ws, "trimmed") /\ "trimmed" \in Causes \ {"none"}
        BY <1>4, <2>2, <3>1 DEF Causes
      <3>3. /\ lcCause' \in [Writes -> Causes] /\ \A w \in Writes : Blamed(w) => Blamed(w)'
            /\ \A w \in Writes : w \in ws => Blamed(w)'
        BY <1>5, <3>2, BlameGrows
      <3>4. \A k \in 1..d : s[k] \in Writes /\ s[k] \in ws
        BY <1>6, <1>7, <3>1
      <3> QED BY <2>2, <3>3, <3>4
    <2> QED BY <2>1, <2>2
  <1>14. LcTyped'
    BY <1>4, <1>10, <1>12, <1>13 DEF LcIInv, LcTyped, LcTypeOK
  <1>15. CallsOK'
    BY <1>4, <1>10, <1>11, CallsKept DEF LcIInv
  <1>16. StageOK' /\ WrittenOK' /\ ReaderOK'
    <2>1. StageOK'
      BY <1>4 DEF LcIInv, StageOK
    <2>2. WrittenOK'
      BY <1>4 DEF LcIInv, WrittenOK, Units
    <2> QED BY <1>4, <2>1, <2>2, ReaderFrame
  <1>17. ASSUME NEW j \in LogInodes PROVE (IsLog(j)' => IsLog(j)) /\ (IsGz(j)' => IsGz(j))
    <2>1. j # 0
      BY LogSorts
    <2>2. IsLog(i)
      BY <1>1, <1>5 DEF IsLog
    <2>3. IsLog(j)' => IsLog(j)
      BY <1>4, <1>9, <1>10, <1>11, <2>1, <2>2 DEF IsLog
    <2>4. IsGz(j)' => IsGz(j)
      BY <1>4, <1>9, <1>10, <1>11, <2>1 DEF IsGz
    <2> QED BY <2>3, <2>4
  <1>18. KindsOK'
    BY <1>17, KindsFrame
  <1>19. \A o \in Maintainers, j \in LogInodes :
           /\ Shifting(o, j)' => (o # m /\ Shifting(o, j)) \/ (o = m /\ j = i)
           /\ Shifting(o, j) => o # m /\ Shifting(o, j)'
    BY <1>4, <1>9, <1>10 DEF Shifting
  <1>20. OrderOK'
    <2> SUFFICES ASSUME NEW j \in LogInodes, IsLog(j)', j \notin lcTorn'
                 PROVE  /\ (HalfShifted(j) \/ Rising(lcIno[j]))'
                        /\ \A o \in Maintainers : Shifting(o, j)' =>
                             ShiftOK(o, lcIno[j])' /\ \A q \in Maintainers : Shifting(q, j)' => q = o
      BY DEF OrderOK
    <2>1. IsLog(j) /\ j \notin lcTorn /\ lcIno'[j] = lcIno[j]
      BY <1>4, <1>12, <1>17
    <2>2. HalfShifted(j) => HalfShifted(j)'
      BY <1>12, <1>19 DEF HalfShifted
    <2>3. (HalfShifted(j) \/ Rising(lcIno[j]))'
      BY <2>1, <2>2 DEF LcIInv, OrderOK, Rising
    <2>4. CASE j = i
      <3>1. \A o \in Maintainers : ~Shifting(o, i)
        BY <1>4, <1>19, <2>4
      <3>2. Rising(s)
        BY <1>2, <2>1, <2>4, <3>1 DEF LcIInv, OrderOK, HalfShifted
      <3>3. lcM'[m].name = d /\ lcM'[m].n = 0
        BY <1>9, <1>10
      <3>4. ShiftOK(m, s)'
        <4>1. \A p \in (d + MaxBytes + 1)..Len(s) : FALSE
          BY <1>6, <1>7, LogSorts
        <4>2. \A p \in (0 + 1)..(0 + d) : p <= d /\ Blamed(s[p])'
          BY <1>7, <1>13, <2>4
        <4>3. d + MaxBytes <= Len(s)
          BY <1>7, LogSorts
        <4> QED BY <3>2, <3>3, <4>1, <4>2, <4>3 DEF ShiftOK, Rising
      <3>5. \A o \in Maintainers : Shifting(o, i)' => o = m
        BY <1>5, <1>19, <3>1
      <3> QED BY <1>2, <2>1, <2>3, <2>4, <3>4, <3>5
    <2>5. CASE j # i
      <3>1. ASSUME NEW o \in Maintainers, Shifting(o, j)'
            PROVE  ShiftOK(o, lcIno[j])' /\ \A q \in Maintainers : Shifting(q, j)' => q = o
        <4>1. o # m /\ Shifting(o, j) /\ lcM'[o] = lcM[o]
          BY <1>10, <1>19, <2>5, <3>1
        <4>2. ShiftOK(o, lcIno[j]) /\ \A q \in Maintainers : Shifting(q, j) => q = o
          BY <2>1, <4>1 DEF LcIInv, OrderOK
        <4>3. ShiftOK(o, lcIno[j])'
          BY <1>13, <2>1, <4>1, <4>2, ShiftFrame DEF LcIInv
        <4> QED BY <1>19, <2>5, <4>2, <4>3
      <3> QED BY <2>3, <3>1
    <2> QED BY <2>4, <2>5
  <1>21. TornOK'
    <2> SUFFICES ASSUME NEW j \in lcTorn', NEW o \in Maintainers, Shifting(o, j)'
                 PROVE  Len(lcIno'[j]) >= MaxBytes /\ \A w \in Units(j)' : Blamed(w)'
      BY DEF TornOK
    <2>1. j \in LogInodes /\ lcIno'[j] = lcIno[j] /\ Units(j)' = Units(j)
      BY <1>4, <1>12 DEF Units
    <2>2. CASE j = i
      BY <1>2, <1>4, <1>6, <1>13, <2>1, <2>2, LogSorts
    <2>3. CASE j # i
      <3>1. j \in lcTorn /\ Shifting(o, j)
        BY <1>4, <1>19, <2>1, <2>3
      <3>2. Len(lcIno[j]) >= MaxBytes /\ \A w \in Units(j) : Blamed(w) /\ w \in Writes
        BY <1>5, <2>1, <3>1, LogTypes DEF LcIInv, TornOK
      <3> QED BY <1>13, <2>1, <3>2
    <2> QED BY <2>2, <2>3
  <1>22. KeptOK'
    <2>1. \A j \in LogInodes : Safe(j) => Safe(j)'
      BY <1>4, <1>9, <1>10, <1>11, LogSorts DEF Safe
    <2> QED BY <1>4, <1>13, <2>1, KeptFrame
  <1>23. CopyOK'
    <2>1. \A o \in Maintainers : lcM'[o].pc = "remove" => lcM'[o] = lcM[o]
      BY <1>9, <1>10
    <2>2. \A j \in LogInodes : Units(j)' = Units(j)
      BY <1>4 DEF Units
    <2> QED BY <1>13, <2>1, <2>2, CopyFrame
  <1> QED BY <1>14, <1>15, <1>16, <1>18, <1>20, <1>21, <1>22, <1>23 DEF LcIInv

\* A rotation rewrites its file with text that stood further back.
LEMMA RotateWriteKeeps ==
  ASSUME LcIInv, NEW m \in Maintainers, NEW i \in LogInodes, Shifting(m, i),
         NEW r \in MStates, lcM' = [lcM EXCEPT ![m] = r],
         NEW t \in Seq(Writes), lcIno' = [lcIno EXCEPT ![i] = t], Len(t) >= MaxBytes,
         UNCHANGED <<lcDir, lcStage, lcStranded, lcFd, lcWritten, lcTorn, lcF, lcCause>>,
         lcOld' \subseteq LogInodes, CallOK(r, 0), ~InCompress(r), r.gz = 0, InShift(r) => r.ino = i,
         \A p \in 1..Len(t) : \E q \in 1..Len(lcIno[i]) : q >= p /\ t[p] = lcIno[i][q],
         i \notin lcTorn =>
           /\ \A p \in 1..Len(lcIno[i]) : Blamed(lcIno[i][p]) \/ \E q \in 1..Len(t) : t[q] = lcIno[i][p]
           /\ IF InShift(r) THEN ShiftOK(m, t)' ELSE Rising(t)
  PROVE  LcIInv'
  <1>1. /\ lcM' \in [Maintainers -> MStates] /\ lcM'[m] = r
        /\ \A o \in Maintainers \ {m} : lcM'[o] = lcM[o] /\ LcTyped
    BY CallChanges DEF LcIInv
  <1>2. /\ lcIno' \in [LogInodes -> Seq(Writes)] /\ lcIno'[i] = t
        /\ \A j \in LogInodes \ {i} : lcIno'[j] = lcIno[j] /\ Units(j)' = Units(j)
    BY LogTypes DEF LcIInv, Units
  <1>3. lcStage[m] = 0 /\ IsLog(i) /\ InShift(lcM[m]) /\ lcM[m].ino = i
    BY DEF LcIInv, CallsOK, CallOK, Shifting, InShift, IsLog
  <1>4. PICK s : s = lcIno[i]
    OBVIOUS
  <1>5. /\ s \in Seq(Writes) /\ Len(s) \in Nat /\ Len(t) \in Nat
        /\ \A p \in 1..Len(s) : s[p] \in Writes
        /\ Units(i) = {s[p] : p \in 1..Len(s)} /\ Units(i)' = {t[p] : p \in 1..Len(t)}
    BY <1>1, <1>2, <1>4, LogTypes, LenProperties DEF Units, LcIInv
  <1>6. Units(i)' \subseteq Units(i)
    BY <1>4, <1>5
  <1>7. \A w \in Writes : Blamed(w)' <=> Blamed(w)
    BY DEF Blamed
  <1>8. LcTyped'
    BY <1>1, <1>2 DEF LcIInv, LcTyped, LcTypeOK
  <1>9. CallsOK'
    BY <1>1, <1>3, CallsKept DEF LcIInv
  <1>10. StageOK' /\ WrittenOK'
    <2>1. StageOK'
      BY DEF LcIInv, StageOK
    <2>2. \A j \in LogInodes : Units(j)' \subseteq Units(j)
      BY <1>2, <1>6
    <2> QED BY <2>1, <2>2 DEF LcIInv, WrittenOK
  <1>11. ASSUME NEW j \in LogInodes PROVE (IsLog(j)' => IsLog(j)) /\ (IsGz(j)' => IsGz(j))
    <2>1. j # 0
      BY LogSorts
    <2>2. IsLog(j)' => IsLog(j)
      BY <1>1, <1>3, <2>1 DEF IsLog
    <2>3. IsGz(j)' => IsGz(j)
      BY <1>1, <1>3, <2>1 DEF IsGz
    <2> QED BY <2>2, <2>3
  <1>12. KindsOK'
    BY <1>11, KindsFrame
  <1>13. \A o \in Maintainers, j \in LogInodes :
           /\ Shifting(o, j)' => Shifting(o, j) /\ (o = m => j = i /\ InShift(r))
           /\ Shifting(o, j) /\ j # i => o # m /\ Shifting(o, j)'
    BY <1>1, <1>3 DEF Shifting, InShift
  <1>14. InShift(r) => Shifting(m, i)'
    BY <1>1 DEF Shifting, InShift
  <1>15. OrderOK'
    <2> SUFFICES ASSUME NEW j \in LogInodes, IsLog(j)', j \notin lcTorn
                 PROVE  /\ (HalfShifted(j) \/ Rising(lcIno[j]))'
                        /\ \A o \in Maintainers : Shifting(o, j)' =>
                             ShiftOK(o, lcIno[j])' /\ \A q \in Maintainers : Shifting(q, j)' => q = o
      BY DEF OrderOK
    <2>1. IsLog(j)
      BY <1>11
    <2>2. CASE j = i
      <3>1. \A o \in Maintainers : Shifting(o, i) => o = m
        BY <2>1, <2>2 DEF LcIInv, OrderOK
      <3>2. \A o \in Maintainers : Shifting(o, i)' => o = m /\ InShift(r)
        BY <1>13, <3>1
      <3>3. CASE InShift(r)
        <4>1. ShiftOK(m, lcIno[i])' /\ HalfShifted(i)'
          BY <1>2, <1>14, <2>2, <3>3 DEF HalfShifted
        <4> QED BY <2>2, <3>2, <4>1
      <3>4. CASE ~InShift(r)
        <4>1. (Rising(lcIno[i]))'
          BY <1>2, <2>2, <3>4 DEF Rising
        <4> QED BY <2>2, <3>2, <3>4, <4>1
      <3> QED BY <3>3, <3>4
    <2>3. CASE j # i
      <3>1. HalfShifted(j) => HalfShifted(j)'
        BY <1>13, <2>3 DEF HalfShifted
      <3>2. (HalfShifted(j) \/ Rising(lcIno[j]))'
        BY <1>2, <2>1, <2>3, <3>1 DEF LcIInv, OrderOK, Rising
      <3>3. ASSUME NEW o \in Maintainers, Shifting(o, j)'
            PROVE  ShiftOK(o, lcIno[j])' /\ \A q \in Maintainers : Shifting(q, j)' => q = o
        <4>1. o # m /\ Shifting(o, j) /\ lcM'[o] = lcM[o] /\ lcIno'[j] = lcIno[j]
          BY <1>1, <1>2, <1>13, <2>3, <3>3
        <4>2. ShiftOK(o, lcIno[j]) /\ \A q \in Maintainers : Shifting(q, j) => q = o
          BY <2>1, <4>1 DEF LcIInv, OrderOK
        <4>3. ShiftOK(o, lcIno[j])'
          BY <1>7, <4>1, <4>2, ShiftFrame DEF LcIInv
        <4> QED BY <1>13, <4>2, <4>3
      <3> QED BY <3>2, <3>3
    <2> QED BY <2>2, <2>3
  <1>16. i \in lcTorn => \A w \in Units(i) : Blamed(w)
    BY DEF LcIInv, TornOK
  <1>17. TornOK'
    <2> SUFFICES ASSUME NEW j \in lcTorn, NEW o \in Maintainers, Shifting(o, j)'
                 PROVE  Len(lcIno'[j]) >= MaxBytes /\ \A w \in Units(j)' : Blamed(w)'
      BY DEF TornOK
    <2>1. j \in LogInodes
      BY <1>8 DEF LcTyped, LcTypeOK
    <2>2. CASE j = i
      <3>1. \A w \in Units(i)' : w \in Writes /\ Blamed(w)
        <4>1. Units(i) \subseteq Writes
          BY <1>5
        <4> QED BY <1>6, <1>16, <2>2, <4>1
      <3> QED BY <1>2, <1>7, <2>2, <3>1
    <2>3. CASE j # i
      <3>1. Len(lcIno[j]) >= MaxBytes /\ \A w \in Units(j) : Blamed(w) /\ w \in Writes
        BY <1>13, <2>1, LogTypes DEF LcIInv, TornOK
      <3> QED BY <1>2, <1>7, <2>1, <2>3, <3>1
    <2> QED BY <2>2, <2>3
  <1>18. KeptOK'
    <2>1. \A j \in LogInodes : Safe(j) => Safe(j)'
      BY <1>1, <1>3, LogSorts DEF Safe
    <2>2. \A w \in Units(i) : Blamed(w)' \/ w \in Units(i)'
      <3>1. \A w \in Units(i) : w \in Writes
        BY <1>5
      <3>2. CASE i \in lcTorn
        BY <1>7, <1>16, <3>1, <3>2
      <3>3. CASE i \notin lcTorn
        BY <1>4, <1>5, <1>7, <3>1, <3>3
      <3> QED BY <3>2, <3>3
    <2>3. \A j \in LogInodes : \A w \in Units(j) : Blamed(w)' \/ w \in Units(j)'
      BY <1>2, <2>2
    <2> QED BY <1>7, <2>1, <2>3, KeptStep
  <1>19. CopyOK'
    <2>1. \A o \in Maintainers : lcM'[o].pc = "remove" => lcM'[o] = lcM[o]
      BY <1>1 DEF InCompress
    <2>2. \A o \in Maintainers, g \in LogInodes : lcM[o].gz = g => g # i
      BY <1>3 DEF LcIInv, KindsOK, IsGz
    <2>3. \A j \in LogInodes : Units(j)' \subseteq Units(j)
      BY <1>2, <1>6
    <2> QED BY <1>2, <1>7, <2>1, <2>2, <2>3, CopyFrame
  <1>20. ReaderOK'
    <2>1. CASE lcF.ino # i
      <3>1. lcF.ino \in {0} \cup LogInodes
        BY DEF LcIInv, LcTyped, LcTypeOK
      <3> QED BY <1>2, <2>1, <3>1, ReaderFrame
    <2>2. CASE lcF.ino = i
      <3>1. ASSUME ~lcF.amid, NEW p \in 1..Len(t), p > lcF.off
            PROVE  t[p] > lcF.last
        <4>1. PICK q \in 1..Len(s) : q >= p /\ t[p] = s[q]
          BY <1>4, <3>1
        <4>2. lcF.off \in Nat /\ q > lcF.off
          BY <1>5, <3>1, <4>1 DEF LcIInv, LcTyped, FStates
        <4>3. i # 0
          BY LogSorts
        <4> QED BY <1>4, <2>2, <3>1, <4>1, <4>2, <4>3 DEF LcIInv, ReaderOK
      <3>2. lcF.last <= lcWritten /\ (lcF.back => lcF.amid)
        BY DEF LcIInv, ReaderOK
      <3> QED BY <1>2, <2>2, <3>1, <3>2 DEF ReaderOK
    <2> QED BY <2>1, <2>2
  <1> QED BY <1>8, <1>9, <1>10, <1>12, <1>15, <1>17, <1>18, <1>19, <1>20 DEF LcIInv

\* What a call in a shift knows of its file.
LEMMA ShiftFacts ==
  ASSUME LcIInv, NEW m \in Maintainers, InShift(lcM[m])
  PROVE  /\ lcM[m].ino \in LogInodes /\ Shifting(m, lcM[m].ino) /\ lcStage[m] = 0
         /\ lcM[m] \in MStates /\ lcM[m].name \in Nat /\ lcM[m].name > 0 /\ lcM[m].n \in Nat
         /\ lcM[m].gz = 0 /\ Len(lcIno[lcM[m].ino]) >= MaxBytes
         /\ lcM[m].ino \notin lcTorn => ShiftOK(m, lcIno[lcM[m].ino])
         /\ lcM[m].pc = "shift" => lcM[m].n < MaxBytes
         /\ lcM[m].pc = "truncate" => lcM[m].n = MaxBytes
  <1>1. lcM[m] \in MStates
    BY LogTypes DEF LcIInv
  <1>2. /\ lcM[m].ino \in LogInodes /\ Shifting(m, lcM[m].ino) /\ lcStage[m] = 0
        /\ lcM[m].name \in Nat /\ lcM[m].name > 0 /\ lcM[m].n \in Nat /\ lcM[m].gz = 0
        /\ lcM[m].pc = "shift" => lcM[m].n < MaxBytes
        /\ lcM[m].pc = "truncate" => lcM[m].n = MaxBytes
    BY <1>1 DEF LcIInv, CallsOK, CallOK, InShift, Shifting, MStates
  <1>3. IsLog(lcM[m].ino)
    BY DEF IsLog
  <1>4. lcM[m].ino \notin lcTorn => ShiftOK(m, lcIno[lcM[m].ino])
    BY <1>2, <1>3 DEF LcIInv, OrderOK
  <1>5. Len(lcIno[lcM[m].ino]) >= MaxBytes
    <2>1. CASE lcM[m].ino \in lcTorn
      BY <1>2, <2>1 DEF LcIInv, TornOK
    <2>2. CASE lcM[m].ino \notin lcTorn
      <3>1. lcM[m].name + MaxBytes <= Len(lcIno[lcM[m].ino])
        BY <1>4, <2>2 DEF ShiftOK
      <3>2. Len(lcIno[lcM[m].ino]) \in Nat
        BY <1>2, LogTypes DEF LcIInv
      <3> QED BY <1>2, <3>1, <3>2, LogSorts
    <2> QED BY <2>1, <2>2
  <1> QED BY <1>1, <1>2, <1>4, <1>5

\* One chunk goes to the front.
LEMMA RotateShiftKeeps ==
  ASSUME LcIInv, NEW m \in Maintainers, RotateShift(m)
  PROVE  LcIInv'
  <1>1. PICK i : i = lcM[m].ino
    OBVIOUS
  <1>2. PICK k : k = lcM[m].n
    OBVIOUS
  <1>3. PICK d : d = lcM[m].name
    OBVIOUS
  <1>4. PICK s : s = lcIno[i]
    OBVIOUS
  <1>5. /\ lcM[m].pc = "shift" /\ InShift(lcM[m])
        /\ UNCHANGED <<lcDir, lcStage, lcStranded, lcFd, lcWritten, lcTorn, lcF, lcCause>>
    BY DEF RotateShift, MAt, lcPayload, InShift
  <1>6. /\ i \in LogInodes /\ Shifting(m, i) /\ lcStage[m] = 0 /\ lcM[m] \in MStates /\ lcM[m].gz = 0
        /\ d \in Nat /\ d > 0 /\ k \in Nat /\ k < MaxBytes /\ Len(s) >= MaxBytes
        /\ i \notin lcTorn => ShiftOK(m, s)
    BY <1>1, <1>2, <1>3, <1>4, <1>5, ShiftFacts
  <1>7. /\ s \in Seq(Writes) /\ Len(s) \in Nat /\ lcOld \subseteq LogInodes
        /\ \A p \in 1..Len(s) : s[p] \in Writes /\ s[p] \in Nat
    BY <1>4, <1>6, LogTypes DEF LcIInv, LcTyped, LcTypeOK
  <1>8. CASE d + k + 1 > Len(s) /\ MReturns(m) /\ UNCHANGED <<lcIno, lcOld>>
    <2>1. i \in lcTorn
      <3>1. i \notin lcTorn => d + MaxBytes <= Len(s)
        BY <1>3, <1>6 DEF ShiftOK
      <3> QED BY <1>6, <1>7, <1>8, <3>1, LogSorts
    <2> QED BY <1>1, <1>5, <1>6, <1>8, <2>1, ReturnKeeps
  <1>9. CASE /\ ~(d + k + 1 > Len(s)) /\ lcIno' = [lcIno EXCEPT ![i][k + 1] = s[d + k + 1]]
             /\ lcOld' = lcOld \ {i}
             /\ MGoes(m, [lcM[m] EXCEPT !.n = k + 1, !.pc = IF k + 1 = MaxBytes THEN "truncate" ELSE "shift"])
    <2>1. PICK t : t = [s EXCEPT ![k + 1] = s[d + k + 1]]
      OBVIOUS
    <2>2. k + 1 \in 1..Len(s) /\ d + k + 1 \in 1..Len(s) /\ d + k + 1 > k + 1
      <3>1. ~(d + k + 1 > Len(s)) /\ d \in Nat /\ d > 0 /\ k \in Nat /\ Len(s) \in Nat
        BY <1>6, <1>7, <1>9
      <3> QED BY <3>1
    <2>3. /\ t \in Seq(Writes) /\ Len(t) = Len(s) /\ t[k + 1] = s[d + k + 1]
          /\ \A p \in 1..Len(s) : p # k + 1 => t[p] = s[p]
      BY <1>7, <2>1, <2>2, ExceptSeq
    <2>4. lcIno' = [lcIno EXCEPT ![i] = t]
      BY <1>4, <1>9, <2>1
    <2>5. PICK r : r = [lcM[m] EXCEPT !.n = k + 1, !.pc = IF k + 1 = MaxBytes THEN "truncate" ELSE "shift"]
      OBVIOUS
    <2>6. /\ r \in MStates /\ r.n = k + 1 /\ r.name = d /\ r.ino = i /\ r.gz = 0
          /\ r.pc = IF k + 1 = MaxBytes THEN "truncate" ELSE "shift"
      <3>1. PICK c \in {"truncate", "shift"} : c = IF k + 1 = MaxBytes THEN "truncate" ELSE "shift"
        OBVIOUS
      <3>2. PICK l \in Nat : l = k + 1
        BY <1>6
      <3>3. r = [lcM[m] EXCEPT !.n = l, !.pc = c]
        BY <2>5, <3>1, <3>2
      <3>4. r \in MStates /\ r.n = l /\ r.name = d /\ r.ino = i /\ r.gz = 0 /\ r.pc = c
        BY <1>1, <1>3, <1>6, <3>1, <3>2, <3>3 DEF MStates, MLabels
      <3> QED BY <3>1, <3>2, <3>4
    <2>7. CallOK(r, 0) /\ ~InCompress(r) /\ InShift(r)
      BY <1>6, <2>6, LogSorts DEF CallOK, InCompress, InShift
    <2>8. lcM' = [lcM EXCEPT ![m] = r] /\ lcM'[m] = r
      BY <1>9, <2>5, <2>6, CallChanges DEF MGoes, LcIInv
    <2>9. \A p \in 1..Len(t) : \E q \in 1..Len(s) : q >= p /\ t[p] = s[q]
      BY <1>7, <2>2, <2>3
    <2>10. ASSUME i \notin lcTorn
           PROVE  /\ \A p \in 1..Len(s) : Blamed(s[p]) \/ \E q \in 1..Len(t) : t[q] = s[p]
                  /\ ShiftOK(m, t)'
      <3>1. /\ d + MaxBytes <= Len(s)
            /\ \A p, q \in 1..Len(s) : p < q /\ (q <= k \/ p > k \/ q > k + d) => s[p] < s[q]
            /\ \A p \in (k + 1)..(k + d) : IF p <= d THEN Blamed(s[p]) ELSE s[p - d] = s[p]
            /\ \A p \in (d + MaxBytes + 1)..Len(s) : Blamed(s[p])
        BY <1>2, <1>3, <1>6, <2>10 DEF ShiftOK
      <3>2. \A p \in 1..Len(s) : Blamed(s[p]) \/ \E q \in 1..Len(t) : t[q] = s[p]
        <4> SUFFICES ASSUME NEW p \in 1..Len(s), ~Blamed(s[p])
                     PROVE  \E q \in 1..Len(t) : t[q] = s[p]
          OBVIOUS
        <4>1. CASE p # k + 1
          BY <2>3, <4>1
        <4>2. CASE p = k + 1
          <5>1. p \in (k + 1)..(k + d)
            BY <1>6, <4>2
          <5>2. p > d /\ s[p - d] = s[p]
            BY <1>6, <3>1, <5>1
          <5>3. p - d \in 1..Len(s) /\ p - d # k + 1
            BY <1>6, <1>7, <4>2, <5>2
          <5> QED BY <2>3, <5>2, <5>3
        <4> QED BY <4>1, <4>2
      <3>3. \A p, q \in 1..Len(t) : p < q /\ (q <= k + 1 \/ p > k + 1 \/ q > k + 1 + d) => t[p] < t[q]
        <4> SUFFICES ASSUME NEW p \in 1..Len(s), NEW q \in 1..Len(s), p < q,
                            q <= k + 1 \/ p > k + 1 \/ q > k + 1 + d
                     PROVE  t[p] < t[q]
          BY <2>3
        <4>1. CASE q = k + 1
          <5>1. s[p] < s[d + k + 1]
            BY <1>6, <2>2, <3>1, <4>1
          <5> QED BY <2>3, <4>1, <5>1
        <4>2. CASE p = k + 1
          <5>1. q > d + k + 1
            BY <1>6, <4>2
          <5>2. s[d + k + 1] < s[q]
            BY <1>6, <2>2, <3>1, <5>1
          <5> QED BY <1>6, <2>3, <4>2, <5>2
        <4>3. CASE p # k + 1 /\ q # k + 1
          <5>1. s[p] < s[q]
            BY <1>6, <3>1, <4>3
          <5> QED BY <2>3, <4>3, <5>1
        <4> QED BY <4>1, <4>2, <4>3
      <3>4. \A p \in (k + 2)..(k + 1 + d) : IF p <= d THEN Blamed(t[p]) ELSE t[p - d] = t[p]
        <4> SUFFICES ASSUME NEW p \in (k + 2)..(k + 1 + d)
                     PROVE  IF p <= d THEN Blamed(t[p]) ELSE t[p - d] = t[p]
          OBVIOUS
        <4>1. p \in 1..Len(s) /\ p # k + 1 /\ t[p] = s[p]
          BY <1>6, <1>7, <1>9, <2>3
        <4>2. CASE p <= d
          <5>1. p \in (k + 1)..(k + d)
            BY <1>6, <4>2
          <5> QED BY <3>1, <4>1, <4>2, <5>1
        <4>3. CASE p > d
          <5>1. CASE p = k + 1 + d
            <6>1. p - d = k + 1 /\ p = d + k + 1
              BY <1>6, <5>1
            <6> QED BY <1>6, <2>3, <4>1, <4>3, <6>1
          <5>2. CASE p # k + 1 + d
            <6>1. p \in (k + 1)..(k + d) /\ p - d \in 1..Len(s) /\ p - d # k + 1
              BY <1>6, <4>1, <4>3, <5>2
            <6>2. s[p - d] = s[p] /\ t[p - d] = s[p - d]
              <7>1. ~(p <= d)
                BY <1>6, <4>1, <4>3
              <7>2. s[p - d] = s[p]
                BY <3>1, <6>1, <7>1
              <7> QED BY <2>3, <6>1, <7>2
            <6> QED BY <1>6, <4>1, <4>3, <6>2
          <5> QED BY <5>1, <5>2
        <4> QED BY <1>6, <4>2, <4>3
      <3>5. \A p \in (d + MaxBytes + 1)..Len(t) : Blamed(t[p])
        <4>1. \A p \in (d + MaxBytes + 1)..Len(s) : p \in 1..Len(s) /\ p # k + 1
          BY <1>6, <1>7, LogSorts
        <4> QED BY <2>3, <3>1, <4>1
      <3>6. lcM'[m].name = d /\ lcM'[m].n = k + 1 /\ (k + 1) + 1 = k + 2
        BY <1>6, <2>6, <2>8
      <3>7. \A w : Blamed(w)' <=> Blamed(w)
        BY <1>5 DEF Blamed
      <3>8. ShiftOK(m, t)'
        BY <2>3, <3>1, <3>3, <3>4, <3>5, <3>6, <3>7 DEF ShiftOK
      <3> QED BY <3>2, <3>8
    <2>11. lcOld' \subseteq LogInodes /\ Len(t) >= MaxBytes
      BY <1>6, <1>7, <1>9, <2>3
    <2>12. i \notin lcTorn =>
             /\ \A p \in 1..Len(s) : Blamed(s[p]) \/ \E q \in 1..Len(t) : t[q] = s[p]
             /\ IF InShift(r) THEN ShiftOK(m, t)' ELSE Rising(t)
      BY <2>7, <2>10
    <2>13. /\ \A p \in 1..Len(t) : \E q \in 1..Len(lcIno[i]) : q >= p /\ t[p] = lcIno[i][q]
           /\ i \notin lcTorn =>
             /\ \A p \in 1..Len(lcIno[i]) : Blamed(lcIno[i][p]) \/ \E q \in 1..Len(t) : t[q] = lcIno[i][p]
             /\ IF InShift(r) THEN ShiftOK(m, t)' ELSE Rising(t)
      BY <1>4, <2>9, <2>12, ZenonT(60)
    <2>14. t \in Seq(Writes) /\ r \in MStates /\ r.gz = 0 /\ (InShift(r) => r.ino = i)
      BY <2>3, <2>6
    <2> QED BY <1>5, <1>6, <2>4, <2>7, <2>8, <2>11, <2>13, <2>14, RotateWriteKeeps
  <1> QED BY <1>1, <1>2, <1>3, <1>4, <1>8, <1>9 DEF RotateShift

\* The rest is cut off.
LEMMA RotateTruncateKeeps ==
  ASSUME LcIInv, NEW m \in Maintainers, RotateTruncate(m)
  PROVE  LcIInv'
  <1>1. PICK i : i = lcM[m].ino
    OBVIOUS
  <1>2. PICK s : s = lcIno[i]
    OBVIOUS
  <1>3. PICK t : t = SubSeq(s, 1, MaxBytes)
    OBVIOUS
  <1>4. PICK d : d = lcM[m].name
    OBVIOUS
  <1>5. /\ lcM[m].pc = "truncate" /\ InShift(lcM[m]) /\ lcIno' = [lcIno EXCEPT ![i] = t]
        /\ lcOld' = lcOld \ {i} /\ lcM' = [lcM EXCEPT ![m] = MRest]
        /\ UNCHANGED <<lcDir, lcStage, lcStranded, lcFd, lcWritten, lcTorn, lcF, lcCause>>
    BY <1>1, <1>2, <1>3 DEF RotateTruncate, MAt, lcPayload, InShift, MReturns
  <1>6. /\ i \in LogInodes /\ Shifting(m, i) /\ lcStage[m] = 0 /\ Len(s) >= MaxBytes
        /\ lcM[m].n = MaxBytes /\ d \in Nat /\ d > 0
        /\ i \notin lcTorn => ShiftOK(m, s)
    BY <1>1, <1>2, <1>4, <1>5, ShiftFacts
  <1>7. /\ s \in Seq(Writes) /\ Len(s) \in Nat /\ lcOld \subseteq LogInodes
        /\ \A p \in 1..Len(s) : s[p] \in Writes /\ s[p] \in Nat
    BY <1>2, <1>6, LogTypes DEF LcIInv, LcTyped, LcTypeOK
  <1>8. /\ t \in Seq(Writes) /\ Len(t) = MaxBytes /\ \A p \in 1..MaxBytes : t[p] = s[p]
    <2>1. MaxBytes \in 1..Len(s) /\ 1 \in 1..(Len(s) + 1)
      BY <1>6, <1>7, LogSorts
    <2> QED BY <1>3, <1>7, <2>1, SubSeqProperties, LogSorts
  <1>9. \A p \in 1..Len(t) : \E q \in 1..Len(s) : q >= p /\ t[p] = s[q]
    BY <1>6, <1>7, <1>8, LogSorts
  <1>10. ASSUME i \notin lcTorn
         PROVE  /\ \A p \in 1..Len(s) : Blamed(s[p]) \/ \E q \in 1..Len(t) : t[q] = s[p]
                /\ Rising(t)
    <2>1. /\ \A p, q \in 1..Len(s) : p < q /\ q <= MaxBytes => s[p] < s[q]
          /\ \A p \in (MaxBytes + 1)..(MaxBytes + d) : IF p <= d THEN Blamed(s[p]) ELSE s[p - d] = s[p]
          /\ \A p \in (d + MaxBytes + 1)..Len(s) : Blamed(s[p])
      BY <1>4, <1>6, <1>10 DEF ShiftOK
    <2>2. Rising(t)
      <3> SUFFICES ASSUME NEW p \in 1..MaxBytes, NEW q \in 1..MaxBytes, p < q
                   PROVE  t[p] < t[q]
        BY <1>8 DEF Rising
      <3>1. p \in 1..Len(s) /\ q \in 1..Len(s) /\ q <= MaxBytes
        BY <1>6, <1>7, LogSorts
      <3> QED BY <1>8, <2>1, <3>1
    <2>3. \A p \in 1..Len(s) : Blamed(s[p]) \/ \E q \in 1..Len(t) : t[q] = s[p]
      <3> SUFFICES ASSUME NEW p \in 1..Len(s), ~Blamed(s[p])
                   PROVE  \E q \in 1..MaxBytes : t[q] = s[p]
        BY <1>8
      <3>1. CASE p <= MaxBytes
        BY <1>8, <3>1, LogSorts
      <3>2. CASE p > MaxBytes
        <4>1. p \in (MaxBytes + 1)..(MaxBytes + d)
          BY <1>6, <1>7, <2>1, <3>2, LogSorts
        <4>2. p > d /\ s[p - d] = s[p]
          BY <1>6, <2>1, <4>1
        <4>3. p - d \in 1..MaxBytes
          BY <1>6, <4>1, <4>2, LogSorts
        <4> QED BY <1>8, <4>2, <4>3
      <3> QED BY <3>1, <3>2, LogSorts
    <2> QED BY <2>2, <2>3
  <1>11. lcOld' \subseteq LogInodes /\ Len(t) >= MaxBytes
    <2>1. lcOld' \subseteq LogInodes
      BY <1>5, <1>7
    <2> QED BY <1>8, <2>1, LogSorts
  <1>12. /\ \A p \in 1..Len(t) : \E q \in 1..Len(lcIno[i]) : q >= p /\ t[p] = lcIno[i][q]
         /\ i \notin lcTorn =>
              /\ \A p \in 1..Len(lcIno[i]) : Blamed(lcIno[i][p]) \/ \E q \in 1..Len(t) : t[q] = lcIno[i][p]
              /\ IF InShift(MRest) THEN ShiftOK(m, t)' ELSE Rising(t)
    BY <1>2, <1>9, <1>10, AtRest, ZenonT(60)
  <1>13. t \in Seq(Writes) /\ MRest \in MStates /\ MRest.gz = 0 /\ (InShift(MRest) => MRest.ino = i)
    BY <1>8, AtRest
  <1> QED BY <1>5, <1>6, <1>11, <1>12, <1>13, AtRest, RotateWriteKeeps

-----------------------------------------------------------------------------
(* Container logs: the payload and the reader                              *)

\* A step that neither writes a file nor moves a call.
LEMMA QuietKeeps ==
  ASSUME LcIInv, UNCHANGED <<lcDir, lcStage, lcStranded, lcIno, lcWritten, lcM, lcCause, lcTorn>>,
         lcOld' \subseteq LogInodes, lcFd' \in {lcFd, lcDir[0]},
         lcF' \in FStates, lcF'.ino \in {lcF.ino, lcDir[0]}, ReaderOK'
  PROVE  LcIInv'
  <1>1. DirTyped /\ LcTyped /\ 0 \in LogNames \ {Gz}
    BY LogTypes, LogSorts DEF LcIInv
  <1>2. LcTyped'
    BY <1>1 DEF LcTyped, LcTypeOK, DirTyped, FStates
  <1>3. CallsOK' /\ StageOK' /\ WrittenOK'
    BY DEF LcIInv, CallsOK, StageOK, WrittenOK, Units
  <1>4. ASSUME NEW j \in LogInodes PROVE (IsLog(j)' => IsLog(j)) /\ (IsGz(j)' => IsGz(j))
    <2>1. IsLog(j)' => IsLog(j)
      BY <1>1 DEF IsLog
    <2>2. IsGz(j)' => IsGz(j)
      BY DEF IsGz
    <2> QED BY <2>1, <2>2
  <1>5. KindsOK'
    BY <1>4, KindsFrame
  <1>6. \A w \in Writes : Blamed(w) => Blamed(w)'
    BY DEF Blamed
  <1>7. OrderOK' /\ TornOK'
    BY <1>2, <1>3, <1>4, <1>6, OrderFrame
  <1>8. KeptOK'
    <2>1. \A j \in LogInodes : Safe(j) => Safe(j)'
      BY DEF Safe
    <2> QED BY <1>6, <2>1, KeptFrame
  <1>9. CopyOK'
    <2>1. \A j \in LogInodes : Units(j)' = Units(j)
      BY DEF Units
    <2> QED BY <1>6, <2>1, CopyFrame
  <1> QED BY <1>2, <1>3, <1>5, <1>7, <1>8, <1>9 DEF LcIInv

\* A file gets older.
LEMMA LogAgeKeeps ==
  ASSUME LcIInv, LogAge
  PROVE  LcIInv'
  <1>1. /\ UNCHANGED <<lcDir, lcStage, lcStranded, lcIno, lcWritten, lcFd, lcM, lcCause, lcTorn, lcF>>
        /\ lcOld' \subseteq LogInodes
    BY DEF LogAge, lcPayload, LcIInv, LcTyped, LcTypeOK
  <1>2. ReaderOK' /\ lcF \in FStates
    BY <1>1, ReaderFrame DEF LcIInv, LcTyped
  <1> QED BY <1>1, <1>2, QuietKeeps

\* A reader opens the log.
LEMMA FollowOpenKeeps ==
  ASSUME LcIInv, FollowOpen
  PROVE  LcIInv'
  <1>1. /\ UNCHANGED <<lcDir, lcStage, lcStranded, lcIno, lcOld, lcWritten, lcFd, lcM, lcCause, lcTorn>>
        /\ lcDir[0] # 0 /\ lcF' = [FRest EXCEPT !.ino = lcDir[0]]
    BY DEF FollowOpen, lcFiles, lcPayload
  <1>2. lcDir[0] \in LogInodes /\ lcOld \subseteq LogInodes
    BY <1>1, LogTypes, LogSorts DEF LcIInv, LcTyped, LcTypeOK, DirTyped
  <1>3. /\ lcF' \in FStates /\ lcF'.ino = lcDir[0] /\ lcF'.last = 0 /\ ~lcF'.back
    BY <1>1, <1>2 DEF FRest, FStates
  <1>4. \A p \in 1..Len(lcIno[lcDir[0]]) : lcIno[lcDir[0]][p] > 0
    <2>1. \A p \in 1..Len(lcIno[lcDir[0]]) : lcIno[lcDir[0]][p] \in Writes
      BY <1>2, LogTypes DEF LcIInv
    <2>2. \A w \in Writes : w > 0
      BY LogsAssumption DEF Writes
    <2> QED BY <2>1, <2>2
  <1>5. ReaderOK'
    <2>1. 0 <= lcWritten
      BY LogTypes DEF LcIInv
    <2> QED BY <1>1, <1>3, <1>4, <2>1 DEF ReaderOK
  <1> QED BY <1>1, <1>2, <1>3, <1>5, QuietKeeps

\* The next write is read.
LEMMA FollowReadKeeps ==
  ASSUME LcIInv, FollowRead
  PROVE  LcIInv'
  <1>1. PICK i : i = lcF.ino
    OBVIOUS
  <1>2. PICK s : s = lcIno[i]
    OBVIOUS
  <1>3. PICK w : w = s[lcF.off + 1]
    OBVIOUS
  <1>4. PICK h : h = (IF lcF.follow /\ w % 2 = 1 THEN w ELSE 0)
    OBVIOUS
  <1>5. PICK l : l = Max({lcF.last, w})
    OBVIOUS
  <1>6. PICK b : b = (lcF.back \/ w <= lcF.last)
    OBVIOUS
  <1>7. PICK a : a = (lcF.amid \/ HalfShifted(i))
    OBVIOUS
  <1>8. /\ UNCHANGED <<lcDir, lcStage, lcStranded, lcIno, lcOld, lcWritten, lcFd, lcM, lcCause, lcTorn>>
        /\ i # 0 /\ lcF.off < Len(s)
        /\ lcF' = [lcF EXCEPT !.off = lcF.off + 1, !.held = h, !.last = l, !.back = b, !.amid = a]
    BY <1>1, <1>2, <1>3, <1>4, <1>5, <1>6, <1>7 DEF FollowRead, lcFiles, lcPayload
  <1>9. lcF \in FStates /\ i \in LogInodes /\ lcOld \subseteq LogInodes /\ lcF.off \in Nat
        /\ lcF.last \in {0} \cup Writes
    BY <1>1, <1>8, LogTypes DEF LcIInv, LcTyped, LcTypeOK, FStates
  <1>10. /\ s \in Seq(Writes) /\ Len(s) \in Nat
         /\ \A p \in 1..Len(s) : s[p] \in Writes /\ s[p] \in Nat /\ s[p] <= lcWritten
    BY <1>2, <1>9, LogTypes DEF LcIInv, WrittenOK, Units
  <1>11. lcF.off + 1 \in 1..Len(s)
    BY <1>8, <1>9, <1>10
  <1>12. w \in Writes /\ w \in Nat /\ w <= lcWritten
    BY <1>3, <1>10, <1>11
  <1>13. l \in {lcF.last, w} /\ l >= lcF.last /\ l >= w
    <2>1. lcF.last \in Nat /\ w \in Nat
      BY <1>9, <1>12, LogSorts
    <2>2. \E x \in {lcF.last, w} : \A y \in {lcF.last, w} : x >= y
      BY <2>1
    <2> QED BY <1>5, <2>2 DEF Max
  <1>14. h \in {0} \cup Writes /\ b \in BOOLEAN /\ a \in BOOLEAN
    BY <1>4, <1>6, <1>7, <1>12
  <1>15. /\ lcF' \in FStates /\ lcF'.ino = i /\ lcF'.off = lcF.off + 1 /\ lcF'.last = l
         /\ lcF'.back = b /\ lcF'.amid = a
    <2>1. PICK o \in Nat : o = lcF.off + 1
      BY <1>9
    <2>2. l \in {0} \cup Writes
      BY <1>9, <1>12, <1>13
    <2>3. lcF' = [lcF EXCEPT !.off = o, !.held = h, !.last = l, !.back = b, !.amid = a]
      BY <1>8, <2>1
    <2>4. /\ lcF' \in FStates /\ lcF'.ino = i /\ lcF'.off = o /\ lcF'.last = l
          /\ lcF'.back = b /\ lcF'.amid = a
      BY <1>1, <1>9, <1>14, <2>2, <2>3 DEF FStates
    <2> QED BY <2>1, <2>4
  <1>16. l <= lcWritten
    BY <1>12, <1>13 DEF LcIInv, ReaderOK
  <1>17. ASSUME ~a
         PROVE  ~b /\ l = w /\ \A p \in 1..Len(s) : p > lcF.off + 1 => s[p] > l
    <2>1. ~lcF.amid /\ ~HalfShifted(i)
      BY <1>7, <1>17
    <2>2. w > lcF.last /\ ~lcF.back
      <3>1. ~lcF.back /\ \A p \in 1..Len(s) : p > lcF.off => s[p] > lcF.last
        BY <1>1, <1>2, <1>8, <2>1 DEF LcIInv, ReaderOK
      <3> QED BY <1>3, <1>9, <1>11, <3>1
    <2>3. l = w /\ ~b
      <3>1. lcF.last \in Nat
        BY <1>9, LogSorts
      <3>2. l = w /\ ~(w <= lcF.last)
        BY <1>12, <1>13, <2>2, <3>1
      <3> QED BY <1>6, <2>2, <3>2
    <2>4. Rising(s)
      <3>1. IsLog(i) /\ i \notin lcTorn
        BY <1>1, <2>1 DEF IsLog, HalfShifted
      <3> QED BY <1>2, <1>9, <2>1, <3>1 DEF LcIInv, OrderOK
    <2>5. \A p \in 1..Len(s) : p > lcF.off + 1 => s[p] > w
      <3> SUFFICES ASSUME NEW p \in 1..Len(s), p > lcF.off + 1 PROVE s[p] > w
        OBVIOUS
      <3>1. s[lcF.off + 1] < s[p]
        BY <1>11, <2>4 DEF Rising
      <3> QED BY <1>3, <1>10, <1>12, <3>1
    <2> QED BY <2>3, <2>5
  <1>18. ReaderOK'
    BY <1>2, <1>8, <1>15, <1>16, <1>17 DEF ReaderOK
  <1> QED BY <1>1, <1>8, <1>9, <1>15, <1>18, QuietKeeps

\* The reader is at the end.
LEMMA FollowEOFKeeps ==
  ASSUME LcIInv, FollowEOF
  PROVE  LcIInv'
  <1>1. /\ UNCHANGED <<lcDir, lcStage, lcStranded, lcIno, lcOld, lcWritten, lcFd, lcM, lcCause, lcTorn>>
        /\ lcF' = [lcF EXCEPT !.follow = TRUE, !.held = 0]
    BY DEF FollowEOF, lcFiles, lcPayload
  <1>2. lcF \in FStates /\ lcOld \subseteq LogInodes
    BY DEF LcIInv, LcTyped, LcTypeOK
  <1>3. /\ lcF' \in FStates /\ lcF'.ino = lcF.ino /\ lcF'.off = lcF.off /\ lcF'.last = lcF.last
        /\ lcF'.back = lcF.back /\ lcF'.amid = lcF.amid
    BY <1>1, <1>2 DEF FStates
  <1>4. ReaderOK'
    BY <1>1, <1>3 DEF LcIInv, ReaderOK
  <1> QED BY <1>1, <1>2, <1>3, <1>4, QuietKeeps

\* A generation opens the log, or creates it.
LEMMA OpenLogKeeps ==
  ASSUME LcIInv, OpenLog
  PROVE  LcIInv'
  <1>1. UNCHANGED <<lcStage, lcStranded, lcOld, lcWritten, lcM, lcCause, lcF>>
    BY DEF OpenLog
  <1>2. DirTyped /\ LcTyped /\ 0 \in LogNames \ {Gz} /\ lcOld \subseteq LogInodes /\ lcF \in FStates
    BY LogTypes, LogSorts DEF LcIInv, LcTyped, LcTypeOK
  <1>3. CASE lcFd' = lcDir[0] /\ UNCHANGED <<lcDir, lcIno, lcTorn>>
    <2>1. ReaderOK'
      BY <1>1, <1>3, ReaderFrame
    <2> QED BY <1>1, <1>2, <1>3, <2>1, QuietKeeps
  <1>4. CASE /\ lcDir[0] = 0
             /\ \E i \in Unreferenced :
                  /\ lcFd' = i /\ lcDir' = [lcDir EXCEPT ![0] = i]
                  /\ lcIno' = [lcIno EXCEPT ![i] = <<>>] /\ lcTorn' = lcTorn \ {i}
    <2>1. PICK i \in Unreferenced :
            /\ lcFd' = i /\ lcDir' = [lcDir EXCEPT ![0] = i]
            /\ lcIno' = [lcIno EXCEPT ![i] = <<>>] /\ lcTorn' = lcTorn \ {i}
      BY <1>4
    <2>2. i \in LogInodes /\ ~Referenced(i) /\ i # 0
      BY LogSorts DEF Unreferenced
    <2>3. /\ \A k \in LogNames : lcDir[k] # i
          /\ \A m \in Maintainers : lcStage[m] # i /\ lcM[m].ino # i /\ lcM[m].gz # i
          /\ i \notin lcStranded /\ lcFd # i /\ lcF.ino # i
      BY <2>2 DEF Referenced, Named
    <2>4. /\ lcDir' \in [LogNames -> {0} \cup LogInodes] /\ lcDir'[0] = i
          /\ \A k \in LogNames \ {0} : lcDir'[k] = lcDir[k]
      BY <1>2, <2>1, <2>2 DEF DirTyped
    <2>5. /\ lcIno' \in [LogInodes -> Seq(Writes)] /\ lcIno'[i] = <<>>
          /\ \A j \in LogInodes \ {i} : lcIno'[j] = lcIno[j]
      BY <1>2, <2>1, <2>2, LogTypes
    <2>6. \A j \in LogInodes : j # i => Units(j)' = Units(j)
      BY <2>5 DEF Units
    <2>7. Units(i)' = {}
      BY <2>2, <2>5 DEF Units
    <2>8. LcTyped'
      <3>1. DirTyped'
        BY <1>2, <2>3, <2>4 DEF DirTyped
      <3> QED BY <1>1, <1>2, <2>1, <2>2, <2>5, <3>1 DEF LcTyped, LcTypeOK, DirTyped
    <2>9. CallsOK' /\ StageOK' /\ WrittenOK'
      <3>1. CallsOK'
        BY <1>1 DEF LcIInv, CallsOK
      <3>2. StageOK'
        BY <1>1, <2>3, <2>4 DEF LcIInv, StageOK
      <3>3. WrittenOK'
        BY <1>1, <2>6, <2>7 DEF LcIInv, WrittenOK
      <3> QED BY <3>1, <3>2, <3>3
    <2>10. ASSUME NEW j \in LogInodes
           PROVE  (IsLog(j)' => IsLog(j) \/ j = i) /\ (IsGz(j)' => IsGz(j) /\ j # i)
      <3>1. IsLog(j)' => IsLog(j) \/ j = i
        BY <1>1, <2>1, <2>4 DEF IsLog
      <3>2. lcDir'[Gz] = lcDir[Gz] /\ Gz \in LogNames
        BY <2>4, LogSorts
      <3>3. IsGz(j)' => IsGz(j) /\ j # i
        BY <1>1, <2>3, <3>2 DEF IsGz
      <3> QED BY <3>1, <3>3
    <2>11. KindsOK'
      BY <2>10 DEF LcIInv, KindsOK
    <2>12. \A m \in Maintainers, j \in LogInodes :
             (Shifting(m, j)' <=> Shifting(m, j)) /\ (Shifting(m, j) => j # i)
      BY <1>1, <2>3 DEF Shifting
    <2>13. OrderOK'
      <3> SUFFICES ASSUME NEW j \in LogInodes, IsLog(j)', j \notin lcTorn'
                   PROVE  /\ (HalfShifted(j) \/ Rising(lcIno[j]))'
                          /\ \A o \in Maintainers : Shifting(o, j)' =>
                               ShiftOK(o, lcIno[j])' /\ \A q \in Maintainers : Shifting(q, j)' => q = o
        BY DEF OrderOK
      <3>1. CASE j = i
        <4>1. (Rising(lcIno[i]))'
          BY <2>5 DEF Rising
        <4> QED BY <2>12, <3>1, <4>1
      <3>2. CASE j # i
        <4>1. IsLog(j) /\ j \notin lcTorn /\ lcIno'[j] = lcIno[j]
          BY <2>1, <2>5, <2>10, <3>2
        <4>2. HalfShifted(j) => HalfShifted(j)'
          BY <2>12, <4>1 DEF HalfShifted
        <4>3. (HalfShifted(j) \/ Rising(lcIno[j]))'
          BY <4>1, <4>2 DEF LcIInv, OrderOK, Rising
        <4>4. ASSUME NEW o \in Maintainers, Shifting(o, j)'
              PROVE  ShiftOK(o, lcIno[j])' /\ \A q \in Maintainers : Shifting(q, j)' => q = o
          <5>1. Shifting(o, j) /\ lcM'[o] = lcM[o]
            BY <1>1, <2>12, <4>4
          <5>2. ShiftOK(o, lcIno[j]) /\ \A q \in Maintainers : Shifting(q, j) => q = o
            BY <4>1, <5>1 DEF LcIInv, OrderOK
          <5>3. \A w \in Writes : Blamed(w) => Blamed(w)'
            BY <1>1 DEF Blamed
          <5>4. ShiftOK(o, lcIno[j])'
            BY <4>1, <5>1, <5>2, <5>3, ShiftFrame DEF LcIInv
          <5> QED BY <2>12, <5>2, <5>4
        <4> QED BY <4>3, <4>4
      <3> QED BY <3>1, <3>2
    <2>14. TornOK'
      <3> SUFFICES ASSUME NEW j \in lcTorn', NEW o \in Maintainers, Shifting(o, j)'
                   PROVE  Len(lcIno'[j]) >= MaxBytes /\ \A w \in Units(j)' : Blamed(w)'
        BY DEF TornOK
      <3>1. j \in LogInodes /\ j # i /\ j \in lcTorn /\ Shifting(o, j)
        BY <2>1, <2>8, <2>12 DEF LcTyped, LcTypeOK
      <3> QED BY <1>1, <2>5, <2>6, <3>1 DEF LcIInv, TornOK, Blamed
    <2>15. \A w \in Writes : Blamed(w) => Blamed(w)'
      BY <1>1 DEF Blamed
    <2>16. KeptOK'
      <3>1. ASSUME NEW j \in LogInodes, Safe(j) PROVE j # i /\ Safe(j)'
        <4>1. j # 0
          BY LogSorts
        <4>2. \A k \in LogNames : lcDir[k] = j => lcDir'[k] = j
          BY <1>4, <2>4, <4>1
        <4>3. j # i
          BY <2>3, <3>1 DEF Safe
        <4> QED BY <1>1, <3>1, <4>2, <4>3 DEF Safe
      <3> QED BY <1>1, <2>6, <2>15, <3>1, KeptStep
    <2>17. CopyOK'
      <3>1. \A m \in Maintainers, j \in LogInodes : lcM[m].ino = j \/ lcM[m].gz = j => Units(j)' = Units(j)
        BY <2>3, <2>6
      <3> QED BY <1>1, <2>15, <3>1, CopyFrame
    <2>18. ReaderOK'
      <3>1. lcF.ino # 0 => lcIno'[lcF.ino] = lcIno[lcF.ino]
        BY <2>3, <2>5 DEF LcIInv, LcTyped, LcTypeOK
      <3> QED BY <1>1, <3>1, ReaderFrame
    <2> QED BY <2>8, <2>9, <2>11, <2>13, <2>14, <2>16, <2>17, <2>18 DEF LcIInv
  <1> QED BY <1>3, <1>4 DEF OpenLog

\* The payload appends: what may go unseen is blamed.
LEMMA LogAppendKeeps ==
  ASSUME LcIInv, LogAppend
  PROVE  LcIInv'
  <1>1. PICK f : f = lcFd
    OBVIOUS
  <1>2. PICK w : w = lcWritten + 1
    OBVIOUS
  <1>3. PICK s : s = lcIno[f]
    OBVIOUS
  <1>4. PICK t : t = Append(s, w)
    OBVIOUS
  <1>5. /\ f # 0 /\ lcWritten < MaxWrites /\ lcWritten' = w /\ lcIno' = [lcIno EXCEPT ![f] = t]
        /\ lcOld' = lcOld \ {f}
        /\ IF InWindow(f) \/ ~Named(f) THEN Blame({w}, "window") ELSE UNCHANGED lcCause
        /\ UNCHANGED <<lcStranded, lcDir, lcStage, lcFd, lcM, lcTorn, lcF>>
    BY <1>1, <1>2, <1>3, <1>4 DEF LogAppend
  <1>6. LcTyped /\ f \in LogInodes /\ IsLog(f) /\ lcOld \subseteq LogInodes /\ lcF \in FStates
    BY <1>1, <1>5 DEF LcIInv, LcTyped, LcTypeOK, IsLog
  <1>7. lcWritten \in Nat /\ w \in Writes /\ w \in Nat /\ w > lcWritten
    BY <1>2, <1>5, <1>6, LogTypes, LogsAssumption DEF Writes
  <1>8. /\ s \in Seq(Writes) /\ Len(s) \in Nat
        /\ \A p \in 1..Len(s) : s[p] \in Writes /\ s[p] \in Nat /\ s[p] <= lcWritten /\ s[p] < w
    <2>1. s \in Seq(Writes) /\ Len(s) \in Nat /\ \A p \in 1..Len(s) : s[p] \in Writes /\ s[p] \in Nat
      BY <1>3, <1>6, LogTypes
    <2>2. \A p \in 1..Len(s) : s[p] <= lcWritten
      BY <1>3, <1>6 DEF LcIInv, WrittenOK, Units
    <2> QED BY <1>7, <2>1, <2>2
  <1>9. /\ t \in Seq(Writes) /\ Len(t) = Len(s) + 1 /\ t[Len(s) + 1] = w
        /\ \A p \in 1..Len(s) : t[p] = s[p]
    BY <1>4, <1>7, <1>8, AppendProperties
  <1>10. \A p \in 1..Len(t) : p \in 1..Len(s) \/ (p = Len(s) + 1 /\ t[p] = w)
    BY <1>8, <1>9
  <1>11. /\ lcIno' \in [LogInodes -> Seq(Writes)] /\ lcIno'[f] = t
         /\ \A j \in LogInodes \ {f} : lcIno'[j] = lcIno[j]
    BY <1>5, <1>6, <1>9, LogTypes
  <1>12. \A j \in LogInodes : j # f => Units(j)' = Units(j)
    BY <1>11 DEF Units
  <1>13. Units(f)' = Units(f) \cup {w}
    <2>1. Units(f) = {s[p] : p \in 1..Len(s)} /\ Units(f)' = {t[p] : p \in 1..Len(t)}
      BY <1>3, <1>11 DEF Units
    <2>2. Len(s) + 1 \in 1..Len(t) /\ \A p \in 1..Len(s) : p \in 1..Len(t)
      BY <1>8, <1>9
    <2>3. \A x : x \in Units(f)' <=> x \in Units(f) \cup {w}
      BY <1>9, <1>10, <2>1, <2>2
    <2> QED BY <2>3
  <1>14. /\ lcCause' \in [Writes -> Causes] /\ \A x \in Writes : Blamed(x) => Blamed(x)'
         /\ InWindow(f) \/ ~Named(f) => Blamed(w)'
    <2>1. CASE InWindow(f) \/ ~Named(f)
      <3>1. Blame({w}, "window") /\ "window" \in Causes \ {"none"}
        BY <1>5, <2>1 DEF Causes
      <3> QED BY <1>6, <1>7, <3>1, BlameGrows
    <2>2. CASE ~(InWindow(f) \/ ~Named(f))
      BY <1>5, <1>6, <2>2, SameCauses
    <2> QED BY <2>1, <2>2
  <1>15. LcTyped'
    BY <1>5, <1>6, <1>7, <1>11, <1>14 DEF LcTyped, LcTypeOK
  <1>16. CallsOK' /\ StageOK' /\ KindsOK'
    <2>1. CallsOK' /\ StageOK'
      BY <1>5 DEF LcIInv, CallsOK, StageOK
    <2>2. \A j \in LogInodes : (IsLog(j)' => IsLog(j)) /\ (IsGz(j)' => IsGz(j))
      BY <1>5 DEF IsLog, IsGz
    <2> QED BY <2>1, <2>2, KindsFrame
  <1>17. WrittenOK'
    <2>1. ASSUME NEW j \in LogInodes, NEW x \in Units(j)' PROVE x <= w
      <3>1. x \in Units(j) \/ x = w
        BY <1>12, <1>13, <2>1
      <3>2. CASE x \in Units(j)
        <4>1. x <= lcWritten /\ x \in Writes
          BY <1>6, <3>2, LogTypes DEF LcIInv, WrittenOK
        <4> QED BY <1>7, <4>1, LogSorts
      <3> QED BY <1>7, <3>1, <3>2
    <2> QED BY <1>5, <2>1 DEF WrittenOK
  <1>18. \A m \in Maintainers, j \in LogInodes :
           (Shifting(m, j)' <=> Shifting(m, j)) /\ (Shifting(m, f) => InWindow(f))
    BY <1>5 DEF Shifting, InWindow
  <1>19. OrderOK'
    <2> SUFFICES ASSUME NEW j \in LogInodes, IsLog(j)', j \notin lcTorn
                 PROVE  /\ (HalfShifted(j) \/ Rising(lcIno[j]))'
                        /\ \A o \in Maintainers : Shifting(o, j)' =>
                             ShiftOK(o, lcIno[j])' /\ \A q \in Maintainers : Shifting(q, j)' => q = o
      BY <1>5 DEF OrderOK
    <2>1. IsLog(j)
      BY <1>5 DEF IsLog
    <2>2. HalfShifted(j)' <=> HalfShifted(j)
      BY <1>5, <1>18 DEF HalfShifted
    <2>3. HalfShifted(j) \/ Rising(lcIno[j])
      BY <2>1 DEF LcIInv, OrderOK
    <2>4. CASE j # f
      <3>1. lcIno'[j] = lcIno[j]
        BY <1>11, <2>4
      <3>2. ASSUME NEW o \in Maintainers, Shifting(o, j)'
            PROVE  ShiftOK(o, lcIno[j])' /\ \A q \in Maintainers : Shifting(q, j)' => q = o
        <4>1. Shifting(o, j) /\ lcM'[o] = lcM[o]
          BY <1>5, <1>18, <3>2
        <4>2. ShiftOK(o, lcIno[j]) /\ \A q \in Maintainers : Shifting(q, j) => q = o
          BY <2>1, <4>1 DEF LcIInv, OrderOK
        <4>3. ShiftOK(o, lcIno[j])'
          BY <1>14, <3>1, <4>1, <4>2, ShiftFrame DEF LcIInv
        <4> QED BY <1>18, <4>2, <4>3
      <3>3. (HalfShifted(j) \/ Rising(lcIno[j]))'
        BY <2>2, <2>3, <3>1 DEF Rising
      <3> QED BY <3>2, <3>3
    <2>5. CASE j = f
      <3>1. Rising(s) => Rising(t)
        <4> SUFFICES ASSUME Rising(s), NEW p \in 1..Len(t), NEW q \in 1..Len(t), p < q
                     PROVE  t[p] < t[q]
          BY DEF Rising
        <4>1. p \in 1..Len(s)
          BY <1>8, <1>9
        <4>2. CASE q \in 1..Len(s)
          BY <1>9, <4>1, <4>2 DEF Rising
        <4>3. CASE q = Len(s) + 1
          BY <1>8, <1>9, <4>1, <4>3
        <4> QED BY <1>10, <4>2, <4>3
      <3>2. (HalfShifted(f) \/ Rising(lcIno[f]))'
        BY <1>3, <1>11, <2>2, <2>3, <2>5, <3>1 DEF Rising
      <3>3. ASSUME NEW o \in Maintainers, Shifting(o, f)'
            PROVE  ShiftOK(o, t)' /\ \A q \in Maintainers : Shifting(q, f)' => q = o
        <4>1. Shifting(o, f) /\ lcM'[o] = lcM[o] /\ Blamed(w)'
          BY <1>5, <1>6, <1>14, <1>18, <3>3
        <4>2. ShiftOK(o, s) /\ \A q \in Maintainers : Shifting(q, f) => q = o
          BY <1>3, <2>1, <2>5, <4>1 DEF LcIInv, OrderOK
        <4>3. PICK d \in Nat : d = lcM[o].name
          BY <1>6, LogTypes DEF MStates
        <4>4. PICK k \in Nat : k = lcM[o].n /\ k <= MaxBytes
          BY <1>6, <4>1, LogTypes, LogSorts DEF MStates, LcIInv, CallsOK, CallOK, Shifting, InShift
        <4>5. /\ d + MaxBytes <= Len(s)
              /\ \A p, q \in 1..Len(s) : p < q /\ (q <= k \/ p > k \/ q > k + d) => s[p] < s[q]
              /\ \A p \in (k + 1)..(k + d) : IF p <= d THEN Blamed(s[p]) ELSE s[p - d] = s[p]
              /\ \A p \in (d + MaxBytes + 1)..Len(s) : Blamed(s[p])
          BY <4>2, <4>3, <4>4 DEF ShiftOK
        <4>6. d + MaxBytes <= Len(t)
          BY <1>8, <1>9, <4>5, LogSorts
        <4>7. \A p, q \in 1..Len(t) : p < q /\ (q <= k \/ p > k \/ q > k + d) => t[p] < t[q]
          <5> SUFFICES ASSUME NEW p \in 1..Len(t), NEW q \in 1..Len(t), p < q,
                              q <= k \/ p > k \/ q > k + d
                       PROVE  t[p] < t[q]
            OBVIOUS
          <5>1. p \in 1..Len(s)
            BY <1>8, <1>9
          <5>2. CASE q \in 1..Len(s)
            BY <1>9, <4>5, <5>1, <5>2
          <5>3. CASE q = Len(s) + 1
            BY <1>8, <1>9, <5>1, <5>3
          <5> QED BY <1>10, <5>2, <5>3
        <4>8. \A p \in 1..Len(s) : Blamed(s[p]) => Blamed(t[p])'
          BY <1>8, <1>9, <1>14
        <4>9. \A p \in (k + 1)..(k + d) : IF p <= d THEN Blamed(t[p])' ELSE t[p - d] = t[p]
          <5> SUFFICES ASSUME NEW p \in (k + 1)..(k + d)
                       PROVE  IF p <= d THEN Blamed(t[p])' ELSE t[p - d] = t[p]
            OBVIOUS
          <5>1. p \in 1..Len(s)
            <6>1. MaxBytes \in Nat /\ d + MaxBytes <= Len(s) /\ k <= MaxBytes /\ Len(s) \in Nat
              BY <1>8, <4>4, <4>5, LogSorts
            <6> QED BY <6>1
          <5>2. CASE p <= d
            BY <4>5, <4>8, <5>1, <5>2
          <5>3. CASE p > d
            <6>1. p - d \in 1..Len(s) /\ s[p - d] = s[p]
              BY <1>8, <4>5, <5>1, <5>3
            <6> QED BY <1>9, <5>1, <5>3, <6>1
          <5> QED BY <5>2, <5>3
        <4>10. \A p \in (d + MaxBytes + 1)..Len(t) : Blamed(t[p])'
          <5> SUFFICES ASSUME NEW p \in (d + MaxBytes + 1)..Len(t) PROVE Blamed(t[p])'
            OBVIOUS
          <5>1. p \in 1..Len(t)
            BY <1>8, <1>9, LogSorts
          <5>2. CASE p = Len(s) + 1
            BY <1>9, <4>1, <5>2
          <5>3. CASE p \in 1..Len(s)
            BY <1>8, <4>5, <4>8, <5>3, LogSorts
          <5> QED BY <1>10, <5>1, <5>2, <5>3
        <4>11. ShiftOK(o, t)'
          <5>1. lcM'[o].name = d /\ lcM'[o].n = k
            BY <4>1, <4>3, <4>4
          <5> QED BY <4>6, <4>7, <4>9, <4>10, <5>1 DEF ShiftOK
        <4> QED BY <1>6, <1>18, <4>2, <4>11
      <3> QED BY <1>11, <2>5, <3>2, <3>3
    <2> QED BY <2>4, <2>5
  <1>20. TornOK'
    <2> SUFFICES ASSUME NEW j \in lcTorn, NEW o \in Maintainers, Shifting(o, j)'
                 PROVE  Len(lcIno'[j]) >= MaxBytes /\ \A x \in Units(j)' : Blamed(x)'
      BY <1>5 DEF TornOK
    <2>1. j \in LogInodes /\ Shifting(o, j)
      BY <1>6, <1>18 DEF LcTyped, LcTypeOK
    <2>2. Len(lcIno[j]) >= MaxBytes /\ \A x \in Units(j) : Blamed(x) /\ x \in Writes
      BY <1>6, <2>1, LogTypes DEF LcIInv, TornOK
    <2>3. CASE j # f
      BY <1>11, <1>12, <1>14, <2>1, <2>2, <2>3
    <2>4. CASE j = f
      <3>1. Blamed(w)'
        BY <1>14, <1>18, <2>1, <2>4
      <3>2. Len(t) >= MaxBytes
        BY <1>3, <1>8, <1>9, <2>2, <2>4, LogSorts
      <3> QED BY <1>11, <1>13, <1>14, <2>2, <2>4, <3>1, <3>2
    <2> QED BY <2>3, <2>4
  <1>21. \A j \in LogInodes : Units(j) \subseteq Units(j)'
    BY <1>12, <1>13
  <1>22. KeptOK'
    <2> SUFFICES ASSUME NEW x \in 1..w
                 PROVE  Blamed(x)' \/ \E i \in LogInodes : Safe(i)' /\ x \in Units(i)'
      BY <1>5 DEF KeptOK
    <2>1. \A j \in LogInodes : Safe(j)' <=> Safe(j)
      BY <1>5 DEF Safe
    <2>2. CASE x = w
      <3>1. ASSUME ~InWindow(f), Named(f) PROVE Safe(f)
        <4>1. \A m \in Maintainers : lcStage[m] = f /\ lcM[m].pc = "unstage" => lcM[m].ino = f
          BY DEF LcIInv, CallsOK, CallOK
        <4> QED BY <3>1, <4>1 DEF Safe, Named, InWindow
      <3> QED BY <1>6, <1>13, <1>14, <2>1, <2>2, <3>1
    <2>3. CASE x # w
      <3>1. x \in 1..lcWritten /\ x \in Writes
        <4>1. x \in 1..lcWritten
          BY <1>2, <1>7, <2>3
        <4> QED BY <1>6, <4>1, LogTypes
      <3>2. Blamed(x) \/ \E i \in LogInodes : Safe(i) /\ x \in Units(i)
        BY <3>1 DEF LcIInv, KeptOK
      <3> QED BY <1>14, <1>21, <2>1, <3>1, <3>2
    <2> QED BY <2>2, <2>3
  <1>23. CopyOK'
    <2>1. ASSUME NEW m \in Maintainers, NEW i \in LogInodes, NEW g \in LogInodes,
                 lcM[m].pc = "remove", lcM[m].ino = i, lcM[m].gz = g
          PROVE  /\ \A x \in Units(i)' : x \in Units(i) \/ Blamed(x)'
                 /\ \A x \in Units(g) : x \in Units(g)' \/ Blamed(x)'
      <3>1. i = f => Blamed(w)'
        BY <1>14, <2>1 DEF InWindow
      <3> QED BY <1>12, <1>13, <1>21, <3>1
    <2> QED BY <1>5, <1>14, <2>1, CopyFrame
  <1>24. ReaderOK'
    <2>1. lcF.last <= lcWritten /\ (lcF.back => lcF.amid) /\ lcF.last \in Nat /\ lcF.off \in Nat
      BY <1>6, LogSorts DEF LcIInv, ReaderOK, FStates
    <2>2. lcF.last <= w /\ w > lcF.last
      BY <1>7, <2>1
    <2>3. CASE lcF.ino = f
      <3>1. ~lcF.amid => \A p \in 1..Len(s) : p > lcF.off => s[p] > lcF.last
        BY <1>3, <1>5, <2>3 DEF LcIInv, ReaderOK
      <3>2. ~lcF.amid => \A p \in 1..Len(t) : p > lcF.off => t[p] > lcF.last
        BY <1>9, <1>10, <2>2, <3>1
      <3> QED BY <1>5, <1>11, <2>1, <2>2, <2>3, <3>2 DEF ReaderOK
    <2>4. CASE lcF.ino # f
      <3>1. lcF.ino # 0 => lcIno'[lcF.ino] = lcIno[lcF.ino]
        BY <1>6, <1>11, <2>4 DEF FStates
      <3> QED BY <1>5, <2>1, <2>2, <3>1 DEF LcIInv, ReaderOK
    <2> QED BY <2>3, <2>4
  <1> QED BY <1>15, <1>16, <1>17, <1>19, <1>20, <1>22, <1>23, <1>24 DEF LcIInv

-----------------------------------------------------------------------------
(* Container logs: the theorems                                            *)

\* There is no log yet.
LEMMA LcInitKeeps ==
  ASSUME LcInit
  PROVE  LcIInv
  <1>1. /\ \A n \in LogNames : lcDir[n] = 0
        /\ \A m \in Maintainers : lcStage[m] = 0 /\ lcM[m] = MRest
        /\ \A i \in LogInodes : lcIno[i] = <<>> /\ Units(i) = {} /\ i # 0
        /\ lcStranded = {} /\ lcTorn = {} /\ lcFd = 0 /\ lcWritten = 0 /\ lcF = FRest
    <2>1. \A i \in LogInodes : lcIno[i] = <<>> /\ i # 0
      BY LogSorts DEF LcInit
    <2> QED BY <2>1 DEF LcInit, Units
  <1>2. FRest \in FStates /\ FRest.ino = 0 /\ FRest.last = 0 /\ ~FRest.back
    BY DEF FRest, FStates
  <1>3. LcTyped
    <2>1. lcIno \in [LogInodes -> Seq(Writes)] /\ lcCause \in [Writes -> Causes]
          /\ lcM \in [Maintainers -> MStates]
      BY AtRest DEF LcInit, Causes
    <2>2. lcDir \in [LogNames -> {0} \cup LogInodes] /\ lcStage \in [Maintainers -> {0} \cup LogInodes]
          /\ lcOld = {}
      BY DEF LcInit
    <2> QED BY <1>1, <1>2, <2>1, <2>2 DEF LcTyped, LcTypeOK
  <1>4. CallsOK /\ StageOK /\ TornOK /\ WrittenOK /\ CopyOK
    BY <1>1, AtRest DEF CallsOK, StageOK, TornOK, WrittenOK, CopyOK
  <1>5. \A i \in LogInodes : ~IsLog(i) /\ ~IsGz(i)
    BY <1>1, <1>2, AtRest, LogSorts DEF IsLog, IsGz
  <1>6. KindsOK /\ OrderOK
    BY <1>5 DEF KindsOK, OrderOK
  <1>7. KeptOK
    BY <1>1 DEF KeptOK
  <1>8. ReaderOK
    BY <1>1, <1>2 DEF ReaderOK
  <1> QED BY <1>3, <1>4, <1>6, <1>7, <1>8 DEF LcIInv

\* One lemma for each action.
LEMMA LcNextKeeps ==
  ASSUME LcIInv, [LcNext]_lcVars
  PROVE  LcIInv'
  <1>1. ASSUME NEW m \in Maintainers, MaintainerStep(m) PROVE LcIInv'
    BY <1>1, RotateOpenKeeps, RotateShiftKeeps, RotateTruncateKeeps, ArchiveStartKeeps,
       ArchiveInspectKeeps, ArchiveMoveKeeps, ExpireStageKeeps, ExpireCheckKeeps,
       ExpireRemoveKeeps, PruneInspectKeeps, CompressOpenKeeps, CompressCreateKeeps,
       CompressCopyKeeps, CompressVerifyKeeps, CompressRemoveKeeps, LcCrashKeeps
    DEF MaintainerStep
  <1>2. CASE LcNext
    BY <1>1, <1>2, OpenLogKeeps, LogAppendKeeps, LogAgeKeeps, FollowOpenKeeps, FollowReadKeeps,
       FollowEOFKeeps DEF LcNext
  <1>3. CASE UNCHANGED lcVars
    <2>1. UNCHANGED <<lcDir, lcStage, lcStranded, lcIno, lcOld, lcWritten, lcFd, lcM, lcCause, lcTorn, lcF>>
      BY <1>3 DEF lcVars
    <2>2. ReaderOK' /\ lcF \in FStates /\ lcOld \subseteq LogInodes
      BY <2>1, ReaderFrame DEF LcIInv, LcTyped, LcTypeOK
    <2> QED BY <2>1, <2>2, QuietKeeps
  <1> QED BY <1>2, <1>3

\* What the invariant says to the container and its reader.
LEMMA LcSafe ==
  ASSUME LcIInv
  PROVE  LogTextAccountedFor
  <1>1. LcTypeOK /\ FollowerNeverGoesBack
    BY DEF LcIInv, LcTyped, ReaderOK, FollowerNeverGoesBack
  <1>2. LossHasACause
    <2>1. \A i \in LogInodes : Safe(i) => Named(i)
      BY DEF Safe, Named
    <2> QED BY <2>1 DEF LcIInv, KeptOK, Blamed, LossHasACause
  <1>3. RotationKeepsOrder
    <2> SUFFICES ASSUME lcDir[0] # 0, ~HalfShifted(lcDir[0]), NEW k \in 2..Len(lcIno[lcDir[0]])
                 PROVE  lcIno[lcDir[0]][k - 1] < lcIno[lcDir[0]][k]
      BY DEF RotationKeepsOrder
    <2>1. lcDir[0] \in LogInodes /\ IsLog(lcDir[0]) /\ Len(lcIno[lcDir[0]]) \in Nat
      BY LogTypes, LogSorts DEF LcIInv, DirTyped, IsLog
    <2>2. Rising(lcIno[lcDir[0]])
      BY <2>1 DEF LcIInv, OrderOK, HalfShifted
    <2>3. k - 1 \in 1..Len(lcIno[lcDir[0]]) /\ k \in 1..Len(lcIno[lcDir[0]]) /\ k - 1 < k
      BY <2>1
    <2> QED BY <2>2, <2>3 DEF Rising
  <1> QED BY <1>1, <1>2, <1>3 DEF LogTextAccountedFor

(* LcIInv holds in every reachable state, for any number of maintainers,   *)
(* writes, calls and crashes.                                              *)
THEOREM LcInductive == LcSpec => []LcIInv
  BY LcInitKeeps, LcNextKeeps, PTL DEF LcSpec

(* Rotation, archiving, compression, pruning and crashes at any point lose *)
(* no text of a container's log but for a known cause; a follower is not   *)
(* sent back and a rotated log keeps its order (internal/logs).            *)
THEOREM LogAccounted == LcSpec => []LogTextAccountedFor
  BY LcInductive, LcSafe, PTL
=============================================================================
