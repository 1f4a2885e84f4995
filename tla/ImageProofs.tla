---------------------------- MODULE ImageProofs ----------------------------
(***************************************************************************)
(* Proofs about the images: the records and payloads of ImageStore and the *)
(* trees of ImageBuild, for any number of processes, images, builds,       *)
(* failures and deaths.                                                    *)
(***************************************************************************)
EXTENDS ImageStore, ImageBuild, TLAPS

-----------------------------------------------------------------------------
(* ImageStore: the inductive invariant.                                    *)

Ref(i) == Referenced(recs, i)

\* The first tree under i is still there; a later one never is the first.
Alive(i) == ino[i] = 1 /\ HasRootFS(dir[i])

\* Nobody can record i any more, and somebody may remove it.
Doomed(i) == i \in tokens /\ ~Ref(i)

Importing == {"rename", "verify", "publish", "check", "undo"}
Removing == {"pin", "delete", "contents", "unlink", "clear"}
RemovingExt == {"deleteExt", "remaining", "removeExt"}
Between == {"reference", "dangling", "next", "source", "list", "all", "pending"}

\* What a process at label l knows of its command, r being its locals.
Aware(l, r) ==
  /\ l \in Importing => r.img # None /\ r.img.pay \in IDs /\ r.sel \in Tags
  /\ l \in {"extract", "save"} => r.img # None /\ r.img.pay = Ext /\ r.sel \in Tags
  /\ l \in Removing => r.img # None /\ r.img.pay \in IDs
  /\ l \in RemovingExt => r.img # None /\ r.img.pay = Ext
  /\ l \in Between => r.img = None
  /\ l \in {"delete", "deleteExt", "alias"} => r.key \in Keys /\ r.img # None
  /\ l \in {"source", "alias", "list", "get", "delete", "deleteExt"} => r.sel \in Keys
  /\ l = "pin" /\ r.ret # "reference" => r.key \in Keys /\ r.sel \in Keys
  /\ l = "reference" \/ r.ret = "reference" => r.todo \subseteq IDs \X {None}
  /\ r.ret = "reference" => l \in {"pin", "contents", "unlink", "clear"}
  /\ r.owned => l \in {"publish", "check", "undo"}
  /\ l \in {"check", "undo"} => r.owned

Has(r, i) == r.img # None /\ r.img.pay = i

\* What it may count on when it is at work on i, while the first tree is there.
Counts(l, r, i) ==
  /\ ino[i] = 0 => l = "rename"
  /\ l = "clear" => ~Alive(i)
  /\ l \in {"delete", "contents", "unlink"} /\ r.pin = 0 => ~Alive(i)
  /\ Alive(i) =>
       /\ l \in {"contents", "unlink"} => Doomed(i)
       /\ l = "pin" /\ r.ret = "reference" => Doomed(i)
       /\ l = "publish" /\ r.owned => ~Ref(i) /\ i \notin tokens \cup lost
       /\ l = "publish" /\ ~r.owned => Ref(i) \/ i \in tokens \cup lost
       /\ l = "undo" => ~Ref(i) \/ i \in lost

\* One import has made the first tree.
OneOwner(i) ==
  ino[i] <= 1 => \A p, q \in Procs :
    loc[p].owned /\ loc[q].owned /\ Has(loc[p], i) /\ Has(loc[q], i) => p = q

PayloadOK(i) ==
  /\ ino[i] = 0 => dir[i] = "none" /\ ~Ref(i) /\ i \notin tokens \cup lost
  /\ ino[i] = 1 /\ dir[i] \in {"partial", "empty"} => Doomed(i)

\* An untagged record lies under the ID of its payload.
DanglingIsOwn == \A i \in IDs : recs[i] # None => recs[i].pay = i

IInv ==
  /\ TypeOK /\ DanglingIsOwn
  /\ \A p \in Procs : Aware(pc[p], loc[p])
  /\ \A i \in IDs : PayloadOK(i) /\ OneOwner(i)
  /\ \A i \in IDs, p \in Procs : Has(loc[p], i) => Counts(pc[p], loc[p], i)

-----------------------------------------------------------------------------
(* ImageStore: how a step of one process is judged.                        *)

\* One process moves.
Moves(p, l, r) ==
  /\ pc' \in [Procs -> Labels] /\ loc' \in [Procs -> Locals]
  /\ pc'[p] = l /\ loc'[p] = r
  /\ \A q \in Procs \ {p} : pc'[q] = pc[q] /\ loc'[q] = loc[q]

\* A new label and new locals are a move.
LEMMA Moving ==
  ASSUME TypeOK, NEW p \in Procs, NEW l \in Labels, NEW r \in Locals, Goto(p, l), Set(p, r)
  PROVE  Moves(p, l, r)
  BY DEF TypeOK, Goto, Set, Moves

\* So is a new label alone.
LEMMA Keeping ==
  ASSUME TypeOK, NEW p \in Procs, NEW l \in Labels, Goto(p, l), Keep
  PROVE  Moves(p, l, loc[p]) /\ loc[p] \in Locals
  BY DEF TypeOK, Goto, Keep, Moves

\* The locals of a process without a command.
LEMMA IdleLocals ==
  /\ Idle \in Locals /\ Idle.img = None /\ Idle.owned = FALSE /\ Idle.ret = "idle" /\ Idle.todo = {}
  /\ "idle" \in Labels
  BY NamesAssumption DEF Idle, Locals, Labels

\* A command ends.
LEMMA Returning ==
  ASSUME TypeOK, NEW p \in Procs, Return(p)
  PROVE  Moves(p, "idle", Idle)
  BY Moving, IdleLocals DEF Return

\* Faults are counted up to their bound.
LEMMA FaultTyped ==
  ASSUME TypeOK
  PROVE  (Fault => faults' \in 0..MaxFaults) /\ (NoFault => faults' \in 0..MaxFaults)
  BY BoundsAssumption DEF TypeOK, Fault, NoFault

\* A payload does not come back to life and gets no first record; what is
\* recorded or doomed stays so, or is hidden by a SaveImage.
Steady(i) ==
  /\ ino'[i] = 0 => ino[i] = 0
  /\ Alive(i)' => Alive(i)
  /\ Alive(i)' => /\ Doomed(i) => Doomed(i)'
                  /\ Ref(i) \/ i \in tokens \cup lost => Ref(i)' \/ i \in tokens' \cup lost'
                  /\ ~Ref(i) => ~Ref(i)'
                  /\ ~Ref(i) /\ i \notin tokens \cup lost => i \notin tokens' \cup lost'
                  /\ i \in lost => i \in lost'

\* Such a step takes nothing from what a process counts on.
LEMMA SteadyCounts ==
  ASSUME NEW i, NEW l, NEW r, Steady(i), Counts(l, r, i)
  PROVE  Counts(l, r, i)'
  BY DEF Steady, Counts

\* So the other processes keep theirs.
LEMMA OthersCount ==
  ASSUME IInv, NEW p \in Procs, NEW l, NEW r, Moves(p, l, r), NEW q \in Procs \ {p},
         NEW i \in IDs, Steady(i), Has(loc[q], i)
  PROVE  Counts(pc[q], loc[q], i)'
  <1>1. pc'[q] = pc[q] /\ loc'[q] = loc[q] /\ Counts(pc[q], loc[q], i)
    BY DEF Moves, IInv
  <1> QED BY <1>1 DEF Steady, Counts

\* A step of p keeps the invariant if it leaves every payload in order and the
\* other processes with what they count on.
LEMMA StepKeeps ==
  ASSUME IInv, NEW p \in Procs, NEW l, NEW r, Moves(p, l, r), TypeOK', DanglingIsOwn',
         Aware(l, r),
         \A i \in IDs : PayloadOK(i)' /\ OneOwner(i)',
         \A i \in IDs : Has(r, i) => Counts(l, r, i)',
         \A i \in IDs, q \in Procs \ {p} : Has(loc[q], i) => Counts(pc[q], loc[q], i)'
  PROVE  IInv'
  <1>1. \A q \in Procs : Aware(pc'[q], loc'[q])
    BY DEF IInv, Moves
  <1>2. ASSUME NEW i \in IDs, NEW q \in Procs, Has(loc'[q], i)
        PROVE  Counts(pc[q], loc[q], i)'
    <2>1. CASE q = p
      BY <1>2, <2>1 DEF Moves, Counts
    <2>2. CASE q # p
      <3>1. pc'[q] = pc[q] /\ loc'[q] = loc[q] /\ q \in Procs \ {p}
        BY <2>2 DEF Moves
      <3>2. Counts(pc[q], loc[q], i)'
        BY <1>2, <3>1
      <3> QED BY <3>1, <3>2 DEF Counts
    <2> QED BY <2>1, <2>2
  <1> QED BY <1>1, <1>2 DEF IInv

\* The owner of a first tree stays the only one if a step makes no owner.
LEMMA OwnersKeep ==
  ASSUME IInv, NEW p \in Procs, NEW l, NEW r, Moves(p, l, r), NEW i \in IDs,
         ino'[i] <= 1 => ino[i] <= 1,
         r.owned => loc[p].owned /\ r.img = loc[p].img
  PROVE  OneOwner(i)'
  <1> SUFFICES ASSUME ino'[i] <= 1, NEW a \in Procs, NEW b \in Procs,
                      loc'[a].owned, loc'[b].owned, Has(loc'[a], i), Has(loc'[b], i)
               PROVE  a = b
    BY DEF OneOwner
  <1>1. \A q \in {a, b} : loc[q].owned /\ Has(loc[q], i)
    BY DEF Moves, Has
  <1> QED BY <1>1 DEF IInv, OneOwner

\* The bounded counters stay in bounds.
Counted == clock' \in 0..MaxClock /\ faults' \in 0..MaxFaults /\ crashes' \in 0..MaxCrashes

\* Neither records nor managed payloads change.
Quietly ==
  /\ UNCHANGED <<recs, tokens, ino, lost>> /\ Counted
  /\ dir' \in [Payloads -> DirStates] /\ \A i \in IDs : dir'[i] = dir[i]

\* A step of a command leaves the other counters alone.
LEMMA AtCounted ==
  ASSUME TypeOK, NEW p, NEW l, At(p, l), Fault \/ NoFault
  PROVE  Counted /\ pc[p] = l /\ lost' = lost
  BY FaultTyped DEF At, Counted, TypeOK

\* A step of a command that leaves the store and the disk alone.
LEMMA AtQuietly ==
  ASSUME TypeOK, NEW p, NEW l, At(p, l), Fault \/ NoFault, UNCHANGED <<store, disk>>
  PROVE  Quietly /\ pc[p] = l
  BY AtCounted DEF Quietly, store, disk, TypeOK

\* A step that changes neither records nor payloads is judged by its process.
LEMMA QuietStep ==
  ASSUME IInv, NEW p \in Procs, NEW l, NEW r, Moves(p, l, r),
         Quietly, Aware(l, r), r.owned => loc[p].owned /\ r.img = loc[p].img,
         \A i \in IDs : Has(r, i) => Counts(l, r, i)
  PROVE  IInv'
  <1>1. TypeOK' /\ DanglingIsOwn'
    BY DEF IInv, TypeOK, DanglingIsOwn, Moves, Quietly, Counted
  <1>2. \A i \in IDs : Steady(i) /\ PayloadOK(i)'
    BY DEF Quietly, Steady, Alive, Doomed, Ref, PayloadOK, IInv
  <1>3. \A i \in IDs : OneOwner(i)'
    BY OwnersKeep DEF Quietly
  <1>4. \A i \in IDs : Has(r, i) => Counts(l, r, i)'
    BY <1>2, SteadyCounts
  <1>5. \A i \in IDs, q \in Procs \ {p} : Has(loc[q], i) => Counts(pc[q], loc[q], i)'
    BY <1>2, OthersCount
  <1> QED BY <1>1, <1>2, <1>3, <1>4, <1>5, StepKeeps

\* What the invariant says of one process.
LEMMA Process ==
  ASSUME IInv, NEW p \in Procs
  PROVE  /\ loc[p] \in Locals /\ pc[p] \in Labels /\ Aware(pc[p], loc[p]) /\ TypeOK
         /\ \A i \in IDs : Has(loc[p], i) => Counts(pc[p], loc[p], i)
  BY DEF IInv, TypeOK

\* A removal goes on with its loop, or returns.
LEMMA Continuing ==
  ASSUME IInv, NEW p \in Procs, Continue(p)
  PROVE  \E l \in Labels, r \in Locals :
           Moves(p, l, r) /\ Aware(l, r) /\ r.owned = FALSE /\ \A i \in IDs : ~Has(r, i)
  <1> DEFINE l == loc[p].ret
             s == [Idle EXCEPT !.op = loc[p].op, !.todo = loc[p].todo]
             r == IF l = "idle" THEN Idle ELSE s
  <1>1. /\ loc[p] \in Locals /\ TypeOK
        /\ loc[p].ret = "reference" => loc[p].todo \subseteq IDs \X {None}
    BY Process DEF Aware
  <1>2. l \in Labels /\ l \in {"idle", "reference", "next"}
    BY <1>1 DEF Locals, Labels
  <1>3. s \in Locals /\ s.img = None /\ s.owned = FALSE /\ s.todo = loc[p].todo /\ s.ret = "idle"
    BY <1>1, IdleLocals DEF Locals, Idle
  <1>4. /\ r \in Locals /\ r.img = None /\ r.owned = FALSE /\ r.ret = "idle"
        /\ l = "reference" => r.todo \subseteq IDs \X {None}
    BY <1>1, <1>3, IdleLocals
  <1>5. Goto(p, l) /\ Set(p, r)
    BY DEF Continue
  <1> HIDE DEF l, s, r
  <1>6. Moves(p, l, r)
    BY <1>1, <1>2, <1>4, <1>5, Moving
  <1>7. Aware(l, r) /\ \A i \in IDs : ~Has(r, i)
    BY <1>2, <1>4 DEF Aware, Has, Importing, Removing, RemovingExt, Between
  <1> QED BY <1>2, <1>4, <1>6, <1>7

\* A steady step is judged by its process too.
LEMMA SteadyStep ==
  ASSUME IInv, NEW p \in Procs, NEW l, NEW r, Moves(p, l, r), TypeOK', DanglingIsOwn', Aware(l, r),
         \A i \in IDs : Steady(i) /\ PayloadOK(i)' /\ (ino'[i] <= 1 => ino[i] <= 1),
         r.owned => loc[p].owned /\ r.img = loc[p].img,
         \A i \in IDs : Has(r, i) => Counts(l, r, i)'
  PROVE  IInv'
  <1>1. \A i \in IDs : OneOwner(i)'
    BY OwnersKeep
  <1>2. \A i \in IDs, q \in Procs \ {p} : Has(loc[q], i) => Counts(pc[q], loc[q], i)'
    BY OthersCount
  <1> QED BY <1>1, <1>2, StepKeeps

\* A steady step after which its process works on no image.
LEMMA SteadyEnd ==
  ASSUME IInv, NEW p \in Procs, TypeOK', DanglingIsOwn', Return(p) \/ Continue(p),
         \A i \in IDs : Steady(i) /\ PayloadOK(i)' /\ (ino'[i] <= 1 => ino[i] <= 1)
  PROVE  IInv'
  <1>1. \E l \in Labels, r \in Locals :
           Moves(p, l, r) /\ Aware(l, r) /\ r.owned = FALSE /\ \A i \in IDs : ~Has(r, i)
    <2>1. CASE Return(p)
      <3>1. Aware("idle", Idle) /\ \A i \in IDs : ~Has(Idle, i)
        BY IdleLocals DEF Aware, Has, Importing, Removing, RemovingExt, Between
      <3> QED BY <2>1, <3>1, Returning, IdleLocals DEF IInv
    <2> QED BY <2>1, Continuing
  <1> QED BY <1>1, SteadyStep

\* A command that ends without a change.
LEMMA QuietReturn ==
  ASSUME IInv, NEW p \in Procs, Quietly, Return(p)
  PROVE  IInv'
  <1>1. Moves(p, "idle", Idle) /\ Idle.owned = FALSE
    BY Returning, IdleLocals DEF IInv
  <1>2. Aware("idle", Idle) /\ \A i \in IDs : ~Has(Idle, i)
    BY IdleLocals DEF Aware, Has, Importing, Removing, RemovingExt, Between
  <1> QED BY <1>1, <1>2, QuietStep

\* A command that goes on with what it knows.
LEMMA QuietGoto ==
  ASSUME IInv, NEW p \in Procs, NEW l \in Labels, Quietly, Goto(p, l), Keep,
         Aware(l, loc[p]), \A i \in IDs : Has(loc[p], i) => Counts(l, loc[p], i)
  PROVE  IInv'
  BY Keeping, QuietStep DEF IInv

-----------------------------------------------------------------------------
(* ImageStore: the steps that change nothing but their process.            *)

\* A recorded payload has been made.
LEMMA ReferencedIsMade ==
  ASSUME IInv, NEW i \in IDs, Ref(i)
  PROVE  ino[i] # 0
  BY DEF IInv, PayloadOK

\* verifyReusableRawRootFSPayload takes a tree that a record has.
LEMMA Verifying ==
  ASSUME IInv, NEW p \in Procs, verifyReusableRawRootFSPayload(p)
  PROVE  IInv'
  <1>1. Quietly /\ pc[p] = "verify"
    BY AtQuietly DEF IInv, verifyReusableRawRootFSPayload
  <1>2. CASE Return(p)
    BY <1>1, <1>2, QuietReturn
  <1>3. CASE Ref(loc[p].img.pay) /\ Goto(p, "publish") /\ Keep
    <2>1. "publish" \in Labels /\ Aware("publish", loc[p])
      BY <1>1, Process DEF Labels, Aware, Importing, Removing, RemovingExt, Between
    <2>2. \A i \in IDs : Has(loc[p], i) => Counts("publish", loc[p], i)
      <3>1. ~loc[p].owned
        BY <1>1, Process DEF Aware
      <3> QED BY <1>3, <3>1, ReferencedIsMade DEF Has, Counts
    <2> QED BY <1>1, <1>3, <2>1, <2>2, QuietGoto
  <1> QED BY <1>2, <1>3 DEF verifyReusableRawRootFSPayload, Ref

\* The import looks for its record after a failed publication.
LEMMA CheckingForARecord ==
  ASSUME IInv, NEW p \in Procs, ImportCheck(p)
  PROVE  IInv'
  <1>1. Quietly /\ pc[p] = "check"
    BY AtQuietly DEF IInv, ImportCheck
  <1>2. CASE Return(p)
    BY <1>1, <1>2, QuietReturn
  <1>3. CASE ~Ref(loc[p].img.pay) /\ Goto(p, "undo") /\ Keep
    <2>1. "undo" \in Labels /\ Aware("undo", loc[p])
      BY <1>1, Process DEF Labels, Aware, Importing, Removing, RemovingExt, Between
    <2>2. \A i \in IDs : Has(loc[p], i) => Counts("undo", loc[p], i)
      BY <1>1, <1>3, Process DEF Has, Counts
    <2> QED BY <1>1, <1>3, <2>1, <2>2, QuietGoto
  <1> QED BY <1>2, <1>3 DEF ImportCheck, Ref

\* What a selector resolves to is a record.
LEMMA ResolvedIsRecorded ==
  ASSUME IInv, NEW sel \in Keys, NEW k \in resolveImageForRead(recs, sel)
  PROVE  /\ k \in Keys /\ recs[k] \in Images /\ recs[k] # None
         /\ \A i \in IDs : recs[k].pay = i => Ref(i) /\ ino[i] # 0
  <1>1. k \in Keys /\ recs[k] # None
    BY DEF resolveImageForRead, Holding, Keys
  <1>2. recs[k] \in Images
    BY <1>1 DEF IInv, TypeOK
  <1>3. \A i \in IDs : recs[k].pay = i => Ref(i)
    BY <1>1 DEF Ref, Referenced, Holding
  <1> QED BY <1>1, <1>2, <1>3, ReferencedIsMade

\* A tag reads its source.
LEMMA ReadingTheSource ==
  ASSUME IInv, NEW p \in Procs, TagSource(p)
  PROVE  IInv'
  <1>0. Quietly /\ pc[p] = "source"
    BY AtQuietly, Process DEF TagSource
  <1>1. /\ Quietly /\ loc[p].sel \in Keys /\ ~loc[p].owned /\ loc[p] \in Locals
        /\ loc[p].ret # "reference"
    BY <1>0, Process DEF Aware
  <1>2. CASE Return(p)
    BY <1>1, <1>2, QuietReturn
  <1>3. ASSUME NEW k \in resolveImageForRead(recs, loc[p].sel), Goto(p, "alias"),
               Set(p, [loc[p] EXCEPT !.key = k, !.img = recs[k]])
        PROVE  IInv'
    <2> DEFINE r == [loc[p] EXCEPT !.key = k, !.img = recs[k]]
    <2>1. /\ k \in Keys /\ recs[k] \in Images /\ recs[k] # None
          /\ \A i \in IDs : recs[k].pay = i => Ref(i) /\ ino[i] # 0
      BY <1>1, ResolvedIsRecorded
    <2>2. /\ r \in Locals /\ r.img = recs[k] /\ r.key = k /\ r.sel = loc[p].sel /\ r.owned = loc[p].owned
          /\ r.ret = loc[p].ret /\ "alias" \in Labels
      BY <1>1, <2>1 DEF Locals, Labels
    <2> HIDE DEF r
    <2>3. Moves(p, "alias", r)
      BY <1>3, <2>2, Moving DEF IInv, r
    <2>4. Aware("alias", r) /\ \A i \in IDs : Has(r, i) => Counts("alias", r, i)
      BY <1>1, <2>1, <2>2 DEF Aware, Has, Counts, Importing, Removing, RemovingExt, Between
    <2> QED BY <1>1, <2>2, <2>3, <2>4, QuietStep
  <1> QED BY <1>2, <1>3 DEF TagSource

\* A removal lists the images.
LEMMA Listing ==
  ASSUME IInv, NEW p \in Procs, RemoveList(p)
  PROVE  IInv'
  <1>0. Quietly /\ pc[p] = "list"
    BY AtQuietly, Process DEF RemoveList
  <1>1. /\ Quietly /\ loc[p].sel \in Keys /\ ~loc[p].owned /\ loc[p] \in Locals
        /\ loc[p].ret # "reference"
        /\ \A i \in IDs : Has(loc[p], i) => ino[i] # 0
    BY <1>0, Process DEF Aware, Counts
  <1> DEFINE r == [loc[p] EXCEPT !.snap = recs]
  <1>2. /\ r \in Locals /\ r.img = loc[p].img /\ r.sel = loc[p].sel /\ r.owned = loc[p].owned
        /\ r.ret = loc[p].ret /\ "get" \in Labels
    BY <1>1 DEF Locals, Labels, IInv, TypeOK
  <1> HIDE DEF r
  <1>3. Moves(p, "get", r)
    BY <1>2, Moving DEF IInv, r, RemoveList
  <1>4. Aware("get", r) /\ \A i \in IDs : Has(r, i) => Counts("get", r, i)
    BY <1>1, <1>2 DEF Aware, Has, Counts, Importing, Removing, RemovingExt, Between
  <1> QED BY <1>1, <1>2, <1>3, <1>4, QuietStep

\* The record to remove is read: a managed one is pinned next, the directory of a
\* pulled one is not.
LEMMA ReadingTheRecord ==
  ASSUME IInv, NEW p \in Procs, RemoveGet(p)
  PROVE  IInv'
  <1>0. Quietly /\ pc[p] = "get"
    BY AtQuietly, Process DEF RemoveGet
  <1>1. /\ loc[p].sel \in Keys /\ ~loc[p].owned /\ loc[p] \in Locals
        /\ loc[p].ret # "reference"
    BY <1>0, Process DEF Aware
  <1>2. CASE Return(p)
    BY <1>0, <1>2, QuietReturn
  <1>3. ASSUME NEW k \in resolveImageForRead(recs, loc[p].sel),
               Goto(p, IF recs[k].pay = Ext THEN "deleteExt" ELSE "pin"),
               Set(p, [loc[p] EXCEPT !.key = k, !.img = recs[k], !.snap = None])
        PROVE  IInv'
    <2> DEFINE r == [loc[p] EXCEPT !.key = k, !.img = recs[k], !.snap = None]
               l == IF recs[k].pay = Ext THEN "deleteExt" ELSE "pin"
    <2>1. /\ k \in Keys /\ recs[k] \in Images /\ recs[k] # None
          /\ \A i \in IDs : recs[k].pay = i => Ref(i) /\ ino[i] # 0
      BY <1>1, ResolvedIsRecorded
    <2>2. /\ r \in Locals /\ r.img = recs[k] /\ r.key = k /\ r.sel = loc[p].sel /\ r.owned = loc[p].owned
          /\ r.ret = loc[p].ret /\ l \in Labels
      BY <1>1, <2>1 DEF Locals, Labels
    <2>3. recs[k].pay # Ext => recs[k].pay \in IDs
      BY <2>1 DEF Images, Payloads
    <2>4. (l = "pin" /\ recs[k].pay # Ext) \/ (l = "deleteExt" /\ recs[k].pay = Ext)
      OBVIOUS
    <2>5. Goto(p, l) /\ Set(p, r)
      BY <1>3
    <2> HIDE DEF r, l
    <2>6. Moves(p, l, r)
      BY <2>2, <2>5, Moving DEF IInv
    <2>7. Aware(l, r)
      BY <1>1, <2>1, <2>2, <2>3, <2>4 DEF Aware, Importing, Removing, RemovingExt, Between
    <2>8. \A i \in IDs : Has(r, i) => Counts(l, r, i)
      BY <1>1, <2>1, <2>2, <2>4 DEF Has, Counts
    <2> QED BY <1>0, <1>1, <2>2, <2>6, <2>7, <2>8, QuietStep
  <1> QED BY <1>2, <1>3 DEF RemoveGet

\* The records of a pulled directory that remain.
LEMMA Remaining ==
  ASSUME IInv, NEW p \in Procs, RemoveRemaining(p)
  PROVE  IInv'
  <1>1. Quietly /\ pc[p] = "remaining"
    BY AtQuietly, Process DEF RemoveRemaining
  <1>2. CASE Continue(p)
    BY <1>1, <1>2, Continuing, QuietStep
  <1>3. CASE Goto(p, "removeExt") /\ Keep
    <2>1. "removeExt" \in Labels /\ Aware("removeExt", loc[p])
      BY <1>1, Process DEF Labels, Aware, Importing, Removing, RemovingExt, Between
    <2>2. \A i \in IDs : Has(loc[p], i) => Counts("removeExt", loc[p], i)
      BY <1>1, Process DEF Counts
    <2> QED BY <1>1, <1>3, <2>1, <2>2, QuietGoto
  <1> QED BY <1>2, <1>3 DEF RemoveRemaining

\* The rootfs is pinned; one that is not there is not the first any more.
LEMMA Pinning ==
  ASSUME IInv, NEW p \in Procs, PinRootFS(p)
  PROVE  IInv'
  <1>0. Quietly /\ pc[p] = "pin"
    BY AtQuietly, Process DEF PinRootFS
  <1>1. PICK i \in IDs : loc[p].img # None /\ loc[p].img.pay = i
    BY <1>0, Process DEF Aware, Removing
  <1>2. /\ Counts("pin", loc[p], i) /\ loc[p] \in Locals /\ ~loc[p].owned /\ ino[i] \in Nat
        /\ loc[p].ret # "reference" => loc[p].key \in Keys /\ loc[p].sel \in Keys
        /\ loc[p].ret = "reference" => loc[p].todo \subseteq IDs \X {None}
    BY <1>0, <1>1, Process DEF Aware, Has, TypeOK
  <1>3. CASE Return(p)
    BY <1>0, <1>3, QuietReturn
  <1>4. CASE /\ Goto(p, IF loc[p].ret = "reference" THEN "contents" ELSE "delete")
             /\ Set(p, [loc[p] EXCEPT !.pin = IF HasRootFS(dir[i]) THEN ino[i] ELSE 0])
    <2> DEFINE l == IF loc[p].ret = "reference" THEN "contents" ELSE "delete"
               n == IF HasRootFS(dir[i]) THEN ino[i] ELSE 0
               r == [loc[p] EXCEPT !.pin = n]
    <2>1. n \in Nat /\ (n = 0 => ~Alive(i))
      BY <1>2 DEF Alive, Counts
    <2>2. /\ r \in Locals /\ r.img = loc[p].img /\ r.key = loc[p].key /\ r.sel = loc[p].sel
          /\ r.owned = loc[p].owned /\ r.ret = loc[p].ret /\ r.todo = loc[p].todo /\ r.pin = n
          /\ l \in Labels /\ l = (IF loc[p].ret = "reference" THEN "contents" ELSE "delete")
      BY <1>2, <2>1 DEF Locals, Labels
    <2>3. Goto(p, l) /\ Set(p, r)
      BY <1>4
    <2> HIDE DEF r, l, n
    <2>4. Moves(p, l, r)
      BY <2>2, <2>3, Moving DEF IInv
    <2>5. Aware(l, r)
      BY <1>1, <1>2, <2>2 DEF Aware, Importing, Removing, RemovingExt, Between
    <2>6. \A j \in IDs : Has(r, j) => Counts(l, r, j)
      BY <1>1, <1>2, <2>1, <2>2 DEF Has, Counts
    <2> QED BY <1>0, <1>2, <2>2, <2>4, <2>5, <2>6, QuietStep
  <1> QED BY <1>1, <1>3, <1>4 DEF PinRootFS

\* A process that works on no image counts on nothing.
LEMMA QuietBetween ==
  ASSUME IInv, NEW p \in Procs, NEW l \in Between, NEW r \in Locals, Quietly,
         Goto(p, l), Set(p, r), r.img = None, ~r.owned, r.ret # "reference",
         l = "reference" => r.todo \subseteq IDs \X {None},
         l \in {"source", "list"} => r.sel \in Keys
  PROVE  IInv'
  <1>1. l \in Labels
    BY DEF Between, Labels
  <1>2. Moves(p, l, r)
    BY <1>1, Moving DEF IInv
  <1>3. Aware(l, r) /\ \A i \in IDs : ~Has(r, i)
    BY DEF Aware, Has, Importing, Removing, RemovingExt, Between
  <1> QED BY <1>2, <1>3, QuietStep

\* The steps of a prune between two images.
LEMMA Pruning ==
  ASSUME IInv, NEW p \in Procs,
         PrunePending(p) \/ PruneDangling(p) \/ PruneAll(p) \/ PruneNext(p)
  PROVE  IInv'
  <1>0. Quietly /\ pc[p] \in {"pending", "dangling", "all", "next"}
    BY AtQuietly, Process DEF PrunePending, PruneDangling, PruneAll, PruneNext
  <1>1. loc[p] \in Locals /\ ~loc[p].owned /\ loc[p].img = None /\ loc[p].ret # "reference"
    BY <1>0, Process DEF Aware, Between
  <1>2. CASE PrunePending(p)
    <2> DEFINE r == [loc[p] EXCEPT !.todo = tokens \X {None}]
    <2>0. tokens \subseteq IDs
      BY DEF IInv, TypeOK
    <2>1. tokens \X {None} \subseteq IDs \X {None}
      BY <2>0
    <2>2. IDs \X {None} \subseteq Keys \X (Images \cup {None})
      BY DEF Keys
    <2>3. /\ r \in Locals /\ r.img = None /\ ~r.owned /\ r.ret # "reference"
          /\ r.todo \subseteq IDs \X {None}
      BY <1>1, <2>1, <2>2 DEF Locals
    <2>4. Goto(p, "reference") /\ Set(p, r) /\ "reference" \in Between
      BY <1>2 DEF PrunePending, Between
    <2> QED BY <1>0, <2>3, <2>4, QuietBetween
  <1>3. CASE PruneDangling(p)
    <2> DEFINE t == Dangling(recs) \X {None}
               r == [Idle EXCEPT !.op = "prune", !.todo = t]
    <2>1. t \in SUBSET (Keys \X (Images \cup {None}))
      BY DEF Keys, Dangling
    <2> HIDE DEF t
    <2>2. r \in Locals /\ r.img = None /\ ~r.owned /\ r.ret # "reference"
      BY <2>1, IdleLocals DEF Locals, Idle
    <2>3. Goto(p, "next") /\ Set(p, r) /\ "next" \in Between
      BY <1>3 DEF PruneDangling, Between, t
    <2> QED BY <1>0, <2>2, <2>3, QuietBetween
  <1>4. CASE PruneAll(p)
    <2> DEFINE t == {<<k, recs[k]>> : k \in {l \in Keys : recs[l] # None}}
               r == [loc[p] EXCEPT !.todo = t]
    <2>1. t \in SUBSET (Keys \X (Images \cup {None}))
      BY DEF IInv, TypeOK
    <2> HIDE DEF t
    <2>2. r \in Locals /\ r.img = None /\ ~r.owned /\ r.ret # "reference"
      BY <1>1, <2>1 DEF Locals
    <2>3. Goto(p, "next") /\ Set(p, r) /\ "next" \in Between
      BY <1>4 DEF PruneAll, Between, t
    <2> QED BY <1>0, <2>2, <2>3, QuietBetween
  <1>5. CASE PruneNext(p)
    <2>1. CASE Return(p)
      BY <1>0, <2>1, QuietReturn
    <2>2. ASSUME NEW t \in loc[p].todo, Goto(p, "list"),
                 Set(p, [loc[p] EXCEPT !.todo = @ \ {t}, !.sel = t[1], !.want = t[2], !.ret = "next"])
          PROVE  IInv'
      <3> DEFINE r == [loc[p] EXCEPT !.todo = @ \ {t}, !.sel = t[1], !.want = t[2], !.ret = "next"]
      <3>0. loc[p].todo \in SUBSET (Keys \X (Images \cup {None}))
        BY <1>1 DEF Locals
      <3>1. t[1] \in Keys /\ t[2] \in Images \cup {None}
        BY <3>0
      <3>2. r \in Locals /\ r.img = None /\ ~r.owned /\ r.ret # "reference" /\ r.sel \in Keys
        BY <1>1, <3>0, <3>1, ZenonT(30) DEF Locals
      <3>3. Goto(p, "list") /\ Set(p, r) /\ "list" \in Between
        BY <2>2 DEF Between
      <3> HIDE DEF r
      <3> QED BY <1>0, <3>2, <3>3, QuietBetween
    <2> QED BY <1>5, <2>1, <2>2 DEF PruneNext
  <1> QED BY <1>2, <1>3, <1>4, <1>5

\* A tag, a removal or a prune begins.
LEMMA Commanding ==
  ASSUME IInv, (\E p \in Clients : StartCommand(p)) \/ StartPrune
  PROVE  IInv'
  <1> DEFINE Fits(l, r) == /\ r \in Locals /\ r.img = None /\ ~r.owned /\ r.ret # "reference"
                           /\ l \in {"source", "list"} => r.sel \in Keys
  <1>1. \A op \in Ops \cup {"prune"} : Fits("all", [Idle EXCEPT !.op = op])
    BY IdleLocals DEF Locals, Idle
  <1>2. \A op \in Ops, k \in Keys : Fits("list", [Idle EXCEPT !.op = op, !.sel = k])
    BY IdleLocals DEF Locals, Idle
  <1>3. PICK p \in Procs, l \in {"source", "list", "all", "pending"}, r \in Locals :
          clock' = clock /\ Begin(p, l, r) /\ Fits(l, r)
    <2>1. CASE StartPrune
      BY <1>1, <2>1 DEF StartPrune, Procs
    <2>2. ASSUME NEW p \in Clients, StartCommand(p)
          PROVE  \E l \in {"source", "list", "all", "pending"}, r \in Locals :
                   clock' = clock /\ Begin(p, l, r) /\ Fits(l, r)
      <3>1. CASE \E k \in Keys : "tag" \in Ops /\ Begin(p, "source", [Idle EXCEPT !.op = "tag", !.sel = k])
        BY <1>2, <2>2, <3>1 DEF StartCommand
      <3>2. CASE \E k \in Keys : "rmi" \in Ops /\ Begin(p, "list", [Idle EXCEPT !.op = "rmi", !.sel = k])
        BY <1>2, <2>2, <3>2 DEF StartCommand
      <3>3. CASE "system" \in Ops /\ Begin(p, "all", [Idle EXCEPT !.op = "system"])
        BY <1>1, <2>2, <3>3 DEF StartCommand
      <3> QED BY <2>2, <3>1, <3>2, <3>3 DEF StartCommand
    <2> QED BY <2>1, <2>2 DEF Procs
  <1>4. Goto(p, l) /\ Set(p, r) /\ l \in Between /\ l # "reference"
    BY <1>3 DEF Begin, Between
  <1>5. Quietly
    BY <1>3 DEF Begin, Quietly, Counted, store, disk, IInv, TypeOK
  <1> QED BY <1>3, <1>4, <1>5, QuietBetween

\* A publication begins with a new time.
LEMMA StartingAPublication ==
  ASSUME IInv, NEW p \in Clients, StartPublication(p)
  PROVE  IInv'
  <1>1. PICK l \in {"rename", "extract"}, op \in Ops, t \in Tags, x \in Payloads, g \in BOOLEAN :
          /\ Begin(p, l, [Idle EXCEPT !.op = op, !.sel = t,
                                      !.img = [pay |-> x, at |-> clock', tagged |-> g]])
          /\ l = "rename" => x \in IDs
          /\ l = "extract" => x = Ext
    BY DEF StartPublication, Payloads
  <1>2. clock < MaxClock /\ clock' = clock + 1
    BY DEF StartPublication
  <1>3. p \in Procs /\ clock' \in 0..MaxClock
    BY <1>2, BoundsAssumption DEF Procs, IInv, TypeOK
  <1>4. Quietly
    BY <1>1, <1>3 DEF Begin, Quietly, Counted, store, disk, IInv, TypeOK
  <1>5. PICK c \in 0..MaxClock : c = clock'
    BY <1>3
  <1> DEFINE img == [pay |-> x, at |-> c, tagged |-> g]
             r == [Idle EXCEPT !.op = op, !.sel = t, !.img = img]
  <1>6. img \in Images /\ img.pay = x /\ img # None
    BY NoneAssumption DEF Images
  <1>7. r \in Locals /\ r.img = img /\ ~r.owned /\ r.ret = "idle" /\ r.sel = t
    BY <1>6, IdleLocals DEF Locals, Idle, Keys
  <1>8. Goto(p, l) /\ Set(p, r) /\ l \in Labels
    BY <1>1, <1>5 DEF Begin, Labels
  <1> HIDE DEF r, img
  <1>9. Moves(p, l, r)
    BY <1>3, <1>7, <1>8, Moving DEF IInv
  <1>10. Aware(l, r)
    BY <1>1, <1>6, <1>7 DEF Aware, Importing, Removing, RemovingExt, Between
  <1>11. \A i \in IDs : Has(r, i) => Counts(l, r, i)
    BY <1>1, <1>6, <1>7, NamesAssumption DEF Has, Counts
  <1> QED BY <1>3, <1>4, <1>7, <1>9, <1>10, <1>11, QuietStep

\* A process dies.
LEMMA Dying ==
  ASSUME IInv, NEW p \in Procs, Crash(p)
  PROVE  IInv'
  <1>1. crashes < MaxCrashes /\ crashes' = crashes + 1
    BY DEF Crash
  <1>2. Quietly /\ Return(p)
    BY <1>1, BoundsAssumption DEF Crash, Quietly, Counted, store, disk, IInv, TypeOK
  <1> QED BY <1>2, QuietReturn

-----------------------------------------------------------------------------
(* ImageStore: the steps that change records or payloads.                  *)

\* TypeOK from the parts that a step changes.
LEMMA Typed ==
  ASSUME IInv, NEW p \in Procs, NEW l, NEW r, Moves(p, l, r), Counted,
         recs' \in [Keys -> Images \cup {None}], tokens' \subseteq IDs,
         dir' \in [Payloads -> DirStates], ino' \in [IDs -> Nat], lost' \subseteq IDs
  PROVE  TypeOK'
  BY DEF TypeOK, Counted, Moves

\* The directory of a pull, which no property is about.
LEMMA OutsideTheStore ==
  ASSUME IInv, NEW p \in Procs, PullExtract(p) \/ RemoveExt(p)
  PROVE  IInv'
  <1>1. /\ Quietly /\ pc[p] \in {"extract", "removeExt"}
    <2>1. \A d \in DirStates : /\ [dir EXCEPT ![Ext] = d] \in [Payloads -> DirStates]
                               /\ \A i \in IDs : [dir EXCEPT ![Ext] = d][i] = dir[i]
      BY NamesAssumption DEF IInv, TypeOK, Payloads
    <2>2. {"full", "none", "scrap"} \subseteq DirStates
      BY DEF DirStates
    <2>3. PICK d \in DirStates : dir' = [dir EXCEPT ![Ext] = d]
      BY <2>2 DEF PullExtract, RemoveExt
    <2> QED BY <2>1, <2>3, AtCounted DEF PullExtract, RemoveExt, IInv, store, Quietly
  <1>2. CASE PullExtract(p)
    <2>1. pc[p] = "extract" /\ Goto(p, "save") /\ Keep
      BY <1>2 DEF PullExtract, At
    <2>2. "save" \in Labels /\ Aware("save", loc[p])
      BY <2>1, Process DEF Labels, Aware, Importing, Removing, RemovingExt, Between
    <2>3. \A i \in IDs : ~Has(loc[p], i)
      BY <2>1, NamesAssumption, Process DEF Aware, Has
    <2> QED BY <1>1, <2>1, <2>2, <2>3, QuietGoto
  <1>3. CASE Return(p)
    BY <1>1, <1>3, QuietReturn
  <1>4. CASE Continue(p)
    BY <1>1, <1>4, Continuing, QuietStep
  <1> QED BY <1>2, <1>3, <1>4 DEF RemoveExt

\* The staged tree gets its name: the first under its ID, or a later one.
LEMMA Renaming ==
  ASSUME IInv, NEW p \in Procs, PublishRootFS(p)
  PROVE  IInv'
  <1>0. pc[p] = "rename" /\ Counted /\ UNCHANGED <<recs, tokens, lost>> /\ TypeOK
    BY AtCounted DEF IInv, PublishRootFS, store
  <1>1. PICK i \in IDs : loc[p].img # None /\ loc[p].img.pay = i
    BY <1>0, Process DEF Aware, Importing
  <1>2. /\ loc[p] \in Locals /\ ~loc[p].owned /\ loc[p].ret # "reference" /\ loc[p].sel \in Tags
        /\ Counts("rename", loc[p], i)
    BY <1>0, <1>1, Process DEF Aware, Has, Importing

  <1>3. CASE UNCHANGED disk /\ Return(p)
    BY <1>0, <1>3, QuietReturn DEF Quietly, disk, TypeOK
  <1>4. CASE UNCHANGED disk /\ dir[i] # "none" /\ Goto(p, "verify") /\ Keep
    <2>1. "verify" \in Labels /\ Aware("verify", loc[p])
      BY <1>0, Process DEF Labels, Aware, Importing, Removing, RemovingExt, Between
    <2>2. \A j \in IDs : Has(loc[p], j) => Counts("verify", loc[p], j)
      BY <1>0, <1>1, <1>4 DEF Has, Counts, IInv, PayloadOK
    <2>3. Quietly
      BY <1>0, <1>4 DEF Quietly, disk, TypeOK
    <2> QED BY <1>4, <2>1, <2>2, <2>3, QuietGoto
  <1>5. CASE /\ dir[i] = "none" /\ Goto(p, "publish") /\ Set(p, [loc[p] EXCEPT !.owned = TRUE])
             /\ dir' = [dir EXCEPT ![i] = "full"] /\ ino' = [ino EXCEPT ![i] = @ + 1]
    <2> DEFINE new == [loc[p] EXCEPT !.owned = TRUE]
    <2>0. /\ new \in Locals /\ new.img = loc[p].img /\ new.sel = loc[p].sel
          /\ new.owned = TRUE /\ new.ret = loc[p].ret
      BY <1>2 DEF Locals
    <2> HIDE DEF new
    <2>1. PICK r \in Locals : /\ r = new /\ r.img = loc[p].img /\ r.sel = loc[p].sel
                              /\ r.owned = TRUE /\ r.ret = loc[p].ret
      BY <2>0
    <2>2. Moves(p, "publish", r)
      BY <1>0, <1>5, <2>1, Moving DEF Labels, new
    <2>3. /\ dir' \in [Payloads -> DirStates] /\ ino' \in [IDs -> Nat]
          /\ ino[i] \in Nat /\ ino'[i] = ino[i] + 1 /\ dir'[i] = "full"
          /\ \A j \in IDs \ {i} : dir'[j] = dir[j] /\ ino'[j] = ino[j]
      BY <1>0, <1>5, NamesAssumption DEF TypeOK, Payloads, DirStates
    <2>4. TypeOK' /\ DanglingIsOwn'
      BY <1>0, <2>2, <2>3, Typed DEF IInv, TypeOK, DanglingIsOwn
    <2>5. Aware("publish", r)
      BY <1>1, <1>2, <2>1 DEF Aware, Importing, Removing, RemovingExt, Between
    <2>6. ino[i] # 0 => Steady(i)
      BY <1>0, <2>3 DEF Steady, Alive
    <2>7. \A j \in IDs \ {i} : Steady(j)
      BY <1>0, <2>3 DEF Steady, Alive, Doomed, Ref
    <2>8. \A j \in IDs : PayloadOK(j)'
      BY <1>0, <2>3 DEF PayloadOK, IInv, Ref, Doomed
    <2>9. \A q \in Procs : ino[i] = 0 /\ Has(loc[q], i) => pc[q] = "rename" /\ ~loc[q].owned
      BY Process DEF Counts, Aware
    <2>10. \A j \in IDs : OneOwner(j)'
      <3>1. OneOwner(i)'
        <4>1. ino'[i] <= 1 => ino[i] = 0
          BY <2>3
        <4> QED BY <2>2, <2>9, <4>1 DEF OneOwner, Moves
      <3>2. ASSUME NEW j \in IDs \ {i}
            PROVE  OneOwner(j)'
        <4>1. \A q \in Procs : Has(loc'[q], j) => loc'[q] = loc[q]
          BY <1>1, <2>1, <2>2 DEF Moves, Has
        <4> QED BY <2>3, <4>1 DEF OneOwner, IInv
      <3> QED BY <3>1, <3>2
    <2>11. \A j \in IDs : Has(r, j) => Counts("publish", r, j)'
      <3>1. Counts("publish", r, i)'
        <4>1. Alive(i)' => ino[i] = 0
          BY <2>3 DEF Alive
        <4>2. ino[i] = 0 => ~Ref(i)' /\ i \notin tokens' \cup lost'
          BY <1>0 DEF IInv, PayloadOK, Ref
        <4> QED BY <2>1, <2>3, <4>1, <4>2 DEF Counts
      <3> QED BY <1>1, <2>1, <3>1 DEF Has
    <2>12. \A j \in IDs, q \in Procs \ {p} : Has(loc[q], j) => Counts(pc[q], loc[q], j)'
      <3> TAKE j \in IDs, q \in Procs \ {p}
      <3>1. CASE Steady(j)
        BY <2>2, <3>1, OthersCount
      <3>2. CASE ~Steady(j) /\ Has(loc[q], j)
        <4>1. j = i /\ pc'[q] = "rename"
          BY <2>2, <2>6, <2>7, <2>9, <3>2 DEF Moves
        <4> QED BY <2>3, <4>1 DEF Counts
      <3> QED BY <3>1, <3>2
    <2>13. \A j \in IDs : PayloadOK(j)' /\ OneOwner(j)'
      BY <2>8, <2>10
    <2> QED BY <2>2, <2>4, <2>5, <2>11, <2>12, <2>13, StepKeeps
  <1> QED BY <1>0, <1>1, <1>3, <1>4, <1>5 DEF PublishRootFS

\* A failed import takes its tree back: no first tree is left.
LEMMA TakingBack ==
  ASSUME IInv, NEW p \in Procs, ImportRollback(p)
  PROVE  IInv'
  <1>0. pc[p] = "undo" /\ Counted /\ UNCHANGED <<recs, tokens, lost, ino>> /\ TypeOK
    BY AtCounted DEF IInv, ImportRollback, store
  <1>1. PICK i \in IDs : loc[p].img # None /\ loc[p].img.pay = i
    BY <1>0, Process DEF Aware, Importing
  <1>2. ino[i] # 0
    BY <1>0, <1>1, Process DEF Counts, Has
  <1>3. /\ dir' \in [Payloads -> DirStates] /\ ~HasRootFS(dir'[i])
        /\ \A j \in IDs \ {i} : dir'[j] = dir[j]
    BY <1>0, <1>1, NamesAssumption DEF ImportRollback, TypeOK, Payloads, DirStates, HasRootFS
  <1>4. Moves(p, "idle", Idle) /\ Return(p)
    BY <1>0, Returning DEF ImportRollback
  <1>5. TypeOK' /\ DanglingIsOwn'
    BY <1>0, <1>3, <1>4, Typed DEF IInv, TypeOK, DanglingIsOwn
  <1>6. \A j \in IDs : Steady(j) /\ PayloadOK(j)'
    BY <1>0, <1>2, <1>3 DEF Steady, Alive, Doomed, Ref, IInv, PayloadOK, HasRootFS
  <1> QED BY <1>0, <1>4, <1>5, <1>6, SteadyEnd

\* What may become of the records of payloads: none is lost, and one that had none
\* has no sidecar when it gets its first.
Republishes(new, x) ==
  /\ new \in [Keys -> Images \cup {None}]
  /\ \A i \in IDs : new[i] # None => new[i].pay = i
  /\ \A i \in IDs : Ref(i) => Referenced(new, i)
  /\ \A i \in IDs : Referenced(new, i) /\ ~Ref(i) => i = x /\ i \notin tokens

\* The displaced payload is recorded under its ID before its name is taken.
LEMMA KeptRecords ==
  ASSUME IInv, NEW key \in Tags, NEW img \in Images, ~DisplacementBlocked(key, img)
  PROVE  /\ Republishes(preserveDisplaced(key, img), img.pay)
         /\ \A k \in Keys : recs[k] # None => preserveDisplaced(key, img)[k] = recs[k]
         /\ Displaces(key, img) => /\ recs[key].pay \in IDs
                                   /\ preserveDisplaced(key, img)[recs[key].pay] # None
                                   /\ preserveDisplaced(key, img)[recs[key].pay].pay = recs[key].pay
  <1> DEFINE kept == preserveDisplaced(key, img)
  <1>0. recs \in [Keys -> Images \cup {None}] /\ DanglingIsOwn /\ key \in Keys
    BY DEF IInv, TypeOK, Keys
  <1>1. CASE ~Displaces(key, img)
    <2>1. kept = recs
      BY <1>1 DEF preserveDisplaced
    <2> QED BY <1>0, <1>1, <2>1 DEF Republishes, DanglingIsOwn, Ref
  <1>2. CASE Displaces(key, img)
    <2>1. recs[key] \in Images /\ recs[key].pay # Ext /\ recs[key] # None
      BY <1>0, <1>2 DEF Displaces, DisplacementBlocked
    <2>2. PICK d \in IDs : d = recs[key].pay
      BY <2>1 DEF Images, Payloads
    <2>3. d # key /\ d \in Keys
      BY NamesAssumption DEF Keys
    <2>4. recs[d] = None
      <3>1. Holding(recs, d) = {key}
        BY <1>2, <2>2 DEF Displaces
      <3> QED BY <1>0, <2>3, <3>1 DEF Holding, DanglingIsOwn
    <2> DEFINE moved == [recs[key] EXCEPT !.tagged = FALSE]
    <2>m. moved \in Images /\ moved.pay = d /\ moved # None
      BY <2>1, <2>2, NoneAssumption DEF Images
    <2>5. kept = [recs EXCEPT ![d] = moved]
      BY <1>2, <2>2 DEF preserveDisplaced
    <2> HIDE DEF moved
    <2>6. kept[d] = moved /\ \A k \in Keys \ {d} : kept[k] = recs[k]
      BY <1>0, <2>3, <2>5
    <2>7. kept \in [Keys -> Images \cup {None}]
      BY <1>0, <2>m, <2>5
    <2>8. \A i \in IDs : kept[i] # None => kept[i].pay = i
      BY <1>0, <2>m, <2>6 DEF DanglingIsOwn, Keys
    <2>9. \A k \in Keys : recs[k] # None => kept[k] = recs[k]
      BY <2>4, <2>6
    <2>10. \A i \in IDs : Ref(i) => Referenced(kept, i)
      BY <2>9 DEF Ref, Referenced, Holding
    <2>11. \A i \in IDs : Referenced(kept, i) => Ref(i)
      BY <1>0, <2>m, <2>1, <2>2, <2>3, <2>6 DEF Ref, Referenced, Holding
    <2> QED BY <2>m, <2>2, <2>6, <2>7, <2>8, <2>9, <2>10, <2>11 DEF Republishes
  <1> QED BY <1>1, <1>2

\* publishImageUnlocked, whatever it returns.
LEMMA PublishedRecords ==
  ASSUME IInv, NEW key \in Tags, NEW img \in Images, NEW o \in publishImageUnlocked(key, img)
  PROVE  Republishes(o[1], img.pay)
  <1> DEFINE kept == preserveDisplaced(key, img)
             done == [kept EXCEPT ![key] = img]
  <1>0. recs \in [Keys -> Images \cup {None}] /\ DanglingIsOwn /\ key \in Keys /\ img # None
    BY NoneAssumption DEF IInv, TypeOK, Keys
  <1>1. Republishes(recs, img.pay)
    BY <1>0 DEF Republishes, DanglingIsOwn, Ref
  <1>2. CASE DisplacementBlocked(key, img)
    BY <1>1, <1>2 DEF publishImageUnlocked
  <1>3. CASE ~DisplacementBlocked(key, img)
    <2>1. /\ Republishes(kept, img.pay)
          /\ \A k \in Keys : recs[k] # None => kept[k] = recs[k]
          /\ Displaces(key, img) => /\ recs[key].pay \in IDs
                                    /\ kept[recs[key].pay] # None
                                    /\ kept[recs[key].pay].pay = recs[key].pay
      BY <1>3, KeptRecords
    <2> HIDE DEF kept
    <2>2. CASE saveAdmits(img)
      <3>0. kept \in [Keys -> Images \cup {None}]
        BY <2>1 DEF Republishes
      <3>1. /\ done \in [Keys -> Images \cup {None}] /\ done[key] = img
            /\ \A k \in Keys \ {key} : done[k] = kept[k]
        BY <1>0, <3>0
      <3> HIDE DEF done
      <3>2. \A i \in IDs : i # key
        BY NamesAssumption
      <3>3. \A i \in IDs : done[i] # None => done[i].pay = i
        BY <2>1, <3>1, <3>2 DEF Republishes, Keys
      <3>4. ASSUME NEW i \in IDs, Ref(i)
            PROVE  Referenced(done, i)
        <4>1. PICK k \in Keys : recs[k] # None /\ recs[k].pay = i
          BY <3>4 DEF Ref, Referenced, Holding
        <4>2. CASE k # key
          BY <2>1, <3>1, <4>1, <4>2 DEF Referenced, Holding
        <4>3. CASE k = key /\ img.pay = i
          BY <1>0, <3>1, <4>3 DEF Referenced, Holding
        <4>4. CASE k = key /\ img.pay # i /\ Holding(recs, i) = {key}
          <5>1. Displaces(key, img)
            BY <4>1, <4>4 DEF Displaces
          <5>2. kept[i] # None /\ kept[i].pay = i /\ i # key /\ i \in Keys
            BY <2>1, <3>2, <4>1, <4>4, <5>1 DEF Keys
          <5> QED BY <3>1, <4>1, <4>4, <5>2 DEF Referenced, Holding
        <4>5. CASE k = key /\ Holding(recs, i) # {key}
          <5>1. PICK m \in Holding(recs, i) : m # key
            BY <1>0, <4>1, <4>5 DEF Holding
          <5> QED BY <2>1, <3>1, <5>1 DEF Referenced, Holding
        <4> QED BY <4>2, <4>3, <4>4, <4>5
      <3>5. ASSUME NEW i \in IDs, Referenced(done, i), ~Ref(i)
            PROVE  i = img.pay /\ i \notin tokens
        <4>1. PICK k \in Keys : done[k] # None /\ done[k].pay = i
          BY <3>5 DEF Referenced, Holding
        <4>2. CASE k # key
          BY <2>1, <3>1, <3>5, <4>1, <4>2 DEF Republishes, Referenced, Holding
        <4>3. CASE k = key
          BY <2>2, <3>1, <4>1, <4>3 DEF saveAdmits
        <4> QED BY <4>2, <4>3
      <3>6. Republishes(done, img.pay)
        BY <3>1, <3>3, <3>4, <3>5 DEF Republishes
      <3>7. o[1] \in {recs, kept, done}
        BY <1>3, <2>2 DEF publishImageUnlocked, kept, done
      <3> QED BY <1>1, <2>1, <3>6, <3>7
    <2>3. CASE ~saveAdmits(img)
      <3>1. o[1] \in {recs, kept}
        BY <1>3, <2>3 DEF publishImageUnlocked, kept
      <3> QED BY <1>1, <2>1, <3>1
    <2> QED BY <2>2, <2>3
  <1> QED BY <1>2, <1>3

\* A record for a payload that has none comes from the import that made it, or
\* after a SaveImage has hidden it.
FirstRecord(p, x) ==
  \A i \in IDs : i = x =>
    /\ ino[i] # 0
    /\ ~Ref(i) /\ i \notin tokens /\ Alive(i) => i \in lost \/ (Has(loc[p], i) /\ loc[p].owned)

\* A call of PublishImage leaves the invariant to its caller.
LEMMA Publishing ==
  ASSUME IInv, NEW p \in Procs, NEW key \in Tags, NEW img \in Images, NEW bad \in {"idle", "check"},
         Publish(p, key, img, bad), Counted, lost' = lost, FirstRecord(p, img.pay),
         bad = "check" => pc[p] = "publish" /\ loc[p].owned
  PROVE  IInv'
  <1>1. PICK new : recs' = new /\ Republishes(new, img.pay)
    BY PublishedRecords DEF Publish
  <1>2. UNCHANGED <<tokens, dir, ino, lost>>
    BY DEF Publish, disk
  <1> DEFINE Fine(l, r) ==
        /\ Moves(p, l, r) /\ Aware(l, r) /\ (r.owned => loc[p].owned /\ r.img = loc[p].img)
        /\ \/ l = "check" /\ r = loc[p] /\ pc[p] = "publish"
           \/ l = "idle" /\ r.img = None
  <1>3. PICK l \in Labels, r \in Locals : Fine(l, r)
    <2>1. CASE Return(p)
      <3>1. Aware("idle", Idle)
        BY IdleLocals DEF Aware, Importing, Removing, RemovingExt, Between
      <3> QED BY <2>1, <3>1, Returning, IdleLocals DEF IInv
    <2>2. CASE bad = "check" /\ Goto(p, "check") /\ Keep
      <3>1. Aware("check", loc[p]) /\ "check" \in Labels
        BY <2>2, Process DEF Aware, Labels, Importing, Removing, RemovingExt, Between
      <3>2. Moves(p, "check", loc[p]) /\ loc[p] \in Locals /\ pc[p] = "publish"
        BY <2>2, <3>1, Keeping, Process
      <3>3. Fine("check", loc[p])
        BY <3>1, <3>2
      <3> HIDE DEF Fine
      <3> QED BY <3>1, <3>2, <3>3
    <2> QED BY <2>1, <2>2 DEF Publish
  <1>4. /\ new \in [Keys -> Images \cup {None}] /\ \A i \in IDs : new[i] # None => new[i].pay = i
        /\ \A i \in IDs : Ref(i) => Ref(i)'
        /\ \A i \in IDs : Ref(i)' /\ ~Ref(i) => i = img.pay /\ i \notin tokens
    BY <1>1 DEF Republishes, Ref
  <1>5. TypeOK' /\ DanglingIsOwn'
    BY <1>1, <1>2, <1>3, <1>4, Typed DEF IInv, TypeOK, DanglingIsOwn
  <1>6. \A i \in IDs : PayloadOK(i)'
    BY <1>2, <1>4 DEF PayloadOK, IInv, FirstRecord, Doomed
  <1>7. \A i \in IDs : OneOwner(i)'
    BY <1>2, <1>3, OwnersKeep
  <1>8. \A i \in IDs : Has(r, i) => Counts(l, r, i)'
    <2> SUFFICES ASSUME NEW i \in IDs, Has(r, i)
                 PROVE  Counts(l, r, i)'
      OBVIOUS
    <2>1. l = "check" /\ pc[p] = "publish" /\ Has(loc[p], i)
      BY <1>3 DEF Has
    <2>2. ino[i] # 0
      BY <2>1, Process DEF Counts
    <2> QED BY <1>2, <2>1, <2>2 DEF Counts
  <1>9. \A i \in IDs, q \in Procs \ {p} : Has(loc[q], i) => Counts(pc[q], loc[q], i)'
    <2> SUFFICES ASSUME NEW i \in IDs, NEW q \in Procs \ {p}, Has(loc[q], i)
                 PROVE  Counts(pc[q], loc[q], i)'
      OBVIOUS
    <2>1. CASE Steady(i)
      BY <1>3, <2>1, OthersCount
    <2>2. CASE ~Steady(i)
      <3>1. i = img.pay /\ i \notin tokens /\ ~Ref(i) /\ Ref(i)' /\ Alive(i)
        BY <1>2, <1>4, <2>2 DEF Steady, Alive, Doomed
      <3>2. ino[i] = 1 /\ (i \in lost \/ (Has(loc[p], i) /\ loc[p].owned))
        BY <3>1 DEF FirstRecord, Alive
      <3>3. i \notin lost => ~loc[q].owned
        BY <3>2 DEF IInv, OneOwner
      <3>4. Counts(pc[q], loc[q], i) /\ Aware(pc[q], loc[q]) /\ pc'[q] = pc[q] /\ loc'[q] = loc[q]
        BY <1>3, Process DEF Moves
      <3>5. ~(pc[q] = "publish" /\ loc[q].owned) /\ (pc[q] = "undo" => i \in lost)
        BY <3>1, <3>3, <3>4 DEF Counts, Aware
      <3>6. pc[q] \notin {"contents", "unlink"} /\ ~(pc[q] = "pin" /\ loc[q].ret = "reference")
        BY <3>1, <3>4 DEF Counts, Doomed
      <3>7. Alive(i)' /\ lost' = lost /\ ino'[i] = 1
        BY <1>2, <3>1, <3>2 DEF Alive
      <3> QED BY <3>1, <3>2, <3>4, <3>5, <3>6, <3>7 DEF Counts
    <2> QED BY <2>1, <2>2
  <1> QED BY <1>3, <1>5, <1>6, <1>7, <1>8, <1>9, StepKeeps

\* The import publishes its record, or the storage has moved under it.
LEMMA ImportPublishing ==
  ASSUME IInv, NEW p \in Procs, ImportPublish(p)
  PROVE  IInv'
  <1>0. pc[p] = "publish" /\ lost' = lost /\ UNCHANGED <<clock, crashes>>
    BY DEF ImportPublish, At
  <1>1. PICK i \in IDs : loc[p].img # None /\ loc[p].img.pay = i
    BY <1>0, Process DEF Aware, Importing
  <1>2. /\ loc[p] \in Locals /\ loc[p].sel \in Tags /\ loc[p].img \in Images /\ TypeOK
        /\ Counts("publish", loc[p], i) /\ Aware("publish", loc[p])
    BY <1>0, <1>1, Process DEF Aware, Importing, Has, Locals
  <1>3. Fault \/ NoFault
    BY DEF ImportPublish, Publish
  <1>4. Counted
    BY <1>0, <1>2, <1>3, FaultTyped DEF Counted, TypeOK
  <1>5. CASE Publish(p, loc[p].sel, loc[p].img, IF loc[p].owned THEN "check" ELSE "idle")
    <2>1. FirstRecord(p, loc[p].img.pay)
      BY <1>1, <1>2 DEF FirstRecord, Counts, Has
    <2>2. (IF loc[p].owned THEN "check" ELSE "idle") \in {"idle", "check"}
      OBVIOUS
    <2>3. (IF loc[p].owned THEN "check" ELSE "idle") = "check" => loc[p].owned
      OBVIOUS
    <2> QED BY <1>0, <1>2, <1>4, <1>5, <2>1, <2>2, <2>3, Publishing
  <1>6. CASE /\ UNCHANGED <<store, disk>>
             /\ IF loc[p].owned THEN Goto(p, "undo") /\ Keep ELSE Return(p)
    <2>1. Quietly
      BY <1>0, <1>2, <1>4, <1>6 DEF Quietly, store, disk, TypeOK
    <2>2. CASE ~loc[p].owned
      BY <1>6, <2>1, <2>2, QuietReturn
    <2>3. CASE loc[p].owned
      <3>1. "undo" \in Labels /\ Aware("undo", loc[p])
        BY <1>2, <2>3 DEF Labels, Aware, Importing, Removing, RemovingExt, Between
      <3>2. \A j \in IDs : Has(loc[p], j) => Counts("undo", loc[p], j)
        BY <1>1, <1>2, <2>3 DEF Has, Counts
      <3> QED BY <1>6, <2>1, <2>3, <3>1, <3>2, QuietGoto
    <2> QED BY <2>2, <2>3
  <1> QED BY <1>5, <1>6 DEF ImportPublish

\* A tag publishes the record that its source still is.
LEMMA Tagging ==
  ASSUME IInv, NEW p \in Procs, NEW t \in Tags, PublishImageIfSourceMatch(p, t)
  PROVE  IInv'
  <1>0. pc[p] = "alias" /\ lost' = lost /\ UNCHANGED <<clock, crashes>>
    BY DEF PublishImageIfSourceMatch, At
  <1>1. loc[p] \in Locals /\ loc[p].img # None /\ loc[p].sel \in Keys /\ TypeOK
    BY <1>0, Process DEF Aware
  <1>2. Fault \/ NoFault
    BY DEF PublishImageIfSourceMatch, Publish
  <1>3. Counted
    BY <1>0, <1>1, <1>2, FaultTyped DEF Counted, TypeOK
  <1>4. CASE /\ loc[p].key \in resolveImageForRead(recs, loc[p].sel) /\ recs[loc[p].key] = loc[p].img
             /\ Publish(p, t, [loc[p].img EXCEPT !.tagged = TRUE], "idle")
    <2> DEFINE new == [loc[p].img EXCEPT !.tagged = TRUE]
    <2>1. /\ loc[p].img \in Images
          /\ \A i \in IDs : loc[p].img.pay = i => Ref(i) /\ ino[i] # 0
      BY <1>1, <1>4, ResolvedIsRecorded
    <2>2. new \in Images /\ new.pay = loc[p].img.pay
      BY <2>1 DEF Images
    <2> HIDE DEF new
    <2>3. FirstRecord(p, new.pay)
      BY <2>1, <2>2 DEF FirstRecord
    <2>4. Publish(p, t, new, "idle")
      BY <1>4 DEF new
    <2> QED BY <1>0, <1>3, <2>2, <2>3, <2>4, Publishing
  <1>5. CASE UNCHANGED <<store, disk>> /\ Return(p)
    BY <1>0, <1>1, <1>3, <1>5, QuietReturn DEF Quietly, store, disk, TypeOK
  <1> QED BY <1>4, <1>5 DEF PublishImageIfSourceMatch

\* A plain SaveImage hides what its name named.
LEMMA Saving ==
  ASSUME IInv, NEW p \in Procs, SaveImage(p)
  PROVE  IInv'
  <1>0. /\ pc[p] = "save" /\ UNCHANGED <<tokens, dir, ino, clock, crashes>> /\ Return(p)
        /\ lost' = lost \cup {i \in IDs : Ref(i) /\ ~Ref(i)'}
    BY DEF SaveImage, disk, Ref
  <1>1. /\ loc[p] \in Locals /\ loc[p].sel \in Tags /\ loc[p].img \in Images /\ loc[p].img.pay = Ext
        /\ loc[p].sel \in Keys /\ TypeOK
    BY <1>0, Process DEF Aware, Locals, Keys
  <1>2. Counted
    BY <1>0, <1>1, FaultTyped DEF Counted, TypeOK, SaveImage
  <1>3. /\ recs' \in [Keys -> Images \cup {None}]
        /\ \A k \in Keys : recs'[k] = recs[k] \/ (k \in Tags /\ recs'[k].pay = Ext)
    BY <1>1 DEF SaveImage, TypeOK
  <1>4. \A i \in IDs : i # Ext /\ i \notin Tags /\ i \in Keys
    BY NamesAssumption DEF Keys
  <1>5. \A i \in IDs : Ref(i)' => Ref(i)
    BY <1>3, <1>4 DEF Ref, Referenced, Holding
  <1>6. Moves(p, "idle", Idle) /\ lost' \subseteq IDs /\ lost \subseteq lost'
    BY <1>0, <1>1, Returning DEF TypeOK
  <1>7. TypeOK' /\ DanglingIsOwn'
    BY <1>0, <1>2, <1>3, <1>4, <1>6, Typed DEF IInv, TypeOK, DanglingIsOwn
  <1>8. \A i \in IDs : Steady(i)
    BY <1>0, <1>5, <1>6 DEF Steady, Alive, Doomed
  <1>9. \A i \in IDs : PayloadOK(i)'
    BY <1>0, <1>5 DEF PayloadOK, Doomed, IInv
  <1> QED BY <1>0, <1>7, <1>8, <1>9, SteadyEnd

\* What an unlinked record under k leaves of the others.
LEMMA Unrecording ==
  ASSUME IInv, NEW k \in Keys, NEW x, recs[k] # None, recs[k].pay = x,
         recs' \in {recs, [recs EXCEPT ![k] = None]}
  PROVE  /\ recs' \in [Keys -> Images \cup {None}] /\ DanglingIsOwn'
         /\ \A i \in IDs \ {x} : Ref(i)' <=> Ref(i)
         /\ x \in IDs => Ref(x)
         /\ x \in IDs /\ Holding(recs, x) # {k} => Ref(x)'
         /\ x \in IDs /\ recs' # recs /\ Holding(recs, x) = {k} => ~Ref(x)'
  <1>1. recs \in [Keys -> Images \cup {None}] /\ DanglingIsOwn
    BY DEF IInv, TypeOK
  <1>2. CASE recs' = recs
    BY <1>1, <1>2 DEF DanglingIsOwn, Ref, Referenced, Holding
  <1>3. CASE recs' = [recs EXCEPT ![k] = None]
    <2>1. recs' \in [Keys -> Images \cup {None}] /\ recs'[k] = None /\ \A m \in Keys \ {k} : recs'[m] = recs[m]
      BY <1>1, <1>3
    <2>2. DanglingIsOwn'
      BY <1>1, <2>1 DEF DanglingIsOwn, Keys
    <2>3. \A i \in IDs \ {x} : Ref(i)' <=> Ref(i)
      BY <2>1 DEF Ref, Referenced, Holding
    <2>4. Holding(recs', x) = Holding(recs, x) \ {k} /\ k \in Holding(recs, x)
      BY <2>1 DEF Holding
    <2> QED BY <2>1, <2>2, <2>3, <2>4 DEF Ref, Referenced
  <1> QED BY <1>2, <1>3

\* The last record goes only after the sidecar has come.
LEMMA DeletingTheRecord ==
  ASSUME IInv, NEW p \in Procs, RemoveDelete(p)
  PROVE  IInv'
  <1>0. pc[p] = "delete" /\ lost' = lost /\ UNCHANGED <<dir, ino, clock, crashes>>
    BY DEF RemoveDelete, At, disk
  <1>1. PICK x \in IDs : loc[p].img # None /\ loc[p].img.pay = x
    BY <1>0, Process DEF Aware, Removing
  <1>2. /\ loc[p] \in Locals /\ TypeOK /\ loc[p].key \in Keys
        /\ Counts("delete", loc[p], x) /\ Aware("delete", loc[p])
    BY <1>0, <1>1, Process DEF Aware, Has
  <1>3. Fault \/ NoFault
    BY DEF RemoveDelete
  <1>4. Counted
    BY <1>0, <1>2, <1>3, FaultTyped DEF Counted, TypeOK
  <1>5. CASE UNCHANGED store /\ Return(p)
    BY <1>0, <1>2, <1>4, <1>5, QuietReturn DEF Quietly, store, TypeOK
  <1>6. ASSUME StillMatches(p), NEW o \in DeleteImageIfMatchWithCleanup(loc[p].key, x),
               recs' = o[1], tokens' = o[2],
               \/ o[3] = "ok" /\ Goto(p, "contents") /\ Keep
               \/ o[3] # "ok" /\ (Continue(p) \/ Return(p))
        PROVE  IInv'
    <2>1. PICK k \in Keys : k = loc[p].key /\ recs[k] # None /\ recs[k].pay = x
      BY <1>1, <1>2, <1>6 DEF StillMatches
    <2>2. /\ recs' \in {recs, [recs EXCEPT ![k] = None]} /\ tokens' \in {tokens, tokens \cup {x}}
          /\ Holding(recs, x) = {k} /\ recs' # recs => x \in tokens'
          /\ o[3] = "ok" => Holding(recs, x) = {k} /\ x \in tokens' /\ recs' = [recs EXCEPT ![k] = None]
      BY <1>6, <2>1 DEF DeleteImageIfMatchWithCleanup
    <2>3. /\ recs' \in [Keys -> Images \cup {None}] /\ DanglingIsOwn' /\ tokens' \subseteq IDs
          /\ \A i \in IDs \ {x} : (Ref(i)' <=> Ref(i)) /\ (i \in tokens' <=> i \in tokens)
          /\ Ref(x) /\ (Ref(x)' \/ x \in tokens')
          /\ o[3] = "ok" => ~Ref(x)' /\ x \in tokens'
      <3>1. [recs EXCEPT ![k] = None] # recs
        BY <1>2, <2>1 DEF TypeOK
      <3>2. /\ recs' \in [Keys -> Images \cup {None}] /\ DanglingIsOwn'
            /\ \A i \in IDs \ {x} : Ref(i)' <=> Ref(i)
            /\ Ref(x) /\ (Holding(recs, x) # {k} => Ref(x)')
            /\ recs' # recs /\ Holding(recs, x) = {k} => ~Ref(x)'
        BY <2>1, <2>2, Unrecording
      <3>3. recs' = recs => Ref(x)'
        BY <3>2 DEF Ref
      <3>4. tokens' \subseteq IDs /\ \A i \in IDs \ {x} : i \in tokens' <=> i \in tokens
        BY <1>2, <2>2 DEF TypeOK
      <3> QED BY <2>2, <3>1, <3>2, <3>3, <3>4
    <2>4. \A i \in IDs : Steady(i) /\ PayloadOK(i)'
      <3>1. Steady(x)
        BY <1>0, <2>3 DEF Steady, Alive, Doomed
      <3>2. PayloadOK(x)'
        BY <1>0, <2>3 DEF PayloadOK, IInv, Doomed
      <3>3. \A i \in IDs \ {x} : Steady(i) /\ PayloadOK(i)'
        BY <1>0, <2>3 DEF Steady, Alive, Doomed, PayloadOK, IInv
      <3> QED BY <3>1, <3>2, <3>3
    <2>5. CASE Return(p) \/ Continue(p)
      <3>1. \E l, r : Moves(p, l, r)
        BY <1>2, <2>5, Returning, Continuing
      <3>2. TypeOK'
        BY <1>0, <1>2, <1>4, <2>3, <3>1, Typed DEF TypeOK
      <3> QED BY <1>0, <2>3, <2>4, <2>5, <3>2, SteadyEnd
    <2>6. CASE o[3] = "ok" /\ Goto(p, "contents") /\ Keep
      <3>1. PICK r \in Locals : r = loc[p]
        BY <1>2
      <3>2. Moves(p, "contents", r)
        BY <1>2, <2>6, <3>1, Keeping DEF Labels
      <3>3. Aware("contents", r)
        BY <1>2, <3>1 DEF Aware, Importing, Removing, RemovingExt, Between
      <3>4. \A i \in IDs : Has(r, i) => Counts("contents", r, i)'
        <4>1. Counts("contents", r, x)'
          BY <1>0, <1>2, <2>3, <2>6, <3>1 DEF Counts, Alive, Doomed
        <4> QED BY <1>1, <3>1, <4>1 DEF Has
      <3>5. TypeOK'
        BY <1>0, <1>2, <1>4, <2>3, <3>2, Typed DEF TypeOK
      <3> QED BY <1>0, <2>3, <2>4, <3>1, <3>2, <3>3, <3>4, <3>5, SteadyStep
    <2> QED BY <1>6, <2>5, <2>6
  <1>7. \A o \in DeleteImageIfMatchWithCleanup(loc[p].key, x) : o[3] \in {"ok", "alias", "failed"}
    BY DEF DeleteImageIfMatchWithCleanup
  <1> QED BY <1>1, <1>5, <1>6, <1>7 DEF RemoveDelete

\* The record of a pulled directory concerns no managed payload.
LEMMA DeletingThePulled ==
  ASSUME IInv, NEW p \in Procs, RemoveDeleteExt(p)
  PROVE  IInv'
  <1>0. pc[p] = "deleteExt" /\ lost' = lost /\ UNCHANGED <<tokens, dir, ino, clock, crashes>>
    BY DEF RemoveDeleteExt, At, disk
  <1>1. /\ loc[p] \in Locals /\ TypeOK /\ loc[p].key \in Keys /\ loc[p].img # None
        /\ loc[p].img.pay = Ext /\ Aware("deleteExt", loc[p])
    BY <1>0, Process DEF Aware, RemovingExt
  <1>2. Counted
    <2>1. Fault \/ NoFault
      BY DEF RemoveDeleteExt
    <2> QED BY <1>0, <1>1, <2>1, FaultTyped DEF Counted, TypeOK
  <1>3. CASE recs' = recs /\ Return(p)
    BY <1>0, <1>1, <1>2, <1>3, QuietReturn DEF Quietly, TypeOK
  <1>4. CASE /\ StillMatches(p) /\ recs' \in {recs, [recs EXCEPT ![loc[p].key] = None]}
             /\ (Goto(p, "remaining") /\ Keep) \/ Return(p)
    <2>1. PICK k \in Keys : k = loc[p].key /\ recs[k] # None /\ recs[k].pay = Ext
      BY <1>1, <1>4 DEF StillMatches
    <2>2. /\ recs' \in [Keys -> Images \cup {None}] /\ DanglingIsOwn'
          /\ \A i \in IDs : Ref(i)' <=> Ref(i)
      BY <1>4, <2>1, Unrecording, NamesAssumption
    <2>3. \A i \in IDs : Steady(i) /\ PayloadOK(i)'
      BY <1>0, <2>2 DEF Steady, Alive, Doomed, PayloadOK, IInv
    <2>4. CASE Return(p)
      BY <1>0, <1>1, <1>2, <2>2, <2>3, <2>4, Returning, Typed, SteadyEnd DEF TypeOK
    <2>5. CASE Goto(p, "remaining") /\ Keep
      <3>1. PICK r \in Locals : r = loc[p]
        BY <1>1
      <3>2. Moves(p, "remaining", r)
        BY <1>1, <2>5, <3>1, Keeping DEF Labels
      <3>3. Aware("remaining", r)
        BY <1>1, <3>1 DEF Aware, Importing, Removing, RemovingExt, Between
      <3>4. \A i \in IDs : ~Has(r, i)
        BY <1>1, <3>1, NamesAssumption DEF Has
      <3>5. TypeOK'
        BY <1>0, <1>1, <1>2, <2>2, <3>2, Typed DEF TypeOK
      <3> QED BY <1>0, <2>2, <2>3, <3>1, <3>2, <3>3, <3>4, <3>5, SteadyStep
    <2> QED BY <1>4, <2>4, <2>5
  <1> QED BY <1>3, <1>4 DEF RemoveDeleteExt

\* The steps on the pinned tree: it is emptied, then unlinked, and its first
\* emptying needs the sidecar.
LEMMA Emptying ==
  ASSUME IInv, NEW p \in Procs, RemoveContents(p) \/ RemoveUnlink(p)
  PROVE  IInv'
  <1>0. /\ pc[p] \in {"contents", "unlink"} /\ lost' = lost
        /\ UNCHANGED <<recs, tokens, ino, clock, crashes>>
    BY DEF RemoveContents, RemoveUnlink, At, store
  <1>1. PICK x \in IDs : loc[p].img # None /\ loc[p].img.pay = x
    BY <1>0, Process DEF Aware, Removing
  <1>2. /\ loc[p] \in Locals /\ TypeOK /\ Counts(pc[p], loc[p], x) /\ Aware(pc[p], loc[p])
    BY <1>0, <1>1, Process DEF Has
  <1>3. Counted
    <2>1. Fault \/ NoFault
      BY DEF RemoveContents, RemoveUnlink
    <2> QED BY <1>0, <1>2, <2>1, FaultTyped DEF Counted, TypeOK
  <1>4. /\ dir' \in [Payloads -> DirStates] /\ \A i \in IDs \ {x} : dir'[i] = dir[i]
        /\ dir'[x] = dir[x] \/ (HasRootFS(dir[x]) /\ dir'[x] \in {"partial", "empty", "bare"})
    BY <1>0, <1>1, <1>2 DEF RemoveContents, RemoveUnlink, TypeOK, DirStates, HasRootFS, Payloads
  <1>5. \A i \in IDs : Steady(i) /\ PayloadOK(i)'
    <2>1. \A i \in IDs \ {x} : Steady(i) /\ PayloadOK(i)'
      BY <1>0, <1>4 DEF Steady, Alive, Doomed, Ref, PayloadOK, IInv
    <2>2. Steady(x)
      BY <1>0, <1>4 DEF Steady, Alive, Doomed, Ref
    <2>3. PayloadOK(x)'
      BY <1>0, <1>2, <1>4 DEF Counts, Alive, PayloadOK, IInv, Doomed, Ref
    <2> QED BY <2>1, <2>2, <2>3
  <1>6. DanglingIsOwn'
    BY <1>0 DEF IInv, DanglingIsOwn
  <1>7. CASE Return(p)
    BY <1>0, <1>2, <1>3, <1>4, <1>5, <1>6, <1>7, Returning, Typed, SteadyEnd DEF TypeOK
  <1>8. CASE /\ Keep
             /\ \/ loc[p].pin # 0 /\ pc[p] = "contents" /\ Goto(p, "unlink")
                \/ (loc[p].pin = 0 \/ dir'[x] = "bare") /\ Goto(p, "clear")
    <2>1. PICK r \in Locals, l \in {"unlink", "clear"} :
            /\ r = loc[p] /\ Goto(p, l)
            /\ l = "unlink" => loc[p].pin # 0 /\ pc[p] = "contents"
            /\ l = "clear" => loc[p].pin = 0 \/ dir'[x] = "bare"
      BY <1>2, <1>8
    <2>2. Moves(p, l, r)
      BY <1>2, <1>8, <2>1, Keeping DEF Labels
    <2>3. Aware(l, r)
      BY <1>0, <1>2, <2>1 DEF Aware, Importing, Removing, RemovingExt, Between
    <2>4. Counts(l, r, x)'
      <3>1. ino'[x] # 0 /\ (Alive(x)' => Alive(x) /\ dir'[x] # "bare")
        BY <1>0, <1>2, <1>4 DEF Counts, Alive, HasRootFS
      <3>2. Alive(x) => Doomed(x)' /\ loc[p].pin # 0
        BY <1>0, <1>2 DEF Counts, Doomed, Ref
      <3> QED BY <2>1, <3>1, <3>2 DEF Counts
    <2>5. \A i \in IDs : Has(r, i) => Counts(l, r, i)'
      BY <1>1, <2>1, <2>4 DEF Has
    <2>6. TypeOK'
      BY <1>0, <1>2, <1>3, <1>4, <2>2, Typed DEF TypeOK
    <2> QED BY <1>0, <1>5, <1>6, <2>1, <2>2, <2>3, <2>5, <2>6, SteadyStep
  <1>9. RemoveContents(p) => \/ Return(p)
                             \/ loc[p].pin # 0 /\ Goto(p, "unlink") /\ Keep
                             \/ loc[p].pin = 0 /\ Goto(p, "clear") /\ Keep
    BY DEF RemoveContents
  <1>10. RemoveUnlink(p) => Return(p) \/ (dir'[x] = "bare" /\ Goto(p, "clear") /\ Keep)
    BY <1>1, <1>2 DEF RemoveUnlink, TypeOK, Payloads
  <1>11. RemoveContents(p) => pc[p] = "contents"
    BY DEF RemoveContents, At
  <1> QED BY <1>7, <1>8, <1>9, <1>10, <1>11

\* The sidecar goes when the tree is gone.
LEMMA ClearingTheSidecar ==
  ASSUME IInv, NEW p \in Procs, RemoveClear(p)
  PROVE  IInv'
  <1>0. pc[p] = "clear" /\ UNCHANGED <<recs, dir, ino, lost, clock, crashes>>
    BY DEF RemoveClear, At, disk
  <1>1. PICK x \in IDs : loc[p].img # None /\ loc[p].img.pay = x
    BY <1>0, Process DEF Aware, Removing
  <1>2. TypeOK /\ Counts("clear", loc[p], x)
    BY <1>0, <1>1, Process DEF Has
  <1>3. tokens' \in {tokens, tokens \ {x}} /\ (Fault \/ NoFault) /\ (Return(p) \/ Continue(p))
    BY <1>1 DEF RemoveClear
  <1>4. Counted
    BY <1>0, <1>2, <1>3, FaultTyped DEF Counted, TypeOK
  <1>5. \E l, r : Moves(p, l, r)
    BY <1>2, <1>3, Returning, Continuing
  <1>6. TypeOK' /\ DanglingIsOwn'
    BY <1>0, <1>2, <1>3, <1>4, <1>5, Typed DEF TypeOK, IInv, DanglingIsOwn
  <1>7. \A i \in IDs : Steady(i) /\ PayloadOK(i)'
    <2>1. ~Alive(x) /\ ino[x] # 0
      BY <1>2 DEF Counts
    <2> QED BY <1>0, <1>3, <2>1 DEF Steady, Alive, Doomed, Ref, PayloadOK, IInv, HasRootFS
  <1> QED BY <1>0, <1>3, <1>6, <1>7, SteadyEnd

\* A sidecar is retired because its payload is in use, or acted upon.
LEMMA Recovering ==
  ASSUME IInv, NEW p \in Procs, PruneReference(p)
  PROVE  IInv'
  <1>0. pc[p] = "reference" /\ UNCHANGED <<dir, ino, lost, clock, crashes>>
    BY DEF PruneReference, At, disk
  <1>1. /\ loc[p] \in Locals /\ TypeOK /\ ~loc[p].owned /\ loc[p].img = None
        /\ loc[p].ret # "reference" /\ loc[p].todo \subseteq IDs \X {None}
    BY <1>0, Process DEF Aware, Between
  <1>2. CASE UNCHANGED store /\ NoFault /\ Goto(p, "dangling") /\ Keep
    <2>1. "dangling" \in Labels /\ Aware("dangling", loc[p])
      BY <1>0, Process DEF Labels, Aware, Importing, Removing, RemovingExt, Between
    <2>2. Quietly
      BY <1>0, <1>1, <1>2, FaultTyped DEF Quietly, Counted, store, TypeOK
    <2> QED BY <1>1, <1>2, <2>1, <2>2, QuietGoto DEF Has
  <1>3. ASSUME NEW t \in loc[p].todo, ClearImageCleanupIfReferenced(p, t[1])
        PROVE  IInv'
    <2>1. PICK i \in IDs : i = t[1] /\ t = <<i, None>>
      BY <1>1
    <2>2. ClearImageCleanupIfReferenced(p, i)
      BY <1>3, <2>1
    <2>3. recs' = recs /\ (Fault \/ NoFault)
      BY <2>2 DEF ClearImageCleanupIfReferenced, store
    <2>4. Counted
      BY <1>0, <1>1, <2>3, FaultTyped DEF Counted, TypeOK
    <2> DEFINE rest == [loc[p] EXCEPT !.todo = @ \ {<<i, None>>}]
    <2>5. /\ rest \in Locals /\ rest.img = None /\ ~rest.owned /\ rest.ret # "reference"
          /\ rest.todo \subseteq IDs \X {None}
      BY <1>1 DEF Locals
    <2>6. CASE tokens' = tokens /\ Goto(p, "reference") /\ Set(p, rest)
      <3>1. Quietly /\ "reference" \in Between
        BY <1>0, <1>1, <2>3, <2>4, <2>6 DEF Quietly, TypeOK, Between
      <3> HIDE DEF rest
      <3> QED BY <2>5, <2>6, <3>1, QuietBetween
    <2>7. CASE /\ i \in tokens /\ Ref(i) /\ tokens' \in {tokens, tokens \ {i}}
               /\ Return(p) \/ (Goto(p, "reference") /\ Set(p, rest))
      <3> HIDE DEF rest
      <3>1. PICK l \in Labels, r \in Locals :
              Moves(p, l, r) /\ Aware(l, r) /\ r.owned = FALSE /\ r.img = None
        <4>1. Aware("idle", Idle) /\ Aware("reference", rest) /\ "reference" \in Labels
          BY <2>5, IdleLocals DEF Aware, Importing, Removing, RemovingExt, Between, Labels
        <4>2. CASE Return(p)
          BY <1>1, <4>1, <4>2, Returning, IdleLocals
        <4>3. CASE Goto(p, "reference") /\ Set(p, rest)
          BY <1>1, <2>5, <4>1, <4>3, Moving
        <4> QED BY <2>7, <4>2, <4>3
      <3>2. TypeOK' /\ DanglingIsOwn'
        BY <1>0, <1>1, <2>3, <2>4, <2>7, <3>1, Typed DEF TypeOK, IInv, DanglingIsOwn
      <3>3. \A j \in IDs : Steady(j) /\ PayloadOK(j)'
        BY <1>0, <2>3, <2>7 DEF Steady, Alive, Doomed, Ref, PayloadOK, IInv
      <3>4. \A j \in IDs : ~Has(r, j)
        BY <3>1 DEF Has
      <3> QED BY <1>0, <3>1, <3>2, <3>3, <3>4, SteadyStep
    <2>8. CASE /\ i \in tokens /\ ~Ref(i) /\ tokens' = tokens /\ Goto(p, "pin")
               /\ Set(p, [rest EXCEPT !.ret = "reference", !.img = Payload(i)])
      <3> DEFINE img == Payload(i)
                 r == [rest EXCEPT !.ret = "reference", !.img = img]
      <3>1. img \in Images /\ img.pay = i /\ img # None
        <4>1. 0 \in 0..MaxClock /\ i \in Payloads
          BY BoundsAssumption DEF Payloads
        <4>2. img \in Images /\ img.pay = i
          BY <4>1 DEF Images, Payload
        <4> QED BY <4>2, NoneAssumption
      <3> HIDE DEF img, rest
      <3>2. r \in Locals /\ r.img = img /\ ~r.owned /\ r.ret = "reference" /\ r.todo = rest.todo
        BY <2>5, <3>1 DEF Locals
      <3>3. Goto(p, "pin") /\ Set(p, r) /\ "pin" \in Labels
        BY <2>8 DEF img, rest, Labels
      <3> HIDE DEF r
      <3>4. Moves(p, "pin", r)
        BY <1>1, <3>2, <3>3, Moving
      <3>5. Aware("pin", r)
        BY <2>5, <3>1, <3>2 DEF Aware, Importing, Removing, RemovingExt, Between
      <3>6. \A j \in IDs : Has(r, j) => Counts("pin", r, j)
        BY <2>8, <3>1, <3>2 DEF Has, Counts, Doomed, IInv, PayloadOK
      <3>7. Quietly
        BY <1>0, <1>1, <2>3, <2>4, <2>8 DEF Quietly, TypeOK
      <3> QED BY <3>2, <3>4, <3>5, <3>6, <3>7, QuietStep
    <2> QED BY <2>2, <2>6, <2>7, <2>8 DEF ClearImageCleanupIfReferenced, store, Ref
  <1> QED BY <1>2, <1>3 DEF PruneReference

-----------------------------------------------------------------------------
(* ImageStore: the theorems.                                               *)

\* Nothing has happened yet.
LEMMA InitIInv == Init => IInv
  <1> SUFFICES ASSUME Init
               PROVE  IInv
    OBVIOUS
  <1>1. TypeOK
    BY IdleLocals, BoundsAssumption DEF Init, TypeOK, DirStates, Labels
  <1>2. \A p \in Procs : Aware(pc[p], loc[p]) /\ ~loc[p].owned /\ \A i \in IDs : ~Has(loc[p], i)
    BY IdleLocals DEF Init, Aware, Has, Importing, Removing, RemovingExt, Between
  <1>3. \A i \in IDs : PayloadOK(i) /\ ~Ref(i)
    BY DEF Init, PayloadOK, Ref, Referenced, Holding, Payloads
  <1> QED BY <1>1, <1>2, <1>3 DEF IInv, DanglingIsOwn, Init, OneOwner, Keys

\* Every step of every command keeps the invariant.
LEMMA StepIInv == IInv /\ [Next]_vars => IInv'
  <1> SUFFICES ASSUME IInv, [Next]_vars
               PROVE  IInv'
    OBVIOUS
  <1>1. CASE UNCHANGED vars
    BY <1>1 DEF vars, IInv, TypeOK, DanglingIsOwn, Aware, Has, Counts, PayloadOK, OneOwner,
                Alive, Doomed, Ref
  <1>2. CASE (\E p \in Clients : StartPublication(p) \/ StartCommand(p)) \/ StartPrune
    BY <1>2, StartingAPublication, Commanding
  <1>3. ASSUME NEW p \in Procs, Step(p) \/ Crash(p)
        PROVE  IInv'
    BY <1>3, Dying, Renaming, Verifying, ImportPublishing, CheckingForARecord, TakingBack,
       ReadingTheSource, Tagging, OutsideTheStore, Saving, Listing, ReadingTheRecord, Pinning,
       DeletingTheRecord, Emptying, ClearingTheSidecar, DeletingThePulled, Remaining,
       Pruning, Recovering DEF Step
  <1> QED BY <1>1, <1>2, <1>3 DEF Next

\* IInv holds in every reachable state.
THEOREM ImagesInductive == Spec => []IInv
  BY InitIInv, StepIInv, PTL DEF Spec

\* A payload whose removal has begun keeps its sidecar until the rootfs is gone,
\* whoever removes it and wherever a process fails or dies.
THEOREM RemovalOwed == Spec => []RemovalIsOwed
  <1>1. IInv => RemovalIsOwed
    BY DEF IInv, TypeOK, PayloadOK, Doomed, RemovalIsOwed, HalfRemovedIsOwed
  <1> QED BY <1>1, ImagesInductive, PTL

\* The contents of a payload go only while no record refers to it.
THEOREM RemovesSafely == Spec => RemovesOnlyUnreferenced
  <1>1. ASSUME IInv, [Next]_vars, NEW i \in IDs \ lost, ino[i] <= 1, dir[i] = "full", dir'[i] # "full"
        PROVE  ~Referenced(recs, i)
    <2>1. Alive(i) /\ i \in Payloads
      BY <1>1 DEF IInv, TypeOK, PayloadOK, Alive, HasRootFS, Payloads
    <2>2. PICK p \in Procs : ImportRollback(p) \/ RemoveContents(p) \/ RemoveUnlink(p)
      <3>1. dir' # dir
        BY <1>1
      <3>2. PICK p \in Procs : Step(p)
        BY <1>1, <3>1 DEF Next, vars, StartPublication, StartCommand, StartPrune, Begin, Crash, disk
      <3>3. dir \in [Payloads -> DirStates] /\ i # Ext /\ i \in Payloads
        BY <1>1, <2>1, NamesAssumption DEF IInv, TypeOK
      <3>4. ~PullExtract(p) /\ ~RemoveExt(p) /\ ~PublishRootFS(p)
        <4>1. ~PullExtract(p)
          BY <1>1, <3>3 DEF PullExtract
        <4>2. ASSUME RemoveExt(p) PROVE FALSE
          <5>1. PICK d : dir' = [dir EXCEPT ![Ext] = d]
            BY <4>2 DEF RemoveExt
          <5> QED BY <1>1, <3>3, <5>1
        <4>3. ASSUME PublishRootFS(p) PROVE FALSE
          <5>1. \/ dir' = dir
                \/ \E x : dir' = [dir EXCEPT ![x] = "full"]
            BY <4>3 DEF PublishRootFS, disk
          <5> QED BY <1>1, <3>3, <5>1
        <4> QED BY <4>1, <4>2, <4>3
      <3>5. /\ ~verifyReusableRawRootFSPayload(p) /\ ~ImportPublish(p) /\ ~ImportCheck(p) /\ ~TagSource(p)
            /\ ~(\E t \in Tags : PublishImageIfSourceMatch(p, t))
        BY <3>1 DEF verifyReusableRawRootFSPayload, ImportPublish, Publish, ImportCheck, TagSource,
                    PublishImageIfSourceMatch, disk
      <3>6. /\ ~SaveImage(p) /\ ~RemoveList(p) /\ ~RemoveGet(p) /\ ~PinRootFS(p) /\ ~RemoveDelete(p)
            /\ ~RemoveClear(p) /\ ~RemoveDeleteExt(p) /\ ~RemoveRemaining(p)
        BY <3>1 DEF SaveImage, RemoveList, RemoveGet, PinRootFS, RemoveDelete, RemoveClear,
                    RemoveDeleteExt, RemoveRemaining, disk
      <3>7. /\ ~PrunePending(p) /\ ~PruneReference(p) /\ ~PruneDangling(p) /\ ~PruneAll(p) /\ ~PruneNext(p)
        BY <3>1 DEF PrunePending, PruneReference, PruneDangling, PruneAll, PruneNext, disk
      <3> QED BY <3>2, <3>4, <3>5, <3>6, <3>7 DEF Step
    <2>3. pc[p] \in {"undo", "contents", "unlink"}
      BY <2>2 DEF ImportRollback, RemoveContents, RemoveUnlink, At
    <2>4. PICK x \in IDs : loc[p].img # None /\ loc[p].img.pay = x
      BY <1>1, <2>3, Process DEF Aware, Importing, Removing
    <2>5. x = i
      BY <1>1, <2>1, <2>2, <2>4
         DEF ImportRollback, RemoveContents, RemoveUnlink, IInv, TypeOK
    <2>6. Counts(pc[p], loc[p], i)
      BY <1>1, <2>4, <2>5, Process DEF Has
    <2> QED BY <1>1, <2>1, <2>3, <2>6 DEF Counts, Doomed, Ref
  <1>2. IInv /\ [Next]_vars =>
          [\A i \in IDs \ lost :
             ino[i] <= 1 /\ dir[i] = "full" /\ dir'[i] # "full" => ~Referenced(recs, i)]_vars
    BY <1>1
  <1> QED BY <1>2, ImagesInductive, PTL DEF Spec, RemovesOnlyUnreferenced

\* A payload with a record keeps one or gets a sidecar, unless SaveImage hides it.
THEOREM Reachable == Spec => StaysReachable
  <1>1. ASSUME IInv, [Next]_vars, NEW i \in IDs, Ref(i)
        PROVE  \/ Ref(i)' \/ i \in tokens'
               \/ \E p \in Procs : pc[p] = "save" /\ pc'[p] = "idle"
    <2>1. CASE recs' = recs
      BY <1>1, <2>1 DEF Ref
    <2>2. CASE recs' # recs
      <3>1. PICK p \in Procs : Step(p)
        BY <1>1, <2>2 DEF Next, vars, StartPublication, StartCommand, StartPrune, Begin, Crash, store
      <3>2. CASE ImportPublish(p) \/ \E t \in Tags : PublishImageIfSourceMatch(p, t)
        <4> DEFINE Some(img) == \E key \in Tags, bad \in {"idle", "check"} : Publish(p, key, img, bad)
        <4>0. loc[p].img \in Images
          <5>1. pc[p] \in {"publish", "alias"}
            BY <3>2 DEF ImportPublish, PublishImageIfSourceMatch, At
          <5> QED BY <1>1, <5>1, Process DEF Aware, Importing, Locals
        <4>1. PICK img \in Images : Some(img)
          <5>1. CASE ImportPublish(p)
            <6>1. loc[p].sel \in Tags
              BY <1>1, <5>1, Process DEF ImportPublish, At, Aware, Importing
            <6>2. Some(loc[p].img)
              BY <2>2, <5>1, <6>1 DEF ImportPublish, store
            <6> QED BY <4>0, <6>2
          <5>2. ASSUME NEW t \in Tags, PublishImageIfSourceMatch(p, t)
                PROVE  \E img \in Images : Some(img)
            <6> DEFINE new == [loc[p].img EXCEPT !.tagged = TRUE]
            <6>1. new \in Images
              BY <4>0 DEF Images
            <6>2. Some(new)
              BY <2>2, <5>2 DEF PublishImageIfSourceMatch, store
            <6> HIDE DEF new, Some
            <6> QED BY <6>1, <6>2
          <5> QED BY <3>2, <5>1, <5>2
        <4>2. PICK key \in Tags, bad \in {"idle", "check"} : Publish(p, key, img, bad)
          BY <4>1
        <4>3. PICK o \in publishImageUnlocked(key, img) : recs' = o[1]
          BY <4>2 DEF Publish
        <4> QED BY <1>1, <4>1, <4>3, PublishedRecords DEF Republishes, Ref
      <3>3. CASE SaveImage(p)
        BY <1>1, <3>3 DEF SaveImage, Return, Goto, IInv, TypeOK
      <3>4. CASE RemoveDelete(p) \/ RemoveDeleteExt(p)
        <4>1. /\ pc[p] \in {"delete", "deleteExt"} /\ StillMatches(p) /\ TypeOK
              /\ loc[p].key \in Keys /\ loc[p].img # None
          <5>1. pc[p] \in {"delete", "deleteExt"} /\ StillMatches(p)
            BY <2>2, <3>4 DEF RemoveDelete, RemoveDeleteExt, At, store
          <5> QED BY <1>1, <5>1, Process DEF Aware
        <4>2. PICK k \in Keys : k = loc[p].key /\ recs[k] # None /\ recs[k] = loc[p].img
          BY <4>1 DEF StillMatches
        <4>3. PICK x : x = recs[k].pay
          OBVIOUS
        <4>4. CASE RemoveDeleteExt(p)
          <5>1. recs' \in {recs, [recs EXCEPT ![k] = None]}
            BY <4>2, <4>4 DEF RemoveDeleteExt
          <5>2. pc[p] = "deleteExt"
            BY <4>4 DEF RemoveDeleteExt, At
          <5>3. x = Ext /\ i # x
            BY <1>1, <4>2, <4>3, <5>2, Process, NamesAssumption DEF Aware, RemovingExt
          <5> QED BY <1>1, <4>2, <4>3, <5>1, <5>3, Unrecording
        <4>5. CASE RemoveDelete(p)
          <5>1. PICK o \in DeleteImageIfMatchWithCleanup(k, x) : recs' = o[1] /\ tokens' = o[2]
            BY <2>2, <4>2, <4>3, <4>5 DEF RemoveDelete, store
          <5>2. /\ recs' \in {recs, [recs EXCEPT ![k] = None]}
                /\ recs' = [recs EXCEPT ![k] = None] /\ Holding(recs, x) = {k} => x \in tokens'
            BY <2>2, <5>1 DEF DeleteImageIfMatchWithCleanup
          <5> QED BY <1>1, <2>2, <4>2, <4>3, <5>2, Unrecording
        <4> QED BY <3>4, <4>4, <4>5
      <3>5. /\ ~verifyReusableRawRootFSPayload(p) /\ ~PublishRootFS(p) /\ ~ImportCheck(p) /\ ~TagSource(p)
            /\ ~ImportRollback(p) /\ ~PullExtract(p) /\ ~RemoveExt(p)
        BY <2>2 DEF verifyReusableRawRootFSPayload, PublishRootFS, ImportCheck, TagSource,
                    ImportRollback, PullExtract, RemoveExt, store
      <3>6. /\ ~RemoveList(p) /\ ~RemoveGet(p) /\ ~PinRootFS(p) /\ ~RemoveContents(p) /\ ~RemoveUnlink(p)
            /\ ~RemoveClear(p) /\ ~RemoveRemaining(p)
        BY <2>2 DEF RemoveList, RemoveGet, PinRootFS, RemoveContents, RemoveUnlink, RemoveClear,
                    RemoveRemaining, store
      <3>7. /\ ~PrunePending(p) /\ ~PruneReference(p) /\ ~PruneDangling(p) /\ ~PruneAll(p) /\ ~PruneNext(p)
        BY <2>2 DEF PrunePending, PruneReference, ClearImageCleanupIfReferenced, PruneDangling,
                    PruneAll, PruneNext, store
      <3> QED BY <3>1, <3>2, <3>3, <3>4, <3>5, <3>6, <3>7 DEF Step
    <2> QED BY <2>1, <2>2
  <1>2. IInv /\ [Next]_vars =>
          [\A i \in IDs : Referenced(recs, i) =>
             \/ Referenced(recs', i) \/ i \in tokens'
             \/ \E p \in Procs : pc[p] = "save" /\ pc'[p] = "idle"]_vars
    BY <1>1 DEF Ref
  <1> QED BY <1>2, ImagesInductive, PTL DEF Spec, StaysReachable

-----------------------------------------------------------------------------
(* ImageBuild: the inductive invariant.                                    *)

Out(b) == bdScene.kind[b] = "output"
RecordedAt(p) == \E r \in bdRecs : r.root = p

\* Which kind of build comes where, and before its tree it owns none.
BuildLabels(b) ==
  /\ bdPc[b] \in {"inspect", "claim", "validate"} => ~Managed(b)
  /\ bdPc[b] = "publish" => Managed(b)
  /\ bdPc[b] \in {"record", "prove"} => HasStore(b)
  /\ bdPc[b] \in {"start", "inspect", "claim"} => ~bdOwned[b]

\* A tree that b has made is b's to remove, at the two places it can be at, and
\* b has not failed without saying so.
MadeTrees(b) ==
  \A p \in BdPaths : bdTree[p].by = b =>
    bdOwned[b] /\ p \in {WorkRoot(b), DurableRoot(b)} /\ (bdPc[b] = "failed" => b \in bdKept)

\* A managed build has its staging directory to itself and no record before
\* its publication.
ManagedTree(b) ==
  Managed(b) =>
    /\ bdPc[b] \in {"start", "steps", "size", "publish", "record", "rollback"} =>
         ~RecordedAt(FinalDir(b))
    /\ bdPc[b] \in {"steps", "size", "publish"} => bdTree[StageDir(b)].by = b
    /\ bdPc[b] \in {"size", "publish"} => b \in bdTree[StageDir(b)].whole
    /\ bdPc[b] = "record" => b \in bdTree[FinalDir(b)].whole

\* So has a build in the caller's directory, as long as nobody has raced it, another
\* build or an rmi; an owner whose directory is not there any more has lost it.
OutputTree(b) ==
  Out(b) /\ bdPc[b] \in Working =>
    /\ bdOwned[b] => bdTree[OutputDir].by = b \/ b \in bdLost
    /\ ~bdRaced =>
         /\ \A c \in Builds : bdRmi[c] = "none"
         /\ bdTree[OutputDir].by # "none"
         /\ \A c \in Builds : Out(c) /\ bdPc[c] \in Working => c = b
         /\ bdPc[b] \in {"size", "record"} => b \in bdTree[OutputDir].whole
         /\ bdOwned[b] /\ bdPc[b] # "prove" => ~RecordedAt(OutputDir)

\* A listing that has found no record is still right when the directory goes, if no
\* build was at work there.
NoRecordToRemove ==
  ~bdRaced => \A c \in Builds : bdRmi[c] = "remove" => ~RecordedAt(OutputDir)

BdIInv ==
  /\ BdTypeOK /\ RecordedTreeIsWhole
  /\ \A p \in BdPaths : /\ (bdTree[p].by = "none" => bdTree[p].whole = {})
                        /\ (bdTree[p].by = "user" => p = OutputDir)
  /\ \A r \in bdRecs : r.root = DurableRoot(r.id)
  /\ NoRecordToRemove
  /\ \A b \in Builds : BuildLabels(b) /\ MadeTrees(b) /\ ManagedTree(b) /\ OutputTree(b)

\* Where a build of each kind works and what its record names.
LEMMA Roots ==
  ASSUME BdTypeOK, NEW b \in Builds
  PROVE  /\ Managed(b) \/ Out(b) \/ bdScene.kind[b] = "plain"
         /\ Managed(b) => ~Out(b) /\ HasStore(b) /\ WorkRoot(b) = StageDir(b) /\ DurableRoot(b) = FinalDir(b)
         /\ Out(b) => ~Managed(b) /\ HasStore(b) /\ WorkRoot(b) = OutputDir /\ DurableRoot(b) = OutputDir
         /\ bdScene.kind[b] = "plain" =>
              ~Managed(b) /\ ~Out(b) /\ ~HasStore(b)
              /\ WorkRoot(b) = <<"builds", b>> /\ DurableRoot(b) = <<"builds", b>>
         /\ WorkRoot(b) \in BdPaths /\ DurableRoot(b) \in BdPaths
  <1>1. bdScene.kind[b] \in {"managed", "output", "plain"}
    BY BdAssumption DEF BdTypeOK
  <1>2. StageDir(b) \in BdPaths /\ FinalDir(b) \in BdPaths /\ OutputDir \in BdPaths /\ <<"builds", b>> \in BdPaths
    BY DEF StageDir, FinalDir, OutputDir, BdPaths
  <1> QED BY <1>1, <1>2 DEF Managed, Out, HasStore, WorkRoot, DurableRoot

\* The places are different.
LEMMA Places ==
  ASSUME NEW b \in Builds, NEW c \in Builds
  PROVE  /\ FinalDir(b) = FinalDir(c) => b = c
         /\ StageDir(b) = StageDir(c) => b = c
         /\ <<"builds", b>> = <<"builds", c>> => b = c
         /\ StageDir(b) # FinalDir(c) /\ StageDir(b) # OutputDir /\ FinalDir(b) # OutputDir
         /\ <<"builds", b>> # StageDir(c) /\ <<"builds", b>> # FinalDir(c) /\ <<"builds", b>> # OutputDir
  BY DEF StageDir, FinalDir, OutputDir

\* A record never names a place that is only worked in.
LEMMA RecordRoots ==
  ASSUME BdTypeOK, NEW r \in bdRecs
  PROVE  /\ r.id \in Builds /\ r.root \in BdPaths
         /\ \A b \in Builds : r.root # StageDir(b) /\ r.root # <<"builds", b>>
         /\ r.root = OutputDir \/ \E b \in Builds : r.root = FinalDir(b)
  BY DEF BdTypeOK, BdPaths, StageDir, FinalDir, OutputDir

\* The scene stays, and with it every build's kind and places.
LEMMA SameScene ==
  ASSUME bdScene' = bdScene
  PROVE  \A b \in Builds : /\ Managed(b)' = Managed(b) /\ Out(b)' = Out(b) /\ HasStore(b)' = HasStore(b)
                           /\ WorkRoot(b)' = WorkRoot(b) /\ DurableRoot(b)' = DurableRoot(b)
  BY DEF Managed, Out, HasStore, WorkRoot, DurableRoot

\* Before the first build there are at most the caller's directory and no record.
LEMMA BdInitIInv == BdInit => BdIInv
  <1> SUFFICES ASSUME BdInit PROVE BdIInv
    OBVIOUS
  <1>1. BdTypeOK
    <2>1. bdTree \in [BdPaths -> [by : {"none", "user"} \cup Builds, whole : SUBSET Builds]]
      BY DEF BdInit, NoTree
    <2>2. bdFaults \in 0..bdScene.trouble
      BY BdAssumption DEF BdInit
    <2> QED BY <2>1, <2>2 DEF BdInit, BdTypeOK
  <1>2. \A p \in BdPaths : bdTree[p].by \in {"none", "user"} /\ bdTree[p].whole = {} /\ (bdTree[p].by = "user" => p = OutputDir)
    BY DEF BdInit, NoTree
  <1> QED BY <1>1, <1>2, BuildsAssumption
          DEF BdInit, BdIInv, RecordedTreeIsWhole, BuildLabels, MadeTrees, ManagedTree, OutputTree, Working, RecordedAt,
              NoRecordToRemove

\* Steps that only take a build further or end it.
LEMMA Advancing ==
  ASSUME BdIInv, NEW b \in Builds, ValidateOutput(b) \/ DockerfileLine(b) \/ CheckOverlap(b) \/ CalculateSize(b) \/ BuildDies(b)
  PROVE  BdIInv'
  <1> USE DEF ValidateOutput, DockerfileLine, CheckOverlap, buildOutputOverlapsImage, CalculateSize, BuildDies, BdAttempt, BdGoes
  <1>1. BdTypeOK /\ bdScene' = bdScene
    BY DEF BdIInv
  <1>2. BdTypeOK'
    BY <1>1, BdAssumption DEF BdTypeOK, BdFault, Working
  <1>3. RecordedTreeIsWhole'
    BY Roots, <1>1 DEF BdIInv, RecordedTreeIsWhole
  <1>4. (\A p \in BdPaths : (bdTree[p].by = "none" => bdTree[p].whole = {})
                        /\ (bdTree[p].by = "user" => p = OutputDir))'
    BY DEF BdIInv
  <1>5. (\A r \in bdRecs : r.root = DurableRoot(r.id))'
    BY <1>1, SameScene DEF BdIInv, BdTypeOK
  <1>6. ASSUME NEW c \in Builds
        PROVE  BuildLabels(c)' /\ MadeTrees(c)' /\ ManagedTree(c)' /\ OutputTree(c)'
    <2>1. BuildLabels(c) /\ MadeTrees(c) /\ ManagedTree(c) /\ OutputTree(c)
      BY DEF BdIInv
    <2>2. BuildLabels(c)'
      BY <1>1, <2>1, SameScene DEF BuildLabels, BdTypeOK
    <2>3. MadeTrees(c)'
      BY <1>1, <2>1, SameScene DEF MadeTrees, BuildLabels, BdTypeOK
    <2>4. ManagedTree(c)'
      BY <1>1, <2>1, SameScene DEF ManagedTree, BuildLabels, BdTypeOK, RecordedAt
    <2>5. OutputTree(c)'
      BY <1>1, <2>1, SameScene, Roots DEF OutputTree, BdIInv, BuildLabels, BdTypeOK, RecordedAt, Working
    <2> QED BY <2>2, <2>3, <2>4, <2>5
  <1>7. NoRecordToRemove'
    BY <1>1 DEF BdIInv, NoRecordToRemove, RecordedAt
  <1> QED BY <1>2, <1>3, <1>4, <1>5, <1>6, <1>7 DEF BdIInv

\* The output directory is taken as it is, or not there.
LEMMA Inspecting ==
  ASSUME BdIInv, NEW b \in Builds, InspectOutput(b)
  PROVE  BdIInv'
  <1> USE DEF InspectOutput, Enters, BdGoes
  <1>1. BdTypeOK /\ bdScene' = bdScene
    BY DEF BdIInv
  <1>2. BdTypeOK'
    BY <1>1, BdAssumption DEF BdTypeOK, BdFault, Working
  <1>r. bdRaced => bdRaced'
    OBVIOUS
  <1>3. RecordedTreeIsWhole'
    BY <1>r DEF BdIInv, RecordedTreeIsWhole
  <1>4. (\A p \in BdPaths : (bdTree[p].by = "none" => bdTree[p].whole = {})
                        /\ (bdTree[p].by = "user" => p = OutputDir))'
    BY DEF BdIInv
  <1>5. (\A r \in bdRecs : r.root = DurableRoot(r.id))'
    BY <1>1, SameScene DEF BdIInv, BdTypeOK
  <1>6. ASSUME NEW c \in Builds
        PROVE  BuildLabels(c)' /\ MadeTrees(c)' /\ ManagedTree(c)' /\ OutputTree(c)'
    <2>1. BuildLabels(c) /\ MadeTrees(c) /\ ManagedTree(c) /\ OutputTree(c)
      BY DEF BdIInv
    <2>2. BuildLabels(c)'
      BY <1>1, <2>1, SameScene DEF BuildLabels, BdTypeOK
    <2>3. MadeTrees(c)'
      BY <1>1, <2>1, SameScene DEF MadeTrees, BuildLabels, BdTypeOK
    <2>4. ManagedTree(c)'
      BY <1>1, <2>1, SameScene DEF ManagedTree, BuildLabels, BdTypeOK, RecordedAt
    <2>5. OutputTree(c)'
      <3> USE <1>1, <2>1, SameScene, Roots
      <3>1. CASE c = b
        <4>1. CASE bdRaced'
          BY <3>1, <4>1 DEF OutputTree, BdIInv, BuildLabels, BdTypeOK
        <4>2. CASE ~bdRaced'
          <5>1. CASE bdTree[WorkRoot(b)].by = "none"
            BY <3>1, <5>1 DEF OutputTree, BdTypeOK, Working
          <5>2. CASE bdTree[WorkRoot(b)].by # "none"
            <6>1. bdPc[b] = "inspect" /\ bdPc' = [bdPc EXCEPT ![b] = "steps"] /\ ~bdOwned'[b]
              BY <5>2 DEF BuildLabels, BdIInv
            <6>2. ASSUME NEW d \in Builds, d # b, Out(d), Out(b) PROVE bdPc[d] \notin Working
              BY <4>2, <5>2, <6>2
            <6> QED BY <3>1, <5>2, <6>1, <6>2 DEF OutputTree, BdTypeOK
          <5> QED BY <5>1, <5>2
        <4> QED BY <4>1, <4>2
      <3>2. CASE c # b
        <4>1. bdPc'[c] = bdPc[c] /\ bdOwned' = bdOwned /\ bdTree' = bdTree /\ bdRecs' = bdRecs
              /\ bdRmi' = bdRmi /\ bdLost' = bdLost
          BY <3>2 DEF BdTypeOK
        <4>2. Out(b) /\ Out(c) /\ bdPc[c] \in Working /\ bdPc'[b] \in Working => bdRaced'
          BY <3>2, ZenonT(30) DEF BdTypeOK, Working
        <4>3. \A d \in Builds : d # b => bdPc'[d] = bdPc[d]
          BY DEF BdTypeOK
        <4> QED BY <1>r, <3>2, <4>1, <4>2, <4>3 DEF OutputTree, RecordedAt
      <3> QED BY <3>1, <3>2
    <2> QED BY <2>2, <2>3, <2>4, <2>5
  <1>7. NoRecordToRemove'
    BY <1>1, <1>r DEF BdIInv, NoRecordToRemove, RecordedAt
  <1> QED BY <1>2, <1>3, <1>4, <1>5, <1>6, <1>7 DEF BdIInv

\* A failed publication is looked up before the tree may go.
LEMMA Proving ==
  ASSUME BdIInv, NEW b \in Builds, ProveReference(b)
  PROVE  BdIInv'
  <1> USE DEF ProveReference, BdGoes
  <1>1. BdTypeOK /\ bdScene' = bdScene
    BY DEF BdIInv
  <1>2. BdTypeOK'
    BY <1>1, BdAssumption DEF BdTypeOK, BdFault, Working
  <1>3. RecordedTreeIsWhole'
    BY Roots, <1>1 DEF BdIInv, RecordedTreeIsWhole
  <1>4. (\A p \in BdPaths : (bdTree[p].by = "none" => bdTree[p].whole = {})
                        /\ (bdTree[p].by = "user" => p = OutputDir))'
    BY DEF BdIInv
  <1>5. (\A r \in bdRecs : r.root = DurableRoot(r.id))'
    BY <1>1, SameScene DEF BdIInv, BdTypeOK
  <1>6. ASSUME NEW c \in Builds
        PROVE  BuildLabels(c)' /\ MadeTrees(c)' /\ ManagedTree(c)' /\ OutputTree(c)'
    <2>1. BuildLabels(c) /\ MadeTrees(c) /\ ManagedTree(c) /\ OutputTree(c)
      BY DEF BdIInv
    <2>2. BuildLabels(c)'
      BY <1>1, <2>1, SameScene DEF BuildLabels, BdTypeOK
    <2>3. MadeTrees(c)'
      BY <1>1, <2>1, SameScene DEF MadeTrees, BuildLabels, BdTypeOK
    <2>4. ManagedTree(c)'
      BY <1>1, <2>1, SameScene, Roots DEF ManagedTree, BuildLabels, BdTypeOK, RecordedAt
    <2>5. OutputTree(c)'
      BY <1>1, <2>1, SameScene, Roots DEF OutputTree, BdIInv, BuildLabels, BdTypeOK, RecordedAt, Working
    <2> QED BY <2>2, <2>3, <2>4, <2>5
  <1>7. NoRecordToRemove'
    BY <1>1 DEF BdIInv, NoRecordToRemove, RecordedAt
  <1> QED BY <1>2, <1>3, <1>4, <1>5, <1>6, <1>7 DEF BdIInv

\* A record appears for a complete tree.
LEMMA Recording ==
  ASSUME BdIInv, NEW b \in Builds, PublishRecord(b)
  PROVE  BdIInv'
  <1> USE DEF PublishRecord, RecordOf, BdGoes
  <1>1. BdTypeOK /\ bdScene' = bdScene
    BY DEF BdIInv
  <1>r. bdRecs' \subseteq bdRecs \cup {RecordOf(b)}
    OBVIOUS
  <1>d. /\ Managed(b) \/ Out(b)
        /\ RecordOf(b).id = b /\ RecordOf(b).root = DurableRoot(b)
        /\ RecordOf(b) \in [id : Builds, root : {FinalDir(d) : d \in Builds} \cup {OutputDir}]
    BY <1>1, Roots DEF BdIInv, BuildLabels
  <1>2. BdTypeOK'
    <2>1. bdRecs' \subseteq [id : Builds, root : {FinalDir(d) : d \in Builds} \cup {OutputDir}]
      BY <1>1, <1>r, <1>d DEF BdTypeOK
    <2>2. bdFaults' \in 0..bdScene.trouble
      BY <1>1, BdAssumption DEF BdTypeOK, BdFault
    <2> QED BY <1>1, <2>1, <2>2 DEF BdTypeOK, Working
  <1>3. RecordedTreeIsWhole'
    <2>1. (DurableRoot(b) = OutputDir /\ bdRaced) \/ b \in bdTree[DurableRoot(b)].whole
      BY <1>1, <1>d, Roots DEF BdIInv, ManagedTree, OutputTree, Working
    <2> QED BY <1>r, <1>d, <2>1 DEF BdIInv, RecordedTreeIsWhole
  <1>4. (\A p \in BdPaths : (bdTree[p].by = "none" => bdTree[p].whole = {})
                        /\ (bdTree[p].by = "user" => p = OutputDir))'
    BY DEF BdIInv
  <1>5. (\A r \in bdRecs : r.root = DurableRoot(r.id))'
    BY <1>1, <1>r, <1>d, <1>2, SameScene DEF BdIInv, BdTypeOK
  <1>6. ASSUME NEW c \in Builds
        PROVE  BuildLabels(c)' /\ MadeTrees(c)' /\ ManagedTree(c)' /\ OutputTree(c)'
    <2>1. BuildLabels(c) /\ MadeTrees(c) /\ ManagedTree(c) /\ OutputTree(c)
      BY DEF BdIInv
    <2>2. BuildLabels(c)'
      BY <1>1, <2>1, SameScene DEF BuildLabels, BdTypeOK
    <2>3. MadeTrees(c)'
      BY <1>1, <2>1, SameScene DEF MadeTrees, BuildLabels, BdTypeOK
    <2>4. ManagedTree(c)'
      <3>1. c # b => (RecordedAt(FinalDir(c))' => RecordedAt(FinalDir(c)))
        BY <1>1, <1>r, <1>d, Roots, Places DEF RecordedAt
      <3> QED BY <1>1, <2>1, <3>1, SameScene DEF ManagedTree, BdTypeOK
    <2>5. OutputTree(c)'
      <3>1. CASE c = b
        BY <1>1, <2>1, <3>1, SameScene DEF OutputTree, BdTypeOK, Working
      <3>2. CASE c # b
        <4>1. Out(c) /\ bdPc[c] \in Working /\ ~bdRaced => ~Out(b)
          BY <2>1, <3>2 DEF OutputTree, Working
        <4>2. ~Out(b) => (RecordedAt(OutputDir)' => RecordedAt(OutputDir))
          BY <1>1, <1>r, <1>d, Roots, Places DEF RecordedAt
        <4> QED BY <1>1, <2>1, <3>2, <4>1, <4>2, SameScene DEF OutputTree, BdTypeOK, Working
      <3> QED BY <3>1, <3>2
    <2> QED BY <2>2, <2>3, <2>4, <2>5
  <1>7. NoRecordToRemove'
    <2>1. CASE Out(b)
      BY <1>1, <2>1 DEF BdIInv, NoRecordToRemove, OutputTree, Working
    <2>2. CASE ~Out(b)
      <3>1. RecordedAt(OutputDir)' => RecordedAt(OutputDir)
        BY <1>1, <1>r, <1>d, <2>2, Roots, Places DEF RecordedAt
      <3> QED BY <1>1, <3>1 DEF BdIInv, NoRecordToRemove
    <2> QED BY <2>1, <2>2
  <1> QED BY <1>2, <1>3, <1>4, <1>5, <1>6, <1>7 DEF BdIInv

\* A managed build makes its staging directory.
LEMMA Staging ==
  ASSUME BdIInv, NEW b \in Builds, PrepareManaged(b)
  PROVE  BdIInv'
  <1> USE DEF PrepareManaged, Made, BdGoes
  <1>1. BdTypeOK /\ bdScene' = bdScene
    BY DEF BdIInv
  <1>m. Managed(b) /\ WorkRoot(b) = StageDir(b) /\ StageDir(b) \in BdPaths /\ StageDir(b) # OutputDir
    BY <1>1, Roots, Places
  <1>t. bdTree' = bdTree \/ bdTree' = [bdTree EXCEPT ![StageDir(b)] = [by |-> b, whole |-> {}]]
    BY <1>m
  <1>s. \A p \in BdPaths : p # StageDir(b) => bdTree'[p] = bdTree[p]
    BY <1>1, <1>t DEF BdTypeOK
  <1>n. bdTree'[StageDir(b)] \in {bdTree[StageDir(b)], [by |-> b, whole |-> {}]}
    <2> HIDE DEF PrepareManaged, Made, BdGoes
    <2> QED BY <1>1, <1>m, <1>t DEF BdTypeOK
  <1>2. BdTypeOK'
    <2>1. bdTree' \in [BdPaths -> [by : {"none", "user"} \cup Builds, whole : SUBSET Builds]]
      BY <1>1, <1>m, <1>t DEF BdTypeOK
    <2>2. bdFaults' \in 0..bdScene.trouble
      BY <1>1, BdAssumption DEF BdTypeOK, BdFault
    <2> QED BY <1>1, <2>1, <2>2, ZenonT(30) DEF BdTypeOK, Working
  <1>3. RecordedTreeIsWhole'
    <2>1. \A r \in bdRecs : r.root \in BdPaths /\ r.root # StageDir(b)
      BY <1>1, RecordRoots
    <2> QED BY <1>s, <2>1 DEF BdIInv, RecordedTreeIsWhole
  <1>4. (\A p \in BdPaths : (bdTree[p].by = "none" => bdTree[p].whole = {})
                        /\ (bdTree[p].by = "user" => p = OutputDir))'
    BY <1>s, <1>n, BuildsAssumption DEF BdIInv
  <1>5. (\A r \in bdRecs : r.root = DurableRoot(r.id))'
    BY <1>1, SameScene DEF BdIInv, BdTypeOK
  <1>6. ASSUME NEW c \in Builds
        PROVE  BuildLabels(c)' /\ MadeTrees(c)' /\ ManagedTree(c)' /\ OutputTree(c)'
    <2>1. BuildLabels(c) /\ MadeTrees(c) /\ ManagedTree(c) /\ OutputTree(c)
      BY DEF BdIInv
    <2>2. BuildLabels(c)'
      BY <1>1, <2>1, SameScene DEF BuildLabels, BdTypeOK
    <2>3. MadeTrees(c)'
      <3>1. CASE c = b
        BY <1>1, <1>m, <1>s, <1>n, <2>1, <3>1, SameScene DEF MadeTrees, BuildLabels, BdTypeOK
      <3>2. CASE c # b
        BY <1>1, <1>s, <1>n, <2>1, <3>2, SameScene DEF MadeTrees, BdTypeOK
      <3> QED BY <3>1, <3>2
    <2>4. ManagedTree(c)'
      <3>1. CASE c = b
        BY <1>1, <1>m, <1>t, <2>1, <3>1, SameScene DEF ManagedTree, BdTypeOK, RecordedAt
      <3>2. CASE c # b
        <4>1. bdTree'[StageDir(c)] = bdTree[StageDir(c)] /\ bdTree'[FinalDir(c)] = bdTree[FinalDir(c)]
          BY <1>s, <3>2, Places DEF BdPaths, StageDir, FinalDir
        <4> QED BY <1>1, <2>1, <3>2, <4>1, SameScene DEF ManagedTree, BdTypeOK, RecordedAt
      <3> QED BY <3>1, <3>2
    <2>5. OutputTree(c)'
      <3>1. bdTree'[OutputDir] = bdTree[OutputDir]
        BY <1>m, <1>s DEF BdPaths
      <3>2. ~Out(b)
        BY <1>1, <1>m, Roots
      <3> QED BY <1>1, <2>1, <3>1, <3>2, SameScene DEF OutputTree, BdTypeOK, RecordedAt
    <2> QED BY <2>2, <2>3, <2>4, <2>5
  <1>7. NoRecordToRemove'
    BY <1>1 DEF BdIInv, NoRecordToRemove, RecordedAt
  <1> QED BY <1>2, <1>3, <1>4, <1>5, <1>6, <1>7 DEF BdIInv

\* Only a directory that was not there is made and owned.
LEMMA Claiming ==
  ASSUME BdIInv, NEW b \in Builds, ClaimOutput(b)
  PROVE  BdIInv'
  <1> USE DEF BdGoes
  <1>1. BdTypeOK /\ bdScene' = bdScene /\ bdRecs' = bdRecs /\ bdKept' = bdKept /\ UNCHANGED <<bdRmi, bdLost>>
    BY DEF BdIInv, ClaimOutput
  <1>k. /\ bdPc[b] = "claim" /\ ~Managed(b) /\ ~bdOwned[b]
        /\ \A p \in BdPaths : bdTree[p].by # b
    BY DEF BdIInv, ClaimOutput, BuildLabels, MadeTrees
  <1>f. bdFaults' \in 0..bdScene.trouble
    BY <1>1, BdAssumption DEF BdTypeOK, BdFault, ClaimOutput
  <1>A. CASE UNCHANGED <<bdTree, bdOwned, bdRaced>> /\ bdPc' = [bdPc EXCEPT ![b] = "failed"]
    <2>1. BdTypeOK'
      BY <1>1, <1>f, <1>A DEF BdTypeOK
    <2>2. ASSUME NEW c \in Builds
          PROVE  BuildLabels(c)' /\ MadeTrees(c)' /\ ManagedTree(c)' /\ OutputTree(c)'
      <3>1. BuildLabels(c) /\ MadeTrees(c) /\ ManagedTree(c) /\ OutputTree(c)
        BY DEF BdIInv
      <3> QED BY <1>1, <1>k, <1>A, <3>1, SameScene
              DEF BuildLabels, MadeTrees, ManagedTree, OutputTree, BdTypeOK, RecordedAt, Working
    <2> QED BY <1>1, <1>A, <2>1, <2>2, SameScene
            DEF BdIInv, BdTypeOK, RecordedTreeIsWhole, NoRecordToRemove, RecordedAt
  <1>B. CASE /\ bdTree[WorkRoot(b)].by = "none" /\ Made(b) /\ Enters(b)
             /\ bdPc' = [bdPc EXCEPT ![b] = "validate"] /\ bdOwned' = [bdOwned EXCEPT ![b] = TRUE]
    <2>t. bdTree' = [bdTree EXCEPT ![WorkRoot(b)] = [by |-> b, whole |-> {}]] /\ WorkRoot(b) \in BdPaths
      BY <1>1, <1>B, Roots DEF Made
    <2>s. /\ \A p \in BdPaths : p # WorkRoot(b) => bdTree'[p] = bdTree[p]
          /\ bdTree'[WorkRoot(b)] = [by |-> b, whole |-> {}]
      BY <1>1, <2>t DEF BdTypeOK
    <2>r. (bdRaced => bdRaced') /\ bdRaced' \in BOOLEAN
      BY <1>1, <1>B DEF Enters, BdTypeOK
    <2>w. \A r \in bdRecs : r.root = WorkRoot(b) => Out(b) /\ r.root = OutputDir /\ bdRaced
      <3>1. bdTree[WorkRoot(b)].whole = {}
        BY <1>B, <2>t DEF BdIInv
      <3> QED BY <1>1, <1>k, <3>1, Roots, RecordRoots DEF BdIInv, RecordedTreeIsWhole
    <2>1. BdTypeOK'
      <3>1. bdTree' \in [BdPaths -> [by : {"none", "user"} \cup Builds, whole : SUBSET Builds]]
        BY <1>1, <2>t DEF BdTypeOK
      <3> QED BY <1>1, <1>f, <1>B, <2>r, <3>1 DEF BdTypeOK, Working
    <2>2. RecordedTreeIsWhole'
      BY <1>1, <2>s, <2>r, <2>w, RecordRoots DEF BdIInv, RecordedTreeIsWhole
    <2>3. (\A p \in BdPaths : (bdTree[p].by = "none" => bdTree[p].whole = {})
                        /\ (bdTree[p].by = "user" => p = OutputDir))'
      BY <2>s, BuildsAssumption DEF BdIInv
    <2>4. ASSUME NEW c \in Builds
          PROVE  BuildLabels(c)' /\ MadeTrees(c)' /\ ManagedTree(c)' /\ OutputTree(c)'
      <3>1. BuildLabels(c) /\ MadeTrees(c) /\ ManagedTree(c) /\ OutputTree(c)
        BY DEF BdIInv
      <3>2. BuildLabels(c)'
        BY <1>1, <1>k, <1>B, <3>1, SameScene DEF BuildLabels, BdTypeOK
      <3>3. MadeTrees(c)'
        BY <1>1, <1>k, <1>B, <2>s, <3>1, SameScene DEF MadeTrees, BdTypeOK
      <3>4. ManagedTree(c)'
        <4>1. SUFFICES ASSUME Managed(c), c # b PROVE ManagedTree(c)'
          BY <1>1, <1>k, SameScene DEF ManagedTree
        <4>2. WorkRoot(b) # StageDir(c) /\ WorkRoot(b) # FinalDir(c) /\ StageDir(c) \in BdPaths /\ FinalDir(c) \in BdPaths
          BY <1>1, <1>k, <4>1, Roots, Places
        <4> QED BY <1>1, <1>B, <2>s, <3>1, <4>1, <4>2, SameScene DEF ManagedTree, BdTypeOK, RecordedAt
      <3>5. OutputTree(c)'
        <4>1. CASE c = b
          <5>1. ASSUME Out(b), ~bdRaced', NEW d \in Builds PROVE bdRmi[d] = "none" /\ (d # b /\ Out(d) => bdPc[d] \notin Working)
            BY <1>1, <1>B, <5>1, Roots DEF Enters
          <5>2. Out(b) /\ ~bdRaced' => ~RecordedAt(OutputDir)
            BY <1>1, <2>r, <2>w, Roots DEF RecordedAt
          <5>3. Out(b) => bdTree'[OutputDir].by = b
            BY <1>1, <2>s, Roots
          <5> QED BY <1>1, <1>B, <4>1, <5>1, <5>2, <5>3, SameScene, BuildsAssumption
                  DEF OutputTree, BdTypeOK, RecordedAt
        <4>2. CASE c # b /\ Out(b)
          <5>1. Out(c) /\ bdPc[c] \in Working => bdRaced'
            BY <1>1, <1>B, <4>2, Roots DEF Enters
          <5>2. Out(c) /\ bdPc[c] \in Working /\ bdOwned[c] => c \in bdLost
            BY <1>1, <1>B, <3>1, <4>2, Roots, BuildsAssumption DEF OutputTree
          <5> QED BY <1>1, <1>B, <4>2, <5>1, <5>2, SameScene DEF OutputTree, BdTypeOK
        <4>3. CASE c # b /\ ~Out(b)
          <5>1. bdTree'[OutputDir] = bdTree[OutputDir]
            BY <1>1, <1>k, <2>s, <4>3, Roots, Places DEF BdPaths
          <5> QED BY <1>1, <1>B, <2>r, <3>1, <4>3, <5>1, SameScene DEF OutputTree, BdTypeOK, RecordedAt
        <4> QED BY <4>1, <4>2, <4>3
      <3> QED BY <3>2, <3>3, <3>4, <3>5
    <2>5. (\A r \in bdRecs : r.root = DurableRoot(r.id))'
      BY <1>1, SameScene DEF BdIInv, BdTypeOK
    <2>6. NoRecordToRemove'
      BY <1>1, <2>r DEF BdIInv, NoRecordToRemove, RecordedAt
    <2> QED BY <2>1, <2>2, <2>3, <2>4, <2>5, <2>6 DEF BdIInv
  <1> QED BY <1>A, <1>B DEF ClaimOutput

\* The steps have ended: the tree is complete, if nobody has removed it.
LEMMA Completing ==
  ASSUME BdIInv, NEW b \in Builds, StepsEnd(b)
  PROVE  BdIInv'
  <1> USE DEF BdGoes
  <1>1. BdTypeOK /\ UNCHANGED <<bdScene, bdRecs, bdOwned, bdKept, bdRaced, bdRmi, bdLost, bdFaults>>
    BY DEF BdIInv, StepsEnd
  <1>k. bdPc[b] = "steps" /\ bdPc' = [bdPc EXCEPT ![b] = "size"] /\ WorkRoot(b) \in BdPaths
    BY <1>1, Roots DEF StepsEnd
  <1>t. /\ bdTree' \in [BdPaths -> [by : {"none", "user"} \cup Builds, whole : SUBSET Builds]]
        /\ \A p \in BdPaths : p # WorkRoot(b) => bdTree'[p] = bdTree[p]
        /\ \A p \in BdPaths : bdTree'[p].by = bdTree[p].by /\ bdTree[p].whole \subseteq bdTree'[p].whole
        /\ bdTree[WorkRoot(b)].by = "none" => bdTree' = bdTree
        /\ bdTree[WorkRoot(b)].by # "none" => b \in bdTree'[WorkRoot(b)].whole
    <2>1. CASE bdTree[WorkRoot(b)].by = "none"
      BY <1>1, <2>1 DEF StepsEnd, BdTypeOK
    <2>2. CASE bdTree[WorkRoot(b)].by # "none"
      BY <1>1, <1>k, <2>2 DEF StepsEnd, BdTypeOK
    <2> QED BY <2>1, <2>2
  <1>2. BdTypeOK'
    BY <1>1, <1>k, <1>t DEF BdTypeOK, Working
  <1>3. RecordedTreeIsWhole'
    BY <1>1, <1>t, RecordRoots DEF BdIInv, RecordedTreeIsWhole
  <1>4. (\A p \in BdPaths : (bdTree[p].by = "none" => bdTree[p].whole = {})
                        /\ (bdTree[p].by = "user" => p = OutputDir))'
    BY <1>k, <1>t DEF BdIInv
  <1>5. (\A r \in bdRecs : r.root = DurableRoot(r.id))'
    BY <1>1, SameScene DEF BdIInv, BdTypeOK
  <1>6. ASSUME NEW c \in Builds
        PROVE  BuildLabels(c)' /\ MadeTrees(c)' /\ ManagedTree(c)' /\ OutputTree(c)'
    <2>1. BuildLabels(c) /\ MadeTrees(c) /\ ManagedTree(c) /\ OutputTree(c)
      BY DEF BdIInv
    <2>2. BuildLabels(c)'
      BY <1>1, <1>k, <2>1, SameScene DEF BuildLabels, BdTypeOK
    <2>3. MadeTrees(c)'
      BY <1>1, <1>k, <1>t, <2>1, SameScene DEF MadeTrees, BdTypeOK
    <2>4. ManagedTree(c)'
      <3>1. StageDir(c) \in BdPaths /\ FinalDir(c) \in BdPaths
        BY DEF BdPaths, StageDir, FinalDir
      <3>2. Managed(b) => WorkRoot(b) = StageDir(b)
        BY <1>1, Roots
      <3>3. c \in bdTree[StageDir(c)].whole => c \in bdTree'[StageDir(c)].whole
        BY <1>t, <3>1
      <3>4. c \in bdTree[FinalDir(c)].whole => c \in bdTree'[FinalDir(c)].whole
        BY <1>t, <3>1
      <3>5. c = b /\ Managed(b) => b \in bdTree'[StageDir(b)].whole
        BY <1>k, <1>t, <2>1, <3>2, BuildsAssumption DEF ManagedTree
      <3> QED BY <1>1, <1>k, <1>t, <2>1, <3>1, <3>3, <3>4, <3>5, SameScene DEF ManagedTree, BdTypeOK, RecordedAt
    <2>5. OutputTree(c)'
      <3>1. OutputDir \in BdPaths /\ (Out(b) => WorkRoot(b) = OutputDir)
        BY <1>1, Roots DEF BdPaths
      <3>2. c \in bdTree[OutputDir].whole => c \in bdTree'[OutputDir].whole
        BY <1>t, <3>1
      <3>3. c = b /\ Out(b) /\ ~bdRaced => b \in bdTree'[OutputDir].whole
        BY <1>k, <1>t, <2>1, <3>1 DEF OutputTree, Working
      <3> QED BY <1>1, <1>k, <1>t, <2>1, <3>1, <3>2, <3>3, SameScene DEF OutputTree, BdTypeOK, RecordedAt, Working
    <2> QED BY <2>2, <2>3, <2>4, <2>5
  <1>7. NoRecordToRemove'
    BY <1>1 DEF BdIInv, NoRecordToRemove, RecordedAt
  <1> QED BY <1>2, <1>3, <1>4, <1>5, <1>6, <1>7 DEF BdIInv

\* The rename of the staged tree.
LEMMA Renamed ==
  ASSUME BdIInv, NEW b \in Builds, PublishOutput(b)
  PROVE  BdIInv'
  <1> USE DEF BdGoes
  <1>1. BdTypeOK /\ UNCHANGED <<bdScene, bdRecs, bdOwned, bdKept, bdRaced, bdRmi, bdLost>>
    BY DEF BdIInv, PublishOutput
  <1>k. /\ bdPc[b] = "publish" /\ Managed(b) /\ ~Out(b) /\ ~RecordedAt(FinalDir(b)) /\ bdOwned[b]
        /\ bdTree[StageDir(b)].by = b /\ b \in bdTree[StageDir(b)].whole
    <2>1. bdPc[b] = "publish"
      BY DEF PublishOutput
    <2>2. StageDir(b) \in BdPaths
      BY DEF BdPaths, StageDir
    <2> QED BY <1>1, <2>1, <2>2, Roots DEF BdIInv, BuildLabels, ManagedTree, MadeTrees
  <1>p. /\ StageDir(b) \in BdPaths /\ FinalDir(b) \in BdPaths /\ StageDir(b) # FinalDir(b)
        /\ WorkRoot(b) = StageDir(b) /\ DurableRoot(b) = FinalDir(b)
    BY <1>1, <1>k, Roots, Places
  <1>f. bdFaults' \in 0..bdScene.trouble
    BY <1>1, BdAssumption DEF BdTypeOK, BdFault, PublishOutput
  <1>t. \/ UNCHANGED bdTree /\ bdPc' = [bdPc EXCEPT ![b] = "rollback"]
        \/ /\ bdPc' = [bdPc EXCEPT ![b] = "record"]
           /\ bdTree' = [bdTree EXCEPT ![FinalDir(b)] = bdTree[StageDir(b)], ![StageDir(b)] = NoTree]
    BY DEF PublishOutput
  <1>s. /\ bdTree' \in [BdPaths -> [by : {"none", "user"} \cup Builds, whole : SUBSET Builds]]
        /\ \A p \in BdPaths \ {StageDir(b), FinalDir(b)} : bdTree'[p] = bdTree[p]
        /\ \/ UNCHANGED bdTree
           \/ bdTree'[FinalDir(b)] = bdTree[StageDir(b)] /\ bdTree'[StageDir(b)] = NoTree
    <2>1. NoTree \in [by : {"none", "user"} \cup Builds, whole : SUBSET Builds]
      BY DEF NoTree
    <2> QED BY <1>1, <1>p, <1>t, <2>1 DEF BdTypeOK
  <1>2. BdTypeOK'
    BY <1>1, <1>f, <1>s, <1>t DEF BdTypeOK, Working
  <1>3. RecordedTreeIsWhole'
    BY <1>1, <1>k, <1>s, RecordRoots DEF BdIInv, RecordedTreeIsWhole, RecordedAt
  <1>4. (\A p \in BdPaths : (bdTree[p].by = "none" => bdTree[p].whole = {})
                        /\ (bdTree[p].by = "user" => p = OutputDir))'
    BY <1>k, <1>p, <1>s, BuildsAssumption DEF BdIInv, NoTree
  <1>5. (\A r \in bdRecs : r.root = DurableRoot(r.id))'
    BY <1>1, SameScene DEF BdIInv, BdTypeOK
  <1>6. ASSUME NEW c \in Builds
        PROVE  BuildLabels(c)' /\ MadeTrees(c)' /\ ManagedTree(c)' /\ OutputTree(c)'
    <2>1. BuildLabels(c) /\ MadeTrees(c) /\ ManagedTree(c) /\ OutputTree(c)
      BY DEF BdIInv
    <2>2. BuildLabels(c)'
      <3>1. HasStore(b)
        BY <1>1, <1>k, Roots
      <3> QED BY <1>1, <1>k, <1>t, <2>1, <3>1, SameScene DEF BuildLabels, BdTypeOK
    <2>3. MadeTrees(c)'
      <3>1. \A p \in BdPaths : bdTree'[p].by = c /\ bdTree[p].by # c => c = b /\ p = FinalDir(b)
        BY <1>k, <1>s, BuildsAssumption DEF NoTree
      <3> QED BY <1>1, <1>k, <1>p, <1>t, <2>1, <3>1, SameScene DEF MadeTrees, BdTypeOK
    <2>4. ManagedTree(c)'
      <3>1. CASE c = b
        <4>1. b \in bdTree'[FinalDir(b)].whole \/ bdPc'[b] = "rollback"
          BY <1>1, <1>k, <1>p, <1>t DEF BdTypeOK
        <4>2. bdPc'[b] \in {"record", "rollback"} /\ ~RecordedAt(FinalDir(b))'
          BY <1>1, <1>k, <1>t DEF BdTypeOK, RecordedAt
        <4> QED BY <3>1, <4>1, <4>2 DEF ManagedTree
      <3>2. CASE c # b
        <4>1. bdTree'[StageDir(c)] = bdTree[StageDir(c)] /\ bdTree'[FinalDir(c)] = bdTree[FinalDir(c)]
          BY <1>s, <3>2, Places DEF BdPaths, StageDir, FinalDir
        <4> QED BY <1>1, <1>t, <2>1, <3>2, <4>1, SameScene DEF ManagedTree, BdTypeOK, RecordedAt
      <3> QED BY <3>1, <3>2
    <2>5. OutputTree(c)'
      <3>1. bdTree'[OutputDir] = bdTree[OutputDir]
        BY <1>s, Places DEF BdPaths
      <3> QED BY <1>1, <1>k, <1>t, <2>1, <3>1, SameScene DEF OutputTree, BdTypeOK, RecordedAt, Working
    <2> QED BY <2>2, <2>3, <2>4, <2>5
  <1>7. NoRecordToRemove'
    BY <1>1 DEF BdIInv, NoRecordToRemove, RecordedAt
  <1> QED BY <1>2, <1>3, <1>4, <1>5, <1>6, <1>7 DEF BdIInv

\* What a failing build owns goes, wherever it is.
LEMMA RollingBack ==
  ASSUME BdIInv, NEW b \in Builds, Rollback(b)
  PROVE  BdIInv'
  <1> USE DEF BdGoes
  <1>1. BdTypeOK /\ UNCHANGED <<bdScene, bdRecs, bdOwned, bdRaced, bdRmi>>
    BY DEF BdIInv, Rollback
  <1>k. /\ bdPc[b] = "rollback" /\ bdPc' = [bdPc EXCEPT ![b] = "failed"]
        /\ bdKept \subseteq bdKept' /\ bdKept' \subseteq Builds
        /\ bdLost \subseteq bdLost' /\ bdLost' \subseteq Builds
        /\ \A c \in Builds \ {b} :
             bdTree'[OutputDir] # bdTree[OutputDir] /\ bdTree[OutputDir].by = c => c \in bdLost'
    BY <1>1 DEF Rollback, BdTypeOK
  <1>f. bdFaults' \in 0..bdScene.trouble
    BY <1>1, BdAssumption DEF BdTypeOK, BdFault, Rollback
  <1> DEFINE gone == IF bdOwned[b] THEN {WorkRoot(b), DurableRoot(b)} ELSE {}
  <1>t. \/ UNCHANGED bdTree /\ b \in bdKept'
        \/ bdTree' = [p \in BdPaths |-> IF p \in gone THEN NoTree ELSE bdTree[p]]
    BY DEF Rollback
  <1>s. /\ bdTree' \in [BdPaths -> [by : {"none", "user"} \cup Builds, whole : SUBSET Builds]]
        /\ \A p \in BdPaths : bdTree'[p] = bdTree[p] \/ (p \in gone /\ bdTree'[p] = NoTree)
    <2>1. NoTree \in [by : {"none", "user"} \cup Builds, whole : SUBSET Builds]
      BY DEF NoTree
    <2> QED BY <1>1, <1>t, <2>1 DEF BdTypeOK
  <1>g. \A r \in bdRecs : r.root \in gone => r.root = OutputDir /\ bdRaced
    <2> SUFFICES ASSUME NEW r \in bdRecs, r.root \in gone PROVE r.root = OutputDir /\ bdRaced
      OBVIOUS
    <2>1. CASE Managed(b)
      BY <1>1, <1>k, <2>1, Roots, RecordRoots DEF BdIInv, ManagedTree, RecordedAt
    <2>2. CASE Out(b)
      BY <1>1, <1>k, <2>2, Roots DEF BdIInv, OutputTree, RecordedAt, Working
    <2>3. CASE ~Managed(b) /\ ~Out(b)
      BY <1>1, <2>3, Roots, RecordRoots
    <2> QED BY <2>1, <2>2, <2>3
  <1>2. BdTypeOK'
    BY <1>1, <1>k, <1>f, <1>s DEF BdTypeOK
  <1>3. RecordedTreeIsWhole'
    BY <1>1, <1>s, <1>g, RecordRoots DEF BdIInv, RecordedTreeIsWhole
  <1>4. (\A p \in BdPaths : (bdTree[p].by = "none" => bdTree[p].whole = {})
                        /\ (bdTree[p].by = "user" => p = OutputDir))'
    BY <1>s DEF BdIInv, NoTree
  <1>5. (\A r \in bdRecs : r.root = DurableRoot(r.id))'
    BY <1>1, SameScene DEF BdIInv, BdTypeOK
  <1>6. ASSUME NEW c \in Builds
        PROVE  BuildLabels(c)' /\ MadeTrees(c)' /\ ManagedTree(c)' /\ OutputTree(c)'
    <2>1. BuildLabels(c) /\ MadeTrees(c) /\ ManagedTree(c) /\ OutputTree(c)
      BY DEF BdIInv
    <2>2. BuildLabels(c)'
      BY <1>1, <1>k, <2>1, SameScene DEF BuildLabels, BdTypeOK
    <2>3. MadeTrees(c)'
      <3>1. \A p \in BdPaths : bdTree'[p].by = c => bdTree[p].by = c
        BY <1>s, BuildsAssumption DEF NoTree
      <3>2. c = b => b \in bdKept' \/ \A p \in BdPaths : bdTree'[p].by # b
        <4>1. ASSUME c = b, NEW p \in BdPaths, bdTree' = [q \in BdPaths |-> IF q \in gone THEN NoTree ELSE bdTree[q]]
              PROVE  bdTree'[p].by # b
          BY <2>1, <4>1, BuildsAssumption DEF MadeTrees, NoTree
        <4> QED BY <1>t, <4>1
      <3> HIDE DEF gone
      <3> QED BY <1>1, <1>k, <2>1, <3>1, <3>2, SameScene DEF MadeTrees, BdTypeOK
    <2>4. ManagedTree(c)'
      <3>1. CASE c = b
        BY <1>1, <1>k, <3>1, SameScene DEF ManagedTree, BdTypeOK
      <3>2. CASE c # b
        <4>1. bdTree'[StageDir(c)] = bdTree[StageDir(c)] /\ bdTree'[FinalDir(c)] = bdTree[FinalDir(c)]
          <5>1. StageDir(c) \in BdPaths /\ FinalDir(c) \in BdPaths
            BY DEF BdPaths, StageDir, FinalDir
          <5>2. StageDir(c) \notin gone /\ FinalDir(c) \notin gone
            BY <1>1, <3>2, Roots, Places
          <5> QED BY <1>s, <5>1, <5>2
        <4> HIDE DEF gone
        <4> QED BY <1>1, <1>k, <2>1, <3>2, <4>1, SameScene DEF ManagedTree, BdTypeOK, RecordedAt
      <3> QED BY <3>1, <3>2
    <2>5. OutputTree(c)'
      <3>1. CASE c = b
        BY <1>1, <1>k, <3>1, SameScene DEF OutputTree, BdTypeOK, Working
      <3>2. CASE c # b /\ Out(c) /\ bdPc[c] \in Working
        <4>1. OutputDir \in gone => Out(b) /\ bdOwned[b]
          BY <1>1, Roots, Places
        <4>2. OutputDir \in gone => bdRaced
          BY <1>k, <2>1, <3>2, <4>1 DEF BdIInv, OutputTree, Working
        <4>3. \/ bdTree'[OutputDir] = bdTree[OutputDir]
              \/ bdRaced /\ (bdTree[OutputDir].by = c => c \in bdLost')
          BY <1>k, <1>s, <3>2, <4>2 DEF BdPaths
        <4> HIDE DEF gone
        <4> QED BY <1>1, <1>k, <2>1, <3>2, <4>3, SameScene DEF OutputTree, BdTypeOK, RecordedAt, Working
      <3>3. CASE c # b /\ ~(Out(c) /\ bdPc[c] \in Working)
        BY <1>1, <1>k, <3>3, SameScene DEF OutputTree, BdTypeOK
      <3> QED BY <3>1, <3>2, <3>3
    <2> QED BY <2>2, <2>3, <2>4, <2>5
  <1>7. NoRecordToRemove'
    BY <1>1 DEF BdIInv, NoRecordToRemove, RecordedAt
  <1> QED BY <1>2, <1>3, <1>4, <1>5, <1>6, <1>7 DEF BdIInv

\* rmi of an image in the image storage takes its record with its tree.
LEMMA RemovingManaged ==
  ASSUME BdIInv, NEW r \in bdRecs, ManagedRemoved(r)
  PROVE  BdIInv'
  <1>1. BdTypeOK /\ UNCHANGED <<bdScene, bdPc, bdOwned, bdKept, bdRaced, bdRmi, bdLost, bdFaults>>
        /\ bdRecs' = bdRecs \ {r}
    BY DEF BdIInv, ManagedRemoved
  <1>r. /\ r.id \in Builds /\ r.root \in BdPaths
        /\ r.root = OutputDir \/ (Managed(r.id) /\ r.root = FinalDir(r.id))
    BY <1>1, RecordRoots, Roots, Places DEF BdIInv
  <1>s. /\ bdTree' \in [BdPaths -> [by : {"none", "user"} \cup Builds, whole : SUBSET Builds]]
        /\ \A p \in BdPaths : bdTree'[p] = bdTree[p] \/ (p = r.root /\ p # OutputDir /\ bdTree'[p] = NoTree)
    <2>1. NoTree \in [by : {"none", "user"} \cup Builds, whole : SUBSET Builds]
      BY DEF NoTree
    <2>2. bdTree' = bdTree \/ (r.root # OutputDir /\ bdTree' = [bdTree EXCEPT ![r.root] = NoTree])
      BY DEF ManagedRemoved
    <2> QED BY <1>1, <1>r, <2>1, <2>2 DEF BdTypeOK
  <1>2. BdTypeOK'
    BY <1>1, <1>s DEF BdTypeOK
  <1>3. RecordedTreeIsWhole'
    <2>1. ASSUME NEW q \in bdRecs', q.root = r.root, r.root # OutputDir PROVE FALSE
      <3>1. q.id = r.id /\ q \in bdRecs /\ q # r
        BY <1>1, <1>r, <2>1, RecordRoots, Roots, Places DEF BdIInv
      <3> QED BY <1>1, <2>1, <3>1 DEF BdTypeOK
    <2> QED BY <1>1, <1>s, <2>1, RecordRoots DEF BdIInv, RecordedTreeIsWhole
  <1>4. (\A p \in BdPaths : (bdTree[p].by = "none" => bdTree[p].whole = {})
                        /\ (bdTree[p].by = "user" => p = OutputDir))'
    BY <1>s DEF BdIInv, NoTree
  <1>5. (\A q \in bdRecs : q.root = DurableRoot(q.id))'
    BY <1>1, SameScene DEF BdIInv, BdTypeOK
  <1>6. ASSUME NEW c \in Builds
        PROVE  BuildLabels(c)' /\ MadeTrees(c)' /\ ManagedTree(c)' /\ OutputTree(c)'
    <2>1. BuildLabels(c) /\ MadeTrees(c) /\ ManagedTree(c) /\ OutputTree(c)
      BY DEF BdIInv
    <2>2. BuildLabels(c)'
      BY <1>1, <2>1, SameScene DEF BuildLabels
    <2>3. MadeTrees(c)'
      BY <1>1, <1>s, <2>1, SameScene, BuildsAssumption DEF MadeTrees, NoTree
    <2>4. ManagedTree(c)'
      <3>1. bdTree'[StageDir(c)] = bdTree[StageDir(c)]
        BY <1>1, <1>s, RecordRoots DEF BdPaths, StageDir
      <3>2. ~RecordedAt(FinalDir(c)) => bdTree'[FinalDir(c)] = bdTree[FinalDir(c)]
        BY <1>s DEF BdPaths, FinalDir, RecordedAt
      <3> QED BY <1>1, <2>1, <3>1, <3>2, SameScene DEF ManagedTree, RecordedAt
    <2>5. OutputTree(c)'
      <3>1. bdTree'[OutputDir] = bdTree[OutputDir]
        BY <1>s DEF BdPaths
      <3> QED BY <1>1, <2>1, <3>1, SameScene DEF OutputTree, RecordedAt
    <2> QED BY <2>2, <2>3, <2>4, <2>5
  <1>7. NoRecordToRemove'
    BY <1>1 DEF BdIInv, NoRecordToRemove, RecordedAt
  <1> QED BY <1>2, <1>3, <1>4, <1>5, <1>6, <1>7 DEF BdIInv

\* What the steps of an rmi in the caller's directory leave alone.
RmiFrame ==
  /\ UNCHANGED <<bdScene, bdPc, bdOwned, bdKept>>
  /\ bdRmi' \in [Builds -> {"none", "list", "remove"}] /\ bdFaults' \in 0..bdScene.trouble
  /\ bdRecs' \subseteq bdRecs /\ (bdRaced => bdRaced') /\ bdRaced' \in BOOLEAN
  /\ \A p \in BdPaths : p # OutputDir => bdTree'[p] = bdTree[p]
  /\ bdTree' \in [BdPaths -> [by : {"none", "user"} \cup Builds, whole : SUBSET Builds]]
  /\ bdTree'[OutputDir].by \in {"none", bdTree[OutputDir].by}
  /\ (bdTree'[OutputDir].by = "none" => bdTree'[OutputDir].whole = {})
  /\ bdLost \subseteq bdLost' /\ bdLost' \subseteq Builds

\* Such a step is safe if it races with every build at work in the directory, says
\* whose directory it has taken and takes none that a record names.
LEMMA RmiKeeps ==
  ASSUME BdIInv, RmiFrame, NoRecordToRemove',
         \A c \in Builds : Out(c) /\ bdPc[c] \in Working => bdRaced',
         bdTree'[OutputDir].whole = bdTree[OutputDir].whole \/ bdRaced \/ ~RecordedAt(OutputDir),
         \A c \in Builds : bdTree[OutputDir].by = c /\ bdTree'[OutputDir].by # c => c \in bdLost'
  PROVE  BdIInv'
  <1>1. BdTypeOK /\ bdScene' = bdScene /\ bdPc' = bdPc /\ OutputDir \in BdPaths
    BY DEF BdIInv, RmiFrame, BdPaths
  <1>2. BdTypeOK'
    BY <1>1 DEF BdTypeOK, RmiFrame
  <1>3. RecordedTreeIsWhole'
    BY <1>1, RecordRoots DEF BdIInv, RecordedTreeIsWhole, RmiFrame, RecordedAt
  <1>4. (\A p \in BdPaths : (bdTree[p].by = "none" => bdTree[p].whole = {})
                        /\ (bdTree[p].by = "user" => p = OutputDir))'
    BY <1>1 DEF BdIInv, RmiFrame
  <1>5. (\A r \in bdRecs : r.root = DurableRoot(r.id))'
    BY <1>1, SameScene DEF BdIInv, BdTypeOK, RmiFrame
  <1>6. ASSUME NEW c \in Builds
        PROVE  BuildLabels(c)' /\ MadeTrees(c)' /\ ManagedTree(c)' /\ OutputTree(c)'
    <2>1. BuildLabels(c) /\ MadeTrees(c) /\ ManagedTree(c) /\ OutputTree(c)
      BY DEF BdIInv
    <2>2. BuildLabels(c)'
      BY <1>1, <2>1, SameScene DEF BuildLabels, RmiFrame
    <2>3. MadeTrees(c)'
      <3>1. \A p \in BdPaths : bdTree'[p].by = c => bdTree[p].by = c
        BY BuildsAssumption DEF RmiFrame
      <3> QED BY <1>1, <2>1, <3>1, SameScene DEF MadeTrees, RmiFrame
    <2>4. ManagedTree(c)'
      <3>1. bdTree'[StageDir(c)] = bdTree[StageDir(c)] /\ bdTree'[FinalDir(c)] = bdTree[FinalDir(c)]
        BY Places DEF RmiFrame, BdPaths, StageDir, FinalDir
      <3>2. RecordedAt(FinalDir(c))' => RecordedAt(FinalDir(c))
        BY DEF RmiFrame, RecordedAt
      <3> QED BY <1>1, <2>1, <3>1, <3>2, SameScene DEF ManagedTree
    <2>5. OutputTree(c)'
      BY <1>1, <2>1, SameScene DEF OutputTree, RmiFrame
    <2> QED BY <2>2, <2>3, <2>4, <2>5
  <1> QED BY <1>2, <1>3, <1>4, <1>5, <1>6 DEF BdIInv

\* The three steps of an rmi in the caller's directory.
LEMMA RemovingExternal ==
  ASSUME BdIInv,
         \/ \E r \in bdRecs : ExternalForgotten(r)
         \/ \E b \in Builds : RmiLists(b) \/ RmiRemoves(b)
  PROVE  BdIInv'
  <1>1. BdTypeOK /\ OutputDir \in BdPaths /\ bdRmi \in [Builds -> {"none", "list", "remove"}]
    BY DEF BdIInv, BdTypeOK, BdPaths
  <1>w. ASSUME NEW b \in Builds, bdRmi[b] # "none", NEW c \in Builds, Out(c), bdPc[c] \in Working PROVE bdRaced
    BY <1>w DEF BdIInv, OutputTree
  <1>2. ASSUME NEW r \in bdRecs, ExternalForgotten(r) PROVE BdIInv'
    <2>1. r.id \in Builds
      BY <1>1, RecordRoots
    <2>2. RmiFrame
      BY <1>1, <1>2, <2>1 DEF RmiFrame, ExternalForgotten, BdIInv, BdTypeOK
    <2>3. NoRecordToRemove'
      BY <1>1, <1>2, <2>1 DEF ExternalForgotten, NoRecordToRemove, RecordedAt, BdIInv
    <2>4. \A c \in Builds : Out(c) /\ bdPc[c] \in Working => bdRaced'
      BY <1>1, <1>2, Roots DEF ExternalForgotten
    <2>5. UNCHANGED bdTree
      BY <1>2 DEF ExternalForgotten
    <2> QED BY <2>2, <2>3, <2>4, <2>5, RmiKeeps
  <1>3. ASSUME NEW b \in Builds, RmiLists(b) PROVE BdIInv'
    <2>1. RmiFrame
      BY <1>1, <1>3, BdAssumption DEF RmiFrame, RmiLists, BdFault, BdIInv, BdTypeOK
    <2>2. NoRecordToRemove'
      BY <1>1, <1>3 DEF RmiLists, NoRecordToRemove, RecordedAt, BdIInv
    <2>3. \A c \in Builds : Out(c) /\ bdPc[c] \in Working => bdRaced'
      BY <1>3, <1>w DEF RmiLists
    <2>4. UNCHANGED bdTree
      BY <1>3 DEF RmiLists
    <2> QED BY <2>1, <2>2, <2>3, <2>4, RmiKeeps
  <1>4. ASSUME NEW b \in Builds, RmiRemoves(b) PROVE BdIInv'
    <2>1. NoTree \in [by : {"none", "user"} \cup Builds, whole : SUBSET Builds]
          /\ NoTree.by = "none" /\ NoTree.whole = {}
      BY DEF NoTree
    <2>2. /\ bdTree' \in [BdPaths -> [by : {"none", "user"} \cup Builds, whole : SUBSET Builds]]
          /\ \A p \in BdPaths : p # OutputDir => bdTree'[p] = bdTree[p]
          /\ bdTree'[OutputDir].by \in {"none", bdTree[OutputDir].by} /\ bdTree'[OutputDir].whole = {}
      BY <1>1, <1>4, <2>1 DEF RmiRemoves, BdTypeOK
    <2>3. \A c \in Builds : bdTree[OutputDir].by = c /\ bdTree'[OutputDir].by # c => c \in bdLost'
      BY <1>1, <1>4 DEF RmiRemoves, BdTypeOK
    <2>4. RmiFrame
      BY <1>1, <1>4, <2>2, BdAssumption DEF RmiFrame, RmiRemoves, BdFault, BdTypeOK
    <2>5. NoRecordToRemove'
      BY <1>1, <1>4 DEF RmiRemoves, NoRecordToRemove, RecordedAt, BdIInv
    <2>6. \A c \in Builds : Out(c) /\ bdPc[c] \in Working => bdRaced'
      BY <1>4, <1>w DEF RmiRemoves
    <2>7. bdRaced \/ ~RecordedAt(OutputDir)
      BY <1>4 DEF RmiRemoves, NoRecordToRemove, BdIInv
    <2> QED BY <2>3, <2>4, <2>5, <2>6, <2>7, RmiKeeps
  <1> QED BY <1>2, <1>3, <1>4

\* Every step of a build, and every removal of an image, keeps the invariant.
LEMMA BdStepIInv == BdIInv /\ [BdNext]_bdVars => BdIInv'
  <1> SUFFICES ASSUME BdIInv, [BdNext]_bdVars PROVE BdIInv'
    OBVIOUS
  <1>1. CASE UNCHANGED bdVars
    <2>1. bdScene' = bdScene
      BY <1>1 DEF bdVars
    <2> QED BY <1>1, <2>1, SameScene
            DEF bdVars, BdIInv, BdTypeOK, RecordedTreeIsWhole, BuildLabels, MadeTrees, ManagedTree,
                OutputTree, RecordedAt, NoRecordToRemove
  <1>2. ASSUME NEW b \in Builds, BuildStep(b) PROVE BdIInv'
    BY <1>2, Advancing, Inspecting, Proving, Recording, Staging, Claiming, Completing, Renamed,
       RollingBack DEF BuildStep
  <1>3. ASSUME NEW r \in bdRecs, ImageRemoved(r) PROVE BdIInv'
    BY <1>3, RemovingManaged, RemovingExternal DEF ImageRemoved
  <1>4. ASSUME NEW b \in Builds, RmiLists(b) \/ RmiRemoves(b) PROVE BdIInv'
    BY <1>4, RemovingExternal
  <1> QED BY <1>1, <1>2, <1>3, <1>4 DEF BdNext

\* BdIInv holds in every reachable state.
THEOREM BuildsInductive == BdSpec => []BdIInv
  BY BdInitIInv, BdStepIInv, PTL DEF BdSpec

\* What has a record is whole, and a build that failed has left no tree that it
\* did not say it kept, however many builds there are.
THEOREM BuildsAreWhole == BdSpec => []BuildsLeaveWholeTrees
  <1>1. BdIInv => BuildsLeaveWholeTrees
    BY DEF BdIInv, BuildsLeaveWholeTrees, FailedBuildLeavesNothing, MadeTrees, BdTypeOK
  <1> QED BY <1>1, BuildsInductive, PTL

\* A build that fails removes nothing that the caller or another build has made,
\* unless its own directory had been taken from it; and an rmi removes the tree of
\* its record, or the caller's directory when no record names it.
THEOREM BuildsKeepOthers == BdSpec => [][OnlyOwnTreeRemoved]_bdVars
  <1>1. ASSUME BdIInv, [BdNext]_bdVars, NEW p \in BdPaths, bdTree[p].by # "none", bdTree'[p].by = "none",
               ~\E r \in bdRecs : ImageRemoved(r), ~\E b \in Builds : RmiLists(b) \/ RmiRemoves(b)
        PROVE  \E b \in Builds : bdPc'[b] # bdPc[b] /\ (bdTree[p].by = b \/ (p = OutputDir /\ b \in bdLost))
    <2>1. BdTypeOK
      BY <1>1 DEF BdIInv
    <2>3. PICK b \in Builds : BuildStep(b)
      BY <1>1 DEF BdNext, bdVars
    <2>4. PublishOutput(b) \/ Rollback(b)
      <3>1. bdTree' # bdTree
        BY <1>1
      <3>2. /\ ~ValidateOutput(b) /\ ~DockerfileLine(b) /\ ~CheckOverlap(b) /\ ~CalculateSize(b) /\ ~BuildDies(b)
            /\ ~InspectOutput(b) /\ ~ProveReference(b) /\ ~PublishRecord(b)
        BY <3>1 DEF ValidateOutput, DockerfileLine, CheckOverlap, CalculateSize, BuildDies, InspectOutput,
                    ProveReference, PublishRecord, BdAttempt
      <3>3. WorkRoot(b) \in BdPaths
        BY <2>1, Roots
      <3>4. ~(Made(b) \/ bdTree' = bdTree)
        BY <1>1, <2>1, <3>3, BuildsAssumption DEF Made, BdTypeOK
      <3>5. ~PrepareManaged(b) /\ ~ClaimOutput(b)
        BY <3>4 DEF PrepareManaged, ClaimOutput
      <3>6. ~StepsEnd(b)
        BY <1>1, <2>1, <3>3 DEF StepsEnd, BdTypeOK
      <3> QED BY <2>3, <3>2, <3>5, <3>6 DEF BuildStep
    <2>5. bdPc'[b] # bdPc[b]
      BY <2>1, <2>4 DEF PublishOutput, Rollback, BdGoes, BdTypeOK
    <2>6. CASE PublishOutput(b)
      <3>1. bdTree[StageDir(b)].by = b /\ StageDir(b) \in BdPaths /\ FinalDir(b) \in BdPaths
        <4>1. bdPc[b] = "publish"
          BY <2>6 DEF PublishOutput
        <4>2. bdTree[StageDir(b)].by = b
          BY <1>1, <4>1 DEF BdIInv, BuildLabels, ManagedTree
        <4> QED BY <4>2 DEF BdPaths, StageDir, FinalDir
      <3>2. p = StageDir(b)
        BY <1>1, <2>1, <2>6, <3>1, BuildsAssumption DEF PublishOutput, BdTypeOK
      <3> QED BY <2>5, <3>1, <3>2
    <2>7. CASE Rollback(b)
      <3>1. bdOwned[b] /\ p \in {WorkRoot(b), DurableRoot(b)} /\ bdPc[b] = "rollback"
        BY <1>1, <2>7 DEF Rollback
      <3>2. CASE Out(b)
        <4>1. p = OutputDir /\ (bdTree[OutputDir].by = b \/ b \in bdLost)
          BY <1>1, <2>1, <3>1, <3>2, Roots DEF BdIInv, OutputTree, Working
        <4> QED BY <2>5, <4>1
      <3>3. CASE ~Out(b)
        <4>1. bdTree[p].by \in {"user"} \cup Builds
          BY <1>1, <2>1 DEF BdTypeOK
        <4>2. bdTree[p].by = b
          <5>1. p # OutputDir
            BY <2>1, <3>1, <3>3, Roots, Places
          <5>2. PICK c \in Builds : bdTree[p].by = c /\ p \in {WorkRoot(c), DurableRoot(c)}
            BY <1>1, <4>1, <5>1 DEF BdIInv, MadeTrees
          <5>3. c = b
            BY <2>1, <3>1, <3>3, <5>1, <5>2, Roots, Places
          <5> QED BY <5>2, <5>3
        <4> QED BY <2>5, <4>2
      <3> QED BY <3>2, <3>3
    <2> QED BY <2>4, <2>6, <2>7
  <1>2. ASSUME BdIInv, NEW r \in bdRecs, ImageRemoved(r), NEW p \in BdPaths,
               bdTree[p].by # "none", bdTree'[p].by = "none"
        PROVE  \E q \in bdRecs \ bdRecs' : q.root = p /\ p # OutputDir
    <2>1. bdTree \in [BdPaths -> [by : {"none", "user"} \cup Builds, whole : SUBSET Builds]]
      BY <1>2 DEF BdIInv, BdTypeOK
    <2>2. ManagedRemoved(r)
      BY <1>2 DEF ImageRemoved, ExternalForgotten
    <2>3. p = r.root /\ p # OutputDir
      BY <1>2, <2>1, <2>2 DEF ManagedRemoved
    <2>4. r \in bdRecs \ bdRecs'
      BY <2>2 DEF ManagedRemoved
    <2> QED BY <2>3, <2>4
  <1>3. ASSUME BdIInv, NEW b \in Builds, RmiLists(b) \/ RmiRemoves(b), NEW p \in BdPaths,
               bdTree[p].by # "none", bdTree'[p].by = "none"
        PROVE  p = OutputDir /\ bdRmi' # bdRmi /\ (bdRaced \/ ~\E r \in bdRecs : r.root = p)
    <2>1. bdTree \in [BdPaths -> [by : {"none", "user"} \cup Builds, whole : SUBSET Builds]]
          /\ bdRmi \in [Builds -> {"none", "list", "remove"}]
      BY <1>3 DEF BdIInv, BdTypeOK
    <2>2. RmiRemoves(b)
      BY <1>3 DEF RmiLists
    <2>3. p = OutputDir
      BY <1>3, <2>1, <2>2 DEF RmiRemoves
    <2>4. bdRmi' # bdRmi
      BY <2>1, <2>2 DEF RmiRemoves
    <2> QED BY <1>3, <2>2, <2>3, <2>4 DEF RmiRemoves, BdIInv, NoRecordToRemove, RecordedAt
  <1>4. BdIInv /\ [BdNext]_bdVars => [OnlyOwnTreeRemoved]_bdVars
    BY <1>1, <1>2, <1>3 DEF OnlyOwnTreeRemoved
  <1> QED BY <1>4, BuildsInductive, PTL DEF BdSpec
=============================================================================
