------------------------ MODULE CgroupControlProofs ------------------------
(***************************************************************************)
(* A container's cgroup does as it was told, for every number of clients,  *)
(* generations, polls and faults.                                          *)
(*                                                                         *)
(* The limits are written by three parties that do not all take the state  *)
(* lock: Apply, which does not, an update and its rollback, which do.      *)
(* What keeps them apart is that a generation is admitted and its          *)
(* directory removed only while nobody holds the lock: the holder's        *)
(* generation cannot change under it, and unless it came in during Apply   *)
(* (excuse "setup") it works on a cgroup that is complete.                 *)
(***************************************************************************)
EXTENDS CgroupControl, TLAPS

-----------------------------------------------------------------------------
(* The inductive invariant                                                 *)

RtLabels == {"admit", "mkdir", "write", "attach", "rollback", "abort", "run",
             "remove", "stopped"}
RtStates == [pc: RtLabels, i: 0..3, gen: 0..MaxGen, live: BOOLEAN, cfg: [Files -> Values]]

ClientStates ==
  [pc: {"idle", "lock", "write", "rollback", "check", "commit",
        "request", "poll", "after", "done", "failed"},
   op: {"none", "update", "freeze", "thaw"}, gen: 0..MaxGen, plan: Plans \cup {<<>>},
   i: 0..3, saved: [Files -> Values \cup {NoLimit}], polls: 0..MaxPolls, opposed: BOOLEAN]

Entered(i) == {ApplyOrder[k] : k \in 1..(i - 1)}

\* What Apply has done when it is at step i of phase pc.
ApplyOK ==
  /\ cgRt.live <=> cgRt.pc \notin {"admit", "remove", "stopped"}
  /\ cgRt.pc \in {"admit", "stopped"} => cgDirs = {}
  /\ cgRt.pc \in {"admit", "stopped", "remove", "mkdir", "write"} => cgIn = {}
  /\ cgRt.pc = "mkdir" => cgRt.i \in 1..Len(ApplyOrder) /\ cgDirs = Entered(cgRt.i)
  /\ cgRt.pc = "write" => cgRt.i \in 1..2
  /\ cgRt.pc \in {"write", "attach", "run"} => cgDirs = Hierarchies
  /\ cgRt.pc = "attach" => cgRt.i \in 1..Len(ApplyOrder) /\ cgIn = Entered(cgRt.i)
  /\ cgRt.pc = "rollback" => cgRt.i \in 0..1 /\ (cgV2 => cgRt.i = 0 /\ cgIn = {})
  /\ cgRt.pc = "abort" /\ cgV2 => cgDirs = {}
  /\ cgRt.pc = "run" => cgIn = Hierarchies

\* The limits Apply has written so far are no longer the kernel's.
LimitsOK ==
  "setup" \notin cgExcuse =>
    /\ cgRt.pc = "write" => \A k \in 1..(cgRt.i - 1) : cgLim[UpdateOrder[k]] # NoLimit
    /\ cgRt.pc \in {"attach", "run"} => \A f \in Files : cgLim[f] # NoLimit

\* As long as nothing has separated them, configuration, limits and restart
\* spec agree.
SpecOK ==
  cgExcuse = {} =>
    /\ cgRt.pc \in {"admit", "mkdir", "write", "attach"} => cgRt.cfg = cgSpec
    /\ cgRt.pc = "write" =>
         \A k \in 1..(cgRt.i - 1) : cgLim[UpdateOrder[k]] = cgSpec[UpdateOrder[k]]
    /\ cgRt.pc = "attach" => cgLim = cgSpec
    /\ cgRt.pc = "run" /\ cgLock = NoHolder => cgLim = cgSpec

Updating == {"write", "rollback", "check", "commit"}

\* The holder of the lock is an update of the present generation, which cannot
\* go; one that did not come in during Apply found it complete.
HolderOK(c) ==
  /\ cgLock = c <=> cgCl[c].pc \in Updating
  /\ cgLock = c =>
       /\ cgV2 /\ cgCl[c].gen = cgRt.gen /\ cgRt.pc \notin {"admit", "stopped"}
       /\ cgCl[c].plan \in Plans
       /\ "setup" \notin cgExcuse => cgRt.pc \in {"run", "remove"}
  /\ cgCl[c].pc = "lock" => cgCl[c].i = 1 /\ cgCl[c].plan \in Plans
  /\ cgCl[c].pc = "write" => cgCl[c].i \in 1..Len(cgCl[c].plan)
  /\ cgCl[c].pc = "rollback" => cgCl[c].i \in 0..Len(cgCl[c].plan)

\* What an update that holds the lock knows of the limits of a running payload.
UpdateOK(c) ==
  cgLock = c /\ cgRt.pc = "run" =>
    /\ "setup" \notin cgExcuse /\ cgCl[c].pc \in {"write", "rollback"} =>
         \A f \in Files : cgCl[c].saved[f] # NoLimit
    /\ cgExcuse = {} =>
         /\ cgCl[c].pc \in {"write", "rollback"} => cgCl[c].saved = cgSpec
         /\ cgCl[c].pc = "write" =>
              \A f \in Files : cgLim[f] = IF \E k \in 1..(cgCl[c].i - 1) : cgCl[c].plan[k] = f
                                          THEN c ELSE cgSpec[f]
         /\ cgCl[c].pc = "rollback" =>
              \A f \in Files : (\A k \in 1..cgCl[c].i : cgCl[c].plan[k] # f)
                               => cgLim[f] = cgSpec[f]
         /\ cgCl[c].pc \in {"check", "commit"} =>
              \A f \in Files : cgLim[f] = IF f \in Planned(c) THEN c ELSE cgSpec[f]

\* An unopposed request stands.
FreezeOK(c) ==
  /\ cgCl[c].gen =< cgRt.gen
  /\ cgCl[c].pc \in {"request", "poll"} => cgCl[c].polls < MaxPolls
  /\ cgCl[c].pc \in {"poll", "after"} /\ ~cgCl[c].opposed /\ cgCl[c].gen = cgRt.gen =>
       /\ cgFreezer.req = Wants(c)
       /\ cgCl[c].pc = "after" => cgFreezer.frozen = Wants(c)

CgIInv ==
  /\ CgTypeOK /\ cgCl \in [CgClients -> ClientStates]
  /\ ApplyOK /\ LimitsOK /\ SpecOK
  /\ \A c \in CgClients : HolderOK(c) /\ UpdateOK(c) /\ FreezeOK(c)

-----------------------------------------------------------------------------
(* The orders in which hierarchies and files are taken                     *)

\* The two files, in the order plannedResourceUpdates takes them.
LEMMA FileOrder ==
  /\ Len(UpdateOrder) = 2 /\ UpdateOrder[1] = "memory" /\ UpdateOrder[2] = "pids"
  BY DEF UpdateOrder

\* A plan names one or two of the files.
LEMMA PlanOrder ==
  ASSUME NEW plan \in Plans
  PROVE  /\ Len(plan) \in {1, 2} /\ 1 \in 1..Len(plan) /\ DOMAIN plan = 1..Len(plan)
         /\ \A k \in 1..Len(plan) : plan[k] \in Files /\ k \in {1, 2}
         /\ \A k \in 0..Len(plan) : k \in {0, 1, 2}
  <1>1. CASE plan = <<"memory">>
    BY <1>1 DEF Files
  <1>2. CASE plan = <<"pids">>
    BY <1>2 DEF Files
  <1>3. CASE plan = <<"memory", "pids">>
    BY <1>3 DEF Files
  <1> QED BY <1>1, <1>2, <1>3 DEF Plans, UpdateOrder

\* The hierarchies Apply goes through on each kind of host.
LEMMA HierarchyOrder ==
  /\ cgV2 => Len(ApplyOrder) = 1 /\ ApplyOrder[1] = "unified" /\ Hierarchies = {"unified"}
  /\ ~cgV2 => /\ Len(ApplyOrder) = 2 /\ ApplyOrder[1] = "memory" /\ ApplyOrder[2] = "pids"
              /\ Hierarchies = {"memory", "pids"}
  BY DEF ApplyOrder, UpdateOrder, Hierarchies, Hier, Files

\* Entered grows by the hierarchy that is next, and ends as all of them.
LEMMA EnteredOneMore ==
  ASSUME NEW i \in 1..Len(ApplyOrder)
  PROVE  /\ Entered(1) = {} /\ ApplyOrder[i] \in Hierarchies
         /\ Entered(i) \cup {ApplyOrder[i]} = Entered(i + 1)
         /\ i = Len(ApplyOrder) => Entered(i + 1) = Hierarchies
         /\ cgV2 => i = 1
         /\ Len(ApplyOrder) \in {1, 2} /\ i \in {1, 2}
  <1>1. Len(ApplyOrder) \in {1, 2} /\ i \in {1, 2} /\ (cgV2 => i = 1)
    <2>1. (cgV2 /\ Len(ApplyOrder) = 1) \/ Len(ApplyOrder) = 2
      BY HierarchyOrder
    <2>2. CASE cgV2 /\ Len(ApplyOrder) = 1
      BY <2>2
    <2>3. CASE Len(ApplyOrder) = 2
      BY <2>3, HierarchyOrder
    <2> QED BY <2>1, <2>2, <2>3
  <1>2. Entered(1) = {} /\ Entered(2) = {ApplyOrder[1]}
    <2>1. 1..(1 - 1) = {} /\ 1..(2 - 1) = {1}
      OBVIOUS
    <2> QED BY <2>1 DEF Entered
  <1>3. Entered(3) = {ApplyOrder[1], ApplyOrder[2]}
    <2>1. 1..(3 - 1) = {1, 2}
      OBVIOUS
    <2> QED BY <2>1 DEF Entered
  <1>4. i + 1 = IF i = 1 THEN 2 ELSE 3
    BY <1>1
  <1> HIDE DEF Entered
  <1>5. CASE cgV2
    BY <1>1, <1>2, <1>4, <1>5, HierarchyOrder
  <1>6. CASE ~cgV2
    BY <1>1, <1>2, <1>3, <1>4, <1>6, HierarchyOrder
  <1> QED BY <1>5, <1>6

\* The unchanged hierarchy leaves these operators unchanged.
LEMMA SameHierarchy ==
  ASSUME UNCHANGED cgV2
  PROVE  UNCHANGED <<ApplyOrder, Hierarchies>> /\ \A i : Entered(i)' = Entered(i)
  BY DEF ApplyOrder, Hierarchies, Hier, Entered

-----------------------------------------------------------------------------
(* Types                                                                   *)

\* What RtGoes assigns.
LEMMA RtGone ==
  ASSUME cgRt \in RtStates, NEW l \in RtLabels, NEW i \in 0..3, RtGoes(l, i)
  PROVE  /\ cgRt' \in RtStates /\ cgRt'.pc = l /\ cgRt'.i = i
         /\ cgRt'.gen = cgRt.gen /\ cgRt'.live = cgRt.live /\ cgRt'.cfg = cgRt.cfg
  <1>1. cgRt' = [cgRt EXCEPT !.pc = l, !.i = i]
    BY DEF RtGoes
  <1>2. cgRt' \in RtStates
    BY <1>1 DEF RtStates
  <1>3. /\ cgRt'.pc = l /\ cgRt'.i = i
        /\ cgRt'.gen = cgRt.gen /\ cgRt'.live = cgRt.live /\ cgRt'.cfg = cgRt.cfg
    BY <1>1 DEF RtStates
  <1> QED BY <1>2, <1>3

\* A client that has not begun is well-typed.
LEMMA IdleClientTyped ==
  IdleClient \in ClientStates
  <1>1. [f \in Files |-> NoLimit] \in [Files -> Values \cup {NoLimit}]
    OBVIOUS
  <1>2. 0 \in 0..MaxGen /\ 0 \in 0..MaxPolls /\ 0 \in 0..3
    BY CgAssumption
  <1> QED BY <1>1, <1>2 DEF IdleClient, ClientStates

\* What ClGoes and ClEnds assign.
LEMMA ClGone ==
  ASSUME cgCl \in [CgClients -> ClientStates], NEW c \in CgClients, NEW pc, ClGoes(c, pc),
         pc \in {"write", "rollback", "check", "commit", "poll", "after", "done", "failed"}
  PROVE  /\ cgCl' \in [CgClients -> ClientStates] /\ \A d \in CgClients \ {c} : cgCl'[d] = cgCl[d]
         /\ cgCl'[c] = [cgCl[c] EXCEPT !.pc = pc]
         /\ cgCl'[c].pc = pc /\ cgCl'[c].gen = cgCl[c].gen /\ cgCl'[c].plan = cgCl[c].plan
         /\ cgCl'[c].i = cgCl[c].i /\ cgCl'[c].saved = cgCl[c].saved
  <1>1. [cgCl[c] EXCEPT !.pc = pc] \in ClientStates
    BY DEF ClientStates
  <1>2. /\ cgCl' \in [CgClients -> ClientStates] /\ \A d \in CgClients \ {c} : cgCl'[d] = cgCl[d]
        /\ cgCl'[c] = [cgCl[c] EXCEPT !.pc = pc]
    BY <1>1 DEF ClGoes
  <1>3. /\ cgCl'[c].pc = pc /\ cgCl'[c].gen = cgCl[c].gen /\ cgCl'[c].plan = cgCl[c].plan
        /\ cgCl'[c].i = cgCl[c].i /\ cgCl'[c].saved = cgCl[c].saved
    BY <1>2 DEF ClientStates
  <1> QED BY <1>2, <1>3

\* A client that returns is well-typed and the others are as they were.
LEMMA ClEnded ==
  ASSUME cgCl \in [CgClients -> ClientStates], NEW c \in CgClients, NEW pc \in {"done", "failed"},
         ClEnds(c, pc)
  PROVE  /\ cgCl' \in [CgClients -> ClientStates] /\ \A d \in CgClients \ {c} : cgCl'[d] = cgCl[d]
         /\ cgCl'[c].pc = pc /\ cgCl'[c].gen = 0
  <1>1. [IdleClient EXCEPT !.pc = pc] \in ClientStates
    BY IdleClientTyped DEF ClientStates
  <1>2. /\ cgCl' \in [CgClients -> ClientStates] /\ \A d \in CgClients \ {c} : cgCl'[d] = cgCl[d]
        /\ cgCl'[c] = [IdleClient EXCEPT !.pc = pc]
    BY <1>1 DEF ClEnds
  <1>3. [IdleClient EXCEPT !.pc = pc].pc = pc /\ [IdleClient EXCEPT !.pc = pc].gen = 0
    BY DEF IdleClient
  <1> QED BY <1>2, <1>3

\* What the invariant says of the runtime parent.
LEMMA CgHere ==
  ASSUME CgIInv
  PROVE  /\ CgTypeOK /\ cgRt \in RtStates /\ cgCl \in [CgClients -> ClientStates]
         /\ \A c \in CgClients : cgCl[c] \in ClientStates /\ c # NoHolder /\ c # NoLimit
  BY CgAssumption, NoLimitAssumption DEF CgIInv, CgTypeOK, RtStates, RtLabels

-----------------------------------------------------------------------------
(* The runtime parent                                                      *)

\* A step of Apply, or the end of the process, leaves the clients with what
\* they know: only an excused update can be under way during Apply.
LEMMA RuntimeKeepsClients ==
  ASSUME CgIInv, UNCHANGED <<cgV2, cgCl, cgLock, cgSpec, cgFreezer, cgExcuse>>,
         cgRt.pc \in {"mkdir", "write", "attach", "rollback", "abort", "run"},
         cgRt'.gen = cgRt.gen, cgRt'.pc \notin {"admit", "stopped"},
         cgRt.pc = "run" => cgRt'.pc = "remove"
  PROVE  \A c \in CgClients : HolderOK(c)' /\ UpdateOK(c)' /\ FreezeOK(c)'
  <1> SUFFICES ASSUME NEW c \in CgClients
               PROVE  HolderOK(c)' /\ UpdateOK(c)' /\ FreezeOK(c)'
    OBVIOUS
  <1>1. HolderOK(c) /\ FreezeOK(c)
    BY DEF CgIInv
  <1>2. HolderOK(c)'
    BY <1>1 DEF HolderOK
  <1>3. FreezeOK(c)'
    BY <1>1 DEF FreezeOK, Wants
  <1>4. cgRt'.pc = "run" /\ cgLock = c => "setup" \in cgExcuse
    BY <1>1 DEF HolderOK
  <1>5. UpdateOK(c)'
    BY <1>4 DEF UpdateOK
  <1> QED BY <1>2, <1>3, <1>5

\* Nobody holds the lock: no update has anything to lose.
LEMMA FreeLockKeepsClients ==
  ASSUME CgIInv, UNCHANGED <<cgCl, cgLock>>, cgLock = NoHolder,
         \/ UNCHANGED cgFreezer /\ cgRt'.gen = cgRt.gen
         \/ cgRt'.gen = cgRt.gen + 1
  PROVE  \A c \in CgClients : HolderOK(c)' /\ UpdateOK(c)' /\ FreezeOK(c)'
  <1> SUFFICES ASSUME NEW c \in CgClients
               PROVE  HolderOK(c)' /\ UpdateOK(c)' /\ FreezeOK(c)'
    OBVIOUS
  <1>1. HolderOK(c) /\ FreezeOK(c) /\ c # NoHolder /\ cgCl[c] \in ClientStates /\ cgRt \in RtStates
    BY CgHere DEF CgIInv
  <1>2. HolderOK(c)' /\ UpdateOK(c)'
    BY <1>1 DEF HolderOK, UpdateOK, Updating
  <1>3. cgCl[c].gen \in Nat /\ cgRt.gen \in Nat
    BY <1>1, CgAssumption DEF ClientStates, RtStates
  <1>4. FreezeOK(c)'
    BY <1>1, <1>3 DEF FreezeOK, Wants
  <1> QED BY <1>2, <1>4

\* While the record is stopped or the next generation not admitted, nobody
\* holds the lock.
LEMMA NobodyHolds ==
  ASSUME CgIInv, cgRt.pc \in {"admit", "stopped"}
  PROVE  cgLock = NoHolder
  BY DEF CgIInv, CgTypeOK, HolderOK

\* Apply begins a generation: no client has opened it and no update holds the
\* lock.
LEMMA RtAdmitKeepsIInv ==
  ASSUME CgIInv, RtAdmit
  PROVE  CgIInv'
  <1>1. /\ CgTypeOK /\ cgRt \in RtStates /\ cgDirs = {} /\ cgIn = {} /\ cgRt.gen + 1 \in 0..MaxGen
        /\ cgRt.pc = "admit" /\ cgLock = NoHolder
    BY CgHere, CgAssumption DEF CgIInv, ApplyOK, RtAdmit, RtStates
  <1>2. cgRt' = [cgRt EXCEPT !.pc = "mkdir", !.i = 1, !.gen = cgRt.gen + 1, !.live = TRUE]
    BY <1>1 DEF RtAdmit, RtStates
  <1>3. cgRt' \in RtStates
    <2>1. PICK g \in 0..MaxGen, l \in RtLabels, i \in 0..3 :
            g = cgRt.gen + 1 /\ l = "mkdir" /\ i = 1
      BY <1>1 DEF RtLabels
    <2>2. cgRt' = [cgRt EXCEPT !.pc = l, !.i = i, !.gen = g, !.live = TRUE]
      BY <1>2, <2>1
    <2> QED BY <1>1, <2>2 DEF RtStates
  <1>4. /\ cgRt'.pc = "mkdir" /\ cgRt'.i = 1 /\ cgRt'.gen = cgRt.gen + 1 /\ cgRt'.live = TRUE
        /\ cgRt'.cfg = cgRt.cfg
    BY <1>1, <1>2 DEF RtStates
  <1>5. cgLim' \in [Files -> Values \cup {NoLimit}] /\ cgFreezer' \in [req: BOOLEAN, frozen: BOOLEAN]
    BY DEF RtAdmit
  <1>6. UNCHANGED <<cgV2, cgDirs, cgIn, cgSpec, cgLock, cgCl, cgTold, cgExcuse, cgFaults>>
        /\ cgRec' = cgRt.gen + 1
    BY DEF RtAdmit
  <1>7. CgTypeOK' /\ cgCl' \in [CgClients -> ClientStates]
    BY <1>1, <1>3, <1>5, <1>6, CgHere, SameHierarchy DEF CgTypeOK, RtStates, RtLabels
  <1>8. ApplyOK'
    BY <1>1, <1>4, <1>6, SameHierarchy, HierarchyOrder, EnteredOneMore DEF ApplyOK
  <1>9. LimitsOK' /\ SpecOK'
    BY <1>1, <1>4, <1>6 DEF LimitsOK, SpecOK, CgIInv
  <1> QED BY <1>1, <1>4, <1>6, <1>7, <1>8, <1>9, FreeLockKeepsClients DEF CgIInv

\* Apply makes the directory of one hierarchy, which has no limits yet.
LEMMA RtMkdirKeepsIInv ==
  ASSUME CgIInv, RtMkdir
  PROVE  CgIInv'
  <1>1. /\ UNCHANGED <<cgV2, cgRec, cgIn, cgLim, cgFreezer, cgSpec, cgLock, cgCl, cgTold, cgExcuse>>
        /\ cgRt.pc = "mkdir"
    BY DEF RtMkdir
  <1>2. /\ CgTypeOK /\ cgRt \in RtStates /\ cgRt.live /\ cgIn = {}
        /\ cgRt.i \in 1..Len(ApplyOrder) /\ cgDirs = Entered(cgRt.i)
    BY <1>1, CgHere DEF CgIInv, ApplyOK
  <1>3. /\ Entered(1) = {} /\ ApplyOrder[cgRt.i] \in Hierarchies
        /\ Entered(cgRt.i) \cup {ApplyOrder[cgRt.i]} = Entered(cgRt.i + 1)
        /\ cgRt.i = Len(ApplyOrder) => Entered(cgRt.i + 1) = Hierarchies
        /\ Len(ApplyOrder) \in {1, 2} /\ cgRt.i \in {1, 2}
    BY <1>2, EnteredOneMore
  <1>4. PICK l \in RtLabels, i \in 0..3 :
          /\ RtGoes(l, i)
          /\ \/ /\ l = "mkdir" /\ i = cgRt.i + 1 /\ i \in 1..Len(ApplyOrder)
                /\ cgDirs' = Entered(i)
             \/ l = "write" /\ i = 1 /\ cgDirs' = Hierarchies
             \/ l = "abort" /\ i = 0 /\ cgDirs' = {}
    <2>1. CASE cgRt.i < Len(ApplyOrder)
      <3>1. cgRt.i + 1 \in 0..3 /\ cgRt.i + 1 \in 1..Len(ApplyOrder)
        BY <1>3, <2>1
      <3>2. \/ RtGoes("mkdir", cgRt.i + 1) /\ cgDirs' = Entered(cgRt.i + 1)
            \/ RtGoes("abort", 0) /\ cgDirs' = {}
        BY <1>2, <1>3, <2>1 DEF RtMkdir
      <3> QED BY <3>1, <3>2 DEF RtLabels
    <2>2. CASE ~(cgRt.i < Len(ApplyOrder))
      <3>1. cgRt.i = Len(ApplyOrder)
        BY <1>2, <1>3, <2>2
      <3>2. \/ RtGoes("write", 1) /\ cgDirs' = Hierarchies
            \/ RtGoes("abort", 0) /\ cgDirs' = {}
        BY <1>2, <1>3, <2>2, <3>1 DEF RtMkdir
      <3> QED BY <3>2 DEF RtLabels
    <2> QED BY <2>1, <2>2
  <1>5. /\ cgRt' \in RtStates /\ cgRt'.pc = l /\ cgRt'.i = i
        /\ cgRt'.gen = cgRt.gen /\ cgRt'.live = cgRt.live /\ cgRt'.cfg = cgRt.cfg
    BY <1>2, <1>4, RtGone
  <1>6. cgDirs' \subseteq Hierarchies
    BY <1>2, <1>3, <1>4 DEF CgTypeOK
  <1>7. CgTypeOK' /\ cgCl' \in [CgClients -> ClientStates]
    BY <1>1, <1>2, <1>5, <1>6, CgHere, SameHierarchy DEF CgTypeOK, RtStates, RtLabels
  <1>8. ApplyOK'
    BY <1>1, <1>2, <1>4, <1>5, SameHierarchy DEF ApplyOK
  <1>9. LimitsOK' /\ SpecOK'
    BY <1>1, <1>4, <1>5 DEF LimitsOK, SpecOK, CgIInv
  <1> QED BY <1>1, <1>4, <1>5, <1>7, <1>8, <1>9, RuntimeKeepsClients DEF CgIInv

\* Apply writes one limit of the configured ones, or gives up.
LEMMA RtWriteLimitKeepsIInv ==
  ASSUME CgIInv, RtWriteLimit
  PROVE  CgIInv'
  <1>1. /\ UNCHANGED <<cgV2, cgRec, cgIn, cgFreezer, cgSpec, cgLock, cgCl, cgTold, cgExcuse>>
        /\ cgRt.pc = "write"
    BY DEF RtWriteLimit
  <1>2. /\ CgTypeOK /\ cgRt \in RtStates /\ cgRt.live /\ cgIn = {} /\ cgRt.i \in 1..2
        /\ cgDirs = Hierarchies
    BY <1>1, CgHere DEF CgIInv, ApplyOK
  <1> DEFINE f == UpdateOrder[cgRt.i]
             lim == [cgLim EXCEPT ![f] = cgRt.cfg[f]]
  <1>3. /\ f \in Files /\ f = (IF cgRt.i = 1 THEN "memory" ELSE "pids")
        /\ cgRt.cfg[f] \in Values /\ cgRt.cfg[f] # NoLimit
    BY <1>2, FileOrder, NoLimitAssumption DEF Files, RtStates, Values, NoLimit
  <1>4. PICK l \in RtLabels, i \in 0..3 :
          /\ RtGoes(l, i)
          /\ \/ cgRt.i = 1 /\ l = "write" /\ i = 2 /\ cgLim' = lim /\ UNCHANGED cgDirs
             \/ cgRt.i = 2 /\ l = "attach" /\ i = 1 /\ cgLim' = lim /\ UNCHANGED cgDirs
             \/ l = "abort" /\ i = 0 /\ UNCHANGED cgLim /\ cgDirs' = {}
    BY <1>2, FileOrder DEF RtWriteLimit, RtLabels
  <1>5. /\ cgRt' \in RtStates /\ cgRt'.pc = l /\ cgRt'.i = i
        /\ cgRt'.gen = cgRt.gen /\ cgRt'.live = cgRt.live /\ cgRt'.cfg = cgRt.cfg
    BY <1>2, <1>4, RtGone
  <1>6. /\ lim \in [Files -> Values \cup {NoLimit}]
        /\ lim[f] = cgRt.cfg[f] /\ \A g \in Files \ {f} : lim[g] = cgLim[g]
    BY <1>2, <1>3 DEF CgTypeOK
  <1> HIDE DEF f, lim
  <1>7. CgTypeOK' /\ cgCl' \in [CgClients -> ClientStates]
    BY <1>1, <1>2, <1>4, <1>5, <1>6, CgHere, SameHierarchy DEF CgTypeOK, RtStates, RtLabels
  <1>8. ApplyOK'
    BY <1>1, <1>2, <1>4, <1>5, SameHierarchy, HierarchyOrder, EnteredOneMore DEF ApplyOK
  <1>9. LimitsOK'
    BY <1>1, <1>2, <1>3, <1>4, <1>5, <1>6, FileOrder DEF LimitsOK, CgIInv, Files
  <1>10. SpecOK'
    <2> SUFFICES ASSUME cgExcuse = {} PROVE SpecOK'
      BY <1>1 DEF SpecOK
    <2>1. /\ cgRt.cfg = cgSpec /\ cgSpec \in [Files -> Values]
          /\ cgRt.i = 2 => cgLim["memory"] = cgSpec["memory"]
      BY <1>1, <1>2, FileOrder DEF SpecOK, CgIInv, CgTypeOK
    <2>2. CASE cgRt'.pc = "write"
      BY <1>1, <1>3, <1>4, <1>5, <1>6, <2>1, <2>2, FileOrder DEF SpecOK
    <2>3. CASE cgRt'.pc = "attach"
      BY <1>1, <1>3, <1>4, <1>5, <1>6, <2>1, <2>3 DEF SpecOK, Files
    <2>4. CASE cgRt'.pc = "abort"
      BY <2>4 DEF SpecOK
    <2> QED BY <1>4, <1>5, <2>2, <2>3, <2>4
  <1> QED BY <1>1, <1>4, <1>5, <1>7, <1>8, <1>9, <1>10, RuntimeKeepsClients DEF CgIInv

\* Apply moves the child in; after the last hierarchy every limit is in force.
LEMMA RtAttachKeepsIInv ==
  ASSUME CgIInv, RtAttach
  PROVE  CgIInv'
  <1>1. /\ UNCHANGED <<cgV2, cgRec, cgDirs, cgLim, cgFreezer, cgSpec, cgLock, cgCl, cgTold, cgExcuse>>
        /\ cgRt.pc = "attach"
    BY DEF RtAttach
  <1>2. /\ CgTypeOK /\ cgRt \in RtStates /\ cgRt.live /\ cgDirs = Hierarchies
        /\ cgRt.i \in 1..Len(ApplyOrder) /\ cgIn = Entered(cgRt.i)
    BY <1>1, CgHere DEF CgIInv, ApplyOK
  <1>3. /\ Entered(1) = {} /\ ApplyOrder[cgRt.i] \in Hierarchies
        /\ Entered(cgRt.i) \cup {ApplyOrder[cgRt.i]} = Entered(cgRt.i + 1)
        /\ cgRt.i = Len(ApplyOrder) => Entered(cgRt.i + 1) = Hierarchies
        /\ cgV2 => cgRt.i = 1
        /\ Len(ApplyOrder) \in {1, 2} /\ cgRt.i \in {1, 2}
    BY <1>2, EnteredOneMore
  <1>4. PICK l \in RtLabels, i \in 0..3 :
          /\ RtGoes(l, i)
          /\ \/ /\ l = "attach" /\ i = cgRt.i + 1 /\ i \in 1..Len(ApplyOrder)
                /\ cgIn' = Entered(i)
             \/ l = "run" /\ i = 0 /\ cgIn' = Hierarchies
             \/ l = "rollback" /\ i = cgRt.i - 1 /\ cgIn' = cgIn
    <2>1. CASE cgRt.i < Len(ApplyOrder)
      <3>1. /\ cgRt.i + 1 \in 0..3 /\ cgRt.i + 1 \in 1..Len(ApplyOrder)
            /\ cgRt.i - 1 \in 0..3
        BY <1>3, <2>1
      <3>2. \/ RtGoes("attach", cgRt.i + 1) /\ cgIn' = Entered(cgRt.i + 1)
            \/ RtGoes("rollback", cgRt.i - 1) /\ cgIn' = cgIn
        BY <1>2, <1>3, <2>1 DEF RtAttach
      <3> QED BY <3>1, <3>2 DEF RtLabels
    <2>2. CASE ~(cgRt.i < Len(ApplyOrder))
      <3>1. cgRt.i = Len(ApplyOrder) /\ cgRt.i - 1 \in 0..3
        BY <1>2, <1>3, <2>2
      <3>2. \/ RtGoes("run", 0) /\ cgIn' = Hierarchies
            \/ RtGoes("rollback", cgRt.i - 1) /\ cgIn' = cgIn
        BY <1>2, <1>3, <2>2, <3>1 DEF RtAttach
      <3>3. CASE RtGoes("run", 0) /\ cgIn' = Hierarchies
        BY <3>3 DEF RtLabels
      <3>4. CASE RtGoes("rollback", cgRt.i - 1) /\ cgIn' = cgIn
        BY <3>1, <3>4 DEF RtLabels
      <3> QED BY <3>2, <3>3, <3>4
    <2> QED BY <2>1, <2>2
  <1>5. /\ cgRt' \in RtStates /\ cgRt'.pc = l /\ cgRt'.i = i
        /\ cgRt'.gen = cgRt.gen /\ cgRt'.live = cgRt.live /\ cgRt'.cfg = cgRt.cfg
    BY <1>2, <1>4, RtGone
  <1>6. cgIn' \subseteq cgDirs
    <2>1. CASE cgIn' = Entered(i) /\ i = cgRt.i + 1
      BY <1>2, <1>3, <2>1 DEF CgTypeOK
    <2>2. CASE cgIn' \in {cgIn, Hierarchies}
      BY <1>2, <2>2 DEF CgTypeOK
    <2> QED BY <1>4, <2>1, <2>2
  <1>7. CgTypeOK' /\ cgCl' \in [CgClients -> ClientStates]
    BY <1>1, <1>2, <1>5, <1>6, CgHere, SameHierarchy DEF CgTypeOK, RtStates, RtLabels
  <1>8. ApplyOK'
    <2>1. l = "rollback" => i \in 0..1 /\ (cgV2 => i = 0 /\ cgIn' = {})
      BY <1>2, <1>3, <1>4
    <2> QED BY <1>1, <1>2, <1>4, <1>5, <2>1, SameHierarchy DEF ApplyOK
  <1>9. LimitsOK'
    BY <1>1, <1>4, <1>5 DEF LimitsOK, CgIInv
  <1>10. SpecOK'
    BY <1>1, <1>4, <1>5 DEF SpecOK, CgIInv
  <1> QED BY <1>1, <1>4, <1>5, <1>7, <1>8, <1>9, <1>10, RuntimeKeepsClients DEF CgIInv

\* Apply takes back a hierarchy it had entered.
LEMMA RtRollbackAttachKeepsIInv ==
  ASSUME CgIInv, RtRollbackAttach
  PROVE  CgIInv'
  <1>1. /\ UNCHANGED <<cgV2, cgRec, cgLim, cgFreezer, cgSpec, cgLock, cgCl, cgTold, cgExcuse>>
        /\ cgRt.pc = "rollback"
    BY DEF RtRollbackAttach
  <1>2. /\ CgTypeOK /\ cgRt \in RtStates /\ cgRt.live /\ cgIn \subseteq cgDirs
        /\ cgRt.i \in 0..1 /\ (cgV2 => cgRt.i = 0 /\ cgIn = {})
    BY <1>1, CgHere DEF CgIInv, ApplyOK, CgTypeOK
  <1>3. PICK l \in RtLabels, i \in 0..3 :
          /\ RtGoes(l, i)
          /\ \/ l = "abort" /\ i = 0 /\ cgDirs' = cgIn /\ cgIn' = cgIn
             \/ /\ l = "rollback" /\ i = 0 /\ cgRt.i = 1 /\ cgDirs' = cgDirs
                /\ cgIn' \subseteq cgIn
    <2>1. CASE cgRt.i = 0
      BY <2>1 DEF RtRollbackAttach, RtLabels
    <2>2. CASE cgRt.i = 1
      BY <2>2 DEF RtRollbackAttach, RtLabels
    <2> QED BY <1>2, <2>1, <2>2
  <1>4. /\ cgRt' \in RtStates /\ cgRt'.pc = l /\ cgRt'.i = i
        /\ cgRt'.gen = cgRt.gen /\ cgRt'.live = cgRt.live /\ cgRt'.cfg = cgRt.cfg
    BY <1>2, <1>3, RtGone
  <1>5. cgIn' \subseteq cgDirs' /\ cgDirs' \subseteq Hierarchies
    BY <1>2, <1>3 DEF CgTypeOK
  <1>6. CgTypeOK' /\ cgCl' \in [CgClients -> ClientStates]
    BY <1>1, <1>2, <1>4, <1>5, CgHere, SameHierarchy DEF CgTypeOK, RtStates, RtLabels
  <1>7. ApplyOK'
    BY <1>1, <1>2, <1>3, <1>4 DEF ApplyOK
  <1>8. LimitsOK' /\ SpecOK'
    BY <1>3, <1>4 DEF LimitsOK, SpecOK
  <1> QED BY <1>1, <1>3, <1>4, <1>6, <1>7, <1>8, RuntimeKeepsClients DEF CgIInv

\* The payload exits: nothing is claimed of its limits any more.
LEMMA RtExitKeepsIInv ==
  ASSUME CgIInv, RtExit
  PROVE  CgIInv'
  <1>1. /\ UNCHANGED <<cgV2, cgRec, cgDirs, cgLim, cgFreezer, cgSpec, cgLock, cgCl, cgTold,
                       cgExcuse>>
        /\ cgRt.pc \in {"abort", "run"} /\ cgIn' = {}
        /\ cgRt' = [cgRt EXCEPT !.live = FALSE, !.pc = "remove"]
    BY DEF RtExit
  <1>2. CgTypeOK /\ cgRt \in RtStates
    BY CgHere
  <1>3. cgRt' \in RtStates
    BY <1>1, <1>2 DEF RtStates, RtLabels
  <1>4. cgRt'.pc = "remove" /\ cgRt'.live = FALSE /\ cgRt'.gen = cgRt.gen
    BY <1>1, <1>2 DEF RtStates
  <1>5. CgTypeOK' /\ cgCl' \in [CgClients -> ClientStates]
    BY <1>1, <1>2, <1>3, CgHere, SameHierarchy DEF CgTypeOK, RtStates, RtLabels
  <1>6. ApplyOK' /\ LimitsOK' /\ SpecOK'
    BY <1>1, <1>4 DEF ApplyOK, LimitsOK, SpecOK
  <1> QED BY <1>1, <1>4, <1>5, <1>6, RuntimeKeepsClients DEF CgIInv

\* Remove takes the directories while no update of the generation is under way.
LEMMA RtRemoveKeepsIInv ==
  ASSUME CgIInv, RtRemove
  PROVE  CgIInv'
  <1>1. /\ UNCHANGED <<cgV2, cgIn, cgLim, cgFreezer, cgSpec, cgLock, cgCl, cgTold, cgExcuse>>
        /\ cgRt.pc = "remove" /\ cgLock = NoHolder /\ cgRec' = 0 /\ cgDirs' = {}
    BY DEF RtRemove
  <1>2. CgTypeOK /\ cgRt \in RtStates /\ cgIn = {} /\ ~cgRt.live
    BY <1>1, CgHere DEF CgIInv, ApplyOK
  <1>3. PICK l \in RtLabels, i \in 0..3 : RtGoes(l, i) /\ l = "stopped" /\ i = 0
    BY DEF RtRemove, RtLabels
  <1>4. /\ cgRt' \in RtStates /\ cgRt'.pc = l /\ cgRt'.i = i
        /\ cgRt'.gen = cgRt.gen /\ cgRt'.live = cgRt.live /\ cgRt'.cfg = cgRt.cfg
    BY <1>2, <1>3, RtGone
  <1>5. CgTypeOK' /\ cgCl' \in [CgClients -> ClientStates]
    BY <1>1, <1>2, <1>4, CgHere, SameHierarchy, CgAssumption DEF CgTypeOK, RtStates, RtLabels
  <1>6. ApplyOK' /\ LimitsOK' /\ SpecOK'
    BY <1>1, <1>2, <1>3, <1>4 DEF ApplyOK, LimitsOK, SpecOK
  <1> QED BY <1>1, <1>4, <1>5, <1>6, FreeLockKeepsClients DEF CgIInv

\* A restart by policy runs with the limits the first run had.
LEMMA RtPolicyRestartKeepsIInv ==
  ASSUME CgIInv, RtPolicyRestart
  PROVE  CgIInv'
  <1>1. /\ UNCHANGED <<cgV2, cgRec, cgHost, cgSpec, cgLock, cgCl, cgTold>>
        /\ cgRt.pc = "stopped" /\ cgLock = NoHolder
        /\ cgExcuse' = cgExcuse \cup (IF cgRt.cfg # cgSpec THEN {"restart"} ELSE {})
    BY NobodyHolds DEF RtPolicyRestart
  <1>2. CgTypeOK /\ cgRt \in RtStates /\ cgIn = {} /\ cgDirs = {} /\ ~cgRt.live
    BY <1>1, CgHere DEF CgIInv, ApplyOK
  <1>3. PICK l \in RtLabels, i \in 0..3 : RtGoes(l, i) /\ l = "admit" /\ i = 1
    BY DEF RtPolicyRestart, RtLabels
  <1>4. /\ cgRt' \in RtStates /\ cgRt'.pc = l /\ cgRt'.i = i
        /\ cgRt'.gen = cgRt.gen /\ cgRt'.live = cgRt.live /\ cgRt'.cfg = cgRt.cfg
    BY <1>2, <1>3, RtGone
  <1>5. CgTypeOK' /\ cgCl' \in [CgClients -> ClientStates]
    BY <1>1, <1>2, <1>4, CgHere, SameHierarchy DEF CgTypeOK, RtStates, RtLabels, cgHost
  <1>6. ApplyOK' /\ LimitsOK' /\ SpecOK'
    BY <1>1, <1>2, <1>3, <1>4 DEF ApplyOK, LimitsOK, SpecOK, cgHost
  <1> QED BY <1>1, <1>4, <1>5, <1>6, FreeLockKeepsClients DEF CgIInv, cgHost

\* minictl restart runs with the limits of the durable spec.
LEMMA RtCommandRestartKeepsIInv ==
  ASSUME CgIInv, RtCommandRestart
  PROVE  CgIInv'
  <1>1. /\ UNCHANGED <<cgV2, cgRec, cgHost, cgSpec, cgLock, cgCl, cgTold, cgExcuse>>
        /\ cgRt.pc = "stopped" /\ cgLock = NoHolder
    BY NobodyHolds DEF RtCommandRestart
  <1>2. /\ CgTypeOK /\ cgRt \in RtStates /\ cgIn = {} /\ cgDirs = {} /\ ~cgRt.live
        /\ cgSpec \in [Files -> Values]
    BY <1>1, CgHere DEF CgIInv, ApplyOK, CgTypeOK
  <1>3. PICK l \in RtLabels, i \in 0..3 :
          cgRt' = [cgRt EXCEPT !.pc = l, !.i = i, !.cfg = cgSpec] /\ l = "admit" /\ i = 1
    BY DEF RtCommandRestart, RtLabels
  <1>4. cgRt' \in RtStates
    BY <1>2, <1>3 DEF RtStates
  <1>5. /\ cgRt'.pc = l /\ cgRt'.i = i /\ cgRt'.cfg = cgSpec
        /\ cgRt'.gen = cgRt.gen /\ cgRt'.live = cgRt.live
    BY <1>2, <1>3 DEF RtStates
  <1>6. CgTypeOK' /\ cgCl' \in [CgClients -> ClientStates]
    BY <1>1, <1>2, <1>4, CgHere, SameHierarchy DEF CgTypeOK, RtStates, RtLabels, cgHost
  <1>7. ApplyOK' /\ LimitsOK' /\ SpecOK'
    BY <1>1, <1>2, <1>3, <1>5 DEF ApplyOK, LimitsOK, SpecOK, cgHost
  <1> QED BY <1>1, <1>5, <1>6, <1>7, FreeLockKeepsClients DEF CgIInv, cgHost

\* The kernel follows a request that nobody has countermanded.
LEMMA KernelFreezesKeepsIInv ==
  ASSUME CgIInv, KernelFreezes
  PROVE  CgIInv'
  <1>1. /\ UNCHANGED <<cgV2, cgRt, cgRec, cgDirs, cgIn, cgLim, cgSpec, cgLock, cgCl, cgTold,
                       cgExcuse>>
        /\ cgFreezer' = [cgFreezer EXCEPT !.frozen = cgFreezer.req]
    BY DEF KernelFreezes
  <1>2. CgTypeOK /\ cgFreezer \in [req: BOOLEAN, frozen: BOOLEAN]
    BY DEF CgIInv, CgTypeOK
  <1>3. /\ cgFreezer' \in [req: BOOLEAN, frozen: BOOLEAN]
        /\ cgFreezer'.req = cgFreezer.req /\ cgFreezer'.frozen = cgFreezer.req
    BY <1>1, <1>2
  <1>4. CgTypeOK' /\ cgCl' \in [CgClients -> ClientStates]
    BY <1>1, <1>2, <1>3, CgHere, SameHierarchy DEF CgTypeOK
  <1>5. ApplyOK' /\ LimitsOK' /\ SpecOK'
    BY <1>1, SameHierarchy DEF CgIInv, ApplyOK, LimitsOK, SpecOK
  <1>6. \A c \in CgClients : HolderOK(c)' /\ UpdateOK(c)'
    BY <1>1 DEF CgIInv, HolderOK, UpdateOK, Planned
  <1>7. \A c \in CgClients : FreezeOK(c)'
    BY <1>1, <1>3 DEF CgIInv, FreezeOK, Wants
  <1> QED BY <1>4, <1>5, <1>6, <1>7 DEF CgIInv

-----------------------------------------------------------------------------
(* The clients                                                             *)

\* A step of client c that is its own affair: it touches limits and spec only
\* with the lock, and leaves behind what the lock promises.
LEMMA ClientKeepsIInv ==
  ASSUME CgIInv, NEW c \in CgClients, UNCHANGED <<cgV2, cgRt, cgRec, cgDirs, cgIn, cgFreezer>>,
         cgCl' \in [CgClients -> ClientStates],
         \A d \in CgClients \ {c} : cgCl'[d] = cgCl[d],
         cgExcuse \subseteq cgExcuse',
         cgExcuse' \subseteq {"rollback", "spec", "crash", "setup", "restart"},
         cgLim' \in [Files -> Values \cup {NoLimit}],
         cgSpec' \in [Files -> Values], cgTold' \in [Files -> Values],
         cgLock = c \/ UNCHANGED <<cgLim, cgSpec>>,
         \/ cgLock' = cgLock
         \/ cgLock = NoHolder /\ cgLock' = c
         \/ cgLock = c /\ cgLock' = NoHolder,
         cgLock = c /\ "setup" \notin cgExcuse' /\ cgRt.pc = "run" =>
           \A f \in Files : cgLim'[f] # NoLimit,
         cgLock = c /\ cgLock' = NoHolder /\ cgExcuse' = {} /\ cgRt.pc = "run" =>
           cgLim' = cgSpec',
         HolderOK(c)', UpdateOK(c)', FreezeOK(c)'
  PROVE  CgIInv'
  <1>1. CgTypeOK /\ HolderOK(c) /\ c # NoHolder
    BY CgHere DEF CgIInv
  <1>2. cgLock' \in CgClients \cup {NoHolder}
    BY <1>1 DEF CgTypeOK
  <1>3. \A d \in CgClients :
          /\ cgCl'[d].pc \in {"idle", "lock", "write", "rollback", "check", "commit",
                             "request", "poll", "after", "done", "failed"}
          /\ cgCl'[d].op \in {"none", "update", "freeze", "thaw"}
          /\ cgCl'[d].gen \in 0..MaxGen /\ cgCl'[d].i \in 0..3 /\ cgCl'[d].polls \in 0..MaxPolls
    <2> SUFFICES ASSUME NEW d \in CgClients, NEW r \in ClientStates, r = cgCl'[d]
                 PROVE  /\ r.pc \in {"idle", "lock", "write", "rollback", "check", "commit",
                                     "request", "poll", "after", "done", "failed"}
                        /\ r.op \in {"none", "update", "freeze", "thaw"}
                        /\ r.gen \in 0..MaxGen /\ r.i \in 0..3 /\ r.polls \in 0..MaxPolls
      OBVIOUS
    <2> QED BY DEF ClientStates
  <1>4. CgTypeOK'
    BY <1>1, <1>2, <1>3, SameHierarchy DEF CgTypeOK
  <1>5. ApplyOK'
    BY SameHierarchy DEF CgIInv, ApplyOK
  <1>6. cgLock = c /\ "setup" \notin cgExcuse => cgRt.pc \in {"run", "remove"}
    BY <1>1 DEF HolderOK
  <1>7. LimitsOK'
    BY <1>6 DEF CgIInv, LimitsOK
  <1>8. SpecOK'
    <2> SUFFICES ASSUME cgExcuse' = {} PROVE SpecOK'
      BY DEF SpecOK
    <2>1. cgExcuse = {}
      OBVIOUS
    <2>2. CASE UNCHANGED <<cgLim, cgSpec>>
      BY <1>1, <2>1, <2>2 DEF CgIInv, SpecOK
    <2>3. CASE cgLock = c
      BY <1>1, <1>6, <2>1, <2>3 DEF CgIInv, SpecOK
    <2> QED BY <2>2, <2>3
  <1>9. ASSUME NEW d \in CgClients \ {c} PROVE HolderOK(d)' /\ UpdateOK(d)' /\ FreezeOK(d)'
    <2>1. HolderOK(d) /\ UpdateOK(d) /\ FreezeOK(d) /\ d # NoHolder /\ cgCl'[d] = cgCl[d]
      BY CgHere DEF CgIInv
    <2>2. (cgLock' = d <=> cgLock = d) /\ (cgLock = d => UNCHANGED <<cgLim, cgSpec>>)
      BY <1>1, <2>1
    <2>3. HolderOK(d)'
      BY <2>1, <2>2 DEF HolderOK
    <2>4. UpdateOK(d)'
      BY <2>1, <2>2 DEF UpdateOK, Planned
    <2>5. FreezeOK(d)'
      BY <2>1 DEF FreezeOK, Wants
    <2> QED BY <2>3, <2>4, <2>5
  <1> QED BY <1>4, <1>5, <1>7, <1>8, <1>9 DEF CgIInv

\* What a client has of its own invariants before its step.
LEMMA ClientHere ==
  ASSUME CgIInv, NEW c \in CgClients
  PROVE  /\ CgTypeOK /\ cgRt \in RtStates /\ cgCl \in [CgClients -> ClientStates]
         /\ cgCl[c] \in ClientStates /\ c # NoHolder /\ c # NoLimit
         /\ HolderOK(c) /\ UpdateOK(c) /\ FreezeOK(c)
         /\ cgLim \in [Files -> Values \cup {NoLimit}]
         /\ cgSpec \in [Files -> Values] /\ cgTold \in [Files -> Values]
         /\ cgExcuse \subseteq {"rollback", "spec", "crash", "setup", "restart"}
         /\ cgRt.gen \in Nat
  BY CgHere, CgAssumption DEF CgIInv, CgTypeOK, RtStates

\* A client without the lock, or about to give it up, has nothing to know.
LEMMA IdleClientOK ==
  ASSUME CgIInv, NEW c \in CgClients, UNCHANGED cgRt, cgLock' # c,
         cgCl'[c].pc \in {"done", "failed"}, cgCl'[c].gen = 0
  PROVE  HolderOK(c)' /\ UpdateOK(c)' /\ FreezeOK(c)'
  <1>1. cgRt.gen \in Nat
    BY ClientHere
  <1>2. HolderOK(c)' /\ UpdateOK(c)'
    BY DEF HolderOK, UpdateOK, Updating
  <1>3. FreezeOK(c)'
    BY <1>1 DEF FreezeOK
  <1> QED BY <1>2, <1>3

\* A client opens the generation the record names, and a plan that is not
\* empty.
LEMMA ClOpenKeepsIInv ==
  ASSUME CgIInv, NEW c \in CgClients, ClOpen(c)
  PROVE  CgIInv'
  <1>1. /\ UNCHANGED <<cgV2, cgRt, cgRec, cgHost, cgSpec, cgLock, cgTold, cgExcuse>>
        /\ cgCl[c].pc = "idle" /\ cgRec = cgRt.gen
    BY DEF ClOpen
  <1>2. PICK op \in {"update", "freeze", "thaw"}, plan \in Plans,
             pc \in {"lock", "request"}, i \in 0..3 :
          /\ i = 1
          /\ cgCl' = [cgCl EXCEPT ![c] = [IdleClient EXCEPT
                        !.pc = pc, !.op = op, !.gen = cgRec, !.plan = plan, !.i = i]]
    <2>1. PICK op \in {"update", "freeze", "thaw"}, plan \in Plans :
            cgCl' = [cgCl EXCEPT ![c] = [IdleClient EXCEPT
                       !.pc = IF op = "update" THEN "lock" ELSE "request", !.op = op,
                       !.gen = cgRec, !.plan = plan, !.i = 1]]
      BY DEF ClOpen
    <2>2. PICK pc \in {"lock", "request"}, i \in 0..3 :
            pc = (IF op = "update" THEN "lock" ELSE "request") /\ i = 1
      OBVIOUS
    <2> QED BY <2>1, <2>2
  <1>3. /\ CgTypeOK /\ cgCl \in [CgClients -> ClientStates] /\ c # NoHolder /\ HolderOK(c)
        /\ cgRt.gen \in 0..MaxGen /\ cgRt.gen \in Nat
    BY ClientHere DEF RtStates
  <1>4. PICK r \in ClientStates :
          /\ r = [IdleClient EXCEPT !.pc = pc, !.op = op, !.gen = cgRec, !.plan = plan, !.i = i]
          /\ r.pc = pc /\ r.gen = cgRec /\ r.plan = plan /\ r.i = 1 /\ r.polls < MaxPolls
    <2> DEFINE r == [IdleClient EXCEPT !.pc = pc, !.op = op, !.gen = cgRec, !.plan = plan, !.i = i]
    <2>1. r \in ClientStates
      BY <1>1, <1>3, IdleClientTyped DEF ClientStates
    <2>2. r.pc = pc /\ r.gen = cgRec /\ r.plan = plan /\ r.i = 1 /\ r.polls = 0
      BY <1>2 DEF IdleClient
    <2>3. r.polls < MaxPolls
      <3> HIDE DEF r
      <3> QED BY <2>2, CgAssumption
    <2>4. r = [IdleClient EXCEPT !.pc = pc, !.op = op, !.gen = cgRec, !.plan = plan, !.i = i]
      OBVIOUS
    <2> HIDE DEF r
    <2> QED BY <2>1, <2>2, <2>3, <2>4
  <1>5. /\ cgCl' \in [CgClients -> ClientStates] /\ cgCl'[c] = r
        /\ \A d \in CgClients \ {c} : cgCl'[d] = cgCl[d]
    BY <1>2, <1>3, <1>4
  <1>6. cgLock # c
    BY <1>1, <1>3 DEF HolderOK, Updating
  <1>7. HolderOK(c)' /\ UpdateOK(c)' /\ FreezeOK(c)'
    BY <1>1, <1>3, <1>4, <1>5, <1>6 DEF HolderOK, UpdateOK, FreezeOK, Updating
  <1> QED BY <1>1, <1>3, <1>5, <1>6, <1>7, ClientHere, ClientKeepsIInv DEF cgHost

\* UpdateRunningRestartSpec saves the old limits under the state lock.
LEMMA UpdateLocksKeepsIInv ==
  ASSUME CgIInv, NEW c \in CgClients, UpdateLocks(c)
  PROVE  CgIInv'
  <1>1. /\ UNCHANGED <<cgV2, cgRt, cgRec, cgHost, cgSpec, cgTold>>
        /\ cgCl[c].pc = "lock" /\ cgLock = NoHolder
    BY DEF UpdateLocks
  <1>2. /\ CgTypeOK /\ cgRt \in RtStates /\ cgCl \in [CgClients -> ClientStates]
        /\ cgCl[c] \in ClientStates /\ c # NoHolder
        /\ HolderOK(c) /\ FreezeOK(c) /\ ApplyOK /\ LimitsOK /\ SpecOK
        /\ cgLim \in [Files -> Values \cup {NoLimit}]
    BY ClientHere DEF CgIInv
  <1>3. CASE ClEnds(c, "failed") /\ UNCHANGED <<cgLock, cgExcuse>>
    <2>1. /\ cgCl' \in [CgClients -> ClientStates] /\ \A d \in CgClients \ {c} : cgCl'[d] = cgCl[d]
          /\ cgCl'[c].pc = "failed" /\ cgCl'[c].gen = 0
      BY <1>2, <1>3, ClEnded
    <2>2. HolderOK(c)' /\ UpdateOK(c)' /\ FreezeOK(c)'
      BY <1>1, <1>2, <1>3, <2>1, IdleClientOK
    <2> QED BY <1>1, <1>2, <1>3, <2>1, <2>2, ClientHere, ClientKeepsIInv DEF cgHost
  <1>4. CASE /\ GenAlive(c) /\ DirOf(c) /\ cgLock' = c
             /\ cgCl' = [cgCl EXCEPT ![c].pc = "write", ![c].saved = cgLim]
             /\ cgExcuse' = cgExcuse \cup (IF InSetup THEN {"setup"} ELSE {})
    <2> DEFINE r == [cgCl[c] EXCEPT !.pc = "write", !.saved = cgLim]
    <2>1. r \in ClientStates
      BY <1>2 DEF ClientStates
    <2>2. /\ r.pc = "write" /\ r.saved = cgLim /\ r.gen = cgCl[c].gen /\ r.plan = cgCl[c].plan
          /\ r.i = cgCl[c].i
      BY <1>2 DEF ClientStates
    <2>3. /\ cgCl' \in [CgClients -> ClientStates] /\ cgCl'[c] = r
          /\ \A d \in CgClients \ {c} : cgCl'[d] = cgCl[d]
      BY <1>2, <1>4, <2>1
    <2> HIDE DEF r
    <2>4. cgRt.pc \notin {"admit", "stopped"} /\ ("setup" \notin cgExcuse' => cgRt.pc = "run")
      BY <1>2, <1>4 DEF GenAlive, DirOf, InSetup, ApplyOK, RtStates, RtLabels
    <2>5. cgCl[c].i = 1 /\ cgCl[c].plan \in Plans /\ 1 \in 1..Len(cgCl[c].plan)
      BY <1>1, <1>2, PlanOrder DEF HolderOK
    <2>6. HolderOK(c)'
      BY <1>1, <1>2, <1>4, <2>2, <2>3, <2>4, <2>5 DEF HolderOK, Updating, GenAlive, DirOf
    <2>7. cgExcuse' = {} /\ cgRt.pc = "run" => cgLim = cgSpec /\ UNCHANGED <<cgLim, cgSpec>>
      BY <1>1, <1>2, <1>4 DEF SpecOK, cgHost
    <2>8. UpdateOK(c)'
      BY <1>1, <1>2, <1>4, <2>2, <2>3, <2>5, <2>7 DEF UpdateOK, LimitsOK, cgHost
    <2>9. FreezeOK(c)'
      BY <1>1, <1>2, <2>2, <2>3 DEF FreezeOK
    <2>10. cgExcuse' \subseteq {"rollback", "spec", "crash", "setup", "restart"}
      BY <1>4, ClientHere
    <2> QED BY <1>1, <1>2, <1>4, <2>3, <2>6, <2>8, <2>9, <2>10, ClientHere, ClientKeepsIInv
            DEF cgHost
  <1> QED BY <1>3, <1>4 DEF UpdateLocks

\* The next planned file is written, or the rollback begins before it.
LEMMA UpdateWritesKeepsIInv ==
  ASSUME CgIInv, NEW c \in CgClients, UpdateWrites(c)
  PROVE  CgIInv'
  <1>1. /\ UNCHANGED <<cgV2, cgRt, cgRec, cgDirs, cgIn, cgFreezer, cgSpec, cgLock, cgTold, cgExcuse>>
        /\ cgCl[c].pc = "write"
    BY DEF UpdateWrites
  <1>2. /\ CgTypeOK /\ cgRt \in RtStates /\ cgCl \in [CgClients -> ClientStates]
        /\ cgCl[c] \in ClientStates /\ c # NoHolder /\ c # NoLimit
        /\ HolderOK(c) /\ UpdateOK(c) /\ FreezeOK(c) /\ LimitsOK
        /\ cgLim \in [Files -> Values \cup {NoLimit}]
    BY ClientHere DEF CgIInv
  <1>3. /\ cgLock = c /\ cgCl[c].plan \in Plans /\ cgCl[c].i \in 1..Len(cgCl[c].plan)
        /\ Len(cgCl[c].plan) \in {1, 2} /\ File(c) \in Files /\ cgCl[c].i \in {1, 2}
    BY <1>1, <1>2, PlanOrder DEF HolderOK, Updating, File
  <1>4. CASE ClGoes(c, "rollback") /\ UNCHANGED cgLim
    <2>1. /\ cgCl' \in [CgClients -> ClientStates] /\ \A d \in CgClients \ {c} : cgCl'[d] = cgCl[d]
          /\ cgCl'[c].pc = "rollback" /\ cgCl'[c].gen = cgCl[c].gen /\ cgCl'[c].plan = cgCl[c].plan
          /\ cgCl'[c].i = cgCl[c].i /\ cgCl'[c].saved = cgCl[c].saved
      BY <1>2, <1>4, ClGone
    <2>2. HolderOK(c)'
      BY <1>1, <1>2, <1>3, <2>1 DEF HolderOK, Updating
    <2>3. \A f \in Files : (\A k \in 1..cgCl[c].i : cgCl[c].plan[k] # f)
                           => ~ \E k \in 1..(cgCl[c].i - 1) : cgCl[c].plan[k] = f
      BY <1>3
    <2>4. UpdateOK(c)'
      BY <1>1, <1>2, <1>4, <2>1, <2>3 DEF UpdateOK
    <2>5. FreezeOK(c)'
      BY <1>1, <1>2, <2>1 DEF FreezeOK
    <2> QED BY <1>1, <1>2, <1>3, <1>4, <2>1, <2>2, <2>4, <2>5, ClientHere, ClientKeepsIInv
            DEF LimitsOK
  <1>5. CASE /\ cgLim' = [cgLim EXCEPT ![File(c)] = c]
             /\ cgCl' = [cgCl EXCEPT ![c].i = @ + 1,
                           ![c].pc = IF cgCl[c].i = Len(cgCl[c].plan) THEN "check" ELSE @]
    <2>1. PICK i \in 0..3, pc \in {"check", "write"} :
            /\ i = cgCl[c].i + 1
            /\ pc = IF cgCl[c].i = Len(cgCl[c].plan) THEN "check" ELSE "write"
      <3>1. cgCl[c].i + 1 \in 0..3
        BY <1>3
      <3> QED BY <3>1
    <2> DEFINE r == [cgCl[c] EXCEPT !.i = i, !.pc = pc]
    <2>2. r \in ClientStates
      BY <1>2 DEF ClientStates
    <2>3. r.pc = pc /\ r.i = i /\ r.saved = cgCl[c].saved /\ r.gen = cgCl[c].gen /\ r.plan = cgCl[c].plan
      BY <1>2 DEF ClientStates
    <2>4. cgCl' = [cgCl EXCEPT ![c] = r]
      BY <1>1, <1>2, <1>5, <2>1
    <2> HIDE DEF r
    <2>5. /\ cgCl' \in [CgClients -> ClientStates] /\ cgCl'[c] = r
          /\ \A d \in CgClients \ {c} : cgCl'[d] = cgCl[d]
      BY <1>2, <2>2, <2>4
    <2>6. /\ cgLim' \in [Files -> Values \cup {NoLimit}] /\ cgLim'[File(c)] = c
          /\ \A f \in Files \ {File(c)} : cgLim'[f] = cgLim[f]
      BY <1>2, <1>3, <1>5 DEF Values
    <2>7. HolderOK(c)'
      <3>1. pc = "write" => i \in 1..Len(cgCl[c].plan)
        BY <1>3, <2>1
      <3> QED BY <1>1, <1>2, <1>3, <2>3, <2>5, <3>1 DEF HolderOK, Updating
    <2>8. \A f \in Files :
            (\E k \in 1..(i - 1) : cgCl[c].plan[k] = f)
            <=> (f = File(c) \/ \E k \in 1..(cgCl[c].i - 1) : cgCl[c].plan[k] = f)
      <3>1. \A k : k \in 1..(i - 1) <=> k \in 1..(cgCl[c].i - 1) \/ k = cgCl[c].i
        BY <1>3, <2>1
      <3> QED BY <3>1 DEF File
    <2>9. pc = "check" => Planned(c) = {cgCl[c].plan[k] : k \in 1..(i - 1)}
      <3>1. ASSUME pc = "check" PROVE DOMAIN cgCl[c].plan = 1..(i - 1)
        <4>1. DOMAIN cgCl[c].plan = 1..Len(cgCl[c].plan)
          BY <1>3, PlanOrder
        <4> QED BY <1>3, <2>1, <3>1, <4>1
      <3> QED BY <3>1 DEF Planned
    <2>10. UpdateOK(c)'
      <3> SUFFICES ASSUME cgRt.pc = "run" PROVE UpdateOK(c)'
        BY <1>1 DEF UpdateOK
      <3>1. "setup" \notin cgExcuse => \A f \in Files : r.saved[f] # NoLimit
        BY <1>1, <1>2, <1>3, <2>3 DEF UpdateOK
      <3>2. ASSUME cgExcuse = {}
            PROVE  \A f \in Files : cgLim'[f] = IF \E k \in 1..(i - 1) : cgCl[c].plan[k] = f
                                                THEN c ELSE cgSpec[f]
        BY <1>1, <1>2, <1>3, <2>6, <2>8, <3>2 DEF UpdateOK
      <3>3. ASSUME cgExcuse = {}, pc = "check"
            PROVE  \A f \in Files : cgLim'[f] = IF f \in Planned(c)' THEN c ELSE cgSpec[f]
        <4>1. Planned(c)' = Planned(c)
          BY <2>3, <2>5 DEF Planned
        <4> QED BY <2>9, <3>2, <3>3, <4>1
      <3>4. cgExcuse = {} => r.saved = cgSpec
        BY <1>1, <1>2, <1>3, <2>3 DEF UpdateOK
      <3> QED BY <1>1, <2>3, <2>5, <3>1, <3>2, <3>3, <3>4 DEF UpdateOK
    <2>11. FreezeOK(c)'
      BY <1>1, <1>2, <2>3, <2>5 DEF FreezeOK
    <2>12. "setup" \notin cgExcuse /\ cgRt.pc = "run" => \A f \in Files : cgLim'[f] # NoLimit
      BY <1>2, <2>6 DEF LimitsOK
    <2> QED BY <1>1, <1>2, <1>3, <2>5, <2>6, <2>7, <2>10, <2>11, <2>12, ClientHere, ClientKeepsIInv
  <1> QED BY <1>4, <1>5 DEF UpdateWrites

\* The rollback puts the saved value back, last file first.
LEMMA UpdateRollsBackKeepsIInv ==
  ASSUME CgIInv, NEW c \in CgClients, UpdateRollsBack(c)
  PROVE  CgIInv'
  <1>1. /\ UNCHANGED <<cgV2, cgRt, cgRec, cgDirs, cgIn, cgFreezer, cgSpec, cgTold>>
        /\ cgCl[c].pc = "rollback"
    BY DEF UpdateRollsBack
  <1>2. /\ CgTypeOK /\ cgRt \in RtStates /\ cgCl \in [CgClients -> ClientStates]
        /\ cgCl[c] \in ClientStates /\ c # NoHolder
        /\ HolderOK(c) /\ UpdateOK(c) /\ FreezeOK(c) /\ LimitsOK /\ ApplyOK
        /\ cgLim \in [Files -> Values \cup {NoLimit}] /\ cgSpec \in [Files -> Values]
    BY ClientHere DEF CgIInv
  <1>3. /\ cgLock = c /\ cgCl[c].plan \in Plans /\ cgCl[c].i \in 0..Len(cgCl[c].plan)
        /\ Len(cgCl[c].plan) \in {1, 2} /\ cgCl[c].i \in {0, 1, 2}
    BY <1>1, <1>2, PlanOrder DEF HolderOK, Updating
  <1>4. CASE cgCl[c].i = 0
    <2>1. ClEnds(c, "failed") /\ cgLock' = NoHolder /\ UNCHANGED <<cgLim, cgExcuse>>
      BY <1>4 DEF UpdateRollsBack
    <2>2. /\ cgCl' \in [CgClients -> ClientStates] /\ \A d \in CgClients \ {c} : cgCl'[d] = cgCl[d]
          /\ cgCl'[c].pc = "failed" /\ cgCl'[c].gen = 0
      BY <1>2, <2>1, ClEnded
    <2>3. HolderOK(c)' /\ UpdateOK(c)' /\ FreezeOK(c)'
      BY <1>1, <1>2, <2>1, <2>2, IdleClientOK
    <2>4. cgExcuse = {} /\ cgRt.pc = "run" => cgLim = cgSpec
      <3> SUFFICES ASSUME cgExcuse = {}, cgRt.pc = "run" PROVE cgLim = cgSpec
        OBVIOUS
      <3>1. \A f \in Files : cgLim[f] = cgSpec[f]
        BY <1>1, <1>2, <1>3, <1>4 DEF UpdateOK
      <3> QED BY <1>2, <3>1
    <2> QED BY <1>1, <1>2, <1>3, <2>1, <2>2, <2>3, <2>4, ClientHere, ClientKeepsIInv DEF LimitsOK
  <1>5. CASE cgCl[c].i # 0
    <2>1. /\ cgCl' = [cgCl EXCEPT ![c].i = @ - 1] /\ UNCHANGED cgLock
          /\ \/ /\ cgLim' = IF DirOf(c) THEN [cgLim EXCEPT ![File(c)] = cgCl[c].saved[File(c)]]
                            ELSE cgLim
                /\ UNCHANGED cgExcuse
             \/ cgExcuse' = cgExcuse \cup {"rollback"} /\ UNCHANGED cgLim
      BY <1>5 DEF UpdateRollsBack
    <2>2. PICK i \in 0..3 : i = cgCl[c].i - 1 /\ i + 1 = cgCl[c].i
      <3>1. cgCl[c].i \in {1, 2}
        BY <1>3, <1>5
      <3> QED BY <3>1
    <2> DEFINE r == [cgCl[c] EXCEPT !.i = i]
    <2>3. r \in ClientStates
      BY <1>2 DEF ClientStates
    <2>4. /\ r.pc = "rollback" /\ r.i = i /\ r.saved = cgCl[c].saved /\ r.gen = cgCl[c].gen
          /\ r.plan = cgCl[c].plan
      BY <1>1, <1>2 DEF ClientStates
    <2>5. cgCl' = [cgCl EXCEPT ![c] = r]
      BY <1>2, <2>1, <2>2
    <2> HIDE DEF r
    <2>6. /\ cgCl' \in [CgClients -> ClientStates] /\ cgCl'[c] = r
          /\ \A d \in CgClients \ {c} : cgCl'[d] = cgCl[d]
      BY <1>2, <2>3, <2>5
    <2>7. File(c) \in Files /\ cgCl[c].saved \in [Files -> Values \cup {NoLimit}]
      BY <1>2, <1>3, <1>5, PlanOrder DEF File, ClientStates
    <2>8. /\ cgLim' \in [Files -> Values \cup {NoLimit}]
          /\ \A f \in Files \ {File(c)} : cgLim'[f] = cgLim[f]
          /\ cgLim'[File(c)] \in {cgLim[File(c)], cgCl[c].saved[File(c)]}
      BY <1>2, <2>1, <2>7
    <2>9. HolderOK(c)'
      <3>1. i \in 0..Len(cgCl[c].plan)
        <4>1. CASE Len(cgCl[c].plan) = 1
          BY <1>3, <2>2, <4>1
        <4>2. CASE Len(cgCl[c].plan) = 2
          BY <1>3, <2>2, <4>2
        <4> QED BY <1>3, <4>1, <4>2
      <3> QED BY <1>1, <1>2, <1>3, <2>1, <2>4, <2>6, <3>1 DEF HolderOK, Updating
    <2>10. ASSUME cgExcuse' = {}, cgRt.pc = "run"
           PROVE  cgExcuse = {} /\ cgLim'[File(c)] = cgSpec[File(c)]
      <3>1. cgExcuse = {} /\ cgLim' = IF DirOf(c) THEN [cgLim EXCEPT ![File(c)] = cgCl[c].saved[File(c)]]
                                      ELSE cgLim
        BY <2>1, <2>10
      <3>2. DirOf(c)
        BY <1>2, <1>3, <2>10, HierarchyOrder DEF DirOf, HolderOK, ApplyOK
      <3>3. cgCl[c].saved = cgSpec
        BY <1>1, <1>2, <1>3, <2>10, <3>1 DEF UpdateOK
      <3> QED BY <1>2, <2>7, <3>1, <3>2, <3>3
    <2>11. UpdateOK(c)'
      <3> SUFFICES ASSUME cgRt.pc = "run" PROVE UpdateOK(c)'
        BY <1>1 DEF UpdateOK
      <3>1. "setup" \notin cgExcuse' => \A f \in Files : r.saved[f] # NoLimit
        BY <1>1, <1>2, <1>3, <2>1, <2>4 DEF UpdateOK
      <3>2. ASSUME cgExcuse' = {}, NEW f \in Files, \A k \in 1..i : cgCl[c].plan[k] # f
            PROVE  cgLim'[f] = cgSpec[f]
        <4>1. CASE f = File(c)
          BY <2>10, <3>2, <4>1
        <4>2. CASE f # File(c)
          <5>1. \A k \in 1..cgCl[c].i : cgCl[c].plan[k] # f
            BY <1>3, <2>2, <3>2, <4>2 DEF File
          <5> QED BY <1>1, <1>2, <1>3, <2>8, <2>10, <3>2, <4>2, <5>1 DEF UpdateOK
        <4> QED BY <4>1, <4>2
      <3>3. cgExcuse' = {} => r.saved = cgSpec
        BY <1>1, <1>2, <1>3, <2>4, <2>10 DEF UpdateOK
      <3> QED BY <1>1, <2>4, <2>6, <3>1, <3>2, <3>3 DEF UpdateOK
    <2>12. FreezeOK(c)'
      BY <1>1, <1>2, <2>4, <2>6 DEF FreezeOK
    <2>13. "setup" \notin cgExcuse' /\ cgRt.pc = "run" => \A f \in Files : cgLim'[f] # NoLimit
      <3> SUFFICES ASSUME "setup" \notin cgExcuse', cgRt.pc = "run", NEW f \in Files
                   PROVE  cgLim'[f] # NoLimit
        OBVIOUS
      <3>1. "setup" \notin cgExcuse
        BY <2>1
      <3>2. cgLim[f] # NoLimit /\ cgCl[c].saved[f] # NoLimit
        BY <1>1, <1>2, <1>3, <3>1 DEF LimitsOK, UpdateOK
      <3> QED BY <2>8, <3>2
    <2>14. cgExcuse \subseteq cgExcuse' /\ cgExcuse' \subseteq {"rollback", "spec", "crash", "setup", "restart"}
      BY <2>1, ClientHere
    <2> QED BY <1>1, <1>2, <1>3, <2>1, <2>6, <2>8, <2>9, <2>11, <2>12, <2>13, <2>14,
               ClientHere, ClientKeepsIInv
  <1> QED BY <1>4, <1>5

\* The generation is probed again before the update is made durable.
LEMMA UpdateChecksAliveKeepsIInv ==
  ASSUME CgIInv, NEW c \in CgClients, UpdateChecksAlive(c)
  PROVE  CgIInv'
  <1>1. /\ UNCHANGED <<cgV2, cgRt, cgRec, cgHost, cgSpec, cgTold, cgExcuse>>
        /\ cgCl[c].pc = "check"
    BY DEF UpdateChecksAlive
  <1>2. /\ CgTypeOK /\ cgCl \in [CgClients -> ClientStates] /\ c # NoHolder
        /\ HolderOK(c) /\ UpdateOK(c) /\ FreezeOK(c) /\ ApplyOK /\ LimitsOK
        /\ cgLock = c
    BY <1>1, ClientHere DEF CgIInv, HolderOK, Updating
  <1>3. CASE GenAlive(c) /\ ClGoes(c, "commit") /\ UNCHANGED cgLock
    <2>1. /\ cgCl' \in [CgClients -> ClientStates] /\ \A d \in CgClients \ {c} : cgCl'[d] = cgCl[d]
          /\ cgCl'[c].pc = "commit" /\ cgCl'[c].gen = cgCl[c].gen /\ cgCl'[c].plan = cgCl[c].plan
      BY <1>2, <1>3, ClGone
    <2>2. HolderOK(c)'
      BY <1>1, <1>2, <1>3, <2>1 DEF HolderOK, Updating
    <2>3. UpdateOK(c)'
      BY <1>1, <1>2, <2>1 DEF UpdateOK, Planned, cgHost
    <2>4. FreezeOK(c)'
      BY <1>1, <1>2, <2>1 DEF FreezeOK
    <2> QED BY <1>1, <1>2, <1>3, <2>1, <2>2, <2>3, <2>4, ClientHere, ClientKeepsIInv
            DEF cgHost, LimitsOK
  <1>4. CASE ~GenAlive(c) /\ ClEnds(c, "failed") /\ cgLock' = NoHolder
    <2>1. /\ cgCl' \in [CgClients -> ClientStates] /\ \A d \in CgClients \ {c} : cgCl'[d] = cgCl[d]
          /\ cgCl'[c].pc = "failed" /\ cgCl'[c].gen = 0
      BY <1>2, <1>4, ClEnded
    <2>2. HolderOK(c)' /\ UpdateOK(c)' /\ FreezeOK(c)'
      BY <1>1, <1>2, <1>4, <2>1, IdleClientOK
    <2>3. cgRt.pc # "run"
      BY <1>2, <1>4 DEF GenAlive, HolderOK, ApplyOK
    <2> QED BY <1>1, <1>2, <1>4, <2>1, <2>2, <2>3, ClientHere, ClientKeepsIInv DEF cgHost
  <1> QED BY <1>3, <1>4 DEF UpdateChecksAlive

\* The spec gets the new limits before the client reports success and unlocks.
LEMMA UpdateCommitsKeepsIInv ==
  ASSUME CgIInv, NEW c \in CgClients, UpdateCommits(c)
  PROVE  CgIInv'
  <1> DEFINE new == [f \in Files |-> IF f \in Planned(c) THEN c ELSE cgSpec[f]]
             told == [f \in Files |-> IF f \in Planned(c) THEN c ELSE cgTold[f]]
  <1>1. UNCHANGED <<cgV2, cgRt, cgRec, cgHost>> /\ cgCl[c].pc = "commit" /\ cgLock' = NoHolder
    BY DEF UpdateCommits
  <1>2. /\ CgTypeOK /\ cgCl \in [CgClients -> ClientStates] /\ c # NoHolder
        /\ HolderOK(c) /\ UpdateOK(c) /\ LimitsOK /\ cgLock = c
        /\ cgLim \in [Files -> Values \cup {NoLimit}]
        /\ cgSpec \in [Files -> Values] /\ cgTold \in [Files -> Values]
        /\ cgExcuse \subseteq {"rollback", "spec", "crash", "setup", "restart"}
    BY <1>1, ClientHere DEF CgIInv, HolderOK, Updating
  <1>3. new \in [Files -> Values] /\ told \in [Files -> Values]
    BY <1>2 DEF Values
  <1>4. PICK pc \in {"done", "failed"} : ClEnds(c, pc)
    BY DEF UpdateCommits
  <1>5. /\ cgCl' \in [CgClients -> ClientStates] /\ \A d \in CgClients \ {c} : cgCl'[d] = cgCl[d]
        /\ cgCl'[c].pc = pc /\ cgCl'[c].gen = 0
    BY <1>2, <1>4, ClEnded
  <1>6. HolderOK(c)' /\ UpdateOK(c)' /\ FreezeOK(c)'
    BY <1>1, <1>2, <1>5, IdleClientOK
  <1>7. /\ cgSpec' \in {cgSpec, new} /\ cgTold' \in {cgTold, told}
        /\ cgExcuse \subseteq cgExcuse'
        /\ cgExcuse' \subseteq {"rollback", "spec", "crash", "setup", "restart"}
        /\ cgSpec' = new \/ cgExcuse' # {}
    BY <1>2 DEF UpdateCommits
  <1>8. cgExcuse' = {} /\ cgRt.pc = "run" => cgLim = cgSpec'
    <2> SUFFICES ASSUME cgExcuse' = {}, cgRt.pc = "run" PROVE cgLim = cgSpec'
      OBVIOUS
    <2>1. \A f \in Files : cgLim[f] = new[f]
      BY <1>1, <1>2, <1>7 DEF UpdateOK
    <2>2. cgSpec' = new
      BY <1>7
    <2> HIDE DEF new
    <2> QED BY <1>2, <1>3, <2>1, <2>2
  <1> HIDE DEF new, told
  <1>9. cgSpec' \in [Files -> Values] /\ cgTold' \in [Files -> Values]
    BY <1>2, <1>3, <1>7
  <1> QED BY <1>1, <1>2, <1>5, <1>6, <1>7, <1>8, <1>9, ClientKeepsIInv DEF cgHost, LimitsOK

\* A request marks those that are waiting for another as opposed.
LEMMA FreezeRequestsKeepsIInv ==
  ASSUME CgIInv, NEW c \in CgClients, FreezeRequests(c)
  PROVE  CgIInv'
  <1>1. /\ UNCHANGED <<cgV2, cgRt, cgRec, cgDirs, cgIn, cgLim, cgSpec, cgLock, cgTold, cgExcuse>>
        /\ cgCl[c].pc = "request"
    BY DEF FreezeRequests
  <1>2. /\ CgTypeOK /\ cgCl \in [CgClients -> ClientStates] /\ c # NoHolder
        /\ HolderOK(c) /\ FreezeOK(c) /\ cgLock # c
    BY <1>1, ClientHere DEF HolderOK, Updating
  <1>3. CASE ClEnds(c, "failed") /\ UNCHANGED cgFreezer
    <2>1. /\ cgCl' \in [CgClients -> ClientStates] /\ \A d \in CgClients \ {c} : cgCl'[d] = cgCl[d]
          /\ cgCl'[c].pc = "failed" /\ cgCl'[c].gen = 0
      BY <1>2, <1>3, ClEnded
    <2>2. HolderOK(c)' /\ UpdateOK(c)' /\ FreezeOK(c)'
      BY <1>1, <1>2, <2>1, IdleClientOK
    <2> QED BY <1>1, <1>2, <1>3, <2>1, <2>2, ClientHere, ClientKeepsIInv
  <1>4. CASE /\ cgFreezer' = [cgFreezer EXCEPT !.req = Wants(c)]
             /\ cgCl' = [k \in CgClients |->
                  IF k = c THEN [cgCl[k] EXCEPT !.pc = "poll"]
                  ELSE IF cgCl[k].pc \in {"poll", "after"} THEN [cgCl[k] EXCEPT !.opposed = TRUE]
                  ELSE cgCl[k]]
    <2>1. cgFreezer \in [req: BOOLEAN, frozen: BOOLEAN] /\ Wants(c) \in BOOLEAN
      BY <1>2 DEF CgTypeOK, Wants
    <2>2. cgFreezer' \in [req: BOOLEAN, frozen: BOOLEAN] /\ cgFreezer'.req = Wants(c)
      BY <1>4, <2>1
    <2>3. ASSUME NEW k \in CgClients
          PROVE  /\ [cgCl[k] EXCEPT !.pc = "poll"] \in ClientStates
                 /\ [cgCl[k] EXCEPT !.opposed = TRUE] \in ClientStates
      BY <1>2 DEF ClientStates
    <2>4. cgCl' \in [CgClients -> ClientStates]
      BY <1>2, <1>4, <2>3
    <2>5. /\ cgCl'[c] = [cgCl[c] EXCEPT !.pc = "poll"]
          /\ cgCl'[c].pc = "poll" /\ cgCl'[c].gen = cgCl[c].gen /\ cgCl'[c].op = cgCl[c].op
          /\ cgCl'[c].polls = cgCl[c].polls
      BY <1>2, <1>4 DEF ClientStates
    <2>6. ASSUME NEW d \in CgClients \ {c}, cgCl[d].pc \in {"poll", "after"}
          PROVE  /\ cgCl'[d].opposed /\ cgCl'[d].pc = cgCl[d].pc /\ cgCl'[d].gen = cgCl[d].gen
                 /\ cgCl'[d].polls = cgCl[d].polls
      <3>1. cgCl'[d] = [cgCl[d] EXCEPT !.opposed = TRUE] /\ cgCl[d] \in ClientStates
        BY <1>2, <1>4, <2>6
      <3> QED BY <3>1 DEF ClientStates
    <2>7. ASSUME NEW d \in CgClients \ {c}, cgCl[d].pc \notin {"poll", "after"}
          PROVE  cgCl'[d] = cgCl[d]
      BY <1>4, <2>7
    <2>8. CgTypeOK'
      <3> SUFFICES ASSUME NEW d \in CgClients, NEW r \in ClientStates, r = cgCl'[d]
                   PROVE  /\ r.pc \in {"idle", "lock", "write", "rollback", "check", "commit",
                                       "request", "poll", "after", "done", "failed"}
                          /\ r.op \in {"none", "update", "freeze", "thaw"}
                          /\ r.gen \in 0..MaxGen /\ r.i \in 0..3 /\ r.polls \in 0..MaxPolls
        BY <1>1, <1>2, <2>2, <2>4, SameHierarchy DEF CgTypeOK
      <3> QED BY DEF ClientStates
    <2>9. ApplyOK' /\ LimitsOK' /\ SpecOK'
      BY <1>1, SameHierarchy DEF CgIInv, ApplyOK, LimitsOK, SpecOK
    <2>10. HolderOK(c)' /\ UpdateOK(c)'
      BY <1>1, <1>2, <2>5 DEF HolderOK, UpdateOK, Updating
    <2>11. FreezeOK(c)'
      BY <1>1, <1>2, <2>2, <2>5 DEF FreezeOK, Wants
    <2>12. ASSUME NEW d \in CgClients \ {c} PROVE HolderOK(d)' /\ UpdateOK(d)' /\ FreezeOK(d)'
      <3>1. HolderOK(d) /\ UpdateOK(d) /\ FreezeOK(d) /\ d # NoHolder
        BY ClientHere
      <3>2. CASE cgCl[d].pc \in {"poll", "after"}
        BY <1>1, <2>6, <3>1, <3>2 DEF HolderOK, UpdateOK, FreezeOK, Updating
      <3>3. CASE cgCl[d].pc \notin {"poll", "after"}
        <4>1. cgCl'[d] = cgCl[d]
          BY <2>7, <3>3
        <4>2. HolderOK(d)' /\ UpdateOK(d)'
          BY <1>1, <3>1, <4>1 DEF HolderOK, UpdateOK, Planned
        <4>3. FreezeOK(d)'
          BY <1>1, <3>1, <3>3, <4>1 DEF FreezeOK
        <4> QED BY <4>2, <4>3
      <3> QED BY <3>2, <3>3
    <2> QED BY <2>4, <2>8, <2>9, <2>10, <2>11, <2>12 DEF CgIInv
  <1> QED BY <1>3, <1>4 DEF FreezeRequests

\* setFreezeAt reads cgroup.events until its deadline.
LEMMA FreezePollsKeepsIInv ==
  ASSUME CgIInv, NEW c \in CgClients, FreezePolls(c)
  PROVE  CgIInv'
  <1>1. /\ UNCHANGED <<cgV2, cgRt, cgRec, cgHost, cgSpec, cgLock, cgTold, cgExcuse>>
        /\ cgCl[c].pc = "poll"
    BY DEF FreezePolls
  <1>2. /\ CgTypeOK /\ cgCl \in [CgClients -> ClientStates] /\ c # NoHolder
        /\ cgCl[c] \in ClientStates /\ HolderOK(c) /\ FreezeOK(c) /\ cgLock # c
    BY <1>1, ClientHere DEF HolderOK, Updating
  <1>3. cgCl[c].polls \in 0..MaxPolls /\ cgCl[c].polls < MaxPolls /\ cgCl[c].polls + 1 \in 0..MaxPolls
    <2>1. cgCl[c].polls \in 0..MaxPolls /\ cgCl[c].polls < MaxPolls
      BY <1>1, <1>2 DEF FreezeOK, ClientStates
    <2> QED BY <2>1, CgAssumption
  <1>4. PICK n \in 0..MaxPolls, pc \in {"poll", "after", "failed"} :
          /\ cgCl' = [cgCl EXCEPT ![c].polls = n, ![c].pc = pc]
          /\ pc = "poll" => n < MaxPolls
          /\ pc = "after" => cgFreezer.frozen = Wants(c)
    <2>1. PICK n \in 0..MaxPolls :
            n = IF cgFreezer.frozen = Wants(c) THEN cgCl[c].polls ELSE cgCl[c].polls + 1
      BY <1>3
    <2>2. PICK pc \in {"poll", "after", "failed"} :
            pc = IF ~DirOf(c) THEN "failed"
                 ELSE IF cgFreezer.frozen = Wants(c) THEN "after"
                 ELSE IF cgCl[c].polls + 1 = MaxPolls THEN "failed" ELSE "poll"
      OBVIOUS
    <2>3. cgCl' = [cgCl EXCEPT ![c].polls = n, ![c].pc = pc]
      BY <1>2, <2>1, <2>2 DEF FreezePolls
    <2>4. pc = "poll" => n < MaxPolls
      BY <1>3, <2>1, <2>2, CgAssumption
    <2>5. pc = "after" => cgFreezer.frozen = Wants(c)
      BY <2>2
    <2> QED BY <2>3, <2>4, <2>5
  <1> DEFINE r == [cgCl[c] EXCEPT !.polls = n, !.pc = pc]
  <1>5. r \in ClientStates
    BY <1>2 DEF ClientStates
  <1>6. /\ r.pc = pc /\ r.polls = n /\ r.gen = cgCl[c].gen /\ r.op = cgCl[c].op
        /\ r.opposed = cgCl[c].opposed
    BY <1>2 DEF ClientStates
  <1>7. /\ cgCl' \in [CgClients -> ClientStates] /\ cgCl'[c] = r
        /\ \A d \in CgClients \ {c} : cgCl'[d] = cgCl[d]
    BY <1>2, <1>4, <1>5
  <1> HIDE DEF r
  <1>8. HolderOK(c)' /\ UpdateOK(c)'
    BY <1>1, <1>2, <1>6, <1>7 DEF HolderOK, UpdateOK, Updating
  <1>9. FreezeOK(c)'
    BY <1>1, <1>2, <1>4, <1>6, <1>7 DEF FreezeOK, Wants, cgHost
  <1> QED BY <1>1, <1>2, <1>7, <1>8, <1>9, ClientHere, ClientKeepsIInv DEF cgHost

\* The state that was asked for is reported only of a generation that is alive.
LEMMA FreezeChecksAliveKeepsIInv ==
  ASSUME CgIInv, NEW c \in CgClients, FreezeChecksAlive(c)
  PROVE  CgIInv'
  <1>1. /\ UNCHANGED <<cgV2, cgRt, cgRec, cgHost, cgSpec, cgLock, cgTold, cgExcuse>>
        /\ cgCl[c].pc = "after"
    BY DEF FreezeChecksAlive
  <1>2. PICK pc \in {"done", "failed"} : ClEnds(c, pc)
    BY DEF FreezeChecksAlive
  <1>3. cgCl \in [CgClients -> ClientStates] /\ cgLock # c
    BY <1>1, ClientHere DEF HolderOK, Updating
  <1>4. /\ cgCl' \in [CgClients -> ClientStates] /\ \A d \in CgClients \ {c} : cgCl'[d] = cgCl[d]
        /\ cgCl'[c].pc = pc /\ cgCl'[c].gen = 0
    BY <1>2, <1>3, ClEnded
  <1>5. HolderOK(c)' /\ UpdateOK(c)' /\ FreezeOK(c)'
    BY <1>1, <1>3, <1>4, IdleClientOK
  <1> QED BY <1>1, <1>3, <1>4, <1>5, ClientHere, ClientKeepsIInv DEF cgHost

\* A client that dies frees the lock; limits half written are excused from then on.
LEMMA ClCrashKeepsIInv ==
  ASSUME CgIInv, NEW c \in CgClients, ClCrash(c)
  PROVE  CgIInv'
  <1>1. /\ UNCHANGED <<cgV2, cgRt, cgRec, cgHost, cgSpec, cgTold>> /\ ClEnds(c, "failed")
        /\ cgLock' = IF cgLock = c THEN NoHolder ELSE cgLock
        /\ cgExcuse' = cgExcuse \cup (IF cgLock = c THEN {"crash"} ELSE {})
    BY DEF ClCrash
  <1>2. /\ cgCl \in [CgClients -> ClientStates] /\ c # NoHolder /\ LimitsOK
        /\ cgExcuse \subseteq {"rollback", "spec", "crash", "setup", "restart"}
    BY ClientHere DEF CgIInv
  <1>3. /\ cgCl' \in [CgClients -> ClientStates] /\ \A d \in CgClients \ {c} : cgCl'[d] = cgCl[d]
        /\ cgCl'[c].pc = "failed" /\ cgCl'[c].gen = 0
    BY <1>1, <1>2, ClEnded
  <1>4. HolderOK(c)' /\ UpdateOK(c)' /\ FreezeOK(c)'
    BY <1>1, <1>2, <1>3, IdleClientOK
  <1> QED BY <1>1, <1>2, <1>3, <1>4, ClientHere, ClientKeepsIInv DEF cgHost, LimitsOK

-----------------------------------------------------------------------------
(* The theorem                                                             *)

\* No generation, no client and no limit at first.
LEMMA CgInitGood == CgInit => CgIInv
  <1> SUFFICES ASSUME CgInit PROVE CgIInv
    OBVIOUS
  <1>1. cgRt \in RtStates /\ cgRt.pc = "admit" /\ cgRt.cfg = cgSpec /\ cgRt.live = FALSE
        /\ cgRt.gen = 0
    BY CgAssumption DEF CgInit, RtStates, RtLabels, Values
  <1>2. \A c \in CgClients : cgCl[c] = IdleClient
    BY DEF CgInit
  <1>3. cgCl \in [CgClients -> ClientStates]
    BY IdleClientTyped DEF CgInit
  <1>4. /\ IdleClient.pc = "idle" /\ IdleClient.op = "none" /\ IdleClient.gen = 0
        /\ IdleClient.i = 0 /\ IdleClient.polls = 0
    BY DEF IdleClient
  <1>5. CgTypeOK
    <2>1. 0 \in 0..MaxGen /\ 0 \in 0..MaxPolls
      BY CgAssumption
    <2> QED BY <1>1, <1>2, <1>4, <2>1 DEF CgInit, CgTypeOK, RtStates, RtLabels, Values
  <1>6. ApplyOK /\ LimitsOK /\ SpecOK
    BY <1>1 DEF CgInit, ApplyOK, LimitsOK, SpecOK
  <1>7. \A c \in CgClients : HolderOK(c) /\ UpdateOK(c) /\ FreezeOK(c)
    <2> SUFFICES ASSUME NEW c \in CgClients PROVE HolderOK(c) /\ UpdateOK(c) /\ FreezeOK(c)
      OBVIOUS
    <2>1. cgCl[c].pc = "idle" /\ cgCl[c].gen = 0 /\ cgLock # c /\ cgRt.gen = 0
      BY <1>1, <1>2, <1>4, CgAssumption DEF CgInit
    <2>2. HolderOK(c) /\ UpdateOK(c)
      BY <2>1 DEF HolderOK, UpdateOK, Updating
    <2>3. FreezeOK(c)
      BY <2>1 DEF FreezeOK
    <2> QED BY <2>2, <2>3
  <1> QED BY <1>3, <1>5, <1>6, <1>7 DEF CgIInv

\* Every step of CgNext, and a stuttering one, keeps CgIInv.
LEMMA CgNextKeepsIInv == CgIInv /\ [CgNext]_cgVars => CgIInv'
  <1> SUFFICES ASSUME CgIInv, [CgNext]_cgVars PROVE CgIInv'
    OBVIOUS
  <1>1. CASE CgRuntime
    BY <1>1, RtAdmitKeepsIInv, RtMkdirKeepsIInv, RtWriteLimitKeepsIInv, RtAttachKeepsIInv,
       RtRollbackAttachKeepsIInv, RtExitKeepsIInv, RtRemoveKeepsIInv, RtPolicyRestartKeepsIInv,
       RtCommandRestartKeepsIInv
    DEF CgRuntime
  <1>2. ASSUME NEW c \in CgClients, CgClient(c) PROVE CgIInv'
    BY <1>2, ClOpenKeepsIInv, UpdateLocksKeepsIInv, UpdateWritesKeepsIInv,
       UpdateRollsBackKeepsIInv, UpdateChecksAliveKeepsIInv, UpdateCommitsKeepsIInv,
       FreezeRequestsKeepsIInv, FreezePollsKeepsIInv, FreezeChecksAliveKeepsIInv, ClCrashKeepsIInv
    DEF CgClient
  <1>3. CASE UNCHANGED cgVars
    BY <1>3, SameHierarchy
    DEF cgVars, cgHost, CgIInv, CgTypeOK, ApplyOK, LimitsOK, SpecOK, HolderOK, UpdateOK,
        FreezeOK, Planned, Wants
  <1> QED BY <1>1, <1>2, <1>3, KernelFreezesKeepsIInv DEF CgNext

\* CgIInv holds throughout.
THEOREM CgInductive == CgroupSpec => []CgIInv
  <1> QED BY CgInitGood, CgNextKeepsIInv, PTL DEF CgroupSpec

\* A running payload is inside every hierarchy with all its limits, at the
\* values of the restart spec unless one of the excuses separated them, and
\* an acknowledged pause has taken effect: for any number of updates, pauses
\* and crashes that interleave with Apply, restart and removal.
THEOREM CgroupSafe == CgroupSpec => []CgroupDoesAsTold
  <1>1. CgIInv => CgroupDoesAsTold
    <2> SUFFICES ASSUME CgIInv PROVE CgroupDoesAsTold
      OBVIOUS
    <2>1. PayloadIsLimited
      BY DEF CgIInv, ApplyOK, LimitsOK, PayloadIsLimited
    <2>2. LimitsFollowSpec
      BY DEF CgIInv, SpecOK, LimitsFollowSpec
    <2>3. FreezeIsAcknowledged
      BY DEF CgIInv, FreezeOK, FreezeIsAcknowledged, GenAlive
    <2> QED BY <2>1, <2>2, <2>3 DEF CgIInv, CgroupDoesAsTold
  <1> QED BY <1>1, CgInductive, PTL

=============================================================================
