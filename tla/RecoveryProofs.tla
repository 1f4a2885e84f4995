---------------------------- MODULE RecoveryProofs ----------------------------
(* What clients are told, proved: the answers of wait, stop, rm and the      *)
(* restart loop about a restarting container (RestartControl), those of      *)
(* volume calls that share no lock (VolumeStore), and what the record, the   *)
(* exec helper and the log say of a container's processes                    *)
(* (ContainerProcesses).  The three components share no state.               *)
EXTENDS RestartControl, VolumeStore, ContainerProcesses, FiniteSetTheorems, TLAPS

-----------------------------------------------------------------------------
(* A restarting container: the inductive invariant                         *)

ExitCodes == RcCodes \cup {NoCode}
RecStates == [st: {"created", "running", "stopped", "deleted"}, gen: Runs, code: ExitCodes,
              rev: Nat, health: {"", "starting", "healthy", "unhealthy"}]
LoopStates == [pc: {"fork", "mark", "wait", "finalize", "decide", "done", "killed"},
               gen: Runs, retries: 0..MaxRuns, err: BOOLEAN]
WaitStates == [pc: {"idle", "open", "poll", "get", "settled", "done", "error"},
               gen: Runs, exited: BOOLEAN, res: ExitCodes, of: {"created", "running", "stopped"}]
StopStates == [pc: {"idle", "open", "term", "killing", "settle", "get", "finalize", "done",
                    "error"},
               gen: Runs, polls: 0..MaxSettle, code: ExitCodes]
HealthStates == [pc: {"idle", "get", "save"}, failures: Nat, probes: Nat, seen: RecStates]

\* RcTypeOK with the records as wholes.
RcStates ==
  /\ RcTypeOK /\ rcRec \in RecStates /\ rcHealth \in HealthStates /\ rcFaults \in Nat

\* The loop is ahead of its retries by the generation it has forked.
LoopOK ==
  /\ rcLoop.pc = "fork" => rcLoop.retries = rcLoop.gen
  /\ rcLoop.pc \in {"mark", "wait", "finalize", "decide"} =>
       rcLoop.gen # 0 /\ rcLoop.retries = rcLoop.gen - 1
  /\ rcLoop.retries =< rcLoop.gen /\ rcLoop.gen =< rcLoop.retries + 1

\* Generations before the present one have been reaped, later ones do not
\* exist, and who has not exited has no exit code.
ProcOK ==
  /\ \A g \in Runs :
       /\ g = 0 \/ g > rcLoop.gen => rcProc[g] = "none"
       /\ g # 0 /\ g < rcLoop.gen => rcProc[g] = "gone"
       /\ ~Exited(g) => rcCode[g] = NoCode
  /\ rcLoop.pc = "fork" /\ rcLoop.gen # 0 => rcProc[rcLoop.gen] = "gone"
  /\ rcLoop.pc = "mark" => rcProc[rcLoop.gen] = "alive"
  /\ rcLoop.pc = "wait" => rcProc[rcLoop.gen] \in {"alive", "killed", "zombie"}
  /\ rcLoop.pc \in {"finalize", "decide"} => rcProc[rcLoop.gen] = "gone"
  /\ rcLoop.pc = "done" => rcLoop.gen # 0 /\ rcProc[rcLoop.gen] = "gone"
  /\ rcLoop.pc = "killed" /\ rcLoop.gen # 0 =>
       rcProc[rcLoop.gen] \in {"killed", "zombie", "gone"}

\* The record names the present generation, or the one before while the child
\* waits for its record or never got one.  Its code is 0 until that generation is
\* stopped, and then that generation's or unknown.
RecOK ==
  /\ rcRec.gen =< rcLoop.gen
  /\ rcLoop.pc = "mark" => rcRec.gen < rcLoop.gen
  /\ rcLoop.pc \in {"wait", "finalize", "decide"} => rcRec.gen = rcLoop.gen
  /\ rcRec.st = "created" => rcRec.gen = 0
  /\ rcRec.st = "running" => rcRec.gen # 0 /\ rcRec.code = 0
  /\ rcRec.st = "stopped" => Exited(rcRec.gen) /\ rcRec.code \in {NoCode, rcCode[rcRec.gen]}
  /\ rcRec.st = "deleted" => rcRec.gen = 0 \/ Exited(rcRec.gen)

\* The policy of the loop up to now.
BudgetOK ==
  /\ rcPolicy.type = "no" => rcLoop.gen =< 1 /\ (rcLoop.pc = "fork" => rcLoop.gen = 0)
  /\ rcPolicy.type = "on-failure" =>
       /\ \A g \in 1..(rcLoop.gen - 1) : rcCode[g] # 0
       /\ rcLoop.pc = "fork" /\ rcLoop.gen # 0 => rcCode[rcLoop.gen] # 0
       /\ rcPolicy.max > 0 => rcLoop.retries =< rcPolicy.max

\* What a wait has seen and what it has printed.
WaitOK(w) ==
  /\ rcWait[w].pc = "get" /\ rcWait[w].exited => Exited(rcWait[w].gen)
  /\ rcWait[w].pc = "settled" => rcRec.st # "created"
  /\ rcWait[w].pc = "done" =>
       \/ rcWait[w].res \in {NoCode, rcCode[rcWait[w].gen]}
       \/ rcWait[w].of = "running" /\ rcWait[w].res = 0

\* What a stop request has seen.  The code it is going to finalize with may be
\* that of a later generation, and is then of no effect.
StopOK(s) ==
  /\ rcStop[s].gen =< rcRec.gen
  /\ rcStop[s].pc \in {"open", "term", "killing"} => rcStop[s].gen # 0
  /\ rcStop[s].pc \in {"settle", "get", "finalize"} => Exited(rcStop[s].gen)
  /\ rcStop[s].pc = "finalize" /\ rcRec.gen = rcStop[s].gen =>
       rcStop[s].code \in {NoCode, rcCode[rcStop[s].gen]}
  /\ rcStop[s].pc = "done" /\ rcStop[s].gen # 0 =>
       Exited(rcStop[s].gen) /\ ~Running(rcStop[s].gen)

\* A snapshot of the present revision is the record, unless that was deleted.
SeenOK ==
  rcHealth.pc = "save" =>
    /\ rcHealth.seen.rev =< rcRec.rev /\ rcHealth.seen.st # "deleted"
    /\ rcHealth.seen.rev = rcRec.rev /\ rcRec.st # "deleted" => rcHealth.seen = rcRec

RcIInv ==
  /\ RcStates /\ LoopOK /\ ProcOK /\ RecOK /\ BudgetOK /\ SeenOK
  /\ \A w \in WaitCmds : WaitOK(w)
  /\ \A s \in StopReqs : StopOK(s)

-----------------------------------------------------------------------------
(* Volumes: the inductive invariant                                        *)

CreateLabels == {"open", "chain", "data", "publishCheck", "temp", "rename", "finalCheck"}
RemoveLabels == {"pin", "validate", "list", "child", "unlink"}

\* Removals that can free the name, or delete the data, no more.
Over == {r \in Removers : vsCl[r].pc = "done"}
Spent == {r \in Removers : \/ vsCl[r].pc \in {"done", "failed"}
                           \/ vsCl[r].pc \in {"child", "unlink"} /\ "data" \notin vsCl[r].list}
HasData == vsName # 0 /\ vsIno[vsName].data # 0
\* A removal that has begun to delete, or has failed after it had.
Clearing == \E r \in Removers : vsCl[r].pc \in {"child", "unlink", "failed"}

CallStates == [pc: Resting \cup {"mkdir", "open", "chain", "data", "publishCheck", "temp",
                     "rename", "finalCheck", "pin", "validate", "list", "child", "recheck",
                     "unlink"},
               fd: {0} \cup VsInodes, data: {0} \cup VsInodes,
               list: SUBSET ({"meta", "data"} \cup Creators)]
DirStates == [meta: BOOLEAN, data: {0} \cup VsInodes, tmp: SUBSET Creators]

\* A directory that has no name is empty, and no call can fill it.
UnlinkedIsEmpty == \A i \in VsInodes : i # vsName => IsEmpty(i)

\* Inodes are counted by the removals that made them necessary.
InodesCounted ==
  /\ vsName =< vsNext
  /\ vsNext =< Cardinality(Over) + (IF vsName = 0 THEN 0 ELSE 1)
  /\ vsData =< Cardinality(Spent) + (IF HasData THEN 1 ELSE 0)

\* What a call has pinned.  The metadata that a creation has published is gone
\* only where a removal is under way or has failed.
CallOK(c) ==
  /\ c \in Creators => vsCl[c].pc \in {"idle"} \cup CreateLabels
  /\ c \in Removers => vsCl[c].pc \in Resting \cup RemoveLabels
  /\ vsCl[c].fd =< vsNext
  /\ vsCl[c].pc \notin Resting \cup {"open", "pin"} => vsCl[c].fd # 0
  /\ vsCl[c].pc \in {"publishCheck", "temp", "rename", "finalCheck"} => vsCl[c].data # 0
  /\ vsCl[c].pc = "finalCheck" /\ vsName = vsCl[c].fd =>
       vsIno[vsName].meta \/ Clearing

VsIInv ==
  /\ VsTypeOK /\ UnlinkedIsEmpty /\ InodesCounted /\ LastSuccessIsTrue
  /\ \A c \in VsClients : CallOK(c)

-----------------------------------------------------------------------------
(* A restarting container: what every step leaves to the others            *)

\* What other actors rely on: who has exited has exited for good, and with its
\* code; the record goes forward, and its changes show in the revision.
Advances ==
  /\ \A g \in Runs : Exited(g) => Exited(g)' /\ rcCode'[g] = rcCode[g]
  /\ rcRec.gen =< rcRec'.gen
  /\ rcRec'.st = "running" => rcRec' = rcRec \/ rcRec.gen < rcRec'.gen
                              \/ (rcRec.st = "running" /\ rcRec'.gen = rcRec.gen)
  /\ rcRec.rev =< rcRec'.rev
  /\ rcRec.rev = rcRec'.rev => rcRec' = rcRec \/ rcRec'.st = "deleted"
  /\ rcRec.st = "deleted" => rcRec'.st = "deleted"
  /\ rcRec'.st = "created" => rcRec.st = "created"

\* What is proved of every step.
RcGoodStep == RcIInv' /\ Advances

\* The types the invariant gives, one by one.
LEMMA RcHere ==
  ASSUME RcIInv
  PROVE  /\ rcScene \in RcScenes /\ rcRec \in RecStates /\ rcLoop \in LoopStates
         /\ rcProc \in [Runs -> {"none", "alive", "killed", "zombie", "gone"}]
         /\ rcCode \in [Runs -> ExitCodes]
         /\ rcWait \in [WaitCmds -> WaitStates] /\ rcStop \in [StopReqs -> StopStates]
         /\ rcDel \in [DeleteCmds -> {"idle", "delete", "done", "error"}]
         /\ rcHealth \in HealthStates /\ rcFaults \in Nat
  BY DEF RcIInv, RcStates, RcTypeOK, LoopStates, WaitStates, StopStates, ExitCodes

\* The generations are numbers up to MaxRuns.
LEMMA RunsAreNumbers ==
  /\ Runs \subseteq Nat /\ 0 \in Runs
  /\ \A g \in Nat : g =< MaxRuns <=> g \in Runs
  BY RestartAssumption DEF Runs

\* A wait that takes no part in a step still knows what it knew.
LEMMA WaitKept ==
  ASSUME RcIInv, Advances, NEW w \in WaitCmds, rcWait'[w] = rcWait[w]
  PROVE  WaitOK(w)'
  <1>1. rcWait[w] \in WaitStates /\ rcWait[w].gen \in Runs /\ WaitOK(w) /\ ProcOK
    BY RcHere DEF RcIInv, WaitStates
  <1>2. PICK g \in Runs : g = rcWait[w].gen
    BY <1>1
  <1>3. rcCode[g] # NoCode => Exited(g)
    BY <1>1 DEF ProcOK
  <1>4. rcWait'[w].pc = "get" /\ rcWait'[w].exited => Exited(g)'
    BY <1>1, <1>2 DEF WaitOK, Advances
  <1>5. rcWait'[w].pc = "done" => \/ rcWait'[w].res \in {NoCode, rcCode'[g]}
                                  \/ rcWait'[w].of = "running" /\ rcWait'[w].res = 0
    BY <1>1, <1>2, <1>3 DEF WaitOK, Advances
  <1>6. rcWait'[w].pc = "settled" => rcRec'.st # "created"
    BY <1>1 DEF WaitOK, Advances
  <1>7. rcWait'[w].gen = g
    BY <1>2
  <1>8. rcWait'[w].pc = "get" /\ rcWait'[w].exited => Exited(rcWait[w].gen)'
    BY <1>4, <1>7 DEF Exited
  <1>9. rcWait'[w].pc = "done" => \/ rcWait'[w].res \in {NoCode, rcCode'[rcWait'[w].gen]}
                                  \/ rcWait'[w].of = "running" /\ rcWait'[w].res = 0
    BY <1>5, <1>7
  <1> QED BY <1>6, <1>8, <1>9 DEF WaitOK, Exited

\* And a stop request: its generation cannot become the running one again.
LEMMA StopKept ==
  ASSUME RcIInv, Advances, rcRec' \in RecStates, NEW s \in StopReqs, rcStop'[s] = rcStop[s]
  PROVE  StopOK(s)'
  <1>1. rcStop[s] \in StopStates /\ rcStop[s].gen \in Runs /\ StopOK(s)
    BY RcHere DEF RcIInv, StopStates
  <1>2. PICK g \in Runs : g = rcStop[s].gen
    BY <1>1
  <1>3. g \in Nat /\ rcRec.gen \in Nat /\ rcRec'.gen \in Nat /\ g =< rcRec.gen
        /\ rcRec.gen =< rcRec'.gen
    BY <1>1, <1>2, RcHere, RunsAreNumbers DEF RecStates, StopOK, Advances
  <1>4. Running(g)' => Running(g)
    BY <1>3 DEF Running, Advances
  <1>5. rcRec'.gen = g => rcRec.gen = g
    BY <1>3
  <1>6. Exited(g) => Exited(g)' /\ rcCode'[g] = rcCode[g]
    BY DEF Advances
  <1>7. rcStop[s].pc = "finalize" => Exited(g)
    BY <1>1, <1>2 DEF StopOK
  <1>8. rcStop'[s].gen = g /\ rcStop'[s].gen =< rcRec'.gen
    BY <1>2, <1>3
  <1> QED BY <1>1, <1>2, <1>4, <1>5, <1>6, <1>7, <1>8 DEF StopOK, Exited, Running

\* And the snapshot of the health supervisor.
LEMMA SeenKept ==
  ASSUME RcIInv, Advances, rcRec' \in RecStates, UNCHANGED rcHealth
  PROVE  SeenOK'
  <1>1. /\ rcRec.rev \in Nat /\ rcRec'.rev \in Nat /\ rcHealth.seen.rev \in Nat /\ SeenOK
    BY RcHere DEF RcIInv, RecStates, HealthStates
  <1> QED BY <1>1 DEF SeenOK, Advances

\* A step keeps the invariant if its own actors know what they have to, and the
\* others can rely on it.
LEMMA RcKeepsIInv ==
  ASSUME RcIInv, Advances, RcStates', LoopOK', ProcOK', RecOK', BudgetOK', SeenOK',
         \A w \in WaitCmds : rcWait'[w] = rcWait[w] \/ WaitOK(w)',
         \A s \in StopReqs : rcStop'[s] = rcStop[s] \/ StopOK(s)'
  PROVE  RcGoodStep
  <1>1. rcRec' \in RecStates
    BY DEF RcStates
  <1>2. \A w \in WaitCmds : WaitOK(w)'
    BY WaitKept
  <1>3. \A s \in StopReqs : StopOK(s)'
    BY <1>1, StopKept
  <1> QED BY <1>2, <1>3 DEF RcIInv, RcGoodStep

\* RcStates from the types, one by one.
LEMMA RcTyped ==
  ASSUME RcIInv, UNCHANGED rcScene, rcRec' \in RecStates, rcLoop' \in LoopStates,
         rcProc' \in [Runs -> {"none", "alive", "killed", "zombie", "gone"}],
         rcCode' \in [Runs -> ExitCodes], rcWait' \in [WaitCmds -> WaitStates],
         rcStop' \in [StopReqs -> StopStates],
         rcDel' \in [DeleteCmds -> {"idle", "delete", "done", "error"}],
         rcHealth' \in HealthStates, rcHealth'.failures =< rcHealth'.probes,
         rcFaults' = rcFaults \/ RcFault
  PROVE  RcStates'
  <1>1. rcScene \in RcScenes /\ rcFaults \in Nat
    BY RcHere
  <1>2. rcFaults' \in Nat
    BY <1>1 DEF RcFault
  <1>3. rcHealth'.failures \in 0..rcHealth'.probes
    BY DEF HealthStates
  <1> QED BY <1>1, <1>2, <1>3
          DEF RcStates, RcTypeOK, RecStates, LoopStates, WaitStates, StopStates, HealthStates,
              ExitCodes

\* The supervisor counts no more failures than probes.
LEMMA HealthHere ==
  ASSUME RcIInv
  PROVE  /\ rcHealth.failures \in Nat /\ rcHealth.probes \in Nat
         /\ rcHealth.failures =< rcHealth.probes
  <1>1. rcHealth.failures \in Nat /\ rcHealth.probes \in Nat
    BY RcHere DEF HealthStates
  <1>2. rcHealth.failures \in 0..rcHealth.probes
    BY DEF RcIInv, RcStates, RcTypeOK
  <1> QED BY <1>1, <1>2

-----------------------------------------------------------------------------
(* Clients that publish a stop                                             *)

\* FinalizeStoppedGeneration with an exited generation and, if that is the
\* record's, with no code but its own.
Publishes ==
  \/ UNCHANGED rcRec
  \/ \E g \in Runs, code \in ExitCodes :
       /\ Exited(g) /\ (rcRec.gen = g => code \in {NoCode, rcCode[g]})
       /\ rcRec' = Finalized(g, code)

\* Whatever such a client finds, the record says what is so afterwards.
LEMMA PublishedGood ==
  ASSUME RcIInv, Publishes, UNCHANGED <<rcScene, rcProc, rcCode, rcLoop>>
  PROVE  /\ rcRec' \in RecStates /\ Advances /\ LoopOK' /\ ProcOK' /\ BudgetOK' /\ RecOK'
         /\ rcRec'.gen = rcRec.gen /\ (rcRec'.st = "running" => rcRec' = rcRec)
  <1>1. /\ rcRec \in RecStates /\ rcRec.gen \in Runs /\ rcRec.gen \in Nat /\ rcRec.rev \in Nat
        /\ LoopOK /\ ProcOK /\ BudgetOK /\ RecOK
    BY RcHere, RunsAreNumbers DEF RcIInv, RecStates
  <1>2. LoopOK' /\ ProcOK' /\ BudgetOK'
    BY <1>1 DEF LoopOK, ProcOK, BudgetOK, Exited, rcPolicy
  <1>3. \A h \in Runs : Exited(h)' = Exited(h)
    BY DEF Exited
  <1>4. CASE UNCHANGED rcRec
    <2>1. Advances
      BY <1>1, <1>3, <1>4 DEF Advances
    <2>2. RecOK'
      BY <1>1, <1>3, <1>4 DEF RecOK
    <2> QED BY <1>1, <1>2, <1>4, <2>1, <2>2
  <1>5. ASSUME NEW g \in Runs, NEW code \in ExitCodes, Exited(g), rcRec' = Finalized(g, code),
               rcRec.gen = g => code \in {NoCode, rcCode[g]}, rcRec' # rcRec
        PROVE  /\ rcRec' \in RecStates /\ Advances /\ RecOK'
               /\ rcRec'.gen = rcRec.gen /\ (rcRec'.st = "running" => rcRec' = rcRec)
    <2>1. /\ rcRec.gen = g /\ rcRec.st \in {"running", "stopped"}
          /\ rcRec' = [rcRec EXCEPT !.st = "stopped", !.code = code, !.rev = @ + 1]
      BY <1>1, <1>5 DEF Finalized, Running, RecStates
    <2>2. rcRec' \in RecStates
      <3>1. PICK rev \in Nat : rev = rcRec.rev + 1
        BY <1>1
      <3>2. rcRec' = [rcRec EXCEPT !.st = "stopped", !.code = code, !.rev = rev]
        BY <2>1, <3>1
      <3> QED BY <1>1, <3>2 DEF RecStates
    <2>3. rcRec'.st = "stopped" /\ rcRec'.gen = g /\ rcRec'.code = code
          /\ rcRec'.rev = rcRec.rev + 1
      BY <1>1, <2>1 DEF RecStates
    <2>4. Advances
      BY <1>1, <1>3, <2>1, <2>3 DEF Advances
    <2>5. RecOK'
      BY <1>1, <1>3, <1>5, <2>1, <2>3 DEF RecOK
    <2> QED BY <2>1, <2>2, <2>3, <2>4, <2>5
  <1> QED BY <1>2, <1>4, <1>5 DEF Publishes

\* A client that reconciles publishes nothing but deaths.
LEMMA ReconciledPublishes ==
  ASSUME RcIInv, rcRec' = Reconciled
  PROVE  Publishes /\ (rcRec'.st = "running" => rcRec' = rcRec)
  <1>1. NoCode \in ExitCodes /\ rcRec.gen \in Runs
    BY RcHere DEF RecStates, ExitCodes
  <1>2. CASE rcRec.st = "running" /\ Exited(rcRec.gen)
    <2>1. Publishes
      BY <1>1, <1>2 DEF Publishes, Reconciled
    <2>2. rcRec'.st = "stopped"
      BY <1>2, RcHere DEF Reconciled, Finalized, Running, RecStates
    <2> QED BY <2>1, <2>2
  <1>3. CASE ~(rcRec.st = "running" /\ Exited(rcRec.gen))
    BY <1>3 DEF Publishes, Reconciled
  <1> QED BY <1>2, <1>3

\* A step of one wait.
LEMMA WaitKeepsIInv ==
  ASSUME RcIInv, Publishes, UNCHANGED rcOthersW, NEW w \in WaitCmds, NEW r \in WaitStates,
         rcWait' = [rcWait EXCEPT ![w] = r],
         r.pc = "get" /\ r.exited => Exited(r.gen),
         r.pc = "settled" => rcRec.st # "created",
         r.pc = "done" => r.res \in {NoCode, rcCode[r.gen]} \/ (r.of = "running" /\ r.res = 0)
  PROVE  RcGoodStep
  <1>1. UNCHANGED <<rcScene, rcProc, rcCode, rcLoop, rcStop, rcDel, rcHealth, rcFaults>>
    BY DEF rcOthersW
  <1>2. rcWait' \in [WaitCmds -> WaitStates] /\ rcWait'[w] = r
        /\ \A v \in WaitCmds \ {w} : rcWait'[v] = rcWait[v]
    BY RcHere
  <1>3. /\ rcRec' \in RecStates /\ Advances /\ LoopOK' /\ ProcOK' /\ BudgetOK' /\ RecOK'
    BY <1>1, PublishedGood
  <1>4. RcStates'
    BY <1>1, <1>2, <1>3, RcHere, HealthHere, RcTyped
  <1>5. SeenOK'
    BY <1>1, <1>3, SeenKept
  <1>6. WaitOK(w)'
    <2>1. r.pc = "settled" => rcRec'.st # "created"
      BY <1>3 DEF Advances
    <2>2. r.pc = "get" /\ r.exited => Exited(r.gen)'
      BY <1>1 DEF Exited
    <2>3. Exited(rcWait[w].gen)' = Exited(r.gen)'
      BY <1>2 DEF Exited
    <2>4. rcWait'[w].pc = "get" /\ rcWait'[w].exited => Exited(rcWait[w].gen)'
      BY <1>2, <2>2, <2>3
    <2>5. rcWait'[w].pc = "done" => \/ rcWait'[w].res \in {NoCode, rcCode'[rcWait'[w].gen]}
                                    \/ rcWait'[w].of = "running" /\ rcWait'[w].res = 0
      BY <1>1, <1>2
    <2>6. rcWait'[w].pc = "settled" => rcRec'.st # "created"
      BY <1>2, <2>1
    <2> QED BY <2>4, <2>5, <2>6 DEF WaitOK, Exited
  <1> QED BY <1>1, <1>2, <1>3, <1>4, <1>5, <1>6, RcKeepsIInv

\* A step of one stop request.
LEMMA StopKeepsIInv ==
  ASSUME RcIInv, Publishes, UNCHANGED rcOthersS, UNCHANGED rcProc, NEW s \in StopReqs,
         NEW r \in StopStates, rcStop' = [rcStop EXCEPT ![s] = r], r.gen =< rcRec.gen,
         r.pc \in {"open", "term", "killing"} => r.gen # 0,
         r.pc \in {"settle", "get", "finalize"} => Exited(r.gen),
         r.pc = "finalize" /\ rcRec.gen = r.gen => r.code \in {NoCode, rcCode[r.gen]},
         r.pc = "done" /\ r.gen # 0 =>
           Exited(r.gen) /\ ~(rcRec'.st = "running" /\ rcRec'.gen = r.gen)
  PROVE  RcGoodStep
  <1>1. UNCHANGED <<rcScene, rcProc, rcCode, rcLoop, rcWait, rcDel, rcHealth, rcFaults>>
    BY DEF rcOthersS
  <1>2. rcStop' \in [StopReqs -> StopStates] /\ rcStop'[s] = r
        /\ \A v \in StopReqs \ {s} : rcStop'[v] = rcStop[v]
    BY RcHere
  <1>3. /\ rcRec' \in RecStates /\ Advances /\ LoopOK' /\ ProcOK' /\ BudgetOK' /\ RecOK'
        /\ rcRec'.gen = rcRec.gen
    BY <1>1, PublishedGood
  <1>4. RcStates'
    BY <1>1, <1>2, <1>3, RcHere, HealthHere, RcTyped
  <1>5. SeenOK'
    BY <1>1, <1>3, SeenKept
  <1>6. StopOK(s)'
    BY <1>1, <1>2, <1>3 DEF StopOK, Exited, Running
  <1> QED BY <1>1, <1>2, <1>3, <1>4, <1>5, <1>6, RcKeepsIInv

-----------------------------------------------------------------------------
(* wait                                                                    *)

\* The kind of a wait command's locals, and of what it reads.
LEMMA WaitHere ==
  ASSUME RcIInv, NEW w \in WaitCmds
  PROVE  /\ rcWait[w] \in WaitStates /\ rcWait[w].gen \in Runs /\ rcWait[w].exited \in BOOLEAN
         /\ rcWait[w].res \in ExitCodes /\ rcRec.gen \in Runs /\ rcRec.code \in ExitCodes
         /\ NoCode \in ExitCodes /\ WaitOK(w) /\ rcWait \in [WaitCmds -> WaitStates]
         /\ rcRec.st = "stopped" => rcRec.code \in {NoCode, rcCode[rcRec.gen]}
         /\ rcRec.st = "running" => rcRec.code = 0
  BY RcHere DEF RcIInv, WaitStates, RecStates, ExitCodes, RecOK

\* A wait that goes to a label where nothing has to be known.
LEMMA WaitGoesKeepsIInv ==
  ASSUME RcIInv, Publishes, UNCHANGED rcOthersW, NEW w \in WaitCmds,
         NEW l \in {"idle", "open", "poll", "settled", "error"}, WGoes(w, l),
         l = "settled" => rcRec.st # "created"
  PROVE  RcGoodStep
  <1>1. rcWait[w] \in WaitStates /\ rcWait \in [WaitCmds -> WaitStates]
    BY WaitHere
  <1> DEFINE r == [rcWait[w] EXCEPT !.pc = l]
  <1>2. r \in WaitStates
    BY <1>1 DEF WaitStates
  <1>3. r.pc = l /\ rcWait' = [rcWait EXCEPT ![w] = r]
    BY <1>1 DEF WGoes, WaitStates
  <1> HIDE DEF r
  <1> QED BY <1>2, <1>3, WaitKeepsIInv

\* WaitContainer reads the record: a stopped one is the answer.
LEMMA WaitResolveKeepsIInv ==
  ASSUME RcIInv, NEW w \in WaitCmds, WaitResolve(w)
  PROVE  RcGoodStep
  <1>1. Publishes /\ UNCHANGED rcOthersW
    BY DEF WaitResolve, Publishes
  <1>2. CASE rcRec.st = "stopped"
    <2>1. rcWait' = [rcWait EXCEPT ![w].pc = "done", ![w].res = rcRec.code, ![w].gen = rcRec.gen]
      BY <1>2 DEF WaitResolve
    <2> DEFINE r == [rcWait[w] EXCEPT !.pc = "done", !.res = rcRec.code, !.gen = rcRec.gen]
    <2>2. r \in WaitStates
      BY WaitHere DEF WaitStates
    <2>3. /\ r.pc = "done" /\ r.res = rcRec.code /\ r.gen = rcRec.gen
          /\ rcWait' = [rcWait EXCEPT ![w] = r]
      BY <2>1, WaitHere DEF WaitStates
    <2> HIDE DEF r
    <2> QED BY <1>1, <1>2, <2>2, <2>3, WaitHere, WaitKeepsIInv
  <1>3. CASE rcRec.st = "running"
    <2>1. rcWait' = [rcWait EXCEPT ![w].pc = "open", ![w].gen = rcRec.gen, ![w].exited = FALSE]
      BY <1>3 DEF WaitResolve
    <2> DEFINE r == [rcWait[w] EXCEPT !.pc = "open", !.gen = rcRec.gen, !.exited = FALSE]
    <2>2. r \in WaitStates
      BY WaitHere DEF WaitStates
    <2>3. r.pc = "open" /\ rcWait' = [rcWait EXCEPT ![w] = r]
      BY <2>1, WaitHere DEF WaitStates
    <2> HIDE DEF r
    <2> QED BY <1>1, <2>2, <2>3, WaitKeepsIInv
  <1>4. CASE rcRec.st \notin {"stopped", "running"}
    BY <1>1, <1>4, WaitGoesKeepsIInv DEF WaitResolve
  <1> QED BY <1>2, <1>3, <1>4

\* A wait whose process is gone finalizes it with an unknown code, or finds that
\* another has.
LEMMA WaitGoneKeepsIInv ==
  ASSUME RcIInv, NEW w \in WaitCmds, Exited(rcWait[w].gen), WaitGone(w), UNCHANGED rcOthersW
  PROVE  RcGoodStep
  <1>1. Publishes
    BY WaitHere DEF WaitGone, Publishes
  <1>2. CASE WGoes(w, "idle")
    BY <1>1, <1>2, WaitGoesKeepsIInv
  <1>3. CASE WReturns(w, NoCode)
    <2> DEFINE r == [rcWait[w] EXCEPT !.pc = "done", !.res = NoCode]
    <2>1. r \in WaitStates
      BY WaitHere DEF WaitStates
    <2>2. r.pc = "done" /\ r.res = NoCode /\ rcWait' = [rcWait EXCEPT ![w] = r]
      BY <1>3, WaitHere DEF WReturns, WaitStates
    <2> HIDE DEF r
    <2> QED BY <1>1, <2>1, <2>2, WaitKeepsIInv
  <1> QED BY <1>2, <1>3 DEF WaitGone

\* OpenProcessHandle: a process that is gone, or a handle on it.
LEMMA WaitOpenKeepsIInv ==
  ASSUME RcIInv, NEW w \in WaitCmds, WaitOpen(w)
  PROVE  RcGoodStep
  <1>1. CASE rcProc[rcWait[w].gen] = "gone"
    BY <1>1, WaitGoneKeepsIInv DEF WaitOpen, Exited
  <1>2. CASE rcProc[rcWait[w].gen] # "gone"
    BY <1>2, WaitGoesKeepsIInv DEF WaitOpen, Publishes
  <1> QED BY <1>1, <1>2

\* WaitExit: the pidfd says whether the process has exited.
LEMMA WaitPollKeepsIInv ==
  ASSUME RcIInv, NEW w \in WaitCmds, WaitPoll(w)
  PROVE  RcGoodStep
  <1> DEFINE e == Exited(rcWait[w].gen)
             r == [rcWait[w] EXCEPT !.pc = "get", !.exited = e]
  <1>1. e \in BOOLEAN
    BY DEF Exited
  <1>2. rcWait' = [rcWait EXCEPT ![w] = r] /\ Publishes /\ UNCHANGED rcOthersW
    BY WaitHere DEF WaitPoll, Publishes
  <1>3. r.exited => Exited(rcWait[w].gen)
    BY WaitHere DEF WaitStates
  <1> HIDE DEF e
  <1>4. r \in WaitStates
    BY <1>1, WaitHere DEF WaitStates
  <1>5. r.pc = "get" /\ r.gen = rcWait[w].gen
    BY WaitHere DEF WaitStates
  <1> HIDE DEF r
  <1> QED BY <1>2, <1>3, <1>4, <1>5, WaitKeepsIInv

\* The record decides: stopped, still running, or an exit to be published.
LEMMA WaitGetKeepsIInv ==
  ASSUME RcIInv, NEW w \in WaitCmds, WaitGet(w)
  PROVE  RcGoodStep
  <1>1. /\ UNCHANGED rcOthersW /\ rcWait[w].pc = "get"
        /\ rcWait[w].exited => Exited(rcWait[w].gen)
    BY WaitHere DEF WaitGet, WaitOK
  <1>2. CASE rcRec.st = "deleted"
    BY <1>1, <1>2, WaitGoesKeepsIInv DEF WaitGet, Publishes, Running
  <1>3. CASE rcRec.st = "stopped"
    <2>1. WGoes(w, "settled")
      BY <1>3 DEF WaitGet, Running
    <2>2. UNCHANGED rcRec
      <3>1. rcRec' = Finalized(rcWait[w].gen, rcRec.code) \/ rcRec' = rcRec
        BY <1>3 DEF WaitGet, Running
      <3> QED BY <1>3, <3>1 DEF Finalized, Running
    <2> QED BY <1>1, <1>3, <2>1, <2>2, WaitGoesKeepsIInv DEF Publishes
  <1>4. CASE Running(rcWait[w].gen) /\ ~rcWait[w].exited
    <2>1. WGoes(w, "poll") /\ UNCHANGED rcRec
      BY <1>4 DEF WaitGet, Running
    <2> QED BY <1>1, <2>1, WaitGoesKeepsIInv DEF Publishes
  <1>5. CASE Running(rcWait[w].gen) /\ rcWait[w].exited
    <2>1. WaitGone(w)
      BY <1>5 DEF WaitGet, Running
    <2> QED BY <1>1, <1>5, <2>1, WaitGoneKeepsIInv
  <1>6. CASE rcRec.st \notin {"stopped", "deleted"} /\ ~Running(rcWait[w].gen)
    <2>1. WGoes(w, "idle") /\ UNCHANGED rcRec
      BY <1>6 DEF WaitGet
    <2> QED BY <1>1, <2>1, WaitGoesKeepsIInv DEF Publishes
  <1> QED BY <1>2, <1>3, <1>4, <1>5, <1>6, WaitHere

\* The record is read again, and whatever generation it names is the answer's,
\* with 0 if that one runs.
LEMMA WaitReloadKeepsIInv ==
  ASSUME RcIInv, NEW w \in WaitCmds, WaitReload(w)
  PROVE  RcGoodStep
  <1>1. Publishes /\ UNCHANGED rcOthersW
    BY DEF WaitReload, Publishes
  <1>2. CASE rcRec.st = "deleted"
    BY <1>1, <1>2, WaitGoesKeepsIInv DEF WaitReload
  <1>3. CASE rcRec.st # "deleted"
    <2>1. PICK b \in {"created", "running", "stopped"} : b = rcRec.st
      BY <1>3, RcHere DEF RecStates
    <2>2. rcWait' = [rcWait EXCEPT ![w].pc = "done", ![w].res = rcRec.code, ![w].gen = rcRec.gen,
                                   ![w].of = b]
      BY <1>3, <2>1 DEF WaitReload
    <2> DEFINE r == [rcWait[w] EXCEPT !.pc = "done", !.res = rcRec.code, !.gen = rcRec.gen,
                                      !.of = b]
    <2>3. r \in WaitStates
      BY WaitHere DEF WaitStates
    <2>4. /\ r.pc = "done" /\ r.res = rcRec.code /\ r.gen = rcRec.gen /\ r.of = b
          /\ rcWait' = [rcWait EXCEPT ![w] = r]
      BY <2>2, WaitHere DEF WaitStates
    <2> HIDE DEF r
    <2>5. rcRec.st \in {"running", "stopped"}
      BY <1>3, WaitHere, RcHere DEF WaitReload, WaitOK, RecStates
    <2>6. r.res \in {NoCode, rcCode[r.gen]} \/ (r.of = "running" /\ r.res = 0)
      BY <2>1, <2>4, <2>5, WaitHere
    <2> QED BY <1>1, <2>3, <2>4, <2>6, WaitKeepsIInv
  <1> QED BY <1>2, <1>3

-----------------------------------------------------------------------------
(* stop                                                                    *)

\* The kind of a stop request's locals, and of what it reads.
LEMMA StopHere ==
  ASSUME RcIInv, NEW s \in StopReqs
  PROVE  /\ rcStop[s] \in StopStates /\ rcStop[s].gen \in Runs /\ rcStop[s].gen \in Nat
         /\ rcStop[s].code \in ExitCodes /\ rcStop[s].polls \in 0..MaxSettle
         /\ rcRec.gen \in Runs /\ rcRec.gen \in Nat /\ rcRec.code \in ExitCodes
         /\ NoCode \in ExitCodes /\ StopOK(s) /\ rcStop \in [StopReqs -> StopStates]
         /\ rcRec.st = "stopped" => rcRec.code \in {NoCode, rcCode[rcRec.gen]}
         /\ RecOK /\ rcRec \in RecStates
  BY RcHere, RunsAreNumbers DEF RcIInv, StopStates, RecStates, ExitCodes, RecOK

\* A stop request that goes on with the generation it has.
LEMMA StopGoesKeepsIInv ==
  ASSUME RcIInv, Publishes, UNCHANGED rcOthersS, UNCHANGED rcProc, NEW s \in StopReqs,
         NEW l \in {"open", "term", "killing", "settle", "get", "done", "error"}, SGoes(s, l),
         l \in {"open", "term", "killing"} => rcStop[s].gen # 0,
         l \in {"settle", "get"} => Exited(rcStop[s].gen),
         l = "done" /\ rcStop[s].gen # 0 =>
           Exited(rcStop[s].gen) /\ ~(rcRec'.st = "running" /\ rcRec'.gen = rcStop[s].gen)
  PROVE  RcGoodStep
  <1> DEFINE r == [rcStop[s] EXCEPT !.pc = l]
  <1>1. r \in StopStates
    BY StopHere DEF StopStates
  <1>2. r.pc = l /\ r.gen = rcStop[s].gen /\ rcStop' = [rcStop EXCEPT ![s] = r]
    BY StopHere DEF SGoes, StopStates
  <1>3. r.gen =< rcRec.gen
    BY <1>2, StopHere DEF StopOK
  <1> HIDE DEF r
  <1> QED BY <1>1, <1>2, <1>3, StopKeepsIInv

\* handleStopContainer reconciles and takes the generation it finds.
LEMMA StopResolveKeepsIInv ==
  ASSUME RcIInv, NEW s \in StopReqs, StopResolve(s)
  PROVE  RcGoodStep
  <1>1. /\ rcRec' = Reconciled /\ UNCHANGED rcOthersS /\ UNCHANGED rcProc
        /\ rcStop' = [rcStop EXCEPT ![s].gen = rcRec'.gen,
             ![s].pc = CASE rcRec'.st = "deleted" -> "error"
                         [] rcRec'.st = "running" -> "open" [] OTHER -> "done"]
    BY DEF StopResolve
  <1>2. Publishes
    BY <1>1, ReconciledPublishes
  <1>3. UNCHANGED <<rcScene, rcProc, rcCode, rcLoop, rcDel>>
    BY <1>1 DEF rcOthersS
  <1>4. /\ rcRec'.gen = rcRec.gen /\ rcRec' \in RecStates /\ RecOK'
    BY <1>2, <1>3, PublishedGood
  <1>5. PICK l \in {"error", "open", "done"} :
          /\ l = CASE rcRec'.st = "deleted" -> "error"
                   [] rcRec'.st = "running" -> "open" [] OTHER -> "done"
          /\ l = "open" => rcRec'.st = "running"
          /\ l = "done" => rcRec'.st \in {"created", "stopped"}
    BY <1>4 DEF RecStates
  <1> DEFINE r == [rcStop[s] EXCEPT !.gen = rcRec.gen, !.pc = l]
  <1>6. r \in StopStates
    BY StopHere DEF StopStates
  <1>7. r.pc = l /\ r.gen = rcRec.gen /\ rcStop' = [rcStop EXCEPT ![s] = r]
    BY <1>1, <1>4, <1>5, StopHere DEF StopStates
  <1>8. r.gen =< rcRec.gen
    BY <1>7, StopHere
  <1>9. l = "open" => rcRec.gen # 0
    BY <1>4, <1>5 DEF RecOK
  <1>10. l = "done" /\ rcRec.gen # 0 =>
           Exited(rcRec.gen) /\ ~(rcRec'.st = "running" /\ rcRec'.gen = rcRec.gen)
    BY <1>3, <1>4, <1>5 DEF RecOK, Exited
  <1> HIDE DEF r
  <1> QED BY <1>1, <1>2, <1>5, <1>6, <1>7, <1>8, <1>9, <1>10, StopKeepsIInv, ZenonT(60)

\* OpenProcessHandle, or another reconciliation where the process has gone.
LEMMA StopOpenKeepsIInv ==
  ASSUME RcIInv, NEW s \in StopReqs, StopOpenHandle(s)
  PROVE  RcGoodStep
  <1>1. UNCHANGED rcOthersS /\ UNCHANGED rcProc /\ rcStop[s].gen # 0
    BY StopHere DEF StopOpenHandle, StopOK
  <1>2. CASE rcProc[rcStop[s].gen] # "gone"
    BY <1>1, <1>2, StopGoesKeepsIInv DEF StopOpenHandle, Publishes
  <1>3. CASE rcProc[rcStop[s].gen] = "gone"
    <2>1. /\ rcRec' = Reconciled
          /\ SGoes(s, IF rcRec'.st \in {"running", "deleted"} THEN "error" ELSE "done")
      BY <1>3 DEF StopOpenHandle
    <2>2. Publishes
      BY <2>1, ReconciledPublishes
    <2>3. CASE rcRec'.st \in {"running", "deleted"}
      BY <1>1, <2>1, <2>2, <2>3, StopGoesKeepsIInv
    <2>4. CASE rcRec'.st \notin {"running", "deleted"}
      BY <1>1, <1>3, <2>1, <2>2, <2>4, StopGoesKeepsIInv DEF Exited, Running
    <2> QED BY <2>3, <2>4
  <1> QED BY <1>2, <1>3

\* SIGKILL only ever hits the generation the record runs: whoever is older has
\* been reaped, and a child that waits for its record is not known to a client.
LEMMA StopTermKeepsIInv ==
  ASSUME RcIInv, NEW s \in StopReqs, StopTerm(s)
  PROVE  RcGoodStep
  <1> DEFINE g == rcStop[s].gen
  <1>1. UNCHANGED rcOthersS /\ UNCHANGED rcRec /\ g # 0 /\ rcStop[s].pc = "term"
    BY StopHere DEF StopTerm, StopOK
  <1>2. CASE Exited(g) /\ SGoes(s, "settle") /\ UNCHANGED rcProc
    BY <1>1, <1>2, StopGoesKeepsIInv DEF Publishes
  <1>3. CASE ~Exited(g) /\ SGoes(s, "killing") /\ rcProc' = [rcProc EXCEPT ![g] = "killed"]
    <2>1. /\ g \in Runs /\ g \in Nat /\ rcRec.gen \in Nat /\ rcLoop.gen \in Nat
          /\ g =< rcRec.gen /\ rcRec.gen =< rcLoop.gen
          /\ LoopOK /\ ProcOK /\ RecOK /\ BudgetOK /\ SeenOK
      BY StopHere, RcHere, RunsAreNumbers DEF RcIInv, StopOK, RecOK, LoopStates
    <2>2. g = rcLoop.gen /\ g = rcRec.gen
      <3>1. g < rcLoop.gen => Exited(g)
        BY <1>1, <2>1 DEF ProcOK, Exited
      <3> QED BY <1>3, <2>1, <3>1
    <2>3. rcLoop.pc \in {"wait", "killed"} /\ rcRec.st \notin {"stopped", "deleted"}
      <3>1. rcLoop.pc # "mark" /\ rcRec.st \notin {"stopped", "deleted"}
        BY <1>1, <1>3, <2>1, <2>2 DEF RecOK
      <3>2. rcLoop.pc \notin {"fork", "finalize", "decide", "done"}
        BY <1>1, <1>3, <2>1, <2>2 DEF ProcOK, Exited
      <3> QED BY <3>1, <3>2, RcHere DEF LoopStates
    <2>4. /\ UNCHANGED <<rcScene, rcCode, rcLoop, rcWait, rcDel, rcHealth, rcFaults, rcRec>>
          /\ rcProc' \in [Runs -> {"none", "alive", "killed", "zombie", "gone"}]
          /\ rcProc'[g] = "killed" /\ \A h \in Runs \ {g} : rcProc'[h] = rcProc[h]
      BY <1>1, <1>3, <2>1, RcHere DEF rcOthersS
    <2>5. \A h \in Runs : Exited(h)' = Exited(h)
      BY <1>3, <2>4 DEF Exited
    <2>6. ProcOK'
      <3>1. ASSUME NEW h \in Runs
            PROVE  /\ h = 0 \/ h > rcLoop.gen => rcProc'[h] = "none"
                   /\ h # 0 /\ h < rcLoop.gen => rcProc'[h] = "gone"
                   /\ ~Exited(h)' => rcCode'[h] = NoCode
        <4>1. h \in Nat
          BY RunsAreNumbers
        <4>2. h = g => h # 0 /\ ~(h > rcLoop.gen) /\ ~(h < rcLoop.gen)
          BY <1>1, <2>1, <2>2, <4>1
        <4>3. h # g => rcProc'[h] = rcProc[h]
          BY <2>4
        <4> QED BY <2>1, <2>4, <2>5, <4>2, <4>3 DEF ProcOK
      <3> HIDE DEF g
      <3>2. rcProc'[rcLoop.gen] = "killed" /\ rcLoop'.pc \in {"wait", "killed"}
        BY <2>2, <2>3, <2>4
      <3> QED BY <2>4, <3>1, <3>2 DEF ProcOK
    <2>7. LoopOK' /\ RecOK' /\ BudgetOK' /\ SeenOK'
      <3>1. rcRec.gen \in Runs
        BY StopHere
      <3> QED BY <2>1, <2>4, <2>5, <3>1 DEF LoopOK, RecOK, BudgetOK, SeenOK, rcPolicy
    <2>8. Advances
      <3>1. rcRec.rev \in Nat
        BY StopHere DEF RecStates
      <3> QED BY <2>1, <2>4, <2>5, <3>1 DEF Advances
    <2> DEFINE r == [rcStop[s] EXCEPT !.pc = "killing"]
    <2>9. r \in StopStates
      BY StopHere DEF StopStates
    <2>10. r.pc = "killing" /\ r.gen = g /\ rcStop' = [rcStop EXCEPT ![s] = r]
      BY <1>3, StopHere DEF SGoes, StopStates
    <2> HIDE DEF r
    <2>11. /\ rcStop' \in [StopReqs -> StopStates] /\ rcStop'[s] = r
           /\ \A t \in StopReqs \ {s} : rcStop'[t] = rcStop[t]
      BY <2>9, <2>10, StopHere
    <2>12. StopOK(s)'
      BY <1>1, <2>1, <2>4, <2>10, <2>11 DEF StopOK
    <2>13. RcStates'
      BY <2>4, <2>11, RcHere, HealthHere, RcTyped
    <2> QED BY <2>4, <2>6, <2>7, <2>8, <2>11, <2>12, <2>13, RcKeepsIInv
  <1> QED BY <1>2, <1>3 DEF StopTerm

\* The wait after SIGKILL.
LEMMA StopAfterKillKeepsIInv ==
  ASSUME RcIInv, NEW s \in StopReqs, StopAfterKill(s)
  PROVE  RcGoodStep
  <1>1. UNCHANGED rcOthersS /\ UNCHANGED rcProc /\ Publishes
    BY DEF StopAfterKill, Publishes
  <1>2. CASE Exited(rcStop[s].gen)
    BY <1>1, <1>2, StopGoesKeepsIInv DEF StopAfterKill
  <1>3. CASE ~Exited(rcStop[s].gen)
    BY <1>1, <1>3, StopGoesKeepsIInv DEF StopAfterKill
  <1> QED BY <1>2, <1>3

\* waitForParentStoppedState polls at most MaxSettle times.
LEMMA StopSettlesKeepsIInv ==
  ASSUME RcIInv, NEW s \in StopReqs, StopSettles(s)
  PROVE  RcGoodStep
  <1>1. /\ UNCHANGED rcOthersS /\ UNCHANGED rcProc /\ Publishes /\ Exited(rcStop[s].gen)
    BY StopHere DEF StopSettles, Publishes, StopOK
  <1>2. PICK n \in 0..MaxSettle, l \in {"settle", "get", "error"} :
          rcStop' = [rcStop EXCEPT ![s].polls = n, ![s].pc = l]
    <2> DEFINE n == IF rcRec.st = "running" /\ rcStop[s].polls < MaxSettle
                    THEN rcStop[s].polls + 1 ELSE rcStop[s].polls
               l == IF rcRec.st = "deleted" THEN "error"
                    ELSE IF rcRec.st = "running" /\ rcStop[s].polls < MaxSettle
                    THEN "settle" ELSE "get"
    <2>1. n \in 0..MaxSettle
      BY StopHere, RestartAssumption
    <2>2. l \in {"settle", "get", "error"}
      OBVIOUS
    <2>3. rcStop' = [rcStop EXCEPT ![s].polls = n, ![s].pc = l]
      BY StopHere DEF StopSettles
    <2> HIDE DEF n, l
    <2> QED BY <2>1, <2>2, <2>3
  <1> DEFINE r == [rcStop[s] EXCEPT !.polls = n, !.pc = l]
  <1>3. r \in StopStates
    BY StopHere DEF StopStates
  <1>4. r.pc = l /\ r.gen = rcStop[s].gen /\ rcStop' = [rcStop EXCEPT ![s] = r]
    BY <1>2, StopHere DEF StopStates
  <1>5. r.gen =< rcRec.gen
    BY <1>4, StopHere DEF StopOK
  <1> HIDE DEF r
  <1> QED BY <1>1, <1>3, <1>4, <1>5, StopKeepsIInv

\* The code is read from whatever record is stopped now.
LEMMA StopGetsKeepsIInv ==
  ASSUME RcIInv, NEW s \in StopReqs, StopGets(s)
  PROVE  RcGoodStep
  <1>1. UNCHANGED rcOthersS /\ UNCHANGED rcProc /\ Publishes /\ Exited(rcStop[s].gen)
    BY StopHere DEF StopGets, Publishes, StopOK
  <1>2. CASE rcRec.st = "deleted"
    BY <1>1, <1>2, StopGoesKeepsIInv DEF StopGets
  <1>3. CASE rcRec.st # "deleted"
    <2>1. PICK code \in ExitCodes :
            /\ code = NoCode \/ (rcRec.st = "stopped" /\ code = rcRec.code)
            /\ rcStop' = [rcStop EXCEPT ![s].pc = "finalize", ![s].code = code]
      BY <1>3, StopHere DEF StopGets
    <2> DEFINE r == [rcStop[s] EXCEPT !.pc = "finalize", !.code = code]
    <2>2. r \in StopStates
      BY StopHere DEF StopStates
    <2>3. /\ r.pc = "finalize" /\ r.gen = rcStop[s].gen /\ r.code = code
          /\ rcStop' = [rcStop EXCEPT ![s] = r]
      BY <2>1, StopHere DEF StopStates
    <2>4. r.gen =< rcRec.gen /\ (rcRec.gen = r.gen => code \in {NoCode, rcCode[r.gen]})
      BY <2>1, <2>3, StopHere DEF StopOK
    <2> HIDE DEF r
    <2> QED BY <1>1, <2>2, <2>3, <2>4, StopKeepsIInv
  <1> QED BY <1>2, <1>3

\* FinalizeStoppedGeneration, and the answer "stopped".
LEMMA StopFinalizesKeepsIInv ==
  ASSUME RcIInv, NEW s \in StopReqs, StopFinalizes(s)
  PROVE  RcGoodStep
  <1> DEFINE g == rcStop[s].gen
  <1>1. /\ UNCHANGED rcOthersS /\ UNCHANGED rcProc /\ Exited(g)
        /\ rcRec.gen = g => rcStop[s].code \in {NoCode, rcCode[g]}
    BY StopHere DEF StopFinalizes, StopOK
  <1>2. CASE rcRec.st = "deleted"
    BY <1>1, <1>2, StopGoesKeepsIInv DEF StopFinalizes, Publishes
  <1>3. CASE rcRec.st # "deleted"
    <2>1. SGoes(s, "done") /\ rcRec' = Finalized(g, rcStop[s].code)
      BY <1>3 DEF StopFinalizes
    <2>2. Publishes
      BY <1>1, <2>1, StopHere DEF Publishes
    <2>3. ~(rcRec'.st = "running" /\ rcRec'.gen = g)
      BY <2>1, StopHere DEF Finalized, Running, RecStates
    <2> QED BY <1>1, <2>1, <2>2, <2>3, StopGoesKeepsIInv
  <1> QED BY <1>2, <1>3

-----------------------------------------------------------------------------
(* rm and the health supervisor                                            *)

\* A step that leaves processes, loop and the other clients alone.
LEMMA RecordKeepsIInv ==
  ASSUME RcIInv, UNCHANGED <<rcScene, rcProc, rcCode, rcLoop, rcWait, rcStop, rcFaults>>,
         Advances, rcRec' \in RecStates, RecOK', SeenOK', rcHealth' \in HealthStates,
         rcHealth'.failures =< rcHealth'.probes,
         rcDel' \in [DeleteCmds -> {"idle", "delete", "done", "error"}]
  PROVE  RcGoodStep
  <1>1. LoopOK /\ ProcOK /\ BudgetOK
    BY DEF RcIInv
  <1>2. LoopOK' /\ ProcOK' /\ BudgetOK'
    BY <1>1 DEF LoopOK, ProcOK, BudgetOK, Exited, rcPolicy
  <1>3. RcStates'
    BY RcHere, RcTyped
  <1> QED BY <1>2, <1>3, RcKeepsIInv

\* rm reconciles, and goes on with anything but a running record.
LEMMA DeleteReconcilesKeepsIInv ==
  ASSUME RcIInv, NEW d \in DeleteCmds, DeleteReconciles(d)
  PROVE  RcGoodStep
  <1>1. /\ UNCHANGED <<rcScene, rcProc, rcCode, rcLoop, rcWait, rcStop, rcHealth, rcFaults>>
        /\ rcRec' = Reconciled
        /\ \E l \in {"delete", "error"} : rcDel' = [rcDel EXCEPT ![d] = l]
    BY DEF DeleteReconciles, rcOthersD
  <1>2. rcDel' \in [DeleteCmds -> {"idle", "delete", "done", "error"}]
    BY <1>1, RcHere
  <1>3. Publishes
    BY <1>1, ReconciledPublishes
  <1>4. rcRec' \in RecStates /\ Advances /\ RecOK'
    BY <1>1, <1>2, <1>3, PublishedGood
  <1>5. SeenOK'
    BY <1>1, <1>4, SeenKept
  <1> QED BY <1>1, <1>2, <1>4, <1>5, RcHere, HealthHere, RecordKeepsIInv

\* DeleteIfNotRunning looks again: no running record goes.
LEMMA DeleteKeepsIInv ==
  ASSUME RcIInv, NEW d \in DeleteCmds, DeleteIfNotRunning(d)
  PROVE  RcGoodStep
  <1>1. /\ UNCHANGED <<rcScene, rcProc, rcCode, rcLoop, rcWait, rcStop, rcHealth, rcFaults>>
        /\ rcDel[d] = "delete"
    BY DEF DeleteIfNotRunning, rcOthersD
  <1>2. /\ rcRec \in RecStates /\ rcRec.gen \in Nat /\ rcRec.rev \in Nat /\ RecOK
        /\ rcRec.gen \in Runs
    BY RcHere, RunsAreNumbers DEF RcIInv, RecStates
  <1>3. rcDel' \in [DeleteCmds -> {"idle", "delete", "done", "error"}]
    BY RcHere DEF DeleteIfNotRunning
  <1>4. \A h \in Runs : Exited(h)' = Exited(h)
    BY <1>1 DEF Exited
  <1>5. CASE UNCHANGED rcRec
    <2>1. Advances /\ RecOK'
      BY <1>1, <1>2, <1>3, <1>4, <1>5 DEF Advances, RecOK
    <2>2. SeenOK'
      BY <1>1, <1>2, <1>5, <2>1, SeenKept
    <2> QED BY <1>1, <1>2, <1>3, <1>5, <2>1, <2>2, RcHere, HealthHere, RecordKeepsIInv
  <1>6. CASE rcRec.st \notin {"running", "deleted"} /\ rcRec' = [rcRec EXCEPT !.st = "deleted"]
    <2>1. rcRec.st \in {"created", "stopped"}
      BY <1>2, <1>6 DEF RecStates
    <2>2. rcRec' \in RecStates
      BY <1>2, <1>6 DEF RecStates
    <2>3. /\ rcRec'.st = "deleted" /\ rcRec'.gen = rcRec.gen /\ rcRec'.code = rcRec.code
          /\ rcRec'.rev = rcRec.rev
      BY <1>2, <1>6 DEF RecStates
    <2>4. Advances /\ RecOK'
      BY <1>1, <1>2, <1>4, <2>1, <2>3 DEF Advances, RecOK
    <2>5. SeenOK'
      BY <1>1, <2>2, <2>4, SeenKept
    <2> QED BY <1>1, <1>3, <2>2, <2>4, <2>5, RcHere, HealthHere, RecordKeepsIInv
  <1> QED BY <1>5, <1>6 DEF DeleteIfNotRunning

\* A step that leaves the record alone lets everybody go on.
LEMMA RecordSame ==
  ASSUME RcIInv, UNCHANGED <<rcRec, rcProc, rcCode, rcLoop, rcDel>>
  PROVE  Advances /\ RecOK' /\ rcRec' \in RecStates
  <1>1. /\ rcRec \in RecStates /\ rcRec.gen \in Nat /\ rcRec.rev \in Nat /\ RecOK
    BY RcHere, RunsAreNumbers DEF RcIInv, RecStates
  <1> QED BY <1>1 DEF Advances, RecOK, Exited

\* A probe, whose result is counted.
LEMMA HealthProbeKeepsIInv ==
  ASSUME RcIInv, HealthProbe
  PROVE  RcGoodStep
  <1>1. /\ UNCHANGED <<rcScene, rcProc, rcCode, rcLoop, rcWait, rcStop, rcDel, rcFaults>>
        /\ UNCHANGED rcRec
    BY DEF HealthProbe, rcOthersH
  <1>2. PICK n \in Nat, m \in Nat :
          /\ m = rcHealth.probes + 1 /\ n =< m
          /\ rcHealth' = [rcHealth EXCEPT !.pc = "get", !.probes = m, !.failures = n]
    <2>1. PICK ok \in BOOLEAN :
            rcHealth' = [rcHealth EXCEPT !.pc = "get", !.probes = @ + 1,
                                         !.failures = IF ok THEN 0 ELSE @ + 1]
      BY DEF HealthProbe
    <2>2. PICK m \in Nat : m = rcHealth.probes + 1
      BY HealthHere
    <2>3. PICK f \in Nat : f = rcHealth.failures + 1 /\ f =< m
      BY <2>2, HealthHere
    <2>4. PICK n \in Nat : n = (IF ok THEN 0 ELSE f) /\ n =< m
      BY <2>2, <2>3
    <2>5. rcHealth' = [rcHealth EXCEPT !.pc = "get", !.probes = m, !.failures = n]
      BY <2>1, <2>2, <2>3, <2>4
    <2> QED BY <2>2, <2>4, <2>5
  <1>3. rcHealth' \in HealthStates
    BY <1>2, RcHere DEF HealthStates
  <1>4. rcHealth'.pc = "get" /\ rcHealth'.failures =< rcHealth'.probes
    BY <1>2, RcHere DEF HealthStates
  <1>5. Advances /\ RecOK' /\ rcRec' \in RecStates
    BY <1>1, RecordSame
  <1>6. SeenOK'
    BY <1>4 DEF SeenOK
  <1> QED BY <1>1, <1>3, <1>4, <1>5, <1>6, RcHere, RecordKeepsIInv

\* The supervisor takes a snapshot of the record.
LEMMA HealthGetKeepsIInv ==
  ASSUME RcIInv, HealthGet
  PROVE  RcGoodStep
  <1>1. /\ UNCHANGED <<rcScene, rcProc, rcCode, rcLoop, rcWait, rcStop, rcDel, rcFaults>>
        /\ UNCHANGED rcRec
    BY DEF HealthGet, rcOthersH
  <1>2. Advances /\ RecOK' /\ rcRec' \in RecStates
    BY <1>1, RecordSame
  <1>3. /\ rcHealth' \in HealthStates /\ SeenOK' /\ rcHealth'.failures = rcHealth.failures
        /\ rcHealth'.probes = rcHealth.probes
    <2>1. CASE rcRec.st = "deleted"
      <3>1. rcHealth' = [rcHealth EXCEPT !.pc = "idle"]
        BY <2>1 DEF HealthGet
      <3> QED BY <3>1, RcHere DEF HealthStates, SeenOK
    <2>2. CASE rcRec.st # "deleted"
      <3>1. rcHealth' = [rcHealth EXCEPT !.pc = "save", !.seen = rcRec]
        BY <2>2 DEF HealthGet
      <3>2. rcHealth' \in HealthStates
        BY <3>1, RcHere DEF HealthStates
      <3>3. /\ rcHealth'.seen = rcRec /\ rcHealth'.failures = rcHealth.failures
            /\ rcHealth'.probes = rcHealth.probes
        BY <3>1, RcHere DEF HealthStates
      <3>4. rcRec.rev \in Nat
        BY RcHere DEF RecStates
      <3> QED BY <1>1, <2>2, <3>2, <3>3, <3>4 DEF SeenOK
    <2> QED BY <2>1, <2>2
  <1> QED BY <1>1, <1>2, <1>3, RcHere, HealthHere, RecordKeepsIInv

\* Save writes the snapshot over the record it was taken from, or not at all.
LEMMA HealthSaveKeepsIInv ==
  ASSUME RcIInv, HealthSave
  PROVE  RcGoodStep
  <1>1. /\ UNCHANGED <<rcScene, rcProc, rcCode, rcLoop, rcWait, rcStop, rcDel, rcFaults>>
        /\ rcHealth' = [rcHealth EXCEPT !.pc = "idle", !.seen = NoSnapshot]
        /\ rcHealth.pc = "save"
    BY DEF HealthSave, rcOthersH
  <1>2. NoSnapshot \in RecStates
    BY RunsAreNumbers DEF NoSnapshot, RecStates, ExitCodes
  <1>3. rcHealth' \in HealthStates
    BY <1>1, <1>2, RcHere DEF HealthStates
  <1>4. /\ rcHealth'.pc = "idle" /\ rcHealth'.failures = rcHealth.failures
        /\ rcHealth'.probes = rcHealth.probes
    BY <1>1, RcHere DEF HealthStates
  <1>5. SeenOK'
    BY <1>4 DEF SeenOK
  <1>6. Advances /\ RecOK' /\ rcRec' \in RecStates
    <2>1. CASE rcRec.st # "deleted" /\ rcRec.rev = rcHealth.seen.rev
      <3>1. rcHealth.seen = rcRec
        BY <1>1, <2>1 DEF RcIInv, SeenOK
      <3>2. rcRec.gen \in Nat /\ rcRec.rev \in Nat /\ RecOK /\ rcRec.gen \in Runs
        BY RcHere, RunsAreNumbers DEF RcIInv, RecStates
      <3>3. PICK rev \in Nat : rev = rcRec.rev + 1
        BY <3>2
      <3>4. rcRec.rev =< rev /\ rcRec.rev # rev
        BY <3>2, <3>3
      <3>5. Evaluate(rcHealth.failures) \in {"", "starting", "healthy", "unhealthy"}
        BY DEF Evaluate
      <3>6. rcRec' = [rcRec EXCEPT !.health = Evaluate(rcHealth.failures), !.rev = rev]
        BY <2>1, <3>1, <3>3 DEF HealthSave
      <3>7. rcRec' \in RecStates
        BY <3>5, <3>6, RcHere DEF RecStates
      <3>8. /\ rcRec'.st = rcRec.st /\ rcRec'.gen = rcRec.gen /\ rcRec'.code = rcRec.code
            /\ rcRec'.rev = rev
        BY <3>6, RcHere DEF RecStates
      <3>9. \A h \in Runs : Exited(h)' = Exited(h)
        BY <1>1 DEF Exited
      <3>10. Advances
        BY <1>1, <3>2, <3>4, <3>8, <3>9 DEF Advances
      <3>11. RecOK'
        BY <1>1, <3>2, <3>8, <3>9 DEF RecOK
      <3> QED BY <3>7, <3>10, <3>11
    <2>2. CASE ~(rcRec.st # "deleted" /\ rcRec.rev = rcHealth.seen.rev)
      BY <1>1, <2>2, RecordSame DEF HealthSave
    <2> QED BY <2>1, <2>2
  <1> QED BY <1>1, <1>3, <1>4, <1>5, <1>6, RcHere, HealthHere, RecordKeepsIInv

-----------------------------------------------------------------------------
(* The restart loop and its payloads                                       *)

\* The loop's locals, and what is known of them.
LEMMA LoopHere ==
  ASSUME RcIInv
  PROVE  /\ rcLoop \in LoopStates /\ rcLoop.gen \in Runs /\ rcLoop.gen \in Nat
         /\ rcLoop.retries \in Nat /\ rcLoop.retries =< MaxRuns /\ MaxRuns \in Nat
         /\ rcRec \in RecStates /\ rcRec.gen \in Runs /\ rcRec.gen \in Nat /\ rcRec.rev \in Nat
         /\ LoopOK /\ ProcOK /\ RecOK /\ BudgetOK
  <1>1. rcLoop \in LoopStates /\ rcLoop.gen \in Runs /\ rcLoop.retries \in 0..MaxRuns
    BY RcHere DEF LoopStates
  <1>2. rcRec \in RecStates /\ rcRec.gen \in Runs /\ rcRec.rev \in Nat
    BY RcHere DEF RecStates
  <1>3. MaxRuns \in Nat
    BY RestartAssumption
  <1>4. rcLoop.retries \in Nat /\ rcLoop.retries =< MaxRuns
    BY <1>1, <1>3
  <1>5. rcLoop.gen \in Nat /\ rcRec.gen \in Nat
    BY <1>1, <1>2, RunsAreNumbers
  <1> QED BY <1>1, <1>2, <1>3, <1>4, <1>5 DEF RcIInv

\* A step that leaves the clients alone.
LEMMA LoopKeepsIInv ==
  ASSUME RcIInv, UNCHANGED rcScene, UNCHANGED rcClients, Advances, rcRec' \in RecStates,
         rcLoop' \in LoopStates,
         rcProc' \in [Runs -> {"none", "alive", "killed", "zombie", "gone"}],
         rcCode' \in [Runs -> ExitCodes], LoopOK', ProcOK', RecOK', BudgetOK',
         rcFaults' = rcFaults \/ RcFault
  PROVE  RcGoodStep
  <1>1. UNCHANGED <<rcWait, rcStop, rcDel, rcHealth>>
    BY DEF rcClients
  <1>2. RcStates'
    BY <1>1, RcHere, HealthHere, RcTyped
  <1>3. SeenOK'
    BY <1>1, SeenKept
  <1> QED BY <1>1, <1>2, <1>3, RcKeepsIInv

\* The record's part of Advances, for a step that leaves it alone.
LEMMA SameRecordAdvances ==
  ASSUME RcIInv, UNCHANGED rcRec,
         \A h \in Runs : Exited(h) => Exited(h)' /\ rcCode'[h] = rcCode[h]
  PROVE  Advances
  <1>1. rcRec.gen \in Nat /\ rcRec.rev \in Nat
    BY LoopHere
  <1> QED BY <1>1 DEF Advances

\* The next generation is forked; the one before has been reaped.
LEMMA LoopForkKeepsIInv ==
  ASSUME RcIInv, LoopFork
  PROVE  RcGoodStep
  <1>1. /\ UNCHANGED rcScene /\ UNCHANGED rcClients
        /\ UNCHANGED <<rcCode, rcRec, rcDel, rcFaults>> /\ rcLoop.pc = "fork"
    BY DEF LoopFork, rcClients
  <1>2. PICK g \in Nat : g = rcLoop.gen + 1
    BY LoopHere
  <1>3. g \in Runs /\ rcLoop.gen < g /\ g # 0 /\ rcRec.gen < g /\ rcLoop.retries = g - 1
    BY <1>1, <1>2, LoopHere, RunsAreNumbers DEF LoopFork, RecOK, LoopOK
  <1>4. /\ rcLoop' = [rcLoop EXCEPT !.pc = "mark", !.gen = g]
        /\ rcProc' = [rcProc EXCEPT ![g] = "alive"]
    BY <1>2 DEF LoopFork
  <1>5. /\ rcLoop' \in LoopStates /\ rcLoop'.pc = "mark" /\ rcLoop'.gen = g
        /\ rcLoop'.retries = rcLoop.retries
    BY <1>3, <1>4, LoopHere DEF LoopStates
  <1>6. /\ rcProc' \in [Runs -> {"none", "alive", "killed", "zombie", "gone"}]
        /\ rcProc'[g] = "alive" /\ \A h \in Runs \ {g} : rcProc'[h] = rcProc[h]
    BY <1>3, <1>4, RcHere
  <1>7. rcProc[g] = "none"
    BY <1>3, LoopHere DEF ProcOK
  <1>8. \A h \in Runs : Exited(h)' = Exited(h)
    BY <1>6, <1>7 DEF Exited
  <1>9. Advances
    BY <1>1, <1>8, SameRecordAdvances
  <1>10. LoopOK'
    BY <1>2, <1>3, <1>5, LoopHere DEF LoopOK
  <1>11. ProcOK'
    <2>1. ASSUME NEW h \in Runs
          PROVE  /\ h = 0 \/ h > g => rcProc'[h] = "none"
                 /\ h # 0 /\ h < g => rcProc'[h] = "gone"
                 /\ ~Exited(h)' => rcCode'[h] = NoCode
      <3>1. h \in Nat
        BY RunsAreNumbers
      <3>2. h = 0 \/ h > g => h # g /\ (h = 0 \/ h > rcLoop.gen)
        BY <1>2, <1>3, <3>1, LoopHere
      <3>3. h < g => h # g /\ (h < rcLoop.gen \/ h = rcLoop.gen)
        BY <1>2, <1>3, <3>1, LoopHere
      <3>4. h # g => rcProc'[h] = rcProc[h]
        BY <1>6
      <3>5. ~Exited(h) => rcCode[h] = NoCode
        BY LoopHere DEF ProcOK
      <3>6. h = 0 \/ h > rcLoop.gen => rcProc[h] = "none"
        BY LoopHere DEF ProcOK
      <3>7. h # 0 /\ (h < rcLoop.gen \/ h = rcLoop.gen) => rcProc[h] = "gone"
        BY <1>1, LoopHere DEF ProcOK
      <3> QED BY <1>1, <1>8, <3>2, <3>3, <3>4, <3>5, <3>6, <3>7
    <2> QED BY <1>5, <1>6, <2>1 DEF ProcOK, Exited
  <1>12. RecOK'
    BY <1>1, <1>3, <1>5, <1>8, LoopHere DEF RecOK
  <1>13. BudgetOK'
    <2>1. rcPolicy' = rcPolicy
      BY <1>1 DEF rcPolicy
    <2>2. rcPolicy.type = "no" => g =< 1
      BY <1>1, <1>2, LoopHere DEF BudgetOK
    <2>3. ASSUME rcPolicy.type = "on-failure", NEW h \in 1..(g - 1)
          PROVE  rcCode'[h] # 0
      <3>1. h \in 1..(rcLoop.gen - 1) \/ (h = rcLoop.gen /\ rcLoop.gen # 0)
        BY <1>2, LoopHere
      <3> QED BY <1>1, <2>3, <3>1, LoopHere DEF BudgetOK
    <2>4. rcPolicy.type = "on-failure" /\ rcPolicy.max > 0 => rcLoop.retries =< rcPolicy.max
      BY LoopHere DEF BudgetOK
    <2> QED BY <1>5, <2>1, <2>2, <2>3, <2>4 DEF BudgetOK
  <1> QED BY <1>1, <1>5, <1>6, <1>9, <1>10, <1>11, <1>12, <1>13, LoopHere, RcHere, LoopKeepsIInv

\* The loop moves to another label and leaves its generation as it is.
LEMMA BudgetKept ==
  ASSUME RcIInv, UNCHANGED <<rcScene, rcCode>>, rcLoop'.gen = rcLoop.gen,
         rcLoop'.retries = rcLoop.retries, rcLoop'.pc # "fork"
  PROVE  BudgetOK'
  <1>1. rcPolicy' = rcPolicy /\ BudgetOK
    BY DEF rcPolicy, RcIInv
  <1> QED BY <1>1 DEF BudgetOK

\* MarkRunning names the forked generation, or its blocked child is killed.
LEMMA LoopMarksRunningKeepsIInv ==
  ASSUME RcIInv, LoopMarksRunning
  PROVE  RcGoodStep
  <1>1. /\ UNCHANGED rcScene /\ UNCHANGED rcClients
        /\ UNCHANGED <<rcCode, rcDel>> /\ rcLoop.pc = "mark"
    BY DEF LoopMarksRunning, rcClients
  <1>2. PICK g \in Runs : g = rcLoop.gen
    BY LoopHere
  <1>3. /\ g \in Nat /\ g # 0 /\ rcRec.gen < g /\ rcLoop.retries = g - 1 /\ rcProc[g] = "alive"
    BY <1>1, <1>2, LoopHere DEF LoopOK, RecOK, ProcOK
  <1>4. CASE /\ rcRec.st # "deleted" /\ UNCHANGED <<rcProc, rcFaults>>
             /\ rcRec' = [rcRec EXCEPT !.st = "running", !.gen = g, !.code = 0, !.rev = @ + 1]
             /\ rcLoop' = [rcLoop EXCEPT !.pc = "wait"]
    <2>1. PICK rev \in Nat : rev = rcRec.rev + 1
      BY LoopHere
    <2>2. rcRec.rev < rev
      BY <2>1, LoopHere
    <2>3. rcRec' = [rcRec EXCEPT !.st = "running", !.gen = g, !.code = 0, !.rev = rev]
      BY <1>4, <2>1
    <2>4. rcRec' \in RecStates
      BY <2>3, LoopHere DEF RecStates, ExitCodes, RcCodes
    <2>5. rcRec'.st = "running" /\ rcRec'.gen = g /\ rcRec'.code = 0 /\ rcRec'.rev = rev
      BY <2>3, LoopHere DEF RecStates
    <2>6. /\ rcLoop' \in LoopStates /\ rcLoop'.pc = "wait" /\ rcLoop'.gen = rcLoop.gen
          /\ rcLoop'.retries = rcLoop.retries
      BY <1>4, LoopHere DEF LoopStates
    <2>7. \A h \in Runs : Exited(h)' = Exited(h)
      BY <1>4 DEF Exited
    <2>8. rcRec.gen =< rcRec'.gen /\ rcRec.rev =< rcRec'.rev /\ rcRec.rev # rcRec'.rev
          /\ rcRec.gen < rcRec'.gen
      BY <1>3, <2>2, <2>5, LoopHere
    <2>9. Advances
      BY <1>1, <1>4, <2>7, <2>8 DEF Advances
    <2>10. LoopOK'
      BY <1>1, <2>6, LoopHere DEF LoopOK
    <2>11. ProcOK'
      BY <1>1, <1>2, <1>3, <1>4, <2>6, <2>7, LoopHere DEF ProcOK
    <2>12. RecOK'
      BY <1>2, <1>3, <2>5, <2>6 DEF RecOK
    <2>13. BudgetOK'
      BY <1>1, <2>6, BudgetKept
    <2> QED BY <1>1, <1>4, <2>4, <2>6, <2>9, <2>10, <2>11, <2>12, <2>13, RcHere, LoopKeepsIInv
  <1>5. CASE /\ IF rcRec.st = "deleted" THEN UNCHANGED rcFaults ELSE RcFault
             /\ rcProc' = [rcProc EXCEPT ![g] = "gone"]
             /\ rcLoop' = [rcLoop EXCEPT !.pc = "done"] /\ UNCHANGED rcRec
    <2>1. /\ rcLoop' \in LoopStates /\ rcLoop'.pc = "done" /\ rcLoop'.gen = rcLoop.gen
          /\ rcLoop'.retries = rcLoop.retries
      BY <1>5, LoopHere DEF LoopStates
    <2>2. /\ rcProc' \in [Runs -> {"none", "alive", "killed", "zombie", "gone"}]
          /\ rcProc'[g] = "gone" /\ \A h \in Runs \ {g} : rcProc'[h] = rcProc[h]
      BY <1>5, RcHere
    <2>3. \A h \in Runs : Exited(h)' <=> Exited(h) \/ h = g
      BY <2>2 DEF Exited
    <2>4. Advances
      BY <1>1, <1>5, <2>3, SameRecordAdvances
    <2>5. LoopOK'
      BY <1>1, <2>1, LoopHere DEF LoopOK
    <2>6. ProcOK'
      <3>1. ASSUME NEW h \in Runs
            PROVE  /\ h = 0 \/ h > g => rcProc'[h] = "none"
                   /\ h # 0 /\ h < g => rcProc'[h] = "gone"
                   /\ ~Exited(h)' => rcCode'[h] = NoCode
        <4>1. h \in Nat
          BY RunsAreNumbers
        <4>2. (h = 0 \/ h > g => h # g) /\ (h < g => h # g)
          BY <1>3, <4>1
        <4>3. /\ h = 0 \/ h > g => rcProc[h] = "none"
              /\ h # 0 /\ h < g => rcProc[h] = "gone"
              /\ ~Exited(h) => rcCode[h] = NoCode
          BY <1>2, LoopHere DEF ProcOK
        <4> QED BY <1>1, <2>2, <2>3, <4>2, <4>3
      <3> QED BY <1>2, <1>3, <2>1, <2>2, <3>1 DEF ProcOK, Exited
    <2>7. RecOK'
      BY <1>1, <1>3, <1>5, <2>1, <2>3, LoopHere DEF RecOK
    <2>8. BudgetOK'
      BY <1>1, <2>1, BudgetKept
    <2> QED BY <1>1, <1>5, <2>1, <2>2, <2>4, <2>5, <2>6, <2>7, <2>8, RcHere, LoopKeepsIInv
  <1> QED BY <1>2, <1>4, <1>5 DEF LoopMarksRunning

\* A zombie is reaped, by the loop or by the host's init.
LEMMA ReapedGood ==
  ASSUME RcIInv, NEW g \in Runs, rcProc[g] = "zombie", rcProc' = [rcProc EXCEPT ![g] = "gone"],
         UNCHANGED <<rcCode, rcRec>>
  PROVE  /\ rcProc' \in [Runs -> {"none", "alive", "killed", "zombie", "gone"}]
         /\ Advances /\ \A h \in Runs : Exited(h)' = Exited(h)
         /\ \A h \in Runs : rcProc'[h] = rcProc[h] \/ (rcProc'[h] = "gone" /\ rcProc[h] = "zombie")
         /\ rcProc'[g] = "gone"
  <1>1. /\ rcProc' \in [Runs -> {"none", "alive", "killed", "zombie", "gone"}]
        /\ rcProc'[g] = "gone" /\ \A h \in Runs \ {g} : rcProc'[h] = rcProc[h]
    BY RcHere
  <1>2. \A h \in Runs : Exited(h)' = Exited(h)
    BY <1>1 DEF Exited
  <1>3. Advances
    BY <1>2, SameRecordAdvances
  <1>4. \A h \in Runs : rcProc'[h] = rcProc[h] \/ (rcProc'[h] = "gone" /\ rcProc[h] = "zombie")
    <2>1. ASSUME NEW h \in Runs
          PROVE  rcProc'[h] = rcProc[h] \/ (rcProc'[h] = "gone" /\ rcProc[h] = "zombie")
      BY <1>1
    <2> QED BY <2>1
  <1> QED BY <1>1, <1>2, <1>3, <1>4

\* cmd.Wait of the loop.
LEMMA LoopReapsKeepsIInv ==
  ASSUME RcIInv, LoopReaps
  PROVE  RcGoodStep
  <1>1. /\ UNCHANGED rcScene /\ UNCHANGED rcClients
        /\ UNCHANGED <<rcCode, rcRec, rcDel, rcFaults>> /\ rcLoop.pc = "wait"
    BY DEF LoopReaps, rcClients
  <1>2. PICK g \in Runs : g = rcLoop.gen
    BY LoopHere
  <1>3. rcProc[g] = "zombie" /\ rcProc' = [rcProc EXCEPT ![g] = "gone"] /\ g # 0
        /\ rcRec.gen = g
    BY <1>1, <1>2, LoopHere DEF LoopReaps, LoopOK, RecOK
  <1>4. PICK bad \in BOOLEAN : rcLoop' = [rcLoop EXCEPT !.pc = "finalize", !.err = bad]
    BY DEF LoopReaps
  <1>5. /\ rcLoop' \in LoopStates /\ rcLoop'.pc = "finalize" /\ rcLoop'.gen = rcLoop.gen
        /\ rcLoop'.retries = rcLoop.retries
    BY <1>4, LoopHere DEF LoopStates
  <1>6. /\ rcProc' \in [Runs -> {"none", "alive", "killed", "zombie", "gone"}]
        /\ Advances /\ \A h \in Runs : Exited(h)' = Exited(h)
        /\ \A h \in Runs : rcProc'[h] = rcProc[h] \/ (rcProc'[h] = "gone" /\ rcProc[h] = "zombie")
        /\ rcProc'[g] = "gone"
    BY <1>1, <1>3, ReapedGood
  <1>7. LoopOK'
    BY <1>1, <1>5, LoopHere DEF LoopOK
  <1>8. ProcOK'
    BY <1>1, <1>2, <1>5, <1>6, LoopHere DEF ProcOK
  <1>9. RecOK'
    BY <1>1, <1>2, <1>3, <1>5, <1>6, LoopHere DEF RecOK
  <1>10. BudgetOK'
    BY <1>1, <1>5, BudgetKept
  <1> QED BY <1>1, <1>5, <1>6, <1>7, <1>8, <1>9, <1>10, LoopHere, RcHere, LoopKeepsIInv

\* The host's init reaps the child of a killed parent.
LEMMA HostInitReapsKeepsIInv ==
  ASSUME RcIInv, HostInitReaps
  PROVE  RcGoodStep
  <1>1. /\ UNCHANGED rcScene /\ UNCHANGED rcClients
        /\ UNCHANGED <<rcCode, rcRec, rcLoop, rcDel, rcFaults>> /\ rcLoop.pc = "killed"
    BY DEF HostInitReaps, rcClients
  <1>2. PICK g \in Runs : rcProc[g] = "zombie" /\ rcProc' = [rcProc EXCEPT ![g] = "gone"]
    BY DEF HostInitReaps
  <1>3. /\ rcProc' \in [Runs -> {"none", "alive", "killed", "zombie", "gone"}]
        /\ Advances /\ \A h \in Runs : Exited(h)' = Exited(h)
        /\ \A h \in Runs : rcProc'[h] = rcProc[h] \/ (rcProc'[h] = "gone" /\ rcProc[h] = "zombie")
    BY <1>1, <1>2, ReapedGood
  <1>4. LoopOK'
    BY <1>1, LoopHere DEF LoopOK
  <1>5. ProcOK'
    BY <1>1, <1>3, LoopHere DEF ProcOK
  <1>6. RecOK'
    BY <1>1, <1>3, LoopHere DEF RecOK
  <1>7. BudgetOK'
    BY <1>1, BudgetKept
  <1> QED BY <1>1, <1>3, <1>4, <1>5, <1>6, <1>7, LoopHere, RcHere, LoopKeepsIInv

\* The loop publishes the end of its generation with the code it reaped, or
\* gives up on a record that is gone.
LEMMA LoopFinalizesKeepsIInv ==
  ASSUME RcIInv, LoopFinalizes
  PROVE  RcGoodStep
  <1>1. /\ UNCHANGED rcScene /\ UNCHANGED rcClients
        /\ UNCHANGED <<rcProc, rcCode, rcDel>> /\ rcLoop.pc = "finalize"
    BY DEF LoopFinalizes, rcClients
  <1>2. PICK g \in Runs : g = rcLoop.gen
    BY LoopHere
  <1>3. PICK code \in ExitCodes : code = rcCode[g]
    BY RcHere
  <1>4. g # 0 /\ rcRec.gen = g /\ rcProc[g] = "gone" /\ Exited(g)
    BY <1>1, <1>2, LoopHere DEF LoopOK, RecOK, ProcOK, Exited
  <1>5. \A h \in Runs : Exited(h)' = Exited(h)
    BY <1>1 DEF Exited
  <1>6. PICK l \in {"decide", "done"} : rcLoop' = [rcLoop EXCEPT !.pc = l]
    BY DEF LoopFinalizes
  <1>7. /\ rcLoop' \in LoopStates /\ rcLoop'.pc = l /\ rcLoop'.gen = rcLoop.gen
        /\ rcLoop'.retries = rcLoop.retries
    BY <1>6, LoopHere DEF LoopStates
  <1>8. LoopOK'
    BY <1>1, <1>7, LoopHere DEF LoopOK
  <1>9. ProcOK'
    BY <1>1, <1>2, <1>4, <1>5, <1>7, LoopHere DEF ProcOK
  <1>10. BudgetOK'
    BY <1>1, <1>7, BudgetKept
  <1>11. rcFaults' = rcFaults \/ RcFault
    BY DEF LoopFinalizes
  <1>12. CASE UNCHANGED rcRec
    <2>1. Advances
      BY <1>1, <1>5, <1>12, SameRecordAdvances
    <2>2. RecOK'
      BY <1>1, <1>2, <1>4, <1>5, <1>7, <1>12, LoopHere DEF RecOK
    <2> QED BY <1>1, <1>7, <1>8, <1>9, <1>10, <1>11, <1>12, <2>1, <2>2, LoopHere, RcHere,
               LoopKeepsIInv
  <1>13. CASE ~UNCHANGED rcRec
    <2>1. rcRec' = Finalized(g, code)
      BY <1>2, <1>3, <1>13 DEF LoopFinalizes
    <2>2. PICK rev \in Nat : rev = rcRec.rev + 1
      BY LoopHere
    <2>3. rcRec.rev =< rev /\ rcRec.rev # rev
      BY <2>2, LoopHere
    <2>4. /\ rcRec.st \in {"running", "stopped"}
          /\ rcRec' = [rcRec EXCEPT !.st = "stopped", !.code = code, !.rev = rev]
      BY <1>4, <1>13, <2>1, <2>2, LoopHere DEF Finalized, Running, RecStates
    <2>5. rcRec' \in RecStates
      BY <2>4, LoopHere DEF RecStates
    <2>6. rcRec'.st = "stopped" /\ rcRec'.gen = rcRec.gen /\ rcRec'.code = code /\ rcRec'.rev = rev
      BY <2>4, LoopHere DEF RecStates
    <2>7. Advances
      BY <1>1, <1>5, <2>3, <2>4, <2>6, LoopHere DEF Advances
    <2>8. RecOK'
      BY <1>1, <1>2, <1>3, <1>4, <1>5, <1>7, <2>6, LoopHere DEF RecOK
    <2> QED BY <1>1, <1>7, <1>8, <1>9, <1>10, <1>11, <2>5, <2>7, <2>8, RcHere, LoopKeepsIInv
  <1> QED BY <1>12, <1>13

\* ShouldRestart keeps the loop within its policy.
LEMMA LoopDecidesKeepsIInv ==
  ASSUME RcIInv, LoopDecides
  PROVE  RcGoodStep
  <1>1. /\ UNCHANGED rcScene /\ UNCHANGED rcClients
        /\ UNCHANGED <<rcProc, rcCode, rcRec, rcDel, rcFaults>> /\ rcLoop.pc = "decide"
    BY DEF LoopDecides, rcClients
  <1>2. PICK g \in Runs : g = rcLoop.gen
    BY LoopHere
  <1>3. g \in Nat /\ g # 0 /\ rcRec.gen = g /\ rcProc[g] = "gone" /\ rcLoop.retries = g - 1
    BY <1>1, <1>2, LoopHere DEF LoopOK, RecOK, ProcOK
  <1>4. \A h \in Runs : Exited(h)' = Exited(h)
    BY <1>1 DEF Exited
  <1>5. Advances
    BY <1>1, <1>4, SameRecordAdvances
  <1>6. CASE rcLoop' = [rcLoop EXCEPT !.pc = "done"]
    <2>1. /\ rcLoop' \in LoopStates /\ rcLoop'.pc = "done" /\ rcLoop'.gen = rcLoop.gen
          /\ rcLoop'.retries = rcLoop.retries
      BY <1>6, LoopHere DEF LoopStates
    <2>2. LoopOK'
      BY <1>1, <2>1, LoopHere DEF LoopOK
    <2>3. ProcOK'
      BY <1>1, <1>2, <1>3, <1>4, <2>1, LoopHere DEF ProcOK
    <2>4. RecOK'
      BY <1>1, <1>2, <1>3, <1>4, <2>1, LoopHere DEF RecOK
    <2>5. BudgetOK'
      BY <1>1, <2>1, BudgetKept
    <2> QED BY <1>1, <1>5, <2>1, <2>2, <2>3, <2>4, <2>5, LoopHere, RcHere, LoopKeepsIInv
  <1>7. CASE /\ ShouldRestart(rcCode[g], rcLoop.retries)
             /\ rcLoop' = [rcLoop EXCEPT !.pc = "fork", !.retries = @ + 1]
    <2>1. rcLoop.retries + 1 = g /\ g \in 0..MaxRuns
      BY <1>2, <1>3, LoopHere, RunsAreNumbers
    <2>2. rcLoop' = [rcLoop EXCEPT !.pc = "fork", !.retries = g]
      BY <1>7, <2>1
    <2>3. /\ rcLoop' \in LoopStates /\ rcLoop'.pc = "fork" /\ rcLoop'.gen = g
          /\ rcLoop'.retries = g
      BY <1>2, <2>1, <2>2, LoopHere DEF LoopStates
    <2>4. LoopOK'
      BY <1>3, <2>3 DEF LoopOK
    <2>5. ProcOK'
      BY <1>1, <1>2, <1>3, <1>4, <2>3, LoopHere DEF ProcOK
    <2>6. RecOK'
      BY <1>1, <1>2, <1>3, <1>4, <2>3, LoopHere DEF RecOK
    <2>7. BudgetOK'
      <3>1. rcPolicy' = rcPolicy /\ rcPolicy.type # "no"
        BY <1>1, <1>7 DEF rcPolicy, ShouldRestart
      <3>2. rcPolicy.type = "on-failure" => \A h \in 1..(g - 1) : rcCode'[h] # 0
        BY <1>1, <1>2, LoopHere DEF BudgetOK
      <3>3. rcPolicy.type = "on-failure" => rcCode'[g] # 0
        BY <1>1, <1>7 DEF ShouldRestart
      <3>4. rcPolicy.max \in Nat
        BY RcHere, RestartAssumption DEF rcPolicy
      <3>5. rcPolicy.type = "on-failure" /\ rcPolicy.max > 0 => rcLoop.retries < rcPolicy.max
        BY <1>7, <3>4 DEF ShouldRestart
      <3>6. rcPolicy.type = "on-failure" /\ rcPolicy.max > 0 => g =< rcPolicy.max
        BY <2>1, <3>4, <3>5, LoopHere
      <3> QED BY <2>3, <3>1, <3>2, <3>3, <3>6 DEF BudgetOK
    <2> QED BY <1>1, <1>5, <2>3, <2>4, <2>5, <2>6, <2>7, LoopHere, RcHere, LoopKeepsIInv
  <1> QED BY <1>2, <1>6, <1>7 DEF LoopDecides

\* The parent is killed, and with it the child it has alive.
LEMMA LoopKilledKeepsIInv ==
  ASSUME RcIInv, LoopKilled
  PROVE  RcGoodStep
  <1>1. /\ UNCHANGED rcScene /\ UNCHANGED rcClients
        /\ UNCHANGED <<rcCode, rcRec, rcDel>> /\ rcLoop.pc \notin {"done", "killed"} /\ RcFault
    BY DEF LoopKilled, rcClients
  <1>2. PICK g \in Runs : g = rcLoop.gen
    BY LoopHere
  <1>3. /\ rcLoop' \in LoopStates /\ rcLoop'.pc = "killed" /\ rcLoop'.gen = rcLoop.gen
        /\ rcLoop'.retries = rcLoop.retries
    BY LoopHere DEF LoopKilled, LoopStates
  <1>4. /\ rcProc' \in [Runs -> {"none", "alive", "killed", "zombie", "gone"}]
        /\ rcProc'[g] = (IF rcProc[g] = "alive" THEN "killed" ELSE rcProc[g])
        /\ \A h \in Runs \ {g} : rcProc'[h] = rcProc[h]
    BY <1>2, RcHere DEF LoopKilled
  <1>5. \A h \in Runs : Exited(h)' = Exited(h)
    BY <1>4 DEF Exited
  <1>6. Advances
    BY <1>1, <1>5, SameRecordAdvances
  <1>7. LoopOK'
    BY <1>3, LoopHere DEF LoopOK
  <1>8. ProcOK'
    <2>1. rcLoop.pc \in {"fork", "mark", "wait", "finalize", "decide"}
      BY <1>1, LoopHere DEF LoopStates
    <2>2. g # 0 => rcProc'[g] \in {"killed", "zombie", "gone"}
      BY <1>2, <1>4, <2>1, LoopHere DEF ProcOK
    <2>3. \A h \in Runs : /\ h = 0 \/ h > g => rcProc[h] = "none"
                          /\ h # 0 /\ h < g => rcProc[h] = "gone"
                          /\ ~Exited(h) => rcCode[h] = NoCode
      BY <1>2, LoopHere DEF ProcOK
    <2>4. ASSUME NEW h \in Runs
          PROVE  /\ h = 0 \/ h > g => rcProc'[h] = "none"
                 /\ h # 0 /\ h < g => rcProc'[h] = "gone"
                 /\ ~Exited(h)' => rcCode'[h] = NoCode
      BY <1>1, <1>4, <1>5, <2>3
    <2> QED BY <1>2, <1>3, <2>2, <2>4 DEF ProcOK, Exited
  <1>9. RecOK'
    BY <1>1, <1>3, <1>5, LoopHere DEF RecOK
  <1>10. BudgetOK'
    BY <1>1, <1>3, BudgetKept
  <1> QED BY <1>1, <1>3, <1>4, <1>6, <1>7, <1>8, <1>9, <1>10, LoopHere, RcHere, LoopKeepsIInv

\* A payload ends: it is the present generation, and nobody has published a
\* code for it.
LEMMA PayloadExitsKeepsIInv ==
  ASSUME RcIInv, NEW g \in Runs, PayloadExits(g)
  PROVE  RcGoodStep
  <1>1. /\ UNCHANGED rcScene /\ UNCHANGED rcClients
        /\ UNCHANGED <<rcRec, rcLoop, rcDel, rcFaults>>
        /\ rcProc[g] \in {"alive", "killed"} /\ rcProc' = [rcProc EXCEPT ![g] = "zombie"]
    BY DEF PayloadExits, rcClients
  <1>2. g = rcLoop.gen /\ g # 0
    <2>1. g \in Nat /\ rcLoop.gen \in Nat
      BY LoopHere, RunsAreNumbers
    <2>2. ~(g = 0 \/ g > rcLoop.gen) /\ ~(g # 0 /\ g < rcLoop.gen)
      BY <1>1, LoopHere DEF ProcOK
    <2> QED BY <2>1, <2>2
  <1>3. rcLoop.pc \in {"wait", "killed"}
    <2>1. rcLoop.pc \notin {"fork", "finalize", "decide", "done"}
      BY <1>1, <1>2, LoopHere DEF ProcOK
    <2> QED BY <1>2, <2>1, LoopHere DEF PayloadExits, LoopStates
  <1>4. PICK c \in ExitCodes : rcCode' = [rcCode EXCEPT ![g] = c]
    BY DEF PayloadExits, ExitCodes
  <1>5. /\ rcProc' \in [Runs -> {"none", "alive", "killed", "zombie", "gone"}]
        /\ rcProc'[g] = "zombie" /\ \A h \in Runs \ {g} : rcProc'[h] = rcProc[h]
    BY <1>1, RcHere
  <1>6. /\ rcCode' \in [Runs -> ExitCodes] /\ \A h \in Runs \ {g} : rcCode'[h] = rcCode[h]
    BY <1>4, RcHere
  <1>7. ~Exited(g) /\ rcCode[g] = NoCode
    BY <1>1, LoopHere DEF Exited, ProcOK
  <1>8. \A h \in Runs : Exited(h)' <=> Exited(h) \/ h = g
    BY <1>5 DEF Exited
  <1>9. Advances
    BY <1>1, <1>6, <1>7, <1>8, SameRecordAdvances
  <1>10. LoopOK'
    BY <1>1, LoopHere DEF LoopOK
  <1>11. ProcOK'
    <2>1. ASSUME NEW h \in Runs
          PROVE  /\ h = 0 \/ h > g => rcProc'[h] = "none"
                 /\ h # 0 /\ h < g => rcProc'[h] = "gone"
                 /\ ~Exited(h)' => rcCode'[h] = NoCode
      <3>1. h \in Nat /\ g \in Nat
        BY RunsAreNumbers
      <3>2. (h = 0 \/ h > g => h # g) /\ (h < g => h # g)
        BY <1>2, <3>1
      <3>3. /\ h = 0 \/ h > g => rcProc[h] = "none"
            /\ h # 0 /\ h < g => rcProc[h] = "gone"
            /\ ~Exited(h) => rcCode[h] = NoCode
        BY <1>2, LoopHere DEF ProcOK
      <3> QED BY <1>5, <1>6, <1>8, <3>2, <3>3
    <2> QED BY <1>1, <1>2, <1>3, <1>5, <2>1 DEF ProcOK, Exited
  <1>12. RecOK'
    <2>1. rcRec.st = "stopped" => rcRec.gen # g /\ rcCode'[rcRec.gen] = rcCode[rcRec.gen]
      BY <1>6, <1>7, LoopHere DEF RecOK
    <2> QED BY <1>1, <1>8, <2>1, LoopHere DEF RecOK
  <1>13. BudgetOK'
    <2>1. rcPolicy' = rcPolicy
      BY <1>1 DEF rcPolicy
    <2>2. ASSUME rcPolicy.type = "on-failure", NEW h \in 1..(rcLoop.gen - 1)
          PROVE  rcCode'[h] # 0
      <3>1. h \in Nat /\ h # g /\ h \in Runs
        BY <1>2, LoopHere, RunsAreNumbers
      <3> QED BY <1>6, <2>2, <3>1, LoopHere DEF BudgetOK
    <2> QED BY <1>1, <1>3, <2>1, <2>2, LoopHere DEF BudgetOK
  <1> QED BY <1>1, <1>5, <1>6, <1>9, <1>10, <1>11, <1>12, <1>13, LoopHere, RcHere, LoopKeepsIInv

-----------------------------------------------------------------------------
(* A restarting container: the theorems                                    *)

\* A new container, whose loop has forked nothing yet.
LEMMA RcInitOK ==
  ASSUME RcInit
  PROVE  RcIInv
  <1>1. 0 \in Runs /\ MaxRuns \in Nat /\ MaxSettle \in Nat
    BY RunsAreNumbers, RestartAssumption
  <1>2. 0 \in 0..MaxRuns /\ 0 \in 0..MaxSettle
    BY <1>1
  <1>3. NoCode \in ExitCodes /\ 0 \in ExitCodes
    BY DEF ExitCodes, RcCodes
  <1>4. rcRec \in RecStates /\ NoSnapshot \in RecStates
    BY <1>1, <1>3 DEF RcInit, RecStates, NoSnapshot
  <1>5. rcLoop \in LoopStates
    BY <1>1, <1>2 DEF RcInit, LoopStates
  <1>6. rcWait \in [WaitCmds -> WaitStates] /\ rcStop \in [StopReqs -> StopStates]
    BY <1>1, <1>2, <1>3 DEF RcInit, WaitStates, StopStates, NoWait, NoStop
  <1>7. /\ rcHealth.failures = 0 /\ rcHealth.probes = 0 /\ rcHealth.pc = "idle"
        /\ rcHealth \in HealthStates
    BY <1>4 DEF RcInit, HealthStates
  <1>8. RcStates
    <2>1. rcHealth.failures \in 0..rcHealth.probes /\ rcHealth.pc \in {"idle", "get", "save"}
      BY <1>7
    <2>2. /\ rcProc \in [Runs -> {"none", "alive", "killed", "zombie", "gone"}]
          /\ rcCode \in [Runs -> RcCodes \cup {NoCode}] /\ rcScene \in RcScenes
          /\ rcDel \in [DeleteCmds -> {"idle", "delete", "done", "error"}] /\ rcFaults \in Nat
      BY DEF RcInit
    <2>3. /\ rcRec.st \in {"created", "running", "stopped", "deleted"} /\ rcRec.gen \in Runs
          /\ rcRec.code \in RcCodes \cup {NoCode} /\ rcRec.rev \in Nat
          /\ rcRec.health \in {"", "starting", "healthy", "unhealthy"}
      BY <1>4 DEF RecStates, ExitCodes
    <2> QED BY <1>4, <1>5, <1>6, <1>7, <2>1, <2>2, <2>3
            DEF RcStates, RcTypeOK, ExitCodes, LoopStates, WaitStates, StopStates
  <1>9. \A g \in Runs : ~Exited(g) /\ rcCode[g] = NoCode /\ rcProc[g] = "none"
    BY DEF RcInit, Exited
  <1>10. rcLoop.pc = "fork" /\ rcLoop.gen = 0 /\ rcLoop.retries = 0
    BY DEF RcInit
  <1>11. /\ rcRec.st = "created" /\ rcRec.gen = 0
         /\ \A d \in DeleteCmds : rcDel[d] = "idle"
    BY DEF RcInit
  <1>12. LoopOK
    BY <1>10 DEF LoopOK
  <1>13. ProcOK
    BY <1>9, <1>10, RunsAreNumbers DEF ProcOK
  <1>14. RecOK
    BY <1>10, <1>11 DEF RecOK
  <1>15. BudgetOK
    <2>1. 1..(rcLoop.gen - 1) = {}
      BY <1>10
    <2>2. rcPolicy.max \in Nat
      BY RestartAssumption DEF RcInit, rcPolicy
    <2>3. rcLoop.retries =< rcPolicy.max
      BY <1>10, <2>2
    <2> QED BY <1>10, <2>1, <2>3 DEF BudgetOK
  <1>16. \A w \in WaitCmds : WaitOK(w)
    BY DEF RcInit, NoWait, WaitOK
  <1>17. \A s \in StopReqs : rcStop[s].pc = "idle" /\ rcStop[s].gen = 0
    BY DEF RcInit, NoStop
  <1>18. \A s \in StopReqs : StopOK(s)
    BY <1>11, <1>17 DEF StopOK
  <1>19. SeenOK
    BY <1>7 DEF SeenOK
  <1> QED BY <1>8, <1>12, <1>13, <1>14, <1>15, <1>16, <1>18, <1>19 DEF RcIInv

\* Every step of every actor keeps the invariant.
LEMMA RcNextKeepsIInv ==
  ASSUME RcIInv, [RcNext]_rcVars
  PROVE  RcGoodStep
  <1>1. CASE UNCHANGED rcVars
    <2>1. /\ UNCHANGED <<rcScene, rcProc, rcCode, rcRec, rcLoop, rcWait, rcStop, rcDel, rcHealth,
                         rcFaults>>
      BY <1>1 DEF rcVars
    <2>2. Advances /\ RecOK' /\ rcRec' \in RecStates
      BY <2>1, RecordSame
    <2>3. SeenOK'
      BY <2>1, <2>2, SeenKept
    <2> QED BY <2>1, <2>2, <2>3, RcHere, HealthHere, RecordKeepsIInv
  <1>2. CASE RcLoopStep
    BY <1>2, LoopForkKeepsIInv, LoopMarksRunningKeepsIInv, LoopReapsKeepsIInv,
       LoopFinalizesKeepsIInv, LoopDecidesKeepsIInv DEF RcLoopStep
  <1>3. CASE LoopKilled \/ HostInitReaps \/ \E g \in Runs : PayloadExits(g)
    BY <1>3, LoopKilledKeepsIInv, HostInitReapsKeepsIInv, PayloadExitsKeepsIInv
  <1>4. ASSUME NEW w \in WaitCmds, WaitStep(w)
        PROVE  RcGoodStep
    BY <1>4, WaitResolveKeepsIInv, WaitOpenKeepsIInv, WaitPollKeepsIInv, WaitGetKeepsIInv,
       WaitReloadKeepsIInv DEF WaitStep
  <1>5. ASSUME NEW s \in StopReqs, StopStep(s)
        PROVE  RcGoodStep
    BY <1>5, StopResolveKeepsIInv, StopOpenKeepsIInv, StopTermKeepsIInv, StopAfterKillKeepsIInv,
       StopSettlesKeepsIInv, StopGetsKeepsIInv, StopFinalizesKeepsIInv DEF StopStep
  <1>6. ASSUME NEW d \in DeleteCmds, DeleteReconciles(d) \/ DeleteIfNotRunning(d)
        PROVE  RcGoodStep
    BY <1>6, DeleteReconcilesKeepsIInv, DeleteKeepsIInv
  <1>7. CASE HealthProbe \/ HealthGet \/ HealthSave
    BY <1>7, HealthProbeKeepsIInv, HealthGetKeepsIInv, HealthSaveKeepsIInv
  <1> QED BY <1>1, <1>2, <1>3, <1>4, <1>5, <1>6, <1>7 DEF RcNext

\* RcIInv holds whatever the loop, its payloads and the clients do, for any
\* number of clients, generations and polls.
THEOREM RcInductive == RcSpec => []RcIInv
  <1>1. RcInit => RcIInv
    BY RcInitOK
  <1>2. RcIInv /\ [RcNext]_rcVars => RcIInv'
    BY RcNextKeepsIInv DEF RcGoodStep
  <1> QED BY <1>1, <1>2, PTL DEF RcSpec

\* ClientsSeeTheTruth of RestartControl: exit codes are those of the generation
\* they are given for, a stop request that answered "stopped" was right, no
\* process runs without a record, and the loop keeps to its policy.
THEOREM ClientsAreToldTheTruth == RcSpec => []ClientsSeeTheTruth
  <1>1. RcIInv => ClientsSeeTheTruth
    <2> SUFFICES ASSUME RcIInv PROVE ClientsSeeTheTruth
      OBVIOUS
    <2>1. RcTypeOK
      BY DEF RcIInv, RcStates
    <2>2. ExitCodeIsItsOwn
      BY LoopHere DEF RcIInv, RecOK, WaitOK, ExitCodeIsItsOwn
    <2>3. StopAnswerIsTrue
      BY DEF RcIInv, StopOK, StopAnswerIsTrue
    <2>4. NoProcessWithoutRecord
      <3> SUFFICES ASSUME rcRec.st \in {"stopped", "deleted"}, NEW g \in Runs,
                          rcProc[g] \in {"alive", "killed"}
                   PROVE  /\ rcLoop.gen = g /\ rcRec.gen # g
                          /\ rcLoop.pc = "mark" \/ (rcLoop.pc = "killed" /\ rcProc[g] = "killed")
        BY DEF NoProcessWithoutRecord
      <3>1. g \in Nat /\ rcLoop.gen \in Nat /\ g # 0 /\ ~(g > rcLoop.gen) /\ ~(g < rcLoop.gen)
        BY LoopHere, RunsAreNumbers DEF ProcOK
      <3>2. g = rcLoop.gen
        BY <3>1
      <3>3. rcRec.gen # g
        BY <3>1, LoopHere DEF RecOK, Exited
      <3>4. rcLoop.pc \notin {"wait", "finalize", "decide", "done", "fork"}
        BY <3>1, <3>2, <3>3, LoopHere DEF RecOK, ProcOK
      <3>5. rcLoop.pc \in {"mark", "killed"}
        BY <3>4, LoopHere DEF LoopStates
      <3> QED BY <3>1, <3>2, <3>3, <3>5, LoopHere DEF ProcOK
    <2>5. RestartBudget
      <3>1. rcPolicy.max \in Nat
        BY RcHere, RestartAssumption DEF rcPolicy
      <3>2. rcPolicy.max > 0 /\ rcLoop.retries =< rcPolicy.max => rcLoop.gen =< rcPolicy.max + 1
        BY <3>1, LoopHere DEF LoopOK
      <3> QED BY <3>2, LoopHere DEF BudgetOK, RestartBudget
    <2> QED BY <2>1, <2>2, <2>3, <2>4, <2>5 DEF ClientsSeeTheTruth
  <1> QED BY <1>1, RcInductive, PTL

\* GenerationNeverRevives of RestartControl: a generation that was recorded as
\* stopped never runs again and a deleted record never comes back, also when the
\* health supervisor saves a snapshot.
THEOREM GenerationsDoNotRevive == RcSpec => GenerationNeverRevives
  <1>1. ASSUME RcIInv, RcIInv', [RcNext]_rcVars
        PROVE  [/\ rcRec.st = "deleted" => rcRec'.st = "deleted"
                /\ rcRec.st = "stopped" /\ rcRec'.st = "running" => rcRec'.gen > rcRec.gen]_rcVars
    <2>1. Advances
      BY <1>1, RcNextKeepsIInv DEF RcGoodStep
    <2>2. rcRec.gen \in Nat /\ rcRec'.gen \in Nat
      BY <1>1, RunsAreNumbers DEF RcIInv, RcStates, RecStates
    <2>3. rcRec.st = "stopped" /\ rcRec'.st = "running" => rcRec'.gen > rcRec.gen
      BY <2>1, <2>2 DEF Advances
    <2> QED BY <2>1, <2>3 DEF Advances
  <1> QED BY <1>1, RcInductive, PTL DEF RcSpec, GenerationNeverRevives

-----------------------------------------------------------------------------
(* Volumes: what every step leaves to the other calls                      *)

\* Directories get numbers that were not used before; a name that goes leads
\* nowhere; published metadata goes only where a removal is under way.
VsRely ==
  /\ vsNext =< vsNext'
  /\ vsName' \in {0, vsName} \/ vsNext < vsName'
  /\ vsName' = vsName /\ vsName # 0 /\ vsIno[vsName].meta => vsIno'[vsName].meta \/ Clearing'
  /\ Clearing => Clearing' \/ vsName' = 0

\* The types the invariant gives, one by one.
LEMMA VsHere ==
  ASSUME VsIInv
  PROVE  /\ vsName \in {0} \cup VsInodes /\ vsNext \in {0} \cup VsInodes
         /\ vsData \in {0} \cup VsInodes /\ vsIno \in [VsInodes -> DirStates]
         /\ vsCl \in [VsClients -> CallStates]
         /\ vsLast \in {"none", "create", "remove"} \X {"ok", "error"}
  BY DEF VsIInv, VsTypeOK, DirStates, CallStates

\* Sets of removals have a size, and a larger set has no smaller one.
LEMMA RemoverSets ==
  ASSUME NEW S \in SUBSET Removers, NEW T \in SUBSET Removers, S \subseteq T
  PROVE  /\ Cardinality(S) \in Nat /\ Cardinality(T) \in Nat /\ Cardinality(Removers) \in Nat
         /\ Cardinality(S) =< Cardinality(T) /\ Cardinality(T) =< Cardinality(Removers)
         /\ \A r \in T \ S : Cardinality(S) + 1 =< Cardinality(T)
  <1>1. IsFiniteSet(Removers) /\ IsFiniteSet(T) /\ IsFiniteSet(S)
    BY VsAssumption, FS_Subset
  <1>2. /\ Cardinality(S) \in Nat /\ Cardinality(T) \in Nat /\ Cardinality(Removers) \in Nat
    BY <1>1, FS_CardinalityType
  <1>3. Cardinality(S) =< Cardinality(T) /\ Cardinality(T) =< Cardinality(Removers)
    BY <1>1, FS_Subset
  <1>4. ASSUME NEW r \in T \ S
        PROVE  Cardinality(S) + 1 =< Cardinality(T)
    <2>1. IsFiniteSet(S \cup {r}) /\ Cardinality(S \cup {r}) = Cardinality(S) + 1
      BY <1>1, FS_AddElement
    <2>2. S \cup {r} \subseteq T
      OBVIOUS
    <2>3. Cardinality(S \cup {r}) =< Cardinality(T)
      BY <1>1, <2>2, FS_Subset
    <2> QED BY <2>1, <2>3
  <1> QED BY <1>2, <1>3, <1>4

\* Inode numbers are numbers from 1 on.
LEMMA InodeNumbers ==
  /\ Cardinality(Removers) \in Nat /\ VsInodes \subseteq Nat \ {0}
  /\ \A n \in Nat : n =< Cardinality(Removers) => n + 1 \in VsInodes
  <1>1. Cardinality(Removers) \in Nat
    BY RemoverSets
  <1> QED BY <1>1 DEF VsInodes

\* So is 0, which stands for no inode.
LEMMA InodesAreNumbers ==
  /\ \A i \in {0} \cup VsInodes : i \in Nat
  /\ 0 \notin VsInodes
  BY InodeNumbers

\* What the counters are.
LEMMA VsNumbers ==
  ASSUME VsIInv
  PROVE  /\ vsName \in Nat /\ vsNext \in Nat /\ vsData \in Nat
         /\ Cardinality(Over) \in Nat /\ Cardinality(Spent) \in Nat
         /\ Cardinality(Over) =< Cardinality(Removers)
         /\ Cardinality(Spent) =< Cardinality(Removers)
  <1>1. vsName \in Nat /\ vsNext \in Nat /\ vsData \in Nat
    BY VsHere, InodesAreNumbers
  <1>2. Over \in SUBSET Removers /\ Spent \in SUBSET Removers
    BY DEF Over, Spent
  <1> QED BY <1>1, <1>2, RemoverSets

\* A step of one call, as the sets of removals see it: what is over stays over.
CallGrows(c, r) ==
  c \in Removers =>
    /\ vsCl[c].pc = "done" => r.pc = "done"
    /\ vsCl[c].pc = "failed" => r.pc \in {"done", "failed"}
    /\ vsCl[c].pc \in {"child", "unlink"} =>
         \/ r.pc \in {"done", "failed"}
         \/ r.pc \in {"child", "unlink"} /\ r.list \subseteq vsCl[c].list

\* Over and Spent only grow, and by a call that joins them they grow by one.
LEMMA SetsGrow ==
  ASSUME VsIInv, NEW c \in VsClients, NEW r \in CallStates, vsCl' = [vsCl EXCEPT ![c] = r],
         CallGrows(c, r)
  PROVE  /\ Over \subseteq Over' /\ Spent \subseteq Spent'
         /\ Cardinality(Over') \in Nat /\ Cardinality(Spent') \in Nat
         /\ Cardinality(Over) =< Cardinality(Over') /\ Cardinality(Spent) =< Cardinality(Spent')
         /\ \A q \in Over' \ Over : Cardinality(Over) + 1 =< Cardinality(Over')
         /\ \A q \in Spent' \ Spent : Cardinality(Spent) + 1 =< Cardinality(Spent')
  <1>1. vsCl'[c] = r /\ \A d \in VsClients \ {c} : vsCl'[d] = vsCl[d]
    BY VsHere
  <1>2. Removers \subseteq VsClients
    BY DEF VsClients
  <1>3. Over \subseteq Over'
    <2>1. ASSUME NEW q \in Removers, vsCl[q].pc = "done"
          PROVE  vsCl'[q].pc = "done"
      BY <1>1, <1>2, <2>1 DEF CallGrows
    <2> QED BY <2>1 DEF Over
  <1>4. Spent \subseteq Spent'
    <2>1. ASSUME NEW q \in Removers, q = c, q \in Spent
          PROVE  q \in Spent'
      BY <1>1, <2>1 DEF CallGrows, Spent
    <2>2. ASSUME NEW q \in Removers, q # c, q \in Spent
          PROVE  q \in Spent'
      BY <1>1, <1>2, <2>2 DEF Spent
    <2>3. Spent \subseteq Removers
      BY DEF Spent
    <2> QED BY <2>1, <2>2, <2>3
  <1>5. /\ Over \in SUBSET Removers /\ Spent \in SUBSET Removers
        /\ Over' \in SUBSET Removers /\ Spent' \in SUBSET Removers
    BY DEF Over, Spent
  <1> HIDE DEF Over, Spent
  <1>6. /\ Cardinality(Over') \in Nat /\ Cardinality(Over) =< Cardinality(Over')
        /\ \A q \in Over' \ Over : Cardinality(Over) + 1 =< Cardinality(Over')
    BY <1>3, <1>5, RemoverSets
  <1>7. /\ Cardinality(Spent') \in Nat /\ Cardinality(Spent) =< Cardinality(Spent')
        /\ \A q \in Spent' \ Spent : Cardinality(Spent) + 1 =< Cardinality(Spent')
    BY <1>4, <1>5, RemoverSets
  <1> QED BY <1>3, <1>4, <1>6, <1>7

\* A call that takes no part in a step still knows what it knew.
LEMMA CallKept ==
  ASSUME VsIInv, VsRely, vsName' \in Nat, vsNext' \in Nat, NEW d \in VsClients,
         vsCl'[d] = vsCl[d]
  PROVE  CallOK(d)'
  <1>6. CallOK(d) /\ vsCl[d] \in CallStates /\ vsCl[d].fd \in {0} \cup VsInodes
    BY VsHere DEF VsIInv, CallStates
  <1>1. /\ CallOK(d) /\ vsCl[d] \in CallStates /\ vsCl[d].fd \in Nat /\ vsNext \in Nat
        /\ vsName \in Nat
    BY <1>6, VsNumbers, InodesAreNumbers
  <1>2. vsCl'[d].fd =< vsNext'
    BY <1>1 DEF CallOK, VsRely
  <1>3. vsCl[d].pc = "finalCheck" => vsCl[d].fd # 0
    BY <1>1 DEF CallOK, Resting
  <1>4. vsCl[d].pc = "finalCheck" /\ vsName' = vsCl[d].fd => vsName' = vsName /\ vsName # 0
    BY <1>1, <1>3 DEF CallOK, VsRely
  <1>5. vsCl[d].pc = "finalCheck" /\ vsName' = vsCl[d].fd => vsIno'[vsName'].meta \/ Clearing'
    BY <1>1, <1>4 DEF CallOK, VsRely
  <1> QED BY <1>1, <1>2, <1>5 DEF CallOK

\* A step keeps the invariant if it counts its directories, its call knows what
\* it has to, and the others can rely on it.
LEMMA VsKeepsIInv ==
  ASSUME VsIInv, NEW c \in VsClients, NEW r \in CallStates, vsCl' = [vsCl EXCEPT ![c] = r],
         vsName' \in {0} \cup VsInodes, vsNext' \in {0} \cup VsInodes,
         vsData' \in {0} \cup VsInodes, vsIno' \in [VsInodes -> DirStates],
         vsLast' \in {"none", "create", "remove"} \X {"ok", "error"},
         VsRely, UnlinkedIsEmpty', InodesCounted', LastSuccessIsTrue', CallOK(c)'
  PROVE  VsIInv'
  <1>1. vsCl' \in [VsClients -> CallStates] /\ \A d \in VsClients \ {c} : vsCl'[d] = vsCl[d]
    BY VsHere
  <1>2. VsTypeOK'
    BY <1>1 DEF VsTypeOK, DirStates, CallStates
  <1>3. vsName' \in Nat /\ vsNext' \in Nat
    BY InodesAreNumbers
  <1>4. \A d \in VsClients \ {c} : CallOK(d)'
    BY <1>1, <1>3, CallKept
  <1> QED BY <1>2, <1>4 DEF VsIInv

\* What a call knows, of its locals and of directories that have not changed.
LocalsOK(c, r) ==
  /\ c \in Creators => r.pc \in {"idle"} \cup CreateLabels
  /\ c \in Removers => r.pc \in Resting \cup RemoveLabels
  /\ r.fd =< vsNext
  /\ r.pc \notin Resting \cup {"open", "pin"} => r.fd # 0
  /\ r.pc \in {"publishCheck", "temp", "rename", "finalCheck"} => r.data # 0

\* A step that leaves the directories alone.
LEMMA LocalKeepsIInv ==
  ASSUME VsIInv, NEW c \in VsClients, NEW r \in CallStates, vsCl' = [vsCl EXCEPT ![c] = r],
         UNCHANGED <<vsName, vsNext, vsIno, vsData>>, CallGrows(c, r), LocalsOK(c, r),
         r.pc # "finalCheck", LastSuccessIsTrue',
         vsLast' \in {"none", "create", "remove"} \X {"ok", "error"},
         c \in Removers /\ vsCl[c].pc \in {"child", "unlink", "failed"} =>
           r.pc \in {"child", "unlink", "failed"}
  PROVE  VsIInv'
  <1>1. vsCl'[c] = r /\ \A d \in VsClients \ {c} : vsCl'[d] = vsCl[d]
    BY VsHere
  <1>2. Removers \subseteq VsClients
    BY DEF VsClients
  <1>3. Clearing => Clearing'
    BY <1>1, <1>2 DEF Clearing
  <1>4. VsRely
    BY <1>3, VsNumbers DEF VsRely
  <1>5. UnlinkedIsEmpty' /\ HasData' = HasData
    BY DEF VsIInv, UnlinkedIsEmpty, IsEmpty, HasData
  <1>6. InodesCounted'
    <2>1. /\ Cardinality(Over') \in Nat /\ Cardinality(Spent') \in Nat
          /\ Cardinality(Over) =< Cardinality(Over') /\ Cardinality(Spent) =< Cardinality(Spent')
      BY SetsGrow
    <2>2. InodesCounted
      BY DEF VsIInv
    <2> QED BY <1>5, <2>1, <2>2, VsNumbers DEF InodesCounted
  <1>7. CallOK(c)'
    BY <1>1 DEF CallOK, LocalsOK
  <1> QED BY <1>4, <1>5, <1>6, <1>7, VsHere, VsKeepsIInv

\* A call that is under way makes no promise.
LEMMA UnderWay ==
  ASSUME VsIInv, NEW c \in VsClients, NEW r \in CallStates, vsCl' = [vsCl EXCEPT ![c] = r],
         r.pc \notin Resting
  PROVE  LastSuccessIsTrue'
  <1>1. vsCl'[c] = r
    BY VsHere
  <1> QED BY <1>1 DEF LastSuccessIsTrue, VsQuiet

\* What is known of one call.
LEMMA CallHere ==
  ASSUME VsIInv, NEW c \in VsClients
  PROVE  /\ vsCl[c] \in CallStates /\ vsCl[c].fd \in {0} \cup VsInodes /\ vsCl[c].fd \in Nat
         /\ vsCl[c].data \in {0} \cup VsInodes /\ vsCl[c].list \subseteq {"meta", "data"} \cup Creators
         /\ CallOK(c) /\ vsCl \in [VsClients -> CallStates]
         /\ vsCl[c].fd # 0 => vsCl[c].fd \in VsInodes /\ vsIno[vsCl[c].fd] \in DirStates
  <1>1. /\ vsCl[c] \in CallStates /\ vsCl[c].fd \in {0} \cup VsInodes
        /\ vsCl[c].data \in {0} \cup VsInodes /\ vsCl[c].list \subseteq {"meta", "data"} \cup Creators
    BY VsHere DEF CallStates
  <1>2. vsCl[c].fd \in Nat
    BY <1>1, InodesAreNumbers
  <1> QED BY <1>1, <1>2, VsHere DEF VsIInv

\* A call that fails, or is killed, and leaves the directories as they are.
LEMMA ErrorKeepsIInv ==
  ASSUME VsIInv, NEW c \in VsClients, UNCHANGED <<vsName, vsNext, vsIno, vsData>>,
         VsReturns(c, "error"), vsCl[c].pc # "failed"
  PROVE  VsIInv'
  <1> DEFINE r == [VsRest EXCEPT !.pc = VsEnd(c, "error")]
  <1>1. VsEnd(c, "error") \in Resting
    BY DEF VsEnd, Resting
  <1>2. r \in CallStates
    BY <1>1 DEF VsRest, CallStates
  <1>3. r.pc = VsEnd(c, "error") /\ r.fd = 0 /\ r.data = 0 /\ r.list = {}
    BY DEF VsRest
  <1>4. vsCl' = [vsCl EXCEPT ![c] = r]
    BY DEF VsReturns
  <1> HIDE DEF r
  <1>5. /\ c \in Creators => r.pc = "idle" /\ c \notin Removers
        /\ c \in Removers => r.pc = (IF vsCl[c].pc \in {"child", "unlink"} THEN "failed" ELSE "done")
    BY <1>3, VsAssumption DEF VsEnd
  <1>6. CallGrows(c, r)
    BY <1>5 DEF CallGrows
  <1>7. LocalsOK(c, r)
    BY <1>1, <1>3, <1>5, VsNumbers DEF LocalsOK, Resting
  <1>8. /\ vsLast' \in {"none", "create", "remove"} \X {"ok", "error"} /\ vsLast'[2] = "error"
    BY DEF VsReturns
  <1>9. LastSuccessIsTrue'
    BY <1>8 DEF LastSuccessIsTrue
  <1>10. r.pc # "finalCheck"
    BY <1>1, <1>3 DEF Resting
  <1> QED BY <1>2, <1>4, <1>5, <1>6, <1>7, <1>8, <1>9, <1>10, LocalKeepsIInv

\* Whose labels they are.
LEMMA Whose ==
  ASSUME VsIInv, NEW c \in VsClients
  PROVE  /\ vsCl[c].pc \in CreateLabels => c \in Creators /\ c \notin Removers
         /\ vsCl[c].pc \in RemoveLabels => c \in Removers /\ c \notin Creators
         /\ c \in Creators <=> c \notin Removers
  <1>1. c \in Creators <=> c \notin Removers
    BY VsAssumption DEF VsClients
  <1>2. CallOK(c)
    BY CallHere
  <1> QED BY <1>1, <1>2 DEF CallOK, CreateLabels, RemoveLabels, Resting

\* A call that goes on with what it has.
LEMMA GoesKeepsIInv ==
  ASSUME VsIInv, NEW c \in VsClients, UNCHANGED <<vsName, vsNext, vsIno, vsData, vsLast>>,
         NEW l \in (CreateLabels \cup RemoveLabels) \ {"finalCheck"}, VsGoes(c, l),
         c \in Creators => l \in CreateLabels, c \in Removers => l \in RemoveLabels,
         l \notin {"open", "pin"} => vsCl[c].fd # 0,
         l \in {"publishCheck", "temp", "rename"} => vsCl[c].data # 0,
         vsCl[c].pc \in {"child", "unlink"} => l \in {"child", "unlink"},
         vsCl[c].pc \notin {"done", "failed"}
  PROVE  VsIInv'
  <1> DEFINE r == [vsCl[c] EXCEPT !.pc = l]
  <1>1. r \in CallStates
    BY CallHere DEF CallStates, CreateLabels, RemoveLabels
  <1>2. /\ r.pc = l /\ r.fd = vsCl[c].fd /\ r.data = vsCl[c].data /\ r.list = vsCl[c].list
        /\ vsCl' = [vsCl EXCEPT ![c] = r]
    BY CallHere DEF VsGoes, CallStates
  <1> HIDE DEF r
  <1>3. r.pc \notin Resting
    BY <1>2 DEF Resting, CreateLabels, RemoveLabels
  <1>4. CallGrows(c, r)
    BY <1>2 DEF CallGrows
  <1>5. LocalsOK(c, r)
    BY <1>2, CallHere DEF LocalsOK, CallOK
  <1>6. LastSuccessIsTrue'
    BY <1>1, <1>2, <1>3, UnderWay
  <1> QED BY <1>1, <1>2, <1>4, <1>5, <1>6, VsHere, LocalKeepsIInv

\* A call that pins a directory, or enumerates one.
LEMMA PinsKeepsIInv ==
  ASSUME VsIInv, NEW c \in VsClients, NEW r \in CallStates, vsCl' = [vsCl EXCEPT ![c] = r],
         UNCHANGED <<vsName, vsNext, vsIno, vsData, vsLast>>,
         r.pc \in (CreateLabels \cup RemoveLabels) \ {"finalCheck"}, LocalsOK(c, r),
         vsCl[c].pc \notin {"child", "unlink", "done", "failed"}
  PROVE  VsIInv'
  <1>1. r.pc \notin Resting
    BY DEF Resting, CreateLabels, RemoveLabels
  <1>2. CallGrows(c, r)
    BY DEF CallGrows
  <1>3. LastSuccessIsTrue'
    BY <1>1, UnderWay
  <1> QED BY <1>2, <1>3, VsHere, LocalKeepsIInv

-----------------------------------------------------------------------------
(* createVolume                                                            *)

\* The directory is opened by its name.
LEMMA CreateOpenKeepsIInv ==
  ASSUME VsIInv, NEW c \in VsClients, CreateOpen(c)
  PROVE  VsIInv'
  <1>1. vsCl[c].pc = "open" /\ UNCHANGED <<vsName, vsNext, vsIno, vsData>>
    BY DEF CreateOpen, VsAt
  <1>2. c \in Creators /\ c \notin Removers
    BY <1>1, Whose DEF CreateLabels
  <1>3. CASE vsName # 0
    <2> DEFINE r == [vsCl[c] EXCEPT !.pc = "chain", !.fd = vsName]
    <2>1. r \in CallStates
      BY CallHere, VsHere DEF CallStates
    <2>2. /\ r.pc = "chain" /\ r.fd = vsName /\ UNCHANGED vsLast
          /\ vsCl' = [vsCl EXCEPT ![c] = r]
      BY <1>3, CallHere DEF CreateOpen, CallStates
    <2> HIDE DEF r
    <2>3. LocalsOK(c, r)
      BY <1>2, <1>3, <2>2 DEF VsIInv, InodesCounted, LocalsOK, CreateLabels
    <2> QED BY <1>1, <2>1, <2>2, <2>3, PinsKeepsIInv DEF CreateLabels
  <1>4. CASE vsName = 0
    BY <1>1, <1>4, ErrorKeepsIInv DEF CreateOpen
  <1> QED BY <1>3, <1>4

\* The name still leads to the pinned directory, or the call fails.
LEMMA CreateChainKeepsIInv ==
  ASSUME VsIInv, NEW c \in VsClients, CreateChain(c)
  PROVE  VsIInv'
  <1>1. vsCl[c].pc = "chain" /\ UNCHANGED <<vsName, vsNext, vsIno, vsData>>
    BY DEF CreateChain, VsAt
  <1>2. c \in Creators /\ c \notin Removers /\ vsCl[c].fd # 0
    BY <1>1, Whose, CallHere DEF CreateLabels, CallOK, Resting
  <1>3. CASE VsGoes(c, "data") /\ UNCHANGED vsLast
    BY <1>1, <1>2, <1>3, GoesKeepsIInv DEF CreateLabels
  <1>4. CASE VsReturns(c, "error")
    BY <1>1, <1>4, ErrorKeepsIInv
  <1> QED BY <1>3, <1>4 DEF CreateChain, VsCheck

\* And again before the metadata is published.
LEMMA CreatePublishCheckKeepsIInv ==
  ASSUME VsIInv, NEW c \in VsClients, CreatePublishCheck(c)
  PROVE  VsIInv'
  <1>1. vsCl[c].pc = "publishCheck" /\ UNCHANGED <<vsName, vsNext, vsIno, vsData>>
    BY DEF CreatePublishCheck, VsAt
  <1>2. c \in Creators /\ c \notin Removers /\ vsCl[c].fd # 0 /\ vsCl[c].data # 0
    BY <1>1, Whose, CallHere DEF CreateLabels, CallOK, Resting
  <1>3. CASE VsGoes(c, "temp") /\ UNCHANGED vsLast
    BY <1>1, <1>2, <1>3, GoesKeepsIInv DEF CreateLabels
  <1>4. CASE VsReturns(c, "error")
    BY <1>1, <1>4, ErrorKeepsIInv
  <1> QED BY <1>3, <1>4 DEF CreatePublishCheck, VsCheck

\* The final check: a creation that reports success has its directory, with
\* the data, under the name.
LEMMA CreateFinalCheckKeepsIInv ==
  ASSUME VsIInv, NEW c \in VsClients, CreateFinalCheck(c)
  PROVE  VsIInv'
  <1>1. vsCl[c].pc = "finalCheck" /\ UNCHANGED <<vsName, vsNext, vsIno, vsData>>
    BY DEF CreateFinalCheck, VsAt
  <1>2. c \in Creators /\ c \notin Removers /\ vsCl[c].fd # 0 /\ vsCl[c].data # 0
    BY <1>1, Whose, CallHere DEF CreateLabels, CallOK, Resting
  <1>3. CASE ~ChainHolds(c)
    BY <1>1, <1>3, ErrorKeepsIInv DEF CreateFinalCheck
  <1>4. CASE ChainHolds(c)
    <2>1. VsReturns(c, "ok")
      BY <1>4 DEF CreateFinalCheck
    <2>2. vsCl' = [vsCl EXCEPT ![c] = VsRest] /\ vsLast' = <<"create", "ok">>
      <3>1. VsEnd(c, "ok") = "idle" /\ [VsRest EXCEPT !.pc = "idle"] = VsRest
        BY <1>2 DEF VsEnd, VsRest
      <3> QED BY <1>2, <2>1, <3>1 DEF VsReturns
    <2>3. /\ VsRest \in CallStates /\ VsRest.pc = "idle" /\ VsRest.fd = 0 /\ VsRest.data = 0
          /\ VsRest.list = {}
      BY DEF VsRest, CallStates, Resting
    <2>4. CallGrows(c, VsRest)
      BY <1>2 DEF CallGrows
    <2>5. LocalsOK(c, VsRest)
      BY <1>2, <2>3, VsNumbers DEF LocalsOK, Resting
    <2>6. LastSuccessIsTrue'
      <3>1. vsName = vsCl[c].fd /\ vsName # 0 /\ vsIno[vsName].data # 0
        BY <1>2, <1>4 DEF ChainHolds
      <3>2. vsIno[vsName].meta \/ Clearing
        BY <1>1, <3>1, CallHere DEF CallOK
      <3>3. VsQuiet' => Complete(vsName) \/ \E q \in Removers : vsCl'[q].pc = "failed"
        <4> SUFFICES ASSUME VsQuiet', ~Complete(vsName)
                     PROVE  \E q \in Removers : vsCl'[q].pc = "failed"
          OBVIOUS
        <4>1. PICK q \in Removers : vsCl[q].pc \in {"child", "unlink", "failed"}
          BY <3>1, <3>2 DEF Complete, Clearing
        <4>2. q \in VsClients /\ q # c
          BY <1>2 DEF VsClients
        <4>3. vsCl'[q] = vsCl[q]
          BY <2>2, <4>2, VsHere
        <4>4. vsCl'[q].pc \in Resting
          BY <4>2 DEF VsQuiet
        <4> QED BY <4>1, <4>3, <4>4 DEF Resting
      <3> QED BY <1>1, <2>2, <3>1, <3>3 DEF LastSuccessIsTrue, Complete
    <2>7. vsLast' \in {"none", "create", "remove"} \X {"ok", "error"}
      BY <2>2
    <2> QED BY <1>1, <1>2, <2>2, <2>3, <2>4, <2>5, <2>6, <2>7, LocalKeepsIInv
  <1> QED BY <1>3, <1>4

\* A step that changes what is in the named directory.
LEMMA WritesKeepsIInv ==
  ASSUME VsIInv, NEW c \in VsClients, NEW r \in CallStates, vsCl' = [vsCl EXCEPT ![c] = r],
         vsName # 0, NEW d \in DirStates, vsIno' = [vsIno EXCEPT ![vsName] = d],
         UNCHANGED <<vsName, vsNext, vsLast>>, vsData' \in {0} \cup VsInodes,
         r.pc \notin Resting, CallGrows(c, r), LocalsOK(c, r),
         vsIno[vsName].meta => d.meta \/ (c \in Removers /\ r.pc = "child"),
         r.pc = "finalCheck" => d.meta,
         c \in Removers /\ vsCl[c].pc \in {"child", "unlink", "failed"} =>
           r.pc \in {"child", "unlink", "failed"},
         vsData' =< Cardinality(Spent') + (IF d.data # 0 THEN 1 ELSE 0)
  PROVE  VsIInv'
  <1>1. vsCl'[c] = r /\ \A e \in VsClients \ {c} : vsCl'[e] = vsCl[e]
    BY VsHere
  <1>2. Removers \subseteq VsClients /\ vsName \in VsInodes
    BY VsHere DEF VsClients
  <1>3. /\ vsIno' \in [VsInodes -> DirStates] /\ vsIno'[vsName] = d
        /\ \A i \in VsInodes \ {vsName} : vsIno'[i] = vsIno[i]
    BY <1>2, VsHere
  <1>4. Clearing => Clearing'
    BY <1>1, <1>2 DEF Clearing
  <1>5. c \in Removers /\ r.pc = "child" => Clearing'
    BY <1>1 DEF Clearing
  <1>6. VsRely
    BY <1>3, <1>4, <1>5, VsNumbers DEF VsRely
  <1>7. UnlinkedIsEmpty'
    BY <1>3 DEF VsIInv, UnlinkedIsEmpty, IsEmpty
  <1>8. InodesCounted'
    <2>1. Cardinality(Over') \in Nat /\ Cardinality(Over) =< Cardinality(Over')
      BY SetsGrow
    <2>2. HasData' <=> d.data # 0
      BY <1>3 DEF HasData
    <2>3. InodesCounted
      BY DEF VsIInv
    <2>4. vsName' =< vsNext'
      BY <2>3 DEF InodesCounted
    <2>5. vsNext' =< Cardinality(Over') + (IF vsName' = 0 THEN 0 ELSE 1)
      BY <2>1, <2>3, VsNumbers DEF InodesCounted
    <2>6. vsData' =< Cardinality(Spent') + (IF HasData' THEN 1 ELSE 0)
      BY <2>2
    <2> QED BY <2>4, <2>5, <2>6 DEF InodesCounted
  <1>9. CallOK(c)'
    BY <1>1, <1>3 DEF CallOK, LocalsOK
  <1>10. LastSuccessIsTrue'
    BY UnderWay
  <1> QED BY <1>3, <1>6, <1>7, <1>8, <1>9, <1>10, VsHere, VsKeepsIInv

\* mkdirat, of a number that was never used.
LEMMA CreateMkdirKeepsIInv ==
  ASSUME VsIInv, NEW c \in VsClients, CreateMkdir(c)
  PROVE  VsIInv'
  <1>1. /\ vsCl[c].pc = "idle" /\ UNCHANGED <<vsData, vsLast>> /\ VsGoes(c, "open")
        /\ c \in Creators /\ c \notin Removers
    BY Whose DEF CreateMkdir, VsAt
  <1>2. CASE vsName # 0
    <2>1. UNCHANGED <<vsName, vsNext, vsIno>>
      BY <1>2 DEF CreateMkdir
    <2> QED BY <1>1, <2>1, GoesKeepsIInv DEF CreateLabels
  <1>3. CASE vsName = 0
    <2> DEFINE r == [vsCl[c] EXCEPT !.pc = "open"]
    <2>1. r \in CallStates
      BY CallHere DEF CallStates
    <2>2. r.pc = "open" /\ r.fd = vsCl[c].fd /\ vsCl' = [vsCl EXCEPT ![c] = r]
      BY <1>1, CallHere DEF VsGoes, CallStates
    <2> HIDE DEF r
    <2>3. InodesCounted /\ UnlinkedIsEmpty
      BY DEF VsIInv
    <2>4. vsNext =< Cardinality(Over) /\ vsNext =< Cardinality(Removers)
      BY <1>3, <2>3, VsNumbers, InodeNumbers DEF InodesCounted
    <2>5. PICK n \in VsInodes : n = vsNext + 1
      BY <2>4, VsNumbers, InodeNumbers
    <2>6. n \in Nat /\ n # 0 /\ vsNext < n
      BY <2>5, VsNumbers, InodesAreNumbers
    <2>7. vsNext' = n /\ vsName' = n /\ vsIno' = [vsIno EXCEPT ![n] = EmptyDir]
      BY <1>3, <2>5 DEF CreateMkdir
    <2>8. EmptyDir \in DirStates
      BY DEF EmptyDir, DirStates
    <2>9. /\ vsIno' \in [VsInodes -> DirStates] /\ vsIno'[n] = EmptyDir
          /\ \A i \in VsInodes \ {n} : vsIno'[i] = vsIno[i]
      BY <2>7, <2>8, VsHere
    <2>10. vsCl'[c] = r /\ \A e \in VsClients \ {c} : vsCl'[e] = vsCl[e]
      BY <2>2, VsHere
    <2>11. Clearing => Clearing'
      BY <1>1, <2>10 DEF Clearing, VsClients
    <2>12. VsRely
      BY <1>3, <2>6, <2>7, <2>11, VsNumbers DEF VsRely
    <2>13. UnlinkedIsEmpty'
      BY <1>3, <2>3, <2>7, <2>9, InodesAreNumbers DEF UnlinkedIsEmpty, IsEmpty
    <2>14. CallGrows(c, r)
      BY <1>1 DEF CallGrows
    <2>15. InodesCounted'
      <3>1. /\ Cardinality(Over') \in Nat /\ Cardinality(Spent') \in Nat
            /\ Cardinality(Over) =< Cardinality(Over')
            /\ Cardinality(Spent) =< Cardinality(Spent')
        BY <2>1, <2>2, <2>14, SetsGrow
      <3>2. ~HasData /\ ~HasData'
        BY <1>3, <2>7, <2>9 DEF HasData, EmptyDir
      <3>3. vsData' =< Cardinality(Spent')
        BY <1>1, <2>3, <3>1, <3>2, VsNumbers DEF InodesCounted
      <3>4. n =< Cardinality(Over') + 1
        BY <2>4, <2>5, <3>1, VsNumbers
      <3>5. vsData' =< Cardinality(Spent') + (IF HasData' THEN 1 ELSE 0)
        BY <3>1, <3>2, <3>3
      <3>6. /\ vsName' =< vsNext'
            /\ vsNext' =< Cardinality(Over') + (IF vsName' = 0 THEN 0 ELSE 1)
        BY <2>6, <2>7, <3>4
      <3> QED BY <3>5, <3>6 DEF InodesCounted
    <2>16. CallOK(c)'
      <3>1. vsCl[c].fd =< vsNext'
        BY <2>6, <2>7, CallHere, VsNumbers DEF CallOK
      <3> QED BY <1>1, <2>2, <2>10, <3>1 DEF CallOK, CreateLabels
    <2>17. LastSuccessIsTrue'
      BY <2>1, <2>2, UnderWay DEF Resting
    <2> QED BY <1>1, <2>1, <2>2, <2>7, <2>9, <2>12, <2>13, <2>15, <2>16, <2>17, VsHere, VsKeepsIInv
  <1> QED BY <1>2, <1>3

\* _data is reused, or made in a directory that has the name.
LEMMA CreateDataKeepsIInv ==
  ASSUME VsIInv, NEW c \in VsClients, CreateData(c)
  PROVE  VsIInv'
  <1>1. vsCl[c].pc = "data" /\ UNCHANGED <<vsName, vsNext>>
    BY DEF CreateData, VsAt
  <1>2. c \in Creators /\ c \notin Removers /\ vsCl[c].fd # 0
    BY <1>1, Whose, CallHere DEF CreateLabels, CallOK, Resting
  <1>3. PICK i \in VsInodes : i = vsCl[c].fd
    BY <1>2, CallHere
  <1>4. vsIno[i] \in DirStates /\ vsIno[i].data \in {0} \cup VsInodes
    BY VsHere DEF DirStates
  <1>5. CASE /\ vsIno[i].data # 0 /\ UNCHANGED <<vsIno, vsData, vsLast>>
             /\ vsCl' = [vsCl EXCEPT ![c].pc = "publishCheck", ![c].data = vsIno[i].data]
    <2> DEFINE r == [vsCl[c] EXCEPT !.pc = "publishCheck", !.data = vsIno[i].data]
    <2>1. r \in CallStates
      BY <1>4, CallHere DEF CallStates
    <2>2. /\ r.pc = "publishCheck" /\ r.fd = vsCl[c].fd /\ r.data = vsIno[i].data
          /\ vsCl' = [vsCl EXCEPT ![c] = r]
      BY <1>5, CallHere DEF CallStates
    <2> HIDE DEF r
    <2>3. LocalsOK(c, r)
      BY <1>2, <1>5, <2>2, CallHere DEF LocalsOK, CallOK, CreateLabels
    <2> QED BY <1>1, <1>5, <2>1, <2>2, <2>3, PinsKeepsIInv DEF CreateLabels
  <1>6. CASE /\ vsIno[i].data = 0 /\ vsName = i /\ UNCHANGED vsLast
             /\ vsData' = vsData + 1 /\ vsIno' = [vsIno EXCEPT ![i].data = vsData + 1]
             /\ vsCl' = [vsCl EXCEPT ![c].pc = "publishCheck", ![c].data = vsData + 1]
    <2>1. vsData =< Cardinality(Spent)
      BY <1>6, VsNumbers DEF VsIInv, InodesCounted, HasData
    <2>2. PICK n \in VsInodes : n = vsData + 1
      BY <2>1, VsNumbers, InodeNumbers
    <2>3. n # 0
      BY InodesAreNumbers
    <2> DEFINE r == [vsCl[c] EXCEPT !.pc = "publishCheck", !.data = n]
               d == [vsIno[i] EXCEPT !.data = n]
    <2>4. r \in CallStates /\ d \in DirStates
      BY <1>4, CallHere, ZenonT(60) DEF CallStates, DirStates
    <2>5. /\ r.pc = "publishCheck" /\ r.fd = vsCl[c].fd /\ r.data = n
          /\ vsCl' = [vsCl EXCEPT ![c] = r]
      BY <1>6, <2>2, CallHere DEF CallStates
    <2>6. d.meta = vsIno[i].meta /\ d.data = n /\ vsIno' = [vsIno EXCEPT ![i] = d]
      BY <1>4, <1>6, <2>2, VsHere DEF DirStates
    <2> HIDE DEF r, d
    <2>7. LocalsOK(c, r)
      BY <1>2, <2>3, <2>5, CallHere DEF LocalsOK, CallOK, CreateLabels
    <2>8. CallGrows(c, r)
      BY <1>2 DEF CallGrows
    <2>9. Cardinality(Spent') \in Nat /\ Cardinality(Spent) =< Cardinality(Spent')
      BY <2>4, <2>5, <2>8, SetsGrow
    <2>10. vsData' =< Cardinality(Spent') + (IF d.data # 0 THEN 1 ELSE 0)
      BY <1>6, <2>1, <2>3, <2>6, <2>9, VsNumbers
    <2>11. vsData' \in {0} \cup VsInodes /\ r.pc \notin Resting /\ vsName # 0
      BY <1>2, <1>3, <1>6, <2>2, <2>5 DEF Resting
    <2> QED BY <1>1, <1>2, <1>6, <2>4, <2>5, <2>6, <2>7, <2>8, <2>10, <2>11, WritesKeepsIInv
  <1>7. CASE VsReturns(c, "error") /\ UNCHANGED <<vsIno, vsData>>
    BY <1>1, <1>7, ErrorKeepsIInv
  <1> QED BY <1>3, <1>5, <1>6, <1>7 DEF CreateData

\* The temporary file is made in the named directory, or not at all.
LEMMA CreateTempKeepsIInv ==
  ASSUME VsIInv, NEW c \in VsClients, CreateTemp(c)
  PROVE  VsIInv'
  <1>1. vsCl[c].pc = "temp" /\ UNCHANGED <<vsName, vsNext, vsData>>
    BY DEF CreateTemp, VsAt
  <1>2. c \in Creators /\ c \notin Removers /\ vsCl[c].fd # 0 /\ vsCl[c].data # 0
    BY <1>1, Whose, CallHere DEF CreateLabels, CallOK, Resting
  <1>3. CASE vsName # vsCl[c].fd
    BY <1>1, <1>3, ErrorKeepsIInv DEF CreateTemp, VsCheck
  <1>4. CASE vsName = vsCl[c].fd
    <2>1. /\ vsIno' = [vsIno EXCEPT ![vsName].tmp = @ \cup {c}] /\ VsGoes(c, "rename")
          /\ UNCHANGED vsLast /\ vsName \in VsInodes /\ vsIno[vsName] \in DirStates
      BY <1>2, <1>4, CallHere DEF CreateTemp, VsCheck
    <2> DEFINE r == [vsCl[c] EXCEPT !.pc = "rename"]
               d == [vsIno[vsName] EXCEPT !.tmp = @ \cup {c}]
    <2>2. r \in CallStates /\ d \in DirStates
      BY <1>2, <2>1, CallHere DEF CallStates, DirStates
    <2>3. /\ r.pc = "rename" /\ r.fd = vsCl[c].fd /\ r.data = vsCl[c].data
          /\ vsCl' = [vsCl EXCEPT ![c] = r]
      BY <2>1, CallHere DEF VsGoes, CallStates
    <2>4. /\ d.meta = vsIno[vsName].meta /\ d.data = vsIno[vsName].data
          /\ vsIno' = [vsIno EXCEPT ![vsName] = d]
      BY <2>1, VsHere DEF DirStates
    <2> HIDE DEF r, d
    <2>5. LocalsOK(c, r)
      BY <1>2, <2>3, CallHere DEF LocalsOK, CallOK, CreateLabels
    <2>6. CallGrows(c, r)
      BY <1>2 DEF CallGrows
    <2>7. Cardinality(Spent') \in Nat /\ Cardinality(Spent) =< Cardinality(Spent')
      BY <2>2, <2>3, <2>6, SetsGrow
    <2>8. HasData <=> d.data # 0
      BY <1>2, <1>4, <2>4 DEF HasData
    <2>9. vsData' =< Cardinality(Spent') + (IF d.data # 0 THEN 1 ELSE 0)
      BY <1>1, <2>7, <2>8, VsNumbers DEF VsIInv, InodesCounted
    <2>10. /\ r.pc \notin Resting /\ r.pc # "finalCheck" /\ vsName # 0
           /\ vsData' \in {0} \cup VsInodes /\ (vsIno[vsName].meta => d.meta)
      BY <1>1, <1>2, <1>4, <2>3, <2>4, VsHere DEF Resting
    <2> QED BY <1>1, <1>2, <2>1, <2>2, <2>3, <2>4, <2>5, <2>6, <2>9, <2>10, WritesKeepsIInv
  <1> QED BY <1>3, <1>4

\* rename over volume.json; a directory without the name holds no such file.
LEMMA CreateRenameKeepsIInv ==
  ASSUME VsIInv, NEW c \in VsClients, CreateRename(c)
  PROVE  VsIInv'
  <1>1. vsCl[c].pc = "rename" /\ UNCHANGED <<vsName, vsNext, vsData>>
    BY DEF CreateRename, VsAt
  <1>2. c \in Creators /\ c \notin Removers /\ vsCl[c].fd # 0 /\ vsCl[c].data # 0
    BY <1>1, Whose, CallHere DEF CreateLabels, CallOK, Resting
  <1>3. CASE c \notin vsIno[vsCl[c].fd].tmp
    BY <1>1, <1>3, ErrorKeepsIInv DEF CreateRename, VsCheck
  <1>4. CASE c \in vsIno[vsCl[c].fd].tmp
    <2>1. vsName = vsCl[c].fd
      BY <1>2, <1>4, CallHere DEF VsIInv, UnlinkedIsEmpty, IsEmpty, EmptyDir
    <2>2. /\ vsIno' = [vsIno EXCEPT ![vsName].meta = TRUE, ![vsName].tmp = @ \ {c}]
          /\ VsGoes(c, "finalCheck")
          /\ UNCHANGED vsLast /\ vsName \in VsInodes /\ vsIno[vsName] \in DirStates
      BY <1>2, <1>4, <2>1, CallHere DEF CreateRename, VsCheck
    <2> DEFINE r == [vsCl[c] EXCEPT !.pc = "finalCheck"]
               d == [vsIno[vsName] EXCEPT !.meta = TRUE, !.tmp = @ \ {c}]
    <2>3. r \in CallStates /\ d \in DirStates
      BY <1>2, <2>2, CallHere, ZenonT(60) DEF CallStates, DirStates
    <2>4. /\ r.pc = "finalCheck" /\ r.fd = vsCl[c].fd /\ r.data = vsCl[c].data
          /\ vsCl' = [vsCl EXCEPT ![c] = r]
      BY <2>2, CallHere DEF VsGoes, CallStates
    <2>5. /\ d.meta /\ d.data = vsIno[vsName].data /\ vsIno' = [vsIno EXCEPT ![vsName] = d]
      BY <2>2, VsHere DEF DirStates
    <2> HIDE DEF r, d
    <2>6. LocalsOK(c, r)
      BY <1>2, <2>4, CallHere DEF LocalsOK, CallOK, CreateLabels
    <2>7. CallGrows(c, r)
      BY <1>2 DEF CallGrows
    <2>8. Cardinality(Spent') \in Nat /\ Cardinality(Spent) =< Cardinality(Spent')
      BY <2>3, <2>4, <2>7, SetsGrow
    <2>9. HasData <=> d.data # 0
      BY <1>2, <2>1, <2>5 DEF HasData
    <2>10. vsData' =< Cardinality(Spent') + (IF d.data # 0 THEN 1 ELSE 0)
      BY <1>1, <2>8, <2>9, VsNumbers DEF VsIInv, InodesCounted
    <2>11. r.pc \notin Resting
      BY <2>4 DEF Resting
    <2> QED BY <1>1, <1>2, <2>1, <2>2, <2>3, <2>4, <2>5, <2>6, <2>7, <2>10, <2>11, VsHere,
               WritesKeepsIInv
  <1> QED BY <1>3, <1>4

-----------------------------------------------------------------------------
(* RemoveVolume                                                            *)

\* readVolume by path.
LEMMA RemoveReadKeepsIInv ==
  ASSUME VsIInv, NEW c \in VsClients, RemoveRead(c)
  PROVE  VsIInv'
  <1>1. /\ vsCl[c].pc = "idle" /\ UNCHANGED <<vsName, vsNext, vsIno, vsData>>
        /\ c \in Removers /\ c \notin Creators
    BY Whose DEF RemoveRead, VsAt
  <1>2. CASE VsGoes(c, "pin") /\ UNCHANGED vsLast
    BY <1>1, <1>2, GoesKeepsIInv DEF RemoveLabels
  <1>3. CASE VsReturns(c, "error")
    BY <1>1, <1>3, ErrorKeepsIInv
  <1> QED BY <1>2, <1>3 DEF RemoveRead, VsCheck

\* The directory that has the name now is pinned.
LEMMA RemovePinKeepsIInv ==
  ASSUME VsIInv, NEW c \in VsClients, RemovePin(c)
  PROVE  VsIInv'
  <1>1. vsCl[c].pc = "pin" /\ UNCHANGED <<vsName, vsNext, vsIno, vsData>>
    BY DEF RemovePin, VsAt
  <1>2. c \in Removers /\ c \notin Creators
    BY <1>1, Whose DEF RemoveLabels
  <1>3. CASE vsName # 0
    <2> DEFINE r == [vsCl[c] EXCEPT !.pc = "validate", !.fd = vsName]
    <2>1. r \in CallStates
      BY CallHere, VsHere DEF CallStates
    <2>2. /\ r.pc = "validate" /\ r.fd = vsName /\ UNCHANGED vsLast
          /\ vsCl' = [vsCl EXCEPT ![c] = r]
      BY <1>3, CallHere DEF RemovePin, CallStates
    <2> HIDE DEF r
    <2>3. LocalsOK(c, r)
      BY <1>2, <1>3, <2>2 DEF VsIInv, InodesCounted, LocalsOK, RemoveLabels
    <2> QED BY <1>1, <2>1, <2>2, <2>3, PinsKeepsIInv DEF RemoveLabels
  <1>4. CASE vsName = 0
    BY <1>1, <1>4, ErrorKeepsIInv DEF RemovePin
  <1> QED BY <1>3, <1>4

\* The pinned directory must be a complete volume.
LEMMA RemoveValidateKeepsIInv ==
  ASSUME VsIInv, NEW c \in VsClients, RemoveValidate(c)
  PROVE  VsIInv'
  <1>1. vsCl[c].pc = "validate" /\ UNCHANGED <<vsName, vsNext, vsIno, vsData>>
    BY DEF RemoveValidate, VsAt
  <1>2. c \in Removers /\ c \notin Creators /\ vsCl[c].fd # 0
    BY <1>1, Whose, CallHere DEF RemoveLabels, CallOK, Resting
  <1>3. CASE VsGoes(c, "list") /\ UNCHANGED vsLast
    BY <1>1, <1>2, <1>3, GoesKeepsIInv DEF RemoveLabels
  <1>4. CASE VsReturns(c, "error")
    BY <1>1, <1>4, ErrorKeepsIInv
  <1> QED BY <1>3, <1>4 DEF RemoveValidate, VsCheck

\* The entries are enumerated.
LEMMA RemoveListKeepsIInv ==
  ASSUME VsIInv, NEW c \in VsClients, RemoveList(c)
  PROVE  VsIInv'
  <1>1. vsCl[c].pc = "list" /\ UNCHANGED <<vsName, vsNext, vsIno, vsData, vsLast>>
    BY DEF RemoveList, VsAt
  <1>2. c \in Removers /\ c \notin Creators /\ vsCl[c].fd # 0
    BY <1>1, Whose, CallHere DEF RemoveLabels, CallOK, Resting
  <1>3. PICK es \in SUBSET ({"meta", "data"} \cup Creators) :
          vsCl' = [vsCl EXCEPT ![c].pc = "child", ![c].list = es]
    <2>1. vsIno[vsCl[c].fd].tmp \subseteq Creators
      BY <1>2, CallHere DEF DirStates
    <2> QED BY <2>1 DEF RemoveList
  <1> DEFINE r == [vsCl[c] EXCEPT !.pc = "child", !.list = es]
  <1>4. r \in CallStates
    BY CallHere DEF CallStates
  <1>5. r.pc = "child" /\ r.fd = vsCl[c].fd /\ vsCl' = [vsCl EXCEPT ![c] = r]
    BY <1>3, CallHere DEF CallStates
  <1> HIDE DEF r
  <1>6. LocalsOK(c, r)
    BY <1>2, <1>5, CallHere DEF LocalsOK, CallOK, RemoveLabels
  <1> QED BY <1>1, <1>4, <1>5, <1>6, PinsKeepsIInv DEF RemoveLabels

\* The name must still lead to the directory that was emptied.
LEMMA RemoveRecheckKeepsIInv ==
  ASSUME VsIInv, NEW c \in VsClients, RemoveRecheck(c)
  PROVE  VsIInv'
  <1>1. vsCl[c].pc = "child" /\ UNCHANGED <<vsName, vsNext, vsIno, vsData>>
    BY DEF RemoveRecheck, VsAt
  <1>2. c \in Removers /\ c \notin Creators /\ vsCl[c].fd # 0
    BY <1>1, Whose, CallHere DEF RemoveLabels, CallOK, Resting
  <1>3. CASE VsGoes(c, "unlink") /\ UNCHANGED vsLast
    BY <1>1, <1>2, <1>3, GoesKeepsIInv DEF RemoveLabels
  <1>4. CASE VsReturns(c, "error")
    BY <1>1, <1>4, ErrorKeepsIInv
  <1> QED BY <1>3, <1>4 DEF RemoveRecheck, VsCheck

\* One entry is deleted, or the removal fails because it has gone.  The data
\* directory goes when the removal is spent.
LEMMA RemoveChildKeepsIInv ==
  ASSUME VsIInv, NEW c \in VsClients, RemoveChild(c)
  PROVE  VsIInv'
  <1>1. vsCl[c].pc = "child" /\ UNCHANGED <<vsName, vsNext, vsData>>
    BY DEF RemoveChild, VsAt
  <1>2. c \in Removers /\ c \notin Creators /\ vsCl[c].fd # 0
    BY <1>1, Whose, CallHere DEF RemoveLabels, CallOK, Resting
  <1>3. PICK i \in VsInodes : i = vsCl[c].fd
    BY <1>2, CallHere
  <1>4. vsIno[i] \in DirStates
    BY VsHere
  <1>5. CASE VsReturns(c, "error") /\ UNCHANGED vsIno
    BY <1>1, <1>5, ErrorKeepsIInv
  <1>6. ASSUME NEW e \in vsCl[c].list, NEW d \in DirStates, d # vsIno[i],
               d.data = vsIno[i].data \/ (e = "data" /\ d.data = 0),
               vsIno[i] # EmptyDir, UNCHANGED vsLast,
               vsIno' = [vsIno EXCEPT ![i] = d], vsCl' = [vsCl EXCEPT ![c].list = @ \ {e}]
        PROVE  VsIInv'
    <2>1. vsName = i
      BY <1>6 DEF VsIInv, UnlinkedIsEmpty, IsEmpty
    <2> DEFINE r == [vsCl[c] EXCEPT !.list = @ \ {e}]
    <2>2. r \in CallStates
      BY CallHere DEF CallStates
    <2>3. /\ r.pc = "child" /\ r.fd = vsCl[c].fd /\ r.list = vsCl[c].list \ {e}
          /\ vsCl' = [vsCl EXCEPT ![c] = r]
      BY <1>1, <1>6, CallHere DEF CallStates
    <2> HIDE DEF r
    <2>4. LocalsOK(c, r)
      BY <1>2, <2>3, CallHere DEF LocalsOK, CallOK, RemoveLabels
    <2>5. CallGrows(c, r)
      BY <1>1, <2>3 DEF CallGrows
    <2>6. /\ Cardinality(Spent') \in Nat /\ Cardinality(Spent) =< Cardinality(Spent')
          /\ \A q \in Spent' \ Spent : Cardinality(Spent) + 1 =< Cardinality(Spent')
      BY <2>2, <2>3, <2>5, SetsGrow
    <2>7. vsData' =< Cardinality(Spent') + (IF d.data # 0 THEN 1 ELSE 0)
      <3>1. vsData =< Cardinality(Spent) + (IF vsIno[i].data # 0 THEN 1 ELSE 0)
        BY <1>2, <1>3, <2>1 DEF VsIInv, InodesCounted, HasData
      <3>2. CASE d.data = vsIno[i].data
        BY <1>1, <2>6, <3>1, <3>2, VsNumbers
      <3>3. CASE e = "data" /\ d.data = 0
        <4>1. c \in Spent' \ Spent
          <5>1. vsCl'[c] = r
            BY <2>3, VsHere
          <5> QED BY <1>1, <1>2, <1>6, <2>3, <3>3, <5>1 DEF Spent
        <4>2. Cardinality(Spent) + 1 =< Cardinality(Spent')
          BY <2>6, <4>1
        <4> QED BY <1>1, <2>6, <3>1, <3>3, <4>2, VsNumbers
      <3> QED BY <1>6, <3>2, <3>3
    <2>8. r.pc \notin Resting /\ vsName # 0 /\ vsData' \in {0} \cup VsInodes
      BY <1>1, <1>2, <1>3, <2>1, <2>3, VsHere DEF Resting
    <2> QED BY <1>1, <1>2, <1>6, <2>1, <2>2, <2>3, <2>4, <2>5, <2>7, <2>8, WritesKeepsIInv
  <1>7. PICK e \in vsCl[c].list :
          LET d == vsIno[i]
              there == IF e = "meta" THEN d.meta ELSE IF e = "data" THEN d.data # 0 ELSE e \in d.tmp
          IN IF there
             THEN /\ vsIno' = [vsIno EXCEPT ![i] =
                       IF e = "meta" THEN [d EXCEPT !.meta = FALSE]
                       ELSE IF e = "data" THEN [d EXCEPT !.data = 0]
                       ELSE [d EXCEPT !.tmp = @ \ {e}]]
                  /\ vsCl' = [vsCl EXCEPT ![c].list = @ \ {e}] /\ UNCHANGED vsLast
             ELSE VsReturns(c, "error") /\ UNCHANGED vsIno
    BY <1>3 DEF RemoveChild
  <1>8. CASE e = "meta" /\ vsIno[i].meta
    <2> DEFINE d == [vsIno[i] EXCEPT !.meta = FALSE]
    <2>1. d \in DirStates
      BY <1>4 DEF DirStates
    <2>2. ~d.meta /\ d.data = vsIno[i].data /\ vsIno[i] # EmptyDir
      BY <1>4, <1>8 DEF DirStates, EmptyDir
    <2>3. vsIno' = [vsIno EXCEPT ![i] = d] /\ vsCl' = [vsCl EXCEPT ![c].list = @ \ {e}]
          /\ UNCHANGED vsLast
      BY <1>7, <1>8
    <2> HIDE DEF d
    <2>4. d # vsIno[i]
      BY <1>8, <2>2
    <2> QED BY <1>6, <2>1, <2>2, <2>3, <2>4
  <1>9. CASE e = "data" /\ vsIno[i].data # 0
    <2> DEFINE d == [vsIno[i] EXCEPT !.data = 0]
    <2>1. d \in DirStates
      BY <1>4 DEF DirStates
    <2>2. d.data = 0 /\ vsIno[i] # EmptyDir
      BY <1>4, <1>9 DEF DirStates, EmptyDir
    <2>3. vsIno' = [vsIno EXCEPT ![i] = d] /\ vsCl' = [vsCl EXCEPT ![c].list = @ \ {e}]
          /\ UNCHANGED vsLast
      BY <1>7, <1>9
    <2> HIDE DEF d
    <2>4. d # vsIno[i]
      BY <1>9, <2>2
    <2> QED BY <1>6, <1>9, <2>1, <2>2, <2>3, <2>4
  <1>10. CASE e \notin {"meta", "data"} /\ e \in vsIno[i].tmp
    <2> DEFINE d == [vsIno[i] EXCEPT !.tmp = @ \ {e}]
    <2>1. d \in DirStates
      BY <1>4 DEF DirStates
    <2>2. /\ d.data = vsIno[i].data /\ vsIno[i] # EmptyDir /\ e \notin d.tmp
      BY <1>4, <1>10 DEF DirStates, EmptyDir
    <2>3. vsIno' = [vsIno EXCEPT ![i] = d] /\ vsCl' = [vsCl EXCEPT ![c].list = @ \ {e}]
          /\ UNCHANGED vsLast
      BY <1>7, <1>10
    <2> HIDE DEF d
    <2>4. d # vsIno[i]
      BY <1>10, <2>2
    <2> QED BY <1>6, <2>1, <2>2, <2>3, <2>4
  <1>11. CASE ~(IF e = "meta" THEN vsIno[i].meta
                ELSE IF e = "data" THEN vsIno[i].data # 0 ELSE e \in vsIno[i].tmp)
    BY <1>5, <1>7, <1>11
  <1> QED BY <1>8, <1>9, <1>10, <1>11

\* rmdir by name of an empty directory: the name is free, and the removal over.
LEMMA RemoveUnlinkKeepsIInv ==
  ASSUME VsIInv, NEW c \in VsClients, RemoveUnlink(c)
  PROVE  VsIInv'
  <1>1. vsCl[c].pc = "unlink" /\ UNCHANGED <<vsNext, vsIno, vsData>>
    BY DEF RemoveUnlink, VsAt
  <1>2. c \in Removers /\ c \notin Creators
    BY <1>1, Whose DEF RemoveLabels
  <1>3. CASE ~(vsName # 0 /\ IsEmpty(vsName))
    BY <1>1, <1>3, ErrorKeepsIInv DEF RemoveUnlink
  <1>4. CASE vsName # 0 /\ IsEmpty(vsName)
    <2>1. vsName' = 0 /\ VsReturns(c, "ok")
      BY <1>4 DEF RemoveUnlink
    <2> DEFINE r == [VsRest EXCEPT !.pc = "done"]
    <2>2. /\ r \in CallStates /\ r.pc = "done" /\ r.fd = 0 /\ r.data = 0
      BY DEF VsRest, CallStates, Resting
    <2>3. VsEnd(c, "ok") = "done"
      BY <1>2 DEF VsEnd
    <2>4. vsCl' = [vsCl EXCEPT ![c] = r] /\ vsLast' = <<"remove", "ok">>
      BY <1>2, <2>1, <2>3 DEF VsReturns
    <2> HIDE DEF r
    <2>5. CallGrows(c, r)
      BY <1>1, <2>2 DEF CallGrows
    <2>6. /\ Cardinality(Over') \in Nat /\ Cardinality(Spent') \in Nat
          /\ Cardinality(Spent) =< Cardinality(Spent')
          /\ \A q \in Over' \ Over : Cardinality(Over) + 1 =< Cardinality(Over')
      BY <2>2, <2>4, <2>5, SetsGrow
    <2>7. c \in Over' \ Over
      <3>1. vsCl'[c] = r
        BY <2>4, VsHere
      <3> QED BY <1>1, <1>2, <2>2, <3>1 DEF Over
    <2>8. InodesCounted
      BY DEF VsIInv
    <2>9. vsNext' =< Cardinality(Over') /\ vsName' =< vsNext'
      BY <1>1, <1>4, <2>1, <2>6, <2>7, <2>8, VsNumbers DEF InodesCounted
    <2>10. ~HasData /\ ~HasData'
      BY <1>4, <2>1 DEF HasData, IsEmpty, EmptyDir
    <2>11. vsData' =< Cardinality(Spent')
      BY <1>1, <2>6, <2>8, <2>10, VsNumbers DEF InodesCounted
    <2>12. InodesCounted'
      <3>1. vsNext' =< Cardinality(Over') + (IF vsName' = 0 THEN 0 ELSE 1)
        BY <2>1, <2>6, <2>9
      <3>2. vsData' =< Cardinality(Spent') + (IF HasData' THEN 1 ELSE 0)
        BY <2>6, <2>10, <2>11
      <3> QED BY <2>9, <3>1, <3>2 DEF InodesCounted
    <2>13. UnlinkedIsEmpty'
      BY <1>1, <1>4 DEF VsIInv, UnlinkedIsEmpty, IsEmpty
    <2>14. VsRely
      BY <1>1, <1>4, <2>1, VsNumbers DEF VsRely
    <2>15. CallOK(c)'
      <3>1. vsCl'[c] = r
        BY <2>4, VsHere
      <3>2. 0 =< vsNext'
        BY <1>1, VsNumbers
      <3> QED BY <1>2, <2>2, <3>1, <3>2 DEF CallOK, Resting
    <2>16. LastSuccessIsTrue' /\ vsLast' \in {"none", "create", "remove"} \X {"ok", "error"}
      BY <2>1, <2>4 DEF LastSuccessIsTrue
    <2> QED BY <1>1, <2>1, <2>2, <2>4, <2>12, <2>13, <2>14, <2>15, <2>16, VsHere, VsKeepsIInv
  <1> QED BY <1>3, <1>4

\* A process is killed in the middle of its call.
LEMMA VsCrashKeepsIInv ==
  ASSUME VsIInv, NEW c \in VsClients, VsCrash(c)
  PROVE  VsIInv'
  BY ErrorKeepsIInv DEF VsCrash, Resting

-----------------------------------------------------------------------------
(* Volumes: the theorems                                                   *)

\* No volume, and nobody has called.
LEMMA VsInitOK ==
  ASSUME VsInit
  PROVE  VsIInv
  <1>1. VsRest \in CallStates /\ EmptyDir \in DirStates
    BY DEF VsRest, EmptyDir, CallStates, DirStates, Resting
  <1>2. VsTypeOK
    <2>1. vsIno \in [VsInodes -> DirStates] /\ vsCl \in [VsClients -> CallStates]
      BY <1>1 DEF VsInit
    <2>2. vsLast \in {"none", "create", "remove"} \X {"ok", "error"}
      BY DEF VsInit
    <2> QED BY <2>1, <2>2 DEF VsInit, VsTypeOK, DirStates, CallStates
  <1>3. UnlinkedIsEmpty
    BY DEF VsInit, UnlinkedIsEmpty, IsEmpty
  <1>4. InodesCounted
    <2>1. Over \in SUBSET Removers /\ Spent \in SUBSET Removers
      BY DEF Over, Spent
    <2>2. Cardinality(Over) \in Nat /\ Cardinality(Spent) \in Nat
      BY <2>1, RemoverSets
    <2>3. ~HasData
      BY DEF VsInit, HasData
    <2> QED BY <2>2, <2>3 DEF VsInit, InodesCounted
  <1>5. LastSuccessIsTrue
    BY DEF VsInit, LastSuccessIsTrue
  <1>6. \A c \in VsClients : vsCl[c].pc = "idle" /\ vsCl[c].fd = 0
    BY DEF VsInit, VsRest
  <1>7. \A c \in VsClients : CallOK(c)
    BY <1>6 DEF VsInit, CallOK, Resting
  <1> QED BY <1>2, <1>3, <1>4, <1>5, <1>7 DEF VsIInv

\* Every step of every call keeps the invariant.
LEMMA VsNextKeepsIInv ==
  ASSUME VsIInv, [VsNext]_vsVars
  PROVE  VsIInv'
  <1>1. CASE UNCHANGED vsVars
    BY <1>1 DEF vsVars, VsIInv, VsTypeOK, UnlinkedIsEmpty, IsEmpty, InodesCounted, HasData, Over,
                Spent, LastSuccessIsTrue, VsQuiet, Complete, CallOK, Clearing
  <1>2. ASSUME NEW c \in VsClients, CreateStep(c)
        PROVE  VsIInv'
    BY <1>2, CreateMkdirKeepsIInv, CreateOpenKeepsIInv, CreateChainKeepsIInv, CreateDataKeepsIInv,
       CreatePublishCheckKeepsIInv, CreateTempKeepsIInv, CreateRenameKeepsIInv,
       CreateFinalCheckKeepsIInv DEF CreateStep
  <1>3. ASSUME NEW c \in VsClients, RemoveStep(c)
        PROVE  VsIInv'
    BY <1>3, RemoveReadKeepsIInv, RemovePinKeepsIInv, RemoveValidateKeepsIInv,
       RemoveListKeepsIInv, RemoveChildKeepsIInv, RemoveRecheckKeepsIInv, RemoveUnlinkKeepsIInv
       DEF RemoveStep
  <1>4. ASSUME NEW c \in VsClients, VsCrash(c)
        PROVE  VsIInv'
    BY <1>4, VsCrashKeepsIInv
  <1> QED BY <1>1, <1>2, <1>3, <1>4 DEF VsNext

\* VsIInv holds whatever creations and removals do to one volume, for any
\* number of them.
THEOREM VsInductive == VsSpec => []VsIInv
  <1>1. VsInit => VsIInv
    BY VsInitOK
  <1>2. VsIInv /\ [VsNext]_vsVars => VsIInv'
    BY VsNextKeepsIInv
  <1> QED BY <1>1, <1>2, PTL DEF VsSpec

\* VolumeIsAsReported of VolumeStore: when no call is under way and the last one
\* to return reported success, the name is free after a removal and leads to
\* the data after a creation.
THEOREM VolumesAreAsReported == VsSpec => []VolumeIsAsReported
  <1>1. VsIInv => VolumeIsAsReported
    BY DEF VsIInv, VolumeIsAsReported
  <1> QED BY <1>1, VsInductive, PTL

-----------------------------------------------------------------------------
(* The processes of a container: the inductive invariant                   *)

ExecUnborn == {"none", "policy", "attach", "open", "captureRoot", "captureNs", "recheck",
               "enter", "aliveCheck", "start"}
Entered == {"enter", "aliveCheck", "start", "proof", "observe", "killGroup", "reap"}

CgRec == [token: {"none", "reserved", "applied", "cleared"}, dir: BOOLEAN, helper: BOOLEAN]

CpTyped == CpTypeOK /\ cpFaults \in [calls: Nat, appends: Nat, kills: Nat]

\* With the init every process of its namespace ends, and before its PID is
\* free they are reaped; only then is the record stopped, and only then is the
\* cgroup's token taken back.
NamespaceOK ==
  /\ ~InitLives => \A m \in Members : ~Alive(m)
  /\ cpPid # "init" => ~InitLives
  /\ cpRec = "stopped" => cpPid # "init"
  /\ cpCg.token = "cleared" => cpRec = "stopped"

\* What the helper has captured: a stranger's root or namespace only if the
\* stranger has the PID, and then the recheck refuses it; outside of the cgroup
\* only if it came before the token, or after the init, and then it cannot open it.
TargetOK ==
  /\ cpHlp.pc \in {"none", "policy", "attach", "open", "captureRoot"} => cpHlp.ns = {}
  /\ cpHlp.pc \in {"captureNs", "recheck"} =>
       cpHlp.ns # {} /\ ("other" \in cpHlp.ns => cpPid = "other")
  /\ cpHlp.pc \in Entered => cpHlp.ns = {"container"}
  /\ cpHlp.pc = "open" => cpHlp.admitted \/ cpHlp.early \/ cpPid # "init"
  /\ cpHlp.pc \in {"captureRoot", "captureNs", "recheck"} \cup Entered =>
       cpHlp.admitted \/ cpHlp.early
  /\ ExecStarted => cpHlp.ns = {"container"} /\ (cpHlp.admitted \/ cpHlp.early)

\* The exec payload is the helper's child from its start to its reaping.
PayloadOK ==
  /\ cpHlp.pc \in ExecUnborn => ~ExecStarted
  /\ cpHlp.pc \in {"proof", "observe", "killGroup", "reap"} =>
       Present(ExecPayload) /\ cpProc[ExecPayload].parent = "helper"
  /\ cpHlp.pc = "exited" /\ cpHlp.code = 0 =>
       cpProc[ExecPayload].st = "gone" /\ cpExit = 0
  /\ cpHlp.pc = "exited" /\ cpFaults.kills = 0 =>
       \/ ~ExecStarted /\ cpPipe = "eof"
       \/ /\ cpProc[ExecPayload].st = "gone" /\ cpPipe = "byte"
          /\ cpExit = 0 => cpHlp.code = 0 \/ cpHlp.err

\* The pipe tells how far the helper has come, and the command follows it.
PipeOK ==
  /\ cpPipe = "open" <=> cpHlp.pc \in ExecUnborn \cup {"proof"}
  /\ cpPipe = "byte" => ExecStarted
  /\ cpPipe = "eof" => cpHlp.pc = "exited"
  /\ cpCli.pc \in {"idle", "bind", "spawn"} => cpHlp.pc = "none"
  /\ cpCli.pc \in {"await", "wait"} => cpHlp.pc # "none"
  /\ cpCli.pc \in {"idle", "bind", "spawn", "await"} => ~cpCli.proven
  /\ cpCli.pc = "wait" => cpPipe = IF cpCli.proven THEN "byte" ELSE "eof"
  /\ cpCli.proven => cpPipe = "byte"

\* What the command has logged.
LogOK ==
  /\ ~cpCli.proven =>
       \/ cpLog = <<>>
       \/ /\ cpCli.pc = "done" /\ cpHlp.pc \in {"none", "exited"}
          /\ Len(cpLog) = 1 /\ cpLog[1][1] = "exec_failed"
          /\ cpFaults.kills = 0 => ~ExecStarted
  /\ cpCli.proven /\ cpCli.pc = "wait" =>
       \/ cpIntent = "active" /\ Len(cpLog) = 1 /\ cpLog[1][1] = "exec"
       \/ cpIntent = "staged" /\ cpLog = <<>> /\ cpFaults.appends > 0
  /\ cpCli.proven /\ cpCli.pc = "done" =>
       /\ cpHlp.pc = "exited"
       /\ \/ /\ Len(cpLog) = 2 /\ cpLog[1][1] = "exec" /\ cpLog[2][1] = "exec_exit"
             /\ cpLog[2][2] = cpHlp.code
          \/ /\ cpFaults.appends > 0
             /\ cpLog = <<>> \/ (Len(cpLog) = 1 /\ cpLog[1][1] = "exec")

CpIInv == CpTyped /\ NamespaceOK /\ TargetOK /\ PayloadOK /\ PipeOK /\ LogOK

-----------------------------------------------------------------------------
(* What the kernel does to the process table                               *)

ProcRec == [st: {"unborn", "alive", "zombie", "gone"},
            parent: Members \cup {"init", "helper", "host"}, grp: {"payload", "exec", "own"}]

\* A death makes a zombie and hands its children to the init.
LEMMA DeathInTable ==
  ASSUME NEW procs \in [Members -> ProcRec], NEW m \in Members
  PROVE  /\ Dies(procs, m) \in [Members -> ProcRec]
         /\ \A k \in Members :
              /\ Dies(procs, m)[k].st = IF k = m THEN "zombie" ELSE procs[k].st
              /\ procs[k].parent = "helper" => Dies(procs, m)[k].parent = "helper"
  <1>1. ASSUME NEW k \in Members
        PROVE  /\ Dies(procs, m)[k] \in ProcRec
               /\ Dies(procs, m)[k].st = IF k = m THEN "zombie" ELSE procs[k].st
               /\ procs[k].parent = "helper" => Dies(procs, m)[k].parent = "helper"
    BY ProcessesAssumption DEF Dies, ProcRec
  <1> QED BY <1>1 DEF Dies

\* The end of the init leaves nobody alive and only the helper's child to reap.
LEMMA CollapseInTable ==
  ASSUME NEW procs \in [Members -> ProcRec]
  PROVE  /\ Collapsed(procs) \in [Members -> ProcRec]
         /\ \A k \in Members :
              /\ Collapsed(procs)[k].st \in {"unborn", "zombie", "gone"}
              /\ Collapsed(procs)[k].st = "unborn" <=> procs[k].st = "unborn"
              /\ procs[k].st = "gone" => Collapsed(procs)[k].st = "gone"
              /\ procs[k].st \in {"alive", "zombie"} /\ procs[k].parent = "helper" =>
                   Collapsed(procs)[k].st = "zombie" /\ Collapsed(procs)[k].parent = "helper"
  <1>1. ASSUME NEW k \in Members
        PROVE  /\ Collapsed(procs)[k] \in ProcRec
               /\ Collapsed(procs)[k].st \in {"unborn", "zombie", "gone"}
               /\ Collapsed(procs)[k].st = "unborn" <=> procs[k].st = "unborn"
               /\ procs[k].st = "gone" => Collapsed(procs)[k].st = "gone"
               /\ procs[k].st \in {"alive", "zombie"} /\ procs[k].parent = "helper" =>
                    Collapsed(procs)[k].st = "zombie" /\ Collapsed(procs)[k].parent = "helper"
    BY DEF Collapsed, ProcRec
  <1> QED BY <1>1 DEF Collapsed

\* Counted failures are numbers, and of one kind at a time.
LEMMA FaultsTyped ==
  ASSUME CpTyped
  PROVE  /\ CpFault("calls") => /\ cpFaults' \in [calls: Nat, appends: Nat, kills: Nat]
                                /\ cpFaults'.kills = cpFaults.kills
                                /\ cpFaults'.appends = cpFaults.appends
         /\ CpFault("appends") => /\ cpFaults' \in [calls: Nat, appends: Nat, kills: Nat]
                                  /\ cpFaults'.kills = cpFaults.kills
                                  /\ cpFaults'.appends > 0
         /\ CpFault("kills") => /\ cpFaults' \in [calls: Nat, appends: Nat, kills: Nat]
                                /\ cpFaults'.appends = cpFaults.appends
                                /\ cpFaults'.kills > 0
  BY DEF CpTyped, CpFault

-----------------------------------------------------------------------------
(* Steps of others, as the exec session sees them                          *)

\* Neither command nor helper moves, and the exec payload at most dies.
ExecQuiet ==
  /\ UNCHANGED <<cpCli, cpHlp, cpIntent, cpPipe, cpLog>>
  /\ cpFaults'.kills = cpFaults.kills /\ cpFaults'.appends = cpFaults.appends
  /\ cpProc'[ExecPayload].st = "unborn" <=> cpProc[ExecPayload].st = "unborn"
  /\ cpProc[ExecPayload].st = "gone" => cpProc'[ExecPayload].st = "gone"
  /\ Present(ExecPayload) /\ cpProc[ExecPayload].parent = "helper" =>
       Present(ExecPayload)' /\ cpProc'[ExecPayload].parent = "helper"
  /\ ~Alive(ExecPayload) => ~Alive(ExecPayload)' /\ cpExit' = cpExit
  /\ (cpPid = "other" => cpPid' = "other") /\ (cpPid # "init" => cpPid' # "init")

\* Such a step takes nothing from what they rely on.
LEMMA QuietKeeps ==
  ASSUME CpIInv, ExecQuiet
  PROVE  TargetOK' /\ PayloadOK' /\ PipeOK' /\ LogOK'
  <1> USE DEF CpIInv, ExecQuiet, ExecStarted, Present, Alive
  <1>1. TargetOK'
    BY DEF TargetOK
  <1>2. PayloadOK'
    BY DEF PayloadOK
  <1>3. PipeOK'
    BY DEF PipeOK
  <1>4. LogOK'
    <2>1. CASE ~cpCli.proven
      BY <2>1 DEF LogOK
    <2>2. CASE cpCli.proven
      BY <2>2 DEF LogOK
    <2> QED BY <2>1, <2>2
  <1> QED BY <1>1, <1>2, <1>3, <1>4

\* The process table has its type.
LEMMA TableTyped ==
  ASSUME CpTyped
  PROVE  cpProc \in [Members -> ProcRec]
  BY DEF CpTyped, CpTypeOK, ProcRec

\* The rest of the type, when a step changes the table, the init and the record.
LEMMA HostTyped ==
  ASSUME CpTyped, UNCHANGED <<cpCli, cpHlp, cpIntent, cpPipe, cpLog>>,
         cpProc' \in [Members -> ProcRec], cpDoomed' \subseteq Members,
         cpInit' \in [pc: {"prepared", "wait", "killGroup", "list", "killListed", "drain", "exited"},
                      listed: SUBSET Members, fwdErr: BOOLEAN],
         cpPid' \in {"init", "free", "other"}, cpRec' \in {"running", "stopped"},
         cpCg' \in CgRec, cpExit' \in {0, 3, Signalled},
         cpFaults' = cpFaults \/ CpFault("calls")
  PROVE  CpTyped'
  BY FaultsTyped DEF CpTyped, CpTypeOK, ProcRec, CgRec

\* A step of somebody else keeps the invariant.
LEMMA QuietStep ==
  ASSUME CpIInv, CpTyped', NamespaceOK', ExecQuiet
  PROVE  CpIInv'
  BY QuietKeeps DEF CpIInv

-----------------------------------------------------------------------------
(* The kernel and the programs in the container                            *)

\* A fork needs a living parent and makes a descendant.
LEMMA ForkKeeps ==
  ASSUME CpIInv, NEW p \in Members, ForkChild(p)
  PROVE  CpIInv'
  <1> DEFINE unborn == {d \in Descendants : cpProc[d].st = "unborn"}
  <1>1. unborn # {} /\ Alive(p)
    BY DEF ForkChild
  <1>2. PICK d \in unborn : cpProc' = [cpProc EXCEPT ![d] = [st |-> "alive", parent |-> p,
                                                             grp |-> cpProc[p].grp]]
    <2> DEFINE e == CHOOSE d \in unborn : TRUE
    <2>1. e \in unborn
      BY <1>1
    <2>2. cpProc' = [cpProc EXCEPT ![e] = [st |-> "alive", parent |-> p, grp |-> cpProc[p].grp]]
      BY DEF ForkChild
    <2> HIDE DEF e
    <2> QED BY <2>1, <2>2
  <1>3. d \in Members /\ d # ExecPayload /\ ExecPayload \in Members
    BY ProcessesAssumption DEF Members
  <1>4. cpProc \in [Members -> ProcRec] /\ CpTyped
    BY TableTyped DEF CpIInv
  <1>5. cpProc' \in [Members -> ProcRec]
    BY <1>2, <1>3, <1>4 DEF ProcRec
  <1>6. UNCHANGED <<cpDoomed, cpInit, cpPid, cpRec, cpCg, cpCli, cpHlp, cpIntent, cpPipe, cpLog,
                    cpExit, cpFaults>>
    BY DEF ForkChild, cpHost, cpExec
  <1>7. CpTyped'
    BY <1>4, <1>5, <1>6, HostTyped DEF CpTyped, CpTypeOK, CgRec
  <1>8. NamespaceOK'
    BY <1>1, <1>6 DEF CpIInv, NamespaceOK, InitLives
  <1>9. ExecQuiet
    BY <1>2, <1>3, <1>4, <1>6 DEF ExecQuiet, Present, Alive
  <1> QED BY <1>7, <1>8, <1>9, QuietStep

\* A descendant in a group of its own is as alive as before.
LEMMA EscapeKeeps ==
  ASSUME CpIInv, NEW d \in Descendants, EscapeGroup(d)
  PROVE  CpIInv'
  <1>1. cpProc \in [Members -> ProcRec] /\ CpTyped /\ d \in Members /\ ExecPayload \in Members
    BY TableTyped DEF CpIInv, Members
  <1>2. cpProc' \in [Members -> ProcRec]
        /\ \A k \in Members : cpProc'[k].st = cpProc[k].st /\ cpProc'[k].parent = cpProc[k].parent
    BY <1>1 DEF EscapeGroup, ProcRec
  <1>3. UNCHANGED <<cpDoomed, cpInit, cpPid, cpRec, cpCg, cpCli, cpHlp, cpIntent, cpPipe, cpLog,
                    cpExit, cpFaults>>
    BY DEF EscapeGroup, cpHost, cpExec
  <1>4. CpTyped'
    BY <1>1, <1>2, <1>3, HostTyped DEF CpTyped, CpTypeOK, CgRec
  <1>5. NamespaceOK'
    BY <1>2, <1>3 DEF CpIInv, NamespaceOK, InitLives, Alive
  <1>6. ExecQuiet
    BY <1>1, <1>2, <1>3 DEF ExecQuiet, Present, Alive
  <1> QED BY <1>4, <1>5, <1>6, QuietStep

\* A death: the exec payload's gives it its exit code.
LEMMA ExitKeeps ==
  ASSUME CpIInv, NEW m \in Members, MemberExits(m)
  PROVE  CpIInv'
  <1>1. cpProc \in [Members -> ProcRec] /\ CpTyped /\ ExecPayload \in Members /\ Alive(m)
    BY TableTyped DEF CpIInv, Members, MemberExits
  <1>2. /\ cpProc' \in [Members -> ProcRec]
        /\ \A k \in Members :
             /\ cpProc'[k].st = IF k = m THEN "zombie" ELSE cpProc[k].st
             /\ cpProc[k].parent = "helper" => cpProc'[k].parent = "helper"
    BY <1>1, DeathInTable DEF MemberExits
  <1>3. UNCHANGED <<cpDoomed, cpInit, cpPid, cpRec, cpCg, cpCli, cpHlp, cpIntent, cpPipe, cpLog,
                    cpFaults>>
    BY DEF MemberExits, cpHost, cpExec
  <1>4. cpExit' \in {0, 3, Signalled} /\ (m # ExecPayload => cpExit' = cpExit)
    BY <1>1 DEF MemberExits, CpTyped, CpTypeOK
  <1>5. CpTyped'
    BY <1>1, <1>2, <1>3, <1>4, HostTyped DEF CpTyped, CpTypeOK, CgRec
  <1>6. NamespaceOK'
    BY <1>2, <1>3 DEF CpIInv, NamespaceOK, InitLives, Alive
  <1>7. ExecQuiet
    BY <1>1, <1>2, <1>3, <1>4 DEF ExecQuiet, Present, Alive
  <1> QED BY <1>5, <1>6, <1>7, QuietStep

\* The helper's child is reaped by nobody else.
LEMMA ReapKeeps ==
  ASSUME CpIInv, NEW m \in Members, ParentReapsMember(m)
  PROVE  CpIInv'
  <1>1. cpProc \in [Members -> ProcRec] /\ CpTyped /\ ExecPayload \in Members
        /\ "helper" \notin Members
    BY TableTyped, ProcessesAssumption DEF CpIInv, Members
  <1>2. /\ cpProc' \in [Members -> ProcRec]
        /\ cpProc[m].st = "zombie" /\ cpProc[m].parent # "helper"
        /\ \A k \in Members : /\ cpProc'[k].st = IF k = m THEN "gone" ELSE cpProc[k].st
                              /\ cpProc'[k].parent = cpProc[k].parent
    BY <1>1 DEF ParentReapsMember, ProcRec
  <1>3. UNCHANGED <<cpDoomed, cpInit, cpPid, cpRec, cpCg, cpCli, cpHlp, cpIntent, cpPipe, cpLog,
                    cpExit, cpFaults>>
    BY DEF ParentReapsMember, cpHost, cpExec
  <1>4. CpTyped'
    BY <1>1, <1>2, <1>3, HostTyped DEF CpTyped, CpTypeOK, CgRec
  <1>5. NamespaceOK'
    BY <1>2, <1>3 DEF CpIInv, NamespaceOK, InitLives, Alive
  <1>6. ExecQuiet
    BY <1>1, <1>2, <1>3 DEF ExecQuiet, Present, Alive
  <1> QED BY <1>4, <1>5, <1>6, QuietStep

-----------------------------------------------------------------------------
(* The supervisor and the runtime                                          *)

\* When the init returns, nobody is left alive.
LEMMA ReturnKeeps ==
  ASSUME CpIInv, NEW procs \in [Members -> ProcRec], cpProc' = Collapsed(procs),
         cpInit' = [cpInit EXCEPT !.pc = "exited"], cpExit' = CollapsedExit,
         UNCHANGED <<cpDoomed, cpPid, cpRec, cpCg, cpCli, cpHlp, cpIntent, cpPipe, cpLog>>,
         cpFaults' = cpFaults \/ CpFault("calls"),
         procs[ExecPayload] = cpProc[ExecPayload]
           \/ /\ procs[ExecPayload].st = "gone" /\ cpProc[ExecPayload].st = "zombie"
              /\ cpProc[ExecPayload].parent # "helper"
  PROVE  CpIInv'
  <1>1. cpProc \in [Members -> ProcRec] /\ CpTyped /\ ExecPayload \in Members
    BY TableTyped DEF CpIInv, Members
  <1>2. /\ cpProc' \in [Members -> ProcRec]
        /\ \A k \in Members :
              /\ cpProc'[k].st \in {"unborn", "zombie", "gone"}
              /\ cpProc'[k].st = "unborn" <=> procs[k].st = "unborn"
              /\ procs[k].st = "gone" => cpProc'[k].st = "gone"
              /\ procs[k].st \in {"alive", "zombie"} /\ procs[k].parent = "helper" =>
                   cpProc'[k].st = "zombie" /\ cpProc'[k].parent = "helper"
    BY CollapseInTable
  <1>3. cpExit' \in {0, 3, Signalled} /\ (~Alive(ExecPayload) => cpExit' = cpExit)
    BY <1>1 DEF CollapsedExit, CpTyped, CpTypeOK
  <1>4. cpInit' \in [pc: {"prepared", "wait", "killGroup", "list", "killListed", "drain", "exited"},
                     listed: SUBSET Members, fwdErr: BOOLEAN] /\ cpInit'.pc = "exited"
    BY <1>1 DEF CpTyped, CpTypeOK
  <1>5. CpTyped'
    BY <1>1, <1>2, <1>3, <1>4, HostTyped, ZenonT(30) DEF CpTyped, CpTypeOK, CgRec
  <1>6. NamespaceOK'
    BY <1>2, <1>4 DEF CpIInv, NamespaceOK, InitLives, Alive
  <1>7. cpFaults'.kills = cpFaults.kills /\ cpFaults'.appends = cpFaults.appends
    BY <1>1, FaultsTyped
  <1>8. ExecQuiet
    BY <1>1, <1>2, <1>3, <1>7 DEF ExecQuiet, Present, Alive
  <1> QED BY <1>5, <1>6, <1>8, QuietStep

\* The supervisor goes on, the table stays.
LEMMA SuperviseKeeps ==
  ASSUME CpIInv, UNCHANGED <<cpProc, cpPid, cpRec, cpCg, cpExit>>,
         UNCHANGED <<cpCli, cpHlp, cpIntent, cpPipe, cpLog>>,
         cpDoomed' \subseteq Members, cpFaults' = cpFaults \/ CpFault("calls"),
         cpInit' \in [pc: {"wait", "killGroup", "list", "killListed", "drain"},
                      listed: SUBSET Members, fwdErr: BOOLEAN],
         cpInit.pc # "exited"
  PROVE  CpIInv'
  <1>1. cpProc \in [Members -> ProcRec] /\ CpTyped
    BY TableTyped DEF CpIInv
  <1>2. cpFaults'.kills = cpFaults.kills /\ cpFaults'.appends = cpFaults.appends
    BY <1>1, FaultsTyped
  <1>3. CpTyped'
    BY <1>1, HostTyped DEF CpTyped, CpTypeOK, CgRec
  <1>4. NamespaceOK'
    BY DEF CpIInv, NamespaceOK, InitLives
  <1>5. ExecQuiet
    BY <1>2 DEF ExecQuiet, Present, Alive
  <1> QED BY <1>3, <1>4, <1>5, QuietStep

\* Every step of the supervisor.
LEMMA SupervisorKeeps ==
  ASSUME CpIInv, CpSupervisor \/ ForwardSignal \/ DrainFails
  PROVE  CpIInv'
  <1>0. /\ CpTyped /\ cpProc \in [Members -> ProcRec] /\ cpDoomed \subseteq Members
        /\ cpInit \in [pc: {"prepared", "wait", "killGroup", "list", "killListed", "drain", "exited"},
                       listed: SUBSET Members, fwdErr: BOOLEAN]
        /\ {Payload, ExecPayload} \subseteq Members /\ Payload # ExecPayload
    BY TableTyped, ProcessesAssumption DEF CpIInv, CpTyped, CpTypeOK, Members
  <1> USE DEF cpTree, cpHost, cpExec
  <1>1. CASE ForkPayload
    <2>1. CASE CpFault("calls") /\ InitReturns
      BY <1>0, <1>1, <2>1, ReturnKeeps DEF ForkPayload, InitReturns
    <2>2. CASE /\ cpProc' = [cpProc EXCEPT ![Payload] =
                               [st |-> "alive", parent |-> "init", grp |-> "payload"]]
               /\ cpInit' = [cpInit EXCEPT !.pc = "wait"] /\ UNCHANGED <<cpExit, cpFaults>>
      <3>1. cpProc' \in [Members -> ProcRec] /\ cpProc'[ExecPayload] = cpProc[ExecPayload]
        BY <1>0, <2>2 DEF ProcRec
      <3>2. UNCHANGED <<cpDoomed, cpPid, cpRec, cpCg, cpCli, cpHlp, cpIntent, cpPipe, cpLog>>
        BY <1>1 DEF ForkPayload
      <3>3. CpTyped'
        BY <1>0, <2>2, <3>1, <3>2, HostTyped, ZenonT(60) DEF CpTyped, CpTypeOK, CgRec
      <3>4. NamespaceOK'
        BY <1>0, <1>1, <2>2, <3>2 DEF ForkPayload, CpIInv, NamespaceOK, InitLives
      <3>5. ExecQuiet
        BY <2>2, <3>1, <3>2 DEF ExecQuiet, Present, Alive
      <3> QED BY <3>3, <3>4, <3>5, QuietStep
    <2> QED BY <1>1, <2>1, <2>2 DEF ForkPayload
  <1>2. CASE InitReapsChild
    <2>1. PICK m \in Members :
            /\ cpProc[m].st = "zombie" /\ cpProc[m].parent = "init"
            /\ IF m = Payload /\ cpInit.fwdErr
               THEN /\ cpInit' = [cpInit EXCEPT !.pc = "exited"]
                    /\ cpProc' = Collapsed([cpProc EXCEPT ![m].st = "gone"])
                    /\ cpExit' = CollapsedExit
               ELSE /\ cpProc' = [cpProc EXCEPT ![m].st = "gone"]
                    /\ cpInit' = IF m = Payload THEN [cpInit EXCEPT !.pc = "killGroup"]
                                 ELSE cpInit
                    /\ cpExit' = cpExit
      BY <1>2 DEF InitReapsChild
    <2> DEFINE procs == [cpProc EXCEPT ![m].st = "gone"]
    <2>2. /\ procs \in [Members -> ProcRec]
          /\ \A k \in Members : /\ procs[k].st = IF k = m THEN "gone" ELSE cpProc[k].st
                                /\ procs[k].parent = cpProc[k].parent
          /\ procs[ExecPayload] = cpProc[ExecPayload] \/ m = ExecPayload
      BY <1>0 DEF ProcRec
    <2>3. UNCHANGED <<cpDoomed, cpPid, cpRec, cpCg, cpCli, cpHlp, cpIntent, cpPipe, cpLog, cpFaults>>
      BY <1>2 DEF InitReapsChild
    <2>4. CASE m = Payload /\ cpInit.fwdErr
      <3>1. cpProc' = Collapsed(procs)
        BY <2>1, <2>4
      <3> HIDE DEF procs
      <3> QED BY <1>0, <2>1, <2>2, <2>3, <2>4, <3>1, ReturnKeeps
    <2>5. CASE ~(m = Payload /\ cpInit.fwdErr)
      <3>1. cpProc' = procs /\ cpExit' = cpExit
        BY <2>1, <2>5
      <3> HIDE DEF procs
      <3>2. cpInit' \in [pc: {"wait", "killGroup", "drain"}, listed: SUBSET Members, fwdErr: BOOLEAN]
        BY <1>0, <1>2, <2>1, <2>5 DEF InitReapsChild
      <3>3. CpTyped'
        BY <1>0, <2>2, <2>3, <3>1, <3>2, HostTyped DEF CpTyped, CpTypeOK, CgRec
      <3>4. NamespaceOK'
        BY <1>2, <2>3, <3>2 DEF InitReapsChild, CpIInv, NamespaceOK, InitLives
      <3>5. ExecQuiet
        BY <1>0, <2>1, <2>2, <2>3, <3>1 DEF ExecQuiet, Present, Alive
      <3> QED BY <3>3, <3>4, <3>5, QuietStep
    <2> QED BY <2>4, <2>5
  <1>3. CASE KillPayloadGroup \/ ListChildren \/ KillListed
    BY <1>0, <1>3, SuperviseKeeps DEF KillPayloadGroup, ListChildren, KillListed
  <1>4. CASE DrainDone \/ DrainFails
    BY <1>0, <1>4, ReturnKeeps DEF DrainDone, DrainFails, InitReturns
  <1>5. CASE ForwardSignal
    BY <1>0, <1>5, SuperviseKeeps DEF ForwardSignal
  <1> QED BY <1>1, <1>2, <1>3, <1>4, <1>5 DEF CpSupervisor

\* The runtime makes the cgroup, frees the PID, stops the record and removes the
\* cgroup, and the host takes the PID again.
LEMMA RuntimeKeeps ==
  ASSUME CpIInv, CpRuntime \/ HostReusesPid
  PROVE  CpIInv'
  <1>1. cpProc \in [Members -> ProcRec] /\ CpTyped
    BY TableTyped DEF CpIInv
  <1>2. /\ UNCHANGED <<cpProc, cpDoomed, cpInit, cpCli, cpHlp, cpIntent, cpPipe, cpLog, cpExit>>
        /\ cpFaults' = cpFaults \/ CpFault("calls")
    BY DEF CpRuntime, RuntimeOwnsCgroup, RuntimeAppliesCgroup, RuntimeReapsInit,
           RuntimeStopsRecord, RuntimeRemovesCgroup, RuntimeClearsToken, HostReusesPid,
           cpTree, cpHost, cpExec
  <1>3. /\ cpPid' \in {"init", "free", "other"} /\ cpRec' \in {"running", "stopped"}
        /\ cpCg' \in CgRec /\ (cpPid = "other" => cpPid' = "other")
        /\ cpPid # "init" => cpPid' # "init"
        /\ cpRec = "stopped" => cpRec' = "stopped"
        /\ cpCg'.token = "cleared" => cpCg.token = "cleared" \/ cpRec = "stopped"
    <2>0. /\ cpPid \in {"init", "free", "other"} /\ cpRec \in {"running", "stopped"}
          /\ cpCg \in CgRec
      BY <1>1 DEF CpTyped, CpTypeOK, CgRec
    <2>1. CASE RuntimeRemovesCgroup
      BY <2>0, <2>1 DEF RuntimeRemovesCgroup, cpHost, CgRec
    <2>2. CASE RuntimeReapsInit \/ RuntimeStopsRecord \/ HostReusesPid
      BY <2>0, <2>2 DEF RuntimeReapsInit, RuntimeStopsRecord, HostReusesPid
    <2>3. CASE RuntimeOwnsCgroup \/ RuntimeClearsToken
      BY <2>0, <2>3 DEF RuntimeOwnsCgroup, RuntimeClearsToken, cpHost, CgRec
    <2>4. CASE RuntimeAppliesCgroup
      BY <2>0, <2>4 DEF RuntimeAppliesCgroup, cpHost, CgRec
    <2> QED BY <2>1, <2>2, <2>3, <2>4 DEF CpRuntime
  <1>4. CpTyped'
    BY <1>1, <1>2, <1>3, HostTyped DEF CpTyped, CpTypeOK, CgRec
  <1>5. NamespaceOK'
    <2>1. cpPid' # "init" => cpPid # "init" \/ ~InitLives
      BY DEF CpRuntime, RuntimeOwnsCgroup, RuntimeAppliesCgroup, RuntimeReapsInit,
             RuntimeStopsRecord, RuntimeRemovesCgroup, RuntimeClearsToken, HostReusesPid,
             cpHost, InitLives
    <2>2. cpRec' = "stopped" => cpRec = "stopped" \/ cpPid # "init"
      BY DEF CpRuntime, RuntimeOwnsCgroup, RuntimeAppliesCgroup, RuntimeReapsInit,
             RuntimeStopsRecord, RuntimeRemovesCgroup, RuntimeClearsToken, HostReusesPid,
             cpHost
    <2> QED BY <1>2, <1>3, <2>1, <2>2 DEF CpIInv, NamespaceOK, InitLives, Alive
  <1>6. cpFaults'.kills = cpFaults.kills /\ cpFaults'.appends = cpFaults.appends
    BY <1>1, <1>2, FaultsTyped
  <1>7. ExecQuiet
    BY <1>2, <1>3, <1>6 DEF ExecQuiet, Present, Alive
  <1> QED BY <1>4, <1>5, <1>7, QuietStep

-----------------------------------------------------------------------------
(* The exec command                                                        *)

Events == {"exec", "exec_exit", "exec_failed"} \X {0, 1, 255}
CliRec == [pc: {"idle", "bind", "spawn", "await", "wait", "done"}, proven: BOOLEAN]
HlpRec == [pc: {"none", "policy", "attach", "open", "captureRoot", "captureNs", "recheck",
                "enter", "aliveCheck", "start", "proof", "observe", "killGroup", "reap",
                "exited"},
           ns: SUBSET {"container", "other"}, admitted: BOOLEAN, early: BOOLEAN, err: BOOLEAN,
           code: {0, 1, 255}]

\* The types of what an exec session changes.
LEMMA SessionTyped ==
  ASSUME CpTyped
  PROVE  /\ cpCli \in CliRec /\ cpHlp \in HlpRec /\ cpLog \in Seq(Events)
         /\ cpIntent \in {"none", "staged", "active"} /\ cpPipe \in {"open", "byte", "eof"}
         /\ cpCg \in CgRec
         /\ cpFaults \in [calls: Nat, appends: Nat, kills: Nat]
  BY DEF CpTyped, CpTypeOK, CliRec, HlpRec, Events, CgRec

\* And the other way round.
LEMMA TypedSession ==
  ASSUME CpTyped, UNCHANGED <<cpInit, cpPid, cpRec, cpExit>>, cpProc' \in [Members -> ProcRec],
         cpDoomed' \subseteq Members, cpCli' \in CliRec, cpHlp' \in HlpRec,
         cpLog' \in Seq(Events), cpIntent' \in {"none", "staged", "active"},
         cpPipe' \in {"open", "byte", "eof"}, cpCg' \in CgRec,
         cpFaults' \in [calls: Nat, appends: Nat, kills: Nat]
  PROVE  CpTyped'
  BY DEF CpTyped, CpTypeOK, CliRec, HlpRec, Events, ProcRec, CgRec

\* One more event at the end of the log.
LEMMA OneMoreEvent ==
  ASSUME NEW log \in Seq(Events), NEW e \in Events
  PROVE  /\ Append(log, e) \in Seq(Events) /\ Len(Append(log, e)) = Len(log) + 1
         /\ Append(log, e) # log /\ Append(log, e)[Len(log) + 1] = e
         /\ \A i \in 1..Len(log) : Append(log, e)[i] = log[i]
  OBVIOUS

\* Before the helper there is nothing to tell.
LEMMA CliStartsKeep ==
  ASSUME CpIInv, CliResolve \/ CliBind
  PROVE  CpIInv'
  <1>1. cpProc \in [Members -> ProcRec] /\ CpTyped
    BY TableTyped DEF CpIInv
  <1>2. UNCHANGED <<cpProc, cpDoomed, cpInit, cpPid, cpRec, cpCg, cpHlp, cpPipe, cpLog, cpExit,
                    cpFaults>>
    BY DEF CliResolve, CliBind, cpTree, cpHost
  <1>3. /\ cpCli.pc \in {"idle", "bind"} /\ cpCli'.pc \in {"bind", "spawn", "done"}
        /\ cpCli' \in CliRec /\ cpCli'.proven = cpCli.proven
        /\ cpIntent' \in {"none", "staged", "active"}
    BY <1>1, SessionTyped DEF CliResolve, CliBind, CliRec
  <1>4. CpTyped'
    BY <1>1, <1>2, <1>3, TypedSession, SessionTyped DEF CpTyped, CpTypeOK
  <1>5. NamespaceOK' /\ TargetOK' /\ PayloadOK'
    BY <1>2 DEF CpIInv, NamespaceOK, TargetOK, PayloadOK, InitLives, Alive, Present, ExecStarted
  <1>6. PipeOK' /\ LogOK'
    BY <1>2, <1>3 DEF CpIInv, PipeOK, LogOK, ExecStarted
  <1> QED BY <1>4, <1>5, <1>6 DEF CpIInv

\* The helper starts, or the command says that it could not be started.
LEMMA SpawnKeeps ==
  ASSUME CpIInv, CliSpawnHelper
  PROVE  CpIInv'
  <1>1. cpProc \in [Members -> ProcRec] /\ CpTyped
    BY TableTyped DEF CpIInv
  <1>2. UNCHANGED <<cpProc, cpDoomed, cpInit, cpPid, cpRec, cpCg, cpPipe, cpExit>>
    BY DEF CliSpawnHelper, cpTree, cpHost
  <1>3. cpCli.pc = "spawn" /\ cpHlp.pc = "none" /\ ~cpCli.proven /\ cpLog = <<>> /\ ~ExecStarted
    BY DEF CliSpawnHelper, CpIInv, PipeOK, LogOK, PayloadOK, ExecUnborn
  <1>4. CASE /\ cpCli' = [cpCli EXCEPT !.pc = "await"] /\ cpHlp' = [cpHlp EXCEPT !.pc = "policy"]
             /\ UNCHANGED <<cpIntent, cpLog, cpFaults>>
    <2>1. /\ cpCli' \in CliRec /\ cpCli'.pc = "await" /\ ~cpCli'.proven
          /\ cpHlp' \in HlpRec /\ cpHlp'.pc = "policy" /\ cpHlp'.ns = cpHlp.ns
      BY <1>1, <1>3, <1>4, SessionTyped DEF CliRec, HlpRec
    <2>2. CpTyped'
      BY <1>1, <1>2, <1>4, <2>1, TypedSession, SessionTyped DEF CpTyped, CpTypeOK
    <2>3. NamespaceOK' /\ TargetOK' /\ PayloadOK'
      BY <1>2, <1>3, <1>4, <2>1
      DEF CpIInv, NamespaceOK, TargetOK, PayloadOK, InitLives, Alive, Present, ExecStarted,
          ExecUnborn, Entered
    <2>4. PipeOK' /\ LogOK'
      BY <1>2, <1>3, <1>4, <2>1 DEF CpIInv, PipeOK, LogOK, ExecStarted, ExecUnborn
    <2> QED BY <2>2, <2>3, <2>4 DEF CpIInv
  <1>5. CASE /\ CpFault("calls") /\ cpCli' = [cpCli EXCEPT !.pc = "done"]
             /\ FailPendingExec(Append(cpLog, <<"exec_failed", 1>>)) /\ UNCHANGED cpHlp
    <2> DEFINE e == <<"exec_failed", 1>>
    <2>0. e \in Events /\ e[1] = "exec_failed"
      BY DEF Events
    <2>1. /\ cpCli' \in CliRec /\ cpCli'.pc = "done" /\ ~cpCli'.proven
          /\ cpIntent' = "none" /\ cpLog' = Append(cpLog, e)
      BY <1>1, <1>3, <1>5, SessionTyped DEF CliRec, FailPendingExec
    <2> HIDE DEF e
    <2>2. cpLog' \in Seq(Events) /\ Len(cpLog') = 1 /\ cpLog'[1][1] = "exec_failed"
      BY <1>1, <1>3, <2>0, <2>1, OneMoreEvent, SessionTyped
    <2>3. CpTyped'
      BY <1>1, <1>2, <1>5, <2>1, <2>2, TypedSession, SessionTyped, FaultsTyped
      DEF CpTyped, CpTypeOK
    <2>4. NamespaceOK' /\ TargetOK' /\ PayloadOK'
      BY <1>2, <1>3, <1>5
      DEF CpIInv, NamespaceOK, TargetOK, PayloadOK, InitLives, Alive, Present, ExecStarted,
          ExecUnborn
    <2>5. PipeOK' /\ LogOK'
      BY <1>2, <1>3, <1>5, <2>1, <2>2 DEF CpIInv, PipeOK, LogOK, ExecStarted, ExecUnborn
    <2> QED BY <2>3, <2>4, <2>5 DEF CpIInv
  <1> QED BY <1>4, <1>5 DEF CliSpawnHelper

\* An append: one event more, or a failure that is counted.
LEMMA AppendedTells ==
  ASSUME CpTyped, NEW e \in Events, Appended(e)
  PROVE  /\ cpLog' \in Seq(Events) /\ cpFaults' \in [calls: Nat, appends: Nat, kills: Nat]
         /\ cpFaults'.kills = cpFaults.kills
         /\ \/ /\ cpLog' # cpLog /\ Len(cpLog') = Len(cpLog) + 1 /\ cpLog'[Len(cpLog) + 1] = e
               /\ \A i \in 1..Len(cpLog) : cpLog'[i] = cpLog[i]
               /\ cpFaults' = cpFaults
            \/ cpLog' = cpLog /\ cpFaults'.appends > 0
  <1>1. CASE cpLog' = Append(cpLog, e) /\ UNCHANGED cpFaults
    BY <1>1, OneMoreEvent, SessionTyped
  <1>2. CASE cpLog' = cpLog /\ CpFault("appends")
    BY <1>2, FaultsTyped, SessionTyped
  <1> QED BY <1>1, <1>2 DEF Appended

\* The byte or the end of the pipe.
LEMMA AwaitKeeps ==
  ASSUME CpIInv, CliAwaitStarted
  PROVE  CpIInv'
  <1>1. cpProc \in [Members -> ProcRec] /\ CpTyped
    BY TableTyped DEF CpIInv
  <1>2. UNCHANGED <<cpProc, cpDoomed, cpInit, cpPid, cpRec, cpCg, cpHlp, cpPipe, cpExit>>
    BY DEF CliAwaitStarted, cpTree, cpHost
  <1>3. /\ cpCli.pc = "await" /\ cpHlp.pc # "none" /\ ~cpCli.proven /\ cpLog = <<>>
        /\ cpPipe \in {"byte", "eof"}
    BY <1>1, SessionTyped DEF CliAwaitStarted, CpIInv, PipeOK, LogOK
  <1>4. cpCli' \in CliRec /\ cpCli'.pc = "wait" /\ cpCli'.proven = (cpPipe = "byte")
    BY DEF CliAwaitStarted, CliRec
  <1> DEFINE e == <<"exec", 0>>
  <1>5. e \in Events /\ e[1] = "exec"
    BY DEF Events
  <1>6. CASE cpPipe = "byte"
    <2>1. Appended(e) /\ cpIntent' = IF cpLog' # cpLog THEN "active" ELSE "staged"
      BY <1>6 DEF CliAwaitStarted
    <2> HIDE DEF e
    <2>2. /\ cpLog' \in Seq(Events) /\ cpFaults' \in [calls: Nat, appends: Nat, kills: Nat]
          /\ cpFaults'.kills = cpFaults.kills
          /\ \/ cpIntent' = "active" /\ Len(cpLog') = 1 /\ cpLog'[1][1] = "exec"
             \/ cpIntent' = "staged" /\ cpLog' = <<>> /\ cpFaults'.appends > 0
      BY <1>1, <1>3, <1>5, <2>1, AppendedTells
    <2>3. CpTyped'
      BY <1>1, <1>2, <1>4, <2>2, TypedSession, SessionTyped DEF CpTyped, CpTypeOK
    <2>4. NamespaceOK' /\ TargetOK' /\ PayloadOK'
      BY <1>2, <2>2
      DEF CpIInv, NamespaceOK, TargetOK, PayloadOK, InitLives, Alive, Present, ExecStarted
    <2>5. PipeOK' /\ LogOK'
      BY <1>2, <1>3, <1>4, <1>6, <2>2 DEF CpIInv, PipeOK, LogOK, ExecStarted
    <2> QED BY <2>3, <2>4, <2>5 DEF CpIInv
  <1>7. CASE cpPipe # "byte"
    <2>1. UNCHANGED <<cpIntent, cpLog, cpFaults>>
      BY <1>7 DEF CliAwaitStarted
    <2>2. CpTyped'
      BY <1>1, <1>2, <1>4, <2>1, TypedSession, SessionTyped DEF CpTyped, CpTypeOK
    <2>3. NamespaceOK' /\ TargetOK' /\ PayloadOK'
      BY <1>2, <2>1
      DEF CpIInv, NamespaceOK, TargetOK, PayloadOK, InitLives, Alive, Present, ExecStarted
    <2>4. PipeOK' /\ LogOK'
      BY <1>2, <1>3, <1>4, <1>7, <2>1 DEF CpIInv, PipeOK, LogOK, ExecStarted
    <2> QED BY <2>2, <2>3, <2>4 DEF CpIInv
  <1> QED BY <1>6, <1>7

\* The terminal event.
LEMMA WaitKeeps ==
  ASSUME CpIInv, CliWaitHelper
  PROVE  CpIInv'
  <1>1. cpProc \in [Members -> ProcRec] /\ CpTyped
    BY TableTyped DEF CpIInv
  <1>2. UNCHANGED <<cpProc, cpDoomed, cpInit, cpPid, cpRec, cpCg, cpHlp, cpPipe, cpExit>>
    BY DEF CliWaitHelper, cpTree, cpHost
  <1>3. cpCli.pc = "wait" /\ cpHlp.pc = "exited"
    BY DEF CliWaitHelper
  <1>4. cpCli' \in CliRec /\ cpCli'.pc = "done" /\ cpCli'.proven = cpCli.proven
    BY <1>1, SessionTyped DEF CliWaitHelper, CliRec
  <1>5. cpHlp.code \in {0, 1, 255} /\ cpFaults.kills \in Nat
    BY <1>1, SessionTyped DEF HlpRec
  <1>6. ASSUME /\ cpIntent' \in {"none", "staged", "active"} /\ cpLog' \in Seq(Events)
               /\ cpFaults' \in [calls: Nat, appends: Nat, kills: Nat]
               /\ cpFaults'.kills = cpFaults.kills, LogOK'
        PROVE  CpIInv'
    <2>1. CpTyped'
      BY <1>1, <1>2, <1>4, <1>6, TypedSession, SessionTyped DEF CpTyped, CpTypeOK
    <2>2. NamespaceOK' /\ TargetOK' /\ PayloadOK'
      BY <1>2, <1>6
      DEF CpIInv, NamespaceOK, TargetOK, PayloadOK, InitLives, Alive, Present, ExecStarted
    <2>3. PipeOK'
      BY <1>2, <1>3, <1>4 DEF CpIInv, PipeOK, ExecStarted
    <2> QED BY <1>6, <2>1, <2>2, <2>3 DEF CpIInv
  <1>7. CASE ~cpCli.proven /\ Appended(<<"exec_failed", cpHlp.code>>) /\ cpIntent' = "none"
    <2> DEFINE e == <<"exec_failed", cpHlp.code>>
    <2>1. e \in Events /\ e[1] = "exec_failed" /\ Appended(e)
      BY <1>5, <1>7 DEF Events
    <2> HIDE DEF e
    <2>2. cpLog = <<>> /\ cpPipe = "eof"
      BY <1>3, <1>7 DEF CpIInv, LogOK, PipeOK
    <2>3. cpFaults.kills = 0 => ~ExecStarted
      BY <1>3, <2>2 DEF CpIInv, PayloadOK
    <2>4. /\ cpLog' \in Seq(Events) /\ cpFaults' \in [calls: Nat, appends: Nat, kills: Nat]
          /\ cpFaults'.kills = cpFaults.kills
          /\ cpLog' = <<>> \/ (Len(cpLog') = 1 /\ cpLog'[1][1] = "exec_failed")
      BY <1>1, <2>1, <2>2, AppendedTells
    <2>5. LogOK'
      BY <1>2, <1>3, <1>4, <1>7, <2>3, <2>4 DEF LogOK, ExecStarted
    <2> QED BY <1>6, <1>7, <2>4, <2>5
  <1>8. CASE /\ cpCli.proven /\ cpIntent = "active" /\ Appended(<<"exec_exit", cpHlp.code>>)
             /\ cpIntent' = "none"
    <2> DEFINE e == <<"exec_exit", cpHlp.code>>
    <2>1. e \in Events /\ e[1] = "exec_exit" /\ e[2] = cpHlp.code /\ Appended(e)
      BY <1>5, <1>8 DEF Events
    <2> HIDE DEF e
    <2>2. Len(cpLog) = 1 /\ cpLog[1][1] = "exec" /\ cpPipe = "byte"
      BY <1>3, <1>8 DEF CpIInv, LogOK, PipeOK
    <2>3. /\ cpLog' \in Seq(Events) /\ cpFaults' \in [calls: Nat, appends: Nat, kills: Nat]
          /\ cpFaults'.kills = cpFaults.kills
          /\ \/ /\ Len(cpLog') = 2 /\ cpLog'[1] = cpLog[1] /\ cpLog'[2] = e
             \/ cpLog' = cpLog /\ cpFaults'.appends > 0
      BY <1>1, <2>1, <2>2, AppendedTells
    <2>4. LogOK'
      BY <1>2, <1>3, <1>4, <1>5, <1>8, <2>1, <2>2, <2>3 DEF LogOK
    <2> QED BY <1>6, <1>8, <2>3, <2>4
  <1>9. CASE cpCli.proven /\ cpIntent = "staged" /\ UNCHANGED <<cpIntent, cpLog, cpFaults>>
    <2>1. cpLog = <<>> /\ cpFaults.appends > 0
      BY <1>3, <1>9 DEF CpIInv, LogOK
    <2>2. LogOK'
      BY <1>2, <1>3, <1>4, <1>9, <2>1 DEF LogOK
    <2> QED BY <1>1, <1>6, <1>9, <2>2, SessionTyped
  <1> QED BY <1>7, <1>8, <1>9 DEF CliWaitHelper

-----------------------------------------------------------------------------
(* The exec helper                                                         *)

Ready == ExecUnborn \ {"none"}

\* While the helper moves the command waits, and has logged what it said.
LEMMA HelperFrame ==
  ASSUME CpIInv, UNCHANGED <<cpInit, cpPid, cpRec, cpCli, cpIntent, cpLog, cpExit>>,
         cpHlp.pc \notin {"none", "exited"}, cpHlp' \in HlpRec, cpHlp'.pc # "none",
         cpProc' \in [Members -> ProcRec], cpDoomed' \subseteq Members,
         cpCg' \in CgRec, cpPipe' \in {"open", "byte", "eof"},
         cpPipe = "open" \/ cpPipe' = cpPipe,
         cpPipe' = "open" <=> cpHlp'.pc \in ExecUnborn \cup {"proof"},
         cpPipe' = "byte" => ExecStarted', cpPipe' = "eof" => cpHlp'.pc = "exited",
         cpFaults' \in [calls: Nat, appends: Nat, kills: Nat],
         cpFaults'.appends = cpFaults.appends,
         NamespaceOK', TargetOK', PayloadOK'
  PROVE  CpIInv'
  <1>1. CpTyped'
    BY TypedSession, SessionTyped DEF CpIInv
  <1>2. PipeOK'
    BY DEF CpIInv, PipeOK
  <1>3. LogOK'
    <2>1. ~cpCli.proven => cpLog = <<>>
      BY DEF CpIInv, LogOK
    <2>2. ~(cpCli.proven /\ cpCli.pc = "done")
      BY DEF CpIInv, LogOK
    <2> QED BY <2>1, <2>2 DEF CpIInv, LogOK
  <1> QED BY <1>1, <1>2, <1>3 DEF CpIInv

\* A helper that has not yet started the payload goes on.
LEMMA OnwardKeeps ==
  ASSUME CpIInv, UNCHANGED <<cpProc, cpDoomed, cpInit, cpPid, cpRec, cpCli, cpIntent, cpLog, cpExit,
                             cpPipe, cpFaults>>,
         cpHlp.pc \in Ready, cpHlp' \in HlpRec, cpHlp'.pc \in Ready,
         cpCg' \in CgRec, cpCg'.token = cpCg.token, TargetOK'
  PROVE  CpIInv'
  <1>1. cpProc \in [Members -> ProcRec] /\ CpTyped
    BY TableTyped DEF CpIInv
  <1>2. cpPipe = "open" /\ ~ExecStarted /\ ~ExecStarted'
    BY DEF CpIInv, PipeOK, PayloadOK, Ready, ExecStarted
  <1>3. NamespaceOK' /\ PayloadOK'
    BY <1>2 DEF CpIInv, NamespaceOK, PayloadOK, InitLives, Alive, Present, Ready, ExecUnborn
  <1>4. cpDoomed \subseteq Members
    BY <1>1 DEF CpTyped, CpTypeOK
  <1> QED BY <1>1, <1>2, <1>3, <1>4, HelperFrame, SessionTyped DEF Ready, ExecUnborn

\* Or it ends with an error, and the pipe with it.
LEMMA RefusalKeeps ==
  ASSUME CpIInv, UNCHANGED <<cpProc, cpDoomed, cpInit, cpPid, cpRec, cpCli, cpIntent, cpLog, cpExit>>,
         cpHlp.pc \in Ready, HelperExits(1), cpFaults' = cpFaults \/ CpFault("calls")
  PROVE  CpIInv'
  <1>1. cpProc \in [Members -> ProcRec] /\ CpTyped /\ cpDoomed \subseteq Members
    BY TableTyped DEF CpIInv, CpTyped, CpTypeOK
  <1>2. cpPipe = "open" /\ ~ExecStarted /\ ~ExecStarted'
    BY DEF CpIInv, PipeOK, PayloadOK, Ready, ExecStarted
  <1>3. cpHlp' \in HlpRec /\ cpHlp'.pc = "exited" /\ cpPipe' = "eof"
        /\ cpHlp'.code = 1 /\ cpCg' \in CgRec /\ cpCg'.token = cpCg.token
    <2>1. cpHlp \in HlpRec /\ cpCg \in CgRec
      BY <1>1, SessionTyped
    <2>2. cpCg' \in CgRec /\ cpCg'.token = cpCg.token
      BY <2>1 DEF HelperExits, CgRec
    <2>3. cpHlp' \in HlpRec /\ cpHlp'.pc = "exited" /\ cpHlp'.code = 1
      BY <2>1 DEF HelperExits, HlpRec
    <2> QED BY <1>2, <2>2, <2>3 DEF HelperExits
  <1>4. NamespaceOK'
    BY <1>3 DEF CpIInv, NamespaceOK, InitLives, Alive
  <1>5. TargetOK' /\ PayloadOK'
    BY <1>2, <1>3 DEF TargetOK, PayloadOK, Entered, ExecUnborn
  <1>6. cpFaults' \in [calls: Nat, appends: Nat, kills: Nat] /\ cpFaults'.appends = cpFaults.appends
    BY <1>1, FaultsTyped, SessionTyped
  <1> QED BY <1>1, <1>2, <1>3, <1>4, <1>5, <1>6, HelperFrame DEF Ready, ExecUnborn

\* A check: of a record or of the PID.
LEMMA CheckKeeps ==
  ASSUME CpIInv, NEW from \in Ready, NEW to \in Ready, NEW holds, HelperChecks(from, holds, to),
         holds /\ cpHlp' \in HlpRec /\ cpHlp'.pc = to /\ cpHlp'.ns = cpHlp.ns
           /\ cpHlp'.admitted = cpHlp.admitted /\ cpHlp'.early = cpHlp.early
           /\ UNCHANGED <<cpProc, cpPid>> => TargetOK'
  PROVE  CpIInv'
  <1>1. cpHlp.pc = from /\ cpHlp \in HlpRec /\ CpTyped
    BY SessionTyped DEF CpIInv, HelperChecks
  <1>2. UNCHANGED <<cpProc, cpDoomed, cpInit, cpPid, cpRec, cpCli, cpIntent, cpLog, cpExit, cpFaults>>
    BY DEF HelperChecks, cpTree, cpHost
  <1>3. CASE holds /\ HelperGoes(to)
    <2>1. /\ cpHlp' \in HlpRec /\ cpHlp'.pc = to /\ cpHlp'.ns = cpHlp.ns
          /\ cpHlp'.admitted = cpHlp.admitted /\ cpHlp'.early = cpHlp.early /\ UNCHANGED <<cpPipe, cpCg>>
      BY <1>1, <1>3 DEF HelperGoes, HlpRec, Ready, ExecUnborn
    <2> QED BY <1>1, <1>2, <1>3, <2>1, OnwardKeeps, SessionTyped
  <1>4. CASE HelperExits(1)
    BY <1>1, <1>2, <1>4, RefusalKeeps
  <1> QED BY <1>3, <1>4 DEF HelperChecks

\* The four checks.
LEMMA ChecksKeep ==
  ASSUME CpIInv, HelperPolicy \/ HelperOpen \/ HelperRecheck \/ HelperAliveCheck
  PROVE  CpIInv'
  <1>0. ~(cpHlp.pc \in Ready /\ ExecStarted) /\ cpHlp \in HlpRec
    BY SessionTyped DEF CpIInv, PayloadOK, Ready
  <1> USE DEF TargetOK, ExecStarted, Ready, ExecUnborn, Entered
  <1>1. CASE HelperPolicy
    BY <1>0, <1>1, CheckKeeps DEF HelperPolicy, HelperChecks, CpIInv
  <1>2. CASE HelperOpen
    BY <1>0, <1>2, CheckKeeps DEF HelperOpen, HelperChecks, CpIInv
  <1>3. CASE HelperRecheck
    <2>1. cpPid = "init" /\ InitLives => cpHlp.ns = {"container"}
      BY <1>0, <1>3 DEF HelperRecheck, HelperChecks, CpIInv, HlpRec
    <2> QED BY <1>0, <1>3, <2>1, CheckKeeps DEF HelperRecheck, HelperChecks, CpIInv
  <1>4. CASE HelperAliveCheck
    BY <1>0, <1>4, CheckKeeps DEF HelperAliveCheck, HelperChecks, CpIInv
  <1> QED BY <1>1, <1>2, <1>3, <1>4

\* The cgroup is joined or is gone, or there is no token that names it.
LEMMA AttachKeeps ==
  ASSUME CpIInv, HelperAttach
  PROVE  CpIInv'
  <1>1. /\ cpHlp.pc = "attach" /\ cpHlp \in HlpRec /\ CpTyped /\ cpHlp.ns = {} /\ ~ExecStarted
        /\ cpCg \in CgRec
    BY SessionTyped DEF CpIInv, HelperAttach, TargetOK, PayloadOK, ExecUnborn
  <1>2. UNCHANGED <<cpProc, cpDoomed, cpInit, cpPid, cpRec, cpCli, cpIntent, cpLog, cpExit, cpFaults>>
    BY DEF HelperAttach, cpTree, cpHost
  <1>3. CASE HelperExits(1)
    BY <1>1, <1>2, <1>3, RefusalKeeps DEF Ready, ExecUnborn
  <1>4. CASE /\ cpHlp' = [cpHlp EXCEPT !.pc = "open", !.admitted = TRUE]
             /\ cpCg' = [cpCg EXCEPT !.helper = TRUE] /\ UNCHANGED cpPipe
    <2>1. cpHlp' \in HlpRec /\ cpHlp'.pc = "open" /\ cpHlp'.ns = {} /\ cpHlp'.admitted
      BY <1>1, <1>4 DEF HlpRec
    <2>2. cpCg' \in CgRec /\ cpCg'.token = cpCg.token
      BY <1>1, <1>4 DEF CgRec
    <2>3. TargetOK'
      BY <1>1, <1>2, <2>1 DEF TargetOK, ExecStarted, Entered
    <2> QED BY <1>1, <1>2, <1>4, <2>1, <2>2, <2>3, OnwardKeeps DEF Ready, ExecUnborn
  <1>5. CASE /\ cpCg.token \in {"none", "cleared"}
             /\ cpHlp' = [cpHlp EXCEPT !.pc = "open", !.early = cpCg.token = "none"]
             /\ UNCHANGED <<cpCg, cpPipe>>
    <2>1. /\ cpHlp' \in HlpRec /\ cpHlp'.pc = "open" /\ cpHlp'.ns = {}
          /\ cpCg.token = "none" => cpHlp'.early
      <3> DEFINE early == cpCg.token = "none"
      <3>1. early \in BOOLEAN /\ cpHlp' = [cpHlp EXCEPT !.pc = "open", !.early = early]
        BY <1>5
      <3>2. early <=> cpCg.token = "none"
        OBVIOUS
      <3> HIDE DEF early
      <3> QED BY <1>1, <3>1, <3>2, ZenonT(30) DEF HlpRec
    <2>2. cpCg.token = "cleared" => cpPid # "init"
      BY DEF CpIInv, NamespaceOK
    <2>3. TargetOK'
      BY <1>1, <1>2, <1>5, <2>1, <2>2 DEF TargetOK, ExecStarted, Entered
    <2> QED BY <1>1, <1>2, <1>5, <2>1, <2>3, OnwardKeeps DEF Ready, ExecUnborn
  <1> QED BY <1>3, <1>4, <1>5 DEF HelperAttach

\* A capture takes what has the PID.
LEMMA CaptureKeeps ==
  ASSUME CpIInv, HelperCapture
  PROVE  CpIInv'
  <1>1. /\ cpHlp.pc \in {"captureRoot", "captureNs"} /\ cpHlp \in HlpRec /\ CpTyped
        /\ ~ExecStarted /\ (cpHlp.admitted \/ cpHlp.early) /\ ("other" \in cpHlp.ns => cpPid = "other")
    BY SessionTyped DEF CpIInv, HelperCapture, TargetOK, PayloadOK, ExecUnborn
  <1>2. UNCHANGED <<cpProc, cpDoomed, cpInit, cpPid, cpRec, cpCli, cpIntent, cpLog, cpExit, cpFaults>>
    BY DEF HelperCapture, cpTree, cpHost
  <1>3. CASE HelperExits(1)
    BY <1>1, <1>2, <1>3, RefusalKeeps DEF Ready, ExecUnborn
  <1>4. CASE /\ cpPid = "other" \/ (cpPid = "init" /\ InitLives)
             /\ cpHlp' = [cpHlp EXCEPT
                  !.pc = IF @ = "captureRoot" THEN "captureNs" ELSE "recheck",
                  !.ns = @ \cup {IF cpPid = "init" THEN "container" ELSE "other"}]
             /\ UNCHANGED <<cpPipe, cpCg>>
    <2>1. /\ cpHlp' \in HlpRec /\ cpHlp'.pc \in {"captureNs", "recheck"}
          /\ cpHlp'.admitted \/ cpHlp'.early
          /\ cpHlp'.ns # {} /\ ("other" \in cpHlp'.ns => cpPid = "other")
      <3> DEFINE pc == IF cpHlp.pc = "captureRoot" THEN "captureNs" ELSE "recheck"
                 ns == cpHlp.ns \cup {IF cpPid = "init" THEN "container" ELSE "other"}
      <3>1. cpHlp' = [cpHlp EXCEPT !.pc = pc, !.ns = ns]
        BY <1>4
      <3>2. pc \in {"captureNs", "recheck"} /\ ns \in SUBSET {"container", "other"} /\ ns # {}
        BY <1>1 DEF HlpRec
      <3>3. "other" \in ns => cpPid = "other"
        BY <1>1, <1>4
      <3> HIDE DEF pc, ns
      <3> QED BY <1>1, <3>1, <3>2, <3>3, ZenonT(60) DEF HlpRec
    <2>2. TargetOK'
      BY <1>1, <1>2, <2>1 DEF TargetOK, ExecStarted, Entered
    <2> QED BY <1>1, <1>2, <1>4, <2>1, <2>2, OnwardKeeps, SessionTyped DEF Ready, ExecUnborn
  <1> QED BY <1>3, <1>4 DEF HelperCapture

\* The namespaces are entered, or cannot be.
LEMMA EnterKeeps ==
  ASSUME CpIInv, HelperEnter
  PROVE  CpIInv'
  <1>1. cpHlp.pc = "enter" /\ cpHlp \in HlpRec /\ CpTyped /\ ~ExecStarted
    BY SessionTyped DEF CpIInv, HelperEnter, PayloadOK, ExecUnborn
  <1>2. UNCHANGED <<cpProc, cpDoomed, cpInit, cpPid, cpRec, cpCli, cpIntent, cpLog, cpExit>>
    BY DEF HelperEnter, cpTree, cpHost
  <1>3. CASE CpFault("calls") /\ HelperExits(1)
    BY <1>1, <1>2, <1>3, RefusalKeeps DEF Ready, ExecUnborn
  <1>4. CASE HelperGoes("aliveCheck") /\ UNCHANGED cpFaults
    <2>1. /\ cpHlp' \in HlpRec /\ cpHlp'.pc = "aliveCheck" /\ cpHlp'.ns = cpHlp.ns
          /\ cpHlp'.admitted = cpHlp.admitted /\ cpHlp'.early = cpHlp.early /\ UNCHANGED <<cpPipe, cpCg>>
      BY <1>1, <1>4 DEF HelperGoes, HlpRec
    <2>2. TargetOK'
      BY <1>1, <1>2, <2>1 DEF CpIInv, TargetOK, ExecStarted, Entered
    <2> QED BY <1>1, <1>2, <1>4, <2>1, <2>2, OnwardKeeps, SessionTyped DEF Ready, ExecUnborn
  <1> QED BY <1>3, <1>4 DEF HelperEnter

\* The payload is started only while the init of the container lives.
LEMMA StartKeeps ==
  ASSUME CpIInv, HelperStart
  PROVE  CpIInv'
  <1>1. /\ cpHlp.pc = "start" /\ cpHlp \in HlpRec /\ CpTyped /\ cpPipe = "open"
        /\ cpHlp.admitted \/ cpHlp.early
        /\ cpHlp.ns = {"container"} /\ ExecPayload \in Members /\ cpProc \in [Members -> ProcRec]
        /\ cpDoomed \subseteq Members
    BY SessionTyped, TableTyped
    DEF CpIInv, CpTyped, CpTypeOK, HelperStart, TargetOK, PipeOK, ExecUnborn, Entered, Members
  <1>2. UNCHANGED <<cpDoomed, cpInit, cpPid, cpRec, cpCli, cpIntent, cpLog, cpExit, cpFaults>>
    BY DEF HelperStart, cpHost
  <1>3. CASE HelperExits(1) /\ UNCHANGED cpProc
    BY <1>1, <1>2, <1>3, RefusalKeeps DEF Ready, ExecUnborn
  <1>4. CASE /\ InitLives \/ "other" \in cpHlp.ns
             /\ cpProc' = [cpProc EXCEPT ![ExecPayload] =
                             [st |-> "alive", parent |-> "helper", grp |-> "exec"]]
             /\ HelperGoes("proof")
    <2>1. /\ cpHlp' \in HlpRec /\ cpHlp'.pc = "proof" /\ cpHlp'.ns = {"container"}
          /\ (cpHlp'.admitted \/ cpHlp'.early) /\ UNCHANGED <<cpPipe, cpCg>>
      BY <1>1, <1>4 DEF HelperGoes, HlpRec
    <2>2. /\ cpProc' \in [Members -> ProcRec] /\ cpProc'[ExecPayload].st = "alive"
          /\ cpProc'[ExecPayload].parent = "helper"
      BY <1>1, <1>4 DEF ProcRec
    <2>3. InitLives /\ InitLives'
      BY <1>1, <1>2, <1>4 DEF InitLives
    <2>4. NamespaceOK'
      BY <1>2, <2>1, <2>3 DEF CpIInv, NamespaceOK
    <2>5. TargetOK' /\ PayloadOK'
      BY <2>1, <2>2 DEF TargetOK, PayloadOK, ExecStarted, Present, Alive, Entered, ExecUnborn
    <2> QED BY <1>1, <1>2, <2>1, <2>2, <2>4, <2>5, HelperFrame, SessionTyped DEF ExecStarted
  <1> QED BY <1>3, <1>4 DEF HelperStart

\* The proof byte, the relay of signals, the death of the payload and the kill of
\* its group.
LEMMA WatchKeeps ==
  ASSUME CpIInv, HelperProof \/ HelperForward \/ HelperObserve \/ HelperKillGroup
  PROVE  CpIInv'
  <1>1. /\ cpHlp \in HlpRec /\ CpTyped /\ cpProc \in [Members -> ProcRec]
        /\ cpDoomed \subseteq Members /\ ExecPayload \in Members
    BY SessionTyped, TableTyped DEF CpIInv, CpTyped, CpTypeOK, Members
  <1>2. /\ cpHlp.pc \in {"proof", "observe", "killGroup"} /\ cpHlp'.pc \in {"observe", "killGroup", "reap"}
        /\ cpHlp' \in HlpRec /\ cpHlp'.ns = cpHlp.ns
        /\ cpHlp'.admitted = cpHlp.admitted /\ cpHlp'.early = cpHlp.early
        /\ UNCHANGED <<cpProc, cpInit, cpPid, cpRec, cpCg, cpCli, cpIntent, cpLog, cpExit>>
        /\ cpFaults' = cpFaults \/ CpFault("calls")
        /\ cpDoomed' \subseteq Members
        /\ cpPipe' = IF cpHlp.pc = "proof" THEN "byte" ELSE cpPipe
    <2>0. ExecGroup \subseteq Members
      BY DEF ExecGroup
    <2>1. CASE HelperProof
      BY <1>1, <2>1 DEF HelperProof, HlpRec, cpTree, cpHost
    <2>2. ASSUME NEW to \in {"observe", "killGroup", "reap"}, HelperGoes(to)
          PROVE  /\ cpHlp' \in HlpRec /\ cpHlp'.pc = to /\ cpHlp'.ns = cpHlp.ns
                 /\ cpHlp'.admitted = cpHlp.admitted /\ cpHlp'.early = cpHlp.early
                 /\ UNCHANGED <<cpPipe, cpCg>>
      BY <1>1, <2>2 DEF HelperGoes, HlpRec
    <2>3. ASSUME NEW to \in {"observe", "killGroup", "reap"}, HelperErrs(to)
          PROVE  /\ cpHlp' \in HlpRec /\ cpHlp'.pc = to /\ cpHlp'.ns = cpHlp.ns
                 /\ cpHlp'.admitted = cpHlp.admitted /\ cpHlp'.early = cpHlp.early
                 /\ UNCHANGED <<cpDoomed, cpPipe, cpCg>> /\ CpFault("calls")
      BY <1>1, <2>3 DEF HelperErrs, HlpRec
    <2>4. CASE HelperObserve
      <3>1. /\ cpHlp.pc = "observe"
            /\ UNCHANGED <<cpProc, cpInit, cpPid, cpRec, cpCli, cpIntent, cpLog, cpExit>>
        BY <2>4 DEF HelperObserve, cpHost
      <3>2. CASE HelperGoes("killGroup") /\ UNCHANGED <<cpDoomed, cpFaults>>
        BY <1>1, <2>2, <3>1, <3>2
      <3>3. CASE HelperErrs("reap")
        BY <1>1, <2>3, <3>1, <3>3
      <3> QED BY <2>4, <3>2, <3>3 DEF HelperObserve
    <2>5. CASE HelperKillGroup
      <3>1. /\ cpHlp.pc = "killGroup"
            /\ UNCHANGED <<cpProc, cpInit, cpPid, cpRec, cpCli, cpIntent, cpLog, cpExit>>
        BY <2>5 DEF HelperKillGroup, cpHost
      <3>2. CASE cpDoomed' = cpDoomed \cup ExecGroup /\ HelperGoes("reap") /\ UNCHANGED cpFaults
        BY <1>1, <2>0, <2>2, <3>1, <3>2
      <3>3. CASE HelperErrs("reap")
        BY <1>1, <2>3, <3>1, <3>3
      <3> QED BY <2>5, <3>2, <3>3 DEF HelperKillGroup
    <2>6. CASE HelperForward
      <3>1. /\ cpHlp.pc = "observe"
            /\ UNCHANGED <<cpProc, cpInit, cpPid, cpRec, cpCli, cpIntent, cpLog, cpExit>>
        BY <2>6 DEF HelperForward, cpHost
      <3>2. CASE cpDoomed' = cpDoomed \cup ExecGroup /\ UNCHANGED <<cpHlp, cpPipe, cpCg, cpFaults>>
        BY <1>1, <2>0, <3>1, <3>2
      <3>3. CASE HelperErrs("observe")
        BY <1>1, <2>3, <3>1, <3>3
      <3> QED BY <2>6, <3>2, <3>3 DEF HelperForward
    <2> QED BY <2>1, <2>4, <2>5, <2>6
  <1>3. cpPipe = IF cpHlp.pc = "proof" THEN "open" ELSE cpPipe
    BY DEF CpIInv, PipeOK
  <1>4. cpPipe' = "byte"
    BY <1>1, <1>2, SessionTyped DEF CpIInv, PipeOK, ExecUnborn
  <1>5. Present(ExecPayload) /\ cpProc[ExecPayload].parent = "helper" /\ ExecStarted
    BY <1>2 DEF CpIInv, PayloadOK, Present, ExecStarted
  <1>6. NamespaceOK'
    BY <1>2 DEF CpIInv, NamespaceOK, InitLives, Alive
  <1>7. TargetOK'
    BY <1>2, <1>5 DEF CpIInv, TargetOK, Entered, ExecStarted
  <1>8. PayloadOK'
    BY <1>2, <1>5 DEF PayloadOK, ExecUnborn, Present, Alive
  <1>9. ExecStarted'
    BY <1>2, <1>5 DEF ExecStarted
  <1>10. cpPipe' = "open" <=> cpHlp'.pc \in ExecUnborn \cup {"proof"}
    BY <1>2, <1>4 DEF ExecUnborn
  <1>11. cpFaults' \in [calls: Nat, appends: Nat, kills: Nat] /\ cpFaults'.appends = cpFaults.appends
    BY <1>1, <1>2, FaultsTyped, SessionTyped
  <1> QED BY <1>1, <1>2, <1>3, <1>4, <1>6, <1>7, <1>8, <1>9, <1>10, <1>11, HelperFrame, SessionTyped

\* The helper reaps its child and passes on whether it succeeded.
LEMMA HelperReapKeeps ==
  ASSUME CpIInv, HelperReap
  PROVE  CpIInv'
  <1>1. /\ cpHlp \in HlpRec /\ CpTyped /\ cpProc \in [Members -> ProcRec] /\ cpHlp.pc = "reap"
        /\ cpDoomed \subseteq Members /\ ExecPayload \in Members
    BY SessionTyped, TableTyped DEF CpIInv, CpTyped, CpTypeOK, Members, HelperReap
  <1>2. UNCHANGED <<cpDoomed, cpInit, cpPid, cpRec, cpCli, cpIntent, cpLog, cpExit, cpFaults>>
    BY DEF HelperReap, cpHost
  <1>3. cpPipe # "open" /\ cpPipe' = cpPipe
    BY <1>1 DEF CpIInv, PipeOK, HelperReap, HelperExits, ExecUnborn
  <1>4. /\ cpHlp' \in HlpRec /\ cpHlp'.pc = "exited" /\ cpHlp'.ns = cpHlp.ns
        /\ cpHlp'.admitted = cpHlp.admitted /\ cpHlp'.early = cpHlp.early
        /\ (cpHlp'.code = 0 => cpExit = 0) /\ (cpExit = 0 => cpHlp'.code = 0 \/ cpHlp'.err)
        /\ cpCg' \in CgRec /\ cpCg'.token = cpCg.token
    <2> DEFINE code == IF cpExit = 0 /\ ~cpHlp.err THEN 0 ELSE 1
    <2>1. cpHlp' = [cpHlp EXCEPT !.pc = "exited", !.code = code] /\ code \in {0, 1}
      BY DEF HelperReap, HelperExits
    <2>2. code = 0 <=> cpExit = 0 /\ ~cpHlp.err
      OBVIOUS
    <2>3. cpCg' \in CgRec /\ cpCg'.token = cpCg.token
      BY <1>1, SessionTyped DEF HelperReap, HelperExits, CgRec
    <2> HIDE DEF code
    <2> QED BY <1>1, <2>1, <2>2, <2>3 DEF HlpRec
  <1>5. /\ cpProc' \in [Members -> ProcRec] /\ cpProc'[ExecPayload].st = "gone"
        /\ \A k \in Members : k # ExecPayload => cpProc'[k] = cpProc[k]
    BY <1>1 DEF HelperReap, ProcRec
  <1>6. NamespaceOK'
    BY <1>2, <1>4, <1>5 DEF CpIInv, NamespaceOK, InitLives, Alive
  <1>7. TargetOK'
    BY <1>1, <1>4 DEF CpIInv, TargetOK, Entered
  <1>8. cpPipe = "byte"
    BY <1>1, <1>3, SessionTyped DEF CpIInv, PipeOK
  <1>9. PayloadOK'
    BY <1>2, <1>3, <1>4, <1>5, <1>8 DEF PayloadOK, ExecUnborn
  <1>10. ExecStarted'
    BY <1>5 DEF ExecStarted
  <1> QED BY <1>1, <1>2, <1>3, <1>4, <1>5, <1>6, <1>7, <1>8, <1>9, <1>10, HelperFrame, SessionTyped
      DEF ExecUnborn

\* A killed helper leaves its child to the host.
LEMMA KillKeeps ==
  ASSUME CpIInv, HelperKilled
  PROVE  CpIInv'
  <1>1. /\ cpHlp \in HlpRec /\ CpTyped /\ cpProc \in [Members -> ProcRec]
        /\ cpHlp.pc \notin {"none", "exited"} /\ cpDoomed \subseteq Members /\ ExecPayload \in Members
    BY SessionTyped, TableTyped DEF CpIInv, CpTyped, CpTypeOK, Members, HelperKilled
  <1>2. UNCHANGED <<cpDoomed, cpInit, cpPid, cpRec, cpCli, cpIntent, cpLog, cpExit>>
    BY DEF HelperKilled, cpHost
  <1>3. /\ cpHlp' \in HlpRec /\ cpHlp'.pc = "exited" /\ cpHlp'.ns = cpHlp.ns
        /\ cpHlp'.admitted = cpHlp.admitted /\ cpHlp'.early = cpHlp.early
        /\ cpHlp'.code = 255 /\ cpCg' \in CgRec /\ cpCg'.token = cpCg.token
        /\ cpPipe' = IF cpPipe = "open" THEN "eof" ELSE cpPipe
    <2>1. cpHlp' = [cpHlp EXCEPT !.pc = "exited", !.code = 255]
          /\ cpPipe' = IF cpPipe = "open" THEN "eof" ELSE cpPipe
      BY DEF HelperKilled, HelperExits
    <2>2. cpCg' \in CgRec /\ cpCg'.token = cpCg.token
      BY <1>1, SessionTyped DEF HelperKilled, HelperExits, CgRec
    <2>3. /\ cpHlp' \in HlpRec /\ cpHlp'.pc = "exited" /\ cpHlp'.ns = cpHlp.ns
          /\ cpHlp'.admitted = cpHlp.admitted /\ cpHlp'.early = cpHlp.early /\ cpHlp'.code = 255
      BY <1>1, <2>1, ZenonT(30) DEF HlpRec
    <2> QED BY <2>1, <2>2, <2>3
  <1>4. /\ cpFaults' \in [calls: Nat, appends: Nat, kills: Nat]
        /\ cpFaults'.appends = cpFaults.appends /\ cpFaults'.kills > 0
    BY <1>1, FaultsTyped DEF HelperKilled
  <1>5. /\ cpProc' \in [Members -> ProcRec]
        /\ \A k \in Members : cpProc'[k].st = cpProc[k].st
    BY <1>1 DEF HelperKilled, ProcRec
  <1>6. NamespaceOK'
    BY <1>2, <1>3, <1>5 DEF CpIInv, NamespaceOK, InitLives, Alive
  <1>7. TargetOK'
    BY <1>1, <1>3, <1>5 DEF CpIInv, TargetOK, Entered, ExecStarted
  <1>8. PayloadOK'
    BY <1>3, <1>4 DEF PayloadOK, ExecUnborn
  <1>9. cpPipe = "byte" => ExecStarted'
    BY <1>1, <1>5 DEF CpIInv, PipeOK, ExecStarted
  <1> QED BY <1>1, <1>2, <1>3, <1>4, <1>5, <1>6, <1>7, <1>8, <1>9, HelperFrame, SessionTyped
      DEF ExecUnborn

-----------------------------------------------------------------------------
(* The processes of a container: the theorem                               *)

\* A log of at most two events.
LEMMA ShortLog ==
  ASSUME CpIInv
  PROVE  /\ cpLog \in Seq(Events)
         /\ \/ cpLog = <<>>
            \/ Len(cpLog) = 1 /\ cpLog[1][1] = "exec_failed" /\ ~cpCli.proven
            \/ Len(cpLog) = 1 /\ cpLog[1][1] = "exec" /\ cpCli.proven
            \/ Len(cpLog) = 2 /\ cpLog[1][1] = "exec" /\ cpLog[2][1] = "exec_exit" /\ cpCli.proven
  <1>1. cpLog \in Seq(Events) /\ cpCli \in CliRec
    BY SessionTyped DEF CpIInv
  <1>2. CASE ~cpCli.proven
    BY <1>1, <1>2 DEF CpIInv, LogOK
  <1>3. CASE cpCli.proven
    <2>1. cpCli.pc \in {"wait", "done"}
      BY <1>1, <1>3 DEF CpIInv, PipeOK, CliRec
    <2> QED BY <1>1, <1>3, <2>1 DEF CpIInv, LogOK
  <1> QED BY <1>2, <1>3

\* The invariant says more than the property.
LEMMA CpSafe ==
  ASSUME CpIInv
  PROVE  ProcessesAreAsRecorded
  <1> DEFINE ends == {i \in DOMAIN cpLog : cpLog[i][1] # "exec"}
  <1>1. CpTypeOK /\ ExecEntersItsGeneration
    BY DEF CpIInv, CpTyped, TargetOK, ExecEntersItsGeneration
  <1>2. StoppedMeansNoProcess
    BY DEF CpIInv, NamespaceOK, StoppedMeansNoProcess
  <1>3. ExecEventTruth
    <2>1. Logged("exec") => cpCli.proven
      BY ShortLog DEF Logged
    <2>2. Logged("exec_failed") => ~cpCli.proven /\ cpLog # <<>>
      BY ShortLog DEF Logged
    <2> QED BY <2>1, <2>2 DEF CpIInv, PipeOK, LogOK, ExecEventTruth
  <1>4. Cardinality(ends) <= 1
    <2>1. ends = {} \/ \E i \in Nat : ends = {i}
      BY ShortLog
    <2> HIDE DEF ends
    <2>2. CASE ends = {}
      BY <2>2, FS_EmptySet
    <2>3. CASE \E i \in Nat : ends = {i}
      <3>1. PICK i \in Nat : ends = {i}
        BY <2>3
      <3>2. Cardinality({i}) = 1
        BY FS_Singleton
      <3> QED BY <3>1, <3>2
    <2> QED BY <2>1, <2>2, <2>3
  <1>5. ExecOutcomeRecorded
    <2>1. cpCli.pc = "done" /\ cpCli.proven /\ cpFaults.appends = 0 =>
            Len(cpLog) = 2 /\ cpLog[1][1] = "exec" /\ cpLog[2][1] = "exec_exit"
      BY DEF CpIInv, LogOK
    <2> QED BY <1>4, <2>1 DEF ExecOutcomeRecorded
  <1>6. ExecSuccessIsPayloadSuccess
    <2> SUFFICES ASSUME NEW i \in DOMAIN cpLog, cpLog[i][1] = "exec_exit"
                 PROVE  /\ cpLog[i][2] = 0 => cpExit = 0
                        /\ cpExit = 0 => cpLog[i][2] = 0 \/ cpHlp.err \/ cpFaults.kills > 0
      BY DEF ExecSuccessIsPayloadSuccess
    <2>1. i = 2 /\ Len(cpLog) = 2 /\ cpCli.proven /\ cpCli \in CliRec /\ cpFaults.kills \in Nat
      BY ShortLog, SessionTyped DEF CpIInv
    <2>2. ~(cpLog = <<>>) /\ Len(cpLog) # 1
      BY <2>1
    <2>3. cpPipe = "byte" /\ cpCli.pc \in {"wait", "done"}
      BY <2>1 DEF CpIInv, PipeOK, CliRec
    <2>4. cpCli.pc = "done"
      BY <2>1, <2>2, <2>3 DEF CpIInv, LogOK
    <2>5. cpLog[2][2] = cpHlp.code /\ cpHlp.pc = "exited"
      BY <2>1, <2>2, <2>4 DEF CpIInv, LogOK
    <2> QED BY <2>1, <2>3, <2>5 DEF CpIInv, PayloadOK
  <1> QED BY <1>1, <1>2, <1>3, <1>5, <1>6 DEF ProcessesAreAsRecorded

\* A container starts with its init alone.
LEMMA CpInitKeeps == CpInit => CpIInv
  <1> SUFFICES ASSUME CpInit PROVE CpIInv
    OBVIOUS
  <1>1. PICK scene \in CpScenes :
          /\ cpProc = [m \in Members |->
               [st |-> IF m \in Descendants \ scene.forks THEN "gone" ELSE "unborn",
                parent |-> "init", grp |-> "own"]]
          /\ cpCli = [pc |-> IF scene.exec THEN "idle" ELSE "done", proven |-> FALSE]
    BY DEF CpInit
  <1>2. /\ cpDoomed = {} /\ cpInit = [pc |-> "prepared", listed |-> {}, fwdErr |-> FALSE]
        /\ cpPid = "init" /\ cpRec = "running" /\ cpCg = [token |-> "none", dir |-> FALSE, helper |-> FALSE]
        /\ cpHlp = [pc |-> "none", ns |-> {}, admitted |-> FALSE, early |-> FALSE, err |-> FALSE,
                    code |-> 0]
        /\ cpIntent = "none" /\ cpPipe = "open" /\ cpLog = <<>> /\ cpExit = 0
        /\ cpFaults = [calls |-> 0, appends |-> 0, kills |-> 0]
    BY DEF CpInit
  <1>3. /\ cpProc \in [Members -> ProcRec] /\ \A m \in Members : ~Alive(m)
        /\ ~ExecStarted
    BY <1>1, ProcessesAssumption DEF ProcRec, Alive, ExecStarted, Members
  <1>4. cpCli \in CliRec /\ ~cpCli.proven /\ cpCli.pc \in {"idle", "done"}
    BY <1>1 DEF CliRec
  <1>5. CpTyped
    BY <1>2, <1>3, <1>4 DEF CpTyped, CpTypeOK, ProcRec, CliRec
  <1>6. NamespaceOK /\ TargetOK
    BY <1>2, <1>3 DEF NamespaceOK, TargetOK, InitLives, Entered
  <1>7. PayloadOK /\ PipeOK /\ LogOK
    BY <1>2, <1>3, <1>4 DEF PayloadOK, PipeOK, LogOK, ExecUnborn
  <1> QED BY <1>5, <1>6, <1>7 DEF CpIInv

(* ContainerProcesses: for any descendants, failures and kills, the table   *)
(* of processes, the helper's place, the pipe and the log agree.            *)
THEOREM CpInductive == CpSpec => []CpIInv
  <1>1. CpIInv /\ [CpNext]_cpVars => CpIInv'
    <2> SUFFICES ASSUME CpIInv, [CpNext]_cpVars PROVE CpIInv'
      OBVIOUS
    <2>1. CASE UNCHANGED cpVars
      <3>1. CpTyped'
        BY <2>1 DEF cpVars, CpIInv, CpTyped, CpTypeOK
      <3>2. NamespaceOK'
        BY <2>1 DEF cpVars, CpIInv, NamespaceOK, InitLives, Alive
      <3>3. ExecQuiet
        BY <2>1 DEF cpVars, ExecQuiet, Present, Alive
      <3> QED BY <3>1, <3>2, <3>3, QuietStep
    <2>2. CASE CpSupervisor \/ ForwardSignal \/ DrainFails
      BY <2>2, SupervisorKeeps
    <2>3. CASE CpCliStep
      BY <2>3, CliStartsKeep, SpawnKeeps, AwaitKeeps, WaitKeeps DEF CpCliStep
    <2>4. CASE CpHelperStep
      BY <2>4, ChecksKeep, AttachKeeps, CaptureKeeps, EnterKeeps, StartKeeps, WatchKeeps,
         HelperReapKeeps DEF CpHelperStep
    <2>5. CASE HelperKilled \/ HelperForward
      BY <2>5, KillKeeps, WatchKeeps
    <2>6. CASE CpKernel
      BY <2>6, ForkKeeps, EscapeKeeps, ExitKeeps, ReapKeeps, RuntimeKeeps DEF CpKernel
    <2>7. CASE CpRuntime
      BY <2>7, RuntimeKeeps
    <2> QED BY <2>1, <2>2, <2>3, <2>4, <2>5, <2>6, <2>7 DEF CpNext
  <1> QED BY <1>1, CpInitKeeps, PTL DEF CpSpec

(* ContainerProcesses: whatever forks, escapes, fails or is killed, and     *)
(* whoever gets the init's PID next, an exec enters the generation that was *)
(* asked for, and its cgroup unless it came before the cgroup's token; its  *)
(* events are those of its run, a success it reports is its payload's, and  *)
(* a stopped record has no process.                                         *)
THEOREM ProcessesRecorded == CpSpec => []ProcessesAreAsRecorded
  <1>1. CpIInv => ProcessesAreAsRecorded
    BY CpSafe
  <1> QED BY <1>1, CpInductive, PTL

=============================================================================
