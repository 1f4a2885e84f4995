--------------------------- MODULE NetworkProofs ---------------------------
(***************************************************************************)
(* What BridgeNetwork promises about addresses and names, for every number *)
(* of processes, generations, containers and addresses.                    *)
(*                                                                         *)
(* The argument is that a generation belongs to one run process.  What an  *)
(* attempt knows at each label (AttemptAt) is about its own generation;    *)
(* Guarantee bounds what one step of one process may do to the registers   *)
(* the attempts share, and is strong enough to keep everything the other   *)
(* attempts, and payloads whose process is gone, rely on.                  *)
(*                                                                         *)
(* Then what is left on the host: the links, rules and bridges of          *)
(* HostNetwork and the listen socket of DaemonSocket, for any number of    *)
(* generations, operators and daemons, and of failures and deaths.         *)
(***************************************************************************)
EXTENDS BridgeNetwork, HostNetwork, DaemonSocket, WellFoundedInduction, TLAPS

-----------------------------------------------------------------------------
(* BridgeNetwork: the inductive invariant.                                 *)

Unforked == {"idle", "register", "hosts", "fork"}
Leased == {"own", "ports", "bind", "release"}
Building == {"mark", "reconcile", "allocate"} \cup Leased
Undoing == {"hostnet", "unwind", "unlease", "kill"}
Over == {"stop", "dns", "net", "end", "finish"}

\* The entry of container c is bound to generation g of process p.
Bound(c, p, g, a) ==
  /\ registry[c] # NoEntry /\ registry[c].owner = p
  /\ registry[c].gen = g /\ registry[c].ip = a /\ ~registry[c].pending

\* What the attempt r of process p knows at label l.
AttemptAt(p, l, r) ==
  /\ r.g \in forked \cup {NoGen}
  /\ l \in Unforked => r.g = NoGen
  /\ l \in Building => r.g \in Gens /\ ip[r.g] = 0
  /\ l \in Undoing => r.g \in Gens /\ (r.g \in alive => ip[r.g] = 0)
  /\ l \in Over => r.g \notin alive
  /\ l \in Leased => r.a \in Addresses /\ (r.g \in alive => pool[r.a] = r.g)
  /\ l = "release" /\ r.g \in alive => Bound(r.c, p, r.g, r.a)

AttemptsOK == \A p \in Procs : AttemptAt(p, pc[p], loc[p])

\* No two processes work on one generation.
OneParent == \A p, q \in Procs : loc[p].g = loc[q].g /\ loc[p].g # NoGen => p = q

LivesOK ==
  /\ \A g \in Gens : ip[g] # 0 => g \in forked
  /\ stopped \cap alive = {}
  /\ \A c \in Containers : rec[c].status = "running" => rec[c].gen \in forked

\* The entry of a live generation is its own process's.
EntriesOK ==
  \A c \in Containers : registry[c] # NoEntry =>
    /\ registry[c].gen \in forked \cup {NoGen}
    /\ registry[c].gen \in alive => loc[registry[c].owner].g = registry[c].gen

IInv ==
  /\ TypeOK /\ AttemptsOK /\ OneParent /\ LivesOK /\ EntriesOK
  /\ PayloadOwnsItsAddress /\ PayloadDiscoverable /\ NameHasOneLiveOwner

-----------------------------------------------------------------------------
(* What a step may do                                                      *)

\* What a step of the processes P (one, or none when it is somebody else's)
\* may do to what the attempts share.
Guarantee(P) ==
  /\ forked \subseteq forked' /\ alive' \cap forked \subseteq alive
  /\ stopped' \subseteq stopped \cup (forked \ alive')
  /\ \A p \in P : pc[p] # "gone"
  /\ \A c \in Containers : rec'[c].status = "running" => rec'[c].gen \in forked
  /\ \A g \in Gens : ip'[g] # ip[g] =>
       \E p \in P : pc[p] = "release" /\ g = loc[p].g /\ g \in alive /\ ip'[g] = loc[p].a
  /\ \A a \in Addresses : pool[a] \in alive' /\ pool'[a] # pool[a] =>
       \E p \in P : pc[p] = "unlease" /\ pool[a] = loc[p].g
  /\ \A c \in Containers :
       registry[c] # NoEntry /\ registry[c].gen \in alive' /\ registry'[c] # registry[c] =>
       \E p \in P : pc[p] = "bind" /\ registry[c].owner = p /\ registry[c].gen = loc[p].g
  /\ \A c \in Containers : registry'[c] # NoEntry /\ registry'[c] # registry[c] =>
       \E p \in P :
         /\ registry'[c].owner = p
         /\ \/ /\ registry'[c].gen = NoGen
               /\ \A d \in Containers \ {c} :
                    registry'[d] # NoEntry => HostName(c) # HostName(d)
            \/ /\ registry'[c].gen = loc[p].g /\ loc[p].g # NoGen
               /\ registry[c] # NoEntry /\ registry[c].owner = p
               /\ registry[c].gen \in {NoGen, loc[p].g}

Moves(p, l, r) == pc' = [pc EXCEPT ![p] = l] /\ loc' = [loc EXCEPT ![p] = r]

\* The generation of an attempt stays, is dropped when it is dead, or is new.
Succeeds(r, s) ==
  \/ r.g = s.g
  \/ r.g = NoGen /\ s.g \notin alive
  \/ r.g \notin forked /\ s.g = NoGen

\* No step brings an entry back to life.
LEMMA ActivityEnds ==
  ASSUME NEW P \in SUBSET Procs, Guarantee(P),
         \A q \in Procs : pc'[q] # "gone" => pc[q] # "gone",
         NEW e \in Entries, e.gen \in forked \cup {NoGen}, hostEntryOwnerActive(e)'
  PROVE  hostEntryOwnerActive(e)
  <1>1. CASE e.gen = NoGen
    BY <1>1 DEF hostEntryOwnerActive, Entries
  <1>2. CASE e.gen # NoGen
    BY <1>2 DEF hostEntryOwnerActive, Guarantee
  <1> QED BY <1>1, <1>2

\* The attempts of the processes that take no part in a step stay as good as
\* they were.
LEMMA OthersKeep ==
  ASSUME IInv, NEW P \in SUBSET Procs, Guarantee(P), TypeOK', NEW q \in Procs \ P,
         NEW l, NEW r, l = pc[q], r = loc[q]
  PROVE  AttemptAt(q, l, r)'
  <1>1. TypeOK /\ AttemptAt(q, l, r) /\ r \in Locals
    BY DEF IInv, AttemptsOK, TypeOK
  <1>2. \A p \in P : r.g # NoGen => r.g # loc[p].g
    BY DEF IInv, OneParent
  <1>3. r.g \in forked' \cup {NoGen} /\ (r.g \in alive' => r.g \in alive)
    BY <1>1, NoGenAssumption DEF AttemptAt, Guarantee, TypeOK
  <1>4. r.g \in Gens => ip'[r.g] = ip[r.g]
    BY <1>2, NoGenAssumption DEF Guarantee
  <1>5. l \in Leased => r.a \in Addresses /\ (r.g \in alive' => pool'[r.a] = r.g)
    <2> SUFFICES ASSUME l \in Leased, r.g \in alive' PROVE pool'[r.a] = r.g
      BY <1>1 DEF AttemptAt
    <2>1. r.a \in Addresses /\ pool[r.a] = r.g /\ r.g # NoGen
      BY <1>1, <1>3, NoGenAssumption DEF AttemptAt, TypeOK
    <2> QED BY <1>2, <2>1 DEF Guarantee
  <1>6. l = "release" /\ r.g \in alive' => Bound(r.c, q, r.g, r.a)'
    <2> SUFFICES ASSUME l = "release", r.g \in alive' PROVE Bound(r.c, q, r.g, r.a)'
      OBVIOUS
    <2>1. Bound(r.c, q, r.g, r.a) /\ r.c \in Containers
      BY <1>1, <1>3 DEF AttemptAt, Locals
    <2>2. registry'[r.c] = registry[r.c]
      BY <2>1 DEF Guarantee, Bound
    <2> QED BY <2>1, <2>2 DEF Bound
  <1> QED BY <1>1, <1>3, <1>4, <1>5, <1>6 DEF AttemptAt

\* A payload keeps its lease.
LEMMA LeasesKept ==
  ASSUME IInv, NEW P \in SUBSET Procs, Guarantee(P), TypeOK'
  PROVE  PayloadOwnsItsAddress'
  <1> SUFFICES ASSUME NEW g \in alive', ip'[g] # 0 PROVE pool'[ip'[g]] = g
    BY DEF PayloadOwnsItsAddress, Payloads
  <1>1. g \in Gens /\ g # NoGen /\ ip'[g] \in Addresses
    BY NoGenAssumption, PoolAssumption DEF TypeOK, Addresses
  <1>2. CASE ip'[g] = ip[g]
    <2>1. g \in alive /\ pool[ip[g]] = g
      BY <1>1, <1>2 DEF IInv, LivesOK, Guarantee, PayloadOwnsItsAddress, Payloads
    <2>2. ~ \E p \in P : pc[p] = "unlease" /\ g = loc[p].g
      BY <1>2, <2>1 DEF IInv, AttemptsOK, AttemptAt, Undoing
    <2> QED BY <1>1, <1>2, <2>1, <2>2 DEF Guarantee
  <1>3. CASE ip'[g] # ip[g]
    <2>1. PICK p \in P : pc[p] = "release" /\ g = loc[p].g /\ g \in alive /\ ip'[g] = loc[p].a
      BY <1>1, <1>3 DEF Guarantee
    <2>2. pool[ip'[g]] = g
      BY <2>1 DEF IInv, AttemptsOK, AttemptAt, Leased
    <2>3. \A q \in P : g = loc[q].g => q = p
      BY <1>1, <2>1 DEF IInv, OneParent
    <2> QED BY <1>1, <2>1, <2>2, <2>3 DEF Guarantee
  <1> QED BY <1>2, <1>3

\* A payload keeps its entry.
LEMMA NamesKept ==
  ASSUME IInv, NEW P \in SUBSET Procs, Guarantee(P), TypeOK'
  PROVE  PayloadDiscoverable'
  <1> SUFFICES ASSUME NEW g \in alive', ip'[g] # 0
               PROVE  \E c \in Containers :
                        /\ registry'[c] # NoEntry /\ registry'[c].gen = g
                        /\ registry'[c].ip = ip'[g] /\ ~registry'[c].pending
    BY DEF PayloadDiscoverable, Payloads
  <1>1. g \in Gens /\ g # NoGen
    BY NoGenAssumption DEF TypeOK
  <1>2. CASE ip'[g] = ip[g]
    <2>1. g \in alive /\ ip[g] # 0
      BY <1>1, <1>2 DEF IInv, LivesOK, Guarantee
    <2>2. PICK c \in Containers :
            /\ registry[c] # NoEntry /\ registry[c].gen = g
            /\ registry[c].ip = ip[g] /\ ~registry[c].pending
      BY <2>1 DEF IInv, PayloadDiscoverable, Payloads
    <2>3. ~ \E p \in P : pc[p] = "bind" /\ g = loc[p].g
      BY <2>1 DEF IInv, AttemptsOK, AttemptAt, Building, Leased
    <2>4. registry'[c] = registry[c]
      BY <2>2, <2>3 DEF Guarantee
    <2> QED BY <1>2, <2>2, <2>4
  <1>3. CASE ip'[g] # ip[g]
    <2>1. PICK p \in P : pc[p] = "release" /\ g = loc[p].g /\ g \in alive /\ ip'[g] = loc[p].a
      BY <1>1, <1>3 DEF Guarantee
    <2>2. Bound(loc[p].c, p, g, ip'[g]) /\ loc[p].c \in Containers
      BY <2>1 DEF IInv, AttemptsOK, AttemptAt, TypeOK, Locals
    <2>3. \A q \in P : g = loc[q].g => q = p
      BY <1>1, <2>1 DEF IInv, OneParent
    <2>4. registry'[loc[p].c] = registry[loc[p].c]
      BY <2>1, <2>2, <2>3 DEF Guarantee, Bound
    <2> QED BY <2>2, <2>4 DEF Bound
  <1> QED BY <1>2, <1>3

\* Entries that may be in each other's way are not both active.
LEMMA OwnersKept ==
  ASSUME IInv, NEW P \in SUBSET Procs, Guarantee(P), TypeOK',
         \A q \in Procs : pc'[q] # "gone" => pc[q] # "gone"
  PROVE  NameHasOneLiveOwner'
  <1> DEFINE Old(c) == registry[c] # NoEntry /\ hostEntryOwnerActive(registry[c])
             Alone(c) == \A d \in Containers \ {c} :
                           registry'[d] # NoEntry => HostName(c) # HostName(d)
  <1>1. ASSUME NEW c \in Containers, NEW e \in Entries, e = registry'[c], e # NoEntry,
               hostEntryOwnerActive(e)'
        PROVE  Old(c) \/ Alone(c)
    <2>1. CASE e = registry[c]
      BY <1>1, <2>1, ActivityEnds DEF IInv, EntriesOK
    <2>2. CASE e # registry[c]
      <3>1. PICK p \in P :
              /\ e.owner = p
              /\ \/ e.gen = NoGen /\ Alone(c)
                 \/ /\ e.gen = loc[p].g /\ loc[p].g # NoGen
                    /\ registry[c] # NoEntry /\ registry[c].owner = p
                    /\ registry[c].gen \in {NoGen, loc[p].g}
        BY <1>1, <2>2 DEF Guarantee
      <3>2. CASE Alone(c)
        BY <3>2
      <3>3. CASE /\ e.gen = loc[p].g /\ loc[p].g # NoGen
                 /\ registry[c] # NoEntry /\ registry[c].owner = p
                 /\ registry[c].gen \in {NoGen, loc[p].g}
        <4>1. hostEntryOwnerActive(e)
          BY <1>1, <3>3, ActivityEnds DEF IInv, AttemptsOK, AttemptAt
        <4> QED BY <3>3, <4>1 DEF hostEntryOwnerActive, Guarantee
      <3> QED BY <3>1, <3>2, <3>3
    <2> QED BY <2>1, <2>2
  <1> SUFFICES ASSUME NEW c \in Containers, NEW d \in Containers, c # d,
                      HostName(c) = HostName(d),
                      NEW e \in Entries, NEW f \in Entries, e = registry'[c], f = registry'[d],
                      e # NoEntry, f # NoEntry,
                      hostEntryOwnerActive(e)', hostEntryOwnerActive(f)'
               PROVE  FALSE
    BY DEF NameHasOneLiveOwner, TypeOK, hostEntryOwnerActive
  <1>2. Old(c) /\ Old(d)
    BY <1>1
  <1> QED BY <1>2 DEF IInv, NameHasOneLiveOwner

\* One parent, and one for every live entry.
LEMMA ParentsKept ==
  ASSUME IInv, NEW p \in Procs, NEW l \in Labels, NEW r \in Locals, Moves(p, l, r),
         Guarantee({p}), TypeOK', AttemptAt(p, l, r)', Succeeds(r, loc[p])
  PROVE  OneParent' /\ EntriesOK'
  <1>1. /\ TypeOK /\ loc'[p] = r /\ \A q \in Procs \ {p} : loc'[q] = loc[q]
        /\ \A q \in Procs : loc[q].g \in forked \cup {NoGen}
    BY DEF Moves, IInv, TypeOK, AttemptsOK, AttemptAt
  <1>2. OneParent'
    <2> SUFFICES ASSUME NEW q \in Procs \ {p}, loc[q].g = r.g, r.g # NoGen PROVE FALSE
      BY <1>1 DEF OneParent, IInv
    <2> QED BY <1>1, NoGenAssumption DEF Succeeds, IInv, OneParent, TypeOK
  <1>3. ASSUME NEW c \in Containers, registry'[c] # NoEntry
        PROVE  /\ registry'[c].gen \in forked' \cup {NoGen}
               /\ registry'[c].gen \in alive' => loc'[registry'[c].owner].g = registry'[c].gen
    <2>1. registry'[c] \in Entries /\ NoGen \notin alive'
      BY <1>3, NoGenAssumption DEF TypeOK
    <2>2. CASE registry'[c] = registry[c]
      <3>1. registry[c].gen \in forked \cup {NoGen}
        BY <1>3, <2>2 DEF IInv, EntriesOK
      <3>2. ASSUME registry[c].gen \in alive'
            PROVE  registry[c].gen \in alive /\ loc[registry[c].owner].g = registry[c].gen
        BY <1>3, <2>1, <2>2, <3>1, <3>2 DEF IInv, EntriesOK, Guarantee
      <3>3. registry[c].gen \in alive' => loc'[registry[c].owner].g = registry[c].gen
        BY <1>1, <2>1, <2>2, <3>2, NoGenAssumption DEF Succeeds, Entries, TypeOK
      <3> QED BY <2>2, <3>1, <3>3 DEF Guarantee
    <2>3. CASE registry'[c] # registry[c]
      <3>1. registry'[c].owner = p /\ registry'[c].gen \in {NoGen, loc[p].g}
        BY <1>3, <2>3 DEF Guarantee
      <3>2. registry'[c].gen \in forked' \cup {NoGen}
        BY <1>1, <3>1 DEF Guarantee
      <3>3. registry'[c].gen \in alive' => registry'[c].gen = loc[p].g /\ loc[p].g \in alive
        BY <1>1, <2>1, <3>1 DEF Guarantee
      <3> QED BY <1>1, <2>1, <3>1, <3>2, <3>3, NoGenAssumption DEF Succeeds, TypeOK
    <2> QED BY <2>2, <2>3
  <1> QED BY <1>2, <1>3 DEF EntriesOK

\* What is known of deaths, stops and addresses survives a step that keeps the
\* guarantee.
LEMMA LivesKept ==
  ASSUME IInv, NEW P \in SUBSET Procs, Guarantee(P), TypeOK'
  PROVE  LivesOK'
  <1>1. \A g \in Gens : ip'[g] # 0 => g \in forked'
    <2> SUFFICES ASSUME NEW g \in Gens, ip'[g] # 0 PROVE g \in forked'
      OBVIOUS
    <2> QED BY DEF IInv, LivesOK, Guarantee, TypeOK
  <1>2. stopped' \cap alive' = {}
    BY DEF IInv, LivesOK, Guarantee, TypeOK
  <1>3. \A c \in Containers : rec'[c].status = "running" => rec'[c].gen \in forked'
    BY DEF Guarantee
  <1> QED BY <1>1, <1>2, <1>3 DEF LivesOK

\* A process that keeps the guarantee and its own attempt in order keeps the
\* invariant.
LEMMA StepKeepsIInv ==
  ASSUME IInv, NEW p \in Procs, NEW l \in Labels, NEW r \in Locals, Moves(p, l, r),
         Guarantee({p}), TypeOK', AttemptAt(p, l, r)', Succeeds(r, loc[p])
  PROVE  IInv'
  <1>1. TypeOK /\ \A q \in Procs : pc'[q] # "gone" => pc[q] # "gone"
    BY DEF IInv, Moves, TypeOK, Guarantee
  <1>2. AttemptsOK'
    <2> SUFFICES ASSUME NEW q \in Procs PROVE AttemptAt(q, pc[q], loc[q])'
      BY DEF AttemptsOK
    <2>1. CASE q = p
      BY <1>1, <2>1 DEF Moves, TypeOK
    <2>2. CASE q # p
      <3>1. pc'[q] = pc[q] /\ loc'[q] = loc[q]
        BY <1>1, <2>2 DEF Moves, TypeOK
      <3>2. \A k1, s1 : k1 = pc[q] /\ s1 = loc[q] => AttemptAt(q, k1, s1)'
        BY <2>2, OthersKeep
      <3> QED BY <3>1, <3>2
    <2> QED BY <2>1, <2>2
  <1>3. OneParent' /\ EntriesOK'
    BY ParentsKept
  <1> QED BY <1>1, <1>2, <1>3, LivesKept, LeasesKept, NamesKept, OwnersKept DEF IInv

\* The same for a step that is no process's.
LEMMA OutsideKeepsIInv ==
  ASSUME IInv, UNCHANGED <<pc, loc>>, Guarantee({}), TypeOK'
  PROVE  IInv'
  <1>1. AttemptsOK'
    <2> SUFFICES ASSUME NEW q \in Procs PROVE AttemptAt(q, pc[q], loc[q])'
      BY DEF AttemptsOK
    <2>1. \A k, s : k = pc[q] /\ s = loc[q] => AttemptAt(q, k, s)'
      BY OthersKeep
    <2> QED BY <2>1
  <1>2. OneParent'
    BY DEF OneParent, IInv
  <1>3. EntriesOK'
    <2> SUFFICES ASSUME NEW c \in Containers, registry'[c] # NoEntry
                 PROVE  /\ registry'[c].gen \in forked' \cup {NoGen}
                        /\ registry'[c].gen \in alive'
                           => loc[registry'[c].owner].g = registry'[c].gen
      BY DEF EntriesOK
    <2>1. registry'[c] = registry[c]
      BY DEF Guarantee
    <2> QED BY <2>1, NoGenAssumption DEF IInv, EntriesOK, Guarantee, TypeOK
  <1> QED BY <1>1, <1>2, <1>3, LivesKept, LeasesKept, NamesKept, OwnersKept DEF IInv

-----------------------------------------------------------------------------
(* The steps of an attempt                                                 *)

\* TypeOK of all but the processes' own state.
SharedTypeOK ==
  /\ registry \in [Containers -> Entries \cup {NoEntry}]
  /\ pool \in [Addresses -> GenOrNone]
  /\ dnat \subseteq Gens \X Addresses
  /\ rec \in [Containers -> Records] /\ tok \in [Containers -> GenOrNone]
  /\ alive \subseteq forked /\ stopped \subseteq forked /\ forked \subseteq Gens
  /\ ip \in [Gens -> 0..PoolSize]
  /\ bridge \in BridgeScenes
  /\ faults \in 0..bridge.faults /\ crashes \in 0..bridge.crashes

\* What the invariant says of one process and of the tables it reads.
LEMMA Here ==
  ASSUME IInv, NEW p \in Procs
  PROVE  /\ TypeOK /\ SharedTypeOK /\ loc[p] \in Locals /\ pc[p] \in Labels
         /\ AttemptAt(p, pc[p], loc[p])
  BY DEF IInv, TypeOK, SharedTypeOK, AttemptsOK

\* The fault budget is kept by a step that fails and by one that does not.
LEMMA FaultsBounded ==
  ASSUME bridge \in BridgeScenes, faults \in 0..bridge.faults, NoFault \/ Fault
  PROVE  faults' \in 0..bridge.faults
  BY BridgeScenesAssumption DEF NoFault, Fault

\* A process that goes on with the attempt s it has, failed or not.
LEMMA OnwardKeepsIInv ==
  ASSUME IInv, NEW p \in Procs, NEW l \in Labels, Goto(p, l), Keep \/ Fails(p),
         NEW s, s = loc[p], Guarantee({p}), SharedTypeOK', AttemptAt(p, l, s)'
  PROVE  IInv'
  <1>1. TypeOK /\ s \in Locals
    BY Here
  <1>2. PICK r \in Locals : Moves(p, l, r) /\ r.c = s.c /\ r.g = s.g /\ r.a = s.a
    <2>1. CASE Keep
      BY <1>1, <2>1 DEF Moves, Goto, Keep, TypeOK
    <2>2. CASE Fails(p)
      <3> DEFINE r == [s EXCEPT !.err = TRUE]
      <3>1. r \in Locals /\ r.c = s.c /\ r.g = s.g /\ r.a = s.a
        BY <1>1 DEF Locals
      <3>2. Moves(p, l, r)
        BY <1>1, <2>2 DEF Moves, Goto, Fails, TypeOK
      <3> QED BY <3>1, <3>2
    <2> QED BY <2>1, <2>2
  <1>3. TypeOK'
    BY <1>1, <1>2 DEF TypeOK, SharedTypeOK, Moves
  <1>4. AttemptAt(p, l, r)' /\ Succeeds(r, loc[p])
    BY <1>2 DEF AttemptAt, Succeeds
  <1> QED BY <1>2, <1>3, <1>4, StepKeepsIInv

\* The shared state a step leaves alone.
LEMMA Untouched ==
  ASSUME IInv, NEW p \in Procs, pc[p] # "gone", UNCHANGED <<tables, life>>,
         NoFault \/ Fault, UNCHANGED <<crashes, bridge>>
  PROVE  Guarantee({p}) /\ SharedTypeOK'
  <1>1. SharedTypeOK
    BY DEF IInv, TypeOK, SharedTypeOK
  <1>2. SharedTypeOK'
    BY <1>1, FaultsBounded DEF SharedTypeOK, tables, life
  <1>3. Guarantee({p})
    BY DEF Guarantee, tables, life, IInv, LivesOK
  <1> QED BY <1>2, <1>3

\* A step that writes the registry keeps the entries of the living.
LEMMA RegistryWritten ==
  ASSUME IInv, NEW p \in Procs, pc[p] # "gone", UNCHANGED <<pool, dnat, life>>,
         NoFault \/ Fault, UNCHANGED <<crashes, bridge>>,
         registry' \in [Containers -> Entries \cup {NoEntry}],
         \A c \in Containers :
           registry[c] # NoEntry /\ registry[c].gen \in alive => registry'[c] = registry[c],
         \A c \in Containers : registry'[c] # NoEntry /\ registry'[c] # registry[c] =>
           /\ registry'[c].owner = p /\ registry'[c].gen = NoGen
           /\ \A d \in Containers \ {c} : registry'[d] # NoEntry => HostName(c) # HostName(d)
  PROVE  Guarantee({p}) /\ SharedTypeOK'
  <1>1. SharedTypeOK
    BY DEF IInv, TypeOK, SharedTypeOK
  <1>2. SharedTypeOK'
    BY <1>1, FaultsBounded DEF SharedTypeOK, life
  <1>3. Guarantee({p})
    BY DEF Guarantee, life, IInv, LivesOK
  <1> QED BY <1>2, <1>3

\* A step that writes the pool keeps the leases of the living.
LEMMA PoolWritten ==
  ASSUME IInv, NEW p \in Procs, pc[p] # "gone", UNCHANGED <<registry, dnat, life>>,
         NoFault \/ Fault, UNCHANGED <<crashes, bridge>>, pool' \in [Addresses -> GenOrNone],
         \A a \in Addresses : pool[a] \in alive /\ pool'[a] # pool[a] =>
           pc[p] = "unlease" /\ pool[a] = loc[p].g
  PROVE  Guarantee({p}) /\ SharedTypeOK'
  <1>1. SharedTypeOK
    BY DEF IInv, TypeOK, SharedTypeOK
  <1>2. SharedTypeOK'
    BY <1>1, FaultsBounded DEF SharedTypeOK, life
  <1>3. Guarantee({p})
    BY DEF Guarantee, life, IInv, LivesOK
  <1> QED BY <1>2, <1>3

\* A step that writes records, tokens or rules and forgets no generation.
LEMMA RecordsWritten ==
  ASSUME IInv, NEW p \in Procs, pc[p] # "gone", UNCHANGED <<registry, pool, ip, forked>>,
         NoFault \/ Fault, UNCHANGED <<crashes, bridge>>, dnat' \subseteq Gens \X Addresses,
         rec' \in [Containers -> Records], tok' \in [Containers -> GenOrNone],
         alive' \subseteq alive, stopped' \subseteq stopped \cup (forked \ alive'),
         \A c \in Containers : rec'[c].status = "running" => rec'[c].gen \in forked
  PROVE  Guarantee({p}) /\ SharedTypeOK'
  <1>1. SharedTypeOK
    BY DEF IInv, TypeOK, SharedTypeOK
  <1>2. SharedTypeOK'
    BY <1>1, FaultsBounded DEF SharedTypeOK
  <1>3. Guarantee({p})
    BY DEF Guarantee
  <1> QED BY <1>2, <1>3

\* A process that starts an attempt anew.
LEMMA AnewKeepsIInv ==
  ASSUME IInv, NEW p \in Procs, NEW c \in Containers, pc[p] \in {"idle", "end"},
         Goto(p, "register"), loc' = [loc EXCEPT ![p] = NoAttempt(c)],
         UNCHANGED <<tables, life, faults, crashes, bridge>>
  PROVE  IInv'
  <1> DEFINE r == NoAttempt(c)
  <1>1. TypeOK /\ AttemptAt(p, pc[p], loc[p]) /\ loc[p] \in Locals /\ NoGen \notin alive
    BY Here, NoGenAssumption DEF TypeOK
  <1>2. r \in Locals /\ r.g = NoGen /\ "register" \in Labels
    BY PoolAssumption DEF NoAttempt, Locals, GenOrNone, Labels
  <1>3. Moves(p, "register", r) /\ Succeeds(r, loc[p])
    BY <1>1, <1>2 DEF Moves, Goto, Succeeds, AttemptAt, Unforked, Over
  <1>4. Guarantee({p}) /\ SharedTypeOK'
    BY Untouched DEF NoFault
  <1>5. TypeOK'
    BY <1>1, <1>2, <1>3, <1>4 DEF TypeOK, SharedTypeOK, Moves
  <1>6. AttemptAt(p, "register", r)'
    BY <1>2 DEF AttemptAt, Unforked, Building, Leased, Undoing, Over
  <1> HIDE DEF r
  <1> QED BY <1>2, <1>3, <1>4, <1>5, <1>6, StepKeepsIInv

\* runOnce starts with an empty attempt, which claims nothing.
LEMMA BeginKeepsIInv ==
  ASSUME IInv, NEW p \in Procs, NEW c \in Containers, Begin(p, c)
  PROVE  IInv'
  BY AnewKeepsIInv DEF Begin, At

\* Pruning keeps the entries of the living and adds none.
LEMMA Pruned ==
  ASSUME IInv
  PROVE  LET r == pruneStaleOwnedEntries(registry) IN
         /\ r \in [Containers -> Entries \cup {NoEntry}]
         /\ \A c \in Containers : r[c] \in {registry[c], NoEntry}
         /\ \A c \in Containers :
              registry[c] # NoEntry /\ registry[c].gen \in alive => r[c] = registry[c]
  BY NoGenAssumption DEF pruneStaleOwnedEntries, hostEntryOwnerActive, IInv, TypeOK

\* registerHost prunes entries of the dead only, and writes a pending entry of
\* its own.
LEMMA RegisterKeepsIInv ==
  ASSUME IInv, NEW p \in Procs, Register(p)
  PROVE  IInv'
  <1> DEFINE r == pruneStaleOwnedEntries(registry)
             c == loc[p].c
             new == entriesWithRegistration(r, p, c)
             e == [owner |-> p, gen |-> NoGen, ip |-> AdmissionIP, pending |-> TRUE]
  <1>1. /\ pc[p] = "register" /\ UNCHANGED <<pool, dnat, life, crashes, bridge>>
        /\ NoFault \/ Fault
        /\ Keep \/ Fails(p)
        /\ registry' = registry \/ (RegistrationAdmits(r, p, c) /\ registry' = new)
    BY DEF Register, At, Save, Refuse
  <1>2. PICK l \in {"hosts", "finish"} : Goto(p, l)
    BY DEF Register, Save, Refuse
  <1>3. /\ TypeOK /\ AttemptAt(p, pc[p], loc[p]) /\ loc[p].g = NoGen /\ c \in Containers
        /\ l \in Labels
    BY <1>1, Here DEF AttemptAt, Unforked, Locals, Labels
  <1>4. Guarantee({p}) /\ SharedTypeOK'
    <2>1. CASE registry' = registry
      BY <1>1, <2>1, Untouched DEF tables
    <2>2. CASE RegistrationAdmits(r, p, c) /\ registry' = new
      <3>1. e \in Entries
        BY PoolAssumption DEF Entries, AdmissionIP, GenOrNone
      <3>2. /\ r \in [Containers -> Entries \cup {NoEntry}]
            /\ \A d \in Containers : r[d] \in {registry[d], NoEntry}
            /\ \A d \in Containers :
                 registry[d] # NoEntry /\ registry[d].gen \in alive => r[d] = registry[d]
        BY Pruned
      <3>3. registry' = [r EXCEPT ![c] = e]
        BY <2>2 DEF entriesWithRegistration
      <3> HIDE DEF r, new, e
      <3>4. registry' \in [Containers -> Entries \cup {NoEntry}]
        BY <1>3, <3>1, <3>2, <3>3
      <3>5. /\ registry'[c] = e /\ e.owner = p /\ e.gen = NoGen
            /\ \A d \in Containers \ {c} : registry'[d] = r[d]
        BY <1>3, <3>2, <3>3 DEF e
      <3>6. \A d \in Containers \ {c} : registry'[d] # NoEntry => HostName(c) # HostName(d)
        BY <1>3, <2>2, <3>5 DEF RegistrationAdmits, SameName
      <3>7. ~(registry[c] # NoEntry /\ registry[c].gen \in alive)
        <4> SUFFICES ASSUME registry[c] # NoEntry, registry[c].gen \in alive PROVE FALSE
          OBVIOUS
        <4>1. registry[c].owner = p
          BY <1>3, <2>2, <3>2 DEF RegistrationAdmits, SameName
        <4> QED BY <1>3, <4>1, NoGenAssumption DEF IInv, EntriesOK, TypeOK
      <3> QED BY <1>1, <3>2, <3>4, <3>5, <3>6, <3>7, RegistryWritten, SMTT(20)
    <2> QED BY <1>1, <2>1, <2>2
  <1>5. PICK s : s = loc[p]
    OBVIOUS
  <1>6. AttemptAt(p, l, s)'
    BY <1>1, <1>3, <1>5, NoGenAssumption
    DEF AttemptAt, Unforked, Building, Leased, Undoing, Over, life, TypeOK
  <1> QED BY <1>1, <1>2, <1>3, <1>4, <1>5, <1>6, OnwardKeepsIInv

\* createRuntimeHostsFile drops stale entries, never that of a live payload.
LEMMA HostsSnapshotKeepsIInv ==
  ASSUME IInv, NEW p \in Procs, HostsSnapshot(p)
  PROVE  IInv'
  <1> DEFINE r == pruneStaleOwnedEntries(registry)
  <1>1. /\ pc[p] = "hosts" /\ UNCHANGED <<pool, dnat, life, crashes, bridge>>
        /\ NoFault \/ Fault
        /\ Keep \/ Fails(p)
        /\ registry' \in {registry, r}
    BY DEF HostsSnapshot, At, Save
  <1>2. PICK l \in {"fork", "end"} : Goto(p, l)
    BY DEF HostsSnapshot, Save
  <1>3. TypeOK /\ AttemptAt(p, pc[p], loc[p]) /\ loc[p].g = NoGen /\ l \in Labels
    BY <1>1, Here DEF AttemptAt, Unforked, Labels
  <1>4. Guarantee({p}) /\ SharedTypeOK'
    <2>1. /\ r \in [Containers -> Entries \cup {NoEntry}]
          /\ \A d \in Containers : r[d] \in {registry[d], NoEntry}
          /\ \A d \in Containers :
               registry[d] # NoEntry /\ registry[d].gen \in alive => r[d] = registry[d]
      BY Pruned
    <2> HIDE DEF r
    <2> QED BY <1>1, <1>3, <2>1, RegistryWritten DEF TypeOK
  <1>5. PICK s : s = loc[p]
    OBVIOUS
  <1>6. AttemptAt(p, l, s)'
    BY <1>1, <1>3, <1>5, NoGenAssumption
    DEF AttemptAt, Unforked, Building, Leased, Undoing, Over, life, TypeOK
  <1> QED BY <1>1, <1>2, <1>3, <1>4, <1>5, <1>6, OnwardKeepsIInv

\* cmd.Start: the generation is new, so nobody can know it yet.
LEMMA ForkKeepsIInv ==
  ASSUME IInv, NEW p \in Procs, NEW g \in Gens, Fork(p, g)
  PROVE  IInv'
  <1>1. TypeOK /\ SharedTypeOK /\ AttemptAt(p, pc[p], loc[p]) /\ loc[p] \in Locals
    BY Here
  <1>2. [loc[p] EXCEPT !.g = g] \in Locals
    BY <1>1 DEF Locals, GenOrNone
  <1>3. PICK r \in Locals : r = [loc[p] EXCEPT !.g = g] /\ r.g = g
    BY <1>1, <1>2 DEF Locals
  <1>4. Moves(p, "mark", r) /\ Succeeds(r, loc[p])
    BY <1>1, <1>3 DEF Fork, At, Moves, Goto, Succeeds, AttemptAt, Unforked, TypeOK
  <1>5. SharedTypeOK'
    BY <1>1 DEF SharedTypeOK, Fork, At, tables, NoFault
  <1>6. TypeOK'
    BY <1>1, <1>3, <1>4, <1>5 DEF Labels, TypeOK, SharedTypeOK, Moves
  <1>7. Guarantee({p})
    BY <1>1, NoGenAssumption DEF Guarantee, Fork, At, tables, IInv, LivesOK, TypeOK
  <1>8. AttemptAt(p, "mark", r)'
    BY <1>3, NoGenAssumption
    DEF AttemptAt, Unforked, Building, Leased, Undoing, Over, Fork, IInv, LivesOK
  <1> QED BY <1>3, <1>4, <1>6, <1>7, <1>8, StepKeepsIInv DEF Labels

\* MarkRunning makes the fork the recorded generation, or kills it.
LEMMA MarkRunningKeepsIInv ==
  ASSUME IInv, NEW p \in Procs, MarkRunning(p)
  PROVE  IInv'
  <1> DEFINE c == loc[p].c
             new == [rec EXCEPT ![c] = [status |-> "running", gen |-> loc[p].g]]
  <1>1. /\ pc[p] = "mark" /\ UNCHANGED <<tables, tok, ip, forked, stopped, crashes, bridge>>
        /\ NoFault \/ Fault
        /\ Keep \/ Fails(p)
        /\ rec' \in {rec, new}
    BY DEF MarkRunning, At
  <1>2. PICK l \in {"reconcile", "end"} :
          /\ Goto(p, l)
          /\ \/ l = "reconcile" /\ UNCHANGED alive
             \/ l = "end" /\ alive' = alive \ {loc[p].g}
    BY DEF MarkRunning
  <1>3. /\ TypeOK /\ AttemptAt(p, pc[p], loc[p]) /\ l \in Labels /\ c \in Containers
        /\ loc[p].g \in forked /\ loc[p].g \in Gens
    BY <1>1, Here, NoGenAssumption DEF AttemptAt, Building, Labels, Locals
  <1>4. /\ rec' \in [Containers -> Records]
        /\ \A d \in Containers : rec'[d].status = "running" => rec'[d].gen \in forked
    <2>1. CASE rec' = rec
      BY <1>3, <2>1 DEF TypeOK, IInv, LivesOK
    <2>2. CASE rec' = new
      BY <1>3, <2>2 DEF TypeOK, IInv, LivesOK, Records, GenOrNone
    <2> QED BY <1>1, <2>1, <2>2
  <1>5. Guarantee({p}) /\ SharedTypeOK'
    BY <1>1, <1>2, <1>3, <1>4, RecordsWritten DEF TypeOK, tables
  <1>6. PICK s : s = loc[p]
    OBVIOUS
  <1>7. AttemptAt(p, l, s)'
    BY <1>1, <1>2, <1>3, <1>6
    DEF AttemptAt, Unforked, Building, Leased, Undoing, Over, TypeOK
  <1> QED BY <1>1, <1>2, <1>3, <1>5, <1>6, <1>7, OnwardKeepsIInv

\* reconcileRuntimeBridgeIPAMNetwork gives back leases of the dead only.
LEMMA ReconcileLeasesKeepsIInv ==
  ASSUME IInv, NEW p \in Procs, ReconcileLeases(p)
  PROVE  IInv'
  <1>1. /\ pc[p] = "reconcile" /\ UNCHANGED <<registry, dnat, life, crashes, bridge>>
        /\ NoFault \/ Fault
        /\ Keep \/ Fails(p)
        /\ pool' = pool \/ \E unsure \in SUBSET Gens : pool' = Reconciled(unsure)
    BY DEF ReconcileLeases, At, Save
  <1>2. PICK l \in {"allocate", "kill"} : Goto(p, l)
    BY DEF ReconcileLeases, Save
  <1>3. TypeOK /\ AttemptAt(p, pc[p], loc[p]) /\ l \in Labels
    BY Here DEF Labels
  <1>4. /\ pool' \in [Addresses -> GenOrNone]
        /\ \A a \in Addresses : pool[a] \in alive => pool'[a] = pool[a]
    BY <1>1, <1>3 DEF Reconciled, TypeOK, GenOrNone
  <1>5. Guarantee({p}) /\ SharedTypeOK'
    BY <1>1, <1>4, PoolWritten
  <1>6. PICK s : s = loc[p]
    OBVIOUS
  <1>7. AttemptAt(p, l, s)'
    BY <1>1, <1>2, <1>3, <1>6
    DEF AttemptAt, Unforked, Building, Leased, Undoing, Over, TypeOK, life
  <1> QED BY <1>1, <1>2, <1>3, <1>5, <1>6, <1>7, OnwardKeepsIInv

\* AllocateIP finds a free address when there is one.
LEMMA LowestIsFree ==
  ASSUME Free # {}
  PROVE  Min(Free) \in Free
  <1>1. Free \in SUBSET Nat
    BY PoolAssumption DEF Free, Addresses
  <1>2. PICK a \in Free : \A b \in Free : ~(<<b, a>> \in OpToRel(<, Nat))
    BY <1>1, NatLessThanWellFounded, WFMin
  <1>3. \A b \in Free : a =< b
    <2> SUFFICES ASSUME NEW b \in Free, b < a PROVE FALSE
      BY <1>1
    <2>1. <<b, a>> \in OpToRel(<, Nat)
      BY <1>1 DEF OpToRel
    <2> QED BY <1>2, <2>1
  <1> QED BY <1>3 DEF Min

\* AllocateIP takes an address that nobody had, so no lease is overwritten.
LEMMA AllocateKeepsIInv ==
  ASSUME IInv, NEW p \in Procs, Allocate(p)
  PROVE  IInv'
  <1>1. /\ pc[p] = "allocate" /\ UNCHANGED <<registry, dnat, life, crashes, bridge>>
        /\ NoFault \/ Fault
    BY DEF Allocate, At, Refuse
  <1>2. TypeOK /\ AttemptAt(p, pc[p], loc[p]) /\ loc[p] \in Locals /\ loc[p].g \in Gens
    BY <1>1, Here DEF AttemptAt, Building
  <1>3. PICK s : s = loc[p]
    OBVIOUS
  <1>4. CASE UNCHANGED pool /\ Goto(p, "kill") /\ Fails(p)
    <2>1. AttemptAt(p, "kill", s)'
      BY <1>1, <1>2, <1>3 DEF AttemptAt, Unforked, Building, Leased, Undoing, Over, life
    <2>2. Guarantee({p}) /\ SharedTypeOK'
      BY <1>1, <1>4, Untouched DEF tables
    <2> QED BY <1>3, <1>4, <2>1, <2>2, OnwardKeepsIInv DEF Labels
  <1>5. ASSUME NEW a \in Free, pool' = [pool EXCEPT ![a] = loc[p].g] PROVE Guarantee({p}) /\ SharedTypeOK'
    <2>1. pool' \in [Addresses -> GenOrNone]
      BY <1>2, <1>5 DEF TypeOK, Free, GenOrNone
    <2>2. \A b \in Addresses : pool[b] \in alive => pool'[b] = pool[b]
      BY <1>2, <1>5, NoGenAssumption DEF TypeOK, Free
    <2> QED BY <1>1, <2>1, <2>2, PoolWritten
  <1>6. ASSUME NEW a \in Free, pool' = [pool EXCEPT ![a] = loc[p].g], Goto(p, "kill"), Fails(p)
        PROVE  IInv'
    <2>1. AttemptAt(p, "kill", s)'
      BY <1>1, <1>2, <1>3 DEF AttemptAt, Unforked, Building, Leased, Undoing, Over, life
    <2> QED BY <1>3, <1>5, <1>6, <2>1, OnwardKeepsIInv DEF Labels
  <1>7. ASSUME NEW a \in Free, pool' = [pool EXCEPT ![a] = loc[p].g], Goto(p, "own"),
               loc' = [loc EXCEPT ![p].a = a]
        PROVE  IInv'
    <2>1. a \in Addresses /\ a \in 0..PoolSize
      BY PoolAssumption DEF Free, Addresses
    <2>2. [s EXCEPT !.a = a] \in Locals
      BY <1>2, <1>3, <2>1 DEF Locals
    <2>3. PICK r \in Locals : r = [s EXCEPT !.a = a] /\ r.g = s.g /\ r.a = a
      BY <1>2, <1>3, <2>2 DEF Locals
    <2>4. Moves(p, "own", r) /\ Succeeds(r, loc[p])
      BY <1>2, <1>3, <1>7, <2>3 DEF Moves, Goto, Succeeds, TypeOK
    <2>5. Guarantee({p}) /\ SharedTypeOK'
      BY <1>5, <1>7
    <2>6. TypeOK'
      BY <1>2, <2>3, <2>4, <2>5 DEF TypeOK, SharedTypeOK, Moves, Labels
    <2>7. pool'[a] = r.g
      BY <1>2, <1>3, <1>7, <2>1, <2>3 DEF TypeOK
    <2>8. AttemptAt(p, "own", r)'
      BY <1>1, <1>2, <1>3, <2>1, <2>3, <2>7
      DEF AttemptAt, Unforked, Building, Leased, Undoing, Over, life
    <2> QED BY <2>3, <2>4, <2>5, <2>6, <2>8, StepKeepsIInv DEF Labels
  <1> QED BY <1>4, <1>6, <1>7, LowestIsFree DEF Allocate, Refuse

\* MarkNetworkOwnedIfIdentity writes the token of the generation the record
\* runs.
LEMMA OwnNetworkKeepsIInv ==
  ASSUME IInv, NEW p \in Procs, OwnNetwork(p)
  PROVE  IInv'
  <1> DEFINE new == [tok EXCEPT ![loc[p].c] = loc[p].g]
  <1>1. /\ pc[p] = "own" /\ UNCHANGED <<tables, rec, alive, ip, forked, stopped, crashes, bridge>>
        /\ NoFault \/ Fault
        /\ Keep \/ Fails(p)
        /\ tok' \in {tok, new}
    BY DEF OwnNetwork, At, Save, Refuse
  <1>2. PICK l \in {"ports", "unlease"} : Goto(p, l)
    BY DEF OwnNetwork, Save, Refuse
  <1>3. TypeOK /\ AttemptAt(p, pc[p], loc[p]) /\ loc[p] \in Locals /\ l \in Labels
    BY Here DEF Labels
  <1>4. tok' \in [Containers -> GenOrNone]
    BY <1>1, <1>3 DEF TypeOK, Locals
  <1>5. Guarantee({p}) /\ SharedTypeOK'
    BY <1>1, <1>3, <1>4, RecordsWritten DEF tables, TypeOK, IInv, LivesOK
  <1>6. PICK s : s = loc[p]
    OBVIOUS
  <1>7. AttemptAt(p, l, s)'
    BY <1>1, <1>2, <1>3, <1>6
    DEF AttemptAt, Unforked, Building, Leased, Undoing, Over, tables
  <1> QED BY <1>1, <1>2, <1>3, <1>5, <1>6, <1>7, OnwardKeepsIInv

\* setupBridgeHostOwned adds rules of its own generation.
LEMMA SetupPortsKeepsIInv ==
  ASSUME IInv, NEW p \in Procs, SetupPorts(p)
  PROVE  IInv'
  <1>1. /\ pc[p] = "ports" /\ UNCHANGED <<registry, pool, life, crashes, bridge>>
        /\ NoFault \/ Fault
        /\ Keep \/ Fails(p)
        /\ dnat' \in {dnat, dnat \cup {<<loc[p].g, loc[p].a>>}}
    BY DEF SetupPorts, At, Save
  <1>2. PICK l \in {"bind", "unwind"} : Goto(p, l)
    BY DEF SetupPorts, Save
  <1>3. /\ TypeOK /\ AttemptAt(p, pc[p], loc[p]) /\ l \in Labels
        /\ loc[p].g \in Gens /\ loc[p].a \in Addresses
    BY <1>1, Here DEF Labels, AttemptAt, Building, Leased
  <1>4. dnat' \subseteq Gens \X Addresses
    BY <1>1, <1>3 DEF TypeOK
  <1>5. Guarantee({p}) /\ SharedTypeOK'
    BY <1>1, <1>3, <1>4, RecordsWritten DEF life, TypeOK, IInv, LivesOK
  <1>6. PICK s : s = loc[p]
    OBVIOUS
  <1>7. AttemptAt(p, l, s)'
    BY <1>1, <1>2, <1>3, <1>6
    DEF AttemptAt, Unforked, Building, Leased, Undoing, Over, life
  <1> QED BY <1>1, <1>2, <1>3, <1>5, <1>6, <1>7, OnwardKeepsIInv

\* BindHostRegistrationGeneration turns the entry of this parent into the
\* payload's.
LEMMA BindKeepsIInv ==
  ASSUME IInv, NEW p \in Procs, BindHostRegistrationGeneration(p)
  PROVE  IInv'
  <1> DEFINE c == loc[p].c
             new == [registry EXCEPT ![c].gen = loc[p].g, ![c].ip = loc[p].a,
                                     ![c].pending = FALSE]
  <1>1. /\ pc[p] = "bind" /\ UNCHANGED <<pool, dnat, life, crashes, bridge>>
        /\ NoFault \/ Fault
        /\ Keep \/ Fails(p)
    BY DEF BindHostRegistrationGeneration, At, Save, Refuse
  <1>u. Undo \in {"unwind", "hostnet"}
    BY DEF Undo
  <1>2. PICK l \in {"release", "unwind", "hostnet"} :
          /\ Goto(p, l)
          /\ \/ l # "release" /\ registry' = registry
             \/ BindAdmits(p, c, loc[p].g) /\ registry' = new
    BY <1>u DEF BindHostRegistrationGeneration, Save, Refuse
  <1>3. /\ TypeOK /\ SharedTypeOK /\ AttemptAt(p, pc[p], loc[p]) /\ l \in Labels
        /\ loc[p].g \in Gens /\ loc[p].a \in Addresses /\ c \in Containers /\ loc[p].g \in forked
    BY <1>1, Here, NoGenAssumption DEF Labels, AttemptAt, Building, Leased, Locals
  <1>4. PICK s : s = loc[p]
    OBVIOUS
  <1>5. CASE l # "release" /\ registry' = registry
    <2>1. AttemptAt(p, l, s)'
      BY <1>1, <1>3, <1>4, <1>5
      DEF AttemptAt, Unforked, Building, Leased, Undoing, Over, life
    <2>2. Guarantee({p}) /\ SharedTypeOK'
      BY <1>1, <1>5, Untouched DEF tables
    <2> QED BY <1>1, <1>2, <1>3, <1>4, <2>1, <2>2, OnwardKeepsIInv
  <1>6. CASE BindAdmits(p, c, loc[p].g) /\ registry' = new
    <2>1. /\ registry[c] \in Entries /\ registry[c] # NoEntry /\ registry[c].owner = p
          /\ registry[c].gen \in {NoGen, loc[p].g}
      BY <1>3, <1>6 DEF BindAdmits, TypeOK
    <2> DEFINE e == [registry[c] EXCEPT !.gen = loc[p].g, !.ip = loc[p].a, !.pending = FALSE]
    <2>2. e \in Entries
      <3>1. loc[p].g \in GenOrNone /\ loc[p].a \in 0..PoolSize
        BY <1>3, PoolAssumption DEF GenOrNone, Addresses
      <3> QED BY <2>1, <3>1 DEF Entries
    <2>3. e # NoEntry
      BY <2>2, NoEntryAssumption
    <2>4. e.owner = p /\ e.gen = loc[p].g /\ e.ip = loc[p].a /\ ~e.pending
      BY <2>1 DEF Entries
    <2>5. registry' = [registry EXCEPT ![c] = e]
      BY <1>3, <1>6 DEF TypeOK
    <2> HIDE DEF e, new
    <2>6. registry'[c] = e /\ \A d \in Containers \ {c} : registry'[d] = registry[d]
      BY <1>3, <2>5 DEF TypeOK
    <2>7. SharedTypeOK'
      BY <1>1, <1>3, <2>2, <2>5, FaultsBounded DEF SharedTypeOK, life
    <2>8. Guarantee({p})
      BY <1>1, <1>3, <2>1, <2>4, <2>6, NoGenAssumption DEF Guarantee, life, IInv, LivesOK, TypeOK
    <2>9. Bound(s.c, p, s.g, s.a)'
      BY <1>4, <2>3, <2>4, <2>6 DEF Bound
    <2>10. AttemptAt(p, l, s)'
      BY <1>1, <1>3, <1>4, <2>9
      DEF AttemptAt, Unforked, Building, Leased, Undoing, Over, life
    <2> QED BY <1>1, <1>2, <1>3, <1>4, <2>7, <2>8, <2>10, OnwardKeepsIInv
  <1> QED BY <1>2, <1>5, <1>6

\* releaseBlockedChildWithBridge: from here on the payload has the leased
\* address.
LEMMA ReleaseKeepsIInv ==
  ASSUME IInv, NEW p \in Procs, Release(p)
  PROVE  IInv'
  <1> DEFINE g == loc[p].g
  <1>1. pc[p] = "release" /\ UNCHANGED <<tables, rec, tok, alive, forked, stopped, crashes, bridge>>
    BY DEF Release, At
  <1>2. /\ TypeOK /\ SharedTypeOK /\ AttemptAt(p, pc[p], loc[p])
        /\ g \in Gens /\ loc[p].a \in Addresses
    BY <1>1, Here DEF AttemptAt, Building, Leased
  <1>3. PICK s : s = loc[p]
    OBVIOUS
  <1>4. CASE /\ g \in alive /\ ip' = [ip EXCEPT ![g] = loc[p].a]
             /\ Goto(p, "wait") /\ Keep /\ NoFault
    <2>1. SharedTypeOK'
      BY <1>1, <1>2, <1>4, PoolAssumption DEF SharedTypeOK, tables, NoFault, Addresses
    <2>2. Guarantee({p})
      BY <1>1, <1>2, <1>4 DEF Guarantee, tables, TypeOK, IInv, LivesOK
    <2>3. AttemptAt(p, "wait", s)'
      BY <1>1, <1>2, <1>3 DEF AttemptAt, Unforked, Building, Leased, Undoing, Over
    <2> QED BY <1>3, <1>4, <2>1, <2>2, <2>3, OnwardKeepsIInv DEF Labels
  <1>5. CASE g \notin alive /\ Refuse(p, ip, Undo)
    <2>1. PICK l \in {"unwind", "hostnet"} : Refuse(p, ip, l)
      BY <1>5 DEF Undo
    <2>2. AttemptAt(p, l, s)'
      BY <1>1, <1>2, <1>3, <1>5, <2>1
      DEF AttemptAt, Unforked, Building, Leased, Undoing, Over, Refuse
    <2>3. Guarantee({p}) /\ SharedTypeOK'
      BY <1>1, <2>1, Untouched DEF tables, life, Refuse
    <2> QED BY <1>3, <2>1, <2>2, <2>3, OnwardKeepsIInv DEF Labels, Refuse
  <1> QED BY <1>4, <1>5 DEF Release

\* cmd.Wait returns for a generation that is dead, and leaves its lease alone.
LEMMA ReapKeepsIInv ==
  ASSUME IInv, NEW p \in Procs, Reap(p)
  PROVE  IInv'
  <1>1. /\ pc[p] = "wait" /\ loc[p].g \notin alive /\ Goto(p, "stop") /\ Keep
        /\ UNCHANGED <<tables, life, faults, crashes, bridge>>
    BY DEF Reap, At
  <1>2. AttemptAt(p, pc[p], loc[p])
    BY Here
  <1>3. PICK s : s = loc[p]
    OBVIOUS
  <1>4. AttemptAt(p, "stop", s)'
    BY <1>1, <1>2, <1>3 DEF AttemptAt, Unforked, Building, Leased, Undoing, Over, life
  <1>5. Guarantee({p}) /\ SharedTypeOK'
    BY <1>1, Untouched DEF NoFault
  <1> QED BY <1>1, <1>3, <1>4, <1>5, OnwardKeepsIInv DEF Labels

\* The generation cleanups drop rules and tokens, never records.
LEMMA OwnershipCleaned ==
  ASSUME TypeOK, NEW c \in Containers, NEW g,
         CleanupNetworkOwnership(c, g) \/ UNCHANGED <<dnat, tok>>
  PROVE  dnat' \subseteq Gens \X Addresses /\ tok' \in [Containers -> GenOrNone]
  BY DEF CleanupNetworkOwnership, TypeOK, GenOrNone

\* The cleanup of a custom network takes the rules of its own generation.
LEMMA UnwindHostKeepsIInv ==
  ASSUME IInv, NEW p \in Procs, UnwindHost(p)
  PROVE  IInv'
  <1>1. /\ pc[p] = "hostnet" /\ Goto(p, "unwind") /\ (Keep \/ Fails(p))
        /\ UNCHANGED <<registry, pool, life, crashes, bridge>>
        /\ NoFault \/ Fault
        /\ dnat' \subseteq dnat
    BY DEF UnwindHost, At, Save
  <1>2. TypeOK /\ AttemptAt(p, pc[p], loc[p])
    BY Here
  <1>3. Guarantee({p}) /\ SharedTypeOK'
    BY <1>1, <1>2, RecordsWritten DEF TypeOK, IInv, LivesOK, life
  <1>4. PICK s : s = loc[p]
    OBVIOUS
  <1>5. AttemptAt(p, "unwind", s)'
    BY <1>1, <1>2, <1>4 DEF AttemptAt, Unforked, Building, Leased, Undoing, Over, life
  <1> QED BY <1>1, <1>3, <1>4, <1>5, OnwardKeepsIInv DEF Labels

\* bridgeCleanup takes rules and token of its own, stopped generation.
LEMMA UnwindKeepsIInv ==
  ASSUME IInv, NEW p \in Procs, Unwind(p)
  PROVE  IInv'
  <1>1. /\ pc[p] = "unwind" /\ Goto(p, "unlease") /\ Keep
        /\ UNCHANGED <<registry, pool, rec, alive, ip, forked, stopped, crashes, bridge>>
        /\ NoFault \/ Fault
        /\ CleanupNetworkOwnership(loc[p].c, loc[p].g) \/ UNCHANGED <<dnat, tok>>
    BY DEF Unwind, At
  <1>2. TypeOK /\ AttemptAt(p, pc[p], loc[p]) /\ loc[p] \in Locals
    BY Here
  <1>3. dnat' \subseteq Gens \X Addresses /\ tok' \in [Containers -> GenOrNone]
    BY <1>1, <1>2, OwnershipCleaned DEF Locals
  <1>4. Guarantee({p}) /\ SharedTypeOK'
    BY <1>1, <1>2, <1>3, RecordsWritten DEF TypeOK, IInv, LivesOK
  <1>5. PICK s : s = loc[p]
    OBVIOUS
  <1>6. AttemptAt(p, "unlease", s)'
    BY <1>1, <1>2, <1>5 DEF AttemptAt, Unforked, Building, Leased, Undoing, Over
  <1> QED BY <1>1, <1>4, <1>5, <1>6, OnwardKeepsIInv DEF Labels

\* bridgeCleanup gives back the lease of a payload that was never let go.
LEMMA ReleaseLeaseKeepsIInv ==
  ASSUME IInv, NEW p \in Procs, ReleaseLease(p)
  PROVE  IInv'
  <1>1. /\ pc[p] = "unlease" /\ UNCHANGED <<registry, dnat, life, crashes, bridge>>
        /\ NoFault \/ Fault
        /\ Keep \/ Fails(p)
        /\ Goto(p, "kill") /\ pool' \in {pool, Unleased(loc[p].g)}
    BY DEF ReleaseLease, At, Save
  <1>2. TypeOK /\ AttemptAt(p, pc[p], loc[p])
    BY Here
  <1>3. pool' \in [Addresses -> GenOrNone]
    BY <1>1, <1>2 DEF Unleased, TypeOK, GenOrNone
  <1>4. \A a \in Addresses : pool'[a] # pool[a] => pool[a] = loc[p].g
    BY <1>1 DEF Unleased
  <1>5. Guarantee({p}) /\ SharedTypeOK'
    BY <1>1, <1>3, <1>4, PoolWritten
  <1>6. PICK s : s = loc[p]
    OBVIOUS
  <1>7. AttemptAt(p, "kill", s)'
    BY <1>1, <1>2, <1>6 DEF AttemptAt, Unforked, Building, Leased, Undoing, Over, life
  <1> QED BY <1>1, <1>5, <1>6, <1>7, OnwardKeepsIInv DEF Labels

\* abortBlockedChildChecked kills its own child, which was never let go.
LEMMA AbortKillKeepsIInv ==
  ASSUME IInv, NEW p \in Procs, AbortKill(p)
  PROVE  IInv'
  <1>1. /\ pc[p] = "kill" /\ Goto(p, "stop") /\ Keep /\ NoFault
        /\ alive' = alive \ {loc[p].g}
        /\ UNCHANGED <<tables, rec, tok, ip, forked, stopped, crashes, bridge>>
    BY DEF AbortKill, At
  <1>2. TypeOK /\ AttemptAt(p, pc[p], loc[p])
    BY Here
  <1>3. Guarantee({p}) /\ SharedTypeOK'
    BY <1>1, <1>2, RecordsWritten DEF TypeOK, IInv, LivesOK, tables
  <1>4. PICK s : s = loc[p]
    OBVIOUS
  <1>5. AttemptAt(p, "stop", s)'
    BY <1>1, <1>2, <1>4 DEF AttemptAt, Unforked, Building, Leased, Undoing, Over
  <1> QED BY <1>1, <1>3, <1>4, <1>5, OnwardKeepsIInv DEF Labels

\* A stop is recorded for a generation that was started.
LEMMA StopRecorded ==
  ASSUME IInv, NEW c \in Containers, NEW g, g \notin alive,
         MarkStopped(c, g) \/ UNCHANGED <<rec, stopped>>
  PROVE  /\ rec' \in [Containers -> Records]
         /\ stopped' \subseteq stopped \cup (forked \ alive)
         /\ \A d \in Containers : rec'[d].status = "running" => rec'[d].gen \in forked
  <1>1. TypeOK /\ rec[c] \in Records
    BY DEF IInv, TypeOK
  <1>2. CASE MarkStopped(c, g) /\ RunningAs(c, g)
    <2>1. g \in forked
      BY <1>2 DEF RunningAs, IInv, LivesOK
    <2>2. [rec[c] EXCEPT !.status = "stopped"] \in Records
      BY <1>1 DEF Records
    <2>3. rec' = [rec EXCEPT ![c] = [rec[c] EXCEPT !.status = "stopped"]]
      BY <1>1, <1>2 DEF MarkStopped, TypeOK
    <2>4. stopped' = stopped \cup {g}
      BY <1>2 DEF MarkStopped
    <2>5. [rec[c] EXCEPT !.status = "stopped"].status # "running"
      BY <1>1 DEF Records
    <2> QED BY <1>1, <2>1, <2>2, <2>3, <2>4, <2>5 DEF TypeOK, IInv, LivesOK
  <1>3. CASE UNCHANGED <<rec, stopped>>
    BY <1>1, <1>3 DEF TypeOK, IInv, LivesOK
  <1> QED BY <1>2, <1>3 DEF MarkStopped

\* MarkStoppedIfIdentity after the child was reaped: the stop is a death.
LEMMA MarkStoppedKeepsIInv ==
  ASSUME IInv, NEW p \in Procs, MarkStoppedP(p)
  PROVE  IInv'
  <1>1. /\ pc[p] = "stop" /\ UNCHANGED <<tables, tok, alive, ip, forked, crashes, bridge>>
        /\ NoFault \/ Fault
        /\ Keep \/ Fails(p)
        /\ MarkStopped(loc[p].c, loc[p].g) \/ UNCHANGED <<rec, stopped>>
    BY DEF MarkStoppedP, At
  <1>2. PICK l \in {"dns", "end"} : Goto(p, l)
    BY DEF MarkStoppedP
  <1>3. TypeOK /\ AttemptAt(p, pc[p], loc[p]) /\ loc[p].c \in Containers /\ loc[p].g \notin alive
    BY <1>1, Here DEF AttemptAt, Over, Locals
  <1>4. Guarantee({p}) /\ SharedTypeOK'
    BY <1>1, <1>3, StopRecorded, RecordsWritten DEF TypeOK, tables
  <1>5. PICK s : s = loc[p]
    OBVIOUS
  <1>6. AttemptAt(p, l, s)'
    BY <1>1, <1>2, <1>3, <1>5 DEF AttemptAt, Unforked, Building, Leased, Undoing, Over
  <1> QED BY <1>1, <1>2, <1>4, <1>5, <1>6, OnwardKeepsIInv DEF Labels

\* The cleanup of a dead generation keeps the entries of the living.
LEMMA RegistryCleaned ==
  ASSUME IInv, NEW c \in Containers, NEW g, g \notin alive
  PROVE  LET r == CleanedRegistry(c, g) IN
         /\ r \in [Containers -> Entries \cup {NoEntry}]
         /\ \A d \in Containers : r[d] \in {registry[d], NoEntry}
         /\ \A d \in Containers :
              registry[d] # NoEntry /\ registry[d].gen \in alive => r[d] = registry[d]
  BY DEF CleanedRegistry, cleanupStoppedHostRegistration, IInv, TypeOK

\* cleanupStoppedHostRegistration takes the entry of a stopped generation only.
LEMMA CleanupDNSKeepsIInv ==
  ASSUME IInv, NEW p \in Procs, CleanupDNS(p)
  PROVE  IInv'
  <1> DEFINE r == CleanedRegistry(loc[p].c, loc[p].g)
  <1>1. /\ pc[p] = "dns" /\ UNCHANGED <<pool, dnat, life, crashes, bridge>>
        /\ NoFault \/ Fault
        /\ Keep \/ Fails(p)
        /\ Goto(p, "net") /\ registry' \in {registry, r}
    BY DEF CleanupDNS, At, Save
  <1>2. TypeOK /\ AttemptAt(p, pc[p], loc[p]) /\ loc[p].c \in Containers /\ loc[p].g \notin alive
    BY <1>1, Here DEF AttemptAt, Over, Locals
  <1>3. /\ r \in [Containers -> Entries \cup {NoEntry}]
        /\ \A d \in Containers : r[d] \in {registry[d], NoEntry}
        /\ \A d \in Containers :
             registry[d] # NoEntry /\ registry[d].gen \in alive => r[d] = registry[d]
    BY <1>2, RegistryCleaned
  <1> HIDE DEF r
  <1>4. Guarantee({p}) /\ SharedTypeOK'
    BY <1>1, <1>2, <1>3, RegistryWritten DEF TypeOK
  <1>5. PICK s : s = loc[p]
    OBVIOUS
  <1>6. AttemptAt(p, "net", s)'
    BY <1>1, <1>2, <1>5 DEF AttemptAt, Unforked, Building, Leased, Undoing, Over, life
  <1> QED BY <1>1, <1>4, <1>5, <1>6, OnwardKeepsIInv DEF Labels

\* cleanupNetworkGenerationIfOwnedWith takes rules and token of a dead
\* generation.
LEMMA CleanupNetworkKeepsIInv ==
  ASSUME IInv, NEW p \in Procs, CleanupNetwork(p)
  PROVE  IInv'
  <1>1. /\ pc[p] = "net" /\ Goto(p, "end")
        /\ Keep \/ Fails(p)
        /\ UNCHANGED <<registry, pool, rec, alive, ip, forked, stopped, crashes, bridge>>
        /\ NoFault \/ Fault
        /\ CleanupNetworkOwnership(loc[p].c, loc[p].g) \/ UNCHANGED <<dnat, tok>>
    BY DEF CleanupNetwork, At
  <1>2. TypeOK /\ AttemptAt(p, pc[p], loc[p]) /\ loc[p] \in Locals
    BY Here
  <1>3. dnat' \subseteq Gens \X Addresses /\ tok' \in [Containers -> GenOrNone]
    BY <1>1, <1>2, OwnershipCleaned DEF Locals
  <1>4. Guarantee({p}) /\ SharedTypeOK'
    BY <1>1, <1>2, <1>3, RecordsWritten DEF TypeOK, IInv, LivesOK
  <1>5. PICK s : s = loc[p]
    OBVIOUS
  <1>6. AttemptAt(p, "end", s)'
    BY <1>1, <1>2, <1>5 DEF AttemptAt, Unforked, Building, Leased, Undoing, Over
  <1> QED BY <1>1, <1>4, <1>5, <1>6, OnwardKeepsIInv DEF Labels

\* rollbackNetworkAdmissionAfterRun takes back an entry that was never bound.
LEMMA EndKeepsIInv ==
  ASSUME IInv, NEW p \in Procs, End(p)
  PROVE  IInv'
  <1> DEFINE c == loc[p].c
             r == unregisterHostIfOwnedBy(registry, p, c)
  <1>1. pc[p] = "end" /\ UNCHANGED <<pool, dnat, life, crashes, bridge>>
    BY DEF End, At
  <1>2. /\ TypeOK /\ AttemptAt(p, pc[p], loc[p]) /\ c \in Containers /\ loc[p].g \notin alive
    BY <1>1, Here DEF AttemptAt, Over, Locals
  <1>3. PICK s : s = loc[p]
    OBVIOUS
  <1>4. AttemptAt(p, "finish", s)'
    BY <1>1, <1>2, <1>3 DEF AttemptAt, Unforked, Building, Leased, Undoing, Over, life
  <1>5. CASE Save(p, registry, r, "finish", "finish")
    <2>1. registry' \in {registry, r} /\ Goto(p, "finish")
      BY <1>5 DEF Save
    <2>2. NoFault \/ Fault
      BY <1>5 DEF Save
    <2>3. Keep \/ Fails(p)
      BY <1>5 DEF Save
    <2>4. /\ r \in [Containers -> Entries \cup {NoEntry}]
          /\ \A d \in Containers : r[d] \in {registry[d], NoEntry}
          /\ \A d \in Containers :
               registry[d] # NoEntry /\ registry[d].gen \in alive => r[d] = registry[d]
      BY <1>2 DEF unregisterHostIfOwnedBy, IInv, TypeOK, EntriesOK
    <2> HIDE DEF r
    <2>5. Guarantee({p}) /\ SharedTypeOK'
      BY <1>1, <1>2, <2>1, <2>2, <2>4, RegistryWritten DEF TypeOK
    <2> QED BY <1>3, <1>4, <2>1, <2>3, <2>5, OnwardKeepsIInv DEF Labels
  <1>6. CASE UNCHANGED <<registry, faults>> /\ Goto(p, "finish") /\ Keep
    <2>1. Guarantee({p}) /\ SharedTypeOK'
      BY <1>1, <1>6, Untouched DEF NoFault, tables
    <2> QED BY <1>3, <1>4, <1>6, <2>1, OnwardKeepsIInv DEF Labels
  <1>7. CASE /\ UNCHANGED <<registry, faults>>
             /\ Goto(p, "register") /\ loc' = [loc EXCEPT ![p] = NoAttempt(c)]
    BY <1>1, <1>2, <1>7, AnewKeepsIInv DEF tables
  <1> QED BY <1>5, <1>6, <1>7 DEF End

\* finalizeCreatedRunFailure stops a record that never ran.
LEMMA FinishKeepsIInv ==
  ASSUME IInv, NEW p \in Procs, Finish(p)
  PROVE  IInv'
  <1> DEFINE c == loc[p].c
             e == [rec[c] EXCEPT !.status = "stopped"]
  <1>1. /\ pc[p] = "finish" /\ Goto(p, "gone") /\ Keep /\ NoFault
        /\ UNCHANGED <<tables, tok, alive, ip, forked, stopped, crashes, bridge>>
        /\ rec' = rec \/ rec' = [rec EXCEPT ![c].status = "stopped"]
    BY DEF Finish, At
  <1>2. TypeOK /\ AttemptAt(p, pc[p], loc[p]) /\ c \in Containers /\ rec[c] \in Records
    BY Here DEF Locals, TypeOK
  <1>3. e \in Records /\ e.status # "running"
    BY <1>2 DEF Records
  <1>4. rec' = rec \/ rec' = [rec EXCEPT ![c] = e]
    BY <1>1, <1>2 DEF TypeOK
  <1> HIDE DEF e
  <1>5. /\ rec' \in [Containers -> Records]
        /\ \A d \in Containers : rec'[d].status = "running" => rec'[d].gen \in forked
    BY <1>2, <1>3, <1>4 DEF TypeOK, IInv, LivesOK
  <1>6. Guarantee({p}) /\ SharedTypeOK'
    BY <1>1, <1>2, <1>5, RecordsWritten DEF TypeOK, tables
  <1>7. PICK s : s = loc[p]
    OBVIOUS
  <1>8. AttemptAt(p, "gone", s)'
    BY <1>1, <1>2, <1>7 DEF AttemptAt, Unforked, Building, Leased, Undoing, Over
  <1> QED BY <1>1, <1>6, <1>7, <1>8, OnwardKeepsIInv DEF Labels

\* A parent that dies between two calls leaves what the others rely on.
LEMMA CrashKeepsIInv ==
  ASSUME IInv, NEW p \in Procs, Crash(p)
  PROVE  IInv'
  <1>1. /\ pc[p] # "gone" /\ Goto(p, "gone") /\ Keep
        /\ UNCHANGED <<tables, life, faults, bridge>> /\ crashes' \in 0..bridge.crashes
    BY Here, BridgeScenesAssumption DEF Crash, Keep, SharedTypeOK
  <1>2. SharedTypeOK /\ AttemptAt(p, pc[p], loc[p])
    BY Here
  <1>3. SharedTypeOK'
    BY <1>1, <1>2 DEF SharedTypeOK, tables, life
  <1>4. Guarantee({p})
    BY <1>1 DEF Guarantee, tables, life, IInv, LivesOK
  <1>5. PICK s : s = loc[p]
    OBVIOUS
  <1>6. AttemptAt(p, "gone", s)'
    BY <1>1, <1>2, <1>5 DEF AttemptAt, Unforked, Building, Leased, Undoing, Over, life
  <1> QED BY <1>1, <1>3, <1>4, <1>5, <1>6, OnwardKeepsIInv DEF Labels

-----------------------------------------------------------------------------
(* The steps of others                                                     *)

\* reconcile, stop and wait stop a generation they saw dead.
LEMMA ObserverMarksStoppedKeepsIInv ==
  ASSUME IInv, NEW c \in Containers, ObserverMarksStopped(c)
  PROVE  IInv'
  <1>1. /\ UNCHANGED <<tables, tok, alive, ip, forked, pc, loc, faults, crashes, bridge>>
        /\ rec[c].gen \notin alive /\ MarkStopped(c, rec[c].gen) /\ TypeOK
    BY DEF ObserverMarksStopped, IInv
  <1>2. /\ rec' \in [Containers -> Records]
        /\ stopped' \subseteq stopped \cup (forked \ alive)
        /\ \A d \in Containers : rec'[d].status = "running" => rec'[d].gen \in forked
    BY <1>1, StopRecorded
  <1>3. TypeOK'
    BY <1>1, <1>2 DEF TypeOK, tables
  <1>4. Guarantee({})
    BY <1>1, <1>2 DEF Guarantee, tables
  <1> QED BY <1>1, <1>3, <1>4, OutsideKeepsIInv

\* A late DNS cleanup names a stopped generation, so it spares the one that
\* runs.
LEMMA ObserverCleansDNSKeepsIInv ==
  ASSUME IInv, NEW c \in Containers, NEW g \in Gens, ObserverCleansDNS(c, g)
  PROVE  IInv'
  <1> DEFINE r == CleanedRegistry(c, g)
  <1>1. /\ UNCHANGED <<pool, dnat, life, pc, loc, faults, crashes, bridge>>
        /\ registry' = r /\ g \notin alive /\ TypeOK
    BY DEF ObserverCleansDNS, IInv, LivesOK
  <1>2. /\ r \in [Containers -> Entries \cup {NoEntry}]
        /\ \A d \in Containers : r[d] \in {registry[d], NoEntry}
        /\ \A d \in Containers :
             registry[d] # NoEntry /\ registry[d].gen \in alive => r[d] = registry[d]
    BY <1>1, RegistryCleaned
  <1> HIDE DEF r
  <1>3. TypeOK'
    BY <1>1, <1>2 DEF TypeOK, life
  <1>4. Guarantee({})
    BY <1>1, <1>2 DEF Guarantee, life, IInv, LivesOK
  <1> QED BY <1>1, <1>3, <1>4, OutsideKeepsIInv

\* A late network cleanup consumes the token of the stopped record.
LEMMA ObserverCleansNetworkKeepsIInv ==
  ASSUME IInv, NEW c \in Containers, ObserverCleansNetwork(c)
  PROVE  IInv'
  <1>1. /\ UNCHANGED <<registry, pool, rec, alive, ip, forked, stopped, pc, loc, faults, crashes, bridge>>
        /\ CleanupNetworkOwnership(c, tok[c]) /\ TypeOK
    BY DEF ObserverCleansNetwork, IInv
  <1>2. dnat' \subseteq Gens \X Addresses /\ tok' \in [Containers -> GenOrNone]
    BY <1>1, OwnershipCleaned
  <1>3. TypeOK'
    BY <1>1, <1>2 DEF TypeOK
  <1>4. Guarantee({})
    BY <1>1 DEF Guarantee, IInv, LivesOK
  <1> QED BY <1>1, <1>3, <1>4, OutsideKeepsIInv

\* A death takes away what would have to be shown.
LEMMA ChildDiesKeepsIInv ==
  ASSUME IInv, NEW g \in Gens, ChildDies(g)
  PROVE  IInv'
  <1>1. /\ UNCHANGED <<tables, rec, tok, ip, forked, stopped, pc, loc, faults, crashes, bridge>>
        /\ alive' = alive \ {g} /\ TypeOK
    BY DEF ChildDies, IInv
  <1>2. TypeOK'
    BY <1>1 DEF TypeOK, tables
  <1>3. Guarantee({})
    BY <1>1 DEF Guarantee, tables, IInv, LivesOK
  <1> QED BY <1>1, <1>2, <1>3, OutsideKeepsIInv

-----------------------------------------------------------------------------
(* The theorems                                                            *)

\* Nothing is leased, named or forked at first.
LEMMA InitIInv ==
  ASSUME Init
  PROVE  IInv
  <1>1. \A p \in Procs : loc[p] \in Locals /\ loc[p].g = NoGen /\ pc[p] = "idle"
    <2>1. (CHOOSE c \in Containers : TRUE) \in Containers
      BY ContainersAssumption
    <2>2. \A c \in Containers : NoAttempt(c) \in Locals /\ NoAttempt(c).g = NoGen
      BY PoolAssumption DEF NoAttempt, Locals, GenOrNone
    <2> QED BY <2>1, <2>2 DEF Init
  <1>2. TypeOK
    BY <1>1, BridgeScenesAssumption, PoolAssumption
    DEF Init, TypeOK, Records, GenOrNone, Labels
  <1>3. AttemptsOK /\ OneParent
    BY <1>1 DEF AttemptsOK, AttemptAt, OneParent, Unforked, Building, Leased, Undoing, Over
  <1>4. LivesOK /\ EntriesOK
    BY DEF Init, LivesOK, EntriesOK
  <1>5. PayloadOwnsItsAddress /\ PayloadDiscoverable /\ NameHasOneLiveOwner
    BY DEF Init, PayloadOwnsItsAddress, PayloadDiscoverable, NameHasOneLiveOwner, Payloads
  <1> QED BY <1>2, <1>3, <1>4, <1>5 DEF IInv

\* Every step of Next, and a stuttering one, keeps IInv.
LEMMA NextKeepsIInv ==
  ASSUME IInv, [Next]_vars
  PROVE  IInv'
  <1>1. ASSUME NEW p \in Procs, ProcStep(p) PROVE IInv'
    BY <1>1, BeginKeepsIInv, RegisterKeepsIInv, HostsSnapshotKeepsIInv, ForkKeepsIInv,
       MarkRunningKeepsIInv, ReconcileLeasesKeepsIInv, AllocateKeepsIInv, OwnNetworkKeepsIInv,
       SetupPortsKeepsIInv, BindKeepsIInv, ReleaseKeepsIInv, ReapKeepsIInv, UnwindHostKeepsIInv, UnwindKeepsIInv,
       ReleaseLeaseKeepsIInv, AbortKillKeepsIInv, MarkStoppedKeepsIInv, CleanupDNSKeepsIInv,
       CleanupNetworkKeepsIInv, EndKeepsIInv, FinishKeepsIInv
    DEF ProcStep
  <1>2. CASE UNCHANGED vars
    <2>1. UNCHANGED <<pc, loc>> /\ TypeOK'
      BY <1>2 DEF vars, tables, life, IInv, TypeOK
    <2>2. Guarantee({})
      BY <1>2 DEF vars, tables, life, Guarantee, IInv, LivesOK
    <2> QED BY <2>1, <2>2, OutsideKeepsIInv
  <1> QED BY <1>1, <1>2, CrashKeepsIInv, ObserverMarksStoppedKeepsIInv,
             ObserverCleansDNSKeepsIInv, ObserverCleansNetworkKeepsIInv, ChildDiesKeepsIInv
          DEF Next

\* IInv holds throughout: leases, names and tokens are what the attempts of
\* runOnce believe them to be.
THEOREM Inductive == Spec => []IInv
  <1>1. Init => IInv
    BY InitIInv
  <1>2. IInv /\ [Next]_vars => IInv'
    BY NextKeepsIInv
  <1> QED BY <1>1, <1>2, PTL DEF Spec

\* A payload keeps the lease of its address for as long as it runs, whatever
\* ReconcileGenerationIPs, AllocateIP and ReleaseGenerationIP do for others,
\* and whether or not the process that started it is still there.
THEOREM AddressesAreOwned == Spec => []PayloadOwnsItsAddress
  <1>1. IInv => PayloadOwnsItsAddress
    BY DEF IInv
  <1> QED BY <1>1, Inductive, PTL

\* No two payloads run with one address.
DistinctAddresses == \A g, h \in Payloads : ip[g] = ip[h] => g = h

\* What the lease is for: from the pool's file alone, two running payloads
\* never have one address.
THEOREM AddressesAreDistinct == Spec => []DistinctAddresses
  <1>1. IInv => DistinctAddresses
    BY DEF IInv, PayloadOwnsItsAddress, DistinctAddresses
  <1> QED BY <1>1, Inductive, PTL

\* The registry serves every running payload under its name and address, and
\* no name has two live owners: no admission, pruning, rollback or delayed
\* cleanup of another generation hides one.
THEOREM NamesServePayloads == Spec => []NameServesItsPayload
  <1>1. IInv => NameServesItsPayload
    BY DEF IInv, NameServesItsPayload
  <1> QED BY <1>1, Inductive, PTL

-----------------------------------------------------------------------------
(* The inductive invariant of the host's network.                           *)

\* The labels at which a parent holds the handoff lock, and those at which its
\* peer still has the common name.
Locked == {"create", "addr", "up", "move", "rollback", "unlock"}
Handing == {"addr", "up", "move"}
Par(o) == hnC[<<"parent", o>>]
Obs(o) == hnC[<<"observer", o>>]

AdminLabels == {"idle", "mark", "addr", "linkUp", "undo", "undoFailed", "delete", "done", "died"}
HnTyped == HnTypeOK /\ hnA \in [Admins -> AdminLabels]

\* One setup at a time has the name of the peer.
LockHeld == \A o \in Owners : hnP[o].pc \in Locked => hnLock = o
PeerHasASetup == \A q \in Owners :
  hnPair[q].peer = "host" => hnP[q].pc \in Handing \cup {"crashed"} \/ ~hnP[q].ok

\* What a cleaner of o has dealt with, as far as it has met no error.
Swept(r, o) ==
  /\ r.pc \in {"checkOut", "delOut", "find", "refind", "delLink", "clear"} =>
       o \notin hnRule["PREROUTING"]
  /\ r.pc \in {"find", "refind", "delLink", "clear"} => o \notin hnRule["OUTPUT"]
  /\ r.pc = "clear" => hnPair[o].st # "own"

\* A record says stopped only of a dead child, and an observer cleans only what
\* is stopped.
Lives(o) ==
  /\ o \in hnStopped => hnChild[o] = "dead"
  /\ o \in hnEarly => o \in hnStopped
  /\ Obs(o).pc # "idle" => o \in hnStopped
  /\ hnP[o].pc = "wait" => o \notin hnEarly

\* Rules belong to published ports.
Ported(o) ==
  /\ \A chain \in Chains : o \in hnRule[chain] => o \in hnScene.ports
  /\ hnP[o].pc \in {"pre", "out", "unpre"} => o \in hnScene.ports

\* The parent cleans after its setup, an observer that started in time as well,
\* and what both have swept stays swept; hence a token that is gone was of no
\* use any more.
Cleans(o) ==
  /\ Par(o).pc # "idle" => hnP[o].pc \in {"failed", "abort", "token"}
  /\ Obs(o).pc # "idle" /\ hnP[o].pc \in Settling => o \in hnEarly
  /\ ~Par(o).err => Swept(Par(o), o)
  /\ o \notin hnEarly /\ ~Obs(o).err => Swept(Obs(o), o)
  /\ hnP[o].pc \in Settling => o \in hnToken \cup hnEarly
  /\ Leftover(o) => o \in hnToken \cup hnEarly

\* The end of a parent that has met no error is clean.
Ends(o) ==
  /\ hnP[o].pc = "abort" /\ o \in hnEarly /\ Par(o).pc = "idle" /\ ~Par(o).err => ~Leftover(o)
  /\ hnP[o].pc = "token" /\ Par(o).pc = "idle" /\ ~Par(o).err => ~Leftover(o)
  /\ hnP[o].pc = "done" /\ hnP[o].ok => ~Leftover(o)

OwnerOK(o) == Lives(o) /\ Ported(o) /\ Cleans(o) /\ Ends(o)

HnIInv ==
  /\ HnTyped /\ LockHeld /\ PeerHasASetup /\ BareBridgeHasACause
  /\ \A o \in Owners : OwnerOK(o)

-----------------------------------------------------------------------------
(* What the step idioms do.                                                 *)

PairRecs == [st: {"none", "own", "foreign"}, peer: Owners \cup {NoOwner, "host"},
             up: BOOLEAN, master: BOOLEAN]
ParentRecs == [pc: ParentLabels, ok: BOOLEAN]
CleanerRecs == [pc: CleanerLabels, err: BOOLEAN, host: BOOLEAN]

Others(o) == \A q \in Owners \ {o} : hnP'[q] = hnP[q]

\* The parent moves to a label.
LEMMA Going ==
  ASSUME HnTyped, NEW o \in Owners, NEW l \in ParentLabels, PGoes(o, l)
  PROVE  /\ hnP' \in [Owners -> ParentRecs] /\ Others(o)
         /\ hnP'[o].pc = l /\ hnP'[o].ok = hnP[o].ok
  BY DEF HnTyped, HnTypeOK, PGoes, ParentRecs, Others

\* The parent moves to a label after an error.
LEMMA Failing ==
  ASSUME HnTyped, NEW o \in Owners, NEW l \in ParentLabels, PFails(o, l)
  PROVE  /\ hnP' \in [Owners -> ParentRecs] /\ Others(o)
         /\ hnP'[o].pc = l /\ hnP'[o].ok = FALSE
  BY DEF HnTyped, HnTypeOK, PFails, ParentRecs, Others

\* A request either takes one of the scene's failures or none.
LEMMA Faulting ==
  ASSUME HnTyped
  PROVE  /\ HnFault => hnTrouble' \in Nat /\ ~Acked
         /\ NoHnFault => hnTrouble' \in Nat /\ Acked
  BY DEF HnTyped, HnTypeOK, HnFault, NoHnFault, Acked

\* A request is acknowledged and the parent goes on, or the setup fails.
LEMMA Requesting ==
  ASSUME HnTyped, NEW o \in Owners, NEW can \in BOOLEAN, NEW next \in ParentLabels,
         NEW bad \in ParentLabels, NlDo(o, can, next, bad)
  PROVE  /\ hnP' \in [Owners -> ParentRecs] /\ hnTrouble' \in Nat /\ Others(o)
         /\ \/ can /\ Acked /\ hnP'[o].pc = next /\ hnP'[o].ok = hnP[o].ok
            \/ ~(can /\ Acked) /\ hnP'[o].pc = bad /\ hnP'[o].ok = FALSE
  <1>1. CASE can /\ NoHnFault /\ PGoes(o, next)
    BY <1>1, Going, Faulting
  <1>2. CASE ~can /\ NoHnFault /\ PFails(o, bad)
    BY <1>2, Failing, Faulting
  <1>3. CASE can /\ HnFault /\ PFails(o, bad)
    BY <1>3, Failing, Faulting
  <1> QED BY <1>1, <1>2, <1>3 DEF NlDo

\* A cleanup starts at the rules of published ports, else at the link.
LEMMA Starting ==
  ASSUME NEW o \in Owners, NEW b \in BOOLEAN
  PROVE  /\ CleanupStarts(o, b) \in CleanerRecs
         /\ CleanupStarts(o, b).pc = (IF o \in hnScene.ports THEN "checkPre" ELSE "find")
         /\ CleanupStarts(o, b).err = FALSE
  BY DEF CleanupStarts, Idle, CleanerRecs, CleanerLabels

\* One cleaner gets a new value.
LEMMA CleanerSet ==
  ASSUME HnTyped, NEW c \in Cleaners, NEW r \in CleanerRecs, hnC' = [hnC EXCEPT ![c] = r]
  PROVE  /\ hnC' \in [Cleaners -> CleanerRecs] /\ hnC'[c] = r
         /\ \A d \in Cleaners \ {c} : hnC'[d] = hnC[d]
  BY DEF HnTyped, HnTypeOK, CleanerRecs

\* A cleaner that goes on keeps what it has met so far.
LEMMA CleanerGoing ==
  ASSUME HnTyped, NEW c \in Cleaners, NEW l \in CleanerLabels, CGoes(c, l)
  PROVE  \E r \in CleanerRecs :
           hnC' = [hnC EXCEPT ![c] = r] /\ r.pc = l /\ r.err = hnC[c].err /\ r.host = hnC[c].host
  <1>1. hnC \in [Cleaners -> CleanerRecs]
    BY DEF HnTyped, HnTypeOK, CleanerRecs
  <1> DEFINE r == [hnC[c] EXCEPT !.pc = l]
  <1>2. r \in CleanerRecs /\ r.pc = l /\ r.err = hnC[c].err /\ r.host = hnC[c].host
    BY <1>1 DEF CleanerRecs
  <1>3. hnC' = [hnC EXCEPT ![c] = r]
    BY DEF CGoes
  <1> QED BY <1>2, <1>3

\* A cleaner that fails goes on and remembers the error.
LEMMA CleanerFailing ==
  ASSUME HnTyped, NEW c \in Cleaners, NEW l \in CleanerLabels, CFails(c, l)
  PROVE  \E r \in CleanerRecs : hnC' = [hnC EXCEPT ![c] = r] /\ r.pc = l /\ r.err = TRUE
  <1>1. hnC \in [Cleaners -> CleanerRecs]
    BY DEF HnTyped, HnTypeOK, CleanerRecs
  <1> DEFINE r == [hnC[c] EXCEPT !.pc = l, !.err = TRUE]
  <1>2. r \in CleanerRecs /\ r.pc = l /\ r.err = TRUE
    BY <1>1 DEF CleanerRecs
  <1>3. hnC' = [hnC EXCEPT ![c] = r]
    BY <1>1 DEF CFails, CleanerRecs
  <1> QED BY <1>2, <1>3

\* Every generation has two cleaners, and no two generations share one.
LEMMA TheCleaners ==
  ASSUME NEW o \in Owners
  PROVE  /\ <<"parent", o>> \in Cleaners /\ <<"observer", o>> \in Cleaners
         /\ \A q \in Owners : /\ <<"parent", o>> # <<"observer", q>>
                              /\ q # o => <<"parent", o>> # <<"parent", q>>
                              /\ q # o => <<"observer", o>> # <<"observer", q>>
  BY DEF Cleaners

\* Every cleaner is a parent's or an observer's.
LEMMA CleanersAre ==
  ASSUME NEW c \in Cleaners
  PROVE  c[2] \in Owners /\ c \in {<<"parent", c[2]>>, <<"observer", c[2]>>}
  BY DEF Cleaners

-----------------------------------------------------------------------------
(* Frame conditions.                                                        *)

\* The generation o is not concerned, unless by its child's end or because
\* something of it disappears.
Aside(o) ==
  /\ hnP'[o] = hnP[o] /\ hnC'[<<"parent", o>>] = Par(o) /\ hnC'[<<"observer", o>>] = Obs(o)
  /\ hnScene' = hnScene
  /\ o \in hnStopped' <=> o \in hnStopped
  /\ o \in hnToken' <=> o \in hnToken
  /\ o \in hnEarly' <=> o \in hnEarly
  /\ hnChild'[o] \in {hnChild[o], "dead"}

\* Nothing is added that belongs to o.
Shrinks(o) ==
  /\ hnPair'[o].st = "own" => hnPair[o].st = "own"
  /\ \A chain \in Chains : o \in hnRule'[chain] => o \in hnRule[chain]

\* What a cleaner has swept stays swept while nothing is added.
LEMMA ShrinkingIsSafe ==
  ASSUME NEW o \in Owners, Shrinks(o)
  PROVE  /\ Leftover(o)' => Leftover(o)
         /\ \A r \in CleanerRecs : Swept(r, o) => Swept(r, o)'
  BY DEF Shrinks, Leftover, Swept, Chains

\* A step that leaves a generation aside keeps its part of the invariant.
LEMMA AsideIsSafe ==
  ASSUME HnIInv, NEW o \in Owners, Aside(o), Shrinks(o)
  PROVE  OwnerOK(o)'
  <1>1. OwnerOK(o) /\ Par(o)' = Par(o) /\ Obs(o)' = Obs(o) /\ Par(o) \in CleanerRecs /\ Obs(o) \in CleanerRecs
    BY TheCleaners DEF HnIInv, Aside, Par, Obs, HnTyped, HnTypeOK, CleanerRecs
  <1>2. Leftover(o)' => Leftover(o)
    BY ShrinkingIsSafe
  <1>3. Lives(o)'
    BY <1>1 DEF OwnerOK, Lives, Aside
  <1>4. Ported(o)'
    BY <1>1 DEF OwnerOK, Ported, Aside, Shrinks
  <1>5. Cleans(o)'
    BY <1>1, <1>2, ShrinkingIsSafe DEF OwnerOK, Cleans, Aside
  <1>6. Ends(o)'
    BY <1>1, <1>2 DEF OwnerOK, Ends, Aside
  <1> QED BY <1>3, <1>4, <1>5, <1>6 DEF OwnerOK

\* A step that concerns o alone keeps the invariant if it is right for o.
LEMMA OneOwnerMoves ==
  ASSUME HnIInv, HnTyped', NEW o \in Owners, OwnerOK(o)',
         \A q \in Owners \ {o} : Aside(q) /\ Shrinks(q),
         \A q \in Owners \ {o} : hnPair'[q].peer = "host" => hnPair[q].peer = "host",
         hnP'[o].pc \in Locked => hnLock' = o,
         hnLock' = hnLock \/ hnLock \in {o, NoOwner},
         hnPair'[o].peer = "host" => hnP'[o].pc \in Handing \cup {"crashed"} \/ ~hnP'[o].ok,
         hnBr' = hnBr /\ hnA' = hnA
  PROVE  HnIInv'
  <1>1. \A q \in Owners : OwnerOK(q)'
    BY AsideIsSafe
  <1>2. LockHeld'
    <2> SUFFICES ASSUME NEW q \in Owners, hnP'[q].pc \in Locked PROVE hnLock' = q
      BY DEF LockHeld, Locked
    <2>1. CASE q # o
      <3>1. hnLock = q
        BY <2>1 DEF HnIInv, LockHeld, Aside
      <3> QED BY <2>1, <3>1, HostNetworkAssumption
    <2> QED BY <2>1
  <1>3. PeerHasASetup'
    BY DEF HnIInv, PeerHasASetup, Aside
  <1>4. BareBridgeHasACause'
    BY DEF HnIInv, BareBridgeHasACause
  <1> QED BY <1>1, <1>2, <1>3, <1>4 DEF HnIInv

-----------------------------------------------------------------------------
(* The setup.                                                               *)

Pairs == {f \in [Owners -> PairRecs] : \A o \in Owners : f[o].st # "own" => f[o].peer = NoOwner}

\* A step of o's setup that leaves records, cleaners and the bridge alone.
SetupFrame(o) ==
  /\ UNCHANGED <<hnLife, hnC, hnBr, hnA, hnScene>> /\ Others(o)
  /\ hnP' \in [Owners -> ParentRecs] /\ hnTrouble' \in Nat
  /\ hnPair' \in Pairs /\ hnRule' \in [Chains -> SUBSET Owners]
  /\ hnLock' \in Owners \cup {NoOwner}
  /\ \A q \in Owners \ {o} : Shrinks(q) /\ (hnPair'[q].peer = "host" => hnPair[q].peer = "host")
  /\ hnP[o].pc \in Settling
  /\ hnP'[o].pc \in Settling \cup {"release", "failed"}

\* A step inside the setup of o keeps the invariant if it keeps the handoff
\* lock, the name of the peer and the ports right.
LEMMA SetupKeeps ==
  ASSUME HnIInv, NEW o \in Owners, SetupFrame(o), Ported(o)',
         hnP'[o].pc \in Locked => hnLock' = o,
         hnLock' = hnLock \/ hnLock \in {o, NoOwner},
         hnPair'[o].peer = "host" => hnP'[o].pc \in Handing \cup {"crashed"} \/ ~hnP'[o].ok
  PROVE  HnIInv'
  <1>1. HnTyped'
    BY DEF HnIInv, HnTyped, HnTypeOK, SetupFrame, hnLife, Pairs, PairRecs, ParentRecs
  <1>2. \A q \in Owners \ {o} : Aside(q)
    BY DEF SetupFrame, Others, Aside, Par, Obs, hnLife
  <1>3. OwnerOK(o) /\ Par(o)' = Par(o) /\ Obs(o)' = Obs(o)
    BY DEF HnIInv, SetupFrame, Par, Obs
  <1>4. hnP'[o].pc \notin {"abort", "token", "done", "wait"} /\ hnP[o].pc \notin {"failed", "abort", "token"}
    BY DEF SetupFrame, Settling
  <1>5. Lives(o)'
    BY <1>3, <1>4 DEF OwnerOK, Lives, SetupFrame, hnLife
  <1>6. Cleans(o)'
    <2>1. Par(o).pc = "idle" /\ (o \in hnEarly \/ Obs(o).pc = "idle") /\ o \in hnToken \cup hnEarly
      BY <1>3, <1>4 DEF OwnerOK, Cleans, SetupFrame
    <2>2. hnToken' = hnToken /\ hnEarly' = hnEarly
      BY DEF SetupFrame, hnLife
    <2> QED BY <1>3, <2>1, <2>2 DEF Cleans, Swept
  <1>7. Ends(o)'
    BY <1>4 DEF Ends
  <1>8. OwnerOK(o)'
    BY <1>5, <1>6, <1>7 DEF OwnerOK
  <1> QED BY <1>1, <1>2, <1>8, OneOwnerMoves DEF SetupFrame

\* What the invariant says of a parent in its setup.
LEMMA InSetup ==
  ASSUME HnIInv, NEW o \in Owners
  PROVE  /\ hnPair \in Pairs /\ hnRule \in [Chains -> SUBSET Owners] /\ Ported(o)
         /\ hnLock \in Owners \cup {NoOwner} /\ hnTrouble \in Nat
         /\ hnP[o].ok \in BOOLEAN /\ hnPair[o] \in PairRecs
         /\ hnPair[o].peer = "host" => hnP[o].pc \in Handing \cup {"crashed"} \/ ~hnP[o].ok
         /\ hnP[o].pc \in Locked => hnLock = o
  BY DEF HnIInv, HnTyped, HnTypeOK, Pairs, PairRecs, OwnerOK, PeerHasASetup, LockHeld

\* withVethPeerHandoffLock waits for the lock of the common peer name.
LEMMA TakingTheLock ==
  ASSUME HnIInv, NEW o \in Owners, HnTakeLock(o)
  PROVE  HnIInv'
  <1>0. HnTyped /\ "create" \in ParentLabels
    BY DEF HnIInv, ParentLabels
  <1>1. /\ hnP' \in [Owners -> ParentRecs] /\ Others(o)
        /\ hnP'[o].pc = "create" /\ hnP'[o].ok = hnP[o].ok
    BY <1>0, Going DEF HnTakeLock
  <1>2. SetupFrame(o)
    BY <1>1, InSetup DEF SetupFrame, HnTakeLock, PAt, hnKernel, Shrinks, Settling
  <1>3. Ported(o)'
    BY <1>1, InSetup DEF Ported, HnTakeLock, hnKernel
  <1>4. hnPair'[o].peer = "host" => ~hnP'[o].ok
    BY <1>1, InSetup DEF HnTakeLock, PAt, hnKernel, Handing
  <1> QED BY <1>1, <1>2, <1>3, <1>4, SetupKeeps DEF HnTakeLock

\* createVethPair, which may meet a link of somebody else.
LEMMA CreatingThePair ==
  ASSUME HnIInv, NEW o \in Owners, CreateVethPair(o)
  PROVE  HnIInv'
  <1> DEFINE can == hnPair[o].st = "none" /\ \A q \in Owners : hnPair[q].peer # "host"
             new == [NoPair EXCEPT !.st = "own", !.peer = "host"]
  <1>0. HnTyped /\ {"addr", "unlock"} \subseteq ParentLabels
    BY DEF HnIInv, ParentLabels
  <1>1. /\ hnP' \in [Owners -> ParentRecs] /\ hnTrouble' \in Nat /\ Others(o)
        /\ \/ can /\ Acked /\ hnP'[o].pc = "addr" /\ hnP'[o].ok = hnP[o].ok
           \/ ~(can /\ Acked) /\ hnP'[o].pc = "unlock" /\ hnP'[o].ok = FALSE
    BY <1>0, Requesting DEF CreateVethPair
  <1>2. new \in PairRecs /\ new.st = "own"
    BY HostNetworkAssumption DEF NoPair, PairRecs
  <1>3. /\ hnPair' = IF can /\ Acked THEN [hnPair EXCEPT ![o] = new] ELSE hnPair
        /\ UNCHANGED <<hnRule, hnLock, hnLife, hnC, hnBr, hnA, hnScene>> /\ hnP[o].pc = "create"
    BY DEF CreateVethPair, PAt
  <1>4. hnPair' \in Pairs
    BY <1>2, <1>3, InSetup DEF Pairs
  <1>5. SetupFrame(o)
    BY <1>1, <1>3, <1>4, InSetup DEF SetupFrame, Shrinks, Settling, Pairs
  <1>6. Ported(o)'
    BY <1>1, <1>3, InSetup DEF Ported
  <1>7. hnPair'[o].peer = "host" => hnP'[o].pc \in Handing \/ ~hnP'[o].ok
    BY <1>1, <1>3, InSetup DEF Handing
  <1> QED BY <1>1, <1>3, <1>5, <1>6, <1>7, InSetup, SetupKeeps DEF Locked

\* A request that leaves what is there as it is, but for the flags of o's pair.
LEMMA FlagRequest ==
  ASSUME HnIInv, NEW o \in Owners, NEW can \in BOOLEAN, NEW next \in ParentLabels,
         NEW bad \in ParentLabels, NlDo(o, can, next, bad),
         hnP[o].pc \in Settling, {next, bad} \subseteq Settling \cup {"release", "failed"},
         hnPair' \in Pairs, UNCHANGED <<hnRule, hnLock, hnLife, hnC, hnBr, hnA, hnScene>>,
         \A q \in Owners : hnPair'[q].st = hnPair[q].st /\ hnPair'[q].peer = hnPair[q].peer,
         {next, bad} \cap Locked # {} => hnP[o].pc \in Locked,
         next \in Handing \/ hnPair[o].peer # "host" \/ ~hnP[o].ok,
         next \in {"pre", "out", "unpre"} => o \in hnScene.ports,
         bad \notin {"pre", "out", "unpre"}
  PROVE  HnIInv'
  <1>1. /\ hnP' \in [Owners -> ParentRecs] /\ hnTrouble' \in Nat /\ Others(o)
        /\ \/ hnP'[o].pc = next /\ hnP'[o].ok = hnP[o].ok
           \/ hnP'[o].pc = bad /\ hnP'[o].ok = FALSE
    <2>1. HnTyped
      BY DEF HnIInv
    <2>2. /\ hnP' \in [Owners -> ParentRecs] /\ hnTrouble' \in Nat /\ Others(o)
          /\ \/ can /\ Acked /\ hnP'[o].pc = next /\ hnP'[o].ok = hnP[o].ok
             \/ ~(can /\ Acked) /\ hnP'[o].pc = bad /\ hnP'[o].ok = FALSE
      BY <2>1, Requesting, Zenon
    <2> QED BY <2>2, Zenon
  <1>2. SetupFrame(o)
    BY <1>1, InSetup DEF SetupFrame, Shrinks
  <1>3. Ported(o)'
    BY <1>1, InSetup DEF Ported
  <1>4. hnPair'[o].peer = "host" => hnP'[o].pc \in Handing \/ ~hnP'[o].ok
    BY <1>1
  <1>5. hnP'[o].pc \in Locked => hnLock' = o
    BY <1>1, InSetup
  <1> QED BY <1>2, <1>3, <1>4, <1>5, SetupKeeps

\* The host end of the pair gets its address.
LEMMA AddingTheAddress ==
  ASSUME HnIInv, NEW o \in Owners, AddAddr(o)
  PROVE  HnIInv'
  <1>1. {"addr", "up", "rollback"} \subseteq ParentLabels \cap Settling \cap Locked
    BY DEF ParentLabels, Settling, Locked
  <1>2. "up" \in Handing /\ {"up", "rollback"} \cap {"pre", "out", "unpre"} = {}
    BY DEF Handing
  <1> DEFINE can == hnPair[o].st = "own"
  <1>3. hnP[o].pc = "addr" /\ can \in BOOLEAN /\ NlDo(o, can, "up", "rollback")
    BY DEF AddAddr, PAt
  <1>4. UNCHANGED <<hnPair, hnRule, hnLock, hnLife, hnC, hnBr, hnA, hnScene>>
    BY DEF AddAddr, hnKernel
  <1> HIDE DEF can
  <1> QED BY <1>1, <1>2, <1>3, <1>4, FlagRequest, InSetup

\* Flags of a link are not what the invariant is about.
LEMMA Flagging ==
  ASSUME hnPair \in Pairs, NEW o \in Owners,
         hnPair' \in {hnPair, [hnPair EXCEPT ![o] = [hnPair[o] EXCEPT !.up = TRUE]],
                      [hnPair EXCEPT ![o] = [hnPair[o] EXCEPT !.master = TRUE]]}
  PROVE  /\ hnPair' \in Pairs
         /\ \A q \in Owners : hnPair'[q].st = hnPair[q].st /\ hnPair'[q].peer = hnPair[q].peer
  <1>1. hnPair[o] \in PairRecs
    BY DEF Pairs
  <1>2. \A r \in {[hnPair[o] EXCEPT !.up = TRUE], [hnPair[o] EXCEPT !.master = TRUE]} :
          r \in PairRecs /\ r.st = hnPair[o].st /\ r.peer = hnPair[o].peer
    BY <1>1 DEF PairRecs
  <1> QED BY <1>2 DEF Pairs

\* The host end of the pair is brought up.
LEMMA SettingUp ==
  ASSUME HnIInv, NEW o \in Owners, SetLinkUp(o)
  PROVE  HnIInv'
  <1>1. {"up", "move", "rollback"} \subseteq ParentLabels \cap Settling \cap Locked
    BY DEF ParentLabels, Settling, Locked
  <1>2. "move" \in Handing /\ {"move", "rollback"} \cap {"pre", "out", "unpre"} = {}
    BY DEF Handing
  <1> DEFINE can == hnPair[o].st = "own"
  <1>3. hnP[o].pc = "up" /\ can \in BOOLEAN /\ NlDo(o, can, "move", "rollback")
    BY DEF SetLinkUp, PAt
  <1>4. /\ UNCHANGED <<hnRule, hnLock, hnLife, hnC, hnBr, hnA, hnScene>>
        /\ hnPair' \in {hnPair, [hnPair EXCEPT ![o] = [hnPair[o] EXCEPT !.up = TRUE]]}
    BY DEF SetLinkUp
  <1>5. /\ hnPair' \in Pairs
        /\ \A q \in Owners : hnPair'[q].st = hnPair[q].st /\ hnPair'[q].peer = hnPair[q].peer
    BY <1>4, InSetup, Flagging
  <1> HIDE DEF can
  <1> QED BY <1>1, <1>2, <1>3, <1>4, <1>5, FlagRequest

\* Port rules are next only when ports are published.
LEMMA Publishing ==
  ASSUME NEW o \in Owners
  PROVE  /\ Publish(o) \in ParentLabels \cap (Settling \cup {"release"})
         /\ Publish(o) \notin Locked \cup Handing \cup {"out", "unpre"}
         /\ Publish(o) = "pre" => o \in hnScene.ports
  BY DEF Publish, ParentLabels, Settling, Locked, Handing

\* The host end joins the bridge of a custom network.
LEMMA Attaching ==
  ASSUME HnIInv, NEW o \in Owners, AttachVeth(o)
  PROVE  HnIInv'
  <1>1. /\ "failed" \in ParentLabels /\ "attach" \in Settling /\ "attach" \notin Handing
        /\ "failed" \notin Locked
    BY DEF ParentLabels, Settling, Locked, Handing
  <1> DEFINE can == hnPair[o].st = "own" /\ hnBr # "none"
  <1>3. hnP[o].pc = "attach" /\ can \in BOOLEAN /\ NlDo(o, can, Publish(o), "failed")
    BY DEF AttachVeth, PAt
  <1>4. /\ UNCHANGED <<hnRule, hnLock, hnLife, hnC, hnBr, hnA, hnScene>>
        /\ hnPair' \in {hnPair, [hnPair EXCEPT ![o] = [hnPair[o] EXCEPT !.master = TRUE]]}
    BY DEF AttachVeth
  <1>5. /\ hnPair' \in Pairs
        /\ \A q \in Owners : hnPair'[q].st = hnPair[q].st /\ hnPair'[q].peer = hnPair[q].peer
    BY <1>4, InSetup, Flagging
  <1>6. hnPair[o].peer # "host" \/ ~hnP[o].ok
    BY <1>1, <1>3, InSetup
  <1> HIDE DEF can
  <1> QED BY <1>1, <1>3, <1>4, <1>5, <1>6, FlagRequest, Publishing

\* The peer that is called by the common name is o's own.
LEMMA Moving ==
  ASSUME HnIInv, NEW o \in Owners, MoveToNetns(o)
  PROVE  HnIInv'
  <1> DEFINE named == {q \in Owners : hnPair[q].peer = "host"}
             can == named # {} /\ hnChild[o] # "dead"
             moved == [q \in Owners |-> IF q \in named THEN [hnPair[q] EXCEPT !.peer = o] ELSE hnPair[q]]
  <1>0. HnTyped /\ {"unlock", "rollback"} \subseteq ParentLabels /\ can \in BOOLEAN
    BY DEF HnIInv, ParentLabels
  <1>1. /\ hnP' \in [Owners -> ParentRecs] /\ hnTrouble' \in Nat /\ Others(o)
        /\ \/ can /\ Acked /\ hnP'[o].pc = "unlock" /\ hnP'[o].ok = hnP[o].ok
           \/ ~(can /\ Acked) /\ hnP'[o].pc = "rollback" /\ hnP'[o].ok = FALSE
    <2>1. NlDo(o, can, "unlock", "rollback")
      BY DEF MoveToNetns
    <2> HIDE DEF can
    <2> QED BY <1>0, <2>1, Requesting
  <1>2. /\ hnPair' = IF can /\ Acked THEN moved ELSE hnPair
        /\ UNCHANGED <<hnRule, hnLock, hnLife, hnC, hnBr, hnA, hnScene>> /\ hnP[o].pc = "move"
    BY DEF MoveToNetns, PAt
  <1>3. moved \in Pairs /\ \A q \in Owners : /\ moved[q].st = hnPair[q].st
                                             /\ moved[q].peer # "host"
    <2> SUFFICES ASSUME NEW q \in Owners
                 PROVE  /\ moved[q] \in PairRecs /\ moved[q].st = hnPair[q].st
                        /\ moved[q].peer # "host" /\ (moved[q].st # "own" => moved[q].peer = NoOwner)
      BY DEF Pairs
    <2>1. hnPair[q] \in PairRecs /\ (hnPair[q].st # "own" => hnPair[q].peer = NoOwner)
      BY InSetup DEF Pairs
    <2>2. CASE q \in named
      BY <2>1, <2>2, HostNetworkAssumption DEF PairRecs
    <2>3. CASE q \notin named
      BY <2>1, <2>3
    <2> QED BY <2>2, <2>3
  <1> HIDE DEF can, moved
  <1>4. /\ hnPair' \in Pairs
        /\ \A q \in Owners : /\ hnPair'[q].st = hnPair[q].st
                             /\ hnPair'[q].peer = "host" => hnPair[q].peer = "host"
    BY <1>2, <1>3, InSetup
  <1>5. SetupFrame(o)
    BY <1>1, <1>2, <1>4, InSetup DEF SetupFrame, Shrinks, Settling
  <1>6. Ported(o)'
    BY <1>1, <1>2, InSetup DEF Ported
  <1>7. hnPair'[o].peer = "host" => ~hnP'[o].ok
    BY <1>1, <1>2, <1>3
  <1> QED BY <1>1, <1>2, <1>5, <1>6, <1>7, InSetup, SetupKeeps DEF Locked

\* A failed setup takes its own pair back, or fails to.
LEMMA RollingBack ==
  ASSUME HnIInv, NEW o \in Owners, RollbackVeth(o)
  PROVE  HnIInv'
  <1>0. HnTyped /\ "unlock" \in ParentLabels
    BY DEF HnIInv, ParentLabels
  <1>1. /\ hnP' \in [Owners -> ParentRecs] /\ Others(o)
        /\ hnP'[o].pc = "unlock" /\ hnP'[o].ok = hnP[o].ok /\ hnTrouble' \in Nat
    BY <1>0, Going, Faulting DEF RollbackVeth
  <1>2. /\ hnPair' = hnPair \/ (hnPair' = [hnPair EXCEPT ![o] = NoPair])
        /\ UNCHANGED <<hnRule, hnLock, hnLife, hnC, hnBr, hnA, hnScene>> /\ hnP[o].pc = "rollback"
    BY DEF RollbackVeth, PAt
  <1>3. NoPair \in PairRecs /\ NoPair.st = "none" /\ NoPair.peer = NoOwner /\ NoOwner # "host"
    BY HostNetworkAssumption DEF NoPair, PairRecs
  <1>4. hnPair' \in Pairs /\ \A q \in Owners : Shrinks(q)
    BY <1>2, <1>3, InSetup DEF Pairs, Shrinks
  <1>5. SetupFrame(o)
    BY <1>1, <1>2, <1>4, InSetup DEF SetupFrame, Settling, Pairs
  <1>6. Ported(o)'
    BY <1>1, <1>2, InSetup DEF Ported
  <1>7. hnPair'[o].peer = "host" => ~hnP'[o].ok
    BY <1>1, <1>2, <1>3, InSetup DEF Handing, Pairs
  <1> QED BY <1>1, <1>2, <1>5, <1>6, <1>7, InSetup, SetupKeeps DEF Locked

\* A step of the setup that moves the parent and nothing else but the lock.
LEMMA PlainMove ==
  ASSUME HnIInv, NEW o \in Owners, NEW l \in ParentLabels, PGoes(o, l),
         UNCHANGED <<hnPair, hnRule, hnLife, hnC, hnBr, hnA, hnTrouble, hnScene>>,
         hnLock' = hnLock \/ (hnLock = o /\ hnLock' = NoOwner),
         hnP[o].pc \in Settling \ Handing, l \in (Settling \cup {"release", "failed"}) \ Locked,
         l \in {"pre", "out", "unpre"} => o \in hnScene.ports
  PROVE  HnIInv'
  <1>1. /\ hnP' \in [Owners -> ParentRecs] /\ Others(o)
        /\ hnP'[o].pc = l /\ hnP'[o].ok = hnP[o].ok
    BY Going DEF HnIInv
  <1>2. SetupFrame(o)
    BY <1>1, InSetup DEF SetupFrame, Shrinks
  <1>3. Ported(o)'
    BY <1>1, InSetup DEF Ported
  <1>4. hnPair'[o].peer = "host" => ~hnP'[o].ok
    BY <1>1, InSetup DEF Settling
  <1> QED BY <1>1, <1>2, <1>3, <1>4, SetupKeeps

\* The handoff lock is released, whatever the setup's result.
LEMMA Unlocking ==
  ASSUME HnIInv, NEW o \in Owners, HnUnlock(o)
  PROVE  HnIInv'
  <1> DEFINE l == IF ~hnP[o].ok THEN "failed" ELSE IF o \in Custom THEN "inspect" ELSE Publish(o)
  <1>1. /\ l \in (Settling \cup {"release", "failed"}) \ Locked /\ l \in ParentLabels
        /\ l \in {"pre", "out", "unpre"} => o \in hnScene.ports
    BY Publishing DEF ParentLabels, Settling, Locked
  <1>2. hnP[o].pc = "unlock" /\ "unlock" \in Settling \ Handing
    BY DEF HnUnlock, PAt, Settling, Handing
  <1>3. /\ UNCHANGED <<hnPair, hnRule, hnLife, hnC, hnBr, hnA, hnTrouble, hnScene>> /\ PGoes(o, l)
        /\ hnLock' = hnLock \/ (hnLock = o /\ hnLock' = NoOwner)
    BY DEF HnUnlock, hnKernel
  <1> HIDE DEF l
  <1> QED BY <1>1, <1>2, <1>3, PlainMove

\* A custom network's bridge is looked up before the link is attached.
LEMMA Inspecting ==
  ASSUME HnIInv, NEW o \in Owners, InspectBridge(o)
  PROVE  HnIInv'
  <1> DEFINE l == IF hnBr \in {"marked", "addressed", "up"} THEN "attach" ELSE "failed"
  <1>1. /\ l \in (Settling \cup {"release", "failed"}) \ Locked /\ l \in ParentLabels
        /\ l \notin {"pre", "out", "unpre"}
    BY DEF ParentLabels, Settling, Locked
  <1>2. hnP[o].pc = "inspect" /\ "inspect" \in Settling \ Handing
    BY DEF InspectBridge, PAt, Settling, Handing
  <1>3. UNCHANGED <<hnPair, hnRule, hnLock, hnLife, hnC, hnBr, hnA, hnTrouble, hnScene>> /\ PGoes(o, l)
    BY DEF InspectBridge, hnKernel
  <1> HIDE DEF l
  <1> QED BY <1>1, <1>2, <1>3, PlainMove

\* A step of the setup that moves the parent and changes its rules.
LEMMA RuleMove ==
  ASSUME HnIInv, NEW o \in Owners, NEW l \in ParentLabels, PGoes(o, l),
         UNCHANGED <<hnPair, hnLock, hnLife, hnC, hnBr, hnA, hnScene>>, HnFault \/ NoHnFault,
         NEW chain \in Chains, NEW r \in SUBSET Owners,
         hnRule' = hnRule \/ hnRule' = [hnRule EXCEPT ![chain] = r],
         \A q \in Owners \ {o} : q \in r => q \in hnRule[chain],
         hnP[o].pc \in {"pre", "out", "unpre"}, l \in {"out", "unpre", "release", "failed"}
  PROVE  HnIInv'
  <1>1. /\ hnP' \in [Owners -> ParentRecs] /\ Others(o)
        /\ hnP'[o].pc = l /\ hnP'[o].ok = hnP[o].ok
    BY Going DEF HnIInv
  <1>2. hnTrouble' \in Nat /\ hnRule' \in [Chains -> SUBSET Owners] /\ o \in hnScene.ports
    BY Faulting, InSetup DEF HnIInv, Ported
  <1>3. \A q \in Owners \ {o} : Shrinks(q)
    BY InSetup DEF Shrinks
  <1>4. /\ hnP[o].pc \in Settling /\ hnP'[o].pc \in Settling \cup {"release", "failed"}
        /\ hnP'[o].pc \notin Locked /\ hnP[o].pc \notin Handing \cup {"crashed"}
    BY <1>1 DEF Settling, Locked, Handing
  <1>5. SetupFrame(o)
    BY <1>1, <1>2, <1>3, <1>4, InSetup DEF SetupFrame
  <1>6. Ported(o)'
    BY <1>2 DEF Ported
  <1>7. hnPair'[o].peer = "host" => ~hnP'[o].ok
    BY <1>1, <1>4, InSetup
  <1> QED BY <1>4, <1>5, <1>6, <1>7, SetupKeeps

\* A published port's rule is inserted into a chain.
LEMMA AddingARule ==
  ASSUME HnIInv, NEW o \in Owners, NEW chain \in Chains, AddRule(o, chain)
  PROVE  HnIInv'
  <1>1. {"out", "unpre", "release", "failed"} \subseteq ParentLabels
    BY DEF ParentLabels
  <1>2. hnP[o].pc \in {"pre", "out"} /\ UNCHANGED <<hnPair, hnLock, hnLife, hnC, hnBr, hnA, hnScene>>
    BY DEF AddRule, PAt
  <1> DEFINE r == hnRule[chain] \cup {o}
  <1>3. r \in SUBSET Owners /\ \A q \in Owners \ {o} : q \in r => q \in hnRule[chain]
    BY InSetup
  <1>4. \E l \in {"out", "unpre", "release", "failed"} : PGoes(o, l)
    BY DEF AddRule
  <1>5. /\ HnFault \/ NoHnFault
        /\ hnRule' = hnRule \/ hnRule' = [hnRule EXCEPT ![chain] = r]
    BY DEF AddRule
  <1> HIDE DEF r
  <1> QED BY <1>1, <1>2, <1>3, <1>4, <1>5, RuleMove

\* The first chain's rule is taken back when the second could not be added.
LEMMA TakingARuleBack ==
  ASSUME HnIInv, NEW o \in Owners, RollbackRule(o)
  PROVE  HnIInv'
  <1>1. "failed" \in ParentLabels /\ "PREROUTING" \in Chains
    BY DEF ParentLabels, Chains
  <1>2. hnP[o].pc = "unpre" /\ UNCHANGED <<hnPair, hnLock, hnLife, hnC, hnBr, hnA, hnScene>>
    BY DEF RollbackRule, PAt
  <1> DEFINE r == hnRule["PREROUTING"] \ {o}
  <1>3. r \in SUBSET Owners /\ \A q \in Owners \ {o} : q \in r => q \in hnRule["PREROUTING"]
    BY <1>1, InSetup
  <1>4. /\ HnFault \/ NoHnFault
        /\ hnRule' = hnRule \/ hnRule' = [hnRule EXCEPT !["PREROUTING"] = r]
        /\ PGoes(o, "failed")
    BY DEF RollbackRule
  <1> HIDE DEF r
  <1> QED BY <1>1, <1>2, <1>3, <1>4, RuleMove

-----------------------------------------------------------------------------
(* The end of the setup and of the generation.                              *)

\* A step that leaves the kernel and the bridge alone.
RecordFrame(o) ==
  /\ UNCHANGED <<hnKernel, hnA, hnScene>> /\ Others(o)
  /\ hnP' \in [Owners -> ParentRecs] /\ hnC' \in [Cleaners -> CleanerRecs]
  /\ hnTrouble' \in Nat /\ hnLock' \in Owners \cup {NoOwner}
  /\ hnChild' \in [Owners -> {"blocked", "released", "ready", "dead"}]
  /\ hnStopped' \subseteq Owners /\ hnToken' \subseteq Owners /\ hnEarly' \subseteq Owners
  /\ \A q \in Owners \ {o} : Aside(q)

\* A step on the record of o alone keeps the invariant if it keeps o's part.
LEMMA RecordKeeps ==
  ASSUME HnIInv, NEW o \in Owners, RecordFrame(o), OwnerOK(o)',
         hnP'[o].pc \in Locked => hnLock' = o,
         hnLock' = hnLock \/ hnLock \in {o, NoOwner},
         hnPair[o].peer = "host" => hnP'[o].pc \in Handing \cup {"crashed"} \/ ~hnP'[o].ok
  PROVE  HnIInv'
  <1>1. HnTyped'
    BY DEF HnIInv, HnTyped, HnTypeOK, RecordFrame, hnKernel, CleanerRecs, ParentRecs
  <1>2. \A q \in Owners : Shrinks(q)
    BY DEF RecordFrame, hnKernel, Shrinks
  <1> QED BY <1>1, <1>2, OneOwnerMoves DEF RecordFrame, hnKernel

\* What is left is left as long as the kernel's state is the same.
LEMMA SameLeftover ==
  ASSUME UNCHANGED <<hnPair, hnRule>>, NEW o \in Owners
  PROVE  /\ Leftover(o)' <=> Leftover(o)
         /\ \A r \in CleanerRecs : Swept(r, o)' <=> Swept(r, o)
  BY DEF Leftover, Swept

\* The types of what concerns a generation.
LEMMA Known ==
  ASSUME HnIInv, NEW o \in Owners
  PROVE  /\ HnTyped /\ OwnerOK(o) /\ Par(o) \in CleanerRecs /\ Obs(o) \in CleanerRecs
         /\ hnP \in [Owners -> ParentRecs] /\ hnC \in [Cleaners -> CleanerRecs]
         /\ hnChild \in [Owners -> {"blocked", "released", "ready", "dead"}]
         /\ hnStopped \subseteq Owners /\ hnToken \subseteq Owners /\ hnEarly \subseteq Owners
  BY TheCleaners DEF HnIInv, HnTyped, HnTypeOK, Par, Obs, ParentRecs, CleanerRecs

\* The parent lets its child go, or finds it dead.
LEMMA Releasing ==
  ASSUME HnIInv, NEW o \in Owners, ReleaseChild(o)
  PROVE  HnIInv'
  <1>1. PICK l \in {"broken", "wait"} :
          /\ PGoes(o, l) /\ hnP[o].pc = "release"
          /\ l = "wait" => hnChild[o] # "dead"
          /\ \/ hnChild' = hnChild
             \/ hnChild[o] # "dead" /\ hnChild' = [hnChild EXCEPT ![o] = "released"]
    BY DEF ReleaseChild, PAt
  <1>2. l \in ParentLabels /\ l \notin Locked \cup Settling
    BY DEF ParentLabels, Locked, Settling
  <1>3. /\ hnP' \in [Owners -> ParentRecs] /\ Others(o)
        /\ hnP'[o].pc = l /\ hnP'[o].ok = hnP[o].ok
    BY <1>1, <1>2, Going, Known
  <1>4. UNCHANGED <<hnKernel, hnLock, hnStopped, hnToken, hnEarly, hnC, hnA, hnTrouble, hnScene>>
    BY DEF ReleaseChild
  <1>5. RecordFrame(o)
    BY <1>1, <1>3, <1>4, Known, InSetup DEF RecordFrame, Others, Aside, Par, Obs
  <1>6. OwnerOK(o)'
    <2>1. Par(o)' = Par(o) /\ Obs(o)' = Obs(o) /\ OwnerOK(o) /\ Par(o).pc = "idle"
      BY <1>1, <1>4, Known DEF Par, Obs, OwnerOK, Cleans
    <2>2. Lives(o)'
      BY <1>1, <1>3, <1>4, <2>1, Known DEF OwnerOK, Lives
    <2>3. Ported(o)'
      BY <1>1, <1>3, <1>4, <2>1 DEF OwnerOK, Ported, hnKernel
    <2>4. Cleans(o)'
      BY <1>1, <1>2, <1>3, <1>4, <2>1, SameLeftover, Known DEF OwnerOK, Cleans, hnKernel
    <2>5. Ends(o)'
      BY <1>1, <1>3 DEF Ends
    <2> QED BY <2>2, <2>3, <2>4, <2>5 DEF OwnerOK
  <1>7. hnPair[o].peer = "host" => ~hnP'[o].ok
    BY <1>1, <1>3, InSetup DEF Handing
  <1> QED BY <1>2, <1>3, <1>4, <1>5, <1>6, <1>7, RecordKeeps

\* A cleanup that starts has swept nothing, or has no rule to look for.
LEMMA StartIsSwept ==
  ASSUME HnIInv, NEW o \in Owners, NEW b \in BOOLEAN
  PROVE  \E r \in CleanerRecs : /\ r = CleanupStarts(o, b) /\ Swept(r, o)
                                 /\ r.pc \in {"checkPre", "find"} /\ r.err = FALSE
  <1>1. PICK r \in CleanerRecs : r = CleanupStarts(o, b)
    BY Starting
  <1>2. r.pc = (IF o \in hnScene.ports THEN "checkPre" ELSE "find") /\ r.err = FALSE
    BY <1>1, Starting
  <1>3. Swept(r, o)
    BY <1>2, Known DEF Swept, OwnerOK, Ported, Chains
  <1> QED BY <1>1, <1>2, <1>3

\* The parent starts a cleanup, or goes on without one.
LEMMA ParentStarts ==
  ASSUME HnIInv, NEW o \in Owners, NEW b \in BOOLEAN,
         hnC' = hnC \/ hnC' = [hnC EXCEPT ![<<"parent", o>>] = CleanupStarts(o, b)]
  PROVE  /\ hnC' \in [Cleaners -> CleanerRecs] /\ Obs(o)' = Obs(o)
         /\ \A q \in Owners \ {o} : hnC'[<<"parent", q>>] = Par(q) /\ hnC'[<<"observer", q>>] = Obs(q)
         /\ hnC' = hnC => Par(o)' = Par(o)
         /\ hnC' # hnC => Par(o)' = CleanupStarts(o, b)
  BY Known, TheCleaners, CleanerSet, Starting DEF Par, Obs

\* The cleanup of a setup whose child could not be released.
LEMMA AfterABrokenRelease ==
  ASSUME HnIInv, NEW o \in Owners, ReleaseFailed(o)
  PROVE  HnIInv'
  <1>1. /\ hnP[o].pc = "broken" /\ PGoes(o, "failed")
        /\ hnC' = hnC \/ hnC' = [hnC EXCEPT ![<<"parent", o>>] = CleanupStarts(o, TRUE)]
        /\ UNCHANGED <<hnKernel, hnLock, hnLife, hnA, hnTrouble, hnScene>>
    BY DEF ReleaseFailed, PAt
  <1>2. "failed" \in ParentLabels /\ "failed" \notin Locked \cup Settling
    BY DEF ParentLabels, Locked, Settling
  <1>3. /\ hnP' \in [Owners -> ParentRecs] /\ Others(o)
        /\ hnP'[o].pc = "failed" /\ hnP'[o].ok = hnP[o].ok
    BY <1>1, <1>2, Going, Known
  <1>4. RecordFrame(o)
    BY <1>1, <1>3, ParentStarts, Known, InSetup DEF RecordFrame, Others, Aside, hnLife
  <1>5. OwnerOK(o)'
    <2>0. PICK r \in CleanerRecs : /\ r = CleanupStarts(o, TRUE) /\ Swept(r, o)
                                   /\ r.pc \in {"checkPre", "find"} /\ r.err = FALSE
      BY StartIsSwept
    <2>1. Obs(o)' = Obs(o) /\ Par(o)' \in {Par(o), r} /\ OwnerOK(o)
          /\ Par(o).pc = "idle"
      BY <1>1, <2>0, ParentStarts, Known DEF OwnerOK, Cleans
    <2>2. Lives(o)'
      BY <1>1, <1>3, <2>1 DEF OwnerOK, Lives, hnLife
    <2>3. Ported(o)'
      BY <1>1, <1>3, <2>1 DEF OwnerOK, Ported, hnKernel
    <2>4. Cleans(o)'
      BY <1>1, <1>2, <1>3, <2>0, <2>1, SameLeftover, Known
         DEF OwnerOK, Cleans, hnKernel, hnLife
    <2>5. Ends(o)'
      BY <1>3 DEF Ends
    <2> QED BY <2>2, <2>3, <2>4, <2>5 DEF OwnerOK
  <1>6. hnPair[o].peer = "host" => ~hnP'[o].ok
    BY <1>1, <1>3, InSetup DEF Handing
  <1> QED BY <1>1, <1>2, <1>3, <1>4, <1>5, <1>6, RecordKeeps

\* The cleanup of a setup that failed, if the record says stopped already.
LEMMA AfterAFailedSetup ==
  ASSUME HnIInv, NEW o \in Owners, SetupFailed(o)
  PROVE  HnIInv'
  <1>1. /\ hnP[o].pc = "failed" /\ PGoes(o, "abort") /\ Par(o).pc = "idle"
        /\ IF o \in hnStopped
           THEN hnC' = [hnC EXCEPT ![<<"parent", o>>] = CleanupStarts(o, FALSE)] ELSE hnC' = hnC
        /\ UNCHANGED <<hnKernel, hnLock, hnLife, hnA, hnTrouble, hnScene>>
    BY DEF SetupFailed, PAt, Par
  <1>2. "abort" \in ParentLabels /\ "abort" \notin Locked \cup Settling
    BY DEF ParentLabels, Locked, Settling
  <1>3. /\ hnP' \in [Owners -> ParentRecs] /\ Others(o)
        /\ hnP'[o].pc = "abort" /\ hnP'[o].ok = hnP[o].ok
    BY <1>1, <1>2, Going, Known
  <1>4. RecordFrame(o)
    BY <1>1, <1>3, ParentStarts, Known, InSetup DEF RecordFrame, Others, Aside, hnLife
  <1>5. OwnerOK(o)'
    <2>0. PICK r \in CleanerRecs : /\ r = CleanupStarts(o, FALSE) /\ Swept(r, o)
                                   /\ r.pc \in {"checkPre", "find"} /\ r.err = FALSE
      BY StartIsSwept
    <2>1. /\ Obs(o)' = Obs(o) /\ OwnerOK(o)
          /\ Par(o)' = IF o \in hnStopped THEN r ELSE Par(o)
      <3>2. o \in hnStopped => hnC' # hnC
        BY <1>1, <2>0, Known, TheCleaners, CleanerSet, ZenonT(30) DEF Par
      <3> QED BY <1>1, <2>0, <3>2, ParentStarts, Known
    <2>2. Lives(o)'
      BY <1>1, <1>3, <2>1 DEF OwnerOK, Lives, hnLife
    <2>3. Ported(o)'
      BY <1>1, <1>3, <2>1 DEF OwnerOK, Ported, hnKernel
    <2>4. Cleans(o)'
      BY <1>1, <1>2, <1>3, <2>0, <2>1, SameLeftover, Known
         DEF OwnerOK, Cleans, hnKernel, hnLife
    <2>5. Ends(o)'
      BY <1>1, <1>3, <2>0, <2>1 DEF OwnerOK, Lives, Ends, hnLife
    <2> QED BY <2>2, <2>3, <2>4, <2>5 DEF OwnerOK
  <1>6. hnPair[o].peer = "host" => ~hnP'[o].ok
    BY <1>1, <1>3, InSetup DEF Handing
  <1> QED BY <1>1, <1>2, <1>3, <1>4, <1>5, <1>6, RecordKeeps

\* After the record says stopped nothing is left without a token, but for what
\* an early observer missed, and that the parent has swept itself.
LEMMA Stopping ==
  ASSUME HnIInv, NEW o \in Owners, StopAndCleanup(o)
  PROVE  HnIInv'
  <1>1. /\ hnP[o].pc \in {"abort", "wait"} /\ PGoes(o, "token") /\ Par(o).pc = "idle"
        /\ IF o \in hnToken
           THEN hnC' = [hnC EXCEPT ![<<"parent", o>>] = CleanupStarts(o, FALSE)] ELSE hnC' = hnC
        /\ hnChild' = [hnChild EXCEPT ![o] = "dead"] /\ hnStopped' = hnStopped \cup {o}
        /\ UNCHANGED <<hnKernel, hnLock, hnToken, hnEarly, hnA, hnTrouble, hnScene>>
    BY DEF StopAndCleanup, PAt, Par
  <1>2. "token" \in ParentLabels /\ "token" \notin Locked \cup Settling
    BY DEF ParentLabels, Locked, Settling
  <1>3. /\ hnP' \in [Owners -> ParentRecs] /\ Others(o)
        /\ hnP'[o].pc = "token" /\ hnP'[o].ok = hnP[o].ok
    BY <1>1, <1>2, Going, Known
  <1>4. RecordFrame(o)
    BY <1>1, <1>3, ParentStarts, Known, InSetup DEF RecordFrame, Others, Aside
  <1>5. OwnerOK(o)'
    <2>0. PICK r \in CleanerRecs : /\ r = CleanupStarts(o, FALSE) /\ Swept(r, o)
                                   /\ r.pc \in {"checkPre", "find"} /\ r.err = FALSE
      BY StartIsSwept
    <2>1. /\ Obs(o)' = Obs(o) /\ OwnerOK(o)
          /\ Par(o)' = IF o \in hnToken THEN r ELSE Par(o)
      <3>2. o \in hnToken => hnC' # hnC
        BY <1>1, <2>0, Known, TheCleaners, CleanerSet DEF Par
      <3> QED BY <1>1, <2>0, <3>2, ParentStarts, Known
    <2>2. Lives(o)'
      BY <1>1, <1>3, <2>1, Known DEF OwnerOK, Lives
    <2>3. Ported(o)'
      BY <1>1, <1>3, <2>1 DEF OwnerOK, Ported, hnKernel
    <2>4. Cleans(o)'
      BY <1>1, <1>2, <1>3, <2>0, <2>1, SameLeftover, Known
         DEF OwnerOK, Cleans, hnKernel
    <2>5. Ends(o)'
      <3>1. CASE o \in hnToken
        BY <1>3, <2>0, <2>1, <3>1 DEF Ends
      <3>2. CASE o \notin hnToken
        <4>1. Par(o).err \/ ~Leftover(o)
          BY <1>1, <2>1, <3>2 DEF OwnerOK, Lives, Cleans, Ends
        <4> QED BY <1>1, <1>3, <2>1, <3>2, <4>1, SameLeftover DEF Ends, hnKernel
      <3> QED BY <3>1, <3>2
    <2> QED BY <2>2, <2>3, <2>4, <2>5 DEF OwnerOK
  <1>6. hnPair[o].peer = "host" => ~hnP'[o].ok
    BY <1>1, <1>3, InSetup DEF Handing
  <1> QED BY <1>1, <1>2, <1>3, <1>4, <1>5, <1>6, RecordKeeps

\* The parent returns, with the error of its cleanup if it has met one.
LEMMA Returning ==
  ASSUME HnIInv, NEW o \in Owners, HnParentReturns(o)
  PROVE  HnIInv'
  <1>1. /\ hnP[o].pc = "token" /\ Par(o).pc = "idle"
        /\ hnP' = [hnP EXCEPT ![o] = [pc |-> "done", ok |-> ~Par(o).err]]
        /\ UNCHANGED <<hnKernel, hnLock, hnLife, hnC, hnA, hnTrouble, hnScene>>
    BY DEF HnParentReturns, PAt, Par
  <1>2. "done" \in ParentLabels /\ "done" \notin Locked \cup Settling
    BY DEF ParentLabels, Locked, Settling
  <1>3. /\ hnP' \in [Owners -> ParentRecs] /\ Others(o)
        /\ hnP'[o].pc = "done" /\ hnP'[o].ok = ~Par(o).err
    BY <1>1, <1>2, Known DEF ParentRecs, CleanerRecs, Others
  <1>4. RecordFrame(o)
    BY <1>1, <1>3, Known, InSetup DEF RecordFrame, Others, Aside, hnLife, Par, Obs
  <1>5. OwnerOK(o)'
    <2>1. Obs(o)' = Obs(o) /\ OwnerOK(o) /\ Par(o)' = Par(o)
      BY <1>1, Known DEF Par, Obs
    <2>2. Lives(o)'
      BY <1>1, <1>3, <2>1 DEF OwnerOK, Lives, hnLife
    <2>3. Ported(o)'
      BY <1>1, <1>3, <2>1 DEF OwnerOK, Ported, hnKernel
    <2>4. Cleans(o)'
      BY <1>1, <1>2, <1>3, <2>1, SameLeftover, Known DEF OwnerOK, Cleans, hnKernel, hnLife
    <2>5. Ends(o)'
      BY <1>1, <1>3, <2>1, SameLeftover DEF OwnerOK, Ends, hnKernel
    <2> QED BY <2>2, <2>3, <2>4, <2>5 DEF OwnerOK
  <1>6. hnPair[o].peer = "host" => ~hnP'[o].ok
    <2>1. ~Par(o).err => ~Leftover(o)
      BY <1>1, Known DEF OwnerOK, Ends
    <2>2. hnPair[o].peer = "host" => hnPair[o].st = "own"
      BY InSetup, HostNetworkAssumption DEF Pairs
    <2> QED BY <1>3, <2>1, <2>2, Known DEF Leftover, CleanerRecs
  <1> QED BY <1>1, <1>2, <1>3, <1>4, <1>5, <1>6, RecordKeeps

\* The parent dies anywhere: its lock is gone and a blocked child with it.
LEMMA Crashing ==
  ASSUME HnIInv, NEW o \in Owners, ParentCrashes(o)
  PROVE  HnIInv'
  <1>1. /\ PGoes(o, "crashed") /\ HnFault
        /\ hnLock' = IF hnLock = o THEN NoOwner ELSE hnLock
        /\ hnChild' = [hnChild EXCEPT ![o] = IF @ = "blocked" THEN "dead" ELSE @]
        /\ UNCHANGED <<hnKernel, hnStopped, hnToken, hnEarly, hnA, hnScene>>
    BY DEF ParentCrashes, PGoes
  <1>2. PICK r \in CleanerRecs : r.pc = "idle" /\ hnC' = [hnC EXCEPT ![<<"parent", o>>] = r]
    <2> DEFINE r == [Par(o) EXCEPT !.pc = "idle"]
    <2>1. r \in CleanerRecs /\ r.pc = "idle"
      BY Known DEF CleanerRecs, CleanerLabels
    <2>2. hnC' = [hnC EXCEPT ![<<"parent", o>>] = r]
      BY DEF ParentCrashes, Par
    <2> QED BY <2>1, <2>2
  <1>3. "crashed" \in ParentLabels /\ "crashed" \notin Locked \cup Settling
    BY DEF ParentLabels, Locked, Settling
  <1>4. /\ hnP' \in [Owners -> ParentRecs] /\ Others(o) /\ hnTrouble' \in Nat
        /\ hnP'[o].pc = "crashed" /\ hnP'[o].ok = hnP[o].ok
    BY <1>1, <1>3, Going, Faulting, Known
  <1>5. /\ hnC' \in [Cleaners -> CleanerRecs] /\ Par(o)' = r /\ Obs(o)' = Obs(o)
        /\ \A q \in Owners \ {o} : hnC'[<<"parent", q>>] = Par(q) /\ hnC'[<<"observer", q>>] = Obs(q)
    BY <1>2, Known, TheCleaners, CleanerSet DEF Par, Obs
  <1>6. RecordFrame(o)
    BY <1>1, <1>4, <1>5, Known, InSetup DEF RecordFrame, Others, Aside
  <1>7. OwnerOK(o)'
    <2>1. OwnerOK(o)
      BY Known
    <2>2. Lives(o)'
      BY <1>1, <1>4, <1>5, <2>1, Known DEF OwnerOK, Lives
    <2>3. Ported(o)'
      BY <1>1, <1>4, <2>1 DEF OwnerOK, Ported, hnKernel
    <2>4. Cleans(o)'
      <3>1. Swept(r, o)'
        BY <1>2 DEF Swept
      <3> QED BY <1>1, <1>2, <1>3, <1>4, <1>5, <2>1, <3>1, SameLeftover, Known
              DEF OwnerOK, Cleans, hnKernel
    <2>5. Ends(o)'
      BY <1>4 DEF Ends
    <2> QED BY <2>2, <2>3, <2>4, <2>5 DEF OwnerOK
  <1> QED BY <1>1, <1>3, <1>4, <1>6, <1>7, RecordKeeps, InSetup

-----------------------------------------------------------------------------
(* The child and the records.                                               *)

\* The child configures its end of the link, or dies.
LEMMA ChildSteps ==
  ASSUME HnIInv, NEW o \in Owners, ChildConfigures(o) \/ ChildEnds(o)
  PROVE  HnIInv'
  <1>1. /\ \E st \in {"ready", "dead"} : hnChild' = [hnChild EXCEPT ![o] = st]
        /\ hnChild[o] # "dead" /\ (HnFault \/ NoHnFault)
        /\ UNCHANGED <<hnKernel, hnLock, hnStopped, hnToken, hnEarly, hnP, hnC, hnA, hnScene>>
    BY DEF ChildConfigures, ChildEnds, NoHnFault
  <1>2. /\ hnChild' \in [Owners -> {"blocked", "released", "ready", "dead"}]
        /\ \A q \in Owners \ {o} : hnChild'[q] = hnChild[q]
    BY <1>1, Known
  <1>3. RecordFrame(o)
    <2>1. hnTrouble' \in Nat
      BY <1>1, Known, Faulting
    <2> QED BY <1>1, <1>2, <2>1, Known, InSetup DEF RecordFrame, Others, Aside, Par, Obs
  <1>4. OwnerOK(o)'
    <2>1. Obs(o)' = Obs(o) /\ OwnerOK(o) /\ Par(o)' = Par(o)
      BY <1>1, Known DEF Par, Obs
    <2>2. Lives(o)'
      BY <1>1, <2>1 DEF OwnerOK, Lives
    <2>3. Ported(o)'
      BY <1>1, <2>1 DEF OwnerOK, Ported, hnKernel
    <2>4. Cleans(o)'
      BY <1>1, <2>1, SameLeftover, Known DEF OwnerOK, Cleans, hnKernel
    <2>5. Ends(o)'
      BY <1>1, <2>1, SameLeftover DEF OwnerOK, Ends, hnKernel
    <2> QED BY <2>2, <2>3, <2>4, <2>5 DEF OwnerOK
  <1> QED BY <1>1, <1>3, <1>4, RecordKeeps, InSetup

\* An observer records that the child is dead.
LEMMA MarkingDead ==
  ASSUME HnIInv, NEW o \in Owners, ObserverMarksDead(o)
  PROVE  HnIInv'
  <1>1. /\ hnChild[o] = "dead" /\ hnStopped' = hnStopped \cup {o}
        /\ UNCHANGED <<hnKernel, hnLock, hnChild, hnToken, hnEarly, hnP, hnC, hnA, hnTrouble, hnScene>>
    BY DEF ObserverMarksDead
  <1>2. RecordFrame(o)
    BY <1>1, Known, InSetup DEF RecordFrame, Others, Aside, Par, Obs
  <1>3. OwnerOK(o)'
    <2>1. Obs(o)' = Obs(o) /\ OwnerOK(o) /\ Par(o)' = Par(o)
      BY <1>1, Known DEF Par, Obs
    <2>2. Lives(o)'
      BY <1>1, <2>1 DEF OwnerOK, Lives
    <2>3. Ported(o)'
      BY <1>1, <2>1 DEF OwnerOK, Ported, hnKernel
    <2>4. Cleans(o)'
      BY <1>1, <2>1, SameLeftover, Known DEF OwnerOK, Cleans, hnKernel
    <2>5. Ends(o)'
      BY <1>1, <2>1, SameLeftover DEF OwnerOK, Ends, hnKernel
    <2> QED BY <2>2, <2>3, <2>4, <2>5 DEF OwnerOK
  <1> QED BY <1>1, <1>2, <1>3, RecordKeeps, InSetup

\* The end of a namespace takes pairs away and adds nothing.
LEMMA Destroying ==
  ASSUME HnIInv, NEW o \in Owners, NetnsDestroyed(o)
  PROVE  HnIInv'
  <1>1. /\ hnPair' = [q \in Owners |-> IF hnPair[q].peer = o THEN NoPair ELSE hnPair[q]]
        /\ UNCHANGED <<hnRule, hnLock, hnLife, hnP, hnC, hnBr, hnA, hnTrouble, hnScene>>
    BY DEF NetnsDestroyed
  <1>2. NoPair \in PairRecs /\ NoPair.st = "none" /\ NoPair.peer = NoOwner /\ NoOwner # "host"
    BY HostNetworkAssumption DEF NoPair, PairRecs
  <1>3. hnPair' \in Pairs /\ \A q \in Owners : /\ Shrinks(q)
                                               /\ hnPair'[q].peer = "host" => hnPair[q].peer = "host"
    BY <1>1, <1>2, InSetup DEF Pairs, Shrinks
  <1>4. HnTyped'
    BY <1>1, <1>3 DEF HnIInv, HnTyped, HnTypeOK, hnLife, Pairs, PairRecs
  <1>5. \A q \in Owners : Aside(q)
    BY <1>1 DEF Aside, hnLife, Par, Obs
  <1>6. OwnerOK(o)'
    BY <1>3, <1>5, AsideIsSafe
  <1> QED BY <1>1, <1>3, <1>4, <1>5, <1>6, OneOwnerMoves, InSetup

-----------------------------------------------------------------------------
(* The cleaners.                                                            *)

\* An observer starts with nothing swept; it is early while the setup goes on.
LEMMA Observing ==
  ASSUME HnIInv, NEW o \in Owners, ObserverStarts(o)
  PROVE  HnIInv'
  <1>1. /\ o \in hnStopped /\ Obs(o).pc = "idle"
        /\ hnC' = [hnC EXCEPT ![<<"observer", o>>] = CleanupStarts(o, FALSE)]
        /\ hnEarly' = IF hnP[o].pc \in Settling THEN hnEarly \cup {o} ELSE hnEarly
        /\ UNCHANGED <<hnKernel, hnLock, hnChild, hnStopped, hnToken, hnP, hnA, hnTrouble, hnScene>>
    BY DEF ObserverStarts, CAt, Obs
  <1>2. PICK r \in CleanerRecs : /\ r = CleanupStarts(o, FALSE) /\ Swept(r, o)
                                 /\ r.pc \in {"checkPre", "find"} /\ r.err = FALSE
    BY StartIsSwept
  <1>3. /\ hnC' \in [Cleaners -> CleanerRecs] /\ Obs(o)' = r /\ Par(o)' = Par(o)
        /\ \A q \in Owners \ {o} : hnC'[<<"parent", q>>] = Par(q) /\ hnC'[<<"observer", q>>] = Obs(q)
    BY <1>1, <1>2, Known, TheCleaners, CleanerSet DEF Par, Obs
  <1>4. RecordFrame(o)
    BY <1>1, <1>3, Known, InSetup DEF RecordFrame, Others, Aside
  <1>5. OwnerOK(o)'
    <2>1. OwnerOK(o)
      BY Known
    <2>2. Lives(o)'
      <3>1. "wait" \notin Settling
        BY DEF Settling
      <3> QED BY <1>1, <1>3, <2>1, <3>1, Known DEF OwnerOK, Lives
    <2>3. Ported(o)'
      BY <1>1, <2>1 DEF OwnerOK, Ported, hnKernel
    <2>4. Cleans(o)'
      BY <1>1, <1>2, <1>3, <2>1, SameLeftover, Known DEF OwnerOK, Cleans, hnKernel
    <2>5. Ends(o)'
      <3>1. "abort" \notin Settling
        BY DEF Settling
      <3> QED BY <1>1, <1>3, <2>1, <3>1, SameLeftover DEF OwnerOK, Ends, hnKernel
    <2> QED BY <2>2, <2>3, <2>4, <2>5 DEF OwnerOK
  <1> QED BY <1>1, <1>4, <1>5, RecordKeeps, InSetup

\* What a step of a cleaner of o may do: nothing is added, its token may go,
\* and the other cleaner, the parent and the child are as they were.
CleanerFrame(c) ==
  /\ UNCHANGED <<hnLock, hnChild, hnStopped, hnEarly, hnP, hnBr, hnA, hnScene>>
  /\ hnTrouble' \in Nat /\ hnPair' \in Pairs /\ hnRule' \in [Chains -> SUBSET Owners]
  /\ hnToken' \subseteq hnToken /\ \A q \in Owners \ {c[2]} : q \in hnToken => q \in hnToken'
  /\ \A q \in Owners : Shrinks(q) /\ (hnPair'[q].peer = "host" => hnPair[q].peer = "host")

\* A cleaner's claim survives its step, as long as it has met no error; it does
\* not let go of the token without having swept everything, and does not come
\* to its end otherwise than through "clear".
LEMMA CleanerKeeps ==
  ASSUME HnIInv, NEW c \in Cleaners, CleanerFrame(c), NEW r \in CleanerRecs,
         hnC' = [hnC EXCEPT ![c] = r], hnC[c].pc # "idle",
         ~r.err => ~hnC[c].err,
         ~r.err /\ Swept(hnC[c], c[2]) => Swept(r, c[2])',
         r.pc = "idle" => hnC[c].pc = "clear",
         hnToken' # hnToken => hnC[c].pc = "clear" /\ ~hnC[c].err
  PROVE  HnIInv'
  <1> DEFINE o == c[2]
  <1>1. o \in Owners /\ c \in {<<"parent", o>>, <<"observer", o>>}
    BY CleanersAre
  <1> HIDE DEF o
  <1>2. /\ hnC' \in [Cleaners -> CleanerRecs] /\ hnC'[c] = r
        /\ \A d \in Cleaners \ {c} : hnC'[d] = hnC[d]
    BY CleanerSet, Known, <1>1
  <1>3. HnTyped'
    BY <1>2 DEF HnIInv, HnTyped, HnTypeOK, CleanerFrame, Pairs, PairRecs, CleanerRecs
  <1>4. \A q \in Owners \ {o} : Aside(q)
    <2> SUFFICES ASSUME NEW q \in Owners, q # o PROVE Aside(q)
      OBVIOUS
    <2>1. hnC'[<<"parent", q>>] = Par(q) /\ hnC'[<<"observer", q>>] = Obs(q)
      BY <1>1, <1>2, TheCleaners DEF Par, Obs
    <2>2. q \in hnToken' <=> q \in hnToken
      BY DEF CleanerFrame, o
    <2> QED BY <2>1, <2>2 DEF CleanerFrame, Aside
  <1>5. OwnerOK(o) /\ (Leftover(o)' => Leftover(o)) /\ Par(o) \in CleanerRecs /\ Obs(o) \in CleanerRecs
    BY <1>1, Known, ShrinkingIsSafe DEF CleanerFrame
  <1>6. \A s \in CleanerRecs : Swept(s, o) => Swept(s, o)'
    BY <1>1, ShrinkingIsSafe DEF CleanerFrame
  <1>7. Lives(o)'
    <2>1. (Obs(o)').pc # "idle" => Obs(o).pc # "idle"
      BY <1>1, <1>2, TheCleaners DEF Obs
    <2> QED BY <1>5, <2>1 DEF OwnerOK, Lives, CleanerFrame
  <1>8. Ported(o)'
    BY <1>1, <1>5 DEF OwnerOK, Ported, CleanerFrame, Shrinks
  <1>9. CASE c = <<"parent", o>>
    <2>1. Par(o)' = r /\ Obs(o)' = Obs(o) /\ hnC[c] = Par(o)
      BY <1>1, <1>2, <1>9, TheCleaners DEF Par, Obs
    <2>2. hnP[o].pc \in {"failed", "abort", "token"} /\ hnP'[o].pc = hnP[o].pc /\ hnP[o].pc \notin Settling
      BY <1>5, <2>1 DEF OwnerOK, Cleans, CleanerFrame, Settling
    <2>3. ~r.err => Swept(r, o)'
      BY <1>5, <2>1 DEF OwnerOK, Cleans, o
    <2>4. hnToken' # hnToken \/ (~r.err /\ r.pc = "idle") => ~Leftover(o)
      BY <1>5, <2>1 DEF OwnerOK, Cleans, Swept, Leftover, Chains
    <2>5. Cleans(o)'
      BY <1>5, <1>6, <2>1, <2>2, <2>3, <2>4 DEF OwnerOK, Cleans, CleanerFrame
    <2>6. Ends(o)'
      BY <1>5, <2>1, <2>2, <2>4 DEF OwnerOK, Ends, CleanerFrame
    <2>7. OwnerOK(o)'
      BY <1>7, <1>8, <2>5, <2>6 DEF OwnerOK
    <2> QED BY <1>1, <1>3, <1>4, <2>7, OneOwnerMoves, InSetup DEF CleanerFrame
  <1>10. CASE c = <<"observer", o>>
    <2>1. Obs(o)' = r /\ Par(o)' = Par(o) /\ hnC[c] = Obs(o)
      BY <1>1, <1>2, <1>10, TheCleaners DEF Par, Obs
    <2>2. o \notin hnEarly /\ ~r.err => Swept(r, o)'
      BY <1>5, <2>1 DEF OwnerOK, Cleans, o
    <2>3. hnToken' # hnToken => o \in hnEarly \/ ~Leftover(o)
      BY <1>5, <2>1 DEF OwnerOK, Cleans, Swept, Leftover, Chains
    <2>4. hnP[o].pc \in Settling => o \in hnEarly
      BY <1>5, <2>1 DEF OwnerOK, Cleans
    <2>5. Cleans(o)'
      BY <1>5, <1>6, <2>1, <2>2, <2>3, <2>4 DEF OwnerOK, Cleans, CleanerFrame
    <2>6. Ends(o)'
      BY <1>5, <2>1 DEF OwnerOK, Ends, CleanerFrame
    <2>7. OwnerOK(o)'
      BY <1>7, <1>8, <2>5, <2>6 DEF OwnerOK
    <2> QED BY <1>1, <1>3, <1>4, <2>7, OneOwnerMoves, InSetup DEF CleanerFrame
  <1> QED BY <1>1, <1>9, <1>10

\* A cleaner that meets an error claims nothing more.
LEMMA CleanerErrs ==
  ASSUME HnIInv, NEW c \in Cleaners, CleanerFrame(c), NEW l \in CleanerLabels \ {"idle"},
         CFails(c, l), hnC[c].pc # "idle", hnToken' = hnToken
  PROVE  HnIInv'
  <1>1. PICK r \in CleanerRecs : hnC' = [hnC EXCEPT ![c] = r] /\ r.pc = l /\ r.err = TRUE
    BY CleanerFailing DEF HnIInv
  <1> QED BY <1>1, CleanerKeeps

\* A cleaner that goes on has swept what its new label says.
LEMMA CleanerGoesOn ==
  ASSUME HnIInv, NEW c \in Cleaners, CleanerFrame(c), NEW l \in CleanerLabels \ {"idle"},
         CGoes(c, l), hnC[c].pc # "idle", hnToken' = hnToken,
         \A r \in CleanerRecs : r.pc = l /\ Swept(hnC[c], c[2]) => Swept(r, c[2])'
  PROVE  HnIInv'
  <1>1. PICK r \in CleanerRecs : hnC' = [hnC EXCEPT ![c] = r] /\ r.pc = l /\ r.err = hnC[c].err
    BY CleanerGoing DEF HnIInv
  <1> QED BY <1>1, CleanerKeeps

\* A step of a cleaner that only looks.
LEMMA LookingFrame ==
  ASSUME HnIInv, NEW c \in Cleaners, HnFault \/ NoHnFault,
         UNCHANGED <<hnKernel, hnLock, hnLife, hnP, hnA, hnScene>>
  PROVE  CleanerFrame(c)
  <1>1. hnTrouble' \in Nat
    BY Faulting DEF HnIInv
  <1>2. c[2] \in Owners
    BY CleanersAre
  <1> QED BY <1>1, <1>2, InSetup DEF CleanerFrame, hnKernel, hnLife, Shrinks

\* A cleaner asks for a rule.
LEMMA Checking ==
  ASSUME HnIInv, NEW c \in Cleaners, NEW chain \in Chains, CheckRule(c, chain)
  PROVE  HnIInv'
  <1> DEFINE here == IF chain = "OUTPUT" THEN "checkOut" ELSE "checkPre"
             del == IF chain = "OUTPUT" THEN "delOut" ELSE "delPre"
             next == IF chain = "OUTPUT" THEN "find" ELSE "checkOut"
  <1>1. /\ hnC[c].pc = here /\ (HnFault \/ NoHnFault)
        /\ UNCHANGED <<hnKernel, hnLock, hnLife, hnP, hnA, hnScene>>
        /\ \/ c[2] \in hnRule[chain] /\ CGoes(c, del)
           \/ c[2] \notin hnRule[chain] /\ CGoes(c, next)
           \/ CFails(c, next)
    BY DEF CheckRule, CAt
  <1>2. CleanerFrame(c) /\ hnToken' = hnToken
    BY <1>1, LookingFrame DEF hnLife
  <1>3. {del, next} \subseteq CleanerLabels \ {"idle"} /\ hnC[c].pc # "idle"
    BY <1>1 DEF CleanerLabels
  <1>4. chain \in {"PREROUTING", "OUTPUT"} /\ UNCHANGED <<hnRule, hnPair>>
    BY <1>1 DEF Chains, hnKernel
  <1>5. ASSUME c[2] \in hnRule[chain], CGoes(c, del) PROVE HnIInv'
    <2>1. \A r \in CleanerRecs : r.pc = del /\ Swept(hnC[c], c[2]) => Swept(r, c[2])'
      BY <1>1, <1>4 DEF Swept
    <2> HIDE DEF del
    <2> QED BY <1>2, <1>3, <1>5, <2>1, CleanerGoesOn
  <1>6. ASSUME c[2] \notin hnRule[chain], CGoes(c, next) PROVE HnIInv'
    <2>1. \A r \in CleanerRecs : r.pc = next /\ Swept(hnC[c], c[2]) => Swept(r, c[2])'
      BY <1>1, <1>4, <1>6 DEF Swept
    <2> HIDE DEF next
    <2> QED BY <1>2, <1>3, <1>6, <2>1, CleanerGoesOn
  <1>7. ASSUME CFails(c, next) PROVE HnIInv'
    <2> HIDE DEF next
    <2> QED BY <1>2, <1>3, <1>7, CleanerErrs
  <1> QED BY <1>1, <1>5, <1>6, <1>7

\* A cleaner deletes a rule, or fails to.
LEMMA Deleting ==
  ASSUME HnIInv, NEW c \in Cleaners, NEW chain \in Chains, DeleteRule(c, chain)
  PROVE  HnIInv'
  <1> DEFINE here == IF chain = "OUTPUT" THEN "delOut" ELSE "delPre"
             next == IF chain = "OUTPUT" THEN "find" ELSE "checkOut"
             gone == [hnRule EXCEPT ![chain] = @ \ {c[2]}]
  <1>1. /\ hnC[c].pc = here /\ (HnFault \/ NoHnFault)
        /\ UNCHANGED <<hnPair, hnLock, hnLife, hnP, hnBr, hnA, hnScene>>
        /\ \/ hnRule' = gone /\ CGoes(c, next)
           \/ hnRule' = hnRule /\ CFails(c, next)
    BY DEF DeleteRule, CAt
  <1>2. CleanerFrame(c) /\ hnToken' = hnToken
    <2>1. hnTrouble' \in Nat
      BY <1>1, Faulting DEF HnIInv
    <2>2. c[2] \in Owners
      BY CleanersAre
    <2>3. hnRule' \in [Chains -> SUBSET Owners] /\ \A ch \in Chains : hnRule'[ch] \subseteq hnRule[ch]
      BY <1>1, <2>2, InSetup
    <2> QED BY <1>1, <2>1, <2>2, <2>3, InSetup DEF CleanerFrame, hnLife, Shrinks
  <1>3. next \in CleanerLabels \ {"idle"} /\ hnC[c].pc # "idle"
    BY <1>1 DEF CleanerLabels
  <1>4. chain \in {"PREROUTING", "OUTPUT"} /\ c[2] \in Owners /\ hnRule \in [Chains -> SUBSET Owners]
    BY CleanersAre, InSetup DEF Chains
  <1>5. ASSUME hnRule' = gone, CGoes(c, next) PROVE HnIInv'
    <2>0. /\ c[2] \notin hnRule'[chain]
          /\ \A ch \in Chains : c[2] \notin hnRule[ch] => c[2] \notin hnRule'[ch]
      BY <1>4, <1>5
    <2>1. \A r \in CleanerRecs : r.pc = next /\ Swept(hnC[c], c[2]) => Swept(r, c[2])'
      BY <1>1, <1>4, <2>0 DEF Swept, Chains
    <2> HIDE DEF next, gone
    <2> QED BY <1>2, <1>3, <1>5, <2>1, CleanerGoesOn
  <1>6. ASSUME CFails(c, next) PROVE HnIInv'
    <2> HIDE DEF next
    <2> QED BY <1>2, <1>3, <1>6, CleanerErrs
  <1> QED BY <1>1, <1>5, <1>6

\* A cleaner looks for the link, by its name and again by its index.
LEMMA Finding ==
  ASSUME HnIInv, NEW c \in Cleaners, FindLink(c) \/ RefindLink(c)
  PROVE  HnIInv'
  <1>1. /\ hnC[c].pc \in {"find", "refind"} /\ (HnFault \/ NoHnFault)
        /\ UNCHANGED <<hnKernel, hnLock, hnLife, hnP, hnA, hnScene>>
        /\ \/ \E l \in {"refind", "delLink"} : CGoes(c, l)
           \/ hnPair[c[2]].st # "own" /\ CGoes(c, "clear")
           \/ CFails(c, "clear")
    BY DEF FindLink, RefindLink, CAt, NoHnFault
  <1>2. CleanerFrame(c) /\ hnToken' = hnToken
    BY <1>1, LookingFrame DEF hnLife
  <1>3. {"refind", "delLink", "clear"} \subseteq CleanerLabels \ {"idle"} /\ hnC[c].pc # "idle"
    BY <1>1 DEF CleanerLabels
  <1>4. UNCHANGED <<hnRule, hnPair>>
    BY <1>1 DEF hnKernel
  <1>5. ASSUME NEW l \in {"refind", "delLink"}, CGoes(c, l) PROVE HnIInv'
    <2>1. \A r \in CleanerRecs : r.pc = l /\ Swept(hnC[c], c[2]) => Swept(r, c[2])'
      BY <1>1, <1>4 DEF Swept
    <2> QED BY <1>2, <1>3, <1>5, <2>1, CleanerGoesOn
  <1>6. ASSUME hnPair[c[2]].st # "own", CGoes(c, "clear") PROVE HnIInv'
    <2>1. \A r \in CleanerRecs : r.pc = "clear" /\ Swept(hnC[c], c[2]) => Swept(r, c[2])'
      BY <1>1, <1>4, <1>6 DEF Swept
    <2> QED BY <1>2, <1>3, <1>6, <2>1, CleanerGoesOn
  <1>7. ASSUME CFails(c, "clear") PROVE HnIInv'
    BY <1>2, <1>3, <1>7, CleanerErrs
  <1> QED BY <1>1, <1>5, <1>6, <1>7

\* A cleaner deletes the link, or fails to.
LEMMA Unlinking ==
  ASSUME HnIInv, NEW c \in Cleaners, DeleteLink(c)
  PROVE  HnIInv'
  <1>1. /\ hnC[c].pc = "delLink" /\ (HnFault \/ NoHnFault)
        /\ UNCHANGED <<hnRule, hnLock, hnLife, hnP, hnBr, hnA, hnScene>>
        /\ \/ hnPair' = [hnPair EXCEPT ![c[2]] = NoPair] /\ CGoes(c, "clear")
           \/ hnPair' = hnPair /\ CFails(c, "clear")
    BY DEF DeleteLink, CAt
  <1>2. /\ NoPair \in PairRecs /\ NoPair.st = "none" /\ NoPair.peer = NoOwner /\ NoOwner # "host"
        /\ c[2] \in Owners
    BY HostNetworkAssumption, CleanersAre DEF NoPair, PairRecs
  <1>3. CleanerFrame(c) /\ hnToken' = hnToken
    <2>1. hnTrouble' \in Nat
      BY <1>1, Faulting DEF HnIInv
    <2>2. hnPair' \in Pairs
      BY <1>1, <1>2, InSetup DEF Pairs
    <2> QED BY <1>1, <1>2, <2>1, <2>2, InSetup DEF CleanerFrame, hnLife, Shrinks, Pairs
  <1>4. "clear" \in CleanerLabels \ {"idle"}
    BY DEF CleanerLabels
  <1>5. ASSUME hnPair' = [hnPair EXCEPT ![c[2]] = NoPair], CGoes(c, "clear") PROVE HnIInv'
    <2>1. hnPair'[c[2]].st # "own"
      BY <1>2, <1>5, InSetup DEF Pairs
    <2>2. \A r \in CleanerRecs : r.pc = "clear" /\ Swept(hnC[c], c[2]) => Swept(r, c[2])'
      BY <1>1, <2>1 DEF Swept
    <2> QED BY <1>1, <1>3, <1>4, <1>5, <2>2, CleanerGoesOn
  <1>6. ASSUME CFails(c, "clear") PROVE HnIInv'
    BY <1>1, <1>3, <1>4, <1>6, CleanerErrs
  <1> QED BY <1>1, <1>5, <1>6

\* A cleaner clears the token, unless it has met an error.
LEMMA ClearingTheToken ==
  ASSUME HnIInv, NEW c \in Cleaners, ClearOwnership(c)
  PROVE  HnIInv'
  <1>1. /\ hnC[c].pc = "clear" /\ CGoes(c, "idle")
        /\ hnToken' = hnToken \/ (~hnC[c].err /\ hnToken' = hnToken \ {c[2]})
        /\ UNCHANGED <<hnKernel, hnLock, hnChild, hnStopped, hnEarly, hnP, hnA, hnTrouble, hnScene>>
    BY DEF ClearOwnership, CAt
  <1>2. CleanerFrame(c)
    <2>1. c[2] \in Owners
      BY CleanersAre
    <2> QED BY <1>1, <2>1, InSetup DEF CleanerFrame, hnKernel, Shrinks
  <1>3. "idle" \in CleanerLabels /\ HnTyped
    BY DEF CleanerLabels, HnIInv
  <1>4. PICK r \in CleanerRecs : hnC' = [hnC EXCEPT ![c] = r] /\ r.pc = "idle" /\ r.err = hnC[c].err
    BY <1>1, <1>3, CleanerGoing
  <1>5. Swept(r, c[2])'
    BY <1>4 DEF Swept
  <1> QED BY <1>1, <1>2, <1>4, <1>5, CleanerKeeps

-----------------------------------------------------------------------------
(* The operators of the bridge.                                             *)

\* A command leaves the generations alone; a bridge that it deletes only frees
\* their links.
LEMMA AdminKeeps ==
  ASSUME HnIInv, hnA' \in [Admins -> AdminLabels], HnFault \/ NoHnFault,
         hnPair' \in {hnPair, Detached}, BareBridgeHasACause',
         hnBr' \in {"none", "bare", "marked", "addressed", "up"},
         UNCHANGED <<hnRule, hnLock, hnLife, hnP, hnC, hnScene>>
  PROVE  HnIInv'
  <1>1. hnPair' \in Pairs /\ \A q \in Owners : /\ hnPair'[q].st = hnPair[q].st
                                               /\ hnPair'[q].peer = hnPair[q].peer
    <2>1. hnPair \in Pairs
      BY DEF HnIInv, HnTyped, HnTypeOK, Pairs, PairRecs
    <2>2. \A q \in Owners : LET r == [hnPair[q] EXCEPT !.master = FALSE] IN
            r \in PairRecs /\ r.st = hnPair[q].st /\ r.peer = hnPair[q].peer
      BY <2>1 DEF Pairs, PairRecs
    <2>3. CASE hnPair' = Detached
      BY <2>1, <2>2, <2>3 DEF Detached, Pairs
    <2> QED BY <2>1, <2>3
  <1>2. HnTyped'
    <2>1. hnTrouble' \in Nat
      BY Faulting DEF HnIInv
    <2> QED BY <1>1, <2>1 DEF HnIInv, HnTyped, HnTypeOK, Pairs, PairRecs, hnLife
  <1>3. \A q \in Owners : Aside(q) /\ Shrinks(q)
    BY <1>1 DEF Aside, Shrinks, hnLife, Par, Obs
  <1>4. \A q \in Owners : OwnerOK(q)'
    BY <1>3, AsideIsSafe
  <1>5. LockHeld' /\ PeerHasASetup'
    BY <1>1 DEF HnIInv, LockHeld, PeerHasASetup
  <1> QED BY <1>2, <1>4, <1>5 DEF HnIInv

\* Every command that leaves a bridge without its alias is to blame for it.
LEMMA AdminSteps ==
  ASSUME HnIInv, NEW a \in Admins, AdminStep(a) \/ AdminDies(a)
  PROVE  HnIInv'
  <1>0. /\ hnA \in [Admins -> AdminLabels] /\ hnBr \in {"none", "bare", "marked", "addressed", "up"}
        /\ BareBridgeHasACause
    BY DEF HnIInv, HnTyped, HnTypeOK
  <1> USE <1>0 DEF BareBridgeHasACause, AdminLabels, AGoes
  <1>1. CASE CreateBridge(a)
    BY <1>1, AdminKeeps DEF CreateBridge, NoHnFault
  <1>2. CASE ConfigureBridge(a)
    <2>1. \E l \in {"addr", "linkUp", "done", "undo"} :
            /\ AGoes(a, l)
            /\ l = "undo" \/ hnBr' # "bare"
            /\ l # "undo" \/ hnBr' = hnBr
      BY <1>2 DEF ConfigureBridge
    <2>2. UNCHANGED <<hnPair, hnRule, hnLock, hnLife, hnP, hnC, hnScene>> /\ (HnFault \/ NoHnFault)
      BY <1>2 DEF ConfigureBridge
    <2>3. hnBr' \in {"none", "bare", "marked", "addressed", "up"}
      BY <1>2 DEF ConfigureBridge
    <2> QED BY <2>1, <2>2, <2>3, AdminKeeps
  <1>3. CASE RollbackBridge(a)
    BY <1>3, AdminKeeps DEF RollbackBridge
  <1>4. CASE DeleteBridgeInspect(a)
    BY <1>4, AdminKeeps DEF DeleteBridgeInspect, NoHnFault, hnKernel
  <1>5. CASE DeleteBridge(a)
    BY <1>5, AdminKeeps DEF DeleteBridge, NoHnFault
  <1>6. CASE AdminDies(a)
    BY <1>6, AdminKeeps DEF AdminDies, hnKernel
  <1> QED BY <1>1, <1>2, <1>3, <1>4, <1>5, <1>6 DEF AdminStep

-----------------------------------------------------------------------------
(* The theorem.                                                             *)

\* Every initial state satisfies the invariant.
LEMMA HnInitGood ==
  ASSUME HnInit
  PROVE  HnIInv
  <1>1. PICK scene \in Scenes :
          /\ hnPair = [o \in Owners |-> IF o \in scene.taken THEN [NoPair EXCEPT !.st = "foreign"]
                                         ELSE NoPair]
          /\ hnRule = [c \in Chains |-> {}] /\ hnLock = NoOwner
          /\ hnChild = [o \in Owners |-> IF o \in scene.owners THEN "blocked" ELSE "dead"]
          /\ hnStopped = Owners \ scene.owners /\ hnToken = scene.owners /\ hnEarly = {}
          /\ hnP = [o \in Owners |-> [pc |-> IF o \in scene.owners THEN "lock" ELSE "done", ok |-> TRUE]]
          /\ hnC = [c \in Cleaners |-> Idle]
          /\ hnBr \in scene.bridge
          /\ hnA = [a \in Admins |-> IF a \in scene.admins THEN "idle" ELSE "done"]
          /\ hnScene = scene /\ hnTrouble = scene.trouble
    BY DEF HnInit
  <1>2. /\ NoPair \in PairRecs /\ NoPair.st = "none" /\ NoPair.peer = NoOwner /\ NoOwner # "host"
        /\ LET r == [NoPair EXCEPT !.st = "foreign"] IN
             r \in PairRecs /\ r.st = "foreign" /\ r.peer = NoOwner
    BY HostNetworkAssumption DEF NoPair, PairRecs
  <1>3. Idle \in CleanerRecs /\ Idle.pc = "idle" /\ Idle.err = FALSE
    BY DEF Idle, CleanerRecs, CleanerLabels
  <1>4. hnPair \in Pairs /\ \A o \in Owners : hnPair[o].st # "own" /\ hnPair[o].peer # "host"
    BY <1>1, <1>2 DEF Pairs
  <1>5. /\ hnP \in [Owners -> ParentRecs]
        /\ \A o \in Owners : hnP[o].pc = IF o \in scene.owners THEN "lock" ELSE "done"
    BY <1>1 DEF ParentRecs, ParentLabels
  <1>6. HnTyped
    <2>1. hnC \in [Cleaners -> CleanerRecs] /\ hnA \in [Admins -> AdminLabels]
      BY <1>1, <1>3 DEF AdminLabels
    <2>2. /\ hnTrouble \in Nat /\ hnBr \in {"none", "bare", "marked", "addressed", "up"}
          /\ hnToken \subseteq Owners /\ hnStopped \subseteq Owners /\ hnEarly \subseteq Owners
      BY <1>1, HostNetworkAssumption
    <2>3. hnChild \in [Owners -> {"blocked", "released", "ready", "dead"}]
      BY <1>1
    <2>4. hnRule \in [Chains -> SUBSET Owners] /\ hnLock \in Owners \cup {NoOwner} /\ hnScene \in Scenes
      BY <1>1
    <2> QED BY <1>4, <1>5, <2>1, <2>2, <2>3, <2>4
            DEF HnTyped, HnTypeOK, Pairs, PairRecs, ParentRecs, CleanerRecs
  <1>7. LockHeld /\ PeerHasASetup
    BY <1>4, <1>5 DEF LockHeld, PeerHasASetup, Locked
  <1>8. BareBridgeHasACause
    BY <1>1, HostNetworkAssumption DEF BareBridgeHasACause
  <1>9. ASSUME NEW o \in Owners PROVE OwnerOK(o)
    <2>1. Par(o) = Idle /\ Obs(o) = Idle /\ ~Leftover(o)
      BY <1>1, <1>4, TheCleaners DEF Par, Obs, Leftover
    <2>2. Lives(o)
      BY <1>1, <1>3, <1>5, <2>1 DEF Lives
    <2>3. Ported(o)
      BY <1>1, <1>5 DEF Ported
    <2>4. Cleans(o)
      BY <1>1, <1>3, <1>5, <2>1 DEF Cleans, Swept, Settling
    <2>5. Ends(o)
      BY <2>1 DEF Ends
    <2> QED BY <2>2, <2>3, <2>4, <2>5 DEF OwnerOK
  <1> QED BY <1>6, <1>7, <1>8, <1>9 DEF HnIInv

\* Every step keeps the invariant.
LEMMA HnStepGood ==
  ASSUME HnIInv, [HnNext]_hnVars
  PROVE  HnIInv'
  <1>1. CASE UNCHANGED hnVars
    <2>1. HnTyped' /\ LockHeld' /\ PeerHasASetup' /\ BareBridgeHasACause'
      BY <1>1 DEF HnIInv, hnVars, HnTyped, HnTypeOK, LockHeld, PeerHasASetup, BareBridgeHasACause
    <2>2. \A q \in Owners : Aside(q) /\ Shrinks(q)
      BY <1>1 DEF hnVars, Aside, Shrinks, Par, Obs
    <2> QED BY <2>1, <2>2, AsideIsSafe DEF HnIInv
  <1>2. ASSUME NEW o \in Owners, HnParentStep(o) PROVE HnIInv'
    BY <1>2, TakingTheLock, CreatingThePair, AddingTheAddress, SettingUp, Moving, RollingBack,
       Unlocking, Inspecting, Attaching, AddingARule, TakingARuleBack, Releasing,
       AfterABrokenRelease, AfterAFailedSetup, Stopping, Returning DEF HnParentStep
  <1>3. ASSUME NEW o \in Owners,
               ObserverStarts(o) \/ ChildConfigures(o) \/ ChildEnds(o) \/ NetnsDestroyed(o)
               \/ ObserverMarksDead(o) \/ ParentCrashes(o)
        PROVE  HnIInv'
    BY <1>3, Observing, ChildSteps, Destroying, MarkingDead, Crashing
  <1>4. ASSUME NEW c \in Cleaners, CleanerStep(c) PROVE HnIInv'
    BY <1>4, Checking, Deleting, Finding, Unlinking, ClearingTheToken DEF CleanerStep
  <1>5. ASSUME NEW a \in Admins, AdminStep(a) \/ AdminDies(a) PROVE HnIInv'
    BY <1>5, AdminSteps
  <1> QED BY <1>1, <1>2, <1>3, <1>4, <1>5 DEF HnNext

(* HnIInv is an inductive invariant of the network.                         *)
THEOREM HnInductive == HnSpec => []HnIInv
  BY HnInitGood, HnStepGood, PTL DEF HnSpec

(* Whatever fails, dies or is cleaned by somebody else in the middle, no    *)
(* pair, rule or bridge is left that nobody knows of, and none that keeps   *)
(* the next setup from its names.                                           *)
THEOREM NothingForgotten == HnSpec => []NothingIsForgotten
  <1>1. HnIInv => NothingIsForgotten
    <2> SUFFICES ASSUME HnIInv PROVE NothingIsForgotten
      OBVIOUS
    <2>1. HnTypeOK /\ BareBridgeHasACause
      BY DEF HnIInv, HnTyped
    <2>2. HandoffNameIsFree
      <3> SUFFICES ASSUME NEW o \in Owners, NEW q \in Owners, PAt(o, "create"),
                          hnPair[q].peer = "host", hnP[q].ok
                   PROVE  PAt(q, "crashed")
        BY DEF HandoffNameIsFree
      <3>1. hnP[q].pc \in Handing \cup {"crashed"} /\ hnLock = o
        BY DEF HnIInv, PeerHasASetup, LockHeld, PAt, Locked
      <3>2. hnP[q].pc \notin Handing
        BY <3>1 DEF HnIInv, LockHeld, PAt, Locked, Handing
      <3> QED BY <3>1, <3>2 DEF PAt
    <2>3. CleanReturnLeavesNothing
      BY DEF CleanReturnLeavesNothing, HnIInv, OwnerOK, Ends, PAt
    <2>4. LeftoverIsOwed
      BY DEF LeftoverIsOwed, HnIInv, OwnerOK, Cleans
    <2> QED BY <2>1, <2>2, <2>3, <2>4 DEF NothingIsForgotten
  <1> QED BY <1>1, HnInductive, PTL

-----------------------------------------------------------------------------
(* A serving daemon keeps its socket.                                       *)

(* What a daemon remembers of its socket comes from a second look at the    *)
(* path (SrvStat), so that LiveServerKeepsItsSocket alone is not inductive: *)
(* as long as nobody meddles, a bound socket is the one at the path from    *)
(* bind to removal, hence what was seen is what was bound, and only one     *)
(* daemon has a socket at a time.                                           *)
SocketBound(s) == dsSrv[s].own # NoSocket
BoundLabels ==
  \A s \in Servers : SocketBound(s) <=> dsSrv[s].pc \in {"stat", "serving", "closed", "remove"}
OneOwner == \A s, t \in Servers : SocketBound(s) /\ dsSrv[s].own = dsSrv[t].own => s = t
BoundIsPath == ~dsMeddled => \A s \in Servers : SocketBound(s) => dsPath = dsSrv[s].own
DsIInv == DsTypeOK /\ BoundLabels /\ OneOwner /\ BoundIsPath

(* The daemons in their initial state satisfy the invariant.                *)
LEMMA DsInitGood == DsInit => DsIInv
<1> SUFFICES ASSUME DsInit PROVE DsIInv
  OBVIOUS
<1>1. \A s \in Servers : dsSrv[s] = Off
  BY DEF DsInit
<1>2. DsTypeOK
  <2>1. dsBinds \in 0..MaxBinds
    BY DaemonAssumption DEF DsInit
  <2>2. dsMeddled \in BOOLEAN
    BY DEF DsInit
  <2>3. Off \in [pc: {"off", "bind", "stat", "serving", "closed", "remove"},
                 own: Sockets \cup {NoSocket}, known: Sockets \cup {NoSocket}]
    BY DEF Off
  <2> QED
    BY <1>1, <2>1, <2>2, <2>3 DEF DsInit, DsTypeOK, Off
<1>3. BoundLabels /\ OneOwner /\ BoundIsPath
  BY <1>1 DEF BoundLabels, OneOwner, BoundIsPath, SocketBound, Off
<1> QED
  BY <1>2, <1>3 DEF DsIInv

(* Every step of a daemon or of the operator keeps the invariant.           *)
LEMMA DsStepGood == DsIInv /\ [DsNext]_dsVars => DsIInv'
<1> SUFFICES ASSUME DsIInv, [DsNext]_dsVars PROVE DsIInv'
  OBVIOUS
<1> USE DaemonAssumption
<1> USE DEF DsIInv, DsTypeOK, BoundLabels, OneOwner, BoundIsPath, SocketBound, Off, Sockets, SrvGoes
<1>1. CASE UNCHANGED dsVars
  BY <1>1 DEF dsVars
<1>2. CASE OperatorRemoves
  BY <1>2 DEF OperatorRemoves
<1>3. ASSUME NEW s \in Servers, SrvCheck(s) PROVE DsIInv'
  BY <1>3 DEF SrvCheck
<1>4. ASSUME NEW s \in Servers, SrvBind(s) PROVE DsIInv'
  BY <1>4 DEF SrvBind
<1>5. ASSUME NEW s \in Servers, SrvStat(s) PROVE DsIInv'
  BY <1>5 DEF SrvStat
<1>6. ASSUME NEW s \in Servers, SrvStop(s) PROVE DsIInv'
  BY <1>6 DEF SrvStop
<1>7. ASSUME NEW s \in Servers, SrvCompare(s) PROVE DsIInv'
  BY <1>7 DEF SrvCompare
<1>8. ASSUME NEW s \in Servers, SrvRemove(s) PROVE DsIInv'
  BY <1>8 DEF SrvRemove
<1>9. ASSUME NEW s \in Servers, SrvKilled(s) PROVE DsIInv'
  BY <1>9 DEF SrvKilled
<1> QED
  BY <1>1, <1>2, <1>3, <1>4, <1>5, <1>6, <1>7, <1>8, <1>9 DEF DsNext

(* A serving daemon is reached through the listen path, however many others *)
(* start, stop or die, as long as nobody removes the path under it.         *)
THEOREM SocketSafe == DsSpec => []SocketIsItsServers
<1>1. DsIInv => SocketIsItsServers
  BY DEF DsIInv, BoundLabels, BoundIsPath, SocketBound, SocketIsItsServers, LiveServerKeepsItsSocket
<1> QED
  BY <1>1, DsInitGood, DsStepGood, PTL DEF DsSpec
=============================================================================
