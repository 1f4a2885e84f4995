--------------------------- MODULE BridgeNetwork ---------------------------
(***************************************************************************)
(* Containers on one bridge network share three host-wide registers: the   *)
(* DNS registry (internal/dns), the address pool (internal/network, IPAM)  *)
(* and the port-forwarding rules.  Every "run" process walks an attempt    *)
(* through them (beginNetworkAttemptAdmission, runOnce); other commands    *)
(* clean up behind generations they know to be stopped.                    *)
(*                                                                         *)
(* Registry and pool are each replaced under a flock, one step per         *)
(* transaction.  Names and addresses are compared, never parsed.  Entries  *)
(* written by releases that knew no generations are left out.              *)
(***************************************************************************)
EXTENDS Naturals, FiniteSets, FiniteSetsExt

CONSTANTS Procs,            \* run processes, the registrars
          Gens, NoGen,      \* child process generations
          Containers,
          HostName(_),      \* the host name a container asks for
          NoEntry,
          PoolSize,         \* allocatable addresses, 1..PoolSize
          BridgeScenes      \* builtin (not a custom network), and bounds: faults, crashes

ASSUME PoolAssumption == PoolSize \in Nat \ {0}
ASSUME NoGenAssumption == NoGen \notin Gens
ASSUME ContainersAssumption == Containers # {}
ASSUME BridgeScenesAssumption ==
  BridgeScenes \subseteq [builtin : BOOLEAN, faults : Nat, crashes : Nat]

VARIABLES registry,   \* registry[c]: the entry of container c
          pool,       \* pool[a]: the generation that leases address a
          dnat,       \* <<g, a>>: rules of generation g forward to address a
          rec,        \* rec[c]: durable status and generation
          tok,        \* tok[c]: generation in the network ownership token
          alive,      \* generations whose process has not exited
          ip,         \* ip[g]: the address payload g was released with, or 0
          forked,     \* generations that ever were started
          stopped,    \* generations that were recorded stopped at some time
          pc, loc,    \* of the run processes
          faults, crashes,
          bridge      \* the scene

tables == <<registry, pool, dnat>>
life == <<rec, tok, alive, ip, forked, stopped>>
vars == <<tables, life, pc, loc, faults, crashes, bridge>>

DefaultNetwork == bridge.builtin
Addresses == 1..PoolSize
GenOrNone == Gens \cup {NoGen}

\* The address an entry carries until its generation is bound: 172.20.0.2, the
\* first of the default pool, or the gateway of a custom network.
AdmissionIP == IF DefaultNetwork THEN 1 ELSE 0

Entries == [owner : Procs, gen : GenOrNone, ip : 0..PoolSize, pending : BOOLEAN]
ASSUME NoEntryAssumption == NoEntry \notin Entries
Records == [status : {"created", "running", "stopped"}, gen : GenOrNone]
Labels == {"idle", "gone", "register", "hosts", "fork", "mark", "reconcile",
           "allocate", "own", "ports", "bind", "release", "wait",
           "hostnet", "unwind", "unlease", "kill", "stop", "dns", "net", "end", "finish"}
\* c, g, a: the container, generation and address of the attempt.
Locals == [c : Containers, g : GenOrNone, a : 0..PoolSize, err : BOOLEAN]

TypeOK ==
  /\ registry \in [Containers -> Entries \cup {NoEntry}]
  /\ pool \in [Addresses -> GenOrNone]
  /\ dnat \subseteq Gens \X Addresses
  /\ rec \in [Containers -> Records] /\ tok \in [Containers -> GenOrNone]
  /\ alive \subseteq forked /\ stopped \subseteq forked /\ forked \subseteq Gens
  /\ ip \in [Gens -> 0..PoolSize]
  /\ pc \in [Procs -> Labels] /\ loc \in [Procs -> Locals]
  /\ bridge \in BridgeScenes
  /\ faults \in 0..bridge.faults /\ crashes \in 0..bridge.crashes

NoAttempt(c) == [c |-> c, g |-> NoGen, a |-> 0, err |-> FALSE]

Init ==
  /\ registry = [c \in Containers |-> NoEntry]
  /\ pool = [a \in Addresses |-> NoGen] /\ dnat = {}
  /\ rec = [c \in Containers |-> [status |-> "created", gen |-> NoGen]]
  /\ tok = [c \in Containers |-> NoGen]
  /\ alive = {} /\ forked = {} /\ stopped = {} /\ ip = [g \in Gens |-> 0]
  /\ pc = [p \in Procs |-> "idle"]
  /\ loc = [p \in Procs |-> NoAttempt(CHOOSE c \in Containers : TRUE)]
  /\ faults = 0 /\ crashes = 0 /\ bridge \in BridgeScenes

-----------------------------------------------------------------------------
(* Step idioms                                                             *)

At(p, l) == pc[p] = l /\ UNCHANGED <<crashes, bridge>>
Goto(p, l) == pc' = [pc EXCEPT ![p] = l]
Keep == UNCHANGED loc
Fails(p) == loc' = [loc EXCEPT ![p].err = TRUE]
NoFault == UNCHANGED faults
Fault == faults < bridge.faults /\ faults' = faults + 1

\* saveEntriesAtomicAt, savePool, atomicWriteFile: the file is replaced, or it
\* is not, or it is and the directory fsync reports an error.
Save(p, file, new, good, bad) ==
  \/ file' = new /\ Goto(p, good) /\ Keep /\ NoFault
  \/ file' \in {file, new} /\ Goto(p, bad) /\ Fails(p) /\ Fault

Refuse(p, file, bad) == UNCHANGED file /\ Goto(p, bad) /\ Fails(p) /\ NoFault

-----------------------------------------------------------------------------
(* The DNS registry                                                        *)

\* hostEntryOwnerActive: a bound entry lives with its child, an unbound one
\* with its registrar.
hostEntryOwnerActive(e) ==
  IF e.gen # NoGen THEN e.gen \in alive ELSE pc[e.owner] # "gone"

pruneStaleOwnedEntries(r) ==
  [c \in Containers |-> IF r[c] # NoEntry /\ hostEntryOwnerActive(r[c]) THEN r[c] ELSE NoEntry]

SameName(c, d) == c = d \/ HostName(c) = HostName(d)

\* Mutant: only the container ID is compared.
RegistrationIgnoresHostname(r, p, c) ==
  r[c] # NoEntry => r[c].owner = p /\ r[c].ip = AdmissionIP

\* entriesWithRegistration: an entry with this container or this name is in
\* the way unless it is this registrar's own registration, unchanged.
RegistrationAdmits(r, p, c) ==
  \A d \in Containers :
    r[d] # NoEntry /\ SameName(c, d) => d = c /\ r[d].owner = p /\ r[d].ip = AdmissionIP

entriesWithRegistration(r, p, c) ==
  [r EXCEPT ![c] = [owner |-> p, gen |-> NoGen, ip |-> AdmissionIP, pending |-> TRUE]]

\* unregisterHostIfOwnedBy
unregisterHostIfOwnedBy(r, p, c) ==
  [r EXCEPT ![c] = IF @ # NoEntry /\ @.owner = p THEN NoEntry ELSE @]

\* Mutant: whatever entry the container has is removed.
cleanupStoppedContainer(r, c, g) == [r EXCEPT ![c] = NoEntry]

\* cleanupStoppedHostRegistrationWithGenerationPolicy, for entries that know
\* their generation: the exact generation's or none.
cleanupStoppedHostRegistration(r, c, g) ==
  [r EXCEPT ![c] = IF @ # NoEntry /\ @.gen = g THEN NoEntry ELSE @]

\* BindHostRegistrationGeneration
BindAdmits(p, c, g) ==
  /\ registry[c] # NoEntry
  /\ registry[c].owner = p
  /\ registry[c].gen \in {NoGen, g}

-----------------------------------------------------------------------------
(* The address pool                                                        *)

\* Mutant: a probe error counts as a dead owner.
ReconciledCarelessly(unsure) ==
  [a \in Addresses |-> IF pool[a] \in alive \ unsure THEN pool[a] ELSE NoGen]

\* ReconcileGenerationIPs: leases of dead generations go; the ones whose owner
\* cannot be probed (unsure) stay.
Reconciled(unsure) ==
  [a \in Addresses |-> IF pool[a] \in alive \cup unsure THEN pool[a] ELSE NoGen]

\* ReleaseGenerationIP: exactly the generation's lease.
Unleased(g) == [a \in Addresses |-> IF pool[a] = g THEN NoGen ELSE pool[a]]

Free == {a \in Addresses : pool[a] = NoGen}

-----------------------------------------------------------------------------
(* An attempt: admission                                                   *)

\* run of a created container, restart of a stopped one.
Begin(p, c) ==
  /\ At(p, "idle") /\ Goto(p, "register")
  /\ \/ rec[c].status = "created" /\ \A q \in Procs : pc[q] # "idle" => loc[q].c # c
     \/ rec[c].status = "stopped"
  /\ loc' = [loc EXCEPT ![p] = NoAttempt(c)]
  /\ UNCHANGED <<tables, life, faults>>

\* registerHost with admissionPending.
Register(p) ==
  LET r == pruneStaleOwnedEntries(registry)
      c == loc[p].c
  IN /\ At(p, "register")
     /\ \/ RegistrationAdmits(r, p, c)
             /\ Save(p, registry, entriesWithRegistration(r, p, c), "hosts", "finish")
        \/ ~RegistrationAdmits(r, p, c) /\ Refuse(p, registry, "finish")
     /\ UNCHANGED <<pool, dnat, life>>

\* createRuntimeHostsFile: the snapshot of the registry named "default" drops
\* what is stale there.
HostsSnapshot(p) ==
  /\ At(p, "hosts")
  /\ Save(p, registry, IF DefaultNetwork THEN pruneStaleOwnedEntries(registry) ELSE registry,
          "fork", "end")
  /\ UNCHANGED <<pool, dnat, life>>

Fork(p, g) ==
  /\ At(p, "fork") /\ Goto(p, "mark") /\ NoFault
  /\ g \notin forked /\ forked' = forked \cup {g} /\ alive' = alive \cup {g}
  /\ loc' = [loc EXCEPT ![p].g = g]
  /\ UNCHANGED <<tables, rec, tok, ip, stopped>>

\* MarkRunning refuses a running record and one with pending cleanup.  After
\* an error the child is killed and nothing else undone, though the record may
\* have been written.
MarkRunning(p) ==
  LET c == loc[p].c
      ok == rec[c].status # "running" /\ tok[c] = NoGen
      new == [rec EXCEPT ![c] = [status |-> "running", gen |-> loc[p].g]]
  IN /\ At(p, "mark")
     /\ \/ ok /\ rec' = new /\ Goto(p, "reconcile") /\ Keep /\ UNCHANGED alive /\ NoFault
        \/ /\ alive' = alive \ {loc[p].g} /\ Goto(p, "end") /\ Fails(p)
           /\ \/ ~ok /\ UNCHANGED rec /\ NoFault
              \/ ok /\ rec' \in {rec, new} /\ Fault
     /\ UNCHANGED <<tables, tok, ip, forked, stopped>>

-----------------------------------------------------------------------------
(* An attempt: lease, token, rules, name                                   *)

\* reconcileRuntimeBridgeIPAMNetwork: any probe error fails the attempt, after
\* the leases of the dead were saved away.
ReconcileLeases(p) ==
  /\ At(p, "reconcile")
  /\ \/ Save(p, pool, Reconciled({}), "allocate", "kill")
     \/ \E g \in Gens : /\ \E a \in Addresses : pool[a] = g
                        /\ pool' = Reconciled({g}) /\ Goto(p, "kill") /\ Fails(p) /\ Fault
  /\ UNCHANGED <<registry, dnat, life>>

\* Mutant: the first address past the subnet is handed out.
AllocateOffByOne(p) ==
  LET a == IF Free = {} THEN PoolSize + 1 ELSE Min(Free) IN
  /\ At(p, "allocate") /\ Goto(p, "own") /\ NoFault
  /\ pool' = [x \in Addresses \cup {a} |-> IF x = a THEN loc[p].g ELSE pool[x]]
  /\ loc' = [loc EXCEPT ![p].a = a]
  /\ UNCHANGED <<registry, dnat, life>>

\* AllocateIP takes the lowest free address; the attempt then stages it for
\* the DNS entry.  A failed save leaves nobody to release what it may have
\* written.
Allocate(p) ==
  /\ At(p, "allocate")
  /\ \/ Free = {} /\ Refuse(p, pool, "kill")
     \/ /\ Free # {}
        /\ LET a == Min(Free)
               new == [pool EXCEPT ![a] = loc[p].g]
           IN \/ /\ pool' = new /\ Goto(p, "own") /\ NoFault
                 /\ loc' = [loc EXCEPT ![p].a = a]
              \/ pool' \in {pool, new} /\ Goto(p, "kill") /\ Fails(p) /\ Fault
  /\ UNCHANGED <<registry, dnat, life>>

RunningAs(c, g) == rec[c].status = "running" /\ rec[c].gen = g
StoppedAs(c, g) == rec[c].status = "stopped" /\ rec[c].gen = g

\* MarkNetworkOwnedIfIdentity
OwnNetwork(p) ==
  LET c == loc[p].c IN
  /\ At(p, "own")
  /\ \/ RunningAs(c, loc[p].g) /\ Save(p, tok, [tok EXCEPT ![c] = loc[p].g], "ports", "unlease")
     \/ ~RunningAs(c, loc[p].g) /\ Refuse(p, tok, "unlease")
  /\ UNCHANGED <<tables, rec, alive, ip, forked, stopped>>

\* setupBridgeHostOwned, and its twin for custom networks, keep the rules it has installed when a later one fails.
SetupPorts(p) ==
  LET rule == <<loc[p].g, loc[p].a>> IN
  /\ At(p, "ports") /\ Save(p, dnat, dnat \cup {rule}, "bind", "unwind")
  /\ UNCHANGED <<registry, pool, life>>

\* What follows a failure once the host's network is set up: the cleanup that the
\* setup has returned does nothing on the built-in bridge (baseBridgeCleanup).
Undo == IF DefaultNetwork THEN "unwind" ELSE "hostnet"

BindHostRegistrationGeneration(p) ==
  LET c == loc[p].c
      bound == [registry EXCEPT ![c].gen = loc[p].g, ![c].ip = loc[p].a, ![c].pending = FALSE]
  IN /\ At(p, "bind")
     /\ \/ BindAdmits(p, c, loc[p].g) /\ Save(p, registry, bound, "release", Undo)
        \/ ~BindAdmits(p, c, loc[p].g) /\ Refuse(p, registry, Undo)
     /\ UNCHANGED <<pool, dnat, life>>

\* releaseBlockedChildWithBridge sends the address to the child, if it is there.
Release(p) ==
  LET g == loc[p].g IN
  /\ At(p, "release")
  /\ \/ g \in alive /\ ip' = [ip EXCEPT ![g] = loc[p].a] /\ Goto(p, "wait") /\ Keep /\ NoFault
     \/ g \notin alive /\ Refuse(p, ip, Undo)
  /\ UNCHANGED <<tables, rec, tok, alive, forked, stopped>>

\* cmd.Wait returns: cleanupBridgeAfterNormalExit leaves a managed container's
\* lease alone.
Reap(p) ==
  /\ At(p, "wait") /\ loc[p].g \notin alive
  /\ Goto(p, "stop") /\ Keep /\ UNCHANGED <<tables, life, faults>>

-----------------------------------------------------------------------------
(* An attempt: failure and teardown                                        *)

\* cleanupNetworkOwnershipWith: rules first, then the token if it matches.
CleanupNetworkOwnership(c, g) ==
  /\ dnat' = {r \in dnat : r[1] # g}
  /\ tok' = IF tok[c] = g /\ rec[c].status # "running" THEN [tok EXCEPT ![c] = NoGen] ELSE tok

\* cleanupAllocatedGeneration(cleanupHost): the cleanup returned for a custom network
\* removes the ports and the veth, as far as that goes, ...
UnwindHost(p) ==
  /\ At(p, "hostnet") /\ Save(p, dnat, {r \in dnat : r[1] # loc[p].g}, "unwind", "unwind")
  /\ UNCHANGED <<registry, pool, life>>

\* ... then cleanupNetworkOwnership: a no-op unless the stop is durable already.  A
\* setup that failed has returned no cleanup and begins here.
Unwind(p) ==
  LET c == loc[p].c IN
  /\ At(p, "unwind") /\ Goto(p, "unlease") /\ Keep
  /\ \/ StoppedAs(c, loc[p].g) /\ CleanupNetworkOwnership(c, loc[p].g) /\ NoFault
     \/ StoppedAs(c, loc[p].g) /\ UNCHANGED <<dnat, tok>> /\ Fault
     \/ ~StoppedAs(c, loc[p].g) /\ UNCHANGED <<dnat, tok>> /\ NoFault
  /\ UNCHANGED <<registry, pool, rec, alive, ip, forked, stopped>>

\* bridgeCleanup, last part: the lease goes whatever became of the rules.
ReleaseLease(p) ==
  /\ At(p, "unlease") /\ Save(p, pool, Unleased(loc[p].g), "kill", "kill")
  /\ UNCHANGED <<registry, dnat, life>>

AbortKill(p) ==
  /\ At(p, "kill") /\ Goto(p, "stop") /\ Keep /\ NoFault
  /\ alive' = alive \ {loc[p].g}
  /\ UNCHANGED <<tables, rec, tok, ip, forked, stopped>>

\* Whoever finds generation g dead records the stop, once.
MarkStopped(c, g) ==
  /\ rec' = IF RunningAs(c, g) THEN [rec EXCEPT ![c].status = "stopped"] ELSE rec
  /\ stopped' = IF RunningAs(c, g) THEN stopped \cup {g} ELSE stopped

MarkStoppedP(p) ==
  /\ At(p, "stop")
  /\ \/ MarkStopped(loc[p].c, loc[p].g) /\ Goto(p, "dns") /\ Keep /\ NoFault
     \/ /\ MarkStopped(loc[p].c, loc[p].g) \/ UNCHANGED <<rec, stopped>>
        /\ Goto(p, "end") /\ Fails(p) /\ Fault
  /\ UNCHANGED <<tables, tok, alive, ip, forked>>

\* The generation cleanup always addresses the registry named "default".
CleanedRegistry(c, g) ==
  IF DefaultNetwork THEN cleanupStoppedHostRegistration(registry, c, g) ELSE registry

CleanupDNS(p) ==
  /\ At(p, "dns") /\ Save(p, registry, CleanedRegistry(loc[p].c, loc[p].g), "net", "net")
  /\ UNCHANGED <<pool, dnat, life>>

\* cleanupNetworkGenerationIfOwnedWith
CleanupNetwork(p) ==
  LET c == loc[p].c
      g == loc[p].g
  IN /\ At(p, "net") /\ Goto(p, "end")
     /\ \/ tok[c] = g /\ CleanupNetworkOwnership(c, g) /\ Keep /\ NoFault
        \/ tok[c] = g /\ UNCHANGED <<dnat, tok>> /\ Fails(p) /\ Fault
        \/ tok[c] # g /\ UNCHANGED <<dnat, tok>> /\ Keep /\ NoFault
     /\ UNCHANGED <<registry, pool, rec, alive, ip, forked, stopped>>

\* rollbackNetworkAdmissionAfterRun: only an attempt that never got a durable
\* generation takes its registration back.  A clean exit may be restarted by
\* policy in the same process.
End(p) ==
  LET c == loc[p].c IN
  /\ At(p, "end")
  /\ \/ /\ rec[c].status = "created"
        /\ Save(p, registry, unregisterHostIfOwnedBy(registry, p, c), "finish", "finish")
     \/ /\ rec[c].status # "created" /\ UNCHANGED <<registry, faults>>
        /\ \/ Goto(p, "finish") /\ Keep
           \/ ~loc[p].err /\ Goto(p, "register") /\ loc' = [loc EXCEPT ![p] = NoAttempt(c)]
  /\ UNCHANGED <<pool, dnat, life>>

\* finalizeCreatedRunFailure: Run returns.  A record still created is stopped
\* when the failed attempt had not started a process.
Finish(p) ==
  LET c == loc[p].c
      never == loc[p].g = NoGen /\ rec[c].status = "created"
  IN /\ At(p, "finish") /\ Goto(p, "gone") /\ Keep /\ NoFault
     /\ rec' = IF never THEN [rec EXCEPT ![c].status = "stopped"] ELSE rec
     /\ UNCHANGED <<tables, tok, alive, ip, forked, stopped>>

-----------------------------------------------------------------------------
(* Other commands and the environment                                      *)

\* reconcile, stop and wait finalize a generation they saw exit.
ObserverMarksStopped(c) ==
  /\ rec[c].status = "running" /\ rec[c].gen \notin alive
  /\ MarkStopped(c, rec[c].gen)
  /\ UNCHANGED <<tables, tok, alive, ip, forked, pc, loc, faults, crashes, bridge>>

\* Delayed finalizers clean DNS by a generation that was stopped at some time,
\* and network resources by the token of the stopped record.
ObserverCleansDNS(c, g) ==
  /\ g \in stopped
  /\ registry' = CleanedRegistry(c, g)
  /\ UNCHANGED <<pool, dnat, life, pc, loc, faults, crashes, bridge>>

ObserverCleansNetwork(c) ==
  /\ rec[c].status = "stopped" /\ tok[c] = rec[c].gen /\ tok[c] # NoGen
  /\ CleanupNetworkOwnership(c, tok[c])
  /\ UNCHANGED <<registry, pool, rec, alive, ip, forked, stopped, pc, loc, faults, crashes, bridge>>

\* A payload exits; a blocked child is killed from outside or with its parent.
ChildDies(g) ==
  /\ g \in alive /\ alive' = alive \ {g}
  /\ UNCHANGED <<tables, rec, tok, ip, forked, stopped, pc, loc, faults, crashes, bridge>>

Crash(p) ==
  /\ crashes < bridge.crashes /\ crashes' = crashes + 1
  /\ pc[p] \notin {"idle", "gone"} /\ Goto(p, "gone")
  /\ UNCHANGED <<tables, life, loc, faults, bridge>>

ProcStep(p) ==
  \/ \E c \in Containers : Begin(p, c)
  \/ HostsSnapshot(p) \/ Register(p)
  \/ \E g \in Gens : Fork(p, g)
  \/ MarkRunning(p) \/ ReconcileLeases(p) \/ Allocate(p) \/ OwnNetwork(p)
  \/ SetupPorts(p) \/ BindHostRegistrationGeneration(p) \/ Release(p) \/ Reap(p)
  \/ UnwindHost(p) \/ Unwind(p) \/ ReleaseLease(p) \/ AbortKill(p) \/ MarkStoppedP(p)
  \/ CleanupDNS(p) \/ CleanupNetwork(p) \/ End(p) \/ Finish(p)

Next ==
  \/ \E p \in Procs : ProcStep(p) \/ Crash(p)
  \/ \E c \in Containers : \/ ObserverMarksStopped(c) \/ ObserverCleansNetwork(c)
                           \/ \E g \in Gens : ObserverCleansDNS(c, g)
  \/ \E g \in Gens : ChildDies(g)

Spec == Init /\ [][Next]_vars

-----------------------------------------------------------------------------
(* Properties                                                              *)

Payloads == {g \in alive : ip[g] # 0}

\* A payload keeps the lease of the address it was given for as long as it
\* runs: no reconciliation or cleanup by another attempt frees it, so no two
\* payloads ever have one address.
PayloadOwnsItsAddress == \A g \in Payloads : pool[ip[g]] = g

\* A running payload can be found: the entry of its container is visible,
\* bound to it and carries its address, whatever finalizers of earlier
\* generations and rollbacks of failed attempts still do.
PayloadDiscoverable ==
  \A g \in Payloads : \E c \in Containers :
    /\ registry[c] # NoEntry
    /\ registry[c].gen = g /\ registry[c].ip = ip[g] /\ ~registry[c].pending

\* A name stands for one live owner: entries of different containers that are
\* not stale never share a host name, though admission, pruning and cleanup of
\* both interleave.
NameHasOneLiveOwner ==
  \A c, d \in Containers :
    c # d /\ HostName(c) = HostName(d) /\ registry[c] # NoEntry /\ registry[d] # NoEntry
    => ~(hostEntryOwnerActive(registry[c]) /\ hostEntryOwnerActive(registry[d]))

\* The registry serves every running payload under its own name and address:
\* what one container registers, prunes or cleans hides no other.
NameServesItsPayload == TypeOK /\ PayloadDiscoverable /\ NameHasOneLiveOwner
=============================================================================
