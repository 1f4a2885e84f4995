----------------------------- MODULE HostNetwork -----------------------------
(* The kernel side of a bridge generation: its veth pair, its two DNAT      *)
(* rules, and the custom bridge the pair is attached to.  The parent of     *)
(* each generation sets them up step by step; the parent and an observer    *)
(* of the stopped record remove them, possibly at the same time, and either *)
(* end may die.  Every owner has one generated interface name and one       *)
(* published port; the peer of every pair is born with the same name.       *)
EXTENDS Naturals, FiniteSets

CONSTANTS Owners,      \* generations with their ownership marker
          Custom,      \* the owners on the custom network
          Admins,      \* network create and network rm commands
          Scenes,      \* which of them take part: records
                       \* [owners, watched, ports, taken, admins, bridge, trouble]
          NoOwner

ASSUME HostNetworkAssumption ==
  /\ Custom \subseteq Owners /\ NoOwner \notin Owners /\ "host" \notin Owners \cup {NoOwner}
  /\ \A s \in Scenes : /\ s.trouble \in Nat /\ s.owners \subseteq Owners
                        /\ s.bridge \subseteq {"none", "marked", "addressed", "up"}

VARIABLES
  hnPair,     \* owner -> its pair: [st, peer, up, master]
  hnRule,     \* chain -> owners with a rule in it
  hnLock,     \* holder of the peer handoff lock
  hnChild,    \* owner -> blocked, released, ready or dead
  hnStopped,  \* owners whose record says stopped
  hnToken,    \* owners with a persisted network ownership
  hnEarly,    \* owners an observer cleaned before their setup had ended (history)
  hnP,        \* owner -> [pc, ok] of its parent
  hnC,        \* cleaner -> [pc, err, host]: host, the token is not its business
  hnBr,       \* the custom bridge: "none", "bare", "marked", "addressed", "up"
  hnA,        \* admin -> pc
  hnScene,    \* the scene: who publishes a port, whose record others look at
  hnTrouble   \* failures and deaths still to come

hnVars == <<hnPair, hnRule, hnLock, hnChild, hnStopped, hnToken, hnEarly, hnP, hnC, hnBr, hnA,
            hnTrouble, hnScene>>
hnKernel == <<hnPair, hnRule, hnBr>>
hnLife == <<hnChild, hnStopped, hnToken, hnEarly>>

Chains == {"PREROUTING", "OUTPUT"}
Cleaners == {"parent", "observer"} \X Owners
NoPair == [st |-> "none", peer |-> NoOwner, up |-> FALSE, master |-> FALSE]
ParentLabels == {"lock", "create", "addr", "up", "move", "rollback", "unlock", "inspect",
  "attach", "pre", "out", "unpre", "release", "broken", "failed", "wait", "abort",
  "token", "done", "crashed"}
Settling == {"lock", "create", "addr", "up", "move", "rollback", "unlock", "inspect",
  "attach", "pre", "out", "unpre"}
CleanerLabels == {"idle", "checkPre", "delPre", "checkOut", "delOut", "find", "refind",
  "delLink", "clear"}

Idle == [pc |-> "idle", err |-> FALSE, host |-> FALSE]
CleanupStarts(o, host) ==
  [Idle EXCEPT !.pc = IF o \in hnScene.ports THEN "checkPre" ELSE "find", !.host = host]

HnTypeOK ==
  /\ hnPair \in [Owners -> [st: {"none", "own", "foreign"}, peer: Owners \cup {NoOwner, "host"},
                            up: BOOLEAN, master: BOOLEAN]]
  /\ \A o \in Owners : hnPair[o].st # "own" => hnPair[o].peer = NoOwner
  /\ hnRule \in [Chains -> SUBSET Owners] /\ hnLock \in Owners \cup {NoOwner}
  /\ hnChild \in [Owners -> {"blocked", "released", "ready", "dead"}]
  /\ hnStopped \subseteq Owners /\ hnToken \subseteq Owners /\ hnEarly \subseteq Owners
  /\ hnP \in [Owners -> [pc: ParentLabels, ok: BOOLEAN]]
  /\ hnC \in [Cleaners -> [pc: CleanerLabels, err: BOOLEAN, host: BOOLEAN]]
  /\ hnScene \in Scenes /\ hnTrouble \in Nat /\ hnBr \in {"none", "bare", "marked", "addressed", "up"}

\* Setup begins with the ownership persisted.  A name may be taken by an
\* interface that is not ours; the custom bridge is there or not.
HnInit == \E scene \in Scenes :
  /\ hnPair = [o \in Owners |-> IF o \in scene.taken THEN [NoPair EXCEPT !.st = "foreign"]
                                 ELSE NoPair]
  /\ hnRule = [c \in Chains |-> {}] /\ hnLock = NoOwner
  /\ hnChild = [o \in Owners |-> IF o \in scene.owners THEN "blocked" ELSE "dead"]
  /\ hnStopped = Owners \ scene.owners /\ hnToken = scene.owners /\ hnEarly = {}
  /\ hnP = [o \in Owners |-> [pc |-> IF o \in scene.owners THEN "lock" ELSE "done", ok |-> TRUE]]
  /\ hnC = [c \in Cleaners |-> Idle]
  /\ hnBr \in scene.bridge
  /\ hnA = [a \in Admins |-> IF a \in scene.admins THEN "idle" ELSE "done"]
  /\ hnScene = scene /\ hnTrouble = scene.trouble

HnFault == hnTrouble > 0 /\ hnTrouble' = hnTrouble - 1
NoHnFault == UNCHANGED hnTrouble
PAt(o, pc) == hnP[o].pc = pc
PGoes(o, pc) == hnP' = [hnP EXCEPT ![o].pc = pc]
PFails(o, pc) == hnP' = [hnP EXCEPT ![o] = [pc |-> pc, ok |-> FALSE]]

\* nlSock.do: the request is acknowledged when the kernel can do it and
\* nothing fails; otherwise the setup goes to its error path.
NlDo(o, can, next, bad) ==
  \/ can /\ NoHnFault /\ PGoes(o, next)
  \/ ~can /\ NoHnFault /\ PFails(o, bad)
  \/ can /\ HnFault /\ PFails(o, bad)
Acked == hnTrouble' = hnTrouble

-----------------------------------------------------------------------------
(* The parent: SetupVethHostGenerationOwned under the handoff lock.         *)

\* Mutant: the setup does not take the handoff lock.
HnSkipLock(o) ==
  /\ PAt(o, "lock")
  /\ PGoes(o, "create")
  /\ UNCHANGED <<hnLock, hnKernel, hnLife, hnC, hnA, hnTrouble, hnScene>>

\* withVethPeerHandoffLock: one setup at a time between create and move.
HnTakeLock(o) ==
  /\ PAt(o, "lock") /\ hnLock = NoOwner
  /\ hnLock' = o /\ PGoes(o, "create")
  /\ UNCHANGED <<hnKernel, hnLife, hnC, hnA, hnTrouble, hnScene>>

\* createVethPairOwned: NLM_F_EXCL on the owner's name and on veth-peer.
CreateVethPair(o) ==
  LET can == hnPair[o].st = "none" /\ \A q \in Owners : hnPair[q].peer # "host" IN
  /\ PAt(o, "create")
  /\ NlDo(o, can, "addr", "unlock")
  /\ hnPair' = IF can /\ Acked
               THEN [hnPair EXCEPT ![o] = [NoPair EXCEPT !.st = "own", !.peer = "host"]] ELSE hnPair
  /\ UNCHANGED <<hnRule, hnLock, hnLife, hnC, hnBr, hnA, hnScene>>

AddAddr(o) ==
  /\ PAt(o, "addr") /\ NlDo(o, hnPair[o].st = "own", "up", "rollback")
  /\ UNCHANGED <<hnKernel, hnLock, hnLife, hnC, hnA, hnScene>>

SetLinkUp(o) ==
  LET can == hnPair[o].st = "own" IN
  /\ PAt(o, "up") /\ NlDo(o, can, "move", "rollback")
  /\ hnPair' = IF can /\ Acked THEN [hnPair EXCEPT ![o].up = TRUE] ELSE hnPair
  /\ UNCHANGED <<hnRule, hnLock, hnLife, hnC, hnBr, hnA, hnScene>>

\* moveToNetns looks veth-peer up by name, whoever's pair it belongs to, and
\* moves it to the namespace of the child, which must still be alive.
MoveToNetns(o) ==
  LET named == {q \in Owners : hnPair[q].peer = "host"}
      can == named # {} /\ hnChild[o] # "dead" IN
  /\ PAt(o, "move") /\ NlDo(o, can, "unlock", "rollback")
  /\ hnPair' = IF can /\ Acked
               THEN [q \in Owners |-> IF q \in named THEN [hnPair[q] EXCEPT !.peer = o] ELSE hnPair[q]]
               ELSE hnPair
  /\ UNCHANGED <<hnRule, hnLock, hnLife, hnC, hnBr, hnA, hnScene>>

\* The rollback of setupVethHostNamedWithOps: RemoveVethHostOwned.
RollbackVeth(o) ==
  /\ PAt(o, "rollback") /\ PGoes(o, "unlock")
  /\ \/ HnFault /\ UNCHANGED hnPair
     \/ NoHnFault /\ hnPair' = IF hnPair[o].st = "own" THEN [hnPair EXCEPT ![o] = NoPair] ELSE hnPair
  /\ UNCHANGED <<hnRule, hnLock, hnLife, hnC, hnBr, hnA, hnScene>>

Publish(o) == IF o \in hnScene.ports THEN "pre" ELSE "release"

\* On the custom network the pair is attached before any port is published.
HnUnlock(o) ==
  /\ PAt(o, "unlock")
  /\ hnLock' = IF hnLock = o THEN NoOwner ELSE hnLock
  /\ PGoes(o, IF ~hnP[o].ok THEN "failed"
              ELSE IF o \in Custom THEN "inspect" ELSE Publish(o))
  /\ UNCHANGED <<hnKernel, hnLife, hnC, hnA, hnTrouble, hnScene>>

\* AttachVethHostToBridgeOwned: the bridge must carry our alias ...
InspectBridge(o) ==
  /\ PAt(o, "inspect")
  /\ PGoes(o, IF hnBr \in {"marked", "addressed", "up"} THEN "attach" ELSE "failed")
  /\ UNCHANGED <<hnKernel, hnLock, hnLife, hnC, hnA, hnTrouble, hnScene>>

\* ... and is then named again as the master.
AttachVeth(o) ==
  LET can == hnPair[o].st = "own" /\ hnBr # "none" IN
  /\ PAt(o, "attach") /\ NlDo(o, can, Publish(o), "failed")
  /\ hnPair' = IF can /\ Acked THEN [hnPair EXCEPT ![o].master = TRUE] ELSE hnPair
  /\ UNCHANGED <<hnRule, hnLock, hnLife, hnC, hnBr, hnA, hnScene>>

\* SetupPortForwardingOwned: both rules, or the first one taken back.
AddRule(o, chain) ==
  /\ PAt(o, IF chain = "OUTPUT" THEN "out" ELSE "pre")
  /\ \/ NoHnFault /\ hnRule' = [hnRule EXCEPT ![chain] = @ \cup {o}]
        /\ PGoes(o, IF chain = "OUTPUT" THEN "release" ELSE "out")
     \/ HnFault /\ UNCHANGED hnRule
        /\ PGoes(o, IF chain = "OUTPUT" THEN "unpre" ELSE "failed")
  /\ UNCHANGED <<hnPair, hnLock, hnLife, hnC, hnBr, hnA, hnScene>>

RollbackRule(o) ==
  /\ PAt(o, "unpre") /\ PGoes(o, "failed")
  /\ \/ HnFault /\ UNCHANGED hnRule
     \/ NoHnFault /\ hnRule' = [hnRule EXCEPT !["PREROUTING"] = @ \ {o}]
  /\ UNCHANGED <<hnPair, hnLock, hnLife, hnC, hnBr, hnA, hnScene>>

\* releaseBlockedChildWithBridge: a dead child's pipe is broken.
ReleaseChild(o) ==
  /\ PAt(o, "release")
  /\ IF hnChild[o] = "dead" THEN PGoes(o, "broken") /\ UNCHANGED hnChild
     ELSE PGoes(o, "wait") /\ hnChild' = [hnChild EXCEPT ![o] = "released"]
  /\ UNCHANGED <<hnKernel, hnLock, hnStopped, hnToken, hnEarly, hnC, hnA, hnTrouble, hnScene>>

\* The bridge cleanup after a failed release: on the custom network the rules
\* and the pair are removed first, whatever the record says.
ReleaseFailed(o) ==
  /\ PAt(o, "broken") /\ PGoes(o, "failed")
  /\ hnC' = IF o \in Custom
            THEN [hnC EXCEPT ![<<"parent", o>>] = CleanupStarts(o, TRUE)] ELSE hnC
  /\ UNCHANGED <<hnKernel, hnLock, hnLife, hnA, hnTrouble, hnScene>>

\* Mutant: the cleanup after a failed setup goes by the token alone.
SetupFailedByToken(o) ==
  /\ PAt(o, "failed") /\ PGoes(o, "abort") /\ hnC[<<"parent", o>>].pc = "idle"
  /\ hnC' = IF o \in hnStopped \cap hnToken
            THEN [hnC EXCEPT ![<<"parent", o>>] = CleanupStarts(o, FALSE)] ELSE hnC
  /\ UNCHANGED <<hnKernel, hnLock, hnLife, hnA, hnTrouble, hnScene>>

\* cleanupNetworkOwnershipAfterDurableStopWith after a failed setup: nothing
\* is touched unless the record says stopped, and then the ownership in
\* memory is used, whether or not the token is left.
SetupFailed(o) ==
  /\ PAt(o, "failed") /\ PGoes(o, "abort") /\ hnC[<<"parent", o>>].pc = "idle"
  /\ hnC' = IF o \in hnStopped
            THEN [hnC EXCEPT ![<<"parent", o>>] = CleanupStarts(o, FALSE)] ELSE hnC
  /\ UNCHANGED <<hnKernel, hnLock, hnLife, hnA, hnTrouble, hnScene>>

\* abortRuntimeSetupFailure kills and reaps the child; finalizeManagedParentExit
\* follows its exit.  Either way the record says stopped and what the token
\* still owes is removed: cleanupBridgeAfterNormalExit does nothing here.
StopAndCleanup(o) ==
  /\ PAt(o, "abort") \/ (PAt(o, "wait") /\ hnChild[o] = "dead")
  /\ hnC[<<"parent", o>>].pc = "idle"
  /\ hnChild' = [hnChild EXCEPT ![o] = "dead"] /\ hnStopped' = hnStopped \cup {o}
  /\ hnC' = IF o \in hnToken
            THEN [hnC EXCEPT ![<<"parent", o>>] = CleanupStarts(o, FALSE)] ELSE hnC
  /\ PGoes(o, "token")
  /\ UNCHANGED <<hnKernel, hnLock, hnToken, hnEarly, hnA, hnTrouble, hnScene>>

\* The parent returns with the result of its last cleanup.
HnParentReturns(o) ==
  /\ PAt(o, "token") /\ hnC[<<"parent", o>>].pc = "idle"
  /\ hnP' = [hnP EXCEPT ![o] = [pc |-> "done", ok |-> ~hnC[<<"parent", o>>].err]]
  /\ UNCHANGED <<hnKernel, hnLock, hnLife, hnC, hnA, hnTrouble, hnScene>>

-----------------------------------------------------------------------------
(* cleanupNetworkOwnershipWith, by the parent or by an observer.            *)

CAt(c, pc) == hnC[c].pc = pc
CGoes(c, pc) == hnC' = [hnC EXCEPT ![c].pc = pc]
CFails(c, pc) == hnC' = [hnC EXCEPT ![c].pc = pc, ![c].err = TRUE]

\* CleanupStoppedNetwork: a stopped record with a token.
ObserverStarts(o) ==
  LET c == <<"observer", o>> IN
  /\ CAt(c, "idle") /\ o \in hnScene.watched /\ o \in hnStopped /\ o \in hnToken
  /\ hnC' = [hnC EXCEPT ![c] = CleanupStarts(o, FALSE)]
  /\ hnEarly' = IF hnP[o].pc \in Settling THEN hnEarly \cup {o} ELSE hnEarly
  /\ UNCHANGED <<hnKernel, hnLock, hnChild, hnStopped, hnToken, hnP, hnA, hnTrouble, hnScene>>

\* iptables -C: an absent rule is skipped, any other failure is an error and
\* the next resource is tried all the same.
CheckRule(c, chain) ==
  LET here == IF chain = "OUTPUT" THEN "checkOut" ELSE "checkPre"
      del == IF chain = "OUTPUT" THEN "delOut" ELSE "delPre"
      next == IF chain = "OUTPUT" THEN "find" ELSE "checkOut" IN
  /\ CAt(c, here)
  /\ \/ NoHnFault /\ CGoes(c, IF c[2] \in hnRule[chain] THEN del ELSE next)
     \/ HnFault /\ CFails(c, next)
  /\ UNCHANGED <<hnKernel, hnLock, hnLife, hnP, hnA, hnScene>>

\* iptables -D of a rule another cleaner has removed since is an error.
DeleteRule(c, chain) ==
  LET here == IF chain = "OUTPUT" THEN "delOut" ELSE "delPre"
      next == IF chain = "OUTPUT" THEN "find" ELSE "checkOut" IN
  /\ CAt(c, here)
  /\ \/ /\ c[2] \in hnRule[chain] /\ NoHnFault
        /\ hnRule' = [hnRule EXCEPT ![chain] = @ \ {c[2]}] /\ CGoes(c, next)
     \/ /\ UNCHANGED hnRule /\ CFails(c, next)
        /\ IF c[2] \in hnRule[chain] THEN HnFault ELSE NoHnFault
  /\ UNCHANGED <<hnPair, hnLock, hnLife, hnP, hnBr, hnA, hnScene>>

\* RemoveVethHostOwned finds the name and reads its alias: nothing there, or
\* an interface of somebody else, is nothing to do ...
FindLink(c) ==
  /\ CAt(c, "find")
  /\ \/ NoHnFault /\ CGoes(c, IF hnPair[c[2]].st = "own" THEN "refind" ELSE "clear")
     \/ HnFault /\ CFails(c, "clear")
  /\ UNCHANGED <<hnKernel, hnLock, hnLife, hnP, hnA, hnScene>>

\* ... and both are read again before the link is deleted by its index.
RefindLink(c) ==
  /\ CAt(c, "refind")
  /\ CGoes(c, IF hnPair[c[2]].st = "own" THEN "delLink" ELSE "clear")
  /\ UNCHANGED <<hnKernel, hnLock, hnLife, hnP, hnA, hnTrouble, hnScene>>

\* Mutant: the peer is not gone with the host end.
DeleteHostEnd(c) ==
  /\ CAt(c, "delLink") /\ NoHnFault /\ CGoes(c, "clear")
  /\ hnPair' = [hnPair EXCEPT ![c[2]].st = "none"]
  /\ UNCHANGED <<hnRule, hnLock, hnLife, hnP, hnBr, hnA, hnScene>>

DeleteLink(c) ==
  /\ CAt(c, "delLink")
  /\ \/ /\ hnPair[c[2]].st = "own" /\ NoHnFault
        /\ hnPair' = [hnPair EXCEPT ![c[2]] = NoPair] /\ CGoes(c, "clear")
     \/ /\ UNCHANGED hnPair /\ CFails(c, "clear")
        /\ IF hnPair[c[2]].st = "own" THEN HnFault ELSE NoHnFault
  /\ UNCHANGED <<hnRule, hnLock, hnLife, hnP, hnBr, hnA, hnScene>>

\* Mutant: the token goes although a removal failed.
ClearAnyway(c) ==
  /\ CAt(c, "clear") /\ CGoes(c, "idle") /\ hnToken' = hnToken \ {c[2]}
  /\ UNCHANGED <<hnKernel, hnLock, hnChild, hnStopped, hnEarly, hnP, hnA, hnTrouble, hnScene>>

\* The token goes only after every removal succeeded; a token that another
\* cleaner has cleared is as good.
ClearOwnership(c) ==
  /\ CAt(c, "clear") /\ CGoes(c, "idle")
  /\ hnToken' = IF hnC[c].err \/ hnC[c].host THEN hnToken ELSE hnToken \ {c[2]}
  /\ UNCHANGED <<hnKernel, hnLock, hnChild, hnStopped, hnEarly, hnP, hnA, hnTrouble, hnScene>>

-----------------------------------------------------------------------------
(* The child, the kernel, observers of the record, and deaths.              *)

\* SetupLoopback and SetupVethContainer in the child's namespace: rename to
\* eth0, address, up, default route; any failure ends the child.
ChildConfigures(o) ==
  /\ hnChild[o] = "released"
  /\ \/ /\ \E q \in Owners : hnPair[q].peer = o
        /\ NoHnFault /\ hnChild' = [hnChild EXCEPT ![o] = "ready"]
     \/ HnFault /\ hnChild' = [hnChild EXCEPT ![o] = "dead"]
  /\ UNCHANGED <<hnKernel, hnLock, hnStopped, hnToken, hnEarly, hnP, hnC, hnA, hnScene>>

ChildEnds(o) ==
  /\ hnChild[o] # "dead" /\ hnChild' = [hnChild EXCEPT ![o] = "dead"]
  /\ UNCHANGED <<hnKernel, hnLock, hnStopped, hnToken, hnEarly, hnP, hnC, hnA, hnTrouble, hnScene>>

\* The kernel destroys a namespace nobody is in, with the pair that ends in it.
NetnsDestroyed(o) ==
  /\ hnChild[o] = "dead" /\ \E q \in Owners : hnPair[q].peer = o
  /\ hnPair' = [q \in Owners |-> IF hnPair[q].peer = o THEN NoPair ELSE hnPair[q]]
  /\ UNCHANGED <<hnRule, hnLock, hnLife, hnP, hnC, hnBr,
            hnA, hnTrouble, hnScene>>

ObserverMarksDead(o) ==
  /\ o \in hnScene.watched /\ hnChild[o] = "dead" /\ o \notin hnStopped
  /\ hnStopped' = hnStopped \cup {o}
  /\ UNCHANGED <<hnKernel, hnLock, hnChild, hnToken, hnEarly, hnP, hnC, hnA, hnTrouble, hnScene>>

\* The parent dies: the flock is dropped, a blocked child reads the end of
\* its pipe and exits, and a cleanup it was running stops where it is.
ParentCrashes(o) ==
  /\ hnP[o].pc \notin {"done", "crashed"} /\ HnFault
  /\ hnP' = [hnP EXCEPT ![o].pc = "crashed"]
  /\ hnC' = [hnC EXCEPT ![<<"parent", o>>].pc = "idle"]
  /\ hnLock' = IF hnLock = o THEN NoOwner ELSE hnLock
  /\ hnChild' = [hnChild EXCEPT ![o] = IF @ = "blocked" THEN "dead" ELSE @]
  /\ UNCHANGED <<hnKernel, hnStopped, hnToken, hnEarly, hnA, hnScene>>

-----------------------------------------------------------------------------
(* network create and network rm.                                           *)

AGoes(a, pc) == hnA' = [hnA EXCEPT ![a] = pc]

\* ip link add fails on a bridge that is there, marked or not.
CreateBridge(a) ==
  /\ hnA[a] = "idle"
  /\ IF hnBr = "none" THEN hnBr' = "bare" /\ AGoes(a, "mark") ELSE AGoes(a, "done") /\ UNCHANGED hnBr
  /\ UNCHANGED <<hnPair, hnRule, hnLock, hnLife, hnP, hnC, hnTrouble, hnScene>>

\* The alias, the address and the link state; a failure deletes the bridge.
ConfigureBridge(a) ==
  LET from == CASE hnA[a] = "mark" -> "bare" [] hnA[a] = "addr" -> "marked" [] OTHER -> "addressed"
      to == CASE hnA[a] = "mark" -> "marked" [] hnA[a] = "addr" -> "addressed" [] OTHER -> "up"
      next == CASE hnA[a] = "mark" -> "addr" [] hnA[a] = "addr" -> "linkUp" [] OTHER -> "done" IN
  /\ hnA[a] \in {"mark", "addr", "linkUp"}
  /\ \/ hnBr = from /\ NoHnFault /\ hnBr' = to /\ AGoes(a, next)
     \/ hnBr # from /\ NoHnFault /\ UNCHANGED hnBr /\ AGoes(a, "undo")
     \/ hnBr = from /\ HnFault /\ UNCHANGED hnBr /\ AGoes(a, "undo")
  /\ UNCHANGED <<hnPair, hnRule, hnLock, hnLife, hnP, hnC, hnScene>>

\* Deleting a bridge frees the links that were attached to it.
Detached == [o \in Owners |-> [hnPair[o] EXCEPT !.master = FALSE]]

\* Mutant: a bridge that could not be marked is left behind.
LeaveBridge(a) ==
  /\ hnA[a] = "undo" /\ AGoes(a, "done")
  /\ UNCHANGED <<hnKernel, hnLock, hnLife, hnP, hnC, hnTrouble, hnScene>>

RollbackBridge(a) ==
  /\ hnA[a] = "undo"
  /\ \/ NoHnFault /\ hnBr' = "none" /\ hnPair' = Detached /\ AGoes(a, "done")
     \/ HnFault /\ UNCHANGED <<hnBr, hnPair>> /\ AGoes(a, "undoFailed")
  /\ UNCHANGED <<hnRule, hnLock, hnLife, hnP, hnC, hnScene>>

\* DeleteBridge refuses a bridge without the alias, then deletes by name; it
\* does not ask whether containers are attached.
DeleteBridgeInspect(a) ==
  /\ hnA[a] = "idle"
  /\ AGoes(a, IF hnBr \in {"marked", "addressed", "up"} THEN "delete" ELSE "done")
  /\ UNCHANGED <<hnKernel, hnLock, hnLife, hnP, hnC, hnTrouble, hnScene>>

DeleteBridge(a) ==
  /\ hnA[a] = "delete" /\ AGoes(a, "done")
  /\ hnBr' = "none" /\ hnPair' = Detached
  /\ UNCHANGED <<hnRule, hnLock, hnLife, hnP, hnC, hnTrouble, hnScene>>

AdminDies(a) ==
  /\ hnA[a] \notin {"idle", "done", "died"} /\ HnFault
  /\ AGoes(a, "died")
  /\ UNCHANGED <<hnKernel, hnLock, hnLife, hnP, hnC, hnScene>>

-----------------------------------------------------------------------------
HnParentStep(o) ==
  \/ HnTakeLock(o) \/ CreateVethPair(o) \/ AddAddr(o) \/ SetLinkUp(o) \/ MoveToNetns(o)
  \/ RollbackVeth(o) \/ HnUnlock(o) \/ InspectBridge(o) \/ AttachVeth(o)
  \/ (\E chain \in Chains : AddRule(o, chain)) \/ RollbackRule(o) \/ ReleaseChild(o)
  \/ ReleaseFailed(o) \/ SetupFailed(o) \/ StopAndCleanup(o) \/ HnParentReturns(o)
CleanerStep(c) ==
  \/ (\E chain \in Chains : CheckRule(c, chain) \/ DeleteRule(c, chain))
  \/ FindLink(c) \/ RefindLink(c) \/ DeleteLink(c) \/ ClearOwnership(c)
AdminStep(a) ==
  \/ CreateBridge(a) \/ ConfigureBridge(a) \/ RollbackBridge(a)
  \/ DeleteBridgeInspect(a) \/ DeleteBridge(a)

HnNext ==
  \/ \E o \in Owners : \/ HnParentStep(o) \/ ObserverStarts(o) \/ ChildConfigures(o)
                       \/ ChildEnds(o) \/ NetnsDestroyed(o) \/ ObserverMarksDead(o)
                       \/ ParentCrashes(o)
  \/ \E c \in Cleaners : CleanerStep(c)
  \/ \E a \in Admins : AdminStep(a) \/ AdminDies(a)

HnSpec == HnInit /\ [][HnNext]_hnVars

-----------------------------------------------------------------------------
Leftover(o) == hnPair[o].st = "own" \/ \E chain \in Chains : o \in hnRule[chain]

(* Every pair is born with the same peer name, and a setup that finds it    *)
(* taken fails: the handoff lock keeps concurrent setups out of each        *)
(* other's way, so only a parent that died, or that could not roll back,    *)
(* leaves the name taken for others.                                        *)
HandoffNameIsFree ==
  \A o, q \in Owners : PAt(o, "create") /\ hnPair[q].peer = "host" =>
    PAt(q, "crashed") \/ ~hnP[q].ok

(* A parent that returned without a cleanup error has left neither rule nor *)
(* pair of its generation, whichever observer cleaned at the same time.     *)
CleanReturnLeavesNothing ==
  \A o \in Owners : PAt(o, "done") /\ hnP[o].ok => ~Leftover(o)

(* What is left of a generation whose parent returned or died is named by a *)
(* token a later cleanup finds.  One history escapes: the child died during *)
(* the setup, an observer began to clean and cleared the token while the    *)
(* parent went on adding, and then the parent was killed or could not clean *)
(* itself.                                                                  *)
LeftoverIsOwed ==
  \A o \in Owners : hnP[o].pc \in {"done", "crashed"} /\ Leftover(o) =>
    o \in hnToken \cup hnEarly

(* A bridge without the ownership alias, which every command refuses to use *)
(* or to delete, exists only while it is being created, or after a failed   *)
(* rollback or a killed creation.                                           *)
BareBridgeHasACause ==
  hnBr = "bare" => \E a \in Admins : hnA[a] \in {"mark", "undo", "undoFailed", "died"}

(* Rules, veth pairs and bridges: whatever fails, dies or is cleaned by     *)
(* somebody else in the middle, nothing is left that nobody knows of, and   *)
(* nothing that keeps the next setup from its names.                        *)
NothingIsForgotten ==
  /\ HnTypeOK /\ HandoffNameIsFree /\ CleanReturnLeavesNothing
  /\ LeftoverIsOwed /\ BareBridgeHasACause
=============================================================================
