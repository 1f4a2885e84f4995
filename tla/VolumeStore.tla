----------------------------- MODULE VolumeStore -----------------------------
(* One named volume: its directory with _data and volume.json, created,     *)
(* removed and pruned by processes that share no lock.  Every step works on *)
(* descriptors pinned earlier; a name is looked up again only where the     *)
(* code does so.  Directories and data directories are numbered by inode.   *)
EXTENDS Naturals, FiniteSets

CONSTANTS Creators, Removers, MaxVsCrashes

ASSUME VsAssumption ==
  Creators \cap Removers = {} /\ IsFiniteSet(Removers) /\ MaxVsCrashes \in Nat

VsClients == Creators \cup Removers
\* Each removal frees the name at most once and deletes _data at most once.
VsInodes == 1..(Cardinality(Removers) + 1)

VARIABLES
  vsName,   \* inode the name leads to, 0 when there is none
  vsNext,   \* inodes handed out so far
  vsIno,    \* inode -> [meta, data, tmp]
  vsData,   \* data directories made so far
  vsCl,     \* client -> [pc, fd, data, list]
  vsLast,   \* the last call that returned: <<kind, result>>
  vsCrashes

vsVars == <<vsName, vsNext, vsIno, vsData, vsCl, vsLast, vsCrashes>>

Resting == {"idle", "done", "failed"}
VsRest == [pc |-> "idle", fd |-> 0, data |-> 0, list |-> {}]
EmptyDir == [meta |-> FALSE, data |-> 0, tmp |-> {}]
IsEmpty(i) == vsIno[i] = EmptyDir
Complete(i) == vsIno[i].meta /\ vsIno[i].data # 0

VsTypeOK ==
  /\ vsName \in {0} \cup VsInodes /\ vsNext \in {0} \cup VsInodes
  /\ vsIno \in [VsInodes -> [meta: BOOLEAN, data: {0} \cup VsInodes, tmp: SUBSET Creators]]
  /\ vsData \in {0} \cup VsInodes
  /\ vsCl \in [VsClients -> [pc: Resting \cup {"mkdir", "open", "chain", "data",
                 "publishCheck", "temp", "rename", "finalCheck", "pin", "validate",
                 "list", "child", "recheck", "unlink"},
               fd: {0} \cup VsInodes, data: {0} \cup VsInodes,
               list: SUBSET ({"meta", "data"} \cup Creators)]]
  /\ vsLast \in {"none", "create", "remove"} \X {"ok", "error"}

VsInit ==
  /\ vsName = 0 /\ vsNext = 0 /\ vsData = 0
  /\ vsIno = [i \in VsInodes |-> EmptyDir]
  /\ vsCl = [c \in VsClients |-> VsRest]
  /\ vsLast = <<"none", "ok">> /\ vsCrashes = 0

VsAt(c, pc) == vsCl[c].pc = pc
VsGoes(c, pc) == vsCl' = [vsCl EXCEPT ![c].pc = pc]
\* Where a call ends: a creator may call again, a removal is asked for once
\* and is remembered as failed when it had begun to delete.
VsEnd(c, result) ==
  IF c \in Creators THEN "idle"
  ELSE IF result = "error" /\ vsCl[c].pc \in {"child", "unlink"} THEN "failed" ELSE "done"
VsReturns(c, result) ==
  /\ vsCl' = [vsCl EXCEPT ![c] = [VsRest EXCEPT !.pc = VsEnd(c, result)]]
  /\ vsLast' = <<IF c \in Creators THEN "create" ELSE "remove", result>>
VsCheck(c, holds, next) ==
  \/ holds /\ VsGoes(c, next) /\ UNCHANGED vsLast
  \/ ~holds /\ VsReturns(c, "error")

-----------------------------------------------------------------------------
(* createVolume.                                                            *)

\* Mutant: an existing directory is an error.
CreateMkdirOnce(c) ==
  /\ VsAt(c, "idle") /\ c \in Creators
  /\ IF vsName = 0
     THEN /\ vsNext' = vsNext + 1 /\ vsName' = vsNext + 1
          /\ vsIno' = [vsIno EXCEPT ![vsNext + 1] = EmptyDir]
          /\ VsGoes(c, "open") /\ UNCHANGED vsLast
     ELSE VsReturns(c, "error") /\ UNCHANGED <<vsNext, vsName, vsIno>>
  /\ UNCHANGED <<vsData, vsCrashes>>

\* mkdirat of the volume's directory; an existing one is reused.
CreateMkdir(c) ==
  /\ VsAt(c, "idle") /\ c \in Creators
  /\ IF vsName = 0
     THEN /\ vsNext' = vsNext + 1 /\ vsName' = vsNext + 1
          /\ vsIno' = [vsIno EXCEPT ![vsNext + 1] = EmptyDir]
     ELSE UNCHANGED <<vsNext, vsName, vsIno>>
  /\ VsGoes(c, "open")
  /\ UNCHANGED <<vsData, vsLast, vsCrashes>>

CreateOpen(c) ==
  /\ VsAt(c, "open")
  /\ IF vsName # 0
     THEN vsCl' = [vsCl EXCEPT ![c].pc = "chain", ![c].fd = vsName] /\ UNCHANGED vsLast
     ELSE VsReturns(c, "error")
  /\ UNCHANGED <<vsName, vsNext, vsIno, vsData, vsCrashes>>

\* requireVolumeCreationChain: the name still leads to the pinned directory.
CreateChain(c) ==
  /\ VsAt(c, "chain")
  /\ VsCheck(c, vsName = vsCl[c].fd, "data")
  /\ UNCHANGED <<vsName, vsNext, vsIno, vsData, vsCrashes>>

\* Mutant: _data is always made anew.
CreateFreshData(c) ==
  /\ VsAt(c, "data")
  /\ vsData' = vsData + 1 /\ vsIno' = [vsIno EXCEPT ![vsCl[c].fd].data = vsData + 1]
  /\ vsCl' = [vsCl EXCEPT ![c].pc = "publishCheck", ![c].data = vsData + 1]
  /\ UNCHANGED <<vsName, vsNext, vsLast, vsCrashes>>

\* _data is made or reused; nothing can be made in an unlinked directory.
CreateData(c) ==
  LET i == vsCl[c].fd IN
  /\ VsAt(c, "data")
  /\ \/ /\ vsIno[i].data # 0
        /\ vsCl' = [vsCl EXCEPT ![c].pc = "publishCheck", ![c].data = vsIno[i].data]
        /\ UNCHANGED <<vsIno, vsData, vsLast>>
     \/ /\ vsIno[i].data = 0 /\ vsName = i
        /\ vsData' = vsData + 1 /\ vsIno' = [vsIno EXCEPT ![i].data = vsData + 1]
        /\ vsCl' = [vsCl EXCEPT ![c].pc = "publishCheck", ![c].data = vsData + 1]
        /\ UNCHANGED vsLast
     \/ /\ vsIno[i].data = 0 /\ vsName # i
        /\ VsReturns(c, "error") /\ UNCHANGED <<vsIno, vsData>>
  /\ UNCHANGED <<vsName, vsNext, vsCrashes>>

ChainHolds(c) == vsName = vsCl[c].fd /\ vsIno[vsCl[c].fd].data = vsCl[c].data

CreatePublishCheck(c) ==
  /\ VsAt(c, "publishCheck")
  /\ VsCheck(c, ChainHolds(c), "temp")
  /\ UNCHANGED <<vsName, vsNext, vsIno, vsData, vsCrashes>>

\* The metadata goes to a temporary file in the directory.
CreateTemp(c) ==
  /\ VsAt(c, "temp")
  /\ IF vsName = vsCl[c].fd
     THEN vsIno' = [vsIno EXCEPT ![vsCl[c].fd].tmp = @ \cup {c}]
     ELSE UNCHANGED vsIno
  /\ VsCheck(c, vsName = vsCl[c].fd, "rename")
  /\ UNCHANGED <<vsName, vsNext, vsData, vsCrashes>>

CreateRename(c) ==
  LET i == vsCl[c].fd IN
  /\ VsAt(c, "rename")
  /\ IF c \in vsIno[i].tmp
     THEN vsIno' = [vsIno EXCEPT ![i].meta = TRUE, ![i].tmp = @ \ {c}]
     ELSE UNCHANGED vsIno
  /\ VsCheck(c, c \in vsIno[i].tmp, "finalCheck")
  /\ UNCHANGED <<vsName, vsNext, vsData, vsCrashes>>

\* Mutant: the chain is not looked at again.
CreateUnchecked(c) ==
  /\ VsAt(c, "finalCheck") /\ VsReturns(c, "ok")
  /\ UNCHANGED <<vsName, vsNext, vsIno, vsData, vsCrashes>>

CreateFinalCheck(c) ==
  /\ VsAt(c, "finalCheck")
  /\ VsReturns(c, IF ChainHolds(c) THEN "ok" ELSE "error")
  /\ UNCHANGED <<vsName, vsNext, vsIno, vsData, vsCrashes>>

-----------------------------------------------------------------------------
(* RemoveVolume; a prune calls it for every name.                           *)

\* readVolume by path: an incomplete volume is refused.
RemoveRead(c) ==
  /\ VsAt(c, "idle") /\ c \in Removers
  /\ VsCheck(c, vsName # 0 /\ Complete(vsName), "pin")
  /\ UNCHANGED <<vsName, vsNext, vsIno, vsData, vsCrashes>>

RemovePin(c) ==
  /\ VsAt(c, "pin")
  /\ IF vsName # 0
     THEN vsCl' = [vsCl EXCEPT ![c].pc = "validate", ![c].fd = vsName] /\ UNCHANGED vsLast
     ELSE VsReturns(c, "error")
  /\ UNCHANGED <<vsName, vsNext, vsIno, vsData, vsCrashes>>

RemoveValidate(c) ==
  /\ VsAt(c, "validate")
  /\ VsCheck(c, Complete(vsCl[c].fd), "list")
  /\ UNCHANGED <<vsName, vsNext, vsIno, vsData, vsCrashes>>

\* The entries are enumerated once.
RemoveList(c) ==
  LET d == vsIno[vsCl[c].fd] IN
  /\ VsAt(c, "list")
  /\ vsCl' = [vsCl EXCEPT ![c].pc = "child",
       ![c].list = (IF d.meta THEN {"meta"} ELSE {}) \cup (IF d.data # 0 THEN {"data"} ELSE {})
                   \cup d.tmp]
  /\ UNCHANGED <<vsName, vsNext, vsIno, vsData, vsLast, vsCrashes>>

\* One listed entry, in directory order, which is any; one that has gone is
\* an error that ends the removal.
RemoveChild(c) ==
  LET i == vsCl[c].fd d == vsIno[i] IN
  /\ VsAt(c, "child") /\ vsCl[c].list # {}
  /\ \E e \in vsCl[c].list :
       LET there == IF e = "meta" THEN d.meta ELSE IF e = "data" THEN d.data # 0 ELSE e \in d.tmp
       IN IF there
          THEN /\ vsIno' = [vsIno EXCEPT ![i] =
                    IF e = "meta" THEN [d EXCEPT !.meta = FALSE]
                    ELSE IF e = "data" THEN [d EXCEPT !.data = 0]
                    ELSE [d EXCEPT !.tmp = @ \ {e}]]
               /\ vsCl' = [vsCl EXCEPT ![c].list = @ \ {e}] /\ UNCHANGED vsLast
          ELSE VsReturns(c, "error") /\ UNCHANGED vsIno
  /\ UNCHANGED <<vsName, vsNext, vsData, vsCrashes>>

RemoveRecheck(c) ==
  /\ VsAt(c, "child") /\ vsCl[c].list = {}
  /\ VsCheck(c, vsName = vsCl[c].fd, "unlink")
  /\ UNCHANGED <<vsName, vsNext, vsIno, vsData, vsCrashes>>

\* rmdir by name: whatever directory has it now, and only when it is empty.
RemoveUnlink(c) ==
  /\ VsAt(c, "unlink")
  /\ IF vsName # 0 /\ IsEmpty(vsName)
     THEN vsName' = 0 /\ VsReturns(c, "ok")
     ELSE VsReturns(c, "error") /\ UNCHANGED vsName
  /\ UNCHANGED <<vsNext, vsIno, vsData, vsCrashes>>

VsCrash(c) ==
  /\ vsCl[c].pc \notin Resting /\ vsCrashes < MaxVsCrashes
  /\ VsReturns(c, "error")
  /\ vsCrashes' = vsCrashes + 1
  /\ UNCHANGED <<vsName, vsNext, vsIno, vsData>>

CreateStep(c) ==
  \/ CreateMkdir(c) \/ CreateOpen(c) \/ CreateChain(c) \/ CreateData(c)
  \/ CreatePublishCheck(c) \/ CreateTemp(c) \/ CreateRename(c) \/ CreateFinalCheck(c)
RemoveStep(c) ==
  \/ RemoveRead(c) \/ RemovePin(c) \/ RemoveValidate(c) \/ RemoveList(c)
  \/ RemoveChild(c) \/ RemoveRecheck(c) \/ RemoveUnlink(c)
VsNext == \E c \in VsClients : CreateStep(c) \/ RemoveStep(c) \/ VsCrash(c)

VsSpec == VsInit /\ [][VsNext]_vsVars

-----------------------------------------------------------------------------
VsQuiet == \A c \in VsClients : vsCl[c].pc \in Resting

(* createVolume and removeVolumeDir recheck identities after their work:    *)
(* when no call is under way and the last one to return reported success,   *)
(* what it reported is so.  After a removal the name is free.  After a      *)
(* creation the name leads to the directory with its data; the metadata can *)
(* be gone, since the final check of create_linux.go does not look at       *)
(* volume.json again, but only where a removal failed after it had begun.   *)
LastSuccessIsTrue ==
  VsQuiet /\ vsLast[2] = "ok" =>
    \/ vsLast[1] = "none"
    \/ /\ vsLast[1] = "create" /\ vsName # 0 /\ vsIno[vsName].data # 0
       /\ Complete(vsName) \/ \E r \in Removers : vsCl[r].pc = "failed"
    \/ vsLast[1] = "remove" /\ vsName = 0

(* Creation repairs: once a directory was made, and whatever crashes and    *)
(* failed removals leave of it, a creation that is tried again ends with a  *)
(* complete volume, although RemoveVolume and ListVolumes refuse the        *)
(* half-removed one.                                                        *)
CreationRepairs == vsNext # 0 ~> [](vsName # 0 /\ Complete(vsName))

(* A volume is what the calls that made and removed it have reported.       *)
VolumeIsAsReported == VsTypeOK /\ LastSuccessIsTrue
=============================================================================
