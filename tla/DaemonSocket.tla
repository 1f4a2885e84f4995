----------------------------- MODULE DaemonSocket -----------------------------
(* The unix socket of the daemon: NewServer refuses a path that exists,     *)
(* binds it and remembers the identity of the socket; Stop removes the path *)
(* when it still has that identity.  A killed daemon leaves its socket,     *)
(* which only an operator removes.                                          *)
EXTENDS Naturals

CONSTANTS Servers,
          NoSocket,
          MaxBinds     \* sockets ever created

ASSUME DaemonAssumption == MaxBinds \in Nat /\ NoSocket \notin 1..MaxBinds

Sockets == 1..MaxBinds

VARIABLES
  dsPath,      \* the socket at the listen path, or NoSocket
  dsBinds,     \* sockets created so far: the next one is dsBinds + 1
  dsSrv,       \* server -> [pc, own, known]: the socket bound, the identity remembered
  dsMeddled    \* an operator removed the path under a server that had bound it

dsVars == <<dsPath, dsBinds, dsSrv, dsMeddled>>

DsTypeOK ==
  /\ dsPath \in Sockets \cup {NoSocket} /\ dsBinds \in 0..MaxBinds
  /\ dsSrv \in [Servers -> [pc: {"off", "bind", "stat", "serving", "closed", "remove"},
                            own: Sockets \cup {NoSocket}, known: Sockets \cup {NoSocket}]]
  /\ dsMeddled \in BOOLEAN
  /\ \A s \in Servers : dsSrv[s].known # NoSocket => dsSrv[s].own # NoSocket

Off == [pc |-> "off", own |-> NoSocket, known |-> NoSocket]

DsInit ==
  /\ dsPath = NoSocket /\ dsBinds = 0 /\ dsSrv = [s \in Servers |-> Off] /\ dsMeddled = FALSE

SrvGoes(s, pc) == dsSrv' = [dsSrv EXCEPT ![s].pc = pc]

\* Mutant: a socket that is already there is taken for a stale one.
SrvReplaces(s) ==
  /\ dsSrv[s].pc = "off" /\ SrvGoes(s, "bind")
  /\ dsPath' = NoSocket /\ UNCHANGED <<dsBinds, dsMeddled>>

\* ensureUnixSocketPathAvailable: any existing path is refused.
SrvCheck(s) ==
  /\ dsSrv[s].pc = "off" /\ dsPath = NoSocket
  /\ SrvGoes(s, "bind")
  /\ UNCHANGED <<dsPath, dsBinds, dsMeddled>>

\* Mutant: only the identity is kept, not the listener.
SrvBindForgets(s) ==
  /\ dsSrv[s].pc = "bind" /\ dsPath = NoSocket /\ dsBinds < MaxBinds
  /\ dsBinds' = dsBinds + 1 /\ dsPath' = dsBinds + 1
  /\ dsSrv' = [dsSrv EXCEPT ![s].pc = "serving", ![s].known = dsBinds + 1]
  /\ UNCHANGED dsMeddled

\* listen: bind fails when the path has appeared since.
SrvBind(s) ==
  /\ dsSrv[s].pc = "bind"
  /\ \/ /\ dsPath # NoSocket /\ dsSrv' = [dsSrv EXCEPT ![s] = Off]
        /\ UNCHANGED <<dsPath, dsBinds>>
     \/ /\ dsPath = NoSocket /\ dsBinds < MaxBinds
        /\ dsBinds' = dsBinds + 1 /\ dsPath' = dsBinds + 1
        /\ dsSrv' = [dsSrv EXCEPT ![s].pc = "stat", ![s].own = dsBinds + 1]
  /\ UNCHANGED dsMeddled

\* The path is looked at again: what it names now is taken for our socket.
SrvStat(s) ==
  /\ dsSrv[s].pc = "stat"
  /\ IF dsPath = NoSocket THEN dsSrv' = [dsSrv EXCEPT ![s] = Off]
     ELSE dsSrv' = [dsSrv EXCEPT ![s].pc = "serving", ![s].known = dsPath]
  /\ UNCHANGED <<dsPath, dsBinds, dsMeddled>>

\* Stop: Shutdown and Close of the listener, which does not unlink.
SrvStop(s) ==
  /\ dsSrv[s].pc = "serving" /\ SrvGoes(s, "closed")
  /\ UNCHANGED <<dsPath, dsBinds, dsMeddled>>

\* removeUnixSocketIfSame: the identity is compared ...
SrvCompare(s) ==
  /\ dsSrv[s].pc = "closed"
  /\ IF dsPath = dsSrv[s].known THEN SrvGoes(s, "remove") ELSE dsSrv' = [dsSrv EXCEPT ![s] = Off]
  /\ UNCHANGED <<dsPath, dsBinds, dsMeddled>>

\* ... and the path is removed by name.
SrvRemove(s) ==
  /\ dsSrv[s].pc = "remove"
  /\ dsPath' = NoSocket /\ dsSrv' = [dsSrv EXCEPT ![s] = Off]
  /\ UNCHANGED <<dsBinds, dsMeddled>>

SrvKilled(s) ==
  /\ dsSrv[s].pc # "off" /\ dsSrv' = [dsSrv EXCEPT ![s] = Off]
  /\ UNCHANGED <<dsPath, dsBinds, dsMeddled>>

\* The operator removes the path, of a dead server or of a live one.
OperatorRemoves ==
  /\ dsPath # NoSocket /\ dsPath' = NoSocket
  /\ dsMeddled' = (dsMeddled \/ \E s \in Servers : dsSrv[s].own # NoSocket)
  /\ UNCHANGED <<dsBinds, dsSrv>>

DsNext ==
  \/ \E s \in Servers : SrvCheck(s) \/ SrvBind(s) \/ SrvStat(s) \/ SrvStop(s) \/ SrvCompare(s)
                        \/ SrvRemove(s) \/ SrvKilled(s)
  \/ OperatorRemoves

DsSpec == DsInit /\ [][DsNext]_dsVars

-----------------------------------------------------------------------------
(* NewServer and Stop of daemons that come and go: a serving daemon is      *)
(* reached through the listen path, whatever the others do, crash or stop,  *)
(* and although stale sockets are removed by hand, as long as nobody        *)
(* removes the path under a daemon that lives.                              *)
LiveServerKeepsItsSocket ==
  ~dsMeddled => \A s \in Servers : dsSrv[s].pc = "serving" => dsPath = dsSrv[s].own

(* The listen path with the bindings that daemons make and take away.       *)
SocketIsItsServers == DsTypeOK /\ LiveServerKeepsItsSocket
=============================================================================
