----------------------------- MODULE MCRecords -----------------------------
(* Small instances of the durable records: a state directory that an older  *)
(* release left behind, and the event log.  They share no state, so one run *)
(* explores them side by side: part is the one that moves in a behaviour.   *)
(* The two processes are the clients of the store and the writers of the    *)
(* log, and interchangeable in both roles.                                  *)
EXTENDS StateStore, EventLog, TLC

VARIABLE part

recordsVars == <<part, vars, evVars>>

RecordsInit ==
  /\ EvInit
  /\ \/ part = "store" /\ InitLegacy
     \/ part = "events" /\ Init /\ reaped = [g \in Gens |-> CHOOSE c \in Codes : TRUE]

RecordsNext ==
  /\ UNCHANGED part
  /\ \/ part = "store" /\ Next /\ UNCHANGED evVars
     \/ part = "events" /\ EvNext /\ UNCHANGED vars

RecordsSpec == RecordsInit /\ [][RecordsNext]_recordsVars

ProcessSymmetry == Permutations(Clients)
=============================================================================
