---------------------------- MODULE MCStateStore ----------------------------
(* Small instances of the state store and of the log of a container, which  *)
(* share no state: part is the one that moves in a behaviour.  Clients of   *)
(* the store are interchangeable.                                           *)
EXTENDS StateStore, ContainerLogs, TLC

VARIABLE part

storeVars == <<part, vars, lcVars>>

StoreInit ==
  /\ Init /\ LcInit
  /\ part \in {"store", "logs"}
  /\ part # "store" => reaped = [g \in Gens |-> CHOOSE c \in Codes : TRUE]

StoreNext ==
  /\ UNCHANGED part
  /\ \/ part = "store" /\ Next /\ UNCHANGED lcVars
     \/ part = "logs" /\ LcNext /\ UNCHANGED vars

StoreSpec == StoreInit /\ [][StoreNext]_storeVars

ClientSymmetry == Permutations(Clients)
=============================================================================
