------------------------- MODULE LifecycleContract -------------------------
(***************************************************************************)
(* What state.Store promises about one container, without files, locks,    *)
(* revisions or identities inside records: a container is admitted once,   *)
(* runs one generation at a time, and neither starts the next generation   *)
(* nor goes away while host resources of the last one are still owed.      *)
(***************************************************************************)
CONSTANTS Gens, NoGen

VARIABLES phase,     \* where the container is in its life
          subject,   \* the generation running, or stopped last
          owed       \* kinds of host resources pending cleanup for it

cvars == <<phase, subject, owed>>

Resources == {"cgroup", "network"}

Init == phase = "none" /\ subject = NoGen /\ owed = {}

\* One admission per container ID.
Admit ==
  /\ phase = "none" /\ phase' = "created"
  /\ UNCHANGED <<subject, owed>>

\* The startup failed before any process was bound.
FailAdmission ==
  /\ phase = "created" /\ phase' = "stopped"
  /\ UNCHANGED <<subject, owed>>

\* A generation is bound only when nothing is owed for another one.
Bind(g) ==
  /\ phase \in {"created", "stopped"} /\ owed = {}
  /\ phase' = "running" /\ subject' = g
  /\ UNCHANGED owed

\* Cleanup intent is recorded for the running generation only.
Owe(r) ==
  /\ phase = "running" /\ owed' = owed \cup {r}
  /\ UNCHANGED <<phase, subject>>

\* A network debt may be settled by the running parent, a cgroup debt only
\* after the stop is durable.
Discharge(r) ==
  /\ phase \in (IF r = "network" THEN {"running", "stopped"} ELSE {"stopped"})
  /\ owed' = owed \ {r}
  /\ UNCHANGED <<phase, subject>>

\* The stop keeps the subject: debts are settled for the generation that ran.
Stop ==
  /\ phase = "running" /\ phase' = "stopped"
  /\ UNCHANGED <<subject, owed>>

Remove ==
  /\ phase \in {"created", "stopped"} /\ owed = {}
  /\ phase' = "deleted" /\ subject' = NoGen
  /\ UNCHANGED owed

Next ==
  \/ Admit \/ FailAdmission \/ Stop \/ Remove
  \/ \E g \in Gens : Bind(g)
  \/ \E r \in Resources : Owe(r) \/ Discharge(r)

Spec == Init /\ [][Next]_cvars
=============================================================================
