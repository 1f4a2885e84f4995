--------------------- MODULE GenerationLifecycleProofs ---------------------
(***************************************************************************)
(* Proofs about GenerationLifecycle for any set of generations and         *)
(* commands and any number of faults and crashes.                          *)
(*                                                                         *)
(* None of the properties is inductive, because a task acts on what it has *)
(* read some steps before.  The invariant says for every label what the    *)
(* task there may still rely on; the proof shows that the steps of all     *)
(* other tasks leave that true (Guarantee).                                *)
(***************************************************************************)
EXTENDS GenerationLifecycle, ContainerStoreProofs, FiniteSetTheorems, TLAPS

StoppedAs(s, g) == s.rec.status = "stopped" /\ s.rec.ident = g

\* The generation's process was recorded, or its parent has failed to.
Known(g) == pc[g] \notin {"idle", "P.mark"}

\* A generation whose resources are not made after its end: a child that dies
\* early may get a cgroup afterwards.
Trusted(g) == g \notin early

\* Labels of a parent that sets up a blocked child.
Setup == {"P.cgown", "P.mkdir", "P.attach", "P.netown", "P.veth", "P.ports", "P.dns",
          "P.release"}
\* Labels of a task that has proof of the death of the generation it works on.
Proved == {"A.stop", "A.captured", "A.get", "A.dns", "A.cgtok", "A.nettok",
           "F.stop", "F.cgtok", "F.reload", "F.ident", "F.dns", "F.nettok", "C.dns",
           "W.exited", "cgrm", "cgclear", "ports", "veth", "vethonly", "netclear"}
\* Labels of a parent that fails.
Failing == {"B.id", "A.prekill", "A.kill", "A.stop", "A.captured", "A.get", "A.dns",
            "A.cgtok", "A.nettok"}
\* Labels of a parent that finalizes: after the stop, after the cgroup.
AfterStop == {"F.cgtok", "F.reload", "F.ident", "F.dns", "F.nettok",
              "cgrm", "cgclear", "ports", "veth", "netclear"}
AfterCgroupGone == {"F.reload", "F.ident", "F.dns", "F.nettok", "F.done", "P.end",
                    "ports", "veth", "netclear"}

\* What the record and the host have in common for one generation.
GenerationOK(g) ==
  /\ g \in alive /\ g \in released => RunningAs(store, g)
  /\ StoppedAs(store, g) => g \notin alive
  /\ Trusted(g) /\ g \in cgdir => store.cg = g
  /\ Trusted(g) /\ g \in veth \cup ports => store.net = g
  /\ g \in early => g \notin alive /\ g \notin released

\* What a parent at label l with locals r has achieved without an error.
FinishAt(g, l, r) ==
  /\ l \in {"cgrm", "cgclear"} => r.ret = "F.reload"
  /\ l \in {"ports", "veth", "netclear"} => r.ret = "F.done"
  /\ l # "vethonly"
  /\ l \in AfterStop => g \in released /\ ~RunningAs(store, g)
  /\ l \in AfterCgroupGone => store.cg # g /\ g \notin cgdir
  /\ l \in {"F.done", "P.end"} => store.net # g /\ g \notin veth \cup ports
  /\ l = "F.ident" /\ StoppedAs(store, g) => store.rec.rev = r.rev

\* What the parent of generation g relies on at label l with locals r.
ParentAt(g, l, r) ==
  /\ l = "idle" => g \notin alive /\ g \notin early
  /\ l \in {"idle", "P.mark"} => /\ ~RunningAs(store, g) /\ ~StoppedAs(store, g)
                                 /\ g \notin released /\ g \notin cgdir \cup veth \cup ports
  /\ l = "P.mark" => ~r.err
  /\ l \in Setup => /\ g \notin released /\ ~r.err
                    /\ g \in alive => RunningAs(store, g)
  /\ l = "P.mkdir" /\ g \in alive => store.cg = g
  /\ l \in {"P.veth", "P.ports"} /\ g \in alive => store.net = g
  /\ g \notin early /\ l \in Setup \cup {"P.mark"} => g \in alive
  /\ l \in {"P.exec", "P.wait", "F.stop"} => g \in released
  /\ l = "P.wait" => g \notin alive
  /\ l \notin {"idle", "gone", "P.end"} => r.gen = g
  /\ l \in Failing => r.err
  /\ ~r.err => FinishAt(g, l, r)

\* What any task relies on at label l with locals r.
TaskAt(t, l, r) ==
  /\ l \in Proved => r.gen \in Gens /\ r.gen \notin alive /\ Known(r.gen)
  /\ l \in {"R.probe", "W.timeout", "S.kill"} => r.gen \in Gens /\ Known(r.gen)
  /\ l \in {"C.cgid", "C.netid"} => r.gen \in Gens
  /\ l \in {"cgrm", "cgclear"} =>
       r.ret \in IF t \in Gens THEN {"F.reload", "A.nettok"} ELSE {"F.reload", "C.net"}
  /\ l \in {"ports", "veth", "vethonly", "netclear"} =>
       r.ret \in IF t \in Gens THEN {"F.done", "A.kill", "P.end"} ELSE {"F.done", "C.dnsid"}
  /\ l = "cgclear" /\ Trusted(r.gen) => r.gen \notin cgdir
  /\ l = "veth" /\ Trusted(r.gen) => r.gen \notin ports
  /\ l = "netclear" /\ Trusted(r.gen) => r.gen \notin veth \cup ports
  /\ t \in Commands /\ r.code # Unknown =>
       /\ l = "F.stop"
       /\ ~RunningAs(store, r.gen)
       /\ ~(StoppedAs(store, r.gen) /\ store.rec.code = Unknown)

ParentOK(g) == ParentAt(g, pc[g], loc[g])
TaskOK(t) == TaskAt(t, pc[t], loc[t])

IInv ==
  /\ TypeOK
  /\ GoodStore(store)
  /\ \A g \in Gens : GenerationOK(g) /\ ParentOK(g)
  /\ \A t \in Tasks : TaskOK(t)

-----------------------------------------------------------------------------
(* What a step does to the others                                          *)

\* A step of the generations G (none, or the one whose parent moves), of a
\* command or of the environment: what it leaves of store and host.  Only a
\* parent adds to the host or to the tokens, and nothing is taken from a live
\* generation.
Guarantee(G) ==
  /\ GoodStore(store')
  /\ alive' \subseteq alive /\ released \subseteq released'
  /\ \A g \in Gens :
       /\ RunningAs(store', g) => RunningAs(store, g) \/ (g \in G /\ pc[g] = "P.mark")
       /\ g \in alive' /\ RunningAs(store, g) => RunningAs(store', g)
       /\ StoppedAs(store', g) =>
            \/ /\ StoppedAs(store, g)
               /\ g \notin G => store'.rec.rev = store.rec.rev
               /\ store'.rec.code = Unknown => store.rec.code = Unknown
            \/ RunningAs(store, g) /\ g \notin alive'
       /\ g \in released' => g \in released \/ (g \in G /\ pc[g] = "P.release" /\ g \in alive')
       /\ g \in cgdir' => g \in cgdir \/ (g \in G /\ pc[g] = "P.mkdir")
       /\ g \in veth' => g \in veth \/ (g \in G /\ pc[g] = "P.veth")
       /\ g \in ports' => g \in ports \/ (g \in G /\ pc[g] = "P.ports")
       /\ store'.cg = g => store.cg = g \/ (g \in G /\ pc[g] = "P.cgown")
       /\ store'.net = g => store.net = g \/ (g \in G /\ pc[g] = "P.netown")
       /\ store.cg = g /\ (g \in alive' \/ (Trusted(g) /\ g \in cgdir')) => store'.cg = g
       /\ store.net = g /\ (g \in alive' \/ (Trusted(g) /\ g \in veth' \cup ports'))
            => store'.net = g
       /\ g \in early => g \in early'
       /\ g \in early' => g \in early \/ (g \in alive /\ g \notin alive' /\ g \notin released')
       /\ g \notin early' /\ pc[g] \in Setup \cup {"P.mark"} /\ g \in alive => g \in alive'

\* Record and host stay in agreement for every generation.
LEMMA GenerationKept ==
  ASSUME IInv, NEW G, Guarantee(G), NEW g \in Gens
  PROVE  GenerationOK(g)'
  <1>1. GenerationOK(g) /\ ParentOK(g)
    BY DEF IInv
  <1>2. Trusted(g)' => Trusted(g)
    BY DEF Guarantee, Trusted
  <1>3. (g \in alive /\ g \in released => RunningAs(store, g))'
    BY <1>1 DEF Guarantee, GenerationOK, ParentOK, ParentAt, Setup
  <1>4. (StoppedAs(store, g) => g \notin alive)'
    BY <1>1 DEF Guarantee, GenerationOK
  <1>5. Trusted(g) /\ pc[g] \in Setup => g \in alive
    BY <1>1 DEF Trusted, ParentOK, ParentAt
  <1>6. (Trusted(g) /\ g \in cgdir => store.cg = g)'
    BY <1>1, <1>2, <1>5 DEF Guarantee, GenerationOK, ParentOK, ParentAt, Setup
  <1>7. (Trusted(g) /\ g \in veth \cup ports => store.net = g)'
    BY <1>1, <1>2, <1>5 DEF Guarantee, GenerationOK, ParentOK, ParentAt, Setup
  <1>8. (g \in early => g \notin alive /\ g \notin released)'
    BY <1>1 DEF Guarantee, GenerationOK
  <1> QED BY <1>3, <1>4, <1>6, <1>7, <1>8 DEF GenerationOK

\* A parent that does not move keeps what it relies on.
LEMMA ParentKept ==
  ASSUME IInv, NEW G, Guarantee(G), NEW g \in Gens \ G, pc'[g] = pc[g], loc'[g] = loc[g]
  PROVE  ParentOK(g)'
  <1>1. GenerationOK(g) /\ ParentOK(g)
    BY DEF IInv
  <1>2. FinishAt(g, pc[g], loc[g]) => FinishAt(g, pc[g], loc[g])'
    BY DEF Guarantee, FinishAt, AfterStop
  <1> QED BY <1>1, <1>2 DEF ParentOK, ParentAt, Guarantee

\* A task that does not move keeps what it relies on.
LEMMA TaskKept ==
  ASSUME IInv, NEW G, Guarantee(G), NEW t \in Tasks, pc'[t] = pc[t], loc'[t] = loc[t],
         t \in Gens => t \notin G, \A g \in Gens : Known(g) => Known(g)'
  PROVE  TaskOK(t)'
  <1> DEFINE h == loc[t].gen
  <1>1. TaskOK(t)
    BY DEF IInv
  <1>2. h \in Gens => GenerationOK(h) /\ ParentOK(h)
    BY DEF IInv
  <1>3. (pc[t] \in Proved => loc[t].gen \in Gens /\ loc[t].gen \notin alive /\ Known(loc[t].gen))'
    BY <1>1 DEF TaskOK, TaskAt, Guarantee
  <1>4. (/\ pc[t] \in {"R.probe", "W.timeout", "S.kill"}
            => loc[t].gen \in Gens /\ Known(loc[t].gen)
         /\ pc[t] \in {"C.cgid", "C.netid"} => loc[t].gen \in Gens
         /\ pc[t] \in {"cgrm", "cgclear"} =>
              loc[t].ret \in IF t \in Gens THEN {"F.reload", "A.nettok"}
                                           ELSE {"F.reload", "C.net"}
         /\ pc[t] \in {"ports", "veth", "vethonly", "netclear"} =>
              loc[t].ret \in IF t \in Gens THEN {"F.done", "A.kill", "P.end"}
                                           ELSE {"F.done", "C.dnsid"})'
    BY <1>1 DEF TaskOK, TaskAt
  <1>5. h \in Gens /\ h \notin alive /\ Trusted(h)' => Trusted(h) /\ pc[h] \notin Setup
    BY <1>2 DEF Guarantee, Trusted, ParentOK, ParentAt
  <1>6. (/\ pc[t] = "cgclear" /\ Trusted(loc[t].gen) => loc[t].gen \notin cgdir
         /\ pc[t] = "veth" /\ Trusted(loc[t].gen) => loc[t].gen \notin ports
         /\ pc[t] = "netclear" /\ Trusted(loc[t].gen) => loc[t].gen \notin veth \cup ports)'
    BY <1>1, <1>5 DEF TaskOK, TaskAt, Guarantee, Proved, Setup
  <1>7. (t \in Commands /\ loc[t].code # Unknown =>
           /\ pc[t] = "F.stop" /\ ~RunningAs(store, loc[t].gen)
           /\ ~(StoppedAs(store, loc[t].gen) /\ store.rec.code = Unknown))'
    BY <1>1 DEF TaskOK, TaskAt, Guarantee, Proved, Known
  <1> QED BY <1>3, <1>4, <1>6, <1>7 DEF TaskOK, TaskAt

\* Hence a step of one task keeps the invariant if the task itself arrives well.
LEMMA StepKeepsIInv ==
  ASSUME IInv, NEW t \in Tasks, NEW G \in SUBSET {t}, Guarantee(G), TypeOK',
         \A u \in Tasks \ {t} : pc'[u] = pc[u] /\ loc'[u] = loc[u],
         t \in Gens => Known(t)' /\ ParentOK(t)',
         TaskOK(t)'
  PROVE  IInv'
  <1>1. \A g \in Gens : Known(g) => Known(g)'
    BY DEF Known, Tasks
  <1>2. ASSUME NEW g \in Gens PROVE (GenerationOK(g) /\ ParentOK(g))'
    BY <1>2, GenerationKept, ParentKept DEF Tasks
  <1>3. ASSUME NEW u \in Tasks PROVE TaskOK(u)'
    BY <1>1, <1>3, TaskKept DEF Tasks
  <1>4. GoodStore(store)'
    BY DEF Guarantee
  <1> QED BY <1>2, <1>3, <1>4 DEF IInv

\* Task t arrives at label l with locals r; nobody else moves.
Arrives(t, l, r) ==
  /\ pc'[t] = l /\ loc'[t] = r
  /\ pc' \in [Tasks -> Labels] /\ loc' \in [Tasks -> Locals]
  /\ \A u \in Tasks \ {t} : pc'[u] = pc[u] /\ loc'[u] = loc[u]

LogTyped == started' \subseteq Gens /\ died' \subseteq Gens /\ early' = early
CountersTyped == faults' \in 0..MaxFaults /\ crashes' \in 0..MaxCrashes

\* The step idioms move one task.
LEMMA Moves ==
  ASSUME TypeOK, NEW t \in Tasks, NEW l \in Labels, Goto(t, l)
  PROVE  /\ Keep => Arrives(t, l, loc[t])
         /\ Fail(t) => Arrives(t, l, [loc[t] EXCEPT !.err = TRUE])
         /\ \A r \in Locals : Let(t, r) => Arrives(t, l, r)
  <1>1. pc \in [Tasks -> Labels] /\ loc \in [Tasks -> Locals] /\ loc[t] \in Locals
    BY DEF TypeOK
  <1>2. [loc[t] EXCEPT !.err = TRUE] \in Locals
    BY <1>1 DEF Locals
  <1>3. /\ pc' \in [Tasks -> Labels] /\ pc'[t] = l
        /\ \A u \in Tasks \ {t} : pc'[u] = pc[u]
    BY <1>1 DEF Goto
  <1>4. Keep => Arrives(t, l, loc[t])
    BY <1>1, <1>3 DEF Arrives, Keep
  <1>5. ASSUME NEW r \in Locals, Let(t, r) PROVE Arrives(t, l, r)
    BY <1>1, <1>3, <1>5 DEF Arrives, Let
  <1>6. ASSUME Fail(t) PROVE Let(t, [loc[t] EXCEPT !.err = TRUE])
    BY <1>1, <1>6 DEF Fail, Let
  <1> QED BY <1>2, <1>4, <1>5, <1>6

\* The locals after Step: the error is kept, a used return address dropped.
Onward(r, l, bad) == [r EXCEPT !.err = @ \/ bad, !.ret = IF l = @ THEN "idle" ELSE @]

\* What going on with a task leaves of its locals: everything but the error and
\* the return label.
LEMMA OnwardFields ==
  ASSUME NEW r \in Locals, NEW l, NEW bad \in BOOLEAN
  PROVE  LET q == Onward(r, l, bad) IN
           /\ q \in Locals /\ q.cmd = r.cmd /\ q.gen = r.gen /\ q.code = r.code
           /\ q.rev = r.rev /\ q.changed = r.changed /\ q.attached = r.attached
           /\ q.err = (r.err \/ bad) /\ q.ret \in {r.ret, "idle"} /\ (l # r.ret => q.ret = r.ret)
  <1> DEFINE e == r.err \/ bad
             b == IF l = r.ret THEN "idle" ELSE r.ret
             q == [r EXCEPT !.err = e, !.ret = b]
  <1>1. e \in BOOLEAN
    OBVIOUS
  <1>2. b \in Labels
    BY DEF Locals, Labels
  <1>3. Onward(r, l, bad) = q
    BY DEF Onward
  <1>4. b \in {r.ret, "idle"} /\ (l # r.ret => b = r.ret)
    OBVIOUS
  <1>5. ASSUME NEW f \in BOOLEAN, NEW m \in Labels
        PROVE  LET p == [r EXCEPT !.err = f, !.ret = m] IN
                 /\ p \in Locals /\ p.cmd = r.cmd /\ p.gen = r.gen /\ p.code = r.code
                 /\ p.rev = r.rev /\ p.changed = r.changed /\ p.attached = r.attached
                 /\ p.err = f /\ p.ret = m
    BY DEF Locals
  <1> HIDE DEF e, b
  <1>6. /\ q \in Locals /\ q.cmd = r.cmd /\ q.gen = r.gen /\ q.code = r.code
        /\ q.rev = r.rev /\ q.changed = r.changed /\ q.attached = r.attached
        /\ q.err = e /\ q.ret = b
    BY <1>1, <1>2, <1>5
  <1> QED BY <1>3, <1>4, <1>6 DEF e

\* Step takes the task to its label with the locals of Onward.
LEMMA Steps ==
  ASSUME TypeOK, NEW t \in Tasks, NEW l \in Labels, NEW bad \in BOOLEAN, Step(t, l, bad)
  PROVE  Arrives(t, l, Onward(loc[t], l, bad))
  <1>1. loc[t] \in Locals
    BY DEF TypeOK
  <1>2. Onward(loc[t], l, bad) \in Locals
    BY <1>1, OnwardFields
  <1>3. Goto(t, l) /\ Let(t, Onward(loc[t], l, bad))
    BY DEF Step, Onward
  <1> QED BY <1>2, <1>3, Moves

\* A step that leaves record and host alone.
LEMMA QuietKeepsIInv ==
  ASSUME IInv, NEW t \in Tasks, NEW l \in Labels, NEW r \in Locals, Arrives(t, l, r),
         UNCHANGED <<store, host>>, LogTyped, CountersTyped, TaskAt(t, l, r),
         t \in Gens => l \notin {"idle", "P.mark"} /\ ParentAt(t, l, r)
  PROVE  IInv'
  <1>1. Guarantee({})
    BY DEF Guarantee, IInv, host, nethost, GoodStore, LogTyped
  <1>2. TypeOK'
    BY DEF IInv, TypeOK, Arrives, host, nethost, LogTyped, CountersTyped
  <1>3. \A g \in Gens : Known(g) => Known(g)'
    BY DEF Known, Arrives, Tasks
  <1>4. TaskOK(t)'
    BY <1>3 DEF TaskOK, TaskAt, Arrives, host, nethost, Trusted, LogTyped
  <1>5. t \in Gens => Known(t)' /\ ParentOK(t)'
    BY DEF ParentOK, ParentAt, FinishAt, Arrives, host, nethost, Known, LogTyped
  <1> QED BY <1>1, <1>2, <1>4, <1>5, StepKeepsIInv DEF Arrives

\* A step that only reads.
LEMMA PureKeepsIInv ==
  ASSUME IInv, NEW t \in Tasks, NEW l \in Labels, NEW r \in Locals, Arrives(t, l, r),
         Pure, UNCHANGED crashes, TaskAt(t, l, r),
         t \in Gens => l \notin {"idle", "P.mark"} /\ ParentAt(t, l, r)
  PROVE  IInv'
  <1>1. UNCHANGED <<store, host>> /\ LogTyped /\ CountersTyped
    BY DEF IInv, TypeOK, Pure, log, LogTyped, CountersTyped
  <1> QED BY <1>1, QuietKeepsIInv

\* What a task may take from the invariant.
LEMMA Here ==
  ASSUME IInv, NEW t \in Tasks
  PROVE  /\ TypeOK /\ GoodStore(store) /\ loc[t] \in Locals /\ TaskOK(t)
         /\ t \in Gens => GenerationOK(t) /\ ParentOK(t)
         /\ t \in Gens <=> t \notin Commands
  BY TasksAssumption DEF IInv, TypeOK, Tasks

\* The types of the locals, one by one.
LEMMA LocalFields ==
  ASSUME NEW r \in Locals
  PROVE  /\ r.err \in BOOLEAN /\ r.changed \in BOOLEAN /\ r.attached \in BOOLEAN
         /\ r.gen \in GenOrNone /\ r.rev \in Nat /\ r.ret \in Labels
         /\ r.cmd \in Kinds \cup {"run", "waited", "stopped"}
         /\ r.code \in Codes \cup {Unknown, 0, 1}
  BY DEF Locals

\* The locals of a task that has not begun.
LEMMA NoLocalsTyped == NoLocals \in Locals
  BY DEF Locals, NoLocals, GenOrNone, Labels

\* One assignment to the locals keeps them typed.
LEMMA Assigned ==
  ASSUME NEW r \in Locals
  PROVE  /\ \A g \in GenOrNone : [r EXCEPT !.gen = g] \in Locals
         /\ \A b \in Labels : [r EXCEPT !.ret = b] \in Locals
         /\ \A n \in Nat : [r EXCEPT !.rev = n] \in Locals
         /\ \A n \in Nat, b \in BOOLEAN : [r EXCEPT !.rev = n, !.changed = b] \in Locals
         /\ \A k \in Kinds \cup {"run", "waited", "stopped"} : [r EXCEPT !.cmd = k] \in Locals
         /\ \A b \in BOOLEAN : [r EXCEPT !.err = b] \in Locals
         /\ \A b \in BOOLEAN, g \in GenOrNone : [r EXCEPT !.gen = g, !.err = b] \in Locals
         /\ \A k \in Codes \cup {Unknown, 0, 1} :
              [r EXCEPT !.code = k] \in Locals /\ [r EXCEPT !.cmd = "waited", !.code = k] \in Locals
         /\ [r EXCEPT !.attached = TRUE] \in Locals
  <1>1. \A g \in GenOrNone : [r EXCEPT !.gen = g] \in Locals
    BY DEF Locals
  <1>2. \A b \in Labels : [r EXCEPT !.ret = b] \in Locals
    BY DEF Locals
  <1>3. \A n \in Nat : [r EXCEPT !.rev = n] \in Locals
    BY DEF Locals
  <1>4. \A n \in Nat, b \in BOOLEAN : [r EXCEPT !.rev = n, !.changed = b] \in Locals
    BY DEF Locals
  <1>5. \A k \in Kinds \cup {"run", "waited", "stopped"} : [r EXCEPT !.cmd = k] \in Locals
    BY DEF Locals
  <1>6. \A b \in BOOLEAN : [r EXCEPT !.err = b] \in Locals
    BY DEF Locals
  <1>7. \A b \in BOOLEAN, g \in GenOrNone : [r EXCEPT !.gen = g, !.err = b] \in Locals
    BY DEF Locals
  <1>8. \A k \in Codes \cup {Unknown, 0, 1} : [r EXCEPT !.code = k] \in Locals
    BY DEF Locals
  <1>9. \A k \in Codes \cup {Unknown, 0, 1} : [r EXCEPT !.cmd = "waited", !.code = k] \in Locals
    BY DEF Locals
  <1>10. [r EXCEPT !.attached = TRUE] \in Locals
    BY DEF Locals
  <1> QED BY <1>1, <1>2, <1>3, <1>4, <1>5, <1>6, <1>7, <1>8, <1>9, <1>10

\* A command that returns relies on nothing.
LEMMA ReturnKeepsIInv ==
  ASSUME IInv, NEW c \in Commands, Pure, UNCHANGED crashes,
         NEW l \in {"idle", "D.delete", "X.get", "X.fork", "W.clean", "R.get"}, Return(c, l)
  PROVE  IInv'
  <1>1. c \in Tasks /\ l \in Labels
    BY DEF Tasks, Labels
  <1>2. loc[c] \in Locals /\ TypeOK /\ c \notin Gens
    BY <1>1, Here
  <1> DEFINE r == IF l = "idle" THEN NoLocals ELSE [NoLocals EXCEPT !.cmd = loc[c].cmd]
  <1>3. r \in Locals
    BY <1>2, LocalFields, NoLocalsTyped, Assigned
  <1>4. r.code = Unknown
    BY DEF NoLocals
  <1>5. Arrives(c, l, r)
    BY <1>1, <1>2, <1>3, Moves DEF Return
  <1>6. TaskAt(c, l, r)
    BY <1>2, <1>4 DEF TaskAt, Proved
  <1> QED BY <1>1, <1>2, <1>3, <1>5, <1>6, PureKeepsIInv

\* A task that only reads and goes on at l with locals r.
LEMMA ReadingKeepsIInv ==
  ASSUME IInv, NEW t \in Tasks, NEW l \in Labels, NEW r \in Locals, Goto(t, l),
         Let(t, r) \/ (Keep /\ r = loc[t]) \/ (Fail(t) /\ r = [loc[t] EXCEPT !.err = TRUE]),
         Pure, UNCHANGED crashes, TaskAt(t, l, r),
         t \in Gens => l \notin {"idle", "P.mark"} /\ ParentAt(t, l, r)
  PROVE  IInv'
  <1>1. TypeOK
    BY DEF IInv
  <1>2. Arrives(t, l, r)
    BY <1>1, Moves
  <1> QED BY <1>2, PureKeepsIInv

\* The running generation is known, the stopped one known and dead.
LEMMA RunningKnown ==
  ASSUME IInv, store.rec.status = "running"
  PROVE  store.rec.gen \in Gens /\ Known(store.rec.gen)
  <1>1. store.rec.gen \in Gens
    BY DEF IInv, GoodStore, Shape, Stores, Container, GenOrNone
  <1>2. ParentOK(store.rec.gen)
    BY <1>1 DEF IInv
  <1> QED BY <1>1, <1>2 DEF ParentOK, ParentAt, Known, RunningAs

\* The identity of a stopped record is a dead generation whose parent knows of
\* the stop.
LEMMA StoppedKnown ==
  ASSUME IInv, store.rec.status = "stopped", NEW g \in Gens, TeardownIdentity(store) = g
  PROVE  StoppedAs(store, g) /\ g \notin alive /\ Known(g)
  <1>1. StoppedAs(store, g)
    BY GoodTeardown DEF IInv, StoppedAs
  <1>2. GenerationOK(g) /\ ParentOK(g)
    BY DEF IInv
  <1> QED BY <1>1, <1>2 DEF GenerationOK, ParentOK, ParentAt, Known

\* Where the reconciliation that ls, rm and restart begin with leads.
LEMMA AfterReconcileLabels ==
  ASSUME NEW c, loc[c].err \in BOOLEAN
  PROVE  AfterReconcile(c) \in {"idle", "D.delete", "X.get"}
  BY DEF AfterReconcile

-----------------------------------------------------------------------------
(* Commands that read                                                      *)

\* ReconcileContainerState and WaitContainer read the record, and believe only
\* what they read.
LEMMA ReconcileGetKeepsIInv ==
  ASSUME IInv, NEW c \in Commands, ReconcileGet(c)
  PROVE  IInv'
  <1>1. c \in Tasks /\ pc[c] = "R.get" /\ Pure /\ UNCHANGED crashes
    BY DEF Tasks, ReconcileGet, At
  <1>2. loc[c] \in Locals /\ TaskOK(c) /\ c \notin Gens /\ GoodStore(store)
    BY <1>1, Here
  <1>3. loc[c].code = Unknown
    BY <1>1, <1>2 DEF TaskOK, TaskAt
  <1>4. CASE \E l \in {"idle", "D.delete"} : Return(c, l)
    BY <1>1, <1>4, ReturnKeepsIInv
  <1>5. CASE /\ store.rec.status = "stopped" /\ Goto(c, "C.current")
             /\ Let(c, [loc[c] EXCEPT !.rev = store.rec.rev])
    <2>1. store.rec.rev \in Nat
      BY <1>2 DEF GoodStore, Stores, Container
    <2> DEFINE r == [loc[c] EXCEPT !.rev = store.rec.rev]
    <2>2. r \in Locals
      BY <1>2, <2>1, Assigned
    <2>3. r.code = Unknown
      BY <1>2, <1>3 DEF Locals
    <2>4. TaskAt(c, "C.current", r) /\ "C.current" \in Labels
      BY <2>3 DEF TaskAt, Proved, Labels
    <2> HIDE DEF r
    <2> QED BY <1>1, <1>2, <1>5, <2>2, <2>4, ReadingKeepsIInv DEF r
  <1>6. CASE /\ store.rec.status = "running" /\ Goto(c, "R.probe")
             /\ Let(c, [loc[c] EXCEPT !.gen = store.rec.gen])
    <2> DEFINE r == [loc[c] EXCEPT !.gen = store.rec.gen]
    <2>1. store.rec.gen \in Gens /\ Known(store.rec.gen)
      BY <1>6, RunningKnown
    <2>2. r \in Locals
      BY <1>2, <2>1, Assigned DEF GenOrNone
    <2>3. r.code = Unknown /\ r.gen = store.rec.gen
      BY <1>2, <1>3 DEF Locals
    <2>4. TaskAt(c, "R.probe", r) /\ "R.probe" \in Labels
      BY <2>1, <2>3 DEF TaskAt, Proved, Labels
    <2> HIDE DEF r
    <2> QED BY <1>1, <1>2, <1>6, <2>2, <2>4, ReadingKeepsIInv DEF r
  <1> QED BY <1>4, <1>5, <1>6 DEF ReconcileGet

\* probeProcessGeneration: a task goes on to finalize only what it saw dead.
LEMMA ProbeKeepsIInv ==
  ASSUME IInv, NEW c \in Commands, Probe(c)
  PROVE  IInv'
  <1>1. c \in Tasks /\ pc[c] = "R.probe" /\ Pure /\ UNCHANGED crashes
    BY DEF Tasks, Probe, At
  <1>2. loc[c] \in Locals /\ TaskOK(c) /\ c \notin Gens
    BY <1>1, Here
  <1>3. loc[c].code = Unknown /\ loc[c].gen \in Gens /\ Known(loc[c].gen)
    BY <1>1, <1>2 DEF TaskOK, TaskAt
  <1>4. CASE Return(c, AfterReconcile(c))
    BY <1>1, <1>2, <1>4, AfterReconcileLabels, LocalFields, ReturnKeepsIInv
  <1>5. CASE Keep /\ \E l \in {"F.stop", "W.exited"} : Goto(c, l) /\ loc[c].gen \notin alive
    <2>1. \A l \in {"F.stop", "W.exited"} : loc[c].gen \notin alive =>
             TaskAt(c, l, loc[c]) /\ l \in Labels
      BY <1>2, <1>3 DEF TaskAt, Labels
    <2> QED BY <1>1, <1>2, <1>5, <2>1, ReadingKeepsIInv
  <1>6. CASE Keep /\ Goto(c, "W.timeout")
    <2>1. TaskAt(c, "W.timeout", loc[c]) /\ "W.timeout" \in Labels
      BY <1>3 DEF TaskAt, Proved, Labels
    <2> QED BY <1>1, <1>2, <1>6, <2>1, ReadingKeepsIInv
  <1> QED BY <1>4, <1>5, <1>6 DEF Probe

\* A wait that timed out looks at the record again.
LEMMA WaitTimeoutKeepsIInv ==
  ASSUME IInv, NEW c \in Commands, WaitTimeout(c)
  PROVE  IInv'
  <1>1. c \in Tasks /\ pc[c] = "W.timeout" /\ Pure /\ UNCHANGED crashes
    BY DEF Tasks, WaitTimeout, At
  <1>2. loc[c] \in Locals /\ TaskOK(c) /\ c \notin Gens
    BY <1>1, Here
  <1>3. CASE \E l \in {"idle", "W.clean", "R.get"} : Return(c, l)
    BY <1>1, <1>3, ReturnKeepsIInv
  <1>4. CASE Goto(c, "R.probe") /\ Keep
    <2>1. TaskAt(c, "R.probe", loc[c]) /\ "R.probe" \in Labels
      BY <1>1, <1>2 DEF TaskOK, TaskAt, Proved, Labels
    <2> QED BY <1>1, <1>2, <1>4, <2>1, ReadingKeepsIInv
  <1> QED BY <1>3, <1>4 DEF WaitTimeout

\* A wait whose pidfd fired finalizes a generation that is dead.
LEMMA WaitExitedKeepsIInv ==
  ASSUME IInv, NEW c \in Commands, WaitExited(c)
  PROVE  IInv'
  <1>1. c \in Tasks /\ pc[c] = "W.exited" /\ Pure /\ UNCHANGED crashes
    BY DEF Tasks, WaitExited, At
  <1>2. loc[c] \in Locals /\ TaskOK(c) /\ c \notin Gens /\ GoodStore(store)
    BY <1>1, Here
  <1>3. /\ loc[c].code = Unknown
        /\ loc[c].gen \in Gens /\ loc[c].gen \notin alive /\ Known(loc[c].gen)
    BY <1>1, <1>2 DEF TaskOK, TaskAt, Proved
  <1>4. CASE \E l \in {"idle", "R.get"} : Return(c, l)
    BY <1>1, <1>4, ReturnKeepsIInv
  <1>5. CASE /\ store.rec.status = "stopped" /\ Goto(c, "F.stop")
             /\ Let(c, [loc[c] EXCEPT !.cmd = "waited", !.code = store.rec.code])
    <2> DEFINE r == [loc[c] EXCEPT !.cmd = "waited", !.code = store.rec.code]
    <2>1. store.rec.code \in Codes \cup {Unknown, 0, 1}
      BY <1>2 DEF GoodStore, Stores, Container
    <2>2. r \in Locals
      BY <1>2, <2>1, Assigned
    <2>3. r.code = store.rec.code /\ r.gen = loc[c].gen
      BY <1>2 DEF Locals
    <2>4. TaskAt(c, "F.stop", r) /\ "F.stop" \in Labels
      BY <1>3, <1>5, <2>3 DEF TaskAt, Labels, RunningAs, StoppedAs
    <2> HIDE DEF r
    <2> QED BY <1>1, <1>2, <1>5, <2>2, <2>4, ReadingKeepsIInv DEF r
  <1>6. CASE Goto(c, "F.stop") /\ Keep
    <2>1. TaskAt(c, "F.stop", loc[c]) /\ "F.stop" \in Labels
      BY <1>3 DEF TaskAt, Labels
    <2> QED BY <1>1, <1>2, <1>6, <2>1, ReadingKeepsIInv
  <1> QED BY <1>4, <1>5, <1>6 DEF WaitExited

\* Labels at which a command relies on nothing.
Free == {"idle", "R.get", "S.open", "W.clean", "D.delete", "X.get", "X.fork", "F.done",
         "C.current", "C.cgtok", "C.net", "C.nettok", "C.dnsid", "C.done"}

\* A command that goes to a label at which nothing has to be known.
LEMMA FreeKeepsIInv ==
  ASSUME IInv, NEW c \in Commands, NEW l \in Free, NEW r \in Locals, Goto(c, l),
         Let(c, r) \/ (Keep /\ r = loc[c]) \/ (Fail(c) /\ r = [loc[c] EXCEPT !.err = TRUE]),
         Pure, UNCHANGED crashes, r.code = Unknown
  PROVE  IInv'
  <1>1. c \in Tasks /\ c \notin Gens /\ l \in Labels
    BY TasksAssumption DEF Tasks, Free, Labels
  <1>2. TaskAt(c, l, r)
    BY DEF TaskAt, Free, Proved
  <1> QED BY <1>1, <1>2, ReadingKeepsIInv

\* Only at F.stop does a command carry an exit code.
LEMMA CommandHere ==
  ASSUME IInv, NEW c \in Commands
  PROVE  /\ c \in Tasks /\ c \notin Gens /\ loc[c] \in Locals /\ TaskOK(c) /\ GoodStore(store)
         /\ pc[c] # "F.stop" =>
              /\ loc[c].code = Unknown /\ [loc[c] EXCEPT !.err = TRUE].code = Unknown
              /\ [loc[c] EXCEPT !.err = TRUE] \in Locals
  <1>1. c \in Tasks
    BY DEF Tasks
  <1>2. c \notin Gens /\ loc[c] \in Locals /\ TaskOK(c) /\ GoodStore(store)
    BY <1>1, Here
  <1>3. pc[c] # "F.stop" => loc[c].code = Unknown
    BY <1>2 DEF TaskOK, TaskAt
  <1>4. [loc[c] EXCEPT !.err = TRUE].code = loc[c].code
    BY <1>2 DEF Locals
  <1>5. [loc[c] EXCEPT !.err = TRUE] \in Locals
    BY <1>2, Assigned
  <1> QED BY <1>1, <1>2, <1>3, <1>4, <1>5

\* A command begins.
LEMMA StartKeepsIInv ==
  ASSUME IInv, NEW c \in Commands, NEW k \in Kinds, Start(c, k)
  PROVE  IInv'
  <1> DEFINE r == [NoLocals EXCEPT !.cmd = k]
  <1>1. r \in Locals
    BY NoLocalsTyped, Assigned
  <1>2. r.code = Unknown
    BY DEF NoLocals
  <1>3. \E l \in Free : Goto(c, l) /\ Let(c, r)
    BY DEF Start, Free
  <1> HIDE DEF r
  <1> QED BY <1>1, <1>2, <1>3, FreeKeepsIInv DEF Start, At

\* A wait that found the record stopped cleans by that record.
LEMMA WaitCleanKeepsIInv ==
  ASSUME IInv, NEW c \in Commands, WaitClean(c)
  PROVE  IInv'
  <1>1. pc[c] = "W.clean" /\ Pure /\ UNCHANGED crashes
    BY DEF WaitClean, At
  <1>2. loc[c] \in Locals /\ loc[c].code = Unknown /\ store.rec.rev \in Nat
    BY <1>1, CommandHere DEF GoodStore, Stores, Container
  <1> DEFINE r == [loc[c] EXCEPT !.rev = store.rec.rev]
  <1>3. r \in Locals
    BY <1>2, Assigned
  <1>4. r.code = Unknown
    BY <1>2 DEF Locals
  <1>5. CASE Return(c, "idle")
    BY <1>1, <1>5, ReturnKeepsIInv
  <1>6. CASE Goto(c, "C.current") /\ Let(c, r)
    <2> HIDE DEF r
    <2> QED BY <1>1, <1>3, <1>4, <1>6, FreeKeepsIInv DEF Free
  <1> QED BY <1>5, <1>6 DEF WaitClean

\* openRunningProcess remembers the generation it opened.
LEMMA StopOpenKeepsIInv ==
  ASSUME IInv, NEW c \in Commands, StopOpen(c)
  PROVE  IInv'
  <1>1. pc[c] = "S.open" /\ Pure /\ UNCHANGED crashes
    BY DEF StopOpen, At
  <1>2. c \in Tasks /\ c \notin Gens /\ loc[c] \in Locals /\ loc[c].code = Unknown
    BY <1>1, CommandHere
  <1>3. CASE Return(c, "idle")
    BY <1>1, <1>3, ReturnKeepsIInv
  <1>4. CASE /\ store.rec.status = "running" /\ Goto(c, "S.kill")
             /\ Let(c, [loc[c] EXCEPT !.gen = store.rec.gen])
    <2> DEFINE r == [loc[c] EXCEPT !.gen = store.rec.gen]
    <2>1. store.rec.gen \in Gens /\ Known(store.rec.gen)
      BY <1>4, RunningKnown
    <2>2. r \in Locals
      BY <1>2, <2>1, Assigned DEF GenOrNone
    <2>3. r.code = Unknown /\ r.gen = store.rec.gen
      BY <1>2 DEF Locals
    <2>4. TaskAt(c, "S.kill", r) /\ "S.kill" \in Labels
      BY <2>1, <2>3 DEF TaskAt, Proved, Labels
    <2> HIDE DEF r
    <2> QED BY <1>1, <1>2, <1>4, <2>2, <2>4, ReadingKeepsIInv DEF r
  <1> QED BY <1>3, <1>4 DEF StopOpen

\* restartStoppedContainer stops a running container first.
LEMMA RestartGetKeepsIInv ==
  ASSUME IInv, NEW c \in Commands, RestartGet(c) \/ RestartFails(c)
  PROVE  IInv'
  <1>1. pc[c] # "F.stop" /\ Pure /\ UNCHANGED crashes
    BY DEF RestartGet, RestartFails, At
  <1>2. loc[c] \in Locals /\ loc[c].code = Unknown
    BY <1>1, CommandHere
  <1> DEFINE r == [loc[c] EXCEPT !.cmd = "stopped"]
  <1>3. r \in Locals
    BY <1>2, Assigned
  <1>4. r.code = Unknown
    BY <1>2 DEF Locals
  <1>5. CASE \E l \in {"idle", "X.fork"} : Return(c, l)
    BY <1>1, <1>5, ReturnKeepsIInv
  <1>6. CASE Goto(c, "S.open") /\ Let(c, r)
    <2> HIDE DEF r
    <2> QED BY <1>1, <1>3, <1>4, <1>6, FreeKeepsIInv DEF Free
  <1> QED BY <1>5, <1>6 DEF RestartGet, RestartFails

\* The cleanup of a command ends.
LEMMA CleanupDoneKeepsIInv ==
  ASSUME IInv, NEW c \in Commands, CleanupDone(c)
  PROVE  IInv'
  <1>1. loc[c].err \in BOOLEAN
    BY CommandHere, LocalFields
  <1> QED BY <1>1, AfterReconcileLabels, ReturnKeepsIInv DEF CleanupDone, At

\* The three steps of a token's cleanup.
LEMMA IfCurrentKeepsIInv ==
  ASSUME IInv, NEW c \in Commands, NEW from, from # "F.stop", NEW next \in Free,
         NEW stale \in Free, IfCurrent(c, from, next, stale)
  PROVE  IInv'
  <1>1. loc[c] \in Locals /\ loc[c].code = Unknown /\ Pure /\ UNCHANGED crashes /\ Keep
    BY CommandHere DEF IfCurrent, At
  <1>2. \E l \in Free : Goto(c, l)
    BY DEF IfCurrent
  <1> QED BY <1>1, <1>2, FreeKeepsIInv

\* A command reads a cleanup token and remembers the generation in it.
LEMMA ReadTokenKeepsIInv ==
  ASSUME IInv, NEW c \in Commands, NEW from, from # "F.stop", NEW tok \in {store.cg, store.net},
         NEW found \in {"C.cgid", "C.netid"}, NEW none \in Free,
         ReadToken(c, from, tok, found, none)
  PROVE  IInv'
  <1>1. /\ c \in Tasks /\ c \notin Gens /\ loc[c] \in Locals /\ loc[c].code = Unknown
        /\ Pure /\ UNCHANGED crashes
    BY CommandHere DEF ReadToken, At
  <1>2. CASE Goto(c, none) /\ Keep
    BY <1>1, <1>2, FreeKeepsIInv
  <1>3. CASE tok # NoGen /\ Goto(c, found) /\ Let(c, [loc[c] EXCEPT !.gen = tok])
    <2> DEFINE r == [loc[c] EXCEPT !.gen = tok]
    <2>1. tok \in Gens
      BY <1>3 DEF IInv, GoodStore, Stores, GenOrNone
    <2>2. r \in Locals
      BY <1>1, <2>1, Assigned DEF GenOrNone
    <2>3. r.code = Unknown /\ r.gen = tok
      BY <1>1 DEF Locals
    <2>4. TaskAt(c, found, r) /\ found \in Labels
      BY <2>1, <2>3 DEF TaskAt, Proved, Labels
    <2> HIDE DEF r
    <2> QED BY <1>1, <1>3, <2>2, <2>4, ReadingKeepsIInv DEF r
  <1> QED BY <1>2, <1>3 DEF ReadToken

\* The token is consumed only when it is the stopped generation's, which is
\* dead.
LEMMA IfIdentityKeepsIInv ==
  ASSUME IInv, NEW c \in Commands, NEW from \in {"C.cgid", "C.netid"}, At(c, from), Pure,
         NEW removal, NEW next,
         \/ removal = "cgrm" /\ next = "C.net"
         \/ removal = "ports" /\ next = "C.dnsid",
         \/ /\ store.rec.status = "stopped" /\ TeardownIdentity(store) = loc[c].gen
            /\ Goto(c, removal) /\ Let(c, [loc[c] EXCEPT !.ret = next])
         \/ Goto(c, next) /\ (Keep \/ Fail(c))
  PROVE  IInv'
  <1>1. /\ c \in Tasks /\ c \notin Gens /\ loc[c] \in Locals /\ loc[c].code = Unknown
        /\ Pure /\ UNCHANGED crashes /\ loc[c].gen \in Gens
        /\ [loc[c] EXCEPT !.err = TRUE] \in Locals
        /\ [loc[c] EXCEPT !.err = TRUE].code = Unknown
    BY CommandHere DEF At, TaskOK, TaskAt
  <1>2. next \in Free /\ next \in Labels /\ removal \in Labels
    BY DEF Free, Labels
  <1>3. CASE Goto(c, next) /\ (Keep \/ Fail(c))
    BY <1>1, <1>2, <1>3, FreeKeepsIInv
  <1>4. CASE /\ store.rec.status = "stopped" /\ TeardownIdentity(store) = loc[c].gen
             /\ Goto(c, removal) /\ Let(c, [loc[c] EXCEPT !.ret = next])
    <2> DEFINE r == [loc[c] EXCEPT !.ret = next]
    <2>1. loc[c].gen \notin alive /\ Known(loc[c].gen)
      BY <1>1, <1>4, StoppedKnown
    <2>2. r \in Locals
      BY <1>1, <1>2, Assigned
    <2>3. r.code = Unknown /\ r.gen = loc[c].gen /\ r.ret = next
      BY <1>1 DEF Locals
    <2>4. TaskAt(c, removal, r)
      BY <1>1, <2>1, <2>3 DEF TaskAt
    <2> HIDE DEF r
    <2> QED BY <1>1, <1>2, <1>4, <2>2, <2>4, ReadingKeepsIInv DEF r
  <1> QED BY <1>3, <1>4

\* The reads of CleanupStoppedRuntimeResources, one after the other.
LEMMA CleanupKeepsIInv ==
  ASSUME IInv, NEW c \in Commands, CleanupCgroup(c) \/ CleanupNetwork(c)
  PROVE  IInv'
  <1>1. CASE CleanupCgroup(c)
    <2>1. CASE IfCurrent(c, "C.current", "C.cgtok", "C.done")
      BY <2>1, IfCurrentKeepsIInv DEF Free
    <2>2. CASE ReadToken(c, "C.cgtok", store.cg, "C.cgid", "C.net")
      BY <2>2, ReadTokenKeepsIInv DEF Free
    <2>3. CASE IfIdentity(c, "C.cgid", StoppedRevisionCurrent(store, loc[c].rev), "cgrm", "C.net")
      BY <2>3, IfIdentityKeepsIInv DEF IfIdentity, StoppedRevisionCurrent
    <2> QED BY <1>1, <2>1, <2>2, <2>3 DEF CleanupCgroup
  <1>2. CASE CleanupNetwork(c)
    <2>1. CASE IfCurrent(c, "C.net", "C.nettok", "C.dnsid")
      BY <2>1, IfCurrentKeepsIInv DEF Free
    <2>2. CASE ReadToken(c, "C.nettok", store.net, "C.netid", "C.dnsid")
      BY <2>2, ReadTokenKeepsIInv DEF Free
    <2>3. CASE IfIdentity(c, "C.netid", store.rec.status = "stopped", "ports", "C.dnsid")
      BY <2>3, IfIdentityKeepsIInv DEF IfIdentity
    <2> QED BY <1>2, <2>1, <2>2, <2>3 DEF CleanupNetwork
  <1> QED BY <1>1, <1>2

-----------------------------------------------------------------------------
(* Finalization: the steps that read                                       *)

\* Locals after one assignment.
LEMMA AssignedFields ==
  ASSUME NEW r \in Locals
  PROVE  /\ \A b : LET q == [r EXCEPT !.ret = b] IN
              q.gen = r.gen /\ q.code = r.code /\ q.err = r.err /\ q.rev = r.rev /\ q.ret = b
         /\ \A n : LET q == [r EXCEPT !.rev = n] IN
              q.gen = r.gen /\ q.code = r.code /\ q.err = r.err /\ q.rev = n /\ q.ret = r.ret
         /\ \A n, b : LET q == [r EXCEPT !.rev = n, !.changed = b] IN
              q.gen = r.gen /\ q.code = r.code /\ q.err = r.err /\ q.ret = r.ret
         /\ \A k : LET q == [r EXCEPT !.code = k] IN
              q.gen = r.gen /\ q.code = k /\ q.err = r.err /\ q.ret = r.ret
         /\ \A g : LET q == [r EXCEPT !.gen = g] IN
              q.gen = g /\ q.code = r.code /\ q.err = r.err /\ q.ret = r.ret
         /\ LET q == [r EXCEPT !.err = TRUE] IN
              q.gen = r.gen /\ q.code = r.code /\ q.err /\ q.rev = r.rev /\ q.ret = r.ret
         /\ LET q == [r EXCEPT !.attached = TRUE] IN
              q.gen = r.gen /\ q.code = r.code /\ q.err = r.err /\ q.ret = r.ret
  BY DEF Locals

\* A parent that has finalized without an error is the parent of a released
\* payload, whose tokens account for what the host has of it.
LEMMA FinishedParent ==
  ASSUME IInv, NEW g \in Gens, ~loc[g].err, pc[g] \in AfterStop
  PROVE  /\ FinishAt(g, pc[g], loc[g]) /\ g \in released /\ ~RunningAs(store, g)
         /\ Trusted(g) /\ loc[g].gen = g
         /\ g \in cgdir => store.cg = g
         /\ g \in veth \cup ports => store.net = g
  <1>1. GenerationOK(g) /\ ParentOK(g)
    BY DEF IInv
  <1>2. FinishAt(g, pc[g], loc[g]) /\ loc[g].gen = g
    BY <1>1 DEF ParentOK, ParentAt, AfterStop
  <1>3. g \in released /\ ~RunningAs(store, g) /\ Trusted(g)
    BY <1>1, <1>2 DEF FinishAt, Trusted, GenerationOK
  <1> QED BY <1>1, <1>2, <1>3 DEF GenerationOK

\* A token in the store is that of the generation the record is about.
LEMMA TokenIsSubject ==
  ASSUME IInv, NEW g \in Gens, store.cg = g \/ store.net = g
  PROVE  RunningAs(store, g) \/ StoppedAs(store, g)
  <1>1. g # NoGen
    BY GensAssumption
  <1> QED BY <1>1 DEF IInv, GoodStore, Shape, Subject, RunningAs, StoppedAs, Stores, Container, Status

\* FinalizeStoppedGeneration looks for a cgroup token of its generation.
LEMMA FinalizeCgroupKeepsIInv ==
  ASSUME IInv, NEW t \in Tasks, FinalizeCgroup(t)
  PROVE  IInv'
  <1>1. pc[t] = "F.cgtok" /\ Pure /\ UNCHANGED crashes
    BY DEF FinalizeCgroup, At
  <1>2. /\ loc[t] \in Locals /\ TaskOK(t) /\ (t \in Gens => ParentOK(t))
        /\ t \in Gens <=> t \notin Commands
    BY Here
  <1>3. /\ loc[t].gen \in Gens /\ loc[t].gen \notin alive /\ Known(loc[t].gen)
        /\ t \in Commands => loc[t].code = Unknown
    BY <1>1, <1>2 DEF TaskOK, TaskAt, Proved
  <1>4. t \in Gens => loc[t].gen = t
    BY <1>1, <1>2 DEF ParentOK, ParentAt
  <1>5. CASE store.cg = loc[t].gen /\ Goto(t, "cgrm") /\ Let(t, [loc[t] EXCEPT !.ret = "F.reload"])
    <2> DEFINE r == [loc[t] EXCEPT !.ret = "F.reload"]
    <2>1. r \in Locals /\ "cgrm" \in Labels
      BY <1>2, Assigned DEF Labels
    <2>2. r.gen = loc[t].gen /\ r.code = loc[t].code /\ r.err = loc[t].err /\ r.ret = "F.reload"
      BY <1>2, AssignedFields
    <2> HIDE DEF r
    <2>3. TaskAt(t, "cgrm", r)
      BY <1>2, <1>3, <2>2 DEF TaskAt
    <2>4. ASSUME t \in Gens, ~r.err PROVE FinishAt(t, "cgrm", r)
      BY <1>1, <2>2, <2>4, FinishedParent DEF FinishAt, AfterStop, AfterCgroupGone
    <2>5. t \in Gens => ParentAt(t, "cgrm", r)
      BY <1>4, <2>2, <2>4 DEF ParentAt, Setup, Failing
    <2> QED BY <1>1, <1>5, <2>1, <2>3, <2>5, ReadingKeepsIInv DEF r
  <1>6. CASE store.cg # loc[t].gen /\ Goto(t, "F.reload") /\ Keep
    <2>1. TaskAt(t, "F.reload", loc[t]) /\ "F.reload" \in Labels
      BY <1>2, <1>3 DEF TaskAt, Labels
    <2>2. ASSUME t \in Gens, ~loc[t].err PROVE FinishAt(t, "F.reload", loc[t])
      BY <1>1, <1>4, <1>6, <2>2, FinishedParent DEF FinishAt, AfterStop
    <2>3. t \in Gens => ParentAt(t, "F.reload", loc[t])
      BY <1>4, <2>2 DEF ParentAt, Setup, Failing
    <2> QED BY <1>1, <1>2, <1>6, <2>1, <2>3, ReadingKeepsIInv
  <1>7. CASE Goto(t, "F.reload") /\ Fail(t)
    <2> DEFINE r == [loc[t] EXCEPT !.err = TRUE]
    <2>1. r \in Locals /\ r.err /\ r.gen = loc[t].gen /\ r.code = loc[t].code
      BY <1>2, Assigned, AssignedFields
    <2> HIDE DEF r
    <2>2. TaskAt(t, "F.reload", r) /\ "F.reload" \in Labels
      BY <1>2, <1>3, <2>1 DEF TaskAt, Labels
    <2>3. t \in Gens => ParentAt(t, "F.reload", r)
      BY <1>4, <2>1 DEF ParentAt, Setup, Failing
    <2> QED BY <1>1, <1>7, <2>1, <2>2, <2>3, ReadingKeepsIInv DEF r
  <1> QED BY <1>5, <1>6, <1>7 DEF FinalizeCgroup, IfToken

\* FinalizeStoppedGeneration reads the record again before the network cleanup.
LEMMA FinalizeReloadKeepsIInv ==
  ASSUME IInv, NEW t \in Tasks, FinalizeReload(t)
  PROVE  IInv'
  <1>1. pc[t] = "F.reload" /\ Pure /\ UNCHANGED crashes
    BY DEF FinalizeReload, At
  <1>2. /\ loc[t] \in Locals /\ TaskOK(t) /\ (t \in Gens => ParentOK(t))
        /\ t \in Gens <=> t \notin Commands
        /\ store.rec.rev \in Nat
    BY Here DEF GoodStore, Stores, Container
  <1>3. /\ loc[t].gen \in Gens /\ loc[t].gen \notin alive /\ Known(loc[t].gen)
        /\ t \in Commands => loc[t].code = Unknown
    BY <1>1, <1>2 DEF TaskOK, TaskAt, Proved
  <1>4. t \in Gens => loc[t].gen = t
    BY <1>1, <1>2 DEF ParentOK, ParentAt
  <1>5. CASE /\ store.rec.status = "stopped" /\ Goto(t, "F.ident")
             /\ Let(t, [loc[t] EXCEPT !.rev = store.rec.rev])
    <2> DEFINE r == [loc[t] EXCEPT !.rev = store.rec.rev]
    <2>1. r \in Locals /\ "F.ident" \in Labels
      BY <1>2, Assigned DEF Labels
    <2>2. /\ r.gen = loc[t].gen /\ r.code = loc[t].code /\ r.err = loc[t].err
          /\ r.rev = store.rec.rev
      BY <1>2, AssignedFields
    <2> HIDE DEF r
    <2>3. TaskAt(t, "F.ident", r)
      BY <1>2, <1>3, <2>2 DEF TaskAt
    <2>4. ASSUME t \in Gens, ~r.err PROVE FinishAt(t, "F.ident", r)
      BY <1>1, <2>2, <2>4, FinishedParent DEF FinishAt, AfterStop, AfterCgroupGone
    <2>5. t \in Gens => ParentAt(t, "F.ident", r)
      BY <1>4, <2>2, <2>4 DEF ParentAt, Setup, Failing
    <2> QED BY <1>1, <1>5, <2>1, <2>3, <2>5, ReadingKeepsIInv DEF r
  <1>6. CASE store.rec.status \in {"created", "running"} /\ Goto(t, "F.done") /\ Keep
    <2>1. TaskAt(t, "F.done", loc[t]) /\ "F.done" \in Labels
      BY <1>2, <1>3 DEF TaskAt, Labels, Proved
    <2>2. ASSUME t \in Gens, ~loc[t].err PROVE FinishAt(t, "F.done", loc[t])
      <3>1. ~StoppedAs(store, t) /\ ~RunningAs(store, t)
        BY <1>1, <1>6, <2>2, FinishedParent DEF StoppedAs, AfterStop
      <3>2. store.net # t
        BY <2>2, <3>1, TokenIsSubject
      <3> QED BY <1>1, <2>2, <3>2, FinishedParent DEF FinishAt, AfterStop, AfterCgroupGone
    <2>3. t \in Gens => ParentAt(t, "F.done", loc[t])
      BY <1>4, <2>2 DEF ParentAt, Setup, Failing
    <2> QED BY <1>1, <1>2, <1>6, <2>1, <2>3, ReadingKeepsIInv
  <1>7. CASE Goto(t, "F.done") /\ Fail(t)
    <2> DEFINE r == [loc[t] EXCEPT !.err = TRUE]
    <2>1. r \in Locals /\ r.err /\ r.gen = loc[t].gen /\ r.code = loc[t].code
      BY <1>2, Assigned, AssignedFields
    <2> HIDE DEF r
    <2>2. TaskAt(t, "F.done", r) /\ "F.done" \in Labels
      BY <1>2, <1>3, <2>1 DEF TaskAt, Labels, Proved
    <2>3. t \in Gens => ParentAt(t, "F.done", r)
      BY <1>4, <2>1 DEF ParentAt, Setup, Failing
    <2> QED BY <1>1, <1>7, <2>1, <2>2, <2>3, ReadingKeepsIInv DEF r
  <1> QED BY <1>5, <1>6, <1>7 DEF FinalizeReload

\* ... and goes on only while the record is stopped as its generation.
LEMMA FinalizeIdentityKeepsIInv ==
  ASSUME IInv, NEW t \in Tasks, FinalizeIdentity(t)
  PROVE  IInv'
  <1> DEFINE b == loc[t].changed /\ loc[t].cmd = "wait"
             r == [loc[t] EXCEPT !.rev = 0, !.changed = b]
             mine == StoppedRevisionCurrent(store, loc[t].rev) /\ TeardownIdentity(store) = loc[t].gen
  <1>1. /\ pc[t] = "F.ident" /\ UNCHANGED <<store, host, started, faults, crashes>>
        /\ Let(t, r)
    BY DEF FinalizeIdentity, At
  <1>2. /\ loc[t] \in Locals /\ TypeOK /\ TaskOK(t) /\ (t \in Gens => ParentOK(t))
        /\ t \in Gens <=> t \notin Commands
    BY Here
  <1>3. /\ loc[t].gen \in Gens /\ loc[t].gen \notin alive /\ Known(loc[t].gen)
        /\ t \in Commands => loc[t].code = Unknown
    BY <1>1, <1>2 DEF TaskOK, TaskAt, Proved
  <1>4. t \in Gens => loc[t].gen = t
    BY <1>1, <1>2 DEF ParentOK, ParentAt
  <1>5. b \in BOOLEAN
    BY <1>2, LocalFields
  <1> HIDE DEF b
  <1>6. r \in Locals
    BY <1>2, <1>5, Assigned
  <1>7. r.gen = loc[t].gen /\ r.code = loc[t].code /\ r.err = loc[t].err
    BY <1>2, AssignedFields
  <1> HIDE DEF r
  <1>8. LogTyped /\ CountersTyped
    BY <1>1, <1>2 DEF FinalizeIdentity, LogTyped, CountersTyped, TypeOK
  <1>9. CASE Goto(t, "F.dns")
    <2>1. Arrives(t, "F.dns", r) /\ "F.dns" \in Labels
      BY <1>1, <1>2, <1>6, <1>9, Moves DEF Labels
    <2>2. TaskAt(t, "F.dns", r)
      BY <1>2, <1>3, <1>7 DEF TaskAt
    <2>3. ASSUME t \in Gens, ~r.err PROVE FinishAt(t, "F.dns", r)
      BY <1>1, <1>7, <2>3, FinishedParent DEF FinishAt, AfterStop, AfterCgroupGone
    <2>4. t \in Gens => ParentAt(t, "F.dns", r)
      BY <1>4, <1>7, <2>3 DEF ParentAt, Setup, Failing
    <2> QED BY <1>1, <1>6, <1>8, <2>1, <2>2, <2>4, QuietKeepsIInv
  <1>10. CASE ~mine /\ Goto(t, "F.done")
    <2>1. Arrives(t, "F.done", r) /\ "F.done" \in Labels
      BY <1>1, <1>2, <1>6, <1>10, Moves DEF Labels
    <2>2. TaskAt(t, "F.done", r)
      BY <1>2, <1>3, <1>7 DEF TaskAt, Proved
    <2>3. ASSUME t \in Gens, ~r.err PROVE FinishAt(t, "F.done", r)
      <3>1. FinishAt(t, "F.ident", loc[t]) /\ ~RunningAs(store, t)
        BY <1>1, <1>7, <2>3, FinishedParent DEF AfterStop
      <3>2. StoppedAs(store, t) => mine
        BY <1>4, <2>3, <3>1, GoodTeardown DEF FinishAt, StoppedAs, StoppedRevisionCurrent, IInv
      <3>3. store.net # t
        BY <1>10, <2>3, <3>1, <3>2, TokenIsSubject
      <3> QED BY <1>1, <1>7, <2>3, <3>3, FinishedParent DEF FinishAt, AfterStop, AfterCgroupGone
    <2>4. t \in Gens => ParentAt(t, "F.done", r)
      BY <1>4, <1>7, <2>3 DEF ParentAt, Setup, Failing
    <2> QED BY <1>1, <1>6, <1>8, <2>1, <2>2, <2>4, QuietKeepsIInv
  <1> QED BY <1>9, <1>10 DEF FinalizeIdentity

\* ... to the network token, if that is its generation's.
LEMMA FinalizeNetworkKeepsIInv ==
  ASSUME IInv, NEW t \in Tasks, FinalizeNetwork(t)
  PROVE  IInv'
  <1>1. pc[t] = "F.nettok" /\ Pure /\ UNCHANGED crashes
    BY DEF FinalizeNetwork, At
  <1>2. /\ loc[t] \in Locals /\ TaskOK(t) /\ (t \in Gens => ParentOK(t))
        /\ t \in Gens <=> t \notin Commands
    BY Here
  <1>3. /\ loc[t].gen \in Gens /\ loc[t].gen \notin alive /\ Known(loc[t].gen)
        /\ t \in Commands => loc[t].code = Unknown
    BY <1>1, <1>2 DEF TaskOK, TaskAt, Proved
  <1>4. t \in Gens => loc[t].gen = t
    BY <1>1, <1>2 DEF ParentOK, ParentAt
  <1>5. CASE store.net = loc[t].gen /\ Goto(t, "ports") /\ Let(t, [loc[t] EXCEPT !.ret = "F.done"])
    <2> DEFINE r == [loc[t] EXCEPT !.ret = "F.done"]
    <2>1. r \in Locals /\ "ports" \in Labels
      BY <1>2, Assigned DEF Labels
    <2>2. r.gen = loc[t].gen /\ r.code = loc[t].code /\ r.err = loc[t].err /\ r.ret = "F.done"
      BY <1>2, AssignedFields
    <2> HIDE DEF r
    <2>3. TaskAt(t, "ports", r)
      BY <1>2, <1>3, <2>2 DEF TaskAt
    <2>4. ASSUME t \in Gens, ~r.err PROVE FinishAt(t, "ports", r)
      BY <1>1, <2>2, <2>4, FinishedParent DEF FinishAt, AfterStop, AfterCgroupGone
    <2>5. t \in Gens => ParentAt(t, "ports", r)
      BY <1>4, <2>2, <2>4 DEF ParentAt, Setup, Failing
    <2> QED BY <1>1, <1>5, <2>1, <2>3, <2>5, ReadingKeepsIInv DEF r
  <1>6. CASE store.net # loc[t].gen /\ Goto(t, "F.done") /\ Keep
    <2>1. TaskAt(t, "F.done", loc[t]) /\ "F.done" \in Labels
      BY <1>2, <1>3 DEF TaskAt, Labels, Proved
    <2>2. ASSUME t \in Gens, ~loc[t].err PROVE FinishAt(t, "F.done", loc[t])
      BY <1>1, <1>4, <1>6, <2>2, FinishedParent DEF FinishAt, AfterStop, AfterCgroupGone
    <2>3. t \in Gens => ParentAt(t, "F.done", loc[t])
      BY <1>4, <2>2 DEF ParentAt, Setup, Failing
    <2> QED BY <1>1, <1>2, <1>6, <2>1, <2>3, ReadingKeepsIInv
  <1> QED BY <1>5, <1>6 DEF FinalizeNetwork, IfToken

\* ... and returns to its caller with the errors joined.
LEMMA FinalizeDoneKeepsIInv ==
  ASSUME IInv, NEW t \in Tasks, FinalizeDone(t)
  PROVE  IInv'
  <1>1. pc[t] = "F.done" /\ Pure /\ UNCHANGED crashes
    BY DEF FinalizeDone, At
  <1>2. /\ loc[t] \in Locals /\ TaskOK(t) /\ (t \in Gens => ParentOK(t))
        /\ t \in Gens <=> t \notin Commands
    BY Here
  <1>3. loc[t].err \in BOOLEAN /\ loc[t].changed \in BOOLEAN
    BY <1>2, LocalFields
  <1>4. CASE t \in Gens /\ Goto(t, "P.end") /\ Let(t, [NoLocals EXCEPT !.err = loc[t].err])
    <2> DEFINE r == [NoLocals EXCEPT !.err = loc[t].err]
    <2>1. r \in Locals /\ "P.end" \in Labels
      BY <1>3, NoLocalsTyped, Assigned DEF Labels
    <2>2. r.err = loc[t].err
      BY DEF NoLocals
    <2> HIDE DEF r
    <2>3. TaskAt(t, "P.end", r)
      BY <1>2, <1>4 DEF TaskAt, Proved
    <2>4. ParentAt(t, "P.end", r)
      BY <1>1, <1>2, <1>4, <2>2
         DEF ParentOK, ParentAt, FinishAt, Setup, Failing, AfterStop, AfterCgroupGone
    <2> QED BY <1>1, <1>4, <2>1, <2>3, <2>4, ReadingKeepsIInv DEF r
  <1>5. CASE t \in Commands /\ \E l \in {"idle", "D.delete", "X.get", "W.clean", "R.get"} : Return(t, l)
    BY <1>1, <1>5, ReturnKeepsIInv
  <1>6. t \in Commands => \E l \in {"idle", "D.delete", "X.get", "W.clean", "R.get"} : Return(t, l)
    BY <1>2, <1>3, AfterReconcileLabels DEF FinalizeDone
  <1> QED BY <1>2, <1>4, <1>5, <1>6 DEF FinalizeDone

\* A command reads the identity by which it will clean DNS.
LEMMA CleanupDNSReadKeepsIInv ==
  ASSUME IInv, NEW c \in Commands, At(c, "C.dnsid"), CleanupDNS(c)
  PROVE  IInv'
  <1>1. pc[c] = "C.dnsid" /\ Pure /\ UNCHANGED crashes
    BY DEF CleanupDNS, At
  <1>2. c \in Tasks /\ c \notin Gens /\ loc[c] \in Locals /\ loc[c].code = Unknown /\ GoodStore(store)
    BY <1>1, CommandHere
  <1> DEFINE g == TeardownIdentity(store)
             r == [loc[c] EXCEPT !.gen = g]
  <1>3. CASE Goto(c, "C.done") /\ Keep
    BY <1>1, <1>2, <1>3, FreeKeepsIInv DEF Free
  <1>4. CASE store.rec.status = "stopped" /\ g # NoGen /\ Goto(c, "C.dns") /\ Let(c, r)
    <2>1. g \in Gens
      BY <1>2, <1>4, GoodTeardown DEF GoodStore, Stores, Container, GenOrNone
    <2>2. g \notin alive /\ Known(g)
      BY <1>4, <2>1, StoppedKnown
    <2> HIDE DEF g
    <2>3. r \in Locals /\ r.gen = g /\ r.code = Unknown
      <3>1. g \in GenOrNone
        BY <2>1 DEF GenOrNone
      <3>2. r \in Locals
        BY <1>2, <3>1, Assigned
      <3>3. r.gen = g /\ r.code = loc[c].code
        BY <1>2, AssignedFields
      <3> QED BY <1>2, <3>2, <3>3
    <2> HIDE DEF r
    <2>4. TaskAt(c, "C.dns", r) /\ "C.dns" \in Labels
      BY <1>2, <2>1, <2>2, <2>3 DEF TaskAt, Labels
    <2> QED BY <1>1, <1>2, <1>4, <2>3, <2>4, ReadingKeepsIInv
  <1> QED BY <1>1, <1>3, <1>4 DEF CleanupDNS, At, StoppedRevisionCurrent

-----------------------------------------------------------------------------
(* A parent that reads                                                     *)

\* A parent at the end of its failed setup, or gone.
LEMMA ParentReturnsKeepsIInv ==
  ASSUME IInv, NEW g \in Gens, ParentReturns(g)
  PROVE  IInv'
  <1>1. g \in Tasks /\ g \notin Commands /\ Pure /\ UNCHANGED crashes /\ NoLocals \in Locals
    BY NoLocalsTyped, TasksAssumption DEF Tasks, ParentReturns, At
  <1>2. TaskAt(g, "gone", NoLocals) /\ "gone" \in Labels
    BY <1>1 DEF TaskAt, Proved, Labels
  <1>3. ParentAt(g, "gone", NoLocals)
    BY DEF ParentAt, FinishAt, Setup, Failing, AfterStop, AfterCgroupGone
  <1> QED BY <1>1, <1>2, <1>3, ReadingKeepsIInv DEF ParentReturns

\* A task that dies between two calls; its generation stays known to the
\* record.
LEMMA CrashKeepsIInv ==
  ASSUME IInv, NEW t \in Tasks, Crash(t)
  PROVE  IInv'
  <1>1. TypeOK /\ NoLocals \in Locals /\ NoLocals.code = Unknown /\ (t \in Gens <=> t \notin Commands)
    BY Here, NoLocalsTyped DEF NoLocals
  <1> DEFINE l == IF t \in Gens THEN "gone" ELSE "idle"
  <1>2. l \in Labels
    BY DEF Labels
  <1>3. Arrives(t, l, NoLocals)
    BY <1>1, <1>2, Moves DEF Crash
  <1>4. UNCHANGED <<store, host>> /\ LogTyped /\ CountersTyped
    BY <1>1, BoundsAssumption DEF Crash, Pure, log, LogTyped, CountersTyped, TypeOK
  <1>5. TaskAt(t, l, NoLocals)
    BY <1>1 DEF TaskAt, Proved
  <1>6. t \in Gens => ParentAt(t, l, NoLocals)
    BY DEF ParentAt, FinishAt, Setup, Failing, AfterStop, AfterCgroupGone
  <1> QED BY <1>1, <1>2, <1>3, <1>4, <1>5, <1>6, QuietKeepsIInv

\* What a parent takes from the invariant.
LEMMA ParentHere ==
  ASSUME IInv, NEW g \in Gens
  PROVE  /\ g \in Tasks /\ g \notin Commands /\ TypeOK /\ GoodStore(store) /\ loc[g] \in Locals
         /\ TaskOK(g) /\ ParentOK(g) /\ GenerationOK(g)
         /\ pc[g] \notin {"idle", "P.mark"} => Known(g)
  <1>1. g \in Tasks
    BY DEF Tasks
  <1> QED BY <1>1, Here DEF Known

\* cmd.Wait returns: the parent knows that its own generation is dead.
LEMMA ReapKeepsIInv ==
  ASSUME IInv, NEW g \in Gens, Reap(g)
  PROVE  IInv'
  <1>1. pc[g] = "P.wait" /\ Pure /\ UNCHANGED crashes /\ Goto(g, "F.stop")
    BY DEF Reap, At
  <1>2. PICK k \in ReapCodes(g) : Let(g, [loc[g] EXCEPT !.code = k])
    BY DEF Reap
  <1>3. g \in Tasks /\ g \notin Commands /\ loc[g] \in Locals /\ ParentOK(g) /\ Known(g)
    BY <1>1, ParentHere
  <1>4. g \notin alive /\ g \in released /\ loc[g].gen = g
    BY <1>1, <1>3 DEF ParentOK, ParentAt
  <1> DEFINE r == [loc[g] EXCEPT !.code = k]
  <1>5. r \in Locals /\ r.gen = g /\ r.err = loc[g].err
    <2>1. k \in Codes \cup {Unknown, 0, 1}
      BY DEF ReapCodes
    <2>2. r \in Locals
      BY <1>3, <2>1, Assigned
    <2>3. r.gen = loc[g].gen /\ r.err = loc[g].err
      BY <1>3, AssignedFields
    <2> QED BY <1>4, <2>2, <2>3
  <1> HIDE DEF r
  <1>6. TaskAt(g, "F.stop", r) /\ "F.stop" \in Labels
    BY <1>3, <1>4, <1>5 DEF TaskAt, Labels
  <1>7. ParentAt(g, "F.stop", r)
    BY <1>4, <1>5 DEF ParentAt, FinishAt, Setup, Failing, AfterStop, AfterCgroupGone
  <1> QED BY <1>1, <1>2, <1>3, <1>5, <1>6, <1>7, ReadingKeepsIInv DEF r

\* The exec status pipe closes or reports an error.
LEMMA AwaitExecKeepsIInv ==
  ASSUME IInv, NEW g \in Gens, AwaitExec(g)
  PROVE  IInv'
  <1>1. /\ pc[g] = "P.exec" /\ g \notin alive
        /\ UNCHANGED <<store, host, died, early, faults, crashes>>
    BY DEF AwaitExec, At
  <1>2. PICK bad \in BOOLEAN : Step(g, "P.wait", bad)
    BY DEF AwaitExec
  <1>3. g \in Tasks /\ g \notin Commands /\ TypeOK /\ loc[g] \in Locals /\ ParentOK(g) /\ "P.wait" \in Labels
    BY ParentHere DEF Labels
  <1>4. g \in released /\ loc[g].gen = g
    BY <1>1, <1>3 DEF ParentOK, ParentAt
  <1>5. PICK r \in Locals : r = Onward(loc[g], "P.wait", bad) /\ r.gen = g
    BY <1>3, <1>4, OnwardFields
  <1>6. Arrives(g, "P.wait", r)
    BY <1>2, <1>3, <1>5, Steps
  <1>7. LogTyped /\ CountersTyped
    BY <1>1, <1>3 DEF AwaitExec, LogTyped, CountersTyped, TypeOK
  <1>8. TaskAt(g, "P.wait", r)
    BY <1>3, <1>5 DEF TaskAt, Proved
  <1>9. ParentAt(g, "P.wait", r)
    BY <1>1, <1>4, <1>5 DEF ParentAt, FinishAt, Setup, Failing, AfterStop, AfterCgroupGone
  <1> QED BY <1>1, <1>3, <1>6, <1>7, <1>8, <1>9, QuietKeepsIInv

\* The bridge set-up fails and the parent aborts what it has started.
LEMMA BridgeFailureKeepsIInv ==
  ASSUME IInv, NEW g \in Gens, BridgeFailure(g)
  PROVE  IInv'
  <1>1. pc[g] = "B.id" /\ Pure /\ UNCHANGED crashes
    BY DEF BridgeFailure, At
  <1>2. g \in Tasks /\ g \notin Commands /\ loc[g] \in Locals /\ ParentOK(g) /\ Known(g)
    BY <1>1, ParentHere
  <1>3. loc[g].gen = g /\ loc[g].err
    BY <1>1, <1>2 DEF ParentOK, ParentAt, Failing
  <1>4. CASE /\ store.rec.status = "stopped" /\ TeardownIdentity(store) = g
             /\ Goto(g, "ports") /\ Let(g, [loc[g] EXCEPT !.ret = "A.kill"])
    <2> DEFINE r == [loc[g] EXCEPT !.ret = "A.kill"]
    <2>1. r \in Locals /\ "ports" \in Labels
      BY <1>2, Assigned DEF Labels
    <2>2. r.gen = g /\ r.err /\ r.ret = "A.kill"
      BY <1>2, <1>3, AssignedFields
    <2> HIDE DEF r
    <2>3. g \notin alive
      BY <1>4, StoppedKnown
    <2>4. TaskAt(g, "ports", r)
      BY <1>2, <2>2, <2>3 DEF TaskAt
    <2>5. ParentAt(g, "ports", r)
      BY <2>2 DEF ParentAt, Setup, Failing
    <2> QED BY <1>1, <1>2, <1>4, <2>1, <2>4, <2>5, ReadingKeepsIInv DEF r
  <1>5. CASE Goto(g, "A.kill") /\ Keep
    <2>1. TaskAt(g, "A.kill", loc[g]) /\ "A.kill" \in Labels
      BY <1>2 DEF TaskAt, Proved, Labels
    <2>2. ParentAt(g, "A.kill", loc[g])
      BY <1>3 DEF ParentAt, Setup
    <2> QED BY <1>1, <1>2, <1>5, <2>1, <2>2, ReadingKeepsIInv
  <1> QED BY <1>4, <1>5 DEF BridgeFailure

\* abortRuntimeSetupFailureWithAbort reads the record again to see whether its stop is durable.
LEMMA AbortReloadKeepsIInv ==
  ASSUME IInv, NEW g \in Gens, AbortReload(g)
  PROVE  IInv'
  <1> DEFINE r == [NoLocals EXCEPT !.gen = g, !.err = loc[g].err]
  <1>1. pc[g] = "A.get" /\ Pure /\ UNCHANGED crashes /\ Let(g, r)
    BY DEF AbortReload, At
  <1>2. g \in Tasks /\ g \notin Commands /\ loc[g] \in Locals /\ ParentOK(g) /\ TaskOK(g) /\ Known(g)
    BY <1>1, ParentHere
  <1>3. loc[g].gen = g /\ loc[g].err /\ g \notin alive
    BY <1>1, <1>2 DEF ParentOK, ParentAt, Failing, TaskOK, TaskAt, Proved
  <1>4. r \in Locals
    <2>1. g \in GenOrNone /\ loc[g].err \in BOOLEAN
      BY <1>2, LocalFields DEF GenOrNone
    <2> QED BY <2>1, NoLocalsTyped, Assigned
  <1>5. r.gen = g /\ r.err
    BY <1>3 DEF NoLocals
  <1> HIDE DEF r
  <1>6. PICK l \in {"A.dns", "P.end"} : Goto(g, l)
    BY DEF AbortReload
  <1>7. TaskAt(g, l, r) /\ l \in Labels
    BY <1>2, <1>3, <1>5 DEF TaskAt, Labels
  <1>8. ParentAt(g, l, r)
    BY <1>5 DEF ParentAt, Setup
  <1> QED BY <1>1, <1>2, <1>4, <1>6, <1>7, <1>8, ReadingKeepsIInv

\* Both tokens of an aborted generation: to the removal, or past it.
LEMMA AbortTokensKeepIInv ==
  ASSUME IInv, NEW g \in Gens, AbortCgroupToken(g) \/ AbortNetToken(g)
  PROVE  IInv'
  <1>1. pc[g] \in {"A.cgtok", "A.nettok"} /\ Pure /\ UNCHANGED crashes
    BY DEF AbortCgroupToken, AbortNetToken, At
  <1>2. g \in Tasks /\ g \notin Commands /\ loc[g] \in Locals /\ ParentOK(g) /\ TaskOK(g) /\ Known(g)
    BY <1>1, ParentHere
  <1>3. loc[g].gen = g /\ loc[g].err /\ g \notin alive
    BY <1>1, <1>2 DEF ParentOK, ParentAt, Failing, TaskOK, TaskAt, Proved
  <1>4. PICK removal, next :
          /\ \/ removal = "cgrm" /\ next = "A.nettok"
             \/ removal = "ports" /\ next = "P.end"
          /\ \/ Goto(g, removal) /\ Let(g, [loc[g] EXCEPT !.ret = next])
             \/ Goto(g, next) /\ Keep
    BY DEF AbortCgroupToken, AbortNetToken, IfToken
  <1>5. removal \in Labels /\ next \in Labels
    BY <1>4 DEF Labels
  <1>6. CASE Goto(g, removal) /\ Let(g, [loc[g] EXCEPT !.ret = next])
    <2> DEFINE r == [loc[g] EXCEPT !.ret = next]
    <2>1. r \in Locals
      BY <1>2, <1>5, Assigned
    <2>2. r.gen = g /\ r.err /\ r.ret = next
      BY <1>2, <1>3, AssignedFields
    <2> HIDE DEF r
    <2>3. TaskAt(g, removal, r)
      BY <1>2, <1>3, <1>4, <2>2 DEF TaskAt
    <2>4. ParentAt(g, removal, r)
      BY <1>4, <2>2 DEF ParentAt, Setup, Failing
    <2> QED BY <1>1, <1>2, <1>4, <1>5, <1>6, <2>1, <2>3, <2>4, ReadingKeepsIInv DEF r
  <1>7. CASE Goto(g, next) /\ Keep
    <2>1. TaskAt(g, next, loc[g])
      BY <1>2, <1>3, <1>4 DEF TaskAt
    <2>2. ParentAt(g, next, loc[g])
      BY <1>3, <1>4 DEF ParentAt, Setup
    <2> QED BY <1>1, <1>2, <1>4, <1>5, <1>7, <2>1, <2>2, ReadingKeepsIInv
  <1> QED BY <1>4, <1>6, <1>7

-----------------------------------------------------------------------------
(* Steps that take something from the host                                 *)

\* Nothing but the host changes, and it only loses; who loses a child that is
\* being set up is marked.
Shrinks ==
  /\ UNCHANGED <<store, released, started, died, crashes>>
  /\ alive' \subseteq alive /\ cgdir' \subseteq cgdir /\ veth' \subseteq veth
  /\ ports' \subseteq ports /\ dns' \subseteq dns /\ early' \subseteq Gens
  /\ \A g \in Gens :
       /\ g \in early => g \in early'
       /\ g \in early' => g \in early \/ (g \in alive /\ g \notin alive' /\ g \notin released)
       /\ g \notin early' /\ pc[g] \in Setup \cup {"P.mark"} /\ g \in alive => g \in alive'
  /\ faults' \in 0..MaxFaults

\* A step that only takes things away, of the dead, keeps the guarantee.
LEMMA ShrinkGuarantee ==
  ASSUME IInv, Shrinks
  PROVE  Guarantee({}) /\ (pc' \in [Tasks -> Labels] /\ loc' \in [Tasks -> Locals] => TypeOK')
  <1>1. Guarantee({})
    BY DEF Guarantee, Shrinks, IInv, GoodStore
  <1>2. pc' \in [Tasks -> Labels] /\ loc' \in [Tasks -> Locals] => TypeOK'
    BY DEF IInv, TypeOK, Shrinks, log
  <1> QED BY <1>1, <1>2

\* ... and IInv, once what its task believes afterwards is shown.
LEMMA ShrinkKeepsIInv ==
  ASSUME IInv, Shrinks, NEW t \in Tasks, NEW l \in Labels, NEW r \in Locals, Arrives(t, l, r),
         TaskOK(t)', t \in Gens => l \notin {"idle", "P.mark"} /\ ParentOK(t)'
  PROVE  IInv'
  <1>1. Guarantee({}) /\ TypeOK'
    BY ShrinkGuarantee DEF Arrives
  <1>2. t \in Gens => Known(t)'
    BY DEF Known, Arrives
  <1> QED BY <1>1, <1>2, StepKeepsIInv DEF Arrives

\* The fault budget is kept.
LEMMA Counted ==
  ASSUME IInv, NoFault \/ Fault
  PROVE  faults' \in 0..MaxFaults
  BY BoundsAssumption DEF IInv, TypeOK, NoFault, Fault

\* A child that dies under a parent setting it up is marked and not released.
LEMMA DeathShrinks ==
  ASSUME IInv, NEW g \in Gens, ProcessExits(g), UNCHANGED crashes
  PROVE  Shrinks
  <1>1. ParentOK(g)
    BY ParentHere
  <1>2. pc[g] \in Preparing <=> pc[g] \in Setup \cup {"P.mark"}
    BY DEF Preparing, Setup
  <1>3. pc[g] \in Setup \cup {"P.mark"} => g \notin released
    BY <1>1 DEF ParentOK, ParentAt
  <1>4. faults' \in 0..MaxFaults /\ early' \subseteq Gens
    BY DEF IInv, TypeOK, ProcessExits
  <1>5. ASSUME NEW h \in Gens
        PROVE  /\ h \in early => h \in early'
               /\ h \in early' => h \in early \/ (h \in alive /\ h \notin alive' /\ h \notin released)
               /\ h \notin early' /\ pc[h] \in Setup \cup {"P.mark"} /\ h \in alive => h \in alive'
    BY <1>2, <1>3 DEF ProcessExits
  <1> QED BY <1>4, <1>5 DEF ProcessExits, Shrinks, nethost

\* A death takes away what would have to be shown.
LEMMA ChildDiesKeepsIInv ==
  ASSUME IInv, NEW g \in Gens, ChildDies(g)
  PROVE  IInv'
  <1>1. Shrinks
    BY DeathShrinks DEF ChildDies
  <1>2. Guarantee({}) /\ TypeOK'
    BY <1>1, ShrinkGuarantee DEF ChildDies, IInv, TypeOK
  <1>3. \A h \in Gens : GenerationOK(h)' /\ ParentOK(h)'
    BY <1>2, GenerationKept, ParentKept DEF ChildDies
  <1>4. \A t \in Tasks : TaskOK(t)'
    <2>1. \A h \in Gens : Known(h) => Known(h)'
      BY DEF ChildDies, Known
    <2> QED BY <1>2, <2>1, TaskKept DEF ChildDies
  <1> QED BY <1>2, <1>3, <1>4 DEF IInv, Guarantee

\* StopContainerWithSignal goes on to finalize once the process is gone.
LEMMA StopKillKeepsIInv ==
  ASSUME IInv, NEW c \in Commands, StopKill(c)
  PROVE  IInv'
  <1> DEFINE g == loc[c].gen
  <1>1. /\ pc[c] = "S.kill" /\ UNCHANGED crashes /\ ProcessExits(g)
        /\ Goto(c, "F.stop") /\ Keep /\ alive' = alive \ {g}
    BY DEF StopKill, At, ProcessExits
  <1>2. c \in Tasks /\ c \notin Gens /\ loc[c] \in Locals /\ loc[c].code = Unknown /\ TaskOK(c) /\ TypeOK
    BY <1>1, CommandHere DEF IInv
  <1>3. g \in Gens /\ Known(g)
    BY <1>1, <1>2 DEF TaskOK, TaskAt
  <1>4. Shrinks
    BY <1>1, <1>3, DeathShrinks
  <1>5. Arrives(c, "F.stop", loc[c]) /\ "F.stop" \in Labels
    BY <1>1, <1>2, Moves DEF Labels
  <1>6. TaskOK(c)'
    <2>1. Known(g)'
      BY <1>2, <1>3, <1>5 DEF Known, Arrives, Tasks
    <2> QED BY <1>1, <1>2, <1>3, <1>5, <2>1 DEF TaskOK, TaskAt, Arrives
  <1> QED BY <1>2, <1>4, <1>5, <1>6, ShrinkKeepsIInv

\* abortBlockedChildChecked kills its own child before it records the stop.
LEMMA AbortKillKeepsIInv ==
  ASSUME IInv, NEW g \in Gens, AbortPreRunning(g) \/ AbortRuntimeSetup(g)
  PROVE  IInv'
  <1>1. /\ pc[g] \in {"A.prekill", "A.kill"} /\ Fail(g)
        /\ UNCHANGED <<store, released, cgdir, nethost, log, crashes>>
        /\ alive' \in {alive, alive \ {g}} /\ (NoFault \/ Fault)
    BY DEF AbortPreRunning, AbortRuntimeSetup, AbortKill, At
  <1>2. PICK l \in {"A.stop", "P.end"} : Goto(g, l) /\ (l = "A.stop" => g \notin alive')
    BY DEF AbortPreRunning, AbortRuntimeSetup, AbortKill
  <1>3. g \in Tasks /\ g \notin Commands /\ TypeOK /\ loc[g] \in Locals /\ ParentOK(g) /\ l \in Labels
    BY ParentHere DEF Labels
  <1>4. loc[g].gen = g
    BY <1>1, <1>3 DEF ParentOK, ParentAt
  <1>5. PICK r \in Locals : r = [loc[g] EXCEPT !.err = TRUE] /\ r.gen = g /\ r.err
    <2> DEFINE q == [loc[g] EXCEPT !.err = TRUE]
    <2>1. q \in Locals
      BY <1>3, Assigned
    <2>2. q.gen = loc[g].gen /\ q.err
      BY <1>3, AssignedFields
    <2> QED BY <1>4, <2>1, <2>2
  <1>6. Arrives(g, l, r)
    BY <1>1, <1>2, <1>3, <1>5, Moves
  <1>7. Shrinks
    BY <1>1, Counted DEF Shrinks, nethost, Setup, log, IInv, TypeOK
  <1>8. TaskOK(g)'
    <2>1. Known(g)'
      BY <1>2, <1>6 DEF Known, Arrives
    <2> QED BY <1>2, <1>3, <1>5, <1>6, <2>1 DEF TaskOK, TaskAt, Arrives, Proved
  <1>9. ParentOK(g)'
    BY <1>2, <1>5, <1>6 DEF ParentOK, ParentAt, Arrives, Setup
  <1> QED BY <1>3, <1>6, <1>7, <1>8, <1>9, ShrinkKeepsIInv

\* The removals of an aborted generation that leave the tokens alone.
LEMMA AbortRemovalsKeepIInv ==
  ASSUME IInv, NEW g \in Gens, AbortCaptured(g) \/ AbortDNS(g)
  PROVE  IInv'
  <1>1. /\ pc[g] \in {"A.captured", "A.dns"} /\ (NoFault \/ Fault)
        /\ UNCHANGED <<store, alive, released, veth, ports, log, crashes>>
        /\ cgdir' \subseteq cgdir /\ dns' \subseteq dns
    BY DEF AbortCaptured, AbortDNS, Remove, At, nethost, NoFault
  <1>2. PICK l \in {"A.get", "A.cgtok"} : (Goto(g, l) /\ Keep) \/ \E bad \in BOOLEAN : Step(g, l, bad)
    BY DEF AbortCaptured, AbortDNS, Remove
  <1>3. g \in Tasks /\ g \notin Commands /\ TypeOK /\ loc[g] \in Locals /\ ParentOK(g) /\ TaskOK(g) /\ l \in Labels
    BY ParentHere DEF Labels
  <1>4. loc[g].gen = g /\ loc[g].err /\ g \notin alive
    BY <1>1, <1>3 DEF ParentOK, ParentAt, TaskOK, TaskAt, Proved, Failing
  <1>5. PICK r \in Locals : Arrives(g, l, r) /\ r.gen = g /\ r.err
    <2>1. CASE Goto(g, l) /\ Keep
      BY <1>3, <1>4, <2>1, Moves
    <2>2. ASSUME NEW bad \in BOOLEAN, Step(g, l, bad) PROVE Arrives(g, l, Onward(loc[g], l, bad))
      BY <1>3, <2>2, Steps
    <2>3. \A bad \in BOOLEAN : LET q == Onward(loc[g], l, bad) IN
             q \in Locals /\ q.gen = loc[g].gen /\ q.err = (loc[g].err \/ bad)
      BY <1>3, OnwardFields
    <2> QED BY <1>2, <1>3, <1>4, <2>1, <2>2, <2>3
  <1>6. Shrinks
    BY <1>1, Counted DEF Shrinks, log, IInv, TypeOK
  <1>7. TaskOK(g)'
    <2>1. Known(g)'
      BY <1>2, <1>5 DEF Known, Arrives
    <2> QED BY <1>1, <1>3, <1>4, <1>5, <2>1 DEF TaskOK, TaskAt, Arrives, Proved
  <1>8. ParentOK(g)'
    BY <1>5 DEF ParentOK, ParentAt, Arrives, Setup
  <1> QED BY <1>3, <1>5, <1>6, <1>7, <1>8, ShrinkKeepsIInv

\* The DNS binding of a finalized or cleaned generation.
LEMMA DNSRemovalKeepsIInv ==
  ASSUME IInv, NEW t \in Tasks,
         FinalizeDNS(t) \/ (t \in Commands /\ At(t, "C.dns") /\ CleanupDNS(t))
  PROVE  IInv'
  <1>1. /\ UNCHANGED <<store, alive, released, cgdir, veth, ports, log, crashes>>
        /\ dns' \subseteq dns /\ (NoFault \/ Fault)
    BY DEF FinalizeDNS, CleanupDNS, Remove, At
  <1>2. PICK l \in Labels, bad \in BOOLEAN :
          /\ Step(t, l, bad)
          /\ \/ pc[t] = "F.dns" /\ l = "F.nettok"
             \/ pc[t] = "C.dns" /\ l = "C.done" /\ t \in Commands
    <2>1. CASE FinalizeDNS(t)
      BY <2>1 DEF FinalizeDNS, Remove, At, Labels
    <2>2. CASE t \in Commands /\ At(t, "C.dns") /\ CleanupDNS(t)
      BY <2>2 DEF CleanupDNS, Remove, At, Labels
    <2> QED BY <2>1, <2>2
  <1>3. /\ TypeOK /\ loc[t] \in Locals /\ TaskOK(t) /\ (t \in Gens => ParentOK(t))
        /\ t \in Gens <=> t \notin Commands
    BY Here
  <1>4. /\ loc[t].gen \in Gens /\ loc[t].gen \notin alive /\ Known(loc[t].gen)
        /\ t \in Commands => loc[t].code = Unknown
    BY <1>2, <1>3 DEF TaskOK, TaskAt, Proved
  <1>5. PICK r \in Locals : /\ r = Onward(loc[t], l, bad)
                            /\ r.gen = loc[t].gen /\ r.code = loc[t].code
                            /\ r.err = (loc[t].err \/ bad)
    BY <1>3, OnwardFields
  <1>6. Arrives(t, l, r)
    BY <1>2, <1>3, <1>5, Steps
  <1>7. Shrinks
    BY <1>1, Counted DEF Shrinks, log, IInv, TypeOK
  <1>8. TaskOK(t)'
    <2>1. Known(loc[t].gen) => Known(r.gen)'
      BY <1>2, <1>3, <1>4, <1>5, <1>6 DEF Known, Arrives, Tasks
    <2> QED BY <1>1, <1>2, <1>3, <1>4, <1>5, <1>6, <2>1 DEF TaskOK, TaskAt, Arrives
  <1>9. ASSUME t \in Gens PROVE l = "F.nettok" /\ ParentOK(t)'
    <2>1. pc[t] = "F.dns" /\ l = "F.nettok" /\ loc[t].gen = t
      BY <1>2, <1>3, <1>9 DEF ParentOK, ParentAt
    <2>2. ~r.err => FinishAt(t, l, r)'
      BY <1>1, <1>5, <1>9, <2>1, FinishedParent DEF FinishAt, AfterStop, AfterCgroupGone
    <2> QED BY <1>5, <1>6, <2>1, <2>2 DEF ParentOK, ParentAt, Arrives, Setup, Failing
  <1> QED BY <1>3, <1>6, <1>7, <1>8, <1>9, ShrinkKeepsIInv

\* The cgroup of a dead generation is removed, the token still there.
LEMMA RemoveCgroupKeepsIInv ==
  ASSUME IInv, NEW t \in Tasks, RemoveCgroup(t)
  PROVE  IInv'
  <1>1. /\ pc[t] = "cgrm" /\ UNCHANGED <<store, alive, released, nethost, log, crashes>>
        /\ cgdir' \subseteq cgdir /\ (NoFault \/ Fault)
    BY DEF RemoveCgroup, Remove, At
  <1>2. /\ TypeOK /\ loc[t] \in Locals /\ TaskOK(t) /\ (t \in Gens => ParentOK(t))
        /\ t \in Gens <=> t \notin Commands
    BY Here
  <1>3. /\ loc[t].gen \in Gens /\ loc[t].gen \notin alive /\ Known(loc[t].gen)
        /\ t \in Commands => loc[t].code = Unknown
        /\ loc[t].ret \in IF t \in Gens THEN {"F.reload", "A.nettok"} ELSE {"F.reload", "C.net"}
    BY <1>1, <1>2 DEF TaskOK, TaskAt, Proved
  <1>4. PICK l \in Labels, bad \in BOOLEAN :
          /\ Step(t, l, bad)
          /\ \/ l = "cgclear" /\ ~bad /\ loc[t].gen \notin cgdir'
             \/ l = loc[t].ret /\ bad
    <2>1. loc[t].ret \in Labels /\ "cgclear" \in Labels
      BY <1>2, LocalFields DEF Labels
    <2> QED BY <2>1 DEF RemoveCgroup, Remove
  <1>5. PICK r \in Locals : /\ r = Onward(loc[t], l, bad)
                            /\ r.gen = loc[t].gen /\ r.code = loc[t].code
                            /\ r.err = (loc[t].err \/ bad)
                            /\ l # loc[t].ret => r.ret = loc[t].ret
    BY <1>2, OnwardFields
  <1>6. Arrives(t, l, r)
    BY <1>4, <1>2, <1>5, Steps
  <1>7. Shrinks
    BY <1>1, Counted DEF Shrinks, nethost, log, IInv, TypeOK
  <1>8. TaskOK(t)'
    <2>1. Known(r.gen)'
      BY <1>4, <1>3, <1>5, <1>6 DEF Known, Arrives, Tasks
    <2> QED BY <1>1, <1>4, <1>2, <1>3, <1>5, <1>6, <2>1 DEF TaskOK, TaskAt, Arrives
  <1>9. ASSUME t \in Gens PROVE l \notin {"idle", "P.mark"} /\ ParentOK(t)'
    <2>1. loc[t].gen = t /\ (~loc[t].err => loc[t].ret = "F.reload")
      BY <1>1, <1>2, <1>9 DEF ParentOK, ParentAt, FinishAt
    <2>2. l \in {"cgclear", "F.reload", "A.nettok"}
      BY <1>4, <1>3, <1>9
    <2>3. ~r.err => FinishAt(t, l, r)'
      BY <1>1, <1>4, <1>3, <1>5, <1>9, <2>1, FinishedParent
         DEF FinishAt, AfterStop, AfterCgroupGone
    <2> QED BY <1>4, <1>5, <1>6, <2>1, <2>2, <2>3 DEF ParentOK, ParentAt, Arrives, Setup, Failing
  <1> QED BY <1>2, <1>6, <1>7, <1>8, <1>9, ShrinkKeepsIInv

\* Ports and veth of a dead generation are removed, the token still there.
LEMMA RemoveNetworkKeepsIInv ==
  ASSUME IInv, NEW t \in Tasks, RemovePorts(t) \/ RemoveVeth(t)
  PROVE  IInv'
  <1>1. /\ pc[t] \in {"ports", "veth", "vethonly"}
        /\ UNCHANGED <<store, alive, released, cgdir, dns, log, crashes>>
        /\ veth' \subseteq veth /\ ports' \subseteq ports /\ (NoFault \/ Fault)
    BY DEF RemovePorts, RemoveVeth, Remove, At
  <1>2. /\ TypeOK /\ loc[t] \in Locals /\ TaskOK(t) /\ (t \in Gens => ParentOK(t))
        /\ t \in Gens <=> t \notin Commands
    BY Here
  <1>3. /\ loc[t].gen \in Gens /\ loc[t].gen \notin alive /\ Known(loc[t].gen)
        /\ t \in Commands => loc[t].code = Unknown
        /\ loc[t].ret \in IF t \in Gens THEN {"F.done", "A.kill", "P.end"} ELSE {"F.done", "C.dnsid"}
        /\ pc[t] = "veth" /\ Trusted(loc[t].gen) => loc[t].gen \notin ports
    BY <1>1, <1>2 DEF TaskOK, TaskAt, Proved
  <1>4. PICK l \in Labels, bad \in BOOLEAN :
          /\ Step(t, l, bad)
          /\ \/ pc[t] = "ports" /\ l = "veth" /\ ~bad /\ loc[t].gen \notin ports'
             \/ pc[t] = "ports" /\ l = "vethonly" /\ bad
             \/ /\ pc[t] = "veth" /\ l = "netclear" /\ ~bad
                /\ loc[t].gen \notin veth' /\ UNCHANGED ports
             \/ pc[t] = "veth" /\ l = loc[t].ret /\ bad
             \/ pc[t] = "vethonly" /\ l = loc[t].ret
    <2>1. loc[t].ret \in Labels /\ {"veth", "vethonly", "netclear"} \subseteq Labels
      BY <1>2, LocalFields DEF Labels
    <2>2. CASE RemovePorts(t)
      BY <2>1, <2>2 DEF RemovePorts, Remove, At
    <2>3. CASE RemoveVeth(t)
      BY <2>1, <2>3 DEF RemoveVeth, Remove, At
    <2> QED BY <2>2, <2>3
  <1>5. PICK r \in Locals : /\ r = Onward(loc[t], l, bad)
                            /\ r.gen = loc[t].gen /\ r.code = loc[t].code
                            /\ r.err = (loc[t].err \/ bad)
                            /\ l # loc[t].ret => r.ret = loc[t].ret
    BY <1>2, OnwardFields
  <1>6. Arrives(t, l, r)
    BY <1>4, <1>2, <1>5, Steps
  <1>7. Shrinks
    BY <1>1, Counted DEF Shrinks, log, IInv, TypeOK
  <1>8. TaskOK(t)'
    <2>1. Known(r.gen)' /\ Trusted(r.gen)' = Trusted(r.gen)
      BY <1>1, <1>4, <1>3, <1>5, <1>6 DEF Known, Arrives, Tasks, Trusted, log
    <2> QED BY <1>1, <1>4, <1>2, <1>3, <1>5, <1>6, <2>1 DEF TaskOK, TaskAt, Arrives
  <1>9. ASSUME t \in Gens PROVE l \notin {"idle", "P.mark"} /\ ParentOK(t)'
    <2>1. /\ loc[t].gen = t
          /\ ~loc[t].err => pc[t] # "vethonly" /\ loc[t].ret = "F.done"
      BY <1>1, <1>2, <1>9 DEF ParentOK, ParentAt, FinishAt
    <2>2. l \in {"veth", "vethonly", "netclear", "F.done", "A.kill", "P.end"}
      BY <1>4, <1>3, <1>9
    <2>3. ~r.err => FinishAt(t, l, r)'
      BY <1>1, <1>4, <1>3, <1>5, <1>9, <2>1, FinishedParent
         DEF FinishAt, AfterStop, AfterCgroupGone
    <2> QED BY <1>4, <1>3, <1>5, <1>6, <1>9, <2>1, <2>2, <2>3 DEF ParentOK, ParentAt, Arrives, Setup, Failing
  <1> QED BY <1>2, <1>6, <1>7, <1>8, <1>9, ShrinkKeepsIInv

-----------------------------------------------------------------------------
(* Setup: the parent adds to the host                                      *)

\* A step of the parent of g that leaves store and processes alone.
Builds(g) ==
  /\ UNCHANGED <<store, alive, log, crashes>> /\ (NoFault \/ Fault)
  /\ \/ UNCHANGED released
     \/ released' = released \cup {g} /\ pc[g] = "P.release" /\ g \in alive
  /\ cgdir' \subseteq cgdir \/ (cgdir' = cgdir \cup {g} /\ pc[g] = "P.mkdir")
  /\ UNCHANGED veth \/ (veth' = veth \cup {g} /\ pc[g] = "P.veth")
  /\ UNCHANGED ports \/ (ports' = ports \cup {g} /\ pc[g] = "P.ports")
  /\ UNCHANGED dns \/ dns' = dns \cup {g}

\* A parent that makes resources for its own generation, whose token is
\* written.
LEMMA BuildKeepsIInv ==
  ASSUME IInv, NEW g \in Gens, Builds(g), NEW l \in Labels, NEW r \in Locals, Arrives(g, l, r),
         l \notin {"idle", "P.mark"}, TaskOK(g)', ParentOK(g)'
  PROVE  IInv'
  <1>1. g \in Tasks
    BY DEF Tasks
  <1>2. Guarantee({g})
    BY DEF Guarantee, Builds, IInv, GoodStore, log
  <1>3. TypeOK'
    <2>1. faults' \in 0..MaxFaults
      BY Counted DEF Builds
    <2> QED BY <2>1 DEF IInv, TypeOK, Builds, Arrives, log
  <1>4. Known(g)'
    BY DEF Known, Arrives
  <1> QED BY <1>1, <1>2, <1>3, <1>4, StepKeepsIInv DEF Arrives

\* What the parent knows while it sets up, and what it needs to go on or fail.
LEMMA SetupHere ==
  ASSUME IInv, NEW g \in Gens, pc[g] \in Setup
  PROVE  /\ TypeOK /\ loc[g] \in Locals /\ loc[g].gen = g /\ ~loc[g].err
         /\ g \notin released /\ (g \in alive => RunningAs(store, g))
         /\ g \notin early => g \in alive
         /\ g \in Tasks /\ g \notin Commands
         /\ pc[g] = "P.mkdir" /\ g \in alive => store.cg = g
         /\ pc[g] \in {"P.veth", "P.ports"} /\ g \in alive => store.net = g
  <1>1. TypeOK /\ loc[g] \in Locals /\ ParentOK(g) /\ g \in Tasks /\ g \notin Commands
    BY ParentHere
  <1> QED BY <1>1 DEF ParentOK, ParentAt, Setup

\* It goes on ...
LEMMA SetupGoesOn ==
  ASSUME IInv, NEW g \in Gens, pc[g] \in Setup, Builds(g),
         NEW l \in {"P.attach", "P.netown", "P.ports", "P.dns", "P.release", "P.exec"},
         l = "P.ports" => pc[g] = "P.veth",
         l = "P.exec" <=> g \in released',
         NEW r \in Locals, Arrives(g, l, r), r.gen = g, ~r.err
  PROVE  IInv'
  <1>1. /\ g \notin released /\ (g \in alive => RunningAs(store, g))
        /\ g \notin early => g \in alive
        /\ g \notin Commands
        /\ pc[g] = "P.veth" /\ g \in alive => store.net = g
    BY SetupHere
  <1>2. TaskOK(g)'
    BY <1>1 DEF TaskOK, TaskAt, Arrives, Proved
  <1>3. ParentOK(g)'
    BY <1>1 DEF ParentOK, ParentAt, FinishAt, Arrives, Builds, log, Setup, Failing, AfterStop, AfterCgroupGone
  <1> QED BY <1>2, <1>3, BuildKeepsIInv DEF Labels

\* ... or fails.
LEMMA SetupFails ==
  ASSUME IInv, NEW g \in Gens, pc[g] \in Setup, Builds(g), NEW l \in {"A.kill", "B.id"},
         Goto(g, l), Fail(g)
  PROVE  IInv'
  <1>1. TypeOK /\ loc[g] \in Locals /\ g \in Tasks /\ g \notin Commands /\ loc[g].gen = g
    BY SetupHere
  <1>2. PICK r \in Locals : r = [loc[g] EXCEPT !.err = TRUE] /\ r.gen = g /\ r.err
    <2> DEFINE q == [loc[g] EXCEPT !.err = TRUE]
    <2>1. q \in Locals
      BY <1>1, Assigned
    <2>2. q.gen = loc[g].gen /\ q.err
      BY <1>1, AssignedFields
    <2> QED BY <1>1, <2>1, <2>2
  <1>3. Arrives(g, l, r) /\ l \in Labels
    BY <1>1, <1>2, Moves DEF Labels
  <1>4. TaskOK(g)'
    BY <1>1, <1>3 DEF TaskOK, TaskAt, Arrives, Proved
  <1>5. ParentOK(g)'
    BY <1>2, <1>3 DEF ParentOK, ParentAt, Arrives, Setup
  <1> QED BY <1>3, <1>4, <1>5, BuildKeepsIInv

\* The cgroup is made after its token was written.
LEMMA CgroupSetupKeepsIInv ==
  ASSUME IInv, NEW g \in Gens, MkdirCgroup(g) \/ AttachCgroup(g)
  PROVE  IInv'
  <1>1. pc[g] \in {"P.mkdir", "P.attach"} /\ pc[g] \in Setup
    BY DEF MkdirCgroup, AttachCgroup, At, Setup
  <1>2. TypeOK /\ loc[g] \in Locals /\ g \in Tasks /\ loc[g].gen = g /\ ~loc[g].err /\ g \notin released
    BY <1>1, SetupHere
  <1>3. Builds(g) /\ UNCHANGED released
    <2>1. CASE MkdirCgroup(g)
      BY <2>1 DEF MkdirCgroup, At, Builds, NoFault, nethost
    <2>2. CASE AttachCgroup(g)
      BY <2>2 DEF AttachCgroup, At, Builds, NoFault, nethost
    <2> QED BY <2>1, <2>2
  <1>4. CASE Goto(g, "A.kill") /\ Fail(g)
    BY <1>1, <1>3, <1>4, SetupFails
  <1>5. ASSUME NEW l \in {"P.attach", "P.netown", "P.release"}, Goto(g, l), Keep PROVE IInv'
    <2>0. l \in Labels
      BY DEF Labels
    <2>1. Arrives(g, l, loc[g])
      BY <1>2, <1>5, <2>0, Moves
    <2> QED BY <1>1, <1>2, <1>3, <2>1, SetupGoesOn
  <1>6. ASSUME NEW l \in {"P.netown", "P.release"}, Goto(g, l),
               Let(g, [loc[g] EXCEPT !.attached = TRUE])
        PROVE IInv'
    <2> DEFINE r == [loc[g] EXCEPT !.attached = TRUE]
    <2>1. r \in Locals
      BY <1>2, Assigned
    <2>2. r.gen = loc[g].gen /\ r.err = loc[g].err
      BY <1>2, AssignedFields
    <2>0. l \in Labels
      BY DEF Labels
    <2>3. Arrives(g, l, r)
      BY <1>2, <1>6, <2>0, <2>1, Moves
    <2> HIDE DEF r
    <2> QED BY <1>1, <1>2, <1>3, <2>1, <2>2, <2>3, SetupGoesOn
  <1>7. AfterCgroup \in {"P.netown", "P.release"}
    BY DEF AfterCgroup
  <1> QED BY <1>4, <1>5, <1>6, <1>7 DEF MkdirCgroup, AttachCgroup

\* The veth pair and the ports are made after their token was written.
LEMMA NetworkSetupKeepsIInv ==
  ASSUME IInv, NEW g \in Gens, SetupVeth(g) \/ SetupPorts(g) \/ BindDNS(g)
  PROVE  IInv'
  <1>1. pc[g] \in {"P.veth", "P.ports", "P.dns"} /\ pc[g] \in Setup
    BY DEF SetupVeth, SetupPorts, BindDNS, At, Setup
  <1>2. TypeOK /\ loc[g] \in Locals /\ g \in Tasks /\ loc[g].gen = g /\ ~loc[g].err /\ g \notin released
    BY <1>1, SetupHere
  <1>3. Builds(g) /\ UNCHANGED released
    <2>1. CASE SetupVeth(g)
      BY <2>1 DEF SetupVeth, At, Builds
    <2>2. CASE SetupPorts(g)
      BY <2>2 DEF SetupPorts, At, Builds
    <2>3. CASE BindDNS(g)
      BY <2>3 DEF BindDNS, At, Builds
    <2> QED BY <2>1, <2>2, <2>3
  <1>4. CASE Goto(g, "B.id") /\ Fail(g)
    BY <1>1, <1>3, <1>4, SetupFails
  <1>5. ASSUME NEW l \in {"P.ports", "P.dns", "P.release"}, Goto(g, l), Keep,
               l = "P.ports" => pc[g] = "P.veth"
        PROVE IInv'
    <2>0. l \in Labels
      BY DEF Labels
    <2>1. Arrives(g, l, loc[g])
      BY <1>2, <1>5, <2>0, Moves
    <2> QED BY <1>1, <1>2, <1>3, <1>5, <2>1, SetupGoesOn
  <1> QED BY <1>4, <1>5 DEF SetupVeth, SetupPorts, BindDNS, At

\* The child is let go when its generation is the running one of the record.
LEMMA ReleaseKeepsIInv ==
  ASSUME IInv, NEW g \in Gens, Release(g)
  PROVE  IInv'
  <1>1. pc[g] = "P.release" /\ pc[g] \in Setup
    BY DEF Release, At, Setup
  <1>2. TypeOK /\ loc[g] \in Locals /\ g \in Tasks /\ loc[g].gen = g /\ ~loc[g].err /\ g \notin released
    BY <1>1, SetupHere
  <1>3. Builds(g)
    BY DEF Release, At, Builds, NoFault, nethost
  <1>4. CASE Fail(g) /\ Goto(g, IF Bridge THEN "B.id" ELSE "A.kill")
    BY <1>1, <1>3, <1>4, SetupFails
  <1>5. CASE released' = released \cup {g} /\ Goto(g, "P.exec") /\ Keep
    <2>1. Arrives(g, "P.exec", loc[g])
      BY <1>2, <1>5, Moves DEF Labels
    <2> QED BY <1>1, <1>2, <1>3, <1>5, <2>1, SetupGoesOn
  <1> QED BY <1>4, <1>5 DEF Release

-----------------------------------------------------------------------------
(* Steps that write the store                                              *)

\* Only the store changes.
Writes == UNCHANGED <<host, log, crashes>> /\ (NoFault \/ Fault)

\* A step that writes the store, once guarantee and belief of its task are
\* shown.
LEMMA WriteKeepsIInv ==
  ASSUME IInv, Writes, NEW t \in Tasks, NEW G \in SUBSET {t}, Guarantee(G),
         NEW l \in Labels, NEW r \in Locals, Arrives(t, l, r),
         TaskOK(t)', t \in Gens => l \notin {"idle", "P.mark"} /\ ParentOK(t)'
  PROVE  IInv'
  <1>1. TypeOK'
    <2>1. faults' \in 0..MaxFaults
      BY Counted DEF Writes
    <2>2. store' \in Stores
      BY DEF Guarantee, GoodStore
    <2> QED BY <2>1, <2>2 DEF IInv, TypeOK, Writes, Arrives, log, host, nethost
  <1>2. t \in Gens => Known(t)'
    BY DEF Known, Arrives
  <1> QED BY <1>1, <1>2, StepKeepsIInv DEF Arrives

\* A write that did not happen.
LEMMA SameStoreGuarantee ==
  ASSUME IInv, UNCHANGED <<store, host, early>>, NEW G
  PROVE  Guarantee(G)
  BY DEF Guarantee, IInv, host, nethost, GoodStore

\* The record and the tokens of a store in the current format.
LEMMA StoreTyped ==
  ASSUME IInv
  PROVE  /\ GoodStore(store) /\ store \in Stores /\ store.rec \in Container
         /\ store.rec.rev \in Nat /\ store.rec.status \in Status
         /\ store.rec.rev + 1 \in Nat /\ store.rec.rev + 1 >= 1
         /\ store.rec.gen \in GenOrNone /\ store.rec.ident \in GenOrNone
         /\ store.cg \in GenOrNone /\ store.net \in GenOrNone
         /\ \A g \in Gens : g # NoGen
  <1>1. GoodStore(store) /\ store \in Stores
    BY DEF IInv, GoodStore
  <1>2. /\ store.rec \in Container /\ store.rec.rev \in Nat /\ store.rec.status \in Status
        /\ store.rec.gen \in GenOrNone /\ store.rec.ident \in GenOrNone
        /\ store.cg \in GenOrNone /\ store.net \in GenOrNone
    BY <1>1 DEF Stores, Container
  <1> QED BY <1>1, <1>2, GensAssumption

\* MarkRunning makes g the running generation of a store without tokens.
LEMMA MarkRunningGood ==
  ASSUME IInv, NEW g \in Gens, MarkRunningAdmits(store, g), ~RunningAs(store, g)
  PROVE  LET s == MarkRunning(store, g) IN
           /\ GoodStore(s) /\ s.rec.status = "running" /\ s.rec.gen = g
           /\ store.rec.status # "running" /\ store.cg = NoGen /\ store.net = NoGen
           /\ s.cg = NoGen /\ s.net = NoGen
  <1> DEFINE c == [store.rec EXCEPT !.status = "running", !.gen = g, !.code = 0]
             s == MarkRunning(store, g)
  <1>1. /\ GoodStore(store) /\ store.rec \in Container
        /\ store.rec.rev + 1 \in Nat /\ store.rec.rev + 1 >= 1 /\ g # NoGen
    BY StoreTyped
  <1>2. store.rec.status # "running" /\ store.cg = NoGen /\ store.net = NoGen
    BY DEF MarkRunningAdmits, RunningAs
  <1>3. c \in Container /\ c.status = "running" /\ c.gen = g
    BY <1>1 DEF Container, Status, GenOrNone
  <1>4. s = writeContainerRevision(store, c, store.rec.rev + 1)
    BY DEF MarkRunning
  <1> HIDE DEF c, s
  <1>5. GoodStore(s)
    BY <1>1, <1>2, <1>3, <1>4, WriteGood
  <1>6. SameLifecycle(s.rec, c) /\ s.cg = store.cg /\ s.net = store.net
    BY <1>1, <1>3, <1>4, WriteFields
  <1> QED BY <1>2, <1>3, <1>5, <1>6 DEF SameLifecycle, s

\* MarkRunning refuses a running record and one with tokens: the generation
\* starts alone.
LEMMA MarkRunningKeepsIInv ==
  ASSUME IInv, NEW g \in Gens, MarkRunningP(g)
  PROVE  IInv'
  <1> DEFINE ok == MarkRunningAdmits(store, g)
             new == MarkRunning(store, g)
  <1>1. pc[g] = "P.mark" /\ Writes
    BY DEF MarkRunningP, At, Try, Writes
  <1>2. /\ g \in Tasks /\ g \notin Commands /\ TypeOK /\ loc[g] \in Locals /\ ParentOK(g)
    BY ParentHere
  <1>3. /\ loc[g].gen = g /\ ~loc[g].err /\ ~RunningAs(store, g) /\ ~StoppedAs(store, g)
        /\ g \notin released
        /\ g \notin early => g \in alive
    BY <1>1, <1>2 DEF ParentOK, ParentAt
  <1>4. PICK l \in Labels, bad \in BOOLEAN :
          /\ Step(g, l, bad)
          /\ \/ l = "P.cgown" /\ ~bad /\ ok /\ store' = new
             \/ l = "A.prekill" /\ bad /\ (store' = store \/ (ok /\ store' = new))
    BY DEF MarkRunningP, Try, Written, Labels
  <1>5. PICK r \in Locals : r = Onward(loc[g], l, bad) /\ r.gen = g /\ r.err = (loc[g].err \/ bad)
    BY <1>2, <1>3, OnwardFields
  <1>6. Arrives(g, l, r)
    BY <1>2, <1>4, <1>5, Steps
  <1>7. Guarantee({g})
    <2>1. CASE store' = store
      BY <1>1, <2>1, SameStoreGuarantee DEF Writes, log
    <2>2. CASE ok /\ store' = new
      <3>1. /\ GoodStore(store') /\ store'.rec.status = "running" /\ store'.rec.gen = g
            /\ store.rec.status # "running" /\ store.cg = NoGen /\ store.net = NoGen
            /\ store'.cg = NoGen /\ store'.net = NoGen
        BY <1>3, <2>2, MarkRunningGood
      <3>2. \A h \in Gens : h # NoGen
        BY GensAssumption
      <3> QED BY <1>1, <3>1, <3>2 DEF Guarantee, RunningAs, StoppedAs, Writes, host, nethost, log
    <2> QED BY <1>4, <2>1, <2>2
  <1>8. l = "P.cgown" => RunningAs(store', g)
    BY <1>3, <1>4, MarkRunningGood DEF RunningAs
  <1>9. TaskOK(g)'
    BY <1>2, <1>4, <1>6 DEF TaskOK, TaskAt, Arrives, Proved
  <1>10. ParentOK(g)'
    BY <1>1, <1>3, <1>4, <1>5, <1>6, <1>8
       DEF ParentOK, ParentAt, FinishAt, Arrives, Setup, Failing, AfterStop, AfterCgroupGone,
           Writes, host, nethost, log
  <1> QED BY <1>1, <1>2, <1>4, <1>6, <1>7, <1>9, <1>10, WriteKeepsIInv

\* A token is written for the running generation only.
LEMMA OwnKeepsIInv ==
  ASSUME IInv, NEW g \in Gens, OwnCgroup(g) \/ OwnNetwork(g)
  PROVE  IInv'
  <1>1. pc[g] \in {"P.cgown", "P.netown"} /\ pc[g] \in Setup /\ Writes
    BY DEF OwnCgroup, OwnNetwork, At, Try, Writes, Setup
  <1>2. /\ g \in Tasks /\ g \notin Commands /\ TypeOK /\ loc[g] \in Locals
        /\ loc[g].gen = g /\ ~loc[g].err /\ g \notin released
        /\ g \in alive => RunningAs(store, g)
        /\ g \notin early => g \in alive
    BY <1>1, SetupHere
  <1>3. PICK l \in Labels, bad \in BOOLEAN :
          /\ Step(g, l, bad)
          /\ \/ /\ pc[g] = "P.cgown" /\ l = "P.mkdir" /\ ~bad
                /\ RunningAs(store, g) /\ store.cg \in {NoGen, g}
                /\ store' = [store EXCEPT !.cg = g]
             \/ /\ pc[g] = "P.netown" /\ l = "P.veth" /\ ~bad
                /\ RunningAs(store, g) /\ store.net \in {NoGen, g}
                /\ store' = [store EXCEPT !.net = g]
             \/ /\ l = "A.kill" /\ bad
                /\ \/ store' = store
                   \/ /\ pc[g] = "P.cgown" /\ RunningAs(store, g) /\ store.cg \in {NoGen, g}
                      /\ store' = [store EXCEPT !.cg = g]
                   \/ /\ pc[g] = "P.netown" /\ RunningAs(store, g) /\ store.net \in {NoGen, g}
                      /\ store' = [store EXCEPT !.net = g]
    <2>1. CASE OwnCgroup(g)
      BY <2>1 DEF OwnCgroup, Try, Written, Labels, At, MarkCgroupOwnedAdmits, MarkCgroupOwned
    <2>2. CASE OwnNetwork(g)
      BY <2>2 DEF OwnNetwork, Try, Written, Labels, At, MarkNetworkOwnedAdmits, MarkNetworkOwned
    <2> QED BY <2>1, <2>2
  <1>4. PICK r \in Locals : r = Onward(loc[g], l, bad) /\ r.gen = g /\ r.err = (loc[g].err \/ bad)
    BY <1>2, OnwardFields
  <1>5. Arrives(g, l, r)
    BY <1>2, <1>3, <1>4, Steps
  <1>6. /\ store \in Stores /\ GoodStore(store) /\ g # NoGen
        /\ \A h \in Gens : h # NoGen
    BY StoreTyped
  <1>7. CASE store' = store
    <2>1. Guarantee({g})
      BY <1>1, <1>7, SameStoreGuarantee DEF Writes, log
    <2>2. TaskOK(g)'
      BY <1>2, <1>3, <1>5 DEF TaskOK, TaskAt, Arrives, Proved
    <2>3. ParentOK(g)'
      BY <1>1, <1>2, <1>3, <1>4, <1>5, <1>7, <1>6
         DEF ParentOK, ParentAt, FinishAt, Arrives, Setup, Failing, AfterStop, AfterCgroupGone,
             Writes, host, nethost, log, Stores
    <2> QED BY <1>1, <1>2, <1>3, <1>5, <2>1, <2>2, <2>3, WriteKeepsIInv
  <1>8. CASE /\ RunningAs(store, g)
             /\ \/ /\ pc[g] = "P.cgown" /\ store.cg \in {NoGen, g}
                   /\ store' = [store EXCEPT !.cg = g]
                \/ /\ pc[g] = "P.netown" /\ store.net \in {NoGen, g}
                   /\ store' = [store EXCEPT !.net = g]
    <2>1. /\ store'.rec = store.rec /\ store' \in Stores
          /\ store'.exit = store.exit /\ store'.cap = store.cap
          /\ \/ pc[g] = "P.cgown" /\ store'.cg = g /\ store'.net = store.net
             \/ pc[g] = "P.netown" /\ store'.net = g /\ store'.cg = store.cg
      BY <1>6, <1>8 DEF Stores, GenOrNone
    <2>2. GoodStore(store')
      BY <1>6, <1>8, <2>1 DEF GoodStore, Subject, RunningAs
    <2>3. Guarantee({g})
      BY <1>1, <1>6, <1>8, <2>1, <2>2 DEF Guarantee, RunningAs, StoppedAs, Writes, host, nethost, log
    <2>4. TaskOK(g)'
      BY <1>2, <1>3, <1>5 DEF TaskOK, TaskAt, Arrives, Proved
    <2>5. ParentOK(g)'
      BY <1>1, <1>2, <1>3, <1>4, <1>5, <1>8, <2>1
         DEF ParentOK, ParentAt, FinishAt, Arrives, Setup, Failing, AfterStop, AfterCgroupGone,
             Writes, host, nethost, log, RunningAs
    <2> QED BY <1>1, <1>2, <1>3, <1>5, <2>3, <2>4, <2>5, WriteKeepsIInv
  <1> QED BY <1>3, <1>7, <1>8

\* The cgroup token is cleared after the cgroup is gone.
LEMMA ClearCgroupKeepsIInv ==
  ASSUME IInv, NEW t \in Tasks, ClearCgroupToken(t)
  PROVE  IInv'
  <1> DEFINE g == loc[t].gen
  <1>1. pc[t] = "cgclear" /\ Writes
    BY DEF ClearCgroupToken, At, Clear, Try, Writes
  <1>2. /\ TypeOK /\ loc[t] \in Locals /\ TaskOK(t) /\ (t \in Gens => ParentOK(t))
        /\ t \in Gens <=> t \notin Commands
    BY Here
  <1>3. /\ g \in Gens /\ g \notin alive /\ Known(g)
        /\ t \in Commands => loc[t].code = Unknown
        /\ Trusted(g) => g \notin cgdir
        /\ loc[t].ret \in IF t \in Gens THEN {"F.reload", "A.nettok"} ELSE {"F.reload", "C.net"}
    BY <1>1, <1>2 DEF TaskOK, TaskAt, Proved
  <1>4. PICK l \in Labels, bad \in BOOLEAN :
          /\ Step(t, l, bad) /\ l = loc[t].ret
          /\ \/ store' = [store EXCEPT !.cg = NoGen] /\ store.cg = g
             \/ store' = store /\ (bad \/ store.cg = NoGen)
    <2>1. loc[t].ret \in Labels
      BY <1>2, LocalFields
    <2> QED BY <2>1 DEF ClearCgroupToken, Clear, Try, Written, ClearCgroupOwnershipAdmits
  <1>5. PICK r \in Locals : /\ r = Onward(loc[t], l, bad)
                            /\ r.gen = loc[t].gen /\ r.code = loc[t].code
                            /\ r.err = (loc[t].err \/ bad)
    BY <1>2, OnwardFields
  <1>6. Arrives(t, l, r)
    BY <1>2, <1>4, <1>5, Steps
  <1>7. /\ store \in Stores /\ GoodStore(store)
        /\ \A h \in Gens : h # NoGen
    BY StoreTyped
  <1>8. store'.rec = store.rec /\ Guarantee({}) /\ (~bad => store'.cg # g)
    <2>1. CASE store' = store
      BY <1>1, <1>3, <1>4, <1>7, <2>1, SameStoreGuarantee DEF Writes, log, Stores
    <2>2. CASE store' = [store EXCEPT !.cg = NoGen] /\ store.cg = g
      <3>1. /\ store'.rec = store.rec /\ store' \in Stores /\ store'.exit = store.exit
            /\ store'.cap = store.cap /\ store'.cg = NoGen /\ store'.net = store.net
        BY <1>7, <2>2 DEF Stores, GenOrNone
      <3>2. GoodStore(store')
        BY <1>7, <3>1 DEF GoodStore
      <3> QED BY <1>1, <1>3, <1>7, <2>2, <3>1, <3>2
              DEF Guarantee, RunningAs, StoppedAs, Writes, host, nethost, log
    <2> QED BY <1>4, <2>1, <2>2
  <1>9. TaskOK(t)'
    <2>1. Known(r.gen)'
      BY <1>3, <1>4, <1>5, <1>6 DEF Known, Arrives, Tasks
    <2> QED BY <1>1, <1>2, <1>3, <1>4, <1>5, <1>6, <2>1
            DEF TaskOK, TaskAt, Arrives, Writes, host, nethost, log
  <1>10. ASSUME t \in Gens PROVE l \notin {"idle", "P.mark"} /\ ParentOK(t)'
    <2>1. loc[t].gen = t /\ (~loc[t].err => loc[t].ret = "F.reload")
      BY <1>1, <1>2, <1>10 DEF ParentOK, ParentAt, FinishAt
    <2>2. l \in {"F.reload", "A.nettok"}
      BY <1>3, <1>4, <1>10
    <2>3. ASSUME ~r.err PROVE FinishAt(t, l, r)'
      <3>1. l = "F.reload" /\ t \in released /\ ~RunningAs(store, t) /\ Trusted(t)
        BY <1>1, <1>4, <1>5, <1>10, <2>1, <2>3, FinishedParent DEF AfterStop
      <3>2. t \notin cgdir /\ store'.cg # t /\ ~RunningAs(store', t)
        BY <1>3, <1>5, <1>8, <2>1, <2>3, <3>1 DEF RunningAs
      <3> QED BY <1>1, <3>1, <3>2 DEF FinishAt, Writes, host, nethost, log
    <2> QED BY <1>5, <1>6, <2>1, <2>2, <2>3, <1>4 DEF ParentOK, ParentAt, Arrives, Setup, Failing
  <1> QED BY <1>1, <1>4, <1>6, <1>8, <1>9, <1>10, WriteKeepsIInv

\* The network token is cleared after veth and ports are gone.
LEMMA ClearNetKeepsIInv ==
  ASSUME IInv, NEW t \in Tasks, ClearNetToken(t)
  PROVE  IInv'
  <1> DEFINE g == loc[t].gen
  <1>1. pc[t] = "netclear" /\ Writes
    BY DEF ClearNetToken, At, Clear, Try, Writes
  <1>2. /\ TypeOK /\ loc[t] \in Locals /\ TaskOK(t) /\ (t \in Gens => ParentOK(t))
        /\ t \in Gens <=> t \notin Commands
    BY Here
  <1>3. /\ g \in Gens /\ g \notin alive /\ Known(g)
        /\ t \in Commands => loc[t].code = Unknown
        /\ Trusted(g) => g \notin veth \cup ports
        /\ loc[t].ret \in IF t \in Gens THEN {"F.done", "A.kill", "P.end"} ELSE {"F.done", "C.dnsid"}
    BY <1>1, <1>2 DEF TaskOK, TaskAt, Proved
  <1>4. PICK l \in Labels, bad \in BOOLEAN :
          /\ Step(t, l, bad) /\ l = loc[t].ret
          /\ \/ store' = [store EXCEPT !.net = NoGen] /\ store.net = g
             \/ store' = store /\ (bad \/ store.net = NoGen)
    <2>1. loc[t].ret \in Labels
      BY <1>2, LocalFields
    <2> QED BY <2>1 DEF ClearNetToken, Clear, Try, Written, ClearNetworkOwnershipAdmits
  <1>5. PICK r \in Locals : /\ r = Onward(loc[t], l, bad)
                            /\ r.gen = loc[t].gen /\ r.code = loc[t].code
                            /\ r.err = (loc[t].err \/ bad)
    BY <1>2, OnwardFields
  <1>6. Arrives(t, l, r)
    BY <1>2, <1>4, <1>5, Steps
  <1>7. /\ store \in Stores /\ GoodStore(store)
        /\ \A h \in Gens : h # NoGen
    BY StoreTyped
  <1>8. store'.rec = store.rec /\ store'.cg = store.cg /\ Guarantee({}) /\ (~bad => store'.net # g)
    <2>1. CASE store' = store
      BY <1>1, <1>3, <1>4, <1>7, <2>1, SameStoreGuarantee DEF Writes, log, Stores
    <2>2. CASE store' = [store EXCEPT !.net = NoGen] /\ store.net = g
      <3>1. /\ store'.rec = store.rec /\ store' \in Stores /\ store'.exit = store.exit
            /\ store'.cap = store.cap /\ store'.net = NoGen /\ store'.cg = store.cg
        BY <1>7, <2>2 DEF Stores, GenOrNone
      <3>2. GoodStore(store')
        BY <1>7, <3>1 DEF GoodStore
      <3> QED BY <1>1, <1>3, <1>7, <2>2, <3>1, <3>2
              DEF Guarantee, RunningAs, StoppedAs, Writes, host, nethost, log
    <2> QED BY <1>4, <2>1, <2>2
  <1>9. TaskOK(t)'
    BY <1>2, <1>3, <1>4, <1>5, <1>6 DEF TaskOK, TaskAt, Arrives, Proved
  <1>10. ASSUME t \in Gens PROVE l \notin {"idle", "P.mark"} /\ ParentOK(t)'
    <2>1. loc[t].gen = t /\ (~loc[t].err => loc[t].ret = "F.done")
      BY <1>1, <1>2, <1>10 DEF ParentOK, ParentAt, FinishAt
    <2>2. l \in {"F.done", "A.kill", "P.end"}
      BY <1>3, <1>4, <1>10
    <2>3. ASSUME ~r.err PROVE FinishAt(t, l, r)'
      <3>1. /\ l = "F.done" /\ t \in released /\ Trusted(t)
            /\ store.cg # t /\ t \notin cgdir
        BY <1>1, <1>4, <1>5, <1>10, <2>1, <2>3, FinishedParent DEF FinishAt, AfterStop, AfterCgroupGone
      <3>2. t \notin veth \cup ports /\ store'.net # t /\ store'.cg # t
        BY <1>3, <1>5, <1>8, <2>1, <2>3, <3>1
      <3> QED BY <1>1, <3>1, <3>2 DEF FinishAt, Writes, host, nethost, AfterStop
    <2> QED BY <1>4, <1>5, <1>6, <2>1, <2>2, <2>3 DEF ParentOK, ParentAt, Arrives, Setup, Failing
  <1> QED BY <1>1, <1>4, <1>6, <1>8, <1>9, <1>10, WriteKeepsIInv

\* The record is stopped for g, or its unknown exit code replaced.
LEMMA StopEffect ==
  ASSUME IInv, NEW g \in Gens, NEW code \in Codes \cup {Unknown, 0, 1},
         UpgradesExitCode(store, g, code) \/ StopsRunning(store, g)
  PROVE  LET s == MarkStoppedIfIdentity(store, g, code) IN
           /\ GoodStore(s) /\ s.rec.status = "stopped" /\ s.rec.ident = g
           /\ s.cg = store.cg /\ s.net = store.net /\ s.rec.code = code
           /\ \/ RunningAs(store, g)
              \/ StoppedAs(store, g) /\ store.rec.code = Unknown /\ code # Unknown
  <1> DEFINE s == MarkStoppedIfIdentity(store, g, code)
  <1>1. /\ GoodStore(store) /\ store \in Stores /\ store.rec \in Container /\ g # NoGen
        /\ store.rec.rev + 1 \in Nat /\ store.rec.rev + 1 >= 1
    BY StoreTyped
  <1>2. CASE StopsRunning(store, g)
    <2>1. RunningAs(store, g)
      BY <1>2 DEF StopsRunning
    <2>2. GoodStore(s) /\ s.rec.status = "stopped" /\ s.rec.ident = g /\ s.rec.code = code
      BY <1>1, <2>1, StopGood
    <2>3. s.cg = store.cg /\ s.net = store.net
      BY <1>1, <2>1 DEF MarkStoppedIfIdentity, writeStoppedContainerNextRevision, RunningAs, Stores
    <2> QED BY <2>1, <2>2, <2>3
  <1>3. CASE UpgradesExitCode(store, g, code)
    <2> DEFINE c == [store.rec EXCEPT !.code = code]
    <2>1. store.rec.status = "stopped" /\ store.rec.code = Unknown /\ code # Unknown
      BY <1>3 DEF UpgradesExitCode
    <2>2. store.rec.ident = g
      BY <1>1, <1>3 DEF UpgradesExitCode, readCurrentExitedIdentity, GoodStore, Shape
    <2>3. c \in Container /\ c.status = "stopped" /\ c.gen = store.rec.gen /\ c.code = code
      BY <1>1, <2>1 DEF Container
    <2>4. c.gen = NoGen
      BY <1>1, <2>1, <2>3 DEF GoodStore, Shape
    <2>5. s = writeContainerRevision(store, c, store.rec.rev + 1)
      BY <2>1 DEF MarkStoppedIfIdentity
    <2> HIDE DEF c, s
    <2>6. Subject(store.rec) = store.rec.ident
      BY <2>1 DEF Subject
    <2>7. GoodStore(s)
      BY <1>1, <2>3, <2>4, <2>5, <2>6, WriteGood
    <2>8. /\ SameLifecycle(s.rec, c) /\ s.cg = store.cg /\ s.net = store.net
          /\ s.rec.ident = store.rec.ident
      BY <1>1, <2>3, <2>5, WriteFields
    <2> QED BY <2>1, <2>2, <2>3, <2>7, <2>8 DEF SameLifecycle, StoppedAs, s
  <1> QED BY <1>2, <1>3

\* MarkStoppedIfIdentity as the parents and the observers call it.
LEMMA StopsKeepsIInv ==
  ASSUME IInv, NEW t \in Tasks,
         FinalizeStop(t) \/ (t \in Gens /\ AbortMarkStopped(t))
  PROVE  IInv'
  <1> DEFINE g == loc[t].gen
             code == loc[t].code
             ok == UpgradesExitCode(store, g, code) \/ StopsRunning(store, g)
             new == MarkStoppedIfIdentity(store, g, code)
             G == IF t \in Gens THEN {t} ELSE {}
  <1>1. pc[t] \in {"F.stop", "A.stop"} /\ Writes
    BY DEF FinalizeStop, AbortMarkStopped, Stops, At, Writes
  <1>2. /\ TypeOK /\ loc[t] \in Locals /\ TaskOK(t) /\ (t \in Gens => ParentOK(t))
        /\ t \in Gens <=> t \notin Commands
    BY Here
  <1>3. g \in Gens /\ g \notin alive /\ Known(g) /\ (t \in Gens => g = t)
    BY <1>1, <1>2 DEF TaskOK, TaskAt, Proved, ParentOK, ParentAt
  <1>4. code \in Codes \cup {Unknown, 0, 1}
    BY <1>2, LocalFields
  <1>5. PICK l \in Labels, bad \in BOOLEAN, ch \in BOOLEAN :
          /\ Goto(t, l)
          /\ Let(t, [loc[t] EXCEPT !.changed = ch, !.err = @ \/ bad, !.code = Unknown])
          /\ \/ pc[t] = "F.stop" /\ l = "F.cgtok" /\ ~bad
             \/ pc[t] = "F.stop" /\ l = "F.reload" /\ bad
             \/ pc[t] = "A.stop" /\ l \in {"A.captured", "P.end"} /\ t \in Gens
          /\ store' = store \/ (ok /\ store' = new)
          /\ ~bad => (ok /\ store' = new) \/ (store' = store /\ ~RunningAs(store, g))
    <2>1. CASE FinalizeStop(t)
      BY <2>1 DEF FinalizeStop, Stops, Written, At, Labels
    <2>2. CASE t \in Gens /\ AbortMarkStopped(t)
      BY <2>2 DEF AbortMarkStopped, Stops, Written, At, Labels
    <2> QED BY <2>1, <2>2
  <1>6. PICK r \in Locals :
          /\ r = [loc[t] EXCEPT !.changed = ch, !.err = @ \/ bad, !.code = Unknown]
          /\ r.gen = loc[t].gen /\ r.code = Unknown /\ r.err = (loc[t].err \/ bad)
    <2> DEFINE e == loc[t].err \/ bad
               q == [loc[t] EXCEPT !.changed = ch, !.err = e, !.code = Unknown]
    <2>1. e \in BOOLEAN
      OBVIOUS
    <2> HIDE DEF e
    <2>2. q \in Locals
      BY <1>2, <2>1 DEF Locals
    <2>3. q.gen = loc[t].gen /\ q.code = Unknown /\ q.err = e
      BY <1>2 DEF Locals
    <2>4. q = [loc[t] EXCEPT !.changed = ch, !.err = @ \/ bad, !.code = Unknown]
      BY DEF e
    <2> HIDE DEF q
    <2> QED BY <2>2, <2>3, <2>4 DEF e
  <1>7. Arrives(t, l, r)
    BY <1>2, <1>5, <1>6, Moves
  <1>8. Guarantee(G)
    <2>1. CASE store' = store
      BY <1>1, <2>1, SameStoreGuarantee DEF Writes, log
    <2>2. CASE ok /\ store' = new
      <3>1. /\ GoodStore(store') /\ store'.rec.status = "stopped" /\ store'.rec.ident = g
            /\ store'.cg = store.cg /\ store'.net = store.net /\ store'.rec.code = code
            /\ \/ RunningAs(store, g)
               \/ StoppedAs(store, g) /\ store.rec.code = Unknown /\ code # Unknown
        BY <1>3, <1>4, <2>2, StopEffect
      <3>2. RunningAs(store, g) \/ (StoppedAs(store, g) /\ t \in Gens /\ code # Unknown)
        BY <1>1, <1>2, <3>1 DEF TaskOK, TaskAt
      <3> HIDE DEF new, ok, code
      <3> QED BY <1>1, <1>3, <3>1, <3>2 DEF Guarantee, RunningAs, StoppedAs, Writes, host, nethost, log
    <2> QED BY <1>5, <2>1, <2>2
  <1>9. ~bad => ~RunningAs(store', g)
    BY <1>3, <1>4, <1>5, StopEffect DEF RunningAs
  <1>10. TaskOK(t)'
    <2>1. Known(r.gen)'
      BY <1>3, <1>5, <1>6, <1>7 DEF Known, Arrives, Tasks
    <2> QED BY <1>1, <1>2, <1>3, <1>5, <1>6, <1>7, <2>1
            DEF TaskOK, TaskAt, Arrives, Writes, host, nethost, log
  <1>11. ASSUME t \in Gens PROVE l \notin {"idle", "P.mark"} /\ ParentOK(t)'
    <2>1. /\ g = t /\ (pc[t] = "A.stop" => loc[t].err)
          /\ pc[t] = "F.stop" => t \in released
      BY <1>2, <1>3, <1>11 DEF ParentOK, ParentAt, Failing
    <2>2. l \in {"F.cgtok", "F.reload", "A.captured", "P.end"}
      BY <1>5
    <2>3. ASSUME ~r.err PROVE FinishAt(t, l, r)'
      BY <1>1, <1>5, <1>6, <1>9, <2>1, <2>3
         DEF FinishAt, AfterStop, AfterCgroupGone, Writes, host, nethost, log
    <2> QED BY <1>5, <1>6, <1>7, <2>1, <2>2, <2>3 DEF ParentOK, ParentAt, Arrives, Setup, Failing
  <1>12. G \in SUBSET {t}
    OBVIOUS
  <1> QED BY <1>1, <1>7, <1>8, <1>10, <1>11, <1>12, WriteKeepsIInv

\* A record that was just created is in order.
LEMMA EmptyStoreGood == GoodStore(EmptyStore)
  BY DEF GoodStore, EmptyStore, NoContainer, Stores, Container, Status, GenOrNone, Shape

\* DeleteIfNotRunning checks again under the lock, so nothing runs and nothing
\* is owed.
LEMMA RemoveRecordKeepsIInv ==
  ASSUME IInv, NEW c \in Commands, RemoveRecord(c)
  PROVE  IInv'
  <1>1. Writes /\ Return(c, "idle")
    BY DEF RemoveRecord, At, Writes
  <1>2. c \in Tasks /\ c \notin Gens /\ TypeOK /\ NoLocals \in Locals /\ "idle" \in Labels
    BY CommandHere, NoLocalsTyped DEF IInv, Labels
  <1>3. Arrives(c, "idle", NoLocals)
    BY <1>1, <1>2, Moves DEF Return
  <1>4. Guarantee({})
    <2>1. CASE store' = store
      BY <1>1, <2>1, SameStoreGuarantee DEF Writes, log
    <2>2. CASE DeleteIfNotRunningAdmits(store) /\ store' = EmptyStore
      <3>1. store.rec.status # "running" /\ store.cg = NoGen /\ store.net = NoGen
        BY <2>2 DEF DeleteIfNotRunningAdmits
      <3>2. store'.rec.status = "absent" /\ store'.cg = NoGen /\ store'.net = NoGen
        BY <2>2 DEF EmptyStore, NoContainer
      <3>3. GoodStore(store') /\ \A h \in Gens : h # NoGen
        BY <2>2, EmptyStoreGood, GensAssumption
      <3> QED BY <1>1, <3>1, <3>2, <3>3 DEF Guarantee, RunningAs, StoppedAs, Writes, host, nethost, log
    <2> QED BY <2>1, <2>2 DEF RemoveRecord
  <1>5. TaskOK(c)'
    <2>1. NoLocals.code = Unknown
      BY DEF NoLocals
    <2> QED BY <1>3, <2>1 DEF TaskOK, TaskAt, Arrives, Proved
  <1> QED BY <1>1, <1>2, <1>3, <1>4, <1>5, WriteKeepsIInv

\* finalizeCreatedRunFailure stops a record that never had a generation.
LEMMA PreGenerationFailureKeepsIInv ==
  ASSUME IInv, PreGenerationFailure
  PROVE  IInv'
  <1> DEFINE c == [store.rec EXCEPT !.status = "stopped", !.code = 1]
  <1>1. /\ store.rec.status = "created" /\ store.rec.gen = NoGen
        /\ store.cg = NoGen /\ store.net = NoGen
        /\ UNCHANGED <<host, pc, loc, log, faults, crashes>>
        /\ store' = writeContainerRevision(store, c, store.rec.rev + 1)
    BY DEF PreGenerationFailure, MarkStoppedIfCreatedAdmits, MarkStoppedIfCreated
  <1>2. /\ GoodStore(store) /\ store.rec \in Container /\ \A h \in Gens : h # NoGen
        /\ store.rec.rev + 1 \in Nat /\ store.rec.rev + 1 >= 1
    BY StoreTyped
  <1>3. c \in Container /\ c.status = "stopped" /\ c.gen = NoGen
    BY <1>1, <1>2 DEF Container, Status
  <1>4. store.rec.ident = NoGen
    BY <1>1, <1>2 DEF GoodStore, Shape
  <1> HIDE DEF c
  <1>5. GoodStore(store')
    BY <1>1, <1>2, <1>3, WriteGood
  <1>6. /\ store'.rec.status = "stopped" /\ store'.rec.ident = NoGen
        /\ store'.cg = NoGen /\ store'.net = NoGen
    BY <1>1, <1>2, <1>3, <1>4, WriteFields DEF SameLifecycle
  <1>7. Guarantee({})
    BY <1>1, <1>2, <1>5, <1>6 DEF Guarantee, RunningAs, StoppedAs, host, nethost, log
  <1>8. TypeOK'
    BY <1>1, <1>5 DEF IInv, TypeOK, GoodStore, host, nethost, log
  <1>9. \A h \in Gens : GenerationOK(h)' /\ ParentOK(h)'
    BY <1>1, <1>7, GenerationKept, ParentKept
  <1>10. \A t \in Tasks : TaskOK(t)'
    <2>1. \A h \in Gens : Known(h) => Known(h)'
      BY <1>1 DEF Known
    <2> QED BY <1>1, <1>7, <2>1, TaskKept
  <1> QED BY <1>5, <1>8, <1>9, <1>10 DEF IInv

-----------------------------------------------------------------------------
(* A new generation                                                        *)

\* A fork is a generation nobody knows, whose parent begins at MarkRunning.
LEMMA ForkKeepsIInv ==
  ASSUME IInv, NEW t \in Tasks, NEW g \in Gens, NEW next,
         Fork(t, g, next),
         \/ t = g /\ next = "P.mark"
         \/ t \in Gens /\ t # g /\ next = "gone" /\ pc[t] = "P.end"
         \/ t \in Commands /\ next = "idle"
  PROVE  IInv'
  <1> DEFINE q == [NoLocals EXCEPT !.gen = g]
  <1>1. /\ pc[g] = "idle" /\ alive' = alive \cup {g}
        /\ UNCHANGED <<store, released, cgdir, veth, ports, dns, started, died, early, faults, crashes>>
    BY DEF Fork, nethost, log
  <1>2. TypeOK /\ GoodStore(store) /\ ParentOK(g) /\ g \in Tasks /\ g \notin Commands
    BY ParentHere
  <1>3. /\ g \notin alive /\ g \notin early /\ g \notin released /\ g \notin cgdir \cup veth \cup ports
        /\ ~RunningAs(store, g) /\ ~StoppedAs(store, g)
    BY <1>1, <1>2 DEF ParentOK, ParentAt
  <1>4. NoLocals \in Locals /\ NoLocals.code = Unknown /\ ~NoLocals.err
    BY NoLocalsTyped DEF NoLocals
  <1>5. q \in Locals /\ q.gen = g /\ ~q.err
    <2>1. q \in Locals
      BY NoLocalsTyped, Assigned DEF GenOrNone
    <2> QED BY <2>1 DEF NoLocals
  <1> HIDE DEF q
  <1>6. /\ pc' \in [Tasks -> Labels] /\ loc' \in [Tasks -> Locals]
        /\ pc'[g] = "P.mark" /\ loc'[g] = q
        /\ t # g => pc'[t] = next /\ loc'[t] = NoLocals
        /\ \A u \in Tasks \ {t, g} : pc'[u] = pc[u] /\ loc'[u] = loc[u]
    <2>1. pc \in [Tasks -> Labels] /\ loc \in [Tasks -> Locals]
      BY <1>2 DEF TypeOK
    <2>2. next \in Labels /\ "P.mark" \in Labels
      BY DEF Labels
    <2>3. pc' = [pc EXCEPT ![t] = next, ![g] = "P.mark"] /\ loc' = [loc EXCEPT ![t] = NoLocals, ![g] = q]
      BY DEF Fork, q
    <2>4. /\ pc' \in [Tasks -> Labels] /\ pc'[g] = "P.mark" /\ (t # g => pc'[t] = next)
          /\ \A u \in Tasks \ {t, g} : pc'[u] = pc[u]
      BY <1>2, <2>1, <2>2, <2>3
    <2>5. /\ loc' \in [Tasks -> Locals] /\ loc'[g] = q /\ (t # g => loc'[t] = NoLocals)
          /\ \A u \in Tasks \ {t, g} : loc'[u] = loc[u]
      BY <1>2, <1>4, <1>5, <2>1, <2>3
    <2> QED BY <2>4, <2>5
  <1>7. TypeOK' /\ GoodStore(store)'
    BY <1>1, <1>2, <1>6 DEF TypeOK, GoodStore
  <1>8. \A h \in Gens : Known(h) => h # g /\ Known(h)'
    BY <1>1, <1>6, TasksAssumption DEF Known, Tasks
  <1>9. ASSUME NEW h \in Gens PROVE GenerationOK(h)'
    <2>1. GenerationOK(h)
      BY DEF IInv
    <2> QED BY <1>1, <1>3, <2>1 DEF GenerationOK, Trusted
  <1>10. ASSUME NEW h \in Gens PROVE ParentOK(h)'
    <2>1. ParentOK(h) /\ h \in Tasks
      BY ParentHere
    <2>2. CASE h = g
      BY <1>1, <1>3, <1>5, <1>6, <2>2
         DEF ParentOK, ParentAt, FinishAt, Setup, Failing, AfterStop, AfterCgroupGone
    <2>3. CASE h # g /\ h = t
      BY <1>6, <2>3, TasksAssumption
         DEF ParentOK, ParentAt, FinishAt, Setup, Failing, AfterStop, AfterCgroupGone
    <2>4. CASE h # g /\ h # t
      <3>1. pc'[h] = pc[h] /\ loc'[h] = loc[h] /\ (h \in alive' <=> h \in alive)
        BY <1>1, <1>6, <2>1, <2>4
      <3> QED BY <1>1, <2>1, <3>1 DEF ParentOK, ParentAt, FinishAt
    <2> QED BY <2>2, <2>3, <2>4
  <1>11. ASSUME NEW u \in Tasks PROVE TaskOK(u)'
    <2>1. CASE u = g
      BY <1>2, <1>6, <2>1 DEF TaskOK, TaskAt, Proved
    <2>2. CASE u # g /\ u = t
      BY <1>4, <1>6, <2>2 DEF TaskOK, TaskAt, Proved
    <2>3. CASE u # g /\ u # t
      <3>1. TaskOK(u) /\ pc'[u] = pc[u] /\ loc'[u] = loc[u]
        BY <1>6, <2>3 DEF IInv
      <3>2. loc[u].gen \in Gens /\ Known(loc[u].gen) =>
              /\ Known(loc[u].gen)' /\ (Trusted(loc[u].gen)' <=> Trusted(loc[u].gen))
              /\ loc[u].gen \in alive' <=> loc[u].gen \in alive
        BY <1>1, <1>8, <3>1 DEF Known, Trusted
      <3> QED BY <1>1, <3>1, <3>2 DEF TaskOK, TaskAt, Proved
    <2> QED BY <2>1, <2>2, <2>3
  <1> QED BY <1>7, <1>9, <1>10, <1>11 DEF IInv

\* The three ways to a fork: run, a restart by policy and minictl restart.
LEMMA ForksKeepIInv ==
  ASSUME IInv,
         \/ \E g \in Gens : FirstRun(g)
         \/ \E g \in Gens, h \in Gens : PolicyRestart(g, h)
         \/ \E c \in Commands, g \in Gens : RestartFork(c, g)
  PROVE  IInv'
  <1>1. ASSUME NEW g \in Gens, FirstRun(g) PROVE IInv'
    BY <1>1, ForkKeepsIInv DEF FirstRun, Tasks
  <1>2. ASSUME NEW h \in Gens, NEW g \in Gens, PolicyRestart(h, g) PROVE IInv'
    BY <1>2, ForkKeepsIInv DEF PolicyRestart, Tasks
  <1>3. ASSUME NEW c \in Commands, NEW g \in Gens, RestartFork(c, g) PROVE IInv'
    BY <1>3, ForkKeepsIInv DEF RestartFork, Tasks
  <1> QED BY <1>1, <1>2, <1>3

-----------------------------------------------------------------------------
(* The invariant is inductive                                              *)

\* Nothing runs and nothing is owed at first.
LEMMA InitIInv == Init => IInv
  <1> SUFFICES ASSUME Init PROVE IInv
    OBVIOUS
  <1> DEFINE c == [NoContainer EXCEPT !.status = "created"]
  <1>1. c \in Container /\ c.status = "created" /\ c.gen = NoGen
    BY DEF NoContainer, Container, Status, GenOrNone
  <1>2. store = writeContainerRevision(EmptyStore, c, 1)
    BY DEF Init, saveContainerCAS, Exists, EmptyStore, NoContainer
  <1>3. EmptyStore.cg = NoGen /\ EmptyStore.net = NoGen
    BY DEF EmptyStore
  <1> HIDE DEF c
  <1>4. GoodStore(store) /\ store.rec.status = "created" /\ store.rec.ident = NoGen
    BY <1>1, <1>2, <1>3, EmptyStoreGood, WriteGood, WriteFields DEF SameLifecycle
  <1>5. TypeOK
    <2>1. NoLocals \in Locals /\ "idle" \in Labels
      BY NoLocalsTyped DEF Labels
    <2>2. store \in Stores /\ faults \in 0..MaxFaults /\ crashes \in 0..MaxCrashes
      BY <1>4, BoundsAssumption DEF GoodStore, Init
    <2> QED BY <2>1, <2>2 DEF Init, TypeOK
  <1>6. ASSUME NEW g \in Gens PROVE GenerationOK(g) /\ ParentOK(g)
    <2>1. pc[g] = "idle" /\ loc[g] = NoLocals /\ g # NoGen
      BY GensAssumption DEF Init, Tasks
    <2>2. ~RunningAs(store, g) /\ ~StoppedAs(store, g)
      BY <1>4 DEF RunningAs, StoppedAs
    <2>3. GenerationOK(g)
      BY <2>2 DEF GenerationOK, Init
    <2>4. ParentOK(g)
      BY <2>1, <2>2 DEF ParentOK, ParentAt, FinishAt, Init, Setup, Failing, AfterStop, AfterCgroupGone
    <2> QED BY <2>3, <2>4
  <1>7. ASSUME NEW t \in Tasks PROVE TaskOK(t)
    <2>1. pc[t] = "idle" /\ loc[t].code = Unknown
      BY DEF Init, NoLocals
    <2> QED BY <2>1 DEF TaskOK, TaskAt, Proved
  <1> QED BY <1>4, <1>5, <1>6, <1>7 DEF IInv

\* The steps of a runtime parent.
LEMMA ParentStepKeepsIInv ==
  ASSUME IInv, NEW g \in Gens, ParentStep(g)
  PROVE  IInv'
  <1>1. g \in Tasks
    BY DEF Tasks
  <1> QED BY <1>1, MarkRunningKeepsIInv, OwnKeepsIInv, CgroupSetupKeepsIInv, NetworkSetupKeepsIInv,
             ReleaseKeepsIInv, AwaitExecKeepsIInv, ReapKeepsIInv, BridgeFailureKeepsIInv,
             AbortKillKeepsIInv, StopsKeepsIInv, AbortRemovalsKeepIInv, AbortReloadKeepsIInv,
             AbortTokensKeepIInv
          DEF ParentStep

\* The steps parents and commands share: the finalizers of
\* generation_finalize.go.
LEMMA SharedStepKeepsIInv ==
  ASSUME IInv, NEW t \in Tasks, SharedStep(t)
  PROVE  IInv'
  BY RemoveCgroupKeepsIInv, ClearCgroupKeepsIInv, RemoveNetworkKeepsIInv, ClearNetKeepsIInv,
     StopsKeepsIInv, FinalizeCgroupKeepsIInv, FinalizeReloadKeepsIInv, FinalizeIdentityKeepsIInv,
     DNSRemovalKeepsIInv, FinalizeNetworkKeepsIInv, FinalizeDoneKeepsIInv
  DEF SharedStep

\* The steps of a command.
LEMMA CommandStepKeepsIInv ==
  ASSUME IInv, NEW c \in Commands, CommandStep(c)
  PROVE  IInv'
  <1>1. ASSUME CleanupDNS(c) PROVE IInv'
    <2>1. c \in Tasks
      BY DEF Tasks
    <2>2. At(c, "C.dnsid") \/ At(c, "C.dns")
      BY <1>1 DEF CleanupDNS
    <2> QED BY <1>1, <2>1, <2>2, CleanupDNSReadKeepsIInv, DNSRemovalKeepsIInv
  <1> QED BY <1>1, ReconcileGetKeepsIInv, ProbeKeepsIInv, WaitTimeoutKeepsIInv,
             WaitExitedKeepsIInv, WaitCleanKeepsIInv, StopOpenKeepsIInv, StopKillKeepsIInv,
             RemoveRecordKeepsIInv, RestartGetKeepsIInv, CleanupKeepsIInv, CleanupDoneKeepsIInv
          DEF CommandStep

\* A stuttering step.
LEMMA StutterKeepsIInv ==
  ASSUME IInv, UNCHANGED vars
  PROVE  IInv'
  <1> QED BY DEF IInv, vars, host, nethost, log, TypeOK, GenerationOK, ParentOK, ParentAt, FinishAt,
               TaskOK, TaskAt, Known, Trusted

\* Every step of Next, and a stuttering one, keeps IInv.
LEMMA StepIInv == IInv /\ [Next]_vars => IInv'
  <1> SUFFICES ASSUME IInv, [Next]_vars PROVE IInv'
    OBVIOUS
  <1>1. CASE PreGenerationFailure
    BY <1>1, PreGenerationFailureKeepsIInv
  <1>2. ASSUME NEW g \in Gens, FirstRun(g) \/ ParentStep(g) \/ ParentExit(g) \/ ChildDies(g)
        PROVE  IInv'
    BY <1>2, ForksKeepIInv, ParentStepKeepsIInv, ParentReturnsKeepsIInv, ChildDiesKeepsIInv
       DEF ParentExit
  <1>3. ASSUME NEW c \in Commands,
               (\E k \in Kinds : Start(c, k)) \/ CommandStep(c) \/ \E g \in Gens : RestartFork(c, g)
        PROVE  IInv'
    BY <1>3, StartKeepsIInv, CommandStepKeepsIInv, ForksKeepIInv
  <1>4. ASSUME NEW t \in Tasks, SharedStep(t) \/ Crash(t) PROVE IInv'
    BY <1>4, SharedStepKeepsIInv, CrashKeepsIInv
  <1>5. CASE UNCHANGED vars
    BY <1>5, StutterKeepsIInv
  <1> QED BY <1>1, <1>2, <1>3, <1>4, <1>5 DEF Next

\* Whatever parents, commands and observers do, and wherever they crash, every
\* task may rely on what its label says (GenerationLifecycle's whole Next).
THEOREM Inductive == Spec => []IInv
  <1>1. Init => IInv
    BY InitIInv
  <1>2. IInv /\ [Next]_vars => IInv'
    BY StepIInv
  <1> QED BY <1>1, <1>2, PTL DEF Spec

-----------------------------------------------------------------------------
(* What follows for any number of generations, commands and crashes        *)

\* A payload that was let go and lives is the running generation of the record:
\* MarkStoppedIfIdentity, DeleteIfNotRunning and MarkRunning never get past it.
THEOREM LivePayloads == Spec => []LivePayloadIsRecorded
  <1>1. IInv => LivePayloadIsRecorded
    BY DEF IInv, LivePayloadIsRecorded, GenerationOK, TypeOK
  <1> QED BY <1>1, Inductive, PTL

\* The stopped identity that authorises teardown is that of a dead process
\* (MarkStoppedIfIdentity after a confirmed exit, lifecycle.go).
THEOREM StopsAreDeaths == Spec => []StopIsDeath
  <1>1. ASSUME IInv, store.rec.status = "stopped", TeardownIdentity(store) \in alive PROVE FALSE
    <2>1. TeardownIdentity(store) \in Gens
      BY <1>1 DEF IInv, TypeOK
    <2> QED BY <1>1, <2>1, StoppedKnown
  <1>2. IInv => StopIsDeath
    BY <1>1 DEF StopIsDeath
  <1> QED BY <1>2, Inductive, PTL

\* A parent that returns without an error left neither resource nor token of its
\* generation (FinalizeStoppedGeneration), whatever observers cleaned meanwhile
\* and even if children are killed before their release.
THEOREM ReturnsAreClean == Spec => []CleanReturn
  <1>1. ASSUME IInv, NEW g \in Gens, pc[g] = "P.end", ~loc[g].err PROVE ~Holds(g) /\ ~Owed(g)
    <2>1. FinishAt(g, "P.end", loc[g])
      BY <1>1 DEF IInv, ParentOK, ParentAt
    <2> QED BY <2>1 DEF FinishAt, AfterCgroupGone, Holds, Owed
  <1>2. IInv => CleanReturn
    BY <1>1 DEF CleanReturn
  <1> QED BY <1>2, Inductive, PTL

\* No host resource without its durable token, so a deleted record leaves nothing
\* behind, but for generations whose child died under a parent setting it up:
\* token before resource, resource before token (applyCgroupWithDurableOwnership,
\* setupBridgeHostOwned and the cleanup of generation_cleanup.go).
THEOREM NoOrphans == Spec => []NoOrphanHostResource
  <1>1. IInv => NoOrphanHostResource
    BY DEF IInv, NoOrphanHostResource, GenerationOK, Trusted, TypeOK
  <1> QED BY <1>1, Inductive, PTL

\* What runs is what the record says runs, the host has resources of at most one
\* generation, children that died early aside, and who returns leaves it clean
\* (MarkRunning's token check and the finalizers).
THEOREM HostFollows == Spec => []HostFollowsRecord
  <1>1. ASSUME IInv PROVE OneGenerationOnHost
    <2> DEFINE S == (cgdir \cup veth \cup ports) \ early
               x == Subject(store.rec)
    <2>1. S \subseteq {x}
      <3>1. ASSUME NEW g \in S PROVE g = x
        <4>1. g \in Gens /\ g # NoGen
          BY <1>1, GensAssumption DEF IInv, TypeOK
        <4>2. store.cg = g \/ store.net = g
          BY <1>1, <4>1 DEF IInv, GenerationOK, Trusted
        <4> QED BY <1>1, <4>1, <4>2 DEF IInv, GoodStore
      <3> QED BY <3>1
    <2>2. IsFiniteSet({x}) /\ Cardinality({x}) = 1
      BY FS_Singleton
    <2>3. IsFiniteSet(S) /\ Cardinality(S) <= Cardinality({x})
      BY <2>1, <2>2, FS_Subset
    <2> QED BY <2>2, <2>3 DEF OneGenerationOnHost
  <1>2. IInv => TypeOK
    BY DEF IInv
  <1> QED BY <1>1, <1>2, LivePayloads, ReturnsAreClean, Inductive, PTL DEF HostFollowsRecord

\* The body of PayloadKeepsResources.
KeepsLive ==
  LET live == alive \cap released
  IN /\ cgdir \cap live \subseteq cgdir' /\ veth \cap live \subseteq veth'
     /\ ports \cap live \subseteq ports' /\ dns \cap live \subseteq dns'


\* Who takes is at a label that proves the death, or sets up what is not released.
LEMMA TakersKeepLive ==
  ASSUME IInv, NEW t \in Tasks,
         \/ t \in Gens /\ (AttachCgroup(t) \/ AbortCaptured(t) \/ AbortDNS(t))
         \/ RemoveCgroup(t) \/ RemovePorts(t) \/ RemoveVeth(t) \/ FinalizeDNS(t)
         \/ t \in Commands /\ CleanupDNS(t)
  PROVE  KeepsLive
  <1> DEFINE g == loc[t].gen
  <1>1. TaskOK(t) /\ (t \in Gens => ParentOK(t))
    BY Here
  <1>2. CASE t \in Gens /\ AttachCgroup(t)
    <2>1. t \notin released
      BY <1>1, <1>2 DEF AttachCgroup, At, ParentOK, ParentAt, Setup
    <2> QED BY <1>2, <2>1 DEF AttachCgroup, KeepsLive, nethost
  <1>3. CASE t \in Gens /\ (AbortCaptured(t) \/ AbortDNS(t))
    <2>1. t \notin alive
      BY <1>1, <1>3 DEF AbortCaptured, AbortDNS, At, TaskOK, TaskAt, Proved, ParentOK, ParentAt
    <2> QED BY <1>3, <2>1 DEF AbortCaptured, AbortDNS, Remove, KeepsLive, nethost
  <1>4. CASE RemoveCgroup(t)
    <2>1. g \notin alive
      BY <1>1, <1>4 DEF RemoveCgroup, At, TaskOK, TaskAt, Proved
    <2> QED BY <1>4, <2>1 DEF RemoveCgroup, Remove, KeepsLive, nethost
  <1>5. CASE RemovePorts(t)
    <2>1. g \notin alive
      BY <1>1, <1>5 DEF RemovePorts, At, TaskOK, TaskAt, Proved
    <2> QED BY <1>5, <2>1 DEF RemovePorts, Remove, KeepsLive
  <1>6. CASE RemoveVeth(t)
    <2>1. g \notin alive
      BY <1>1, <1>6 DEF RemoveVeth, At, TaskOK, TaskAt, Proved
    <2> QED BY <1>6, <2>1 DEF RemoveVeth, Remove, KeepsLive
  <1>7. CASE FinalizeDNS(t)
    <2>1. g \notin alive
      BY <1>1, <1>7 DEF FinalizeDNS, At, TaskOK, TaskAt, Proved
    <2> QED BY <1>7, <2>1 DEF FinalizeDNS, Remove, KeepsLive
  <1>8. CASE CleanupDNS(t)
    <2>1. CASE At(t, "C.dns")
      <3>1. g \notin alive
        BY <1>1, <2>1 DEF At, TaskOK, TaskAt, Proved
      <3> QED BY <1>8, <3>1 DEF CleanupDNS, Remove, KeepsLive, Pure, host, nethost
    <2>2. CASE At(t, "C.dnsid")
      BY <1>8, <2>2 DEF CleanupDNS, KeepsLive, Pure, host, nethost, At
    <2> QED BY <1>8, <2>1, <2>2 DEF CleanupDNS
  <1> QED BY <1>2, <1>3, <1>4, <1>5, <1>6, <1>7, <1>8

\* All but the removals leave the resources of a live payload alone.
LEMMA OthersTakeNothing ==
  ASSUME [Next]_vars,
         \A t \in Tasks :
           /\ t \in Gens => ~AttachCgroup(t) /\ ~AbortCaptured(t) /\ ~AbortDNS(t)
           /\ ~RemoveCgroup(t) /\ ~RemovePorts(t) /\ ~RemoveVeth(t) /\ ~FinalizeDNS(t)
           /\ t \in Commands => ~CleanupDNS(t)
  PROVE  KeepsLive
  <1> USE DEF KeepsLive, nethost
  <1>1. CASE PreGenerationFailure \/ UNCHANGED vars
    BY <1>1 DEF PreGenerationFailure, vars, host
  <1>2. ASSUME NEW g \in Gens, FirstRun(g) \/ ParentExit(g) \/ ChildDies(g) PROVE KeepsLive
    BY <1>2 DEF FirstRun, ParentExit, ParentReturns, PolicyRestart, Fork, ChildDies, ProcessExits, Pure, host
  <1>3. ASSUME NEW g \in Gens, ParentStep(g) PROVE KeepsLive
    <2>1. g \in Tasks
      BY DEF Tasks
    <2>2. CASE MarkRunningP(g) \/ OwnCgroup(g) \/ OwnNetwork(g) \/ AbortMarkStopped(g)
      BY <2>2 DEF MarkRunningP, OwnCgroup, OwnNetwork, AbortMarkStopped, host
    <2>3. CASE MkdirCgroup(g) \/ SetupVeth(g) \/ SetupPorts(g) \/ BindDNS(g) \/ Release(g)
      BY <2>3 DEF MkdirCgroup, SetupVeth, SetupPorts, BindDNS, Release
    <2>4. CASE \/ AwaitExec(g) \/ Reap(g) \/ BridgeFailure(g) \/ AbortPreRunning(g)
               \/ AbortRuntimeSetup(g) \/ AbortReload(g) \/ AbortCgroupToken(g) \/ AbortNetToken(g)
      BY <2>4 DEF AwaitExec, Reap, BridgeFailure, AbortPreRunning, AbortRuntimeSetup, AbortKill,
                  AbortReload, AbortCgroupToken, AbortNetToken, Pure, host
    <2> QED BY <1>3, <2>1, <2>2, <2>3, <2>4 DEF ParentStep
  <1>4. ASSUME NEW t \in Tasks, SharedStep(t) \/ Crash(t) PROVE KeepsLive
    BY <1>4 DEF SharedStep, Crash, ClearCgroupToken, ClearNetToken, FinalizeStop, FinalizeCgroup,
                FinalizeReload, FinalizeIdentity, FinalizeNetwork, FinalizeDone, Pure, host
  <1>5. ASSUME NEW c \in Commands, CommandStep(c) PROVE KeepsLive
    <2>1. c \in Tasks
      BY DEF Tasks
    <2> QED BY <1>5, <2>1 DEF CommandStep, ReconcileGet, Probe, WaitTimeout, WaitExited, WaitClean,
              StopOpen, StopKill, ProcessExits, RemoveRecord, RestartGet, RestartFails, CleanupCgroup,
              CleanupNetwork, IfCurrent, ReadToken, IfIdentity, CleanupDone, Pure, host
  <1>6. ASSUME NEW c \in Commands, \E k \in Kinds : Start(c, k) PROVE KeepsLive
    BY <1>6 DEF Start, Pure, host
  <1>7. ASSUME NEW c \in Commands, \E g \in Gens : RestartFork(c, g) PROVE KeepsLive
    BY <1>7 DEF RestartFork, Fork
  <1> QED BY <1>1, <1>2, <1>3, <1>4, <1>5, <1>6, <1>7 DEF Next

\* Nobody removes a resource of a payload that still runs: every removal is
\* behind a proof of the generation's death (generation_cleanup.go).
THEOREM PayloadsKeepResources == Spec => PayloadKeepsResources
  <1>1. IInv /\ [Next]_vars => KeepsLive
    BY TakersKeepLive, OthersTakeNothing
  <1>2. IInv /\ [Next]_vars => [KeepsLive]_vars
    BY <1>1
  <1> QED BY <1>2, Inductive, PTL DEF Spec, PayloadKeepsResources, KeepsLive
=============================================================================
