------------------------ MODULE ContainerStoreProofs ------------------------
(***************************************************************************)
(* What the operations of ContainerStore keep of a record this version of  *)
(* the code has written.  The proofs about StateStore and about            *)
(* GenerationLifecycle both rest on these lemmas.                          *)
(***************************************************************************)
EXTENDS ContainerStore, TLAPS

\* A record written by this version of the code: stopped metadata only on a
\* stopped record, which carries either the exact identity of its generation
\* or the explicit broad policy, never both and never neither.
Shape(c) ==
  /\ c.status = "absent" => c.rev = 0
  /\ c.status # "absent" => c.rev >= 1
  /\ c.status = "running" => c.gen # NoGen
  /\ c.status # "running" => c.gen = NoGen
  /\ c.status # "stopped" => c.ident = NoGen /\ ~c.req /\ ~c.sgv /\ ~c.ldns
  /\ c.status = "stopped" /\ c.ident # NoGen => c.req /\ c.sgv /\ ~c.ldns
  /\ c.status = "stopped" /\ c.ident = NoGen => ~c.req /\ ~c.sgv /\ c.ldns

\* The generation a record is about: the running one, or the stopped one.
Subject(c) == IF c.status = "running" THEN c.gen ELSE c.ident

GoodStore(s) ==
  /\ s \in Stores
  /\ s.exit = NoGen /\ ~s.cap
  /\ Shape(s.rec)
  /\ s.cg # NoGen => s.cg = Subject(s.rec)
  /\ s.net # NoGen => s.net = Subject(s.rec)

SameLifecycle(c, d) == c.status = d.status /\ c.gen = d.gen /\ c.code = d.code

-----------------------------------------------------------------------------
(* What each store operation does to a good store                          *)

\* A replaced record has every lifecycle field of the one handed in.
LEMMA WritePolicyFields ==
  ASSUME NEW c \in Container, NEW r \in Nat, NEW q \in BOOLEAN, NEW i \in GenOrNone
  PROVE  LET d == writeContainerRevisionWithExitPolicy(c, r, q, i) IN
           /\ d \in Container
           /\ SameLifecycle(d, c)
           /\ d.rev = r /\ d.req = q /\ d.ident = i
           /\ d.sgv = (q /\ i # NoGen)
           /\ d.ldns = (c.status = "stopped" /\ ~q)
  BY DEF writeContainerRevisionWithExitPolicy, Container, SameLifecycle

\* Rewriting a record that keeps the stopped state or leaves it keeps the
\* store good: writeContainerRevisionUnlocked carries the metadata over.
LEMMA WriteGood ==
  ASSUME NEW s, GoodStore(s), NEW c \in Container, NEW r \in Nat, r >= 1,
         c.status # "absent",
         c.status = "running" <=> c.gen # NoGen,
         s.cg # NoGen \/ s.net # NoGen =>
            Subject(s.rec) = (IF c.status = "running" THEN c.gen ELSE s.rec.ident)
              /\ c.status \in {"running", "stopped"}
  PROVE  GoodStore(writeContainerRevision(s, c, r))
  <1> DEFINE t == writeContainerRevision(s, c, r)
  <1>1. s.rec \in Container /\ s.rec.req \in BOOLEAN /\ s.rec.ident \in GenOrNone
    BY DEF GoodStore, Stores, Container
  <1>2. s.rec.req <=> s.rec.ident # NoGen
    BY DEF GoodStore, Shape
  <1>3. CASE c.status = "stopped"
    <2> DEFINE d == writeContainerRevisionWithExitPolicy(c, r, s.rec.req, s.rec.ident)
    <2>1. /\ d \in Container /\ SameLifecycle(d, c) /\ d.rev = r
          /\ d.req = s.rec.req /\ d.ident = s.rec.ident
          /\ d.sgv = (s.rec.req /\ s.rec.ident # NoGen)
          /\ d.ldns = (c.status = "stopped" /\ ~s.rec.req)
      BY <1>1, WritePolicyFields
    <2>2. t = [s EXCEPT !.rec = d]
      BY <1>3 DEF writeContainerRevision
    <2>3. Shape(d)
      BY <1>2, <1>3, <2>1 DEF Shape, SameLifecycle
    <2>4. Subject(d) = s.rec.ident
      BY <1>3, <2>1 DEF Subject, SameLifecycle
    <2> HIDE DEF d
    <2> QED BY <1>3, <2>1, <2>2, <2>3, <2>4 DEF GoodStore, Stores
  <1>4. CASE c.status # "stopped"
    <2> DEFINE d == writeContainerRevisionWithExitPolicy(c, r, FALSE, NoGen)
    <2>1. /\ d \in Container /\ SameLifecycle(d, c) /\ d.rev = r
          /\ ~d.req /\ d.ident = NoGen /\ ~d.sgv /\ ~d.ldns
      BY <1>4 DEF writeContainerRevisionWithExitPolicy, Container, SameLifecycle, GenOrNone
    <2>2. t = [s EXCEPT !.rec = d]
      BY <1>4 DEF writeContainerRevision
    <2>3. Shape(d)
      BY <1>4, <2>1 DEF Shape, SameLifecycle
    <2>4. c.status = "running" => Subject(d) = c.gen
      BY <1>4, <2>1 DEF Subject, SameLifecycle
    <2> HIDE DEF d
    <2> QED BY <1>4, <2>1, <2>2, <2>3, <2>4 DEF GoodStore, Stores
  <1> QED BY <1>3, <1>4

\* The lifecycle fields, the revision and the tokens after a rewrite.
LEMMA WriteFields ==
  ASSUME NEW s, GoodStore(s), NEW c \in Container, NEW r \in Nat
  PROVE  LET t == writeContainerRevision(s, c, r) IN
           /\ SameLifecycle(t.rec, c) /\ t.rec.rev = r
           /\ t.rec.ident = (IF c.status = "stopped" THEN s.rec.ident ELSE NoGen)
           /\ t.cg = s.cg /\ t.net = s.net
  <1>1. s.rec \in Container /\ s.rec.req \in BOOLEAN /\ s.rec.ident \in GenOrNone
    BY DEF GoodStore, Stores, Container
  <1> QED BY <1>1 DEF writeContainerRevision, writeContainerRevisionWithExitPolicy,
                      SameLifecycle, Container, GoodStore, Stores

\* writeStoppedContainerNextRevision binds the stop to the generation.
LEMMA StopGood ==
  ASSUME NEW s, GoodStore(s), NEW g \in Gens, RunningAs(s, g),
         NEW code \in Codes \cup {Unknown, 0, 1}
  PROVE  LET t == MarkStoppedIfIdentity(s, g, code) IN
           /\ GoodStore(t)
           /\ t.rec.status = "stopped" /\ t.rec.gen = NoGen /\ t.rec.code = code
           /\ t.rec.ident = g /\ t.rec.rev = s.rec.rev + 1
  <1> DEFINE c == [s.rec EXCEPT !.status = "stopped", !.gen = NoGen, !.code = code]
             d == writeContainerRevisionWithExitPolicy(c, s.rec.rev + 1, TRUE, g)
             t == MarkStoppedIfIdentity(s, g, code)
  <1>1. s.rec \in Container /\ s.rec.rev \in Nat /\ s.rec.status = "running" /\ s.rec.gen = g
    BY DEF GoodStore, Stores, Container, RunningAs
  <1>2. c \in Container /\ c.status = "stopped" /\ c.gen = NoGen /\ c.code = code
    BY <1>1 DEF Container, Status, GenOrNone
  <1>3. t = [s EXCEPT !.rec = d]
    BY <1>1 DEF MarkStoppedIfIdentity, writeStoppedContainerNextRevision
  <1>4. g # NoGen /\ g \in GenOrNone /\ s.rec.rev + 1 \in Nat /\ s.rec.rev + 1 >= 1
    BY <1>1, GensAssumption DEF GenOrNone
  <1> HIDE DEF c
  <1>5. /\ d \in Container /\ SameLifecycle(d, c) /\ d.rev = s.rec.rev + 1
        /\ d.req /\ d.ident = g /\ d.sgv /\ ~d.ldns
    BY <1>2, <1>4 DEF writeContainerRevisionWithExitPolicy, Container, SameLifecycle
  <1>6. Shape(d)
    BY <1>2, <1>4, <1>5 DEF Shape, SameLifecycle
  <1>7. Subject(d) = g /\ Subject(s.rec) = g
    BY <1>1, <1>2, <1>5 DEF Subject, SameLifecycle
  <1> HIDE DEF d
  <1>8. GoodStore(t)
    BY <1>3, <1>5, <1>6, <1>7 DEF GoodStore, Stores
  <1>9. t.rec = d
    BY <1>3 DEF GoodStore, Stores
  <1> QED BY <1>2, <1>5, <1>8, <1>9 DEF SameLifecycle

\* In a good store the identity a teardown reads back is the embedded one.
LEMMA GoodTeardown ==
  ASSUME NEW s, GoodStore(s), s.rec.status = "stopped"
  PROVE  TeardownIdentity(s) = s.rec.ident
  BY DEF GoodStore, Shape, TeardownIdentity, TeardownUnreadable,
         LegacyDNSConflicts, LegacyIdentity, LegacyAuthorized

=============================================================================
