---------------------------- MODULE StartupProofs ----------------------------
(***************************************************************************)
(* Proofs about the start of the service, for any number of worker         *)
(* processes, bootstrap calls and crashes: however the workers race for    *)
(* the revisions, a mark is backed by the schema, and the set-up closes    *)
(* for good.                                                               *)
(***************************************************************************)
EXTENDS Startup, TLAPS

-----------------------------------------------------------------------------
(* The inductive invariant.                                                *)

\* What a worker that is about to change the tables, or to mark a revision,
\* relies on.  Parts are never removed, so it survives the steps of the others.
WorkerBacked(w) ==
    /\ w.at = "changing" => Effect(w.rev) \subseteq schema \cup w.missing
    /\ w.at = "marking" => Effect(w.rev) \subseteq schema

Inv == TypeOK /\ MarksBacked /\ \A p \in Workers : WorkerBacked(worker[p])

\* How the database may change, whoever writes.
DatabaseGrows == schema \subseteq schema' /\ marks \subseteq marks'

\* A revision in progress, by the phase of its worker.
LEMMA WorkerShapes ==
    ASSUME NEW w \in Starts
    PROVE  /\ w.at \in {"checking", "inspecting", "marking"} => w.rev \in Revisions
           /\ w.at = "changing" => w.rev \in Revisions /\ w.missing \subseteq Parts
BY DEF Starts

LEMMA EffectIsParts == \A rev \in Revisions : Effect(rev) \subseteq Parts
BY DEF Revisions, Effect, Parts

\* What a revision finds missing is all that its effect lacks: the role upgrade
\* relies on the tables that the mark before it stands for.
LEMMA MissingCompletes ==
    ASSUME NEW rev \in Revisions, 1 .. rev - 1 \subseteq marks, MarksBacked
    PROVE  Missing(rev) \subseteq Parts /\ Effect(rev) \subseteq schema \cup Missing(rev)
<1>1. CASE rev = RoleUpgrade
  <2>1. 1 \in marks
    BY <1>1 DEF RoleUpgrade
  <2>2. "accounts" \in schema
    BY <2>1 DEF MarksBacked, Effect
  <2> QED
    BY <1>1, <2>2 DEF Missing, RoleUpgrade, Effect, Parts
<1>2. CASE rev # RoleUpgrade
  BY <1>2 DEF Missing, MissingTables, RoleUpgrade, Revisions, Effect, Parts
<1> QED
  BY <1>1, <1>2

\* A worker that leaves a marked revision may go on to the next.
LEMMA AfterIsStart ==
    ASSUME NEW rev \in Revisions, 1 .. rev \subseteq marks', marks' \subseteq Revisions
    PROVE  /\ After(rev) \in Starts /\ WorkerBacked(After(rev))'
           /\ After(rev).at = "serving" => marks' = Revisions
           /\ After(rev).at \notin {"down", "serving"} => 1 .. After(rev).rev - 1 \subseteq marks'
<1>1. CASE rev + 1 \in Revisions
  <2> DEFINE w == [at |-> "checking", rev |-> rev + 1]
  <2>1. After(rev) = w
    BY <1>1 DEF After
  <2>2. w \in Starts /\ WorkerBacked(w)'
    BY <1>1 DEF Starts, WorkerBacked
  <2>3. 1 .. w.rev - 1 \subseteq marks'
    BY DEF Revisions
  <2> QED
    BY <2>1, <2>2, <2>3
<1>2. CASE rev + 1 \notin Revisions
  <2>1. rev = 4 /\ After(rev) = [at |-> "serving"]
    BY <1>2 DEF Revisions, After
  <2> QED
    BY <2>1 DEF Revisions, Starts, WorkerBacked
<1> QED
  BY <1>1, <1>2

-----------------------------------------------------------------------------
(* The steps.                                                              *)

\* Every earlier release left its marks backed.
LEMMA InvInit == Init => Inv
<1> SUFFICES ASSUME Init PROVE Inv
  OBVIOUS
<1>1. PICK old \in Releases : schema = old.schema /\ marks = old.marks
  BY DEF Init
<1>2. schema \subseteq Parts /\ marks \subseteq Revisions /\ MarksBacked
  BY <1>1 DEF Releases, Parts, Revisions, MarksBacked, Effect
<1>3. TypeOK
  BY <1>2, MaxCrashesAssumption DEF Init, TypeOK, Starts, Calls
<1>4. \A p \in Workers : WorkerBacked(worker[p])
  BY DEF Init, WorkerBacked
<1> QED
  BY <1>2, <1>3, <1>4 DEF Inv

\* A step of one worker through the migrations.
LEMMA WorkerKeepsInv ==
    ASSUME Inv, DatabaseGrows, schema' \subseteq Parts, marks' \subseteq Revisions, MarksBacked',
           NEW p \in Workers, NEW w \in Starts, worker' = [worker EXCEPT ![p] = w],
           WorkerBacked(w)',
           w.at = "serving" => marks' = Revisions,
           w.at \notin {"down", "serving"} => 1 .. w.rev - 1 \subseteq marks',
           UNCHANGED <<tenantVars, crashes>>
    PROVE  Inv'
<1>1. worker'[p] = w /\ \A q \in Workers \ {p} : worker'[q] = worker[q]
  BY DEF Inv, TypeOK
<1>2. worker' \in [Workers -> Starts]
  BY DEF Inv, TypeOK
<1>3. ASSUME NEW q \in Workers
      PROVE  /\ worker'[q].at = "serving" => marks' = Revisions
             /\ worker'[q].at \notin {"down", "serving"} => 1 .. worker'[q].rev - 1 \subseteq marks'
             /\ WorkerBacked(worker[q])'
  <2>1. CASE q = p
    BY <1>1, <2>1 DEF WorkerBacked
  <2>2. CASE q # p
    <3>1. worker'[q] = worker[q]
      BY <1>1, <2>2
    <3>2. WorkerBacked(worker[q]) /\ worker[q] \in Starts
      BY DEF Inv, TypeOK
    <3>3. WorkerBacked(worker[q])'
      BY <3>1, <3>2 DEF WorkerBacked, DatabaseGrows
    <3>4. worker[q].at = "serving" => marks' = Revisions
      BY DEF Inv, TypeOK, DatabaseGrows
    <3>5. worker[q].at \notin {"down", "serving"} => 1 .. worker[q].rev - 1 \subseteq marks'
      BY DEF Inv, TypeOK, DatabaseGrows
    <3> QED
      BY <3>1, <3>3, <3>4, <3>5
  <2> QED
    BY <2>1, <2>2
<1>4. TypeOK'
  BY <1>2, <1>3 DEF Inv, TypeOK, tenantVars
<1> QED
  BY <1>3, <1>4 DEF Inv

\* A worker starts, asks for a mark, or inspects the tables.
LEMMA ReadingKeepsInv ==
    ASSUME Inv, NEW p \in Workers, Start(p) \/ CheckRevision(p) \/ Inspect(p)
    PROVE  Inv'
<1>1. UNCHANGED <<schema, marks, tenantVars, crashes>>
  BY DEF Start, CheckRevision, Inspect
<1>2. /\ schema' \subseteq Parts /\ marks' \subseteq Revisions /\ MarksBacked' /\ DatabaseGrows
  BY <1>1 DEF Inv, TypeOK, MarksBacked, DatabaseGrows
<1>3. CASE Start(p)
  <2> DEFINE w == [at |-> "checking", rev |-> 1]
  <2>1. w \in Starts /\ WorkerBacked(w)'
    BY DEF Starts, Revisions, WorkerBacked
  <2>2. 1 .. w.rev - 1 \subseteq marks'
    OBVIOUS
  <2> QED
    BY <1>1, <1>2, <1>3, <2>1, <2>2, WorkerKeepsInv DEF Start
<1>4. CASE CheckRevision(p)
  <2> PICK rev \in Revisions : rev = worker[p].rev
    BY <1>4, WorkerShapes DEF CheckRevision, Inv, TypeOK
  <2>1. 1 .. rev - 1 \subseteq marks
    BY <1>4 DEF CheckRevision, Inv, TypeOK
  <2>2. CASE rev \in marks
    <3>1. 1 .. rev \subseteq marks'
      BY <1>1, <2>1, <2>2 DEF Revisions
    <3>2. worker' = [worker EXCEPT ![p] = After(rev)]
      BY <1>4, <2>2 DEF CheckRevision
    <3> QED
      BY <1>1, <1>2, <3>1, <3>2, AfterIsStart, WorkerKeepsInv
  <2>3. CASE rev \notin marks
    <3> DEFINE w == [at |-> "inspecting", rev |-> rev]
    <3>1. w \in Starts /\ WorkerBacked(w)' /\ 1 .. w.rev - 1 \subseteq marks'
      BY <1>1, <2>1 DEF Starts, WorkerBacked
    <3>2. worker' = [worker EXCEPT ![p] = w]
      BY <1>4, <2>3 DEF CheckRevision
    <3> QED
      BY <1>1, <1>2, <3>1, <3>2, WorkerKeepsInv
  <2> QED
    BY <2>2, <2>3
<1>5. CASE Inspect(p)
  <2> PICK rev \in Revisions : rev = worker[p].rev
    BY <1>5, WorkerShapes DEF Inspect, Inv, TypeOK
  <2>1. 1 .. rev - 1 \subseteq marks
    BY <1>5 DEF Inspect, Inv, TypeOK
  <2>2. PICK missing \in SUBSET Parts : missing = Missing(rev) /\ Effect(rev) \subseteq schema \cup missing
    BY <2>1, MissingCompletes DEF Inv
  <2> DEFINE w == [at |-> "changing", rev |-> rev, missing |-> missing]
  <2>3. w \in Starts
    BY DEF Starts
  <2>4. 1 .. w.rev - 1 \subseteq marks'
    BY <1>1, <2>1
  <2>5. WorkerBacked(w)'
    BY <1>1, <2>2 DEF WorkerBacked
  <2>6. worker' = [worker EXCEPT ![p] = w]
    BY <1>5, <2>2 DEF Inspect
  <2> QED
    BY <1>1, <1>2, <2>3, <2>4, <2>5, <2>6, WorkerKeepsInv
<1> QED
  BY <1>3, <1>4, <1>5

\* A worker changes the tables or finds that another did; it marks the revision
\* or finds it marked.
LEMMA WritingKeepsInv ==
    ASSUME Inv, NEW p \in Workers, Change(p) \/ Mark(p)
    PROVE  Inv'
<1> DEFINE down == [at |-> "down"]
<1>0. down \in Starts /\ WorkerBacked(down)'
  BY DEF Starts, WorkerBacked
<1> PICK rev \in Revisions : rev = worker[p].rev
  BY WorkerShapes DEF Change, Mark, Inv, TypeOK
<1>1. 1 .. rev - 1 \subseteq marks /\ WorkerBacked(worker[p])
  BY DEF Change, Mark, Inv, TypeOK
<1>2. CASE Change(p)
  <2> PICK missing \in SUBSET Parts : missing = worker[p].missing
    BY <1>2, WorkerShapes DEF Change, Inv, TypeOK
  <2>0. UNCHANGED <<marks, tenantVars, crashes>>
    BY <1>2 DEF Change
  <2>1. CASE missing \cap schema # {}
    <3>1. worker' = [worker EXCEPT ![p] = down] /\ schema' = schema
      BY <1>2, <2>1 DEF Change
    <3>2. schema' \subseteq Parts /\ marks' \subseteq Revisions /\ MarksBacked' /\ DatabaseGrows
      BY <2>0, <3>1 DEF Inv, TypeOK, MarksBacked, DatabaseGrows
    <3> QED
      BY <1>0, <2>0, <3>1, <3>2, WorkerKeepsInv
  <2>2. CASE missing \cap schema = {}
    <3> DEFINE w == [at |-> "marking", rev |-> rev]
    <3>1. worker' = [worker EXCEPT ![p] = w] /\ schema' = schema \cup missing
      BY <1>2, <2>2 DEF Change
    <3>2. schema' \subseteq Parts /\ marks' \subseteq Revisions /\ MarksBacked' /\ DatabaseGrows
      BY <2>0, <3>1 DEF Inv, TypeOK, MarksBacked, DatabaseGrows
    <3>3. w \in Starts /\ 1 .. w.rev - 1 \subseteq marks'
      BY <1>1, <2>0 DEF Starts
    <3>4. WorkerBacked(w)'
      BY <1>1, <1>2, <3>1 DEF Change, WorkerBacked
    <3> QED
      BY <2>0, <3>1, <3>2, <3>3, <3>4, WorkerKeepsInv
  <2> QED
    BY <2>1, <2>2
<1>3. CASE Mark(p)
  <2>1. marks' = marks \cup {rev} /\ UNCHANGED <<schema, tenantVars, crashes>>
    BY <1>3 DEF Mark
  <2>2. Effect(rev) \subseteq schema
    BY <1>1, <1>3 DEF Mark, WorkerBacked
  <2>3. schema' \subseteq Parts /\ marks' \subseteq Revisions /\ DatabaseGrows
    BY <2>1 DEF Inv, TypeOK, DatabaseGrows
  <2>4. MarksBacked'
    BY <2>1, <2>2 DEF Inv, MarksBacked
  <2>5. CASE rev \in marks
    <3>1. worker' = [worker EXCEPT ![p] = down]
      BY <1>3, <2>5 DEF Mark
    <3> QED
      BY <1>0, <2>1, <2>3, <2>4, <3>1, WorkerKeepsInv
  <2>6. CASE rev \notin marks
    <3>1. worker' = [worker EXCEPT ![p] = After(rev)]
      BY <1>3, <2>6 DEF Mark
    <3>2. 1 .. rev \subseteq marks'
      BY <1>1, <2>1 DEF Revisions
    <3> QED
      BY <2>1, <2>3, <2>4, <3>1, <3>2, AfterIsStart, WorkerKeepsInv
  <2> QED
    BY <2>5, <2>6
<1> QED
  BY <1>2, <1>3

\* A worker ends, and with it the calls it serves.
LEMMA CrashKeepsInv ==
    ASSUME Inv, NEW p \in Workers, Crash(p)
    PROVE  Inv'
<1>1. worker' = [worker EXCEPT ![p] = [at |-> "down"]] /\ UNCHANGED <<schema, marks, organizations>>
  BY DEF Crash
<1>2. [at |-> "down"] \in Starts
  BY DEF Starts
<1>3. worker' \in [Workers -> Starts]
      /\ \A q \in Workers : worker'[q] = [at |-> "down"] \/ worker'[q] = worker[q]
  BY <1>1, <1>2 DEF Inv, TypeOK
<1>4. bootstrap' \in [Bootstraps -> Calls]
  BY DEF Crash, Inv, TypeOK, Calls
<1>5. crashes' \in 0 .. MaxCrashes
  BY MaxCrashesAssumption DEF Crash, Inv, TypeOK
<1>6. ASSUME NEW q \in Workers
      PROVE  /\ worker'[q].at = "serving" => marks' = Revisions
             /\ worker'[q].at \notin {"down", "serving"} => 1 .. worker'[q].rev - 1 \subseteq marks'
             /\ WorkerBacked(worker[q])'
  <2>1. CASE worker'[q] = [at |-> "down"]
    BY <2>1 DEF WorkerBacked
  <2>2. CASE worker'[q] = worker[q]
    BY <1>1, <2>2 DEF Inv, TypeOK, WorkerBacked
  <2> QED
    BY <1>3, <2>1, <2>2
<1>7. TypeOK' /\ MarksBacked'
  BY <1>1, <1>3, <1>4, <1>5, <1>6 DEF Inv, TypeOK, MarksBacked
<1> QED
  BY <1>6, <1>7 DEF Inv

\* The bootstrap calls leave the migrations alone.
LEMMA BootstrapKeepsInv ==
    ASSUME Inv, NEW b \in Bootstraps,
           InsertOrganization(b) \/ \E p \in Workers, slug \in Slugs : BeginBootstrap(b, p, slug)
    PROVE  Inv'
<1>1. UNCHANGED <<schema, marks, worker, crashes>>
  BY DEF InsertOrganization, BeginBootstrap
<1>2. bootstrap' \in [Bootstraps -> Calls] /\ organizations' \subseteq Slugs
  <2>1. CASE InsertOrganization(b)
    <3>1. bootstrap[b].slug \in Slugs
      BY <2>1 DEF InsertOrganization, Inv, TypeOK, Calls
    <3> QED
      BY <2>1, <3>1 DEF InsertOrganization, Inv, TypeOK, Calls
  <2>2. ASSUME NEW p \in Workers, NEW slug \in Slugs, BeginBootstrap(b, p, slug)
        PROVE  bootstrap' \in [Bootstraps -> Calls] /\ organizations' \subseteq Slugs
    BY <2>2 DEF BeginBootstrap, Inv, TypeOK, Calls
  <2> QED
    BY <2>1, <2>2
<1>3. TypeOK' /\ MarksBacked'
  BY <1>1, <1>2 DEF Inv, TypeOK, MarksBacked
<1>4. \A p \in Workers : WorkerBacked(worker[p])'
  BY <1>1 DEF Inv, WorkerBacked
<1> QED
  BY <1>3, <1>4 DEF Inv

LEMMA InvInductive == Inv /\ [Next]_vars => Inv'
<1> SUFFICES ASSUME Inv, [Next]_vars PROVE Inv'
  OBVIOUS
<1>1. CASE UNCHANGED vars
  BY <1>1 DEF vars, tenantVars, Inv, TypeOK, MarksBacked, WorkerBacked
<1>2. ASSUME NEW p \in Workers, Step(p) \/ Crash(p) PROVE Inv'
  BY <1>2, ReadingKeepsInv, WritingKeepsInv, CrashKeepsInv DEF Step
<1>3. ASSUME NEW b \in Bootstraps,
             InsertOrganization(b) \/ \E p \in Workers, slug \in Slugs : BeginBootstrap(b, p, slug)
      PROVE  Inv'
  BY <1>3, BootstrapKeepsInv
<1> QED
  BY <1>1, <1>2, <1>3 DEF Next

-----------------------------------------------------------------------------
(* The theorems.                                                           *)

\* The invariant holds of every behaviour, however many workers start, race and
\* crash.
THEOREM Invariant == Spec => []Inv
BY InvInit, InvInductive, PTL DEF Spec

\* The database, the workers and the calls are well typed; a worker that serves
\* has seen every revision marked.
THEOREM TypeCorrect == Spec => []TypeOK
<1>1. Inv => TypeOK
  BY DEF Inv
<1> QED
  BY <1>1, Invariant, PTL

\* A marked revision has taken effect.
THEOREM MarksBackedHolds == Spec => []MarksBacked
<1>1. Inv => MarksBacked
  BY DEF Inv
<1> QED
  BY <1>1, Invariant, PTL

\* With an organization there and no call between check and insert, no step
\* adds another or lets a call pass the check.
LEMMA ClosedStays ==
    TypeOK /\ organizations # {} /\ Bootstrapping = {} /\ [Next]_vars =>
        organizations' = organizations /\ Bootstrapping' = {}
<1> SUFFICES ASSUME TypeOK, organizations # {}, Bootstrapping = {}, [Next]_vars
             PROVE  organizations' = organizations /\ Bootstrapping' = {}
  OBVIOUS
<1>0. \A b \in Bootstraps : bootstrap[b].at # "checked"
  BY DEF Bootstrapping
<1>1. CASE UNCHANGED <<organizations, bootstrap>>
  BY <1>0, <1>1 DEF Bootstrapping
<1>2. ASSUME NEW p \in Workers, Step(p) PROVE UNCHANGED <<organizations, bootstrap>>
  BY <1>2 DEF Step, Start, CheckRevision, Inspect, Change, Mark, tenantVars
<1>3. ASSUME NEW p \in Workers, Crash(p) PROVE organizations' = organizations /\ Bootstrapping' = {}
  BY <1>0, <1>3 DEF Crash, Bootstrapping
<1>4. ASSUME NEW b \in Bootstraps, InsertOrganization(b) PROVE FALSE
  BY <1>0, <1>4 DEF InsertOrganization
<1>5. ASSUME NEW b \in Bootstraps, NEW p \in Workers, NEW slug \in Slugs, BeginBootstrap(b, p, slug)
      PROVE  organizations' = organizations /\ Bootstrapping' = {}
  <2>1. bootstrap' = [bootstrap EXCEPT ![b] = [at |-> "refused"]] /\ organizations' = organizations
    BY <1>5 DEF BeginBootstrap, SetUp
  <2>2. \A c \in Bootstraps : bootstrap'[c].at # "checked"
    BY <1>0, <2>1 DEF TypeOK
  <2> QED
    BY <2>1, <2>2 DEF Bootstrapping
<1> QED
  BY <1>1, <1>2, <1>3, <1>4, <1>5 DEF Next, vars

\* Set-up closes for good.
THEOREM SetUpClosesHolds == Spec => SetUpCloses
<1>1. Inv /\ [Next]_vars =>
        [organizations # {} /\ Bootstrapping = {} => organizations' = organizations /\ Bootstrapping' = {}]_vars
  BY ClosedStays DEF Inv
<1> QED
  BY <1>1, Invariant, PTL DEF Spec, SetUpCloses

=============================================================================
