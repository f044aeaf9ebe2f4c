------------------------- MODULE AgentRegistryProofs -------------------------
(***************************************************************************)
(* Proofs about AgentRegistry, for any number of records and of threads    *)
(* whose transactions overlap in any way.                                  *)
(***************************************************************************)
EXTENDS AgentRegistry, TLAPS

(* A commit mixes columns of the row it finds with columns of the row it   *)
(* loaded, so the properties of rows are inductive only together with what *)
(* a snapshot still guarantees when it is used.                            *)

\* Operations that write the rows they loaded.
RowOps == {"transition", "deprovision", "mark_deprovisioned", "quarantine_all",
           "set_blueprint_status", "blueprint_transition"}

\* A loaded row still exists, and is dated if it was when it was loaded.
SnapshotOK(t) ==
    txn[t] # Idle => \A r \in Records :
        /\ txn[t].snap[r] # NoRow =>
               row[r] # NoRow /\ (txn[t].snap[r].gone => row[r].gone)
        /\ r \in txn[t].todo /\ txn[t].op # "upsert" => row[r] # NoRow
        /\ r \in txn[t].todo /\ txn[t].op \in RowOps => txn[t].snap[r] # NoRow

\* What a handler is about to write has the type of the column.
RequestOK(t) ==
    txn[t] # Idle =>
        /\ txn[t].op = "upsert" => txn[t].input # NoRow
        /\ txn[t].op = "transition" => txn[t].target \in AgentStates
        /\ txn[t].op = "set_blueprint_status" =>
               bp # NoRow /\ txn[t].bp # NoRow /\ txn[t].target \in BlueprintStatuses
        /\ txn[t].op = "blueprint_transition" =>
               bp # NoRow /\ txn[t].bp # NoRow /\ txn[t].target \in BlueprintStates

RequestsOK == \A t \in Threads : SnapshotOK(t) /\ RequestOK(t)

Inv == TypeOK /\ RequestsOK /\ TombstoneDated /\ TrailAgrees

\* Rows are not removed, and their date is not cleared.
RowsEvolve ==
    \A r \in Records : row[r] # NoRow =>
        row'[r] # NoRow /\ (row[r].gone => row'[r].gone)

BlueprintStays == bp # NoRow => bp' # NoRow

\* The payload of a row is left alone, or loses its state, or takes a state
\* that is audited in the same step and dated if it is a tombstone.
Accounted ==
    \A r \in Records : row'[r] # NoRow =>
        \/ row[r] # NoRow /\ row'[r].json = row[r].json /\ trail'[r] = trail[r]
        \/ row'[r].json.state = "none" /\ trail'[r] = trail[r]
        \/ /\ trail'[r] = row'[r].json.state
           /\ row'[r].json.state \in Tombstones => row'[r].gone

\* set_agent_lifecycle_state gives a row that has the state, and a date that is
\* kept from the loaded row, from the current one, or new with a tombstone.
LEMMA SetLifecycleStateFacts ==
    ASSUME NEW loaded \in Rows, NEW current \in Rows, NEW s \in AgentStates,
           loaded.gone => current.gone
    PROVE  LET new == SetLifecycleState(loaded, current, s) IN
           /\ new \in Rows
           /\ new.json.state = s
           /\ current.gone => new.gone
           /\ s \in Tombstones => new.gone
<1> DEFINE new == SetLifecycleState(loaded, current, s)
<1>1. new.json \in Jsons /\ new.json.state = s
  BY DEF SetLifecycleState, Rows, Jsons, PayloadStatuses
<1>2. new.status \in Statuses
  BY DEF SetLifecycleState, Rows, Statuses, PayloadStatuses, Flush, StatusFor
<1>3. /\ new.gone \in BOOLEAN
      /\ current.gone => new.gone
      /\ s \in Tombstones => new.gone
  BY DEF SetLifecycleState, Rows, Flush
<1>4. new \in Rows
  BY <1>1, <1>2, <1>3 DEF SetLifecycleState, Rows
<1> QED
  BY <1>1, <1>3, <1>4

\* deprovision_record gives a dated row with the payload it had.
LEMMA DisableFacts ==
    ASSUME NEW loaded \in Rows, NEW current \in Rows
    PROVE  LET new == Disable(loaded, current) IN
           new \in Rows /\ new.json = current.json /\ new.gone
BY DEF Disable, Rows, Flush, Statuses, PayloadStatuses

\* Writing the status column leaves payload and date alone.
LEMMA SetStatusFacts ==
    ASSUME NEW loaded \in Rows, NEW current \in Rows, NEW status \in Statuses
    PROVE  LET new == SetStatus(loaded, current, status) IN
           new \in Rows /\ new.json = current.json /\ new.gone = current.gone
BY DEF SetStatus, Rows, Flush

(***************************************************************************)
(* What the invariant needs of a step: rows evolve, payloads are accounted *)
(* for, and the thread that takes it has a request in order.               *)
(***************************************************************************)

\* Requests of the other threads stay in order.
LEMMA OthersStayInOrder ==
    ASSUME TypeOK, RowsEvolve, BlueprintStays, NEW u \in Threads,
           txn'[u] = txn[u], SnapshotOK(u), RequestOK(u)
    PROVE  SnapshotOK(u)' /\ RequestOK(u)'
<1>1. SnapshotOK(u)'
  BY DEF SnapshotOK, RowsEvolve
<1>2. RequestOK(u)'
  BY DEF RequestOK, BlueprintStays
<1> QED
  BY <1>1, <1>2

\* The invariant follows from the typing and the facts about one step.
LEMMA InvFromFacts ==
    ASSUME Inv, TypeOK', RowsEvolve, BlueprintStays, Accounted, NEW t \in Threads,
           \A u \in Threads \ {t} : txn'[u] = txn[u],
           SnapshotOK(t)', RequestOK(t)'
    PROVE  Inv' /\ RowsEvolve
<1>1. RequestsOK'
  BY OthersStayInOrder DEF Inv, RequestsOK
<1>2. TombstoneDated'
  BY DEF Inv, TombstoneDated, Accounted, RowsEvolve, Tombstones
<1>3. TrailAgrees'
  BY DEF Inv, TrailAgrees, Accounted
<1> QED
  BY <1>1, <1>2, <1>3 DEF Inv

\* The tables are empty and no request is served at first.
LEMMA InvInit == Init => Inv
BY DEF Init, Inv, TypeOK, RequestsOK, SnapshotOK, RequestOK, TombstoneDated, TrailAgrees

\* Loading rows changes no table and gives a request that is in order.
LEMMA BeginKeepsInv ==
    ASSUME Inv, NEW t \in Threads, NEW op \in Ops, NEW force \in BOOLEAN,
           NEW target \in AgentStates \cup BlueprintStates \cup {"none"},
           NEW input \in AllPayloads \cup {NoRow}, NEW reads \in SUBSET Records,
           Begin(t, op, target, force, input, reads),
           op # "upsert" => \A r \in reads : row[r] # NoRow,
           op = "upsert" => input # NoRow,
           op = "transition" => target \in AgentStates,
           op = "set_blueprint_status" => bp # NoRow /\ target \in BlueprintStatuses,
           op = "blueprint_transition" => bp # NoRow /\ target \in BlueprintStates
    PROVE  Inv' /\ RowsEvolve
<1> DEFINE x == [op |-> op, target |-> target, force |-> force, input |-> input,
                 todo |-> reads,
                 snap |-> [r \in Records |-> IF r \in reads THEN row[r] ELSE NoRow],
                 bp |-> bp]
<1>1. /\ txn[t] = Idle /\ txn' = [txn EXCEPT ![t] = x]
      /\ row' = row /\ bp' = bp /\ trail' = trail
  BY DEF Begin
<1>2. x \in Transactions
  BY DEF Inv, TypeOK, Transactions
<1>3. TypeOK'
  BY <1>1, <1>2 DEF Inv, TypeOK
<1>4. RowsEvolve /\ BlueprintStays /\ Accounted
  BY <1>1 DEF RowsEvolve, BlueprintStays, Accounted
<1>5. txn'[t] = x /\ \A u \in Threads \ {t} : txn'[u] = txn[u]
  BY <1>1 DEF Inv, TypeOK
<1>6. SnapshotOK(t)'
  BY <1>1, <1>5 DEF SnapshotOK, RowOps
<1>7. RequestOK(t)'
  BY <1>1, <1>5 DEF RequestOK
<1> QED
  BY <1>3, <1>4, <1>5, <1>6, <1>7, InvFromFacts

\* The names of the operations.
LEMMA Operations ==
    /\ "upsert" \in Ops /\ "transition" \in Ops /\ "deprovision" \in Ops
    /\ "deprovision_all" \in Ops /\ "quarantine_all" \in Ops
    /\ "set_blueprint_status" \in Ops /\ "blueprint_transition" \in Ops
BY DEF Ops

\* What a disabled blueprint makes of a payload is a payload.
LEMMA EffectiveType ==
    ASSUME NEW p \in AllPayloads
    PROVE  Effective(p) \in AllPayloads
BY DEF Effective, AllPayloads, PayloadStatuses

\* The state an action leads to is a state of agents, or of blueprints.
LEMMA TargetTypes ==
    /\ \A action \in DOMAIN AgentActionTargets : AgentActionTargets[action] \in AgentStates
    /\ \A action \in DOMAIN BlueprintActionTargets :
           BlueprintActionTargets[action] \in BlueprintStates
BY DEF AgentActionTargets, AgentStates, BlueprintActionTargets, BlueprintStates

\* The first half of every operation preserves the invariant.
LEMMA BeginStepKeepsInv ==
    ASSUME Inv, NEW t \in Threads, BeginStep(t)
    PROVE  Inv' /\ RowsEvolve
<1> USE Operations
<1>1. \A r \in Children \cup Declaring : r \in Records /\ row[r] # NoRow
  BY DEF Children, Declaring
<1>2. ASSUME NEW r \in Records, NEW p \in Payloads, BeginUpsert(t, r, p) PROVE Inv' /\ RowsEvolve
  <2>1. p \in AllPayloads
    BY ActionAssumption
  <2>2. Effective(p) \in AllPayloads
    BY <2>1, EffectiveType
  <2>3. PICK input \in AllPayloads : input = Effective(p)
    BY <2>2
  <2>4. Begin(t, "upsert", "none", FALSE, input, {r}) /\ input # NoRow
    BY <1>2, <2>3, ModelValueAssumption DEF BeginUpsert
  <2>5. /\ {r} \in SUBSET Records /\ FALSE \in BOOLEAN /\ "upsert" \in Ops
        /\ input \in AllPayloads \cup {NoRow}
        /\ "none" \in AgentStates \cup BlueprintStates \cup {"none"}
    OBVIOUS
  <2> QED
    BY <2>4, <2>5, BeginKeepsInv, ZenonT(30)
<1>3. ASSUME NEW r \in Records, NEW action \in DOMAIN AgentActionTargets,
             NEW force \in BOOLEAN, BeginTransition(t, r, action, force)
      PROVE  Inv' /\ RowsEvolve
  <2>1. AgentActionTargets[action] \in AgentStates
    BY TargetTypes
  <2>2. /\ row[r] # NoRow
        /\ Begin(t, "transition", AgentActionTargets[action], force, NoRow, {r})
    BY <1>3 DEF BeginTransition
  <2> QED
    BY <2>1, <2>2, BeginKeepsInv
<1>4. ASSUME NEW r \in Records, BeginDeprovision(t, r) PROVE Inv' /\ RowsEvolve
  <2>1. /\ row[r] # NoRow
        /\ Begin(t, "deprovision", "deprovisioned", FALSE, NoRow, {r})
        /\ "deprovisioned" \in AgentStates
    BY <1>4 DEF BeginDeprovision, AgentStates
  <2>2. {r} \in SUBSET Records /\ FALSE \in BOOLEAN /\ "deprovision" \in Ops
    OBVIOUS
  <2> QED
    BY <2>1, <2>2, BeginKeepsInv
<1>5. ASSUME NEW status \in BlueprintStatuses, NEW children \in {{}, Children},
             BeginBlueprintStatus(t, status, children)
      PROVE  Inv' /\ RowsEvolve
  <2>1. /\ bp # NoRow
        /\ Begin(t, "set_blueprint_status", status, FALSE, NoRow, children)
        /\ status \in BlueprintStates
    BY <1>5 DEF BeginBlueprintStatus, BlueprintStatuses, BlueprintStates
  <2> QED
    BY <1>1, <2>1, BeginKeepsInv
<1>6. ASSUME NEW action \in BlueprintActions, NEW force \in BOOLEAN,
             BeginBlueprintTransition(t, action, force)
      PROVE  Inv' /\ RowsEvolve
  <2> DEFINE reads == IF action = "deprovision_children" THEN Declaring ELSE {}
  <2>1. BlueprintActionTargets[action] \in BlueprintStates
    BY TargetTypes, ActionAssumption
  <2>2. /\ bp # NoRow
        /\ Begin(t, "blueprint_transition", BlueprintActionTargets[action], force,
                 NoRow, reads)
    BY <1>6 DEF BeginBlueprintTransition
  <2>3. reads \in SUBSET Records /\ \A r \in reads : row[r] # NoRow
    BY <1>1
  <2> QED
    BY <2>1, <2>2, <2>3, BeginKeepsInv
<1>7. CASE BeginQuarantineAll(t)
  BY <1>1, <1>7, BeginKeepsInv DEF BeginQuarantineAll
<1>8. CASE BeginDeprovisionAll(t)
  BY <1>1, <1>8, BeginKeepsInv DEF BeginDeprovisionAll
<1>9. "delete" \in DOMAIN AgentActionTargets /\ "disabled" \in BlueprintStatuses
  BY DEF AgentActionTargets, BlueprintStatuses
<1> QED
  BY <1>2, <1>3, <1>4, <1>5, <1>6, <1>7, <1>8, <1>9, ActionAssumption DEF BeginStep

\* A commit that sets the lifecycle state of the rows it loaded, and audits it,
\* preserves the invariant: transition_agent_lifecycle, the second commit of
\* the deprovision route, and the cascade of deprovision-children.
LEMMA SetStateKeepsInv ==
    ASSUME Inv, NEW t \in Threads, txn[t] # Idle, txn[t].op \in RowOps,
           NEW s \in AgentStates,
           SetStates(t, s),
           Audit(txn[t].todo, s), Finish(t),
           bp' \in Blueprints \cup {NoRow}, BlueprintStays
    PROVE  Inv' /\ RowsEvolve
<1> DEFINE x == txn[t]
           New(r) == SetLifecycleState(x.snap[r], row[r], s)
<1>1. /\ row' = [r \in Records |-> IF r \in x.todo THEN New(r) ELSE row[r]]
      /\ trail' = [r \in Records |-> IF r \in x.todo THEN s ELSE trail[r]]
      /\ txn' = [txn EXCEPT ![t] = Idle]
  BY DEF SetStates, Audit, Finish
<1>2. ASSUME NEW r \in Records, r \in x.todo
      PROVE  /\ row[r] # NoRow
             /\ New(r) \in Rows
             /\ New(r).json.state = s
             /\ row[r].gone => New(r).gone
             /\ s \in Tombstones => New(r).gone
  <2>1. x.snap[r] \in Rows \cup {NoRow} /\ row[r] \in Rows \cup {NoRow}
    BY DEF Inv, TypeOK, Transactions
  <2>2. x.snap[r] # NoRow /\ row[r] # NoRow /\ (x.snap[r].gone => row[r].gone)
    BY <1>2 DEF Inv, RequestsOK, SnapshotOK
  <2> HIDE DEF x
  <2> QED
    BY <2>1, <2>2, SetLifecycleStateFacts
<1> HIDE DEF x, New
<1>3. TypeOK'
  BY <1>1, <1>2 DEF Inv, TypeOK
<1>4. RowsEvolve
  BY <1>1, <1>2, ModelValueAssumption DEF RowsEvolve
<1>5. Accounted
  BY <1>1, <1>2 DEF Accounted
<1>6. SnapshotOK(t)' /\ RequestOK(t)' /\ \A u \in Threads \ {t} : txn'[u] = txn[u]
  BY <1>1 DEF Inv, TypeOK, SnapshotOK, RequestOK
<1> QED
  BY <1>3, <1>4, <1>5, <1>6, InvFromFacts

\* A commit that writes only status columns of rows it loaded preserves the
\* invariant: quarantine-all and the disabling of a blueprint.
LEMMA SetStatusKeepsInv ==
    ASSUME Inv, NEW t \in Threads, txn[t] # Idle, txn[t].op \in RowOps,
           NEW status \in Statuses, SetStatusColumns(t, status), Finish(t),
           trail' = trail, bp' \in Blueprints \cup {NoRow}, BlueprintStays
    PROVE  Inv' /\ RowsEvolve
<1> DEFINE x == txn[t]
           New(r) == SetStatus(x.snap[r], row[r], status)
<1>1. /\ row' = [r \in Records |-> IF r \in x.todo THEN New(r) ELSE row[r]]
      /\ txn' = [txn EXCEPT ![t] = Idle]
  BY DEF SetStatusColumns, Finish
<1>2. ASSUME NEW r \in Records, r \in x.todo
      PROVE  /\ row[r] # NoRow
             /\ New(r) \in Rows
             /\ New(r).json = row[r].json
             /\ New(r).gone = row[r].gone
  <2>1. x.snap[r] \in Rows \cup {NoRow} /\ row[r] \in Rows \cup {NoRow}
    BY DEF Inv, TypeOK, Transactions
  <2>2. x.snap[r] # NoRow /\ row[r] # NoRow
    BY <1>2 DEF Inv, RequestsOK, SnapshotOK
  <2> HIDE DEF x
  <2> QED
    BY <2>1, <2>2, SetStatusFacts
<1> HIDE DEF x, New
<1>3. TypeOK'
  BY <1>1, <1>2 DEF Inv, TypeOK
<1>4. RowsEvolve /\ Accounted
  BY <1>1, <1>2, ModelValueAssumption DEF RowsEvolve, Accounted
<1>5. SnapshotOK(t)' /\ RequestOK(t)' /\ \A u \in Threads \ {t} : txn'[u] = txn[u]
  BY <1>1 DEF Inv, TypeOK, SnapshotOK, RequestOK
<1> QED
  BY <1>3, <1>4, <1>5, InvFromFacts

\* A commit or rollback that leaves the tables alone preserves the invariant.
LEMMA FinishKeepsInv ==
    ASSUME Inv, NEW t \in Threads, Finish(t), UNCHANGED <<row, bp, trail>>
    PROVE  Inv' /\ RowsEvolve
<1>1. txn' = [txn EXCEPT ![t] = Idle]
  BY DEF Finish
<1>2. TypeOK'
  BY <1>1 DEF Inv, TypeOK
<1>3. RowsEvolve /\ BlueprintStays /\ Accounted
  BY DEF RowsEvolve, BlueprintStays, Accounted
<1>4. SnapshotOK(t)' /\ RequestOK(t)' /\ \A u \in Threads \ {t} : txn'[u] = txn[u]
  BY <1>1 DEF Inv, TypeOK, SnapshotOK, RequestOK
<1> QED
  BY <1>2, <1>3, <1>4, InvFromFacts

\* Registering a record, or again, preserves the invariant: its payload has no
\* lifecycle state, and its date is left alone.
LEMMA UpsertKeepsInv ==
    ASSUME Inv, NEW t \in Threads, NEW same \in BOOLEAN,
           CommitInsert(t) \/ CommitUpdate(t, same)
    PROVE  Inv' /\ RowsEvolve
<1> DEFINE p == txn[t].input
<1>1. /\ Running(t, "upsert") /\ Finish(t) /\ UNCHANGED <<bp, trail>>
      /\ txn' = [txn EXCEPT ![t] = Idle]
  BY DEF CommitInsert, CommitUpdate, Finish
<1>2. /\ p \in AllPayloads
      /\ p.agent \in Statuses /\ p.child \in BOOLEAN
  <2>1. p # NoRow /\ txn[t] \in Transactions
    BY <1>1 DEF Running, Inv, RequestsOK, RequestOK, TypeOK
  <2> QED
    BY <2>1 DEF Transactions, AllPayloads, Statuses
<1>3. RecordJson(p) \in Jsons /\ RecordJson(p).state = "none"
  BY <1>2 DEF RecordJson, Jsons, AllPayloads
<1>5. txn[t].todo \subseteq Records
  BY <1>1 DEF Running, Inv, TypeOK, Transactions
<1>6. PICK r \in Records, new \in Rows :
         /\ row' = row \/ row' = [row EXCEPT ![r] = new]
         /\ \/ new.json.state = "none" /\ (row[r] # NoRow => new.gone = row[r].gone)
            \/ row[r] # NoRow /\ new.json = row[r].json /\ new.gone = row[r].gone
  <2>1. PICK r \in txn[t].todo :
         \/ row' = row
         \/ /\ row[r] = NoRow
            /\ row' = [row EXCEPT ![r] = [status |-> p.agent, json |-> RecordJson(p),
                                          gone |-> FALSE, child |-> p.child]]
         \/ /\ txn[t].snap[r] # NoRow
            /\ row' = [row EXCEPT
                   ![r].status = Flush(txn[t].snap[r].status, p.agent, @),
                   ![r].json = IF same THEN @ ELSE RecordJson(p),
                   ![r].child = Flush(txn[t].snap[r].child, p.child, @)]
    BY DEF CommitInsert, CommitUpdate
  <2> DEFINE inserted == [status |-> p.agent, json |-> RecordJson(p),
                          gone |-> FALSE, child |-> p.child]
             updated == [row[r] EXCEPT
                            !.status = Flush(txn[t].snap[r].status, p.agent, @),
                            !.json = IF same THEN @ ELSE RecordJson(p),
                            !.child = Flush(txn[t].snap[r].child, p.child, @)]
  <2>2. r \in Records /\ row[r] \in Rows \cup {NoRow}
    BY <1>5 DEF Inv, TypeOK
  <2>3. inserted \in Rows /\ inserted.json.state = "none"
    BY <1>2, <1>3 DEF Rows
  <2>4. CASE row' = row \/ (row[r] = NoRow /\ row' = [row EXCEPT ![r] = inserted])
    <3> HIDE DEF inserted, p
    <3>1. CASE row' = row
      <4> DEFINE new == IF row[r] = NoRow THEN inserted ELSE row[r]
      <4>1. /\ new \in Rows
            /\ \/ new.json.state = "none" /\ row[r] = NoRow
               \/ row[r] # NoRow /\ new.json = row[r].json /\ new.gone = row[r].gone
        BY <2>2, <2>3
      <4> QED
        BY <2>2, <3>1, <4>1
    <3>2. CASE row[r] = NoRow /\ row' = [row EXCEPT ![r] = inserted]
      BY <2>2, <2>3, <3>2
    <3> QED
      BY <2>4, <3>1, <3>2
  <2>5. CASE txn[t].snap[r] # NoRow /\ row' = [row EXCEPT ![r] = updated]
    <3>1. row[r] \in Rows /\ row[r] # NoRow
      BY <1>1, <2>2, <2>5 DEF Running, Inv, RequestsOK, SnapshotOK
    <3>2. txn[t].snap[r] \in Rows
      BY <1>1, <2>2, <2>5 DEF Running, Inv, TypeOK, Transactions
    <3>3. updated \in Rows
      BY <1>2, <1>3, <3>1, <3>2 DEF Rows, Flush
    <3>4. updated.gone = row[r].gone /\ updated.json \in {row[r].json, RecordJson(p)}
      BY <3>1 DEF Rows
    <3> QED
      BY <1>3, <2>2, <2>5, <3>1, <3>3, <3>4
  <2> QED
    BY <2>1, <2>4, <2>5
<1>7. TypeOK'
  BY <1>1, <1>6 DEF Inv, TypeOK
<1>8. RowsEvolve /\ Accounted
  BY <1>1, <1>6, ModelValueAssumption DEF RowsEvolve, Accounted, Inv, TypeOK
<1>9. /\ SnapshotOK(t)' /\ RequestOK(t)' /\ BlueprintStays
      /\ \A u \in Threads \ {t} : txn'[u] = txn[u]
  BY <1>1 DEF Inv, TypeOK, SnapshotOK, RequestOK, BlueprintStays
<1> QED
  BY <1>7, <1>8, <1>9, InvFromFacts

\* A request of the same thread at a later stage: another operation, other
\* rows to go, another snapshot.
Later(y, op, todo, snap) ==
    [[[y EXCEPT !.op = op] EXCEPT !.todo = todo] EXCEPT !.snap = snap]

\* Such a request has its type and the new fields.
LEMMA LaterStage ==
    ASSUME NEW y \in Transactions, NEW op \in Ops, NEW todo \in SUBSET Records,
           NEW snap \in [Records -> Rows \cup {NoRow}]
    PROVE  LET x == Later(y, op, todo, snap) IN
           /\ x \in Transactions /\ x # Idle
           /\ x.op = op /\ x.todo = todo /\ x.snap = snap
<1> DEFINE y1 == [y EXCEPT !.op = op]
           y2 == [y1 EXCEPT !.todo = todo]
           x == [y2 EXCEPT !.snap = snap]
<1>1. y1 \in Transactions /\ y1.op = op
  BY DEF Transactions
<1> HIDE DEF y1
<1>2. y2 \in Transactions /\ y2.op = op /\ y2.todo = todo
  BY <1>1 DEF Transactions
<1> HIDE DEF y2
<1>3. x \in Transactions /\ x.op = op /\ x.todo = todo /\ x.snap = snap
  BY <1>2 DEF Transactions
<1>4. x # Idle
  BY <1>3, ModelValueAssumption
<1> HIDE DEF x
<1> QED
  BY <1>3, <1>4, Zenon DEF x, y2, y1, Later

\* The steps of a request that goes on after them preserve the invariant: the
\* first commit and the reload of the deprovision route, and the loading and
\* closing of one child by deprovision-all.
LEMMA IntermediateKeepsInv ==
    ASSUME Inv, NEW t \in Threads,
           \/ CommitDisabled(t) \/ Refresh(t)
           \/ \E r \in Records : LoadChild(t, r) \/ CommitChild(t, r)
    PROVE  Inv' /\ RowsEvolve
<1>1. txn[t] # Idle /\ txn[t] \in Transactions /\ bp' = bp /\ trail' = trail
  BY DEF CommitDisabled, Refresh, LoadChild, CommitChild, Running, Inv, TypeOK
<1>2. SnapshotOK(t) /\ RequestOK(t)
  BY DEF Inv, RequestsOK
<1>3. SUFFICES /\ row' \in [Records -> Rows \cup {NoRow}]
               /\ \A r \in Records : row[r] # NoRow =>
                     /\ row'[r] # NoRow /\ row'[r].json = row[r].json
                     /\ row[r].gone => row'[r].gone
               /\ \A r \in Records : row[r] = NoRow => row'[r] = NoRow
               /\ \E x \in Transactions : txn' = [txn EXCEPT ![t] = x]
               /\ SnapshotOK(t)' /\ RequestOK(t)'
  <2>1. TypeOK' /\ \A u \in Threads \ {t} : txn'[u] = txn[u]
    BY <1>1, <1>3 DEF Inv, TypeOK
  <2>2. RowsEvolve /\ Accounted /\ BlueprintStays
    BY <1>1, <1>3 DEF RowsEvolve, Accounted, BlueprintStays
  <2> QED
    BY <1>3, <2>1, <2>2, InvFromFacts
<1>4. CASE CommitDisabled(t)
  <2> DEFINE New(r) == Disable(txn[t].snap[r], row[r])
  <2>1. /\ row' = [r \in Records |-> IF r \in txn[t].todo THEN New(r) ELSE row[r]]
        /\ txn' = [txn EXCEPT ![t] = [txn[t] EXCEPT !.op = "refresh"]]
        /\ txn[t].op = "deprovision"
    BY <1>4 DEF CommitDisabled, Running
  <2>2. ASSUME NEW r \in Records, r \in txn[t].todo
        PROVE  /\ row[r] # NoRow
               /\ New(r) \in Rows /\ New(r).json = row[r].json /\ New(r).gone
    <3>1. txn[t].snap[r] \in Rows \cup {NoRow} /\ row[r] \in Rows \cup {NoRow}
      BY <1>1 DEF Inv, TypeOK, Transactions
    <3>2. txn[t].snap[r] # NoRow /\ row[r] # NoRow
      BY <1>1, <1>2, <2>1, <2>2 DEF SnapshotOK, RowOps
    <3> QED
      BY <3>1, <3>2, DisableFacts
  <2> HIDE DEF New
  <2>3. /\ row' \in [Records -> Rows \cup {NoRow}]
        /\ \A r \in Records : row[r] # NoRow =>
              /\ row'[r] # NoRow /\ row'[r].json = row[r].json
              /\ row[r].gone => row'[r].gone
        /\ \A r \in Records : row[r] = NoRow => row'[r] = NoRow
    BY <2>1, <2>2, ModelValueAssumption DEF Inv, TypeOK
  <2> DEFINE x == [txn[t] EXCEPT !.op = "refresh"]
  <2>4. /\ x \in Transactions /\ x # Idle /\ x.op = "refresh"
        /\ x.snap = txn[t].snap /\ x.todo = txn[t].todo
    BY <1>1, ModelValueAssumption DEF Transactions, Ops
  <2> HIDE DEF x
  <2>5. txn' = [txn EXCEPT ![t] = x] /\ txn'[t] = x
    BY <2>1 DEF x, Inv, TypeOK
  <2>6. SnapshotOK(t)' /\ RequestOK(t)'
    BY <1>1, <1>2, <2>1, <2>3, <2>4, <2>5 DEF SnapshotOK, RequestOK, RowOps
  <2> QED
    BY <2>3, <2>4, <2>5, <2>6
<1>5. CASE Refresh(t)
  <2> DEFINE x == [txn[t] EXCEPT !.op = "mark_deprovisioned",
                       !.snap = [r \in Records |->
                                    IF r \in txn[t].todo THEN row[r] ELSE NoRow]]
  <2>1. txn' = [txn EXCEPT ![t] = x] /\ row' = row /\ txn[t].op = "refresh"
    BY <1>5 DEF Refresh, Running
  <2>2. /\ x \in Transactions /\ x # Idle /\ x.op = "mark_deprovisioned"
        /\ x.todo = txn[t].todo
        /\ x.snap = [r \in Records |-> IF r \in txn[t].todo THEN row[r] ELSE NoRow]
    <3> DEFINE snap == [r \in Records |-> IF r \in txn[t].todo THEN row[r] ELSE NoRow]
    <3>1. /\ "mark_deprovisioned" \in Ops /\ snap \in [Records -> Rows \cup {NoRow}]
          /\ txn[t].todo \in SUBSET Records
      BY <1>1 DEF Transactions, Ops, Inv, TypeOK
    <3>2. x = Later(txn[t], "mark_deprovisioned", txn[t].todo, snap)
      BY <1>1 DEF Transactions, Later
    <3> HIDE DEF x, snap
    <3>3. x \in Transactions /\ x # Idle /\ x.op = "mark_deprovisioned"
          /\ x.todo = txn[t].todo /\ x.snap = snap
      BY <1>1, <3>1, <3>2, LaterStage
    <3> QED
      BY <3>3 DEF snap
  <2> HIDE DEF x
  <2>3. txn'[t] = x
    BY <2>1 DEF Inv, TypeOK
  <2>4. SnapshotOK(t)' /\ RequestOK(t)'
    BY <1>1, <1>2, <2>1, <2>2, <2>3 DEF SnapshotOK, RequestOK, RowOps
  <2> QED
    BY <2>1, <2>2, <2>4 DEF Inv, TypeOK
<1>6. ASSUME NEW r \in Records, LoadChild(t, r)
      PROVE  /\ row' = row
             /\ \E x \in Transactions : txn' = [txn EXCEPT ![t] = x]
             /\ SnapshotOK(t)' /\ RequestOK(t)'
  <2> DEFINE x == [txn[t] EXCEPT !.snap[r] = row[r]]
  <2>1. /\ txn' = [txn EXCEPT ![t] = x] /\ row' = row
        /\ txn[t].op = "deprovision_all"
    BY <1>6 DEF LoadChild, Running
  <2>2. /\ x \in Transactions /\ x # Idle /\ x.op = "deprovision_all"
        /\ x.todo = txn[t].todo
        /\ x.snap = [txn[t].snap EXCEPT ![r] = row[r]]
    BY <1>1, <2>1, ModelValueAssumption DEF Transactions, Inv, TypeOK
  <2> HIDE DEF x
  <2>3. txn'[t] = x
    BY <2>1 DEF Inv, TypeOK
  <2>4. txn[t].snap \in [Records -> Rows \cup {NoRow}]
    BY <1>1 DEF Transactions
  <2>5. SnapshotOK(t)' /\ RequestOK(t)'
    BY <1>1, <1>2, <2>1, <2>2, <2>3, <2>4 DEF SnapshotOK, RequestOK, RowOps
  <2> QED
    BY <2>1, <2>2, <2>5
<1>7. ASSUME NEW r \in Records, CommitChild(t, r)
      PROVE  /\ row[r] # NoRow
             /\ \E new \in Rows : /\ row' = [row EXCEPT ![r] = new]
                                  /\ new.json = row[r].json /\ new.gone
             /\ \E x \in Transactions : txn' = [txn EXCEPT ![t] = x]
             /\ SnapshotOK(t)' /\ RequestOK(t)'
  <2> DEFINE x == [txn[t] EXCEPT !.todo = @ \ {r}, !.snap = [q \in Records |-> NoRow]]
             new == Disable(txn[t].snap[r], row[r])
  <2>1. /\ txn' = [txn EXCEPT ![t] = x] /\ row' = [row EXCEPT ![r] = new]
        /\ txn[t].op = "deprovision_all" /\ txn[t].snap[r] # NoRow
    BY <1>7 DEF CommitChild, Running
  <2>2. txn[t].snap[r] \in Rows /\ row[r] \in Rows /\ row[r] # NoRow
    BY <1>1, <1>2, <2>1 DEF Inv, TypeOK, Transactions, SnapshotOK
  <2>3. new \in Rows /\ new # NoRow /\ new.json = row[r].json /\ new.gone
    BY <2>2, DisableFacts, ModelValueAssumption
  <2> HIDE DEF new
  <2>4. /\ x \in Transactions /\ x # Idle /\ x.op = "deprovision_all"
        /\ x.todo = txn[t].todo \ {r} /\ x.snap = [q \in Records |-> NoRow]
    <3> DEFINE todo == txn[t].todo \ {r}
               snap == [q \in Records |-> NoRow]
    <3>1. /\ "deprovision_all" \in Ops /\ snap \in [Records -> Rows \cup {NoRow}]
          /\ todo \in SUBSET Records
      BY <1>1 DEF Transactions, Ops
    <3>2. x = Later(txn[t], "deprovision_all", todo, snap)
      BY <1>1, <2>1 DEF Transactions, Later
    <3> HIDE DEF x, snap, todo
    <3>3. x \in Transactions /\ x # Idle /\ x.op = "deprovision_all"
          /\ x.todo = todo /\ x.snap = snap
      BY <1>1, <3>1, <3>2, LaterStage
    <3> QED
      BY <3>3 DEF snap, todo
  <2> HIDE DEF x
  <2>5. txn'[t] = x
    BY <2>1 DEF Inv, TypeOK
  <2>6. \A q \in Records : row[q] # NoRow => row'[q] # NoRow
    BY <2>1, <2>3 DEF Inv, TypeOK
  <2>7. SnapshotOK(t)' /\ RequestOK(t)'
    BY <1>1, <1>2, <2>1, <2>4, <2>5, <2>6 DEF SnapshotOK, RequestOK, RowOps
  <2> QED
    BY <2>1, <2>2, <2>3, <2>4, <2>7
<1> QED
  BY <1>4, <1>5, <1>6, <1>7, ModelValueAssumption DEF Inv, TypeOK

\* Creating the blueprint touches no record and no request.
LEMMA CreateBlueprintKeepsInv ==
    ASSUME Inv, NEW status \in BlueprintStatuses, CreateBlueprint(status)
    PROVE  Inv' /\ RowsEvolve
<1>1. /\ bp = NoRow /\ bp' = [status |-> status, life |-> "draft"]
      /\ row' = row /\ trail' = trail /\ txn' = txn
  BY DEF CreateBlueprint
<1>2. bp' \in Blueprints /\ bp' # NoRow
  BY <1>1, ModelValueAssumption DEF Blueprints, BlueprintStates
<1>3. TypeOK'
  BY <1>1, <1>2 DEF Inv, TypeOK
<1>4. RowsEvolve /\ BlueprintStays /\ Accounted
  BY <1>1, <1>2 DEF RowsEvolve, BlueprintStays, Accounted
<1>5. RequestsOK'
  BY <1>1, <1>4, OthersStayInOrder DEF Inv, RequestsOK
<1>6. TombstoneDated' /\ TrailAgrees'
  BY <1>1 DEF Inv, TombstoneDated, TrailAgrees
<1> QED
  BY <1>3, <1>4, <1>5, <1>6 DEF Inv

\* The blueprint row keeps its type whichever column a commit writes.
LEMMA BlueprintTypes ==
    ASSUME NEW loaded \in Blueprints, NEW current \in Blueprints
    PROVE  /\ \A s \in BlueprintStatuses :
                [current EXCEPT !.status = Flush(loaded.status, s, @)] \in Blueprints
           /\ \A s \in BlueprintStates :
                [current EXCEPT !.life = Flush(loaded.life, s, @)] \in Blueprints
BY DEF Blueprints, Flush

\* The second half of every operation preserves the invariant.
LEMMA CommitStepKeepsInv ==
    ASSUME Inv, NEW t \in Threads, CommitStep(t)
    PROVE  Inv' /\ RowsEvolve
<1>1. SnapshotOK(t) /\ RequestOK(t) /\ txn[t] \in Transactions \cup {Idle}
  BY DEF Inv, RequestsOK, TypeOK
<1>2. /\ bp \in Blueprints \cup {NoRow}
      /\ txn[t] # Idle => txn[t].bp \in Blueprints \cup {NoRow}
  BY <1>1 DEF Inv, TypeOK, Transactions
<1>3. "deprovisioned" \in AgentStates /\ "deprovisioning" \in AgentStates
  BY DEF AgentStates
<1>4. "disabled" \in Statuses /\ "quarantined" \in Statuses
  BY DEF Statuses, PayloadStatuses
<1>5. CASE CommitTransition(t)
  <2>1. /\ txn[t] # Idle /\ txn[t].op \in RowOps /\ txn[t].target \in AgentStates
        /\ SetStates(t, txn[t].target) /\ Audit(txn[t].todo, txn[t].target)
        /\ Finish(t) /\ bp' = bp
    BY <1>1, <1>5 DEF CommitTransition, Running, RequestOK, RowOps
  <2>2. bp' \in Blueprints \cup {NoRow} /\ BlueprintStays
    BY <1>2, <2>1 DEF BlueprintStays
  <2> QED
    BY <2>1, <2>2, SetStateKeepsInv
<1>6. CASE CommitDeprovisioned(t)
  <2>1. /\ txn[t] # Idle /\ txn[t].op \in RowOps
        /\ SetStates(t, "deprovisioned") /\ Audit(txn[t].todo, "deprovisioned")
        /\ Finish(t) /\ bp' = bp
    BY <1>6 DEF CommitDeprovisioned, Running, RowOps
  <2>2. bp' \in Blueprints \cup {NoRow} /\ BlueprintStays
    BY <1>2, <2>1 DEF BlueprintStays
  <2> QED
    BY <1>3, <2>1, <2>2, SetStateKeepsInv
<1>7. CASE CommitBlueprintTransition(t)
  <2>1. /\ txn[t] # Idle /\ txn[t].op \in RowOps
        /\ bp # NoRow /\ txn[t].bp # NoRow /\ txn[t].target \in BlueprintStates
        /\ SetStates(t, "deprovisioning") /\ Audit(txn[t].todo, "deprovisioning")
        /\ Finish(t)
        /\ bp' = [bp EXCEPT !.life = Flush(txn[t].bp.life, txn[t].target, @)]
    BY <1>1, <1>7 DEF CommitBlueprintTransition, Running, RequestOK, RowOps
  <2>2. bp' \in Blueprints
    BY <1>2, <2>1, BlueprintTypes
  <2>3. bp' \in Blueprints \cup {NoRow} /\ BlueprintStays
    BY <2>2, ModelValueAssumption DEF BlueprintStays
  <2> QED
    BY <1>3, <2>1, <2>3, SetStateKeepsInv
<1>8. CASE CommitBlueprintStatus(t)
  <2>1. /\ txn[t] # Idle /\ txn[t].op \in RowOps
        /\ bp # NoRow /\ txn[t].bp # NoRow /\ txn[t].target \in BlueprintStatuses
        /\ SetStatusColumns(t, "disabled") /\ Finish(t) /\ trail' = trail
        /\ bp' = [bp EXCEPT !.status = Flush(txn[t].bp.status, txn[t].target, @)]
    BY <1>1, <1>8 DEF CommitBlueprintStatus, Running, RequestOK, RowOps
  <2>2. bp' \in Blueprints
    BY <1>2, <2>1, BlueprintTypes
  <2>3. bp' \in Blueprints \cup {NoRow} /\ BlueprintStays
    BY <2>2, ModelValueAssumption DEF BlueprintStays
  <2> QED
    BY <1>4, <2>1, <2>3, SetStatusKeepsInv
<1>9. CASE CommitQuarantineAll(t)
  <2>1. /\ txn[t] # Idle /\ txn[t].op \in RowOps
        /\ SetStatusColumns(t, "quarantined") /\ Finish(t)
        /\ trail' = trail /\ bp' = bp
    BY <1>9 DEF CommitQuarantineAll, Running, RowOps
  <2>2. bp' \in Blueprints \cup {NoRow} /\ BlueprintStays
    BY <1>2, <2>1 DEF BlueprintStays
  <2> QED
    BY <1>4, <2>1, <2>2, SetStatusKeepsInv
<1>10. CASE EndDeprovisionAll(t)
  BY <1>10, FinishKeepsInv DEF EndDeprovisionAll
<1>11. ASSUME NEW same \in BOOLEAN, CommitInsert(t) \/ CommitUpdate(t, same)
       PROVE  Inv' /\ RowsEvolve
  BY <1>11, UpsertKeepsInv
<1>12. CASE \/ CommitDisabled(t) \/ Refresh(t)
            \/ \E r \in Records : LoadChild(t, r) \/ CommitChild(t, r)
  BY <1>12, IntermediateKeepsInv
<1> QED
  BY <1>5, <1>6, <1>7, <1>8, <1>9, <1>10, <1>11, <1>12 DEF CommitStep

\* Inv is inductive, and no step removes a row or clears a date.
LEMMA InvInductive == Inv /\ [Next]_vars => Inv' /\ (Next => RowsEvolve)
<1> SUFFICES ASSUME Inv, [Next]_vars PROVE Inv' /\ (Next => RowsEvolve)
  OBVIOUS
<1>1. ASSUME NEW status \in SetStatuses, CreateBlueprint(status)
      PROVE  Inv' /\ RowsEvolve
  BY <1>1, CreateBlueprintKeepsInv, ActionAssumption
<1>2. ASSUME NEW t \in Threads, BeginStep(t) PROVE Inv' /\ RowsEvolve
  BY <1>2, BeginStepKeepsInv
<1>3. ASSUME NEW t \in Threads, CommitStep(t) PROVE Inv' /\ RowsEvolve
  BY <1>3, CommitStepKeepsInv
<1>4. ASSUME NEW t \in Threads, Abort(t) PROVE Inv' /\ RowsEvolve
  BY <1>4, FinishKeepsInv DEF Abort
<1>5. CASE Next
  BY <1>1, <1>2, <1>3, <1>4, <1>5 DEF Next
<1>6. CASE UNCHANGED vars
  <2>1. /\ row' = row /\ bp' = bp /\ trail' = trail /\ txn' = txn
    BY <1>6 DEF vars
  <2>2. Inv'
    BY <2>1 DEF Inv, TypeOK, RequestsOK, SnapshotOK, RequestOK, TombstoneDated, TrailAgrees
  <2>3. RowsEvolve
    BY <2>1 DEF RowsEvolve
  <2> QED
    BY <2>2, <2>3
<1> QED
  BY <1>5, <1>6

\* Inv holds throughout every run.
LEMMA InvHolds == Spec => []Inv
<1>1. Init => Inv
  BY InvInit
<1>2. Inv /\ [Next]_vars => Inv'
  BY InvInductive
<1> QED
  BY <1>1, <1>2, PTL DEF Spec

\* The tables and the requests in progress keep their types, for any number of
\* records, threads and payloads.
THEOREM TypeCorrect == Spec => []TypeOK
<1>1. Inv => TypeOK
  BY DEF Inv
<1> QED
  BY <1>1, InvHolds, PTL

\* However the handlers overlap, a record whose payload says deprovisioned,
\* archived or deleted carries a deprovisioning date.
THEOREM TombstoneDatedHolds == Spec => []TombstoneDated
<1>1. Inv => TombstoneDated
  BY DEF Inv
<1> QED
  BY <1>1, InvHolds, PTL

\* However the handlers overlap, the lifecycle state in a record's payload is
\* that of the audit event committed last for it.
THEOREM TrailAgreesHolds == Spec => []TrailAgrees
<1>1. Inv => TrailAgrees
  BY DEF Inv
<1> QED
  BY <1>1, InvHolds, PTL

\* No handler, and no overlap of handlers, removes a record or clears the date
\* of its deprovisioning.
THEOREM DatedForGoodHolds == Spec => DatedForGood
<1>1. Inv /\ [Next]_vars =>
        [\A r \in Records : row[r] # NoRow =>
            row'[r] # NoRow /\ (row[r].gone => row'[r].gone)]_vars
  BY InvInductive DEF RowsEvolve, vars
<1> QED
  BY <1>1, InvHolds, PTL DEF Spec, DatedForGood

(***************************************************************************)
(* With one thread, what a handler loaded is what it finds at its commit,  *)
(* except between the two commits of the deprovision route, which reads    *)
(* the record again before it uses it.                                     *)
(***************************************************************************)

\* The loaded rows are the rows.
Fresh(t) ==
    txn[t] # Idle /\ txn[t].op # "refresh" =>
        \A r \in Records : txn[t].snap[r] # NoRow => txn[t].snap[r] = row[r]

\* The transition validated at the beginning is still a valid one.
StillAllowed(t) ==
    txn[t] # Idle /\ txn[t].op = "transition" /\ ~txn[t].force =>
        \A r \in txn[t].todo :
            Allowed(AgentTransitions, LifecycleState(row[r]), txn[t].target, FALSE)

\* BlockedIsDisabled for one row.
StatusSound(record) ==
    LifecycleState(record) \in Blocked /\ record.status \in {"active", "enabled"} =>
        RegisteredAgain(record)

SerialInv == BlockedIsDisabled /\ \A t \in Threads : Fresh(t) /\ StillAllowed(t)

\* Written to the row it was loaded from, the state is the row's lifecycle
\* state and the status column goes with it.
LEMMA FreshStateFacts ==
    ASSUME NEW current \in Rows, NEW s \in AgentStates
    PROVE  LET new == SetLifecycleState(current, current, s) IN
           StatusSound(new) /\ LifecycleState(new) = s
<1> DEFINE new == SetLifecycleState(current, current, s)
<1>1. new.json.state = s /\ s # "none"
  BY DEF SetLifecycleState, Rows, Jsons, AgentStates
<1>2. LifecycleState(new) = s
  BY <1>1 DEF LifecycleState
<1>3. s \in Blocked => new.status = "disabled"
  <2>1. new.status = Flush(current.status, StatusFor(s, current.status), current.status)
    BY DEF SetLifecycleState, Rows
  <2>2. s \in Blocked => s # "active"
    BY DEF Blocked, Tombstones
  <2> QED
    BY <2>1, <2>2 DEF Flush, StatusFor
<1> QED
  BY <1>1, <1>2, <1>3 DEF StatusSound

\* A record without a state in its payload is sound: only its date or a
\* disabled status can block it.
LEMMA StatelessIsSound ==
    ASSUME NEW record, record.json.state = "none"
    PROVE  StatusSound(record)
BY DEF StatusSound, LifecycleState, RegisteredAgain, Blocked, Tombstones

\* The other writers of the status column of a loaded row.
LEMMA FreshStatusFacts ==
    ASSUME NEW current \in Rows
    PROVE  /\ StatusSound(Disable(current, current))
           /\ \A status \in {"disabled", "quarantined"} : StatusSound(SetStatus(current, current, status))
BY DEF StatusSound, Disable, SetStatus, Flush, Rows

\* The one thread has a request in order, and the rows stay sound.
LEMMA SerialFromFacts ==
    ASSUME SerialInv, NEW t \in Threads, \A u \in Threads : u = t, Fresh(t)', StillAllowed(t)',
           \A r \in Records : row'[r] # NoRow => row'[r] = row[r] \/ StatusSound(row'[r])
    PROVE  SerialInv'
<1>1. BlockedIsDisabled'
  BY DEF SerialInv, BlockedIsDisabled, StatusSound
<1> QED
  BY <1>1 DEF SerialInv

\* What a handler has just loaded is fresh.
LEMMA BeginIsFresh ==
    ASSUME TypeOK, SerialInv, NEW t \in Threads, \A u \in Threads : u = t,
           NEW op, NEW target, NEW force, NEW input, NEW reads,
           Begin(t, op, target, force, input, reads),
           op = "transition" /\ ~force =>
               \A r \in reads : Allowed(AgentTransitions, LifecycleState(row[r]), target, FALSE)
    PROVE  SerialInv'
<1>1. /\ row' = row
      /\ txn'[t] = [op |-> op, target |-> target, force |-> force, input |-> input, todo |-> reads,
                    snap |-> [r \in Records |-> IF r \in reads THEN row[r] ELSE NoRow], bp |-> bp]
  BY DEF Begin, TypeOK
<1>2. Fresh(t)'
  BY <1>1 DEF Fresh
<1>3. ASSUME op = "transition", ~force, NEW r \in reads
      PROVE  Allowed(AgentTransitions, LifecycleState(row'[r]), target, FALSE)
  BY <1>1, <1>3
<1>4. StillAllowed(t)'
  <2>1. txn'[t].op = op /\ txn'[t].force = force /\ txn'[t].todo = reads /\ txn'[t].target = target
    BY <1>1
  <2>2. ASSUME op = "transition", ~force
        PROVE  \A r \in txn'[t].todo :
                   Allowed(AgentTransitions, LifecycleState(row'[r]), txn'[t].target, FALSE)
    BY <1>3, <2>1, <2>2
  <2> QED
    BY <2>1, <2>2 DEF StillAllowed
<1> QED
  BY <1>1, <1>2, <1>4, SerialFromFacts

LEMMA SerialBegin ==
    ASSUME TypeOK, SerialInv, NEW t \in Threads, \A u \in Threads : u = t, BeginStep(t)
    PROVE  SerialInv'
<1>1. ASSUME NEW r \in Records, NEW action, NEW force \in BOOLEAN, BeginTransition(t, r, action, force)
      PROVE  SerialInv'
  <2>1. /\ Begin(t, "transition", AgentActionTargets[action], force, NoRow, {r})
        /\ ~force => Allowed(AgentTransitions, LifecycleState(row[r]), AgentActionTargets[action], FALSE)
    BY <1>1 DEF BeginTransition, Allowed
  <2> QED
    BY <2>1, BeginIsFresh
<1>2. ASSUME NEW r \in Records, NEW p, BeginUpsert(t, r, p) PROVE SerialInv'
  BY <1>2, BeginIsFresh DEF BeginUpsert
<1>3. ASSUME NEW r \in Records, BeginDeprovision(t, r) PROVE SerialInv'
  BY <1>3, BeginIsFresh DEF BeginDeprovision
<1>4. ASSUME NEW status, NEW children, BeginBlueprintStatus(t, status, children) PROVE SerialInv'
  BY <1>4, BeginIsFresh DEF BeginBlueprintStatus
<1>5. ASSUME NEW action, NEW force, BeginBlueprintTransition(t, action, force) PROVE SerialInv'
  BY <1>5, BeginIsFresh DEF BeginBlueprintTransition
<1>6. BeginQuarantineAll(t) \/ BeginDeprovisionAll(t) => SerialInv'
  BY BeginIsFresh DEF BeginQuarantineAll, BeginDeprovisionAll
<1> QED
  BY <1>1, <1>2, <1>3, <1>4, <1>5, <1>6, ActionAssumption DEF BeginStep

\* A thread that has finished has nothing stale.
LEMMA FinishedIsFresh ==
    ASSUME TypeOK, NEW t \in Threads, Finish(t)
    PROVE  Fresh(t)' /\ StillAllowed(t)'
BY DEF Finish, Fresh, StillAllowed, TypeOK

LEMMA SerialCommit ==
    ASSUME Inv, SerialInv, NEW t \in Threads, \A u \in Threads : u = t, CommitStep(t)
    PROVE  SerialInv'
<1>1. SnapshotOK(t) /\ RequestOK(t) /\ txn[t] \in Transactions /\ Fresh(t)
  BY DEF Inv, RequestsOK, TypeOK, SerialInv, CommitStep, CommitInsert, CommitUpdate,
     CommitTransition, CommitDisabled, Refresh, CommitDeprovisioned, CommitBlueprintStatus,
     CommitBlueprintTransition, CommitQuarantineAll, LoadChild, CommitChild, EndDeprovisionAll, Running
<1>2. ASSUME NEW s \in AgentStates, SetStates(t, s), txn[t].op \in RowOps, txn[t] # Idle, Finish(t) PROVE SerialInv'
  <2>1. ASSUME NEW r \in Records PROVE row'[r] = row[r] \/ StatusSound(row'[r])
    <3>1. CASE r \in txn[t].todo
      <4>1. txn[t].snap[r] = row[r] /\ row[r] \in Rows
        BY <1>1, <1>2, <3>1 DEF SnapshotOK, Fresh, RowOps, Inv, TypeOK
      <4>2. row'[r] = SetLifecycleState(row[r], row[r], s)
        BY <1>2, <3>1, <4>1 DEF SetStates
      <4> QED
        BY <4>1, <4>2, FreshStateFacts
    <3>2. CASE r \notin txn[t].todo
      BY <1>2, <3>2 DEF SetStates
    <3> QED
      BY <3>1, <3>2
  <2> QED
    BY <1>2, <2>1, FinishedIsFresh, SerialFromFacts DEF Inv
<1>3. ASSUME NEW status \in {"disabled", "quarantined"}, SetStatusColumns(t, status),
             txn[t].op \in RowOps, txn[t] # Idle, Finish(t)
      PROVE  SerialInv'
  <2>1. ASSUME NEW r \in Records PROVE row'[r] = row[r] \/ StatusSound(row'[r])
    <3>1. CASE r \in txn[t].todo
      <4>1. txn[t].snap[r] = row[r] /\ row[r] \in Rows
        BY <1>1, <1>3, <3>1 DEF SnapshotOK, Fresh, RowOps, Inv, TypeOK
      <4>2. row'[r] = SetStatus(row[r], row[r], status)
        BY <1>3, <3>1, <4>1 DEF SetStatusColumns
      <4> QED
        BY <4>1, <4>2, FreshStatusFacts
    <3>2. CASE r \notin txn[t].todo
      BY <1>3, <3>2 DEF SetStatusColumns
    <3> QED
      BY <3>1, <3>2
  <2> QED
    BY <1>3, <2>1, FinishedIsFresh, SerialFromFacts DEF Inv
<1>4. CommitTransition(t) => SerialInv'
  BY <1>1, <1>2 DEF CommitTransition, Running, RowOps, RequestOK
<1>5. CommitDeprovisioned(t) \/ CommitBlueprintTransition(t) => SerialInv'
  <2>1. "deprovisioned" \in AgentStates /\ "deprovisioning" \in AgentStates
    BY DEF AgentStates
  <2> QED
    BY <1>2, <2>1 DEF CommitDeprovisioned, CommitBlueprintTransition, Running, RowOps
<1>6. CommitBlueprintStatus(t) \/ CommitQuarantineAll(t) => SerialInv'
  BY <1>3 DEF CommitBlueprintStatus, CommitQuarantineAll, Running, RowOps
<1>7. CASE CommitInsert(t)
  <2>1. PICK r \in txn[t].todo :
           row' = IF row[r] # NoRow THEN row
                  ELSE [row EXCEPT ![r] = [status |-> txn[t].input.agent, json |-> RecordJson(txn[t].input),
                                           gone |-> FALSE, child |-> txn[t].input.child]]
    BY <1>7 DEF CommitInsert
  <2>2. Finish(t)
    BY <1>7 DEF CommitInsert
  <2>3. ASSUME NEW q \in Records PROVE row'[q] = row[q] \/ row'[q].json.state = "none"
    BY <2>1 DEF Inv, TypeOK, RecordJson
  <2> QED
    BY <2>2, <2>3, StatelessIsSound, FinishedIsFresh, SerialFromFacts DEF Inv
<1>8. ASSUME NEW same \in BOOLEAN, CommitUpdate(t, same) PROVE SerialInv'
  <2>1. PICK r \in txn[t].todo :
           /\ txn[t].snap[r] # NoRow
           /\ same => txn[t].snap[r].json = RecordJson(txn[t].input)
           /\ row' = [row EXCEPT
                  ![r].status = Flush(txn[t].snap[r].status, txn[t].input.agent, @),
                  ![r].json = IF same THEN @ ELSE RecordJson(txn[t].input),
                  ![r].child = Flush(txn[t].snap[r].child, txn[t].input.child, @)]
    BY <1>8 DEF CommitUpdate
  <2>2. Finish(t) /\ txn[t].op # "refresh" /\ txn[t] # Idle
    BY <1>8 DEF CommitUpdate, Running
  <2>3. r \in Records /\ txn[t].snap[r] = row[r] /\ row[r] \in Rows
    BY <1>1, <2>1, <2>2 DEF Transactions, Fresh, Inv, TypeOK
  <2>4. row'[r].json = IF same THEN row[r].json ELSE RecordJson(txn[t].input)
    BY <2>1, <2>3 DEF Inv, TypeOK, Rows
  <2>5. row'[r].json.state = "none"
    BY <2>1, <2>3, <2>4 DEF RecordJson
  <2>6. ASSUME NEW q \in Records, q # r PROVE row'[q] = row[q]
    BY <2>1, <2>6 DEF Inv, TypeOK
  <2> QED
    BY <2>2, <2>3, <2>5, <2>6, StatelessIsSound, FinishedIsFresh, SerialFromFacts DEF Inv
<1>9. CASE CommitDisabled(t)
  <2>1. /\ row' = [r \in Records |-> IF r \in txn[t].todo THEN Disable(txn[t].snap[r], row[r]) ELSE row[r]]
        /\ txn[t].op = "deprovision" /\ txn[t] # Idle /\ txn' = [txn EXCEPT ![t].op = "refresh"]
    BY <1>9 DEF CommitDisabled, Running
  <2>2. txn'[t].op = "refresh"
    BY <1>1, <2>1 DEF Inv, TypeOK, Transactions
  <2>3. Fresh(t)' /\ StillAllowed(t)'
    BY <2>2 DEF Fresh, StillAllowed
  <2>4. ASSUME NEW r \in Records PROVE row'[r] = row[r] \/ StatusSound(row'[r])
    <3>1. CASE r \in txn[t].todo
      <4>1. txn[t].snap[r] = row[r] /\ row[r] \in Rows
        BY <1>1, <2>1, <3>1 DEF SnapshotOK, Fresh, RowOps, Inv, TypeOK
      <4> QED
        BY <2>1, <3>1, <4>1, FreshStatusFacts
    <3> QED
      BY <2>1, <3>1
  <2> QED
    BY <2>3, <2>4, SerialFromFacts
<1>10. CASE Refresh(t)
  <2>1. /\ row' = row /\ txn[t] # Idle
        /\ txn' = [txn EXCEPT ![t].op = "mark_deprovisioned",
                       ![t].snap = [r \in Records |-> IF r \in txn[t].todo THEN row[r] ELSE NoRow]]
    BY <1>10 DEF Refresh, Running
  <2>2. /\ txn'[t].op = "mark_deprovisioned"
        /\ txn'[t].snap = [r \in Records |-> IF r \in txn[t].todo THEN row[r] ELSE NoRow]
    BY <1>1, <2>1 DEF Inv, TypeOK, Transactions
  <2>3. Fresh(t)' /\ StillAllowed(t)'
    BY <2>1, <2>2 DEF Fresh, StillAllowed
  <2> QED
    BY <2>1, <2>3, SerialFromFacts
<1>11. ASSUME NEW r \in Records, LoadChild(t, r) PROVE SerialInv'
  <2>1. /\ row' = row /\ txn[t].op = "deprovision_all" /\ txn[t] # Idle
        /\ txn' = [txn EXCEPT ![t].snap[r] = row[r]]
    BY <1>11 DEF LoadChild, Running
  <2>2. /\ txn'[t].op = "deprovision_all"
        /\ txn'[t].snap = [txn[t].snap EXCEPT ![r] = row[r]]
        /\ txn[t].snap \in [Records -> Rows \cup {NoRow}]
    BY <1>1, <2>1 DEF Inv, TypeOK, Transactions
  <2>3. Fresh(t)' /\ StillAllowed(t)'
    BY <1>1, <2>1, <2>2 DEF Fresh, StillAllowed
  <2> QED
    BY <2>1, <2>3, SerialFromFacts
<1>12. ASSUME NEW r \in Records, CommitChild(t, r) PROVE SerialInv'
  <2>1. /\ row' = [row EXCEPT ![r] = Disable(txn[t].snap[r], row[r])]
        /\ txn[t].op = "deprovision_all" /\ txn[t] # Idle /\ txn[t].snap[r] # NoRow
        /\ txn' = [txn EXCEPT ![t].todo = @ \ {r}, ![t].snap = [q \in Records |-> NoRow]]
    BY <1>12 DEF CommitChild, Running
  <2>2. txn'[t].op = "deprovision_all" /\ txn'[t].snap = [q \in Records |-> NoRow]
    BY <1>1, <2>1 DEF Inv, TypeOK, Transactions
  <2>3. Fresh(t)' /\ StillAllowed(t)'
    BY <2>2 DEF Fresh, StillAllowed
  <2>4. txn[t].snap[r] = row[r] /\ row[r] \in Rows
    BY <1>1, <2>1 DEF Fresh, Transactions
  <2>5. \A q \in Records : row'[q] = row[q] \/ StatusSound(row'[q])
    BY <2>1, <2>4, FreshStatusFacts DEF Inv, TypeOK
  <2> QED
    BY <2>3, <2>5, SerialFromFacts
<1>13. CASE EndDeprovisionAll(t)
  BY <1>13, FinishedIsFresh, SerialFromFacts DEF EndDeprovisionAll, Inv
<1> QED
  BY <1>4, <1>5, <1>6, <1>7, <1>8, <1>9, <1>10, <1>11, <1>12, <1>13 DEF CommitStep

\* With one thread the invariant holds throughout every run.
LEMMA SerialInvHolds ==
    ASSUME \A t, u \in Threads : t = u
    PROVE  Spec => []SerialInv
<1>1. Init => SerialInv
  BY DEF Init, SerialInv, BlockedIsDisabled, Fresh, StillAllowed
<1>2. Inv /\ SerialInv /\ [Next]_vars => SerialInv'
  <2> SUFFICES ASSUME Inv, SerialInv, [Next]_vars PROVE SerialInv'
    OBVIOUS
  <2>1. ASSUME UNCHANGED <<row, txn>> PROVE SerialInv'
    BY <2>1 DEF SerialInv, BlockedIsDisabled, Fresh, StillAllowed
  <2>2. ASSUME NEW t \in Threads, BeginStep(t) \/ CommitStep(t) PROVE SerialInv'
    BY <2>2, SerialBegin, SerialCommit DEF Inv
  <2>3. ASSUME NEW t \in Threads, Abort(t) PROVE SerialInv'
    BY <2>3, FinishedIsFresh, SerialFromFacts DEF Abort, Inv
  <2> QED
    BY <2>1, <2>2, <2>3 DEF Next, vars, CreateBlueprint
<1> QED
  BY <1>1, <1>2, InvHolds, PTL DEF Spec

\* With one thread a record whose lifecycle state, read from its payload or its
\* date, blocks it is not enabled in its status column, unless it was dated and
\* has been registered again since.
THEOREM BlockedIsDisabledSerial ==
    ASSUME \A t, u \in Threads : t = u
    PROVE  Spec => []BlockedIsDisabled
<1>1. SerialInv => BlockedIsDisabled
  BY DEF SerialInv
<1> QED
  BY <1>1, SerialInvHolds, PTL

\* With one thread an unforced request takes a record along AGENT_TRANSITIONS,
\* from the state it is in when the request commits.
THEOREM TransitionsLawfulSerial ==
    ASSUME \A t, u \in Threads : t = u
    PROVE  Spec => TransitionsLawful
<1>1. ASSUME Inv, SerialInv, Next, NEW t \in Threads, NEW r \in Records,
             Running(t, "transition"), ~txn[t].force, txn'[t] # txn[t], row'[r] # row[r]
      PROVE  Allowed(AgentTransitions, LifecycleState(row[r]), LifecycleState(row'[r]), FALSE)
  <2>1. BeginStep(t) \/ CommitStep(t)
    BY <1>1 DEF Next, CreateBlueprint, Abort
  <2>2. ~BeginStep(t)
    BY <1>1 DEF BeginStep, BeginUpsert, BeginTransition, BeginDeprovision, BeginBlueprintStatus,
       BeginBlueprintTransition, BeginQuarantineAll, BeginDeprovisionAll, Begin
  <2>3. CommitTransition(t)
    BY <1>1, <2>1, <2>2 DEF CommitStep, CommitInsert, CommitUpdate, CommitDisabled, Refresh,
       CommitDeprovisioned, CommitBlueprintStatus, CommitBlueprintTransition, CommitQuarantineAll,
       LoadChild, CommitChild, EndDeprovisionAll, Running
  <2>4. /\ txn[t] # Idle /\ txn[t].op = "transition" /\ txn[t].target \in AgentStates
        /\ SnapshotOK(t) /\ Fresh(t) /\ StillAllowed(t)
    BY <1>1 DEF Running, Inv, RequestsOK, RequestOK, SerialInv
  <2>5. r \in txn[t].todo /\ row'[r] = SetLifecycleState(txn[t].snap[r], row[r], txn[t].target)
    BY <1>1, <2>3 DEF CommitTransition, SetStates
  <2>6. txn[t].snap[r] = row[r] /\ row[r] \in Rows
    BY <1>1, <2>4, <2>5 DEF SnapshotOK, RowOps, Fresh, Inv, TypeOK
  <2>7. LifecycleState(row'[r]) = txn[t].target
    BY <2>4, <2>5, <2>6, FreshStateFacts
  <2> QED
    BY <1>1, <2>4, <2>5, <2>7 DEF StillAllowed
<1>2. Inv /\ SerialInv /\ [Next]_vars =>
        [\A t \in Threads, r \in Records :
             Running(t, "transition") /\ ~txn[t].force /\ txn'[t] # txn[t] /\ row'[r] # row[r] =>
                 Allowed(AgentTransitions, LifecycleState(row[r]), LifecycleState(row'[r]), FALSE)]_vars
  BY <1>1
<1> QED
  BY <1>2, InvHolds, SerialInvHolds, PTL DEF Spec, TransitionsLawful

=============================================================================
