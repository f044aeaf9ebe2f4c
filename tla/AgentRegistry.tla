---------------------------- MODULE AgentRegistry ----------------------------
(***************************************************************************)
(* The agent records of one organization, the blueprint they are children  *)
(* of, and the handlers that change them (src/app/main.py, services.py,    *)
(* lifecycle.py).                                                          *)
(*                                                                         *)
(* Handlers run in the threads of a pool, each with a Session of its own.  *)
(* A handler loads rows, decides on what it loaded, and commits.  Nothing  *)
(* is locked in between and no row carries a version.  The commit writes   *)
(* the columns whose value differs from the loaded one and no others.  So  *)
(* an operation is a Begin step, which takes a snapshot and passes the     *)
(* handler's checks (a request that fails them changes nothing and is left *)
(* out, as are dry runs), and a commit step.                               *)
(*                                                                         *)
(* record_json is a plain JSON column: the handlers that change the loaded *)
(* dictionary in place (deprovision_record, set_blueprint_status and       *)
(* quarantine-all) do not make the column differ, so that change is lost.  *)
(***************************************************************************)
EXTENDS AgentLifecycle

CONSTANTS
    Records,            \* DIDs that may be registered
    Threads,            \* workers of the thread pool
    Payloads,           \* bodies of POST /v1/agent-records that pass the schema
    AgentActions,       \* routed lifecycle actions of agents that clients use
    BlueprintActions,   \* routed lifecycle actions of blueprints that they use
    SetStatuses,        \* blueprint statuses that clients create, patch, delete to
    Forces,             \* values of "force" in lifecycle requests
    NoRow,              \* there is no such row
    Idle                \* the thread serves no request

\* status of agent_records: "active", "disabled" and "quarantine" come from
\* payloads, the other two from the lifecycle and from quarantine-all.
PayloadStatuses == {"active", "disabled", "quarantine"}
Statuses == PayloadStatuses \cup {"enabled", "quarantined"}

\* record_json: lifecycle.state ("none" if the key is absent), agent.status,
\* and whether extensions.lifecycle.blueprint_id names the blueprint's row.
Jsons == [state : AgentStates \cup {"none"}, agent : PayloadStatuses,
          declares : BOOLEAN]

\* gone: deprovisioned_at is set.  child: blueprint_id is set.
Rows == [status : Statuses, json : Jsons, gone : BOOLEAN, child : BOOLEAN]

\* status and lifecycle_state of the blueprint, two unrelated columns.
BlueprintStatuses == {"active", "disabled", "deleted"}
Blueprints == [status : BlueprintStatuses, life : BlueprintStates]

AllPayloads == [agent : PayloadStatuses, child : BOOLEAN, declares : BOOLEAN]

ASSUME ActionAssumption ==
    /\ Payloads \subseteq AllPayloads
    /\ AgentActions \subseteq DOMAIN AgentActionTargets \ {"delete"}
    /\ BlueprintActions \subseteq DOMAIN BlueprintActionTargets
    /\ SetStatuses \subseteq BlueprintStatuses
    /\ Forces \subseteq BOOLEAN

Ops == {"upsert", "transition", "deprovision", "refresh", "mark_deprovisioned",
        "deprovision_all", "quarantine_all", "set_blueprint_status",
        "blueprint_transition"}

\* A request in progress: what it is to write (target), the rows it is about,
\* and what it loaded.
Transactions ==
    [op : Ops, target : AgentStates \cup BlueprintStates \cup {"none"}, force : BOOLEAN,
     input : AllPayloads \cup {NoRow}, todo : SUBSET Records,
     snap : [Records -> Rows \cup {NoRow}], bp : Blueprints \cup {NoRow}]

ASSUME ModelValueAssumption ==
    /\ NoRow \notin Rows \cup Blueprints \cup AllPayloads
    /\ Idle \notin Transactions

VARIABLES
    row,    \* agent_records, per DID
    bp,     \* the agent_identity_blueprints row
    trail,  \* per record: new_state of the lifecycle audit event committed last
    txn     \* per thread: the request it serves

vars == <<row, bp, trail, txn>>

----------------------------------------------------------------------------
(* lifecycle.py                                                            *)

\* agent_lifecycle_state.
LifecycleState(record) ==
    IF record.json.state # "none" THEN record.json.state
    ELSE IF record.gone THEN "deprovisioned"
    ELSE IF record.status = "disabled" THEN "suspended"
    ELSE "active"

\* What a commit leaves in a column that was loaded as old and set to new.
Flush(old, new, current) == IF new = old THEN current ELSE new

\* Defective variants, for mutation: the status column takes the name of the
\* state; quarantine is forgotten among the blocking states.
StatusForByName(s, old) ==
    IF s = "active" THEN "enabled" ELSE IF s \in Blocked THEN s ELSE old

StatusForButQuarantine(s, old) ==
    IF s = "active" THEN "enabled"
    ELSE IF s \in Blocked \ {"quarantined"} THEN "disabled" ELSE old

StatusFor(s, old) ==
    IF s = "active" THEN "enabled" ELSE IF s \in Blocked THEN "disabled" ELSE old

\* Defective variant, for mutation: only "deprovisioned" is dated.
SetLifecycleStateUndated(loaded, current, s) ==
    [current EXCEPT
        !.json = [loaded.json EXCEPT !.state = s],
        !.status = Flush(loaded.status, StatusFor(s, loaded.status), @),
        !.gone = Flush(loaded.gone, loaded.gone \/ s = "deprovisioned", @)]

\* set_agent_lifecycle_state on the loaded row, then commit.  The JSON column
\* always differs from the loaded one by its timestamp.  agent.status is
\* required by the schema, so the setdefault for enabling states does nothing.
SetLifecycleState(loaded, current, s) ==
    [current EXCEPT
        !.json = [loaded.json EXCEPT
                     !.state = s,
                     !.agent = IF s \in Blocked \cup {"credentials_expired"}
                               THEN "disabled" ELSE @],
        !.status = Flush(loaded.status, StatusFor(s, loaded.status), @),
        !.gone = Flush(loaded.gone, loaded.gone \/ s \in Tombstones, @)]

\* deprovision_record, then commit.
Disable(loaded, current) ==
    [current EXCEPT !.status = Flush(loaded.status, "disabled", @), !.gone = TRUE]

\* status = "..." for a child of the blueprint, then commit.
SetStatus(loaded, current, status) ==
    [current EXCEPT !.status = Flush(loaded.status, status, @)]

----------------------------------------------------------------------------
(* Transactions                                                            *)

Children == {r \in Records : row[r] # NoRow /\ row[r].child}
Declaring == {r \in Records : row[r] # NoRow /\ row[r].json.declares}

Begin(t, op, target, force, input, reads) ==
    /\ txn[t] = Idle
    /\ txn' = [txn EXCEPT ![t] =
           [op |-> op, target |-> target, force |-> force, input |-> input,
            todo |-> reads,
            snap |-> [r \in Records |-> IF r \in reads THEN row[r] ELSE NoRow],
            bp |-> bp]]
    /\ UNCHANGED <<row, bp, trail>>

Running(t, op) == txn[t] # Idle /\ txn[t].op = op

Finish(t) == txn' = [txn EXCEPT ![t] = Idle]

\* The rows of the transaction take a lifecycle state, or a status.
SetStates(t, s) ==
    row' = [r \in Records |-> IF r \in txn[t].todo
                              THEN SetLifecycleState(txn[t].snap[r], row[r], s)
                              ELSE row[r]]

SetStatusColumns(t, status) ==
    row' = [r \in Records |-> IF r \in txn[t].todo
                              THEN SetStatus(txn[t].snap[r], row[r], status)
                              ELSE row[r]]

\* Events for these records go into the same commit.
Audit(records, s) == trail' = [r \in Records |-> IF r \in records THEN s ELSE trail[r]]

Init ==
    /\ row = [r \in Records |-> NoRow]
    /\ bp = NoRow
    /\ trail = [r \in Records |-> "none"]
    /\ txn = [t \in Threads |-> Idle]

----------------------------------------------------------------------------
(* POST /v1/agent-records, and the route below a blueprint: upsert_record. *)

\* A disabled blueprint disables what is registered below it.
Effective(p) ==
    IF p.child /\ bp.status = "disabled" THEN [p EXCEPT !.agent = "disabled"] ELSE p

BeginUpsert(t, r, p) ==
    /\ p.child => bp # NoRow /\ bp.status # "deleted"
    /\ Begin(t, "upsert", "none", FALSE, Effective(p), {r})

RecordJson(p) == [state |-> "none", agent |-> p.agent, declares |-> p.declares]

\* The insert of a DID that another thread has registered meanwhile breaks the
\* unique constraint and is rolled back.
CommitInsert(t) ==
    /\ Running(t, "upsert")
    /\ \E r \in txn[t].todo : LET p == txn[t].input IN
        /\ txn[t].snap[r] = NoRow
        /\ row' = IF row[r] # NoRow THEN row
                  ELSE [row EXCEPT ![r] = [status |-> p.agent, json |-> RecordJson(p),
                                           gone |-> FALSE, child |-> p.child]]
    /\ Finish(t)
    /\ UNCHANGED <<bp, trail>>

\* Defective variant, for mutation: registering a DID again clears
\* deprovisioned_at.
CommitUpdateReviving(t, same) ==
    /\ Running(t, "upsert")
    /\ \E r \in txn[t].todo : LET p == txn[t].input IN
        /\ txn[t].snap[r] # NoRow
        /\ row' = [row EXCEPT ![r].status = p.agent, ![r].json = RecordJson(p),
                              ![r].gone = FALSE]
    /\ Finish(t)
    /\ UNCHANGED <<bp, trail>>

\* The payload replaces record_json, unless it equals what was loaded (same)
\* and the column is left alone.
CommitUpdate(t, same) ==
    /\ Running(t, "upsert")
    /\ \E r \in txn[t].todo : LET p == txn[t].input
                                  loaded == txn[t].snap[r] IN
        /\ loaded # NoRow
        /\ same => loaded.json = RecordJson(p)
        /\ row' = [row EXCEPT
               ![r].status = Flush(loaded.status, p.agent, @),
               ![r].json = IF same THEN @ ELSE RecordJson(p),
               ![r].child = Flush(loaded.child, p.child, @)]
    /\ Finish(t)
    /\ UNCHANGED <<bp, trail>>

----------------------------------------------------------------------------
(* The lifecycle actions of a record: transition_agent_lifecycle.  The     *)
(* activation gates may pass or fail, but fail on a quarantined record;    *)
(* force overrides them.                                                   *)

\* Defective variant, for mutation: validate_transition is not called.
BeginTransitionUnvalidated(t, r, action, force) ==
    /\ row[r] # NoRow
    /\ Begin(t, "transition", AgentActionTargets[action], force, NoRow, {r})

BeginTransition(t, r, action, force) ==
    /\ row[r] # NoRow
    /\ action = "activate" => force \/ LifecycleState(row[r]) # "quarantined"
    /\ Allowed(AgentTransitions, LifecycleState(row[r]), AgentActionTargets[action], force)
    /\ Begin(t, "transition", AgentActionTargets[action], force, NoRow, {r})

CommitTransition(t) ==
    /\ Running(t, "transition")
    /\ SetStates(t, txn[t].target)
    /\ Audit(txn[t].todo, txn[t].target)
    /\ Finish(t)
    /\ UNCHANGED bp

\* POST .../deprovision commits twice: the record is disabled and dated, read
\* again, and then marked deprovisioned.  No transition is validated.
BeginDeprovision(t, r) ==
    /\ row[r] # NoRow
    /\ Begin(t, "deprovision", "deprovisioned", FALSE, NoRow, {r})

CommitDisabled(t) ==
    /\ Running(t, "deprovision")
    /\ row' = [r \in Records |-> IF r \in txn[t].todo
                                 THEN Disable(txn[t].snap[r], row[r]) ELSE row[r]]
    /\ txn' = [txn EXCEPT ![t].op = "refresh"]
    /\ UNCHANGED <<bp, trail>>

Refresh(t) ==
    /\ Running(t, "refresh")
    /\ txn' = [txn EXCEPT ![t].op = "mark_deprovisioned",
                          ![t].snap = [r \in Records |->
                              IF r \in txn[t].todo THEN row[r] ELSE NoRow]]
    /\ UNCHANGED <<row, bp, trail>>

\* Defective variant, for mutation: the second commit writes no event.
CommitDeprovisionedUnaudited(t) ==
    /\ Running(t, "mark_deprovisioned")
    /\ SetStates(t, "deprovisioned")
    /\ Finish(t)
    /\ UNCHANGED <<bp, trail>>

CommitDeprovisioned(t) ==
    /\ Running(t, "mark_deprovisioned")
    /\ SetStates(t, "deprovisioned")
    /\ Audit(txn[t].todo, "deprovisioned")
    /\ Finish(t)
    /\ UNCHANGED bp

----------------------------------------------------------------------------
(* The blueprint and its children.                                         *)

CreateBlueprint(status) ==
    /\ bp = NoRow
    /\ bp' = [status |-> status, life |-> "draft"]
    /\ UNCHANGED <<row, trail, txn>>

\* PATCH, DELETE, .../enable and .../disable; the last disables the children.
BeginBlueprintStatus(t, status, children) ==
    /\ bp # NoRow
    /\ Begin(t, "set_blueprint_status", status, FALSE, NoRow, children)

CommitBlueprintStatus(t) ==
    /\ Running(t, "set_blueprint_status")
    /\ bp' = [bp EXCEPT !.status = Flush(txn[t].bp.status, txn[t].target, @)]
    /\ SetStatusColumns(t, "disabled")
    /\ Finish(t)
    /\ UNCHANGED trail

\* .../activate, deprecate, quarantine, archive, deprovision-children.  Only
\* the last reaches records: those that declare the blueprint.
BeginBlueprintTransition(t, action, force) ==
    /\ bp # NoRow
    /\ Allowed(BlueprintTransitions, bp.life, BlueprintActionTargets[action], force)
    /\ Begin(t, "blueprint_transition", BlueprintActionTargets[action], force, NoRow,
             IF action = "deprovision_children" THEN Declaring ELSE {})

CommitBlueprintTransition(t) ==
    /\ Running(t, "blueprint_transition")
    /\ bp' = [bp EXCEPT !.life = Flush(txn[t].bp.life, txn[t].target, @)]
    /\ SetStates(t, "deprovisioning")
    /\ Audit(txn[t].todo, "deprovisioning")
    /\ Finish(t)

\* .../quarantine-all: the status column of every child, one commit.
BeginQuarantineAll(t) ==
    /\ bp # NoRow
    /\ Begin(t, "quarantine_all", "none", FALSE, NoRow, Children)

CommitQuarantineAll(t) ==
    /\ Running(t, "quarantine_all")
    /\ SetStatusColumns(t, "quarantined")
    /\ Finish(t)
    /\ UNCHANGED <<bp, trail>>

\* .../deprovision-all: deprovision_record child by child.  Each commit
\* expires the rows loaded so far, so the next child is loaded at its turn.
BeginDeprovisionAll(t) ==
    /\ bp # NoRow
    /\ Begin(t, "deprovision_all", "none", FALSE, NoRow, Children)

LoadChild(t, r) ==
    /\ Running(t, "deprovision_all")
    /\ r \in txn[t].todo
    /\ \A q \in Records : txn[t].snap[q] = NoRow
    /\ txn' = [txn EXCEPT ![t].snap[r] = row[r]]
    /\ UNCHANGED <<row, bp, trail>>

CommitChild(t, r) ==
    /\ Running(t, "deprovision_all")
    /\ r \in txn[t].todo
    /\ txn[t].snap[r] # NoRow
    /\ row' = [row EXCEPT ![r] = Disable(txn[t].snap[r], @)]
    /\ txn' = [txn EXCEPT ![t].todo = @ \ {r},
                          ![t].snap = [q \in Records |-> NoRow]]
    /\ UNCHANGED <<bp, trail>>

EndDeprovisionAll(t) ==
    /\ Running(t, "deprovision_all")
    /\ txn[t].todo = {}
    /\ Finish(t)
    /\ UNCHANGED <<row, bp, trail>>

\* The process dies, or the request ends in an exception (a lost database
\* connection, say): the open transaction is rolled back.
Abort(t) ==
    /\ txn[t] # Idle
    /\ Finish(t)
    /\ UNCHANGED <<row, bp, trail>>

----------------------------------------------------------------------------
BeginStep(t) ==
    \/ \E r \in Records :
        \/ \E p \in Payloads : BeginUpsert(t, r, p)
        \/ \E action \in AgentActions, force \in Forces : BeginTransition(t, r, action, force)
        \/ BeginTransition(t, r, "delete", TRUE)
        \/ BeginDeprovision(t, r)
    \/ \E status \in SetStatuses : BeginBlueprintStatus(t, status, {})
    \/ BeginBlueprintStatus(t, "disabled", Children)
    \/ \E action \in BlueprintActions, force \in Forces :
          BeginBlueprintTransition(t, action, force)
    \/ BeginQuarantineAll(t)
    \/ BeginDeprovisionAll(t)

CommitStep(t) ==
    \/ CommitInsert(t)
    \/ \E same \in BOOLEAN : CommitUpdate(t, same)
    \/ CommitTransition(t)
    \/ CommitDisabled(t)
    \/ Refresh(t)
    \/ CommitDeprovisioned(t)
    \/ CommitBlueprintStatus(t)
    \/ CommitBlueprintTransition(t)
    \/ CommitQuarantineAll(t)
    \/ \E r \in Records : LoadChild(t, r) \/ CommitChild(t, r)
    \/ EndDeprovisionAll(t)

Next ==
    \/ \E status \in SetStatuses : CreateBlueprint(status)
    \/ \E t \in Threads : BeginStep(t) \/ CommitStep(t) \/ Abort(t)

Spec == Init /\ [][Next]_vars

\* The pool schedules every thread, and the database answers every commit.
\* Clients and crashes are under no obligation.
Fairness == \A t \in Threads : WF_vars(CommitStep(t))

----------------------------------------------------------------------------
(* Properties.                                                             *)

\* The type invariant of the tables and of the requests in progress.
TypeOK ==
    /\ row \in [Records -> Rows \cup {NoRow}]
    /\ bp \in Blueprints \cup {NoRow}
    /\ trail \in [Records -> AgentStates \cup {"none"}]
    /\ txn \in [Threads -> Transactions \cup {Idle}]

\* A closed record is dated: whatever requests overlap, a record whose payload
\* says deprovisioned, archived or deleted has its deprovisioned_at set, so a
\* later upsert that drops the state still leaves it recognisable as closed
\* (lifecycle.py:81, 103).
TombstoneDated ==
    \A r \in Records : row[r] # NoRow =>
        (row[r].json.state \in Tombstones => row[r].gone)

\* A lifecycle state in the payload is that of the audit event committed last:
\* no lost update, cascade or double commit separates the two (docs/
\* lifecycle-management.md:11, "Every successful transition writes an
\* immutable lifecycle audit event").  A record registered again has no state
\* in its payload, whatever was audited before; see AuditedStateStands.
TrailAgrees ==
    \A r \in Records : row[r] # NoRow =>
        (row[r].json.state # "none" => trail[r] = row[r].json.state)

\* The date of a deprovisioning is for good: no handler, whatever it loaded and
\* whichever columns it writes back, clears deprovisioned_at or removes the
\* row, though one that registers the DID again may enable its status.
DatedForGood ==
    [][\A r \in Records : row[r] # NoRow =>
         row'[r] # NoRow /\ (row[r].gone => row'[r].gone)]_vars

\* An unforced transition request changes the state along AGENT_TRANSITIONS
\* as the record is at the commit ("Invalid transitions fail with `409
\* Conflict`", docs/lifecycle-management.md:11).  So it does with one thread.
TransitionsLawful ==
    [][\A t \in Threads, r \in Records :
         Running(t, "transition") /\ ~txn[t].force /\ txn'[t] # txn[t]
           /\ row'[r] # row[r] =>
             Allowed(AgentTransitions, LifecycleState(row[r]),
                     LifecycleState(row'[r]), FALSE)]_vars

\* Lists, filters and callers read the status column, the lifecycle reads the
\* payload and deprovisioned_at (agent_lifecycle_state, lifecycle.py:75).  The
\* two agree on who is blocked ("Quarantined agents cannot authenticate", docs/
\* lifecycle-management.md:71): a record whose lifecycle state blocks it is not
\* enabled, with one exception, a record that was dated as deprovisioned and
\* registered again since (services.py:782), which reads "deprovisioned" with
\* the status of its new payload.  So it is with one thread; overlapping
\* commits mix the columns of two transitions.
RegisteredAgain(record) == record.gone /\ record.json.state = "none"

BlockedIsDisabled ==
    \A r \in Records :
        /\ row[r] # NoRow
        /\ LifecycleState(row[r]) \in Blocked
        /\ row[r].status \in {"active", "enabled"}
        => RegisteredAgain(row[r])

\* What docs/lifecycle-management.md:11 says read backwards, "Every successful
\* transition writes an immutable lifecycle audit event": a state that was
\* audited stands until another event.
AuditedStateStands ==
    \A r \in Records : row[r] # NoRow =>
        (trail[r] # "none" => LifecycleState(row[r]) = trail[r])

\* "deleted" has no successor in AGENT_TRANSITIONS, and invalid transitions
\* fail with 409 (docs/lifecycle-management.md:11): once a record is deleted, no
\* other state is ever audited of it.
DeletedIsFinal ==
    [][\A r \in Records : trail[r] = "deleted" => trail'[r] = "deleted"]_vars

\* Every request ends: deprovision-all gets through the children it listed, and
\* a registration that loses the race for its DID is answered, while another
\* thread registers, updates and deprovisions the same records.
RequestsEnd == \A t \in Threads : txn[t] # Idle ~> txn[t] = Idle

=============================================================================
