# Agent DID: specifications and proofs

TLA+ models of the control plane in `src/app`: what its components do, what they
promise, model-checked on small instances with TLC and, in everything but liveness, proved
for all instances with TLAPS. Every definition is translated from the Python source;
`PROJECT.json` gives the lines it stands for.

## 1. The system

One FastAPI application (`app/main.py`). Synchronous route functions run in the
threads of a pool, each with its own SQLAlchemy session; `async` ones run on the
event loop and lose it only at an `await` that suspends. State is in the database
or in dictionaries of the process.

| Component | Source | State | Operations | Interacts with |
|---|---|---|---|---|
| Approval gate | `approval/gate.py`, `authzen/pep_async.py` | `_APPROVAL_REQUESTS` in memory | create, vote, read status, expire | awaits the PDP (AuthZEN) before a vote, CAAS after it, then the emitter |
| SCIM provisioning | `routers/scim_router.py`, `scim/db.py` | none: the database layer is stubs | create, get, put, patch, delete | creates a request of the gate inside its own request |
| Agent records | `services.py`, `lifecycle.py`, `main.py` | table `agent_records` (columns and a JSON payload) | upsert, nine routed lifecycle actions, deprovision, DELETE | blueprint cascades write the same rows |
| Blueprints | same | `agent_identity_blueprints`, children by `blueprint_id` | create, patch, delete, enable, disable, five lifecycle actions, quarantine-all, deprovision-all | child records |
| Lifecycle audit | `lifecycle.py` | `lifecycle_audit_events` | one event per transition, same commit | - |
| Shared Signals emitter | `ssf/emitter.py` | `_RECEIVERS` in memory, with poll queues | register, deregister, poll, emit | awaited by the gate; POSTs to receivers |
| Rate limiter | `runtime.py` | deques in memory, or counters in Redis | `check` before every request | middleware; Redis shared by processes |
| OIDC login | `auth/oidc.py`, `routers/oidc_router.py` | flows by `state`, JWKS and discovery caches, in memory | start, callback | identity provider; issues session tokens |
| Sessions | `routers/session_router.py` | revoked token ids in memory | revoke, introspect, logout | reads the tokens of OIDC login |
| Accounts, keys, providers, FGA | `services.py`, `security.py`, `main.py` | organizations, keys, sessions, providers, tuples in the database | bootstrap, create and revoke keys, sign in, grant, check | guards of every route |
| Migrations | `migrations.py` | schema and `schema_migrations` | revisions at the start of each worker | precede everything else |
| SAML login | `auth/saml.py`, `routers/saml_router.py` | pending requests in memory | start, ACS | identity provider |
| Blueprint assets | `services.py` | permissions, credentials, principals | replace, add, rotate, delete, effective permissions | blueprints |
| Decision endpoints | `integrations/`, `routers/authorization.py`, `authzen/middleware.py` | none | evaluate, forward | external services |

### What is hard, and what makes each part correct

- **Gate.** Votes overlap at their awaits; deadlines pass meanwhile; PDP, CAAS and
  receivers fail; a restart forgets everything. Correct: an approval rests on M
  approve votes of different people, an outcome is announced once and only with
  its ground, a verdict is final, every call is answered.
- **SCIM.** The agent's POST awaits the gate's creation, which the PDP may refuse and a
  restart may cut off. Correct: what the client was told and what the gate
  stores agree.
- **Records and blueprints.** Two threads read, validate and write the same row;
  the commit writes only the columns that changed; some operations commit twice,
  others once per child. Correct: transitions follow the table, the columns agree
  with each other and with the audit trail, closed records stay closed.
- **Emitter.** Registration, polling, fan-out and retries interleave; a POST that
  timed out may have arrived. Correct: a poll receiver gets what it subscribed to,
  in order, once; a push receiver is given up only after all attempts; an emission
  always comes back to its caller.
- **Rate limiter.** Boundaries of the window, several processes, a failing Redis.
  Correct: never more than the limit in a window; who waits in vain is told
  honestly how long, and is let in again.
- **OIDC login.** Callbacks overlap at three or four awaits, the provider rotates and withdraws
  keys meanwhile, a slow answer puts old keys into the cache. Correct: one session per
  flow, resting on a token made for that flow; a rotation costs nobody the sign-in.
- **Accounts.** A request authenticates in one transaction and acts in another; keys
  are revoked in between, by each other too. Correct: what a client was told stays
  true, revoked stays revoked, and who administers the organization is only passed on.
- **Start.** Workers migrate one database without a lock and may crash between a
  revision and its mark. Correct: a mark has its tables, every worker gets to
  serve, the set-up is closed once it is done.

The list with source lines is under "hazards" in `PROJECT.json`.

## 2. Modules

| Module | Kind | Models |
|---|---|---|
| `ApprovalGate` | component | the gate |
| `ApprovalQuorum` | abstract | one-step M-of-N voting |
| `ApprovalGateRefinement` | refinement | the gate without a PDP implements `ApprovalQuorum` |
| `ApprovalGateProofs` | proofs | theorems on `ApprovalGate` and its refinement |
| `ScimProvisioning` | composition | the SCIM routes in front of `ApprovalGate` |
| `ScimProvisioningProofs` | proofs | the theorem on `ScimProvisioning` |
| `AgentLifecycle` | tables | states, transitions, action targets |
| `AgentRegistry` | component | records, their blueprint, the handlers as transactions |
| `AgentRegistryProofs` | proofs | theorems on `AgentRegistry` |
| `SSFEmitter` | component | registry, queues, push delivery |
| `SSFEmitterProofs` | proofs | theorems on `SSFEmitter` |
| `SlidingWindow` | abstract | at most N admissions in a window |
| `RateLimiter` | component | both limiters and the choice between them, refining `SlidingWindow` |
| `RateLimiterProofs` | proofs | theorems on `RateLimiter` and its refinement |
| `OidcLogin` | component | sign-in through a provider, and the session tokens it issues |
| `OidcLoginProofs` | proofs | theorems on `OidcLogin` |
| `TenantAccess` | component | keys, sessions, providers, tuples of one organization, credentials and principals of its blueprint |
| `TenantAccessProofs` | proofs | theorems on `TenantAccess` |
| `Startup` | component | migrations and bootstrap |
| `StartupProofs` | proofs | theorems on `Startup` |
| `MCApprovalGate`, `MCAgentRegistry`, `MCSSFEmitter`, `MCOidcLogin`, `MCTenantAccess` | instances | symmetry and parameter values for TLC |

A definition whose comment says "Defective variant, for mutation" is used by no
specification. It is the form a plausible bug would give the definition after it;
substituted, it must break the property that `PROJECT.json` ("mutants") pairs it
with, which shows that the property depends on that code.

### ApprovalGate

The event loop runs one coroutine until an await suspends it, so each action is
the code between two awaits. Whether an await suspends depends on the settings:
without a PDP `check_access` returns at once, without a CAAS link the sync does, and
without a push receiver the delivery does. `loop` names the coroutine that goes
on in that case; nobody else may act until it is done or suspends.

| Variable | Code |
|---|---|
| `told` | answer of the POST that provisions the agent (`scim_router.py`) |
| `state` | phase of `create_approval_request`, then `req["state"]`; `lost` after a restart |
| `required`, `linked` | `required_approvals`; `caas_decision_id` is not None |
| `approvals` | `req["approvals"]`, each vote as the call that appended it |
| `overdue` | `time.time() > req["expires_at"]` |
| `pc`, `ballot`, `response` | per HTTP call: the await it is in, its body, its answer |
| `events` | announcements handed to the emitter |

`SubmitUnknown/Late/Decided/Repeated` are the early returns, in the order of the
code; `Submit` is the way to the PDP. `VoteDenied` and `RecordVote` follow the
PDP's answer, `Reject`, `Approve` and `CountOnly` the sync with CAAS, `Notified`
the delivery. `Restart` forgets the dictionary and drops the calls in progress.

### ScimProvisioning

EXTENDS the gate with the SCIM routes that do not reach it: `PostUngated`, the POST that
asks for no approval, and `Manage`, the routes on a created resource. A request of the
gate is named by the POST that creates it. What the client learns is the gate's variable `told`:
`create_approval_request` has no other caller and the POST awaits nothing else, so
the step that ends a creation also answers the POST. `Rows` is empty because
`scim/db.py` is stubs: they store nothing and find nothing, so those routes answer 404.

### AgentRegistry

A handler is a Begin step (load, check, decide) and a commit step. The snapshot in
`txn` is what the session loaded. `Flush(old, new, current)` is SQLAlchemy's
unit of work: a column is written only if the new value differs from the loaded
one, so two overlapping transactions can each leave some columns of one row.
`record_json` is one column; changing the loaded dictionary in place does not make
it differ, which `Disable` and `SetStatus` reflect by leaving it alone. The
deprovision route commits twice (`CommitDisabled`, `Refresh`,
`CommitDeprovisioned`), deprovision-all once per child (`LoadChild`,
`CommitChild`). `Abort` is a crash or an exception between any two commits.
The blueprint routes registered twice in `main.py` are modelled as they dispatch:
the first registration wins, so `/disable` and `/enable` are those of
`set_blueprint_status`.

Abstractions: one organization and one blueprint; the payload is reduced to
`lifecycle.state`, `agent.status` and whether it names the blueprint; a request
that fails its checks changes nothing and is no step; the activation gates are a
free choice except the one on quarantine, which reads modelled state; dates are
present or absent. Isolation is read committed at its weakest: reads of one
handler are one snapshot, and a commit does not see who wrote in between.

### SSFEmitter

The fan-out loop has no await, so `Emit` sees one state of the registry. Each push
is a small process (`phase`, `tries`): POST, then a pause even after the last
failure, and again up to three attempts. `PostFailed` leaves open whether the
receiver got the event. Push receivers that are deregistered meanwhile are still
posted to, because the coroutine holds the endpoint. `log`, `since`, `handed`
and `received` are history: emissions in order, where each receiver joined, what
its polls took, what reached it.

### Rate limiters

Time is discrete. `backend` is what `create_app` chose. The in-memory limiter keeps
ages instead of time stamps, and `Second`
ticks make a second so that the truncation of Retry-After shows. Its checks are
called from the middleware on the event loop and do not overlap. A check of the
Redis limiter is INCR and EXPIRE in one transaction, then TTL in a second command
if the counter is over the limit; either may fail, before or after it took effect,
and the request passes then (`PassUncounted`, `PassUnasked`). With Redis,
`admitted` is history: the admissions that Redis counted.

### OidcLogin

Each action of a callback is the code between two awaits: `CallbackAccepted` up
to the token endpoint, `TokenArrives`, `ServeKeys` (the provider answers) and `KeysArrive`
(the answer is read, any time later), the same for the second pass, then `IssueSession`.

| Variable | Code |
|---|---|
| `pending` | `_PENDING_FLOWS`; a state once popped or purged is `spent` |
| `startedFor` | history: the organization whose start route handed the flow out |
| `cache` | `_JWKS_CACHE` of the provider, empty when absent or past its time |
| `published`, `newest` | the provider: the keys it serves, the one it published last |
| `call` | per callback: the await it is in, its flow, organization, token, the keys on their way |
| `revoked` | `_REVOKED_JTIS` |
| `lapsed`, `introspected` | session tokens past exp; the last answer of introspection |

One provider, whose discovery document does not change. A token is its key, its
nonce and at most one flaw; the flaw "claims" stands for all that makes `jwt.decode` refuse the
contents, an `at_hash` included, since the code passes it no access token to compare. The router is modelled as it is written: in the application that
`create_app` assembles, its `GET /start` is shadowed by the one of `main.py:393`,
which stores no flow, so the properties speak of the router mounted by itself.

### TenantAccess

A request is `idle`, has looked its credential up (`LookUpKey`, `LookUpSession`, with the row as
`seen`), is `authenticated`, is between the read and the commit of its handler (`provider`,
`tuple`, `rotate`, `delete`), or is answered. `Touched` writes `last_used_at` only, which is
SQLAlchemy's unit of work again and the reason why a slow request does not undo a
revocation. The dependencies `require_api_key_admin` and `require_role` are the
operators `ApiKeyAdmin` and `AdminRole`. `Permitted` is `ensure_record_permission`.
Unique constraints make a second insert a 500, which the model answers by leaving
the row that is there. Credentials and principals of a blueprint (`asset`) share the guard
`require_role("admin", "writer")` (`WriterRole`) and are loaded in one step and written in another;
a rotation that read the row before a deletion writes its status only, so the row stays
deleted but reads "rotated".

### Startup

`worker[p]` walks through `migrate_database`: `CheckRevision`, `Inspect` (what the
inspector finds), `Change` (CREATE and ALTER in one transaction), `Mark`, each a
transaction of its own, for each of the four revisions. `Releases` are the
databases of earlier releases it may find. A worker that meets a table or a mark
made meanwhile dies with the exception and is started again. `BeginBootstrap` and
`InsertOrganization` are the check and the insert of `bootstrap_organization`.

## 3. Runs

The bounds are the sizes of the constants in the `.cfg` files and these caps on
counters: `MaxCount` (the Redis counter; beyond the limit its value makes no
difference), `MaxKeys` (keys a provider ever publishes), `MaxRestarts`,
`MaxCrashes`.

| Run | Instance | Shows |
|---|---|---|
| `gate` | SCIM in front of the gate: 1 request, 2 approvers, 2 calls, threshold 0-2, all awaits suspend, fair | counts, events, answers and votes agree; no decided request is reopened; every call is answered and a quorum is noticed; the provisioning client and the gate agree |
| `gate_serial` | 3 calls, no PDP | the gate refines `ApprovalQuorum`; distinct approvers, one announcement, final verdict |
| `gate_distinct` | 3 calls, with a PDP | violation, see section 6 |
| `registry` | 1 record, 2 threads, quarantine, delete, cascades | dates, trail and state agree under every overlap |
| `registry_serial` | 2 children, 1 thread | the table is followed, and who is blocked is not enabled |
| `ssf` | 1 receiver, 2 emissions, 2 types, fair | exact poll streams, three attempts for every push, an emission comes back |
| `rate` | 2 keys, 2 processes, a limit of 2 in 4 ticks, fair | both limiters refine `SlidingWindow`; Retry-After; readmission; counters end |
| `oidc` | 2 flows, 2 callbacks, 2 organizations, 2 keys, 1 restart | one session per flow, for the organization that started it and on a token of that flow; rotations tolerated |
| `oidc_introspect` | the same | violation, see section 6 |
| `access` | 2 keys, 1 session, 1 provider, 2 relations, 1 credential or principal, 2 requests | answers backed by the tables; revocation, deletion and lock-out final |
| `startup` | 2 workers, 3 bootstrap calls, 2 slugs, 2 crashes, 4 earlier releases, fair | marks have their tables; every worker serves; set-up closes |
| `startup_schema` | the same | violation, see section 6 |

Seven more configurations are kept beside these runs and are not among those of `PROJECT.json`.
Six show what else the code does that section 6 describes, by a counterexample; the seventh passes:

| Configuration | Module | Property |
|---|---|---|
| `MCApprovalGateVerdict.cfg` | `MCApprovalGate` | `VerdictFinal` fails with a PDP |
| `MCAgentRegistryOverlap.cfg` | `MCAgentRegistry` | `TransitionsLawful` fails with two threads |
| `MCAgentRegistryReregister.cfg` | `MCAgentRegistry` | `AuditedStateStands` fails with one thread |
| `MCAgentRegistryDeleted.cfg` | `MCAgentRegistry` | `DeletedIsFinal` fails with one thread |
| `MCOidcLoginIat.cfg` | `MCOidcLogin` | `IatInThePast` fails |
| `StartupBootstrap.cfg` | `Startup` | `BootstrapSingleUse` fails |
| `MCAgentRegistryCascade.cfg` | `MCAgentRegistry` | `RequestsEnd` holds: 2 children, 2 threads that register, deprovision and deprovision all, fair |

Why these sizes are enough. Two calls are enough for every overlap of a vote with
a decision, a deadline or another vote; a third, in the runs without a suspending
await or without liveness, lets one of two approvers vote twice beside the other.
Section 4 proves the safety properties of all runs for instances of any size; for them the
instances only need to be large enough that the mutants show. Requests are independent. Two threads are enough for an overlap on a row,
which is where the registry's transactions meet; three add only that somebody else
wrote last. Records interact only through
cascades, which two show. `CascadeSpec` restricts the clients of `MCAgentRegistryCascade.cfg` to registration
and the two ways of deprovisioning: every other request ends with its one commit, whatever others do,
while deprovision-all has one commit per child that the other thread may come between. Receivers share nothing: each has its queue, and the
tasks of one emission do not wait for each other before the gather; what one of
them sees of two emissions is what matters. Rate-limit identities are independent too.
Two callbacks meet on one flow or on the cache; two keys make one rotation, which is what a single
second pass can repair. Two requests meet on one row; the second key
lets one key revoke the other, and itself. Two workers meet on one revision,
and two crashes let each of them lose a mark once; the third bootstrap call comes
after two that overlapped. Approvers, calls, records, threads, flows, callbacks,
organizations and clients are only compared with each other, so the symmetry sets
are sound; no run with liveness uses them.

Fairness. Coroutines resume: the HTTP clients have timeouts (PDP and CAAS in
`config.py`, ten seconds in the emitter), the emitter stops after three attempts,
and asyncio runs whatever is ready. Threads commit: the pool schedules them and the
database answers, or the request aborts. Time passes. A worker process runs on, and one
that died is started again (`restart: unless-stopped`, compose.yml:18; `AllServe` depends on it:
a worker that loses a race dies). Nothing is assumed of
clients or receivers except in `Readmitted`, which is about a client that keeps
calling, nor are crashes assumed to happen or not to.

Deadlock is checked except in the runs of `OidcLogin`, `TenantAccess` and `Startup`,
whose systems may stop: all flows and restarts are used up, every
key is revoked and every session over, every worker serves and the set-up is closed.

## 4. Proofs

The eight `...Proofs` modules prove, for every value of the constants, every safety invariant,
every action property and both refinements that the passing runs check. What they assume
is in named assumptions of the modules, which TLC evaluates in each run:

- model values differ from the data they stand beside (`LoopAssumption`, `BallotAssumption`,
  `ModelValueAssumption`, `NobodyAssumption`, part of `BoundsAssumption` and `LimiterAssumption`);
- the calls of the gate are finitely many (`FiniteAssumption`), and CAAS comes with a PDP
  (`SettingsAssumption`, `pep_async.py:126`);
- clients use routed actions, roles and relations that exist (`ActionAssumption`,
  `RolesAssumption`, `RelationsAssumption`, `RootKeyAssumption`);
- limits, windows and the model's bounds are numbers of the right sign (`LimiterAssumption`,
  `BoundsAssumption`, `MaxCrashesAssumption`); a window is a whole number of seconds.

Two settings appear as hypotheses of theorems, because the property fails
without them: `~PdpConfigured` for the serial theorems of the gate, one thread
(`\A t, u \in Threads : t = u`) for those of the registry. Section 6 names what happens otherwise.

**Gate.** The invariant that carries the safety properties says, besides their
types, where each call stands in the ledger: a call in `checking` has no vote yet, one in
`syncing` or `notifying` has its vote on record, one that is done has it exactly when it was
answered with a state; a call that has voted has a ballot; a request holds
votes only once it is stored. Votes are only added until a restart clears them
together with the calls, so a quorum once reached is kept (by monotonicity of
`Cardinality` over finite sets), which gives `QuorumOfVotes` and
`OutcomeEventsBacked`. `NeverReopened` follows step by step, since only
creation leads to `pending`. For the serial theorems the assumption is
`~PdpConfigured`: the invariant then says that a call in `checking` or
`syncing` holds the loop, that its request is still pending, and that its approver has
no other vote, which is exactly the freshness that a suspending await destroys.

`QuorumSpecSerial` maps the gate to `ApprovalQuorum`. The mapping counts a vote not when it
is recorded but when its call counts (`Counted` leaves out the votes of calls in `syncing`), so
`RecordVote` is a stutter and `Reject`, `Approve` and `CountOnly` are the abstract vote. That
step needs the serial invariant twice: the counting call is the only one in
`syncing`, so the ledger holds the counted votes and its own; and the approvers in the ledger are
different people, so counting votes (the code) and counting people (the specification) agree.

**SCIM.** The routes leave the gate's invariant alone, which is reused as it is; added to it are what the
client was told in each phase of its request (`ToldOK`: nothing during the creation,
so that a restart there leaves it without an answer) and that an announcement, which outlives its
request, is about a client told to wait (`AnnouncedTold`). Without the second,
`ProvisioningBacked` is not inductive across a restart.

**Registry.** The invariant adds to the properties what each snapshot may know:
deprovisioned_at, once loaded as set, is set in the row (`SnapshotOK`, monotone), and a
request's target and operation fit together (`RequestOK`). Without it
`TombstoneDated` is not inductive: a transition that loaded a dated row writes no
date, and is right only because a date never goes away.
`RowsEvolve` shows per action how a row may change; `DatedForGood` is its corollary.

With one thread, a snapshot is more: it equals the row, except between the first commit of the
deprovision route and its `Refresh` (`Fresh`), and the validation made at the beginning still holds at
the commit (`StillAllowed`). From the first follows that a commit writes status and payload of
one state (`BlockedIsDisabledSerial`), from both `TransitionsLawfulSerial`. `BlockedIsDisabled` is about
the state as `agent_lifecycle_state` reads it. A record without a state in its payload is blocked by
its disabled status, which is what is claimed, or by its date; dates come with a state or a
disabled status, and only a registration parts them again, which is the one exception the property names.

**Emitter.** For each receiver the invariant bounds where it joined (`RegistryOK`) and says
that what polls took followed by what is queued is the due part of the log, each event once and in
order (`StreamOK`, with concatenation and suffixes of sequences as lemmas). For each push it relates the
phase to the POSTs that failed and arrived (`PushPhaseOK`): at most three, delivered only if one
arrived, given up only after three. An emission that is done has no push under way, which makes
`NobodyPassedOver` inductive.

**Rate limiters.** A deque holds ages in descending order, so there is one place where the window
cuts it (`OrderedHasCut`), and the loop of `popleft` and the abstract window both keep what is behind it
(`CutWindows`). For Redis, where the deque is history, the invariant relates it to the
counter: a counter that exists counts at least the admissions still in the window, and the time to
live it has left covers the age of each of them (`KeyOK`). With that each step maps to an
admission, a passing of time or a stutter of `SlidingWindow` (`SlidingLimitHolds`). `Within` and
`Popping` are defined by the place of the cut and not by a filter, because what a recursively
defined filter computes cannot be proved here.

**Sign-in.** A callback that is waiting for the provider, or has its session, has popped the
entry of its flow, which is spent for good, and is the only such callback of the flow; the stored entry
names the organization that started it, so the callback that popped it is that organization's (`FlowsOK`).
Past the validation its token is one made for the flow (`TokensOK`). For
`RotationTolerated`: keys are numbered in the order of publication and withdrawn for ever, so the
fresh answer on its way lacks the key of the token only if it has been withdrawn (`FreshOK`), whatever the
cache held.

**Accounts.** Rows are added and never removed, a revoked key or deleted asset stays so, tuples are
only added (`TablesGrow`, shown for each step). So a request between its transactions works on rows that
exist, whoever wrote meanwhile (`RequestOK`), and a reply once backed stays backed
(`AnswersBacked`). `LockoutPermanent` is proved step by step: `LockedOut` speaks of the active admin keys and of
the requests that carry one together, because a request that authenticated before the last key was revoked
may still create another; once neither is left, no session and no other key brings one back.

**Start.** Tables and marks only grow. A worker in `changing` will complete what its revision
stands for, and one in `marking` relies on a schema that has it (`WorkerBacked`); that a worker at one
revision has found the earlier ones marked is what makes the role upgrade find its
table (`MissingCompletes`). Hence `MarksBacked`, for any number of workers that crash and race.

Only model-checked: the liveness properties (`CallsReturn`, `QuorumDecides`, `RequestsEnd`,
`EmissionsEnd`, `Readmitted`, `AllServe`), which are out of the prover's reach.

## 5. Not modelled

- **SAML login.** The service provider's configuration is a stub without
  certificate, the start route answers 422, so no flow is ever stored; the ACS
  route is shadowed by `main.py:444`, which `TenantAccess` models as `CreateSession`.
- **Permissions, owners and sponsors of blueprints.** Several of these routes
  build rows with columns that the tables do not have or read attributes of dictionaries, and
  end in a 500 (owners and sponsors, inheritable permissions, consent grants,
  credentials in the payload of a creation, effective permissions). A model of what
  they would do is not a model of the code. The routes of credentials and principals, which work, are in
  `TenantAccess`.
- **SCIM resources.** What the routes would do with a stored row; there is none.
- **Decision endpoints**, **discovery documents**, static pages: stateless.
- **Webhooks** (`lifecycle.py:239`): called by no route.
- **Individual activation gates** of the lifecycle other than the one on
  quarantine: one nondeterministic outcome.
- Cryptography, XML signatures, HTTP and SQL engines: libraries, modelled by how the code
  uses them.
- The duplicate modules `app/oidc.py`, `saml.py`, `discovery.py`, `*_router.py` that
  `main.py` does not import, and the SDK.

## 6. Where code and documentation part

Each of these is a run with a violation and an entry under "findings".

1. Overlapping votes of one approver both count (`gate_distinct`): the check
   precedes the await of the PDP.
2. Introspection reports valid session tokens inactive (`oidc_introspect`):
   `_verify_token` names no audience and the tokens always carry one, so python-jose
   refuses them all; `/session/revoke` and `/session/logout` revoke nothing for the same
   reason, while `/token/revoke`, which reads the claims unverified, does.
3. A database of an earlier release is served without `agent_records.blueprint_id`
   (`startup_schema`): the function that adds the column is in no revision.

These have a configuration (section 3) with a counterexample.

4. A vote in flight is counted after the decision and may overturn it (`gate.py:156`,
   `MCApprovalGateVerdict.cfg`): an approval that was announced becomes a rejection, announced as
   well, though gate.py:123 refuses a vote on a decided request.
5. Two transitions of one record that overlap together make one that the table forbids
   (`lifecycle.py:219`, `MCAgentRegistryOverlap.cfg`): a deleted record is quarantined, since the
   table was asked before the deletion was committed, though "invalid transitions fail with `409 Conflict`"
   (docs/lifecycle-management.md:11). In such overlaps the columns mix, too, so
   `BlockedIsDisabled` is stated for one thread.
6. Registering a quarantined record again drops its lifecycle state (`services.py:782`,
   `MCAgentRegistryReregister.cfg`), without the lifecycle audit event that the same page promises
   for every transition.
7. The deprovision route validates no transition, and a deleted record becomes deprovisioned
   (`main.py:776`, `MCAgentRegistryDeleted.cfg`).
8. The second pass of the token validation leaves the check of iat out (`auth/oidc.py:301`,
   `MCOidcLoginIat.cfg`), which the comment at line 279 states.
9. Bootstrap is not single-use (`services.py:80`, `StartupBootstrap.cfg`): two calls that overlap
   and name different slugs both succeed, though docs/product-documentation.md says "only one"
   (line 119) and "single-use" (line 606). `SetUpCloses` is what remains: once an organization is
   there and no call is between its check and its insert, none is added.

Met while modelling and visible in the models, without a configuration of their own:

- a late vote turns a decided request expired, though reading its status takes
  care not to (`gate.py:120`, `gate.py:180`);
- `agent.status` in the payload is not disabled by deprovision-all: JSON changed in place is
  not written (`services.py:810`);
- a child of a disabled blueprint can be resumed;
- with Redis every check renews the time to live of the counter, so a client below the limit is
  refused if it never pauses for a whole window (`runtime.py:75`); in memory it is not;
- two overlapping upserts of a provider may leave columns of both, and a credential deleted while it
  was being rotated stays deleted but reads "rotated" (`services.py:616`);
- receivers live in a dictionary, not in the table `emitter.py:20` speaks of, and
  revoked token ids likewise; neither survives a restart.

## 7. Plan

1. Done: gate, SCIM, registry, emitter, limiters, sign-in, accounts, start.
2. Done: proofs of every safety property of the passing runs, the refinements included.
3. Proofs: what of the serial theorems survives overlaps, with the hypothesis they need (a PDP whose
   answers do not overlap for one request; threads that do not overlap on one record).
4. Compositions: gate with emitter (the announcement reaches the receivers), created_at
   against commit order in the lifecycle audit.
