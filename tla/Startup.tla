------------------------------- MODULE Startup -------------------------------
(***************************************************************************)
(* Start of the service and its first organization: migrate_database       *)
(* (migrations.py), which every worker process runs by itself when it      *)
(* creates the application, and the bootstrap route (services.py,          *)
(* main.py), which closes the set-up.                                      *)
(*                                                                         *)
(* Nothing locks the database between the workers: asking whether a        *)
(* revision is applied, inspecting the tables, changing them and marking   *)
(* the revision are four transactions.  A change that finds its table or   *)
(* column made meanwhile, and a mark that is there already, end the        *)
(* worker; it is started again.                                            *)
(*                                                                         *)
(* Limitations: the database rolls a failed transaction back, its changes  *)
(* of tables included (PostgreSQL); tables are grouped by the revision     *)
(* they came with.                                                         *)
(***************************************************************************)
EXTENDS Integers, FiniteSets

CONSTANTS
    Workers,     \* processes that create the application
    Bootstraps,  \* calls of POST /v1/bootstrap
    Slugs,       \* slugs they ask for
    MaxCrashes   \* bound: crashes of workers

ASSUME MaxCrashesAssumption == MaxCrashes \in Nat

VARIABLES
    schema,         \* the parts of the schema the database has
    marks,          \* schema_migrations
    worker,         \* worker[p]: where process p is in its start
    organizations,  \* slugs of the organizations table (unique)
    bootstrap,      \* bootstrap[b]: a bootstrap call
    crashes

vars == <<schema, marks, worker, organizations, bootstrap, crashes>>

\* "20260427_01", "20260429_01", "20260429_02", "20260504_01", in this order.
Revisions == 1 .. 4
RoleUpgrade == 2

\* accounts: organizations, api_keys and agent_records; keyColumns: role,
\* revoked_at and last_used_at of api_keys; sso: identity providers, sessions
\* and tuples; blueprints: the blueprint tables; blueprintLink: the column
\* blueprint_id of agent_records.
Parts == {"accounts", "keyColumns", "sso", "blueprints", "blueprintLink"}

\* What a database has once a revision is marked.
Effect(rev) == CASE rev = 1 -> {"accounts"} [] rev = 2 -> {"keyColumns"}
                 [] rev = 3 -> {"sso"} [] rev = 4 -> {"blueprints"}

\* Databases of earlier releases: their tables and marks.
Releases ==
    {[schema |-> {}, marks |-> {}],
     [schema |-> {"accounts"}, marks |-> {}],
     [schema |-> {"accounts", "keyColumns"}, marks |-> {1, 2}],
     [schema |-> {"accounts", "keyColumns", "sso"}, marks |-> {1, 2, 3}]}

Starts == [at : {"down", "serving"}]
            \cup [at : {"checking", "inspecting", "marking"}, rev : Revisions]
            \cup [at : {"changing"}, rev : Revisions, missing : SUBSET Parts]

Calls == [at : {"idle", "created", "refused", "failed", "lost"}]
           \cup [at : {"checked"}, slug : Slugs, in : Workers]

\* A worker past a revision leaves it marked, and a worker that changes tables
\* only adds parts of the schema.
TypeOK ==
    /\ schema \subseteq Parts /\ marks \subseteq Revisions
    /\ worker \in [Workers -> Starts]
    /\ \A p \in Workers : worker[p].at = "serving" => marks = Revisions
    /\ \A p \in Workers : worker[p].at \notin {"down", "serving"} => 1 .. worker[p].rev - 1 \subseteq marks
    /\ organizations \subseteq Slugs
    /\ bootstrap \in [Bootstraps -> Calls]
    /\ crashes \in 0 .. MaxCrashes

Init ==
    /\ \E old \in Releases : schema = old.schema /\ marks = old.marks
    /\ worker = [p \in Workers |-> [at |-> "down"]]
    /\ organizations = {}
    /\ bootstrap = [b \in Bootstraps |-> [at |-> "idle"]]
    /\ crashes = 0

tenantVars == <<organizations, bootstrap>>

-----------------------------------------------------------------------------
(* migrate_database.                                                       *)

\* The worker goes on to the revision after rev, or serves.
After(rev) == IF rev + 1 \in Revisions THEN [at |-> "checking", rev |-> rev + 1] ELSE [at |-> "serving"]

Start(p) ==
    /\ worker[p].at = "down"
    /\ worker' = [worker EXCEPT ![p] = [at |-> "checking", rev |-> 1]]
    /\ UNCHANGED <<schema, marks, tenantVars, crashes>>

\* Defective variant, for mutation: an unmarked revision is marked at once.
CheckRevisionMarking(p) ==
    /\ worker[p].at = "checking"
    /\ LET rev == worker[p].rev IN
          /\ worker' = [worker EXCEPT ![p] = IF rev \in marks THEN After(rev)
                                             ELSE [at |-> "inspecting", rev |-> rev]]
          /\ marks' = marks \cup {rev}
    /\ UNCHANGED <<schema, tenantVars, crashes>>

\* _revision_applied.
CheckRevision(p) ==
    /\ worker[p].at = "checking"
    /\ LET rev == worker[p].rev IN
          worker' = [worker EXCEPT ![p] = IF rev \in marks THEN After(rev)
                                          ELSE [at |-> "inspecting", rev |-> rev]]
    /\ UNCHANGED <<schema, marks, tenantVars, crashes>>

\* Metadata.create_all makes the tables that are missing, each with all the
\* columns of its model, and leaves existing tables alone.
MissingTables ==
    (IF "accounts" \in schema THEN {} ELSE {"accounts", "keyColumns", "blueprintLink"})
      \cup ({"sso", "blueprints"} \ schema)

\* Defective variant, for mutation: the columns are added without a look.
MissingUninspected(rev) ==
    IF rev = RoleUpgrade THEN {"keyColumns"} ELSE MissingTables

\* What the function of a revision finds missing: _api_key_role_upgrade looks
\* for columns of api_keys, the others for tables.
Missing(rev) ==
    IF rev # RoleUpgrade THEN MissingTables
    ELSE IF "accounts" \in schema THEN {"keyColumns"} \ schema ELSE {}

Inspect(p) ==
    /\ worker[p].at = "inspecting"
    /\ LET rev == worker[p].rev IN
          worker' = [worker EXCEPT ![p] = [at |-> "changing", rev |-> rev, missing |-> Missing(rev)]]
    /\ UNCHANGED <<schema, marks, tenantVars, crashes>>

\* CREATE TABLE and ALTER TABLE in one transaction, which fails when another
\* worker has made one of the parts since the inspection.
Change(p) ==
    /\ worker[p].at = "changing"
    /\ LET missing == worker[p].missing IN
          IF missing \cap schema # {}
          THEN worker' = [worker EXCEPT ![p] = [at |-> "down"]] /\ UNCHANGED schema
          ELSE /\ schema' = schema \cup missing
               /\ worker' = [worker EXCEPT ![p] = [at |-> "marking", rev |-> worker[p].rev]]
    /\ UNCHANGED <<marks, tenantVars, crashes>>

\* Defective variant, for mutation: the next revision is not looked at.
MarkAndServe(p) ==
    /\ worker[p].at = "marking"
    /\ marks' = marks \cup {worker[p].rev}
    /\ worker' = [worker EXCEPT ![p] = [at |-> "serving"]]
    /\ UNCHANGED <<schema, tenantVars, crashes>>

\* _mark_revision: the revision is the primary key.
Mark(p) ==
    /\ worker[p].at = "marking"
    /\ LET rev == worker[p].rev IN
          /\ marks' = marks \cup {rev}
          /\ worker' = [worker EXCEPT ![p] = IF rev \in marks THEN [at |-> "down"] ELSE After(rev)]
    /\ UNCHANGED <<schema, tenantVars, crashes>>

\* The calls in a worker end with it.
Crash(p) ==
    /\ worker[p].at # "down" /\ crashes < MaxCrashes
    /\ crashes' = crashes + 1
    /\ worker' = [worker EXCEPT ![p] = [at |-> "down"]]
    /\ bootstrap' = [b \in Bootstraps |->
                        IF bootstrap[b].at = "checked" /\ bootstrap[b].in = p THEN [at |-> "lost"]
                        ELSE bootstrap[b]]
    /\ UNCHANGED <<schema, marks, organizations>>

-----------------------------------------------------------------------------
(* bootstrap_organization: check that there is none, then insert one with  *)
(* its first key.                                                          *)

\* Defective variant, for mutation: the check asks for the slug.
Closed(slug) == slug \in organizations

SetUp(slug) == organizations # {}

BeginBootstrap(b, p, slug) ==
    /\ bootstrap[b].at = "idle" /\ worker[p].at = "serving"
    /\ bootstrap' = [bootstrap EXCEPT ![b] =
                        IF SetUp(slug) THEN [at |-> "refused"]
                        ELSE [at |-> "checked", slug |-> slug, in |-> p]]
    /\ UNCHANGED <<schema, marks, worker, organizations, crashes>>

\* The slug is unique.
Taken(slug) == slug \in organizations

\* The insert fails on the unique slug, uncaught, when an overlapping call
\* asked for the same; of different slugs both succeed.
InsertOrganization(b) ==
    /\ bootstrap[b].at = "checked"
    /\ organizations' = organizations \cup {bootstrap[b].slug}
    /\ bootstrap' = [bootstrap EXCEPT ![b] =
                        [at |-> IF Taken(bootstrap[b].slug) THEN "failed" ELSE "created"]]
    /\ UNCHANGED <<schema, marks, worker, crashes>>

-----------------------------------------------------------------------------
Step(p) == Start(p) \/ CheckRevision(p) \/ Inspect(p) \/ Change(p) \/ Mark(p)

Next ==
    \/ \E p \in Workers : Step(p) \/ Crash(p)
    \/ \E b \in Bootstraps :
          InsertOrganization(b) \/ \E p \in Workers, slug \in Slugs : BeginBootstrap(b, p, slug)

Spec == Init /\ [][Next]_vars

\* A process runs on, and one that ended is started again (compose.yml:18).
FairSpec == Spec /\ \A p \in Workers : WF_vars(Step(p))

-----------------------------------------------------------------------------
(* Properties.                                                             *)

\* A marked revision has taken effect, whichever workers raced for it and
\* wherever one crashed: a mark without its tables would never be repaired.
MarksBacked == \A rev \in marks : Effect(rev) \subseteq schema

\* Workers may end each other's start, but not for ever: each end is the work
\* of another, and a start interrupted between change and mark is taken up.
AllServe == <>[](\A p \in Workers : worker[p].at = "serving")

\* Calls that passed the check and have not inserted yet.
Bootstrapping == {b \in Bootstraps : bootstrap[b].at = "checked"}

\* Set-up closes for good: with an organization there and no call between its
\* check and its insert, no call, worker or restart adds another one.
SetUpCloses ==
    [][organizations # {} /\ Bootstrapping = {} => organizations' = organizations /\ Bootstrapping' = {}]_vars

\* What docs/product-documentation.md:119 says: "only one bootstrap operation is
\* allowed".
BootstrapSingleUse == Cardinality({b \in Bootstraps : bootstrap[b].at = "created"}) <= 1

\* What the documentation says: the migrations applied at startup bring the
\* database to the schema of the application that serves.
ServedSchemaComplete == (\E p \in Workers : worker[p].at = "serving") => schema = Parts

=============================================================================
