--------------------------- MODULE AgentLifecycle ---------------------------
(***************************************************************************)
(* The lifecycle tables of src/app/lifecycle.py: the states of agent       *)
(* records and blueprints, the transitions allowed between them, and the   *)
(* state each routed action leads to.                                      *)
(***************************************************************************)

AgentStates ==
    {"draft", "pending_review", "approved", "active", "suspended", "quarantined",
     "credentials_expired", "pending_rotation", "pending_renewal",
     "deprovisioning", "deprovisioned", "archived", "deleted"}

BlueprintStates ==
    {"draft", "active", "disabled", "deprecated", "quarantined",
     "deprovisioning", "deprovisioned", "archived", "deleted"}

AgentTransitions ==
    [draft               |-> {"pending_review", "approved", "active", "archived", "deleted"},
     pending_review      |-> {"approved", "draft", "quarantined", "archived", "deleted"},
     approved            |-> {"active", "pending_review", "archived", "deleted"},
     active              |-> {"suspended", "quarantined", "credentials_expired",
                              "pending_rotation", "pending_renewal", "deprovisioning",
                              "archived"},
     suspended           |-> {"active", "quarantined", "pending_renewal",
                              "deprovisioning", "archived"},
     quarantined         |-> {"suspended", "active", "deprovisioning", "archived"},
     credentials_expired |-> {"pending_rotation", "pending_renewal", "suspended",
                              "deprovisioning"},
     pending_rotation    |-> {"active", "suspended", "quarantined", "deprovisioning"},
     pending_renewal     |-> {"active", "suspended", "quarantined", "deprovisioning"},
     deprovisioning      |-> {"deprovisioned", "suspended"},
     deprovisioned       |-> {"archived"},
     archived            |-> {"deleted"},
     deleted             |-> {}]

BlueprintTransitions ==
    [draft          |-> {"active", "archived", "deleted"},
     active         |-> {"disabled", "deprecated", "quarantined", "deprovisioning", "archived"},
     disabled       |-> {"active", "deprecated", "deprovisioning", "archived"},
     deprecated     |-> {"disabled", "deprovisioning", "archived"},
     quarantined    |-> {"disabled", "active", "deprovisioning"},
     deprovisioning |-> {"deprovisioned", "disabled"},
     deprovisioned  |-> {"archived"},
     archived       |-> {"deleted"},
     deleted        |-> {}]

\* The actions that have a route; DELETE is the forced action "delete".
AgentActionTargets ==
    [submit_review |-> "pending_review", approve |-> "approved",
     activate |-> "active", suspend |-> "suspended", resume |-> "active",
     quarantine |-> "quarantined", renew |-> "pending_renewal",
     rotate_credentials |-> "pending_rotation", archive |-> "archived",
     delete |-> "deleted"]

\* The routes of disable and enable belong to set_blueprint_status.
BlueprintActionTargets ==
    [activate |-> "active", deprecate |-> "deprecated", quarantine |-> "quarantined",
     deprovision_children |-> "deprovisioning", archive |-> "archived"]

\* validate_transition lets it pass.
Allowed(transitions, previous, new, force) ==
    previous = new \/ new \in transitions[previous] \/ force

\* States that close a record: deprovisioned_at is set with them.
Tombstones == {"deprovisioned", "archived", "deleted"}

\* States that disable the status column.
Blocked == {"suspended", "quarantined", "deprovisioning"} \cup Tombstones

=============================================================================
