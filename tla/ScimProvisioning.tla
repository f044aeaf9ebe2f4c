-------------------------- MODULE ScimProvisioning --------------------------
(***************************************************************************)
(* SCIM provisioning of agents in front of the approval gate: the routes   *)
(* of routers/scim_router.py over scim/db.py.                              *)
(*                                                                         *)
(* POST /AgenticIdentities answers at once when no human approval is asked *)
(* for, and otherwise runs create_approval_request of the gate inside the  *)
(* request: told, of the gate, is what the client learns.  The database    *)
(* layer is a stub that stores nothing and finds nothing, so every route   *)
(* on a created resource answers 404.                                      *)
(*                                                                         *)
(* A request of the gate is named by the POST that creates it; a POST that *)
(* needs no approval never appears in the gate.                            *)
(***************************************************************************)
EXTENDS ApprovalGate

\* get_agent_record and list_agent_records find no row, and nothing updates or
\* deletes one: the functions are stubs.
Rows == {}

\* POST with requiresHumanApproval false: 201, status Active, no gate.
PostUngated(r) ==
    /\ loop = Free
    /\ state[r] = "absent" /\ told[r] = "none"
    /\ told' = [told EXCEPT ![r] = "active"]
    /\ UNCHANGED <<state, required, approvals, linked, overdue, callVars, events, loop>>

\* GET, PUT, PATCH and DELETE look the resource up and answer 404; with a row
\* PATCH and DELETE would go on to write it and to emit events.
Manage(r) ==
    /\ loop = Free
    /\ told[r] \in {"active", "pending"} /\ r \notin Rows
    /\ told' = [told EXCEPT ![r] = "missing"]
    /\ UNCHANGED <<state, required, approvals, linked, overdue, callVars, events, loop>>

ScimNext ==
    \/ Next
    \/ \E r \in Requests : PostUngated(r) \/ Manage(r)

\* Fairness is that of the gate: clients are under no obligation.
ScimSpec == Init /\ [][ScimNext]_vars /\ \A c \in Calls : WF_vars(ResumeStep(c))

-----------------------------------------------------------------------------
\* The provisioning client and the gate agree to the end: whose request can be
\* voted on was told to wait, who was told so has a request until the process
\* ends, who was refused or let in at once has none, and no vote or
\* announcement concerns an agent whose client was told anything else.
ProvisioningBacked ==
    \A r \in Requests :
       /\ state[r] \in Stored => told[r] \in {"pending", "missing"}
       /\ told[r] = "pending" => state[r] \in Stored \cup {"lost"}
       /\ told[r] = "forbidden" <=> state[r] = "refused"
       /\ told[r] = "active" => state[r] = "absent"
       /\ approvals[r] # {} \/ (\E e \in events : e.request = r) => told[r] \in {"pending", "missing"}

=============================================================================
