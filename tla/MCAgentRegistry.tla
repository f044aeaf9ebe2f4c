--------------------------- MODULE MCAgentRegistry ---------------------------
(***************************************************************************)
(* Model-checking instances of AgentRegistry.  Records and threads are     *)
(* only compared, so permuting them is sound.                              *)
(***************************************************************************)
EXTENDS AgentRegistry, TLC

Symmetry == Permutations(Records) \cup Permutations(Threads)

\* A body of a child of the blueprint that also declares its row.
ChildPayload == {[agent |-> "active", child |-> TRUE, declares |-> TRUE]}

\* A resume and a transition that blocks.
OperatorActions == {"resume", "quarantine"}
\* The way of a blueprint to the cascade over its children.
CascadeActions == {"activate", "deprovision_children"}

\* Clients that only register and deprovision, singly or all children of the
\* blueprint.  Every other request ends with its one commit; deprovision-all has
\* a number of commits that other threads might keep from coming to an end.
CascadeOps == {"upsert", "deprovision", "refresh", "mark_deprovisioned", "deprovision_all"}

CascadeNext == Next /\ \A t \in Threads : txn'[t] # Idle => txn'[t].op \in CascadeOps

CascadeSpec == Init /\ [][CascadeNext]_vars /\ Fairness

=============================================================================
