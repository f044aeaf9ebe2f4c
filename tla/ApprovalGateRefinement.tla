----------------------- MODULE ApprovalGateRefinement -----------------------
(***************************************************************************)
(* The gate implements ApprovalQuorum when no await of                     *)
(* submit_approval_decision suspends before the outcome is set, that is    *)
(* without a PDP.  The abstract vote happens when the call counts: a call  *)
(* that has appended its vote and not yet counted is not seen.             *)
(***************************************************************************)
EXTENDS ApprovalGate

CountedVotes(r) ==
    {[approver |-> ballot[c].approver, decision |-> ballot[c].decision] :
        c \in {k \in approvals[r] : pc[k] # "syncing"}}

AbstractOutcome(s) == IF s \in Creating THEN "proposed" ELSE s

Outcome == [r \in Requests |-> AbstractOutcome(state[r])]

Counted == [r \in Requests |-> CountedVotes(r)]

Quorum == INSTANCE ApprovalQuorum WITH
    outcome <- Outcome, threshold <- required, votes <- Counted

\* Every behaviour of the gate without a PDP is a behaviour of the one-step
\* voting of ApprovalQuorum: one vote a person, rejection at once, approval by
\* the vote that reaches the threshold, nothing counted after the verdict.
QuorumSpec == Quorum!QSpec

=============================================================================
