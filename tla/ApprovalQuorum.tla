--------------------------- MODULE ApprovalQuorum ---------------------------
(***************************************************************************)
(* What the approval gate promises: each person has one vote per request,  *)
(* a rejection rejects at once, and a vote that brings the approvals to    *)
(* the threshold approves.  A vote takes effect in a single step.          *)
(***************************************************************************)
EXTENDS Integers, FiniteSets

CONSTANTS Requests, Approvers, Thresholds

VARIABLES
    outcome,    \* per request
    threshold,  \* per request: how many people must approve
    votes       \* per request: who voted what

qvars == <<outcome, threshold, votes>>

Votes == [approver : Approvers, decision : {"approve", "reject", "other"}]

Supporters(ballots) ==
    {v.approver : v \in {w \in ballots : w.decision = "approve"}}

QInit ==
    /\ outcome = [r \in Requests |-> "absent"]
    /\ threshold = [r \in Requests |-> 0]
    /\ votes = [r \in Requests |-> {}]

Propose(r, m) ==
    /\ outcome[r] = "absent"
    /\ outcome' = [outcome EXCEPT ![r] = "proposed"]
    /\ threshold' = [threshold EXCEPT ![r] = m]
    /\ UNCHANGED votes

Admit(r, admitted) ==
    /\ outcome[r] = "proposed"
    /\ outcome' = [outcome EXCEPT ![r] = IF admitted THEN "pending" ELSE "refused"]
    /\ UNCHANGED <<threshold, votes>>

Vote(r, v) ==
    /\ outcome[r] = "pending"
    /\ v.approver \notin {w.approver : w \in votes[r]}
    /\ votes' = [votes EXCEPT ![r] = @ \cup {v}]
    /\ outcome' = [outcome EXCEPT ![r] =
           IF v.decision = "reject" THEN "rejected"
           ELSE IF Cardinality(Supporters(votes'[r])) >= threshold[r]
                THEN "approved" ELSE "pending"]
    /\ UNCHANGED threshold

\* The gate lets an expiry overtake a verdict.
Expire(r) ==
    /\ outcome[r] \in {"pending", "approved", "rejected"}
    /\ outcome' = [outcome EXCEPT ![r] = "expired"]
    /\ UNCHANGED <<threshold, votes>>

\* All requests live in memory only.
Forget ==
    /\ outcome' = [r \in Requests |->
           IF outcome[r] \in {"absent", "refused"} THEN outcome[r] ELSE "lost"]
    /\ votes' = [r \in Requests |-> {}]
    /\ UNCHANGED threshold

QNext ==
    \/ \E r \in Requests :
        \/ \E m \in Thresholds : Propose(r, m)
        \/ \E admitted \in BOOLEAN : Admit(r, admitted)
        \/ \E v \in Votes : Vote(r, v)
        \/ Expire(r)
    \/ Forget

QSpec == QInit /\ [][QNext]_qvars

=============================================================================
