---------------------------- MODULE ApprovalGate ----------------------------
(***************************************************************************)
(* The M-of-N human approval gate of src/app/approval/gate.py.             *)
(*                                                                         *)
(* The gate is a dictionary of approval requests in the memory of one      *)
(* process, worked on by coroutines of one asyncio event loop.  A          *)
(* coroutine loses the loop only at an await that really suspends, so an   *)
(* action is the code between two awaits, and the variable loop names the  *)
(* coroutine that still holds the event loop because the await it reached  *)
(* returned at once (no PDP configured, no CAAS decision to sync with, no  *)
(* push receiver to deliver to).                                           *)
(*                                                                         *)
(* A call is one HTTP request POST /v1/approvals/{id}/decisions.  A vote   *)
(* in req["approvals"] is named by the call that appended it.              *)
(***************************************************************************)
EXTENDS Integers, FiniteSets

CONSTANTS
    Requests,        \* ids of approval requests (uuid4, never reused)
    Approvers,       \* approver_id of a vote
    Calls,           \* HTTP requests that submit a decision
    Thresholds,      \* values of required_approvals that clients ask for
    Free,            \* nobody holds the event loop
    NoBallot,        \* the call has not been made yet
    PdpConfigured,   \* settings give a PDP url: check_access awaits an answer
    FailOpen,        \* AUTHZEN_FAIL_OPEN
    CaasConfigured,  \* settings.caas_api_gateway_url is set
    PushReceivers    \* some subscribed SSF receiver is in push mode

\* The decision field is a free string; gate.py tells "approve" and "reject"
\* from every other word.
Decisions == {"approve", "reject", "other"}

Ballots == [request : Requests, approver : Approvers, decision : Decisions]

ASSUME LoopAssumption ==
    /\ Free \notin Calls \cup Requests
    /\ Calls \cap Requests = {}

ASSUME BallotAssumption == NoBallot \notin Ballots

ASSUME FiniteAssumption == IsFiniteSet(Calls) /\ Thresholds \subseteq Int

\* AsyncPEPClient takes the CAAS url when it has no url of its own, so a
\* configured CAAS is also a configured PDP.
ASSUME SettingsAssumption ==
    /\ {PdpConfigured, FailOpen, CaasConfigured, PushReceivers} \subseteq BOOLEAN
    /\ CaasConfigured => PdpConfigured

VARIABLES
    state,      \* per request: how far its creation is, then req["state"]
    told,       \* per request: what the client that provisions its agent was told
    required,   \* per request: req["required_approvals"]
    approvals,  \* per request: req["approvals"], as the calls that voted
    linked,     \* per request: req["caas_decision_id"] is not None
    overdue,    \* per request: time.time() > req["expires_at"]
    pc,         \* per call: the await it is suspended in
    ballot,     \* per call: the decision it submits
    response,   \* per call: what the client was told
    events,     \* SSF events handed to the delivery engine
    loop        \* the coroutine that holds the event loop

vars == <<state, told, required, approvals, linked, overdue,
          pc, ballot, response, events, loop>>
reqVars == <<told, required, approvals, linked, overdue>>
callVars == <<pc, ballot, response>>

----------------------------------------------------------------------------
(* ApprovalState, and the phases before a request is in the dictionary or  *)
(* after the process that held it has gone.                                *)

Decided == {"approved", "rejected", "expired"}
Stored == {"pending"} \cup Decided
Creating == {"authorizing", "linking"}
States == {"absent", "refused", "lost"} \cup Creating \cup Stored

\* create_approval_request runs inside the POST that provisions the agent: the
\* client is told to wait, is refused, or never hears.  "active" and "missing"
\* come from routes that do not reach the gate (ScimProvisioning).
Tidings == {"none", "pending", "forbidden", "dropped", "active", "missing"}

Refusals == {"404", "410", "409", "403"}
Responses == {"none", "dropped"} \cup Refusals \cup Stored

Suspended == {"checking", "syncing", "notifying"}

\* What the PDP may answer to check_access.  "deny_fail_open" is a denial
\* whose reason ends in fail_open; "error" any exception, timeouts included.
PdpAnswers == IF PdpConfigured
              THEN {"permit", "deny", "deny_fail_open", "error"}
              ELSE {"not_configured"}

\* decision.denied and not reason.endswith("fail_open") is the refusal.
Passes(answer) ==
    \/ answer \in {"permit", "deny_fail_open"}
    \/ answer \in {"error", "not_configured"} /\ FailOpen

Voters(r) == {ballot[c].approver : c \in approvals[r]}

ApproveVotes(votes) == {c \in votes : ballot[c].decision = "approve"}

Event(kind, r, c) == [kind |-> kind, request |-> r, by |-> c]
Events == [kind : {"activated", "deprovisioned"}, request : Requests, by : Calls]

CanRun(coroutine) == loop \in {Free, coroutine}

Return(c, answer) ==
    /\ pc' = [pc EXCEPT ![c] = "done"]
    /\ response' = [response EXCEPT ![c] = answer]
    /\ loop' = Free

----------------------------------------------------------------------------
Init ==
    /\ state = [r \in Requests |-> "absent"]
    /\ told = [r \in Requests |-> "none"]
    /\ required = [r \in Requests |-> 0]
    /\ approvals = [r \in Requests |-> {}]
    /\ linked = [r \in Requests |-> FALSE]
    /\ overdue = [r \in Requests |-> FALSE]
    /\ pc = [c \in Calls |-> "idle"]
    /\ ballot = [c \in Calls |-> NoBallot]
    /\ response = [c \in Calls |-> "none"]
    /\ events = {}
    /\ loop = Free

----------------------------------------------------------------------------
(* create_approval_request: PROVISION check, CAAS decision, then the entry *)
(* appears in the dictionary in one step.                                  *)

CreateRequest(r, m) ==
    /\ loop = Free
    /\ state[r] = "absent" /\ told[r] = "none"
    /\ state' = [state EXCEPT ![r] = "authorizing"]
    /\ required' = [required EXCEPT ![r] = m]
    /\ loop' = IF PdpConfigured THEN Free ELSE r
    /\ UNCHANGED <<told, approvals, linked, overdue, callVars, events>>

AfterCheck(answer) ==
    IF ~Passes(answer) THEN "refused"
    ELSE IF CaasConfigured THEN "linking" ELSE "pending"

\* Defective variant, for mutation: the refusal does not reach the client, as
\* the failures of CAAS do not.
AuthorizeCreateRegardless(r, answer) ==
    /\ CanRun(r)
    /\ state[r] = "authorizing"
    /\ state' = [state EXCEPT ![r] = AfterCheck(answer)]
    /\ told' = [told EXCEPT ![r] = IF state'[r] = "linking" THEN @ ELSE "pending"]
    /\ loop' = Free
    /\ UNCHANGED <<required, approvals, linked, overdue, callVars, events>>

AuthorizeCreate(r, answer) ==
    /\ CanRun(r)
    /\ state[r] = "authorizing"
    /\ state' = [state EXCEPT ![r] = AfterCheck(answer)]
    /\ told' = [told EXCEPT ![r] =
           IF state'[r] = "refused" THEN "forbidden"
           ELSE IF state'[r] = "linking" THEN @ ELSE "pending"]
    /\ loop' = Free
    /\ UNCHANGED <<required, approvals, linked, overdue, callVars, events>>

\* _create_caas_decision: any failure leaves the request local-only.
LinkCaas(r, created) ==
    /\ loop = Free
    /\ state[r] = "linking"
    /\ state' = [state EXCEPT ![r] = "pending"]
    /\ told' = [told EXCEPT ![r] = "pending"]
    /\ linked' = [linked EXCEPT ![r] = created]
    /\ UNCHANGED <<required, approvals, overdue, callVars, events, loop>>

\* expires_at goes by: from now on time.time() > req["expires_at"].
DeadlinePasses(r) ==
    /\ state[r] \in Stored
    /\ ~overdue[r]
    /\ overdue' = [overdue EXCEPT ![r] = TRUE]
    /\ UNCHANGED <<state, told, required, approvals, linked, callVars, events, loop>>

\* get_approval_status is the other place that turns a request expired.
GetStatus(r) ==
    /\ loop = Free
    /\ state[r] = "pending" /\ overdue[r]
    /\ state' = [state EXCEPT ![r] = "expired"]
    /\ UNCHANGED <<reqVars, callVars, events, loop>>

----------------------------------------------------------------------------
(* submit_approval_decision, up to its first await.                        *)

Refuse(c, b, answer) ==
    /\ loop = Free
    /\ pc[c] = "idle"
    /\ ballot' = [ballot EXCEPT ![c] = b]
    /\ Return(c, answer)
    /\ UNCHANGED <<reqVars, events>>

SubmitUnknown(c, b) ==
    /\ state[b.request] \notin Stored
    /\ Refuse(c, b, "404")
    /\ UNCHANGED state

\* The deadline is looked at before the state: whatever the state was, the
\* request is expired now.
SubmitLate(c, b) ==
    /\ state[b.request] \in Stored
    /\ overdue[b.request]
    /\ Refuse(c, b, "410")
    /\ state' = [state EXCEPT ![b.request] = "expired"]

SubmitDecided(c, b) ==
    /\ state[b.request] \in Decided
    /\ ~overdue[b.request]
    /\ Refuse(c, b, "409")
    /\ UNCHANGED state

SubmitRepeated(c, b) ==
    /\ state[b.request] = "pending"
    /\ ~overdue[b.request]
    /\ b.approver \in Voters(b.request)
    /\ Refuse(c, b, "409")
    /\ UNCHANGED state

\* The call goes on to ask the PDP whether the approver may vote.
Ask(c, b) ==
    /\ loop = Free
    /\ pc[c] = "idle"
    /\ ballot' = [ballot EXCEPT ![c] = b]
    /\ pc' = [pc EXCEPT ![c] = "checking"]
    /\ loop' = IF PdpConfigured THEN Free ELSE c
    /\ UNCHANGED <<state, reqVars, response, events>>

\* Defective variants, for mutation: the check for an earlier vote of the
\* approver, or the check of the state, is forgotten.
SubmitUndeduplicated(c, b) ==
    state[b.request] = "pending" /\ ~overdue[b.request] /\ Ask(c, b)

SubmitWhateverState(c, b) ==
    /\ state[b.request] \in Stored /\ ~overdue[b.request]
    /\ b.approver \notin Voters(b.request)
    /\ Ask(c, b)

Submit(c, b) ==
    /\ state[b.request] = "pending"
    /\ ~overdue[b.request]
    /\ b.approver \notin Voters(b.request)
    /\ Ask(c, b)

----------------------------------------------------------------------------
(* submit_approval_decision, after its awaits.  Nothing that was checked   *)
(* before the PDP was asked is looked at again.                            *)

\* Defective variant, for mutation: the vote is appended before the PDP's
\* answer is looked at.
VoteDeniedAfterAppend(c, answer) ==
    /\ CanRun(c)
    /\ pc[c] = "checking"
    /\ ~Passes(answer)
    /\ approvals' = [approvals EXCEPT ![ballot[c].request] = @ \cup {c}]
    /\ Return(c, "403")
    /\ UNCHANGED <<state, told, required, linked, overdue, ballot, events>>

VoteDenied(c, answer) ==
    /\ CanRun(c)
    /\ pc[c] = "checking"
    /\ ~Passes(answer)
    /\ Return(c, "403")
    /\ UNCHANGED <<state, reqVars, ballot, events>>

RecordVote(c, answer) ==
    LET r == ballot[c].request IN
    /\ CanRun(c)
    /\ pc[c] = "checking"
    /\ Passes(answer)
    /\ approvals' = [approvals EXCEPT ![r] = @ \cup {c}]
    /\ pc' = [pc EXCEPT ![c] = "syncing"]
    /\ loop' = IF linked[r] THEN Free ELSE c
    /\ UNCHANGED <<state, told, required, linked, overdue, ballot, response, events>>

\* _sync_decision_to_caas is over (its failures are swallowed): the votes
\* present now are counted.
Counting(c) == CanRun(c) /\ pc[c] = "syncing"

QuorumReached(r) == Cardinality(ApproveVotes(approvals[r])) >= required[r]

\* The outcome is set and announced in one go.
Decide(c, verdict, kind) ==
    LET r == ballot[c].request IN
    /\ state' = [state EXCEPT ![r] = verdict]
    /\ events' = events \cup {Event(kind, r, c)}
    /\ pc' = [pc EXCEPT ![c] = "notifying"]
    /\ loop' = IF PushReceivers THEN Free ELSE c
    /\ UNCHANGED <<reqVars, ballot, response>>

\* Defective variants, for mutation: the state becomes the word of the vote;
\* any word but "approve" rejects.
RejectWithVoteWord(c) ==
    Counting(c) /\ ballot[c].decision = "reject" /\ Decide(c, "reject", "deprovisioned")

RejectUnlessApprove(c) ==
    Counting(c) /\ ballot[c].decision # "approve" /\ Decide(c, "rejected", "deprovisioned")

Reject(c) ==
    /\ Counting(c)
    /\ ballot[c].decision = "reject"
    /\ Decide(c, "rejected", "deprovisioned")

\* Defective variants, for mutation: every vote counts as an approval; the
\* request is approved only when the count hits the threshold exactly.
ApproveOnAnyVotes(c) ==
    /\ Counting(c)
    /\ ballot[c].decision # "reject"
    /\ Cardinality(approvals[ballot[c].request]) >= required[ballot[c].request]
    /\ Decide(c, "approved", "activated")

ApproveOnExactCount(c) ==
    LET r == ballot[c].request IN
    /\ Counting(c)
    /\ ballot[c].decision # "reject"
    /\ QuorumReached(r)
    /\ IF Cardinality(ApproveVotes(approvals[r])) = required[r]
       THEN Decide(c, "approved", "activated")
       ELSE Return(c, state[r]) /\ UNCHANGED <<state, reqVars, ballot, events>>

Approve(c) ==
    /\ Counting(c)
    /\ ballot[c].decision # "reject"
    /\ QuorumReached(ballot[c].request)
    /\ Decide(c, "approved", "activated")

\* Defective variant, for mutation: the state is written back as pending.
CountOnlyReopening(c) ==
    /\ Counting(c)
    /\ ballot[c].decision # "reject"
    /\ ~QuorumReached(ballot[c].request)
    /\ state' = [state EXCEPT ![ballot[c].request] = "pending"]
    /\ Return(c, "pending")
    /\ UNCHANGED <<reqVars, ballot, events>>

CountOnly(c) ==
    /\ Counting(c)
    /\ ballot[c].decision # "reject"
    /\ ~QuorumReached(ballot[c].request)
    /\ Return(c, state[ballot[c].request])
    /\ UNCHANGED <<state, reqVars, ballot, events>>

\* Defective variant, for mutation: push delivery retries without a limit.
NotifiedOnlyIfDelivered(c) ==
    /\ CanRun(c)
    /\ pc[c] = "notifying"
    /\ ~PushReceivers
    /\ Return(c, state[ballot[c].request])
    /\ UNCHANGED <<state, reqVars, ballot, events>>

\* The response carries the state the request has when delivery is over.
Notified(c) ==
    /\ CanRun(c)
    /\ pc[c] = "notifying"
    /\ Return(c, state[ballot[c].request])
    /\ UNCHANGED <<state, reqVars, ballot, events>>

----------------------------------------------------------------------------
\* The process ends and starts again: _APPROVAL_REQUESTS and every coroutine
\* are gone.
Restart ==
    /\ state' = [r \in Requests |->
           IF state[r] \in Stored \cup Creating THEN "lost" ELSE state[r]]
    /\ told' = [r \in Requests |-> IF state[r] \in Creating THEN "dropped" ELSE told[r]]
    /\ approvals' = [r \in Requests |-> {}]
    /\ pc' = [c \in Calls |-> IF pc[c] \in Suspended THEN "done" ELSE pc[c]]
    /\ response' = [c \in Calls |->
           IF pc[c] \in Suspended THEN "dropped" ELSE response[c]]
    /\ loop' = Free
    /\ UNCHANGED <<required, linked, overdue, ballot, events>>

CreateStep(r) ==
    \/ \E m \in Thresholds : CreateRequest(r, m)
    \/ \E answer \in PdpAnswers : AuthorizeCreate(r, answer)
    \/ \E created \in BOOLEAN : LinkCaas(r, created)
    \/ DeadlinePasses(r)
    \/ GetStatus(r)

SubmitStep(c) == \E b \in Ballots :
    \/ SubmitUnknown(c, b)
    \/ SubmitLate(c, b)
    \/ SubmitDecided(c, b)
    \/ SubmitRepeated(c, b)
    \/ Submit(c, b)

ResumeStep(c) ==
    \/ \E answer \in PdpAnswers : VoteDenied(c, answer) \/ RecordVote(c, answer)
    \/ Reject(c)
    \/ Approve(c)
    \/ CountOnly(c)
    \/ Notified(c)

Next ==
    \/ \E r \in Requests : CreateStep(r)
    \/ \E c \in Calls : SubmitStep(c) \/ ResumeStep(c)
    \/ Restart

Spec == Init /\ [][Next]_vars

\* Every await of a call ends: the PDP and CAAS clients have timeouts, push
\* delivery gives up after three attempts, and the event loop runs every
\* ready coroutine.  Clients and crashes are under no obligation.
FairSpec == Spec /\ \A c \in Calls : WF_vars(ResumeStep(c))

----------------------------------------------------------------------------
(* Properties.                                                             *)

\* The type invariant of the gate's dictionary, calls and announcements.
TypeOK ==
    /\ state \in [Requests -> States]
    /\ told \in [Requests -> Tidings]
    /\ required \in [Requests -> Int]
    /\ approvals \in [Requests -> SUBSET Calls]
    /\ linked \in [Requests -> BOOLEAN]
    /\ overdue \in [Requests -> BOOLEAN]
    /\ pc \in [Calls -> {"idle", "done"} \cup Suspended]
    /\ ballot \in [Calls -> Ballots \cup {NoBallot}]
    /\ response \in [Calls -> Responses]
    /\ events \subseteq Events
    /\ loop \in Calls \cup Requests \cup {Free}

\* However calls interleave, a request is approved only while at least
\* required_approvals "approve" votes are on record (gate.py:154-160).  Votes
\* of the same person count as often as they were recorded: see DistinctQuorum.
QuorumOfVotes ==
    \A r \in Requests : state[r] = "approved" => QuorumReached(r)

\* No announcement without its ground: an activation event (_on_approved) of a
\* request still on record is backed by a quorum of approve votes, and a
\* deprovisioning event (_on_rejected) by the recorded reject vote of the very
\* call that sent it, even if the state was overwritten since.
OutcomeEventsBacked ==
    \A e \in events : state[e.request] \in Stored =>
        /\ e.by \in approvals[e.request]
        /\ e.kind = "activated" => QuorumReached(e.request)
        /\ e.kind = "deprovisioned" => ballot[e.by].decision = "reject"

\* What a client is told agrees with the ledger: a finished call got a state
\* back (HTTP 200) exactly when its vote is in req["approvals"], and an error
\* when it is not, whatever happened during the two awaits in between.
AnswerMatchesLedger ==
    \A c \in Calls : ballot[c] # NoBallot =>
        LET r == ballot[c].request IN
        state[r] \in Stored /\ pc[c] = "done" =>
            (c \in approvals[r] <=> response[c] \in Stored)

\* Once approved, rejected or expired, a request is never pending again: late
\* resumptions of calls that saw it pending do not reopen it.
NeverReopened ==
    [][\A r \in Requests :
         state[r] \in Decided => state'[r] \in Decided \cup {"lost"}]_vars

\* M distinct people: an approved request has "approve" votes of at least
\* required_approvals different approvers ("dedup, threshold", gate.py:10).
DistinctQuorum ==
    \A r \in Requests : state[r] = "approved" =>
        Cardinality({ballot[c].approver : c \in ApproveVotes(approvals[r])})
            >= required[r]

\* The outcome of a request is announced at most once over SSF, and never both
\* as an activation and as a deprovisioning (_on_approved, _on_rejected).
OneOutcomeEvent ==
    \A d, e \in events : d.request = e.request => d = e

\* A verdict stands: approved never becomes rejected, nor the reverse.
VerdictFinal ==
    [][\A r \in Requests :
         /\ state[r] = "approved" => state'[r] # "rejected"
         /\ state[r] = "rejected" => state'[r] # "approved"]_vars

\* Every submitted decision gets its response: no await of
\* submit_approval_decision is waited on for ever, and no call keeps the event
\* loop from another.
CallsReturn ==
    \A c \in Calls : pc[c] \in Suspended ~> pc[c] = "done"

\* A quorum does not go unnoticed: when enough approve votes are on record for
\* a positive threshold, the request stops being pending, although every call
\* counts only after its own sync with CAAS and may count before another vote
\* arrives.
QuorumDecides ==
    \A r \in Requests :
        (state[r] = "pending" /\ required[r] > 0 /\ QuorumReached(r))
            ~> state[r] # "pending"

=============================================================================
