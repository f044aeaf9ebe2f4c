------------------------- MODULE ApprovalGateProofs -------------------------
(***************************************************************************)
(* Proofs about ApprovalGate, for any number of requests, approvers and    *)
(* concurrent calls, and for every setting of the PDP, CAAS and receivers. *)
(***************************************************************************)
EXTENDS ApprovalGateRefinement, FiniteSetTheorems, TLAPS

(* The inductive invariant.  The typing alone is not inductive: what a     *)
(* suspended call answers is the state of the request it captured before   *)
(* its awaits, so that request must still be in the dictionary.            *)

\* Where a call stands determines whether its vote is in the ledger.
CallsOK ==
    \A c \in Calls :
        /\ pc[c] = "idle" <=> ballot[c] = NoBallot
        /\ pc[c] \in Suspended => state[ballot[c].request] \in Stored
        /\ pc[c] \in {"idle", "checking"} =>
               \A r \in Requests : c \notin approvals[r]
        /\ pc[c] \in {"syncing", "notifying"} => c \in approvals[ballot[c].request]
        /\ pc[c] # "done" => response[c] = "none"
        /\ response[c] \in Stored => state[ballot[c].request] \in Stored \cup {"lost"}

\* A vote stands in the ledger of the request it was cast on, which is stored.
LedgerOK ==
    \A r \in Requests : \A c \in approvals[r] :
        /\ ballot[c] # NoBallot
        /\ ballot[c].request = r
        /\ state[r] \in Stored

\* Only a request that was in the dictionary is announced.
EventsOK == \A e \in events : state[e.request] \in Stored \cup {"lost"}

Inv == TypeOK /\ CallsOK /\ LedgerOK /\ EventsOK

\* A ballot names a request, an approver and a decision (the body of the POST).
LEMMA BallotFields ==
    ASSUME NEW b \in Ballots
    PROVE  b.request \in Requests /\ b.approver \in Approvers
               /\ b.decision \in Decisions
BY DEF Ballots

\* A call that was made carries a well-formed ballot on one of the requests.
LEMMA BallotTyping ==
    ASSUME TypeOK, NEW c \in Calls, ballot[c] # NoBallot
    PROVE  ballot[c] \in Ballots /\ ballot[c].request \in Requests
BY BallotFields DEF TypeOK

\* The invariant holds of the empty dictionary of a fresh process.
LEMMA InvInit == Init => Inv
BY DEF Init, Inv, TypeOK, CallsOK, LedgerOK, EventsOK, States, Stored,
       Decided, Suspended, Responses, Tidings

\* Creating, linking and expiring a request preserve the invariant.
LEMMA CreatePreservesInv ==
    ASSUME Inv, NEW r \in Requests, CreateStep(r)
    PROVE  Inv'
<1> USE DEF Inv, TypeOK, States, Stored, Decided, Creating, Suspended, Tidings
<1>1. ASSUME NEW m \in Thresholds, CreateRequest(r, m) PROVE Inv'
  <2> USE <1>1 DEF CreateRequest, callVars
  <2>1. TypeOK'
    BY FiniteAssumption
  <2>2. CallsOK'
    BY BallotTyping, BallotAssumption DEF CallsOK
  <2>3. LedgerOK'
    BY DEF LedgerOK
  <2>4. EventsOK'
    BY DEF EventsOK, Events
  <2> QED
    BY <2>1, <2>2, <2>3, <2>4
<1>2. ASSUME NEW answer \in PdpAnswers, AuthorizeCreate(r, answer) PROVE Inv'
  <2> USE <1>2 DEF AuthorizeCreate, AfterCheck, callVars
  <2>1. TypeOK'
    OBVIOUS
  <2>2. CallsOK'
    BY BallotTyping, BallotAssumption DEF CallsOK
  <2>3. LedgerOK'
    BY DEF LedgerOK
  <2>4. EventsOK'
    BY DEF EventsOK, Events
  <2> QED
    BY <2>1, <2>2, <2>3, <2>4
<1>3. ASSUME NEW created \in BOOLEAN, LinkCaas(r, created) PROVE Inv'
  <2> USE <1>3 DEF LinkCaas, callVars
  <2>1. TypeOK'
    OBVIOUS
  <2>2. CallsOK'
    BY BallotTyping, BallotAssumption DEF CallsOK
  <2>3. LedgerOK'
    BY DEF LedgerOK
  <2>4. EventsOK'
    BY DEF EventsOK, Events
  <2> QED
    BY <2>1, <2>2, <2>3, <2>4
<1>4. ASSUME DeadlinePasses(r) PROVE Inv'
  <2> USE <1>4 DEF DeadlinePasses, callVars
  <2>1. TypeOK'
    OBVIOUS
  <2>2. CallsOK'
    BY BallotTyping, BallotAssumption DEF CallsOK
  <2>3. LedgerOK'
    BY DEF LedgerOK
  <2>4. EventsOK'
    BY DEF EventsOK, Events
  <2> QED
    BY <2>1, <2>2, <2>3, <2>4
<1>5. ASSUME GetStatus(r) PROVE Inv'
  <2> USE <1>5 DEF GetStatus, reqVars, callVars
  <2>1. TypeOK'
    OBVIOUS
  <2>2. CallsOK'
    BY BallotTyping, BallotAssumption DEF CallsOK
  <2>3. LedgerOK'
    BY DEF LedgerOK
  <2>4. EventsOK'
    BY DEF EventsOK, Events
  <2> QED
    BY <2>1, <2>2, <2>3, <2>4
<1> QED
  BY <1>1, <1>2, <1>3, <1>4, <1>5 DEF CreateStep

\* The part of submit_approval_decision before its first await preserves the
\* invariant: a call is let through only to a request in the dictionary.
LEMMA SubmitPreservesInv ==
    ASSUME Inv, NEW c \in Calls, SubmitStep(c)
    PROVE  Inv'
<1> USE DEF Inv, TypeOK, States, Stored, Decided, Creating, Suspended, Responses, Refusals
<1>1. PICK b \in Ballots :
         \/ SubmitUnknown(c, b) \/ SubmitLate(c, b) \/ SubmitDecided(c, b)
         \/ SubmitRepeated(c, b) \/ Submit(c, b)
  BY DEF SubmitStep
<1>2. b.request \in Requests /\ b # NoBallot
  BY BallotFields, BallotAssumption
<1>3. CASE SubmitUnknown(c, b)
  <2> USE <1>2, <1>3 DEF SubmitUnknown, Refuse, Return, reqVars
  <2>1. TypeOK'
    OBVIOUS
  <2>2. CallsOK'
    BY BallotTyping, BallotAssumption DEF CallsOK
  <2>3. LedgerOK'
    BY DEF LedgerOK, CallsOK
  <2>4. EventsOK'
    BY DEF EventsOK, Events
  <2> QED
    BY <2>1, <2>2, <2>3, <2>4
<1>4. CASE SubmitLate(c, b)
  <2> USE <1>2, <1>4 DEF SubmitLate, Refuse, Return, reqVars
  <2>1. TypeOK'
    OBVIOUS
  <2>2. CallsOK'
    BY BallotTyping, BallotAssumption DEF CallsOK
  <2>3. LedgerOK'
    BY DEF LedgerOK, CallsOK
  <2>4. EventsOK'
    BY DEF EventsOK, Events
  <2> QED
    BY <2>1, <2>2, <2>3, <2>4
<1>5. CASE SubmitDecided(c, b)
  <2> USE <1>2, <1>5 DEF SubmitDecided, Refuse, Return, reqVars
  <2>1. TypeOK'
    OBVIOUS
  <2>2. CallsOK'
    BY BallotTyping, BallotAssumption DEF CallsOK
  <2>3. LedgerOK'
    BY DEF LedgerOK, CallsOK
  <2>4. EventsOK'
    BY DEF EventsOK, Events
  <2> QED
    BY <2>1, <2>2, <2>3, <2>4
<1>6. CASE SubmitRepeated(c, b)
  <2> USE <1>2, <1>6 DEF SubmitRepeated, Refuse, Return, reqVars
  <2>1. TypeOK'
    OBVIOUS
  <2>2. CallsOK'
    BY BallotTyping, BallotAssumption DEF CallsOK
  <2>3. LedgerOK'
    BY DEF LedgerOK, CallsOK
  <2>4. EventsOK'
    BY DEF EventsOK, Events
  <2> QED
    BY <2>1, <2>2, <2>3, <2>4
<1>7. CASE Submit(c, b)
  <2> USE <1>2, <1>7 DEF Submit, Ask, reqVars
  <2>1. TypeOK'
    OBVIOUS
  <2>2. CallsOK'
    BY BallotTyping, BallotAssumption DEF CallsOK
  <2>3. LedgerOK'
    BY DEF LedgerOK, CallsOK
  <2>4. EventsOK'
    BY DEF EventsOK, Events
  <2> QED
    BY <2>1, <2>2, <2>3, <2>4
<1> QED
  BY <1>1, <1>3, <1>4, <1>5, <1>6, <1>7

\* The part of submit_approval_decision after an await preserves the invariant.
LEMMA ResumePreservesInv ==
    ASSUME Inv, NEW c \in Calls, ResumeStep(c)
    PROVE  Inv'
<1> USE DEF Inv, TypeOK, States, Stored, Decided, Creating, Suspended, Responses, Refusals
<1>1. ballot[c] \in Ballots /\ ballot[c].request \in Requests
  BY BallotTyping DEF ResumeStep, VoteDenied, RecordVote, Reject, Approve,
     CountOnly, Counting, Decide, Notified, CallsOK
<1>2. ASSUME NEW answer \in PdpAnswers, VoteDenied(c, answer) PROVE Inv'
  <2> USE <1>1, <1>2 DEF VoteDenied, Return, reqVars
  <2>1. TypeOK'
    BY DEF CallsOK, Events, Event
  <2>2. CallsOK'
    BY BallotTyping, BallotAssumption DEF CallsOK
  <2>3. LedgerOK'
    BY DEF LedgerOK, CallsOK
  <2>4. EventsOK'
    BY DEF EventsOK, Events, Event
  <2> QED
    BY <2>1, <2>2, <2>3, <2>4
<1>3. ASSUME NEW answer \in PdpAnswers, RecordVote(c, answer) PROVE Inv'
  <2> USE <1>1, <1>3 DEF RecordVote
  <2>1. TypeOK'
    BY DEF CallsOK, Events, Event
  <2>2. CallsOK'
    BY BallotTyping, BallotAssumption DEF CallsOK
  <2>3. LedgerOK'
    BY DEF LedgerOK, CallsOK
  <2>4. EventsOK'
    BY DEF EventsOK, Events, Event
  <2> QED
    BY <2>1, <2>2, <2>3, <2>4
<1>4. ASSUME Reject(c) PROVE Inv'
  <2> USE <1>1, <1>4 DEF Reject, Decide, Counting, reqVars
  <2>1. TypeOK'
    BY DEF CallsOK, Events, Event
  <2>2. CallsOK'
    BY BallotTyping, BallotAssumption DEF CallsOK
  <2>3. LedgerOK'
    BY DEF LedgerOK, CallsOK
  <2>4. EventsOK'
    BY DEF EventsOK, Events, Event
  <2> QED
    BY <2>1, <2>2, <2>3, <2>4
<1>5. ASSUME Approve(c) PROVE Inv'
  <2> USE <1>1, <1>5 DEF Approve, Decide, Counting, reqVars
  <2>1. TypeOK'
    BY DEF CallsOK, Events, Event
  <2>2. CallsOK'
    BY BallotTyping, BallotAssumption DEF CallsOK
  <2>3. LedgerOK'
    BY DEF LedgerOK, CallsOK
  <2>4. EventsOK'
    BY DEF EventsOK, Events, Event
  <2> QED
    BY <2>1, <2>2, <2>3, <2>4
<1>6. ASSUME CountOnly(c) PROVE Inv'
  <2> USE <1>1, <1>6 DEF CountOnly, Counting, Return, reqVars
  <2>1. TypeOK'
    BY DEF CallsOK, Events, Event
  <2>2. CallsOK'
    BY BallotTyping, BallotAssumption DEF CallsOK
  <2>3. LedgerOK'
    BY DEF LedgerOK, CallsOK
  <2>4. EventsOK'
    BY DEF EventsOK, Events, Event
  <2> QED
    BY <2>1, <2>2, <2>3, <2>4
<1>7. ASSUME Notified(c) PROVE Inv'
  <2> USE <1>1, <1>7 DEF Notified, Return, reqVars
  <2>1. TypeOK'
    BY DEF CallsOK, Events, Event
  <2>2. CallsOK'
    BY BallotTyping, BallotAssumption DEF CallsOK
  <2>3. LedgerOK'
    BY DEF LedgerOK, CallsOK
  <2>4. EventsOK'
    BY DEF EventsOK, Events, Event
  <2> QED
    BY <2>1, <2>2, <2>3, <2>4
<1> QED
  BY <1>2, <1>3, <1>4, <1>5, <1>6, <1>7 DEF ResumeStep

\* The invariant is inductive: a restart empties the ledger and ends the calls.
LEMMA InvInductive == Inv /\ [Next]_vars => Inv'
<1> SUFFICES ASSUME Inv, [Next]_vars PROVE Inv'
  OBVIOUS
<1>1. ASSUME Restart PROVE Inv'
  <2> USE <1>1 DEF Restart, Inv, TypeOK, States, Stored, Decided, Creating,
                   Suspended, Responses, Tidings
  <2>1. TypeOK'
    OBVIOUS
  <2>2. CallsOK'
    BY BallotTyping, BallotAssumption DEF CallsOK
  <2>3. LedgerOK'
    BY DEF LedgerOK
  <2>4. EventsOK'
    BY DEF EventsOK, Events
  <2> QED
    BY <2>1, <2>2, <2>3, <2>4
<1>2. CASE UNCHANGED vars
  BY <1>2 DEF vars, Inv, TypeOK, CallsOK, LedgerOK, EventsOK
<1> QED
  BY <1>1, <1>2, CreatePreservesInv, SubmitPreservesInv, ResumePreservesInv
     DEF Next

\* The invariant holds in every reachable state of the gate.
LEMMA InvHolds == Spec => []Inv
<1> QED
  BY InvInit, InvInductive, PTL DEF Spec

\* The type invariant of the gate holds throughout: in particular every
\* response that carries a state is the state of a request on record.
THEOREM TypeCorrect == Spec => []TypeOK
<1>1. Inv => TypeOK
  BY DEF Inv
<1> QED
  BY <1>1, InvHolds, PTL

(***************************************************************************)
(* What one step may do to the ledger, the verdict and the announcements.  *)
(***************************************************************************)

\* The ledger of a stored request only grows, its threshold is fixed, and the
\* ballots in it are never altered, unless the process restarts.
LedgerGrows ==
    \A r \in Requests : state[r] \in Stored =>
        \/ state'[r] = "lost"
        \/ /\ state'[r] \in Stored
           /\ required'[r] = required[r]
           /\ approvals[r] \subseteq approvals'[r]
           /\ \A c \in approvals[r] : ballot'[c] = ballot[c]

\* A request is approved, or announced, on the ground that holds at that step.
VerdictGrounded ==
    /\ \A r \in Requests : state[r] # "approved" /\ state'[r] = "approved" =>
           state[r] \in Stored /\ QuorumReached(r)
    /\ \A e \in events' \ events :
           /\ state[e.request] \in Stored
           /\ e.by \in approvals[e.request]
           /\ e.kind = "activated" => QuorumReached(e.request)
           /\ e.kind = "deprovisioned" => ballot[e.by].decision = "reject"

\* A request enters the dictionary as pending, and leaves it only as lost.
Progresses ==
    \A r \in Requests :
        /\ state[r] \in Decided => state'[r] \in Decided \cup {"lost"}
        /\ state[r] = "lost" => state'[r] = "lost"
        /\ state[r] \notin Stored => state'[r] \notin Decided

\* The three facts hold of every step of the gate.
LEMMA StepFacts ==
    ASSUME Inv, [Next]_vars
    PROVE  LedgerGrows /\ VerdictGrounded /\ Progresses
<1> USE DEF Inv, TypeOK, States, Stored, Decided, Creating, Suspended
<1>1. ASSUME NEW r \in Requests, CreateStep(r)
      PROVE  LedgerGrows /\ VerdictGrounded /\ Progresses
  BY <1>1 DEF CreateStep, CreateRequest, AuthorizeCreate, AfterCheck, LinkCaas, DeadlinePasses,
     GetStatus, reqVars, callVars, LedgerGrows, VerdictGrounded, Progresses
<1>2. ASSUME NEW c \in Calls, SubmitStep(c)
      PROVE  LedgerGrows /\ VerdictGrounded /\ Progresses
  <2>1. PICK b \in Ballots :
           \/ SubmitUnknown(c, b) \/ SubmitLate(c, b) \/ SubmitDecided(c, b)
           \/ SubmitRepeated(c, b) \/ Submit(c, b)
    BY <1>2 DEF SubmitStep
  <2>2. /\ pc[c] = "idle"
        /\ ballot' = [ballot EXCEPT ![c] = b]
        /\ UNCHANGED <<required, approvals, events>>
        /\ \/ UNCHANGED state
           \/ /\ state[b.request] \in Stored
              /\ state' = [state EXCEPT ![b.request] = "expired"]
    BY <2>1 DEF SubmitUnknown, SubmitLate, SubmitDecided, SubmitRepeated, Submit, Ask,
       Refuse, reqVars
  <2> QED
    BY <2>2 DEF CallsOK, LedgerGrows, VerdictGrounded, Progresses
<1>3. ASSUME NEW c \in Calls, ResumeStep(c)
      PROVE  LedgerGrows /\ VerdictGrounded /\ Progresses
  <2>1. ballot[c] \in Ballots /\ ballot[c].request \in Requests
    BY <1>3, BallotTyping DEF ResumeStep, VoteDenied, RecordVote, Reject, Approve,
       CountOnly, Counting, Decide, Notified, CallsOK
  <2>2. ASSUME NEW answer \in PdpAnswers, VoteDenied(c, answer) \/ RecordVote(c, answer)
        PROVE  LedgerGrows /\ VerdictGrounded /\ Progresses
    BY <2>1, <2>2 DEF VoteDenied, RecordVote, Return, reqVars, LedgerGrows,
       VerdictGrounded, Progresses
  <2>3. CASE Reject(c)
    BY <2>1, <2>3 DEF Reject, Decide, Counting, reqVars, Event, CallsOK, LedgerGrows,
       VerdictGrounded, Progresses
  <2>4. CASE Approve(c)
    BY <2>1, <2>4 DEF Approve, Decide, Counting, reqVars, Event, CallsOK, LedgerGrows,
       VerdictGrounded, Progresses
  <2>5. CASE CountOnly(c) \/ Notified(c)
    BY <2>1, <2>5 DEF CountOnly, Counting, Notified, Return, reqVars, LedgerGrows,
       VerdictGrounded, Progresses
  <2> QED
    BY <1>3, <2>2, <2>3, <2>4, <2>5 DEF ResumeStep
<1>4. CASE Restart
  BY <1>4 DEF Restart, LedgerGrows, VerdictGrounded, Progresses
<1>5. CASE UNCHANGED vars
  BY <1>5 DEF vars, LedgerGrows, VerdictGrounded, Progresses
<1> QED
  BY <1>1, <1>2, <1>3, <1>4, <1>5 DEF Next

\* A quorum on record stays a quorum as long as the request stays on record.
LEMMA QuorumPersists ==
    ASSUME Inv, Inv', LedgerGrows, NEW r \in Requests,
           state[r] \in Stored, state'[r] \in Stored, QuorumReached(r)
    PROVE  QuorumReached(r)'
<1> DEFINE old == ApproveVotes(approvals[r])
           new == ApproveVotes(approvals[r])'
<1>1. required'[r] = required[r] /\ approvals[r] \subseteq approvals'[r]
      /\ \A c \in approvals[r] : ballot'[c] = ballot[c]
  BY DEF LedgerGrows, Stored, Decided
<1>2. old \subseteq new
  BY <1>1 DEF ApproveVotes
<1>3. new \subseteq Calls
  BY DEF ApproveVotes, Inv, TypeOK
<1>4. IsFiniteSet(new)
  BY <1>3, FiniteAssumption, FS_Subset
<1>5. IsFiniteSet(old) /\ Cardinality(old) <= Cardinality(new)
  BY <1>2, <1>4, FS_Subset
<1>6. Cardinality(old) \in Nat /\ Cardinality(new) \in Nat
  BY <1>4, <1>5, FS_CardinalityType
<1>7. required[r] \in Int /\ Cardinality(old) >= required[r]
  BY DEF Inv, TypeOK, QuorumReached
<1>8. Cardinality(new) >= required'[r]
  BY <1>1, <1>5, <1>6, <1>7
<1> QED
  BY <1>8 DEF QuorumReached

\* Approval by a quorum of votes is preserved: the step that approves counts
\* the votes itself, and votes are never withdrawn (gate.py:145-160).
LEMMA QuorumOfVotesInductive ==
    ASSUME Inv, Inv', [Next]_vars, QuorumOfVotes
    PROVE  QuorumOfVotes'
<1> SUFFICES ASSUME NEW r \in Requests, state'[r] = "approved"
             PROVE  QuorumReached(r)'
  BY DEF QuorumOfVotes
<1>1. state[r] \in Stored /\ QuorumReached(r)
  BY StepFacts DEF VerdictGrounded, QuorumOfVotes, Stored, Decided
<1> QED
  BY <1>1, StepFacts, QuorumPersists DEF Stored, Decided

\* No interleaving of votes, expiries, PDP answers and restarts leaves a
\* request approved with fewer approve votes on record than its threshold.
THEOREM QuorumOfVotesHolds == Spec => []QuorumOfVotes
<1>1. Init => QuorumOfVotes
  BY DEF Init, QuorumOfVotes
<1>2. Inv /\ Inv' /\ [Next]_vars /\ QuorumOfVotes => QuorumOfVotes'
  BY QuorumOfVotesInductive
<1> QED
  BY <1>1, <1>2, InvHolds, PTL DEF Spec

\* The ground of an announcement outlives every later step on its request.
LEMMA OutcomeEventsBackedInductive ==
    ASSUME Inv, Inv', [Next]_vars, OutcomeEventsBacked
    PROVE  OutcomeEventsBacked'
<1> SUFFICES ASSUME NEW e \in events', state'[e.request] \in Stored
             PROVE  /\ e.by \in approvals'[e.request]
                    /\ e.kind = "activated" => QuorumReached(e.request)'
                    /\ e.kind = "deprovisioned" => ballot'[e.by].decision = "reject"
  BY DEF OutcomeEventsBacked, QuorumReached, ApproveVotes
<1>1. e.request \in Requests
  BY DEF Inv, TypeOK, Events
<1>2. state[e.request] \in Stored
  BY <1>1, StepFacts DEF VerdictGrounded, Progresses, EventsOK, Inv, Stored, Decided
<1>3. /\ e.by \in approvals[e.request]
      /\ e.kind = "activated" => QuorumReached(e.request)
      /\ e.kind = "deprovisioned" => ballot[e.by].decision = "reject"
  BY <1>2, StepFacts DEF VerdictGrounded, OutcomeEventsBacked
<1>4. e.kind = "activated" => QuorumReached(e.request)'
  BY <1>1, <1>2, <1>3, StepFacts, QuorumPersists
<1> QED
  BY <1>1, <1>2, <1>3, <1>4, StepFacts DEF LedgerGrows, Stored, Decided

\* Every SSF announcement of a request on record has its ground on record:
\* a quorum of approve votes, or the sender's own reject vote.
THEOREM OutcomeEventsBackedHolds == Spec => []OutcomeEventsBacked
<1>1. Init => OutcomeEventsBacked
  BY DEF Init, OutcomeEventsBacked
<1>2. Inv /\ Inv' /\ [Next]_vars /\ OutcomeEventsBacked => OutcomeEventsBacked'
  BY OutcomeEventsBackedInductive
<1> QED
  BY <1>1, <1>2, InvHolds, PTL DEF Spec

\* A decided request is never pending again, in any interleaving.
THEOREM NeverReopenedHolds == Spec => NeverReopened
<1>1. Inv /\ [Next]_vars =>
        [\A r \in Requests :
            state[r] \in Decided => state'[r] \in Decided \cup {"lost"}]_vars
  BY StepFacts DEF Progresses
<1> QED
  BY <1>1, InvHolds, PTL DEF Spec, NeverReopened

\* A call either was over before this step, and then the step leaves its answer
\* and its vote alone, or it returns in this step, with a state exactly when
\* its vote was recorded; a restart leaves no request on record.
Answers ==
    \A d \in Calls : pc'[d] = "done" =>
        \/ /\ pc[d] = "done" /\ response'[d] = response[d] /\ ballot'[d] = ballot[d]
           /\ \A r \in Requests : d \in approvals'[r] <=> d \in approvals[r]
        \/ /\ response'[d] \in Refusals
           /\ \A r \in Requests : d \notin approvals'[r]
        \/ response'[d] \in Stored /\ d \in approvals'[ballot'[d].request]
        \/ \A r \in Requests : state'[r] \notin Stored

\* Every step of the gate answers calls in one of these ways.
LEMMA AnswerFacts ==
    ASSUME Inv, [Next]_vars
    PROVE  Answers
<1> USE DEF Inv, TypeOK, Stored, Decided, Refusals, Suspended, Answers
<1>1. ASSUME NEW r \in Requests, CreateStep(r) PROVE Answers
  BY <1>1 DEF CreateStep, CreateRequest, AuthorizeCreate, AfterCheck, LinkCaas, DeadlinePasses,
     GetStatus, reqVars, callVars
<1>2. ASSUME NEW c \in Calls, SubmitStep(c) PROVE Answers
  <2>1. PICK b \in Ballots :
           \/ SubmitUnknown(c, b) \/ SubmitLate(c, b) \/ SubmitDecided(c, b)
           \/ SubmitRepeated(c, b) \/ Submit(c, b)
    BY <1>2 DEF SubmitStep
  <2>2. CASE Submit(c, b)
    BY <2>2 DEF Submit, Ask, reqVars
  <2>3. CASE ~Submit(c, b)
    <3>1. \E answer \in Refusals : Refuse(c, b, answer)
      BY <2>1, <2>3 DEF SubmitUnknown, SubmitLate, SubmitDecided, SubmitRepeated
    <3> QED
      BY <3>1 DEF Refuse, Return, reqVars, CallsOK
  <2> QED
    BY <2>2, <2>3
<1>3. ASSUME NEW c \in Calls, ResumeStep(c) PROVE Answers
  <2>1. ballot[c] \in Ballots /\ ballot[c].request \in Requests
    BY <1>3, BallotTyping DEF ResumeStep, VoteDenied, RecordVote, Reject, Approve,
       CountOnly, Counting, Decide, Notified, CallsOK
  <2>2. ASSUME NEW answer \in PdpAnswers, VoteDenied(c, answer) PROVE Answers
    BY <2>1, <2>2 DEF VoteDenied, Return, reqVars, CallsOK
  <2>3. ASSUME NEW answer \in PdpAnswers, RecordVote(c, answer) PROVE Answers
    BY <2>1, <2>3 DEF RecordVote
  <2>4. CASE Reject(c) \/ Approve(c)
    BY <2>1, <2>4 DEF Reject, Decide, Counting, Approve, reqVars
  <2>5. CASE CountOnly(c) \/ Notified(c)
    BY <2>1, <2>5 DEF CountOnly, Counting, Notified, Return, reqVars, CallsOK
  <2> QED
    BY <1>3, <2>2, <2>3, <2>4, <2>5 DEF ResumeStep
<1>4. CASE Restart
  BY <1>4 DEF Restart, States, Creating
<1>5. CASE UNCHANGED vars
  BY <1>5 DEF vars
<1> QED
  BY <1>1, <1>2, <1>3, <1>4, <1>5 DEF Next

\* The agreement of answers with the ledger is preserved by every step.
LEMMA AnswerMatchesLedgerInductive ==
    ASSUME Inv, Inv', [Next]_vars, AnswerMatchesLedger
    PROVE  AnswerMatchesLedger'
<1> SUFFICES ASSUME NEW d \in Calls, ballot'[d] # NoBallot,
                    state'[ballot'[d].request] \in Stored, pc'[d] = "done"
             PROVE  d \in approvals'[ballot'[d].request] <=> response'[d] \in Stored
  BY DEF AnswerMatchesLedger
<1> DEFINE r == ballot'[d].request
<1>1. r \in Requests
  BY BallotFields DEF Inv, TypeOK
<1>2. CASE /\ pc[d] = "done" /\ response'[d] = response[d] /\ ballot'[d] = ballot[d]
           /\ d \in approvals'[r] <=> d \in approvals[r]
  <2>1. CASE state[r] \in Stored
    BY <1>2, <2>1 DEF AnswerMatchesLedger
  <2>2. CASE state[r] \notin Stored
    <3>1. d \notin approvals[r]
      BY <1>1, <2>2 DEF Inv, LedgerOK
    <3>2. state[r] # "lost"
      BY <1>1, StepFacts DEF Progresses, Stored, Decided
    <3>3. response[d] \notin Stored
      BY <1>2, <2>2, <3>2 DEF Inv, CallsOK
    <3> QED
      BY <1>2, <3>1, <3>3
  <2> QED
    BY <2>1, <2>2
<1>3. CASE response'[d] \in Refusals /\ d \notin approvals'[r]
  BY <1>3 DEF Refusals, Stored, Decided
<1> QED
  BY <1>1, <1>2, <1>3, AnswerFacts DEF Answers

\* A client that got a state back has its vote on record and a client that got
\* an error has not, in every interleaving.
THEOREM AnswerMatchesLedgerHolds == Spec => []AnswerMatchesLedger
<1>1. Init => AnswerMatchesLedger
  BY DEF Init, AnswerMatchesLedger
<1>2. Inv /\ Inv' /\ [Next]_vars /\ AnswerMatchesLedger => AnswerMatchesLedger'
  BY AnswerMatchesLedgerInductive
<1> QED
  BY <1>1, <1>2, InvHolds, PTL DEF Spec

(***************************************************************************)
(* Without a PDP no await before the outcome suspends: a call that is       *)
(* between its checks and its count holds the event loop, so what it        *)
(* checked still holds when it counts.                                      *)
(***************************************************************************)

Uninterrupted ==
    /\ \A r \in Requests : ~linked[r] /\ state[r] # "linking"
    /\ \A c \in Calls : pc[c] \in {"checking", "syncing"} =>
           loop = c /\ state[ballot[c].request] = "pending"

OneVoteEach ==
    /\ \A c \in Calls : pc[c] = "checking" =>
           \A d \in approvals[ballot[c].request] :
               ballot[d].approver # ballot[c].approver
    /\ \A r \in Requests : \A c, d \in approvals[r] :
           ballot[c].approver = ballot[d].approver => c = d

UnannouncedWhilePending == \A e \in events : state[e.request] # "pending"

SerialInv ==
    Uninterrupted /\ OneVoteEach /\ UnannouncedWhilePending /\ OneOutcomeEvent

\* Without a PDP, creating a request does not let anything run between the
\* checks of a call and its count.
LEMMA SerialCreate ==
    ASSUME ~PdpConfigured, Inv, SerialInv, NEW r \in Requests, CreateStep(r)
    PROVE  SerialInv'
<1> USE SettingsAssumption, BallotTyping DEF Inv, TypeOK, SerialInv, States, Stored, Decided,
        Creating, Suspended
<1>1. ASSUME NEW m \in Thresholds, CreateRequest(r, m) PROVE SerialInv'
  <2> USE <1>1 DEF CreateRequest, callVars
  <2>1. Uninterrupted'
    BY LoopAssumption DEF Uninterrupted, CallsOK
  <2>2. OneVoteEach' /\ UnannouncedWhilePending' /\ OneOutcomeEvent'
    BY DEF OneVoteEach, UnannouncedWhilePending, OneOutcomeEvent, Events
  <2> QED
    BY <2>1, <2>2
<1>2. ASSUME NEW answer \in PdpAnswers, AuthorizeCreate(r, answer) PROVE SerialInv'
  <2> USE <1>2 DEF AuthorizeCreate, AfterCheck, CanRun, callVars
  <2>1. Uninterrupted'
    BY LoopAssumption DEF Uninterrupted, CallsOK
  <2>2. OneVoteEach'
    BY DEF OneVoteEach
  <2>3. UnannouncedWhilePending' /\ OneOutcomeEvent'
    BY DEF UnannouncedWhilePending, OneOutcomeEvent, EventsOK, Events
  <2> QED
    BY <2>1, <2>2, <2>3
<1>3. ASSUME NEW created \in BOOLEAN, LinkCaas(r, created) PROVE FALSE
  BY <1>3 DEF LinkCaas, Uninterrupted
<1>4. CASE DeadlinePasses(r)
  BY <1>4 DEF DeadlinePasses, callVars, Uninterrupted, OneVoteEach,
     UnannouncedWhilePending, OneOutcomeEvent
<1>5. CASE GetStatus(r)
  <2> USE <1>5 DEF GetStatus, reqVars, callVars
  <2>1. Uninterrupted'
    BY LoopAssumption DEF Uninterrupted
  <2>2. OneVoteEach' /\ UnannouncedWhilePending' /\ OneOutcomeEvent'
    BY DEF OneVoteEach, UnannouncedWhilePending, OneOutcomeEvent, Events
  <2> QED
    BY <2>1, <2>2
<1> QED
  BY <1>1, <1>2, <1>3, <1>4, <1>5 DEF CreateStep

\* Without a PDP, a call that passes its checks keeps the event loop.
LEMMA SerialSubmit ==
    ASSUME ~PdpConfigured, Inv, SerialInv, NEW c \in Calls, SubmitStep(c)
    PROVE  SerialInv'
<1> USE DEF Inv, TypeOK, SerialInv, Stored, Decided, Suspended
<1>1. PICK b \in Ballots :
         \/ SubmitUnknown(c, b) \/ SubmitLate(c, b) \/ SubmitDecided(c, b)
         \/ SubmitRepeated(c, b) \/ Submit(c, b)
  BY DEF SubmitStep
<1>2. b.request \in Requests
  BY BallotFields
<1>3. CASE Submit(c, b)
  <2> USE <1>2, <1>3 DEF Submit, Ask, reqVars
  <2>1. Uninterrupted'
    BY LoopAssumption DEF Uninterrupted
  <2>2. \A d \in approvals[b.request] : ballot[d].approver # b.approver
    BY DEF Voters
  <2>3. \A r \in Requests : c \notin approvals[r]
    BY DEF CallsOK
  <2>4. OneVoteEach'
    BY LoopAssumption, <2>2, <2>3 DEF OneVoteEach, Uninterrupted
  <2>5. UnannouncedWhilePending' /\ OneOutcomeEvent'
    BY DEF UnannouncedWhilePending, OneOutcomeEvent
  <2> QED
    BY <2>1, <2>4, <2>5
<1>4. CASE ~Submit(c, b)
  <2>1. /\ \E answer \in Refusals : Refuse(c, b, answer)
        /\ \/ UNCHANGED state
           \/ state' = [state EXCEPT ![b.request] = "expired"]
    BY <1>1, <1>4 DEF SubmitUnknown, SubmitLate, SubmitDecided, SubmitRepeated,
       Refusals
  <2> USE <1>2, <2>1 DEF Refuse, Return, reqVars
  <2>2. Uninterrupted'
    BY LoopAssumption DEF Uninterrupted
  <2>3. \A r \in Requests : c \notin approvals[r]
    BY DEF CallsOK
  <2>4. OneVoteEach'
    BY <2>3, LoopAssumption DEF OneVoteEach, Uninterrupted
  <2>5. UnannouncedWhilePending' /\ OneOutcomeEvent'
    BY DEF UnannouncedWhilePending, OneOutcomeEvent, Events
  <2> QED
    BY <2>2, <2>4, <2>5
<1> QED
  BY <1>3, <1>4

\* Without a PDP, a call records its vote and counts in the state it checked.
LEMMA SerialResume ==
    ASSUME ~PdpConfigured, Inv, SerialInv, NEW c \in Calls, ResumeStep(c)
    PROVE  SerialInv'
<1> USE DEF Inv, TypeOK, SerialInv, Stored, Decided, Suspended
<1>1. ballot[c] \in Ballots /\ ballot[c].request \in Requests
  BY BallotTyping DEF ResumeStep, VoteDenied, RecordVote, Reject, Approve,
     CountOnly, Counting, Decide, Notified, CallsOK
<1>2. ASSUME NEW answer \in PdpAnswers, VoteDenied(c, answer) PROVE SerialInv'
  BY <1>2, LoopAssumption DEF VoteDenied, Return, reqVars, Uninterrupted, OneVoteEach,
     UnannouncedWhilePending, OneOutcomeEvent
<1>3. ASSUME NEW answer \in PdpAnswers, RecordVote(c, answer) PROVE SerialInv'
  <2> USE <1>1, <1>3 DEF RecordVote
  <2>1. Uninterrupted'
    BY DEF Uninterrupted
  <2>2. OneVoteEach'
    BY DEF OneVoteEach, Uninterrupted
  <2>3. UnannouncedWhilePending' /\ OneOutcomeEvent'
    BY DEF UnannouncedWhilePending, OneOutcomeEvent
  <2> QED
    BY <2>1, <2>2, <2>3
<1>4. ASSUME Reject(c) \/ Approve(c) PROVE SerialInv'
  <2>1. PICK kind \in {"activated", "deprovisioned"} :
           events' = events \cup {Event(kind, ballot[c].request, c)}
    BY <1>4 DEF Reject, Approve, Decide
  <2>2. state[ballot[c].request] = "pending" /\ loop = c
    BY <1>4 DEF Reject, Approve, Counting, CanRun, Uninterrupted
  <2>3. Uninterrupted'
    BY <1>1, <1>4, <2>2 DEF Reject, Decide, Counting, Approve, reqVars, Uninterrupted
  <2>4. OneVoteEach'
    BY <1>4 DEF Reject, Decide, Counting, Approve, reqVars, OneVoteEach
  <2>5. UnannouncedWhilePending'
    BY <1>1, <1>4, <2>1 DEF Reject, Approve, Decide, UnannouncedWhilePending, Events, Event
  <2>6. OneOutcomeEvent'
    BY <2>1, <2>2 DEF OneOutcomeEvent, UnannouncedWhilePending, Event
  <2> QED
    BY <2>3, <2>4, <2>5, <2>6
<1>5. CASE CountOnly(c) \/ Notified(c)
  BY <1>5, LoopAssumption DEF CountOnly, Counting, Notified, CanRun, Return, reqVars,
     Uninterrupted, OneVoteEach, UnannouncedWhilePending, OneOutcomeEvent
<1> QED
  BY <1>2, <1>3, <1>4, <1>5 DEF ResumeStep

\* Without a PDP the serial invariant holds in every reachable state.
LEMMA SerialInvHolds ==
    ASSUME ~PdpConfigured
    PROVE  Spec => []SerialInv
<1>1. Init => SerialInv
  BY DEF Init, SerialInv, Uninterrupted, OneVoteEach, UnannouncedWhilePending,
     OneOutcomeEvent
<1>2. Inv /\ SerialInv /\ [Next]_vars => SerialInv'
  <2> SUFFICES ASSUME Inv, SerialInv, [Next]_vars PROVE SerialInv'
    OBVIOUS
  <2>1. CASE Restart
    BY <2>1 DEF Restart, Inv, TypeOK, Stored, Creating, Suspended, SerialInv,
       Uninterrupted, OneVoteEach, UnannouncedWhilePending, OneOutcomeEvent, Events
  <2>2. CASE UNCHANGED vars
    BY <2>2 DEF vars, SerialInv, Uninterrupted, OneVoteEach,
       UnannouncedWhilePending, OneOutcomeEvent
  <2> QED
    BY <2>1, <2>2, SerialCreate, SerialSubmit, SerialResume DEF Next
<1> QED
  BY <1>1, <1>2, InvHolds, PTL DEF Spec

\* Each approve vote on record is somebody else's.
LEMMA ApproversAreVotes ==
    ASSUME Inv, OneVoteEach, NEW r \in Requests
    PROVE  LET votes == ApproveVotes(approvals[r])
               people == {ballot[c].approver : c \in votes}
           IN  Cardinality(people) = Cardinality(votes)
<1> DEFINE S == ApproveVotes(approvals[r])
           T == {ballot[c].approver : c \in S}
           f == [c \in S |-> ballot[c].approver]
<1>1. S \subseteq approvals[r] /\ S \subseteq Calls
  BY DEF ApproveVotes, Inv, TypeOK
<1>2. IsFiniteSet(S)
  BY <1>1, FiniteAssumption, FS_Subset
<1>3. \A c, d \in S : f[c] = f[d] => c = d
  BY <1>1 DEF OneVoteEach
<1>4. f \in Surjection(S, T) /\ f \in Injection(S, T)
  BY <1>3 DEF Surjection, Injection, IsInjective
<1> QED
  BY <1>2, <1>4, FS_Surjection

\* Without a PDP an approved request has the approval of as many different
\* people as its threshold asks for.
THEOREM DistinctQuorumSerial ==
    ASSUME ~PdpConfigured
    PROVE  Spec => []DistinctQuorum
<1>1. Inv /\ SerialInv /\ QuorumOfVotes => DistinctQuorum
  BY ApproversAreVotes DEF SerialInv, QuorumOfVotes, QuorumReached, DistinctQuorum
<1> QED
  BY <1>1, InvHolds, SerialInvHolds, QuorumOfVotesHolds, PTL

\* Without a PDP every request is announced at most once, as activated or as
\* deprovisioned.
THEOREM OneOutcomeEventSerial ==
    ASSUME ~PdpConfigured
    PROVE  Spec => []OneOutcomeEvent
<1>1. SerialInv => OneOutcomeEvent
  BY DEF SerialInv
<1> QED
  BY <1>1, SerialInvHolds, PTL

\* Without a PDP a rejected request is never approved afterwards, nor an
\* approved one rejected.
THEOREM VerdictFinalSerial ==
    ASSUME ~PdpConfigured
    PROVE  Spec => VerdictFinal
<1>1. Inv /\ SerialInv /\ [Next]_vars =>
        [\A r \in Requests :
            /\ state[r] = "approved" => state'[r] # "rejected"
            /\ state[r] = "rejected" => state'[r] # "approved"]_vars
  <2> SUFFICES ASSUME Inv, SerialInv, Next, NEW r \in Requests
               PROVE  /\ state[r] = "approved" => state'[r] # "rejected"
                      /\ state[r] = "rejected" => state'[r] # "approved"
    OBVIOUS
  <2> USE DEF Inv, TypeOK
  <2>1. ASSUME NEW q \in Requests, CreateStep(q) PROVE state'[r] = state[r] \/ state[r] \notin {"approved", "rejected"}
    BY <2>1 DEF CreateStep, CreateRequest, AuthorizeCreate, AfterCheck, LinkCaas, DeadlinePasses,
       GetStatus
  <2>2. ASSUME NEW c \in Calls, SubmitStep(c) PROVE state'[r] \in {state[r], "expired"}
    BY <2>2 DEF SubmitStep, SubmitUnknown, SubmitLate, SubmitDecided,
       SubmitRepeated, Refuse, Submit, Ask
  <2>3. ASSUME NEW c \in Calls, ResumeStep(c) PROVE state'[r] = state[r] \/ state[r] = "pending"
    BY <2>3 DEF ResumeStep, VoteDenied, RecordVote, Reject, Approve, CountOnly, Counting, Decide,
       Notified, SerialInv, Uninterrupted
  <2>4. ASSUME Restart PROVE state'[r] \in {state[r], "lost"}
    BY <2>4 DEF Restart
  <2> QED
    BY <2>1, <2>2, <2>3, <2>4 DEF Next
<1> QED
  BY <1>1, InvHolds, SerialInvHolds, PTL DEF Spec, VerdictFinal

(***************************************************************************)
(* Without a PDP the gate implements the one-step voting of ApprovalQuorum. *)
(***************************************************************************)

\* The abstract module's Cardinality is the standard one.
LEMMA SameCardinality == \A S : Quorum!Cardinality(S) = Cardinality(S)
BY DEF Cardinality, Quorum!Cardinality, IsFiniteSet, Quorum!IsFiniteSet

\* A step that changes neither ledgers nor which calls are before their count
\* leaves the abstract votes alone.
LEMMA SameVotes ==
    ASSUME Inv, UNCHANGED approvals,
           \A r \in Requests : \A c \in approvals[r] :
               ballot'[c] = ballot[c] /\ (pc'[c] = "syncing" <=> pc[c] = "syncing")
    PROVE  Counted' = Counted
<1>1. ASSUME NEW r \in Requests PROVE CountedVotes(r)' = CountedVotes(r)
  BY DEF CountedVotes
<1> QED
  BY <1>1 DEF Counted

LEMMA OutcomeOfOne ==
    ASSUME Inv, NEW r \in Requests, NEW s, state' = [state EXCEPT ![r] = s]
    PROVE  /\ Outcome' = [Outcome EXCEPT ![r] = AbstractOutcome(s)]
           /\ Outcome[r] = AbstractOutcome(state[r])
BY DEF Outcome, Inv, TypeOK

\* Creating, refusing and expiring a request.
LEMMA CreateRefines ==
    ASSUME ~PdpConfigured, Inv, SerialInv, NEW r \in Requests, CreateStep(r)
    PROVE  [Quorum!QNext]_(Quorum!qvars)
<1>1. ASSUME NEW m \in Thresholds, CreateRequest(r, m) PROVE Quorum!Propose(r, m)
  <2>1. /\ state[r] = "absent" /\ state' = [state EXCEPT ![r] = "authorizing"]
        /\ required' = [required EXCEPT ![r] = m] /\ UNCHANGED <<approvals, pc, ballot>>
    BY <1>1 DEF CreateRequest, callVars
  <2>2. Outcome[r] = "absent" /\ Outcome' = [Outcome EXCEPT ![r] = "proposed"]
    BY <2>1, OutcomeOfOne DEF AbstractOutcome, Creating
  <2> QED
    BY <2>1, <2>2, SameVotes DEF Quorum!Propose
<1>2. ASSUME NEW answer \in PdpAnswers, AuthorizeCreate(r, answer)
      PROVE  \E admitted \in BOOLEAN : Quorum!Admit(r, admitted)
  <2>1. /\ state[r] = "authorizing" /\ state' = [state EXCEPT ![r] = AfterCheck(answer)]
        /\ UNCHANGED <<required, approvals, pc, ballot>>
    BY <1>2 DEF AuthorizeCreate, callVars
  <2>2. AfterCheck(answer) = IF Passes(answer) THEN "pending" ELSE "refused"
    BY SettingsAssumption DEF AfterCheck
  <2>3. Passes(answer) \in BOOLEAN
    BY DEF Passes
  <2>4. Outcome[r] = "proposed" /\ Outcome' = [Outcome EXCEPT ![r] = AfterCheck(answer)]
    BY <2>1, <2>2, OutcomeOfOne DEF AbstractOutcome, Creating
  <2> QED
    BY <2>1, <2>2, <2>3, <2>4, SameVotes DEF Quorum!Admit
<1>3. ASSUME NEW created \in BOOLEAN, LinkCaas(r, created) PROVE FALSE
  BY <1>3 DEF LinkCaas, SerialInv, Uninterrupted
<1>4. CASE DeadlinePasses(r)
  <2>1. UNCHANGED <<state, required, approvals, pc, ballot>>
    BY <1>4 DEF DeadlinePasses, callVars
  <2> QED
    BY <2>1, SameVotes DEF Quorum!qvars, Outcome
<1>5. ASSUME GetStatus(r) PROVE Quorum!Expire(r)
  <2>1. /\ state[r] = "pending" /\ state' = [state EXCEPT ![r] = "expired"]
        /\ UNCHANGED <<required, approvals, pc, ballot>>
    BY <1>5 DEF GetStatus, callVars, reqVars
  <2>2. Outcome[r] = "pending" /\ Outcome' = [Outcome EXCEPT ![r] = "expired"]
    BY <2>1, OutcomeOfOne DEF AbstractOutcome, Creating
  <2> QED
    BY <2>1, <2>2, SameVotes DEF Quorum!Expire
<1> QED
  BY <1>1, <1>2, <1>3, <1>4, <1>5 DEF CreateStep, Quorum!QNext

\* A call before its first await: only a late one shows, as an expiry.
LEMMA SubmitRefines ==
    ASSUME ~PdpConfigured, Inv, SerialInv, NEW c \in Calls, SubmitStep(c)
    PROVE  [Quorum!QNext]_(Quorum!qvars)
<1>1. PICK b \in Ballots :
         \/ SubmitUnknown(c, b) \/ SubmitLate(c, b) \/ SubmitDecided(c, b)
         \/ SubmitRepeated(c, b) \/ Submit(c, b)
  BY DEF SubmitStep
<1>2. b.request \in Requests
  BY BallotFields
<1>3. /\ pc[c] = "idle" /\ pc' \in [Calls -> {"idle", "done"} \cup Suspended]
      /\ pc'[c] \in {"done", "checking"} /\ UNCHANGED <<required, approvals>>
      /\ \A d \in Calls : d # c => pc'[d] = pc[d] /\ ballot'[d] = ballot[d]
  BY <1>1 DEF SubmitUnknown, SubmitLate, SubmitDecided, SubmitRepeated, Submit, Ask,
     Refuse, Return, reqVars, Inv, TypeOK, Suspended
<1>4. Counted' = Counted
  <2>1. \A r \in Requests : c \notin approvals[r] /\ approvals[r] \subseteq Calls
    BY <1>3 DEF Inv, TypeOK, CallsOK
  <2> QED
    BY <1>3, <2>1, SameVotes
<1>5. CASE state' = state
  BY <1>3, <1>4, <1>5 DEF Quorum!qvars, Outcome
<1>6. CASE SubmitLate(c, b)
  <2>1. state[b.request] \in Stored /\ state' = [state EXCEPT ![b.request] = "expired"]
    BY <1>6 DEF SubmitLate
  <2>2. CASE state[b.request] = "expired"
    <3>1. state' = state
      BY <1>2, <2>1, <2>2 DEF Inv, TypeOK
    <3> QED
      BY <1>5, <3>1
  <2>3. CASE state[b.request] # "expired"
    <3>1. /\ Outcome[b.request] \in {"pending", "approved", "rejected"}
          /\ Outcome' = [Outcome EXCEPT ![b.request] = "expired"]
      BY <1>2, <2>1, <2>3, OutcomeOfOne DEF AbstractOutcome, Creating, Stored, Decided
    <3>2. Quorum!Expire(b.request)
      BY <1>3, <1>4, <3>1 DEF Quorum!Expire
    <3> QED
      BY <1>2, <3>2 DEF Quorum!QNext
  <2> QED
    BY <2>2, <2>3
<1> QED
  BY <1>1, <1>5, <1>6 DEF SubmitUnknown, SubmitDecided, SubmitRepeated, Submit, Ask

\* The votes in the ledger of a request, counted or not.
Cast(r) == {[approver |-> ballot[d].approver, decision |-> ballot[d].decision] : d \in approvals[r]}

\* The vote of a call that counts, which is the only one not counted yet.
LEMMA CountingIsVoting ==
    ASSUME ~PdpConfigured, Inv, SerialInv, NEW c \in Calls,
           Reject(c) \/ Approve(c) \/ CountOnly(c)
    PROVE  \E r \in Requests : \E v \in Quorum!Votes : Quorum!Vote(r, v)
<1> PICK r : r = ballot[c].request
  OBVIOUS
<1> PICK v : v = [approver |-> ballot[c].approver, decision |-> ballot[c].decision]
  OBVIOUS
<1> PICK after \in {"notifying", "done"} : pc' = [pc EXCEPT ![c] = after]
  BY DEF Reject, Approve, CountOnly, Decide, Return
<1>1. Counting(c) /\ required' = required /\ approvals' = approvals /\ ballot' = ballot
  BY DEF Reject, Approve, CountOnly, Decide, reqVars
<1>2. /\ pc[c] = "syncing" /\ loop = c /\ state[r] = "pending" /\ c \in approvals[r]
      /\ ballot[c] \in Ballots /\ r \in Requests
  BY <1>1, BallotTyping DEF Counting, Inv, CallsOK, Suspended, SerialInv, Uninterrupted
<1>3. v \in Quorum!Votes /\ v.decision = ballot[c].decision
  BY <1>2, BallotFields DEF Quorum!Votes, Decisions
<1>4. \A q \in Requests : approvals[q] \subseteq Calls /\ \A d \in approvals[q] : ballot[d].request = q
  BY DEF Inv, TypeOK, LedgerOK
<1>5. pc'[c] = after /\ \A d \in Calls : d # c => pc'[d] = pc[d] /\ pc[d] # "syncing"
  BY <1>2 DEF Inv, TypeOK, SerialInv, Uninterrupted
<1>6. ASSUME NEW q \in Requests, q # r PROVE CountedVotes(q)' = CountedVotes(q)
  <2>1. c \notin approvals[q]
    BY <1>4, <1>6
  <2> QED
    BY <1>1, <1>4, <1>5, <2>1 DEF CountedVotes
<1>7. CountedVotes(r) = {[approver |-> ballot[d].approver, decision |-> ballot[d].decision] :
                             d \in approvals[r] \ {c}}
  BY <1>2, <1>4, <1>5 DEF CountedVotes
<1>8. CountedVotes(r)' = Cast(r)
  BY <1>1, <1>2, <1>4, <1>5 DEF CountedVotes, Cast
<1>9. Cast(r) = CountedVotes(r) \cup {v}
  BY <1>2, <1>7 DEF Cast
<1>10. Counted' = [Counted EXCEPT ![r] = @ \cup {v}] /\ Counted'[r] = Cast(r)
  BY <1>2, <1>6, <1>8, <1>9 DEF Counted
<1>11. v.approver \notin {w.approver : w \in Counted[r]}
  <2>1. ASSUME NEW w \in Counted[r] PROVE w.approver # v.approver
    <3>1. PICK d \in approvals[r] : pc[d] # "syncing" /\ w.approver = ballot[d].approver
      BY <1>2 DEF Counted, CountedVotes
    <3> QED
      BY <1>2, <3>1 DEF SerialInv, OneVoteEach
  <2> QED
    BY <2>1
<1> PICK now : now = Cast(r)
  OBVIOUS
<1> PICK s : s = IF v.decision = "reject" THEN "rejected"
                 ELSE IF QuorumReached(r) THEN "approved" ELSE "pending"
  OBVIOUS
<1>12. state' = [state EXCEPT ![r] = s]
  <2>1. CASE Reject(c)
    BY <1>3, <2>1 DEF Reject, Decide
  <2>2. CASE Approve(c)
    BY <1>3, <2>2 DEF Approve, Decide
  <2>3. CASE CountOnly(c)
    BY <1>2, <1>3, <2>3 DEF CountOnly, Inv, TypeOK
  <2> QED
    BY <2>1, <2>2, <2>3
<1>13. Outcome[r] = "pending" /\ Outcome' = [Outcome EXCEPT ![r] = s]
  BY <1>2, <1>12, OutcomeOfOne DEF AbstractOutcome, Creating
<1>14. Quorum!Supporters(now) = {ballot[d].approver : d \in ApproveVotes(approvals[r])}
  <2>1. ASSUME NEW d \in ApproveVotes(approvals[r])
        PROVE  ballot[d].approver \in Quorum!Supporters(now)
    <3>1. [approver |-> ballot[d].approver, decision |-> ballot[d].decision] \in now
      BY DEF ApproveVotes, Cast
    <3> QED
      BY <3>1 DEF Quorum!Supporters, ApproveVotes
  <2>2. ASSUME NEW a \in Quorum!Supporters(now)
        PROVE  \E d \in ApproveVotes(approvals[r]) : a = ballot[d].approver
    <3>1. PICK w \in now : w.decision = "approve" /\ a = w.approver
      BY DEF Quorum!Supporters
    <3> QED
      BY <3>1 DEF ApproveVotes, Cast
  <2> QED
    BY <2>1, <2>2
<1>15. Quorum!Cardinality(Quorum!Supporters(now)) >= required[r] <=> QuorumReached(r)
  BY <1>2, <1>14, SameCardinality, ApproversAreVotes DEF SerialInv, QuorumReached
<1>16. Quorum!Vote(r, v)
  BY <1>1, <1>2, <1>10, <1>11, <1>13, <1>15 DEF Quorum!Vote
<1> QED
  BY <1>2, <1>3, <1>16

\* A call after its awaits: the count is the vote.
LEMMA ResumeRefines ==
    ASSUME ~PdpConfigured, Inv, SerialInv, NEW c \in Calls, ResumeStep(c)
    PROVE  [Quorum!QNext]_(Quorum!qvars)
<1> PICK r : r = ballot[c].request
  OBVIOUS
<1>1. ASSUME NEW answer \in PdpAnswers, VoteDenied(c, answer)
      PROVE  UNCHANGED <<Outcome, required, Counted>>
  <2>1. \A q \in Requests : c \notin approvals[q] /\ approvals[q] \subseteq Calls
    BY <1>1 DEF VoteDenied, Inv, TypeOK, CallsOK
  <2>2. /\ UNCHANGED <<state, required, approvals, ballot>>
        /\ \A d \in Calls : d # c => pc'[d] = pc[d]
    BY <1>1 DEF VoteDenied, Return, reqVars, Inv, TypeOK
  <2> QED
    BY <2>1, <2>2, SameVotes DEF Outcome
<1>2. ASSUME NEW answer \in PdpAnswers, RecordVote(c, answer)
      PROVE  UNCHANGED <<Outcome, required, Counted>>
  <2>1. /\ approvals' = [approvals EXCEPT ![r] = @ \cup {c}] /\ pc' = [pc EXCEPT ![c] = "syncing"]
        /\ UNCHANGED <<state, required, ballot>> /\ pc[c] = "checking"
    BY <1>2 DEF RecordVote
  <2>2. ASSUME NEW q \in Requests PROVE CountedVotes(q)' = CountedVotes(q)
    <3>1. c \notin approvals[q] /\ approvals[q] \subseteq Calls
      BY <2>1 DEF Inv, TypeOK, CallsOK
    <3>2. approvals'[q] \ {c} = approvals[q] /\ pc'[c] = "syncing"
          /\ \A d \in Calls : d # c => pc'[d] = pc[d]
      BY <2>1, <3>1 DEF Inv, TypeOK
    <3> QED
      BY <2>1, <3>1, <3>2 DEF CountedVotes
  <2> QED
    BY <2>1, <2>2 DEF Outcome, Counted
<1>3. Reject(c) \/ Approve(c) \/ CountOnly(c) =>
          \E q \in Requests : \E v \in Quorum!Votes : Quorum!Vote(q, v)
  BY CountingIsVoting
<1>4. CASE Notified(c)
  <2>1. /\ UNCHANGED <<state, required, approvals, ballot>> /\ pc[c] = "notifying"
        /\ \A d \in Calls : IF d = c THEN pc'[d] = "done" ELSE pc'[d] = pc[d]
    BY <1>4 DEF Notified, Return, reqVars, Inv, TypeOK
  <2>2. \A q \in Requests : approvals[q] \subseteq Calls
    BY DEF Inv, TypeOK
  <2>3. Counted' = Counted
    BY <2>1, <2>2, SameVotes
  <2> QED
    BY <2>1, <2>3 DEF Quorum!qvars, Outcome
<1> QED
  BY <1>1, <1>2, <1>3, <1>4 DEF ResumeStep, Quorum!QNext, Quorum!qvars

\* A restart forgets the requests.
LEMMA RestartRefines == Inv /\ Restart => Quorum!Forget
<1> SUFFICES ASSUME Inv, Restart PROVE Quorum!Forget
  OBVIOUS
<1>1. /\ state' = [r \in Requests |-> IF state[r] \in Stored \cup Creating THEN "lost" ELSE state[r]]
      /\ approvals' = [r \in Requests |-> {}] /\ required' = required
  BY DEF Restart
<1>2. ASSUME NEW r \in Requests
      PROVE  AbstractOutcome(state'[r]) =
                 IF Outcome[r] \in {"absent", "refused"} THEN Outcome[r] ELSE "lost"
  BY <1>1 DEF Inv, TypeOK, States, Stored, Decided, Creating, AbstractOutcome, Outcome
<1>3. ASSUME NEW r \in Requests PROVE CountedVotes(r)' = {}
  BY <1>1 DEF CountedVotes
<1>4. Outcome' = [r \in Requests |-> IF Outcome[r] \in {"absent", "refused"} THEN Outcome[r] ELSE "lost"]
  BY <1>2 DEF Outcome
<1>5. Counted' = [r \in Requests |-> {}]
  BY <1>3 DEF Counted
<1> QED
  BY <1>1, <1>4, <1>5 DEF Quorum!Forget

\* Without a PDP every behaviour of the gate is one of the one-step voting:
\* one vote a person, rejection at once, approval by the vote that reaches the
\* threshold, nothing counted after the verdict.
THEOREM QuorumSpecSerial ==
    ASSUME ~PdpConfigured
    PROVE  Spec => QuorumSpec
<1>1. Init => Quorum!QInit
  <2> SUFFICES ASSUME Init PROVE Quorum!QInit
    OBVIOUS
  <2>1. \A r \in Requests : AbstractOutcome(state[r]) = "absent" /\ CountedVotes(r) = {}
    BY DEF Init, AbstractOutcome, Creating, CountedVotes
  <2> QED
    BY <2>1 DEF Init, Quorum!QInit, Outcome, Counted
<1>2. Inv /\ SerialInv /\ [Next]_vars => [Quorum!QNext]_(Quorum!qvars)
  <2> SUFFICES ASSUME Inv, SerialInv, [Next]_vars PROVE [Quorum!QNext]_(Quorum!qvars)
    OBVIOUS
  <2>1. CASE UNCHANGED vars
    BY <2>1 DEF vars, Quorum!qvars, Outcome, Counted, CountedVotes
  <2>2. CASE Restart
    BY <2>2, RestartRefines DEF Quorum!QNext
  <2> QED
    BY <2>1, <2>2, CreateRefines, SubmitRefines, ResumeRefines DEF Next
<1> QED
  BY <1>1, <1>2, InvHolds, SerialInvHolds, PTL DEF Spec, QuorumSpec, Quorum!QSpec

=============================================================================
