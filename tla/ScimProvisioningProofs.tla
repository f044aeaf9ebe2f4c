----------------------- MODULE ScimProvisioningProofs -----------------------
(***************************************************************************)
(* The provisioning client and the gate agree, for any number of requests, *)
(* calls and approvers and for every setting of the PDP, CAAS and the      *)
(* receivers.  The gate's part of the invariant is the one of              *)
(* ApprovalGateProofs.                                                     *)
(***************************************************************************)
EXTENDS ScimProvisioning, ApprovalGateProofs

\* What the client was told follows the phase of its request; a request lost
\* in its creation tells the client nothing, one lost later had told it.
ToldOK ==
    \A r \in Requests :
        /\ state[r] = "absent" => told[r] \in {"none", "active", "missing"}
        /\ state[r] \in Creating => told[r] = "none"
        /\ state[r] = "refused" => told[r] = "forbidden"
        /\ state[r] \in Stored => told[r] \in {"pending", "missing"}
        /\ state[r] = "lost" => told[r] \in {"pending", "missing", "dropped"}

\* Announcements outlive the request: their clients had been told to wait.
AnnouncedTold == \A e \in events : told[e.request] \in {"pending", "missing"}

ScimInv == Inv /\ ToldOK /\ AnnouncedTold

\* What create_approval_request and the deadline do to a request, the client
\* is told.
LEMMA CreateTells ==
    ASSUME ScimInv, NEW r \in Requests, CreateStep(r)
    PROVE  ToldOK' /\ AnnouncedTold'
<1> USE DEF ScimInv, Inv, TypeOK, ToldOK, AnnouncedTold, Stored, Decided, Creating, Events
<1>1. ASSUME NEW m \in Thresholds, CreateRequest(r, m) PROVE ToldOK' /\ AnnouncedTold'
  BY <1>1 DEF CreateRequest
<1>2. ASSUME NEW answer \in PdpAnswers, AuthorizeCreate(r, answer) PROVE ToldOK' /\ AnnouncedTold'
  BY <1>2 DEF AuthorizeCreate, AfterCheck
<1>3. ASSUME NEW created \in BOOLEAN, LinkCaas(r, created) PROVE ToldOK' /\ AnnouncedTold'
  BY <1>3 DEF LinkCaas
<1>4. ASSUME DeadlinePasses(r) PROVE ToldOK' /\ AnnouncedTold'
  BY <1>4 DEF DeadlinePasses
<1>5. ASSUME GetStatus(r) PROVE ToldOK' /\ AnnouncedTold'
  BY <1>5 DEF GetStatus, reqVars
<1> QED
  BY <1>1, <1>2, <1>3, <1>4, <1>5 DEF CreateStep

\* Votes move a request among the stored states only, and announce only what
\* is stored.
LEMMA VotesTell ==
    ASSUME ScimInv, NEW c \in Calls, SubmitStep(c) \/ ResumeStep(c)
    PROVE  ToldOK' /\ AnnouncedTold'
<1> USE DEF ScimInv, Inv, TypeOK, ToldOK, AnnouncedTold, Stored, Decided, Creating, Events
<1>1. ASSUME SubmitStep(c) PROVE ToldOK' /\ AnnouncedTold'
  <2>1. PICK b \in Ballots :
           \/ SubmitUnknown(c, b) \/ SubmitLate(c, b) \/ SubmitDecided(c, b)
           \/ SubmitRepeated(c, b) \/ Submit(c, b)
    BY <1>1 DEF SubmitStep
  <2>2. b.request \in Requests
    BY BallotFields
  <2> QED
    BY <2>1, <2>2 DEF SubmitUnknown, SubmitLate, SubmitDecided, SubmitRepeated, Submit,
       Refuse, Ask, reqVars
<1>2. ASSUME Reject(c) \/ Approve(c) PROVE ToldOK' /\ AnnouncedTold'
  <2> DEFINE r == ballot[c].request
  <2>1. r \in Requests /\ state[r] \in Stored
    BY <1>2, BallotTyping DEF Reject, Approve, Counting, CallsOK, Suspended
  <2>2. \E verdict \in Decided : \E kind \in {"activated", "deprovisioned"} : Decide(c, verdict, kind)
    BY <1>2 DEF Reject, Approve
  <2> QED
    BY <2>1, <2>2 DEF Decide, Event, reqVars
<1>3. ASSUME NEW answer \in PdpAnswers, VoteDenied(c, answer) \/ RecordVote(c, answer)
      PROVE  ToldOK' /\ AnnouncedTold'
  BY <1>3 DEF VoteDenied, RecordVote, reqVars
<1>4. ASSUME CountOnly(c) \/ Notified(c) PROVE ToldOK' /\ AnnouncedTold'
  BY <1>4 DEF CountOnly, Notified, reqVars
<1> QED
  BY <1>1, <1>2, <1>3, <1>4 DEF ResumeStep

\* The routes that do not reach the gate leave all of its invariant alone.
LEMMA RoutesTell ==
    ASSUME ScimInv, NEW r \in Requests, PostUngated(r) \/ Manage(r)
    PROVE  ScimInv'
<1>1. told' \in [Requests -> Tidings]
  BY DEF ScimInv, Inv, TypeOK, PostUngated, Manage, Tidings
<1>2. Inv'
  BY <1>1 DEF ScimInv, Inv, TypeOK, CallsOK, LedgerOK, EventsOK, PostUngated, Manage, callVars
<1>3. ToldOK'
  BY DEF ScimInv, Inv, TypeOK, ToldOK, Stored, Decided, Creating, PostUngated, Manage
<1>4. AnnouncedTold'
  BY DEF ScimInv, Inv, TypeOK, AnnouncedTold, Events, PostUngated, Manage
<1> QED
  BY <1>2, <1>3, <1>4 DEF ScimInv

\* The invariant is inductive for the gate together with the routes.
LEMMA ScimInvInductive == ScimInv /\ [ScimNext]_vars => ScimInv'
<1> SUFFICES ASSUME ScimInv, [ScimNext]_vars PROVE ScimInv'
  OBVIOUS
<1>1. CASE Next
  <2>1. Inv'
    BY <1>1, InvInductive DEF ScimInv
  <2>2. ASSUME Restart PROVE ToldOK' /\ AnnouncedTold'
    BY <2>2 DEF Restart, ScimInv, Inv, TypeOK, ToldOK, AnnouncedTold, Stored, Decided,
       Creating, Events, States
  <2>3. ToldOK' /\ AnnouncedTold'
    BY <1>1, <2>2, CreateTells, VotesTell DEF Next
  <2> QED
    BY <2>1, <2>3 DEF ScimInv
<1>2. CASE UNCHANGED vars
  <2>1. Inv'
    BY <1>2, InvInductive DEF ScimInv
  <2> QED
    BY <1>2, <2>1 DEF vars, ScimInv, ToldOK, AnnouncedTold
<1>3. ASSUME NEW r \in Requests, PostUngated(r) \/ Manage(r) PROVE ScimInv'
  BY <1>3, RoutesTell
<1> QED
  BY <1>1, <1>2, <1>3 DEF ScimNext

\* A fresh process has told nobody anything.
LEMMA ScimInvInit == Init => ScimInv
<1>1. Init => Inv
  BY InvInit
<1>2. Init => ToldOK /\ AnnouncedTold
  BY DEF Init, ToldOK, AnnouncedTold, Stored, Decided, Creating
<1> QED
  BY <1>1, <1>2 DEF ScimInv

\* The invariant says what the property says.
LEMMA ScimInvBacks == ScimInv => ProvisioningBacked
<1> SUFFICES ASSUME ScimInv, NEW r \in Requests
             PROVE  /\ state[r] \in Stored => told[r] \in {"pending", "missing"}
                    /\ told[r] = "pending" => state[r] \in Stored \cup {"lost"}
                    /\ told[r] = "forbidden" <=> state[r] = "refused"
                    /\ told[r] = "active" => state[r] = "absent"
                    /\ approvals[r] # {} \/ (\E e \in events : e.request = r)
                          => told[r] \in {"pending", "missing"}
  BY DEF ProvisioningBacked
<1>1. approvals[r] # {} => state[r] \in Stored
  BY DEF ScimInv, Inv, LedgerOK
<1>2. state[r] \in {"absent", "refused", "lost"} \cup Creating \cup Stored
  BY DEF ScimInv, Inv, TypeOK, States
<1> QED
  BY <1>1, <1>2 DEF ScimInv, ToldOK, AnnouncedTold, Stored, Decided, Creating

\* Whoever provisions an agent and whoever votes on it are told the same story
\* (create_agentic_identity and create_approval_request), for any number of
\* both.
THEOREM ProvisioningBackedHolds == ScimSpec => []ProvisioningBacked
<1>1. ScimSpec => []ScimInv
  BY ScimInvInit, ScimInvInductive, PTL DEF ScimSpec
<1> QED
  BY <1>1, ScimInvBacks, PTL

=============================================================================
