----------------------------- MODULE SSFEmitter -----------------------------
(***************************************************************************)
(* The Shared Signals emitter of src/app/ssf/emitter.py: its registry of   *)
(* receivers, and the delivery of an event to those that subscribed to its *)
(* type.  A receiver in poll mode finds the event in its queue; one in     *)
(* push mode gets a POST, and two more with a pause before each if the     *)
(* earlier ones failed.                                                    *)
(*                                                                         *)
(* All of it runs on one asyncio event loop.  The fan-out loop has no      *)
(* await in it, so it is one step; the POSTs of one event run concurrently *)
(* with each other and with everything else.                               *)
(***************************************************************************)
EXTENDS Integers, Sequences, SequencesExt

CONSTANTS
    Receivers,  \* receiver ids (uuid4, never reused)
    Emissions,  \* calls of emit_...
    Topics,     \* event types
    Nobody      \* no such receiver

Modes == {"push", "poll"}
Profiles == [mode : Modes, topics : SUBSET Topics]

\* The loop of _push_event.
Attempts == 3

Phases == {"none", "posting", "backoff", "delivered", "failed"}

ASSUME NobodyAssumption == Nobody \notin Profiles

VARIABLES
    profile,   \* per receiver: its registration, or Nobody
    pending,   \* per receiver: pending_events
    handed,    \* per receiver: events that polls have taken out, in order
    log,       \* all emissions so far, in order
    since,     \* per receiver: how many emissions there were when it registered
    topic,     \* per emission: its event type
    emission,  \* per emission: how far _deliver_to_all_receivers is
    phase,     \* per emission and receiver: how far _push_event is
    tries,     \* per emission and receiver: POSTs that failed
    received   \* per emission and receiver: POSTs that arrived

vars == <<profile, pending, handed, log, since, topic, emission, phase, tries, received>>
pushVars == <<phase, tries, received>>

Init ==
    /\ profile = [r \in Receivers |-> Nobody]
    /\ pending = [r \in Receivers |-> <<>>]
    /\ handed = [r \in Receivers |-> <<>>]
    /\ log = <<>>
    /\ since = [r \in Receivers |-> -1]
    /\ topic \in [Emissions -> Topics]
    /\ emission = [e \in Emissions |-> "idle"]
    /\ phase = [e \in Emissions |-> [r \in Receivers |-> "none"]]
    /\ tries = [e \in Emissions |-> [r \in Receivers |-> 0]]
    /\ received = [e \in Emissions |-> [r \in Receivers |-> 0]]

----------------------------------------------------------------------------
(* The registry of receivers.                                              *)

Registered(r) == profile[r] # Nobody

Register(r, p) ==
    /\ since[r] = -1
    /\ profile' = [profile EXCEPT ![r] = p]
    /\ since' = [since EXCEPT ![r] = Len(log)]
    /\ UNCHANGED <<pending, handed, log, topic, emission, pushVars>>

\* POSTs that are on their way hold a copy of the endpoint and go on.
Deregister(r) ==
    /\ Registered(r)
    /\ profile' = [profile EXCEPT ![r] = Nobody]
    /\ pending' = [pending EXCEPT ![r] = <<>>]
    /\ UNCHANGED <<handed, log, since, topic, emission, pushVars>>

\* Defective variant, for mutation: the newest event is returned, all are
\* cleared.
PollNewest(r) ==
    /\ Registered(r) /\ pending[r] # <<>>
    /\ handed' = [handed EXCEPT ![r] = Append(@, Last(pending[r]))]
    /\ pending' = [pending EXCEPT ![r] = <<>>]
    /\ UNCHANGED <<profile, log, since, topic, emission, pushVars>>

Poll(r) ==
    /\ Registered(r) /\ pending[r] # <<>>
    /\ handed' = [handed EXCEPT ![r] = @ \o pending[r]]
    /\ pending' = [pending EXCEPT ![r] = <<>>]
    /\ UNCHANGED <<profile, log, since, topic, emission, pushVars>>

----------------------------------------------------------------------------
(* Delivery.                                                               *)

Audience(t, mode) ==
    {r \in Receivers : Registered(r) /\ profile[r].mode = mode /\ t \in profile[r].topics}

\* _deliver_to_all_receivers, up to the gather.
Emit(e) ==
    LET push == Audience(topic[e], "push") IN
    /\ emission[e] = "idle"
    /\ log' = Append(log, e)
    /\ pending' = [r \in Receivers |-> IF r \in Audience(topic[e], "poll")
                                       THEN Append(pending[r], e) ELSE pending[r]]
    /\ phase' = [phase EXCEPT ![e] = [r \in Receivers |->
                     IF r \in push THEN "posting" ELSE "none"]]
    /\ emission' = [emission EXCEPT ![e] = IF push = {} THEN "done" ELSE "delivering"]
    /\ UNCHANGED <<profile, handed, since, topic, tries, received>>

\* The POST is answered with a status below 400.
PostAccepted(e, r) ==
    /\ phase[e][r] = "posting"
    /\ phase' = [phase EXCEPT ![e][r] = "delivered"]
    /\ received' = [received EXCEPT ![e][r] = @ + 1]
    /\ UNCHANGED <<profile, pending, handed, log, since, topic, emission, tries>>

\* It is answered with an error, or not in time; the receiver may have got it.
PostFailed(e, r, arrived) ==
    /\ phase[e][r] = "posting"
    /\ phase' = [phase EXCEPT ![e][r] = "backoff"]
    /\ tries' = [tries EXCEPT ![e][r] = @ + 1]
    /\ received' = [received EXCEPT ![e][r] = IF arrived THEN @ + 1 ELSE @]
    /\ UNCHANGED <<profile, pending, handed, log, since, topic, emission>>

\* Defective variants, for mutation: one attempt too few, or too many; no limit.
BackoffOverEarly(e, r) ==
    /\ phase[e][r] = "backoff"
    /\ phase' = [phase EXCEPT ![e][r] =
           IF tries[e][r] + 1 < Attempts THEN "posting" ELSE "failed"]
    /\ UNCHANGED <<profile, pending, handed, log, since, topic, emission, tries, received>>

BackoffOverLate(e, r) ==
    /\ phase[e][r] = "backoff"
    /\ phase' = [phase EXCEPT ![e][r] =
           IF tries[e][r] <= Attempts THEN "posting" ELSE "failed"]
    /\ UNCHANGED <<profile, pending, handed, log, since, topic, emission, tries, received>>

BackoffOverUnlimited(e, r) ==
    /\ phase[e][r] = "backoff"
    /\ phase' = [phase EXCEPT ![e][r] = "posting"]
    /\ tries' = [tries EXCEPT ![e][r] = 0]
    /\ received' = [received EXCEPT ![e][r] = 0]
    /\ UNCHANGED <<profile, pending, handed, log, since, topic, emission>>

\* The sleep is over, which also follows the last attempt.
BackoffOver(e, r) ==
    /\ phase[e][r] = "backoff"
    /\ phase' = [phase EXCEPT ![e][r] =
           IF tries[e][r] < Attempts THEN "posting" ELSE "failed"]
    /\ UNCHANGED <<profile, pending, handed, log, since, topic, emission, tries, received>>

Settled(e) == \A r \in Receivers : phase[e][r] \notin {"posting", "backoff"}

\* gather returns when every _push_event has, and the emitter with it.
Gather(e) ==
    /\ emission[e] = "delivering"
    /\ Settled(e)
    /\ emission' = [emission EXCEPT ![e] = "done"]
    /\ UNCHANGED <<profile, pending, handed, log, since, topic, pushVars>>

\* The process ends: _RECEIVERS, the queues and the POSTs are gone.
Restart ==
    /\ profile' = [r \in Receivers |-> Nobody]
    /\ pending' = [r \in Receivers |-> <<>>]
    /\ emission' = [e \in Emissions |->
           IF emission[e] = "delivering" THEN "lost" ELSE emission[e]]
    /\ phase' = [e \in Emissions |-> [r \in Receivers |->
           IF phase[e][r] \in {"posting", "backoff"} THEN "failed" ELSE phase[e][r]]]
    /\ UNCHANGED <<handed, log, since, topic, tries, received>>

PushStep(e, r) ==
    \/ PostAccepted(e, r)
    \/ \E arrived \in BOOLEAN : PostFailed(e, r, arrived)
    \/ BackoffOver(e, r)

Next ==
    \/ \E r \in Receivers :
        \/ \E p \in Profiles : Register(r, p)
        \/ Deregister(r)
        \/ Poll(r)
    \/ \E e \in Emissions :
        \/ Emit(e)
        \/ \E r \in Receivers : PushStep(e, r)
        \/ Gather(e)
    \/ Restart

Spec == Init /\ [][Next]_vars

\* A POST times out after ten seconds, a sleep ends, and the event loop runs
\* what is ready.  Receivers, emitters and crashes are under no obligation.
FairSpec ==
    /\ Spec
    /\ \A e \in Emissions : WF_vars(Gather(e))
    /\ \A e \in Emissions, r \in Receivers : WF_vars(PushStep(e, r))

----------------------------------------------------------------------------
(* Properties.                                                             *)

\* The type invariant of the registry, the queues and the pushes.
TypeOK ==
    /\ profile \in [Receivers -> Profiles \cup {Nobody}]
    /\ pending \in [Receivers -> Seq(Emissions)]
    /\ handed \in [Receivers -> Seq(Emissions)]
    /\ log \in Seq(Emissions)
    /\ since \in [Receivers -> Int]
    /\ topic \in [Emissions -> Topics]
    /\ emission \in [Emissions -> {"idle", "delivering", "done", "lost"}]
    /\ phase \in [Emissions -> [Receivers -> Phases]]
    /\ tries \in [Emissions -> [Receivers -> 0..Attempts]]
    /\ received \in [Emissions -> [Receivers -> 0..Attempts]]

\* What a receiver that stays registered should have been offered.
Due(r) ==
    {e \in Emissions : topic[e] \in profile[r].topics
                       /\ \E n \in since[r] + 1 .. Len(log) : log[n] = e}

\* Each was emitted before those that come after it; log holds no emission twice.
InOrder(events) ==
    \A i, j \in DOMAIN events : i < j =>
        \E m, n \in DOMAIN log : m < n /\ log[m] = events[i] /\ log[n] = events[j]

\* A receiver in poll mode loses nothing, gets nothing twice and in no other
\* order: what its polls took and what is queued are together the events of
\* its types since it registered, whatever polls come in between
\* (emitter.py:144, 309).
PollStreamExact ==
    \A r \in Receivers : Registered(r) /\ profile[r].mode = "poll" =>
        LET offered == handed[r] \o pending[r] IN
        ToSet(offered) = Due(r) /\ IsInjective(offered) /\ InOrder(offered)

\* When the emitter returns, every receiver that subscribed before in push mode
\* has the event, or three POSTs to it have failed: no receiver is passed over
\* because another one fails, or because receivers come and go.
NobodyPassedOver ==
    \A r \in Receivers, e \in Emissions :
        Registered(r) /\ profile[r].mode = "push" /\ emission[e] = "done"
          /\ e \in Due(r) =>
            received[e][r] > 0 \/ tries[e][r] = Attempts

\* Every emission ends, however receivers fail: _push_event gives up.
EmissionsEnd ==
    \A e \in Emissions : emission[e] = "delivering" ~> emission[e] # "delivering"

=============================================================================
