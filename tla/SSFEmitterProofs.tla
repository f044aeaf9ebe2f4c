-------------------------- MODULE SSFEmitterProofs --------------------------
(***************************************************************************)
(* Proofs about the Shared Signals emitter, for any number of receivers,   *)
(* emissions and event types: what a poll receiver is handed is exact, and *)
(* no push receiver is passed over.                                        *)
(***************************************************************************)
EXTENDS SSFEmitter, SequenceTheorems, TLAPS

-----------------------------------------------------------------------------
(* The inductive invariant.                                                *)

\* A receiver id is registered once, and what it was handed or is owed came
\* after that.
RegistryOK(r) ==
    /\ since[r] \in -1 .. Len(log)
    /\ Registered(r) => since[r] # -1
    /\ since[r] = -1 => /\ handed[r] = <<>> /\ pending[r] = <<>>
                        /\ \A e \in Emissions : phase[e][r] = "none"

\* What has not started is neither logged nor under way, what is done has no
\* POST under way.
EmissionOK(e) ==
    /\ emission[e] = "idle" => /\ \A n \in DOMAIN log : log[n] # e
                               /\ \A r \in Receivers : phase[e][r] = "none"
    /\ emission[e] = "done" => Settled(e)

\* Where a push is, and how many POSTs may have failed and arrived by then.
PushPhaseOK(ph, failed, arrived) ==
    /\ ph \in Phases /\ failed \in 0 .. Attempts /\ arrived \in 0 .. Attempts
    /\ ph = "none" => failed = 0 /\ arrived = 0
    /\ ph = "posting" => failed < Attempts
    /\ ph = "delivered" => arrived > 0
    /\ ph # "delivered" => arrived <= failed

\* A push is given up after three attempts, or lost with the registration.
PushOK(e, r) ==
    /\ PushPhaseOK(phase[e][r], tries[e][r], received[e][r])
    /\ Registered(r) /\ phase[e][r] = "failed" => tries[e][r] = Attempts
    /\ Registered(r) /\ profile[r].mode = "push" /\ e \in Due(r) => phase[e][r] # "none"

Exact(r, offered) == ToSet(offered) = Due(r) /\ IsInjective(offered) /\ InOrder(offered)

StreamOK(r) ==
    Registered(r) /\ profile[r].mode = "poll" => Exact(r, handed[r] \o pending[r])

Inv ==
    /\ TypeOK
    /\ \A r \in Receivers : RegistryOK(r) /\ StreamOK(r)
    /\ \A e \in Emissions : EmissionOK(e) /\ \A r \in Receivers : PushOK(e, r)

-----------------------------------------------------------------------------
(* Streams of emissions.                                                   *)

LEMMA LastAppended ==
    ASSUME NEW S, NEW s \in Seq(S), NEW e \in S
    PROVE  /\ Append(s, e) \in Seq(S) /\ Len(Append(s, e)) = Len(s) + 1
           /\ Len(s) \in Nat /\ DOMAIN s = 1 .. Len(s) /\ DOMAIN Append(s, e) = 1 .. Len(s) + 1
           /\ \A i \in 1 .. Len(s) : Append(s, e)[i] = s[i] /\ s[i] \in S
           /\ Append(s, e)[Len(s) + 1] = e
OBVIOUS

\* What is queued last is offered last.
LEMMA QueuedIsOffered ==
    ASSUME NEW h \in Seq(Emissions), NEW q \in Seq(Emissions), NEW e \in Emissions
    PROVE  h \o Append(q, e) = Append(h \o q, e)
<1>0. Append(<<>>, e) = <<e>> /\ <<>> \in Seq(Emissions)
  OBVIOUS
<1> PICK u \in Seq(Emissions) : u = <<e>>
  BY <1>0, AppendProperties, Zenon
<1> PICK hq \in Seq(Emissions) : hq = h \o q
  BY ConcatProperties
<1>1. hq \o u = h \o (q \o u)
  BY ConcatAssociative
<1>2. q \o u = Append(q, e) /\ hq \o u = Append(hq, e)
  BY AppendIsConcat
<1> QED
  BY <1>1, <1>2, Zenon

\* The members of a stream, and of the stream that goes on with one that is
\* not among them.
LEMMA StreamGoesOn ==
    ASSUME NEW s \in Seq(Emissions), NEW e \in Emissions, NEW t, t = Append(s, e)
    PROVE  /\ ToSet(t) = ToSet(s) \cup {e}
           /\ IsInjective(s) /\ e \notin ToSet(s) => IsInjective(t)
<1> PICK len \in Nat : len = Len(s)
  BY LenProperties
<1>1. /\ DOMAIN s = 1 .. len /\ DOMAIN t = 1 .. len + 1
      /\ \A i \in 1 .. len : t[i] = s[i]
      /\ t[len + 1] = e
  BY LastAppended
<1>2. \A i \in 1 .. len + 1 : i \in 1 .. len \/ i = len + 1
  OBVIOUS
<1>3. 1 .. len \subseteq 1 .. len + 1 /\ len + 1 \in 1 .. len + 1
  OBVIOUS
<1>4. ToSet(t) = ToSet(s) \cup {e}
  BY <1>1, <1>2, <1>3, Zenon DEF ToSet
<1>5. ASSUME IsInjective(s), e \notin ToSet(s) PROVE IsInjective(t)
  <2>1. \A i \in 1 .. len : s[i] # e
    BY <1>1, <1>5 DEF ToSet
  <2>2. \A i, j \in 1 .. len : s[i] = s[j] => i = j
    BY <1>1, <1>5 DEF IsInjective
  <2> QED
    BY <1>1, <1>2, <2>1, <2>2 DEF IsInjective
<1> QED
  BY <1>4, <1>5

LEMMA BeforeTheLast ==
    ASSUME NEW n \in Nat, NEW i \in 1 .. n + 1, NEW j \in 1 .. n + 1, i < j
    PROVE  i \in 1 .. n /\ (j \in 1 .. n \/ j = n + 1)
OBVIOUS

\* A stream of logged emissions stays in order as the log grows, also when it
\* takes up the newest.
LEMMA OrderKept ==
    ASSUME log \in Seq(Emissions), NEW e \in Emissions, log' = Append(log, e),
           NEW s \in Seq(Emissions), InOrder(s), NEW t, t = Append(s, e)
    PROVE  /\ InOrder(s)'
           /\ (\A x \in ToSet(s) : \E m \in DOMAIN log : log[m] = x) => InOrder(t)'
<1> PICK last \in Nat : last = Len(log)
  BY LenProperties
<1>1. /\ DOMAIN log = 1 .. last /\ DOMAIN log' = 1 .. last + 1
      /\ \A m \in 1 .. last : log'[m] = log[m]
      /\ log'[last + 1] = e
  BY LastAppended
<1>2. 1 .. last \subseteq 1 .. last + 1 /\ last + 1 \in 1 .. last + 1 /\ \A m \in 1 .. last : m < last + 1
  OBVIOUS
<1>3. ASSUME NEW i \in DOMAIN s, NEW j \in DOMAIN s, i < j
      PROVE  \E m, n \in DOMAIN log' : m < n /\ log'[m] = s[i] /\ log'[n] = s[j]
  <2>1. PICK m \in DOMAIN log, n \in DOMAIN log : m < n /\ log[m] = s[i] /\ log[n] = s[j]
    BY <1>3 DEF InOrder
  <2>2. m \in DOMAIN log' /\ n \in DOMAIN log' /\ log'[m] = s[i] /\ log'[n] = s[j]
    BY <1>1, <1>2, <2>1
  <2> QED
    BY <2>1, <2>2
<1>4. ASSUME \A x \in ToSet(s) : \E m \in DOMAIN log : log[m] = x
      PROVE  InOrder(t)'
  <2> PICK len \in Nat : len = Len(s)
    BY LenProperties
  <2>1. /\ DOMAIN s = 1 .. len /\ DOMAIN t = 1 .. len + 1
        /\ \A i \in 1 .. len : t[i] = s[i]
        /\ t[len + 1] = e
    BY LastAppended
  <2>2. ASSUME NEW i \in DOMAIN t, NEW j \in DOMAIN t, i < j
        PROVE  \E m, n \in DOMAIN log' : m < n /\ log'[m] = t[i] /\ log'[n] = t[j]
    <3>1. i \in 1 .. len /\ (j \in 1 .. len \/ j = len + 1)
      BY <2>1, <2>2, BeforeTheLast
    <3>2. CASE j \in 1 .. len
      <4>1. t[i] = s[i] /\ t[j] = s[j] /\ i \in DOMAIN s /\ j \in DOMAIN s
        BY <2>1, <3>1, <3>2
      <4> QED
        BY <1>3, <2>2, <4>1
    <3>3. CASE j = len + 1
      <4>1. s[i] \in ToSet(s)
        BY <2>1, <3>1 DEF ToSet
      <4>2. PICK m \in 1 .. last : log[m] = s[i]
        BY <1>1, <1>4, <4>1
      <4>3. m \in DOMAIN log' /\ last + 1 \in DOMAIN log' /\ m < last + 1
        BY <1>1, <1>2
      <4>4. log'[m] = t[i] /\ log'[last + 1] = t[j]
        BY <1>1, <2>1, <3>1, <3>3, <4>2
      <4> QED
        BY <4>3, <4>4
    <3> QED
      BY <3>1, <3>2, <3>3
  <2> QED
    BY <2>2 DEF InOrder
<1> QED
  BY <1>3, <1>4 DEF InOrder

LEMMA EmptyStream ==
    /\ <<>> \o <<>> = <<>> /\ DOMAIN <<>> = {}
    /\ ToSet(<<>>) = {} /\ IsInjective(<<>>) /\ InOrder(<<>>)
<1>1. DOMAIN <<>> = {} /\ <<>> \o <<>> = <<>>
  OBVIOUS
<1> QED
  BY <1>1 DEF ToSet, IsInjective, InOrder

\* What is due is logged.
LEMMA DueIsLogged ==
    ASSUME log \in Seq(Emissions), NEW r \in Receivers, since[r] \in 0 .. Len(log)
    PROVE  \A e \in Due(r) : \E n \in DOMAIN log : log[n] = e
<1> PICK last \in Nat : last = Len(log) /\ DOMAIN log = 1 .. last
  BY LenProperties
<1>1. since[r] + 1 .. last \subseteq 1 .. last
  OBVIOUS
<1> QED
  BY <1>1 DEF Due

\* A new emission is due to those registered for its type.
LEMMA DueGrows ==
    ASSUME log \in Seq(Emissions), NEW e \in Emissions, log' = Append(log, e),
           UNCHANGED <<profile, since, topic>>, NEW r \in Receivers, since[r] \in 0 .. Len(log)
    PROVE  Due(r)' = IF topic[e] \in profile[r].topics THEN Due(r) \cup {e} ELSE Due(r)
<1> PICK last \in Nat : last = Len(log)
  BY LenProperties
<1> PICK first \in 1 .. last + 1 : first = since[r] + 1
  OBVIOUS
<1>1. Len(log') = last + 1 /\ log'[last + 1] = e /\ \A n \in 1 .. last : log'[n] = log[n]
  BY LastAppended
<1>2. first .. last \subseteq 1 .. last /\ first .. last + 1 = (first .. last) \cup {last + 1}
  OBVIOUS
<1>3. ASSUME NEW x PROVE (\E n \in first .. last + 1 : log'[n] = x) <=> (\E n \in first .. last : log[n] = x) \/ x = e
  BY <1>1, <1>2
<1>4. Due(r)' = {x \in Emissions : topic[x] \in profile[r].topics /\ \E n \in first .. last + 1 : log'[n] = x}
  BY <1>1 DEF Due
<1>5. Due(r) = {x \in Emissions : topic[x] \in profile[r].topics /\ \E n \in first .. last : log[n] = x}
  BY DEF Due
<1> QED
  BY <1>3, <1>4, <1>5

-----------------------------------------------------------------------------
(* The steps.                                                              *)

LEMMA InvInit == Init => Inv
<1> SUFFICES ASSUME Init PROVE Inv
  OBVIOUS
<1>1. <<>> \in Seq(Emissions) /\ Len(<<>>) = 0 /\ DOMAIN <<>> = {}
  BY EmptySeq
<1>2. TypeOK
  BY <1>1 DEF Init, TypeOK, Phases, Attempts
<1>3. ASSUME NEW r \in Receivers PROVE RegistryOK(r) /\ StreamOK(r)
  BY <1>1 DEF Init, RegistryOK, StreamOK, Registered
<1>4. ASSUME NEW e \in Emissions
      PROVE  EmissionOK(e) /\ \A r \in Receivers : PushOK(e, r)
  BY <1>1 DEF Init, EmissionOK, PushOK, PushPhaseOK, Registered, Phases, Attempts
<1> QED
  BY <1>2, <1>3, <1>4 DEF Inv

\* What one receiver is owed depends on its own registration and on the log.
LEMMA SameRegistration ==
    ASSUME NEW r \in Receivers, profile'[r] = profile[r], since'[r] = since[r],
           log' = log, topic' = topic
    PROVE  Due(r)' = Due(r) /\ (Registered(r)' <=> Registered(r))
BY DEF Due, Registered

LEMMA SameStream ==
    ASSUME NEW r \in Receivers, StreamOK(r), profile'[r] = profile[r], since'[r] = since[r],
           log' = log, topic' = topic,
           Registered(r) => (handed[r] \o pending[r])' = handed[r] \o pending[r]
    PROVE  StreamOK(r)'
<1>1. Due(r)' = Due(r)
  BY SameRegistration
<1>2. ASSUME NEW offered PROVE InOrder(offered)' <=> InOrder(offered)
  BY DEF InOrder
<1> SUFFICES ASSUME Registered(r)', profile'[r].mode = "poll"
             PROVE  Exact(r, handed[r] \o pending[r])'
  BY DEF StreamOK
<1> PICK offered : offered = handed[r] \o pending[r]
  OBVIOUS
<1>3. Registered(r) /\ profile[r].mode = "poll"
  BY DEF Registered
<1>4. Exact(r, offered) /\ (handed[r] \o pending[r])' = offered
  BY <1>3 DEF StreamOK
<1>5. ToSet(offered) = Due(r)' /\ IsInjective(offered) /\ InOrder(offered)'
  BY <1>1, <1>2, <1>4 DEF Exact
<1>6. handed'[r] \o pending'[r] = offered
  BY <1>4
<1> QED
  BY <1>5, <1>6 DEF Exact

LEMMA RegisterKeepsInv ==
    ASSUME Inv, NEW r \in Receivers, NEW p \in Profiles, Register(r, p)
    PROVE  Inv'
<1> PICK last \in Nat : last = Len(log)
  BY LenProperties DEF Inv, TypeOK
<1>1. /\ profile' = [profile EXCEPT ![r] = p] /\ since' = [since EXCEPT ![r] = last]
      /\ UNCHANGED <<pending, handed, log, topic, emission, phase, tries, received>>
      /\ since[r] = -1
  BY DEF Register, pushVars
<1>2. TypeOK'
  BY <1>1 DEF Inv, TypeOK
<1>3. /\ profile'[r] = p /\ since'[r] = last
      /\ \A q \in Receivers : q # r => profile'[q] = profile[q] /\ since'[q] = since[q]
  BY <1>1 DEF Inv, TypeOK
<1>4. Due(r)' = {}
  BY <1>1, <1>3 DEF Due
<1>5. ASSUME NEW q \in Receivers PROVE RegistryOK(q)'
  BY <1>1, <1>3 DEF Inv, RegistryOK, Registered
<1>6. ASSUME NEW q \in Receivers PROVE StreamOK(q)'
  <2>1. CASE q = r
    <3>1. handed'[r] = <<>> /\ pending'[r] = <<>>
      BY <1>1 DEF Inv, RegistryOK
    <3>2. <<>> \o <<>> = <<>> /\ ToSet(<<>>) = {} /\ IsInjective(<<>>) /\ InOrder(<<>>)'
      BY EmptyStream DEF InOrder
    <3>3. Exact(r, handed[r] \o pending[r])'
      BY <1>4, <3>1, <3>2 DEF Exact
    <3> QED
      BY <2>1, <3>3 DEF StreamOK
  <2>2. CASE q # r
    BY <1>1, <1>3, <2>2, SameStream DEF Inv
  <2> QED
    BY <2>1, <2>2
<1>7. ASSUME NEW e \in Emissions PROVE EmissionOK(e)'
  BY <1>1 DEF Inv, EmissionOK, Settled
<1>8. ASSUME NEW e \in Emissions, NEW q \in Receivers PROVE PushOK(e, q)'
  <2>1. PushOK(e, q)
    BY DEF Inv
  <2>2. CASE q = r
    <3>1. phase[e][r] = "none"
      BY <1>1 DEF Inv, RegistryOK
    <3> QED
      BY <1>1, <1>4, <2>1, <2>2, <3>1 DEF PushOK
  <2>3. CASE q # r
    <3>1. Due(q)' = Due(q) /\ (Registered(q)' <=> Registered(q)) /\ profile'[q] = profile[q]
      BY <1>1, <1>3, <2>3, SameRegistration
    <3> QED
      BY <1>1, <2>1, <3>1 DEF PushOK
  <2> QED
    BY <2>2, <2>3
<1> QED
  BY <1>2, <1>5, <1>6, <1>7, <1>8 DEF Inv

LEMMA DeregisterKeepsInv ==
    ASSUME Inv, NEW r \in Receivers, Deregister(r)
    PROVE  Inv'
<1>1. /\ profile' = [profile EXCEPT ![r] = Nobody] /\ pending' = [pending EXCEPT ![r] = <<>>]
      /\ UNCHANGED <<handed, log, since, topic, emission, phase, tries, received>>
      /\ Registered(r)
  BY DEF Deregister, pushVars
<1>2. TypeOK'
  BY <1>1, EmptySeq DEF Inv, TypeOK
<1>3. /\ ~ Registered(r)'
      /\ \A q \in Receivers : q # r => profile'[q] = profile[q] /\ pending'[q] = pending[q]
  BY <1>1 DEF Inv, TypeOK, Registered
<1>4. ASSUME NEW q \in Receivers PROVE RegistryOK(q)'
  BY <1>1, <1>3 DEF Inv, RegistryOK, Registered
<1>5. ASSUME NEW q \in Receivers PROVE StreamOK(q)'
  <2>1. CASE q = r
    BY <1>3, <2>1 DEF StreamOK
  <2>2. CASE q # r
    BY <1>1, <1>3, <2>2, SameStream DEF Inv
  <2> QED
    BY <2>1, <2>2
<1>6. ASSUME NEW e \in Emissions PROVE EmissionOK(e)'
  BY <1>1 DEF Inv, EmissionOK, Settled
<1>7. ASSUME NEW e \in Emissions, NEW q \in Receivers PROVE PushOK(e, q)'
  <2>1. PushOK(e, q)
    BY DEF Inv
  <2>2. CASE q = r
    BY <1>1, <1>3, <2>1, <2>2 DEF PushOK
  <2>3. CASE q # r
    <3>1. Due(q)' = Due(q) /\ (Registered(q)' <=> Registered(q)) /\ profile'[q] = profile[q]
      BY <1>1, <1>3, <2>3, SameRegistration
    <3> QED
      BY <1>1, <2>1, <3>1 DEF PushOK
  <2> QED
    BY <2>2, <2>3
<1> QED
  BY <1>2, <1>4, <1>5, <1>6, <1>7 DEF Inv

\* A poll moves what is queued behind what was handed out.
LEMMA PollKeepsInv ==
    ASSUME Inv, NEW r \in Receivers, Poll(r)
    PROVE  Inv'
<1>1. /\ handed' = [handed EXCEPT ![r] = handed[r] \o pending[r]]
      /\ pending' = [pending EXCEPT ![r] = <<>>]
      /\ UNCHANGED <<profile, log, since, topic, emission, phase, tries, received>>
      /\ Registered(r)
  BY DEF Poll, pushVars
<1>2. handed[r] \in Seq(Emissions) /\ pending[r] \in Seq(Emissions)
  BY DEF Inv, TypeOK
<1>3. handed[r] \o pending[r] \in Seq(Emissions) /\ <<>> \in Seq(Emissions)
  BY <1>2, ConcatProperties, EmptySeq
<1>4. TypeOK'
  BY <1>1, <1>3 DEF Inv, TypeOK
<1>5. ASSUME NEW q \in Receivers PROVE RegistryOK(q)'
  <2>1. q = r => since[q] # -1
    BY <1>1 DEF Inv, RegistryOK
  <2>2. q # r => handed'[q] = handed[q] /\ pending'[q] = pending[q]
    BY <1>1 DEF Inv, TypeOK
  <2> QED
    BY <1>1, <2>1, <2>2 DEF Inv, RegistryOK, Registered
<1>6. ASSUME NEW q \in Receivers PROVE StreamOK(q)'
  <2>1. handed'[q] \o pending'[q] = handed[q] \o pending[q]
    <3>1. CASE q = r
      <4>1. handed'[r] = handed[r] \o pending[r] /\ pending'[r] = <<>>
        BY <1>1 DEF Inv, TypeOK
      <4>2. (handed[r] \o pending[r]) \o <<>> = handed[r] \o pending[r]
        BY <1>3, ConcatEmptySeq
      <4> QED
        BY <3>1, <4>1, <4>2
    <3>2. CASE q # r
      BY <1>1, <3>2 DEF Inv, TypeOK
    <3> QED
      BY <3>1, <3>2
  <2> QED
    BY <1>1, <2>1, SameStream DEF Inv
<1>7. ASSUME NEW e \in Emissions PROVE EmissionOK(e)'
  BY <1>1 DEF Inv, EmissionOK, Settled
<1>8. ASSUME NEW e \in Emissions, NEW q \in Receivers PROVE PushOK(e, q)'
  BY <1>1, SameRegistration DEF Inv, PushOK
<1> QED
  BY <1>4, <1>5, <1>6, <1>7, <1>8 DEF Inv

\* The new emission: it is logged last, and goes to the end of the queues.
LEMMA EmitKeepsInv ==
    ASSUME Inv, NEW e \in Emissions, Emit(e)
    PROVE  Inv'
<1> PICK push \in SUBSET Receivers : push = Audience(topic[e], "push")
  BY DEF Audience
<1> PICK poll \in SUBSET Receivers : poll = Audience(topic[e], "poll")
  BY DEF Audience
<1>0. TypeOK /\ log \in Seq(Emissions)
  BY DEF Inv, TypeOK
<1>1. /\ emission[e] = "idle" /\ log' = Append(log, e)
      /\ pending' = [r \in Receivers |-> IF r \in poll THEN Append(pending[r], e) ELSE pending[r]]
      /\ phase' = [phase EXCEPT ![e] = [r \in Receivers |-> IF r \in push THEN "posting" ELSE "none"]]
      /\ emission' = [emission EXCEPT ![e] = IF push = {} THEN "done" ELSE "delivering"]
      /\ UNCHANGED <<profile, handed, since, topic, tries, received>>
  BY DEF Emit
<1>2. \A r \in Receivers : Registered(r)' <=> Registered(r)
  BY <1>1 DEF Registered
<1>3. log' \in Seq(Emissions) /\ Len(log') = Len(log) + 1 /\ Len(log) \in Nat
      /\ DOMAIN log = 1 .. Len(log) /\ DOMAIN log' = 1 .. Len(log) + 1
      /\ (\A n \in 1 .. Len(log) : log'[n] = log[n]) /\ log'[Len(log) + 1] = e
  BY <1>0, <1>1, LastAppended
<1>4. ASSUME NEW r \in Receivers, Registered(r)
      PROVE  /\ since[r] \in 0 .. Len(log)
             /\ Due(r)' = IF topic[e] \in profile[r].topics THEN Due(r) \cup {e} ELSE Due(r)
             /\ \A x \in Due(r) : \E n \in DOMAIN log : log[n] = x
  <2>1. since[r] \in 0 .. Len(log)
    BY <1>3, <1>4 DEF Inv, RegistryOK
  <2> QED
    BY <1>0, <1>1, <2>1, DueGrows, DueIsLogged
<1>5. \A n \in DOMAIN log : log[n] # e
  BY <1>1 DEF Inv, EmissionOK
<1>6. \A r \in Receivers : phase[e][r] = "none" /\ tries[e][r] = 0 /\ received[e][r] = 0
  BY <1>1 DEF Inv, EmissionOK, PushOK, PushPhaseOK
<1>7. /\ \A x \in Emissions : x # e => phase'[x] = phase[x] /\ emission'[x] = emission[x]
      /\ \A r \in Receivers : phase'[e][r] = IF r \in push THEN "posting" ELSE "none"
      /\ emission'[e] = IF push = {} THEN "done" ELSE "delivering"
  BY <1>0, <1>1 DEF TypeOK
<1>8. \A r \in Receivers : pending'[r] = IF r \in poll THEN Append(pending[r], e) ELSE pending[r]
  BY <1>1
<1>9. TypeOK'
  <2>1. ASSUME NEW r \in Receivers PROVE pending'[r] \in Seq(Emissions)
    <3>1. pending[r] \in Seq(Emissions)
      BY <1>0 DEF TypeOK
    <3>2. Append(pending[r], e) \in Seq(Emissions)
      BY <3>1, AppendProperties
    <3> QED
      BY <1>8, <3>1, <3>2
  <2>2. pending' \in [Receivers -> Seq(Emissions)]
    BY <1>1, <2>1
  <2>3. phase' \in [Emissions -> [Receivers -> Phases]]
    BY <1>0, <1>1 DEF TypeOK, Phases
  <2>4. emission' \in [Emissions -> {"idle", "delivering", "done", "lost"}]
    BY <1>0, <1>1 DEF TypeOK
  <2> QED
    BY <1>0, <1>1, <1>3, <2>2, <2>3, <2>4 DEF TypeOK
<1>10. ASSUME NEW r \in Receivers PROVE RegistryOK(r)'
  <2>1. since'[r] \in -1 .. Len(log') /\ since'[r] = since[r]
    BY <1>1, <1>3 DEF Inv, RegistryOK
  <2>2. ASSUME since[r] = -1
        PROVE  handed'[r] = <<>> /\ pending'[r] = <<>> /\ \A x \in Emissions : phase'[x][r] = "none"
    <3>1. r \notin push /\ r \notin poll
      BY <2>2 DEF Inv, RegistryOK, Audience
    <3> QED
      BY <1>1, <1>7, <1>8, <2>2, <3>1 DEF Inv, RegistryOK
  <2> QED
    BY <1>2, <2>1, <2>2 DEF Inv, RegistryOK
<1>11. ASSUME NEW r \in Receivers PROVE StreamOK(r)'
  <2> SUFFICES ASSUME Registered(r), profile[r].mode = "poll"
               PROVE  Exact(r, handed[r] \o pending[r])'
    BY <1>1, <1>2 DEF StreamOK
  <2>1. handed[r] \in Seq(Emissions) /\ pending[r] \in Seq(Emissions)
    BY <1>0 DEF TypeOK
  <2> PICK offered \in Seq(Emissions) : offered = handed[r] \o pending[r]
    BY <2>1, ConcatProperties
  <2>2. ToSet(offered) = Due(r) /\ IsInjective(offered) /\ InOrder(offered)
    BY DEF Inv, StreamOK, Exact
  <2> PICK more : more = Append(offered, e)
    OBVIOUS
  <2>3. /\ InOrder(offered)'
        /\ (\A x \in ToSet(offered) : \E m \in DOMAIN log : log[m] = x) => InOrder(more)'
    BY <1>0, <1>1, <2>2, OrderKept
  <2>4. /\ ToSet(more) = ToSet(offered) \cup {e}
        /\ IsInjective(offered) /\ e \notin ToSet(offered) => IsInjective(more)
    BY StreamGoesOn
  <2>5. e \notin Due(r)
    BY <1>4, <1>5
  <2>6. CASE r \in poll
    <3>1. Due(r)' = Due(r) \cup {e}
      BY <1>4, <2>6 DEF Audience
    <3>2. handed'[r] \o pending'[r] = more
      <4>1. handed'[r] = handed[r] /\ pending'[r] = Append(pending[r], e)
        BY <1>1, <1>8, <2>6
      <4>2. handed[r] \o Append(pending[r], e) = more
        BY <2>1, QueuedIsOffered, Zenon
      <4> QED
        BY <4>1, <4>2
    <3>3. ToSet(more) = Due(r)' /\ IsInjective(more) /\ InOrder(more)'
      BY <1>4, <2>2, <2>3, <2>4, <2>5, <3>1
    <3> QED
      BY <3>2, <3>3 DEF Exact
  <2>7. CASE r \notin poll
    <3>1. Due(r)' = Due(r)
      BY <1>4, <2>7 DEF Audience
    <3>2. handed'[r] \o pending'[r] = offered
      BY <1>1, <1>8, <2>7
    <3>3. ToSet(offered) = Due(r)' /\ IsInjective(offered) /\ InOrder(offered)'
      BY <2>2, <2>3, <3>1
    <3> QED
      BY <3>2, <3>3 DEF Exact
  <2> QED
    BY <2>6, <2>7
<1>12. ASSUME NEW x \in Emissions PROVE EmissionOK(x)'
  <2>1. CASE x = e
    BY <1>7, <2>1 DEF EmissionOK, Settled
  <2>2. CASE x # e
    <3>1. EmissionOK(x) /\ emission'[x] = emission[x] /\ phase'[x] = phase[x]
      BY <1>7, <2>2 DEF Inv
    <3>2. emission[x] = "idle" => \A n \in DOMAIN log' : log'[n] # x
      BY <1>3, <2>2, <3>1 DEF EmissionOK
    <3> QED
      BY <3>1, <3>2 DEF EmissionOK, Settled
  <2> QED
    BY <2>1, <2>2
<1>13. ASSUME NEW x \in Emissions, NEW r \in Receivers PROVE PushOK(x, r)'
  <2>1. PushOK(x, r) /\ tries' = tries /\ received' = received /\ profile' = profile
    BY <1>1 DEF Inv
  <2>2. CASE x = e
    <3>1. PushPhaseOK(phase[e][r], tries[e][r], received[e][r])'
      BY <1>6, <1>7, <2>1 DEF PushPhaseOK, Phases, Attempts
    <3>2. phase'[e][r] # "failed"
      BY <1>7
    <3>3. ASSUME Registered(r), profile[r].mode = "push", e \in Due(r)' PROVE phase'[e][r] # "none"
      <4>1. e \notin Due(r)
        BY <1>4, <1>5, <3>3
      <4>2. topic[e] \in profile[r].topics
        BY <1>4, <3>3, <4>1
      <4>3. r \in push
        BY <3>3, <4>2 DEF Audience
      <4> QED
        BY <1>7, <4>3
    <3> QED
      BY <1>2, <2>1, <2>2, <3>1, <3>2, <3>3 DEF PushOK
  <2>3. CASE x # e
    <3>1. phase'[x] = phase[x]
      BY <1>7, <2>3
    <3>2. Registered(r) /\ x \in Due(r)' => x \in Due(r)
      BY <1>4, <2>3
    <3> QED
      BY <1>2, <2>1, <3>1, <3>2 DEF PushOK
  <2> QED
    BY <2>2, <2>3
<1> QED
  BY <1>9, <1>10, <1>11, <1>12, <1>13 DEF Inv

\* One push goes on from a POST or a pause.
LEMMA OnePushKeepsInv ==
    ASSUME Inv, NEW e \in Emissions, NEW r \in Receivers, phase[e][r] \in {"posting", "backoff"},
           NEW ph, NEW failed, NEW arrived, PushPhaseOK(ph, failed, arrived), ph # "none",
           ph = "failed" => failed = Attempts,
           phase' = [phase EXCEPT ![e][r] = ph],
           tries' = [tries EXCEPT ![e][r] = failed],
           received' = [received EXCEPT ![e][r] = arrived],
           UNCHANGED <<profile, pending, handed, log, since, topic, emission>>
    PROVE  Inv'
<1>1. ph \in Phases /\ failed \in 0 .. Attempts /\ arrived \in 0 .. Attempts
  BY DEF PushPhaseOK
<1>2. TypeOK'
  BY <1>1 DEF Inv, TypeOK
<1>3. /\ phase'[e][r] = ph /\ tries'[e][r] = failed /\ received'[e][r] = arrived
      /\ \A x \in Emissions, q \in Receivers : x # e \/ q # r =>
            phase'[x][q] = phase[x][q] /\ tries'[x][q] = tries[x][q] /\ received'[x][q] = received[x][q]
  BY DEF Inv, TypeOK
<1>4. since[r] # -1 /\ emission[e] # "idle" /\ emission[e] # "done"
  BY DEF Inv, RegistryOK, EmissionOK, Settled
<1>5. ASSUME NEW q \in Receivers PROVE RegistryOK(q)' /\ StreamOK(q)'
  <2>1. RegistryOK(q)'
    BY <1>3, <1>4 DEF Inv, RegistryOK, Registered
  <2>2. StreamOK(q)'
    BY SameStream DEF Inv
  <2> QED
    BY <2>1, <2>2
<1>6. ASSUME NEW x \in Emissions PROVE EmissionOK(x)'
  <2>1. EmissionOK(x) /\ emission' = emission /\ log' = log
    BY DEF Inv
  <2>2. x # e => \A q \in Receivers : phase'[x][q] = phase[x][q]
    BY <1>3
  <2> QED
    BY <1>4, <2>1, <2>2 DEF EmissionOK, Settled
<1>7. ASSUME NEW x \in Emissions, NEW q \in Receivers PROVE PushOK(x, q)'
  <2>1. PushOK(x, q) /\ profile' = profile
    BY DEF Inv
  <2>2. Due(q)' = Due(q) /\ (Registered(q)' <=> Registered(q))
    BY SameRegistration
  <2>3. CASE x = e /\ q = r
    BY <1>3, <2>1, <2>2, <2>3 DEF PushOK
  <2>4. CASE x # e \/ q # r
    BY <1>3, <2>1, <2>2, <2>4 DEF PushOK
  <2> QED
    BY <2>3, <2>4
<1> QED
  BY <1>2, <1>5, <1>6, <1>7 DEF Inv

LEMMA PushStepKeepsInv ==
    ASSUME Inv, NEW e \in Emissions, NEW r \in Receivers, PushStep(e, r)
    PROVE  Inv'
<1> PICK failed \in 0 .. Attempts : failed = tries[e][r]
  BY DEF Inv, TypeOK
<1> PICK arrived \in 0 .. Attempts : arrived = received[e][r]
  BY DEF Inv, TypeOK
<1>1. PushPhaseOK(phase[e][r], failed, arrived)
  BY DEF Inv, PushOK
<1>2. TypeOK
  BY DEF Inv
<1>3. CASE PostAccepted(e, r)
  <2>1. /\ phase[e][r] = "posting" /\ phase' = [phase EXCEPT ![e][r] = "delivered"]
        /\ tries' = [tries EXCEPT ![e][r] = failed]
        /\ received' = [received EXCEPT ![e][r] = arrived + 1]
        /\ UNCHANGED <<profile, pending, handed, log, since, topic, emission>>
    BY <1>2, <1>3 DEF PostAccepted, TypeOK
  <2>2. PushPhaseOK("delivered", failed, arrived + 1)
    BY <1>1, <2>1 DEF PushPhaseOK, Phases, Attempts
  <2> QED
    BY <2>1, <2>2, OnePushKeepsInv
<1>4. ASSUME NEW got \in BOOLEAN, PostFailed(e, r, got) PROVE Inv'
  <2> PICK more \in {arrived, arrived + 1} : received' = [received EXCEPT ![e][r] = more]
    BY <1>4 DEF PostFailed
  <2> PICK again : again = failed + 1
    OBVIOUS
  <2>1. /\ phase[e][r] = "posting" /\ phase' = [phase EXCEPT ![e][r] = "backoff"]
        /\ tries' = [tries EXCEPT ![e][r] = again]
        /\ UNCHANGED <<profile, pending, handed, log, since, topic, emission>>
    BY <1>4 DEF PostFailed
  <2>2. PushPhaseOK("backoff", again, more)
    BY <1>1, <2>1 DEF PushPhaseOK, Phases, Attempts
  <2> QED
    BY <2>1, <2>2, OnePushKeepsInv
<1>5. CASE BackoffOver(e, r)
  <2> PICK ph : ph = IF failed < Attempts THEN "posting" ELSE "failed"
    OBVIOUS
  <2>1. /\ phase[e][r] = "backoff" /\ phase' = [phase EXCEPT ![e][r] = ph]
        /\ tries' = [tries EXCEPT ![e][r] = failed]
        /\ received' = [received EXCEPT ![e][r] = arrived]
        /\ UNCHANGED <<profile, pending, handed, log, since, topic, emission>>
    BY <1>2, <1>5 DEF BackoffOver, TypeOK
  <2>2. PushPhaseOK(ph, failed, arrived) /\ ph # "none" /\ (ph = "failed" => failed = Attempts)
    BY <1>1, <2>1 DEF PushPhaseOK, Phases, Attempts
  <2> QED
    BY <2>1, <2>2, OnePushKeepsInv
<1> QED
  BY <1>3, <1>4, <1>5 DEF PushStep

LEMMA GatherKeepsInv ==
    ASSUME Inv, NEW e \in Emissions, Gather(e)
    PROVE  Inv'
<1>1. /\ emission[e] = "delivering" /\ Settled(e) /\ emission' = [emission EXCEPT ![e] = "done"]
      /\ UNCHANGED <<profile, pending, handed, log, since, topic, phase, tries, received>>
  BY DEF Gather, pushVars
<1>2. TypeOK'
  BY <1>1 DEF Inv, TypeOK
<1>3. ASSUME NEW r \in Receivers PROVE RegistryOK(r)' /\ StreamOK(r)'
  BY <1>1, SameStream DEF Inv, RegistryOK, Registered
<1>4. ASSUME NEW x \in Emissions PROVE EmissionOK(x)'
  <2>1. emission'[x] = (IF x = e THEN "done" ELSE emission[x]) /\ EmissionOK(x)
    BY <1>1 DEF Inv, TypeOK
  <2> QED
    BY <1>1, <2>1 DEF EmissionOK, Settled
<1>5. ASSUME NEW x \in Emissions, NEW r \in Receivers PROVE PushOK(x, r)'
  BY <1>1, SameRegistration DEF Inv, PushOK
<1> QED
  BY <1>2, <1>3, <1>4, <1>5 DEF Inv

\* A restart: nobody is registered, and no POST is under way.
LEMMA RestartKeepsInv == Inv /\ Restart => Inv'
<1> SUFFICES ASSUME Inv, Restart PROVE Inv'
  OBVIOUS
<1>1. /\ \A r \in Receivers : profile'[r] = Nobody /\ pending'[r] = <<>>
      /\ \A e \in Emissions : emission'[e] = IF emission[e] = "delivering" THEN "lost" ELSE emission[e]
      /\ \A e \in Emissions, r \in Receivers :
            phase'[e][r] = IF phase[e][r] \in {"posting", "backoff"} THEN "failed" ELSE phase[e][r]
      /\ UNCHANGED <<handed, log, since, topic, tries, received>>
  BY DEF Restart
<1>2. TypeOK'
  <2>1. profile' \in [Receivers -> Profiles \cup {Nobody}] /\ pending' \in [Receivers -> Seq(Emissions)]
    BY EmptySeq DEF Restart
  <2>2. /\ emission' \in [Emissions -> {"idle", "delivering", "done", "lost"}]
        /\ phase' \in [Emissions -> [Receivers -> Phases]]
    BY DEF Restart, Inv, TypeOK, Phases
  <2> QED
    BY <1>1, <2>1, <2>2 DEF Inv, TypeOK
<1>3. \A r \in Receivers : ~ Registered(r)'
  BY <1>1 DEF Registered
<1>4. ASSUME NEW r \in Receivers PROVE RegistryOK(r)' /\ StreamOK(r)'
  <2>1. RegistryOK(r)'
    BY <1>1, <1>3 DEF Inv, RegistryOK
  <2> QED
    BY <1>3, <2>1 DEF StreamOK
<1>5. ASSUME NEW e \in Emissions PROVE EmissionOK(e)'
  <2>1. EmissionOK(e)
    BY DEF Inv
  <2> QED
    BY <1>1, <2>1 DEF EmissionOK, Settled
<1>6. ASSUME NEW e \in Emissions, NEW r \in Receivers PROVE PushOK(e, r)'
  <2>1. PushPhaseOK(phase[e][r], tries[e][r], received[e][r])
    BY DEF Inv, PushOK
  <2>2. PushPhaseOK(phase[e][r], tries[e][r], received[e][r])'
    BY <1>1, <2>1 DEF PushPhaseOK, Phases
  <2> QED
    BY <1>3, <2>2 DEF PushOK
<1> QED
  BY <1>2, <1>4, <1>5, <1>6 DEF Inv

LEMMA InvInductive == Inv /\ [Next]_vars => Inv'
<1> SUFFICES ASSUME Inv, [Next]_vars PROVE Inv'
  OBVIOUS
<1>1. CASE UNCHANGED vars
  <2>1. UNCHANGED <<profile, pending, handed, log, since, topic, emission, phase, tries, received>>
    BY <1>1 DEF vars
  <2>2. TypeOK'
    BY <2>1 DEF Inv, TypeOK
  <2>3. ASSUME NEW r \in Receivers PROVE RegistryOK(r)' /\ StreamOK(r)'
    BY <2>1, SameStream DEF Inv, RegistryOK, Registered
  <2>4. ASSUME NEW e \in Emissions PROVE EmissionOK(e)' /\ \A r \in Receivers : PushOK(e, r)'
    BY <2>1, SameRegistration DEF Inv, EmissionOK, Settled, PushOK
  <2> QED
    BY <2>2, <2>3, <2>4 DEF Inv
<1>2. ASSUME NEW r \in Receivers, (\E p \in Profiles : Register(r, p)) \/ Deregister(r) \/ Poll(r)
      PROVE  Inv'
  BY <1>2, RegisterKeepsInv, DeregisterKeepsInv, PollKeepsInv
<1>3. ASSUME NEW e \in Emissions, Emit(e) \/ (\E r \in Receivers : PushStep(e, r)) \/ Gather(e)
      PROVE  Inv'
  BY <1>3, EmitKeepsInv, PushStepKeepsInv, GatherKeepsInv
<1> QED
  BY <1>1, <1>2, <1>3, RestartKeepsInv DEF Next

-----------------------------------------------------------------------------
(* The theorems.                                                           *)

\* The invariant holds whatever registers, polls, fails and restarts, in
\* whichever order.
THEOREM Invariant == Spec => []Inv
BY InvInit, InvInductive, PTL DEF Spec

\* Queues and pushes are well typed; at most three POSTs of an event fail, and
\* at most three arrive.
THEOREM TypeCorrect == Spec => []TypeOK
<1>1. Inv => TypeOK
  BY DEF Inv
<1> QED
  BY <1>1, Invariant, PTL

\* A poll receiver gets the events of its types since it registered, each once
\* and in order.
THEOREM PollStreamExactHolds == Spec => []PollStreamExact
<1>1. Inv => PollStreamExact
  BY DEF Inv, StreamOK, Exact, PollStreamExact
<1> QED
  BY <1>1, Invariant, PTL

\* When an emitter returns, no push receiver is passed over.
THEOREM NobodyPassedOverHolds == Spec => []NobodyPassedOver
<1>1. Inv => NobodyPassedOver
  <2> SUFFICES ASSUME Inv, NEW r \in Receivers, NEW e \in Emissions, Registered(r),
                      profile[r].mode = "push", emission[e] = "done", e \in Due(r)
               PROVE  received[e][r] > 0 \/ tries[e][r] = Attempts
    BY DEF NobodyPassedOver
  <2>1. PushOK(e, r) /\ Settled(e)
    BY DEF Inv, EmissionOK
  <2>2. phase[e][r] \in {"delivered", "failed"}
    BY <2>1 DEF PushOK, PushPhaseOK, Settled, Phases
  <2> QED
    BY <2>1, <2>2 DEF PushOK, PushPhaseOK
<1> QED
  BY <1>1, Invariant, PTL

=============================================================================
