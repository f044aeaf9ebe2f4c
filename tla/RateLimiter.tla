----------------------------- MODULE RateLimiter -----------------------------
(***************************************************************************)
(* The rate limiters of src/app/runtime.py, as create_app chooses one and  *)
(* the middleware of main.py uses it.                                      *)
(*                                                                         *)
(* InMemoryRateLimiter keeps, per identity, a deque of the times of its    *)
(* admitted requests; its check is one step.  RedisRateLimiter is shared   *)
(* by several processes: a counter per identity that Redis forgets when    *)
(* its time to live is over, incremented and renewed in one transaction;   *)
(* over the limit, the time to live is asked for in a second command.  An  *)
(* error of Redis, at either command, lets the request pass.               *)
(*                                                                         *)
(* Times are kept as ages, in ticks of which Second make a second.         *)
(***************************************************************************)
EXTENDS Integers, Sequences, SequencesExt

CONSTANTS
    Keys,         \* identities: API keys, client addresses, "session"
    Processes,    \* app processes, each doing one check at a time
    MaxRequests,
    Window,       \* window_seconds, in ticks
    Second,
    MaxCount,     \* bound: counters stop there
    Nothing       \* the process is in no check

ASSUME LimiterAssumption ==
    /\ {MaxRequests, Window, Second} \subseteq Nat \ {0} /\ Window % Second = 0
    /\ MaxCount \in Nat /\ MaxCount > MaxRequests
    /\ Nothing \notin Keys

VARIABLES
    backend,   \* "memory" or "redis", for the life of the process
    admitted,  \* per key: ages of the requests let through; the deque in memory,
               \* with Redis the requests that it counted and let pass
    wait,      \* per key: ticks until the Retry-After of the last denial is over
    count,     \* per key: the counter in Redis, 0 if there is none
    ttl,       \* per key: its time to live, 0 if there is none
    asking,    \* per process: the key it is about to ask the time to live of
    answer     \* per key: what check returned last

vars == <<backend, admitted, wait, count, ttl, asking, answer>>
redisVars == <<count, ttl, asking>>

Init ==
    /\ backend \in {"memory", "redis"}
    /\ admitted = [k \in Keys |-> <<>>]
    /\ wait = [k \in Keys |-> 0]
    /\ count = [k \in Keys |-> 0]
    /\ ttl = [k \in Keys |-> 0]
    /\ asking = [p \in Processes |-> Nothing]
    /\ answer = [k \in Keys |-> "none"]

\* The oldest comes first: those of the first `past` are past the window.
Within(ages) ==
    LET past == CHOOSE n \in 0 .. Len(ages) : \A i \in 1 .. Len(ages) : ages[i] >= Window <=> i <= n
    IN  SubSeq(ages, past + 1, Len(ages))

-----------------------------------------------------------------------------
(* InMemoryRateLimiter.check.                                              *)

\* What is left when the loop has popped entries as old as that.
Popping(ages, old) ==
    LET popped == CHOOSE n \in 0 .. Len(ages) :
                     /\ \A i \in 1 .. n : ages[i] >= old
                     /\ n < Len(ages) => ages[n + 1] < old
    IN  SubSeq(ages, popped + 1, Len(ages))

\* Defective variants, for mutation: entries are pruned a tick too early, or
\* kept for ever.
PrunedEarly(ages) == Popping(ages, Window - 1)
PrunedNever(ages) == ages

\* While bucket[0] <= now - window_seconds, popleft.
Pruned(ages) == Popping(ages, Window)

\* Defective variant, for mutation: the newest entry stands for the oldest.
RetryAfterNewest(ages) ==
    LET seconds == (Window - Last(ages)) \div Second IN IF seconds > 1 THEN seconds ELSE 1

\* max(1, int(window - (now - bucket[0]))), in whole seconds.
RetryAfter(ages) ==
    LET seconds == (Window - Head(ages)) \div Second IN IF seconds > 1 THEN seconds ELSE 1

\* Defective variant, for mutation: one request too many.
AdmitOneMore(k) ==
    /\ backend = "memory"
    /\ Len(Pruned(admitted[k])) <= MaxRequests
    /\ admitted' = [admitted EXCEPT ![k] = Append(Pruned(@), 0)]
    /\ answer' = [answer EXCEPT ![k] = "allowed"]
    /\ wait' = [wait EXCEPT ![k] = 0]
    /\ UNCHANGED <<backend, redisVars>>

Admit(k) ==
    /\ backend = "memory"
    /\ Len(Pruned(admitted[k])) < MaxRequests
    /\ admitted' = [admitted EXCEPT ![k] = Append(Pruned(@), 0)]
    /\ answer' = [answer EXCEPT ![k] = "allowed"]
    /\ wait' = [wait EXCEPT ![k] = 0]
    /\ UNCHANGED <<backend, redisVars>>

Refuse(k) ==
    /\ backend = "memory"
    /\ Len(Pruned(admitted[k])) >= MaxRequests
    /\ admitted' = [admitted EXCEPT ![k] = Pruned(@)]
    /\ answer' = [answer EXCEPT ![k] = "denied"]
    /\ wait' = [wait EXCEPT ![k] = RetryAfter(Pruned(admitted[k])) * Second]
    /\ UNCHANGED <<backend, redisVars>>

Check(k) == Admit(k) \/ Refuse(k)

-----------------------------------------------------------------------------
(* RedisRateLimiter.check.                                                 *)

\* Defective variant, for mutation: the time to live is never set.
CountUnexpiring(k) ==
    /\ count' = [count EXCEPT ![k] = IF @ < MaxCount THEN @ + 1 ELSE @]
    /\ UNCHANGED ttl

\* INCR and EXPIRE.
Count(k) ==
    /\ count' = [count EXCEPT ![k] = IF @ < MaxCount THEN @ + 1 ELSE @]
    /\ ttl' = [ttl EXCEPT ![k] = Window]

CanCheck(p) == backend = "redis" /\ asking[p] = Nothing

Allow(p, k) ==
    /\ CanCheck(p)
    /\ count[k] < MaxRequests
    /\ Count(k)
    /\ answer' = [answer EXCEPT ![k] = "allowed"]
    /\ admitted' = [admitted EXCEPT ![k] = Append(@, 0)]
    /\ UNCHANGED <<backend, wait, asking>>

Exceed(p, k) ==
    /\ CanCheck(p)
    /\ count[k] >= MaxRequests
    /\ Count(k)
    /\ asking' = [asking EXCEPT ![p] = k]
    /\ UNCHANGED <<backend, admitted, wait, answer>>

Deny(p) ==
    /\ asking[p] # Nothing
    /\ answer' = [answer EXCEPT ![asking[p]] = "denied"]
    /\ asking' = [asking EXCEPT ![p] = Nothing]
    /\ UNCHANGED <<backend, admitted, wait, count, ttl>>

\* Redis cannot be reached, or its answer is lost after it counted.
PassUncounted(p, k) ==
    /\ CanCheck(p)
    /\ Count(k) \/ UNCHANGED <<count, ttl>>
    /\ answer' = [answer EXCEPT ![k] = "allowed"]
    /\ UNCHANGED <<backend, admitted, wait, asking>>

PassUnasked(p) ==
    /\ asking[p] # Nothing
    /\ answer' = [answer EXCEPT ![asking[p]] = "allowed"]
    /\ asking' = [asking EXCEPT ![p] = Nothing]
    /\ UNCHANGED <<backend, admitted, wait, count, ttl>>

-----------------------------------------------------------------------------
\* An age beyond the window is as good as the window; the deque keeps such
\* entries until the next check, Redis has no deque.
Aged(ages) ==
    LET older == [i \in DOMAIN ages |-> IF ages[i] < Window THEN ages[i] + 1 ELSE Window]
    IN  IF backend = "memory" THEN older ELSE Within(older)

\* Redis forgets a counter when its time to live is over.
Tick ==
    /\ admitted' = [k \in Keys |-> Aged(admitted[k])]
    /\ wait' = [k \in Keys |-> IF wait[k] > 0 THEN wait[k] - 1 ELSE 0]
    /\ ttl' = [k \in Keys |-> IF ttl[k] > 0 THEN ttl[k] - 1 ELSE 0]
    /\ count' = [k \in Keys |-> IF ttl'[k] = 0 /\ ttl[k] > 0 THEN 0 ELSE count[k]]
    /\ UNCHANGED <<backend, asking, answer>>

Next ==
    \/ Tick
    \/ \E k \in Keys : Check(k)
    \/ \E p \in Processes :
          \/ \E k \in Keys : Allow(p, k) \/ Exceed(p, k) \/ PassUncounted(p, k)
          \/ Deny(p) \/ PassUnasked(p)

Spec == Init /\ [][Next]_vars

\* Time passes, and the clients of the limiter in memory keep calling.
FairSpec == Spec /\ WF_vars(Tick) /\ \A k \in Keys : WF_vars(Check(k))

-----------------------------------------------------------------------------
(* Properties.                                                             *)

\* A deque never holds more than MaxRequests entries, nor are more of one
\* identity in a window of Redis; times to live end.
TypeOK ==
    /\ backend \in {"memory", "redis"}
    /\ admitted \in [Keys -> BoundedSeq(0 .. Window, MaxRequests)]
    /\ wait \in [Keys -> 0 .. Window]
    /\ count \in [Keys -> 0 .. MaxCount]
    /\ ttl \in [Keys -> 0 .. Window]
    /\ asking \in [Processes -> Keys \cup {Nothing}]
    /\ answer \in [Keys -> {"none", "allowed", "denied"}]

\* "Maximum requests per rate-limit window" (docs/product-documentation.md:157):
\* within any window_seconds no identity gets more than max_requests through,
\* from all processes together; what passes because Redis fails (runtime.py:85)
\* is not limited.
Recent == [k \in Keys |-> Within(admitted[k])]
Sliding == INSTANCE SlidingWindow WITH recent <- Recent
SlidingLimit == Sliding!WSpec

\* In memory, Retry-After is right to the second: as long as it tells a client
\* to wait the client is denied, apart from the minimum of one second, and when
\* it is over there is room within a second (int() cuts the fraction off).
RetryAfterHonest ==
    \A k \in Keys : backend = "memory" /\ answer[k] = "denied" =>
        LET left == Window - Head(admitted[k]) IN
        /\ left < wait[k] + Second
        /\ wait[k] <= left \/ wait[k] <= Second

\* In memory, an identity over its limit that keeps calling is admitted again:
\* denied calls do not count ("Rate-limit window duration in seconds",
\* docs/product-documentation.md:158).  With Redis they do.
Readmitted ==
    \A k \in Keys : backend = "memory" /\ answer[k] = "denied" ~> answer[k] = "allowed"

\* A counter without a time to live would deny its identity for ever: there is
\* none, whichever command of whichever process fails.
CountersEnd == \A k \in Keys : count[k] > 0 => ttl[k] > 0

=============================================================================
