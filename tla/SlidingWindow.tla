---------------------------- MODULE SlidingWindow ----------------------------
(***************************************************************************)
(* What a rate limiter promises: of the requests of one identity, no more  *)
(* than MaxRequests are admitted within any Window ticks.  Which requests  *)
(* it refuses beyond that is its own affair.                               *)
(***************************************************************************)
EXTENDS Integers, Sequences

CONSTANTS Keys, MaxRequests, Window

\* Per key: how long ago its admissions were, the oldest first, those within the
\* window only.
VARIABLE recent

\* The first ones that are past the window are left out.
Within(ages) ==
    LET past == CHOOSE n \in 0 .. Len(ages) : \A i \in 1 .. Len(ages) : ages[i] >= Window <=> i <= n
    IN  SubSeq(ages, past + 1, Len(ages))

Older(ages) == [i \in DOMAIN ages |-> ages[i] + 1]

WInit == recent = [k \in Keys |-> <<>>]

WAdmit(k) ==
    /\ Len(recent[k]) < MaxRequests
    /\ recent' = [recent EXCEPT ![k] = Append(@, 0)]

WTick == recent' = [k \in Keys |-> Within(Older(recent[k]))]

WNext == WTick \/ \E k \in Keys : WAdmit(k)

WSpec == WInit /\ [][WNext]_recent

=============================================================================
