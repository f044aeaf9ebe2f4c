-------------------------- MODULE RateLimiterProofs --------------------------
(***************************************************************************)
(* Proofs about the rate limiters, for any number of identities and        *)
(* processes, any limit and any window: counters come to an end,           *)
(* Retry-After is honest, and both limiters implement a sliding window.    *)
(***************************************************************************)
EXTENDS RateLimiter, FiniteSetTheorems, SequenceTheorems, TLAPS

-----------------------------------------------------------------------------
(* Deques: ordered sequences of ages, and where the window cuts them.      *)

Ordered(ages) == \A i, j \in 1 .. Len(ages) : i <= j => ages[i] >= ages[j]

\* The first n entries are past the window and the others are within it.
CutAt(ages, n) ==
    /\ n \in 0 .. Len(ages)
    /\ \A i \in 1 .. Len(ages) : ages[i] >= Window <=> i <= n

LEMMA FunctionIsSeq ==
    ASSUME NEW S, NEW n \in Nat, NEW s \in [1 .. n -> S]
    PROVE  s \in Seq(S) /\ Len(s) = n
OBVIOUS

\* The end of a sequence, entry by entry.
LEMMA Suffix ==
    ASSUME NEW S, NEW s \in Seq(S), NEW n \in 0 .. Len(s)
    PROVE  LET t == SubSeq(s, n + 1, Len(s)) IN
           /\ t \in Seq(S) /\ Len(t) = Len(s) - n
           /\ \A i \in 1 .. Len(s) - n : t[i] = s[n + i]
<1> DEFINE t == SubSeq(s, n + 1, Len(s))
<1>1. Len(s) \in Nat /\ n \in Nat /\ n <= Len(s)
  BY LenProperties
<1>2. \A i \in n + 1 .. Len(s) : s[i] \in S
  BY <1>1, ElementOfSeq
<1>3. /\ t \in Seq(S)
      /\ Len(t) = IF n + 1 <= Len(s) THEN Len(s) - (n + 1) + 1 ELSE 0
      /\ \A i \in 1 .. Len(s) - (n + 1) + 1 : t[i] = s[n + 1 + i - 1]
  BY <1>1, <1>2, SubSeqProperties
<1> HIDE DEF t
<1> QED
  BY <1>1, <1>3 DEF t

\* Where there is a cut, the abstract window, the window of the model and the
\* loop of popleft all leave what is behind it.
LEMMA CutWindows ==
    ASSUME NEW ages \in Seq(Nat), NEW n, CutAt(ages, n)
    PROVE  /\ Within(ages) = SubSeq(ages, n + 1, Len(ages))
           /\ Sliding!Within(ages) = SubSeq(ages, n + 1, Len(ages))
           /\ Pruned(ages) = SubSeq(ages, n + 1, Len(ages))
<1>1. Len(ages) \in Nat /\ n \in 0 .. Len(ages) /\ Window \in Nat
  BY LenProperties, LimiterAssumption DEF CutAt
<1>3. \A m \in 0 .. Len(ages) : CutAt(ages, m) => m = n
  BY <1>1 DEF CutAt
<1>4. n = CHOOSE m \in 0 .. Len(ages) : \A i \in 1 .. Len(ages) : ages[i] >= Window <=> i <= m
  BY <1>1, <1>3 DEF CutAt
<1>5. n = CHOOSE m \in 0 .. Len(ages) :
                     /\ \A i \in 1 .. m : ages[i] >= Window
                     /\ m < Len(ages) => ages[m + 1] < Window
  <2>1. /\ \A i \in 1 .. n : ages[i] >= Window
        /\ n < Len(ages) => ages[n + 1] < Window
    BY <1>1, ElementOfSeq DEF CutAt
  <2>2. ASSUME NEW m \in 0 .. Len(ages), \A i \in 1 .. m : ages[i] >= Window, m < Len(ages) => ages[m + 1] < Window
        PROVE  m = n
    BY <1>1, <2>2, ElementOfSeq DEF CutAt
  <2> QED
    BY <2>1, <2>2, <1>1
<1> QED
  BY <1>4, <1>5 DEF Within, Sliding!Within, Pruned, Popping

LEMMA IntervalSize == \A n \in Nat : IsFiniteSet(1 .. n) /\ Cardinality(1 .. n) = n
BY FS_Interval

\* An ordered deque has a cut.
LEMMA OrderedHasCut ==
    ASSUME NEW ages \in Seq(Nat), Ordered(ages)
    PROVE  \E n : CutAt(ages, n)
<1> PICK len \in Nat : len = Len(ages)
  BY LenProperties
<1> DEFINE old == {i \in 1 .. len : ages[i] >= Window}
<1>1. Window \in Nat /\ \A i \in 1 .. len : ages[i] \in Nat
  BY ElementOfSeq, LimiterAssumption
<1>2. IsFiniteSet(old) /\ Cardinality(old) \in Nat /\ Cardinality(old) <= len
  <2>1. old \in SUBSET (1 .. len)
    OBVIOUS
  <2> HIDE DEF old
  <2>2. IsFiniteSet(1 .. len) /\ Cardinality(1 .. len) = len
    BY IntervalSize
  <2>3. IsFiniteSet(old) /\ Cardinality(old) <= Cardinality(1 .. len)
    BY <2>1, <2>2, FS_Subset
  <2> QED
    BY <2>2, <2>3, FS_CardinalityType
<1>3. \A i \in old : 1 .. i \subseteq old
  BY <1>1 DEF Ordered
<1>4. old \subseteq 1 .. len
  OBVIOUS
<1> HIDE DEF old
<1> PICK n \in Nat : n = Cardinality(old)
  BY <1>2
<1>5. ASSUME NEW i \in old PROVE i \in 1 .. n
  <2>1. 1 .. i \in SUBSET old /\ i \in Nat /\ i >= 1
    BY <1>3, <1>4
  <2>2. Cardinality(1 .. i) <= Cardinality(old)
    BY <1>2, <2>1, FS_Subset
  <2>3. Cardinality(1 .. i) = i
    BY <2>1, IntervalSize
  <2> QED
    BY <2>1, <2>2, <2>3
<1>6. old = 1 .. n
  <2>1. old \in SUBSET (1 .. n)
    BY <1>5
  <2>2. IsFiniteSet(1 .. n) /\ Cardinality(1 .. n) = Cardinality(old)
    BY IntervalSize
  <2> QED
    BY <2>1, <2>2, FS_Subset
<1>7. n \in 0 .. len
  BY <1>2
<1>8. \A i \in 1 .. len : ages[i] >= Window <=> i <= n
  BY <1>6 DEF old
<1> QED
  BY <1>7, <1>8 DEF CutAt

LEMMA WindowIsNat == Window \in Nat \ {0}
BY LimiterAssumption

\* The deques that occur.
Deques == {ages \in Seq(0 .. Window) : Ordered(ages)}

LEMMA DequeEntries ==
    ASSUME NEW ages \in Deques
    PROVE  /\ Len(ages) \in Nat /\ DOMAIN ages = 1 .. Len(ages)
           /\ \A i \in 1 .. Len(ages) : ages[i] \in Nat /\ ages[i] <= Window
           /\ Ordered(ages) /\ ages \in Seq(Nat)
<1>1. ages \in Seq(0 .. Window) /\ Ordered(ages)
  BY DEF Deques
<1>2. 0 .. Window \subseteq Nat
  BY WindowIsNat
<1>3. \A i \in 1 .. Len(ages) : ages[i] \in 0 .. Window
  BY <1>1, ElementOfSeq
<1>4. ages \in Seq(Nat)
  BY <1>1, <1>2, SeqMonotonic
<1>5. Len(ages) \in Nat /\ DOMAIN ages = 1 .. Len(ages)
  BY <1>4, LenProperties
<1> QED
  BY <1>1, <1>3, <1>4, <1>5, WindowIsNat

LEMMA EntriesMakeDeque ==
    ASSUME NEW ages \in Seq(Nat), Ordered(ages), \A i \in 1 .. Len(ages) : ages[i] <= Window
    PROVE  ages \in Deques
<1>1. ages \in [1 .. Len(ages) -> Nat] /\ Len(ages) \in Nat
  BY LenProperties
<1>2. ages \in [1 .. Len(ages) -> 0 .. Window]
  BY <1>1, WindowIsNat
<1>3. ages \in Seq(0 .. Window)
  BY <1>1, <1>2, FunctionIsSeq, Zenon
<1> QED
  BY <1>3 DEF Deques

LEMMA EmptyDeque == <<>> \in Deques /\ Len(<<>>) = 0
<1>1. PICK e \in Seq(Nat) : e = <<>> /\ Len(e) = 0
  BY EmptySeq
<1>2. Ordered(e) /\ \A i \in 1 .. Len(e) : e[i] <= Window
  BY <1>1 DEF Ordered
<1>3. e \in Deques
  BY <1>2, EntriesMakeDeque
<1> QED
  BY <1>1, <1>3, Zenon

\* What is left within the window: the end of the deque, a deque itself.
LEMMA WithinIsSuffix ==
    ASSUME NEW ages \in Deques
    PROVE  \E n \in 0 .. Len(ages) :
              /\ CutAt(ages, n)
              /\ Pruned(ages) = Within(ages)
              /\ Within(ages) \in Deques
              /\ Len(Within(ages)) = Len(ages) - n
              /\ \A i \in 1 .. Len(ages) - n : Within(ages)[i] = ages[n + i] /\ Within(ages)[i] < Window
<1> PICK len \in Nat : len = Len(ages)
  BY DequeEntries
<1>1. ages \in Seq(Nat) /\ Ordered(ages) /\ \A i \in 1 .. len : ages[i] \in Nat /\ ages[i] <= Window
  BY DequeEntries
<1>2. PICK n : CutAt(ages, n)
  BY <1>1, OrderedHasCut
<1>3. n \in 0 .. len
  BY <1>2 DEF CutAt
<1> PICK w : w = SubSeq(ages, n + 1, len)
  OBVIOUS
<1>4. w \in Seq(Nat) /\ Len(w) = len - n /\ \A i \in 1 .. len - n : w[i] = ages[n + i]
  BY <1>1, <1>3, Suffix
<1>5. \A i \in 1 .. len - n : w[i] < Window /\ w[i] <= Window
  BY <1>1, <1>2, <1>3, <1>4, WindowIsNat DEF CutAt
<1>6. Ordered(w)
  <2>1. ASSUME NEW i \in 1 .. len - n, NEW j \in 1 .. len - n, i <= j PROVE w[i] >= w[j]
    <3>1. n + i \in 1 .. len /\ n + j \in 1 .. len /\ n + i <= n + j
      BY <1>3, <2>1
    <3>2. ages[n + i] >= ages[n + j]
      BY <1>1, <3>1 DEF Ordered
    <3> QED
      BY <1>4, <3>2
  <2> QED
    BY <1>4, <2>1 DEF Ordered
<1>7. Within(ages) = w /\ Pruned(ages) = w
  BY <1>1, <1>2, CutWindows
<1>8. w \in Deques
  BY <1>4, <1>5, <1>6, EntriesMakeDeque
<1> QED
  BY <1>2, <1>3, <1>4, <1>5, <1>7, <1>8

\* A deque all within the window is left as it is.
LEMMA YoungIsKept ==
    ASSUME NEW ages \in Deques, \A i \in 1 .. Len(ages) : ages[i] < Window
    PROVE  Within(ages) = ages
<1>1. ages \in Seq(Nat) /\ Len(ages) \in Nat /\ \A i \in 1 .. Len(ages) : ages[i] \in Nat
  BY DequeEntries
<1>2. CutAt(ages, 0)
  BY <1>1, WindowIsNat DEF CutAt
<1>3. Within(ages) = SubSeq(ages, 0 + 1, Len(ages))
  BY <1>1, <1>2, CutWindows
<1> QED
  BY <1>1, <1>3, SubSeqFull

\* A new entry is within the window and changes nothing of the others.
LEMMA AppendWithin ==
    ASSUME NEW ages \in Deques
    PROVE  /\ Append(ages, 0) \in Deques
           /\ Len(Append(ages, 0)) = Len(ages) + 1
           /\ Append(ages, 0)[Len(ages) + 1] = 0
           /\ \A i \in 1 .. Len(ages) : Append(ages, 0)[i] = ages[i]
           /\ Within(Append(ages, 0)) = Append(Within(ages), 0)
<1> PICK len \in Nat : len = Len(ages)
  BY DequeEntries
<1>1. \A i \in 1 .. len : ages[i] \in Nat /\ ages[i] <= Window
  BY DequeEntries
<1> PICK more : more = Append(ages, 0)
  OBVIOUS
<1>2. more \in Seq(Nat) /\ Len(more) = len + 1 /\ more[len + 1] = 0
      /\ \A i \in 1 .. len : more[i] = ages[i]
  BY DequeEntries, AppendProperties
<1>3. more \in Deques
  <2>1. \A i \in 1 .. len + 1 : i = len + 1 \/ i \in 1 .. len
    OBVIOUS
  <2>2. Ordered(more)
    BY <1>1, <1>2, <2>1, DequeEntries DEF Ordered
  <2>3. \A i \in 1 .. len + 1 : more[i] <= Window
    BY <1>1, <1>2, <2>1, WindowIsNat
  <2> QED
    BY <1>2, <2>2, <2>3, EntriesMakeDeque
<1> PICK u : u = Within(ages)
  OBVIOUS
<1>4. PICK n \in 0 .. len :
         /\ CutAt(ages, n) /\ u \in Deques /\ Len(u) = len - n
         /\ \A i \in 1 .. len - n : u[i] = ages[n + i]
  BY WithinIsSuffix
<1>k. len - n \in Nat
  OBVIOUS
<1> PICK k \in Nat : k = len - n
  BY <1>k, Zenon
<1>5. CutAt(more, n)
  <2>1. \A i \in 1 .. len : ages[i] >= Window <=> i <= n
    BY <1>4 DEF CutAt
  <2>2. \A i \in 1 .. len + 1 : more[i] >= Window <=> i <= n
    <3> TAKE i \in 1 .. len + 1
    <3>1. CASE i = len + 1
      BY <1>2, <3>1, WindowIsNat
    <3>2. CASE i \in 1 .. len
      BY <1>2, <2>1, <3>2
    <3> QED
      BY <3>1, <3>2
  <2> QED
    BY <1>2, <2>2 DEF CutAt
<1> PICK s : s = SubSeq(more, n + 1, Len(more))
  OBVIOUS
<1>6. Within(more) = s
  BY <1>2, <1>5, CutWindows
<1>7. s \in Seq(Nat) /\ Len(s) = k + 1 /\ \A i \in 1 .. k + 1 : s[i] = more[n + i]
  <2>1. n \in 0 .. Len(more)
    BY <1>2
  <2>2. /\ s \in Seq(Nat) /\ Len(s) = Len(more) - n
        /\ \A i \in 1 .. Len(more) - n : s[i] = more[n + i]
    BY <1>2, <2>1, Suffix, Zenon
  <2>3. Len(more) - n = k + 1
    BY <1>2
  <2> QED
    BY <2>2, <2>3
<1> PICK t : t = Append(u, 0)
  OBVIOUS
<1>8. t \in Seq(Nat) /\ Len(t) = k + 1 /\ t[k + 1] = 0 /\ \A i \in 1 .. k : t[i] = u[i]
  <2>1. u \in Seq(Nat) /\ Len(u) = k
    BY <1>4, DequeEntries
  <2> QED
    BY <2>1, AppendProperties
<1>9. ASSUME NEW i \in 1 .. k + 1 PROVE s[i] = t[i]
  <2>1. CASE i = k + 1
    BY <1>2, <1>7, <1>8, <2>1
  <2>2. CASE i \in 1 .. k
    <3>1. n + i \in 1 .. len
      BY <2>2
    <3> QED
      BY <1>2, <1>4, <1>7, <1>8, <2>2, <3>1
  <2>3. i = k + 1 \/ i \in 1 .. k
    OBVIOUS
  <2> QED
    BY <2>1, <2>2, <2>3
<1>10. s = t
  BY <1>7, <1>8, <1>9, SeqEqual
<1> QED
  BY <1>2, <1>3, <1>6, <1>10

\* The ages a tick later, no more than the window.
Later(ages) == [i \in DOMAIN ages |-> IF ages[i] < Window THEN ages[i] + 1 ELSE Window]

LEMMA LaterAges ==
    ASSUME NEW ages \in Deques
    PROVE  /\ Later(ages) \in Deques
           /\ Len(Later(ages)) = Len(ages)
           /\ \A i \in 1 .. Len(ages) :
                 Later(ages)[i] = IF ages[i] < Window THEN ages[i] + 1 ELSE Window
<1> PICK len \in Nat : len = Len(ages)
  BY DequeEntries
<1>1. DOMAIN ages = 1 .. len /\ \A i \in 1 .. len : ages[i] \in Nat /\ ages[i] <= Window
  BY DequeEntries
<1> PICK o : o = Later(ages)
  OBVIOUS
<1>2. o = [i \in 1 .. len |-> IF ages[i] < Window THEN ages[i] + 1 ELSE Window]
  BY <1>1 DEF Later
<1>3. \A i \in 1 .. len : o[i] \in Nat /\ o[i] <= Window
  BY <1>1, <1>2, WindowIsNat
<1>4. o \in [1 .. len -> Nat]
  BY <1>2, <1>3
<1>5. o \in Seq(Nat) /\ Len(o) = len
  BY <1>4
<1>6. Ordered(o)
  <2>1. ASSUME NEW i \in 1 .. len, NEW j \in 1 .. len, i <= j PROVE o[i] >= o[j]
    <3>1. ages[i] >= ages[j]
      BY <2>1, DequeEntries DEF Ordered
    <3> QED
      BY <1>1, <1>2, <3>1, WindowIsNat
  <2> QED
    BY <1>5, <2>1 DEF Ordered
<1>7. o \in Deques
  BY <1>3, <1>5, <1>6, EntriesMakeDeque
<1> QED
  BY <1>2, <1>5, <1>7

\* A tick of the model is one of the abstract window.
LEMMA LaterWithin ==
    ASSUME NEW ages \in Deques
    PROVE  Within(Later(ages)) = Sliding!Within(Sliding!Older(Within(ages)))
<1> PICK len \in Nat : len = Len(ages)
  BY DequeEntries
<1>0. Window \in Nat /\ \A i \in 1 .. len : ages[i] \in Nat /\ ages[i] <= Window
  BY DequeEntries, WindowIsNat
<1> PICK o : o = Later(ages)
  OBVIOUS
<1>1. o \in Deques /\ Len(o) = len
      /\ \A i \in 1 .. len : o[i] = IF ages[i] < Window THEN ages[i] + 1 ELSE Window
  BY LaterAges
<1> PICK w : w = Within(ages)
  OBVIOUS
<1>2. PICK n \in 0 .. len :
         /\ CutAt(ages, n) /\ w \in Deques /\ Len(w) = len - n
         /\ \A i \in 1 .. len - n : w[i] = ages[n + i] /\ w[i] < Window
  BY WithinIsSuffix
<1> PICK y : y = Within(o)
  OBVIOUS
<1>3. PICK m \in 0 .. len :
         /\ CutAt(o, m) /\ Len(y) = len - m /\ y \in Deques
         /\ \A i \in 1 .. len - m : y[i] = o[m + i]
  <2>0. o \in Deques
    BY <1>1
  <2>1. PICK m \in 0 .. Len(o) :
         /\ CutAt(o, m) /\ Len(Within(o)) = Len(o) - m /\ Within(o) \in Deques
         /\ \A i \in 1 .. Len(o) - m : Within(o)[i] = o[m + i]
    BY <2>0, WithinIsSuffix, Zenon
  <2>2. Len(o) = len
    BY <1>1
  <2> QED
    BY <2>1, <2>2
<1>4. n <= m
  <2>1. CASE n = 0
    BY <2>1
  <2>2. CASE n # 0
    <3>1. n \in 1 .. len /\ ages[n] >= Window
      BY <1>2, <2>2 DEF CutAt
    <3>2. o[n] >= Window
      BY <1>0, <1>1, <3>1
    <3> QED
      BY <1>1, <1>3, <3>1, <3>2 DEF CutAt
  <2> QED
    BY <2>1, <2>2
<1>k. len - n \in Nat
  OBVIOUS
<1> PICK k \in Nat : k = len - n
  BY <1>k, Zenon
<1> PICK d \in 0 .. k : d = m - n
  BY <1>4
<1> PICK v : v = Sliding!Older(w)
  OBVIOUS
<1>5. v \in Seq(Nat) /\ Len(v) = k /\ \A i \in 1 .. k : v[i] = ages[n + i] + 1
  <2>1. DOMAIN w = 1 .. k
    BY <1>2, DequeEntries
  <2>2. v = [i \in 1 .. k |-> w[i] + 1]
    BY <2>1 DEF Sliding!Older
  <2>3. \A i \in 1 .. k : w[i] \in Nat
    BY <1>0, <1>2
  <2>4. v \in [1 .. k -> Nat]
    BY <2>2, <2>3
  <2>5. v \in Seq(Nat) /\ Len(v) = k
    BY <2>4
  <2> QED
    BY <1>2, <2>2, <2>5
<1>6. \A i \in 1 .. k : n + i \in 1 .. len /\ v[i] = o[n + i]
  <2> TAKE i \in 1 .. k
  <2>1. n + i \in 1 .. len
    OBVIOUS
  <2>2. ages[n + i] < Window
    BY <1>2
  <2> QED
    BY <1>1, <1>5, <2>1, <2>2
<1>7. CutAt(v, d)
  <2>1. ASSUME NEW i \in 1 .. k PROVE v[i] >= Window <=> i <= d
    <3>1. o[n + i] >= Window <=> n + i <= m
      BY <1>1, <1>3, <1>6 DEF CutAt
    <3>2. n + i <= m <=> i <= d
      OBVIOUS
    <3> QED
      BY <1>6, <3>1, <3>2
  <2> QED
    BY <1>5, <2>1 DEF CutAt
<1> PICK x : x = SubSeq(v, d + 1, Len(v))
  OBVIOUS
<1>8. Sliding!Within(v) = x
  BY <1>5, <1>7, CutWindows
<1>9. x \in Seq(Nat) /\ Len(x) = k - d /\ \A i \in 1 .. k - d : x[i] = v[d + i]
  <2>1. d \in 0 .. Len(v)
    BY <1>5
  <2>2. x \in Seq(Nat) /\ Len(x) = Len(v) - d /\ \A i \in 1 .. Len(v) - d : x[i] = v[d + i]
    <3>1. v \in Seq(Nat)
      BY <1>5
    <3> QED
      BY <2>1, <3>1, Suffix, Zenon
  <2> QED
    BY <1>5, <2>2
<1>10. y \in Seq(Nat) /\ Len(y) = k - d /\ \A i \in 1 .. k - d : y[i] = o[m + i]
  <2>1. k - d = len - m
    OBVIOUS
  <2> QED
    BY <1>3, <2>1, DequeEntries
<1>11. \A i \in 1 .. Len(y) : y[i] = x[i]
  <2>1. ASSUME NEW i \in 1 .. k - d PROVE y[i] = x[i]
    <3>1. d + i \in 1 .. k /\ n + (d + i) = m + i
      OBVIOUS
    <3> QED
      BY <1>6, <1>9, <1>10, <3>1
  <2> QED
    BY <1>10, <2>1
<1>12. y = x
  BY <1>9, <1>10, <1>11, SeqEqual
<1> QED
  BY <1>8, <1>12

LEMMA BoundedSeqs ==
    ASSUME NEW S, NEW ages
    PROVE  ages \in BoundedSeq(S, MaxRequests) <=> ages \in Seq(S) /\ Len(ages) <= MaxRequests
<1>1. MaxRequests \in Nat
  BY LimiterAssumption
<1>2. ages \in BoundedSeq(S, MaxRequests) <=> \E m \in 0 .. MaxRequests : ages \in [1 .. m -> S]
  BY DEF BoundedSeq, SeqOf
<1>3. ASSUME NEW m \in 0 .. MaxRequests, ages \in [1 .. m -> S]
      PROVE  ages \in Seq(S) /\ Len(ages) <= MaxRequests
  BY <1>1, <1>3
<1>4. ASSUME ages \in Seq(S), Len(ages) <= MaxRequests
      PROVE  \E m \in 0 .. MaxRequests : ages \in [1 .. m -> S]
  <2>1. PICK m \in Nat : m = Len(ages) /\ ages \in [1 .. m -> S]
    BY <1>4, LenProperties
  <2>2. m \in 0 .. MaxRequests
    BY <1>1, <1>4, <2>1
  <2> QED
    BY <2>1, <2>2
<1> QED
  BY <1>2, <1>3, <1>4

-----------------------------------------------------------------------------
(* The inductive invariant, key by key.                                    *)

\* Retry-After, w ticks from now, against the age of the oldest entry.
Honest(oldest, w) ==
    LET left == Window - oldest IN
    left < w + Second /\ (w <= left \/ w <= Second)

KeyTypeOK(ages, w, c, t, a) ==
    /\ ages \in Deques /\ Len(ages) <= MaxRequests
    /\ w \in 0 .. Window /\ c \in 0 .. MaxCount /\ t \in 0 .. Window
    /\ a \in {"none", "allowed", "denied"}

\* In memory a denied identity has entries, the oldest of which its Retry-After
\* is about; in Redis no more requests are within the window than were counted,
\* and none of them leaves it after the counter is forgotten.
KeyOK(ages, w, c, t, a) ==
    /\ KeyTypeOK(ages, w, c, t, a)
    /\ c > 0 => t > 0
    /\ backend = "memory" /\ a = "denied" => Len(ages) >= 1 /\ Honest(ages[1], w)
    /\ backend = "redis" =>
          Len(ages) <= c /\ \A i \in 1 .. Len(ages) : ages[i] + t >= Window

Inv ==
    /\ backend \in {"memory", "redis"}
    /\ admitted \in [Keys -> Deques] /\ wait \in [Keys -> 0 .. Window]
    /\ count \in [Keys -> 0 .. MaxCount] /\ ttl \in [Keys -> 0 .. Window]
    /\ answer \in [Keys -> {"none", "allowed", "denied"}]
    /\ asking \in [Processes -> Keys \cup {Nothing}]
    /\ backend = "memory" => \A p \in Processes : asking[p] = Nothing
    /\ \A k \in Keys : KeyOK(admitted[k], wait[k], count[k], ttl[k], answer[k])

LEMMA Numbers ==
    /\ MaxRequests \in Nat \ {0} /\ Window \in Nat \ {0} /\ Second \in Nat \ {0}
    /\ MaxCount \in Nat /\ MaxCount > MaxRequests
    /\ Second <= Window
<1>1. /\ MaxRequests \in Nat \ {0} /\ Window \in Nat \ {0} /\ Second \in Nat \ {0}
      /\ MaxCount \in Nat /\ MaxCount > MaxRequests /\ Window % Second = 0
  BY LimiterAssumption
<1>2. Window = (Window \div Second) * Second + (Window % Second) /\ Window \div Second \in Nat
  BY <1>1
<1>3. PICK q \in Nat : Window = q * Second
  BY <1>1, <1>2
<1>4. q >= 1
  BY <1>1, <1>3
<1>5. q * Second >= Second
  BY <1>1, <1>4
<1> QED
  BY <1>1, <1>3, <1>5

\* Whole seconds of what is left, at least one, are right to the second.
LEMMA RetryBounds ==
    ASSUME NEW left \in 1 .. Window, NEW w,
           w = (LET seconds == left \div Second IN IF seconds > 1 THEN seconds ELSE 1) * Second
    PROVE  w \in 0 .. Window /\ left < w + Second /\ (w <= left \/ w <= Second)
<1>1. Window \in Nat /\ Second \in Nat \ {0} /\ Second <= Window /\ left \in Nat
  BY Numbers
<1>2. /\ left \div Second \in Nat /\ left % Second \in 0 .. Second - 1
      /\ left = (left \div Second) * Second + (left % Second)
  BY <1>1
<1>3. PICK q \in Nat, r \in 0 .. Second - 1 : q = left \div Second /\ left = q * Second + r
  BY <1>2
<1>4. CASE q > 1
  <2>1. w = q * Second
    BY <1>3, <1>4
  <2>2. q * Second \in Nat
    BY <1>1
  <2> QED
    BY <1>1, <1>3, <2>1, <2>2
<1>5. CASE q <= 1
  <2>1. w = Second
    BY <1>1, <1>3, <1>5
  <2>2. q * Second <= Second
    BY <1>1, <1>5
  <2> QED
    BY <1>1, <1>3, <2>1, <2>2
<1> QED
  BY <1>4, <1>5

-----------------------------------------------------------------------------
(* What a step makes of one key.                                           *)

LEMMA AdmitKeepsKey ==
    ASSUME backend = "memory", NEW ages, NEW w, NEW c, NEW t, NEW a, KeyOK(ages, w, c, t, a),
           Len(Pruned(ages)) < MaxRequests
    PROVE  KeyOK(Append(Pruned(ages), 0), 0, c, t, "allowed")
<1>1. ages \in Deques
  BY DEF KeyOK, KeyTypeOK
<1> PICK left : left = Pruned(ages)
  OBVIOUS
<1>2. left \in Deques /\ Len(left) \in Nat
  BY <1>1, WithinIsSuffix, DequeEntries
<1>3. Append(left, 0) \in Deques /\ Len(Append(left, 0)) = Len(left) + 1
  BY <1>2, AppendWithin
<1> QED
  BY <1>2, <1>3, Numbers DEF KeyOK, KeyTypeOK

LEMMA RefuseKeepsKey ==
    ASSUME backend = "memory", NEW ages, NEW w, NEW c, NEW t, NEW a, KeyOK(ages, w, c, t, a),
           Len(Pruned(ages)) >= MaxRequests
    PROVE  KeyOK(Pruned(ages), RetryAfter(Pruned(ages)) * Second, c, t, "denied")
<1>1. ages \in Deques /\ Len(ages) <= MaxRequests
  BY DEF KeyOK, KeyTypeOK
<1> PICK kept : kept = Pruned(ages)
  OBVIOUS
<1>2. /\ kept \in Deques /\ Len(kept) \in Nat /\ Len(ages) \in Nat /\ Len(kept) <= Len(ages)
      /\ \A i \in 1 .. Len(kept) : kept[i] \in Nat /\ kept[i] < Window
  <2>1. PICK n \in 0 .. Len(ages) :
           /\ kept = Within(ages) /\ kept \in Deques /\ Len(kept) = Len(ages) - n
           /\ \A i \in 1 .. Len(ages) - n : kept[i] < Window
    BY <1>1, WithinIsSuffix, Zenon
  <2>2. Len(ages) \in Nat /\ Len(kept) \in Nat /\ \A i \in 1 .. Len(kept) : kept[i] \in Nat
    BY <1>1, <2>1, DequeEntries
  <2> QED
    BY <2>1, <2>2
<1>3. Len(kept) >= 1
  BY <1>2, Numbers
<1>4. kept[1] \in Nat /\ kept[1] < Window
  BY <1>2, <1>3
<1> PICK left \in 1 .. Window : left = Window - kept[1]
  <2>1. Window - kept[1] \in 1 .. Window
    BY <1>4, WindowIsNat
  <2> QED
    BY <2>1, Zenon
<1> PICK retry : retry = RetryAfter(kept) * Second
  OBVIOUS
<1>5. retry \in 0 .. Window /\ left < retry + Second /\ (retry <= left \/ retry <= Second)
  <2>1. Head(kept) = kept[1]
    BY <1>2, <1>3, DequeEntries
  <2>2. retry = (LET seconds == left \div Second IN IF seconds > 1 THEN seconds ELSE 1) * Second
    BY <2>1 DEF RetryAfter
  <2> QED
    BY <2>2, RetryBounds
<1>6. Honest(kept[1], retry)
  BY <1>5 DEF Honest
<1>7. KeyTypeOK(kept, retry, c, t, "denied")
  BY <1>1, <1>2, <1>5, Numbers DEF KeyOK, KeyTypeOK
<1> QED
  BY <1>3, <1>6, <1>7 DEF KeyOK

\* INCR and EXPIRE, of a request that is let through or not.
LEMMA CountKeepsKey ==
    ASSUME backend = "redis", NEW ages, NEW w, NEW c, NEW t, NEW a, KeyOK(ages, w, c, t, a),
           NEW b \in {"none", "allowed", "denied"}, NEW more, more = IF c < MaxCount THEN c + 1 ELSE c
    PROVE  /\ KeyOK(ages, w, more, Window, b)
           /\ c < MaxRequests => KeyOK(Append(ages, 0), w, more, Window, b)
<1>1. /\ ages \in Deques /\ Len(ages) <= MaxRequests /\ Len(ages) \in Nat
      /\ w \in 0 .. Window /\ c \in 0 .. MaxCount /\ t \in 0 .. Window
      /\ Len(ages) <= c
      /\ \A i \in 1 .. Len(ages) : ages[i] \in Nat
  BY DequeEntries DEF KeyOK, KeyTypeOK
<1>2. more \in 0 .. MaxCount /\ more >= c /\ (c < MaxRequests => more = c + 1)
  BY <1>1, Numbers
<1>3. Window \in 0 .. Window /\ Window > 0
  BY Numbers
<1>4. KeyTypeOK(ages, w, more, Window, b)
  BY <1>1, <1>2, <1>3 DEF KeyTypeOK
<1>5. KeyOK(ages, w, more, Window, b)
  BY <1>1, <1>2, <1>3, <1>4, Numbers DEF KeyOK
<1>6. ASSUME c < MaxRequests PROVE KeyOK(Append(ages, 0), w, more, Window, b)
  <2> PICK longer : longer = Append(ages, 0)
    OBVIOUS
  <2>1. /\ longer \in Deques /\ Len(longer) = Len(ages) + 1
        /\ \A i \in 1 .. Len(longer) : longer[i] \in Nat
    BY <1>1, AppendWithin, DequeEntries
  <2>2. KeyTypeOK(longer, w, more, Window, b)
    BY <1>1, <1>2, <1>3, <1>6, <2>1, Numbers DEF KeyTypeOK
  <2> QED
    BY <1>1, <1>2, <1>3, <1>6, <2>1, <2>2, Numbers DEF KeyOK
<1> QED
  BY <1>5, <1>6

LEMMA AnswerKeepsKey ==
    ASSUME backend = "redis", NEW ages, NEW w, NEW c, NEW t, NEW a, KeyOK(ages, w, c, t, a),
           NEW b \in {"none", "allowed", "denied"}
    PROVE  KeyOK(ages, w, c, t, b)
BY DEF KeyOK, KeyTypeOK

LEMMA TickKeepsKey ==
    ASSUME backend \in {"memory", "redis"},
           NEW ages, NEW w, NEW c, NEW t, NEW a, KeyOK(ages, w, c, t, a),
           NEW lower, lower = IF w > 0 THEN w - 1 ELSE 0,
           NEW less, less = IF t > 0 THEN t - 1 ELSE 0,
           NEW fewer, fewer = IF less = 0 /\ t > 0 THEN 0 ELSE c
    PROVE  KeyOK(Aged(ages), lower, fewer, less, a)
<1>1. /\ ages \in Deques /\ Len(ages) <= MaxRequests /\ Len(ages) \in Nat
      /\ w \in 0 .. Window /\ c \in 0 .. MaxCount /\ t \in 0 .. Window /\ (c > 0 => t > 0)
      /\ \A i \in 1 .. Len(ages) : ages[i] \in Nat /\ ages[i] <= Window
  BY DequeEntries DEF KeyOK, KeyTypeOK
<1>2. /\ lower \in 0 .. Window /\ fewer \in 0 .. MaxCount /\ less \in 0 .. Window
      /\ fewer > 0 => less > 0
  BY <1>1, Numbers
<1> PICK o : o = Later(ages)
  OBVIOUS
<1>3. /\ o \in Deques /\ Len(o) = Len(ages)
      /\ \A i \in 1 .. Len(ages) : o[i] = IF ages[i] < Window THEN ages[i] + 1 ELSE Window
  BY <1>1, LaterAges
<1>4. Aged(ages) = IF backend = "memory" THEN o ELSE Within(o)
  BY DEF Aged, Later
<1>5. CASE backend = "memory"
  <2>1. KeyTypeOK(o, lower, fewer, less, a)
    BY <1>1, <1>2, <1>3 DEF KeyOK, KeyTypeOK
  <2>2. ASSUME a = "denied" PROVE Len(o) >= 1 /\ Honest(o[1], lower)
    <3>1. Len(ages) >= 1 /\ Honest(ages[1], w) /\ 1 \in 1 .. Len(ages)
      BY <1>1, <1>5, <2>2 DEF KeyOK
    <3>2. o[1] = (IF ages[1] < Window THEN ages[1] + 1 ELSE Window) /\ ages[1] \in Nat /\ ages[1] <= Window
      BY <1>1, <1>3, <3>1
    <3> QED
      BY <1>1, <1>3, <3>1, <3>2, Numbers DEF Honest
  <2> QED
    BY <1>2, <1>4, <1>5, <2>1, <2>2 DEF KeyOK
<1>6. CASE backend = "redis"
  <2> PICK y : y = Within(o)
    OBVIOUS
  <2>1. PICK n \in 0 .. Len(ages) :
           /\ y \in Deques /\ Len(y) = Len(ages) - n
           /\ \A i \in 1 .. Len(ages) - n : y[i] = o[n + i] /\ y[i] < Window
    <3>1. PICK n \in 0 .. Len(o) :
             /\ Within(o) \in Deques /\ Len(Within(o)) = Len(o) - n
             /\ \A i \in 1 .. Len(o) - n : Within(o)[i] = o[n + i] /\ Within(o)[i] < Window
      BY <1>3, WithinIsSuffix, Zenon
    <3> QED
      BY <1>3, <3>1
  <2>2. Len(ages) <= c /\ \A i \in 1 .. Len(ages) : ages[i] + t >= Window
    BY <1>6 DEF KeyOK
  <2>3. ASSUME NEW i \in 1 .. Len(ages) - n
        PROVE  t > 0 /\ less > 0 /\ y[i] + less >= Window
    <3>1. n + i \in 1 .. Len(ages)
      BY <1>1
    <3>2. ages[n + i] \in Nat /\ ages[n + i] + t >= Window /\ y[i] < Window
          /\ y[i] = IF ages[n + i] < Window THEN ages[n + i] + 1 ELSE Window
      BY <1>1, <1>3, <2>1, <2>2, <3>1
    <3> QED
      BY <1>1, <3>2, Numbers
  <2>4. Len(y) \in Nat /\ Len(y) <= Len(ages) /\ (Len(y) > 0 => t > 0 /\ less > 0)
    <3>1. Len(y) \in Nat /\ Len(y) <= Len(ages)
      BY <1>1, <2>1
    <3>2. Len(y) > 0 => 1 \in 1 .. Len(ages) - n
      BY <1>1, <2>1
    <3> QED
      BY <2>3, <3>1, <3>2
  <2>5. Len(y) <= fewer
    BY <1>1, <1>2, <2>2, <2>4
  <2>6. KeyTypeOK(y, lower, fewer, less, a)
    BY <1>1, <1>2, <2>1, <2>4, Numbers DEF KeyOK, KeyTypeOK
  <2>7. \A i \in 1 .. Len(y) : y[i] + less >= Window
    BY <2>1, <2>3
  <2>8. Aged(ages) = y
    BY <1>4, <1>6
  <2> QED
    BY <1>2, <1>6, <2>5, <2>6, <2>7, <2>8 DEF KeyOK
<1> QED
  BY <1>5, <1>6

-----------------------------------------------------------------------------
(* The steps.                                                              *)

LEMMA InvInit == Init => Inv
<1> SUFFICES ASSUME Init PROVE Inv
  OBVIOUS
<1>1. <<>> \in Deques /\ Len(<<>>) = 0
  BY EmptyDeque
<1>2. 0 \in 0 .. Window /\ 0 \in 0 .. MaxCount /\ 0 <= MaxRequests
  BY Numbers
<1>3. KeyOK(<<>>, 0, 0, 0, "none")
  BY <1>1, <1>2 DEF KeyOK, KeyTypeOK
<1>4. /\ admitted \in [Keys -> Deques] /\ wait \in [Keys -> 0 .. Window]
      /\ count \in [Keys -> 0 .. MaxCount] /\ ttl \in [Keys -> 0 .. Window]
      /\ answer \in [Keys -> {"none", "allowed", "denied"}]
      /\ asking \in [Processes -> Keys \cup {Nothing}]
  BY <1>1, <1>2 DEF Init
<1> QED
  BY <1>3, <1>4 DEF Init, Inv

\* A check of one key.
LEMMA OneKeyKeepsInv ==
    ASSUME Inv, NEW k \in Keys, NEW x, NEW w, NEW c, NEW t, NEW a, KeyOK(x, w, c, t, a),
           admitted' = [admitted EXCEPT ![k] = x], wait' = [wait EXCEPT ![k] = w],
           count' = [count EXCEPT ![k] = c], ttl' = [ttl EXCEPT ![k] = t],
           answer' = [answer EXCEPT ![k] = a], backend' = backend,
           asking' \in [Processes -> Keys \cup {Nothing}],
           backend = "memory" => \A p \in Processes : asking'[p] = Nothing
    PROVE  Inv'
<1>1. x \in Deques /\ w \in 0 .. Window /\ c \in 0 .. MaxCount /\ t \in 0 .. Window
      /\ a \in {"none", "allowed", "denied"}
  BY DEF KeyOK, KeyTypeOK
<1>2. /\ admitted' \in [Keys -> Deques] /\ wait' \in [Keys -> 0 .. Window]
      /\ count' \in [Keys -> 0 .. MaxCount] /\ ttl' \in [Keys -> 0 .. Window]
      /\ answer' \in [Keys -> {"none", "allowed", "denied"}]
  BY <1>1 DEF Inv
<1>3. ASSUME NEW j \in Keys
      PROVE  KeyOK(admitted[j], wait[j], count[j], ttl[j], answer[j])'
  <2>1. CASE j = k
    <3>1. admitted'[j] = x /\ wait'[j] = w /\ count'[j] = c /\ ttl'[j] = t /\ answer'[j] = a
      BY <2>1 DEF Inv
    <3> QED
      BY <3>1 DEF KeyOK
  <2>2. CASE j # k
    <3>1. /\ admitted'[j] = admitted[j] /\ wait'[j] = wait[j] /\ count'[j] = count[j]
          /\ ttl'[j] = ttl[j] /\ answer'[j] = answer[j]
      BY <2>2 DEF Inv
    <3>2. KeyOK(admitted[j], wait[j], count[j], ttl[j], answer[j])
      BY DEF Inv
    <3> QED
      BY <3>1, <3>2 DEF KeyOK
  <2> QED
    BY <2>1, <2>2
<1> QED
  BY <1>2, <1>3 DEF Inv

\* The limiter in memory.
LEMMA CheckKeepsInv ==
    ASSUME Inv, NEW k \in Keys, Check(k)
    PROVE  Inv'
<1>1. KeyOK(admitted[k], wait[k], count[k], ttl[k], answer[k])
  BY DEF Inv
<1>2. /\ count' = [count EXCEPT ![k] = count[k]] /\ ttl' = [ttl EXCEPT ![k] = ttl[k]]
      /\ asking' = asking /\ backend' = backend /\ backend = "memory"
  BY DEF Check, Admit, Refuse, redisVars, Inv
<1>3. CASE Admit(k)
  <2>1. KeyOK(Append(Pruned(admitted[k]), 0), 0, count[k], ttl[k], "allowed")
    BY <1>1, <1>2, <1>3, AdmitKeepsKey DEF Admit
  <2>2. /\ admitted' = [admitted EXCEPT ![k] = Append(Pruned(admitted[k]), 0)]
        /\ wait' = [wait EXCEPT ![k] = 0] /\ answer' = [answer EXCEPT ![k] = "allowed"]
    BY <1>3 DEF Admit
  <2> QED
    BY <1>2, <2>1, <2>2, OneKeyKeepsInv DEF Inv
<1>4. CASE Refuse(k)
  <2> DEFINE kept == Pruned(admitted[k])
             retry == RetryAfter(Pruned(admitted[k])) * Second
  <2>1. KeyOK(kept, retry, count[k], ttl[k], "denied")
    BY <1>1, <1>2, <1>4, RefuseKeepsKey DEF Refuse
  <2>2. /\ admitted' = [admitted EXCEPT ![k] = kept]
        /\ wait' = [wait EXCEPT ![k] = retry] /\ answer' = [answer EXCEPT ![k] = "denied"]
    BY <1>4 DEF Refuse
  <2> HIDE DEF kept, retry
  <2> QED
    BY <1>2, <2>1, <2>2, OneKeyKeepsInv DEF Inv
<1> QED
  BY <1>3, <1>4 DEF Check

\* The limiter in Redis, first command.
LEMMA CountingKeepsInv ==
    ASSUME Inv, NEW p \in Processes, NEW k \in Keys, Allow(p, k) \/ Exceed(p, k) \/ PassUncounted(p, k)
    PROVE  Inv'
<1>1. KeyOK(admitted[k], wait[k], count[k], ttl[k], answer[k]) /\ answer[k] \in {"none", "allowed", "denied"}
  BY DEF Inv
<1>2. backend = "redis" /\ backend' = backend /\ wait' = [wait EXCEPT ![k] = wait[k]]
  BY DEF Allow, Exceed, PassUncounted, CanCheck, Inv
<1> PICK more : more = IF count[k] < MaxCount THEN count[k] + 1 ELSE count[k]
  OBVIOUS
<1>3. ASSUME Count(k)
      PROVE  count' = [count EXCEPT ![k] = more] /\ ttl' = [ttl EXCEPT ![k] = Window]
  BY <1>3 DEF Count, Inv
<1>4. asking' \in [Processes -> Keys \cup {Nothing}]
  BY DEF Allow, Exceed, PassUncounted, Inv
<1>5. ASSUME NEW b \in {"none", "allowed", "denied"}
      PROVE  /\ KeyOK(admitted[k], wait[k], more, Window, b)
             /\ count[k] < MaxRequests => KeyOK(Append(admitted[k], 0), wait[k], more, Window, b)
             /\ KeyOK(admitted[k], wait[k], count[k], ttl[k], b)
  BY <1>1, <1>2, CountKeepsKey, AnswerKeepsKey
<1>6. backend # "memory"
  BY <1>2
<1>7. CASE Allow(p, k)
  <2>1. /\ admitted' = [admitted EXCEPT ![k] = Append(admitted[k], 0)]
        /\ answer' = [answer EXCEPT ![k] = "allowed"] /\ Count(k) /\ count[k] < MaxRequests
    BY <1>7 DEF Allow
  <2>2. KeyOK(Append(admitted[k], 0), wait[k], more, Window, "allowed")
    BY <1>5, <2>1
  <2>3. count' = [count EXCEPT ![k] = more] /\ ttl' = [ttl EXCEPT ![k] = Window]
    BY <1>3, <2>1
  <2> QED
    BY <1>2, <1>4, <1>6, <2>1, <2>2, <2>3, OneKeyKeepsInv
<1>8. CASE Exceed(p, k)
  <2>1. /\ admitted' = [admitted EXCEPT ![k] = admitted[k]]
        /\ answer' = [answer EXCEPT ![k] = answer[k]] /\ Count(k)
    BY <1>8 DEF Exceed, Inv
  <2>2. KeyOK(admitted[k], wait[k], more, Window, answer[k])
    BY <1>1, <1>5
  <2>3. count' = [count EXCEPT ![k] = more] /\ ttl' = [ttl EXCEPT ![k] = Window]
    BY <1>3, <2>1
  <2> QED
    BY <1>2, <1>4, <1>6, <2>1, <2>2, <2>3, OneKeyKeepsInv
<1>9. CASE PassUncounted(p, k)
  <2>1. /\ admitted' = [admitted EXCEPT ![k] = admitted[k]]
        /\ answer' = [answer EXCEPT ![k] = "allowed"]
    BY <1>9 DEF PassUncounted, Inv
  <2>2. CASE Count(k)
    <3>1. KeyOK(admitted[k], wait[k], more, Window, "allowed")
      BY <1>5
    <3>2. count' = [count EXCEPT ![k] = more] /\ ttl' = [ttl EXCEPT ![k] = Window]
      BY <1>3, <2>2
    <3> QED
      BY <1>2, <1>4, <1>6, <2>1, <3>1, <3>2, OneKeyKeepsInv
  <2>3. CASE UNCHANGED <<count, ttl>>
    <3>1. count' = [count EXCEPT ![k] = count[k]] /\ ttl' = [ttl EXCEPT ![k] = ttl[k]]
      BY <2>3 DEF Inv
    <3>2. KeyOK(admitted[k], wait[k], count[k], ttl[k], "allowed")
      BY <1>5
    <3> QED
      BY <1>2, <1>4, <1>6, <2>1, <3>1, <3>2, OneKeyKeepsInv
  <2> QED
    BY <1>9, <2>2, <2>3 DEF PassUncounted
<1> QED
  BY <1>7, <1>8, <1>9

\* The second command, and its failure.
LEMMA AskingKeepsInv ==
    ASSUME Inv, NEW p \in Processes, Deny(p) \/ PassUnasked(p)
    PROVE  Inv'
<1> PICK k \in Keys : k = asking[p]
  BY DEF Deny, PassUnasked, Inv
<1> PICK b \in {"allowed", "denied"} : answer' = [answer EXCEPT ![k] = b]
  BY DEF Deny, PassUnasked
<1>1. backend = "redis"
  BY DEF Deny, PassUnasked, Inv
<1>2. /\ admitted' = [admitted EXCEPT ![k] = admitted[k]] /\ wait' = [wait EXCEPT ![k] = wait[k]]
      /\ count' = [count EXCEPT ![k] = count[k]] /\ ttl' = [ttl EXCEPT ![k] = ttl[k]]
      /\ backend' = backend
  BY DEF Deny, PassUnasked, Inv
<1>3. asking' \in [Processes -> Keys \cup {Nothing}]
  BY DEF Deny, PassUnasked, Inv
<1>4. KeyOK(admitted[k], wait[k], count[k], ttl[k], b)
  BY <1>1, AnswerKeepsKey DEF Inv
<1> QED
  BY <1>1, <1>2, <1>3, <1>4, OneKeyKeepsInv

\* Time passes for all keys.
LEMMA TickKeepsInv ==
    ASSUME Inv, Tick
    PROVE  Inv'
<1>1. ASSUME NEW k \in Keys
      PROVE  /\ admitted'[k] = Aged(admitted[k])
             /\ wait'[k] = IF wait[k] > 0 THEN wait[k] - 1 ELSE 0
             /\ ttl'[k] = IF ttl[k] > 0 THEN ttl[k] - 1 ELSE 0
             /\ count'[k] = IF ttl'[k] = 0 /\ ttl[k] > 0 THEN 0 ELSE count[k]
             /\ answer'[k] = answer[k]
  BY DEF Tick
<1>2. ASSUME NEW k \in Keys
      PROVE  KeyOK(admitted'[k], wait'[k], count'[k], ttl'[k], answer'[k])
  <2>1. KeyOK(admitted[k], wait[k], count[k], ttl[k], answer[k]) /\ backend \in {"memory", "redis"}
    BY DEF Inv
  <2> QED
    BY <1>1, <2>1, TickKeepsKey
<1>3. \A k \in Keys : KeyTypeOK(admitted'[k], wait'[k], count'[k], ttl'[k], answer'[k])
  BY <1>2 DEF KeyOK
<1>4. /\ admitted' \in [Keys -> Deques] /\ wait' \in [Keys -> 0 .. Window]
      /\ count' \in [Keys -> 0 .. MaxCount] /\ ttl' \in [Keys -> 0 .. Window]
  BY <1>3 DEF Tick, KeyTypeOK
<1>5. backend' = backend /\ answer' = answer /\ asking' = asking
  BY DEF Tick
<1>6. \A k \in Keys : KeyOK(admitted[k], wait[k], count[k], ttl[k], answer[k])'
  BY <1>2, <1>5 DEF KeyOK
<1> QED
  BY <1>4, <1>5, <1>6 DEF Inv

LEMMA InvInductive == Inv /\ [Next]_vars => Inv'
<1> SUFFICES ASSUME Inv, [Next]_vars PROVE Inv'
  OBVIOUS
<1>1. CASE UNCHANGED vars
  BY <1>1 DEF vars, Inv, KeyOK
<1>2. CASE Next
  BY <1>2, TickKeepsInv, CheckKeepsInv, CountingKeepsInv, AskingKeepsInv DEF Next
<1> QED
  BY <1>1, <1>2

-----------------------------------------------------------------------------
(* The theorems.                                                           *)

\* The invariant holds of every behaviour, whichever processes check at once
\* and whenever Redis fails.
THEOREM Invariant == Spec => []Inv
BY InvInit, InvInductive, PTL DEF Spec

\* Deques and counters are well typed: no deque holds more than MaxRequests.
THEOREM TypeCorrect == Spec => []TypeOK
<1>1. Inv => TypeOK
  <2> SUFFICES ASSUME Inv PROVE TypeOK
    OBVIOUS
  <2>1. ASSUME NEW k \in Keys PROVE admitted[k] \in BoundedSeq(0 .. Window, MaxRequests)
    <3>1. admitted[k] \in Deques /\ Len(admitted[k]) <= MaxRequests
      BY DEF Inv, KeyOK, KeyTypeOK
    <3>2. admitted[k] \in Seq(0 .. Window)
      BY <3>1 DEF Deques
    <3> QED
      BY <3>1, <3>2, BoundedSeqs
  <2>2. admitted \in [Keys -> BoundedSeq(0 .. Window, MaxRequests)]
    BY <2>1 DEF Inv
  <2> QED
    BY <2>2 DEF Inv, TypeOK
<1> QED
  BY <1>1, Invariant, PTL

\* There is no counter without a time to live.
THEOREM CountersEndHolds == Spec => []CountersEnd
<1>1. Inv => CountersEnd
  BY DEF Inv, KeyOK, CountersEnd
<1> QED
  BY <1>1, Invariant, PTL

\* In memory, Retry-After is right to the second.
THEOREM RetryAfterHonestHolds == Spec => []RetryAfterHonest
<1>1. Inv => RetryAfterHonest
  <2> SUFFICES ASSUME Inv, NEW k \in Keys, backend = "memory", answer[k] = "denied"
               PROVE  Honest(Head(admitted[k]), wait[k])
    BY DEF RetryAfterHonest, Honest
  <2>1. Len(admitted[k]) >= 1 /\ Honest(admitted[k][1], wait[k]) /\ admitted[k] \in Deques
    BY DEF Inv, KeyOK
  <2>2. Head(admitted[k]) = admitted[k][1]
    BY <2>1, DequeEntries
  <2> QED
    BY <2>1, <2>2
<1> QED
  BY <1>1, Invariant, PTL

\* Every step of either limiter admits at most one request where there is room
\* within the window, lets time pass, or leaves the window as it is.
LEMMA StepsSlide == Inv /\ [Next]_vars => [Sliding!WNext]_Recent
<1> SUFFICES ASSUME Inv, [Next]_vars PROVE Sliding!WNext \/ Recent' = Recent
  OBVIOUS
<1>0. \A k \in Keys : Recent[k] = Within(admitted[k]) /\ admitted[k] \in Deques
  BY DEF Recent, Inv
<1>1. CASE Recent' = Recent
  BY <1>1
\* An append of an entry that is young to a deque of as many as are recent.
<1>2. ASSUME NEW k \in Keys, NEW ages \in Deques, Within(ages) = Within(admitted[k]),
             Len(Within(ages)) < MaxRequests, admitted' = [admitted EXCEPT ![k] = Append(ages, 0)]
      PROVE  Sliding!WNext
  <2>1. Within(Append(ages, 0)) = Append(Recent[k], 0)
    BY <1>0, <1>2, AppendWithin
  <2>2. Recent' = [Recent EXCEPT ![k] = Append(Recent[k], 0)]
    BY <1>2, <2>1 DEF Recent, Inv
  <2>3. Sliding!WAdmit(k)
    BY <1>0, <1>2, <2>2 DEF Sliding!WAdmit
  <2> QED
    BY <2>3 DEF Sliding!WNext
<1>3. ASSUME NEW k \in Keys, Check(k) PROVE Sliding!WNext \/ Recent' = Recent
  <2> PICK kept : kept = Pruned(admitted[k])
    OBVIOUS
  <2>1. kept = Within(admitted[k]) /\ kept \in Deques /\ \A i \in 1 .. Len(kept) : kept[i] < Window
    <3>1. PICK n \in 0 .. Len(admitted[k]) :
             /\ kept = Within(admitted[k]) /\ kept \in Deques /\ Len(kept) = Len(admitted[k]) - n
             /\ \A i \in 1 .. Len(admitted[k]) - n : kept[i] < Window
      BY <1>0, WithinIsSuffix, Zenon
    <3> QED
      BY <3>1
  <2>2. Within(kept) = kept
    BY <2>1, YoungIsKept
  <2>3. CASE Admit(k)
    <3>1. admitted' = [admitted EXCEPT ![k] = Append(kept, 0)] /\ Len(kept) < MaxRequests
      BY <2>3 DEF Admit
    <3> QED
      BY <1>2, <2>1, <2>2, <3>1
  <2>4. CASE Refuse(k)
    <3>1. admitted' = [admitted EXCEPT ![k] = kept]
      BY <2>4 DEF Refuse
    <3>2. \A j \in Keys : Within(admitted'[j]) = Within(admitted[j])
      BY <2>1, <2>2, <3>1 DEF Inv
    <3> QED
      BY <3>2 DEF Recent
  <2> QED
    BY <1>3, <2>3, <2>4 DEF Check
<1>4. ASSUME NEW p \in Processes, NEW k \in Keys, Allow(p, k) PROVE Sliding!WNext
  <2>1. backend = "redis" /\ count[k] < MaxRequests /\ admitted' = [admitted EXCEPT ![k] = Append(admitted[k], 0)]
    BY <1>4 DEF Allow, CanCheck
  <2>2. Len(admitted[k]) <= count[k] /\ count[k] \in Nat /\ Len(admitted[k]) \in Nat
    BY <1>0, <2>1, DequeEntries DEF Inv, KeyOK
  <2>3. PICK n \in 0 .. Len(admitted[k]) : Len(Within(admitted[k])) = Len(admitted[k]) - n
    BY <1>0, WithinIsSuffix, Zenon
  <2>4. Len(Within(admitted[k])) < MaxRequests
    BY <2>1, <2>2, <2>3, Numbers
  <2> QED
    BY <1>0, <1>2, <2>1, <2>4
<1>5. ASSUME admitted' = admitted
      PROVE  Recent' = Recent
  BY <1>5 DEF Recent
<1>6. CASE Tick
  <2>1. ASSUME NEW k \in Keys
        PROVE  Within(admitted'[k]) = Sliding!Within(Sliding!Older(Recent[k]))
    <3>1. Within(Later(admitted[k])) = Sliding!Within(Sliding!Older(Recent[k]))
      BY <1>0, LaterWithin
    <3>2. admitted'[k] = IF backend = "memory" THEN Later(admitted[k]) ELSE Within(Later(admitted[k]))
      BY <1>6 DEF Tick, Aged, Later
    <3>3. Within(Within(Later(admitted[k]))) = Within(Later(admitted[k]))
      <4> PICK o \in Deques : o = Later(admitted[k])
        BY <1>0, LaterAges
      <4>1. PICK n \in 0 .. Len(o) :
               /\ Within(o) \in Deques /\ Len(Within(o)) = Len(o) - n
               /\ \A i \in 1 .. Len(o) - n : Within(o)[i] < Window
        BY WithinIsSuffix, Zenon
      <4> QED
        BY <4>1, YoungIsKept
    <3> QED
      BY <3>1, <3>2, <3>3
  <2>2. Recent' = [k \in Keys |-> Sliding!Within(Sliding!Older(Recent[k]))]
    BY <2>1 DEF Recent
  <2> QED
    BY <2>2 DEF Sliding!WNext, Sliding!WTick
<1>7. CASE \E p \in Processes : (\E k \in Keys : Allow(p, k) \/ Exceed(p, k) \/ PassUncounted(p, k)) \/ Deny(p) \/ PassUnasked(p)
  <2> PICK p \in Processes : (\E k \in Keys : Allow(p, k) \/ Exceed(p, k) \/ PassUncounted(p, k)) \/ Deny(p) \/ PassUnasked(p)
    BY <1>7
  <2>1. CASE \E k \in Keys : Allow(p, k)
    BY <1>4, <2>1
  <2>2. CASE \E k \in Keys : Exceed(p, k) \/ PassUncounted(p, k)
    BY <1>5, <2>2 DEF Exceed, PassUncounted
  <2>3. CASE Deny(p) \/ PassUnasked(p)
    BY <1>5, <2>3 DEF Deny, PassUnasked
  <2> QED
    BY <2>1, <2>2, <2>3
<1>8. CASE UNCHANGED vars
  BY <1>8 DEF vars, Recent
<1>9. CASE \E k \in Keys : Check(k)
  BY <1>3, <1>9
<1> QED
  BY <1>6, <1>7, <1>8, <1>9 DEF Next

\* Both limiters implement the sliding window.
THEOREM SlidingLimitHolds == Spec => SlidingLimit
<1>1. Init => Sliding!WInit
  <2> SUFFICES ASSUME Init PROVE Recent = [k \in Keys |-> <<>>]
    BY DEF Sliding!WInit
  <2>1. <<>> \in Deques /\ Len(<<>>) = 0
    BY EmptyDeque
  <2>2. Within(<<>>) = <<>>
    BY <2>1, YoungIsKept
  <2> QED
    BY <2>2 DEF Init, Recent
<1> QED
  BY <1>1, StepsSlide, Invariant, PTL DEF Spec, SlidingLimit, Sliding!WSpec

=============================================================================
