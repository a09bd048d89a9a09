------------------------- MODULE RateLimiterProofs -------------------------
(***************************************************************************)
(* Theorems about RateLimiter: the windows hold their limits, Retry-After  *)
(* is exact, and few failures are shown, for any limits, windows, cooldown *)
(* and number of clients, tokens, categories and requests in flight.       *)
(***************************************************************************)
EXTENDS RateLimiter, FiniteSetTheorems, SequenceTheorems, TLAPS

\* What a list of instants is: in order, and none of them after t.
InOrder(list) == \A m, n \in 1..Len(list) : m <= n => list[m] <= list[n]

Before(list, t) == \A n \in 1..Len(list) : list[n] <= t

\* The history holds what lies within the window, and no more than that.
Within(list, t, seconds) == \A n \in 1..Len(list) : t - list[n] < seconds * Ticks

\* Counted from the end, every instant of the history has in the store's list
\* one at its place that is as late.
Trails(list, kept) ==
    /\ Len(list) <= Len(kept)
    /\ \A n \in 1..Len(list) : list[n] <= kept[n - Len(list) + Len(kept)]

\* A history of acceptances or of answers 401 and the list the store keeps.
Followed(list, kept, t, seconds) ==
    /\ list \in Seq(Nat) /\ kept \in Seq(Nat)
    /\ InOrder(list) /\ Before(list, t) /\ Within(list, t, seconds)
    /\ InOrder(kept) /\ Before(kept, t)
    /\ Trails(list, kept)

\* The inductive invariant.  What TypeOK leaves out is what pruning rests on:
\* the lists are in order, a history never runs ahead of the list the store
\* decides with, and neither is longer than its limit.
LimiterInv ==
    /\ TypeOK
    /\ \A c \in Categories, i \in Identifiers :
           /\ Followed(served[c][i], bucket[c][i], now, Window)
           /\ Len(bucket[c][i]) <= Limit[c]
    /\ \A client \in Clients :
           /\ Followed(rejected[client], failures[client], now, FailureWindow)
           /\ Len(rejected[client]) < FailureLimit

LEMMA SpanType ==
    ASSUME NEW seconds \in Nat
    PROVE  seconds * Ticks \in Nat
<1>1. Ticks \in Nat
  BY LimiterAssumption
<1>2. QED
  BY <1>1

-----------------------------------------------------------------------------
(* Lists of instants *)

\* A set of positions that holds all below each of its members is an interval.
LEMMA InitialPositions ==
    ASSUME NEW len \in Nat, NEW D \in SUBSET (1..len),
           \A n \in D : 1..n \subseteq D
    PROVE  /\ Cardinality(D) \in 0..len
           /\ D = 1..Cardinality(D)
<1>1. /\ IsFiniteSet(1..len)
      /\ Cardinality(1..len) = len
  BY FS_Interval
<1>2. /\ IsFiniteSet(D)
      /\ Cardinality(D) \in Nat
      /\ Cardinality(D) <= len
  <2>1. IsFiniteSet(D) /\ Cardinality(D) <= Cardinality(1..len)
    BY <1>1, FS_Subset
  <2>2. Cardinality(D) \in Nat
    BY <2>1, FS_CardinalityType
  <2>3. QED
    BY <1>1, <2>1, <2>2
<1>3. ASSUME NEW n \in D
      PROVE  n <= Cardinality(D)
  <2>1. 1..n \in SUBSET D
    OBVIOUS
  <2>2. Cardinality(1..n) <= Cardinality(D)
    BY <2>1, <1>2, FS_Subset
  <2>3. Cardinality(1..n) = n
    BY FS_Interval
  <2>4. QED
    BY <2>2, <2>3
<1>4. D \in SUBSET (1..Cardinality(D))
  BY <1>2, <1>3
<1>5. /\ IsFiniteSet(1..Cardinality(D))
      /\ Cardinality(1..Cardinality(D)) = Cardinality(D)
  BY <1>2, FS_Interval
<1>6. D = 1..Cardinality(D)
  BY <1>4, <1>5, FS_Subset
<1>7. QED
  BY <1>2, <1>6

\* _prune leaves the loop: it pops expired instants, and stops at one that is
\* not, if any is left.
LEMMA ExpiredFacts ==
    ASSUME NEW s \in Seq(Nat), NEW t \in Int, NEW seconds \in Nat
    PROVE  LET d == Expired(s, t, seconds)
           IN  /\ d \in 0..Len(s)
               /\ \A m \in 1..d : s[m] <= t - seconds * Ticks
               /\ d < Len(s) => s[d + 1] > t - seconds * Ticks
<1> DEFINE cutoff == t - seconds * Ticks
           D == {n \in 1..Len(s) : \A m \in 1..n : s[m] <= cutoff}
           k == Cardinality(D)
<1>1. /\ Len(s) \in Nat
      /\ \A n \in 1..Len(s) : s[n] \in Nat
      /\ cutoff \in Int
  <2>1. Len(s) \in Nat /\ \A n \in 1..Len(s) : s[n] \in Nat
    OBVIOUS
  <2>2. seconds * Ticks \in Nat
    BY SpanType
  <2>3. cutoff \in Int
    BY <2>2
  <2>4. QED
    BY <2>1, <2>3
<1>2. /\ k \in 0..Len(s)
      /\ D = 1..k
  <2>1. D \in SUBSET (1..Len(s))
    OBVIOUS
  <2>2. \A n \in D : 1..n \subseteq D
    OBVIOUS
  <2>3. QED
    BY <1>1, <2>1, <2>2, InitialPositions
<1>3. \A n \in 1..Len(s) : n \in D <=> \A m \in 1..n : s[m] <= cutoff
  OBVIOUS
<1> HIDE DEF k, D, cutoff
<1>4. \A m \in 1..k : s[m] <= cutoff
  BY <1>1, <1>2, <1>3
<1>5. ASSUME k < Len(s)
      PROVE  s[k + 1] > cutoff
  <2>1. /\ k + 1 \in 1..Len(s)
        /\ k + 1 \notin D
    BY <1>1, <1>2, <1>5
  <2>2. PICK m \in 1..(k + 1) : ~(s[m] <= cutoff)
    BY <2>1, <1>3
  <2>3. m = k + 1
    BY <1>2, <1>4, <2>2
  <2>4. QED
    BY <2>1, <2>2, <2>3, <1>1
<1>6. \E n \in 0..Len(s) :
          /\ \A m \in 1..n : s[m] <= cutoff
          /\ n < Len(s) => s[n + 1] > cutoff
  BY <1>2, <1>4, <1>5, Zenon
<1>7. QED
  BY <1>6 DEF Expired, cutoff

\* What _prune leaves, place by place.
LEMMA PruneFacts ==
    ASSUME NEW s \in Seq(Nat), NEW t \in Int, NEW seconds \in Nat
    PROVE  LET d == Expired(s, t, seconds)
           IN  /\ d \in 0..Len(s)
               /\ Prune(s, t, seconds) \in Seq(Nat)
               /\ Len(Prune(s, t, seconds)) = Len(s) - d
               /\ \A n \in 1..(Len(s) - d) : Prune(s, t, seconds)[n] = s[n + d]
<1> DEFINE d == Expired(s, t, seconds)
           p == SubSeq(s, d + 1, Len(s))
<1>1. d \in 0..Len(s) /\ Len(s) \in Nat
  BY ExpiredFacts
<1>2. \A n \in (d + 1)..Len(s) : s[n] \in Nat
  BY <1>1
<1>3. Prune(s, t, seconds) = p
  BY DEF Prune
<1> HIDE DEF d
<1>4. /\ p \in Seq(Nat)
      /\ Len(p) = IF d + 1 <= Len(s) THEN Len(s) - (d + 1) + 1 ELSE 0
      /\ \A n \in 1..(Len(s) - (d + 1) + 1) : p[n] = s[d + 1 + n - 1]
  BY <1>1, <1>2, SubSeqProperties
<1> HIDE DEF p
<1>5. /\ Len(p) = Len(s) - d
      /\ \A n \in 1..(Len(s) - d) : p[n] = s[n + d]
  BY <1>1, <1>4
<1>6. QED
  BY <1>1, <1>3, <1>4, <1>5 DEF d

\* What a history keeps at instant t, place by place.
LEMMA RecentFacts ==
    ASSUME NEW list \in Seq(Nat), InOrder(list), NEW t \in Int, NEW seconds \in Nat
    PROVE  \E e \in 0..Len(list) :
               /\ Recent(list, t, seconds) \in Seq(Nat)
               /\ Len(Recent(list, t, seconds)) = Len(list) - e
               /\ \A n \in 1..(Len(list) - e) :
                      /\ Recent(list, t, seconds)[n] = list[n + e]
                      /\ t - list[n + e] < seconds * Ticks
<1> DEFINE span == seconds * Ticks
           old == {n \in 1..Len(list) : t - list[n] >= span}
           e == Cardinality(old)
           p == SubSeq(list, e + 1, Len(list))
<1>1. /\ Len(list) \in Nat
      /\ \A n \in 1..Len(list) : list[n] \in Nat
      /\ span \in Int
  <2>1. Len(list) \in Nat /\ \A n \in 1..Len(list) : list[n] \in Nat
    OBVIOUS
  <2>2. span \in Nat
    BY SpanType
  <2> HIDE DEF span
  <2>3. QED
    BY <2>1, <2>2
<1>2. Recent(list, t, seconds) = p
  BY DEF Recent
<1>3. \A n \in 1..Len(list) : n \in old <=> t - list[n] >= span
  BY <1>1
<1>4. old \in SUBSET (1..Len(list))
  BY <1>1
<1> HIDE DEF span, old
<1>5. \A n \in old : 1..n \subseteq old
  <2> SUFFICES ASSUME NEW n \in old, NEW m \in 1..n
               PROVE  m \in old
    OBVIOUS
  <2>1. n \in 1..Len(list) /\ m \in 1..Len(list) /\ m <= n
    BY <1>1, <1>4
  <2>2. list[m] <= list[n]
    BY <1>1, <2>1 DEF InOrder
  <2>3. t - list[n] >= span /\ list[m] \in Nat /\ list[n] \in Nat
    BY <1>1, <1>3, <2>1
  <2>4. t - list[m] >= span
    BY <1>1, <2>2, <2>3
  <2>5. QED
    BY <1>3, <2>1, <2>4
<1>6. e \in 0..Len(list)
  BY <1>1, <1>4, <1>5, InitialPositions
<1>7. \A n \in (e + 1)..Len(list) : n \notin old
  <2>1. old = 1..e
    BY <1>1, <1>4, <1>5, InitialPositions
  <2> HIDE DEF e
  <2>2. QED
    BY <1>6, <2>1
<1> HIDE DEF e
<1>8. \A n \in (e + 1)..Len(list) : list[n] \in Nat
  BY <1>1, <1>6
<1>9. /\ p \in Seq(Nat)
      /\ Len(p) = IF e + 1 <= Len(list) THEN Len(list) - (e + 1) + 1 ELSE 0
      /\ \A n \in 1..(Len(list) - (e + 1) + 1) : p[n] = list[e + 1 + n - 1]
  BY <1>6, <1>8, SubSeqProperties, Len(list) \in Nat
<1> HIDE DEF p
<1>10. /\ Len(p) = Len(list) - e
       /\ \A n \in 1..(Len(list) - e) : p[n] = list[n + e]
  BY <1>6, <1>9, Len(list) \in Nat
<1>11. \A n \in 1..(Len(list) - e) : t - list[n + e] < span
  <2> SUFFICES ASSUME NEW n \in 1..(Len(list) - e)
               PROVE  t - list[n + e] < span
    OBVIOUS
  <2>1. n + e \in (e + 1)..Len(list) /\ n + e \in 1..Len(list)
    BY <1>6, Len(list) \in Nat
  <2>2. ~(t - list[n + e] >= span) /\ list[n + e] \in Nat
    BY <1>1, <1>3, <1>7, <2>1
  <2>3. QED
    BY <1>1, <2>2
<1>12. QED
  BY <1>2, <1>6, <1>9, <1>10, <1>11 DEF span

\* A list without its first d instants stays in order and before t.
LEMMA SuffixFacts ==
    ASSUME NEW s \in Seq(Nat), NEW p \in Seq(Nat), NEW d \in 0..Len(s),
           Len(p) = Len(s) - d,
           \A n \in 1..(Len(s) - d) : p[n] = s[n + d]
    PROVE  /\ InOrder(s) => InOrder(p)
           /\ \A t \in Int : Before(s, t) => Before(p, t)
<1>1. /\ Len(s) \in Nat
      /\ Len(p) \in Nat
  OBVIOUS
<1>2. ASSUME NEW n \in 1..Len(p)
      PROVE  n + d \in 1..Len(s) /\ p[n] = s[n + d]
  BY <1>1
<1>3. ASSUME InOrder(s)
      PROVE  InOrder(p)
  <2> SUFFICES ASSUME NEW m \in 1..Len(p), NEW n \in 1..Len(p), m <= n
               PROVE  p[m] <= p[n]
    BY DEF InOrder
  <2>1. m + d <= n + d
    BY <1>1
  <2>2. s[m + d] <= s[n + d]
    BY <1>2, <1>3, <2>1 DEF InOrder
  <2>3. QED
    BY <1>2, <2>2
<1>4. ASSUME NEW t \in Int, Before(s, t)
      PROVE  Before(p, t)
  BY <1>2, <1>4 DEF Before
<1>5. QED
  BY <1>3, <1>4

-----------------------------------------------------------------------------
(* What the store and the clock do to a history and its list *)

LEMMA FollowedFacts ==
    ASSUME NEW list, NEW kept, NEW t, NEW seconds,
           Followed(list, kept, t, seconds)
    PROVE  /\ list \in Seq(Nat) /\ Len(list) \in Nat
           /\ \A n \in 1..Len(list) : list[n] \in Nat
           /\ kept \in Seq(Nat) /\ Len(kept) \in Nat
           /\ \A n \in 1..Len(kept) : kept[n] \in Nat
           /\ InOrder(list) /\ Before(list, t) /\ Within(list, t, seconds)
           /\ InOrder(kept) /\ Before(kept, t)
           /\ Len(list) <= Len(kept)
           /\ \A n \in 1..Len(list) : list[n] <= kept[n - Len(list) + Len(kept)]
<1>1. list \in Seq(Nat) /\ kept \in Seq(Nat)
  BY DEF Followed
<1>2. /\ Len(list) \in Nat /\ \A n \in 1..Len(list) : list[n] \in Nat
      /\ Len(kept) \in Nat /\ \A n \in 1..Len(kept) : kept[n] \in Nat
  BY <1>1
<1>3. Trails(list, kept)
  BY DEF Followed
<1>4. /\ Len(list) <= Len(kept)
      /\ \A n \in 1..Len(list) : list[n] <= kept[n - Len(list) + Len(kept)]
  BY <1>3, Zenon DEF Trails
<1>5. QED
  BY <1>1, <1>2, <1>4, Zenon DEF Followed

\* Time passes: the history forgets, the store's list stays.
LEMMA TickFollowed ==
    ASSUME NEW list, NEW kept, NEW seconds \in Nat,
           NEW t \in Int, NEW u \in Int, t <= u,
           Followed(list, kept, t, seconds)
    PROVE  /\ Followed(Recent(list, u, seconds), kept, u, seconds)
           /\ Len(Recent(list, u, seconds)) <= Len(list)
<1> DEFINE left == Recent(list, u, seconds)
<1>1. PICK e \in 0..Len(list) :
          /\ left \in Seq(Nat)
          /\ Len(left) = Len(list) - e
          /\ \A n \in 1..(Len(list) - e) :
                 /\ left[n] = list[n + e]
                 /\ u - list[n + e] < seconds * Ticks
  BY FollowedFacts, RecentFacts
<1>2. /\ Len(list) \in Nat
      /\ \A n \in 1..Len(list) : list[n] \in Nat
      /\ Len(kept) \in Nat
      /\ \A n \in 1..Len(kept) : kept[n] \in Nat
  BY FollowedFacts
<1> HIDE DEF left
<1>3. 1..Len(left) = 1..(Len(list) - e)
  BY <1>1
<1>4. InOrder(left) /\ Before(left, t)
  BY <1>1, FollowedFacts, SuffixFacts
<1>5. Before(left, u) /\ Before(kept, u)
  <2>1. left \in Seq(Nat)
    BY <1>1
  <2>2. \A n \in 1..Len(left) : left[n] \in Nat
    BY <2>1
  <2>3. \A n \in 1..Len(left) : left[n] <= u
    BY <1>4, <2>2 DEF Before
  <2>4. Before(kept, t)
    BY FollowedFacts
  <2>5. \A n \in 1..Len(kept) : kept[n] <= u
    BY <1>2, <2>4 DEF Before
  <2>6. QED
    BY <2>3, <2>5 DEF Before
<1>6. Within(left, u, seconds)
  <2>1. ASSUME NEW n \in 1..Len(left)
        PROVE  u - left[n] < seconds * Ticks
    <3>1. n \in 1..(Len(list) - e)
      BY <1>3
    <3>2. left[n] = list[n + e] /\ u - list[n + e] < seconds * Ticks
      BY <1>1, <3>1
    <3>3. QED
      BY <3>2
  <2>2. QED
    BY <2>1, Zenon DEF Within
<1>7. Trails(left, kept)
  <2>1. \A n \in 1..Len(left) : left[n] <= kept[n - Len(left) + Len(kept)]
    <3> SUFFICES ASSUME NEW n \in 1..Len(left)
                 PROVE  left[n] <= kept[n - Len(left) + Len(kept)]
      OBVIOUS
    <3>1. n + e \in 1..Len(list)
      BY <1>2, <1>3
    <3>2. list[n + e] <= kept[(n + e) - Len(list) + Len(kept)]
      BY <3>1, FollowedFacts
    <3>3. (n + e) - Len(list) + Len(kept) = n - Len(left) + Len(kept)
      BY <1>1, <1>2, <1>3
    <3>4. QED
      BY <1>1, <1>3, <3>2, <3>3
  <2>2. Len(left) <= Len(kept)
    <3>1. Len(list) <= Len(kept)
      BY FollowedFacts
    <3>2. QED
      BY <1>1, <1>2, <3>1
  <2>3. QED
    BY <2>1, <2>2, Zenon DEF Trails
<1>8. Len(left) <= Len(list)
  BY <1>1, <1>2
<1>9. QED
  BY <1>1, <1>4, <1>5, <1>6, <1>7, <1>8, FollowedFacts DEF left, Followed

\* Pruning: what the store drops has left the window, so no instant of the
\* history loses its place.
LEMMA PruneFollowed ==
    ASSUME NEW list, NEW kept, NEW t \in Int, NEW seconds \in Nat,
           Followed(list, kept, t, seconds)
    PROVE  /\ Followed(list, Prune(kept, t, seconds), t, seconds)
           /\ Len(Prune(kept, t, seconds)) <= Len(kept)
<1> DEFINE d == Expired(kept, t, seconds)
           left == Prune(kept, t, seconds)
<1>1. /\ d \in 0..Len(kept)
      /\ left \in Seq(Nat)
      /\ Len(left) = Len(kept) - d
      /\ \A n \in 1..(Len(kept) - d) : left[n] = kept[n + d]
  BY FollowedFacts, PruneFacts
<1>2. \A m \in 1..d : kept[m] <= t - seconds * Ticks
  BY FollowedFacts, ExpiredFacts
<1>3. /\ Len(list) \in Nat
      /\ \A n \in 1..Len(list) : list[n] \in Nat
      /\ Len(kept) \in Nat
      /\ \A n \in 1..Len(kept) : kept[n] \in Nat
  BY FollowedFacts
<1> HIDE DEF left, d
<1>4. 1..Len(left) = 1..(Len(kept) - d)
  BY <1>1
<1>5. InOrder(left) /\ Before(left, t)
  BY <1>1, FollowedFacts, SuffixFacts
<1>6. Len(list) <= Len(kept)
  BY FollowedFacts
<1>7. \A n \in 1..Len(list) : n - Len(list) + Len(kept) > d
  <2> SUFFICES ASSUME NEW n \in 1..Len(list),
                      ~(n - Len(list) + Len(kept) > d)
               PROVE  FALSE
    OBVIOUS
  <2> DEFINE m == n - Len(list) + Len(kept)
  <2>1. list[n] <= kept[m]
    BY FollowedFacts
  <2>2. d \in Nat /\ d <= Len(kept)
    BY <1>1, <1>3
  <2>3. m \in Int /\ 1 <= m /\ m <= d /\ m <= Len(kept)
    BY <1>3, <1>6, <2>2
  <2> HIDE DEF m
  <2> DEFINE span == seconds * Ticks
  <2>4. kept[m] <= t - span
    BY <1>2, <2>2, <2>3
  <2>5. t - list[n] < span
    BY FollowedFacts DEF Within
  <2>6. kept[m] \in Nat /\ list[n] \in Nat
    BY <1>3, <2>3
  <2>7. span \in Int
    BY SpanType
  <2> HIDE DEF span
  <2>8. QED
    BY <2>1, <2>4, <2>5, <2>6, <2>7
<1>8. Trails(list, left)
  <2>1. Len(list) <= Len(left)
    <3>1. CASE Len(list) = 0
      BY <1>1, <1>3, <3>1
    <3>2. CASE Len(list) # 0
      <4>1. 1 \in 1..Len(list)
        BY <1>3, <3>2
      <4>2. 1 - Len(list) + Len(kept) > d
        BY <1>7, <4>1
      <4>3. QED
        BY <1>1, <1>3, <4>2
    <3>3. QED
      BY <3>1, <3>2
  <2>2. ASSUME NEW n \in 1..Len(list)
        PROVE  list[n] <= left[n - Len(list) + Len(left)]
    <3> DEFINE m == n - Len(list) + Len(kept)
    <3>1. list[n] <= kept[m]
      BY FollowedFacts
    <3>2. m > d
      BY <1>7
    <3>3. m \in 1..Len(kept) /\ n - Len(list) + Len(left) = m - d
      BY <1>1, <1>3, <3>2
    <3> HIDE DEF m
    <3>4. m - d \in 1..(Len(kept) - d) /\ (m - d) + d = m
      BY <1>1, <1>3, <3>2, <3>3
    <3>5. left[m - d] = kept[(m - d) + d]
      BY <1>1, <3>4
    <3>6. QED
      BY <3>1, <3>3, <3>4, <3>5
  <2>3. QED
    BY <2>1, <2>2 DEF Trails
<1>9. Len(left) <= Len(kept)
  BY <1>1, <1>3
<1>10. QED
  BY <1>1, <1>5, <1>8, <1>9, FollowedFacts DEF left, Followed

\* An instant that is noted at the end, where nothing is later.
LEMMA AppendFacts ==
    ASSUME NEW s \in Seq(Nat), NEW t \in Nat, InOrder(s), Before(s, t)
    PROVE  /\ Append(s, t) \in Seq(Nat)
           /\ Len(Append(s, t)) = Len(s) + 1
           /\ \A n \in 1..Len(s) : Append(s, t)[n] = s[n]
           /\ Append(s, t)[Len(s) + 1] = t
           /\ InOrder(Append(s, t))
           /\ Before(Append(s, t), t)
<1> DEFINE a == Append(s, t)
<1>1. /\ a \in Seq(Nat)
      /\ Len(a) = Len(s) + 1
      /\ \A n \in 1..Len(s) : a[n] = s[n]
      /\ a[Len(s) + 1] = t
  BY AppendProperties
<1> HIDE DEF a
<1>2. Len(s) \in Nat /\ \A n \in 1..Len(s) : s[n] \in Nat
  OBVIOUS
<1>3. ASSUME NEW n \in 1..Len(a)
      PROVE  \/ n \in 1..Len(s) /\ a[n] = s[n]
             \/ n = Len(s) + 1 /\ a[n] = t
  BY <1>1, <1>2
<1>4. Before(a, t)
  <2>1. ASSUME NEW n \in 1..Len(a)
        PROVE  a[n] <= t
    BY <1>3 DEF Before
  <2>2. QED
    BY <2>1 DEF Before
<1>5. InOrder(a)
  <2>1. ASSUME NEW m \in 1..Len(a), NEW n \in 1..Len(a), m <= n
        PROVE  a[m] <= a[n]
    <3>1. CASE n \in 1..Len(s) /\ a[n] = s[n]
      <4>1. m \in 1..Len(s)
        BY <1>2, <2>1, <3>1
      <4>2. s[m] <= s[n]
        BY <2>1, <3>1, <4>1 DEF InOrder
      <4>3. QED
        BY <1>1, <3>1, <4>1, <4>2
    <3>2. CASE n = Len(s) + 1 /\ a[n] = t
      BY <3>2, <1>4 DEF Before
    <3>3. QED
      BY <1>3, <3>1, <3>2
  <2>2. QED
    BY <2>1 DEF InOrder
<1>6. QED
  BY <1>1, <1>4, <1>5 DEF a

\* A failure that is answered 429 is in the store's list alone.
LEMMA NotedFollowed ==
    ASSUME NEW list, NEW kept, NEW t \in Nat, NEW seconds \in Nat,
           Followed(list, kept, t, seconds)
    PROVE  /\ Followed(list, Append(kept, t), t, seconds)
           /\ Len(Append(kept, t)) = Len(kept) + 1
<1> DEFINE a == Append(kept, t)
<1>1. /\ a \in Seq(Nat)
      /\ Len(a) = Len(kept) + 1
      /\ \A n \in 1..Len(kept) : a[n] = kept[n]
      /\ InOrder(a)
      /\ Before(a, t)
  BY FollowedFacts, AppendFacts
<1> HIDE DEF a
<1>2. /\ Len(list) \in Nat /\ Len(kept) \in Nat /\ Len(list) <= Len(kept)
      /\ \A n \in 1..Len(list) : list[n] \in Nat
      /\ \A n \in 1..Len(a) : a[n] \in Nat
  <2>1. a \in Seq(Nat)
    BY <1>1
  <2>2. \A n \in 1..Len(a) : a[n] \in Nat
    BY <2>1
  <2>3. QED
    BY <2>2, FollowedFacts
<1>3. ASSUME NEW n \in 1..Len(list)
      PROVE  list[n] <= a[n - Len(list) + Len(a)]
  <2> DEFINE m == n - Len(list) + Len(kept)
  <2>1. list[n] <= kept[m]
    BY FollowedFacts
  <2>2. /\ m \in 1..Len(kept)
        /\ n - Len(list) + Len(a) = m + 1
    BY <1>1, <1>2
  <2> HIDE DEF m
  <2>3. a[m] = kept[m]
    BY <1>1, <2>2
  <2>4. m \in 1..Len(a) /\ m + 1 \in 1..Len(a) /\ m <= m + 1
    BY <1>1, <1>2, <2>2
  <2>5. a[m] <= a[m + 1]
    BY <1>1, <2>4 DEF InOrder
  <2>6. list[n] \in Nat /\ a[m] \in Nat /\ a[m + 1] \in Nat
    BY <1>2, <2>4
  <2>7. list[n] <= a[m + 1]
    BY <2>1, <2>3, <2>5, <2>6
  <2>8. QED
    BY <2>2, <2>7
<1>4. Trails(list, a)
  BY <1>1, <1>2, <1>3 DEF Trails
<1>5. QED
  BY <1>1, <1>4, FollowedFacts DEF a, Followed

\* An acceptance, or a failure that is answered 401, is in both.
LEMMA RecordedFollowed ==
    ASSUME NEW list, NEW kept, NEW t \in Nat, NEW seconds \in Nat \ {0},
           Followed(list, kept, t, seconds)
    PROVE  /\ Followed(Append(list, t), Append(kept, t), t, seconds)
           /\ Len(Append(list, t)) = Len(list) + 1
           /\ Len(Append(kept, t)) = Len(kept) + 1
<1> DEFINE a == Append(kept, t)
           b == Append(list, t)
<1>1. /\ a \in Seq(Nat)
      /\ Len(a) = Len(kept) + 1
      /\ \A n \in 1..Len(kept) : a[n] = kept[n]
      /\ a[Len(kept) + 1] = t
      /\ InOrder(a)
      /\ Before(a, t)
  BY FollowedFacts, AppendFacts
<1>2. /\ b \in Seq(Nat)
      /\ Len(b) = Len(list) + 1
      /\ \A n \in 1..Len(list) : b[n] = list[n]
      /\ b[Len(list) + 1] = t
      /\ InOrder(b)
      /\ Before(b, t)
  BY FollowedFacts, AppendFacts
<1> HIDE DEF a, b
<1>3. Len(list) \in Nat /\ Len(kept) \in Nat /\ Len(list) <= Len(kept)
  BY FollowedFacts
<1>4. ASSUME NEW n \in 1..Len(b)
      PROVE  \/ n \in 1..Len(list) /\ b[n] = list[n]
             \/ n = Len(list) + 1 /\ b[n] = t
  BY <1>2, <1>3
<1>5. Within(b, t, seconds)
  <2>1. seconds * Ticks > 0
    <3>1. Ticks \in Nat \ {0}
      BY LimiterAssumption
    <3>2. QED
      BY <3>1
  <2>2. t - t < seconds * Ticks
    BY <2>1
  <2>3. ASSUME NEW n \in 1..Len(b)
        PROVE  t - b[n] < seconds * Ticks
    <3>1. CASE n \in 1..Len(list) /\ b[n] = list[n]
      <4>1. t - list[n] < seconds * Ticks
        BY <3>1, FollowedFacts DEF Within
      <4>2. QED
        BY <3>1, <4>1
    <3>2. CASE n = Len(list) + 1 /\ b[n] = t
      BY <2>2, <3>2
    <3>3. QED
      BY <1>4, <3>1, <3>2
  <2>4. QED
    BY <2>3 DEF Within
<1>6. Trails(b, a)
  <2>1. ASSUME NEW n \in 1..Len(b)
        PROVE  b[n] <= a[n - Len(b) + Len(a)]
    <3> DEFINE m == n - Len(list) + Len(kept)
    <3>1. n - Len(b) + Len(a) = m
      BY <1>1, <1>2, <1>3
    <3>2. CASE n \in 1..Len(list) /\ b[n] = list[n]
      <4>1. list[n] <= kept[m]
        BY <3>2, FollowedFacts
      <4>2. m \in 1..Len(kept)
        BY <1>3, <3>2
      <4> HIDE DEF m
      <4>3. a[m] = kept[m]
        BY <1>1, <4>2
      <4>4. QED
        BY <3>1, <3>2, <4>1, <4>3
    <3>3. CASE n = Len(list) + 1 /\ b[n] = t
      <4>1. m = Len(kept) + 1
        BY <1>3, <3>3
      <4> HIDE DEF m
      <4>2. a[m] = t
        BY <1>1, <4>1
      <4>3. QED
        BY <3>1, <3>3, <4>2
    <3>4. QED
      BY <1>4, <3>2, <3>3
  <2>2. QED
    BY <1>1, <1>2, <1>3, <2>1 DEF Trails
<1>7. QED
  BY <1>1, <1>2, <1>5, <1>6 DEF a, b, Followed

\* The empty lists of a process that has just started.
LEMMA EmptyFollowed ==
    ASSUME NEW t \in Nat, NEW seconds \in Nat
    PROVE  Followed(<<>>, <<>>, t, seconds) /\ Len(<<>>) = 0
BY DEF Followed, InOrder, Before, Within, Trails

-----------------------------------------------------------------------------
(* Seconds to wait *)

\* A later look leaves no more.
LEMMA PruneLater ==
    ASSUME NEW s \in Seq(Nat), NEW seconds \in Nat,
           NEW t \in Int, NEW u \in Int, t <= u
    PROVE  Len(Prune(s, u, seconds)) <= Len(Prune(s, t, seconds))
<1> DEFINE d == Expired(s, t, seconds)
           e == Expired(s, u, seconds)
           span == seconds * Ticks
<1>1. /\ d \in 0..Len(s) /\ e \in 0..Len(s) /\ Len(s) \in Nat
      /\ Len(Prune(s, t, seconds)) = Len(s) - d
      /\ Len(Prune(s, u, seconds)) = Len(s) - e
  BY PruneFacts
<1>2. \A m \in 1..d : s[m] <= t - span
  BY ExpiredFacts
<1>3. e < Len(s) => s[e + 1] > u - span
  BY ExpiredFacts
<1>4. span \in Int /\ \A n \in 1..Len(s) : s[n] \in Nat
  <2>1. span \in Nat
    BY SpanType
  <2>2. \A n \in 1..Len(s) : s[n] \in Nat
    OBVIOUS
  <2> HIDE DEF span
  <2>3. QED
    BY <2>1, <2>2
<1> HIDE DEF d, e, span
<1>5. ~(e < d)
  <2> SUFFICES ASSUME e < d
               PROVE  FALSE
    OBVIOUS
  <2>1. e + 1 \in 1..d /\ e < Len(s) /\ e + 1 \in 1..Len(s)
    BY <1>1
  <2>2. s[e + 1] <= t - span /\ s[e + 1] > u - span /\ s[e + 1] \in Nat
    BY <1>2, <1>3, <1>4, <2>1
  <2>3. QED
    BY <1>4, <2>2
<1>6. QED
  BY <1>1, <1>5

\* The head decides whether anything is popped.
LEMMA HeadDecides ==
    ASSUME NEW s \in Seq(Nat), NEW seconds \in Nat, NEW t \in Int, Len(s) > 0
    PROVE  /\ s[1] <= t - seconds * Ticks => Len(Prune(s, t, seconds)) < Len(s)
           /\ s[1] > t - seconds * Ticks => Len(Prune(s, t, seconds)) = Len(s)
<1> DEFINE d == Expired(s, t, seconds)
           cutoff == t - seconds * Ticks
<1>1. /\ d \in 0..Len(s) /\ Len(s) \in Nat
      /\ Len(Prune(s, t, seconds)) = Len(s) - d
  BY PruneFacts
<1>2. \A m \in 1..d : s[m] <= cutoff
  BY ExpiredFacts
<1>3. d < Len(s) => s[d + 1] > cutoff
  BY ExpiredFacts
<1>4. cutoff \in Int /\ s[1] \in Nat
  <2>1. seconds * Ticks \in Nat
    BY SpanType
  <2>2. cutoff \in Int
    BY <2>1
  <2>3. s[1] \in Nat
    BY <1>1
  <2>4. QED
    BY <2>2, <2>3
<1> HIDE DEF d
<1>5. d = 0 => s[1] > cutoff
  BY <1>1, <1>3
<1>6. d # 0 => s[1] <= cutoff
  <2>1. d # 0 => 1 \in 1..d
    BY <1>1
  <2>2. QED
    BY <1>2, <2>1
<1> HIDE DEF cutoff
<1>7. /\ s[1] <= cutoff => Len(Prune(s, t, seconds)) < Len(s)
      /\ s[1] > cutoff => Len(Prune(s, t, seconds)) = Len(s)
  BY <1>1, <1>4, <1>5, <1>6
<1>8. QED
  BY <1>7 DEF cutoff

\* math.ceil: the least number of whole seconds that is as long.
LEMMA CeilingFacts ==
    ASSUME NEW x \in Int
    PROVE  /\ Ceiling(x) \in Int
           /\ x <= Ceiling(x) * Ticks
           /\ (Ceiling(x) - 1) * Ticks < x
<1> DEFINE y == x + Ticks - 1
           q == y \div Ticks
<1>1. Ticks \in Int /\ Ticks > 0 /\ y \in Int
  BY LimiterAssumption
<1> HIDE DEF y
<1>2. q \in Int /\ q * Ticks <= y /\ y < q * Ticks + Ticks
  BY <1>1
<1> HIDE DEF q
<1>3. (q - 1) * Ticks = q * Ticks - Ticks
  BY <1>1, <1>2
<1>4. x <= q * Ticks /\ (q - 1) * Ticks < x
  BY <1>1, <1>2, <1>3 DEF y
<1>5. Ceiling(x) = q
  BY DEF Ceiling, q, y
<1>6. QED
  BY <1>2, <1>4, <1>5

LEMMA LargestOfTwo ==
    ASSUME NEW x \in Int, NEW y \in Int
    PROVE  /\ Largest({x, y}) \in {x, y}
           /\ x <= Largest({x, y})
           /\ y <= Largest({x, y})
<1>1. \E m \in {x, y} : \A n \in {x, y} : n <= m
  <2>1. CASE x <= y
    BY <2>1
  <2>2. CASE ~(x <= y)
    BY <2>2
  <2>3. QED
    BY <2>1, <2>2
<1>2. QED
  BY <1>1 DEF Largest

\* A request has at most two identifiers, so that at most two buckets are full.
LEMMA FullOnes ==
    ASSUME NEW ids \in Senders, NEW full \in SUBSET ids, full # {}
    PROVE  \E i, j \in full : full = {i, j}
<1>1. CASE \E client \in Clients : ids = {client}
  BY <1>1
<1>2. CASE \E client \in Clients, token \in Tokens : ids = {client, token}
  <2>1. PICK client \in Clients, token \in Tokens : ids = {client, token}
    BY <1>2
  <2>2. \/ full = {client} \/ full = {token} \/ full = {client, token}
    BY <2>1
  <2>3. QED
    BY <2>2
<1>3. QED
  BY <1>1, <1>2, LimiterAssumption

\* The seconds that one full bucket asks to wait.
Wait(c, i) ==
    Largest({1, Ceiling(Prune(bucket[c][i], now, Window)[1] + Window * Ticks - now)})

\* A full bucket has lost nothing to pruning, and its head leaves the window
\* within the seconds it asks for but not within one less.
LEMMA WaitFacts ==
    ASSUME LimiterInv, NEW c \in Categories, NEW i \in Identifiers,
           Full(c, i, now)
    PROVE  /\ bucket[c][i] \in Seq(Nat)
           /\ Limit[c] \in Nat \ {0}
           /\ Len(bucket[c][i]) = Limit[c]
           /\ bucket[c][i][1] \in Nat
           /\ Wait(c, i) \in Nat \ {0}
           /\ bucket[c][i][1] <= now + Wait(c, i) * Ticks - Window * Ticks
           /\ Wait(c, i) > 1 =>
                  bucket[c][i][1] > now + (Wait(c, i) - 1) * Ticks - Window * Ticks
<1> DEFINE b == bucket[c][i]
           span == Window * Ticks
           d == Expired(b, now, Window)
           p == Prune(b, now, Window)
<1>1. /\ b \in Seq(Nat) /\ now \in Int /\ Window \in Nat
      /\ Limit[c] \in Nat \ {0}
      /\ Len(b) <= Limit[c]
  BY LimiterAssumption DEF LimiterInv, Followed, TypeOK
<1>2. Len(p) >= Limit[c]
  BY DEF Full
<1>3. span \in Int
  BY <1>1, SpanType
<1> HIDE DEF b
<1>4. /\ d \in 0..Len(b) /\ Len(b) \in Nat
      /\ Len(p) = Len(b) - d
      /\ \A n \in 1..(Len(b) - d) : p[n] = b[n + d]
  BY <1>1, PruneFacts
<1> HIDE DEF d, p
<1>5. d = 0 /\ Len(b) = Limit[c]
  BY <1>1, <1>2, <1>4
<1>6. p[1] = b[1] /\ b[1] \in Nat
  BY <1>1, <1>4, <1>5
<1> DEFINE x == b[1] + span - now
           w == Largest({1, Ceiling(x)})
<1>7. Wait(c, i) = w
  BY <1>6 DEF Wait, b, p
<1>8. x \in Int
  BY <1>1, <1>3, <1>6
<1> HIDE DEF x
<1>9. /\ Ceiling(x) \in Int
      /\ x <= Ceiling(x) * Ticks
      /\ (Ceiling(x) - 1) * Ticks < x
  BY <1>8, CeilingFacts
<1>10. w \in {1, Ceiling(x)} /\ 1 <= w /\ Ceiling(x) <= w
  <2> DEFINE q == Ceiling(x)
  <2>1. q \in Int /\ 1 \in Int
    BY <1>9
  <2> HIDE DEF q
  <2>2. /\ Largest({1, q}) \in {1, q}
        /\ 1 <= Largest({1, q})
        /\ q <= Largest({1, q})
    BY <2>1, LargestOfTwo
  <2>3. QED
    BY <2>2 DEF q
<1> HIDE DEF w
<1>11. w \in Nat \ {0}
  BY <1>9, <1>10
<1>12. x <= w * Ticks
  <2>1. Ticks \in Nat
    BY LimiterAssumption
  <2>2. Ceiling(x) * Ticks <= w * Ticks
    BY <1>9, <1>10, <1>11, <2>1
  <2>3. Ceiling(x) * Ticks \in Int /\ w * Ticks \in Int
    BY <1>9, <1>11, <2>1
  <2>4. QED
    BY <1>8, <1>9, <2>2, <2>3
<1>13. w > 1 => (w - 1) * Ticks < x
  BY <1>9, <1>10
<1>14. /\ b[1] <= now + w * Ticks - span
       /\ w > 1 => b[1] > now + (w - 1) * Ticks - span
  <2>1. w * Ticks \in Int /\ (w - 1) * Ticks \in Int
    BY <1>11, LimiterAssumption
  <2> DEFINE y == w * Ticks
             z == (w - 1) * Ticks
  <2> HIDE DEF y, z
  <2>2. y \in Int /\ z \in Int /\ x <= y /\ (w > 1 => z < x)
    BY <2>1, <1>12, <1>13 DEF y, z
  <2>3. b[1] <= now + y - span /\ (w > 1 => b[1] > now + z - span)
    BY <2>2, <1>1, <1>3, <1>6 DEF x
  <2>4. QED
    BY <2>3 DEF y, z
<1>15. QED
  BY <1>1, <1>5, <1>6, <1>7, <1>11, <1>14 DEF b

\* The wait that a refusal names is that of one full bucket, and no full
\* bucket asks for more.
LEMMA RetryAfterFacts ==
    ASSUME LimiterInv, NEW c \in Categories, NEW ids \in Senders,
           ~Allowed(c, ids, now)
    PROVE  \E i \in ids :
               /\ Full(c, i, now)
               /\ RetryAfter(c, ids, now) = Wait(c, i)
               /\ \A j \in ids : Full(c, j, now) => Wait(c, j) <= Wait(c, i)
<1> DEFINE full == {i \in ids : Full(c, i, now)}
<1>1. full # {} /\ full \in SUBSET ids
  BY DEF Allowed
<1>2. PICK i, j \in full : full = {i, j}
  BY <1>1, FullOnes
<1>3. ids \subseteq Identifiers
  BY LimiterAssumption DEF Identifiers
<1>4. /\ i \in ids /\ Full(c, i, now)
      /\ j \in ids /\ Full(c, j, now)
  BY <1>2
<1>5. Wait(c, i) \in Int /\ Wait(c, j) \in Int
  BY <1>3, <1>4, WaitFacts
<1>6. RetryAfter(c, ids, now) = Largest({Wait(c, k) : k \in full})
  BY DEF RetryAfter, Wait
<1>7. \A k \in ids : Full(c, k, now) => k = i \/ k = j
  BY <1>2
<1>8. {Wait(c, k) : k \in full} = {Wait(c, i), Wait(c, j)}
  BY <1>2
<1> HIDE DEF full
<1> DEFINE x == Wait(c, i)
           y == Wait(c, j)
<1>9. RetryAfter(c, ids, now) = Largest({x, y})
  BY <1>6, <1>8
<1>10. x \in Int /\ y \in Int
  BY <1>5
<1> HIDE DEF x, y
<1>11. /\ Largest({x, y}) \in {x, y}
       /\ x <= Largest({x, y})
       /\ y <= Largest({x, y})
  BY <1>10, LargestOfTwo
<1>12. CASE Largest({x, y}) = x
  <2>1. \A k \in ids : Full(c, k, now) => Wait(c, k) <= Wait(c, i)
    BY <1>5, <1>7, <1>11, <1>12 DEF x, y
  <2>2. QED
    BY <1>4, <1>9, <1>12, <2>1 DEF x
<1>13. CASE Largest({x, y}) = y
  <2>1. \A k \in ids : Full(c, k, now) => Wait(c, k) <= Wait(c, j)
    BY <1>5, <1>7, <1>11, <1>13 DEF x, y
  <2>2. QED
    BY <1>4, <1>9, <1>13, <2>1 DEF y
<1>14. QED
  BY <1>11, <1>12, <1>13

LEMMA WaitExact ==
    ASSUME LimiterInv, NEW c \in Categories, NEW ids \in Senders,
           ~Allowed(c, ids, now)
    PROVE  /\ RetryAfter(c, ids, now) \in Nat \ {0}
           /\ WaitIsExact(c, ids)
<1> DEFINE wait == RetryAfter(c, ids, now)
           at == now + wait * Ticks
           before == now + (wait - 1) * Ticks
<1>1. ids \subseteq Identifiers
  BY LimiterAssumption DEF Identifiers
<1>2. PICK i \in ids : /\ Full(c, i, now)
                       /\ wait = Wait(c, i)
                       /\ \A j \in ids : Full(c, j, now) => Wait(c, j) <= Wait(c, i)
  BY RetryAfterFacts
<1>3. wait \in Nat \ {0} /\ now \in Nat /\ Ticks \in Nat \ {0} /\ Window \in Nat
  BY <1>1, <1>2, WaitFacts, LimiterAssumption DEF LimiterInv, TypeOK
<1> HIDE DEF wait
<1>4. at \in Int /\ before \in Int /\ now <= at /\ Window * Ticks \in Int
  BY <1>3
<1>5. ASSUME NEW j \in ids
      PROVE  ~Full(c, j, at)
  <2> DEFINE b == bucket[c][j]
  <2>1. b \in Seq(Nat) /\ Limit[c] \in Nat \ {0}
    BY <1>1, LimiterAssumption DEF LimiterInv, TypeOK
  <2>2. Len(Prune(b, at, Window)) \in Nat /\ Len(Prune(b, now, Window)) \in Nat
    BY <1>3, <1>4, <2>1, PruneFacts
  <2>3. CASE ~Full(c, j, now)
    <3>1. Len(Prune(b, now, Window)) < Limit[c]
      BY <2>1, <2>2, <2>3 DEF Full
    <3>2. Len(Prune(b, at, Window)) <= Len(Prune(b, now, Window))
      BY <1>3, <1>4, <2>1, PruneLater
    <3>3. QED
      BY <2>1, <2>2, <3>1, <3>2 DEF Full
  <2>4. CASE Full(c, j, now)
    <3>1. /\ Len(b) = Limit[c]
          /\ b[1] \in Nat
          /\ Wait(c, j) \in Nat
          /\ b[1] <= now + Wait(c, j) * Ticks - Window * Ticks
      BY <1>1, <2>4, WaitFacts
    <3>2. Wait(c, j) <= wait
      BY <1>2, <2>4
    <3>3. Wait(c, j) * Ticks <= wait * Ticks
      BY <1>3, <3>1, <3>2
    <3>4. Wait(c, j) * Ticks \in Int /\ wait * Ticks \in Int
      BY <1>3, <3>1
    <3> DEFINE x == Wait(c, j) * Ticks
               y == wait * Ticks
               span == Window * Ticks
    <3> HIDE DEF x, y, span
    <3>5. b[1] <= at - span
      <4>1. /\ x \in Int /\ y \in Int /\ x <= y
            /\ span \in Int /\ now \in Int /\ b[1] \in Int
            /\ b[1] <= now + x - span
        BY <1>3, <1>4, <3>1, <3>3, <3>4 DEF x, y, span
      <4>2. at = now + y
        BY DEF y
      <4> HIDE DEF at, b
      <4>3. QED
        BY <4>1, <4>2
    <3> HIDE DEF at, b
    <3>6. Len(Prune(b, at, Window)) < Len(b)
      BY <1>3, <1>4, <2>1, <3>1, <3>5, HeadDecides DEF span
    <3>7. QED
      BY <2>1, <2>2, <3>1, <3>6 DEF Full, b
  <2>5. QED
    BY <2>3, <2>4
<1>6. ASSUME wait > 1
      PROVE  Full(c, i, before)
  <2> DEFINE b == bucket[c][i]
  <2>1. /\ b \in Seq(Nat) /\ Limit[c] \in Nat \ {0}
        /\ Len(b) = Limit[c]
        /\ b[1] > before - Window * Ticks
    <3>1. /\ b \in Seq(Nat)
          /\ Limit[c] \in Nat \ {0}
          /\ Len(b) = Limit[c]
          /\ Wait(c, i) > 1 =>
                 b[1] > now + (Wait(c, i) - 1) * Ticks - Window * Ticks
      BY <1>1, <1>2, WaitFacts
    <3> HIDE DEF b
    <3>2. wait > 1 => b[1] > now + (wait - 1) * Ticks - Window * Ticks
      BY <1>2, <3>1
    <3>3. b[1] > now + (wait - 1) * Ticks - Window * Ticks
      BY <1>6, <3>2
    <3>4. before = now + (wait - 1) * Ticks
      OBVIOUS
    <3> HIDE DEF before
    <3>5. b[1] > before - Window * Ticks
      BY <1>3, <1>4, <3>3, <3>4
    <3>6. QED
      BY <3>1, <3>5
  <2> HIDE DEF before, b
  <2>2. Len(Prune(b, before, Window)) = Len(b)
    BY <1>3, <1>4, <2>1, HeadDecides
  <2>3. QED
    BY <2>1, <2>2 DEF Full, b
<1>7. Allowed(c, ids, at) /\ (wait > 1 => ~Allowed(c, ids, before))
  BY <1>5, <1>6 DEF Allowed
<1>8. QED
  BY <1>3, <1>7 DEF wait, WaitIsExact

\* Waiting longer than until now does not close a rule again.
LEMMA AllowedLater ==
    ASSUME LimiterInv, NEW c \in Categories, NEW ids \in Senders,
           NEW t \in Int, NEW u \in Int, t <= u, Allowed(c, ids, t)
    PROVE  Allowed(c, ids, u)
<1>1. ids \subseteq Identifiers
  BY LimiterAssumption DEF Identifiers
<1> SUFFICES ASSUME NEW j \in ids
             PROVE  ~Full(c, j, u)
  BY DEF Allowed
<1> DEFINE b == bucket[c][j]
<1>2. b \in Seq(Nat) /\ Limit[c] \in Nat \ {0} /\ Window \in Nat
  BY <1>1, LimiterAssumption DEF LimiterInv, TypeOK
<1>3. ~(Len(Prune(b, t, Window)) >= Limit[c])
  BY DEF Allowed, Full
<1> HIDE DEF b
<1>4. Len(Prune(b, t, Window)) \in Nat /\ Len(Prune(b, u, Window)) \in Nat
  BY <1>2, PruneFacts
<1>5. Len(Prune(b, u, Window)) <= Len(Prune(b, t, Window))
  BY <1>2, PruneLater
<1>6. ~(Len(Prune(b, u, Window)) >= Limit[c])
  BY <1>2, <1>3, <1>4, <1>5
<1>7. QED
  BY <1>6 DEF Full, b

\* A rule that refuses now lets in after its own wait and after any longer one,
\* and one that does not refuse does not begin to.
LEMMA AllowedAfter ==
    ASSUME LimiterInv, NEW c \in Categories, NEW ids \in Senders, NEW wait \in Nat,
           ~Allowed(c, ids, now) => RetryAfter(c, ids, now) <= wait
    PROVE  Allowed(c, ids, now + wait * Ticks)
<1>1. now \in Nat /\ Ticks \in Nat \ {0}
  BY LimiterAssumption DEF LimiterInv, TypeOK
<1>2. wait * Ticks \in Nat
  BY <1>1
<1>3. CASE Allowed(c, ids, now)
  <2> DEFINE later == now + wait * Ticks
  <2>1. later \in Int /\ now <= later
    BY <1>1, <1>2
  <2> HIDE DEF later
  <2>2. Allowed(c, ids, later)
    BY <1>1, <1>3, <2>1, AllowedLater
  <2>3. QED
    BY <2>2 DEF later
<1>4. CASE ~Allowed(c, ids, now)
  <2> DEFINE own == RetryAfter(c, ids, now)
  <2>1. own \in Nat /\ own <= wait /\ Allowed(c, ids, now + own * Ticks)
    BY <1>4, WaitExact DEF WaitIsExact
  <2> HIDE DEF own
  <2>2. own * Ticks \in Nat /\ own * Ticks <= wait * Ticks
    BY <1>1, <2>1
  <2> DEFINE early == now + own * Ticks
             later == now + wait * Ticks
  <2>3. early \in Int /\ later \in Int /\ early <= later
    BY <1>1, <1>2, <2>2
  <2>4. Allowed(c, ids, early)
    BY <2>1
  <2> HIDE DEF early, later
  <2>5. Allowed(c, ids, later)
    BY <2>3, <2>4, AllowedLater
  <2>6. QED
    BY <2>5 DEF later
<1>5. QED
  BY <1>3, <1>4

LEMMA LongerExact ==
    ASSUME LimiterInv, NEW c \in Categories, NEW ids \in Senders,
           ~Passes(c, ids, now)
    PROVE  LongerIsExact(c, ids)
<1> DEFINE Named(rule) == RetryAfter(rule, ids, now)
           waits == {Named(rule) : rule \in Refusing(c, ids)}
           wait == Largest(waits)
<1>1. "general" \in Categories
  BY LimiterAssumption
<1>2. \A rule \in Refusing(c, ids) :
          /\ rule \in Categories
          /\ Named(rule) \in Nat \ {0}
          /\ WaitIsExact(rule, ids)
  BY <1>1, WaitExact DEF Refusing
<1>3. PICK x \in Refusing(c, ids), y \in Refusing(c, ids) : Refusing(c, ids) = {x, y}
  <2>1. Refusing(c, ids) # {} /\ Refusing(c, ids) \in SUBSET {"general", c}
    BY DEF Passes, Refusing
  <2>2. QED
    BY <2>1
<1>4. waits = {Named(x), Named(y)}
  BY <1>3
<1>5. PICK rule \in Refusing(c, ids) :
          /\ wait = Named(rule)
          /\ \A other \in Refusing(c, ids) : Named(other) <= wait
  <2>1. Named(x) \in Int /\ Named(y) \in Int
    BY <1>2
  <2> HIDE DEF Named
  <2>2. wait \in {Named(x), Named(y)} /\ Named(x) <= wait /\ Named(y) <= wait
    BY <1>4, <2>1, LargestOfTwo
  <2> HIDE DEF waits, wait
  <2>3. QED
    BY <1>3, <2>2
<1>6. wait \in Nat
  BY <1>2, <1>5
<1> HIDE DEF wait, waits
<1>7. ASSUME NEW other \in {"general", c}
      PROVE  Allowed(other, ids, now + wait * Ticks)
  <2>1. other \in Categories
    BY <1>1
  <2>2. ~Allowed(other, ids, now) => RetryAfter(other, ids, now) <= wait
    BY <1>5 DEF Refusing
  <2>3. QED
    BY <1>6, <2>1, <2>2, AllowedAfter
<1>8. Passes(c, ids, now + wait * Ticks)
  BY <1>7 DEF Passes
<1>9. ASSUME wait > 1
      PROVE  ~Passes(c, ids, now + (wait - 1) * Ticks)
  <2>1. ~Allowed(rule, ids, now + (wait - 1) * Ticks)
    BY <1>2, <1>5, <1>9 DEF WaitIsExact
  <2>2. rule = "general" \/ (rule = c /\ c # "general")
    BY DEF Refusing
  <2>3. QED
    BY <2>1, <2>2 DEF Passes
<1>10. QED
  BY <1>8, <1>9 DEF LongerIsExact, wait, waits

LEMMA RetryAfterExact ==
    ASSUME LimiterInv
    PROVE  RetryAfterIsExact
BY WaitExact, LongerExact DEF RetryAfterIsExact

\* A history is no longer than the list that it follows.
LEMMA WindowsHold ==
    ASSUME LimiterInv
    PROVE  WindowsInv /\ FewFailuresShown
<1>1. ASSUME NEW c \in Categories, NEW i \in Identifiers
      PROVE  Len(served[c][i]) <= Limit[c]
  <2>1. /\ Len(served[c][i]) <= Len(bucket[c][i])
        /\ Len(bucket[c][i]) <= Limit[c]
        /\ served[c][i] \in Seq(Nat) /\ bucket[c][i] \in Seq(Nat)
    BY DEF LimiterInv, Followed, Trails
  <2>2. Limit[c] \in Nat
    BY LimiterAssumption
  <2>3. QED
    BY <2>1, <2>2
<1>2. QED
  BY <1>1 DEF LimiterInv, WindowsInv, WindowHoldsLimit, FewFailuresShown

-----------------------------------------------------------------------------
(* The invariant *)

LEMMA InitLimiter ==
    ASSUME Init
    PROVE  LimiterInv
<1>1. now = 1 /\ 1 \in Nat
  BY DEF Init
<1>2. TypeOK
  <2>1. <<>> \in Seq(Nat)
    OBVIOUS
  <2>2. QED
    BY <2>1 DEF Init, TypeOK
<1>3. ASSUME NEW c \in Categories, NEW i \in Identifiers
      PROVE  /\ Followed(served[c][i], bucket[c][i], now, Window)
             /\ Len(bucket[c][i]) <= Limit[c]
  <2>1. served[c][i] = <<>> /\ bucket[c][i] = <<>>
    BY DEF Init
  <2>2. Followed(<<>>, <<>>, 1, Window) /\ Len(<<>>) = 0 /\ Limit[c] \in Nat
    BY EmptyFollowed, LimiterAssumption
  <2>3. QED
    BY <1>1, <2>1, <2>2
<1>4. ASSUME NEW client \in Clients
      PROVE  /\ Followed(rejected[client], failures[client], now, FailureWindow)
             /\ Len(rejected[client]) < FailureLimit
  <2>1. rejected[client] = <<>> /\ failures[client] = <<>>
    BY DEF Init
  <2>2. /\ Followed(<<>>, <<>>, 1, FailureWindow)
        /\ Len(<<>>) = 0
        /\ FailureLimit \in Nat \ {0}
    BY EmptyFollowed, LimiterAssumption
  <2>3. 0 < FailureLimit
    BY <2>2
  <2>4. QED
    BY <1>1, <2>1, <2>2, <2>3
<1>5. QED
  BY <1>2, <1>3, <1>4 DEF LimiterInv

\* Both lists of one category and identifier after its bucket was looked at.
LEMMA CheckedFollowed ==
    ASSUME LimiterInv, NEW d \in Categories, NEW i \in Identifiers
    PROVE  LET pruned == Prune(bucket[d][i], now, Window)
           IN  /\ Followed(served[d][i], pruned, now, Window)
               /\ Len(pruned) <= Limit[d]
               /\ ~Full(d, i, now) =>
                      /\ Followed(Append(served[d][i], now), Append(pruned, now), now, Window)
                      /\ Len(Append(pruned, now)) <= Limit[d]
<1> DEFINE b == bucket[d][i]
           list == served[d][i]
           pruned == Prune(b, now, Window)
<1>1. /\ now \in Nat /\ Window \in Nat \ {0} /\ Limit[d] \in Nat
      /\ Followed(list, b, now, Window)
      /\ Len(b) <= Limit[d]
  BY LimiterAssumption DEF LimiterInv, TypeOK
<1>2. ~Full(d, i, now) => ~(Len(pruned) >= Limit[d])
  BY DEF Full
<1> HIDE DEF b, list
<1>3. Followed(list, pruned, now, Window) /\ Len(pruned) <= Len(b)
  BY <1>1, PruneFollowed
<1>4. Len(b) \in Nat /\ Len(pruned) \in Nat
  BY <1>1, <1>3 DEF Followed
<1> HIDE DEF pruned
<1>5. /\ Followed(Append(list, now), Append(pruned, now), now, Window)
      /\ Len(Append(pruned, now)) = Len(pruned) + 1
  BY <1>1, <1>3, RecordedFollowed
<1>6. QED
  BY <1>1, <1>2, <1>3, <1>4, <1>5 DEF pruned, b, list

LEMMA ArriveLimiter ==
    ASSUME LimiterInv, NEW r \in Requests, Arrive(r)
    PROVE  LimiterInv'
<1>1. PICK client \in Clients, c \in Categories, ids \in Senders :
          LET checked == IF Allowed("general", ids, now)
                         THEN {"general", c} ELSE {"general"}
          IN  /\ ForgetCooldown(client)
              /\ bucket' = [d \in Categories |->
                     IF d \in checked THEN Checked(d, ids) ELSE bucket[d]]
              /\ served' = [d \in Categories |->
                     IF d \in checked /\ Allowed(d, ids, now)
                     THEN Recorded(served[d], ids) ELSE served[d]]
              /\ inFlight' = [inFlight EXCEPT ![r] =
                                IF Passes(c, ids, now) THEN client ELSE Null]
              /\ UNCHANGED <<now, failures, rejected>>
  BY DEF Arrive
<1> DEFINE checked == IF Allowed("general", ids, now)
                      THEN {"general", c} ELSE {"general"}
<1>2. /\ ForgetCooldown(client)
      /\ bucket' = [d \in Categories |->
             IF d \in checked THEN Checked(d, ids) ELSE bucket[d]]
      /\ served' = [d \in Categories |->
             IF d \in checked /\ Allowed(d, ids, now)
             THEN Recorded(served[d], ids) ELSE served[d]]
      /\ \/ inFlight' = [inFlight EXCEPT ![r] = client]
         \/ inFlight' = [inFlight EXCEPT ![r] = Null]
      /\ UNCHANGED <<now, failures, rejected>>
  BY <1>1
<1> HIDE DEF checked
<1>3. ASSUME NEW d \in Categories, NEW i \in Identifiers
      PROVE  LET pruned == Prune(bucket[d][i], now, Window)
             IN  \/ /\ bucket'[d][i] = bucket[d][i]
                    /\ served'[d][i] = served[d][i]
                 \/ /\ bucket'[d][i] = pruned
                    /\ served'[d][i] = served[d][i]
                 \/ /\ ~Full(d, i, now)
                    /\ bucket'[d][i] = Append(pruned, now)
                    /\ served'[d][i] = Append(served[d][i], now)
  <2>1. bucket'[d] = (IF d \in checked THEN Checked(d, ids) ELSE bucket[d])
    BY <1>2
  <2>2. served'[d] = (IF d \in checked /\ Allowed(d, ids, now)
                      THEN Recorded(served[d], ids) ELSE served[d])
    BY <1>2
  <2>3. Pruned(d, ids)[i] = (IF i \in ids THEN Prune(bucket[d][i], now, Window)
                             ELSE bucket[d][i])
    BY DEF Pruned
  <2>4. CASE d \notin checked
    BY <2>1, <2>2, <2>4
  <2>5. CASE d \in checked /\ ~Allowed(d, ids, now)
    BY <2>1, <2>2, <2>3, <2>5 DEF Checked
  <2>6. CASE d \in checked /\ Allowed(d, ids, now)
    <3>1. bucket'[d] = Recorded(Pruned(d, ids), ids)
      BY <2>1, <2>6 DEF Checked
    <3>2. bucket'[d][i] = (IF i \in ids THEN Append(Pruned(d, ids)[i], now)
                           ELSE Pruned(d, ids)[i])
      BY <3>1 DEF Recorded
    <3>3. served'[d][i] = (IF i \in ids THEN Append(served[d][i], now)
                           ELSE served[d][i])
      BY <2>2, <2>6 DEF Recorded
    <3>4. i \in ids => ~Full(d, i, now)
      BY <2>6 DEF Allowed
    <3>5. CASE i \in ids
      BY <2>3, <3>2, <3>3, <3>4, <3>5
    <3>6. CASE i \notin ids
      BY <2>3, <3>2, <3>3, <3>6
    <3>7. QED
      BY <3>5, <3>6
  <2>7. QED
    BY <2>4, <2>5, <2>6
<1>4. ASSUME NEW d \in Categories, NEW i \in Identifiers
      PROVE  /\ Followed(served'[d][i], bucket'[d][i], now', Window)
             /\ Len(bucket'[d][i]) <= Limit[d]
  <2>1. /\ Followed(served[d][i], bucket[d][i], now, Window)
        /\ Len(bucket[d][i]) <= Limit[d]
    BY DEF LimiterInv
  <2>2. now' = now
    BY <1>2
  <2>3. QED
    BY <1>3, <2>1, <2>2, CheckedFollowed
<1>5. TypeOK'
  <2>1. /\ now' \in Nat
        /\ failures' \in [Clients -> Seq(Nat)]
        /\ rejected' \in [Clients -> Seq(Nat)]
    BY <1>2 DEF LimiterInv, TypeOK
  <2>2. inFlight' \in [Requests -> Clients \cup {Null}]
    BY <1>2 DEF LimiterInv, TypeOK
  <2>3. blockedUntil' \in [Clients -> Nat]
    BY <1>2 DEF LimiterInv, TypeOK, ForgetCooldown
  <2>4. /\ \A d \in Categories, i \in Identifiers : bucket'[d][i] \in Seq(Nat)
        /\ \A d \in Categories, i \in Identifiers : served'[d][i] \in Seq(Nat)
    BY <1>4 DEF Followed
  <2>5. \A d \in Categories : /\ bucket[d] = [i \in Identifiers |-> bucket[d][i]]
                              /\ served[d] = [i \in Identifiers |-> served[d][i]]
    BY DEF LimiterInv, TypeOK
  <2>6. bucket' \in [Categories -> [Identifiers -> Seq(Nat)]]
    <3>1. ASSUME NEW d \in Categories
          PROVE  bucket'[d] = [i \in Identifiers |-> bucket'[d][i]]
      BY <1>2, <2>5 DEF Checked, Recorded, Pruned
    <3>2. QED
      BY <1>2, <2>4, <3>1
  <2>7. served' \in [Categories -> [Identifiers -> Seq(Nat)]]
    <3>1. ASSUME NEW d \in Categories
          PROVE  served'[d] = [i \in Identifiers |-> served'[d][i]]
      BY <1>2, <2>5 DEF Recorded
    <3>2. QED
      BY <1>2, <2>4, <3>1
  <2>8. QED
    BY <2>1, <2>2, <2>3, <2>6, <2>7 DEF TypeOK
<1>6. \A client_1 \in Clients :
          /\ Followed(rejected'[client_1], failures'[client_1], now', FailureWindow)
          /\ Len(rejected'[client_1]) < FailureLimit
  BY <1>2 DEF LimiterInv
<1>7. QED
  BY <1>4, <1>5, <1>6 DEF LimiterInv

LEMMA AnswerLimiter ==
    ASSUME LimiterInv, NEW r \in Requests, Answer(r)
    PROVE  LimiterInv'
<1>1. /\ inFlight' = [inFlight EXCEPT ![r] = Null]
      /\ UNCHANGED <<now, bucket, failures, blockedUntil, served, rejected>>
  BY DEF Answer
<1>2. TypeOK'
  BY <1>1 DEF LimiterInv, TypeOK
<1>3. /\ \A c \in Categories, i \in Identifiers :
             /\ Followed(served'[c][i], bucket'[c][i], now', Window)
             /\ Len(bucket'[c][i]) <= Limit[c]
      /\ \A client \in Clients :
             /\ Followed(rejected'[client], failures'[client], now', FailureWindow)
             /\ Len(rejected'[client]) < FailureLimit
  BY <1>1 DEF LimiterInv
<1>4. QED
  BY <1>2, <1>3 DEF LimiterInv

LEMMA FailLimiter ==
    ASSUME LimiterInv, NEW r \in Requests, Fail(r)
    PROVE  LimiterInv'
<1> DEFINE client == inFlight[r]
           pruned == Prune(failures[client], now, FailureWindow)
           listed == Append(pruned, now)
<1>1. /\ client \in Clients
      /\ inFlight' = [inFlight EXCEPT ![r] = Null]
      /\ UNCHANGED <<now, bucket, served>>
  BY LimiterAssumption DEF Fail
<1>2. /\ failures' \in {failures, [failures EXCEPT ![client] = listed]}
      /\ rejected' \in {rejected, [rejected EXCEPT ![client] = Append(@, now)]}
      /\ rejected' # rejected =>
             /\ failures' = [failures EXCEPT ![client] = listed]
             /\ ~(Len(listed) >= FailureLimit)
  BY DEF Fail
<1>3. /\ now \in Nat
      /\ FailureWindow \in Nat \ {0} /\ FailureLimit \in Nat
      /\ Followed(rejected[client], failures[client], now, FailureWindow)
      /\ Len(rejected[client]) < FailureLimit
  BY <1>1, LimiterAssumption DEF LimiterInv, TypeOK
<1>4. Followed(rejected[client], pruned, now, FailureWindow)
  BY <1>3, PruneFollowed
<1>5. /\ Followed(rejected[client], listed, now, FailureWindow)
      /\ Followed(Append(rejected[client], now), listed, now, FailureWindow)
  BY <1>3, <1>4, NotedFollowed, RecordedFollowed
<1>6. /\ Len(Append(rejected[client], now)) <= Len(listed)
      /\ Len(Append(rejected[client], now)) \in Nat /\ Len(listed) \in Nat
  BY <1>5 DEF Followed, Trails
<1>7. failures \in [Clients -> Seq(Nat)] /\ rejected \in [Clients -> Seq(Nat)]
  BY DEF LimiterInv, TypeOK
<1> HIDE DEF client, pruned, listed
<1>8. ASSUME NEW other \in Clients
      PROVE  /\ Followed(rejected'[other], failures'[other], now', FailureWindow)
             /\ Len(rejected'[other]) < FailureLimit
  <2>1. CASE other # client
    <3>1. rejected'[other] = rejected[other] /\ failures'[other] = failures[other]
      BY <1>2, <1>7, <2>1
    <3>2. QED
      BY <1>1, <3>1 DEF LimiterInv
  <2>2. CASE other = client
    <3>1. CASE rejected' = rejected
      <4>1. failures'[client] \in {failures[client], listed}
        BY <1>1, <1>2, <1>7
      <4>2. QED
        BY <1>1, <1>3, <1>5, <2>2, <3>1, <4>1
    <3>2. CASE rejected' # rejected
      <4>1. /\ failures'[client] = listed
            /\ rejected'[client] = Append(rejected[client], now)
            /\ ~(Len(listed) >= FailureLimit)
        BY <1>1, <1>2, <1>7, <3>2
      <4>2. Len(Append(rejected[client], now)) < FailureLimit
        BY <1>3, <1>6, <4>1
      <4>3. QED
        BY <1>1, <1>5, <2>2, <4>1, <4>2
    <3>3. QED
      BY <3>1, <3>2
  <2>3. QED
    BY <2>1, <2>2
<1>9. TypeOK'
  <2>1. /\ now' \in Nat
        /\ bucket' \in [Categories -> [Identifiers -> Seq(Nat)]]
        /\ served' \in [Categories -> [Identifiers -> Seq(Nat)]]
        /\ inFlight' \in [Requests -> Clients \cup {Null}]
    BY <1>1 DEF LimiterInv, TypeOK
  <2>2. blockedUntil' \in [Clients -> Nat]
    <3>1. now + Cooldown * Ticks \in Nat
      BY <1>3, LimiterAssumption
    <3>2. \/ blockedUntil' = [blockedUntil EXCEPT ![client] = now + Cooldown * Ticks]
          \/ ForgetCooldown(client)
      BY DEF Fail, client
    <3>3. blockedUntil \in [Clients -> Nat]
      BY DEF LimiterInv, TypeOK
    <3>4. CASE ForgetCooldown(client)
      BY <1>1, <3>3, <3>4 DEF ForgetCooldown
    <3>5. CASE blockedUntil' = [blockedUntil EXCEPT ![client] = now + Cooldown * Ticks]
      BY <1>1, <3>1, <3>3, <3>5
    <3>6. QED
      BY <3>2, <3>4, <3>5
  <2>3. /\ listed \in Seq(Nat)
        /\ Append(rejected[client], now) \in Seq(Nat)
    BY <1>5 DEF Followed
  <2>4. /\ failures' \in [Clients -> Seq(Nat)]
        /\ rejected' \in [Clients -> Seq(Nat)]
    BY <1>2, <1>7, <2>3
  <2>5. QED
    BY <2>1, <2>2, <2>4 DEF TypeOK
<1>10. QED
  BY <1>1, <1>8, <1>9 DEF LimiterInv

LEMMA TickLimiter ==
    ASSUME LimiterInv, Tick
    PROVE  LimiterInv'
<1>1. /\ now' = now + 1
      /\ served' = [c \in Categories |->
             [i \in Identifiers |-> Recent(served[c][i], now', Window)]]
      /\ rejected' = [c \in Clients |-> Recent(rejected[c], now', FailureWindow)]
      /\ UNCHANGED <<bucket, failures, blockedUntil, inFlight>>
  BY DEF Tick
<1>2. /\ now \in Nat /\ now' \in Nat /\ now <= now'
      /\ Window \in Nat /\ FailureWindow \in Nat /\ FailureLimit \in Nat
  BY <1>1, LimiterAssumption DEF LimiterInv, TypeOK
<1>3. ASSUME NEW c \in Categories, NEW i \in Identifiers
      PROVE  /\ Followed(served'[c][i], bucket'[c][i], now', Window)
             /\ Len(bucket'[c][i]) <= Limit[c]
  <2>1. /\ Followed(served[c][i], bucket[c][i], now, Window)
        /\ Len(bucket[c][i]) <= Limit[c]
    BY DEF LimiterInv
  <2>2. Followed(Recent(served[c][i], now', Window), bucket[c][i], now', Window)
    BY <1>2, <2>1, TickFollowed
  <2>3. QED
    BY <1>1, <2>1, <2>2
<1>4. ASSUME NEW client \in Clients
      PROVE  /\ Followed(rejected'[client], failures'[client], now', FailureWindow)
             /\ Len(rejected'[client]) < FailureLimit
  <2> DEFINE list == rejected[client]
             left == Recent(list, now', FailureWindow)
  <2>1. /\ Followed(list, failures[client], now, FailureWindow)
        /\ Len(list) < FailureLimit
    BY DEF LimiterInv
  <2> HIDE DEF list
  <2>2. /\ Followed(left, failures[client], now', FailureWindow)
        /\ Len(left) <= Len(list)
    BY <1>2, <2>1, TickFollowed
  <2> HIDE DEF left
  <2>3. Len(left) \in Nat /\ Len(list) \in Nat
    BY <2>1, <2>2 DEF Followed
  <2>4. rejected'[client] = left
    BY <1>1 DEF left, list
  <2>5. QED
    BY <1>1, <1>2, <2>1, <2>2, <2>3, <2>4
<1>5. TypeOK'
  <2>1. /\ bucket' \in [Categories -> [Identifiers -> Seq(Nat)]]
        /\ failures' \in [Clients -> Seq(Nat)]
        /\ blockedUntil' \in [Clients -> Nat]
        /\ inFlight' \in [Requests -> Clients \cup {Null}]
    BY <1>1 DEF LimiterInv, TypeOK
  <2>2. /\ \A c \in Categories, i \in Identifiers :
               Recent(served[c][i], now', Window) \in Seq(Nat)
        /\ \A client \in Clients :
               Recent(rejected[client], now', FailureWindow) \in Seq(Nat)
    BY <1>1, <1>3, <1>4 DEF Followed
  <2>3. /\ served' \in [Categories -> [Identifiers -> Seq(Nat)]]
        /\ rejected' \in [Clients -> Seq(Nat)]
    BY <1>1, <2>2
  <2>4. QED
    BY <1>2, <2>1, <2>3 DEF TypeOK
<1>6. QED
  BY <1>3, <1>4, <1>5 DEF LimiterInv

LEMMA StutterLimiter ==
    ASSUME LimiterInv, UNCHANGED vars
    PROVE  LimiterInv'
<1>1. TypeOK'
  BY DEF LimiterInv, TypeOK, vars
<1>2. /\ \A c \in Categories, i \in Identifiers :
             /\ Followed(served'[c][i], bucket'[c][i], now', Window)
             /\ Len(bucket'[c][i]) <= Limit[c]
      /\ \A client \in Clients :
             /\ Followed(rejected'[client], failures'[client], now', FailureWindow)
             /\ Len(rejected'[client]) < FailureLimit
  BY DEF LimiterInv, vars
<1>3. QED
  BY <1>1, <1>2 DEF LimiterInv

\* The store's lists are in order and never longer than their limits, and the
\* histories never run ahead of them, whatever the requests, the application
\* and the clock do.
THEOREM LimiterInvariant == Spec => []LimiterInv
<1>1. Init => LimiterInv
  BY InitLimiter
<1>2. LimiterInv /\ [Next]_vars => LimiterInv'
  BY ArriveLimiter, AnswerLimiter, FailLimiter, TickLimiter, StutterLimiter DEF Next
<1>3. QED
  BY <1>1, <1>2, PTL DEF Spec

-----------------------------------------------------------------------------
(* The theorems *)

\* The windows hold their limits (check_request): in no Window seconds are more
\* than Limit requests of a category accepted from one client or one token,
\* whatever its other identifiers, the other categories and the refusals in
\* between did to the buckets.
THEOREM WindowsHoldTheirLimits == Spec => []WindowsInv
<1>1. LimiterInv => WindowsInv
  BY WindowsHold
<1>2. QED
  BY <1>1, LimiterInvariant, PTL

\* The wait that a rule names is exact for the rule (check_request), and what
\* a request needs that must pass two of them (dispatch) is the longer of the
\* waits that those who refuse it name: with the buckets as they are, it is let
\* in after that and, unless it is the least there is, not a second earlier.
THEOREM RetryAfterExactness == Spec => []RetryAfterIsExact
<1>1. LimiterInv => RetryAfterIsExact
  BY RetryAfterExact
<1>2. QED
  BY <1>1, LimiterInvariant, PTL

\* A client that cannot authenticate (record_authentication_failure) is told
\* so less than FailureLimit times in FailureWindow seconds, for any number of
\* its requests in flight and any length of the cooldown.
THEOREM FewFailuresAreShown == Spec => []FewFailuresShown
<1>1. LimiterInv => FewFailuresShown
  BY WindowsHold
<1>2. QED
  BY <1>1, LimiterInvariant, PTL
=============================================================================
