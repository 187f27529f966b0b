---------------------- MODULE InspectionService_proofs ----------------------
(***************************************************************************)
(* Proofs about the inspection API, for any number of requests, slots,     *)
(* tokens and credentials: whatever the order of their steps, the response *)
(* cache stays within its limits and gives a request only what its own     *)
(* token read, and the vault associates a token with a project, or saves   *)
(* it, only as GitLab and the request allowed. The semaphore admits no     *)
(* more requests than it has slots and forgets none that waits, and every  *)
(* request has only so many steps left.                                    *)
(***************************************************************************)
EXTENDS InspectionService, Selection_proofs, FiniteSetTheorems

-----------------------------------------------------------------------------
(* Entries of the response cache.                                              *)

CachedAnswer == [key : [host : Hosts, project : Projects, token : Tokens, root : Roots],
           read : Reading, created : Nat]
Weight(e) == Size[e.read.evidence]
Small(e) == e.read.evidence \in Evidence
Cached == { e \in CachedAnswer : Small(e) }

LEMMA Weights == ASSUME NEW e \in Cached PROVE Weight(e) \in Nat
  BY ServiceAssumption DEF Cached, Small, Weight

Summing(sum, c) ==
    /\ sum \in [0..Len(c) -> Nat] /\ sum[0] = 0 /\ Bytes(c) = sum[Len(c)]
    /\ \A n \in 1..Len(c) : sum[n] = sum[n - 1] + Weight(c[n])

\* The sizes of a cache, added one entry after the other.
LEMMA ByteSteps == ASSUME NEW c \in Seq(Cached) PROVE \E sum : Summing(sum, c)
<1> DEFINE N == Len(c)
           base == 0
           step == [n \in 1..N |-> [v \in Nat |-> v + Weight(c[n])]]
           Fits(f) == f = [n \in 0..N |-> IF n = 0 THEN 0 ELSE f[n - 1] + Size[c[n].read.evidence]]
<1>1. N \in Nat /\ base \in Nat /\ \A n \in 1..N : c[n] \in Cached
  OBVIOUS
<1>2. \A n \in 1..N : Weight(c[n]) \in Nat
  BY <1>1, Weights
<1>3. step \in [1..N -> [Nat -> Nat]]
  BY <1>2
<1>4. \A n \in 1..N : \A v \in Nat : step[n][v] = v + Weight(c[n])
  OBVIOUS
<1> HIDE DEF N, step, base
<1>5. PICK g : Steps(g, N, Nat, base, step)
  BY <1>1, <1>3, StepByStep
<1>6. PICK f : f \in [0..N -> Nat] /\ f[0] = 0 /\ \A n \in 1..N : f[n] = step[n][f[n - 1]]
  BY <1>5 DEF Steps, base
<1>7. ASSUME NEW n \in 1..N PROVE f[n] = f[n - 1] + Size[c[n].read.evidence]
  <2>1. n - 1 \in 0..N
    BY <1>1
  <2>2. f[n - 1] \in Nat
    BY <1>6, <2>1
  <2> QED
    BY <1>4, <1>6, <2>2 DEF Weight
<1>8. Fits(f)
  <2>1. \A n \in 0..N : n # 0 => n \in 1..N
    BY <1>1
  <2>2. \A n \in 0..N : f[n] = IF n = 0 THEN 0 ELSE f[n - 1] + Size[c[n].read.evidence]
    BY <1>6, <1>7, <2>1
  <2>3. f = [n \in 0..N |-> f[n]]
    BY <1>6
  <2>4. [n \in 0..N |-> f[n]]
          = [n \in 0..N |-> IF n = 0 THEN 0 ELSE f[n - 1] + Size[c[n].read.evidence]]
    BY <2>2, Zenon
  <2> QED
    BY <2>3, <2>4
<1> DEFINE sum == CHOOSE any : Fits(any)
<1>9. Fits(sum)
  <2> HIDE DEF Fits
  <2> QED
    BY <1>8
<1>10. Bytes(c) = sum[Len(c)]
  BY DEF Bytes, N
<1> HIDE DEF sum
<1>11. /\ DOMAIN sum = 0..N /\ sum[0] = 0
       /\ \A n \in 1..N : sum[n] = sum[n - 1] + Weight(c[n])
  <2>1. 0 \in 0..N /\ \A n \in 1..N : n \in 0..N /\ n # 0
    BY <1>1
  <2> QED
    BY <1>9, <2>1 DEF Weight
<1>12. \A n \in 0..N : sum[n] \in Nat
  <2> DEFINE T == { n \in 0..N : sum[n] \in Nat }
  <2>1. 0 \in T
    BY <1>1, <1>11
  <2>2. ASSUME NEW n \in 0..(N - 1), n \in T PROVE n + 1 \in T
    <3>1. n + 1 \in 1..N /\ n + 1 \in 0..N /\ (n + 1) - 1 = n
      BY <1>1
    <3>2. sum[n + 1] = sum[n] + Weight(c[n + 1]) /\ Weight(c[n + 1]) \in Nat
      BY <1>2, <1>11, <3>1
    <3> QED
      BY <2>2, <3>1, <3>2
  <2> HIDE DEF T
  <2>3. \A n \in 0..N : n \in T
    BY <1>1, <2>1, <2>2, UpTo
  <2> QED
    BY <2>3 DEF T
<1>13. sum \in [0..N -> Nat]
  BY <1>9, <1>12
<1>14. Summing(sum, c)
  BY <1>10, <1>11, <1>13 DEF N, Summing
<1> QED
  BY <1>14

LEMMA BytesOfNone == Bytes(<<>>) = 0
<1>1. <<>> \in Seq(Cached) /\ Len(<<>>) = 0
  OBVIOUS
<1>2. PICK sum : Summing(sum, <<>>)
  BY <1>1, ByteSteps
<1> QED
  BY <1>1, <1>2 DEF Summing

LEMMA BytesNatural == ASSUME NEW c \in Seq(Cached) PROVE Bytes(c) \in Nat
<1>1. PICK sum : Summing(sum, c)
  BY ByteSteps
<1> QED
  BY <1>1 DEF Summing

\* An entry adds its size.
LEMMA BytesAppended ==
    ASSUME NEW c \in Seq(Cached), NEW e \in Cached
    PROVE  Bytes(Append(c, e)) = Bytes(c) + Weight(e)
<1> DEFINE t == Append(c, e)
           N == Len(c)
<1>1. N \in Nat /\ t \in Seq(Cached) /\ Len(t) = N + 1 /\ t[N + 1] = e /\ \A n \in 1..N : t[n] = c[n]
  OBVIOUS
<1> HIDE DEF t, N
<1>2. PICK was : Summing(was, c)
  BY ByteSteps
<1>3. PICK now : Summing(now, t)
  BY <1>1, ByteSteps
<1>4. was[0] = 0 /\ Bytes(c) = was[N] /\ \A n \in 1..N : was[n] = was[n - 1] + Weight(c[n])
  BY <1>2 DEF Summing, N
<1>5. now[0] = 0 /\ Bytes(t) = now[N + 1] /\ \A n \in 1..(N + 1) : now[n] = now[n - 1] + Weight(t[n])
  BY <1>1, <1>3 DEF Summing
<1> DEFINE T == { n \in 0..N : now[n] = was[n] }
<1>6. 0 \in T
  BY <1>1, <1>4, <1>5
<1>7. ASSUME NEW n \in 0..(N - 1), n \in T PROVE n + 1 \in T
  <2>1. n + 1 \in 1..N /\ n + 1 \in 0..N /\ n + 1 \in 1..(N + 1) /\ (n + 1) - 1 = n
    BY <1>1
  <2>2. was[n + 1] = was[n] + Weight(c[n + 1])
    BY <1>4, <2>1
  <2>3. now[n + 1] = now[n] + Weight(t[n + 1])
    BY <1>5, <2>1
  <2> QED
    BY <1>1, <1>7, <2>1, <2>2, <2>3
<1> HIDE DEF T
<1>8. \A n \in 0..N : n \in T
  BY <1>1, <1>6, <1>7, UpTo
<1>9. now[N] = was[N]
  BY <1>1, <1>8 DEF T
<1>10. now[N + 1] = now[N] + Weight(e)
  <2>1. N + 1 \in 1..(N + 1) /\ (N + 1) - 1 = N
    BY <1>1
  <2> QED
    BY <1>1, <1>5, <2>1
<1> QED
  BY <1>4, <1>5, <1>9, <1>10 DEF t

\* What is left out of a selection makes room.
LEMMA SelectionWeighs ==
    ASSUME NEW c \in Seq(Cached), NEW S
    PROVE  /\ Bytes(Selected(c, S)) <= Bytes(c)
           /\ \A i \in DOMAIN c : c[i] \notin S =>
                /\ Bytes(Selected(c, S)) + Weight(c[i]) <= Bytes(c)
                /\ Len(Selected(c, S)) + 1 <= Len(c)
<1> DEFINE N == Len(c)
<1>1. N \in Nat /\ DOMAIN c = 1..N /\ \A n \in 1..N : c[n] \in Cached /\ Weight(c[n]) \in Nat
  BY Weights
<1>2. PICK sum : Summing(sum, c)
  BY ByteSteps
<1>3. PICK kept : Selecting(kept, Cached, c, S)
  BY SelectionSteps
<1>4. /\ sum \in [0..N -> Nat] /\ sum[0] = 0 /\ Bytes(c) = sum[N]
      /\ \A n \in 1..N : sum[n] = sum[n - 1] + Weight(c[n])
  BY <1>2 DEF Summing
<1>5. /\ kept \in [0..N -> Seq(Cached)] /\ kept[0] = <<>> /\ Selected(c, S) = kept[N]
      /\ \A n \in 1..N : kept[n] = IF c[n] \in S THEN Append(kept[n - 1], c[n]) ELSE kept[n - 1]
  BY <1>3 DEF Selecting
<1> HIDE DEF N
<1> DEFINE T == { n \in 0..N :
                    /\ Bytes(kept[n]) <= sum[n] /\ Len(kept[n]) <= n
                    /\ \A i \in 1..n : c[i] \notin S =>
                          Bytes(kept[n]) + Weight(c[i]) <= sum[n] /\ Len(kept[n]) + 1 <= n }
<1>6. 0 \in T
  <2>1. 1..0 = {} /\ Len(kept[0]) = 0 /\ Bytes(kept[0]) = 0 /\ 0 \in 0..N
    BY <1>1, <1>5, BytesOfNone
  <2> QED
    BY <1>4, <2>1
<1>7. ASSUME NEW n \in 0..(N - 1), n \in T PROVE n + 1 \in T
  <2> DEFINE was == kept[n]
             now == kept[n + 1]
             e == c[n + 1]
             s == sum[n]
  <2>1. n + 1 \in 1..N /\ n + 1 \in 0..N /\ (n + 1) - 1 = n /\ n \in 0..N /\ n \in Nat
    BY <1>1
  <2>2. /\ was \in Seq(Cached) /\ e \in Cached /\ s \in Nat /\ Weight(e) \in Nat
        /\ now = IF e \in S THEN Append(was, e) ELSE was
        /\ sum[n + 1] = s + Weight(e)
    BY <1>1, <1>4, <1>5, <2>1
  <2>3. /\ Bytes(was) <= s /\ Len(was) <= n
        /\ \A i \in 1..n : c[i] \notin S => Bytes(was) + Weight(c[i]) <= s /\ Len(was) + 1 <= n
    BY <1>7
  <2> HIDE DEF was, now, e, s
  <2>4. Bytes(was) \in Nat /\ Len(was) \in Nat
    BY <2>2, BytesNatural
  <2>5. \A i \in 1..(n + 1) : i = n + 1 \/ i \in 1..n
    BY <2>1
  <2>6. \A i \in 1..n : Weight(c[i]) \in Nat
    <3>1. \A i \in 1..n : i \in 1..N
      BY <1>1, <2>1
    <3> QED
      BY <1>1, <3>1
  <2>7. CASE e \in S
    <3>1. now = Append(was, e)
      BY <2>2, <2>7
    <3>2. Bytes(now) = Bytes(was) + Weight(e) /\ Len(now) = Len(was) + 1
      BY <2>2, <3>1, BytesAppended
    <3>3. \A i \in 1..(n + 1) : c[i] \notin S => i \in 1..n
      BY <2>5, <2>7 DEF e
    <3>4. /\ Bytes(now) <= s + Weight(e) /\ Len(now) <= n + 1
          /\ \A i \in 1..(n + 1) : c[i] \notin S =>
                Bytes(now) + Weight(c[i]) <= s + Weight(e) /\ Len(now) + 1 <= n + 1
      BY SMTT(60), <2>1, <2>2, <2>3, <2>4, <2>6, <3>2, <3>3
    <3> QED
      BY <2>1, <2>2, <3>4 DEF now
  <2>8. CASE e \notin S
    <3>1. now = was
      BY <2>2, <2>8
    <3>2. ASSUME NEW i \in 1..(n + 1), c[i] \notin S
          PROVE  Bytes(was) + Weight(c[i]) <= s + Weight(e) /\ Len(was) + 1 <= n + 1
      <4>1. CASE i = n + 1
        BY <2>1, <2>2, <2>3, <2>4, <4>1 DEF e
      <4>2. CASE i \in 1..n
        BY <2>1, <2>2, <2>3, <2>4, <2>6, <3>2, <4>2
      <4> QED
        BY <2>5, <4>1, <4>2
    <3>3. Bytes(was) <= s + Weight(e) /\ Len(was) <= n + 1
      BY <2>1, <2>2, <2>3, <2>4
    <3> QED
      BY <2>1, <2>2, <3>1, <3>2, <3>3 DEF now
  <2> QED
    BY <2>7, <2>8
<1> HIDE DEF T
<1>8. \A n \in 0..N : n \in T
  BY <1>1, <1>6, <1>7, UpTo
<1>9. N \in T
  BY <1>1, <1>8
<1> QED
  BY <1>1, <1>4, <1>5, <1>9 DEF T, N

-----------------------------------------------------------------------------
(* The cache as a whole.                                                       *)

\* An entry is found under what was read for it.
Own(e) == e.key = [host |-> e.read.host, project |-> e.read.project, token |-> e.read.token,
                   root |-> e.read.root]
Good == { e \in CacheRecord : Reusable(e.read) /\ Own(e) }
OneEach(c) == \A i, j \in DOMAIN c : i # j => c[i].key # c[j].key

CacheFits(c) ==
    c \in Seq(Good) /\ OneEach(c) /\ Len(c) <= CacheEntries /\ Bytes(c) <= CacheBytes

LEMMA GoodIsCached == Good \subseteq Cached
<1>1. \A e \in Good : e \in CachedAnswer
  BY DEF Good, CacheRecord, CachedAnswer
<1>2. \A e \in Good : Small(e)
  BY ServiceAssumption DEF Good, Reusable, Small
<1> QED
  BY <1>1, <1>2 DEF Cached

LEMMA Limits == CacheEntries \in Nat \ {0} /\ CacheBytes \in Nat
  BY ServiceAssumption

\* A selection of a cache that fits, fits.
LEMMA SelectionFits ==
    ASSUME NEW c, CacheFits(c), NEW S PROVE CacheFits(Selected(c, S))
<1> DEFINE r == Selected(c, S)
<1>1. c \in Seq(Good) /\ c \in Seq(Cached)
  BY SequenceOf, GoodIsCached DEF CacheFits
<1>2. r \in Seq(Good) /\ Len(r) <= Len(c)
  BY <1>1, SelectedElements
<1>3. Bytes(r) <= Bytes(c)
  BY <1>1, SelectionWeighs
<1>4. PICK at \in [DOMAIN r -> DOMAIN c] :
        \A j \in DOMAIN r : /\ r[j] = c[at[j]] /\ r[j] \in S
                            /\ \A i \in DOMAIN r : i < j => at[i] < at[j]
  BY SMTT(60), <1>1, SelectedFrom
<1>5. r \in Seq(Cached)
  BY <1>2, SequenceOf, GoodIsCached
<1> HIDE DEF r
<1>6. OneEach(r)
  <2> SUFFICES ASSUME NEW i \in DOMAIN r, NEW j \in DOMAIN r, i < j PROVE r[i].key # r[j].key
    <3>1. DOMAIN r \subseteq Nat
      BY <1>2
    <3>2. \A i, j \in DOMAIN r : i # j => i < j \/ j < i
      BY <3>1
    <3> QED
      BY <3>2 DEF OneEach
  <2>1. at[i] \in DOMAIN c /\ at[j] \in DOMAIN c /\ at[i] < at[j] /\ r[i] = c[at[i]] /\ r[j] = c[at[j]]
    BY <1>4
  <2>2. at[i] # at[j]
    BY <1>1, <2>1
  <2> QED
    BY <2>1, <2>2 DEF CacheFits, OneEach
<1>7. Len(r) <= CacheEntries /\ Bytes(r) <= CacheBytes
  <2>1. Bytes(r) \in Nat /\ Bytes(c) \in Nat /\ Len(r) \in Nat /\ Len(c) \in Nat
    BY <1>1, <1>2, <1>5, BytesNatural
  <2>2. Len(c) <= CacheEntries /\ Bytes(c) <= CacheBytes
    BY DEF CacheFits
  <2>3. Bytes(r) <= Bytes(c) /\ Len(r) <= Len(c)
    BY <1>2, <1>3 DEF r
  <2> QED
    BY <2>1, <2>2, <2>3, Limits
<1> QED
  BY <1>2, <1>6, <1>7 DEF CacheFits, r

\* An entry joins those with other keys.
LEMMA OneMore ==
    ASSUME NEW c \in Seq(Good), OneEach(c), NEW e \in Good,
           \A i \in DOMAIN c : c[i].key # e.key
    PROVE  Append(c, e) \in Seq(Good) /\ OneEach(Append(c, e))
<1> DEFINE t == Append(c, e)
<1>1. /\ t \in Seq(Good) /\ Len(c) \in Nat /\ DOMAIN t = 1..(Len(c) + 1) /\ DOMAIN c = 1..Len(c)
      /\ t[Len(c) + 1] = e /\ \A i \in 1..Len(c) : t[i] = c[i]
  OBVIOUS
<1> HIDE DEF t
<1>2. \A i \in DOMAIN t : i = Len(c) + 1 \/ i \in DOMAIN c
  BY <1>1
<1>3. OneEach(t)
  BY <1>1, <1>2 DEF OneEach
<1> QED
  BY <1>1, <1>3 DEF t

LEMMA OthersDiffer ==
    ASSUME NEW c \in Seq(Good), NEW key
    PROVE  \A i \in DOMAIN Others(c, key) : Others(c, key)[i].key # key
<1> DEFINE S == { e \in ToSet(c) : e.key # key }
<1>1. \A e \in S : e.key # key
  OBVIOUS
<1> HIDE DEF S
<1>2. \A j \in DOMAIN Selected(c, S) : Selected(c, S)[j] \in S
  BY SelectedElements
<1>3. Others(c, key) = Selected(c, S)
  BY DEF Others, S
<1> QED
  BY <1>1, <1>2, <1>3

\* A hit moves its entry to the end.
LEMMA HitFits ==
    ASSUME NEW c, CacheFits(c), NEW i \in DOMAIN c
    PROVE  CacheFits(Append(Others(c, c[i].key), c[i]))
<1> DEFINE e == c[i]
           S == { x \in ToSet(c) : x.key # e.key }
           r == Others(c, e.key)
<1>1. c \in Seq(Good) /\ c \in Seq(Cached) /\ e \in Good
  BY SequenceOf, GoodIsCached DEF CacheFits
<1>2. r = Selected(c, S) /\ e \notin S
  BY DEF Others
<1>3. \A j \in DOMAIN r : r[j].key # e.key
  BY <1>1, OthersDiffer
<1> HIDE DEF S, r, e
<1>4. CacheFits(r)
  BY <1>2, SelectionFits
<1>5. Bytes(r) + Weight(e) <= Bytes(c) /\ Len(r) + 1 <= Len(c)
  BY <1>1, <1>2, SelectionWeighs DEF e
<1>6. r \in Seq(Good) /\ r \in Seq(Cached) /\ OneEach(r) /\ e \in Cached
  BY <1>1, <1>4, SequenceOf, GoodIsCached DEF CacheFits
<1>7. Append(r, e) \in Seq(Good) /\ OneEach(Append(r, e))
  BY <1>1, <1>3, <1>6, OneMore
<1>8. Bytes(Append(r, e)) = Bytes(r) + Weight(e) /\ Len(Append(r, e)) = Len(r) + 1
  BY <1>6, BytesAppended
<1>9. Len(Append(r, e)) <= CacheEntries /\ Bytes(Append(r, e)) <= CacheBytes
  <2>1. /\ Bytes(r) \in Nat /\ Bytes(c) \in Nat /\ Len(r) \in Nat /\ Len(c) \in Nat
        /\ Weight(e) \in Nat /\ Len(c) <= CacheEntries /\ Bytes(c) <= CacheBytes
    BY <1>1, <1>6, BytesNatural, Weights DEF CacheFits
  <2> QED
    BY <1>5, <1>8, <2>1, Limits
<1> QED
  BY <1>7, <1>9 DEF CacheFits, r, e

\* The last entries of a cache, as many as there is room for.
LEMMA EvictionFits ==
    ASSUME NEW c \in Seq(Good), OneEach(c), NEW size
    PROVE  LET r == Evicted(c, size)
           IN /\ r \in Seq(Good) /\ OneEach(r) /\ (r = <<>> \/ RoomFor(r, size))
              /\ \A i \in DOMAIN r : \E j \in DOMAIN c : r[i] = c[j]
<1> DEFINE from(n) == SubSeq(c, n, Len(c))
           N == Len(c) + 1
           Enough(n) == n = N \/ RoomFor(from(n), size)
           First(n) == n \in 1..N /\ Enough(n) /\ \A m \in 1..(n - 1) : ~ RoomFor(from(m), size)
<1>1. N \in Nat \ {0} /\ Len(c) \in Nat
  OBVIOUS
<1>2. \E n : First(n)
  <2> DEFINE T == { n \in 1..N : Enough(n) }
  <2>1. N \in T /\ T \subseteq Nat
    BY <1>1
  <2>2. PICK n \in T : \A m \in T : n <= m
    BY <2>1, Least
  <2>3. ASSUME NEW m \in 1..(n - 1), RoomFor(from(m), size) PROVE FALSE
    <3>1. m \in 1..N /\ ~ (n <= m)
      BY <1>1, <2>2
    <3>2. m \in T
      BY <2>3, <3>1
    <3> QED
      BY <2>2, <3>1, <3>2
  <2>4. First(n)
    BY <2>2, <2>3
  <2> QED
    BY <2>4
<1> DEFINE k == CHOOSE n : First(n)
<1>3. First(k)
  <2> HIDE DEF First
  <2> QED
    BY <1>2
<1>4. Evicted(c, size) = from(k)
  BY DEF Evicted
<1> HIDE DEF k
<1> DEFINE r == from(k)
<1>5. k \in 1..N /\ (k = N \/ RoomFor(r, size))
  BY <1>3
<1>6. /\ r \in Seq(Good) /\ Len(r) = Len(c) - k + 1
      /\ \A i \in DOMAIN r : i + k - 1 \in DOMAIN c /\ r[i] = c[i + k - 1]
  BY <1>1, <1>5
<1>7. k = N => r = <<>>
  BY <1>1, <1>6
<1> HIDE DEF r
<1>8. OneEach(r)
  <2>1. DOMAIN r \subseteq Nat
    BY <1>6
  <2>2. ASSUME NEW i \in DOMAIN r, NEW j \in DOMAIN r, i # j PROVE r[i].key # r[j].key
    <3>1. i + k - 1 # j + k - 1
      BY <1>5, <2>1, <2>2
    <3> QED
      BY <1>6, <3>1 DEF OneEach
  <2> QED
    BY <2>2 DEF OneEach
<1>9. \A i \in DOMAIN r : \E j \in DOMAIN c : r[i] = c[j]
  BY <1>6
<1> QED
  BY <1>4, <1>5, <1>6, <1>7, <1>8, <1>9 DEF r

\* _ResultCache.put leaves a cache that fits.
LEMMA PutFits ==
    ASSUME NEW c, CacheFits(c), NEW reading \in Reading, clock \in 0..MaxTime,
           NEW key, key = [host |-> reading.host, project |-> reading.project,
                           token |-> reading.token, root |-> reading.root]
    PROVE  CacheFits(AfterPut(c, key, reading))
<1> DEFINE rest == Others(c, key)
           size == Size[reading.evidence]
           e == [key |-> key, read |-> reading, created |-> clock]
           kept == Evicted(rest, size)
           after == AfterPut(c, key, reading)
<1>1. CacheFits(rest) /\ c \in Seq(Good)
  BY SelectionFits DEF Others, CacheFits
<1>2. CASE ~ (Reusable(reading) /\ size <= CacheBytes)
  <2>1. after = rest
    BY <1>2 DEF AfterPut
  <2> QED
    BY <1>1, <2>1
<1>3. CASE Reusable(reading) /\ size <= CacheBytes
  <2>1. after = Append(kept, e)
    BY <1>3 DEF AfterPut
  <2>2. e \in Good
    <3>1. key \in [host : Hosts, project : Projects, token : Tokens, root : Roots]
      BY DEF Reading
    <3>2. e \in CacheRecord
      BY <3>1 DEF CacheRecord
    <3>3. e.key = key /\ e.read = reading
      OBVIOUS
    <3> HIDE DEF e
    <3> QED
      BY <1>3, <3>2, <3>3 DEF Good, Own
  <2>3. \A i \in DOMAIN rest : rest[i].key # key
    BY <1>1, OthersDiffer
  <2>4. rest \in Seq(Good) /\ OneEach(rest)
    BY <1>1 DEF CacheFits
  <2> HIDE DEF rest
  <2>5. /\ kept \in Seq(Good) /\ OneEach(kept) /\ (kept = <<>> \/ RoomFor(kept, size))
        /\ \A i \in DOMAIN kept : \E j \in DOMAIN rest : kept[i] = rest[j]
    BY <2>4, EvictionFits
  <2>6. e.key = key /\ Weight(e) = size
    BY DEF Weight
  <2> HIDE DEF e, kept
  <2>7. \A i \in DOMAIN kept : kept[i].key # e.key
    BY <2>3, <2>5, <2>6
  <2>8. Append(kept, e) \in Seq(Good) /\ OneEach(Append(kept, e))
    BY <2>2, <2>5, <2>7, OneMore
  <2>9. kept \in Seq(Cached) /\ e \in Cached
    BY <2>2, <2>5, SequenceOf, GoodIsCached
  <2>10. Bytes(Append(kept, e)) = Bytes(kept) + size /\ Len(Append(kept, e)) = Len(kept) + 1
    BY <2>6, <2>9, BytesAppended
  <2>11. Bytes(kept) \in Nat /\ Len(kept) \in Nat /\ size \in Nat
    BY <2>6, <2>9, BytesNatural, Weights
  <2>12. Len(kept) < CacheEntries /\ Bytes(kept) + size <= CacheBytes
    <3>1. CASE kept = <<>>
      <4>1. Len(kept) = 0 /\ Bytes(kept) = 0
        BY <3>1, BytesOfNone
      <4> QED
        BY <1>3, <2>11, <4>1, Limits
    <3>2. CASE RoomFor(kept, size)
      BY <3>2 DEF RoomFor
    <3> QED
      BY <2>5, <3>1, <3>2
  <2>13. Len(Append(kept, e)) <= CacheEntries /\ Bytes(Append(kept, e)) <= CacheBytes
    BY <2>10, <2>11, <2>12, Limits
  <2> QED
    BY <2>1, <2>8, <2>13 DEF CacheFits
<1> QED
  BY <1>2, <1>3

-----------------------------------------------------------------------------
(* The documents of the vault.                                                 *)

\* Where an entry of the new document comes from: it was there, it was there and is
\* associated with one more project, or it is new.
ComesFrom(e, doc, call, id) ==
    \/ \E j \in DOMAIN doc :
         /\ e.id = doc[j].id /\ e.host = doc[j].host /\ e.token = doc[j].token
         /\ \/ e.projects = doc[j].projects
            \/ call.op # "forget" /\ j \in Meant(doc, call)
                 /\ e.projects = doc[j].projects \cup {call.project}
    \/ call.op = "save" /\ e = NewEntry(call, id)

\* Taking an entry out of a document.
LEMMA WithoutOne ==
    ASSUME NEW doc \in Seq(Entry), NEW i \in DOMAIN doc
    PROVE  /\ Without(doc, i) \in Seq(Entry)
           /\ \A k \in DOMAIN Without(doc, i) :
                \E j \in DOMAIN doc : Without(doc, i)[k] = doc[j]
<1> DEFINE a == SubSeq(doc, 1, i - 1)
           b == SubSeq(doc, i + 1, Len(doc))
<1>1. Len(doc) \in Nat /\ DOMAIN doc = 1..Len(doc) /\ i \in 1..Len(doc)
  OBVIOUS
<1>2. a \in Seq(Entry) /\ Len(a) = i - 1 /\ \A j \in 1..(i - 1) : a[j] = doc[j]
  BY <1>1
<1>3. b \in Seq(Entry) /\ Len(b) = Len(doc) - i /\ \A j \in 1..(Len(doc) - i) : b[j] = doc[j + i]
  BY <1>1
<1>4. Without(doc, i) = a \o b
  BY DEF Without
<1> HIDE DEF a, b
<1> DEFINE c == a \o b
<1>5. a \in Seq(Entry) /\ b \in Seq(Entry) /\ c = a \o b
  BY <1>2, <1>3
<1> HIDE DEF c
<1>6. c \in Seq(Entry) /\ JoinOf(c, a, b)
  BY <1>5, JoinedElements
<1>7. \A j \in DOMAIN a : j \in DOMAIN doc /\ a[j] = doc[j]
  BY <1>1, <1>2
<1>8. \A j \in DOMAIN b : j + i \in DOMAIN doc /\ b[j] = doc[j + i]
  BY <1>1, <1>3
<1>9. \A k \in DOMAIN c : \E j \in DOMAIN doc : c[k] = doc[j]
  BY <1>6, <1>7, <1>8 DEF JoinOf
<1> QED
  BY <1>4, <1>6, <1>9 DEF c

\* What a call of the vault makes of a document.
LEMMA OutcomesComeFrom ==
    ASSUME NEW doc \in Seq(Entry), NEW call \in Calls, NEW id \in Ids,
           NEW after \in Outcomes(doc, call, id)
    PROVE  /\ after \in Seq(Entry)
           /\ \A k \in DOMAIN after : ComesFrom(after[k], doc, call, id)
<1>1. CASE call.op = "forget"
  <2>1. PICK i \in Meant(doc, call) : after = Without(doc, i)
    BY <1>1 DEF Outcomes
  <2>2. i \in DOMAIN doc
    BY DEF Meant
  <2>3. /\ after \in Seq(Entry)
        /\ \A k \in DOMAIN after : \E j \in DOMAIN doc : after[k] = doc[j]
    BY <2>1, <2>2, WithoutOne
  <2> QED
    BY <2>3 DEF ComesFrom
<1>2. CASE call.op # "forget" /\ AddsEntry(doc, call)
  <2>1. after = Append(doc, NewEntry(call, id)) /\ call.op = "save"
    BY <1>2 DEF Outcomes, AddsEntry
  <2>2. call \in [op : {"save"}, host : Hosts, project : Projects, token : Tokens]
    BY <2>1 DEF Calls
  <2>3. NewEntry(call, id) \in Entry
    BY <2>2 DEF NewEntry, Entry
  <2> DEFINE e == NewEntry(call, id)
  <2> HIDE DEF e
  <2>4. /\ Append(doc, e) \in Seq(Entry) /\ DOMAIN Append(doc, e) = 1..(Len(doc) + 1)
        /\ Append(doc, e)[Len(doc) + 1] = e
        /\ \A k \in 1..Len(doc) : k \in DOMAIN doc /\ Append(doc, e)[k] = doc[k]
    BY <2>3 DEF e
  <2>5. \A k \in 1..(Len(doc) + 1) : k = Len(doc) + 1 \/ k \in 1..Len(doc)
    OBVIOUS
  <2> QED
    BY <2>1, <2>4, <2>5 DEF ComesFrom, e
<1>3. CASE call.op # "forget" /\ ~ AddsEntry(doc, call)
  <2>1. PICK i \in Meant(doc, call) : after = Associate(doc, i, call.project)
    BY <1>3 DEF Outcomes
  <2>2. i \in DOMAIN doc /\ doc[i] \in Entry
    BY DEF Meant
  <2>3. call.project \in Projects
    BY <1>3 DEF Calls
  <2> DEFINE P == doc[i].projects \cup {call.project}
             e == [doc[i] EXCEPT !.projects = P]
  <2>4. P \in SUBSET Projects
    BY <2>2, <2>3 DEF Entry
  <2> HIDE DEF P
  <2>5. /\ e \in Entry /\ e.id = doc[i].id /\ e.host = doc[i].host /\ e.token = doc[i].token
        /\ e.projects = P
    BY <2>2, <2>4 DEF Entry
  <2>6. after = [doc EXCEPT ![i] = e]
    BY <2>1, <2>2 DEF Associate, P
  <2> HIDE DEF e
  <2>7. /\ after \in Seq(Entry) /\ DOMAIN after = DOMAIN doc /\ after[i] = e
        /\ \A k \in DOMAIN doc : k # i => after[k] = doc[k]
    BY <2>2, <2>5, <2>6
  <2>8. ASSUME NEW k \in DOMAIN doc PROVE ComesFrom(after[k], doc, call, id)
    <3>1. CASE k = i
      BY <1>3, <2>1, <2>2, <2>5, <2>7, <3>1 DEF ComesFrom, P
    <3>2. CASE k # i
      BY <2>7, <3>2 DEF ComesFrom
    <3> QED
      BY <3>1, <3>2
  <2> QED
    BY <2>7, <2>8
<1> QED
  BY <1>1, <1>2, <1>3

-----------------------------------------------------------------------------
(* The invariant.                                                              *)

Going == {"verify", "verified", "inspect", "inspected", "remediate", "enrich"}
Stages == Going \cup {"new", "waiting", "answered", "failed"}
Served == {"inspect", "inspected", "remediate", "enrich", "answered"}

\* What holds of one request, from where it is, its body, its candidates, what it last
\* got of GitLab and what was read for it.
RequestFits(at, body, left, status, reading) ==
    /\ at \in Stages
    /\ body \in Asks \cup {None} /\ (at # "new" => body \in Asks)
    /\ left \in Seq(Candidate) /\ (at \in Going \cup {"answered"} => left # <<>>)
    /\ status \in Roots \cup {None, "denied"}
    /\ at = "verified" => status \in Roots \cup {"denied"}
    /\ at \in Served => status \in Roots
    /\ reading \in Reading \cup {None}
    /\ at = "inspected" =>
         /\ reading \in Reading /\ reading.host = body.host /\ reading.project = body.project
         /\ reading.token = Head(left).token /\ reading.root = status
RequestsFit == \A r \in Requests : RequestFits(pc[r], ask[r], todo[r], seen[r], result[r])

\* Only requests that wait are in the queue, each of them once.
Queued(q, at) ==
    /\ q \in Seq(Requests)
    /\ \A k \in DOMAIN q : at[q[k]] = "waiting"
    /\ \A i, j \in DOMAIN q : i # j => q[i] # q[j]

\* An id means one token, for as long as anyone may know the id.
TokenOfId(doc, ids) ==
    /\ doc \in Seq(Entry)
    /\ \A i \in DOMAIN doc : doc[i].id \in ids
    /\ \A i, j \in DOMAIN doc : doc[i].id = doc[j].id => doc[i].token = doc[j].token
KnownCandidates(left, doc, ids) ==
    \A k \in DOMAIN left :
        /\ left[k].id \in ids \cup {None}
        /\ \A i \in DOMAIN doc : doc[i].id = left[k].id => doc[i].token = left[k].token

ServiceInv ==
    /\ TypeOK /\ RequestsFit /\ Queued(queue, pc) /\ CacheFits(cache)
    /\ TokenOfId(vault, issued) /\ \A r \in Requests : KnownCandidates(todo[r], vault, issued)
    /\ AssociationsVerified

Apart == /\ pc \in [Requests -> Stages] /\ ask \in [Requests -> Asks \cup {None}]
         /\ todo \in [Requests -> Seq(Candidate)]
         /\ seen \in [Requests -> Roots \cup {None, "denied"}]
         /\ result \in [Requests -> Reading \cup {None}]

\* A step of one request: the others' fields stay.
Alone(r) ==
    /\ pc' = [pc EXCEPT ![r] = pc'[r]] /\ ask' = [ask EXCEPT ![r] = ask'[r]]
    /\ todo' = [todo EXCEPT ![r] = todo'[r]] /\ seen' = [seen EXCEPT ![r] = seen'[r]]
    /\ result' = [result EXCEPT ![r] = result'[r]]

\* The types of what requests change.
LEMMA TypesApart == TypeOK => Apart
  BY DEF TypeOK, Apart, Stages, Going

\* A step of one request leaves what holds of the others.
LEMMA Moves ==
    ASSUME Apart, RequestsFit, NEW r \in Requests, Alone(r),
           RequestFits(pc'[r], ask'[r], todo'[r], seen'[r], result'[r])
    PROVE  /\ Apart' /\ RequestsFit'
           /\ \A s \in Requests \ {r} : /\ pc'[s] = pc[s] /\ ask'[s] = ask[s] /\ todo'[s] = todo[s]
                                        /\ seen'[s] = seen[s] /\ result'[s] = result[s]
<1>1. /\ pc'[r] \in Stages /\ ask'[r] \in Asks \cup {None} /\ todo'[r] \in Seq(Candidate)
      /\ seen'[r] \in Roots \cup {None, "denied"} /\ result'[r] \in Reading \cup {None}
  BY DEF RequestFits
<1>2. Apart'
  BY <1>1 DEF Apart, Alone
<1>3. \A s \in Requests \ {r} : /\ pc'[s] = pc[s] /\ ask'[s] = ask[s] /\ todo'[s] = todo[s]
                                /\ seen'[s] = seen[s] /\ result'[s] = result[s]
  BY DEF Apart, Alone
<1>4. RequestsFit'
  BY <1>3, Zenon DEF RequestsFit
<1> QED
  BY <1>2, <1>3, <1>4

\* Associations hold as long as the vault has no new one and no request that vouches
\* for one changes.
LEMMA AssociationsStay ==
    ASSUME AssociationsVerified, NEW r \in Requests,
           \A s \in Requests \ {r} : /\ pc'[s] = pc[s] /\ ask'[s] = ask[s] /\ todo'[s] = todo[s]
                                     /\ seen'[s] = seen[s],
           pc[r] \in {"enrich", "answered"} =>
              /\ pc'[r] \in {"enrich", "answered"} /\ ask'[r] = ask[r] /\ todo'[r] = todo[r]
              /\ seen'[r] = seen[r],
           \A i \in DOMAIN vault' : \A p \in vault'[i].projects :
              \/ \E j \in DOMAIN vault :
                   /\ vault'[i].host = vault[j].host /\ vault'[i].token = vault[j].token
                   /\ p \in vault[j].projects
              \/ \E s \in Requests :
                   /\ pc'[s] \in {"enrich", "answered"} /\ seen'[s] \in Roots
                   /\ ask'[s].project = p /\ ask'[s].host = vault'[i].host
                   /\ Head(todo'[s]).token = vault'[i].token
    PROVE  AssociationsVerified'
<1> SUFFICES ASSUME NEW i \in DOMAIN vault', NEW p \in vault'[i].projects
             PROVE  \E s \in Requests :
                      /\ pc'[s] \in {"enrich", "answered"} /\ seen'[s] \in Roots
                      /\ ask'[s].project = p /\ ask'[s].host = vault'[i].host
                      /\ Head(todo'[s]).token = vault'[i].token
  BY DEF AssociationsVerified, Current
<1>1. SUFFICES ASSUME NEW j \in DOMAIN vault,
                      vault'[i].host = vault[j].host, vault'[i].token = vault[j].token,
                      p \in vault[j].projects
               PROVE  \E s \in Requests :
                      /\ pc'[s] \in {"enrich", "answered"} /\ seen'[s] \in Roots
                      /\ ask'[s].project = p /\ ask'[s].host = vault'[i].host
                      /\ Head(todo'[s]).token = vault'[i].token
  OBVIOUS
<1>2. PICK s \in Requests : /\ pc[s] \in {"enrich", "answered"} /\ seen[s] \in Roots
                            /\ ask[s].project = p /\ ask[s].host = vault[j].host
                            /\ Head(todo[s]).token = vault[j].token
  BY <1>1 DEF AssociationsVerified, Current
<1>3. /\ pc'[s] \in {"enrich", "answered"} /\ ask'[s] = ask[s] /\ todo'[s] = todo[s]
      /\ seen'[s] = seen[s]
  BY <1>2
<1> QED
  BY <1>1, <1>2, <1>3

LEMMA SameVault == ASSUME vault' = vault, NEW i \in DOMAIN vault', NEW p \in vault'[i].projects
    PROVE  \E j \in DOMAIN vault :
             /\ vault'[i].host = vault[j].host /\ vault'[i].token = vault[j].token
             /\ p \in vault[j].projects
  OBVIOUS

\* A step of one request that does not touch the vault, nor what vouches for an
\* association.
LEMMA RequestMoves ==
    ASSUME ServiceInv, NEW r \in Requests, Alone(r),
           RequestFits(pc'[r], ask'[r], todo'[r], seen'[r], result'[r]),
           Queued(queue', pc'),
           pc[r] \in {"enrich", "answered"} =>
              /\ pc'[r] \in {"enrich", "answered"} /\ ask'[r] = ask[r] /\ todo'[r] = todo[r]
              /\ seen'[r] = seen[r],
           KnownCandidates(todo'[r], vault, issued), CacheFits(cache'),
           UNCHANGED <<vault, issued, gitlab, clock, changes, forgets>>, reads' \in Nat
    PROVE  ServiceInv'
<1>1. Apart /\ RequestsFit
  BY TypesApart DEF ServiceInv
<1>2. /\ Apart' /\ RequestsFit'
      /\ \A s \in Requests \ {r} : /\ pc'[s] = pc[s] /\ ask'[s] = ask[s] /\ todo'[s] = todo[s]
                                   /\ seen'[s] = seen[s] /\ result'[s] = result[s]
  BY <1>1, Moves
<1>3. cache' \in Seq(CacheRecord)
  <2>1. Good \subseteq CacheRecord /\ cache' \in Seq(Good)
    BY DEF Good, CacheFits
  <2> QED
    BY <2>1, SequenceOf
<1>4. TypeOK'
  BY <1>2, <1>3 DEF TypeOK, Apart, ServiceInv, gitlab, Stages, Going, Queued
<1>5. TokenOfId(vault', issued') /\ \A s \in Requests : KnownCandidates(todo'[s], vault', issued')
  <2>1. ASSUME NEW s \in Requests PROVE KnownCandidates(todo'[s], vault, issued)
    BY <1>2 DEF ServiceInv
  <2>2. vault' = vault /\ issued' = issued
    OBVIOUS
  <2> QED
    BY <2>1, <2>2 DEF ServiceInv
<1>6. AssociationsVerified'
  <2>1. vault' = vault /\ AssociationsVerified
    BY DEF ServiceInv
  <2> QED
    BY <1>2, <2>1, SameVault, AssociationsStay
<1> QED
  BY <1>2, <1>4, <1>5, <1>6 DEF ServiceInv

\* The same of a request in its slot, which is not in the queue.
LEMMA RequestSteps ==
    ASSUME ServiceInv, NEW r \in Requests, Alone(r),
           RequestFits(pc'[r], ask'[r], todo'[r], seen'[r], result'[r]),
           pc[r] \notin {"waiting", "enrich", "answered"},
           KnownCandidates(todo'[r], vault, issued), CacheFits(cache'),
           UNCHANGED <<vault, issued, queue, gitlab, clock, changes, forgets>>, reads' \in Nat
    PROVE  ServiceInv'
<1>1. \A s \in Requests \ {r} : pc'[s] = pc[s]
  BY TypesApart, Moves DEF ServiceInv
<1>2. Queued(queue', pc')
  <2>1. \A k \in DOMAIN queue : queue[k] \in Requests /\ pc[queue[k]] = "waiting"
    BY DEF ServiceInv, Queued
  <2>2. \A k \in DOMAIN queue : pc'[queue[k]] = "waiting"
    BY <1>1, <2>1
  <2> QED
    BY <2>2 DEF ServiceInv, Queued
<1> QED
  BY <1>2, RequestMoves

\* What a step of a request finds of it.
LEMMA RequestThere ==
    ASSUME ServiceInv, NEW r \in Requests
    PROVE  /\ RequestFits(pc[r], ask[r], todo[r], seen[r], result[r]) /\ Apart
           /\ KnownCandidates(todo[r], vault, issued) /\ CacheFits(cache)
           /\ reads \in Nat /\ clock \in 0..MaxTime
  BY TypesApart DEF ServiceInv, RequestsFit, TypeOK

LEMMA VerifyKeeps == ASSUME ServiceInv, NEW r \in Requests, Verify(r) PROVE ServiceInv'
<1> USE RequestThere
<1>1. /\ pc[r] = "verify" /\ pc' = [pc EXCEPT ![r] = "verified"]
      /\ seen' = [seen EXCEPT ![r] = seen'[r]] /\ seen'[r] \in Roots \cup {"denied"}
      /\ UNCHANGED <<vault, issued, cache, gitlab, ask, todo, result, queue, clock, reads, changes, forgets>>
  <2>1. root[Place(r)] \in Roots
    <3>1. ask[r] \in Asks /\ root \in [Places -> Roots]
      BY DEF Verify, ServiceInv, TypeOK, RequestFits
    <3>2. ask[r].host \in Hosts /\ ask[r].project \in Projects
      BY <3>1, ServiceAssumption
    <3>3. Place(r) \in Places
      BY <3>2 DEF Place, Places
    <3> QED
      BY <3>1, <3>3
  <2> QED
    BY <2>1 DEF Verify, Goto, Apart
<1>2. /\ Alone(r) /\ pc'[r] = "verified" /\ ask'[r] = ask[r] /\ todo'[r] = todo[r]
      /\ result'[r] = result[r]
  BY <1>1 DEF Alone, Apart
<1>3. RequestFits(pc'[r], ask'[r], todo'[r], seen'[r], result'[r])
  BY <1>1, <1>2 DEF RequestFits, Going, Stages, Served
<1>4. KnownCandidates(todo'[r], vault, issued) /\ CacheFits(cache') /\ reads' \in Nat
  BY <1>1, <1>2
<1> QED
  BY <1>1, <1>2, <1>3, <1>4, RequestSteps

LEMMA DeniedKeeps == ASSUME ServiceInv, NEW r \in Requests, Denied(r) PROVE ServiceInv'
<1> USE RequestThere
<1>1. /\ pc[r] = "verified"
      /\ todo' = [todo EXCEPT ![r] = Tail(todo[r])]
      /\ pc' = [pc EXCEPT ![r] = IF Len(todo[r]) > 1 THEN "verify" ELSE "failed"]
      /\ UNCHANGED <<vault, issued, cache, gitlab, ask, seen, result, queue, clock, reads, changes, forgets>>
  BY DEF Denied, Goto
<1>2. /\ Alone(r) /\ pc'[r] = (IF Len(todo[r]) > 1 THEN "verify" ELSE "failed")
      /\ ask'[r] = ask[r] /\ todo'[r] = Tail(todo[r]) /\ seen'[r] = seen[r] /\ result'[r] = result[r]
  BY <1>1 DEF Alone, Apart
<1>3. todo[r] \in Seq(Candidate) /\ todo[r] # <<>>
  BY <1>1 DEF RequestFits, Going
<1>4. /\ Tail(todo[r]) \in Seq(Candidate) /\ (Len(todo[r]) > 1 => Tail(todo[r]) # <<>>)
      /\ \A k \in DOMAIN Tail(todo[r]) : k + 1 \in DOMAIN todo[r] /\ Tail(todo[r])[k] = todo[r][k + 1]
  BY <1>3, TailElements
<1>5. RequestFits(pc'[r], ask'[r], todo'[r], seen'[r], result'[r])
  BY <1>1, <1>2, <1>4 DEF RequestFits, Going, Stages, Served
<1>6. KnownCandidates(todo'[r], vault, issued)
  BY <1>2, <1>4 DEF KnownCandidates
<1>7. CacheFits(cache') /\ reads' \in Nat
  BY <1>1
<1> QED
  BY <1>1, <1>2, <1>5, <1>6, <1>7, RequestSteps

LEMMA LiveFits == ASSUME CacheFits(cache) PROVE CacheFits(Live(cache))
  BY SelectionFits DEF Live

\* An entry that is still alive is one of the cache, of less than its lifetime.
LEMMA LiveIsCached ==
    ASSUME CacheFits(cache), NEW i \in DOMAIN Live(cache)
    PROVE  /\ Live(cache)[i] \in Good /\ clock - Live(cache)[i].created < Ttl
           /\ \E j \in DOMAIN cache : cache[j] = Live(cache)[i]
<1> DEFINE S == { e \in ToSet(cache) : clock - e.created < Ttl }
<1>1. cache \in Seq(Good)
  BY DEF CacheFits
<1>2. \A e \in S : clock - e.created < Ttl
  OBVIOUS
<1>3. Live(cache) = Selected(cache, S)
  BY DEF Live
<1> HIDE DEF S
<1>4. /\ Selected(cache, S) \in Seq(Good)
      /\ \A j \in DOMAIN Selected(cache, S) :
           Selected(cache, S)[j] \in S /\ \E n \in DOMAIN cache : cache[n] = Selected(cache, S)[j]
  BY <1>1, SelectedElements
<1> QED
  BY <1>2, <1>3, <1>4

\* What the request that is answered from the cache gets of it.
LEMMA HitIsOwn ==
    ASSUME ServiceInv, NEW r \in Requests, Hit(r)
    PROVE  /\ result'[r].token = Current(r).token /\ result'[r].host = ask[r].host
           /\ result'[r].project = ask[r].project /\ result'[r].root = seen[r]
           /\ result'[r] \in Reading /\ CacheFits(cache')
           /\ \E i \in DOMAIN cache : cache[i].read = result'[r] /\ clock - cache[i].created < Ttl
<1> USE RequestThere
<1>1. PICK i \in DOMAIN Live(cache) :
        /\ Live(cache)[i].key = Key(r)
        /\ cache' = Append(Others(Live(cache), Live(cache)[i].key), Live(cache)[i])
        /\ result' = [result EXCEPT ![r] = Live(cache)[i].read]
  BY DEF Hit
<1> DEFINE e == Live(cache)[i]
<1>2. /\ e \in Good /\ clock - e.created < Ttl
      /\ \E j \in DOMAIN cache : cache[j] = e
  BY LiveIsCached
<1>3. CacheFits(cache')
  BY <1>1, LiveFits, HitFits
<1>4. result'[r] = e.read /\ e.key = Key(r)
  BY <1>1 DEF Apart
<1> HIDE DEF e
<1>5. e.read \in Reading /\ Key(r) = [host |-> e.read.host, project |-> e.read.project,
                                     token |-> e.read.token, root |-> e.read.root]
  BY <1>2, <1>4 DEF Good, Own, CacheRecord
<1>6. /\ Key(r).host = ask[r].host /\ Key(r).project = ask[r].project
      /\ Key(r).token = Current(r).token /\ Key(r).root = seen[r]
  BY DEF Key
<1>7. /\ e.read.token = Current(r).token /\ e.read.host = ask[r].host
      /\ e.read.project = ask[r].project /\ e.read.root = seen[r]
  BY <1>5, <1>6
<1> QED
  BY <1>2, <1>3, <1>4, <1>5, <1>7

LEMMA HitKeeps == ASSUME ServiceInv, NEW r \in Requests, Hit(r) PROVE ServiceInv'
<1> USE RequestThere
<1>1. /\ pc[r] = "verified" /\ seen[r] # "denied" /\ pc' = [pc EXCEPT ![r] = "remediate"]
      /\ result' = [result EXCEPT ![r] = result'[r]]
      /\ UNCHANGED <<vault, issued, gitlab, ask, todo, seen, queue, clock, reads, changes, forgets>>
  BY DEF Hit, Verified, Goto, Apart
<1>2. result'[r] \in Reading /\ CacheFits(cache')
  BY HitIsOwn
<1>3. /\ Alone(r) /\ pc'[r] = "remediate"
      /\ ask'[r] = ask[r] /\ todo'[r] = todo[r] /\ seen'[r] = seen[r]
  BY <1>1 DEF Alone, Apart
<1>4. RequestFits(pc'[r], ask'[r], todo'[r], seen'[r], result'[r])
  BY <1>1, <1>2, <1>3 DEF RequestFits, Going, Stages, Served
<1>5. KnownCandidates(todo'[r], vault, issued) /\ reads' \in Nat
  BY <1>1, <1>3
<1> QED
  BY <1>1, <1>2, <1>3, <1>4, <1>5, RequestSteps

LEMMA MissKeeps == ASSUME ServiceInv, NEW r \in Requests, Miss(r) PROVE ServiceInv'
<1> USE RequestThere
<1>1. /\ pc[r] = "verified" /\ seen[r] # "denied" /\ pc' = [pc EXCEPT ![r] = "inspect"]
      /\ cache' = cache \/ cache' = Live(cache)
      /\ UNCHANGED <<vault, issued, gitlab, ask, todo, seen, result, queue, clock, reads, changes, forgets>>
  BY DEF Miss, Verified, Goto
<1>2. CacheFits(cache')
  BY <1>1, LiveFits
<1>3. /\ Alone(r) /\ pc'[r] = "inspect"
      /\ ask'[r] = ask[r] /\ todo'[r] = todo[r] /\ seen'[r] = seen[r] /\ result'[r] = result[r]
  BY <1>1 DEF Alone, Apart
<1>4. RequestFits(pc'[r], ask'[r], todo'[r], seen'[r], result'[r])
  BY <1>1, <1>3 DEF RequestFits, Going, Stages, Served
<1>5. KnownCandidates(todo'[r], vault, issued) /\ reads' \in Nat
  BY <1>1, <1>3
<1> QED
  BY <1>1, <1>2, <1>3, <1>4, <1>5, RequestSteps

LEMMA InspectKeeps == ASSUME ServiceInv, NEW r \in Requests, Inspect(r) PROVE ServiceInv'
<1> USE RequestThere
<1> DEFINE read == [evidence |-> IF <<Current(r).token, Place(r)>> \in access
                                 THEN evidence[Place(r)] ELSE Partial,
                    host |-> ask[r].host, project |-> ask[r].project, token |-> Current(r).token,
                    root |-> seen[r], nr |-> reads']
<1>1. /\ pc[r] = "inspect" /\ pc' = [pc EXCEPT ![r] = "inspected"] /\ reads' = reads + 1
      /\ result' = [result EXCEPT ![r] = read]
      /\ UNCHANGED <<vault, issued, cache, gitlab, ask, todo, seen, queue, clock, changes, forgets>>
  BY DEF Inspect, Goto
<1>2. /\ Alone(r) /\ pc'[r] = "inspected"
      /\ ask'[r] = ask[r] /\ todo'[r] = todo[r] /\ seen'[r] = seen[r] /\ result'[r] = read
  BY <1>1 DEF Alone, Apart
<1>3. /\ ask[r] \in Asks /\ todo[r] \in Seq(Candidate) /\ todo[r] # <<>> /\ seen[r] \in Roots
  BY <1>1 DEF RequestFits, Going, Served
<1>4. ask[r].host \in Hosts /\ ask[r].project \in Projects
  BY <1>3, ServiceAssumption
<1>5. Current(r) = Head(todo[r]) /\ Current(r) \in Candidate /\ Current(r).token \in Tokens
  <2>1. Head(todo[r]) \in Candidate
    BY <1>3
  <2> QED
    BY <2>1 DEF Current, Candidate
<1>6. evidence[Place(r)] \in Evidence
  <2>1. Place(r) \in Places /\ evidence \in [Places -> Evidence]
    BY <1>4 DEF Place, Places, ServiceInv, TypeOK
  <2> QED
    BY <2>1
<1>7. read \in Reading /\ read.host = ask[r].host /\ read.project = ask[r].project
        /\ read.token = Head(todo[r]).token /\ read.root = seen[r]
  <2> DEFINE what == IF <<Current(r).token, Place(r)>> \in access THEN evidence[Place(r)] ELSE Partial
  <2>1. what \in Evidence \cup {Partial} /\ reads' \in Nat
    BY <1>1, <1>6
  <2> HIDE DEF what
  <2>2. [evidence |-> what, host |-> ask[r].host, project |-> ask[r].project,
         token |-> Current(r).token, root |-> seen[r], nr |-> reads'] \in Reading
    BY <1>3, <1>4, <1>5, <2>1 DEF Reading
  <2>3. read \in Reading
    BY <2>2 DEF what
  <2> QED
    BY <1>5, <2>3
<1> HIDE DEF read
<1>8. RequestFits(pc'[r], ask'[r], todo'[r], seen'[r], result'[r])
  BY <1>1, <1>2, <1>3, <1>7 DEF RequestFits, Going, Stages, Served
<1>9. KnownCandidates(todo'[r], vault, issued) /\ CacheFits(cache') /\ reads' \in Nat
  BY <1>1, <1>2
<1> QED
  BY <1>1, <1>2, <1>8, <1>9, RequestSteps

LEMMA PutKeeps == ASSUME ServiceInv, NEW r \in Requests, Put(r) PROVE ServiceInv'
<1> USE RequestThere
<1>1. /\ pc[r] = "inspected" /\ pc' = [pc EXCEPT ![r] = "remediate"]
      /\ cache' = AfterPut(cache, Key(r), result[r])
      /\ UNCHANGED <<vault, issued, gitlab, ask, todo, seen, result, queue, clock, reads, changes, forgets>>
  BY DEF Put, Goto
<1>2. /\ Alone(r) /\ pc'[r] = "remediate"
      /\ ask'[r] = ask[r] /\ todo'[r] = todo[r] /\ seen'[r] = seen[r] /\ result'[r] = result[r]
  BY <1>1 DEF Alone, Apart
<1>3. /\ result[r] \in Reading /\ result[r].host = ask[r].host /\ result[r].project = ask[r].project
      /\ result[r].token = Head(todo[r]).token /\ result[r].root = seen[r]
  BY <1>1 DEF RequestFits
<1>4. Key(r) = [host |-> result[r].host, project |-> result[r].project,
                token |-> result[r].token, root |-> result[r].root]
  BY <1>3 DEF Key, Current
<1>5. CacheFits(cache')
  BY <1>1, <1>3, <1>4, PutFits
<1>6. RequestFits(pc'[r], ask'[r], todo'[r], seen'[r], result'[r])
  BY <1>1, <1>2 DEF RequestFits, Going, Stages, Served
<1>7. KnownCandidates(todo'[r], vault, issued) /\ reads' \in Nat
  BY <1>1, <1>2
<1> QED
  BY <1>1, <1>2, <1>5, <1>6, <1>7, RequestSteps

LEMMA FailKeeps == ASSUME ServiceInv, NEW r \in Requests, Fail(r) PROVE ServiceInv'
<1> USE RequestThere
<1>1. /\ pc[r] \in {"verify", "inspect", "remediate"} /\ pc' = [pc EXCEPT ![r] = "failed"]
      /\ UNCHANGED <<vault, issued, cache, gitlab, ask, todo, seen, result, queue, clock, reads, changes, forgets>>
  BY DEF Fail, Goto
<1>2. /\ Alone(r) /\ pc'[r] = "failed"
      /\ ask'[r] = ask[r] /\ todo'[r] = todo[r] /\ seen'[r] = seen[r] /\ result'[r] = result[r]
  BY <1>1 DEF Alone, Apart
<1>3. RequestFits(pc'[r], ask'[r], todo'[r], seen'[r], result'[r])
  BY <1>1, <1>2 DEF RequestFits, Going, Stages, Served
<1>4. KnownCandidates(todo'[r], vault, issued) /\ CacheFits(cache') /\ reads' \in Nat
  BY <1>1, <1>2
<1> QED
  BY <1>1, <1>2, <1>3, <1>4, RequestSteps

-----------------------------------------------------------------------------
(* The candidates of a request that enters, from the vault and the             *)
(* configuration.                                                              *)

LEMMA CandidatesAreSaved ==
    ASSUME NEW doc \in Seq(Entry), NEW host, NEW project
    PROVE  /\ Candidates(doc, host, project) \in Seq(Entry)
           /\ \A k \in DOMAIN Candidates(doc, host, project) :
                \E j \in DOMAIN doc : Candidates(doc, host, project)[k] = doc[j]
<1> DEFINE newest == [i \in DOMAIN doc |-> doc[Len(doc) + 1 - i]]
           known == { doc[i] : i \in { i \in DOMAIN doc : doc[i].host = host } }
           exact == { e \in known : project \in e.projects }
           first == Selected(newest, exact)
           second == Selected(newest, known \ exact)
<1>1. Len(doc) \in Nat /\ DOMAIN doc = 1..Len(doc)
  OBVIOUS
<1>2. \A i \in 1..Len(doc) : Len(doc) + 1 - i \in DOMAIN doc
  BY <1>1
<1>3. /\ newest \in Seq(Entry) /\ DOMAIN newest = 1..Len(doc)
      /\ \A i \in DOMAIN newest : \E j \in DOMAIN doc : newest[i] = doc[j]
  BY <1>1, <1>2
<1>4. Candidates(doc, host, project) = first \o second
  BY DEF Candidates
<1> HIDE DEF newest, known, exact
<1>5. first \in Seq(Entry) /\ PartOf(first, newest)
  BY <1>3, SelectedPart
<1>6. second \in Seq(Entry) /\ PartOf(second, newest)
  BY <1>3, SelectedPart
<1> HIDE DEF first, second
<1> DEFINE all == first \o second
<1>7. all \in Seq(Entry) /\ JoinOf(all, first, second)
  <2>1. first \in Seq(Entry) /\ second \in Seq(Entry)
    BY <1>5, <1>6
  <2> QED
    BY <2>1, JoinedElements
<1> HIDE DEF all
<1>8. ASSUME NEW k \in DOMAIN all PROVE \E j \in DOMAIN doc : all[k] = doc[j]
  <2>1. \E i \in DOMAIN newest : all[k] = newest[i]
    <3>1. CASE \E j \in DOMAIN first : all[k] = first[j]
      BY <1>5, <3>1 DEF PartOf
    <3>2. CASE \E j \in DOMAIN second : all[k] = second[j]
      BY <1>6, <3>2 DEF PartOf
    <3> QED
      BY <1>7, <3>1, <3>2 DEF JoinOf
  <2> QED
    BY <1>3, <2>1
<1> QED
  BY <1>4, <1>7, <1>8 DEF all

\* A candidate of the vault is an entry of it, any other has no id.
FromVault(c) ==
    \/ c.id = None
    \/ \E j \in DOMAIN vault : vault[j].id = c.id /\ vault[j].token = c.token

\* The candidates of a request.
LEMMA AvailableFits ==
    ASSUME vault \in Seq(Entry), NEW a \in Asks
    PROVE  /\ Available(a) \in Seq(Candidate)
           /\ \A k \in DOMAIN Available(a) : FromVault(Available(a)[k])
<1>1. CASE a.token # None
  <2> DEFINE c == [token |-> a.token, id |-> None]
  <2>1. Available(a) = <<c>>
    BY <1>1 DEF Available
  <2>2. a.token \in Tokens
    BY <1>1, ServiceAssumption
  <2>3. c \in Candidate /\ c.id = None
    BY <2>2 DEF Candidate
  <2> HIDE DEF c
  <2>4. <<c>> \in Seq(Candidate) /\ \A k \in DOMAIN <<c>> : <<c>>[k] = c
    BY <2>3
  <2> QED
    BY <2>1, <2>3, <2>4 DEF FromVault
<1>2. CASE ~ (a.token # None)
  <2> DEFINE known == Candidates(vault, a.host, a.project)
             n == IF Len(known) < CandidateLimit THEN Len(known) ELSE CandidateLimit
             saved == IF a.connection = "auto" THEN SubSeq(known, 1, n) ELSE <<>>
             own == { c \in Configured : /\ c.host = a.host /\ a.connection # "request"
                                         /\ \A i \in DOMAIN saved : saved[i].token # c.token }
             first == [i \in DOMAIN saved |-> [token |-> saved[i].token, id |-> saved[i].id]]
             rest == { [token |-> c.token, id |-> None] : c \in own }
  <2>1. /\ known \in Seq(Entry)
        /\ \A k \in DOMAIN known : \E j \in DOMAIN vault : known[k] = vault[j]
    BY CandidatesAreSaved
  <2>2. Available(a) = first \o SetToSeq(rest)
    BY <1>2, Zenon DEF Available
  <2>3. own \subseteq Configured
    OBVIOUS
  <2> HIDE DEF known, own
  <2>4. /\ saved \in Seq(Entry)
        /\ \A k \in DOMAIN saved : \E j \in DOMAIN vault : saved[k] = vault[j]
    <3>1. CASE a.connection = "auto"
      <4>1. saved = SubSeq(known, 1, n)
        BY <3>1
      <4>2. Len(known) \in Nat /\ DOMAIN known = 1..Len(known) /\ n \in 0..Len(known)
        BY <2>1, ServiceAssumption
      <4> HIDE DEF n, saved
      <4>3. /\ saved \in Seq(Entry) /\ DOMAIN saved = 1..n
            /\ \A k \in 1..n : k \in DOMAIN known /\ saved[k] = known[k]
        BY <2>1, <4>1, <4>2
      <4> QED
        BY <2>1, <4>3
    <3>2. CASE a.connection # "auto"
      BY <3>2
    <3> QED
      BY <3>1, <3>2
  <2> HIDE DEF saved
  <2>5. /\ first \in Seq(Candidate)
        /\ \A k \in DOMAIN first : \E j \in DOMAIN vault : first[k].id = vault[j].id /\ first[k].token = vault[j].token
    <3>1. \A k \in DOMAIN saved : saved[k] \in Entry
      BY <2>4
    <3>2. \A k \in DOMAIN saved : [token |-> saved[k].token, id |-> saved[k].id] \in Candidate
      BY <3>1 DEF Entry, Candidate
    <3>3. first \in [DOMAIN saved -> Candidate] /\ DOMAIN first = DOMAIN saved
      BY <3>2
    <3>4. Len(saved) \in Nat /\ DOMAIN saved = 1..Len(saved)
      BY <2>4
    <3>5. \A k \in DOMAIN first : first[k].id = saved[k].id /\ first[k].token = saved[k].token
      OBVIOUS
    <3> HIDE DEF first
    <3>6. first \in Seq(Candidate)
      BY <3>3, <3>4
    <3> QED
      BY <2>4, <3>3, <3>5, <3>6
  <2>6. rest \subseteq Candidate /\ IsFiniteSet(rest) /\ \A c \in rest : c.id = None
    <3>1. IsFiniteSet(own)
      BY <2>3, ServiceAssumption, FS_Subset
    <3>2. IsFiniteSet(rest)
      <4> DEFINE f == [c \in own |-> [token |-> c.token, id |-> None]]
      <4>1. f \in [own -> rest] /\ \A x \in rest : \E c \in own : f[c] = x
        OBVIOUS
      <4>2. f \in Surjection(own, rest)
        BY <4>1 DEF Surjection
      <4> QED
        BY <3>1, <4>2, FS_Surjection
    <3>3. \A c \in own : c.token \in Tokens
      BY <2>3, ServiceAssumption
    <3> QED
      BY <3>2, <3>3 DEF Candidate
  <2> HIDE DEF first, rest
  <2> DEFINE last == SetToSeq(rest)
             all == first \o last
  <2>7. last \in Seq(rest)
    BY <2>6, SequenceOfASet
  <2>8. last \in Seq(Candidate) /\ \A k \in DOMAIN last : last[k].id = None
    <3> HIDE DEF last
    <3>1. last \in Seq(Candidate)
      BY <2>6, <2>7, SequenceOf
    <3>2. \A k \in DOMAIN last : last[k] \in rest
      BY <2>7
    <3> QED
      BY <2>6, <3>1, <3>2
  <2> HIDE DEF last
  <2>9. all \in Seq(Candidate) /\ JoinOf(all, first, last)
    <3>1. first \in Seq(Candidate) /\ last \in Seq(Candidate)
      BY <2>5, <2>8
    <3> QED
      BY <3>1, JoinedElements
  <2>10. Available(a) = all
    BY <2>2 DEF last
  <2> HIDE DEF all
  <2>11. \A k \in DOMAIN all : FromVault(all[k])
    <3>1. \A k \in DOMAIN first : FromVault(first[k])
      BY <2>5 DEF FromVault
    <3>2. \A k \in DOMAIN last : FromVault(last[k])
      BY <2>8 DEF FromVault
    <3> QED
      BY <2>9, <3>1, <3>2 DEF JoinOf
  <2> QED
    BY <2>9, <2>10, <2>11
<1> QED
  BY <1>1, <1>2

\* Of the document they come from, candidates are known.
LEMMA AvailableKnown ==
    ASSUME TokenOfId(vault, issued), NEW a \in Asks
    PROVE  Available(a) \in Seq(Candidate) /\ KnownCandidates(Available(a), vault, issued)
<1> DEFINE s == Available(a)
<1>1. vault \in Seq(Entry) /\ \A j \in DOMAIN vault : vault[j].id \in issued /\ vault[j].id \in Ids
  <2>1. vault \in Seq(Entry) /\ \A j \in DOMAIN vault : vault[j].id \in issued
    BY DEF TokenOfId
  <2>2. \A j \in DOMAIN vault : vault[j] \in Entry
    BY <2>1
  <2> QED
    BY <2>1, <2>2 DEF Entry
<1>2. s \in Seq(Candidate) /\ \A k \in DOMAIN s : FromVault(s[k])
  BY <1>1, AvailableFits
<1> HIDE DEF s
<1>3. ASSUME NEW k \in DOMAIN s
      PROVE  /\ s[k].id \in issued \cup {None}
             /\ \A i \in DOMAIN vault : vault[i].id = s[k].id => vault[i].token = s[k].token
  <2>1. CASE s[k].id = None
    BY <1>1, <2>1, ServiceAssumption
  <2>2. CASE s[k].id # None
    <3>1. PICK j \in DOMAIN vault : vault[j].id = s[k].id /\ vault[j].token = s[k].token
      BY <1>2, <2>2 DEF FromVault
    <3> QED
      BY <1>1, <3>1 DEF TokenOfId
  <2> QED
    BY <2>1, <2>2
<1> QED
  BY <1>2, <1>3 DEF KnownCandidates, s

-----------------------------------------------------------------------------
(* The queue, and what the world does.                                         *)

\* Nobody in the queue twice, and nobody is in it who does not wait.
LEMMA Joins ==
    ASSUME NEW q, NEW at, Queued(q, at), NEW r \in Requests, at[r] # "waiting",
           NEW now, now[r] = "waiting", \A s \in Requests \ {r} : now[s] = at[s]
    PROVE  Queued(Append(q, r), now)
<1> DEFINE t == Append(q, r)
<1>1. q \in Seq(Requests) /\ \A k \in DOMAIN q : q[k] \in Requests /\ at[q[k]] = "waiting"
  BY DEF Queued
<1>2. /\ t \in Seq(Requests) /\ Len(q) \in Nat /\ DOMAIN t = 1..(Len(q) + 1) /\ DOMAIN q = 1..Len(q)
      /\ t[Len(q) + 1] = r /\ \A i \in 1..Len(q) : t[i] = q[i]
  BY <1>1
<1> HIDE DEF t
<1>3. \A k \in DOMAIN t : k = Len(q) + 1 \/ k \in DOMAIN q
  BY <1>2
<1>4. \A k \in DOMAIN q : t[k] = q[k] /\ q[k] # r /\ now[q[k]] = "waiting"
  BY <1>1, <1>2
<1>5. \A k \in DOMAIN t : now[t[k]] = "waiting"
  BY <1>2, <1>3, <1>4
<1>6. \A i, j \in DOMAIN t : i # j => t[i] # t[j]
  BY <1>2, <1>3, <1>4 DEF Queued
<1> QED
  BY <1>2, <1>5, <1>6 DEF Queued, t

\* The first in the queue waits, and is not in the rest of it.
LEMMA Leaves ==
    ASSUME NEW q, NEW at, Queued(q, at), q # <<>>,
           NEW now, \A s \in Requests \ {Head(q)} : now[s] = at[s]
    PROVE  Head(q) \in Requests /\ at[Head(q)] = "waiting" /\ Queued(Tail(q), now)
<1> DEFINE t == Tail(q)
           r == Head(q)
<1>1. q \in Seq(Requests) /\ \A k \in DOMAIN q : q[k] \in Requests /\ at[q[k]] = "waiting"
  BY DEF Queued
<1>2. /\ t \in Seq(Requests)
      /\ \A k \in DOMAIN t : k + 1 \in DOMAIN q /\ t[k] = q[k + 1]
  BY <1>1, TailElements
<1>3. Len(q) \in Nat /\ Len(q) # 0 /\ DOMAIN q = 1..Len(q) /\ 1 \in DOMAIN q /\ r = q[1]
  BY <1>1
<1>4. DOMAIN t \subseteq Nat
  BY <1>2
<1> HIDE DEF t, r
<1>5. \A k \in DOMAIN t : k + 1 # 1
  BY <1>4
<1>6. \A k \in DOMAIN t : t[k] # r
  BY <1>2, <1>3, <1>5 DEF Queued
<1>7. \A k \in DOMAIN t : now[t[k]] = "waiting"
  BY <1>1, <1>2, <1>6 DEF r
<1>8. \A i, j \in DOMAIN t : i # j => t[i] # t[j]
  <2>1. \A i, j \in DOMAIN t : i # j => i + 1 # j + 1
    BY <1>4
  <2> QED
    BY <1>2, <2>1 DEF Queued
<1>9. r \in Requests /\ at[r] = "waiting"
  BY <1>1, <1>3
<1> QED
  BY <1>2, <1>7, <1>8, <1>9 DEF Queued, t, r

LEMMA ArriveKeeps == ASSUME ServiceInv, NEW r \in Requests, Arrive(r) PROVE ServiceInv'
<1> USE RequestThere
<1>1. /\ pc[r] = "new" /\ pc' = [pc EXCEPT ![r] = "waiting"] /\ queue' = Append(queue, r)
      /\ ask' = [ask EXCEPT ![r] = ask'[r]] /\ ask'[r] \in Asks
      /\ UNCHANGED <<vault, issued, cache, gitlab, todo, seen, result, clock, reads, changes, forgets>>
  BY DEF Arrive, Goto, Apart
<1>2. /\ Alone(r) /\ pc'[r] = "waiting" /\ \A s \in Requests \ {r} : pc'[s] = pc[s]
      /\ todo'[r] = todo[r] /\ seen'[r] = seen[r] /\ result'[r] = result[r]
  BY <1>1 DEF Alone, Apart
<1>3. RequestFits(pc'[r], ask'[r], todo'[r], seen'[r], result'[r])
  BY <1>1, <1>2 DEF RequestFits, Going, Stages, Served
<1>4. Queued(queue', pc')
  <2>1. Queued(queue, pc) /\ pc[r] # "waiting"
    BY <1>1 DEF ServiceInv
  <2>2. pc'[r] = "waiting" /\ \A s \in Requests \ {r} : pc'[s] = pc[s]
    BY <1>2
  <2>3. Queued(Append(queue, r), pc')
    BY <2>1, <2>2, Joins
  <2> QED
    BY <1>1, <2>3
<1>5. KnownCandidates(todo'[r], vault, issued) /\ CacheFits(cache') /\ reads' \in Nat
  BY <1>1, <1>2
<1> QED
  BY <1>1, <1>2, <1>3, <1>4, <1>5, RequestMoves

LEMMA EnterKeeps == ASSUME ServiceInv, NEW r \in Requests, Enter(r) PROVE ServiceInv'
<1> USE RequestThere
<1>1. /\ queue # <<>> /\ Head(queue) = r /\ queue' = Tail(queue)
      /\ \/ /\ Available(ask[r]) # <<>>
            /\ todo' = [todo EXCEPT ![r] = Available(ask[r])] /\ pc' = [pc EXCEPT ![r] = "verify"]
         \/ pc' = [pc EXCEPT ![r] = "failed"] /\ todo' = todo
      /\ UNCHANGED <<vault, issued, cache, gitlab, ask, seen, result, clock, reads, changes, forgets>>
  BY DEF Enter, Goto
<1>2. \A s \in Requests \ {r} : pc'[s] = pc[s]
  BY <1>1 DEF Apart
<1>3. pc[r] = "waiting" /\ Queued(queue', pc')
  <2>1. Queued(queue, pc)
    BY DEF ServiceInv
  <2> QED
    BY <1>1, <1>2, <2>1, Leaves
<1>4. ask[r] \in Asks
  BY <1>3 DEF RequestFits
<1>5. Available(ask[r]) \in Seq(Candidate) /\ KnownCandidates(Available(ask[r]), vault, issued)
  BY <1>4, AvailableKnown DEF ServiceInv
<1>6. /\ Alone(r) /\ ask'[r] = ask[r] /\ seen'[r] = seen[r] /\ result'[r] = result[r]
      /\ \/ pc'[r] = "verify" /\ todo'[r] = Available(ask[r]) /\ todo'[r] # <<>>
         \/ pc'[r] = "failed" /\ todo'[r] = todo[r]
  BY <1>1 DEF Alone, Apart
<1>7. todo'[r] \in Seq(Candidate) /\ KnownCandidates(todo'[r], vault, issued)
  BY <1>5, <1>6 DEF Apart
<1>8. RequestFits(pc'[r], ask'[r], todo'[r], seen'[r], result'[r])
  BY <1>3, <1>4, <1>6, <1>7 DEF RequestFits, Going, Stages, Served
<1>9. CacheFits(cache') /\ reads' \in Nat
  BY <1>1
<1> QED
  BY <1>1, <1>3, <1>6, <1>7, <1>8, <1>9, RequestMoves

LEMMA AnswerKeeps == ASSUME ServiceInv, NEW r \in Requests, Answer(r) PROVE ServiceInv'
<1> USE RequestThere
<1>1. /\ pc[r] = "enrich" /\ pc' = [pc EXCEPT ![r] = "answered"]
      /\ UNCHANGED <<vault, issued, cache, gitlab, ask, todo, seen, result, queue, clock, reads, changes, forgets>>
  BY DEF Answer, Goto
<1>2. /\ Alone(r) /\ pc'[r] = "answered" /\ \A s \in Requests \ {r} : pc'[s] = pc[s]
      /\ ask'[r] = ask[r] /\ todo'[r] = todo[r] /\ seen'[r] = seen[r] /\ result'[r] = result[r]
  BY <1>1 DEF Alone, Apart
<1>3. RequestFits(pc'[r], ask'[r], todo'[r], seen'[r], result'[r])
  BY <1>1, <1>2 DEF RequestFits, Going, Stages, Served
<1>4. Queued(queue', pc')
  <2>1. \A k \in DOMAIN queue : queue[k] \in Requests /\ pc[queue[k]] = "waiting"
    BY DEF ServiceInv, Queued
  <2>2. \A k \in DOMAIN queue : pc'[queue[k]] = "waiting"
    BY <1>1, <1>2, <2>1
  <2> QED
    BY <1>1, <2>2 DEF ServiceInv, Queued
<1>5. KnownCandidates(todo'[r], vault, issued) /\ CacheFits(cache') /\ reads' \in Nat
  BY <1>1, <1>2
<1> QED
  BY <1>1, <1>2, <1>3, <1>4, <1>5, RequestMoves

\* GitLab and the clock change nothing that the invariant speaks of but their types.
LEMMA WorldKeeps == ASSUME ServiceInv, GitLabChanges \/ Tick PROVE ServiceInv'
<1>1. UNCHANGED <<vault, issued, cache, locals>>
  BY DEF GitLabChanges, Tick
<1>2. TypeOK'
  <2>1. CASE GitLabChanges
    <3>1. changes' \in 0..MaxChanges
      <4>1. changes \in 0..MaxChanges /\ changes < MaxChanges /\ changes' = changes + 1
        BY <2>1 DEF GitLabChanges, ServiceInv, TypeOK
      <4>2. MaxChanges \in Nat
        BY ServiceAssumption
      <4> QED
        BY <4>1, <4>2
    <3>2. access' \in SUBSET (Tokens \X Places)
      BY <2>1 DEF GitLabChanges, ServiceInv, TypeOK
    <3>3. root' \in [Places -> Roots] /\ evidence' \in [Places -> Evidence]
      BY <2>1 DEF GitLabChanges, ServiceInv, TypeOK
    <3> QED
      BY <1>1, <2>1, <3>1, <3>2, <3>3 DEF GitLabChanges, ServiceInv, TypeOK, locals
  <2>2. CASE Tick
    <3>1. clock' \in 0..MaxTime
      <4>1. clock \in 0..MaxTime /\ clock < MaxTime /\ clock' = clock + 1
        BY <2>2 DEF Tick, ServiceInv, TypeOK
      <4>2. MaxTime \in Nat
        BY ServiceAssumption
      <4> QED
        BY <4>1, <4>2
    <3> QED
      BY <1>1, <2>2, <3>1 DEF Tick, ServiceInv, TypeOK, locals, gitlab
  <2> QED
    BY <2>1, <2>2
<1>3. RequestsFit' /\ Queued(queue', pc') /\ CacheFits(cache')
  BY <1>1 DEF ServiceInv, locals, RequestsFit
<1>4. TokenOfId(vault', issued') /\ \A r \in Requests : KnownCandidates(todo'[r], vault', issued')
  BY <1>1 DEF ServiceInv, locals
<1>5. AssociationsVerified'
  BY <1>1 DEF ServiceInv, locals, AssociationsVerified, Current
<1> QED
  BY <1>2, <1>3, <1>4, <1>5 DEF ServiceInv

-----------------------------------------------------------------------------
(* The vault: what a request records, and what the owner forgets.              *)

\* An entry as it was.
AsBefore(e) ==
    \E j \in DOMAIN vault : /\ e.id = vault[j].id /\ e.host = vault[j].host
                            /\ e.token = vault[j].token /\ e.projects = vault[j].projects

\* An entry with the association of a request.
Associated(e, r) ==
    /\ \E j \in DOMAIN vault : /\ e.id = vault[j].id /\ e.host = vault[j].host
                               /\ e.token = vault[j].token
                               /\ e.projects = vault[j].projects \cup {ask[r].project}
    /\ e.host = ask[r].host /\ e.token = Current(r).token

\* The entry of a request that asks to remember its token.
Saved(e, r, id) ==
    /\ e.id = id /\ e.host = ask[r].host /\ e.token = Current(r).token
    /\ e.projects = {ask[r].project}
    /\ ask[r].remember /\ Current(r).id = None

\* What the vault holds after a request recorded its association.
LEMMA Records ==
    ASSUME ServiceInv, NEW r \in Requests, Remediate(r)
    PROVE  \E id \in Ids \ issued :
             /\ vault' \in Seq(Entry)
             /\ \A i \in DOMAIN vault' : \/ AsBefore(vault'[i]) \/ Associated(vault'[i], r)
                                         \/ Saved(vault'[i], r, id)
<1> USE RequestThere
<1>1. PICK id \in Ids \ issued :
        vault' = vault \/ \E c \in Association(r) : vault' \in Outcomes(vault, c, id)
  BY DEF Remediate
<1>2. pc[r] = "remediate" /\ vault \in Seq(Entry)
  BY DEF Remediate, ServiceInv, TypeOK
<1>3. /\ ask[r] \in Asks /\ todo[r] \in Seq(Candidate) /\ todo[r] # <<>>
      /\ KnownCandidates(todo[r], vault, issued)
  BY <1>2 DEF RequestFits, Going, Served
<1>4. ask[r].host \in Hosts /\ ask[r].project \in Projects
  BY <1>3, ServiceAssumption
<1>5. /\ Current(r).token \in Tokens /\ Current(r).id \in Ids \cup {None}
      /\ \A i \in DOMAIN vault : vault[i].id = Current(r).id => vault[i].token = Current(r).token
  <2>1. Head(todo[r]) \in Candidate /\ 1 \in DOMAIN todo[r] /\ Head(todo[r]) = todo[r][1]
    BY <1>3
  <2> QED
    BY <1>3, <2>1 DEF Current, Candidate, KnownCandidates
<1>6. CASE vault' = vault
  <2>1. \A i \in DOMAIN vault' : AsBefore(vault'[i])
    BY <1>6 DEF AsBefore
  <2> QED
    BY <1>2, <1>6, <2>1
<1>7. ASSUME NEW c \in Association(r), vault' \in Outcomes(vault, c, id)
      PROVE  /\ vault' \in Seq(Entry)
             /\ \A i \in DOMAIN vault' : \/ AsBefore(vault'[i]) \/ Associated(vault'[i], r)
                                         \/ Saved(vault'[i], r, id)
  <2>1. CASE Current(r).id # None
    <3>1. c = [op |-> "mark_verified", id |-> Current(r).id, host |-> ask[r].host,
               project |-> ask[r].project]
      BY <2>1 DEF Association
    <3>2. c \in Calls
      BY <1>4, <1>5, <2>1, <3>1 DEF Calls
    <3>3. /\ c.op = "mark_verified" /\ c.id = Current(r).id /\ c.host = ask[r].host
          /\ c.project = ask[r].project
      BY <3>1
    <3> HIDE DEF Association
    <3>4. vault' \in Seq(Entry) /\ \A k \in DOMAIN vault' : ComesFrom(vault'[k], vault, c, id)
      BY <1>2, <1>7, <3>2, OutcomesComeFrom
    <3>5. \A j \in Meant(vault, c) :
            j \in DOMAIN vault /\ vault[j].host = ask[r].host /\ vault[j].token = Current(r).token
      BY <1>5, <3>3 DEF Meant
    <3>6. ASSUME NEW i \in DOMAIN vault' PROVE AsBefore(vault'[i]) \/ Associated(vault'[i], r)
      <4>1. PICK j \in DOMAIN vault :
              /\ vault'[i].id = vault[j].id /\ vault'[i].host = vault[j].host
              /\ vault'[i].token = vault[j].token
              /\ \/ vault'[i].projects = vault[j].projects
                 \/ j \in Meant(vault, c) /\ vault'[i].projects = vault[j].projects \cup {c.project}
        BY <3>3, <3>4 DEF ComesFrom
      <4>2. CASE vault'[i].projects = vault[j].projects
        BY <4>1, <4>2 DEF AsBefore
      <4>3. CASE j \in Meant(vault, c) /\ vault'[i].projects = vault[j].projects \cup {c.project}
        BY <3>3, <3>5, <4>1, <4>3 DEF Associated
      <4> QED
        BY <4>1, <4>2, <4>3
    <3> QED
      BY <3>4, <3>6
  <2>2. CASE Current(r).id = None
    <3>1. /\ ask[r].remember
          /\ c = [op |-> "save", host |-> ask[r].host, project |-> ask[r].project,
                  token |-> Current(r).token]
      BY <2>2 DEF Association
    <3>2. c \in Calls
      BY <1>4, <1>5, <3>1 DEF Calls
    <3>3. /\ c.op = "save" /\ c.token = Current(r).token /\ c.host = ask[r].host
          /\ c.project = ask[r].project
      BY <3>1
    <3>4. vault' \in Seq(Entry) /\ \A k \in DOMAIN vault' : ComesFrom(vault'[k], vault, c, id)
      BY <1>2, <1>7, <3>2, OutcomesComeFrom
    <3>5. \A j \in Meant(vault, c) :
            j \in DOMAIN vault /\ vault[j].host = ask[r].host /\ vault[j].token = Current(r).token
      BY <3>3 DEF Meant
    <3>6. ASSUME NEW i \in DOMAIN vault'
          PROVE  AsBefore(vault'[i]) \/ Associated(vault'[i], r) \/ Saved(vault'[i], r, id)
      <4>1. CASE vault'[i] = NewEntry(c, id)
        <5>1. Saved(vault'[i], r, id)
          BY <2>2, <3>1, <3>3, <4>1 DEF Saved, NewEntry
        <5> QED
          BY <5>1
      <4>2. CASE vault'[i] # NewEntry(c, id)
        <5>1. PICK j \in DOMAIN vault :
                /\ vault'[i].id = vault[j].id /\ vault'[i].host = vault[j].host
                /\ vault'[i].token = vault[j].token
                /\ \/ vault'[i].projects = vault[j].projects
                   \/ j \in Meant(vault, c) /\ vault'[i].projects = vault[j].projects \cup {c.project}
          BY <3>4, <4>2 DEF ComesFrom
        <5>2. CASE vault'[i].projects = vault[j].projects
          BY <5>1, <5>2 DEF AsBefore
        <5>3. CASE j \in Meant(vault, c) /\ vault'[i].projects = vault[j].projects \cup {c.project}
          BY <3>3, <3>5, <5>1, <5>3 DEF Associated
        <5> QED
          BY <5>1, <5>2, <5>3
      <4> QED
        BY <4>1, <4>2
    <3> QED
      BY <3>4, <3>6
  <2> QED
    BY <2>1, <2>2
<1> QED
  BY <1>1, <1>6, <1>7

LEMMA RemediateKeeps == ASSUME ServiceInv, NEW r \in Requests, Remediate(r) PROVE ServiceInv'
<1> USE RequestThere
<1>1. /\ pc[r] = "remediate" /\ pc' = [pc EXCEPT ![r] = "enrich"]
      /\ issued' = issued \cup {vault'[i].id : i \in DOMAIN vault'}
      /\ UNCHANGED <<cache, gitlab, ask, todo, seen, result, queue, clock, reads, changes, forgets>>
  BY DEF Remediate, Goto
<1>2. /\ Alone(r) /\ pc'[r] = "enrich"
      /\ ask'[r] = ask[r] /\ todo'[r] = todo[r] /\ seen'[r] = seen[r] /\ result'[r] = result[r]
  BY <1>1 DEF Alone, Apart
<1>3. RequestFits(pc'[r], ask'[r], todo'[r], seen'[r], result'[r]) /\ seen[r] \in Roots
  BY <1>1, <1>2 DEF RequestFits, Going, Stages, Served
<1>4. /\ Apart' /\ RequestsFit'
      /\ \A s \in Requests \ {r} : /\ pc'[s] = pc[s] /\ ask'[s] = ask[s] /\ todo'[s] = todo[s]
                                   /\ seen'[s] = seen[s] /\ result'[s] = result[s]
  BY <1>2, <1>3, Moves DEF ServiceInv
<1>5. PICK id \in Ids \ issued :
        /\ vault' \in Seq(Entry)
        /\ \A i \in DOMAIN vault' : \/ AsBefore(vault'[i]) \/ Associated(vault'[i], r)
                                    \/ Saved(vault'[i], r, id)
  BY Records
<1>6. \A i \in DOMAIN vault' : vault'[i] \in Entry /\ vault'[i].id \in Ids
  <2>1. \A i \in DOMAIN vault' : vault'[i] \in Entry
    BY <1>5
  <2> QED
    BY <2>1 DEF Entry
<1>7. issued \in SUBSET Ids
  BY DEF ServiceInv, TypeOK
<1>8. TypeOK'
  <2>1. issued' \in SUBSET Ids
    BY <1>1, <1>6, <1>7
  <2> QED
    BY <1>1, <1>4, <1>5, <2>1 DEF TypeOK, Apart, ServiceInv, gitlab, Stages, Going
<1>9. Queued(queue', pc')
  <2>1. \A k \in DOMAIN queue : queue[k] \in Requests /\ pc[queue[k]] = "waiting"
    BY DEF ServiceInv, Queued
  <2>2. \A k \in DOMAIN queue : pc'[queue[k]] = "waiting"
    BY <1>1, <1>4, <2>1
  <2> QED
    BY <1>1, <2>2 DEF ServiceInv, Queued
<1>10. ASSUME NEW i \in DOMAIN vault'
       PROVE  \/ \E j \in DOMAIN vault : /\ vault'[i].id = vault[j].id
                                         /\ vault'[i].token = vault[j].token
              \/ vault'[i].id = id /\ vault'[i].token = Current(r).token
  BY <1>5 DEF AsBefore, Associated, Saved
<1>11. \A j \in DOMAIN vault : vault[j].id \in issued /\ vault[j].id # id
  BY DEF ServiceInv, TokenOfId
<1>12. TokenOfId(vault', issued')
  <2>1. \A i \in DOMAIN vault' : vault'[i].id \in issued'
    BY <1>1
  <2>2. ASSUME NEW i \in DOMAIN vault', NEW j \in DOMAIN vault', vault'[i].id = vault'[j].id
        PROVE  vault'[i].token = vault'[j].token
    BY <1>10, <1>11, <2>2 DEF ServiceInv, TokenOfId
  <2> QED
    BY <1>5, <2>1, <2>2 DEF TokenOfId
<1>13. ASSUME NEW s \in Requests PROVE KnownCandidates(todo'[s], vault', issued')
  <2>1. todo'[s] = todo[s]
    BY <1>1
  <2>2. \A k \in DOMAIN todo[s] :
          /\ todo[s][k].id \in issued \cup {None}
          /\ \A j \in DOMAIN vault : vault[j].id = todo[s][k].id => vault[j].token = todo[s][k].token
    BY DEF ServiceInv, KnownCandidates
  <2>3. \A k \in DOMAIN todo[s] : todo[s][k].id # id
    BY <2>2, ServiceAssumption
  <2>4. \A k \in DOMAIN todo[s] : todo[s][k].id \in issued' \cup {None}
    BY <1>1, <2>2
  <2>5. ASSUME NEW k \in DOMAIN todo[s], NEW i \in DOMAIN vault', vault'[i].id = todo[s][k].id
        PROVE  vault'[i].token = todo[s][k].token
    BY <1>10, <2>2, <2>3, <2>5
  <2> QED
    BY <2>1, <2>4, <2>5 DEF KnownCandidates
<1>14. AssociationsVerified'
  <2>1. ASSUME NEW i \in DOMAIN vault', NEW p \in vault'[i].projects
        PROVE  \/ \E j \in DOMAIN vault :
                    /\ vault'[i].host = vault[j].host /\ vault'[i].token = vault[j].token
                    /\ p \in vault[j].projects
               \/ \E s \in Requests :
                    /\ pc'[s] \in {"enrich", "answered"} /\ seen'[s] \in Roots
                    /\ ask'[s].project = p /\ ask'[s].host = vault'[i].host
                    /\ Head(todo'[s]).token = vault'[i].token
    <3>1. CASE p = ask[r].project /\ vault'[i].host = ask[r].host /\ vault'[i].token = Current(r).token
      BY <1>2, <1>3, <3>1 DEF Current
    <3>2. CASE \E j \in DOMAIN vault :
                    /\ vault'[i].host = vault[j].host /\ vault'[i].token = vault[j].token
                    /\ p \in vault[j].projects
      BY <3>2
    <3> QED
      BY <1>5, <3>1, <3>2 DEF AsBefore, Associated, Saved
  <2>2. AssociationsVerified
    BY DEF ServiceInv
  <2> QED
    BY <1>1, <1>4, <2>1, <2>2, AssociationsStay
<1> QED
  BY <1>1, <1>4, <1>8, <1>9, <1>12, <1>13, <1>14 DEF ServiceInv

\* What the vault holds after the owner forgot a credential.
LEMMA Forgets ==
    ASSUME ServiceInv, NEW id \in Ids, Forget(id)
    PROVE  vault' \in Seq(Entry) /\ \A i \in DOMAIN vault' : AsBefore(vault'[i])
<1> DEFINE call == [op |-> "forget", id |-> id]
<1>1. vault' = vault \/ vault' \in Outcomes(vault, call, id)
  BY DEF Forget
<1>2. call \in Calls /\ call.op = "forget"
  BY DEF Calls
<1>3. vault \in Seq(Entry)
  BY DEF ServiceInv, TypeOK
<1>4. CASE vault' = vault
  BY <1>3, <1>4 DEF AsBefore
<1>5. CASE vault' \in Outcomes(vault, call, id)
  <2> HIDE DEF call
  <2>1. vault' \in Seq(Entry) /\ \A k \in DOMAIN vault' : ComesFrom(vault'[k], vault, call, id)
    BY <1>2, <1>3, <1>5, OutcomesComeFrom
  <2> QED
    BY <1>2, <2>1 DEF ComesFrom, AsBefore
<1> QED
  BY <1>1, <1>4, <1>5

LEMMA ForgetKeeps == ASSUME ServiceInv, NEW id \in Ids, Forget(id) PROVE ServiceInv'
<1>1. /\ cache' = <<>> /\ forgets < MaxForgets /\ forgets' = forgets + 1
      /\ UNCHANGED <<issued, gitlab, locals, clock, reads, changes>>
  BY DEF Forget
<1>4. vault' \in Seq(Entry) /\ \A i \in DOMAIN vault' : AsBefore(vault'[i])
  BY Forgets
<1>5. TypeOK'
  <2>1. forgets' \in 0..MaxForgets
    <3>1. forgets \in 0..MaxForgets
      BY DEF ServiceInv, TypeOK
    <3>2. MaxForgets \in Nat
      BY ServiceAssumption
    <3> QED
      BY <1>1, <3>1, <3>2
  <2>2. cache' \in Seq(CacheRecord)
    BY <1>1
  <2> QED
    BY <1>1, <1>4, <2>1, <2>2 DEF ServiceInv, TypeOK, locals, gitlab
<1>6. RequestsFit' /\ Queued(queue', pc')
  BY <1>1 DEF ServiceInv, locals, RequestsFit
<1>7. CacheFits(cache')
  <2>1. <<>> \in Seq(Good) /\ OneEach(<<>>) /\ Len(<<>>) = 0
    BY DEF OneEach
  <2>2. Len(<<>>) <= CacheEntries /\ Bytes(<<>>) <= CacheBytes
    BY <2>1, BytesOfNone, Limits
  <2> QED
    BY <1>1, <2>1, <2>2 DEF CacheFits
<1>8. TokenOfId(vault', issued')
  <2>1. \A j \in DOMAIN vault : vault[j].id \in issued
    BY DEF ServiceInv, TokenOfId
  <2>2. \A i \in DOMAIN vault' : vault'[i].id \in issued'
    BY <1>1, <1>4, <2>1 DEF AsBefore
  <2>3. ASSUME NEW i \in DOMAIN vault', NEW j \in DOMAIN vault', vault'[i].id = vault'[j].id
        PROVE  vault'[i].token = vault'[j].token
    <3>1. PICK m \in DOMAIN vault : vault'[i].id = vault[m].id /\ vault'[i].token = vault[m].token
      BY <1>4 DEF AsBefore
    <3>2. PICK n \in DOMAIN vault : vault'[j].id = vault[n].id /\ vault'[j].token = vault[n].token
      BY <1>4 DEF AsBefore
    <3> QED
      BY <2>3, <3>1, <3>2 DEF ServiceInv, TokenOfId
  <2> QED
    BY <1>4, <2>2, <2>3 DEF TokenOfId
<1>9. ASSUME NEW s \in Requests PROVE KnownCandidates(todo'[s], vault', issued')
  <2>1. todo'[s] = todo[s] /\ issued' = issued
    BY <1>1 DEF locals
  <2> QED
    BY <1>4, <2>1 DEF ServiceInv, KnownCandidates, AsBefore
<1>10. AssociationsVerified'
  <2>1. UNCHANGED <<pc, ask, todo, seen>>
    BY <1>1 DEF locals
  <2> QED
    BY <1>4, <2>1 DEF ServiceInv, AssociationsVerified, AsBefore, Current
<1> QED
  BY <1>5, <1>6, <1>7, <1>8, <1>9, <1>10 DEF ServiceInv

-----------------------------------------------------------------------------
(* The invariant holds, and what follows from it.                              *)

LEMMA ServiceInvInit == Init => ServiceInv
<1> SUFFICES ASSUME Init PROVE ServiceInv
  OBVIOUS
<1>1. {MaxChanges, MaxForgets, MaxTime} \subseteq Nat
  BY ServiceAssumption
<1>2. <<>> \in Seq(Entry) /\ <<>> \in Seq(CacheRecord) /\ <<>> \in Seq(Candidate)
      /\ <<>> \in Seq(Requests) /\ <<>> \in Seq(Good) /\ Len(<<>>) = 0
  OBVIOUS
<1>3. TypeOK
  BY <1>1, <1>2 DEF Init, TypeOK
<1>4. RequestsFit
  BY <1>2 DEF Init, RequestsFit, RequestFits, Stages, Going, Served
<1>5. Queued(queue, pc)
  BY <1>2 DEF Init, Queued
<1>6. CacheFits(cache)
  <2>1. OneEach(<<>>) /\ Len(<<>>) <= CacheEntries /\ Bytes(<<>>) <= CacheBytes
    BY <1>2, BytesOfNone, Limits DEF OneEach
  <2> QED
    BY <1>2, <2>1 DEF Init, CacheFits
<1>7. TokenOfId(vault, issued) /\ \A r \in Requests : KnownCandidates(todo[r], vault, issued)
  BY <1>2 DEF Init, TokenOfId, KnownCandidates
<1>8. AssociationsVerified
  BY DEF Init, AssociationsVerified
<1> QED
  BY <1>3, <1>4, <1>5, <1>6, <1>7, <1>8 DEF ServiceInv

LEMMA ServiceInvNext == ServiceInv /\ [Next]_vars => ServiceInv'
<1> SUFFICES ASSUME ServiceInv, [Next]_vars PROVE ServiceInv'
  OBVIOUS
<1>1. CASE UNCHANGED vars
  <2>1. UNCHANGED <<vault, issued, cache, access, root, evidence, queue, pc, ask, todo, seen, result,
                    clock, reads, changes, forgets>>
    BY <1>1 DEF vars, gitlab, locals
  <2> QED
    BY <2>1 DEF ServiceInv, TypeOK, RequestsFit, AssociationsVerified, Current
<1>2. ASSUME NEW r \in Requests, Arrive(r) \/ Step(r) \/ Fail(r) PROVE ServiceInv'
  BY <1>2, ArriveKeeps, EnterKeeps, VerifyKeeps, DeniedKeeps, HitKeeps, MissKeeps, InspectKeeps,
     PutKeeps, RemediateKeeps, AnswerKeeps, FailKeeps DEF Step
<1>3. ASSUME NEW id \in Ids, Forget(id) PROVE ServiceInv'
  BY <1>3, ForgetKeeps
<1>4. CASE GitLabChanges \/ Tick
  BY <1>4, WorldKeeps
<1> QED
  BY <1>1, <1>2, <1>3, <1>4 DEF Next

\* The inductive invariant of the inspection API: where each request is and what it
\* holds there, the queue, the response cache, the tokens of the vault's ids, and the
\* associations GitLab has granted.
THEOREM ServiceInvariant == Spec => []ServiceInv
<1> QED
  BY ServiceInvInit, ServiceInvNext, PTL DEF Spec

\* The types of the vault, the cache, GitLab and the requests.
THEOREM ServiceTypeCorrect == Spec => []TypeOK
<1>1. ServiceInv => TypeOK
  BY DEF ServiceInv
<1> QED
  BY <1>1, ServiceInvariant, PTL

\* Whatever inspections end in whatever order, _ResultCache keeps its two limits, one
\* entry for a key, and only what needs no access beyond the root.
THEOREM CacheStaysSound == Spec => []CacheSound
<1>1. ServiceInv => CacheSound
  <2> SUFFICES ASSUME CacheFits(cache) PROVE CacheSound
    BY DEF ServiceInv
  <2>1. \A i \in DOMAIN cache : cache[i] \in Good
    BY DEF CacheFits
  <2>2. \A i \in DOMAIN cache : Reusable(cache[i].read)
    BY <2>1 DEF Good
  <2> QED
    BY <2>2 DEF CacheFits, CacheSound, OneEach
<1> QED
  BY <1>1, ServiceInvariant, PTL

\* The vault associates a token with a project only if GitLab granted that token that
\* project to some request, whatever else was saved, forgotten or withdrawn meanwhile.
THEOREM OnlyVerifiedAssociations == Spec => []AssociationsVerified
<1>1. ServiceInv => AssociationsVerified
  BY DEF ServiceInv
<1> QED
  BY <1>1, ServiceInvariant, PTL

\* Only a hit leads from the verification straight to the proposals.
LEMMA OnlyHits ==
    ASSUME ServiceInv, [Next]_vars, NEW r \in Requests, pc[r] = "verified", pc'[r] = "remediate"
    PROVE  Hit(r)
<1>1. pc \in [Requests -> Stages]
  BY RequestThere DEF Apart
<1>2. ASSUME NEW s \in Requests, Arrive(s) \/ Step(s) \/ Fail(s) PROVE Hit(r)
  <2>1. s = r
    <3>1. \E place : pc' = [pc EXCEPT ![s] = place]
      BY <1>2 DEF Step, Arrive, Enter, Verify, Denied, Hit, Miss, Inspect, Put, Remediate, Answer,
                  Fail, Goto
    <3> QED
      BY <1>1, <3>1
  <2>2. Arrive(r) \/ Enter(r) \/ Verify(r) \/ Denied(r) \/ Hit(r) \/ Miss(r) \/ Inspect(r) \/ Put(r)
        \/ Remediate(r) \/ Answer(r) \/ Fail(r)
    BY <1>2, <2>1 DEF Step
  <2>3. ~ Enter(r)
    <3>1. Enter(r) => pc[r] = "waiting"
      BY Leaves DEF Enter, ServiceInv
    <3> QED
      BY <3>1
  <2>4. ~ Denied(r)
    BY <1>1 DEF Denied, Goto
  <2>5. ~ Miss(r)
    BY <1>1 DEF Miss, Goto
  <2>6. ~ (Arrive(r) \/ Verify(r) \/ Inspect(r) \/ Put(r) \/ Remediate(r) \/ Answer(r) \/ Fail(r))
    BY DEF Arrive, Verify, Inspect, Put, Remediate, Answer, Fail
  <2> QED
    BY <2>2, <2>3, <2>4, <2>5, <2>6
<1>3. ~ ((\E id \in Ids : Forget(id)) \/ GitLabChanges \/ Tick \/ UNCHANGED vars)
  BY DEF Forget, GitLabChanges, Tick, vars, locals
<1> QED
  BY <1>2, <1>3 DEF Next

\* An answer from the cache was read with the very token GitLab has just accepted for
\* the request, for its project and root, and less than the lifetime ago.
THEOREM AnswersAreOwn == Spec => CachedAnswersAreOwn
<1> DEFINE Own1 == \A r \in Requests : pc[r] = "verified" /\ pc'[r] = "remediate" =>
         /\ result'[r].token = Current(r).token /\ result'[r].host = ask[r].host
         /\ result'[r].project = ask[r].project /\ result'[r].root = seen[r]
         /\ \E i \in DOMAIN cache :
              cache[i].read = result'[r] /\ clock - cache[i].created < Ttl
<1>1. ServiceInv /\ [Next]_vars => [Own1]_vars
  <2> SUFFICES ASSUME ServiceInv, [Next]_vars PROVE Own1
    OBVIOUS
  <2> QED
    BY OnlyHits, HitIsOwn
<1> QED
  BY <1>1, ServiceInvariant, PTL DEF Spec, CachedAnswersAreOwn

\* A connection the owner has forgotten does not come back by a request that was using
\* it: only a request that asks for that saves its token.
THEOREM SavedOnRequest == Spec => SavedOnlyOnRequest
<1> DEFINE Saving == \A i \in DOMAIN vault' :
         \/ \E j \in DOMAIN vault : vault[j].id = vault'[i].id
         \/ \E r \in Requests : /\ pc[r] = "remediate" /\ pc'[r] = "enrich"
                                /\ ask[r].remember /\ Current(r).id = None
<1>1. ServiceInv /\ [Next]_vars => [Saving]_vault
  <2> SUFFICES ASSUME ServiceInv, [Next]_vars, vault' # vault PROVE Saving
    OBVIOUS
  <2>1. CASE \E r \in Requests : Remediate(r)
    <3>1. PICK r \in Requests : Remediate(r)
      BY <2>1
    <3>2. PICK id \in Ids \ issued :
            \A i \in DOMAIN vault' : \/ AsBefore(vault'[i]) \/ Associated(vault'[i], r)
                                     \/ Saved(vault'[i], r, id)
      BY <3>1, Records
    <3>3. pc[r] = "remediate" /\ pc'[r] = "enrich"
      BY <3>1, RequestThere DEF Remediate, Goto, Apart
    <3> QED
      BY <3>2, <3>3 DEF AsBefore, Associated, Saved
  <2>2. CASE \E id \in Ids : Forget(id)
    BY <2>2, Forgets DEF AsBefore
  <2>3. (\E r \in Requests : Remediate(r)) \/ (\E id \in Ids : Forget(id))
    BY DEF Next, Step, Arrive, Enter, Verify, Denied, Hit, Miss, Inspect, Put, Answer, Fail,
           GitLabChanges, Tick, vars
  <2> QED
    BY <2>1, <2>2, <2>3
<1> QED
  BY <1>1, ServiceInvariant, PTL DEF Spec, SavedOnlyOnRequest

-----------------------------------------------------------------------------
(* Waiting for a slot, and how much a request may still do.                    *)

Occupied == { s \in Requests : pc[s] \notin OutOfSlot }

\* No more requests are past the semaphore than it has slots, and none that waits for it
\* is missing from its queue.
SlotsRespected == IsFiniteSet(Occupied) /\ Cardinality(Occupied) <= Slots
NobodyForgotten == \A r \in Requests : pc[r] = "waiting" => \E k \in DOMAIN queue : queue[k] = r

\* The vault's candidates up to the limit, and the configured one.
FewCandidates == \A r \in Requests : Len(todo[r]) <= CandidateLimit + 1

\* What is left for a request: two steps for each candidate, four after the one that is
\* granted, and before that the wait.
RequestLeft(r) ==
    CASE pc[r] = "new" -> 2 * CandidateLimit + 8
      [] pc[r] = "waiting" -> 2 * CandidateLimit + 7
      [] pc[r] = "verify" -> 2 * Len(todo[r]) + 4
      [] pc[r] = "verified" -> 2 * Len(todo[r]) + 3
      [] pc[r] = "inspect" -> 4
      [] pc[r] = "inspected" -> 3
      [] pc[r] = "remediate" -> 2
      [] pc[r] = "enrich" -> 1
      [] OTHER -> 0

LEMMA AvailableIsShort ==
    ASSUME vault \in Seq(Entry), NEW a \in Asks
    PROVE  Len(Available(a)) \in Nat /\ Len(Available(a)) <= CandidateLimit + 1
<1>1. CandidateLimit \in Nat
  BY ServiceAssumption
<1>2. CASE a.token # None
  <2> DEFINE c == [token |-> a.token, id |-> None]
  <2>1. Available(a) = <<c>>
    BY <1>2 DEF Available
  <2> HIDE DEF c
  <2>2. Len(<<c>>) = 1
    OBVIOUS
  <2> QED
    BY <1>1, <2>1, <2>2
<1>3. CASE ~ (a.token # None)
  <2> DEFINE known == Candidates(vault, a.host, a.project)
             n == IF Len(known) < CandidateLimit THEN Len(known) ELSE CandidateLimit
             saved == IF a.connection = "auto" THEN SubSeq(known, 1, n) ELSE <<>>
             own == { c \in Configured : /\ c.host = a.host /\ a.connection # "request"
                                         /\ \A i \in DOMAIN saved : saved[i].token # c.token }
             first == [i \in DOMAIN saved |-> [token |-> saved[i].token, id |-> saved[i].id]]
             rest == { [token |-> c.token, id |-> None] : c \in own }
             last == SetToSeq(rest)
  <2>1. Available(a) = first \o last
    BY <1>3, Zenon DEF Available
  <2>2. known \in Seq(Entry)
    BY CandidatesAreSaved
  <2>3. own \subseteq Configured
    OBVIOUS
  <2> HIDE DEF known, own
  <2>4. saved \in Seq(Entry) /\ Len(saved) \in Nat /\ Len(saved) <= CandidateLimit
    <3>1. CASE a.connection = "auto"
      <4>1. saved = SubSeq(known, 1, n)
        BY <3>1
      <4>2. Len(known) \in Nat /\ n \in 0..Len(known) /\ n <= CandidateLimit
        BY <1>1, <2>2
      <4> HIDE DEF n, saved
      <4>3. saved \in Seq(Entry) /\ Len(saved) = n
        BY <2>2, <4>1, <4>2
      <4> QED
        BY <4>2, <4>3
    <3>2. CASE a.connection # "auto"
      <4>1. saved = <<>>
        BY <3>2
      <4> HIDE DEF saved
      <4> QED
        BY <1>1, <4>1
    <3> QED
      BY <3>1, <3>2
  <2> HIDE DEF saved
  <2>5. first \in Seq({ first[i] : i \in DOMAIN saved }) /\ Len(first) = Len(saved)
    <3>1. DOMAIN saved = 1..Len(saved) /\ Len(saved) \in Nat
      BY <2>4
    <3> QED
      BY <3>1
  <2>6. IsFiniteSet(rest) /\ Cardinality(rest) \in Nat /\ Cardinality(rest) <= 1
    <3> DEFINE f == [c \in own |-> [token |-> c.token, id |-> None]]
    <3>1. IsFiniteSet(own) /\ Cardinality(own) <= Cardinality(Configured)
      BY <2>3, ServiceAssumption, FS_Subset
    <3>2. f \in Surjection(own, rest)
      BY DEF Surjection
    <3>3. IsFiniteSet(rest) /\ Cardinality(rest) <= Cardinality(own)
      BY <3>1, <3>2, FS_Surjection
    <3>4. /\ Cardinality(rest) \in Nat /\ Cardinality(own) \in Nat
          /\ Cardinality(Configured) \in Nat /\ Cardinality(Configured) <= 1
      BY <3>1, <3>3, ServiceAssumption, FS_CardinalityType
    <3> QED
      BY <3>1, <3>3, <3>4
  <2> HIDE DEF first, rest
  <2>7. last \in Seq(rest) /\ Len(last) = Cardinality(rest)
    BY <2>6, SequenceOfASet
  <2> HIDE DEF last
  <2>8. Len(first \o last) = Len(first) + Len(last)
    <3> DEFINE both == { first[i] : i \in DOMAIN saved } \cup rest
    <3>1. { first[i] : i \in DOMAIN saved } \subseteq both /\ rest \subseteq both
      OBVIOUS
    <3> HIDE DEF both
    <3>2. first \in Seq(both) /\ last \in Seq(both)
      BY <2>5, <2>7, <3>1, SequenceOf
    <3> QED
      BY <3>2
  <2> QED
    BY <1>1, <2>1, <2>4, <2>5, <2>6, <2>7, <2>8
<1> QED
  BY <1>2, <1>3

WaitingInv == SlotsRespected /\ NobodyForgotten /\ FewCandidates

LEMMA WaitingInit == Init => WaitingInv
<1> SUFFICES ASSUME Init PROVE WaitingInv
  OBVIOUS
<1>1. \A r \in Requests : pc[r] = "new" /\ todo[r] = <<>>
  BY DEF Init
<1>2. Occupied = {}
  BY <1>1 DEF Occupied, OutOfSlot
<1>3. IsFiniteSet({}) /\ Cardinality({}) = 0
  BY FS_EmptySet
<1>4. Slots \in Nat /\ CandidateLimit \in Nat /\ Len(<<>>) = 0
  BY ServiceAssumption
<1> QED
  BY <1>1, <1>2, <1>3, <1>4 DEF WaitingInv, SlotsRespected, NobodyForgotten, FewCandidates

\* A step past the semaphore keeps the slot or gives it up, and leaves less to do.
LEMMA GoingOn ==
    ASSUME ServiceInv, NEW r \in Requests,
           \/ Verify(r) \/ Denied(r) \/ Hit(r) \/ Miss(r) \/ Inspect(r) \/ Put(r)
           \/ Remediate(r) \/ Answer(r) \/ Fail(r)
    PROVE  /\ pc[r] \in Going /\ pc'[r] \in Going \cup {"answered", "failed"}
           /\ \A s \in Requests \ {r} : pc'[s] = pc[s] /\ todo'[s] = todo[s]
           /\ queue' = queue /\ Len(todo'[r]) \in Nat /\ Len(todo'[r]) <= Len(todo[r])
           /\ RequestLeft(r)' < RequestLeft(r)
<1> USE RequestThere
<1>1. todo[r] \in Seq(Candidate) /\ Len(todo[r]) \in Nat /\ (pc[r] \in Going => Len(todo[r]) > 0)
  <2>1. todo[r] \in Seq(Candidate) /\ (pc[r] \in Going => todo[r] # <<>>)
    BY DEF RequestFits
  <2> QED
    BY <2>1
<1>2. CASE Verify(r)
  <2>1. pc[r] = "verify" /\ pc' = [pc EXCEPT ![r] = "verified"] /\ todo' = todo /\ queue' = queue
    BY <1>2 DEF Verify, Goto
  <2>2. pc'[r] = "verified" /\ \A s \in Requests \ {r} : pc'[s] = pc[s]
    BY <2>1 DEF Apart
  <2> QED
    BY <1>1, <2>1, <2>2 DEF Going, RequestLeft
<1>3. CASE Denied(r)
  <2>1. /\ pc[r] = "verified" /\ queue' = queue
        /\ todo' = [todo EXCEPT ![r] = Tail(todo[r])]
        /\ pc' = [pc EXCEPT ![r] = IF Len(todo[r]) > 1 THEN "verify" ELSE "failed"]
    BY <1>3 DEF Denied, Goto
  <2>2. /\ pc'[r] \in {"verify", "failed"} /\ todo'[r] = Tail(todo[r])
        /\ \A s \in Requests \ {r} : pc'[s] = pc[s] /\ todo'[s] = todo[s]
    BY <2>1 DEF Apart
  <2>3. Len(todo[r]) > 0
    BY <1>1, <2>1 DEF Going
  <2>4. Len(Tail(todo[r])) = Len(todo[r]) - 1
    BY <1>1, <2>3
  <2> DEFINE n == Len(todo[r])
             m == Len(todo'[r])
  <2>5. n \in Nat /\ m = n - 1 /\ n > 0 /\ m \in Nat
    BY <1>1, <2>2, <2>3, <2>4
  <2>6. RequestLeft(r) = 2 * n + 3 /\ RequestLeft(r)' \in {2 * m + 4, 0}
    BY <2>1, <2>2 DEF RequestLeft
  <2> HIDE DEF n, m
  <2>7. RequestLeft(r)' < RequestLeft(r) /\ m <= n
    BY <2>5, <2>6
  <2> QED
    BY <2>1, <2>2, <2>5, <2>7 DEF Going, n, m
<1>4. CASE Hit(r) \/ Miss(r)
  <2>1. /\ pc[r] = "verified" /\ todo' = todo /\ queue' = queue
        /\ pc' = [pc EXCEPT ![r] = "remediate"] \/ pc' = [pc EXCEPT ![r] = "inspect"]
    BY <1>4 DEF Hit, Miss, Goto, Verified
  <2>2. pc'[r] \in {"remediate", "inspect"} /\ \A s \in Requests \ {r} : pc'[s] = pc[s]
    BY <2>1 DEF Apart
  <2> QED
    BY <1>1, <2>1, <2>2 DEF Going, RequestLeft
<1>5. CASE Inspect(r) \/ Put(r) \/ Remediate(r) \/ Answer(r)
  <2>1. /\ \/ pc[r] = "inspect" /\ pc' = [pc EXCEPT ![r] = "inspected"]
           \/ pc[r] = "inspected" /\ pc' = [pc EXCEPT ![r] = "remediate"]
           \/ pc[r] = "remediate" /\ pc' = [pc EXCEPT ![r] = "enrich"]
           \/ pc[r] = "enrich" /\ pc' = [pc EXCEPT ![r] = "answered"]
        /\ todo' = todo /\ queue' = queue
    BY <1>5 DEF Inspect, Put, Remediate, Answer, Goto
  <2>2. /\ \/ pc[r] = "inspect" /\ pc'[r] = "inspected"
           \/ pc[r] = "inspected" /\ pc'[r] = "remediate"
           \/ pc[r] = "remediate" /\ pc'[r] = "enrich"
           \/ pc[r] = "enrich" /\ pc'[r] = "answered"
        /\ \A s \in Requests \ {r} : pc'[s] = pc[s]
    BY <2>1 DEF Apart
  <2> QED
    BY <1>1, <2>1, <2>2 DEF Going, RequestLeft
<1>6. CASE Fail(r)
  <2>1. /\ pc[r] \in {"verify", "inspect", "remediate"} /\ pc' = [pc EXCEPT ![r] = "failed"]
        /\ todo' = todo /\ queue' = queue
    BY <1>6 DEF Fail, Goto
  <2>2. pc'[r] = "failed" /\ \A s \in Requests \ {r} : pc'[s] = pc[s]
    BY <2>1 DEF Apart
  <2> QED
    BY <1>1, <2>1, <2>2 DEF Going, RequestLeft
<1> QED
  BY <1>2, <1>3, <1>4, <1>5, <1>6

\* So does the arrival.
LEMMA Arriving ==
    ASSUME ServiceInv, NEW r \in Requests, Arrive(r)
    PROVE  /\ pc[r] = "new" /\ pc'[r] = "waiting" /\ todo' = todo /\ queue' = Append(queue, r)
           /\ \A s \in Requests \ {r} : pc'[s] = pc[s]
           /\ RequestLeft(r)' < RequestLeft(r)
<1> USE RequestThere
<1>1. pc[r] = "new" /\ pc' = [pc EXCEPT ![r] = "waiting"] /\ todo' = todo /\ queue' = Append(queue, r)
  BY DEF Arrive, Goto
<1>2. pc'[r] = "waiting" /\ \A s \in Requests \ {r} : pc'[s] = pc[s]
  BY <1>1 DEF Apart
<1>3. CandidateLimit \in Nat
  BY ServiceAssumption
<1> QED
  BY <1>1, <1>2, <1>3 DEF RequestLeft

\* And a request enters when it is the first that waits, and only where a slot is free.
LEMMA Entering ==
    ASSUME ServiceInv, NEW r \in Requests, Enter(r)
    PROVE  /\ queue # <<>> /\ Head(queue) = r /\ queue' = Tail(queue)
           /\ pc[r] = "waiting" /\ pc'[r] \in {"verify", "failed"} /\ Cardinality(Occupied) < Slots
           /\ \A s \in Requests \ {r} : pc'[s] = pc[s] /\ todo'[s] = todo[s]
           /\ todo'[r] = todo[r] \/ Len(todo'[r]) <= CandidateLimit + 1
           /\ RequestLeft(r)' < RequestLeft(r)
<1> USE RequestThere
<1>1. /\ queue # <<>> /\ Head(queue) = r /\ queue' = Tail(queue) /\ Cardinality(Occupied) < Slots
      /\ \/ /\ todo' = [todo EXCEPT ![r] = Available(ask[r])] /\ pc' = [pc EXCEPT ![r] = "verify"]
         \/ pc' = [pc EXCEPT ![r] = "failed"] /\ todo' = todo
  BY DEF Enter, Goto, Occupied
<1>2. \A s \in Requests \ {r} : pc'[s] = pc[s] /\ todo'[s] = todo[s]
  BY <1>1 DEF Apart
<1>3. pc[r] = "waiting"
  <2>1. Queued(queue, pc)
    BY DEF ServiceInv
  <2> QED
    BY <1>1, <1>2, <2>1, Leaves
<1>4. ask[r] \in Asks /\ vault \in Seq(Entry)
  BY <1>3 DEF RequestFits, ServiceInv, TokenOfId
<1>5. Len(Available(ask[r])) \in Nat /\ Len(Available(ask[r])) <= CandidateLimit + 1
  BY <1>4, AvailableIsShort
<1>6. \/ pc'[r] = "verify" /\ todo'[r] = Available(ask[r])
      \/ pc'[r] = "failed" /\ todo'[r] = todo[r]
  BY <1>1 DEF Apart
<1>7. CandidateLimit \in Nat
  BY ServiceAssumption
<1> QED
  BY <1>1, <1>2, <1>3, <1>5, <1>6, <1>7 DEF RequestLeft

LEMMA WaitingNext == ASSUME ServiceInv, WaitingInv, [Next]_vars PROVE WaitingInv'
<1>1. IsFiniteSet(Occupied) /\ Cardinality(Occupied) <= Slots /\ Slots \in Nat /\ CandidateLimit \in Nat
  BY ServiceAssumption DEF WaitingInv, SlotsRespected
<1>2. ASSUME Occupied' \subseteq Occupied PROVE SlotsRespected'
  <2>1. IsFiniteSet(Occupied') /\ Cardinality(Occupied') <= Cardinality(Occupied)
    BY <1>1, <1>2, FS_Subset
  <2>2. Cardinality(Occupied) \in Nat /\ Cardinality(Occupied') \in Nat
    BY <1>1, <2>1, FS_CardinalityType
  <2> QED
    BY <1>1, <2>1, <2>2 DEF SlotsRespected
<1>3. ASSUME NEW r \in Requests,
             \/ Verify(r) \/ Denied(r) \/ Hit(r) \/ Miss(r) \/ Inspect(r) \/ Put(r)
             \/ Remediate(r) \/ Answer(r) \/ Fail(r)
      PROVE  WaitingInv'
  <2>1. /\ pc[r] \in Going /\ pc'[r] \in Going \cup {"answered", "failed"}
        /\ \A s \in Requests \ {r} : pc'[s] = pc[s] /\ todo'[s] = todo[s]
        /\ queue' = queue /\ Len(todo'[r]) \in Nat /\ Len(todo'[r]) <= Len(todo[r])
    BY <1>3, GoingOn
  <2>2. Occupied' \subseteq Occupied
    BY <2>1 DEF Occupied, Going, OutOfSlot
  <2>3. NobodyForgotten'
    BY <2>1 DEF Going, WaitingInv, NobodyForgotten
  <2>4. FewCandidates'
    <3>1. Len(todo[r]) \in Nat /\ Len(todo[r]) <= CandidateLimit + 1
      BY RequestThere DEF RequestFits, WaitingInv, FewCandidates
    <3>2. Len(todo'[r]) <= CandidateLimit + 1
      BY <1>1, <2>1, <3>1
    <3> QED
      BY <2>1, <3>2 DEF WaitingInv, FewCandidates
  <2> QED
    BY <1>2, <2>2, <2>3, <2>4 DEF WaitingInv
<1>4. ASSUME NEW r \in Requests, Arrive(r) PROVE WaitingInv'
  <2>1. /\ pc[r] = "new" /\ pc'[r] = "waiting" /\ todo' = todo /\ queue' = Append(queue, r)
        /\ \A s \in Requests \ {r} : pc'[s] = pc[s]
    BY <1>4, Arriving
  <2>2. Occupied' \subseteq Occupied
    BY <2>1 DEF Occupied, OutOfSlot
  <2>3. NobodyForgotten'
    <3> DEFINE t == Append(queue, r)
    <3>1. queue \in Seq(Requests)
      BY DEF ServiceInv, Queued
    <3>2. /\ Len(queue) \in Nat /\ DOMAIN t = 1..(Len(queue) + 1) /\ DOMAIN queue = 1..Len(queue)
          /\ t[Len(queue) + 1] = r /\ \A i \in 1..Len(queue) : t[i] = queue[i]
      BY <3>1
    <3> HIDE DEF t
    <3>3. Len(queue) + 1 \in DOMAIN t /\ DOMAIN queue \subseteq DOMAIN t
      BY <3>2
    <3>4. ASSUME NEW s \in Requests, pc'[s] = "waiting" PROVE \E k \in DOMAIN t : t[k] = s
      <4>1. CASE s = r
        BY <3>2, <3>3, <4>1
      <4>2. CASE s # r
        <5>1. PICK k \in DOMAIN queue : queue[k] = s
          BY <2>1, <3>4, <4>2 DEF WaitingInv, NobodyForgotten
        <5> QED
          BY <3>2, <3>3, <5>1
      <4> QED
        BY <4>1, <4>2
    <3> QED
      BY <2>1, <3>4 DEF NobodyForgotten, t
  <2> QED
    BY <1>2, <2>1, <2>2, <2>3 DEF WaitingInv, FewCandidates
<1>5. ASSUME NEW r \in Requests, Enter(r) PROVE WaitingInv'
  <2>1. /\ queue # <<>> /\ Head(queue) = r /\ queue' = Tail(queue)
        /\ pc[r] = "waiting" /\ pc'[r] \in {"verify", "failed"} /\ Cardinality(Occupied) < Slots
        /\ \A s \in Requests \ {r} : pc'[s] = pc[s] /\ todo'[s] = todo[s]
        /\ todo'[r] = todo[r] \/ Len(todo'[r]) <= CandidateLimit + 1
    BY <1>5, Entering
  <2>2. SlotsRespected'
    <3>1. Occupied' \subseteq Occupied \cup {r} /\ r \notin Occupied
      BY <2>1 DEF Occupied, OutOfSlot
    <3>2. IsFiniteSet(Occupied \cup {r}) /\ Cardinality(Occupied \cup {r}) = Cardinality(Occupied) + 1
      BY <1>1, <3>1, FS_AddElement
    <3>3. IsFiniteSet(Occupied') /\ Cardinality(Occupied') <= Cardinality(Occupied \cup {r})
      BY <3>1, <3>2, FS_Subset
    <3>4. Cardinality(Occupied) \in Nat /\ Cardinality(Occupied') \in Nat
      BY <1>1, <3>3, FS_CardinalityType
    <3> QED
      BY <1>1, <2>1, <3>2, <3>3, <3>4 DEF SlotsRespected
  <2>3. NobodyForgotten'
    <3> DEFINE t == Tail(queue)
    <3>1. queue \in Seq(Requests)
      BY DEF ServiceInv, Queued
    <3>2. /\ Len(queue) \in Nat /\ DOMAIN queue = 1..Len(queue) /\ queue[1] = r
          /\ DOMAIN t = 1..(Len(queue) - 1) /\ \A i \in 1..(Len(queue) - 1) : t[i] = queue[i + 1]
      BY <2>1, <3>1
    <3> HIDE DEF t
    <3>3. ASSUME NEW s \in Requests, pc'[s] = "waiting" PROVE \E k \in DOMAIN t : t[k] = s
      <4>1. s # r /\ pc[s] = "waiting"
        BY <2>1, <3>3
      <4>2. PICK k \in DOMAIN queue : queue[k] = s
        BY <4>1 DEF WaitingInv, NobodyForgotten
      <4>3. k \in 1..Len(queue) /\ k # 1
        BY <3>2, <4>1, <4>2
      <4>4. k - 1 \in 1..(Len(queue) - 1) /\ (k - 1) + 1 = k
        BY <3>2, <4>3
      <4>5. t[k - 1] = s
        BY <3>2, <4>2, <4>4
      <4> QED
        BY <3>2, <4>4, <4>5
    <3> QED
      BY <2>1, <3>3 DEF NobodyForgotten, t
  <2>4. FewCandidates'
    BY <2>1 DEF WaitingInv, FewCandidates
  <2> QED
    BY <2>2, <2>3, <2>4 DEF WaitingInv
<1>6. CASE UNCHANGED <<pc, todo, queue>>
  BY <1>6 DEF WaitingInv, SlotsRespected, Occupied, NobodyForgotten, FewCandidates
<1>7. (\E id \in Ids : Forget(id)) \/ GitLabChanges \/ Tick \/ UNCHANGED vars => UNCHANGED <<pc, todo, queue>>
  BY DEF Forget, GitLabChanges, Tick, vars, locals
<1> QED
  BY <1>3, <1>4, <1>5, <1>6, <1>7 DEF Next, Step

\* The semaphore of the inspections: never more of them than slots are past it, and no
\* request that waits is lost from its queue, whatever fails or is denied meanwhile
\* (api/inspection.py, Semaphore(3)).
THEOREM SemaphoreKept == Spec => [](SlotsRespected /\ NobodyForgotten)
<1>1. Spec => []WaitingInv
  BY ServiceInvariant, WaitingInit, WaitingNext, PTL DEF Spec
<1> QED
  BY <1>1, PTL DEF WaitingInv

LEMMA RequestLeftRange ==
    ASSUME ServiceInv, WaitingInv, NEW r \in Requests
    PROVE  RequestLeft(r) \in 0..(2 * CandidateLimit + 8)
<1>1. CandidateLimit \in Nat
  BY ServiceAssumption
<1>2. Len(todo[r]) \in Nat /\ Len(todo[r]) <= CandidateLimit + 1
  BY RequestThere DEF RequestFits, WaitingInv, FewCandidates
<1> QED
  BY <1>1, <1>2 DEF RequestLeft

\* Each request takes a bounded number of steps, whatever the others, the owner and GitLab
\* do meanwhile: it waits once, tries each of its candidates once and reads once, and no
\* step of anyone else gives it more to do.
THEOREM RequestsWindDown ==
    ASSUME NEW r \in Requests
    PROVE  Spec => /\ [](RequestLeft(r) \in 0..(2 * CandidateLimit + 8))
                   /\ [][RequestLeft(r)' < RequestLeft(r)]_(pc[r])
<1>1. Spec => []WaitingInv
  BY ServiceInvariant, WaitingInit, WaitingNext, PTL DEF Spec
<1>2. ServiceInv /\ WaitingInv => RequestLeft(r) \in 0..(2 * CandidateLimit + 8)
  BY RequestLeftRange
<1>3. ServiceInv /\ [Next]_vars => [RequestLeft(r)' < RequestLeft(r)]_(pc[r])
  <2> SUFFICES ASSUME ServiceInv, [Next]_vars, pc'[r] # pc[r]
               PROVE  RequestLeft(r)' < RequestLeft(r)
    OBVIOUS
  <2>1. ASSUME NEW s \in Requests, Arrive(s) PROVE RequestLeft(r)' < RequestLeft(r)
    <3>1. s = r
      BY <2>1, Arriving
    <3> QED
      BY <2>1, <3>1, Arriving
  <2>2. ASSUME NEW s \in Requests, Enter(s) PROVE RequestLeft(r)' < RequestLeft(r)
    <3>1. s = r
      BY <2>2, Entering
    <3> QED
      BY <2>2, <3>1, Entering
  <2>3. ASSUME NEW s \in Requests,
               \/ Verify(s) \/ Denied(s) \/ Hit(s) \/ Miss(s) \/ Inspect(s) \/ Put(s)
               \/ Remediate(s) \/ Answer(s) \/ Fail(s)
        PROVE  RequestLeft(r)' < RequestLeft(r)
    <3>1. s = r
      BY <2>3, GoingOn
    <3> QED
      BY <2>3, <3>1, GoingOn
  <2>4. (\E id \in Ids : Forget(id)) \/ GitLabChanges \/ Tick \/ UNCHANGED vars => FALSE
    BY DEF Forget, GitLabChanges, Tick, vars, locals
  <2> QED
    BY <2>1, <2>2, <2>3, <2>4 DEF Next, Step
<1> QED
  BY <1>1, <1>2, <1>3, ServiceInvariant, PTL DEF Spec

=============================================================================
