--------------------------- MODULE Selection_proofs ---------------------------
(***************************************************************************)
(* Induction over the natural numbers as a statement about sets, functions *)
(* that are defined step by step, what Selected selects, the elements of   *)
(* the sequences that are made of others, and sums over finite sets.       *)
(***************************************************************************)
EXTENDS Selection, Integers, SequencesExt, FiniteSetsExt, FiniteSetTheorems,
        WellFoundedInduction, TLAPS

\* A set of natural numbers that is not empty has a least element.
LEMMA Least == ASSUME NEW T, T \subseteq Nat, T # {} PROVE \E x \in T : \A y \in T : x <= y
<1>1. PICK x \in T : \A y \in T : ~ (<<y, x>> \in OpToRel(<, Nat))
  BY NatLessThanWellFounded, WFMin
<1>2. \A y \in T : ~ (y < x)
  BY <1>1 DEF OpToRel
<1> QED
  BY <1>2

\* Induction up to N, for the set of the numbers that have the property.
LEMMA UpTo ==
    ASSUME NEW N \in Nat, NEW S, 0 \in S, \A n \in 0..(N - 1) : n \in S => n + 1 \in S
    PROVE  \A n \in 0..N : n \in S
<1> SUFFICES ASSUME NEW m \in 0..N, m \notin S PROVE FALSE
  OBVIOUS
<1> DEFINE T == { n \in 0..N : n \notin S }
<1>1. T \subseteq Nat /\ T # {}
  OBVIOUS
<1>2. PICK x \in T : \A y \in T : x <= y
  BY <1>1, Least
<1>3. x \in 0..N /\ x \notin S /\ x # 0
  BY <1>2
<1>4. x - 1 \in 0..(N - 1) /\ x - 1 \in 0..N
  BY <1>3
<1>5. x - 1 \in S
  BY <1>2, <1>4
<1>6. (x - 1) + 1 \in S
  BY <1>4, <1>5
<1> QED
  BY <1>3, <1>6

\* A function that is defined step by step from 0 to N exists.
Steps(f, N, V, base, step) ==
    /\ f \in [0..N -> V] /\ f[0] = base
    /\ \A n \in 1..N : f[n] = step[n][f[n - 1]]

LEMMA StepByStep ==
    ASSUME NEW N \in Nat, NEW V, NEW base \in V, NEW step \in [1..N -> [V -> V]]
    PROVE  \E f : Steps(f, N, V, base, step)
<1> DEFINE Fits(m, f) == /\ f \in [0..m -> V] /\ f[0] = base
                         /\ \A n \in 1..m : f[n] = step[n][f[n - 1]]
           S == { m \in 0..N : \E f : Fits(m, f) }
<1>1. 0 \in S
  <2> DEFINE f == [n \in 0..0 |-> base]
  <2>1. Fits(0, f)
    <3>1. f \in [0..0 -> V]
      OBVIOUS
    <3>2. f[0] = base
      OBVIOUS
    <3>3. 1..0 = {}
      OBVIOUS
    <3> HIDE DEF f
    <3> QED
      BY <3>1, <3>2, <3>3
  <2> HIDE DEF f, Fits
  <2>2. 0 \in 0..N
    OBVIOUS
  <2> QED
    BY <2>1, <2>2
<1>2. ASSUME NEW m \in 0..(N - 1), m \in S PROVE m + 1 \in S
  <2>1. PICK f : Fits(m, f)
    BY <1>2
  <2> DEFINE v == step[m + 1][f[m]]
             g == [n \in 0..(m + 1) |-> IF n = m + 1 THEN v ELSE f[n]]
  <2>2. v \in V
    <3>1. m + 1 \in 1..N /\ m \in 0..m
      OBVIOUS
    <3>2. f[m] \in V
      BY <2>1, <3>1
    <3> QED
      BY <3>1, <3>2
  <2>3. g \in [0..(m + 1) -> V]
    <3>1. \A n \in 0..(m + 1) : n # m + 1 => n \in 0..m
      OBVIOUS
    <3> HIDE DEF v
    <3> QED
      BY <2>1, <2>2, <3>1
  <2>4. g[0] = base
    BY <2>1
  <2>5. ASSUME NEW n \in 1..(m + 1) PROVE g[n] = step[n][g[n - 1]]
    <3>1. CASE n = m + 1
      <4>1. m \in 0..(m + 1) /\ m # m + 1 /\ n - 1 = m /\ n \in 0..(m + 1)
        BY <3>1
      <4>2. g[m] = f[m] /\ g[n] = v
        BY <3>1, <4>1
      <4> QED
        BY <3>1, <4>1, <4>2
    <3>2. CASE n # m + 1
      <4>1. n \in 1..m /\ n \in 0..(m + 1) /\ n - 1 \in 0..(m + 1) /\ n - 1 # m + 1
        BY <3>2
      <4>2. g[n] = f[n] /\ g[n - 1] = f[n - 1]
        BY <3>2, <4>1
      <4> QED
        BY <2>1, <4>1, <4>2
    <3> QED
      BY <3>1, <3>2
  <2>6. Fits(m + 1, g)
    BY <2>3, <2>4, <2>5
  <2> HIDE DEF g, Fits
  <2>7. m + 1 \in 0..N
    OBVIOUS
  <2> QED
    BY <2>6, <2>7
<1> HIDE DEF S
<1>3. N \in S
  <2>1. \A n \in 0..N : n \in S
    BY <1>1, <1>2, UpTo
  <2> QED
    BY <2>1
<1>4. \E f : Fits(N, f)
  BY <1>3 DEF S
<1> QED
  BY <1>4 DEF Steps

-----------------------------------------------------------------------------
(* What Selected selects.                                                    *)

Selecting(kept, X, s, S) ==
    /\ kept \in [0..Len(s) -> Seq(X)]
    /\ kept[0] = <<>> /\ Selected(s, S) = kept[Len(s)]
    /\ \A n \in 1..Len(s) :
         kept[n] = IF s[n] \in S THEN Append(kept[n - 1], s[n]) ELSE kept[n - 1]

LEMMA SelectionSteps ==
    ASSUME NEW X, NEW s \in Seq(X), NEW S
    PROVE  \E kept : Selecting(kept, X, s, S)
<1> DEFINE N == Len(s)
           V == Seq(X)
           base == <<>>
           step == [n \in 1..N |-> [v \in V |-> IF s[n] \in S THEN Append(v, s[n]) ELSE v]]
           Fits(f) == f = [n \in 0..N |->
                             IF n = 0 THEN <<>>
                             ELSE IF s[n] \in S THEN Append(f[n - 1], s[n]) ELSE f[n - 1]]
<1>1. N \in Nat /\ base \in V
  OBVIOUS
<1>2. step \in [1..N -> [V -> V]]
  OBVIOUS
<1>3. \A n \in 1..N : \A v \in V : step[n][v] = IF s[n] \in S THEN Append(v, s[n]) ELSE v
  OBVIOUS
<1> HIDE DEF N, V, step, base
<1>4. PICK g : Steps(g, N, V, base, step)
  BY <1>1, <1>2, StepByStep
<1>0. PICK f : f \in [0..N -> V] /\ f[0] = base /\ \A n \in 1..N : f[n] = step[n][f[n - 1]]
  BY <1>4 DEF Steps
<1>5. ASSUME NEW n \in 1..N
      PROVE  f[n] = IF s[n] \in S THEN Append(f[n - 1], s[n]) ELSE f[n - 1]
  <2>1. n - 1 \in 0..N
    BY <1>1
  <2>2. f[n - 1] \in V
    BY <1>0, <2>1
  <2> QED
    BY <1>3, <1>0, <2>2
<1>6. Fits(f)
  <2>1. \A n \in 0..N : n # 0 => n \in 1..N
    BY <1>1
  <2>2. \A n \in 0..N : f[n] = IF n = 0 THEN <<>>
                               ELSE IF s[n] \in S THEN Append(f[n - 1], s[n]) ELSE f[n - 1]
    BY <1>0, <1>5, <2>1 DEF base
  <2>3. f = [n \in 0..N |-> f[n]]
    BY <1>0
  <2> HIDE DEF N
  <2>4. [n \in 0..N |-> f[n]]
          = [n \in 0..N |-> IF n = 0 THEN <<>>
                            ELSE IF s[n] \in S THEN Append(f[n - 1], s[n]) ELSE f[n - 1]]
    BY <2>2, Zenon
  <2> QED
    BY <2>3, <2>4
<1> DEFINE kept == CHOOSE any : Fits(any)
<1>7. Fits(kept)
  <2> HIDE DEF Fits
  <2> QED
    BY <1>6
<1>8. Selected(s, S) = kept[Len(s)]
  BY DEF Selected, N
<1> HIDE DEF kept
<1>9. /\ DOMAIN kept = 0..N /\ kept[0] = <<>>
      /\ \A n \in 1..N : kept[n] = IF s[n] \in S THEN Append(kept[n - 1], s[n]) ELSE kept[n - 1]
  <2>1. 0 \in 0..N /\ \A n \in 1..N : n \in 0..N /\ n # 0
    BY <1>1
  <2> QED
    BY <1>7, <2>1
<1>10. \A n \in 0..N : kept[n] \in V
  <2> DEFINE T == { n \in 0..N : kept[n] \in V }
  <2>1. 0 \in T
    <3>1. 0 \in 0..N /\ kept[0] = base /\ base \in V
      BY <1>1, <1>9 DEF base
    <3> QED
      BY <3>1
  <2>2. ASSUME NEW n \in 0..(N - 1), n \in T PROVE n + 1 \in T
    <3>1. n + 1 \in 1..N /\ n + 1 \in 0..N /\ (n + 1) - 1 = n
      BY <1>1
    <3>2. kept[n + 1] = IF s[n + 1] \in S THEN Append(kept[n], s[n + 1]) ELSE kept[n]
      BY <1>9, <3>1
    <3>3. s[n + 1] \in X
      BY <3>1 DEF N
    <3>4. kept[n + 1] \in V
      BY <2>2, <3>2, <3>3 DEF V
    <3> QED
      BY <3>1, <3>4
  <2> HIDE DEF T
  <2>3. \A n \in 0..N : n \in T
    BY <1>1, <2>1, <2>2, UpTo
  <2> QED
    BY <2>3 DEF T
<1>11. kept \in [0..N -> V]
  BY <1>7, <1>10
<1>12. Selecting(kept, X, s, S)
  BY <1>8, <1>9, <1>11 DEF N, V, Selecting
<1> QED
  BY <1>12

\* The selected elements are those of s that are in S, in the order of s.
LEMMA SelectedFrom ==
    ASSUME NEW X, NEW s \in Seq(X), NEW S
    PROVE  LET r == Selected(s, S)
           IN /\ r \in Seq(X) /\ Len(r) <= Len(s)
              /\ \A i \in DOMAIN s : s[i] \in S => \E j \in DOMAIN r : r[j] = s[i]
              /\ \E at \in [DOMAIN r -> DOMAIN s] :
                   \A j \in DOMAIN r : /\ r[j] = s[at[j]] /\ r[j] \in S
                                       /\ \A i \in DOMAIN r : i < j => at[i] < at[j]
<1>0. PICK kept : Selecting(kept, X, s, S)
  BY SelectionSteps
<1>1. /\ kept \in [0..Len(s) -> Seq(X)]
      /\ kept[0] = <<>> /\ Selected(s, S) = kept[Len(s)]
      /\ \A n \in 1..Len(s) :
           kept[n] = IF s[n] \in S THEN Append(kept[n - 1], s[n]) ELSE kept[n - 1]
  BY <1>0 DEF Selecting
<1> DEFINE N == Len(s)
           From(r, n) ==
             /\ Len(r) <= n
             /\ \A i \in 1..n : s[i] \in S => \E j \in DOMAIN r : r[j] = s[i]
             /\ \E at \in [DOMAIN r -> 1..n] :
                   \A j \in DOMAIN r : /\ r[j] = s[at[j]] /\ r[j] \in S
                                       /\ \A i \in DOMAIN r : i < j => at[i] < at[j]
           T == { n \in 0..N : From(kept[n], n) }
<1>2. N \in Nat
  OBVIOUS
<1>3. 0 \in T
  <2>1. DOMAIN kept[0] = {} /\ Len(kept[0]) = 0 /\ 1..0 = {}
    BY <1>1
  <2> DEFINE none == [j \in {} |-> 1]
             first == kept[0]
             Follows(at) == \A j \in DOMAIN first :
                              /\ first[j] = s[at[j]] /\ first[j] \in S
                              /\ \A i \in DOMAIN first : i < j => at[i] < at[j]
  <2>2. none \in [DOMAIN first -> 1..0] /\ Follows(none)
    BY <2>1
  <2>3. \A i \in 1..0 : s[i] \in S => \E j \in DOMAIN first : first[j] = s[i]
    BY <2>1
  <2>4. Len(first) <= 0
    BY <2>1
  <2> HIDE DEF none, Follows, first
  <2>5. \E at \in [DOMAIN first -> 1..0] : Follows(at)
    BY <2>2
  <2>6. From(first, 0)
    BY <2>3, <2>4, <2>5 DEF Follows
  <2>7. 0 \in 0..N
    BY <1>2
  <2> HIDE DEF From
  <2> QED
    BY <2>6, <2>7 DEF first
<1>4. ASSUME NEW n \in 0..(N - 1), n \in T PROVE n + 1 \in T
  <2> DEFINE was == kept[n]
             r == kept[n + 1]
  <2>1. n + 1 \in 1..N /\ n + 1 \in 0..N /\ (n + 1) - 1 = n /\ n \in 0..N
    BY <1>2
  <2>2. /\ was \in Seq(X) /\ From(was, n) /\ s[n + 1] \in X
        /\ r = IF s[n + 1] \in S THEN Append(was, s[n + 1]) ELSE was
    <3>1. From(was, n)
      <4>1. n \in T
        BY <1>4
      <4> HIDE DEF From
      <4> QED
        BY <4>1
    <3>2. was \in Seq(X) /\ s[n + 1] \in X
      BY <1>1, <2>1
    <3>3. r = IF s[n + 1] \in S THEN Append(was, s[n + 1]) ELSE was
      BY <1>1, <2>1
    <3> QED
      BY <3>1, <3>2, <3>3
  <2> HIDE DEF was, r
  <2>3. PICK at \in [DOMAIN was -> 1..n] :
                   \A j \in DOMAIN was : /\ was[j] = s[at[j]] /\ was[j] \in S
                                         /\ \A i \in DOMAIN was : i < j => at[i] < at[j]
    BY <2>2
  <2>4. CASE s[n + 1] \notin S
    <3>1. r = was
      BY <2>2, <2>4
    <3>2. Len(r) <= n + 1
      BY <2>2, <3>1
    <3>3. ASSUME NEW i \in 1..(n + 1), s[i] \in S PROVE \E j \in DOMAIN r : r[j] = s[i]
      <4>1. i \in 1..n
        BY <2>4, <3>3
      <4> QED
        BY <2>2, <3>1, <3>3, <4>1
    <3>4. at \in [DOMAIN r -> 1..(n + 1)]
      BY <3>1
    <3>5. From(r, n + 1)
      BY <2>3, <3>1, <3>2, <3>3, <3>4
    <3> QED
      BY <2>1, <3>5 DEF r
  <2>5. CASE s[n + 1] \in S
    <3> DEFINE m == Len(was)
               next == [j \in 1..(m + 1) |-> IF j = m + 1 THEN n + 1 ELSE at[j]]
    <3>1. m \in Nat /\ m <= n /\ DOMAIN was = 1..m
      BY <2>2
    <3>2. /\ Len(r) = m + 1 /\ DOMAIN r = 1..(m + 1) /\ r[m + 1] = s[n + 1]
          /\ \A j \in 1..m : r[j] = was[j]
      BY <2>2, <2>5, <3>1
    <3> HIDE DEF m
    <3>3. Len(r) <= n + 1
      BY <3>1, <3>2
    <3>4. ASSUME NEW i \in 1..(n + 1), s[i] \in S PROVE \E j \in DOMAIN r : r[j] = s[i]
      <4>1. CASE i = n + 1
        <5>1. m + 1 \in DOMAIN r
          BY <3>1, <3>2
        <5> QED
          BY <3>2, <4>1, <5>1
      <4>2. CASE i # n + 1
        <5>1. i \in 1..n
          BY <4>2
        <5>2. PICK j \in DOMAIN was : was[j] = s[i]
          BY <2>2, <3>4, <5>1
        <5>3. j \in 1..m /\ j \in DOMAIN r
          BY <3>1, <3>2
        <5> QED
          BY <3>2, <5>2, <5>3
      <4> QED
        BY <4>1, <4>2
    <3>5. ASSUME NEW j \in 1..m PROVE next[j] = at[j] /\ at[j] \in 1..n /\ r[j] = was[j]
      BY <3>1, <3>2
    <3>6. next[m + 1] = n + 1
      BY <3>1
    <3>7. \A j \in 1..(m + 1) : j = m + 1 \/ j \in 1..m
      BY <3>1
    <3>8. next \in [1..(m + 1) -> 1..(n + 1)]
      <4>1. n + 1 \in 1..(n + 1) /\ \A i \in 1..n : i \in 1..(n + 1)
        OBVIOUS
      <4>2. \A j \in 1..(m + 1) : next[j] \in 1..(n + 1)
        BY <3>5, <3>6, <3>7, <4>1
      <4> QED
        BY <4>2
    <3> HIDE DEF next
    <3>9. ASSUME NEW j \in DOMAIN r
          PROVE  /\ r[j] = s[next[j]] /\ r[j] \in S
                 /\ \A i \in DOMAIN r : i < j => next[i] < next[j]
      <4>1. CASE j = m + 1
        <5>1. ASSUME NEW i \in DOMAIN r, i < j PROVE next[i] < next[j]
          <6>1. i \in 1..m
            BY <3>1, <3>2, <4>1, <5>1
          <6> QED
            BY <3>5, <3>6, <4>1, <6>1
        <5> QED
          BY <2>5, <3>2, <3>6, <4>1, <5>1
      <4>2. CASE j \in 1..m
        <5>1. ASSUME NEW i \in DOMAIN r, i < j PROVE next[i] < next[j]
          <6>1. i \in 1..m
            BY <3>1, <3>2, <4>2, <5>1
          <6> QED
            BY <2>3, <3>1, <3>5, <4>2, <5>1, <6>1
        <5> QED
          BY <2>3, <3>1, <3>5, <4>2, <5>1
      <4> QED
        BY <3>2, <3>7, <4>1, <4>2
    <3>10. From(r, n + 1)
      BY <3>2, <3>3, <3>4, <3>8, <3>9
    <3> QED
      BY <2>1, <3>10 DEF r
  <2> QED
    BY <2>4, <2>5
<1> HIDE DEF T
<1>5. \A n \in 0..N : n \in T
  BY <1>2, <1>3, <1>4, UpTo
<1>6. From(Selected(s, S), Len(s))
  <2>1. N \in T
    BY <1>2, <1>5
  <2>2. From(kept[N], N)
    BY <2>1 DEF T
  <2> HIDE DEF From
  <2> QED
    BY <1>1, <2>2
<1>7. Selected(s, S) \in Seq(X) /\ DOMAIN s = 1..Len(s)
  BY <1>1, <1>2
<1> QED
  BY <1>6, <1>7

\* The same without the places.
LEMMA SelectedElements ==
    ASSUME NEW X, NEW s \in Seq(X), NEW S
    PROVE  /\ Selected(s, S) \in Seq(X) /\ Len(Selected(s, S)) <= Len(s)
           /\ \A i \in DOMAIN s :
                s[i] \in S => \E j \in DOMAIN Selected(s, S) : Selected(s, S)[j] = s[i]
           /\ \A j \in DOMAIN Selected(s, S) :
                Selected(s, S)[j] \in S /\ \E i \in DOMAIN s : s[i] = Selected(s, S)[j]
<1> DEFINE r == Selected(s, S)
<1>1. /\ r \in Seq(X) /\ Len(r) <= Len(s)
      /\ \A i \in DOMAIN s : s[i] \in S => \E j \in DOMAIN r : r[j] = s[i]
      /\ \E at \in [DOMAIN r -> DOMAIN s] :
                   \A j \in DOMAIN r : /\ r[j] = s[at[j]] /\ r[j] \in S
                                       /\ \A i \in DOMAIN r : i < j => at[i] < at[j]
  BY SelectedFrom
<1> HIDE DEF r
<1>2. ASSUME NEW j \in DOMAIN r PROVE r[j] \in S /\ \E i \in DOMAIN s : s[i] = r[j]
  <2>1. PICK at \in [DOMAIN r -> DOMAIN s] : \A k \in DOMAIN r : r[k] = s[at[k]] /\ r[k] \in S
    BY <1>1
  <2>2. at[j] \in DOMAIN s
    BY <2>1
  <2> QED
    BY <2>1, <2>2
<1>3. /\ r \in Seq(X) /\ Len(r) <= Len(s)
      /\ \A i \in DOMAIN s : s[i] \in S => \E j \in DOMAIN r : r[j] = s[i]
      /\ \A j \in DOMAIN r : r[j] \in S /\ \E i \in DOMAIN s : s[i] = r[j]
  BY <1>1, <1>2
<1> QED
  BY <1>3 DEF r

\* A last element that is not in S makes no difference.
LEMMA SelectedUnlessLast ==
    ASSUME NEW X, NEW s \in Seq(X), NEW S, NEW x \in X, x \notin S
    PROVE  Selected(Append(s, x), S) = Selected(s, S)
<1> DEFINE t == Append(s, x)
           N == Len(s)
<1>1. N \in Nat /\ t \in Seq(X) /\ Len(t) = N + 1 /\ t[N + 1] = x /\ \A n \in 1..N : t[n] = s[n]
  OBVIOUS
<1> HIDE DEF t, N
<1>2. PICK was : Selecting(was, X, s, S)
  BY SelectionSteps
<1>3. PICK now : Selecting(now, X, t, S)
  BY <1>1, SelectionSteps
<1> DEFINE T == { n \in 0..N : now[n] = was[n] }
<1>4. /\ was[0] = <<>> /\ Selected(s, S) = was[N]
      /\ \A n \in 1..N : was[n] = IF s[n] \in S THEN Append(was[n - 1], s[n]) ELSE was[n - 1]
  BY <1>2 DEF Selecting, N
<1>5. /\ now[0] = <<>> /\ Selected(t, S) = now[N + 1]
      /\ \A n \in 1..(N + 1) : now[n] = IF t[n] \in S THEN Append(now[n - 1], t[n]) ELSE now[n - 1]
  BY <1>1, <1>3 DEF Selecting
<1>6. 0 \in T
  BY <1>1, <1>4, <1>5
<1>7. ASSUME NEW n \in 0..(N - 1), n \in T PROVE n + 1 \in T
  <2>1. n + 1 \in 1..N /\ n + 1 \in 0..N /\ n + 1 \in 1..(N + 1) /\ (n + 1) - 1 = n
    BY <1>1
  <2>2. was[n + 1] = IF s[n + 1] \in S THEN Append(was[n], s[n + 1]) ELSE was[n]
    BY <1>4, <2>1
  <2>3. now[n + 1] = IF t[n + 1] \in S THEN Append(now[n], t[n + 1]) ELSE now[n]
    BY <1>5, <2>1
  <2>4. t[n + 1] = s[n + 1] /\ now[n] = was[n]
    BY <1>1, <1>7, <2>1
  <2>5. now[n + 1] = was[n + 1]
    BY <2>2, <2>3, <2>4
  <2> QED
    BY <2>1, <2>5
<1> HIDE DEF T
<1>8. \A n \in 0..N : n \in T
  BY <1>1, <1>6, <1>7, UpTo
<1>9. now[N] = was[N]
  BY <1>1, <1>8 DEF T
<1>10. now[N + 1] = now[N]
  <2>1. N + 1 \in 1..(N + 1) /\ (N + 1) - 1 = N
    BY <1>1
  <2> QED
    BY <1>1, <1>5, <2>1
<1> QED
  BY <1>4, <1>5, <1>9, <1>10 DEF t

-----------------------------------------------------------------------------
(* The elements of sequences that are made of others.                      *)

\* A sequence over a set is one over a larger set.
LEMMA SequenceOf == ASSUME NEW A, NEW B, A \subseteq B, NEW s \in Seq(A) PROVE s \in Seq(B)
<1>1. s \in [1..Len(s) -> A] /\ Len(s) \in Nat
  OBVIOUS
<1>2. s \in [1..Len(s) -> B]
  BY <1>1
<1> QED
  BY <1>1, <1>2

\* Every element of one sequence is one of another.
PartOf(r, s) == \A j \in DOMAIN r : \E i \in DOMAIN s : r[j] = s[i]

\* What is selected of a sequence is of it.
LEMMA SelectedPart ==
    ASSUME NEW X, NEW s \in Seq(X), NEW S
    PROVE  Selected(s, S) \in Seq(X) /\ PartOf(Selected(s, S), s)
<1> DEFINE r == Selected(s, S)
<1>1. /\ r \in Seq(X)
      /\ \A j \in DOMAIN r : r[j] \in S /\ \E i \in DOMAIN s : s[i] = r[j]
  BY SelectedElements
<1> HIDE DEF r
<1>2. PartOf(r, s)
  BY <1>1 DEF PartOf
<1> QED
  BY <1>1, <1>2 DEF r

\* Every element of r is one of s or of t.
JoinOf(r, s, t) ==
    \A k \in DOMAIN r : (\E j \in DOMAIN s : r[k] = s[j]) \/ (\E j \in DOMAIN t : r[k] = t[j])

\* The elements of a concatenation.
LEMMA JoinedElements ==
    ASSUME NEW A, NEW s \in Seq(A), NEW t \in Seq(A)
    PROVE  s \o t \in Seq(A) /\ JoinOf(s \o t, s, t)
<1> DEFINE r == s \o t
<1>1. /\ Len(s) \in Nat /\ DOMAIN s = 1..Len(s)
      /\ Len(t) \in Nat /\ DOMAIN t = 1..Len(t)
  OBVIOUS
<1>2. /\ r \in Seq(A) /\ DOMAIN r = 1..(Len(s) + Len(t))
  OBVIOUS
<1>3. ASSUME NEW k \in 1..(Len(s) + Len(t)), k <= Len(s)
      PROVE  k \in DOMAIN s /\ r[k] = s[k]
  BY <1>1, <1>3
<1>4. ASSUME NEW k \in 1..(Len(s) + Len(t)), ~ (k <= Len(s))
      PROVE  k - Len(s) \in DOMAIN t /\ r[k] = t[k - Len(s)]
  BY <1>1, <1>4
<1> HIDE DEF r
<1>5. JoinOf(r, s, t)
  BY <1>2, <1>3, <1>4 DEF JoinOf
<1> QED
  BY <1>2, <1>5 DEF r

\* The tail of a sequence that is not empty.
LEMMA TailElements ==
    ASSUME NEW A, NEW s \in Seq(A), s # <<>>
    PROVE  /\ Tail(s) \in Seq(A) /\ (Len(s) > 1 => Tail(s) # <<>>)
           /\ \A k \in DOMAIN Tail(s) : k + 1 \in DOMAIN s /\ Tail(s)[k] = s[k + 1]
<1>1. Len(s) \in Nat /\ Len(s) # 0 /\ DOMAIN s = 1..Len(s)
  OBVIOUS
<1>2. Tail(s) \in Seq(A) /\ Len(Tail(s)) = Len(s) - 1 /\ DOMAIN Tail(s) = 1..(Len(s) - 1)
  BY <1>1
<1>3. Len(s) > 1 => Tail(s) # <<>>
  <2>1. Len(<<>>) = 0 /\ (Len(s) > 1 => Len(Tail(s)) # 0)
    BY <1>1, <1>2
  <2> QED
    BY <2>1
<1>4. ASSUME NEW k \in DOMAIN Tail(s) PROVE k + 1 \in DOMAIN s /\ Tail(s)[k] = s[k + 1]
  BY <1>1, <1>2
<1> QED
  BY <1>2, <1>3, <1>4

\* A finite set as a sequence.
LEMMA SequenceOfASet ==
    ASSUME NEW S, IsFiniteSet(S)
    PROVE  SetToSeq(S) \in Seq(S) /\ Len(SetToSeq(S)) = Cardinality(S)
<1> DEFINE n == Cardinality(S)
           Lists(f) == f \in [1..n -> S] /\ IsInjective(f)
<1>1. n \in Nat
  BY FS_CardinalityType
<1>2. \E f : Lists(f)
  <2>1. ExistsBijection(1..n, S)
    <3>1. PICK m \in Nat : ExistsBijection(1..m, S)
      BY FS_NatBijection
    <3>2. m = n
      BY <3>1, FS_CountingElements
    <3> QED
      BY <3>1, <3>2
  <2>2. PICK f \in Bijection(1..n, S) : TRUE
    BY <2>1 DEF ExistsBijection
  <2>3. f \in [1..n -> S] /\ \A a, b \in 1..n : f[a] = f[b] => a = b
    BY <2>2 DEF Bijection, Injection, Surjection, IsInjective
  <2>4. Lists(f)
    BY <2>3 DEF IsInjective
  <2> QED
    BY <2>4
<1> DEFINE s == CHOOSE f : Lists(f)
<1>3. Lists(s)
  <2> HIDE DEF Lists
  <2> QED
    BY <1>2
<1>4. SetToSeq(S) = s
  BY DEF SetToSeq
<1> HIDE DEF s, n
<1>5. s \in Seq(S) /\ Len(s) = n
  BY <1>1, <1>3
<1> QED
  BY <1>4, <1>5 DEF n

-----------------------------------------------------------------------------

\* Induction over the subsets of a finite set, for the set of those that have the property.
LEMMA Subsets ==
    ASSUME NEW T, IsFiniteSet(T), NEW Q, {} \in Q,
           \A s \in SUBSET T : s # {} /\ (\A x \in s : s \ {x} \in Q) => s \in Q
    PROVE  \A s \in SUBSET T : s \in Q
<1> DEFINE N == Cardinality(T)
           UpToSize(n) == \A s \in SUBSET T : Cardinality(s) <= n => s \in Q
           S == { n \in 0..N : UpToSize(n) }
<1>1. N \in Nat
  BY FS_CardinalityType
<1>2. \A s \in SUBSET T : IsFiniteSet(s) /\ Cardinality(s) \in 0..N
  BY FS_Subset, FS_CardinalityType, <1>1
<1> HIDE DEF N
<1>3. UpToSize(0)
  <2>1. \A s \in SUBSET T : Cardinality(s) <= 0 => s = {}
    BY <1>1, <1>2, FS_EmptySet
  <2> QED
    BY <2>1
<1>4. ASSUME NEW n \in 0..(N - 1), UpToSize(n) PROVE UpToSize(n + 1)
  <2> SUFFICES ASSUME NEW s \in SUBSET T, Cardinality(s) <= n + 1, s # {} PROVE s \in Q
    OBVIOUS
  <2>1. ASSUME NEW x \in s PROVE s \ {x} \in Q
    <3>1. Cardinality(s \ {x}) = Cardinality(s) - 1
      BY <1>2, FS_RemoveElement
    <3>2. Cardinality(s \ {x}) <= n
      BY <1>1, <1>2, <3>1
    <3> QED
      BY <1>4, <3>2
  <2> QED
    BY <2>1
<1>5. \A n \in 0..N : UpToSize(n)
  <2> HIDE DEF UpToSize
  <2>1. 0 \in S /\ \A n \in 0..(N - 1) : n \in S => n + 1 \in S
    BY <1>1, <1>3, <1>4
  <2> HIDE DEF S
  <2>2. \A n \in 0..N : n \in S
    BY <1>1, <2>1, UpTo
  <2> QED
    BY <2>2 DEF S
<1> QED
  BY <1>1, <1>2, <1>5

\* The sum of the weights of a set: MapThenSumSet takes its elements one after the other.
AnyOf(s) == CHOOSE x \in s : TRUE
Total(w, S) == MapThenSumSet(LAMBDA x : w[x], S)
Adding(g, w, S) ==
    g = [s \in SUBSET S |-> IF s = {} THEN 0 ELSE w[AnyOf(s)] + g[s \ {AnyOf(s)}]]

\* Total and the function it is defined with.
LEMMA TotalAdds ==
    ASSUME NEW w, NEW S PROVE Total(w, S) = (CHOOSE g : Adding(g, w, S))[S]
  BY DEF Total, MapThenSumSet, MapThenFoldSet, Adding, AnyOf

LEMMA AnyOfIsIn == ASSUME NEW s, s # {} PROVE AnyOf(s) \in s
  BY DEF AnyOf

LEMMA AddingAt ==
    ASSUME NEW g, NEW w, NEW S, Adding(g, w, S), NEW r \in SUBSET S
    PROVE  g[r] = IF r = {} THEN 0 ELSE w[AnyOf(r)] + g[r \ {AnyOf(r)}]
<1> DEFINE f == [s \in SUBSET S |-> IF s = {} THEN 0 ELSE w[AnyOf(s)] + g[s \ {AnyOf(s)}]]
<1>1. f[r] = IF r = {} THEN 0 ELSE w[AnyOf(r)] + g[r \ {AnyOf(r)}]
  OBVIOUS
<1>2. g = f
  BY DEF Adding
<1> HIDE DEF f
<1> QED
  BY <1>1, <1>2

\* There is one such function, and on the subsets of both it is the same.
LEMMA AddingSame ==
    ASSUME NEW T, IsFiniteSet(T), NEW w, NEW g, NEW U \in SUBSET T, Adding(g, w, U),
           NEW h, NEW V \in SUBSET T, Adding(h, w, V)
    PROVE  \A s \in SUBSET T : s \subseteq U /\ s \subseteq V => g[s] = h[s]
<1> DEFINE Q == { s \in SUBSET T : s \subseteq U /\ s \subseteq V => g[s] = h[s] }
<1>1. {} \in Q
  BY AddingAt
<1>2. ASSUME NEW s \in SUBSET T, s # {}, \A x \in s : s \ {x} \in Q PROVE s \in Q
  <2> SUFFICES ASSUME s \subseteq U, s \subseteq V PROVE g[s] = h[s]
    OBVIOUS
  <2> DEFINE r == s \ {AnyOf(s)}
  <2>1. AnyOf(s) \in s
    BY <1>2, AnyOfIsIn
  <2>2. g[r] = h[r]
    BY <1>2, <2>1
  <2>3. g[s] = w[AnyOf(s)] + g[r]
    BY <1>2, AddingAt
  <2>4. h[s] = w[AnyOf(s)] + h[r]
    BY <1>2, AddingAt
  <2> HIDE DEF r
  <2> QED
    BY <2>2, <2>3, <2>4
<1> HIDE DEF Q
<1>3. \A s \in SUBSET T : s \in Q
  BY <1>1, <1>2, Subsets
<1> QED
  BY <1>3 DEF Q

\* There is one for every finite set: those of its parts, put together.
LEMMA AddingExists ==
    ASSUME NEW T, IsFiniteSet(T), NEW w
    PROVE  \A S \in SUBSET T : \E g : Adding(g, w, S)
<1> DEFINE Q == { S \in SUBSET T : \E g : Adding(g, w, S) }
<1>1. {} \in Q
  <2> DEFINE g == [s \in SUBSET {} |-> 0]
  <2>1. Adding(g, w, {})
    BY DEF Adding
  <2> QED
    BY <2>1
<1>2. ASSUME NEW S \in SUBSET T, S # {}, \A x \in S : S \ {x} \in Q PROVE S \in Q
  <2> DEFINE part == [x \in S |-> CHOOSE g : Adding(g, w, S \ {x})]
             out(r) == CHOOSE x \in S : x \notin r
             c == AnyOf(S)
             h == [r \in SUBSET S |->
                     IF r = S THEN w[c] + part[c][S \ {c}] ELSE part[out(r)][r]]
  <2>1. \A x \in S : Adding(part[x], w, S \ {x})
    BY <1>2
  <2>2. c \in S
    BY <1>2, AnyOfIsIn
  <2>3. ASSUME NEW r \in SUBSET S, r # S PROVE out(r) \in S /\ out(r) \notin r
    <3>1. \E x \in S : x \notin r
      BY <2>3
    <3> QED
      BY <3>1
  <2> HIDE DEF part, out
  <2>4. ASSUME NEW r \in SUBSET S, NEW x \in S, x \notin r PROVE h[r] = part[x][r]
    <3>1. r # S /\ r \subseteq S \ {x} /\ r \in SUBSET T /\ S \ {x} \in SUBSET T
      BY <2>4
    <3>2. out(r) \in S /\ r \subseteq S \ {out(r)} /\ S \ {out(r)} \in SUBSET T
      BY <2>3, <3>1
    <3>3. Adding(part[x], w, S \ {x}) /\ Adding(part[out(r)], w, S \ {out(r)})
      BY <2>1, <3>2
    <3>4. part[out(r)][r] = part[x][r]
      BY <3>1, <3>2, <3>3, AddingSame
    <3> QED
      BY <3>1, <3>4
  <2>5. ASSUME NEW r \in SUBSET S
        PROVE  h[r] = IF r = {} THEN 0 ELSE w[AnyOf(r)] + h[r \ {AnyOf(r)}]
    <3>1. CASE r = S
      <4>1. h[S \ {c}] = part[c][S \ {c}]
        BY <2>2, <2>4
      <4> QED
        BY <1>2, <3>1, <4>1
    <3>2. CASE r # S
      <4>1. PICK x \in S : x \notin r
        BY <3>2
      <4>2. h[r] = part[x][r] /\ h[r \ {AnyOf(r)}] = part[x][r \ {AnyOf(r)}]
        BY <2>4, <4>1
      <4>3. part[x][r] = IF r = {} THEN 0 ELSE w[AnyOf(r)] + part[x][r \ {AnyOf(r)}]
        <5> DEFINE p == part[x]
                   U == S \ {x}
        <5>1. Adding(p, w, U) /\ r \in SUBSET U
          BY <2>1, <4>1
        <5> HIDE DEF p, U
        <5>2. p[r] = IF r = {} THEN 0 ELSE w[AnyOf(r)] + p[r \ {AnyOf(r)}]
          BY ZenonT(60), <5>1, AddingAt
        <5> QED
          BY <5>2 DEF p
      <4> HIDE DEF h
      <4> QED
        BY <4>2, <4>3
    <3> QED
      BY <3>1, <3>2
  <2>6. h = [r \in SUBSET S |-> h[r]]
    OBVIOUS
  <2> HIDE DEF h
  <2>7. Adding(h, w, S)
    BY <2>5, <2>6 DEF Adding
  <2> QED
    BY <2>7
<1> HIDE DEF Q
<1>3. \A S \in SUBSET T : S \in Q
  BY <1>1, <1>2, Subsets
<1> QED
  BY <1>3 DEF Q

\* So a sum is what its definition says it is.
LEMMA TotalUnfolds ==
    ASSUME NEW T, IsFiniteSet(T), NEW w
    PROVE  /\ Total(w, {}) = 0
           /\ \A S \in SUBSET T : S # {} => Total(w, S) = w[AnyOf(S)] + Total(w, S \ {AnyOf(S)})
<1> DEFINE G(S) == CHOOSE g : Adding(g, w, S)
<1>1. \A S \in SUBSET T : Adding(G(S), w, S)
  BY AddingExists
<1>2. \A S : Total(w, S) = G(S)[S]
  BY TotalAdds
<1> HIDE DEF G
<1>3. Total(w, {}) = 0
  BY <1>1, <1>2, AddingAt
<1>4. ASSUME NEW S \in SUBSET T, S # {}
      PROVE  Total(w, S) = w[AnyOf(S)] + Total(w, S \ {AnyOf(S)})
  <2> DEFINE R == S \ {AnyOf(S)}
  <2>1. Adding(G(S), w, S) /\ Adding(G(R), w, R) /\ R \in SUBSET T /\ R \subseteq S
    BY <1>1
  <2>2. G(S)[S] = w[AnyOf(S)] + G(S)[R]
    BY <1>4, <2>1, AddingAt
  <2>3. G(S)[R] = G(R)[R]
    BY <2>1, AddingSame
  <2> QED
    BY <1>2, <2>2, <2>3
<1> QED
  BY <1>3, <1>4

\* It does not matter which element is taken first.
TakesAny(w, S) ==
    /\ Total(w, S) \in Nat
    /\ \A x \in S : /\ Total(w, S \ {x}) \in Nat
                    /\ Total(w, S) = w[x] + Total(w, S \ {x})

LEMMA TotalTakesAny ==
    ASSUME NEW T, IsFiniteSet(T), NEW w, \A x \in T : w[x] \in Nat
    PROVE  \A S \in SUBSET T : TakesAny(w, S)
<1> DEFINE Q == { S \in SUBSET T : TakesAny(w, S) }
<1>1. {} \in Q
  BY TotalUnfolds DEF TakesAny
<1>2. ASSUME NEW S \in SUBSET T, S # {}, \A x \in S : S \ {x} \in Q PROVE S \in Q
  <2> DEFINE c == AnyOf(S)
             C == S \ {c}
  <2>1. c \in S
    BY <1>2, AnyOfIsIn
  <2>2. Total(w, S) = w[c] + Total(w, C)
    BY <1>2, TotalUnfolds
  <2>3. TakesAny(w, C) /\ w[c] \in Nat
    BY <1>2, <2>1
  <2> HIDE DEF c
  <2>4. Total(w, S) \in Nat
    BY <2>2, <2>3 DEF TakesAny
  <2>5. ASSUME NEW x \in S PROVE Total(w, S) = w[x] + Total(w, S \ {x})
    <3>1. CASE x = c
      BY <2>2, <3>1
    <3>2. CASE x # c
      <4> DEFINE X == S \ {x}
                 B == S \ {x, c}
      <4>1. TakesAny(w, X) /\ w[x] \in Nat
        BY <1>2
      <4>2. x \in C /\ C \ {x} = B /\ c \in X /\ X \ {c} = B
        BY <2>1, <3>2
      <4> HIDE DEF X, C, B
      <4>3. Total(w, C) = w[x] + Total(w, B)
        BY <2>3, <4>2 DEF TakesAny
      <4>4. Total(w, X) = w[c] + Total(w, B)
        BY <4>1, <4>2 DEF TakesAny
      <4>5. Total(w, B) \in Nat
        BY <2>3, <4>2 DEF TakesAny
      <4>6. w[c] + Total(w, C) = w[x] + Total(w, X)
        BY <2>3, <4>1, <4>3, <4>4, <4>5
      <4> QED
        BY <2>2, <4>6 DEF X
    <3> QED
      BY <3>1, <3>2
  <2>6. \A x \in S : Total(w, S \ {x}) \in Nat
    BY <1>2 DEF TakesAny
  <2> QED
    BY <2>4, <2>5, <2>6 DEF TakesAny
<1> HIDE DEF Q
<1>3. \A S \in SUBSET T : S \in Q
  BY <1>1, <1>2, Subsets
<1> QED
  BY <1>3 DEF Q

\* A part weighs no more than the whole.
LEMMA TotalOfPart ==
    ASSUME NEW T, IsFiniteSet(T), NEW w, \A x \in T : w[x] \in Nat
    PROVE  \A S \in SUBSET T : \A R \in SUBSET S : Total(w, R) <= Total(w, S)
<1> DEFINE Q == { S \in SUBSET T : \A R \in SUBSET S : Total(w, R) <= Total(w, S) }
<1>1. {} \in Q
  <2>1. \A R \in SUBSET {} : R = {}
    OBVIOUS
  <2>2. Total(w, {}) = 0
    BY TotalUnfolds
  <2> QED
    BY <2>1, <2>2
<1>2. ASSUME NEW S \in SUBSET T, S # {}, \A x \in S : S \ {x} \in Q PROVE S \in Q
  <2> SUFFICES ASSUME NEW R \in SUBSET S PROVE Total(w, R) <= Total(w, S)
    OBVIOUS
  <2>1. TakesAny(w, S)
    BY TotalTakesAny
  <2>2. CASE R = S
    BY <2>1, <2>2 DEF TakesAny
  <2>3. CASE R # S
    <3>1. PICK x \in S : x \notin R
      BY <2>3
    <3>2. R \in SUBSET (S \ {x}) /\ R \in SUBSET T
      BY <3>1
    <3>3. Total(w, R) <= Total(w, S \ {x})
      BY <1>2, <3>1, <3>2
    <3>4. TakesAny(w, R)
      BY <3>2, TotalTakesAny
    <3>5. Total(w, R) \in Nat
      BY <3>4 DEF TakesAny
    <3>6. Total(w, S) = w[x] + Total(w, S \ {x}) /\ w[x] \in Nat /\ Total(w, S \ {x}) \in Nat
      BY <2>1 DEF TakesAny
    <3> QED
      BY <3>3, <3>5, <3>6
  <2> QED
    BY <2>2, <2>3
<1> HIDE DEF Q
<1>3. \A S \in SUBSET T : S \in Q
  BY <1>1, <1>2, Subsets
<1> QED
  BY <1>3 DEF Q

\* A set and its image weigh the same if each element and its image do.
LEMMA TotalOfImage ==
    ASSUME NEW T, IsFiniteSet(T), NEW w, \A x \in T : w[x] \in Nat,
           NEW b, \A x, y \in T : b[x] = b[y] => x = y,
           NEW v, \A x \in T : v[b[x]] = w[x]
    PROVE  Total(w, T) = Total(v, { b[x] : x \in T })
<1> DEFINE I(S) == { b[x] : x \in S }
           Q == { S \in SUBSET T : Total(w, S) = Total(v, I(S)) }
<1>1. {} \in Q
  BY TotalUnfolds, FS_EmptySet
<1>2. ASSUME NEW S \in SUBSET T, S # {}, \A x \in S : S \ {x} \in Q PROVE S \in Q
  <2>1. PICK x \in S : TRUE
    BY <1>2
  <2>2. TakesAny(w, S)
    BY TotalTakesAny
  <2>3. b[x] \in I(S) /\ I(S \ {x}) = I(S) \ {b[x]}
    OBVIOUS
  <2>4. TakesAny(v, I(S))
    <3>1. IsFiniteSet(I(T)) /\ I(S) \in SUBSET I(T)
      <4> DEFINE f == [y \in T |-> b[y]]
      <4>1. f \in Surjection(T, I(T))
        BY DEF Surjection
      <4>2. IsFiniteSet(I(T))
        BY <4>1, FS_Surjection
      <4> QED
        BY <4>2
    <3>2. \A y \in I(T) : v[y] \in Nat
      OBVIOUS
    <3> HIDE DEF I
    <3> QED
      BY <3>1, <3>2, TotalTakesAny
  <2>5. Total(w, S \ {x}) = Total(v, I(S \ {x}))
    BY <1>2
  <2>6. v[b[x]] = w[x]
    OBVIOUS
  <2> HIDE DEF I
  <2>7. Total(w, S) = Total(v, I(S))
    BY <2>2, <2>3, <2>4, <2>5, <2>6 DEF TakesAny
  <2> QED
    BY <2>7
<1> HIDE DEF Q
<1>3. \A S \in SUBSET T : S \in Q
  BY <1>1, <1>2, Subsets
<1> QED
  BY <1>3 DEF Q

-----------------------------------------------------------------------------
(* All elements of what is joined or selected. *)

\* Every element of s, and every one of t, is one of r.
HasBoth(r, s, t) ==
    /\ \A i \in DOMAIN s : \E k \in DOMAIN r : r[k] = s[i]
    /\ \A j \in DOMAIN t : \E k \in DOMAIN r : r[k] = t[j]

LEMMA JoinHasBoth ==
    ASSUME NEW A, NEW s \in Seq(A), NEW t \in Seq(A)
    PROVE  HasBoth(s \o t, s, t)
<1> DEFINE r == s \o t
<1>1. /\ Len(s) \in Nat /\ DOMAIN s = 1..Len(s)
      /\ Len(t) \in Nat /\ DOMAIN t = 1..Len(t)
  OBVIOUS
<1>2. DOMAIN r = 1..(Len(s) + Len(t))
  OBVIOUS
<1>3. ASSUME NEW i \in DOMAIN s PROVE i \in DOMAIN r /\ r[i] = s[i]
  BY <1>1
<1>4. ASSUME NEW j \in DOMAIN t PROVE Len(s) + j \in DOMAIN r /\ r[Len(s) + j] = t[j]
  BY <1>1
<1> HIDE DEF r
<1>5. HasBoth(r, s, t)
  BY <1>3, <1>4 DEF HasBoth
<1> QED
  BY <1>5 DEF r

\* Every element of one of the sequences of s is one of r.
HasEach(r, s, n) == \A i \in 1..n : \A k \in DOMAIN s[i] : \E j \in DOMAIN r : r[j] = s[i][k]

\* What is joined has all elements of what it is made of.
LEMMA FlattenHasEach ==
    ASSUME NEW X, NEW s \in Seq(Seq(X))
    PROVE  FlattenSeq(s) \in Seq(X) /\ HasEach(FlattenSeq(s), s, Len(s))
<1> DEFINE N == Len(s)
           V == Seq(X)
           base == <<>>
           step == [n \in 1..N |-> [v \in V |-> IF n = 1 THEN s[n] ELSE v \o s[n]]]
           Fits(f) == f = [n \in 1..N |-> IF n = 1 THEN s[n] ELSE f[n - 1] \o s[n]]
<1>1. N \in Nat /\ base \in V /\ \A n \in 1..N : s[n] \in V
  OBVIOUS
<1>2. CASE N = 0
  <2>1. s = <<>> /\ FlattenSeq(s) = s
    BY <1>2 DEF FlattenSeq
  <2>2. HasEach(s, s, N)
    BY <1>2 DEF HasEach
  <2>3. <<>> \in Seq(X)
    OBVIOUS
  <2> HIDE DEF N
  <2>4. FlattenSeq(s) \in Seq(X) /\ HasEach(FlattenSeq(s), s, N)
    BY <2>1, <2>2, <2>3
  <2> QED
    BY <2>4 DEF N
<1>3. CASE N # 0
  <2>1. step \in [1..N -> [V -> V]]
    <3>1. \A v \in V, w \in V : v \o w \in V
      OBVIOUS
    <3> HIDE DEF V, N
    <3> QED
      BY <1>1, <3>1
  <2>2. \A n \in 1..N : \A v \in V : step[n][v] = IF n = 1 THEN s[n] ELSE v \o s[n]
    OBVIOUS
  <2> HIDE DEF step, base, V, N
  <2>3. PICK g : Steps(g, N, V, base, step)
    BY <1>1, <2>1, StepByStep
  <2>4. g \in [0..N -> V] /\ \A n \in 1..N : g[n] = step[n][g[n - 1]]
    BY <2>3 DEF Steps
  <2> DEFINE h == [n \in 1..N |-> g[n]]
  <2>5. ASSUME NEW n \in 1..N PROVE h[n] = IF n = 1 THEN s[n] ELSE h[n - 1] \o s[n]
    <3>1. n - 1 \in 0..N /\ g[n - 1] \in V
      BY <1>1, <2>4
    <3>2. g[n] = IF n = 1 THEN s[n] ELSE g[n - 1] \o s[n]
      BY <2>2, <2>4, <3>1
    <3>3. n # 1 => n - 1 \in 1..N
      BY <1>1
    <3>4. h[n] = g[n] /\ (n # 1 => h[n - 1] = g[n - 1])
      BY <3>3
    <3> HIDE DEF h
    <3> QED
      BY <3>2, <3>4
  <2>6. h = [n \in 1..N |-> h[n]]
    OBVIOUS
  <2> HIDE DEF h
  <2>7. Fits(h)
    <3>1. [n \in 1..N |-> h[n]] = [n \in 1..N |-> IF n = 1 THEN s[n] ELSE h[n - 1] \o s[n]]
      BY <2>5, Zenon
    <3> QED
      BY <2>6, <3>1
  <2> DEFINE f == CHOOSE any : Fits(any)
  <2>8. Fits(f)
    <3> HIDE DEF Fits
    <3> QED
      BY <2>7
  <2>9. FlattenSeq(s) = f[N]
    BY <1>3 DEF FlattenSeq, N
  <2> HIDE DEF f
  <2>10. \A n \in 1..N : f[n] = IF n = 1 THEN s[n] ELSE f[n - 1] \o s[n]
    BY <2>8
  <2> HIDE DEF Fits
  <2> DEFINE T == { n \in 0..N : n = 0 \/ (f[n] \in V /\ HasEach(f[n], s, n)) }
  <2>11. 0 \in T
    BY <1>1
  <2>12. ASSUME NEW n \in 0..(N - 1), n \in T PROVE n + 1 \in T
    <3>1. n \in Nat /\ n + 1 \in 1..N /\ n + 1 \in 0..N /\ (n + 1) - 1 = n
      BY <1>1
    <3>2. s[n + 1] \in V
      BY <1>1, <3>1
    <3>3. CASE n = 0
      <4>1. f[n + 1] = s[n + 1] /\ n + 1 = 1
        BY <2>10, <3>1, <3>3
      <4>2. HasEach(f[n + 1], s, n + 1)
        BY <4>1 DEF HasEach
      <4>3. f[n + 1] \in V
        BY <3>2, <4>1
      <4> QED
        BY <3>1, <4>2, <4>3
    <3>4. CASE n # 0
      <4>1. f[n + 1] = f[n] \o s[n + 1]
        <5>1. n + 1 # 1
          BY <3>1, <3>4
        <5>2. f[n + 1] = f[(n + 1) - 1] \o s[n + 1]
          BY <2>10, <3>1, <5>1
        <5> QED
          BY <3>1, <5>2
      <4>2. f[n] \in V /\ HasEach(f[n], s, n)
        BY <2>12, <3>4
      <4>3. f[n + 1] \in V /\ HasBoth(f[n + 1], f[n], s[n + 1])
        BY <3>2, <4>1, <4>2, JoinHasBoth DEF V
      <4>4. HasEach(f[n + 1], s, n + 1)
        <5> SUFFICES ASSUME NEW i \in 1..(n + 1), NEW k \in DOMAIN s[i]
                     PROVE  \E j \in DOMAIN f[n + 1] : f[n + 1][j] = s[i][k]
          BY DEF HasEach
        <5>1. CASE i = n + 1
          BY <4>3, <5>1 DEF HasBoth
        <5>2. CASE i # n + 1
          <6>1. i \in 1..n
            BY <3>1, <5>2
          <6>2. PICK j \in DOMAIN f[n] : f[n][j] = s[i][k]
            BY <4>2, <6>1 DEF HasEach
          <6> QED
            BY <4>3, <6>2 DEF HasBoth
        <5> QED
          BY <5>1, <5>2
      <4> QED
        BY <3>1, <4>3, <4>4
    <3> QED
      BY <3>3, <3>4
  <2> HIDE DEF T
  <2>13. N \in T
    <3>1. \A n \in 0..N : n \in T
      BY <1>1, <2>11, <2>12, UpTo
    <3> QED
      BY <1>1, <3>1
  <2> QED
    BY <1>3, <2>9, <2>13 DEF T, N, V
<1> QED
  BY <1>2, <1>3

\* Each element of s that is in S is one of r.
Keeps(r, s, S) == \A i \in DOMAIN s : s[i] \in S => \E j \in DOMAIN r : r[j] = s[i]

LEMMA SelectionKeeps ==
    ASSUME NEW X, NEW s \in Seq(X), NEW S
    PROVE  Selected(s, S) \in Seq(X) /\ Keeps(Selected(s, S), s, S)
<1> DEFINE r == Selected(s, S)
<1>1. /\ r \in Seq(X)
      /\ \A i \in DOMAIN s : s[i] \in S => \E j \in DOMAIN r : r[j] = s[i]
  BY SelectedElements
<1> HIDE DEF r
<1>2. Keeps(r, s, S)
  BY <1>1 DEF Keeps
<1> QED
  BY <1>1, <1>2 DEF r
=============================================================================
