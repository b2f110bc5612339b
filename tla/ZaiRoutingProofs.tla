------------------------- MODULE ZaiRoutingProofs -------------------------
(***************************************************************************)
(* The theorems about ZaiRouting, for any accounts, plans, reports and     *)
(* answers.  Recursive functions are reasoned about with an induction over *)
(* sets of naturals, from the fact that these have a least element.        *)
(*                                                                         *)
(* That fact and what is needed of the size of a finite set come from the  *)
(* library.  Its theorem modules are large, and every fact in scope costs  *)
(* every step of a proof time; so they are instantiated at the end, where  *)
(* Counts proves these two facts.  The lemmas before take them, under the  *)
(* name Counting, as a hypothesis; the theorems do not.                    *)
(***************************************************************************)
EXTENDS ZaiRouting, TLAPS

---------------------------------------------------------------------------
(* Induction and recursion.                                                *)

(* The meaning of Cardinality, in a name of its own: for the proof system, *)
(* the Cardinality of the instance at the end is another operator than the *)
(* one ZaiRouting extends, and this is what both of them are defined as.   *)
Size(S) == (CHOOSE c : c = [T \in SUBSET S |->
                              IF T = {} THEN 0 ELSE 1 + c[T \ {CHOOSE x : x \in T}]])[S]

(* A nonempty set of naturals has a least element; a set of moments is     *)
(* counted by a natural number, and the present adds one to the others.    *)
Counting ==
  /\ \A T : T \subseteq Nat /\ T # {} => \E x \in T : \A y \in T : x <= y
  /\ \A t \in Nat : \A rate \in SUBSET (0 .. t) :
       /\ Size(rate) \in Nat /\ Size(rate \ {t}) \in Nat
       /\ Size(rate \cup {t}) = Size(rate \ {t}) + 1
       /\ Size(rate) <= Size(rate \cup {t})

(* The least element of a set of naturals.                                 *)
LEMMA Least ==
  ASSUME Counting, NEW T, T \subseteq Nat, T # {}
  PROVE  \E x \in T : \A y \in T : x <= y
BY Zenon DEF Counting

(* Induction over the naturals, for membership in a set.                   *)
LEMMA Induction ==
  ASSUME Counting, NEW S, 0 \in S, \A n \in Nat : n \in S => n + 1 \in S
  PROVE  \A n \in Nat : n \in S
<1> SUFFICES ASSUME NEW m \in Nat, m \notin S PROVE FALSE
  OBVIOUS
<1> DEFINE T == {n \in Nat : n \notin S}
<1>1. PICK x \in T : \A y \in T : x <= y
  BY Zenon, Least
<1>2. x # 0 /\ x - 1 \in Nat
  OBVIOUS
<1>3. x - 1 \in S
  BY <1>1, <1>2
<1> QED BY <1>2, <1>3

(* A function that starts with c and goes on by the steps g.               *)
Stepwise(V, c, n, g) ==
  \E f \in [0..n -> V] : f[0] = c /\ \A i \in 1..n : f[i] = g[i][f[i - 1]]

(* A function that is defined along an interval exists.                    *)
LEMMA Recursion ==
  ASSUME Counting, NEW V, NEW c \in V, NEW n \in Nat, NEW g \in [1..n -> [V -> V]]
  PROVE  Stepwise(V, c, n, g)
<1> DEFINE Upto(m) == \E f \in [0..m -> V] : f[0] = c /\ \A i \in 1..m : f[i] = g[i][f[i - 1]]
           S == {m \in Nat : m <= n => Upto(m)}
<1>1. 0 \in S
  <2> DEFINE z == [i \in 0..0 |-> c]
  <2>1. z \in [0..0 -> V] /\ z[0] = c /\ \A i \in 1..0 : z[i] = g[i][z[i - 1]]
    OBVIOUS
  <2> HIDE DEF z
  <2>2. Upto(0)
    BY <2>1
  <2> QED BY <2>2
<1>2. ASSUME NEW m \in Nat, m \in S PROVE m + 1 \in S
  <2> SUFFICES ASSUME m + 1 <= n PROVE Upto(m + 1)
    OBVIOUS
  <2>1. PICK f \in [0..m -> V] : f[0] = c /\ \A i \in 1..m : f[i] = g[i][f[i - 1]]
    BY <1>2
  <2> DEFINE h == [i \in 0..(m + 1) |-> IF i <= m THEN f[i] ELSE g[m + 1][f[m]]]
  <2>2. m + 1 \in 1..n /\ f[m] \in V
    OBVIOUS
  <2>3. g[m + 1][f[m]] \in V
    BY <2>2
  <2>4. h \in [0..(m + 1) -> V]
    BY <2>3
  <2>5. h[0] = c
    BY <2>1
  <2>6. ASSUME NEW i \in 1..(m + 1) PROVE h[i] = g[i][h[i - 1]]
    <3>1. CASE i <= m
      BY <2>1, <3>1
    <3>2. CASE i = m + 1
      BY <3>2
    <3> QED BY <3>1, <3>2
  <2> HIDE DEF h
  <2> QED BY <2>4, <2>5, <2>6
<1> HIDE DEF S
<1>3. n \in S
  BY <1>1, <1>2, Induction
<1> QED BY <1>3 DEF S, Stepwise

(* The first of a set of positions.                                        *)
LEMMA First ==
  ASSUME Counting, NEW n \in Nat, NEW T \in SUBSET (1..n), T # {}
  PROVE  LET i == CHOOSE i \in T : \A j \in T : i <= j
         IN i \in T /\ \A j \in T : i <= j
<1>1. T \subseteq Nat
  OBVIOUS
<1>2. \E i \in T : \A j \in T : i <= j
  BY Zenon, <1>1, Least
<1> QED BY Zenon, <1>2

---------------------------------------------------------------------------
(* The windows.                                                            *)

Records == {d[2].record : d \in Deliveries}

Event == [at : Nat \ {0}, credits : Nat \ {0}, record : Records]

InOrder(events) == \A i, j \in DOMAIN events : i <= j => events[i].at <= events[j].at

(* An element of a ledger.                                                 *)
LEMMA EventParts ==
  ASSUME NEW events \in Seq(Event)
  PROVE  /\ Len(events) \in Nat /\ DOMAIN events = 1 .. Len(events)
         /\ \A i \in 1 .. Len(events) : events[i].at \in Nat /\ events[i].at > 0
                                        /\ events[i].credits \in Nat /\ events[i].credits > 0
<1>1. Len(events) \in Nat /\ DOMAIN events = 1 .. Len(events)
  OBVIOUS
<1>2. \A i \in 1 .. Len(events) : events[i] \in Event
  OBVIOUS
<1> QED BY <1>1, <1>2 DEF Event

(* The running sums of what is used of a window.                           *)
Sums(s, events, from, to) ==
  /\ events \in Seq(Event) /\ s \in [0 .. Len(events) -> Nat]
  /\ s[0] = 0
  /\ \A i \in 1 .. Len(events) :
       s[i] = s[i - 1] + (IF events[i].at > from /\ events[i].at <= to THEN events[i].credits ELSE 0)
  /\ Used(events, from, to) = s[Len(events)]

(* Used has running sums.                                                  *)
LEMMA UsedSum ==
  ASSUME Counting, NEW events \in Seq(Event), NEW from \in Int, NEW to \in Int
  PROVE  \E s : Sums(s, events, from, to)
<1> DEFINE n == Len(events)
           Is(s) == s = [i \in 0 .. n |-> IF i = 0 THEN 0
                          ELSE s[i - 1] + IF events[i].at > from /\ events[i].at <= to THEN events[i].credits ELSE 0]
           g == [i \in 1..n |-> [v \in Nat |-> v + (IF events[i].at > from /\ events[i].at <= to THEN events[i].credits ELSE 0)]]
<1>1. n \in Nat /\ 0 \in Nat /\ \A i \in 1..n : events[i].credits \in Nat
  BY EventParts
<1>2. \A i \in 1..n : \A v \in Nat :
        v + (IF events[i].at > from /\ events[i].at <= to THEN events[i].credits ELSE 0) \in Nat
  <2> HIDE DEF n
  <2> QED BY <1>1
<1>3. g \in [1..n -> [Nat -> Nat]]
  <2> HIDE DEF n
  <2> QED BY Zenon, <1>2
<1>4. PICK f \in [0..n -> Nat] : f[0] = 0 /\ \A i \in 1..n : f[i] = g[i][f[i - 1]]
  <2> HIDE DEF g, n
  <2>1. 0 \in Nat /\ n \in Nat /\ g \in [1..n -> [Nat -> Nat]]
    BY Zenon, <1>1, <1>3
  <2>2. Stepwise(Nat, 0, n, g)
    BY Zenon, <2>1, Recursion
  <2> QED BY Zenon, <2>2 DEF Stepwise
<1>5. \A i \in 1..n : f[i] = f[i - 1] + (IF events[i].at > from /\ events[i].at <= to THEN events[i].credits ELSE 0)
  <2> SUFFICES ASSUME NEW i \in 1..n PROVE f[i] = f[i - 1] + (IF events[i].at > from /\ events[i].at <= to THEN events[i].credits ELSE 0)
    OBVIOUS
  <2>1. f[i - 1] \in Nat
    BY <1>1
  <2> HIDE DEF n
  <2> QED BY Zenon, <1>4, <2>1
<1>6. Is(f)
  <2> HIDE DEF n
  <2> QED BY <1>1, <1>4, <1>5
<1>7. Used(events, from, to) = (CHOOSE s : Is(s))[n]
  BY DEF Used
<1> DEFINE s == CHOOSE s : Is(s)
<1>8. Is(s)
  <2> HIDE DEF Is
  <2> QED BY Zenon, <1>6
<1> HIDE DEF s
<1>9. s[0] = 0 /\ \A i \in 1..n : s[i] = s[i - 1] + (IF events[i].at > from /\ events[i].at <= to THEN events[i].credits ELSE 0)
  <2>1. 0 \in 0..n /\ \A i \in 1..n : i \in 0..n /\ i # 0
    BY <1>1
  <2> HIDE DEF n
  <2>2. s[0] = 0
    BY <1>8, <2>1
  <2>3. \A i \in 1..n : s[i] = s[i - 1] + (IF events[i].at > from /\ events[i].at <= to THEN events[i].credits ELSE 0)
    BY Zenon, <1>8, <2>1
  <2> QED BY <2>2, <2>3
<1>10. \A i \in 0..n : s[i] \in Nat
  <2> DEFINE S == {i \in Nat : i <= n => s[i] \in Nat}
  <2>1. 0 \in S
    BY <1>1, <1>9
  <2>2. ASSUME NEW i \in Nat, i \in S PROVE i + 1 \in S
    <3> SUFFICES ASSUME i + 1 <= n PROVE s[i + 1] \in Nat
      OBVIOUS
    <3>1. s[i] \in Nat /\ i + 1 \in 1..n /\ (i + 1) - 1 = i
      BY <1>1, <2>2
    <3> HIDE DEF n
    <3>2. s[i + 1] = s[i] + (IF events[i + 1].at > from /\ events[i + 1].at <= to THEN events[i + 1].credits ELSE 0)
      BY <1>9, <3>1
    <3> QED BY Zenon, <1>2, <3>1, <3>2
  <2>3. \A i \in Nat : i \in S
    <3> HIDE DEF S
    <3> QED BY <2>1, <2>2, Induction
  <2> QED BY <1>1, <2>3
<1>11. s = [i \in 0..n |-> s[i]]
  <2> HIDE DEF n
  <2> QED BY <1>8
<1>12. s \in [0..n -> Nat]
  <2> HIDE DEF n
  <2> QED BY <1>10, <1>11
<1>13. Used(events, from, to) = s[n]
  BY <1>7 DEF s
<1> QED BY Zenon, <1>9, <1>12, <1>13 DEF Sums

(* What the estimator takes for consumed is the exact use, or the largest  *)
(* amount there is if the use is larger.                                   *)
LEMMA ConsumedUsed ==
  ASSUME Counting, NEW ledger \in Seq(Event), NEW time \in Nat, NEW span \in Nat
  PROVE  /\ Consumed(ledger, time, span) \in Nat
         /\ Used(ledger, time - span, time) \in Nat
         /\ Consumed(ledger, time, span) <= Used(ledger, time - span, time)
         /\ Consumed(ledger, time, span) = Used(ledger, time - span, time) \/ Consumed(ledger, time, span) = MaxCredits
  (* Adding credits stays within the naturals and within the limit. *)
<1>SaturatingType. ASSUME NEW v \in Nat, NEW c \in Nat
     PROVE  /\ saturatingAdd(v, c) \in Nat
            /\ v <= MaxCredits => saturatingAdd(v, c) <= MaxCredits
            /\ saturatingAdd(v, c) <= v + c
            /\ saturatingAdd(v, c) = v + c \/ saturatingAdd(v, c) = MaxCredits
  <2> USE <1>SaturatingType
  <2>1. MaxCredits \in Nat
    BY QuotaWindowsAssumption
  <2> QED BY <2>1 DEF saturatingAdd
  (* The running sums of Consumed. *)
<1>ConsumedSum. ASSUME NEW events \in Seq(Event), NEW t \in Nat, NEW d \in Nat
     PROVE  \E sum \in [0 .. Len(events) -> Nat] :
              /\ sum[0] = 0
              /\ \A i \in 1 .. Len(events) :
                   sum[i] = IF Active(events[i], t, d) THEN saturatingAdd(sum[i - 1], events[i].credits) ELSE sum[i - 1]
              /\ Consumed(events, t, d) = sum[Len(events)]
  <2> USE <1>ConsumedSum
  <2> DEFINE n == Len(events)
             on(i) == Active(events[i], t, d)
             Is(s) == s = [i \in 0 .. n |-> IF i = 0 THEN 0
                            ELSE IF on(i) THEN saturatingAdd(s[i - 1], events[i].credits) ELSE s[i - 1]]
             g == [i \in 1..n |-> [v \in Nat |-> IF on(i) THEN saturatingAdd(v, events[i].credits) ELSE v]]
  <2>1. n \in Nat /\ \A i \in 1..n : events[i].credits \in Nat
    BY EventParts
  <2>2. \A i \in 1..n : \A v \in Nat : (IF on(i) THEN saturatingAdd(v, events[i].credits) ELSE v) \in Nat
    <3> HIDE DEF on, n
    <3> QED BY Zenon, <2>1, <1>SaturatingType
  <2>3. g \in [1..n -> [Nat -> Nat]]
    <3> HIDE DEF on, n
    <3> QED BY Zenon, <2>2
  <2>4. PICK f \in [0..n -> Nat] : f[0] = 0 /\ \A i \in 1..n : f[i] = g[i][f[i - 1]]
    <3> HIDE DEF g, n
    <3>1. 0 \in Nat /\ n \in Nat /\ g \in [1..n -> [Nat -> Nat]]
      BY <2>1, <2>3
    <3>2. Stepwise(Nat, 0, n, g)
      BY Zenon, <3>1, Recursion
    <3> QED BY Zenon, <3>2 DEF Stepwise
  <2>5. \A i \in 1..n : f[i] = IF on(i) THEN saturatingAdd(f[i - 1], events[i].credits) ELSE f[i - 1]
    <3> SUFFICES ASSUME NEW i \in 1..n PROVE f[i] = IF on(i) THEN saturatingAdd(f[i - 1], events[i].credits) ELSE f[i - 1]
      OBVIOUS
    <3>1. f[i - 1] \in Nat
      <4> HIDE DEF on, n, g
      <4>1. i - 1 \in 0 .. n
        BY <2>1
      <4> QED BY Zenon, <2>4, <4>1
    <3> HIDE DEF on, n
    <3> QED BY Zenon, <2>4, <3>1
  <2>6. Is(f)
    <3> HIDE DEF on, n
    <3> QED BY <2>1, <2>4, <2>5
  <2>7. Consumed(events, t, d) = (CHOOSE s : Is(s))[n]
    BY DEF Consumed
  <2> DEFINE s == CHOOSE s : Is(s)
  <2>8. Is(s)
    <3> HIDE DEF Is
    <3> QED BY Zenon, <2>6
  <2> HIDE DEF s
  <2>9. s[0] = 0 /\ \A i \in 1..n : s[i] = IF on(i) THEN saturatingAdd(s[i - 1], events[i].credits) ELSE s[i - 1]
    <3> HIDE DEF on, n
    <3> QED BY <2>1, <2>8
  <2>10. DOMAIN s = 0..n
    <3> HIDE DEF on, n
    <3> QED BY <2>8
  <2>11. \A i \in 0..n : s[i] \in Nat
    <3> DEFINE S == {i \in Nat : i <= n => s[i] \in Nat}
    <3>1. 0 \in S
      BY <2>9
    <3>2. ASSUME NEW i \in Nat, i \in S PROVE i + 1 \in S
      <4> SUFFICES ASSUME i + 1 <= n PROVE s[i + 1] \in Nat
        OBVIOUS
      <4>1. s[i] \in Nat /\ i + 1 \in 1..n /\ (i + 1) - 1 = i
        BY <2>1, <3>2
      <4> HIDE DEF on, n
      <4>2. s[i + 1] = IF on(i + 1) THEN saturatingAdd(s[i], events[i + 1].credits) ELSE s[i]
        BY <2>9, <4>1
      <4> QED BY Zenon, <2>2, <4>1, <4>2
    <3>3. \A i \in Nat : i \in S
      <4> HIDE DEF S
      <4> QED BY <3>1, <3>2, Induction
    <3> QED BY <2>1, <3>3
  <2>12. s = [i \in 0..n |-> s[i]]
    <3> HIDE DEF on, n
    <3> QED BY <2>8
  <2>13. s \in [0..n -> Nat]
    <3> HIDE DEF on, n
    <3> QED BY <2>11, <2>12
  <2>14. Consumed(events, t, d) = s[n]
    BY <2>7 DEF s
  <2> QED BY Zenon, <2>9, <2>13, <2>14
<1> DEFINE n == Len(ledger)
           on(i) == Active(ledger[i], time, span)
<1>1. n \in Nat /\ \A i \in 1..n : ledger[i].credits \in Nat
  BY EventParts
<1>2. PICK f \in [0 .. n -> Nat] :
           /\ f[0] = 0
           /\ \A i \in 1 .. n : f[i] = IF on(i) THEN saturatingAdd(f[i - 1], ledger[i].credits) ELSE f[i - 1]
           /\ Consumed(ledger, time, span) = f[n]
  BY Zenon, <1>ConsumedSum
<1>3. time - span \in Int /\ time \in Int
  OBVIOUS
<1>4. PICK k :
           /\ k \in [0 .. n -> Nat] /\ k[0] = 0
           /\ \A i \in 1 .. n :
                k[i] = k[i - 1] + (IF ledger[i].at > time - span /\ ledger[i].at <= time THEN ledger[i].credits ELSE 0)
           /\ Used(ledger, time - span, time) = k[n]
  BY Zenon, <1>3, UsedSum DEF Sums
<1>5. \A i \in 1 .. n : k[i] = k[i - 1] + (IF on(i) THEN ledger[i].credits ELSE 0)
  BY <1>4 DEF Active
<1> HIDE DEF on, n
<1> DEFINE S == {i \in Nat : i <= n => f[i] <= k[i] /\ (f[i] = k[i] \/ f[i] = MaxCredits)}
<1>6. 0 \in S
  BY <1>2, <1>4
<1>7. ASSUME NEW i \in Nat, i \in S PROVE i + 1 \in S
  <2> SUFFICES ASSUME i + 1 <= n
               PROVE  f[i + 1] <= k[i + 1] /\ (f[i + 1] = k[i + 1] \/ f[i + 1] = MaxCredits)
    OBVIOUS
  <2>1. i + 1 \in 1..n /\ (i + 1) - 1 = i /\ i \in 0..n /\ i + 1 \in 0..n
    BY <1>1
  <2>2. f[i] \in Nat /\ k[i] \in Nat /\ ledger[i + 1].credits \in Nat /\ MaxCredits \in Nat
    BY Zenon, <1>1, <1>4, <2>1, QuotaWindowsAssumption
  <2>3. f[i] <= k[i] /\ (f[i] = k[i] \/ f[i] = MaxCredits)
    BY <1>1, <1>7, <2>1
  <2>4. f[i + 1] = IF on(i + 1) THEN saturatingAdd(f[i], ledger[i + 1].credits) ELSE f[i]
    BY <1>2, <2>1
  <2>5. k[i + 1] = k[i] + (IF on(i + 1) THEN ledger[i + 1].credits ELSE 0)
    BY <1>5, <2>1
  <2>6. CASE on(i + 1)
    <3>1. f[i + 1] = saturatingAdd(f[i], ledger[i + 1].credits) /\ k[i + 1] = k[i] + ledger[i + 1].credits
      BY <2>4, <2>5, <2>6
    <3> QED BY <2>2, <2>3, <3>1 DEF saturatingAdd
  <2>7. CASE ~on(i + 1)
    BY <2>2, <2>3, <2>4, <2>5, <2>7
  <2> QED BY <2>6, <2>7
<1>8. n \in S
  <2> HIDE DEF S
  <2> QED BY Zenon, <1>1, <1>6, <1>7, Induction
<1> QED BY <1>1, <1>2, <1>4, <1>8 DEF n

(* The two-step threshold of the code is the exact one, rounded down.      *)
LEMMA ThresholdExact ==
  ASSUME NEW consumed \in Nat, NEW bucket \in Nat
  PROVE  /\ atOrAboveThreshold(consumed, bucket) <=> Reaches(consumed, bucket)
         /\ ~atOrAboveThreshold(consumed, bucket) => consumed < bucket
<1> DEFINE b == bucket \div 100
           m == bucket % 100
           x == b * Threshold
           y == m * Threshold
           z == y \div 100
<1>1. Threshold \in Nat /\ Threshold > 0 /\ Threshold <= 100
  BY QuotaWindowsAssumption
<1>2. b \in Nat /\ m \in Nat /\ m < 100 /\ bucket = 100 * b + m
  OBVIOUS
<1> HIDE DEF b, m
<1>3. x \in Nat /\ y \in Nat /\ bucket * Threshold = 100 * x + y
  BY <1>1, <1>2
<1>4. x <= 100 * b /\ y <= 100 * m
  <2>1. \A u, v, w \in Nat : v <= w => u * v <= u * w
    OBVIOUS
  <2> QED BY <1>1, <1>2, <2>1
<1> HIDE DEF x, y
<1>5. z \in Nat /\ 100 * z <= y /\ y < 100 * z + 100
  BY <1>3
<1> HIDE DEF z
<1>6. atOrAboveThreshold(consumed, bucket) <=> bucket <= 0 \/ consumed >= x + z
  BY DEF atOrAboveThreshold, b, m, x, y, z
<1>7. Reaches(consumed, bucket) <=> 100 * (consumed + 1) > 100 * x + y
  BY <1>3 DEF Reaches
<1>8. x <= bucket /\ x + z <= bucket
  <2>1. x <= b * 100
    BY <1>2, <1>4
  <2>2. 100 * z <= 100 * m
    BY <1>2, <1>3, <1>4, <1>5
  <2> QED BY <1>2, <1>3, <1>5, <2>1, <2>2
<1>9. bucket <= 0 => x = 0 /\ y = 0
  <2>1. ASSUME bucket <= 0 PROVE b = 0 /\ m = 0
    BY <1>2, <2>1
  <2> QED BY <1>1, <2>1 DEF x, y
<1> QED BY <1>3, <1>5, <1>6, <1>7, <1>8, <1>9

(* More use reaches what less use reaches.                                 *)
LEMMA ReachesMore ==
  ASSUME NEW u \in Nat, NEW v \in Nat, NEW bucket \in Nat, u <= v, Reaches(u, bucket)
  PROVE  Reaches(v, bucket)
<1>1. bucket * Threshold \in Nat
  BY QuotaWindowsAssumption
<1> DEFINE p == bucket * Threshold
<1> HIDE DEF p
<1> QED BY <1>1 DEF Reaches, p

(* The estimate is at its threshold if and only if the exact use is.       *)
LEMMA EstimateExact ==
  ASSUME Counting, NEW events \in Seq(Event), NEW t \in Nat, NEW d \in Nat, NEW size \in 0 .. MaxCredits
  PROVE  atOrAboveThreshold(Consumed(events, t, d), size) <=> Reaches(Used(events, t - d, t), size)
<1> DEFINE c == Consumed(events, t, d)
           u == Used(events, t - d, t)
<1>1. c \in Nat /\ u \in Nat /\ c <= u /\ (c = u \/ c = MaxCredits)
  BY Zenon, ConsumedUsed
<1>2. size \in Nat /\ size <= MaxCredits /\ MaxCredits \in Nat
  BY QuotaWindowsAssumption
<1> HIDE DEF c, u
<1>3. /\ atOrAboveThreshold(c, size) <=> Reaches(c, size)
      /\ ~atOrAboveThreshold(c, size) => c < size
  BY <1>1, <1>2, ThresholdExact
<1>4. Reaches(c, size) => Reaches(u, size)
  BY <1>1, <1>2, ReachesMore
<1>5. c < size => c = u
  BY <1>1, <1>2
<1> QED BY Zenon, <1>3, <1>4, <1>5 DEF c, u

(* Between two places a sum grows by no more than another at each step.    *)
Slower(f, g, k, m) == \A i \in k + 1 .. m : f[i] - f[i - 1] <= g[i] - g[i - 1]

(* What remains of the use c when the sums p have left.                    *)
Rests(r, events, c, p) == \A i \in 0 .. Len(events) : r[i] = c - p[i]

(* A ledger without events from the future.                                *)
Past(events, t) ==
  events \in Seq(Event) /\ InOrder(events) /\ \A i \in DOMAIN events : events[i].at <= t

(* What EstimateResetExact says of one window of a ledger.                 *)
Exact(events, t, d, bucket) ==
  LET estimate == estimatedWindow(events, t, d, bucket)
      over(u) == Reaches(Used(events, u - d, u), bucket)
  IN IF over(t)
     THEN /\ estimate.resets > t
          /\ ~over(estimate.resets)
          /\ \A u \in t .. estimate.resets - 1 : over(u)
     ELSE estimate.resets = NoTime

(* The estimate of a window that is not saturated is exact.                *)
LEMMA ResetExact ==
  ASSUME Counting, NEW ledger, NEW time \in Nat, NEW span \in Nat, Past(ledger, time),
         NEW bucket \in 0 .. MaxCredits, ~Reaches(0, bucket), Used(ledger, time - span, time) <= MaxCredits
  PROVE  Exact(ledger, time, span, bucket)
  (* Such a sum grows by no more between the two places. *)
<1>SumsCompare. ASSUME NEW n \in Nat, NEW k \in 0 .. n, NEW m \in k .. n,
            NEW f \in [0 .. n -> Nat], NEW g \in [0 .. n -> Nat],
            Slower(f, g, k, m)
     PROVE  f[m] - f[k] <= g[m] - g[k]
  <2> USE <1>SumsCompare
  <2> DEFINE S == {j \in Nat : k + j <= m => f[k + j] - f[k] <= g[k + j] - g[k]}
  <2>1. 0 \in S
    OBVIOUS
  <2>2. ASSUME NEW j \in Nat, j \in S PROVE j + 1 \in S
    <3> SUFFICES ASSUME k + (j + 1) <= m PROVE f[k + (j + 1)] - f[k] <= g[k + (j + 1)] - g[k]
      OBVIOUS
    <3>0. k + j <= m
      OBVIOUS
    <3>1. f[k + j] - f[k] <= g[k + j] - g[k]
      BY Zenon, <2>2, <3>0
    <3> DEFINE i == k + (j + 1)
    <3>2. i \in k + 1 .. m /\ i - 1 = k + j /\ k + j \in 0 .. n /\ i \in 0 .. n
      OBVIOUS
    <3> HIDE DEF i
    <3>3. f[i] - f[i - 1] <= g[i] - g[i - 1]
      BY Zenon, <3>2 DEF Slower
    <3>4. /\ f[i] \in Nat /\ f[k + j] \in Nat /\ f[k] \in Nat
          /\ g[i] \in Nat /\ g[k + j] \in Nat /\ g[k] \in Nat
      BY <3>2
    <3>5. f[i] - f[k + j] <= g[i] - g[k + j]
      BY Zenon, <3>2, <3>3
    <3> DEFINE x == f[i]
               y == f[k + j]
               z == f[k]
               u == g[i]
               v == g[k + j]
               w == g[k]
    <3>6. /\ x \in Nat /\ y \in Nat /\ z \in Nat /\ u \in Nat /\ v \in Nat /\ w \in Nat
          /\ x - y <= u - v /\ y - z <= v - w
      BY Zenon, <3>1, <3>4, <3>5
    <3> HIDE DEF x, y, z, u, v, w
    <3>7. x - z <= u - w
      BY <3>6
    <3> QED BY Zenon, <3>7 DEF i, x, z, u, w
  <2>3. m - k \in S
    <3>1. m - k \in Nat
      OBVIOUS
    <3> HIDE DEF S
    <3> QED BY Zenon, <2>1, <2>2, <3>1, Induction
  <2> QED BY <2>3
  (* What remains of a use that is not saturated: what the events after the  *)
  (* first i use.                                                            *)
<1>RemainingExact. ASSUME NEW events, NEW t \in Nat, NEW d \in Nat, NEW p, Sums(p, events, t - d, t), NEW c \in Nat
     PROVE  Rests(Remaining(c, events, t, d), events, c, p)
  <2> USE <1>RemainingExact
  <2> DEFINE n == Len(events)
             on(i) == Active(events[i], t, d)
             Is(s) == s = [i \in 0 .. n |-> IF i = 0 THEN c
                            ELSE IF on(i) THEN s[i - 1] - events[i].credits ELSE s[i - 1]]
             q == [i \in 0 .. n |-> c - p[i]]
             r == Remaining(c, events, t, d)
  <2>1. n \in Nat /\ \A i \in 1 .. n : events[i].credits \in Nat
    BY EventParts DEF Sums
  <2>2. /\ p \in [0 .. n -> Nat] /\ p[0] = 0
        /\ \A i \in 1 .. n : p[i] = p[i - 1] + (IF on(i) THEN events[i].credits ELSE 0)
    BY DEF Sums, Active
  <2>3. r = CHOOSE s : Is(s)
    BY DEF Remaining
  <2> HIDE DEF on, n
  <2>4. \A i \in 1 .. n : q[i] = IF on(i) THEN q[i - 1] - events[i].credits ELSE q[i - 1]
    <3> SUFFICES ASSUME NEW i \in 1 .. n PROVE q[i] = IF on(i) THEN q[i - 1] - events[i].credits ELSE q[i - 1]
      BY Zenon
    <3>1. i \in 0 .. n /\ i - 1 \in 0 .. n
      BY <2>1
    <3>2. q[i] = c - p[i] /\ q[i - 1] = c - p[i - 1] /\ p[i] \in Nat /\ p[i - 1] \in Nat
      BY <2>2, <3>1
    <3>3. p[i] = p[i - 1] + (IF on(i) THEN events[i].credits ELSE 0) /\ events[i].credits \in Nat
      BY Zenon, <2>1, <2>2
    <3> HIDE DEF q
    <3> QED BY <3>2, <3>3
  <2>5. Is(q)
    <3>1. q[0] = c
      BY <2>1, <2>2
    <3>2. q = [i \in 0 .. n |-> q[i]]
      OBVIOUS
    <3> HIDE DEF q
    <3>3. \A i \in 0 .. n : q[i] = IF i = 0 THEN c ELSE IF on(i) THEN q[i - 1] - events[i].credits ELSE q[i - 1]
      <4>1. \A i \in 0 .. n : i # 0 => i \in 1 .. n
        BY <2>1
      <4> QED BY Zenon, <2>4, <3>1, <4>1
    <3> QED BY Zenon, <3>2, <3>3
  <2>6. Is(r)
    <3> HIDE DEF Is
    <3> QED BY Zenon, <2>3, <2>5
  <2> HIDE DEF r
  <2>7. r[0] = c /\ \A i \in 1 .. n : r[i] = IF on(i) THEN r[i - 1] - events[i].credits ELSE r[i - 1]
    <3>1. 0 \in 0 .. n /\ \A i \in 1 .. n : i \in 0 .. n /\ i # 0
      BY <2>1
    <3> QED BY Zenon, <2>6, <3>1
  <2> DEFINE S == {i \in Nat : i <= n => r[i] = c - p[i]}
  <2>8. 0 \in S
    BY <2>2, <2>7
  <2>9. ASSUME NEW i \in Nat, i \in S PROVE i + 1 \in S
    <3> SUFFICES ASSUME i + 1 <= n PROVE r[i + 1] = c - p[i + 1]
      OBVIOUS
    <3>1. i + 1 \in 1 .. n /\ (i + 1) - 1 = i /\ i \in 0 .. n
      BY <2>1
    <3>2. r[i] = c - p[i] /\ p[i] \in Nat /\ events[i + 1].credits \in Nat
      BY <2>1, <2>2, <2>9, <3>1
    <3>3. r[i + 1] = IF on(i + 1) THEN r[i] - events[i + 1].credits ELSE r[i]
      BY <2>7, <3>1
    <3>4. p[i + 1] = p[i] + (IF on(i + 1) THEN events[i + 1].credits ELSE 0)
      BY <2>2, <3>1
    <3> QED BY <3>2, <3>3, <3>4
  <2>10. \A i \in Nat : i \in S
    <3> HIDE DEF S
    <3> QED BY <2>8, <2>9, Induction
  <2>11. \A i \in 0 .. n : r[i] = c - p[i]
    BY <2>1, <2>10
  <2> QED BY Zenon, <2>11 DEF r, n, Rests
<1> DEFINE n == Len(ledger)
           c == Consumed(ledger, time, span)
           r == Remaining(c, ledger, time, span)
           below == {i \in DOMAIN ledger : Active(ledger[i], time, span) /\ ~atOrAboveThreshold(r[i], bucket)}
           first == CHOOSE i \in below : \A j \in below : i <= j
           resets == estimatedWindow(ledger, time, span, bucket).resets
           zero == [i \in 0 .. n |-> 0]
<1>1. /\ n \in Nat /\ DOMAIN ledger = 1 .. n /\ bucket \in Nat
      /\ \A i \in 1 .. n : ledger[i].at \in Nat /\ ledger[i].at <= time /\ ledger[i].credits \in Nat
      /\ \A i, j \in 1 .. n : i <= j => ledger[i].at <= ledger[j].at
  <2>1. n \in Nat /\ DOMAIN ledger = 1 .. n /\ \A i \in 1 .. n : ledger[i].at \in Nat /\ ledger[i].credits \in Nat
    BY EventParts DEF Past
  <2>2. bucket \in Nat
    BY QuotaWindowsAssumption
  <2> QED BY Zenon, <2>1, <2>2 DEF InOrder, Past
<1>2. c \in Nat /\ Used(ledger, time - span, time) = c
  <2>1. /\ c \in Nat /\ Used(ledger, time - span, time) \in Nat
        /\ c <= Used(ledger, time - span, time)
        /\ c = Used(ledger, time - span, time) \/ c = MaxCredits
    BY Zenon, ConsumedUsed DEF Past
  <2>2. MaxCredits \in Nat
    BY QuotaWindowsAssumption
  <2> HIDE DEF c
  <2> QED BY <2>1, <2>2
<1>3. resets = IF atOrAboveThreshold(c, bucket) /\ below # {} THEN ledger[first].at + span ELSE NoTime
  <2> DEFINE w == [consumed |-> c, bucket |-> bucket,
                   resets |-> IF atOrAboveThreshold(c, bucket) /\ below # {} THEN ledger[first].at + span ELSE NoTime]
  <2>1. estimatedWindow(ledger, time, span, bucket) = w
    BY Zenon DEF estimatedWindow
  <2>2. w.resets = IF atOrAboveThreshold(c, bucket) /\ below # {} THEN ledger[first].at + span ELSE NoTime
    <3> HIDE DEF c, below, first
    <3> QED OBVIOUS
  <2> HIDE DEF c, below, first
  <2> QED BY Zenon, <2>1, <2>2
<1> HIDE DEF c
<1>4. \A i \in 1 .. n : Active(ledger[i], time, span) <=> ledger[i].at > time - span
  BY <1>1 DEF Active
<1>5. PICK p : Sums(p, ledger, time - span, time)
  BY UsedSum DEF Past
<1>6. /\ p \in [0 .. n -> Nat] /\ p[0] = 0 /\ p[n] = c
      /\ \A i \in 1 .. n : p[i] = p[i - 1] + (IF ledger[i].at > time - span THEN ledger[i].credits ELSE 0)
  <2>1. /\ p \in [0 .. n -> Nat] /\ p[0] = 0 /\ p[n] = c
        /\ \A i \in 1 .. n :
             p[i] = p[i - 1] + (IF ledger[i].at > time - span /\ ledger[i].at <= time THEN ledger[i].credits ELSE 0)
    BY Zenon, <1>2, <1>5 DEF Sums
  <2> QED BY Zenon, <1>1, <2>1
<1>7. \A i \in 0 .. n : r[i] = c - p[i]
  <2>1. Rests(r, ledger, c, p)
    BY Zenon, <1>2, <1>5, <1>RemainingExact
  <2> QED BY Zenon, <2>1 DEF Rests
<1> HIDE DEF r, first, below, resets, n
<1>8. zero \in [0 .. n -> Nat] /\ \A i \in 0 .. n : zero[i] = 0
  OBVIOUS
<1>9. \A i \in 1 .. n : i \in 0 .. n /\ i - 1 \in 0 .. n
  BY <1>1
<1> HIDE DEF zero
<1>10. ASSUME NEW k \in 0 .. n
       PROVE  p[k] \in Nat /\ p[k] <= c /\ c - p[k] \in Nat
  <2>1. Slower(zero, p, k, n)
    <3> SUFFICES ASSUME NEW i \in k + 1 .. n PROVE zero[i] - zero[i - 1] <= p[i] - p[i - 1]
      BY Zenon DEF Slower
    <3>1. i \in 1 .. n
      BY <1>1
    <3>2. zero[i] = 0 /\ zero[i - 1] = 0 /\ p[i] \in Nat /\ p[i - 1] \in Nat
      BY Zenon, <1>6, <1>8, <1>9, <3>1
    <3>3. p[i] = p[i - 1] + (IF ledger[i].at > time - span THEN ledger[i].credits ELSE 0) /\ ledger[i].credits \in Nat
      BY Zenon, <1>1, <1>6, <3>1
    <3> QED BY <3>2, <3>3
  <2>2. n \in Nat /\ n \in k .. n /\ n \in 0 .. n
    BY <1>1
  <2>3. zero[n] - zero[k] <= p[n] - p[k]
    BY Zenon, <1>6, <1>8, <2>1, <2>2, <1>SumsCompare
  <2>4. zero[n] = 0 /\ zero[k] = 0 /\ p[n] = c /\ p[k] \in Nat
    BY <1>6, <1>8, <2>2
  <2> QED BY <1>2, <2>3, <2>4
<1>11. ASSUME NEW k \in 0 .. n, NEW s, s \in [0 .. n -> Nat], s[0] = 0, \A i \in 1 .. k : s[i] = s[i - 1]
       PROVE  s[k] = 0
  <2>1. Slower(s, zero, 0, k)
    <3> SUFFICES ASSUME NEW i \in 0 + 1 .. k PROVE s[i] - s[i - 1] <= zero[i] - zero[i - 1]
      BY Zenon DEF Slower
    <3>1. i \in 1 .. n /\ i \in 1 .. k
      BY <1>1
    <3>2. zero[i] = 0 /\ zero[i - 1] = 0 /\ s[i] \in Nat
      BY <1>8, <1>9, <1>11, <3>1
    <3>3. s[i] = s[i - 1]
      BY Zenon, <1>11, <3>1
    <3> QED BY <3>2, <3>3
  <2>2. n \in Nat /\ 0 \in 0 .. n /\ k \in 0 .. n
    BY <1>1
  <2>3. s[k] - s[0] <= zero[k] - zero[0]
    BY Zenon, <1>8, <1>11, <2>1, <2>2, <1>SumsCompare
  <2>4. zero[k] = 0 /\ zero[0] = 0 /\ s[k] \in Nat /\ s[0] = 0
    BY <1>8, <1>11, <2>2
  <2> QED BY <2>3, <2>4
<1>12. ASSUME NEW k \in 1 .. n, ledger[k].at <= time - span
       PROVE  p[k] = 0
  <2>1. \A i \in 1 .. k : p[i] = p[i - 1]
    <3> SUFFICES ASSUME NEW i \in 1 .. k PROVE p[i] = p[i - 1]
      OBVIOUS
    <3>1. i \in 1 .. n /\ i <= k
      BY <1>1
    <3>2. ledger[i].at <= ledger[k].at /\ ledger[i].at \in Nat /\ ledger[k].at \in Nat
      BY Zenon, <1>1, <3>1
    <3>3. ~(ledger[i].at > time - span)
      BY <1>12, <3>2
    <3>4. p[i] = p[i - 1] + 0 /\ p[i - 1] \in Nat
      BY Zenon, <1>6, <1>9, <3>1, <3>3
    <3> QED BY <3>4
  <2> QED BY Zenon, <1>6, <1>9, <1>11, <2>1
<1>13. \A x \in Nat : atOrAboveThreshold(x, bucket) <=> Reaches(x, bucket)
  BY Zenon, <1>1, ThresholdExact
<1>14. CASE ~Reaches(c, bucket)
  <2>1. resets = NoTime
    BY Zenon, <1>2, <1>3, <1>13, <1>14
  <2> QED BY Zenon, <1>2, <1>14, <2>1 DEF Exact, resets
<1>15. CASE Reaches(c, bucket)
  <2>1. below \subseteq 1 .. n
    BY Zenon, <1>1 DEF below
  <2>2. n \in below
    <3>1. n \in 1 .. n /\ ledger[n].at > time - span
      <4>1. SUFFICES ASSUME n = 0 \/ (n \in 1 .. n /\ ledger[n].at <= time - span) PROVE FALSE
        BY <1>1
      <4>2. c = 0
        BY Zenon, <1>6, <1>12, <4>1
      <4> QED BY Zenon, <1>15, <4>2
    <3>2. r[n] = 0 /\ 0 \in Nat
      <4>1. n \in 0 .. n
        BY <1>1
      <4>2. r[n] = c - c
        BY Zenon, <1>6, <1>7, <4>1
      <4> QED BY <1>2, <4>2
    <3>3. ~atOrAboveThreshold(r[n], bucket)
      BY Zenon, <1>13, <3>2
    <3> QED BY Zenon, <1>1, <1>4, <3>1, <3>3 DEF below
  <2>3. first \in below /\ \A j \in below : first <= j
    BY Zenon, <1>1, <2>1, <2>2, First DEF first
  <2>4. /\ first \in 1 .. n /\ first \in 0 .. n /\ first - 1 \in 0 .. n
        /\ ledger[first].at > time - span /\ ~atOrAboveThreshold(r[first], bucket)
    BY Zenon, <1>4, <1>9, <2>1, <2>3 DEF below
  <2>5. resets = ledger[first].at + span
    BY Zenon, <1>2, <1>3, <1>13, <1>15, <2>2
  <2>6. ledger[first].at \in Nat /\ resets \in Nat /\ resets > time /\ resets - span = ledger[first].at
    <3>1. ledger[first].at \in Nat
      BY Zenon, <1>1, <2>4
    <3> QED BY <2>4, <2>5, <3>1
  <2>7. ~Reaches(c - p[first], bucket)
    BY Zenon, <1>7, <1>10, <1>13, <2>4
  <2>8. Reaches(c - p[first - 1], bucket)
    <3>1. CASE first - 1 = 0
      BY <1>2, <1>6, <1>15, <3>1
    <3>2. CASE first - 1 # 0
      <4>1. first - 1 \in 1 .. n /\ ~(first <= first - 1)
        BY <1>1, <2>4, <3>2
      <4>2. first - 1 \notin below
        BY Zenon, <2>3, <4>1
      <4>3. ledger[first - 1].at <= time - span \/ atOrAboveThreshold(r[first - 1], bucket)
        <5>1. ledger[first - 1].at \in Nat
          BY Zenon, <1>1, <4>1
        <5>2. ~(ledger[first - 1].at > time - span) \/ atOrAboveThreshold(r[first - 1], bucket)
          BY Zenon, <1>1, <1>4, <4>1, <4>2 DEF below
        <5> QED BY <5>1, <5>2
      <4>4. CASE ledger[first - 1].at <= time - span
        <5>1. p[first - 1] = 0
          BY Zenon, <1>12, <4>1, <4>4
        <5> QED BY <1>2, <1>15, <5>1
      <4>5. CASE atOrAboveThreshold(r[first - 1], bucket)
        BY Zenon, <1>7, <1>10, <1>13, <2>4, <4>5
      <4> QED BY Zenon, <4>3, <4>4, <4>5
    <3> QED BY Zenon, <3>1, <3>2
  <2>9. ~Reaches(Used(ledger, resets - span, resets), bucket)
    <3>1. PICK s : Sums(s, ledger, resets - span, resets)
      BY <2>6, UsedSum DEF Past
    <3>2. /\ s \in [0 .. n -> Nat] /\ s[0] = 0 /\ Used(ledger, resets - span, resets) = s[n]
          /\ \A i \in 1 .. n : s[i] = s[i - 1] + (IF ledger[i].at > resets - span /\ ledger[i].at <= resets
                                                  THEN ledger[i].credits ELSE 0)
      BY Zenon, <3>1 DEF Sums, n
    <3>3. \A i \in 1 .. first : s[i] = s[i - 1]
      <4> SUFFICES ASSUME NEW i \in 1 .. first PROVE s[i] = s[i - 1]
        OBVIOUS
      <4>1. i \in 1 .. n /\ i <= first
        BY <1>1, <2>4
      <4>2. ledger[i].at <= ledger[first].at /\ ledger[i].at \in Nat
        BY Zenon, <1>1, <2>4, <4>1
      <4>3. ~(ledger[i].at > resets - span)
        BY <2>6, <4>2
      <4>4. s[i] = s[i - 1] + 0 /\ s[i - 1] \in Nat
        BY <1>9, <3>2, <4>1, <4>3
      <4> QED BY <4>4
    <3>4. s[first] = 0
      BY Zenon, <1>11, <2>4, <3>2, <3>3
    <3>5. Slower(s, p, first, n)
      <4> SUFFICES ASSUME NEW i \in first + 1 .. n PROVE s[i] - s[i - 1] <= p[i] - p[i - 1]
        BY Zenon DEF Slower
      <4>1. i \in 1 .. n /\ first <= i
        BY <1>1, <2>4
      <4>2. ledger[first].at <= ledger[i].at /\ ledger[i].at \in Nat
        BY Zenon, <1>1, <2>4, <4>1
      <4>3. ledger[i].at > time - span
        BY <2>4, <2>6, <4>2
      <4>4. p[i] = p[i - 1] + ledger[i].credits /\ ledger[i].credits \in Nat
        BY Zenon, <1>1, <1>6, <4>1, <4>3
      <4>5. s[i] = s[i - 1] + ledger[i].credits \/ s[i] = s[i - 1] + 0
        BY Zenon, <3>2, <4>1
      <4>6. s[i - 1] \in Nat /\ p[i - 1] \in Nat
        BY <1>6, <1>9, <3>2, <4>1
      <4> QED BY <4>4, <4>5, <4>6
    <3>6. n \in Nat /\ n \in first .. n /\ n \in 0 .. n
      BY <1>1, <2>4
    <3>7. s[n] - s[first] <= p[n] - p[first]
      BY Zenon, <1>6, <2>4, <3>2, <3>5, <3>6, <1>SumsCompare
    <3>8. s[n] \in Nat /\ s[n] <= c - p[first] /\ c - p[first] \in Nat
      <4>1. s[n] \in Nat /\ p[first] \in Nat /\ c - p[first] \in Nat
        BY <1>10, <2>4, <3>2, <3>6
      <4> QED BY <1>6, <3>4, <3>7, <4>1
    <3> QED BY Zenon, <1>1, <2>7, <3>2, <3>8, ReachesMore
  <2>10. ASSUME NEW u \in time .. resets - 1
         PROVE  Reaches(Used(ledger, u - span, u), bucket)
    <3>1. u \in Nat /\ u - span \in Int /\ u \in Int /\ u - span < ledger[first].at /\ time <= u
      BY <2>6
    <3>2. PICK s : Sums(s, ledger, u - span, u)
      BY Zenon, <3>1, UsedSum DEF Past
    <3>3. /\ s \in [0 .. n -> Nat] /\ Used(ledger, u - span, u) = s[n]
          /\ \A i \in 1 .. n : s[i] = s[i - 1] + (IF ledger[i].at > u - span /\ ledger[i].at <= u
                                                  THEN ledger[i].credits ELSE 0)
      BY Zenon, <3>2 DEF Sums, n
    <3>4. Slower(p, s, first - 1, n)
      <4> SUFFICES ASSUME NEW i \in (first - 1) + 1 .. n PROVE p[i] - p[i - 1] <= s[i] - s[i - 1]
        BY Zenon DEF Slower
      <4>1. i \in 1 .. n /\ first <= i
        BY <1>1, <2>4
      <4>2. ledger[first].at <= ledger[i].at /\ ledger[i].at \in Nat /\ ledger[i].at <= time
        BY Zenon, <1>1, <2>4, <4>1
      <4>3. ledger[i].at > u - span /\ ledger[i].at <= u
        BY <2>6, <3>1, <4>2
      <4>4. s[i] = s[i - 1] + ledger[i].credits /\ ledger[i].credits \in Nat
        BY Zenon, <1>1, <3>3, <4>1, <4>3
      <4>5. p[i] = p[i - 1] + ledger[i].credits \/ p[i] = p[i - 1] + 0
        BY Zenon, <1>6, <4>1
      <4>6. s[i - 1] \in Nat /\ p[i - 1] \in Nat
        BY <1>6, <1>9, <3>3, <4>1
      <4> QED BY <4>4, <4>5, <4>6
    <3>5. n \in Nat /\ n \in first - 1 .. n /\ n \in 0 .. n
      BY <1>1, <2>4
    <3>6. p[n] - p[first - 1] <= s[n] - s[first - 1]
      BY Zenon, <1>6, <2>4, <3>3, <3>4, <3>5, <1>SumsCompare
    <3>7. s[n] \in Nat /\ c - p[first - 1] <= s[n] /\ c - p[first - 1] \in Nat
      <4>1. s[n] \in Nat /\ s[first - 1] \in Nat /\ c - p[first - 1] \in Nat
        BY <1>10, <2>4, <3>3, <3>5
      <4> QED BY <1>6, <3>6, <4>1
    <3> QED BY Zenon, <1>1, <2>8, <3>3, <3>7, ReachesMore
  <2> QED BY Zenon, <1>2, <1>15, <2>6, <2>9, <2>10 DEF Exact, resets
<1> QED BY Zenon, <1>14, <1>15

---------------------------------------------------------------------------
(* The health of an account.                                               *)

(* The smaller of two numbers.                                             *)
AtMost(x, y) == IF x <= y THEN x ELSE y

(* A throttle lasts at least a moment and at most the cap.                 *)
LEMMA BackoffBounds ==
  ASSUME Counting, NEW count \in Nat
  PROVE  requestRateBackoff(count) \in 1 .. BackoffCap
  (* The delays of requestRateBackoff are positive. *)
<1>DelaySteps. ASSUME NEW streak \in Nat
     PROVE  \E f \in [0 .. streak -> (Nat \ {0})] :
              /\ f[0] = BackoffBase
              /\ \A i \in 1 .. streak : f[i] = IF i <= 1 \/ f[i - 1] >= BackoffCap THEN (IF i <= 1 THEN BackoffBase ELSE f[i - 1]) ELSE 2 * f[i - 1]
              /\ requestRateBackoff(streak) = AtMost(AtMost(f[streak], BackoffCap), FallbackCooldown)
  <2> USE <1>DelaySteps
  <2> DEFINE n == streak
             Is(s) == s = [i \in 0 .. n |-> IF i <= 1 \/ s[i - 1] >= BackoffCap
                            THEN IF i <= 1 THEN BackoffBase ELSE s[i - 1]
                            ELSE 2 * s[i - 1]]
             g == [i \in 1..n |-> [v \in (Nat \ {0}) |-> IF i <= 1 \/ v >= BackoffCap THEN (IF i <= 1 THEN BackoffBase ELSE v) ELSE 2 * v]]
  <2>1. n \in Nat /\ BackoffBase \in Nat \ {0} /\ BackoffCap \in Nat
    BY AccountHealthAssumption
  <2>2. \A i \in 1..n : \A v \in Nat \ {0} :
          (IF i <= 1 \/ v >= BackoffCap THEN (IF i <= 1 THEN BackoffBase ELSE v) ELSE 2 * v) \in Nat \ {0}
    BY <2>1
  <2>3. g \in [1..n -> [(Nat \ {0}) -> (Nat \ {0})]]
    <3> HIDE DEF n
    <3> QED BY <2>2
  <2>4. PICK f \in [0..n -> (Nat \ {0})] : f[0] = BackoffBase /\ \A i \in 1..n : f[i] = g[i][f[i - 1]]
    <3> HIDE DEF g, n
    <3>1. BackoffBase \in (Nat \ {0}) /\ n \in Nat /\ g \in [1..n -> [(Nat \ {0}) -> (Nat \ {0})]]
      BY <2>1, <2>3
    <3>2. Stepwise((Nat \ {0}), BackoffBase, n, g)
      BY Zenon, <3>1, Recursion
    <3> QED BY Zenon, <3>2 DEF Stepwise
  <2>5. \A i \in 1..n : f[i] = IF i <= 1 \/ f[i - 1] >= BackoffCap THEN (IF i <= 1 THEN BackoffBase ELSE f[i - 1]) ELSE 2 * f[i - 1]
    <3> SUFFICES ASSUME NEW i \in 1..n PROVE f[i] = IF i <= 1 \/ f[i - 1] >= BackoffCap THEN (IF i <= 1 THEN BackoffBase ELSE f[i - 1]) ELSE 2 * f[i - 1]
      OBVIOUS
    <3>1. f[i - 1] \in (Nat \ {0})
      BY <2>1
    <3> HIDE DEF n
    <3> QED BY Zenon, <2>4, <3>1
  <2>6. Is(f)
    <3> HIDE DEF n
    <3> QED BY <2>1, <2>4, <2>5
  <2>7. requestRateBackoff(streak) = AtMost(AtMost((CHOOSE s : Is(s))[n], BackoffCap), FallbackCooldown)
    BY DEF requestRateBackoff, AtMost
  <2> DEFINE s == CHOOSE s : Is(s)
  <2>8. Is(s)
    <3> HIDE DEF Is
    <3> QED BY Zenon, <2>6
  <2> HIDE DEF s
  <2>9. s[0] = BackoffBase /\ \A i \in 1..n : s[i] = IF i <= 1 \/ s[i - 1] >= BackoffCap THEN (IF i <= 1 THEN BackoffBase ELSE s[i - 1]) ELSE 2 * s[i - 1]
    <3>1. 0 \in 0..n /\ \A i \in 1..n : i \in 0..n /\ i # 0
      BY <2>1
    <3> HIDE DEF n
    <3>2. s[0] = BackoffBase
      BY <2>8, <3>1
    <3>3. \A i \in 1..n : s[i] = IF i <= 1 \/ s[i - 1] >= BackoffCap THEN (IF i <= 1 THEN BackoffBase ELSE s[i - 1]) ELSE 2 * s[i - 1]
      BY Zenon, <2>8, <3>1
    <3> QED BY <3>2, <3>3
  <2>10. \A i \in 0..n : s[i] \in (Nat \ {0})
    <3> DEFINE S == {i \in Nat : i <= n => s[i] \in (Nat \ {0})}
    <3>1. 0 \in S
      BY <2>1, <2>9
    <3>2. ASSUME NEW i \in Nat, i \in S PROVE i + 1 \in S
      <4> SUFFICES ASSUME i + 1 <= n PROVE s[i + 1] \in (Nat \ {0})
        OBVIOUS
      <4>1. s[i] \in (Nat \ {0}) /\ i + 1 \in 1..n /\ (i + 1) - 1 = i
        BY <2>1, <3>2
      <4> HIDE DEF n
      <4>2. s[i + 1] = IF i + 1 <= 1 \/ s[i] >= BackoffCap THEN (IF i + 1 <= 1 THEN BackoffBase ELSE s[i]) ELSE 2 * s[i]
        BY <2>9, <4>1
      <4> QED BY <2>2, <4>1, <4>2
    <3>3. \A i \in Nat : i \in S
      <4> HIDE DEF S
      <4> QED BY Zenon, <3>1, <3>2, Induction
    <3> QED BY <2>1, <3>3
  <2>11. s = [i \in 0..n |-> s[i]]
    <3> HIDE DEF n
    <3> QED BY <2>8
  <2>12. s \in [0..n -> (Nat \ {0})]
    <3> HIDE DEF n
    <3> QED BY <2>10, <2>11
  <2>13. requestRateBackoff(streak) = AtMost(AtMost(s[n], BackoffCap), FallbackCooldown)
    BY <2>7 DEF s
  <2> QED BY Zenon, <2>9, <2>12, <2>13
<1>1. PICK v \in Nat \ {0} : requestRateBackoff(count) = AtMost(AtMost(v, BackoffCap), FallbackCooldown)
  <2>1. count \in 0 .. count
    OBVIOUS
  <2> QED BY Zenon, <2>1, <1>DelaySteps
<1>2. {BackoffCap, FallbackCooldown} \subseteq Nat \ {0}
  BY AccountHealthAssumption
<1> QED BY <1>1, <1>2 DEF AtMost

Healths == [suspended : Nat, exhausted : Nat, capacity : BOOLEAN,
            resets : Nat, throttled : Nat, streak : 0 .. MaxThrottles]

Tolds == [suspended : Nat, exhausted : Nat, throttled : Nat, rate : SUBSET Nat, earned : Nat]

(* The blocks of an account, against what it was told: each block it was   *)
(* told of is in force until it passes, a block in force is one it was     *)
(* told of or earned, and the streak of throttles counts no more than the  *)
(* distinct times at which it was throttled in a row.                      *)
BlocksOK(h, d, t) ==
  /\ h.throttled <= t + BackoffCap
  /\ d.suspended <= t \/ d.suspended <= h.suspended
  /\ h.suspended <= t \/ h.suspended <= d.suspended
  /\ d.exhausted <= t \/ d.exhausted <= h.exhausted
  /\ h.exhausted <= t \/ h.exhausted <= d.exhausted \/ h.exhausted <= d.earned
  /\ BackoffCap <= FallbackCooldown =>
       (d.throttled <= t \/ d.throttled <= h.throttled \/ d.throttled <= h.exhausted)
  /\ d.rate \subseteq 0 .. t
  /\ h.streak <= Cardinality(d.rate)
  /\ h.throttled <= t => h.streak <= Cardinality(d.rate \ {t})

HealthOK(h, d, t) ==
  /\ h \in Healths /\ d \in Tolds
  /\ ~h.capacity => h.resets = NoTime
  /\ BlocksOK(h, d, t)

(* The fields of a health and of what was told.                            *)
LEMMA HealthParts ==
  ASSUME NEW h \in Healths
  PROVE  /\ h.suspended \in Nat /\ h.exhausted \in Nat /\ h.capacity \in BOOLEAN
         /\ h.resets \in Nat /\ h.throttled \in Nat /\ h.streak \in Nat /\ h.streak <= MaxThrottles
         /\ MaxThrottles \in Nat /\ MaxThrottles > 0 /\ BackoffCap \in Nat /\ BackoffCap > 0
         /\ FallbackCooldown \in Nat /\ FallbackCooldown > 0 /\ SuspendDuration \in Nat
<1>1. /\ MaxThrottles \in Nat /\ MaxThrottles > 0 /\ BackoffCap \in Nat /\ BackoffCap > 0
      /\ FallbackCooldown \in Nat /\ FallbackCooldown > 0 /\ SuspendDuration \in Nat
  BY AccountHealthAssumption
<1> QED BY <1>1 DEF Healths

(* The fields of what an account was told.                                 *)
LEMMA ToldParts ==
  ASSUME NEW d \in Tolds
  PROVE  d.suspended \in Nat /\ d.exhausted \in Nat /\ d.throttled \in Nat /\ d.rate \subseteq Nat /\ d.earned \in Nat
BY DEF Tolds

(* Health with another end of the exhaustion.                              *)
LEMMA HealthExhausted ==
  ASSUME NEW h \in Healths, NEW x \in Nat
  PROVE  LET k == [h EXCEPT !.exhausted = x] IN
         /\ k \in Healths /\ k.suspended = h.suspended /\ k.exhausted = x
         /\ k.throttled = h.throttled /\ k.streak = h.streak /\ k.resets = h.resets
BY DEF Healths

(* Health without a throttle.                                              *)
LEMMA HealthCleared ==
  ASSUME NEW h \in Healths
  PROVE  LET k == clearThrottle(h) IN
         /\ k \in Healths /\ k.suspended = h.suspended /\ k.exhausted = h.exhausted
         /\ k.throttled = 0 /\ k.streak = 0 /\ k.resets = h.resets
<1>1. 0 \in 0 .. MaxThrottles
  BY HealthParts
<1> QED BY Zenon, <1>1 DEF Healths, clearThrottle, NoTime

(* The times of a row of throttles are finitely many.                      *)
LEMMA RateCount ==
  ASSUME Counting, NEW t \in Nat, NEW rate \in SUBSET (0 .. t)
  PROVE  /\ Cardinality(rate) \in Nat /\ Cardinality(rate \ {t}) \in Nat
         /\ Cardinality(rate \cup {t}) = Cardinality(rate \ {t}) + 1
         /\ Cardinality(rate) <= Cardinality(rate \cup {t})
         /\ rate \cup {t} \subseteq 0 .. t
         /\ rate \cup {t} \in SUBSET Nat
<1>1. \A S : Cardinality(S) = Size(S)
  BY Zenon DEF Cardinality, Size
<1>2. /\ Size(rate) \in Nat /\ Size(rate \ {t}) \in Nat
      /\ Size(rate \cup {t}) = Size(rate \ {t}) + 1
      /\ Size(rate) <= Size(rate \cup {t})
  BY Zenon DEF Counting
<1>3. rate \cup {t} \subseteq 0 .. t /\ rate \cup {t} \in SUBSET Nat
  OBVIOUS
<1> QED BY Zenon, <1>1, <1>2, <1>3

(* A usage report keeps the blocks in step with what was told.             *)
LEMMA FailureOK ==
  ASSUME Counting, now \in Nat, NEW delivery \in Deliveries, NEW old, NEW heard, HealthOK(old, heard, now)
  PROVE  LET k == Failure(old, delivery[2], now)
             e == Hear(heard, old, delivery[2])
         IN k \in Healths /\ e \in Tolds /\ BlocksOK(k, e, now)
  (* How a request-rate 429 with a short hint changes the health.            *)
<1> DEFINE Throttling(h, k, t, hint) ==
             /\ k \in Healths /\ k.suspended = h.suspended
             /\ \/ /\ h.throttled > t /\ k.exhausted = h.exhausted /\ k.streak = h.streak
                   /\ k.throttled = (IF hint > h.throttled THEN hint ELSE h.throttled)
                \/ /\ h.throttled <= t /\ h.streak = MaxThrottles /\ k.streak = 0 /\ k.throttled = 0
                   /\ k.exhausted = (IF t + FallbackCooldown > h.exhausted THEN t + FallbackCooldown ELSE h.exhausted)
                \/ /\ h.throttled <= t /\ k.exhausted = h.exhausted /\ k.streak <= h.streak + 1
                   /\ k.throttled > t /\ k.throttled <= t + BackoffCap /\ (hint > t => k.throttled = hint)
<1> HIDE DEF Throttling
  (* Health with another end of the suspension. *)
<1>HealthSuspended. ASSUME NEW h \in Healths, NEW x \in Nat
     PROVE  LET k == [h EXCEPT !.suspended = x] IN
            /\ k \in Healths /\ k.suspended = x /\ k.exhausted = h.exhausted
            /\ k.throttled = h.throttled /\ k.streak = h.streak /\ k.resets = h.resets
  BY <1>HealthSuspended DEF Healths
  (* Health with another end of the throttle. *)
<1>HealthThrottled. ASSUME NEW h \in Healths, NEW x \in Nat
     PROVE  LET k == [h EXCEPT !.throttled = x] IN
            /\ k \in Healths /\ k.suspended = h.suspended /\ k.exhausted = h.exhausted
            /\ k.throttled = x /\ k.streak = h.streak /\ k.resets = h.resets
  BY <1>HealthThrottled DEF Healths
  (* What was told, with another suspension. *)
<1>ToldSuspended. ASSUME NEW d \in Tolds, NEW x \in Nat
     PROVE  LET e == [d EXCEPT !.suspended = x] IN
            /\ e \in Tolds /\ e.suspended = x /\ e.exhausted = d.exhausted
            /\ e.throttled = d.throttled /\ e.rate = d.rate /\ e.earned = d.earned
  BY <1>ToldSuspended DEF Tolds
  (* What was told, with another exhaustion. *)
<1>ToldExhausted. ASSUME NEW d \in Tolds, NEW x \in Nat
     PROVE  LET e == [d EXCEPT !.exhausted = x] IN
            /\ e \in Tolds /\ e.suspended = d.suspended /\ e.exhausted = x
            /\ e.throttled = d.throttled /\ e.rate = d.rate /\ e.earned = d.earned
  BY <1>ToldExhausted DEF Tolds
  (* What was told, with another row of throttles. *)
<1>ToldServed. ASSUME NEW d \in Tolds, NEW s \in SUBSET Nat
     PROVE  LET e == [d EXCEPT !.rate = s] IN
            /\ e \in Tolds /\ e.suspended = d.suspended /\ e.exhausted = d.exhausted
            /\ e.throttled = d.throttled /\ e.rate = s /\ e.earned = d.earned
  BY <1>ToldServed DEF Tolds
  (* A suspension. *)
<1>SuspendOK. ASSUME NEW t \in Nat, NEW h, NEW d, HealthOK(h, d, t), NEW at \in Nat
     PROVE  LET k == suspendUntil(h, at)
                e == [d EXCEPT !.suspended = Latest(@, at)]
            IN k \in Healths /\ e \in Tolds /\ BlocksOK(k, e, t)
  <2> USE <1>SuspendOK
  <2> DEFINE k == suspendUntil(h, at)
             x == Latest(d.suspended, at)
             e == [d EXCEPT !.suspended = Latest(@, at)]
  <2>1. h \in Healths /\ d \in Tolds /\ BlocksOK(h, d, t)
    BY DEF HealthOK
  <2>2. h.suspended \in Nat /\ d.suspended \in Nat
    BY <2>1, HealthParts, ToldParts
  <2>3. x \in Nat /\ x = (IF d.suspended > at THEN d.suspended ELSE at)
    BY <2>2 DEF Latest
  <2> HIDE DEF x
  <2>4. /\ k \in Healths /\ k.suspended = (IF at > h.suspended THEN at ELSE h.suspended)
        /\ k.exhausted = h.exhausted /\ k.throttled = h.throttled /\ k.streak = h.streak
    <3>1. CASE at > h.suspended
      BY <2>1, <3>1, <1>HealthSuspended DEF suspendUntil
    <3>2. CASE ~(at > h.suspended)
      BY <2>1, <3>2 DEF suspendUntil
    <3> QED BY <3>1, <3>2
  <2>5. e = [d EXCEPT !.suspended = x]
    BY <2>1 DEF x, Tolds
  <2> HIDE DEF e
  <2>6. /\ e \in Tolds /\ e.suspended = x /\ e.exhausted = d.exhausted
        /\ e.throttled = d.throttled /\ e.rate = d.rate /\ e.earned = d.earned
    BY <2>1, <2>3, <2>5, <1>ToldSuspended
  <2> HIDE DEF k
  <2>7. e.suspended <= t \/ e.suspended <= k.suspended
    BY <2>1, <2>2, <2>3, <2>4, <2>6 DEF BlocksOK
  <2>8. k.suspended <= t \/ k.suspended <= e.suspended
    BY <2>1, <2>2, <2>3, <2>4, <2>6 DEF BlocksOK
  <2>9. BlocksOK(k, e, t)
    BY Zenon, <2>1, <2>4, <2>6, <2>7, <2>8 DEF BlocksOK
  <2> QED BY Zenon, <2>4, <2>6, <2>9 DEF k, e
  (* An exhaustion block that the account is told of. *)
<1>ExhaustOK. ASSUME NEW t \in Nat, NEW h, NEW d, HealthOK(h, d, t), NEW at \in Nat
     PROVE  LET k == exhaustUntil(h, at)
                e == [d EXCEPT !.exhausted = Latest(@, at)]
            IN k \in Healths /\ e \in Tolds /\ BlocksOK(k, e, t)
  <2> USE <1>ExhaustOK
  <2> DEFINE k == exhaustUntil(h, at)
             x == Latest(d.exhausted, at)
             e == [d EXCEPT !.exhausted = Latest(@, at)]
  <2>1. h \in Healths /\ d \in Tolds /\ BlocksOK(h, d, t)
    BY DEF HealthOK
  <2>2. h.exhausted \in Nat /\ d.exhausted \in Nat /\ d.throttled \in Nat /\ d.earned \in Nat
    BY <2>1, HealthParts, ToldParts
  <2>3. x \in Nat /\ x = (IF d.exhausted > at THEN d.exhausted ELSE at)
    BY <2>2 DEF Latest
  <2> HIDE DEF x
  <2>4. /\ k \in Healths /\ k.exhausted = (IF at > h.exhausted THEN at ELSE h.exhausted)
        /\ k.suspended = h.suspended /\ k.throttled = h.throttled /\ k.streak = h.streak
    <3>1. CASE at > h.exhausted
      BY <2>1, <3>1, HealthExhausted DEF exhaustUntil
    <3>2. CASE ~(at > h.exhausted)
      BY <2>1, <3>2 DEF exhaustUntil
    <3> QED BY <3>1, <3>2
  <2>5. e = [d EXCEPT !.exhausted = x]
    BY <2>1 DEF x, Tolds
  <2> HIDE DEF e
  <2>6. /\ e \in Tolds /\ e.suspended = d.suspended /\ e.exhausted = x
        /\ e.throttled = d.throttled /\ e.rate = d.rate /\ e.earned = d.earned
    BY <2>1, <2>3, <2>5, <1>ToldExhausted
  <2> HIDE DEF k
  <2>7. e.exhausted <= t \/ e.exhausted <= k.exhausted
    BY <2>1, <2>2, <2>3, <2>4, <2>6 DEF BlocksOK
  <2>8. k.exhausted <= t \/ k.exhausted <= e.exhausted \/ k.exhausted <= e.earned
    BY <2>1, <2>2, <2>3, <2>4, <2>6 DEF BlocksOK
  <2>9. BackoffCap <= FallbackCooldown =>
          (e.throttled <= t \/ e.throttled <= k.throttled \/ e.throttled <= k.exhausted)
    <3>1. h.exhausted <= k.exhausted /\ k.exhausted \in Nat
      BY <2>2, <2>4
    <3> QED BY <2>1, <2>2, <2>4, <2>6, <3>1 DEF BlocksOK
  <2>10. BlocksOK(k, e, t)
    BY Zenon, <2>1, <2>4, <2>6, <2>7, <2>8, <2>9 DEF BlocksOK
  <2> QED BY Zenon, <2>4, <2>6, <2>10 DEF k, e
  (* A served request. *)
<1>ServedOK. ASSUME NEW t \in Nat, NEW h, NEW d, HealthOK(h, d, t)
     PROVE  LET k == Served(h, t)
                e == IF h.throttled <= t THEN [d EXCEPT !.rate = {}] ELSE d
            IN k \in Healths /\ e \in Tolds /\ BlocksOK(k, e, t)
  <2> USE <1>ServedOK
  <2> DEFINE k == Served(h, t)
             e == IF h.throttled <= t THEN [d EXCEPT !.rate = {}] ELSE d
  <2>1. h \in Healths /\ d \in Tolds /\ BlocksOK(h, d, t)
    BY DEF HealthOK
  <2>2. /\ h.throttled \in Nat /\ h.streak \in Nat /\ h.exhausted \in Nat /\ d.throttled \in Nat
        /\ BackoffCap \in Nat
    BY <2>1, HealthParts, ToldParts
  <2>3. CASE ~(h.throttled <= t)
    <3>1. k = h /\ e = d
      BY <2>3 DEF Served
    <3> QED BY <2>1, <3>1
  <2>4. CASE h.throttled <= t
    <3>1. /\ k \in Healths /\ k.exhausted = h.exhausted /\ k.suspended = h.suspended /\ k.streak = 0
          /\ k.throttled = 0 \/ k.throttled = h.throttled
      <4>1. CASE h.streak > 0
        BY <2>1, <2>4, <4>1, HealthCleared DEF Served
      <4>2. CASE ~(h.streak > 0)
        BY <2>1, <2>2, <4>2 DEF Served
      <4> QED BY Zenon, <4>1, <4>2
    <3>2. e = [d EXCEPT !.rate = {}] /\ {} \in SUBSET Nat
      BY <2>4
    <3>3. /\ e \in Tolds /\ e.suspended = d.suspended /\ e.exhausted = d.exhausted
          /\ e.throttled = d.throttled /\ e.rate = {} /\ e.earned = d.earned
      BY Zenon, <2>1, <3>2, <1>ToldServed
    <3> HIDE DEF k, e
    <3>4. k.throttled <= t + BackoffCap /\ k.throttled <= t
      BY <2>2, <2>4, <3>1
    <3>5. BackoffCap <= FallbackCooldown =>
            (e.throttled <= t \/ e.throttled <= k.throttled \/ e.throttled <= k.exhausted)
      <4>1. d.throttled <= h.throttled => d.throttled <= t
        BY <2>2, <2>4
      <4> QED BY Zenon, <2>1, <3>1, <3>3, <4>1 DEF BlocksOK
    <3>6. e.rate \subseteq 0 .. t /\ k.streak <= Cardinality(e.rate) /\ k.streak <= Cardinality(e.rate \ {t})
      <4>1. {} \in SUBSET (0 .. t)
        OBVIOUS
      <4>2. Cardinality({}) \in Nat /\ Cardinality({} \ {t}) \in Nat
        BY Zenon, <4>1, RateCount
      <4>3. 0 <= Cardinality({}) /\ 0 <= Cardinality({} \ {t})
        BY <4>2
      <4> QED BY Zenon, <3>1, <3>3, <4>1, <4>3
    <3>7. BlocksOK(k, e, t)
      BY Zenon, <2>1, <3>1, <3>3, <3>4, <3>5, <3>6 DEF BlocksOK
    <3> QED BY Zenon, <3>1, <3>3, <3>7 DEF k, e
  <2> QED BY <2>3, <2>4
  (* What a request-rate 429 with a short hint does to the health. *)
<1>ThrottleEffect. ASSUME NEW t \in Nat, NEW h \in Healths, ~h.capacity, h.resets = NoTime,
            NEW hint \in Nat, hint <= t + BackoffCap
     PROVE  LET k == RateLimited(h, t, TRUE, hint) IN
            Throttling(h, k, t, hint)
  <2> USE <1>ThrottleEffect
  <2> DEFINE step == throttle(h, t, hint)
             k == RateLimited(h, t, TRUE, hint)
             streak == IF h.streak > 0 /\ t - h.throttled >= StreakDecay THEN 0 ELSE h.streak
  <2> SUFFICES
           /\ k \in Healths /\ k.suspended = h.suspended
           /\ \/ /\ h.throttled > t /\ k.exhausted = h.exhausted /\ k.streak = h.streak
                 /\ k.throttled = (IF hint > h.throttled THEN hint ELSE h.throttled)
              \/ /\ h.throttled <= t /\ h.streak = MaxThrottles /\ k.streak = 0 /\ k.throttled = 0
                 /\ k.exhausted = (IF t + FallbackCooldown > h.exhausted THEN t + FallbackCooldown ELSE h.exhausted)
              \/ /\ h.throttled <= t /\ k.exhausted = h.exhausted /\ k.streak <= h.streak + 1
                 /\ k.throttled > t /\ k.throttled <= t + BackoffCap /\ (hint > t => k.throttled = hint)
    BY Zenon DEF Throttling
  <2>1. /\ h.suspended \in Nat /\ h.exhausted \in Nat /\ h.throttled \in Nat /\ h.streak \in Nat
        /\ h.streak <= MaxThrottles /\ MaxThrottles \in Nat /\ MaxThrottles > 0
        /\ BackoffCap \in Nat /\ FallbackCooldown \in Nat
    BY HealthParts
  <2>2. k = IF step.escalate THEN exhaustUntil(step.health, rateLimitReset(step.health, t)) ELSE step.health
    BY DEF RateLimited
  <2> HIDE DEF k, step
  <2>3. streak \in Nat /\ streak <= h.streak /\ (streak >= MaxThrottles => h.streak = MaxThrottles)
    BY <2>1
  <2> HIDE DEF streak
  <2>4. CASE h.throttled > t
    <3>1. step = [health |-> IF hint > h.throttled THEN [h EXCEPT !.throttled = hint] ELSE h, escalate |-> FALSE]
      BY <2>4 DEF throttle, step
    <3>2. k = IF hint > h.throttled THEN [h EXCEPT !.throttled = hint] ELSE h
      <4>1. step.escalate = FALSE /\ step.health = IF hint > h.throttled THEN [h EXCEPT !.throttled = hint] ELSE h
        BY <3>1
      <4> QED BY Zenon, <2>2, <4>1
    <3>3. CASE hint > h.throttled
      <4>1. k = [h EXCEPT !.throttled = hint]
        BY <3>2, <3>3
      <4>2. /\ k \in Healths /\ k.suspended = h.suspended /\ k.exhausted = h.exhausted
            /\ k.throttled = hint /\ k.streak = h.streak
        BY Zenon, <4>1, <1>HealthThrottled
      <4> QED BY <2>4, <3>3, <4>2
    <3>4. CASE ~(hint > h.throttled)
      BY <2>4, <3>2, <3>4
    <3> QED BY <3>3, <3>4
  <2>5. CASE ~(h.throttled > t) /\ streak >= MaxThrottles
    <3> DEFINE c == clearThrottle(h)
    <3>1. step = [health |-> c, escalate |-> TRUE]
      BY <2>5 DEF throttle, streak, step
    <3>2. /\ c \in Healths /\ c.suspended = h.suspended /\ c.exhausted = h.exhausted
          /\ c.throttled = 0 /\ c.streak = 0 /\ c.resets = NoTime
      BY HealthCleared
    <3> HIDE DEF c
    <3>3. rateLimitReset(c, t) = t + FallbackCooldown
      BY <3>2 DEF rateLimitReset, NoTime
    <3>4. k = exhaustUntil(c, t + FallbackCooldown)
      <4>1. step.escalate = TRUE /\ step.health = c
        BY <3>1
      <4> QED BY Zenon, <2>2, <3>3, <4>1
    <3>5. t + FallbackCooldown \in Nat
      BY <2>1
    <3>6. h.throttled <= t /\ h.streak = MaxThrottles
      BY <2>1, <2>3, <2>5
    <3>7. CASE t + FallbackCooldown > c.exhausted
      <4>1. k = [c EXCEPT !.exhausted = t + FallbackCooldown]
        BY <3>4, <3>7 DEF exhaustUntil
      <4>2. /\ k \in Healths /\ k.suspended = c.suspended /\ k.exhausted = t + FallbackCooldown
            /\ k.throttled = c.throttled /\ k.streak = c.streak
        BY Zenon, <3>2, <3>5, <4>1, HealthExhausted
      <4> QED BY <3>2, <3>6, <3>7, <4>2
    <3>8. CASE ~(t + FallbackCooldown > c.exhausted)
      <4>1. k = c
        BY <3>4, <3>8 DEF exhaustUntil
      <4> QED BY <3>2, <3>6, <3>8, <4>1
    <3> QED BY <3>7, <3>8
  <2>6. CASE ~(h.throttled > t) /\ ~(streak >= MaxThrottles)
    <3> DEFINE y == IF hint > t THEN hint ELSE t + requestRateBackoff(streak + 1)
    <3>1. requestRateBackoff(streak + 1) \in 1 .. BackoffCap
      BY <2>3, BackoffBounds
    <3>2. y \in Nat /\ y > t /\ y <= t + BackoffCap /\ (hint > t => y = hint)
      BY <2>1, <3>1
    <3>3. step = [health |-> [h EXCEPT !.streak = streak + 1, !.throttled = y], escalate |-> FALSE]
      BY <2>6 DEF throttle, streak, step
    <3> HIDE DEF y
    <3>4. k = [h EXCEPT !.streak = streak + 1, !.throttled = y]
      <4>1. step.escalate = FALSE /\ step.health = [h EXCEPT !.streak = streak + 1, !.throttled = y]
        BY <3>3
      <4> QED BY Zenon, <2>2, <4>1
    <3>5. streak + 1 \in 0 .. MaxThrottles
      BY <2>1, <2>3, <2>6
    <3>6. /\ k \in Healths /\ k.suspended = h.suspended /\ k.exhausted = h.exhausted
          /\ k.throttled = y /\ k.streak = streak + 1
      <4> DEFINE more == streak + 1
      <4>1. k = [h EXCEPT !.streak = more, !.throttled = y] /\ more \in 0 .. MaxThrottles
        BY <3>4, <3>5
      <4> HIDE DEF more
      <4>2. /\ k \in Healths /\ k.suspended = h.suspended /\ k.exhausted = h.exhausted
            /\ k.throttled = y /\ k.streak = more
        BY Zenon, <3>2, <4>1 DEF Healths
      <4> QED BY <4>2 DEF more
    <3>7. h.throttled <= t /\ streak + 1 <= h.streak + 1
      BY <2>1, <2>3, <2>6
    <3> QED BY <3>2, <3>6, <3>7
  <2> QED BY <2>4, <2>5, <2>6
  (* A request-rate 429 with a short hint. *)
<1>ThrottleOK. ASSUME NEW t \in Nat, NEW h, NEW d, HealthOK(h, d, t), ~h.capacity,
            NEW hint \in Nat, hint <= t + BackoffCap
     PROVE  LET k == RateLimited(h, t, TRUE, hint)
                e == [d EXCEPT !.throttled = Latest(@, hint), !.rate = @ \cup {t},
                               !.earned = IF Cardinality(d.rate \cup {t}) > MaxThrottles
                                          THEN Latest(@, rateLimitReset(h, t)) ELSE @]
            IN k \in Healths /\ e \in Tolds /\ BlocksOK(k, e, t)
  <2> USE <1>ThrottleOK
  <2> DEFINE k == RateLimited(h, t, TRUE, hint)
             many == Cardinality(d.rate \cup {t}) > MaxThrottles
             x == Latest(d.throttled, hint)
             y == IF many THEN Latest(d.earned, rateLimitReset(h, t)) ELSE d.earned
             s == d.rate \cup {t}
             e == [d EXCEPT !.throttled = Latest(@, hint), !.rate = @ \cup {t},
                            !.earned = IF many THEN Latest(@, rateLimitReset(h, t)) ELSE @]
  <2>1. h \in Healths /\ d \in Tolds /\ BlocksOK(h, d, t) /\ h.resets = NoTime
    BY DEF HealthOK
  <2>2. /\ h.suspended \in Nat /\ h.exhausted \in Nat /\ h.throttled \in Nat /\ h.streak \in Nat
        /\ h.streak <= MaxThrottles /\ MaxThrottles \in Nat /\ MaxThrottles > 0
        /\ BackoffCap \in Nat /\ FallbackCooldown \in Nat
    BY <2>1, HealthParts
  <2>3. d.suspended \in Nat /\ d.exhausted \in Nat /\ d.throttled \in Nat /\ d.rate \subseteq Nat /\ d.earned \in Nat
    BY <2>1, ToldParts
  <2>4. rateLimitReset(h, t) = t + FallbackCooldown
    BY <2>1 DEF rateLimitReset, NoTime
  <2>5. /\ x \in Nat /\ x = (IF d.throttled > hint THEN d.throttled ELSE hint)
        /\ y \in Nat /\ d.earned <= y /\ (many => t + FallbackCooldown <= y)
    BY <2>2, <2>3, <2>4 DEF Latest
  <2>6. /\ Cardinality(d.rate) \in Nat /\ Cardinality(d.rate \ {t}) \in Nat
        /\ Cardinality(s) = Cardinality(d.rate \ {t}) + 1 /\ Cardinality(d.rate) <= Cardinality(s)
        /\ s \subseteq 0 .. t /\ s \in SUBSET Nat
    <3>1. d.rate \in SUBSET (0 .. t)
      BY <2>1 DEF BlocksOK
    <3> QED BY Zenon, <3>1, RateCount
  <2>7. /\ k \in Healths /\ k.suspended = h.suspended
        /\ \/ /\ h.throttled > t /\ k.exhausted = h.exhausted /\ k.streak = h.streak
              /\ k.throttled = (IF hint > h.throttled THEN hint ELSE h.throttled)
           \/ /\ h.throttled <= t /\ h.streak = MaxThrottles /\ k.streak = 0 /\ k.throttled = 0
              /\ k.exhausted = (IF t + FallbackCooldown > h.exhausted THEN t + FallbackCooldown ELSE h.exhausted)
           \/ /\ h.throttled <= t /\ k.exhausted = h.exhausted /\ k.streak <= h.streak + 1
              /\ k.throttled > t /\ k.throttled <= t + BackoffCap /\ (hint > t => k.throttled = hint)
    <3>1. Throttling(h, k, t, hint)
      <4> HIDE DEF many, x, y, s, e
      <4> QED BY Zenon, <2>1, <1>ThrottleEffect
    <3> QED BY Zenon, <3>1 DEF Throttling
  <2>8. e = [d EXCEPT !.throttled = x, !.rate = s, !.earned = y]
    BY <2>1 DEF Tolds
  <2> HIDE DEF e, x, y, k
  <2>9. /\ e \in Tolds /\ e.suspended = d.suspended /\ e.exhausted = d.exhausted
        /\ e.throttled = x /\ e.rate = s /\ e.earned = y
    <3> HIDE DEF s
    <3>1. x \in Nat /\ y \in Nat /\ s \in SUBSET Nat /\ d \in Tolds
      BY <2>1, <2>5, <2>6
    <3> QED BY Zenon, <2>8, <3>1 DEF Tolds
  <2>10. h.throttled <= t /\ h.streak = MaxThrottles => many
    <3>1. h.throttled <= t => h.streak <= Cardinality(d.rate \ {t})
      BY <2>1 DEF BlocksOK
    <3> QED BY <2>2, <2>6, <3>1
  <2> HIDE DEF many, s
  <2>11. /\ h.throttled <= t + BackoffCap /\ (d.exhausted <= t \/ d.exhausted <= h.exhausted)
         /\ h.exhausted <= t \/ h.exhausted <= d.exhausted \/ h.exhausted <= d.earned
         /\ BackoffCap <= FallbackCooldown =>
              (d.throttled <= t \/ d.throttled <= h.throttled \/ d.throttled <= h.exhausted)
         /\ h.streak <= Cardinality(d.rate)
         /\ h.throttled <= t => h.streak <= Cardinality(d.rate \ {t})
    BY <2>1 DEF BlocksOK
  <2>12. k.streak \in Nat /\ k.throttled \in Nat /\ k.exhausted \in Nat
    BY <2>7, HealthParts
  <2>13. k.throttled <= t + BackoffCap
    BY <2>2, <2>7, <2>11
  <2>14. e.exhausted <= t \/ e.exhausted <= k.exhausted
    BY <2>2, <2>3, <2>7, <2>9, <2>11
  <2>15. k.exhausted <= t \/ k.exhausted <= e.exhausted \/ k.exhausted <= e.earned
    <3>1. h.exhausted <= t \/ h.exhausted <= d.exhausted \/ h.exhausted <= y
      <4>1. h.exhausted <= d.earned => h.exhausted <= y
        BY <2>2, <2>3, <2>5
      <4> QED BY Zenon, <2>11, <4>1
    <3>2. CASE k.exhausted = h.exhausted
      BY Zenon, <2>9, <3>1, <3>2
    <3>3. CASE k.exhausted # h.exhausted
      <4>1. many /\ k.exhausted = t + FallbackCooldown
        BY <2>2, <2>7, <2>10, <3>3
      <4>2. k.exhausted <= y
        BY <2>5, <4>1
      <4> QED BY Zenon, <2>9, <4>2
    <3> QED BY Zenon, <3>2, <3>3
  <2>16. BackoffCap <= FallbackCooldown =>
           (e.throttled <= t \/ e.throttled <= k.throttled \/ e.throttled <= k.exhausted)
    <3> SUFFICES ASSUME BackoffCap <= FallbackCooldown
                 PROVE  x <= t \/ x <= k.throttled \/ x <= k.exhausted
      BY Zenon, <2>9
    <3>1. h.throttled <= t \/ h.throttled <= k.throttled
      BY <2>2, <2>7, <2>12
    <3>2. h.exhausted <= k.exhausted
      BY <2>2, <2>7, <2>12
    <3>3. d.throttled <= t \/ d.throttled <= h.throttled \/ d.throttled <= h.exhausted
      BY Zenon, <2>11
    <3>4. d.throttled <= t \/ d.throttled <= k.throttled \/ d.throttled <= k.exhausted
      BY <2>2, <2>3, <2>12, <3>1, <3>2, <3>3
    <3>5. hint <= t \/ hint <= k.throttled \/ hint <= k.exhausted
      BY <2>2, <2>7, <2>12
    <3>6. x = d.throttled \/ x = hint
      BY <2>5
    <3> QED BY Zenon, <3>4, <3>5, <3>6
  <2>17. k.streak <= Cardinality(e.rate)
    <3>1. k.streak <= h.streak \/ (h.throttled <= t /\ k.streak <= h.streak + 1)
      BY <2>2, <2>7, <2>12
    <3>2. CASE k.streak <= h.streak
      <4>1. k.streak <= Cardinality(s)
        BY <2>2, <2>6, <2>11, <2>12, <3>2
      <4> QED BY Zenon, <2>9, <4>1
    <3>3. CASE h.throttled <= t /\ k.streak <= h.streak + 1
      <4>1. k.streak <= Cardinality(s)
        BY <2>2, <2>6, <2>11, <2>12, <3>3
      <4> QED BY Zenon, <2>9, <4>1
    <3> QED BY Zenon, <3>1, <3>2, <3>3
  <2>18. k.throttled <= t => k.streak = 0
    BY <2>2, <2>7, <2>12
  <2>19. k.throttled <= t => k.streak <= Cardinality(e.rate \ {t})
    <3>1. e.rate \in SUBSET (0 .. t)
      BY Zenon, <2>6, <2>9
    <3>2. Cardinality(e.rate \ {t}) \in Nat
      BY Zenon, <3>1, RateCount
    <3>3. 0 <= Cardinality(e.rate \ {t})
      BY <3>2
    <3> QED BY Zenon, <2>18, <3>3
  <2>20. BlocksOK(k, e, t)
    BY Zenon, <2>1, <2>6, <2>7, <2>9, <2>13, <2>14, <2>15, <2>16, <2>17, <2>19 DEF BlocksOK
  <2> QED BY Zenon, <2>7, <2>9, <2>20 DEF k, e, many
  (* The hint of a report is a time, none if there is none to use. *)
<1>HintType. ASSUME NEW dl \in Deliveries, NEW t \in Nat
     PROVE  validResetAt(dl[2].hint, t) \in Nat
  <2> USE <1>HintType
  <2>1. dl[2].hint \in Nat \cup {None} /\ MaxHint \in Nat
    BY InputAssumption, AccountHealthAssumption
  <2>2. CASE dl[2].hint = None
    BY <2>2 DEF validResetAt, NoTime
  <2>3. CASE dl[2].hint # None
    <3>1. dl[2].hint \in Nat
      BY <2>1, <2>3
    <3> QED BY <3>1 DEF validResetAt, NoTime
  <2> QED BY <2>2, <2>3
<1> DEFINE report == delivery[2]
           k == Failure(old, report, now)
           e == Hear(heard, old, report)
           hint == validResetAt(report.hint, now)
           rated == report.transient /\ ~old.capacity /\ hint <= now + BackoffCap
<1>1. old \in Healths /\ heard \in Tolds /\ BlocksOK(old, heard, now)
  BY DEF HealthOK
<1>2. report.status \in Nat /\ report.transient \in BOOLEAN /\ hint \in Nat
  BY InputAssumption, <1>HintType
<1>3. /\ old.resets \in Nat /\ old.throttled \in Nat /\ old.capacity \in BOOLEAN
      /\ FallbackCooldown \in Nat /\ SuspendDuration \in Nat /\ BackoffCap \in Nat
  BY <1>1, HealthParts
<1>4. rateLimitReset(old, now) \in Nat
  BY <1>3 DEF rateLimitReset
<1> HIDE DEF k, e, hint
<1>5. CASE report.status = 0
  <2>1. k = Served(old, now)
    BY <1>5 DEF Failure, k
  <2>2. e = IF old.throttled <= now THEN [heard EXCEPT !.rate = {}] ELSE heard
    BY <1>5 DEF Hear, e
  <2>3. k \in Healths /\ e \in Tolds /\ BlocksOK(k, e, now)
    BY Zenon, <2>1, <2>2, <1>ServedOK
  <2> QED BY Zenon, <2>3 DEF k, e
<1>6. CASE report.status \in {401, 403}
  <2>1. k = suspendUntil(old, now + SuspendDuration)
    BY <1>6 DEF Failure, k
  <2>2. e = [heard EXCEPT !.suspended = Latest(@, now + SuspendDuration)]
    BY <1>6 DEF Hear, e
  <2>3. now + SuspendDuration \in Nat
    BY <1>3
  <2>4. k \in Healths /\ e \in Tolds /\ BlocksOK(k, e, now)
    BY Zenon, <2>1, <2>2, <2>3, <1>SuspendOK
  <2> QED BY Zenon, <2>4 DEF k, e
<1>7. CASE report.status = 429 /\ rated
  <2>1. transientRateLimit(report) = TRUE
    BY <1>2, <1>7 DEF transientRateLimit
  <2>2. k = RateLimited(old, now, TRUE, hint)
    <3>1. k = RateLimited(old, now, transientRateLimit(report), hint)
      BY <1>7 DEF Failure, k, hint
    <3> QED BY Zenon, <2>1, <3>1
  <2>3. e = [heard EXCEPT !.throttled = Latest(@, hint), !.rate = @ \cup {now},
                      !.earned = IF Cardinality(heard.rate \cup {now}) > MaxThrottles
                                 THEN Latest(@, rateLimitReset(old, now)) ELSE @]
    BY <1>7 DEF Hear, e, hint
  <2>4. k \in Healths /\ e \in Tolds /\ BlocksOK(k, e, now)
    <3>1. ~old.capacity /\ hint <= now + BackoffCap
      BY <1>7
    <3> QED BY Zenon, <1>2, <2>2, <2>3, <3>1, <1>ThrottleOK
  <2> QED BY Zenon, <2>4 DEF k, e
<1>8. CASE report.status = 429 /\ ~rated
  <2> DEFINE at == IF hint # NoTime THEN hint ELSE rateLimitReset(old, now)
             transient == transientRateLimit(report)
             short == hint = NoTime \/ hint <= now + BackoffCap
  <2>1. k = RateLimited(old, now, transient, hint)
    BY <1>8 DEF Failure, k, hint
  <2>2. ~(transient /\ ~old.capacity /\ short)
    <3>1. short => hint <= now + BackoffCap
      BY <1>2, <1>3 DEF NoTime
    <3>2. transient => report.transient
      BY DEF transientRateLimit
    <3> HIDE DEF short, transient
    <3> QED BY Zenon, <1>8, <3>1, <3>2
  <2> HIDE DEF transient
  <2>3. k = exhaustUntil(old, at)
    BY <2>1, <2>2 DEF RateLimited
  <2>4. e = [heard EXCEPT !.exhausted = Latest(@, at)]
    BY <1>8 DEF Hear, e, hint
  <2>5. at \in Nat
    BY <1>2, <1>4
  <2> HIDE DEF at
  <2>6. k \in Healths /\ e \in Tolds /\ BlocksOK(k, e, now)
    BY Zenon, <2>3, <2>4, <2>5, <1>ExhaustOK
  <2> QED BY Zenon, <2>6 DEF k, e
<1>9. CASE report.status \notin {0, 401, 403, 429}
  <2>1. k = old
    BY <1>9 DEF Failure, k
  <2>2. e = heard
    BY <1>9 DEF Hear, e
  <2> QED BY <1>1, <2>1, <2>2 DEF k, e
<1> QED BY Zenon, <1>5, <1>6, <1>7, <1>8, <1>9

(* Time passes.                                                            *)
LEMMA HealthLater ==
  ASSUME NEW t \in Nat, NEW h, NEW d, HealthOK(h, d, t)
  PROVE  HealthOK(h, d, t + 1)
<1>1. h \in Healths /\ d \in Tolds /\ BlocksOK(h, d, t)
  BY DEF HealthOK
<1>2. /\ h.suspended \in Nat /\ h.exhausted \in Nat /\ h.throttled \in Nat /\ h.streak \in Nat
      /\ BackoffCap \in Nat /\ FallbackCooldown \in Nat
  BY <1>1, HealthParts
<1>3. d.suspended \in Nat /\ d.exhausted \in Nat /\ d.throttled \in Nat /\ d.earned \in Nat
  BY <1>1, ToldParts
<1>4. d.rate \subseteq 0 .. t /\ h.streak <= Cardinality(d.rate)
  BY <1>1 DEF BlocksOK
<1>5. d.rate \subseteq 0 .. t + 1 /\ d.rate \ {t + 1} = d.rate
  BY <1>4
<1>6. h.throttled <= t + 1 + BackoffCap
  BY <1>1, <1>2 DEF BlocksOK
<1>7. /\ d.suspended <= t \/ d.suspended <= h.suspended
      /\ h.suspended <= t \/ h.suspended <= d.suspended
      /\ d.exhausted <= t \/ d.exhausted <= h.exhausted
      /\ h.exhausted <= t \/ h.exhausted <= d.exhausted \/ h.exhausted <= d.earned
      /\ BackoffCap <= FallbackCooldown =>
           (d.throttled <= t \/ d.throttled <= h.throttled \/ d.throttled <= h.exhausted)
  BY Zenon, <1>1 DEF BlocksOK
<1>8. \A n \in Nat : n <= t => n <= t + 1
  OBVIOUS
<1>9. BlocksOK(h, d, t + 1)
  BY Zenon, <1>2, <1>3, <1>4, <1>5, <1>6, <1>7, <1>8 DEF BlocksOK
<1> QED BY Zenon, <1>9 DEF HealthOK

(* The health of a new account.                                            *)
LEMMA NewHealth ==
  ASSUME Counting, NEW t \in Nat
  PROVE  HealthOK(NoHealth, NeverTold, t)
<1>1. BackoffCap \in Nat /\ MaxThrottles \in Nat
  BY AccountHealthAssumption
<1>2. /\ NoHealth.suspended = 0 /\ NoHealth.exhausted = 0 /\ NoHealth.capacity = FALSE /\ NoHealth.resets = 0
      /\ NoHealth.throttled = 0 /\ NoHealth.streak = 0
  BY DEF NoHealth, NoTime
<1>3. NoHealth \in Healths
  <2>1. 0 \in 0 .. MaxThrottles /\ 0 \in Nat
    BY <1>1
  <2> QED BY <2>1 DEF NoHealth, NoTime, Healths
<1>4. /\ NeverTold \in Tolds
      /\ NeverTold.suspended = 0 /\ NeverTold.exhausted = 0 /\ NeverTold.throttled = 0
      /\ NeverTold.rate = {} /\ NeverTold.earned = 0
  BY DEF NeverTold, NoTime, Tolds
<1>5. /\ NeverTold.rate \subseteq 0 .. t /\ NoHealth.streak <= Cardinality(NeverTold.rate)
      /\ NoHealth.streak <= Cardinality(NeverTold.rate \ {t})
  <2>1. {} \in SUBSET (0 .. t)
    OBVIOUS
  <2>2. Cardinality({}) \in Nat /\ Cardinality({} \ {t}) \in Nat
    BY Zenon, <2>1, RateCount
  <2> QED BY <1>2, <1>4, <2>2
<1>6. /\ NoHealth.throttled <= t + BackoffCap /\ NeverTold.suspended <= t /\ NoHealth.suspended <= t
      /\ NeverTold.exhausted <= t /\ NoHealth.exhausted <= t /\ NeverTold.throttled <= t
  BY <1>1, <1>2, <1>4
<1>7. BlocksOK(NoHealth, NeverTold, t)
  BY Zenon, <1>5, <1>6 DEF BlocksOK
<1> QED BY Zenon, <1>2, <1>3, <1>4, <1>7 DEF HealthOK, NoTime

---------------------------------------------------------------------------
(* The health in state.json.                                               *)

SavedHealths == [suspended : Nat, exhausted : Nat]

(* The blocks that are saved, against what the account was told.           *)
SavedOK(s, d, t) ==
  /\ s \in SavedHealths
  /\ d.suspended <= t \/ d.suspended <= s.suspended
  /\ s.suspended <= t \/ s.suspended <= d.suspended
  /\ d.exhausted <= t \/ d.exhausted <= s.exhausted

(* The fields of a saved health.                                           *)
LEMMA SavedParts ==
  ASSUME NEW s \in SavedHealths
  PROVE  s.suspended \in Nat /\ s.exhausted \in Nat
BY DEF SavedHealths

(* What is written keeps every block that has not passed.                  *)
LEMMA PersistedOK ==
  ASSUME NEW t \in Nat, NEW h, NEW d, HealthOK(h, d, t)
  PROVE  SavedOK(persisted(h, t), d, t)
<1>1. h \in Healths /\ d \in Tolds /\ BlocksOK(h, d, t)
  BY DEF HealthOK
<1>2. h.suspended \in Nat /\ h.exhausted \in Nat
  BY <1>1, HealthParts
<1>3. d.suspended \in Nat /\ d.exhausted \in Nat
  BY <1>1, ToldParts
<1> DEFINE x == IF h.suspended > t THEN h.suspended ELSE NoTime
           y == IF h.exhausted > t THEN h.exhausted ELSE NoTime
           s == persisted(h, t)
<1>4. s = [suspended |-> x, exhausted |-> y]
  BY DEF persisted
<1>5. x \in Nat /\ y \in Nat
  BY <1>2 DEF NoTime
<1>6. /\ d.suspended <= t \/ d.suspended <= x
      /\ x <= t \/ x <= d.suspended
      /\ d.exhausted <= t \/ d.exhausted <= y
  BY <1>1, <1>2, <1>3 DEF BlocksOK, NoTime
<1> HIDE DEF x, y, s
<1>7. s \in SavedHealths /\ s.suspended = x /\ s.exhausted = y
  BY <1>4, <1>5 DEF SavedHealths
<1> QED BY Zenon, <1>6, <1>7 DEF SavedOK, s

(* What is restored is what was told, and what the account is told by it.  *)
LEMMA RestoredOK ==
  ASSUME Counting, NEW t \in Nat, NEW s, NEW d \in Tolds, SavedOK(s, d, t)
  PROVE  LET h == restorePersistedHealth(s, t)
             e == [d EXCEPT !.throttled = NoTime, !.rate = {}, !.exhausted = Latest(@, s.exhausted)]
         IN h \in Healths /\ e \in Tolds /\ BlocksOK(h, e, t) /\ SavedOK(s, e, t)
<1>1. s \in SavedHealths /\ s.suspended \in Nat /\ s.exhausted \in Nat
  BY SavedParts DEF SavedOK
<1>2. d.suspended \in Nat /\ d.exhausted \in Nat
  BY ToldParts
<1> DEFINE x == IF s.suspended > t THEN s.suspended ELSE NoTime
           y == IF s.exhausted > t THEN s.exhausted ELSE NoTime
           z == Latest(d.exhausted, s.exhausted)
           h == restorePersistedHealth(s, t)
           e == [d EXCEPT !.throttled = NoTime, !.rate = {}, !.exhausted = Latest(@, s.exhausted)]
<1>3. h = [NoHealth EXCEPT !.suspended = x, !.exhausted = y]
  BY DEF restorePersistedHealth
<1>4. e = [d EXCEPT !.throttled = NoTime, !.rate = {}, !.exhausted = z]
  BY DEF Tolds
<1>5. x \in Nat /\ y \in Nat /\ z \in Nat
  BY <1>1, <1>2 DEF NoTime, Latest
<1>6. /\ d.suspended <= t \/ d.suspended <= x
      /\ x <= t \/ x <= d.suspended
      /\ z <= t \/ z <= y
      /\ y <= t \/ y <= z
      /\ z <= t \/ z <= s.exhausted
  BY <1>1, <1>2 DEF SavedOK, NoTime, Latest
<1> HIDE DEF x, y, z, h, e
<1>7. MaxThrottles \in Nat /\ BackoffCap \in Nat
  BY AccountHealthAssumption
<1>8. h \in Healths /\ h.suspended = x /\ h.exhausted = y /\ h.throttled = 0 /\ h.streak = 0
  <2>1. h = [suspended |-> x, exhausted |-> y, capacity |-> FALSE, resets |-> 0, throttled |-> 0, streak |-> 0]
    BY Zenon, <1>3 DEF NoHealth, NoTime
  <2>2. h.suspended = x /\ h.exhausted = y /\ h.throttled = 0 /\ h.streak = 0
    BY <2>1
  <2>3. 0 \in 0 .. MaxThrottles /\ 0 \in Nat
    BY <1>7
  <2>4. h \in Healths
    BY <1>5, <2>1, <2>3 DEF Healths
  <2> QED BY <2>2, <2>4
<1>9. /\ e \in Tolds /\ e.suspended = d.suspended /\ e.exhausted = z /\ e.throttled = 0
      /\ e.rate = {} /\ e.earned = d.earned
  BY Zenon, <1>4, <1>5 DEF Tolds, NoTime
<1>10. e.rate \subseteq 0 .. t /\ h.streak <= Cardinality(e.rate) /\ h.streak <= Cardinality(e.rate \ {t})
  <2>1. {} \in SUBSET (0 .. t)
    OBVIOUS
  <2>2. Cardinality({}) \in Nat /\ Cardinality({} \ {t}) \in Nat
    BY Zenon, <2>1, RateCount
  <2>3. 0 <= Cardinality({}) /\ 0 <= Cardinality({} \ {t})
    BY <2>2
  <2> QED BY Zenon, <1>8, <1>9, <2>1, <2>3
<1>11. h.throttled <= t + BackoffCap /\ e.throttled <= t
  BY <1>7, <1>8, <1>9
<1>12. BlocksOK(h, e, t)
  BY Zenon, <1>6, <1>8, <1>9, <1>10, <1>11 DEF BlocksOK
<1>13. SavedOK(s, e, t)
  BY Zenon, <1>6, <1>9 DEF SavedOK
<1> QED BY Zenon, <1>8, <1>9, <1>12, <1>13 DEF h, e

(* An unblock lifts what the account was told, the suspension apart.       *)
LEMMA UnblockOK ==
  ASSUME Counting, NEW time \in Nat, NEW old, NEW heard, HealthOK(old, heard, time), NEW disk, SavedOK(disk, heard, time)
  PROVE  LET k == clearThrottle([old EXCEPT !.exhausted = NoTime])
             e == [NeverTold EXCEPT !.suspended = heard.suspended]
         IN k \in Healths /\ e \in Tolds /\ BlocksOK(k, e, time) /\ SavedOK(disk, e, time)
  (* What is left of it by an unblock. *)
<1>ToldUnblocked. ASSUME NEW x \in Nat
     PROVE  LET e == [NeverTold EXCEPT !.suspended = x] IN
            /\ e \in Tolds /\ e.suspended = x /\ e.exhausted = 0
            /\ e.throttled = 0 /\ e.rate = {} /\ e.earned = 0
  BY <1>ToldUnblocked DEF Tolds, NeverTold, NoTime
<1> DEFINE g == [old EXCEPT !.exhausted = NoTime]
           k == clearThrottle(g)
           e == [NeverTold EXCEPT !.suspended = heard.suspended]
<1>1. old \in Healths /\ heard \in Tolds /\ BlocksOK(old, heard, time)
  BY DEF HealthOK
<1>2. heard.suspended \in Nat /\ NoTime \in Nat /\ NoTime = 0
  BY <1>1, ToldParts DEF NoTime
<1>3. g \in Healths /\ g.suspended = old.suspended /\ g.exhausted = NoTime
  BY <1>1, <1>2, HealthExhausted
<1> HIDE DEF g
<1>4. k \in Healths /\ k.suspended = old.suspended /\ k.exhausted = 0 /\ k.throttled = 0 /\ k.streak = 0
  BY <1>2, <1>3, HealthCleared
<1>5. /\ e \in Tolds /\ e.suspended = heard.suspended /\ e.exhausted = 0
      /\ e.throttled = 0 /\ e.rate = {} /\ e.earned = 0
  BY <1>2, <1>ToldUnblocked
<1> HIDE DEF k, e
<1>6. k.throttled <= time + BackoffCap /\ e.throttled <= time /\ e.exhausted <= time /\ k.exhausted <= time
  <2>1. BackoffCap \in Nat
    BY AccountHealthAssumption
  <2> QED BY <1>4, <1>5, <2>1
<1>7. e.rate \subseteq 0 .. time /\ k.streak <= Cardinality(e.rate) /\ k.streak <= Cardinality(e.rate \ {time})
  <2>1. {} \in SUBSET (0 .. time)
    OBVIOUS
  <2>2. Cardinality({}) \in Nat /\ Cardinality({} \ {time}) \in Nat
    BY Zenon, <2>1, RateCount
  <2>3. 0 <= Cardinality({}) /\ 0 <= Cardinality({} \ {time})
    BY <2>2
  <2> QED BY Zenon, <1>4, <1>5, <2>1, <2>3
<1>8. BlocksOK(k, e, time)
  BY Zenon, <1>1, <1>4, <1>5, <1>6, <1>7 DEF BlocksOK
<1>9. SavedOK(disk, e, time)
  BY Zenon, <1>5, <1>6 DEF SavedOK
<1> QED BY Zenon, <1>4, <1>5, <1>8, <1>9 DEF k, e, g

(* Time passes.                                                            *)
LEMMA SavedLater ==
  ASSUME NEW t \in Nat, NEW s, NEW d \in Tolds, SavedOK(s, d, t)
  PROVE  SavedOK(s, d, t + 1)
<1>1. s.suspended \in Nat /\ s.exhausted \in Nat
  BY SavedParts DEF SavedOK
<1>2. d.suspended \in Nat /\ d.exhausted \in Nat
  BY ToldParts
<1> QED BY <1>1, <1>2 DEF SavedOK

---------------------------------------------------------------------------
(* The ledger.                                                             *)

(* Every charged record is distinct and known to the filter, unless its    *)
(* hash was dropped.                                                       *)
Once(events, dropped) ==
  \A i, j \in DOMAIN events :
    events[i].record = events[j].record => i = j \/ events[i].record \in dropped

Known(events, hashes, dropped) ==
  \A i \in DOMAIN events : events[i].record \in dropped \/ seenDedup(hashes, events[i].record)

(* What is left of a sequence without its first k elements.                *)
LEMMA Drop ==
  ASSUME NEW S, NEW s \in Seq(S), NEW k \in 0 .. Len(s)
  PROVE  /\ DropFirst(s, k) \in Seq(S)
         /\ Len(DropFirst(s, k)) = Len(s) - k
         /\ \A i \in 1 .. Len(s) - k : DropFirst(s, k)[i] = s[k + i]
<1>1. k + 1 \in Int /\ Len(s) \in Int /\ k \in Int /\ \A i \in k + 1 .. Len(s) : s[i] \in S
  OBVIOUS
<1>2. SubSeq(s, k + 1, Len(s)) \in Seq(S)
  BY <1>1
<1>3. Len(SubSeq(s, k + 1, Len(s))) = Len(s) - k
  BY <1>1
<1>4. \A i \in 1 .. Len(s) - k : SubSeq(s, k + 1, Len(s))[i] = s[k + 1 + i - 1]
  BY <1>1
<1>5. \A i \in 1 .. Len(s) - k : k + 1 + i - 1 = k + i
  BY <1>1
<1> QED BY <1>2, <1>3, <1>4, <1>5 DEF DropFirst

(* The ledger after compact.                                               *)
LEMMA CompactKeeps ==
  ASSUME Counting, NEW ledger \in Seq(Event), NEW time \in Nat, InOrder(ledger)
  PROVE  /\ compact(ledger, time) \in Seq(Event)
         /\ InOrder(compact(ledger, time))
         /\ \A i \in DOMAIN compact(ledger, time) : \E j \in DOMAIN ledger : compact(ledger, time)[i] = ledger[j]
         /\ \A dropped : Once(ledger, dropped) => Once(compact(ledger, time), dropped)
  (* compact leaves the events from some position on. *)
<1>CompactPlace. ASSUME NEW events \in Seq(Event), NEW t \in Nat
     PROVE  \E k \in 0 .. Len(events) :
              /\ compact(events, t) \in Seq(Event)
              /\ Len(compact(events, t)) = Len(events) - k
              /\ \A i \in 1 .. Len(events) - k : compact(events, t)[i] = events[k + i]
  <2> USE <1>CompactPlace
  <2> DEFINE n == Len(events)
             kept == {i \in DOMAIN events : events[i].at > t - Retention}
             first == CHOOSE i \in kept : \A j \in kept : i <= j
  <2>0. n \in Nat /\ DOMAIN events = 1..n /\ kept \in SUBSET (1..n)
    OBVIOUS
  <2>1. CASE kept = {}
    <3>1. compact(events, t) = <<>>
      BY <2>1 DEF compact
    <3>2. n \in 0..n /\ <<>> \in Seq(Event) /\ Len(<<>>) = n - n /\ 1 .. n - n = {}
      BY <2>0
    <3> QED BY <3>1, <3>2
  <2>2. CASE kept # {}
    <3>1. first \in kept
      <4> HIDE DEF kept, n
      <4> QED BY Zenon, <2>0, <2>2, First
    <3>2. compact(events, t) = DropFirst(events, first - 1)
      BY <2>2 DEF compact
    <3>3. first - 1 \in 0 .. n
      BY <2>0, <3>1
    <3> HIDE DEF first, kept
    <3> QED BY Zenon, <3>2, <3>3, Drop
  <2> QED BY Zenon, <2>1, <2>2
<1> DEFINE r == compact(ledger, time)
           n == Len(ledger)
<1>1. PICK k \in 0..n : r \in Seq(Event) /\ Len(r) = n - k /\ \A i \in 1 .. n - k : r[i] = ledger[k + i]
  BY Zenon, <1>CompactPlace
<1> HIDE DEF r
<1>2. n \in Nat /\ DOMAIN ledger = 1..n /\ DOMAIN r = 1 .. n - k
  BY <1>1
<1>3. \A i \in 1 .. n - k : k + i \in 1..n
  BY <1>2
<1>4. InOrder(r)
  <2> SUFFICES ASSUME NEW i \in 1 .. n - k, NEW j \in 1 .. n - k, i <= j PROVE r[i].at <= r[j].at
    BY <1>2 DEF InOrder
  <2>1. k + i <= k + j /\ k + i \in 1..n /\ k + j \in 1..n
    BY <1>2, <1>3
  <2>2. ledger[k + i].at <= ledger[k + j].at
    BY <1>2, <2>1 DEF InOrder
  <2> QED BY <1>1, <2>2
<1>5. ASSUME NEW dropped, Once(ledger, dropped) PROVE Once(r, dropped)
  <2> SUFFICES ASSUME NEW i \in 1 .. n - k, NEW j \in 1 .. n - k, r[i].record = r[j].record, i # j
               PROVE  r[i].record \in dropped
    BY <1>2 DEF Once
  <2>1. k + i # k + j
    BY <1>2
  <2> QED BY Zenon, <1>1, <1>2, <1>3, <1>5, <2>1 DEF Once
<1> QED BY Zenon, <1>1, <1>2, <1>3, <1>4, <1>5 DEF r

QuotaWindow == [consumed : Nat, bucket : Nat, resets : Nat]

Answers == [plan : DOMAIN PlanBuckets \cup {None}, weekly : QuotaWindow, five : QuotaWindow,
            fiveError : BOOLEAN, at : Nat]

Ledgers == [auth : Answers \cup {None}, events : Seq(Event), hashes : Seq(Records)]

AnswerOK(auth, t) ==
  /\ auth \in Answers
  /\ auth.at <= t
  /\ ValidWindow(auth.weekly, auth.at)
  /\ IF auth.fiveError THEN auth.five = NoWindow ELSE ValidWindow(auth.five, auth.at)

(* What holds of the quota of an account at time t, if the filter has      *)
(* dropped these records.                                                  *)
LedgerOK(q, t, dropped) ==
  /\ q \in Ledgers
  /\ Len(q.hashes) <= MaxDedup
  /\ q.auth # None => AnswerOK(q.auth, t)
  /\ InOrder(q.events)
  /\ \A i \in DOMAIN q.events : q.events[i].at <= t + ClockSkew
  /\ Once(q.events, dropped)
  /\ Known(q.events, q.hashes, dropped)

(* A ledger has the parts it should.                                       *)
LEMMA LedgerParts ==
  ASSUME NEW q \in Ledgers
  PROVE  q.auth \in Answers \cup {None} /\ q.events \in Seq(Event) /\ q.hashes \in Seq(Records)
BY DEF Ledgers

(* A ledger with other hashes, and one with other events.                  *)
Rehashed(p, q, hashes) == p \in Ledgers /\ p.hashes = hashes /\ p.auth = q.auth /\ p.events = q.events

Recharged(p, q, events) == p \in Ledgers /\ p.events = events /\ p.auth = q.auth /\ p.hashes = q.hashes

(* Changing the hashes of a ledger leaves the rest.                        *)
LEMMA HashesChange ==
  ASSUME NEW q \in Ledgers, NEW hashes \in Seq(Records)
  PROVE  Rehashed([q EXCEPT !.hashes = hashes], q, hashes)
BY DEF Ledgers, Rehashed

(* Changing the events of a ledger leaves the rest.                        *)
LEMMA EventsChange ==
  ASSUME NEW q \in Ledgers, NEW events \in Seq(Event)
  PROVE  Recharged([q EXCEPT !.events = events], q, events)
BY DEF Ledgers, Recharged

(* A later time and more dropped records keep a ledger in order.           *)
LEMMA LedgerLater ==
  ASSUME NEW t \in Nat, NEW u \in Nat, t <= u, NEW dropped, NEW more,
         NEW q, LedgerOK(q, t, dropped)
  PROVE  LedgerOK(q, u, dropped \cup more)
<1>1. q.auth # None => AnswerOK(q.auth, u)
  BY DEF LedgerOK, AnswerOK, Answers
<1>2. \A i \in DOMAIN q.events : q.events[i].at <= u + ClockSkew
  <2>1. q.events \in Seq(Event)
    BY LedgerParts DEF LedgerOK
  <2>2. \A i \in DOMAIN q.events : q.events[i].at \in Nat
    <3>1. \A i \in DOMAIN q.events : q.events[i] \in Event
      BY <2>1
    <3> QED BY <3>1 DEF Event
  <2> QED BY <2>2, ZaiRoutingAssumption DEF LedgerOK
<1>3. Once(q.events, dropped \cup more) /\ Known(q.events, q.hashes, dropped \cup more)
  BY Zenon DEF LedgerOK, Once, Known
<1> QED BY <1>1, <1>2, <1>3 DEF LedgerOK

Forgotten(old, new) == {old[i] : i \in {j \in DOMAIN old : ~seenDedup(new, old[j])}}

(* The ledger p is in order if q was, and has the same answer.             *)
Charged(q, p, t, dropped) ==
  LedgerOK(p, t, dropped \cup Forgotten(q.hashes, p.hashes)) /\ p.auth = q.auth

(* Account keeps the ledger in order and charges a record once.            *)
LEMMA AccountOK ==
  ASSUME Counting, NEW time \in Nat \ {0}, NEW gone, NEW ledger, LedgerOK(ledger, time, gone),
         NEW usage \in Records, usage # None
  PROVE  Charged(ledger, Account(ledger, usage, time), time, gone)
  (* The events r are those of s, then e, then those of t.                   *)
<1> DEFINE Joined(r, s, e, t) ==
             /\ r \in Seq(Event) /\ Len(r) = Len(s) + 1 + Len(t)
             /\ \A i \in 1 .. Len(s) : r[i] = s[i]
             /\ r[Len(s) + 1] = e
             /\ \A i \in 1 .. Len(t) : r[Len(s) + 1 + i] = t[i]
<1> HIDE DEF Joined
  (* An element between two sequences. *)
<1>Between. ASSUME NEW s \in Seq(Event), NEW t \in Seq(Event), NEW e \in Event
     PROVE  Joined(s \o <<e>> \o t, s, e, t)
  <2> USE <1>Between
  <2> DEFINE u == s \o <<e>>
  <2>1. u \in Seq(Event) /\ Len(u) = Len(s) + 1 /\ u[Len(s) + 1] = e /\ \A i \in 1 .. Len(s) : u[i] = s[i]
    OBVIOUS
  <2> HIDE DEF u
  <2>2. u \o t \in Seq(Event) /\ Len(u \o t) = Len(u) + Len(t)
    BY <2>1
  <2>3. \A i \in 1 .. Len(u) : (u \o t)[i] = u[i]
    BY <2>1
  <2>4. \A i \in 1 .. Len(t) : (u \o t)[Len(u) + i] = t[i]
    BY <2>1
  <2>5. /\ u \o t \in Seq(Event)
        /\ Len(u \o t) = Len(s) + 1 + Len(t)
        /\ \A i \in 1 .. Len(s) : (u \o t)[i] = s[i]
        /\ (u \o t)[Len(s) + 1] = e
        /\ \A i \in 1 .. Len(t) : (u \o t)[Len(s) + 1 + i] = t[i]
    BY <2>1, <2>2, <2>3, <2>4
  <2> QED BY Zenon, <2>5 DEF u, Joined
  (* addEvent leaves the events as they are, or puts the new one at a place  *)
  (* where all before it are not later and all from it on are later.         *)
<1>AddEventPlace. ASSUME NEW events \in Seq(Event), NEW e \in Event, InOrder(events)
     PROVE  \E k \in 0 .. Len(events) :
              /\ addEvent(events, e) \in Seq(Event)
              /\ Len(addEvent(events, e)) = Len(events) + 1
              /\ \A i \in 1 .. k : addEvent(events, e)[i] = events[i] /\ events[i].at <= e.at
              /\ addEvent(events, e)[k + 1] = e
              /\ \A i \in k + 1 .. Len(events) : addEvent(events, e)[i + 1] = events[i] /\ events[i].at > e.at
  <2> USE <1>AddEventPlace
  <2> DEFINE n == Len(events)
             later == {i \in DOMAIN events : events[i].at > e.at}
             first == CHOOSE i \in later : \A j \in later : i <= j
             k == IF later = {} THEN n ELSE first - 1
             r == SubSeq(events, 1, k) \o <<e>> \o SubSeq(events, k + 1, n)
  <2>0. n \in Nat /\ DOMAIN events = 1..n /\ \A i \in 1..n : events[i] \in Event
    OBVIOUS
  <2>1. later # {} => first \in later /\ \A j \in later : first <= j
    <3>1. later \in SUBSET (1..n)
      BY <2>0
    <3> HIDE DEF later, n
    <3> QED BY Zenon, <2>0, <3>1, First
  <2> HIDE DEF first
  <2>2. k \in 0..n
    BY <2>0, <2>1
  <2>3. \A i \in 1..k : events[i].at <= e.at
    <3> SUFFICES ASSUME NEW i \in 1..k PROVE events[i].at <= e.at
      OBVIOUS
    <3>1. i \in 1..n /\ i \notin later
      BY <2>0, <2>1, <2>2
    <3>2. events[i].at \in Nat /\ e.at \in Nat
      BY <2>0, <3>1 DEF Event
    <3> QED BY <2>0, <3>1, <3>2
  <2>4. \A i \in k + 1 .. n : events[i].at > e.at
    <3> SUFFICES ASSUME NEW i \in k + 1 .. n PROVE events[i].at > e.at
      OBVIOUS
    <3>1. later # {} /\ k = first - 1 /\ first \in 1..n /\ i \in 1..n /\ first <= i /\ events[first].at > e.at
      BY <2>0, <2>1, <2>2
    <3>2. events[first].at <= events[i].at
      BY <2>0, <3>1 DEF InOrder
    <3>3. events[first].at \in Nat /\ events[i].at \in Nat /\ e.at \in Nat
      BY <2>0, <3>1 DEF Event
    <3> QED BY <3>1, <3>2, <3>3
  <2>5. addEvent(events, e) = r
    <3>1. e.credits > 0 /\ ~(e.credits <= 0)
      BY DEF Event
    <3> QED BY Zenon, <3>1 DEF addEvent, DropFirst, first
  <2> HIDE DEF k, n
  <2>6. SubSeq(events, 1, k) \in Seq(Event) /\ Len(SubSeq(events, 1, k)) = k
         /\ \A i \in 1..k : SubSeq(events, 1, k)[i] = events[i]
    BY <2>0, <2>2 DEF n
  <2>7. DropFirst(events, k) \in Seq(Event) /\ Len(DropFirst(events, k)) = n - k
         /\ \A i \in 1 .. n - k : DropFirst(events, k)[i] = events[k + i]
    BY Zenon, <2>2, Drop DEF n
  <2> DEFINE a == SubSeq(events, 1, k)
             b == DropFirst(events, k)
  <2>8. /\ r \in Seq(Event) /\ Len(r) = k + 1 + (n - k)
        /\ \A i \in 1 .. k : r[i] = a[i]
        /\ r[k + 1] = e
        /\ \A i \in 1 .. n - k : r[k + 1 + i] = b[i]
    <3>1. a \in Seq(Event) /\ Len(a) = k /\ b \in Seq(Event) /\ Len(b) = n - k /\ r = a \o <<e>> \o b
      BY <2>6, <2>7 DEF DropFirst, n
    <3> HIDE DEF a, b, r
    <3>2. Joined(a \o <<e>> \o b, a, e, b)
      <4>1. a \in Seq(Event) /\ b \in Seq(Event) /\ e \in Event
        BY <3>1
      <4> QED BY Zenon, <4>1, <1>Between
    <3>3. Joined(r, a, e, b)
      BY Zenon, <3>1, <3>2
    <3> QED BY Zenon, <3>1, <3>3 DEF Joined
  <2> HIDE DEF r
  <2>9. \A i \in k + 1 .. n : r[i + 1] = events[i]
    <3> SUFFICES ASSUME NEW i \in k + 1 .. n PROVE r[i + 1] = events[i]
      OBVIOUS
    <3>1. i - k \in 1 .. n - k /\ k + 1 + (i - k) = i + 1 /\ k + (i - k) = i
      BY <2>0, <2>2
    <3> QED BY <2>7, <2>8, <3>1
  <2>10. Len(r) = n + 1 /\ \A i \in 1 .. k : r[i] = events[i]
    <3>1. Len(r) = n + 1
      <4> HIDE DEF a, b
      <4> QED BY <2>0, <2>2, <2>8
    <3> QED BY Zenon, <2>6, <2>8, <3>1
  <2> QED BY <2>2, <2>3, <2>4, <2>5, <2>8, <2>9, <2>10 DEF n
  (* The ledger after addEvent: in order, with the new record known. *)
<1>AddEventKeeps. ASSUME NEW events \in Seq(Event), NEW e \in Event, InOrder(events)
     PROVE  /\ addEvent(events, e) \in Seq(Event)
            /\ InOrder(addEvent(events, e))
            /\ \A i \in DOMAIN addEvent(events, e) :
                 addEvent(events, e)[i] = e \/ \E j \in DOMAIN events : addEvent(events, e)[i] = events[j]
            /\ \A dropped : Once(events, dropped)
                   /\ (\A i \in DOMAIN events : events[i].record # e.record \/ e.record \in dropped)
                 => Once(addEvent(events, e), dropped)
  <2> USE <1>AddEventKeeps
  <2> DEFINE r == addEvent(events, e)
             n == Len(events)
  <2>1. PICK k \in 0..n :
          /\ r \in Seq(Event) /\ Len(r) = n + 1
          /\ \A i \in 1 .. k : r[i] = events[i] /\ events[i].at <= e.at
          /\ r[k + 1] = e
          /\ \A i \in k + 1 .. n : r[i + 1] = events[i] /\ events[i].at > e.at
    BY Zenon, <1>AddEventPlace
  <2> HIDE DEF r
  <2>2. n \in Nat /\ DOMAIN events = 1..n /\ DOMAIN r = 1..(n + 1)
    BY <2>1
  <2> DEFINE old(i) == IF i <= k THEN i ELSE i - 1
  <2>3. \A i \in 1..(n + 1) : i # k + 1 => old(i) \in 1..n /\ r[i] = events[old(i)]
    <3> SUFFICES ASSUME NEW i \in 1..(n + 1), i # k + 1 PROVE old(i) \in 1..n /\ r[i] = events[old(i)]
      OBVIOUS
    <3>1. CASE i <= k
      BY <2>1, <2>2, <3>1
    <3>2. CASE i > k
      <4>1. i - 1 \in k + 1 .. n /\ (i - 1) + 1 = i /\ old(i) = i - 1
        BY <2>2, <3>2
      <4>2. \A j \in k + 1 .. n : r[j + 1] = events[j]
        BY Zenon, <2>1
      <4>3. r[(i - 1) + 1] = events[i - 1]
        BY Zenon, <4>1, <4>2
      <4>4. k \in 0 .. n
        BY Zenon, <2>1
      <4>5. i - 1 \in 1 .. n
        BY <2>2, <4>1, <4>4
      <4> QED BY Zenon, <4>1, <4>3, <4>5
    <3> QED BY <2>2, <3>1, <3>2
  <2>4. \A i \in 1..n : events[i].at \in Nat
    <3>1. \A i \in 1..n : events[i] \in Event
      BY <2>2
    <3> QED BY <3>1 DEF Event
  <2>5. e.at \in Nat
    BY DEF Event
  <2>6. InOrder(r)
    <3> SUFFICES ASSUME NEW i \in 1..(n + 1), NEW j \in 1..(n + 1), i <= j PROVE r[i].at <= r[j].at
      BY <2>2 DEF InOrder
    <3>1. CASE i = k + 1 /\ j = k + 1
      BY <2>1, <2>5, <3>1
    <3>2. CASE i # k + 1 /\ j # k + 1
      <4>1. old(i) <= old(j) /\ old(i) \in 1..n /\ old(j) \in 1..n
        BY <2>2, <2>3, <3>2
      <4> QED BY Zenon, <2>2, <2>3, <3>2, <4>1 DEF InOrder
    <3>3. CASE i # k + 1 /\ j = k + 1
      <4>1. i \in 1..k
        BY <2>2, <3>3
      <4> QED BY <2>1, <3>3, <4>1
    <3>4. CASE i = k + 1 /\ j # k + 1
      <4>1. j - 1 \in k + 1 .. n /\ (j - 1) + 1 = j
        BY <2>2, <3>4
      <4>2. r[j] = events[j - 1] /\ events[j - 1].at > e.at /\ j - 1 \in 1..n
        BY <2>1, <2>2, <4>1
      <4> QED BY <2>1, <2>4, <2>5, <3>4, <4>2
    <3> QED BY <3>1, <3>2, <3>3, <3>4
  <2>7. \A i \in DOMAIN r : r[i] = e \/ \E j \in DOMAIN events : r[i] = events[j]
    BY Zenon, <2>1, <2>2, <2>3
  <2>8. ASSUME NEW dropped, Once(events, dropped),
               \A i \in DOMAIN events : events[i].record # e.record \/ e.record \in dropped
        PROVE  Once(r, dropped)
    <3> SUFFICES ASSUME NEW i \in 1..(n + 1), NEW j \in 1..(n + 1), r[i].record = r[j].record, i # j
                 PROVE  r[i].record \in dropped
      BY <2>2 DEF Once
    <3>1. CASE i # k + 1 /\ j # k + 1
      <4>1. old(i) # old(j) /\ old(i) \in 1..n /\ old(j) \in 1..n
        BY <2>2, <2>3, <3>1
      <4> QED BY Zenon, <2>2, <2>3, <2>8, <3>1, <4>1 DEF Once
    <3>2. CASE i = k + 1
      BY Zenon, <2>1, <2>2, <2>3, <2>8, <3>2
    <3>3. CASE j = k + 1
      BY Zenon, <2>1, <2>2, <2>3, <2>8, <3>3
    <3> QED BY <3>1, <3>2, <3>3
  <2> QED BY <2>1, <2>6, <2>7, <2>8 DEF r
  (* The duplicate filter keeps its bound and knows the record added. *)
<1>AddHashKeeps. ASSUME NEW hashes \in Seq(Records), NEW record \in Records
     PROVE  /\ addHash(hashes, record) \in Seq(Records)
            /\ Len(hashes) <= MaxDedup => Len(addHash(hashes, record)) <= MaxDedup
            /\ seenDedup(addHash(hashes, record), record)
  <2> USE <1>AddHashKeeps
  <2> DEFINE grown == Append(hashes, record)
             n == Len(hashes) + 1
  <2>1. grown \in Seq(Records) /\ Len(grown) = n /\ grown[n] = record /\ n \in Nat /\ n > 0
    OBVIOUS
  <2>2. MaxDedup \in Nat /\ MaxDedup > 0
    BY QuotaWindowsAssumption
  <2> HIDE DEF grown, n
  <2>3. CASE n > MaxDedup
    <3>1. n - MaxDedup \in 0 .. Len(grown) /\ addHash(hashes, record) = DropFirst(grown, n - MaxDedup)
      BY <2>1, <2>2, <2>3 DEF addHash, grown
    <3> DEFINE d == DropFirst(grown, n - MaxDedup)
    <3>2. d \in Seq(Records) /\ Len(d) = Len(grown) - (n - MaxDedup)
          /\ \A i \in 1 .. Len(grown) - (n - MaxDedup) : d[i] = grown[n - MaxDedup + i]
      BY Zenon, <2>1, <3>1, Drop
    <3> HIDE DEF d
    <3>3. Len(d) = MaxDedup /\ d[MaxDedup] = grown[n - MaxDedup + MaxDedup] /\ n - MaxDedup + MaxDedup = n
      BY <2>1, <2>2, <3>2
    <3>4. MaxDedup \in DOMAIN d /\ d[MaxDedup] = record
      BY <2>1, <2>2, <3>2, <3>3
    <3>5. seenDedup(d, record)
      BY <3>4 DEF seenDedup
    <3>6. Len(d) <= MaxDedup
      BY <2>2, <3>3
    <3> QED BY <3>1, <3>2, <3>5, <3>6 DEF d
  <2>4. CASE ~(n > MaxDedup)
    <3>1. addHash(hashes, record) = grown
      BY <2>1, <2>4 DEF addHash, grown
    <3>2. n \in DOMAIN grown
      BY <2>1
    <3> QED BY <2>1, <2>2, <2>4, <3>1, <3>2 DEF seenDedup
  <2> QED BY <2>3, <2>4
  (* The price of a record is a number. *)
<1>PriceType. ASSUME NEW record \in Records, record # None, NEW at \in Nat
     PROVE  estimateUsageCredits(record, at) \in Nat \cup {None}
  <2> USE <1>PriceType
  <2>1. {record.input, record.created, record.cached, record.output} \subseteq Nat
    BY InputAssumption DEF Records
  <2>2. CASE record.model \in DOMAIN Rates
    <3> DEFINE rates == Rates[record.model]
               total == (record.input + record.created) * rates.input
                          + record.cached * rates.cached + record.output * rates.output
               cost == IF at \in Offpeak THEN total \div 2 ELSE total
    <3>1. {rates.input, rates.cached, rates.output} \subseteq Nat
      BY <2>2, QuotaWindowsAssumption
    <3>2. /\ (record.input + record.created) * rates.input \in Nat
          /\ record.cached * rates.cached \in Nat /\ record.output * rates.output \in Nat
      <4>1. \A x, y \in Nat : x * y \in Nat
        OBVIOUS
      <4>2. record.input + record.created \in Nat
        BY <2>1
      <4> HIDE DEF rates
      <4> QED BY <2>1, <3>1, <4>1, <4>2
    <3>3. total \in Nat
      BY <3>2
    <3> HIDE DEF total
    <3>4. total \div 2 \in Nat
      BY <3>3
    <3>5. cost \in Nat
      BY <3>3, <3>4
    <3>6. estimateUsageCredits(record, at) = IF cost > MaxCredits THEN None ELSE cost
      BY <2>2 DEF estimateUsageCredits, total
    <3> HIDE DEF cost
    <3> QED BY <3>5, <3>6
  <2>3. CASE record.model \notin DOMAIN Rates
    BY <2>3 DEF estimateUsageCredits
  <2> QED BY <2>2, <2>3
  (* A known record stays known to a filter, or is forgotten by it. *)
<1>KnownStays. ASSUME NEW events, NEW old, NEW new, NEW dropped, Known(events, old, dropped)
     PROVE  Known(events, new, dropped \cup Forgotten(old, new))
  BY <1>KnownStays, Zenon DEF Known, seenDedup, Forgotten
  (* Adding a hash to the filter. *)
<1>HashedOK. ASSUME NEW t \in Nat, NEW dropped, NEW q, LedgerOK(q, t, dropped), NEW record \in Records
     PROVE  LET h == addHash(q.hashes, record) IN
            /\ LedgerOK([q EXCEPT !.hashes = h], t, dropped \cup Forgotten(q.hashes, h))
            /\ [q EXCEPT !.hashes = h].hashes = h
            /\ [q EXCEPT !.hashes = h].events = q.events
            /\ [q EXCEPT !.hashes = h].auth = q.auth
            /\ seenDedup(h, record)
  <2> USE <1>HashedOK
  <2> DEFINE h == addHash(q.hashes, record)
             p == [q EXCEPT !.hashes = h]
  <2>1. q \in Ledgers /\ q.hashes \in Seq(Records) /\ q.events \in Seq(Event)
    BY Zenon, LedgerParts DEF LedgerOK
  <2>2. h \in Seq(Records) /\ Len(h) <= MaxDedup /\ seenDedup(h, record)
    BY Zenon, <2>1, <1>AddHashKeeps DEF LedgerOK
  <2> HIDE DEF h
  <2>3. p \in Ledgers /\ p.hashes = h /\ p.events = q.events /\ p.auth = q.auth
    BY Zenon, <2>1, <2>2, HashesChange DEF Rehashed
  <2> HIDE DEF p
  <2>4. LedgerOK(q, t, dropped \cup Forgotten(q.hashes, h))
    <3>1. t <= t
      OBVIOUS
    <3> QED BY Zenon, <3>1, LedgerLater
  <2>5. Known(q.events, h, dropped \cup Forgotten(q.hashes, h))
    BY Zenon, <1>KnownStays DEF LedgerOK
  <2>6. LedgerOK(p, t, dropped \cup Forgotten(q.hashes, h))
    BY Zenon, <2>2, <2>3, <2>4, <2>5 DEF LedgerOK
  <2> QED BY <2>2, <2>3, <2>6 DEF p, h
  (* Charging an event whose record has a fresh hash. *)
<1>ChargedOK. ASSUME NEW t \in Nat, NEW dropped, NEW q, LedgerOK(q, t, dropped), NEW e \in Event,
            e.at <= t + ClockSkew, seenDedup(q.hashes, e.record),
            \A i \in DOMAIN q.events : q.events[i].record # e.record \/ e.record \in dropped
     PROVE  LET c == compact(addEvent(q.events, e), t) IN
            /\ LedgerOK([q EXCEPT !.events = c], t, dropped)
            /\ [q EXCEPT !.events = c].hashes = q.hashes
            /\ [q EXCEPT !.events = c].auth = q.auth
  <2> USE <1>ChargedOK
  <2> DEFINE a == addEvent(q.events, e)
             c == compact(a, t)
             p == [q EXCEPT !.events = c]
  <2>1. q \in Ledgers /\ q.events \in Seq(Event) /\ InOrder(q.events) /\ Once(q.events, dropped)
         /\ Known(q.events, q.hashes, dropped) /\ \A i \in DOMAIN q.events : q.events[i].at <= t + ClockSkew
    BY Zenon, LedgerParts DEF LedgerOK
  <2>2. /\ a \in Seq(Event) /\ InOrder(a) /\ Once(a, dropped)
        /\ \A i \in DOMAIN a : a[i] = e \/ \E j \in DOMAIN q.events : a[i] = q.events[j]
    BY Zenon, <2>1, <1>AddEventKeeps
  <2> HIDE DEF a
  <2>3. /\ c \in Seq(Event) /\ InOrder(c) /\ Once(c, dropped)
        /\ \A i \in DOMAIN c : \E j \in DOMAIN a : c[i] = a[j]
    BY Zenon, <2>2, CompactKeeps
  <2> HIDE DEF c
  <2>4. \A i \in DOMAIN c : c[i] = e \/ \E j \in DOMAIN q.events : c[i] = q.events[j]
    BY Zenon, <2>2, <2>3
  <2>5. \A i \in DOMAIN c : c[i].at <= t + ClockSkew
    BY Zenon, <2>1, <2>4
  <2>6. Known(c, q.hashes, dropped)
    BY Zenon, <2>1, <2>4 DEF Known
  <2>7. p \in Ledgers /\ p.hashes = q.hashes /\ p.events = c /\ p.auth = q.auth
    BY Zenon, <2>1, <2>3, EventsChange DEF Recharged
  <2> HIDE DEF p
  <2>8. LedgerOK(p, t, dropped)
    BY Zenon, <2>3, <2>5, <2>6, <2>7 DEF LedgerOK
  <2> QED BY Zenon, <2>7, <2>8 DEF p, c, a
<1> DEFINE at == usageTimestamp(usage, time)
           cost == estimateUsageCredits(usage, at)
           h == addHash(ledger.hashes, usage)
           hashed == [ledger EXCEPT !.hashes = h]
           more == gone \cup Forgotten(ledger.hashes, h)
           e == [at |-> at, credits |-> cost, record |-> usage]
           p == Account(ledger, usage, time)
<1> SUFFICES LedgerOK(p, time, gone \cup Forgotten(ledger.hashes, p.hashes)) /\ p.auth = ledger.auth
  BY Zenon DEF Charged
<1>1. at \in Nat /\ at # 0
  BY InputAssumption DEF usageTimestamp, Records, NoTime
<1>2. cost \in Nat \cup {None}
  BY <1>1, <1>PriceType
<1> HIDE DEF at, cost
<1>3. ClockSkew \in Nat /\ time \in Nat
  BY ZaiRoutingAssumption
<1>4. LedgerOK(hashed, time, more) /\ hashed.hashes = h /\ hashed.events = ledger.events
       /\ hashed.auth = ledger.auth /\ seenDedup(h, usage)
  BY <1>3, <1>HashedOK
<1>5. CASE at > time + ClockSkew \/ seenDedup(ledger.hashes, usage)
  <2>1. p = ledger
    BY <1>5 DEF Account, at, cost
  <2>2. LedgerOK(ledger, time, gone \cup Forgotten(ledger.hashes, ledger.hashes))
    <3>1. time <= time
      BY <1>3
    <3> QED BY <1>3, <3>1, LedgerLater
  <2> QED BY <2>1, <2>2
<1>6. CASE ~(at > time + ClockSkew \/ seenDedup(ledger.hashes, usage)) /\ cost = None
  <2>1. p = hashed
    BY Zenon, <1>6 DEF Account, at, cost
  <2> HIDE DEF hashed, h
  <2> QED BY Zenon, <1>4, <2>1
<1>7. CASE ~(at > time + ClockSkew \/ seenDedup(ledger.hashes, usage)) /\ cost # None
  <2> DEFINE c == compact(addEvent(hashed.events, e), time)
  <2>1. p = [hashed EXCEPT !.events = c]
    BY Zenon, <1>7 DEF Account, at, cost
  <2>2. cost \in Nat /\ at <= time + ClockSkew
    BY <1>1, <1>2, <1>3, <1>7
  <2>3. \A i \in DOMAIN hashed.events : hashed.events[i].record # usage \/ usage \in more
    <3> HIDE DEF hashed, h
    <3> QED BY Zenon, <1>4, <1>7 DEF LedgerOK, Known
  <2>4. CASE cost > 0
    <3>1. e \in Event /\ e.at = at /\ e.record = usage
      BY <1>1, <2>2, <2>4 DEF Event
    <3> HIDE DEF hashed, h, e, more
    <3>2. seenDedup(hashed.hashes, e.record) /\ e.at <= time + ClockSkew
          /\ \A i \in DOMAIN hashed.events : hashed.events[i].record # e.record \/ e.record \in more
      BY Zenon, <1>4, <2>2, <2>3, <3>1
    <3>3. LedgerOK([hashed EXCEPT !.events = c], time, more)
          /\ [hashed EXCEPT !.events = c].hashes = hashed.hashes
          /\ [hashed EXCEPT !.events = c].auth = hashed.auth
      <4>1. LedgerOK(hashed, time, more) /\ time \in Nat /\ e \in Event
        BY <1>3, <1>4, <3>1
      <4> QED BY <3>2, <4>1, <1>ChargedOK
    <3>4. LedgerOK(p, time, more) /\ p.hashes = h /\ p.auth = ledger.auth
      BY Zenon, <1>4, <2>1, <3>3
    <3> QED BY Zenon, <3>4 DEF more
  <2>5. CASE ~(cost > 0)
    <3>1. addEvent(hashed.events, e) = hashed.events
      BY <2>2, <2>5 DEF addEvent
    <3> HIDE DEF hashed, h, e
    <3>2. hashed \in Ledgers /\ hashed.events \in Seq(Event) /\ hashed.hashes \in Seq(Records)
      BY Zenon, <1>4, LedgerParts DEF LedgerOK
    <3>3. /\ c \in Seq(Event) /\ InOrder(c) /\ Once(c, more)
          /\ \A i \in DOMAIN c : \E j \in DOMAIN hashed.events : c[i] = hashed.events[j]
      <4>1. c = compact(hashed.events, time)
        BY <3>1
      <4>2. InOrder(hashed.events) /\ Once(hashed.events, more)
        BY Zenon, <1>4 DEF LedgerOK
      <4> HIDE DEF c, more
      <4> QED BY Zenon, <1>3, <3>2, <4>1, <4>2, CompactKeeps
    <3> HIDE DEF c, more
    <3>4. p \in Ledgers /\ p.events = c /\ p.hashes = h /\ p.auth = ledger.auth
      <4>1. c \in Seq(Event) /\ hashed \in Ledgers
        BY Zenon, <3>2, <3>3
      <4>2. Recharged([hashed EXCEPT !.events = c], hashed, c)
        BY Zenon, <4>1, EventsChange
      <4> QED BY Zenon, <1>4, <2>1, <4>2 DEF Recharged
    <3>5. (\A i \in DOMAIN c : c[i].at <= time + ClockSkew) /\ Known(c, h, more)
      BY Zenon, <1>4, <3>3 DEF LedgerOK, Known
    <3>6. LedgerOK(p, time, more)
      BY Zenon, <1>4, <3>3, <3>4, <3>5 DEF LedgerOK
    <3> QED BY Zenon, <3>4, <3>6 DEF more
  <2> QED BY <2>4, <2>5
<1> QED BY <1>5, <1>6, <1>7

(* A ledger without the events it no longer keeps.                         *)
LEMMA CompactedOK ==
  ASSUME Counting, NEW t \in Nat, NEW dropped, NEW q, LedgerOK(q, t, dropped)
  PROVE  LET p == [q EXCEPT !.events = compact(@, t)] IN
         LedgerOK(p, t, dropped) /\ p \in Ledgers /\ p.auth = q.auth
<1> DEFINE c == compact(q.events, t)
           p == [q EXCEPT !.events = compact(@, t)]
<1>1. q \in Ledgers /\ q.events \in Seq(Event) /\ q.hashes \in Seq(Records) /\ InOrder(q.events)
       /\ Once(q.events, dropped) /\ Known(q.events, q.hashes, dropped)
       /\ \A i \in DOMAIN q.events : q.events[i].at <= t + ClockSkew
  BY LedgerParts DEF LedgerOK
<1>2. p = [q EXCEPT !.events = c]
  BY <1>1 DEF Ledgers
<1>3. /\ c \in Seq(Event) /\ InOrder(c) /\ Once(c, dropped)
      /\ \A i \in DOMAIN c : \E j \in DOMAIN q.events : c[i] = q.events[j]
  BY Zenon, <1>1, CompactKeeps
<1> HIDE DEF c, p
<1>4. p \in Ledgers /\ p.events = c /\ p.hashes = q.hashes /\ p.auth = q.auth
  BY Zenon, <1>1, <1>2, <1>3, EventsChange DEF Recharged
<1>5. (\A i \in DOMAIN c : c[i].at <= t + ClockSkew) /\ Known(c, q.hashes, dropped)
  BY Zenon, <1>1, <1>3 DEF Known
<1>6. LedgerOK(p, t, dropped)
  BY Zenon, <1>3, <1>4, <1>5 DEF LedgerOK
<1> QED BY Zenon, <1>4, <1>6 DEF p

(* A ledger with a new answer.                                             *)
LEMMA AnsweredOK ==
  ASSUME NEW t \in Nat, NEW dropped, NEW q, LedgerOK(q, t, dropped), NEW answer \in Answers, AnswerOK(answer, t)
  PROVE  LET p == [q EXCEPT !.auth = answer] IN
         LedgerOK(p, t, dropped) /\ p \in Ledgers /\ p.auth = answer
<1> DEFINE p == [q EXCEPT !.auth = answer]
<1>1. q \in Ledgers
  BY DEF LedgerOK
<1>2. p \in Ledgers /\ p.events = q.events /\ p.hashes = q.hashes /\ p.auth = answer
  BY <1>1 DEF Ledgers
<1> HIDE DEF p
<1>3. LedgerOK(p, t, dropped)
  BY Zenon, <1>2 DEF LedgerOK
<1> QED BY Zenon, <1>2, <1>3 DEF p

(* The empty ledger.                                                       *)
LEMMA NewLedger ==
  ASSUME NEW t \in Nat
  PROVE  LedgerOK(NoQuota, t, {}) /\ NoQuota.auth = None
<1>1. NoQuota \in Ledgers /\ NoQuota.auth = None /\ NoQuota.events = <<>> /\ NoQuota.hashes = <<>>
  BY DEF NoQuota, Ledgers
<1>2. Len(NoQuota.hashes) <= MaxDedup
  BY <1>1, QuotaWindowsAssumption
<1>3. DOMAIN NoQuota.events = {}
  BY <1>1
<1> QED BY Zenon, <1>1, <1>2, <1>3 DEF LedgerOK, InOrder, Once, Known

QuotaLimit == [window : STRING, usage : Int, current : Int, reset : Nat]

Limits == Seq(QuotaLimit)

Parsed(t) == {w \in QuotaWindow : ValidWindow(w, t)} \cup {None}

(* The answer of a poll at time t is valid at t.                           *)
LEMMA AnswerValid ==
  ASSUME Counting, NEW w \in Wires, NEW time \in Nat, fetchQuota(w[2], time) # None
  PROVE  LET answer == fetchQuota(w[2], time) IN
         AnswerOK(answer, time) /\ answer \in Answers
  (* A limit that passes the checks is a valid window. *)
<1>LimitParsed. ASSUME NEW limit \in QuotaLimit, NEW t \in Nat, ValidLimit(limit, t)
     PROVE  parseQuotaWindow(limit) \in Parsed(t)
  BY <1>LimitParsed DEF ValidLimit, parseQuotaWindow, Parsed, ValidWindow, QuotaWindow, NoTime, QuotaLimit
  (* The reading of one window's limits, one at a time. *)
<1>ParsedSteps. ASSUME NEW limits \in Limits, NEW window, NEW t \in Nat
     PROVE  \E f \in [0 .. Len(limits) -> Parsed(t)] :
              /\ f[0] = None
              /\ \A i \in 1 .. Len(limits) : f[i] = IF limits[i].window # window THEN f[i - 1] ELSE IF f[i - 1] = None /\ ValidLimit(limits[i], t) THEN parseQuotaWindow(limits[i]) ELSE None
              /\ ParsedWindow(limits, window, t) = f[Len(limits)]
  <2> USE <1>ParsedSteps
  <2> DEFINE n == Len(limits)
             Is(s) == s = [i \in 0 .. n |-> IF i = 0 THEN None
                            ELSE IF limits[i].window # window THEN s[i - 1]
                            ELSE IF s[i - 1] = None /\ ValidLimit(limits[i], t) THEN parseQuotaWindow(limits[i])
                            ELSE None]
             g == [i \in 1..n |-> [v \in Parsed(t) |-> IF limits[i].window # window THEN v ELSE IF v = None /\ ValidLimit(limits[i], t) THEN parseQuotaWindow(limits[i]) ELSE None]]
  <2>1. n \in Nat /\ None \in Parsed(t)
    BY DEF Parsed, Limits
  <2>2. \A i \in 1..n : \A v \in Parsed(t) :
          (IF limits[i].window # window THEN v
           ELSE IF v = None /\ ValidLimit(limits[i], t) THEN parseQuotaWindow(limits[i]) ELSE None) \in Parsed(t)
    <3> SUFFICES ASSUME NEW i \in 1..n, ValidLimit(limits[i], t)
                 PROVE  parseQuotaWindow(limits[i]) \in Parsed(t)
      BY <2>1
    <3>1. limits[i] \in QuotaLimit
      BY DEF Limits
    <3> QED BY <3>1, <1>LimitParsed
  <2>3. g \in [1..n -> [Parsed(t) -> Parsed(t)]]
    <3> HIDE DEF n
    <3> QED BY <2>2
  <2>4. PICK f \in [0..n -> Parsed(t)] : f[0] = None /\ \A i \in 1..n : f[i] = g[i][f[i - 1]]
    <3> HIDE DEF g, n
    <3>1. None \in Parsed(t) /\ n \in Nat /\ g \in [1..n -> [Parsed(t) -> Parsed(t)]]
      BY <2>1, <2>3
    <3>2. Stepwise(Parsed(t), None, n, g)
      BY Zenon, <3>1, Recursion
    <3> QED BY Zenon, <3>2 DEF Stepwise
  <2>5. \A i \in 1..n : f[i] = IF limits[i].window # window THEN f[i - 1] ELSE IF f[i - 1] = None /\ ValidLimit(limits[i], t) THEN parseQuotaWindow(limits[i]) ELSE None
    <3> SUFFICES ASSUME NEW i \in 1..n PROVE f[i] = IF limits[i].window # window THEN f[i - 1] ELSE IF f[i - 1] = None /\ ValidLimit(limits[i], t) THEN parseQuotaWindow(limits[i]) ELSE None
      OBVIOUS
    <3>1. f[i - 1] \in Parsed(t)
      BY <2>1
    <3> HIDE DEF n
    <3> QED BY Zenon, <2>4, <3>1
  <2>6. Is(f)
    <3> HIDE DEF n
    <3> QED BY <2>1, <2>4, <2>5
  <2>7. ParsedWindow(limits, window, t) = (CHOOSE s : Is(s))[n]
    BY DEF ParsedWindow
  <2> DEFINE s == CHOOSE s : Is(s)
  <2>8. Is(s)
    <3> HIDE DEF Is
    <3> QED BY Zenon, <2>6
  <2> HIDE DEF s
  <2>9. s[0] = None /\ \A i \in 1..n : s[i] = IF limits[i].window # window THEN s[i - 1] ELSE IF s[i - 1] = None /\ ValidLimit(limits[i], t) THEN parseQuotaWindow(limits[i]) ELSE None
    <3>1. 0 \in 0..n /\ \A i \in 1..n : i \in 0..n /\ i # 0
      BY <2>1
    <3> HIDE DEF n
    <3>2. s[0] = None
      BY <2>8, <3>1
    <3>3. \A i \in 1..n : s[i] = IF limits[i].window # window THEN s[i - 1] ELSE IF s[i - 1] = None /\ ValidLimit(limits[i], t) THEN parseQuotaWindow(limits[i]) ELSE None
      BY Zenon, <2>8, <3>1
    <3> QED BY <3>2, <3>3
  <2>10. \A i \in 0..n : s[i] \in Parsed(t)
    <3> DEFINE S == {i \in Nat : i <= n => s[i] \in Parsed(t)}
    <3>1. 0 \in S
      BY <2>1, <2>9
    <3>2. ASSUME NEW i \in Nat, i \in S PROVE i + 1 \in S
      <4> SUFFICES ASSUME i + 1 <= n PROVE s[i + 1] \in Parsed(t)
        OBVIOUS
      <4>1. s[i] \in Parsed(t) /\ i + 1 \in 1..n /\ (i + 1) - 1 = i
        BY <2>1, <3>2
      <4> HIDE DEF n
      <4>2. s[i + 1] = IF limits[i + 1].window # window THEN s[i] ELSE IF s[i] = None /\ ValidLimit(limits[i + 1], t) THEN parseQuotaWindow(limits[i + 1]) ELSE None
        BY <2>9, <4>1
      <4> QED BY <2>2, <4>1, <4>2
    <3>3. \A i \in Nat : i \in S
      <4> HIDE DEF S
      <4> QED BY <3>1, <3>2, Induction
    <3> QED BY <2>1, <3>3
  <2>11. s = [i \in 0..n |-> s[i]]
    <3> HIDE DEF n
    <3> QED BY <2>8
  <2>12. s \in [0..n -> Parsed(t)]
    <3> HIDE DEF n
    <3> QED BY <2>10, <2>11
  <2>13. ParsedWindow(limits, window, t) = s[n]
    BY <2>7 DEF s
  <2> QED BY <2>9, <2>12, <2>13
<1> DEFINE limits == w[2].limits
           weekly == ParsedWindow(limits, "weekly", time)
           five == ParsedWindow(limits, "five", time)
           answer == fetchQuota(w[2], time)
<1>1. limits \in Limits /\ w[2].plan \in DOMAIN PlanBuckets \cup {None}
  BY InputAssumption DEF Limits, QuotaLimit
<1>2. Len(limits) \in 0 .. Len(limits)
  BY <1>1 DEF Limits
<1>3. weekly \in Parsed(time) /\ five \in Parsed(time)
  <2> HIDE DEF limits
  <2>1. \A window : ParsedWindow(limits, window, time) \in Parsed(time)
    BY <1>1, <1>2, <1>ParsedSteps
  <2> QED BY Zenon, <2>1
<1> HIDE DEF weekly, five
<1>4. weekly # None /\ answer = [plan |-> w[2].plan, weekly |-> weekly,
                                 five |-> IF five = None THEN NoWindow ELSE five,
                                 fiveError |-> five = None, at |-> time]
  BY Zenon DEF fetchQuota, parseQuotaResponse, weekly, five
<1> HIDE DEF answer
<1>5. weekly \in QuotaWindow /\ ValidWindow(weekly, time)
  BY <1>3, <1>4 DEF Parsed
<1>6. NoWindow \in QuotaWindow
  BY DEF NoWindow, QuotaWindow, NoTime
<1>7. five # None => five \in QuotaWindow /\ ValidWindow(five, time)
  BY <1>3 DEF Parsed
<1>8. /\ answer.plan = w[2].plan /\ answer.weekly = weekly /\ answer.at = time
      /\ answer.five = IF five = None THEN NoWindow ELSE five
      /\ answer.fiveError = (five = None)
  BY <1>4
<1>9. answer \in Answers
  <2>1. (IF five = None THEN NoWindow ELSE five) \in QuotaWindow
    BY <1>6, <1>7
  <2>2. (five = None) \in BOOLEAN
    OBVIOUS
  <2> QED BY Zenon, <1>1, <1>4, <1>5, <2>1, <2>2 DEF Answers
<1>10. answer.at <= time
  BY <1>8
<1>11. IF answer.fiveError THEN answer.five = NoWindow ELSE ValidWindow(answer.five, answer.at)
  <2>1. CASE five = None
    BY Zenon, <1>8, <2>1
  <2>2. CASE five # None
    BY Zenon, <1>7, <1>8, <2>2
  <2> QED BY <2>1, <2>2
<1> QED BY <1>5, <1>8, <1>9, <1>10, <1>11 DEF AnswerOK, answer

---------------------------------------------------------------------------
(* The health that refreshCapacity leaves.                                 *)

Views == [five : QuotaWindow, weekly : QuotaWindow]

(* The parts of an answer.                                                 *)
LEMMA AnswerParts ==
  ASSUME NEW auth \in Answers
  PROVE  /\ auth.weekly \in QuotaWindow /\ auth.five \in QuotaWindow /\ auth.fiveError \in BOOLEAN
         /\ auth.at \in Nat /\ auth.plan \in DOMAIN PlanBuckets \cup {None}
BY DEF Answers

(* The buckets of a plan, and the lengths of the windows.                  *)
LEMMA Buckets ==
  ASSUME NEW p \in DOMAIN PlanBuckets
  PROVE  /\ PlanBuckets[p].five \in 0 .. MaxCredits /\ PlanBuckets[p].weekly \in 0 .. MaxCredits
         /\ PlanBuckets[p].five \in Nat /\ PlanBuckets[p].weekly \in Nat
         /\ FiveHour \in Nat /\ Weekly \in Nat
<1>1. PlanBuckets[p].five \in 0 .. MaxCredits /\ PlanBuckets[p].weekly \in 0 .. MaxCredits
  BY ZaiRoutingAssumption
<1>2. MaxCredits \in Nat /\ FiveHour \in Nat /\ Weekly \in Nat
  BY QuotaWindowsAssumption
<1> QED BY <1>1, <1>2

(* Whether a view leaves no capacity.                                      *)
Over(v) == \/ atOrAboveThreshold(v.five.consumed, v.five.bucket)
           \/ atOrAboveThreshold(v.weekly.consumed, v.weekly.bucket)

(* The same blocks, whatever the capacity.                                 *)
SameBlocks(h, k) ==
  /\ k.suspended = h.suspended /\ k.exhausted = h.exhausted
  /\ k.throttled = h.throttled /\ k.streak = h.streak

(* The estimate of a window.                                               *)
LEMMA EstimatedType ==
  ASSUME Counting, NEW events \in Seq(Event), NEW t \in Nat, NEW d \in Nat, NEW bucket \in Nat
  PROVE  LET w == estimatedWindow(events, t, d, bucket) IN
         w \in QuotaWindow /\ w.consumed = Consumed(events, t, d) /\ w.bucket = bucket
<1> DEFINE n == Len(events)
           consumed == Consumed(events, t, d)
           remaining == Remaining(consumed, events, t, d)
           below == {i \in DOMAIN events : /\ Active(events[i], t, d)
                                           /\ ~atOrAboveThreshold(remaining[i], bucket)}
           first == CHOOSE i \in below : \A j \in below : i <= j
           resets == IF atOrAboveThreshold(consumed, bucket) /\ below # {} THEN events[first].at + d ELSE NoTime
           w == estimatedWindow(events, t, d, bucket)
<1>1. n \in Nat /\ DOMAIN events = 1..n /\ \A i \in 1..n : events[i].at \in Nat
  BY EventParts
<1>2. consumed \in Nat
  BY Zenon, ConsumedUsed
<1>3. w = [consumed |-> consumed, bucket |-> bucket, resets |-> resets]
  BY DEF estimatedWindow
<1>4. below \subseteq 1..n
  BY <1>1
<1> HIDE DEF below, consumed, n, w
<1>5. below # {} => first \in 1..n
  BY Zenon, <1>1, <1>4, First
<1> HIDE DEF first
<1>6. resets \in Nat
  BY <1>1, <1>5 DEF NoTime
<1> HIDE DEF resets
<1> QED BY <1>2, <1>3, <1>6 DEF QuotaWindow, w, consumed

(* The estimate of the events of a window.                                 *)
Estimates(w, events, t, d, bucket) == w.consumed = Consumed(events, t, d) /\ w.bucket = bucket

(* The use and the bucket of an estimated window.                          *)
LEMMA EstimatedParts ==
  ASSUME Counting, NEW events \in Seq(Event), NEW t \in Nat, NEW d \in Nat, NEW bucket \in Nat
  PROVE  Estimates(estimatedWindow(events, t, d, bucket), events, t, d, bucket)
BY EstimatedType DEF Estimates

(* The blocks stay, and the capacity is what the view says.                *)
LEMMA RefreshHealth ==
  ASSUME Counting, NEW old \in Healths, NEW ledger \in Ledgers, NEW tier \in DOMAIN PlanBuckets, NEW time \in Nat
  PROVE  LET k == refreshCapacity(old, ledger, tier, time) IN
         /\ k \in Healths /\ SameBlocks(old, k)
         /\ k.capacity <=> Over(view(ledger.auth, ledger.events, PlanBuckets[tier], time))
         /\ ~k.capacity => k.resets = NoTime
  (* The view of a quota. *)
<1>ViewType. ASSUME NEW q \in Ledgers, NEW p \in DOMAIN PlanBuckets, NEW t \in Nat
     PROVE  view(q.auth, q.events, PlanBuckets[p], t) \in Views
  <2> USE <1>ViewType
  <2> DEFINE buckets == PlanBuckets[p]
             five == estimatedWindow(q.events, t, FiveHour, buckets.five)
             weekly == estimatedWindow(q.events, t, Weekly, buckets.weekly)
  <2>1. q.auth \in Answers \cup {None} /\ q.events \in Seq(Event)
    BY LedgerParts
  <2>2. five \in QuotaWindow /\ weekly \in QuotaWindow
    BY Zenon, <2>1, Buckets, EstimatedType
  <2> HIDE DEF five, weekly
  <2>3. CASE Fresh(q.auth, t)
    <3>1. q.auth \in Answers
      BY <2>1, <2>3 DEF Fresh
    <3>2. q.auth.weekly \in QuotaWindow /\ q.auth.five \in QuotaWindow
      BY <3>1, AnswerParts
    <3>3. view(q.auth, q.events, buckets, t)
            = [five |-> IF q.auth.fiveError THEN five ELSE q.auth.five, weekly |-> q.auth.weekly]
      BY <2>3 DEF view, five
    <3>4. (IF q.auth.fiveError THEN five ELSE q.auth.five) \in QuotaWindow
      BY <2>2, <3>2
    <3> QED BY <3>2, <3>3, <3>4 DEF Views
  <2>4. CASE ~Fresh(q.auth, t)
    <3>1. view(q.auth, q.events, buckets, t) = [five |-> five, weekly |-> weekly]
      BY <2>4 DEF view, five, weekly
    <3> QED BY <2>2, <3>1 DEF Views
  <2> QED BY <2>3, <2>4
  (* A refresh sets the capacity and leaves the blocks. *)
<1>CapacityHealth. ASSUME NEW h \in Healths, NEW v \in Views
     PROVE  LET k == quotaCapacityHealth(h, v) IN
            /\ k \in Healths /\ SameBlocks(h, k)
            /\ k.capacity <=> Over(v)
            /\ ~k.capacity => k.resets = NoTime
  <2> USE <1>CapacityHealth
  <2> DEFINE five == atOrAboveThreshold(v.five.consumed, v.five.bucket)
             weekly == atOrAboveThreshold(v.weekly.consumed, v.weekly.bucket)
             resets == IF weekly /\ (~five \/ v.five.resets = NoTime \/ v.weekly.resets > v.five.resets)
                       THEN v.weekly.resets
                       ELSE IF five THEN v.five.resets ELSE NoTime
             over == five \/ weekly
             k == [h EXCEPT !.capacity = over, !.resets = resets]
  <2>1. quotaCapacityHealth(h, v) = k
    BY DEF quotaCapacityHealth
  <2>2. v.five.resets \in Nat /\ v.weekly.resets \in Nat
    <3>1. v.five \in QuotaWindow /\ v.weekly \in QuotaWindow
      BY DEF Views
    <3> QED BY <3>1 DEF QuotaWindow
  <2>3. over \in BOOLEAN
    BY DEF atOrAboveThreshold
  <2>4. over <=> Over(v)
    BY Zenon DEF Over
  <2>5. ~over => resets = NoTime
    <3> HIDE DEF five, weekly
    <3> QED OBVIOUS
  <2>6. resets \in Nat
    <3> HIDE DEF five, weekly
    <3> QED BY <2>2 DEF NoTime
  <2> HIDE DEF over, resets
  <2>7. /\ k.suspended = h.suspended /\ k.exhausted = h.exhausted /\ k.throttled = h.throttled
        /\ k.streak = h.streak /\ k.capacity = over /\ k.resets = resets
    BY DEF Healths
  <2>8. k \in Healths
    BY Zenon, <2>3, <2>6 DEF Healths
  <2> HIDE DEF k
  <2> QED BY Zenon, <2>1, <2>4, <2>5, <2>7, <2>8 DEF SameBlocks
<1> DEFINE v == view(ledger.auth, ledger.events, PlanBuckets[tier], time)
<1>1. v \in Views
  BY <1>ViewType
<1>2. refreshCapacity(old, ledger, tier, time) = quotaCapacityHealth(old, v)
  BY DEF refreshCapacity
<1> HIDE DEF v
<1>3. LET k == quotaCapacityHealth(old, v) IN
         k \in Healths /\ SameBlocks(old, k) /\ (k.capacity <=> Over(v)) /\ (~k.capacity => k.resets = NoTime)
  BY <1>1, <1>CapacityHealth
<1> QED BY Zenon, <1>2, <1>3 DEF v

(* A refresh of the capacity, at whatever time.                            *)
LEMMA RefreshOK ==
  ASSUME Counting, NEW time, NEW later \in Nat, NEW old \in Healths, NEW heard \in Tolds, BlocksOK(old, heard, time),
         NEW ledger \in Ledgers, NEW tier \in DOMAIN PlanBuckets
  PROVE  HealthOK(refreshCapacity(old, ledger, tier, later), heard, time)
  (* Equal blocks are equally in step. *)
<1>BlocksSame. ASSUME NEW h, NEW k, NEW d, NEW t, SameBlocks(h, k), BlocksOK(h, d, t)
     PROVE  BlocksOK(k, d, t)
  BY <1>BlocksSame, Zenon DEF SameBlocks, BlocksOK
<1> DEFINE k == refreshCapacity(old, ledger, tier, later)
<1>1. k \in Healths /\ SameBlocks(old, k) /\ (~k.capacity => k.resets = NoTime)
  BY RefreshHealth
<1> HIDE DEF k
<1>2. BlocksOK(k, heard, time)
  BY <1>1, <1>BlocksSame
<1> QED BY Zenon, <1>1, <1>2 DEF HealthOK, k

---------------------------------------------------------------------------
(* The inductive invariant.                                                *)

Follows(a, q, p) == a \notin Explicit /\ q.auth # None /\ q.auth.plan # None => p = q.auth.plan

(* One account: its health h against what it was told d, its quota q with  *)
(* the records gone from its filter, its plan p, and what is saved of it.  *)
Sound(a, h, q, p, s, sq, d, gone, t) ==
  /\ HealthOK(h, d, t)
  /\ LedgerOK(q, t, gone)
  /\ Follows(a, q, p)
  /\ SavedOK(s, d, t)
  /\ LedgerOK(sq, t, gone)

Clock ==
  /\ now \in StartTime .. MaxTime /\ started \in StartTime .. now
  /\ inputs \in 0 .. MaxInputs

Shapes ==
  /\ health \in [Accounts -> Healths]
  /\ quota \in [Accounts -> Ledgers]
  /\ plan \in [Accounts -> DOMAIN PlanBuckets]
  /\ told \in [Accounts -> Tolds]
  /\ DOMAIN evicted = Accounts
  /\ saved \in [health : [Accounts -> SavedHealths], quota : [Accounts -> Ledgers]]

SoundAccount(a) ==
  Sound(a, health[a], quota[a], plan[a], saved.health[a], saved.quota[a], told[a], evicted[a], now)

IInv == Clock /\ Shapes /\ \A a \in Accounts : SoundAccount(a)

(* The clock is a positive number.                                         *)
LEMMA ClockParts ==
  ASSUME Clock
  PROVE  /\ now \in Nat /\ now # 0 /\ started \in Nat /\ started # 0 /\ inputs \in Nat
         /\ now <= MaxTime /\ started <= now /\ inputs <= MaxInputs
         /\ MaxTime \in Nat /\ StartTime \in Nat /\ MaxInputs \in Nat /\ StartTime <= started /\ StartTime <= now
<1>1. MaxTime \in Nat /\ StartTime \in Nat /\ MaxInputs \in Nat /\ StartTime > 0
  BY ZaiRoutingAssumption
<1> QED BY <1>1 DEF Clock

(* The parts of the invariant for one account.                             *)
LEMMA AccountParts ==
  ASSUME IInv, NEW a \in Accounts
  PROVE  /\ HealthOK(health[a], told[a], now) /\ LedgerOK(quota[a], now, evicted[a])
         /\ Follows(a, quota[a], plan[a]) /\ SavedOK(saved.health[a], told[a], now)
         /\ LedgerOK(saved.quota[a], now, evicted[a])
         /\ health[a] \in Healths /\ quota[a] \in Ledgers /\ plan[a] \in DOMAIN PlanBuckets
         /\ told[a] \in Tolds
<1>1. Shapes /\ SoundAccount(a)
  BY DEF IInv
<1>2. health[a] \in Healths /\ quota[a] \in Ledgers /\ plan[a] \in DOMAIN PlanBuckets /\ told[a] \in Tolds
  BY <1>1 DEF Shapes
<1> QED BY Zenon, <1>1, <1>2 DEF SoundAccount, Sound

(* What a step that saves its result has to show.                          *)
LEMMA SavedInv ==
  ASSUME Clock', now' = now,
         health' \in [Accounts -> Healths], quota' \in [Accounts -> Ledgers],
         plan' \in [Accounts -> DOMAIN PlanBuckets], told' \in [Accounts -> Tolds],
         DOMAIN evicted' = Accounts, saved' = Save(health', quota'),
         \A b \in Accounts : /\ HealthOK(health'[b], told'[b], now)
                             /\ LedgerOK(quota'[b], now, evicted'[b])
                             /\ Follows(b, quota'[b], plan'[b])
  PROVE  IInv'
<1> DEFINE s == saved'
<1>1. now \in Nat
  <2>1. now' \in Nat
    <3>1. MaxTime \in Nat /\ StartTime \in Nat
      BY Zenon, ZaiRoutingAssumption
    <3> QED BY <3>1 DEF Clock
  <2> QED BY <2>1
<1>2. s = [health |-> [b \in Accounts |-> persisted(health'[b], now)], quota |-> quota']
  BY DEF Save
<1>3. s.quota = quota' /\ \A b \in Accounts : s.health[b] = persisted(health'[b], now)
  BY <1>2
<1>4. \A b \in Accounts : SavedOK(persisted(health'[b], now), told'[b], now)
  BY <1>1, PersistedOK
<1>5. \A b \in Accounts : persisted(health'[b], now) \in SavedHealths
  BY <1>4 DEF SavedOK
<1>6. s \in [health : [Accounts -> SavedHealths], quota : [Accounts -> Ledgers]]
  BY <1>2, <1>5
<1>7. Shapes'
  BY <1>6 DEF Shapes
<1>8. ASSUME NEW b \in Accounts PROVE SoundAccount(b)'
  <2>1. /\ HealthOK(health'[b], told'[b], now) /\ LedgerOK(quota'[b], now, evicted'[b])
        /\ Follows(b, quota'[b], plan'[b])
    OBVIOUS
  <2>2. SavedOK(s.health[b], told'[b], now) /\ LedgerOK(s.quota[b], now, evicted'[b])
    BY Zenon, <1>3, <1>4, <2>1
  <2> QED BY Zenon, <2>1, <2>2 DEF SoundAccount, Sound
<1> QED BY Zenon, <1>7, <1>8 DEF IInv

(* The invariant holds initially.                                          *)
LEMMA InitInv ==
  ASSUME Counting, Init
  PROVE  IInv
<1>1. StartTime \in Nat /\ MaxTime \in Nat /\ MaxInputs \in Nat /\ StartTime <= MaxTime
       /\ ConfiguredPlan \in [Accounts -> DOMAIN PlanBuckets]
  BY ZaiRoutingAssumption
<1>2. now = StartTime /\ Clock
  BY <1>1 DEF Init, Clock
<1>3. /\ health = [a \in Accounts |-> NoHealth] /\ quota = [a \in Accounts |-> NoQuota]
      /\ told = [a \in Accounts |-> NeverTold] /\ evicted = [a \in Accounts |-> {}]
      /\ plan = ConfiguredPlan /\ saved = Save(health, quota)
  BY DEF Init
<1>4. HealthOK(NoHealth, NeverTold, now) /\ LedgerOK(NoQuota, now, {}) /\ NoQuota.auth = None
  BY <1>1, <1>2, NewHealth, NewLedger
<1>5. NoHealth \in Healths /\ NeverTold \in Tolds /\ NoQuota \in Ledgers
  BY Zenon, <1>4 DEF HealthOK, LedgerOK
<1>6. SavedOK(persisted(NoHealth, now), NeverTold, now)
  BY <1>1, <1>2, <1>4, PersistedOK
<1>7. persisted(NoHealth, now) \in SavedHealths
  BY <1>6 DEF SavedOK
<1>8. /\ \A a \in Accounts : health[a] = NoHealth /\ quota[a] = NoQuota /\ told[a] = NeverTold /\ evicted[a] = {}
      /\ saved = [health |-> [a \in Accounts |-> persisted(NoHealth, now)], quota |-> quota]
  BY <1>3 DEF Save
<1>9. saved \in [health : [Accounts -> SavedHealths], quota : [Accounts -> Ledgers]]
  BY <1>3, <1>5, <1>7, <1>8
<1>10. Shapes
  BY <1>1, <1>3, <1>5, <1>9 DEF Shapes
<1>11. ASSUME NEW a \in Accounts PROVE SoundAccount(a)
  <2>1. saved.health[a] = persisted(NoHealth, now) /\ saved.quota[a] = NoQuota
    BY <1>8
  <2>2. /\ HealthOK(health[a], told[a], now) /\ LedgerOK(quota[a], now, evicted[a])
        /\ SavedOK(saved.health[a], told[a], now) /\ LedgerOK(saved.quota[a], now, evicted[a])
        /\ Follows(a, quota[a], plan[a])
    BY Zenon, <1>4, <1>6, <1>8, <2>1 DEF Follows
  <2> QED BY Zenon, <2>2 DEF SoundAccount, Sound
<1> QED BY Zenon, <1>2, <1>10, <1>11 DEF IInv

(* The clock after an input.                                               *)
LEMMA InputClock ==
  ASSUME Clock, Input, now' = now, started' \in {started, now}
  PROVE  Clock'
<1>1. /\ MaxTime \in Nat /\ StartTime \in Nat /\ MaxInputs \in Nat /\ inputs \in Nat /\ now \in Nat /\ started \in Nat
      /\ inputs' = inputs + 1 /\ inputs < MaxInputs
  BY ClockParts DEF Input
<1>2. inputs' \in 0 .. MaxInputs
  BY <1>1
<1>3. now' \in StartTime .. MaxTime /\ started' \in StartTime .. now'
  BY <1>1 DEF Clock
<1> QED BY <1>2, <1>3 DEF Clock

(* A usage report.                                                         *)
LEMMA HandleUsageInv ==
  ASSUME Counting, IInv, NEW dl \in Deliveries, HandleUsage(dl[1], dl[2])
  PROVE  IInv'
<1> DEFINE a == dl[1]
           report == dl[2]
           q == IF report.record = None THEN quota[a] ELSE Account(quota[a], report.record, now)
           k == Failure(health[a], report, now)
           h == refreshCapacity(k, q, plan[a], now)
           e == Hear(told[a], health[a], report)
           gone == evicted[a] \cup Forgotten(quota[a].hashes, q.hashes)
<1>1. Clock /\ Shapes /\ now \in Nat /\ now # 0 /\ a \in Accounts
  BY ClockParts, InputAssumption DEF IInv
<1>2. /\ HealthOK(health[a], told[a], now) /\ LedgerOK(quota[a], now, evicted[a])
      /\ Follows(a, quota[a], plan[a]) /\ plan[a] \in DOMAIN PlanBuckets
  BY Zenon, <1>1, AccountParts
<1>3. LedgerOK(q, now, gone) /\ q.auth = quota[a].auth
  <2>1. CASE report.record = None
    <3>1. q = quota[a] /\ now <= now
      BY <1>1, <2>1
    <3>2. LedgerOK(quota[a], now, gone)
      <4> HIDE DEF q, a
      <4> QED BY Zenon, <1>1, <1>2, <3>1, LedgerLater
    <3> QED BY Zenon, <3>1, <3>2
  <2>2. CASE report.record # None
    <3>1. report.record \in Records
      BY DEF Records
    <3>2. q = Account(quota[a], report.record, now) /\ now \in Nat \ {0}
      BY Zenon, <1>1, <2>2
    <3> HIDE DEF report, a, q
    <3> DEFINE p == Account(quota[a], report.record, now)
    <3>3. Charged(quota[a], p, now, evicted[a])
      BY Zenon, <1>2, <2>2, <3>1, <3>2, AccountOK
    <3> QED BY Zenon, <3>2, <3>3 DEF gone, Charged
  <2> QED BY Zenon, <2>1, <2>2
<1>4. q \in Ledgers
  BY Zenon, <1>3 DEF LedgerOK
<1>5. k \in Healths /\ e \in Tolds /\ BlocksOK(k, e, now)
  BY Zenon, <1>1, <1>2, FailureOK
<1>6. /\ Input /\ quota' = [quota EXCEPT ![a] = q] /\ health' = [health EXCEPT ![a] = h]
      /\ saved' = Save(health', quota') /\ told' = [told EXCEPT ![a] = e]
      /\ evicted' = [evicted EXCEPT ![a] = gone]
      /\ now' = now /\ started' = started /\ plan' = plan
  BY Zenon DEF HandleUsage, Forgotten
<1> HIDE DEF a, report, q, k, e, gone
<1>7. HealthOK(h, e, now)
  BY Zenon, <1>1, <1>2, <1>4, <1>5, RefreshOK
<1>8. h \in Healths
  BY <1>7 DEF HealthOK
<1> HIDE DEF h
<1>9. Clock'
  BY <1>1, <1>6, InputClock
<1>10. /\ health' \in [Accounts -> Healths] /\ quota' \in [Accounts -> Ledgers]
       /\ plan' \in [Accounts -> DOMAIN PlanBuckets] /\ told' \in [Accounts -> Tolds]
       /\ DOMAIN evicted' = Accounts
  BY <1>1, <1>4, <1>5, <1>6, <1>8 DEF Shapes
<1>11. ASSUME NEW b \in Accounts
       PROVE  /\ HealthOK(health'[b], told'[b], now) /\ LedgerOK(quota'[b], now, evicted'[b])
              /\ Follows(b, quota'[b], plan'[b])
  <2>1. CASE b = a
    <3>1. health'[b] = h /\ told'[b] = e /\ quota'[b] = q /\ evicted'[b] = gone /\ plan'[b] = plan[a]
      BY <1>1, <1>6, <2>1 DEF Shapes
    <3>2. Follows(b, q, plan[a])
      BY Zenon, <1>2, <1>3, <2>1 DEF Follows
    <3> QED BY Zenon, <1>3, <1>7, <3>1, <3>2
  <2>2. CASE b # a
    <3>1. health'[b] = health[b] /\ told'[b] = told[b] /\ quota'[b] = quota[b] /\ evicted'[b] = evicted[b]
          /\ plan'[b] = plan[b]
      BY <1>1, <1>6, <2>2 DEF Shapes
    <3> QED BY Zenon, <3>1, AccountParts
  <2> QED BY Zenon, <2>1, <2>2
<1> QED BY <1>6, <1>9, <1>10, <1>11, SavedInv

(* A poll.                                                                 *)
LEMMA PollInv ==
  ASSUME Counting, IInv, NEW w \in Wires, NEW t \in {now - 1, now}, t >= started, Poll(w[1], w[2], t)
  PROVE  IInv'
<1> DEFINE a == w[1]
           answer == fetchQuota(w[2], t)
           p == IF answer = None THEN plan[a] ELSE syncPlanFromUpstream(a, plan[a], answer.plan)
           q == IF answer = None THEN quota[a] ELSE [quota[a] EXCEPT !.auth = answer]
           h == refreshCapacity(health[a], q, p, t)
<1>1. Clock /\ Shapes /\ now \in Nat /\ started \in Nat /\ a \in Accounts
  BY ClockParts, InputAssumption DEF IInv
<1>2. t \in Nat /\ t <= now
  BY <1>1
<1>3. /\ HealthOK(health[a], told[a], now) /\ LedgerOK(quota[a], now, evicted[a])
      /\ Follows(a, quota[a], plan[a]) /\ plan[a] \in DOMAIN PlanBuckets
      /\ health[a] \in Healths /\ told[a] \in Tolds
  BY Zenon, <1>1, AccountParts
<1>4. LedgerOK(q, now, evicted[a]) /\ p \in DOMAIN PlanBuckets /\ Follows(a, q, p)
  <2>1. CASE answer = None
    <3>1. q = quota[a] /\ p = plan[a]
      BY <2>1
    <3> QED BY Zenon, <1>3, <3>1
  <2>2. CASE answer # None
    <3>1. AnswerOK(answer, t) /\ answer \in Answers
      BY <1>2, <2>2, AnswerValid
    <3>2. q = [quota[a] EXCEPT !.auth = answer] /\ p = syncPlanFromUpstream(a, plan[a], answer.plan)
      BY <2>2
    <3> HIDE DEF answer, q, p
    <3>3. AnswerOK(answer, now)
      <4>1. answer.at \in Nat
        BY Zenon, <3>1, AnswerParts
      <4>2. answer.at <= now
        <5>1. answer.at <= t
          BY Zenon, <3>1 DEF AnswerOK
        <5> QED BY <1>1, <1>2, <4>1, <5>1
      <4> QED BY Zenon, <3>1, <4>2 DEF AnswerOK
    <3>4. LedgerOK(q, now, evicted[a]) /\ q.auth = answer
      <4> HIDE DEF a
      <4> QED BY <1>1, <1>3, <3>1, <3>2, <3>3, AnsweredOK
    <3>5. answer.plan \in DOMAIN PlanBuckets \cup {None}
      BY <3>1, AnswerParts
    <3>6. p \in DOMAIN PlanBuckets
      BY <1>3, <3>2, <3>5 DEF syncPlanFromUpstream
    <3>7. Follows(a, q, p)
      BY <3>2, <3>4 DEF syncPlanFromUpstream, Follows
    <3> QED BY Zenon, <3>4, <3>6, <3>7
  <2> QED BY Zenon, <2>1, <2>2
<1>5. /\ Input /\ quota' = [quota EXCEPT ![a] = q] /\ health' = [health EXCEPT ![a] = h]
      /\ plan' = [plan EXCEPT ![a] = p] /\ saved' = Save(health', quota')
      /\ told' = told /\ evicted' = evicted /\ now' = now /\ started' = started
  <2>1. health' = [health EXCEPT ![a] = refreshCapacity(@, q, p, t)]
    BY DEF Poll
  <2>2. health' = [health EXCEPT ![a] = h]
    <3> HIDE DEF q, p
    <3> QED BY <2>1
  <2> QED BY <2>2 DEF Poll
<1>6. q \in Ledgers /\ BlocksOK(health[a], told[a], now)
  BY <1>3, <1>4 DEF LedgerOK, HealthOK
<1> HIDE DEF a, answer, p, q
<1>7. HealthOK(h, told[a], now)
  BY Zenon, <1>1, <1>2, <1>3, <1>4, <1>6, RefreshOK
<1>8. h \in Healths
  BY <1>7 DEF HealthOK
<1> HIDE DEF h
<1>9. Clock'
  BY <1>1, <1>5, InputClock
<1>10. /\ health' \in [Accounts -> Healths] /\ quota' \in [Accounts -> Ledgers]
       /\ plan' \in [Accounts -> DOMAIN PlanBuckets] /\ told' \in [Accounts -> Tolds]
       /\ DOMAIN evicted' = Accounts
  BY <1>1, <1>4, <1>5, <1>6, <1>8 DEF Shapes
<1>11. ASSUME NEW b \in Accounts
       PROVE  /\ HealthOK(health'[b], told'[b], now) /\ LedgerOK(quota'[b], now, evicted'[b])
              /\ Follows(b, quota'[b], plan'[b])
  <2>1. CASE b = a
    <3>1. health'[b] = h /\ told'[b] = told[a] /\ quota'[b] = q /\ evicted'[b] = evicted[a] /\ plan'[b] = p
      BY <1>1, <1>5, <2>1 DEF Shapes
    <3> QED BY Zenon, <1>4, <1>7, <2>1, <3>1
  <2>2. CASE b # a
    <3>1. health'[b] = health[b] /\ told'[b] = told[b] /\ quota'[b] = quota[b] /\ evicted'[b] = evicted[b]
          /\ plan'[b] = plan[b]
      BY <1>1, <1>5, <2>2 DEF Shapes
    <3> QED BY Zenon, <3>1, AccountParts
  <2> QED BY Zenon, <2>1, <2>2
<1> QED BY <1>5, <1>9, <1>10, <1>11, SavedInv

(* Recomputing the capacity of an account.                                 *)
LEMMA RefreshedOK ==
  ASSUME Counting, IInv, NEW a \in Accounts
  PROVE  HealthOK(Refreshed(a), told[a], now) /\ Refreshed(a) \in Healths
<1>1. now \in Nat
  BY ClockParts DEF IInv
<1>2. /\ HealthOK(health[a], told[a], now) /\ health[a] \in Healths /\ told[a] \in Tolds
      /\ quota[a] \in Ledgers /\ plan[a] \in DOMAIN PlanBuckets
  BY Zenon, AccountParts
<1>3. BlocksOK(health[a], told[a], now)
  BY Zenon, <1>2 DEF HealthOK
<1>4. HealthOK(refreshCapacity(health[a], quota[a], plan[a], now), told[a], now)
  BY <1>1, <1>2, <1>3, RefreshOK
<1> QED BY Zenon, <1>4 DEF Refreshed, HealthOK

(* A step that recomputes the capacity of some accounts and no more.       *)
LEMMA RefreshInv ==
  ASSUME Counting, IInv, NEW seen, health' = [a \in Accounts |-> IF a \in seen THEN Refreshed(a) ELSE health[a]],
         UNCHANGED <<now, started, quota, plan, saved, inputs, told, evicted>>
  PROVE  IInv'
<1>1. Clock /\ Shapes
  BY DEF IInv
<1>2. \A a \in Accounts : health[a] \in Healths /\ Refreshed(a) \in Healths
  BY Zenon, AccountParts, RefreshedOK
<1>3. Clock' /\ Shapes'
  BY <1>1, <1>2 DEF Clock, Shapes
<1>4. ASSUME NEW b \in Accounts PROVE SoundAccount(b)'
  <2>1. HealthOK(health'[b], told[b], now)
    <3>1. health'[b] = IF b \in seen THEN Refreshed(b) ELSE health[b]
      OBVIOUS
    <3>2. HealthOK(Refreshed(b), told[b], now) /\ HealthOK(health[b], told[b], now)
      BY Zenon, AccountParts, RefreshedOK
    <3> QED BY Zenon, <3>1, <3>2
  <2>2. /\ now' = now /\ quota' = quota /\ plan' = plan /\ saved' = saved /\ told' = told /\ evicted' = evicted
    OBVIOUS
  <2> QED BY Zenon, <2>1, <2>2, AccountParts DEF SoundAccount, Sound
<1> QED BY Zenon, <1>3, <1>4 DEF IInv

(* A pick refreshes the capacity of the candidates.                        *)
LEMMA PickInv ==
  ASSUME Counting, IInv, NEW c \in Candidates, Pick(c)
  PROVE  IInv'
<1>1. UNCHANGED <<now, started, quota, plan, saved, inputs, told, evicted>>
  BY DEF Pick
<1>2. \E seen : health' = [a \in Accounts |-> IF a \in seen THEN Refreshed(a) ELSE health[a]]
  BY Zenon DEF Pick
<1> QED BY Zenon, <1>1, <1>2, RefreshInv

(* A status request refreshes the capacity of the accounts.                *)
LEMMA StatusInv ==
  ASSUME Counting, IInv, managementStatus
  PROVE  IInv'
<1>1. UNCHANGED <<now, started, quota, plan, saved, inputs, told, evicted>>
  BY DEF managementStatus
<1>2. health' = [a \in Accounts |-> IF a \in Accounts THEN Refreshed(a) ELSE health[a]]
  BY DEF managementStatus
<1> QED BY Zenon, <1>1, <1>2, RefreshInv

(* An unblock.                                                             *)
LEMMA UnblockInv ==
  ASSUME Counting, IInv, NEW selected \in Selections, unblock(selected)
  PROVE  IInv'
<1> DEFINE q(a) == [quota[a] EXCEPT !.events = compact(@, now)]
           lifted(a) == clearThrottle([health[a] EXCEPT !.exhausted = NoTime])
           e(a) == [NeverTold EXCEPT !.suspended = told[a].suspended]
           h(a) == refreshCapacity(lifted(a), q(a), plan[a], now)
<1>1. Clock /\ Shapes /\ now \in Nat
  BY ClockParts DEF IInv
<1>2. /\ Input /\ quota' = [a \in Accounts |-> IF a \in selected THEN q(a) ELSE quota[a]]
      /\ told' = [a \in Accounts |-> IF a \in selected THEN e(a) ELSE told[a]]
      /\ now' = now /\ started' = started /\ plan' = plan /\ saved' = saved /\ evicted' = evicted
  BY DEF unblock
<1>3. health' = [a \in Accounts |-> IF a \in selected THEN h(a) ELSE health[a]]
  BY DEF unblock
<1>4. ASSUME NEW a \in Accounts
      PROVE  /\ LedgerOK(q(a), now, evicted[a]) /\ q(a) \in Ledgers /\ q(a).auth = quota[a].auth
             /\ HealthOK(h(a), e(a), now) /\ h(a) \in Healths
             /\ e(a) \in Tolds /\ SavedOK(saved.health[a], e(a), now)
  <2>1. /\ HealthOK(health[a], told[a], now) /\ LedgerOK(quota[a], now, evicted[a])
        /\ SavedOK(saved.health[a], told[a], now) /\ plan[a] \in DOMAIN PlanBuckets
    BY Zenon, AccountParts
  <2>2. LedgerOK(q(a), now, evicted[a]) /\ q(a) \in Ledgers /\ q(a).auth = quota[a].auth
    BY <1>1, <2>1, CompactedOK
  <2>3. /\ lifted(a) \in Healths /\ e(a) \in Tolds /\ BlocksOK(lifted(a), e(a), now)
        /\ SavedOK(saved.health[a], e(a), now)
    BY Zenon, <1>1, <2>1, UnblockOK
  <2> HIDE DEF lifted, q, e
  <2>4. HealthOK(h(a), e(a), now)
    BY Zenon, <1>1, <2>1, <2>2, <2>3, RefreshOK
  <2> QED BY Zenon, <2>2, <2>3, <2>4 DEF HealthOK
<1> HIDE DEF q, lifted, e, h
<1>5. Clock'
  BY Zenon, <1>1, <1>2, InputClock
<1>6. \A a \in Accounts : health[a] \in Healths /\ quota[a] \in Ledgers /\ told[a] \in Tolds
  BY Zenon, AccountParts
<1>7. Shapes'
  <2>1. health' \in [Accounts -> Healths] /\ quota' \in [Accounts -> Ledgers] /\ told' \in [Accounts -> Tolds]
    BY Zenon, <1>2, <1>3, <1>4, <1>6
  <2> QED BY <1>1, <1>2, <2>1 DEF Shapes
<1>8. ASSUME NEW b \in Accounts PROVE SoundAccount(b)'
  <2>1. /\ HealthOK(health[b], told[b], now) /\ LedgerOK(quota[b], now, evicted[b])
        /\ Follows(b, quota[b], plan[b]) /\ SavedOK(saved.health[b], told[b], now)
        /\ LedgerOK(saved.quota[b], now, evicted[b])
    BY Zenon, AccountParts
  <2>2. CASE b \in selected
    <3>1. health'[b] = h(b) /\ quota'[b] = q(b) /\ told'[b] = e(b)
      BY <1>2, <1>3, <2>2
    <3>2. Follows(b, q(b), plan[b])
      BY Zenon, <1>4, <2>1 DEF Follows
    <3> QED BY Zenon, <1>2, <1>4, <2>1, <3>1, <3>2 DEF SoundAccount, Sound
  <2>3. CASE b \notin selected
    <3>1. health'[b] = health[b] /\ quota'[b] = quota[b] /\ told'[b] = told[b]
      BY <1>2, <1>3, <2>3
    <3> QED BY Zenon, <1>2, <2>1, <3>1 DEF SoundAccount, Sound
  <2> QED BY Zenon, <2>2, <2>3
<1> QED BY Zenon, <1>5, <1>7, <1>8 DEF IInv

(* A restart.                                                              *)
LEMMA RestartInv ==
  ASSUME Counting, IInv, Restart
  PROVE  IInv'
<1> DEFINE q(a) == [saved.quota[a] EXCEPT !.events = compact(@, now)]
           p(a) == IF q(a).auth = None THEN ConfiguredPlan[a]
                   ELSE syncPlanFromUpstream(a, ConfiguredPlan[a], q(a).auth.plan)
           k(a) == restorePersistedHealth(saved.health[a], now)
           e(a) == [told[a] EXCEPT !.throttled = NoTime, !.rate = {}, !.exhausted = Latest(@, saved.health[a].exhausted)]
           h(a) == refreshCapacity(k(a), q(a), p(a), now)
<1>1. Clock /\ Shapes /\ now \in Nat
  BY ClockParts DEF IInv
<1>2. /\ Input /\ quota' = [a \in Accounts |-> q(a)] /\ told' = [a \in Accounts |-> e(a)]
      /\ now' = now /\ started' = now /\ saved' = saved /\ evicted' = evicted
  BY Zenon DEF Restart
<1>3. plan' = [a \in Accounts |-> p(a)] /\ health' = [a \in Accounts |-> h(a)]
  <2> DEFINE Q == [a \in Accounts |-> q(a)]
             P == [a \in Accounts |-> IF Q[a].auth = None THEN ConfiguredPlan[a]
                                      ELSE syncPlanFromUpstream(a, ConfiguredPlan[a], Q[a].auth.plan)]
  <2>1. plan' = P /\ health' = [a \in Accounts |-> refreshCapacity(k(a), Q[a], P[a], now)]
    BY Zenon DEF Restart
  <2>2. \A a \in Accounts : Q[a] = q(a)
    OBVIOUS
  <2> HIDE DEF q, k
  <2>3. \A a \in Accounts : P[a] = p(a)
    BY <2>2
  <2>4. P = [a \in Accounts |-> p(a)]
    BY <2>3
  <2> HIDE DEF p, P, Q
  <2>5. [a \in Accounts |-> refreshCapacity(k(a), Q[a], P[a], now)] = [a \in Accounts |-> h(a)]
    BY Zenon, <2>2, <2>3
  <2> QED BY <2>1, <2>4, <2>5
<1>4. ASSUME NEW a \in Accounts
      PROVE  /\ LedgerOK(q(a), now, evicted[a]) /\ q(a) \in Ledgers
             /\ HealthOK(h(a), e(a), now) /\ h(a) \in Healths
             /\ e(a) \in Tolds /\ SavedOK(saved.health[a], e(a), now)
             /\ p(a) \in DOMAIN PlanBuckets /\ Follows(a, q(a), p(a))
             /\ LedgerOK(saved.quota[a], now, evicted[a])
  <2>1. /\ LedgerOK(saved.quota[a], now, evicted[a]) /\ SavedOK(saved.health[a], told[a], now)
        /\ told[a] \in Tolds
    BY Zenon, AccountParts
  <2>2. LedgerOK(q(a), now, evicted[a]) /\ q(a) \in Ledgers
    BY <1>1, <2>1, CompactedOK
  <2>3. /\ k(a) \in Healths /\ e(a) \in Tolds /\ BlocksOK(k(a), e(a), now)
        /\ SavedOK(saved.health[a], e(a), now)
    BY Zenon, <1>1, <2>1, RestoredOK
  <2>4. ConfiguredPlan[a] \in DOMAIN PlanBuckets
    BY ZaiRoutingAssumption
  <2> HIDE DEF k, q, e
  <2>5. q(a).auth # None => q(a).auth.plan \in DOMAIN PlanBuckets \cup {None}
    BY Zenon, <2>2, LedgerParts, AnswerParts
  <2>6. p(a) \in DOMAIN PlanBuckets
    BY <2>4, <2>5 DEF syncPlanFromUpstream
  <2>7. Follows(a, q(a), p(a))
    BY DEF syncPlanFromUpstream, Follows
  <2> HIDE DEF p
  <2>8. HealthOK(h(a), e(a), now)
    BY Zenon, <1>1, <2>2, <2>3, <2>6, RefreshOK
  <2> QED BY Zenon, <2>1, <2>2, <2>3, <2>6, <2>7, <2>8 DEF HealthOK
<1> HIDE DEF q, p, k, e, h
<1>5. Clock'
  BY <1>1, <1>2, InputClock
<1>6. Shapes'
  <2>1. /\ health' \in [Accounts -> Healths] /\ quota' \in [Accounts -> Ledgers] /\ told' \in [Accounts -> Tolds]
        /\ plan' \in [Accounts -> DOMAIN PlanBuckets]
    BY Zenon, <1>2, <1>3, <1>4
  <2> QED BY <1>1, <1>2, <2>1 DEF Shapes
<1>7. ASSUME NEW b \in Accounts PROVE SoundAccount(b)'
  <2>1. health'[b] = h(b) /\ quota'[b] = q(b) /\ told'[b] = e(b) /\ plan'[b] = p(b)
    BY <1>2, <1>3
  <2> QED BY Zenon, <1>2, <1>4, <2>1 DEF SoundAccount, Sound
<1> QED BY Zenon, <1>5, <1>6, <1>7 DEF IInv

(* Time passes.                                                            *)
LEMMA TickInv ==
  ASSUME IInv, Tick
  PROVE  IInv'
<1>1. Clock /\ Shapes /\ now \in Nat
  BY ClockParts DEF IInv
<1>2. /\ now < MaxTime /\ now' = now + 1 /\ started' = started /\ health' = health /\ quota' = quota
      /\ plan' = plan /\ saved' = saved /\ inputs' = inputs /\ told' = told /\ evicted' = evicted
  BY DEF Tick
<1>3. Clock'
  <2>1. MaxTime \in Nat /\ StartTime \in Nat /\ started \in Nat /\ started <= now /\ StartTime <= started
    BY <1>1, ClockParts
  <2>2. now' \in StartTime .. MaxTime /\ started' \in StartTime .. now'
    BY <1>1, <1>2, <2>1
  <2> QED BY <1>1, <1>2, <2>2 DEF Clock
<1>4. Shapes'
  BY <1>1, <1>2 DEF Shapes
<1>5. ASSUME NEW b \in Accounts PROVE SoundAccount(b)'
  <2>1. /\ HealthOK(health[b], told[b], now) /\ LedgerOK(quota[b], now, evicted[b])
        /\ Follows(b, quota[b], plan[b]) /\ SavedOK(saved.health[b], told[b], now)
        /\ LedgerOK(saved.quota[b], now, evicted[b]) /\ told[b] \in Tolds
    BY Zenon, AccountParts
  <2>2. HealthOK(health[b], told[b], now + 1) /\ SavedOK(saved.health[b], told[b], now + 1)
    BY Zenon, <1>1, <2>1, HealthLater, SavedLater
  <2>3. now + 1 \in Nat /\ now <= now + 1 /\ evicted[b] \cup {} = evicted[b]
    <3>1. now + 1 \in Nat /\ now <= now + 1
      BY <1>1
    <3>2. evicted[b] \cup {} = evicted[b]
      BY Zenon
    <3> QED BY Zenon, <3>1, <3>2
  <2>4. LedgerOK(quota[b], now + 1, evicted[b] \cup {}) /\ LedgerOK(saved.quota[b], now + 1, evicted[b] \cup {})
    BY Zenon, <1>1, <2>1, <2>3, LedgerLater
  <2> QED BY Zenon, <1>2, <2>1, <2>2, <2>3, <2>4 DEF SoundAccount, Sound
<1> QED BY Zenon, <1>3, <1>4, <1>5 DEF IInv

(* The invariant is inductive.                                             *)
LEMMA Inductive ==
  ASSUME Counting, IInv, [Next]_vars
  PROVE  IInv'
<1>1. CASE \E d \in Deliveries : HandleUsage(d[1], d[2])
  BY <1>1, HandleUsageInv
<1>2. CASE \E w \in Wires, t \in {now - 1, now} : t >= started /\ Poll(w[1], w[2], t)
  BY <1>2, PollInv
<1>3. CASE \E c \in Candidates : Pick(c)
  BY <1>3, PickInv
<1>4. CASE managementStatus
  BY <1>4, StatusInv
<1>5. CASE \E s \in Selections : unblock(s)
  BY <1>5, UnblockInv
<1>6. CASE Restart
  BY <1>6, RestartInv
<1>7. CASE Tick
  BY <1>7, TickInv
<1>8. CASE UNCHANGED vars
  <2>1. /\ now' = now /\ started' = started /\ health' = health /\ quota' = quota
        /\ plan' = plan /\ saved' = saved /\ inputs' = inputs /\ told' = told /\ evicted' = evicted
    BY <1>8 DEF vars
  <2>2. Clock' /\ Shapes'
    BY <2>1 DEF IInv, Clock, Shapes
  <2>3. \A b \in Accounts : SoundAccount(b)'
    BY Zenon, <2>1 DEF IInv, SoundAccount
  <2> QED BY Zenon, <2>2, <2>3 DEF IInv
<1> QED BY Zenon, <1>1, <1>2, <1>3, <1>4, <1>5, <1>6, <1>7, <1>8 DEF Next

---------------------------------------------------------------------------
(* What a pick sees.                                                       *)

(* The capacity recomputed for a pick is lost exactly if the allowance is  *)
(* spent: the answer's, or the sum of the charged events.                  *)
LEMMA SpentExact ==
  ASSUME Counting, IInv, NEW a \in Accounts
  PROVE  Refreshed(a).capacity <=> Spent(a)
<1> DEFINE auth == quota[a].auth
           events == quota[a].events
           bucket == PlanBuckets[plan[a]]
           five == estimatedWindow(events, now, FiveHour, bucket.five)
           weekly == estimatedWindow(events, now, Weekly, bucket.weekly)
           v == view(auth, events, bucket, now)
           over(w) == atOrAboveThreshold(w.consumed, w.bucket)
           usedFive == Reaches(Used(events, now - FiveHour, now), bucket.five)
           usedWeekly == Reaches(Used(events, now - Weekly, now), bucket.weekly)
<1>1. now \in Nat
  BY ClockParts DEF IInv
<1>2. health[a] \in Healths /\ quota[a] \in Ledgers /\ plan[a] \in DOMAIN PlanBuckets
  BY Zenon, AccountParts
<1>3. Refreshed(a).capacity <=> over(v.five) \/ over(v.weekly)
  <2>1. Refreshed(a).capacity <=> Over(v)
    BY Zenon, <1>1, <1>2, RefreshHealth DEF Refreshed
  <2> QED BY Zenon, <2>1 DEF Over
<1>4. events \in Seq(Event) /\ auth \in Answers \cup {None}
  BY Zenon, <1>2, LedgerParts
<1>5. /\ bucket.five \in 0 .. MaxCredits /\ bucket.weekly \in 0 .. MaxCredits
      /\ bucket.five \in Nat /\ bucket.weekly \in Nat /\ FiveHour \in Nat /\ Weekly \in Nat
  BY Zenon, <1>2, Buckets
<1> HIDE DEF auth, events, bucket
<1>6. over(five) <=> usedFive
  <2>1. five.consumed = Consumed(events, now, FiveHour) /\ five.bucket = bucket.five
    <3>1. FiveHour \in Nat /\ bucket.five \in Nat /\ events \in Seq(Event)
      BY <1>4, <1>5
    <3> HIDE DEF five, weekly, v, usedFive, usedWeekly
    <3>2. Estimates(estimatedWindow(events, now, FiveHour, bucket.five), events, now, FiveHour, bucket.five)
      BY Zenon, <1>1, <3>1, EstimatedParts
    <3> QED BY Zenon, <3>2 DEF five, Estimates
  <2>2. atOrAboveThreshold(Consumed(events, now, FiveHour), bucket.five) <=> usedFive
    BY Zenon, <1>1, <1>4, <1>5, EstimateExact
  <2> HIDE DEF five, usedFive
  <2> QED BY Zenon, <2>1, <2>2
<1>7. over(weekly) <=> usedWeekly
  <2>1. weekly.consumed = Consumed(events, now, Weekly) /\ weekly.bucket = bucket.weekly
    <3>1. Weekly \in Nat /\ bucket.weekly \in Nat /\ events \in Seq(Event)
      BY <1>4, <1>5
    <3> HIDE DEF five, weekly, v, usedFive, usedWeekly
    <3>2. Estimates(estimatedWindow(events, now, Weekly, bucket.weekly), events, now, Weekly, bucket.weekly)
      BY Zenon, <1>1, <3>1, EstimatedParts
    <3> QED BY Zenon, <3>2 DEF weekly, Estimates
  <2>2. atOrAboveThreshold(Consumed(events, now, Weekly), bucket.weekly) <=> usedWeekly
    BY Zenon, <1>1, <1>4, <1>5, EstimateExact
  <2> HIDE DEF weekly, usedWeekly
  <2> QED BY Zenon, <2>1, <2>2
<1>8. auth # None => /\ over(auth.five) <=> Reaches(auth.five.consumed, auth.five.bucket)
                     /\ over(auth.weekly) <=> Reaches(auth.weekly.consumed, auth.weekly.bucket)
  <2> SUFFICES ASSUME auth # None
               PROVE  /\ over(auth.five) <=> Reaches(auth.five.consumed, auth.five.bucket)
                      /\ over(auth.weekly) <=> Reaches(auth.weekly.consumed, auth.weekly.bucket)
    OBVIOUS
  <2>1. auth.five \in QuotaWindow /\ auth.weekly \in QuotaWindow
    BY <1>4, AnswerParts
  <2>2. /\ auth.five.consumed \in Nat /\ auth.five.bucket \in Nat
        /\ auth.weekly.consumed \in Nat /\ auth.weekly.bucket \in Nat
    BY <2>1 DEF QuotaWindow
  <2> QED BY Zenon, <2>2, ThresholdExact
<1>9. Spent(a) <=> \/ IF Fresh(auth, now) THEN Reaches(auth.weekly.consumed, auth.weekly.bucket) ELSE usedWeekly
                   \/ IF Fresh(auth, now) /\ ~auth.fiveError THEN Reaches(auth.five.consumed, auth.five.bucket)
                      ELSE usedFive
  BY Zenon DEF Spent, auth, events, bucket
<1>10. Fresh(auth, now) => auth # None
  BY DEF Fresh
<1>11. v = IF Fresh(auth, now)
           THEN [five |-> IF auth.fiveError THEN five ELSE auth.five, weekly |-> auth.weekly]
           ELSE [five |-> five, weekly |-> weekly]
  BY Zenon DEF view
<1> HIDE DEF five, weekly, v, over, usedFive, usedWeekly
<1>12. CASE Fresh(auth, now)
  <2>1. v.weekly = auth.weekly /\ v.five = IF auth.fiveError THEN five ELSE auth.five
    BY <1>11, <1>12
  <2> QED BY Zenon, <1>3, <1>6, <1>8, <1>9, <1>10, <1>12, <2>1
<1>13. CASE ~Fresh(auth, now)
  <2>1. v.weekly = weekly /\ v.five = five
    BY <1>11, <1>13
  <2> QED BY Zenon, <1>3, <1>6, <1>7, <1>9, <1>13, <2>1
<1> QED BY <1>12, <1>13

(* The status a pick gives an account.                                     *)
LEMMA StatusMeans ==
  ASSUME Counting, IInv, NEW a \in Accounts
  PROVE  LET h == Refreshed(a)
             fit == a \notin Disabled /\ h.suspended <= now /\ h.exhausted <= now /\ ~h.capacity
         IN /\ Status(a) = "healthy" => fit /\ h.throttled <= now
            /\ Status(a) = "throttled" => fit /\ h.throttled > now
            /\ fit => Status(a) \in {"healthy", "throttled"}
<1> DEFINE h == Refreshed(a)
<1>1. now \in Nat
  BY ClockParts DEF IInv
<1>2. h \in Healths
  BY RefreshedOK
<1>3. Status(a) = assess(h, a \in Disabled, now)
  BY DEF Status
<1> HIDE DEF h
<1>4. h.suspended \in Nat /\ h.exhausted \in Nat /\ h.throttled \in Nat /\ h.capacity \in BOOLEAN
  BY <1>2, HealthParts
<1>5. CASE a \in Disabled
  <2>1. Status(a) = "disabled"
    BY <1>3, <1>5 DEF assess
  <2> QED BY <1>5, <2>1
<1>6. CASE a \notin Disabled /\ h.suspended > now
  <2>1. Status(a) = "suspended"
    BY <1>1, <1>3, <1>4, <1>6 DEF assess
  <2>2. ~(h.suspended <= now)
    BY <1>1, <1>4, <1>6
  <2> QED BY <2>1, <2>2 DEF h
<1>7. CASE a \notin Disabled /\ h.suspended <= now /\ (h.exhausted > now \/ h.capacity)
  <2>1. Status(a) = "exhausted"
    BY <1>1, <1>3, <1>4, <1>7 DEF assess
  <2>2. ~(h.exhausted <= now /\ ~h.capacity)
    BY <1>1, <1>4, <1>7
  <2> QED BY <2>1, <2>2 DEF h
<1>8. CASE a \notin Disabled /\ h.suspended <= now /\ h.exhausted <= now /\ ~h.capacity
  <2>1. Status(a) = IF h.throttled > now THEN "throttled" ELSE "healthy"
    BY <1>1, <1>3, <1>4, <1>8 DEF assess
  <2> QED BY <1>1, <1>4, <1>8, <2>1 DEF h
<1>9. h.suspended > now \/ h.suspended <= now
  BY <1>1, <1>4
<1>10. h.exhausted > now \/ h.exhausted <= now
  BY <1>1, <1>4
<1> QED BY Zenon, <1>5, <1>6, <1>7, <1>8, <1>9, <1>10

Healthy(c) == {a \in c \cap Accounts : Status(a) = "healthy"}

Throttled(c) == {a \in c \cap Accounts : Status(a) = "throttled"}

Waits(c) == {health[a].throttled - now : a \in Throttled(c)}

(* The answers of a pick.                                                  *)
LEMMA PickCases ==
  ASSUME NEW c
  PROVE  LET answer == PickAnswer(c) IN
         /\ answer.kind \in {"delegate", "choose"} => answer.accounts = Healthy(c) /\ Healthy(c) # {}
         /\ answer.kind = "no_capacity" => Healthy(c) = {} /\ Throttled(c) = {}
         /\ answer.kind = "rate_limited" =>
              /\ Throttled(c) # {}
              /\ answer.wait = CHOOSE w \in Waits(c) : \A v \in Waits(c) : w <= v
<1> DEFINE managed == c \cap Accounts
           statuses == {<<a, Status(a)>> : a \in managed}
           healthy == {a \in managed : <<a, "healthy">> \in statuses}
           throttled == {a \in managed : <<a, "throttled">> \in statuses}
           waits == {health[a].throttled - now : a \in throttled}
           least == CHOOSE w \in waits : \A v \in waits : w <= v
           answer == PickAnswer(c)
<1>1. healthy = Healthy(c) /\ throttled = Throttled(c)
  <2>1. \A a \in managed : /\ <<a, "healthy">> \in statuses <=> Status(a) = "healthy"
                           /\ <<a, "throttled">> \in statuses <=> Status(a) = "throttled"
    OBVIOUS
  <2> HIDE DEF statuses
  <2> QED BY Zenon, <2>1 DEF Healthy, Throttled
<1>2. waits = Waits(c)
  BY Zenon, <1>1 DEF Waits
<1>3. answer = IF "unmanaged" \in c THEN [kind |-> "unmanaged"]
               ELSE IF managed = {} THEN [kind |-> "unhandled"]
               ELSE IF healthy = managed THEN [kind |-> "delegate", accounts |-> managed]
               ELSE IF healthy # {} THEN [kind |-> "choose", accounts |-> healthy]
               ELSE IF throttled # {} THEN [kind |-> "rate_limited", wait |-> least]
               ELSE [kind |-> "no_capacity"]
  BY Zenon DEF PickAnswer
<1>4. least = CHOOSE w \in Waits(c) : \A v \in Waits(c) : w <= v
  BY Zenon, <1>2
<1> HIDE DEF managed, healthy, throttled, waits, least, answer
<1>5. /\ answer.kind \in {"delegate", "choose"} => answer.accounts = healthy /\ healthy # {}
      /\ answer.kind = "no_capacity" => healthy = {} /\ throttled = {}
      /\ answer.kind = "rate_limited" => throttled # {} /\ answer.wait = least
  BY Zenon, <1>3
<1> QED BY Zenon, <1>1, <1>4, <1>5 DEF answer

(* A healthy account is in none of the blocks it was told of, if an        *)
(* escalated throttle lasts no less than the longest hint.                 *)
LEMMA HealthyFree ==
  ASSUME Counting, BackoffCap <= FallbackCooldown, IInv, NEW a \in Accounts, Status(a) = "healthy"
  PROVE  a \notin Disabled /\ ~Blocked(a)
<1> DEFINE h == Refreshed(a)
<1>1. a \notin Disabled /\ h.suspended <= now /\ h.exhausted <= now /\ h.throttled <= now
  BY Zenon, StatusMeans
<1>2. HealthOK(h, told[a], now) /\ now \in Nat
  BY RefreshedOK, ClockParts DEF IInv
<1> HIDE DEF h
<1>3. h \in Healths /\ told[a] \in Tolds /\ BlocksOK(h, told[a], now)
  BY <1>2 DEF HealthOK
<1>4. h.suspended \in Nat /\ h.exhausted \in Nat /\ h.throttled \in Nat
  BY <1>3, HealthParts
<1>5. told[a].suspended \in Nat /\ told[a].exhausted \in Nat /\ told[a].throttled \in Nat
  BY <1>3, ToldParts
<1>6. told[a].suspended <= now /\ told[a].exhausted <= now /\ told[a].throttled <= now
  <2>1. /\ told[a].suspended <= now \/ told[a].suspended <= h.suspended
        /\ told[a].exhausted <= now \/ told[a].exhausted <= h.exhausted
        /\ BackoffCap <= FallbackCooldown =>
             (\/ told[a].throttled <= now \/ told[a].throttled <= h.throttled
              \/ told[a].throttled <= h.exhausted)
    BY Zenon, <1>3 DEF BlocksOK
  <2>2. told[a].suspended <= now
    BY <1>1, <1>2, <1>4, <1>5, <2>1
  <2>3. told[a].exhausted <= now
    BY <1>1, <1>2, <1>4, <1>5, <2>1
  <2>4. told[a].throttled <= now
    BY <1>1, <1>2, <1>4, <1>5, <2>1
  <2> QED BY <2>2, <2>3, <2>4
<1>7. ~(told[a].suspended > now) /\ ~(told[a].exhausted > now) /\ ~(told[a].throttled > now)
  BY <1>2, <1>5, <1>6
<1> QED BY Zenon, <1>1, <1>7 DEF Blocked

(* An account that is neither healthy nor throttled is lost for a reason.  *)
LEMMA UnfitJustified ==
  ASSUME Counting, IInv, NEW a \in Accounts, Status(a) \notin {"healthy", "throttled"}
  PROVE  a \in Disabled \/ told[a].suspended > now \/ told[a].exhausted > now \/ Spent(a) \/ told[a].earned > now
<1> DEFINE h == Refreshed(a)
<1>1. HealthOK(h, told[a], now) /\ now \in Nat
  BY RefreshedOK, ClockParts DEF IInv
<1>2. a \in Disabled \/ ~(h.suspended <= now) \/ ~(h.exhausted <= now) \/ h.capacity
  BY Zenon, StatusMeans
<1>3. h.capacity => Spent(a)
  BY SpentExact
<1> HIDE DEF h
<1>4. h \in Healths /\ told[a] \in Tolds /\ BlocksOK(h, told[a], now)
  BY <1>1 DEF HealthOK
<1>5. h.suspended \in Nat /\ h.exhausted \in Nat
  BY <1>4, HealthParts
<1>6. told[a].suspended \in Nat /\ told[a].exhausted \in Nat /\ told[a].earned \in Nat
  BY <1>4, ToldParts
<1>7. /\ h.suspended <= now \/ h.suspended <= told[a].suspended
      /\ h.exhausted <= now \/ h.exhausted <= told[a].exhausted \/ h.exhausted <= told[a].earned
  BY Zenon, <1>4 DEF BlocksOK
<1>8. ~(h.suspended <= now) => told[a].suspended > now
  BY <1>1, <1>5, <1>6, <1>7
<1>9. ~(h.exhausted <= now) => told[a].exhausted > now \/ told[a].earned > now
  BY <1>1, <1>5, <1>6, <1>7
<1> QED BY Zenon, <1>2, <1>3, <1>8, <1>9

(* A throttled account waits no longer than the cap, and has allowance.    *)
LEMMA ThrottledWait ==
  ASSUME Counting, IInv, NEW a \in Accounts, Status(a) = "throttled"
  PROVE  /\ health[a].throttled - now \in 1 .. BackoffCap
         /\ a \notin Disabled /\ ~Spent(a)
<1> DEFINE h == Refreshed(a)
<1>1. HealthOK(h, told[a], now) /\ now \in Nat
  BY RefreshedOK, ClockParts DEF IInv
<1>2. a \notin Disabled /\ ~h.capacity /\ h.throttled > now
  BY Zenon, StatusMeans
<1>3. ~Spent(a)
  BY <1>2, SpentExact
<1>4. h.throttled = health[a].throttled
  <2>1. health[a] \in Healths /\ quota[a] \in Ledgers /\ plan[a] \in DOMAIN PlanBuckets
    BY Zenon, AccountParts
  <2>2. SameBlocks(health[a], h)
    BY Zenon, <1>1, <2>1, RefreshHealth DEF Refreshed
  <2> QED BY <2>2 DEF SameBlocks
<1> HIDE DEF h
<1>5. h \in Healths /\ BlocksOK(h, told[a], now)
  BY <1>1 DEF HealthOK
<1>6. h.throttled \in Nat /\ BackoffCap \in Nat
  BY <1>5, HealthParts
<1>7. h.throttled <= now + BackoffCap
  BY <1>5 DEF BlocksOK
<1>8. h.throttled - now \in 1 .. BackoffCap
  BY <1>1, <1>2, <1>6, <1>7
<1> QED BY <1>2, <1>3, <1>4, <1>8

---------------------------------------------------------------------------
(* What the invariant implies.                                             *)

(* The invariant gives the types.                                          *)
LEMMA InvTypes ==
  ASSUME IInv
  PROVE  TypeOK
<1>1. Clock /\ Shapes
  BY DEF IInv
<1>2. \A a \in Accounts : {told[a].suspended, told[a].exhausted, told[a].throttled} \subseteq Nat
  BY Zenon, AccountParts, ToldParts
<1>3. /\ health \in [Accounts -> [suspended : Nat, exhausted : Nat, capacity : BOOLEAN,
                                  resets : Nat, throttled : Nat, streak : 0 .. MaxThrottles]]
      /\ plan \in [Accounts -> DOMAIN PlanBuckets]
  BY Zenon, <1>1 DEF Shapes, Healths
<1> QED BY Zenon, <1>1, <1>2, <1>3 DEF TypeOK, Clock

(* The invariant gives what state.json needs.                              *)
LEMMA InvLoads ==
  ASSUME IInv
  PROVE  SavedStateLoads
<1>1. ASSUME NEW q, NEW t \in Nat, NEW gone, LedgerOK(q, t, gone)
      PROVE  validateAccountQuotaState(q, ClockSkew, t)
  <2>1. q \in Ledgers /\ q.events \in Seq(Event) /\ q.auth \in Answers \cup {None} /\ ClockSkew \in Nat
    BY Zenon, <1>1, LedgerParts, ZaiRoutingAssumption DEF LedgerOK
  <2>2. Len(q.events) \in Nat /\ DOMAIN q.events = 1 .. Len(q.events)
    BY Zenon, <2>1, EventParts
  <2>3. \A i \in 1 .. Len(q.events) : /\ q.events[i].at \in Nat /\ q.events[i].at > 0
                                      /\ q.events[i].credits \in Nat /\ q.events[i].credits > 0
    BY Zenon, <2>1, EventParts
  <2>4. ASSUME NEW i \in DOMAIN q.events
        PROVE  /\ q.events[i].at # NoTime /\ q.events[i].at <= t + ClockSkew
               /\ q.events[i].credits > 0
               /\ i > 1 => q.events[i].at >= q.events[i - 1].at
    <3>1. q.events[i].at # NoTime /\ q.events[i].credits > 0
      BY <2>2, <2>3, <2>4 DEF NoTime
    <3>2. q.events[i].at <= t + ClockSkew
      BY <1>1, <2>4 DEF LedgerOK
    <3>3. i > 1 => q.events[i].at >= q.events[i - 1].at
      <4>1. i > 1 => i - 1 \in DOMAIN q.events /\ i - 1 <= i
        BY <2>2, <2>4
      <4>2. i > 1 => q.events[i - 1].at <= q.events[i].at
        BY Zenon, <1>1, <2>4, <4>1 DEF LedgerOK, InOrder
      <4> QED BY <2>2, <2>3, <2>4, <4>1, <4>2
    <3> QED BY <3>1, <3>2, <3>3
  <2>5. q.auth # None => q.auth.at <= t + ClockSkew
    <3>1. q.auth # None => AnswerOK(q.auth, t)
      BY Zenon, <1>1 DEF LedgerOK
    <3>2. q.auth # None => q.auth.at <= t
      BY Zenon, <3>1 DEF AnswerOK
    <3>3. q.auth # None => q.auth.at \in Nat
      BY <2>1, AnswerParts
    <3> QED BY <2>1, <3>2, <3>3
  <2>6. q.auth # None => /\ ValidWindow(q.auth.weekly, q.auth.at)
                         /\ IF q.auth.fiveError THEN q.auth.five = NoWindow
                            ELSE ValidWindow(q.auth.five, q.auth.at)
    BY Zenon, <1>1 DEF LedgerOK, AnswerOK
  <2>7. Len(q.hashes) <= MaxDedup
    BY <1>1 DEF LedgerOK
  <2> QED BY Zenon, <2>4, <2>5, <2>6, <2>7 DEF validateAccountQuotaState
<1> SUFFICES ASSUME NEW a \in Accounts
             PROVE  /\ validateAccountQuotaState(quota[a], ClockSkew, now)
                    /\ validateAccountQuotaState(saved.quota[a], ClockSkew, now)
  BY DEF SavedStateLoads
<1>2. now \in Nat
  BY ClockParts DEF IInv
<1>3. LedgerOK(quota[a], now, evicted[a]) /\ LedgerOK(saved.quota[a], now, evicted[a])
  BY Zenon, AccountParts
<1> QED BY Zenon, <1>1, <1>2, <1>3

(* The invariant gives that picks avoid blocked accounts.                  *)
LEMMA InvAvoids ==
  ASSUME Counting, BackoffCap <= FallbackCooldown, IInv
  PROVE  PickAvoidsBlocked
<1> SUFFICES ASSUME NEW c \in Candidates, PickAnswer(c).kind \in {"delegate", "choose"}
             PROVE  /\ PickAnswer(c).accounts # {}
                    /\ \A a \in PickAnswer(c).accounts : a \notin Disabled /\ ~Blocked(a)
  BY DEF PickAvoidsBlocked
<1>1. PickAnswer(c).accounts = Healthy(c) /\ Healthy(c) # {}
  BY Zenon, PickCases
<1>2. \A a \in Healthy(c) : a \in Accounts /\ Status(a) = "healthy"
  BY Zenon DEF Healthy
<1> QED BY <1>1, <1>2, HealthyFree

(* The invariant gives that a loss is justified.                           *)
LEMMA InvJustifies ==
  ASSUME Counting, IInv
  PROVE  LossIsJustified
<1>1. ASSUME NEW c, PickAnswer(c).kind = "no_capacity", NEW a \in c \cap Accounts
      PROVE  a \in Disabled \/ told[a].suspended > now \/ told[a].exhausted > now \/ Spent(a) \/ told[a].earned > now
  <2>1. Healthy(c) = {} /\ Throttled(c) = {}
    BY Zenon, <1>1, PickCases
  <2>2. a \in Accounts /\ Status(a) \notin {"healthy", "throttled"}
    BY <1>1, <2>1 DEF Healthy, Throttled
  <2> QED BY <1>1, <2>2, UnfitJustified
<1>2. ASSUME NEW c, PickAnswer(c).kind = "rate_limited"
      PROVE  /\ PickAnswer(c).wait \in 1 .. BackoffCap
             /\ \E a \in c \cap Accounts : a \notin Disabled /\ ~Spent(a)
  <2>1. /\ Throttled(c) # {}
        /\ PickAnswer(c).wait = CHOOSE w \in Waits(c) : \A v \in Waits(c) : w <= v
    BY Zenon, <1>2, PickCases
  <2>2. \A a \in Throttled(c) : a \in c \cap Accounts /\ a \in Accounts /\ Status(a) = "throttled"
    BY Zenon DEF Throttled
  <2>3. \A a \in Throttled(c) : health[a].throttled - now \in 1 .. BackoffCap /\ a \notin Disabled /\ ~Spent(a)
    BY <1>2, <2>2, ThrottledWait
  <2>4. Waits(c) \subseteq 1 .. BackoffCap /\ Waits(c) # {}
    BY Zenon, <2>1, <2>3 DEF Waits
  <2>5. \E w \in Waits(c) : \A v \in Waits(c) : w <= v
    <3>1. Waits(c) \subseteq Nat
      BY <2>4, AccountHealthAssumption
    <3> QED BY <2>4, <3>1, Least
  <2>6. PickAnswer(c).wait \in Waits(c)
    BY <2>1, <2>5
  <2>7. \E a \in c \cap Accounts : a \notin Disabled /\ ~Spent(a)
    BY Zenon, <2>1, <2>2, <2>3
  <2> QED BY <2>4, <2>6, <2>7
<1> QED BY Zenon, <1>1, <1>2 DEF LossIsJustified

(* The invariant gives that a record is charged once.                      *)
LEMMA InvOnce ==
  ASSUME IInv
  PROVE  CountedOnce
<1>1. ASSUME NEW a \in Accounts PROVE Once(quota[a].events, evicted[a])
  BY Zenon, AccountParts DEF LedgerOK
<1> QED BY Zenon, <1>1 DEF CountedOnce, Once

(* The invariant gives that plans follow answers.                          *)
LEMMA InvFollows ==
  ASSUME IInv
  PROVE  PlanFollowsAnswer
<1>1. ASSUME NEW a \in Accounts PROVE Follows(a, quota[a], plan[a])
  BY Zenon, AccountParts
<1> QED BY Zenon, <1>1 DEF PlanFollowsAnswer, Follows

(* No estimate is at the largest amount there is.                          *)
Unsaturated ==
  \A a \in Accounts, d \in {FiveHour, Weekly} : Used(quota[a].events, now - d, now) <= MaxCredits

(* The invariant gives that the reset of an estimate is exact.             *)
LEMMA InvExact ==
  ASSUME Counting, IInv, Unsaturated,
         \A p \in DOMAIN PlanBuckets : ~Reaches(0, PlanBuckets[p].five) /\ ~Reaches(0, PlanBuckets[p].weekly)
  PROVE  EstimateResetExact
<1>1. ASSUME NEW a \in Accounts, \A i \in DOMAIN quota[a].events : quota[a].events[i].at <= now
      PROVE  /\ Exact(quota[a].events, now, FiveHour, PlanBuckets[plan[a]].five)
             /\ Exact(quota[a].events, now, Weekly, PlanBuckets[plan[a]].weekly)
  <2> DEFINE events == quota[a].events
  <2>1. now \in Nat
    BY ClockParts DEF IInv
  <2>2. LedgerOK(quota[a], now, evicted[a]) /\ plan[a] \in DOMAIN PlanBuckets /\ quota[a] \in Ledgers
    BY Zenon, AccountParts
  <2>3. events \in Seq(Event) /\ InOrder(events)
    BY Zenon, <2>2, LedgerParts DEF LedgerOK
  <2>4. /\ PlanBuckets[plan[a]].five \in 0 .. MaxCredits /\ PlanBuckets[plan[a]].weekly \in 0 .. MaxCredits
        /\ FiveHour \in Nat /\ Weekly \in Nat
    BY Zenon, <2>2, Buckets
  <2>5. ~Reaches(0, PlanBuckets[plan[a]].five) /\ ~Reaches(0, PlanBuckets[plan[a]].weekly)
    BY Zenon, <2>2
  <2>6. Used(events, now - FiveHour, now) <= MaxCredits /\ Used(events, now - Weekly, now) <= MaxCredits
    BY Zenon DEF Unsaturated
  <2>7. Past(events, now)
    BY Zenon, <1>1, <2>3 DEF Past
  <2> HIDE DEF events
  <2>8. Exact(events, now, FiveHour, PlanBuckets[plan[a]].five)
    BY Zenon, <2>1, <2>4, <2>5, <2>6, <2>7, ResetExact
  <2>9. Exact(events, now, Weekly, PlanBuckets[plan[a]].weekly)
    BY Zenon, <2>1, <2>4, <2>5, <2>6, <2>7, ResetExact
  <2> QED BY Zenon, <2>8, <2>9 DEF events
<1>2. ASSUME NEW a \in Accounts, NEW w \in {<<FiveHour, "five">>, <<Weekly, "weekly">>},
             \A i \in DOMAIN quota[a].events : quota[a].events[i].at <= now
      PROVE  Exact(quota[a].events, now, w[1], PlanBuckets[plan[a]][w[2]])
  <2>1. w = <<FiveHour, "five">> \/ w = <<Weekly, "weekly">>
    OBVIOUS
  <2>2. CASE w = <<FiveHour, "five">>
    BY Zenon, <1>1, <1>2, <2>2
  <2>3. CASE w = <<Weekly, "weekly">>
    BY Zenon, <1>1, <1>2, <2>3
  <2> QED BY Zenon, <2>1, <2>2, <2>3
<1> QED BY Zenon, <1>2 DEF EstimateResetExact, Exact

---------------------------------------------------------------------------
(* The facts of the library.                                               *)

LOCAL INSTANCE FiniteSetTheorems

(* A nonempty set of naturals has a least element.                         *)
LEMMA LeastNatural ==
  ASSUME NEW T, T \subseteq Nat, T # {}
  PROVE  \E x \in T : \A y \in T : x <= y
<1> DEFINE R == OpToRel(<, Nat)
<1>1. IsWellFoundedOn(R, Nat)
  BY Zenon, NatLessThanWellFounded
<1>2. \A x, y \in Nat : <<x, y>> \in R <=> x < y
  BY DEF OpToRel
<1>3. \E x \in T : \A y \in T : ~(<<y, x>> \in R)
  <2> HIDE DEF R
  <2> QED BY Zenon, <1>1, WFMin
<1>4. PICK x \in T : \A y \in T : ~(<<y, x>> \in R)
  BY Zenon, <1>3
<1>5. ASSUME NEW y \in T PROVE x <= y
  <2>1. ~(y < x)
    <3> HIDE DEF R
    <3> QED BY Zenon, <1>2, <1>4
  <2> QED BY <2>1
<1> QED BY <1>5

(* A set of moments has a size, which grows by one with a new moment.      *)
LEMMA Moments ==
  ASSUME NEW t \in Nat, NEW rate \in SUBSET (0 .. t)
  PROVE  /\ Size(rate) \in Nat /\ Size(rate \ {t}) \in Nat
         /\ Size(rate \cup {t}) = Size(rate \ {t}) + 1
         /\ Size(rate) <= Size(rate \cup {t})
<1>1. IsFiniteSet(0 .. t)
  BY FS_Interval
<1>2. rate \cup {t} \subseteq 0 .. t /\ rate \ {t} \subseteq 0 .. t
  OBVIOUS
<1>3. IsFiniteSet(rate) /\ IsFiniteSet(rate \ {t}) /\ IsFiniteSet(rate \cup {t})
  BY Zenon, <1>1, <1>2, FS_Subset
<1>4. Cardinality(rate) \in Nat /\ Cardinality(rate \ {t}) \in Nat
  BY <1>3, FS_CardinalityType
<1>5. Cardinality((rate \ {t}) \cup {t}) = Cardinality(rate \ {t}) + 1
  BY Zenon, <1>3, FS_AddElement
<1>6. (rate \ {t}) \cup {t} = rate \cup {t}
  OBVIOUS
<1>7. Cardinality(rate) <= Cardinality(rate \cup {t})
  BY <1>3, FS_Subset
<1>8. \A S : Cardinality(S) = Size(S)
  BY Zenon DEF Cardinality, Size
<1>9. Cardinality(rate \cup {t}) = Cardinality(rate \ {t}) + 1
  BY Zenon, <1>5, <1>6
<1> QED BY Zenon, <1>4, <1>7, <1>8, <1>9

(* The hypothesis of the lemmas.                                           *)
LEMMA Counts == Counting
<1>1. ASSUME NEW T, T \subseteq Nat, T # {}
      PROVE  \E x \in T : \A y \in T : x <= y
  BY Zenon, <1>1, LeastNatural
<1>2. ASSUME NEW t \in Nat, NEW rate \in SUBSET (0 .. t)
      PROVE  /\ Size(rate) \in Nat /\ Size(rate \ {t}) \in Nat
             /\ Size(rate \cup {t}) = Size(rate \ {t}) + 1
             /\ Size(rate) <= Size(rate \cup {t})
  BY Zenon, Moments
<1> QED BY Zenon, <1>1, <1>2 DEF Counting

---------------------------------------------------------------------------
(* Theorems.                                                               *)

(* The invariant holds of every behaviour.                                 *)
LEMMA Invariance == Spec => []IInv
<1>1. Init => IInv
  BY Counts, InitInv
<1>2. IInv /\ [Next]_vars => IInv'
  BY Counts, Inductive
<1> QED BY <1>1, <1>2, PTL DEF Spec

(* The health of every account stays within its types; in particular the   *)
(* streak that throttle counts is cut off at its maximum.                  *)
THEOREM RoutingTypes == Spec => []TypeOK
<1>1. IInv => TypeOK
  BY InvTypes
<1> QED BY <1>1, Invariance, PTL

(* What handleUsage, pollOnce and unblock leave can always be written to   *)
(* state.json, and what was written loads at any later time, whatever the  *)
(* order in which usage records and quota answers arrive.                  *)
THEOREM SavedStateLoadsAlways == Spec => []SavedStateLoads
<1>1. IInv => SavedStateLoads
  BY InvLoads
<1> QED BY <1>1, Invariance, PTL

(* No pick, by choosing or by delegating, reaches an account that is       *)
(* disabled or within a block it was told of, if the configured fallback   *)
(* cooldown is not shorter than the cap on throttles: with a shorter one,  *)
(* the escalation of a hinted throttle ends before the hint.               *)
THEOREM PickAvoidsBlockedAlways ==
  ASSUME BackoffCap <= FallbackCooldown
  PROVE  Spec => []PickAvoidsBlocked
<1>1. IInv => PickAvoidsBlocked
  BY Counts, InvAvoids
<1> QED BY <1>1, Invariance, PTL

(* pick reports the lane lost only if every managed candidate is disabled, *)
(* in a block it was told of or has earned, or has spent its allowance; it *)
(* asks to retry only within the cap, and only if a throttle is all that   *)
(* stands in the way of some candidate.                                    *)
THEOREM LossIsJustifiedAlways == Spec => []LossIsJustified
<1>1. IInv => LossIsJustified
  BY Counts, InvJustifies
<1> QED BY <1>1, Invariance, PTL

(* A usage record is charged once however often it is delivered, also over *)
(* a restart, unless the bounded filter has dropped its hash in between.   *)
THEOREM CountedOnceAlways == Spec => []CountedOnce
<1>1. IInv => CountedOnce
  BY InvOnce
<1> QED BY <1>1, Invariance, PTL

(* The estimator's buckets are those of the plan named by the answer the   *)
(* account holds, unless the operator chose them, also after a restart.    *)
THEOREM PlanFollowsAnswerAlways == Spec => []PlanFollowsAnswer
<1>1. IInv => PlanFollowsAnswer
  BY InvFollows
<1> QED BY <1>1, Invariance, PTL

(* The reset the estimator promises is the first moment at which the       *)
(* window, left alone, is below its threshold, whatever usage the ledger   *)
(* holds, unless the estimate has run into saturatingAdd's limit, for      *)
(* buckets of which an unused window is below the threshold.               *)
THEOREM EstimateResetExactUnlessSaturated ==
  ASSUME \A p \in DOMAIN PlanBuckets : ~Reaches(0, PlanBuckets[p].five) /\ ~Reaches(0, PlanBuckets[p].weekly)
  PROVE  Spec => [](Unsaturated => EstimateResetExact)
<1>1. IInv => (Unsaturated => EstimateResetExact)
  BY Counts, InvExact
<1> QED BY <1>1, Invariance, PTL

=============================================================================
