------------------------ MODULE ErrorInjector_proofs ------------------------
(***************************************************************************)
(* The error injector, for every set of cells, every set of errors and     *)
(* every measured vector that InjectorAssumption admits, however many      *)
(* errors are in force at once. What is applied and how often is computed  *)
(* by recursion over the errors, so the proofs need induction: the theorem *)
(* of the library on minimal elements gives it in a form without a         *)
(* predicate for a parameter.                                              *)
(***************************************************************************)
EXTENDS ErrorInjector, WellFoundedInduction, TLAPS

-----------------------------------------------------------------------------
(* Induction over the natural numbers.                                     *)

\* A set of numbers has a least one.
LEMMA LeastNumber ==
  ASSUME NEW T, T \subseteq Nat, T # {}
  PROVE  \E x \in T : \A y \in T : x <= y
<1>1. PICK x \in T : \A y \in T : ~ (<<y, x>> \in OpToRel(<, Nat))
  <2>1. IsWellFoundedOn(OpToRel(<, Nat), Nat)
    BY NatLessThanWellFounded, Zenon
  <2> QED
    BY <2>1, WFMin, Zenon
<1>2. ASSUME NEW y \in T PROVE x <= y
  <2>1. ~ (<<y, x>> \in OpToRel(<, Nat))
    BY <1>1, Zenon
  <2>2. x \in Nat /\ y \in Nat
    OBVIOUS
  <2> QED
    BY <2>1, <2>2 DEF OpToRel
<1> QED
  BY <1>2

\* Induction; the set of the numbers that have the property stands for the property.
LEMMA Induction ==
  ASSUME NEW T, 0 \in T, \A n \in Nat : n \in T => n + 1 \in T
  PROVE  Nat \subseteq T
<1> SUFFICES ASSUME Nat \ T # {} PROVE FALSE
  OBVIOUS
<1>1. PICK x \in Nat \ T : \A y \in Nat \ T : x <= y
  BY LeastNumber
<1>2. x # 0 /\ x - 1 \in Nat
  BY <1>1
<1>3. x - 1 \in T
  BY <1>1, <1>2
<1> QED
  BY <1>1, <1>2, <1>3

-----------------------------------------------------------------------------
(* The events that are kept.                                               *)

\* Entry i of kept in Keep.
Entry(errors, events, kept, i) ==
  IF i = 0 THEN <<>>
  ELSE IF errors[i] \in events THEN Append(kept[i - 1], errors[i]) ELSE kept[i - 1]

\* The entries up to n are the ones kept in Keep has.
Filters(errors, events, kept, n) ==
  kept = [i \in 0..n |-> Entry(errors, events, kept, i)]

\* The recursive definition of kept has a solution.
LEMMA KeptExists ==
  ASSUME NEW errors, NEW events, NEW n \in Nat
  PROVE  \E kept : Filters(errors, events, kept, n)
<1> DEFINE T == {m \in Nat : \E kept : Filters(errors, events, kept, m)}
<1>1. 0 \in T
  <2> DEFINE first == [i \in 0..0 |-> <<>>]
  <2>1. first = [i \in 0..0 |-> Entry(errors, events, first, i)]
    BY DEF Entry
  <2> QED
    BY <2>1 DEF Filters
<1>2. ASSUME NEW m \in Nat, m \in T PROVE m + 1 \in T
  <2>1. PICK kept : Filters(errors, events, kept, m)
    BY <1>2
  <2> DEFINE next == [i \in 0..(m + 1) |->
                        IF i = m + 1 THEN Entry(errors, events, kept, i) ELSE kept[i]]
  <2>2. ASSUME NEW i \in 0..(m + 1) PROVE next[i] = Entry(errors, events, next, i)
    <3>1. i # 0 => i - 1 \in 0..m /\ next[i - 1] = kept[i - 1]
      OBVIOUS
    <3>2. Entry(errors, events, next, i) = Entry(errors, events, kept, i)
      BY <3>1 DEF Entry
    <3>3. i # m + 1 => i \in 0..m /\ kept[i] = Entry(errors, events, kept, i)
      BY <2>1 DEF Filters
    <3> QED
      BY <3>2, <3>3
  <2> HIDE DEF next
  <2>3. next = [i \in 0..(m + 1) |-> Entry(errors, events, next, i)]
    <3>1. next = [i \in 0..(m + 1) |-> next[i]]
      BY DEF next
    <3> QED
      BY <2>2, <3>1
  <2> QED
    BY <2>3 DEF Filters
<1> HIDE DEF T
<1>3. Nat \subseteq T
  BY <1>1, <1>2, Induction
<1> QED
  BY <1>3 DEF T

\* What Keep computes.
LEMMA KeepIs ==
  ASSUME NEW errors \in Seq(Injections), NEW events
  PROVE  \E kept : /\ Filters(errors, events, kept, Len(errors))
                   /\ Keep(errors, events) = kept[Len(errors)]
<1>1. Len(errors) \in Nat
  OBVIOUS
<1> DEFINE chosen == CHOOSE kept : Filters(errors, events, kept, Len(errors))
<1>2. Filters(errors, events, chosen, Len(errors))
  BY <1>1, KeptExists
<1>3. Keep(errors, events) = chosen[Len(errors)]
  BY DEF Keep, Filters, Entry
<1> QED
  BY <1>2, <1>3

\* Keep returns the events of the sequence that are in the set, and no more of them.
LEMMA KeepSelects ==
  ASSUME NEW errors \in Seq(Injections), NEW events
  PROVE  /\ Keep(errors, events) \in Seq(Injections)
         /\ Len(Keep(errors, events)) <= Len(errors)
         /\ Elements(Keep(errors, events)) = Elements(errors) \cap events
<1>1. PICK kept : /\ Filters(errors, events, kept, Len(errors))
                  /\ Keep(errors, events) = kept[Len(errors)]
  BY KeepIs
<1> DEFINE Good(q, n) ==
      /\ q \in Seq(Injections) /\ Len(q) <= n
      /\ Elements(q) = {errors[i] : i \in 1..n} \cap events
<1> DEFINE T == {n \in Nat : n <= Len(errors) => Good(kept[n], n)}
<1>2. ASSUME NEW n \in 0..Len(errors) PROVE kept[n] = Entry(errors, events, kept, n)
  BY <1>1 DEF Filters
<1>3. 0 \in T
  <2>1. kept[0] = <<>>
    BY <1>2 DEF Entry
  <2>2. Good(<<>>, 0)
    BY DEF Elements
  <2> QED
    BY <2>1, <2>2
<1>4. ASSUME NEW n \in Nat, n \in T PROVE n + 1 \in T
  <2> SUFFICES ASSUME n + 1 <= Len(errors) PROVE Good(kept[n + 1], n + 1)
    OBVIOUS
  <2>1. Good(kept[n], n)
    BY <1>4
  <2>2. kept[n + 1] = IF errors[n + 1] \in events THEN Append(kept[n], errors[n + 1])
                                                  ELSE kept[n]
    <3>1. n + 1 \in 0..Len(errors) /\ n + 1 # 0 /\ n + 1 - 1 = n
      OBVIOUS
    <3> QED
      BY <1>2, <3>1 DEF Entry
  <2>3. errors[n + 1] \in Injections
    OBVIOUS
  <2>4. {errors[i] : i \in 1..(n + 1)} = {errors[i] : i \in 1..n} \cup {errors[n + 1]}
    <3>1. 1..(n + 1) = 1..n \cup {n + 1}
      OBVIOUS
    <3> QED
      BY <3>1
  <2>5. CASE errors[n + 1] \in events
    <3> DEFINE q == kept[n]
    <3>1. q \in Seq(Injections) /\ Len(q) <= n
      BY <2>1
    <3>2. Elements(Append(q, errors[n + 1])) = Elements(q) \cup {errors[n + 1]}
      BY <2>3, <3>1 DEF Elements
    <3>3. Append(q, errors[n + 1]) \in Seq(Injections) /\ Len(Append(q, errors[n + 1])) <= n + 1
      BY <2>3, <3>1
    <3> QED
      BY <2>1, <2>2, <2>4, <2>5, <3>2, <3>3
  <2>6. CASE errors[n + 1] \notin events
    BY <2>1, <2>2, <2>4, <2>6
  <2> QED
    BY <2>5, <2>6
<1> HIDE DEF T
<1>5. Len(errors) \in Nat /\ Len(errors) \in T
  BY <1>3, <1>4, Induction
<1>6. Elements(errors) = {errors[i] : i \in 1..Len(errors)}
  BY DEF Elements
<1> QED
  BY <1>1, <1>5, <1>6 DEF T

-----------------------------------------------------------------------------
(* Folds over the errors of a sequence.                                    *)

\* What one more error, number i of the sequence, makes of what is done by a set of
\* earlier ones, as FoldLeft does it.
Folded(base, apply, result, s) ==
  IF s = {} THEN base ELSE apply[Max(s)][result[s \ {Max(s)}]]

\* The greatest of a set of numbers.
LEMMA GreatestNumber ==
  ASSUME NEW n \in Nat, NEW s \in SUBSET (1..(n + 1)), n + 1 \in s
  PROVE  Max(s) = n + 1
<1>1. \A x \in s : x \in Int /\ x <= n + 1
  OBVIOUS
<1>2. \A x \in s : (\A y \in s : x >= y) => x = n + 1
  BY <1>1
<1>3. \E x \in s : \A y \in s : x >= y
  BY <1>1
<1>4. Max(s) \in s /\ \A y \in s : Max(s) >= y
  BY <1>3 DEF Max
<1> QED
  BY <1>2, <1>4

\* Max of a set of positions is one of them.
LEMMA GreatestOf ==
  ASSUME NEW n \in Nat, NEW s \in SUBSET (1..n), s # {}
  PROVE  Max(s) \in s
<1> DEFINE T == {m \in Nat : \A q \in SUBSET (1..m) : q # {} => Max(q) \in q}
<1>1. 0 \in T
  <2>1. \A q \in SUBSET (1..0) : q = {}
    OBVIOUS
  <2> QED
    BY <2>1
<1>2. ASSUME NEW m \in Nat, m \in T PROVE m + 1 \in T
  <2> SUFFICES ASSUME NEW q \in SUBSET (1..(m + 1)), q # {} PROVE Max(q) \in q
    OBVIOUS
  <2>1. CASE m + 1 \in q
    <3>1. Max(q) = m + 1
      BY <2>1, GreatestNumber
    <3> QED
      BY <2>1, <3>1
  <2>2. CASE m + 1 \notin q
    <3>1. q \in SUBSET (1..m)
      BY <2>2
    <3> QED
      BY <1>2, <3>1
  <2> QED
    BY <2>1, <2>2
<1> HIDE DEF T
<1>3. n \in T
  BY <1>1, <1>2, Induction
<1> QED
  BY <1>3 DEF T

\* The results for the sets of the first n errors, all of them in A.
Folds(A, base, apply, result, n) ==
  /\ result \in [SUBSET (1..n) -> A]
  /\ \A s \in SUBSET (1..n) : result[s] = Folded(base, apply, result, s)

\* A fold of functions from a set to itself has a result, which is in the set.
LEMMA FoldExists ==
  ASSUME NEW A, NEW base \in A, NEW n \in Nat, NEW apply \in [1..n -> [A -> A]]
  PROVE  \E result : Folds(A, base, apply, result, n)
<1> DEFINE T == {m \in Nat : m <= n => \E result : Folds(A, base, apply, result, m)}
<1>1. 0 \in T
  <2> DEFINE first == [s \in SUBSET (1..0) |-> base]
  <2>1. \A s \in SUBSET (1..0) : s = {}
    OBVIOUS
  <2>2. first \in [SUBSET (1..0) -> A]
    OBVIOUS
  <2>3. \A s \in SUBSET (1..0) : first[s] = Folded(base, apply, first, s)
    BY <2>1 DEF Folded
  <2> QED
    BY <2>2, <2>3 DEF Folds
<1>2. ASSUME NEW m \in Nat, m \in T PROVE m + 1 \in T
  <2> SUFFICES ASSUME m + 1 <= n PROVE \E result : Folds(A, base, apply, result, m + 1)
    OBVIOUS
  <2>1. PICK result : Folds(A, base, apply, result, m)
    BY <1>2
  <2> DEFINE next == [s \in SUBSET (1..(m + 1)) |->
                        IF m + 1 \in s THEN apply[m + 1][result[s \ {m + 1}]] ELSE result[s]]
  <2>2. ASSUME NEW s \in SUBSET (1..(m + 1)), m + 1 \notin s
        PROVE  s \in SUBSET (1..m) /\ next[s] = result[s]
    BY <2>2
  <2>3. ASSUME NEW s \in SUBSET (1..(m + 1)), m + 1 \in s
        PROVE  s \ {m + 1} \in SUBSET (1..m) /\ next[s] = apply[m + 1][result[s \ {m + 1}]]
    BY <2>3
  <2>4. apply[m + 1] \in [A -> A]
    OBVIOUS
  <2>5. next \in [SUBSET (1..(m + 1)) -> A]
    <3>1. ASSUME NEW s \in SUBSET (1..(m + 1)) PROVE next[s] \in A
      <4>1. CASE m + 1 \in s
        BY <2>1, <2>3, <2>4, <4>1 DEF Folds
      <4>2. CASE m + 1 \notin s
        BY <2>1, <2>2, <4>2 DEF Folds
      <4> QED
        BY <4>1, <4>2
    <3> QED
      BY <3>1
  <2>6. ASSUME NEW s \in SUBSET (1..(m + 1)) PROVE next[s] = Folded(base, apply, next, s)
    <3>1. CASE m + 1 \in s
      <4>1. Max(s) = m + 1
        BY <3>1, GreatestNumber
      <4>2. s \ {m + 1} \in SUBSET (1..(m + 1)) /\ m + 1 \notin s \ {m + 1}
        OBVIOUS
      <4>3. next[s \ {m + 1}] = result[s \ {m + 1}]
        BY <2>2, <4>2
      <4> HIDE DEF next
      <4> QED
        BY <2>3, <3>1, <4>1, <4>3 DEF Folded
    <3>2. CASE m + 1 \notin s
      <4>1. s \ {Max(s)} \in SUBSET (1..(m + 1)) /\ m + 1 \notin s \ {Max(s)}
        BY <3>2
      <4>2. next[s \ {Max(s)}] = result[s \ {Max(s)}] /\ next[s] = result[s]
        BY <2>2, <3>2, <4>1
      <4>3. result[s] = Folded(base, apply, result, s)
        BY <2>1, <2>2, <3>2 DEF Folds
      <4> HIDE DEF next
      <4> QED
        BY <4>2, <4>3 DEF Folded
    <3> QED
      BY <3>1, <3>2
  <2> HIDE DEF next
  <2> QED
    BY <2>5, <2>6 DEF Folds
<1> HIDE DEF T
<1>3. n \in T
  BY <1>1, <1>2, Induction
<1> QED
  BY <1>3 DEF T

\* A fold stays in a set that each of its steps stays in.
LEMMA FoldStays ==
  ASSUME NEW A, NEW n \in Nat, NEW result, result[{}] \in A,
         \A s \in SUBSET (1..n) : s # {} /\ result[s \ {Max(s)}] \in A => result[s] \in A
  PROVE  result[1..n] \in A
<1> DEFINE T == {m \in Nat : m <= n => \A s \in SUBSET (1..m) : result[s] \in A}
<1>1. 0 \in T
  <2>1. \A s \in SUBSET (1..0) : s = {}
    OBVIOUS
  <2> QED
    BY <2>1
<1>2. ASSUME NEW m \in Nat, m \in T PROVE m + 1 \in T
  <2> SUFFICES ASSUME m + 1 <= n, NEW s \in SUBSET (1..(m + 1)) PROVE result[s] \in A
    OBVIOUS
  <2>1. CASE m + 1 \in s
    <3>1. Max(s) = m + 1
      BY <2>1, GreatestNumber
    <3>2. s \ {m + 1} \in SUBSET (1..m) /\ s \in SUBSET (1..n) /\ s # {}
      BY <2>1
    <3>3. result[s \ {m + 1}] \in A
      BY <1>2, <3>2
    <3> QED
      BY <3>1, <3>2, <3>3
  <2>2. CASE m + 1 \notin s
    <3>1. s \in SUBSET (1..m)
      BY <2>2
    <3> QED
      BY <1>2, <3>1
  <2> QED
    BY <2>1, <2>2
<1> HIDE DEF T
<1>3. n \in T
  BY <1>1, <1>2, Induction
<1> QED
  BY <1>3 DEF T

-----------------------------------------------------------------------------
(* What one error does to the KPIs.                                        *)

\* The KPIs of a cell that its measured ones may become when the errors in the
\* sequence are applied: legal, and of the measured values where no error changes them.
Degraded(measured, errors) ==
  {k \in [Metrics -> Int] :
     /\ LegalKPIs(k)
     /\ \A m \in Metrics : k[m] # measured[m] =>
          \E i \in 1..Len(errors) : m \in ERROR_CATALOG[errors[i].error_type]}

\* A share of a count is a count.
LEMMA ScaledCount ==
  ASSUME NEW v, NEW p, NEW s, v \in Nat, p \in Int, p >= -100, s \in 0..100
  PROVE  Scaled(v, p, s) \in Nat
<1>1. 10000 + p * s \in Nat
  <2>1. p * s >= -10000
    <3>1. p * s >= (-100) * s
      <4>1. (p + 100) * s >= 0
        OBVIOUS
      <4>2. (p + 100) * s = p * s + 100 * s
        OBVIOUS
      <4> QED
        BY <4>1, <4>2
    <3> QED
      BY <3>1
  <2> QED
    BY <2>1
<1> DEFINE f == 10000 + p * s
<1>2. v * f \in Nat
  <2> HIDE DEF f
  <2>1. f \in Nat
    BY <1>1 DEF f
  <2> QED
    BY <2>1
<1> DEFINE w == v * f
<1>3. w \div 10000 \in Nat
  <2> HIDE DEF w
  <2>1. w \in Nat
    BY <1>2 DEF w
  <2> QED
    BY <2>1
<1> QED
  BY <1>3 DEF Scaled

\* A loss of some percent of a load leaves a load.
LEMMA ScaledShare ==
  ASSUME NEW v, NEW s, v \in 0..100, s \in 0..100
  PROVE  Scaled(v, -80, s) \in 0..100
<1>1. Scaled(v, -80, s) \in Nat
  BY ScaledCount
<1> DEFINE w == v * (10000 + (-80) * s)
<1>2. w <= 1000000
  OBVIOUS
<1>3. w \in Int /\ w \div 10000 <= 100
  <2> w \in Int
    OBVIOUS
  <2> HIDE DEF w
  <2> QED
    BY <1>2
<1> QED
  BY <1>1, <1>3 DEF Scaled

\* The same of any KPI.
LEMMA ScaledNumber ==
  ASSUME NEW v, NEW p, NEW s, v \in Int, p \in Int, s \in Int
  PROVE  Scaled(v, p, s) \in Int
<1> DEFINE w == v * (10000 + p * s)
<1>1. w \in Int
  OBVIOUS
<1>2. w \div 10000 \in Int
  <2> HIDE DEF w
  <2> QED
    BY <1>1
<1> QED
  BY <1>2 DEF Scaled

\* The effect of an error on a KPI is a KPI.
LEMMA ShiftedNumber ==
  ASSUME NEW v, NEW n, NEW s, v \in Int, n \in Int, s \in 0..100
  PROVE  /\ Shifted(v, n, s) \in Int
         /\ n >= 0 => Shifted(v, n, s) >= v
<1> DEFINE w == n * s
<1>1. w \in Int /\ (n >= 0 => w >= 0)
  OBVIOUS
<1>2. w \div 100 \in Int /\ (n >= 0 => w \div 100 >= 0)
  <2> HIDE DEF w
  <2> QED
    BY <1>1
<1> QED
  BY <1>2 DEF Shifted

\* The errors of the catalog.
LEMMA Catalog ==
  /\ ErrorType = {"congestion", "underutilization", "interference", "equipment_degradation",
                  "jamming", "ddos", "weather", "handover_failure"}
  /\ \A t \in ErrorType : "throughput" \in ERROR_CATALOG[t] \/ t = "handover_failure"
  /\ \A t \in ErrorType :
       "delay" \in ERROR_CATALOG[t] \/ t \in {"underutilization", "interference", "weather"}
  /\ \A t \in ErrorType : "packet_loss" \in ERROR_CATALOG[t] \/ t = "underutilization"
  /\ {"congestion", "underutilization"} \subseteq
       {t \in ErrorType : {"ue_count", "cell_load"} \subseteq ERROR_CATALOG[t]}
  /\ {"interference", "jamming", "equipment_degradation", "weather"} \subseteq
       {t \in ErrorType : "rsrp" \in ERROR_CATALOG[t]}
  /\ {"interference", "jamming", "weather"} \subseteq
       {t \in ErrorType : "sinr" \in ERROR_CATALOG[t]}
  /\ "cell_load" \in ERROR_CATALOG["ddos"]
BY DEF ErrorType, ERROR_CATALOG

\* The throughput never turns negative.
LEMMA ThroughputImpact ==
  ASSUME NEW v \in Nat, NEW t \in ErrorType, NEW s \in 0..100
  PROVE  /\ ImpactOnThroughput(v, t, s) \in Nat
         /\ "throughput" \notin ERROR_CATALOG[t] => ImpactOnThroughput(v, t, s) = v
<1>1. /\ Scaled(v, -60, s) \in Nat
      /\ Scaled(v, -50, s) \in Nat
      /\ Scaled(v, -70, s) \in Nat
      /\ Scaled(v, -90, s) \in Nat
      /\ Scaled(v, -95, s) \in Nat
      /\ Scaled(v, -30, s) \in Nat
  BY ScaledCount
<1>2. ImpactOnThroughput(v, t, s) \in Nat
  BY <1>1 DEF ImpactOnThroughput
<1>3. ASSUME "throughput" \notin ERROR_CATALOG[t] PROVE ImpactOnThroughput(v, t, s) = v
  BY <1>3, Catalog DEF ImpactOnThroughput
<1> QED
  BY <1>2, <1>3

\* The delay is any number.
LEMMA DelayImpact ==
  ASSUME NEW v \in Int, NEW t \in ErrorType, NEW s \in 0..100
  PROVE  /\ ImpactOnDelay(v, t, s) \in Int
         /\ "delay" \notin ERROR_CATALOG[t] => ImpactOnDelay(v, t, s) = v
<1>1. /\ Scaled(v, 300, s) \in Int
      /\ Scaled(v, 200, s) \in Int
      /\ Scaled(v, 500, s) \in Int
      /\ Scaled(v, 1000, s) \in Int
      /\ Scaled(v, 150, s) \in Int
  BY ScaledNumber
<1>2. ImpactOnDelay(v, t, s) \in Int
  BY <1>1 DEF ImpactOnDelay
<1>3. ASSUME "delay" \notin ERROR_CATALOG[t] PROVE ImpactOnDelay(v, t, s) = v
  BY <1>3, Catalog DEF ImpactOnDelay
<1> QED
  BY <1>2, <1>3

\* The loss stays a percentage.
LEMMA LossImpact ==
  ASSUME NEW v \in 0..100, NEW t \in ErrorType, NEW s \in 0..100
  PROVE  /\ ImpactOnLoss(v, t, s) \in 0..100
         /\ "packet_loss" \notin ERROR_CATALOG[t] => ImpactOnLoss(v, t, s) = v
<1>1. /\ Shifted(v, 30, s) \in Int /\ Shifted(v, 30, s) >= v
      /\ Shifted(v, 25, s) \in Int /\ Shifted(v, 25, s) >= v
      /\ Shifted(v, 40, s) \in Int /\ Shifted(v, 40, s) >= v
      /\ Shifted(v, 80, s) \in Int /\ Shifted(v, 80, s) >= v
      /\ Shifted(v, 90, s) \in Int /\ Shifted(v, 90, s) >= v
      /\ Shifted(v, 15, s) \in Int /\ Shifted(v, 15, s) >= v
      /\ Shifted(v, 20, s) \in Int /\ Shifted(v, 20, s) >= v
  BY ShiftedNumber
<1>2. ImpactOnLoss(v, t, s) \in 0..100
  BY <1>1 DEF ImpactOnLoss, CappedLoss, Least
<1>3. ASSUME "packet_loss" \notin ERROR_CATALOG[t] PROVE ImpactOnLoss(v, t, s) = v
  BY <1>3, Catalog DEF ImpactOnLoss
<1> QED
  BY <1>2, <1>3

\* The number of users never turns negative.
LEMMA UsersImpact ==
  ASSUME NEW v \in Nat, NEW t \in ErrorType, NEW s \in 0..100
  PROVE  /\ ImpactOnUsers(v, t, s) \in Nat
         /\ "ue_count" \notin ERROR_CATALOG[t] => ImpactOnUsers(v, t, s) = v
<1>1. /\ Scaled(v, 400, s) \in Nat
      /\ Scaled(v, -80, s) \in Nat
  BY ScaledCount
<1>2. ImpactOnUsers(v, t, s) \in Nat
  BY <1>1 DEF ImpactOnUsers, Greatest
<1>3. ASSUME "ue_count" \notin ERROR_CATALOG[t] PROVE ImpactOnUsers(v, t, s) = v
  BY <1>3, Catalog DEF ImpactOnUsers
<1> QED
  BY <1>2, <1>3

\* The signal is any number.
LEMMA RsrpImpact ==
  ASSUME NEW v \in Int, NEW t \in ErrorType, NEW s \in 0..100
  PROVE  /\ ImpactOnRsrp(v, t, s) \in Int
         /\ "rsrp" \notin ERROR_CATALOG[t] => ImpactOnRsrp(v, t, s) = v
<1>1. /\ Shifted(v, -15, s) \in Int
      /\ Shifted(v, -20, s) \in Int
      /\ Shifted(v, -10, s) \in Int
  BY ShiftedNumber
<1>2. ImpactOnRsrp(v, t, s) \in Int
  BY <1>1 DEF ImpactOnRsrp
<1>3. ASSUME "rsrp" \notin ERROR_CATALOG[t] PROVE ImpactOnRsrp(v, t, s) = v
  BY <1>3, Catalog DEF ImpactOnRsrp
<1> QED
  BY <1>2, <1>3

\* So is its ratio to the noise.
LEMMA SinrImpact ==
  ASSUME NEW v \in Int, NEW t \in ErrorType, NEW s \in 0..100
  PROVE  /\ ImpactOnSinr(v, t, s) \in Int
         /\ "sinr" \notin ERROR_CATALOG[t] => ImpactOnSinr(v, t, s) = v
<1>1. /\ Shifted(v, -20, s) \in Int
      /\ Shifted(v, -30, s) \in Int
      /\ Shifted(v, -8, s) \in Int
  BY ShiftedNumber
<1>2. ImpactOnSinr(v, t, s) \in Int
  BY <1>1 DEF ImpactOnSinr, Greatest
<1>3. ASSUME "sinr" \notin ERROR_CATALOG[t] PROVE ImpactOnSinr(v, t, s) = v
  BY <1>3, Catalog DEF ImpactOnSinr
<1> QED
  BY <1>2, <1>3

\* The load stays a percentage.
LEMMA LoadImpact ==
  ASSUME NEW v \in 0..100, NEW t \in ErrorType, NEW s \in 0..100
  PROVE  /\ ImpactOnLoad(v, t, s) \in 0..100
         /\ "cell_load" \notin ERROR_CATALOG[t] => ImpactOnLoad(v, t, s) = v
<1>1. /\ Shifted(v, 70, s) \in Int /\ Shifted(v, 70, s) >= v
      /\ Shifted(v, 90, s) \in Int /\ Shifted(v, 90, s) >= v
      /\ Scaled(v, -80, s) \in 0..100
  BY ShiftedNumber, ScaledShare
<1>2. ImpactOnLoad(v, t, s) \in 0..100
  BY <1>1 DEF ImpactOnLoad, Least, Greatest
<1>3. ASSUME "cell_load" \notin ERROR_CATALOG[t] PROVE ImpactOnLoad(v, t, s) = v
  BY <1>3, Catalog DEF ImpactOnLoad
<1> QED
  BY <1>2, <1>3

\* ApplyErrorImpact keeps KPIs legal and changes none but those the catalog lists.
LEMMA OneImpact ==
  ASSUME NEW k \in [Metrics -> Int], LegalKPIs(k), NEW e \in Injections
  PROVE  /\ ApplyOne(k, e) \in [Metrics -> Int]
         /\ LegalKPIs(ApplyOne(k, e))
         /\ \A m \in Metrics \ ERROR_CATALOG[e.error_type] : ApplyOne(k, e)[m] = k[m]
<1> DEFINE t == e.error_type
<1> DEFINE s == e.severity
<1> DEFINE n == ApplyOne(k, e)
<1>1. t \in ErrorType /\ s \in 0..100
  BY InjectorAssumption
<1>2. /\ k.throughput \in Nat /\ k.delay \in Int /\ k.packet_loss \in 0..100
      /\ k.ue_count \in Nat /\ k.rsrp \in Int /\ k.sinr \in Int /\ k.cell_load \in 0..100
  BY DEF Metrics, LegalKPIs
<1>3. n = [throughput  |-> ImpactOnThroughput(k.throughput, t, s),
           delay       |-> ImpactOnDelay(k.delay, t, s),
           packet_loss |-> ImpactOnLoss(k.packet_loss, t, s),
           ue_count    |-> ImpactOnUsers(k.ue_count, t, s),
           rsrp        |-> ImpactOnRsrp(k.rsrp, t, s),
           sinr        |-> ImpactOnSinr(k.sinr, t, s),
           cell_load   |-> ImpactOnLoad(k.cell_load, t, s)]
  BY DEF ApplyOne, ApplyErrorImpact
<1> HIDE DEF t, s, n
<1>4. /\ n.throughput \in Nat /\ n.delay \in Int /\ n.packet_loss \in 0..100
      /\ n.ue_count \in Nat /\ n.rsrp \in Int /\ n.sinr \in Int /\ n.cell_load \in 0..100
  BY <1>1, <1>2, <1>3, ThroughputImpact, DelayImpact, LossImpact, UsersImpact, RsrpImpact,
     SinrImpact, LoadImpact
<1>5. /\ "throughput" \notin ERROR_CATALOG[t] => n.throughput = k.throughput
      /\ "delay" \notin ERROR_CATALOG[t] => n.delay = k.delay
      /\ "packet_loss" \notin ERROR_CATALOG[t] => n.packet_loss = k.packet_loss
      /\ "ue_count" \notin ERROR_CATALOG[t] => n.ue_count = k.ue_count
      /\ "rsrp" \notin ERROR_CATALOG[t] => n.rsrp = k.rsrp
      /\ "sinr" \notin ERROR_CATALOG[t] => n.sinr = k.sinr
      /\ "cell_load" \notin ERROR_CATALOG[t] => n.cell_load = k.cell_load
  BY <1>1, <1>2, <1>3, ThroughputImpact, DelayImpact, LossImpact, UsersImpact,
     RsrpImpact, SinrImpact, LoadImpact
<1>6. n \in [Metrics -> Int]
  BY <1>3, <1>4 DEF Metrics
<1>7. \A m \in Metrics \ ERROR_CATALOG[t] : n[m] = k[m]
  BY <1>5 DEF Metrics
<1> QED
  BY <1>4, <1>6, <1>7 DEF t, n, LegalKPIs

-----------------------------------------------------------------------------
(* What all the errors of a cell do.                                       *)

\* One more error of the sequence degrades degraded KPIs no further than that.
LEMMA OneMore ==
  ASSUME NEW measured, NEW errors \in Seq(Injections), NEW k \in Degraded(measured, errors),
         NEW i \in 1..Len(errors)
  PROVE  ApplyOne(k, errors[i]) \in Degraded(measured, errors)
<1> DEFINE e == errors[i]
<1> DEFINE n == ApplyOne(k, e)
<1>1. e \in Injections
  OBVIOUS
<1>2. k \in [Metrics -> Int] /\ LegalKPIs(k)
  BY DEF Degraded
<1> HIDE DEF e
<1>3. /\ n \in [Metrics -> Int] /\ LegalKPIs(n)
      /\ \A m \in Metrics \ ERROR_CATALOG[e.error_type] : n[m] = k[m]
  BY <1>1, <1>2, OneImpact
<1> HIDE DEF n
<1>4. ASSUME NEW m \in Metrics, n[m] # measured[m]
      PROVE  \E j \in 1..Len(errors) : m \in ERROR_CATALOG[errors[j].error_type]
  <2>1. CASE n[m] = k[m]
    BY <1>4, <2>1 DEF Degraded
  <2>2. CASE n[m] # k[m]
    BY <1>3, <2>2 DEF e
  <2> QED
    BY <2>1, <2>2
<1>5. n \in Degraded(measured, errors)
  BY <1>3, <1>4 DEF Degraded
<1> QED
  BY <1>5 DEF n, e

\* apply_error_effects: whatever errors are applied to legal KPIs, in whatever number.
LEMMA EffectsDegrade ==
  ASSUME NEW measured, NEW errors \in Seq(Injections), NEW k \in Degraded(measured, errors)
  PROVE  ApplyErrorEffects(errors, k) \in Degraded(measured, errors)
<1> DEFINE A == Degraded(measured, errors)
<1> DEFINE n == Len(errors)
<1> DEFINE Step(result, s) ==
      IF s = {} THEN k ELSE ApplyOne(result[s \ {Max(s)}], errors[Max(s)])
<1> DEFINE Solves(result) == result = [s \in SUBSET (1..n) |-> Step(result, s)]
<1> DEFINE chosen == CHOOSE result : Solves(result)
<1>1. n \in Nat /\ DOMAIN errors = 1..n
  OBVIOUS
<1>2. ApplyErrorEffects(errors, k) = chosen[1..n]
  BY <1>1 DEF ApplyErrorEffects, FoldLeft, MapThenFoldSet
<1>3. \E result : Solves(result)
  <2> DEFINE apply == [i \in 1..n |-> [a \in A |-> ApplyOne(a, errors[i])]]
  <2>1. apply \in [1..n -> [A -> A]]
    BY OneMore
  <2> HIDE DEF A
  <2>2. PICK result : Folds(A, k, apply, result, n)
    <3>1. k \in A
      BY DEF A
    <3> HIDE DEF apply, n
    <3> QED
      BY <1>1, <2>1, <3>1, FoldExists
  <2>3. ASSUME NEW s \in SUBSET (1..n), s # {}
        PROVE  /\ Max(s) \in 1..n /\ s \ {Max(s)} \in SUBSET (1..n)
               /\ result[s \ {Max(s)}] \in A
    BY <1>1, <2>2, <2>3, GreatestOf DEF Folds
  <2>4. ASSUME NEW s \in SUBSET (1..n) PROVE result[s] = Step(result, s)
    BY <2>2, <2>3 DEF Folds, Folded
  <2>5. result = [s \in SUBSET (1..n) |-> result[s]]
    BY <2>2 DEF Folds
  <2>6. Solves(result)
    BY <2>4, <2>5
  <2> QED
    BY <2>6
<1>4. Solves(chosen)
  BY <1>3
<1>5. ASSUME NEW s \in SUBSET (1..n) PROVE chosen[s] = Step(chosen, s)
  BY <1>4
<1> HIDE DEF chosen, Solves
<1>6. chosen[1..n] \in A
  <2>1. chosen[{}] \in A
    BY <1>5
  <2>2. ASSUME NEW s \in SUBSET (1..n), s # {}, chosen[s \ {Max(s)}] \in A
        PROVE  chosen[s] \in A
    <3>1. Max(s) \in 1..n
      BY <1>1, <2>2, GreatestOf
    <3>2. ApplyOne(chosen[s \ {Max(s)}], errors[Max(s)]) \in A
      BY <2>2, <3>1, OneMore
    <3> QED
      BY <1>5, <2>2, <3>2
  <2> HIDE DEF A, n
  <2> QED
    BY <1>1, <2>1, <2>2, FoldStays
<1> QED
  BY <1>2, <1>6

\* The same when all of them are applied once for each.
LEMMA CellDegrades ==
  ASSUME NEW measured, NEW errors \in Seq(Injections), NEW k \in Degraded(measured, errors)
  PROVE  ApplyToCell(errors, k) \in Degraded(measured, errors)
<1> DEFINE A == Degraded(measured, errors)
<1> DEFINE n == Len(errors)
<1> DEFINE Step(result, s) ==
      IF s = {} THEN k ELSE ApplyErrorEffects(errors, result[s \ {Max(s)}])
<1> DEFINE Solves(result) == result = [s \in SUBSET (1..n) |-> Step(result, s)]
<1> DEFINE chosen == CHOOSE result : Solves(result)
<1>1. n \in Nat /\ DOMAIN errors = 1..n
  OBVIOUS
<1>2. ApplyToCell(errors, k) = chosen[1..n]
  BY <1>1 DEF ApplyToCell, FoldLeft, MapThenFoldSet
<1>3. \E result : Solves(result)
  <2> DEFINE apply == [i \in 1..n |-> [a \in A |-> ApplyErrorEffects(errors, a)]]
  <2>1. apply \in [1..n -> [A -> A]]
    BY EffectsDegrade
  <2> HIDE DEF A
  <2>2. PICK result : Folds(A, k, apply, result, n)
    <3>1. k \in A
      BY DEF A
    <3> HIDE DEF apply, n
    <3> QED
      BY <1>1, <2>1, <3>1, FoldExists
  <2>3. ASSUME NEW s \in SUBSET (1..n), s # {}
        PROVE  /\ Max(s) \in 1..n /\ s \ {Max(s)} \in SUBSET (1..n)
               /\ result[s \ {Max(s)}] \in A
    BY <1>1, <2>2, <2>3, GreatestOf DEF Folds
  <2>4. ASSUME NEW s \in SUBSET (1..n) PROVE result[s] = Step(result, s)
    BY <2>2, <2>3 DEF Folds, Folded
  <2>5. result = [s \in SUBSET (1..n) |-> result[s]]
    BY <2>2 DEF Folds
  <2>6. Solves(result)
    BY <2>4, <2>5
  <2> QED
    BY <2>6
<1>4. Solves(chosen)
  BY <1>3
<1>5. ASSUME NEW s \in SUBSET (1..n) PROVE chosen[s] = Step(chosen, s)
  BY <1>4
<1> HIDE DEF chosen, Solves
<1>6. chosen[1..n] \in A
  <2>1. chosen[{}] \in A
    BY <1>5
  <2>2. ASSUME NEW s \in SUBSET (1..n), s # {}, chosen[s \ {Max(s)}] \in A
        PROVE  chosen[s] \in A
    <3>1. ApplyErrorEffects(errors, chosen[s \ {Max(s)}]) \in A
      BY <2>2, EffectsDegrade
    <3> QED
      BY <1>5, <2>2, <3>1
  <2> HIDE DEF A, n
  <2> QED
    BY <1>1, <2>1, <2>2, FoldStays
<1> QED
  BY <1>2, <1>6

-----------------------------------------------------------------------------
(* The inductive invariant.                                                *)

\* What the properties about windows need to know about the injected errors: those
\* in force were injected since the clearing, and an error reported with a vector is
\* in force until then.
Remembered ==
  /\ Elements(active_errors) \subseteq Elements(error_history)
  /\ \A c \in Cells :
       Elements(error_metadata[c]) \cap Elements(error_history) \subseteq Elements(active_errors)

\* The errors reported with a vector are events, and degraded it.
Reported ==
  /\ error_metadata \in [Cells -> Seq(Injections)]
  /\ \A c \in Cells : modified_vector[c] \in Degraded(kpi_vector[c], error_metadata[c])

\* The inductive invariant.
IInv == TypeOK /\ Remembered /\ Reported

\* The invariant holds in the initial states.
LEMMA InitIInv == ASSUME Init PROVE IInv
<1>1. kpi_vector \in RawVectors /\ modified_vector = kpi_vector
      /\ error_metadata = [c \in Cells |-> <<>>]
  BY DEF Init
<1>2. kpi_vector \in [Cells -> [Metrics -> Int]] /\ \A c \in Cells : LegalKPIs(kpi_vector[c])
  BY <1>1, InjectorAssumption
<1>3. TypeOK
  BY <1>1, <1>2, InjectorAssumption DEF Init, TypeOK
<1>4. Remembered
  BY <1>1 DEF Init, Remembered, Elements
<1>5. Reported
  BY <1>1, <1>2 DEF Reported, Degraded
<1> QED
  BY <1>3, <1>4, <1>5 DEF IInv

\* An event more at the end of a sequence.
LEMMA AppendElements ==
  ASSUME NEW q \in Seq(Injections), NEW e \in Injections
  PROVE  /\ Append(q, e) \in Seq(Injections) /\ Len(Append(q, e)) = Len(q) + 1
         /\ Elements(Append(q, e)) = Elements(q) \cup {e}
BY DEF Elements

\* InjectError keeps the invariant.
LEMMA InjectKeeps == ASSUME IInv, InjectError PROVE IInv'
<1>1. PICK e \in Injections : /\ active_errors' = Append(active_errors, e)
                              /\ error_history' = Append(error_history, e)
  BY DEF InjectError
<1>2. UNCHANGED <<current_time, kpi_vector, modified_vector, error_metadata>>
  BY DEF InjectError
<1>3. active_errors \in Seq(Injections) /\ error_history \in Seq(Injections)
      /\ Len(active_errors) <= Len(error_history)
  BY DEF IInv, TypeOK
<1>4. TypeOK'
  <2>1. /\ active_errors' \in Seq(Injections) /\ error_history' \in Seq(Injections)
        /\ Len(active_errors') <= Len(error_history')
    BY <1>1, <1>3, AppendElements
  <2> QED
    BY <1>2, <2>1 DEF IInv, TypeOK
<1>5. Remembered'
  <2>1. /\ Elements(active_errors)' = Elements(active_errors) \cup {e}
        /\ Elements(error_history)' = Elements(error_history) \cup {e}
    BY <1>1, <1>3, AppendElements DEF Elements
  <2> QED
    BY <1>2, <2>1 DEF IInv, Remembered, Elements
<1>6. Reported'
  BY <1>2 DEF IInv, Reported, Degraded
<1> QED
  BY <1>4, <1>5, <1>6 DEF IInv

\* ClearHistory keeps the invariant.
LEMMA ClearKeeps == ASSUME IInv, ClearHistory PROVE IInv'
<1>1. active_errors' = <<>> /\ error_history' = <<>>
      /\ UNCHANGED <<current_time, kpi_vector, modified_vector, error_metadata>>
  BY DEF ClearHistory
<1>2. TypeOK'
  BY <1>1 DEF IInv, TypeOK
<1>3. Remembered'
  BY <1>1 DEF Remembered, Elements
<1>4. Reported'
  BY <1>1 DEF IInv, Reported, Degraded
<1> QED
  BY <1>2, <1>3, <1>4 DEF IInv

\* One request, its time and its vector given.
Applied(t, kpis) ==
  LET active == UpdateActiveErrors(active_errors, t)
      errors == [c \in Cells |-> ActiveOn(active, c, t)] IN
  /\ current_time' = t
  /\ active_errors' = active
  /\ kpi_vector' = kpis
  /\ modified_vector' = [c \in Cells |-> ApplyToCell(errors[c], kpis[c])]
  /\ error_metadata' = errors
  /\ UNCHANGED error_history

\* The errors in force and those of a cell after a request at time t.
LEMMA AppliedErrors ==
  ASSUME active_errors \in Seq(Injections), NEW t, NEW kpis, Applied(t, kpis)
  PROVE  /\ active_errors' \in Seq(Injections) /\ Len(active_errors') <= Len(active_errors)
         /\ Elements(active_errors') = {e \in Elements(active_errors) : IsActive(e, t)}
         /\ error_metadata' \in [Cells -> Seq(Injections)]
         /\ \A c \in Cells : Elements(error_metadata'[c]) =
                               {e \in Elements(active_errors) : e.cell_id = c /\ IsActive(e, t)}
<1> DEFINE active == UpdateActiveErrors(active_errors, t)
<1>1. Elements(active_errors) \subseteq Injections
  BY DEF Elements
<1>2. /\ active \in Seq(Injections) /\ Len(active) <= Len(active_errors)
      /\ Elements(active) = Elements(active_errors) \cap {e \in Injections : IsActive(e, t)}
  BY KeepSelects DEF UpdateActiveErrors
<1>3. active_errors' = active /\ error_metadata' = [c \in Cells |-> ActiveOn(active, c, t)]
  BY DEF Applied
<1> HIDE DEF active
<1>4. ASSUME NEW c \in Cells
      PROVE  /\ ActiveOn(active, c, t) \in Seq(Injections)
             /\ Elements(ActiveOn(active, c, t)) =
                  Elements(active) \cap {e \in Injections : e.cell_id = c /\ IsActive(e, t)}
  BY <1>2, KeepSelects DEF ActiveOn
<1>5. Elements(active) = {e \in Elements(active_errors) : IsActive(e, t)}
  BY <1>1, <1>2
<1>6. \A c \in Cells : Elements(ActiveOn(active, c, t)) =
                        {e \in Elements(active_errors) : e.cell_id = c /\ IsActive(e, t)}
  BY <1>1, <1>4, <1>5
<1> QED
  BY <1>2, <1>3, <1>4, <1>5, <1>6

\* ApplyErrorsToKpiVector is one such request.
LEMMA ApplyIs ==
  ASSUME ApplyErrorsToKpiVector
  PROVE  \E t \in (current_time + 1)..MaxTime, kpis \in RawVectors : Applied(t, kpis)
BY DEF ApplyErrorsToKpiVector, Applied

\* It keeps the invariant.
LEMMA ApplyKeeps == ASSUME IInv, ApplyErrorsToKpiVector PROVE IInv'
<1>1. PICK t \in (current_time + 1)..MaxTime, kpis \in RawVectors : Applied(t, kpis)
  BY ApplyIs
<1>2. active_errors \in Seq(Injections) /\ current_time \in 0..MaxTime
      /\ Len(active_errors) <= Len(error_history)
  BY DEF IInv, TypeOK
<1>3. /\ active_errors' \in Seq(Injections) /\ Len(active_errors') <= Len(active_errors)
      /\ Elements(active_errors') = {e \in Elements(active_errors) : IsActive(e, t)}
      /\ error_metadata' \in [Cells -> Seq(Injections)]
      /\ \A c \in Cells : Elements(error_metadata'[c]) =
                            {e \in Elements(active_errors) : e.cell_id = c /\ IsActive(e, t)}
  BY <1>1, <1>2, AppliedErrors
<1>4. /\ current_time' = t /\ kpi_vector' = kpis /\ error_history' = error_history
      /\ modified_vector' = [c \in Cells |-> ApplyToCell(error_metadata'[c], kpis[c])]
  BY <1>1, <1>3 DEF Applied
<1>5. kpis \in [Cells -> [Metrics -> Int]] /\ \A c \in Cells : LegalKPIs(kpis[c])
  BY InjectorAssumption
<1>6. Reported'
  <2>1. ASSUME NEW c \in Cells
        PROVE  modified_vector'[c] \in Degraded(kpis[c], error_metadata'[c])
    <3>1. kpis[c] \in Degraded(kpis[c], error_metadata'[c])
      BY <1>5 DEF Degraded
    <3>2. ApplyToCell(error_metadata'[c], kpis[c]) \in Degraded(kpis[c], error_metadata'[c])
      BY <1>3, <3>1, CellDegrades
    <3> QED
      BY <1>4, <3>2
  <2> QED
    BY <1>3, <1>4, <2>1 DEF Reported, Degraded
<1>7. TypeOK'
  <2>1. ASSUME NEW c \in Cells
        PROVE  ApplyToCell(error_metadata'[c], kpis[c]) \in [Metrics -> Int]
               /\ LegalKPIs(modified_vector'[c])
    BY <1>4, <1>6 DEF Reported, Degraded
  <2>2. modified_vector' \in [Cells -> [Metrics -> Int]]
    BY <1>4, <2>1
  <2>3. current_time' \in 0..MaxTime /\ Len(active_errors') <= Len(error_history')
    BY <1>2, <1>3, <1>4, InjectorAssumption DEF IInv, TypeOK
  <2> QED
    BY <1>3, <1>4, <2>1, <2>2, <2>3 DEF IInv, TypeOK, LegalKPIs
<1>8. Remembered'
  <2>1. Elements(active_errors) \subseteq Elements(error_history)
    BY DEF IInv, Remembered
  <2> QED
    BY <1>3, <1>4, <2>1 DEF Remembered, Elements
<1> QED
  BY <1>6, <1>7, <1>8 DEF IInv

\* Every step does.
LEMMA NextIInv == ASSUME IInv, [Next]_vars PROVE IInv'
<1>1. CASE UNCHANGED vars
  <2>1. TypeOK' = TypeOK
    BY <1>1 DEF vars, TypeOK
  <2>2. Remembered' = Remembered
    BY <1>1 DEF vars, Remembered
  <2>3. Reported' = Reported
    BY <1>1 DEF vars, Reported
  <2> QED
    BY <2>1, <2>2, <2>3 DEF IInv
<1> QED
  BY <1>1, InjectKeeps, ClearKeeps, ApplyKeeps DEF Next

\* The invariant holds always.
LEMMA AlwaysIInv == Spec => []IInv
<1>1. Init => IInv
  BY InitIInv
<1>2. IInv /\ [Next]_vars => IInv'
  BY NextIInv
<1> QED
  BY <1>1, <1>2, PTL DEF Spec

\* Whatever errors pile up on a cell, loss and load stay percentages, throughput and
\* the number of users never turn negative, and the errors in force are no more than
\* those injected since the clearing.
THEOREM TypeCorrect == Spec => []TypeOK
<1>1. IInv => TypeOK
  BY DEF IInv
<1> QED
  BY <1>1, AlwaysIInv, PTL

\* A KPI of a returned vector that is not as measured is one that the catalog lists
\* for an error reported on its cell.
THEOREM OnlyListedAlways == Spec => []OnlyListedMetrics
<1>1. IInv => OnlyListedMetrics
  BY DEF IInv, Reported, Degraded, OnlyListedMetrics
<1> QED
  BY <1>1, AlwaysIInv, PTL

\* In the steps in which a request is processed, the errors reported with a cell are
\* those of its events in force at that time.
LEMMA RequestReports ==
  ASSUME IInv, [Next]_vars, current_time' # current_time
  PROVE  \A c \in Cells : Elements(error_metadata'[c]) =
             {e \in Elements(active_errors) : e.cell_id = c /\ IsActive(e, current_time')}
<1>1. ApplyErrorsToKpiVector
  BY DEF Next, InjectError, ClearHistory, vars
<1>2. PICK t \in (current_time + 1)..MaxTime, kpis \in RawVectors : Applied(t, kpis)
  BY <1>1, ApplyIs
<1>3. active_errors \in Seq(Injections) /\ current_time' = t
  BY <1>2 DEF IInv, TypeOK, Applied
<1> QED
  BY <1>2, <1>3, AppliedErrors

\* KPIs that no error has degraded are as measured.
LEMMA UnreportedUnchanged ==
  ASSUME NEW measured \in [Metrics -> Int], NEW errors \in Seq(Injections),
         NEW k \in Degraded(measured, errors), Elements(errors) = {}
  PROVE  k = measured
<1>1. Len(errors) = 0
  <2>1. CASE Len(errors) # 0
    <3>1. errors[1] \in Elements(errors)
      BY <2>1 DEF Elements
    <3> QED
      BY <3>1
  <2> QED
    BY <2>1
<1>2. k \in [Metrics -> Int] /\ \A m \in Metrics : k[m] = measured[m]
  BY <1>1 DEF Degraded
<1> QED
  BY <1>2

\* A request degrades a cell and reports an error on it only inside the window of an
\* event injected on that cell since the clearing; otherwise its KPIs pass unchanged.
THEOREM NeverOutsideWindow == Spec => EffectsOnlyInWindow
<1>1. IInv /\ IInv' /\ [Next]_vars =>
        [current_time' # current_time =>
           \A c \in Cells :
             /\ Elements(error_metadata'[c]) \subseteq Due(c, current_time')
             /\ Due(c, current_time') = {} => modified_vector'[c] = kpi_vector'[c]]_vars
  <2> SUFFICES ASSUME IInv, IInv', [Next]_vars, current_time' # current_time, NEW c \in Cells
               PROVE  /\ Elements(error_metadata'[c]) \subseteq Due(c, current_time')
                      /\ Due(c, current_time') = {} => modified_vector'[c] = kpi_vector'[c]
    OBVIOUS
  <2>1. Elements(error_metadata'[c]) =
          {e \in Elements(active_errors) : e.cell_id = c /\ IsActive(e, current_time')}
    BY RequestReports
  <2>2. Elements(active_errors) \subseteq Elements(error_history)
    BY DEF IInv, Remembered
  <2>3. Elements(error_metadata'[c]) \subseteq Due(c, current_time')
    BY <2>1, <2>2 DEF Due, IsActive, EndTime
  <2>4. ASSUME Due(c, current_time') = {} PROVE modified_vector'[c] = kpi_vector'[c]
    <3>1. error_metadata'[c] \in Seq(Injections)
          /\ modified_vector'[c] \in Degraded(kpi_vector'[c], error_metadata'[c])
      BY DEF IInv, Reported, Degraded
    <3>2. kpi_vector'[c] \in [Metrics -> Int]
      BY InjectorAssumption DEF IInv, TypeOK
    <3>3. Elements(error_metadata'[c]) = {}
      BY <2>3, <2>4
    <3> QED
      BY <3>1, <3>2, <3>3, UnreportedUnchanged
  <2> QED
    BY <2>3, <2>4
<1> QED
  BY <1>1, AlwaysIInv, PTL DEF Spec, EffectsOnlyInWindow

\* An error that was reported with a vector is with every later one, until its window
\* ends or the history is cleared.
THEOREM LastsThroughWindow == Spec => EffectsLast
<1>1. IInv /\ [Next]_vars =>
        [current_time' # current_time =>
           \A c \in Cells :
             Elements(error_metadata[c]) \cap Due(c, current_time')
               \subseteq Elements(error_metadata'[c])]_vars
  <2> SUFFICES ASSUME IInv, [Next]_vars, current_time' # current_time, NEW c \in Cells,
                      NEW e \in Elements(error_metadata[c]) \cap Due(c, current_time')
               PROVE  e \in Elements(error_metadata'[c])
    OBVIOUS
  <2>1. Elements(error_metadata'[c]) =
          {x \in Elements(active_errors) : x.cell_id = c /\ IsActive(x, current_time')}
    BY RequestReports
  <2>2. e \in Elements(error_history) /\ e.cell_id = c /\ IsActive(e, current_time')
    BY DEF Due, IsActive, EndTime
  <2>3. e \in Elements(active_errors)
    BY <2>2 DEF IInv, Remembered
  <2> QED
    BY <2>1, <2>2, <2>3
<1> QED
  BY <1>1, AlwaysIInv, PTL DEF Spec, EffectsLast

=============================================================================
