--------------------------- MODULE BucketLimiterProofs ---------------------------
(***************************************************************************)
(* Proofs about BucketLimiter, for both bucket algorithms, any number of   *)
(* proxies and calls, any limits that scale together, any faults and any   *)
(* order in which the calls are decided.                                   *)
(***************************************************************************)
EXTENDS BucketLimiter, TLAPS

(* The budget of the calls since s, in numbers: a units admitted, k units of *)
(* credit at time last, b units of time set back.  A bucket last checked     *)
(* before s is judged by the credit it will have at s.                       *)
WithinBudget(a, k, last, b, s) ==
  IF last >= s
  THEN a + k <= MaxCapacity + MaxRate * (last - s + b)
  ELSE a + Least(MaxCapacity, k + MaxRate * (s - last)) <= MaxCapacity + MaxRate * b

Budgets ==
  \A m \in Stores, s \in Instants :
    WithinBudget(admitted[m][s], Credit(m), LastCheck(m), setBack[m][s], s)

(* No store is ahead of the clock, and no call is. *)
NothingAhead ==
  /\ \A m \in Stores : LastCheck(m) <= clock
  /\ \A r \in Tasks : task[r].now <= clock

(* A key that is there is dropped when its bucket would be full (empty), and *)
(* a missing key is not due.                                                 *)
DropsOnlyFullBuckets ==
  /\ bucket[Redis] # NoBucket =>
       /\ expiry >= bucket[Redis].last
       /\ MaxRate * (expiry - bucket[Redis].last) >= MaxCapacity
  /\ bucket[Redis] = NoBucket => expiry = Forever

(* The inductive invariant. *)
IInv == TypeOK /\ NothingAhead /\ DropsOnlyFullBuckets /\ Budgets

-------------------------------------------------------------------------------
(***************************************************************************)
(* Arithmetic.                                                             *)
(***************************************************************************)

LEMMA ProductsGrow ==
  ASSUME NEW a \in Nat, NEW b \in Nat, NEW c \in Nat, a <= b
  PROVE  /\ a * c \in Nat
         /\ a * c <= b * c
         /\ c * a <= c * b
<1>1. PICK d \in Nat : b = a + d
  <2>1. b - a \in Nat /\ b = a + (b - a)
    OBVIOUS
  <2> QED BY <2>1
<1>2. a * c \in Nat /\ d * c \in Nat
  OBVIOUS
<1>3. b * c = a * c + d * c
  BY <1>1
<1>4. c * a = a * c /\ c * b = b * c
  OBVIOUS
<1> QED BY <1>2, <1>3, <1>4

LEMMA CeilingDivision ==
  ASSUME NEW c \in Nat, NEW r \in Nat, r > 0, c > 0
  PROVE  (c + r - 1) \div r \in Nat /\ ((c + r - 1) \div r) * r >= c
<1> DEFINE n == c + r - 1
           q == n \div r
<1>1. n \in Nat
  OBVIOUS
<1> HIDE DEF n
<1>2. q \in Int /\ r * q <= n /\ n < r * q + r
  BY <1>1
<1>3. q \in Nat
  <2>1. CASE q < 0
    <3>1. q + 1 <= 0 /\ -(q + 1) \in Nat
      BY <1>2, <2>1
    <3>2. r * q + r = -(r * (-(q + 1)))
      BY <1>2
    <3>3. r * (-(q + 1)) \in Nat
      BY <3>1
    <3> QED BY <1>1, <1>2, <3>2, <3>3
  <2> QED BY <1>2, <2>1
<1> HIDE DEF q
<1>4. n = c + r - 1
  BY DEF n
<1>5. q * r = r * q /\ r * q \in Int
  BY <1>3
<1>6. q * r >= c
  BY <1>2, <1>4, <1>5
<1> QED BY <1>3, <1>6 DEF q, n

(* The time to live (token_bucket.lua:17, leaky_bucket.lua:17) is long       *)
(* enough for a whole capacity to flow at the base rate.                     *)
LEMMA TtlIsLongEnough ==
  ASSUME NEW l \in Limits
  PROVE  Ttl(l) \in Nat /\ MaxRate * Ttl(l) >= MaxCapacity
<1> DEFINE t == Ttl(l)
<1>1. /\ l.rate \in Nat /\ l.rate > 0 /\ l.capacity \in Nat /\ l.capacity > 0
      /\ MaxCapacity * l.rate <= MaxRate * l.capacity
      /\ MaxRate \in Nat /\ MaxCapacity \in Nat
  BY LimitsAssumption, LimiterAssumption
<1>2. t \in Nat /\ t * l.rate >= l.capacity
  BY <1>1, CeilingDivision DEF Ttl
<1> HIDE DEF t
<1>3. MaxRate * l.capacity <= MaxRate * (t * l.rate)
  BY <1>1, <1>2, ProductsGrow
<1>4. MaxRate * (t * l.rate) = (MaxRate * t) * l.rate
  BY <1>1, <1>2
<1>5. MaxCapacity * l.rate <= (MaxRate * t) * l.rate
  BY <1>1, <1>2, <1>3, <1>4
<1>6. ASSUME MaxRate * t < MaxCapacity PROVE FALSE
  <2>1. MaxRate * t \in Nat /\ MaxRate * t + 1 <= MaxCapacity
    BY <1>1, <1>2, <1>6
  <2>2. (MaxRate * t + 1) * l.rate <= MaxCapacity * l.rate
    BY <1>1, <2>1, ProductsGrow
  <2>3. (MaxRate * t + 1) * l.rate = (MaxRate * t) * l.rate + l.rate
    BY <1>1, <2>1
  <2> QED BY <1>1, <1>5, <2>1, <2>2, <2>3
<1> QED BY <1>1, <1>2, <1>6 DEF t

(* A decision at time now that spends gain units, and leaves no more credit  *)
(* than the base limits allow, keeps every budget.                           *)
LEMMA BudgetSurvivesDecision ==
  ASSUME NEW a \in Nat, NEW k \in Nat, NEW last \in Nat, NEW b \in Nat,
         NEW s \in Nat, NEW now \in Nat, NEW k2 \in Nat, NEW gain \in Nat,
         WithinBudget(a, k, last, b, s),
         k2 + gain <= Least(MaxCapacity, k + MaxRate * Greatest(0, now - last))
  PROVE  WithinBudget(IF s <= now THEN a + gain ELSE a, k2, now,
                      b + Greatest(0, last - now), s)
<1> USE LimiterAssumption DEF WithinBudget, Least, Greatest
<1>1. CASE now >= last /\ s <= now /\ last >= s
  <2>1. MaxRate * (now - last) >= 0
    BY <1>1
  <2> QED BY <1>1, <2>1
<1>2. CASE now >= last /\ s <= now /\ last < s
  <2>1. MaxRate * (now - s) >= 0
    BY <1>2
  <2> QED BY <1>2, <2>1
<1>3. CASE now >= last /\ now < s
  BY <1>3
<1>4. CASE now < last /\ s <= now
  <2>1. MaxRate * (last - now) >= 0
    BY <1>4
  <2> QED BY <1>4, <2>1
<1>5. CASE now < last /\ now < s /\ s <= last
  BY <1>5
<1>6. CASE now < last /\ last < s
  <2>1. MaxRate * (last - now) >= 0
    BY <1>6
  <2> QED BY <1>6, <2>1
<1> QED BY <1>1, <1>2, <1>3, <1>4, <1>5, <1>6

(* When Redis drops a key that is due, the missing key stands for a bucket   *)
(* with all the credit, settled at the instant it was dropped.               *)
LEMMA BudgetSurvivesDrop ==
  ASSUME NEW a \in Nat, NEW k \in Nat, NEW last \in Nat, NEW b \in Nat,
         NEW s \in Nat, NEW e \in Nat,
         WithinBudget(a, k, last, b, s),
         e >= last, MaxRate * (e - last) >= MaxCapacity
  PROVE  WithinBudget(a, MaxCapacity, e, b, s)
<1> USE LimiterAssumption DEF WithinBudget, Least
<1>1. CASE last >= s
  BY <1>1
<1>2. CASE last < s /\ e >= s
  <2>1. MaxRate * (e - s) >= 0
    BY <1>2
  <2> QED BY <1>2, <2>1
<1>3. CASE last < s /\ e < s
  <2>1. MaxRate * (s - e) >= 0
    BY <1>3
  <2> QED BY <1>3, <2>1
<1> QED BY <1>1, <1>2, <1>3

(* A store within its budget since s has admitted no more than that. *)
LEMMA BudgetBoundsAdmissions ==
  ASSUME NEW a \in Nat, NEW k \in Nat, NEW last \in Nat, NEW b \in Nat,
         NEW s \in Nat, NEW now \in Nat,
         WithinBudget(a, k, last, b, s), s <= now, last <= now
  PROVE  a <= MaxCapacity + MaxRate * (now - s + b)
<1> USE LimiterAssumption DEF WithinBudget, Least
<1>1. CASE last >= s
  <2>1. MaxRate * (now - last) >= 0
    OBVIOUS
  <2> QED BY <1>1, <2>1
<1>2. CASE last < s
  <2>1. MaxRate * (now - s) >= 0 /\ MaxRate * (s - last) >= 0
    BY <1>2
  <2> QED BY <1>2, <2>1
<1> QED BY <1>1, <1>2

(* A store that has lost its contents owes nothing.                          *)
LEMMA NewBudget ==
  ASSUME NEW s \in Nat
  PROVE  WithinBudget(0, MaxCapacity, 0, 0, s)
<1>1. MaxRate * (s - 0) >= 0
  BY LimiterAssumption
<1> QED BY <1>1, LimiterAssumption DEF WithinBudget, Least

CreditLeft(v) ==
  IF algorithm = "leaky_bucket" THEN MaxCapacity - v.level ELSE v.level

Gain(v) == IF v.admitted THEN Cost ELSE 0

(* The verdict v is one that k units of credit allow elapsed seconds later. *)
Affordable(v, k, elapsed) ==
  /\ v.level \in Nat /\ v.level <= MaxCapacity
  /\ CreditLeft(v) \in Nat
  /\ Gain(v) \in Nat
  /\ CreditLeft(v) + Gain(v) <= Least(MaxCapacity, k + MaxRate * elapsed)

(* One check of the token bucket (token_bucket.lua:12-39) or of the leaky    *)
(* bucket (leaky_bucket.lua:12-39) leaves no more credit than the old credit *)
(* plus the base rate's refill, less what it admitted.                       *)
LEMMA CheckIsAffordable ==
  ASSUME TypeOK, NEW m \in Stores, NEW now \in Nat, NEW l \in Limits
  PROVE  Affordable(Check(algorithm, bucket[m], now, l), Credit(m),
                    Greatest(0, now - LastCheck(m)))
<1> DEFINE v      == Check(algorithm, bucket[m], now, l)
           elapsed == Greatest(0, now - LastCheck(m))
<1>1. /\ l.rate \in Nat /\ l.capacity \in Nat /\ Cost <= l.capacity
      /\ l.rate <= MaxRate /\ l.capacity <= MaxCapacity /\ Cost \in Nat
      /\ MaxRate \in Nat /\ MaxCapacity \in Nat
  BY LimitsAssumption, LimiterAssumption, CostAssumption
<1>2. elapsed \in Nat
  <2>1. LastCheck(m) \in Nat
    BY DEF TypeOK, LastCheck, Bucket
  <2> QED BY <2>1 DEF Greatest
<1>3. MaxRate * elapsed \in Nat /\ elapsed * l.rate \in Nat
      /\ elapsed * l.rate <= MaxRate * elapsed
  <2>1. elapsed * l.rate <= elapsed * MaxRate /\ elapsed * MaxRate = MaxRate * elapsed
    BY <1>1, <1>2, ProductsGrow
  <2> QED BY <1>1, <1>2, <2>1
<1>4. CASE bucket[m] = NoBucket
  <2>1. Credit(m) = MaxCapacity
    BY <1>4 DEF Credit
  <2>2. v = IF algorithm = "leaky_bucket" THEN Verdict(TRUE, Cost)
                                          ELSE Verdict(TRUE, l.capacity - Cost)
    BY <1>4 DEF Check, LeakyBucket, TokenBucket
  <2> HIDE DEF elapsed
  <2>3. Affordable(v, Credit(m), elapsed)
    BY <1>1, <1>3, <2>1, <2>2
       DEF Verdict, Least, Affordable, CreditLeft, Gain
  <2> QED BY <2>3 DEF elapsed
<1>5. CASE bucket[m] # NoBucket /\ algorithm = "leaky_bucket"
  <2>1. /\ bucket[m].level \in Nat /\ bucket[m].level <= MaxCapacity
        /\ Credit(m) = MaxCapacity - bucket[m].level
        /\ elapsed = Elapsed(bucket[m], now)
    BY <1>5 DEF TypeOK, Bucket, Credit, Elapsed, LastCheck
  <2> DEFINE water == Greatest(0, bucket[m].level - elapsed * l.rate)
  <2>2. v = IF water + Cost <= l.capacity THEN Verdict(TRUE, water + Cost)
                                          ELSE Verdict(FALSE, water)
    BY <1>5, <2>1 DEF Check, LeakyBucket
  <2> HIDE DEF elapsed
  <2>3. /\ water \in Nat /\ water <= MaxCapacity
        /\ MaxCapacity - water <=
             Least(MaxCapacity, Credit(m) + MaxRate * elapsed)
    BY <1>1, <1>3, <2>1 DEF Greatest, Least
  <2> HIDE DEF water
  <2>4. ASSUME water + Cost <= l.capacity PROVE Affordable(v, Credit(m), elapsed)
    BY <1>1, <1>5, <2>2, <2>3, <2>4 DEF Verdict, Affordable, CreditLeft, Gain
  <2>5. ASSUME ~(water + Cost <= l.capacity) PROVE Affordable(v, Credit(m), elapsed)
    BY <1>1, <1>5, <2>2, <2>3, <2>5 DEF Verdict, Affordable, CreditLeft, Gain
  <2> QED BY <2>4, <2>5 DEF elapsed
<1>6. CASE bucket[m] # NoBucket /\ algorithm # "leaky_bucket"
  <2>1. /\ bucket[m].level \in Nat /\ bucket[m].level <= MaxCapacity
        /\ Credit(m) = bucket[m].level
        /\ elapsed = Elapsed(bucket[m], now)
    BY <1>6 DEF TypeOK, Bucket, Credit, Elapsed, LastCheck
  <2> DEFINE tokens == Least(l.capacity, bucket[m].level + elapsed * l.rate)
  <2>2. v = IF tokens >= Cost THEN Verdict(TRUE, tokens - Cost)
                              ELSE Verdict(FALSE, tokens)
    BY <1>6, <2>1 DEF Check, TokenBucket
  <2> HIDE DEF elapsed
  <2>3. /\ tokens \in Nat /\ tokens <= MaxCapacity
        /\ tokens <= Least(MaxCapacity, Credit(m) + MaxRate * elapsed)
    BY <1>1, <1>3, <2>1 DEF Least
  <2> HIDE DEF tokens
  <2>4. ASSUME tokens >= Cost PROVE Affordable(v, Credit(m), elapsed)
    BY <1>1, <1>6, <2>2, <2>3, <2>4 DEF Verdict, Affordable, CreditLeft, Gain
  <2>5. ASSUME ~(tokens >= Cost) PROVE Affordable(v, Credit(m), elapsed)
    BY <1>1, <1>6, <2>2, <2>3, <2>5 DEF Verdict, Affordable, CreditLeft, Gain
  <2> QED BY <2>4, <2>5 DEF elapsed
<1> QED BY <1>4, <1>5, <1>6

-------------------------------------------------------------------------------
(***************************************************************************)
(* The inductive invariant.                                                *)
(***************************************************************************)

(* What the parts of the invariant that concern the stores say of one store  *)
(* and one instant.                                                          *)
StoresTyped ==
  /\ bucket \in [Stores -> Bucket \union {NoBucket}]
  /\ \A m \in Stores : bucket[m] # NoBucket => bucket[m].level <= MaxCapacity
  /\ admitted \in [Stores -> [Instants -> Nat]]
  /\ setBack \in [Stores -> [Instants -> Nat]]
  /\ settled \in [Stores -> Nat]

LEMMA CreditsTyped ==
  ASSUME StoresTyped, NEW m \in Stores
  PROVE  Credit(m) \in Nat /\ Credit(m) <= MaxCapacity /\ LastCheck(m) \in Nat
BY LimiterAssumption DEF StoresTyped, Credit, LastCheck, Bucket

LEMMA TaskFacts ==
  ASSUME IInv, NEW r \in Tasks
  PROVE  /\ task[r].now \in Nat /\ task[r].now <= clock
         /\ task[r].limit \in Limits /\ task[r].proxy \in Proxies
BY DEF IInv, TypeOK, NothingAhead, Call

(* A decision, in Redis or in memory, on time or late, keeps the stores      *)
(* typed, behind the clock, and within every budget.                         *)
LEMMA DecideKeepsBudgets ==
  ASSUME IInv, NEW m \in Stores, NEW r \in Tasks, Decide(m, task[r]),
         UNCHANGED algorithm
  PROVE  /\ StoresTyped' /\ Budgets'
         /\ \A n \in Stores : LastCheck(n)' <= clock
<1> DEFINE t == task[r]
           v == Check(algorithm, bucket[m], t.now, t.limit)
           back == Greatest(0, LastCheck(m) - t.now)
<1>1. /\ t.now \in Nat /\ t.now <= clock /\ t.limit \in Limits
  BY TaskFacts
<1>2. StoresTyped /\ TypeOK
  BY DEF IInv, TypeOK, StoresTyped
<1>3. Affordable(v, Credit(m), Greatest(0, t.now - LastCheck(m)))
  BY <1>1, <1>2, CheckIsAffordable
<1>4. /\ Credit(m) \in Nat /\ LastCheck(m) \in Nat /\ back \in Nat
  BY <1>1, <1>2, CreditsTyped DEF Greatest
<1>5. /\ bucket' = [bucket EXCEPT ![m] = [level |-> v.level, last |-> t.now]]
      /\ admitted' = [admitted EXCEPT ![m] =
                        [s \in Instants |->
                           IF v.admitted /\ s <= t.now
                           THEN admitted[m][s] + Cost ELSE admitted[m][s]]]
      /\ setBack' = [setBack EXCEPT ![m] = [s \in Instants |-> setBack[m][s] + back]]
      /\ settled' = settled
  BY DEF Decide
<1> HIDE DEF v, t, back
<1>6. /\ v.level \in Nat /\ v.level <= MaxCapacity
      /\ CreditLeft(v) \in Nat /\ Gain(v) \in Nat
      /\ CreditLeft(v) + Gain(v)
           <= Least(MaxCapacity, Credit(m) + MaxRate * Greatest(0, t.now - LastCheck(m)))
  BY <1>3 DEF Affordable
<1>7. bucket'[m] = [level |-> v.level, last |-> t.now] /\ bucket'[m] \in Bucket
  BY <1>1, <1>2, <1>5, <1>6 DEF StoresTyped, Bucket
<1>8. Credit(m)' = CreditLeft(v) /\ LastCheck(m)' = t.now
  BY <1>7, LimiterAssumption DEF Credit, LastCheck, CreditLeft
<1>9. ASSUME NEW s \in Instants
      PROVE  /\ admitted'[m][s] = IF s <= t.now THEN admitted[m][s] + Gain(v)
                                                 ELSE admitted[m][s]
             /\ setBack'[m][s] = setBack[m][s] + back
             /\ admitted[m][s] \in Nat /\ setBack[m][s] \in Nat /\ s \in Nat
  BY <1>2, <1>5, LimiterAssumption DEF StoresTyped, Gain, Instants
<1>10. StoresTyped'
  <2>1. /\ admitted'[m] \in [Instants -> Nat] /\ setBack'[m] \in [Instants -> Nat]
    <3>1. admitted'[m] = [s \in Instants |-> admitted'[m][s]]
          /\ setBack'[m] = [s \in Instants |-> setBack'[m][s]]
      BY <1>2, <1>5 DEF StoresTyped
    <3>2. \A s \in Instants : admitted'[m][s] \in Nat /\ setBack'[m][s] \in Nat
      BY <1>4, <1>6, <1>9
    <3> QED BY <3>1, <3>2
  <2> QED BY <1>2, <1>5, <1>6, <1>7, <2>1 DEF StoresTyped
<1>11. ASSUME NEW n \in Stores, n # m
       PROVE  /\ Credit(n)' = Credit(n) /\ LastCheck(n)' = LastCheck(n)
              /\ admitted'[n] = admitted[n] /\ setBack'[n] = setBack[n]
  BY <1>2, <1>5, <1>11 DEF StoresTyped, Credit, LastCheck
<1>12. ASSUME NEW n \in Stores, NEW s \in Instants
       PROVE  WithinBudget(admitted'[n][s], Credit(n)', LastCheck(n)', setBack'[n][s], s)
  <2>1. WithinBudget(admitted[n][s], Credit(n), LastCheck(n), setBack[n][s], s)
    BY DEF IInv, Budgets
  <2>2. CASE n # m
    BY <1>11, <2>1, <2>2
  <2>3. CASE n = m
    <3>1. WithinBudget(IF s <= t.now THEN admitted[m][s] + Gain(v) ELSE admitted[m][s],
                       CreditLeft(v), t.now,
                       setBack[m][s] + Greatest(0, LastCheck(m) - t.now), s)
      BY <1>1, <1>4, <1>6, <1>9, <2>1, <2>3, BudgetSurvivesDecision DEF t
    <3> QED BY <1>8, <1>9, <2>3, <3>1 DEF back
  <2> QED BY <2>2, <2>3
<1>13. Budgets'
  BY <1>12 DEF Budgets, Instants
<1>14. ASSUME NEW n \in Stores PROVE LastCheck(n)' <= clock
  BY <1>1, <1>8, <1>11 DEF t, IInv, NothingAhead
<1> QED BY <1>10, <1>13, <1>14

(* Running the script also renews the time to live, so that the key is not   *)
(* dropped before its bucket has all its credit back.                        *)
LEMMA ScriptKeepsTtl ==
  ASSUME IInv, NEW r \in Tasks, Script(task[r]), UNCHANGED algorithm
  PROVE  expiry' \in Nat /\ DropsOnlyFullBuckets'
<1> DEFINE t == task[r]
           ttl == Ttl(t.limit)
<1>1. /\ t.now \in Nat /\ t.now <= clock /\ t.limit \in Limits /\ clock \in Nat
  BY TaskFacts, LimiterAssumption DEF IInv, TypeOK, Instants
<1>2. ttl \in Nat /\ MaxRate * ttl >= MaxCapacity
  BY <1>1, TtlIsLongEnough
<1>3. expiry' = clock + ttl
  BY DEF Script
<1>4. bucket'[Redis].last = t.now /\ bucket'[Redis] # NoBucket
  <2>1. bucket' = [bucket EXCEPT ![Redis] =
                     [level |-> Check(algorithm, bucket[Redis], t.now, t.limit).level,
                      last |-> t.now]]
    BY DEF Script, Decide
  <2>2. Redis \in DOMAIN bucket
    BY DEF IInv, TypeOK, Stores
  <2>3. Check(algorithm, bucket[Redis], t.now, t.limit).level \in Nat
    BY <1>1, CheckIsAffordable DEF IInv, Stores, Affordable
  <2> QED BY <1>1, <2>1, <2>2, <2>3, LimiterAssumption DEF Bucket
<1> HIDE DEF t, ttl
<1>5. MaxRate * (clock + ttl - t.now) >= MaxCapacity
  <2>1. MaxRate * ttl <= MaxRate * (clock + ttl - t.now)
    BY <1>1, <1>2, ProductsGrow, LimiterAssumption
  <2>2. MaxRate * (clock + ttl - t.now) \in Int
    BY <1>1, <1>2, LimiterAssumption
  <2> QED BY <1>1, <1>2, <2>1, <2>2, LimiterAssumption
<1> QED BY <1>1, <1>2, <1>3, <1>4, <1>5 DEF DropsOnlyFullBuckets

(* A store that lost its contents is within every budget, and so is every    *)
(* other store.                                                              *)
LEMMA LoseKeepsBudgets ==
  ASSUME IInv, NEW m \in Stores, Lose(m), UNCHANGED algorithm
  PROVE  /\ StoresTyped' /\ Budgets'
         /\ \A n \in Stores : LastCheck(n)' <= clock
<1>1. StoresTyped /\ clock \in Nat
  BY LimiterAssumption DEF IInv, TypeOK, StoresTyped, Instants
<1>2. StoresTyped'
  BY <1>1 DEF Lose, StoresTyped
<1>3. ASSUME NEW n \in Stores, n # m
      PROVE  /\ Credit(n)' = Credit(n) /\ LastCheck(n)' = LastCheck(n)
             /\ admitted'[n] = admitted[n] /\ setBack'[n] = setBack[n]
  BY <1>1, <1>3 DEF Lose, StoresTyped, Credit, LastCheck
<1>4. /\ Credit(m)' = MaxCapacity /\ LastCheck(m)' = 0
      /\ \A s \in Instants : admitted'[m][s] = 0 /\ setBack'[m][s] = 0
  BY <1>1 DEF Lose, StoresTyped, Credit, LastCheck
<1>5. ASSUME NEW n \in Stores, NEW s \in Instants
      PROVE  WithinBudget(admitted'[n][s], Credit(n)', LastCheck(n)', setBack'[n][s], s)
  <2>1. WithinBudget(admitted[n][s], Credit(n), LastCheck(n), setBack[n][s], s)
    BY DEF IInv, Budgets
  <2>2. CASE n # m
    BY <1>3, <2>1, <2>2
  <2>3. CASE n = m
    <3>1. s \in Nat
      BY LimiterAssumption DEF Instants
    <3> QED BY <1>4, <2>3, <3>1, NewBudget
  <2> QED BY <2>2, <2>3
<1>6. Budgets'
  BY <1>5 DEF Budgets, Instants
<1>7. ASSUME NEW n \in Stores PROVE LastCheck(n)' <= clock
  BY <1>1, <1>3, <1>4 DEF IInv, NothingAhead
<1> QED BY <1>2, <1>6, <1>7

LEMMA InitIsWithin == Init => IInv
<1> SUFFICES ASSUME Init PROVE IInv
  OBVIOUS
<1> USE LimiterAssumption
<1>1. TypeOK
  BY DEF Init, TypeOK, Call, Instants
<1>2. NothingAhead
  BY DEF Init, NothingAhead, LastCheck
<1>3. DropsOnlyFullBuckets
  BY DEF Init, DropsOnlyFullBuckets, Stores
<1>4. ASSUME NEW m \in Stores, NEW s \in Instants
      PROVE  WithinBudget(admitted[m][s], Credit(m), LastCheck(m), setBack[m][s], s)
  <2>1. /\ admitted[m][s] = 0 /\ setBack[m][s] = 0
        /\ Credit(m) = MaxCapacity /\ LastCheck(m) = 0 /\ s \in Nat
    BY DEF Init, Credit, LastCheck, Instants
  <2> QED BY <2>1, NewBudget
<1>5. Budgets
  BY <1>4 DEF Budgets
<1> QED BY <1>1, <1>2, <1>3, <1>5 DEF IInv

LEMMA NextStaysWithin == IInv /\ [Next]_vars => IInv'
<1> SUFFICES ASSUME IInv, [Next]_vars PROVE IInv'
  OBVIOUS
<1> USE LimiterAssumption
<1>0. TypeOK /\ NothingAhead /\ DropsOnlyFullBuckets /\ Budgets /\ StoresTyped
      /\ clock \in Nat
  BY DEF IInv, TypeOK, StoresTyped, Instants
<1>1. ASSUME NEW r \in Tasks, NEW p \in Proxies, NEW l \in Limits, Begin(r, p, l)
      PROVE  IInv'
  <2>1. UNCHANGED <<algorithm, clock, bucket, expiry, faults, admitted, setBack, settled>>
    BY <1>1 DEF Begin, history
  <2>2. task' = [task EXCEPT ![r] = [pc |-> "script", proxy |-> p, now |-> clock, limit |-> l]]
    BY <1>1 DEF Begin
  <2>3. task' \in [Tasks -> Call] /\ \A q \in Tasks : task'[q].now <= clock
    BY <1>0, <2>2 DEF TypeOK, Call, NothingAhead
  <2>4. TypeOK' /\ NothingAhead'
    BY <1>0, <2>1, <2>3 DEF TypeOK, NothingAhead, LastCheck, Instants
  <2>5. DropsOnlyFullBuckets' /\ Budgets'
    BY <1>0, <2>1 DEF DropsOnlyFullBuckets, Budgets, Credit, LastCheck, Instants
  <2> QED BY <2>4, <2>5 DEF IInv
<1>2. ASSUME NEW r \in Tasks, RunScript(r) PROVE IInv'
  <2>1. /\ Script(task[r]) /\ Decide(Redis, task[r]) /\ Redis \in Stores
        /\ UNCHANGED <<algorithm, clock, faults>>
        /\ task' = [task EXCEPT ![r] = Idle(task[r])]
    BY <1>2 DEF RunScript, Script, Stores
  <2>2. task' \in [Tasks -> Call] /\ \A q \in Tasks : task'[q].now <= clock
    BY <1>0, <2>1 DEF TypeOK, Call, NothingAhead, Idle
  <2>3. /\ StoresTyped' /\ Budgets'
        /\ \A n \in Stores : LastCheck(n)' <= clock
    BY <2>1, DecideKeepsBudgets
  <2>4. expiry' \in Nat /\ DropsOnlyFullBuckets'
    BY <2>1, ScriptKeepsTtl
  <2>5. TypeOK' /\ NothingAhead'
    BY <1>0, <2>1, <2>2, <2>3, <2>4
       DEF TypeOK, NothingAhead, StoresTyped, Instants
  <2> QED BY <2>3, <2>4, <2>5 DEF IInv
<1>3. ASSUME NEW r \in Tasks, RunScriptFails(r) PROVE IInv'
  <2>1. /\ Redis \in Stores /\ UNCHANGED <<algorithm, clock>> /\ faults' \in 0..MaxFaults
        /\ task' = [task EXCEPT ![r] = At(task[r], "memory")]
        /\ Script(task[r])
             \/ UNCHANGED <<bucket, expiry, admitted, setBack, settled>>
    BY <1>0, <1>3 DEF RunScriptFails, Stores, history, TypeOK
  <2>2. task' \in [Tasks -> Call] /\ \A q \in Tasks : task'[q].now <= clock
    BY <1>0, <2>1 DEF TypeOK, Call, NothingAhead, At
  <2>3. /\ StoresTyped' /\ Budgets' /\ expiry' \in Nat /\ DropsOnlyFullBuckets'
        /\ \A n \in Stores : LastCheck(n)' <= clock
    <3>1. CASE Script(task[r])
      BY <2>1, <3>1, DecideKeepsBudgets, ScriptKeepsTtl DEF Script
    <3>2. CASE UNCHANGED <<bucket, expiry, admitted, setBack, settled>>
      BY <1>0, <2>1, <3>2 DEF StoresTyped, Budgets, DropsOnlyFullBuckets, TypeOK,
                        NothingAhead, Credit, LastCheck, Instants
    <3> QED BY <2>1, <3>1, <3>2
  <2>4. TypeOK' /\ NothingAhead'
    BY <1>0, <2>1, <2>2, <2>3 DEF TypeOK, NothingAhead, StoresTyped, Instants
  <2> QED BY <2>3, <2>4 DEF IInv
<1>4. ASSUME NEW r \in Tasks, CheckInMemory(r) PROVE IInv'
  <2>1. /\ Decide(task[r].proxy, task[r]) /\ task[r].proxy \in Proxies
        /\ task[r].proxy \in Stores /\ UNCHANGED <<algorithm, clock, expiry, faults>>
        /\ task' = [task EXCEPT ![r] = Idle(task[r])]
    BY <1>4, TaskFacts DEF CheckInMemory, Stores
  <2>2. task' \in [Tasks -> Call] /\ \A q \in Tasks : task'[q].now <= clock
    BY <1>0, <2>1 DEF TypeOK, Call, NothingAhead, Idle
  <2>3. /\ StoresTyped' /\ Budgets'
        /\ \A n \in Stores : LastCheck(n)' <= clock
    BY <2>1, DecideKeepsBudgets
  <2>4. bucket'[Redis] = bucket[Redis]
    BY <1>0, <2>1 DEF Decide, StoresTyped, Stores
  <2>5. DropsOnlyFullBuckets'
    BY <1>0, <2>1, <2>4 DEF DropsOnlyFullBuckets
  <2>6. TypeOK' /\ NothingAhead'
    BY <1>0, <2>1, <2>2, <2>3 DEF TypeOK, NothingAhead, StoresTyped, Instants
  <2> QED BY <2>3, <2>5, <2>6 DEF IInv
<1>5. ASSUME NEW p \in Proxies, RestartProxy(p) PROVE IInv'
  <2>1. /\ Lose(p) /\ p \in Stores /\ UNCHANGED <<algorithm, clock, expiry>>
        /\ faults' \in 0..MaxFaults
        /\ task' = [r \in Tasks |-> IF task[r].proxy = p THEN Idle(task[r]) ELSE task[r]]
    BY <1>0, <1>5 DEF RestartProxy, Stores, TypeOK
  <2>2. task' \in [Tasks -> Call] /\ \A q \in Tasks : task'[q].now <= clock
    BY <1>0, <2>1 DEF TypeOK, Call, NothingAhead, Idle
  <2>3. /\ StoresTyped' /\ Budgets'
        /\ \A n \in Stores : LastCheck(n)' <= clock
    BY <2>1, LoseKeepsBudgets
  <2>4. bucket'[Redis] = bucket[Redis]
    BY <1>0, <2>1 DEF Lose, StoresTyped, Stores
  <2>5. DropsOnlyFullBuckets'
    BY <1>0, <2>1, <2>4 DEF DropsOnlyFullBuckets
  <2>6. TypeOK' /\ NothingAhead'
    BY <1>0, <2>1, <2>2, <2>3 DEF TypeOK, NothingAhead, StoresTyped, Instants
  <2> QED BY <2>3, <2>5, <2>6 DEF IInv
<1>6. CASE RestartRedis
  <2>1. /\ Lose(Redis) /\ Redis \in Stores /\ UNCHANGED <<algorithm, clock, task>>
        /\ faults' \in 0..MaxFaults /\ expiry' = Forever /\ expiry' \in Nat
    BY <1>0, <1>6 DEF RestartRedis, Stores, TypeOK
  <2>2. /\ StoresTyped' /\ Budgets'
        /\ \A n \in Stores : LastCheck(n)' <= clock
    BY <2>1, LoseKeepsBudgets
  <2>3. DropsOnlyFullBuckets'
    <3>1. bucket'[Redis] = NoBucket
      BY <1>0, <2>1 DEF Lose, StoresTyped
    <3> QED BY <2>1, <3>1 DEF DropsOnlyFullBuckets
  <2>4. TypeOK' /\ NothingAhead'
    BY <1>0, <2>1, <2>2 DEF TypeOK, NothingAhead, StoresTyped, Instants
  <2> QED BY <2>2, <2>3, <2>4 DEF IInv
<1>7. CASE Tick /\ ~(expiry <= clock + 1)
  <2>1. UNCHANGED <<algorithm, bucket, expiry, task, faults, admitted, setBack, settled>>
        /\ clock' = clock + 1 /\ clock' \in Instants
    BY <1>0, <1>7 DEF Tick, Instants
  <2>2. TypeOK'
    BY <1>0, <2>1 DEF TypeOK, Instants
  <2>3. NothingAhead'
    <3>1. ASSUME NEW m \in Stores PROVE LastCheck(m)' <= clock'
      <4>1. LastCheck(m)' = LastCheck(m) /\ LastCheck(m) \in Nat
        BY <1>0, <2>1, CreditsTyped DEF LastCheck
      <4> QED BY <1>0, <2>1, <4>1 DEF NothingAhead
    <3>2. ASSUME NEW r \in Tasks PROVE task'[r].now <= clock'
      BY <1>0, <2>1, TaskFacts
    <3> QED BY <3>1, <3>2 DEF NothingAhead
  <2>4. DropsOnlyFullBuckets' /\ Budgets'
    BY <1>0, <2>1 DEF DropsOnlyFullBuckets, Budgets, Credit, LastCheck, Instants
  <2> QED BY <2>2, <2>3, <2>4 DEF IInv
<1>8. CASE Tick /\ expiry <= clock + 1
  <2>1. /\ UNCHANGED <<algorithm, task, faults, admitted, setBack>>
        /\ clock' = clock + 1 /\ clock' \in Instants /\ expiry' = Forever
        /\ bucket' = [bucket EXCEPT ![Redis] = NoBucket]
        /\ settled' = [settled EXCEPT ![Redis] = expiry]
        /\ expiry \in Nat /\ Redis \in Stores
    BY <1>0, <1>8 DEF Tick, Instants, TypeOK, Stores
  <2>2. TypeOK'
    BY <1>0, <2>1 DEF TypeOK, Instants
  <2>3. bucket'[Redis] = NoBucket /\ Credit(Redis)' = MaxCapacity
        /\ LastCheck(Redis)' = expiry
    BY <1>0, <2>1 DEF StoresTyped, Credit, LastCheck
  <2>4. ASSUME NEW m \in Stores, m # Redis
        PROVE  Credit(m)' = Credit(m) /\ LastCheck(m)' = LastCheck(m)
    BY <1>0, <2>1, <2>4 DEF StoresTyped, Credit, LastCheck
  <2>5. NothingAhead'
    <3>1. ASSUME NEW m \in Stores PROVE LastCheck(m)' <= clock'
      <4>1. LastCheck(m) \in Nat /\ LastCheck(m) <= clock
        BY <1>0, CreditsTyped DEF NothingAhead
      <4> QED BY <1>0, <1>8, <2>1, <2>3, <2>4, <4>1
    <3>2. ASSUME NEW r \in Tasks PROVE task'[r].now <= clock'
      BY <1>0, <2>1, TaskFacts
    <3> QED BY <3>1, <3>2 DEF NothingAhead
  <2>6. DropsOnlyFullBuckets'
    BY <2>1, <2>3 DEF DropsOnlyFullBuckets
  <2>7. ASSUME NEW m \in Stores, NEW s \in Instants
        PROVE  WithinBudget(admitted'[m][s], Credit(m)', LastCheck(m)', setBack'[m][s], s)
    <3>1. WithinBudget(admitted[m][s], Credit(m), LastCheck(m), setBack[m][s], s)
      BY <1>0 DEF Budgets
    <3>2. CASE m # Redis
      BY <2>1, <2>4, <3>1, <3>2
    <3>3. CASE m = Redis /\ bucket[Redis] # NoBucket
      <4>1. /\ expiry >= LastCheck(Redis)
            /\ MaxRate * (expiry - LastCheck(Redis)) >= MaxCapacity
        BY <1>0, <3>3 DEF DropsOnlyFullBuckets, LastCheck
      <4>2. /\ admitted[m][s] \in Nat /\ setBack[m][s] \in Nat /\ s \in Nat
            /\ Credit(m) \in Nat /\ LastCheck(m) \in Nat
        <5>1. admitted[m][s] \in Nat /\ setBack[m][s] \in Nat /\ s \in Nat
          BY <1>0 DEF StoresTyped, Instants
        <5>2. Credit(m) \in Nat /\ LastCheck(m) \in Nat
          BY <1>0, CreditsTyped
        <5> QED BY <5>1, <5>2
      <4>3. WithinBudget(admitted[m][s], MaxCapacity, expiry, setBack[m][s], s)
        BY <2>1, <3>1, <3>3, <4>1, <4>2, BudgetSurvivesDrop
      <4> QED BY <2>1, <2>3, <3>3, <4>3
    <3>4. CASE m = Redis /\ bucket[Redis] = NoBucket
      BY <1>0, <1>8, <2>1, <3>4 DEF DropsOnlyFullBuckets, Instants
    <3> QED BY <3>2, <3>3, <3>4
  <2>8. Budgets'
    BY <2>7 DEF Budgets, Instants
  <2> QED BY <2>2, <2>5, <2>6, <2>8 DEF IInv
<1>9. CASE UNCHANGED vars
  <2>1. UNCHANGED <<algorithm, clock, bucket, expiry, task, faults, admitted, setBack, settled>>
    BY <1>9 DEF vars
  <2> QED BY <2>1 DEF IInv, TypeOK, NothingAhead, DropsOnlyFullBuckets, Budgets,
                      Credit, LastCheck, Instants
<1> QED
  BY <1>1, <1>2, <1>3, <1>4, <1>5, <1>6, <1>7, <1>8, <1>9 DEF Next

(* The inductive invariant holds in every reachable state. *)
THEOREM Invariance == Spec => []IInv
BY InitIsWithin, NextStaysWithin, PTL DEF Spec

(* The variables keep their types; in particular no bucket ever holds less   *)
(* than nothing or more than the base capacity.                              *)
THEOREM TypeCorrect == Spec => []TypeOK
<1>1. IInv => TypeOK
  BY DEF IInv
<1> QED BY Invariance, <1>1, PTL

(* Neither limiter admits more than the base capacity and the base rate for  *)
(* the time since, plus the time that out of order calls have set the bucket *)
(* back (token_bucket.lua:21-39, leaky_bucket.lua:21-39).                    *)
THEOREM Bounded == Spec => []AdmissionsBounded
<1>1. IInv => AdmissionsBounded
  <2> SUFFICES ASSUME IInv, NEW m \in Stores, NEW s \in Instants, s <= clock
               PROVE  admitted[m][s] <= MaxCapacity + MaxRate * (clock - s + setBack[m][s])
    BY DEF AdmissionsBounded
  <2>1. StoresTyped
    BY DEF IInv, TypeOK, StoresTyped
  <2>2. /\ admitted[m][s] \in Nat /\ setBack[m][s] \in Nat /\ s \in Nat
        /\ MaxRate \in Nat /\ MaxCapacity \in Nat /\ clock \in Nat
    BY <2>1, LimiterAssumption DEF StoresTyped, Instants, IInv, TypeOK
  <2>3. Credit(m) \in Nat /\ LastCheck(m) \in Nat /\ LastCheck(m) <= clock
    BY <2>1, CreditsTyped DEF IInv, NothingAhead
  <2>4. WithinBudget(admitted[m][s], Credit(m), LastCheck(m), setBack[m][s], s)
    BY DEF IInv, Budgets
  <2> QED BY <2>2, <2>3, <2>4, BudgetBoundsAdmissions
<1> QED BY Invariance, <1>1, PTL

-------------------------------------------------------------------------------
(***************************************************************************)
(* What a client is sure to get.                                           *)
(***************************************************************************)

(* What a bucket could still admit at once if the lowest limits applied; a   *)
(* missing one is as good as full.                                           *)
Floor(m) ==
  IF bucket[m] = NoBucket THEN MinCapacity
  ELSE IF algorithm = "leaky_bucket" THEN MinCapacity - bucket[m].level
  ELSE bucket[m].level

(* Of the a units admitted for calls from each instant on, some instant up   *)
(* to last accounts for a floor as low as k.                                 *)
Explained(k, last, a) ==
  \E s \in Instants : s <= last /\ k >= MinCapacity + MinRate * (last - s) - a[s]

Floors == \A m \in Stores : Explained(Floor(m), LastCheck(m), admitted[m])

(* Fewer calls have read the clock at a later instant than at an earlier one *)
(* or later.                                                                 *)
Declines(a) == \A s, e \in Instants : s <= e => a[e] <= a[s]

AdmissionsDecline == \A m \in Stores : Declines(admitted[m])

FloorIInv == Floors /\ AdmissionsDecline

FloorLeft(v) ==
  IF algorithm = "leaky_bucket" THEN MinCapacity - v.level ELSE v.level

(* The verdict v charges no more than it admits, and refuses only below one  *)
(* request.                                                                  *)
Generous(v, k, elapsed) ==
  /\ FloorLeft(v) \in Int /\ Gain(v) \in Nat
  /\ FloorLeft(v) + Gain(v) >= Least(MinCapacity, k + MinRate * elapsed)
  /\ ~v.admitted => Least(MinCapacity, k + MinRate * elapsed) < Cost

LEMMA FloorsTyped ==
  ASSUME StoresTyped, NEW m \in Stores
  PROVE  Floor(m) \in Int /\ LastCheck(m) \in Nat
BY LimiterAssumption DEF StoresTyped, Floor, LastCheck, Bucket

(* One check of the token bucket (token_bucket.lua:12-39) or of the leaky    *)
(* bucket (leaky_bucket.lua:12-39) grants at least what the lowest limits    *)
(* would have granted.                                                       *)
LEMMA CheckIsGenerous ==
  ASSUME TypeOK, NEW m \in Stores, NEW now \in Nat, NEW l \in Limits
  PROVE  Generous(Check(algorithm, bucket[m], now, l), Floor(m),
                  Greatest(0, now - LastCheck(m)))
<1> DEFINE v      == Check(algorithm, bucket[m], now, l)
           elapsed == Greatest(0, now - LastCheck(m))
<1>1. /\ l.rate \in Nat /\ l.capacity \in Nat /\ Cost <= MinCapacity
      /\ MinRate <= l.rate /\ MinCapacity <= l.capacity /\ Cost \in Nat
      /\ MinRate \in Nat /\ MinCapacity \in Nat
  BY LimitsAssumption, LimiterAssumption, CostAssumption
<1>2. elapsed \in Nat
  <2>1. LastCheck(m) \in Nat
    BY DEF TypeOK, LastCheck, Bucket
  <2> QED BY <2>1 DEF Greatest
<1>3. MinRate * elapsed \in Nat /\ elapsed * l.rate \in Nat
      /\ MinRate * elapsed <= elapsed * l.rate
  <2>1. elapsed * MinRate <= elapsed * l.rate /\ elapsed * MinRate = MinRate * elapsed
    BY <1>1, <1>2, ProductsGrow
  <2> QED BY <1>1, <1>2, <2>1
<1>4. CASE bucket[m] = NoBucket
  <2>1. Floor(m) = MinCapacity
    BY <1>4 DEF Floor
  <2>2. v = IF algorithm = "leaky_bucket" THEN Verdict(TRUE, Cost)
                                          ELSE Verdict(TRUE, l.capacity - Cost)
    BY <1>4 DEF Check, LeakyBucket, TokenBucket
  <2> HIDE DEF elapsed
  <2>3. Generous(v, Floor(m), elapsed)
    BY <1>1, <1>3, <2>1, <2>2
       DEF Verdict, Least, Generous, FloorLeft, Gain
  <2> QED BY <2>3 DEF elapsed
<1>5. CASE bucket[m] # NoBucket /\ algorithm = "leaky_bucket"
  <2>1. /\ bucket[m].level \in Nat
        /\ Floor(m) = MinCapacity - bucket[m].level
        /\ elapsed = Elapsed(bucket[m], now)
    BY <1>5 DEF TypeOK, Bucket, Floor, Elapsed, LastCheck
  <2> DEFINE water == Greatest(0, bucket[m].level - elapsed * l.rate)
  <2>2. v = IF water + Cost <= l.capacity THEN Verdict(TRUE, water + Cost)
                                          ELSE Verdict(FALSE, water)
    BY <1>5, <2>1 DEF Check, LeakyBucket
  <2> HIDE DEF elapsed
  <2>3. /\ water \in Nat
        /\ MinCapacity - water >=
             Least(MinCapacity, Floor(m) + MinRate * elapsed)
    BY <1>1, <1>3, <2>1 DEF Greatest, Least
  <2> HIDE DEF water
  <2>4. ASSUME water + Cost <= l.capacity PROVE Generous(v, Floor(m), elapsed)
    BY <1>1, <1>5, <2>2, <2>3, <2>4 DEF Verdict, Generous, FloorLeft, Gain
  <2>5. ASSUME ~(water + Cost <= l.capacity) PROVE Generous(v, Floor(m), elapsed)
    BY <1>1, <1>3, <1>5, <2>1, <2>2, <2>3, <2>5
       DEF Verdict, Generous, FloorLeft, Gain, Least
  <2> QED BY <2>4, <2>5 DEF elapsed
<1>6. CASE bucket[m] # NoBucket /\ algorithm # "leaky_bucket"
  <2>1. /\ bucket[m].level \in Nat
        /\ Floor(m) = bucket[m].level
        /\ elapsed = Elapsed(bucket[m], now)
    BY <1>6 DEF TypeOK, Bucket, Floor, Elapsed, LastCheck
  <2> DEFINE tokens == Least(l.capacity, bucket[m].level + elapsed * l.rate)
  <2>2. v = IF tokens >= Cost THEN Verdict(TRUE, tokens - Cost)
                              ELSE Verdict(FALSE, tokens)
    BY <1>6, <2>1 DEF Check, TokenBucket
  <2> HIDE DEF elapsed
  <2>3. /\ tokens \in Nat
        /\ tokens >= Least(MinCapacity, Floor(m) + MinRate * elapsed)
    BY <1>1, <1>3, <2>1 DEF Least
  <2> HIDE DEF tokens
  <2>4. ASSUME tokens >= Cost PROVE Generous(v, Floor(m), elapsed)
    BY <1>1, <1>6, <2>2, <2>3, <2>4 DEF Verdict, Generous, FloorLeft, Gain
  <2>5. ASSUME ~(tokens >= Cost) PROVE Generous(v, Floor(m), elapsed)
    BY <1>1, <1>3, <1>6, <2>1, <2>2, <2>3, <2>5
       DEF Verdict, Generous, FloorLeft, Gain, Least
  <2> QED BY <2>4, <2>5 DEF elapsed
<1> QED BY <1>4, <1>5, <1>6

(* A floor that is explained stays so when it is checked at time now, on     *)
(* time or late: what it lost, it lost to calls from now or earlier on.      *)
LEMMA ExplainedAtCheck ==
  ASSUME NEW a \in [Instants -> Nat], NEW k \in Int, NEW last \in Nat, NEW now \in Nat,
         NEW k2 \in Int, NEW gain \in Nat, now \in Instants,
         Declines(a), Explained(k, last, a),
         k2 + gain >= Least(MinCapacity, k + MinRate * Greatest(0, now - last))
  PROVE  \E s \in Instants : s <= now /\ k2 >= MinCapacity + MinRate * (now - s) - (a[s] + gain)
<1>0. MinRate \in Nat /\ MinCapacity \in Nat /\ Instants \subseteq Nat
  BY LimiterAssumption DEF Instants
<1>1. PICK s \in Instants : s <= last /\ k >= MinCapacity + MinRate * (last - s) - a[s]
  BY DEF Explained
<1>2. /\ s \in Nat /\ a[s] \in Nat /\ a[now] \in Nat
      /\ MinRate * (now - now) = 0 /\ last - s \in Nat
      /\ MinRate * (last - s) \in Nat
  BY <1>0, <1>1
<1>3. CASE k2 + gain >= MinCapacity
  BY <1>0, <1>2, <1>3
<1>4. CASE ~(k2 + gain >= MinCapacity) /\ now >= last
  <2>1. now - last \in Nat /\ MinRate * (now - last) \in Nat
    BY <1>0, <1>4
  <2>2. k2 + gain >= k + MinRate * (now - last)
    BY <1>0, <1>4, <2>1 DEF Least, Greatest
  <2>3. MinRate * (now - s) = MinRate * (now - last) + MinRate * (last - s)
    <3>1. now - s = (now - last) + (last - s)
      BY <1>0, <1>2
    <3> QED BY <1>0, <1>2, <2>1, <3>1
  <2> QED BY <1>0, <1>1, <1>2, <1>4, <2>1, <2>2, <2>3
<1>5. CASE ~(k2 + gain >= MinCapacity) /\ now < last
  <2>1. k2 + gain >= k
    <3>1. Greatest(0, now - last) = 0 /\ MinRate * 0 = 0
      BY <1>0, <1>5 DEF Greatest
    <3> QED BY <1>0, <1>5, <3>1 DEF Least
  <2>2. CASE s <= now
    <3>1. now - s \in Nat /\ now - s <= last - s
      BY <1>0, <1>2, <1>5, <2>2
    <3>2. MinRate * (now - s) \in Nat /\ MinRate * (now - s) <= MinRate * (last - s)
      BY <1>0, <1>2, <3>1, ProductsGrow
    <3> QED BY <1>0, <1>1, <1>2, <2>1, <2>2, <3>2
  <2>3. CASE now < s
    <3>1. a[s] <= a[now]
      BY <2>3 DEF Declines
    <3> QED BY <1>0, <1>1, <1>2, <2>1, <3>1
  <2> QED BY <1>2, <2>2, <2>3
<1> QED BY <1>3, <1>4, <1>5

(* A decision keeps the floors explained: it admits what it charges.         *)
LEMMA DecideKeepsFloors ==
  ASSUME IInv, FloorIInv, NEW m \in Stores, NEW r \in Tasks, Decide(m, task[r]),
         UNCHANGED algorithm
  PROVE  FloorIInv'
<1> DEFINE t == task[r]
           v == Check(algorithm, bucket[m], t.now, t.limit)
<1>1. /\ t.now \in Nat /\ t.now \in Instants /\ t.limit \in Limits
  BY TaskFacts, LimiterAssumption DEF IInv, TypeOK, Instants
<1>2. StoresTyped /\ TypeOK
  BY DEF IInv, TypeOK, StoresTyped
<1>3. /\ Generous(v, Floor(m), Greatest(0, t.now - LastCheck(m)))
      /\ v.level \in Nat
  BY <1>1, <1>2, CheckIsGenerous, CheckIsAffordable DEF Affordable
<1>4. Floor(m) \in Int /\ LastCheck(m) \in Nat
  BY <1>2, FloorsTyped
<1>5. /\ bucket' = [bucket EXCEPT ![m] = [level |-> v.level, last |-> t.now]]
      /\ admitted' = [admitted EXCEPT ![m] =
                        [s \in Instants |->
                           IF v.admitted /\ s <= t.now
                           THEN admitted[m][s] + Cost ELSE admitted[m][s]]]
      /\ settled' = settled
  BY DEF Decide
<1> HIDE DEF v, t
<1>6. bucket'[m] = [level |-> v.level, last |-> t.now] /\ bucket'[m] \in Bucket
  BY <1>1, <1>2, <1>3, <1>5 DEF StoresTyped, Bucket
<1>7. Floor(m)' = FloorLeft(v) /\ LastCheck(m)' = t.now
  BY <1>6, LimiterAssumption DEF Floor, LastCheck, FloorLeft
<1>8. /\ FloorLeft(v) \in Int /\ Gain(v) \in Nat
      /\ FloorLeft(v) + Gain(v)
           >= Least(MinCapacity, Floor(m) + MinRate * Greatest(0, t.now - LastCheck(m)))
  BY <1>3 DEF Generous
<1>9. /\ admitted[m] \in [Instants -> Nat] /\ Declines(admitted[m])
      /\ Explained(Floor(m), LastCheck(m), admitted[m])
  BY <1>2 DEF StoresTyped, FloorIInv, Floors, AdmissionsDecline
<1>10. \A s \in Instants : admitted'[m][s] = IF s <= t.now THEN admitted[m][s] + Gain(v)
                                                          ELSE admitted[m][s]
  <2>1. admitted'[m] = [s \in Instants |-> IF v.admitted /\ s <= t.now
                                           THEN admitted[m][s] + Cost ELSE admitted[m][s]]
    BY <1>2, <1>5 DEF StoresTyped
  <2> QED BY <1>9, <2>1 DEF Gain
<1>11. Explained(FloorLeft(v), t.now, admitted'[m])
  <2>1. PICK s \in Instants :
          s <= t.now /\ FloorLeft(v) >= MinCapacity + MinRate * (t.now - s)
                                           - (admitted[m][s] + Gain(v))
    BY <1>1, <1>4, <1>8, <1>9, ExplainedAtCheck
  <2> QED BY <1>10, <2>1 DEF Explained
<1>12. Declines(admitted'[m])
  <2> SUFFICES ASSUME NEW s \in Instants, NEW e \in Instants, s <= e
               PROVE  admitted'[m][e] <= admitted'[m][s]
    BY DEF Declines
  <2>1. /\ admitted[m][e] \in Nat /\ admitted[m][s] \in Nat /\ admitted[m][e] <= admitted[m][s]
        /\ s \in Nat /\ e \in Nat
    BY <1>9, LimiterAssumption DEF Declines, Instants
  <2> QED BY <1>1, <1>8, <1>10, <2>1
<1>13. ASSUME NEW n \in Stores, n # m
       PROVE  /\ Floor(n)' = Floor(n) /\ LastCheck(n)' = LastCheck(n)
              /\ admitted'[n] = admitted[n]
  BY <1>2, <1>5, <1>13 DEF StoresTyped, Floor, LastCheck
<1>14. ASSUME NEW n \in Stores
       PROVE  Explained(Floor(n)', LastCheck(n)', admitted'[n]) /\ Declines(admitted'[n])
  <2>1. CASE n = m
    BY <1>7, <1>11, <1>12, <2>1
  <2>2. CASE n # m
    <3>1. Explained(Floor(n), LastCheck(n), admitted[n]) /\ Declines(admitted[n])
      BY DEF FloorIInv, Floors, AdmissionsDecline
    <3> QED BY <1>13, <2>2, <3>1
  <2> QED BY <2>1, <2>2
<1> QED BY <1>14 DEF FloorIInv, Floors, AdmissionsDecline, Explained, Declines, Instants

(* A bucket that is missing is full: it needs no explanation.                *)
LEMMA MissingIsExplained ==
  ASSUME NEW last \in Instants, NEW a \in [Instants -> Nat]
  PROVE  Explained(MinCapacity, last, a)
<1>1. last \in Nat /\ MinRate * (last - last) = 0 /\ a[last] \in Nat
  BY LimiterAssumption DEF Instants
<1>2. MinCapacity >= MinCapacity + MinRate * (last - last) - a[last]
  BY <1>1, LimiterAssumption
<1> QED BY <1>1, <1>2 DEF Explained

(* A step that admits nothing and leaves every bucket as it is, or missing.  *)
LEMMA NothingCharged ==
  ASSUME StoresTyped, StoresTyped', FloorIInv, UNCHANGED algorithm,
         \A m \in Stores : \/ /\ UNCHANGED <<bucket[m], settled[m], admitted[m]>>
                           \/ /\ bucket'[m] = NoBucket /\ settled'[m] \in Instants
                              /\ Declines(admitted'[m])
  PROVE  FloorIInv'
<1>1. ASSUME NEW m \in Stores
      PROVE  Explained(Floor(m)', LastCheck(m)', admitted'[m]) /\ Declines(admitted'[m])
  <2>1. Explained(Floor(m), LastCheck(m), admitted[m]) /\ Declines(admitted[m])
    BY DEF FloorIInv, Floors, AdmissionsDecline
  <2>2. CASE UNCHANGED <<bucket[m], settled[m], admitted[m]>>
    <3>1. Floor(m)' = Floor(m) /\ LastCheck(m)' = LastCheck(m)
      BY <2>2 DEF Floor, LastCheck
    <3> QED BY <2>1, <2>2, <3>1
  <2>3. CASE bucket'[m] = NoBucket /\ settled'[m] \in Instants /\ Declines(admitted'[m])
    <3>1. Floor(m)' = MinCapacity /\ LastCheck(m)' \in Instants
      BY <2>3 DEF Floor, LastCheck
    <3>2. admitted'[m] \in [Instants -> Nat]
      BY DEF StoresTyped, Instants
    <3> QED BY <2>3, <3>1, <3>2, MissingIsExplained
  <2> QED BY <2>2, <2>3
<1> QED BY <1>1 DEF FloorIInv, Floors, AdmissionsDecline, Explained, Declines, Instants

LEMMA ZeroDeclines == Declines([s \in Instants |-> 0])
BY DEF Declines

LEMMA LoseKeepsFloors ==
  ASSUME IInv, IInv', FloorIInv, NEW m \in Stores, Lose(m), UNCHANGED algorithm
  PROVE  FloorIInv'
<1>1. StoresTyped /\ StoresTyped'
  BY DEF IInv, TypeOK, StoresTyped, Instants
<1>2. 0 \in Instants
  BY LimiterAssumption DEF Instants
<1>3. /\ bucket'[m] = NoBucket /\ settled'[m] = 0 /\ admitted'[m] = [s \in Instants |-> 0]
      /\ \A n \in Stores : n # m => UNCHANGED <<bucket[n], settled[n], admitted[n]>>
  BY <1>1 DEF Lose, StoresTyped
<1>4. Declines(admitted'[m])
  BY <1>3, ZeroDeclines
<1> QED BY <1>1, <1>2, <1>3, <1>4, NothingCharged

LEMMA FloorInitHolds == Init => FloorIInv
<1> SUFFICES ASSUME Init, NEW m \in Stores
             PROVE  Explained(Floor(m), LastCheck(m), admitted[m]) /\ Declines(admitted[m])
  BY DEF FloorIInv, Floors, AdmissionsDecline
<1>1. /\ Floor(m) = MinCapacity /\ LastCheck(m) = 0 /\ admitted[m] = [s \in Instants |-> 0]
  BY DEF Init, Floor, LastCheck
<1>2. 0 \in Instants
  BY LimiterAssumption DEF Instants
<1> QED BY <1>1, <1>2, ZeroDeclines, MissingIsExplained

LEMMA FloorNextPreserves == IInv /\ IInv' /\ FloorIInv /\ [Next]_vars => FloorIInv'
<1> SUFFICES ASSUME IInv, IInv', FloorIInv, [Next]_vars PROVE FloorIInv'
  OBVIOUS
<1>1. StoresTyped /\ StoresTyped'
  BY DEF IInv, TypeOK, StoresTyped, Instants
<1>2. ASSUME UNCHANGED <<algorithm, bucket, settled, admitted>> PROVE FloorIInv'
  BY <1>1, <1>2, NothingCharged
<1>3. ASSUME NEW r \in Tasks, NEW p \in Proxies, NEW l \in Limits, Begin(r, p, l)
      PROVE  FloorIInv'
  BY <1>2, <1>3 DEF Begin, history
<1>4. ASSUME NEW r \in Tasks, RunScript(r) \/ RunScriptFails(r) \/ CheckInMemory(r)
      PROVE  FloorIInv'
  <2>1. task[r].proxy \in Stores /\ Redis \in Stores
    BY TaskFacts DEF Stores
  <2>2. /\ UNCHANGED algorithm
        /\ \/ Decide(Redis, task[r]) \/ Decide(task[r].proxy, task[r])
           \/ UNCHANGED <<bucket, expiry, history>>
    BY <1>4 DEF RunScript, RunScriptFails, CheckInMemory, Script
  <2> QED BY <1>2, <2>1, <2>2, DecideKeepsFloors DEF history
<1>5. CASE RestartRedis \/ \E p \in Proxies : RestartProxy(p)
  BY <1>5, LoseKeepsFloors DEF RestartRedis, RestartProxy, Stores
<1>6. CASE Tick /\ ~(expiry <= clock + 1)
  BY <1>2, <1>6 DEF Tick
<1>7. CASE Tick /\ expiry <= clock + 1
  <2>1. /\ UNCHANGED <<algorithm, admitted>>
        /\ bucket' = [bucket EXCEPT ![Redis] = NoBucket]
        /\ settled' = [settled EXCEPT ![Redis] = expiry]
        /\ clock < MaxClock
    BY <1>7 DEF Tick
  <2>2. expiry \in Instants
    BY <1>7, <2>1, LimiterAssumption DEF IInv, TypeOK, Instants
  <2>3. /\ bucket'[Redis] = NoBucket /\ settled'[Redis] \in Instants
        /\ \A n \in Stores : n # Redis => UNCHANGED <<bucket[n], settled[n], admitted[n]>>
        /\ UNCHANGED admitted[Redis]
    BY <1>1, <2>1, <2>2 DEF StoresTyped, Stores
  <2>4. Declines(admitted'[Redis])
    BY <2>3 DEF FloorIInv, AdmissionsDecline, Stores
  <2> QED BY <1>1, <2>1, <2>3, <2>4, NothingCharged
<1>8. CASE UNCHANGED vars
  BY <1>2, <1>8 DEF vars
<1> QED BY <1>3, <1>4, <1>5, <1>6, <1>7, <1>8 DEF Next

(* A client that keeps to the lowest limits is never refused by either       *)
(* limiter, in Redis or in memory, on time or late, and whatever became of   *)
(* its key in between (token_bucket.lua:21-39, leaky_bucket.lua:21-39).      *)
THEOREM RefusalsJustified == Spec => []RefusalsHaveCause
<1>1. IInv /\ FloorIInv => RefusalsHaveCause
  <2> SUFFICES ASSUME IInv, FloorIInv, NEW m \in Stores, NEW now \in 0..clock, NEW l \in Limits,
                      ~Check(algorithm, bucket[m], now, l).admitted
               PROVE  \E s \in 0..now :
                        admitted[m][s] + Cost > MinCapacity + MinRate * (now - s)
    BY DEF RefusalsHaveCause
  <2>0. clock \in Nat /\ clock <= MaxClock /\ MaxClock \in Nat
    BY LimiterAssumption DEF IInv, TypeOK, Instants
  <2>1. /\ StoresTyped /\ TypeOK /\ now \in Nat /\ now \in Instants
    <3>1. StoresTyped /\ TypeOK
      BY DEF IInv, TypeOK, StoresTyped
    <3> QED BY <2>0, <3>1 DEF Instants
  <2> DEFINE k == Least(MinCapacity, Floor(m) + MinRate * Greatest(0, now - LastCheck(m)))
  <2>2. k < Cost
    BY <2>1, CheckIsGenerous DEF Generous
  <2>3. /\ Floor(m) \in Int /\ LastCheck(m) \in Nat /\ admitted[m] \in [Instants -> Nat]
    BY <2>1, FloorsTyped DEF StoresTyped
  <2>4. k \in Int
    BY <2>1, <2>3, LimiterAssumption DEF Least, Greatest
  <2>5. Declines(admitted[m]) /\ Explained(Floor(m), LastCheck(m), admitted[m])
    BY DEF FloorIInv, Floors, AdmissionsDecline
  <2>6. PICK s \in Instants :
          s <= now /\ k >= MinCapacity + MinRate * (now - s) - (admitted[m][s] + 0)
    <3>1. k + 0 >= Least(MinCapacity, Floor(m) + MinRate * Greatest(0, now - LastCheck(m)))
      BY <2>4
    <3> HIDE DEF k
    <3> QED BY <2>1, <2>3, <2>4, <2>5, <3>1, ExplainedAtCheck
  <2> HIDE DEF k
  <2>7. /\ s \in 0..now /\ admitted[m][s] \in Nat /\ MinRate * (now - s) \in Int
        /\ Cost \in Nat /\ MinCapacity \in Nat
    BY <2>1, <2>3, <2>6, LimiterAssumption, CostAssumption DEF Instants
  <2> QED BY <2>2, <2>4, <2>6, <2>7
<1> QED BY <1>1, Invariance, FloorInitHolds, FloorNextPreserves, PTL DEF Spec

-------------------------------------------------------------------------------
(***************************************************************************)
(* Both limiters are one policer.                                          *)
(***************************************************************************)

(* The map to Policer. *)
CreditNow == [m \in Stores |-> Credit(m)]
SinceNow == [m \in Stores |-> LastCheck(m)]
GrantedNow == [m \in Stores |-> admitted[m][0]]

(* Store m has k units of credit as of t, and the others keep theirs.        *)
Settled(m, k, t) ==
  /\ CreditNow' = [CreditNow EXCEPT ![m] = k]
  /\ SinceNow' = [SinceNow EXCEPT ![m] = t]

(* Where only the bucket of store m changes, so does its credit. *)
LEMMA OnlyOneSettles ==
  ASSUME NEW m \in Stores, NEW k, NEW t, Credit(m)' = k, LastCheck(m)' = t,
         \A n \in Stores : n # m => Credit(n)' = Credit(n) /\ LastCheck(n)' = LastCheck(n)
  PROVE  Settled(m, k, t)
<1>1. ASSUME NEW n \in Stores
      PROVE  /\ Credit(n)' = IF n = m THEN k ELSE Credit(n)
             /\ LastCheck(n)' = IF n = m THEN t ELSE LastCheck(n)
  OBVIOUS
<1> QED BY <1>1 DEF Settled, CreditNow, SinceNow

(* The steps of Policer under the map.                                       *)
LEMMA GrantIsPromised ==
  ASSUME NEW m \in Stores, NEW t \in 0..clock, NEW k \in Nat,
         Cost \in Nat, Credit(m) \in Nat, LastCheck(m) \in Nat,
         k + Cost <= Least(MaxCapacity, Credit(m) + MaxRate * Greatest(0, t - LastCheck(m))),
         Settled(m, k, t), clock' = clock,
         GrantedNow' = [GrantedNow EXCEPT ![m] = @ + Cost]
  PROVE  Promise!Next
<1>1. CreditNow[m] = Credit(m) /\ SinceNow[m] = LastCheck(m)
  BY DEF CreditNow, SinceNow
<1>2. k \in 0..(Promise!Available(m, t) - Cost)
  <2>1. /\ t \in Int /\ MaxCapacity \in Nat /\ MaxRate \in Nat
        /\ Greatest(0, t - LastCheck(m)) \in Nat
    BY LimiterAssumption DEF Greatest
  <2> QED BY <1>1, <2>1 DEF Promise!Available, CreditNow, SinceNow, Least, Greatest
<1>3. Promise!Grant(m, t)
  BY <1>2 DEF Promise!Grant, Promise!Settle, Settled, CreditNow, SinceNow, GrantedNow
<1> QED BY <1>3 DEF Promise!Next

LEMMA RefusalIsPromised ==
  ASSUME NEW m \in Stores, NEW t \in 0..clock, NEW k \in Nat,
         Credit(m) \in Nat, LastCheck(m) \in Nat,
         k <= Least(MaxCapacity, Credit(m) + MaxRate * Greatest(0, t - LastCheck(m))),
         Settled(m, k, t), clock' = clock, GrantedNow' = GrantedNow
  PROVE  Promise!Next
<1>1. CreditNow[m] = Credit(m) /\ SinceNow[m] = LastCheck(m)
  BY DEF CreditNow, SinceNow
<1>2. k \in 0..Promise!Available(m, t)
  <2>1. /\ t \in Int /\ MaxCapacity \in Nat /\ MaxRate \in Nat
        /\ Greatest(0, t - LastCheck(m)) \in Nat
    BY LimiterAssumption DEF Greatest
  <2> QED BY <1>1, <2>1 DEF Promise!Available, CreditNow, SinceNow, Least, Greatest
<1>3. Promise!Refuse(m, t)
  BY <1>2 DEF Promise!Refuse, Promise!Settle, Settled, CreditNow, SinceNow, GrantedNow
<1> QED BY <1>3 DEF Promise!Next

(* A decision takes its cost in credit, or grants nothing. *)
LEMMA DecisionIsPromised ==
  ASSUME IInv, NEW m \in Stores, NEW r \in Tasks, Decide(m, task[r]),
         UNCHANGED <<algorithm, clock>>
  PROVE  Promise!Next
<1> DEFINE t == task[r]
           v == Check(algorithm, bucket[m], t.now, t.limit)
<1>1. /\ t.now \in Nat /\ t.now <= clock /\ t.limit \in Limits
  BY TaskFacts
<1>2. StoresTyped /\ TypeOK /\ clock \in Nat /\ Cost \in Nat /\ 0 \in Instants
  BY LimiterAssumption, CostAssumption DEF IInv, TypeOK, StoresTyped, Instants
<1>3. Affordable(v, Credit(m), Greatest(0, t.now - LastCheck(m)))
  BY <1>1, <1>2, CheckIsAffordable
<1>4. Credit(m) \in Nat /\ LastCheck(m) \in Nat
  BY <1>2, CreditsTyped
<1>5. /\ bucket' = [bucket EXCEPT ![m] = [level |-> v.level, last |-> t.now]]
      /\ admitted' = [admitted EXCEPT ![m] =
                        [s \in Instants |->
                           IF v.admitted /\ s <= t.now
                           THEN admitted[m][s] + Cost ELSE admitted[m][s]]]
      /\ settled' = settled
  BY DEF Decide
<1> HIDE DEF v, t
<1>6. /\ v.level \in Nat /\ CreditLeft(v) \in Nat
      /\ CreditLeft(v) + Gain(v)
           <= Least(MaxCapacity, Credit(m) + MaxRate * Greatest(0, t.now - LastCheck(m)))
  BY <1>3 DEF Affordable
<1>7. Settled(m, CreditLeft(v), t.now)
  <2>1. bucket'[m] = [level |-> v.level, last |-> t.now] /\ bucket'[m] \in Bucket
    BY <1>1, <1>2, <1>5, <1>6 DEF StoresTyped, Bucket
  <2>2. Credit(m)' = CreditLeft(v) /\ LastCheck(m)' = t.now
    BY <2>1, LimiterAssumption DEF Credit, LastCheck, CreditLeft
  <2>3. ASSUME NEW n \in Stores, n # m
        PROVE  Credit(n)' = Credit(n) /\ LastCheck(n)' = LastCheck(n)
    BY <1>2, <1>5, <2>3 DEF StoresTyped, Credit, LastCheck
  <2> QED BY <2>2, <2>3, OnlyOneSettles
<1>8. /\ admitted'[m][0] = IF v.admitted THEN admitted[m][0] + Cost ELSE admitted[m][0]
      /\ \A n \in Stores : n # m => admitted'[n][0] = admitted[n][0]
  BY <1>1, <1>2, <1>5 DEF StoresTyped
<1>9. t.now \in 0..clock
  BY <1>1, <1>2
<1>10. CASE v.admitted
  <2>1. GrantedNow' = [GrantedNow EXCEPT ![m] = @ + Cost]
    BY <1>8, <1>10 DEF GrantedNow
  <2>2. Gain(v) = Cost
    BY <1>10 DEF Gain
  <2> QED BY <1>2, <1>4, <1>6, <1>7, <1>9, <2>1, <2>2, GrantIsPromised
<1>11. CASE ~v.admitted
  <2>1. GrantedNow' = GrantedNow
    BY <1>8, <1>11 DEF GrantedNow
  <2>2. Gain(v) = 0
    BY <1>11 DEF Gain
  <2>3. CreditLeft(v) <= Least(MaxCapacity, Credit(m) + MaxRate * Greatest(0, t.now - LastCheck(m)))
    BY <1>6, <2>2
  <2> QED BY <1>4, <1>6, <1>7, <1>9, <2>1, <2>3, RefusalIsPromised
<1> QED BY <1>10, <1>11

(* A store that loses its contents starts anew. *)
LEMMA LossIsPromised ==
  ASSUME IInv, NEW m \in Stores, Lose(m), UNCHANGED <<algorithm, clock>>
  PROVE  Promise!Next
<1>1. StoresTyped /\ 0 \in Instants
  BY LimiterAssumption DEF IInv, TypeOK, StoresTyped, Instants
<1>2. Settled(m, MaxCapacity, 0)
  <2>1. Credit(m)' = MaxCapacity /\ LastCheck(m)' = 0
    BY <1>1 DEF Lose, StoresTyped, Credit, LastCheck
  <2>2. ASSUME NEW n \in Stores, n # m
        PROVE  Credit(n)' = Credit(n) /\ LastCheck(n)' = LastCheck(n)
    BY <1>1, <2>2 DEF Lose, StoresTyped, Credit, LastCheck
  <2> QED BY <2>1, <2>2, OnlyOneSettles
<1>3. GrantedNow' = [GrantedNow EXCEPT ![m] = 0]
  BY <1>1 DEF Lose, StoresTyped, GrantedNow
<1>4. Promise!Forget(m)
  BY <1>2, <1>3 DEF Promise!Forget, Promise!Settle, Settled, CreditNow, SinceNow, GrantedNow
<1> QED BY <1>4 DEF Promise!Next

(* Redis drops a key no sooner than its bucket has all its credit again. *)
LEMMA TickIsPromised == ASSUME IInv, Tick PROVE Promise!Next
<1>1. /\ StoresTyped /\ clock \in Nat /\ expiry \in Nat /\ Redis \in Stores
      /\ clock' = clock + 1 /\ clock < MaxClock /\ UNCHANGED <<algorithm, admitted>>
  BY LimiterAssumption DEF IInv, TypeOK, StoresTyped, Instants, Tick, Stores
<1>2. GrantedNow' = GrantedNow
  BY <1>1 DEF GrantedNow
<1>3. CASE expiry <= clock + 1
  <2>1. /\ bucket' = [bucket EXCEPT ![Redis] = NoBucket]
        /\ settled' = [settled EXCEPT ![Redis] = expiry]
    BY <1>3 DEF Tick
  <2>2. bucket[Redis] # NoBucket
    BY <1>1, <1>3, LimiterAssumption DEF IInv, DropsOnlyFullBuckets
  <2>3. /\ expiry >= LastCheck(Redis) /\ LastCheck(Redis) \in Nat
        /\ MaxRate * (expiry - LastCheck(Redis)) >= MaxCapacity
    BY <1>1, <2>2, CreditsTyped DEF IInv, DropsOnlyFullBuckets, LastCheck
  <2>4. Settled(Redis, MaxCapacity, expiry)
    <3>1. Credit(Redis)' = MaxCapacity /\ LastCheck(Redis)' = expiry
      BY <1>1, <2>1 DEF StoresTyped, Credit, LastCheck
    <3>2. ASSUME NEW n \in Stores, n # Redis
          PROVE  Credit(n)' = Credit(n) /\ LastCheck(n)' = LastCheck(n)
      BY <1>1, <2>1, <3>2 DEF StoresTyped, Credit, LastCheck
    <3> QED BY <1>1, <3>1, <3>2, OnlyOneSettles
  <2>5. SinceNow[Redis] = LastCheck(Redis)
    BY <1>1 DEF SinceNow
  <2>6. Promise!Refill(Redis, expiry)
    BY <2>3, <2>4, <2>5 DEF Promise!Refill, Promise!Settle, Settled, CreditNow, SinceNow
  <2>7. expiry \in SinceNow[Redis]..clock'
    BY <1>1, <1>3, <2>3, <2>5
  <2>8. Promise!Pass
    BY <1>1, <1>2, <2>6, <2>7 DEF Promise!Pass, GrantedNow, SinceNow
  <2> QED BY <2>8 DEF Promise!Next
<1>4. CASE ~(expiry <= clock + 1)
  <2>1. UNCHANGED <<bucket, settled>>
    BY <1>4 DEF Tick
  <2>2. CreditNow' = CreditNow /\ SinceNow' = SinceNow
    BY <1>1, <2>1 DEF CreditNow, SinceNow, Credit, LastCheck
  <2>3. Promise!Pass
    BY <1>1, <1>2, <2>2 DEF Promise!Pass, GrantedNow, CreditNow, SinceNow
  <2> QED BY <2>3 DEF Promise!Next
<1> QED BY <1>3, <1>4

(* What leaves the stores alone is no step of Policer. *)
LEMMA OthersArePromised ==
  ASSUME UNCHANGED <<algorithm, clock, bucket, settled, admitted>>
  PROVE  UNCHANGED Promise!vars
BY DEF Promise!vars, Credit, LastCheck

(* Both limiters keep to a policer at the base limits, whose every grant is  *)
(* paid for in credit: they implement Policer.tla, with decisions in Redis   *)
(* and in memory, lost replies, late calls, dropped keys, and limits that    *)
(* change from one call to the next (token_bucket.py:38-117,                 *)
(* leaky_bucket.py:35-110).                                                  *)
THEOREM KeepsPolicer == Spec => KeepsToPolicer
<1>1. Init => Promise!Init
  <2> SUFFICES ASSUME Init PROVE Promise!Init
    OBVIOUS
  <2>1. 0 \in Instants
    BY LimiterAssumption DEF Instants
  <2> QED BY <2>1 DEF Init, Promise!Init, Credit, LastCheck
<1>2. IInv /\ [Next]_vars => [Promise!Next]_(Promise!vars)
  <2> SUFFICES ASSUME IInv, [Next]_vars PROVE Promise!Next \/ UNCHANGED Promise!vars
    OBVIOUS
  <2>1. ASSUME NEW r \in Tasks, NEW p \in Proxies, NEW l \in Limits, Begin(r, p, l)
        PROVE  UNCHANGED Promise!vars
    BY <2>1, OthersArePromised DEF Begin, history
  <2>2. ASSUME NEW r \in Tasks, RunScript(r) PROVE Promise!Next
    BY <2>2, DecisionIsPromised DEF RunScript, Script, Stores
  <2>3. ASSUME NEW r \in Tasks, RunScriptFails(r)
        PROVE  Promise!Next \/ UNCHANGED Promise!vars
    <3>1. CASE Script(task[r])
      BY <2>3, <3>1, DecisionIsPromised DEF RunScriptFails, Script, Stores
    <3>2. CASE UNCHANGED <<bucket, expiry, history>>
      BY <2>3, <3>2, OthersArePromised DEF RunScriptFails, history
    <3> QED BY <2>3, <3>1, <3>2 DEF RunScriptFails
  <2>4. ASSUME NEW r \in Tasks, CheckInMemory(r) PROVE Promise!Next
    BY <2>4, DecisionIsPromised, TaskFacts DEF CheckInMemory, Stores
  <2>5. ASSUME NEW p \in Proxies, RestartProxy(p) PROVE Promise!Next
    BY <2>5, LossIsPromised DEF RestartProxy, Stores
  <2>6. CASE RestartRedis
    BY <2>6, LossIsPromised DEF RestartRedis, Stores
  <2>7. CASE Tick
    BY <2>7, TickIsPromised
  <2>8. CASE UNCHANGED vars
    BY <2>8, OthersArePromised DEF vars
  <2> QED BY <2>1, <2>2, <2>3, <2>4, <2>5, <2>6, <2>7, <2>8 DEF Next
<1> QED BY <1>1, <1>2, Invariance, PTL DEF Spec, KeepsToPolicer, Promise!Spec

===============================================================================
