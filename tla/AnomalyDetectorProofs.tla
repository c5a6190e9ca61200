-------------------------- MODULE AnomalyDetectorProofs --------------------------
(***************************************************************************)
(* Proofs about AnomalyDetector, for any number of evaluations, proxies,   *)
(* requests and faults: baselines stay well formed, counters expire, and   *)
(* no anomaly is reported for requests that the baseline it is judged by   *)
(* has taken in, once the counter has been deleted after its update.       *)
(***************************************************************************)
EXTENDS AnomalyDetector, TLAPS

(* Is the deletion that follows the update of base still under way?          *)
Deleting(base) == \E q \in Tasks : task[q].pc = "delete" /\ task[q].base.last = base.last

(* The counter there is has been reset since base was stored: no deletion of *)
(* that update is under way, and none at all has been lost.                  *)
Settled(base) == counter > 0 /\ ~Deleting(base) /\ "delete" \notin lost

(* Was the present counter created after base was stored?                    *)
Younger(base) == base # NoBaseline /\ base.closed => began >= base.last

(* A counter that is settled for the baseline, or for one that was fetched   *)
(* to be compared with it, is younger.                                       *)
SettledCounters ==
  /\ Settled(baseline) => Younger(baseline)
  /\ \A r \in Tasks : task[r].pc = "incr" /\ Settled(task[r].base) => Younger(task[r].base)

(* Nothing has been evaluated in the future.                                 *)
PastEvaluations ==
  /\ baseline # NoBaseline => baseline.last <= clock
  /\ \A r \in Tasks : /\ task[r].now <= clock
                      /\ task[r].base # NoBaseline => task[r].base.last <= clock

FairEvaluations == \A r \in Tasks : task[r].fair

(* What is stored for a client without baseline is not taken for the result  *)
(* of an interval.                                                           *)
FirstBaselines == \A r \in Tasks : task[r].pc = "hset_init" => ~task[r].base.closed

IInv ==
  /\ TypeOK
  /\ CountersExpire
  /\ SettledCounters
  /\ PastEvaluations
  /\ FirstBaselines
  /\ FairEvaluations

-------------------------------------------------------------------------------
(***************************************************************************)
(* What the operators return.                                              *)
(***************************************************************************)

LEMMA RateIsInt ==
  ASSUME NEW count \in Nat, NEW dt \in Int
  PROVE  Rate(count, dt) \in Int
BY DetectorAssumption DEF Rate

LEMMA DefaultIsBaseline ==
  ASSUME NEW now \in Instants
  PROVE  /\ Default(now) \in Baseline /\ Default(now).last = now
         /\ ~Default(now).closed /\ Default(now) # NoBaseline
<1>1. One * One \in Int /\ One * One >= MinVariance /\ One \in Int
  BY DetectorAssumption
<1>2. Default(now) \in Baseline /\ Default(now).last = now /\ ~Default(now).closed
  BY <1>1 DEF Default, Baseline
<1> QED BY <1>2, DetectorAssumption

LEMMA SmoothedIsBaseline ==
  ASSUME NEW base \in Baseline, NEW rate \in Int, NEW now \in Instants
  PROVE  /\ Smoothed(base, rate, now) \in Baseline
         /\ Smoothed(base, rate, now).last = now
         /\ Smoothed(base, rate, now) # NoBaseline
<1> DEFINE diff == rate - base.rate
           r == base.rate + (AlphaNum * diff) \div AlphaDen
           v == ((AlphaDen - AlphaNum) * (AlphaDen * base.variance + AlphaNum * diff * diff))
                  \div (AlphaDen * AlphaDen)
<1>1. base.rate \in Int /\ base.variance \in Int /\ diff \in Int
  BY DEF Baseline
<1>2. AlphaNum \in Int /\ AlphaDen \in Int /\ AlphaDen > 0 /\ MinVariance \in Int
  BY DetectorAssumption
<1>3. r \in Int
  <2>1. AlphaNum * diff \in Int
    BY <1>1, <1>2
  <2> HIDE DEF diff
  <2> QED BY <1>1, <1>2, <2>1
<1>4. v \in Int
  <2> DEFINE a == (AlphaDen - AlphaNum) * (AlphaDen * base.variance + AlphaNum * diff * diff)
             d == AlphaDen * AlphaDen
  <2>1. a \in Int
    <3> HIDE DEF diff
    <3>1. AlphaNum * diff * diff \in Int /\ AlphaDen * base.variance \in Int
      BY <1>1, <1>2
    <3> QED BY <1>2, <3>1
  <2>2. d \in Int /\ d > 0
    BY <1>2
  <2> HIDE DEF a, d
  <2>3. a \div d \in Int
    BY <2>1, <2>2
  <2> QED BY <2>3 DEF a, d
<1> HIDE DEF r, v
<1>5. Smoothed(base, rate, now) =
        [rate |-> r, variance |-> AtLeast(v), last |-> now, closed |-> TRUE]
  BY DEF Smoothed, r, v
<1>6. AtLeast(v) \in Int /\ AtLeast(v) >= MinVariance
  BY <1>2, <1>4 DEF AtLeast, Larger
<1> HIDE DEF diff
<1>7. Smoothed(base, rate, now) \in Baseline /\ Smoothed(base, rate, now).last = now
  BY <1>3, <1>5, <1>6 DEF Baseline
<1> QED BY <1>7, DetectorAssumption

LEMMA ReturnedIsTask ==
  ASSUME NEW t \in Task, NEW rate, NEW base
  PROVE  /\ Returned(t, rate, base) \in Task
         /\ Returned(t, rate, base).pc = "idle"
         /\ Returned(t, rate, base).now = 0
         /\ Returned(t, rate, base).base = NoBaseline
         /\ Returned(t, rate, base).fair = t.fair
<1> DEFINE reason == Reason(rate, base)
<1>1. reason \in Reasons
  BY DEF Reason, Reasons
<1>2. 0 \in Instants /\ NoBaseline \in Baselines
  BY DetectorAssumption DEF Instants, Baselines
<1>3. Returned(t, rate, base) =
        [pc |-> "idle", proxy |-> t.proxy, now |-> 0, base |-> NoBaseline, count |-> 0,
         rate |-> 0, reason |-> reason, fair |-> t.fair]
  BY DEF Returned
<1> HIDE DEF reason
<1> QED BY <1>1, <1>2, <1>3 DEF Task

Pcs == {"idle", "hmget", "incr", "expire_counter", "hset_init", "expire_baseline",
        "hset_update", "delete"}

LEMMA WaitingIsTask ==
  ASSUME NEW t \in Task, NEW pc \in Pcs, NEW base \in Baselines, NEW count \in Nat,
         NEW rate \in Int
  PROVE  /\ Waiting(t, pc, base, count, rate) \in Task
         /\ Waiting(t, pc, base, count, rate).pc = pc
         /\ Waiting(t, pc, base, count, rate).now = t.now
         /\ Waiting(t, pc, base, count, rate).base = base
         /\ Waiting(t, pc, base, count, rate).fair = t.fair
BY DEF Waiting, Task, Pcs, Reasons

(* An evaluation that knows its count, and how it goes on.                   *)
LEMMA CountedIsTask ==
  ASSUME NEW t \in Task, NEW count \in Nat
  PROVE  /\ Counted(t, count) \in Task
         /\ Counted(t, count).pc \in {"idle", "hset_init", "hset_update"}
         /\ Counted(t, count).now \in {0, t.now}
         /\ Counted(t, count).base = NoBaseline \/ Counted(t, count).base.last = t.now
         /\ Counted(t, count).fair = t.fair
         /\ Counted(t, count).pc = "hset_init" => ~Counted(t, count).base.closed
<1>1. t.now \in Instants /\ t.base \in Baselines
  BY DEF Task
<1>2. CASE t.base = NoBaseline
  <2>1. /\ Default(t.now) \in Baselines /\ Default(t.now).last = t.now
        /\ ~Default(t.now).closed
    BY <1>1, DefaultIsBaseline DEF Baselines
  <2> DEFINE b == Default(t.now)
  <2>2. Counted(t, count) = Waiting(t, "hset_init", b, count, 0)
    BY <1>2 DEF Counted
  <2>3. "hset_init" \in Pcs /\ 0 \in Int
    BY DEF Pcs
  <2> HIDE DEF b
  <2>4. /\ Waiting(t, "hset_init", b, count, 0) \in Task
        /\ Waiting(t, "hset_init", b, count, 0).pc = "hset_init"
        /\ Waiting(t, "hset_init", b, count, 0).now = t.now
        /\ Waiting(t, "hset_init", b, count, 0).base = b
        /\ Waiting(t, "hset_init", b, count, 0).fair = t.fair
    BY <2>1, <2>3, WaitingIsTask DEF b
  <2> QED BY <2>1, <2>2, <2>4 DEF b
<1>3. CASE t.base # NoBaseline
  <2> DEFINE dt == t.now - t.base.last
             rate == Rate(count, dt)
  <2>1. t.base \in Baseline /\ t.base.last \in Int /\ t.now \in Int
    BY <1>1, <1>3 DEF Baselines, Baseline, Instants
  <2>2. dt \in Int /\ rate \in Int
    BY <2>1, RateIsInt
  <2>3. CASE dt >= Interval
    <3> DEFINE b == Smoothed(t.base, rate, t.now)
    <3>1. b \in Baselines /\ b.last = t.now
      BY <1>1, <2>1, <2>2, SmoothedIsBaseline DEF Baselines
    <3>2. Counted(t, count) = Waiting(t, "hset_update", b, 0, rate)
      BY <1>3, <2>3 DEF Counted
    <3> HIDE DEF b, rate
    <3>3. "hset_update" \in Pcs /\ 0 \in Nat
      BY DEF Pcs
    <3>4. /\ Waiting(t, "hset_update", b, 0, rate) \in Task
          /\ Waiting(t, "hset_update", b, 0, rate).pc = "hset_update"
          /\ Waiting(t, "hset_update", b, 0, rate).now = t.now
          /\ Waiting(t, "hset_update", b, 0, rate).base = b
          /\ Waiting(t, "hset_update", b, 0, rate).fair = t.fair
      BY <2>2, <3>1, <3>3, WaitingIsTask
    <3> QED BY <3>1, <3>2, <3>4
  <2>4. CASE ~(dt >= Interval)
    <3>1. Counted(t, count) = Returned(t, rate, t.base)
      BY <1>3, <2>4 DEF Counted
    <3> QED BY <3>1, ReturnedIsTask
  <2> QED BY <2>3, <2>4
<1> QED BY <1>2, <1>3

-------------------------------------------------------------------------------
(***************************************************************************)
(* The steps of an evaluation.                                             *)
(***************************************************************************)

(* The variables other than the evaluations keep their types.                *)
StateTypeOK ==
  /\ clock \in Instants
  /\ baseline \in Baselines
  /\ baselineExpiry \in Nat
  /\ counter \in Nat
  /\ counterExpiry \in Nat
  /\ memory \in [Proxies -> [base : Baselines, count : Nat]]
  /\ arrived \in 0..MaxRequests
  /\ faults \in 0..MaxFaults
  /\ began \in Instants
  /\ lost \subseteq {"expire", "delete"}
  /\ orphaned \in Instants

(* Evaluation r becomes u, and the counter either is new, or stays while r   *)
(* fetches the baseline, or stores one without interval or to be followed by *)
(* a deletion.                                                               *)
LEMMA StepPreserves ==
  ASSUME IInv, StateTypeOK', NEW r \in Tasks, NEW u \in Task,
         task' = [task EXCEPT ![r] = u], clock' = clock,
         u.fair, u.now <= clock, u.base # NoBaseline => u.base.last <= clock,
         u.pc = "hset_init" => ~u.base.closed,
         baseline' # NoBaseline => baseline'.last <= clock,
         counter' > 0 /\ counterExpiry' = Forever /\ "expire" \notin lost'
           => \/ u.pc = "expire_counter"
              \/ /\ counter > 0 /\ counterExpiry = Forever /\ "expire" \notin lost
                 /\ task[r].pc # "expire_counter",
         counter' > 0 /\ "delete" \notin lost'
           => \/ began' = clock
              \/ /\ counter > 0 /\ "delete" \notin lost /\ began' = began
                 /\ task[r].pc # "delete"
                 /\ \/ baseline' = baseline
                    \/ ~baseline'.closed
                    \/ u.pc = "delete" /\ u.base = baseline'
                 /\ u.pc = "incr" => u.base = baseline
  PROVE  IInv'
<1>1. /\ task' \in [Tasks -> Task] /\ task'[r] = u
      /\ \A q \in Tasks : q # r => task'[q] = task[q]
  BY DEF IInv, TypeOK
<1>2. TypeOK'
  BY <1>1 DEF StateTypeOK, TypeOK
<1>3. CountersExpire'
  BY <1>1 DEF IInv, CountersExpire
<1>4. PastEvaluations' /\ FirstBaselines' /\ FairEvaluations'
  BY <1>1 DEF IInv, PastEvaluations, FirstBaselines, FairEvaluations
<1>5. SettledCounters'
  <2>1. ASSUME counter' > 0, "delete" \notin lost', began' = clock, NEW b \in Baselines,
               b # NoBaseline => b.last <= clock
        PROVE  b # NoBaseline /\ b.closed => began' >= b.last
    BY <2>1 DEF Baselines, Baseline, StateTypeOK, Instants
  <2>2. ASSUME counter' > 0, "delete" \notin lost', began' # clock, NEW b,
               ~(\E q \in Tasks : task'[q].pc = "delete" /\ task'[q].base.last = b.last)
        PROVE  Settled(b)
    BY <1>1, <2>2 DEF Settled, Deleting
  <2>3. Settled(baseline)' => Younger(baseline)'
    <3> SUFFICES ASSUME Settled(baseline)' PROVE Younger(baseline)'
      OBVIOUS
    <3>1. counter' > 0 /\ "delete" \notin lost'
          /\ ~(\E q \in Tasks : task'[q].pc = "delete" /\ task'[q].base.last = baseline'.last)
      BY DEF Settled, Deleting
    <3>2. CASE began' = clock
      <4>1. baseline' \in Baselines
        BY DEF StateTypeOK
      <4> QED BY <2>1, <3>1, <3>2, <4>1 DEF Younger
    <3>3. CASE began' # clock
      <4>1. began' = began /\ (baseline' = baseline \/ ~baseline'.closed)
        BY <1>1, <3>1, <3>3
      <4>2. Settled(baseline')
        BY <2>2, <3>1, <3>3
      <4> QED BY <4>1, <4>2 DEF IInv, SettledCounters, Younger
    <3> QED BY <3>2, <3>3
  <2>4. ASSUME NEW q \in Tasks, task'[q].pc = "incr", Settled(task[q].base)'
        PROVE  Younger(task[q].base)'
    <3>1. counter' > 0 /\ "delete" \notin lost'
          /\ ~(\E p \in Tasks : task'[p].pc = "delete" /\ task'[p].base.last = task'[q].base.last)
      BY <2>4 DEF Settled, Deleting
    <3>2. CASE began' = clock
      <4>1. task'[q].base \in Baselines
        BY <1>1 DEF Task
      <4>2. task'[q].base # NoBaseline => task'[q].base.last <= clock
        BY <1>4 DEF PastEvaluations
      <4> QED BY <2>1, <3>1, <3>2, <4>1, <4>2 DEF Younger
    <3>3. CASE began' # clock
      <4>1. began' = began
        BY <3>1, <3>3
      <4>2. Settled(task'[q].base)
        BY <2>2, <3>1, <3>3
      <4>3. CASE q = r
        <5>1. task'[q].base = baseline
          BY <1>1, <2>4, <3>1, <3>3, <4>3
        <5>2. Younger(task'[q].base)
          BY <4>2, <5>1 DEF IInv, SettledCounters
        <5> QED BY <4>1, <5>2 DEF Younger
      <4>4. CASE q # r
        <5>1. task'[q] = task[q]
          BY <1>1, <4>4
        <5>2. Younger(task[q].base)
          BY <2>4, <4>2, <5>1 DEF IInv, SettledCounters
        <5> QED BY <4>1, <5>1, <5>2 DEF Younger
      <4> QED BY <4>3, <4>4
    <3> QED BY <3>2, <3>3
  <2> QED BY <2>3, <2>4 DEF SettledCounters
<1> QED BY <1>2, <1>3, <1>4, <1>5 DEF IInv


LEMMA InitHolds == Init => IInv
<1> SUFFICES ASSUME Init PROVE IInv
  OBVIOUS
<1>0. /\ 0 \in Instants /\ 0 \in Nat /\ NoBaseline \in Baselines /\ Forever \in Nat
      /\ 0 \in 0..MaxRequests /\ 0 \in 0..MaxFaults
  BY DetectorAssumption DEF Instants, Baselines
<1>1. PICK p \in Proxies : task = [r \in Tasks |-> Begun(p, "idle", 0)]
  BY DEF Init
<1>2. /\ Begun(p, "idle", 0) \in Task
      /\ Begun(p, "idle", 0).pc = "idle"
      /\ Begun(p, "idle", 0).now = 0
      /\ Begun(p, "idle", 0).base = NoBaseline
      /\ Begun(p, "idle", 0).fair
  BY <1>0 DEF Begun, Task, Reasons
<1> DEFINE u == Begun(p, "idle", 0)
<1> HIDE DEF u
<1>3. u \in Task /\ u.pc = "idle" /\ u.now = 0 /\ u.base = NoBaseline /\ u.fair
  BY <1>2 DEF u
<1>4. task = [r \in Tasks |-> u]
  BY <1>1 DEF u
<1>5. TypeOK
  BY <1>0, <1>3, <1>4 DEF Init, TypeOK
<1>6. CountersExpire /\ SettledCounters
  BY <1>0 DEF Init, CountersExpire, SettledCounters, Settled
<1>7. PastEvaluations /\ FirstBaselines
  BY <1>0, <1>3, <1>4 DEF Init, PastEvaluations, FirstBaselines
<1>8. FairEvaluations
  BY <1>3, <1>4, Zenon DEF FairEvaluations
<1> QED BY <1>5, <1>6, <1>7, <1>8 DEF IInv

LEMMA ArrivePreserves ==
  ASSUME IInv, NEW r \in Tasks, NEW p \in Proxies, Arrive(r, p)
  PROVE  IInv'
<1> DEFINE u == Begun(p, "hmget", clock)
<1>1. /\ u \in Task /\ u.pc = "hmget" /\ u.now = clock
      /\ u.base = NoBaseline /\ u.fair
  BY DEF Begun, Task, Reasons, IInv, TypeOK, Baselines
<1> HIDE DEF u
<1>2. /\ task' = [task EXCEPT ![r] = u] /\ task[r].pc = "idle"
      /\ UNCHANGED <<clock, orphaned, baseline, baselineExpiry, counter, counterExpiry, began, lost,
                     memory, faults>>
  BY DEF Arrive, u, redis
<1>3. arrived' \in 0..MaxRequests
  BY DetectorAssumption DEF Arrive, IInv, TypeOK
<1>4. StateTypeOK'
  BY <1>2, <1>3 DEF IInv, TypeOK, StateTypeOK
<1>5. u.now <= clock /\ (baseline' # NoBaseline => baseline'.last <= clock)
  BY <1>1, <1>2 DEF IInv, TypeOK, Instants, PastEvaluations
<1> QED BY <1>1, <1>2, <1>4, <1>5, StepPreserves

LEMMA HmgetPreserves ==
  ASSUME IInv, NEW r \in Tasks, Hmget(r)
  PROVE  IInv'
<1> DEFINE u == Waiting(task[r], "incr", baseline, 0, 0)
<1>0. /\ task[r] \in Task /\ "incr" \in Pcs /\ 0 \in Nat /\ 0 \in Int /\ baseline \in Baselines
      /\ task[r].now <= clock
  BY DEF IInv, TypeOK, PastEvaluations, Pcs
<1>1. /\ u \in Task /\ u.pc = "incr" /\ u.now = task[r].now
      /\ u.base = baseline /\ u.fair = task[r].fair
  BY <1>0, WaitingIsTask
<1>3. u.fair
  BY <1>1, Zenon DEF IInv, FairEvaluations
<1> HIDE DEF u
<1>2. /\ task' = [task EXCEPT ![r] = u] /\ task[r].pc = "hmget"
      /\ UNCHANGED <<clock, orphaned, baseline, baselineExpiry, counter, counterExpiry, began, lost,
                     memory, arrived, faults>>
  BY DEF Hmget, u, redis
<1>4. StateTypeOK'
  BY <1>2 DEF IInv, TypeOK, StateTypeOK
<1>5. /\ u.base # NoBaseline => u.base.last <= clock
      /\ baseline' # NoBaseline => baseline'.last <= clock
  BY <1>1, <1>2 DEF IInv, PastEvaluations
<1> QED BY <1>0, <1>1, <1>2, <1>3, <1>4, <1>5, StepPreserves

LEMMA IncrPreserves ==
  ASSUME IInv, NEW r \in Tasks, Incr(r)
  PROVE  IInv'
<1> DEFINE fair == Comparable(task[r]) => began' >= task[r].base.last
           t == [task[r] EXCEPT !.fair = TRUE]
           u == IF First(counter') THEN Waiting(t, "expire_counter", t.base, counter', 0)
                ELSE Counted(t, counter')
<1>0. /\ task[r] \in Task /\ task[r].now <= clock /\ task[r].pc = "incr"
      /\ task[r].base # NoBaseline => task[r].base.last <= clock
  BY DEF IInv, TypeOK, PastEvaluations, Incr
<1>1. /\ counter' = counter + 1 /\ counter' \in Nat
      /\ began' = IF counter = 0 THEN clock ELSE began
      /\ UNCHANGED <<clock, orphaned, baseline, baselineExpiry, counterExpiry, lost, memory, arrived,
                     faults>>
  BY DEF Incr, Increment, IInv, TypeOK
<1>2. fair
  <2> SUFFICES ASSUME Comparable(task[r]) PROVE began' >= task[r].base.last
    OBVIOUS
  <2>1. CASE counter = 0
    BY <1>0, <1>1, <2>1 DEF Comparable, IInv, TypeOK, Instants, Task, Baselines, Baseline
  <2>2. CASE counter # 0
    <3>1. Settled(task[r].base)
      BY <2>2 DEF Comparable, Settled, Deleting, IInv, TypeOK
    <3>2. Younger(task[r].base)
      BY <1>0, <3>1 DEF IInv, SettledCounters
    <3> QED BY <1>1, <2>2, <3>2 DEF Younger, Comparable
  <2> QED BY <2>1, <2>2
<1> HIDE DEF fair
<1>3. t \in Task /\ t.now = task[r].now /\ t.base = task[r].base /\ t.fair
  BY <1>0 DEF Task
<1>4. task' = [task EXCEPT ![r] = u]
  <2> DEFINE t0 == [task[r] EXCEPT !.fair = fair]
  <2>1. fair = TRUE
    BY <1>2 DEF fair
  <2>2. t0 = t
    BY <2>1, Zenon
  <2>3. task' = [task EXCEPT ![r] =
                   IF First(counter') THEN Waiting(t0, "expire_counter", t0.base, counter', 0)
                   ELSE Counted(t0, counter')]
    BY Zenon DEF Incr, fair
  <2> HIDE DEF t0, t
  <2> QED BY <2>2, <2>3, Zenon
<1> HIDE DEF t
<1>5. /\ u \in Task /\ u.now <= clock /\ u.fair /\ u.pc # "incr"
      /\ u.base # NoBaseline => u.base.last <= clock
      /\ u.pc = "hset_init" => ~u.base.closed
      /\ First(counter') => u.pc = "expire_counter"
  <2>1. CASE First(counter')
    <3>1. "expire_counter" \in Pcs /\ 0 \in Int /\ t.base \in Baselines
      BY <1>3 DEF Pcs, Task
    <3> QED BY <1>0, <1>1, <1>3, <2>1, <3>1, WaitingIsTask
  <2>2. CASE ~First(counter')
    <3>1. 0 <= clock
      BY DEF IInv, TypeOK, Instants
    <3> QED BY <1>0, <1>1, <1>3, <2>2, <3>1, CountedIsTask
  <2> QED BY <2>1, <2>2
<1> HIDE DEF u
<1>6. StateTypeOK'
  BY <1>1 DEF IInv, TypeOK, StateTypeOK
<1>7. counter \in Nat /\ (counter = 0 => First(counter'))
  BY <1>1 DEF IInv, TypeOK, First
<1>8. baseline' # NoBaseline => baseline'.last <= clock
  BY <1>1 DEF IInv, PastEvaluations
<1>9. \/ u.pc = "expire_counter" \/ (counter > 0 /\ task[r].pc # "expire_counter")
  BY <1>0, <1>5, <1>7
<1>10. began' = clock \/ (counter > 0 /\ began' = began /\ task[r].pc # "delete")
  BY <1>0, <1>1, <1>7
<1> HIDE DEF t
<1> QED BY <1>1, <1>4, <1>5, <1>6, <1>8, <1>9, <1>10, StepPreserves


(* What IInv says of one evaluation.                                         *)
LEMMA OneTask ==
  ASSUME IInv, NEW r \in Tasks
  PROVE  /\ task[r] \in Task /\ task[r].fair
         /\ task[r].now <= clock /\ 0 <= clock /\ task[r].count \in Nat /\ task[r].rate \in Int
         /\ task[r].base \in Baselines
         /\ task[r].base # NoBaseline => task[r].base.last <= clock
         /\ baseline # NoBaseline => baseline.last <= clock
<1>1. task[r].fair
  BY Zenon DEF IInv, FairEvaluations
<1>2. task[r] \in Task /\ 0 <= clock
  BY DEF IInv, TypeOK, Instants
<1>3. task[r].count \in Nat /\ task[r].rate \in Int /\ task[r].base \in Baselines
  BY <1>2 DEF Task
<1> QED BY <1>1, <1>2, <1>3 DEF IInv, PastEvaluations

LEMMA ExpireCounterPreserves ==
  ASSUME IInv, NEW r \in Tasks, ExpireCounter(r)
  PROVE  IInv'
<1> DEFINE u == Counted(task[r], task[r].count)
<1>1. /\ task[r] \in Task /\ task[r].fair
      /\ task[r].now <= clock /\ 0 <= clock /\ task[r].count \in Nat
      /\ baseline # NoBaseline => baseline.last <= clock
  BY OneTask
<1>2. /\ u \in Task /\ u.now <= clock /\ u.fair /\ u.pc \notin {"incr", "delete"}
      /\ u.base # NoBaseline => u.base.last <= clock
      /\ u.pc = "hset_init" => ~u.base.closed
  BY <1>1, CountedIsTask
<1> HIDE DEF u
<1>3. /\ task' = [task EXCEPT ![r] = u] /\ task[r].pc = "expire_counter"
      /\ counterExpiry' = IF counter = 0 THEN counterExpiry ELSE clock + 3 * Interval
      /\ UNCHANGED <<clock, orphaned, baseline, baselineExpiry, counter, began, lost, memory, arrived,
                     faults>>
  BY DEF ExpireCounter, SetCounterTtl, u
<1>4. clock + 3 * Interval \in Nat /\ clock + 3 * Interval < Forever
  BY DetectorAssumption DEF IInv, TypeOK, Instants
<1>5. StateTypeOK'
  BY <1>3, <1>4 DEF IInv, TypeOK, StateTypeOK
<1>6. ~(counter' > 0 /\ counterExpiry' = Forever)
  BY <1>3, <1>4
<1> QED BY <1>1, <1>2, <1>3, <1>5, <1>6, StepPreserves

LEMMA HsetInitPreserves ==
  ASSUME IInv, NEW r \in Tasks, HsetInit(r)
  PROVE  IInv'
<1> DEFINE u == Waiting(task[r], "expire_baseline", task[r].base, task[r].count, 0)
<1>0. "expire_baseline" \in Pcs /\ 0 \in Int
  BY DEF Pcs
<1>1. /\ task[r] \in Task /\ task[r].fair /\ task[r].base \in Baselines
      /\ task[r].now <= clock /\ task[r].count \in Nat
      /\ task[r].base # NoBaseline => task[r].base.last <= clock
  BY OneTask
<1>2. /\ u \in Task /\ u.now <= clock /\ u.fair /\ u.pc = "expire_baseline"
      /\ u.base = task[r].base
  BY <1>0, <1>1, WaitingIsTask
<1> HIDE DEF u
<1>3. /\ task' = [task EXCEPT ![r] = u] /\ task[r].pc = "hset_init"
      /\ baseline' = task[r].base
      /\ UNCHANGED <<clock, orphaned, baselineExpiry, counter, counterExpiry, began, lost, memory, arrived,
                     faults>>
  BY DEF HsetInit, Store, u
<1>4. ~task[r].base.closed
  BY <1>3 DEF IInv, FirstBaselines
<1>5. StateTypeOK'
  BY <1>1, <1>3 DEF IInv, TypeOK, StateTypeOK
<1> QED BY <1>1, <1>2, <1>3, <1>4, <1>5, StepPreserves

LEMMA ExpireBaselinePreserves ==
  ASSUME IInv, NEW r \in Tasks, ExpireBaseline(r)
  PROVE  IInv'
<1> DEFINE u == Returned(task[r], task[r].count * One, task[r].base)
<1>1. /\ task[r] \in Task /\ task[r].fair /\ 0 <= clock
      /\ baseline # NoBaseline => baseline.last <= clock
  BY OneTask
<1>2. u \in Task /\ u.now = 0 /\ u.fair /\ u.pc = "idle" /\ u.base = NoBaseline
  BY <1>1, ReturnedIsTask
<1> HIDE DEF u
<1>3. /\ task' = [task EXCEPT ![r] = u] /\ task[r].pc = "expire_baseline"
      /\ baselineExpiry' = IF baseline = NoBaseline THEN baselineExpiry ELSE clock + BaselineTtl
      /\ UNCHANGED <<clock, orphaned, baseline, counter, counterExpiry, began, lost, memory, arrived,
                     faults>>
  BY DEF ExpireBaseline, SetBaselineTtl, u
<1>4. clock + BaselineTtl \in Nat
  BY DetectorAssumption DEF IInv, TypeOK, Instants
<1>5. StateTypeOK'
  BY <1>3, <1>4 DEF IInv, TypeOK, StateTypeOK
<1> QED BY <1>1, <1>2, <1>3, <1>5, StepPreserves

LEMMA HsetUpdatePreserves ==
  ASSUME IInv, NEW r \in Tasks, HsetUpdate(r)
  PROVE  IInv'
<1> DEFINE u == Waiting(task[r], "delete", task[r].base, 0, task[r].rate)
<1>0. "delete" \in Pcs /\ 0 \in Nat
  BY DEF Pcs
<1>1. /\ task[r] \in Task /\ task[r].fair /\ task[r].base \in Baselines
      /\ task[r].now <= clock /\ task[r].rate \in Int
      /\ task[r].base # NoBaseline => task[r].base.last <= clock
  BY OneTask
<1>2. /\ u \in Task /\ u.now <= clock /\ u.fair /\ u.pc = "delete"
      /\ u.base = task[r].base
  BY <1>0, <1>1, WaitingIsTask
<1> HIDE DEF u
<1>3. /\ task' = [task EXCEPT ![r] = u] /\ task[r].pc = "hset_update"
      /\ baseline' = task[r].base
      /\ UNCHANGED <<clock, orphaned, baselineExpiry, counter, counterExpiry, began, lost, memory, arrived,
                     faults>>
  BY DEF HsetUpdate, Store, Updated, u
<1>5. StateTypeOK'
  BY <1>1, <1>3 DEF IInv, TypeOK, StateTypeOK
<1> QED BY <1>1, <1>2, <1>3, <1>5, StepPreserves

LEMMA DropTypeOK ==
  Drop => counter' = 0 /\ counterExpiry' \in Nat /\ began' \in Instants /\ lost' = {}
BY DetectorAssumption DEF Drop, Instants

LEMMA DeletePreserves ==
  ASSUME IInv, NEW r \in Tasks, Delete(r)
  PROVE  IInv'
<1> DEFINE u == Returned(task[r], task[r].rate, task[r].base)
<1>1. /\ task[r] \in Task /\ task[r].fair /\ 0 <= clock
      /\ baseline # NoBaseline => baseline.last <= clock
  BY OneTask
<1>2. u \in Task /\ u.now = 0 /\ u.fair /\ u.pc = "idle" /\ u.base = NoBaseline
  BY <1>1, ReturnedIsTask
<1> HIDE DEF u
<1>3. /\ task' = [task EXCEPT ![r] = u] /\ Drop
      /\ UNCHANGED <<clock, orphaned, baseline, baselineExpiry, memory, arrived, faults>>
  BY DEF Delete, u
<1>4. counter' = 0 /\ counterExpiry' \in Nat /\ began' \in Instants /\ lost' = {}
  BY <1>3, DropTypeOK
<1>5. StateTypeOK'
  BY <1>3, <1>4 DEF IInv, TypeOK, StateTypeOK
<1>6. task' = [task EXCEPT ![r] = u] /\ clock' = clock /\ baseline' = baseline
  BY <1>3
<1>7. ~(counter' > 0)
  BY <1>4
<1> QED BY <1>1, <1>2, <1>5, <1>6, <1>7, StepPreserves

(* An evaluation whose Redis fails goes on in the proxy's memory.            *)
LEMMA InMemoryReturns ==
  ASSUME TypeOK, NEW r \in Tasks, InMemory(r)
  PROVE  /\ memory' \in [Proxies -> [base : Baselines, count : Nat]]
         /\ \E rate, base : task' = [task EXCEPT ![r] = Returned(task[r], rate, base)]
<1> DEFINE t == task[r]
           m == memory[t.proxy]
           count == m.count + 1
           dt == t.now - m.base.last
           rate == Rate(count, dt)
<1>1. /\ t.proxy \in Proxies /\ t.now \in Instants /\ t.now \in Int
      /\ m.base \in Baselines /\ count \in Nat
      /\ memory \in [Proxies -> [base : Baselines, count : Nat]]
  BY DEF TypeOK, Task, Instants
<1>2. CASE m.base = NoBaseline
  <2> DEFINE b == Default(t.now)
  <2>1. b \in Baselines
    BY <1>1, DefaultIsBaseline DEF Baselines
  <2>2. /\ memory' = [memory EXCEPT ![t.proxy] = [base |-> b, count |-> count]]
        /\ task' = [task EXCEPT ![r] = Returned(t, count * One, b)]
    BY <1>2 DEF InMemory
  <2> HIDE DEF b, count, m, t
  <2>3. memory' \in [Proxies -> [base : Baselines, count : Nat]]
    BY <1>1, <2>1, <2>2
  <2> QED BY <2>2, <2>3 DEF t
<1>3. CASE m.base # NoBaseline /\ dt >= Interval
  <2> DEFINE b == Smoothed(m.base, rate, t.now)
  <2>1. b \in Baselines
    <3>1. m.base \in Baseline /\ dt \in Int
      BY <1>1, <1>3 DEF Baselines, Baseline, Instants
    <3>2. rate \in Int
      BY <1>1, <3>1, RateIsInt
    <3> HIDE DEF rate, m, t, dt
    <3> QED BY <1>1, <3>1, <3>2, SmoothedIsBaseline DEF Baselines
  <2>2. /\ memory' = [memory EXCEPT ![t.proxy] = [base |-> b, count |-> 0]]
        /\ task' = [task EXCEPT ![r] = Returned(t, rate, b)]
    BY <1>3 DEF InMemory
  <2> HIDE DEF b, count, m, t, rate
  <2>3. memory' \in [Proxies -> [base : Baselines, count : Nat]]
    BY <1>1, <2>1, <2>2
  <2> QED BY <2>2, <2>3 DEF t
<1>4. CASE m.base # NoBaseline /\ ~(dt >= Interval)
  <2>1. /\ memory' = [memory EXCEPT ![t.proxy].count = count]
        /\ task' = [task EXCEPT ![r] = Returned(t, rate, m.base)]
    BY <1>4 DEF InMemory
  <2> HIDE DEF count, t, rate
  <2>2. memory' \in [Proxies -> [base : Baselines, count : Nat]]
    BY <1>1, <2>1
  <2> QED BY <2>1, <2>2 DEF t
<1> QED BY <1>2, <1>3, <1>4

LEMMA FaultsCounted ==
  ASSUME TypeOK, faults < MaxFaults, faults' = faults + 1
  PROVE  faults' \in 0..MaxFaults
BY DetectorAssumption DEF TypeOK

LEMMA CountingFailsPreserves ==
  ASSUME IInv, NEW r \in Tasks, CountingFails(r)
  PROVE  IInv'
<1>0. TypeOK
  BY DEF IInv
<1>1. /\ memory' \in [Proxies -> [base : Baselines, count : Nat]]
      /\ \E rate, base : task' = [task EXCEPT ![r] = Returned(task[r], rate, base)]
  BY <1>0, InMemoryReturns DEF CountingFails
<1>2. PICK rate, base : task' = [task EXCEPT ![r] = Returned(task[r], rate, base)]
  BY <1>1
<1> DEFINE u == Returned(task[r], rate, base)
<1>3. /\ task[r] \in Task /\ task[r].fair /\ 0 <= clock
      /\ baseline # NoBaseline => baseline.last <= clock
  BY OneTask
<1>4. u \in Task /\ u.now = 0 /\ u.fair /\ u.pc = "idle" /\ u.base = NoBaseline
  BY <1>3, ReturnedIsTask
<1> HIDE DEF u
<1>5. task' = [task EXCEPT ![r] = u]
  BY <1>2 DEF u
<1>6. UNCHANGED <<clock, orphaned, arrived, baseline>> /\ faults' \in 0..MaxFaults
  BY <1>0, FaultsCounted DEF CountingFails, redis, Increment, SetCounterTtl
<1>7. /\ task[r].pc # "delete"
      /\ counter' \in Nat /\ counterExpiry' \in Nat /\ baselineExpiry' = baselineExpiry
      /\ began' \in Instants /\ lost' \subseteq {"expire", "delete"}
      /\ counter' > 0 /\ counterExpiry' = Forever /\ "expire" \notin lost'
           => /\ counter > 0 /\ counterExpiry = Forever /\ "expire" \notin lost
              /\ task[r].pc # "expire_counter"
      /\ counter' > 0 /\ "delete" \notin lost'
           => began' = clock \/ (counter > 0 /\ "delete" \notin lost /\ began' = began)
  <2>0. counter \in Nat /\ clock \in Instants /\ counterExpiry \in Nat /\ began \in Instants
        /\ lost \subseteq {"expire", "delete"}
    BY <1>0 DEF TypeOK
  <2>1. CASE task[r].pc = "hmget" /\ UNCHANGED redis
    BY <2>0, <2>1 DEF redis
  <2>2. CASE task[r].pc = "incr" /\ Increment /\ lost' = IF counter = 0 THEN {"expire"} ELSE lost
    BY <2>0, <2>2 DEF Increment
  <2>3. CASE task[r].pc = "incr" /\ UNCHANGED redis
    BY <2>0, <2>3 DEF redis
  <2>4. CASE task[r].pc = "expire_counter" /\ SetCounterTtl
    <3>1. clock + 3 * Interval \in Nat /\ clock + 3 * Interval < Forever
      BY <2>0, DetectorAssumption DEF Instants
    <3> QED BY <2>0, <2>4, <3>1 DEF SetCounterTtl
  <2>5. CASE /\ task[r].pc = "expire_counter"
             /\ lost' = IF counter = 0 THEN lost ELSE lost \union {"expire"}
             /\ UNCHANGED <<baseline, baselineExpiry, counter, counterExpiry, began>>
    BY <2>0, <2>5
  <2> QED BY <2>1, <2>2, <2>3, <2>4, <2>5 DEF CountingFails
<1>8. StateTypeOK'
  BY <1>0, <1>1, <1>6, <1>7 DEF TypeOK, StateTypeOK
<1> QED BY <1>3, <1>4, <1>5, <1>6, <1>7, <1>8, StepPreserves

LEMMA InitFailsPreserves ==
  ASSUME IInv, NEW r \in Tasks, InitFails(r)
  PROVE  IInv'
<1>0. TypeOK
  BY DEF IInv
<1> DEFINE u == Returned(task[r], 0, task[r].base)
<1>1. /\ task[r] \in Task /\ task[r].fair /\ 0 <= clock /\ task[r].base \in Baselines
      /\ task[r].base # NoBaseline => task[r].base.last <= clock
      /\ baseline # NoBaseline => baseline.last <= clock
  BY OneTask
<1>2. u \in Task /\ u.now = 0 /\ u.fair /\ u.pc = "idle" /\ u.base = NoBaseline
  BY <1>1, ReturnedIsTask
<1> HIDE DEF u
<1>3. /\ task' = [task EXCEPT ![r] = u] /\ task[r].pc \in {"hset_init", "expire_baseline"}
      /\ UNCHANGED <<clock, orphaned, counter, counterExpiry, began, lost, memory, arrived>>
      /\ faults' \in 0..MaxFaults
  BY <1>0, FaultsCounted DEF InitFails, Store, SetBaselineTtl, redis, u
<1>4. baseline' = baseline \/ (baseline' = task[r].base /\ ~task[r].base.closed)
  BY DEF InitFails, Store, SetBaselineTtl, redis, IInv, FirstBaselines
<1>5. baselineExpiry' \in Nat
  <2>1. clock + BaselineTtl \in Nat /\ baselineExpiry \in Nat
    BY <1>0, DetectorAssumption DEF TypeOK, Instants
  <2> QED BY <2>1 DEF InitFails, Store, SetBaselineTtl, redis
<1>6. StateTypeOK'
  BY <1>0, <1>1, <1>3, <1>4, <1>5 DEF TypeOK, StateTypeOK
<1>7. baseline' # NoBaseline => baseline'.last <= clock
  BY <1>1, <1>4
<1> QED BY <1>1, <1>2, <1>3, <1>4, <1>6, <1>7, StepPreserves

LEMMA UpdateFailsPreserves ==
  ASSUME IInv, NEW r \in Tasks, UpdateFails(r)
  PROVE  IInv'
<1>0. TypeOK
  BY DEF IInv
<1> DEFINE u == Returned(task[r], task[r].rate, task[r].base)
<1>1. /\ task[r] \in Task /\ task[r].fair /\ 0 <= clock /\ task[r].base \in Baselines
      /\ task[r].base # NoBaseline => task[r].base.last <= clock
      /\ baseline # NoBaseline => baseline.last <= clock
  BY OneTask
<1>2. u \in Task /\ u.now = 0 /\ u.fair /\ u.pc = "idle" /\ u.base = NoBaseline
  BY <1>1, ReturnedIsTask
<1> HIDE DEF u
<1>3. /\ task' = [task EXCEPT ![r] = u]
      /\ clock' = clock /\ arrived' = arrived /\ memory' = memory
      /\ faults' \in 0..MaxFaults /\ orphaned' = orphaned
  BY <1>0, FaultsCounted DEF UpdateFails, u
<1>4. /\ baseline' = baseline \/ baseline' = task[r].base
      /\ baselineExpiry' = baselineExpiry
      /\ counter' \in Nat /\ counterExpiry' \in Nat /\ began' \in Instants
      /\ lost' \subseteq {"expire", "delete"}
      /\ counter' > 0 /\ counterExpiry' = Forever /\ "expire" \notin lost'
           => /\ counter > 0 /\ counterExpiry = Forever /\ "expire" \notin lost
              /\ task[r].pc # "expire_counter"
      /\ counter' > 0 /\ "delete" \notin lost' /\ task[r].pc = "delete" => FALSE
      /\ counter' > 0 /\ "delete" \notin lost'
           => /\ counter > 0 /\ "delete" \notin lost /\ began' = began
              /\ baseline' = baseline
  <2>0. counter \in Nat /\ counterExpiry \in Nat /\ began \in Instants
        /\ lost \subseteq {"expire", "delete"}
    BY <1>0 DEF TypeOK
  <2>1. CASE /\ task[r].pc = "hset_update"
             /\ baseline' = task[r].base
             /\ lost' = IF counter = 0 THEN lost ELSE lost \union {"delete"}
             /\ UNCHANGED <<baselineExpiry, counter, counterExpiry, began>>
    BY <2>0, <2>1
  <2>2. CASE task[r].pc = "hset_update" /\ UNCHANGED redis
    BY <2>0, <2>2 DEF redis
  <2>3. CASE task[r].pc = "delete" /\ Drop /\ UNCHANGED <<baseline, baselineExpiry>>
    <3>1. counter' = 0 /\ counterExpiry' \in Nat /\ began' \in Instants /\ lost' = {}
      BY <2>3, DropTypeOK
    <3> QED BY <2>3, <3>1
  <2>4. CASE /\ task[r].pc = "delete"
             /\ lost' = IF counter = 0 THEN lost ELSE lost \union {"delete"}
             /\ UNCHANGED <<baseline, baselineExpiry, counter, counterExpiry, began>>
    BY <2>0, <2>4
  <2> QED BY <2>1, <2>2, <2>3, <2>4 DEF UpdateFails
<1>5. StateTypeOK'
  BY <1>0, <1>1, <1>3, <1>4 DEF TypeOK, StateTypeOK
<1>6. baseline' # NoBaseline => baseline'.last <= clock
  BY <1>1, <1>4
<1> QED BY <1>1, <1>2, <1>3, <1>4, <1>5, <1>6, StepPreserves

-------------------------------------------------------------------------------
(***************************************************************************)
(* The environment, and the theorems.                                      *)
(***************************************************************************)

LEMMA RestartProxyPreserves ==
  ASSUME IInv, NEW p \in Proxies, RestartProxy(p)
  PROVE  IInv'
<1>0. TypeOK
  BY DEF IInv
<1> DEFINE u(q) == Returned(task[q], 0, Default(0))
<1>1. \A q \in Tasks : /\ u(q) \in Task /\ u(q).now = 0 /\ u(q).fair = task[q].fair
                       /\ u(q).pc = "idle" /\ u(q).base = NoBaseline
  <2> TAKE q \in Tasks
  <2>1. task[q] \in Task
    BY <1>0 DEF TypeOK
  <2> QED BY <2>1, ReturnedIsTask
<1> HIDE DEF u
<1>2. /\ task' = [q \in Tasks |-> IF task[q].proxy = p THEN u(q) ELSE task[q]]
      /\ UNCHANGED <<clock, orphaned, baseline, baselineExpiry, counter, counterExpiry, began, arrived>>
      /\ lost' = IF counter = 0 THEN lost ELSE lost \union Owed(p)
  BY DEF RestartProxy, u
<1>3. /\ task' \in [Tasks -> Task]
      /\ \A q \in Tasks : task'[q] = task[q] \/ (task[q].proxy = p /\ task'[q] = u(q))
  BY <1>0, <1>1, <1>2 DEF TypeOK
<1>4. memory' \in [Proxies -> [base : Baselines, count : Nat]]
  <2> DEFINE m == [base |-> NoBaseline, count |-> 0]
  <2>1. m \in [base : Baselines, count : Nat]
    BY DEF Baselines
  <2>2. memory' = [memory EXCEPT ![p] = m]
    BY DEF RestartProxy
  <2> HIDE DEF m
  <2> QED BY <1>0, <2>1, <2>2 DEF TypeOK
<1>5. faults' \in 0..MaxFaults
  BY <1>0, FaultsCounted DEF RestartProxy
<1>6. lost' \subseteq {"expire", "delete"} /\ lost \subseteq lost'
  BY <1>0, <1>2 DEF TypeOK, Owed
<1>7. TypeOK'
  BY <1>0, <1>2, <1>3, <1>4, <1>5, <1>6 DEF TypeOK
<1>8. CountersExpire'
  <2> SUFFICES ASSUME counter > 0, counterExpiry = Forever, "expire" \notin lost'
               PROVE  \E q \in Tasks : task'[q].pc = "expire_counter"
    BY <1>2 DEF CountersExpire
  <2>1. PICK q \in Tasks : task[q].pc = "expire_counter"
    BY <1>6 DEF IInv, CountersExpire
  <2>2. counter # 0
    BY <1>0 DEF TypeOK
  <2>3. task[q].proxy # p
    BY <1>2, <2>1, <2>2 DEF Owed
  <2> QED BY <1>3, <2>1, <2>3
<1>9. SettledCounters'
  <2>1. ASSUME NEW b, counter > 0, "delete" \notin lost',
               ~(\E q \in Tasks : task'[q].pc = "delete" /\ task'[q].base.last = b.last)
        PROVE  Settled(b)
    <3>1. counter # 0 /\ "delete" \notin lost
      BY <1>0, <1>6, <2>1 DEF TypeOK
    <3>2. ASSUME NEW q \in Tasks, task[q].pc = "delete", task[q].base.last = b.last PROVE FALSE
      <4>1. task[q].proxy = p
        BY <1>3, <2>1, <3>2
      <4>2. "delete" \in Owed(p)
        BY <3>2, <4>1 DEF Owed
      <4> QED BY <1>2, <2>1, <3>1, <4>2
    <3> QED BY <2>1, <3>1, <3>2 DEF Settled, Deleting
  <2>2. Settled(baseline)' => Younger(baseline)'
    <3>1. Settled(baseline)' => Settled(baseline)
      BY <1>2, <2>1 DEF Settled, Deleting
    <3> QED BY <1>2, <3>1 DEF IInv, SettledCounters, Younger
  <2>3. ASSUME NEW q \in Tasks, task'[q].pc = "incr", Settled(task[q].base)'
        PROVE  Younger(task[q].base)'
    <3>1. task'[q] = task[q]
      BY <1>1, <1>3, <2>3
    <3>2. Settled(task[q].base)
      BY <1>2, <2>1, <2>3, <3>1 DEF Settled, Deleting
    <3>3. Younger(task[q].base)
      BY <2>3, <3>1, <3>2 DEF IInv, SettledCounters
    <3> QED BY <1>2, <3>1, <3>3 DEF Younger
  <2> QED BY <2>2, <2>3 DEF SettledCounters
<1>10. FairEvaluations'
  <2> SUFFICES ASSUME NEW q \in Tasks PROVE task'[q].fair
    BY DEF FairEvaluations
  <2>1. task[q].fair
    BY Zenon DEF IInv, FairEvaluations
  <2> QED BY <1>1, <1>3, <2>1
<1>11. PastEvaluations' /\ FirstBaselines'
  <2>1. 0 <= clock
    BY <1>0 DEF TypeOK, Instants
  <2> QED BY <1>1, <1>2, <1>3, <2>1 DEF IInv, PastEvaluations, FirstBaselines
<1> QED BY <1>7, <1>8, <1>9, <1>10, <1>11 DEF IInv

LEMMA LoseRedisPreserves ==
  ASSUME IInv, LoseRedis
  PROVE  IInv'
<1>0. TypeOK
  BY DEF IInv
<1>1. /\ counter' = 0 /\ counterExpiry' \in Nat /\ began' \in Instants /\ lost' = {}
      /\ baseline' = NoBaseline /\ baselineExpiry' \in Nat /\ faults' \in 0..MaxFaults
      /\ clock' = clock /\ memory' = memory /\ task' = task /\ arrived' = arrived
      /\ orphaned' = orphaned
  BY <1>0, DropTypeOK, FaultsCounted, DetectorAssumption DEF LoseRedis
<1>2. TypeOK'
  BY <1>0, <1>1 DEF TypeOK, Baselines
<1>3. CountersExpire' /\ SettledCounters'
  BY <1>1 DEF CountersExpire, SettledCounters, Settled
<1>4. PastEvaluations' /\ FirstBaselines'
  BY <1>1 DEF IInv, PastEvaluations, FirstBaselines
<1>5. FairEvaluations'
  BY <1>1, Zenon DEF IInv, FairEvaluations
<1> QED BY <1>2, <1>3, <1>4, <1>5 DEF IInv

LEMMA TickPreserves ==
  ASSUME IInv, Tick
  PROVE  IInv'
<1>0. TypeOK
  BY DEF IInv
<1>1. /\ memory' = memory /\ task' = task /\ arrived' = arrived /\ faults' = faults
      /\ clock' = clock + 1 /\ clock' \in Instants /\ clock \in Int
  BY <1>0, DetectorAssumption DEF Tick, TypeOK, Instants
<1>2. \/ baseline' = NoBaseline /\ baselineExpiry' = Forever
      \/ baseline' = baseline /\ baselineExpiry' = baselineExpiry
  BY DEF Tick
<1>3. \/ counter' = 0 /\ counterExpiry' \in Nat /\ began' \in Instants /\ lost' = {}
      \/ counter' = counter /\ counterExpiry' = counterExpiry /\ began' = began /\ lost' = lost
  BY DropTypeOK DEF Tick
<1>4. TypeOK'
  <2>0. NoBaseline \in Baselines /\ Forever \in Nat
    BY DetectorAssumption DEF Baselines
  <2>1. baseline' \in Baselines /\ baselineExpiry' \in Nat
    BY <1>0, <1>2, <2>0 DEF TypeOK
  <2>2. /\ counter' \in Nat /\ counterExpiry' \in Nat /\ began' \in Instants
        /\ lost' \subseteq {"expire", "delete"}
    <3>1. /\ counter \in Nat /\ counterExpiry \in Nat /\ began \in Instants
          /\ lost \subseteq {"expire", "delete"}
      BY <1>0 DEF TypeOK
    <3>2. CASE lost' = {} /\ counter' = 0 /\ counterExpiry' \in Nat /\ began' \in Instants
      BY <3>2
    <3> QED BY <1>3, <3>1, <3>2
  <2>3. orphaned' \in Instants
    BY <1>0, <1>1 DEF TypeOK, Tick
  <2> QED BY <1>0, <1>1, <2>1, <2>2, <2>3 DEF TypeOK
<1>5. CountersExpire'
  BY <1>1, <1>3 DEF IInv, CountersExpire
<1>6. SettledCounters'
  BY <1>1, <1>2, <1>3 DEF IInv, SettledCounters, Settled, Deleting, Younger
<1>7. PastEvaluations' /\ FirstBaselines'
  <2>1. baseline \in Baselines /\ \A q \in Tasks : task[q].base \in Baselines /\ task[q].now \in Int
    BY <1>0 DEF TypeOK, Task, Instants
  <2>2. \A b \in Baselines : b # NoBaseline => b.last \in Int
    BY DEF Baselines, Baseline, Instants
  <2> QED BY <1>1, <1>2, <2>1, <2>2 DEF IInv, PastEvaluations, FirstBaselines
<1>8. FairEvaluations'
  BY <1>1, Zenon DEF IInv, FairEvaluations
<1> QED BY <1>4, <1>5, <1>6, <1>7, <1>8 DEF IInv

LEMMA StutterPreserves ==
  ASSUME IInv, UNCHANGED vars
  PROVE  IInv'
<1>1. /\ clock' = clock /\ baseline' = baseline /\ baselineExpiry' = baselineExpiry
      /\ counter' = counter /\ counterExpiry' = counterExpiry /\ memory' = memory
      /\ task' = task /\ arrived' = arrived /\ faults' = faults /\ began' = began /\ lost' = lost
      /\ orphaned' = orphaned
  BY DEF vars, redis
<1>2. TypeOK' /\ CountersExpire'
  BY <1>1 DEF IInv, TypeOK, CountersExpire
<1>3. SettledCounters'
  BY <1>1 DEF IInv, SettledCounters, Settled, Deleting, Younger
<1>4. PastEvaluations' /\ FirstBaselines'
  BY <1>1 DEF IInv, PastEvaluations, FirstBaselines
<1>5. FairEvaluations'
  BY <1>1, Zenon DEF IInv, FairEvaluations
<1> QED BY <1>2, <1>3, <1>4, <1>5 DEF IInv

LEMMA NextPreserves ==
  IInv /\ [Next]_vars => IInv'
<1> SUFFICES ASSUME IInv, [Next]_vars PROVE IInv'
  OBVIOUS
<1>1. CASE \E r \in Tasks, p \in Proxies : Arrive(r, p)
  BY <1>1, ArrivePreserves
<1>2. ASSUME NEW r \in Tasks, Answered(r) PROVE IInv'
  BY <1>2, HmgetPreserves, IncrPreserves, ExpireCounterPreserves, HsetInitPreserves,
     ExpireBaselinePreserves, HsetUpdatePreserves, DeletePreserves DEF Answered
<1>3. ASSUME NEW r \in Tasks, Failed(r) PROVE IInv'
  BY <1>3, CountingFailsPreserves, InitFailsPreserves, UpdateFailsPreserves DEF Failed
<1>4. CASE \E p \in Proxies : RestartProxy(p)
  BY <1>4, RestartProxyPreserves
<1>5. CASE LoseRedis
  BY <1>5, LoseRedisPreserves
<1>6. CASE Tick
  BY <1>6, TickPreserves
<1>7. CASE UNCHANGED vars
  BY <1>7, StutterPreserves
<1> QED BY <1>1, <1>2, <1>3, <1>4, <1>5, <1>6, <1>7 DEF Next

LEMMA Invariance == Spec => []IInv
<1> QED BY InitHolds, NextPreserves, PTL DEF Spec

(* Whatever the order of the commands and the clocks of the proxies, the     *)
(* baselines of Redis and of the memories keep a variance of at least 0.1.   *)
THEOREM TypeCorrect == Spec => []TypeOK
<1>1. IInv => TypeOK
  BY DEF IInv
<1> QED BY <1>1, Invariance, PTL

(* An evaluation counter expires, or the evaluation that created it has its  *)
(* EXPIRE still to come, unless a fault has prevented that.                  *)
THEOREM CountersDoExpire == Spec => []CountersExpire
<1>1. IInv => CountersExpire
  BY DEF IInv
<1> QED BY <1>1, Invariance, PTL

(* Against a baseline that an interval has closed and whose DELETE has been  *)
(* executed, an anomaly is reported for requests made since its update only, *)
(* for any number of evaluations that close an interval at the same time.    *)
THEOREM AnomaliesAreFair == Spec => []AnomaliesHaveCause
<1>1. IInv => AnomaliesHaveCause
  BY Zenon DEF IInv, FairEvaluations, AnomaliesHaveCause
<1> QED BY <1>1, Invariance, PTL

-------------------------------------------------------------------------------
(***************************************************************************)
(* Baselines expire.                                                       *)
(***************************************************************************)

(* Without fault or orphan, a baseline that an evaluation is about to update *)
(* is still there, so that its HSET keeps a TTL.                             *)
UpdatesKeepTtl ==
  faults = 0 /\ orphaned = 0 => \A r \in Tasks : Updating(r) => baseline # NoBaseline

(* What is stored is a baseline. *)
StoresBaseline(t) == t.pc \in {"hset_init", "hset_update"} => t.base # NoBaseline

BaselineIInv ==
  /\ BaselinesExpire
  /\ UpdatesKeepTtl
  /\ \A r \in Tasks : StoresBaseline(task[r])

LEMMA CountedStores ==
  ASSUME NEW t, NEW count \in Nat, t.now \in Instants, t.base \in Baselines
  PROVE  /\ StoresBaseline(Counted(t, count))
         /\ Counted(t, count).pc \in {"idle", "hset_init", "hset_update"}
         /\ Counted(t, count).pc = "hset_update" => t.base # NoBaseline
<1>1. CASE t.base = NoBaseline
  BY <1>1, DefaultIsBaseline DEF Counted, Waiting, StoresBaseline
<1>2. CASE t.base # NoBaseline
  <2> DEFINE dt == t.now - t.base.last
             rate == Rate(count, dt)
             b == Smoothed(t.base, rate, t.now)
  <2>1. t.base \in Baseline /\ dt \in Int
    BY <1>2 DEF Baselines, Baseline, Instants
  <2>2. b # NoBaseline
    BY <2>1, RateIsInt, SmoothedIsBaseline
  <2>3. Counted(t, count) = IF dt >= Interval THEN Waiting(t, "hset_update", b, 0, rate)
                                              ELSE Returned(t, rate, t.base)
    BY <1>2 DEF Counted
  <2> HIDE DEF b, dt, rate
  <2> QED BY <1>2, <2>2, <2>3 DEF Waiting, Returned, StoresBaseline
<1> QED BY <1>1, <1>2

(* Evaluation r becomes u and no command fails.  If it updates a baseline    *)
(* the baseline is there; and a baseline without a TTL either is its own to  *)
(* expire, or was there, without a TTL, and another's.                       *)
LEMMA StepKeepsTtl ==
  ASSUME BaselineIInv, TypeOK, NEW r \in Tasks, NEW u, task' = [task EXCEPT ![r] = u],
         UNCHANGED <<faults, orphaned>>, StoresBaseline(u),
         faults = 0 /\ orphaned = 0 =>
           /\ baseline # NoBaseline => baseline' # NoBaseline
           /\ u.pc \in {"incr", "expire_counter", "hset_update"} /\ u.base # NoBaseline
                => baseline' # NoBaseline
           /\ baseline' # NoBaseline /\ baselineExpiry' = Forever
                => \/ u.pc = "expire_baseline"
                   \/ /\ baseline # NoBaseline /\ baselineExpiry = Forever
                      /\ task[r].pc # "expire_baseline"
  PROVE  BaselineIInv'
<1>1. task'[r] = u /\ \A q \in Tasks : q # r => task'[q] = task[q]
  BY DEF TypeOK
<1>2. \A q \in Tasks : StoresBaseline(task'[q])
  BY <1>1 DEF BaselineIInv
<1>3. UpdatesKeepTtl'
  BY <1>1 DEF BaselineIInv, UpdatesKeepTtl, Updating
<1>4. BaselinesExpire'
  BY <1>1 DEF BaselineIInv, BaselinesExpire
<1> QED BY <1>2, <1>3, <1>4 DEF BaselineIInv, StoresBaseline

(* Evaluation r becomes u, which has nothing to store, and there is a fault. *)
LEMMA FaultExcuses ==
  ASSUME BaselineIInv, TypeOK, faults' = faults + 1,
         \A q \in Tasks : task'[q] = task[q] \/ task'[q].pc = "idle"
  PROVE  BaselineIInv'
<1>1. faults' # 0
  BY DEF TypeOK
<1>2. \A q \in Tasks : StoresBaseline(task'[q])
  BY DEF BaselineIInv, StoresBaseline
<1> QED BY <1>1, <1>2 DEF BaselineIInv, BaselinesExpire, UpdatesKeepTtl, StoresBaseline

LEMMA BaselineInitHolds == Init => BaselineIInv
<1> SUFFICES ASSUME Init PROVE BaselineIInv
  OBVIOUS
<1>1. \A r \in Tasks : task[r].pc = "idle"
  BY DEF Init, Begun
<1> QED BY <1>1 DEF Init, BaselineIInv, BaselinesExpire, UpdatesKeepTtl, Updating, StoresBaseline

(* The commands of an evaluation that are answered.                          *)
LEMMA AnswerKeepsTtl ==
  ASSUME IInv, BaselineIInv, NEW r \in Tasks, Answered(r)
  PROVE  BaselineIInv'
<1> USE DEF StoresBaseline
<1>0. /\ TypeOK /\ task[r] \in Task /\ task[r].now \in Instants /\ task[r].base \in Baselines
      /\ task[r].count \in Nat
  BY DEF IInv, TypeOK, Task
<1>1. CASE Hmget(r)
  <2> DEFINE u == Waiting(task[r], "incr", baseline, 0, 0)
  <2>1. u.pc = "incr" /\ u.base = baseline
    BY DEF Waiting
  <2>2. task' = [task EXCEPT ![r] = u] /\ task[r].pc = "hmget"
    BY <1>1 DEF Hmget
  <2> HIDE DEF u
  <2>3. UNCHANGED <<faults, orphaned, baseline, baselineExpiry>>
    BY <1>1 DEF Hmget, redis
  <2> QED BY <1>0, <2>1, <2>2, <2>3, StepKeepsTtl
<1>2. CASE Incr(r)
  <2> DEFINE t == [task[r] EXCEPT !.fair = Comparable(task[r]) => began' >= task[r].base.last]
             u == IF First(counter') THEN Waiting(t, "expire_counter", t.base, counter', 0)
                  ELSE Counted(t, counter')
  <2>1. /\ task' = [task EXCEPT ![r] = u] /\ task[r].pc = "incr" /\ counter' \in Nat
        /\ UNCHANGED <<faults, orphaned, baseline, baselineExpiry>>
    BY <1>0, <1>2 DEF Incr, Increment, TypeOK
  <2>2. t.now \in Instants /\ t.base = task[r].base
    BY <1>0 DEF Task
  <2> HIDE DEF t
  <2>3. CASE First(counter')
    <3>1. u.pc = "expire_counter" /\ u.base = task[r].base
      BY <2>2, <2>3 DEF Waiting
    <3> HIDE DEF u
    <3>2. task[r].base # NoBaseline /\ faults = 0 /\ orphaned = 0 => baseline # NoBaseline
      BY <2>1 DEF BaselineIInv, UpdatesKeepTtl, Updating
    <3> QED BY <1>0, <2>1, <3>1, <3>2, StepKeepsTtl
  <2>4. CASE ~First(counter')
    <3>1. /\ StoresBaseline(u) /\ u.pc \in {"idle", "hset_init", "hset_update"}
          /\ u.pc = "hset_update" => task[r].base # NoBaseline
      BY <1>0, <2>1, <2>2, <2>4, CountedStores
    <3> HIDE DEF u
    <3>2. task[r].base # NoBaseline /\ faults = 0 /\ orphaned = 0 => baseline # NoBaseline
      BY <2>1 DEF BaselineIInv, UpdatesKeepTtl, Updating
    <3> QED BY <1>0, <2>1, <3>1, <3>2, StepKeepsTtl
  <2> QED BY <2>3, <2>4
<1>3. CASE ExpireCounter(r)
  <2> DEFINE u == Counted(task[r], task[r].count)
  <2>1. /\ task' = [task EXCEPT ![r] = u] /\ task[r].pc = "expire_counter"
        /\ UNCHANGED <<faults, orphaned, baseline, baselineExpiry>>
    BY <1>3 DEF ExpireCounter, SetCounterTtl
  <2>2. /\ StoresBaseline(u) /\ u.pc \in {"idle", "hset_init", "hset_update"}
        /\ u.pc = "hset_update" => task[r].base # NoBaseline
    BY <1>0, CountedStores
  <2> HIDE DEF u
  <2>3. task[r].base # NoBaseline /\ faults = 0 /\ orphaned = 0 => baseline # NoBaseline
    BY <2>1 DEF BaselineIInv, UpdatesKeepTtl, Updating
  <2> QED BY <1>0, <2>1, <2>2, <2>3, StepKeepsTtl
<1>4. CASE HsetInit(r)
  <2> DEFINE u == Waiting(task[r], "expire_baseline", task[r].base, task[r].count, 0)
  <2>1. u.pc = "expire_baseline"
    BY DEF Waiting
  <2>2. /\ task' = [task EXCEPT ![r] = u] /\ task[r].pc = "hset_init"
        /\ baseline' = task[r].base /\ UNCHANGED <<faults, orphaned>>
    BY <1>4 DEF HsetInit, Store
  <2> HIDE DEF u
  <2>3. baseline' # NoBaseline
    BY <2>2 DEF BaselineIInv
  <2> QED BY <1>0, <2>1, <2>2, <2>3, StepKeepsTtl
<1>5. CASE ExpireBaseline(r)
  <2> DEFINE u == Returned(task[r], task[r].count * One, task[r].base)
  <2>1. u.pc = "idle"
    BY DEF Returned
  <2>2. /\ task' = [task EXCEPT ![r] = u] /\ UNCHANGED <<faults, orphaned, baseline>>
        /\ baselineExpiry' = IF baseline = NoBaseline THEN baselineExpiry
                                                     ELSE clock + BaselineTtl
    BY <1>5 DEF ExpireBaseline, SetBaselineTtl
  <2> HIDE DEF u
  <2>3. clock + BaselineTtl # Forever
    BY <1>0, DetectorAssumption DEF TypeOK, Instants
  <2> QED BY <1>0, <2>1, <2>2, <2>3, StepKeepsTtl
<1>6. CASE HsetUpdate(r)
  <2> DEFINE u == Updated(task[r])
  <2>1. u.pc = "delete"
    BY DEF Updated, Waiting
  <2>2. /\ task' = [task EXCEPT ![r] = u] /\ task[r].pc = "hset_update"
        /\ baseline' = task[r].base /\ UNCHANGED <<faults, orphaned, baselineExpiry>>
    BY <1>6 DEF HsetUpdate, Store
  <2> HIDE DEF u
  <2>3. /\ baseline' # NoBaseline
        /\ faults = 0 /\ orphaned = 0 => baseline # NoBaseline
    BY <2>2 DEF BaselineIInv, UpdatesKeepTtl, Updating
  <2> QED BY <1>0, <2>1, <2>2, <2>3, StepKeepsTtl
<1>7. CASE Delete(r)
  <2> DEFINE u == Returned(task[r], task[r].rate, task[r].base)
  <2>1. u.pc = "idle"
    BY DEF Returned
  <2>2. /\ task' = [task EXCEPT ![r] = u] /\ task[r].pc = "delete"
        /\ UNCHANGED <<faults, orphaned, baseline, baselineExpiry>>
    BY <1>7 DEF Delete
  <2> HIDE DEF u
  <2> QED BY <1>0, <2>1, <2>2, StepKeepsTtl
<1> QED BY <1>1, <1>2, <1>3, <1>4, <1>5, <1>6, <1>7 DEF Answered

LEMMA FailureKeepsTtl ==
  ASSUME IInv, BaselineIInv, NEW r \in Tasks, Failed(r)
  PROVE  BaselineIInv'
<1>1. faults' = faults + 1 /\ TypeOK
  BY DEF Failed, CountingFails, InitFails, UpdateFails, IInv
<1>2. PICK rate, base : task' = [task EXCEPT ![r] = Returned(task[r], rate, base)]
  <2>1. CASE CountingFails(r)
    BY <2>1 DEF CountingFails, InMemory
  <2>2. CASE InitFails(r)
    BY <2>2 DEF InitFails
  <2>3. CASE UpdateFails(r)
    BY <2>3 DEF UpdateFails
  <2> QED BY <2>1, <2>2, <2>3 DEF Failed
<1>3. Returned(task[r], rate, base).pc = "idle"
  BY DEF Returned
<1>4. \A q \in Tasks : task'[q] = task[q] \/ task'[q].pc = "idle"
  BY <1>1, <1>2, <1>3 DEF TypeOK
<1> QED BY <1>1, <1>4, FaultExcuses

LEMMA TickKeepsTtl ==
  ASSUME IInv, BaselineIInv, Tick
  PROVE  BaselineIInv'
<1>1. /\ UNCHANGED <<task, faults>> /\ clock' = clock + 1 /\ clock \in Nat
  BY DetectorAssumption DEF Tick, IInv, TypeOK, Instants
<1>2. CASE baselineExpiry <= clock'
  <2>1. /\ baseline' = NoBaseline
        /\ orphaned' = IF \E r \in Tasks : Updating(r) THEN clock' ELSE orphaned
    BY <1>2 DEF Tick
  <2>2. orphaned' = 0 => \A r \in Tasks : ~Updating(r)'
    BY <1>1, <2>1 DEF Updating
  <2> QED BY <1>1, <2>1, <2>2
       DEF BaselineIInv, BaselinesExpire, UpdatesKeepTtl, StoresBaseline
<1>3. CASE ~(baselineExpiry <= clock')
  <2>1. UNCHANGED <<baseline, baselineExpiry, orphaned>>
    BY <1>3 DEF Tick
  <2> QED BY <1>1, <2>1
       DEF BaselineIInv, BaselinesExpire, UpdatesKeepTtl, Updating, StoresBaseline
<1> QED BY <1>2, <1>3

LEMMA BaselineNextPreserves == IInv /\ BaselineIInv /\ [Next]_vars => BaselineIInv'
<1> SUFFICES ASSUME IInv, BaselineIInv, [Next]_vars PROVE BaselineIInv'
  OBVIOUS
<1>0. TypeOK
  BY DEF IInv
<1>1. ASSUME NEW r \in Tasks, NEW p \in Proxies, Arrive(r, p) PROVE BaselineIInv'
  <2> DEFINE u == Begun(p, "hmget", clock)
  <2>1. u.pc = "hmget"
    BY DEF Begun
  <2>2. /\ task' = [task EXCEPT ![r] = u] /\ task[r].pc = "idle"
        /\ UNCHANGED <<faults, orphaned, baseline, baselineExpiry>>
    BY <1>1 DEF Arrive, redis
  <2> HIDE DEF u
  <2> QED BY <1>0, <2>1, <2>2, StepKeepsTtl DEF StoresBaseline
<1>2. ASSUME NEW r \in Tasks, Answered(r) PROVE BaselineIInv'
  BY <1>2, AnswerKeepsTtl
<1>3. ASSUME NEW r \in Tasks, Failed(r) PROVE BaselineIInv'
  BY <1>3, FailureKeepsTtl
<1>4. ASSUME NEW p \in Proxies, RestartProxy(p) PROVE BaselineIInv'
  <2>1. \A q \in Tasks : Returned(task[q], 0, Default(0)).pc = "idle"
    BY DEF Returned
  <2>2. faults' = faults + 1 /\ \A q \in Tasks : task'[q] = task[q] \/ task'[q].pc = "idle"
    BY <1>4, <2>1 DEF RestartProxy
  <2> QED BY <1>0, <2>2, FaultExcuses
<1>5. CASE LoseRedis
  BY <1>0, <1>5, FaultExcuses DEF LoseRedis
<1>6. CASE Tick
  BY <1>6, TickKeepsTtl
<1>7. CASE UNCHANGED vars
  BY <1>7 DEF vars, redis, BaselineIInv, BaselinesExpire, UpdatesKeepTtl, Updating,
              StoresBaseline
<1> QED BY <1>1, <1>2, <1>3, <1>4, <1>5, <1>6, <1>7 DEF Next

(* A client's baseline expires, however many evaluations create it at once,  *)
(* unless a command failed or an HSET came too late for the key it was to    *)
(* update (detector.py:62-70 and 96).                                        *)
THEOREM BaselinesDoExpire == Spec => []BaselinesExpire
<1>1. BaselineIInv => BaselinesExpire
  BY DEF BaselineIInv
<1> QED BY <1>1, Invariance, BaselineInitHolds, BaselineNextPreserves, PTL DEF Spec

===============================================================================
