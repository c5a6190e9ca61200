----------------------------- MODULE AnomalyDetector -----------------------------
(***************************************************************************)
(* AnomalyDetector: every evaluation of a client counts one request in the *)
(* client's counter and compares the rate so far with the client's         *)
(* baseline, the moving average of earlier intervals.  Counter and         *)
(* baseline are two keys of Redis, read and written by separate commands;  *)
(* a proxy whose Redis fails uses a pair in its own memory.                *)
(*                                                                         *)
(* No two clients share a key, so that one client is modelled.  Detection  *)
(* is enabled.  Instants are multiples of a tick of at least 0.1 s.        *)
(***************************************************************************)
EXTENDS Integers

CONSTANTS
  Proxies,      \* proxy processes
  Tasks,        \* coroutines that evaluate a request of the client
  Interval,     \* evaluation_interval_seconds
  BaselineTtl,  \* TTL of a new baseline: one hour
  One,          \* the rate of one request per second
  PerTick,      \* the rate of one request in a tick
  Burst,        \* the rate of one request in 0.1 s, the shortest span
  MinVariance,  \* variance 0.1, in units of squared rates
  AlphaNum, AlphaDen,  \* ewma_alpha, as a fraction
  Threshold,    \* z_score_threshold
  NoBaseline,   \* the reply of HMGET for a key that does not exist
  Forever,      \* the TTL of a key that has none: beyond every other
  MaxClock,     \* bound: the last instant of the model
  MaxRequests,  \* bound: evaluations that begin
  MaxFaults     \* bound: failed commands and restarts

VARIABLES
  clock,           \* time.time()
  baseline,        \* baseline:{ip}
  baselineExpiry,  \* when Redis drops it
  counter,         \* eval_counter:{ip}, 0 if there is no such key
  counterExpiry,   \* when Redis drops it
  memory,          \* proxy -> _fallback_baselines and _fallback_counters
  task,            \* task -> where its evaluation is, and its locals
  arrived,         \* evaluations so far
  faults,          \* faults so far
  began,           \* history: when the present counter was created
  lost,            \* history: commands on it that a fault has prevented
  orphaned         \* history: when Redis last dropped a baseline that an
                   \*          evaluation was about to update; 0 if never

redis == <<baseline, baselineExpiry, counter, counterExpiry, began, lost>>

vars == <<clock, redis, memory, task, arrived, faults, orphaned>>

Instants == 0..MaxClock

(* ewma_rate, ewma_variance, last_evaluation.  closed: was it written at the *)
(* end of an interval, or is it a default (history)?                         *)
Baseline ==
  [rate : Int, variance : {v \in Int : v >= MinVariance}, last : Instants, closed : BOOLEAN]

Baselines == Baseline \union {NoBaseline}

Reasons == {"normal", "warning", "critical"}

ASSUME DetectorAssumption ==
  /\ Interval \in Nat \ {0}
  /\ BaselineTtl \in Nat \ {0}
  /\ One \in Nat \ {0} /\ PerTick \in Nat /\ Burst \in Nat
  /\ MinVariance \in Nat /\ MinVariance <= One * One
  /\ AlphaDen \in Nat \ {0} /\ AlphaNum \in 0..AlphaDen
  /\ Threshold \in Nat
  /\ NoBaseline \notin Baseline
  /\ MaxClock \in Nat /\ MaxRequests \in Nat /\ MaxFaults \in Nat
  /\ Forever \in Nat /\ Forever > MaxClock + 3 * Interval /\ Forever > MaxClock + BaselineTtl

(* pc: the command awaited.  base: the baseline fetched, then the one to be  *)
(* stored.  count: the reply of INCR.  rate: current_rate.  reason: that of  *)
(* the score last returned; fair: the requests it counts were counted since  *)
(* the baseline was updated, or it was not Comparable (history).             *)
Task ==
  [pc : {"idle", "hmget", "incr", "expire_counter", "hset_init", "expire_baseline",
         "hset_update", "delete"},
   proxy : Proxies, now : Instants, base : Baselines, count : Nat, rate : Int,
   reason : Reasons, fair : BOOLEAN]

Larger(a, b) == IF a > b THEN a ELSE b

(* An evaluation of which nothing is known yet. *)
Begun(p, pc, now) ==
  [pc |-> pc, proxy |-> p, now |-> now, base |-> NoBaseline, count |-> 0, rate |-> 0,
   reason |-> "normal", fair |-> TRUE]

Init ==
  /\ clock = 0
  /\ baseline = NoBaseline
  /\ baselineExpiry = Forever
  /\ counter = 0
  /\ counterExpiry = Forever
  /\ memory = [p \in Proxies |-> [base |-> NoBaseline, count |-> 0]]
  /\ \E p \in Proxies :
       task = [r \in Tasks |-> Begun(p, "idle", 0)]
  /\ arrived = 0
  /\ faults = 0
  /\ began = 0
  /\ lost = {}
  /\ orphaned = 0

-------------------------------------------------------------------------------
(***************************************************************************)
(* Rates, baselines and scores.                                            *)
(***************************************************************************)

(* count / max(0.1, dt).  Proxies read the clock before they read Redis, so  *)
(* that dt may be negative.                                                  *)
Rate(count, dt) == IF dt <= 0 THEN count * Burst ELSE (count * PerTick) \div dt

Default(now) == [rate |-> One, variance |-> One * One, last |-> now, closed |-> FALSE]

(* Mutant: no least variance. *)
MutantAtLeast(variance) == variance

AtLeast(variance) == Larger(MinVariance, variance)

(* The moving average and variance once an interval of that rate has ended.  *)
Smoothed(base, rate, now) ==
  LET diff == rate - base.rate
  IN  [rate |-> base.rate + (AlphaNum * diff) \div AlphaDen,
       variance |-> AtLeast(((AlphaDen - AlphaNum)
                              * (AlphaDen * base.variance + AlphaNum * diff * diff))
                            \div (AlphaDen * AlphaDen)),
       last |-> now, closed |-> TRUE]

(* Is the score at least percent / 100?  The standard deviation counts as at *)
(* least 1.0.                                                                *)
Exceeds(rate, base, percent) ==
  /\ rate > base.rate
  /\ (100 * (rate - base.rate)) * (100 * (rate - base.rate))
       >= (percent * Threshold) * (percent * Threshold) * Larger(One * One, base.variance)

Reason(rate, base) ==
  IF Exceeds(rate, base, 80) THEN "critical"
  ELSE IF Exceeds(rate, base, 30) THEN "warning" ELSE "normal"

(* The evaluation t awaits a command. *)
Waiting(t, pc, base, count, rate) ==
  [pc |-> pc, proxy |-> t.proxy, now |-> t.now, base |-> base, count |-> count,
   rate |-> rate, reason |-> "normal", fair |-> t.fair]

(* It has returned its score. *)
Returned(t, rate, base) ==
  [pc |-> "idle", proxy |-> t.proxy, now |-> 0, base |-> NoBaseline, count |-> 0,
   rate |-> 0, reason |-> Reason(rate, base), fair |-> t.fair]

-------------------------------------------------------------------------------
(***************************************************************************)
(* calculate_anomaly_score while Redis answers.                            *)
(***************************************************************************)

Arrive(r, p) ==
  /\ task[r].pc = "idle"
  /\ arrived < MaxRequests
  /\ arrived' = arrived + 1
  /\ task' = [task EXCEPT ![r] = Begun(p, "hmget", clock)]
  /\ UNCHANGED <<clock, orphaned, redis, memory, faults>>

Hmget(r) ==
  /\ task[r].pc = "hmget"
  /\ task' = [task EXCEPT ![r] = Waiting(@, "incr", baseline, 0, 0)]
  /\ UNCHANGED <<clock, orphaned, redis, memory, arrived, faults>>

(* With the count at hand: a client without baseline gets the default one,   *)
(* an interval that is over is closed, and any other request is compared     *)
(* with the baseline fetched.                                                *)
Counted(t, count) ==
  IF t.base = NoBaseline
  THEN Waiting(t, "hset_init", Default(t.now), count, 0)
  ELSE LET rate == Rate(count, t.now - t.base.last)
       IN  IF t.now - t.base.last >= Interval
           THEN Waiting(t, "hset_update", Smoothed(t.base, rate, t.now), 0, rate)
           ELSE Returned(t, rate, t.base)

(* INCR creates a counter that never expires. *)
Increment ==
  /\ counter' = counter + 1
  /\ began' = IF counter = 0 THEN clock ELSE began
  /\ UNCHANGED <<baseline, baselineExpiry, counterExpiry>>

(* History: the baseline t has fetched is that of an interval, and the       *)
(* counter has been deleted since it was stored.  It has not while the       *)
(* evaluation that stored it awaits its DELETE (the code then compares the   *)
(* new baseline with the old counter), nor after a fault has prevented one.  *)
Comparable(t) ==
  /\ t.base # NoBaseline
  /\ t.base.closed
  /\ \A q \in Tasks : task[q].pc = "delete" => task[q].base.last # t.base.last
  /\ "delete" \notin lost

(* Mutant: no counter is given a TTL. *)
MutantFirst(count) == FALSE

(* Only the request that creates the counter gives it a TTL. *)
First(count) == count = 1

Incr(r) ==
  /\ task[r].pc = "incr"
  /\ Increment
  /\ LET t == [task[r] EXCEPT !.fair = Comparable(task[r]) => began' >= task[r].base.last]
     IN  task' = [task EXCEPT ![r] = IF First(counter')
                                     THEN Waiting(t, "expire_counter", t.base, counter', 0)
                                     ELSE Counted(t, counter')]
  /\ UNCHANGED <<clock, orphaned, lost, memory, arrived, faults>>

(* EXPIRE does nothing if the key is gone. *)
SetCounterTtl ==
  /\ counterExpiry' = IF counter = 0 THEN counterExpiry ELSE clock + 3 * Interval
  /\ UNCHANGED <<baseline, baselineExpiry, counter, began, lost>>

ExpireCounter(r) ==
  /\ task[r].pc = "expire_counter"
  /\ SetCounterTtl
  /\ task' = [task EXCEPT ![r] = Counted(@, @.count)]
  /\ UNCHANGED <<clock, orphaned, memory, arrived, faults>>

(* HSET keeps the TTL the key has: a key it creates has none. *)
Store(base) ==
  /\ baseline' = base
  /\ UNCHANGED <<baselineExpiry, counter, counterExpiry, began, lost>>

HsetInit(r) ==
  /\ task[r].pc = "hset_init"
  /\ Store(task[r].base)
  /\ task' = [task EXCEPT ![r] = Waiting(@, "expire_baseline", @.base, @.count, 0)]
  /\ UNCHANGED <<clock, orphaned, memory, arrived, faults>>

(* Mutant: the TTL is set on the other key. *)
MutantSetBaselineTtl == SetCounterTtl

SetBaselineTtl ==
  /\ baselineExpiry' = IF baseline = NoBaseline THEN baselineExpiry ELSE clock + BaselineTtl
  /\ UNCHANGED <<baseline, counter, counterExpiry, began, lost>>

(* The rate of a client without baseline is its count. *)
ExpireBaseline(r) ==
  /\ task[r].pc = "expire_baseline"
  /\ SetBaselineTtl
  /\ task' = [task EXCEPT ![r] = Returned(@, @.count * One, @.base)]
  /\ UNCHANGED <<clock, orphaned, memory, arrived, faults>>

(* Mutant: the counter goes on counting. *)
MutantUpdated(t) == Returned(t, t.rate, t.base)

(* The baseline is stored, then the counter deleted. *)
Updated(t) == Waiting(t, "delete", t.base, 0, t.rate)

HsetUpdate(r) ==
  /\ task[r].pc = "hset_update"
  /\ Store(task[r].base)
  /\ task' = [task EXCEPT ![r] = Updated(@)]
  /\ UNCHANGED <<clock, orphaned, memory, arrived, faults>>

(* The counter is gone, and whatever was missed on it is irrelevant. *)
Drop ==
  /\ counter' = 0
  /\ counterExpiry' = Forever
  /\ began' = 0
  /\ lost' = {}

Delete(r) ==
  /\ task[r].pc = "delete"
  /\ Drop
  /\ task' = [task EXCEPT ![r] = Returned(@, @.rate, @.base)]
  /\ UNCHANGED <<clock, orphaned, baseline, baselineExpiry, memory, arrived, faults>>

-------------------------------------------------------------------------------
(***************************************************************************)
(* A command raises, executed or not.                                      *)
(***************************************************************************)

(* _get_in_memory_baseline, which does not await. *)
InMemory(r) ==
  LET t     == task[r]
      m     == memory[t.proxy]
      count == m.count + 1
      rate  == Rate(count, t.now - m.base.last)
  IN  IF m.base = NoBaseline
      THEN /\ memory' = [memory EXCEPT ![t.proxy] = [base |-> Default(t.now), count |-> count]]
           /\ task' = [task EXCEPT ![r] = Returned(t, count * One, Default(t.now))]
      ELSE IF t.now - m.base.last >= Interval
      THEN LET base == Smoothed(m.base, rate, t.now)
           IN  /\ memory' = [memory EXCEPT ![t.proxy] = [base |-> base, count |-> 0]]
               /\ task' = [task EXCEPT ![r] = Returned(t, rate, base)]
      ELSE /\ memory' = [memory EXCEPT ![t.proxy].count = count]
           /\ task' = [task EXCEPT ![r] = Returned(t, rate, m.base)]

(* Before there is a baseline to compare with, that of the memory is used. *)
CountingFails(r) ==
  /\ faults < MaxFaults
  /\ \/ /\ task[r].pc = "hmget"
        /\ UNCHANGED redis
     \/ /\ task[r].pc = "incr"
        /\ \/ Increment /\ lost' = IF counter = 0 THEN {"expire"} ELSE lost
           \/ UNCHANGED redis
     \/ /\ task[r].pc = "expire_counter"
        /\ \/ SetCounterTtl
           \/ /\ lost' = IF counter = 0 THEN lost ELSE lost \union {"expire"}
              /\ UNCHANGED <<baseline, baselineExpiry, counter, counterExpiry, began>>
  /\ InMemory(r)
  /\ faults' = faults + 1
  /\ UNCHANGED <<clock, orphaned, arrived>>

(* A first baseline may be lost, or never expire; the rate is still 0. *)
InitFails(r) ==
  /\ faults < MaxFaults
  /\ \/ task[r].pc = "hset_init" /\ (Store(task[r].base) \/ UNCHANGED redis)
     \/ task[r].pc = "expire_baseline" /\ (SetBaselineTtl \/ UNCHANGED redis)
  /\ task' = [task EXCEPT ![r] = Returned(@, 0, @.base)]
  /\ faults' = faults + 1
  /\ UNCHANGED <<clock, orphaned, memory, arrived>>

(* The baseline is stored and the counter not reset, or neither.             *)
UpdateFails(r) ==
  /\ faults < MaxFaults
  /\ \/ /\ task[r].pc = "hset_update"
        /\ \/ /\ baseline' = task[r].base
              /\ lost' = IF counter = 0 THEN lost ELSE lost \union {"delete"}
              /\ UNCHANGED <<baselineExpiry, counter, counterExpiry, began>>
           \/ UNCHANGED redis
     \/ /\ task[r].pc = "delete"
        /\ \/ Drop /\ UNCHANGED <<baseline, baselineExpiry>>
           \/ /\ lost' = IF counter = 0 THEN lost ELSE lost \union {"delete"}
              /\ UNCHANGED <<baseline, baselineExpiry, counter, counterExpiry, began>>
  /\ task' = [task EXCEPT ![r] = Returned(@, @.rate, @.base)]
  /\ faults' = faults + 1
  /\ UNCHANGED <<clock, orphaned, memory, arrived>>

-------------------------------------------------------------------------------
(***************************************************************************)
(* The environment.                                                        *)
(***************************************************************************)

(* An evaluation that has fetched a baseline, and may store its successor.   *)
Updating(r) ==
  task[r].pc \in {"incr", "expire_counter", "hset_update"} /\ task[r].base # NoBaseline

(* Time passes, and Redis drops the keys that are due. *)
Tick ==
  /\ clock < MaxClock
  /\ clock' = clock + 1
  /\ IF baselineExpiry <= clock'
     THEN /\ baseline' = NoBaseline /\ baselineExpiry' = Forever
          /\ orphaned' = IF \E r \in Tasks : Updating(r) THEN clock' ELSE orphaned
     ELSE UNCHANGED <<baseline, baselineExpiry, orphaned>>
  /\ IF counterExpiry <= clock' THEN Drop
     ELSE UNCHANGED <<counter, counterExpiry, began, lost>>
  /\ UNCHANGED <<memory, task, arrived, faults>>

(* What the evaluations of a proxy still had to do with the counter. *)
Owed(p) ==
  {c \in {"expire", "delete"} :
     \E r \in Tasks : /\ task[r].proxy = p
                      /\ task[r].pc = IF c = "expire" THEN "expire_counter" ELSE "delete"}

(* A proxy restarts: its memory and its evaluations are gone. *)
RestartProxy(p) ==
  /\ faults < MaxFaults
  /\ memory' = [memory EXCEPT ![p] = [base |-> NoBaseline, count |-> 0]]
  /\ task' = [r \in Tasks |-> IF task[r].proxy = p
                              THEN Returned(task[r], 0, Default(0)) ELSE task[r]]
  /\ lost' = IF counter = 0 THEN lost ELSE lost \union Owed(p)
  /\ faults' = faults + 1
  /\ UNCHANGED <<clock, orphaned, baseline, baselineExpiry, counter, counterExpiry, began, arrived>>

(* Redis restarts without its data. *)
LoseRedis ==
  /\ faults < MaxFaults
  /\ baseline' = NoBaseline
  /\ baselineExpiry' = Forever
  /\ Drop
  /\ faults' = faults + 1
  /\ UNCHANGED <<clock, orphaned, memory, task, arrived>>

-------------------------------------------------------------------------------

Answered(r) ==
  \/ Hmget(r) \/ Incr(r) \/ ExpireCounter(r) \/ HsetInit(r) \/ ExpireBaseline(r)
  \/ HsetUpdate(r) \/ Delete(r)

Failed(r) == CountingFails(r) \/ InitFails(r) \/ UpdateFails(r)

Next ==
  \/ \E r \in Tasks, p \in Proxies : Arrive(r, p)
  \/ \E r \in Tasks : Answered(r) \/ Failed(r)
  \/ \E p \in Proxies : RestartProxy(p)
  \/ LoseRedis
  \/ Tick

Spec == Init /\ [][Next]_vars

-------------------------------------------------------------------------------
(***************************************************************************)
(* Properties.                                                             *)
(***************************************************************************)

(* The variables keep their types; no baseline has a variance below 0.1.     *)
TypeOK ==
  /\ clock \in Instants
  /\ baseline \in Baselines
  /\ baselineExpiry \in Nat
  /\ counter \in Nat
  /\ counterExpiry \in Nat
  /\ memory \in [Proxies -> [base : Baselines, count : Nat]]
  /\ task \in [Tasks -> Task]
  /\ arrived \in 0..MaxRequests
  /\ faults \in 0..MaxFaults
  /\ began \in Instants
  /\ lost \subseteq {"expire", "delete"}
  /\ orphaned \in Instants

(* A counter expires, or the evaluation that created it is about to see to   *)
(* that, although others may delete the counter and create the next one in   *)
(* the meantime.  Only a fault leaves a client's counter behind for ever.    *)
CountersExpire ==
  counter > 0 /\ counterExpiry = Forever /\ "expire" \notin lost
    => \E r \in Tasks : task[r].pc = "expire_counter"

(* A baseline expires, or the evaluation that created it is about to see to  *)
(* that, however many do so at the same time and whatever they store over it *)
(* meanwhile.  It stays for ever only after a fault, or after Redis has      *)
(* dropped one while an evaluation was about to store its successor, whose   *)
(* HSET then creates a key without a TTL.                                    *)
BaselinesExpire ==
  baseline # NoBaseline /\ baselineExpiry = Forever /\ faults = 0 /\ orphaned = 0
    => \E r \in Tasks : task[r].pc = "expire_baseline"

(* Once the counter has been deleted after the update of a baseline, no      *)
(* client is reported as anomalous against that baseline for requests it has *)
(* already taken in, however many evaluations close intervals at the same    *)
(* time.  Excepted are a default baseline, which no interval has closed, and *)
(* what the code does get wrong: an evaluation that counts between the HSET  *)
(* that stored its baseline and the DELETE that follows, or after a DELETE   *)
(* was lost, counts on in the old interval.                                  *)
AnomaliesHaveCause == \A r \in Tasks : task[r].reason # "normal" => task[r].fair

(* The comment at the TTL of a new baseline: "Expire after 1 hour of         *)
(* inactivity".  A baseline is not dropped while requests keep updating it.  *)
ActiveBaselinesKept ==
  [][Tick /\ baseline # NoBaseline /\ baseline' = NoBaseline
       => clock' - baseline.last >= BaselineTtl]_vars

===============================================================================
