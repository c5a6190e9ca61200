--------------------------- MODULE GlobalMonitorProofs ---------------------------
(***************************************************************************)
(* Proofs about GlobalMonitor, for any number of calls, proxies and        *)
(* faults: multipliers stay in their range, and a load below the full one  *)
(* has a cause unless it was read while requests were recorded.            *)
(***************************************************************************)
EXTENDS GlobalMonitor, TLAPS

(* The counts of w are those of fast requests without errors.                *)
Well(w) == err[w] = 0 /\ lat[w] <= MaxLatency * req[w]

HealthySlots == \A w \in Slots : w \notin sick => Well(w)

HealthyMetrics(m) == ~m.ill => m.errs = 0 /\ m.lats <= MaxLatency * m.reqs

HealthyMemory == \A p \in Proxies : HealthyMetrics(fallback[p])

Healthy(t) == Recent(t.now) \intersect sick = {}

(* A call is under way in a slot that has a previous one.  What it has read  *)
(* of healthy slots has no errors, and if no request was recorded since, it  *)
(* is no fewer requests than there are.                                      *)
SoundCall(t) ==
  /\ t.pc # "idle" => t.now >= Slot /\ t.multiplier = Whole
  /\ t.pc = "mget_lat" /\ Healthy(t) => t.errs = 0
  /\ t.pc \in Reading /\ t.quiet => t.reqs >= Total(req, t.now)
  /\ t.multiplier < Whole /\ t.quiet => t.cause

MonitorIInv ==
  /\ MonitorTypeOK
  /\ HealthySlots
  /\ HealthyMemory
  /\ \A r \in Tasks : SoundCall(call[r])

-------------------------------------------------------------------------------
(***************************************************************************)
(* Arithmetic.                                                             *)
(***************************************************************************)

LEMMA Quotient ==
  ASSUME NEW a \in Nat, NEW b \in Nat \ {0}
  PROVE  a \div b \in Nat /\ a \div b <= a /\ (a >= b => a \div b >= 1)
<1> DEFINE q == a \div b
<1>1. q \in Int /\ b * q <= a /\ a < b * q + b
  OBVIOUS
<1> HIDE DEF q
<1>2. q >= 0
  <2> SUFFICES ASSUME q <= -1 PROVE FALSE
    BY <1>1
  <2>1. b * q <= -b
    <3>1. \E n \in Nat : q = -1 - n
      <4>1. -1 - q \in Nat /\ q = -1 - (-1 - q)
        BY <1>1
      <4> QED BY <4>1
    <3>2. PICK n \in Nat : q = -1 - n
      BY <3>1
    <3>3. b * q = -b - b * n /\ b * n >= 0
      BY <3>2
    <3> QED BY <3>3
  <2> QED BY <1>1, <2>1
<1>3. b * q >= q
  BY <1>1, <1>2
<1>4. a >= b => q # 0
  BY <1>1
<1> QED BY <1>1, <1>2, <1>3, <1>4 DEF q

LEMMA SlotOfRange ==
  ASSUME NEW now \in Slots
  PROVE  /\ SlotOf(now) \in Slots
         /\ now >= Slot => SlotOf(now) - 1 \in Slots
<1>1. now \in Nat /\ now <= MaxClock /\ Slot \in Nat \ {0} /\ MaxClock \in Nat
  BY MonitorAssumption DEF Slots
<1>2. SlotOf(now) \in Nat /\ SlotOf(now) <= now /\ (now >= Slot => SlotOf(now) >= 1)
  BY <1>1, Quotient DEF SlotOf
<1> QED BY <1>1, <1>2 DEF Slots

LEMMA ReducedInRange ==
  ASSUME NEW over \in Nat, NEW base \in Nat \ {0}
  PROVE  Reduced(over, base) \in MinMultiplier..Whole
<1>1. Whole \in Nat /\ MinMultiplier \in 0..Whole
  BY MonitorAssumption
<1>2. Whole * over \in Nat
  BY <1>1
<1> DEFINE q == (Whole * over) \div base
<1>3. q \in Nat
  BY <1>2, Quotient
<1> HIDE DEF q
<1>4. Reduced(over, base) = Larger(MinMultiplier, Whole - q)
  BY DEF Reduced, q
<1> QED BY <1>1, <1>3, <1>4 DEF Larger

LEMMA MultiplierInRange ==
  ASSUME NEW reqs \in Nat, NEW errs \in Nat, NEW lats \in Nat
  PROVE  Multiplier(reqs, errs, lats) \in MinMultiplier..Whole
<1>1. /\ Whole \in Nat /\ MinMultiplier \in 0..Whole /\ Whole \in MinMultiplier..Whole
      /\ MaxLatency \in Nat \ {0} /\ MaxErrorPercent \in 0..99
  BY MonitorAssumption
<1>2. CASE reqs = 0
  BY <1>1, <1>2 DEF Multiplier
<1>3. CASE reqs # 0
  <2>1. LatencyFactor(reqs, lats) \in MinMultiplier..Whole
    <3> DEFINE base == MaxLatency * reqs
    <3>1. base \in Nat \ {0}
      BY <1>1, <1>3
    <3> HIDE DEF base
    <3>2. lats > base => Reduced(lats - base, base) \in MinMultiplier..Whole
      BY <3>1, ReducedInRange
    <3> QED BY <1>1, <3>2 DEF LatencyFactor, base
  <2>2. ErrorFactor(reqs, errs) \in MinMultiplier..Whole
    <3> DEFINE tolerated == MaxErrorPercent * reqs
               base == (100 - MaxErrorPercent) * reqs
    <3>1. tolerated \in Nat /\ 100 - MaxErrorPercent \in Nat \ {0}
      BY <1>1
    <3>2. base \in Nat \ {0}
      BY <1>3, <3>1
    <3> HIDE DEF base, tolerated
    <3>3. 100 * errs > tolerated => Reduced(100 * errs - tolerated, base) \in MinMultiplier..Whole
      BY <3>1, <3>2, ReducedInRange
    <3> QED BY <1>1, <3>3 DEF ErrorFactor, base, tolerated
  <2> QED BY <1>1, <1>3, <2>1, <2>2 DEF Multiplier, Smaller
<1> QED BY <1>2, <1>3

(* Fast requests without errors leave the limits alone.                      *)
LEMMA HealthyMultiplier ==
  ASSUME NEW reqs \in Nat, NEW lats \in Nat, lats <= MaxLatency * reqs
  PROVE  Multiplier(reqs, 0, lats) = Whole
<1>1. MaxErrorPercent * reqs \in Nat /\ MaxLatency * reqs \in Nat /\ Whole \in Nat
  BY MonitorAssumption
<1>2. LatencyFactor(reqs, lats) = Whole
  BY <1>1 DEF LatencyFactor
<1>3. ErrorFactor(reqs, 0) = Whole
  BY <1>1 DEF ErrorFactor
<1> QED BY <1>1, <1>2, <1>3 DEF Multiplier, Smaller

-------------------------------------------------------------------------------
(***************************************************************************)
(* What the operators return.                                              *)
(***************************************************************************)

LEMMA ReturnedIsCall ==
  ASSUME NEW p \in Proxies, NEW m \in MinMultiplier..Whole, NEW quiet \in BOOLEAN,
         NEW cause \in BOOLEAN
  PROVE  /\ Returned(p, m, quiet, cause) \in Call
         /\ Returned(p, m, quiet, cause).pc = "idle"
         /\ Returned(p, m, quiet, cause).multiplier = m
         /\ Returned(p, m, quiet, cause).quiet = quiet
         /\ Returned(p, m, quiet, cause).cause = cause
BY MonitorAssumption DEF Returned, Call, Slots

LEMMA NothingReturned ==
  ASSUME NEW p \in Proxies
  PROVE  /\ Returned(p, Whole, TRUE, FALSE) \in Call
         /\ Returned(p, Whole, TRUE, FALSE).pc = "idle"
         /\ Returned(p, Whole, TRUE, FALSE).multiplier = Whole
         /\ SoundCall(Returned(p, Whole, TRUE, FALSE))
<1>1. Whole \in MinMultiplier..Whole /\ Whole \in Nat
  BY MonitorAssumption
<1>2. /\ Returned(p, Whole, TRUE, FALSE) \in Call
      /\ Returned(p, Whole, TRUE, FALSE).pc = "idle"
      /\ Returned(p, Whole, TRUE, FALSE).multiplier = Whole
  BY <1>1, ReturnedIsCall
<1> DEFINE u == Returned(p, Whole, TRUE, FALSE)
<1> HIDE DEF u
<1>3. u.pc = "idle" /\ u.multiplier = Whole => SoundCall(u)
  BY <1>1 DEF SoundCall, Reading
<1> QED BY <1>2, <1>3 DEF u

LEMMA NoMetricsHealthy ==
  ASSUME NEW now \in Slots
  PROVE  NoMetrics(now) \in Metrics /\ HealthyMetrics(NoMetrics(now))
<1>1. MaxLatency \in Nat /\ now \in Nat
  BY MonitorAssumption DEF Slots
<1> QED BY <1>1 DEF NoMetrics, Metrics, HealthyMetrics

LEMMA IllIsBoolean ==
  ASSUME NEW t \in Call
  PROVE  /\ Ill(t) \in BOOLEAN
         /\ t.duration \in Nat /\ t.now \in Slots /\ t.now \in Nat /\ t.failed \in BOOLEAN
         /\ t.proxy \in Proxies
         /\ ~Ill(t) => t.failed = FALSE /\ t.duration <= MaxLatency
<1>1. /\ t.duration \in Durations \union {0} /\ t.failed \in BOOLEAN /\ t.now \in Slots
      /\ t.proxy \in Proxies
  BY DEF Call
<1>2. t.duration \in Nat /\ MaxLatency \in Nat /\ t.now \in Nat
  <2>1. Durations \subseteq Nat /\ 0 \in Nat /\ MaxLatency \in Nat /\ MaxClock \in Nat
    BY MonitorAssumption
  <2>2. t.duration \in Nat
    BY <1>1, <2>1, Zenon
  <2>3. t.now \in Nat
    BY <1>1, <2>1 DEF Slots
  <2> QED BY <2>1, <2>2, <2>3
<1>3. Ill(t) \in BOOLEAN
  BY Zenon DEF Ill
<1>4. ~Ill(t) => ~t.failed /\ ~(t.duration > MaxLatency)
  BY Zenon DEF Ill
<1>5. ~t.failed => t.failed = FALSE
  BY <1>1
<1> QED BY <1>1, <1>2, <1>3, <1>4, <1>5

LEMMA AggregatedHealthy ==
  ASSUME NEW m \in Metrics, NEW t \in Call, HealthyMetrics(m)
  PROVE  Aggregated(m, t) \in Metrics /\ HealthyMetrics(Aggregated(m, t))
<1> DEFINE failed == IF t.failed THEN 1 ELSE 0
           ill == Ill(t)
           d == t.duration
           again == m.ill \/ ill
<1>1. /\ ill \in BOOLEAN /\ d \in Nat /\ t.now \in Nat
      /\ failed \in Nat
      /\ ~ill => failed = 0 /\ d <= MaxLatency
  <2>1. /\ Ill(t) \in BOOLEAN /\ t.duration \in Nat /\ t.now \in Nat
        /\ ~Ill(t) => t.failed = FALSE /\ t.duration <= MaxLatency
    BY IllIsBoolean
  <2> QED BY <2>1
<1>2. /\ m.reqs \in Nat /\ m.errs \in Nat /\ m.lats \in Nat /\ m.last_reset \in Nat
      /\ m.ill \in BOOLEAN /\ MaxLatency \in Nat
  BY MonitorAssumption DEF Metrics
<1>3. again \in BOOLEAN
  OBVIOUS
<1>4. ~m.ill => m.errs = 0 /\ m.lats <= MaxLatency * m.reqs
  BY DEF HealthyMetrics
<1> HIDE DEF failed, ill, d
<1>5. CASE t.now - m.last_reset >= Slot
  <2>1. Aggregated(m, t) = [reqs |-> 1, errs |-> failed, lats |-> d,
                            last_reset |-> t.now, ill |-> ill]
    BY <1>5 DEF Aggregated, failed, ill, d
  <2>2. MaxLatency * 1 = MaxLatency
    BY <1>2
  <2> QED BY <1>1, <1>2, <2>1, <2>2 DEF Metrics, HealthyMetrics
<1>6. CASE ~(t.now - m.last_reset >= Slot)
  <2>1. Aggregated(m, t) = [reqs |-> m.reqs + 1, errs |-> m.errs + failed, lats |-> m.lats + d,
                            last_reset |-> m.last_reset, ill |-> again]
    BY <1>6 DEF Aggregated, failed, ill, d
  <2>2. MaxLatency * (m.reqs + 1) = MaxLatency * m.reqs + MaxLatency /\ MaxLatency * m.reqs \in Nat
    BY <1>2
  <2>3. ~again => m.errs + failed = 0 /\ m.lats + d <= MaxLatency * (m.reqs + 1)
    BY <1>1, <1>2, <1>4, <2>2
  <2> HIDE DEF again
  <2> QED BY <1>1, <1>2, <1>3, <2>1, <2>3 DEF Metrics, HealthyMetrics
<1> QED BY <1>5, <1>6

(* The slots a load reads.                                                   *)
LEMMA RecentSlots ==
  ASSUME NEW now \in Slots, now >= Slot
  PROVE  /\ Recent(now) = {SlotOf(now), SlotOf(now) - 1}
         /\ SlotOf(now) \in Slots /\ SlotOf(now) - 1 \in Slots
BY SlotOfRange DEF Recent

LEMMA TotalIsNat ==
  ASSUME NEW counts \in [Slots -> Nat], NEW now \in Slots, now >= Slot
  PROVE  Total(counts, now) \in Nat
BY RecentSlots DEF Total

-------------------------------------------------------------------------------
(***************************************************************************)
(* The steps.                                                              *)
(***************************************************************************)

LEMMA MonitorInitHolds == MonitorInit => MonitorIInv
<1> SUFFICES ASSUME MonitorInit PROVE MonitorIInv
  OBVIOUS
<1>1. PICK p \in Proxies : call = [r \in Tasks |-> Returned(p, Whole, TRUE, FALSE)]
  BY DEF MonitorInit
<1> DEFINE u == Returned(p, Whole, TRUE, FALSE)
<1>2. u \in Call /\ SoundCall(u)
  BY NothingReturned
<1> HIDE DEF u
<1>3. call \in [Tasks -> Call] /\ \A r \in Tasks : SoundCall(call[r])
  <2>1. call = [r \in Tasks |-> u]
    BY <1>1 DEF u
  <2> QED BY <1>2, <2>1
<1>4. clock \in Slot..MaxClock /\ clock \in Slots /\ Forever \in Nat /\ 0 \in 0..MaxFaults
      /\ MaxLatency \in Nat
  BY MonitorAssumption DEF MonitorInit, Slots
<1>5. fallback \in [Proxies -> Metrics] /\ HealthyMemory
  <2> DEFINE n == NoMetrics(clock)
  <2>1. n \in Metrics /\ HealthyMetrics(n)
    BY <1>4, NoMetricsHealthy
  <2>2. fallback = [q \in Proxies |-> n]
    BY DEF MonitorInit
  <2> HIDE DEF n
  <2> QED BY <2>1, <2>2 DEF HealthyMemory
<1>6. MonitorTypeOK
  BY <1>3, <1>4, <1>5 DEF MonitorInit, MonitorTypeOK
<1>7. HealthySlots
  BY <1>4 DEF MonitorInit, HealthySlots, Well
<1> QED BY <1>3, <1>5, <1>6, <1>7 DEF MonitorIInv

(* One call is now u, and Redis is as it was.                                *)
LEMMA CallStep ==
  ASSUME MonitorIInv, NEW r \in Tasks, NEW u \in Call, SoundCall(u),
         call' = [call EXCEPT ![r] = u],
         req' = req, err' = err, lat' = lat, expiry' = expiry, sick' = sick, clock' = clock,
         fallback' = fallback, faults' \in 0..MaxFaults
  PROVE  MonitorIInv'
<1>1. /\ call' \in [Tasks -> Call]
      /\ \A q \in Tasks : call'[q] = call[q] \/ call'[q] = u
  BY DEF MonitorIInv, MonitorTypeOK
<1>2. MonitorTypeOK'
  BY <1>1 DEF MonitorIInv, MonitorTypeOK
<1>3. HealthySlots' /\ HealthyMemory'
  BY DEF MonitorIInv, HealthySlots, Well, HealthyMemory
<1>4. ASSUME NEW q \in Tasks PROVE SoundCall(call[q])'
  <2>1. SoundCall(call'[q])
    BY <1>1 DEF MonitorIInv
  <2> QED BY <2>1 DEF SoundCall, Healthy, Total
<1> QED BY <1>2, <1>3, <1>4 DEF MonitorIInv

LEMMA CallIsSound ==
  ASSUME MonitorIInv, NEW r \in Tasks
  PROVE  /\ call[r] \in Call /\ SoundCall(call[r]) /\ call[r].proxy \in Proxies
         /\ call[r].now \in Slots /\ call[r].reqs \in Nat /\ call[r].errs \in Nat
         /\ call[r].quiet \in BOOLEAN
         /\ fallback[call[r].proxy] \in Metrics /\ HealthyMetrics(fallback[call[r].proxy])
<1>1. call[r] \in Call /\ SoundCall(call[r])
  BY DEF MonitorIInv, MonitorTypeOK
<1>2. /\ call[r].proxy \in Proxies /\ call[r].now \in Slots /\ call[r].reqs \in Nat
      /\ call[r].errs \in Nat /\ call[r].quiet \in BOOLEAN
  BY <1>1 DEF Call
<1> QED BY <1>1, <1>2 DEF MonitorIInv, MonitorTypeOK, HealthyMemory

LEMMA ClockInRange ==
  ASSUME MonitorIInv
  PROVE  clock \in Nat /\ clock \in Slots /\ clock >= Slot /\ faults \in 0..MaxFaults
BY MonitorAssumption DEF MonitorIInv, MonitorTypeOK, Slots

LEMMA BeginRecordPreserves ==
  ASSUME MonitorIInv, NEW r \in Tasks, NEW p \in Proxies, NEW d \in Durations,
         NEW failed \in BOOLEAN, BeginRecord(r, p, d, failed)
  PROVE  MonitorIInv'
<1> DEFINE c == Returned(p, Whole, TRUE, FALSE)
           u == [c EXCEPT !.pc = "execute", !.now = clock, !.duration = d, !.failed = failed]
<1>1. clock \in Slots /\ clock >= Slot /\ faults \in 0..MaxFaults
  BY ClockInRange
<1>2. c \in Call /\ c.multiplier = Whole
  BY NothingReturned
<1>3. Whole \in Nat
  BY MonitorAssumption
<1>4. call' = [call EXCEPT ![r] = u]
  BY DEF BeginRecord
<1> HIDE DEF c
<1>5. u \in Call /\ u.pc = "execute" /\ u.now = clock /\ u.multiplier = Whole
  <2>1. d \in Durations \union {0} /\ failed \in BOOLEAN
    OBVIOUS
  <2> QED BY <1>1, <1>2, <2>1 DEF Call
<1> HIDE DEF u
<1>6. SoundCall(u)
  BY <1>1, <1>3, <1>5 DEF SoundCall, Reading
<1>7. UNCHANGED <<req, err, lat, expiry, sick, clock, fallback, faults>>
  BY DEF BeginRecord, redis
<1> QED BY <1>1, <1>4, <1>5, <1>6, <1>7, CallStep

LEMMA BeginLoadPreserves ==
  ASSUME MonitorIInv, NEW r \in Tasks, NEW p \in Proxies, BeginLoad(r, p)
  PROVE  MonitorIInv'
<1> DEFINE c == Returned(p, Whole, TRUE, FALSE)
           u == [c EXCEPT !.pc = "mget_req", !.now = clock]
<1>1. clock \in Slots /\ clock >= Slot /\ faults \in 0..MaxFaults
  BY ClockInRange
<1>2. c \in Call /\ c.multiplier = Whole
  BY NothingReturned
<1>3. Whole \in Nat
  BY MonitorAssumption
<1>4. call' = [call EXCEPT ![r] = u]
  BY DEF BeginLoad
<1> HIDE DEF c
<1>5. u \in Call /\ u.pc = "mget_req" /\ u.now = clock /\ u.multiplier = Whole
  BY <1>1, <1>2 DEF Call
<1> HIDE DEF u
<1>6. SoundCall(u)
  BY <1>1, <1>3, <1>5 DEF SoundCall, Reading
<1>7. UNCHANGED <<req, err, lat, expiry, sick, clock, fallback, faults>>
  BY DEF BeginLoad, redis
<1> QED BY <1>1, <1>4, <1>5, <1>6, <1>7, CallStep

LEMMA UsePreserves ==
  ASSUME MonitorIInv, NEW r \in Tasks, Use(r)
  PROVE  MonitorIInv'
<1> DEFINE u == Returned(call[r].proxy, Whole, TRUE, FALSE)
<1>1. u \in Call /\ SoundCall(u) /\ faults \in 0..MaxFaults
  BY CallIsSound, ClockInRange, NothingReturned
<1>2. call' = [call EXCEPT ![r] = u]
  BY DEF Use
<1> HIDE DEF u
<1>3. UNCHANGED <<req, err, lat, expiry, sick, clock, fallback, faults>>
  BY DEF Use, redis
<1> QED BY <1>1, <1>2, <1>3, CallStep

(* The keys a load reads are those of healthy slots, or it has a cause.      *)
LEMMA HealthyTotals ==
  ASSUME MonitorIInv, NEW t \in Call, t.now >= Slot
  PROVE  /\ Total(req, t.now) \in Nat /\ Total(err, t.now) \in Nat /\ Total(lat, t.now) \in Nat
         /\ Healthy(t) => /\ Total(err, t.now) = 0
                          /\ Total(lat, t.now) <= MaxLatency * Total(req, t.now)
<1> DEFINE v == SlotOf(t.now)
           w == SlotOf(t.now) - 1
<1>1. t.now \in Slots
  BY DEF Call
<1>2. Recent(t.now) = {v, w} /\ v \in Slots /\ w \in Slots
  BY <1>1, RecentSlots
<1>3. req \in [Slots -> Nat] /\ err \in [Slots -> Nat] /\ lat \in [Slots -> Nat]
  BY DEF MonitorIInv, MonitorTypeOK
<1>4. Total(req, t.now) \in Nat /\ Total(err, t.now) \in Nat /\ Total(lat, t.now) \in Nat
  BY <1>1, <1>3, TotalIsNat
<1>5. ASSUME Healthy(t)
      PROVE  Total(err, t.now) = 0 /\ Total(lat, t.now) <= MaxLatency * Total(req, t.now)
  <2>1. v \notin sick /\ w \notin sick
    BY <1>2, <1>5, Zenon DEF Healthy
  <2>2. Well(v) /\ Well(w)
    BY <1>2, <2>1 DEF MonitorIInv, HealthySlots
  <2> DEFINE a == req[v]
             b == req[w]
             c == lat[v]
             d == lat[w]
  <2>3. a \in Nat /\ b \in Nat /\ c \in Nat /\ d \in Nat /\ err[v] = 0 /\ err[w] = 0
        /\ c <= MaxLatency * a /\ d <= MaxLatency * b
    BY <1>2, <1>3, <2>2 DEF Well
  <2>4. Total(req, t.now) = a + b /\ Total(lat, t.now) = c + d /\ Total(err, t.now) = err[v] + err[w]
    BY DEF Total
  <2> HIDE DEF a, b, c, d
  <2>5. MaxLatency * (a + b) = MaxLatency * a + MaxLatency * b
        /\ MaxLatency * a \in Nat /\ MaxLatency * b \in Nat
    BY <2>3, MonitorAssumption
  <2> QED BY <2>3, <2>4, <2>5
<1> QED BY <1>4, <1>5

LEMMA MgetReqPreserves ==
  ASSUME MonitorIInv, NEW r \in Tasks, MgetReq(r)
  PROVE  MonitorIInv'
<1> DEFINE n == Total(req, call[r].now)
           u == [call[r] EXCEPT !.pc = "mget_err", !.reqs = n, !.quiet = TRUE]
<1>1. /\ call[r] \in Call /\ SoundCall(call[r]) /\ call[r].pc = "mget_req"
      /\ faults \in 0..MaxFaults
  BY CallIsSound, ClockInRange DEF MgetReq
<1>2. call[r].now >= Slot
  BY <1>1 DEF SoundCall
<1>3. n \in Nat
  BY <1>1, <1>2, HealthyTotals
<1>4. call' = [call EXCEPT ![r] = u]
  BY DEF MgetReq
<1>5. UNCHANGED <<req, err, lat, expiry, sick, clock, fallback, faults>>
  BY DEF MgetReq, redis
<1> HIDE DEF n
<1>6. u \in Call /\ u.pc = "mget_err" /\ u.reqs = n /\ u.now = call[r].now
      /\ u.multiplier = call[r].multiplier /\ u.cause = call[r].cause
  BY <1>1, <1>3 DEF Call
<1>7. u.multiplier < Whole /\ u.quiet => u.cause
  <2>1. call[r].multiplier = Whole
    BY <1>1 DEF SoundCall
  <2>2. Whole \in Nat
    BY MonitorAssumption
  <2> HIDE DEF u
  <2> QED BY <1>6, <2>1, <2>2
<1> HIDE DEF u
<1>8. SoundCall(u)
  BY <1>1, <1>2, <1>3, <1>6, <1>7 DEF SoundCall, Reading, n
<1> QED BY <1>1, <1>4, <1>5, <1>6, <1>8, CallStep

LEMMA MgetErrPreserves ==
  ASSUME MonitorIInv, NEW r \in Tasks, MgetErr(r)
  PROVE  MonitorIInv'
<1> DEFINE n == Total(err, call[r].now)
           u == [call[r] EXCEPT !.pc = "mget_lat", !.errs = n]
<1>1. /\ call[r] \in Call /\ SoundCall(call[r]) /\ call[r].pc = "mget_err"
      /\ faults \in 0..MaxFaults
  BY CallIsSound, ClockInRange DEF MgetErr
<1>2. call[r].now >= Slot
  BY <1>1 DEF SoundCall
<1>3. n \in Nat /\ (Healthy(call[r]) => n = 0)
  BY <1>1, <1>2, HealthyTotals
<1>4. call' = [call EXCEPT ![r] = u]
  BY DEF MgetErr
<1>5. UNCHANGED <<req, err, lat, expiry, sick, clock, fallback, faults>>
  BY DEF MgetErr, redis
<1> HIDE DEF n
<1>6. u \in Call /\ u.pc = "mget_lat" /\ u.errs = n /\ u.now = call[r].now
      /\ u.multiplier = call[r].multiplier /\ u.cause = call[r].cause
      /\ u.quiet = call[r].quiet /\ u.reqs = call[r].reqs
  BY <1>1, <1>3 DEF Call
<1> HIDE DEF u
<1>7. Healthy(u) => Healthy(call[r])
  BY <1>6 DEF Healthy
<1>8. SoundCall(u)
  BY <1>1, <1>3, <1>6, <1>7 DEF SoundCall, Reading
<1> QED BY <1>1, <1>4, <1>5, <1>6, <1>8, CallStep

LEMMA MgetLatPreserves ==
  ASSUME MonitorIInv, NEW r \in Tasks, MgetLat(r)
  PROVE  MonitorIInv'
<1> DEFINE t == call[r]
           m == Multiplier(t.reqs, t.errs, Total(lat, t.now))
           cause == Recent(t.now) \intersect sick # {}
           u == Returned(t.proxy, m, t.quiet, cause)
<1>1. /\ t \in Call /\ SoundCall(t) /\ t.pc = "mget_lat" /\ t.proxy \in Proxies
      /\ t.reqs \in Nat /\ t.errs \in Nat /\ t.quiet \in BOOLEAN /\ faults \in 0..MaxFaults
  BY CallIsSound, ClockInRange DEF MgetLat
<1>2. t.now >= Slot
  BY <1>1 DEF SoundCall
<1>3. /\ Total(req, t.now) \in Nat /\ Total(lat, t.now) \in Nat
      /\ Healthy(t) => Total(lat, t.now) <= MaxLatency * Total(req, t.now)
  BY <1>1, <1>2, HealthyTotals
<1>4. m \in MinMultiplier..Whole
  BY <1>1, <1>3, MultiplierInRange
<1>5. cause \in BOOLEAN /\ (~cause => Healthy(t))
  BY Zenon DEF Healthy
<1>6. t.quiet /\ ~cause => m = Whole
  <2> SUFFICES ASSUME t.quiet, Healthy(t) PROVE m = Whole
    BY <1>5
  <2>1. t.errs = 0 /\ t.reqs >= Total(req, t.now)
    BY <1>1 DEF SoundCall, Reading
  <2>2. Total(lat, t.now) <= MaxLatency * t.reqs
    <3> DEFINE a == Total(req, t.now)
               d == t.reqs - Total(req, t.now)
    <3>1. a \in Nat /\ d \in Nat /\ t.reqs = a + d
      BY <1>1, <1>3, <2>1
    <3>2. Total(lat, t.now) <= MaxLatency * a /\ Total(lat, t.now) \in Nat
      BY <1>3
    <3> HIDE DEF a, d
    <3>3. /\ MaxLatency * t.reqs = MaxLatency * a + MaxLatency * d
          /\ MaxLatency * a \in Nat /\ MaxLatency * d \in Nat
      BY <3>1, MonitorAssumption
    <3> QED BY <3>2, <3>3
  <2> QED BY <1>1, <1>3, <2>1, <2>2, HealthyMultiplier
<1>7. call' = [call EXCEPT ![r] = u]
  BY DEF MgetLat
<1>8. UNCHANGED <<req, err, lat, expiry, sick, clock, fallback, faults>>
  BY DEF MgetLat, redis
<1>9. Whole \in Nat /\ MinMultiplier \in Nat
  BY MonitorAssumption
<1> HIDE DEF m, cause, t
<1>10. u \in Call /\ u.pc = "idle" /\ u.multiplier = m /\ u.quiet = t.quiet /\ u.cause = cause
  BY <1>1, <1>4, <1>5, ReturnedIsCall
<1> HIDE DEF u
<1>11. SoundCall(u)
  BY <1>4, <1>6, <1>9, <1>10 DEF SoundCall, Reading
<1> QED BY <1>1, <1>7, <1>8, <1>10, <1>11, CallStep

LEMMA FaultsBounded ==
  ASSUME MonitorIInv, faults < MaxFaults, faults' = faults + 1
  PROVE  faults' \in 0..MaxFaults
BY MonitorAssumption DEF MonitorIInv, MonitorTypeOK

LEMMA LoadFailsPreserves ==
  ASSUME MonitorIInv, NEW r \in Tasks, LoadFails(r)
  PROVE  MonitorIInv'
<1> DEFINE p == call[r].proxy
           f == fallback[p]
           m == Multiplier(f.reqs, f.errs, f.lats)
           u == Returned(p, m, TRUE, f.ill)
<1>1. p \in Proxies /\ f \in Metrics /\ HealthyMetrics(f)
  BY CallIsSound
<1>2. f.reqs \in Nat /\ f.errs \in Nat /\ f.lats \in Nat /\ f.ill \in BOOLEAN
  BY <1>1 DEF Metrics
<1>3. m \in MinMultiplier..Whole
  BY <1>2, MultiplierInRange
<1>4. ~f.ill => m = Whole
  BY <1>1, <1>2, HealthyMultiplier DEF HealthyMetrics
<1>5. call' = [call EXCEPT ![r] = u]
  BY DEF LoadFails
<1>6. UNCHANGED <<req, err, lat, expiry, sick, clock, fallback>> /\ faults' \in 0..MaxFaults
  BY FaultsBounded DEF LoadFails, redis
<1>7. Whole \in Nat /\ MinMultiplier \in Nat
  BY MonitorAssumption
<1> HIDE DEF m, f, p
<1>8. u \in Call /\ u.pc = "idle" /\ u.multiplier = m /\ u.cause = f.ill
  BY <1>1, <1>2, <1>3, ReturnedIsCall
<1> HIDE DEF u
<1>9. SoundCall(u)
  BY <1>2, <1>3, <1>4, <1>7, <1>8 DEF SoundCall, Reading
<1> QED BY <1>5, <1>6, <1>8, <1>9, CallStep

(* A recorded request leaves the healthy slots healthy.                      *)
LEMMA ExecuteHealthy ==
  ASSUME MonitorIInv, NEW t \in Call, Execute(t), clock' = clock
  PROVE  /\ req' \in [Slots -> Nat] /\ err' \in [Slots -> Nat] /\ lat' \in [Slots -> Nat]
         /\ expiry' \in [Slots -> Nat] /\ sick' \subseteq Slots /\ sick \subseteq sick'
         /\ HealthySlots'
<1> DEFINE w == SlotOf(t.now)
           failed == t.failed
           d == t.duration
           ill == Ill(t)
           due == clock + Keep
<1>1. /\ d \in Nat /\ t.now \in Slots /\ failed \in BOOLEAN /\ ill \in BOOLEAN
      /\ ~ill => failed = FALSE /\ d <= MaxLatency
  BY IllIsBoolean
<1>2. w \in Slots
  BY <1>1, SlotOfRange
<1>3. due \in Nat
  BY ClockInRange, MonitorAssumption
<1>4. /\ req \in [Slots -> Nat] /\ err \in [Slots -> Nat] /\ lat \in [Slots -> Nat]
      /\ expiry \in [Slots -> Nat] /\ sick \subseteq Slots
  BY DEF MonitorIInv, MonitorTypeOK
<1>5. /\ req' = [req EXCEPT ![w] = @ + 1]
      /\ err' = [err EXCEPT ![w] = IF failed THEN @ + 1 ELSE @]
      /\ lat' = [lat EXCEPT ![w] = @ + d]
      /\ expiry' = [expiry EXCEPT ![w] = due]
      /\ sick' = IF ill THEN sick \union {w} ELSE sick
  BY Zenon DEF Execute
<1> HIDE DEF w, failed, d, ill, due
<1>6. req' \in [Slots -> Nat] /\ lat' \in [Slots -> Nat] /\ expiry' \in [Slots -> Nat]
  BY <1>1, <1>2, <1>3, <1>4, <1>5
<1>7. err' \in [Slots -> Nat]
  BY <1>1, <1>2, <1>4, <1>5
<1>8. sick' \subseteq Slots /\ sick \subseteq sick'
  BY <1>1, <1>2, <1>4, <1>5
<1>9. ASSUME NEW v \in Slots, v \notin sick' PROVE Well(v)'
  <2>1. Well(v)
    BY <1>8, <1>9 DEF MonitorIInv, HealthySlots
  <2>2. CASE v # w
    BY <1>2, <1>4, <1>5, <2>1, <2>2 DEF Well
  <2>3. CASE v = w
    <3>1. ~ill
      BY <1>5, <1>9, <2>3
    <3>2. req'[v] = req[v] + 1 /\ lat'[v] = lat[v] + d /\ err'[v] = err[v]
      BY <1>1, <1>2, <1>4, <1>5, <2>3, <3>1
    <3>3. err[v] = 0 /\ lat[v] <= MaxLatency * req[v] /\ req[v] \in Nat /\ lat[v] \in Nat
      BY <1>4, <2>1 DEF Well
    <3>4. MaxLatency * (req[v] + 1) = MaxLatency * req[v] + MaxLatency
          /\ MaxLatency * req[v] \in Nat /\ MaxLatency \in Nat
      BY <3>3, MonitorAssumption
    <3> QED BY <1>1, <3>1, <3>2, <3>3, <3>4 DEF Well
  <2> QED BY <2>2, <2>3
<1> QED BY <1>6, <1>7, <1>8, <1>9 DEF HealthySlots

(* The loads that were being read are not quiet any more.                    *)
LEMMA OverlappedSound ==
  ASSUME MonitorIInv, NEW r \in Tasks, call' = Overlapped(r), sick \subseteq sick'
  PROVE  call' \in [Tasks -> Call] /\ \A q \in Tasks : SoundCall(call[q])'
<1> DEFINE u == Returned(call[r].proxy, Whole, TRUE, FALSE)
           quiet(q) == call[q].quiet /\ call[q].pc \notin Reading
           c(q) == [call[q] EXCEPT !.quiet = quiet(q)]
<1>1. u \in Call /\ u.pc = "idle" /\ u.multiplier = Whole
  BY CallIsSound, NothingReturned
<1>2. call' = [q \in Tasks |-> IF q = r THEN u ELSE c(q)]
  BY DEF Overlapped
<1>3. ASSUME NEW q \in Tasks
      PROVE  /\ c(q) \in Call /\ c(q).quiet = quiet(q) /\ c(q).pc = call[q].pc
             /\ c(q).now = call[q].now /\ c(q).errs = call[q].errs
             /\ c(q).multiplier = call[q].multiplier /\ c(q).cause = call[q].cause
  <2>1. call[q] \in Call
    BY CallIsSound
  <2>2. quiet(q) \in BOOLEAN
    BY Zenon
  <2> HIDE DEF quiet
  <2> QED BY <2>1, <2>2 DEF Call
<1>4. \A q \in Tasks : quiet(q) => call[q].quiet /\ call[q].pc \notin Reading
  OBVIOUS
<1> HIDE DEF u, c, quiet
<1>5. call' \in [Tasks -> Call]
  BY <1>1, <1>2, <1>3
<1>6. Whole \in Nat
  BY MonitorAssumption
<1>7. ASSUME NEW q \in Tasks PROVE SoundCall(call[q])'
  <2>1. CASE q = r
    <3>1. call'[q] = u
      BY <1>2, <2>1
    <3> QED BY <1>1, <1>6, <3>1 DEF SoundCall, Reading
  <2>2. CASE q # r
    <3>1. call'[q] = c(q)
      BY <1>2, <2>2
    <3>2. SoundCall(call[q])
      BY CallIsSound
    <3>3. Recent(call[q].now) \intersect sick' = {} => Recent(call[q].now) \intersect sick = {}
      OBVIOUS
    <3>4. call'[q].quiet => call[q].quiet /\ call[q].pc \notin Reading
      BY <1>3, <1>4, <3>1
    <3>5. /\ call'[q].pc = call[q].pc /\ call'[q].now = call[q].now /\ call'[q].errs = call[q].errs
          /\ call'[q].multiplier = call[q].multiplier /\ call'[q].cause = call[q].cause
      BY <1>3, <3>1
    <3> QED BY <3>2, <3>3, <3>4, <3>5 DEF SoundCall, Healthy
  <2> QED BY <2>1, <2>2
<1> QED BY <1>5, <1>7

LEMMA RecordPreserves ==
  ASSUME MonitorIInv, NEW r \in Tasks, Record(r)
  PROVE  MonitorIInv'
<1>1. /\ call[r] \in Call /\ Execute(call[r]) /\ call' = Overlapped(r)
      /\ clock' = clock /\ fallback' = fallback /\ faults' = faults
  BY CallIsSound DEF Record
<1>2. /\ req' \in [Slots -> Nat] /\ err' \in [Slots -> Nat] /\ lat' \in [Slots -> Nat]
      /\ expiry' \in [Slots -> Nat] /\ sick' \subseteq Slots /\ sick \subseteq sick'
      /\ HealthySlots'
  BY <1>1, ExecuteHealthy
<1>3. call' \in [Tasks -> Call] /\ \A q \in Tasks : SoundCall(call[q])'
  BY <1>1, <1>2, OverlappedSound
<1>4. MonitorTypeOK'
  BY <1>1, <1>2, <1>3 DEF MonitorIInv, MonitorTypeOK
<1>5. HealthyMemory'
  BY <1>1 DEF MonitorIInv, HealthyMemory
<1> QED BY <1>2, <1>3, <1>4, <1>5 DEF MonitorIInv

LEMMA RecordFailsPreserves ==
  ASSUME MonitorIInv, NEW r \in Tasks, RecordFails(r)
  PROVE  MonitorIInv'
<1> DEFINE p == call[r].proxy
           f == Aggregated(fallback[p], call[r])
<1>1. /\ call[r] \in Call /\ p \in Proxies
      /\ fallback[p] \in Metrics /\ HealthyMetrics(fallback[p])
  BY CallIsSound
<1>2. f \in Metrics /\ HealthyMetrics(f)
  BY <1>1, AggregatedHealthy
<1>3. /\ fallback' = [fallback EXCEPT ![p] = f] /\ clock' = clock /\ faults' \in 0..MaxFaults
  BY FaultsBounded DEF RecordFails
<1> HIDE DEF f
<1>4. fallback' \in [Proxies -> Metrics] /\ HealthyMemory'
  <2>1. fallback \in [Proxies -> Metrics] /\ \A q \in Proxies : HealthyMetrics(fallback[q])
    BY DEF MonitorIInv, MonitorTypeOK, HealthyMemory
  <2>2. fallback' \in [Proxies -> Metrics]
    BY <1>1, <1>2, <1>3, <2>1
  <2>3. ASSUME NEW q \in Proxies PROVE HealthyMetrics(fallback'[q])
    <3>1. fallback'[q] = f \/ fallback'[q] = fallback[q]
      BY <1>1, <1>3, <2>1
    <3> QED BY <1>2, <2>1, <3>1
  <2> QED BY <2>2, <2>3 DEF HealthyMemory, HealthyMetrics
<1>5. CASE Execute(call[r]) /\ call' = Overlapped(r)
  <2>1. /\ req' \in [Slots -> Nat] /\ err' \in [Slots -> Nat] /\ lat' \in [Slots -> Nat]
        /\ expiry' \in [Slots -> Nat] /\ sick' \subseteq Slots /\ sick \subseteq sick'
        /\ HealthySlots'
    BY <1>1, <1>3, <1>5, ExecuteHealthy
  <2>2. call' \in [Tasks -> Call] /\ \A q \in Tasks : SoundCall(call[q])'
    BY <1>5, <2>1, OverlappedSound
  <2>3. MonitorTypeOK'
    BY <1>3, <1>4, <2>1, <2>2 DEF MonitorIInv, MonitorTypeOK
  <2> QED BY <1>4, <2>1, <2>2, <2>3 DEF MonitorIInv
<1>6. CASE /\ call' = [call EXCEPT ![r] = Returned(p, Whole, TRUE, FALSE)]
           /\ UNCHANGED redis
  <2> DEFINE u == Returned(p, Whole, TRUE, FALSE)
  <2>1. u \in Call /\ u.pc = "idle" /\ u.multiplier = Whole /\ Whole \in Nat
    BY <1>1, NothingReturned, MonitorAssumption
  <2>2. call' = [call EXCEPT ![r] = u]
    BY <1>6
  <2> HIDE DEF u
  <2>3. req' = req /\ err' = err /\ lat' = lat /\ expiry' = expiry /\ sick' = sick
    BY <1>6 DEF redis
  <2>4. call' \in [Tasks -> Call] /\ \A q \in Tasks : call'[q] = u \/ call'[q] = call[q]
    BY <2>1, <2>2 DEF MonitorIInv, MonitorTypeOK
  <2>5. ASSUME NEW q \in Tasks PROVE SoundCall(call[q])'
    <3>1. CASE call'[q] = u
      BY <2>1, <3>1 DEF SoundCall, Reading
    <3>2. CASE call'[q] = call[q]
      BY <2>3, <3>2 DEF MonitorIInv, SoundCall, Healthy, Total
    <3> QED BY <2>4, <3>1, <3>2
  <2>6. MonitorTypeOK'
    BY <1>3, <1>4, <2>3, <2>4 DEF MonitorIInv, MonitorTypeOK
  <2>7. HealthySlots'
    BY <2>3 DEF MonitorIInv, HealthySlots, Well
  <2> QED BY <1>4, <2>5, <2>6, <2>7 DEF MonitorIInv
<1> QED BY <1>5, <1>6 DEF RecordFails

(* Slots are dropped: what is counted can only decrease.                     *)
LEMMA DroppedSound ==
  ASSUME MonitorIInv, sick' = sick, call' = call, req' \in [Slots -> Nat],
         \A w \in Slots : req'[w] = 0 \/ req'[w] = req[w]
  PROVE  \A q \in Tasks : SoundCall(call[q])'
<1> SUFFICES ASSUME NEW q \in Tasks PROVE SoundCall(call[q])'
  OBVIOUS
<1>1. call[q].now \in Slots /\ SoundCall(call[q]) /\ call[q].reqs \in Nat
  BY CallIsSound
<1>2. ASSUME call[q].now >= Slot PROVE Total(req, call[q].now)' <= Total(req, call[q].now)
  <2>1. SlotOf(call[q].now) \in Slots /\ SlotOf(call[q].now) - 1 \in Slots
    BY <1>1, <1>2, RecentSlots
  <2>2. req \in [Slots -> Nat]
    BY DEF MonitorIInv, MonitorTypeOK
  <2> QED BY <2>1, <2>2 DEF Total
<1>3. call[q].now >= Slot => Total(req, call[q].now) \in Nat /\ Total(req, call[q].now)' \in Nat
  <2>1. req \in [Slots -> Nat]
    BY DEF MonitorIInv, MonitorTypeOK
  <2> QED BY <1>1, <2>1, TotalIsNat, RecentSlots DEF Total
<1>4. call[q].pc \in Reading => call[q].now >= Slot
  BY <1>1 DEF SoundCall, Reading
<1> HIDE DEF Reading, Total
<1> QED BY <1>1, <1>2, <1>3, <1>4 DEF SoundCall, Healthy

LEMMA LoseProxyPreserves ==
  ASSUME MonitorIInv, NEW p \in Proxies, LoseProxy(p)
  PROVE  MonitorIInv'
<1> DEFINE u == Returned(p, Whole, TRUE, FALSE)
           n == NoMetrics(clock)
<1>1. u \in Call /\ u.pc = "idle" /\ u.multiplier = Whole /\ Whole \in Nat
  BY NothingReturned, MonitorAssumption
<1>2. n \in Metrics /\ HealthyMetrics(n)
  BY ClockInRange, NoMetricsHealthy
<1>3. /\ fallback' = [fallback EXCEPT ![p] = n]
      /\ call' = [r \in Tasks |-> IF call[r].proxy = p THEN u ELSE call[r]]
      /\ req' = req /\ err' = err /\ lat' = lat /\ expiry' = expiry /\ sick' = sick
      /\ clock' = clock /\ faults' \in 0..MaxFaults
  BY FaultsBounded DEF LoseProxy, redis
<1> HIDE DEF u, n
<1>4. /\ fallback \in [Proxies -> Metrics] /\ \A q \in Proxies : HealthyMetrics(fallback[q])
      /\ call \in [Tasks -> Call]
  BY DEF MonitorIInv, MonitorTypeOK, HealthyMemory
<1>5. /\ fallback' \in [Proxies -> Metrics]
      /\ \A q \in Proxies : fallback'[q] = n \/ fallback'[q] = fallback[q]
  BY <1>2, <1>3, <1>4
<1>6. HealthyMemory'
  BY <1>2, <1>4, <1>5 DEF HealthyMemory, HealthyMetrics
<1>7. /\ call' \in [Tasks -> Call]
      /\ \A q \in Tasks : call'[q] = u \/ call'[q] = call[q]
  BY <1>1, <1>3, <1>4
<1>8. ASSUME NEW q \in Tasks PROVE SoundCall(call[q])'
  <2>1. CASE call'[q] = u
    BY <1>1, <2>1 DEF SoundCall, Reading
  <2>2. CASE call'[q] = call[q]
    BY <1>3, <2>2 DEF MonitorIInv, SoundCall, Healthy, Total
  <2> QED BY <1>7, <2>1, <2>2
<1>9. MonitorTypeOK'
  BY <1>3, <1>5, <1>7 DEF MonitorIInv, MonitorTypeOK
<1>10. HealthySlots'
  BY <1>3 DEF MonitorIInv, HealthySlots, Well
<1> QED BY <1>6, <1>8, <1>9, <1>10 DEF MonitorIInv

LEMMA LoseRedisPreserves ==
  ASSUME MonitorIInv, LoseRedis
  PROVE  MonitorIInv'
<1>1. /\ req' = [w \in Slots |-> 0] /\ err' = [w \in Slots |-> 0] /\ lat' = [w \in Slots |-> 0]
      /\ expiry' = [w \in Slots |-> Forever] /\ sick' = sick /\ call' = call
      /\ clock' = clock /\ fallback' = fallback /\ faults' \in 0..MaxFaults
  BY FaultsBounded DEF LoseRedis
<1>2. Forever \in Nat /\ MaxLatency \in Nat
  BY MonitorAssumption
<1>3. \A q \in Tasks : SoundCall(call[q])'
  BY <1>1, DroppedSound
<1>4. MonitorTypeOK'
  BY <1>1, <1>2 DEF MonitorIInv, MonitorTypeOK
<1>5. HealthySlots' /\ HealthyMemory'
  BY <1>1, <1>2 DEF MonitorIInv, HealthySlots, Well, HealthyMemory
<1> QED BY <1>3, <1>4, <1>5 DEF MonitorIInv

LEMMA TickPreserves ==
  ASSUME MonitorIInv, Tick
  PROVE  MonitorIInv'
<1>1. /\ req' = [w \in Slots |-> IF Due(w) THEN 0 ELSE req[w]]
      /\ err' = [w \in Slots |-> IF Due(w) THEN 0 ELSE err[w]]
      /\ lat' = [w \in Slots |-> IF Due(w) THEN 0 ELSE lat[w]]
      /\ expiry' = [w \in Slots |-> IF Due(w) THEN Forever ELSE expiry[w]]
      /\ clock < MaxClock /\ clock' = clock + 1
      /\ fallback' = fallback /\ call' = call /\ faults' = faults /\ sick' = sick
  BY DEF Tick
<1>2. Forever \in Nat /\ MaxLatency \in Nat /\ MaxClock \in Nat /\ Slot \in Nat
  BY MonitorAssumption
<1>3. MonitorTypeOK
  BY DEF MonitorIInv
<1>4. req' \in [Slots -> Nat] /\ err' \in [Slots -> Nat] /\ lat' \in [Slots -> Nat]
      /\ expiry' \in [Slots -> Nat]
  BY <1>1, <1>2, <1>3 DEF MonitorTypeOK
<1>5. \A q \in Tasks : SoundCall(call[q])'
  BY <1>1, <1>4, DroppedSound
<1>6. clock' \in Slot..MaxClock
  BY <1>1, <1>2, <1>3 DEF MonitorTypeOK
<1>7. MonitorTypeOK'
  BY <1>1, <1>3, <1>4, <1>6 DEF MonitorTypeOK
<1>8. HealthySlots'
  <2> SUFFICES ASSUME NEW w \in Slots, w \notin sick PROVE Well(w)'
    BY <1>1 DEF HealthySlots
  <2>1. Well(w)
    BY DEF MonitorIInv, HealthySlots
  <2>2. CASE Due(w)
    <3>1. req'[w] = 0 /\ err'[w] = 0 /\ lat'[w] = 0
      BY <1>1, <2>2
    <3> QED BY <1>2, <3>1 DEF Well
  <2>3. CASE ~Due(w)
    <3>1. req'[w] = req[w] /\ err'[w] = err[w] /\ lat'[w] = lat[w]
      BY <1>1, <2>3
    <3> QED BY <2>1, <3>1 DEF Well
  <2> QED BY <2>2, <2>3
<1>9. HealthyMemory'
  BY <1>1 DEF MonitorIInv, HealthyMemory
<1> QED BY <1>5, <1>7, <1>8, <1>9 DEF MonitorIInv

LEMMA MonitorStutters ==
  ASSUME MonitorIInv, UNCHANGED monitorVars
  PROVE  MonitorIInv'
<1>1. /\ clock' = clock /\ req' = req /\ err' = err /\ lat' = lat /\ expiry' = expiry
      /\ sick' = sick /\ fallback' = fallback /\ call' = call /\ faults' = faults
  BY DEF monitorVars, redis
<1>2. MonitorTypeOK' /\ HealthySlots' /\ HealthyMemory'
  BY <1>1 DEF MonitorIInv, MonitorTypeOK, HealthySlots, Well, HealthyMemory
<1>3. \A q \in Tasks : SoundCall(call[q])'
  BY <1>1 DEF MonitorIInv, SoundCall, Healthy, Total
<1> QED BY <1>2, <1>3 DEF MonitorIInv

LEMMA MonitorNextPreserves == MonitorIInv /\ [MonitorNext]_monitorVars => MonitorIInv'
<1> SUFFICES ASSUME MonitorIInv, [MonitorNext]_monitorVars PROVE MonitorIInv'
  OBVIOUS
<1>1. CASE \E r \in Tasks, p \in Proxies, d \in Durations, failed \in BOOLEAN :
             BeginRecord(r, p, d, failed)
  BY <1>1, BeginRecordPreserves
<1>2. CASE \E r \in Tasks, p \in Proxies : BeginLoad(r, p)
  BY <1>2, BeginLoadPreserves
<1>3. ASSUME NEW r \in Tasks, Answered(r) PROVE MonitorIInv'
  BY <1>3, RecordPreserves, MgetReqPreserves, MgetErrPreserves, MgetLatPreserves DEF Answered
<1>4. ASSUME NEW r \in Tasks, Failed(r) PROVE MonitorIInv'
  BY <1>4, RecordFailsPreserves, LoadFailsPreserves DEF Failed
<1>5. CASE \E r \in Tasks : Use(r)
  BY <1>5, UsePreserves
<1>6. CASE \E p \in Proxies : LoseProxy(p)
  BY <1>6, LoseProxyPreserves
<1>7. CASE LoseRedis
  BY <1>7, LoseRedisPreserves
<1>8. CASE Tick
  BY <1>8, TickPreserves
<1>9. CASE UNCHANGED monitorVars
  BY <1>9, MonitorStutters
<1> QED BY <1>1, <1>2, <1>3, <1>4, <1>5, <1>6, <1>7, <1>8, <1>9 DEF MonitorNext

LEMMA OverloadsExplained == MonitorIInv => MonitorTypeOK /\ OverloadHasCause
BY DEF MonitorIInv, OverloadHasCause, SoundCall

(* Whatever a load added up, from different moments or from memory, its      *)
(* multiplier is between min_multiplier and 1.0.                             *)
THEOREM MonitorTypeCorrect == MonitorSpec => []MonitorTypeOK
BY MonitorInitHolds, MonitorNextPreserves, OverloadsExplained, PTL DEF MonitorSpec

(* Limits are tightened only because of a slow or failed request that is     *)
(* among those counted, unless requests were recorded while they were read:  *)
(* for any number of concurrent calls, and for loads from memory as well.    *)
THEOREM MonitorIsFair == MonitorSpec => []OverloadHasCause
BY MonitorInitHolds, MonitorNextPreserves, OverloadsExplained, PTL DEF MonitorSpec

===============================================================================
