----------------------------- MODULE GlobalMonitor -----------------------------
(***************************************************************************)
(* GlobalSystemMonitor: requests that were forwarded are recorded in slots *)
(* of ten seconds that all proxies share in Redis, and every evaluation    *)
(* derives a load multiplier from the current and the previous slot.  When *)
(* Redis fails, a proxy uses metrics of its own memory.                    *)
(*                                                                         *)
(* A record is one transaction (MULTI / EXEC), but a load is read by three *)
(* commands, between which other requests may be recorded.  The monitor is *)
(* enabled, as in every policy file of the repository.                     *)
(***************************************************************************)
EXTENDS Integers

CONSTANTS
  Proxies,         \* proxy processes
  Tasks,           \* coroutines that call the monitor, over all proxies
  Slot,            \* length of a slot
  Keep,            \* TTL of a slot's keys
  Durations,       \* durations of backend calls
  MaxLatency,      \* max_backend_latency_ms
  MaxErrorPercent, \* max_error_rate, in percent
  Whole,           \* the multiplier 1.0: multipliers are in parts of it
  MinMultiplier,   \* min_multiplier
  Forever,         \* the TTL of a key that does not exist
  MaxClock,        \* bound: the last instant of the model
  MaxFaults        \* bound: failed commands and restarts

ASSUME MonitorAssumption ==
  /\ Slot \in Nat \ {0}
  /\ Keep \in Nat \ {0}
  /\ Durations \subseteq Nat
  /\ MaxLatency \in Nat \ {0}
  /\ MaxErrorPercent \in 0..99
  /\ Whole \in Nat /\ MinMultiplier \in 0..Whole
  /\ MaxClock \in Nat /\ MaxClock >= Slot /\ MaxFaults \in Nat
  /\ Forever \in Nat /\ Forever > MaxClock

VARIABLES
  clock,     \* time.time()
  req,       \* slot -> global:req:{slot}, 0 if there is no such key
  err,       \* slot -> global:err:{slot}
  lat,       \* slot -> global:lat:{slot}
  expiry,    \* slot -> when its keys are dropped
  fallback,  \* proxy -> _fallback_metrics
  call,      \* task -> where its call of the monitor is, and its locals
  faults,    \* faults so far
  sick       \* history: the slots in which a slow or failed request was recorded

redis == <<req, err, lat, expiry, sick>>

monitorVars == <<clock, redis, fallback, call, faults>>

Slots == 0..MaxClock

SlotOf(now) == now \div Slot

(* ill: history, whether one of the requests counted was slow or failed. *)
Metrics == [reqs : Nat, errs : Nat, lats : Nat, last_reset : Nat, ill : BOOLEAN]

(* slow, failed: the request recorded.  reqs, errs: what the load read so    *)
(* far.  multiplier: the load last returned; quiet: no request was recorded  *)
(* while it was read; cause: it counts a slow or failed request (history).   *)
Call ==
  [pc : {"idle", "execute", "mget_req", "mget_err", "mget_lat"}, proxy : Proxies,
   now : Slots, duration : Durations \union {0}, failed : BOOLEAN,
   reqs : Nat, errs : Nat, multiplier : MinMultiplier..Whole,
   quiet : BOOLEAN, cause : BOOLEAN]

Larger(a, b) == IF a > b THEN a ELSE b

Smaller(a, b) == IF a < b THEN a ELSE b

Returned(p, multiplier, quiet, cause) ==
  [pc |-> "idle", proxy |-> p, now |-> 0, duration |-> 0, failed |-> FALSE,
   reqs |-> 0, errs |-> 0, multiplier |-> multiplier, quiet |-> quiet, cause |-> cause]

NoMetrics(now) ==
  [reqs |-> 0, errs |-> 0, lats |-> 0, last_reset |-> now, ill |-> FALSE]

(* A window id of the program is never 0, so that every slot has a previous. *)
MonitorInit ==
  /\ clock = Slot
  /\ req = [w \in Slots |-> 0]
  /\ err = [w \in Slots |-> 0]
  /\ lat = [w \in Slots |-> 0]
  /\ expiry = [w \in Slots |-> Forever]
  /\ fallback = [p \in Proxies |-> NoMetrics(clock)]
  /\ \E p \in Proxies : call = [r \in Tasks |-> Returned(p, Whole, TRUE, FALSE)]
  /\ faults = 0
  /\ sick = {}

-------------------------------------------------------------------------------
(***************************************************************************)
(* record_request.                                                         *)
(***************************************************************************)

Ill(t) == t.failed \/ t.duration > MaxLatency

BeginRecord(r, p, duration, failed) ==
  /\ call[r].pc = "idle"
  /\ call' = [call EXCEPT ![r] =
                [Returned(p, Whole, TRUE, FALSE) EXCEPT
                   !.pc = "execute", !.now = clock, !.duration = duration,
                   !.failed = failed]]
  /\ UNCHANGED <<clock, redis, fallback, faults>>

(* The pipeline is executed.  Loads that are being read are not quiet.       *)
Execute(t) ==
  LET w == SlotOf(t.now)
  IN  /\ req' = [req EXCEPT ![w] = @ + 1]
      /\ err' = [err EXCEPT ![w] = IF t.failed THEN @ + 1 ELSE @]
      /\ lat' = [lat EXCEPT ![w] = @ + t.duration]
      /\ expiry' = [expiry EXCEPT ![w] = clock + Keep]
      /\ sick' = IF Ill(t) THEN sick \union {w} ELSE sick

(* A load that has read some of the keys. *)
Reading == {"mget_err", "mget_lat"}

(* The calls once r has returned, and a request been recorded in Redis. *)
Overlapped(r) ==
  [q \in Tasks |-> IF q = r THEN Returned(call[r].proxy, Whole, TRUE, FALSE)
                   ELSE [call[q] EXCEPT !.quiet = @ /\ call[q].pc \notin Reading]]

Record(r) ==
  /\ call[r].pc = "execute"
  /\ Execute(call[r])
  /\ call' = Overlapped(r)
  /\ UNCHANGED <<clock, fallback, faults>>

(* The metrics with the request t added, or begun anew with it once they     *)
(* are ten seconds old.                                                      *)
Aggregated(m, t) ==
  LET failed == IF t.failed THEN 1 ELSE 0
  IN  IF t.now - m.last_reset >= Slot
      THEN [reqs |-> 1, errs |-> failed, lats |-> t.duration,
            last_reset |-> t.now, ill |-> Ill(t)]
      ELSE [reqs |-> m.reqs + 1, errs |-> m.errs + failed, lats |-> m.lats + t.duration,
            last_reset |-> m.last_reset, ill |-> m.ill \/ Ill(t)]

(* The pipeline raises, executed or not, and the fallback counts as well. *)
RecordFails(r) ==
  LET t == call[r]
  IN  /\ t.pc = "execute"
      /\ faults < MaxFaults
      /\ \/ Execute(t) /\ call' = Overlapped(r)
         \/ /\ call' = [call EXCEPT ![r] = Returned(t.proxy, Whole, TRUE, FALSE)]
            /\ UNCHANGED redis
      /\ fallback' = [fallback EXCEPT ![t.proxy] = Aggregated(@, t)]
      /\ faults' = faults + 1
      /\ UNCHANGED clock

-------------------------------------------------------------------------------
(***************************************************************************)
(* get_system_load.                                                        *)
(***************************************************************************)

BeginLoad(r, p) ==
  /\ call[r].pc = "idle"
  /\ call' = [call EXCEPT ![r] =
                [Returned(p, Whole, TRUE, FALSE) EXCEPT !.pc = "mget_req", !.now = clock]]
  /\ UNCHANGED <<clock, redis, fallback, faults>>

(* The current and the previous slot of a load that began at now. *)
Recent(now) == {SlotOf(now), SlotOf(now) - 1}

(* Mutant: the slot before the previous one is counted as well. *)
MutantTotal(counts, now) ==
  counts[SlotOf(now)] + counts[SlotOf(now) - 1]
    + (IF SlotOf(now) > 1 THEN counts[SlotOf(now) - 2] ELSE 0)

(* What MGET finds in them, added up. *)
Total(counts, now) == counts[SlotOf(now)] + counts[SlotOf(now) - 1]

(* Mutant: min_multiplier is left out. *)
MutantReduced(over, base) == Whole - (Whole * over) \div base

(* The share of Whole that remains when a measure is over / base beyond what *)
(* is tolerated.                                                             *)
Reduced(over, base) == Larger(MinMultiplier, Whole - (Whole * over) \div base)

(* The average latency, lats / reqs, beyond MaxLatency. *)
LatencyFactor(reqs, lats) ==
  IF lats > MaxLatency * reqs
  THEN Reduced(lats - MaxLatency * reqs, MaxLatency * reqs) ELSE Whole

(* The error rate, errs / reqs, beyond MaxErrorPercent. *)
ErrorFactor(reqs, errs) ==
  IF 100 * errs > MaxErrorPercent * reqs
  THEN Reduced(100 * errs - MaxErrorPercent * reqs, (100 - MaxErrorPercent) * reqs)
  ELSE Whole

Multiplier(reqs, errs, lats) ==
  IF reqs = 0 THEN Whole
  ELSE Smaller(LatencyFactor(reqs, lats), ErrorFactor(reqs, errs))

MgetReq(r) ==
  /\ call[r].pc = "mget_req"
  /\ call' = [call EXCEPT ![r].pc = "mget_err", ![r].reqs = Total(req, call[r].now),
                          ![r].quiet = TRUE]
  /\ UNCHANGED <<clock, redis, fallback, faults>>

MgetErr(r) ==
  /\ call[r].pc = "mget_err"
  /\ call' = [call EXCEPT ![r].pc = "mget_lat", ![r].errs = Total(err, call[r].now)]
  /\ UNCHANGED <<clock, redis, fallback, faults>>

MgetLat(r) ==
  LET t == call[r]
  IN  /\ t.pc = "mget_lat"
      /\ call' = [call EXCEPT ![r] =
                    Returned(t.proxy, Multiplier(t.reqs, t.errs, Total(lat, t.now)),
                             t.quiet, Recent(t.now) \intersect sick # {})]
      /\ UNCHANGED <<clock, redis, fallback, faults>>

(* One of the commands raises: the load is that of the proxy's own memory. *)
LoadFails(r) ==
  LET t == call[r]
      m == fallback[t.proxy]
  IN  /\ t.pc \in {"mget_req", "mget_err", "mget_lat"}
      /\ faults < MaxFaults
      /\ call' = [call EXCEPT ![r] =
                    Returned(t.proxy, Multiplier(m.reqs, m.errs, m.lats), TRUE, m.ill)]
      /\ faults' = faults + 1
      /\ UNCHANGED <<clock, redis, fallback>>

(* The caller has taken the load and is done with it. *)
Use(r) ==
  /\ call[r].pc = "idle"
  /\ call' = [call EXCEPT ![r] = Returned(@.proxy, Whole, TRUE, FALSE)]
  /\ UNCHANGED <<clock, redis, fallback, faults>>

-------------------------------------------------------------------------------
(***************************************************************************)
(* The environment.                                                        *)
(***************************************************************************)

Due(w) == expiry[w] <= clock + 1

(* Time passes, and Redis drops the slots that are due. *)
Tick ==
  /\ clock < MaxClock
  /\ clock' = clock + 1
  /\ req' = [w \in Slots |-> IF Due(w) THEN 0 ELSE req[w]]
  /\ err' = [w \in Slots |-> IF Due(w) THEN 0 ELSE err[w]]
  /\ lat' = [w \in Slots |-> IF Due(w) THEN 0 ELSE lat[w]]
  /\ expiry' = [w \in Slots |-> IF Due(w) THEN Forever ELSE expiry[w]]
  /\ UNCHANGED <<fallback, call, faults, sick>>

(* The calls and the memory of proxy p are gone. *)
LoseProxy(p) ==
  /\ faults < MaxFaults
  /\ fallback' = [fallback EXCEPT ![p] = NoMetrics(clock)]
  /\ call' = [r \in Tasks |-> IF call[r].proxy = p
                              THEN Returned(p, Whole, TRUE, FALSE) ELSE call[r]]
  /\ faults' = faults + 1
  /\ UNCHANGED <<clock, redis>>

(* Redis restarts without its data. *)
LoseRedis ==
  /\ faults < MaxFaults
  /\ req' = [w \in Slots |-> 0]
  /\ err' = [w \in Slots |-> 0]
  /\ lat' = [w \in Slots |-> 0]
  /\ expiry' = [w \in Slots |-> Forever]
  /\ faults' = faults + 1
  /\ UNCHANGED <<clock, fallback, call, sick>>

-------------------------------------------------------------------------------

Answered(r) == Record(r) \/ MgetReq(r) \/ MgetErr(r) \/ MgetLat(r)

Failed(r) == RecordFails(r) \/ LoadFails(r)

MonitorNext ==
  \/ \E r \in Tasks, p \in Proxies, d \in Durations, failed \in BOOLEAN :
       BeginRecord(r, p, d, failed)
  \/ \E r \in Tasks, p \in Proxies : BeginLoad(r, p)
  \/ \E r \in Tasks : Answered(r) \/ Failed(r) \/ Use(r)
  \/ \E p \in Proxies : LoseProxy(p)
  \/ LoseRedis
  \/ Tick

MonitorSpec == MonitorInit /\ [][MonitorNext]_monitorVars

-------------------------------------------------------------------------------
(***************************************************************************)
(* Properties.                                                             *)
(***************************************************************************)

(* The variables keep their types; no multiplier leaves its range, whatever  *)
(* a load added up from different moments.                                   *)
MonitorTypeOK ==
  /\ clock \in Slot..MaxClock
  /\ req \in [Slots -> Nat]
  /\ err \in [Slots -> Nat]
  /\ lat \in [Slots -> Nat]
  /\ expiry \in [Slots -> Nat]
  /\ fallback \in [Proxies -> Metrics]
  /\ call \in [Tasks -> Call]
  /\ faults \in 0..MaxFaults
  /\ sick \subseteq Slots

(* Limits are tightened only for a reason: one of the requests that count,   *)
(* those of the last two slots or of the proxy's memory, was slow or failed. *)
(* Older ones are forgotten.  A load that overlaps a record is excepted: it  *)
(* may divide the latencies or errors of more requests by the number of      *)
(* fewer.                                                                    *)
OverloadHasCause ==
  \A r \in Tasks :
    call[r].multiplier < Whole /\ call[r].quiet => call[r].cause

===============================================================================
