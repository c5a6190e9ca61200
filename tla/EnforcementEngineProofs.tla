------------------------ MODULE EnforcementEngineProofs ------------------------
(***************************************************************************)
(* Proofs about EnforcementEngine, for any number of clients, proxies and  *)
(* coroutines, any policy whose tiers ascend, any faults and any timing.   *)
(***************************************************************************)
EXTENDS EnforcementEngine, TLAPS

(* What is true of every copy of a record, wherever it is.                   *)
Coherent(rec) ==
  /\ CoversViolations(rec)
  /\ DeadlineMatches(rec)
  /\ StopsAtTempBlock(rec)

(* A task that is at the limiter, or on its way there through a save, works  *)
(* on the record of a client that is not blocked.  Without it a violation    *)
(* of a blocked client could raise the count above the temporary block's.    *)
BoundForLimiter(t) ==
  t.pc = "limit" \/ (t.pc \in {"hset", "expire"} /\ t.then = "limit")

GoodTask(t) ==
  /\ t \in Task
  /\ Coherent(t.rec)
  /\ Coherent(t.seen)
  /\ BoundForLimiter(t) => ~Blocked(t.rec)

GoodReply(reply) == reply # NoKey => Coherent(reply)

(* The inductive invariant. *)
IInv ==
  /\ TypeOK
  /\ \A c \in Clients : GoodReply(store[c])
  /\ \A p \in Proxies, c \in Clients : GoodReply(fallback[p][c])
  /\ \A r \in Tasks : GoodTask(task[r])

-------------------------------------------------------------------------------
(***************************************************************************)
(* The escalation policy.                                                  *)
(***************************************************************************)

(* NextLevel, the ladder of engine.py:220-229, always yields a level, and it *)
(* is no milder than any tier that is triggered.                             *)
LEMMA NextLevelCovers ==
  ASSUME NEW level \in Levels, NEW violations \in Nat, NEW score \in Nat
  PROVE  /\ NextLevel(level, violations, score) \in Levels
         /\ \A t \in Tiers : Triggered(t, violations, score)
                               => NextLevel(level, violations, score) >= t
         /\ NextLevel(level, violations, score) = level
              \/ NextLevel(level, violations, score) \in Tiers
<1> DEFINE hit == {t \in Tiers : Triggered(t, violations, score)}
<1> DEFINE IsTop(t) == t \in hit /\ \A u \in hit : u <= t
<1>1. hit \subseteq {1, 2, 3, 4}
  BY DEF Tiers, THROTTLE, FULL_BLOCK
<1>2. CASE hit = {}
  <2>1. NextLevel(level, violations, score) = level
    BY <1>2 DEF NextLevel
  <2> QED BY <2>1, <1>2
<1>3. CASE hit # {}
  <2>1. \E t : IsTop(t)
    <3>1. CASE 4 \in hit BY <3>1, <1>1
    <3>2. CASE 4 \notin hit /\ 3 \in hit BY <3>2, <1>1
    <3>3. CASE 4 \notin hit /\ 3 \notin hit /\ 2 \in hit BY <3>3, <1>1
    <3>4. CASE 4 \notin hit /\ 3 \notin hit /\ 2 \notin hit
      BY <3>4, <1>1, <1>3
    <3> QED BY <3>1, <3>2, <3>3, <3>4
  <2>2. NextLevel(level, violations, score)
          = CHOOSE t \in hit : \A u \in hit : u <= t
    BY <1>3 DEF NextLevel
  <2>3. IsTop(NextLevel(level, violations, score))
    BY <2>1, <2>2
  <2>4. hit \subseteq Levels
    BY DEF Levels, Tiers, ALLOW, THROTTLE, FULL_BLOCK
  <2>5. hit \subseteq Tiers
    OBVIOUS
  <2>6. \A t \in Tiers : Triggered(t, violations, score)
                          => NextLevel(level, violations, score) >= t
    BY <2>3 DEF Tiers, THROTTLE, FULL_BLOCK
  <2> QED BY <2>3, <2>4, <2>5, <2>6
<1> QED BY <1>2, <1>3

USE DEF ALLOW, THROTTLE, CHALLENGE, TEMP_BLOCK, FULL_BLOCK, Levels, Tiers

(* The record of a client nobody has heard of is coherent. *)
LEMMA FreshIsCoherent == Fresh \in Record /\ Coherent(Fresh) /\ ~Blocked(Fresh)
BY TriggerAssumption
   DEF Fresh, Record, Coherent, CoversViolations, DeadlineMatches,
       Deadline, StopsAtTempBlock, Blocked

(* The record saved after a cooldown (engine.py:138-143) is coherent. *)
LEMMA ResetIsCoherent ==
  ASSUME NEW now \in Nat
  PROVE  Reset(now) \in Record /\ Coherent(Reset(now)) /\ ~Blocked(Reset(now))
BY TriggerAssumption
   DEF Reset, Record, Coherent, CoversViolations, DeadlineMatches,
       Deadline, StopsAtTempBlock, Blocked

(* The record saved after a temporary block (engine.py:147-153) is coherent. *)
LEMMA DeescalatedIsCoherent ==
  ASSUME NEW now \in Nat
  PROVE  /\ Deescalated(now) \in Record
         /\ Coherent(Deescalated(now))
         /\ ~Blocked(Deescalated(now))
<1> DEFINE rec == Deescalated(now)
<1>1. rec \in Record /\ ~Blocked(rec)
  BY TriggerAssumption DEF Deescalated, Record, Blocked
<1>2. CoversViolations(rec)
  BY TriggerAssumption, TriggersAscend DEF Deescalated, CoversViolations
<1>3. DeadlineMatches(rec)
  BY DEF Deescalated, DeadlineMatches, Deadline
<1>4. StopsAtTempBlock(rec)
  BY TriggerAssumption, TriggersAscend DEF Deescalated, StopsAtTempBlock
<1> QED BY <1>1, <1>2, <1>3, <1>4 DEF Coherent

(* A violation of a client that is not blocked (engine.py:212-235) keeps its *)
(* record coherent.                                                          *)
LEMMA PenalisedIsCoherent ==
  ASSUME NEW rec \in Record, Coherent(rec), ~Blocked(rec),
         NEW now \in Nat, NEW score \in Nat
  PROVE  Penalised(rec, now, score) \in Record /\ Coherent(Penalised(rec, now, score))
<1> DEFINE level == NextLevel(rec.level, rec.violations + 1, score)
           new   == Penalised(rec, now, score)
<1>1. rec.level \in Levels /\ rec.violations \in Nat /\ rec.until \in Nat
  BY DEF Record
<1>2. /\ level \in Levels
      /\ \A t \in Tiers : Triggered(t, rec.violations + 1, score) => level >= t
  BY <1>1, NextLevelCovers
<1>3. rec.until = 0
  BY DEF Coherent, DeadlineMatches, Deadline, Blocked
<1>4. new = [level |-> level, violations |-> rec.violations + 1, last |-> now,
             until |-> Deadline(level, rec.until, now)]
  BY DEF Penalised
<1>5. new.until = Deadline(level, 0, now) /\ Deadline(level, 0, now) \in Nat
  BY <1>3, <1>4, TimingAssumption DEF Deadline
<1>6. new \in Record
  BY <1>1, <1>2, <1>4, <1>5 DEF Record
<1>7. CoversViolations(new)
  BY <1>2, <1>4 DEF CoversViolations, Triggered
<1>8. DeadlineMatches(new)
  BY <1>4, <1>5 DEF DeadlineMatches
<1>9. StopsAtTempBlock(new)
  <2>1. rec.level < TEMP_BLOCK
    BY <1>1 DEF Blocked
  <2>2. rec.violations < TriggerViolations[TEMP_BLOCK]
    BY <2>1, <1>1, TriggerAssumption DEF Coherent, CoversViolations
  <2> QED BY <2>2, <1>1, <1>4, TriggerAssumption DEF StopsAtTempBlock
<1> QED BY <1>6, <1>7, <1>8, <1>9 DEF Coherent

-------------------------------------------------------------------------------
(***************************************************************************)
(* What a coroutine does to its own locals.                                *)
(***************************************************************************)

LEMMA ReturnedIsGood ==
  ASSUME NEW t, t.proxy \in Proxies, t.client \in Clients,
         NEW decision \in Decision
  PROVE  GoodTask(Returned(t, decision))
BY FreshIsCoherent DEF GoodTask, Returned, Task, BoundForLimiter

LEMMA DecisionsAreTyped ==
  /\ Allow(ALLOW) \in Decision
  /\ \A level \in Levels : Allow(level) \in Decision /\ Deny(level) \in Decision
BY DEF Allow, Deny, Decision

LEMMA IdleIsGood ==
  ASSUME NEW p \in Proxies, NEW c \in Clients
  PROVE  GoodTask(Returned([proxy |-> p, client |-> c], Allow(ALLOW)))
<1> DEFINE t == [proxy |-> p, client |-> c]
<1>1. t.proxy \in Proxies /\ t.client \in Clients
  OBVIOUS
<1> HIDE DEF t
<1>2. GoodTask(Returned(t, Allow(ALLOW)))
  BY <1>1, ReturnedIsGood, DecisionsAreTyped
<1> QED BY <1>2 DEF t

(* Whatever record the fetch returns, the coroutine goes on with a good one. *)
LEMMA AfterFetchIsGood ==
  ASSUME NEW t \in Task,
         NEW rec \in Record, Coherent(rec)
  PROVE  GoodTask(AfterFetch(t, rec))
<1> DEFINE Saved(new) == Suspended(t, "hset", "limit", new, rec, t.decision)
<1>1. /\ t.now \in Nat /\ t.proxy \in Proxies /\ t.client \in Clients
      /\ t.decision \in Decision /\ rec.level \in Levels
  BY DEF Task, Record
<1>2. ASSUME NEW new \in Record, Coherent(new), ~Blocked(new)
      PROVE  GoodTask(Saved(new))
  BY <1>1, <1>2 DEF GoodTask, Task, BoundForLimiter, Suspended
<1>3. GoodTask(Saved(Reset(t.now)))
  BY <1>1, <1>2, ResetIsCoherent
<1>4. GoodTask(Saved(Deescalated(t.now)))
  BY <1>1, <1>2, DeescalatedIsCoherent
<1>5. GoodTask(Returned(t, Deny(rec.level)))
  BY <1>1, ReturnedIsGood, DecisionsAreTyped
<1>6. CASE ~Blocked(rec)
  <2>1. GoodTask(Suspended(t, "limit", "done", rec, rec, t.decision))
    BY <1>1, <1>6 DEF GoodTask, Task, BoundForLimiter, Suspended
  <2> QED BY <2>1, <1>3, <1>4, <1>6 DEF AfterFetch
<1>7. CASE Blocked(rec)
  BY <1>3, <1>4, <1>5, <1>7 DEF AfterFetch
<1> QED BY <1>6, <1>7

LEMMA AfterSaveIsGood ==
  ASSUME NEW t, GoodTask(t), t.pc \in {"hset", "expire"}
  PROVE  GoodTask(AfterSave(t))
<1>1. t \in Task /\ t.then \in {"limit", "done"} /\ t.decision \in Decision
      /\ t.proxy \in Proxies /\ t.client \in Clients
  BY DEF GoodTask, Task
<1>2. CASE t.then = "limit"
  <2>1. ~Blocked(t.rec)
    BY <1>2 DEF GoodTask, BoundForLimiter
  <2>2. GoodTask(Suspended(t, "limit", "done", t.rec, t.seen, t.decision))
    BY <1>1, <2>1 DEF GoodTask, Task, BoundForLimiter, Suspended
  <2> QED BY <2>2, <1>2 DEF AfterSave
<1>3. CASE t.then # "limit"
  BY <1>1, <1>3, ReturnedIsGood DEF AfterSave
<1> QED BY <1>2, <1>3

(* A step of one coroutine leaves every coroutine good if it leaves that one *)
(* good.                                                                     *)
LEMMA OneTaskSteps ==
  ASSUME NEW r \in Tasks, NEW new, GoodTask(new),
         task \in [Tasks -> Task], \A s \in Tasks : GoodTask(task[s]),
         task' = [task EXCEPT ![r] = new]
  PROVE  task' \in [Tasks -> Task] /\ \A s \in Tasks : GoodTask(task'[s])
<1>1. new \in Task
  BY DEF GoodTask
<1> QED BY <1>1

(* A proxy's own record of a client is coherent, or the default. *)
LEMMA FallbackIsCoherent ==
  ASSUME IInv, NEW p \in Proxies, NEW c \in Clients
  PROVE  FallbackRecord(p, c) \in Record /\ Coherent(FallbackRecord(p, c))
BY FreshIsCoherent DEF FallbackRecord, IInv, TypeOK, GoodReply

(* Replacing one client's hash by a coherent record keeps the store sound. *)
LEMMA StoreOneRecord ==
  ASSUME IInv, NEW c \in Clients, NEW rec \in Record, Coherent(rec)
  PROVE  LET new == [store EXCEPT ![c] = rec]
         IN  /\ new \in [Clients -> Record \union {NoKey}]
             /\ \A d \in Clients : GoodReply(new[d])
BY DEF IInv, TypeOK, GoodReply

LEMMA InFallbackIsGood ==
  ASSUME IInv, NEW r \in Tasks
  PROVE  /\ InFallback(task[r]) \in [Proxies -> [Clients -> Record \union {NoKey}]]
         /\ \A p \in Proxies, c \in Clients : GoodReply(InFallback(task[r])[p][c])
<1>1. /\ task[r].proxy \in Proxies /\ task[r].client \in Clients
      /\ task[r].rec \in Record /\ Coherent(task[r].rec)
  BY DEF IInv, GoodTask, Task
<1>2. fallback \in [Proxies -> [Clients -> Record \union {NoKey}]]
      /\ \A p \in Proxies, c \in Clients : GoodReply(fallback[p][c])
  BY DEF IInv, TypeOK
<1> QED BY <1>1, <1>2 DEF InFallback, GoodReply

LEMMA WithTtlIsGood ==
  ASSUME IInv, NEW r \in Tasks
  PROVE  WithTtl(task[r]) \in [Clients -> Nat]
<1>1. task[r].client \in Clients /\ task[r].rec.until \in Nat
  BY DEF IInv, GoodTask, Task, Record
<1>2. Ttl(task[r].rec, clock) \in Nat
  BY <1>1, TimingAssumption DEF Ttl, IInv, TypeOK
<1> QED BY <1>1, <1>2 DEF WithTtl, IInv, TypeOK

-------------------------------------------------------------------------------
(***************************************************************************)
(* The inductive invariant.                                                *)
(***************************************************************************)

LEMMA InitIsGood == Init => IInv
<1> SUFFICES ASSUME Init PROVE IInv
  OBVIOUS
<1>1. task \in [Tasks -> Task] /\ \A r \in Tasks : GoodTask(task[r])
  <2>1. PICK p \in Proxies, c \in Clients :
          task = [r \in Tasks |-> Returned([proxy |-> p, client |-> c], Allow(ALLOW))]
    BY DEF Init
  <2>2. GoodTask(Returned([proxy |-> p, client |-> c], Allow(ALLOW)))
    BY IdleIsGood
  <2> QED BY <2>1, <2>2 DEF GoodTask
<1>2. TypeOK
  BY <1>1, EngineAssumption DEF Init, TypeOK
<1> QED BY <1>1, <1>2 DEF IInv, Init, GoodReply

(* Every step of every coroutine, failed or not, every restart and every     *)
(* tick keeps the invariant.                                                 *)
LEMMA NextIsGood == IInv /\ [Next]_vars => IInv'
<1> SUFFICES ASSUME IInv, [Next]_vars PROVE IInv'
  OBVIOUS
<1> USE DEF IInv, TypeOK
<1>1. ASSUME NEW r \in Tasks, NEW p \in Proxies, NEW c \in Clients,
             Arrive(r, p, c)
      PROVE  IInv'
  <2> DEFINE new == [pc |-> "fetch", then |-> "done", proxy |-> p, client |-> c,
                     now |-> clock, rec |-> Fresh, seen |-> Fresh,
                     decision |-> Allow(ALLOW)]
  <2>1. GoodTask(new)
    BY FreshIsCoherent, EngineAssumption
       DEF GoodTask, Task, BoundForLimiter, Allow, Decision
  <2>2. task' = [task EXCEPT ![r] = new]
    BY <1>1 DEF Arrive
  <2> HIDE DEF new
  <2>3. task' \in [Tasks -> Task] /\ \A s \in Tasks : GoodTask(task'[s])
    BY <2>1, <2>2, OneTaskSteps
  <2> QED BY <1>1, <2>3 DEF Arrive
<1>2. ASSUME NEW r \in Tasks, NEW p \in Proxies, NEW c \in Clients,
             ArriveWhitelisted(r, p, c)
      PROVE  IInv'
  <2>1. GoodTask(Returned([proxy |-> p, client |-> c], Allow(ALLOW)))
    BY IdleIsGood
  <2>2. task' \in [Tasks -> Task] /\ \A s \in Tasks : GoodTask(task'[s])
    BY <1>2, <2>1, OneTaskSteps DEF ArriveWhitelisted
  <2> QED BY <1>2, <2>2 DEF ArriveWhitelisted
<1>3. ASSUME NEW r \in Tasks, Fetch(r) PROVE IInv'
  <2> DEFINE rec == IF store[task[r].client] = NoKey
                    THEN FallbackRecord(task[r].proxy, task[r].client)
                    ELSE store[task[r].client]
  <2>1. /\ task[r] \in Task
        /\ task[r].proxy \in Proxies /\ task[r].client \in Clients
    BY DEF Task
  <2>2. rec \in Record /\ Coherent(rec)
    BY <2>1, FallbackIsCoherent DEF GoodReply
  <2>3. task' = [task EXCEPT ![r] = AfterFetch(task[r], rec)]
    BY <1>3 DEF Fetch
  <2> HIDE DEF rec
  <2>4. GoodTask(AfterFetch(task[r], rec))
    BY <2>1, <2>2, AfterFetchIsGood
  <2>5. task' \in [Tasks -> Task] /\ \A s \in Tasks : GoodTask(task'[s])
    BY <2>3, <2>4, OneTaskSteps
  <2> QED BY <1>3, <2>5 DEF Fetch
<1>4. ASSUME NEW r \in Tasks, FetchFails(r) PROVE IInv'
  <2> DEFINE rec == FallbackRecord(task[r].proxy, task[r].client)
  <2>1. /\ task[r] \in Task
        /\ task[r].proxy \in Proxies /\ task[r].client \in Clients
    BY DEF Task
  <2>2. rec \in Record /\ Coherent(rec)
    BY <2>1, FallbackIsCoherent
  <2>3. task' = [task EXCEPT ![r] = AfterFetch(task[r], rec)]
    BY <1>4 DEF FetchFails
  <2> HIDE DEF rec
  <2>4. GoodTask(AfterFetch(task[r], rec))
    BY <2>1, <2>2, AfterFetchIsGood
  <2>5. task' \in [Tasks -> Task] /\ \A s \in Tasks : GoodTask(task'[s])
    BY <2>3, <2>4, OneTaskSteps
  <2>6. faults' \in 0..MaxFaults
    BY <1>4, EngineAssumption DEF FetchFails
  <2> QED BY <1>4, <2>5, <2>6 DEF FetchFails
<1>5. ASSUME NEW r \in Tasks, UnderLimit(r) PROVE IInv'
  <2>1. /\ task[r].proxy \in Proxies /\ task[r].client \in Clients
        /\ task[r].rec.level \in Levels
    BY DEF Task, Record
  <2>2. GoodTask(Returned(task[r], Allow(task[r].rec.level)))
    BY <2>1, ReturnedIsGood, DecisionsAreTyped
  <2>3. task' \in [Tasks -> Task] /\ \A s \in Tasks : GoodTask(task'[s])
    BY <1>5, <2>2, OneTaskSteps DEF UnderLimit
  <2> QED BY <1>5, <2>3 DEF UnderLimit
<1>6. ASSUME NEW r \in Tasks, OverLimit(r) PROVE IInv'
  <2>1. PICK score \in Scores :
          task' = [task EXCEPT ![r] =
                     Suspended(task[r], "hset", "done",
                               Penalised(task[r].rec, task[r].now, score),
                               task[r].seen,
                               Deny(Penalised(task[r].rec, task[r].now, score).level))]
    BY <1>6 DEF OverLimit
  <2> DEFINE new == Penalised(task[r].rec, task[r].now, score)
  <2>2. /\ task[r].pc = "limit"
        /\ task[r].rec \in Record /\ task[r].seen \in Record
        /\ task[r].now \in Nat /\ score \in Nat
        /\ task[r].proxy \in Proxies /\ task[r].client \in Clients
        /\ Coherent(task[r].rec) /\ Coherent(task[r].seen)
    BY <1>6, EngineAssumption DEF Task, GoodTask, OverLimit
  <2>3. ~Blocked(task[r].rec)
    BY <2>2 DEF GoodTask, BoundForLimiter
  <2>4. new \in Record /\ Coherent(new)
    BY <2>2, <2>3, PenalisedIsCoherent
  <2> HIDE DEF new
  <2>5. GoodTask(Suspended(task[r], "hset", "done", new, task[r].seen, Deny(new.level)))
    BY <2>2, <2>4
       DEF GoodTask, Task, BoundForLimiter, Suspended, Deny, Decision, Record
  <2>6. task' \in [Tasks -> Task] /\ \A s \in Tasks : GoodTask(task'[s])
    BY <2>1, <2>5, OneTaskSteps DEF new
  <2>7. offences' \in [Clients -> SUBSET Nat]
    BY <1>6, <2>2 DEF OverLimit
  <2> QED BY <1>6, <2>6, <2>7 DEF OverLimit
<1>7. ASSUME NEW r \in Tasks, SaveHset(r) PROVE IInv'
  <2>1. /\ GoodTask(task[r]) /\ task[r].client \in Clients
        /\ task[r].rec \in Record /\ Coherent(task[r].rec)
    BY DEF Task, GoodTask
  <2>2. /\ store' \in [Clients -> Record \union {NoKey}]
        /\ \A c \in Clients : GoodReply(store'[c])
    BY <1>7, <2>1, StoreOneRecord DEF SaveHset
  <2>3. GoodTask(Suspended(task[r], "expire", task[r].then, task[r].rec,
                           task[r].seen, task[r].decision))
    BY <1>7, <2>1 DEF GoodTask, Task, BoundForLimiter, Suspended, SaveHset
  <2>4. task' \in [Tasks -> Task] /\ \A s \in Tasks : GoodTask(task'[s])
    BY <1>7, <2>3, OneTaskSteps DEF SaveHset
  <2> QED BY <1>7, <2>2, <2>4 DEF SaveHset
<1>8. ASSUME NEW r \in Tasks, SaveHsetFails(r) PROVE IInv'
  <2>1. /\ GoodTask(task[r]) /\ task[r].client \in Clients
        /\ task[r].rec \in Record /\ Coherent(task[r].rec)
    BY DEF Task, GoodTask
  <2>2. /\ store' \in [Clients -> Record \union {NoKey}]
        /\ \A c \in Clients : GoodReply(store'[c])
    <3>1. CASE store' = store BY <3>1
    <3>2. CASE store' = [store EXCEPT ![task[r].client] = task[r].rec]
      BY <3>2, <2>1, StoreOneRecord
    <3> QED BY <1>8, <3>1, <3>2 DEF SaveHsetFails
  <2>3. GoodTask(AfterSave(task[r]))
    BY <1>8, <2>1, AfterSaveIsGood DEF SaveHsetFails
  <2>4. task' \in [Tasks -> Task] /\ \A s \in Tasks : GoodTask(task'[s])
    BY <1>8, <2>3, OneTaskSteps DEF SaveHsetFails
  <2>5. /\ fallback' \in [Proxies -> [Clients -> Record \union {NoKey}]]
        /\ \A p \in Proxies, c \in Clients : GoodReply(fallback'[p][c])
    BY <1>8, InFallbackIsGood DEF SaveHsetFails
  <2>6. faults' \in 0..MaxFaults
    BY <1>8, EngineAssumption DEF SaveHsetFails
  <2> QED BY <1>8, <2>2, <2>4, <2>5, <2>6 DEF SaveHsetFails
<1>9. ASSUME NEW r \in Tasks, SaveExpire(r) PROVE IInv'
  <2>1. GoodTask(AfterSave(task[r]))
    BY <1>9, AfterSaveIsGood DEF SaveExpire
  <2>2. task' \in [Tasks -> Task] /\ \A s \in Tasks : GoodTask(task'[s])
    BY <1>9, <2>1, OneTaskSteps DEF SaveExpire
  <2>3. expiry' \in [Clients -> Nat]
    BY <1>9, WithTtlIsGood DEF SaveExpire
  <2> QED BY <1>9, <2>2, <2>3 DEF SaveExpire
<1>10. ASSUME NEW r \in Tasks, SaveExpireFails(r) PROVE IInv'
  <2>1. GoodTask(AfterSave(task[r]))
    BY <1>10, AfterSaveIsGood DEF SaveExpireFails
  <2>2. task' \in [Tasks -> Task] /\ \A s \in Tasks : GoodTask(task'[s])
    BY <1>10, <2>1, OneTaskSteps DEF SaveExpireFails
  <2>3. expiry' \in [Clients -> Nat]
    BY <1>10, WithTtlIsGood DEF SaveExpireFails
  <2>4. /\ fallback' \in [Proxies -> [Clients -> Record \union {NoKey}]]
        /\ \A p \in Proxies, c \in Clients : GoodReply(fallback'[p][c])
    BY <1>10, InFallbackIsGood DEF SaveExpireFails
  <2>5. faults' \in 0..MaxFaults
    BY <1>10, EngineAssumption DEF SaveExpireFails
  <2> QED BY <1>10, <2>2, <2>3, <2>4, <2>5 DEF SaveExpireFails
<1>11. ASSUME NEW p \in Proxies, RestartProxy(p) PROVE IInv'
  <2>1. ASSUME NEW r \in Tasks PROVE GoodTask(task'[r])
    <3>1. task[r].proxy \in Proxies /\ task[r].client \in Clients
      BY DEF Task
    <3>2. GoodTask(Returned(task[r], Allow(ALLOW)))
      BY <3>1, ReturnedIsGood, DecisionsAreTyped
    <3> QED BY <1>11, <3>2 DEF RestartProxy
  <2>2. task' \in [Tasks -> Task]
    BY <1>11, <2>1 DEF RestartProxy, GoodTask
  <2>3. /\ fallback' \in [Proxies -> [Clients -> Record \union {NoKey}]]
        /\ \A q \in Proxies, c \in Clients : GoodReply(fallback'[q][c])
    BY <1>11 DEF RestartProxy, GoodReply
  <2>4. faults' \in 0..MaxFaults
    BY <1>11, EngineAssumption DEF RestartProxy
  <2> QED BY <1>11, <2>1, <2>2, <2>3, <2>4 DEF RestartProxy
<1>12. CASE RestartRedis
  <2>1. faults' \in 0..MaxFaults
    BY <1>12, EngineAssumption DEF RestartRedis
  <2>2. store' \in [Clients -> Record \union {NoKey}] /\ expiry' \in [Clients -> Nat]
    BY <1>12, EngineAssumption DEF RestartRedis
  <2> QED BY <1>12, <2>1, <2>2 DEF RestartRedis, GoodReply
<1>13. CASE Tick
  <2>1. clock' \in 0..MaxClock
    BY <1>13, EngineAssumption DEF Tick
  <2>2. store' \in [Clients -> Record \union {NoKey}] /\ expiry' \in [Clients -> Nat]
    BY <1>13, EngineAssumption DEF Tick
  <2>3. \A c \in Clients : GoodReply(store'[c])
    BY <1>13 DEF Tick, GoodReply
  <2> QED BY <1>13, <2>1, <2>2, <2>3 DEF Tick
<1>14. CASE UNCHANGED vars
  BY <1>14 DEF vars
<1> QED
  BY <1>1, <1>2, <1>3, <1>4, <1>5, <1>6, <1>7, <1>8, <1>9, <1>10, <1>11,
     <1>12, <1>13, <1>14 DEF Next, Resume, Fail

(* The inductive invariant holds in every reachable state. *)
THEOREM Invariance == Spec => []IInv
BY InitIsGood, NextIsGood, PTL DEF Spec

(* The variables of the engine keep their types, whatever the interleaving,  *)
(* the faults and the restarts.                                              *)
THEOREM TypeCorrect == Spec => []TypeOK
<1>1. IInv => TypeOK
  BY DEF IInv
<1> QED BY Invariance, <1>1, PTL

(* No copy of a record shows the violation count of a tier and a milder      *)
(* level (engine.py:212-235 on whatever engine.py:134 returned).             *)
THEOREM LevelsCover == Spec => []LevelsCoverViolations
<1>1. IInv => LevelsCoverViolations
  BY DEF IInv, GoodReply, GoodTask, Coherent, LevelsCoverViolations, EveryCopy
<1> QED BY Invariance, <1>1, PTL

(* No copy pairs the level of one write with the block_until of another.     *)
THEOREM DeadlinesMatch == Spec => []DeadlinesMatchLevels
<1>1. IInv => DeadlinesMatchLevels
  BY DEF IInv, GoodReply, GoodTask, Coherent, DeadlinesMatchLevels, EveryCopy
<1> QED BY Invariance, <1>1, PTL

(* The violation count never passes the trigger of the temporary block, so   *)
(* the violation trigger of FULL_BLOCK (engine.py:220) never fires.          *)
THEOREM CountsStop == Spec => []ViolationsStopAtTempBlock
<1>1. IInv => ViolationsStopAtTempBlock
  BY DEF IInv, GoodReply, GoodTask, Coherent, ViolationsStopAtTempBlock, EveryCopy
<1> QED BY Invariance, <1>1, PTL

-------------------------------------------------------------------------------
(***************************************************************************)
(* Refusals, whatever fails: every blocked copy of a record is stamped     *)
(* with a violation its client committed.                                  *)
(***************************************************************************)

EarnedBy(rec, at) == Blocked(rec) => rec.last \in at

BlocksAreEarned ==
  /\ \A c \in Clients : store[c] # NoKey => EarnedBy(store[c], offences[c])
  /\ \A p \in Proxies, c \in Clients :
       fallback[p][c] # NoKey => EarnedBy(fallback[p][c], offences[c])
  /\ \A r \in Tasks : EarnedBy(task[r].rec, offences[task[r].client])

(* Only a fetched block is carried on: what AfterFetch saves blocks nobody.  *)
LEMMA AfterFetchIsEarned ==
  ASSUME NEW t \in Task, NEW rec \in Record, NEW at, EarnedBy(rec, at)
  PROVE  /\ AfterFetch(t, rec).client = t.client
         /\ EarnedBy(AfterFetch(t, rec).rec, at)
<1>1. ~Blocked(Reset(t.now)) /\ ~Blocked(Deescalated(t.now)) /\ ~Blocked(Fresh)
  BY DEF Reset, Deescalated, Fresh, Blocked, ALLOW, THROTTLE, TEMP_BLOCK, FULL_BLOCK
<1> QED BY <1>1 DEF AfterFetch, Suspended, Returned, EarnedBy

LEMMA AfterSaveIsEarned ==
  ASSUME NEW t, NEW at, EarnedBy(t.rec, at)
  PROVE  /\ AfterSave(t).client = t.client
         /\ EarnedBy(AfterSave(t).rec, at)
<1>1. ~Blocked(Fresh)
  BY DEF Fresh, Blocked, ALLOW, TEMP_BLOCK, FULL_BLOCK
<1> QED BY <1>1 DEF AfterSave, Suspended, Returned, EarnedBy

(* A proxy's own record of a client is earned if its entry is.               *)
LEMMA FallbackIsEarned ==
  ASSUME BlocksAreEarned, NEW p \in Proxies, NEW c \in Clients
  PROVE  EarnedBy(FallbackRecord(p, c), offences[c])
BY DEF BlocksAreEarned, FallbackRecord, EarnedBy, Fresh, Blocked, ALLOW,
       TEMP_BLOCK, FULL_BLOCK

(* A step of one coroutine that adds no offence. *)
LEMMA OneTaskIsEarned ==
  ASSUME IInv, BlocksAreEarned, NEW r \in Tasks, NEW new,
         EarnedBy(new.rec, offences[new.client]),
         task' = [task EXCEPT ![r] = new], offences' = offences
  PROVE  \A s \in Tasks : EarnedBy(task'[s].rec, offences'[task'[s].client])
BY DEF IInv, TypeOK, BlocksAreEarned

(* The copies a save makes of the record of a coroutine. *)
LEMMA SavedIsEarned ==
  ASSUME IInv, BlocksAreEarned, NEW r \in Tasks
  PROVE  /\ \A c \in Clients :
              LET new == [store EXCEPT ![task[r].client] = task[r].rec]
              IN  new[c] # NoKey => EarnedBy(new[c], offences[c])
         /\ \A p \in Proxies, c \in Clients :
              InFallback(task[r])[p][c] # NoKey =>
                EarnedBy(InFallback(task[r])[p][c], offences[c])
<1>1. /\ task[r].client \in Clients /\ task[r].proxy \in Proxies
      /\ EarnedBy(task[r].rec, offences[task[r].client])
  BY DEF IInv, TypeOK, Task, BlocksAreEarned
<1>2. ASSUME NEW c \in Clients, [store EXCEPT ![task[r].client] = task[r].rec][c] # NoKey
      PROVE  EarnedBy([store EXCEPT ![task[r].client] = task[r].rec][c], offences[c])
  BY <1>1, <1>2 DEF IInv, TypeOK, BlocksAreEarned
<1>3. ASSUME NEW p \in Proxies, NEW c \in Clients, InFallback(task[r])[p][c] # NoKey
      PROVE  EarnedBy(InFallback(task[r])[p][c], offences[c])
  <2>1. CASE p = task[r].proxy /\ c = task[r].client
    BY <2>1, <1>1 DEF InFallback, IInv, TypeOK
  <2>2. CASE ~(p = task[r].proxy /\ c = task[r].client)
    <3>1. InFallback(task[r])[p][c] = fallback[p][c]
      BY <2>2, <1>1 DEF InFallback, IInv, TypeOK
    <3> QED BY <3>1, <1>3 DEF BlocksAreEarned
  <2> QED BY <2>1, <2>2
<1> QED BY <1>2, <1>3

LEMMA NextIsEarned == IInv /\ BlocksAreEarned /\ [Next]_vars => BlocksAreEarned'
<1> SUFFICES ASSUME IInv, BlocksAreEarned, [Next]_vars PROVE BlocksAreEarned'
  OBVIOUS
<1>a. ASSUME NEW r \in Tasks
      PROVE  /\ task[r] \in Task /\ task[r].client \in Clients
             /\ task[r].proxy \in Proxies
             /\ EarnedBy(task[r].rec, offences[task[r].client])
  BY DEF IInv, TypeOK, Task, BlocksAreEarned
<1>b. ~Blocked(Fresh)
  BY DEF Fresh, Blocked, ALLOW, TEMP_BLOCK, FULL_BLOCK
<1>1. ASSUME NEW r \in Tasks, NEW p \in Proxies, NEW c \in Clients,
             Arrive(r, p, c) \/ ArriveWhitelisted(r, p, c)
      PROVE  BlocksAreEarned'
  <2>1. PICK new : task' = [task EXCEPT ![r] = new] /\ new.rec = Fresh
    <3> DEFINE fetching == [pc |-> "fetch", then |-> "done", proxy |-> p, client |-> c,
                            now |-> clock, rec |-> Fresh, seen |-> Fresh,
                            decision |-> Allow(ALLOW)]
    <3> DEFINE returned == Returned([proxy |-> p, client |-> c], Allow(ALLOW))
    <3>1. \/ task' = [task EXCEPT ![r] = fetching]
          \/ task' = [task EXCEPT ![r] = returned]
      BY <1>1 DEF Arrive, ArriveWhitelisted
    <3>2. fetching.rec = Fresh /\ returned.rec = Fresh
      BY DEF Returned
    <3> HIDE DEF fetching, returned
    <3> QED BY <3>1, <3>2
  <2>2. UNCHANGED <<store, fallback, offences>>
    BY <1>1 DEF Arrive, ArriveWhitelisted
  <2>3. \A s \in Tasks : EarnedBy(task'[s].rec, offences'[task'[s].client])
    BY <2>1, <2>2, <1>b, OneTaskIsEarned DEF EarnedBy
  <2> QED BY <2>2, <2>3 DEF BlocksAreEarned
<1>2. ASSUME NEW r \in Tasks, Fetch(r) \/ FetchFails(r) PROVE BlocksAreEarned'
  <2>1. PICK rec \in Record :
          /\ task' = [task EXCEPT ![r] = AfterFetch(task[r], rec)]
          /\ EarnedBy(rec, offences[task[r].client])
    <3>1. /\ FallbackRecord(task[r].proxy, task[r].client) \in Record
          /\ EarnedBy(FallbackRecord(task[r].proxy, task[r].client),
                      offences[task[r].client])
      BY <1>a, FallbackIsCoherent, FallbackIsEarned
    <3>2. store[task[r].client] # NoKey =>
            /\ store[task[r].client] \in Record
            /\ EarnedBy(store[task[r].client], offences[task[r].client])
      BY <1>a DEF IInv, TypeOK, BlocksAreEarned
    <3>3. CASE FetchFails(r)
      BY <3>1, <3>3 DEF FetchFails
    <3>4. CASE Fetch(r)
      BY <3>1, <3>2, <3>4 DEF Fetch
    <3> QED BY <1>2, <3>3, <3>4
  <2>2. UNCHANGED <<store, fallback, offences>>
    BY <1>2 DEF Fetch, FetchFails
  <2>3. LET new == AfterFetch(task[r], rec)
        IN  EarnedBy(new.rec, offences[new.client])
    BY <1>a, <2>1, AfterFetchIsEarned
  <2>4. \A s \in Tasks : EarnedBy(task'[s].rec, offences'[task'[s].client])
    BY <2>1, <2>2, <2>3, OneTaskIsEarned
  <2> QED BY <2>2, <2>4 DEF BlocksAreEarned
<1>3. ASSUME NEW r \in Tasks, UnderLimit(r) PROVE BlocksAreEarned'
  <2> DEFINE new == Returned(task[r], Allow(task[r].rec.level))
  <2>1. task' = [task EXCEPT ![r] = new] /\ UNCHANGED <<store, fallback, offences>>
    BY <1>3 DEF UnderLimit
  <2>2. new.rec = Fresh
    BY DEF Returned
  <2> HIDE DEF new
  <2>3. \A s \in Tasks : EarnedBy(task'[s].rec, offences'[task'[s].client])
    BY <2>1, <2>2, <1>b, OneTaskIsEarned DEF EarnedBy
  <2> QED BY <2>1, <2>3 DEF BlocksAreEarned
<1>4. ASSUME NEW r \in Tasks, OverLimit(r) PROVE BlocksAreEarned'
  <2> DEFINE c == task[r].client
  <2>1. PICK new : /\ task' = [task EXCEPT ![r] = new]
                   /\ new.client = c /\ new.rec.last = task[r].now
    <3> DEFINE New(score) ==
          LET rec == Penalised(task[r].rec, task[r].now, score)
          IN  Suspended(task[r], "hset", "done", rec, task[r].seen, Deny(rec.level))
    <3>1. PICK score \in Scores : task' = [task EXCEPT ![r] = New(score)]
      BY <1>4 DEF OverLimit
    <3>2. New(score).client = c /\ New(score).rec.last = task[r].now
      BY DEF Suspended, Penalised
    <3> HIDE DEF New
    <3> QED BY <3>1, <3>2
  <2>2. /\ offences' = [offences EXCEPT ![c] = @ \union {task[r].now}]
        /\ UNCHANGED <<store, fallback>>
    BY <1>4 DEF OverLimit
  <2>3. /\ \A d \in Clients : offences[d] \subseteq offences'[d]
        /\ task[r].now \in offences'[c]
    BY <2>2, <1>a DEF IInv, TypeOK
  <2>4. ASSUME NEW s \in Tasks
        PROVE  EarnedBy(task'[s].rec, offences'[task'[s].client])
    <3>1. CASE s = r
      BY <3>1, <2>1, <2>3 DEF IInv, TypeOK, EarnedBy
    <3>2. CASE s # r
      BY <3>2, <2>1, <2>3, <1>a DEF IInv, TypeOK, EarnedBy
    <3> QED BY <3>1, <3>2
  <2> QED BY <2>2, <2>3, <2>4 DEF BlocksAreEarned, EarnedBy
<1>5. ASSUME NEW r \in Tasks, SaveHset(r) PROVE BlocksAreEarned'
  <2> DEFINE new == Suspended(task[r], "expire", task[r].then, task[r].rec,
                              task[r].seen, task[r].decision)
  <2>1. task' = [task EXCEPT ![r] = new]
    BY <1>5 DEF SaveHset
  <2>2. /\ store' = [store EXCEPT ![task[r].client] = task[r].rec]
        /\ UNCHANGED <<fallback, offences>>
    BY <1>5 DEF SaveHset
  <2>3. new.client = task[r].client /\ new.rec = task[r].rec
    BY DEF Suspended
  <2> HIDE DEF new
  <2>4. \A s \in Tasks : EarnedBy(task'[s].rec, offences'[task'[s].client])
    BY <2>1, <2>2, <2>3, <1>a, OneTaskIsEarned
  <2> QED BY <2>2, <2>4, SavedIsEarned DEF BlocksAreEarned
<1>6. ASSUME NEW r \in Tasks, SaveExpire(r) \/ SaveHsetFails(r) \/ SaveExpireFails(r)
      PROVE  BlocksAreEarned'
  <2>1. /\ task' = [task EXCEPT ![r] = AfterSave(task[r])]
        /\ store' = store \/ store' = [store EXCEPT ![task[r].client] = task[r].rec]
        /\ fallback' = fallback \/ fallback' = InFallback(task[r])
        /\ offences' = offences
    BY <1>6 DEF SaveExpire, SaveHsetFails, SaveExpireFails
  <2>2. LET new == AfterSave(task[r])
        IN  EarnedBy(new.rec, offences[new.client])
    BY <1>a, AfterSaveIsEarned
  <2>3. \A s \in Tasks : EarnedBy(task'[s].rec, offences'[task'[s].client])
    BY <2>1, <2>2, OneTaskIsEarned
  <2>4. \A c \in Clients : store'[c] # NoKey => EarnedBy(store'[c], offences'[c])
    BY <2>1, SavedIsEarned DEF BlocksAreEarned
  <2>5. \A p \in Proxies, c \in Clients :
          fallback'[p][c] # NoKey => EarnedBy(fallback'[p][c], offences'[c])
    BY <2>1, SavedIsEarned DEF BlocksAreEarned
  <2> QED BY <2>3, <2>4, <2>5 DEF BlocksAreEarned
<1>7. ASSUME NEW p \in Proxies, RestartProxy(p) PROVE BlocksAreEarned'
  <2>1. ASSUME NEW s \in Tasks
        PROVE  EarnedBy(task'[s].rec, offences'[task'[s].client])
    BY <1>7, <1>a, <1>b DEF RestartProxy, Returned, EarnedBy
  <2>2. ASSUME NEW q \in Proxies, NEW c \in Clients, fallback'[q][c] # NoKey
        PROVE  EarnedBy(fallback'[q][c], offences'[c])
    BY <1>7, <2>2 DEF RestartProxy, BlocksAreEarned, IInv, TypeOK
  <2> QED BY <1>7, <2>1, <2>2 DEF RestartProxy, BlocksAreEarned
<1>8. ASSUME RestartRedis \/ Tick PROVE BlocksAreEarned'
  <2>1. \A c \in Clients : store'[c] # NoKey => store'[c] = store[c]
    BY <1>8 DEF RestartRedis, Tick
  <2>2. UNCHANGED <<fallback, task, offences>>
    BY <1>8 DEF RestartRedis, Tick
  <2> QED BY <2>1, <2>2 DEF BlocksAreEarned
<1>9. CASE UNCHANGED vars
  BY <1>9 DEF vars, BlocksAreEarned
<1> QED
  BY <1>1, <1>2, <1>3, <1>4, <1>5, <1>6, <1>7, <1>8, <1>9 DEF Next, Resume, Fail

LEMMA InitIsEarned == Init => BlocksAreEarned
BY DEF Init, BlocksAreEarned, Returned, EarnedBy, Fresh, Blocked, ALLOW,
       TEMP_BLOCK, FULL_BLOCK

(* A fetch that ends in a refusal found a block whose term still runs.       *)
LEMMA RefusedInTerm ==
  ASSUME NEW t \in Task, NEW rec \in Record, Coherent(rec),
         AfterFetch(t, rec).pc = "done"
  PROVE  /\ Blocked(rec) /\ AfterFetch(t, rec).decision.level = rec.level
         /\ t.now < rec.last + Cooldown
         /\ rec.level = TEMP_BLOCK => t.now < rec.last + TempBlock
<1>1. ~CooledDown(rec, t.now) /\ ~TempExpired(rec, t.now) /\ Blocked(rec)
  BY DEF AfterFetch, Suspended
<1>2. AfterFetch(t, rec).decision.level = rec.level
  BY <1>1 DEF AfterFetch, Returned, Deny
<1>3. t.now \in Nat /\ rec.last \in Nat /\ rec.until \in Nat
  BY DEF Task, Record
<1>4. rec.level > ALLOW
  BY <1>1 DEF Blocked, ALLOW, TEMP_BLOCK, FULL_BLOCK
<1>5. t.now < rec.last + Cooldown
  BY <1>1, <1>3, <1>4, TimingAssumption DEF CooledDown
<1>6. rec.level = TEMP_BLOCK => rec.until = rec.last + TempBlock
  BY DEF Coherent, DeadlineMatches, Deadline, TEMP_BLOCK, FULL_BLOCK
<1>7. rec.level = TEMP_BLOCK => t.now < rec.until
  BY <1>1, <1>3 DEF TempExpired
<1> QED BY <1>1, <1>2, <1>5, <1>6, <1>7

(* A refusal as blocked is always within the term of a violation the client  *)
(* committed, whatever stale copy, fault or restart brought the block back   *)
(* (engine.py:67, 99, 138).                                                  *)
THEOREM RefusalsInTerm == Spec => RefusalsKeepTheTerm
<1> DEFINE Kept(r) ==
      task[r].pc = "fetch" /\ task'[r].pc = "done" /\ ~task'[r].decision.allowed =>
        \E at \in offences[task[r].client] :
          /\ task[r].now < at + Cooldown
          /\ task'[r].decision.level = TEMP_BLOCK => task[r].now < at + TempBlock
<1>1. IInv /\ BlocksAreEarned /\ [Next]_vars => [\A r \in Tasks : Kept(r)]_vars
  <2> SUFFICES ASSUME IInv, BlocksAreEarned, Next, NEW r \in Tasks,
                      task[r].pc = "fetch", task'[r].pc = "done",
                      ~task'[r].decision.allowed
               PROVE  \E at \in offences[task[r].client] :
                        /\ task[r].now < at + Cooldown
                        /\ task'[r].decision.level = TEMP_BLOCK
                             => task[r].now < at + TempBlock
    OBVIOUS
  <2>1. /\ task[r] \in Task /\ task[r].client \in Clients /\ task[r].proxy \in Proxies
        /\ task \in [Tasks -> Task]
    BY DEF IInv, TypeOK, Task
  <2>2. Fetch(r) \/ FetchFails(r)
    <3>1. ASSUME NEW s \in Tasks, NEW p \in Proxies, NEW c \in Clients,
                 Arrive(s, p, c) \/ ArriveWhitelisted(s, p, c)
          PROVE  FALSE
      BY <3>1, <2>1 DEF Arrive, ArriveWhitelisted
    <3>2. ASSUME NEW s \in Tasks, Resume(s) \/ Fail(s)
          PROVE  Fetch(r) \/ FetchFails(r)
      <4>1. CASE s = r
        BY <4>1, <3>2 DEF Resume, Fail, UnderLimit, OverLimit, SaveHset, SaveExpire,
                          SaveHsetFails, SaveExpireFails
      <4>2. CASE s # r
        <5>1. PICK new : task' = [task EXCEPT ![s] = new]
          BY <3>2 DEF Resume, Fail, Fetch, UnderLimit, OverLimit, SaveHset,
                      SaveExpire, FetchFails, SaveHsetFails, SaveExpireFails
        <5> QED BY <5>1, <4>2, <2>1
      <4> QED BY <4>1, <4>2
    <3>3. ASSUME NEW p \in Proxies, RestartProxy(p) PROVE FALSE
      BY <3>3, <2>1 DEF RestartProxy, Returned, Allow
    <3>4. ASSUME RestartRedis \/ Tick PROVE FALSE
      BY <3>4 DEF RestartRedis, Tick
    <3> QED BY <3>1, <3>2, <3>3, <3>4 DEF Next
  <2>3. PICK rec \in Record :
          /\ Coherent(rec) /\ EarnedBy(rec, offences[task[r].client])
          /\ task'[r] = AfterFetch(task[r], rec)
    <3>1. LET own == FallbackRecord(task[r].proxy, task[r].client)
          IN  /\ own \in Record /\ Coherent(own)
              /\ EarnedBy(own, offences[task[r].client])
      BY <2>1, FallbackIsCoherent, FallbackIsEarned
    <3>2. LET reply == store[task[r].client]
          IN  reply # NoKey => /\ reply \in Record /\ Coherent(reply)
                               /\ EarnedBy(reply, offences[task[r].client])
      BY <2>1 DEF IInv, TypeOK, GoodReply, BlocksAreEarned
    <3>3. CASE FetchFails(r)
      BY <2>1, <3>1, <3>3 DEF FetchFails
    <3>4. CASE Fetch(r)
      BY <2>1, <3>1, <3>2, <3>4 DEF Fetch
    <3> QED BY <2>2, <3>3, <3>4
  <2>4. /\ Blocked(rec) /\ task'[r].decision.level = rec.level
        /\ task[r].now < rec.last + Cooldown
        /\ rec.level = TEMP_BLOCK => task[r].now < rec.last + TempBlock
    BY <2>1, <2>3, RefusedInTerm
  <2>5. rec.last \in offences[task[r].client]
    BY <2>3, <2>4 DEF EarnedBy
  <2> QED BY <2>4, <2>5
<1> HIDE DEF Kept
<1>2. Spec => [](BlocksAreEarned /\ IInv)
  BY InitIsEarned, InitIsGood, NextIsEarned, NextIsGood, PTL DEF Spec
<1>3. Spec => [][\A r \in Tasks : Kept(r)]_vars
  BY <1>1, <1>2, PTL DEF Spec
<1> QED BY <1>3 DEF RefusalsKeepTheTerm, Kept

-------------------------------------------------------------------------------
(***************************************************************************)
(* Overwritten blocks.  A coroutine goes on only if the record it fetched, *)
(* from Redis or from a fallback, was no block in force.                   *)
(***************************************************************************)

SawNoBlock(t) ==
  t.pc \in {"limit", "hset", "expire"} => ~InForce(t.seen, t.now)

Heeded ==
  \A r \in Tasks : task[r].now <= clock /\ SawNoBlock(task[r])

(* A block that is over stays over.                                          *)
LEMMA BlocksEnd ==
  ASSUME NEW rec \in Record, NEW s \in Nat, NEW t \in Nat, s <= t, ~InForce(rec, s)
  PROVE  ~InForce(rec, t)
BY TimingAssumption DEF InForce, Record

LEMMA AfterFetchIsHeeded ==
  ASSUME NEW t \in Task, NEW rec \in Record, clock \in Nat, t.now <= clock
  PROVE  LET u == AfterFetch(t, rec)
         IN  /\ u.now <= clock /\ u.pc # "expire" /\ SawNoBlock(u)
             /\ rec.last <= clock => u.rec.last <= clock
<1>1. t.now \in Nat /\ rec.last \in Nat /\ rec.level \in Levels /\ rec.until \in Nat
  BY DEF Task, Record
<1>2. CASE CooledDown(rec, t.now)
  BY <1>1, <1>2, TimingAssumption DEF AfterFetch, Suspended, Reset, SawNoBlock, CooledDown, InForce
<1>3. CASE ~CooledDown(rec, t.now) /\ TempExpired(rec, t.now)
  BY <1>1, <1>3 DEF AfterFetch, Suspended, Deescalated, SawNoBlock, TempExpired, InForce
<1>4. CASE ~CooledDown(rec, t.now) /\ ~TempExpired(rec, t.now) /\ Blocked(rec)
  BY <1>1, <1>4 DEF AfterFetch, Returned, Fresh, SawNoBlock
<1>5. CASE ~CooledDown(rec, t.now) /\ ~TempExpired(rec, t.now) /\ ~Blocked(rec)
  BY <1>1, <1>5 DEF AfterFetch, Suspended, SawNoBlock, InForce
<1> QED BY <1>2, <1>3, <1>4, <1>5

LEMMA AfterSaveIsHeeded ==
  ASSUME NEW t \in Task, clock \in Nat, t.now <= clock, t.pc \in {"hset", "expire"},
         SawNoBlock(t)
  PROVE  LET u == AfterSave(t)
         IN  /\ u.now <= clock /\ u.pc # "expire" /\ SawNoBlock(u)
             /\ t.rec.last <= clock => u.rec.last <= clock
<1>1. CASE t.then = "limit"
  BY <1>1 DEF AfterSave, Suspended, SawNoBlock
<1>2. CASE t.then # "limit"
  BY <1>2 DEF AfterSave, Returned, Fresh, SawNoBlock
<1> QED BY <1>1, <1>2

LEMMA NextIsHeeded == IInv /\ Heeded /\ [Next]_vars => Heeded'
<1> SUFFICES ASSUME IInv, Heeded, [Next]_vars PROVE Heeded'
  OBVIOUS
<1>a. /\ clock \in Nat /\ MaxClock \in Nat /\ task \in [Tasks -> Task]
      /\ store \in [Clients -> Record \union {NoKey}]
      /\ \A r \in Tasks : /\ task[r] \in Task /\ task[r].client \in Clients
                          /\ task[r].proxy \in Proxies
                          /\ task[r].now <= clock /\ SawNoBlock(task[r])
  BY EngineAssumption DEF IInv, TypeOK, Task, Heeded
<1>b. ASSUME NEW r \in Tasks, NEW new, task' = [task EXCEPT ![r] = new],
             clock' = clock, new.now <= clock, SawNoBlock(new)
      PROVE  Heeded'
  BY <1>a, <1>b DEF Heeded, SawNoBlock
<1>1. ASSUME NEW r \in Tasks, NEW p \in Proxies, NEW c \in Clients,
             Arrive(r, p, c) \/ ArriveWhitelisted(r, p, c)
      PROVE  Heeded'
  <2> DEFINE fetching == [pc |-> "fetch", then |-> "done", proxy |-> p, client |-> c,
                          now |-> clock, rec |-> Fresh, seen |-> Fresh,
                          decision |-> Allow(ALLOW)]
             returned == Returned([proxy |-> p, client |-> c], Allow(ALLOW))
  <2>1. /\ clock' = clock
        /\ task' = [task EXCEPT ![r] = fetching] \/ task' = [task EXCEPT ![r] = returned]
    BY <1>1 DEF Arrive, ArriveWhitelisted
  <2>2. /\ fetching.now <= clock /\ SawNoBlock(fetching)
        /\ returned.now <= clock /\ SawNoBlock(returned)
    BY <1>a DEF Returned, SawNoBlock
  <2> HIDE DEF fetching, returned
  <2> QED BY <2>1, <2>2, <1>b
<1>2. ASSUME NEW r \in Tasks, Fetch(r) \/ FetchFails(r) PROVE Heeded'
  <2>1. PICK rec \in Record :
          task' = [task EXCEPT ![r] = AfterFetch(task[r], rec)] /\ clock' = clock
    <3>1. FallbackRecord(task[r].proxy, task[r].client) \in Record
      BY <1>a, FallbackIsCoherent
    <3>2. store[task[r].client] # NoKey => store[task[r].client] \in Record
      BY <1>a
    <3>3. CASE FetchFails(r)
      BY <3>1, <3>3 DEF FetchFails
    <3>4. CASE Fetch(r)
      BY <3>1, <3>2, <3>4 DEF Fetch
    <3> QED BY <1>2, <3>3, <3>4
  <2>2. LET u == AfterFetch(task[r], rec) IN u.now <= clock /\ SawNoBlock(u)
    BY <1>a, AfterFetchIsHeeded
  <2> QED BY <1>b, <2>1, <2>2
<1>3. ASSUME NEW r \in Tasks, UnderLimit(r) PROVE Heeded'
  <2> DEFINE new == Returned(task[r], Allow(task[r].rec.level))
  <2>1. task' = [task EXCEPT ![r] = new] /\ clock' = clock
    BY <1>3 DEF UnderLimit
  <2>2. new.now <= clock /\ SawNoBlock(new)
    BY <1>a DEF Returned, SawNoBlock
  <2> HIDE DEF new
  <2> QED BY <1>b, <2>1, <2>2
<1>4. ASSUME NEW r \in Tasks, OverLimit(r) PROVE Heeded'
  <2> DEFINE New(score) ==
        LET rec == Penalised(task[r].rec, task[r].now, score)
        IN  Suspended(task[r], "hset", "done", rec, task[r].seen, Deny(rec.level))
  <2>1. PICK score \in Scores : task' = [task EXCEPT ![r] = New(score)]
    BY <1>4 DEF OverLimit
  <2>2. clock' = clock /\ task[r].pc = "limit"
    BY <1>4 DEF OverLimit
  <2>3. New(score).now <= clock /\ SawNoBlock(New(score))
    BY <1>a, <2>2 DEF Suspended, SawNoBlock
  <2> HIDE DEF New
  <2> QED BY <1>b, <2>1, <2>2, <2>3
<1>5. ASSUME NEW r \in Tasks, SaveHset(r) PROVE Heeded'
  <2> DEFINE new == Suspended(task[r], "expire", task[r].then, task[r].rec,
                              task[r].seen, task[r].decision)
  <2>1. task' = [task EXCEPT ![r] = new] /\ clock' = clock /\ task[r].pc = "hset"
    BY <1>5 DEF SaveHset
  <2>2. new.now <= clock /\ SawNoBlock(new)
    BY <1>a, <2>1 DEF Suspended, SawNoBlock
  <2> HIDE DEF new
  <2> QED BY <1>b, <2>1, <2>2
<1>6. ASSUME NEW r \in Tasks, SaveExpire(r) \/ SaveHsetFails(r) \/ SaveExpireFails(r)
      PROVE  Heeded'
  <2>1. /\ task' = [task EXCEPT ![r] = AfterSave(task[r])] /\ clock' = clock
        /\ task[r].pc \in {"hset", "expire"}
    BY <1>6 DEF SaveExpire, SaveHsetFails, SaveExpireFails
  <2>2. LET u == AfterSave(task[r]) IN u.now <= clock /\ SawNoBlock(u)
    BY <1>a, <2>1, AfterSaveIsHeeded
  <2> QED BY <1>b, <2>1, <2>2
<1>7. ASSUME NEW p \in Proxies, RestartProxy(p) PROVE Heeded'
  <2> SUFFICES ASSUME NEW s \in Tasks PROVE (task[s].now <= clock /\ SawNoBlock(task[s]))'
    BY DEF Heeded
  <2>1. /\ clock' = clock
        /\ task'[s] = task[s] \/ task'[s] = Returned(task[s], Allow(ALLOW))
    BY <1>7 DEF RestartProxy
  <2>2. LET u == Returned(task[s], Allow(ALLOW)) IN u.now <= clock /\ SawNoBlock(u)
    BY <1>a DEF Returned, SawNoBlock
  <2> QED BY <1>a, <2>1, <2>2 DEF SawNoBlock
<1>8. ASSUME RestartRedis \/ Tick PROVE Heeded'
  <2>1. task' = task /\ clock' \in {clock, clock + 1}
    BY <1>8 DEF RestartRedis, Tick
  <2>2. \A s \in Tasks : task[s].now \in Nat
    BY <1>a DEF Task
  <2> QED BY <1>a, <2>1, <2>2 DEF Heeded, SawNoBlock
<1>9. CASE UNCHANGED vars
  BY <1>9 DEF vars, Heeded, SawNoBlock
<1> QED
  BY <1>1, <1>2, <1>3, <1>4, <1>5, <1>6, <1>7, <1>8, <1>9 DEF Next, Resume, Fail

LEMMA InitIsHeeded == Init => Heeded
BY DEF Init, Heeded, Returned, SawNoBlock

-------------------------------------------------------------------------------
(***************************************************************************)
(* The time to live of a key, as long as nothing has failed: every lemma   *)
(* of this part is about a step after which faults is still 0.             *)
(***************************************************************************)

(* No copy of a record is ahead of the clock, and no fallback is in use.     *)
Timely ==
  /\ \A c \in Clients : store[c] # NoKey => store[c].last <= clock
  /\ \A p \in Proxies, c \in Clients : fallback[p][c] = NoKey
  /\ \A r \in Tasks : task[r].rec.last <= clock

(* Unless the TTL is about to be set, a key outlasts its cooldown twice.     *)
KeysOutlast ==
  \A c \in Clients :
    store[c] # NoKey /\ ~Saving(c) => expiry[c] >= store[c].last + 2 * Cooldown

TimelyIInv ==
  /\ IInv
  /\ Heeded
  /\ Timely
  /\ KeysOutlast

(* Without faults only the coroutines and the clock move.                    *)
LEMMA StepsWithoutFaults ==
  ASSUME faults' = 0, TypeOK, [Next]_vars
  PROVE  \/ \E r \in Tasks, p \in Proxies, c \in Clients :
              Arrive(r, p, c) \/ ArriveWhitelisted(r, p, c)
         \/ \E r \in Tasks : Resume(r)
         \/ Tick
         \/ UNCHANGED vars
<1>1. faults \in Nat /\ faults' # faults + 1
  BY EngineAssumption DEF TypeOK
<1> QED BY <1>1 DEF Next, Fail, FetchFails, SaveHsetFails, SaveExpireFails, RestartProxy, RestartRedis

(* A step of r that leaves store, expiry and fallback alone and does not     *)
(* begin or end an EXPIRE.                                                   *)
LEMMA QuietStep ==
  ASSUME TimelyIInv, NEW r \in Tasks, NEW new,
         task' = [task EXCEPT ![r] = new],
         UNCHANGED <<clock, store, expiry, fallback>>,
         task[r].pc # "expire", new.pc # "expire",
         new.rec.last <= clock
  PROVE  (Timely /\ KeysOutlast)'
<1>1. task \in [Tasks -> Task]
  BY DEF TimelyIInv, IInv, TypeOK
<1>2. \A s \in Tasks : task'[s] = IF s = r THEN new ELSE task[s]
  BY <1>1
<1>3. Timely'
  BY <1>2 DEF TimelyIInv, Timely
<1>4. \A c \in Clients : Saving(c)' <=> Saving(c)
  BY <1>2 DEF Saving
<1>5. KeysOutlast'
  BY <1>4 DEF TimelyIInv, KeysOutlast
<1> QED BY <1>3, <1>5

LEMMA NextIsTimely ==
  ASSUME faults' = 0, TimelyIInv, [Next]_vars
  PROVE  TimelyIInv'
<1> DEFINE Rest == Timely /\ KeysOutlast
<1>0. IInv' /\ Heeded'
  BY NextIsGood, NextIsHeeded DEF TimelyIInv
<1>1. /\ clock \in Nat /\ MaxClock \in Nat /\ task \in [Tasks -> Task]
      /\ store \in [Clients -> Record \union {NoKey}] /\ expiry \in [Clients -> Nat]
      /\ \A r \in Tasks : /\ task[r] \in Task /\ task[r].now \in Nat
                          /\ task[r].rec \in Record /\ task[r].rec.last \in Nat
                          /\ task[r].client \in Clients /\ task[r].proxy \in Proxies
  BY EngineAssumption DEF TimelyIInv, IInv, TypeOK, Task, Record
<1>2. ASSUME NEW r \in Tasks, NEW p \in Proxies, NEW c \in Clients,
             Arrive(r, p, c) \/ ArriveWhitelisted(r, p, c)
      PROVE  Rest'
  <2>1. CASE Arrive(r, p, c)
    <3> DEFINE new == [pc |-> "fetch", then |-> "done", proxy |-> p, client |-> c,
                       now |-> clock, rec |-> Fresh, seen |-> Fresh,
                       decision |-> Allow(ALLOW)]
    <3>1. new.pc = "fetch" /\ new.rec.last = 0
      BY DEF Fresh
    <3>2. /\ task' = [task EXCEPT ![r] = new] /\ task[r].pc = "done"
          /\ UNCHANGED <<clock, store, expiry, fallback>>
      BY <2>1 DEF Arrive
    <3> HIDE DEF new
    <3>3. new.rec.last <= clock
      BY <3>1, <1>1
    <3> QED BY <3>1, <3>2, <3>3, QuietStep
  <2>2. CASE ArriveWhitelisted(r, p, c)
    <3> DEFINE new == Returned([proxy |-> p, client |-> c], Allow(ALLOW))
    <3>1. new.pc = "done" /\ new.rec.last = 0
      BY DEF Fresh, Returned
    <3>2. /\ task' = [task EXCEPT ![r] = new] /\ task[r].pc = "done"
          /\ UNCHANGED <<clock, store, expiry, fallback>>
      BY <2>2 DEF ArriveWhitelisted
    <3> HIDE DEF new
    <3>3. new.rec.last <= clock
      BY <3>1, <1>1
    <3> QED BY <3>1, <3>2, <3>3, QuietStep
  <2> QED BY <1>2, <2>1, <2>2
<1>3. ASSUME NEW r \in Tasks, Fetch(r) PROVE Rest'
  <2> DEFINE t   == task[r]
             rec == IF store[t.client] = NoKey THEN FallbackRecord(t.proxy, t.client)
                    ELSE store[t.client]
             new == AfterFetch(t, rec)
  <2>1. rec \in Record /\ rec.last <= clock
    <3>1. FallbackRecord(t.proxy, t.client) = Fresh
      BY <1>1 DEF FallbackRecord, TimelyIInv, Timely
    <3> QED BY <1>1, <3>1, FreshIsCoherent DEF TimelyIInv, Timely, Fresh
  <2>2. task' = [task EXCEPT ![r] = new] /\ t.pc = "fetch"
    BY <1>3 DEF Fetch
  <2>3. t \in Task /\ t.now <= clock
    BY <1>1 DEF TimelyIInv, Heeded
  <2> HIDE DEF t, rec
  <2>4. new.rec.last <= clock /\ new.pc # "expire"
    BY <2>1, <2>3, <1>1, AfterFetchIsHeeded
  <2> HIDE DEF new
  <2> QED BY <1>3, <2>2, <2>4, QuietStep DEF Fetch, t
<1>4. ASSUME NEW r \in Tasks, UnderLimit(r) PROVE Rest'
  <2> DEFINE new == Returned(task[r], Allow(task[r].rec.level))
  <2>1. new.pc = "done" /\ new.rec.last = 0
    BY DEF Returned, Fresh
  <2>2. task' = [task EXCEPT ![r] = new] /\ task[r].pc = "limit"
    BY <1>4 DEF UnderLimit
  <2>3. new.pc # "expire" /\ new.rec.last <= clock
    BY <1>1, <2>1
  <2>4. UNCHANGED <<clock, store, expiry, fallback>>
    BY <1>4 DEF UnderLimit
  <2> HIDE DEF new
  <2> QED BY <2>2, <2>3, <2>4, QuietStep
<1>5. ASSUME NEW r \in Tasks, OverLimit(r) PROVE Rest'
  <2> DEFINE t == task[r]
             New(score) == Suspended(t, "hset", "done", Penalised(t.rec, t.now, score), t.seen,
                                     Deny(Penalised(t.rec, t.now, score).level))
  <2>1. PICK score \in Scores : task' = [task EXCEPT ![r] = New(score)]
    BY <1>5 DEF OverLimit
  <2> DEFINE new == New(score)
  <2>2. new.pc = "hset" /\ new.rec.last = t.now
    BY DEF Suspended, Penalised
  <2>3. /\ t.pc = "limit" /\ t.now <= clock
        /\ UNCHANGED <<clock, store, expiry, fallback>>
    BY <1>5 DEF OverLimit, TimelyIInv, Heeded
  <2>4. task' = [task EXCEPT ![r] = new]
    BY <2>1
  <2>5. new.pc # "expire" /\ new.rec.last <= clock
    BY <2>2, <2>3
  <2>6. task[r].pc # "expire"
    BY <2>3
  <2> HIDE DEF new, New, t
  <2> QED BY <2>3, <2>4, <2>5, <2>6, QuietStep
<1>6. ASSUME NEW r \in Tasks, SaveHset(r) PROVE Rest'
  <2> DEFINE t   == task[r]
             new == Suspended(t, "expire", t.then, t.rec, t.seen, t.decision)
  <2>1. new.pc = "expire" /\ new.rec = t.rec /\ new.client = t.client
    BY DEF Suspended
  <2>2. /\ t.pc = "hset" /\ task' = [task EXCEPT ![r] = new]
        /\ store' = [store EXCEPT ![t.client] = t.rec]
        /\ UNCHANGED <<clock, expiry, fallback, faults>>
    BY <1>6 DEF SaveHset
  <2> HIDE DEF new
  <2>3. \A s \in Tasks : task'[s] = IF s = r THEN new ELSE task[s]
    BY <1>1, <2>2
  <2>4. \A c \in Clients : store'[c] = IF c = t.client THEN t.rec ELSE store[c]
    BY <1>1, <2>2
  <2>5. Timely'
    BY <2>1, <2>2, <2>3, <2>4 DEF TimelyIInv, Timely
  <2>6. KeysOutlast'
    <3> SUFFICES ASSUME NEW c \in Clients, (store[c] # NoKey /\ ~Saving(c))'
                 PROVE  expiry'[c] >= store'[c].last + 2 * Cooldown
      BY DEF KeysOutlast
    <3>1. c # t.client
      BY <2>1, <2>3 DEF Saving
    <3>2. ~Saving(c)
      BY <2>2, <2>3 DEF Saving
    <3> QED BY <3>1, <3>2, <2>2, <2>4 DEF TimelyIInv, KeysOutlast
  <2> QED BY <2>5, <2>6
<1>7. ASSUME NEW r \in Tasks, SaveExpire(r) PROVE Rest'
  <2> DEFINE t   == task[r]
             new == AfterSave(t)
  <2>1. /\ t.pc = "expire" /\ task' = [task EXCEPT ![r] = new] /\ expiry' = WithTtl(t)
        /\ UNCHANGED <<clock, store, fallback, faults>>
    BY <1>7 DEF SaveExpire
  <2>2. t.rec.last <= clock /\ t.rec.until \in Nat /\ t.now <= clock /\ SawNoBlock(t)
    BY <1>1 DEF TimelyIInv, Heeded, Timely, Record
  <2>3. new.rec.last <= clock /\ new.pc # "expire"
    BY <1>1, <2>1, <2>2, AfterSaveIsHeeded
  <2> HIDE DEF new
  <2>4. \A s \in Tasks : task'[s] = IF s = r THEN new ELSE task[s]
    BY <1>1, <2>1
  <2>5. Timely'
    BY <2>1, <2>3, <2>4 DEF TimelyIInv, Timely
  <2>6. KeysOutlast'
    <3> SUFFICES ASSUME NEW c \in Clients, store[c] # NoKey, ~Saving(c)'
                 PROVE  expiry'[c] >= store[c].last + 2 * Cooldown
      BY <2>1 DEF KeysOutlast
    <3>1. store[c].last <= clock /\ store[c].last \in Nat
      BY <1>1 DEF TimelyIInv, Timely, Record
    <3>2. CASE c = t.client
      <4>1. Ttl(t.rec, clock) >= 2 * Cooldown /\ Ttl(t.rec, clock) \in Nat
        BY <1>1, <2>2, TimingAssumption DEF Ttl
      <4>2. expiry'[c] = clock + Ttl(t.rec, clock)
        BY <1>1, <2>1, <3>2 DEF WithTtl
      <4> QED BY <3>1, <4>1, <4>2, <1>1, TimingAssumption
    <3>3. CASE c # t.client
      <4>1. ~Saving(c)
        BY <2>1, <2>4, <3>3 DEF Saving
      <4>2. expiry'[c] = expiry[c]
        BY <1>1, <2>1, <3>3 DEF WithTtl
      <4> QED BY <4>1, <4>2 DEF TimelyIInv, KeysOutlast
    <3> QED BY <3>2, <3>3
  <2> QED BY <2>5, <2>6
<1>8. ASSUME Tick PROVE Rest'
  <2>1. \A c \in Clients : store'[c] # NoKey => store'[c] = store[c] /\ expiry'[c] = expiry[c]
    BY <1>1, <1>8 DEF Tick
  <2>2. clock' = clock + 1 /\ UNCHANGED <<fallback, task>>
    BY <1>8 DEF Tick
  <2>3. Timely'
    <3>1. \A c \in Clients : store'[c] # NoKey => store'[c].last <= clock'
      <4> SUFFICES ASSUME NEW c \in Clients, store'[c] # NoKey
                   PROVE  store'[c].last <= clock'
        OBVIOUS
      <4>1. store'[c] = store[c] /\ store[c] \in Record /\ store[c].last <= clock
        BY <2>1, <1>1 DEF TimelyIInv, Timely
      <4> QED BY <4>1, <2>2, <1>1 DEF Record
    <3>2. \A r \in Tasks : task'[r].rec.last <= clock'
      BY <2>2, <1>1 DEF TimelyIInv, Timely
    <3> QED BY <3>1, <3>2, <2>2 DEF TimelyIInv, Timely
  <2>4. KeysOutlast'
    <3> SUFFICES ASSUME NEW c \in Clients, store'[c] # NoKey, ~Saving(c)'
                 PROVE  expiry'[c] >= store'[c].last + 2 * Cooldown
      BY DEF KeysOutlast
    <3>1. store'[c] = store[c] /\ expiry'[c] = expiry[c]
      BY <2>1
    <3>2. ~Saving(c)
      BY <2>2 DEF Saving
    <3> QED BY <3>1, <3>2 DEF TimelyIInv, KeysOutlast
  <2> QED BY <2>3, <2>4
<1>9. ASSUME UNCHANGED vars PROVE Rest'
  <2>1. UNCHANGED <<clock, store, expiry, fallback, task>>
    BY <1>9 DEF vars
  <2>2. Timely'
    BY <2>1 DEF TimelyIInv, Timely
  <2>3. KeysOutlast'
    BY <2>1 DEF TimelyIInv, KeysOutlast, Saving
  <2> QED BY <2>2, <2>3
<1>10. Rest'
  <2>1. TypeOK
    BY DEF TimelyIInv, IInv
  <2> QED BY <2>1, <1>2, <1>3, <1>4, <1>5, <1>6, <1>7, <1>8, <1>9, StepsWithoutFaults
             DEF Resume
<1> QED BY <1>0, <1>10 DEF TimelyIInv

LEMMA InitIsTimely == Init => TimelyIInv
<1> SUFFICES ASSUME Init PROVE TimelyIInv
  OBVIOUS
<1>1. PICK p \in Proxies, c \in Clients :
        task = [r \in Tasks |-> Returned([proxy |-> p, client |-> c], Allow(ALLOW))]
  BY DEF Init
<1>2. \A r \in Tasks : task[r].rec.last = 0
  BY <1>1 DEF Returned, Fresh
<1> QED BY <1>2, InitIsGood, InitIsHeeded DEF Init, TimelyIInv, Timely, KeysOutlast

(* A key is not dropped before its record has cooled down, unless its EXPIRE *)
(* is still to come.                                                         *)
LEMMA DroppedKeysAreCold ==
  ASSUME TimelyIInv, Tick, NEW c \in Clients, ~Saving(c),
         store[c] # NoKey, store'[c] # store[c]
  PROVE  /\ store'[c] = NoKey
         /\ clock + 1 >= store[c].last + 2 * Cooldown
<1>1. store \in [Clients -> Record \union {NoKey}] /\ expiry \in [Clients -> Nat]
  BY DEF TimelyIInv, IInv, TypeOK
<1>2. store'[c] = NoKey /\ expiry[c] <= clock + 1
  BY <1>1 DEF Tick
<1>3. expiry[c] >= store[c].last + 2 * Cooldown
  BY DEF TimelyIInv, KeysOutlast
<1>4. store[c].last \in Nat /\ clock \in Nat /\ expiry[c] \in Nat
  BY <1>1 DEF TimelyIInv, IInv, TypeOK, Record
<1> QED BY <1>2, <1>3, <1>4, TimingAssumption

(* A block in force is not dropped, unless its EXPIRE is still to come.      *)
LEMMA BlocksOutlast ==
  ASSUME TimelyIInv, Tick, NEW c \in Clients, store[c] # NoKey,
         InForce(store[c], clock), store'[c] # store[c]
  PROVE  store'[c] = NoKey /\ Saving(c)
<1>1. clock \in Nat /\ store[c] \in Record
  BY DEF TimelyIInv, IInv, TypeOK
<1>2. store'[c] = NoKey
  BY DEF Tick, TimelyIInv, IInv, TypeOK
<1>3. ASSUME ~Saving(c) PROVE FALSE
  <2>1. clock + 1 >= store[c].last + 2 * Cooldown
    BY <1>3, DroppedKeysAreCold
  <2>2. clock < store[c].last + Cooldown /\ store[c].last \in Nat
    BY <1>1 DEF InForce, Record
  <2> QED BY <2>1, <2>2, <1>1, TimingAssumption
<1> QED BY <1>2, <1>3

(* The invariant of all behaviours: TimelyIInv until something fails.        *)
UnfailedIInv ==
  /\ IInv
  /\ Heeded
  /\ faults = 0 => TimelyIInv

(* Faults are not undone.                                                    *)
LEMMA FaultsStay ==
  ASSUME TypeOK, [Next]_vars
  PROVE  faults' \in {faults, faults + 1} /\ (faults' = 0 => faults = 0)
<1>1. faults \in Nat
  BY EngineAssumption DEF TypeOK
<1>2. faults' \in {faults, faults + 1}
  BY DEF Next, vars, Arrive, ArriveWhitelisted, Resume, Fail, Fetch, UnderLimit, OverLimit,
         SaveHset, SaveExpire, FetchFails, SaveHsetFails, SaveExpireFails, RestartProxy,
         RestartRedis, Tick
<1> QED BY <1>1, <1>2

LEMMA NextIsUnfailed == UnfailedIInv /\ [Next]_vars => UnfailedIInv'
<1> SUFFICES ASSUME UnfailedIInv, [Next]_vars PROVE UnfailedIInv'
  OBVIOUS
<1>1. IInv' /\ Heeded'
  BY NextIsGood, NextIsHeeded DEF UnfailedIInv
<1>2. ASSUME faults' = 0 PROVE TimelyIInv'
  <2>1. TimelyIInv
    BY <1>2, FaultsStay DEF UnfailedIInv, IInv
  <2> QED BY <1>2, <2>1, NextIsTimely
<1> QED BY <1>1, <1>2 DEF UnfailedIInv

LEMMA InitIsUnfailed == Init => UnfailedIInv
BY InitIsTimely DEF UnfailedIInv, TimelyIInv

(* Any number of coroutines may overwrite each other's records, and anything *)
(* may fail: a block in force is overwritten only by a coroutine that        *)
(* fetched another record than the block, and before the first fault it is   *)
(* dropped only while its EXPIRE is still to come (engine.py:86, 97, 134 and *)
(* 235).                                                                     *)
THEOREM OverwritesAreStale == Spec => OnlyStaleTasksLiftBlocks
<1> DEFINE Overwritten(c) ==
      \E r \in Tasks : /\ task[r].client = c
                       /\ task[r].pc = "hset" /\ task'[r].pc # "hset"
                       /\ task[r].seen # store[c]
<1> DEFINE Step ==
      \A c \in Clients :
        store[c] # NoKey /\ InForce(store[c], clock) /\ store'[c] # store[c] =>
          IF store'[c] = NoKey THEN Saving(c) \/ faults' > 0 ELSE Overwritten(c)
<1>1. UnfailedIInv /\ [Next]_vars => Step
  <2> SUFFICES ASSUME UnfailedIInv, [Next]_vars, NEW c \in Clients, store[c] # NoKey,
                      InForce(store[c], clock), store'[c] # store[c]
               PROVE  IF store'[c] = NoKey THEN Saving(c) \/ faults' > 0 ELSE Overwritten(c)
    OBVIOUS
  <2>1. /\ clock \in Nat /\ store[c] \in Record /\ task \in [Tasks -> Task]
        /\ store \in [Clients -> Record \union {NoKey}] /\ TypeOK /\ faults \in Nat
        /\ \A r \in Tasks : task[r].rec \in Record /\ task[r].rec # NoKey
    BY EngineAssumption DEF UnfailedIInv, IInv, TypeOK, Task
  <2>2. CASE Tick
    <3>1. store'[c] = NoKey
      BY <2>1, <2>2 DEF Tick
    <3>2. faults' = faults
      BY <2>2 DEF Tick
    <3>3. faults = 0 => Saving(c)
      BY <2>2, BlocksOutlast DEF UnfailedIInv
    <3> QED BY <2>1, <3>1, <3>2, <3>3
  <2>3. CASE RestartRedis
    <3>1. store'[c] = NoKey /\ faults' = faults + 1
      BY <2>1, <2>3 DEF RestartRedis
    <3> QED BY <2>1, <3>1
  <2>4. ASSUME NEW r \in Tasks, SaveHset(r) \/ SaveHsetFails(r)
        PROVE  store'[c] # NoKey /\ Overwritten(c)
    <3>1. task[r].pc = "hset" /\ task'[r].pc # "hset"
      <4>1. CASE SaveHset(r)
        BY <2>1, <4>1 DEF SaveHset, Suspended
      <4>2. CASE SaveHsetFails(r)
        BY <2>1, <4>2 DEF SaveHsetFails, AfterSave, Suspended, Returned
      <4> QED BY <2>4, <4>1, <4>2
    <3>2. store' = [store EXCEPT ![task[r].client] = task[r].rec]
      BY <2>4 DEF SaveHset, SaveHsetFails
    <3>3. task[r].client = c /\ store'[c] = task[r].rec
      BY <2>1, <3>2
    <3>4. /\ ~InForce(task[r].seen, task[r].now) /\ task[r].now <= clock
          /\ task[r].now \in Nat
      BY <2>1, <3>1 DEF UnfailedIInv, Heeded, SawNoBlock, Task
    <3>5. task[r].seen # store[c]
      BY <3>4, <2>1, BlocksEnd
    <3> QED BY <2>1, <3>1, <3>3, <3>5
  <2>5. ASSUME NEW r \in Tasks, Resume(r) \/ Fail(r), ~SaveHset(r), ~SaveHsetFails(r)
        PROVE  FALSE
    BY <2>5 DEF Resume, Fail, Fetch, UnderLimit, OverLimit, SaveExpire, FetchFails,
                SaveExpireFails
  <2>6. ASSUME NEW r \in Tasks, NEW p \in Proxies, NEW d \in Clients,
               Arrive(r, p, d) \/ ArriveWhitelisted(r, p, d) PROVE FALSE
    BY <2>6 DEF Arrive, ArriveWhitelisted
  <2>7. ASSUME NEW p \in Proxies, RestartProxy(p) PROVE FALSE
    BY <2>7 DEF RestartProxy
  <2>8. Next
    BY DEF vars
  <2> HIDE DEF Overwritten
  <2> QED BY <2>2, <2>3, <2>4, <2>5, <2>6, <2>7, <2>8 DEF Next
<1>2. UnfailedIInv /\ [Next]_vars => UnfailedIInv'
  BY NextIsUnfailed
<1>3. UnfailedIInv /\ [Next]_vars => [Step]_vars
  BY <1>1
<1> HIDE DEF Step
<1>4. Spec => [][Step]_vars
  BY <1>2, <1>3, InitIsUnfailed, PTL DEF Spec
<1> QED BY <1>4 DEF OnlyStaleTasksLiftBlocks, Step

-------------------------------------------------------------------------------
(***************************************************************************)
(* The promises of ClientStanding, as long as nothing has failed and the   *)
(* requests of each client are evaluated one after the other; those of     *)
(* different clients may interleave, on any number of proxies.             *)
(***************************************************************************)

OnePerClient ==
  \A r, s \in Tasks :
    task[r].pc # "done" /\ task[s].pc # "done" /\ task[r].client = task[s].client => r = s

Level(reply) == IF reply = NoKey THEN ALLOW ELSE reply.level

(* What an HSET of t.rec over reply means to ClientStanding: a violation,    *)
(* nothing, a cooldown, or the end of a temporary block.                     *)
Promised(reply, t) ==
  \/ Level(reply) < TEMP_BLOCK /\ t.rec.level >= THROTTLE
  \/ Level(reply) = ALLOW /\ t.rec.level = ALLOW
  \/ Level(reply) > ALLOW /\ t.now - reply.last >= Cooldown /\ t.rec.level = ALLOW
  \/ Level(reply) = TEMP_BLOCK /\ t.now >= reply.last + TempBlock /\ t.rec.level = THROTTLE

(* How the locals of a running coroutine relate to the hash of its client:   *)
(* the hash is what the coroutine fetched or saved, unless it was dropped.   *)
Abreast(t, reply) ==
  t.pc # "done" =>
    /\ reply # NoKey => reply.last <= t.now
    /\ t.pc = "limit" => reply \in {NoKey, t.rec}
    /\ t.pc = "hset" => t.rec.last = t.now /\ Promised(reply, t)
    /\ t.pc = "expire" => reply \in {NoKey, t.rec}

SerialIInv ==
  /\ TimelyIInv
  /\ \A r \in Tasks : Abreast(task[r], store[task[r].client])

(* The coroutine reads the hash as it is, for no fallback has a record.      *)
LEMMA AfterFetchIsAbreast ==
  ASSUME NEW t \in Task, NEW reply \in Record \union {NoKey}, GoodReply(reply),
         reply # NoKey => reply.last <= t.now
  PROVE  LET u == AfterFetch(t, IF reply = NoKey THEN Fresh ELSE reply)
         IN  Abreast(u, reply) /\ u.client = t.client
<1> DEFINE rec == IF reply = NoKey THEN Fresh ELSE reply
           u   == AfterFetch(t, rec)
<1>1. /\ t.now \in Nat /\ rec \in Record /\ Coherent(rec)
      /\ rec.level \in Levels /\ rec.last \in Nat
  BY FreshIsCoherent DEF Task, GoodReply, Record
<1>2. rec.level > ALLOW => reply # NoKey /\ rec = reply
  BY DEF Fresh
<1>3. rec.level = TEMP_BLOCK => rec.until = rec.last + TempBlock
  BY <1>1 DEF Coherent, DeadlineMatches, Deadline
<1>4. CASE CooledDown(rec, t.now)
  <2>1. /\ u.pc = "hset" /\ u.now = t.now /\ u.client = t.client
        /\ u.rec.last = t.now /\ u.rec.level = ALLOW
    BY <1>4 DEF AfterFetch, Suspended, Reset
  <2>2. Promised(reply, u)
    BY <1>1, <1>2, <1>4, <2>1 DEF CooledDown, Promised, Level
  <2> QED BY <2>1, <2>2 DEF Abreast
<1>5. CASE ~CooledDown(rec, t.now) /\ TempExpired(rec, t.now)
  <2>1. /\ u.pc = "hset" /\ u.now = t.now /\ u.client = t.client
        /\ u.rec.last = t.now /\ u.rec.level = THROTTLE
    BY <1>5 DEF AfterFetch, Suspended, Deescalated
  <2>2. Promised(reply, u)
    BY <1>1, <1>2, <1>3, <1>5, <2>1 DEF TempExpired, Promised, Level
  <2> QED BY <2>1, <2>2 DEF Abreast
<1>6. CASE ~CooledDown(rec, t.now) /\ ~TempExpired(rec, t.now) /\ Blocked(rec)
  BY <1>6 DEF AfterFetch, Returned, Abreast
<1>7. CASE ~CooledDown(rec, t.now) /\ ~TempExpired(rec, t.now) /\ ~Blocked(rec)
  <2>1. /\ u.pc = "limit" /\ u.now = t.now /\ u.client = t.client /\ u.rec = rec
    BY <1>7 DEF AfterFetch, Suspended
  <2> QED BY <2>1 DEF Abreast
<1> QED BY <1>4, <1>5, <1>6, <1>7

(* A violation noted on a record that is not a block.                        *)
LEMMA PenalisedIsPromised ==
  ASSUME NEW rec \in Record, ~Blocked(rec), NEW now \in Nat, NEW score \in Nat,
         NEW t, t.rec = Penalised(rec, now, score), NEW reply \in {NoKey, rec}
  PROVE  Promised(reply, t) /\ t.rec.last = now
<1>1. rec.level \in Levels /\ rec.violations \in Nat /\ rec.level < TEMP_BLOCK
  BY DEF Record, Blocked
<1>2. /\ t.rec.level = NextLevel(rec.level, rec.violations + 1, score)
      /\ t.rec.last = now
  BY DEF Penalised
<1>3. t.rec.level \in Tiers \/ t.rec.level = rec.level
  BY <1>1, <1>2, NextLevelCovers
<1>4. Level(reply) \in {ALLOW, rec.level}
  BY DEF Level
<1> QED BY <1>1, <1>2, <1>3, <1>4 DEF Promised

(* A step of r that leaves the store alone.                                  *)
LEMMA StepKeepsAbreast ==
  ASSUME SerialIInv, NEW r \in Tasks, NEW new, new.client \in Clients,
         task' = [task EXCEPT ![r] = new], store' = store,
         Abreast(new, store[new.client])
  PROVE  \A s \in Tasks : Abreast(task'[s], store'[task'[s].client])
<1>1. task \in [Tasks -> Task]
  BY DEF SerialIInv, TimelyIInv, IInv, TypeOK
<1>2. \A s \in Tasks : task'[s] = IF s = r THEN new ELSE task[s]
  BY <1>1
<1> QED BY <1>2 DEF SerialIInv

LEMMA NextIsSerial ==
  ASSUME faults' = 0, SerialIInv, OnePerClient, [Next]_vars
  PROVE  SerialIInv'
<1> DEFINE AllAbreast == \A s \in Tasks : Abreast(task[s], store[task[s].client])
<1>0. TimelyIInv /\ TimelyIInv' /\ TypeOK
  BY NextIsTimely DEF SerialIInv, TimelyIInv, IInv
<1>1. /\ clock \in Nat /\ MaxClock \in Nat /\ task \in [Tasks -> Task]
      /\ store \in [Clients -> Record \union {NoKey}]
      /\ \A r \in Tasks : /\ task[r] \in Task /\ task[r].now \in Nat
                          /\ task[r].rec \in Record
                          /\ task[r].client \in Clients /\ task[r].proxy \in Proxies
  BY <1>0, EngineAssumption DEF TypeOK, Task
<1>2. ASSUME NEW r \in Tasks, NEW p \in Proxies, NEW c \in Clients,
             Arrive(r, p, c) \/ ArriveWhitelisted(r, p, c)
      PROVE  AllAbreast'
  <2>1. CASE Arrive(r, p, c)
    <3> DEFINE new == [pc |-> "fetch", then |-> "done", proxy |-> p, client |-> c,
                       now |-> clock, rec |-> Fresh, seen |-> Fresh,
                       decision |-> Allow(ALLOW)]
    <3>1. new.pc = "fetch" /\ new.now = clock /\ new.client = c
      OBVIOUS
    <3>2. task' = [task EXCEPT ![r] = new] /\ store' = store
      BY <2>1 DEF Arrive
    <3> HIDE DEF new
    <3>3. Abreast(new, store[c])
      BY <1>0, <3>1 DEF Abreast, TimelyIInv, Timely
    <3> QED BY <3>1, <3>2, <3>3, StepKeepsAbreast
  <2>2. CASE ArriveWhitelisted(r, p, c)
    <3> DEFINE new == Returned([proxy |-> p, client |-> c], Allow(ALLOW))
    <3>1. new.pc = "done" /\ new.client = c
      BY DEF Returned
    <3>2. task' = [task EXCEPT ![r] = new] /\ store' = store
      BY <2>2 DEF ArriveWhitelisted
    <3> HIDE DEF new
    <3>3. Abreast(new, store[c])
      BY <3>1 DEF Abreast
    <3> QED BY <3>1, <3>2, <3>3, StepKeepsAbreast
  <2> QED BY <1>2, <2>1, <2>2
<1>3. ASSUME NEW r \in Tasks, Fetch(r) PROVE AllAbreast'
  <2> DEFINE reply == store[task[r].client]
             rec   == IF reply = NoKey THEN Fresh ELSE reply
             new   == AfterFetch(task[r], rec)
  <2>1. FallbackRecord(task[r].proxy, task[r].client) = Fresh
    BY <1>0, <1>1 DEF FallbackRecord, TimelyIInv, Timely
  <2>2. task' = [task EXCEPT ![r] = new] /\ store' = store /\ task[r].pc = "fetch"
    BY <1>3, <2>1 DEF Fetch
  <2>3. /\ reply \in Record \union {NoKey} /\ GoodReply(reply)
        /\ reply # NoKey => reply.last <= task[r].now
    BY <1>0, <1>1, <2>2 DEF SerialIInv, Abreast, TimelyIInv, IInv
  <2>4. Abreast(new, reply) /\ new.client = task[r].client
    BY <1>1, <2>3, AfterFetchIsAbreast
  <2> HIDE DEF new
  <2> QED BY <1>1, <2>2, <2>4, StepKeepsAbreast
<1>4. ASSUME NEW r \in Tasks, UnderLimit(r) PROVE AllAbreast'
  <2> DEFINE new == Returned(task[r], Allow(task[r].rec.level))
  <2>1. new.pc = "done" /\ new.client = task[r].client
    BY DEF Returned
  <2>2. task' = [task EXCEPT ![r] = new] /\ store' = store
    BY <1>4 DEF UnderLimit
  <2> HIDE DEF new
  <2>3. Abreast(new, store[new.client])
    BY <2>1 DEF Abreast
  <2> QED BY <1>1, <2>1, <2>2, <2>3, StepKeepsAbreast
<1>5. ASSUME NEW r \in Tasks, OverLimit(r) PROVE AllAbreast'
  <2> DEFINE reply      == store[task[r].client]
             pen(score) == Penalised(task[r].rec, task[r].now, score)
             New(score) == Suspended(task[r], "hset", "done", pen(score), task[r].seen,
                                     Deny(pen(score).level))
  <2>1. PICK score \in Scores : task' = [task EXCEPT ![r] = New(score)]
    BY <1>5 DEF OverLimit
  <2> DEFINE new == New(score)
  <2>2. /\ new.pc = "hset" /\ new.now = task[r].now /\ new.client = task[r].client
        /\ new.rec = pen(score)
    BY DEF Suspended
  <2>3. task[r].pc = "limit" /\ store' = store /\ score \in Nat
    BY <1>5, EngineAssumption DEF OverLimit
  <2>4. ~Blocked(task[r].rec)
    BY <1>0, <2>3 DEF TimelyIInv, IInv, GoodTask, BoundForLimiter
  <2>5. /\ reply \in {NoKey, task[r].rec}
        /\ reply # NoKey => reply.last <= task[r].now
    BY <2>3 DEF SerialIInv, Abreast
  <2>6. task' = [task EXCEPT ![r] = new]
    BY <2>1
  <2> HIDE DEF new, New
  <2>7. Promised(reply, new) /\ new.rec.last = task[r].now
    BY <1>1, <2>2, <2>3, <2>4, <2>5, PenalisedIsPromised
  <2>8. Abreast(new, reply)
    BY <2>2, <2>5, <2>7 DEF Abreast
  <2> QED BY <1>1, <2>2, <2>3, <2>6, <2>8, StepKeepsAbreast
<1>6. ASSUME NEW r \in Tasks, SaveHset(r) PROVE AllAbreast'
  <2> DEFINE t   == task[r]
             new == Suspended(t, "expire", t.then, t.rec, t.seen, t.decision)
  <2>1. /\ new.pc = "expire" /\ new.now = t.now /\ new.rec = t.rec
        /\ new.client = t.client
    BY DEF Suspended
  <2>2. /\ t.pc = "hset" /\ task' = [task EXCEPT ![r] = new]
        /\ store' = [store EXCEPT ![t.client] = t.rec]
    BY <1>6 DEF SaveHset
  <2>3. t.rec.last = t.now
    BY <2>2 DEF SerialIInv, Abreast
  <2>4. t.rec.last <= t.now
    BY <1>1, <2>3
  <2> HIDE DEF new
  <2>5. ASSUME NEW s \in Tasks PROVE Abreast(task'[s], store'[task'[s].client])
    <3>1. CASE s = r
      <4>1. task'[s] = new /\ store'[new.client] = t.rec
        BY <1>1, <2>1, <2>2, <3>1
      <4> QED BY <2>1, <2>4, <4>1 DEF Abreast
    <3>2. CASE s # r /\ task[s].pc = "done"
      <4>1. task'[s] = task[s]
        BY <1>1, <2>2, <3>2
      <4> QED BY <3>2, <4>1 DEF Abreast
    <3>3. CASE s # r /\ task[s].pc # "done"
      <4>1. task[s].client # t.client
        BY <2>2, <3>3 DEF OnePerClient
      <4>2. task'[s] = task[s] /\ store'[task[s].client] = store[task[s].client]
        BY <1>1, <2>2, <3>3, <4>1
      <4> QED BY <4>2 DEF SerialIInv
    <3> QED BY <3>1, <3>2, <3>3
  <2> QED BY <2>5
<1>7. ASSUME NEW r \in Tasks, SaveExpire(r) PROVE AllAbreast'
  <2> DEFINE new == AfterSave(task[r])
  <2>1. task[r].pc = "expire" /\ task' = [task EXCEPT ![r] = new] /\ store' = store
    BY <1>7 DEF SaveExpire
  <2>2. /\ store[task[r].client] \in {NoKey, task[r].rec}
        /\ store[task[r].client] # NoKey => store[task[r].client].last <= task[r].now
    BY <2>1 DEF SerialIInv, Abreast
  <2>3. new.client = task[r].client /\ Abreast(new, store[new.client])
    <3>1. CASE task[r].then = "limit"
      BY <2>2, <3>1 DEF AfterSave, Suspended, Abreast
    <3>2. CASE task[r].then # "limit"
      BY <3>2 DEF AfterSave, Returned, Abreast
    <3> QED BY <3>1, <3>2
  <2> HIDE DEF new
  <2> QED BY <1>1, <2>1, <2>3, StepKeepsAbreast
<1>8. ASSUME Tick PROVE AllAbreast'
  <2>1. task' = task
    BY <1>8 DEF Tick
  <2>2. ASSUME NEW s \in Tasks PROVE Abreast(task[s], store'[task[s].client])
    <3> DEFINE reply == store[task[s].client]
    <3>1. Abreast(task[s], reply)
      BY DEF SerialIInv
    <3>2. store'[task[s].client] \in {NoKey, reply}
      BY <1>1, <1>8 DEF Tick
    <3>3. task[s].rec.level \in Levels
      BY <1>1 DEF Record
    <3>4. Promised(NoKey, task[s])
      BY <3>3 DEF Promised, Level
    <3>5. Abreast(task[s], NoKey)
      BY <3>1, <3>4 DEF Abreast
    <3> QED BY <3>1, <3>2, <3>5
  <2> QED BY <2>1, <2>2
<1>9. ASSUME UNCHANGED vars PROVE AllAbreast'
  BY <1>9 DEF vars, SerialIInv
<1>10. AllAbreast'
  BY <1>0, <1>2, <1>3, <1>4, <1>5, <1>6, <1>7, <1>8, <1>9, StepsWithoutFaults DEF Resume
<1> QED BY <1>0, <1>10 DEF SerialIInv

LEMMA InitIsSerial == Init => SerialIInv
<1> SUFFICES ASSUME Init PROVE SerialIInv
  OBVIOUS
<1>1. PICK p \in Proxies, c \in Clients :
        task = [r \in Tasks |-> Returned([proxy |-> p, client |-> c], Allow(ALLOW))]
  BY DEF Init
<1>2. \A r \in Tasks : task[r].pc = "done"
  BY <1>1 DEF Returned
<1> QED BY <1>2, InitIsTimely DEF SerialIInv, Abreast

(* The invariant of all behaviours: SerialIInv until something fails.        *)
SerialSoFar ==
  /\ TypeOK
  /\ faults = 0 => SerialIInv

LEMMA NextIsSerialSoFar ==
  ASSUME SerialSoFar, TypeOK', OnePerClient, [Next]_vars
  PROVE  SerialSoFar'
<1>1. ASSUME faults' = 0 PROVE SerialIInv'
  <2>1. SerialIInv
    BY <1>1, FaultsStay DEF SerialSoFar
  <2> QED BY <1>1, <2>1, NextIsSerial
<1> QED BY <1>1 DEF SerialSoFar

(* Which steps concern ClientStanding.                                       *)
LEMMA StoreChanges ==
  ASSUME faults' = 0, SerialIInv, [Next]_vars
  PROVE  \/ \E r \in Tasks : SaveHset(r)
         \/ \E r \in Tasks : SaveExpire(r)
         \/ Tick
         \/ UNCHANGED <<clock, store>> /\ \A c \in Clients : Saving(c)' <=> Saving(c)
<1>1. TypeOK /\ task \in [Tasks -> Task]
  BY DEF SerialIInv, TimelyIInv, IInv, TypeOK
<1>2. ASSUME NEW r \in Tasks, NEW new, task' = [task EXCEPT ![r] = new],
             task[r].pc # "expire", new.pc # "expire"
      PROVE  \A c \in Clients : Saving(c)' <=> Saving(c)
  <2>1. \A s \in Tasks : task'[s] = IF s = r THEN new ELSE task[s]
    BY <1>1, <1>2
  <2> QED BY <1>2, <2>1 DEF Saving
<1>3. ASSUME NEW r \in Tasks, NEW p \in Proxies, NEW c \in Clients,
             Arrive(r, p, c) \/ ArriveWhitelisted(r, p, c)
      PROVE  UNCHANGED <<clock, store>> /\ \A d \in Clients : Saving(d)' <=> Saving(d)
  <2> DEFINE fetching == [pc |-> "fetch", then |-> "done", proxy |-> p, client |-> c,
                          now |-> clock, rec |-> Fresh, seen |-> Fresh,
                          decision |-> Allow(ALLOW)]
             returned == Returned([proxy |-> p, client |-> c], Allow(ALLOW))
  <2>1. /\ UNCHANGED <<clock, store>> /\ task[r].pc = "done"
        /\ task' = [task EXCEPT ![r] = fetching] \/ task' = [task EXCEPT ![r] = returned]
    BY <1>3 DEF Arrive, ArriveWhitelisted
  <2>2. fetching.pc = "fetch" /\ returned.pc = "done"
    BY DEF Returned
  <2> HIDE DEF fetching, returned
  <2> QED BY <2>1, <2>2, <1>2
<1>4. ASSUME NEW r \in Tasks, Fetch(r)
      PROVE  UNCHANGED <<clock, store>> /\ \A d \in Clients : Saving(d)' <=> Saving(d)
  <2> DEFINE new == AfterFetch(task[r], IF store[task[r].client] = NoKey
                                        THEN FallbackRecord(task[r].proxy, task[r].client)
                                        ELSE store[task[r].client])
  <2>1. UNCHANGED <<clock, store>> /\ task[r].pc = "fetch" /\ task' = [task EXCEPT ![r] = new]
    BY <1>4 DEF Fetch
  <2>2. new.pc # "expire"
    BY DEF AfterFetch, Suspended, Returned
  <2> HIDE DEF new
  <2> QED BY <2>1, <2>2, <1>2
<1>5. ASSUME NEW r \in Tasks, UnderLimit(r)
      PROVE  UNCHANGED <<clock, store>> /\ \A d \in Clients : Saving(d)' <=> Saving(d)
  <2> DEFINE new == Returned(task[r], Allow(task[r].rec.level))
  <2>1. UNCHANGED <<clock, store>> /\ task[r].pc = "limit" /\ task' = [task EXCEPT ![r] = new]
    BY <1>5 DEF UnderLimit
  <2>2. new.pc # "expire"
    BY DEF Returned
  <2> HIDE DEF new
  <2> QED BY <2>1, <2>2, <1>2
<1>6. ASSUME NEW r \in Tasks, OverLimit(r)
      PROVE  UNCHANGED <<clock, store>> /\ \A d \in Clients : Saving(d)' <=> Saving(d)
  <2> DEFINE New(score) ==
        LET rec == Penalised(task[r].rec, task[r].now, score)
        IN  Suspended(task[r], "hset", "done", rec, task[r].seen, Deny(rec.level))
  <2>1. PICK score \in Scores : task' = [task EXCEPT ![r] = New(score)]
    BY <1>6 DEF OverLimit
  <2>2. UNCHANGED <<clock, store>> /\ task[r].pc = "limit"
    BY <1>6 DEF OverLimit
  <2>3. New(score).pc # "expire"
    BY DEF Suspended
  <2> HIDE DEF New
  <2> QED BY <2>1, <2>2, <2>3, <1>2
<1>7. CASE UNCHANGED vars
  BY <1>7 DEF vars, Saving
<1> QED BY <1>1, <1>3, <1>4, <1>5, <1>6, <1>7, StepsWithoutFaults DEF Resume

(* Until something fails a recorded block in force is neither lifted nor     *)
(* lightened, by requests of the client or by the expiry of its key          *)
(* (engine.py:134-160 and 235-262), except that the key may be dropped       *)
(* between its HSET and its EXPIRE (engine.py:86 and 97).                    *)
THEOREM BlocksHold == Spec /\ []OnePerClient => BlocksHoldTheirTerm
<1> DEFINE Step ==
      \A c \in Clients :
        faults' = 0 /\ store[c] # NoKey /\ InForce(store[c], clock) =>
          IF store'[c] = NoKey THEN Saving(c) ELSE store'[c].level >= store[c].level
<1>1. SerialSoFar /\ [Next]_vars => Step
  <2> SUFFICES ASSUME SerialSoFar, [Next]_vars, faults' = 0, NEW c \in Clients,
                      store[c] # NoKey, InForce(store[c], clock)
               PROVE  IF store'[c] = NoKey THEN Saving(c)
                      ELSE store'[c].level >= store[c].level
    OBVIOUS
  <2>1. SerialIInv
    BY FaultsStay DEF SerialSoFar
  <2>2. /\ TimelyIInv /\ clock \in Nat /\ store[c] \in Record /\ Coherent(store[c])
        /\ store \in [Clients -> Record \union {NoKey}]
    BY <2>1 DEF SerialIInv, TimelyIInv, IInv, TypeOK, GoodReply
  <2>3. /\ store[c].level \in {TEMP_BLOCK, FULL_BLOCK} /\ store[c].last \in Nat
        /\ clock < store[c].last + Cooldown
        /\ store[c].level = TEMP_BLOCK => clock < store[c].last + TempBlock
    BY <2>2 DEF InForce, Blocked, Record, Coherent, DeadlineMatches, Deadline
  <2>4. ASSUME NEW r \in Tasks, SaveHset(r) PROVE store'[c] = store[c]
    <3> SUFFICES ASSUME store'[c] # store[c] PROVE FALSE
      OBVIOUS
    <3>1. task[r].pc = "hset" /\ task[r].client = c
      BY <2>2, <2>4 DEF SaveHset
    <3>2. Promised(store[c], task[r])
      BY <2>1, <3>1 DEF SerialIInv, Abreast
    <3>3. task[r].now <= clock /\ task[r].now \in Nat
      BY <2>2 DEF TimelyIInv, Heeded, IInv, TypeOK, Task
    <3> QED BY <3>2, <3>3, <2>2, <2>3, TimingAssumption DEF Promised, Level
  <2>5. store'[c] = store[c] \/ (store'[c] = NoKey /\ Saving(c))
    <3>1. CASE Tick
      BY <2>2, <3>1, BlocksOutlast
    <3>2. ASSUME NEW r \in Tasks, SaveExpire(r) PROVE store'[c] = store[c]
      BY <3>2 DEF SaveExpire
    <3> QED BY <2>1, <2>4, <3>1, <3>2, StoreChanges
  <2> QED BY <2>3, <2>5
<1>2. SerialSoFar /\ TypeOK' /\ OnePerClient /\ [Next]_vars => SerialSoFar'
  BY NextIsSerialSoFar
<1>3. SerialSoFar /\ [Next]_vars => [Step]_vars
  BY <1>1
<1>4. Init => SerialSoFar
  BY InitIsSerial DEF SerialSoFar, SerialIInv, TimelyIInv, IInv
<1> HIDE DEF Step
<1>5. Spec /\ []OnePerClient => [][Step]_vars
  BY <1>2, <1>3, <1>4, TypeCorrect, PTL DEF Spec
<1> QED BY <1>5 DEF BlocksHoldTheirTerm, Step

(* The map to ClientStanding.                                                *)
SinceOf(c) == IF LevelOf(c) > ALLOW THEN store[c].last ELSE 0

StandingNow  == [c \in Clients |-> LevelOf(c)]
SinceNow     == [c \in Clients |-> SinceOf(c)]
UnsettledNow == {c \in Clients : LevelOf(c) > ALLOW /\ Saving(c)}

Becomes(c, level, t) ==
  /\ StandingNow' = [StandingNow EXCEPT ![c] = level]
  /\ SinceNow' = [SinceNow EXCEPT ![c] = t]
  /\ UnsettledNow' = IF level > ALLOW THEN UnsettledNow \union {c} ELSE UnsettledNow \ {c}
  /\ clock' = clock /\ faults' = faults

(* The steps of ClientStanding under the map.                                *)
LEMMA PenaltyIsStanding ==
  ASSUME NEW c \in Clients, StandingNow[c] < TEMP_BLOCK, NEW level \in THROTTLE..FULL_BLOCK,
         NEW t \in SinceNow[c]..clock, Becomes(c, level, t)
  PROVE  Standing!Next
<1>1. Standing!Penalise(c)
  BY DEF Becomes, Standing!Penalise, Standing!Set, Standing!ALLOW, Standing!TEMP_BLOCK,
         Standing!THROTTLE, Standing!FULL_BLOCK, StandingNow, SinceNow, SinceOf, UnsettledNow
<1> QED BY <1>1 DEF Standing!Next

LEMMA ForgivenessIsStanding ==
  ASSUME NEW c \in Clients, StandingNow[c] > ALLOW, clock - SinceNow[c] >= Cooldown,
         Becomes(c, ALLOW, 0)
  PROVE  Standing!Next
<1>1. Standing!Forgive(c)
  BY DEF Becomes, Standing!Forgive, Standing!Forgivable, Standing!Set, Standing!ALLOW,
         StandingNow, SinceNow, SinceOf, UnsettledNow
<1> QED BY <1>1 DEF Standing!Next

LEMMA ReleaseIsStanding ==
  ASSUME NEW c \in Clients, StandingNow[c] = TEMP_BLOCK,
         NEW t \in (SinceNow[c] + TempBlock)..clock, Becomes(c, THROTTLE, t)
  PROVE  Standing!Next
<1>1. Standing!Release(c)
  BY DEF Becomes, Standing!Release, Standing!Set, Standing!ALLOW, Standing!TEMP_BLOCK,
         Standing!THROTTLE,
         StandingNow, SinceNow, SinceOf, UnsettledNow
<1> QED BY <1>1 DEF Standing!Next

(* An HSET is a step of ClientStanding, or none.                             *)
LEMMA SaveIsStanding ==
  ASSUME SerialIInv, NEW r \in Tasks, SaveHset(r)
  PROVE  Standing!Next \/ UNCHANGED Standing!vars
<1> DEFINE t == task[r]
           c == t.client
           reply == store[c]
           at == IF t.rec.level > ALLOW THEN t.now ELSE 0
<1>1. /\ clock \in Nat /\ store \in [Clients -> Record \union {NoKey}]
      /\ task[r] \in Task
  BY DEF SerialIInv, TimelyIInv, IInv, TypeOK, Task
<1>2. /\ c \in Clients /\ t.now \in Nat /\ t.rec \in Record /\ t.rec.level \in Levels
      /\ reply # NoKey => reply.level \in Levels /\ reply.last \in Nat
  BY <1>1 DEF Task, Record
<1>3. /\ reply # NoKey => reply.last <= t.now
      /\ t.rec.last = t.now /\ Promised(reply, t) /\ t.now <= clock
  BY DEF SerialIInv, TimelyIInv, Heeded, Abreast, SaveHset
<1>4. /\ LevelOf(c) = Level(reply)
      /\ SinceOf(c) = IF Level(reply) > ALLOW THEN reply.last ELSE 0
  BY DEF LevelOf, SinceOf, Level
<1>5. store' = [store EXCEPT ![c] = t.rec] /\ clock' = clock /\ faults' = faults
  BY DEF SaveHset
<1>6. t.rec # NoKey
  BY <1>2, EngineAssumption
<1>7. \A d \in Clients : /\ LevelOf(d)' = IF d = c THEN t.rec.level ELSE LevelOf(d)
                         /\ SinceOf(d)' = IF d = c THEN at ELSE SinceOf(d)
  BY <1>1, <1>2, <1>3, <1>5, <1>6 DEF LevelOf, SinceOf
<1>8. /\ StandingNow' = [StandingNow EXCEPT ![c] = t.rec.level]
      /\ SinceNow' = [SinceNow EXCEPT ![c] = at]
  BY <1>2, <1>7 DEF StandingNow, SinceNow
<1>9. /\ StandingNow[c] = Level(reply)
      /\ SinceNow[c] = IF Level(reply) > ALLOW THEN reply.last ELSE 0
  BY <1>2, <1>4 DEF StandingNow, SinceNow
<1>a. \A d \in Clients : Saving(d)' <=> d = c \/ Saving(d)
  <2> DEFINE new == Suspended(t, "expire", t.then, t.rec, t.seen, t.decision)
  <2>1. task' = [task EXCEPT ![r] = new] /\ t.pc = "hset"
    BY DEF SaveHset
  <2>2. new.pc = "expire" /\ new.client = c
    BY DEF Suspended
  <2> HIDE DEF new
  <2>3. \A s \in Tasks : task'[s] = IF s = r THEN new ELSE task[s]
    BY <2>1 DEF SerialIInv, TimelyIInv, IInv, TypeOK
  <2> QED BY <2>1, <2>2, <2>3 DEF Saving
<1>b. UnsettledNow' = IF t.rec.level > ALLOW THEN UnsettledNow \union {c}
                      ELSE UnsettledNow \ {c}
  BY <1>2, <1>7, <1>a DEF UnsettledNow
<1>10. Becomes(c, t.rec.level, at)
  BY <1>5, <1>8, <1>b DEF Becomes
<1>11. CASE Level(reply) < TEMP_BLOCK /\ t.rec.level >= THROTTLE
  <2>1. StandingNow[c] < TEMP_BLOCK /\ t.rec.level \in THROTTLE..FULL_BLOCK
    BY <1>2, <1>9, <1>11
  <2>2. at \in SinceNow[c]..clock
    BY <1>1, <1>2, <1>3, <1>9, <1>11 DEF Level
  <2> QED BY <1>2, <1>10, <2>1, <2>2, PenaltyIsStanding
<1>12. CASE Level(reply) = ALLOW /\ t.rec.level = ALLOW
  <2>1. StandingNow' = StandingNow /\ SinceNow' = SinceNow
    BY <1>2, <1>8, <1>9, <1>12 DEF StandingNow, SinceNow
  <2>2. UnsettledNow' = UnsettledNow
    BY <1>4, <1>12, <1>b DEF UnsettledNow
  <2> QED BY <1>5, <2>1, <2>2 DEF Standing!vars, StandingNow, SinceNow, SinceOf, UnsettledNow
<1>13. CASE Level(reply) > ALLOW /\ t.now - reply.last >= Cooldown /\ t.rec.level = ALLOW
  <2>1. StandingNow[c] > ALLOW /\ clock - SinceNow[c] >= Cooldown /\ at = 0
    BY <1>1, <1>2, <1>3, <1>9, <1>13, TimingAssumption DEF Level
  <2>2. Becomes(c, ALLOW, 0)
    BY <1>10, <1>13, <2>1 DEF Becomes
  <2> QED BY <1>2, <2>1, <2>2, ForgivenessIsStanding
<1>14. CASE /\ Level(reply) = TEMP_BLOCK /\ t.now >= reply.last + TempBlock
            /\ t.rec.level = THROTTLE
  <2>1. StandingNow[c] = TEMP_BLOCK /\ at \in (SinceNow[c] + TempBlock)..clock
    BY <1>1, <1>2, <1>3, <1>9, <1>14, TimingAssumption DEF Level
  <2>2. Becomes(c, THROTTLE, at)
    BY <1>10, <1>14 DEF Becomes
  <2> QED BY <1>2, <2>1, <2>2, ReleaseIsStanding
<1> QED BY <1>3, <1>11, <1>12, <1>13, <1>14 DEF Promised

(* An EXPIRE settles the standing of its client, or does nothing.            *)
LEMMA SettlingIsStanding ==
  ASSUME SerialIInv, NEW r \in Tasks, SaveExpire(r)
  PROVE  Standing!Next \/ UNCHANGED Standing!vars
<1> DEFINE new == AfterSave(task[r])
<1>0. PICK c \in Clients : c = task[r].client
  BY DEF SerialIInv, TimelyIInv, IInv, TypeOK, Task
<1>1. task[r].pc = "expire" /\ task \in [Tasks -> Task]
  BY DEF SaveExpire, SerialIInv, TimelyIInv, IInv, TypeOK
<1>2. task' = [task EXCEPT ![r] = new] /\ UNCHANGED <<clock, store, faults>>
  BY DEF SaveExpire
<1>3. new.pc # "expire" /\ new.client = c
  BY <1>0 DEF AfterSave, Suspended, Returned
<1> HIDE DEF new
<1>4. \A s \in Tasks : task'[s] = IF s = r THEN new ELSE task[s]
  BY <1>1, <1>2
<1>5. Saving(c) /\ \A d \in Clients : d # c => (Saving(d)' <=> Saving(d))
  BY <1>0, <1>1, <1>3, <1>4 DEF Saving
<1>6. \A d \in Clients : LevelOf(d)' = LevelOf(d) /\ SinceOf(d)' = SinceOf(d)
  BY <1>2 DEF LevelOf, SinceOf
<1>7. StandingNow' = StandingNow /\ SinceNow' = SinceNow
  BY <1>6 DEF StandingNow, SinceNow
<1>8. CASE c \in UnsettledNow /\ ~Saving(c)'
  <2>1. UnsettledNow' = UnsettledNow \ {c}
    BY <1>5, <1>6, <1>8 DEF UnsettledNow
  <2>2. Standing!Settle(c)
    BY <1>2, <1>7, <1>8, <2>1
       DEF Standing!Settle, StandingNow, SinceNow, SinceOf, UnsettledNow
  <2> QED BY <1>1, <2>2 DEF Standing!Next
<1>9. CASE c \notin UnsettledNow \/ Saving(c)'
  <2>1. UnsettledNow' = UnsettledNow
    BY <1>1, <1>5, <1>6, <1>9 DEF UnsettledNow
  <2> QED BY <1>2, <1>7, <2>1 DEF Standing!vars, StandingNow, SinceNow, SinceOf, UnsettledNow
<1> QED BY <1>8, <1>9

(* A tick, with the keys it drops, is a tick of ClientStanding.              *)
LEMMA TickIsStanding ==
  ASSUME SerialIInv, Tick
  PROVE  Standing!Tick
<1> DEFINE gone == {d \in Clients : LevelOf(d) > ALLOW /\ store'[d] = NoKey}
<1>1. TimelyIInv /\ clock \in Nat /\ store \in [Clients -> Record \union {NoKey}]
  BY DEF SerialIInv, TimelyIInv, IInv, TypeOK
<1>2. \A d \in Clients : store'[d] \in {NoKey, store[d]}
  BY <1>1 DEF Tick
<1>3. \A d \in Clients : LevelOf(d) \in Levels
  BY <1>1 DEF LevelOf, Record
<1>4. \A d \in Clients : /\ LevelOf(d)' = IF d \in gone THEN ALLOW ELSE LevelOf(d)
                         /\ SinceOf(d)' = IF d \in gone THEN 0 ELSE SinceOf(d)
  BY <1>2, <1>3 DEF LevelOf, SinceOf
<1>5. /\ StandingNow' = [d \in Clients |-> IF d \in gone THEN ALLOW ELSE StandingNow[d]]
      /\ SinceNow' = [d \in Clients |-> IF d \in gone THEN 0 ELSE SinceNow[d]]
  BY <1>4 DEF StandingNow, SinceNow
<1>6. ASSUME NEW d \in gone, ~Saving(d) PROVE Standing!Forgivable(d, clock + 1)
  <2>1. store[d] # NoKey /\ store'[d] # store[d] /\ store[d] \in Record
    BY <1>1 DEF LevelOf
  <2>2. clock + 1 >= store[d].last + 2 * Cooldown
    BY <1>1, <1>6, <2>1, DroppedKeysAreCold
  <2>3. LevelOf(d) > ALLOW /\ d \in Clients
    OBVIOUS
  <2> HIDE DEF gone
  <2>4. clock + 1 - store[d].last >= Cooldown
    BY <1>1, <2>1, <2>2, TimingAssumption DEF Record
  <2>5. LevelOf(d) \in Nat /\ store[d].last \in Nat
    BY <1>3, <2>1, <2>3 DEF Record
  <2> QED BY <1>1, <2>3, <2>4, <2>5, TimingAssumption DEF Standing!Forgivable, Standing!ALLOW
<1>7. /\ clock < MaxClock /\ clock' = clock + 1
      /\ task' = task /\ faults' = faults
  BY DEF Tick
<1>8. UnsettledNow' = UnsettledNow \ gone
  <2>1. \A d \in Clients : Saving(d)' <=> Saving(d)
    BY <1>7 DEF Saving
  <2>2. \A d \in Clients : d \in gone => d \in Clients /\ LevelOf(d)' = ALLOW
    BY <1>4
  <2> HIDE DEF gone
  <2> QED BY <1>3, <1>4, <2>1, <2>2 DEF UnsettledNow
<1>9. ASSUME NEW d \in gone
      PROVE  d \in UnsettledNow \union {e \in Clients : Standing!Forgivable(e, clock + 1)}
  <2>1. d \in Clients /\ LevelOf(d) > ALLOW
    OBVIOUS
  <2>2. ~Saving(d) => Standing!Forgivable(d, clock + 1)
    BY <1>6
  <2> HIDE DEF gone
  <2> QED BY <2>1, <2>2 DEF UnsettledNow
<1> HIDE DEF gone
<1>10. gone \in SUBSET (UnsettledNow \union {d \in Clients : Standing!Forgivable(d, clock + 1)})
  BY <1>9
<1> QED BY <1>5, <1>7, <1>8, <1>10
        DEF Standing!Tick, Standing!ALLOW, StandingNow, SinceNow, SinceOf, UnsettledNow

(* The engine keeps the promises of ClientStanding: it implements it, with   *)
(* the level of the recorded hash as the standing, the time of the recorded  *)
(* violation as its beginning, and a standing unsettled from its HSET to its *)
(* EXPIRE.  Nothing is promised once something has failed.                   *)
THEOREM EngineKeepsStandings == Spec /\ []OnePerClient => KeepsStandings
<1>1. Init => Standing!Init
  BY DEF Init, Standing!Init, Standing!ALLOW, LevelOf
<1>2. SerialSoFar /\ [Next]_vars => [Standing!Next]_Standing!vars
  <2> SUFFICES ASSUME SerialSoFar, [Next]_vars
               PROVE  Standing!Next \/ UNCHANGED Standing!vars
    OBVIOUS
  <2>1. faults' \in Nat
    BY FaultsStay, EngineAssumption DEF SerialSoFar, TypeOK
  <2>2. CASE faults' # 0
    BY <2>1, <2>2 DEF Standing!Next, Standing!Disturbed
  <2>3. CASE faults' = 0
    <3>1. SerialIInv
      BY <2>3, FaultsStay DEF SerialSoFar
    <3>2. ASSUME NEW r \in Tasks, SaveHset(r)
          PROVE  Standing!Next \/ UNCHANGED Standing!vars
      BY <3>1, <3>2, SaveIsStanding
    <3>3. ASSUME NEW r \in Tasks, SaveExpire(r)
          PROVE  Standing!Next \/ UNCHANGED Standing!vars
      BY <3>1, <3>3, SettlingIsStanding
    <3>4. ASSUME Tick PROVE Standing!Next
      BY <3>1, <3>4, TickIsStanding DEF Standing!Next
    <3>5. ASSUME UNCHANGED <<clock, store>>, \A c \in Clients : Saving(c)' <=> Saving(c)
          PROVE  UNCHANGED Standing!vars
      <4>1. faults = faults'
        BY <2>3, FaultsStay DEF SerialSoFar
      <4>2. {c \in Clients : LevelOf(c) > ALLOW /\ Saving(c)}' =
              {c \in Clients : LevelOf(c) > ALLOW /\ Saving(c)}
        BY <3>5 DEF LevelOf
      <4> QED BY <3>5, <4>1, <4>2 DEF Standing!vars, LevelOf
    <3> QED BY <2>3, <3>1, <3>2, <3>3, <3>4, <3>5, StoreChanges
  <2> QED BY <2>2, <2>3
<1>3. SerialSoFar /\ TypeOK' /\ OnePerClient /\ [Next]_vars => SerialSoFar'
  BY NextIsSerialSoFar
<1>4. Init => SerialSoFar
  BY InitIsSerial DEF SerialSoFar, SerialIInv, TimelyIInv, IInv
<1> QED BY <1>1, <1>2, <1>3, <1>4, TypeCorrect, PTL DEF Spec, KeepsStandings, Standing!Spec

===============================================================================
