--------------------------- MODULE EnforcementEngine ---------------------------
(***************************************************************************)
(* EnforcementEngine: the requests of some clients being evaluated at the  *)
(* same time by coroutines of several proxy processes, which share one     *)
(* Redis and keep a private in-memory fallback each.                       *)
(*                                                                         *)
(* A coroutine runs without interruption between two awaits, so every      *)
(* action below is the code from one await to the next, together with the  *)
(* Redis command it awaited.  Between two actions of one task any other    *)
(* task, of the same or of another proxy, may run, time may pass, and      *)
(* Redis or a proxy may fail.                                              *)
(*                                                                         *)
(* The anomaly score and the limiter's verdict are arbitrary here: the     *)
(* engine does not touch its own state while it awaits them.               *)
(***************************************************************************)
EXTENDS Escalation, FiniteSets

CONSTANTS
  Clients,        \* client IPs
  Proxies,        \* proxy processes
  Tasks,          \* coroutines evaluating a request, over all proxies
  Scores,         \* anomaly scores the detector may return
  NoKey,          \* the reply of HMGET for a key that does not exist
  Forever,        \* the TTL of a key that has none: beyond the last instant
  MaxClock,       \* bound: the last instant of the model
  MaxFaults       \* bound: failed Redis calls, Redis and proxy restarts

ASSUME EngineAssumption ==
  /\ Scores \subseteq Nat
  /\ NoKey \notin Record
  /\ MaxClock \in Nat
  /\ Forever \in Nat /\ Forever > MaxClock
  /\ MaxFaults \in Nat

VARIABLES
  clock,      \* time.time()
  store,      \* client -> the hash escalation:{ip} in Redis
  expiry,     \* client -> the instant Redis drops that hash
  fallback,   \* proxy -> client -> entry of _fallback_escalations
  task,       \* task -> where its coroutine is suspended, and its locals
  faults,     \* faults so far
  offences    \* client -> when its refused requests arrived (history)

vars == <<clock, store, expiry, fallback, task, faults, offences>>

(* What evaluate_request returns: allowed, and escalation_level. *)
Decision == [allowed : BOOLEAN, level : Levels]

(* pc: the await the coroutine is suspended at ("done": not running).        *)
(* then: where it continues after a save.  rec: the local level, violations, *)
(* last_violation and block_until.  seen: the record it fetched.             *)
Task ==
  [pc : {"done", "fetch", "limit", "hset", "expire"}, then : {"limit", "done"},
   proxy : Proxies, client : Clients, now : Nat, rec : Record, seen : Record,
   decision : Decision]

Allow(level) == [allowed |-> TRUE, level |-> level]
Deny(level)  == [allowed |-> FALSE, level |-> level]

(* The coroutine t suspended at the await pc. *)
Suspended(t, pc, then, rec, seen, decision) ==
  [pc |-> pc, then |-> then, proxy |-> t.proxy, client |-> t.client,
   now |-> t.now, rec |-> rec, seen |-> seen, decision |-> decision]

(* A coroutine that has returned keeps nothing but its decision. *)
Returned(t, decision) ==
  [pc |-> "done", then |-> "done", proxy |-> t.proxy, client |-> t.client,
   now |-> 0, rec |-> Fresh, seen |-> Fresh, decision |-> decision]

Init ==
  /\ clock = 0
  /\ store = [c \in Clients |-> NoKey]
  /\ expiry = [c \in Clients |-> Forever]
  /\ fallback = [p \in Proxies |-> [c \in Clients |-> NoKey]]
  /\ \E p \in Proxies, c \in Clients :
       task = [r \in Tasks |->
                 Returned([proxy |-> p, client |-> c], Allow(ALLOW))]
  /\ faults = 0
  /\ offences = [c \in Clients |-> {}]

-------------------------------------------------------------------------------
(***************************************************************************)
(* evaluate_request.                                                       *)
(***************************************************************************)

(* A request arrives; the coroutine reads the clock and asks for the hash. *)
Arrive(r, p, c) ==
  /\ task[r].pc = "done"
  /\ task' = [task EXCEPT ![r] =
                [pc |-> "fetch", then |-> "done", proxy |-> p, client |-> c,
                 now |-> clock, rec |-> Fresh, seen |-> Fresh,
                 decision |-> Allow(ALLOW)]]
  /\ UNCHANGED <<clock, store, expiry, fallback, faults, offences>>

(* A whitelisted client is let through before any state is read. *)
ArriveWhitelisted(r, p, c) ==
  /\ task[r].pc = "done"
  /\ task' = [task EXCEPT ![r] =
                Returned([proxy |-> p, client |-> c], Allow(ALLOW))]
  /\ UNCHANGED <<clock, store, expiry, fallback, faults, offences>>

(* Mutant: the fallback keeps the count and forgets the level. *)
MutantFallbackRecord(p, c) ==
  IF fallback[p][c] = NoKey THEN Fresh
  ELSE [Fresh EXCEPT !.violations = fallback[p][c].violations]

(* The proxy's own record of a client, or the default. *)
FallbackRecord(p, c) ==
  IF fallback[p][c] = NoKey THEN Fresh ELSE fallback[p][c]

(* Mutant: the block is tested before the cooldown. *)
MutantAfterFetch(t, rec) ==
  LET saving(new) == Suspended(t, "hset", "limit", new, rec, t.decision)
  IN  IF TempExpired(rec, t.now) THEN saving(Deescalated(t.now))
      ELSE IF Blocked(rec) THEN Returned(t, Deny(rec.level))
      ELSE IF CooledDown(rec, t.now) THEN saving(Reset(t.now))
      ELSE Suspended(t, "limit", "done", rec, rec, t.decision)

(* From the fetched record to the next await: reset a client that cooled     *)
(* down, release an expired temporary block, refuse a blocked client, else   *)
(* go on to the detector, the monitor and the limiter.                       *)
AfterFetch(t, rec) ==
  LET saving(new) == Suspended(t, "hset", "limit", new, rec, t.decision)
  IN  IF CooledDown(rec, t.now) THEN saving(Reset(t.now))
      ELSE IF TempExpired(rec, t.now) THEN saving(Deescalated(t.now))
      ELSE IF Blocked(rec) THEN Returned(t, Deny(rec.level))
      ELSE Suspended(t, "limit", "done", rec, rec, t.decision)

(* HMGET is answered.  A missing hash sends the reader to the fallback.      *)
Fetch(r) ==
  LET t == task[r]
  IN  /\ t.pc = "fetch"
      /\ task' = [task EXCEPT ![r] =
                    AfterFetch(t, IF store[t.client] = NoKey
                                  THEN FallbackRecord(t.proxy, t.client)
                                  ELSE store[t.client])]
      /\ UNCHANGED <<clock, store, expiry, fallback, faults, offences>>

(* HMGET raises: the fallback is read instead. *)
FetchFails(r) ==
  LET t == task[r]
  IN  /\ t.pc = "fetch"
      /\ faults < MaxFaults
      /\ task' = [task EXCEPT ![r] =
                    AfterFetch(t, FallbackRecord(t.proxy, t.client))]
      /\ faults' = faults + 1
      /\ UNCHANGED <<clock, store, expiry, fallback, offences>>

(* The limiter let the request pass: nothing is saved. *)
UnderLimit(r) ==
  /\ task[r].pc = "limit"
  /\ task' = [task EXCEPT ![r] = Returned(@, Allow(@.rec.level))]
  /\ UNCHANGED <<clock, store, expiry, fallback, faults, offences>>

(* The limiter refused it: count the violation, escalate, and save. *)
OverLimit(r) ==
  LET t == task[r]
  IN  /\ t.pc = "limit"
      /\ \E score \in Scores :
           LET new == Penalised(t.rec, t.now, score)
           IN  task' = [task EXCEPT ![r] =
                          Suspended(t, "hset", "done", new, t.seen, Deny(new.level))]
      /\ offences' = [offences EXCEPT ![t.client] = @ \union {t.now}]
      /\ UNCHANGED <<clock, store, expiry, fallback, faults>>

-------------------------------------------------------------------------------
(***************************************************************************)
(* _save_escalation_state: HSET, then EXPIRE; whichever raises, the record *)
(* goes to the fallback.                                                   *)
(***************************************************************************)

(* Mutant: the save is repeated for ever. *)
MutantAfterSave(t) == Suspended(t, "hset", t.then, t.rec, t.seen, t.decision)

(* The coroutine after its save. *)
AfterSave(t) ==
  IF t.then = "limit"
  THEN Suspended(t, "limit", "done", t.rec, t.seen, t.decision)
  ELSE Returned(t, t.decision)

(* Mutant: the entry is stored under the proxy alone. *)
MutantInFallback(t) == [fallback EXCEPT ![t.proxy] = t.rec]

(* Mutant: the entry loses its deadline. *)
MutantInFallbackDeadline(t) ==
  [fallback EXCEPT ![t.proxy][t.client] = [t.rec EXCEPT !.until = 0]]

(* The record goes to the proxy's own memory. *)
InFallback(t) == [fallback EXCEPT ![t.proxy][t.client] = t.rec]

(* HSET is answered.  A key that existed keeps its time to live. *)
SaveHset(r) ==
  LET t == task[r]
  IN  /\ t.pc = "hset"
      /\ store' = [store EXCEPT ![t.client] = t.rec]
      /\ task' = [task EXCEPT ![r] =
                    Suspended(t, "expire", t.then, t.rec, t.seen, t.decision)]
      /\ UNCHANGED <<clock, expiry, fallback, faults, offences>>

(* HSET raises, executed or not. *)
SaveHsetFails(r) ==
  LET t == task[r]
  IN  /\ t.pc = "hset"
      /\ faults < MaxFaults
      /\ store' \in {store, [store EXCEPT ![t.client] = t.rec]}
      /\ fallback' = InFallback(t)
      /\ task' = [task EXCEPT ![r] = AfterSave(t)]
      /\ faults' = faults + 1
      /\ UNCHANGED <<clock, expiry, offences>>

(* EXPIRE does nothing to a key that is gone. *)
WithTtl(t) ==
  IF store[t.client] = NoKey THEN expiry
  ELSE [expiry EXCEPT ![t.client] = clock + Ttl(t.rec, clock)]

SaveExpire(r) ==
  LET t == task[r]
  IN  /\ t.pc = "expire"
      /\ expiry' = WithTtl(t)
      /\ task' = [task EXCEPT ![r] = AfterSave(t)]
      /\ UNCHANGED <<clock, store, fallback, faults, offences>>

SaveExpireFails(r) ==
  LET t == task[r]
  IN  /\ t.pc = "expire"
      /\ faults < MaxFaults
      /\ expiry' \in {expiry, WithTtl(t)}
      /\ fallback' = InFallback(t)
      /\ task' = [task EXCEPT ![r] = AfterSave(t)]
      /\ faults' = faults + 1
      /\ UNCHANGED <<clock, store, offences>>

-------------------------------------------------------------------------------
(***************************************************************************)
(* The environment: time, Redis key expiry, restarts.                      *)
(***************************************************************************)

(* Time passes, and Redis drops the hashes that are due. *)
Tick ==
  /\ clock < MaxClock
  /\ clock' = clock + 1
  /\ store' = [c \in Clients |->
                 IF expiry[c] <= clock + 1 THEN NoKey ELSE store[c]]
  /\ expiry' = [c \in Clients |->
                  IF expiry[c] <= clock + 1 THEN Forever ELSE expiry[c]]
  /\ UNCHANGED <<fallback, task, faults, offences>>

(* A proxy process restarts: its coroutines and its fallback are gone. *)
RestartProxy(p) ==
  /\ faults < MaxFaults
  /\ fallback' = [fallback EXCEPT ![p] = [c \in Clients |-> NoKey]]
  /\ task' = [r \in Tasks |->
                IF task[r].proxy = p /\ task[r].pc # "done"
                THEN Returned(task[r], Allow(ALLOW)) ELSE task[r]]
  /\ faults' = faults + 1
  /\ UNCHANGED <<clock, store, expiry, offences>>

(* Redis restarts without its data (it has no volume in docker-compose). *)
RestartRedis ==
  /\ faults < MaxFaults
  /\ store' = [c \in Clients |-> NoKey]
  /\ expiry' = [c \in Clients |-> Forever]
  /\ faults' = faults + 1
  /\ UNCHANGED <<clock, fallback, task, offences>>

-------------------------------------------------------------------------------

Resume(r) == Fetch(r) \/ UnderLimit(r) \/ OverLimit(r) \/ SaveHset(r) \/ SaveExpire(r)

Fail(r) == FetchFails(r) \/ SaveHsetFails(r) \/ SaveExpireFails(r)

Next ==
  \/ \E r \in Tasks, p \in Proxies, c \in Clients :
       Arrive(r, p, c) \/ ArriveWhitelisted(r, p, c)
  \/ \E r \in Tasks : Resume(r) \/ Fail(r)
  \/ \E p \in Proxies : RestartProxy(p)
  \/ RestartRedis
  \/ Tick

Spec == Init /\ [][Next]_vars

(* The event loop runs every coroutine whose awaited call has been answered  *)
(* or has raised, so a suspended coroutine does not stay suspended forever.  *)
FairSpec == Spec /\ \A r \in Tasks : WF_vars(Resume(r) \/ Fail(r))

-------------------------------------------------------------------------------
(***************************************************************************)
(* Properties.                                                             *)
(***************************************************************************)

(* The variables keep their types. *)
TypeOK ==
  /\ clock \in 0..MaxClock
  /\ store \in [Clients -> Record \union {NoKey}]
  /\ expiry \in [Clients -> Nat]
  /\ fallback \in [Proxies -> [Clients -> Record \union {NoKey}]]
  /\ task \in [Tasks -> Task]
  /\ faults \in 0..MaxFaults
  /\ offences \in [Clients -> SUBSET Nat]

(* P holds of every copy of an escalation record: the one in Redis, those in *)
(* the fallbacks, and those a coroutine has fetched or is about to save.     *)
EveryCopy(P(_)) ==
  /\ \A c \in Clients : store[c] # NoKey => P(store[c])
  /\ \A p \in Proxies, c \in Clients :
       fallback[p][c] # NoKey => P(fallback[p][c])
  /\ \A r \in Tasks : P(task[r].rec) /\ P(task[r].seen)

(* Whatever races, faults and restarts do to the copies of a record, none of *)
(* them ever understates its own violation count: lost updates may forget    *)
(* violations, but no copy shows the count of a tier and a milder level.     *)
LevelsCoverViolations == EveryCopy(CoversViolations)

(* No copy pairs the level of one write with the block_until of another: a   *)
(* temporary block always ends temp_block_duration after its own violation,  *)
(* and a client that is not blocked carries no deadline.                     *)
DeadlinesMatchLevels == EveryCopy(DeadlineMatches)

(* A client is blocked at the violation count of the temporary block, and    *)
(* while it is blocked, or after the block, no higher count is ever saved.   *)
(* The violation trigger of FULL_BLOCK is therefore dead: only an anomaly    *)
(* score leads to FULL_BLOCK, even with several requests in flight.          *)
StopsAtTempBlock(rec) == rec.violations <= TriggerViolations[TEMP_BLOCK]

ViolationsStopAtTempBlock == EveryCopy(StopsAtTempBlock)

(* A request is refused as blocked only for a violation the client really    *)
(* committed less than a cooldown ago, and at level TEMP_BLOCK no longer     *)
(* than temp_block_duration after it.  An old record that comes back from a  *)
(* fallback, a lost EXPIRE or a stale save may block a client once more, but *)
(* never beyond the term its own violation earned (engine.py:67, 99, 138).   *)
RefusalsKeepTheTerm ==
  [][\A r \in Tasks :
       task[r].pc = "fetch" /\ task'[r].pc = "done" /\ ~task'[r].decision.allowed =>
         \E at \in offences[task[r].client] :
           /\ task[r].now < at + Cooldown
           /\ task'[r].decision.level = TEMP_BLOCK => task[r].now < at + TempBlock]_vars

(* The hash of c has been written, and its EXPIRE is still to come: until    *)
(* then it has the time to live of the record it replaced.                   *)
Saving(c) == \E r \in Tasks : task[r].client = c /\ task[r].pc = "expire"

(* While a recorded block is in force, only a coroutine that fetched another *)
(* record than the block can overwrite it: a request that saw the block      *)
(* never lifts it, whatever fails.  The hash of a block in force is dropped  *)
(* only before the EXPIRE of a save, or after a fault.                       *)
OnlyStaleTasksLiftBlocks ==
  [][\A c \in Clients :
       store[c] # NoKey /\ InForce(store[c], clock) /\ store'[c] # store[c] =>
         IF store'[c] = NoKey THEN Saving(c) \/ faults' > 0
         ELSE \E r \in Tasks : /\ task[r].client = c
                               /\ task[r].pc = "hset" /\ task'[r].pc # "hset"
                               /\ task[r].seen # store[c]]_vars

(* While a recorded block is in force nothing lifts or lightens it, as long  *)
(* as the requests of a client are evaluated one after the other and nothing *)
(* has failed: no request of the client, and not the expiry of the hash,     *)
(* except between an HSET and its EXPIRE (engine.py:86, 97), where the time  *)
(* to live of the record before may end and takes the new block with it.     *)
BlocksHoldTheirTerm ==
  [][\A c \in Clients :
       faults' = 0 /\ store[c] # NoKey /\ InForce(store[c], clock) =>
         IF store'[c] = NoKey THEN Saving(c)
         ELSE store'[c].level >= store[c].level]_vars

(* Under the same conditions the engine keeps the promises of                *)
(* ClientStanding: a standing is worsened only by a violation of a client    *)
(* that is not blocked, and improved only by the cooldown, by the end of a   *)
(* temporary block, or by its loss before its EXPIRE settled it.             *)
LevelOf(c) == IF store[c] = NoKey THEN ALLOW ELSE store[c].level

Standing == INSTANCE ClientStanding WITH
  standing  <- [c \in Clients |-> LevelOf(c)],
  since     <- [c \in Clients |-> IF LevelOf(c) > ALLOW THEN store[c].last ELSE 0],
  unsettled <- {c \in Clients : LevelOf(c) > ALLOW /\ Saving(c)},
  disturbed <- faults > 0

KeepsStandings == Standing!Spec

(* A block lasts until its block_until: a TEMP_BLOCK "Temporarily blocks all *)
(* traffic from the client IP for N seconds" and a FULL_BLOCK "Persistently  *)
(* blocks/blacklists the client IP" (README.md:47-48).  Does not hold: the   *)
(* cooldown is tested first and applies to every level, so it lifts a        *)
(* FULL_BLOCK, and a TEMP_BLOCK that is longer than the cooldown, as in      *)
(* config/default_config.yaml.                                               *)
BlocksLastUntilDeadline ==
  [][\A c \in Clients :
       LevelOf(c) >= TEMP_BLOCK /\ clock < store[c].until
         => LevelOf(c)' >= TEMP_BLOCK]_vars

(* Every request gets a decision, whether Redis answers or raises.           *)
EveryRequestIsDecided ==
  \A r \in Tasks : task[r].pc # "done" ~> task[r].pc = "done"

===============================================================================
