------------------------------ MODULE Escalation ------------------------------
(***************************************************************************)
(* The escalation policy of EnforcementEngine.evaluate_request: what a     *)
(* client's escalation record holds, when it cools down, when a block      *)
(* ends, and which tier a denied request moves the client to.  The         *)
(* operators are pure; EnforcementEngine.tla says when they are applied    *)
(* and to which copy of the record.                                        *)
(*                                                                         *)
(* Times are integers (one unit stands for any fixed number of seconds),   *)
(* anomaly scores are percentages 0..100 of the float score 0.0..1.0.      *)
(***************************************************************************)
EXTENDS Integers

CONSTANTS
  Cooldown,            \* escalation.cooldown_seconds
  TempBlock,           \* escalation.temp_block_duration
  PermBlock,           \* the 999999.0 seconds of a "permanent" block
  TtlSlack,            \* the 60 seconds added to a block's time to live
  TriggerViolations,   \* escalation.levels[tier].trigger_violations
  TriggerScore         \* escalation.levels[tier].trigger_anomaly_score

ALLOW      == 0
THROTTLE   == 1
CHALLENGE  == 2
TEMP_BLOCK == 3
FULL_BLOCK == 4

Levels == ALLOW..FULL_BLOCK
Tiers  == THROTTLE..FULL_BLOCK

ASSUME TimingAssumption ==
  /\ Cooldown \in Nat \ {0}
  /\ TempBlock \in Nat \ {0}
  /\ PermBlock \in Nat
  /\ TtlSlack \in Nat

ASSUME TriggerAssumption ==
  /\ TriggerViolations \in [Tiers -> Nat \ {0}]
  /\ TriggerScore \in [Tiers -> Nat]

(* The policy file lists the tiers from mild to severe with rising violation *)
(* counts (config/default_config.yaml and the test configurations do);       *)
(* AppConfig does not check it.                                              *)
ASSUME TriggersAscend ==
  \A t, u \in Tiers : t < u => TriggerViolations[t] < TriggerViolations[u]

(* The four values kept per client, in the Redis hash escalation:{ip} or in  *)
(* a proxy's _fallback_escalations.                                          *)
Record == [level : Levels, violations : Nat, last : Nat, until : Nat]

(* What a client without any record is taken to be. *)
Fresh == [level |-> ALLOW, violations |-> 0, last |-> 0, until |-> 0]

(* Mutant: temporary blocks are forgotten. *)
MutantBlocked(rec) == rec.level = FULL_BLOCK

Blocked(rec) == rec.level \in {TEMP_BLOCK, FULL_BLOCK}

(* Mutant: one unit too early. *)
MutantCooledDown(rec, now) == rec.level > ALLOW /\ now - rec.last >= Cooldown - 1

(* The client has been quiet for the cooldown period. *)
CooledDown(rec, now) == rec.level > ALLOW /\ now - rec.last >= Cooldown

(* The record saved for a client that cooled down. *)
Reset(now) == [level |-> ALLOW, violations |-> 0, last |-> now, until |-> 0]

(* Mutant: one unit too early. *)
MutantTempExpired(rec, now) == rec.level = TEMP_BLOCK /\ now + 1 >= rec.until

TempExpired(rec, now) == rec.level = TEMP_BLOCK /\ now >= rec.until

(* Mutant: the count of another tier. *)
MutantDeescalated(now) ==
  [level |-> THROTTLE, violations |-> TriggerViolations[CHALLENGE],
   last |-> now, until |-> 0]

(* The record saved for a client whose temporary block ran out. *)
Deescalated(now) ==
  [level |-> THROTTLE, violations |-> TriggerViolations[THROTTLE],
   last |-> now, until |-> 0]

Triggered(tier, violations, score) ==
  violations >= TriggerViolations[tier] \/ score >= TriggerScore[tier]

(* The most severe tier that is triggered; the old level if none is. *)
NextLevel(level, violations, score) ==
  LET hit == {t \in Tiers : Triggered(t, violations, score)}
  IN  IF hit = {} THEN level
      ELSE CHOOSE t \in hit : \A u \in hit : u <= t

Deadline(level, until, now) ==
  IF level = FULL_BLOCK THEN now + PermBlock
  ELSE IF level = TEMP_BLOCK THEN now + TempBlock
  ELSE until

(* Mutant: the time of the violation is not noted. *)
MutantPenalised(rec, now, score) ==
  LET violations == rec.violations + 1
      level      == NextLevel(rec.level, violations, score)
  IN  [level |-> level, violations |-> violations, last |-> rec.last,
       until |-> Deadline(level, rec.until, now)]

(* The record saved for a client whose request exceeded its limit. *)
Penalised(rec, now, score) ==
  LET violations == rec.violations + 1
      level      == NextLevel(rec.level, violations, score)
  IN  [level |-> level, violations |-> violations, last |-> now,
       until |-> Deadline(level, rec.until, now)]

(* The time to live given to a saved record, at time t. *)
Ttl(rec, t) ==
  LET hold == rec.until - t + TtlSlack
  IN  IF hold > 2 * Cooldown THEN hold ELSE 2 * Cooldown

(***************************************************************************)
(* Vocabulary of the properties.                                           *)
(***************************************************************************)

(* A record is coherent when its fields tell one story: the level is at      *)
(* least the tier its violation count triggers, and only a blocking level    *)
(* carries a deadline, counted from the violation that caused the block.     *)
CoversViolations(rec) ==
  \A t \in Tiers : rec.violations >= TriggerViolations[t] => rec.level >= t

DeadlineMatches(rec) ==
  rec.until = Deadline(rec.level, 0, rec.last)

(* The time the policy keeps a recorded block: its own term, or the cooldown *)
(* period if that is shorter.                                                *)
InForce(rec, t) ==
  /\ Blocked(rec)
  /\ t < rec.last + Cooldown
  /\ rec.level = TEMP_BLOCK => t < rec.until

===============================================================================
