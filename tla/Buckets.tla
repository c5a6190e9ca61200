-------------------------------- MODULE Buckets --------------------------------
(***************************************************************************)
(* The arithmetic of the token bucket and the leaky bucket: what one check *)
(* does to the stored level of a client's bucket.  The Lua scripts and the *)
(* in-memory fallbacks compute the same thing.                             *)
(*                                                                         *)
(* Levels are integers: Cost units stand for the one token a request costs, *)
(* so that limits and levels that are fractions of a token are covered.    *)
(* One unit of time is a second.                                           *)
(***************************************************************************)
EXTENDS Integers

CONSTANTS
  Cost,        \* requested, in units
  NoBucket     \* the reply for a key that does not exist

ASSUME CostAssumption == Cost \in Nat \ {0}

Least(a, b) == IF a <= b THEN a ELSE b
Greatest(a, b) == IF a >= b THEN a ELSE b

(* level: the tokens left, or the water in the leaky bucket. *)
(* last: last_updated, or last_leak_time.                     *)
Bucket == [level : Nat, last : Nat]

(* Mutant: an earlier clock counts as negative time. *)
MutantElapsed(b, now) == now - b.last

(* Time since the last check.  The clocks of two requests may be served out  *)
(* of order; an earlier one counts as no time at all.                        *)
Elapsed(b, now) == Greatest(0, now - b.last)

Verdict(admitted, level) == [admitted |-> admitted, level |-> level]

(* Mutant: any tokens left are enough. *)
MutantTokenBucket(b, now, limit) ==
  IF b = NoBucket THEN Verdict(TRUE, limit.capacity - Cost)
  ELSE LET tokens == Least(limit.capacity, b.level + Elapsed(b, now) * limit.rate)
       IN  IF tokens > 0 THEN Verdict(TRUE, tokens - Cost)
                         ELSE Verdict(FALSE, tokens)

(* Tokens accrue at the rate up to the capacity; a request takes Cost of     *)
(* them, or is refused.  A new bucket is full.                               *)
TokenBucket(b, now, limit) ==
  IF b = NoBucket THEN Verdict(TRUE, limit.capacity - Cost)
  ELSE LET tokens == Least(limit.capacity, b.level + Elapsed(b, now) * limit.rate)
       IN  IF tokens >= Cost THEN Verdict(TRUE, tokens - Cost)
                             ELSE Verdict(FALSE, tokens)

(* Mutant: the bucket may overflow by one request. *)
MutantLeakyBucket(b, now, limit) ==
  IF b = NoBucket THEN Verdict(TRUE, Cost)
  ELSE LET water == Greatest(0, b.level - Elapsed(b, now) * limit.rate)
       IN  IF water <= limit.capacity THEN Verdict(TRUE, water + Cost)
                                      ELSE Verdict(FALSE, water)

(* Water leaks at the rate; a request pours Cost units in, unless the bucket *)
(* would overflow.  A new bucket is empty.                                   *)
LeakyBucket(b, now, limit) ==
  IF b = NoBucket THEN Verdict(TRUE, Cost)
  ELSE LET water == Greatest(0, b.level - Elapsed(b, now) * limit.rate)
       IN  IF water + Cost <= limit.capacity THEN Verdict(TRUE, water + Cost)
                                             ELSE Verdict(FALSE, water)

(* The limiter the engine selects; the token bucket is the default. *)
Check(algorithm, b, now, limit) ==
  IF algorithm = "leaky_bucket" THEN LeakyBucket(b, now, limit)
                                ELSE TokenBucket(b, now, limit)

(* Mutant: rate and capacity are swapped. *)
MutantTtl(limit) == (limit.rate + limit.capacity - 1) \div limit.capacity

(* Redis keeps the key for as long as the whole capacity takes to flow. *)
Ttl(limit) == (limit.capacity + limit.rate - 1) \div limit.rate

===============================================================================
