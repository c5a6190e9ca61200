----------------------------- MODULE BucketLimiter -----------------------------
(***************************************************************************)
(* TokenBucketLimiter and LeakyBucketLimiter: check_limit called for one   *)
(* client key by coroutines of several proxies.  A call reads the clock,   *)
(* awaits the Lua script in Redis, and on failure decides in the memory of *)
(* its own proxy, still with the time it read first.  Keys of different    *)
(* clients and paths share nothing, so one key is enough.                  *)
(*                                                                         *)
(* What a client gets is counted in admitted[m][s]: the units store m has  *)
(* admitted for calls that read the clock at s or later.                   *)
(***************************************************************************)
EXTENDS Buckets

CONSTANTS
  Proxies,     \* proxy processes
  Redis,       \* the name of the shared store
  Tasks,       \* coroutines calling check_limit, over all proxies
  Limits,      \* the adaptive limits the engine may pass
  MaxRate,     \* the base rate: the adaptive factor never exceeds 1
  MaxCapacity, \* the base capacity
  MinRate,     \* what no limit falls below: in the code, 0.1 per second
  MinCapacity, \* and one token
  Forever,     \* the TTL of a key that has none: beyond the last instant
  MaxClock,    \* bound: the last instant of the model
  MaxFaults    \* bound: failed scripts and restarts

Stores == Proxies \union {Redis}

Instants == 0..MaxClock

ASSUME LimiterAssumption ==
  /\ Redis \notin Proxies
  /\ NoBucket \notin Bucket
  /\ MaxRate \in Nat \ {0} /\ MaxCapacity \in Nat \ {0}
  /\ MinRate \in Nat /\ MinCapacity \in Nat /\ Cost <= MinCapacity
  /\ MaxClock \in Nat /\ MaxFaults \in Nat
  /\ Forever \in Nat /\ Forever > MaxClock

(* engine.py scales rate and capacity by one factor in 0..1 and keeps the    *)
(* capacity at one token or more.  As long as the floor under the rate is    *)
(* not reached, a bucket never fills faster than at the base limits.         *)
ASSUME LimitsAssumption ==
  \A l \in Limits :
    /\ l \in [rate : Nat \ {0}, capacity : Nat \ {0}]
    /\ MinRate <= l.rate /\ l.rate <= MaxRate
    /\ MinCapacity <= l.capacity /\ l.capacity <= MaxCapacity
    /\ MaxCapacity * l.rate <= MaxRate * l.capacity

VARIABLES
  algorithm,  \* defaults.algorithm, the same throughout
  clock,      \* time.time()
  bucket,     \* store -> the client's bucket
  expiry,     \* the instant Redis drops the key
  task,       \* task -> the state of its call
  faults,     \* faults so far
  admitted,   \* history: store -> instant -> units admitted since then
  setBack,    \* history: store -> instant -> how far later checks, all in
              \*          all, carried a time before the bucket's own
  settled     \* history: store -> when its missing bucket was full (or empty)

vars == <<algorithm, clock, bucket, expiry, task, faults, admitted, setBack, settled>>

history == <<admitted, setBack, settled>>

Call == [pc : {"idle", "script", "memory"}, proxy : Proxies, now : Nat, limit : Limits]

Init ==
  /\ algorithm \in {"token_bucket", "leaky_bucket"}
  /\ clock = 0
  /\ bucket = [m \in Stores |-> NoBucket]
  /\ expiry = Forever
  /\ \E p \in Proxies, l \in Limits :
       task = [r \in Tasks |-> [pc |-> "idle", proxy |-> p, now |-> 0, limit |-> l]]
  /\ faults = 0
  /\ admitted = [m \in Stores |-> [s \in Instants |-> 0]]
  /\ setBack = [m \in Stores |-> [s \in Instants |-> 0]]
  /\ settled = [m \in Stores |-> 0]

-------------------------------------------------------------------------------

At(t, pc) == [pc |-> pc, proxy |-> t.proxy, now |-> t.now, limit |-> t.limit]

(* A call that has returned keeps nothing. *)
Idle(t) == [pc |-> "idle", proxy |-> t.proxy, now |-> 0, limit |-> t.limit]

(* check_limit is called, and reads the clock. *)
Begin(r, p, l) ==
  /\ task[r].pc = "idle"
  /\ task' = [task EXCEPT ![r] = [pc |-> "script", proxy |-> p, now |-> clock, limit |-> l]]
  /\ UNCHANGED <<algorithm, clock, bucket, expiry, faults, history>>

(* When the bucket of store m was last as the store has it. *)
LastCheck(m) == IF bucket[m] = NoBucket THEN settled[m] ELSE bucket[m].last

(* Store m decides on the call t. *)
Decide(m, t) ==
  LET verdict == Check(algorithm, bucket[m], t.now, t.limit)
  IN  /\ bucket' = [bucket EXCEPT ![m] = [level |-> verdict.level, last |-> t.now]]
      /\ admitted' = [admitted EXCEPT ![m] =
                        [s \in Instants |->
                           IF verdict.admitted /\ s <= t.now
                           THEN @[s] + Cost ELSE @[s]]]
      /\ setBack' = [setBack EXCEPT ![m] =
                       [s \in Instants |->
                          @[s] + Greatest(0, LastCheck(m) - t.now)]]
      /\ UNCHANGED settled

(* The script runs in Redis, in one step. *)
Script(t) ==
  /\ Decide(Redis, t)
  /\ expiry' = clock + Ttl(t.limit)

(* The script runs and its reply arrives. *)
RunScript(r) ==
  /\ task[r].pc = "script"
  /\ Script(task[r])
  /\ task' = [task EXCEPT ![r] = Idle(task[r])]
  /\ UNCHANGED <<algorithm, clock, faults>>

(* run_script raises, or Redis is not connected: the script did not run, or  *)
(* it did and the reply was lost.                                            *)
RunScriptFails(r) ==
  /\ task[r].pc = "script"
  /\ faults < MaxFaults
  /\ \/ Script(task[r])
     \/ UNCHANGED <<bucket, expiry, history>>
  /\ task' = [task EXCEPT ![r] = At(task[r], "memory")]
  /\ faults' = faults + 1
  /\ UNCHANGED <<algorithm, clock>>

(* The call is decided in the memory of its proxy. *)
CheckInMemory(r) ==
  /\ task[r].pc = "memory"
  /\ Decide(task[r].proxy, task[r])
  /\ task' = [task EXCEPT ![r] = Idle(task[r])]
  /\ UNCHANGED <<algorithm, clock, expiry, faults>>

(* Time passes, and Redis drops the key when it is due. *)
Tick ==
  /\ clock < MaxClock
  /\ clock' = clock + 1
  /\ IF expiry <= clock + 1
     THEN /\ bucket' = [bucket EXCEPT ![Redis] = NoBucket]
          /\ settled' = [settled EXCEPT ![Redis] = expiry]
          /\ expiry' = Forever
     ELSE UNCHANGED <<bucket, settled, expiry>>
  /\ UNCHANGED <<algorithm, task, faults, admitted, setBack>>

(* Store m loses its contents.  What it admitted before no longer counts     *)
(* against what it admits from now on.                                       *)
Lose(m) ==
  /\ bucket' = [bucket EXCEPT ![m] = NoBucket]
  /\ admitted' = [admitted EXCEPT ![m] = [s \in Instants |-> 0]]
  /\ setBack' = [setBack EXCEPT ![m] = [s \in Instants |-> 0]]
  /\ settled' = [settled EXCEPT ![m] = 0]

RestartProxy(p) ==
  /\ faults < MaxFaults
  /\ Lose(p)
  /\ task' = [r \in Tasks |-> IF task[r].proxy = p THEN Idle(task[r]) ELSE task[r]]
  /\ faults' = faults + 1
  /\ UNCHANGED <<algorithm, clock, expiry>>

RestartRedis ==
  /\ faults < MaxFaults
  /\ Lose(Redis)
  /\ expiry' = Forever
  /\ faults' = faults + 1
  /\ UNCHANGED <<algorithm, clock, task>>

Next ==
  \/ \E r \in Tasks, p \in Proxies, l \in Limits : Begin(r, p, l)
  \/ \E r \in Tasks : RunScript(r) \/ RunScriptFails(r) \/ CheckInMemory(r)
  \/ \E p \in Proxies : RestartProxy(p)
  \/ RestartRedis
  \/ Tick

Spec == Init /\ [][Next]_vars

-------------------------------------------------------------------------------
(***************************************************************************)
(* Properties.                                                             *)
(***************************************************************************)

(* The variables keep their types; no bucket holds more than MaxCapacity. *)
TypeOK ==
  /\ algorithm \in {"token_bucket", "leaky_bucket"}
  /\ clock \in Instants
  /\ bucket \in [Stores -> Bucket \union {NoBucket}]
  /\ \A m \in Stores : bucket[m] # NoBucket => bucket[m].level <= MaxCapacity
  /\ expiry \in Nat
  /\ task \in [Tasks -> Call]
  /\ faults \in 0..MaxFaults
  /\ admitted \in [Stores -> [Instants -> Nat]]
  /\ setBack \in [Stores -> [Instants -> Nat]]
  /\ settled \in [Stores -> Nat]

(* What one store admits from any instant s on is at most the base capacity  *)
(* and the base rate for the time since, with as much extra time as out of   *)
(* order calls have set the bucket back: whatever the adaptive limits were   *)
(* at each call, and whenever Redis dropped the key in between.              *)
AdmissionsBounded ==
  \A m \in Stores, s \in Instants :
    s <= clock =>
      admitted[m][s] <= MaxCapacity + MaxRate * (clock - s + setBack[m][s])

(* A client that keeps to the lowest limits is never refused.  Whichever     *)
(* store is asked next, with whatever limit, on time or late: when it        *)
(* refuses, then for calls of some instant s or later it has admitted so     *)
(* much that one more request is beyond the lowest capacity and the lowest   *)
(* rate for the time since s.  Neither a late call, nor a change of the      *)
(* limits, nor a dropped key makes the client pay twice.                     *)
RefusalsHaveCause ==
  \A m \in Stores, now \in 0..clock, l \in Limits :
    ~Check(algorithm, bucket[m], now, l).admitted
      => \E s \in 0..now :
           admitted[m][s] + Cost > MinCapacity + MinRate * (now - s)

(* What a full (token) or empty (leaky) bucket could still admit at once if  *)
(* the base limits applied: the tokens, or the room above the water.         *)
Credit(m) ==
  IF bucket[m] = NoBucket THEN MaxCapacity
  ELSE IF algorithm = "leaky_bucket" THEN MaxCapacity - bucket[m].level
  ELSE bucket[m].level

Promise == INSTANCE Policer WITH
  Rate <- MaxRate, Burst <- MaxCapacity, now <- clock,
  credit <- [m \in Stores |-> Credit(m)],
  since <- [m \in Stores |-> LastCheck(m)],
  granted <- [m \in Stores |-> admitted[m][0]]

(* To the backend both limiters are one policer at the base limits: every    *)
(* decision, in Redis or in memory, on time or late, under whatever limits,  *)
(* grants a request for credit it takes, and neither an adapted limit nor a  *)
(* key that is dropped or created anew adds any.                             *)
KeepsToPolicer == Promise!Spec

===============================================================================
