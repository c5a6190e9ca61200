---------------------------- MODULE ClientStanding ----------------------------
(***************************************************************************)
(* What EnforcementEngine promises about a client, without Redis, records, *)
(* awaits or violation counts: every client has a standing, which only a   *)
(* violation can worsen, and a standing lasts until the client has been    *)
(* quiet for the cooldown period or, for a temporary block, until its term *)
(* is over.  Only a standing that is not settled yet may be lost before.   *)
(* After the first failure of Redis or of a proxy nothing is promised.     *)
(* EnforcementEngine.tla implements it as long as the requests of a client *)
(* are evaluated one after the other.                                      *)
(***************************************************************************)
EXTENDS Integers

CONSTANTS
  Clients,
  Cooldown,     \* escalation.cooldown_seconds
  TempBlock,    \* escalation.temp_block_duration
  MaxClock      \* bound: the last instant of the model

ALLOW      == 0
THROTTLE   == 1
TEMP_BLOCK == 3
FULL_BLOCK == 4

VARIABLES
  clock,
  standing,   \* client -> its escalation level
  since,      \* client -> when it got it (0 for ALLOW)
  unsettled,  \* clients whose standing may still be lost
  disturbed   \* has something failed?

vars == <<clock, standing, since, unsettled, disturbed>>

Init ==
  /\ clock = 0
  /\ standing = [c \in Clients |-> ALLOW]
  /\ since = [c \in Clients |-> 0]
  /\ unsettled = {}
  /\ disturbed = FALSE

(* The client has been quiet long enough at time t. *)
Forgivable(c, t) == standing[c] > ALLOW /\ t - since[c] >= Cooldown

Set(c, level, t) ==
  /\ standing' = [standing EXCEPT ![c] = level]
  /\ since' = [since EXCEPT ![c] = t]
  /\ unsettled' = IF level > ALLOW THEN unsettled \union {c} ELSE unsettled \ {c}
  /\ UNCHANGED <<clock, disturbed>>

(* A client that is not blocked exceeds its limit.  The request arrived no   *)
(* earlier than the violation that gave the client its present standing.     *)
Penalise(c) ==
  /\ standing[c] < TEMP_BLOCK
  /\ \E level \in THROTTLE..FULL_BLOCK, t \in since[c]..clock :
       Set(c, level, t)

(* A quiet client is forgiven, whatever its standing. *)
Forgive(c) == Forgivable(c, clock) /\ Set(c, ALLOW, 0)

(* A temporary block that is over leaves the client throttled. *)
Release(c) ==
  /\ standing[c] = TEMP_BLOCK
  /\ \E t \in (since[c] + TempBlock)..clock : Set(c, THROTTLE, t)

(* From now on the standing of c lasts. *)
Settle(c) ==
  /\ c \in unsettled
  /\ unsettled' = unsettled \ {c}
  /\ UNCHANGED <<clock, standing, since, disturbed>>

(* Time passes; clients that became forgivable may be forgotten, and so may  *)
(* those whose standing is not settled.                                      *)
Tick ==
  /\ clock < MaxClock
  /\ clock' = clock + 1
  /\ \E forgotten \in SUBSET (unsettled \union {c \in Clients : Forgivable(c, clock + 1)}) :
       /\ standing' = [c \in Clients |->
                         IF c \in forgotten THEN ALLOW ELSE standing[c]]
       /\ since' = [c \in Clients |-> IF c \in forgotten THEN 0 ELSE since[c]]
       /\ unsettled' = unsettled \ forgotten
  /\ UNCHANGED disturbed

(* Something fails, or has failed: the standings may be anything. *)
Disturbed == disturbed' = TRUE

Next ==
  \/ \E c \in Clients : Penalise(c) \/ Forgive(c) \/ Release(c) \/ Settle(c)
  \/ Tick
  \/ Disturbed

Spec == Init /\ [][Next]_vars

===============================================================================
