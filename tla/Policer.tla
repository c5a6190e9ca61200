-------------------------------- MODULE Policer --------------------------------
(***************************************************************************)
(* What the bucket limiters promise the backend, without algorithms,       *)
(* adaptive limits, levels, keys or their lives: each store gives a client *)
(* credit that fills at the base rate up to the base capacity, and grants  *)
(* a request only for its cost in credit.  What a store keeps back is its  *)
(* own affair.  BucketLimiter.tla implements it.                           *)
(*                                                                         *)
(* A call carries the time at which it began.  A late one finds the credit *)
(* as the last call left it and takes the store back to its own time.      *)
(***************************************************************************)
EXTENDS Integers

CONSTANTS
  Stores,
  Cost,     \* of a request
  Rate,     \* at which credit fills
  Burst     \* up to which it fills

VARIABLES
  now,
  credit,   \* store -> what it could grant at once
  since,    \* store -> as of when
  granted   \* store -> what it has granted since it last lost its contents

vars == <<now, credit, since, granted>>

Init ==
  /\ now = 0
  /\ credit = [m \in Stores |-> Burst]
  /\ since = [m \in Stores |-> 0]
  /\ granted = [m \in Stores |-> 0]

(* The credit of store m for a call of time t. *)
Available(m, t) ==
  LET filled == credit[m] + (IF t > since[m] THEN Rate * (t - since[m]) ELSE 0)
  IN  IF filled <= Burst THEN filled ELSE Burst

(* Store m has one of the credits K at time t. *)
Settle(m, K, t) ==
  /\ since' = [since EXCEPT ![m] = t]
  /\ \E k \in K : credit' = [credit EXCEPT ![m] = k]

Grant(m, t) ==
  /\ UNCHANGED now
  /\ granted' = [granted EXCEPT ![m] = @ + Cost]
  /\ Settle(m, 0..(Available(m, t) - Cost), t)

Refuse(m, t) ==
  /\ UNCHANGED <<now, granted>>
  /\ Settle(m, 0..Available(m, t), t)

(* A store starts anew. *)
Forget(m) ==
  /\ UNCHANGED now
  /\ granted' = [granted EXCEPT ![m] = 0]
  /\ Settle(m, {Burst}, 0)

(* Store m need not be remembered once it has all its credit again. *)
Refill(m, t) ==
  /\ Rate * (t - since[m]) >= Burst
  /\ Settle(m, {Burst}, t)

Pass ==
  /\ now' = now + 1
  /\ UNCHANGED granted
  /\ \/ \E m \in Stores : \E t \in since[m]..now' : Refill(m, t)
     \/ UNCHANGED <<credit, since>>

Next ==
  \/ \E m \in Stores, t \in 0..now : Grant(m, t) \/ Refuse(m, t)
  \/ \E m \in Stores : Forget(m)
  \/ Pass

Spec == Init /\ [][Next]_vars

===============================================================================
