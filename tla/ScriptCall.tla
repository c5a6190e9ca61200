------------------------------- MODULE ScriptCall -------------------------------
(***************************************************************************)
(* What a limiter may rely on when it calls run_script: a script runs at   *)
(* most once for a call, a call that returns a result has run it, one that *)
(* raises may or may not have, and one that returns None has not.          *)
(***************************************************************************)
EXTENDS Naturals

CONSTANTS
  Tasks   \* coroutines that call run_script

VARIABLES
  call    \* task -> whether its call is pending, how often its script ran, and
          \* what became of it

Call == [phase : {"idle", "pending"}, ran : 0..1, outcome : {"none", "result", "raised", "missing"}]

Init == call = [r \in Tasks |-> [phase |-> "idle", ran |-> 0, outcome |-> "none"]]

Begin(r) ==
  /\ call[r].phase = "idle"
  /\ call' = [call EXCEPT ![r] = [phase |-> "pending", ran |-> 0, outcome |-> "none"]]

(* The script is unknown: nothing is awaited. *)
Missing(r) ==
  /\ call[r].phase = "idle"
  /\ call' = [call EXCEPT ![r] = [phase |-> "idle", ran |-> 0, outcome |-> "missing"]]

Return(r) ==
  /\ call[r].phase = "pending"
  /\ call' = [call EXCEPT ![r] = [phase |-> "idle", ran |-> 1, outcome |-> "result"]]

(* The calls of some tasks raise, or are lost with their proxy. *)
Raise(tasks) ==
  \E ran \in [Tasks -> 0..1] :
    call' = [r \in Tasks |-> IF r \in tasks /\ call[r].phase = "pending"
                             THEN [phase |-> "idle", ran |-> ran[r], outcome |-> "raised"]
                             ELSE call[r]]

Next ==
  \/ \E r \in Tasks : Begin(r) \/ Missing(r) \/ Return(r)
  \/ \E tasks \in SUBSET Tasks : Raise(tasks)

Spec == Init /\ [][Next]_call

===============================================================================
