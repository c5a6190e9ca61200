----------------------------- MODULE SlidingWindow -----------------------------
(***************************************************************************)
(* SlidingWindowLimiter: check_limit called for one client key by          *)
(* coroutines of several proxies.  Time is cut into windows; a store keeps *)
(* one counter per window, and a request is judged by the counter of its   *)
(* own window plus that of the window before, weighted by how much of it a *)
(* sliding window still covers.                                            *)
(*                                                                         *)
(* A call reads the clock, awaits the Lua script in Redis, and on failure  *)
(* decides in the memory of its proxy, still with the time it read first.  *)
(* Limits and estimates are counted in parts, Window of which make up one  *)
(* request, so that fractions of a request are covered.                    *)
(***************************************************************************)
EXTENDS Integers

CONSTANTS
  Window,      \* window_seconds, in units of the clock
  Proxies,     \* proxy processes
  Redis,       \* the name of the shared store
  Tasks,       \* coroutines calling check_limit, over all proxies
  Limits,      \* the adaptive limits the engine may pass, in parts
  MaxLimit,    \* the base limit, in parts: the adaptive factor is at most 1
  Forever,     \* the TTL of a key that has none: beyond the last instant
  MaxClock,    \* bound: the last instant of the model
  MaxDelay,    \* bound: how long a call takes from its clock reading on
  MaxFaults    \* bound: failed scripts and restarts

Stores == Proxies \union {Redis}

WindowOf(t) == t \div Window

Into(t) == t % Window

Starts == 0..(MaxClock + Window)

(* The window before the first one is there to be read; it stays empty. *)
Windows == -1..WindowOf(MaxClock + Window)

ASSUME SlidingAssumption ==
  /\ Window \in Nat \ {0}
  /\ Redis \notin Proxies
  /\ MaxLimit \in Nat
  /\ Limits \subseteq 0..MaxLimit
  /\ MaxClock \in Nat /\ MaxFaults \in Nat
  /\ Forever \in Nat /\ Forever > MaxClock

(* A call is served within the length of a window, 60 seconds by default.    *)
(* The code does not enforce it: the connection has no timeout.              *)
ASSUME DelayAssumption == MaxDelay \in 0..Window

VARIABLES
  clock,      \* time.time()
  count,      \* store -> window -> its counter (0: no such key)
  expiry,     \* window -> the instant Redis drops its counter
  task,       \* task -> the state of its call
  faults,     \* faults so far
  admitted    \* history: store -> instant -> requests admitted by calls that
              \*          read the clock in the Window instants from there on

vars == <<clock, count, expiry, task, faults, admitted>>

Call == [pc : {"idle", "script", "memory"}, proxy : Proxies, now : Nat, limit : Limits]

Init ==
  /\ clock = 0
  /\ count = [m \in Stores |-> [w \in Windows |-> 0]]
  /\ expiry = [w \in Windows |-> Forever]
  /\ \E p \in Proxies, l \in Limits :
       task = [r \in Tasks |-> [pc |-> "idle", proxy |-> p, now |-> 0, limit |-> l]]
  /\ faults = 0
  /\ admitted = [m \in Stores |-> [s \in Starts |-> 0]]

-------------------------------------------------------------------------------

(* The weighted number of requests, in parts, at time now. *)
Estimate(prev, curr, now) == prev * (Window - Into(now)) + curr * Window

(* Mutant: the request itself is not counted. *)
MutantFits(prev, curr, t) == Estimate(prev, curr, t.now) <= t.limit

(* The estimate, with the request itself, stays within the limit. *)
Fits(prev, curr, t) == Estimate(prev, curr + 1, t.now) <= t.limit

(* Mutant: the increment is not rolled back. *)
MutantCounted(curr, fits) == curr + 1

(* Mutant: the increment is always rolled back. *)
MutantUncounted(curr, fits) == curr

(* Mutant: a refused request is rolled back twice. *)
MutantOverdrawn(curr, fits) == IF fits THEN curr + 1 ELSE curr - 1

(* The counter after the request: a refused one is rolled back. *)
Counted(curr, fits) == IF fits THEN curr + 1 ELSE curr

At(t, pc) == [pc |-> pc, proxy |-> t.proxy, now |-> t.now, limit |-> t.limit]

(* A call that has returned keeps nothing. *)
Idle(t) == [pc |-> "idle", proxy |-> t.proxy, now |-> 0, limit |-> t.limit]

(* check_limit is called, and reads the clock. *)
Begin(r, p, l) ==
  /\ task[r].pc = "idle"
  /\ task' = [task EXCEPT ![r] = [pc |-> "script", proxy |-> p, now |-> clock, limit |-> l]]
  /\ UNCHANGED <<clock, count, expiry, faults, admitted>>

(* Store m, whose counters are c, decides on the call t. *)
Decide(m, c, t) ==
  LET w    == WindowOf(t.now)
      fits == Fits(c[w - 1], c[w], t)
  IN  /\ count' = [count EXCEPT ![m] =
                     [v \in Windows |-> IF v = w THEN Counted(c[v], fits) ELSE c[v]]]
      /\ admitted' = [admitted EXCEPT ![m] =
                        [s \in Starts |->
                           IF fits /\ s <= t.now /\ t.now < s + Window
                           THEN @[s] + 1 ELSE @[s]]]

(* Mutant: kept for one window only. *)
MutantKeptFor(w) == Window

(* How long Redis keeps the counter of window w from its first request on. *)
KeptFor(w) == 2 * Window

(* The script runs in Redis, in one step. *)
Script(t) ==
  LET w == WindowOf(t.now)
  IN  /\ Decide(Redis, count[Redis], t)
      /\ expiry' = IF count[Redis][w] = 0
                   THEN [expiry EXCEPT ![w] = clock + KeptFor(w)] ELSE expiry

(* The script runs and its reply arrives. *)
RunScript(r) ==
  /\ task[r].pc = "script"
  /\ Script(task[r])
  /\ task' = [task EXCEPT ![r] = Idle(task[r])]
  /\ UNCHANGED <<clock, faults>>

(* run_script raises, or Redis is not connected: the script did not run, or  *)
(* it did and the reply was lost.                                            *)
RunScriptFails(r) ==
  /\ task[r].pc = "script"
  /\ faults < MaxFaults
  /\ \/ Script(task[r])
     \/ UNCHANGED <<count, expiry, admitted>>
  /\ task' = [task EXCEPT ![r] = At(task[r], "memory")]
  /\ faults' = faults + 1
  /\ UNCHANGED clock

(* Counters of windows before the previous one are deleted. *)
CleanedUp(c, w) == [v \in Windows |-> IF v < w - 1 THEN 0 ELSE c[v]]

(* The call is decided in the memory of its proxy. *)
CheckInMemory(r) ==
  LET t == task[r]
  IN  /\ t.pc = "memory"
      /\ Decide(t.proxy, CleanedUp(count[t.proxy], WindowOf(t.now)), t)
      /\ task' = [task EXCEPT ![r] = Idle(t)]
      /\ UNCHANGED <<clock, expiry, faults>>

(* Time passes, and Redis drops the counters that are due. *)
Tick ==
  LET due == {w \in Windows : expiry[w] <= clock + 1}
  IN  /\ clock < MaxClock
      /\ \A r \in Tasks : task[r].pc # "idle" => clock < task[r].now + MaxDelay
      /\ clock' = clock + 1
      /\ count' = [count EXCEPT ![Redis] =
                     [w \in Windows |-> IF w \in due THEN 0 ELSE @[w]]]
      /\ expiry' = [w \in Windows |-> IF w \in due THEN Forever ELSE expiry[w]]
      /\ UNCHANGED <<task, faults, admitted>>

(* Store m loses its contents.  What it admitted before no longer counts     *)
(* against what it admits from now on.                                       *)
Lose(m) ==
  /\ count' = [count EXCEPT ![m] = [w \in Windows |-> 0]]
  /\ admitted' = [admitted EXCEPT ![m] = [s \in Starts |-> 0]]

RestartProxy(p) ==
  /\ faults < MaxFaults
  /\ Lose(p)
  /\ task' = [r \in Tasks |-> IF task[r].proxy = p THEN Idle(task[r]) ELSE task[r]]
  /\ faults' = faults + 1
  /\ UNCHANGED <<clock, expiry>>

RestartRedis ==
  /\ faults < MaxFaults
  /\ Lose(Redis)
  /\ expiry' = [w \in Windows |-> Forever]
  /\ faults' = faults + 1
  /\ UNCHANGED <<clock, task>>

Next ==
  \/ \E r \in Tasks, p \in Proxies, l \in Limits : Begin(r, p, l)
  \/ \E r \in Tasks : RunScript(r) \/ RunScriptFails(r) \/ CheckInMemory(r)
  \/ \E p \in Proxies : RestartProxy(p)
  \/ RestartRedis
  \/ Tick

Spec == Init /\ [][Next]_vars

-------------------------------------------------------------------------------
(***************************************************************************)
(* Properties.                                                             *)
(***************************************************************************)

(* The variables keep their types. *)
TypeOK ==
  /\ clock \in 0..MaxClock
  /\ count \in [Stores -> [Windows -> Nat]]
  /\ expiry \in [Windows -> Nat]
  /\ task \in [Tasks -> Call]
  /\ faults \in 0..MaxFaults
  /\ admitted \in [Stores -> [Starts -> Nat]]

(* What store m admitted in window w. *)
Admitted(m, w) == IF w < 0 THEN 0 ELSE admitted[m][w * Window]

(* No store admits more than the base limit in one window, whatever the      *)
(* adaptive limits were, whichever counters Redis dropped or a proxy cleaned *)
(* up, and in whatever order calls from the end of one window and the start  *)
(* of the next are served.                                                   *)
WindowsWithinLimit ==
  \A m \in Stores, w \in Windows : Admitted(m, w) * Window <= MaxLimit

(* Nor more than twice the base limit in any stretch of time as long as a    *)
(* window.                                                                   *)
SpansWithinTwiceLimit ==
  \A m \in Stores, s \in Starts : admitted[m][s] * Window <= 2 * MaxLimit

(* A counter holds what was admitted in its window, or nothing once it has   *)
(* been dropped: a refused request is never charged (sliding_window.lua:31). *)
RefusalsLeaveNoTrace ==
  \A m \in Stores, w \in Windows : count[m][w] \in {0, Admitted(m, w)}

(* The estimate a call in flight will get, from any store, falls short of    *)
(* the true one at most by the previous window's admissions times the delay  *)
(* of the call: no counter is dropped while a punctual call can read it, and *)
(* a late one misses only what has nearly slid out of its window.            *)
EstimatesAreFaithful ==
  \A m \in Stores, r \in Tasks :
    LET now == task[r].now
        w   == WindowOf(now)
    IN  task[r].pc # "idle" =>
          Estimate(Admitted(m, w - 1), Admitted(m, w), now)
            <= Estimate(count[m][w - 1], count[m][w], now)
                 + Admitted(m, w - 1) * (clock - now)

===============================================================================
