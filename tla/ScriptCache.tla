------------------------------- MODULE ScriptCache -------------------------------
(***************************************************************************)
(* RedisClient: the Lua scripts of the limiters.  A proxy reads and        *)
(* registers them when it starts and calls them by their SHA, or sends the *)
(* whole script if it has none; Redis forgets them when it restarts.       *)
(*                                                                         *)
(* A call whose script is gone is meant to load it again, but the clause   *)
(* that would (redis_client.py:90) names aioredis.exceptions, which        *)
(* redis.asyncio does not have: whatever EVALSHA raises, the clause itself *)
(* raises AttributeError, and the lines after it are never reached.        *)
(*                                                                         *)
(* The SHA depends on the script alone, so that a script stands for its    *)
(* SHA.  Requests are served once initialize has returned: the client is   *)
(* never None.  It is built on an explicit connection pool, for which      *)
(* redis-py sends no command twice.                                        *)
(***************************************************************************)
EXTENDS Naturals

CONSTANTS
  Proxies,   \* proxy processes
  Tasks,     \* coroutines that call run_script, over all proxies
  Scripts,   \* the files in lua_scripts
  MaxFaults  \* bound: failed commands, unreadable files and restarts

ASSUME CacheAssumption == MaxFaults \in Nat

VARIABLES
  loaded,     \* the scripts Redis knows
  left,       \* proxy -> files _load_lua_scripts has still to look at
  scripts,    \* proxy -> scripts
  sha_cache,  \* proxy -> sha_cache
  call,       \* task -> where its call is
  faults,     \* faults so far
  lost        \* proxy -> scripts it registered and Redis lost since (history)

vars == <<loaded, left, scripts, sha_cache, call, faults, lost>>

(* pc: the command awaited.  outcome: what the last call came to.  ran: how  *)
(* often its script was run; disturbed: a command failed or a process was    *)
(* restarted meanwhile (history).                                            *)
Call ==
  [pc : {"idle", "evalsha", "eval"},
   proxy : Proxies, script : Scripts, ran : Nat,
   outcome : {"none", "result", "raised", "missing"}, disturbed : BOOLEAN]

At(c, pc) == [c EXCEPT !.pc = pc]

Ended(c, outcome) == [c EXCEPT !.pc = "idle", !.outcome = outcome]

Init ==
  /\ loaded = {}
  /\ left = [p \in Proxies |-> Scripts]
  /\ scripts = [p \in Proxies |-> {}]
  /\ sha_cache = [p \in Proxies |-> {}]
  /\ \E p \in Proxies, s \in Scripts :
       call = [r \in Tasks |-> [pc |-> "idle", proxy |-> p, script |-> s, ran |-> 0,
                                outcome |-> "none", disturbed |-> FALSE]]
  /\ faults = 0
  /\ lost = [p \in Proxies |-> {}]

-------------------------------------------------------------------------------
(***************************************************************************)
(* initialize.                                                             *)
(***************************************************************************)

Keep(function, p, s) == [function EXCEPT ![p] = @ \union {s}]

(* Mutant: only the SHA is kept. *)
MutantLoadScript(p, s) ==
  /\ s \in left[p]
  /\ left' = [left EXCEPT ![p] = @ \ {s}]
  /\ sha_cache' = Keep(sha_cache, p, s)
  /\ loaded' = loaded \union {s}
  /\ UNCHANGED <<scripts, call, faults, lost>>

(* A file is read and the script registered. *)
LoadScript(p, s) ==
  /\ s \in left[p]
  /\ left' = [left EXCEPT ![p] = @ \ {s}]
  /\ scripts' = Keep(scripts, p, s)
  /\ sha_cache' = Keep(sha_cache, p, s)
  /\ loaded' = loaded \union {s}
  /\ UNCHANGED <<call, faults, lost>>

(* Mutant: the SHA is kept although SCRIPT LOAD raised. *)
MutantLoadScriptFails(p, s) ==
  /\ s \in left[p]
  /\ faults < MaxFaults
  /\ left' = [left EXCEPT ![p] = @ \ {s}]
  /\ scripts' = Keep(scripts, p, s)
  /\ sha_cache' = Keep(sha_cache, p, s)
  /\ loaded' \in {loaded, loaded \union {s}}
  /\ faults' = faults + 1
  /\ UNCHANGED <<call, lost>>

(* The file cannot be read, or SCRIPT LOAD raises, executed or not.          *)
LoadScriptFails(p, s) ==
  /\ s \in left[p]
  /\ faults < MaxFaults
  /\ left' = [left EXCEPT ![p] = @ \ {s}]
  /\ \/ UNCHANGED <<scripts, loaded>>
     \/ scripts' = Keep(scripts, p, s) /\ loaded' \in {loaded, loaded \union {s}}
  /\ faults' = faults + 1
  /\ UNCHANGED <<sha_cache, call, lost>>

-------------------------------------------------------------------------------
(***************************************************************************)
(* run_script.                                                             *)
(***************************************************************************)

(* Without a SHA: the script itself is sent, if it is known. *)
SlowPath(c) ==
  IF c.script \in scripts[c.proxy] THEN At(c, "eval") ELSE Ended(c, "missing")

Begin(r, p, s) ==
  LET c == [pc |-> "idle", proxy |-> p, script |-> s, ran |-> 0, outcome |-> "none",
            disturbed |-> FALSE]
  IN  /\ call[r].pc = "idle"
      /\ left[p] = {}
      /\ call' = [call EXCEPT ![r] = IF s \in sha_cache[p] THEN At(c, "evalsha") ELSE SlowPath(c)]
      /\ UNCHANGED <<loaded, left, scripts, sha_cache, faults, lost>>

(* The script runs, and its result is returned. *)
Run(c) == Ended([c EXCEPT !.ran = @ + 1], "result")

(* Mutant: the script is called again without being loaded. *)
MutantForgotten(c) == c

(* EVALSHA raises NoScriptError: the call raises AttributeError instead. *)
Forgotten(c) == Ended(c, "raised")

Evalsha(r) ==
  /\ call[r].pc = "evalsha"
  /\ call' = [call EXCEPT ![r] = IF @.script \in loaded THEN Run(@) ELSE Forgotten(@)]
  /\ UNCHANGED <<loaded, left, scripts, sha_cache, faults, lost>>

(* EVAL makes the script known to Redis, too. *)
Eval(r) ==
  /\ call[r].pc = "eval"
  /\ loaded' = loaded \union {call[r].script}
  /\ call' = [call EXCEPT ![r] = Run(@)]
  /\ UNCHANGED <<left, scripts, sha_cache, faults, lost>>

(* Mutant: whatever a call by SHA raises, the script is sent. *)
MutantRaised(c) == IF c.pc = "evalsha" THEN SlowPath(c) ELSE Ended(c, "raised")

(* A command that raises ends the call, whatever it raises. *)
Raised(c) == Ended(c, "raised")

(* Does the command that c awaits run the script? *)
Runs(c) ==
  \/ c.pc = "eval"
  \/ c.pc = "evalsha" /\ c.script \in loaded

(* The command is executed or not, and raises. *)
CallFails(r) ==
  LET c == [call[r] EXCEPT !.disturbed = TRUE]
  IN  /\ c.pc # "idle"
      /\ faults < MaxFaults
      /\ \/ /\ call' = [call EXCEPT ![r] = Raised(c)]
            /\ UNCHANGED loaded
         \/ /\ call' = [call EXCEPT ![r] = Raised(IF Runs(c) THEN [c EXCEPT !.ran = @ + 1] ELSE c)]
            /\ loaded' = IF c.pc = "eval" THEN loaded \union {c.script} ELSE loaded
      /\ faults' = faults + 1
      /\ UNCHANGED <<left, scripts, sha_cache, lost>>

-------------------------------------------------------------------------------
(***************************************************************************)
(* The environment.                                                        *)
(***************************************************************************)

(* Redis restarts, or its scripts are flushed. *)
LoseScripts ==
  /\ faults < MaxFaults
  /\ loaded' = {}
  /\ call' = [r \in Tasks |-> [call[r] EXCEPT !.disturbed = @ \/ call[r].pc # "idle"]]
  /\ faults' = faults + 1
  /\ lost' = [p \in Proxies |-> lost[p] \union sha_cache[p]]
  /\ UNCHANGED <<left, scripts, sha_cache>>

(* A proxy starts anew. *)
RestartProxy(p) ==
  /\ faults < MaxFaults
  /\ left' = [left EXCEPT ![p] = Scripts]
  /\ scripts' = [scripts EXCEPT ![p] = {}]
  /\ sha_cache' = [sha_cache EXCEPT ![p] = {}]
  /\ call' = [r \in Tasks |-> IF call[r].proxy = p /\ call[r].pc # "idle"
                              THEN Ended([call[r] EXCEPT !.disturbed = TRUE], "raised")
                              ELSE call[r]]
  /\ faults' = faults + 1
  /\ lost' = [lost EXCEPT ![p] = {}]
  /\ UNCHANGED loaded

-------------------------------------------------------------------------------

Proceed(r) == Evalsha(r) \/ Eval(r) \/ CallFails(r)

Next ==
  \/ \E p \in Proxies, s \in Scripts : LoadScript(p, s) \/ LoadScriptFails(p, s)
  \/ \E r \in Tasks, p \in Proxies, s \in Scripts : Begin(r, p, s)
  \/ \E r \in Tasks : Proceed(r)
  \/ \E p \in Proxies : RestartProxy(p)
  \/ LoseScripts

Spec == Init /\ [][Next]_vars

(* Redis answers, or the connection fails. *)
FairSpec == Spec /\ \A r \in Tasks : WF_vars(Proceed(r))

-------------------------------------------------------------------------------
(***************************************************************************)
(* Properties.                                                             *)
(***************************************************************************)

(* The variables keep their types, and a proxy has the text of every script  *)
(* whose SHA it knows.                                                       *)
TypeOK ==
  /\ loaded \subseteq Scripts
  /\ left \in [Proxies -> SUBSET Scripts]
  /\ scripts \in [Proxies -> SUBSET Scripts]
  /\ sha_cache \in [Proxies -> SUBSET Scripts]
  /\ \A p \in Proxies : sha_cache[p] \subseteq scripts[p]
  /\ call \in [Tasks -> Call]
  /\ faults \in 0..MaxFaults
  /\ lost \in [Proxies -> SUBSET Scripts]

(* While its commands do not fail a call raises only because Redis has lost  *)
(* a script that the proxy of the call had registered: never because of a    *)
(* SCRIPT LOAD that failed at the start, and never on the slow path.         *)
RaisesHaveCause ==
  [][\A r \in Tasks :
       call[r].pc # "idle" /\ call'[r].outcome = "raised" /\ faults' = faults =>
         call[r].pc = "evalsha" /\ call[r].script \in lost[call[r].proxy]]_vars

(* "Script was evicted, reload and run" (redis_client.py:91): a call whose   *)
(* script Redis has forgotten loads it again, so that it takes a command     *)
(* that fails or a restart during the call to raise it.  Does not hold: the  *)
(* reload is never reached.                                                  *)
EvictedScriptsAreReloaded ==
  \A r \in Tasks : call[r].outcome = "raised" => call[r].disturbed

(* The calls as ScriptCall sees them. *)
Abstract ==
  [r \in Tasks |-> [phase   |-> IF call[r].pc = "idle" THEN "idle" ELSE "pending",
                    ran     |-> call[r].ran,
                    outcome |-> call[r].outcome]]

Promise == INSTANCE ScriptCall WITH call <- Abstract

(* Fast path and slow path keep what run_script promises, whatever is lost,  *)
(* fails or restarts on the way: no script is run twice for a call, and none *)
(* is run for a call that returns None.                                      *)
CallsKeepPromise == Promise!Spec

(* Every call returns or raises. *)
EveryCallEnds == \A r \in Tasks : (call[r].pc # "idle") ~> (call[r].pc = "idle")

===============================================================================
