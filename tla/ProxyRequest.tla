------------------------------ MODULE ProxyRequest ------------------------------
(***************************************************************************)
(* The proxy application: a request passes the middleware, the enforcement *)
(* engine and the backend, and what the backend did is told to the global  *)
(* monitor, whose load goes into the next evaluations.                     *)
(*                                                                         *)
(* The monitor is the one of GlobalMonitor: each of its steps is taken     *)
(* together with the step of the request that waits for it.  The verdict   *)
(* of the middleware (PolicyReload), the engine's view of the client       *)
(* (EnforcementEngine) and the verdict of the limiter (BucketLimiter,      *)
(* SlidingWindow) are arbitrary here.                                      *)
(***************************************************************************)
EXTENDS GlobalMonitor, FiniteSets

CONSTANTS
  MaxRequests   \* bound: requests that arrive

ASSUME ProxyAssumption == MaxRequests \in Nat

VARIABLES
  request,    \* task -> where its request is, and its locals
  arrived,    \* requests so far
  forwarded   \* history: requests for which the backend call has ended

vars == <<monitorVars, request, arrived, forwarded>>

Answers == {"answer", "bad_gateway"}

(* pc: what the handler waits for.  dry: is this the dry run?  allowed: the  *)
(* decision that counts.  charged: how often the limiter has been asked for  *)
(* this request (history).                                                   *)
Request ==
  [pc : {"done", "engine", "load", "limit", "backend", "record"},
   proxy : Proxies, whitelisted : BOOLEAN, dry : BOOLEAN, allowed : BOOLEAN,
   charged : Nat, response : Answers \union {"none", "refused", "error"}]

Fresh(p, whitelisted) ==
  [pc |-> "engine", proxy |-> p, whitelisted |-> whitelisted, dry |-> FALSE, allowed |-> TRUE,
   charged |-> 0, response |-> "none"]

(* A request that is answered keeps no more than that. *)
Responded(q, response) ==
  [q EXCEPT !.pc = "done", !.dry = FALSE, !.allowed = TRUE, !.charged = 0,
            !.response = response]

Init ==
  /\ MonitorInit
  /\ \E p \in Proxies : request = [r \in Tasks |-> Responded(Fresh(p, FALSE), "none")]
  /\ arrived = 0
  /\ forwarded = 0

-------------------------------------------------------------------------------
(***************************************************************************)
(* proxy_handler up to the decision.                                       *)
(***************************************************************************)

(* Mutant: every request is evaluated once more. *)
MutantDryRun(q) == ~q.dry

(* Only whitelisted clients are evaluated twice. *)
DryRun(q) == q.whitelisted /\ ~q.dry

(* Mutant: the dry run replaces the decision. *)
MutantDecided(q, allowed) == [q EXCEPT !.allowed = allowed]

(* What a dry run comes to is only counted and logged. *)
Decided(q, allowed) == IF q.dry THEN q ELSE [q EXCEPT !.allowed = allowed]

(* evaluate_request has returned.  A refused client is told to wait, to pass *)
(* a challenge or that it is blocked, according to its level.                *)
Evaluated(q, allowed) ==
  LET d == Decided(q, allowed)
  IN  IF DryRun(d) THEN [d EXCEPT !.dry = TRUE, !.pc = "engine"]
      ELSE IF d.allowed THEN [d EXCEPT !.pc = "backend"]
      ELSE Responded(d, "refused")

(* The middleware turns a blacklisted client away; a whitelisted one is      *)
(* allowed without an evaluation, which then follows as a dry run.           *)
Arrive(r, p) ==
  /\ request[r].pc = "done"
  /\ arrived < MaxRequests
  /\ arrived' = arrived + 1
  /\ \/ request' = [request EXCEPT ![r] = Responded(Fresh(p, FALSE), "refused")]
     \/ request' = [request EXCEPT ![r] = Evaluated(Fresh(p, TRUE), TRUE)]
     \/ request' = [request EXCEPT ![r] = Fresh(p, FALSE)]
  /\ UNCHANGED <<monitorVars, forwarded>>

(* The client is blocked: neither load nor limiter is asked. *)
Suspended(r) ==
  /\ request[r].pc = "engine"
  /\ request' = [request EXCEPT ![r] = Evaluated(@, FALSE)]
  /\ UNCHANGED <<monitorVars, arrived, forwarded>>

(* It is not, and the load is read, command by command. *)
AskLoad(r) ==
  /\ request[r].pc = "engine"
  /\ BeginLoad(r, request[r].proxy)
  /\ request' = [request EXCEPT ![r].pc = "load"]
  /\ UNCHANGED <<arrived, forwarded>>

ReadLoad(r) ==
  /\ request[r].pc = "load"
  /\ MgetReq(r) \/ MgetErr(r)
  /\ UNCHANGED <<request, arrived, forwarded>>

LoadRead(r) ==
  /\ request[r].pc = "load"
  /\ MgetLat(r) \/ LoadFails(r)
  /\ request' = [request EXCEPT ![r].pc = "limit"]
  /\ UNCHANGED <<arrived, forwarded>>

(* The limiter lets the request pass or refuses it. *)
Limited(r) ==
  LET charged == [request[r] EXCEPT !.charged = @ + 1]
  IN  /\ charged.pc = "limit"
      /\ \E allowed \in BOOLEAN : request' = [request EXCEPT ![r] = Evaluated(charged, allowed)]
      /\ Use(r)
      /\ UNCHANGED <<arrived, forwarded>>

-------------------------------------------------------------------------------
(***************************************************************************)
(* proxy_handler from the backend call on.                                 *)
(***************************************************************************)

(* The client goes away before its body is read: nothing is forwarded. *)
BodyFails(r) ==
  /\ request[r].pc = "backend"
  /\ request' = [request EXCEPT ![r] = Responded(@, "error")]
  /\ UNCHANGED <<monitorVars, arrived, forwarded>>

(* Mutant: only answers of the backend are recorded. *)
MutantAfterBackend(q, response) ==
  [q EXCEPT !.pc = IF response = "answer" THEN "record" ELSE "done", !.response = response]

(* Whatever came of the call is recorded, then sent. *)
AfterBackend(q, response) == [q EXCEPT !.pc = "record", !.response = response]

(* The backend answers, with status 5xx or another one, or the call fails or *)
(* runs into its timeout, which is a 502 to client and monitor.              *)
BackendReturns(r) ==
  /\ request[r].pc = "backend"
  /\ \E duration \in Durations, failed \in BOOLEAN, response \in Answers :
       /\ response = "bad_gateway" => failed
       /\ BeginRecord(r, request[r].proxy, duration, failed)
       /\ request' = [request EXCEPT ![r] = AfterBackend(@, response)]
  /\ forwarded' = forwarded + 1
  /\ UNCHANGED arrived

(* Mutant: a failed record is raised, and no response is sent. *)
MutantAfterRecord(q) == q

(* The response is sent once the monitor has the request. *)
AfterRecord(q) == Responded(q, q.response)

Finish(r) ==
  /\ request[r].pc = "record"
  /\ Record(r)
  /\ request' = [request EXCEPT ![r] = AfterRecord(@)]
  /\ UNCHANGED <<arrived, forwarded>>

FinishInMemory(r) ==
  /\ request[r].pc = "record"
  /\ RecordFails(r)
  /\ request' = [request EXCEPT ![r] = AfterRecord(@)]
  /\ UNCHANGED <<arrived, forwarded>>

-------------------------------------------------------------------------------
(***************************************************************************)
(* The environment.                                                        *)
(***************************************************************************)

(* The requests of a proxy that stops are not answered. *)
RestartProxy(p) ==
  /\ LoseProxy(p)
  /\ request' = [r \in Tasks |-> IF request[r].proxy = p /\ request[r].pc # "done"
                                 THEN Responded(request[r], "error") ELSE request[r]]
  /\ UNCHANGED <<arrived, forwarded>>

Elsewhere == (Tick \/ LoseRedis) /\ UNCHANGED <<request, arrived, forwarded>>

-------------------------------------------------------------------------------

Proceed(r) ==
  \/ Suspended(r) \/ AskLoad(r) \/ ReadLoad(r) \/ LoadRead(r) \/ Limited(r)
  \/ BodyFails(r) \/ BackendReturns(r) \/ Finish(r) \/ FinishInMemory(r)

Next ==
  \/ \E r \in Tasks, p \in Proxies : Arrive(r, p)
  \/ \E r \in Tasks : Proceed(r)
  \/ \E p \in Proxies : RestartProxy(p)
  \/ Elsewhere

Spec == Init /\ [][Next]_vars

(* Every awaited call is answered or raises: the backend call because of its *)
(* timeout, those of Redis by assumption.                                    *)
FairSpec == Spec /\ \A r \in Tasks : WF_vars(Proceed(r))

-------------------------------------------------------------------------------
(***************************************************************************)
(* Properties.                                                             *)
(***************************************************************************)

(* The variables keep their types, those of the monitor included. *)
TypeOK ==
  /\ MonitorTypeOK
  /\ request \in [Tasks -> Request]
  /\ arrived \in 0..MaxRequests
  /\ forwarded \in Nat

(* A whitelisted client is never refused, whatever its dry run came to:      *)
(* unless it goes away or the proxy stops, it gets what the backend says.    *)
WhitelistedAreForwarded ==
  \A r \in Tasks :
    request[r].whitelisted /\ request[r].pc = "done"
      => request[r].response \in Answers \union {"error"}

(* The limiter is asked at most once for a request: the second evaluation of *)
(* a whitelisted client takes the place of the one it was spared.            *)
RequestsAreChargedOnce == \A r \in Tasks : request[r].charged <= 1

Recording == {r \in Tasks : request[r].pc = "record"}

(* The requests that the slots count, one by one. *)
Counted == UNION {{w} \X (1..req[w]) : w \in Slots}

(* The slots count what was forwarded, and nothing twice, although records   *)
(* that raise are repeated in memory.  Unless a command failed or a slot was *)
(* dropped they count all of it, by the time the client has its answer: the  *)
(* requests that were refused do not dilute the error rate, and those that   *)
(* never reached the backend are in it.                                      *)
LoadsCountForwards ==
  LET counted == Cardinality(Counted)
      answered == forwarded - Cardinality(Recording)
  IN  /\ counted <= answered
      /\ faults = 0 /\ clock < Slot + Keep => counted = answered

(* Every request is answered. *)
EveryRequestIsAnswered ==
  \A r \in Tasks : (request[r].pc # "done") ~> (request[r].pc = "done")

===============================================================================
