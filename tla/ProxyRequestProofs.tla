--------------------------- MODULE ProxyRequestProofs ---------------------------
(***************************************************************************)
(* Proofs about ProxyRequest, for any number of requests, proxies and      *)
(* faults: its steps are steps of the monitor, so that what is proved of   *)
(* the monitor holds for the proxy, whitelisted clients are not refused,   *)
(* no request is charged twice, and the slots count what was forwarded.    *)
(***************************************************************************)
EXTENDS ProxyRequest, GlobalMonitorProofs, FiniteSetTheorems

(* A whitelisted client is allowed, and evaluated in a dry run.  A request   *)
(* that has not reached the limiter has not been charged.                    *)
SoundRequest(q) ==
  /\ q.charged <= 1
  /\ q.pc \in {"engine", "load", "limit"} => q.charged = 0
  /\ q.pc = "record" => q.response \in Answers
  /\ q.whitelisted /\ q.pc # "done" => q.dry /\ q.allowed
  /\ q.whitelisted /\ q.pc = "done" => q.response \in Answers \union {"error"}

RequestIInv ==
  /\ request \in [Tasks -> Request]
  /\ arrived \in 0..MaxRequests
  /\ forwarded \in Nat
  /\ \A r \in Tasks : SoundRequest(request[r])

-------------------------------------------------------------------------------
(***************************************************************************)
(* Requests.                                                               *)
(***************************************************************************)

LEMMA FreshIsSound ==
  ASSUME NEW p \in Proxies
  PROVE  Fresh(p, FALSE) \in Request /\ SoundRequest(Fresh(p, FALSE))
BY DEF Fresh, Request, SoundRequest, Answers

LEMMA RespondedIsSound ==
  ASSUME NEW q \in Request, NEW response \in Answers \union {"none", "refused", "error"},
         q.whitelisted => response \in Answers \union {"error"}
  PROVE  Responded(q, response) \in Request /\ SoundRequest(Responded(q, response))
<1> DEFINE u == Responded(q, response)
<1>1. u \in Request /\ u.pc = "done" /\ u.charged = 0 /\ u.response = response
      /\ u.whitelisted = q.whitelisted
  BY DEF Responded, Request
<1> HIDE DEF u
<1>2. SoundRequest(u)
  BY <1>1 DEF SoundRequest
<1> QED BY <1>1, <1>2 DEF u

(* The evaluation that is a dry run does not touch the decision.             *)
LEMMA EvaluatedIsSound ==
  ASSUME NEW q \in Request, NEW allowed \in BOOLEAN, q.charged <= 1,
         q.whitelisted => q.dry /\ q.allowed
  PROVE  Evaluated(q, allowed) \in Request /\ SoundRequest(Evaluated(q, allowed))
<1> DEFINE d == Decided(q, allowed)
<1>1. /\ d \in Request /\ d.charged = q.charged /\ d.whitelisted = q.whitelisted
      /\ d.dry = q.dry /\ (d.whitelisted => d.dry /\ d.allowed)
  <2>1. CASE q.dry
    BY <2>1 DEF Decided
  <2>2. CASE ~q.dry
    BY <2>2 DEF Decided, Request
  <2> QED BY <2>1, <2>2
<1>2. ~DryRun(d)
  BY <1>1, Zenon DEF DryRun
<1> HIDE DEF d
<1>3. CASE d.allowed
  <2> DEFINE u == [d EXCEPT !.pc = "backend"]
  <2>1. Evaluated(q, allowed) = u
    BY <1>2, <1>3 DEF Evaluated, d
  <2>2. /\ u \in Request /\ u.pc = "backend" /\ u.charged = d.charged /\ u.allowed = d.allowed
        /\ u.dry = d.dry /\ u.whitelisted = d.whitelisted
    BY <1>1 DEF Request
  <2> HIDE DEF u
  <2>3. SoundRequest(u)
    BY <1>1, <2>2 DEF SoundRequest
  <2> QED BY <2>1, <2>2, <2>3
<1>4. CASE ~d.allowed
  <2>1. Evaluated(q, allowed) = Responded(d, "refused")
    BY <1>2, <1>4 DEF Evaluated, d
  <2>2. ~d.whitelisted
    BY <1>1, <1>4
  <2> QED BY <1>1, <2>1, <2>2, RespondedIsSound
<1> QED BY <1>3, <1>4

LEMMA WhitelistedIsSound ==
  ASSUME NEW p \in Proxies
  PROVE  /\ Evaluated(Fresh(p, TRUE), TRUE) \in Request
         /\ SoundRequest(Evaluated(Fresh(p, TRUE), TRUE))
<1> DEFINE u == Evaluated(Fresh(p, TRUE), TRUE)
<1>1. u = [pc |-> "engine", proxy |-> p, whitelisted |-> TRUE, dry |-> TRUE, allowed |-> TRUE,
           charged |-> 0, response |-> "none"]
  BY DEF Evaluated, Decided, DryRun, Fresh
<1> HIDE DEF u
<1>2. u \in Request /\ SoundRequest(u)
  BY <1>1 DEF Request, SoundRequest, Answers
<1> QED BY <1>2 DEF u

-------------------------------------------------------------------------------
(***************************************************************************)
(* The steps.                                                              *)
(***************************************************************************)

LEMMA RequestInitHolds == Init => RequestIInv
<1> SUFFICES ASSUME Init PROVE RequestIInv
  OBVIOUS
<1>1. PICK p \in Proxies : request = [r \in Tasks |-> Responded(Fresh(p, FALSE), "none")]
  BY DEF Init
<1> DEFINE u == Responded(Fresh(p, FALSE), "none")
<1>2. u \in Request /\ SoundRequest(u)
  <2>1. Fresh(p, FALSE) \in Request /\ Fresh(p, FALSE).whitelisted = FALSE
    BY FreshIsSound DEF Fresh
  <2> QED BY <2>1, RespondedIsSound
<1> HIDE DEF u
<1>3. request = [r \in Tasks |-> u]
  BY <1>1 DEF u
<1>4. arrived \in 0..MaxRequests /\ forwarded \in Nat
  BY ProxyAssumption DEF Init
<1> QED BY <1>2, <1>3, <1>4 DEF RequestIInv

LEMMA RequestStep ==
  ASSUME RequestIInv, NEW r \in Tasks, NEW u \in Request, SoundRequest(u),
         request' = [request EXCEPT ![r] = u],
         arrived' \in 0..MaxRequests, forwarded' \in Nat
  PROVE  RequestIInv'
<1>1. /\ request' \in [Tasks -> Request]
      /\ \A q \in Tasks : request'[q] = request[q] \/ request'[q] = u
  BY DEF RequestIInv
<1>2. \A q \in Tasks : SoundRequest(request'[q])
  BY <1>1 DEF RequestIInv
<1> QED BY <1>1, <1>2 DEF RequestIInv, SoundRequest

LEMMA RequestIsSound ==
  ASSUME RequestIInv, NEW r \in Tasks
  PROVE  /\ request[r] \in Request /\ SoundRequest(request[r])
         /\ request[r].response \in Answers \union {"none", "refused", "error"}
         /\ arrived \in 0..MaxRequests /\ forwarded \in Nat
<1>1. request[r] \in Request /\ SoundRequest(request[r])
  BY DEF RequestIInv
<1> QED BY <1>1 DEF RequestIInv, Request

LEMMA ArriveSound ==
  ASSUME RequestIInv, NEW r \in Tasks, NEW p \in Proxies, Arrive(r, p)
  PROVE  RequestIInv'
<1>1. arrived' \in 0..MaxRequests /\ forwarded' \in Nat
  BY ProxyAssumption DEF RequestIInv, Arrive
<1>2. Fresh(p, FALSE) \in Request /\ SoundRequest(Fresh(p, FALSE))
      /\ Fresh(p, FALSE).whitelisted = FALSE
  BY FreshIsSound DEF Fresh
<1>3. CASE request' = [request EXCEPT ![r] = Responded(Fresh(p, FALSE), "refused")]
  BY <1>1, <1>2, <1>3, RespondedIsSound, RequestStep
<1>4. CASE request' = [request EXCEPT ![r] = Evaluated(Fresh(p, TRUE), TRUE)]
  BY <1>1, <1>4, WhitelistedIsSound, RequestStep
<1>5. CASE request' = [request EXCEPT ![r] = Fresh(p, FALSE)]
  BY <1>1, <1>2, <1>5, RequestStep
<1> QED BY <1>3, <1>4, <1>5 DEF Arrive

LEMMA SuspendedSound ==
  ASSUME RequestIInv, NEW r \in Tasks, Suspended(r)
  PROVE  RequestIInv'
<1> DEFINE q == request[r]
<1>1. /\ q \in Request /\ SoundRequest(q) /\ q.pc = "engine"
      /\ arrived' \in 0..MaxRequests /\ forwarded' \in Nat
      /\ request' = [request EXCEPT ![r] = Evaluated(q, FALSE)]
  BY RequestIsSound DEF Suspended
<1> HIDE DEF q
<1>2. q.charged <= 1 /\ (q.whitelisted => q.dry /\ q.allowed)
  BY <1>1 DEF SoundRequest
<1> QED BY <1>1, <1>2, EvaluatedIsSound, RequestStep

(* A request goes on to another command of the evaluation.                   *)
LEMMA MoveSound ==
  ASSUME RequestIInv, NEW r \in Tasks, NEW pc \in {"load", "limit"},
         request[r].pc \in {"engine", "load", "limit"},
         request' = [request EXCEPT ![r].pc = pc], UNCHANGED <<arrived, forwarded>>
  PROVE  RequestIInv'
<1> DEFINE q == request[r]
           u == [q EXCEPT !.pc = pc]
<1>1. /\ q \in Request /\ SoundRequest(q) /\ q.pc \in {"engine", "load", "limit"}
      /\ arrived' \in 0..MaxRequests /\ forwarded' \in Nat
      /\ request' = [request EXCEPT ![r] = u]
  BY RequestIsSound
<1> HIDE DEF q
<1>2. /\ u \in Request /\ u.pc = pc /\ u.charged = q.charged /\ u.whitelisted = q.whitelisted
      /\ u.dry = q.dry /\ u.allowed = q.allowed
  BY <1>1 DEF Request
<1> HIDE DEF u
<1>3. SoundRequest(u)
  BY <1>1, <1>2 DEF SoundRequest
<1> QED BY <1>1, <1>2, <1>3, RequestStep

LEMMA LimitedSound ==
  ASSUME RequestIInv, NEW r \in Tasks, Limited(r)
  PROVE  RequestIInv'
<1> DEFINE q == request[r]
           c == [q EXCEPT !.charged = q.charged + 1]
<1>1. /\ q \in Request /\ SoundRequest(q)
      /\ arrived' \in 0..MaxRequests /\ forwarded' \in Nat
  BY RequestIsSound DEF Limited
<1>2. c.pc = "limit" /\ \E allowed \in BOOLEAN :
                          request' = [request EXCEPT ![r] = Evaluated(c, allowed)]
  BY DEF Limited
<1> HIDE DEF q
<1>3. /\ c \in Request /\ c.charged = q.charged + 1 /\ c.whitelisted = q.whitelisted
      /\ c.dry = q.dry /\ c.allowed = q.allowed /\ c.pc = q.pc
  BY <1>1 DEF Request
<1> HIDE DEF c
<1>4. c.charged <= 1 /\ (c.whitelisted => c.dry /\ c.allowed)
  BY <1>1, <1>2, <1>3 DEF SoundRequest
<1>5. PICK allowed \in BOOLEAN : request' = [request EXCEPT ![r] = Evaluated(c, allowed)]
  BY <1>2
<1>6. Evaluated(c, allowed) \in Request /\ SoundRequest(Evaluated(c, allowed))
  BY <1>3, <1>4, EvaluatedIsSound
<1> QED BY <1>1, <1>5, <1>6, RequestStep

LEMMA BodyFailsSound ==
  ASSUME RequestIInv, NEW r \in Tasks, BodyFails(r)
  PROVE  RequestIInv'
<1>1. /\ request[r] \in Request
      /\ arrived' \in 0..MaxRequests /\ forwarded' \in Nat
      /\ request' = [request EXCEPT ![r] = Responded(request[r], "error")]
  BY RequestIsSound DEF BodyFails
<1> QED BY <1>1, RespondedIsSound, RequestStep

LEMMA BackendReturnsSound ==
  ASSUME RequestIInv, NEW r \in Tasks, BackendReturns(r)
  PROVE  RequestIInv'
<1> DEFINE q == request[r]
<1>1. /\ q \in Request /\ SoundRequest(q) /\ q.pc = "backend"
      /\ arrived' \in 0..MaxRequests /\ forwarded' \in Nat
  BY RequestIsSound DEF BackendReturns
<1>2. PICK response \in Answers : request' = [request EXCEPT ![r] = AfterBackend(q, response)]
  BY DEF BackendReturns
<1> DEFINE u == AfterBackend(q, response)
<1>3. request' = [request EXCEPT ![r] = u]
  BY <1>2
<1> HIDE DEF q
<1>4. /\ u \in Request /\ u.pc = "record" /\ u.response = response /\ u.charged = q.charged
      /\ u.whitelisted = q.whitelisted /\ u.dry = q.dry /\ u.allowed = q.allowed
  BY <1>1 DEF AfterBackend, Request
<1> HIDE DEF u
<1>5. SoundRequest(u)
  BY <1>1, <1>4 DEF SoundRequest
<1> QED BY <1>1, <1>3, <1>4, <1>5, RequestStep

LEMMA FinishSound ==
  ASSUME RequestIInv, NEW r \in Tasks, Finish(r) \/ FinishInMemory(r)
  PROVE  RequestIInv'
<1> DEFINE q == request[r]
<1>1. /\ q \in Request /\ SoundRequest(q) /\ q.pc = "record"
      /\ q.response \in Answers \union {"none", "refused", "error"}
      /\ arrived' \in 0..MaxRequests /\ forwarded' \in Nat
      /\ request' = [request EXCEPT ![r] = Responded(q, q.response)]
  BY RequestIsSound DEF Finish, FinishInMemory, AfterRecord
<1> HIDE DEF q
<1>2. q.response \in Answers
  BY <1>1 DEF SoundRequest
<1> QED BY <1>1, <1>2, RespondedIsSound, RequestStep

LEMMA RestartSound ==
  ASSUME RequestIInv, NEW p \in Proxies, RestartProxy(p)
  PROVE  RequestIInv'
<1> DEFINE u(r) == Responded(request[r], "error")
<1>1. \A r \in Tasks : u(r) \in Request /\ SoundRequest(u(r))
  <2> TAKE r \in Tasks
  <2>1. request[r] \in Request
    BY RequestIsSound
  <2> QED BY <2>1, RespondedIsSound
<1> HIDE DEF u
<1>2. request' = [r \in Tasks |-> IF request[r].proxy = p /\ request[r].pc # "done"
                                  THEN u(r) ELSE request[r]]
  BY DEF RestartProxy, u
<1>3. /\ request \in [Tasks -> Request] /\ \A r \in Tasks : SoundRequest(request[r])
      /\ arrived' \in 0..MaxRequests /\ forwarded' \in Nat
  BY DEF RequestIInv, RestartProxy
<1>4. request' \in [Tasks -> Request]
  BY <1>1, <1>2, <1>3
<1>5. \A r \in Tasks : SoundRequest(request'[r])
  BY <1>1, <1>2, <1>3
<1> QED BY <1>3, <1>4, <1>5 DEF RequestIInv, SoundRequest

LEMMA RequestNextPreserves == RequestIInv /\ [Next]_vars => RequestIInv'
<1> SUFFICES ASSUME RequestIInv, [Next]_vars PROVE RequestIInv'
  OBVIOUS
<1>1. CASE \E r \in Tasks, p \in Proxies : Arrive(r, p)
  BY <1>1, ArriveSound
<1>2. ASSUME NEW r \in Tasks, Proceed(r) PROVE RequestIInv'
  <2>1. CASE AskLoad(r)
    BY <2>1, MoveSound DEF AskLoad
  <2>2. CASE LoadRead(r)
    BY <2>2, MoveSound DEF LoadRead
  <2>3. CASE ReadLoad(r)
    BY <2>3 DEF ReadLoad, RequestIInv, SoundRequest
  <2> QED BY <1>2, <2>1, <2>2, <2>3, SuspendedSound, LimitedSound, BodyFailsSound,
             BackendReturnsSound, FinishSound DEF Proceed
<1>3. CASE \E p \in Proxies : RestartProxy(p)
  BY <1>3, RestartSound
<1>4. CASE Elsewhere
  BY <1>4 DEF Elsewhere, RequestIInv, SoundRequest
<1>5. CASE UNCHANGED vars
  BY <1>5 DEF vars, RequestIInv, SoundRequest
<1> QED BY <1>1, <1>2, <1>3, <1>4, <1>5 DEF Next

-------------------------------------------------------------------------------
(***************************************************************************)
(* The proxy drives the monitor.                                           *)
(***************************************************************************)

(* Every step leaves the monitor alone or is one of its steps.               *)
LEMMA StepsOfTheMonitor == RequestIInv /\ [Next]_vars => [MonitorNext]_monitorVars
<1> SUFFICES ASSUME RequestIInv, [Next]_vars, ~UNCHANGED monitorVars PROVE MonitorNext
  OBVIOUS
<1>1. ~\E r \in Tasks, p \in Proxies : Arrive(r, p)
  BY DEF Arrive
<1>2. ASSUME NEW r \in Tasks, Proceed(r) PROVE MonitorNext
  <2>1. request[r].proxy \in Proxies
    BY RequestIsSound DEF Request
  <2>2. CASE AskLoad(r)
    BY <2>1, <2>2 DEF AskLoad, MonitorNext
  <2>3. CASE ReadLoad(r)
    BY <2>3 DEF ReadLoad, MonitorNext, Answered
  <2>4. CASE LoadRead(r)
    BY <2>4 DEF LoadRead, MonitorNext, Answered, Failed
  <2>5. CASE Limited(r)
    BY <2>5 DEF Limited, MonitorNext
  <2>6. CASE BackendReturns(r)
    BY <2>1, <2>6 DEF BackendReturns, MonitorNext
  <2>7. CASE Finish(r)
    BY <2>7 DEF Finish, MonitorNext, Answered
  <2>8. CASE FinishInMemory(r)
    BY <2>8 DEF FinishInMemory, MonitorNext, Failed
  <2>9. ~Suspended(r) /\ ~BodyFails(r)
    BY DEF Suspended, BodyFails
  <2> QED BY <1>2, <2>2, <2>3, <2>4, <2>5, <2>6, <2>7, <2>8, <2>9 DEF Proceed
<1>3. CASE \E p \in Proxies : RestartProxy(p)
  BY <1>3 DEF RestartProxy, MonitorNext
<1>4. CASE Elsewhere
  BY <1>4 DEF Elsewhere, MonitorNext
<1>5. ~UNCHANGED vars
  BY DEF vars
<1> QED BY <1>1, <1>2, <1>3, <1>4, <1>5 DEF Next

LEMMA RequestInvariance == Spec => []RequestIInv
BY RequestInitHolds, RequestNextPreserves, PTL DEF Spec

(* The proxy records requests and reads loads only as the monitor allows.    *)
THEOREM ImplementsMonitor == Spec => MonitorSpec
<1>1. Init => MonitorInit
  BY DEF Init
<1> QED BY <1>1, RequestInvariance, StepsOfTheMonitor, PTL DEF Spec, MonitorSpec

(* The requests and the monitor keep their types.                            *)
THEOREM TypeCorrect == Spec => []TypeOK
<1>1. RequestIInv /\ MonitorTypeOK => TypeOK
  BY DEF RequestIInv, TypeOK
<1> QED BY <1>1, RequestInvariance, ImplementsMonitor, MonitorTypeCorrect, PTL

(* The load that tightens the limits of the proxy's clients has a cause.     *)
THEOREM OverloadsHaveCause == Spec => []OverloadHasCause
BY ImplementsMonitor, MonitorIsFair, PTL

(* A whitelisted client is never refused, whatever the dry run finds.        *)
THEOREM WhitelistedPass == Spec => []WhitelistedAreForwarded
<1>1. RequestIInv => WhitelistedAreForwarded
  BY DEF RequestIInv, SoundRequest, WhitelistedAreForwarded
<1> QED BY <1>1, RequestInvariance, PTL

(* However a request is evaluated, it asks the limiter at most once.         *)
THEOREM ChargedOnce == Spec => []RequestsAreChargedOnce
<1>1. RequestIInv => RequestsAreChargedOnce
  BY DEF RequestIInv, SoundRequest, RequestsAreChargedOnce
<1> QED BY <1>1, RequestInvariance, PTL

-------------------------------------------------------------------------------
(***************************************************************************)
(* What the slots count.                                                   *)
(***************************************************************************)

(* No slot is dropped before the first one could be. *)
KeptLongEnough == \A w \in Slots : expiry[w] = Forever \/ expiry[w] >= Slot + Keep

(* The requests in the slots and those about to be recorded are among those  *)
(* forwarded, and are all of them as long as nothing was lost.               *)
CountIInv ==
  /\ IsFiniteSet(Counted) /\ IsFiniteSet(Recording)
  /\ Cardinality(Counted) + Cardinality(Recording) <= forwarded
  /\ faults = 0 /\ clock < Slot + Keep
       => Cardinality(Counted) + Cardinality(Recording) = forwarded
  /\ KeptLongEnough

LEMMA CountInitHolds == Init => CountIInv
<1> SUFFICES ASSUME Init PROVE CountIInv
  OBVIOUS
<1>1. Counted = {}
  BY DEF Init, MonitorInit, Counted
<1>2. Recording = {}
  BY DEF Init, Recording, Responded, Fresh
<1>3. IsFiniteSet({}) /\ Cardinality({}) = 0
  BY FS_EmptySet
<1>4. KeptLongEnough
  BY DEF Init, MonitorInit, KeptLongEnough
<1> QED BY <1>1, <1>2, <1>3, <1>4 DEF CountIInv, Init

LEMMA Cardinals ==
  ASSUME CountIInv
  PROVE  Cardinality(Counted) \in Nat /\ Cardinality(Recording) \in Nat
BY FS_CardinalityType DEF CountIInv

(* A step that records nothing and reaches no backend.                       *)
LEMMA NothingCounted ==
  ASSUME CountIInv, RequestIInv, UNCHANGED <<clock, req, expiry, forwarded>>,
         Recording' \subseteq Recording, faults' \in Nat,
         faults' = 0 => faults = 0 /\ Recording' = Recording
  PROVE  CountIInv'
<1>1. Counted' = Counted
  BY DEF Counted, Slots
<1>2. KeptLongEnough'
  BY DEF CountIInv, KeptLongEnough, Slots
<1>3. IsFiniteSet(Recording') /\ Cardinality(Recording') <= Cardinality(Recording)
  BY FS_Subset DEF CountIInv
<1>4. Cardinality(Recording') \in Nat /\ forwarded \in Nat
  BY <1>3, FS_CardinalityType DEF RequestIInv
<1> QED BY <1>1, <1>2, <1>3, <1>4, Cardinals DEF CountIInv

(* The transaction adds one request to the slot of its task.                 *)
LEMMA ExecuteCounts ==
  ASSUME CountIInv, MonitorTypeOK, NEW r \in Tasks, Execute(call[r])
  PROVE  /\ IsFiniteSet(Counted') /\ Cardinality(Counted') = Cardinality(Counted) + 1
         /\ KeptLongEnough'
<1> DEFINE w == SlotOf(call[r].now)
           x == <<w, req[w] + 1>>
<1>1. w \in Slots
  BY SlotOfRange DEF MonitorTypeOK, Call
<1>2. /\ req' = [req EXCEPT ![w] = req[w] + 1]
      /\ expiry' = [expiry EXCEPT ![w] = clock + Keep]
  BY DEF Execute
<1> HIDE DEF w
<1>3. req \in [Slots -> Nat] /\ expiry \in [Slots -> Nat] /\ clock \in Slot..MaxClock
  BY DEF MonitorTypeOK
<1>4. x \notin Counted
  BY <1>3 DEF Counted
<1>5. Counted' = Counted \union {x}
  <2>1. \A v \in Slots : req'[v] = IF v = w THEN req[w] + 1 ELSE req[v]
    BY <1>1, <1>2, <1>3
  <2>2. \A v \in Slots : {v} \X (1..req'[v]) =
                          IF v = w THEN ({v} \X (1..req[v])) \union {x} ELSE {v} \X (1..req[v])
    BY <1>1, <1>3, <2>1
  <2>3. Counted' = UNION {{v} \X (1..req'[v]) : v \in Slots}
    BY DEF Counted, Slots
  <2> HIDE DEF x
  <2> QED BY <1>1, <2>2, <2>3 DEF Counted
<1>6. KeptLongEnough'
  BY <1>1, <1>2, <1>3, MonitorAssumption DEF CountIInv, KeptLongEnough, Slots
<1> QED BY <1>4, <1>5, <1>6, FS_AddElement DEF CountIInv

(* A task that is not recording goes on, but not to a record.                *)
LEMMA StillRecording ==
  ASSUME RequestIInv, NEW r \in Tasks, NEW u, request' = [request EXCEPT ![r] = u],
         request[r].pc # "record", u.pc # "record"
  PROVE  Recording' = Recording
BY DEF RequestIInv, Recording

LEMMA EvaluatedRecordsNothing ==
  ASSUME NEW q \in Request, NEW allowed \in BOOLEAN
  PROVE  Evaluated(q, allowed).pc # "record"
<1> DEFINE d == Decided(q, allowed)
<1>1. d \in Request
  BY DEF Decided, Request
<1>2. Evaluated(q, allowed) = IF DryRun(d) THEN [d EXCEPT !.dry = TRUE, !.pc = "engine"]
                              ELSE IF d.allowed THEN [d EXCEPT !.pc = "backend"]
                              ELSE Responded(d, "refused")
  BY DEF Evaluated
<1> HIDE DEF d
<1> QED BY <1>1, <1>2 DEF Responded, Request

LEMMA EvaluationCountsNothing ==
  ASSUME RequestIInv, NEW r \in Tasks,
         \/ \E p \in Proxies : Arrive(r, p)
         \/ Suspended(r) \/ AskLoad(r) \/ LoadRead(r) \/ Limited(r) \/ BodyFails(r)
  PROVE  Recording' = Recording
<1>1. request[r] \in Request
  BY RequestIsSound
<1>2. ASSUME NEW p \in Proxies, Arrive(r, p) PROVE Recording' = Recording
  <2>1. Fresh(p, FALSE) \in Request /\ Fresh(p, TRUE) \in Request
    BY DEF Fresh, Request
  <2>2. /\ Responded(Fresh(p, FALSE), "refused").pc # "record"
        /\ Evaluated(Fresh(p, TRUE), TRUE).pc # "record"
        /\ Fresh(p, FALSE).pc # "record"
    BY <2>1, EvaluatedRecordsNothing DEF Responded, Fresh
  <2>3. request[r].pc # "record"
    BY <1>2 DEF Arrive
  <2> QED BY <1>2, <2>2, <2>3, StillRecording DEF Arrive
<1>3. CASE Suspended(r)
  BY <1>1, <1>3, EvaluatedRecordsNothing, StillRecording DEF Suspended
<1>4. CASE AskLoad(r) \/ LoadRead(r)
  <2>1. PICK pc \in {"load", "limit"} : request' = [request EXCEPT ![r].pc = pc]
    BY <1>4 DEF AskLoad, LoadRead
  <2>2. [request[r] EXCEPT !.pc = pc].pc # "record"
    BY <1>1 DEF Request
  <2> QED BY <1>4, <2>1, <2>2, StillRecording DEF AskLoad, LoadRead
<1>5. CASE Limited(r)
  <2> DEFINE c == [request[r] EXCEPT !.charged = @ + 1]
  <2>1. c \in Request /\ c.pc = request[r].pc
    BY <1>1 DEF Request
  <2>2. request[r].pc # "record"
    BY <1>5, <2>1 DEF Limited
  <2> QED BY <1>5, <2>1, <2>2, EvaluatedRecordsNothing, StillRecording DEF Limited
<1>6. CASE BodyFails(r)
  <2>1. Responded(request[r], "error").pc # "record"
    BY <1>1 DEF Responded, Request
  <2> QED BY <1>6, <2>1, StillRecording DEF BodyFails
<1> QED BY <1>2, <1>3, <1>4, <1>5, <1>6

(* A request whose backend call has ended waits to be recorded.              *)
LEMMA BackendReturnsCounts ==
  ASSUME CountIInv, RequestIInv, MonitorTypeOK, NEW r \in Tasks, BackendReturns(r)
  PROVE  CountIInv'
<1>1. /\ request[r] \in Request /\ request[r].pc = "backend" /\ forwarded \in Nat
      /\ forwarded' = forwarded + 1 /\ UNCHANGED <<clock, req, expiry, faults>>
  BY RequestIsSound DEF BackendReturns, BeginRecord, redis
<1>2. PICK response \in Answers :
        request' = [request EXCEPT ![r] = AfterBackend(request[r], response)]
  BY DEF BackendReturns
<1>3. AfterBackend(request[r], response).pc = "record"
  BY <1>1 DEF AfterBackend, Request
<1>4. Recording' = Recording \union {r} /\ r \notin Recording
  BY <1>1, <1>2, <1>3 DEF RequestIInv, Recording
<1>5. IsFiniteSet(Recording') /\ Cardinality(Recording') = Cardinality(Recording) + 1
  BY <1>4, FS_AddElement DEF CountIInv
<1>6. Counted' = Counted
  BY <1>1 DEF Counted, Slots
<1>7. KeptLongEnough'
  BY <1>1 DEF CountIInv, KeptLongEnough, Slots
<1> QED BY <1>1, <1>5, <1>6, <1>7, Cardinals DEF CountIInv

(* It is counted when its record is executed, and lost when that fails.      *)
LEMMA FinishCounts ==
  ASSUME CountIInv, RequestIInv, MonitorTypeOK, NEW r \in Tasks, Finish(r) \/ FinishInMemory(r)
  PROVE  CountIInv'
<1>1. /\ request[r] \in Request /\ request[r].pc = "record" /\ forwarded \in Nat
      /\ request' = [request EXCEPT ![r] = AfterRecord(request[r])]
      /\ forwarded' = forwarded /\ clock' = clock
  BY RequestIsSound DEF Finish, FinishInMemory, Record, RecordFails
<1>2. AfterRecord(request[r]).pc = "done"
  BY <1>1 DEF AfterRecord, Responded, Request
<1>3. Recording' = Recording \ {r} /\ r \in Recording
  BY <1>1, <1>2 DEF RequestIInv, Recording
<1>4. IsFiniteSet(Recording') /\ Cardinality(Recording') = Cardinality(Recording) - 1
  BY <1>3, FS_RemoveElement DEF CountIInv
<1>5. CASE Execute(call[r]) /\ (faults' = 0 => faults = 0)
  BY <1>1, <1>4, <1>5, ExecuteCounts, Cardinals DEF CountIInv
<1>6. CASE UNCHANGED redis /\ faults' # 0
  <2>1. Counted' = Counted
    BY <1>6 DEF Counted, Slots, redis
  <2>2. KeptLongEnough'
    BY <1>6 DEF CountIInv, KeptLongEnough, Slots, redis
  <2> QED BY <1>1, <1>4, <1>6, <2>1, <2>2, Cardinals DEF CountIInv
<1>7. faults \in Nat
  BY DEF MonitorTypeOK
<1>8. CASE Finish(r)
  <2>1. Execute(call[r]) /\ faults' = faults
    BY <1>8 DEF Finish, Record
  <2> QED BY <1>5, <2>1
<1>9. CASE FinishInMemory(r)
  <2>1. faults' = faults + 1 /\ (Execute(call[r]) \/ UNCHANGED redis)
    BY <1>9 DEF FinishInMemory, RecordFails
  <2> QED BY <1>5, <1>6, <1>7, <2>1
<1> QED BY <1>8, <1>9

LEMMA RestartCounts ==
  ASSUME CountIInv, RequestIInv, MonitorTypeOK, NEW p \in Proxies, RestartProxy(p)
  PROVE  CountIInv'
<1>1. /\ UNCHANGED <<clock, req, expiry, forwarded>>
      /\ faults \in Nat /\ faults' = faults + 1
  BY DEF RestartProxy, LoseProxy, redis, MonitorTypeOK
<1>2. \A r \in Tasks : request'[r].pc = "record" => request[r].pc = "record"
  <2> SUFFICES ASSUME NEW r \in Tasks, request[r].pc # "record"
               PROVE  request'[r].pc # "record"
    OBVIOUS
  <2>1. Responded(request[r], "error").pc = "done"
    BY RequestIsSound DEF Responded, Request
  <2> QED BY <2>1 DEF RestartProxy
<1>3. Recording' \subseteq Recording
  BY <1>2 DEF Recording
<1> QED BY <1>1, <1>3, NothingCounted

(* Redis loses slots only when it restarts or they are old enough.           *)
LEMMA ElsewhereCounts ==
  ASSUME CountIInv, RequestIInv, MonitorTypeOK, Elsewhere
  PROVE  CountIInv'
<1>1. Recording' = Recording /\ forwarded' = forwarded /\ forwarded \in Nat
  BY DEF Elsewhere, Recording, RequestIInv
<1>2. /\ clock \in Nat /\ faults \in Nat /\ expiry \in [Slots -> Nat] /\ req \in [Slots -> Nat]
  BY MonitorAssumption DEF MonitorTypeOK
<1>3. CASE LoseRedis
  <2>1. Counted' = {}
    BY <1>3 DEF LoseRedis, Counted, Slots
  <2>2. KeptLongEnough'
    BY <1>3 DEF LoseRedis, KeptLongEnough, Slots
  <2>3. faults' # 0
    BY <1>2, <1>3 DEF LoseRedis
  <2>4. IsFiniteSet({}) /\ Cardinality({}) = 0
    BY FS_EmptySet
  <2> QED BY <1>1, <2>1, <2>2, <2>3, <2>4, Cardinals DEF CountIInv
<1>4. CASE Tick
  <2>1. /\ clock < MaxClock /\ clock' = clock + 1 /\ faults' = faults
        /\ req' = [w \in Slots |-> IF Due(w) THEN 0 ELSE req[w]]
        /\ expiry' = [w \in Slots |-> IF Due(w) THEN Forever ELSE expiry[w]]
    BY <1>4 DEF Tick
  <2>2. KeptLongEnough'
    BY <2>1 DEF CountIInv, KeptLongEnough, Slots
  <2>3. Counted' = UNION {{v} \X (1..req'[v]) : v \in Slots}
    BY DEF Counted, Slots
  <2>4. \A v \in Slots : 1..req'[v] \subseteq 1..req[v]
    BY <1>2, <2>1
  <2>5. Counted' \subseteq Counted
    BY <2>3, <2>4 DEF Counted
  <2>6. ASSUME clock' < Slot + Keep PROVE Counted' = Counted
    <3>1. \A w \in Slots : ~Due(w)
      BY <1>2, <2>1, <2>6, MonitorAssumption DEF CountIInv, KeptLongEnough, Due
    <3>2. \A w \in Slots : req'[w] = req[w]
      BY <2>1, <3>1
    <3> QED BY <2>3, <3>2 DEF Counted
  <2>7. IsFiniteSet(Counted') /\ Cardinality(Counted') <= Cardinality(Counted)
    BY <2>5, FS_Subset DEF CountIInv
  <2>8. Cardinality(Counted') \in Nat
    BY <2>7, FS_CardinalityType
  <2>9. clock < Slot + Keep \/ ~(clock' < Slot + Keep)
    BY <1>2, <2>1, MonitorAssumption
  <2> QED BY <1>1, <2>1, <2>2, <2>6, <2>7, <2>8, <2>9, Cardinals DEF CountIInv
<1> QED BY <1>3, <1>4 DEF Elsewhere

LEMMA CountNextPreserves == CountIInv /\ RequestIInv /\ MonitorTypeOK /\ [Next]_vars => CountIInv'
<1> SUFFICES ASSUME CountIInv, RequestIInv, MonitorTypeOK, [Next]_vars PROVE CountIInv'
  OBVIOUS
<1>1. faults \in Nat
  BY DEF MonitorTypeOK
<1>2. ASSUME UNCHANGED <<clock, req, expiry, forwarded>>, Recording' = Recording,
             faults' = faults \/ faults' = faults + 1
      PROVE  CountIInv'
  BY <1>1, <1>2, NothingCounted
<1>3. ASSUME NEW r \in Tasks, NEW p \in Proxies, Arrive(r, p) PROVE CountIInv'
  <2>1. Recording' = Recording
    BY <1>3, EvaluationCountsNothing
  <2> QED BY <1>2, <1>3, <2>1 DEF Arrive, monitorVars, redis
<1>4. ASSUME NEW r \in Tasks, Proceed(r) PROVE CountIInv'
  <2>1. CASE Suspended(r) \/ BodyFails(r)
    BY <1>2, <2>1, EvaluationCountsNothing DEF Suspended, BodyFails, monitorVars, redis
  <2>2. CASE AskLoad(r)
    BY <1>2, <2>2, EvaluationCountsNothing DEF AskLoad, BeginLoad, redis
  <2>3. CASE LoadRead(r)
    BY <1>2, <2>3, EvaluationCountsNothing DEF LoadRead, MgetLat, LoadFails, redis
  <2>4. CASE Limited(r)
    BY <1>2, <2>4, EvaluationCountsNothing DEF Limited, Use, redis
  <2>5. CASE ReadLoad(r)
    BY <1>2, <2>5 DEF ReadLoad, MgetReq, MgetErr, redis, Recording
  <2> QED BY <1>4, <2>1, <2>2, <2>3, <2>4, <2>5, BackendReturnsCounts, FinishCounts DEF Proceed
<1>5. CASE \E p \in Proxies : RestartProxy(p)
  BY <1>5, RestartCounts
<1>6. CASE Elsewhere
  BY <1>6, ElsewhereCounts
<1>7. CASE UNCHANGED vars
  BY <1>2, <1>7 DEF vars, monitorVars, redis, Recording
<1> QED BY <1>3, <1>4, <1>5, <1>6, <1>7 DEF Next

(* The slots count the forwarded requests, none of them twice, and all of    *)
(* them as long as no command failed and no slot was dropped.                *)
THEOREM CountsForwards == Spec => []LoadsCountForwards
<1>1. CountIInv /\ RequestIInv => LoadsCountForwards
  BY Cardinals DEF CountIInv, RequestIInv, LoadsCountForwards
<1> QED BY <1>1, CountInitHolds, CountNextPreserves, RequestInvariance, ImplementsMonitor,
           MonitorTypeCorrect, PTL DEF Spec

===============================================================================
