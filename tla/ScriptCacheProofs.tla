---------------------------- MODULE ScriptCacheProofs ----------------------------
(***************************************************************************)
(* Proofs about ScriptCache, for any proxies, scripts, calls and faults:   *)
(* it implements ScriptCall, and while commands succeed only a lost script *)
(* makes a call raise.                                                     *)
(***************************************************************************)
EXTENDS ScriptCache, TLAPS

(* A pending call has run nothing yet; one on the fast path has a SHA.       *)
PendingCalls ==
  \A r \in Tasks :
    call[r].pc # "idle" =>
      /\ call[r].ran = 0
      /\ call[r].outcome = "none"
      /\ call[r].pc = "evalsha" => call[r].script \in sha_cache[call[r].proxy]

(* A SHA that Redis does not know is one that it knew and lost.              *)
ShasWereKnown == \A p \in Proxies : sha_cache[p] \subseteq loaded \union lost[p]

IInv == TypeOK /\ PendingCalls /\ ShasWereKnown

-------------------------------------------------------------------------------

Pcs == {"idle", "evalsha", "eval"}

Outcomes == {"none", "result", "raised", "missing"}

(* What the three operators on calls change.                                 *)
LEMMA AtIsCall ==
  ASSUME NEW c \in Call, NEW pc \in Pcs
  PROVE  /\ At(c, pc) \in Call
         /\ At(c, pc).pc = pc /\ At(c, pc).proxy = c.proxy /\ At(c, pc).script = c.script
         /\ At(c, pc).ran = c.ran /\ At(c, pc).outcome = c.outcome
         /\ At(c, pc).disturbed = c.disturbed
BY DEF At, Call, Pcs

LEMMA EndedIsCall ==
  ASSUME NEW c \in Call, NEW outcome \in Outcomes
  PROVE  /\ Ended(c, outcome) \in Call
         /\ Ended(c, outcome).pc = "idle" /\ Ended(c, outcome).ran = c.ran
         /\ Ended(c, outcome).outcome = outcome /\ Ended(c, outcome).disturbed = c.disturbed
BY DEF Ended, Call, Outcomes

LEMMA RunIsCall ==
  ASSUME NEW c \in Call
  PROVE  /\ Run(c) \in Call
         /\ Run(c).pc = "idle" /\ Run(c).ran = c.ran + 1
         /\ Run(c).outcome = "result" /\ Run(c).disturbed = c.disturbed
<1> DEFINE d == [c EXCEPT !.ran = @ + 1]
<1>1. d \in Call /\ d.ran = c.ran + 1 /\ d.disturbed = c.disturbed
  BY DEF Call
<1> HIDE DEF d
<1>2. Run(c) = Ended(d, "result")
  BY DEF Run, d
<1> QED BY <1>1, <1>2, EndedIsCall DEF Outcomes

LEMMA InitHolds == Init => IInv
BY CacheAssumption DEF Init, IInv, TypeOK, Call, PendingCalls, ShasWereKnown

(* Scripts are only added, to Redis and to a proxy that starts, and no call  *)
(* takes part.                                                               *)
LEMMA LoadingPreserves ==
  ASSUME IInv, NEW p \in Proxies, NEW s \in Scripts,
         LoadScript(p, s) \/ LoadScriptFails(p, s)
  PROVE  IInv'
<1>1. TypeOK'
  BY CacheAssumption DEF IInv, TypeOK, LoadScript, LoadScriptFails, Keep
<1>2. /\ call' = call /\ lost' = lost /\ loaded \subseteq loaded'
      /\ \A q \in Proxies : sha_cache[q] \subseteq sha_cache'[q]
      /\ \A q \in Proxies : sha_cache'[q] \subseteq sha_cache[q] \union loaded'
  BY DEF IInv, TypeOK, LoadScript, LoadScriptFails, Keep
<1>3. \A r \in Tasks : call[r].proxy \in Proxies
  BY DEF IInv, TypeOK, Call
<1>4. ShasWereKnown'
  BY <1>2 DEF IInv, ShasWereKnown
<1> QED BY <1>1, <1>2, <1>3, <1>4 DEF IInv, PendingCalls

LEMMA BeginPreserves ==
  ASSUME IInv, NEW r \in Tasks, NEW p \in Proxies, NEW s \in Scripts, Begin(r, p, s)
  PROVE  IInv'
<1> DEFINE c == [pc |-> "idle", proxy |-> p, script |-> s, ran |-> 0, outcome |-> "none",
                 disturbed |-> FALSE]
<1>1. /\ \/ call'[r] = At(c, "evalsha") /\ s \in sha_cache[p]
         \/ call'[r] = At(c, "eval")
         \/ call'[r] = Ended(c, "missing")
      /\ \A q \in Tasks : q # r => call'[q] = call[q]
      /\ DOMAIN call' = Tasks
      /\ call' = [call EXCEPT ![r] = call'[r]]
      /\ UNCHANGED <<loaded, left, scripts, sha_cache, faults, lost>>
  BY DEF IInv, TypeOK, Begin, SlowPath
<1>2. /\ c \in Call /\ c.ran = 0 /\ c.outcome = "none" /\ c.disturbed = FALSE
      /\ c.script = s /\ c.proxy = p
  BY DEF Call
<1> HIDE DEF c
<1>3. /\ call'[r] \in Call
      /\ call'[r].pc # "idle" =>
           /\ call'[r].pc \in {"eval", "evalsha"}
           /\ call'[r].pc = "evalsha" => call'[r].script \in sha_cache[call'[r].proxy]
           /\ call'[r].ran = 0 /\ call'[r].outcome = "none"
  BY <1>1, <1>2, AtIsCall, EndedIsCall DEF Pcs, Outcomes
<1>4. TypeOK'
  BY <1>1, <1>3 DEF IInv, TypeOK
<1> QED BY <1>1, <1>3, <1>4 DEF IInv, PendingCalls, ShasWereKnown

(* What a call becomes when its command is answered.                         *)
LEMMA Answers ==
  ASSUME IInv, NEW r \in Tasks, Evalsha(r) \/ Eval(r)
  PROVE  /\ call[r] \in Call /\ call[r].pc # "idle"
         /\ call[r].ran = 0 /\ call[r].outcome = "none"
         /\ \A q \in Tasks : q # r => call'[q] = call[q]
         /\ loaded \subseteq loaded'
         /\ UNCHANGED <<left, scripts, sha_cache, faults, lost>>
         /\ \/ call'[r] = Run(call[r])
            \/ /\ call'[r] = Ended(call[r], "raised")
               /\ call[r].pc = "evalsha" /\ call[r].script \notin loaded
<1>1. call[r] \in Call /\ call[r].pc # "idle" /\ call[r].ran = 0 /\ call[r].outcome = "none"
  BY DEF IInv, TypeOK, PendingCalls, Evalsha, Eval
<1>2. /\ \A q \in Tasks : q # r => call'[q] = call[q]
      /\ loaded \subseteq loaded'
      /\ UNCHANGED <<left, scripts, sha_cache, faults, lost>>
  BY DEF IInv, TypeOK, Evalsha, Eval
<1>3. CASE Evalsha(r)
  BY <1>1, <1>2, <1>3 DEF IInv, TypeOK, Evalsha, Forgotten
<1>4. CASE Eval(r)
  BY <1>1, <1>2, <1>4 DEF IInv, TypeOK, Eval
<1> QED BY <1>3, <1>4

LEMMA AnswerPreserves ==
  ASSUME IInv, NEW r \in Tasks, Evalsha(r) \/ Eval(r)
  PROVE  IInv'
<1>1. /\ call[r] \in Call
      /\ \A q \in Tasks : q # r => call'[q] = call[q]
      /\ loaded \subseteq loaded'
      /\ UNCHANGED <<left, scripts, sha_cache, faults, lost>>
  BY Answers
<1>2. call'[r] \in Call /\ call'[r].pc = "idle"
  BY Answers, EndedIsCall, RunIsCall DEF Outcomes
<1>3. call' \in [Tasks -> Call]
  BY <1>1, <1>2 DEF IInv, TypeOK, Evalsha, Eval
<1>4. loaded' \subseteq Scripts
  BY <1>1 DEF IInv, TypeOK, Call, Evalsha, Eval
<1>5. TypeOK'
  BY <1>1, <1>3, <1>4 DEF IInv, TypeOK
<1>6. PendingCalls'
  BY <1>1, <1>2 DEF IInv, PendingCalls
<1>7. ShasWereKnown'
  BY <1>1 DEF IInv, ShasWereKnown
<1> QED BY <1>5, <1>6, <1>7 DEF IInv

LEMMA FailurePreserves ==
  ASSUME IInv, NEW r \in Tasks, CallFails(r)
  PROVE  IInv'
<1> DEFINE c == [call[r] EXCEPT !.disturbed = TRUE]
           d == [c EXCEPT !.ran = @ + 1]
<1>1. /\ c \in Call /\ c.disturbed /\ c.script \in Scripts
      /\ d \in Call /\ d.disturbed
  <2>1. call[r] \in Call
    BY DEF IInv, TypeOK
  <2>2. c \in Call /\ c.disturbed = TRUE
    BY <2>1 DEF Call
  <2> HIDE DEF c
  <2>3. d \in Call /\ d.disturbed = c.disturbed
    BY <2>2 DEF Call
  <2> QED BY <2>2, <2>3 DEF Call
<1>2. /\ loaded \subseteq loaded' /\ loaded' \subseteq loaded \union {c.script}
      /\ UNCHANGED <<left, scripts, sha_cache, lost>>
      /\ faults' = faults + 1 /\ faults < MaxFaults
      /\ \/ call' = [call EXCEPT ![r] = Raised(c)]
         \/ call' = [call EXCEPT ![r] = Raised(IF Runs(c) THEN d ELSE c)]
  BY DEF CallFails
<1> HIDE DEF c, d
<1>3. /\ call'[r] = Ended(c, "raised") \/ call'[r] = Ended(d, "raised")
      /\ \A q \in Tasks : q # r => call'[q] = call[q]
      /\ call' = [call EXCEPT ![r] = call'[r]]
  BY <1>2 DEF IInv, TypeOK, Raised
<1>4. call'[r] \in Call /\ call'[r].pc = "idle"
  BY <1>1, <1>3, EndedIsCall DEF Outcomes
<1>5. TypeOK'
  BY <1>1, <1>2, <1>4, <1>3, CacheAssumption DEF IInv, TypeOK
<1>6. ShasWereKnown'
  BY <1>2 DEF IInv, ShasWereKnown
<1> QED BY <1>2, <1>3, <1>4, <1>5, <1>6 DEF IInv, PendingCalls

(* After a restart a proxy has no SHAs, and no calls that need one.          *)
LEMMA RestartPreserves ==
  ASSUME IInv, LoseScripts \/ \E p \in Proxies : RestartProxy(p)
  PROVE  IInv'
<1>1. CASE LoseScripts
  <2>1. \A r \in Tasks :
          /\ call'[r] = [call[r] EXCEPT !.disturbed = call[r].disturbed \/ call[r].pc # "idle"]
          /\ call[r] \in Call
    BY <1>1 DEF IInv, TypeOK, LoseScripts
  <2>2. \A r \in Tasks :
          /\ call'[r] \in Call
          /\ call'[r].pc = call[r].pc /\ call'[r].ran = call[r].ran
          /\ call'[r].outcome = call[r].outcome
          /\ call'[r].proxy = call[r].proxy /\ call'[r].script = call[r].script
    <3> SUFFICES ASSUME NEW r \in Tasks PROVE
          /\ call'[r] \in Call
          /\ call'[r].pc = call[r].pc /\ call'[r].ran = call[r].ran
          /\ call'[r].outcome = call[r].outcome
          /\ call'[r].proxy = call[r].proxy /\ call'[r].script = call[r].script
      OBVIOUS
    <3> DEFINE disturbed == call[r].disturbed \/ call[r].pc # "idle"
    <3>1. disturbed \in BOOLEAN /\ call'[r] = [call[r] EXCEPT !.disturbed = disturbed]
      BY <2>1 DEF Call
    <3> HIDE DEF disturbed
    <3>2. /\ call'[r] \in Call
          /\ call'[r].pc = call[r].pc /\ call'[r].ran = call[r].ran
          /\ call'[r].outcome = call[r].outcome
          /\ call'[r].proxy = call[r].proxy /\ call'[r].script = call[r].script
      BY <2>1, <3>1 DEF Call
    <3> QED BY <3>2
  <2>3. TypeOK'
    <3>1. call' \in [Tasks -> Call]
      BY <1>1, <2>2 DEF LoseScripts
    <3> QED BY <1>1, <3>1, CacheAssumption DEF IInv, TypeOK, LoseScripts
  <2>4. sha_cache' = sha_cache /\ \A p \in Proxies : lost'[p] = lost[p] \union sha_cache[p]
    BY <1>1 DEF LoseScripts
  <2>5. ShasWereKnown'
    BY <2>4 DEF ShasWereKnown
  <2> QED BY <2>2, <2>3, <2>4, <2>5 DEF IInv, PendingCalls
<1>2. CASE \E p \in Proxies : RestartProxy(p)
  <2> PICK p \in Proxies : RestartProxy(p)
    BY <1>2
  <2> DEFINE Stopped(r) == [call[r] EXCEPT !.disturbed = TRUE]
  <2>1. \A r \in Tasks : call[r] \in Call /\ Stopped(r) \in Call
    BY DEF IInv, TypeOK, Call
  <2>2. /\ \A r \in Tasks : call'[r] = call[r] \/ call'[r] = Ended(Stopped(r), "raised")
        /\ call' = [r \in Tasks |-> call'[r]]
    BY DEF RestartProxy
  <2> HIDE DEF Stopped
  <2>3. \A r \in Tasks :
          \/ call'[r] = call[r]
          \/ call'[r] \in Call /\ call'[r].pc = "idle"
    BY <2>1, <2>2, EndedIsCall DEF Outcomes
  <2>4. TypeOK'
    BY <2>1, <2>2, <2>3, CacheAssumption DEF IInv, TypeOK, RestartProxy
  <2>5. /\ loaded' = loaded
        /\ sha_cache'[p] = {}
        /\ \A q \in Proxies : q # p => sha_cache'[q] = sha_cache[q] /\ lost'[q] = lost[q]
    BY DEF IInv, TypeOK, RestartProxy
  <2>7. \A r \in Tasks :
          call'[r].pc # "idle" => call'[r] = call[r] /\ call[r].proxy # p
    <3> SUFFICES ASSUME NEW r \in Tasks, call'[r].pc # "idle"
                 PROVE  call'[r] = call[r] /\ call[r].proxy # p
      OBVIOUS
    <3>1. CASE call[r].proxy = p /\ call[r].pc # "idle"
      <4>1. call'[r] = Ended(Stopped(r), "raised")
        BY <3>1 DEF RestartProxy, Stopped
      <4> QED BY <4>1, <2>1, EndedIsCall DEF Outcomes
    <3>2. CASE ~(call[r].proxy = p /\ call[r].pc # "idle")
      BY <3>2, <2>2 DEF RestartProxy
    <3> QED BY <3>1, <3>2
  <2>6. \A r \in Tasks : call[r].proxy \in Proxies
    BY DEF IInv, TypeOK, Call
  <2>8. ShasWereKnown'
    BY <2>5 DEF IInv, ShasWereKnown
  <2> QED BY <2>4, <2>5, <2>6, <2>7, <2>8 DEF IInv, PendingCalls
<1> QED BY <1>1, <1>2

-------------------------------------------------------------------------------

LEMMA NextPreserves == IInv /\ [Next]_vars => IInv'
<1> SUFFICES ASSUME IInv, [Next]_vars PROVE IInv'
  OBVIOUS
<1>1. CASE UNCHANGED vars
  BY <1>1 DEF IInv, TypeOK, PendingCalls, ShasWereKnown, vars
<1> QED BY <1>1, LoadingPreserves, BeginPreserves, AnswerPreserves, FailurePreserves,
           RestartPreserves DEF Next, Proceed

(* The invariant holds throughout.                                           *)
LEMMA Inductive == Spec => []IInv
BY InitHolds, NextPreserves, PTL DEF Spec

(* The variables keep their types, and a proxy has the text of every script  *)
(* whose SHA it knows.                                                       *)
THEOREM TypeCorrect == Spec => []TypeOK
BY Inductive, PTL DEF IInv

(* While its commands do not fail, a call of however many raises only for a  *)
(* script that its proxy registered and Redis has lost since: the SHAs of a  *)
(* proxy are those of SCRIPT LOADs that were answered (redis_client.py:67),  *)
(* and nothing is raised on the slow path.                                   *)
THEOREM OnlyLostScriptsRaise == Spec => RaisesHaveCause
<1> DEFINE Caused(r) ==
      call[r].pc # "idle" /\ call'[r].outcome = "raised" /\ faults' = faults =>
        call[r].pc = "evalsha" /\ call[r].script \in lost[call[r].proxy]
<1>1. IInv /\ [Next]_vars => [\A r \in Tasks : Caused(r)]_vars
  <2> SUFFICES ASSUME IInv, Next, NEW r \in Tasks, call[r].pc # "idle",
                      call'[r].outcome = "raised", faults' = faults
               PROVE  call[r].pc = "evalsha" /\ call[r].script \in lost[call[r].proxy]
    OBVIOUS
  <2>1. /\ call[r] \in Call /\ call[r].proxy \in Proxies /\ call[r].outcome = "none"
        /\ call \in [Tasks -> Call] /\ faults \in Nat
    BY CacheAssumption DEF IInv, TypeOK, PendingCalls, Call
  <2>2. faults' # faults + 1
    BY <2>1
  <2>3. ASSUME NEW q \in Tasks, Evalsha(q) \/ Eval(q) PROVE q = r
    BY <2>1, <2>3, Answers
  <2>4. ASSUME NEW q \in Tasks, NEW p \in Proxies, NEW s \in Scripts, Begin(q, p, s)
        PROVE  FALSE
    BY <2>1, <2>4 DEF Begin
  <2>5. ASSUME NEW p \in Proxies, NEW s \in Scripts, LoadScript(p, s) PROVE FALSE
    BY <2>1, <2>5 DEF LoadScript
  <2>6. Evalsha(r) \/ Eval(r)
    BY <2>2, <2>3, <2>4, <2>5
       DEF Next, Proceed, LoadScriptFails, CallFails, RestartProxy, LoseScripts
  <2>7. call[r].pc = "evalsha" /\ call[r].script \notin loaded
    BY <2>1, <2>6, Answers, RunIsCall
  <2>8. call[r].script \in sha_cache[call[r].proxy]
    BY <2>7 DEF IInv, PendingCalls
  <2> QED BY <2>1, <2>7, <2>8 DEF IInv, ShasWereKnown
<1> HIDE DEF Caused
<1>2. Spec => [][\A r \in Tasks : Caused(r)]_vars
  BY <1>1, Inductive, PTL DEF Spec
<1> QED BY <1>2 DEF RaisesHaveCause, Caused

-------------------------------------------------------------------------------
(***************************************************************************)
(* The refinement.                                                         *)
(***************************************************************************)

(* A call as ScriptCall sees it.                                             *)
View(c) ==
  [phase |-> IF c.pc = "idle" THEN "idle" ELSE "pending", ran |-> c.ran, outcome |-> c.outcome]

LEMMA AbstractIsView ==
  /\ Abstract = [r \in Tasks |-> View(call[r])]
  /\ Abstract' = [r \in Tasks |-> View(call'[r])]
BY DEF Abstract, View

(* A step that changes one call, by what it does to it.                      *)
LEMMA StepsAreSteps ==
  ASSUME NEW r \in Tasks,
         \A q \in Tasks : q # r => call'[q] = call[q],
         \/ /\ call[r].pc = "idle"
            /\ View(call'[r]) \in {[phase |-> "pending", ran |-> 0, outcome |-> "none"],
                                  [phase |-> "idle", ran |-> 0, outcome |-> "missing"]}
         \/ View(call'[r]) = View(call[r])
         \/ /\ call[r].pc # "idle"
            /\ View(call'[r]) \in {[phase |-> "idle", ran |-> 0, outcome |-> "raised"],
                                  [phase |-> "idle", ran |-> 1, outcome |-> "raised"],
                                  [phase |-> "idle", ran |-> 1, outcome |-> "result"]}
  PROVE  [Promise!Next]_Abstract
<1>1. /\ Abstract' = [Abstract EXCEPT ![r] = View(call'[r])]
      /\ Abstract[r] = View(call[r])
  BY AbstractIsView
<1>2. /\ call[r].pc = "idle" => View(call[r]).phase = "idle"
      /\ call[r].pc # "idle" => View(call[r]).phase = "pending"
  BY DEF View
<1>3. CASE /\ call[r].pc = "idle"
           /\ View(call'[r]) = [phase |-> "pending", ran |-> 0, outcome |-> "none"]
  BY <1>1, <1>2, <1>3 DEF Promise!Next, Promise!Begin
<1>4. CASE /\ call[r].pc = "idle"
           /\ View(call'[r]) = [phase |-> "idle", ran |-> 0, outcome |-> "missing"]
  BY <1>1, <1>2, <1>4 DEF Promise!Next, Promise!Missing
<1>5. CASE View(call'[r]) = View(call[r])
  <2>1. \A q \in Tasks : View(call'[q]) = View(call[q])
    BY <1>5
  <2>2. Abstract' = Abstract
    BY <2>1, AbstractIsView
  <2> QED BY <2>2
<1>6. CASE /\ call[r].pc # "idle"
           /\ View(call'[r]) = [phase |-> "idle", ran |-> 1, outcome |-> "result"]
  BY <1>1, <1>2, <1>6 DEF Promise!Next, Promise!Return
<1>7. ASSUME NEW n \in 0..1, call[r].pc # "idle",
             View(call'[r]) = [phase |-> "idle", ran |-> n, outcome |-> "raised"]
      PROVE  [Promise!Next]_Abstract
  <2> DEFINE ran == [q \in Tasks |-> n]
  <2>1. ran \in [Tasks -> 0..1]
    OBVIOUS
  <2>2. Abstract' = [q \in Tasks |->
                       IF q \in {r} /\ Abstract[q].phase = "pending"
                       THEN [phase |-> "idle", ran |-> ran[q], outcome |-> "raised"]
                       ELSE Abstract[q]]
    BY <1>1, <1>2, <1>7, AbstractIsView
  <2> HIDE DEF ran
  <2>3. Promise!Raise({r})
    BY <2>1, <2>2 DEF Promise!Raise
  <2> QED BY <2>3 DEF Promise!Next
<1>8. 0 \in 0..1 /\ 1 \in 0..1
  OBVIOUS
<1> QED BY <1>3, <1>4, <1>5, <1>6, <1>7, <1>8


(* Calls that raise together, and the others keep what ScriptCall sees.      *)
LEMMA RestartIsRaise ==
  ASSUME NEW p \in Proxies, IInv, RestartProxy(p)
  PROVE  [Promise!Next]_Abstract
<1> DEFINE stopped == {r \in Tasks : call[r].proxy = p /\ call[r].pc # "idle"}
           raised == [phase |-> "idle", ran |-> 0, outcome |-> "raised"]
           none == [r \in Tasks |-> 0]
<1>1. \A r \in Tasks :
        /\ r \in stopped => View(call'[r]) = raised /\ View(call[r]).phase = "pending"
        /\ r \notin stopped => call'[r] = call[r]
  <2> SUFFICES ASSUME NEW r \in Tasks
               PROVE  /\ r \in stopped => View(call'[r]) = raised /\ View(call[r]).phase = "pending"
                      /\ r \notin stopped => call'[r] = call[r]
    OBVIOUS
  <2>1. CASE r \notin stopped
    BY <2>1 DEF RestartProxy
  <2>2. CASE r \in stopped
    <3> DEFINE d == [call[r] EXCEPT !.disturbed = TRUE]
    <3>1. /\ call'[r] = Ended(d, "raised")
          /\ call[r] \in Call /\ call[r].ran = 0
      BY <2>2 DEF RestartProxy, IInv, TypeOK, PendingCalls
    <3>2. d \in Call /\ d.ran = 0
      BY <3>1 DEF Call
    <3> HIDE DEF d
    <3>3. call'[r].pc = "idle" /\ call'[r].ran = 0 /\ call'[r].outcome = "raised"
      BY <3>1, <3>2, EndedIsCall DEF Outcomes
    <3> QED BY <2>2, <3>3 DEF View
  <2> QED BY <2>1, <2>2
<1>2. none \in [Tasks -> 0..1]
  OBVIOUS
<1>3. Abstract' = [r \in Tasks |-> IF r \in stopped /\ Abstract[r].phase = "pending"
                                   THEN [phase |-> "idle", ran |-> none[r], outcome |-> "raised"]
                                   ELSE Abstract[r]]
  <2>1. \A r \in Tasks :
          View(call'[r]) = IF r \in stopped /\ View(call[r]).phase = "pending"
                           THEN raised ELSE View(call[r])
    BY <1>1
  <2> HIDE DEF stopped
  <2> QED BY <2>1, AbstractIsView
<1>4. stopped \in SUBSET Tasks
  OBVIOUS
<1> HIDE DEF stopped, none
<1>5. Promise!Raise(stopped)
  BY <1>2, <1>3 DEF Promise!Raise
<1> QED BY <1>4, <1>5 DEF Promise!Next

LEMMA NextIsNext == IInv /\ [Next]_vars => [Promise!Next]_Abstract
<1> SUFFICES ASSUME IInv, [Next]_vars PROVE [Promise!Next]_Abstract
  OBVIOUS
<1>1. CASE call' = call
  BY <1>1, AbstractIsView
<1>2. ASSUME NEW r \in Tasks, NEW p \in Proxies, NEW s \in Scripts, Begin(r, p, s)
      PROVE  [Promise!Next]_Abstract
  <2> DEFINE c == [pc |-> "idle", proxy |-> p, script |-> s, ran |-> 0, outcome |-> "none",
                   disturbed |-> FALSE]
  <2>1. /\ call'[r] = At(c, "evalsha") \/ call'[r] = At(c, "eval") \/ call'[r] = Ended(c, "missing")
        /\ \A q \in Tasks : q # r => call'[q] = call[q]
        /\ call[r].pc = "idle"
    BY <1>2 DEF IInv, TypeOK, Begin, SlowPath
  <2>2. c \in Call /\ c.ran = 0 /\ c.outcome = "none"
    BY DEF Call
  <2> HIDE DEF c
  <2>3. \/ View(call'[r]) = [phase |-> "pending", ran |-> 0, outcome |-> "none"]
        \/ View(call'[r]) = [phase |-> "idle", ran |-> 0, outcome |-> "missing"]
    BY <2>1, <2>2, AtIsCall, EndedIsCall DEF View, Pcs, Outcomes
  <2> QED BY <2>1, <2>3, StepsAreSteps
<1>3. ASSUME NEW r \in Tasks, Evalsha(r) \/ Eval(r)
      PROVE  [Promise!Next]_Abstract
  <2>1. \/ View(call'[r]) = [phase |-> "idle", ran |-> 1, outcome |-> "result"]
        \/ View(call'[r]) = [phase |-> "idle", ran |-> 0, outcome |-> "raised"]
    BY <1>3, Answers, EndedIsCall, RunIsCall DEF View, Outcomes
  <2> QED BY <1>3, <2>1, Answers, StepsAreSteps
<1>4. ASSUME NEW r \in Tasks, CallFails(r)
      PROVE  [Promise!Next]_Abstract
  <2> DEFINE c == [call[r] EXCEPT !.disturbed = TRUE]
             d == [c EXCEPT !.ran = @ + 1]
  <2>1. /\ call[r] \in Call /\ call[r].ran = 0 /\ call[r].pc # "idle"
        /\ \A q \in Tasks : q # r => call'[q] = call[q]
        /\ \/ call'[r] = Raised(c)
           \/ call'[r] = Raised(IF Runs(c) THEN d ELSE c)
    BY <1>4 DEF IInv, TypeOK, PendingCalls, CallFails
  <2>2. c \in Call /\ c.ran = 0
    BY <2>1 DEF Call
  <2> HIDE DEF c
  <2>3. d \in Call /\ d.ran = 1
    BY <2>2 DEF Call
  <2> HIDE DEF d
  <2>4. call'[r] = Ended(c, "raised") \/ call'[r] = Ended(d, "raised")
    BY <2>1 DEF Raised
  <2>5. \/ View(call'[r]) = [phase |-> "idle", ran |-> 0, outcome |-> "raised"]
        \/ View(call'[r]) = [phase |-> "idle", ran |-> 1, outcome |-> "raised"]
    BY <2>2, <2>3, <2>4, EndedIsCall DEF View, Outcomes
  <2> QED BY <2>1, <2>5, StepsAreSteps
<1>5. CASE LoseScripts
  <2>1. \A r \in Tasks : View(call'[r]) = View(call[r])
    BY <1>5 DEF IInv, TypeOK, LoseScripts, View, Call
  <2> QED BY <2>1, AbstractIsView
<1>6. \/ call' = call
      \/ \E r \in Tasks, p \in Proxies, s \in Scripts : Begin(r, p, s)
      \/ \E r \in Tasks : Evalsha(r) \/ Eval(r) \/ CallFails(r)
      \/ \E p \in Proxies : RestartProxy(p)
      \/ LoseScripts
  BY DEF Next, Proceed, vars, LoadScript, LoadScriptFails
<1> QED BY <1>1, <1>2, <1>3, <1>4, <1>5, <1>6, RestartIsRaise

LEMMA InitIsInit == Init => Promise!Init
BY DEF Init, Promise!Init, Abstract

(* RedisClient implements ScriptCall: lost scripts, lost replies and         *)
(* restarts included, a script runs at most once for a call, exactly once if *)
(* a result is returned, and not at all if None is.                          *)
THEOREM KeepsPromise == Spec => CallsKeepPromise
<1>1. Spec => Promise!Spec
  BY InitIsInit, Inductive, NextIsNext, PTL DEF Spec, Promise!Spec
<1> QED BY <1>1 DEF CallsKeepPromise

===============================================================================
