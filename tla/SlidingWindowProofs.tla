-------------------------- MODULE SlidingWindowProofs --------------------------
(***************************************************************************)
(* Proofs about SlidingWindow: the bounds on admissions and the accuracy   *)
(* of the estimate, for any window length, any limits and any number of    *)
(* proxies, calls and faults.                                              *)
(***************************************************************************)
EXTENDS SlidingWindow, TLAPS

(* Calls in flight are punctual, and none is ahead of the clock. *)
CallsPunctual ==
  \A r \in Tasks :
    /\ task[r].now <= clock
    /\ task[r].pc # "idle" => clock <= task[r].now + MaxDelay

(* The counters c are those of the admissions of store m, or gone once no    *)
(* punctual call can read them.                                              *)
Matches(c, m) ==
  \A w \in Windows :
    \/ c[w] = Admitted(m, w)
    \/ (c[w] = 0 /\ clock >= (w + 2) * Window)

CountersMatch == \A m \in Stores : Matches(count[m], m)

(* Redis keeps a counter until no punctual call can read it. *)
KeptLongEnough ==
  \A w \in Windows : count[Redis][w] # 0 => expiry[w] >= (w + 2) * Window

(* A span is covered by two windows (by one, at the end of time). *)
Covered(m, s) ==
  LET w == WindowOf(s)
  IN  admitted[m][s] <= Admitted(m, w) + (IF w + 1 \in Windows THEN Admitted(m, w + 1) ELSE 0)

SpansCovered == \A m \in Stores, s \in Starts : Covered(m, s)

IInv ==
  /\ TypeOK
  /\ CallsPunctual
  /\ CountersMatch
  /\ KeptLongEnough
  /\ WindowsWithinLimit
  /\ SpansCovered

-------------------------------------------------------------------------------
(***************************************************************************)
(* Arithmetic of windows.                                                  *)
(***************************************************************************)

LEMMA Products ==
  ASSUME NEW a \in Nat, NEW b \in Nat, NEW c \in Nat
  PROVE  /\ a * c \in Nat
         /\ a <= b => a * c <= b * c
         /\ a <= b => c * a <= c * b
<1>1. a * c \in Nat
  OBVIOUS
<1>2. ASSUME a <= b PROVE a * c <= b * c /\ c * a <= c * b
  <2>1. PICK d \in Nat : b = a + d
    <3>1. b - a \in Nat /\ b = a + (b - a)
      BY <1>2
    <3> QED BY <3>1
  <2>2. b * c = a * c + d * c /\ c * b = c * a + c * d
    BY <2>1
  <2>3. d * c \in Nat /\ c * d \in Nat
    OBVIOUS
  <2> QED BY <2>2, <2>3, <1>1
<1> QED BY <1>1, <1>2

(* A time lies in its window, Into(t) units after the start of it. *)
LEMMA Division ==
  ASSUME NEW t \in Nat
  PROVE  /\ WindowOf(t) \in Nat
         /\ WindowOf(t) * Window <= t
         /\ t < WindowOf(t) * Window + Window
         /\ Into(t) = t - WindowOf(t) * Window
<1> DEFINE q == t \div Window
<1>1. Window \in Nat /\ Window > 0
  BY SlidingAssumption
<1>2. q \in Int /\ Window * q <= t /\ t < Window * q + Window
  BY <1>1
<1>3. t % Window = t - Window * q
  BY <1>1
<1> HIDE DEF q
<1>4. q >= 0
  <2>1. CASE q < 0
    <3>1. -(q + 1) \in Nat
      BY <1>2, <2>1
    <3>2. Window * q + Window = -(Window * (-(q + 1)))
      BY <1>1, <1>2
    <3>3. Window * (-(q + 1)) \in Nat
      BY <1>1, <3>1
    <3> QED BY <1>2, <3>2, <3>3
  <2> QED BY <1>2, <2>1
<1>5. Window * q = q * Window
  BY <1>1, <1>2
<1> QED BY <1>1, <1>2, <1>3, <1>4, <1>5 DEF q, WindowOf, Into

(* No other window contains it. *)
LEMMA OneWindow ==
  ASSUME NEW t \in Nat, NEW v \in Int, v * Window <= t, t < v * Window + Window
  PROVE  v = WindowOf(t)
<1> DEFINE w == WindowOf(t)
<1>1. /\ w \in Nat /\ w * Window <= t /\ t < w * Window + Window
      /\ Window \in Nat /\ Window > 0
  BY Division, SlidingAssumption
<1> HIDE DEF w
<1>2. CASE v < w
  <2>1. PICK d \in Nat : w = v + 1 + d
    <3>1. w - v - 1 \in Nat /\ w = v + 1 + (w - v - 1)
      BY <1>1, <1>2
    <3> QED BY <3>1
  <2>2. w * Window = v * Window + Window + d * Window
    BY <1>1, <2>1
  <2>3. d * Window \in Nat
    BY <1>1
  <2> QED BY <1>1, <2>2, <2>3
<1>3. CASE w < v
  <2>1. PICK d \in Nat : v = w + 1 + d
    <3>1. v - w - 1 \in Nat /\ v = w + 1 + (v - w - 1)
      BY <1>1, <1>3
    <3> QED BY <3>1
  <2>2. v * Window = w * Window + Window + d * Window
    BY <1>1, <2>1
  <2>3. d * Window \in Nat
    BY <1>1
  <2> QED BY <1>1, <2>2, <2>3
<1> QED BY <1>1, <1>2, <1>3 DEF w

(* A stretch of Window instants meets two windows at most. *)
LEMMA TwoWindows ==
  ASSUME NEW s \in Nat, NEW t \in Nat, s <= t, t < s + Window
  PROVE  WindowOf(t) \in {WindowOf(s), WindowOf(s) + 1}
<1> DEFINE w == WindowOf(s)
<1>1. /\ w \in Nat /\ w * Window <= s /\ s < w * Window + Window
      /\ Window \in Nat /\ Window > 0
  BY Division, SlidingAssumption
<1>2. (w + 1) * Window = w * Window + Window
  BY <1>1
<1> HIDE DEF w
<1>3. CASE t < w * Window + Window
  <2>1. w = WindowOf(t)
    BY <1>1, <1>3, OneWindow
  <2> QED BY <2>1 DEF w
<1>4. CASE t >= w * Window + Window
  <2>1. (w + 1) * Window <= t /\ t < (w + 1) * Window + Window
    BY <1>1, <1>2, <1>4
  <2>2. w + 1 = WindowOf(t)
    BY <1>1, <2>1, OneWindow
  <2> QED BY <2>2 DEF w
<1>5. w * Window \in Int
  BY <1>1
<1> QED BY <1>1, <1>3, <1>4, <1>5

(* Every window but the first starts at an instant of the history. *)
LEMMA WindowStarts ==
  ASSUME NEW w \in Windows
  PROVE  w \in Int /\ (w = -1 \/ (w \in Nat /\ w * Window \in Starts))
<1> DEFINE last == WindowOf(MaxClock + Window)
<1>1. /\ MaxClock + Window \in Nat /\ last \in Nat /\ Window \in Nat
      /\ last * Window <= MaxClock + Window
  BY Division, SlidingAssumption
<1>2. w \in -1..last
  BY DEF Windows
<1> HIDE DEF last
<1>3. CASE w >= 0
  <2>1. w \in Nat /\ w * Window \in Nat /\ w * Window <= last * Window
    BY <1>1, <1>2, <1>3, Products
  <2>2. last * Window \in Nat
    BY <1>1, Products
  <2> QED BY <1>1, <2>1, <2>2 DEF Starts
<1> QED BY <1>1, <1>2, <1>3

LEMMA WindowOfStart ==
  ASSUME NEW s \in Starts
  PROVE  /\ s \in Nat
         /\ WindowOf(s) \in Nat /\ WindowOf(s) \in Windows
         /\ WindowOf(s) - 1 \in Windows
<1> DEFINE last == WindowOf(MaxClock + Window)
           w    == WindowOf(s)
<1>1. /\ MaxClock + Window \in Nat /\ last \in Nat /\ Window \in Nat
      /\ MaxClock + Window < last * Window + Window
  BY Division, SlidingAssumption
<1>2. s \in Nat /\ s <= MaxClock + Window
  BY <1>1 DEF Starts
<1>3. w \in Nat /\ w * Window <= s
  BY <1>2, Division
<1>4. Windows = -1..last
  BY DEF Windows
<1> HIDE DEF last, w
<1>5. CASE w > last
  <2>1. (last + 1) * Window <= w * Window
    BY <1>1, <1>3, <1>5, Products
  <2>2. (last + 1) * Window = last * Window + Window
    BY <1>1
  <2>3. last * Window \in Nat /\ w * Window \in Nat
    BY <1>1, <1>3, Products
  <2> QED BY <1>1, <1>2, <1>3, <2>1, <2>2, <2>3
<1> QED BY <1>1, <1>2, <1>3, <1>4, <1>5 DEF w

LEMMA AdmittedTyped ==
  ASSUME TypeOK, NEW m \in Stores, NEW w \in Windows
  PROVE  Admitted(m, w) \in Nat
BY WindowStarts DEF TypeOK, Admitted

(* A call in flight: its window is there, and so is the one before. *)
LEMMA CallFacts ==
  ASSUME IInv, NEW r \in Tasks, NEW now, now = task[r].now, NEW w, w = WindowOf(now)
  PROVE  /\ now \in Nat /\ now \in Starts /\ now <= clock /\ clock \in Nat
         /\ w \in Nat /\ w \in Windows /\ w - 1 \in Windows
         /\ task[r].limit \in Nat /\ task[r].limit <= MaxLimit
         /\ task[r].limit \in Limits
         /\ task[r].proxy \in Stores /\ task[r].proxy \in Proxies
         /\ task[r].pc # "idle" => clock < (w + 2) * Window
         /\ task[r].pc # "idle" => clock <= now + MaxDelay
<1>1. /\ now \in Nat /\ now <= clock /\ clock \in 0..MaxClock
      /\ task[r].proxy \in Proxies /\ task[r].limit \in Limits
      /\ task[r].pc # "idle" => clock <= now + MaxDelay
  BY DEF IInv, TypeOK, CallsPunctual, Call
<1>2. now \in Starts
  BY <1>1, SlidingAssumption DEF Starts
<1>3. w \in Nat /\ w \in Windows /\ w - 1 \in Windows
  BY <1>2, WindowOfStart
<1>4. now < w * Window + Window
  BY <1>1, Division
<1>5. (w + 2) * Window = w * Window + Window + Window
  BY <1>3, SlidingAssumption
<1>6. w * Window \in Nat
  BY <1>3, Products, SlidingAssumption
<1>7. task[r].pc # "idle" => clock < (w + 2) * Window
  BY <1>1, <1>4, <1>5, <1>6, SlidingAssumption, DelayAssumption
<1>8. task[r].limit \in Nat /\ task[r].limit <= MaxLimit
  <2>1. task[r].limit \in 0..MaxLimit /\ MaxLimit \in Nat
    BY <1>1, SlidingAssumption, Zenon
  <2> QED BY <2>1
<1> QED BY <1>1, <1>2, <1>3, <1>7, <1>8, SlidingAssumption DEF Stores

(* The counter of a punctual call's own window is there. *)
LEMMA OwnCounter ==
  ASSUME IInv, NEW r \in Tasks, task[r].pc # "idle", NEW m \in Stores, NEW c, Matches(c, m)
  PROVE  c[WindowOf(task[r].now)] = Admitted(m, WindowOf(task[r].now))
BY CallFacts, SlidingAssumption DEF Matches

-------------------------------------------------------------------------------
(***************************************************************************)
(* One decision.                                                           *)
(***************************************************************************)

(* A request that fits leaves its window within the base limit. *)
LEMMA FitsWithinLimit ==
  ASSUME IInv, NEW r \in Tasks, NEW a \in Nat, NEW b \in Nat, Fits(a, b, task[r])
  PROVE  (b + 1) * Window <= MaxLimit
<1> DEFINE now == task[r].now
<1>1. now \in Nat /\ task[r].limit \in Nat /\ task[r].limit <= MaxLimit
  BY CallFacts
<1>2. Window - Into(now) \in Nat
  <2>1. /\ Into(now) = now - WindowOf(now) * Window /\ now < WindowOf(now) * Window + Window
        /\ WindowOf(now) \in Nat /\ WindowOf(now) * Window <= now
    BY <1>1, Division
  <2>2. WindowOf(now) * Window \in Nat
    BY <2>1, Products, SlidingAssumption
  <2> QED BY <1>1, <2>1, <2>2, SlidingAssumption
<1>3. a * (Window - Into(now)) \in Nat
  BY <1>2, Products
<1>4. (b + 1) * Window \in Nat
  BY Products, SlidingAssumption
<1>5. a * (Window - Into(now)) + (b + 1) * Window <= task[r].limit
  BY DEF Fits, Estimate
<1> QED BY <1>1, <1>3, <1>4, <1>5, SlidingAssumption

(* What a decision of store m does to the admissions: the windows and spans  *)
(* that contain the time of the call gain the request, if it fits.           *)
LEMMA DecisionIsCounted ==
  ASSUME IInv, NEW r \in Tasks, NEW m \in Stores, NEW c,
         Decide(m, c, task[r])
  PROVE  LET now  == task[r].now
             w    == WindowOf(now)
             fits == Fits(c[w - 1], c[w], task[r])
         IN  /\ admitted' \in [Stores -> [Starts -> Nat]]
             /\ \A s \in Starts :
                  admitted'[m][s] = IF fits /\ s <= now /\ now < s + Window
                                    THEN admitted[m][s] + 1 ELSE admitted[m][s]
             /\ \A n \in Stores : n # m => admitted'[n] = admitted[n]
             /\ \A v \in Windows :
                  Admitted(m, v)' = IF fits /\ v = w
                                    THEN Admitted(m, v) + 1 ELSE Admitted(m, v)
<1> DEFINE now  == task[r].now
           w    == WindowOf(now)
           fits == Fits(c[w - 1], c[w], task[r])
           new  == [s \in Starts |-> IF fits /\ s <= now /\ now < s + Window
                                     THEN admitted[m][s] + 1 ELSE admitted[m][s]]
<1>1. admitted' = [admitted EXCEPT ![m] = new]
  BY DEF Decide
<1>2. admitted \in [Stores -> [Starts -> Nat]]
  BY DEF IInv, TypeOK
<1>3. new \in [Starts -> Nat]
  BY <1>2
<1> HIDE DEF fits
<1>4. admitted' \in [Stores -> [Starts -> Nat]]
  BY <1>1, <1>2, <1>3
<1>5. admitted'[m] = new /\ \A n \in Stores : n # m => admitted'[n] = admitted[n]
  BY <1>1, <1>2
<1>6. ASSUME NEW v \in Windows
      PROVE  Admitted(m, v)' = IF fits /\ v = w THEN Admitted(m, v) + 1 ELSE Admitted(m, v)
  <2>1. CASE v = -1
    <3>1. w # v
      BY <2>1, CallFacts
    <3> QED BY <2>1, <3>1 DEF Admitted
  <2>2. CASE v \in Nat /\ v * Window \in Starts
    <3>1. Admitted(m, v)' = new[v * Window] /\ Admitted(m, v) = admitted[m][v * Window]
      BY <1>5, <2>2 DEF Admitted
    <3>2. now \in Nat /\ w \in Nat /\ w * Window <= now /\ now < w * Window + Window
      BY CallFacts, Division
    <3>3. v * Window <= now /\ now < v * Window + Window => v = w
      BY <2>2, <3>2, OneWindow
    <3> QED BY <2>2, <3>1, <3>2, <3>3
  <2> QED BY <2>1, <2>2, WindowStarts
<1> QED BY <1>4, <1>5, <1>6 DEF fits

(* The part of the invariant that speaks of the stores. *)
StoresInv ==
  /\ count \in [Stores -> [Windows -> Nat]]
  /\ admitted \in [Stores -> [Starts -> Nat]]
  /\ CountersMatch
  /\ WindowsWithinLimit
  /\ SpansCovered

(* A punctual decision of store m, whose counters c match, keeps it. *)
LEMMA DecideKeepsStores ==
  ASSUME IInv, NEW r \in Tasks, task[r].pc # "idle", NEW m \in Stores,
         NEW c \in [Windows -> Nat], Matches(c, m),
         Decide(m, c, task[r]), UNCHANGED clock
  PROVE  StoresInv'
<1> DEFINE now  == task[r].now
           w    == WindowOf(now)
           fits == Fits(c[w - 1], c[w], task[r])
<1>1. /\ now \in Nat /\ now \in Starts /\ w \in Nat /\ w \in Windows /\ w - 1 \in Windows
      /\ clock < (w + 2) * Window
  BY CallFacts
<1>2. /\ admitted' \in [Stores -> [Starts -> Nat]]
      /\ \A s \in Starts :
           admitted'[m][s] = IF fits /\ s <= now /\ now < s + Window
                             THEN admitted[m][s] + 1 ELSE admitted[m][s]
      /\ \A n \in Stores : n # m => admitted'[n] = admitted[n]
      /\ \A v \in Windows :
           Admitted(m, v)' = IF fits /\ v = w THEN Admitted(m, v) + 1 ELSE Admitted(m, v)
  BY DecisionIsCounted
<1>3. c[w] = Admitted(m, w)
  BY OwnCounter
<1>4. fits => (Admitted(m, w) + 1) * Window <= MaxLimit
  BY <1>1, <1>3, FitsWithinLimit
<1>5. \A v \in Windows : Admitted(m, v) \in Nat
  BY AdmittedTyped DEF IInv
<1>6. ASSUME NEW n \in Stores, n # m
      PROVE  \A v \in Windows : Admitted(n, v)' = Admitted(n, v)
  BY <1>2, <1>6 DEF Admitted
<1> DEFINE new == [v \in Windows |-> IF v = w THEN Counted(c[v], fits) ELSE c[v]]
<1>7. count' = [count EXCEPT ![m] = new]
  BY DEF Decide
<1> HIDE DEF fits
<1>8. new \in [Windows -> Nat]
  BY DEF Counted
<1>9. count \in [Stores -> [Windows -> Nat]]
  BY DEF IInv, TypeOK
<1>10. /\ count' \in [Stores -> [Windows -> Nat]]
       /\ count'[m] = new
       /\ \A n \in Stores : n # m => count'[n] = count[n]
  BY <1>7, <1>8, <1>9
<1>11. CountersMatch'
  <2>1. Matches(count[m], m)'
    <3> SUFFICES ASSUME NEW v \in Windows
                 PROVE  \/ new[v] = Admitted(m, v)'
                        \/ (new[v] = 0 /\ clock >= (v + 2) * Window)
      BY <1>10 DEF Matches
    <3>1. CASE v = w
      BY <1>2, <1>3, <1>5, <3>1 DEF Counted
    <3>2. CASE v # w
      BY <1>2, <3>2 DEF Matches
    <3> QED BY <3>1, <3>2
  <2>2. ASSUME NEW n \in Stores, n # m
        PROVE  Matches(count[n], n)'
    BY <1>6, <1>10, <2>2 DEF IInv, CountersMatch, Matches
  <2> QED BY <2>1, <2>2 DEF CountersMatch
<1>12. WindowsWithinLimit'
  <2> SUFFICES ASSUME NEW n \in Stores, NEW v \in Windows
               PROVE  Admitted(n, v)' * Window <= MaxLimit
    BY DEF WindowsWithinLimit
  <2>1. Admitted(n, v) * Window <= MaxLimit
    BY DEF IInv, WindowsWithinLimit
  <2>2. CASE n = m /\ fits /\ v = w
    <3>1. Admitted(n, v)' = Admitted(m, w) + 1
      BY <1>1, <1>2, <2>2
    <3> QED BY <1>4, <2>2, <3>1
  <2>3. CASE ~(n = m /\ fits /\ v = w)
    <3>1. Admitted(n, v)' = Admitted(n, v)
      BY <1>2, <1>6, <2>3
    <3> QED BY <2>1, <3>1
  <2> QED BY <2>2, <2>3
<1>13. SpansCovered'
  <2> SUFFICES ASSUME NEW n \in Stores, NEW s \in Starts
               PROVE  Covered(n, s)'
    BY DEF SpansCovered
  <2> DEFINE u == WindowOf(s)
  <2>1. s \in Nat /\ u \in Nat /\ u \in Windows
    BY WindowOfStart
  <2>2. Covered(n, s)
    BY DEF IInv, SpansCovered
  <2>3. CASE n = m
    <3>1. fits /\ s <= now /\ now < s + Window => w \in {u, u + 1}
      BY <1>1, <2>1, TwoWindows
    <3>2. admitted[m][s] \in Nat
      BY DEF IInv, TypeOK
    <3>3. /\ Admitted(m, u)' = IF fits /\ u = w THEN Admitted(m, u) + 1 ELSE Admitted(m, u)
          /\ u + 1 \in Windows =>
               Admitted(m, u + 1)' = IF fits /\ u + 1 = w THEN Admitted(m, u + 1) + 1
                                                         ELSE Admitted(m, u + 1)
          /\ admitted'[m][s] = IF fits /\ s <= now /\ now < s + Window
                               THEN admitted[m][s] + 1 ELSE admitted[m][s]
      BY <1>2, <2>1
    <3>4. Admitted(m, u) \in Nat /\ (u + 1 \in Windows => Admitted(m, u + 1) \in Nat)
      BY <1>5, <2>1
    <3>5. admitted[m][s] <= Admitted(m, u)
                              + (IF u + 1 \in Windows THEN Admitted(m, u + 1) ELSE 0)
      BY <2>2, <2>3 DEF Covered
    <3> HIDE DEF u
    <3>6. admitted'[m][s] <= Admitted(m, u)'
                               + (IF u + 1 \in Windows THEN Admitted(m, u + 1)' ELSE 0)
      BY <1>1, <2>1, <3>1, <3>2, <3>3, <3>4, <3>5
    <3> QED BY <2>3, <3>6 DEF Covered, u
  <2>4. CASE n # m
    BY <1>2, <1>6, <2>1, <2>2, <2>4 DEF Covered
  <2> QED BY <2>3, <2>4
<1> QED BY <1>2, <1>10, <1>11, <1>12, <1>13 DEF StoresInv

(* A store that loses its contents starts afresh. *)
LEMMA LoseKeepsStores ==
  ASSUME IInv, NEW m \in Stores, Lose(m), UNCHANGED clock
  PROVE  StoresInv' /\ count'[m] = [w \in Windows |-> 0]
                    /\ \A n \in Stores : n # m => count'[n] = count[n]
<1>1. count \in [Stores -> [Windows -> Nat]] /\ admitted \in [Stores -> [Starts -> Nat]]
  BY DEF IInv, TypeOK
<1>2. /\ count' \in [Stores -> [Windows -> Nat]]
      /\ count'[m] = [w \in Windows |-> 0]
      /\ \A n \in Stores : n # m => count'[n] = count[n]
  BY <1>1 DEF Lose
<1>3. /\ admitted' \in [Stores -> [Starts -> Nat]]
      /\ \A s \in Starts : admitted'[m][s] = 0
      /\ \A n \in Stores : n # m => admitted'[n] = admitted[n]
  BY <1>1 DEF Lose
<1>4. \A w \in Windows : Admitted(m, w)' = 0
  BY <1>3, WindowStarts DEF Admitted
<1>5. ASSUME NEW n \in Stores, n # m
      PROVE  \A w \in Windows : Admitted(n, w)' = Admitted(n, w)
  BY <1>3, <1>5 DEF Admitted
<1>6. CountersMatch'
  <2>1. Matches(count[m], m)'
    BY <1>2, <1>4 DEF Matches
  <2>2. ASSUME NEW n \in Stores, n # m
        PROVE  Matches(count[n], n)'
    BY <1>2, <1>5, <2>2 DEF IInv, CountersMatch, Matches
  <2> QED BY <2>1, <2>2 DEF CountersMatch
<1>7. WindowsWithinLimit'
  <2>1. \A w \in Windows : Admitted(m, w)' * Window <= MaxLimit
    BY <1>4, SlidingAssumption
  <2>2. ASSUME NEW n \in Stores, n # m
        PROVE  \A w \in Windows : Admitted(n, w)' * Window <= MaxLimit
    BY <1>5, <2>2 DEF IInv, WindowsWithinLimit
  <2> QED BY <2>1, <2>2 DEF WindowsWithinLimit
<1>8. SpansCovered'
  <2> SUFFICES ASSUME NEW n \in Stores, NEW s \in Starts
               PROVE  Covered(n, s)'
    BY DEF SpansCovered
  <2>1. WindowOf(s) \in Windows
    BY WindowOfStart
  <2>2. CASE n = m
    BY <1>3, <1>4, <2>1, <2>2 DEF Covered
  <2>3. CASE n # m
    BY <1>3, <1>5, <2>1, <2>3 DEF IInv, SpansCovered, Covered
  <2> QED BY <2>2, <2>3
<1> QED BY <1>2, <1>3, <1>6, <1>7, <1>8 DEF StoresInv

-------------------------------------------------------------------------------
(***************************************************************************)
(* The invariant.                                                          *)
(***************************************************************************)

LEMMA InitIsGood == Init => IInv
<1> SUFFICES ASSUME Init PROVE IInv
  OBVIOUS
<1>1. TypeOK
  BY SlidingAssumption DEF Init, TypeOK, Call
<1>2. \A m \in Stores, w \in Windows : Admitted(m, w) = 0 /\ count[m][w] = 0
  BY WindowStarts DEF Init, Admitted
<1>3. CallsPunctual
  BY DEF Init, CallsPunctual
<1>4. CountersMatch /\ KeptLongEnough
  BY <1>2 DEF CountersMatch, Matches, KeptLongEnough, Stores
<1>5. WindowsWithinLimit
  BY <1>2, SlidingAssumption DEF WindowsWithinLimit
<1>6. SpansCovered
  <2> SUFFICES ASSUME NEW m \in Stores, NEW s \in Starts
               PROVE  Covered(m, s)
    BY DEF SpansCovered
  <2>1. WindowOf(s) \in Windows /\ admitted[m][s] = 0
    BY WindowOfStart DEF Init
  <2> QED BY <1>2, <2>1 DEF Covered
<1> QED BY <1>1, <1>3, <1>4, <1>5, <1>6 DEF IInv

(* Tasks that were not running, or that stop, or whose await changes. *)
LEMMA TasksStayPunctual ==
  ASSUME IInv, UNCHANGED clock,
         task' \in [Tasks -> Call],
         \A r \in Tasks : \/ task'[r] = task[r]
                          \/ (task'[r].pc = "idle" /\ task'[r].now = 0)
                          \/ task'[r].now = clock
                          \/ (task'[r].now = task[r].now /\ task[r].pc # "idle")
  PROVE  CallsPunctual'
<1>1. clock \in Nat /\ MaxDelay \in Nat
  BY SlidingAssumption, DelayAssumption DEF IInv, TypeOK
<1> SUFFICES ASSUME NEW r \in Tasks
             PROVE  /\ task'[r].now <= clock
                    /\ task'[r].pc # "idle" => clock <= task'[r].now + MaxDelay
  BY DEF CallsPunctual
<1>2. /\ task[r].now <= clock
      /\ task[r].pc # "idle" => clock <= task[r].now + MaxDelay
  BY DEF IInv, CallsPunctual
<1> QED BY <1>1, <1>2

(* The script keeps the stores, and keeps every counter for long enough. *)
LEMMA ScriptKeepsStores ==
  ASSUME IInv, NEW r \in Tasks, task[r].pc # "idle", Script(task[r]), UNCHANGED clock
  PROVE  StoresInv' /\ KeptLongEnough' /\ expiry' \in [Windows -> Nat]
<1> DEFINE w == WindowOf(task[r].now)
<1>1. Redis \in Stores /\ count[Redis] \in [Windows -> Nat] /\ Matches(count[Redis], Redis)
  BY DEF IInv, TypeOK, CountersMatch, Stores
<1>2. StoresInv'
  <2>1. Decide(Redis, count[Redis], task[r])
    BY DEF Script
  <2> QED BY <1>1, <2>1, DecideKeepsStores
<1>3. /\ expiry \in [Windows -> Nat] /\ clock \in Nat /\ w \in Windows /\ w \in Nat
      /\ task[r].now <= clock /\ w * Window <= task[r].now /\ task[r].now \in Nat
      /\ w * Window \in Nat
  BY CallFacts, Division, Products, SlidingAssumption DEF IInv, TypeOK
<1>4. (w + 2) * Window = w * Window + 2 * Window /\ 2 * Window \in Nat
  BY <1>3, SlidingAssumption
<1>5. clock + KeptFor(w) \in Nat /\ clock + KeptFor(w) >= (w + 2) * Window
  BY <1>3, <1>4 DEF KeptFor
<1>6. expiry' = IF count[Redis][w] = 0
                THEN [expiry EXCEPT ![w] = clock + KeptFor(w)] ELSE expiry
  BY DEF Script
<1>7. expiry' \in [Windows -> Nat]
  BY <1>3, <1>5, <1>6
<1>8. \A v \in Windows : v # w => count'[Redis][v] = count[Redis][v]
  BY <1>1 DEF Script, Decide, IInv, TypeOK
<1>9. KeptLongEnough'
  <2> SUFFICES ASSUME NEW v \in Windows, count'[Redis][v] # 0
               PROVE  expiry'[v] >= (v + 2) * Window
    BY DEF KeptLongEnough
  <2>1. count[Redis][v] # 0 => expiry[v] >= (v + 2) * Window
    BY DEF IInv, KeptLongEnough
  <2>2. CASE v # w
    BY <1>3, <1>6, <1>8, <2>1, <2>2
  <2>3. CASE v = w
    BY <1>3, <1>5, <1>6, <2>1, <2>3
  <2> QED BY <2>2, <2>3
<1> QED BY <1>2, <1>7, <1>9

(* Steps that leave the stores and the TTLs alone. *)
LEMMA UnchangedStores ==
  ASSUME IInv, UNCHANGED <<clock, count, expiry, admitted>>
  PROVE  StoresInv' /\ KeptLongEnough' /\ expiry' \in [Windows -> Nat]
BY DEF IInv, TypeOK, StoresInv, CountersMatch, Matches, Admitted, WindowsWithinLimit,
       SpansCovered, Covered, KeptLongEnough

(* The parts together. *)
LEMMA Assemble ==
  ASSUME StoresInv', KeptLongEnough', expiry' \in [Windows -> Nat], CallsPunctual',
         clock' \in 0..MaxClock, task' \in [Tasks -> Call], faults' \in 0..MaxFaults
  PROVE  IInv'
BY DEF StoresInv, IInv, TypeOK

(* The clock moves on, and Redis drops counters no punctual call can read.   *)
LEMMA TickIsGood ==
  ASSUME IInv, Tick
  PROVE  IInv'
<1> DEFINE due == {w \in Windows : expiry[w] <= clock + 1}
           new == [w \in Windows |-> IF w \in due THEN 0 ELSE count[Redis][w]]
<1>1. /\ clock \in Nat /\ clock < MaxClock /\ clock' = clock + 1 /\ MaxClock \in Nat
      /\ UNCHANGED <<task, faults, admitted>>
      /\ expiry' = [w \in Windows |-> IF w \in due THEN Forever ELSE expiry[w]]
      /\ count' = [count EXCEPT ![Redis] = new]
  BY SlidingAssumption DEF Tick, IInv, TypeOK
<1>2. /\ count \in [Stores -> [Windows -> Nat]] /\ expiry \in [Windows -> Nat]
      /\ Redis \in Stores
  BY DEF IInv, TypeOK, Stores
<1>3. /\ count' \in [Stores -> [Windows -> Nat]] /\ count'[Redis] = new
      /\ \A m \in Stores : m # Redis => count'[m] = count[m]
  BY <1>1, <1>2
<1>4. TypeOK'
  BY <1>1, <1>2, <1>3, SlidingAssumption DEF IInv, TypeOK
<1>5. CallsPunctual'
  <2> SUFFICES ASSUME NEW r \in Tasks
               PROVE  /\ task[r].now <= clock + 1
                      /\ task[r].pc # "idle" => clock + 1 <= task[r].now + MaxDelay
    BY <1>1 DEF CallsPunctual
  <2>1. task[r].now \in Nat /\ task[r].now <= clock /\ MaxDelay \in Nat
    BY CallFacts, SlidingAssumption, DelayAssumption
  <2>2. task[r].pc # "idle" => clock < task[r].now + MaxDelay
    BY DEF Tick
  <2> QED BY <1>1, <2>1, <2>2
<1>6. \A m \in Stores, w \in Windows : Admitted(m, w)' = Admitted(m, w)
  BY <1>1 DEF Admitted
<1>7. ASSUME NEW w \in Windows
      PROVE  w \in Int /\ (w + 2) * Window \in Int
  BY WindowStarts, SlidingAssumption
<1>8. CountersMatch'
  <2> SUFFICES ASSUME NEW m \in Stores, NEW w \in Windows
               PROVE  \/ count'[m][w] = Admitted(m, w)
                      \/ (count'[m][w] = 0 /\ clock + 1 >= (w + 2) * Window)
    BY <1>1, <1>6 DEF CountersMatch, Matches
  <2>1. \/ count[m][w] = Admitted(m, w)
        \/ (count[m][w] = 0 /\ clock >= (w + 2) * Window)
    BY DEF IInv, CountersMatch, Matches
  <2>2. CASE m = Redis /\ w \in due /\ count[Redis][w] # 0
    <3>1. expiry[w] >= (w + 2) * Window /\ expiry[w] <= clock + 1
      BY <2>2 DEF IInv, KeptLongEnough
    <3>2. count'[m][w] = 0
      BY <1>3, <2>2
    <3> QED BY <1>1, <1>2, <1>7, <3>1, <3>2
  <2>3. CASE ~(m = Redis /\ w \in due /\ count[Redis][w] # 0)
    <3>1. count'[m][w] = count[m][w]
      BY <1>3, <2>3
    <3> QED BY <1>1, <1>7, <2>1, <3>1
  <2> QED BY <2>2, <2>3
<1>9. KeptLongEnough'
  BY <1>1, <1>3 DEF IInv, KeptLongEnough
<1>10. WindowsWithinLimit' /\ SpansCovered'
  <2>1. WindowsWithinLimit'
    BY <1>6 DEF IInv, WindowsWithinLimit
  <2>2. SpansCovered'
    BY <1>1, <1>6, WindowOfStart DEF IInv, SpansCovered, Covered
  <2> QED BY <2>1, <2>2
<1> QED BY <1>4, <1>5, <1>8, <1>9, <1>10 DEF IInv

LEMMA NextIsGood == IInv /\ [Next]_vars => IInv'
<1> SUFFICES ASSUME IInv, [Next]_vars PROVE IInv'
  OBVIOUS
<1> USE DEF IInv, TypeOK
<1>1. ASSUME NEW r \in Tasks, NEW p \in Proxies, NEW l \in Limits, Begin(r, p, l)
      PROVE  IInv'
  <2>1. UNCHANGED <<clock, count, expiry, faults, admitted>> /\ clock \in Nat
    BY <1>1, SlidingAssumption DEF Begin
  <2>2. task' \in [Tasks -> Call]
    BY <1>1, <2>1 DEF Begin, Call
  <2>3. \A q \in Tasks : task'[q] = task[q] \/ task'[q].now = clock
    BY <1>1 DEF Begin
  <2>4. CallsPunctual'
    BY <2>1, <2>2, <2>3, TasksStayPunctual
  <2> QED BY <2>1, <2>2, <2>4, UnchangedStores, Assemble
<1>2. ASSUME NEW r \in Tasks, RunScript(r)
      PROVE  IInv'
  <2>1. UNCHANGED <<clock, faults>> /\ task[r].pc # "idle" /\ Script(task[r])
    BY <1>2 DEF RunScript
  <2>2. task' \in [Tasks -> Call]
    BY <1>2 DEF RunScript, Call, Idle
  <2>3. \A q \in Tasks : \/ task'[q] = task[q]
                         \/ (task'[q].pc = "idle" /\ task'[q].now = 0)
    BY <1>2 DEF RunScript, Idle
  <2>4. CallsPunctual'
    BY <2>1, <2>2, <2>3, TasksStayPunctual
  <2> QED BY <2>1, <2>2, <2>4, ScriptKeepsStores, Assemble
<1>3. ASSUME NEW r \in Tasks, RunScriptFails(r)
      PROVE  IInv'
  <2>1. /\ UNCHANGED clock /\ faults' \in 0..MaxFaults /\ task[r].pc # "idle"
        /\ Script(task[r]) \/ UNCHANGED <<count, expiry, admitted>>
    BY <1>3, SlidingAssumption DEF RunScriptFails
  <2>2. task' \in [Tasks -> Call]
    BY <1>3 DEF RunScriptFails, Call, At
  <2>3. \A q \in Tasks : \/ task'[q] = task[q]
                         \/ (task'[q].now = task[q].now /\ task[q].pc # "idle")
    BY <1>3 DEF RunScriptFails, At
  <2>4. CallsPunctual'
    BY <2>1, <2>2, <2>3, TasksStayPunctual
  <2>5. StoresInv' /\ KeptLongEnough' /\ expiry' \in [Windows -> Nat]
    BY <2>1, ScriptKeepsStores, UnchangedStores
  <2> QED BY <2>1, <2>2, <2>4, <2>5, Assemble
<1>4. ASSUME NEW r \in Tasks, CheckInMemory(r)
      PROVE  IInv'
  <2> DEFINE m == task[r].proxy
             w == WindowOf(task[r].now)
             c == CleanedUp(count[m], w)
  <2>1. /\ UNCHANGED <<clock, expiry, faults>> /\ task[r].pc # "idle"
        /\ Decide(m, c, task[r])
    BY <1>4 DEF CheckInMemory
  <2>2. task' \in [Tasks -> Call]
    BY <1>4 DEF CheckInMemory, Call, Idle
  <2>3. \A q \in Tasks : \/ task'[q] = task[q]
                         \/ (task'[q].pc = "idle" /\ task'[q].now = 0)
    BY <1>4 DEF CheckInMemory, Idle
  <2>4. CallsPunctual'
    BY <2>1, <2>2, <2>3, TasksStayPunctual
  <2>5. /\ m \in Stores /\ m \in Proxies /\ m # Redis /\ c \in [Windows -> Nat]
        /\ w \in Nat /\ clock \in Nat /\ task[r].now \in Nat
        /\ w * Window <= task[r].now /\ task[r].now <= clock
    BY CallFacts, Division, SlidingAssumption DEF CleanedUp
  <2>6. Matches(c, m)
    <3> SUFFICES ASSUME NEW v \in Windows
                 PROVE  \/ c[v] = Admitted(m, v)
                        \/ (c[v] = 0 /\ clock >= (v + 2) * Window)
      BY DEF Matches
    <3>1. CASE v < w - 1
      <4>1. v \in Int /\ v + 2 \in Nat /\ v + 2 <= w
        BY <2>5, <3>1, WindowStarts
      <4>2. (v + 2) * Window <= w * Window /\ (v + 2) * Window \in Nat /\ w * Window \in Nat
        BY <2>5, <4>1, Products, SlidingAssumption
      <4>3. c[v] = 0
        BY <3>1 DEF CleanedUp
      <4> QED BY <2>5, <4>2, <4>3
    <3>2. CASE ~(v < w - 1)
      BY <2>5, <3>2 DEF CleanedUp, CountersMatch, Matches
    <3> QED BY <3>1, <3>2
  <2>7. StoresInv'
    <3> HIDE DEF c
    <3> QED BY <2>1, <2>5, <2>6, DecideKeepsStores
  <2>8. count'[Redis] = count[Redis]
    BY <2>1, <2>5 DEF Decide
  <2>9. KeptLongEnough' /\ expiry' \in [Windows -> Nat]
    BY <2>1, <2>8 DEF KeptLongEnough
  <2> QED BY <2>1, <2>2, <2>4, <2>7, <2>9, Assemble
<1>5. ASSUME NEW p \in Proxies, RestartProxy(p)
      PROVE  IInv'
  <2>1. UNCHANGED <<clock, expiry>> /\ faults' \in 0..MaxFaults /\ Lose(p)
    BY <1>5, SlidingAssumption DEF RestartProxy
  <2>2. task' \in [Tasks -> Call]
    BY <1>5 DEF RestartProxy, Call, Idle
  <2>3. \A q \in Tasks : \/ task'[q] = task[q]
                         \/ (task'[q].pc = "idle" /\ task'[q].now = 0)
    BY <1>5 DEF RestartProxy, Idle
  <2>4. CallsPunctual'
    BY <2>1, <2>2, <2>3, TasksStayPunctual
  <2>5. p \in Stores /\ p # Redis /\ Redis \in Stores
    BY SlidingAssumption DEF Stores
  <2>6. StoresInv' /\ count'[Redis] = count[Redis]
    BY <2>1, <2>5, LoseKeepsStores
  <2>7. KeptLongEnough' /\ expiry' \in [Windows -> Nat]
    BY <2>1, <2>6 DEF KeptLongEnough
  <2> QED BY <2>1, <2>2, <2>4, <2>6, <2>7, Assemble
<1>6. ASSUME RestartRedis
      PROVE  IInv'
  <2>1. /\ UNCHANGED <<clock, task>> /\ faults' \in 0..MaxFaults /\ Lose(Redis)
        /\ expiry' = [w \in Windows |-> Forever]
    BY <1>6, SlidingAssumption DEF RestartRedis
  <2>2. CallsPunctual'
    BY <2>1 DEF CallsPunctual
  <2>3. Redis \in Stores
    BY DEF Stores
  <2>4. StoresInv' /\ count'[Redis] = [w \in Windows |-> 0]
    BY <2>1, <2>3, LoseKeepsStores
  <2>5. KeptLongEnough' /\ expiry' \in [Windows -> Nat]
    BY <2>1, <2>4, SlidingAssumption DEF KeptLongEnough
  <2> QED BY <2>1, <2>2, <2>4, <2>5, Assemble
<1>7. ASSUME Tick
      PROVE  IInv'
  BY <1>7, TickIsGood
<1>8. ASSUME UNCHANGED vars
      PROVE  IInv'
  <2>1. UNCHANGED <<clock, count, expiry, task, faults, admitted>>
    BY <1>8 DEF vars
  <2>2. CallsPunctual'
    BY <2>1 DEF CallsPunctual
  <2> QED BY <2>1, <2>2, UnchangedStores, Assemble
<1> QED BY <1>1, <1>2, <1>3, <1>4, <1>5, <1>6, <1>7, <1>8 DEF Next

-------------------------------------------------------------------------------
(***************************************************************************)
(* The theorems.                                                           *)
(***************************************************************************)

(* The invariant holds throughout, in Redis and in memory alike.             *)
THEOREM Invariance == Spec => []IInv
BY InitIsGood, NextIsGood, PTL DEF Spec

(* The variables keep their types; no counter is ever negative, although the *)
(* script counts down again what it refuses (sliding_window.lua:32).         *)
THEOREM TypeCorrect == Spec => []TypeOK
<1>1. IInv => TypeOK
  BY DEF IInv
<1> QED BY <1>1, Invariance, PTL

(* No store admits more than the base limit in one window, for any number of *)
(* concurrent calls served within a window of their clock reading.           *)
THEOREM WindowBound == Spec => []WindowsWithinLimit
<1>1. IInv => WindowsWithinLimit
  BY DEF IInv
<1> QED BY <1>1, Invariance, PTL

(* No stretch of time of a window's length sees more than twice the limit.   *)
THEOREM SpanBound == Spec => []SpansWithinTwiceLimit
<1>1. ASSUME IInv PROVE SpansWithinTwiceLimit
  <2> SUFFICES ASSUME NEW m \in Stores, NEW s \in Starts
               PROVE  admitted[m][s] * Window <= 2 * MaxLimit
    BY DEF SpansWithinTwiceLimit
  <2> DEFINE w == WindowOf(s)
             a == Admitted(m, w)
             b == IF w + 1 \in Windows THEN Admitted(m, w + 1) ELSE 0
  <2>1. w \in Windows /\ MaxLimit \in Nat /\ Window \in Nat
    BY WindowOfStart, SlidingAssumption
  <2>2. a \in Nat /\ a * Window <= MaxLimit
    BY <1>1, <2>1, AdmittedTyped DEF IInv, WindowsWithinLimit
  <2>3. b \in Nat /\ b * Window <= MaxLimit
    BY <1>1, <2>1, AdmittedTyped DEF IInv, WindowsWithinLimit
  <2>4. admitted[m][s] \in Nat /\ admitted[m][s] <= a + b
    BY <1>1 DEF IInv, TypeOK, SpansCovered, Covered
  <2> HIDE DEF a, b
  <2>5. admitted[m][s] * Window <= (a + b) * Window
    BY <2>1, <2>2, <2>3, <2>4, Products
  <2>6. (a + b) * Window = a * Window + b * Window
    BY <2>1, <2>2, <2>3
  <2>7. a * Window \in Nat /\ b * Window \in Nat /\ admitted[m][s] * Window \in Nat
    BY <2>1, <2>2, <2>3, <2>4, Products
  <2> QED BY <2>1, <2>2, <2>3, <2>5, <2>6, <2>7
<1> QED BY <1>1, Invariance, PTL

(* Refused requests are not charged (sliding_window.lua:31).                 *)
THEOREM NoTrace == Spec => []RefusalsLeaveNoTrace
<1>1. IInv => RefusalsLeaveNoTrace
  BY DEF IInv, CountersMatch, Matches, RefusalsLeaveNoTrace
<1> QED BY <1>1, Invariance, PTL

(* The estimate misses at most what the delay of the call has let slide out  *)
(* of its window: the TTL of two windows (sliding_window.lua:18) and the     *)
(* clean-up of the memory (sliding_window.py:54) are never too early.        *)
THEOREM FaithfulEstimates == Spec => []EstimatesAreFaithful
<1>1. ASSUME IInv PROVE EstimatesAreFaithful
  <2> SUFFICES ASSUME NEW m \in Stores, NEW r \in Tasks, NEW now, now = task[r].now,
                      NEW w, w = WindowOf(now), task[r].pc # "idle"
               PROVE  Estimate(Admitted(m, w - 1), Admitted(m, w), now)
                        <= Estimate(count[m][w - 1], count[m][w], now)
                             + Admitted(m, w - 1) * (clock - now)
    BY DEF EstimatesAreFaithful
  <2> DEFINE a == Admitted(m, w - 1)
             k == Window - Into(now)
             d == clock - now
  <2>1. /\ now \in Nat /\ now <= clock /\ clock \in Nat
        /\ w \in Nat /\ w \in Windows /\ w - 1 \in Windows
    BY <1>1, CallFacts
  <2>2. Matches(count[m], m) /\ count[m][w] = Admitted(m, w) /\ Admitted(m, w) \in Nat
    BY <1>1, <2>1, OwnCounter, AdmittedTyped DEF IInv, CountersMatch
  <2>3. a \in Nat /\ d \in Nat /\ Window \in Nat
    BY <1>1, <2>1, AdmittedTyped, SlidingAssumption DEF IInv
  <2>4. k \in Nat /\ (w + 1) * Window = now + k
    <3>1. /\ Into(now) = now - w * Window /\ now < w * Window + Window
          /\ w * Window <= now /\ w * Window \in Nat
      BY <2>1, <2>3, Division, Products
    <3>2. (w + 1) * Window = w * Window + Window
      BY <2>1, <2>3
    <3> QED BY <2>1, <2>3, <3>1, <3>2
  <2>5. a * d \in Nat /\ a * k \in Nat /\ Admitted(m, w) * Window \in Nat
    BY <2>2, <2>3, <2>4, Products
  <2>6. CASE count[m][w - 1] = a
    <3>1. Estimate(count[m][w - 1], count[m][w], now) = Estimate(a, Admitted(m, w), now)
      BY <2>2, <2>6
    <3>2. Estimate(a, Admitted(m, w), now) = a * k + Admitted(m, w) * Window
      BY DEF Estimate
    <3> HIDE DEF a, d, k
    <3> QED BY <2>5, <3>1, <3>2 DEF a, d
  <2>7. CASE count[m][w - 1] = 0 /\ clock >= (w - 1 + 2) * Window
    <3>1. k <= d
      <4>1. (w - 1 + 2) * Window = (w + 1) * Window
        BY <2>1
      <4> QED BY <2>1, <2>3, <2>4, <2>7, <4>1
    <3>2. a * k <= a * d
      BY <2>3, <2>4, <3>1, Products
    <3>3. /\ Estimate(count[m][w - 1], count[m][w], now) = 0 * k + Admitted(m, w) * Window
          /\ Estimate(a, Admitted(m, w), now) = a * k + Admitted(m, w) * Window
      BY <2>2, <2>7 DEF Estimate
    <3>4. 0 * k = 0
      BY <2>4
    <3> HIDE DEF a, d, k
    <3> QED BY <2>5, <3>2, <3>3, <3>4 DEF a, d
  <2> QED BY <2>1, <2>2, <2>6, <2>7 DEF Matches
<1> QED BY <1>1, Invariance, PTL

===============================================================================
