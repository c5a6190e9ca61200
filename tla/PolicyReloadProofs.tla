--------------------------- MODULE PolicyReloadProofs ---------------------------
(***************************************************************************)
(* Proofs about PolicyReload: what the access lists hold at every point of *)
(* a reload, and what they mean for requests, for any policies, clients,   *)
(* networks and number of requests.                                        *)
(***************************************************************************)
EXTENDS PolicyReload, TLAPS

(* The lists at each statement of the watcher thread.  From the time _config *)
(* is replaced until the lists are cleared they still are those of an        *)
(* earlier policy; then they are filled, first the whitelist.                *)
ListsFollowWatcher ==
  /\ watcher.pc \in {"wait", "read", "install"} => InForce(config)
  /\ watcher.pc = "clear_white" =>
       \E p \in Loadable : /\ whitelist_nets = Compiled(p.white)
                           /\ blacklist_nets = Compiled(p.black)
  /\ watcher.pc = "clear_black" =>
       /\ whitelist_nets = {}
       /\ \E p \in Loadable : blacklist_nets = Compiled(p.black)
  /\ watcher.pc = "fill_white" =>
       /\ watcher.left \subseteq config.white
       /\ whitelist_nets = Compiled(config.white \ watcher.left)
       /\ blacklist_nets = {}
  /\ watcher.pc = "fill_black" =>
       /\ watcher.left \subseteq config.black
       /\ whitelist_nets = Compiled(config.white)
       /\ blacklist_nets = Compiled(config.black \ watcher.left)
  /\ Installing => config = watcher.new

(* A quiet request has been judged so far as the policy in force judges it.  *)
QuietOnCourse(q) ==
  q.quiet =>
    /\ ~Installing
    /\ q.pc = "white" => ~InList(q.client, Compiled(config.black))
    /\ q.pc = "done" => q.verdict = Verdict(config, q.client)

QuietRequests == \A r \in Requests : QuietOnCourse(request[r])

IInv == TypeOK /\ ListsFollowWatcher /\ QuietRequests

-------------------------------------------------------------------------------

LEMMA LoadableArePolicies == Loadable \subseteq Policy /\ Unreadable \notin Loadable
BY PolicyAssumption DEF Loadable

(* Adding one entry to a list that lacks the entries left, and taking it off *)
(* those, keeps the list compiled.                                           *)
LEMMA AppendedIsCompiled ==
  ASSUME NEW entries, NEW left \in SUBSET entries, NEW e \in left
  PROVE  /\ Appended(Compiled(entries \ left), e) = Compiled(entries \ (left \ {e}))
         /\ left \ {e} \in SUBSET entries
BY DEF Appended, Compiled

LEMMA CompiledAreNetworks ==
  ASSUME NEW entries PROVE Compiled(entries) \subseteq Networks
BY DEF Compiled

-------------------------------------------------------------------------------
(***************************************************************************)
(* Steps of the operator and of the watcher thread.                        *)
(***************************************************************************)

LEMMA InitIsCoherent == Init => IInv
<1> SUFFICES ASSUME Init PROVE IInv
  OBVIOUS
<1>1. config \in Loadable /\ config \in Policies
  BY DEF Init, Loadable
<1>2. TypeOK
  BY <1>1, PolicyAssumption, CompiledAreNetworks
     DEF Init, TypeOK, Watcher, Request, Judged, Verdict
<1>3. ListsFollowWatcher
  BY DEF Init, ListsFollowWatcher, InForce, Installing
<1>4. QuietRequests
  BY DEF Init, QuietRequests, QuietOnCourse, Judged, Installing
<1> QED BY <1>2, <1>3, <1>4 DEF IInv

(* Neither an edit nor what the thread does before it installs a policy      *)
(* concerns the lists or the requests.                                       *)
LEMMA EditStaysCoherent ==
  ASSUME IInv, WritePart \/ FinishEdit
  PROVE  IInv'
<1> USE PolicyAssumption
<1>1. /\ UNCHANGED <<watcher, config, whitelist_nets, blacklist_nets, request>>
      /\ file' \in Loadable \union {Unreadable}
      /\ pending' \in 0..MaxPending
      /\ edits' \in 0..MaxEdits
  <2>1. CASE WritePart
    BY <2>1 DEF WritePart, Written, manager, Loadable, IInv, TypeOK
  <2>2. CASE FinishEdit
    BY <2>2 DEF FinishEdit, Written, manager, Loadable, IInv, TypeOK
  <2> QED BY <2>1, <2>2
<1>2. TypeOK'
  BY <1>1 DEF IInv, TypeOK
<1>3. ListsFollowWatcher'
  BY <1>1 DEF IInv, ListsFollowWatcher, InForce, Installing
<1>4. QuietRequests'
  BY <1>1 DEF IInv, QuietRequests, QuietOnCourse, Installing
<1> QED BY <1>2, <1>3, <1>4 DEF IInv

LEMMA LoadStaysCoherent ==
  ASSUME IInv, OnModified \/ Read
  PROVE  IInv'
<1>1. /\ UNCHANGED <<file, edits, config, whitelist_nets, blacklist_nets, request>>
      /\ pending' \in 0..MaxPending
      /\ watcher' \in Watcher
      /\ watcher.pc \in {"wait", "read"} /\ watcher'.pc \in {"wait", "read", "install"}
  <2>1. CASE OnModified
    BY <2>1, PolicyAssumption DEF OnModified, IInv, TypeOK, Watcher
  <2>2. CASE Read
    BY <2>2, LoadableArePolicies DEF Read, AfterFailure, IInv, TypeOK, Watcher
  <2> QED BY <2>1, <2>2
<1>2. TypeOK'
  BY <1>1 DEF IInv, TypeOK
<1>3. ListsFollowWatcher'
  BY <1>1 DEF IInv, ListsFollowWatcher, InForce, Installing
<1>4. QuietRequests'
  BY <1>1 DEF IInv, QuietRequests, QuietOnCourse, Installing
<1> QED BY <1>2, <1>3, <1>4 DEF IInv

(* Once a policy is being installed no request is quiet. *)
LEMMA InstallEndsQuiet ==
  ASSUME IInv, Install
  PROVE  IInv'
<1>1. /\ UNCHANGED <<file, edits, pending, whitelist_nets, blacklist_nets>>
      /\ watcher.pc = "install" /\ config' = watcher.new
      /\ watcher' = [watcher EXCEPT !.pc = "clear_white"]
      /\ request' = [r \in Requests |-> [request[r] EXCEPT !.quiet = FALSE]]
  BY DEF Install
<1>2. /\ watcher' \in Watcher /\ watcher'.pc = "clear_white"
      /\ watcher'.new = watcher.new /\ watcher.new \in Loadable
  BY <1>1 DEF IInv, TypeOK, Watcher
<1>3. request' \in [Requests -> Request] /\ \A r \in Requests : request'[r].quiet = FALSE
  BY <1>1 DEF IInv, TypeOK, Request
<1>4. TypeOK'
  BY <1>1, <1>2, <1>3 DEF IInv, TypeOK
<1>5. ListsFollowWatcher'
  BY <1>1, <1>2 DEF IInv, TypeOK, ListsFollowWatcher, InForce, Installing
<1>6. QuietRequests'
  BY <1>3 DEF QuietRequests, QuietOnCourse
<1> QED BY <1>4, <1>5, <1>6 DEF IInv

(* While a policy is being installed no request is quiet, and the last step  *)
(* of the installation makes none quiet.                                     *)
LEMMA NoneQuietWhileInstalling ==
  ASSUME IInv, Installing, UNCHANGED request
  PROVE  QuietRequests'
BY DEF IInv, QuietRequests, QuietOnCourse

LEMMA ClearStaysCoherent ==
  ASSUME IInv, ClearWhite \/ ClearBlack
  PROVE  IInv'
<1>1. UNCHANGED <<file, edits, pending, config, request>> /\ Installing
  BY DEF ClearWhite, ClearBlack, Installing
<1>2. watcher \in Watcher /\ watcher.new = config
  BY <1>1 DEF IInv, TypeOK, ListsFollowWatcher
<1>3. TypeOK' /\ ListsFollowWatcher'
  <2>1. CASE ClearWhite
    <3>1. /\ watcher.pc = "clear_white" /\ watcher' = [watcher EXCEPT !.pc = "clear_black"]
          /\ whitelist_nets' = {} /\ blacklist_nets' = blacklist_nets
      BY <2>1 DEF ClearWhite, Cleared
    <3>2. watcher' \in Watcher /\ watcher'.pc = "clear_black" /\ watcher'.new = config
      BY <1>2, <3>1 DEF Watcher
    <3> QED BY <1>1, <3>1, <3>2 DEF IInv, TypeOK, ListsFollowWatcher, Installing
  <2>2. CASE ClearBlack
    <3>1. /\ watcher.pc = "clear_black" /\ blacklist_nets' = {}
          /\ whitelist_nets' = whitelist_nets /\ whitelist_nets = {}
          /\ watcher' = [watcher EXCEPT !.pc = "fill_white", !.left = watcher.new.white]
      BY <2>2 DEF ClearBlack, Cleared, IInv, ListsFollowWatcher
    <3>2. /\ watcher' \in Watcher /\ watcher'.pc = "fill_white"
          /\ watcher'.new = config /\ watcher'.left = config.white
      BY <1>2, <3>1, LoadableArePolicies DEF Watcher, Policy
    <3>3. Compiled(config.white \ config.white) = {}
      BY DEF Compiled
    <3> QED BY <1>1, <3>1, <3>2, <3>3 DEF IInv, TypeOK, ListsFollowWatcher, Installing
  <2> QED BY <2>1, <2>2
<1> QED BY <1>1, <1>3, NoneQuietWhileInstalling DEF IInv

LEMMA FillStaysCoherent ==
  ASSUME IInv, FillWhite \/ FillBlack
  PROVE  IInv'
<1>1. UNCHANGED <<file, edits, pending, config, request>> /\ Installing
  BY DEF FillWhite, FillBlack, Installing
<1>2. /\ watcher \in Watcher /\ watcher.new = config /\ config \in Policy
  BY <1>1, LoadableArePolicies DEF IInv, TypeOK, ListsFollowWatcher
<1>3. TypeOK' /\ ListsFollowWatcher'
  <2>1. ASSUME NEW e \in watcher.left, watcher.pc = "fill_white",
               whitelist_nets' = Appended(whitelist_nets, e),
               watcher' = [watcher EXCEPT !.left = Left(e)], UNCHANGED blacklist_nets
        PROVE  TypeOK' /\ ListsFollowWatcher'
    <3>1. /\ watcher' \in Watcher /\ watcher'.pc = "fill_white" /\ watcher'.new = config
          /\ watcher'.left = watcher.left \ {e}
      BY <1>2, <2>1 DEF Watcher, Left
    <3>2. /\ whitelist_nets' = Compiled(config.white \ watcher'.left)
          /\ watcher'.left \subseteq config.white
      BY <2>1, <3>1, AppendedIsCompiled DEF IInv, ListsFollowWatcher
    <3> QED BY <1>1, <2>1, <3>1, <3>2, CompiledAreNetworks
            DEF IInv, TypeOK, ListsFollowWatcher, Installing
  <2>2. ASSUME watcher.left = {}, watcher.pc = "fill_white",
               watcher' = [watcher EXCEPT !.pc = "fill_black", !.left = watcher.new.black],
               UNCHANGED <<whitelist_nets, blacklist_nets>>
        PROVE  TypeOK' /\ ListsFollowWatcher'
    <3>1. /\ watcher' \in Watcher /\ watcher'.pc = "fill_black" /\ watcher'.new = config
          /\ watcher'.left = config.black
      BY <1>2, <2>2 DEF Watcher, Policy
    <3>2. /\ Compiled(config.black \ config.black) = {}
          /\ Compiled(config.white \ {}) = Compiled(config.white)
      BY DEF Compiled
    <3> QED BY <1>1, <2>2, <3>1, <3>2 DEF IInv, TypeOK, ListsFollowWatcher, Installing
  <2>3. ASSUME NEW e \in watcher.left, watcher.pc = "fill_black",
               blacklist_nets' = Appended(blacklist_nets, e),
               watcher' = [watcher EXCEPT !.left = Left(e)], UNCHANGED whitelist_nets
        PROVE  TypeOK' /\ ListsFollowWatcher'
    <3>1. /\ watcher' \in Watcher /\ watcher'.pc = "fill_black" /\ watcher'.new = config
          /\ watcher'.left = watcher.left \ {e}
      BY <1>2, <2>3 DEF Watcher, Left
    <3>2. /\ blacklist_nets' = Compiled(config.black \ watcher'.left)
          /\ watcher'.left \subseteq config.black
      BY <2>3, <3>1, AppendedIsCompiled DEF IInv, ListsFollowWatcher
    <3> QED BY <1>1, <2>3, <3>1, <3>2, CompiledAreNetworks
            DEF IInv, TypeOK, ListsFollowWatcher, Installing
  <2>4. ASSUME watcher.left = {}, watcher.pc = "fill_black",
               watcher' = [watcher EXCEPT !.pc = "wait"],
               UNCHANGED <<whitelist_nets, blacklist_nets>>
        PROVE  TypeOK' /\ ListsFollowWatcher'
    <3>1. watcher' \in Watcher /\ watcher'.pc = "wait"
      BY <1>2, <2>4 DEF Watcher
    <3>2. Compiled(config.black \ {}) = Compiled(config.black)
      BY DEF Compiled
    <3> QED BY <1>1, <2>4, <3>1, <3>2
            DEF IInv, TypeOK, ListsFollowWatcher, InForce, Installing
  <2>5. CASE FillWhite
    BY <2>1, <2>2, <2>5 DEF FillWhite
  <2>6. CASE FillBlack
    BY <2>3, <2>4, <2>6 DEF FillBlack
  <2> QED BY <2>5, <2>6
<1> QED BY <1>1, <1>3, NoneQuietWhileInstalling DEF IInv

-------------------------------------------------------------------------------
(***************************************************************************)
(* Steps of the requests.                                                  *)
(***************************************************************************)

(* A step of one request that keeps it typed and on course. *)
LEMMA RequestStaysCoherent ==
  ASSUME IInv, UNCHANGED <<file, edits, pending, manager>>,
         NEW r \in Requests, NEW q \in Request, QuietOnCourse(q),
         request' = [request EXCEPT ![r] = q]
  PROVE  IInv'
<1>1. UNCHANGED <<watcher, config, whitelist_nets, blacklist_nets>>
  BY DEF manager
<1>2. request' \in [Requests -> Request]
  BY DEF IInv, TypeOK
<1>3. TypeOK'
  BY <1>1, <1>2 DEF IInv, TypeOK
<1>4. ListsFollowWatcher'
  BY <1>1 DEF IInv, ListsFollowWatcher, InForce, Installing
<1>5. ASSUME NEW s \in Requests PROVE QuietOnCourse(request[s])'
  <2>1. QuietOnCourse(request'[s])
    BY DEF IInv, TypeOK, QuietRequests
  <2> QED BY <1>1, <2>1 DEF QuietOnCourse, Installing
<1> QED BY <1>3, <1>4, <1>5 DEF IInv, QuietRequests

(* While no policy is being installed, the lists are those of the policy. *)
LEMMA ListsInForce ==
  ASSUME IInv, ~Installing
  PROVE  /\ blacklist_nets = Compiled(config.black)
         /\ whitelist_nets = Compiled(config.white)
BY DEF IInv, TypeOK, Watcher, ListsFollowWatcher, InForce, Installing

LEMMA NextStaysCoherent == IInv /\ [Next]_vars => IInv'
<1> SUFFICES ASSUME IInv, [Next]_vars PROVE IInv'
  OBVIOUS
<1>1. ASSUME NEW r \in Requests, NEW c \in Clients, Arrive(r, c) PROVE IInv'
  <2> DEFINE q == [pc |-> "black", client |-> c, quiet |-> ~Installing,
                   verdict |-> "evaluated"]
  <2>1. q \in Request /\ QuietOnCourse(q)
    BY DEF Request, QuietOnCourse
  <2>2. UNCHANGED <<file, edits, pending, manager>> /\ request' = [request EXCEPT ![r] = q]
    BY <1>1 DEF Arrive
  <2> HIDE DEF q
  <2> QED BY <2>1, <2>2, RequestStaysCoherent
<1>2. ASSUME NEW r \in Requests, CheckBlacklist(r) PROVE IInv'
  <2> DEFINE q == request[r]
             refused == InList(q.client, blacklist_nets)
             next == IF refused THEN Judged(q.client, q.quiet, "refused")
                                ELSE [q EXCEPT !.pc = "white"]
  <2>1. q \in Request /\ QuietOnCourse(q)
    BY DEF IInv, TypeOK, QuietRequests
  <2>2. q.quiet => refused = InList(q.client, Compiled(config.black)) /\ ~Installing
    BY <2>1, ListsInForce DEF QuietOnCourse
  <2>3. /\ UNCHANGED <<file, edits, pending, manager>>
        /\ request' = [request EXCEPT ![r] = next]
    BY <1>2 DEF CheckBlacklist
  <2> HIDE DEF q, refused
  <2>4. next \in Request
    BY <2>1 DEF Judged, Request
  <2>5. QuietOnCourse(next)
    <3>1. CASE refused
      BY <2>2, <3>1 DEF Judged, QuietOnCourse, Verdict
    <3>2. CASE ~refused
      BY <2>1, <2>2, <3>2 DEF QuietOnCourse, Request
    <3> QED BY <3>1, <3>2
  <2> HIDE DEF next
  <2> QED BY <2>3, <2>4, <2>5, RequestStaysCoherent
<1>3. ASSUME NEW r \in Requests, CheckWhitelist(r) PROVE IInv'
  <2> DEFINE q == request[r]
             listed == InList(q.client, whitelist_nets)
             next == IF listed THEN Judged(q.client, q.quiet, "whitelisted")
                               ELSE Judged(q.client, q.quiet, "evaluated")
  <2>1. q \in Request /\ QuietOnCourse(q) /\ q.pc = "white"
    BY <1>3 DEF IInv, TypeOK, QuietRequests, CheckWhitelist
  <2>2. q.quiet => /\ listed = InList(q.client, Compiled(config.white)) /\ ~Installing
                   /\ ~InList(q.client, Compiled(config.black))
    BY <2>1, ListsInForce DEF QuietOnCourse
  <2>3. /\ UNCHANGED <<file, edits, pending, manager>>
        /\ request' = [request EXCEPT ![r] = next]
    BY <1>3 DEF CheckWhitelist
  <2> HIDE DEF q, listed
  <2>4. next \in Request
    BY <2>1 DEF Judged, Request
  <2>5. QuietOnCourse(next)
    BY <2>2 DEF Judged, QuietOnCourse, Verdict
  <2> HIDE DEF next
  <2> QED BY <2>3, <2>4, <2>5, RequestStaysCoherent
<1>4. CASE Reload
  BY <1>4, LoadStaysCoherent, InstallEndsQuiet, ClearStaysCoherent, FillStaysCoherent
     DEF Reload
<1>5. CASE UNCHANGED vars
  BY <1>5 DEF vars, manager, IInv, TypeOK, ListsFollowWatcher, InForce, Installing,
              QuietRequests, QuietOnCourse
<1> QED BY <1>1, <1>2, <1>3, <1>4, <1>5, EditStaysCoherent DEF Next

-------------------------------------------------------------------------------

(* The inductive invariant holds in every reachable state. *)
THEOREM Invariance == Spec => []IInv
BY InitIsCoherent, NextStaysCoherent, PTL DEF Spec

(* The variables keep their types: only what the manager may load is ever in *)
(* force, and only networks are ever in a list.                              *)
THEOREM TypeCorrect == Spec => []TypeOK
<1>1. IInv => TypeOK
  BY DEF IInv
<1> QED BY Invariance, <1>1, PTL

(* At every point of _update_acls (middleware.py:27-41) the lists hold       *)
(* entries of one policy only.                                               *)
THEOREM OnePolicy == Spec => []ListsAreOfOnePolicy
<1>1. IInv => ListsAreOfOnePolicy
  <2> SUFFICES ASSUME IInv PROVE ListsAreOfOnePolicy
    OBVIOUS
  <2>1. config \in Loadable /\ watcher \in Watcher
    BY DEF IInv, TypeOK
  <2>2. CASE watcher.pc \in {"wait", "read", "install", "fill_white", "fill_black"}
    <3>1. whitelist_nets \subseteq config.white /\ blacklist_nets \subseteq config.black
      BY <2>2 DEF IInv, ListsFollowWatcher, InForce, Compiled
    <3> QED BY <2>1, <3>1 DEF ListsAreOfOnePolicy
  <2>3. CASE watcher.pc \in {"clear_white", "clear_black"}
    BY <2>3 DEF IInv, ListsFollowWatcher, ListsAreOfOnePolicy, Compiled
  <2> QED BY <2>1, <2>2, <2>3 DEF Watcher
<1> QED BY Invariance, <1>1, PTL

(* A request that no installation overlaps is judged as the policy in force  *)
(* says (middleware.py:77-87).                                               *)
THEOREM QuietVerdicts == Spec => []QuietVerdictsFollowPolicy
<1>1. IInv => QuietVerdictsFollowPolicy
  BY DEF IInv, QuietRequests, QuietOnCourse, QuietVerdictsFollowPolicy
<1> QED BY Invariance, <1>1, PTL

===============================================================================
