------------------------------ MODULE PolicyReload ------------------------------
(***************************************************************************)
(* ConfigManager and IngestionMiddleware: the policy file is edited, the   *)
(* watcher thread reloads it and rebuilds the whitelist and the blacklist  *)
(* in place, and requests are judged by the lists on the event loop.       *)
(*                                                                         *)
(* The two threads may switch between any two steps.  An action is one     *)
(* access to what they share: the file, the queue of events, the current   *)
(* policy, and the two lists.                                              *)
(*                                                                         *)
(* A policy is its two access lists, as sets: the order of the entries of  *)
(* a list decides nothing once they are installed, and while they are any  *)
(* order is allowed here.                                                  *)
(***************************************************************************)
EXTENDS Integers

CONSTANTS
  Clients,     \* client IPs, among them strings that are no IP
  Entries,     \* strings that may stand in an access list
  Members,     \* entry that is a network -> the clients in it
  Policies,    \* policies an operator may write
  Unreadable,  \* contents that do not parse or do not validate
  PartsOf,     \* policy -> the contents a partly written file of it may have
  Requests,    \* requests in flight
  MaxEdits,    \* bound: how often the file is edited
  MaxPending   \* bound: events in the observer's queue

Networks == DOMAIN Members

Policy == [white : SUBSET Entries, black : SUBSET Entries]

ASSUME PolicyAssumption ==
  /\ Networks \subseteq Entries
  /\ Members \in [Networks -> SUBSET Clients]
  /\ Policies \subseteq Policy
  /\ Unreadable \notin Policy
  /\ PartsOf \in [Policies -> SUBSET (Policy \union {Unreadable})]
  /\ MaxEdits \in Nat
  /\ MaxPending \in Nat \ {0}

(* Policies the manager may load: AppConfig has a default for every section  *)
(* but one, so a file that breaks off after it is a policy too.              *)
Loadable ==
  Policies \union ((UNION {PartsOf[p] : p \in Policies}) \ {Unreadable})

VARIABLES
  file,            \* the contents of the policy file
          \* is an edit of the file under way?
  edits,           \* edits so far
  pending,         \* modification events in the observer's queue
  watcher,         \* the watcher thread: where it is, and its locals
  config,          \* _config
  whitelist_nets,
  blacklist_nets,
  request          \* request -> where its dispatch is, and its verdict

manager == <<watcher, config, whitelist_nets, blacklist_nets>>

vars == <<file, edits, pending, manager, request>>

(* pc: the statement the thread executes next.  new: new_config.             *)
(* left: the entries the loop has still to visit.                            *)
Watcher ==
  [pc : {"wait", "read", "install", "clear_white", "clear_black", "fill_white", "fill_black"},
   new : Loadable, left : SUBSET Entries]

(* quiet: no policy was being installed since the request arrived. *)
Request ==
  [pc : {"black", "white", "done"}, client : Clients, quiet : BOOLEAN,
   verdict : {"refused", "whitelisted", "evaluated"}]

Judged(c, quiet, verdict) ==
  [pc |-> "done", client |-> c, quiet |-> quiet, verdict |-> verdict]

(* _update_acls with all its steps taken. *)
Compiled(entries) == entries \intersect Networks

(* _is_ip_in_list.  A string that is no IP is in no network. *)
InList(c, nets) == \E n \in nets : c \in Members[n]

(* What dispatch does with client c under policy p. *)
Verdict(p, c) ==
  IF InList(c, Compiled(p.black)) THEN "refused"
  ELSE IF InList(c, Compiled(p.white)) THEN "whitelisted"
  ELSE "evaluated"

(* The program has started with the policy in the file. *)
Init ==
  /\ config \in Policies
  /\ file = config
  /\ edits = 0
  /\ pending = 0
  /\ watcher = [pc |-> "wait", new |-> config, left |-> {}]
  /\ whitelist_nets = Compiled(config.white)
  /\ blacklist_nets = Compiled(config.black)
  /\ \E c \in Clients :
       request = [r \in Requests |-> Judged(c, TRUE, Verdict(config, c))]

-------------------------------------------------------------------------------
(***************************************************************************)
(* The operator edits the file in place.  Every write to it is an event    *)
(* that the observer queues for its thread; it may be merged with one that *)
(* is waiting already.                                                     *)
(***************************************************************************)

Written(content) ==
  /\ file' = content
  /\ pending' \in {pending, pending + 1} \intersect 1..MaxPending
  /\ UNCHANGED <<manager, request>>

(* The file is truncated, or holds a part of what is being written. *)
WritePart ==
  /\ edits < MaxEdits
  /\ \E p \in Policies : \E part \in PartsOf[p] : Written(part)
  /\ UNCHANGED edits

(* The file holds all that was to be written, which may not be a policy. *)
FinishEdit ==
  /\ edits < MaxEdits
  /\ \E content \in Policies \union {Unreadable} : Written(content)
  /\ edits' = edits + 1

-------------------------------------------------------------------------------
(***************************************************************************)
(* The watcher thread.                                                     *)
(***************************************************************************)

(* on_modified is called for the policy file. *)
OnModified ==
  /\ watcher.pc = "wait"
  /\ pending > 0
  /\ pending' = pending - 1
  /\ watcher' = [watcher EXCEPT !.pc = "read"]
  /\ UNCHANGED <<file, edits, config, whitelist_nets, blacklist_nets, request>>

(* Mutant: the exception ends the observer's thread. *)
MutantAfterFailure == [watcher EXCEPT !.pc = "dead"]

(* A file that cannot be loaded is reported and ignored. *)
AfterFailure == [watcher EXCEPT !.pc = "wait"]

(* reload_config reads and validates the file. *)
Read ==
  /\ watcher.pc = "read"
  /\ watcher' = IF file = Unreadable THEN AfterFailure
                ELSE [watcher EXCEPT !.pc = "install", !.new = file]
  /\ UNCHANGED <<file, edits, pending, config, whitelist_nets, blacklist_nets, request>>

(* _config is replaced; the callbacks follow.  No request is quiet any more. *)
Install ==
  /\ watcher.pc = "install"
  /\ config' = watcher.new
  /\ watcher' = [watcher EXCEPT !.pc = "clear_white"]
  /\ request' = [r \in Requests |-> [request[r] EXCEPT !.quiet = FALSE]]
  /\ UNCHANGED <<file, edits, pending, whitelist_nets, blacklist_nets>>

(* Mutant: the new entries are added to the old ones. *)
MutantCleared(nets) == nets

(* The list is replaced by an empty one. *)
Cleared(nets) == {}

ClearWhite ==
  /\ watcher.pc = "clear_white"
  /\ whitelist_nets' = Cleared(whitelist_nets)
  /\ watcher' = [watcher EXCEPT !.pc = "clear_black"]
  /\ UNCHANGED <<file, edits, pending, config, blacklist_nets, request>>

ClearBlack ==
  /\ watcher.pc = "clear_black"
  /\ blacklist_nets' = Cleared(blacklist_nets)
  /\ watcher' = [watcher EXCEPT !.pc = "fill_white", !.left = watcher.new.white]
  /\ UNCHANGED <<file, edits, pending, config, whitelist_nets, request>>

(* Mutant: an entry is added without being parsed. *)
MutantAppended(nets, e) == nets \union {e}

(* The list with entry e, unless e is no network. *)
Appended(nets, e) == nets \union Compiled({e})

(* Mutant: an entry that is no network ends the loop. *)
MutantLeft(e) == IF e \in Networks THEN watcher.left \ {e} ELSE {}

(* The entries left after e, whether it is a network or not. *)
Left(e) == watcher.left \ {e}

FillWhite ==
  /\ watcher.pc = "fill_white"
  /\ \/ \E e \in watcher.left :
          /\ whitelist_nets' = Appended(whitelist_nets, e)
          /\ watcher' = [watcher EXCEPT !.left = Left(e)]
     \/ /\ watcher.left = {}
        /\ watcher' = [watcher EXCEPT !.pc = "fill_black", !.left = watcher.new.black]
        /\ UNCHANGED whitelist_nets
  /\ UNCHANGED <<file, edits, pending, config, blacklist_nets, request>>

FillBlack ==
  /\ watcher.pc = "fill_black"
  /\ \/ \E e \in watcher.left :
          /\ blacklist_nets' = Appended(blacklist_nets, e)
          /\ watcher' = [watcher EXCEPT !.left = Left(e)]
     \/ /\ watcher.left = {}
        /\ watcher' = [watcher EXCEPT !.pc = "wait"]
        /\ UNCHANGED blacklist_nets
  /\ UNCHANGED <<file, edits, pending, config, whitelist_nets, request>>

Installing == watcher.pc \in {"clear_white", "clear_black", "fill_white", "fill_black"}

-------------------------------------------------------------------------------
(***************************************************************************)
(* dispatch, on the event loop.  A list grows while any() walks it, or is  *)
(* replaced by another; either way the answer is that of some instant of   *)
(* the walk, so each check is one step.                                    *)
(***************************************************************************)

Arrive(r, c) ==
  /\ request[r].pc = "done"
  /\ request' = [request EXCEPT ![r] =
                   [pc |-> "black", client |-> c, quiet |-> ~Installing,
                    verdict |-> "evaluated"]]
  /\ UNCHANGED <<file, edits, pending, manager>>

CheckBlacklist(r) ==
  LET q == request[r]
  IN  /\ q.pc = "black"
      /\ request' = [request EXCEPT ![r] =
                       IF InList(q.client, blacklist_nets)
                       THEN Judged(q.client, q.quiet, "refused")
                       ELSE [q EXCEPT !.pc = "white"]]
      /\ UNCHANGED <<file, edits, pending, manager>>

CheckWhitelist(r) ==
  LET q == request[r]
  IN  /\ q.pc = "white"
      /\ request' = [request EXCEPT ![r] =
                       IF InList(q.client, whitelist_nets)
                       THEN Judged(q.client, q.quiet, "whitelisted")
                       ELSE Judged(q.client, q.quiet, "evaluated")]
      /\ UNCHANGED <<file, edits, pending, manager>>

-------------------------------------------------------------------------------

Reload ==
  OnModified \/ Read \/ Install \/ ClearWhite \/ ClearBlack \/ FillWhite \/ FillBlack

Next ==
  \/ WritePart \/ FinishEdit
  \/ Reload
  \/ \E r \in Requests, c \in Clients : Arrive(r, c)
  \/ \E r \in Requests : CheckBlacklist(r) \/ CheckWhitelist(r)

Spec == Init /\ [][Next]_vars

(* The watcher thread is scheduled again and again while it has work to do. *)
FairSpec == Spec /\ WF_vars(Reload)

-------------------------------------------------------------------------------
(***************************************************************************)
(* Properties.                                                             *)
(***************************************************************************)

(* The variables keep their types; only networks ever get into the lists. *)
TypeOK ==
  /\ file \in Loadable \union {Unreadable}
  /\ edits \in 0..MaxEdits
  /\ pending \in 0..MaxPending
  /\ watcher \in Watcher
  /\ config \in Loadable
  /\ whitelist_nets \subseteq Networks
  /\ blacklist_nets \subseteq Networks
  /\ request \in [Requests -> Request]

(* The lists, one cleared or half filled as they may be, never hold entries  *)
(* of two policies: there is always one policy that contains them both.      *)
ListsAreOfOnePolicy ==
  \E p \in Loadable : whitelist_nets \subseteq p.white /\ blacklist_nets \subseteq p.black

(* A request during which no policy is being installed gets the verdict of   *)
(* the policy in force, blacklist before whitelist and networks that overlap *)
(* included: no reload, also none of a file that breaks off or fails, leaves *)
(* anything behind that a later request could trip over.                     *)
QuietVerdictsFollowPolicy ==
  \A r \in Requests :
    request[r].pc = "done" /\ request[r].quiet
      => request[r].verdict = Verdict(config, request[r].client)

(* The policy p is in force, in all its parts. *)
InForce(p) ==
  /\ config = p
  /\ whitelist_nets = Compiled(p.white)
  /\ blacklist_nets = Compiled(p.black)

(* A policy that was written completely and is not edited again is in force  *)
(* after some time and stays so, although events are merged, arrive during a *)
(* reload, and come before the file is complete.                             *)
EditsTakeEffect ==
  \A p \in Policies :
    (edits = MaxEdits /\ file = p) ~> [](InForce(p))

(* A client that every policy refuses is refused, also during a reload:      *)
(* "Enforces whitelists and blacklists using CIDR blocks" (README.md:40) and *)
(* "hot-reload policies without restarting or dropping connections"          *)
(* (README.md:146).  Does not hold: _update_acls empties the lists in place  *)
(* before it fills them again, the whitelist first.                          *)
BlacklistedAreRefused ==
  \A r \in Requests :
    /\ request[r].pc = "done"
    /\ \A p \in Loadable : Verdict(p, request[r].client) = "refused"
    => request[r].verdict = "refused"

===============================================================================
