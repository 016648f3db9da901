--------------------------- MODULE RoutePublication ---------------------------
(***************************************************************************)
(* One session of route planning: PlanningService.execute running in any   *)
(* number of threads, one per request, over one PlanningCoordinator and    *)
(* its CDLatestStore.  A request begins (fences the store and cancels its  *)
(* predecessor), searches, reviews that it is still current, reads the     *)
(* plan on display, passes the switch gate if it is a replanning, and      *)
(* publishes.  The steps of different requests interleave; anyone who      *)
(* holds a handle may cancel it at any time.                               *)
(*                                                                         *)
(* begin(), cancel(), require_current() and publish() each run under the   *)
(* coordinator's lock, which is always taken before the store's: each is   *)
(* one action here, as is the store's snapshot().  Requests that fail      *)
(* their own validation never reach begin() and change nothing, so they    *)
(* are left out.                                                           *)
(***************************************************************************)
EXTENDS LatestStore, SwitchGate

CONSTANTS
  GateReasons,   \* the sets of reasons replannings may carry
  NoRequest

ASSUME RequestAssumption ==
  /\ GateReasons \subseteq SUBSET Reasons
  /\ NoRequest \notin Requests

VARIABLES
  handle,    \* coordinator._active, by its request
  revoked,   \* requests whose handle has its _cancelled event set
  pc,        \* where execute() stands in each request
  task,      \* what each request was begun with
  route,     \* the recommended route it found
  seen,      \* the plan on display it read for the switch gate
  ticket     \* history: the place of each begin() in the order of begins

requestVars == <<handle, revoked, pc, task, route, seen, ticket>>

vars == <<storeVars, requestVars>>

(* A replanning passes the gate (apply_switch_gate), a first plan does not *)
Task ==
  [token : Token, subject : Subjects, gated : {TRUE}, reasons : GateReasons]
    \cup [token : Token, subject : Subjects, gated : {FALSE}, reasons : {{}}]

NoTask == [token |-> NoToken]

Ended == {"refused", "failed", "cancelled", "declined", "published"}

Init ==
  /\ StoreInit
  /\ handle = NoRequest
  /\ revoked = {}
  /\ pc = [r \in Requests |-> "idle"]
  /\ task = [r \in Requests |-> NoTask]
  /\ route = [r \in Requests |-> NoPlan]
  /\ seen = [r \in Requests |-> NoPlan]
  /\ ticket = [r \in Requests |-> 0]

Goto(r, label) == pc' = [pc EXCEPT ![r] = label]

Begun == {r \in Requests : ticket[r] > 0}

(* The newest ticket handed out.                                           *)
LastTicket == IF handle = NoRequest THEN 0 ELSE ticket[handle]

-------------------------------------------------------------------------------
(* PlanningCoordinator                                                     *)

(* Faulty variants: nobody is cancelled; the check for None is missing.    *)
SupersededNobody == {}

SupersededUnchecked == {handle}

(* The handle that begin() cancels.                                        *)
Superseded == {handle} \ {NoRequest}

(* begin(): the store may refuse the token, and then nothing has changed.  *)
Begin(r, t) ==
  /\ pc[r] = "idle"
  /\ t.token.request = r
  /\ \/ /\ Refused(t.token)
        /\ Goto(r, "refused")
        /\ UNCHANGED <<storeVars, handle, revoked, task, route, seen, ticket>>
     \/ /\ Activate(t.token)
        /\ revoked' = revoked \cup Superseded
        /\ handle' = r
        /\ task' = [task EXCEPT ![r] = t]
        /\ ticket' = [ticket EXCEPT ![r] = LastTicket + 1]
        /\ Goto(r, "planning")
        /\ UNCHANGED <<route, seen>>

(* cancel(): the handle's event is set whether or not the store still      *)
(* holds its token.                                                        *)
Cancel(r) ==
  /\ r \in Begun
  /\ revoked' = revoked \cup {r}
  /\ \/ CancelToken(task[r].token)
     \/ task[r].token # active /\ UNCHANGED storeVars
  /\ UNCHANGED <<handle, pc, task, route, seen, ticket>>

(* Faulty variant: any request of the session passes for the active one.   *)
StillSameSession(r) ==
  active # NoToken /\ task[r].token.context = active.context

(* require_current() does not raise.  The handle's event is read before    *)
(* the lock is taken; it is never reset, and while the handle is the       *)
(* active one a cancel also shows in the store, so reading all three at    *)
(* once decides the same.                                                  *)
StillCurrent(r) ==
  /\ r \notin revoked
  /\ handle = r
  /\ IsCurrent(task[r].token)

-------------------------------------------------------------------------------
(* PlanningService.execute                                                 *)

(* plan_candidates() returns a route per objective.                        *)
FindRoutes(r, cost, risk) ==
  /\ pc[r] = "planning"
  /\ route' = [route EXCEPT ![r] = [token |-> task[r].token,
                                    subject |-> task[r].subject,
                                    cost |-> cost, risk |-> risk]]
  /\ Goto(r, "found")
  /\ UNCHANGED <<storeVars, handle, revoked, task, seen, ticket>>

(* The search polls the handle and stops when it was cancelled.            *)
StopSearch(r) ==
  /\ pc[r] = "planning"
  /\ r \in revoked
  /\ Goto(r, "cancelled")
  /\ UNCHANGED <<storeVars, handle, revoked, task, route, seen, ticket>>

(* The search finds no admissible route, or a check of the results or of   *)
(* the clock raises.                                                       *)
Fail(r) ==
  /\ pc[r] \in {"planning", "reviewed"}
  /\ Goto(r, "failed")
  /\ UNCHANGED <<storeVars, handle, revoked, task, route, seen, ticket>>

(* require_current() after the search.                                     *)
Review(r) ==
  /\ pc[r] = "found"
  /\ Goto(r, IF StillCurrent(r) THEN "reviewed" ELSE "cancelled")
  /\ UNCHANGED <<storeVars, handle, revoked, task, route, seen, ticket>>

(* Read the plan on display; a replanning compares its route with it.  The *)
(* gate itself touches nothing another request can see.                    *)
ReadDisplayed(r) ==
  /\ pc[r] = "reviewed"
  /\ LET displayed == SnapshotCurrent(task[r].token.context)
         accepted  == task[r].gated =>
                        GateAccepts(displayed, route[r], task[r].reasons)
     IN  /\ seen' = [seen EXCEPT ![r] = displayed]
         /\ Goto(r, IF accepted THEN "accepted" ELSE "rejected")
  /\ UNCHANGED <<storeVars, handle, revoked, task, route, ticket>>

(* A rejected switch is reported, unless the request was overtaken.        *)
Decline(r) ==
  /\ pc[r] = "rejected"
  /\ Goto(r, IF StillCurrent(r) THEN "declined" ELSE "cancelled")
  /\ UNCHANGED <<storeVars, handle, revoked, task, route, seen, ticket>>

(* Faulty variant: the review made after the search is thought enough.     *)
ReviewedBefore(r) == route[r].token = task[r].token

(* What coordinator.publish(), and the store again, check before the swap. *)
(* The candidates are the routes of the two other objectives.              *)
MayStillPublish(r) ==
  /\ handle = r
  /\ r \notin revoked
  /\ MayPublish(route[r], {LabelOf(route[r])}, task[r].token)

(* coordinator.publish(): the final review and the swap under one lock.    *)
Publish(r) ==
  /\ pc[r] = "accepted"
  /\ \/ /\ MayStillPublish(r)
        /\ Swap(route[r], {LabelOf(route[r])})
        /\ Goto(r, "published")
     \/ /\ ~MayStillPublish(r)
        /\ Goto(r, "cancelled")
        /\ UNCHANGED storeVars
  /\ UNCHANGED <<handle, revoked, task, route, seen, ticket>>

Execute(r) ==
  \/ \E cost \in Costs, risk \in Risks : FindRoutes(r, cost, risk)
  \/ StopSearch(r)
  \/ Fail(r)
  \/ Review(r)
  \/ ReadDisplayed(r)
  \/ Decline(r)
  \/ Publish(r)

Next ==
  \E r \in Requests :
    \/ \E t \in Task : Begin(r, t)
    \/ Cancel(r)
    \/ Execute(r)

(* A thread that is inside execute() keeps running: the search is bounded  *)
(* by max_expansions and no call blocks for long.  Nobody has to begin or  *)
(* cancel a request.                                                       *)
Fairness == \A r \in Requests : WF_vars(Execute(r))

Spec == Init /\ [][Next]_vars

FairSpec == Spec /\ Fairness

-------------------------------------------------------------------------------
(* Properties                                                              *)

(* Every variable holds a value of its type; in particular only requests   *)
(* that began are ever revoked.                                            *)
TypeOK ==
  /\ StoreTypeOK
  /\ handle \in Requests \cup {NoRequest}
  /\ revoked \in SUBSET Requests
  /\ pc \in [Requests -> Ended \cup {"idle", "planning", "found", "reviewed",
                                     "accepted", "rejected"}]
  /\ task \in [Requests -> Task \cup {NoTask}]
  /\ route \in [Requests -> Plan \cup {NoPlan}]
  /\ seen \in [Requests -> Plan \cup {NoPlan}]
  /\ ticket \in [Requests -> Nat]

(* The coordinator and its store never disagree about who may publish:     *)
(* the store is fenced to the token of the active handle, it is cancelled  *)
(* exactly when that handle is, and every earlier handle is revoked.       *)
FencesAgree ==
  /\ handle = NoRequest => active = NoToken /\ Begun = {}
  /\ handle # NoRequest =>
       /\ handle \in Begun
       /\ active = task[handle].token
       /\ cancelled <=> handle \in revoked
       /\ Begun \ {handle} \subseteq revoked

(* Requests that began are numbered without gaps in the order of begins,   *)
(* and only they run or are revoked.                                       *)
Numbered ==
  /\ \A r \in Begun : pc[r] # "idle"
  /\ \A r \in Requests : pc[r] \notin {"idle", "refused"} => r \in Begun
  /\ revoked \subseteq Begun
  /\ {ticket[r] : r \in Begun} = 1..LastTicket
  /\ \A r, q \in Begun : ticket[r] = ticket[q] => r = q

(* A plan in flight or on display carries the token of the request that    *)
(* found it, and in flight its subject.                                    *)
Tagged ==
  /\ \A r \in Begun : task[r] \in Task /\ task[r].token.request = r
  /\ \A r \in Requests :
       pc[r] \in {"found", "reviewed", "accepted", "rejected"} =>
         /\ route[r] \in Plan
         /\ route[r].token = task[r].token
         /\ route[r].subject = task[r].subject
  /\ \A plan \in {current, previous} \ {NoPlan} :
       /\ plan.token.request \in Begun
       /\ plan.token = task[plan.token.request].token

(* The plan that an unrevoked request compared its route with is still the *)
(* one on display.                                                         *)
SeenIsDisplayed ==
  \A r \in Requests \ revoked :
    pc[r] \in {"accepted", "rejected"} => seen[r] = current

(* The history of begins, the plans and the switch decisions fit together, *)
(* whatever the threads have done so far.                                  *)
RequestsConsistent == Numbered /\ Tagged /\ SeenIsDisplayed

(* A request reports that it was cancelled only if somebody cancelled it   *)
(* or a later request took its place: the newest one cannot lose its       *)
(* result to a predecessor that is still running.                          *)
CancelledForAReason ==
  \A r \in Requests : pc[r] = "cancelled" => r \in revoked

(* Results become visible in the order of the data they were computed      *)
(* from: of two published requests of one run the later one has no older   *)
(* generation and, within it, no older input revision, however their       *)
(* searches overlapped.  Each run has a coordinator of its own (see        *)
(* ingress._session_for); one shared by several runs starts over with      *)
(* every change of run, hence the premise.                                 *)
OneRun == \A c, d \in Contexts : c.run = d.run

PublishedInInputOrder ==
  OneRun =>
    \A r, q \in Requests :
      /\ pc[r] = "published"
      /\ pc[q] = "published"
      /\ ticket[r] < ticket[q]
      => ~Older(task[q].token, task[r].token)

(* D's "previous" is the plan the current one displaced, so it was begun   *)
(* earlier.                                                                *)
PreviousIsEarlier ==
  current # NoPlan /\ previous # NoPlan =>
    ticket[previous.token.request] < ticket[current.token.request]

(* The plan a publication displaces is the one its switch decision was     *)
(* made against: nothing slips in between the snapshot and the swap.       *)
Publishes(r) == pc[r] = "accepted" /\ pc'[r] = "published"

GateSawWhatItReplaced ==
  [][ \A r \in Requests : Publishes(r) => seen[r] = current ]_vars

(* A replanning that no event or operator forced never shows D a route of  *)
(* another vessel or corridor, never one riskier by more than the          *)
(* hysteresis, and a costlier one only for a real reduction of risk.       *)
SwitchIsAnImprovement ==
  [][ \A r \in Requests :
        /\ Publishes(r)
        /\ task[r].gated
        /\ task[r].reasons \cap {"EVENT", "MANUAL"} = {}
        /\ current # NoPlan
        => /\ current'.subject = current.subject
           /\ current'.risk <= current.risk + RiskHysteresis
           /\ \/ current'.cost <= current.cost
              \/ current'.risk <= current.risk - RiskHysteresis ]_vars

(* The promise to D: the display is only ever replaced by the newest       *)
(* request, and never after that request was cancelled.                    *)
Promise == INSTANCE LatestWins WITH
  tickets <- LastTicket,
  closed  <- {ticket[r] : r \in revoked},
  shown   <- IF current = NoPlan THEN 0 ELSE ticket[current.token.request]

LatestWinsSpec == Promise!Spec

(* A request that began comes to a result of its own, published, declined  *)
(* by the gate or failed, unless it is revoked.                            *)
ServedUnlessRevoked ==
  \A r \in Requests :
    r \in Begun ~> r \in revoked \/ pc[r] \in {"published", "declined", "failed"}

===============================================================================
