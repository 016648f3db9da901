-------------------------- MODULE LayeredPublication --------------------------
(***************************************************************************)
(* The four-layer (v3) service beside the v2 one in the same session:      *)
(* FourLayerPlanningService.execute fences two things, the coordinator     *)
(* (with the v2 store behind it) and a LayeredRoutePlanLatestStore that    *)
(* the coordinator knows nothing about.  It begins, then activates the     *)
(* layered store; it makes its final review with the coordinator, then     *)
(* publishes to the layered store.  Neither pair is one atomic step.       *)
(*                                                                         *)
(* The full-voyage layer and the three shorter ones are planned one after  *)
(* the other into local values and published as one set, so that a set is  *)
(* one plan here, standing for its recommended full-voyage route.          *)
(***************************************************************************)
EXTENDS RoutePublication

CONSTANT LayeredRequests   \* the requests that ask for the v3 service

ASSUME LayeredAssumption == LayeredRequests \subseteq Requests

VARIABLES
  layeredActive,     \* layered_store._active
  layeredCancelled,  \* layered_store._cancelled
  layeredCurrent,    \* layered_store._current
  layeredPrevious    \* layered_store._previous

layeredVars ==
  <<layeredActive, layeredCancelled, layeredCurrent, layeredPrevious>>

allVars == <<vars, layeredVars>>

(* LayeredRoutePlanLatestStore has the methods of CDLatestStore, without   *)
(* candidates.  No service ever calls its cancel().                        *)
Layered == INSTANCE LatestStore WITH
  active     <- layeredActive,
  cancelled  <- layeredCancelled,
  current    <- layeredCurrent,
  previous   <- layeredPrevious,
  candidates <- {}

LayeredInit == Init /\ Layered!StoreInit

(* self.store.activate(handle.token): a second step after begin().         *)
ActivateLayered(r) ==
  /\ pc[r] = "planning"
  /\ \/ Layered!Activate(task[r].token) /\ Goto(r, "activated")
     \/ /\ Layered!Refused(task[r].token)
        /\ Goto(r, "refused")
        /\ UNCHANGED layeredVars
  /\ UNCHANGED <<storeVars, handle, revoked, task, route, seen, ticket>>

(* Four layers, one search each.  The review after every search but the    *)
(* last is covered by StopLayers: it raises only for a revoked handle.     *)
FindLayers(r, cost, risk) ==
  /\ pc[r] = "activated"
  /\ route' = [route EXCEPT ![r] = [token |-> task[r].token,
                                    subject |-> task[r].subject,
                                    cost |-> cost, risk |-> risk]]
  /\ Goto(r, "found")
  /\ UNCHANGED <<storeVars, layeredVars, handle, revoked, task, seen, ticket>>

StopLayers(r) ==
  /\ pc[r] = "activated"
  /\ r \in revoked
  /\ Goto(r, "cancelled")
  /\ UNCHANGED <<storeVars, layeredVars, handle, revoked, task, route, seen,
                 ticket>>

(* One failing layer fails the request, with nothing published.            *)
FailLayers(r) ==
  /\ pc[r] \in {"activated", "reviewed"}
  /\ Goto(r, "failed")
  /\ UNCHANGED <<storeVars, layeredVars, handle, revoked, task, route, seen,
                 ticket>>

ReadDisplayedSet(r) ==
  /\ pc[r] = "reviewed"
  /\ LET displayed == Layered!SnapshotCurrent(task[r].token.context)
         accepted  == task[r].gated =>
                        GateAccepts(displayed, route[r], task[r].reasons)
     IN  /\ seen' = [seen EXCEPT ![r] = displayed]
         /\ Goto(r, IF accepted THEN "accepted" ELSE "rejected")
  /\ UNCHANGED <<storeVars, layeredVars, handle, revoked, task, route, ticket>>

(* coordinator.require_current() before the publication.                   *)
FinalReview(r) ==
  /\ pc[r] = "accepted"
  /\ Goto(r, IF StillCurrent(r) THEN "cleared" ELSE "cancelled")
  /\ UNCHANGED <<storeVars, layeredVars, handle, revoked, task, route, seen,
                 ticket>>

(* layered_store.publish(): only its own fence is checked again.           *)
PublishSet(r) ==
  /\ pc[r] = "cleared"
  /\ \/ Layered!PublishPlan(route[r], {}, task[r].token) /\ Goto(r, "published")
     \/ /\ ~Layered!MayPublish(route[r], {}, task[r].token)
        /\ Goto(r, "cancelled")
        /\ UNCHANGED layeredVars
  /\ UNCHANGED <<storeVars, handle, revoked, task, route, seen, ticket>>

ExecuteLayered(r) ==
  \/ ActivateLayered(r)
  \/ \E cost \in Costs, risk \in Risks : FindLayers(r, cost, risk)
  \/ StopLayers(r)
  \/ FailLayers(r)
  \/ Review(r) /\ UNCHANGED layeredVars
  \/ ReadDisplayedSet(r)
  \/ Decline(r) /\ UNCHANGED layeredVars
  \/ FinalReview(r)
  \/ PublishSet(r)

ExecuteAny(r) ==
  \/ r \in LayeredRequests /\ ExecuteLayered(r)
  \/ r \notin LayeredRequests /\ Execute(r) /\ UNCHANGED layeredVars

LayeredNext ==
  \E r \in Requests :
    \/ (\E t \in Task : Begin(r, t)) /\ UNCHANGED layeredVars
    \/ Cancel(r) /\ UNCHANGED layeredVars
    \/ ExecuteAny(r)

LayeredSpec == LayeredInit /\ [][LayeredNext]_allVars

-------------------------------------------------------------------------------
(* Properties                                                              *)

(* What D reads from the layered store fits together, as for the v2 store. *)
SetSnapshotCoherent == Layered!SnapshotCoherent

(* The layered display may lag behind the coordinator but never goes back: *)
(* a set is replaced only by a set of a later request.                     *)
SetsAdvance ==
  [][ layeredCurrent # NoPlan /\ layeredCurrent' \notin {NoPlan, layeredCurrent}
        => ticket[layeredCurrent.token.request]
             < ticket[layeredCurrent'.token.request] ]_allVars

(* A published set displaces the set its switch decision was made against. *)
SetGateSawWhatItReplaced ==
  [][ \A r \in Requests :
        pc[r] = "cleared" /\ pc'[r] = "published" => seen[r] = layeredCurrent
    ]_allVars

(* The v3 requests leave the v2 fences intact: a v2 request still loses    *)
(* its result only when it is revoked, although v3 requests begin through  *)
(* the same coordinator.                                                   *)
V2CancelledForAReason ==
  \A r \in Requests \ LayeredRequests : pc[r] = "cancelled" => r \in revoked

(* A request whose layered activation is refused was superseded before:    *)
(* the layered fence never turns down the coordinator's active request.    *)
(* (In one run; see PublishedInInputOrder.)                                *)
RefusedAfterBeingSuperseded ==
  OneRun =>
    \A r \in Begun : pc[r] = "refused" => r \in revoked

(* "A cancelled or late task must not write latest"                        *)
(* (docs/ARCHITECTURE_AND_DECISIONS.md:90), of late tasks and the layered  *)
(* latest: a set appears only while the request that found it is the       *)
(* coordinator's active one.                                               *)
NoLateSet ==
  [][ layeredCurrent' \notin {NoPlan, layeredCurrent} =>
        layeredCurrent'.token.request = handle ]_allVars

(* "A cooperative cancellation request stopped the planner" (errors.py:25) *)
(* is what a v3 request reports when its result is rejected: somebody      *)
(* cancelled it or began after it.                                         *)
SetCancelledForAReason ==
  \A r \in LayeredRequests : pc[r] = "cancelled" => r \in revoked

===============================================================================
