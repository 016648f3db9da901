----------------------------- MODULE LatestStore ------------------------------
(***************************************************************************)
(* publishing.store.CDLatestStore: the latest-value cache D reads.  Every  *)
(* method runs under the store's lock, so each one is a single action; a   *)
(* call that raises PublicationRejected changes nothing.                   *)
(*                                                                         *)
(* Spec lets any client call any method with any token and plan.  It is    *)
(* what the store guarantees by itself, before the coordinator disciplines *)
(* its callers.                                                            *)
(***************************************************************************)
EXTENDS RoutePlans

VARIABLES
  active,      \* _active: the token whose holder may publish
  cancelled,   \* _cancelled: that holder gave up
  current,     \* _current: the plan D reads
  previous,    \* _previous
  candidates   \* _candidates, by their labels

storeVars == <<active, cancelled, current, previous, candidates>>

StoreInit ==
  /\ active = NoToken
  /\ cancelled = FALSE
  /\ current = NoPlan
  /\ previous = NoPlan
  /\ candidates = {}

(* Faulty variant: only a cancelled token is turned away.                  *)
RefusedIfCancelled(token) == token = active /\ cancelled

(* What makes activate() raise.                                            *)
Refused(token) ==
  \/ token = active /\ cancelled
  \/ token # active /\ active # NoToken /\ Older(token, active)

(* Faulty variant: the flag of the previous request is not reset.          *)
ActivateStillCancelled(token) ==
  /\ ~Refused(token)
  /\ active' = token
  /\ LET kept == ~ContextChanged(active, token)
     IN  /\ current' = IF kept THEN current ELSE NoPlan
         /\ previous' = IF kept THEN previous ELSE NoPlan
         /\ candidates' = IF kept THEN candidates ELSE {}
  /\ UNCHANGED cancelled

Activate(token) ==
  /\ ~Refused(token)
  /\ active' = token
  /\ cancelled' = FALSE
  /\ LET kept == ~ContextChanged(active, token)
     IN  /\ current' = IF kept THEN current ELSE NoPlan
         /\ previous' = IF kept THEN previous ELSE NoPlan
         /\ candidates' = IF kept THEN candidates ELSE {}

CancelToken(token) ==
  /\ token = active
  /\ cancelled' = TRUE
  /\ UNCHANGED <<active, current, previous, candidates>>

(* Faulty variant: any request of the session passes for the active one.   *)
IsOfSession(token) ==
  active # NoToken /\ token.context = active.context /\ ~cancelled

IsCurrent(token) == token = active /\ ~cancelled

(* The checks publish() makes before it swaps the state.                   *)
MayPublish(plan, labels, token) ==
  /\ IsCurrent(token)
  /\ plan.token = token
  /\ labels \subseteq {LabelOf(plan)}

(* Faulty variants of the swap: the displaced plan is saved after it was   *)
(* overwritten; whole routes are stored where their labels belong.         *)
SwapThenSave(plan, labels) ==
  /\ previous' = IF current \notin {NoPlan, plan} THEN plan ELSE previous
  /\ current' = plan
  /\ candidates' = labels
  /\ UNCHANGED <<active, cancelled>>

SwapWithRoutes(plan, labels) ==
  /\ previous' = IF current \notin {NoPlan, plan} THEN current ELSE previous
  /\ current' = plan
  /\ candidates' = labels \cup {plan}
  /\ UNCHANGED <<active, cancelled>>

(* The state swap of publish().                                            *)
Swap(plan, labels) ==
  /\ previous' = IF current \notin {NoPlan, plan} THEN current ELSE previous
  /\ current' = plan
  /\ candidates' = labels
  /\ UNCHANGED <<active, cancelled>>

PublishPlan(plan, labels, token) ==
  MayPublish(plan, labels, token) /\ Swap(plan, labels)

(* snapshot(run_id, scenario_id, generation_id).current                    *)
SnapshotCurrent(context) ==
  IF /\ active # NoToken
     /\ active.context.run = context.run
     /\ active.context.scenario = context.scenario
     /\ active.context.generation = context.generation
  THEN current ELSE NoPlan

StoreNext ==
  \E token \in Token :
    \/ Activate(token)
    \/ CancelToken(token)
    \/ \E plan \in Plan :
         \/ PublishPlan(plan, {}, token)
         \/ \E other \in Label :
              PublishPlan(plan, {LabelOf(plan), other}, token)

StoreSpec == StoreInit /\ [][StoreNext]_storeVars

-------------------------------------------------------------------------------

(* Every field holds a value of its type.                                  *)
StoreTypeOK ==
  /\ active \in Token \cup {NoToken}
  /\ cancelled \in BOOLEAN
  /\ current \in Plan \cup {NoPlan}
  /\ previous \in Plan \cup {NoPlan}
  /\ candidates \in SUBSET Label

(* What D can read in one snapshot fits together: the current and previous *)
(* plans are of the session the store is fenced to, never of one it left,  *)
(* no plan is newer than the fence, and the candidates shown beside the    *)
(* current plan are of the same request, vessel and corridor.              *)
SnapshotCoherent ==
  /\ current = NoPlan => previous = NoPlan /\ candidates = {}
  /\ current # NoPlan => candidates \subseteq {LabelOf(current)}
  /\ \A plan \in {current, previous} \ {NoPlan} :
       /\ active # NoToken
       /\ plan.token.context = active.context
       /\ plan.token.revision <= active.revision

(* A plan gives way only to a plan of the same or a later input revision   *)
(* of its session, whatever calls clients make: "an older input must not   *)
(* overwrite a newer one".                                                 *)
InputsAdvance ==
  [][ current # NoPlan /\ current' # NoPlan =>
        /\ current'.token.context = current.token.context
        /\ current'.token.revision >= current.token.revision ]_storeVars

===============================================================================
