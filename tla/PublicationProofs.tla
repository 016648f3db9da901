--------------------------- MODULE PublicationProofs ---------------------------
(***************************************************************************)
(* What a CDLatestStore guarantees whatever its clients do; what one       *)
(* session of v2 planning does with it, for any number of requests and any *)
(* contexts, revisions, costs and risks; and what the second, independently*)
(* fenced store of the four-layer service still guarantees, for any number *)
(* of requests of either service.  A request that began has finitely many  *)
(* steps to its end, whatever the others do.                               *)
(***************************************************************************)
EXTENDS LayeredPublication, TLAPS

-------------------------------------------------------------------------------
(* The store                                                               *)

LEMMA RevisionIsNat == \A t \in Token : t.revision \in Nat
BY PlanAssumption DEF Token

(* Among tokens of one context, the one that is not older carries at least *)
(* the same revision.                                                      *)
LEMMA NotOlderInContext ==
  ASSUME NEW s \in Token, NEW t \in Token,
         s.context = t.context, ~Older(t, s)
  PROVE  s.revision <= t.revision
<1>1. s.revision \in Nat /\ t.revision \in Nat
  BY RevisionIsNat
<1>2. ~(t.revision < s.revision)
  BY DEF Older
<1> QED
  BY <1>1, <1>2

(* Every method leaves every field of the store in its type.               *)
THEOREM StoreTypeCorrect == StoreSpec => []StoreTypeOK
<1>1. StoreInit => StoreTypeOK
  BY DEF StoreInit, StoreTypeOK
<1>2. StoreTypeOK /\ [StoreNext]_storeVars => StoreTypeOK'
  <2> SUFFICES ASSUME StoreTypeOK, [StoreNext]_storeVars
               PROVE  StoreTypeOK'
    OBVIOUS
  <2>1. ASSUME NEW token \in Token, Activate(token)
        PROVE  StoreTypeOK'
    BY <2>1 DEF StoreTypeOK, Activate
  <2>2. ASSUME NEW token \in Token, CancelToken(token)
        PROVE  StoreTypeOK'
    BY <2>2 DEF StoreTypeOK, CancelToken
  <2>3. ASSUME NEW token \in Token, NEW plan \in Plan, NEW labels \in SUBSET Label,
               PublishPlan(plan, labels, token)
        PROVE  StoreTypeOK'
    BY <2>3 DEF StoreTypeOK, PublishPlan, Swap
  <2>4. \A plan \in Plan : LabelOf(plan) \in Label
    BY DEF Plan, Label, LabelOf
  <2>5. CASE UNCHANGED storeVars
    BY <2>5 DEF StoreTypeOK, storeVars
  <2> QED
    <3>1. CASE StoreNext
      <4>1. PICK token \in Token :
              \/ Activate(token)
              \/ CancelToken(token)
              \/ \E plan \in Plan, labels \in SUBSET Label :
                   PublishPlan(plan, labels, token)
        BY <3>1, <2>4 DEF StoreNext
      <4> QED
        BY <4>1, <2>1, <2>2, <2>3
    <3> QED
      BY <3>1, <2>5
<1> QED
  BY <1>1, <1>2, PTL DEF StoreSpec

(* A coherent store stays coherent through each of its methods.  Stated    *)
(* step by step, for the modules that call the methods themselves.         *)
LEMMA ActivateKeepsCoherence ==
  ASSUME StoreTypeOK, SnapshotCoherent, NEW token \in Token, Activate(token)
  PROVE  SnapshotCoherent'
<1>1. CASE ContextChanged(active, token)
  BY <1>1 DEF SnapshotCoherent, Activate
<1>2. CASE ~ContextChanged(active, token)
  <2>1. current' = current /\ previous' = previous /\ candidates' = candidates
    BY <1>2 DEF Activate
  <2>2. ASSUME NEW plan \in {current, previous} \ {NoPlan}
        PROVE  /\ plan.token.context = token.context
               /\ plan.token.revision <= token.revision
    <3>1. /\ active \in Token
          /\ active.context = token.context
          /\ plan.token.context = active.context
          /\ plan.token.revision <= active.revision
      BY <1>2 DEF SnapshotCoherent, StoreTypeOK, ContextChanged
    <3>2. active.revision <= token.revision
      <4>1. CASE token = active
        BY <4>1, RevisionIsNat
      <4>2. CASE token # active
        <5>1. ~Older(token, active)
          BY <4>2, <3>1, PlanAssumption DEF Activate, Refused
        <5> QED
          BY <5>1, <3>1, NotOlderInContext
      <4> QED
        BY <4>1, <4>2
    <3>3. plan.token.revision \in Nat /\ active.revision \in Nat
                                     /\ token.revision \in Nat
      BY <3>1, RevisionIsNat DEF StoreTypeOK, Plan
    <3> QED
      BY <3>1, <3>2, <3>3
  <2>3. active' = token /\ token # NoToken
    BY PlanAssumption DEF Activate
  <2> QED
    BY <2>1, <2>2, <2>3 DEF SnapshotCoherent
<1> QED
  BY <1>1, <1>2

LEMMA PublishKeepsCoherence ==
  ASSUME StoreTypeOK, SnapshotCoherent,
         NEW token \in Token, NEW plan \in Plan, NEW labels,
         PublishPlan(plan, labels, token)
  PROVE  SnapshotCoherent'
<1>1. /\ active = token /\ active' = active /\ plan.token = token
      /\ current' = plan /\ plan # NoPlan
      /\ candidates' = labels /\ labels \subseteq {LabelOf(plan)}
      /\ previous' \in {current, previous}
  BY PlanAssumption DEF PublishPlan, MayPublish, IsCurrent, Swap
<1>2. /\ plan.token.context = token.context
      /\ plan.token.revision <= token.revision
  BY <1>1, RevisionIsNat
<1>3. \A p \in {current, previous} \ {NoPlan} :
         p.token.context = token.context /\ p.token.revision <= token.revision
  BY <1>1 DEF SnapshotCoherent
<1>4. token # NoToken
  BY PlanAssumption
<1> QED
  BY <1>1, <1>2, <1>3, <1>4 DEF SnapshotCoherent

(* Every state D can read is coherent.                                     *)
THEOREM StoreCoherent == StoreSpec => []SnapshotCoherent
<1>1. StoreInit => SnapshotCoherent
  BY DEF StoreInit, SnapshotCoherent
<1>2. StoreTypeOK /\ SnapshotCoherent /\ [StoreNext]_storeVars => SnapshotCoherent'
  <2> SUFFICES ASSUME StoreTypeOK, SnapshotCoherent, [StoreNext]_storeVars
               PROVE  SnapshotCoherent'
    OBVIOUS
  <2>1. ASSUME NEW token \in Token, CancelToken(token)
        PROVE  SnapshotCoherent'
    BY <2>1 DEF CancelToken, SnapshotCoherent
  <2>2. CASE UNCHANGED storeVars
    BY <2>2 DEF storeVars, SnapshotCoherent
  <2> QED
    BY <2>1, <2>2, ActivateKeepsCoherence, PublishKeepsCoherence DEF StoreNext
<1> QED
  BY <1>1, <1>2, StoreTypeCorrect, PTL DEF StoreSpec

(* A plan on display gives way only to a plan of the same session whose    *)
(* input is at least as new.                                               *)
THEOREM StoreInputsAdvance == StoreSpec => InputsAdvance
<1> DEFINE Advance ==
      current # NoPlan /\ current' # NoPlan =>
        /\ current'.token.context = current.token.context
        /\ current'.token.revision >= current.token.revision
<1>1. StoreTypeOK /\ SnapshotCoherent /\ [StoreNext]_storeVars => [Advance]_storeVars
  <2> SUFFICES ASSUME StoreTypeOK, SnapshotCoherent, StoreNext,
                      current # NoPlan, current' # NoPlan
               PROVE  /\ current'.token.context = current.token.context
                      /\ current'.token.revision >= current.token.revision
    OBVIOUS
  <2>1. current.token.revision \in Nat
    BY RevisionIsNat DEF StoreTypeOK, Plan
  <2>2. CASE current' = current
    BY <2>1, <2>2
  <2>3. ASSUME NEW token \in Token, NEW plan \in Plan, NEW labels,
               PublishPlan(plan, labels, token)
        PROVE  /\ current'.token.context = current.token.context
               /\ current'.token.revision >= current.token.revision
    <3>1. active = token /\ plan.token = token /\ current' = plan
      BY <2>3 DEF PublishPlan, MayPublish, IsCurrent, Swap
    <3>2. current.token.context = active.context
          /\ current.token.revision <= active.revision
      BY DEF SnapshotCoherent
    <3>3. token.revision \in Nat
      BY RevisionIsNat
    <3> QED
      BY <3>1, <3>2, <3>3, <2>1
  <2>4. \A token \in Token : Activate(token) \/ CancelToken(token)
                               => current' = current
    BY DEF Activate, CancelToken
  <2> QED
    BY <2>2, <2>3, <2>4 DEF StoreNext
<1> QED
  BY <1>1, StoreTypeCorrect, StoreCoherent, PTL DEF StoreSpec, InputsAdvance

-------------------------------------------------------------------------------
(* The session                                                             *)

(* What a step of execute() that publishes nothing leaves alone.           *)
Shared == <<storeVars, handle, revoked, task, ticket>>

LEMMA TaskParts ==
  \A t \in Task : t.token \in Token /\ t.subject \in Subjects
BY DEF Task

(* The token of a request that began is a token.                           *)
LEMMA BegunToken ==
  ASSUME Tagged, NEW r \in Begun
  PROVE  task[r].token \in Token /\ task[r].subject \in Subjects
BY TaskParts DEF Tagged

-------------------------------------------------------------------------------
(* Type correctness                                                        *)

LEMMA InitTypeOK == Init => TypeOK
<1> SUFFICES ASSUME Init PROVE TypeOK
  OBVIOUS
<1>1. StoreTypeOK
  BY DEF Init, StoreInit, StoreTypeOK
<1>2. handle \in Requests \cup {NoRequest} /\ revoked \in SUBSET Requests
  BY DEF Init
<1>3. pc \in [Requests -> Ended \cup {"idle", "planning", "found", "reviewed",
                                     "accepted", "rejected"}]
  BY DEF Init
<1>4. /\ task \in [Requests -> Task \cup {NoTask}]
      /\ route \in [Requests -> Plan \cup {NoPlan}]
      /\ seen \in [Requests -> Plan \cup {NoPlan}]
      /\ ticket \in [Requests -> Nat]
  BY DEF Init
<1> QED
  BY <1>1, <1>2, <1>3, <1>4 DEF TypeOK

LEMMA NextTypeOK ==
  ASSUME TypeOK, Numbered, Tagged, Next
  PROVE  TypeOK'
<1> USE DEF TypeOK, Goto, Ended
<1>1. ASSUME NEW r \in Requests, NEW t \in Task, Begin(r, t)
      PROVE  TypeOK'
  <2>1. CASE Refused(t.token) /\ UNCHANGED <<storeVars, handle, revoked, task,
                                             route, seen, ticket>>
    BY <1>1, <2>1 DEF Begin, StoreTypeOK, storeVars, Activate
  <2>2. CASE Activate(t.token)
    <3>1. StoreTypeOK'
      BY <2>2, TaskParts DEF StoreTypeOK, Activate
    <3>2. LastTicket \in Nat
      BY DEF LastTicket
    <3>3. /\ revoked' = revoked \cup Superseded
          /\ handle' = r
          /\ task' = [task EXCEPT ![r] = t]
          /\ ticket' = [ticket EXCEPT ![r] = LastTicket + 1]
          /\ pc' = [pc EXCEPT ![r] = "planning"]
          /\ UNCHANGED <<route, seen>>
      BY <1>1, <2>2 DEF Begin, Activate
    <3>4. revoked' \in SUBSET Requests
      BY <3>3 DEF Superseded
    <3> QED
      BY <3>1, <3>2, <3>3, <3>4
  <2> QED
    BY <1>1, <2>1, <2>2 DEF Begin
<1>2. ASSUME NEW r \in Requests, Cancel(r)
      PROVE  TypeOK'
  BY <1>2 DEF Cancel, CancelToken, StoreTypeOK, storeVars, Begun
<1>3. ASSUME NEW r \in Requests, NEW cost \in Costs, NEW risk \in Risks,
             FindRoutes(r, cost, risk)
      PROVE  TypeOK'
  <2>1. r \in Begun
    BY <1>3 DEF FindRoutes, Numbered
  <2>2. [token |-> task[r].token, subject |-> task[r].subject,
         cost |-> cost, risk |-> risk] \in Plan
    BY <2>1, BegunToken DEF Plan
  <2> QED
    BY <1>3, <2>2 DEF FindRoutes, StoreTypeOK, storeVars
<1>4. ASSUME NEW r \in Requests,
             \/ StopSearch(r) \/ Fail(r) \/ Review(r) \/ Decline(r)
      PROVE  TypeOK'
  BY <1>4 DEF StopSearch, Fail, Review, Decline, StoreTypeOK, storeVars
<1>5. ASSUME NEW r \in Requests, ReadDisplayed(r)
      PROVE  TypeOK'
  BY <1>5 DEF ReadDisplayed, SnapshotCurrent, StoreTypeOK, storeVars
<1>6. ASSUME NEW r \in Requests, Publish(r)
      PROVE  TypeOK'
  <2>1. r \in Begun /\ route[r] \in Plan
    BY <1>6 DEF Publish, Numbered, Tagged
  <2>2. LabelOf(route[r]) \in Label
    BY <2>1 DEF Plan, Label, LabelOf
  <2> QED
    BY <1>6, <2>1, <2>2 DEF Publish, Swap, StoreTypeOK, storeVars
<1> QED
  BY <1>1, <1>2, <1>3, <1>4, <1>5, <1>6 DEF Next, Execute

-------------------------------------------------------------------------------
(* The fences agree                                                        *)

(* Only the active handle can be unrevoked, and then the store is fenced   *)
(* to it and not cancelled.                                                *)
LEMMA UnrevokedIsActive ==
  ASSUME FencesAgree, NEW r \in Begun, r \notin revoked
  PROVE  handle = r /\ active = task[r].token /\ ~cancelled /\ StillCurrent(r)
BY DEF FencesAgree, StillCurrent, IsCurrent

(* Steps of execute() other than a publication touch nothing the fences    *)
(* are made of.                                                            *)
LEMMA ExecuteKeepsFences ==
  ASSUME NEW r \in Requests, Execute(r)
  PROVE  UNCHANGED <<active, cancelled, handle, revoked, task, ticket>>
BY DEF Execute, FindRoutes, StopSearch, Fail, Review, ReadDisplayed, Decline,
       Publish, Swap, storeVars

LEMMA InitFencesAgree == Init => FencesAgree
BY DEF Init, StoreInit, FencesAgree, Begun

LEMMA NextFencesAgree ==
  ASSUME TypeOK, Numbered, Tagged, FencesAgree, Next
  PROVE  FencesAgree'
<1>1. ASSUME NEW r \in Requests, NEW t \in Task, Begin(r, t)
      PROVE  FencesAgree'
  <2>1. CASE UNCHANGED <<storeVars, handle, revoked, task, route, seen, ticket>>
    BY <2>1 DEF FencesAgree, Begun, storeVars
  <2>2. CASE /\ Activate(t.token)
             /\ revoked' = revoked \cup Superseded
             /\ handle' = r
             /\ task' = [task EXCEPT ![r] = t]
             /\ ticket' = [ticket EXCEPT ![r] = LastTicket + 1]
    <3>1. LastTicket \in Nat
      BY DEF LastTicket, TypeOK
    <3>2. /\ ticket'[r] = LastTicket + 1
          /\ \A q \in Requests \ {r} : ticket'[q] = ticket[q]
          /\ task'[r] = t
      BY <2>2 DEF TypeOK
    <3>3. Begun' = Begun \cup {r}
      BY <3>1, <3>2 DEF Begun
    <3>4. r \notin Begun
      <4>1. pc[r] = "idle"
        BY <1>1 DEF Begin
      <4> QED
        BY <4>1 DEF Numbered
    <3>5. r # NoRequest /\ r \notin revoked'
      BY <2>2, <3>4, RequestAssumption DEF Superseded, FencesAgree, Numbered
    <3>6. Begun \subseteq revoked'
      BY <2>2 DEF Superseded, FencesAgree
    <3>7. active' = t.token /\ cancelled' = FALSE
      BY <2>2 DEF Activate
    <3> QED
      BY <2>2, <3>2, <3>3, <3>5, <3>6, <3>7 DEF FencesAgree
  <2> QED
    BY <1>1, <2>1, <2>2 DEF Begin
<1>2. ASSUME NEW r \in Requests, Cancel(r)
      PROVE  FencesAgree'
  <2>1. /\ r \in Begun /\ Begun' = Begun
        /\ revoked' = revoked \cup {r}
        /\ UNCHANGED <<handle, task, active>>
        /\ handle # NoRequest /\ handle \in Begun
    BY <1>2 DEF Cancel, CancelToken, storeVars, Begun, FencesAgree
  <2>2. CASE r = handle
    BY <1>2, <2>1, <2>2 DEF Cancel, CancelToken, FencesAgree
  <2>3. CASE r # handle
    <3>1. task[r].token # task[handle].token
      BY <2>1, <2>3 DEF Tagged
    <3>2. UNCHANGED storeVars
      BY <1>2, <2>1, <3>1 DEF Cancel, CancelToken, FencesAgree
    <3> QED
      BY <2>1, <2>3, <3>2 DEF FencesAgree, storeVars
  <2> QED
    BY <2>2, <2>3
<1>3. ASSUME NEW r \in Requests, Execute(r)
      PROVE  FencesAgree'
  BY <1>3, ExecuteKeepsFences DEF FencesAgree, Begun
<1> QED
  BY <1>1, <1>2, <1>3 DEF Next

-------------------------------------------------------------------------------
(* Numbering                                                               *)

LEMMA InitNumbered == Init => Numbered
<1> SUFFICES ASSUME Init PROVE Numbered
  OBVIOUS
<1>1. Begun = {} /\ LastTicket = 0 /\ revoked = {}
  BY DEF Init, Begun, LastTicket
<1>2. 1..0 = {}
  OBVIOUS
<1> QED
  BY <1>1, <1>2 DEF Init, Numbered

LEMMA NextNumbered ==
  ASSUME TypeOK, Numbered, FencesAgree, Next
  PROVE  Numbered'
<1>1. ASSUME NEW r \in Requests, NEW t \in Task, Begin(r, t)
      PROVE  Numbered'
  <2>0. pc[r] = "idle" /\ r \notin Begun
    BY <1>1 DEF Begin, Numbered
  <2>1. CASE /\ UNCHANGED <<storeVars, handle, revoked, task, route, seen, ticket>>
             /\ Goto(r, "refused")
    <3>1. Begun' = Begun /\ LastTicket' = LastTicket
      BY <2>1 DEF Begun, LastTicket
    <3>2. \A q \in Requests \ {r} : pc'[q] = pc[q]
      BY <2>1 DEF Goto, TypeOK
    <3>3. pc'[r] = "refused"
      BY <2>1 DEF Goto, TypeOK
    <3>4. UNCHANGED <<revoked, ticket>>
      BY <2>1
    <3>5. \A q \in Begun : pc'[q] # "idle"
      BY <3>2, <3>3 DEF Numbered, Begun
    <3>6. \A q \in Requests : pc'[q] \notin {"idle", "refused"} => q \in Begun
      BY <3>2, <3>3 DEF Numbered
    <3> QED
      BY <3>1, <3>4, <3>5, <3>6 DEF Numbered
  <2>2. CASE /\ Goto(r, "planning")
             /\ revoked' = revoked \cup Superseded
             /\ handle' = r
             /\ ticket' = [ticket EXCEPT ![r] = LastTicket + 1]
    <3>1. LastTicket \in Nat
      BY DEF LastTicket, TypeOK
    <3>2. /\ ticket'[r] = LastTicket + 1
          /\ \A q \in Requests \ {r} : ticket'[q] = ticket[q]
      BY <2>2 DEF TypeOK
    <3>3. Begun' = Begun \cup {r}
      BY <3>1, <3>2 DEF Begun
    <3>4. LastTicket' = LastTicket + 1
      BY <2>2, <3>2, RequestAssumption DEF LastTicket
    <3>5. {ticket'[q] : q \in Begun'} = {ticket[q] : q \in Begun} \cup {LastTicket + 1}
      BY <2>0, <3>2, <3>3 DEF Begun
    <3>6. {ticket'[q] : q \in Begun'} = 1..LastTicket'
      <4>1. {ticket[q] : q \in Begun} = 1..LastTicket
        BY DEF Numbered
      <4>2. 1..(LastTicket + 1) = (1..LastTicket) \cup {LastTicket + 1}
        BY <3>1
      <4> QED
        BY <3>4, <3>5, <4>1, <4>2
    <3>7. \A q \in Begun : ticket[q] <= LastTicket /\ ticket[q] \in Nat
      BY <3>1 DEF Numbered
    <3>8. \A p, q \in Begun' : ticket'[p] = ticket'[q] => p = q
      <4>1. \A p, q \in Begun : ticket'[p] = ticket'[q] => p = q
        BY <2>0, <3>2 DEF Numbered, Begun
      <4>2. \A q \in Begun : ticket'[q] # ticket'[r]
        BY <2>0, <3>1, <3>2, <3>7 DEF Begun
      <4> QED
        BY <3>3, <4>1, <4>2
    <3>9. revoked' \subseteq Begun'
      BY <2>2, <3>3 DEF Superseded, FencesAgree, Numbered
    <3>10. /\ \A q \in Requests \ {r} : pc'[q] = pc[q]
           /\ pc'[r] = "planning"
      BY <2>2 DEF Goto, TypeOK
    <3>11. \A q \in Begun' : pc'[q] # "idle"
      <4>1. Begun \subseteq Requests
        BY DEF Begun
      <4> QED
        BY <3>3, <3>10, <4>1 DEF Numbered
    <3>12. \A q \in Requests : pc'[q] \notin {"idle", "refused"} => q \in Begun'
      BY <3>3, <3>10 DEF Numbered
    <3> QED
      BY <3>6, <3>8, <3>9, <3>11, <3>12 DEF Numbered
  <2> QED
    BY <1>1, <2>1, <2>2 DEF Begin
<1>2. ASSUME NEW r \in Requests, Cancel(r)
      PROVE  Numbered'
  <2>1. /\ r \in Begun /\ revoked' = revoked \cup {r}
        /\ UNCHANGED <<handle, pc, ticket>>
    BY <1>2 DEF Cancel
  <2>2. Begun' = Begun /\ LastTicket' = LastTicket
    BY <2>1 DEF Begun, LastTicket
  <2> QED
    BY <2>1, <2>2 DEF Numbered
<1>3. ASSUME NEW r \in Requests, Execute(r)
      PROVE  Numbered'
  <2>1. UNCHANGED <<handle, revoked, ticket>>
    BY <1>3, ExecuteKeepsFences
  <2>2. Begun' = Begun /\ LastTicket' = LastTicket
    BY <2>1 DEF Begun, LastTicket
  <2>3. /\ pc[r] \notin {"idle", "refused"}
        /\ \E label \in Ended \cup {"found", "reviewed", "accepted", "rejected"} :
             label # "refused" /\ Goto(r, label)
    BY <1>3 DEF Execute, FindRoutes, StopSearch, Fail, Review, ReadDisplayed,
                Decline, Publish, Ended
  <2>4. /\ \A q \in Requests \ {r} : pc'[q] = pc[q]
        /\ pc'[r] # "idle" /\ r \in Begun
    BY <2>3 DEF Goto, TypeOK, Numbered, Ended
  <2>5. \A q \in Begun : pc'[q] # "idle"
    BY <2>4 DEF Numbered, Begun
  <2>6. \A q \in Requests : pc'[q] \notin {"idle", "refused"} => q \in Begun
    BY <2>4 DEF Numbered
  <2> QED
    BY <2>1, <2>2, <2>5, <2>6 DEF Numbered
<1> QED
  BY <1>1, <1>2, <1>3 DEF Next

-------------------------------------------------------------------------------
(* Tags                                                                    *)

LEMMA InitTagged == Init => Tagged
BY DEF Init, StoreInit, Tagged, Begun

LEMMA NextTagged ==
  ASSUME TypeOK, Numbered, Tagged, Next
  PROVE  Tagged'
<1> Begun \subseteq Requests
  BY DEF Begun
<1>1. ASSUME NEW r \in Requests, NEW t \in Task, Begin(r, t)
      PROVE  Tagged'
  <2>1. r \notin Begun
    BY <1>1 DEF Begin, Numbered
  <2>2. CASE /\ UNCHANGED <<storeVars, handle, revoked, task, route, seen, ticket>>
             /\ Goto(r, "refused")
    <3>1. Begun' = Begun
      BY <2>2 DEF Begun
    <3>2. /\ \A q \in Requests \ {r} : pc'[q] = pc[q]
          /\ pc'[r] = "refused"
      BY <2>2 DEF Goto, TypeOK
    <3>3. UNCHANGED <<task, route, current, previous>>
      BY <2>2 DEF storeVars
    <3> QED
      BY <3>1, <3>2, <3>3 DEF Tagged
  <2>3. CASE /\ Activate(t.token)
             /\ task' = [task EXCEPT ![r] = t]
             /\ ticket' = [ticket EXCEPT ![r] = LastTicket + 1]
             /\ Goto(r, "planning")
             /\ UNCHANGED <<route, seen>>
    <3>1. /\ \A q \in Requests \ {r} : pc'[q] = pc[q]
          /\ pc'[r] = "planning"
      BY <2>3 DEF Goto, TypeOK
    <3>2. /\ \A q \in Requests \ {r} : task'[q] = task[q]
          /\ task'[r] = t
      BY <2>3 DEF TypeOK
    <3>3. LastTicket \in Nat
      BY DEF LastTicket, TypeOK
    <3>4. Begun' = Begun \cup {r}
      BY <2>3, <3>3 DEF Begun, TypeOK
    <3>5. current' \in {current, NoPlan} /\ previous' \in {previous, NoPlan}
      BY <2>3 DEF Activate
    <3>6. t.token.request = r
      BY <1>1 DEF Begin
    <3>7. \A q \in Begun' : task'[q] \in Task /\ task'[q].token.request = q
      BY <2>1, <3>2, <3>4, <3>6 DEF Tagged
    <3>8. \A q \in Requests :
            pc'[q] \in {"found", "reviewed", "accepted", "rejected"} =>
              /\ route'[q] \in Plan
              /\ route'[q].token = task'[q].token
              /\ route'[q].subject = task'[q].subject
      BY <2>3, <3>1, <3>2 DEF Tagged
    <3>9. \A plan \in {current', previous'} \ {NoPlan} :
            /\ plan.token.request \in Begun'
            /\ plan.token = task'[plan.token.request].token
      BY <2>1, <3>2, <3>4, <3>5 DEF Tagged
    <3> QED
      BY <3>7, <3>8, <3>9 DEF Tagged
  <2> QED
    BY <1>1, <2>2, <2>3 DEF Begin
<1>2. ASSUME NEW r \in Requests, Cancel(r)
      PROVE  Tagged'
  BY <1>2 DEF Cancel, CancelToken, storeVars, Begun, Tagged
<1>3. ASSUME NEW r \in Requests, NEW cost \in Costs, NEW risk \in Risks,
             FindRoutes(r, cost, risk)
      PROVE  Tagged'
  <2>1. r \in Begun
    BY <1>3 DEF FindRoutes, Numbered
  <2>2. /\ [token |-> task[r].token, subject |-> task[r].subject,
            cost |-> cost, risk |-> risk] \in Plan
        /\ route'[r] = [token |-> task[r].token, subject |-> task[r].subject,
                        cost |-> cost, risk |-> risk]
    BY <1>3, <2>1, BegunToken DEF FindRoutes, Plan, TypeOK
  <2>3. /\ \A q \in Requests \ {r} : route'[q] = route[q] /\ pc'[q] = pc[q]
        /\ UNCHANGED <<task, ticket, current, previous>>
    BY <1>3 DEF FindRoutes, Goto, TypeOK, storeVars
  <2>4. Begun' = Begun
    BY <2>3 DEF Begun
  <2> QED
    BY <2>2, <2>3, <2>4 DEF Tagged
<1>4. ASSUME NEW r \in Requests,
             \/ StopSearch(r) \/ Fail(r) \/ Review(r) \/ ReadDisplayed(r)
             \/ Decline(r) \/ Publish(r)
      PROVE  Tagged'
  <2>1. UNCHANGED <<task, ticket, route>> /\ Begun' = Begun
    BY <1>4 DEF StopSearch, Fail, Review, ReadDisplayed, Decline, Publish, Begun
  <2>2. /\ pc[r] \in {"planning", "found", "reviewed", "accepted", "rejected"}
        /\ pc[r] = "planning" => pc'[r] \in Ended
        /\ \A q \in Requests \ {r} : pc'[q] = pc[q]
    BY <1>4 DEF StopSearch, Fail, Review, ReadDisplayed, Decline, Publish, Goto,
                TypeOK, Ended
  <2>3. \A q \in Requests :
          pc'[q] \in {"found", "reviewed", "accepted", "rejected"} =>
            /\ route'[q] \in Plan
            /\ route'[q].token = task'[q].token
            /\ route'[q].subject = task'[q].subject
    BY <2>1, <2>2 DEF Tagged, Ended
  <2>4. \/ UNCHANGED <<current, previous>>
        \/ /\ pc[r] = "accepted"
           /\ current' = route[r]
           /\ previous' \in {previous, current}
    BY <1>4 DEF StopSearch, Fail, Review, ReadDisplayed, Decline, Publish, Swap,
                storeVars
  <2>5. pc[r] = "accepted" =>
          /\ route[r].token.request \in Begun
          /\ route[r].token = task[route[r].token.request].token
    BY DEF Tagged, Numbered
  <2>6. \A plan \in {current', previous'} \ {NoPlan} :
          /\ plan.token.request \in Begun
          /\ plan.token = task[plan.token.request].token
    BY <2>4, <2>5 DEF Tagged
  <2> QED
    BY <2>1, <2>3, <2>6 DEF Tagged
<1> QED
  BY <1>1, <1>2, <1>3, <1>4 DEF Next, Execute

-------------------------------------------------------------------------------
(* What an unrevoked request saw is still displayed                        *)

LEMMA InitSeenIsDisplayed == Init => SeenIsDisplayed
BY DEF Init, SeenIsDisplayed

(* The active request reads the plan on display and not another session's. *)
LEMMA ActiveReadsCurrent ==
  ASSUME Tagged, FencesAgree, NEW r \in Begun, r \notin revoked
  PROVE  SnapshotCurrent(task[r].token.context) = current
<1>1. active = task[r].token
  BY UnrevokedIsActive
<1>2. active # NoToken
  BY <1>1, BegunToken, PlanAssumption
<1> QED
  BY <1>1, <1>2 DEF SnapshotCurrent

LEMMA NextSeenIsDisplayed ==
  ASSUME TypeOK, Numbered, Tagged, FencesAgree, SeenIsDisplayed, Next
  PROVE  SeenIsDisplayed'
<1>1. ASSUME NEW r \in Requests, NEW t \in Task, Begin(r, t)
      PROVE  SeenIsDisplayed'
  <2>1. /\ \A q \in Requests \ {r} : pc'[q] = pc[q]
        /\ pc'[r] \in {"planning", "refused"}
    BY <1>1 DEF Begin, Goto, TypeOK
  <2>2. CASE UNCHANGED <<storeVars, handle, revoked, task, route, seen, ticket>>
    BY <2>1, <2>2 DEF SeenIsDisplayed, storeVars
  <2>3. CASE revoked' = revoked \cup Superseded
    <3>1. \A q \in Requests : pc[q] \in {"accepted", "rejected"} => q \in revoked'
      BY <2>3 DEF Superseded, FencesAgree, Numbered
    <3> QED
      BY <2>1, <3>1 DEF SeenIsDisplayed
  <2> QED
    BY <1>1, <2>2, <2>3 DEF Begin
<1>2. ASSUME NEW r \in Requests, Cancel(r)
      PROVE  SeenIsDisplayed'
  BY <1>2 DEF Cancel, CancelToken, storeVars, SeenIsDisplayed
<1>3. ASSUME NEW r \in Requests,
             \/ \E cost \in Costs, risk \in Risks : FindRoutes(r, cost, risk)
             \/ StopSearch(r) \/ Fail(r) \/ Review(r) \/ Decline(r)
      PROVE  SeenIsDisplayed'
  <2>1. /\ \A q \in Requests \ {r} : pc'[q] = pc[q]
        /\ pc'[r] \notin {"accepted", "rejected"}
    BY <1>3 DEF FindRoutes, StopSearch, Fail, Review, Decline, Goto, TypeOK
  <2>2. UNCHANGED <<revoked, seen, current>>
    BY <1>3 DEF FindRoutes, StopSearch, Fail, Review, Decline, storeVars
  <2> QED
    BY <2>1, <2>2 DEF SeenIsDisplayed
<1>4. ASSUME NEW r \in Requests, ReadDisplayed(r)
      PROVE  SeenIsDisplayed'
  <2>1. /\ \A q \in Requests \ {r} : pc'[q] = pc[q] /\ seen'[q] = seen[q]
        /\ seen'[r] = SnapshotCurrent(task[r].token.context)
        /\ UNCHANGED <<revoked, current>>
    BY <1>4 DEF ReadDisplayed, Goto, TypeOK, storeVars
  <2>2. r \in Begun
    BY <1>4 DEF ReadDisplayed, Numbered
  <2>3. r \notin revoked => seen'[r] = current
    BY <2>1, <2>2, ActiveReadsCurrent
  <2> QED
    BY <2>1, <2>3 DEF SeenIsDisplayed
<1>5. ASSUME NEW r \in Requests, Publish(r)
      PROVE  SeenIsDisplayed'
  <2>1. /\ \A q \in Requests \ {r} : pc'[q] = pc[q]
        /\ pc'[r] \in {"published", "cancelled"}
        /\ UNCHANGED <<revoked, seen>>
        /\ \/ MayStillPublish(r)
           \/ UNCHANGED current
    BY <1>5 DEF Publish, Goto, TypeOK, storeVars
  <2>2. CASE UNCHANGED current
    BY <2>1, <2>2 DEF SeenIsDisplayed
  <2>3. CASE MayStillPublish(r)
    <3>1. \A q \in Begun \ revoked : q = r
      BY <2>3, UnrevokedIsActive DEF MayStillPublish
    <3>2. \A q \in Requests : pc[q] \in {"accepted", "rejected"} => q \in Begun
      BY DEF Numbered
    <3> QED
      BY <2>1, <3>1, <3>2 DEF SeenIsDisplayed
  <2> QED
    BY <2>1, <2>2, <2>3
<1> QED
  BY <1>1, <1>2, <1>3, <1>4, <1>5 DEF Next, Execute

-------------------------------------------------------------------------------
(* The inductive invariant                                                 *)

Inv == TypeOK /\ FencesAgree /\ RequestsConsistent

(* Every reachable state of a session satisfies it: none of its parts is   *)
(* inductive alone (the fences need the numbering to know that a beginner  *)
(* is new, the types need the tags, what is seen needs the fences).        *)
THEOREM SessionInvariant == Spec => []Inv
<1>1. Init => Inv
  BY InitTypeOK, InitFencesAgree, InitNumbered, InitTagged, InitSeenIsDisplayed
     DEF Inv, RequestsConsistent
<1>2. Inv /\ [Next]_vars => Inv'
  <2> SUFFICES ASSUME Inv, [Next]_vars PROVE Inv'
    OBVIOUS
  <2>1. CASE Next
    BY <2>1, NextTypeOK, NextFencesAgree, NextNumbered, NextTagged,
       NextSeenIsDisplayed DEF Inv, RequestsConsistent
  <2>2. CASE UNCHANGED vars
    <3>1. UNCHANGED <<active, cancelled, current, previous, candidates>>
      BY <2>2 DEF vars, storeVars
    <3>2. UNCHANGED <<handle, revoked, pc, task, route, seen, ticket>>
      BY <2>2 DEF vars, requestVars
    <3>3. Begun' = Begun /\ LastTicket' = LastTicket
      BY <3>2 DEF Begun, LastTicket
    <3>4. TypeOK'
      BY <3>1, <3>2 DEF Inv, TypeOK, StoreTypeOK
    <3>5. FencesAgree'
      BY <3>1, <3>2, <3>3 DEF Inv, FencesAgree
    <3>6. Numbered'
      BY <3>2, <3>3 DEF Inv, RequestsConsistent, Numbered
    <3>7. Tagged'
      BY <3>1, <3>2, <3>3 DEF Inv, RequestsConsistent, Tagged
    <3>8. SeenIsDisplayed'
      BY <3>1, <3>2 DEF Inv, RequestsConsistent, SeenIsDisplayed
    <3> QED
      BY <3>4, <3>5, <3>6, <3>7, <3>8 DEF Inv, RequestsConsistent
  <2> QED
    BY <2>1, <2>2
<1> QED
  BY <1>1, <1>2, PTL DEF Spec

(* All variables keep their types, for any number of requests.             *)
THEOREM TypeCorrect == Spec => []TypeOK
<1>1. Inv => TypeOK
  BY DEF Inv
<1> QED
  BY <1>1, SessionInvariant, PTL

(* The coordinator's active handle and the store's fence always agree, and *)
(* every overtaken request is revoked.                                     *)
THEOREM FencesAlwaysAgree == Spec => []FencesAgree
<1>1. Inv => FencesAgree
  BY DEF Inv
<1> QED
  BY <1>1, SessionInvariant, PTL

(* Numbers, tags and switch decisions stay consistent.                     *)
THEOREM AlwaysConsistent == Spec => []RequestsConsistent
<1>1. Inv => RequestsConsistent
  BY DEF Inv
<1> QED
  BY <1>1, SessionInvariant, PTL

-------------------------------------------------------------------------------
(* Nobody is cancelled without a reason                                    *)

(* The checks of the review and of the publication fail only for a request *)
(* that is revoked.                                                        *)
LEMMA UnrevokedPasses ==
  ASSUME Inv, NEW r \in Requests, r \notin revoked,
         pc[r] \in {"found", "accepted", "rejected"}
  PROVE  StillCurrent(r) /\ (pc[r] = "accepted" => MayStillPublish(r))
<1>1. r \in Begun
  BY DEF Inv, RequestsConsistent, Numbered
<1>2. handle = r /\ active = task[r].token /\ ~cancelled /\ StillCurrent(r)
  BY <1>1, UnrevokedIsActive DEF Inv
<1>3. pc[r] = "accepted" => route[r].token = task[r].token
  BY DEF Inv, RequestsConsistent, Tagged
<1> QED
  BY <1>2, <1>3 DEF MayStillPublish, MayPublish, IsCurrent

(* A request that reports a cancellation was cancelled by somebody or was  *)
(* overtaken by a later one.                                               *)
THEOREM CancelledOnlyForAReason == Spec => []CancelledForAReason
<1>1. Init => CancelledForAReason
  BY DEF Init, CancelledForAReason
<1>2. Inv /\ CancelledForAReason /\ [Next]_vars => CancelledForAReason'
  <2> SUFFICES ASSUME Inv, CancelledForAReason, [Next]_vars
               PROVE  CancelledForAReason'
    OBVIOUS
  <2>1. ASSUME NEW r \in Requests, NEW t \in Task, Begin(r, t)
        PROVE  CancelledForAReason'
    <3>1. /\ \A q \in Requests \ {r} : pc'[q] = pc[q]
          /\ pc'[r] # "cancelled"
          /\ revoked \subseteq revoked'
      BY <2>1 DEF Begin, Goto, Inv, TypeOK
    <3> QED
      BY <3>1 DEF CancelledForAReason
  <2>2. ASSUME NEW r \in Requests, Cancel(r)
        PROVE  CancelledForAReason'
    BY <2>2 DEF Cancel, CancelledForAReason
  <2>3. ASSUME NEW r \in Requests, Execute(r)
        PROVE  CancelledForAReason'
    <3>1. revoked' = revoked /\ \A q \in Requests \ {r} : pc'[q] = pc[q]
      BY <2>3 DEF Execute, FindRoutes, StopSearch, Fail, Review, ReadDisplayed,
                  Decline, Publish, Goto, Inv, TypeOK
    <3>2. pc'[r] = "cancelled" => r \in revoked
      <4>1. CASE \/ \E cost \in Costs, risk \in Risks : FindRoutes(r, cost, risk)
                 \/ StopSearch(r) \/ Fail(r) \/ ReadDisplayed(r)
        BY <4>1 DEF FindRoutes, StopSearch, Fail, ReadDisplayed, Goto, Inv, TypeOK
      <4>2. CASE Review(r) \/ Decline(r) \/ Publish(r)
        BY <4>2, UnrevokedPasses DEF Review, Decline, Publish, Goto, Inv, TypeOK
      <4> QED
        BY <2>3, <4>1, <4>2 DEF Execute
    <3> QED
      BY <3>1, <3>2 DEF CancelledForAReason
  <2>4. CASE UNCHANGED vars
    BY <2>4 DEF vars, requestVars, CancelledForAReason
  <2> QED
    BY <2>1, <2>2, <2>3, <2>4 DEF Next
<1> QED
  BY <1>1, <1>2, SessionInvariant, PTL DEF Spec

-------------------------------------------------------------------------------
(* Switch decisions                                                        *)

(* A step after which a request is published is its admitted publication.  *)
LEMMA PublishesIsPublication ==
  ASSUME Inv, Next, NEW r \in Requests, Publishes(r)
  PROVE  Publish(r) /\ MayStillPublish(r)
<1>1. pc[r] = "accepted" /\ pc'[r] = "published"
  BY DEF Publishes
<1>2. ASSUME NEW q \in Requests, NEW t \in Task, Begin(q, t) PROVE FALSE
  BY <1>1, <1>2 DEF Begin, Goto, Inv, TypeOK
<1>3. ASSUME NEW q \in Requests, Cancel(q) PROVE FALSE
  BY <1>1, <1>3 DEF Cancel
<1>4. Publish(r)
  BY <1>1, <1>2, <1>3 DEF Next, Execute, FindRoutes, StopSearch, Fail, Review,
     ReadDisplayed, Decline, Publish, Goto, Inv, TypeOK
<1> QED
  BY <1>1, <1>4 DEF Publish, Goto, Inv, TypeOK

(* What a publication displaces is what its switch decision saw.           *)
THEOREM NothingSlipsIn == Spec => GateSawWhatItReplaced
<1>1. Inv /\ [Next]_vars =>
        [\A r \in Requests : Publishes(r) => seen[r] = current]_vars
  <2> SUFFICES ASSUME Inv, Next, NEW r \in Requests, Publishes(r)
               PROVE  seen[r] = current
    OBVIOUS
  <2>1. pc[r] = "accepted" /\ r \notin revoked
    BY PublishesIsPublication DEF Publish, MayStillPublish
  <2> QED
    BY <2>1 DEF Inv, RequestsConsistent, SeenIsDisplayed
<1> QED
  BY <1>1, SessionInvariant, PTL DEF Spec, GateSawWhatItReplaced

-------------------------------------------------------------------------------
(* The session is a disciplined client of the store                        *)

LEMMA NextIsStoreStep ==
  ASSUME Inv, [Next]_vars
  PROVE  [StoreNext]_storeVars
<1>1. ASSUME NEW r \in Requests, NEW t \in Task, Begin(r, t)
      PROVE  [StoreNext]_storeVars
  BY <1>1, TaskParts DEF Begin, StoreNext
<1>2. ASSUME NEW r \in Requests, Cancel(r)
      PROVE  [StoreNext]_storeVars
  BY <1>2, BegunToken DEF Cancel, StoreNext, Inv, RequestsConsistent
<1>3. ASSUME NEW r \in Requests, Execute(r)
      PROVE  [StoreNext]_storeVars
  <2>1. CASE UNCHANGED storeVars
    BY <2>1
  <2>2. CASE Publish(r) /\ MayStillPublish(r)
    <3>1. r \in Begun /\ route[r] \in Plan /\ task[r].token \in Token
      BY <2>2, BegunToken DEF Publish, Inv, RequestsConsistent, Numbered, Tagged
    <3>2. LabelOf(route[r]) \in Label
      BY <3>1 DEF Plan, Label, LabelOf
    <3>3. {LabelOf(route[r]), LabelOf(route[r])} = {LabelOf(route[r])}
      OBVIOUS
    <3>4. PublishPlan(route[r], {LabelOf(route[r])}, task[r].token)
      <4>1. pc[r] = "accepted"
        BY <2>2 DEF Publish
      <4> QED
        BY <2>2, <4>1 DEF Publish, MayStillPublish, PublishPlan
    <3> QED
      BY <3>1, <3>2, <3>3, <3>4 DEF StoreNext
  <2> QED
    BY <1>3, <2>1, <2>2 DEF Execute, FindRoutes, StopSearch, Fail, Review,
                            ReadDisplayed, Decline, Publish
<1>4. CASE UNCHANGED vars
  BY <1>4 DEF vars
<1> QED
  BY <1>1, <1>2, <1>3, <1>4 DEF Next

(* Whatever the requests do, the store sees legal calls only.              *)
THEOREM SessionUsesStore == Spec => StoreSpec
<1>1. Init => StoreInit
  BY DEF Init
<1>2. Inv /\ [Next]_vars => [StoreNext]_storeVars
  BY NextIsStoreStep
<1> QED
  BY <1>1, <1>2, SessionInvariant, PTL DEF Spec, StoreSpec

(* So D's snapshots are coherent in every session.                         *)
THEOREM SessionSnapshotCoherent == Spec => []SnapshotCoherent
BY SessionUsesStore, StoreCoherent, PTL

-------------------------------------------------------------------------------
(* The order in which results become visible: a session implements         *)
(* LatestWins, shows results in the order of their inputs, and only        *)
(* displaces earlier ones.                                                 *)

Closed == {ticket[r] : r \in revoked}

ShownTicket == IF current = NoPlan THEN 0 ELSE ticket[current.token.request]

(* What the three kinds of steps that change the promise do.               *)
LEMMA BeginStep ==
  ASSUME Inv, NEW r \in Requests, NEW t \in Task, Begin(r, t),
         ticket' # ticket
  PROVE  /\ ~Refused(t.token) /\ Activate(t.token)
         /\ r \notin Begun /\ Begun' = Begun \cup {r}
         /\ LastTicket \in Nat /\ LastTicket' = LastTicket + 1
         /\ ticket'[r] = LastTicket + 1
         /\ task'[r] = t
         /\ \A q \in Begun : ticket'[q] = ticket[q] /\ task'[q] = task[q]
         /\ revoked' = Begun /\ handle' = r
         /\ \A q \in Requests \ {r} : pc'[q] = pc[q]
         /\ pc'[r] = "planning"
<1>1. /\ Activate(t.token)
      /\ revoked' = revoked \cup Superseded
      /\ handle' = r
      /\ task' = [task EXCEPT ![r] = t]
      /\ ticket' = [ticket EXCEPT ![r] = LastTicket + 1]
      /\ pc' = [pc EXCEPT ![r] = "planning"]
      /\ pc[r] = "idle"
  BY DEF Begin, Goto
<1>2. r \notin Begun
  BY <1>1 DEF Inv, RequestsConsistent, Numbered
<1>3. LastTicket \in Nat
  BY DEF LastTicket, Inv, TypeOK
<1>4. /\ ticket'[r] = LastTicket + 1
      /\ \A q \in Requests \ {r} : /\ ticket'[q] = ticket[q]
                                   /\ task'[q] = task[q]
                                   /\ pc'[q] = pc[q]
      /\ task'[r] = t
      /\ pc'[r] = "planning"
  BY <1>1 DEF Inv, TypeOK
<1>5. Begun' = Begun \cup {r}
  BY <1>3, <1>4 DEF Begun
<1>6. LastTicket' = LastTicket + 1
  BY <1>1, <1>4, RequestAssumption DEF LastTicket
<1>7. \A q \in Begun : q \in Requests \ {r}
  BY <1>2 DEF Begun
<1>8. revoked' = Begun
  BY <1>1 DEF Superseded, Inv, FencesAgree, RequestsConsistent, Numbered
<1> QED
  BY <1>1, <1>2, <1>3, <1>4, <1>5, <1>6, <1>7, <1>8 DEF Activate

LEMMA QuietBegin ==
  ASSUME Inv, NEW r \in Requests, NEW t \in Task, Begin(r, t),
         ticket' = ticket
  PROVE  /\ UNCHANGED <<storeVars, handle, revoked, task, route, seen, ticket>>
         /\ \A q \in Requests \ {r} : pc'[q] = pc[q]
         /\ pc'[r] = "refused"
<1>1. LastTicket \in Nat
  BY DEF LastTicket, Inv, TypeOK
<1>2. pc[r] = "idle"
  BY DEF Begin
<1>3. r \notin Begun
  BY <1>2 DEF Inv, RequestsConsistent, Numbered
<1>4. ticket' # [ticket EXCEPT ![r] = LastTicket + 1]
  BY <1>1, <1>3 DEF Begun, Inv, TypeOK
<1>5. UNCHANGED <<storeVars, handle, revoked, task, route, seen, ticket>>
      /\ Goto(r, "refused")
  BY <1>4 DEF Begin
<1> QED
  BY <1>5 DEF Goto, Inv, TypeOK

(* A publication that is admitted is the newest request's.                 *)
LEMMA PublishStep ==
  ASSUME Inv, NEW r \in Requests, Publish(r), MayStillPublish(r)
  PROVE  /\ r \in Begun /\ handle = r /\ r \notin revoked
         /\ ticket[r] = LastTicket
         /\ active = task[r].token
         /\ route[r] \in Plan /\ route[r].token = task[r].token
         /\ route[r].token.request = r
         /\ current' = route[r]
         /\ previous' \in {previous, current}
         /\ UNCHANGED <<active, handle, revoked, task, ticket>>
<1>1. pc[r] = "accepted" /\ handle = r /\ r \notin revoked
  BY DEF Publish, MayStillPublish
<1>2. r \in Begun
  BY <1>1 DEF Inv, RequestsConsistent, Numbered
<1>3. ticket[r] = LastTicket
  BY <1>1, RequestAssumption DEF LastTicket
<1>4. /\ route[r] \in Plan /\ route[r].token = task[r].token
      /\ route[r].token.request = r
  BY <1>1, <1>2 DEF Inv, RequestsConsistent, Tagged
<1>5. active = task[r].token
  BY <1>1, <1>2, UnrevokedIsActive DEF Inv
<1>6. /\ current' = route[r] /\ previous' \in {previous, current}
      /\ UNCHANGED <<active, handle, revoked, task, ticket>>
  BY DEF Publish, Swap
<1> QED
  BY <1>1, <1>2, <1>3, <1>4, <1>5, <1>6

(* Every other step of a request shows nothing.                            *)
LEMMA QuietStep ==
  ASSUME Inv, NEW r \in Requests, Execute(r),
         ~(Publish(r) /\ MayStillPublish(r))
  PROVE  UNCHANGED <<storeVars, handle, revoked, task, ticket>>
BY DEF Execute, FindRoutes, StopSearch, Fail, Review, ReadDisplayed, Decline,
       Publish

-------------------------------------------------------------------------------
(* A session implements LatestWins                                         *)

LEMMA InitIsPromiseInit == Init => Promise!Init
<1> SUFFICES ASSUME Init PROVE Promise!Init
  OBVIOUS
<1>1. LastTicket = 0 /\ revoked = {} /\ current = NoPlan
  BY DEF Init, StoreInit, LastTicket
<1> QED
  BY <1>1 DEF Promise!Init

LEMMA NextIsPromiseStep ==
  ASSUME Inv, [Next]_vars
  PROVE  [Promise!Next]_(Promise!vars)
<1> USE DEF Promise!vars
<1>1. ASSUME NEW r \in Requests, NEW t \in Task, Begin(r, t), ticket' # ticket
      PROVE  Promise!Issue
  <2>1. LastTicket' = LastTicket + 1
    BY <1>1, BeginStep
  <2>2. Closed' = Closed \cup 1..LastTicket
    <3>1. Closed' = {ticket[q] : q \in Begun}
      BY <1>1, BeginStep DEF Closed
    <3>2. {ticket[q] : q \in Begun} = 1..LastTicket /\ revoked \subseteq Begun
      BY DEF Inv, RequestsConsistent, Numbered
    <3> QED
      BY <3>1, <3>2 DEF Closed
  <2>3. ShownTicket' \in {0, ShownTicket}
    <3>1. current' \in {current, NoPlan}
      BY <1>1, BeginStep DEF Activate
    <3>2. current # NoPlan => current.token.request \in Begun
      BY DEF Inv, RequestsConsistent, Tagged
    <3>3. current # NoPlan =>
            ticket'[current.token.request] = ticket[current.token.request]
      BY <1>1, <3>2, BeginStep
    <3> QED
      BY <3>1, <3>3 DEF ShownTicket
  <2> QED
    BY <2>1, <2>2, <2>3 DEF Promise!Issue, Closed, ShownTicket
<1>2. ASSUME NEW r \in Requests, NEW t \in Task, Begin(r, t), ticket' = ticket
      PROVE  UNCHANGED (Promise!vars)
  BY <1>2, QuietBegin DEF storeVars, LastTicket
<1>3. ASSUME NEW r \in Requests, Cancel(r)
      PROVE  Promise!Close
  <2>1. /\ r \in Begun /\ revoked' = revoked \cup {r}
        /\ UNCHANGED <<handle, ticket, current>>
    BY <1>3 DEF Cancel, CancelToken, storeVars
  <2>2. LastTicket' = LastTicket /\ ShownTicket' = ShownTicket
    BY <2>1 DEF LastTicket, ShownTicket
  <2>3. ticket[r] \in 1..LastTicket
    BY <2>1 DEF Inv, RequestsConsistent, Numbered
  <2>4. Closed' = Closed \cup {ticket[r]}
    BY <2>1 DEF Closed
  <2> QED
    BY <2>2, <2>3, <2>4 DEF Promise!Close, Closed, ShownTicket
<1>4. ASSUME NEW r \in Requests, Publish(r), MayStillPublish(r)
      PROVE  Promise!Show
  <2>1. /\ r \in Begun /\ r \notin revoked /\ ticket[r] = LastTicket
        /\ current' = route[r] /\ route[r] \in Plan
        /\ route[r].token.request = r
        /\ UNCHANGED <<handle, revoked, ticket>>
    BY <1>4, PublishStep
  <2>2. LastTicket' = LastTicket /\ Closed' = Closed
    BY <2>1 DEF LastTicket, Closed
  <2>3. ShownTicket' = LastTicket
    BY <2>1, PlanAssumption DEF ShownTicket
  <2>4. LastTicket \in 1..LastTicket
    BY <2>1 DEF Inv, RequestsConsistent, Numbered
  <2>5. LastTicket \notin Closed
    BY <2>1 DEF Closed, Inv, RequestsConsistent, Numbered
  <2> QED
    BY <2>2, <2>3, <2>4, <2>5 DEF Promise!Show, Closed, ShownTicket
<1>5. ASSUME NEW r \in Requests, Execute(r), ~(Publish(r) /\ MayStillPublish(r))
      PROVE  UNCHANGED (Promise!vars)
  BY <1>5, QuietStep DEF storeVars, LastTicket
<1>6. CASE UNCHANGED vars
  BY <1>6 DEF vars, storeVars, requestVars, LastTicket
<1>7. ASSUME NEW r \in Requests, Execute(r)
      PROVE  [Promise!Next]_(Promise!vars)
  BY <1>4, <1>5, <1>7 DEF Promise!Next
<1>8. ASSUME NEW r \in Requests, NEW t \in Task, Begin(r, t)
      PROVE  [Promise!Next]_(Promise!vars)
  BY <1>1, <1>2, <1>8 DEF Promise!Next
<1> QED
  BY <1>3, <1>6, <1>7, <1>8 DEF Next, Promise!Next

(* Only the newest request replaces the display, and never after it was    *)
(* cancelled.                                                              *)
THEOREM SessionImplementsLatestWins == Spec => LatestWinsSpec
<1>1. Inv /\ [Next]_vars => [Promise!Next]_(Promise!vars)
  BY NextIsPromiseStep
<1> QED
  BY <1>1, InitIsPromiseInit, SessionInvariant, PTL
     DEF Spec, LatestWinsSpec, Promise!Spec

-------------------------------------------------------------------------------
(* Results in the order of their inputs                                    *)

(* Within one run, requests begin in the order of their inputs.            *)
BegunInInputOrder ==
  OneRun => \A r, q \in Begun :
              ticket[r] < ticket[q] => ~Older(task[q].token, task[r].token)

LEMMA OlderIsTransitive ==
  ASSUME NEW a \in Token, NEW b \in Token, NEW c \in Token, OneRun,
         ~Older(b, a), ~Older(c, b)
  PROVE  ~Older(c, a)
<1>1. /\ a.context \in Contexts /\ b.context \in Contexts /\ c.context \in Contexts
      /\ a.revision \in Nat /\ b.revision \in Nat /\ c.revision \in Nat
  BY RevisionIsNat, PlanAssumption DEF Token
<1>2. /\ a.context.generation \in Nat /\ b.context.generation \in Nat
      /\ c.context.generation \in Nat
  BY <1>1, PlanAssumption DEF Context
<1>3. a.context.run = b.context.run /\ b.context.run = c.context.run
  BY <1>1 DEF OneRun
<1> QED
  BY <1>1, <1>2, <1>3 DEF Older

LEMMA BeginKeepsInputOrder ==
  ASSUME Inv, BegunInInputOrder, NEW r \in Requests, NEW t \in Task, Begin(r, t)
  PROVE  BegunInInputOrder'
<1>1. CASE ticket' = ticket
  BY <1>1, QuietBegin DEF BegunInInputOrder, Begun
<1>2. CASE ticket' # ticket
  <2> SUFFICES ASSUME OneRun, NEW p \in Begun', NEW q \in Begun',
                      ticket'[p] < ticket'[q]
               PROVE  ~Older(task'[q].token, task'[p].token)
    BY DEF BegunInInputOrder
  <2>1. \A x \in Begun : ticket[x] \in 1..LastTicket
    BY DEF Inv, RequestsConsistent, Numbered
  <2>2. p \in Begun
    BY <1>2, <2>1, BeginStep
  <2>3. CASE q \in Begun
    BY <1>2, <2>2, <2>3, BeginStep DEF BegunInInputOrder
  <2>4. CASE q = r
    <3>1. handle \in Begun /\ active = task[handle].token /\ active # NoToken
      <4>1. handle # NoRequest
        BY <2>2 DEF Inv, FencesAgree
      <4>2. handle \in Begun /\ active = task[handle].token
        BY <4>1 DEF Inv, FencesAgree
      <4> QED
        BY <4>2, BegunToken, PlanAssumption DEF Inv, RequestsConsistent
    <3>2. t.token # active
      BY <1>2, <3>1, BeginStep DEF Begin, Inv, RequestsConsistent, Tagged
    <3>3. ~Older(t.token, active)
      BY <1>2, <3>1, <3>2, BeginStep DEF Refused
    <3>4. ~Older(active, task[p].token)
      <4>1. ticket[handle] = LastTicket
        BY <3>1, RequestAssumption DEF LastTicket, Begun
      <4>2. CASE p = handle
        <5>1. active \in Token
          BY <3>1, BegunToken DEF Inv, RequestsConsistent
        <5>2. active.context.generation \in Nat /\ active.revision \in Nat
          BY <5>1, PlanAssumption DEF Token, Context
        <5> QED
          BY <3>1, <4>2, <5>2 DEF Older
      <4>3. CASE p # handle
        <5>1. ticket[p] # ticket[handle]
          BY <2>2, <3>1, <4>3 DEF Inv, RequestsConsistent, Numbered
        <5>2. ticket[p] < ticket[handle]
          BY <2>1, <2>2, <3>1, <4>1, <5>1
        <5> QED
          BY <2>2, <3>1, <5>2 DEF BegunInInputOrder
      <4> QED
        BY <4>2, <4>3
    <3>5. t.token \in Token /\ active \in Token /\ task[p].token \in Token
      BY <2>2, <3>1, BegunToken, TaskParts DEF Inv, RequestsConsistent
    <3>6. ~Older(t.token, task[p].token)
      BY <3>3, <3>4, <3>5, OlderIsTransitive
    <3> QED
      BY <1>2, <2>2, <2>4, <3>6, BeginStep
  <2> QED
    BY <1>2, <2>3, <2>4, BeginStep
<1> QED
  BY <1>1, <1>2

(* However searches overlap, the results of one run become visible in the  *)
(* order of the data they were computed from.                              *)
THEOREM ResultsInInputOrder == Spec => []PublishedInInputOrder
<1>1. Init => BegunInInputOrder
  BY DEF Init, Begun, BegunInInputOrder
<1>2. Inv /\ BegunInInputOrder /\ [Next]_vars => BegunInInputOrder'
  <2> SUFFICES ASSUME Inv, BegunInInputOrder, [Next]_vars
               PROVE  BegunInInputOrder'
    OBVIOUS
  <2>1. ASSUME NEW r \in Requests, Cancel(r)
        PROVE  UNCHANGED <<ticket, task>>
    BY <2>1 DEF Cancel
  <2>2. ASSUME NEW r \in Requests, Execute(r)
        PROVE  UNCHANGED <<ticket, task>>
    BY <2>2, ExecuteKeepsFences
  <2>3. CASE UNCHANGED vars
    BY <2>3 DEF vars, requestVars, BegunInInputOrder, Begun
  <2>4. CASE UNCHANGED <<ticket, task>>
    BY <2>4 DEF BegunInInputOrder, Begun
  <2> QED
    BY <2>1, <2>2, <2>3, <2>4, BeginKeepsInputOrder DEF Next
<1>3. Inv /\ BegunInInputOrder => PublishedInInputOrder
  <2> SUFFICES ASSUME Inv, BegunInInputOrder PROVE PublishedInInputOrder
    OBVIOUS
  <2>1. \A r \in Requests : pc[r] = "published" => r \in Begun
    BY DEF Inv, RequestsConsistent, Numbered
  <2> QED
    BY <2>1 DEF BegunInInputOrder, PublishedInInputOrder
<1> QED
  BY <1>1, <1>2, <1>3, SessionInvariant, PTL DEF Spec

-------------------------------------------------------------------------------
(* The previous plan is an earlier one                                     *)

(* Plans on display are of requests that have ended.                       *)
DisplayedArePublished ==
  \A plan \in {current, previous} \ {NoPlan} :
    pc[plan.token.request] = "published"

LEMMA NextKeepsPrevious ==
  ASSUME Inv, SnapshotCoherent, DisplayedArePublished, PreviousIsEarlier,
         [Next]_vars
  PROVE  DisplayedArePublished' /\ PreviousIsEarlier'
<1> USE DEF DisplayedArePublished, PreviousIsEarlier
<1>0. \A plan \in {current, previous} \ {NoPlan} : plan.token.request \in Begun
  BY DEF Inv, RequestsConsistent, Tagged
<1>1. ASSUME NEW r \in Requests, NEW t \in Task, Begin(r, t)
      PROVE  DisplayedArePublished' /\ PreviousIsEarlier'
  <2>1. pc[r] = "idle"
    BY <1>1 DEF Begin
  <2>2. CASE ticket' = ticket
    BY <1>0, <1>1, <2>1, <2>2, QuietBegin DEF storeVars, Begun
  <2>3. CASE ticket' # ticket
    <3>1. \/ UNCHANGED <<current, previous>>
          \/ current' = NoPlan /\ previous' = NoPlan
      BY <1>1, <2>3, BeginStep DEF Activate
    <3>2. r \notin Begun /\ \A q \in Begun : /\ ticket'[q] = ticket[q]
                                             /\ pc'[q] = pc[q]
      BY <1>1, <2>3, BeginStep DEF Begun
    <3> QED
      BY <1>0, <3>1, <3>2
  <2> QED
    BY <2>2, <2>3
<1>2. ASSUME NEW r \in Requests, Cancel(r)
      PROVE  DisplayedArePublished' /\ PreviousIsEarlier'
  BY <1>2 DEF Cancel, CancelToken, storeVars
<1>3. ASSUME NEW r \in Requests, Publish(r), MayStillPublish(r)
      PROVE  DisplayedArePublished' /\ PreviousIsEarlier'
  <2>1. /\ pc[r] = "accepted" /\ pc'[r] = "published"
        /\ \A q \in Requests \ {r} : pc'[q] = pc[q]
    BY <1>3 DEF Publish, Goto, Inv, TypeOK
  <2>2. /\ r \in Begun /\ ticket[r] = LastTicket
        /\ route[r].token.request = r
        /\ current' = route[r] /\ ticket' = ticket
    BY <1>3, PublishStep
  <2>3. current # NoPlan => /\ current.token.request \in Begun \ {r}
                            /\ ticket[current.token.request] < LastTicket
    <3> SUFFICES ASSUME current # NoPlan
                 PROVE  /\ current.token.request \in Begun \ {r}
                        /\ ticket[current.token.request] < LastTicket
      OBVIOUS
    <3> DEFINE q == current.token.request
    <3>1. q \in Begun /\ q # r
      BY <1>0, <2>1
    <3>2. ticket[q] \in 1..LastTicket /\ ticket[q] # ticket[r]
      BY <2>2, <3>1 DEF Inv, RequestsConsistent, Numbered
    <3>3. LastTicket \in Nat
      BY DEF LastTicket, Inv, TypeOK
    <3>4. ticket[q] < LastTicket
      BY <2>2, <3>2, <3>3
    <3> QED
      BY <3>1, <3>4
  <2>4. current # NoPlan => previous' = current
    <3>1. current # NoPlan => current # route[r]
      BY <2>2, <2>3
    <3> QED
      BY <1>3, <3>1 DEF Publish, Swap
  <2>5. current = NoPlan => previous' = NoPlan
    <3>1. current = NoPlan => previous = NoPlan
      BY DEF SnapshotCoherent
    <3> QED
      BY <1>3, <3>1 DEF Publish, Swap
  <2> QED
    BY <1>0, <2>1, <2>2, <2>3, <2>4, <2>5 DEF Begun
<1>4. ASSUME NEW r \in Requests, Execute(r), ~(Publish(r) /\ MayStillPublish(r))
      PROVE  DisplayedArePublished' /\ PreviousIsEarlier'
  <2>1. UNCHANGED <<current, previous, ticket>>
    BY <1>4, QuietStep DEF storeVars
  <2>2. /\ pc[r] # "published"
        /\ \A q \in Requests \ {r} : pc'[q] = pc[q]
    BY <1>4 DEF Execute, FindRoutes, StopSearch, Fail, Review, ReadDisplayed,
                Decline, Publish, Goto, Inv, TypeOK
  <2> QED
    BY <1>0, <2>1, <2>2 DEF Begun
<1>5. CASE UNCHANGED vars
  BY <1>5 DEF vars, storeVars, requestVars
<1> QED
  BY <1>1, <1>2, <1>3, <1>4, <1>5 DEF Next

(* D's previous plan was begun before its current one.                     *)
THEOREM PreviousAlwaysEarlier == Spec => []PreviousIsEarlier
<1>1. Init => DisplayedArePublished /\ PreviousIsEarlier
  BY DEF Init, StoreInit, DisplayedArePublished, PreviousIsEarlier
<1>2. Inv /\ SnapshotCoherent /\ DisplayedArePublished /\ PreviousIsEarlier
        /\ [Next]_vars => DisplayedArePublished' /\ PreviousIsEarlier'
  BY NextKeepsPrevious
<1> QED
  BY <1>1, <1>2, SessionInvariant, SessionSnapshotCoherent, PTL DEF Spec

-------------------------------------------------------------------------------
(* Unforced switches are improvements                                      *)

(* A request that is about to publish was let through by the gate.         *)
PassedGate ==
  \A r \in Requests :
    pc[r] = "accepted" /\ task[r].gated =>
      GateAccepts(seen[r], route[r], task[r].reasons)

(* A relative benefit of at least none is a lower or equal cost.           *)
LEMMA BenefitIsNoDearer ==
  ASSUME NEW current_ \in Plan, NEW candidate \in Plan,
         BenefitReached(current_, candidate)
  PROVE  candidate.cost <= current_.cost
<1> DEFINE c == current_.cost
           d == candidate.cost
<1>1. c \in Nat /\ d \in Nat
  BY PlanAssumption DEF Plan
<1>2. CASE c > 0 /\ 100 * (c - d) >= MinImprovement * c
  <2>1. MinImprovement \in Nat
    BY GateAssumption
  <2>2. MinImprovement * c >= 0
    BY <1>1, <2>1
  <2> HIDE DEF c, d
  <2>3. 100 * (c - d) >= 0
    <3> DEFINE m == MinImprovement * c
    <3>1. m \in Nat
      BY <1>1, <2>1
    <3> HIDE DEF m
    <3>2. 100 * (c - d) >= m
      BY <1>2 DEF m
    <3> QED
      BY <1>1, <3>1, <3>2
  <2>4. d <= c
    BY <1>1, <2>3
  <2> QED
    BY <2>4 DEF c, d
<1>3. CASE c = 0 /\ d = 0
  BY <1>3
<1> QED
  BY <1>2, <1>3 DEF BenefitReached

LEMMA NextKeepsGate ==
  ASSUME Inv, PassedGate, [Next]_vars
  PROVE  PassedGate'
<1>1. ASSUME NEW r \in Requests, NEW t \in Task, Begin(r, t)
      PROVE  PassedGate'
  <2>1. /\ UNCHANGED <<route, seen>>
        /\ pc'[r] # "accepted"
        /\ \A q \in Requests \ {r} : pc'[q] = pc[q] /\ task'[q] = task[q]
    BY <1>1 DEF Begin, Goto, Inv, TypeOK
  <2> QED
    BY <2>1 DEF PassedGate
<1>2. ASSUME NEW r \in Requests, Cancel(r)
      PROVE  PassedGate'
  BY <1>2 DEF Cancel, PassedGate
<1>3. ASSUME NEW r \in Requests, ReadDisplayed(r)
      PROVE  PassedGate'
  <2>1. /\ UNCHANGED <<route, task>>
        /\ \A q \in Requests \ {r} : pc'[q] = pc[q] /\ seen'[q] = seen[q]
    BY <1>3 DEF ReadDisplayed, Goto, Inv, TypeOK
  <2>2. pc'[r] = "accepted" /\ task[r].gated =>
          GateAccepts(seen'[r], route[r], task[r].reasons)
    BY <1>3 DEF ReadDisplayed, Goto, Inv, TypeOK
  <2> QED
    BY <2>1, <2>2 DEF PassedGate
<1>4. ASSUME NEW r \in Requests,
             \/ \E cost \in Costs, risk \in Risks : FindRoutes(r, cost, risk)
             \/ StopSearch(r) \/ Fail(r) \/ Review(r) \/ Decline(r) \/ Publish(r)
      PROVE  PassedGate'
  <2>1. /\ UNCHANGED <<seen, task>>
        /\ pc'[r] # "accepted"
        /\ \A q \in Requests \ {r} : pc'[q] = pc[q] /\ route'[q] = route[q]
    BY <1>4 DEF FindRoutes, StopSearch, Fail, Review, Decline, Publish, Goto,
                Inv, TypeOK
  <2> QED
    BY <2>1 DEF PassedGate
<1>5. CASE UNCHANGED vars
  BY <1>5 DEF vars, requestVars, PassedGate
<1> QED
  BY <1>1, <1>2, <1>3, <1>4, <1>5 DEF Next, Execute

(* Unless an event or an operator forces it, D is never switched to        *)
(* another vessel's route, to a clearly riskier one, or to a dearer one    *)
(* that does not clearly reduce the risk.                                  *)
THEOREM SwitchesImprove == Spec => SwitchIsAnImprovement
<1>1. Init => PassedGate
  BY DEF Init, PassedGate
<1>2. Inv /\ PassedGate /\ [Next]_vars => PassedGate'
  BY NextKeepsGate
<1>3. Inv /\ PassedGate /\ [Next]_vars =>
        [ \A r \in Requests :
            /\ Publishes(r)
            /\ task[r].gated
            /\ task[r].reasons \cap {"EVENT", "MANUAL"} = {}
            /\ current # NoPlan
            => /\ current'.subject = current.subject
               /\ current'.risk <= current.risk + RiskHysteresis
               /\ \/ current'.cost <= current.cost
                  \/ current'.risk <= current.risk - RiskHysteresis ]_vars
  <2> SUFFICES ASSUME Inv, PassedGate, Next, NEW r \in Requests, Publishes(r),
                      task[r].gated,
                      task[r].reasons \cap {"EVENT", "MANUAL"} = {},
                      current # NoPlan
               PROVE  /\ current'.subject = current.subject
                      /\ current'.risk <= current.risk + RiskHysteresis
                      /\ \/ current'.cost <= current.cost
                         \/ current'.risk <= current.risk - RiskHysteresis
    OBVIOUS
  <2>1. Publish(r) /\ MayStillPublish(r)
    BY PublishesIsPublication
  <2>2. /\ current' = route[r] /\ route[r] \in Plan
        /\ r \notin revoked
    BY <2>1, PublishStep
  <2>3. pc[r] = "accepted"
    BY <2>1 DEF Publish
  <2>4. seen[r] = current
    BY <2>2, <2>3 DEF Inv, RequestsConsistent, SeenIsDisplayed
  <2>5. GateAccepts(current, route[r], task[r].reasons)
    BY <2>3, <2>4 DEF PassedGate
  <2>6. current \in Plan
    BY DEF Inv, TypeOK, StoreTypeOK
  <2>7. /\ route[r].subject = current.subject
        /\ \/ RiskReduced(current, route[r])
           \/ ~RiskIncreased(current, route[r]) /\ BenefitReached(current, route[r])
    BY <2>5 DEF GateAccepts
  <2>8. current.risk \in Nat /\ route[r].risk \in Nat /\ RiskHysteresis \in Nat
    BY <2>2, <2>6, PlanAssumption, GateAssumption DEF Plan
  <2>9. CASE RiskReduced(current, route[r])
    BY <2>2, <2>7, <2>8, <2>9 DEF RiskReduced
  <2>10. CASE ~RiskIncreased(current, route[r]) /\ BenefitReached(current, route[r])
    <3>1. route[r].cost <= current.cost
      BY <2>2, <2>6, <2>10, BenefitIsNoDearer
    <3> QED
      BY <2>2, <2>7, <2>8, <2>10, <3>1 DEF RiskIncreased
  <2> QED
    BY <2>7, <2>9, <2>10
<1> QED
  BY <1>1, <1>2, <1>3, SessionInvariant, PTL DEF Spec, SwitchIsAnImprovement

-------------------------------------------------------------------------------
(* The four-layer service                                                  *)

Labels ==
  Ended \cup {"idle", "planning", "activated", "found", "reviewed", "accepted",
              "rejected", "cleared"}

Types ==
  /\ handle \in Requests \cup {NoRequest}
  /\ pc \in [Requests -> Labels]
  /\ task \in [Requests -> Task \cup {NoTask}]
  /\ route \in [Requests -> Plan \cup {NoPlan}]
  /\ seen = [r \in Requests |-> seen[r]]
  /\ ticket \in [Requests -> Nat]

(* Only requests that began run or are revoked, and the active one is the  *)
(* newest of them.                                                         *)
Newest ==
  /\ \A r \in Begun : pc[r] # "idle"
  /\ \A r \in Requests : pc[r] \notin {"idle", "refused"} => r \in Begun
  /\ revoked \subseteq Begun
  /\ \A r \in Begun \ {handle} : ticket[r] < LastTicket

(* A route in flight carries the token of its request.                     *)
Carried ==
  /\ \A r \in Begun : task[r] \in Task /\ task[r].token.request = r
  /\ \A r \in Requests :
       pc[r] \in {"found", "reviewed", "accepted",
                  "rejected", "cleared", "published"} =>
         route[r] \in Plan /\ route[r].token = task[r].token
  /\ \A r \in Requests :
       pc[r] \in {"activated", "cleared"} => r \in LayeredRequests

(* A set on display is of a request that has ended.                        *)
ShownHasEnded ==
  layeredCurrent # NoPlan =>
    LET q == layeredCurrent.token.request IN q \in Begun /\ pc[q] = "published"

(* While the layered store is fenced to a request, no other set comes in   *)
(* between its gate and its publication.                                   *)
SeenIsShown ==
  \A r \in LayeredRequests :
    pc[r] \in {"accepted", "rejected", "cleared"} /\ layeredActive = task[r].token
      => seen[r] = layeredCurrent

(* Nor one of a later request after its final review.                      *)
ClearedIsLater ==
  \A r \in Requests :
    pc[r] = "cleared" /\ layeredActive = task[r].token /\ layeredCurrent # NoPlan
      => ticket[layeredCurrent.token.request] < ticket[r]

SharedInv == Types /\ Newest /\ Carried /\ FencesAgree

LayeredInv ==
  SharedInv /\ ShownHasEnded /\ SeenIsShown /\ ClearedIsLater
  /\ V2CancelledForAReason

-------------------------------------------------------------------------------
(* Steps                                                                   *)

LEMMA TaskToken == \A t \in Task : t.token \in Token
BY DEF Task

(* Tokens of different requests differ.                                    *)
LEMMA OwnToken ==
  ASSUME Carried, NEW r \in Begun, NEW q \in Begun, task[r].token = task[q].token
  PROVE  r = q
BY DEF Carried

(* begin() either refuses or makes the request the newest.                 *)
LEMMA BeginEffect ==
  ASSUME SharedInv, NEW r \in Requests, NEW t \in Task, Begin(r, t)
  PROVE  /\ r \notin Begun /\ pc[r] = "idle" /\ t.token.request = r
         /\ UNCHANGED <<route, seen>>
         /\ \A q \in Requests \ {r} : /\ pc'[q] = pc[q] /\ task'[q] = task[q]
                                      /\ ticket'[q] = ticket[q]
         /\ \/ /\ pc' = [pc EXCEPT ![r] = "refused"] /\ pc'[r] = "refused"
               /\ Begun' = Begun
               /\ UNCHANGED <<storeVars, handle, revoked, task, ticket>>
            \/ /\ pc' = [pc EXCEPT ![r] = "planning"] /\ pc'[r] = "planning"
               /\ task' = [task EXCEPT ![r] = t] /\ task'[r] = t
               /\ ticket' = [ticket EXCEPT ![r] = LastTicket + 1]
               /\ ticket'[r] = LastTicket + 1 /\ LastTicket \in Nat
               /\ Begun' = Begun \cup {r} /\ handle' = r
               /\ revoked' = revoked \cup Superseded
               /\ Activate(t.token)
<1> USE DEF SharedInv
<1>1. pc[r] = "idle" /\ r \notin Begun /\ t.token.request = r
  BY DEF Begin, Newest
<1>2. LastTicket \in Nat
  BY DEF LastTicket, Types
<1>3. CASE /\ UNCHANGED <<storeVars, handle, revoked, task, route, seen, ticket>>
           /\ Goto(r, "refused")
  <2>1. Begun' = Begun
    BY <1>3 DEF Begun
  <2>2. /\ pc' = [pc EXCEPT ![r] = "refused"] /\ pc'[r] = "refused"
        /\ \A q \in Requests \ {r} : pc'[q] = pc[q]
    BY <1>3 DEF Goto, Types
  <2> QED  BY <1>1, <1>3, <2>1, <2>2
<1>4. CASE /\ Activate(t.token)
           /\ revoked' = revoked \cup Superseded
           /\ handle' = r
           /\ task' = [task EXCEPT ![r] = t]
           /\ ticket' = [ticket EXCEPT ![r] = LastTicket + 1]
           /\ Goto(r, "planning")
           /\ UNCHANGED <<route, seen>>
  <2>1. /\ ticket'[r] = LastTicket + 1
        /\ \A q \in Requests \ {r} : ticket'[q] = ticket[q]
    BY <1>4 DEF Types
  <2>2. Begun' = Begun \cup {r}
    BY <1>2, <2>1 DEF Begun
  <2>3. /\ pc' = [pc EXCEPT ![r] = "planning"] /\ pc'[r] = "planning"
        /\ \A q \in Requests \ {r} : pc'[q] = pc[q]
    BY <1>4 DEF Goto, Types
  <2>4. task'[r] = t /\ \A q \in Requests \ {r} : task'[q] = task[q]
    BY <1>4 DEF Types
  <2> QED  BY <1>1, <1>2, <1>4, <2>1, <2>2, <2>3, <2>4
<1> QED  BY <1>3, <1>4 DEF Begin

(* What cancel() changes, of either service.                               *)
LEMMA CancelEffect ==
  ASSUME SharedInv, NEW r \in Requests, Cancel(r)
  PROVE  /\ r \in Begun /\ Begun' = Begun /\ LastTicket' = LastTicket
         /\ revoked' = revoked \cup {r}
         /\ UNCHANGED <<handle, pc, task, route, seen, ticket, active>>
         /\ handle \in Begun
         /\ r = handle => cancelled' = TRUE
         /\ r # handle => cancelled' = cancelled
<1> USE DEF SharedInv
<1>1. /\ r \in Begun /\ Begun' = Begun /\ LastTicket' = LastTicket
      /\ revoked' = revoked \cup {r}
      /\ UNCHANGED <<handle, pc, task, route, seen, ticket, active>>
  BY DEF Cancel, CancelToken, storeVars, Begun, LastTicket
<1>2. handle \in Begun /\ active = task[handle].token
  BY <1>1 DEF FencesAgree
<1>3. r = handle <=> task[r].token = active
  BY <1>1, <1>2, OwnToken
<1>4. ASSUME r = handle PROVE cancelled' = TRUE
  BY <1>3, <1>4 DEF Cancel, CancelToken
<1>5. ASSUME r # handle PROVE cancelled' = cancelled
  BY <1>3, <1>5 DEF Cancel, CancelToken, storeVars
<1> QED  BY <1>1, <1>2, <1>4, <1>5

(* A step of execute() of either service: it concerns its own request, and *)
(* leaves the fences of the v2 path alone.                                 *)
LEMMA ExecuteEffect ==
  ASSUME SharedInv, NEW r \in Requests, ExecuteAny(r)
  PROVE  /\ UNCHANGED <<active, cancelled, handle, revoked, task, ticket>>
         /\ Begun' = Begun /\ LastTicket' = LastTicket /\ r \in Begun
         /\ pc'[r] \in Labels \ {"idle"}
         /\ pc' = [pc EXCEPT ![r] = pc'[r]]
         /\ route' = [route EXCEPT ![r] = route'[r]]
         /\ seen' = [seen EXCEPT ![r] = seen'[r]]
         /\ \A q \in Requests \ {r} : /\ pc'[q] = pc[q] /\ route'[q] = route[q]
                                      /\ seen'[q] = seen[q]
<1> USE DEF SharedInv, Labels, Ended
<1>1. UNCHANGED <<active, cancelled, handle, revoked, task, ticket>>
  BY DEF ExecuteAny, ExecuteLayered, Execute, ActivateLayered, FindLayers,
     StopLayers, FailLayers, ReadDisplayedSet, FinalReview, PublishSet,
     FindRoutes, StopSearch, Fail, Review, ReadDisplayed, Decline, Publish, Swap,
     storeVars
<1>2. Begun' = Begun /\ LastTicket' = LastTicket
  BY <1>1 DEF Begun, LastTicket
<1>3. pc[r] \notin {"idle", "refused"}
  BY DEF ExecuteAny, ExecuteLayered, Execute, ActivateLayered, FindLayers,
     StopLayers, FailLayers, ReadDisplayedSet, FinalReview, PublishSet,
     FindRoutes, StopSearch, Fail, Review, ReadDisplayed, Decline, Publish
<1>4. \E label \in Labels \ {"idle"} : Goto(r, label)
  BY DEF ExecuteAny, ExecuteLayered, Execute, ActivateLayered, FindLayers,
     StopLayers, FailLayers, ReadDisplayedSet, FinalReview, PublishSet,
     FindRoutes, StopSearch, Fail, Review, ReadDisplayed, Decline, Publish
<1>5. /\ pc'[r] \in Labels \ {"idle"} /\ pc' = [pc EXCEPT ![r] = pc'[r]]
      /\ \A q \in Requests \ {r} : pc'[q] = pc[q]
  BY <1>4 DEF Goto, Types
<1>6. /\ \E new : route' = [route EXCEPT ![r] = new]
      /\ \E new : seen' = [seen EXCEPT ![r] = new]
  <2>1. CASE UNCHANGED <<route, seen>>
    <3>1. /\ route' = [route EXCEPT ![r] = route[r]]
          /\ seen' = [seen EXCEPT ![r] = seen[r]]
      BY <2>1 DEF Types
    <3> QED  BY <3>1
  <2>2. CASE \E cost \in Costs, risk \in Risks :
               FindRoutes(r, cost, risk) \/ FindLayers(r, cost, risk)
    <3>1. seen' = [seen EXCEPT ![r] = seen[r]]
      BY <2>2 DEF FindRoutes, FindLayers, Types
    <3> QED  BY <2>2, <3>1 DEF FindRoutes, FindLayers
  <2>3. CASE ReadDisplayed(r) \/ ReadDisplayedSet(r)
    <3>1. route' = [route EXCEPT ![r] = route[r]]
      BY <2>3 DEF ReadDisplayed, ReadDisplayedSet, Types
    <3> QED  BY <2>3, <3>1 DEF ReadDisplayed, ReadDisplayedSet
  <2> QED
    BY <2>1, <2>2, <2>3
    DEF ExecuteAny, ExecuteLayered, Execute, ActivateLayered, StopLayers,
        FailLayers, FinalReview, PublishSet, StopSearch, Fail, Review, Decline,
        Publish
<1>7. /\ route' = [route EXCEPT ![r] = route'[r]]
      /\ seen' = [seen EXCEPT ![r] = seen'[r]]
      /\ \A q \in Requests \ {r} : route'[q] = route[q] /\ seen'[q] = seen[q]
  BY <1>6 DEF Types
<1> QED  BY <1>1, <1>2, <1>3, <1>5, <1>7 DEF Newest

-------------------------------------------------------------------------------
(* What the two services share                                             *)

LEMMA InitSharedInv == LayeredInit => SharedInv
<1> SUFFICES ASSUME LayeredInit PROVE SharedInv
  OBVIOUS
<1>1. /\ handle = NoRequest /\ revoked = {} /\ Begun = {}
      /\ pc = [r \in Requests |-> "idle"]
      /\ active = NoToken
  BY DEF LayeredInit, Init, StoreInit, Begun
<1>2. Types
  BY DEF LayeredInit, Init, Types, Labels
<1> QED  BY <1>1, <1>2 DEF SharedInv, Newest, Carried, FencesAgree

LEMMA BeginShared ==
  ASSUME SharedInv, NEW r \in Requests, NEW t \in Task, Begin(r, t)
  PROVE  SharedInv'
<1> USE DEF SharedInv
<1>0. Begun \subseteq Requests
  BY DEF Begun
<1>1. CASE /\ pc' = [pc EXCEPT ![r] = "refused"] /\ pc'[r] = "refused"
           /\ Begun' = Begun
           /\ UNCHANGED <<storeVars, handle, revoked, task, ticket>>
  <2>1. /\ r \notin Begun /\ UNCHANGED <<route, seen>>
        /\ \A q \in Requests \ {r} : pc'[q] = pc[q]
    BY BeginEffect
  <2>2. LastTicket' = LastTicket
    BY <1>1 DEF LastTicket
  <2>3. Types'
    BY <1>1, <2>1 DEF Types, Labels, Ended
  <2>4. Newest'
    BY <1>0, <1>1, <2>1, <2>2 DEF Newest
  <2>5. Carried'
    BY <1>0, <1>1, <2>1 DEF Carried
  <2>6. FencesAgree'
    BY <1>1 DEF FencesAgree, storeVars
  <2> QED  BY <2>3, <2>4, <2>5, <2>6
<1>2. CASE /\ pc' = [pc EXCEPT ![r] = "planning"] /\ pc'[r] = "planning"
           /\ task' = [task EXCEPT ![r] = t] /\ task'[r] = t
           /\ ticket' = [ticket EXCEPT ![r] = LastTicket + 1]
           /\ ticket'[r] = LastTicket + 1 /\ LastTicket \in Nat
           /\ Begun' = Begun \cup {r} /\ handle' = r
           /\ revoked' = revoked \cup Superseded
           /\ Activate(t.token)
  <2>1. /\ r \notin Begun /\ UNCHANGED <<route, seen>> /\ t.token.request = r
        /\ pc[r] = "idle"
        /\ \A q \in Requests \ {r} : /\ pc'[q] = pc[q] /\ task'[q] = task[q]
                                     /\ ticket'[q] = ticket[q]
    BY BeginEffect
  <2>2. LastTicket' = LastTicket + 1
    BY <1>2, RequestAssumption DEF LastTicket
  <2>3. Types'
    BY <1>2, <2>1 DEF Types, Labels, Ended
  <2>4. \A q \in Begun : ticket[q] <= LastTicket /\ ticket[q] \in Nat
    <3>1. ASSUME NEW q \in Begun PROVE ticket[q] <= LastTicket /\ ticket[q] \in Nat
      <4>1. ticket[q] \in Nat
        BY <1>0 DEF Types
      <4>2. CASE q = handle
        BY <1>0, <1>2, <4>1, <4>2, RequestAssumption DEF LastTicket
      <4>3. CASE q # handle
        BY <1>2, <4>1, <4>3 DEF Newest
      <4> QED  BY <4>2, <4>3
    <3> QED  BY <3>1
  <2>5. revoked' \subseteq Begun' /\ r \notin revoked' /\ Begun \subseteq revoked'
    BY <1>2, <2>1, RequestAssumption DEF Superseded, FencesAgree, Newest
  <2>6. Newest'
    <3>1. \A q \in Begun' \ {handle'} : ticket'[q] < LastTicket'
      BY <1>0, <1>2, <2>1, <2>2, <2>4
    <3>2. \A q \in Begun' : pc'[q] # "idle"
      BY <1>0, <1>2, <2>1 DEF Newest
    <3>3. \A q \in Requests : pc'[q] \notin {"idle", "refused"} => q \in Begun'
      BY <1>2, <2>1 DEF Newest
    <3> QED  BY <2>5, <3>1, <3>2, <3>3 DEF Newest
  <2>7. Carried'
    <3>1. \A q \in Begun' : task'[q] \in Task /\ task'[q].token.request = q
      BY <1>0, <1>2, <2>1 DEF Carried
    <3>2. \A q \in Requests :
            pc'[q] \in {"found", "reviewed", "accepted",
                        "rejected", "cleared", "published"} =>
              route'[q] \in Plan /\ route'[q].token = task'[q].token
      BY <1>2, <2>1 DEF Carried
    <3>3. \A q \in Requests :
            pc'[q] \in {"activated", "cleared"} => q \in LayeredRequests
      BY <1>2, <2>1 DEF Carried
    <3> QED  BY <3>1, <3>2, <3>3 DEF Carried
  <2>8. FencesAgree'
    <3>1. active' = t.token /\ cancelled' = FALSE
      BY <1>2 DEF Activate
    <3> QED  BY <1>2, <2>5, <3>1, RequestAssumption DEF FencesAgree
  <2> QED  BY <2>3, <2>6, <2>7, <2>8
<1> QED  BY <1>1, <1>2, BeginEffect

LEMMA CancelShared ==
  ASSUME SharedInv, NEW r \in Requests, Cancel(r)
  PROVE  SharedInv'
<1> USE DEF SharedInv
<1>0. /\ r \in Begun /\ Begun' = Begun /\ LastTicket' = LastTicket
      /\ revoked' = revoked \cup {r} /\ handle \in Begun
      /\ UNCHANGED <<handle, pc, task, route, seen, ticket, active>>
  BY CancelEffect
<1>1. Types'
  BY <1>0 DEF Types
<1>2. Newest'
  BY <1>0 DEF Newest
<1>3. Carried'
  BY <1>0 DEF Carried
<1>4. /\ handle # NoRequest /\ (cancelled <=> handle \in revoked)
      /\ active = task[handle].token /\ Begun \ {handle} \subseteq revoked
  BY <1>0, RequestAssumption DEF FencesAgree, Begun
<1>5. cancelled' <=> handle \in revoked'
  <2>1. CASE r = handle
    BY <1>0, <2>1, CancelEffect
  <2>2. CASE r # handle
    <3>1. cancelled' = cancelled
      BY <2>2, CancelEffect
    <3> QED  BY <1>0, <1>4, <2>2, <3>1
  <2> QED  BY <2>1, <2>2
<1>6. FencesAgree'
  BY <1>0, <1>4, <1>5 DEF FencesAgree
<1> QED  BY <1>1, <1>2, <1>3, <1>6

LEMMA ExecuteShared ==
  ASSUME SharedInv, NEW r \in Requests, ExecuteAny(r)
  PROVE  SharedInv'
<1> USE DEF SharedInv
<1>1. /\ UNCHANGED <<active, cancelled, handle, revoked, task, ticket>>
      /\ Begun' = Begun /\ LastTicket' = LastTicket /\ r \in Begun
      /\ pc'[r] \in Labels \ {"idle"}
      /\ pc' = [pc EXCEPT ![r] = pc'[r]]
      /\ route' = [route EXCEPT ![r] = route'[r]]
      /\ seen' = [seen EXCEPT ![r] = seen'[r]]
      /\ \A q \in Requests \ {r} : pc'[q] = pc[q] /\ route'[q] = route[q]
  BY ExecuteEffect
<1>2. Begun \subseteq Requests
  BY DEF Begun
<1>3. \/ UNCHANGED route
      \/ \E cost \in Costs, risk \in Risks :
           route' = [route EXCEPT ![r] = [token |-> task[r].token,
                                          subject |-> task[r].subject,
                                          cost |-> cost, risk |-> risk]]
  BY DEF ExecuteAny, ExecuteLayered, Execute, ActivateLayered, FindLayers,
     StopLayers, FailLayers, ReadDisplayedSet, FinalReview, PublishSet,
     FindRoutes, StopSearch, Fail, Review, ReadDisplayed, Decline, Publish
<1>4. \/ route'[r] = route[r]
      \/ route'[r] \in Plan /\ route'[r].token = task[r].token
  <2>1. task[r].token \in Token /\ task[r].subject \in Subjects
    BY <1>1 DEF Carried, Task
  <2>2. ASSUME NEW cost \in Costs, NEW risk \in Risks
        PROVE  [token |-> task[r].token, subject |-> task[r].subject,
                cost |-> cost, risk |-> risk] \in Plan
    BY <2>1 DEF Plan
  <2> QED  BY <1>1, <1>3, <2>2 DEF Types
<1>5. Types'
  BY <1>1, <1>4 DEF Types
<1>6. Newest'
  BY <1>1, <1>2 DEF Newest
<1>7. \/ pc[r] \in {"found", "reviewed", "accepted",
                    "rejected", "cleared", "published"}
      \/ pc'[r] \notin {"found", "reviewed", "accepted",
                        "rejected", "cleared", "published"}
      \/ route'[r] \in Plan /\ route'[r].token = task[r].token
  <2>1. CASE \E cost \in Costs, risk \in Risks :
               FindRoutes(r, cost, risk) \/ FindLayers(r, cost, risk)
    <3>1. task[r].token \in Token /\ task[r].subject \in Subjects
      BY <1>1 DEF Carried, Task
    <3>2. PICK cost \in Costs, risk \in Risks :
            route' = [route EXCEPT ![r] = [token |-> task[r].token,
                                           subject |-> task[r].subject,
                                           cost |-> cost, risk |-> risk]]
      BY <2>1 DEF FindRoutes, FindLayers
    <3>3. route'[r] = [token |-> task[r].token, subject |-> task[r].subject,
                       cost |-> cost, risk |-> risk]
      BY <3>2 DEF Types
    <3> QED  BY <3>1, <3>3 DEF Plan
  <2>2. CASE ~ \E cost \in Costs, risk \in Risks :
               FindRoutes(r, cost, risk) \/ FindLayers(r, cost, risk)
    BY <2>2
    DEF ExecuteAny, ExecuteLayered, Execute, ActivateLayered, StopLayers,
        FailLayers, ReadDisplayedSet, FinalReview, PublishSet, StopSearch, Fail,
        Review, ReadDisplayed, Decline, Publish, Goto, Types
  <2> QED  BY <2>1, <2>2
<1>8. pc'[r] \in {"activated", "cleared"} => r \in LayeredRequests
  BY DEF ExecuteAny, ExecuteLayered, Execute, ActivateLayered, FindLayers,
     StopLayers, FailLayers, ReadDisplayedSet, FinalReview, PublishSet,
     FindRoutes, StopSearch, Fail, Review, ReadDisplayed, Decline, Publish, Goto,
     Types
<1>9. Carried'
  <2>1. \A q \in Begun' : task'[q] \in Task /\ task'[q].token.request = q
    BY <1>1 DEF Carried
  <2>2. \A q \in Requests :
          pc'[q] \in {"found", "reviewed", "accepted",
                      "rejected", "cleared", "published"} =>
            route'[q] \in Plan /\ route'[q].token = task'[q].token
    BY <1>1, <1>4, <1>7 DEF Carried
  <2>3. \A q \in Requests :
          pc'[q] \in {"activated", "cleared"} => q \in LayeredRequests
    BY <1>1, <1>8 DEF Carried
  <2> QED  BY <2>1, <2>2, <2>3 DEF Carried
<1>10. FencesAgree'
  BY <1>1 DEF FencesAgree
<1> QED  BY <1>5, <1>6, <1>9, <1>10

LEMMA NextSharedInv ==
  ASSUME SharedInv, [LayeredNext]_allVars
  PROVE  SharedInv'
<1>1. CASE UNCHANGED allVars
  BY <1>1
  DEF allVars, vars, requestVars, storeVars, SharedInv, Types, Newest, Carried,
      FencesAgree, Begun, LastTicket
<1>2. CASE LayeredNext
  BY <1>2, BeginShared, CancelShared, ExecuteShared DEF LayeredNext
<1> QED  BY <1>1, <1>2

-------------------------------------------------------------------------------
(* The layered store                                                       *)

LEMMA LayeredData ==
  /\ Layered!Token = Token /\ Layered!Plan = Plan
  /\ \A t, held : Layered!Older(t, held) <=> Older(t, held)
  /\ \A held, t : Layered!ContextChanged(held, t) <=> ContextChanged(held, t)
BY DEF Layered!Token, Layered!Context, Layered!Plan, Token, Context, Plan,
   Layered!Older, Older, Layered!ContextChanged, ContextChanged

(* Only two steps change the layered store, and they are legal calls.      *)
LEMMA SetStoreSteps ==
  ASSUME SharedInv, [LayeredNext]_allVars
  PROVE  \/ UNCHANGED layeredVars
         \/ \E r \in Begun :
              /\ task[r].token \in Token
              /\ \/ ActivateLayered(r) /\ Layered!Activate(task[r].token)
                 \/ /\ PublishSet(r) /\ route[r] \in Plan
                    /\ Layered!PublishPlan(route[r], {}, task[r].token)
<1>1. ASSUME NEW r \in Requests, ActivateLayered(r) \/ PublishSet(r)
      PROVE  /\ r \in Begun /\ task[r].token \in Token
             /\ PublishSet(r) => route[r] \in Plan
  BY <1>1, TaskToken DEF ActivateLayered, PublishSet, SharedInv, Newest, Carried
<1>2. \/ UNCHANGED layeredVars
      \/ \E r \in Requests :
           \/ ActivateLayered(r) /\ Layered!Activate(task[r].token)
           \/ PublishSet(r) /\ Layered!PublishPlan(route[r], {}, task[r].token)
  BY DEF LayeredNext, allVars, ExecuteAny, ExecuteLayered, ActivateLayered,
     FindLayers, StopLayers, FailLayers, ReadDisplayedSet, FinalReview, PublishSet
<1> QED  BY <1>1, <1>2

LEMMA SharedInvariant == LayeredSpec => []SharedInv
BY InitSharedInv, NextSharedInv, PTL DEF LayeredSpec

(* layered_store sees legal calls only, whatever the threads of both       *)
(* services do.                                                            *)
THEOREM SetsUseStore == LayeredSpec => Layered!StoreSpec
<1>1. LayeredInit => Layered!StoreInit
  BY DEF LayeredInit
<1>2. ASSUME SharedInv, [LayeredNext]_allVars
      PROVE  [Layered!StoreNext]_(Layered!storeVars)
  <2>1. CASE UNCHANGED layeredVars
    BY <2>1 DEF layeredVars, Layered!storeVars
  <2>2. CASE \E r \in Begun :
               /\ task[r].token \in Token
               /\ \/ ActivateLayered(r) /\ Layered!Activate(task[r].token)
                  \/ /\ PublishSet(r) /\ route[r] \in Plan
                     /\ Layered!PublishPlan(route[r], {}, task[r].token)
    BY <2>2, LayeredData DEF Layered!StoreNext
  <2> QED  BY <1>2, <2>1, <2>2, SetStoreSteps
<1>3. SharedInv /\ [LayeredNext]_allVars => [Layered!StoreNext]_(Layered!storeVars)
  BY <1>2
<1> QED
  BY <1>1, <1>3, SharedInvariant, PTL DEF LayeredSpec, Layered!StoreSpec

SetTypes ==
  /\ layeredActive \in Token \cup {NoToken}
  /\ layeredCurrent \in Plan \cup {NoPlan}
  /\ layeredPrevious \in Plan \cup {NoPlan}

LEMMA ActivateSets ==
  ASSUME SetTypes, SetSnapshotCoherent, NEW t \in Token, Layered!Activate(t)
  PROVE  SetTypes' /\ SetSnapshotCoherent'
<1>1. /\ layeredActive' = t /\ t # NoToken
      /\ IF ContextChanged(layeredActive, t)
         THEN layeredCurrent' = NoPlan /\ layeredPrevious' = NoPlan
         ELSE layeredCurrent' = layeredCurrent /\ layeredPrevious' = layeredPrevious
      /\ layeredActive # t /\ layeredActive # NoToken => ~Older(t, layeredActive)
  BY LayeredData, PlanAssumption DEF Layered!Activate, Layered!Refused
<1>2. SetTypes'
  BY <1>1 DEF SetTypes
<1>3. CASE ContextChanged(layeredActive, t)
  BY <1>1, <1>2, <1>3
  DEF SetSnapshotCoherent, Layered!SnapshotCoherent, Layered!LabelOf
<1>4. CASE ~ContextChanged(layeredActive, t)
  <2>1. ASSUME NEW plan \in {layeredCurrent, layeredPrevious} \ {NoPlan}
        PROVE  /\ plan.token.context = t.context
               /\ plan.token.revision <= t.revision
    <3>1. /\ layeredActive \in Token /\ layeredActive.context = t.context
          /\ plan.token.context = layeredActive.context
          /\ plan.token.revision <= layeredActive.revision
      BY <1>4 DEF SetSnapshotCoherent, Layered!SnapshotCoherent, SetTypes,
                  ContextChanged
    <3>2. layeredActive.revision <= t.revision
      <4>1. CASE layeredActive = t
        BY <4>1, RevisionIsNat
      <4>2. CASE layeredActive # t
        BY <1>1, <3>1, <4>2, NotOlderInContext, PlanAssumption
      <4> QED  BY <4>1, <4>2
    <3>3. /\ plan.token.revision \in Nat /\ layeredActive.revision \in Nat
          /\ t.revision \in Nat
      BY <3>1, RevisionIsNat DEF SetTypes, Plan
    <3> QED  BY <3>1, <3>2, <3>3
  <2> QED
    BY <1>1, <1>2, <1>4, <2>1
    DEF SetSnapshotCoherent, Layered!SnapshotCoherent, Layered!LabelOf
<1> QED  BY <1>2, <1>3, <1>4

LEMMA PublishSets ==
  ASSUME SetTypes, SetSnapshotCoherent, NEW t \in Token, NEW plan \in Plan,
         Layered!PublishPlan(plan, {}, t)
  PROVE  SetTypes' /\ SetSnapshotCoherent'
<1>1. /\ layeredActive = t /\ layeredActive' = t /\ plan.token = t
      /\ layeredCurrent' = plan /\ plan # NoPlan /\ t # NoToken
      /\ layeredPrevious' \in {layeredCurrent, layeredPrevious}
      /\ t.revision \in Nat
  BY PlanAssumption, RevisionIsNat
  DEF Layered!PublishPlan, Layered!MayPublish, Layered!IsCurrent, Layered!Swap
<1>2. SetTypes'
  BY <1>1 DEF SetTypes
<1>3. \A p \in {layeredCurrent, layeredPrevious} \ {NoPlan} :
        p.token.context = t.context /\ p.token.revision <= t.revision
  BY <1>1 DEF SetSnapshotCoherent, Layered!SnapshotCoherent
<1> QED
  BY <1>1, <1>2, <1>3
  DEF SetSnapshotCoherent, Layered!SnapshotCoherent, Layered!LabelOf

LEMMA SetTypesInvariant == LayeredSpec => [](SetTypes /\ SetSnapshotCoherent)
<1>1. LayeredInit => SetTypes /\ SetSnapshotCoherent
  BY DEF LayeredInit, Layered!StoreInit, SetTypes, SetSnapshotCoherent,
     Layered!SnapshotCoherent
<1>2. ASSUME SharedInv, SetTypes, SetSnapshotCoherent, [LayeredNext]_allVars
      PROVE  SetTypes' /\ SetSnapshotCoherent'
  <2>1. CASE UNCHANGED layeredVars
    BY <1>2, <2>1
    DEF layeredVars, SetTypes, SetSnapshotCoherent, Layered!SnapshotCoherent,
        Layered!LabelOf
  <2>2. ASSUME NEW r \in Begun, task[r].token \in Token,
               Layered!Activate(task[r].token)
        PROVE  SetTypes' /\ SetSnapshotCoherent'
    BY <1>2, <2>2, ActivateSets
  <2>3. ASSUME NEW r \in Begun, task[r].token \in Token, route[r] \in Plan,
               Layered!PublishPlan(route[r], {}, task[r].token)
        PROVE  SetTypes' /\ SetSnapshotCoherent'
    BY <1>2, <2>3, PublishSets
  <2> QED  BY <1>2, <2>1, <2>2, <2>3, SetStoreSteps
<1> QED
  BY <1>1, <1>2, SharedInvariant, PTL DEF LayeredSpec

(* What D reads from the layered store in one snapshot fits together,      *)
(* although the coordinator knows nothing of its fence.                    *)
THEOREM SetSnapshotsCoherent == LayeredSpec => []SetSnapshotCoherent
BY SetTypesInvariant, PTL

-------------------------------------------------------------------------------
(* Sets on display                                                         *)

(* What execute() reads and decides before a publication.                  *)
LEMMA LayeredLabels ==
  ASSUME SharedInv, NEW r \in Requests, ExecuteAny(r)
  PROVE  /\ pc[r] \notin Ended
         /\ pc'[r] = "cleared" => FinalReview(r) /\ StillCurrent(r)
         /\ pc'[r] \in {"accepted", "rejected"} /\ r \in LayeredRequests
              => ReadDisplayedSet(r)
         /\ pc[r] = "cleared" /\ pc'[r] = "published"
              => PublishSet(r) /\ Layered!PublishPlan(route[r], {}, task[r].token)
         /\ UNCHANGED seen \/ ReadDisplayed(r) \/ ReadDisplayedSet(r)
<1> USE DEF SharedInv, Ended
<1>1. /\ pc[r] \notin Ended
      /\ UNCHANGED seen \/ ReadDisplayed(r) \/ ReadDisplayedSet(r)
  BY DEF ExecuteAny, ExecuteLayered, Execute, ActivateLayered, FindLayers,
     StopLayers, FailLayers, FinalReview, PublishSet, ReadDisplayedSet,
     FindRoutes, StopSearch, Fail, Review, ReadDisplayed, Decline, Publish
<1>2. pc'[r] = "cleared" => FinalReview(r) /\ StillCurrent(r)
  BY DEF ExecuteAny, ExecuteLayered, Execute, ActivateLayered, FindLayers,
     StopLayers, FailLayers, FinalReview, PublishSet, ReadDisplayedSet,
     FindRoutes, StopSearch, Fail, Review, ReadDisplayed, Decline, Publish, Goto,
     Types
<1>3. pc'[r] \in {"accepted", "rejected"} /\ r \in LayeredRequests
        => ReadDisplayedSet(r)
  BY DEF ExecuteAny, ExecuteLayered, Execute, ActivateLayered, FindLayers,
     StopLayers, FailLayers, FinalReview, PublishSet, Review, Decline, Goto, Types
<1>4. pc[r] = "cleared" /\ pc'[r] = "published"
        => PublishSet(r) /\ Layered!PublishPlan(route[r], {}, task[r].token)
  BY DEF ExecuteAny, ExecuteLayered, Execute, ActivateLayered, FindLayers,
     StopLayers, FailLayers, FinalReview, PublishSet, ReadDisplayedSet,
     FindRoutes, StopSearch, Fail, Review, ReadDisplayed, Decline, Publish, Goto,
     Types
<1> QED  BY <1>1, <1>2, <1>3, <1>4

(* A set is shown by the step that ends its request.                       *)
LEMMA NextShown ==
  ASSUME SharedInv, ShownHasEnded, [LayeredNext]_allVars
  PROVE  ShownHasEnded'
<1>1. CASE UNCHANGED allVars
  BY <1>1 DEF allVars, vars, requestVars, layeredVars, ShownHasEnded, Begun
<1>2. ASSUME NEW r \in Requests, NEW t \in Task, Begin(r, t), UNCHANGED layeredVars
      PROVE  ShownHasEnded'
  BY <1>2, BeginEffect DEF ShownHasEnded, layeredVars, Begun
<1>3. ASSUME NEW r \in Requests, Cancel(r), UNCHANGED layeredVars
      PROVE  ShownHasEnded'
  BY <1>3, CancelEffect DEF ShownHasEnded, layeredVars
<1>4. ASSUME NEW r \in Requests, ExecuteAny(r)
      PROVE  ShownHasEnded'
  <2>1. /\ Begun' = Begun /\ r \in Begun /\ pc[r] # "published"
        /\ \A q \in Requests \ {r} : pc'[q] = pc[q]
    BY <1>4, ExecuteEffect, LayeredLabels DEF Ended
  <2>2. \/ layeredCurrent' \in {NoPlan, layeredCurrent}
        \/ /\ layeredCurrent' = route[r] /\ pc'[r] = "published"
           /\ route[r].token = task[r].token
    BY <1>4
    DEF ExecuteAny, ExecuteLayered, ActivateLayered, FindLayers, StopLayers,
        FailLayers, FinalReview, PublishSet, ReadDisplayedSet, layeredVars,
        Layered!Activate, Layered!PublishPlan, Layered!MayPublish, Layered!Swap,
        Goto, SharedInv, Types, Carried
  <2>3. task[r].token.request = r
    BY <2>1 DEF SharedInv, Carried
  <2> QED  BY <2>1, <2>2, <2>3 DEF ShownHasEnded, Begun
<1> QED  BY <1>1, <1>2, <1>3, <1>4 DEF LayeredNext

(* A step of a request that changes the layered store leaves it fenced to  *)
(* that request.                                                           *)
LEMMA FenceOfOwner ==
  ASSUME SharedInv, NEW r \in Requests, ExecuteAny(r)
  PROVE  \/ UNCHANGED layeredVars
         \/ /\ layeredActive' = task[r].token
            /\ pc'[r] \in {"activated", "published"}
<1>1. \/ UNCHANGED layeredVars
      \/ ActivateLayered(r) /\ Layered!Activate(task[r].token)
      \/ PublishSet(r) /\ Layered!PublishPlan(route[r], {}, task[r].token)
  BY DEF ExecuteAny, ExecuteLayered, ActivateLayered, FindLayers, StopLayers,
     FailLayers, FinalReview, PublishSet, ReadDisplayedSet
<1>2. CASE ActivateLayered(r) /\ Layered!Activate(task[r].token)
  <2>1. layeredActive' = task[r].token
    BY <1>2 DEF Layered!Activate
  <2>2. pc'[r] \in {"activated", "refused"} /\ ~Layered!Refused(task[r].token)
    BY <1>2 DEF ActivateLayered, Layered!Activate, Goto, SharedInv, Types
  <2>3. pc'[r] = "activated"
    BY <1>2, <2>2 DEF ActivateLayered, Goto, SharedInv, Types
  <2> QED  BY <2>1, <2>3
<1>3. CASE PublishSet(r) /\ Layered!PublishPlan(route[r], {}, task[r].token)
  <2>1. layeredActive' = task[r].token
    BY <1>3 DEF Layered!PublishPlan, Layered!MayPublish, Layered!IsCurrent,
                Layered!Swap
  <2>2. pc'[r] = "published"
    BY <1>3 DEF PublishSet, Layered!PublishPlan, Goto, SharedInv, Types
  <2> QED  BY <2>1, <2>2
<1> QED  BY <1>1, <1>2, <1>3

LEMMA NextSeenIsShown ==
  ASSUME SharedInv, SeenIsShown, [LayeredNext]_allVars
  PROVE  SeenIsShown'
<1> LayeredRequests \subseteq Requests
  BY LayeredAssumption
<1>1. CASE UNCHANGED allVars
  BY <1>1 DEF allVars, vars, requestVars, layeredVars, SeenIsShown
<1>2. ASSUME NEW r \in Requests, NEW t \in Task, Begin(r, t), UNCHANGED layeredVars
      PROVE  SeenIsShown'
  <2>1. /\ UNCHANGED <<seen, layeredCurrent, layeredActive>>
        /\ \A q \in Requests \ {r} : pc'[q] = pc[q] /\ task'[q] = task[q]
        /\ pc'[r] \in {"refused", "planning"}
    BY <1>2, BeginEffect DEF layeredVars
  <2> QED  BY <2>1 DEF SeenIsShown
<1>3. ASSUME NEW r \in Requests, Cancel(r), UNCHANGED layeredVars
      PROVE  SeenIsShown'
  BY <1>3, CancelEffect DEF SeenIsShown, layeredVars
<1>4. ASSUME NEW r \in Requests, ExecuteAny(r)
      PROVE  SeenIsShown'
  <2>1. /\ r \in Begun /\ UNCHANGED task
        /\ \A q \in Requests \ {r} : pc'[q] = pc[q] /\ seen'[q] = seen[q]
    BY <1>4, ExecuteEffect
  <2> SUFFICES ASSUME NEW q \in LayeredRequests,
                      pc'[q] \in {"accepted", "rejected", "cleared"},
                      layeredActive' = task[q].token
               PROVE  seen'[q] = layeredCurrent'
    BY <2>1 DEF SeenIsShown
  <2>2. CASE UNCHANGED layeredVars /\ q # r
    BY <2>1, <2>2 DEF SeenIsShown, layeredVars
  <2>3. CASE UNCHANGED layeredVars /\ q = r
    <3>1. CASE pc'[r] = "cleared"
      <4>1. pc[r] = "accepted" /\ UNCHANGED seen
        BY <1>4, <3>1, LayeredLabels DEF FinalReview
      <4> QED  BY <2>3, <4>1 DEF SeenIsShown, layeredVars
    <3>2. CASE pc'[r] # "cleared"
      <4>1. ReadDisplayedSet(r)
        BY <1>4, <2>3, <3>2, LayeredLabels
      <4>2. layeredActive = task[r].token /\ layeredActive # NoToken
        <5>1. task[r].token \in Token
          BY <2>1, TaskToken DEF SharedInv, Carried
        <5>2. layeredActive = task[r].token
          BY <2>3 DEF layeredVars
        <5> QED  BY <5>1, <5>2, PlanAssumption
      <4>3. seen'[r] = Layered!SnapshotCurrent(task[r].token.context)
        BY <4>1 DEF ReadDisplayedSet, SharedInv, Types
      <4> QED
        BY <2>3, <4>2, <4>3 DEF Layered!SnapshotCurrent, layeredVars
    <3> QED  BY <3>1, <3>2
  <2>4. CASE ~UNCHANGED layeredVars
    <3>1. layeredActive' = task[r].token /\ pc'[r] \in {"activated", "published"}
      BY <1>4, <2>4, FenceOfOwner
    <3>2. q # r /\ q \in Begun
      BY <2>1, <3>1 DEF SharedInv, Newest
    <3> QED  BY <2>1, <3>1, <3>2, OwnToken DEF SharedInv
  <2> QED  BY <2>2, <2>3, <2>4
<1> QED  BY <1>1, <1>2, <1>3, <1>4 DEF LayeredNext

LEMMA NextClearedIsLater ==
  ASSUME SharedInv, ShownHasEnded, ClearedIsLater, [LayeredNext]_allVars
  PROVE  ClearedIsLater'
<1>1. CASE UNCHANGED allVars
  BY <1>1 DEF allVars, vars, requestVars, layeredVars, ClearedIsLater
<1>2. ASSUME NEW r \in Requests, NEW t \in Task, Begin(r, t), UNCHANGED layeredVars
      PROVE  ClearedIsLater'
  <2>1. /\ r \notin Begun
        /\ UNCHANGED <<layeredCurrent, layeredActive>>
        /\ \A q \in Requests \ {r} : /\ pc'[q] = pc[q] /\ task'[q] = task[q]
                                     /\ ticket'[q] = ticket[q]
        /\ pc'[r] \in {"refused", "planning"}
    BY <1>2, BeginEffect DEF layeredVars
  <2> QED  BY <2>1 DEF ClearedIsLater, ShownHasEnded, Begun
<1>3. ASSUME NEW r \in Requests, Cancel(r), UNCHANGED layeredVars
      PROVE  ClearedIsLater'
  BY <1>3, CancelEffect DEF ClearedIsLater, layeredVars
<1>4. ASSUME NEW r \in Requests, ExecuteAny(r)
      PROVE  ClearedIsLater'
  <2>1. /\ r \in Begun /\ UNCHANGED <<task, ticket>>
        /\ \A q \in Requests \ {r} : pc'[q] = pc[q]
    BY <1>4, ExecuteEffect
  <2> SUFFICES ASSUME NEW q \in Requests, pc'[q] = "cleared",
                      layeredActive' = task[q].token, layeredCurrent' # NoPlan
               PROVE  ticket[layeredCurrent'.token.request] < ticket[q]
    BY <2>1 DEF ClearedIsLater
  <2>2. CASE UNCHANGED layeredVars /\ q # r
    BY <2>1, <2>2 DEF ClearedIsLater, layeredVars
  <2>3. CASE UNCHANGED layeredVars /\ q = r
    <3> DEFINE shown == layeredCurrent.token.request
    <3>1. handle = r /\ pc[r] = "accepted"
      BY <1>4, <2>3, LayeredLabels DEF FinalReview, StillCurrent
    <3>2. shown \in Begun /\ shown # r
      BY <2>3, <3>1 DEF layeredVars, ShownHasEnded
    <3>3. ticket[shown] < LastTicket /\ LastTicket = ticket[r]
      BY <2>1, <3>1, <3>2, RequestAssumption
      DEF SharedInv, Newest, LastTicket, Begun
    <3> QED  BY <2>3, <3>3 DEF layeredVars
  <2>4. CASE ~UNCHANGED layeredVars
    <3>1. layeredActive' = task[r].token /\ pc'[r] \in {"activated", "published"}
      BY <1>4, <2>4, FenceOfOwner
    <3>2. q # r /\ q \in Begun
      BY <2>1, <3>1 DEF SharedInv, Newest
    <3> QED  BY <2>1, <3>1, <3>2, OwnToken DEF SharedInv
  <2> QED  BY <2>2, <2>3, <2>4
<1> QED  BY <1>1, <1>2, <1>3, <1>4 DEF LayeredNext

(* coordinator.publish() and require_current() turn down no v2 request     *)
(* that is not revoked.                                                    *)
LEMMA UnrevokedStays ==
  ASSUME SharedInv, NEW r \in Requests \ LayeredRequests, ExecuteAny(r),
         pc'[r] = "cancelled"
  PROVE  r \in revoked
<1>1. r \in Begun /\ Execute(r)
  BY ExecuteEffect DEF ExecuteAny
<1> SUFFICES ASSUME r \notin revoked PROVE FALSE
  OBVIOUS
<1>2. handle = r /\ active = task[r].token /\ ~cancelled
  BY <1>1 DEF SharedInv, FencesAgree
<1>3. StillCurrent(r)
  BY <1>2 DEF StillCurrent, IsCurrent
<1>4. pc[r] = "accepted" => MayStillPublish(r)
  <2>1. pc[r] = "accepted" => route[r].token = task[r].token
    BY DEF SharedInv, Carried
  <2> QED
    BY <1>2, <2>1 DEF MayStillPublish, MayPublish, IsCurrent
<1> QED
  BY <1>1, <1>3, <1>4
  DEF Execute, FindRoutes, StopSearch, Fail, Review, ReadDisplayed, Decline,
      Publish, Goto, SharedInv, Types

LEMMA NextV2 ==
  ASSUME SharedInv, V2CancelledForAReason, [LayeredNext]_allVars
  PROVE  V2CancelledForAReason'
<1>1. CASE UNCHANGED allVars
  BY <1>1 DEF allVars, vars, requestVars, V2CancelledForAReason
<1>2. ASSUME NEW r \in Requests, NEW t \in Task, Begin(r, t)
      PROVE  V2CancelledForAReason'
  <2>1. /\ \A q \in Requests \ {r} : pc'[q] = pc[q]
        /\ pc'[r] \in {"refused", "planning"} /\ revoked \subseteq revoked'
    BY <1>2, BeginEffect
  <2> QED  BY <2>1 DEF V2CancelledForAReason
<1>3. ASSUME NEW r \in Requests, Cancel(r)
      PROVE  V2CancelledForAReason'
  BY <1>3, CancelEffect DEF V2CancelledForAReason
<1>4. ASSUME NEW r \in Requests, ExecuteAny(r)
      PROVE  V2CancelledForAReason'
  <2>1. /\ UNCHANGED revoked
        /\ \A q \in Requests \ {r} : pc'[q] = pc[q]
    BY <1>4, ExecuteEffect
  <2>2. r \notin LayeredRequests /\ pc'[r] = "cancelled" => r \in revoked
    BY <1>4, UnrevokedStays
  <2> QED  BY <2>1, <2>2 DEF V2CancelledForAReason
<1> QED  BY <1>1, <1>2, <1>3, <1>4 DEF LayeredNext

(* The fences of the v2 path, and what the layered store shows.            *)
THEOREM LayeredInvariant == LayeredSpec => []LayeredInv
<1>1. LayeredInit => ShownHasEnded /\ SeenIsShown /\ ClearedIsLater
                       /\ V2CancelledForAReason
  BY LayeredAssumption
  DEF LayeredInit, Init, Layered!StoreInit, ShownHasEnded, SeenIsShown,
      ClearedIsLater, V2CancelledForAReason
<1>2. LayeredInv /\ [LayeredNext]_allVars => LayeredInv'
  BY NextSharedInv, NextShown, NextSeenIsShown, NextClearedIsLater, NextV2
  DEF LayeredInv
<1> QED
  BY <1>1, <1>2, InitSharedInv, PTL DEF LayeredSpec, LayeredInv

(* v2 requests lose no result to the v3 requests of their session.         *)
THEOREM V2Undisturbed == LayeredSpec => []V2CancelledForAReason
<1>1. LayeredInv => V2CancelledForAReason
  BY DEF LayeredInv
<1> QED  BY <1>1, LayeredInvariant, PTL

(* A step that shows another set.                                          *)
LEMMA ShowsSet ==
  ASSUME LayeredInv, LayeredNext
  PROVE  \/ layeredCurrent' \in {NoPlan, layeredCurrent}
         \/ \E r \in Begun :
              /\ pc[r] = "cleared" /\ layeredActive = task[r].token
              /\ layeredCurrent' = route[r] /\ route[r].token.request = r
              /\ UNCHANGED ticket
<1>1. CASE layeredCurrent' \in {NoPlan, layeredCurrent}
  BY <1>1
<1>2. CASE layeredCurrent' \notin {NoPlan, layeredCurrent}
  <2>1. PICK r \in Begun :
          \/ ActivateLayered(r) /\ Layered!Activate(task[r].token)
          \/ PublishSet(r) /\ Layered!PublishPlan(route[r], {}, task[r].token)
    BY <1>2, SetStoreSteps DEF LayeredInv, layeredVars
  <2>2. ~Layered!Activate(task[r].token)
    BY <1>2 DEF Layered!Activate
  <2>3. /\ pc[r] = "cleared" /\ layeredActive = task[r].token
        /\ layeredCurrent' = route[r] /\ UNCHANGED ticket
    BY <2>1, <2>2
    DEF PublishSet, Layered!PublishPlan, Layered!MayPublish, Layered!IsCurrent,
        Layered!Swap
  <2>4. route[r].token.request = r
    BY <2>3 DEF LayeredInv, SharedInv, Carried, Begun
  <2> QED  BY <2>3, <2>4
<1> QED  BY <1>1, <1>2

(* A set gives way only to a set of a later request, although the layered  *)
(* display may lag behind the coordinator.                                 *)
THEOREM SetsNeverGoBack == LayeredSpec => SetsAdvance
<1> DEFINE Advance ==
      layeredCurrent # NoPlan /\ layeredCurrent' \notin {NoPlan, layeredCurrent}
        => ticket[layeredCurrent.token.request]
             < ticket[layeredCurrent'.token.request]
<1>1. ASSUME LayeredInv, LayeredNext PROVE Advance
  <2> SUFFICES ASSUME layeredCurrent # NoPlan,
                      layeredCurrent' \notin {NoPlan, layeredCurrent}
               PROVE  ticket[layeredCurrent.token.request]
                        < ticket[layeredCurrent'.token.request]
    OBVIOUS
  <2>1. PICK r \in Begun :
          /\ pc[r] = "cleared" /\ layeredActive = task[r].token
          /\ layeredCurrent' = route[r] /\ route[r].token.request = r
    BY <1>1, ShowsSet
  <2> QED  BY <1>1, <2>1 DEF LayeredInv, ClearedIsLater, Begun
<1>2. LayeredInv /\ [LayeredNext]_allVars => [Advance]_allVars
  BY <1>1
<1> QED
  BY <1>2, LayeredInvariant, PTL DEF LayeredSpec, SetsAdvance

(* No set slips in between the gate and the publication, although neither  *)
(* lock is held from the one to the other.                                 *)
THEOREM NoSetSlipsIn == LayeredSpec => SetGateSawWhatItReplaced
<1> DEFINE Saw ==
      \A r \in Requests :
        pc[r] = "cleared" /\ pc'[r] = "published" => seen[r] = layeredCurrent
<1>1. ASSUME LayeredInv, LayeredNext PROVE Saw
  <2> SUFFICES ASSUME NEW r \in Requests, pc[r] = "cleared",
                      pc'[r] = "published"
               PROVE  seen[r] = layeredCurrent
    OBVIOUS
  <2>1. PICK q \in Requests : \/ \E t \in Task : Begin(q, t)
                              \/ Cancel(q)
                              \/ ExecuteAny(q)
    BY <1>1 DEF LayeredNext
  <2>2. ExecuteAny(r)
    <3>1. ~ \E t \in Task : Begin(q, t)
      BY <1>1, BeginEffect DEF LayeredInv
    <3>2. ~Cancel(q)
      BY <1>1, CancelEffect DEF LayeredInv
    <3>3. q = r
      BY <1>1, <2>1, <3>1, <3>2, ExecuteEffect DEF LayeredInv
    <3> QED  BY <2>1, <3>1, <3>2, <3>3
  <2>3. layeredActive = task[r].token /\ r \in LayeredRequests
    BY <1>1, <2>2, LayeredLabels
    DEF LayeredInv, SharedInv, Carried, Layered!PublishPlan, Layered!MayPublish,
        Layered!IsCurrent
  <2> QED  BY <1>1, <2>3 DEF LayeredInv, SeenIsShown
<1>2. LayeredInv /\ [LayeredNext]_allVars => [Saw]_allVars
  BY <1>1
<1> QED
  BY <1>2, LayeredInvariant, PTL DEF LayeredSpec, SetGateSawWhatItReplaced

-------------------------------------------------------------------------------
(* Refusals                                                                *)

(* Within one run, no request carries an older input than one before it;   *)
(* the layered store is fenced to one of them.                             *)
FencedInOrder ==
  /\ layeredCancelled = FALSE
  /\ layeredActive # NoToken => \E q \in Begun : layeredActive = task[q].token
  /\ OneRun => \A q \in Begun : ~Older(task[handle].token, task[q].token)

LEMMA NotOlderIsTransitive ==
  ASSUME OneRun, NEW a \in Token, NEW b \in Token, NEW c \in Token,
         ~Older(b, a), ~Older(c, b)
  PROVE  ~Older(c, a)
<1>1. /\ a.context \in Contexts /\ b.context \in Contexts /\ c.context \in Contexts
      /\ a.revision \in Nat /\ b.revision \in Nat /\ c.revision \in Nat
  BY RevisionIsNat, PlanAssumption DEF Token
<1>2. /\ a.context.generation \in Nat /\ b.context.generation \in Nat
      /\ c.context.generation \in Nat
  BY <1>1, PlanAssumption DEF Context
<1>3. a.context.run = b.context.run /\ b.context.run = c.context.run
  BY <1>1 DEF OneRun
<1> QED  BY <1>1, <1>2, <1>3 DEF Older

LEMMA NotOlderItself ==
  ASSUME NEW a \in Token
  PROVE  ~Older(a, a)
<1>1. a.revision \in Nat /\ a.context.generation \in Nat
  BY RevisionIsNat, PlanAssumption DEF Token, Context
<1> QED  BY <1>1 DEF Older

LEMMA BeginInOrder ==
  ASSUME SharedInv, FencedInOrder, NEW r \in Requests, NEW t \in Task, Begin(r, t),
         UNCHANGED layeredVars
  PROVE  FencedInOrder'
<1>1. CASE Begun' = Begun /\ UNCHANGED <<handle, task>>
  BY <1>1 DEF FencedInOrder, layeredVars
<1>2. CASE /\ task' = [task EXCEPT ![r] = t] /\ task'[r] = t
           /\ Begun' = Begun \cup {r} /\ handle' = r /\ Activate(t.token)
  <2>1. /\ r \notin Begun /\ Begun \subseteq Requests
        /\ \A q \in Requests \ {r} : task'[q] = task[q]
    BY BeginEffect DEF Begun
  <2>2. \A q \in Begun : task'[q] = task[q]
    BY <2>1
  <2>3. ASSUME OneRun, NEW q \in Begun'
        PROVE  ~Older(t.token, task'[q].token)
    <3>1. t.token \in Token
      BY TaskToken
    <3>2. CASE q = r
      BY <1>2, <3>1, <3>2, NotOlderItself
    <3>3. CASE q # r
      <4>1. q \in Begun /\ task'[q] = task[q]
        BY <1>2, <2>2, <3>3
      <4>2. /\ handle \in Begun /\ active = task[handle].token
            /\ task[handle].token \in Token /\ task[q].token \in Token
        BY <4>1, TaskToken DEF SharedInv, FencesAgree, Carried
      <4>3. ~Older(task[handle].token, task[q].token)
        BY <2>3, <4>1 DEF FencedInOrder
      <4>4. t.token = active \/ ~Older(t.token, active)
        BY <1>2, <4>2, PlanAssumption DEF Activate, Refused
      <4>5. CASE t.token = active
        BY <4>1, <4>2, <4>3, <4>5
      <4>6. CASE ~Older(t.token, active)
        BY <2>3, <3>1, <4>1, <4>2, <4>3, <4>6, NotOlderIsTransitive
      <4> QED  BY <4>4, <4>5, <4>6
    <3> QED  BY <3>2, <3>3
  <2>4. OneRun' <=> OneRun
    BY DEF OneRun
  <2>5. layeredActive # NoToken => \E q \in Begun' : layeredActive = task'[q].token
    BY <1>2, <2>2 DEF FencedInOrder
  <2> QED
    BY <1>2, <2>3, <2>4, <2>5 DEF FencedInOrder, layeredVars, Older
<1> QED  BY <1>1, <1>2, BeginEffect

LEMMA ExecuteInOrder ==
  ASSUME SharedInv, FencedInOrder, NEW r \in Requests, ExecuteAny(r)
  PROVE  FencedInOrder'
<1>1. Begun' = Begun /\ r \in Begun /\ UNCHANGED <<handle, task>>
  BY ExecuteEffect
<1>2. UNCHANGED layeredActive \/ layeredActive' = task[r].token
  BY FenceOfOwner DEF layeredVars
<1>3. layeredCancelled' = FALSE
  BY DEF ExecuteAny, ExecuteLayered, ActivateLayered, FindLayers, StopLayers,
     FailLayers, FinalReview, PublishSet, ReadDisplayedSet, layeredVars,
     Layered!Activate, Layered!PublishPlan, Layered!Swap, FencedInOrder
<1> QED  BY <1>1, <1>2, <1>3 DEF FencedInOrder

LEMMA NextInOrder ==
  ASSUME SharedInv, FencedInOrder, [LayeredNext]_allVars
  PROVE  FencedInOrder'
<1>1. CASE UNCHANGED allVars
  BY <1>1 DEF allVars, vars, requestVars, layeredVars, FencedInOrder, Begun
<1>2. ASSUME NEW r \in Requests, Cancel(r), UNCHANGED layeredVars
      PROVE  FencedInOrder'
  BY <1>2, CancelEffect DEF FencedInOrder, layeredVars
<1> QED  BY <1>1, <1>2, BeginInOrder, ExecuteInOrder DEF LayeredNext

(* layered_store.activate() turns down only a request that another one     *)
(* has superseded: the fence it meets is of a request of the session, and  *)
(* the newest request is older than none of them.                          *)
LEMMA NextRefused ==
  ASSUME SharedInv, FencedInOrder, RefusedAfterBeingSuperseded,
         [LayeredNext]_allVars
  PROVE  RefusedAfterBeingSuperseded'
<1> SUFFICES ASSUME OneRun, NEW q \in Begun', pc'[q] = "refused"
             PROVE  q \in revoked'
  BY DEF RefusedAfterBeingSuperseded, OneRun
<1>1. CASE UNCHANGED allVars
  BY <1>1 DEF allVars, vars, requestVars, RefusedAfterBeingSuperseded, Begun
<1>2. ASSUME NEW r \in Requests, NEW t \in Task, Begin(r, t)
      PROVE  q \in revoked'
  <2>1. /\ r \notin Begun /\ revoked \subseteq revoked'
        /\ \A p \in Requests \ {r} : pc'[p] = pc[p]
        /\ Begun' = Begun \/ (Begun' = Begun \cup {r} /\ pc'[r] = "planning")
    BY <1>2, BeginEffect
  <2> QED  BY <2>1 DEF RefusedAfterBeingSuperseded, Begun
<1>3. ASSUME NEW r \in Requests, Cancel(r)
      PROVE  q \in revoked'
  BY <1>3, CancelEffect DEF RefusedAfterBeingSuperseded
<1>4. ASSUME NEW r \in Requests, ExecuteAny(r)
      PROVE  q \in revoked'
  <2>1. /\ UNCHANGED <<task, revoked, handle>> /\ Begun' = Begun
        /\ \A p \in Requests \ {r} : pc'[p] = pc[p]
    BY <1>4, ExecuteEffect
  <2>2. CASE q # r \/ pc[q] = "refused"
    BY <2>1, <2>2 DEF RefusedAfterBeingSuperseded, Begun
  <2>3. CASE q = r /\ pc[q] # "refused"
    <3> SUFFICES ASSUME r \notin revoked PROVE FALSE
      BY <2>1, <2>3
    <3>1. ActivateLayered(r) /\ Layered!Refused(task[r].token)
      BY <1>4, <2>3
      DEF ExecuteAny, ExecuteLayered, Execute, ActivateLayered, FindLayers,
          StopLayers, FailLayers, FinalReview, PublishSet, ReadDisplayedSet,
          FindRoutes, StopSearch, Fail, Review, ReadDisplayed, Decline, Publish,
          Goto, SharedInv, Types
    <3>2. handle = r
      BY <2>1, <2>3 DEF SharedInv, FencesAgree
    <3>3. layeredActive # NoToken /\ Older(task[r].token, layeredActive)
      BY <3>1, LayeredData DEF Layered!Refused, FencedInOrder
    <3> QED  BY <3>2, <3>3 DEF FencedInOrder
  <2> QED  BY <2>2, <2>3
<1> QED  BY <1>1, <1>2, <1>3, <1>4 DEF LayeredNext

(* In one run the layered fence never turns down the coordinator's active  *)
(* request.                                                                *)
THEOREM RefusedOnlyWhenSuperseded ==
  LayeredSpec => []RefusedAfterBeingSuperseded
<1>1. LayeredInit => FencedInOrder /\ RefusedAfterBeingSuperseded
  BY DEF LayeredInit, Init, Layered!StoreInit, FencedInOrder,
     RefusedAfterBeingSuperseded, Begun
<1>2. /\ SharedInv /\ FencedInOrder /\ RefusedAfterBeingSuperseded
      /\ [LayeredNext]_allVars
      => FencedInOrder' /\ RefusedAfterBeingSuperseded'
  BY NextInOrder, NextRefused
<1> QED
  BY <1>1, <1>2, SharedInvariant, PTL DEF LayeredSpec

-------------------------------------------------------------------------------
(* The end of a request                                                    *)

(* How many steps execute() still makes at most.                           *)
StepsAfter(label) ==
  CASE label = "planning"               -> 6
    [] label = "activated"              -> 5
    [] label = "found"                  -> 4
    [] label = "reviewed"               -> 3
    [] label \in {"accepted", "rejected"} -> 2
    [] label = "cleared"                -> 1
    [] OTHER                            -> 0

LEMMA ExecuteShortens ==
  ASSUME pc = [q \in Requests |-> pc[q]], NEW r \in Requests,
         Execute(r) \/ ExecuteLayered(r)
  PROVE  /\ StepsAfter(pc'[r]) < StepsAfter(pc[r])
         /\ \A q \in Requests \ {r} : pc'[q] = pc[q]
<1> DEFINE Shortened == \E label : /\ Goto(r, label)
                                   /\ StepsAfter(label) < StepsAfter(pc[r])
<1>1. Shortened
  <2>1. CASE pc[r] = "planning"
    <3>1. \E label \in {"found", "cancelled", "failed", "activated", "refused"} :
            Goto(r, label)
      BY <2>1 DEF Execute, FindRoutes, StopSearch, Fail, Review, ReadDisplayed, Decline,
                  Publish, ExecuteLayered, ActivateLayered, FindLayers, StopLayers,
                  FailLayers, ReadDisplayedSet, FinalReview, PublishSet
    <3> QED  BY <2>1, <3>1 DEF StepsAfter
  <2>2. CASE pc[r] = "activated"
    <3>1. \E label \in {"found", "cancelled", "failed"} : Goto(r, label)
      BY <2>2 DEF Execute, FindRoutes, StopSearch, Fail, Review, ReadDisplayed, Decline,
                  Publish, ExecuteLayered, ActivateLayered, FindLayers, StopLayers,
                  FailLayers, ReadDisplayedSet, FinalReview, PublishSet
    <3> QED  BY <2>2, <3>1 DEF StepsAfter
  <2>3. CASE pc[r] = "found"
    <3>1. \E label \in {"reviewed", "cancelled"} : Goto(r, label)
      BY <2>3 DEF Execute, FindRoutes, StopSearch, Fail, Review, ReadDisplayed, Decline,
                  Publish, ExecuteLayered, ActivateLayered, FindLayers, StopLayers,
                  FailLayers, ReadDisplayedSet, FinalReview, PublishSet
    <3> QED  BY <2>3, <3>1 DEF StepsAfter
  <2>4. CASE pc[r] = "reviewed"
    <3>1. \E label \in {"accepted", "rejected", "failed"} : Goto(r, label)
      BY <2>4 DEF Execute, FindRoutes, StopSearch, Fail, Review, ReadDisplayed, Decline,
                  Publish, ExecuteLayered, ActivateLayered, FindLayers, StopLayers,
                  FailLayers, ReadDisplayedSet, FinalReview, PublishSet
    <3> QED  BY <2>4, <3>1 DEF StepsAfter
  <2>5. CASE pc[r] \in {"accepted", "rejected"}
    <3>1. \E label \in {"published", "cancelled", "declined", "cleared"} : Goto(r, label)
      BY <2>5 DEF Execute, FindRoutes, StopSearch, Fail, Review, ReadDisplayed, Decline,
                  Publish, ExecuteLayered, ActivateLayered, FindLayers, StopLayers,
                  FailLayers, ReadDisplayedSet, FinalReview, PublishSet
    <3> QED  BY <2>5, <3>1 DEF StepsAfter
  <2>6. CASE pc[r] = "cleared"
    <3>1. \E label \in {"published", "cancelled"} : Goto(r, label)
      BY <2>6 DEF Execute, FindRoutes, StopSearch, Fail, Review, ReadDisplayed, Decline,
                  Publish, ExecuteLayered, ActivateLayered, FindLayers, StopLayers,
                  FailLayers, ReadDisplayedSet, FinalReview, PublishSet
    <3> QED  BY <2>6, <3>1 DEF StepsAfter
  <2>7. pc[r] \in {"planning", "activated", "found", "reviewed", "accepted",
                   "rejected", "cleared"}
    BY DEF Execute, FindRoutes, StopSearch, Fail, Review, ReadDisplayed, Decline,
           Publish, ExecuteLayered, ActivateLayered, FindLayers, StopLayers,
           FailLayers, ReadDisplayedSet, FinalReview, PublishSet
  <2> HIDE DEF Shortened
  <2> QED  BY <2>1, <2>2, <2>3, <2>4, <2>5, <2>6, <2>7
<1> QED  BY <1>1 DEF Goto

(* Where a request ends without having been revoked, it has a result of    *)
(* its own.                                                                *)
ServedAtTheEnd ==
  \A r \in Begun \ revoked :
    StepsAfter(pc[r]) = 0 => pc[r] \in {"published", "declined", "failed"}

BegunIsNotRefused == \A r \in Begun : pc[r] # "refused"

LEMMA NextNotRefused ==
  ASSUME Inv, BegunIsNotRefused, [Next]_vars
  PROVE  BegunIsNotRefused'
<1>1. ASSUME NEW r \in Requests, NEW t \in Task, Begin(r, t) PROVE BegunIsNotRefused'
  <2>1. /\ r \notin Begun /\ ticket \in [Requests -> Nat]
        /\ pc = [q \in Requests |-> pc[q]]
    BY <1>1 DEF Begin, Inv, TypeOK, RequestsConsistent, Numbered
  <2>2. \A q \in Requests \ {r} : pc'[q] = pc[q] /\ ticket'[q] = ticket[q]
    BY <1>1, <2>1 DEF Begin, Goto
  <2>3. ticket'[r] = ticket[r] \/ pc'[r] = "planning"
    BY <1>1, <2>1 DEF Begin, Goto
  <2> QED  BY <2>1, <2>2, <2>3 DEF Begun, BegunIsNotRefused
<1>2. ASSUME NEW r \in Requests, Cancel(r) PROVE BegunIsNotRefused'
  BY <1>2 DEF Cancel, Begun, BegunIsNotRefused
<1>3. ASSUME NEW r \in Requests, Execute(r) PROVE BegunIsNotRefused'
  <2>1. ticket' = ticket
    BY <1>3 DEF Execute, FindRoutes, StopSearch, Fail, Review, ReadDisplayed, Decline,
                Publish
  <2>2. \E label : label # "refused" /\ Goto(r, label)
    BY <1>3 DEF Execute, FindRoutes, StopSearch, Fail, Review, ReadDisplayed, Decline,
                Publish
  <2>3. \A q \in Requests : pc'[q] = pc[q] \/ pc'[q] # "refused"
    BY <2>2 DEF Goto, Inv, TypeOK
  <2> QED  BY <2>1, <2>3 DEF Begun, BegunIsNotRefused
<1>4. CASE UNCHANGED vars
  BY <1>4 DEF vars, requestVars, Begun, BegunIsNotRefused
<1> QED  BY <1>1, <1>2, <1>3, <1>4 DEF Next

(* execute() of v2: once it has begun, a request has six steps at most, of *)
(* which the steps of others add none and take none, and its end is a      *)
(* result unless it was revoked.  Under threads that keep running, that is *)
(* ServedUnlessRevoked.                                                    *)
THEOREM RequestsRunOut ==
  Spec => /\ [][\A r \in Begun : pc'[r] # pc[r] =>
                  StepsAfter(pc'[r]) < StepsAfter(pc[r])]_vars
          /\ []ServedAtTheEnd
<1>1. Init => BegunIsNotRefused
  BY DEF Init, Begun, BegunIsNotRefused
<1>2. Inv /\ BegunIsNotRefused /\ [Next]_vars => BegunIsNotRefused'
  BY NextNotRefused
<1>3. Inv /\ BegunIsNotRefused /\ CancelledForAReason => ServedAtTheEnd
  <2> SUFFICES ASSUME Inv, BegunIsNotRefused, CancelledForAReason,
                      NEW r \in Begun \ revoked, StepsAfter(pc[r]) = 0
               PROVE  pc[r] \in {"published", "declined", "failed"}
    BY DEF ServedAtTheEnd
  <2>1. r \in Requests /\ pc[r] # "idle"
    BY DEF Begun, Inv, RequestsConsistent, Numbered
  <2>2. pc[r] \in Ended \cup {"planning", "found", "reviewed", "accepted", "rejected"}
    BY <2>1 DEF Inv, TypeOK
  <2> QED  BY <2>1, <2>2 DEF Ended, StepsAfter, BegunIsNotRefused, CancelledForAReason
<1>4. Inv /\ [Next]_vars =>
        [\A r \in Begun : pc'[r] # pc[r] => StepsAfter(pc'[r]) < StepsAfter(pc[r])]_vars
  <2> SUFFICES ASSUME Inv, Next, NEW r \in Begun, pc'[r] # pc[r]
               PROVE  StepsAfter(pc'[r]) < StepsAfter(pc[r])
    OBVIOUS
  <2>1. r \in Requests /\ pc[r] # "idle" /\ pc = [q \in Requests |-> pc[q]]
    BY DEF Begun, Inv, TypeOK, RequestsConsistent, Numbered
  <2>2. PICK q \in Requests : (\E t \in Task : Begin(q, t)) \/ Execute(q)
    BY DEF Next, Cancel
  <2>3. ASSUME NEW t \in Task, Begin(q, t) PROVE FALSE
    <3>1. pc[q] = "idle" /\ \E label : Goto(q, label)
      BY <2>3 DEF Begin
    <3> QED  BY <2>1, <3>1 DEF Goto
  <2> QED  BY <2>1, <2>2, <2>3, ExecuteShortens
<1> QED
  BY <1>1, <1>2, <1>3, <1>4, SessionInvariant, CancelledOnlyForAReason, PTL DEF Spec

===============================================================================
