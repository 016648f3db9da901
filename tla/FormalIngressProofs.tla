-------------------------- MODULE FormalIngressProofs --------------------------
(***************************************************************************)
(* What the formal ingress keeps true around the two services, for any     *)
(* number of calls of either service, any observations and any policy:     *)
(* the calls it makes are among those the services were proved for, what   *)
(* the triggers compare with was shown, and under a source that grants one *)
(* lease at a time it is what is shown; a lease ends after finitely many   *)
(* steps of its call.                                                      *)
(***************************************************************************)
EXTENDS FormalIngress, PublicationProofs, FiniteSetTheorems

Inside == {"entered", "validated", "triggered", "serving"}

Marked == {"marked", "raised"}

Stages ==
  Inside \cup Marked
    \cup {"out", "invalid", "nothing", "suppressed", "error", "ended"}

(* A lease is held exactly between entering and leaving.                   *)
CallTypes ==
  /\ call \in [Requests -> Calls \cup {NoCall}]
  /\ stage \in [Requests -> Stages]
  /\ reasons \in [Requests -> SUBSET Reasons]
  /\ slots \in Nat \ {0}
  /\ IsFiniteSet(leases)
  /\ leases = {r \in Requests : stage[r] \in Inside}
  /\ \A r \in Requests : stage[r] = "out" <=> call[r] = NoCall

(* A service is asked by a call that was triggered, with what the call     *)
(* says, and the call ends as the service did.                             *)
Asked ==
  /\ \A r \in Requests :
       /\ stage[r] \in {"entered", "validated"} => call[r].replan
       /\ stage[r] \in {"out", "entered", "validated"} => reasons[r] = {}
       /\ stage[r] = "triggered" => (call[r].replan <=> reasons[r] # {})
       /\ stage[r] \in {"serving", "ended"} \cup Marked <=> pc[r] # "idle"
       /\ stage[r] \in Marked => pc[r] = "published"
       /\ stage[r] = "ended" => pc[r] \in Ended \ {"published"}
  /\ \A r \in Begun :
       /\ task[r].token = [context |-> call[r].context,
                           revision |-> call[r].revision, request |-> r]
       /\ task[r].gated = call[r].replan

IngressInv == CallTypes /\ Asked /\ SharedInv

(* The session is in the generation of every call under way, and was never *)
(* in a later one than that.                                               *)
Entered ==
  /\ entered \in Nat \cup {-1}
  /\ \A r \in leases : Generation(r) \in live /\ Generation(r) = entered
  /\ \A r \in Requests : call[r] # NoCall => Generation(r) <= entered
  /\ \E g \in live : slots # 1 => live = {g}
  /\ Exclusive => \A r, q \in leases : r = q

(* The plan a store shows is of a request that was published, in the       *)
(* session the store is fenced to.                                         *)
ShownBy(plan, fence) ==
  plan # NoPlan =>
    LET q == plan.token.request
    IN  /\ q \in Begun /\ pc[q] = "published"
        /\ plan.token = task[q].token
        /\ fence # NoToken /\ fence.context = task[q].token.context

Display == ShownBy(current, active) /\ ShownBy(layeredCurrent, layeredActive)

(* The baseline is of a call that was marked in this generation, and there *)
(* is one as soon as a call was.                                           *)
IsBaselineOf(r) ==
  /\ baseline # NoBaseline
  /\ baseline.at = call[r].start /\ baseline.data = call[r].revision
  /\ baseline.commit = call[r].commit

BaselineIsMarked ==
  /\ baseline # NoBaseline =>
       \E r \in Requests : /\ stage[r] = "marked" /\ Generation(r) = entered
                           /\ IsBaselineOf(r)
  /\ \A r \in Requests :
       stage[r] \in Marked /\ Generation(r) = entered => baseline # NoBaseline

(* One call at a time: what a replanning was validated against is marked,  *)
(* stays on display until it is replaced, and is older.                    *)
Validated ==
  Exclusive =>
    \A r \in Requests :
      /\ stage[r] = "validated" => baseline # NoBaseline
      /\ /\ stage[r] \in {"validated", "triggered", "serving"}
         /\ call[r].replan /\ pc[r] \notin Ended
         => NewerThanDisplayed(r)

(* The call under way is the newest request.                               *)
NewestIsServed ==
  Exclusive => \A r \in Begun : stage[r] = "serving" => handle = r

(* As BaselineFollowsDisplay, of the calls that were marked, at any time.  *)
Settled == {r \in Shown : stage[r] \in Marked}

BaselineFollows ==
  Exclusive =>
    \A r \in Settled :
      /\ Generation(r) = entered
      /\ \A q \in Settled : /\ ticket[q] <= ticket[r]
                            /\ Generation(q) = entered => call[q].start <= call[r].start
      => IsBaselineOf(r)

-------------------------------------------------------------------------------
(* Calls                                                                   *)

(* Leaving and every step within a call: leases follow the stages.         *)
LEMMA StageTypes ==
  ASSUME CallTypes, NEW r \in Requests, NEW c \in Calls,
         NEW x \in Stages \ {"out"},
         call' = [call EXCEPT ![r] = c], stage' = [stage EXCEPT ![r] = x],
         x \in Inside => leases' = leases \cup {r},
         x \notin Inside => leases' = leases \ {r},
         reasons' \in [Requests -> SUBSET Reasons], slots' = slots
  PROVE  /\ CallTypes'
         /\ call'[r] = c /\ stage'[r] = x
         /\ \A q \in Requests \ {r} : call'[q] = call[q] /\ stage'[q] = stage[q]
<1>1. /\ call'[r] = c /\ stage'[r] = x
      /\ \A q \in Requests \ {r} : call'[q] = call[q] /\ stage'[q] = stage[q]
  BY DEF CallTypes
<1>2. call' \in [Requests -> Calls \cup {NoCall}]
  BY DEF CallTypes
<1>3. stage' \in [Requests -> Stages]
  BY DEF CallTypes
<1>4. IsFiniteSet(leases')
  <2>1. IsFiniteSet(leases)
    BY DEF CallTypes
  <2>2. IsFiniteSet(leases \cup {r}) /\ IsFiniteSet(leases \ {r})
    BY <2>1, FS_AddElement, FS_RemoveElement
  <2> QED  BY <2>2
<1>5. leases' = {q \in Requests : stage'[q] \in Inside}
  BY <1>1 DEF CallTypes
<1>6. \A q \in Requests : stage'[q] = "out" <=> call'[q] = NoCall
  BY <1>1, CallAssumption DEF CallTypes
<1> QED  BY <1>1, <1>2, <1>3, <1>4, <1>5, <1>6 DEF CallTypes

(* The same, where the call is the one it was.                             *)
LEMMA StageOfCall ==
  ASSUME CallTypes, NEW r \in Requests, NEW x \in Stages \ {"out"},
         stage[r] # "out",
         stage' = [stage EXCEPT ![r] = x],
         x \in Inside => leases' = leases \cup {r},
         x \notin Inside => leases' = leases \ {r},
         reasons' \in [Requests -> SUBSET Reasons], UNCHANGED <<slots, call>>
  PROVE  /\ CallTypes'
         /\ call[r] \in Calls /\ stage'[r] = x
         /\ \A q \in Requests \ {r} : stage'[q] = stage[q]
<1>1. /\ stage'[r] = x
      /\ \A q \in Requests \ {r} : stage'[q] = stage[q]
  BY DEF CallTypes
<1>2. call[r] \in Calls
  BY DEF CallTypes
<1>3. stage' \in [Requests -> Stages] /\ call' = call /\ slots' = slots
  BY DEF CallTypes
<1>4. IsFiniteSet(leases')
  BY FS_AddElement, FS_RemoveElement DEF CallTypes
<1>5. leases' = {q \in Requests : stage'[q] \in Inside}
  BY <1>1 DEF CallTypes
<1>6. \A q \in Requests : stage'[q] = "out" <=> call'[q] = NoCall
  BY <1>1, <1>2, <1>3, CallAssumption DEF CallTypes
<1> QED  BY <1>1, <1>2, <1>3, <1>4, <1>5, <1>6 DEF CallTypes

(* A step that only moves a call from one stage to another.                *)
LEMMA StageAsked ==
  ASSUME Asked, NEW r \in Requests, UNCHANGED allVars,
         r \notin Begun \/ call'[r] = call[r],
         \A q \in Requests \ {r} :
           /\ stage'[q] = stage[q] /\ call'[q] = call[q]
           /\ reasons'[q] = reasons[q],
         stage'[r] \in {"entered", "validated"} => call'[r].replan,
         stage'[r] \in {"out", "entered", "validated"} => reasons'[r] = {},
         stage'[r] = "triggered" => (call'[r].replan <=> reasons'[r] # {}),
         stage'[r] \in {"serving", "ended"} \cup Marked <=> pc[r] # "idle",
         stage'[r] \in Marked => pc[r] = "published",
         stage'[r] = "ended" => pc[r] \in Ended \ {"published"}
  PROVE  Asked'
<1>1. /\ pc' = pc /\ task' = task /\ ticket' = ticket
  BY DEF allVars, vars, requestVars
<1>2. Begun' = Begun
  BY <1>1 DEF Begun
<1>3. \A q \in Requests :
        /\ stage'[q] \in {"entered", "validated"} => call'[q].replan
        /\ stage'[q] \in {"out", "entered", "validated"} => reasons'[q] = {}
        /\ stage'[q] = "triggered" => (call'[q].replan <=> reasons'[q] # {})
        /\ stage'[q] \in {"serving", "ended"} \cup Marked <=> pc'[q] # "idle"
        /\ stage'[q] \in Marked => pc'[q] = "published"
        /\ stage'[q] = "ended" => pc'[q] \in Ended \ {"published"}
  <2> SUFFICES ASSUME NEW q \in Requests
               PROVE /\ stage'[q] \in {"entered", "validated"} => call'[q].replan
                     /\ stage'[q] \in {"out", "entered", "validated"} => reasons'[q] = {}
                     /\ stage'[q] = "triggered" => (call'[q].replan <=> reasons'[q] # {})
                     /\ stage'[q] \in {"serving", "ended"} \cup Marked <=> pc'[q] # "idle"
                     /\ stage'[q] \in Marked => pc'[q] = "published"
                     /\ stage'[q] = "ended" => pc'[q] \in Ended \ {"published"}
    OBVIOUS
  <2>1. CASE q = r
    BY <1>1, <2>1
  <2>2. CASE q # r
    BY <1>1, <2>2 DEF Asked
  <2> QED  BY <2>1, <2>2
<1>4. \A q \in Begun' :
        /\ task'[q].token = [context |-> call'[q].context,
                             revision |-> call'[q].revision, request |-> q]
        /\ task'[q].gated = call'[q].replan
  <2>1. \A q \in Begun : q \in Requests /\ call'[q] = call[q]
    BY DEF Begun
  <2> QED  BY <1>1, <1>2, <2>1 DEF Asked
<1> QED  BY <1>3, <1>4 DEF Asked

LEMMA UnchangedShared ==
  ASSUME SharedInv, UNCHANGED allVars
  PROVE  SharedInv'
BY NextSharedInv

(* Entering is the first step of a call.                                   *)
LEMMA EnterStep ==
  ASSUME IngressInv, NEW r \in Requests, NEW c \in Calls, Enter(r, c)
  PROVE  /\ IngressInv'
         /\ stage[r] = "out" /\ r \notin Begun
         /\ stage'[r] \in Inside /\ call'[r] = c
         /\ \A q \in Requests \ {r} : call'[q] = call[q] /\ stage'[q] = stage[q]
<1> USE DEF IngressInv
<1> DEFINE x == IF c.replan THEN "entered" ELSE "triggered"
<1>1. /\ stage[r] = "out" /\ UNCHANGED <<allVars, slots, reasons>>
      /\ call' = [call EXCEPT ![r] = c] /\ stage' = [stage EXCEPT ![r] = x]
      /\ leases' = leases \cup {r}
  BY DEF Enter, sourceState
<1>2. x \in Stages \ {"out"} /\ x \in Inside
  BY DEF Stages, Inside
<1>3. reasons' \in [Requests -> SUBSET Reasons]
  BY <1>1 DEF CallTypes
<1>4. /\ CallTypes' /\ call'[r] = c /\ stage'[r] = x
      /\ \A q \in Requests \ {r} : call'[q] = call[q] /\ stage'[q] = stage[q]
  <2> HIDE DEF x
  <2> QED  BY <1>1, <1>2, <1>3, StageTypes
<1>5. pc[r] = "idle" /\ reasons[r] = {}
  BY <1>1 DEF Asked, Marked
<1>6. r \notin Begun
  BY <1>5 DEF SharedInv, Newest
<1>7. c.replan \in BOOLEAN
  BY CallAssumption
<1>8. Asked'
  <2>1. reasons' = reasons
    BY <1>1
  <2> QED  BY <1>1, <1>4, <1>5, <1>6, <1>7, <2>1, StageAsked DEF Marked
<1>9. SharedInv'
  BY <1>1, UnchangedShared
<1> QED  BY <1>1, <1>2, <1>4, <1>6, <1>8, <1>9

(* What the evaluator may answer, and what the gate is told of it.         *)
LEMMA Answers ==
  ASSUME NEW o
  PROVE  /\ Triggers!Answer(o) \in {"error", "nothing", "suppressed", "triggered"}
         /\ Triggers!Answer(o) = "nothing" =>
              ~Triggers!Regresses(o) /\ Triggers!ReasonsFor(o) = {}
         /\ Triggers!Answer(o) = "triggered" => Triggers!ReasonsFor(o) # {}
BY DEF Triggers!Answer

LEMMA GateHearsAReason ==
  ASSUME NEW triggered, triggered # {}
  PROVE  ForGate(triggered) \in (SUBSET Reasons) \ {{}}
<1>1. "other" \in Reasons
  BY DEF Reasons
<1>2. ForGate(triggered) \subseteq Reasons
  BY <1>1 DEF ForGate
<1>3. ForGate(triggered) # {}
  BY DEF ForGate
<1> QED  BY <1>2, <1>3

LEMMA ValidateStep ==
  ASSUME IngressInv, NEW r \in Requests, Validate(r)
  PROVE  /\ IngressInv' /\ UNCHANGED <<allVars, sourceState, entered, evaluator, call>>
         /\ stage[r] = "entered"
         /\ \/ stage'[r] = "validated" /\ NewerThanDisplayed(r)
            \/ stage'[r] = "invalid"
         /\ \A q \in Requests \ {r} : stage'[q] = stage[q]
<1> USE DEF IngressInv
<1>1. /\ stage[r] = "entered"
      /\ UNCHANGED <<allVars, sourceState, entered, evaluator, call, reasons>>
  BY DEF Validate
<1>2. pc[r] = "idle" /\ reasons[r] = {} /\ call[r].replan
  BY <1>1 DEF Asked, Marked
<1>3. r \in leases /\ reasons' \in [Requests -> SUBSET Reasons]
      /\ reasons' = reasons /\ slots' = slots /\ call' = call
  BY <1>1 DEF CallTypes, Inside, sourceState
<1>4. SharedInv'
  BY <1>1, UnchangedShared
<1>5. ASSUME NEW x \in {"validated", "invalid"}, stage' = [stage EXCEPT ![r] = x],
             x = "validated" => leases' = leases,
             x = "invalid" => leases' = leases \ {r}
      PROVE  /\ IngressInv' /\ stage'[r] = x
             /\ \A q \in Requests \ {r} : stage'[q] = stage[q]
  <2>1. x \in Stages \ {"out"} /\ (x \in Inside <=> x = "validated")
    BY DEF Stages, Inside
  <2>2. /\ x \in Inside => leases' = leases \cup {r}
        /\ x \notin Inside => leases' = leases \ {r}
    BY <1>3, <1>5, <2>1
  <2>3. /\ CallTypes' /\ stage'[r] = x
        /\ \A q \in Requests \ {r} : stage'[q] = stage[q]
    BY <1>1, <1>3, <1>5, <2>1, <2>2, StageOfCall
  <2>4. Asked'
    BY <1>1, <1>2, <1>3, <2>3, StageAsked DEF Marked
  <2> QED  BY <1>4, <2>3, <2>4
<1>6. CASE NewerThanDisplayed(r)
  <2>1. stage' = [stage EXCEPT ![r] = "validated"] /\ leases' = leases
    BY <1>6 DEF Validate
  <2> QED  BY <1>1, <1>5, <1>6, <2>1
<1>7. CASE ~NewerThanDisplayed(r)
  <2>1. stage' = [stage EXCEPT ![r] = "invalid"] /\ leases' = leases \ {r}
    BY <1>7 DEF Validate, Leave
  <2> QED  BY <1>1, <1>5, <2>1
<1> QED  BY <1>6, <1>7

LEMMA EvaluateStep ==
  ASSUME IngressInv, NEW r \in Requests, Evaluate(r)
  PROVE  /\ IngressInv' /\ UNCHANGED <<allVars, sourceState, entered, evaluator, call>>
         /\ stage[r] = "validated"
         /\ \/ stage'[r] = "triggered"
            \/ stage'[r] = "nothing" /\ Triggers!Answer(Observed(r)) = "nothing"
            \/ stage'[r] \in {"suppressed", "error"}
         /\ \A q \in Requests \ {r} : stage'[q] = stage[q]
<1> USE DEF IngressInv
<1> DEFINE o == Observed(r)
           answer == Triggers!Answer(o)
<1>1. /\ stage[r] = "validated"
      /\ UNCHANGED <<allVars, sourceState, entered, evaluator, call>>
  BY DEF Evaluate
<1>2. pc[r] = "idle" /\ reasons[r] = {} /\ call[r].replan
  BY <1>1 DEF Asked, Marked
<1>3. r \in leases /\ slots' = slots /\ call' = call
  BY <1>1 DEF CallTypes, Inside, sourceState
<1>4. SharedInv'
  BY <1>1, UnchangedShared
<1>5. CASE answer = "triggered"
  <2> DEFINE forGate == ForGate(Triggers!ReasonsFor(o))
  <2>1. /\ stage' = [stage EXCEPT ![r] = "triggered"] /\ leases' = leases
        /\ reasons' = [reasons EXCEPT ![r] = forGate]
    BY <1>5 DEF Evaluate
  <2>2. forGate \in (SUBSET Reasons) \ {{}}
    <3>1. Triggers!ReasonsFor(o) # {}
      BY <1>5, Answers
    <3> QED  BY <3>1, GateHearsAReason
  <2> HIDE DEF forGate, answer, o
  <2>3. /\ reasons' \in [Requests -> SUBSET Reasons] /\ reasons'[r] # {}
        /\ \A q \in Requests \ {r} : reasons'[q] = reasons[q]
    BY <2>1, <2>2 DEF CallTypes
  <2>4. /\ CallTypes' /\ stage'[r] = "triggered"
        /\ \A q \in Requests \ {r} : stage'[q] = stage[q]
    <3>1. /\ "triggered" \in Stages \ {"out"} /\ "triggered" \in Inside
          /\ leases' = leases \cup {r} /\ stage[r] # "out"
      BY <1>1, <1>3, <2>1 DEF Stages, Inside
    <3> QED  BY <1>1, <1>3, <2>1, <2>3, <3>1, StageOfCall
  <2>5. Asked'
    BY <1>1, <1>2, <1>3, <2>3, <2>4, StageAsked DEF Marked
  <2> QED  BY <1>1, <1>4, <2>4, <2>5
<1>6. CASE answer # "triggered"
  <2>1. /\ stage' = [stage EXCEPT ![r] = answer] /\ leases' = leases \ {r}
        /\ reasons' = reasons
    BY <1>6 DEF Evaluate, Leave
  <2>2. answer \in {"error", "nothing", "suppressed"}
    BY <1>6, Answers
  <2>3. PICK x \in {"error", "nothing", "suppressed"} : x = answer
    BY <2>2
  <2> HIDE DEF answer, o
  <2>4. /\ CallTypes' /\ stage'[r] = x
        /\ \A q \in Requests \ {r} : stage'[q] = stage[q]
    <3>1. /\ x \in Stages \ {"out"} /\ x \notin Inside /\ stage[r] # "out"
          /\ reasons' \in [Requests -> SUBSET Reasons]
      BY <1>1, <2>1 DEF Stages, Inside, CallTypes
    <3>2. stage' = [stage EXCEPT ![r] = x]
      BY <2>1, <2>3
    <3> QED  BY <1>3, <2>1, <3>1, <3>2, StageOfCall
  <2>5. Asked'
    BY <1>1, <1>2, <1>3, <2>1, <2>4, StageAsked DEF Marked
  <2>6. stage'[r] = "nothing" => answer = "nothing"
    BY <2>3, <2>4
  <2>7. /\ CallTypes' /\ Asked' /\ SharedInv'
        /\ stage'[r] \in {"error", "nothing", "suppressed"}
    BY <1>4, <2>4, <2>5
  <2> QED  BY <1>1, <2>4, <2>6, <2>7 DEF answer, o
<1> QED  BY <1>5, <1>6

(* What a triggered call begins with is a task of the services.            *)
LEMMA BeginCallBegins ==
  ASSUME IngressInv, NEW r \in Requests, BeginCall(r)
  PROVE  /\ r \in leases /\ stage[r] = "triggered"
         /\ stage' = [stage EXCEPT ![r] = "serving"]
         /\ UNCHANGED <<layeredVars, sourceState, leases, entered, evaluator,
                        call, reasons>>
         /\ \E t \in Task :
              /\ Begin(r, t)
              /\ t.token = [context |-> call[r].context,
                            revision |-> call[r].revision, request |-> r]
              /\ t.gated = call[r].replan
<1> USE DEF IngressInv
<1>1. /\ stage[r] = "triggered" /\ stage' = [stage EXCEPT ![r] = "serving"]
      /\ UNCHANGED <<layeredVars, sourceState, leases, entered, evaluator, call,
                     reasons>>
  BY DEF BeginCall
<1>2. r \in leases /\ call[r] \in Calls
  BY <1>1 DEF CallTypes, Inside
<1>3. /\ call[r].context \in Contexts /\ call[r].revision \in Revisions
      /\ call[r].replan \in BOOLEAN
  BY <1>2, CallAssumption
<1> DEFINE token == [context |-> call[r].context, revision |-> call[r].revision,
                     request |-> r]
<1>4. token \in Token
  BY <1>3 DEF Token
<1>5. PICK subject \in Subjects :
        Begin(r, [token |-> token, subject |-> subject, gated |-> call[r].replan,
                  reasons |-> reasons[r]])
  BY DEF BeginCall
<1> DEFINE t == [token |-> token, subject |-> subject, gated |-> call[r].replan,
                 reasons |-> reasons[r]]
<1>6. reasons[r] \in SUBSET Reasons /\ (call[r].replan <=> reasons[r] # {})
  BY <1>1 DEF CallTypes, Asked
<1>7. t \in Task
  <2> HIDE DEF token
  <2>1. CASE call[r].replan
    <3>1. reasons[r] \in GateReasons
      BY <1>6, <2>1, CallAssumption
    <3>2. call[r].replan = TRUE
      BY <1>3, <2>1
    <3> QED  BY <1>4, <3>1, <3>2 DEF Task
  <2>2. CASE ~call[r].replan
    <3>1. reasons[r] = {} /\ call[r].replan = FALSE
      BY <1>3, <1>6, <2>2
    <3> QED  BY <1>4, <3>1 DEF Task
  <2> QED  BY <2>1, <2>2
<1>8. t.token = token /\ t.gated = call[r].replan
  OBVIOUS
<1> QED  BY <1>1, <1>2, <1>5, <1>7, <1>8

LEMMA BeginCallStep ==
  ASSUME IngressInv, NEW r \in Requests, BeginCall(r)
  PROVE  /\ IngressInv' /\ [LayeredNext]_allVars
         /\ stage'[r] = "serving"
         /\ \A q \in Requests \ {r} : stage'[q] = stage[q]
<1> USE DEF IngressInv
<1>1. /\ r \in leases /\ stage[r] = "triggered"
      /\ stage' = [stage EXCEPT ![r] = "serving"]
      /\ leases' = leases /\ slots' = slots /\ call' = call /\ reasons' = reasons
      /\ UNCHANGED layeredVars
  BY BeginCallBegins DEF sourceState
<1>2. PICK t \in Task :
        /\ Begin(r, t)
        /\ t.token = [context |-> call[r].context, revision |-> call[r].revision,
                      request |-> r]
        /\ t.gated = call[r].replan
  BY BeginCallBegins
<1>3. [LayeredNext]_allVars
  BY <1>1, <1>2 DEF LayeredNext
<1>4. SharedInv'
  BY <1>3, NextSharedInv
<1>5. /\ CallTypes' /\ stage'[r] = "serving"
      /\ \A q \in Requests \ {r} : stage'[q] = stage[q]
  <2>1. /\ "serving" \in Stages \ {"out"} /\ "serving" \in Inside
        /\ leases' = leases \cup {r} /\ stage[r] # "out"
        /\ reasons' \in [Requests -> SUBSET Reasons]
    BY <1>1 DEF Stages, Inside, CallTypes
  <2> QED  BY <1>1, <2>1, StageOfCall
<1>6. /\ pc'[r] \in {"refused", "planning"}
      /\ \A q \in Requests \ {r} : pc'[q] = pc[q] /\ task'[q] = task[q]
  BY <1>2, BeginEffect
<1>7. \A q \in Requests :
        /\ stage'[q] \in {"entered", "validated"} => call'[q].replan
        /\ stage'[q] \in {"out", "entered", "validated"} => reasons'[q] = {}
        /\ stage'[q] = "triggered" => (call'[q].replan <=> reasons'[q] # {})
        /\ stage'[q] \in {"serving", "ended"} \cup Marked <=> pc'[q] # "idle"
        /\ stage'[q] \in Marked => pc'[q] = "published"
        /\ stage'[q] = "ended" => pc'[q] \in Ended \ {"published"}
  <2> SUFFICES ASSUME NEW q \in Requests
               PROVE /\ stage'[q] \in {"entered", "validated"} => call'[q].replan
                     /\ stage'[q] \in {"out", "entered", "validated"} => reasons'[q] = {}
                     /\ stage'[q] = "triggered" => (call'[q].replan <=> reasons'[q] # {})
                     /\ stage'[q] \in {"serving", "ended"} \cup Marked <=> pc'[q] # "idle"
                     /\ stage'[q] \in Marked => pc'[q] = "published"
                     /\ stage'[q] = "ended" => pc'[q] \in Ended \ {"published"}
    OBVIOUS
  <2>1. CASE q = r
    BY <1>5, <1>6, <2>1 DEF Marked
  <2>2. CASE q # r
    BY <1>1, <1>5, <1>6, <2>2 DEF Asked
  <2> QED  BY <2>1, <2>2
<1>8. \A q \in Begun' :
        /\ task'[q].token = [context |-> call'[q].context,
                             revision |-> call'[q].revision, request |-> q]
        /\ task'[q].gated = call'[q].replan
  <2>1. \/ Begun' = Begun /\ task' = task
        \/ Begun' = Begun \cup {r} /\ task'[r] = t /\ r \notin Begun
    BY <1>2, BeginEffect
  <2>2. Begun \subseteq Requests
    BY DEF Begun
  <2> QED  BY <1>1, <1>2, <1>6, <2>1, <2>2 DEF Asked
<1>9. Asked'
  BY <1>7, <1>8 DEF Asked
<1> QED  BY <1>3, <1>4, <1>5, <1>9

LEMMA ServeStep ==
  ASSUME IngressInv, NEW r \in Requests, Serve(r)
  PROVE  /\ IngressInv' /\ [LayeredNext]_allVars
         /\ r \in leases /\ ExecuteAny(r)
         /\ UNCHANGED <<sourceState, leases, entered, evaluator, call, reasons, stage>>
<1> USE DEF IngressInv
<1>1. /\ stage[r] = "serving" /\ ExecuteAny(r)
      /\ UNCHANGED <<sourceState, leases, entered, evaluator, call, reasons, stage>>
  BY DEF Serve
<1>2. r \in leases
  BY <1>1 DEF CallTypes, Inside
<1>3. [LayeredNext]_allVars
  BY <1>1 DEF LayeredNext
<1>4. SharedInv'
  BY <1>3, NextSharedInv
<1>5. CallTypes'
  BY <1>1 DEF CallTypes, sourceState
<1>6. /\ Begun' = Begun /\ task' = task /\ pc'[r] # "idle" /\ pc[r] # "idle"
      /\ \A q \in Requests \ {r} : pc'[q] = pc[q]
  BY <1>1, ExecuteEffect DEF Asked, SharedInv, Newest
<1>7. Asked'
  <2>1. \A q \in Begun' :
          /\ task'[q].token = [context |-> call'[q].context,
                               revision |-> call'[q].revision, request |-> q]
          /\ task'[q].gated = call'[q].replan
    BY <1>1, <1>6 DEF Asked
  <2>2. \A q \in Requests :
          /\ stage'[q] \in {"entered", "validated"} => call'[q].replan
          /\ stage'[q] \in {"out", "entered", "validated"} => reasons'[q] = {}
          /\ stage'[q] = "triggered" => (call'[q].replan <=> reasons'[q] # {})
    BY <1>1 DEF Asked
  <2>3. \A q \in Requests :
          /\ stage'[q] \in {"serving", "ended"} \cup Marked <=> pc'[q] # "idle"
          /\ stage'[q] \in Marked => pc'[q] = "published"
          /\ stage'[q] = "ended" => pc'[q] \in Ended \ {"published"}
    BY <1>1, <1>6 DEF Asked, Marked
  <2> QED  BY <2>1, <2>2, <2>3 DEF Asked
<1> QED  BY <1>1, <1>2, <1>3, <1>4, <1>5, <1>7

(* The three ways out of the service.                                      *)
LEMMA LeaveStep ==
  ASSUME IngressInv, NEW r \in Requests, NEW how \in {"ended"} \cup Marked,
         stage[r] = "serving", Leave(r, how),
         how = "ended" => pc[r] \in Ended \ {"published"},
         how \in Marked => pc[r] = "published",
         UNCHANGED <<allVars, sourceState, entered, call, reasons>>
  PROVE  /\ IngressInv' /\ r \in leases /\ stage'[r] = how
         /\ \A q \in Requests \ {r} : stage'[q] = stage[q]
<1> USE DEF IngressInv
<1>1. r \in leases /\ pc[r] # "idle" /\ call' = call /\ reasons' = reasons
      /\ slots' = slots
  BY DEF CallTypes, Inside, Asked, sourceState
<1>2. /\ CallTypes' /\ stage'[r] = how
      /\ \A q \in Requests \ {r} : stage'[q] = stage[q]
  <2>1. /\ how \in Stages \ {"out"} /\ how \notin Inside
        /\ leases' = leases \ {r} /\ stage' = [stage EXCEPT ![r] = how]
        /\ reasons' \in [Requests -> SUBSET Reasons]
    BY <1>1 DEF Stages, Inside, Marked, Leave, CallTypes
  <2> QED  BY <1>1, <2>1, StageOfCall
<1>3. Asked'
  BY <1>1, <1>2, StageAsked DEF Marked
<1>4. SharedInv'
  BY UnchangedShared
<1> QED  BY <1>1, <1>2, <1>3, <1>4

LEMMA GiveBackStep ==
  ASSUME IngressInv, NEW r \in Requests, GiveBack(r)
  PROVE  /\ IngressInv' /\ UNCHANGED <<allVars, sourceState, entered, evaluator, call>>
         /\ r \in leases /\ stage'[r] = "ended" /\ pc[r] # "published"
         /\ \A q \in Requests \ {r} : stage'[q] = stage[q]
<1>1. /\ stage[r] = "serving" /\ pc[r] \in Ended \ {"published"} /\ Leave(r, "ended")
      /\ UNCHANGED <<allVars, sourceState, entered, evaluator, call, reasons>>
  BY DEF GiveBack
<1>2. "ended" \in {"ended"} \cup Marked /\ "ended" \notin Marked
  BY DEF Marked
<1> QED  BY <1>1, <1>2, LeaveStep

LEMMA MarkStep ==
  ASSUME IngressInv, NEW r \in Requests, Mark(r)
  PROVE  /\ IngressInv' /\ UNCHANGED <<allVars, sourceState, entered, call>>
         /\ r \in leases /\ pc[r] = "published" /\ stage[r] = "serving"
         /\ \/ /\ stage'[r] = "raised" /\ Triggers!MarksBack(Observed(r))
               /\ UNCHANGED evaluator
            \/ /\ stage'[r] = "marked" /\ ~Triggers!MarksBack(Observed(r))
               /\ Triggers!MarkReplanned(Observed(r))
         /\ \A q \in Requests \ {r} : stage'[q] = stage[q]
<1> DEFINE back == Triggers!MarksBack(Observed(r))
<1>1. /\ stage[r] = "serving" /\ pc[r] = "published"
      /\ Triggers!MarkReplanned(Observed(r))
      /\ Leave(r, IF back THEN "raised" ELSE "marked")
      /\ UNCHANGED <<allVars, sourceState, entered, call, reasons>>
  BY DEF Mark, Markable
<1>2. PICK how \in Marked : how = IF back THEN "raised" ELSE "marked"
  BY DEF Marked
<1>3. how \in {"ended"} \cup Marked /\ how # "ended"
  BY DEF Marked
<1>4. Leave(r, how)
  BY <1>1, <1>2
<1>5. /\ IngressInv' /\ r \in leases /\ stage'[r] = how
      /\ \A q \in Requests \ {r} : stage'[q] = stage[q]
  BY <1>1, <1>3, <1>4, LeaveStep
<1>6. back => UNCHANGED evaluator
  BY <1>1 DEF Triggers!MarkReplanned, Triggers!evaluator, evaluator
<1> QED  BY <1>1, <1>2, <1>5, <1>6

(* The source changes nothing of a call.                                   *)
LEMMA SourceStep ==
  ASSUME IngressInv, NEW g \in Generations,
         ActivateGeneration(g) \/ CommitGeneration(g)
  PROVE  /\ IngressInv' /\ leases = {}
         /\ UNCHANGED <<allVars, slots, leases, entered, evaluator, call, reasons,
                        stage>>
         /\ live' = {g} \/ (live' = live \cup {g} /\ slots = 1)
<1> USE DEF IngressInv
<1>1. /\ leases = {}
      /\ UNCHANGED <<allVars, slots, leases, entered, evaluator, call, reasons, stage>>
      /\ live' = {g} \/ (live' = live \cup {g} /\ slots = 1)
  BY DEF ActivateGeneration, CommitGeneration
<1>2. CallTypes'
  BY <1>1 DEF CallTypes
<1>3. pc' = pc /\ task' = task /\ Begun' = Begun
  BY <1>1 DEF allVars, vars, requestVars, Begun
<1>4. Asked'
  BY <1>1, <1>3 DEF Asked
<1>5. SharedInv'
  BY <1>1, UnchangedShared
<1> QED  BY <1>1, <1>2, <1>4, <1>5

LEMMA IdleStep ==
  ASSUME IngressInv, UNCHANGED formalVars
  PROVE  IngressInv'
<1> USE DEF IngressInv
<1>1. UNCHANGED <<allVars, slots, leases, call, reasons, stage>>
  BY DEF formalVars, sourceState
<1>2. CallTypes'
  BY <1>1 DEF CallTypes
<1>3. pc' = pc /\ task' = task /\ Begun' = Begun
  BY <1>1 DEF allVars, vars, requestVars, Begun
<1>4. Asked'
  BY <1>1, <1>3 DEF Asked
<1>5. SharedInv'
  BY <1>1, UnchangedShared
<1> QED  BY <1>2, <1>4, <1>5

LEMMA InitIngressInv == FormalInit => IngressInv
<1> SUFFICES ASSUME FormalInit PROVE IngressInv
  OBVIOUS
<1>1. SharedInv
  BY InitSharedInv DEF FormalInit
<1>2. /\ leases = {} /\ slots \in Sharing
      /\ call = [r \in Requests |-> NoCall]
      /\ reasons = [r \in Requests |-> {}]
      /\ stage = [r \in Requests |-> "out"]
      /\ pc = [r \in Requests |-> "idle"] /\ Begun = {}
  BY DEF FormalInit, LayeredInit, Init, Begun
<1>3. CallTypes
  <2>1. IsFiniteSet(leases)
    BY <1>2, FS_EmptySet
  <2>2. leases = {r \in Requests : stage[r] \in Inside}
    BY <1>2 DEF Inside
  <2>3. stage \in [Requests -> Stages]
    BY <1>2 DEF Stages
  <2> QED  BY <1>2, <2>1, <2>2, <2>3, CallAssumption DEF CallTypes
<1>4. Asked
  BY <1>2 DEF Asked, Marked
<1> QED  BY <1>1, <1>3, <1>4 DEF IngressInv

LEMMA NextIngressInv ==
  ASSUME IngressInv, [FormalNext]_formalVars
  PROVE  IngressInv' /\ [LayeredNext]_allVars
<1>1. ASSUME NEW r \in Requests, Continue(r)
      PROVE  IngressInv' /\ [LayeredNext]_allVars
  BY <1>1, ValidateStep, EvaluateStep, BeginCallStep, ServeStep, GiveBackStep,
     MarkStep DEF Continue
<1>2. ASSUME NEW r \in Requests, NEW c \in Calls, Enter(r, c)
      PROVE  IngressInv' /\ [LayeredNext]_allVars
  BY <1>2, EnterStep DEF Enter
<1>3. ASSUME NEW g \in Generations, ActivateGeneration(g) \/ CommitGeneration(g)
      PROVE  IngressInv' /\ [LayeredNext]_allVars
  BY <1>3, SourceStep
<1>4. CASE UNCHANGED formalVars
  BY <1>4, IdleStep DEF formalVars
<1> QED  BY <1>1, <1>2, <1>3, <1>4 DEF FormalNext

LEMMA IngressInvariant == FormalSpec => []IngressInv
<1>1. FormalInit => IngressInv
  BY InitIngressInv
<1>2. IngressInv /\ [FormalNext]_formalVars => IngressInv'
  BY NextIngressInv
<1> QED  BY <1>1, <1>2, PTL DEF FormalSpec

(* What the ingress asks of the two services is among what they were       *)
(* proved for: every guarantee of LayeredSpec holds under it.              *)
THEOREM FormalImplementsLayered == FormalSpec => LayeredSpec
<1>1. FormalInit => LayeredInit
  BY DEF FormalInit
<1>2. IngressInv /\ [FormalNext]_formalVars => [LayeredNext]_allVars
  BY NextIngressInv
<1> QED  BY <1>1, <1>2, IngressInvariant, PTL DEF FormalSpec, LayeredSpec

-------------------------------------------------------------------------------
(* The session and its calls                                               *)

(* Every step within a call is one of a request that holds a lease.        *)
LEMMA ContinueEffect ==
  ASSUME IngressInv, NEW r \in Requests, Continue(r)
  PROVE  /\ r \in leases /\ leases' \subseteq leases /\ call' = call
         /\ UNCHANGED <<sourceState, entered>>
         /\ \A q \in Requests \ {r} : stage'[q] = stage[q] /\ pc'[q] = pc[q]
<1>1. CASE Validate(r) \/ Evaluate(r) \/ GiveBack(r) \/ Mark(r)
  <2>1. /\ r \in leases /\ leases' \subseteq leases
        /\ UNCHANGED <<allVars, sourceState, entered, call>>
    BY <1>1 DEF Validate, Evaluate, GiveBack, Mark, Leave, IngressInv, CallTypes,
                Inside
  <2>2. pc' = pc
    BY <2>1 DEF allVars, vars, requestVars
  <2>3. \A q \in Requests \ {r} : stage'[q] = stage[q]
    BY <1>1, ValidateStep, EvaluateStep, GiveBackStep, MarkStep
  <2> QED  BY <2>1, <2>2, <2>3
<1>2. CASE BeginCall(r)
  <2>1. /\ r \in leases /\ leases' = leases
        /\ UNCHANGED <<sourceState, entered, call>>
    BY <1>2, BeginCallBegins
  <2>2. PICK t \in Task : Begin(r, t)
    BY <1>2, BeginCallBegins
  <2>3. \A q \in Requests \ {r} : pc'[q] = pc[q]
    BY <2>2, BeginEffect DEF IngressInv
  <2>4. \A q \in Requests \ {r} : stage'[q] = stage[q]
    BY <1>2, BeginCallStep
  <2> QED  BY <2>1, <2>3, <2>4
<1>3. CASE Serve(r)
  BY <1>3, ServeStep, ExecuteEffect DEF IngressInv
<1> QED  BY <1>1, <1>2, <1>3 DEF Continue

LEMMA GenerationIsNat ==
  ASSUME CallTypes, NEW r \in Requests, call[r] # NoCall
  PROVE  Generation(r) \in Nat
<1>1. call[r] \in Calls
  BY DEF CallTypes
<1>2. call[r].context \in Context
  BY <1>1, CallAssumption, PlanAssumption
<1> QED  BY <1>2 DEF Context, Generation

(* A lease is free only if none is held, or the source has one generation. *)
LEMMA EnterAlone ==
  ASSUME IngressInv, NEW r \in Requests, NEW c \in Calls, Enter(r, c)
  PROVE  Exclusive => leases = {}
<1> SUFFICES ASSUME Exclusive PROVE leases = {}
  OBVIOUS
<1>1. IsFiniteSet(leases) /\ Cardinality(leases) < 1
  BY DEF IngressInv, CallTypes, Enter, Exclusive
<1>2. Cardinality(leases) \in Nat
  BY <1>1, FS_CardinalityType
<1>3. Cardinality(leases) = 0
  BY <1>1, <1>2
<1> QED  BY <1>1, <1>3, FS_EmptySet

LEMMA InitEntered == FormalInit => Entered
<1> SUFFICES ASSUME FormalInit PROVE Entered
  OBVIOUS
<1>1. /\ entered = -1 /\ leases = {}
      /\ \A r \in Requests : call[r] = NoCall
      /\ \E g \in Generations : live = {g}
  BY DEF FormalInit
<1> QED  BY <1>1 DEF Entered

LEMMA EnterEntered ==
  ASSUME IngressInv, Entered, NEW r \in Requests, NEW c \in Calls, Enter(r, c)
  PROVE  Entered'
<1> DEFINE g == c.context.generation
<1>1. /\ g \in live /\ entered' = g /\ entered <= g
      /\ leases' = leases \cup {r} /\ live' = live /\ slots' = slots
  BY DEF Enter, MayEnter, sourceState
<1>2. g \in Nat
  BY CallAssumption, PlanAssumption DEF Context
<1>3. r \notin leases /\ \A q \in leases : q \in Requests /\ call[q] # NoCall
  BY EnterStep DEF IngressInv, CallTypes, Inside
<1>4. /\ call'[r] = c
      /\ \A q \in Requests \ {r} : call'[q] = call[q]
  BY EnterStep
<1>5. leases # {} => entered = g
  <2> SUFFICES ASSUME NEW p \in leases PROVE entered = g
    OBVIOUS
  <2>1. slots # 1
    BY EnterAlone DEF Exclusive
  <2>2. PICK only \in live : live = {only}
    BY <2>1 DEF Entered
  <2> QED  BY <1>1, <2>2 DEF Entered
<1>6. \A q \in leases' : Generation(q)' \in live' /\ Generation(q)' = entered'
  <2> SUFFICES ASSUME NEW q \in leases'
               PROVE  Generation(q)' \in live' /\ Generation(q)' = entered'
    OBVIOUS
  <2>1. CASE q = r
    BY <1>1, <1>4, <2>1 DEF Generation
  <2>2. CASE q # r
    <3>1. q \in leases /\ Generation(q) = entered /\ entered = g
      BY <1>1, <1>5, <2>2 DEF Entered
    <3>2. Generation(q)' = Generation(q)
      BY <1>3, <1>4, <2>2, <3>1 DEF Generation
    <3> QED  BY <1>1, <3>1, <3>2
  <2> QED  BY <2>1, <2>2
<1>7. \A q \in Requests : call'[q] # NoCall => Generation(q)' <= entered'
  <2> SUFFICES ASSUME NEW q \in Requests, call'[q] # NoCall
               PROVE  Generation(q)' <= entered'
    OBVIOUS
  <2>1. CASE q = r
    BY <1>1, <1>2, <1>4, <2>1 DEF Generation
  <2>2. CASE q # r
    <3>1. call[q] # NoCall /\ Generation(q)' = Generation(q)
      BY <1>4, <2>2 DEF Generation
    <3>2. Generation(q) \in Nat /\ Generation(q) <= entered
      BY <3>1, GenerationIsNat DEF Entered, IngressInv
    <3>3. entered \in Int
      BY DEF Entered
    <3> QED  BY <1>1, <1>2, <3>1, <3>2, <3>3
  <2> QED  BY <2>1, <2>2
<1>8. \E only \in live' : slots' # 1 => live' = {only}
  BY <1>1 DEF Entered
<1>9. Exclusive' => \A p, q \in leases' : p = q
  BY <1>1, EnterAlone DEF Exclusive
<1>10. entered' \in Nat \cup {-1}
  BY <1>1, <1>2
<1> QED  BY <1>6, <1>7, <1>8, <1>9, <1>10 DEF Entered

LEMMA NextEntered ==
  ASSUME IngressInv, Entered, [FormalNext]_formalVars
  PROVE  Entered'
<1>1. ASSUME NEW r \in Requests, Continue(r)
      PROVE  Entered'
  BY <1>1, ContinueEffect DEF Entered, Exclusive, Generation, sourceState
<1>2. ASSUME NEW r \in Requests, NEW c \in Calls, Enter(r, c)
      PROVE  Entered'
  BY <1>2, EnterEntered
<1>3. ASSUME NEW g \in Generations, ActivateGeneration(g) \/ CommitGeneration(g)
      PROVE  Entered'
  <2>1. /\ leases = {} /\ UNCHANGED <<slots, leases, entered, call>>
        /\ live' = {g} \/ (live' = live \cup {g} /\ slots = 1)
    BY <1>3, SourceStep
  <2> QED  BY <2>1 DEF Entered, Exclusive, Generation
<1>4. CASE UNCHANGED formalVars
  BY <1>4 DEF formalVars, sourceState, Entered, Exclusive, Generation
<1> QED  BY <1>1, <1>2, <1>3, <1>4 DEF FormalNext

-------------------------------------------------------------------------------
(* What is on display                                                      *)

(* A step of execute() shows the plan of its own request, or nothing new.  *)
LEMMA ShowsItsOwn ==
  ASSUME SharedInv, NEW r \in Requests, ExecuteAny(r)
  PROVE  /\ r \in Begun /\ task[r].token \in Token /\ task[r].token.request = r
         /\ pc[r] # "published"
         /\ \/ UNCHANGED <<active, current>>
            \/ /\ current' = route[r] /\ route[r].token = task[r].token
               /\ active' = task[r].token /\ pc'[r] = "published"
         /\ \/ UNCHANGED <<layeredActive, layeredCurrent>>
            \/ /\ layeredActive' = task[r].token
               /\ layeredCurrent' =
                    IF ContextChanged(layeredActive, task[r].token) THEN NoPlan
                    ELSE layeredCurrent
            \/ /\ layeredCurrent' = route[r] /\ route[r].token = task[r].token
               /\ layeredActive' = task[r].token /\ pc'[r] = "published"
<1>1. r \in Begun /\ pc[r] # "published"
  BY ExecuteEffect, LayeredLabels DEF Ended
<1>2. task[r].token \in Token /\ task[r].token.request = r
  BY <1>1, TaskToken DEF SharedInv, Carried
<1>3. \/ UNCHANGED <<active, current>>
      \/ /\ current' = route[r] /\ route[r].token = task[r].token
         /\ active' = task[r].token /\ pc'[r] = "published"
  <2>1. \/ UNCHANGED storeVars
        \/ Publish(r) /\ Swap(route[r], {LabelOf(route[r])}) /\ MayStillPublish(r)
           /\ Goto(r, "published")
    BY DEF ExecuteAny, ExecuteLayered, Execute, ActivateLayered, FindLayers,
       StopLayers, FailLayers, FinalReview, PublishSet, ReadDisplayedSet,
       FindRoutes, StopSearch, Fail, Review, ReadDisplayed, Decline, Publish
  <2> QED
    BY <2>1 DEF storeVars, Swap, MayStillPublish, MayPublish, IsCurrent, Goto,
                SharedInv, Types
<1>4. \/ UNCHANGED <<layeredActive, layeredCurrent>>
      \/ /\ layeredActive' = task[r].token
         /\ layeredCurrent' =
              IF ContextChanged(layeredActive, task[r].token) THEN NoPlan
              ELSE layeredCurrent
      \/ /\ layeredCurrent' = route[r] /\ route[r].token = task[r].token
         /\ layeredActive' = task[r].token /\ pc'[r] = "published"
  <2>1. \/ UNCHANGED layeredVars
        \/ ActivateLayered(r) /\ Layered!Activate(task[r].token)
        \/ PublishSet(r) /\ Layered!PublishPlan(route[r], {}, task[r].token)
    BY DEF ExecuteAny, ExecuteLayered, ActivateLayered, FindLayers, StopLayers,
       FailLayers, FinalReview, PublishSet, ReadDisplayedSet
  <2>2. CASE ActivateLayered(r) /\ Layered!Activate(task[r].token)
    BY <2>2, LayeredData DEF Layered!Activate
  <2>3. CASE PublishSet(r) /\ Layered!PublishPlan(route[r], {}, task[r].token)
    <3>1. pc'[r] = "published"
      BY <2>3 DEF PublishSet, Layered!PublishPlan, Goto, SharedInv, Types
    <3> QED
      BY <2>3, <3>1 DEF Layered!PublishPlan, Layered!MayPublish,
                        Layered!IsCurrent, Layered!Swap
  <2> QED  BY <2>1, <2>2, <2>3 DEF layeredVars
<1> QED  BY <1>1, <1>2, <1>3, <1>4

LEMMA NextDisplay ==
  ASSUME SharedInv, Display, [LayeredNext]_allVars
  PROVE  Display'
<1> USE DEF Display, ShownBy
<1>1. CASE UNCHANGED allVars
  BY <1>1 DEF allVars, vars, storeVars, requestVars, layeredVars, Begun
<1>2. ASSUME NEW r \in Requests, NEW t \in Task, Begin(r, t), UNCHANGED layeredVars
      PROVE  Display'
  <2>0. /\ r \notin Begun
        /\ \A q \in Begun : pc'[q] = pc[q] /\ task'[q] = task[q]
        /\ Begun \subseteq Begun'
    BY <1>2, BeginEffect DEF Begun
  <2>1. ShownBy(layeredCurrent, layeredActive)'
    BY <1>2, <2>0 DEF layeredVars
  <2>2. ShownBy(current, active)'
    <3>1. CASE UNCHANGED <<active, current>>
      BY <2>0, <3>1
    <3>2. CASE Activate(t.token)
      <4>1. /\ active' = t.token /\ t.token # NoToken
            /\ current' = IF ContextChanged(active, t.token) THEN NoPlan ELSE current
        BY <3>2, TaskToken, PlanAssumption DEF Activate
      <4> QED  BY <2>0, <4>1 DEF ContextChanged
    <3> QED  BY <1>2, <3>1, <3>2, BeginEffect DEF storeVars
  <2> QED  BY <2>1, <2>2
<1>3. ASSUME NEW r \in Requests, Cancel(r), UNCHANGED layeredVars
      PROVE  Display'
  <2>1. Begun' = Begun /\ UNCHANGED <<pc, task, active>>
    BY <1>3, CancelEffect
  <2>2. current' = current
    BY <1>3 DEF Cancel, CancelToken, storeVars
  <2> QED  BY <1>3, <2>1, <2>2 DEF layeredVars
<1>4. ASSUME NEW r \in Requests, ExecuteAny(r)
      PROVE  Display'
  <2>0. /\ Begun' = Begun /\ task' = task /\ r \in Begun
        /\ \A q \in Requests \ {r} : pc'[q] = pc[q]
        /\ task[r].token \in Token /\ task[r].token.request = r
        /\ pc[r] # "published" /\ Begun \subseteq Requests
        /\ task[r].token # NoToken
    BY <1>4, ExecuteEffect, ShowsItsOwn, PlanAssumption DEF Begun
  <2>1. ShownBy(current, active)'
    <3>1. CASE UNCHANGED <<active, current>>
      BY <2>0, <3>1
    <3>2. CASE /\ current' = route[r] /\ route[r].token = task[r].token
               /\ active' = task[r].token /\ pc'[r] = "published"
      BY <2>0, <3>2
    <3> QED  BY <1>4, <3>1, <3>2, ShowsItsOwn
  <2>2. ShownBy(layeredCurrent, layeredActive)'
    <3>1. CASE UNCHANGED <<layeredActive, layeredCurrent>>
      BY <2>0, <3>1
    <3>2. CASE /\ layeredActive' = task[r].token
               /\ layeredCurrent' =
                    IF ContextChanged(layeredActive, task[r].token) THEN NoPlan
                    ELSE layeredCurrent
      BY <2>0, <3>2 DEF ContextChanged
    <3>3. CASE /\ layeredCurrent' = route[r] /\ route[r].token = task[r].token
               /\ layeredActive' = task[r].token /\ pc'[r] = "published"
      BY <2>0, <3>3
    <3> QED  BY <1>4, <3>1, <3>2, <3>3, ShowsItsOwn
  <2> QED  BY <2>1, <2>2
<1> QED  BY <1>1, <1>2, <1>3, <1>4 DEF LayeredNext

-------------------------------------------------------------------------------
(* The baseline                                                            *)

LEMMA CallFields ==
  ASSUME CallTypes, NEW r \in Requests, call[r] # NoCall
  PROVE  /\ call[r] \in Calls /\ call[r].context \in Contexts
         /\ call[r].revision \in Nat /\ call[r].start \in Nat
         /\ call[r].risk \in Risks
BY CallAssumption, PlanAssumption DEF CallTypes

(* The observation of a call that is marked makes a baseline.              *)
LEMMA ObservedMarks ==
  ASSUME IngressInv, NEW r \in Requests, Mark(r), stage'[r] = "marked"
  PROVE  IsBaselineOf(r)'
<1> DEFINE o == Observed(r)
           b == [at |-> o.at, valid |-> o.valid, data |-> o.data,
                 commit |-> o.commit, risk |-> o.risk, event |-> o.event]
<1>1. pc[r] = "published" /\ stage[r] = "serving" /\ call' = call
  BY MarkStep
<1>2. call[r] # NoCall /\ CallTypes
  BY <1>1 DEF IngressInv, CallTypes
<1>3. /\ call[r] \in Calls /\ call[r].revision \in Nat /\ call[r].start \in Nat
      /\ call[r].risk \in Risks
  BY <1>2, CallFields
<1>4. route[r].risk \in Risks
  BY <1>1 DEF IngressInv, SharedInv, Carried, Plan
<1>5. /\ o.at = call[r].start /\ o.valid = call[r].start
      /\ o.data = call[r].revision /\ o.commit = call[r].commit
      /\ o.event = NoEvent /\ o.risk \in Risks
  BY <1>3, <1>4 DEF Observed
<1>6. baseline' = b
  BY MarkStep DEF Triggers!MarkReplanned
<1>7. b \in Triggers!Baseline
  <2> HIDE DEF o
  <2> QED  BY <1>3, <1>5 DEF Triggers!Baseline
<1>8. /\ b # NoBaseline /\ b.at = call[r].start /\ b.data = call[r].revision
      /\ b.commit = call[r].commit
  <2>1. b # NoBaseline
    BY <1>7, BaselineAssumption
  <2> HIDE DEF o
  <2> QED  BY <1>5, <2>1
<1> HIDE DEF b
<1> QED  BY <1>1, <1>6, <1>8 DEF IsBaselineOf

(* Only marking touches the baseline during a call.                        *)
LEMMA MarksOnly ==
  ASSUME IngressInv, NEW r \in Requests, Continue(r), ~Mark(r)
  PROVE  /\ UNCHANGED evaluator
         /\ stage[r] \notin Marked /\ stage'[r] \notin Marked
<1>1. CASE Validate(r)
  BY <1>1, ValidateStep DEF Marked
<1>2. CASE Evaluate(r)
  BY <1>2, EvaluateStep DEF Marked
<1>3. CASE BeginCall(r)
  BY <1>3, BeginCallBegins, BeginCallStep DEF Marked
<1>4. CASE Serve(r)
  BY <1>4, ServeStep DEF Serve, Marked
<1>5. CASE GiveBack(r)
  BY <1>5, GiveBackStep DEF GiveBack, Marked
<1> QED  BY <1>1, <1>2, <1>3, <1>4, <1>5 DEF Continue

LEMMA NextBaselineIsMarked ==
  ASSUME IngressInv, Entered, BaselineIsMarked, [FormalNext]_formalVars
  PROVE  BaselineIsMarked'
<1> USE DEF IngressInv
<1>1. ASSUME UNCHANGED <<baseline, entered, call>>,
             \A q \in Requests : stage'[q] \in Marked <=> stage[q] \in Marked,
             \A q \in Requests : stage[q] \in Marked => stage'[q] = stage[q]
      PROVE  BaselineIsMarked'
  BY <1>1 DEF BaselineIsMarked, Generation, IsBaselineOf, Marked
<1>2. ASSUME NEW r \in Requests, Continue(r), ~Mark(r)
      PROVE  BaselineIsMarked'
  <2>1. /\ UNCHANGED <<baseline, entered, call>>
        /\ stage[r] \notin Marked /\ stage'[r] \notin Marked
        /\ \A q \in Requests \ {r} : stage'[q] = stage[q]
    BY <1>2, MarksOnly, ContinueEffect DEF evaluator
  <2> QED  BY <1>1, <2>1
<1>3. ASSUME NEW r \in Requests, Mark(r)
      PROVE  BaselineIsMarked'
  <2>1. /\ UNCHANGED <<entered, call>> /\ stage[r] = "serving" /\ r \in leases
        /\ \A q \in Requests \ {r} : stage'[q] = stage[q]
    BY <1>3, MarkStep
  <2>2. CASE stage'[r] = "raised" /\ Triggers!MarksBack(Observed(r))
             /\ UNCHANGED evaluator
    <3>1. baseline' = baseline /\ baseline # NoBaseline
      BY <2>2 DEF Triggers!MarksBack, Triggers!Committed, evaluator
    <3>2. PICK q \in Requests : /\ stage[q] = "marked" /\ Generation(q) = entered
                                /\ IsBaselineOf(q)
      BY <3>1 DEF BaselineIsMarked
    <3>3. q # r /\ stage'[q] = "marked"
      BY <2>1, <3>2
    <3> QED
      BY <2>1, <3>1, <3>2, <3>3 DEF BaselineIsMarked, Generation, IsBaselineOf
  <2>3. CASE stage'[r] = "marked"
    <3>1. IsBaselineOf(r)'
      BY <1>3, <2>3, ObservedMarks
    <3>2. (Generation(r) = entered)'
      BY <2>1 DEF Entered, Generation
    <3> QED  BY <2>3, <3>1, <3>2 DEF BaselineIsMarked, IsBaselineOf
  <2> QED  BY <1>3, <2>2, <2>3, MarkStep
<1>4. ASSUME NEW r \in Requests, NEW c \in Calls, Enter(r, c)
      PROVE  BaselineIsMarked'
  <2>1. /\ stage[r] = "out" /\ stage'[r] \notin Marked /\ stage[r] \notin Marked
        /\ \A q \in Requests \ {r} : call'[q] = call[q] /\ stage'[q] = stage[q]
    BY <1>4, EnterStep DEF Inside, Marked
  <2>2. CASE entered' = entered
    <3>1. baseline' = baseline
      BY <1>4, <2>2 DEF Enter, evaluator
    <3>2. \A q \in Requests \ {r} :
            /\ Generation(q)' = Generation(q)
            /\ IsBaselineOf(q)' = IsBaselineOf(q)
      BY <2>1, <3>1 DEF Generation, IsBaselineOf
    <3> QED  BY <2>1, <2>2, <3>1, <3>2 DEF BaselineIsMarked, Marked
  <2>3. CASE entered' # entered
    <3>1. baseline' = NoBaseline /\ entered <= entered'
      BY <1>4, <2>3 DEF Enter, MayEnter
    <3>2. \A q \in Requests : stage'[q] \in Marked => Generation(q)' # entered'
      <4> SUFFICES ASSUME NEW q \in Requests, stage'[q] \in Marked
                   PROVE  Generation(q)' # entered'
        OBVIOUS
      <4>1. q # r /\ stage[q] \in Marked /\ Generation(q)' = Generation(q)
        BY <2>1 DEF Generation
      <4>2. call[q] # NoCall
        BY <4>1 DEF CallTypes, Marked
      <4>3. Generation(q) \in Nat /\ Generation(q) <= entered
        BY <4>2, GenerationIsNat DEF Entered
      <4>4. entered \in Int /\ entered' \in Int
        BY NextEntered DEF Entered
      <4> QED  BY <2>3, <3>1, <4>1, <4>3, <4>4
    <3> QED  BY <3>1, <3>2 DEF BaselineIsMarked
  <2> QED  BY <2>2, <2>3
<1>5. ASSUME NEW g \in Generations, ActivateGeneration(g) \/ CommitGeneration(g)
      PROVE  BaselineIsMarked'
  BY <1>1, <1>5, SourceStep DEF evaluator
<1>6. CASE UNCHANGED formalVars
  BY <1>1, <1>6 DEF formalVars, evaluator
<1> QED  BY <1>2, <1>3, <1>4, <1>5, <1>6 DEF FormalNext

-------------------------------------------------------------------------------
(* One call at a time                                                      *)

LEMMA NextNewestIsServed ==
  ASSUME IngressInv, Entered, NewestIsServed, [FormalNext]_formalVars
  PROVE  NewestIsServed'
<1> USE DEF IngressInv
<1>1. ASSUME UNCHANGED <<handle, ticket, slots>>,
             \A q \in Begun : stage'[q] = "serving" => stage[q] = "serving"
      PROVE  NewestIsServed'
  BY <1>1 DEF NewestIsServed, Exclusive, Begun
<1>2. ASSUME NEW r \in Requests, Validate(r) \/ Evaluate(r) \/ GiveBack(r) \/ Mark(r)
      PROVE  NewestIsServed'
  <2>1. UNCHANGED <<allVars, sourceState>>
    BY <1>2 DEF Validate, Evaluate, GiveBack, Mark
  <2>2. UNCHANGED <<handle, ticket, slots>>
    BY <2>1 DEF allVars, vars, requestVars, sourceState
  <2>3. stage'[r] # "serving" /\ \A q \in Requests \ {r} : stage'[q] = stage[q]
    BY <1>2, ValidateStep, EvaluateStep, GiveBackStep, MarkStep
  <2> QED  BY <1>1, <2>2, <2>3 DEF Begun
<1>3. ASSUME NEW r \in Requests, BeginCall(r)
      PROVE  NewestIsServed'
  <2>1. PICK t \in Task : Begin(r, t)
    BY <1>3, BeginCallBegins
  <2>2. /\ \A q \in Requests \ {r} : stage'[q] = stage[q]
        /\ r \in leases /\ slots' = slots
    BY <1>3, BeginCallBegins, BeginCallStep DEF sourceState
  <2>3. \A q \in Requests : Exclusive /\ stage[q] = "serving" => q = r
    BY <2>2 DEF Entered, CallTypes, Inside
  <2>4. \/ Begun' = Begun /\ r \notin Begun
        \/ handle' = r
    BY <2>1, BeginEffect
  <2>5. \A q \in Begun' : q \in Requests
    BY DEF Begun
  <2> QED  BY <2>2, <2>3, <2>4, <2>5 DEF NewestIsServed, Exclusive
<1>4. ASSUME NEW r \in Requests, Serve(r)
      PROVE  NewestIsServed'
  BY <1>1, <1>4, ServeStep, ExecuteEffect DEF sourceState
<1>5. ASSUME NEW r \in Requests, NEW c \in Calls, Enter(r, c)
      PROVE  NewestIsServed'
  <2>1. UNCHANGED <<handle, ticket, slots>>
    BY <1>5 DEF Enter, allVars, vars, requestVars, sourceState
  <2>2. r \notin Begun /\ \A q \in Requests \ {r} : stage'[q] = stage[q]
    BY <1>5, EnterStep
  <2> QED  BY <1>1, <2>1, <2>2 DEF Begun
<1>6. ASSUME NEW g \in Generations, ActivateGeneration(g) \/ CommitGeneration(g)
      PROVE  NewestIsServed'
  BY <1>1, <1>6, SourceStep DEF allVars, vars, requestVars
<1>7. CASE UNCHANGED formalVars
  BY <1>1, <1>7 DEF formalVars, allVars, vars, requestVars, sourceState
<1> QED
  BY <1>2, <1>3, <1>4, <1>5, <1>6, <1>7 DEF FormalNext, Continue

(* A call that was marked is a request that ended.                         *)
LEMMA SettledIsMarked ==
  ASSUME IngressInv
  PROVE  Settled = {r \in Requests : stage[r] \in Marked} /\ Settled \subseteq Begun
BY DEF IngressInv, Asked, Settled, Shown, SharedInv, Newest

LEMMA MarkFollows ==
  ASSUME IngressInv, Entered, BaselineIsMarked, NewestIsServed,
         NEW p \in Requests, Mark(p), Exclusive,
         NEW r \in Settled', Generation(r)' = entered',
         \A q \in Settled' :
           /\ ticket'[q] <= ticket'[r]
           /\ (Generation(q) = entered)' => call'[q].start <= call'[r].start
  PROVE  IsBaselineOf(r)'
<1> USE DEF IngressInv
<1>1. /\ UNCHANGED <<entered, call, ticket>> /\ stage[p] = "serving"
      /\ pc[p] = "published" /\ stage'[p] \in Marked
      /\ \A q \in Requests \ {p} : stage'[q] = stage[q]
  BY MarkStep DEF allVars, vars, requestVars, Marked
<1>2. Settled' = {q \in Requests : stage'[q] \in Marked}
  <2>1. IngressInv'
    BY MarkStep
  <2> QED  BY <2>1 DEF Asked, Settled, Shown
<1>3. p \in Begun /\ handle = p
  BY <1>1 DEF SharedInv, Newest, NewestIsServed
<1>4. r = p
  <2>1. LastTicket = ticket[p]
    BY <1>3, RequestAssumption DEF LastTicket
  <2>2. CASE r # p
    <3>1. r \in Begun
      BY <1>1, <1>2, <2>2, SettledIsMarked
    <3>2. ticket[r] < ticket[p]
      BY <1>3, <2>1, <2>2, <3>1 DEF SharedInv, Newest
    <3>3. ticket[p] <= ticket[r]
      BY <1>1, <1>2
    <3>4. ticket[p] \in Nat /\ ticket[r] \in Nat
      BY <3>1 DEF SharedInv, Types, Begun
    <3> QED  BY <3>2, <3>3, <3>4
  <2> QED  BY <2>2
<1>5. CASE stage'[p] = "marked"
  BY <1>4, <1>5, ObservedMarks
<1>6. CASE stage'[p] = "raised" /\ Triggers!MarksBack(Observed(p))
  <2>1. baseline # NoBaseline /\ call[p].start < baseline.at
    BY <1>6 DEF Triggers!MarksBack, Triggers!Committed, Observed
  <2>2. PICK q \in Requests : /\ stage[q] = "marked" /\ Generation(q) = entered
                              /\ baseline.at = call[q].start
    BY <2>1 DEF BaselineIsMarked, IsBaselineOf
  <2>3. q \in Settled' /\ (Generation(q) = entered)'
    BY <1>1, <1>2, <2>2 DEF Marked, Generation
  <2>4. call[q].start <= call[p].start
    BY <1>1, <1>4, <2>3
  <2>5. call[q].start \in Nat /\ call[p].start \in Nat
    BY <1>1, <2>2, CallFields DEF CallTypes
  <2> QED  BY <2>1, <2>2, <2>4, <2>5
<1> QED  BY <1>5, <1>6, MarkStep

LEMMA ContinueTickets ==
  ASSUME IngressInv, NEW r \in Requests, Continue(r)
  PROVE  \A q \in Requests \ {r} : ticket'[q] = ticket[q]
<1>1. CASE Validate(r) \/ Evaluate(r) \/ GiveBack(r) \/ Mark(r)
  <2>1. UNCHANGED allVars
    BY <1>1 DEF Validate, Evaluate, GiveBack, Mark
  <2> QED  BY <2>1 DEF allVars, vars, requestVars
<1>2. CASE BeginCall(r)
  <2>1. PICK t \in Task : Begin(r, t)
    BY <1>2, BeginCallBegins
  <2> QED  BY <2>1, BeginEffect DEF IngressInv
<1>3. CASE Serve(r)
  BY <1>3, ServeStep, ExecuteEffect DEF IngressInv
<1> QED  BY <1>1, <1>2, <1>3 DEF Continue

LEMMA NextBaselineFollows ==
  ASSUME IngressInv, Entered, BaselineIsMarked, NewestIsServed, BaselineFollows,
         [FormalNext]_formalVars
  PROVE  BaselineFollows'
<1> USE DEF IngressInv
<1>0. /\ Settled = {q \in Requests : stage[q] \in Marked}
      /\ Settled' = {q \in Requests : stage'[q] \in Marked}
  <2>1. IngressInv'
    BY NextIngressInv
  <2> QED  BY <2>1 DEF Asked, Settled, Shown
<1>1. ASSUME UNCHANGED <<baseline, entered, call, slots>>, Settled' = Settled,
             \A q \in Settled : ticket'[q] = ticket[q]
      PROVE  BaselineFollows'
  <2>1. \A q \in Settled : IsBaselineOf(q)' = IsBaselineOf(q)
    BY <1>1 DEF IsBaselineOf
  <2>2. \A q \in Settled : (Generation(q) = entered)' = (Generation(q) = entered)
    BY <1>1 DEF Generation
  <2> QED  BY <1>1, <2>1, <2>2 DEF BaselineFollows, Exclusive
<1>2. ASSUME NEW r \in Requests, Continue(r), ~Mark(r)
      PROVE  BaselineFollows'
  <2>1. /\ UNCHANGED <<baseline, entered, call, slots>>
        /\ stage[r] \notin Marked /\ stage'[r] \notin Marked
        /\ \A q \in Requests \ {r} : stage'[q] = stage[q] /\ ticket'[q] = ticket[q]
    BY <1>2, MarksOnly, ContinueEffect, ContinueTickets DEF evaluator, sourceState
  <2> QED  BY <1>0, <1>1, <2>1
<1>3. ASSUME NEW p \in Requests, Mark(p)
      PROVE  BaselineFollows'
  <2>1. slots' = slots
    BY <1>3, MarkStep DEF sourceState
  <2> QED  BY <1>3, <2>1, MarkFollows DEF BaselineFollows, Exclusive
<1>4. ASSUME NEW r \in Requests, NEW c \in Calls, Enter(r, c)
      PROVE  BaselineFollows'
  <2>1. /\ stage[r] \notin Marked /\ stage'[r] \notin Marked
        /\ \A q \in Requests \ {r} : call'[q] = call[q] /\ stage'[q] = stage[q]
        /\ ticket' = ticket /\ slots' = slots
    BY <1>4, EnterStep DEF Enter, Inside, Marked, allVars, vars, requestVars,
                           sourceState
  <2>2. Settled' = Settled /\ r \notin Settled
    BY <1>0, <2>1
  <2>3. \A q \in Settled : call'[q] = call[q] /\ Generation(q)' = Generation(q)
    BY <1>0, <2>1, <2>2 DEF Generation
  <2>4. CASE entered' = entered
    <3>1. baseline' = baseline
      BY <1>4, <2>4 DEF Enter, evaluator
    <3>2. \A q \in Settled : IsBaselineOf(q)' = IsBaselineOf(q)
      BY <2>3, <3>1 DEF IsBaselineOf
    <3> QED  BY <2>1, <2>2, <2>3, <2>4, <3>2 DEF BaselineFollows, Exclusive
  <2>5. CASE entered' # entered
    <3>1. \A q \in Settled' : Generation(q)' # entered'
      <4> SUFFICES ASSUME NEW q \in Settled' PROVE Generation(q)' # entered'
        OBVIOUS
      <4>1. /\ q \in Requests /\ stage[q] \in Marked
            /\ Generation(q)' = Generation(q)
        BY <1>0, <2>2, <2>3
      <4>2. call[q] # NoCall
        BY <4>1 DEF CallTypes, Marked
      <4>3. Generation(q) \in Nat /\ Generation(q) <= entered
        BY <4>1, <4>2, GenerationIsNat DEF Entered
      <4>4. entered \in Int /\ entered' \in Int
        BY NextEntered DEF Entered
      <4>5. entered <= entered'
        BY <1>4 DEF Enter, MayEnter
      <4> QED  BY <2>5, <4>1, <4>3, <4>4, <4>5
    <3> QED  BY <3>1 DEF BaselineFollows
  <2> QED  BY <2>4, <2>5
<1>5. ASSUME NEW g \in Generations, ActivateGeneration(g) \/ CommitGeneration(g)
      PROVE  BaselineFollows'
  BY <1>0, <1>1, <1>5, SourceStep DEF evaluator, allVars, vars, requestVars
<1>6. CASE UNCHANGED formalVars
  BY <1>0, <1>1, <1>6 DEF formalVars, evaluator, sourceState, allVars, vars,
                          requestVars
<1> QED  BY <1>2, <1>3, <1>4, <1>5, <1>6 DEF FormalNext

-------------------------------------------------------------------------------
(* What a replanning was validated against                                 *)

(* In one run, contexts are told apart by their generations.               *)
LEMMA SameGeneration ==
  ASSUME NEW c \in Contexts, NEW d \in Contexts, c.generation = d.generation
  PROVE  c = d
<1>1. c \in Context /\ d \in Context
  BY PlanAssumption
<1>2. c.run = d.run /\ c.scenario = d.scenario /\ c.digest = d.digest
  BY CallAssumption
<1> QED  BY <1>1, <1>2 DEF Context

LEMMA BegunContext ==
  ASSUME SharedInv, NEW q \in Begun
  PROVE  task[q].token.context \in Contexts
BY TaskToken DEF SharedInv, Carried, Token

LEMMA AskedContext ==
  ASSUME Asked, NEW q \in Begun
  PROVE  task[q].token.context = call[q].context
<1>1. task[q].token = [context |-> call[q].context, revision |-> call[q].revision,
                      request |-> q]
  BY DEF Asked
<1> QED  BY <1>1

(* What D sees for a call is the plan of a published request of its        *)
(* session, and the store is fenced to that session.                       *)
LEMMA LatestIsPublished ==
  ASSUME SharedInv, Display, NEW r \in Requests, call[r].context \in Contexts,
         LatestFor(r) # NoPlan
  PROVE  /\ \E q \in Begun : /\ pc[q] = "published"
                             /\ LatestFor(r).token = task[q].token
                             /\ task[q].token.context = call[r].context
         /\ IF r \in LayeredRequests
            THEN /\ LatestFor(r) = layeredCurrent /\ layeredActive # NoToken
                 /\ layeredActive.context = call[r].context
            ELSE /\ LatestFor(r) = current /\ active # NoToken
                 /\ active.context = call[r].context
<1>1. CASE r \in LayeredRequests
  <2>1. /\ LatestFor(r) = layeredCurrent /\ layeredActive # NoToken
        /\ layeredActive.context.generation = call[r].context.generation
    BY <1>1 DEF LatestFor, Layered!SnapshotCurrent
  <2> DEFINE q == layeredCurrent.token.request
  <2>2. /\ q \in Begun /\ pc[q] = "published" /\ layeredCurrent.token = task[q].token
        /\ layeredActive.context = task[q].token.context
    BY <2>1 DEF Display, ShownBy
  <2>3. layeredActive.context = call[r].context
    BY <2>1, <2>2, BegunContext, SameGeneration
  <2> QED  BY <1>1, <2>1, <2>2, <2>3
<1>2. CASE r \notin LayeredRequests
  <2>1. /\ LatestFor(r) = current /\ active # NoToken
        /\ active.context.generation = call[r].context.generation
    BY <1>2 DEF LatestFor, SnapshotCurrent
  <2> DEFINE q == current.token.request
  <2>2. /\ q \in Begun /\ pc[q] = "published" /\ current.token = task[q].token
        /\ active.context = task[q].token.context
    BY <2>1 DEF Display, ShownBy
  <2>3. active.context = call[r].context
    BY <2>1, <2>2, BegunContext, SameGeneration
  <2> QED  BY <1>2, <2>1, <2>2, <2>3
<1> QED  BY <1>1, <1>2

(* A store that is fenced to another request of the same session goes on   *)
(* showing what it shows.                                                  *)
LEMMA LatestIsKept ==
  ASSUME IngressInv, Display, NEW r \in Requests, call[r] # NoCall, call' = call,
         LatestFor(r) # NoPlan,
         NEW token \in Token, token.context = call[r].context,
         r \notin LayeredRequests =>
           \/ UNCHANGED <<active, current>>
           \/ /\ active' = token
              /\ current' = IF ContextChanged(active, token) THEN NoPlan ELSE current,
         r \in LayeredRequests =>
           \/ UNCHANGED <<layeredActive, layeredCurrent>>
           \/ /\ layeredActive' = token
              /\ layeredCurrent' = IF ContextChanged(layeredActive, token) THEN NoPlan
                                   ELSE layeredCurrent
  PROVE  LatestFor(r)' = LatestFor(r)
<1>1. call[r].context \in Contexts
  BY CallFields DEF IngressInv
<1>2. token # NoToken
  BY PlanAssumption
<1>3. CASE r \in LayeredRequests
  <2>1. /\ LatestFor(r) = layeredCurrent /\ layeredActive # NoToken
        /\ layeredActive.context = call[r].context
    BY <1>1, <1>3, LatestIsPublished DEF IngressInv
  <2>2. /\ layeredCurrent' = layeredCurrent /\ layeredActive' # NoToken
        /\ layeredActive'.context = call'[r].context
    BY <1>2, <1>3, <2>1 DEF ContextChanged
  <2> QED  BY <1>3, <2>1, <2>2 DEF LatestFor, Layered!SnapshotCurrent
<1>4. CASE r \notin LayeredRequests
  <2>1. /\ LatestFor(r) = current /\ active # NoToken
        /\ active.context = call[r].context
    BY <1>1, <1>4, LatestIsPublished DEF IngressInv
  <2>2. /\ current' = current /\ active' # NoToken
        /\ active'.context = call'[r].context
    BY <1>2, <1>4, <2>1 DEF ContextChanged
  <2> QED  BY <1>4, <2>1, <2>2 DEF LatestFor, SnapshotCurrent
<1> QED  BY <1>3, <1>4

LEMMA LatestUnchanged ==
  ASSUME NEW r \in Requests, UNCHANGED <<allVars, call>>
  PROVE  LatestFor(r)' = LatestFor(r)
BY DEF LatestFor, SnapshotCurrent, Layered!SnapshotCurrent, allVars, vars, storeVars,
       layeredVars

LEMMA NewerIsKept ==
  ASSUME NEW r \in Requests, call' = call, LatestFor(r)' = LatestFor(r),
         NewerThanDisplayed(r)
  PROVE  NewerThanDisplayed(r)'
BY DEF NewerThanDisplayed

(* Alone under its lease, a replanning is validated against a plan that    *)
(* was marked.                                                             *)
LEMMA ValidatedBaseline ==
  ASSUME IngressInv, Entered, Display, BaselineIsMarked, Exclusive,
         NEW r \in Requests, Validate(r), NewerThanDisplayed(r)
  PROVE  baseline # NoBaseline
<1> USE DEF IngressInv
<1>1. stage[r] = "entered"
  BY DEF Validate
<1>2. r \in leases /\ call[r] # NoCall
  BY <1>1 DEF CallTypes, Inside
<1>3. call[r].context \in Contexts
  BY <1>2, CallFields
<1>4. PICK q \in Begun : pc[q] = "published" /\ task[q].token.context = call[r].context
  BY <1>3, LatestIsPublished DEF NewerThanDisplayed
<1>5. q \in Requests /\ Generation(q) = Generation(r)
  BY <1>4, AskedContext DEF Begun, Generation
<1>6. stage[q] \in {"serving"} \cup Marked
  BY <1>4, <1>5 DEF Asked
<1>7. stage[q] # "serving"
  BY <1>1, <1>2, <1>5 DEF CallTypes, Inside, Entered
<1> QED  BY <1>2, <1>5, <1>6, <1>7 DEF Entered, BaselineIsMarked

LEMMA ContinueValidated ==
  ASSUME IngressInv, Entered, Display, BaselineIsMarked, Validated,
         NEW r \in Requests, Continue(r)
  PROVE  Validated'
<1> USE DEF IngressInv
<1>1. /\ r \in leases /\ leases' \subseteq leases /\ UNCHANGED <<call, slots>>
      /\ IngressInv'
      /\ \A q \in Requests \ {r} : stage'[q] = stage[q]
  BY ContinueEffect, NextIngressInv DEF sourceState, FormalNext
<1> SUFFICES ASSUME Exclusive
             PROVE /\ stage'[r] = "validated" => baseline' # NoBaseline
                   /\ /\ stage'[r] \in {"validated", "triggered", "serving"}
                      /\ call'[r].replan /\ pc'[r] \notin Ended
                      => NewerThanDisplayed(r)'
  <2>1. \A q \in Requests \ {r} : Exclusive => stage'[q] \notin Inside
    BY <1>1 DEF Entered, CallTypes
  <2>2. \A x \in {"validated", "triggered", "serving"} : x \in Inside
    BY DEF Inside
  <2>3. Exclusive' = Exclusive
    BY <1>1 DEF Exclusive
  <2>4. "validated" \in {"validated", "triggered", "serving"}
    OBVIOUS
  <2> QED  BY <2>1, <2>2, <2>3, <2>4 DEF Validated
<1>2. call[r] # NoCall
  BY <1>1 DEF CallTypes, Inside
<1>3. CASE Validate(r)
  <2>1. /\ UNCHANGED <<allVars, evaluator, call>>
        /\ \/ stage'[r] = "validated" /\ NewerThanDisplayed(r)
           \/ stage'[r] = "invalid"
    BY <1>3, ValidateStep
  <2>2. CASE stage'[r] = "validated" /\ NewerThanDisplayed(r)
    <3>1. baseline' # NoBaseline
      BY <1>3, <2>1, <2>2, ValidatedBaseline DEF evaluator
    <3>2. NewerThanDisplayed(r)'
      BY <2>1, <2>2, LatestUnchanged, NewerIsKept
    <3> QED  BY <3>1, <3>2
  <2>3. CASE stage'[r] = "invalid"
    BY <2>3
  <2> QED  BY <2>1, <2>2, <2>3
<1>4. CASE Evaluate(r)
  <2>1. /\ UNCHANGED <<allVars, call>> /\ stage[r] = "validated"
        /\ stage'[r] # "validated"
    BY <1>4, EvaluateStep
  <2>2. pc' = pc
    BY <2>1 DEF allVars, vars, requestVars
  <2>3. call[r].replan /\ pc[r] \notin Ended => NewerThanDisplayed(r)'
    BY <2>1, LatestUnchanged, NewerIsKept DEF Validated
  <2> QED  BY <2>1, <2>2, <2>3
<1>5. CASE BeginCall(r)
  <2>1. PICK t \in Task : /\ Begin(r, t) /\ t.token.context = call[r].context
    <3>1. PICK t \in Task :
            /\ Begin(r, t)
            /\ t.token = [context |-> call[r].context, revision |-> call[r].revision,
                          request |-> r]
      BY <1>5, BeginCallBegins
    <3>2. t.token.context = call[r].context
      BY <3>1
    <3> QED  BY <3>1, <3>2
  <2>2. /\ stage[r] = "triggered" /\ stage'[r] = "serving" /\ UNCHANGED layeredVars
    BY <1>5, BeginCallBegins, BeginCallStep
  <2>3. SUFFICES ASSUME call[r].replan, pc'[r] \notin Ended
                 PROVE  NewerThanDisplayed(r)'
    BY <1>1, <2>2
  <2>4. pc[r] = "idle" /\ Activate(t.token)
    BY <2>1, <2>3, BeginEffect DEF Ended
  <2>5. NewerThanDisplayed(r) /\ LatestFor(r) # NoPlan
    BY <2>2, <2>3, <2>4 DEF Validated, Ended, NewerThanDisplayed
  <2>6. t.token \in Token
    BY TaskToken
  <2>7. /\ active' = t.token
        /\ current' = IF ContextChanged(active, t.token) THEN NoPlan ELSE current
    BY <2>4 DEF Activate
  <2>8. LatestFor(r)' = LatestFor(r)
    BY <1>1, <1>2, <2>1, <2>2, <2>5, <2>6, <2>7, LatestIsKept DEF layeredVars
  <2> QED  BY <1>1, <2>5, <2>8, NewerIsKept
<1>6. CASE Serve(r)
  <2>1. stage[r] = "serving" /\ stage' = stage /\ ExecuteAny(r)
    BY <1>6, ServeStep DEF Serve
  <2>2. SUFFICES ASSUME call[r].replan, pc'[r] \notin Ended
                 PROVE  NewerThanDisplayed(r)'
    BY <1>1, <2>1
  <2>3. NewerThanDisplayed(r) /\ LatestFor(r) # NoPlan
    BY <2>1, <2>2, LayeredLabels DEF Validated, NewerThanDisplayed
  <2>4. r \in Begun /\ task[r].token \in Token
    BY <2>1, ShowsItsOwn
  <2>5. task[r].token.context = call[r].context
    BY <2>4, AskedContext
  <2>6. /\ UNCHANGED <<active, current>>
        /\ \/ UNCHANGED <<layeredActive, layeredCurrent>>
           \/ /\ layeredActive' = task[r].token
              /\ layeredCurrent' =
                   IF ContextChanged(layeredActive, task[r].token) THEN NoPlan
                   ELSE layeredCurrent
    BY <2>1, <2>2, ShowsItsOwn DEF Ended
  <2>7. LatestFor(r)' = LatestFor(r)
    BY <1>1, <1>2, <2>3, <2>4, <2>5, <2>6, LatestIsKept
  <2> QED  BY <1>1, <2>3, <2>7, NewerIsKept
<1>7. CASE GiveBack(r) \/ Mark(r)
  <2>1. stage'[r] \in {"ended", "raised", "marked"}
    BY <1>7, GiveBackStep, MarkStep
  <2> QED  BY <2>1
<1> QED  BY <1>3, <1>4, <1>5, <1>6, <1>7 DEF Continue

LEMMA NextValidated ==
  ASSUME IngressInv, Entered, Display, BaselineIsMarked, Validated,
         [FormalNext]_formalVars
  PROVE  Validated'
<1> USE DEF IngressInv
<1>1. ASSUME UNCHANGED <<allVars, baseline, call, slots, stage>>
      PROVE  Validated'
  <2>1. \A r \in Requests : NewerThanDisplayed(r) => NewerThanDisplayed(r)'
    BY <1>1, LatestUnchanged, NewerIsKept
  <2>2. pc' = pc
    BY <1>1 DEF allVars, vars, requestVars
  <2> QED  BY <1>1, <2>1, <2>2 DEF Validated, Exclusive
<1>2. ASSUME NEW r \in Requests, NEW c \in Calls, Enter(r, c)
      PROVE  Validated'
  <2>1. /\ stage'[r] = IF c.replan THEN "entered" ELSE "triggered"
        /\ call'[r] = c /\ slots' = slots
        /\ \A q \in Requests \ {r} : stage'[q] = stage[q]
    BY <1>2, EnterStep DEF Enter, CallTypes, sourceState
  <2>2. Exclusive => \A q \in Requests : stage[q] \notin Inside
    BY <1>2, EnterAlone DEF CallTypes
  <2>3. \A x \in {"validated", "triggered", "serving"} : x \in Inside
    BY DEF Inside
  <2>4. Exclusive' = Exclusive
    BY <2>1 DEF Exclusive
  <2>5. \A q \in Requests \ {r} :
          Exclusive => stage'[q] \notin {"validated", "triggered", "serving"}
    BY <2>1, <2>2, <2>3
  <2>6. /\ stage'[r] # "validated"
        /\ stage'[r] \in {"validated", "triggered", "serving"} => ~call'[r].replan
    BY <2>1
  <2> QED  BY <2>4, <2>5, <2>6 DEF Validated
<1>3. ASSUME NEW g \in Generations, ActivateGeneration(g) \/ CommitGeneration(g)
      PROVE  Validated'
  BY <1>1, <1>3, SourceStep DEF evaluator
<1>4. CASE UNCHANGED formalVars
  BY <1>1, <1>4 DEF formalVars, evaluator, sourceState
<1> QED  BY <1>2, <1>3, <1>4, ContinueValidated DEF FormalNext

-------------------------------------------------------------------------------
(* What the ingress guarantees                                             *)

FormalInv ==
  /\ IngressInv /\ Entered /\ Display
  /\ BaselineIsMarked /\ Validated /\ NewestIsServed /\ BaselineFollows

LEMMA InitFormalInv == FormalInit => FormalInv
<1> SUFFICES ASSUME FormalInit PROVE FormalInv
  OBVIOUS
<1>1. /\ baseline = NoBaseline /\ stage = [r \in Requests |-> "out"]
      /\ current = NoPlan /\ layeredCurrent = NoPlan
      /\ \A r \in Requests : stage[r] = "out"
  BY DEF FormalInit, LayeredInit, Init, StoreInit, Layered!StoreInit
<1>2. Display
  BY <1>1 DEF Display, ShownBy
<1>3. BaselineIsMarked /\ Validated /\ NewestIsServed
  BY <1>1 DEF BaselineIsMarked, Validated, NewestIsServed, Marked, Begun
<1>4. BaselineFollows
  BY <1>1 DEF BaselineFollows, Settled, Shown, Marked
<1> QED  BY <1>2, <1>3, <1>4, InitIngressInv, InitEntered DEF FormalInv

LEMMA NextFormalInv ==
  ASSUME FormalInv, [FormalNext]_formalVars
  PROVE  FormalInv'
<1> USE DEF FormalInv
<1>1. IngressInv' /\ [LayeredNext]_allVars
  BY NextIngressInv
<1>2. Display'
  BY <1>1, NextDisplay DEF IngressInv
<1> QED
  BY <1>1, <1>2, NextEntered, NextBaselineIsMarked, NextValidated,
     NextNewestIsServed, NextBaselineFollows

LEMMA FormalInvariant == FormalSpec => []FormalInv
<1>1. FormalInit => FormalInv
  BY InitFormalInv
<1>2. FormalInv /\ [FormalNext]_formalVars => FormalInv'
  BY NextFormalInv
<1> QED  BY <1>1, <1>2, PTL DEF FormalSpec

(* What the triggers compare with was shown, in the generation of the      *)
(* session, however the calls of the two services overlap.                 *)
THEOREM BaselinesWereShown == FormalSpec => []BaselineWasShown
<1>1. FormalInv => BaselineWasShown
  <2> SUFFICES ASSUME FormalInv, baseline # NoBaseline
               PROVE  \E r \in Shown : /\ Generation(r) = entered
                                       /\ baseline.at = call[r].start
                                       /\ baseline.data = call[r].revision
    BY DEF BaselineWasShown
  <2>1. PICK r \in Requests : /\ stage[r] = "marked" /\ Generation(r) = entered
                              /\ IsBaselineOf(r)
    BY DEF FormalInv, BaselineIsMarked
  <2>2. r \in Shown
    BY <2>1 DEF FormalInv, IngressInv, Asked, Marked, Shown
  <2> QED  BY <2>1, <2>2 DEF IsBaselineOf
<1> QED  BY <1>1, FormalInvariant, PTL

(* One call at a time: when none is under way, the baseline is that of the *)
(* last plan shown, though publishing and marking are two steps and the    *)
(* second may raise.                                                       *)
THEOREM BaselinesFollowDisplay == FormalSpec => []BaselineFollowsDisplay
<1>1. FormalInv => BaselineFollowsDisplay
  <2> SUFFICES ASSUME FormalInv, Exclusive, leases = {}
               PROVE  BaselineFollowsDisplay
    BY DEF BaselineFollowsDisplay
  <2>1. ASSUME NEW r \in Shown PROVE stage[r] \in Marked
    <3>1. r \in Requests /\ pc[r] = "published"
      BY <2>1 DEF Shown
    <3>2. stage[r] \in {"serving", "ended"} \cup Marked /\ stage[r] # "ended"
      BY <3>1 DEF FormalInv, IngressInv, Asked
    <3>3. stage[r] # "serving"
      BY <3>1 DEF FormalInv, IngressInv, CallTypes, Inside
    <3> QED  BY <3>2, <3>3
  <2>2. Settled = Shown
    BY <2>1 DEF Settled
  <2> QED  BY <2>2 DEF FormalInv, BaselineFollows, BaselineFollowsDisplay, IsBaselineOf
<1> QED  BY <1>1, FormalInvariant, PTL

(* Every step keeps the calls that have entered, and what was published.   *)
LEMMA ShownStays ==
  ASSUME IngressInv, [FormalNext]_formalVars
  PROVE  /\ \A q \in Requests : call[q] # NoCall => call'[q] = call[q]
         /\ \A q \in Shown : q \in Shown' /\ call[q] # NoCall
<1> USE DEF IngressInv
<1>1. \A q \in Shown : q \in Requests /\ pc[q] = "published" /\ call[q] # NoCall
  BY DEF Shown, Asked, CallTypes, Marked
<1>2. \A q \in Requests : pc[q] = "published" => pc'[q] = "published"
  <2>1. CASE UNCHANGED allVars
    BY <2>1 DEF allVars, vars, requestVars
  <2>2. ASSUME NEW r \in Requests, NEW t \in Task, Begin(r, t)
        PROVE  \A q \in Requests : pc[q] = "published" => pc'[q] = "published"
    BY <2>2, BeginEffect
  <2>3. ASSUME NEW r \in Requests, Cancel(r)
        PROVE  \A q \in Requests : pc[q] = "published" => pc'[q] = "published"
    BY <2>3, CancelEffect
  <2>4. ASSUME NEW r \in Requests, ExecuteAny(r)
        PROVE  \A q \in Requests : pc[q] = "published" => pc'[q] = "published"
    BY <2>4, ExecuteEffect, ShowsItsOwn
  <2> QED  BY <2>1, <2>2, <2>3, <2>4, NextIngressInv DEF LayeredNext
<1>3. \A q \in Requests : call[q] # NoCall => call'[q] = call[q]
  <2>1. ASSUME NEW r \in Requests, Continue(r)
        PROVE  call' = call
    BY <2>1, ContinueEffect
  <2>2. ASSUME NEW r \in Requests, NEW c \in Calls, Enter(r, c)
        PROVE  \A q \in Requests : call[q] # NoCall => call'[q] = call[q]
    BY <2>2, EnterStep DEF CallTypes
  <2>3. ASSUME NEW g \in Generations, ActivateGeneration(g) \/ CommitGeneration(g)
        PROVE  call' = call
    BY <2>3, SourceStep
  <2>4. CASE UNCHANGED formalVars
    BY <2>4 DEF formalVars
  <2> QED  BY <2>1, <2>2, <2>3, <2>4 DEF FormalNext
<1> QED  BY <1>1, <1>2, <1>3 DEF Shown

(* With no reason to replan there is a baseline with the data of the call. *)
LEMMA NothingHasBaseline ==
  ASSUME FormalInv, Exclusive, NEW r \in Requests, Evaluate(r),
         Triggers!Answer(Observed(r)) = "nothing"
  PROVE  \E q \in Shown : /\ Generation(q) = Generation(r)
                          /\ call[q].revision >= call[r].revision
<1> USE DEF FormalInv, IngressInv
<1>1. stage[r] = "validated"
  BY EvaluateStep
<1>2. r \in leases /\ call[r] # NoCall /\ baseline # NoBaseline
  BY <1>1 DEF CallTypes, Inside, Validated
<1>3. PICK q \in Requests : /\ stage[q] = "marked" /\ Generation(q) = entered
                            /\ IsBaselineOf(q)
  BY <1>2 DEF BaselineIsMarked
<1>4. q \in Shown /\ call[q] # NoCall
  BY <1>3 DEF Asked, Marked, Shown, CallTypes
<1>5. Generation(q) = Generation(r)
  BY <1>2, <1>3 DEF Entered
<1>6. ~Triggers!DataCalls(Observed(r))
  <2>1. "DATA" \notin Triggers!ReasonsFor(Observed(r))
    BY Answers
  <2> QED  BY <2>1 DEF Triggers!ReasonsFor
<1>7. ~(call[r].revision > baseline.data)
  <2>1. Observed(r).data = call[r].revision
    BY DEF Observed
  <2> QED  BY <1>2, <1>6, <2>1 DEF Triggers!DataCalls, Triggers!Committed
<1>8. baseline.data = call[q].revision
  BY <1>3 DEF IsBaselineOf
<1>9. call[q].revision \in Nat /\ call[r].revision \in Nat
  BY <1>2, <1>4, CallFields
<1>10. call[q].revision >= call[r].revision
  BY <1>7, <1>8, <1>9
<1> QED  BY <1>4, <1>5, <1>10

LEMMA NextNothing ==
  ASSUME FormalInv, NothingIsShown, [FormalNext]_formalVars
  PROVE  NothingIsShown'
<1> USE DEF FormalInv
<1> DEFINE Covered(r) == \E q \in Shown : /\ Generation(q) = Generation(r)
                                          /\ call[q].revision >= call[r].revision
<1>1. ASSUME NEW r \in Requests, call[r] # NoCall, Covered(r)
      PROVE  Covered(r)'
  <2>1. PICK q \in Shown : /\ Generation(q) = Generation(r)
                           /\ call[q].revision >= call[r].revision
    BY <1>1
  <2>2. q \in Shown' /\ call'[q] = call[q] /\ call'[r] = call[r]
    BY <1>1, ShownStays DEF Shown
  <2> QED  BY <2>1, <2>2 DEF Generation
<1>2. ASSUME NEW r \in Requests, stage[r] = "nothing", Exclusive
      PROVE  Covered(r)'
  <2>1. call[r] # NoCall
    BY <1>2 DEF IngressInv, CallTypes
  <2> QED  BY <1>1, <1>2, <2>1 DEF NothingIsShown
<1> HIDE DEF Covered
<1>3. slots' = slots
  <2>1. ASSUME NEW r \in Requests, Continue(r)
        PROVE  slots' = slots
    BY <2>1, ContinueEffect DEF sourceState
  <2>2. ASSUME NEW r \in Requests, NEW c \in Calls, Enter(r, c)
        PROVE  slots' = slots
    BY <2>2 DEF Enter, sourceState
  <2>3. ASSUME NEW g \in Generations, ActivateGeneration(g) \/ CommitGeneration(g)
        PROVE  slots' = slots
    BY <2>3, SourceStep
  <2>4. CASE UNCHANGED formalVars
    BY <2>4 DEF formalVars, sourceState
  <2> QED  BY <2>1, <2>2, <2>3, <2>4 DEF FormalNext
<1>4. ASSUME NEW r \in Requests, stage'[r] = "nothing", stage[r] # "nothing", Exclusive
      PROVE  Covered(r)'
  <2>1. ASSUME NEW q \in Requests, NEW c \in Calls, Enter(q, c)
        PROVE  FALSE
    BY <1>4, <2>1, EnterStep DEF Inside
  <2>2. ASSUME NEW g \in Generations, ActivateGeneration(g) \/ CommitGeneration(g)
        PROVE  FALSE
    BY <1>4, <2>2, SourceStep
  <2>3. ASSUME NEW q \in Requests, Continue(q)
        PROVE  Continue(r)
    BY <1>4, <2>3, ContinueEffect
  <2>4. Continue(r)
    BY <1>4, <2>1, <2>2, <2>3 DEF FormalNext, formalVars
  <2>5. Evaluate(r) /\ Triggers!Answer(Observed(r)) = "nothing"
    BY <1>4, <2>4, ValidateStep, EvaluateStep, BeginCallStep, ServeStep,
       GiveBackStep, MarkStep DEF Continue
  <2>6. Covered(r)
    BY <1>4, <2>5, NothingHasBaseline DEF Covered
  <2>7. call[r] # NoCall
    BY <2>5 DEF Evaluate, IngressInv, CallTypes
  <2> QED  BY <1>1, <2>6, <2>7
<1>5. Exclusive => \A r \in Requests : stage'[r] = "nothing" => Covered(r)'
  BY <1>2, <1>4
<1> QED  BY <1>3, <1>5 DEF NothingIsShown, Exclusive, Covered

(* One call at a time: a formal replanning that is not triggered for want  *)
(* of a reason has its data on display already.                            *)
THEOREM NothingMeansShown == FormalSpec => []NothingIsShown
<1>1. FormalInit => NothingIsShown
  BY DEF FormalInit, NothingIsShown
<1>2. FormalInv /\ NothingIsShown /\ [FormalNext]_formalVars => NothingIsShown'
  BY NextNothing
<1> QED  BY <1>1, <1>2, FormalInvariant, PTL DEF FormalSpec

(* One call at a time: what a formal replanning replaces is of an older    *)
(* revision, as it was when the call was validated.                        *)
THEOREM ReplansReplaceOlder == FormalSpec => ReplacesOlder
<1>1. FormalInv /\ [FormalNext]_formalVars =>
        [ \A r \in Requests :
            /\ Exclusive /\ call[r] # NoCall /\ call[r].replan
            /\ pc[r] # "published" /\ pc'[r] = "published"
            => LatestFor(r) # NoPlan /\ LatestFor(r).token.revision < call[r].revision
        ]_formalVars
  <2> SUFFICES ASSUME FormalInv, FormalNext, NEW r \in Requests, Exclusive,
                      call[r].replan, pc[r] # "published", pc'[r] = "published"
               PROVE  LatestFor(r) # NoPlan
                      /\ LatestFor(r).token.revision < call[r].revision
    OBVIOUS
  <2> USE DEF FormalInv
  <2>1. ~UNCHANGED allVars
    BY DEF allVars, vars, requestVars
  <2>2. Continue(r)
    <3>1. ASSUME NEW q \in Requests, Continue(q) PROVE q = r
      BY <3>1, ContinueEffect
    <3> QED  BY <2>1, <3>1 DEF FormalNext, Enter, ActivateGeneration, CommitGeneration
  <2>3. ~BeginCall(r)
    <3> SUFFICES ASSUME BeginCall(r) PROVE FALSE
      OBVIOUS
    <3>1. PICK t \in Task : Begin(r, t)
      BY BeginCallBegins
    <3> QED  BY <3>1, BeginEffect DEF IngressInv
  <2>4. Serve(r)
    BY <2>1, <2>2, <2>3 DEF Continue, Validate, Evaluate, GiveBack, Mark
  <2>5. stage[r] = "serving" /\ ExecuteAny(r)
    BY <2>4 DEF Serve
  <2>6. pc[r] \notin Ended
    BY <2>5, LayeredLabels DEF IngressInv
  <2>7. NewerThanDisplayed(r)
    BY <2>5, <2>6 DEF Validated
  <2>8. call[r].revision \in Nat /\ LatestFor(r) # NoPlan
        /\ call[r].revision > LatestFor(r).token.revision
    BY <2>5, <2>7, CallFields DEF NewerThanDisplayed, IngressInv, CallTypes
  <2> QED  BY <2>8
<1> QED  BY <1>1, FormalInvariant, PTL DEF FormalSpec, ReplacesOlder

-------------------------------------------------------------------------------
(* The end of a lease                                                      *)

(* How many steps a call still makes at most before it gives back its      *)
(* lease.                                                                  *)
StepsLeft(r) ==
  CASE stage[r] = "entered"   -> 10
    [] stage[r] = "validated" -> 9
    [] stage[r] = "triggered" -> 8
    [] stage[r] = "serving"   -> 1 + StepsAfter(pc[r])
    [] OTHER                  -> 0

LEMMA ContinueShortens ==
  ASSUME IngressInv, NEW r \in Requests, Continue(r)
  PROVE  StepsLeft(r)' < StepsLeft(r)
<1> USE DEF IngressInv
<1>1. /\ stage = [q \in Requests |-> stage[q]] /\ pc = [q \in Requests |-> pc[q]]
      /\ pc[r] \in Labels
  BY DEF CallTypes, SharedInv, Types
<1>2. \A label : StepsAfter(label) \in 0 .. 6
  BY DEF StepsAfter
<1>3. CASE Validate(r)
  <2>1. stage[r] = "entered" /\ stage'[r] \in {"validated", "invalid"}
    BY <1>1, <1>3 DEF Validate, Leave
  <2> QED  BY <2>1 DEF StepsLeft
<1>4. CASE Evaluate(r)
  <2>1. /\ stage[r] = "validated"
        /\ stage'[r] \in {"triggered", "nothing", "suppressed", "error"}
    BY <1>1, <1>4, EvaluateStep DEF Evaluate
  <2> QED  BY <2>1 DEF StepsLeft
<1>5. CASE BeginCall(r)
  <2>1. stage[r] = "triggered" /\ stage'[r] = "serving"
    BY <1>1, <1>5 DEF BeginCall
  <2>2. StepsAfter(pc'[r]) \in 0 .. 6
    BY <1>2
  <2>3. StepsLeft(r) = 8 /\ StepsLeft(r)' = 1 + StepsAfter(pc'[r])
    BY <2>1 DEF StepsLeft
  <2> QED  BY <2>2, <2>3
<1>6. CASE Serve(r)
  <2>1. /\ stage[r] = "serving" /\ stage'[r] = "serving"
        /\ Execute(r) \/ ExecuteLayered(r)
    BY <1>6 DEF Serve, ExecuteAny
  <2>2. StepsAfter(pc'[r]) < StepsAfter(pc[r])
    BY <1>1, <2>1, ExecuteShortens
  <2>3. /\ StepsLeft(r) = 1 + StepsAfter(pc[r])
        /\ StepsLeft(r)' = 1 + StepsAfter(pc'[r])
    BY <2>1 DEF StepsLeft
  <2>4. StepsAfter(pc[r]) \in Int /\ StepsAfter(pc'[r]) \in Int
    BY <1>2
  <2> QED  BY <2>2, <2>3, <2>4
<1>7. CASE GiveBack(r) \/ Mark(r)
  <2>1. stage[r] = "serving" /\ stage'[r] \in {"ended", "raised", "marked"}
    BY <1>1, <1>7 DEF GiveBack, Mark, Leave
  <2>2. StepsLeft(r) = 1 + StepsAfter(pc[r]) /\ StepsLeft(r)' = 0
    BY <2>1 DEF StepsLeft
  <2>3. StepsAfter(pc[r]) \in 0 .. 6
    BY <1>2
  <2> QED  BY <2>2, <2>3
<1> QED  BY <1>3, <1>4, <1>5, <1>6, <1>7 DEF Continue

LeasesCounted ==
  /\ leases = {r \in Requests : StepsLeft(r) > 0}
  /\ \A r \in Requests : StepsLeft(r) \in 0 .. 10

(* _with_private_planner(): a lease is held by exactly the calls that have *)
(* a step to make, at most ten of them; every step of its call leaves it   *)
(* fewer, and no step of another call or of the source adds any.  Under    *)
(* calls that keep running, that is LeasesEnd.                             *)
THEOREM LeasesRunOut ==
  FormalSpec =>
    /\ []LeasesCounted
    /\ [][\A r \in leases : IF Continue(r) THEN StepsLeft(r)' < StepsLeft(r)
                            ELSE StepsLeft(r)' = StepsLeft(r)]_formalVars
<1>1. IngressInv => LeasesCounted
  <2> SUFFICES ASSUME IngressInv PROVE LeasesCounted
    OBVIOUS
  <2>1. /\ leases = {r \in Requests : stage[r] \in Inside}
        /\ \A r \in Requests : stage[r] \in Stages
    BY DEF IngressInv, CallTypes
  <2>2. ASSUME NEW r \in Requests
        PROVE  /\ StepsLeft(r) > 0 <=> stage[r] \in Inside
               /\ StepsLeft(r) \in 0 .. 10
    <3>1. StepsAfter(pc[r]) \in 0 .. 6
      BY DEF StepsAfter
    <3>2. stage[r] \in Stages
      BY <2>1
    <3> QED  BY <3>1, <3>2 DEF StepsLeft, Inside, Stages, Marked
  <2> QED  BY <2>1, <2>2 DEF LeasesCounted
<1>2. IngressInv /\ [FormalNext]_formalVars =>
        [\A r \in leases : IF Continue(r) THEN StepsLeft(r)' < StepsLeft(r)
                           ELSE StepsLeft(r)' = StepsLeft(r)]_formalVars
  <2> SUFFICES ASSUME IngressInv, FormalNext, NEW r \in leases
               PROVE  IF Continue(r) THEN StepsLeft(r)' < StepsLeft(r)
                      ELSE StepsLeft(r)' = StepsLeft(r)
    OBVIOUS
  <2>1. r \in Requests /\ stage[r] \in Inside
    BY DEF IngressInv, CallTypes
  <2>2. ASSUME ~Continue(r) PROVE stage'[r] = stage[r] /\ pc'[r] = pc[r]
    <3>1. ASSUME NEW g \in Generations, ActivateGeneration(g) \/ CommitGeneration(g)
          PROVE  stage'[r] = stage[r] /\ pc'[r] = pc[r]
      BY <3>1 DEF ActivateGeneration, CommitGeneration, allVars, vars, requestVars
    <3>2. ASSUME NEW q \in Requests, NEW c \in Calls, Enter(q, c)
          PROVE  stage'[r] = stage[r] /\ pc'[r] = pc[r]
      <4>1. stage[q] = "out" /\ q # r /\ UNCHANGED pc
        BY <2>1, <3>2 DEF Enter, Inside, allVars, vars, requestVars
      <4>2. stage' = [stage EXCEPT ![q] = stage'[q]]
        BY <3>2 DEF Enter, IngressInv, CallTypes
      <4> QED  BY <2>1, <4>1, <4>2 DEF IngressInv, CallTypes
    <3>3. ASSUME NEW q \in Requests, Continue(q)
          PROVE  stage'[r] = stage[r] /\ pc'[r] = pc[r]
      BY <2>1, <2>2, <3>3, ContinueEffect
    <3> QED  BY <3>1, <3>2, <3>3 DEF FormalNext
  <2>3. ~Continue(r) => StepsLeft(r)' = StepsLeft(r)
    BY <2>2 DEF StepsLeft
  <2> QED  BY <2>1, <2>3, ContinueShortens
<1> QED  BY <1>1, <1>2, IngressInvariant, PTL DEF FormalSpec

-------------------------------------------------------------------------------
(* The latch                                                               *)

(* A mark sets the latch as the risk that it keeps says.                   *)
LEMMA MarkLatches ==
  ASSUME IngressInv, NEW r \in Requests, Mark(r), Triggers!LatchAgrees
  PROVE  Triggers!LatchAgrees'
<1> DEFINE o == Observed(r)
           b == [at |-> o.at, valid |-> o.valid, data |-> o.data,
                 commit |-> o.commit, risk |-> o.risk, event |-> o.event]
<1>1. Triggers!MarkReplanned(o)
  BY DEF Mark
<1>2. CASE Triggers!MarksBack(o)
  BY <1>1, <1>2 DEF Triggers!MarkReplanned, Triggers!LatchAgrees, Triggers!Committed,
                    Triggers!evaluator
<1>3. CASE ~Triggers!MarksBack(o)
  <2>1. baseline' = b /\ latched' = Triggers!Latch(o)
    BY <1>1, <1>3 DEF Triggers!MarkReplanned
  <2>2. b \in Triggers!Baseline
    <3>1. pc[r] = "published" /\ stage[r] = "serving"
      BY MarkStep
    <3>2. call[r] # NoCall /\ CallTypes
      BY <3>1 DEF IngressInv, CallTypes
    <3>3. /\ call[r] \in Calls /\ call[r].revision \in Nat /\ call[r].start \in Nat
          /\ call[r].risk \in Risks
      BY <3>2, CallFields
    <3>4. route[r].risk \in Risks
      BY <3>1 DEF IngressInv, SharedInv, Carried, Plan
    <3>5. /\ o.at = call[r].start /\ o.valid = call[r].start
          /\ o.data = call[r].revision /\ o.commit = call[r].commit
          /\ o.event = NoEvent /\ o.risk \in Risks
      BY <3>3, <3>4 DEF Observed
    <3> HIDE DEF o
    <3> QED  BY <3>3, <3>5 DEF Triggers!Baseline
  <2>3. b # NoBaseline /\ b.risk = o.risk
    <3>1. b # NoBaseline
      BY <2>2, BaselineAssumption
    <3> HIDE DEF o
    <3> QED  BY <3>1
  <2> HIDE DEF b, o
  <2> QED  BY <2>1, <2>3 DEF Triggers!Latch, Triggers!LatchAgrees, Triggers!Committed
<1> QED  BY <1>2, <1>3

(* enter_generation(), _mark_replanning_baseline(), mark_replanned(): the  *)
(* latch that the triggers have agrees with their baseline, through the    *)
(* generations of a session and the calls of both services that overlap in *)
(* it: it is set by an alarm, cleared well below it, and never inherited   *)
(* by a generation that has no baseline.                                   *)
THEOREM LatchFollowsBaseline == FormalSpec => []Triggers!LatchAgrees
<1>1. FormalInit => Triggers!LatchAgrees
  BY DEF FormalInit, Triggers!LatchAgrees, Triggers!Committed
<1>2. IngressInv /\ Triggers!LatchAgrees /\ [FormalNext]_formalVars
        => Triggers!LatchAgrees'
  <2> SUFFICES ASSUME IngressInv, Triggers!LatchAgrees, [FormalNext]_formalVars
               PROVE  Triggers!LatchAgrees'
    OBVIOUS
  <2>1. CASE UNCHANGED evaluator
    BY <2>1 DEF evaluator, Triggers!LatchAgrees, Triggers!Committed
  <2>2. ASSUME NEW r \in Requests, NEW c \in Calls, Enter(r, c)
        PROVE  Triggers!LatchAgrees'
    <3>1. UNCHANGED evaluator \/ (baseline' = NoBaseline /\ latched' = FALSE)
      BY <2>2 DEF Enter
    <3> QED  BY <2>1, <3>1 DEF Triggers!LatchAgrees, Triggers!Committed
  <2>3. ASSUME NEW r \in Requests, Continue(r) PROVE Triggers!LatchAgrees'
    BY <2>1, <2>3, MarkLatches, MarksOnly
  <2>4. CASE \/ \E g \in Generations : ActivateGeneration(g) \/ CommitGeneration(g)
             \/ UNCHANGED formalVars
    BY <2>1, <2>4 DEF ActivateGeneration, CommitGeneration, formalVars
  <2> QED  BY <2>2, <2>3, <2>4 DEF FormalNext
<1> QED  BY <1>1, <1>2, IngressInvariant, PTL DEF FormalSpec

===============================================================================
