----------------------------- MODULE FormalIngress -----------------------------
(***************************************************************************)
(* ingress.RiskSourcePlanningIngress for one run: what it puts around the  *)
(* two services of LayeredPublication.  A call prepares a planning, takes  *)
(* the source's lease on its window, moves the session to its generation,  *)
(* and then either plans initially, or has a replanning validated and put  *)
(* to the trigger evaluator before it is planned.  A plan that was shown   *)
(* becomes the evaluator's baseline.  Both services share the coordinator  *)
(* and the evaluator, and each has its own store.                          *)
(*                                                                         *)
(* The lease keeps the generation of the source; whether it also keeps     *)
(* other plannings out is up to the source: InMemoryRiskSource grants one  *)
(* lease at a time, the protocol CommittedRiskSource allows more.          *)
(* A call that is turned away before it enters the session (no window,     *)
(* an older generation) changes nothing and is left out.  Nobody outside   *)
(* execute() has a handle, so that nothing is cancelled.                   *)
(***************************************************************************)
EXTENDS LayeredPublication, FiniteSets

CONSTANTS
  Calls,       \* what requests are called with
  NoCall,
  Sharing,     \* how many leases a source may grant at a time
  MinInterval, HighRisk, ClearRisk, RiskChange, UrgentBypasses,  \* the policy
  NoEvent, NoBaseline

(* commit is the commit_id of the window of the call's query.  A call with *)
(* replan = FALSE is an execute(), the others carry an observation; the    *)
(* gate takes whatever reasons the evaluator has.                          *)
ASSUME CallAssumption ==
  /\ \A c \in Calls :
       /\ DOMAIN c = {"context", "revision", "start", "commit", "replan", "manual",
                     "risk"}
       /\ c.context \in Contexts /\ c.revision \in Revisions
       /\ c.start \in Nat /\ c.risk \in Risks /\ c.replan \in BOOLEAN /\ c.manual \in BOOLEAN
       /\ c.manual => c.replan
  /\ NoCall \notin Calls
  /\ (SUBSET Reasons) \ {{}} \subseteq GateReasons
  /\ Sharing \subseteq Nat \ {0}
  /\ \A c, d \in Contexts : /\ c.run = d.run /\ c.scenario = d.scenario
                            /\ c.digest = d.digest

VARIABLES
  live,       \* the generations the source has committed windows of
  slots,      \* how many leases the source grants at a time
  leases,     \* the requests that hold a lease
  entered,    \* session.generation_id, -1 for None
  baseline,   \* session.trigger_evaluator: its baseline,
  latched,    \* and its latch
  call,       \* what each request was called with
  reasons,    \* why the evaluator wants a replanning
  stage       \* where _with_private_planner() stands, or how it ended

sourceState == <<live, slots>>
evaluator == <<baseline, latched>>

formalVars ==
  <<allVars, sourceState, leases, entered, evaluator, call, reasons, stage>>

(* The evaluator alone, without the voyage that ReplanTrigger has it watch.*)
Triggers == INSTANCE ReplanTrigger WITH
  RiskLevels <- Risks, Commits <- {c.commit : c \in Calls}, Events <- {},
  MaxTime <- 0, MaxRevision <- 0,
  clock <- 0, feed <- 0, risk <- 0, event <- NoEvent, asked <- 0

(* None is not an observation.                                             *)
ASSUME BaselineAssumption == NoBaseline \notin Triggers!Baseline

Generation(r) == call[r].context.generation

Generations == {c.context.generation : c \in Calls}

FormalInit ==
  /\ LayeredInit
  /\ live \in {{g} : g \in Generations}
  /\ slots \in Sharing
  /\ leases = {}
  /\ entered = -1
  /\ baseline = NoBaseline /\ latched = FALSE
  /\ call = [r \in Requests |-> NoCall]
  /\ reasons = [r \in Requests |-> {}]
  /\ stage = [r \in Requests |-> "out"]

-------------------------------------------------------------------------------
(* The source                                                              *)

(* Another generation is activated: that waits for every lease.            *)
ActivateGeneration(g) ==
  /\ leases = {}
  /\ live' = {g}
  /\ UNCHANGED <<allVars, slots, leases, entered, evaluator, call, reasons, stage>>

(* InMemoryRiskSource takes windows of any generation beside the others.   *)
CommitGeneration(g) ==
  /\ leases = {} /\ slots = 1
  /\ live' = live \cup {g}
  /\ UNCHANGED <<allVars, slots, leases, entered, evaluator, call, reasons, stage>>

-------------------------------------------------------------------------------
(* One call                                                                *)

(* Faulty variant: a call of an older generation may enter again.          *)
MayEnterAgain(c) == TRUE

(* The lease is granted, and enter_generation() does not raise.            *)
MayEnter(c) == entered <= c.context.generation

(* prepare(), the lease, and enter_generation().                           *)
Enter(r, c) ==
  /\ stage[r] = "out"
  /\ c.context.generation \in live
  /\ Cardinality(leases) < slots
  /\ MayEnter(c)
  /\ leases' = leases \cup {r}
  /\ call' = [call EXCEPT ![r] = c]
  /\ entered' = c.context.generation
  /\ IF entered = c.context.generation THEN UNCHANGED evaluator
     ELSE baseline' = NoBaseline /\ latched' = FALSE
  /\ stage' = [stage EXCEPT ![r] = IF c.replan THEN "entered" ELSE "triggered"]
  /\ UNCHANGED <<allVars, sourceState, reasons>>

(* Faulty variant: an error leaves the lease behind.                       *)
LeaveUnlessError(r, how) ==
  /\ stage' = [stage EXCEPT ![r] = how]
  /\ leases' = IF how \in {"invalid", "error"} THEN leases ELSE leases \ {r}

(* The call returns or raises, and with it the lease is given back.        *)
Leave(r, how) ==
  /\ stage' = [stage EXCEPT ![r] = how]
  /\ leases' = leases \ {r}

(* What D sees of the service that is asked.                               *)
LatestFor(r) ==
  IF r \in LayeredRequests THEN Layered!SnapshotCurrent(call[r].context)
  ELSE SnapshotCurrent(call[r].context)

(* Faulty variant: the same revision may be planned for again.             *)
NotOlderThanDisplayed(r) ==
  LatestFor(r) # NoPlan /\ call[r].revision >= LatestFor(r).token.revision

NewerThanDisplayed(r) ==
  LatestFor(r) # NoPlan /\ call[r].revision > LatestFor(r).token.revision

(* _validate_formal_replan().  The observation agrees with the request.    *)
Validate(r) ==
  /\ stage[r] = "entered"
  /\ IF NewerThanDisplayed(r)
       THEN /\ stage' = [stage EXCEPT ![r] = "validated"]
            /\ UNCHANGED leases
       ELSE Leave(r, "invalid")
  /\ UNCHANGED <<allVars, sourceState, entered, evaluator, call, reasons>>

(* The observation of a replanning, and the one that is made up for an     *)
(* initial plan once it has a route.                                       *)
Observed(r) ==
  [at |-> call[r].start, valid |-> call[r].start, data |-> call[r].revision,
   commit |-> call[r].commit, deviating |-> FALSE, event |-> NoEvent,
   risk |-> IF call[r].replan THEN call[r].risk ELSE route[r].risk,
   manual |-> call[r].manual, hard |-> FALSE]

ForGate(triggered) ==
  (triggered \cap Reasons) \cup
  (IF triggered \ Reasons = {} THEN {} ELSE {"other"})

(* replan_if_needed(): evaluate().                                         *)
Evaluate(r) ==
  LET o == Observed(r)
  IN  /\ stage[r] = "validated"
      /\ IF Triggers!Answer(o) = "triggered"
           THEN /\ stage' = [stage EXCEPT ![r] = "triggered"]
                /\ reasons' = [reasons EXCEPT ![r] = ForGate(Triggers!ReasonsFor(o))]
                /\ UNCHANGED leases
           ELSE Leave(r, Triggers!Answer(o)) /\ UNCHANGED reasons
      /\ UNCHANGED <<allVars, sourceState, entered, evaluator, call>>

(* execute(): it begins.                                                   *)
BeginCall(r) ==
  /\ stage[r] = "triggered"
  /\ \E subject \in Subjects :
       Begin(r, [token   |-> [context |-> call[r].context,
                              revision |-> call[r].revision, request |-> r],
                 subject |-> subject, gated |-> call[r].replan,
                 reasons |-> reasons[r]])
  /\ stage' = [stage EXCEPT ![r] = "serving"]
  /\ UNCHANGED <<layeredVars, sourceState, leases, entered, evaluator, call, reasons>>

Serve(r) ==
  /\ stage[r] = "serving"
  /\ ExecuteAny(r)
  /\ UNCHANGED <<sourceState, leases, entered, evaluator, call, reasons, stage>>

(* execute() raised, or the switch was declined.                           *)
GiveBack(r) ==
  /\ stage[r] = "serving"
  /\ pc[r] \in Ended \ {"published"}
  /\ Leave(r, "ended")
  /\ UNCHANGED <<allVars, sourceState, entered, evaluator, call, reasons>>

(* Faulty variant: a declined replanning is marked.                        *)
MarkableIfDecided(r) == pc[r] \in {"published", "declined"}

Markable(r) == pc[r] = "published"

(* The plan is shown: _mark_replanning_baseline(), or for a replanning     *)
(* mark_replanned() in the service.                                        *)
Mark(r) ==
  /\ stage[r] = "serving"
  /\ Markable(r)
  /\ Triggers!MarkReplanned(Observed(r))
  /\ Leave(r, IF Triggers!MarksBack(Observed(r)) THEN "raised" ELSE "marked")
  /\ UNCHANGED <<allVars, sourceState, entered, call, reasons>>

Continue(r) ==
  Validate(r) \/ Evaluate(r) \/ BeginCall(r) \/ Serve(r) \/ GiveBack(r) \/ Mark(r)

FormalNext ==
  \/ \E g \in Generations : ActivateGeneration(g) \/ CommitGeneration(g)
  \/ \E r \in Requests :
       \/ \E c \in Calls : Enter(r, c)
       \/ Continue(r)

FormalSpec == FormalInit /\ [][FormalNext]_formalVars

(* A call that has its lease keeps running.                                *)
FairFormalSpec ==
  FormalSpec /\ \A r \in Requests : WF_formalVars(Continue(r))

-------------------------------------------------------------------------------
(* Properties                                                              *)

Shown == {r \in Requests : pc[r] = "published"}

Exclusive == slots = 1

(* Under a source that plans one call at a time, the triggers compare with *)
(* what is shown: whenever no call is under way, the baseline is that of   *)
(* the last plan shown, by whichever service, although publishing and      *)
(* marking are two steps and the second one may raise.  It raises only for *)
(* a plan that starts earlier than one shown before.                       *)
BaselineFollowsDisplay ==
  Exclusive /\ leases = {} =>
    \A r \in Shown :
      /\ Generation(r) = entered
      /\ \A q \in Shown : /\ ticket[q] <= ticket[r]
                          /\ Generation(q) = entered => call[q].start <= call[r].start
      => /\ baseline # NoBaseline
         /\ baseline.at = call[r].start /\ baseline.data = call[r].revision
         /\ baseline.commit = call[r].commit

(* "baseline changes only after a committed plan": what the triggers       *)
(* compare with is an observation whose plan was shown, in the generation  *)
(* of the session, whatever calls of two services overlap.                 *)
BaselineWasShown ==
  baseline # NoBaseline =>
    \E r \in Shown : /\ Generation(r) = entered
                     /\ baseline.at = call[r].start
                     /\ baseline.data = call[r].revision

(* Under an exclusive lease, a formal replanning that is not triggered for *)
(* want of a reason has its data on display already, in one of the two     *)
(* services.  (Under shared leases it may find a plan on display that is   *)
(* not the baseline yet, and then newer data is no reason.)                *)
NothingIsShown ==
  Exclusive => \A r \in Requests : stage[r] = "nothing" =>
    \E q \in Shown : /\ Generation(q) = Generation(r)
                     /\ call[q].revision >= call[r].revision

(* The revision of a formal replanning is compared with the display before *)
(* the search, and the display changes after it: under an exclusive lease  *)
(* what it replaces is still older.                                        *)
ReplacesOlder ==
  [][ \A r \in Requests :
        /\ Exclusive /\ call[r] # NoCall /\ call[r].replan
        /\ pc[r] # "published" /\ pc'[r] = "published"
        => LatestFor(r) # NoPlan /\ LatestFor(r).token.revision < call[r].revision
    ]_formalVars

(* Every lease is given back, whatever the planning under it does.         *)
LeasesEnd == \A r \in Requests : r \in leases ~> r \notin leases

===============================================================================
