----------------------------- MODULE ReplanTrigger ----------------------------
(***************************************************************************)
(* replanning.policy.ReplanTriggerEvaluator, and the loop it serves: one   *)
(* caller that observes the voyage and calls replan_if_needed(), which     *)
(* asks the evaluator, runs the planner if it says so, and commits the     *)
(* observation as the new baseline if the new plan was published.  An      *)
(* initial plan also sets the baseline (ingress._mark_replanning_baseline).*)
(*                                                                         *)
(* Risks are integers on the scale of the thresholds; a route's average    *)
(* and maximum risk, which the evaluator treats alike except that only the *)
(* maximum can cross the alarm threshold, are one value.  Deviation is     *)
(* kept as whether it reaches its threshold.                               *)
(***************************************************************************)
EXTENDS Integers

CONSTANTS
  MinInterval,      \* policy.min_interval
  HighRisk,         \* policy.risk_trigger_high
  ClearRisk,        \* policy.risk_clear_below
  RiskChange,       \* policy.risk_change_threshold
  UrgentBypasses,   \* policy.urgent_bypasses_min_interval
  RiskLevels, Commits, Events,
  NoEvent, NoBaseline,
  MaxTime, MaxRevision   \* bounds of the clock and of the data revisions

Observation ==
  [at : Nat, valid : Nat, data : Nat, commit : Commits, risk : RiskLevels,
   deviating : BOOLEAN, event : Events \cup {NoEvent},
   manual : BOOLEAN, hard : BOOLEAN]

(* What the evaluator remembers of a committed observation.                *)
Baseline ==
  [at : Nat, valid : Nat, data : Nat, commit : Commits, risk : RiskLevels,
   event : Events \cup {NoEvent}]

(* ReplanningPolicy.__post_init__ also allows a change threshold of 0, with*)
(* which every observation reports a change; the default configuration and *)
(* every configuration in the repository has a positive one.               *)
ASSUME PolicyAssumption ==
  /\ MinInterval \in Nat /\ HighRisk \in Nat /\ ClearRisk \in Nat
  /\ RiskChange \in Nat \ {0}
  /\ ClearRisk <= HighRisk
  /\ UrgentBypasses \in BOOLEAN
  /\ RiskLevels \subseteq Nat
  /\ NoBaseline \notin Baseline
  /\ MaxTime \in Nat /\ MaxRevision \in Nat

VARIABLES
  baseline,   \* the observation last committed: _last_*, _baseline_*
  latched,    \* _risk_latched
  clock,      \* the time of the voyage
  feed,       \* the newest data: its revision and the commit of its window
  risk,       \* the risk of the displayed route under that data
  event,      \* the external event in force
  asked       \* history: the answer to the last call, and whether it was urgent;
              \* its parity makes every call a step, for the fairness

evaluator == <<baseline, latched>>
voyage == <<clock, feed, risk, event>>
triggerVars == <<evaluator, voyage, asked>>

-------------------------------------------------------------------------------
(* ReplanTriggerEvaluator                                                  *)

Committed == baseline # NoBaseline

(* evaluate() raises: data or valid time go backwards.                     *)
Regresses(o) ==
  Committed /\ (o.data < baseline.data \/ o.valid < baseline.valid)

Distance(a, b) == IF a < b THEN b - a ELSE a - b

RiskDelta(o) == IF Committed THEN Distance(o.risk, baseline.risk) ELSE 0

(* Faulty variant: the latch hides every change of a high risk.            *)
RiskCallsLatched(o) ==
  o.hard \/ (~latched /\ (o.risk >= HighRisk \/ RiskDelta(o) >= RiskChange))

RiskCalls(o) ==
  o.hard \/ (o.risk >= HighRisk /\ ~latched) \/ RiskDelta(o) >= RiskChange

(* Faulty variant: an event calls for as long as it is in force.           *)
EventCallsAlways(o) == o.event # NoEvent

EventCalls(o) ==
  o.event # NoEvent /\ (Committed => o.event # baseline.event)

(* Faulty variant: only the window is looked at.                           *)
WindowCalls(o) == Committed /\ o.commit # baseline.commit

DataCalls(o) ==
  Committed /\ (o.data > baseline.data \/ o.commit # baseline.commit)

ReasonsFor(o) ==
  {reason \in {"TIME", "DATA", "RISK", "DEVIATION", "EVENT", "MANUAL"} :
     \/ reason = "TIME" /\ Committed /\ o.valid > baseline.valid
     \/ reason = "DATA" /\ DataCalls(o)
     \/ reason = "RISK" /\ RiskCalls(o)
     \/ reason = "DEVIATION" /\ o.deviating
     \/ reason = "EVENT" /\ EventCalls(o)
     \/ reason = "MANUAL" /\ o.manual}

Urgent(o) == o.manual \/ o.hard

(* Faulty variants: the interval is measured from the valid time; it never *)
(* ends while the risk is latched.                                         *)
TooSoonByValidTime(o) == Committed /\ o.at < baseline.valid + MinInterval

TooSoonWhileLatched(o) ==
  Committed /\ (o.at < baseline.at + MinInterval \/ latched)

TooSoon(o) == Committed /\ o.at < baseline.at + MinInterval

(* evaluate(): the last answer that applies.                               *)
Answer(o) ==
  CASE Regresses(o) -> "error"
    [] ~Regresses(o) /\ ReasonsFor(o) = {} -> "nothing"
    [] /\ ~Regresses(o) /\ ReasonsFor(o) # {}
       /\ TooSoon(o) /\ ~(Urgent(o) /\ UrgentBypasses) -> "suppressed"
    [] OTHER -> "triggered"

(* Faulty variant: the alarm threshold itself does not set the latch.      *)
LatchAboveAlarm(o) == o.risk > HighRisk \/ (latched /\ o.risk > ClearRisk)

(* The latch after a plan was committed: in between it keeps its value.    *)
Latch(o) == o.risk >= HighRisk \/ (latched /\ o.risk > ClearRisk)

(* Faulty variant: a mark must be later than the last one.                 *)
MarksSameTime(o) == Committed /\ o.at <= baseline.at

(* mark_replanned() raises.                                                *)
MarksBack(o) == Committed /\ o.at < baseline.at

(* Faulty variant: the whole observation is kept.                          *)
MarkObservation(o) ==
  /\ ~MarksBack(o)
  /\ baseline' = o
  /\ latched' = Latch(o)

MarkReplanned(o) ==
  \/ MarksBack(o) /\ UNCHANGED evaluator
  \/ /\ ~MarksBack(o)
     /\ baseline' = [at |-> o.at, valid |-> o.valid, data |-> o.data,
                      commit |-> o.commit, risk |-> o.risk, event |-> o.event]
     /\ latched' = Latch(o)

-------------------------------------------------------------------------------
(* The voyage and its caller                                               *)

(* What can be observed now; the grid in force is for this hour or the one *)
(* before.                                                                 *)
Observables ==
  {[at |-> clock, valid |-> valid, data |-> feed.data, commit |-> feed.commit,
    risk |-> risk, deviating |-> deviating, event |-> event,
    manual |-> manual, hard |-> hard] :
     valid \in {clock, clock - 1} \cap Nat,
     deviating \in BOOLEAN, manual \in BOOLEAN, hard \in BOOLEAN}

TriggerInit ==
  /\ baseline = NoBaseline
  /\ latched = FALSE
  /\ clock = 0
  /\ feed \in [data : {0}, commit : Commits]
  /\ risk \in RiskLevels
  /\ event \in Events \cup {NoEvent}
  /\ asked = [answer |-> "none", urgent |-> FALSE, parity |-> 0]

Tick ==
  /\ clock < MaxTime
  /\ clock' = clock + 1
  /\ UNCHANGED <<evaluator, feed, risk, event, asked>>

(* New data: the displayed route's risk is another one under it.           *)
NewData ==
  /\ feed.data < MaxRevision
  /\ feed' \in [data : {feed.data + 1}, commit : Commits]
  /\ risk' \in RiskLevels
  /\ UNCHANGED <<evaluator, clock, event, asked>>

NewEvent ==
  /\ event' \in Events \cup {NoEvent}
  /\ UNCHANGED <<evaluator, clock, feed, risk, asked>>

(* An initial plan: its baseline has no event, whatever is in force, and   *)
(* the risk of the new route.                                              *)
PlanInitially(newRisk) ==
  /\ risk' = newRisk
  /\ MarkReplanned([at |-> clock, valid |-> clock, data |-> feed.data,
                    commit |-> feed.commit, risk |-> newRisk,
                    deviating |-> FALSE, event |-> NoEvent,
                    manual |-> FALSE, hard |-> FALSE])
  /\ asked' = [answer |-> "initial", urgent |-> FALSE,
               parity |-> 1 - asked.parity]
  /\ UNCHANGED <<clock, feed, event>>

(* replan_if_needed(): only a published plan commits the observation.      *)
ReplanIfNeeded(o) ==
  /\ asked' = [answer |-> Answer(o), urgent |-> Urgent(o),
               parity |-> 1 - asked.parity]
  /\ \/ /\ Answer(o) = "triggered"
        /\ MarkReplanned(o)
        /\ risk' \in RiskLevels
     \/ UNCHANGED <<evaluator, risk>>
  /\ UNCHANGED <<clock, feed, event>>

TriggerNext ==
  \/ Tick
  \/ NewData
  \/ NewEvent
  \/ \E newRisk \in RiskLevels : PlanInitially(newRisk)
  \/ \E o \in Observables : ReplanIfNeeded(o)

TriggerSpec == TriggerInit /\ [][TriggerNext]_triggerVars

(* The voyage goes on and its caller keeps observing it.                   *)
FairTriggerSpec ==
  /\ TriggerSpec
  /\ WF_triggerVars(Tick)
  /\ WF_triggerVars(\E o \in Observables : ReplanIfNeeded(o))

-------------------------------------------------------------------------------
(* Properties                                                              *)

(* Every variable holds a value of its type.                               *)
TriggerTypeOK ==
  /\ baseline \in Baseline \cup {NoBaseline}
  /\ latched \in BOOLEAN
  /\ clock \in Nat
  /\ feed \in [data : Nat, commit : Commits]
  /\ risk \in RiskLevels
  /\ event \in Events \cup {NoEvent}

(* The latch agrees with the baseline: set by an alarm, cleared only well  *)
(* below it (the two thresholds may be equal).                             *)
LatchAgrees ==
  /\ latched =>
       Committed /\ (baseline.risk > ClearRisk \/ baseline.risk >= HighRisk)
  /\ Committed /\ baseline.risk >= HighRisk => latched

(* An alarming risk is never kept from the planner by the hysteresis,      *)
(* except where the plan in force was accepted at much the same risk.      *)
AlarmsRaised ==
  \A level \in RiskLevels :
    level >= HighRisk =>
      \A o \in Observables :
        \/ "RISK" \in ReasonsFor([o EXCEPT !.risk = level])
        \/ /\ Committed
           /\ baseline.risk > ClearRisk \/ baseline.risk >= HighRisk
           /\ Distance(level, baseline.risk) < RiskChange

(* What was replanned for does not call for another replanning: the same   *)
(* state of the world, observed again later, gives no reason but the time, *)
(* the deviation and the requests that stand.                              *)
QuietAfterReplan ==
  \A o \in Observables :
    /\ Committed
    /\ o.data = baseline.data /\ o.commit = baseline.commit
    /\ o.risk = baseline.risk /\ o.event = baseline.event
    /\ ~o.hard
    => ReasonsFor(o) \subseteq {"TIME", "DEVIATION", "MANUAL"}

(* Between two replannings that are shown lies the minimum interval,       *)
(* unless the later one is urgent.                                         *)
Spaced ==
  [][ /\ Committed
      /\ baseline' # baseline
      /\ asked'.answer = "triggered"
      => \/ baseline'.at >= baseline.at + MinInterval
         \/ UrgentBypasses /\ asked'.urgent ]_triggerVars

(* A suppressed reason is not dropped: the caller that keeps asking is     *)
(* told to replan, or that there is nothing left to replan for, unless     *)
(* another plan is committed first and the interval starts anew (and the   *)
(* modelled time does not end before it does).                             *)
SuppressedIsServed ==
  \A start \in 0..(MaxTime - MinInterval) :
    (asked.answer = "suppressed" /\ baseline.at = start)
      ~> (asked.answer # "suppressed" \/ baseline.at # start)

===============================================================================
