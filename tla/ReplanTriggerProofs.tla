-------------------------- MODULE ReplanTriggerProofs -------------------------
(***************************************************************************)
(* The hysteresis of the replanning triggers, for every policy.            *)
(***************************************************************************)
EXTENDS ReplanTrigger, TLAPS

TriggerInv == TriggerTypeOK /\ LatchAgrees

LEMMA MarkedBaseline ==
  ASSUME TriggerInv, NEW o \in Observation, MarkReplanned(o)
  PROVE  /\ baseline' \in Baseline \cup {NoBaseline}
         /\ latched' \in BOOLEAN
         /\ LatchAgrees'
<1>1. CASE UNCHANGED evaluator
  BY <1>1 DEF TriggerInv, TriggerTypeOK, evaluator, LatchAgrees, Committed
<1>2. CASE /\ baseline' = [at |-> o.at, valid |-> o.valid, data |-> o.data,
                           commit |-> o.commit, risk |-> o.risk,
                           event |-> o.event]
           /\ latched' = Latch(o)
  <2>1. baseline' \in Baseline /\ baseline'.risk = o.risk
    BY <1>2 DEF Observation, Baseline
  <2>2. baseline' # NoBaseline
    BY <2>1, PolicyAssumption
  <2>3. o.risk \in Nat
    BY PolicyAssumption DEF Observation
  <2>4. LatchAgrees'
    <3>1. Committed'
      BY <2>2 DEF Committed
    <3>2. ASSUME latched'
          PROVE  baseline'.risk > ClearRisk \/ baseline'.risk >= HighRisk
      <4>1. Latch(o)
        BY <1>2, <3>2
      <4> QED
        BY <4>1, <2>1 DEF Latch
    <3>3. ASSUME baseline'.risk >= HighRisk PROVE latched'
      <4>1. Latch(o)
        BY <3>3, <2>1 DEF Latch
      <4> QED
        BY <1>2, <4>1
    <3> QED
      BY <3>1, <3>2, <3>3 DEF LatchAgrees
  <2>5. latched' \in BOOLEAN
    BY <1>2 DEF Latch
  <2> QED
    BY <2>1, <2>4, <2>5
<1> QED
  BY <1>1, <1>2 DEF MarksBack, MarkReplanned

LEMMA ObservablesAreObservations ==
  ASSUME TriggerTypeOK
  PROVE  Observables \subseteq Observation
<1> SUFFICES ASSUME NEW o \in Observables PROVE o \in Observation
  OBVIOUS
<1>1. PICK valid \in {clock, clock - 1} \cap Nat, deviating \in BOOLEAN,
           manual \in BOOLEAN, hard \in BOOLEAN :
        o = [at |-> clock, valid |-> valid, data |-> feed.data,
             commit |-> feed.commit, risk |-> risk, deviating |-> deviating,
             event |-> event, manual |-> manual, hard |-> hard]
  BY DEF Observables
<1> QED
  BY <1>1 DEF TriggerTypeOK, Observation

LEMMA NextTriggerInv ==
  ASSUME TriggerInv, [TriggerNext]_triggerVars
  PROVE  TriggerInv'
<1> USE DEF TriggerInv, TriggerTypeOK
<1>1. CASE Tick
  BY <1>1, PolicyAssumption DEF Tick, evaluator, LatchAgrees, Committed
<1>2. CASE NewData
  BY <1>2 DEF NewData, evaluator, LatchAgrees, Committed
<1>3. CASE NewEvent
  BY <1>3 DEF NewEvent, evaluator, LatchAgrees, Committed
<1>4. ASSUME NEW newRisk \in RiskLevels, PlanInitially(newRisk)
      PROVE  TriggerInv'
  <2> DEFINE o == [at |-> clock, valid |-> clock, data |-> feed.data,
                   commit |-> feed.commit, risk |-> newRisk,
                   deviating |-> FALSE, event |-> NoEvent,
                   manual |-> FALSE, hard |-> FALSE]
  <2>1. o \in Observation
    BY DEF Observation
  <2>2. MarkReplanned(o)
    BY <1>4 DEF PlanInitially
  <2>3. /\ baseline' \in Baseline \cup {NoBaseline}
        /\ latched' \in BOOLEAN
        /\ LatchAgrees'
    <3> HIDE DEF o
    <3> QED
      BY <2>1, <2>2, MarkedBaseline
  <2>4. /\ risk' \in RiskLevels /\ UNCHANGED <<clock, feed, event>>
    BY <1>4 DEF PlanInitially
  <2> QED
    BY <2>3, <2>4
<1>5. ASSUME NEW o \in Observables, ReplanIfNeeded(o)
      PROVE  TriggerInv'
  <2>1. o \in Observation
    BY ObservablesAreObservations
  <2>2. /\ risk' \in RiskLevels /\ UNCHANGED <<clock, feed, event>>
        /\ MarkReplanned(o) \/ UNCHANGED evaluator
    BY <1>5 DEF ReplanIfNeeded
  <2>3. CASE MarkReplanned(o)
    BY <2>1, <2>2, <2>3, MarkedBaseline
  <2>4. CASE UNCHANGED evaluator
    BY <2>2, <2>4 DEF evaluator, LatchAgrees, Committed
  <2> QED
    BY <2>2, <2>3, <2>4
<1>6. CASE UNCHANGED triggerVars
  BY <1>6 DEF triggerVars, evaluator, voyage, LatchAgrees, Committed
<1> QED
  BY <1>1, <1>2, <1>3, <1>4, <1>5, <1>6 DEF TriggerNext

(* Types are preserved, and the latch is set by an alarm and cleared only  *)
(* well below it.                                                          *)
THEOREM TriggerInvariant == TriggerSpec => []TriggerInv
<1>1. TriggerInit => TriggerInv
  <2> SUFFICES ASSUME TriggerInit PROVE TriggerInv
    OBVIOUS
  <2>1. LatchAgrees
    BY DEF TriggerInit, LatchAgrees, Committed
  <2>2. feed \in [data : Nat, commit : Commits]
    BY DEF TriggerInit
  <2> QED
    BY <2>1, <2>2 DEF TriggerInit, TriggerInv, TriggerTypeOK
<1>2. TriggerInv /\ [TriggerNext]_triggerVars => TriggerInv'
  BY NextTriggerInv
<1> QED
  BY <1>1, <1>2, PTL DEF TriggerSpec

(* The evaluator's state is always well typed.                             *)
THEOREM TriggerTypeCorrect == TriggerSpec => []TriggerTypeOK
<1>1. TriggerInv => TriggerTypeOK
  BY DEF TriggerInv
<1> QED
  BY <1>1, TriggerInvariant, PTL

(* The hysteresis keeps an alarming risk from the planner only where the   *)
(* plan in force was accepted at much the same risk.                       *)
THEOREM NoAlarmIsHidden == TriggerSpec => []AlarmsRaised
<1>1. TriggerInv => AlarmsRaised
  <2> SUFFICES ASSUME TriggerInv, NEW level \in RiskLevels, level >= HighRisk,
                      NEW o \in Observables,
                      "RISK" \notin ReasonsFor([o EXCEPT !.risk = level])
               PROVE  /\ Committed
                      /\ baseline.risk > ClearRisk \/ baseline.risk >= HighRisk
                      /\ Distance(level, baseline.risk) < RiskChange
    BY DEF AlarmsRaised
  <2> DEFINE p == [o EXCEPT !.risk = level]
  <2>1. o \in Observation
    BY ObservablesAreObservations DEF TriggerInv
  <2>2. p.risk = level
    BY <2>1 DEF Observation
  <2>3. ~RiskCalls(p)
    BY DEF DataCalls, ReasonsFor
  <2>4. latched /\ ~(RiskDelta(p) >= RiskChange)
    BY <2>2, <2>3 DEF RiskCalls
  <2>5. /\ Committed
        /\ baseline.risk > ClearRisk \/ baseline.risk >= HighRisk
    BY <2>4 DEF TriggerInv, LatchAgrees
  <2>6. RiskDelta(p) = Distance(level, baseline.risk)
    BY <2>2, <2>5 DEF RiskDelta
  <2>7. Distance(level, baseline.risk) \in Nat
    BY <2>5, PolicyAssumption DEF Committed, TriggerInv, TriggerTypeOK, Baseline,
       Distance
  <2> QED
    BY <2>4, <2>5, <2>6, <2>7, PolicyAssumption
<1> QED
  BY <1>1, TriggerInvariant, PTL

(* What was replanned for does not call for another replanning.            *)
THEOREM ReplannedIsQuiet == TriggerSpec => []QuietAfterReplan
<1>1. TriggerInv => QuietAfterReplan
  <2> SUFFICES ASSUME TriggerInv, NEW o \in Observables,
                      Committed,
                      o.data = baseline.data, o.commit = baseline.commit,
                      o.risk = baseline.risk, o.event = baseline.event,
                      ~o.hard
               PROVE  ReasonsFor(o) \subseteq {"TIME", "DEVIATION", "MANUAL"}
    BY DEF QuietAfterReplan
  <2>1. baseline.risk \in Nat /\ baseline.data \in Nat
    BY PolicyAssumption DEF Committed, TriggerInv, TriggerTypeOK, Baseline
  <2>2. ~(o.data > baseline.data)
    BY <2>1
  <2>3. RiskDelta(o) = 0
    BY <2>1 DEF RiskDelta, Distance
  <2>4. o.risk >= HighRisk => latched
    BY DEF TriggerInv, LatchAgrees
  <2>5. ~RiskCalls(o)
    BY <2>3, <2>4, PolicyAssumption DEF RiskCalls
  <2>6. ~EventCalls(o)
    BY DEF EventCalls
  <2> QED
    BY <2>2, <2>5, <2>6 DEF DataCalls, ReasonsFor
<1> QED
  BY <1>1, TriggerInvariant, PTL

(* The latch is set by an alarm and cleared only well below it.            *)
THEOREM LatchAlwaysAgrees == TriggerSpec => []LatchAgrees
<1>1. TriggerInv => LatchAgrees
  BY DEF TriggerInv
<1> QED
  BY <1>1, TriggerInvariant, PTL

(* Shown replannings are a minimum interval apart, unless urgent.          *)
THEOREM ReplanningsAreSpaced == TriggerSpec => Spaced
<1> DEFINE Apart == \/ baseline'.at >= baseline.at + MinInterval
                    \/ UrgentBypasses /\ asked'.urgent
<1>1. ASSUME TriggerInv, [TriggerNext]_triggerVars,
             Committed, baseline' # baseline, asked'.answer = "triggered"
      PROVE  Apart
  <2>1. CASE Tick \/ NewData \/ NewEvent \/ UNCHANGED triggerVars
    BY <1>1, <2>1 DEF Tick, NewData, NewEvent, triggerVars, evaluator
  <2>2. ASSUME NEW newRisk \in RiskLevels, PlanInitially(newRisk)
        PROVE  FALSE
    <3>1. asked'.answer = "initial"
      BY <2>2 DEF PlanInitially
    <3> QED
      BY <1>1, <3>1
  <2>3. ASSUME NEW o \in Observables, ReplanIfNeeded(o)
        PROVE  Apart
    <3>1. o \in Observation /\ baseline \in Baseline
      BY <1>1, ObservablesAreObservations
         DEF TriggerInv, TriggerTypeOK, Committed
    <3>2. Answer(o) = "triggered" /\ asked'.urgent = Urgent(o)
      BY <1>1, <2>3 DEF ReplanIfNeeded
    <3>3. ~TooSoon(o) \/ (Urgent(o) /\ UrgentBypasses)
      BY <3>2 DEF Answer
    <3>4. MarkReplanned(o)
      BY <1>1, <2>3 DEF ReplanIfNeeded, evaluator
    <3>5. baseline'.at = o.at
      BY <1>1, <3>4 DEF MarksBack, MarkReplanned, evaluator
    <3>6. CASE ~TooSoon(o)
      <4>1. ~(o.at < baseline.at + MinInterval)
        BY <1>1, <3>6 DEF TooSoon
      <4>2. o.at \in Nat /\ baseline.at \in Nat /\ MinInterval \in Nat
        BY <3>1, PolicyAssumption DEF Observation, Baseline
      <4> QED
        BY <3>5, <4>1, <4>2
    <3>7. CASE Urgent(o) /\ UrgentBypasses
      BY <3>2, <3>7
    <3> QED
      BY <3>3, <3>6, <3>7
  <2> QED
    BY <1>1, <2>1, <2>2, <2>3 DEF TriggerNext
<1>2. TriggerInv /\ [TriggerNext]_triggerVars =>
        [ /\ Committed
          /\ baseline' # baseline
          /\ asked'.answer = "triggered"
          => \/ baseline'.at >= baseline.at + MinInterval
             \/ UrgentBypasses /\ asked'.urgent ]_triggerVars
  BY <1>1
<1> QED
  BY <1>2, TriggerInvariant, PTL DEF TriggerSpec, Spaced

===============================================================================
