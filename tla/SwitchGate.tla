------------------------------ MODULE SwitchGate ------------------------------
(***************************************************************************)
(* replanning.policy.RouteSwitchGate: whether a replanned route may take   *)
(* the place of the one on display.  Costs and risks are non-negative      *)
(* integers on the scales of the policy's thresholds: the risk hysteresis  *)
(* in units of risk, the minimum improvement in percent of the current     *)
(* cost.                                                                   *)
(***************************************************************************)
EXTENDS RoutePlans

CONSTANTS
  RiskHysteresis,  \* policy.risk_hysteresis
  MinImprovement   \* policy.min_switch_improvement, in percent

ASSUME GateAssumption == RiskHysteresis \in Nat /\ MinImprovement \in 0..100

(* The ReplanReason values the gate tells apart; "other" stands for TIME,  *)
(* DATA and DEVIATION.                                                     *)
Reasons == {"RISK", "EVENT", "MANUAL", "other"}

(* improvement >= min_switch_improvement.  The denominator is at least     *)
(* 1e-12, so from a route of cost 0 only "no change" reaches a threshold,  *)
(* and only a threshold of 0.                                              *)
BenefitReached(current, candidate) ==
  \/ /\ current.cost > 0
     /\ 100 * (current.cost - candidate.cost) >= MinImprovement * current.cost
  \/ /\ current.cost = 0
     /\ candidate.cost = 0
     /\ MinImprovement = 0

(* Faulty variant: the hysteresis has the wrong sign.                      *)
RiskWithinBand(current, candidate) ==
  candidate.risk <= current.risk + RiskHysteresis

RiskReduced(current, candidate) ==
  candidate.risk <= current.risk - RiskHysteresis

RiskIncreased(current, candidate) ==
  candidate.risk > current.risk + RiskHysteresis

(* evaluate(current, candidate, reasons=...) with the force flag off, as   *)
(* both services call it.  The scenario and generation of the candidate    *)
(* are compared through its context, the corridor and vessel through its   *)
(* subject.                                                                *)
GateAccepts(current, candidate, reasons) ==
  \/ current = NoPlan
  \/ /\ candidate.token.context.scenario = current.token.context.scenario
     /\ candidate.token.context.generation = current.token.context.generation
     /\ candidate.subject = current.subject
     /\ \/ reasons \cap {"EVENT", "MANUAL"} # {}
        \/ "RISK" \in reasons /\ RiskReduced(current, candidate)
        \/ /\ ~RiskIncreased(current, candidate)
           /\ BenefitReached(current, candidate)

===============================================================================
