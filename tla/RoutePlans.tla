------------------------------ MODULE RoutePlans ------------------------------
(***************************************************************************)
(* The values that travel from a planning request to the latest-value      *)
(* stores: publication tokens, route plans and the comparisons the stores  *)
(* make between a token and the one they hold.                             *)
(*                                                                         *)
(* A context is the part of a token that two requests of one session share *)
(* (run, scenario, generation and the three configuration digests, which   *)
(* are only ever compared for equality together and stand here as one).    *)
(* A plan keeps the fields somebody decides on: its token, the corridor    *)
(* and vessel it is for (its subject) and the two metrics of the switch    *)
(* gate.  Geometry, timestamps and ids are left out.                       *)
(***************************************************************************)
EXTENDS Integers

CONSTANTS
  Requests,      \* planning_request_id: one per call of execute()
  Runs, Scenarios, Digests, Subjects,
  Contexts,      \* the contexts requests are made in
  Revisions,     \* the input revisions of B they may carry
  Costs, Risks,  \* objective_cost and max_risk of the routes found
  NoToken, NoPlan

Context == [run : Runs, scenario : Scenarios, generation : Nat, digest : Digests]

(* publishing.models.PublicationToken: frozen when a request begins.       *)
Token == [context : Contexts, revision : Revisions, request : Requests]

Label == [token : Token, subject : Subjects]

Plan == [token : Token, subject : Subjects, cost : Costs, risk : Risks]

ASSUME PlanAssumption ==
  /\ Contexts \subseteq Context
  /\ Revisions \subseteq Nat
  /\ Costs \subseteq Nat
  /\ Risks \subseteq Nat
  /\ NoToken \notin Token
  /\ NoPlan \notin Plan

(* token_for_plan and what the candidates of a publication are compared by *)
LabelOf(plan) == [token |-> plan.token, subject |-> plan.subject]

(* Faulty variants of the two comparisons below, for mutation testing: the *)
(* revision is never compared; the digests, or all but the run, are never  *)
(* compared.                                                               *)
OlderByGeneration(token, held) ==
  /\ token.context.run = held.context.run
  /\ token.context.generation < held.context.generation

ContextChangedButDigest(held, token) ==
  /\ held # NoToken
  /\ [token.context EXCEPT !.digest = held.context.digest] # held.context

ContextChangedByRun(held, token) ==
  /\ held # NoToken
  /\ token.context.run # held.context.run

(* Within one run a generation, and within a generation an input revision, *)
(* may not go back.                                                        *)
Older(token, held) ==
  /\ token.context.run = held.context.run
  /\ \/ token.context.generation < held.context.generation
     \/ /\ token.context.generation = held.context.generation
        /\ token.revision < held.revision

(* The stored plans belong to another session than the token.              *)
ContextChanged(held, token) ==
  /\ held # NoToken
  /\ token.context # held.context

===============================================================================
