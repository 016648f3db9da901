---------------------------- MODULE MCFormalIngress ----------------------------
(* Two v2 calls and a v3 one of a run that is seeked once.  A replanning    *)
(* asked for by an operator passes the gate and the minimum interval; the   *)
(* routes cost the same, so that the others are declined.  The window of    *)
(* revision 1 has the contents of that of revision 0.                       *)
EXTENDS FormalIngress

Session(generation) ==
  [generation |-> generation, run |-> "A", scenario |-> "s", digest |-> "x"]

AnyReasons == (SUBSET Reasons) \ {{}}

MCContexts == {Session(0), Session(1)}

Initial(generation, revision, start) ==
  [revision |-> revision, start |-> start, context |-> Session(generation),
   commit |-> <<generation, revision \div 2>>, replan |-> FALSE,
   manual |-> FALSE, risk |-> 5]

Replan(revision, start, manual) ==
  [Initial(0, revision, start) EXCEPT !.replan = TRUE, !.manual = manual]

MCCalls ==
  {Initial(0, 0, 0), Initial(0, 0, 1), Initial(0, 1, 0), Initial(1, 0, 0),
   Replan(1, 0, TRUE), Replan(1, 1, FALSE), Replan(1, 0, FALSE),
   Replan(2, 1, TRUE)}

===============================================================================
