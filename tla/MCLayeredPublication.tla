------------------------- MODULE MCLayeredPublication -------------------------
(* Contexts for model-checking LayeredPublication.                         *)
EXTENDS LayeredPublication, TLC

Session(generation, digest) ==
  [run |-> "A", scenario |-> "s", generation |-> generation, digest |-> digest]

MCContexts == {Session(0, "x"), Session(1, "x")}

MCSymmetry == Permutations(LayeredRequests)

===============================================================================
