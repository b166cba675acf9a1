------------------------- MODULE MCContinuityStore -------------------------
(* Instances of ContinuityStore for TLC.  Exchanges and workspaces are      *)
(* interchangeable: nothing but the names of segments depends on them.      *)
EXTENDS ContinuityStore, TLC

ExchangeSymmetry == Permutations(Exchange) \cup Permutations(Workspace)
=============================================================================
