---------------------------- MODULE MCRunService ----------------------------
(***************************************************************************)
(* Instances of RunService for TLC.                                        *)
(***************************************************************************)
EXTENDS RunService, TLC

\* A fast-path check, the stub, and the core with and without human review.
AllRequests == {{"fast", "review"}, {"review"}, {"core"}, {"core", "review"}}

Symmetry == Permutations(Streams)
=============================================================================
