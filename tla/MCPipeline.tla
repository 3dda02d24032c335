----------------------------- MODULE MCPipeline -----------------------------
(***************************************************************************)
(* Small instances of the scoring pipeline.                                *)
(***************************************************************************)
EXTENDS ScoringPipeline, TLC

\* Players, predictions slots, admins and workers are interchangeable; so are
\* the matches of one phase when there is only one phase.
Symmetry == Permutations(Users) \cup Permutations(Predictors) \cup Permutations(Registrars)
            \cup Permutations(Assigners) \cup Permutations(Teams)
=============================================================================
