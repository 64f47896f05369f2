-------------------------- MODULE MCBuildPipeline --------------------------
(* Builders are alike, and so are the handlers of uploads. *)
EXTENDS BuildPipeline, TLC

Symmetric == Permutations(Worker) \cup Permutations(Handler)
=============================================================================
