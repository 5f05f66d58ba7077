--------------------------- MODULE ExecutorClaims ---------------------------
(***************************************************************************)
(* What the comments and docstrings of the executor say of it and its code *)
(* does not do, refuted by a run of MCExecutor.                            *)
(***************************************************************************)
EXTENDS Executor

\* sessions.py: "This endpoint triggers the full agent orchestration pipeline".
\* A queued execution gets through its agents unless one of them fails.
RunsThePipeline ==
  \A e \in Execution :
    row[e].state = "queued" ~> \/ row[e].state \in {"completed", "deleted"}
                               \/ steps[e] \cap (StepIndex \X ErrorClass) # {}

=============================================================================
