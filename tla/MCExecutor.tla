----------------------------- MODULE MCExecutor -----------------------------
(***************************************************************************)
(* Instances of Executor for TLC: who may send which requests.             *)
(***************************************************************************)
EXTENDS ExecutorClaims, TLC

CONSTANTS c1, c2

\* Two clients that race, of which one retries.
MCOneRetrier == (c1 :> {"execute", "cancel", "retry", "delete"})
             @@ (c2 :> {"stop", "pause", "resume"})

\* Cancellation and retry only: a paused execution waits for its user.
MCCancelRetry == (c1 :> {"execute", "retry", "delete"})
              @@ (c2 :> {"cancel", "stop"})

\* One client that only runs.
MCRunOnly == (c1 :> {"execute"})

\* A client that may start, recover and delete, and a second one that retries too: two
\* retries of one failed row start two tasks.
MCTwoRetriers == (c1 :> {"execute", "retry", "recover", "delete"})
              @@ (c2 :> {"retry"})

TaskSymmetry == Permutations(Task)
=============================================================================
